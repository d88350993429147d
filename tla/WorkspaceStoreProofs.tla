------------------------- MODULE WorkspaceStoreProofs -------------------------
(* Theorems about the tables, for any numbers of threads, workspaces,        *)
(* reservations, turns and contracts.                                        *)
EXTENDS WorkspaceStore, TLAPS

----------------------------------------------------------------------------
(* Typing. *)

\* A live row is a record.
LEMMA LiveRow ==
  ASSUME StoreTypeOK, NEW id \in Reservations, Live(id)
  PROVE  Row(id) \in Reservation
BY DEF StoreTypeOK, Live, Row

\* Changing one row to a record or to no row keeps the type of the table.
LEMMA SetRow ==
  ASSUME StoreTypeOK, NEW id \in Reservations, NEW row \in Reservation \cup {Null}
  PROVE  [reservations EXCEPT ![id] = row] \in [Reservations -> Reservation \cup {Null}]
BY DEF StoreTypeOK

LEMMA SetContext ==
  ASSUME StoreTypeOK, NEW row \in Reservation, CaptureContext(row)
  PROVE  contexts' \in [Threads -> [Turns -> Workspaces \cup {Null}]]
<1>1. CASE HasContext(row)
  <2>1. row.thread \in Threads /\ row.turn \in Turns /\ row.workspace \in Workspaces
    BY <1>1 DEF HasContext, Reservation
  <2> QED BY <1>1, <2>1 DEF StoreTypeOK, CaptureContext
<1>2. CASE ~HasContext(row)
  BY <1>2 DEF StoreTypeOK, CaptureContext
<1> QED BY <1>1, <1>2

LEMMA AcknowledgedType ==
  ASSUME StoreTypeOK, NEW id \in Reservations, Live(id), NEW u \in Turns
  PROVE  Acknowledged(id, u) \in Reservation
<1>1. Row(id) \in Reservation  BY LiveRow
<1> QED BY <1>1 DEF Acknowledged, Reservation, ReservationStates

LEMMA ObservedType ==
  ASSUME NEW row \in Reservation, NEW u \in Turns, NEW b \in BOOLEAN
  PROVE  Observed(row, u, b) \in Reservation
BY DEF Observed, Reservation, ReservationStates

LEMMA ThreadTransactionType ==
  ASSUME StoreTypeOK, ThreadTransaction
  PROVE  StoreTypeOK'
<1>1. PICK t \in Threads :
        \/ \E w \in Workspaces, b \in BOOLEAN : WriteIndex(t, w, b)
        \/ \E w \in Workspaces : SelectRow(t, w) \/ BeginTransition(t, w)
        \/ \E b \in BOOLEAN : WriteArchiveState(t, b)
        \/ \E k \in Contracts : SubmittingTransition(t, k)
        \/ \E u \in Turns, b \in BOOLEAN : ObserveTurn(t, u, b)
        \/ ForgetThread(t)
        \/ FailTransition(t)
        \/ CommitTransition(t)
  BY DEF ThreadTransaction
<1>2. ASSUME NEW w \in Workspaces, NEW b \in BOOLEAN, WriteIndex(t, w, b)  PROVE StoreTypeOK'
  BY <1>2 DEF StoreTypeOK, WriteIndex
<1>3. ASSUME NEW w \in Workspaces, SelectRow(t, w)  PROVE StoreTypeOK'
  BY <1>3 DEF StoreTypeOK, SelectRow
<1>4. ASSUME NEW w \in Workspaces, BeginTransition(t, w)  PROVE StoreTypeOK'
  <2>1. association[t] \in Workspaces
    BY <1>4 DEF StoreTypeOK, BeginTransition, CanBegin
  <2>2. [from |-> association[t], to |-> w, state |-> "preparing", contract |-> Null] \in Transition
    BY <2>1 DEF Transition, TransitionStates
  <2> QED BY <1>4, <2>2 DEF StoreTypeOK, BeginTransition, ChangeTransitions
<1>5. ASSUME NEW b \in BOOLEAN, WriteArchiveState(t, b)  PROVE StoreTypeOK'
  BY <1>5 DEF StoreTypeOK, WriteArchiveState
<1>6. ASSUME NEW k \in Contracts, SubmittingTransition(t, k)  PROVE StoreTypeOK'
  <2>1. transitions[t] \in Transition
    BY <1>6 DEF StoreTypeOK, SubmittingTransition, CanSubmitTransition
  <2>2. [[transitions[t] EXCEPT !.state = "submitting"] EXCEPT !.contract = k] \in Transition
    BY <2>1 DEF Transition, TransitionStates
  <2>3. transitions' = [transitions EXCEPT ![t] =
                          [[transitions[t] EXCEPT !.state = "submitting"] EXCEPT !.contract = k]]
    BY <1>6 DEF SubmittingTransition, ChangeTransitions, StoreTypeOK
  <2> QED BY <1>6, <2>2, <2>3 DEF StoreTypeOK, SubmittingTransition, ChangeTransitions
<1>7. ASSUME NEW u \in Turns, NEW b \in BOOLEAN, ObserveTurn(t, u, b)  PROVE StoreTypeOK'
  <2>1. CASE UNCHANGED storeVars
    BY <2>1 DEF StoreTypeOK, storeVars
  <2>2. ASSUME NEW id \in ReservedBy(t),
               reservations' = [reservations EXCEPT ![id] =
                 IF b /\ Observed(Row(id), u, b).acknowledged THEN Null ELSE Observed(Row(id), u, b)],
               CaptureContext(Observed(Row(id), u, b)),
               UNCHANGED <<association, archivedRow, transitions>>
        PROVE  StoreTypeOK'
    <3>1. id \in Reservations /\ Live(id)  BY DEF ReservedBy
    <3>2. Observed(Row(id), u, b) \in Reservation  BY <3>1, LiveRow, ObservedType
    <3>3. contexts' \in [Threads -> [Turns -> Workspaces \cup {Null}]]  BY <2>2, <3>2, SetContext
    <3> QED BY <2>2, <3>1, <3>2, <3>3 DEF StoreTypeOK
  <2> QED BY <1>7, <2>1, <2>2 DEF ObserveTurn
<1>8. ASSUME ForgetThread(t)  PROVE StoreTypeOK'
  BY <1>8 DEF StoreTypeOK, ForgetThread
<1>9. ASSUME FailTransition(t)  PROVE StoreTypeOK'
  <2>1. (IF transitions[t] = Null \/ transitions[t].state = "preparing" THEN Null
         ELSE [transitions[t] EXCEPT !.state = "uncertain"]) \in Transition \cup {Null}
    BY DEF StoreTypeOK, Transition, TransitionStates
  <2> QED BY <1>9, <2>1 DEF StoreTypeOK, FailTransition, ChangeTransitions
<1>10. ASSUME CommitTransition(t)  PROVE StoreTypeOK'
  <2>1. transitions[t].to \in Workspaces
    BY <1>10 DEF StoreTypeOK, CommitTransition, CanCommit, Transition
  <2> QED BY <1>10, <2>1 DEF StoreTypeOK, CommitTransition
<1> QED BY <1>1, <1>2, <1>3, <1>4, <1>5, <1>6, <1>7, <1>8, <1>9, <1>10

LEMMA AcknowledgeType ==
  ASSUME StoreTypeOK, NEW id \in Reservations, NEW u \in Turns, Acknowledge(id, u)
  PROVE  StoreTypeOK'
<1>1. Live(id)  BY DEF Acknowledge, CanAcknowledge
<1>2. Acknowledged(id, u) \in Reservation  BY <1>1, AcknowledgedType
<1>3. contexts' \in [Threads -> [Turns -> Workspaces \cup {Null}]]  BY <1>2, SetContext DEF Acknowledge
<1> QED BY <1>2, <1>3 DEF StoreTypeOK, Acknowledge

\* Every other change of a reservation row writes one row and no other table.
LEMMA ChangeRowType ==
  ASSUME StoreTypeOK, NEW id \in Reservations, NEW row \in Reservation \cup {Null},
         ChangeReservations([reservations EXCEPT ![id] = row])
  PROVE  StoreTypeOK'
BY SetRow DEF StoreTypeOK, ChangeReservations

\* The columns that transactions update, one at a time.
LEMMA UpdateType ==
  ASSUME StoreTypeOK, NEW id \in Reservations, Live(id)
  PROVE  /\ \A s \in ReservationStates : [Row(id) EXCEPT !.state = s] \in Reservation
         /\ \A t \in Threads : [Row(id) EXCEPT !.thread = t] \in Reservation
         /\ [Row(id) EXCEPT !.acknowledged = TRUE] \in Reservation
<1>1. Row(id) \in Reservation  BY LiveRow
<1> QED BY <1>1 DEF Reservation

LEMMA ReservationTransactionType ==
  ASSUME StoreTypeOK, ReservationTransaction
  PROVE  StoreTypeOK'
<1>1. PICK id \in Reservations :
        \/ \E w \in Workspaces, t \in Threads \cup {Null}, o \in Operations : Reserve(id, w, t, o)
        \/ \E t \in Threads : BindThread(id, t) \/ ConfirmCreation(id, t)
        \/ \E u \in Turns : Acknowledge(id, u) \/ AcknowledgeMaintenance(id, u)
        \/ SubmittingCreation(id)
        \/ Submitting(id)
        \/ Fail(id)
        \/ ConfirmDeletion(id)
        \/ Release(id)
  BY DEF ReservationTransaction
<1>2. ASSUME NEW w \in Workspaces, NEW t \in Threads \cup {Null}, NEW o \in Operations, Reserve(id, w, t, o)
      PROVE  StoreTypeOK'
  <2>1. [workspace |-> w, thread |-> t, turn |-> Null, state |-> "preparing",
         operation |-> o, acknowledged |-> FALSE] \in Reservation
    BY DEF Reservation, ReservationStates
  <2> QED BY <1>2, <2>1, ChangeRowType DEF Reserve
<1>3. ASSUME NEW t \in Threads, BindThread(id, t)  PROVE StoreTypeOK'
  <2>1. Live(id)  BY <1>3 DEF BindThread, CanBind
  <2>2. reservations' = [reservations EXCEPT ![id] = [Row(id) EXCEPT !.thread = t]]
    BY <1>3 DEF BindThread, Row
  <2>3. Row(id).workspace \in Workspaces  BY <2>1, LiveRow DEF Reservation
  <2> QED BY <1>3, <2>1, <2>2, <2>3, UpdateType DEF StoreTypeOK, BindThread
<1>4. ASSUME NEW t \in Threads, ConfirmCreation(id, t)  PROVE StoreTypeOK'
  BY <1>4, ChangeRowType DEF ConfirmCreation
<1>5. ASSUME NEW u \in Turns, Acknowledge(id, u)  PROVE StoreTypeOK'
  BY <1>5, AcknowledgeType
<1>6. ASSUME NEW u \in Turns, AcknowledgeMaintenance(id, u)  PROVE StoreTypeOK'
  <2>1. Live(id)  BY <1>6 DEF AcknowledgeMaintenance, CanAcknowledgeMaintenance
  <2>2. CASE Acknowledge(id, u)  BY <2>2, AcknowledgeType
  <2>3. CASE ChangeReservations([reservations EXCEPT ![id] = Null])  BY <2>3, ChangeRowType
  <2>4. CASE ChangeReservations([reservations EXCEPT ![id] =
               IF Row(id).state = "completed" THEN Null ELSE [@ EXCEPT !.acknowledged = TRUE]])
    <3>1. (IF Row(id).state = "completed" THEN Null ELSE [Row(id) EXCEPT !.acknowledged = TRUE])
            \in Reservation \cup {Null}
      BY <2>1, UpdateType
    <3> QED BY <2>4, <3>1, ChangeRowType DEF Row
  <2> QED BY <1>6, <2>2, <2>3, <2>4 DEF AcknowledgeMaintenance
<1>7. ASSUME NEW s \in ReservationStates, Live(id),
             ChangeReservations([reservations EXCEPT ![id].state = s])
      PROVE  StoreTypeOK'
  <2>1. ChangeReservations([reservations EXCEPT ![id] = [Row(id) EXCEPT !.state = s]])
    BY <1>7 DEF Row
  <2> QED BY <1>7, <2>1, UpdateType, ChangeRowType
<1>8. ASSUME SubmittingCreation(id)  PROVE StoreTypeOK'
  BY <1>7, <1>8 DEF SubmittingCreation, CanSubmitCreation, ReservationStates
<1>9. ASSUME Submitting(id)  PROVE StoreTypeOK'
  BY <1>7, <1>9 DEF Submitting, CanSubmit, ReservationStates
<1>10. ASSUME Fail(id)  PROVE StoreTypeOK'
  <2>1. (IF reservations[id] = Null \/ reservations[id].state \in {"preparing", "completed"} THEN Null
         ELSE [reservations[id] EXCEPT !.state = "uncertain"]) \in Reservation \cup {Null}
    BY UpdateType DEF Live, Row, ReservationStates
  <2> QED BY <1>10, <2>1, ChangeRowType DEF Fail
<1>11. ASSUME ConfirmDeletion(id)  PROVE StoreTypeOK'
  <2>1. Live(id)  BY <1>11 DEF ConfirmDeletion, CanConfirmDeletion
  <2>2. ChangeReservations([reservations EXCEPT ![id] = [Row(id) EXCEPT !.acknowledged = TRUE]])
    BY <1>11 DEF ConfirmDeletion, Row
  <2> QED BY <2>1, <2>2, UpdateType, ChangeRowType
<1>12. ASSUME Release(id)  PROVE StoreTypeOK'
  BY <1>12, ChangeRowType DEF Release
<1> QED BY <1>1, <1>2, <1>3, <1>4, <1>5, <1>6, <1>8, <1>9, <1>10, <1>11, <1>12

LEMMA StoreTypeStep ==
  ASSUME StoreTypeOK, [StoreNext]_storeVars
  PROVE  StoreTypeOK'
<1>1. CASE UNCHANGED storeVars  BY <1>1 DEF StoreTypeOK, storeVars
<1> QED BY <1>1, ThreadTransactionType, ReservationTransactionType DEF StoreNext

\* The columns of the tables keep their types: in particular no transaction
\* writes a state that the CHECK constraints of the schema would refuse.
THEOREM StoreTyping == StoreSpec => []StoreTypeOK
<1>1. StoreInit => StoreTypeOK  BY DEF StoreInit, StoreTypeOK
<1> QED BY <1>1, StoreTypeStep, PTL DEF StoreSpec

----------------------------------------------------------------------------
(* Exclusion.  With the types, StoreInv is inductive as it stands. *)

\* Rows disappear or keep the thread and the location they hold.
KeepsPlaces ==
  \A id \in Reservations :
    \/ reservations'[id] = Null
    \/ /\ reservations[id] # Null
       /\ reservations'[id].thread = reservations[id].thread
       /\ reservations'[id].workspace = reservations[id].workspace

\* Transitions disappear or keep their ends.
KeepsEnds ==
  \A t \in Threads :
    \/ transitions'[t] = Null
    \/ /\ transitions[t] # Null
       /\ transitions'[t].from = transitions[t].from
       /\ transitions'[t].to = transitions[t].to

LEMMA KeepsPlacesReserved ==
  ASSUME KeepsPlaces
  PROVE  /\ \A t \in Threads : ReservedBy(t)' \subseteq ReservedBy(t)
         /\ \A w \in Workspaces : ReservedOn(w)' \subseteq ReservedOn(w)
BY DEF KeepsPlaces, ReservedBy, ReservedOn, Live, Row

\* What such a step leaves of the invariant, when threads stay where they are.
LEMMA KeepsInv ==
  ASSUME StoreTypeOK, StoreInv, KeepsPlaces, KeepsEnds, UNCHANGED association
  PROVE  StoreInv'
<1>1. \A t \in Threads : ReservedBy(t)' \subseteq ReservedBy(t)  BY KeepsPlacesReserved
<1>2. OneReservationPerThread'
  BY <1>1 DEF StoreInv, OneReservationPerThread
<1>3. TransitionExclusive'
  <2> SUFFICES ASSUME NEW t \in Threads, transitions'[t] # Null
               PROVE  /\ association'[t] = transitions'[t].from
                      /\ ReservedBy(t)' = {}
                      /\ \A e \in Ends(t)' : ReservedOn(e)' = {}
                      /\ \A u \in Threads \ {t} : transitions'[u] # Null => Ends(u)' \cap Ends(t)' = {}
    BY DEF TransitionExclusive
  <2>1. /\ transitions[t] # Null
        /\ Ends(t)' = Ends(t)
        /\ transitions'[t].from = transitions[t].from
    BY DEF KeepsEnds, Ends
  <2>2. Ends(t) \subseteq Workspaces
    BY <2>1 DEF StoreTypeOK, Transition, Ends
  <2>3. \A u \in Threads : transitions'[u] # Null => transitions[u] # Null /\ Ends(u)' = Ends(u)
    BY DEF KeepsEnds, Ends
  <2>4. /\ association[t] = transitions[t].from
        /\ ReservedBy(t) = {}
        /\ \A e \in Ends(t) : ReservedOn(e) = {}
        /\ \A u \in Threads \ {t} : transitions[u] # Null => Ends(u) \cap Ends(t) = {}
    BY <2>1 DEF StoreInv, TransitionExclusive
  <2> QED BY <1>1, <2>1, <2>2, <2>3, <2>4, KeepsPlacesReserved
<1> QED BY <1>2, <1>3 DEF StoreInv

LEMMA SameTransitions ==
  ASSUME UNCHANGED transitions
  PROVE  KeepsEnds
BY DEF KeepsEnds

LEMMA SameReservations ==
  ASSUME UNCHANGED reservations
  PROVE  KeepsPlaces
BY DEF KeepsPlaces

\* One row changes, to no row or to one that holds the same thread and location.
LEMMA KeepsRow ==
  ASSUME StoreTypeOK, StoreInv, NEW id \in Reservations, NEW row,
         row = Null \/ (Live(id) /\ row.thread = Row(id).thread /\ row.workspace = Row(id).workspace),
         reservations' = [reservations EXCEPT ![id] = row],
         UNCHANGED <<association, transitions>>
  PROVE  StoreInv'
<1>1. KeepsPlaces  BY DEF KeepsPlaces, StoreTypeOK, Live, Row
<1> QED BY <1>1, KeepsInv, SameTransitions

LEMMA AcknowledgeInv ==
  ASSUME StoreTypeOK, StoreInv, NEW id \in Reservations, NEW u \in Turns, Acknowledge(id, u)
  PROVE  StoreInv'
<1>1. Live(id) /\ Row(id) \in Reservation  BY LiveRow DEF Acknowledge, CanAcknowledge
<1>2. /\ Acknowledged(id, u).thread = Row(id).thread
      /\ Acknowledged(id, u).workspace = Row(id).workspace
  BY <1>1 DEF Acknowledged, Reservation
<1> QED BY <1>1, <1>2, KeepsRow DEF Acknowledge

\* A single column other than the thread keeps what the row holds.
LEMMA ColumnInv ==
  ASSUME StoreTypeOK, StoreInv, NEW id \in Reservations, Live(id), NEW s,
         \/ ChangeReservations([reservations EXCEPT ![id].state = s])
         \/ ChangeReservations([reservations EXCEPT ![id].acknowledged = s])
  PROVE  StoreInv'
<1>1. Row(id) \in Reservation  BY LiveRow
<1>2. /\ [Row(id) EXCEPT !.state = s].thread = Row(id).thread
      /\ [Row(id) EXCEPT !.state = s].workspace = Row(id).workspace
      /\ [Row(id) EXCEPT !.acknowledged = s].thread = Row(id).thread
      /\ [Row(id) EXCEPT !.acknowledged = s].workspace = Row(id).workspace
  BY <1>1 DEF Reservation
<1>3. \/ reservations' = [reservations EXCEPT ![id] = [Row(id) EXCEPT !.state = s]]
      \/ reservations' = [reservations EXCEPT ![id] = [Row(id) EXCEPT !.acknowledged = s]]
  BY DEF ChangeReservations, Row
<1> QED BY <1>2, <1>3, KeepsRow DEF ChangeReservations

LEMMA DeleteRowInv ==
  ASSUME StoreTypeOK, StoreInv, NEW id \in Reservations,
         ChangeReservations([reservations EXCEPT ![id] = Null])
  PROVE  StoreInv'
BY KeepsRow DEF ChangeReservations

LEMMA ReserveInv ==
  ASSUME StoreTypeOK, StoreInv, NEW id \in Reservations, NEW w \in Workspaces,
         NEW t \in Threads \cup {Null}, NEW o \in Operations, Reserve(id, w, t, o)
  PROVE  StoreInv'
<1> DEFINE row == [workspace |-> w, thread |-> t, turn |-> Null, state |-> "preparing",
                   operation |-> o, acknowledged |-> FALSE]
<1>1. row \in Reservation  BY DEF Reservation, ReservationStates
<1>2. /\ reservations' = [reservations EXCEPT ![id] = row]
      /\ association' = association /\ transitions' = transitions
      /\ ~Live(id)
      /\ t # Null => association[t] = w /\ ReservedBy(t) = {} /\ transitions[t] = Null
      /\ ~InTransition(w)
  BY DEF Reserve, ChangeReservations, CanReserve
<1>3. /\ reservations'[id] = row /\ row # Null
      /\ \A i \in Reservations \ {id} : reservations'[i] = reservations[i]
  BY <1>1, <1>2, NullAssumption DEF StoreTypeOK
<1>4. /\ \A u \in Threads : ReservedBy(u)' \subseteq ReservedBy(u) \cup {id}
      /\ \A u \in Threads \ {t} : ReservedBy(u)' = ReservedBy(u)
      /\ \A v \in Workspaces \ {w} : ReservedOn(v)' = ReservedOn(v)
  BY <1>2, <1>3 DEF ReservedBy, ReservedOn, Live, Row
<1>5. OneReservationPerThread'
  <2> SUFFICES ASSUME NEW u \in Threads  PROVE \A a, b \in ReservedBy(u)' : a = b
    BY DEF OneReservationPerThread
  <2>1. CASE u = t
    BY <1>2, <1>4, <2>1, NullAssumption
  <2>2. CASE u # t
    BY <1>4, <2>2 DEF StoreInv, OneReservationPerThread
  <2> QED BY <2>1, <2>2
<1>6. TransitionExclusive'
  <2> SUFFICES ASSUME NEW u \in Threads, transitions[u] # Null
               PROVE  /\ association[u] = transitions[u].from
                      /\ ReservedBy(u)' = {}
                      /\ \A e \in Ends(u) : ReservedOn(e)' = {}
                      /\ \A v \in Threads \ {u} : transitions[v] # Null => Ends(v) \cap Ends(u) = {}
    BY <1>2 DEF TransitionExclusive, Ends
  <2>1. /\ association[u] = transitions[u].from
        /\ ReservedBy(u) = {}
        /\ \A e \in Ends(u) : ReservedOn(e) = {}
        /\ \A v \in Threads \ {u} : transitions[v] # Null => Ends(v) \cap Ends(u) = {}
    BY DEF StoreInv, TransitionExclusive
  <2>2. Ends(u) \subseteq Workspaces \ {w}
    BY <1>2 DEF InTransition, StoreTypeOK, Transition, Ends
  <2>3. u # t
    BY <1>2, NullAssumption
  <2> QED BY <1>4, <2>1, <2>2, <2>3
<1> QED BY <1>5, <1>6 DEF StoreInv

LEMMA BindInv ==
  ASSUME StoreTypeOK, StoreInv, NEW id \in Reservations, NEW t \in Threads, BindThread(id, t)
  PROVE  StoreInv'
<1>1. /\ Live(id) /\ ReservedBy(t) \subseteq {id}
      /\ reservations' = [reservations EXCEPT ![id] = [Row(id) EXCEPT !.thread = t]]
      /\ association' = [association EXCEPT ![t] = Row(id).workspace]
      /\ transitions' = transitions
      /\ association[t] = Row(id).workspace \/ transitions[t] = Null
  BY DEF BindThread, CanBind, Row
<1>2. Row(id) \in Reservation  BY <1>1, LiveRow
<1>3. /\ reservations'[id] # Null
      /\ reservations'[id].thread = t /\ reservations'[id].workspace = Row(id).workspace
      /\ \A i \in Reservations \ {id} : reservations'[i] = reservations[i]
  <2>1. [Row(id) EXCEPT !.thread = t] \in Reservation  BY <1>2 DEF Reservation
  <2>2. [Row(id) EXCEPT !.thread = t].workspace = Row(id).workspace  BY <1>2 DEF Reservation
  <2>3. [Row(id) EXCEPT !.thread = t].thread = t  BY <1>2 DEF Reservation
  <2>4. reservations'[id] = [Row(id) EXCEPT !.thread = t]  BY <1>1 DEF StoreTypeOK
  <2> QED BY <1>1, <2>1, <2>2, <2>3, <2>4, NullAssumption DEF StoreTypeOK
<1>4. transitions[t] = Null
  <2> SUFFICES ASSUME transitions[t] # Null  PROVE FALSE
    OBVIOUS
  <2>1. Row(id).workspace \in Ends(t)
    BY <1>1 DEF StoreInv, TransitionExclusive, Ends
  <2>2. id \in ReservedOn(Row(id).workspace)
    BY <1>1 DEF ReservedOn
  <2> QED BY <2>1, <2>2 DEF StoreInv, TransitionExclusive
<1>5. /\ ReservedBy(t)' = {id}
      /\ \A u \in Threads \ {t} : ReservedBy(u)' \subseteq ReservedBy(u)
      /\ \A w \in Workspaces : ReservedOn(w)' = ReservedOn(w)
  BY <1>1, <1>3 DEF ReservedBy, ReservedOn, Live, Row
<1>6. OneReservationPerThread'
  BY <1>5 DEF StoreInv, OneReservationPerThread
<1>7. TransitionExclusive'
  <2> SUFFICES ASSUME NEW u \in Threads, transitions[u] # Null
               PROVE  /\ association'[u] = transitions[u].from
                      /\ ReservedBy(u)' = {}
                      /\ \A e \in Ends(u) : ReservedOn(e)' = {}
                      /\ \A v \in Threads \ {u} : transitions[v] # Null => Ends(v) \cap Ends(u) = {}
    BY <1>1 DEF TransitionExclusive, Ends
  <2>1. /\ association[u] = transitions[u].from
        /\ ReservedBy(u) = {}
        /\ \A e \in Ends(u) : ReservedOn(e) = {}
        /\ \A v \in Threads \ {u} : transitions[v] # Null => Ends(v) \cap Ends(u) = {}
    BY DEF StoreInv, TransitionExclusive
  <2>2. Ends(u) \subseteq Workspaces
    BY DEF StoreTypeOK, Transition, Ends
  <2>3. u # t /\ association'[u] = association[u]
    BY <1>1, <1>4 DEF StoreTypeOK
  <2> QED BY <1>5, <2>1, <2>2, <2>3
<1> QED BY <1>6, <1>7 DEF StoreInv

\* A thread without a transition may go anywhere.
LEMMA MoveFreeInv ==
  ASSUME StoreTypeOK, StoreInv, NEW t \in Threads, NEW w \in Workspaces \cup {Null},
         transitions[t] = Null,
         association' = [association EXCEPT ![t] = w],
         UNCHANGED <<reservations, transitions>>
  PROVE  StoreInv'
<1>1. /\ \A u \in Threads : ReservedBy(u)' = ReservedBy(u)
      /\ \A e \in Workspaces : ReservedOn(e)' = ReservedOn(e)
  BY DEF ReservedBy, ReservedOn, Live, Row
<1>2. OneReservationPerThread'
  BY <1>1 DEF StoreInv, OneReservationPerThread
<1>3. TransitionExclusive'
  <2> SUFFICES ASSUME NEW u \in Threads, transitions[u] # Null
               PROVE  /\ association'[u] = transitions[u].from
                      /\ ReservedBy(u)' = {}
                      /\ \A e \in Ends(u) : ReservedOn(e)' = {}
                      /\ \A v \in Threads \ {u} : transitions[v] # Null => Ends(v) \cap Ends(u) = {}
    BY DEF TransitionExclusive, Ends
  <2>1. /\ association[u] = transitions[u].from
        /\ ReservedBy(u) = {}
        /\ \A e \in Ends(u) : ReservedOn(e) = {}
        /\ \A v \in Threads \ {u} : transitions[v] # Null => Ends(v) \cap Ends(u) = {}
    BY DEF StoreInv, TransitionExclusive
  <2>2. Ends(u) \subseteq Workspaces
    BY DEF StoreTypeOK, Transition, Ends
  <2>3. association'[u] = association[u]
    BY DEF StoreTypeOK
  <2> QED BY <1>1, <2>1, <2>2, <2>3
<1> QED BY <1>2, <1>3 DEF StoreInv

LEMMA BeginInv ==
  ASSUME StoreTypeOK, StoreInv, NEW t \in Threads, NEW w \in Workspaces, BeginTransition(t, w)
  PROVE  StoreInv'
<1> DEFINE row == [from |-> association[t], to |-> w, state |-> "preparing", contract |-> Null]
<1>1. /\ association[t] \in Workspaces
      /\ ReservedBy(t) = {}
      /\ transitions[t] = Null
      /\ \A e \in {association[t], w} : ReservedOn(e) = {} /\ ~InTransition(e)
      /\ transitions' = [transitions EXCEPT ![t] = row]
      /\ UNCHANGED <<association, reservations>>
  BY DEF BeginTransition, CanBegin, ChangeTransitions, StoreTypeOK
<1>2. row \in Transition  BY <1>1 DEF Transition, TransitionStates
<1>3. /\ transitions'[t] = row
      /\ \A u \in Threads \ {t} : transitions'[u] = transitions[u]
  BY <1>1 DEF StoreTypeOK
<1>4. /\ Ends(t)' = {association[t], w}
      /\ \A u \in Threads \ {t} : Ends(u)' = Ends(u)
  BY <1>3 DEF Ends
<1>5. /\ \A u \in Threads : ReservedBy(u)' = ReservedBy(u)
      /\ \A e \in Workspaces : ReservedOn(e)' = ReservedOn(e)
  BY <1>1 DEF ReservedBy, ReservedOn, Live, Row
<1>6. OneReservationPerThread'
  BY <1>1, <1>5 DEF StoreInv, OneReservationPerThread
<1>7. TransitionExclusive'
  <2> SUFFICES ASSUME NEW u \in Threads, transitions'[u] # Null
               PROVE  /\ association'[u] = transitions'[u].from
                      /\ ReservedBy(u)' = {}
                      /\ \A e \in Ends(u)' : ReservedOn(e)' = {}
                      /\ \A v \in Threads \ {u} : transitions'[v] # Null => Ends(v)' \cap Ends(u)' = {}
    BY DEF TransitionExclusive
  <2>1. \A v \in Threads \ {t} : transitions[v] # Null => Ends(v) \cap {association[t], w} = {}
    BY <1>1 DEF InTransition
  <2>2. CASE u = t
    BY <1>1, <1>3, <1>4, <1>5, <2>1, <2>2
  <2>3. CASE u # t
    <3>1. /\ transitions[u] # Null
          /\ association[u] = transitions[u].from
          /\ ReservedBy(u) = {}
          /\ \A e \in Ends(u) : ReservedOn(e) = {}
          /\ \A v \in Threads \ {u} : transitions[v] # Null => Ends(v) \cap Ends(u) = {}
      BY <1>3, <2>3 DEF StoreInv, TransitionExclusive
    <3>2. Ends(u) \subseteq Workspaces
      BY <3>1 DEF StoreTypeOK, Transition, Ends
    <3>3. Ends(u) \cap {association[t], w} = {}
      BY <2>1, <2>3, <3>1
    <3>4. \A v \in Threads \ {u} : transitions'[v] # Null => Ends(v)' \cap Ends(u)' = {}
      <4> SUFFICES ASSUME NEW v \in Threads \ {u}, transitions'[v] # Null
                   PROVE  Ends(v)' \cap Ends(u)' = {}
        OBVIOUS
      <4>1. CASE v = t  BY <1>4, <2>3, <3>3, <4>1
      <4>2. CASE v # t  BY <1>3, <1>4, <2>3, <3>1, <4>2
      <4> QED BY <4>1, <4>2
    <3> QED BY <1>1, <1>3, <1>4, <1>5, <2>3, <3>1, <3>2, <3>4
  <2> QED BY <2>2, <2>3
<1> QED BY <1>6, <1>7 DEF StoreInv

LEMMA CommitInv ==
  ASSUME StoreTypeOK, StoreInv, NEW t \in Threads, CommitTransition(t)
  PROVE  StoreInv'
<1>1. /\ transitions[t] # Null
      /\ association' = [association EXCEPT ![t] = transitions[t].to]
      /\ transitions' = [transitions EXCEPT ![t] = Null]
      /\ reservations' = reservations
  BY DEF CommitTransition, CanCommit
<1>2. ReservedBy(t) = {}
  BY <1>1 DEF StoreInv, TransitionExclusive
<1>3. /\ transitions'[t] = Null
      /\ \A u \in Threads \ {t} : transitions'[u] = transitions[u] /\ association'[u] = association[u]
  BY <1>1 DEF StoreTypeOK
<1>4. /\ \A u \in Threads : ReservedBy(u)' = ReservedBy(u)
      /\ \A e : ReservedOn(e)' = ReservedOn(e)
  BY <1>1 DEF ReservedBy, ReservedOn, Live, Row
<1>5. OneReservationPerThread'
  BY <1>4 DEF StoreInv, OneReservationPerThread
<1>6. TransitionExclusive'
  <2> SUFFICES ASSUME NEW u \in Threads, transitions'[u] # Null
               PROVE  /\ association'[u] = transitions'[u].from
                      /\ ReservedBy(u)' = {}
                      /\ \A e \in Ends(u)' : ReservedOn(e)' = {}
                      /\ \A v \in Threads \ {u} : transitions'[v] # Null => Ends(v)' \cap Ends(u)' = {}
    BY DEF TransitionExclusive
  <2>1. u # t /\ transitions[u] # Null /\ Ends(u)' = Ends(u)
    BY <1>3 DEF Ends
  <2>2. \A v \in Threads : transitions'[v] # Null => transitions[v] # Null /\ Ends(v)' = Ends(v)
    BY <1>3 DEF Ends
  <2> QED BY <1>3, <1>4, <2>1, <2>2 DEF StoreInv, TransitionExclusive
<1> QED BY <1>5, <1>6 DEF StoreInv

\* The transaction changes at most the state and the contract of a transition.
LEMMA TransitionColumnInv ==
  ASSUME StoreTypeOK, StoreInv, NEW t \in Threads,
         (\E k \in Contracts : SubmittingTransition(t, k)) \/ FailTransition(t)
  PROVE  StoreInv'
<1>1. transitions[t] # Null => transitions[t] \in Transition  BY DEF StoreTypeOK
<1>2. KeepsEnds
  BY <1>1 DEF KeepsEnds, StoreTypeOK, SubmittingTransition, CanSubmitTransition, FailTransition,
              ChangeTransitions, Transition
<1> QED BY <1>2, KeepsInv, SameReservations DEF SubmittingTransition, FailTransition, ChangeTransitions

\* A thread without a row has no transition either.
LEMMA NoRowNoTransition ==
  ASSUME StoreTypeOK, StoreInv, NEW t \in Threads, association[t] = Null
  PROVE  transitions[t] = Null
<1> SUFFICES ASSUME transitions[t] # Null  PROVE FALSE
  OBVIOUS
<1>1. transitions[t].from \in Workspaces  BY DEF StoreTypeOK, Transition
<1>2. association[t] = transitions[t].from  BY DEF StoreInv, TransitionExclusive
<1> QED BY <1>1, <1>2, NullAssumption

LEMMA ThreadTransactionInv ==
  ASSUME StoreTypeOK, StoreInv, ThreadTransaction
  PROVE  StoreInv'
<1>1. PICK t \in Threads :
        \/ \E w \in Workspaces, b \in BOOLEAN : WriteIndex(t, w, b)
        \/ \E w \in Workspaces : SelectRow(t, w) \/ BeginTransition(t, w)
        \/ \E b \in BOOLEAN : WriteArchiveState(t, b)
        \/ \E k \in Contracts : SubmittingTransition(t, k)
        \/ \E u \in Turns, b \in BOOLEAN : ObserveTurn(t, u, b)
        \/ ForgetThread(t)
        \/ FailTransition(t)
        \/ CommitTransition(t)
  BY DEF ThreadTransaction
<1>2. ASSUME NEW w \in Workspaces, NEW b \in BOOLEAN, WriteIndex(t, w, b)  PROVE StoreInv'
  <2>1. CASE association[t] # Null
    <3>1. association' = association  BY <1>2, <2>1 DEF WriteIndex, StoreTypeOK
    <3> QED BY <1>2, <3>1, KeepsInv, SameReservations, SameTransitions DEF WriteIndex
  <2>2. CASE association[t] = Null
    <3>1. transitions[t] = Null  BY <2>2, NoRowNoTransition
    <3> QED BY <1>2, <2>2, <3>1, MoveFreeInv DEF WriteIndex
  <2> QED BY <2>1, <2>2
<1>3. ASSUME NEW w \in Workspaces, SelectRow(t, w)  PROVE StoreInv'
  BY <1>3, MoveFreeInv DEF SelectRow
<1>4. ASSUME NEW w \in Workspaces, BeginTransition(t, w)  PROVE StoreInv'
  BY <1>4, BeginInv
<1>5. ASSUME NEW b \in BOOLEAN, WriteArchiveState(t, b)  PROVE StoreInv'
  BY <1>5, KeepsInv, SameReservations, SameTransitions DEF WriteArchiveState
<1>6. ASSUME NEW u \in Turns, NEW b \in BOOLEAN, ObserveTurn(t, u, b)  PROVE StoreInv'
  <2>1. CASE UNCHANGED storeVars
    BY <2>1, KeepsInv, SameReservations, SameTransitions DEF storeVars
  <2>2. ASSUME NEW id \in ReservedBy(t),
               reservations' = [reservations EXCEPT ![id] =
                 IF b /\ Observed(Row(id), u, b).acknowledged THEN Null ELSE Observed(Row(id), u, b)],
               UNCHANGED <<association, archivedRow, transitions>>
        PROVE  StoreInv'
    <3>1. id \in Reservations /\ Live(id) /\ Row(id) \in Reservation  BY LiveRow DEF ReservedBy
    <3>2. /\ Observed(Row(id), u, b).thread = Row(id).thread
          /\ Observed(Row(id), u, b).workspace = Row(id).workspace
      BY <3>1 DEF Observed, Reservation
    <3> QED BY <2>2, <3>1, <3>2, KeepsRow
  <2> QED BY <1>6, <2>1, <2>2 DEF ObserveTurn
<1>7. ASSUME ForgetThread(t)  PROVE StoreInv'
  BY <1>7, MoveFreeInv DEF ForgetThread
<1> QED BY <1>1, <1>2, <1>3, <1>4, <1>5, <1>6, <1>7, TransitionColumnInv, CommitInv

LEMMA ReservationTransactionInv ==
  ASSUME StoreTypeOK, StoreInv, ReservationTransaction
  PROVE  StoreInv'
<1>1. PICK id \in Reservations :
        \/ \E w \in Workspaces, t \in Threads \cup {Null}, o \in Operations : Reserve(id, w, t, o)
        \/ \E t \in Threads : BindThread(id, t) \/ ConfirmCreation(id, t)
        \/ \E u \in Turns : Acknowledge(id, u) \/ AcknowledgeMaintenance(id, u)
        \/ SubmittingCreation(id)
        \/ Submitting(id)
        \/ Fail(id)
        \/ ConfirmDeletion(id)
        \/ Release(id)
  BY DEF ReservationTransaction
<1>2. ASSUME NEW t \in Threads, ConfirmCreation(id, t)  PROVE StoreInv'
  BY <1>2, DeleteRowInv DEF ConfirmCreation
<1>3. ASSUME NEW u \in Turns, AcknowledgeMaintenance(id, u)  PROVE StoreInv'
  <2>1. Live(id)  BY <1>3 DEF AcknowledgeMaintenance, CanAcknowledgeMaintenance
  <2>2. CASE Acknowledge(id, u)  BY <2>2, AcknowledgeInv
  <2>3. CASE ChangeReservations([reservations EXCEPT ![id] = Null])  BY <2>3, DeleteRowInv
  <2>4. CASE ChangeReservations([reservations EXCEPT ![id] =
               IF Row(id).state = "completed" THEN Null ELSE [@ EXCEPT !.acknowledged = TRUE]])
    <3>1. CASE Row(id).state = "completed"  BY <2>4, <3>1, DeleteRowInv
    <3>2. CASE Row(id).state # "completed"  BY <2>1, <2>4, <3>2, ColumnInv
    <3> QED BY <3>1, <3>2
  <2> QED BY <1>3, <2>2, <2>3, <2>4 DEF AcknowledgeMaintenance
<1>4. ASSUME SubmittingCreation(id) \/ Submitting(id)  PROVE StoreInv'
  BY <1>4, ColumnInv DEF SubmittingCreation, CanSubmitCreation, Submitting, CanSubmit
<1>5. ASSUME Fail(id)  PROVE StoreInv'
  <2>1. CASE ~Live(id) \/ Row(id).state \in {"preparing", "completed"}
    BY <1>5, <2>1, DeleteRowInv DEF Fail, Live, Row
  <2>2. CASE Live(id) /\ Row(id).state \notin {"preparing", "completed"}
    BY <1>5, <2>2, ColumnInv DEF Fail, Live, Row
  <2> QED BY <2>1, <2>2
<1>6. ASSUME ConfirmDeletion(id)  PROVE StoreInv'
  BY <1>6, ColumnInv DEF ConfirmDeletion, CanConfirmDeletion
<1>7. ASSUME Release(id)  PROVE StoreInv'
  BY <1>7, DeleteRowInv DEF Release
<1> QED BY <1>1, <1>2, <1>3, <1>4, <1>5, <1>6, <1>7, ReserveInv, BindInv, AcknowledgeInv

LEMMA StoreInvStep ==
  ASSUME StoreTypeOK, StoreInv, [StoreNext]_storeVars
  PROVE  StoreInv'
<1>1. CASE UNCHANGED storeVars
  BY <1>1, KeepsInv, SameReservations, SameTransitions DEF storeVars
<1> QED BY <1>1, ThreadTransactionInv, ReservationTransactionInv DEF StoreNext

LEMMA StoreInvInit ==
  ASSUME StoreInit
  PROVE  StoreInv
BY DEF StoreInit, StoreInv, OneReservationPerThread, TransitionExclusive, ReservedBy, Live, Row

\* The invariant with its types, in every state.
THEOREM StoreExclusion == StoreSpec => [](StoreTypeOK /\ StoreInv)
<1>1. StoreInit => StoreTypeOK /\ StoreInv  BY StoreInvInit DEF StoreInit, StoreTypeOK
<1>2. StoreTypeOK /\ StoreInv /\ [StoreNext]_storeVars => (StoreTypeOK /\ StoreInv)'
  BY StoreTypeStep, StoreInvStep
<1> QED BY <1>1, <1>2, PTL DEF StoreSpec

\* In every order of the transactions of SqliteWorkspaceCacheRepository a
\* thread has one reservation at most: bindThread included, which gives a
\* reservation its thread long after reserve looked for duplicates.
THEOREM ThreadReservedOnce == StoreSpec => []OneReservationPerThread
BY StoreExclusion, PTL DEF StoreInv

\* A thread that somebody reserved is not taken elsewhere by anybody else: no
\* transaction changes the place of its row but the binding of its own
\* reservation, which brings it to where that reservation runs, and its deletion.
THEOREM ReservedStays == StoreSpec => ReservedThreadStays
<1> DEFINE Stays(id) ==
      LET t == Row(id).thread IN
      Live(id) /\ t # Null /\ association[t] # Null
        => association'[t] \in {association[t], Row(id).workspace, Null}
<1>1. ASSUME StoreTypeOK, StoreInv, [StoreNext]_storeVars, NEW id \in Reservations  PROVE Stays(id)
  <2> DEFINE t == Row(id).thread
  <2> SUFFICES ASSUME Live(id), t # Null, association[t] # Null
               PROVE  association'[t] \in {association[t], Row(id).workspace, Null}
    OBVIOUS
  <2>1. t \in Threads /\ id \in ReservedBy(t)  BY <1>1, LiveRow DEF Reservation, ReservedBy
  <2>2. transitions[t] = Null  BY <1>1, <2>1 DEF StoreInv, TransitionExclusive
  <2> HIDE DEF t
  <2>3. CASE UNCHANGED association  BY <2>3
  <2>4. ASSUME NEW u \in Threads, NEW w \in Workspaces \cup {Null},
               association' = [association EXCEPT ![u] = w], u # t \/ w \in {Row(id).workspace, Null}
        PROVE  association'[t] \in {association[t], Row(id).workspace, Null}
    BY <1>1, <2>1, <2>4 DEF StoreTypeOK
  <2>5. ASSUME NEW u \in Threads, NEW w \in Workspaces, NEW b \in BOOLEAN, WriteIndex(u, w, b)
        PROVE  association'[t] \in {association[t], Row(id).workspace, Null}
    BY <1>1, <2>1, <2>5 DEF WriteIndex, StoreTypeOK
  <2>6. ASSUME NEW u \in Threads, NEW w \in Workspaces, SelectRow(u, w)
        PROVE  association'[t] \in {association[t], Row(id).workspace, Null}
    BY <2>1, <2>4, <2>6 DEF SelectRow
  <2>7. ASSUME NEW u \in Threads, ForgetThread(u)
        PROVE  association'[t] \in {association[t], Row(id).workspace, Null}
    BY <2>4, <2>7 DEF ForgetThread
  <2>8. ASSUME NEW u \in Threads, CommitTransition(u)
        PROVE  association'[t] \in {association[t], Row(id).workspace, Null}
    <3>1. u # t  BY <2>2, <2>8 DEF CommitTransition, CanCommit
    <3>2. transitions[u].to \in Workspaces
      BY <1>1, <2>8 DEF CommitTransition, CanCommit, StoreTypeOK, Transition
    <3> QED BY <2>4, <2>8, <3>1, <3>2 DEF CommitTransition
  <2>9. ASSUME NEW i \in Reservations, NEW u \in Threads, BindThread(i, u)
        PROVE  association'[t] \in {association[t], Row(id).workspace, Null}
    <3>1. Live(i) /\ ReservedBy(u) \subseteq {i}  BY <2>9 DEF BindThread, CanBind
    <3>2. Row(i).workspace \in Workspaces  BY <1>1, <3>1, LiveRow DEF Reservation
    <3>3. u = t => i = id  BY <2>1, <3>1
    <3> QED BY <2>4, <2>9, <3>2, <3>3 DEF BindThread
  <2>10. CASE ThreadTransaction
    BY <2>3, <2>5, <2>6, <2>7, <2>8, <2>10
       DEF ThreadTransaction, BeginTransition, WriteArchiveState, SubmittingTransition, ObserveTurn,
           FailTransition, ChangeTransitions, storeVars
  <2>11. CASE ReservationTransaction
    BY <2>3, <2>9, <2>11
       DEF ReservationTransaction, Reserve, ConfirmCreation, Acknowledge, AcknowledgeMaintenance,
           SubmittingCreation, Submitting, Fail, ConfirmDeletion, Release, ChangeReservations
  <2> QED BY <1>1, <2>3, <2>10, <2>11 DEF StoreNext, storeVars
<1>2. StoreTypeOK /\ StoreInv /\ [StoreNext]_storeVars => \A id \in Reservations : Stays(id)  BY <1>1
<1>3. [](StoreTypeOK /\ StoreInv) /\ [][StoreNext]_storeVars =>
        [][\A id \in Reservations : Stays(id)]_storeVars
  BY <1>2, PTL
<1> QED BY <1>3, StoreExclusion, PTL DEF StoreSpec, ReservedThreadStays

\* A transition has its thread and both of its locations for itself, until it
\* commits or fails: the checks of reserve and begin and the two triggers.
THEOREM TransitionsExclude == StoreSpec => []TransitionExclusive
BY StoreExclusion, PTL DEF StoreInv

----------------------------------------------------------------------------
(* Refinement: the tables implement WorkspaceOwnership, and keep their      *)
(* evidence.                                                               *)

Steps == [Ownership!OwnershipNext]_(Ownership!ownershipVars)

----------------------------------------------------------------------------
(* The mapped state, thread by thread. *)

LEMMA ModeAt ==
  ASSUME NEW t \in Threads
  PROVE  /\ modeOf[t] = IF transitions[t] # Null THEN "moving"
                        ELSE IF ReservedBy(t) # {} THEN "executing" ELSE "free"
         /\ modeOf'[t] = IF transitions'[t] # Null THEN "moving"
                         ELSE IF ReservedBy(t)' # {} THEN "executing" ELSE "free"
         /\ targetOf[t] = IF transitions[t] = Null THEN Null ELSE transitions[t].to
         /\ targetOf'[t] = IF transitions'[t] = Null THEN Null ELSE transitions'[t].to
BY DEF modeOf, targetOf

LEMMA SameModes ==
  ASSUME \A t \in Threads : modeOf'[t] = modeOf[t]
  PROVE  modeOf' = modeOf
BY DEF modeOf

LEMMA SameTargets ==
  ASSUME \A t \in Threads : targetOf'[t] = targetOf[t]
  PROVE  targetOf' = targetOf
BY DEF targetOf

LEMMA OneMode ==
  ASSUME NEW t \in Threads, NEW m, modeOf'[t] = m,
         \A u \in Threads \ {t} : modeOf'[u] = modeOf[u]
  PROVE  modeOf' = [modeOf EXCEPT ![t] = m]
BY DEF modeOf

LEMMA OneTarget ==
  ASSUME NEW t \in Threads, NEW w, targetOf'[t] = w,
         \A u \in Threads \ {t} : targetOf'[u] = targetOf[u]
  PROVE  targetOf' = [targetOf EXCEPT ![t] = w]
BY DEF targetOf

\* What a thread's execution captured is the workspace of its one reservation.
LEMMA CaptureIs ==
  ASSUME NEW t \in Threads, NEW id, ReservedBy(t) = {id}
  PROVE  captureOf[t] = Row(id).workspace
<1>1. (CHOOSE i \in ReservedBy(t) : TRUE) = id  OBVIOUS
<1> QED BY <1>1 DEF captureOf

LEMMA CaptureIsNext ==
  ASSUME NEW t \in Threads, NEW id, ReservedBy(t)' = {id}
  PROVE  captureOf'[t] = reservations'[id].workspace
<1> DEFINE reserved == ReservedBy(t)'
           chosen == CHOOSE i \in reserved : TRUE
<1>1. chosen = id  OBVIOUS
<1>2. captureOf'[t] = IF reserved = {} THEN Null ELSE reservations'[chosen].workspace
  BY DEF captureOf, Row
<1> QED BY <1>1, <1>2

LEMMA CaptureNone ==
  ASSUME NEW t \in Threads
  PROVE  /\ ReservedBy(t) = {} => captureOf[t] = Null
         /\ ReservedBy(t)' = {} => captureOf'[t] = Null
BY DEF captureOf

LEMMA CaptureDomain ==
  /\ captureOf = [t \in Threads |-> captureOf[t]]
  /\ captureOf' = [t \in Threads |-> captureOf'[t]]
BY DEF captureOf

LEMMA OneCapture ==
  ASSUME NEW t \in Threads, NEW w, captureOf'[t] = w,
         \A u \in Threads \ {t} : captureOf'[u] = captureOf[u]
  PROVE  captureOf' = [captureOf EXCEPT ![t] = w]
BY CaptureDomain

\* A thread whose reservations stay, each in its workspace, keeps its capture.
LEMMA SameCapture ==
  ASSUME StoreInv, NEW t \in Threads, ReservedBy(t)' = ReservedBy(t),
         \A id \in ReservedBy(t) : reservations'[id].workspace = Row(id).workspace
  PROVE  captureOf'[t] = captureOf[t]
<1>1. CASE ReservedBy(t) = {}  BY <1>1, CaptureNone
<1>2. ASSUME NEW id \in ReservedBy(t)  PROVE captureOf'[t] = captureOf[t]
  <2>1. ReservedBy(t) = {id}  BY <1>2 DEF StoreInv, OneReservationPerThread
  <2> QED BY <1>2, <2>1, CaptureIs, CaptureIsNext
<1> QED BY <1>1, <1>2

\* Steps that leave the place and the bindings alone do nothing.
LEMMA SameBindings ==
  ASSUME StoreInv, UNCHANGED <<association, transitions>>,
         \A t \in Threads : ReservedBy(t)' = ReservedBy(t),
         \A t \in Threads : \A id \in ReservedBy(t) : reservations'[id].workspace = Row(id).workspace
  PROVE  Steps
<1>1. modeOf' = modeOf  BY ModeAt, SameModes
<1>2. targetOf' = targetOf  BY ModeAt, SameTargets
<1>3. \A t \in Threads : captureOf'[t] = captureOf[t]  BY SameCapture
<1>4. captureOf' = captureOf  BY <1>3 DEF captureOf
<1> QED BY <1>1, <1>2, <1>4 DEF Steps, Ownership!ownershipVars

\* The thread goes elsewhere, the rows stay.
LEMMA MovedThread ==
  ASSUME UNCHANGED <<reservations, transitions>>
  PROVE  modeOf' = modeOf /\ targetOf' = targetOf /\ captureOf' = captureOf
BY DEF modeOf, targetOf, captureOf, ReservedBy, Live, Row

\* Steps that leave the rows alone, and the places, do nothing.
LEMMA RowsAlone ==
  ASSUME UNCHANGED <<association, reservations, transitions>>
  PROVE  Steps
BY MovedThread DEF Steps, Ownership!ownershipVars

\* A thread with a reservation does not move, nor does any thread to or from
\* the location of a reservation.
LEMMA ReservedIsStill ==
  ASSUME StoreTypeOK, StoreInv, NEW id \in Reservations, Live(id)
  PROVE  /\ \A t \in Threads : Row(id).thread = t => transitions[t] = Null /\ ReservedBy(t) = {id}
         /\ ~InTransition(Row(id).workspace)
<1>1. ASSUME NEW t \in Threads, Row(id).thread = t  PROVE transitions[t] = Null /\ ReservedBy(t) = {id}
  <2>1. id \in ReservedBy(t)  BY <1>1 DEF ReservedBy
  <2>2. ReservedBy(t) = {id}  BY <2>1 DEF StoreInv, OneReservationPerThread, ReservedBy
  <2> QED BY <2>1, <2>2 DEF StoreInv, TransitionExclusive
<1>2. ~InTransition(Row(id).workspace)
  <2>1. id \in ReservedOn(Row(id).workspace)  BY DEF ReservedOn
  <2> QED BY <2>1 DEF StoreInv, TransitionExclusive, InTransition
<1> QED BY <1>1, <1>2

LEMMA MovesIsTransition ==
  ASSUME StoreTypeOK, StoreInv, NEW w \in Workspaces, ~InTransition(w)
  PROVE  ~Ownership!MovesAt(w)
<1> SUFFICES ASSUME NEW t \in Threads, modeOf[t] = "moving", w \in {association[t], targetOf[t]}
             PROVE  FALSE
  BY DEF Ownership!MovesAt
<1>1. transitions[t] # Null  BY ModeAt
<1>2. association[t] = transitions[t].from /\ targetOf[t] = transitions[t].to
  BY <1>1, ModeAt DEF StoreInv, TransitionExclusive
<1> QED BY <1>1, <1>2 DEF InTransition, Ends

LEMMA ExecutesIsReserved ==
  ASSUME StoreTypeOK, StoreInv, NEW w \in Workspaces, ReservedOn(w) = {}
  PROVE  ~Ownership!ExecutesAt(w)
<1> SUFFICES ASSUME NEW t \in Threads, modeOf[t] = "executing", w = captureOf[t]
             PROVE  FALSE
  BY DEF Ownership!ExecutesAt
<1>1. PICK id \in ReservedBy(t) : TRUE  BY ModeAt
<1>2. id \in Reservations /\ Live(id)  BY <1>1 DEF ReservedBy
<1>3. ReservedBy(t) = {id}  BY <1>1 DEF StoreInv, OneReservationPerThread
<1>4. Row(id).workspace = w  BY <1>3, CaptureIs
<1> QED BY <1>2, <1>4 DEF ReservedOn

----------------------------------------------------------------------------
(* Transactions on one reservation row. *)

\* The row stays bound as it was.
LEMMA KeptRow ==
  ASSUME StoreTypeOK, StoreInv, NEW id \in Reservations, NEW row \in Reservation,
         Live(id), row.thread = Row(id).thread, row.workspace = Row(id).workspace,
         reservations' = [reservations EXCEPT ![id] = row],
         UNCHANGED <<association, transitions>>
  PROVE  Steps
<1>1. reservations'[id] = row /\ \A i \in Reservations \ {id} : reservations'[i] = reservations[i]
  BY DEF StoreTypeOK
<1>2. \A t \in Threads : ReservedBy(t)' = ReservedBy(t)
  BY <1>1, NullAssumption DEF ReservedBy, Live, Row
<1>3. \A i \in Reservations : Live(i) => reservations'[i].workspace = Row(i).workspace
  BY <1>1 DEF Row
<1> QED BY <1>2, <1>3, SameBindings DEF ReservedBy

\* The row disappears: its thread, if it had one, comes to rest.
LEMMA DeletedRow ==
  ASSUME StoreTypeOK, StoreInv, NEW id \in Reservations,
         reservations' = [reservations EXCEPT ![id] = Null],
         UNCHANGED <<association, transitions>>
  PROVE  Steps
<1>1. reservations'[id] = Null /\ \A i \in Reservations \ {id} : reservations'[i] = reservations[i]
  BY DEF StoreTypeOK
<1>2. \A t \in Threads : ReservedBy(t)' = ReservedBy(t) \ {id}
  BY <1>1 DEF ReservedBy, Live, Row
<1>3. CASE Live(id) /\ Row(id).thread \in Threads
  <2> DEFINE t == Row(id).thread
  <2>1. transitions[t] = Null /\ ReservedBy(t) = {id}  BY <1>3, ReservedIsStill
  <2>2. \A u \in Threads \ {t} : id \notin ReservedBy(u)  BY DEF ReservedBy
  <2>3. modeOf[t] = "executing"  BY <1>3, <2>1, ModeAt
  <2>4. modeOf' = [modeOf EXCEPT ![t] = "free"]
    <3>1. modeOf'[t] = "free"  BY <1>2, <1>3, <2>1, ModeAt
    <3>2. \A u \in Threads \ {t} : modeOf'[u] = modeOf[u]  BY <1>2, <2>2, ModeAt
    <3> QED BY <1>3, <3>1, <3>2, OneMode
  <2>5. targetOf' = targetOf  BY ModeAt, SameTargets
  <2>6. captureOf' = [captureOf EXCEPT ![t] = Null]
    <3>1. captureOf'[t] = Null  BY <1>2, <1>3, <2>1, CaptureNone
    <3>2. ASSUME NEW u \in Threads \ {t}  PROVE captureOf'[u] = captureOf[u]
      <4>1. ReservedBy(u)' = ReservedBy(u)  BY <1>2, <2>2
      <4>2. \A i \in ReservedBy(u) : reservations'[i].workspace = Row(i).workspace
        BY <1>1, <2>2 DEF ReservedBy, Row
      <4> QED BY <4>1, <4>2, SameCapture
    <3> QED BY <1>3, <3>1, <3>2, OneCapture
  <2>7. Ownership!Rest(t)  BY <2>3, <2>4, <2>5, <2>6 DEF Ownership!Rest
  <2> QED BY <1>3, <2>7 DEF Steps, Ownership!OwnershipNext
<1>4. CASE ~(Live(id) /\ Row(id).thread \in Threads)
  <2>1. \A t \in Threads : id \notin ReservedBy(t)  BY <1>4 DEF ReservedBy
  <2>2. \A t \in Threads : \A i \in ReservedBy(t) : reservations'[i].workspace = Row(i).workspace
    BY <1>1, <2>1 DEF ReservedBy, Row
  <2> QED BY <1>2, <2>1, <2>2, SameBindings
<1> QED BY <1>3, <1>4

LEMMA ReserveSteps ==
  ASSUME StoreTypeOK, StoreInv, NEW id \in Reservations, NEW w \in Workspaces,
         NEW t \in Threads \cup {Null}, NEW o \in Operations, Reserve(id, w, t, o)
  PROVE  Steps
<1> DEFINE row == [workspace |-> w, thread |-> t, turn |-> Null, state |-> "preparing",
                   operation |-> o, acknowledged |-> FALSE]
<1>1. /\ ~Live(id) /\ CanReserve(w, t)
      /\ reservations' = [reservations EXCEPT ![id] = row]
      /\ UNCHANGED <<association, transitions>>
  BY DEF Reserve, ChangeReservations
<1>2. row \in Reservation  BY DEF Reservation, ReservationStates
<1>3. reservations'[id] = row /\ \A i \in Reservations \ {id} : reservations'[i] = reservations[i]
  BY <1>1 DEF StoreTypeOK
<1>4. \A u \in Threads : ReservedBy(u)' = ReservedBy(u) \cup (IF u = t THEN {id} ELSE {})
  <2>1. row # Null /\ row.thread = t  BY <1>2, NullAssumption
  <2> HIDE DEF row
  <2>2. Row(id)' # Null /\ Row(id)'.thread = t  BY <1>3, <2>1 DEF Row
  <2>3. \A i \in Reservations \ {id} : Row(i)' = Row(i)  BY <1>3 DEF Row
  <2> QED BY <1>1, <2>2, <2>3 DEF ReservedBy, Live
<1> HIDE DEF row
<1>7. \A u \in Threads : \A i \in ReservedBy(u) : reservations'[i].workspace = Row(i).workspace
  BY <1>1, <1>3 DEF ReservedBy, Row
<1>5. CASE t = Null
  <2>1. \A u \in Threads : u # t  BY <1>5, NullAssumption
  <2> QED BY <1>1, <1>4, <1>7, <2>1, SameBindings
<1>6. CASE t # Null
  <2>1. /\ t \in Threads
        /\ association[t] = w /\ ReservedBy(t) = {} /\ transitions[t] = Null
        /\ ~InTransition(w)
    BY <1>1, <1>6 DEF CanReserve
  <2>2. modeOf[t] = "free"  BY <2>1, ModeAt
  <2>3. modeOf' = [modeOf EXCEPT ![t] = "executing"]
    <3>1. modeOf'[t] = "executing"  BY <1>1, <1>4, <2>1, ModeAt
    <3>2. \A u \in Threads \ {t} : modeOf'[u] = modeOf[u]  BY <1>1, <1>4, ModeAt
    <3> QED BY <2>1, <3>1, <3>2, OneMode
  <2>4. targetOf' = targetOf  BY <1>1, ModeAt, SameTargets
  <2>5. association' = [association EXCEPT ![t] = w]  BY <1>1, <2>1 DEF StoreTypeOK
  <2>6. captureOf' = [captureOf EXCEPT ![t] = w]
    <3>1. captureOf'[t] = w
      <4>1. ReservedBy(t)' = {id}  BY <1>4, <2>1
      <4>2. reservations'[id].workspace = w  BY <1>3 DEF row
      <4> QED BY <2>1, <4>1, <4>2, CaptureIsNext
    <3>2. \A u \in Threads \ {t} : captureOf'[u] = captureOf[u]  BY <1>4, <1>7, SameCapture
    <3> QED BY <2>1, <3>1, <3>2, OneCapture
  <2>7. Ownership!Execute(t, w)
    BY <2>1, <2>2, <2>3, <2>4, <2>5, <2>6, MovesIsTransition DEF Ownership!Execute
  <2> QED BY <2>1, <2>7 DEF Steps, Ownership!OwnershipNext
<1> QED BY <1>5, <1>6

LEMMA BindSteps ==
  ASSUME StoreTypeOK, StoreInv, NEW id \in Reservations, NEW t \in Threads, BindThread(id, t)
  PROVE  Steps
<1> DEFINE w == Row(id).workspace
<1>1. /\ Live(id) /\ ReservedBy(t) \subseteq {id} /\ association[t] # Null
      /\ association[t] = w \/ transitions[t] = Null
      /\ association' = [association EXCEPT ![t] = w]
      /\ reservations' = [reservations EXCEPT ![id] = [Row(id) EXCEPT !.thread = t]]
      /\ transitions' = transitions
  BY DEF BindThread, CanBind, Row
<1>2. Row(id) \in Reservation /\ w \in Workspaces  BY <1>1, LiveRow DEF Reservation
<1>3. /\ [Row(id) EXCEPT !.thread = t] \in Reservation
      /\ [Row(id) EXCEPT !.thread = t].thread = t /\ [Row(id) EXCEPT !.thread = t].workspace = w
  BY <1>2 DEF Reservation
<1>4. /\ reservations'[id] = [Row(id) EXCEPT !.thread = t]
      /\ \A i \in Reservations \ {id} : reservations'[i] = reservations[i]
  BY <1>1 DEF StoreTypeOK
<1>5. \A u \in Threads : ReservedBy(u)' = (ReservedBy(u) \ {id}) \cup (IF u = t THEN {id} ELSE {})
  BY <1>3, <1>4, NullAssumption DEF ReservedBy, Live, Row
<1>6. ~InTransition(w) /\ ~Ownership!MovesAt(w)
  BY <1>1, <1>2, ReservedIsStill, MovesIsTransition
<1>7. transitions[t] = Null
  <2> SUFFICES ASSUME transitions[t] # Null  PROVE FALSE
    OBVIOUS
  <2> QED BY <1>1, <1>6 DEF StoreInv, TransitionExclusive, InTransition, Ends
<1>8. targetOf' = targetOf  BY <1>1, ModeAt, SameTargets
<1>11. reservations'[id].workspace = w  BY <1>3, <1>4
<1>12. \A i \in Reservations : reservations'[i].workspace = Row(i).workspace
  BY <1>4, <1>11 DEF Row
<1>13. ASSUME NEW u \in Threads, ReservedBy(u)' = ReservedBy(u)  PROVE captureOf'[u] = captureOf[u]
  BY <1>12, <1>13, SameCapture DEF ReservedBy
<1>14. captureOf'[t] = w
  <2>1. ReservedBy(t)' = {id}  BY <1>1, <1>5
  <2> QED BY <1>11, <2>1, CaptureIsNext
<1> HIDE DEF w
<1>9. CASE Row(id).thread = t
  <2>1. id \in ReservedBy(t)  BY <1>1, <1>9 DEF ReservedBy
  <2>2. \A u \in Threads \ {t} : id \notin ReservedBy(u)  BY <1>9 DEF ReservedBy
  <2>3. \A u \in Threads : ReservedBy(u)' = ReservedBy(u)  BY <1>5, <2>1, <2>2
  <2>4. modeOf' = modeOf  BY <1>1, <2>3, ModeAt, SameModes
  <2>5. captureOf' = captureOf
    <3>1. \A u \in Threads : captureOf'[u] = captureOf[u]  BY <1>13, <2>3
    <3> QED BY <3>1 DEF captureOf
  <2>6. modeOf[t] = "executing" /\ captureOf[t] = w
    <3>1. captureOf[t] = captureOf'[t]  BY <2>5
    <3> QED BY <1>7, <1>14, <2>1, <3>1, ModeAt
  <2>7. Ownership!Return(t)  BY <1>1, <1>8, <2>4, <2>5, <2>6 DEF Ownership!Return
  <2> QED BY <2>7 DEF Steps, Ownership!OwnershipNext
<1>10. CASE Row(id).thread # t
  <2>1. modeOf[t] = "free"
    <3>1. ReservedBy(t) = {}  BY <1>1, <1>10 DEF ReservedBy
    <3> QED BY <1>7, <3>1, ModeAt
  <2>2. modeOf'[t] = "executing"  BY <1>1, <1>5, <1>7, ModeAt
  <2>3. CASE Row(id).thread = Null
    <3>1. \A u \in Threads \ {t} : id \notin ReservedBy(u)
      BY <2>3, NullAssumption DEF ReservedBy
    <3>2. \A u \in Threads \ {t} : modeOf'[u] = modeOf[u]  BY <1>1, <1>5, <3>1, ModeAt
    <3>3. modeOf' = [modeOf EXCEPT ![t] = "executing"]  BY <2>2, <3>2, OneMode
    <3>5. \A u \in Threads \ {t} : captureOf'[u] = captureOf[u]  BY <1>5, <1>13, <3>1
    <3>6. captureOf' = [captureOf EXCEPT ![t] = w]  BY <1>14, <3>5, OneCapture
    <3>4. Ownership!Execute(t, w)
      BY <1>1, <1>6, <1>8, <2>1, <3>3, <3>6 DEF Ownership!Execute
    <3> QED BY <1>2, <3>4 DEF Steps, Ownership!OwnershipNext
  <2>4. CASE Row(id).thread # Null
    <3>1. PICK v \in Threads \ {t} : v = Row(id).thread  BY <1>2, <1>10, <2>4 DEF Reservation
    <3>2. transitions[v] = Null /\ ReservedBy(v) = {id}  BY <1>1, <3>1, ReservedIsStill
    <3>3. modeOf[v] = "executing" /\ modeOf'[v] = "free"
      BY <1>1, <1>5, <3>1, <3>2, ModeAt
    <3>4. \A u \in Threads \ {t, v} : id \notin ReservedBy(u)  BY <3>1 DEF ReservedBy
    <3>5. \A u \in Threads \ {t, v} : modeOf'[u] = modeOf[u]  BY <1>1, <1>5, <3>4, ModeAt
    <3>6. modeOf' = [modeOf EXCEPT ![v] = "free", ![t] = "executing"]
      BY <2>2, <3>1, <3>3, <3>5 DEF modeOf
    <3>8. captureOf[v] = w  BY <3>1, <3>2, CaptureIs DEF w
    <3>9. ReservedBy(v)' = {}  BY <1>5, <3>1, <3>2
    <3>10. captureOf'[v] = Null  BY <3>1, <3>9, CaptureNone
    <3>11. \A u \in Threads \ {t, v} : captureOf'[u] = captureOf[u]  BY <1>5, <1>13, <3>4
    <3>12. captureOf' = [captureOf EXCEPT ![v] = Null, ![t] = w]
      BY <1>14, <3>1, <3>10, <3>11, CaptureDomain
    <3>7. Ownership!Handover(v, t)
      BY <1>1, <1>6, <1>8, <2>1, <3>3, <3>6, <3>8, <3>12 DEF Ownership!Handover
    <3> QED BY <3>1, <3>7 DEF Steps, Ownership!OwnershipNext
  <2> QED BY <2>3, <2>4
<1> QED BY <1>9, <1>10

LEMMA AcknowledgeSteps ==
  ASSUME StoreTypeOK, StoreInv, NEW id \in Reservations, NEW u \in Turns, Acknowledge(id, u)
  PROVE  Steps
<1>1. Live(id)  BY DEF Acknowledge, CanAcknowledge
<1>2. Acknowledged(id, u) \in Reservation  BY <1>1, AcknowledgedType
<1>3. /\ Acknowledged(id, u).thread = Row(id).thread
      /\ Acknowledged(id, u).workspace = Row(id).workspace
  BY <1>1, LiveRow DEF Acknowledged, Reservation
<1>4. CASE Row(id).state = "completed"  BY <1>4, DeletedRow DEF Acknowledge
<1>5. CASE Row(id).state # "completed"  BY <1>1, <1>2, <1>3, <1>5, KeptRow DEF Acknowledge
<1> QED BY <1>4, <1>5

\* A single column other than the thread changes.
LEMMA ColumnSteps ==
  ASSUME StoreTypeOK, StoreInv, NEW id \in Reservations, Live(id), NEW s \in ReservationStates,
         \/ ChangeReservations([reservations EXCEPT ![id].state = s])
         \/ ChangeReservations([reservations EXCEPT ![id].acknowledged = TRUE])
  PROVE  Steps
<1>1. /\ [Row(id) EXCEPT !.state = s] \in Reservation
      /\ [Row(id) EXCEPT !.acknowledged = TRUE] \in Reservation
  BY UpdateType
<1>2. /\ [Row(id) EXCEPT !.state = s].thread = Row(id).thread
      /\ [Row(id) EXCEPT !.state = s].workspace = Row(id).workspace
      /\ [Row(id) EXCEPT !.acknowledged = TRUE].thread = Row(id).thread
      /\ [Row(id) EXCEPT !.acknowledged = TRUE].workspace = Row(id).workspace
  BY LiveRow DEF Reservation
<1>3. \/ reservations' = [reservations EXCEPT ![id] = [Row(id) EXCEPT !.state = s]]
      \/ reservations' = [reservations EXCEPT ![id] = [Row(id) EXCEPT !.acknowledged = TRUE]]
  BY DEF ChangeReservations, Row
<1> QED BY <1>1, <1>2, <1>3, KeptRow DEF ChangeReservations

LEMMA ReservationTransactionSteps ==
  ASSUME StoreTypeOK, StoreInv, ReservationTransaction
  PROVE  Steps
<1>1. PICK id \in Reservations :
        \/ \E w \in Workspaces, t \in Threads \cup {Null}, o \in Operations : Reserve(id, w, t, o)
        \/ \E t \in Threads : BindThread(id, t) \/ ConfirmCreation(id, t)
        \/ \E u \in Turns : Acknowledge(id, u) \/ AcknowledgeMaintenance(id, u)
        \/ SubmittingCreation(id)
        \/ Submitting(id)
        \/ Fail(id)
        \/ ConfirmDeletion(id)
        \/ Release(id)
  BY DEF ReservationTransaction
<1>2. ASSUME ChangeReservations([reservations EXCEPT ![id] = Null])  PROVE Steps
  BY <1>2, DeletedRow DEF ChangeReservations
<1>3. ASSUME NEW t \in Threads, ConfirmCreation(id, t)  PROVE Steps
  BY <1>2, <1>3 DEF ConfirmCreation
<1>4. ASSUME NEW u \in Turns, AcknowledgeMaintenance(id, u)  PROVE Steps
  <2>1. Live(id)  BY <1>4 DEF AcknowledgeMaintenance, CanAcknowledgeMaintenance
  <2>2. CASE Acknowledge(id, u)  BY <2>2, AcknowledgeSteps
  <2>3. CASE ChangeReservations([reservations EXCEPT ![id] = Null])  BY <1>2, <2>3
  <2>4. CASE ChangeReservations([reservations EXCEPT ![id] =
               IF Row(id).state = "completed" THEN Null ELSE [@ EXCEPT !.acknowledged = TRUE]])
    <3>1. CASE Row(id).state = "completed"  BY <1>2, <2>4, <3>1
    <3>2. CASE Row(id).state # "completed"  BY <2>1, <2>4, <3>2, ColumnSteps DEF ReservationStates
    <3> QED BY <3>1, <3>2
  <2> QED BY <1>4, <2>2, <2>3, <2>4 DEF AcknowledgeMaintenance
<1>5. ASSUME SubmittingCreation(id) \/ Submitting(id)  PROVE Steps
  BY <1>5, ColumnSteps DEF SubmittingCreation, CanSubmitCreation, Submitting, CanSubmit, ReservationStates
<1>6. ASSUME Fail(id)  PROVE Steps
  <2>1. CASE ~Live(id) \/ Row(id).state \in {"preparing", "completed"}
    BY <1>2, <1>6, <2>1 DEF Fail, Live, Row
  <2>2. CASE Live(id) /\ Row(id).state \notin {"preparing", "completed"}
    BY <1>6, <2>2, ColumnSteps DEF Fail, Live, Row, ReservationStates
  <2> QED BY <2>1, <2>2
<1>7. ASSUME ConfirmDeletion(id)  PROVE Steps
  BY <1>7, ColumnSteps DEF ConfirmDeletion, CanConfirmDeletion, ReservationStates
<1>8. ASSUME Release(id)  PROVE Steps
  BY <1>2, <1>8 DEF Release
<1> QED BY <1>1, <1>3, <1>4, <1>5, <1>6, <1>7, <1>8, ReserveSteps, BindSteps, AcknowledgeSteps

----------------------------------------------------------------------------
(* Transactions on one thread. *)

LEMMA SettleSteps ==
  ASSUME NEW t \in Threads, NEW w \in Workspaces, transitions[t] = Null,
         ReservedBy(t) = {} \/ association[t] = Null,
         association' = [association EXCEPT ![t] = w],
         UNCHANGED <<reservations, transitions>>
  PROVE  Steps
<1>1. Ownership!Settle(t, w)  BY MovedThread, ModeAt DEF Ownership!Settle
<1> QED BY <1>1 DEF Steps, Ownership!OwnershipNext

LEMMA BeginSteps ==
  ASSUME StoreTypeOK, StoreInv, NEW t \in Threads, NEW w \in Workspaces, BeginTransition(t, w)
  PROVE  Steps
<1> DEFINE row == [from |-> association[t], to |-> w, state |-> "preparing", contract |-> Null]
<1>1. /\ association[t] \in Workspaces /\ association[t] # Null
      /\ ReservedBy(t) = {}
      /\ transitions[t] = Null
      /\ \A e \in {association[t], w} : ReservedOn(e) = {} /\ ~InTransition(e)
      /\ transitions' = [transitions EXCEPT ![t] = row]
      /\ UNCHANGED <<association, reservations>>
  BY DEF BeginTransition, CanBegin, ChangeTransitions, StoreTypeOK
<1>2. row \in Transition /\ row # Null
  BY <1>1, NullAssumption DEF Transition, TransitionStates
<1>3. transitions'[t] = row /\ \A u \in Threads \ {t} : transitions'[u] = transitions[u]
  BY <1>1 DEF StoreTypeOK
<1>4. \A u \in Threads : ReservedBy(u)' = ReservedBy(u)  BY <1>1 DEF ReservedBy, Live, Row
<1>5. modeOf[t] = "free" /\ modeOf'[t] = "moving"  BY <1>1, <1>2, <1>3, ModeAt
<1>6. modeOf' = [modeOf EXCEPT ![t] = "moving"]
  <2>1. \A u \in Threads \ {t} : modeOf'[u] = modeOf[u]  BY <1>3, <1>4, ModeAt
  <2> QED BY <1>5, <2>1, OneMode
<1>7. targetOf' = [targetOf EXCEPT ![t] = w]
  <2>1. targetOf'[t] = w  BY <1>2, <1>3, ModeAt
  <2>2. \A u \in Threads \ {t} : targetOf'[u] = targetOf[u]  BY <1>3, ModeAt
  <2> QED BY <2>1, <2>2, OneTarget
<1>8. \A e \in {association[t], w} : ~Ownership!ExecutesAt(e) /\ ~Ownership!MovesAt(e)
  BY <1>1, ExecutesIsReserved, MovesIsTransition
<1>10. captureOf' = captureOf  BY <1>1 DEF captureOf, ReservedBy, Live, Row
<1>9. Ownership!BeginMove(t, w)
  BY <1>1, <1>5, <1>6, <1>7, <1>8, <1>10 DEF Ownership!BeginMove
<1> QED BY <1>9 DEF Steps, Ownership!OwnershipNext

\* The transition disappears and leaves the thread at one of its ends.
LEMMA EndSteps ==
  ASSUME StoreTypeOK, StoreInv, NEW t \in Threads, NEW w \in Ends(t), transitions[t] # Null,
         association' = [association EXCEPT ![t] = w],
         transitions' = [transitions EXCEPT ![t] = Null],
         UNCHANGED reservations
  PROVE  Steps
<1>1. transitions'[t] = Null /\ \A u \in Threads \ {t} : transitions'[u] = transitions[u]
  BY DEF StoreTypeOK
<1>2. \A u \in Threads : ReservedBy(u)' = ReservedBy(u)  BY DEF ReservedBy, Live, Row
<1>3. association[t] = transitions[t].from /\ ReservedBy(t) = {}
  BY DEF StoreInv, TransitionExclusive
<1>4. modeOf[t] = "moving" /\ modeOf'[t] = "free"  BY <1>1, <1>2, <1>3, ModeAt
<1>5. modeOf' = [modeOf EXCEPT ![t] = "free"]
  <2>1. \A u \in Threads \ {t} : modeOf'[u] = modeOf[u]  BY <1>1, <1>2, ModeAt
  <2> QED BY <1>4, <2>1, OneMode
<1>6. targetOf' = [targetOf EXCEPT ![t] = Null]
  <2>1. targetOf'[t] = Null  BY <1>1, ModeAt
  <2>2. \A u \in Threads \ {t} : targetOf'[u] = targetOf[u]  BY <1>1, ModeAt
  <2> QED BY <2>1, <2>2, OneTarget
<1>7. w \in {association[t], targetOf[t]} /\ w \in Workspaces
  BY <1>3, ModeAt DEF Ends, StoreTypeOK, Transition
<1>9. captureOf' = captureOf  BY DEF captureOf, ReservedBy, Live, Row
<1>8. Ownership!EndMove(t, w)  BY <1>4, <1>5, <1>6, <1>7, <1>9 DEF Ownership!EndMove
<1> QED BY <1>7, <1>8 DEF Steps, Ownership!OwnershipNext

\* The transition changes its state or its contract only.
LEMMA KeptTransition ==
  ASSUME StoreTypeOK, NEW t \in Threads, NEW row \in Transition,
         transitions[t] # Null, row.to = transitions[t].to,
         transitions' = [transitions EXCEPT ![t] = row],
         UNCHANGED <<association, reservations>>
  PROVE  Steps
<1>1. transitions'[t] = row /\ \A u \in Threads \ {t} : transitions'[u] = transitions[u]
  BY DEF StoreTypeOK
<1>2. \A u \in Threads : ReservedBy(u)' = ReservedBy(u)  BY DEF ReservedBy, Live, Row
<1>3. row # Null  BY NullAssumption
<1>4. \A u \in Threads : modeOf'[u] = modeOf[u] /\ targetOf'[u] = targetOf[u]
  BY <1>1, <1>2, <1>3, ModeAt
<1>5. modeOf' = modeOf /\ targetOf' = targetOf
  BY <1>4, SameModes, SameTargets
<1>6. captureOf' = captureOf  BY DEF captureOf, ReservedBy, Live, Row
<1> QED BY <1>5, <1>6 DEF Steps, Ownership!ownershipVars

LEMMA FailTransitionSteps ==
  ASSUME StoreTypeOK, StoreInv, NEW t \in Threads, FailTransition(t)
  PROVE  Steps
<1>1. /\ transitions' = [transitions EXCEPT ![t] =
           IF transitions[t] = Null \/ transitions[t].state = "preparing" THEN Null
           ELSE [transitions[t] EXCEPT !.state = "uncertain"]]
      /\ UNCHANGED <<association, reservations>>
  BY DEF FailTransition, ChangeTransitions
<1>2. CASE transitions[t] = Null
  <2>1. transitions' = transitions  BY <1>1, <1>2 DEF StoreTypeOK
  <2> QED BY <1>1, <2>1, RowsAlone
<1>3. CASE transitions[t] # Null /\ transitions[t].state = "preparing"
  <2>1. association[t] = transitions[t].from  BY <1>3 DEF StoreInv, TransitionExclusive
  <2>2. association' = [association EXCEPT ![t] = transitions[t].from]
    BY <1>1, <2>1 DEF StoreTypeOK
  <2>3. transitions' = [transitions EXCEPT ![t] = Null]  BY <1>1, <1>3
  <2> QED BY <1>1, <1>3, <2>2, <2>3, EndSteps DEF Ends
<1>4. CASE transitions[t] # Null /\ transitions[t].state # "preparing"
  <2> DEFINE row == [transitions[t] EXCEPT !.state = "uncertain"]
  <2>1. transitions[t] \in Transition  BY <1>4 DEF StoreTypeOK
  <2>2. row \in Transition /\ row.to = transitions[t].to
    BY <2>1 DEF Transition, TransitionStates
  <2>3. transitions' = [transitions EXCEPT ![t] = row]  BY <1>1, <1>4
  <2> HIDE DEF row
  <2> QED BY <1>1, <1>4, <2>2, <2>3, KeptTransition
<1> QED BY <1>2, <1>3, <1>4

LEMMA SubmittingTransitionSteps ==
  ASSUME StoreTypeOK, NEW t \in Threads, NEW k \in Contracts, SubmittingTransition(t, k)
  PROVE  Steps
<1> DEFINE row == [[transitions[t] EXCEPT !.state = "submitting"] EXCEPT !.contract = k]
<1>1. /\ transitions[t] # Null
      /\ transitions' = [transitions EXCEPT ![t] = row]
      /\ UNCHANGED <<association, reservations>>
  BY DEF SubmittingTransition, CanSubmitTransition, ChangeTransitions, StoreTypeOK
<1>2. transitions[t] \in Transition  BY <1>1 DEF StoreTypeOK
<1>3. row \in Transition /\ row.to = transitions[t].to
  BY <1>2 DEF Transition, TransitionStates
<1> HIDE DEF row
<1> QED BY <1>1, <1>3, KeptTransition

LEMMA ThreadTransactionSteps ==
  ASSUME StoreTypeOK, StoreInv, ThreadTransaction
  PROVE  Steps
<1>1. PICK t \in Threads :
        \/ \E w \in Workspaces, b \in BOOLEAN : WriteIndex(t, w, b)
        \/ \E w \in Workspaces : SelectRow(t, w) \/ BeginTransition(t, w)
        \/ \E b \in BOOLEAN : WriteArchiveState(t, b)
        \/ \E k \in Contracts : SubmittingTransition(t, k)
        \/ \E u \in Turns, b \in BOOLEAN : ObserveTurn(t, u, b)
        \/ ForgetThread(t)
        \/ FailTransition(t)
        \/ CommitTransition(t)
  BY DEF ThreadTransaction
<1>2. ASSUME NEW w \in Workspaces, NEW b \in BOOLEAN, WriteIndex(t, w, b)  PROVE Steps
  <2>1. CASE association[t] # Null
    <3>1. association' = association  BY <1>2, <2>1 DEF WriteIndex, StoreTypeOK
    <3> QED BY <1>2, <3>1, RowsAlone DEF WriteIndex
  <2>2. CASE association[t] = Null
    <3>1. transitions[t] = Null  BY <2>2, NoRowNoTransition
    <3> QED BY <1>2, <2>2, <3>1, SettleSteps DEF WriteIndex
  <2> QED BY <2>1, <2>2
<1>3. ASSUME NEW w \in Workspaces, SelectRow(t, w)  PROVE Steps
  BY <1>3, SettleSteps DEF SelectRow
<1>4. ASSUME NEW b \in BOOLEAN, WriteArchiveState(t, b)  PROVE Steps
  BY <1>4, RowsAlone DEF WriteArchiveState
<1>5. ASSUME NEW u \in Turns, NEW b \in BOOLEAN, ObserveTurn(t, u, b)  PROVE Steps
  <2>1. CASE UNCHANGED storeVars  BY <2>1, RowsAlone DEF storeVars
  <2>2. ASSUME NEW id \in ReservedBy(t),
               reservations' = [reservations EXCEPT ![id] =
                 IF b /\ Observed(Row(id), u, b).acknowledged THEN Null ELSE Observed(Row(id), u, b)],
               UNCHANGED <<association, archivedRow, transitions>>
        PROVE  Steps
    <3>1. id \in Reservations /\ Live(id) /\ Row(id) \in Reservation  BY LiveRow DEF ReservedBy
    <3>2. Observed(Row(id), u, b) \in Reservation  BY <3>1, ObservedType
    <3>3. /\ Observed(Row(id), u, b).thread = Row(id).thread
          /\ Observed(Row(id), u, b).workspace = Row(id).workspace
      BY <3>1 DEF Observed, Reservation
    <3>4. CASE b /\ Observed(Row(id), u, b).acknowledged  BY <2>2, <3>1, <3>4, DeletedRow
    <3>5. CASE ~(b /\ Observed(Row(id), u, b).acknowledged)
      BY <2>2, <3>1, <3>2, <3>3, <3>5, KeptRow
    <3> QED BY <3>4, <3>5
  <2> QED BY <1>5, <2>1, <2>2 DEF ObserveTurn
<1>6. ASSUME ForgetThread(t)  PROVE Steps
  <2>1. modeOf[t] # "moving"  BY <1>6, ModeAt DEF ForgetThread
  <2>2. Ownership!Forget(t)  BY <1>6, <2>1, MovedThread DEF ForgetThread, Ownership!Forget
  <2> QED BY <2>2 DEF Steps, Ownership!OwnershipNext
<1>7. ASSUME CommitTransition(t)  PROVE Steps
  BY <1>7, EndSteps DEF CommitTransition, CanCommit, Ends
<1> QED BY <1>1, <1>2, <1>3, <1>4, <1>5, <1>6, <1>7,
           BeginSteps, SubmittingTransitionSteps, FailTransitionSteps

----------------------------------------------------------------------------

LEMMA OwnershipInitially ==
  ASSUME StoreInit
  PROVE  Ownership!OwnershipInit
<1>1. \A t \in Threads : ReservedBy(t) = {}  BY DEF StoreInit, ReservedBy, Live, Row
<1>2. modeOf = [t \in Threads |-> "free"]  BY <1>1 DEF StoreInit, modeOf
<1>3. targetOf = [t \in Threads |-> Null]  BY DEF StoreInit, targetOf
<1>4. captureOf = [t \in Threads |-> Null]  BY <1>1 DEF captureOf
<1> QED BY <1>2, <1>3, <1>4 DEF StoreInit, Ownership!OwnershipInit

\* Every order of the transactions is a history of WorkspaceOwnership: whatever
\* the two repositories do to the tables, a thread executes in one place, keeps
\* it while it executes, and moves only between places nothing else uses.
THEOREM StoreRefinesOwnership == StoreSpec => ImplementsOwnership
<1>1. StoreTypeOK /\ StoreInv /\ [StoreNext]_storeVars
        => [Ownership!OwnershipNext]_(Ownership!ownershipVars)
  <2> SUFFICES ASSUME StoreTypeOK, StoreInv, [StoreNext]_storeVars
               PROVE  Steps
    BY DEF Steps
  <2>1. CASE UNCHANGED storeVars  BY <2>1, RowsAlone DEF storeVars
  <2> QED BY <2>1, ThreadTransactionSteps, ReservationTransactionSteps DEF StoreNext
<1> QED BY <1>1, StoreExclusion, OwnershipInitially, PTL
        DEF StoreSpec, ImplementsOwnership, Ownership!OwnershipSpec

----------------------------------------------------------------------------
(* Steps that keep evidence. *)

\* CaptureContext of a row whose context may be stored.
LEMMA CaptureKeeps ==
  ASSUME StoreTypeOK, NEW row \in Reservation, CanCapture(row), CaptureContext(row),
         NEW t \in Threads, NEW u \in Turns, contexts[t][u] # Null
  PROVE  contexts'[t][u] = contexts[t][u]
<1>1. CASE HasContext(row)
  <2>1. row.thread \in Threads /\ row.turn \in Turns
    BY <1>1 DEF HasContext, Reservation
  <2>2. contexts' = [contexts EXCEPT ![row.thread][row.turn] = row.workspace]
    BY <1>1 DEF CaptureContext
  <2>3. contexts[row.thread][row.turn] \in {Null, row.workspace}
    BY <1>1 DEF CanCapture
  <2> QED BY <2>1, <2>2, <2>3 DEF StoreTypeOK
<1>2. CASE ~HasContext(row)  BY <1>2 DEF CaptureContext
<1> QED BY <1>1, <1>2

\* The workspace stored for a turn is never replaced, whatever answers and
\* events arrive later; it goes only when the thread's row goes.
THEOREM ContextsStay == StoreSpec => ContextsImmutable
<1> DEFINE Keeps(t, u) == contexts[t][u] # Null => \/ contexts'[t][u] = contexts[t][u]
                                                   \/ association'[t] = Null
<1>1. ASSUME StoreTypeOK, [StoreNext]_storeVars, NEW t \in Threads, NEW u \in Turns  PROVE Keeps(t, u)
  <2>1. CASE UNCHANGED contexts  BY <2>1
  <2>2. ASSUME NEW v \in Threads, ForgetThread(v)  PROVE Keeps(t, u)
    BY <1>1, <2>2 DEF ForgetThread, StoreTypeOK
  <2>3. ASSUME NEW v \in Threads, NEW e \in Turns, NEW b \in BOOLEAN, ObserveTurn(v, e, b)
        PROVE  Keeps(t, u)
    <3>1. CASE UNCHANGED storeVars  BY <3>1 DEF storeVars
    <3>2. ASSUME NEW id \in ReservedBy(v), CanCapture(Observed(Row(id), e, b)),
                 CaptureContext(Observed(Row(id), e, b))
          PROVE  Keeps(t, u)
      <4>1. Observed(Row(id), e, b) \in Reservation  BY <1>1, LiveRow, ObservedType DEF ReservedBy
      <4> QED BY <1>1, <3>2, <4>1, CaptureKeeps
    <3> QED BY <2>3, <3>1, <3>2 DEF ObserveTurn
  <2>4. ASSUME NEW id \in Reservations, NEW e \in Turns, Acknowledge(id, e)  PROVE Keeps(t, u)
    <3>1. Acknowledged(id, e) \in Reservation
      BY <1>1, <2>4, AcknowledgedType DEF Acknowledge, CanAcknowledge
    <3> QED BY <1>1, <2>4, <3>1, CaptureKeeps DEF Acknowledge, CanAcknowledge
  <2>5. CASE ThreadTransaction
    BY <2>1, <2>2, <2>3, <2>5
       DEF ThreadTransaction, WriteIndex, SelectRow, BeginTransition, WriteArchiveState, SubmittingTransition,
           FailTransition, CommitTransition, ChangeTransitions
  <2>6. CASE ReservationTransaction
    BY <2>1, <2>4, <2>6
       DEF ReservationTransaction, Reserve, BindThread, ConfirmCreation, AcknowledgeMaintenance,
           SubmittingCreation, Submitting, Fail, ConfirmDeletion, Release, ChangeReservations
  <2> QED BY <1>1, <2>1, <2>5, <2>6 DEF StoreNext, storeVars
<1>2. StoreTypeOK /\ [StoreNext]_storeVars => \A t \in Threads, u \in Turns : Keeps(t, u)  BY <1>1
<1>3. []StoreTypeOK /\ [][StoreNext]_storeVars =>
        [][\A t \in Threads, u \in Turns : Keeps(t, u)]_storeVars
  BY <1>2, PTL
<1> QED BY <1>3, StoreTyping, PTL DEF StoreSpec, ContextsImmutable
=============================================================================
