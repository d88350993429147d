----------------------- MODULE WorkspaceExecutionProofs -----------------------
(***************************************************************************)
(* Theorems about the calls of WorkspaceExecution, for any numbers of      *)
(* calls, threads, workspaces and contracts, any mix of operations, any    *)
(* crashes of the application and any exits of the source.                 *)
(***************************************************************************)
EXTENDS WorkspaceExecution, WorkspaceStoreProofs, TLAPS

Gateless == {"implicit", "create"}   \* operations that begin without a thread
Reconciles == {"reconcile", "reconcileWorkspace"}
Active(c) == pc[c] \notin {"idle", "done"}

\* Which operations reach which piece of code.
InPlace(c) ==
  /\ pc[c] = "idle" => kind[c] = Null /\ thread[c] = Null /\ workspace[c] = Null
  /\ pc[c] # "idle" => kind[c] \in AllKinds
  /\ pc[c] = "reserve" => kind[c] \in RunKinds \cup CatalogKinds
  /\ pc[c] \in {"recoverRead", "checkRead"} => kind[c] \in {"turn"} \cup MaintenanceKinds
  /\ pc[c] \in {"prepare", "newThread"} => kind[c] \in Gateless
  /\ pc[c] \in {"bind", "after"} => kind[c] \in {"turn", "implicit"}
  /\ pc[c] = "confirm" => kind[c] = "create"
  /\ pc[c] \in {"submit", "await"} => kind[c] \in {"turn", "implicit"} \cup MaintenanceKinds \cup CatalogKinds
  /\ pc[c] = "resume" => kind[c] \in MaintenanceKinds
  /\ pc[c] = "forget" => kind[c] \in {"delete"} \cup Reconciles
  /\ pc[c] = "release" => kind[c] \in CatalogKinds \cup Reconciles
  /\ pc[c] \in {"selectIdle", "selectBegin", "selectPrepare"} => kind[c] = "select"
  /\ pc[c] \in {"selectRead", "switch"} => kind[c] \in {"select"} \cup Reconciles
  /\ pc[c] \in {"reconcile", "evidence", "idleRead"} => kind[c] \in Reconciles
  /\ pc[c] = "items" => kind[c] = "reconcileWorkspace"

\* What a call holds where it is.
Equipped(c) ==
  /\ ~Active(c) => gate[c] = Null /\ reply[c] = Null /\ held[c] = Null /\ contract[c] = Null /\ work[c] = NoWork
  /\ pc[c] # "idle" /\ kind[c] \in Gateless => gate[c] = Null /\ held[c] = Null
  /\ pc[c] \in {"reserve", "prepare", "newThread"} /\ kind[c] \in Gateless => thread[c] = Null
  /\ pc[c] = "items" => gate[c] = Null /\ thread[c] = Null
  /\ Active(c) /\ kind[c] \notin Gateless /\ pc[c] # "items" => thread[c] # Null /\ gate[c] = thread[c]
  /\ pc[c] # "idle" /\ kind[c] # "reconcile" => workspace[c] # Null
  /\ Active(c) /\ kind[c] # "reconcileWorkspace" => work[c] = NoWork
  /\ pc[c] \in {"recoverRead", "evidence"} => held[c] # Null
  /\ pc[c] \in {"forget", "release"} /\ kind[c] \in Reconciles => held[c] # Null
  /\ pc[c] \in {"selectIdle", "selectBegin", "selectPrepare", "selectRead", "switch", "reconcile", "items"} => held[c] = Null
  /\ Active(c) /\ kind[c] \in CatalogKinds => held[c] = Null
  /\ pc[c] \in {"selectRead", "switch"} => contract[c] # Null

CallOK(c) == InPlace(c) /\ Equipped(c)

\* Two calls never hold one gate.
OneGate == \A c, d \in Calls : gate[c] # Null /\ gate[c] = gate[d] => c = d

\* A transition has a contract exactly when it was dispatched.
Dispatched ==
  \A t \in Threads : transitions[t] # Null => (transitions[t].contract = Null <=> transitions[t].state = "preparing")

Control == TypeOK /\ (\A c \in Calls : CallOK(c)) /\ OneGate /\ Dispatched

USE CallsAssumption, NullAssumption

CallTypes ==
  /\ pc \in [Calls -> Labels]
  /\ kind \in [Calls -> AllKinds \cup {Null}]
  /\ thread \in [Calls -> Threads \cup {Null}]
  /\ workspace \in [Calls -> Workspaces \cup {Null}]
  /\ gate \in [Calls -> Threads \cup {Null}]
  /\ reply \in [Calls -> Answer \cup {Null}]
  /\ held \in [Calls -> Calls \cup {Null}]
  /\ contract \in [Calls -> Contracts \cup {Null}]
  /\ work \in [Calls -> Work]

\* A step of a call leaves the registers of the others alone.
OthersKeep(c) ==
  \A d \in Calls \ {c} :
    /\ pc'[d] = pc[d] /\ kind'[d] = kind[d] /\ thread'[d] = thread[d] /\ workspace'[d] = workspace[d]
    /\ gate'[d] = gate[d] /\ reply'[d] = reply[d] /\ held'[d] = held[d]
    /\ contract'[d] = contract[d] /\ work'[d] = work[d]

LEMMA OthersOK ==
  ASSUME NEW c \in Calls, OthersKeep(c), NEW d \in Calls \ {c}, CallOK(d)
  PROVE  CallOK(d)'
BY DEF OthersKeep, CallOK, InPlace, Equipped, Active

LEMMA NoWorkType == NoWork \in Work
BY DEF NoWork, Work

LEMMA FinishEffect ==
  ASSUME TypeOK, NEW c \in Calls, Finish(c)
  PROVE  /\ CallTypes' /\ OthersKeep(c)
         /\ pc'[c] = "done" /\ kind'[c] = kind[c] /\ thread'[c] = thread[c] /\ workspace'[c] = workspace[c]
         /\ gate'[c] = Null /\ reply'[c] = Null /\ held'[c] = Null /\ contract'[c] = Null /\ work'[c] = NoWork
BY NoWorkType DEF TypeOK, Finish, Goto, CallTypes, OthersKeep, Labels

LEMMA FinishOK ==
  ASSUME Control, NEW c \in Calls, pc[c] # "idle", Finish(c)
  PROVE  CallTypes' /\ OthersKeep(c) /\ CallOK(c)' /\ gate'[c] = Null
<1>1. TypeOK /\ CallOK(c)  BY DEF Control
<1> QED BY <1>1, FinishEffect DEF CallOK, InPlace, Equipped, Active

LEMMA ReturnEffect ==
  ASSUME TypeOK, NEW c \in Calls, Return(c), kind[c] = "reconcileWorkspace"
  PROVE  /\ CallTypes' /\ OthersKeep(c)
         /\ pc'[c] = "items" /\ kind'[c] = kind[c] /\ thread'[c] = Null /\ workspace'[c] = workspace[c]
         /\ gate'[c] = Null /\ reply'[c] = Null /\ held'[c] = Null /\ contract'[c] = Null /\ work'[c] = work[c]
BY DEF TypeOK, Return, Goto, CallTypes, OthersKeep, Labels

LEMMA ReturnOK ==
  ASSUME Control, NEW c \in Calls, Active(c), Return(c)
  PROVE  CallTypes' /\ OthersKeep(c) /\ CallOK(c)' /\ gate'[c] = Null
<1>1. TypeOK /\ CallOK(c)  BY DEF Control
<1>2. CASE kind[c] = "reconcileWorkspace"
  BY <1>1, <1>2, ReturnEffect DEF CallOK, InPlace, Equipped, Active, Gateless, CatalogKinds, AllKinds, RunKinds, MaintenanceKinds
<1>3. CASE kind[c] # "reconcileWorkspace"
  BY <1>3, FinishOK DEF Return, Active
<1> QED BY <1>2, <1>3

LEMMA ContinueOK ==
  ASSUME TypeOK, NEW c \in Calls, NEW label \in Labels, Continue(c, label)
  PROVE  /\ CallTypes' /\ OthersKeep(c)
         /\ pc'[c] = label /\ UNCHANGED <<kind, thread, workspace, gate, reply, held, contract, work>>
BY DEF TypeOK, Continue, Goto, CallTypes, OthersKeep

\* Requests keep their type.
LEMMA SendOK ==
  ASSUME TypeOK, NEW c \in Calls, NEW method \in Methods, NEW cwd \in Workspaces \cup {Null},
         NEW k \in Contracts \cup {Null}, NEW b \in BOOLEAN, Send(c, method, cwd, k, b)
  PROVE  /\ SourceTypeOK'
         /\ reply' = [reply EXCEPT ![c] = Null]
         /\ reply' \in [Calls -> Answer \cup {Null}]
<1> DEFINE r == [call |-> c, method |-> method, thread |-> thread[c], cwd |-> cwd,
                 contract |-> k, archived |-> b]
<1>1. r \in Request  BY DEF TypeOK, Request
<1>2. requests' = Append(requests, r)  BY DEF Send
<1>3. requests' \in Seq(Request)  BY <1>1, <1>2 DEF TypeOK, SourceTypeOK
<1> QED BY <1>3 DEF Send, TypeOK, SourceTypeOK

\* A request of a call that keeps its other registers.
LEMMA AskOK ==
  ASSUME TypeOK, NEW c \in Calls, NEW method \in Methods, NEW label \in Labels,
         Ask(c, method, label)
  PROVE  /\ SourceTypeOK'
         /\ pc' = [pc EXCEPT ![c] = label] /\ pc' \in [Calls -> Labels]
         /\ reply' = [reply EXCEPT ![c] = Null] /\ reply' \in [Calls -> Answer \cup {Null}]
<1>1. workspace[c] \in Workspaces \cup {Null} /\ contract[c] \in Contracts \cup {Null}
  BY DEF TypeOK
<1>2. Send(c, method, workspace[c], contract[c], kind[c] = "archive")
  BY DEF Ask
<1>3. SourceTypeOK' /\ reply' = [reply EXCEPT ![c] = Null] /\ reply' \in [Calls -> Answer \cup {Null}]
  BY <1>1, <1>2, SendOK
<1> QED BY <1>3 DEF Ask, Goto, TypeOK

LEMMA AskKeeps ==
  ASSUME TypeOK, NEW c \in Calls, NEW method \in Methods, NEW label \in Labels,
         Ask(c, method, label), UNCHANGED Registers
  PROVE  /\ SourceTypeOK' /\ CallTypes' /\ OthersKeep(c)
         /\ pc'[c] = label /\ reply'[c] = Null
         /\ UNCHANGED <<kind, thread, workspace, gate, held, contract, work>>
BY AskOK DEF Registers, CallTypes, OthersKeep, TypeOK

LEMMA SameSource ==
  ASSUME SourceTypeOK, UNCHANGED sourceVars
  PROVE  SourceTypeOK'
BY DEF SourceTypeOK, sourceVars

LEMMA SameStore ==
  ASSUME StoreTypeOK, Dispatched, UNCHANGED storeVars
  PROVE  StoreTypeOK' /\ Dispatched'
BY DEF StoreTypeOK, Dispatched, storeVars

\* A transaction on the reservations.
LEMMA RowStore ==
  ASSUME StoreTypeOK, Dispatched, NEW id \in Reservations,
         \/ \E w \in Workspaces, t \in Threads \cup {Null}, o \in Operations : Reserve(id, w, t, o)
         \/ \E t \in Threads : BindThread(id, t) \/ ConfirmCreation(id, t)
         \/ \E u \in Turns : Acknowledge(id, u) \/ AcknowledgeMaintenance(id, u)
         \/ SubmittingCreation(id) \/ Submitting(id) \/ Fail(id) \/ ConfirmDeletion(id) \/ Release(id)
  PROVE  StoreTypeOK' /\ Dispatched' /\ transitions' = transitions
<1>1. ReservationTransaction  BY DEF ReservationTransaction
<1>2. transitions' = transitions
  BY DEF Reserve, BindThread, ConfirmCreation, Acknowledge, AcknowledgeMaintenance, SubmittingCreation, Submitting,
         Fail, ConfirmDeletion, Release, ChangeReservations
<1> QED BY <1>1, <1>2, ReservationTransactionType DEF Dispatched

\* What a step of a call has to keep.
Moved(c) ==
  /\ CallTypes' /\ OthersKeep(c) /\ CallOK(c)'
  /\ gate'[c] \in {Null, gate[c]} \/ gate'[c] \notin busyThreads
  /\ StoreTypeOK' /\ Dispatched' /\ SourceTypeOK'

----------------------------------------------------------------------------
(* Typing and control: run. *)

LEMMA StartRunMoved ==
  ASSUME Control, NEW c \in Calls, NEW k \in RunKinds, NEW t \in Threads \cup {Null}, NEW w \in Workspaces,
         StartRun(c, k, t, w)
  PROVE  Moved(c)
<1>1. TypeOK /\ CallOK(c)  BY DEF Control
<1>2. CallTypes' /\ OthersKeep(c)
  BY <1>1 DEF TypeOK, StartRun, CallTypes, OthersKeep, Labels, AllKinds
<1>3. /\ pc'[c] = "reserve" /\ kind'[c] = k /\ thread'[c] = t /\ workspace'[c] = w /\ gate'[c] = t
      /\ UNCHANGED <<storeVars, sourceVars, reply, held, contract, work>>
      /\ pc[c] = "idle"
      /\ k \in Gateless <=> t = Null
      /\ t # Null => t \notin busyThreads
  BY <1>1 DEF TypeOK, StartRun, Gateless
<1>4. CallOK(c)'
  BY <1>1, <1>3 DEF CallOK, InPlace, Equipped, Active, Gateless, AllKinds, CatalogKinds, RunKinds, MaintenanceKinds
<1>5. StoreTypeOK' /\ Dispatched' /\ SourceTypeOK'
  BY <1>3, SameStore, SameSource DEF Control, TypeOK
<1> QED BY <1>2, <1>3, <1>4, <1>5 DEF Moved

LEMMA ReserveRunMoved ==
  ASSUME Control, NEW c \in Calls, ReserveRun(c)
  PROVE  Moved(c)
<1>1. TypeOK /\ CallOK(c) /\ c \in Reservations /\ pc[c] = "reserve" /\ kind[c] \in RunKinds
  BY DEF Control, ReserveRun
<1>2. workspace[c] \in Workspaces /\ thread[c] \in Threads \cup {Null} /\ Operation(kind[c]) \in Operations
  BY <1>1 DEF TypeOK, CallOK, Equipped, Operation, Operations, RunKinds, MaintenanceKinds
<1>3. StoreTypeOK' /\ Dispatched'
  BY <1>1, <1>2, RowStore DEF Control, TypeOK, ReserveRun
<1>4. CASE thread[c] = Null
  <2>1. Continue(c, "prepare") /\ UNCHANGED sourceVars  BY <1>4 DEF ReserveRun, Reserved
  <2>2. SourceTypeOK'  BY <1>1, <2>1, SameSource DEF TypeOK
  <2>3. /\ CallTypes' /\ OthersKeep(c)
        /\ pc'[c] = "prepare" /\ UNCHANGED <<kind, thread, workspace, gate, reply, held, contract, work>>
    BY <1>1, <2>1, ContinueOK DEF Labels
  <2>4. kind[c] \in Gateless
    BY <1>1, <1>4 DEF CallOK, Equipped, Active
  <2>5. CallOK(c)'
    BY <1>1, <1>4, <2>3, <2>4 DEF CallOK, InPlace, Equipped, Active, Gateless
  <2> QED BY <1>3, <2>2, <2>3, <2>5 DEF Moved
<1>5. CASE thread[c] # Null
  <2>1. Ask(c, "read", "checkRead") /\ UNCHANGED Registers  BY <1>5 DEF ReserveRun, Reserved
  <2>2. /\ SourceTypeOK' /\ CallTypes' /\ OthersKeep(c)
        /\ pc'[c] = "checkRead" /\ reply'[c] = Null
        /\ UNCHANGED <<kind, thread, workspace, gate, held, contract, work>>
    BY <1>1, <2>1, AskKeeps DEF Labels, Waiting, Methods
  <2>3. kind[c] \notin Gateless
    BY <1>1, <1>5 DEF CallOK, Equipped
  <2>4. CallOK(c)'
    BY <1>1, <1>5, <2>2, <2>3 DEF CallOK, InPlace, Equipped, Active, Gateless, RunKinds, CatalogKinds, MaintenanceKinds
  <2> QED BY <1>3, <2>2, <2>4 DEF Moved
<1> QED BY <1>4, <1>5

LEMMA ReserveRefusedMoved ==
  ASSUME Control, NEW c \in Calls, ReserveRefused(c)
  PROVE  Moved(c)
<1>1. TypeOK /\ CallOK(c) /\ pc[c] = "reserve" /\ kind[c] \in RunKinds /\ UNCHANGED storeVars
  BY DEF Control, ReserveRefused
<1>2. StoreTypeOK' /\ Dispatched'
  BY <1>1, SameStore DEF Control, TypeOK
<1>3. CASE Finish(c) /\ UNCHANGED sourceVars
  BY <1>1, <1>2, <1>3, FinishOK, SameSource DEF Moved, TypeOK
<1>4. ASSUME thread[c] # Null, NEW id \in Reservations, held' = [held EXCEPT ![c] = id],
             Ask(c, "read", "recoverRead"), UNCHANGED <<kind, thread, workspace, gate, contract, work>>
      PROVE  Moved(c)
  <2>1. /\ SourceTypeOK'
        /\ pc' = [pc EXCEPT ![c] = "recoverRead"] /\ pc' \in [Calls -> Labels]
        /\ reply' = [reply EXCEPT ![c] = Null] /\ reply' \in [Calls -> Answer \cup {Null}]
    BY <1>1, <1>4, AskOK DEF Labels, Waiting, Methods
  <2>2. CallTypes' /\ OthersKeep(c)
    BY <1>1, <1>4, <2>1 DEF CallTypes, OthersKeep, TypeOK
  <2>3. pc'[c] = "recoverRead" /\ reply'[c] = Null /\ held'[c] = id
    BY <1>1, <1>4, <2>1 DEF TypeOK
  <2>4. kind[c] \notin Gateless
    BY <1>1, <1>4 DEF CallOK, Equipped
  <2>5. CallOK(c)'
    BY <1>1, <1>4, <2>3, <2>4 DEF CallOK, InPlace, Equipped, Active, Gateless, RunKinds, CatalogKinds, MaintenanceKinds
  <2> QED BY <1>2, <1>4, <2>1, <2>2, <2>5 DEF Moved
<1> QED BY <1>3, <1>4 DEF ReserveRefused, StaleRollback, ReservedBy

LEMMA RecoverRollbackMoved ==
  ASSUME Control, NEW c \in Calls, RecoverRollback(c)
  PROVE  Moved(c)
<1>1. TypeOK /\ CallOK(c) /\ pc[c] = "recoverRead" /\ UNCHANGED sourceVars /\ held[c] \in Reservations
  BY DEF Control, RecoverRollback, CallOK, Equipped, TypeOK
<1>2. SourceTypeOK'
  BY <1>1, SameSource DEF TypeOK
<1>3. CASE Release(held[c]) /\ Continue(c, "reserve")
  <2>1. StoreTypeOK' /\ Dispatched'
    BY <1>1, <1>3, RowStore DEF Control, TypeOK
  <2>2. /\ CallTypes' /\ OthersKeep(c)
        /\ pc'[c] = "reserve" /\ UNCHANGED <<kind, thread, workspace, gate, reply, held, contract, work>>
    BY <1>1, <1>3, ContinueOK DEF Labels
  <2>3. CallOK(c)'
    BY <1>1, <2>2 DEF CallOK, InPlace, Equipped, Active, Gateless, RunKinds, CatalogKinds, MaintenanceKinds
  <2> QED BY <1>2, <2>1, <2>2, <2>3 DEF Moved
<1>4. CASE Finish(c) /\ UNCHANGED storeVars
  BY <1>1, <1>2, <1>4, FinishOK, SameStore DEF Moved, Control, TypeOK
<1> QED BY <1>3, <1>4 DEF RecoverRollback

LEMMA CheckIdleMoved ==
  ASSUME Control, NEW c \in Calls, CheckIdle(c)
  PROVE  Moved(c)
<1> DEFINE label == IF kind[c] = "turn" THEN "bind" ELSE "submit"
<1>1. TypeOK /\ CallOK(c) /\ pc[c] = "checkRead" /\ UNCHANGED <<storeVars, sourceVars>> /\ Continue(c, label)
  BY DEF Control, CheckIdle, Answered
<1>2. StoreTypeOK' /\ Dispatched' /\ SourceTypeOK'
  BY <1>1, SameSource, SameStore DEF Control, TypeOK
<1>3. /\ CallTypes' /\ OthersKeep(c)
      /\ pc'[c] = label /\ UNCHANGED <<kind, thread, workspace, gate, reply, held, contract, work>>
  <2>1. label \in Labels  BY DEF Labels
  <2> QED BY <1>1, <2>1, ContinueOK
<1>4. CallOK(c)'
  BY <1>1, <1>3 DEF CallOK, InPlace, Equipped, Active, Gateless, RunKinds, CatalogKinds, MaintenanceKinds
<1> QED BY <1>2, <1>3, <1>4 DEF Moved

LEMMA FailRunMoved ==
  ASSUME Control, NEW c \in Calls, FailRun(c) \/ FailCatalog(c)
  PROVE  Moved(c)
<1>1. TypeOK /\ pc[c] # "idle" /\ Fail(c) /\ Finish(c) /\ UNCHANGED sourceVars
  BY DEF Control, FailRun, FailCatalog
<1>2. StoreTypeOK' /\ Dispatched'
  BY <1>1, RowStore DEF Control, TypeOK
<1> QED BY <1>1, <1>2, FinishOK, SameSource DEF Moved, TypeOK

LEMMA CreateThreadMoved ==
  ASSUME Control, NEW c \in Calls, CreateThread(c)
  PROVE  Moved(c)
<1>1. TypeOK /\ CallOK(c) /\ pc[c] = "prepare"
      /\ Ask(c, "newThread", "newThread") /\ UNCHANGED Registers
  BY DEF Control, CreateThread
<1>2. StoreTypeOK' /\ Dispatched'
  BY <1>1, RowStore, SameStore DEF Control, TypeOK, CreateThread
<1>3. /\ SourceTypeOK' /\ CallTypes' /\ OthersKeep(c)
      /\ pc'[c] = "newThread" /\ reply'[c] = Null
      /\ UNCHANGED <<kind, thread, workspace, gate, held, contract, work>>
  BY <1>1, AskKeeps DEF Labels, Waiting, Methods
<1>4. CallOK(c)'
  BY <1>1, <1>3 DEF CallOK, InPlace, Equipped, Active, Gateless, RunKinds, CatalogKinds, MaintenanceKinds
<1> QED BY <1>2, <1>3, <1>4 DEF Moved

LEMMA IndexOK ==
  ASSUME StoreTypeOK, Dispatched, NEW t, NEW w \in Workspaces, NEW b \in BOOLEAN, WriteIndex(t, w, b)
  PROVE  StoreTypeOK' /\ Dispatched'
BY DEF WriteIndex, StoreTypeOK, Dispatched

LEMMA IndexThreadMoved ==
  ASSUME Control, NEW c \in Calls, IndexThread(c)
  PROVE  Moved(c)
<1> DEFINE label == IF kind[c] = "create" THEN "confirm" ELSE "bind"
<1>1. /\ TypeOK /\ CallOK(c) /\ pc[c] = "newThread" /\ Goto(c, label)
      /\ WriteIndex(reply[c].thread, workspace[c], FALSE)
      /\ thread' = [thread EXCEPT ![c] = reply[c].thread]
      /\ UNCHANGED <<kind, workspace, gate, reply, held, contract, work, sourceVars>>
      /\ reply[c].thread \in Threads \cup {Null}
  BY DEF Control, IndexThread, Answered, TypeOK, Answer
<1>2. workspace[c] \in Workspaces  BY <1>1 DEF CallOK, InPlace, Equipped, Gateless, TypeOK
<1>3. StoreTypeOK' /\ Dispatched' /\ SourceTypeOK'
  BY <1>1, <1>2, SameSource, IndexOK DEF Control, TypeOK
<1>4. CallTypes' /\ OthersKeep(c) /\ pc'[c] = label /\ thread'[c] = reply[c].thread
  BY <1>1 DEF TypeOK, Goto, CallTypes, OthersKeep, Labels
<1>5. CallOK(c)'
  BY <1>1, <1>4 DEF CallOK, InPlace, Equipped, Active, Gateless, RunKinds, CatalogKinds, MaintenanceKinds
<1> QED BY <1>1, <1>3, <1>4, <1>5 DEF Moved

\* A step that ends the call, with a typed transaction.
LEMMA EndMoved ==
  ASSUME Control, NEW c \in Calls, Active(c), Finish(c) \/ Return(c), UNCHANGED sourceVars,
         StoreTypeOK', Dispatched'
  PROVE  Moved(c)
BY FinishOK, ReturnOK, SameSource DEF Moved, Control, TypeOK, Active

LEMMA ConfirmThreadMoved ==
  ASSUME Control, NEW c \in Calls, ConfirmThread(c)
  PROVE  Moved(c)
<1>1. Active(c) /\ Finish(c) /\ UNCHANGED sourceVars /\ ConfirmCreation(c, thread[c])
  BY DEF ConfirmThread, Active
<1>2. StoreTypeOK' /\ Dispatched'
  BY <1>1, ChangeRowType DEF ConfirmCreation, ChangeReservations, Control, TypeOK, Dispatched
<1> QED BY <1>1, <1>2, EndMoved

LEMMA BindMoved ==
  ASSUME Control, NEW c \in Calls, Bind(c)
  PROVE  Moved(c)
<1>1. /\ TypeOK /\ CallOK(c) /\ pc[c] = "bind" /\ Continue(c, "submit") /\ UNCHANGED sourceVars
      /\ BindThread(c, thread[c])
  BY DEF Control, Bind
<1>2. StoreTypeOK' /\ Dispatched' /\ SourceTypeOK'
  <2>1. Live(c) /\ c \in Reservations /\ Row(c) \in Reservation
    BY <1>1, LiveRow DEF BindThread, CanBind, TypeOK
  <2>2. [Row(c) EXCEPT !.thread = thread[c]] \in Reservation
    BY <1>1, <2>1 DEF Reservation, TypeOK
  <2>3. reservations' = [reservations EXCEPT ![c] = [Row(c) EXCEPT !.thread = thread[c]]]
    BY <1>1 DEF BindThread, Row
  <2>4. Row(c).workspace \in Workspaces
    BY <2>1 DEF Reservation
  <2>5. reservations' \in [Reservations -> Reservation \cup {Null}]
    BY <1>1, <2>1, <2>2, <2>3, SetRow DEF TypeOK
  <2>6. association' \in [Threads -> Workspaces \cup {Null}]
    BY <1>1, <2>4 DEF BindThread, TypeOK, StoreTypeOK
  <2>7. StoreTypeOK' /\ Dispatched'
    BY <1>1, <2>5, <2>6 DEF BindThread, StoreTypeOK, Dispatched, Control, TypeOK
  <2> QED BY <1>1, <2>7, SameSource DEF TypeOK
<1>3. /\ CallTypes' /\ OthersKeep(c)
      /\ pc'[c] = "submit" /\ UNCHANGED <<kind, thread, workspace, gate, reply, held, contract, work>>
  BY <1>1, ContinueOK DEF Labels
<1>4. CallOK(c)'
  BY <1>1, <1>3 DEF CallOK, InPlace, Equipped, Active, Gateless, RunKinds, CatalogKinds, MaintenanceKinds
<1> QED BY <1>2, <1>3, <1>4 DEF Moved

LEMMA SubmitMoved ==
  ASSUME Control, NEW c \in Calls, Submit(c)
  PROVE  Moved(c)
<1>1. TypeOK /\ CallOK(c) /\ pc[c] = "submit" /\ Submitting(c) /\ UNCHANGED Registers
  BY DEF Control, Submit
<1>2. StoreTypeOK' /\ Dispatched'
  BY <1>1, RowStore DEF Control, TypeOK
<1>3. \/ kind[c] \in MaintenanceKinds /\ Ask(c, "resume", "resume")
      \/ kind[c] \in RunKinds \ MaintenanceKinds /\ Ask(c, "turn", "await")
  BY DEF Submit
<1>4. PICK label \in {"resume", "await"} :
        /\ SourceTypeOK' /\ CallTypes' /\ OthersKeep(c)
        /\ pc'[c] = label /\ reply'[c] = Null
        /\ label = "resume" => kind[c] \in MaintenanceKinds
        /\ UNCHANGED <<kind, thread, workspace, gate, held, contract, work>>
  <2>1. "resume" \in Labels /\ "await" \in Labels /\ "resume" \in Methods /\ "turn" \in Methods
    BY DEF Labels, Waiting, Methods, StartMethods
  <2> QED BY <1>1, <1>3, <2>1, AskKeeps
<1>5. CallOK(c)'
  BY <1>1, <1>4 DEF CallOK, InPlace, Equipped, Active, Gateless, RunKinds, CatalogKinds, MaintenanceKinds
<1> QED BY <1>2, <1>4, <1>5 DEF Moved

LEMMA MaintainMoved ==
  ASSUME Control, NEW c \in Calls, Maintain(c)
  PROVE  Moved(c)
<1>1. TypeOK /\ CallOK(c) /\ pc[c] = "resume" /\ UNCHANGED <<storeVars, Registers>> /\ Ask(c, kind[c], "await")
  BY DEF Control, Maintain, Answered
<1>2. StoreTypeOK' /\ Dispatched'
  BY <1>1, SameStore DEF Control, TypeOK
<1>3. /\ SourceTypeOK' /\ CallTypes' /\ OthersKeep(c)
      /\ pc'[c] = "await" /\ reply'[c] = Null
      /\ UNCHANGED <<kind, thread, workspace, gate, held, contract, work>>
  <2>1. kind[c] \in Methods
    BY <1>1 DEF CallOK, InPlace, Methods, StartMethods, MaintenanceKinds
  <2> QED BY <1>1, <2>1, AskKeeps DEF Labels, Waiting
<1>4. CallOK(c)'
  BY <1>1, <1>3 DEF CallOK, InPlace, Equipped, Active, Gateless, RunKinds, CatalogKinds, MaintenanceKinds
<1> QED BY <1>2, <1>3, <1>4 DEF Moved

LEMMA AcknowledgeMoved ==
  ASSUME Control, NEW c \in Calls, AcknowledgeTurn(c)
  PROVE  Moved(c)
<1>1. /\ TypeOK /\ CallOK(c) /\ pc[c] = "await" /\ kind[c] \in {"turn", "implicit"}
      /\ Acknowledge(c, c) /\ Continue(c, "after") /\ UNCHANGED sourceVars
  BY DEF Control, AcknowledgeTurn, Answered
<1>2. StoreTypeOK' /\ Dispatched' /\ SourceTypeOK'
  BY <1>1, RowStore, SameSource DEF Control, TypeOK
<1>3. /\ CallTypes' /\ OthersKeep(c)
      /\ pc'[c] = "after" /\ UNCHANGED <<kind, thread, workspace, gate, reply, held, contract, work>>
  BY <1>1, ContinueOK DEF Labels
<1>4. CallOK(c)'
  BY <1>1, <1>3 DEF CallOK, InPlace, Equipped, Active, Gateless, RunKinds, CatalogKinds, MaintenanceKinds
<1> QED BY <1>2, <1>3, <1>4 DEF Moved

LEMMA FinishTurnMoved ==
  ASSUME Control, NEW c \in Calls, FinishTurn(c) \/ AcknowledgeMaintained(c)
  PROVE  Moved(c)
<1>1. Active(c) /\ Finish(c) /\ UNCHANGED sourceVars
  BY DEF FinishTurn, AcknowledgeMaintained, Answered, Active
<1>2. StoreTypeOK' /\ Dispatched'
  BY RowStore, SameStore DEF FinishTurn, AcknowledgeMaintained, Control, TypeOK
<1> QED BY <1>1, <1>2, EndMoved

LEMMA RunMoved ==
  ASSUME Control, NEW c \in Calls, Run(c)
  PROVE  Moved(c)
BY StartRunMoved, ReserveRunMoved, ReserveRefusedMoved, RecoverRollbackMoved, CheckIdleMoved, FailRunMoved,
   CreateThreadMoved, IndexThreadMoved, ConfirmThreadMoved, BindMoved, SubmitMoved, MaintainMoved,
   AcknowledgeMoved, FinishTurnMoved DEF Run

----------------------------------------------------------------------------
(* Typing and control: catalogue mutations. *)

LEMMA StartCatalogMoved ==
  ASSUME Control, NEW c \in Calls, NEW k \in CatalogKinds, NEW t \in Threads, StartCatalog(c, k, t)
  PROVE  Moved(c)
<1>1. TypeOK /\ CallOK(c)  BY DEF Control
<1>2. CallTypes' /\ OthersKeep(c)
  BY <1>1 DEF TypeOK, StoreTypeOK, StartCatalog, CallTypes, OthersKeep, Labels, AllKinds
<1>3. /\ pc'[c] = "reserve" /\ kind'[c] = k /\ thread'[c] = t /\ workspace'[c] = association[t] /\ gate'[c] = t
      /\ UNCHANGED <<storeVars, sourceVars, reply, held, contract, work>>
      /\ pc[c] = "idle" /\ t \notin busyThreads /\ association[t] # Null
  BY <1>1 DEF TypeOK, StartCatalog
<1>4. CallOK(c)'
  BY <1>1, <1>3 DEF CallOK, InPlace, Equipped, Active, Gateless, AllKinds, CatalogKinds, RunKinds, MaintenanceKinds
<1>5. StoreTypeOK' /\ Dispatched' /\ SourceTypeOK'
  BY <1>3, SameStore, SameSource DEF Control, TypeOK
<1> QED BY <1>2, <1>3, <1>4, <1>5 DEF Moved

LEMMA ReserveCatalogMoved ==
  ASSUME Control, NEW c \in Calls, ReserveCatalog(c)
  PROVE  Moved(c)
<1>1. /\ TypeOK /\ CallOK(c) /\ c \in Reservations /\ pc[c] = "reserve" /\ kind[c] \in CatalogKinds
      /\ UNCHANGED sourceVars
  BY DEF Control, ReserveCatalog
<1>2. CASE Reserve(c, workspace[c], thread[c], kind[c]) /\ Continue(c, "submit")
  <2>1. workspace[c] \in Workspaces /\ thread[c] \in Threads \cup {Null} /\ kind[c] \in Operations
    BY <1>1 DEF TypeOK, CallOK, Equipped, Operations, CatalogKinds
  <2>2. StoreTypeOK' /\ Dispatched' /\ SourceTypeOK'
    BY <1>1, <1>2, <2>1, RowStore, SameSource DEF Control, TypeOK
  <2>3. /\ CallTypes' /\ OthersKeep(c)
        /\ pc'[c] = "submit" /\ UNCHANGED <<kind, thread, workspace, gate, reply, held, contract, work>>
    BY <1>1, <1>2, ContinueOK DEF Labels
  <2>4. CallOK(c)'
    BY <1>1, <2>3 DEF CallOK, InPlace, Equipped, Active, Gateless, RunKinds, CatalogKinds, MaintenanceKinds
  <2> QED BY <2>2, <2>3, <2>4 DEF Moved
<1>3. CASE Finish(c) /\ UNCHANGED storeVars
  BY <1>1, <1>3, EndMoved, SameStore DEF Active, Control, TypeOK
<1> QED BY <1>2, <1>3 DEF ReserveCatalog

LEMMA SubmitCatalogMoved ==
  ASSUME Control, NEW c \in Calls, SubmitCatalog(c)
  PROVE  Moved(c)
<1>1. /\ TypeOK /\ CallOK(c) /\ pc[c] = "submit" /\ kind[c] \in CatalogKinds /\ Submitting(c)
      /\ UNCHANGED Registers /\ Ask(c, kind[c], "await")
  BY DEF Control, SubmitCatalog
<1>2. StoreTypeOK' /\ Dispatched'
  BY <1>1, RowStore DEF Control, TypeOK
<1>3. /\ SourceTypeOK' /\ CallTypes' /\ OthersKeep(c)
      /\ pc'[c] = "await" /\ reply'[c] = Null
      /\ UNCHANGED <<kind, thread, workspace, gate, held, contract, work>>
  <2>1. kind[c] \in Methods
    BY <1>1 DEF Methods, CatalogKinds
  <2> QED BY <1>1, <2>1, AskKeeps DEF Labels, Waiting
<1>4. CallOK(c)'
  BY <1>1, <1>3 DEF CallOK, InPlace, Equipped, Active, Gateless, RunKinds, CatalogKinds, MaintenanceKinds
<1> QED BY <1>2, <1>3, <1>4 DEF Moved

LEMMA ArchiveStateOK ==
  ASSUME StoreTypeOK, Dispatched, NEW t, NEW b \in BOOLEAN, WriteArchiveState(t, b)
  PROVE  StoreTypeOK' /\ Dispatched'
BY DEF WriteArchiveState, StoreTypeOK, Dispatched

LEMMA CatalogAnsweredMoved ==
  ASSUME Control, NEW c \in Calls, CatalogAnswered(c)
  PROVE  Moved(c)
<1> DEFINE label == IF kind[c] = "delete" THEN "forget" ELSE "release"
<1>1. /\ TypeOK /\ CallOK(c) /\ pc[c] = "await" /\ kind[c] \in CatalogKinds
      /\ UNCHANGED sourceVars /\ Continue(c, label)
      /\ ConfirmDeletion(c) \/ WriteArchiveState(thread[c], kind[c] = "archive")
  BY DEF Control, CatalogAnswered, Answered, File
<1>2. StoreTypeOK' /\ Dispatched' /\ SourceTypeOK'
  BY <1>1, RowStore, ArchiveStateOK, SameSource DEF Control, TypeOK
<1>3. /\ CallTypes' /\ OthersKeep(c)
      /\ pc'[c] = label /\ UNCHANGED <<kind, thread, workspace, gate, reply, held, contract, work>>
  <2>1. label \in Labels  BY DEF Labels
  <2> QED BY <1>1, <2>1, ContinueOK
<1>4. CallOK(c)'
  BY <1>1, <1>3 DEF CallOK, InPlace, Equipped, Active, Gateless, RunKinds, CatalogKinds, MaintenanceKinds, Reconciles
<1> QED BY <1>2, <1>3, <1>4 DEF Moved

LEMMA ForgetOK ==
  ASSUME StoreTypeOK, Dispatched, NEW t, ForgetThread(t)
  PROVE  StoreTypeOK' /\ Dispatched'
<1>1. [u \in Turns |-> Null] \in [Turns -> Workspaces \cup {Null}]  OBVIOUS
<1> QED BY <1>1 DEF ForgetThread, StoreTypeOK, Dispatched

LEMMA ForgetMoved ==
  ASSUME Control, NEW c \in Calls, Forget(c)
  PROVE  Moved(c)
<1>1. /\ TypeOK /\ CallOK(c) /\ pc[c] = "forget" /\ ForgetThread(thread[c])
      /\ UNCHANGED sourceVars /\ Continue(c, "release")
  BY DEF Control, Forget
<1>2. StoreTypeOK' /\ Dispatched' /\ SourceTypeOK'
  BY <1>1, ForgetOK, SameSource DEF Control, TypeOK
<1>3. /\ CallTypes' /\ OthersKeep(c)
      /\ pc'[c] = "release" /\ UNCHANGED <<kind, thread, workspace, gate, reply, held, contract, work>>
  BY <1>1, ContinueOK DEF Labels
<1>4. CallOK(c)'
  BY <1>1, <1>3 DEF CallOK, InPlace, Equipped, Active, Gateless, RunKinds, CatalogKinds, MaintenanceKinds, Reconciles
<1> QED BY <1>2, <1>3, <1>4 DEF Moved

LEMMA ReleaseCatalogMoved ==
  ASSUME Control, NEW c \in Calls, ReleaseCatalog(c)
  PROVE  Moved(c)
<1>1. /\ TypeOK /\ CallOK(c) /\ Active(c) /\ pc[c] = "release" /\ Release(Recovered(c))
      /\ Return(c) /\ UNCHANGED sourceVars
  BY DEF Control, ReleaseCatalog, Active
<1>2. Recovered(c) \in Reservations
  BY <1>1 DEF Recovered, CallOK, InPlace, Equipped, TypeOK
<1>3. StoreTypeOK' /\ Dispatched'
  BY <1>1, <1>2, RowStore DEF Control, TypeOK
<1> QED BY <1>1, <1>3, EndMoved

LEMMA CatalogMoved ==
  ASSUME Control, NEW c \in Calls, Catalog(c)
  PROVE  Moved(c)
BY StartCatalogMoved, ReserveCatalogMoved, SubmitCatalogMoved, CatalogAnsweredMoved, FailRunMoved, ForgetMoved,
   ReleaseCatalogMoved DEF Catalog

----------------------------------------------------------------------------
(* Typing and control: selections and transitions. *)

\* A transaction on the transition of a thread.
LEMMA TransitionStore ==
  ASSUME StoreTypeOK, Dispatched, NEW t \in Threads,
         \/ \E w \in Workspaces : BeginTransition(t, w)
         \/ \E k \in Contracts : SubmittingTransition(t, k)
         \/ FailTransition(t)
         \/ CommitTransition(t)
  PROVE  StoreTypeOK' /\ Dispatched'
<1>1. StoreTypeOK'
  BY ThreadTransactionType DEF ThreadTransaction
<1>2. transitions \in [Threads -> Transition \cup {Null}]
  BY DEF StoreTypeOK
<1>3. ASSUME NEW w \in Workspaces, BeginTransition(t, w)  PROVE Dispatched'
  BY <1>2, <1>3 DEF BeginTransition, ChangeTransitions, Dispatched
<1>4. ASSUME NEW k \in Contracts, SubmittingTransition(t, k)  PROVE Dispatched'
  <2>1. transitions' = [transitions EXCEPT ![t] =
                          [[transitions[t] EXCEPT !.state = "submitting"] EXCEPT !.contract = k]]
    BY <1>2, <1>4 DEF SubmittingTransition, ChangeTransitions
  <2>2. transitions[t] \in Transition
    BY <1>2, <1>4 DEF SubmittingTransition, CanSubmitTransition
  <2>3. /\ transitions'[t].contract = k /\ transitions'[t].state = "submitting"
        /\ \A u \in Threads \ {t} : transitions'[u] = transitions[u]
    BY <1>2, <2>1, <2>2 DEF Transition
  <2> QED BY <2>3 DEF Dispatched
<1>5. ASSUME FailTransition(t)  PROVE Dispatched'
  <2>1. CASE transitions[t] = Null \/ transitions[t].state = "preparing"
    BY <1>2, <1>5, <2>1 DEF FailTransition, ChangeTransitions, Dispatched
  <2>2. CASE ~(transitions[t] = Null \/ transitions[t].state = "preparing")
    <3>1. transitions' = [transitions EXCEPT ![t] = [transitions[t] EXCEPT !.state = "uncertain"]]
      BY <1>2, <1>5, <2>2 DEF FailTransition, ChangeTransitions
    <3>2. transitions[t] \in Transition
      BY <1>2, <2>2
    <3>3. /\ transitions'[t].contract = transitions[t].contract /\ transitions'[t].state = "uncertain"
          /\ \A u \in Threads \ {t} : transitions'[u] = transitions[u]
      BY <1>2, <3>1, <3>2 DEF Transition
    <3> QED BY <2>2, <3>3 DEF Dispatched
  <2> QED BY <2>1, <2>2
<1>6. ASSUME CommitTransition(t)  PROVE Dispatched'
  BY <1>2, <1>6 DEF CommitTransition, Dispatched
<1> QED BY <1>1, <1>3, <1>4, <1>5, <1>6

LEMMA StartSelectMoved ==
  ASSUME Control, NEW c \in Calls, NEW t \in Threads, NEW w \in Workspaces, StartSelect(c, t, w)
  PROVE  Moved(c)
<1> DEFINE r == [call |-> c, method |-> "read", thread |-> t, cwd |-> Null, contract |-> Null, archived |-> FALSE]
<1>1. TypeOK /\ CallOK(c)  BY DEF Control
<1>2. CallTypes' /\ OthersKeep(c)
  BY <1>1 DEF TypeOK, StartSelect, CallTypes, OthersKeep, Labels, Waiting, AllKinds
<1>3. /\ pc'[c] = "selectIdle" /\ kind'[c] = "select" /\ thread'[c] = t /\ workspace'[c] = w /\ gate'[c] = t
      /\ UNCHANGED <<storeVars, reply, held, contract, work>>
      /\ pc[c] = "idle" /\ t \notin busyThreads
      /\ requests' = Append(requests, r)
      /\ UNCHANGED <<known, running, started, sourceArchived, sourceCwd, reported, events>>
  BY <1>1 DEF TypeOK, StartSelect
<1>4. CallOK(c)'
  BY <1>1, <1>3 DEF CallOK, InPlace, Equipped, Active, Gateless, AllKinds, CatalogKinds, RunKinds, MaintenanceKinds
<1>5. SourceTypeOK'
  <2>1. r \in Request  BY DEF Request, Methods
  <2> QED BY <1>1, <1>3, <2>1 DEF TypeOK, SourceTypeOK
<1>6. StoreTypeOK' /\ Dispatched'
  BY <1>3, SameStore DEF Control, TypeOK
<1> QED BY <1>2, <1>3, <1>4, <1>5, <1>6 DEF Moved

LEMMA SelectIdleMoved ==
  ASSUME Control, NEW c \in Calls, SelectIdle(c)
  PROVE  Moved(c)
<1>1. TypeOK /\ CallOK(c) /\ pc[c] = "selectIdle" /\ UNCHANGED <<storeVars, sourceVars>>
  BY DEF Control, SelectIdle
<1>2. StoreTypeOK' /\ Dispatched' /\ SourceTypeOK'
  BY <1>1, SameStore, SameSource DEF Control, TypeOK
<1>3. CASE Continue(c, "selectBegin")
  <2>1. /\ CallTypes' /\ OthersKeep(c)
        /\ pc'[c] = "selectBegin" /\ UNCHANGED <<kind, thread, workspace, gate, reply, held, contract, work>>
    BY <1>1, <1>3, ContinueOK DEF Labels
  <2>2. CallOK(c)'
    BY <1>1, <2>1 DEF CallOK, InPlace, Equipped, Active, Gateless, RunKinds, CatalogKinds, MaintenanceKinds
  <2> QED BY <1>2, <2>1, <2>2 DEF Moved
<1>4. CASE Finish(c)
  BY <1>1, <1>2, <1>4, EndMoved DEF Active
<1> QED BY <1>3, <1>4 DEF SelectIdle

\* A call that works on a thread of its own gate.
LEMMA HasThread ==
  ASSUME Control, NEW c \in Calls,
         pc[c] \in {"recoverRead", "checkRead", "resume", "forget", "release", "selectIdle", "selectBegin",
                    "selectPrepare", "selectRead", "switch", "reconcile", "evidence", "idleRead"}
  PROVE  thread[c] \in Threads /\ gate[c] = thread[c]
<1>1. TypeOK /\ CallOK(c)  BY DEF Control
<1> QED BY <1>1 DEF CallOK, InPlace, Equipped, Active, Gateless, Reconciles, CatalogKinds, MaintenanceKinds, TypeOK

LEMMA SelectBeginMoved ==
  ASSUME Control, NEW c \in Calls, SelectBegin(c)
  PROVE  Moved(c)
<1>1. TypeOK /\ CallOK(c) /\ pc[c] = "selectBegin" /\ UNCHANGED sourceVars /\ thread[c] \in Threads
  BY HasThread DEF Control, SelectBegin
<1>2. workspace[c] \in Workspaces
  BY <1>1 DEF CallOK, InPlace, Equipped, TypeOK
<1>3. CASE BeginTransition(thread[c], workspace[c]) /\ Continue(c, "selectPrepare")
  <2>1. StoreTypeOK' /\ Dispatched' /\ SourceTypeOK'
    BY <1>1, <1>2, <1>3, TransitionStore, SameSource DEF Control, TypeOK
  <2>2. /\ CallTypes' /\ OthersKeep(c)
        /\ pc'[c] = "selectPrepare" /\ UNCHANGED <<kind, thread, workspace, gate, reply, held, contract, work>>
    BY <1>1, <1>3, ContinueOK DEF Labels
  <2>3. CallOK(c)'
    BY <1>1, <2>2 DEF CallOK, InPlace, Equipped, Active, Gateless, RunKinds, CatalogKinds, MaintenanceKinds
  <2> QED BY <2>1, <2>2, <2>3 DEF Moved
<1>4. CASE Finish(c) /\ UNCHANGED storeVars
  BY <1>1, <1>4, SameStore, EndMoved DEF Active, Control, TypeOK
<1> QED BY <1>3, <1>4 DEF SelectBegin

LEMMA SelectPrepareMoved ==
  ASSUME Control, NEW c \in Calls, SelectPrepare(c)
  PROVE  Moved(c)
<1>1. /\ TypeOK /\ CallOK(c) /\ pc[c] = "selectPrepare" /\ Send(c, "read", Null, Null, FALSE) /\ Goto(c, "selectRead")
      /\ UNCHANGED <<storeVars, kind, thread, workspace, gate, held, work>>
  BY DEF Control, SelectPrepare
<1>2. PICK k \in Contracts : contract' = [contract EXCEPT ![c] = k]
  BY DEF SelectPrepare
<1>3. SourceTypeOK' /\ reply' = [reply EXCEPT ![c] = Null] /\ reply' \in [Calls -> Answer \cup {Null}]
  BY <1>1, SendOK DEF Methods
<1>4. CallTypes' /\ OthersKeep(c)
  BY <1>1, <1>2, <1>3 DEF CallTypes, OthersKeep, TypeOK, Goto, Labels, Waiting
<1>5. pc'[c] = "selectRead" /\ contract'[c] = k
  BY <1>1, <1>2 DEF TypeOK, Goto
<1>6. CallOK(c)'
  BY <1>1, <1>5 DEF CallOK, InPlace, Equipped, Active, Gateless, AllKinds, CatalogKinds, RunKinds, MaintenanceKinds
<1>7. StoreTypeOK' /\ Dispatched'
  BY <1>1, SameStore DEF Control, TypeOK
<1> QED BY <1>1, <1>3, <1>4, <1>6, <1>7 DEF Moved

LEMMA SubmitSwitchMoved ==
  ASSUME Control, NEW c \in Calls, SubmitSwitch(c)
  PROVE  Moved(c)
<1>1. /\ TypeOK /\ CallOK(c) /\ pc[c] = "selectRead" /\ thread[c] \in Threads
      /\ SubmittingTransition(thread[c], contract[c])
      /\ Send(c, "switch", transitions[thread[c]].to, contract[c], FALSE) /\ Goto(c, "switch") /\ UNCHANGED Registers
  BY HasThread DEF Control, SubmitSwitch, Answered
<1>2. contract[c] \in Contracts
  BY <1>1 DEF CallOK, Equipped, TypeOK
<1>3. transitions[thread[c]].to \in Workspaces
  BY <1>1 DEF SubmittingTransition, CanSubmitTransition, TypeOK, StoreTypeOK, Transition
<1>4. StoreTypeOK' /\ Dispatched'
  BY <1>1, <1>2, TransitionStore DEF Control, TypeOK
<1>5. SourceTypeOK' /\ reply' = [reply EXCEPT ![c] = Null] /\ reply' \in [Calls -> Answer \cup {Null}]
  BY <1>1, <1>2, <1>3, SendOK DEF Methods
<1>6. CallTypes' /\ OthersKeep(c) /\ pc'[c] = "switch"
  BY <1>1, <1>5 DEF CallTypes, OthersKeep, TypeOK, Goto, Labels, Waiting, Registers
<1>7. CallOK(c)'
  BY <1>1, <1>6 DEF CallOK, InPlace, Equipped, Active, Gateless, AllKinds, CatalogKinds, RunKinds, MaintenanceKinds, Registers
<1> QED BY <1>1, <1>4, <1>5, <1>6, <1>7 DEF Moved, Registers

LEMMA EndSwitchMoved ==
  ASSUME Control, NEW c \in Calls, CommitSwitch(c) \/ FailSwitch(c)
  PROVE  Moved(c)
<1>1. /\ TypeOK /\ Active(c) /\ thread[c] \in Threads /\ UNCHANGED sourceVars
      /\ Finish(c) \/ Return(c)
      /\ CommitTransition(thread[c]) \/ FailTransition(thread[c])
  BY HasThread DEF Control, CommitSwitch, FailSwitch, Answered, Active
<1>2. StoreTypeOK' /\ Dispatched'
  BY <1>1, TransitionStore DEF Control, TypeOK
<1> QED BY <1>1, <1>2, EndMoved DEF CommitSwitch, FailSwitch

LEMMA SelectMoved ==
  ASSUME Control, NEW c \in Calls, Select(c)
  PROVE  Moved(c)
BY StartSelectMoved, SelectIdleMoved, SelectBeginMoved, SelectPrepareMoved, SubmitSwitchMoved, EndSwitchMoved DEF Select

----------------------------------------------------------------------------
(* Typing and control: the two recoveries. *)

LEMMA StartReconcileMoved ==
  ASSUME Control, NEW c \in Calls, NEW t \in Threads, StartReconcile(c, t)
  PROVE  Moved(c)
<1>1. TypeOK /\ CallOK(c)  BY DEF Control
<1>2. CallTypes' /\ OthersKeep(c)
  BY <1>1 DEF TypeOK, StartReconcile, CallTypes, OthersKeep, Labels, AllKinds, RecoveryKinds
<1>3. /\ pc'[c] = "reconcile" /\ kind'[c] = "reconcile" /\ thread'[c] = t /\ gate'[c] = t
      /\ UNCHANGED <<storeVars, sourceVars, workspace, reply, held, contract, work>>
      /\ pc[c] = "idle" /\ t \notin busyThreads
  BY <1>1 DEF TypeOK, StartReconcile
<1>4. CallOK(c)'
  BY <1>1, <1>3 DEF CallOK, InPlace, Equipped, Active, Gateless, AllKinds, CatalogKinds, RunKinds, MaintenanceKinds,
                    RecoveryKinds, Reconciles
<1>5. StoreTypeOK' /\ Dispatched' /\ SourceTypeOK'
  BY <1>3, SameStore, SameSource DEF Control, TypeOK
<1> QED BY <1>2, <1>3, <1>4, <1>5 DEF Moved

LEMMA ReconcileTransitionMoved ==
  ASSUME Control, NEW c \in Calls, ReconcileTransition(c)
  PROVE  Moved(c)
<1> DEFINE t == thread[c]
<1>1. /\ TypeOK /\ CallOK(c) /\ pc[c] = "reconcile" /\ t \in Threads /\ gate[c] = t /\ transitions[t] # Null
      /\ Active(c)
  BY HasThread DEF Control, ReconcileTransition, Active
<1>2. CASE FailTransition(t) /\ (Return(c) \/ Finish(c)) /\ UNCHANGED sourceVars
  <2>1. StoreTypeOK' /\ Dispatched'
    BY <1>1, <1>2, TransitionStore DEF Control, TypeOK
  <2> QED BY <1>1, <1>2, <2>1, EndMoved
<1>3. CASE /\ transitions[t].state # "preparing"
           /\ contract' = [contract EXCEPT ![c] = transitions[t].contract]
           /\ Send(c, "read", Null, Null, FALSE)
           /\ Goto(c, "selectRead")
           /\ UNCHANGED <<storeVars, kind, thread, workspace, gate, held, work>>
  <2>1. transitions[t].contract \in Contracts
    BY <1>1, <1>3 DEF Control, Dispatched, TypeOK, StoreTypeOK, Transition
  <2>2. SourceTypeOK' /\ reply' = [reply EXCEPT ![c] = Null] /\ reply' \in [Calls -> Answer \cup {Null}]
    BY <1>1, <1>3, SendOK DEF Methods
  <2>3. CallTypes' /\ OthersKeep(c)
    BY <1>1, <1>3, <2>1, <2>2 DEF CallTypes, OthersKeep, TypeOK, Goto, Labels, Waiting
  <2>4. pc'[c] = "selectRead" /\ contract'[c] # Null
    BY <1>1, <1>3, <2>1 DEF TypeOK, Goto
  <2>5. CallOK(c)'
    BY <1>1, <1>3, <2>4 DEF CallOK, InPlace, Equipped, Active, Gateless, AllKinds, CatalogKinds, RunKinds,
                            MaintenanceKinds, Reconciles
  <2>6. StoreTypeOK' /\ Dispatched'
    BY <1>3, SameStore DEF Control, TypeOK
  <2> QED BY <1>3, <2>2, <2>3, <2>5, <2>6 DEF Moved
<1> QED BY <1>1, <1>2, <1>3 DEF ReconcileTransition

LEMMA ReconcileCatalogMoved ==
  ASSUME Control, NEW c \in Calls, ReconcileCatalog(c)
  PROVE  Moved(c)
<1>1. /\ TypeOK /\ CallOK(c) /\ pc[c] = "reconcile" /\ Active(c)
  BY DEF Control, ReconcileCatalog, Active
<1>2. PICK id \in ReservedBy(thread[c]) :
       /\ Row(id).operation \in CatalogKinds
       /\ \/ Row(id).state = "preparing" /\ Release(id) /\ Return(c) /\ UNCHANGED sourceVars
          \/ /\ Row(id).state # "preparing" /\ Row(id).operation = "delete"
             /\ IF IsDeletionConfirmed(id)
                THEN /\ held' = [held EXCEPT ![c] = id] /\ Goto(c, "forget")
                     /\ UNCHANGED <<kind, thread, workspace, gate, reply, contract, work>>
                ELSE Finish(c)
             /\ UNCHANGED <<storeVars, sourceVars>>
          \/ /\ Row(id).state # "preparing" /\ Row(id).operation # "delete"
             /\ held' = [held EXCEPT ![c] = id]
             /\ Send(c, "evidence", Row(id).workspace, Null, Row(id).operation = "archive")
             /\ Goto(c, "evidence")
             /\ UNCHANGED <<storeVars, kind, thread, workspace, gate, contract, work>>
  BY DEF ReconcileCatalog
<1>3. id \in Reservations /\ Row(id) \in Reservation
  BY <1>1, LiveRow DEF ReservedBy, TypeOK
<1>4. CASE Release(id) /\ Return(c) /\ UNCHANGED sourceVars
  <2>1. StoreTypeOK' /\ Dispatched'
    BY <1>3, <1>4, RowStore DEF Control, TypeOK
  <2> QED BY <1>1, <1>4, <2>1, EndMoved
<1>5. CASE Finish(c) /\ UNCHANGED <<storeVars, sourceVars>>
  BY <1>1, <1>5, EndMoved, SameStore DEF Control, TypeOK
<1>6. CASE /\ held' = [held EXCEPT ![c] = id] /\ Goto(c, "forget")
           /\ UNCHANGED <<kind, thread, workspace, gate, reply, contract, work>>
           /\ UNCHANGED <<storeVars, sourceVars>>
  <2>1. CallTypes' /\ OthersKeep(c) /\ pc'[c] = "forget" /\ held'[c] = id
    BY <1>1, <1>3, <1>6 DEF CallTypes, OthersKeep, TypeOK, Goto, Labels
  <2>2. CallOK(c)'
    BY <1>1, <1>3, <1>6, <2>1 DEF CallOK, InPlace, Equipped, Active, Gateless, AllKinds, CatalogKinds, RunKinds,
                            MaintenanceKinds, Reconciles
  <2> QED BY <1>1, <1>6, <2>1, <2>2, SameStore, SameSource DEF Moved, Control, TypeOK
<1>7. CASE /\ held' = [held EXCEPT ![c] = id]
           /\ Send(c, "evidence", Row(id).workspace, Null, Row(id).operation = "archive")
           /\ Goto(c, "evidence")
           /\ UNCHANGED <<storeVars, kind, thread, workspace, gate, contract, work>>
  <2>1. Row(id).workspace \in Workspaces  BY <1>3 DEF Reservation
  <2>2. SourceTypeOK' /\ reply' = [reply EXCEPT ![c] = Null] /\ reply' \in [Calls -> Answer \cup {Null}]
    BY <1>1, <1>7, <2>1, SendOK DEF Methods
  <2>3. CallTypes' /\ OthersKeep(c) /\ pc'[c] = "evidence" /\ held'[c] = id
    BY <1>1, <1>3, <1>7, <2>2 DEF CallTypes, OthersKeep, TypeOK, Goto, Labels, Waiting
  <2>4. CallOK(c)'
    BY <1>1, <1>3, <1>7, <2>3 DEF CallOK, InPlace, Equipped, Active, Gateless, AllKinds, CatalogKinds, RunKinds,
                            MaintenanceKinds, Reconciles
  <2> QED BY <1>7, <2>2, <2>3, <2>4, SameStore DEF Moved, Control, TypeOK
<1> QED BY <1>2, <1>4, <1>5, <1>6, <1>7

LEMMA ArchiveVerifiedMoved ==
  ASSUME Control, NEW c \in Calls, ArchiveVerified(c)
  PROVE  Moved(c)
<1>1. TypeOK /\ CallOK(c) /\ pc[c] = "evidence" /\ Active(c) /\ UNCHANGED sourceVars
  BY DEF Control, ArchiveVerified, Active
<1>2. CASE WriteArchiveState(thread[c], Row(held[c]).operation = "archive") /\ Continue(c, "release")
  <2>1. StoreTypeOK' /\ Dispatched' /\ SourceTypeOK'
    BY <1>1, <1>2, ArchiveStateOK, SameSource DEF Control, TypeOK
  <2>2. /\ CallTypes' /\ OthersKeep(c)
        /\ pc'[c] = "release" /\ UNCHANGED <<kind, thread, workspace, gate, reply, held, contract, work>>
    BY <1>1, <1>2, ContinueOK DEF Labels
  <2>3. CallOK(c)'
    BY <1>1, <2>2 DEF CallOK, InPlace, Equipped, Active, Gateless, RunKinds, CatalogKinds, MaintenanceKinds, Reconciles
  <2> QED BY <2>1, <2>2, <2>3 DEF Moved
<1>3. CASE Finish(c) /\ UNCHANGED storeVars
  BY <1>1, <1>3, EndMoved, SameStore DEF Control, TypeOK
<1> QED BY <1>2, <1>3 DEF ArchiveVerified, File

LEMMA ReconcileExecutionMoved ==
  ASSUME Control, NEW c \in Calls, ReconcileExecution(c)
  PROVE  Moved(c)
<1>1. TypeOK /\ CallOK(c) /\ pc[c] = "reconcile" /\ Active(c) /\ UNCHANGED storeVars
  BY DEF Control, ReconcileExecution, Active
<1>2. StoreTypeOK' /\ Dispatched'
  BY <1>1, SameStore DEF Control, TypeOK
<1>3. CASE Finish(c) /\ UNCHANGED sourceVars
  BY <1>1, <1>2, <1>3, EndMoved
<1>4. ASSUME NEW id \in Calls \cup {Null}, held' = [held EXCEPT ![c] = id],
             Send(c, "read", Null, Null, FALSE), Goto(c, "idleRead"),
             UNCHANGED <<kind, thread, workspace, gate, contract, work>>
      PROVE  Moved(c)
  <2>1. SourceTypeOK' /\ reply' = [reply EXCEPT ![c] = Null] /\ reply' \in [Calls -> Answer \cup {Null}]
    BY <1>1, <1>4, SendOK DEF Methods
  <2>2. CallTypes' /\ OthersKeep(c) /\ pc'[c] = "idleRead"
    BY <1>1, <1>4, <2>1 DEF CallTypes, OthersKeep, TypeOK, Goto, Labels, Waiting
  <2>3. CallOK(c)'
    BY <1>1, <1>4, <2>2 DEF CallOK, InPlace, Equipped, Active, Gateless, AllKinds, CatalogKinds, RunKinds,
                            MaintenanceKinds, Reconciles
  <2> QED BY <1>2, <1>4, <2>1, <2>2, <2>3 DEF Moved
<1>5. UNCHANGED held => held' = [held EXCEPT ![c] = held[c]] /\ held[c] \in Calls \cup {Null}
  BY <1>1 DEF TypeOK
<1> QED BY <1>3, <1>4, <1>5 DEF ReconcileExecution, ReservedBy

LEMMA ReleaseIdleMoved ==
  ASSUME Control, NEW c \in Calls, ReleaseIdle(c)
  PROVE  Moved(c)
<1>1. /\ TypeOK /\ Active(c) /\ UNCHANGED sourceVars /\ (Return(c) \/ Finish(c))
      /\ UNCHANGED storeVars \/ (Release(held[c]) /\ held[c] \in Reservations)
  BY DEF Control, ReleaseIdle, Active, TypeOK
<1>2. StoreTypeOK' /\ Dispatched'
  BY <1>1, RowStore, SameStore DEF Control, TypeOK
<1> QED BY <1>1, <1>2, EndMoved

\* The rows that a recovery of a workspace lists.
LEMMA ItemsOK ==
  ASSUME StoreTypeOK, NEW w
  PROVE  TransitionItems(w) \in SUBSET Item /\ ReservationItems(w) \in SUBSET Item
<1>1. TransitionItems(w) \in SUBSET Item
  BY DEF TransitionItems, Item, StoreTypeOK, Transition, TransitionStates, ReservationStates
<1>2. ReservationItems(w) \in SUBSET Item
  <2>1. \A i \in ReservedOn(w) : Row(i).thread \in Threads \cup {Null} /\ Row(i).state \in ReservationStates /\ i \in Calls
    BY LiveRow DEF ReservedOn, Reservation
  <2> QED BY <2>1 DEF ReservationItems, Item
<1> QED BY <1>1, <1>2

LEMMA RemainingOK ==
  ASSUME TypeOK, NEW c \in Calls
  PROVE  Remaining(c) \in Work
<1>1. [stage |-> "reservations", items |-> ReservationItems(workspace[c])] \in Work
  BY ItemsOK DEF Work, TypeOK
<1> QED BY <1>1 DEF Remaining, TypeOK

LEMMA StartReconcileWorkspaceMoved ==
  ASSUME Control, NEW c \in Calls, NEW w \in Workspaces, StartReconcileWorkspace(c, w)
  PROVE  Moved(c)
<1>1. TypeOK /\ CallOK(c)  BY DEF Control
<1>2. [stage |-> "transitions", items |-> TransitionItems(w)] \in Work
  BY <1>1, ItemsOK DEF Work, TypeOK
<1>3. CallTypes' /\ OthersKeep(c)
  BY <1>1, <1>2 DEF TypeOK, StartReconcileWorkspace, CallTypes, OthersKeep, Labels, AllKinds, RecoveryKinds
<1>4. /\ pc'[c] = "items" /\ kind'[c] = "reconcileWorkspace" /\ workspace'[c] = w
      /\ UNCHANGED <<storeVars, sourceVars, thread, gate, reply, held, contract>>
      /\ pc[c] = "idle"
  BY <1>1 DEF TypeOK, StartReconcileWorkspace
<1>5. CallOK(c)'
  BY <1>1, <1>4 DEF CallOK, InPlace, Equipped, Active, Gateless, AllKinds, CatalogKinds, RunKinds, MaintenanceKinds,
                    RecoveryKinds, Reconciles
<1>6. StoreTypeOK' /\ Dispatched' /\ SourceTypeOK'
  BY <1>4, SameStore, SameSource DEF Control, TypeOK
<1> QED BY <1>3, <1>4, <1>5, <1>6 DEF Moved

LEMMA TreatItemsMoved ==
  ASSUME Control, NEW c \in Calls, TreatItems(c)
  PROVE  Moved(c)
<1> DEFINE rest == Remaining(c)
<1>1. TypeOK /\ CallOK(c) /\ pc[c] = "items" /\ Active(c) /\ UNCHANGED sourceVars
  BY DEF Control, TreatItems, Active
<1>2. PICK undispatched \in SUBSET {i \in rest.items : i.thread = Null /\ i.state = "preparing"} :
       /\ ChangeReservations([id \in Reservations |->
            IF \E i \in undispatched : i.id = id THEN Null ELSE Row(id)])
       /\ \/ undispatched = rest.items /\ Finish(c)
          \/ \E i \in rest.items \ undispatched :
               \/ /\ i.thread # Null /\ i.thread \notin busyThreads
                  /\ thread' = [thread EXCEPT ![c] = i.thread]
                  /\ gate' = [gate EXCEPT ![c] = i.thread]
                  /\ work' = [work EXCEPT ![c] = [rest EXCEPT !.items = @ \ (undispatched \cup {i})]]
                  /\ Goto(c, "reconcile")
                  /\ UNCHANGED <<kind, workspace, reply, held, contract>>
               \/ /\ IF i.thread = Null THEN i.state # "preparing" ELSE i.thread \in busyThreads
                  /\ Finish(c)
  BY DEF TreatItems
<1>3. StoreTypeOK' /\ Dispatched'
  <2> DEFINE P(id) == \E i \in undispatched : i.id = id
  <2>1. reservations' = [id \in Reservations |-> IF P(id) THEN Null ELSE Row(id)]
    BY <1>2 DEF ChangeReservations
  <2> HIDE DEF P
  <2>2. reservations' \in [Reservations -> Reservation \cup {Null}]
    BY <1>1, <2>1 DEF TypeOK, StoreTypeOK, Row
  <2> QED BY <1>1, <1>2, <2>2 DEF Control, TypeOK, StoreTypeOK, Dispatched, ChangeReservations
<1>4. CASE Finish(c)
  BY <1>1, <1>3, <1>4, EndMoved
<1>5. ASSUME NEW i \in rest.items,
             i.thread # Null, i.thread \notin busyThreads,
             thread' = [thread EXCEPT ![c] = i.thread],
             gate' = [gate EXCEPT ![c] = i.thread],
             work' = [work EXCEPT ![c] = [rest EXCEPT !.items = @ \ (undispatched \cup {i})]],
             Goto(c, "reconcile"),
             UNCHANGED <<kind, workspace, reply, held, contract>>
      PROVE  Moved(c)
  <2>1. rest \in Work  BY <1>1, RemainingOK
  <2>2. rest.items \in SUBSET Item /\ i \in Item  BY <2>1 DEF Work
  <2>3. i.thread \in Threads  BY <1>5, <2>2 DEF Item
  <2>4. [rest EXCEPT !.items = @ \ (undispatched \cup {i})] \in Work
    BY <2>1, <2>2 DEF Work
  <2>5. CallTypes' /\ OthersKeep(c) /\ pc'[c] = "reconcile" /\ thread'[c] = i.thread /\ gate'[c] = i.thread
    BY <1>1, <1>5, <2>3, <2>4 DEF CallTypes, OthersKeep, TypeOK, Goto, Labels
  <2>6. CallOK(c)'
    BY <1>1, <1>5, <2>5 DEF CallOK, InPlace, Equipped, Active, Gateless, AllKinds, CatalogKinds, RunKinds,
                            MaintenanceKinds, Reconciles
  <2> QED BY <1>1, <1>3, <1>5, <2>5, <2>6, SameSource DEF Moved, TypeOK
<1> QED BY <1>2, <1>4, <1>5

LEMMA RecoverMoved ==
  ASSUME Control, NEW c \in Calls, Recover(c)
  PROVE  Moved(c)
BY StartReconcileMoved, StartReconcileWorkspaceMoved, ReconcileTransitionMoved, ReconcileCatalogMoved,
   ArchiveVerifiedMoved, ReconcileExecutionMoved, ReleaseIdleMoved, TreatItemsMoved DEF Recover

----------------------------------------------------------------------------
(* Typing and control: the whole system. *)

LEMMA StepMoved ==
  ASSUME Control, NEW c \in Calls, Step(c)
  PROVE  Moved(c)
BY RunMoved, CatalogMoved, SelectMoved, RecoverMoved DEF Step

\* A call takes a gate only when nobody holds it.
LEMMA MovedControl ==
  ASSUME Control, NEW c \in Calls, Moved(c), Uneventful, misfiled' \subseteq Threads \cup {Null}
  PROVE  Control'
<1>1. TypeOK' BY DEF Moved, Control, TypeOK, CallTypes, Uneventful
<1>2. \A d \in Calls : CallOK(d)'
  BY OthersOK DEF Moved, Control
<1>3. OneGate'
  <2> SUFFICES ASSUME NEW a \in Calls, NEW b \in Calls, gate'[a] # Null, gate'[a] = gate'[b]
               PROVE  a = b
    BY DEF OneGate
  <2>1. \A d \in Calls \ {c} : gate'[d] = gate[d]  BY DEF Moved, OthersKeep
  <2>2. gate'[c] \in {Null, gate[c]} \/ (\A d \in Calls : gate'[c] # Null => gate[d] # gate'[c])
    BY DEF Moved, busyThreads
  <2> QED BY <2>1, <2>2 DEF Control, OneGate
<1> QED BY <1>1, <1>2, <1>3 DEF Moved, Control

\* What changes no register but the answers of calls that wait.
LEMMA AnswersControl ==
  ASSUME Control, TypeOK', Dispatched',
         UNCHANGED <<pc, kind, thread, workspace, gate, held, contract, work>>,
         \A c \in Calls : Active(c) \/ reply'[c] = reply[c]
  PROVE  Control'
<1>1. \A d \in Calls : CallOK(d)'  BY DEF Control, CallOK, InPlace, Equipped, Active
<1> QED BY <1>1 DEF Control, OneGate

LEMMA RejectionOK ==
  ASSUME NEW c \in Calls
  PROVE  Rejection(c) \in Answer /\ Rejection(c).result = "error" /\ Rejection(c).call = c
BY DEF Rejection, Answer, Results

LEMMA AwaitingActive ==
  ASSUME NEW c \in Calls, Awaiting(c)
  PROVE  Active(c)
BY DEF Awaiting, Active, Waiting

LEMMA ObserveOK ==
  ASSUME StoreTypeOK, Dispatched, NEW t \in Threads, NEW u \in Turns, NEW b \in BOOLEAN, ObserveTurn(t, u, b)
  PROVE  StoreTypeOK' /\ Dispatched'
<1>1. StoreTypeOK'  BY ThreadTransactionType DEF ThreadTransaction
<1>2. transitions' = transitions  BY DEF ObserveTurn, storeVars
<1> QED BY <1>1, <1>2 DEF Dispatched

LEMMA EventKinds ==
  ASSUME NEW e \in Event
  PROVE  /\ e.type = "answer" => e \in Answer
         /\ e.type = "deleted" => e.thread \in Threads
         /\ e.type \notin {"answer", "deleted"} =>
              e.thread \in Threads /\ e.turn \in Turns /\ e.type \in {"started", "completed"}
BY DEF Event, Answer, TurnNotification, DeletedNotification

LEMMA FirstEvent ==
  ASSUME SourceTypeOK, events # <<>>
  PROVE  Head(events) \in Event /\ Tail(events) \in Seq(Event)
BY DEF SourceTypeOK

LEMMA DeliverControl ==
  ASSUME Control, Deliver
  PROVE  Control'
<1> DEFINE message == Head(events)
<1>1. TypeOK /\ events # <<>> /\ events' = Tail(events)
      /\ UNCHANGED <<known, running, started, sourceArchived, sourceCwd, reported, requests>>
      /\ UNCHANGED <<pc, kind, thread, workspace, gate, held, contract, work>>
      /\ UNCHANGED <<listed, misfiled, crashes, exits>>
  BY DEF Control, Deliver, Still, Uneventful
<1>2. message \in Event /\ SourceTypeOK'
  BY <1>1, FirstEvent DEF TypeOK, SourceTypeOK
<1>3. CASE /\ message.type = "answer"
           /\ reply' = [reply EXCEPT ![message.call] = IF Awaiting(message.call) THEN message ELSE @]
           /\ UNCHANGED storeVars
  <2>1. message \in Answer /\ message.call \in Calls
    BY <1>2, <1>3, EventKinds DEF Answer
  <2>2. reply' \in [Calls -> Answer \cup {Null}]
    BY <1>1, <1>3, <2>1 DEF TypeOK
  <2>3. \A c \in Calls : Active(c) \/ reply'[c] = reply[c]
    BY <1>1, <1>3, <2>1, AwaitingActive DEF TypeOK
  <2>4. StoreTypeOK' /\ Dispatched'
    BY <1>1, <1>3, SameStore DEF Control, TypeOK
  <2>5. TypeOK'
    BY <1>1, <1>2, <2>2, <2>4 DEF TypeOK
  <2> QED BY <1>1, <2>3, <2>4, <2>5, AnswersControl
<1>4. CASE message.type # "answer" /\ Notice(message) /\ UNCHANGED reply
  <2>1. StoreTypeOK' /\ Dispatched'
    <3>1. CASE message.type = "deleted"
      BY <1>1, <1>2, <1>4, <3>1, ForgetOK, SameStore, EventKinds DEF Notice, Control, TypeOK
    <3>2. CASE message.type # "deleted"
      <4>1. message.thread \in Threads /\ message.turn \in Turns
        BY <1>2, <1>4, <3>2, EventKinds
      <4>2. ObserveTurn(message.thread, message.turn, message.type = "completed")
        BY <1>4, <3>2 DEF Notice
      <4> QED BY <1>1, <4>1, <4>2, ObserveOK DEF Control, TypeOK
    <3> QED BY <3>1, <3>2
  <2>2. TypeOK'
    BY <1>1, <1>2, <1>4, <2>1 DEF TypeOK
  <2> QED BY <1>1, <1>4, <2>1, <2>2, AnswersControl
<1> QED BY <1>3, <1>4 DEF Deliver

LEMMA TimeoutControl ==
  ASSUME Control, NEW c \in Calls, Timeout(c)
  PROVE  Control'
<1>1. TypeOK /\ Awaiting(c) /\ reply' = [reply EXCEPT ![c] = Rejection(c)]
      /\ UNCHANGED <<storeVars, sourceVars, pc, kind, thread, workspace, gate, held, contract, work>>
      /\ UNCHANGED <<listed, misfiled, crashes, exits>>
  BY DEF Control, Timeout, Still, Uneventful
<1>2. StoreTypeOK' /\ Dispatched' /\ SourceTypeOK'
  BY <1>1, SameStore, SameSource DEF Control, TypeOK
<1>3. TypeOK'
  BY <1>1, <1>2, RejectionOK DEF TypeOK
<1> QED BY <1>1, <1>2, <1>3, AnswersControl, AwaitingActive DEF TypeOK

\* Serving a request and what turns do keep the types of the source.
LEMMA EmitOne ==
  ASSUME SourceTypeOK, NEW e \in Event, Emit(<<e>>)
  PROVE  events' \in Seq(Event)
<1>1. events' = Append(events, e)  BY DEF Emit, SourceTypeOK
<1> QED BY <1>1 DEF SourceTypeOK

LEMMA EmitTwo ==
  ASSUME SourceTypeOK, NEW e \in Event, NEW f \in Event, Emit(<<e, f>>)
  PROVE  events' \in Seq(Event)
<1>1. events' = Append(Append(events, e), f)  BY DEF Emit, SourceTypeOK
<1> QED BY <1>1 DEF SourceTypeOK

LEMMA ReplyType ==
  ASSUME SourceTypeOK, requests # <<>>, NEW result \in Results, NEW t \in Threads \cup {Null}
  PROVE  Reply(result, t) \in Event /\ Reply(result, t) \in Answer /\ Oldest \in Request
<1>1. Oldest \in Request
  BY DEF SourceTypeOK, Oldest
<1>2. Oldest.call \in Calls  BY <1>1 DEF Request
<1> QED BY <1>1, <1>2 DEF Reply, Answer, Event

LEMMA StartedOK ==
  ASSUME NEW t \in Threads, NEW u \in Calls \cup ForeignTurns, NEW type \in {"started", "completed"}
  PROVE  [type |-> type, thread |-> t, turn |-> u] \in Event
BY DEF Event, TurnNotification

LEMMA ServeType ==
  ASSUME SourceTypeOK, Serve
  PROVE  SourceTypeOK'
<1>1. requests # <<>> /\ requests' = Tail(requests) /\ requests' \in Seq(Request) /\ Oldest \in Request
  BY ReplyType DEF Serve, SourceTypeOK, Oldest
<1>2. \A result \in Results, t \in Threads \cup {Null} : Reply(result, t) \in Event
  BY <1>1, ReplyType
<1>3. {"ok", "idle", "active", "error"} = Results  BY DEF Results
<1> USE <1>1, <1>2, <1>3
<1>4. CASE ServeRead
  <2>1. PICK result \in Results : Emit(<<Reply(result, Null)>>)
    BY <1>4 DEF ServeRead
  <2> QED BY <1>4, <2>1, EmitOne DEF ServeRead, SourceTypeOK
<1>5. CASE ServeEvidence
  <2>1. PICK result \in Results : Emit(<<Reply(result, Null)>>)
    BY <1>5 DEF ServeEvidence
  <2> QED BY <1>5, <2>1, EmitOne DEF ServeEvidence, SourceTypeOK
<1>6. CASE ServeNewThread
  <2>1. PICK t \in Threads \ known :
          known' = known \cup {t} /\ sourceCwd' = [sourceCwd EXCEPT ![t] = Oldest.cwd] /\ Emit(<<Reply("ok", t)>>)
    BY <1>6 DEF ServeNewThread
  <2>2. Oldest.cwd \in Workspaces \cup {Null}  BY DEF Request
  <2>3. events' \in Seq(Event)  BY <2>1, EmitOne DEF SourceTypeOK
  <2> QED BY <1>6, <2>1, <2>2, <2>3 DEF ServeNewThread, SourceTypeOK
<1>7. CASE ServeStart
  <2>1. Oldest.thread \in Threads /\ Oldest.call \in Calls /\ Oldest.cwd \in Workspaces \cup {Null}
    BY <1>7 DEF ServeStart, Idle, SourceTypeOK, Request
  <2>2. [type |-> "started", thread |-> Oldest.thread, turn |-> Oldest.call] \in Event
    BY <2>1, StartedOK
  <2>4. events' \in Seq(Event)
    BY <1>7, <2>2, EmitTwo DEF ServeStart, SourceTypeOK
  <2>5. UNCHANGED <<known, sourceArchived, reported>>
        /\ running' = [running EXCEPT ![Oldest.thread] = Oldest.call]
        /\ started' = started \cup {Oldest.call}
        /\ sourceCwd' = [sourceCwd EXCEPT ![Oldest.thread] = IF Oldest.method = "turn" THEN Oldest.cwd ELSE @]
    BY <1>7 DEF ServeStart
  <2> QED BY <2>1, <2>4, <2>5 DEF SourceTypeOK
<1>8. CASE ServeRollback
  <2>1. Emit(<<Reply("ok", Null)>>)
    BY <1>8 DEF ServeRollback
  <2> QED BY <1>8, <2>1, EmitOne DEF ServeRollback, SourceTypeOK
<1>9. CASE ServeResume
  <2> DEFINE t == Oldest.thread
  <2>1. PICK result \in Results : Emit(<<Reply(result, Null)>>)
    BY <1>9 DEF ServeResume
  <2>2. events' \in Seq(Event)  BY <2>1, EmitOne DEF SourceTypeOK
  <2>3. t \in Threads /\ Oldest.cwd \in Workspaces \cup {Null} /\ Oldest.contract \in Contracts \cup {Null}
    BY <1>9 DEF ServeResume, Idle, SourceTypeOK, Request
  <2>4. sourceCwd' \in [Threads -> Workspaces \cup {Null}] /\ reported' \in [Threads -> Contracts \cup {Null}]
    BY <1>9, <2>3 DEF ServeResume, SourceTypeOK
  <2> QED BY <1>9, <2>2, <2>4 DEF ServeResume, SourceTypeOK
<1>10. CASE ServeArchive
  <2>1. Emit(<<Reply("ok", Null)>>)
    BY <1>10 DEF ServeArchive
  <2> QED BY <1>10, <2>1, EmitOne DEF ServeArchive, SourceTypeOK
<1>11. CASE ServeDelete
  <2> DEFINE deleted == [type |-> "deleted", thread |-> Oldest.thread]
  <2>1. Oldest.thread \in Threads  BY <1>11 DEF ServeDelete, SourceTypeOK
  <2>2. deleted \in Event  BY <2>1 DEF Event, DeletedNotification
  <2>4. events' \in Seq(Event)  BY <1>11, <2>2, EmitTwo DEF ServeDelete, SourceTypeOK
  <2> QED BY <1>11, <2>1, <2>4 DEF ServeDelete, SourceTypeOK
<1>12. CASE Refuse
  <2>1. Emit(<<Reply("error", Null)>>)
    BY <1>12 DEF Refuse
  <2> QED BY <1>12, <2>1, EmitOne DEF Refuse, SourceTypeOK
<1> QED BY <1>4, <1>5, <1>6, <1>7, <1>8, <1>9, <1>10, <1>11, <1>12 DEF Serve

LEMMA TurnsType ==
  ASSUME SourceTypeOK,
         \/ \E t \in Threads : CompleteTurn(t)
         \/ \E t \in Threads, u \in ForeignTurns : StartForeignTurn(t, u)
  PROVE  SourceTypeOK'
<1>1. ASSUME NEW t \in Threads, CompleteTurn(t)  PROVE SourceTypeOK'
  <2>1. running[t] \in Calls \cup ForeignTurns  BY <1>1 DEF CompleteTurn, SourceTypeOK
  <2>2. [type |-> "completed", thread |-> t, turn |-> running[t]] \in Event
    BY <2>1, StartedOK
  <2>3. events' \in Seq(Event)  BY <1>1, <2>2, EmitOne DEF CompleteTurn, SourceTypeOK
  <2> QED BY <1>1, <2>3 DEF CompleteTurn, SourceTypeOK
<1>2. ASSUME NEW t \in Threads, NEW u \in ForeignTurns, StartForeignTurn(t, u)  PROVE SourceTypeOK'
  <2>1. [type |-> "started", thread |-> t, turn |-> u] \in Event
    BY StartedOK
  <2>2. events' \in Seq(Event)  BY <1>2, <2>1, EmitOne DEF StartForeignTurn, SourceTypeOK
  <2> QED BY <1>2, <2>2 DEF StartForeignTurn, SourceTypeOK
<1> QED BY <1>1, <1>2

LEMMA ExitType ==
  ASSUME SourceTypeOK, Exit
  PROVE  SourceTypeOK'
BY DEF SourceTypeOK, Exit

LEMMA SourceControl ==
  ASSUME Control, Source
  PROVE  Control'
<1>1. SourceTypeOK'
  BY ServeType, TurnsType DEF Source, Control, TypeOK
<1>2. TypeOK /\ UNCHANGED <<storeVars, callVars, listed, misfiled, crashes, exits>>
  BY DEF Source, Still, Uneventful, Control
<1>3. StoreTypeOK' /\ Dispatched'
  BY <1>2, SameStore DEF Control, TypeOK
<1>4. TypeOK'
  BY <1>1, <1>2, <1>3 DEF TypeOK, callVars
<1> QED BY <1>2, <1>3, <1>4, AnswersControl DEF callVars

LEMMA SourceExitControl ==
  ASSUME Control, SourceExit
  PROVE  Control'
<1>1. TypeOK /\ exits < MaxExits /\ exits' = exits + 1 /\ Exit
      /\ reply' = [c \in Calls |-> IF Awaiting(c) THEN Rejection(c) ELSE reply[c]]
      /\ UNCHANGED <<storeVars, pc, kind, thread, workspace, gate, held, contract, work, listed, misfiled, crashes>>
  BY DEF SourceExit, Control
<1>2. StoreTypeOK' /\ Dispatched' /\ SourceTypeOK'
  BY <1>1, SameStore, ExitType DEF Control, TypeOK
<1>3. exits' \in 0..MaxExits
  BY <1>1 DEF TypeOK
<1>4. reply' \in [Calls -> Answer \cup {Null}]
  BY <1>1, RejectionOK DEF TypeOK
<1>5. TypeOK'
  BY <1>1, <1>2, <1>3, <1>4 DEF TypeOK
<1> QED BY <1>1, <1>2, <1>5, AnswersControl, AwaitingActive

LEMMA CrashControl ==
  ASSUME Control, Crash
  PROVE  Control'
<1>1. TypeOK /\ crashes < MaxCrashes /\ crashes' = crashes + 1 /\ Exit
      /\ UNCHANGED <<storeVars, kind, thread, workspace, misfiled, exits>> /\ listed' = {}
      /\ \A c \in Calls : CallOK(c)
  BY DEF Crash, Control
<1>2. /\ pc' = [c \in Calls |-> IF pc[c] = "idle" THEN "idle" ELSE "done"]
      /\ gate' = [c \in Calls |-> Null] /\ reply' = [c \in Calls |-> Null]
      /\ held' = [c \in Calls |-> Null] /\ contract' = [c \in Calls |-> Null]
      /\ work' = [c \in Calls |-> NoWork]
  BY DEF Crash
<1>3. StoreTypeOK' /\ Dispatched' /\ SourceTypeOK'
  BY <1>1, SameStore, ExitType DEF Control, TypeOK
<1>4. crashes' \in 0..MaxCrashes
  BY <1>1 DEF TypeOK
<1>5. CallTypes'
  BY <1>1, <1>2, NoWorkType DEF TypeOK, CallTypes, Labels
<1>6. TypeOK'
  BY <1>1, <1>3, <1>4, <1>5 DEF TypeOK, CallTypes
<1>7. \A c \in Calls : CallOK(c)'
  BY <1>1, <1>2 DEF CallOK, InPlace, Equipped, Active
<1>8. OneGate'
  BY <1>2 DEF OneGate
<1> QED BY <1>3, <1>6, <1>7, <1>8 DEF Control

LEMMA StepUneventful ==
  ASSUME NEW c \in Calls, Step(c)
  PROVE  Uneventful
BY DEF Step, Run, Catalog, Select, Recover, StartRun, ReserveRun, ReserveRefused, RecoverRollback, CheckIdle, FailRun,
  CreateThread, IndexThread, ConfirmThread, Bind, Submit, Maintain, AcknowledgeTurn, FinishTurn, AcknowledgeMaintained,
  StartCatalog, ReserveCatalog, SubmitCatalog, CatalogAnswered, FailCatalog, Forget, ReleaseCatalog,
  StartSelect, SelectIdle, SelectBegin, SelectPrepare, SubmitSwitch, CommitSwitch, FailSwitch,
  StartReconcile, ReconcileTransition, ReconcileCatalog, ArchiveVerified, ReconcileExecution, ReleaseIdle,
  StartReconcileWorkspace, TreatItems, Still

\* Three pieces of code write the catalogue, the others leave the ghost alone.
LEMMA StepFiles ==
  ASSUME NEW c \in Calls, Step(c)
  PROVE  UNCHANGED misfiled \/ IndexThread(c) \/ CatalogAnswered(c) \/ ArchiveVerified(c)
BY DEF Step, Run, Catalog, Select, Recover, StartRun, ReserveRun, ReserveRefused, RecoverRollback, CheckIdle, FailRun,
  CreateThread, ConfirmThread, Bind, Submit, Maintain, AcknowledgeTurn, FinishTurn, AcknowledgeMaintained,
  StartCatalog, ReserveCatalog, SubmitCatalog, FailCatalog, Forget, ReleaseCatalog,
  StartSelect, SelectIdle, SelectBegin, SelectPrepare, SubmitSwitch, CommitSwitch, FailSwitch,
  StartReconcile, ReconcileTransition, ReconcileCatalog, ReconcileExecution, ReleaseIdle,
  StartReconcileWorkspace, TreatItems, Still

LEMMA StepControl ==
  ASSUME Control, NEW c \in Calls, Step(c)
  PROVE  Control'
<1>1. misfiled \subseteq Threads \cup {Null} /\ reply[c] \in Answer \cup {Null}
  BY DEF Control, TypeOK
<1>2. CASE IndexThread(c)
  <2>1. reply[c].thread \in Threads \cup {Null} /\ Misfile(reply[c].thread, FALSE)
    BY <1>1, <1>2 DEF IndexThread, Answered, Answer
  <2> QED BY <1>1, <2>1, StepMoved, StepUneventful, MovedControl DEF Misfile
<1>3. CASE CatalogAnswered(c) \/ ArchiveVerified(c)
  <2>1. misfiled' = misfiled \/ misfiled' = misfiled \ {thread[c]}
    BY <1>3 DEF CatalogAnswered, ArchiveVerified, File
  <2> QED BY <1>1, <2>1, StepMoved, StepUneventful, MovedControl
<1> QED BY <1>1, <1>2, <1>3, StepFiles, StepMoved, StepUneventful, MovedControl

\* What a list writes: an entry, an index, or nothing but the loss of a thread
\* that the source does not have.
LEMMA ListsEffect ==
  ASSUME Control, Lists
  PROVE  /\ UNCHANGED <<sourceVars, callVars, crashes, exits>>
         /\ \/ \E t \in known :
                 /\ sourceCwd[t] # Null /\ \A i \in 1..Len(events) : events[i].type = "answer" => events[i].thread # t
                 /\ listed' = listed \cup {[thread |-> t, workspace |-> sourceCwd[t], archived |-> sourceArchived[t]]}
                 /\ UNCHANGED <<storeVars, misfiled>>
            \/ \E entry \in listed :
                 /\ entry \in Listing
                 /\ WriteIndex(entry.thread, entry.workspace, entry.archived)
                 /\ Misfile(entry.thread, entry.archived)
                 /\ UNCHANGED listed
            \/ \E t \in Threads :
                 /\ t \notin known /\ association[t] # Null /\ ForgetThread(t)
                 /\ UNCHANGED <<listed, misfiled>>
BY DEF Lists, ListThread, IndexListed, RemoveMissing, Control, TypeOK

LEMMA ListsControl ==
  ASSUME Control, Lists
  PROVE  Control'
<1>1. UNCHANGED <<sourceVars, callVars, crashes, exits>> /\ TypeOK /\ SourceTypeOK' /\ SourceTypeOK
  BY ListsEffect, SameSource DEF Control, TypeOK
<1>2. StoreTypeOK' /\ Dispatched' /\ listed' \subseteq Listing /\ misfiled' \subseteq Threads \cup {Null}
  <2>1. CASE \E t \in known :
               /\ sourceCwd[t] # Null /\ \A i \in 1..Len(events) : events[i].type = "answer" => events[i].thread # t
               /\ listed' = listed \cup {[thread |-> t, workspace |-> sourceCwd[t], archived |-> sourceArchived[t]]}
               /\ UNCHANGED <<storeVars, misfiled>>
    <3>1. PICK t \in known :
               /\ sourceCwd[t] # Null /\ \A i \in 1..Len(events) : events[i].type = "answer" => events[i].thread # t
               /\ listed' = listed \cup {[thread |-> t, workspace |-> sourceCwd[t], archived |-> sourceArchived[t]]}
               /\ UNCHANGED <<storeVars, misfiled>>
      BY <2>1
    <3>2. t \in Threads /\ sourceCwd[t] \in Workspaces /\ sourceArchived[t] \in BOOLEAN
      BY <1>1, <3>1 DEF SourceTypeOK
    <3>3. [thread |-> t, workspace |-> sourceCwd[t], archived |-> sourceArchived[t]] \in Listing
      BY <3>2 DEF Listing
    <3> QED BY <1>1, <3>1, <3>3, SameStore DEF Control, TypeOK
  <2>2. CASE \E entry \in listed :
               /\ entry \in Listing
               /\ WriteIndex(entry.thread, entry.workspace, entry.archived)
               /\ Misfile(entry.thread, entry.archived)
               /\ UNCHANGED listed
    <3>1. PICK entry \in Listing :
               /\ WriteIndex(entry.thread, entry.workspace, entry.archived)
               /\ Misfile(entry.thread, entry.archived)
               /\ UNCHANGED listed
      BY <2>2
    <3>2. entry.thread \in Threads /\ entry.workspace \in Workspaces /\ entry.archived \in BOOLEAN
      BY DEF Listing
    <3>3. StoreTypeOK' /\ Dispatched'
      BY <1>1, <3>1, <3>2, IndexOK DEF Control, TypeOK
    <3>4. misfiled' \subseteq misfiled \cup {entry.thread}
      BY <3>1 DEF Misfile
    <3> QED BY <1>1, <3>1, <3>2, <3>3, <3>4 DEF TypeOK
  <2>3. CASE \E t \in Threads :
               /\ t \notin known /\ association[t] # Null /\ ForgetThread(t)
               /\ UNCHANGED <<listed, misfiled>>
    BY <1>1, <2>3, ForgetOK DEF Control, TypeOK
  <2>4. \/ \E t \in known :
             /\ sourceCwd[t] # Null /\ \A i \in 1..Len(events) : events[i].type = "answer" => events[i].thread # t
             /\ listed' = listed \cup {[thread |-> t, workspace |-> sourceCwd[t], archived |-> sourceArchived[t]]}
             /\ UNCHANGED <<storeVars, misfiled>>
        \/ \E entry \in listed :
             /\ entry \in Listing
             /\ WriteIndex(entry.thread, entry.workspace, entry.archived)
             /\ Misfile(entry.thread, entry.archived)
             /\ UNCHANGED listed
        \/ \E t \in Threads :
             /\ t \notin known /\ association[t] # Null /\ ForgetThread(t)
             /\ UNCHANGED <<listed, misfiled>>
    BY ONLY Control, Lists, ListsEffect
  <2> QED BY ONLY <2>1, <2>2, <2>3, <2>4, Zenon
<1>3. TypeOK'
  BY <1>1, <1>2 DEF TypeOK, callVars
<1> QED BY <1>1, <1>2, <1>3, AnswersControl DEF callVars

LEMMA ControlInit == Init => Control
<1> SUFFICES ASSUME Init PROVE Control  OBVIOUS
<1>1. StoreTypeOK  BY DEF Init, StoreInit, StoreTypeOK
<1>2. SourceTypeOK
  BY <1>1 DEF Init, SourceInit, SourceTypeOK, StoreTypeOK
<1>3. TypeOK
  BY <1>1, <1>2, NoWorkType DEF Init, TypeOK, Labels
<1>4. \A c \in Calls : CallOK(c)
  BY DEF Init, CallOK, InPlace, Equipped, Active
<1> QED BY <1>3, <1>4 DEF Control, OneGate, Dispatched, Init, StoreInit

LEMMA ControlStep ==
  ASSUME Control, [Next]_vars
  PROVE  Control'
<1>1. CASE UNCHANGED vars
  <2>1. UNCHANGED <<storeVars, sourceVars, callVars, listed, misfiled, crashes, exits>>  BY <1>1 DEF vars
  <2>2. StoreTypeOK' /\ Dispatched' /\ SourceTypeOK'
    BY <2>1, SameStore, SameSource DEF Control, TypeOK
  <2>3. TypeOK'
    BY <2>1, <2>2 DEF TypeOK, callVars, Control
  <2> QED BY <2>1, <2>2, <2>3, AnswersControl DEF callVars
<1> QED BY <1>1, StepControl, ListsControl, DeliverControl, TimeoutControl, SourceControl, SourceExitControl,
           CrashControl DEF Next

\* A call has what its label says: the kinds that come by, its thread, its gate,
\* the row it holds; two calls never hold one gate.
THEOREM ControlHolds == Spec => []Control
BY ControlInit, ControlStep, PTL DEF Spec

\* Every register, row, request and answer keeps its type.
THEOREM ExecutionTyping == Spec => []TypeOK
BY ControlHolds, PTL DEF Control

----------------------------------------------------------------------------
(* The pipes.  A call has one request or one answer under way, and only    *)
(* while it waits for it or after it gave up.                              *)

Elements(s) == {s[i] : i \in 1..Len(s)}

Sent == Elements(requests)
Heard == Elements(events)
Answers == {e \in Heard : e.type = "answer"}

\* Requests of distinct calls; answers to distinct calls.
OneRequestEach(s) == \A i, j \in 1..Len(s) : s[i].call = s[j].call => i = j
OneAnswerEach(s) ==
  \A i, j \in 1..Len(s) : s[i].type = "answer" /\ s[j].type = "answer" /\ s[i].call = s[j].call => i = j

OneEach ==
  /\ OneRequestEach(requests)
  /\ OneAnswerEach(events)
  /\ \A r \in Sent, e \in Answers : r.call # e.call

Open(c) == pc[c] = "done" \/ (pc[c] \in Waiting /\ (reply[c] = Null \/ reply[c].result = "error"))

OpenCalls ==
  /\ \A r \in Sent : Open(r.call)
  /\ \A e \in Answers : Open(e.call)

\* The request a call waits for.
MethodOf(label, k) ==
  IF label \in {"recoverRead", "checkRead", "idleRead", "selectIdle", "selectRead"} THEN "read"
  ELSE IF label = "await" THEN (IF k = "implicit" THEN "turn" ELSE k)
  ELSE label

\* A request says what its call still knows of it.
Matches(r) ==
  LET c == r.call IN
  /\ r.thread = thread[c]
  /\ r.method # "newThread" => r.thread # Null
  /\ r.method \in {"turn", "resume", "newThread"} \cup MaintenanceKinds \cup CatalogKinds => r.cwd = workspace[c]
  /\ r.method \in {"turn", "resume", "newThread", "switch"} => r.cwd # Null
  /\ pc[c] \in Waiting => r.method = MethodOf(pc[c], kind[c])
  /\ r.method = "turn" => kind[c] \in {"turn", "implicit"}
  /\ r.method \in MaintenanceKinds \cup CatalogKinds => kind[c] = r.method
  /\ r.method = "resume" => kind[c] \in MaintenanceKinds
  /\ r.method = "newThread" => kind[c] \in Gateless
  /\ r.method \in {"switch", "evidence"} => kind[c] \in {"select"} \cup Reconciles

\* A new thread is named by its answer, and known to its call from then on.
Fits(c, e) == pc[c] = "newThread" /\ e.result = "ok" => e.thread # Null

Named ==
  /\ \A c \in Calls : pc[c] \in {"bind", "confirm", "submit", "await", "after"} => thread[c] # Null
  /\ \A c \in Calls : reply[c] # Null => Fits(c, reply[c])
  /\ \A e \in Answers : Fits(e.call, e)

Pipe == OneEach /\ OpenCalls /\ (\A r \in Sent : Matches(r)) /\ Named

LEMMA ElementsAppend ==
  ASSUME NEW S, NEW s \in Seq(S), NEW e \in S
  PROVE  Elements(Append(s, e)) = Elements(s) \cup {e}
<1> DEFINE u == Append(s, e)
<1>1. u \in Seq(S) /\ Len(u) = Len(s) + 1 /\ u[Len(s) + 1] = e /\ \A i \in 1..Len(s) : u[i] = s[i]
  OBVIOUS
<1>2. 1..Len(u) = (1..Len(s)) \cup {Len(s) + 1}
  BY <1>1
<1> QED BY <1>1, <1>2 DEF Elements

LEMMA ElementsTail ==
  ASSUME NEW S, NEW s \in Seq(S), s # <<>>
  PROVE  Elements(s) = Elements(Tail(s)) \cup {Head(s)}
<1> DEFINE u == Tail(s)
<1>1. u \in Seq(S) /\ Len(u) = Len(s) - 1 /\ \A i \in 1..Len(u) : u[i] = s[i + 1]
  OBVIOUS
<1>2. Head(s) = s[1] /\ Len(s) \in Nat /\ Len(s) >= 1
  OBVIOUS
<1>3. \A i \in 1..Len(s) : i = 1 \/ (i - 1 \in 1..Len(u) /\ u[i - 1] = s[i])
  BY <1>1, <1>2
<1>4. \A i \in 1..Len(u) : i + 1 \in 1..Len(s)
  BY <1>1, <1>2
<1> QED BY <1>1, <1>2, <1>3, <1>4 DEF Elements

LEMMA ElementsEmpty == Elements(<<>>) = {}
BY DEF Elements

LEMMA OneRequestAppend ==
  ASSUME NEW S, NEW s \in Seq(S), NEW e \in S, OneRequestEach(s), \A f \in Elements(s) : f.call # e.call
  PROVE  OneRequestEach(Append(s, e))
<1> DEFINE u == Append(s, e)
<1>1. u \in Seq(S) /\ Len(u) = Len(s) + 1 /\ u[Len(s) + 1] = e /\ \A i \in 1..Len(s) : u[i] = s[i]
  OBVIOUS
<1>2. \A i \in 1..Len(u) : i = Len(s) + 1 \/ i \in 1..Len(s)
  BY <1>1
<1>3. \A i \in 1..Len(s) : s[i].call # e.call
  BY DEF Elements
<1> QED BY <1>1, <1>2, <1>3 DEF OneRequestEach

LEMMA OneAnswerAppend ==
  ASSUME NEW S, NEW s \in Seq(S), NEW e \in S, OneAnswerEach(s),
         e.type = "answer" => \A f \in Elements(s) : f.type = "answer" => f.call # e.call
  PROVE  OneAnswerEach(Append(s, e))
<1> DEFINE u == Append(s, e)
<1>1. u \in Seq(S) /\ Len(u) = Len(s) + 1 /\ u[Len(s) + 1] = e /\ \A i \in 1..Len(s) : u[i] = s[i]
  OBVIOUS
<1>2. \A i \in 1..Len(u) : i = Len(s) + 1 \/ i \in 1..Len(s)
  BY <1>1
<1>3. e.type = "answer" => \A i \in 1..Len(s) : s[i].type = "answer" => s[i].call # e.call
  BY DEF Elements
<1> QED BY <1>1, <1>2, <1>3 DEF OneAnswerEach

LEMMA OneRequestTail ==
  ASSUME NEW S, NEW s \in Seq(S), s # <<>>, OneRequestEach(s)
  PROVE  OneRequestEach(Tail(s)) /\ \A f \in Elements(Tail(s)) : f.call # Head(s).call
<1> DEFINE u == Tail(s)
<1>1. u \in Seq(S) /\ Len(u) = Len(s) - 1 /\ \A i \in 1..Len(u) : u[i] = s[i + 1]
  OBVIOUS
<1>2. Head(s) = s[1] /\ Len(s) \in Nat /\ Len(s) >= 1
  OBVIOUS
<1>3. \A i \in 1..Len(u) : i + 1 \in 1..Len(s) /\ i + 1 # 1 /\ u[i] = s[i + 1]
  BY <1>1, <1>2
<1>4. \A i \in 1..Len(u) : u[i].call # Head(s).call
  BY <1>2, <1>3 DEF OneRequestEach
<1>5. \A i, j \in 1..Len(u) : u[i].call = u[j].call => i = j
  <2> SUFFICES ASSUME NEW i \in 1..Len(u), NEW j \in 1..Len(u), u[i].call = u[j].call
               PROVE  i = j
    OBVIOUS
  <2>1. s[i + 1].call = s[j + 1].call /\ i + 1 \in 1..Len(s) /\ j + 1 \in 1..Len(s)
    BY <1>3
  <2>2. i + 1 = j + 1
    BY <2>1 DEF OneRequestEach
  <2> QED BY <2>2
<1> QED BY <1>4, <1>5 DEF Elements, OneRequestEach

LEMMA OneAnswerTail ==
  ASSUME NEW S, NEW s \in Seq(S), s # <<>>, OneAnswerEach(s)
  PROVE  /\ OneAnswerEach(Tail(s))
         /\ Head(s).type = "answer" => \A f \in Elements(Tail(s)) : f.type = "answer" => f.call # Head(s).call
<1> DEFINE u == Tail(s)
<1>1. u \in Seq(S) /\ Len(u) = Len(s) - 1 /\ \A i \in 1..Len(u) : u[i] = s[i + 1]
  OBVIOUS
<1>2. Head(s) = s[1] /\ Len(s) \in Nat /\ Len(s) >= 1
  OBVIOUS
<1>3. \A i \in 1..Len(u) : i + 1 \in 1..Len(s) /\ i + 1 # 1 /\ u[i] = s[i + 1]
  BY <1>1, <1>2
<1>4. Head(s).type = "answer" => \A i \in 1..Len(u) : u[i].type = "answer" => u[i].call # Head(s).call
  BY <1>2, <1>3 DEF OneAnswerEach
<1>5. \A i, j \in 1..Len(u) : u[i].type = "answer" /\ u[j].type = "answer" /\ u[i].call = u[j].call => i = j
  <2> SUFFICES ASSUME NEW i \in 1..Len(u), NEW j \in 1..Len(u),
                      u[i].type = "answer", u[j].type = "answer", u[i].call = u[j].call
               PROVE  i = j
    OBVIOUS
  <2>1. /\ s[i + 1].call = s[j + 1].call /\ i + 1 \in 1..Len(s) /\ j + 1 \in 1..Len(s)
        /\ s[i + 1].type = "answer" /\ s[j + 1].type = "answer"
    BY <1>3
  <2>2. i + 1 = j + 1
    BY <2>1 DEF OneAnswerEach
  <2> QED BY <2>2
<1> QED BY <1>4, <1>5 DEF Elements, OneAnswerEach

LEMMA SentTyped ==
  ASSUME SourceTypeOK
  PROVE  Sent \subseteq Request /\ Heard \subseteq Event /\ Answers \subseteq Answer
<1>1. Sent \subseteq Request /\ Heard \subseteq Event  BY DEF Sent, Heard, Elements, SourceTypeOK
<1> QED BY <1>1, EventKinds DEF Answers

\* What a step of a call does to the pipes: it ends the call, or the call has
\* nothing under way and sends at most one request.
Sends(c) ==
  /\ \E r \in Request : requests' = Append(requests, r) /\ r.call = c /\ Matches(r)'
  /\ pc'[c] \in Waiting /\ reply'[c] = Null
  /\ UNCHANGED <<known, running, started, sourceArchived, sourceCwd, reported, events>>

Quits(c) ==
  /\ UNCHANGED sourceVars
  /\ pc'[c] = "done" /\ kind'[c] = kind[c] /\ thread'[c] = thread[c] /\ workspace'[c] = workspace[c]

Shape(c) == Quits(c) \/ (~Open(c) /\ (UNCHANGED sourceVars \/ Sends(c)))

LEMMA FinishShape ==
  ASSUME TypeOK, NEW c \in Calls, Finish(c), UNCHANGED sourceVars
  PROVE  Shape(c)
BY DEF Shape, Quits, Finish, Goto, TypeOK

LEMMA ReturnShape ==
  ASSUME TypeOK, NEW c \in Calls, Return(c), UNCHANGED sourceVars, ~Open(c)
  PROVE  Shape(c)
BY DEF Shape

\* A call between two requests.
LEMMA NotOpen ==
  ASSUME NEW c \in Calls, pc[c] # "done",
         pc[c] \notin Waiting \/ (reply[c] # Null /\ reply[c].result # "error")
  PROVE  ~Open(c)
BY DEF Open

LEMMA SendShape ==
  ASSUME TypeOK, NEW c \in Calls, NEW method \in Methods, NEW cwd \in Workspaces \cup {Null},
         NEW k \in Contracts \cup {Null}, NEW b \in BOOLEAN, Send(c, method, cwd, k, b),
         ~Open(c), pc'[c] \in Waiting, UNCHANGED <<kind, thread, workspace>>,
         method # "newThread" => thread[c] # Null,
         method \in {"turn", "resume", "newThread"} \cup MaintenanceKinds \cup CatalogKinds => cwd = workspace[c],
         method \in {"turn", "resume", "newThread", "switch"} => cwd # Null,
         method = MethodOf(pc'[c], kind[c]),
         method = "turn" => kind[c] \in {"turn", "implicit"},
         method \in MaintenanceKinds \cup CatalogKinds => kind[c] = method,
         method = "resume" => kind[c] \in MaintenanceKinds,
         method = "newThread" => kind[c] \in Gateless,
         method \in {"switch", "evidence"} => kind[c] \in {"select"} \cup Reconciles
  PROVE  Shape(c)
<1>1. [call |-> c, method |-> method, thread |-> thread[c], cwd |-> cwd, contract |-> k, archived |-> b] \in Request
  BY DEF TypeOK, Request
<1>2. PICK r \in Request :
        /\ requests' = Append(requests, r)
        /\ r.call = c /\ r.method = method /\ r.thread = thread[c] /\ r.cwd = cwd
  BY <1>1 DEF Send
<1>3. reply'[c] = Null /\ UNCHANGED <<known, running, started, sourceArchived, sourceCwd, reported, events>>
  BY DEF Send, TypeOK
<1>4. Matches(r)'  BY <1>2 DEF Matches
<1> QED BY <1>1, <1>2, <1>3, <1>4 DEF Shape, Sends

LEMMA AskShape ==
  ASSUME Control, NEW c \in Calls, NEW method \in Methods, NEW label \in Waiting, Ask(c, method, label),
         ~Open(c), UNCHANGED <<kind, thread, workspace>>,
         method \notin {"switch", "evidence"},
         pc[c] # "idle", kind[c] # "reconcile",
         method # "newThread" => thread[c] # Null,
         method = MethodOf(label, kind[c]),
         method = "turn" => kind[c] \in {"turn", "implicit"},
         method \in MaintenanceKinds \cup CatalogKinds => kind[c] = method,
         method = "resume" => kind[c] \in MaintenanceKinds,
         method = "newThread" => kind[c] \in Gateless
  PROVE  Shape(c)
<1>1. TypeOK /\ CallOK(c) BY DEF Control
<1>2. /\ workspace[c] \in Workspaces \cup {Null} /\ workspace[c] # Null /\ contract[c] \in Contracts \cup {Null}
      /\ (kind[c] = "archive") \in BOOLEAN
      /\ pc'[c] = label
      /\ Send(c, method, workspace[c], contract[c], kind[c] = "archive")
  BY <1>1 DEF TypeOK, CallOK, Equipped, Ask, Goto
<1> QED BY ONLY <1>1, <1>2, SendShape, ~Open(c), UNCHANGED <<kind, thread, workspace>>, method \in Methods,
         c \in Calls, label \in Waiting,
         method \notin {"switch", "evidence"},
         method # "newThread" => thread[c] # Null,
         method = MethodOf(label, kind[c]),
         method = "turn" => kind[c] \in {"turn", "implicit"},
         method \in MaintenanceKinds \cup CatalogKinds => kind[c] = method,
         method = "resume" => kind[c] \in MaintenanceKinds,
         method = "newThread" => kind[c] \in Gateless

LEMMA RunShape ==
  ASSUME Control, Named, NEW c \in Calls, Run(c)
  PROVE  Shape(c)
<1>1. TypeOK /\ CallOK(c) /\ \A l \in {"reserve", "prepare", "bind", "confirm", "submit", "after", "idle"} : l \notin Waiting
  BY DEF Control, Waiting
<1>2. ASSUME NEW k, NEW t, NEW w, StartRun(c, k, t, w)  PROVE Shape(c)
  BY <1>1, <1>2, NotOpen DEF StartRun, Shape
<1>3. CASE ReserveRun(c)
  <2>1. pc[c] = "reserve" /\ kind[c] \in RunKinds /\ ~Open(c)  BY <1>1, <1>3, NotOpen DEF ReserveRun
  <2>2. CASE thread[c] = Null
    BY <1>3, <2>1, <2>2 DEF ReserveRun, Reserved, Shape
  <2>3. CASE thread[c] # Null
    <3>1. Ask(c, "read", "checkRead") /\ UNCHANGED Registers  BY <1>3, <2>3 DEF ReserveRun, Reserved
    <3> QED BY <2>1, <2>3, <3>1, AskShape DEF Registers, MethodOf, Methods, Waiting, RunKinds, MaintenanceKinds, CatalogKinds
  <2> QED BY <2>2, <2>3
<1>4. CASE ReserveRefused(c)
  <2>1. pc[c] = "reserve" /\ kind[c] \in RunKinds /\ ~Open(c)  BY <1>1, <1>4, NotOpen DEF ReserveRefused
  <2>2. CASE Finish(c) /\ UNCHANGED sourceVars  BY <1>1, <2>2, FinishShape
  <2>3. CASE thread[c] # Null /\ Ask(c, "read", "recoverRead") /\ UNCHANGED <<kind, thread, workspace, gate, contract, work>>
    BY <2>1, <2>3, AskShape DEF MethodOf, Methods, Waiting, RunKinds, MaintenanceKinds, CatalogKinds
  <2> QED BY <1>4, <2>2, <2>3 DEF ReserveRefused
<1>5. CASE RecoverRollback(c)
  BY <1>1, <1>5, NotOpen, FinishShape DEF RecoverRollback, Shape
<1>6. CASE CheckIdle(c)
  BY <1>1, <1>6, NotOpen DEF CheckIdle, Answered, Shape, sourceVars
<1>7. CASE FailRun(c)
  BY <1>1, <1>7, FinishShape DEF FailRun
<1>8. CASE CreateThread(c)
  <2>1. pc[c] = "prepare" /\ kind[c] \in Gateless /\ ~Open(c)
    BY <1>1, <1>8, NotOpen DEF CreateThread, CallOK, InPlace
  <2>2. Ask(c, "newThread", "newThread") /\ UNCHANGED <<kind, thread, workspace>>
    BY <1>8 DEF CreateThread, Registers
  <2> QED BY <2>1, <2>2, AskShape DEF MethodOf, Methods, Waiting, Gateless, MaintenanceKinds, CatalogKinds
<1>9. CASE IndexThread(c)
  BY <1>1, <1>9, NotOpen DEF IndexThread, Answered, Shape
<1>10. CASE ConfirmThread(c)
  BY <1>1, <1>10, FinishShape DEF ConfirmThread
<1>11. CASE Bind(c)
  BY <1>1, <1>11, NotOpen DEF Bind, Shape
<1>12. CASE Submit(c)
  <2>1. pc[c] = "submit" /\ kind[c] \in RunKinds /\ ~Open(c) /\ UNCHANGED <<kind, thread, workspace>>
        /\ pc[c] # "idle" /\ kind[c] # "reconcile"
    BY <1>1, <1>12, NotOpen DEF Submit, Registers, RunKinds, MaintenanceKinds
  <2>2. kind[c] \in {"turn", "implicit"} \cup MaintenanceKinds
    BY <1>1, <2>1 DEF CallOK, InPlace, RunKinds, CatalogKinds, MaintenanceKinds
  <2>3. thread[c] # Null
    BY <2>1 DEF Named
  <2>4. CASE kind[c] \in MaintenanceKinds
    <3>1. Ask(c, "resume", "resume")  BY <1>12, <2>4 DEF Submit
    <3> QED BY <2>1, <2>3, <2>4, <3>1, AskShape DEF MethodOf, Methods, Waiting, CatalogKinds, MaintenanceKinds
  <2>5. CASE kind[c] \notin MaintenanceKinds
    <3>1. Ask(c, "turn", "await")  BY <1>12, <2>5 DEF Submit
    <3> QED BY <2>1, <2>2, <2>3, <2>5, <3>1, AskShape DEF MethodOf, Methods, StartMethods, Waiting, CatalogKinds, MaintenanceKinds
  <2> QED BY <2>4, <2>5
<1>13. CASE Maintain(c)
  <2>1. pc[c] = "resume" /\ ~Open(c) /\ UNCHANGED <<kind, thread, workspace>> /\ Ask(c, kind[c], "await")
    BY <1>13, NotOpen DEF Maintain, Answered, Registers
  <2>2. kind[c] \in MaintenanceKinds /\ thread[c] # Null
    BY <1>1, <2>1, HasThread DEF CallOK, InPlace
  <2> QED BY <2>1, <2>2, AskShape DEF MethodOf, Methods, StartMethods, Waiting, CatalogKinds, MaintenanceKinds
<1>14. CASE AcknowledgeTurn(c)
  BY <1>1, <1>14, NotOpen DEF AcknowledgeTurn, Answered, Shape
<1>15. CASE FinishTurn(c) \/ AcknowledgeMaintained(c)
  BY <1>1, <1>15, FinishShape DEF FinishTurn, AcknowledgeMaintained
<1> QED BY <1>2, <1>3, <1>4, <1>5, <1>6, <1>7, <1>8, <1>9, <1>10, <1>11, <1>12, <1>13, <1>14, <1>15 DEF Run

LEMMA CatalogShape ==
  ASSUME Control, Named, NEW c \in Calls, Catalog(c)
  PROVE  Shape(c)
<1>1. TypeOK /\ CallOK(c) /\ \A l \in {"reserve", "submit", "forget", "release", "idle"} : l \notin Waiting
  BY DEF Control, Waiting
<1>2. ASSUME NEW k, NEW t, StartCatalog(c, k, t)  PROVE Shape(c)
  BY <1>1, <1>2, NotOpen DEF StartCatalog, Shape
<1>3. CASE ReserveCatalog(c)
  BY <1>1, <1>3, NotOpen DEF ReserveCatalog, Shape
<1>4. CASE SubmitCatalog(c)
  <2>1. pc[c] = "submit" /\ kind[c] \in CatalogKinds /\ ~Open(c) /\ UNCHANGED <<kind, thread, workspace>>
        /\ Ask(c, kind[c], "await") /\ thread[c] # Null
    BY <1>1, <1>4, NotOpen DEF SubmitCatalog, Registers, Named
  <2> QED BY <2>1, AskShape DEF MethodOf, Methods, StartMethods, Waiting, CatalogKinds, MaintenanceKinds
<1>5. CASE CatalogAnswered(c)
  BY <1>1, <1>5, NotOpen DEF CatalogAnswered, Answered, Shape
<1>6. CASE FailCatalog(c)
  BY <1>1, <1>6, FinishShape DEF FailCatalog
<1>7. CASE Forget(c)
  BY <1>1, <1>7, NotOpen DEF Forget, Shape
<1>8. CASE ReleaseCatalog(c)
  BY <1>1, <1>8, NotOpen DEF ReleaseCatalog, Shape
<1> QED BY <1>2, <1>3, <1>4, <1>5, <1>6, <1>7, <1>8 DEF Catalog

LEMMA SelectShape ==
  ASSUME Control, Named, NEW c \in Calls, Select(c)
  PROVE  Shape(c)
<1>1. TypeOK /\ CallOK(c) /\ \A l \in {"selectBegin", "selectPrepare", "idle"} : l \notin Waiting
  BY DEF Control, Waiting
<1>2. ASSUME NEW t \in Threads, NEW w \in Workspaces, StartSelect(c, t, w)  PROVE Shape(c)
  <2>1. ~Open(c) BY <1>1, <1>2, NotOpen DEF StartSelect
  <2>2. [call |-> c, method |-> "read", thread |-> t, cwd |-> Null, contract |-> Null, archived |-> FALSE] \in Request
    BY DEF Request, Methods
  <2>3. PICK r \in Request :
          /\ requests' = Append(requests, r)
          /\ r.call = c /\ r.method = "read" /\ r.thread = t
    BY <1>2, <2>2 DEF StartSelect
  <2>4. /\ pc'[c] = "selectIdle" /\ kind'[c] = "select" /\ thread'[c] = t /\ reply'[c] = Null
        /\ UNCHANGED <<known, running, started, sourceArchived, sourceCwd, reported, events>>
    BY <1>1, <1>2 DEF StartSelect, TypeOK, CallOK, Equipped, Active
  <2>5. Matches(r)'  BY <2>3, <2>4 DEF Matches, MethodOf, MaintenanceKinds, CatalogKinds
  <2> QED BY <2>1, <2>3, <2>4, <2>5 DEF Shape, Sends, Waiting
<1>3. CASE SelectIdle(c)
  BY <1>1, <1>3, NotOpen, FinishShape DEF SelectIdle, Shape, sourceVars
<1>4. CASE SelectBegin(c)
  BY <1>1, <1>4, NotOpen DEF SelectBegin, Shape
<1>5. CASE SelectPrepare(c)
  <2>1. pc[c] = "selectPrepare" /\ kind[c] = "select" /\ ~Open(c) /\ UNCHANGED <<kind, thread, workspace>>
        /\ Send(c, "read", Null, Null, FALSE) /\ thread[c] # Null /\ pc'[c] = "selectRead"
    BY <1>1, <1>5, NotOpen, HasThread DEF SelectPrepare, CallOK, InPlace, Goto, TypeOK
  <2> QED BY <1>1, <2>1, SendShape DEF MethodOf, Methods, StartMethods, Waiting, CatalogKinds, MaintenanceKinds
<1>6. CASE SubmitSwitch(c)
  <2>1. /\ pc[c] = "selectRead" /\ kind[c] \in {"select"} \cup Reconciles /\ ~Open(c)
        /\ UNCHANGED <<kind, thread, workspace>> /\ thread[c] \in Threads /\ pc'[c] = "switch"
        /\ Send(c, "switch", transitions[thread[c]].to, contract[c], FALSE)
    BY <1>1, <1>6, NotOpen, HasThread DEF SubmitSwitch, Answered, CallOK, InPlace, Goto, TypeOK, Registers
  <2>2. transitions[thread[c]].to \in Workspaces /\ contract[c] \in Contracts
    BY <1>1, <1>6, <2>1 DEF SubmitSwitch, SubmittingTransition, CanSubmitTransition, TypeOK, StoreTypeOK, Transition,
                            CallOK, Equipped
  <2> QED BY <1>1, <2>1, <2>2, SendShape DEF MethodOf, Methods, StartMethods, Waiting, CatalogKinds, MaintenanceKinds
<1>7. CASE CommitSwitch(c)
  BY <1>1, <1>7, NotOpen DEF CommitSwitch, Answered, Shape
<1>8. CASE FailSwitch(c)
  BY <1>1, <1>8, FinishShape DEF FailSwitch
<1> QED BY <1>2, <1>3, <1>4, <1>5, <1>6, <1>7, <1>8 DEF Select

LEMMA RecoverShape ==
  ASSUME Control, NEW c \in Calls, Recover(c)
  PROVE  Shape(c)
<1>1. TypeOK /\ CallOK(c) /\ \A l \in {"reconcile", "items", "idle"} : l \notin Waiting
  BY DEF Control, Waiting
<1>2. ASSUME NEW t, StartReconcile(c, t) \/ StartReconcileWorkspace(c, t)  PROVE Shape(c)
  BY <1>1, <1>2, NotOpen DEF StartReconcile, StartReconcileWorkspace, Shape
<1>3. ASSUME pc[c] = "reconcile", Send(c, "read", Null, Null, FALSE), UNCHANGED <<kind, thread, workspace>>,
             pc'[c] \in {"selectRead", "idleRead"}
      PROVE  Shape(c)
  <2>1. ~Open(c) /\ thread[c] # Null
    BY <1>1, <1>3, NotOpen, HasThread
  <2> QED BY <1>1, <1>3, <2>1, SendShape DEF MethodOf, Methods, StartMethods, Waiting, CatalogKinds, MaintenanceKinds
<1>4. CASE ReconcileTransition(c)
  BY <1>1, <1>3, <1>4, NotOpen DEF ReconcileTransition, Shape, Goto, TypeOK
<1>5. CASE ReconcileCatalog(c)
  <2>1. pc[c] = "reconcile" /\ ~Open(c)  BY <1>1, <1>5, NotOpen DEF ReconcileCatalog
  <2>2. CASE UNCHANGED sourceVars  BY <2>1, <2>2 DEF Shape
  <2>3. ASSUME NEW id \in ReservedBy(thread[c]),
               Send(c, "evidence", Row(id).workspace, Null, Row(id).operation = "archive"),
               Goto(c, "evidence"), UNCHANGED <<kind, thread, workspace>>
        PROVE  Shape(c)
    <3>1. Row(id).workspace \in Workspaces
      BY <1>1, LiveRow DEF ReservedBy, TypeOK, Reservation
    <3>2. thread[c] # Null /\ kind[c] \in Reconciles /\ pc'[c] = "evidence"
      BY <1>1, <2>1, <2>3, HasThread DEF CallOK, InPlace, Goto, TypeOK
    <3> QED BY <1>1, <2>1, <2>3, <3>1, <3>2, SendShape
            DEF MethodOf, Methods, StartMethods, Waiting, CatalogKinds, MaintenanceKinds, Reconciles
  <2> QED BY <1>5, <2>2, <2>3 DEF ReconcileCatalog, sourceVars
<1>6. CASE ArchiveVerified(c)
  BY <1>1, <1>6, NotOpen, FinishShape DEF ArchiveVerified, Shape
<1>7. CASE ReconcileExecution(c)
  BY <1>1, <1>3, <1>7, FinishShape DEF ReconcileExecution, Goto, TypeOK
<1>8. CASE ReleaseIdle(c)
  BY <1>1, <1>8, NotOpen, FinishShape DEF ReleaseIdle, Shape
<1>9. CASE TreatItems(c)
  BY <1>1, <1>9, NotOpen DEF TreatItems, Shape
<1> QED BY <1>2, <1>4, <1>5, <1>6, <1>7, <1>8, <1>9 DEF Recover

LEMMA StepShape ==
  ASSUME Control, Named, NEW c \in Calls, Step(c)
  PROVE  Shape(c)
BY RunShape, CatalogShape, SelectShape, RecoverShape DEF Step

\* Where a call of run knows its thread.
NamedLabels == {"bind", "confirm", "submit", "await", "after"}

Naming(c) ==
  /\ pc'[c] \in NamedLabels => thread'[c] # Null
  /\ pc'[c] = "newThread" => reply'[c] = Null

LEMMA FinishNaming ==
  ASSUME TypeOK, NEW c \in Calls, Finish(c)
  PROVE  Naming(c)
BY DEF Naming, NamedLabels, Finish, Goto, TypeOK

LEMMA ReturnNaming ==
  ASSUME TypeOK, NEW c \in Calls, Return(c)
  PROVE  Naming(c)
<1>1. CASE kind[c] = "reconcileWorkspace"  BY <1>1, ReturnEffect DEF Naming, NamedLabels
<1>2. CASE kind[c] # "reconcileWorkspace"  BY <1>2, FinishNaming DEF Return
<1> QED BY <1>1, <1>2

LEMMA RunNaming ==
  ASSUME Control, Named, NEW c \in Calls, Run(c)
  PROVE  Naming(c)
<1>1. TypeOK /\ CallOK(c)  BY DEF Control
<1>2. ASSUME NEW k, NEW t, NEW w, StartRun(c, k, t, w)  PROVE Naming(c)
  BY <1>1, <1>2 DEF StartRun, Naming, NamedLabels, TypeOK
<1>3. CASE ReserveRun(c)
  BY <1>1, <1>3 DEF ReserveRun, Reserved, Continue, Ask, Goto, Naming, NamedLabels, TypeOK
<1>4. CASE ReserveRefused(c)
  BY <1>1, <1>4, FinishNaming DEF ReserveRefused, Ask, Goto, Naming, NamedLabels, TypeOK
<1>5. CASE RecoverRollback(c)
  BY <1>1, <1>5, FinishNaming DEF RecoverRollback, Continue, Goto, Naming, NamedLabels, TypeOK
<1>6. CASE CheckIdle(c)
  <2>1. thread[c] # Null BY <1>6, HasThread DEF CheckIdle, Answered
  <2> QED BY <1>1, <1>6, <2>1 DEF CheckIdle, Continue, Goto, Naming, NamedLabels, TypeOK
<1>7. CASE FailRun(c)
  BY <1>1, <1>7, FinishNaming DEF FailRun
<1>8. CASE CreateThread(c)
  BY <1>1, <1>8 DEF CreateThread, Ask, Send, Goto, Naming, NamedLabels, TypeOK
<1>9. CASE IndexThread(c)
  <2>1. reply[c].thread # Null BY <1>9 DEF IndexThread, Answered, Named, Fits
  <2> QED BY <1>1, <1>9, <2>1 DEF IndexThread, Goto, Naming, NamedLabels, TypeOK
<1>10. CASE ConfirmThread(c)
  BY <1>1, <1>10, FinishNaming DEF ConfirmThread
<1>11. CASE Bind(c)
  BY <1>1, <1>11 DEF Bind, Named, Continue, Goto, Naming, NamedLabels, TypeOK
<1>12. CASE Submit(c)
  BY <1>1, <1>12 DEF Submit, Named, Ask, Goto, Registers, Naming, NamedLabels, TypeOK
<1>13. CASE Maintain(c)
  <2>1. thread[c] # Null BY <1>13, HasThread DEF Maintain, Answered
  <2> QED BY <1>1, <1>13, <2>1 DEF Maintain, Ask, Goto, Registers, Naming, NamedLabels, TypeOK
<1>14. CASE AcknowledgeTurn(c)
  BY <1>1, <1>14 DEF AcknowledgeTurn, Answered, Named, Continue, Goto, Naming, NamedLabels, TypeOK
<1>15. CASE FinishTurn(c) \/ AcknowledgeMaintained(c)
  BY <1>1, <1>15, FinishNaming DEF FinishTurn, AcknowledgeMaintained
<1> QED BY <1>2, <1>3, <1>4, <1>5, <1>6, <1>7, <1>8, <1>9, <1>10, <1>11, <1>12, <1>13, <1>14, <1>15 DEF Run

LEMMA StepNaming ==
  ASSUME Control, Named, NEW c \in Calls, Step(c)
  PROVE  Naming(c)
<1>1. TypeOK /\ CallOK(c)  BY DEF Control
<1>2. CASE Catalog(c)
  <2>1. ASSUME NEW k, NEW t, StartCatalog(c, k, t)  PROVE Naming(c)
    BY <1>1, <2>1 DEF StartCatalog, Naming, NamedLabels, TypeOK
  <2>2. CASE ReserveCatalog(c)
    <3>1. pc[c] = "reserve" /\ kind[c] \in CatalogKinds BY <2>2 DEF ReserveCatalog
    <3>2. thread[c] # Null
      BY <1>1, <3>1 DEF CallOK, Equipped, Active, Gateless, CatalogKinds
    <3> QED BY <1>1, <2>2, <3>2, FinishNaming DEF ReserveCatalog, Continue, Goto, Naming, NamedLabels, TypeOK
  <2>3. CASE SubmitCatalog(c)
    BY <1>1, <2>3 DEF SubmitCatalog, Named, Ask, Goto, Registers, Naming, NamedLabels, TypeOK
  <2>4. CASE CatalogAnswered(c) \/ Forget(c)
    BY <1>1, <2>4 DEF CatalogAnswered, Forget, Continue, Goto, Naming, NamedLabels, TypeOK
  <2>5. CASE FailCatalog(c) \/ ReleaseCatalog(c)
    BY <1>1, <2>5, FinishNaming, ReturnNaming DEF FailCatalog, ReleaseCatalog
  <2> QED BY <1>2, <2>1, <2>2, <2>3, <2>4, <2>5 DEF Catalog
<1>3. CASE Select(c)
  <2>1. ASSUME NEW t, NEW w, StartSelect(c, t, w)  PROVE Naming(c)
    BY <1>1, <2>1 DEF StartSelect, Naming, NamedLabels, TypeOK
  <2>2. CASE SelectIdle(c) \/ SelectBegin(c)
    BY <1>1, <2>2, FinishNaming DEF SelectIdle, SelectBegin, Continue, Goto, Naming, NamedLabels, TypeOK
  <2>3. CASE SelectPrepare(c) \/ SubmitSwitch(c)
    BY <1>1, <2>3 DEF SelectPrepare, SubmitSwitch, Goto, Naming, NamedLabels, TypeOK
  <2>4. CASE CommitSwitch(c) \/ FailSwitch(c)
    BY <1>1, <2>4, FinishNaming, ReturnNaming DEF CommitSwitch, FailSwitch
  <2> QED BY <1>3, <2>1, <2>2, <2>3, <2>4 DEF Select
<1>4. CASE Recover(c)
  <2>1. ASSUME NEW t, StartReconcile(c, t) \/ StartReconcileWorkspace(c, t)  PROVE Naming(c)
    BY <1>1, <2>1 DEF StartReconcile, StartReconcileWorkspace, Naming, NamedLabels, TypeOK
  <2>2. CASE ReconcileTransition(c)
    BY <1>1, <2>2, FinishNaming, ReturnNaming DEF ReconcileTransition, Goto, Naming, NamedLabels, TypeOK
  <2>3. CASE ReconcileCatalog(c)
    BY <1>1, <2>3, FinishNaming, ReturnNaming DEF ReconcileCatalog, Goto, Naming, NamedLabels, TypeOK
  <2>4. CASE ArchiveVerified(c) \/ ReleaseIdle(c)
    BY <1>1, <2>4, FinishNaming, ReturnNaming DEF ArchiveVerified, ReleaseIdle, Continue, Goto, Naming, NamedLabels, TypeOK
  <2>5. CASE ReconcileExecution(c)
    <3>1. Finish(c) \/ (Goto(c, "idleRead") /\ Send(c, "read", Null, Null, FALSE))
      BY <2>5 DEF ReconcileExecution
    <3> QED BY <1>1, <3>1, FinishNaming DEF Goto, Send, Naming, NamedLabels, TypeOK
  <2>6. CASE TreatItems(c)
    BY <1>1, <2>6, FinishNaming DEF TreatItems, Goto, Naming, NamedLabels, TypeOK
  <2> QED BY <1>4, <2>1, <2>2, <2>3, <2>4, <2>5, <2>6 DEF Recover
<1> QED BY <1>2, <1>3, <1>4, RunNaming DEF Step

----------------------------------------------------------------------------
(* The pipes, step by step. *)

LEMMA SameElements ==
  ASSUME UNCHANGED sourceVars
  PROVE  UNCHANGED <<requests, events, Sent, Heard, Answers>>
BY DEF sourceVars, Sent, Heard, Answers, Elements

LEMMA StepPipe ==
  ASSUME Control, Pipe, NEW c \in Calls, Step(c)
  PROVE  Pipe'
<1>1. Shape(c) /\ Naming(c) /\ OthersKeep(c)  BY StepShape, StepNaming, StepMoved DEF Pipe, Moved
<1>2. Sent \subseteq Request /\ Answers \subseteq Answer /\ requests \in Seq(Request)
  BY SentTyped DEF Control, TypeOK, SourceTypeOK
<1>4. \A d \in Calls \ {c} : Open(d) => Open(d)'
  BY <1>1 DEF OthersKeep, Open
<1>5. ~Open(c) => \A r \in Sent \cup Answers : r.call # c
  BY DEF Pipe, OpenCalls
<1>6. \A r \in Sent \cup Answers : r.call \in Calls /\ (r.call = c => Quits(c))
  BY <1>1, <1>2, <1>5 DEF Shape, Request, Answer
<1>7. Quits(c) => Open(c)'
  BY DEF Quits, Open
<1>8. \A r \in Sent : Open(r.call)' /\ Matches(r)'
  <2> SUFFICES ASSUME NEW r \in Sent PROVE Open(r.call)' /\ Matches(r)'
    OBVIOUS
  <2>1. Open(r.call) /\ Matches(r) BY DEF Pipe, OpenCalls
  <2>2. CASE r.call = c
    BY <1>6, <1>7, <2>1, <2>2 DEF Quits, Matches, Waiting
  <2>3. CASE r.call # c
    BY <1>1, <1>4, <1>6, <2>1, <2>3 DEF OthersKeep, Matches
  <2> QED BY <2>2, <2>3
<1>9. \A e \in Answers : Open(e.call)' /\ Fits(e.call, e)'
  <2> SUFFICES ASSUME NEW e \in Answers PROVE Open(e.call)' /\ Fits(e.call, e)'
    OBVIOUS
  <2>1. Open(e.call) /\ Fits(e.call, e) BY DEF Pipe, OpenCalls, Named
  <2>2. CASE e.call = c
    BY <1>6, <1>7, <2>1, <2>2 DEF Quits, Fits, Waiting
  <2>3. CASE e.call # c
    BY <1>1, <1>4, <1>6, <2>1, <2>3 DEF OthersKeep, Fits
  <2> QED BY <2>2, <2>3
<1>10. Answers' = Answers => Named'
  <2>1. \A d \in Calls : pc'[d] \in NamedLabels => thread'[d] # Null
    BY <1>1 DEF Naming, NamedLabels, OthersKeep, Pipe, Named
  <2>2. \A d \in Calls : reply'[d] # Null => Fits(d, reply[d])'
    BY <1>1 DEF Naming, OthersKeep, Pipe, Named, Fits
  <2> QED BY <1>9, <2>1, <2>2 DEF Named, NamedLabels
<1>11. CASE UNCHANGED sourceVars
  BY <1>8, <1>9, <1>10, <1>11, SameElements DEF Pipe, OneEach, OpenCalls
<1>12. CASE ~Open(c) /\ Sends(c)
  <2>1. PICK r \in Request : requests' = Append(requests, r) /\ r.call = c /\ Matches(r)'
    BY <1>12 DEF Sends
  <2>2. Sent' = Sent \cup {r}  BY <1>2, <2>1, ElementsAppend DEF Sent
  <2>3. events' = events /\ Answers' = Answers /\ pc'[c] \in Waiting /\ reply'[c] = Null
    BY <1>12 DEF Sends, Answers, Heard, Elements
  <2>4. Open(c)'  BY <2>3 DEF Open
  <2>5. OneRequestEach(requests')
    BY <1>2, <1>5, <1>12, <2>1, OneRequestAppend DEF Sent, Pipe, OneEach
  <2>6. OneEach'
    BY <1>5, <1>12, <2>1, <2>2, <2>3, <2>5 DEF Pipe, OneEach
  <2> QED BY <1>8, <1>9, <1>10, <2>1, <2>2, <2>3, <2>4, <2>6 DEF Pipe, OpenCalls
<1> QED BY <1>1, <1>11, <1>12 DEF Shape, Quits

\* An answer, alone or together with one notification.
Emits(a) ==
  \/ Emit(<<a>>)
  \/ \E n \in Event : n.type # "answer" /\ (Emit(<<a, n>>) \/ Emit(<<n, a>>))

\* The oldest request is answered.
Responds ==
  \E a \in Answer : /\ a.call = Oldest.call /\ Emits(a)
                    /\ Oldest.method = "newThread" /\ a.result = "ok" => a.thread # Null

LEMMA ServeEmits ==
  ASSUME SourceTypeOK, Serve
  PROVE  Responds
<1>1. \A result \in Results, t \in Threads \cup {Null} :
        /\ Reply(result, t) \in Answer /\ Reply(result, t).call = Oldest.call
        /\ Reply(result, t).result = result /\ Reply(result, t).thread = t
        /\ Oldest \in Request
  BY ReplyType DEF Serve, Reply
<1>2. {"ok", "idle", "active", "error"} = Results  BY DEF Results
<1>3. ASSUME NEW result \in Results, NEW t \in Threads \cup {Null}, Emits(Reply(result, t)),
             Oldest.method = "newThread" /\ result = "ok" => t # Null
      PROVE  Responds
  BY <1>1, <1>3 DEF Responds
<1>4. CASE ServeRead
  <2>1. PICK result \in Results : Emit(<<Reply(result, Null)>>)  BY <1>2, <1>4 DEF ServeRead
  <2> QED BY <1>3, <1>4, <2>1 DEF ServeRead, Emits
<1>5. CASE ServeEvidence
  <2>1. PICK result \in Results : Emit(<<Reply(result, Null)>>)  BY <1>2, <1>5 DEF ServeEvidence
  <2> QED BY <1>3, <1>5, <2>1 DEF ServeEvidence, Emits
<1>6. CASE ServeNewThread
  <2>1. PICK t \in Threads : Emit(<<Reply("ok", t)>>)  BY <1>6 DEF ServeNewThread
  <2> QED BY <1>2, <1>3, <2>1 DEF Emits
<1>7. CASE ServeStart
  <2>1. Oldest.thread \in Threads /\ Oldest.call \in Calls
    BY <1>1, <1>2, <1>7 DEF ServeStart, Idle, SourceTypeOK, Request
  <2> DEFINE n == [type |-> "started", thread |-> Oldest.thread, turn |-> Oldest.call]
  <2>2. n \in Event /\ n.type # "answer"  BY <2>1, StartedOK
  <2>3. Emit(<<Reply("ok", Null), n>>)  BY <1>7 DEF ServeStart
  <2>4. Oldest.method # "newThread"  BY <1>7 DEF ServeStart, StartMethods
  <2> HIDE DEF n
  <2> QED BY <1>2, <1>3, <2>2, <2>3, <2>4 DEF Emits
<1>8. CASE ServeRollback \/ ServeArchive
  BY <1>2, <1>3, <1>8 DEF ServeRollback, ServeArchive, Emits
<1>9. CASE ServeResume
  <2>1. PICK result \in Results : Emit(<<Reply(result, Null)>>)  BY <1>2, <1>9 DEF ServeResume
  <2> QED BY <1>3, <1>9, <2>1 DEF ServeResume, Emits
<1>10. CASE ServeDelete
  <2>1. Oldest.thread \in Threads  BY <1>10 DEF ServeDelete, SourceTypeOK
  <2> DEFINE n == [type |-> "deleted", thread |-> Oldest.thread]
  <2>2. n \in Event /\ n.type # "answer"  BY <2>1 DEF Event, DeletedNotification
  <2>3. Emit(<<Reply("ok", Null), n>>) \/ Emit(<<n, Reply("ok", Null)>>)  BY <1>10 DEF ServeDelete
  <2>4. Oldest.method # "newThread"  BY <1>10 DEF ServeDelete
  <2> HIDE DEF n
  <2> QED BY <1>2, <1>3, <2>2, <2>3, <2>4 DEF Emits
<1>11. CASE Refuse
  BY <1>2, <1>3, <1>11 DEF Refuse, Emits
<1> QED BY <1>4, <1>5, <1>6, <1>7, <1>8, <1>9, <1>10, <1>11 DEF Serve

\* What an answer, or a notification, adds to what is on its way to the client.
LEMMA EmitsElements ==
  ASSUME SourceTypeOK, OneAnswerEach(events), NEW a \in Answer, Emits(a), \A e \in Answers : e.call # a.call
  PROVE  /\ OneAnswerEach(events') /\ Answers' = Answers \cup {a}
         /\ Emit(<<a>>) => Heard' = Heard \cup {a}
         /\ \A n \in Event : n.type # "answer" /\ (Emit(<<a, n>>) \/ Emit(<<n, a>>)) => Heard' = Heard \cup {a, n}
<1>1. events \in Seq(Event) /\ a \in Event /\ a.type = "answer"
  BY DEF SourceTypeOK, Event, Answer
<1>2. \A f \in Elements(events) : f.type = "answer" => f.call # a.call
  BY DEF Answers, Heard
<1>3. ASSUME Emit(<<a>>)
      PROVE  OneAnswerEach(events') /\ Heard' = Heard \cup {a}
  <2>1. events' = Append(events, a)  BY <1>1, <1>3 DEF Emit
  <2> QED BY <1>1, <1>2, <2>1, OneAnswerAppend, ElementsAppend DEF Heard
<1>4. ASSUME NEW n \in Event, n.type # "answer", Emit(<<a, n>>)
      PROVE  OneAnswerEach(events') /\ Heard' = Heard \cup {a, n}
  <2> DEFINE s == Append(events, a)
  <2>1. events' = Append(s, n) /\ s \in Seq(Event)  BY <1>1, <1>4 DEF Emit
  <2>2. OneAnswerEach(s) /\ Elements(s) = Elements(events) \cup {a}
    BY <1>1, <1>2, OneAnswerAppend, ElementsAppend
  <2> HIDE DEF s
  <2> QED BY <1>4, <2>1, <2>2, OneAnswerAppend, ElementsAppend DEF Heard
<1>5. ASSUME NEW n \in Event, n.type # "answer", Emit(<<n, a>>)
      PROVE  OneAnswerEach(events') /\ Heard' = Heard \cup {a, n}
  <2> DEFINE s == Append(events, n)
  <2>1. events' = Append(s, a) /\ s \in Seq(Event)  BY <1>1, <1>5 DEF Emit
  <2>2. OneAnswerEach(s) /\ Elements(s) = Elements(events) \cup {n}
    BY <1>1, <1>5, OneAnswerAppend, ElementsAppend
  <2> HIDE DEF s
  <2> QED BY <1>1, <1>2, <1>5, <2>1, <2>2, OneAnswerAppend, ElementsAppend DEF Heard
<1>6. OneAnswerEach(events') /\ \E N \in SUBSET Event : Heard' = Heard \cup {a} \cup N /\ \A n \in N : n.type # "answer"
  <2>1. CASE Emit(<<a>>)
    <3>1. Heard' = Heard \cup {a} \cup {}  BY <1>3, <2>1
    <3> QED BY <1>3, <2>1, <3>1
  <2>2. ASSUME NEW n \in Event, n.type # "answer", Emit(<<a, n>>) \/ Emit(<<n, a>>)
        PROVE  OneAnswerEach(events') /\ \E N \in SUBSET Event : Heard' = Heard \cup {a} \cup N /\ \A m \in N : m.type # "answer"
    <3>1. OneAnswerEach(events') /\ Heard' = Heard \cup {a} \cup {n}  BY <1>4, <1>5, <2>2
    <3>2. {n} \in SUBSET Event /\ \A m \in {n} : m.type # "answer"  BY <2>2
    <3> QED BY <3>1, <3>2
  <2> QED BY <2>1, <2>2 DEF Emits
<1>7. Answers' = Answers \cup {a}
  BY <1>1, <1>6 DEF Answers
<1> QED BY <1>3, <1>4, <1>5, <1>6, <1>7

LEMMA ServeSent ==
  ASSUME SourceTypeOK, OneRequestEach(requests), Serve
  PROVE  /\ Sent = Sent' \cup {Oldest} /\ OneRequestEach(requests')
         /\ \A r \in Sent' : r.call # Oldest.call
<1>1. requests \in Seq(Request) /\ requests # <<>> /\ requests' = Tail(requests)
  BY DEF SourceTypeOK, Serve
<1> QED BY <1>1, ElementsTail, OneRequestTail DEF Sent, Oldest

\* An emission without an answer.
LEMMA NotifyElements ==
  ASSUME SourceTypeOK, OneAnswerEach(events), NEW n \in Event, n.type # "answer", Emit(<<n>>)
  PROVE  OneAnswerEach(events') /\ Heard' = Heard \cup {n} /\ Answers' = Answers
<1>1. events' = Append(events, n) /\ events \in Seq(Event)  BY DEF Emit, SourceTypeOK
<1>2. OneAnswerEach(events') /\ Heard' = Heard \cup {n}
  BY <1>1, OneAnswerAppend, ElementsAppend DEF Heard
<1> QED BY <1>2 DEF Answers

LEMMA TurnsEmit ==
  ASSUME SourceTypeOK, NEW t \in Threads,
         CompleteTurn(t) \/ \E u \in ForeignTurns : StartForeignTurn(t, u)
  PROVE  requests' = requests /\ \E n \in TurnNotification : n \in Event /\ n.type # "answer" /\ Emit(<<n>>)
<1>1. CASE CompleteTurn(t)
  <2>1. [type |-> "completed", thread |-> t, turn |-> running[t]] \in TurnNotification
    BY <1>1 DEF CompleteTurn, SourceTypeOK, TurnNotification
  <2> QED BY <1>1, <2>1 DEF CompleteTurn, TurnNotification, Event
<1>2. ASSUME NEW u \in ForeignTurns, StartForeignTurn(t, u)
      PROVE  requests' = requests /\ \E n \in TurnNotification : n \in Event /\ n.type # "answer" /\ Emit(<<n>>)
  <2>1. [type |-> "started", thread |-> t, turn |-> u] \in TurnNotification
    BY DEF TurnNotification
  <2> QED BY <1>2, <2>1 DEF StartForeignTurn, TurnNotification, Event
<1> QED BY <1>1, <1>2

LEMMA DeliverPipe ==
  ASSUME Control, Pipe, Deliver
  PROVE  Pipe'
<1> DEFINE message == Head(events)
<1>1. /\ events \in Seq(Event) /\ events # <<>> /\ events' = Tail(events) /\ requests' = requests
      /\ UNCHANGED <<pc, kind, thread, workspace, gate, held, contract, work>>
      /\ message \in Event
  BY FirstEvent DEF Control, TypeOK, SourceTypeOK, Deliver
<1>2. /\ Heard = Heard' \cup {message} /\ OneAnswerEach(events')
      /\ message.type = "answer" => \A e \in Answers' : e.call # message.call
  BY <1>1, ElementsTail, OneAnswerTail DEF Heard, Answers, Pipe, OneEach
<1>3. Answers' \subseteq Answers /\ Sent' = Sent /\ (message.type = "answer" => message \in Answers)
  BY <1>1, <1>2 DEF Answers, Sent
<1>4. \/ message.type = "answer" /\ reply' = [reply EXCEPT ![message.call] = IF Awaiting(message.call) THEN message ELSE @]
      \/ message.type # "answer" /\ reply' = reply
  BY DEF Deliver
<1>5. message.type = "answer" => message.call \in Calls
  BY <1>1, EventKinds DEF Answer
<1>6. \A r \in Sent' \cup Answers' : r.call \in Calls /\ reply'[r.call] = reply[r.call]
  <2>1. \A r \in Sent' \cup Answers' : r.call \in Calls
    BY <1>3, SentTyped DEF Control, TypeOK, Request, Answer
  <2>2. message.type = "answer" => \A r \in Sent' \cup Answers' : r.call # message.call
    BY <1>2, <1>3 DEF Pipe, OneEach
  <2> QED BY <1>4, <1>5, <2>1, <2>2 DEF Control, TypeOK
<1>7. OneEach'  BY <1>1, <1>2, <1>3 DEF Pipe, OneEach
<1>8. OpenCalls'  BY <1>1, <1>3, <1>6 DEF Pipe, OpenCalls, Open
<1>9. \A r \in Sent' : Matches(r)'  BY <1>1, <1>3 DEF Pipe, Matches
<1>10. Named'
  <2>1. \A c \in Calls : reply'[c] # Null => Fits(c, reply[c])'
    <3> SUFFICES ASSUME NEW c \in Calls, reply'[c] # Null PROVE Fits(c, reply[c])'
      OBVIOUS
    <3>1. reply'[c] = reply[c] \/ (reply'[c] = message /\ message.call = c /\ message.type = "answer")
      BY <1>4, <1>5 DEF Control, TypeOK
    <3> QED BY <1>1, <1>3, <3>1 DEF Pipe, Named, Fits
  <2>2. \A e \in Answers' : Fits(e.call, e)'
    BY <1>1, <1>3 DEF Pipe, Named, Fits
  <2> QED BY <1>1, <2>1, <2>2 DEF Pipe, Named
<1> QED BY <1>7, <1>8, <1>9, <1>10 DEF Pipe

\* Rejections of the transport answer calls that wait.
LEMMA RejectedPipe ==
  ASSUME Control, Pipe, UNCHANGED <<pc, kind, thread, workspace>>,
         OneEach', Sent' \subseteq Sent, Answers' \subseteq Answers,
         \A c \in Calls : reply'[c] = reply[c] \/ (Awaiting(c) /\ reply'[c] = Rejection(c))
  PROVE  Pipe'
<1>1. \A c \in Calls : Open(c) => Open(c)'
  BY RejectionOK DEF Open, Awaiting
<1>2. \A r \in Sent \cup Answers : r.call \in Calls
  BY SentTyped DEF Control, TypeOK, Request, Answer
<1>3. OpenCalls'  BY <1>1, <1>2 DEF Pipe, OpenCalls
<1>4. \A r \in Sent' : Matches(r)'  BY DEF Pipe, Matches
<1>5. Named'  BY RejectionOK DEF Pipe, Named, Fits
<1> QED BY <1>3, <1>4, <1>5 DEF Pipe

LEMMA TimeoutPipe ==
  ASSUME Control, Pipe, NEW c \in Calls, Timeout(c)
  PROVE  Pipe'
<1>1. /\ reply' = [reply EXCEPT ![c] = Rejection(c)] /\ Awaiting(c)
      /\ UNCHANGED <<sourceVars, pc, kind, thread, workspace>>
  BY DEF Timeout
<1>2. OneEach' /\ Sent' = Sent /\ Answers' = Answers
  BY <1>1, SameElements DEF Pipe, OneEach
<1>3. \A d \in Calls : reply'[d] = reply[d] \/ (Awaiting(d) /\ reply'[d] = Rejection(d))
  BY <1>1 DEF Control, TypeOK
<1> QED BY <1>1, <1>2, <1>3, RejectedPipe

LEMMA ExitPipe ==
  ASSUME Exit
  PROVE  OneEach' /\ Sent' = {} /\ Heard' = {} /\ Answers' = {}
<1>1. requests' = <<>> /\ events' = <<>>  BY DEF Exit
<1>2. Sent' = {} /\ Heard' = {}  BY <1>1 DEF Sent, Heard, Elements
<1>3. OneRequestEach(requests') /\ OneAnswerEach(events')  BY <1>1 DEF OneRequestEach, OneAnswerEach
<1> QED BY <1>2, <1>3 DEF OneEach, Answers

LEMMA SourceExitPipe ==
  ASSUME Control, Pipe, SourceExit
  PROVE  Pipe'
<1>1. /\ Exit /\ UNCHANGED <<pc, kind, thread, workspace>>
      /\ reply' = [c \in Calls |-> IF Awaiting(c) THEN Rejection(c) ELSE reply[c]]
  BY DEF SourceExit
<1> QED BY <1>1, ExitPipe, RejectedPipe

LEMMA CrashPipe ==
  ASSUME Control, Pipe, Crash
  PROVE  Pipe'
<1>1. /\ Exit /\ UNCHANGED <<kind, thread, workspace>>
      /\ pc' = [c \in Calls |-> IF pc[c] = "idle" THEN "idle" ELSE "done"]
      /\ reply' = [c \in Calls |-> Null]
  BY DEF Crash
<1>2. OneEach' /\ Sent' = {} /\ Heard' = {} /\ Answers' = {}
  BY <1>1, ExitPipe
<1>3. Named'  BY <1>1, <1>2 DEF Named
<1> QED BY <1>2, <1>3 DEF Pipe, OpenCalls

LEMMA SourcePipe ==
  ASSUME Control, Pipe, Source
  PROVE  Pipe'
<1>1. SourceTypeOK /\ UNCHANGED <<pc, kind, thread, workspace, reply>>
  BY DEF Control, TypeOK, Source, callVars
<1>2. CASE Serve
  <2>1. /\ Sent = Sent' \cup {Oldest} /\ OneRequestEach(requests') /\ \A r \in Sent' : r.call # Oldest.call
    BY <1>1, <1>2, ServeSent DEF Pipe, OneEach
  <2>2. PICK a \in Answer : /\ a.call = Oldest.call /\ Emits(a)
                            /\ Oldest.method = "newThread" /\ a.result = "ok" => a.thread # Null
    BY <1>1, <1>2, ServeEmits DEF Responds
  <2>3. OneAnswerEach(events') /\ Answers' = Answers \cup {a}
    BY <1>1, <2>1, <2>2, EmitsElements DEF Pipe, OneEach
  <2>4. OneEach'  BY <2>1, <2>2, <2>3 DEF Pipe, OneEach
  <2>5. OpenCalls'  BY <1>1, <2>1, <2>2, <2>3 DEF Pipe, OpenCalls, Open
  <2>6. \A r \in Sent' : Matches(r)'  BY <1>1, <2>1 DEF Pipe, Matches
  <2>7. Fits(a.call, a)'
    <3>1. pc[a.call] = "newThread" => Oldest.method = "newThread"
      BY <2>1, <2>2 DEF Pipe, Matches, MethodOf, Waiting
    <3> QED BY <1>1, <2>2, <3>1 DEF Fits
  <2>8. Named'  BY <1>1, <2>3, <2>7 DEF Pipe, Named, Fits
  <2> QED BY <2>4, <2>5, <2>6, <2>8 DEF Pipe
<1>3. CASE ~Serve
  <2>1. PICK n \in TurnNotification : n \in Event /\ n.type # "answer" /\ Emit(<<n>>) /\ requests' = requests
    BY <1>1, <1>3, TurnsEmit DEF Source
  <2>2. OneAnswerEach(events') /\ Answers' = Answers /\ Sent' = Sent
    BY <1>1, <2>1, NotifyElements DEF Pipe, OneEach, Sent
  <2> QED BY <1>1, <2>1, <2>2 DEF Pipe, OneEach, OpenCalls, Open, Matches, Named, Fits
<1> QED BY <1>2, <1>3

LEMMA PipeInit == Init => Pipe
<1> SUFFICES ASSUME Init PROVE Pipe  OBVIOUS
<1>1. requests = <<>> /\ events = <<>>  BY DEF Init, SourceInit
<1>2. Sent = {} /\ Heard = {}  BY <1>1 DEF Sent, Heard, Elements
<1>3. OneRequestEach(requests) /\ OneAnswerEach(events)  BY <1>1 DEF OneRequestEach, OneAnswerEach
<1> QED BY <1>2, <1>3 DEF Init, Pipe, OneEach, OpenCalls, Named, Answers

LEMMA PipeStep ==
  ASSUME Control, Pipe, [Next]_vars
  PROVE  Pipe'
<1>1. CASE UNCHANGED vars
  <2>1. UNCHANGED <<pc, kind, thread, workspace, reply, sourceVars>>  BY <1>1 DEF vars, callVars
  <2> QED BY <2>1, SameElements DEF Pipe, OneEach, OpenCalls, Open, Matches, Named, Fits
<1>2. CASE Lists
  <2>1. UNCHANGED <<pc, kind, thread, workspace, reply, sourceVars>>  BY <1>2 DEF Lists, callVars
  <2> QED BY <2>1, SameElements DEF Pipe, OneEach, OpenCalls, Open, Matches, Named, Fits
<1> QED BY <1>1, <1>2, StepPipe, DeliverPipe, TimeoutPipe, SourcePipe, SourceExitPipe, CrashPipe DEF Next

\* A call has at most one request or answer under way, of the method and for the
\* thread it waits with; answers that come late find nobody.
THEOREM PipeHolds == Spec => [](Control /\ Pipe)
<1>1. Control /\ Pipe /\ [Next]_vars => (Control /\ Pipe)'
  BY ControlStep, PipeStep
<1> QED BY ControlInit, PipeInit, <1>1, PTL DEF Spec

----------------------------------------------------------------------------
(* Rows and calls.  A reservation belongs to the call whose id it has, and *)
(* says what that call is doing.                                           *)

RowOK(id) ==
  Live(id) =>
    /\ kind[id] \in RunKinds \cup CatalogKinds
    /\ Row(id).operation = Operation(kind[id]) /\ Row(id).workspace = workspace[id]
    /\ Row(id).thread \in {Null, thread[id]}
    /\ kind[id] \notin Gateless => Row(id).thread # Null
    /\ kind[id] = "create" => Row(id).thread = Null
    /\ kind[id] = "implicit" /\ pc[id] \in {"prepare", "newThread", "bind"} => Row(id).thread = Null
    /\ kind[id] = "implicit" /\ pc[id] \in {"submit", "await", "after"} => Row(id).thread # Null
    /\ pc[id] \notin {"idle", "reserve", "recoverRead"}
    /\ Row(id).state = "preparing" =>
         Row(id).turn = Null /\ pc[id] \in {"checkRead", "prepare", "newThread", "bind", "submit", "done"}
    /\ pc[id] \in {"checkRead", "prepare", "bind", "submit"} => Row(id).state = "preparing"
    /\ pc[id] = "newThread" => (Row(id).state = "preparing" <=> kind[id] = "implicit")
    /\ Row(id).thread = Null \/ Row(id).operation \notin Lifecycle =>
         Row(id).state \in {"preparing", "submitting", "uncertain"} /\ Row(id).turn = Null

\* A request with an effect, of a call that gave up, left a dispatched row.
EffectRows ==
  \A r \in Sent : pc[r.call] = "done" /\ Live(r.call) /\ r.method \in Effects \cup {"resume"} =>
    Row(r.call).state # "preparing" /\ Row(r.call).thread # Null

Rows == (\A id \in Calls : RowOK(id)) /\ EffectRows

\* The identity of a row.
SameRow(a, b) == a.workspace = b.workspace /\ a.thread = b.thread /\ a.operation = b.operation

OtherRowsKeep(id) == \A i \in Calls \ {id} : reservations'[i] = reservations[i]
SomeRowsGo == \A i \in Calls : reservations'[i] \in {reservations[i], Null}

LEMMA ReserveRow ==
  ASSUME StoreTypeOK, NEW id \in Reservations, NEW w, NEW t, NEW o, Reserve(id, w, t, o)
  PROVE  /\ OtherRowsKeep(id) /\ UNCHANGED <<association, archivedRow, transitions, contexts>>
         /\ ~Live(id)
         /\ reservations'[id] = [workspace |-> w, thread |-> t, turn |-> Null, state |-> "preparing",
                                 operation |-> o, acknowledged |-> FALSE]
BY DEF Reserve, ChangeReservations, OtherRowsKeep, StoreTypeOK

LEMMA SubmittingRow ==
  ASSUME StoreTypeOK, NEW id \in Reservations, Submitting(id) \/ SubmittingCreation(id)
  PROVE  /\ OtherRowsKeep(id) /\ UNCHANGED <<association, archivedRow, transitions, contexts>>
         /\ Live(id) /\ reservations'[id] # Null /\ SameRow(reservations'[id], Row(id))
         /\ Row(id).state = "preparing"
         /\ reservations'[id].state = "submitting" /\ reservations'[id].turn = Row(id).turn
         /\ reservations'[id].acknowledged = Row(id).acknowledged
         /\ Submitting(id) => Row(id).thread # Null
         /\ SubmittingCreation(id) => Row(id).thread = Null
<1>1. Live(id) /\ Row(id) \in Reservation
  BY LiveRow DEF Submitting, CanSubmit, SubmittingCreation, CanSubmitCreation
<1>2. reservations' = [reservations EXCEPT ![id] = [Row(id) EXCEPT !.state = "submitting"]]
  BY DEF Submitting, SubmittingCreation, ChangeReservations, Row
<1>3. [Row(id) EXCEPT !.state = "submitting"] \in Reservation  BY <1>1 DEF Reservation, ReservationStates
<1>4. reservations'[id] = [Row(id) EXCEPT !.state = "submitting"]  BY <1>2 DEF StoreTypeOK
<1>5. reservations'[id] # Null  BY <1>3, <1>4
<1>6. SameRow(reservations'[id], Row(id)) /\ reservations'[id].state = "submitting"
      /\ reservations'[id].turn = Row(id).turn /\ reservations'[id].acknowledged = Row(id).acknowledged
  BY <1>1, <1>4 DEF Reservation, SameRow
<1>7. OtherRowsKeep(id)  BY <1>2 DEF OtherRowsKeep, StoreTypeOK
<1> QED BY <1>1, <1>5, <1>6, <1>7
        DEF Submitting, CanSubmit, SubmittingCreation, CanSubmitCreation, ChangeReservations

LEMMA BindRow ==
  ASSUME StoreTypeOK, NEW id \in Reservations, NEW t \in Threads, BindThread(id, t)
  PROVE  /\ OtherRowsKeep(id) /\ UNCHANGED <<archivedRow, transitions, contexts>>
         /\ association' = [association EXCEPT ![t] = Row(id).workspace]
         /\ Live(id) /\ reservations'[id] # Null
         /\ Row(id).state = "preparing" /\ association[t] # Null /\ ReservedBy(t) \subseteq {id}
         /\ reservations'[id].workspace = Row(id).workspace /\ reservations'[id].operation = Row(id).operation
         /\ reservations'[id].thread = t /\ reservations'[id].state = Row(id).state
         /\ reservations'[id].turn = Row(id).turn /\ reservations'[id].acknowledged = Row(id).acknowledged
<1>1. Live(id) /\ Row(id) \in Reservation  BY LiveRow DEF BindThread, CanBind
<1>2. reservations' = [reservations EXCEPT ![id] = [Row(id) EXCEPT !.thread = t]]
  BY DEF BindThread, Row
<1>3. [Row(id) EXCEPT !.thread = t] \in Reservation  BY <1>1 DEF Reservation
<1>4. reservations'[id] = [Row(id) EXCEPT !.thread = t]  BY <1>2 DEF StoreTypeOK
<1>5. reservations'[id] # Null  BY <1>3, <1>4
<1>6. /\ reservations'[id].workspace = Row(id).workspace /\ reservations'[id].operation = Row(id).operation
      /\ reservations'[id].thread = t /\ reservations'[id].state = Row(id).state
      /\ reservations'[id].turn = Row(id).turn /\ reservations'[id].acknowledged = Row(id).acknowledged
  BY <1>1, <1>4 DEF Reservation
<1>7. OtherRowsKeep(id)  BY <1>2 DEF OtherRowsKeep, StoreTypeOK
<1> QED BY <1>1, <1>5, <1>6, <1>7 DEF BindThread, CanBind

\* The response of a start request is joined.
LEMMA AcknowledgeRow ==
  ASSUME StoreTypeOK, NEW id \in Reservations, NEW u \in Turns, Acknowledge(id, u)
  PROVE  /\ OtherRowsKeep(id) /\ UNCHANGED <<association, archivedRow, transitions>>
         /\ Live(id) /\ Row(id).operation \in Lifecycle /\ Row(id).turn \in {Null, u}
         /\ CaptureContext(Acknowledged(id, u)) /\ CanCapture(Acknowledged(id, u))
         /\ \/ Row(id).state = "completed" /\ reservations'[id] = Null
            \/ /\ reservations'[id] # Null /\ SameRow(reservations'[id], Row(id))
               /\ reservations'[id].state = "running" /\ reservations'[id].turn = u
<1>1. Live(id) /\ Row(id) \in Reservation /\ Row(id).operation \in Lifecycle /\ Row(id).turn \in {Null, u}
      /\ CaptureContext(Acknowledged(id, u)) /\ CanCapture(Acknowledged(id, u))
  BY LiveRow DEF Acknowledge, CanAcknowledge
<1>2. reservations' = [reservations EXCEPT ![id] = IF Row(id).state = "completed" THEN Null ELSE Acknowledged(id, u)]
  BY DEF Acknowledge
<1>3. Acknowledged(id, u) \in Reservation  BY <1>1, AcknowledgedType
<1>4. reservations'[id] = IF Row(id).state = "completed" THEN Null ELSE Acknowledged(id, u)
  BY <1>2 DEF StoreTypeOK
<1>5. Row(id).state # "completed" =>
        /\ SameRow(Acknowledged(id, u), Row(id))
        /\ Acknowledged(id, u).state = "running" /\ Acknowledged(id, u).turn = u
  BY <1>1 DEF Acknowledged, Reservation, SameRow
<1>6. OtherRowsKeep(id)  BY <1>2 DEF OtherRowsKeep, StoreTypeOK
<1> QED BY <1>1, <1>3, <1>4, <1>5, <1>6 DEF Acknowledge

LEMMA AcknowledgeMaintenanceRow ==
  ASSUME StoreTypeOK, NEW id \in Reservations, NEW u \in Turns, AcknowledgeMaintenance(id, u)
  PROVE  /\ OtherRowsKeep(id) /\ UNCHANGED <<association, archivedRow, transitions>>
         /\ Live(id) /\ Row(id).operation \in {"review", "compact", "rollback"} /\ Row(id).state # "preparing"
         /\ \/ reservations'[id] = Null /\ (Row(id).state = "completed" \/ Row(id).operation = "rollback")
            \/ /\ reservations'[id] # Null /\ SameRow(reservations'[id], Row(id))
               /\ Row(id).operation \in Lifecycle
               /\ reservations'[id].state # "preparing"
               /\ \/ Row(id).turn \in {Null, u} /\ reservations'[id].turn = u
                  \/ reservations'[id].turn = Row(id).turn /\ reservations'[id].state = Row(id).state
<1>1. Live(id) /\ Row(id) \in Reservation /\ Row(id).operation \in {"review", "compact", "rollback"}
      /\ Row(id).state # "preparing"
  BY LiveRow DEF AcknowledgeMaintenance, CanAcknowledgeMaintenance
<1>2. CASE Row(id).operation = "review" /\ Acknowledge(id, u)
  BY <1>1, <1>2, AcknowledgeRow DEF Lifecycle
<1>3. CASE Row(id).operation = "rollback" /\ ChangeReservations([reservations EXCEPT ![id] = Null])
  BY <1>1, <1>3 DEF ChangeReservations, OtherRowsKeep, StoreTypeOK
<1>4. CASE /\ Row(id).operation = "compact"
           /\ ChangeReservations([reservations EXCEPT ![id] =
                IF Row(id).state = "completed" THEN Null ELSE [@ EXCEPT !.acknowledged = TRUE]])
  <2>1. reservations' = [reservations EXCEPT ![id] =
          IF Row(id).state = "completed" THEN Null ELSE [Row(id) EXCEPT !.acknowledged = TRUE]]
    BY <1>4 DEF ChangeReservations, Row
  <2>2. [Row(id) EXCEPT !.acknowledged = TRUE] \in Reservation  BY <1>1 DEF Reservation
  <2>3. reservations'[id] = IF Row(id).state = "completed" THEN Null ELSE [Row(id) EXCEPT !.acknowledged = TRUE]
    BY <2>1 DEF StoreTypeOK
  <2>4. LET new == [Row(id) EXCEPT !.acknowledged = TRUE]
        IN  SameRow(new, Row(id)) /\ new.turn = Row(id).turn /\ new.state = Row(id).state
    BY <1>1 DEF Reservation, SameRow
  <2>5. OtherRowsKeep(id)  BY <2>1 DEF OtherRowsKeep, StoreTypeOK
  <2> QED BY <1>1, <1>4, <2>2, <2>3, <2>4, <2>5 DEF ChangeReservations, Lifecycle
<1> QED BY <1>2, <1>3, <1>4 DEF AcknowledgeMaintenance

\* Safe failures disappear, ambiguous ones stay.
LEMMA FailRow ==
  ASSUME StoreTypeOK, NEW id \in Reservations, Fail(id)
  PROVE  /\ OtherRowsKeep(id) /\ UNCHANGED <<association, archivedRow, transitions, contexts>>
         /\ \/ reservations'[id] = Null /\ (Live(id) => Row(id).state \in {"preparing", "completed"})
            \/ /\ Live(id) /\ reservations'[id] # Null /\ SameRow(reservations'[id], Row(id))
               /\ Row(id).state \notin {"preparing", "completed"}
               /\ reservations'[id].state = "uncertain" /\ reservations'[id].turn = Row(id).turn
               /\ reservations'[id].acknowledged = Row(id).acknowledged
<1> DEFINE dies == reservations[id] = Null \/ reservations[id].state \in {"preparing", "completed"}
<1>1. reservations' = [reservations EXCEPT ![id] = IF dies THEN Null ELSE [Row(id) EXCEPT !.state = "uncertain"]]
  BY DEF Fail, ChangeReservations, Row
<1>2. reservations'[id] = IF dies THEN Null ELSE [Row(id) EXCEPT !.state = "uncertain"]
  BY <1>1 DEF StoreTypeOK
<1>3. OtherRowsKeep(id)  BY <1>1 DEF OtherRowsKeep, StoreTypeOK
<1>4. CASE dies  BY <1>2, <1>3, <1>4 DEF Fail, ChangeReservations, Live, Row
<1>5. CASE ~dies
  <2>1. Live(id) /\ Row(id) \in Reservation  BY <1>5, LiveRow DEF Live, Row
  <2>2. [Row(id) EXCEPT !.state = "uncertain"] \in Reservation  BY <2>1 DEF Reservation, ReservationStates
  <2>3. LET new == [Row(id) EXCEPT !.state = "uncertain"]
        IN  SameRow(new, Row(id)) /\ new.turn = Row(id).turn /\ new.state = "uncertain"
            /\ new.acknowledged = Row(id).acknowledged
    BY <2>1 DEF Reservation, SameRow
  <2> QED BY <1>2, <1>3, <1>5, <2>1, <2>2, <2>3 DEF Fail, ChangeReservations, Row
<1> QED BY <1>4, <1>5

LEMMA ConfirmDeletionRow ==
  ASSUME StoreTypeOK, NEW id \in Reservations, ConfirmDeletion(id)
  PROVE  /\ OtherRowsKeep(id) /\ UNCHANGED <<association, archivedRow, transitions, contexts>>
         /\ Live(id) /\ reservations'[id] # Null /\ SameRow(reservations'[id], Row(id))
         /\ Row(id).operation = "delete" /\ Row(id).state \in {"submitting", "uncertain"}
         /\ reservations'[id].turn = Row(id).turn /\ reservations'[id].state = Row(id).state
<1>1. Live(id) /\ Row(id) \in Reservation  BY LiveRow DEF ConfirmDeletion, CanConfirmDeletion
<1>2. reservations' = [reservations EXCEPT ![id] = [Row(id) EXCEPT !.acknowledged = TRUE]]
  BY DEF ConfirmDeletion, ChangeReservations, Row
<1>3. [Row(id) EXCEPT !.acknowledged = TRUE] \in Reservation  BY <1>1 DEF Reservation
<1>4. reservations'[id] = [Row(id) EXCEPT !.acknowledged = TRUE]  BY <1>2 DEF StoreTypeOK
<1>5. SameRow(reservations'[id], Row(id)) /\ reservations'[id].turn = Row(id).turn
      /\ reservations'[id].state = Row(id).state
  BY <1>1, <1>4 DEF Reservation, SameRow
<1>6. OtherRowsKeep(id)  BY <1>2 DEF OtherRowsKeep, StoreTypeOK
<1> QED BY <1>1, <1>3, <1>4, <1>5, <1>6 DEF ConfirmDeletion, CanConfirmDeletion, ChangeReservations

LEMMA ReleaseRow ==
  ASSUME StoreTypeOK, NEW id \in Reservations, Release(id)
  PROVE  /\ OtherRowsKeep(id) /\ UNCHANGED <<association, archivedRow, transitions, contexts>>
         /\ reservations'[id] = Null /\ SomeRowsGo
BY DEF Release, ChangeReservations, OtherRowsKeep, SomeRowsGo, StoreTypeOK

LEMMA ConfirmCreationRow ==
  ASSUME StoreTypeOK, NEW id \in Reservations, NEW t, ConfirmCreation(id, t)
  PROVE  /\ OtherRowsKeep(id) /\ UNCHANGED <<association, archivedRow, transitions, contexts>>
         /\ reservations'[id] = Null /\ SomeRowsGo
BY DEF ConfirmCreation, ChangeReservations, OtherRowsKeep, SomeRowsGo, StoreTypeOK

\* The row of a call keeps its identity, binds at most once, and is
\* dispatched at most once.
Grows(id) ==
  reservations'[id] # Null =>
    \/ ~Live(id) /\ pc[id] = "reserve" /\ pc'[id] \in {"prepare", "checkRead", "submit"}
       /\ reservations'[id].state = "preparing"
    \/ /\ Live(id)
       /\ reservations'[id].workspace = Row(id).workspace /\ reservations'[id].operation = Row(id).operation
       /\ Row(id).thread \in {Null, reservations'[id].thread}
       /\ reservations'[id].state = "preparing" => Row(id).state = "preparing"

\* A step of a call changes its own row and may delete others.
RowsMoved(c) ==
  /\ \A id \in Calls \ {c} : reservations'[id] \in {reservations[id], Null}
  /\ RowOK(c)' /\ Grows(c)

LEMMA QuietRows ==
  ASSUME TypeOK, NEW c \in Calls, SomeRowsGo, RowOK(c)'
  PROVE  RowsMoved(c)
BY DEF SomeRowsGo, RowsMoved, Grows, Live, Row

LEMMA SameRows ==
  ASSUME TypeOK, NEW c \in Calls, UNCHANGED reservations \/ UNCHANGED storeVars
  PROVE  SomeRowsGo
BY DEF SomeRowsGo, storeVars

\* A call that has no row, or ends.
LEMMA NoRow ==
  ASSUME NEW c \in Calls, SomeRowsGo, ~Live(c)
  PROVE  RowOK(c)'
BY DEF SomeRowsGo, RowOK, Live, Row

LEMMA FinishRow ==
  ASSUME TypeOK, NEW c \in Calls, RowOK(c), Finish(c), SomeRowsGo
  PROVE  RowsMoved(c)
<1>1. RowOK(c)'
  BY FinishEffect DEF SomeRowsGo, RowOK, Live, Row
<1> QED BY <1>1, QuietRows

\* A call without a row of its own.
LEMMA Rowless ==
  ASSUME Control, NEW c \in Calls, RowOK(c),
         kind[c] \notin RunKinds \cup CatalogKinds \/ pc[c] \in {"idle", "reserve", "recoverRead"}
  PROVE  ~Live(c)
BY DEF RowOK

LEMMA RowlessMoved ==
  ASSUME Control, NEW c \in Calls, RowOK(c), SomeRowsGo,
         kind[c] \notin RunKinds \cup CatalogKinds \/ pc[c] \in {"idle", "reserve", "recoverRead"}
  PROVE  RowsMoved(c)
BY Rowless, NoRow, QuietRows DEF Control

LEMMA FailMoved ==
  ASSUME Control, NEW c \in Calls, RowOK(c), Fail(c), Finish(c)
  PROVE  RowsMoved(c)
<1>1. TypeOK /\ StoreTypeOK /\ c \in Reservations  BY DEF Control, TypeOK
<1>2. pc'[c] = "done" /\ kind'[c] = kind[c] /\ thread'[c] = thread[c] /\ workspace'[c] = workspace[c]
  BY <1>1, FinishEffect
<1>3. /\ OtherRowsKeep(c)
      /\ \/ reservations'[c] = Null
         \/ /\ Live(c) /\ reservations'[c] # Null /\ SameRow(reservations'[c], Row(c))
            /\ reservations'[c].state = "uncertain" /\ reservations'[c].turn = Row(c).turn
  BY <1>1, FailRow
<1>4. RowOK(c)'  BY <1>2, <1>3 DEF RowOK, SameRow, Live, Row
<1>5. Grows(c)  BY <1>3 DEF Grows, SameRow, Live, Row
<1> QED BY <1>3, <1>4, <1>5 DEF RowsMoved, OtherRowsKeep

LEMMA RunRows ==
  ASSUME Control, Named, NEW c \in Calls, RowOK(c), Run(c)
  PROVE  RowsMoved(c)
<1>1. TypeOK /\ StoreTypeOK /\ CallOK(c) /\ c \in Reservations  BY DEF Control, TypeOK
<1>2. ASSUME NEW k, NEW t, NEW w, StartRun(c, k, t, w)  PROVE RowsMoved(c)
  BY <1>1, <1>2, SameRows, RowlessMoved DEF StartRun
<1>3. CASE ReserveRun(c)
  <2>1. /\ OtherRowsKeep(c) /\ ~Live(c) /\ pc[c] = "reserve" /\ kind[c] \in RunKinds
        /\ reservations'[c] = [workspace |-> workspace[c], thread |-> thread[c], turn |-> Null, state |-> "preparing",
                                 operation |-> Operation(kind[c]), acknowledged |-> FALSE]
    BY <1>1, <1>3, ReserveRow DEF ReserveRun
  <2>2. /\ pc'[c] = IF thread[c] = Null THEN "prepare" ELSE "checkRead"
        /\ UNCHANGED <<kind, thread, workspace>>
    BY <1>1, <1>3 DEF ReserveRun, Reserved, Continue, Ask, Goto, Registers, TypeOK
  <2>3. thread[c] = Null <=> kind[c] \in Gateless
    BY <1>1, <2>1 DEF CallOK, Equipped, Active
  <2>4. RowOK(c)'
    BY <2>1, <2>2, <2>3 DEF RowOK, Live, Row, Gateless
  <2>5. Grows(c)  BY <2>1, <2>2 DEF Grows
  <2> QED BY <2>1, <2>4, <2>5 DEF RowsMoved, OtherRowsKeep
<1>4. CASE ReserveRefused(c)
  BY <1>1, <1>4, SameRows, RowlessMoved DEF ReserveRefused
<1>5. CASE RecoverRollback(c)
  <2>1. held[c] \in Reservations  BY <1>1, <1>5 DEF RecoverRollback, CallOK, Equipped, TypeOK
  <2>2. SomeRowsGo  BY <1>1, <1>5, <2>1, ReleaseRow, SameRows DEF RecoverRollback
  <2> QED BY <1>5, <2>2, RowlessMoved DEF RecoverRollback
<1>6. CASE CheckIdle(c)
  <2>1. /\ pc[c] = "checkRead" /\ pc'[c] = IF kind[c] = "turn" THEN "bind" ELSE "submit"
        /\ UNCHANGED <<kind, thread, workspace, reservations>>
        /\ kind[c] \notin Gateless
    BY <1>1, <1>6 DEF CheckIdle, Answered, Continue, Goto, TypeOK, storeVars, CallOK, InPlace, Gateless, MaintenanceKinds
  <2>2. RowOK(c)'  BY <2>1 DEF RowOK, Live, Row, Gateless
  <2> QED BY <1>1, <2>1, <2>2, SameRows, QuietRows
<1>7. CASE FailRun(c)
  BY <1>7, FailMoved DEF FailRun
<1>8. CASE CreateThread(c)
  <2>1. /\ pc[c] = "prepare" /\ pc'[c] = "newThread" /\ UNCHANGED <<kind, thread, workspace>>
        /\ kind[c] \in Gateless
    BY <1>1, <1>8 DEF CreateThread, Ask, Goto, Registers, TypeOK, CallOK, InPlace
  <2>2. CASE kind[c] = "create"
    <3>1. /\ OtherRowsKeep(c) /\ Live(c) /\ reservations'[c] # Null /\ SameRow(reservations'[c], Row(c))
          /\ reservations'[c].state = "submitting" /\ reservations'[c].turn = Row(c).turn
          /\ Row(c).state = "preparing"
      BY <1>1, <1>8, <2>2, SubmittingRow DEF CreateThread
    <3>2. RowOK(c)'  BY <2>1, <2>2, <3>1 DEF RowOK, Live, Row, SameRow, Gateless
    <3>3. Grows(c)  BY <3>1 DEF Grows, SameRow
    <3> QED BY <3>1, <3>2, <3>3 DEF RowsMoved, OtherRowsKeep
  <2>3. CASE kind[c] # "create"
    <3>1. UNCHANGED reservations  BY <1>8, <2>3 DEF CreateThread, storeVars
    <3>2. RowOK(c)'  BY <2>1, <2>3, <3>1 DEF RowOK, Live, Row, Gateless
    <3> QED BY <1>1, <3>1, <3>2, SameRows, QuietRows
  <2> QED BY <2>2, <2>3
<1>9. CASE IndexThread(c)
  <2>1. /\ pc[c] = "newThread" /\ pc'[c] = IF kind[c] = "create" THEN "confirm" ELSE "bind"
        /\ UNCHANGED <<kind, workspace, reservations>> /\ kind[c] \in Gateless
    BY <1>1, <1>9 DEF IndexThread, Answered, Goto, TypeOK, CallOK, InPlace, WriteIndex
  <2>2. RowOK(c)'
    <3>1. thread[c] = Null BY <1>1, <2>1 DEF CallOK, Equipped
    <3>2. CASE kind[c] = "create"  BY <2>1, <3>1, <3>2 DEF RowOK, Live, Row
    <3>3. CASE kind[c] = "implicit"  BY <2>1, <3>1, <3>3 DEF RowOK, Live, Row
    <3> QED BY <2>1, <3>2, <3>3 DEF Gateless
  <2> QED BY <1>1, <2>1, <2>2, SameRows, QuietRows
<1>10. CASE ConfirmThread(c)
  BY <1>1, <1>10, ConfirmCreationRow, FinishRow DEF ConfirmThread
<1>11. CASE Bind(c)
  <2>1. /\ pc[c] = "bind" /\ pc'[c] = "submit" /\ UNCHANGED <<kind, thread, workspace>>
        /\ thread[c] \in Threads /\ kind[c] \in {"turn", "implicit"}
    BY <1>1, <1>11 DEF Bind, Continue, Goto, TypeOK, CallOK, InPlace, Named
  <2>2. /\ OtherRowsKeep(c) /\ Live(c) /\ reservations'[c] # Null /\ Row(c).state = "preparing"
        /\ reservations'[c].workspace = Row(c).workspace /\ reservations'[c].operation = Row(c).operation
        /\ reservations'[c].thread = thread[c] /\ reservations'[c].state = Row(c).state
        /\ reservations'[c].turn = Row(c).turn
    BY <1>1, <1>11, <2>1, BindRow DEF Bind
  <2>3. RowOK(c)'  BY <2>1, <2>2 DEF RowOK, Live, Row, Gateless
  <2>4. Grows(c)  BY <2>1, <2>2 DEF Grows, RowOK
  <2> QED BY <2>2, <2>3, <2>4 DEF RowsMoved, OtherRowsKeep
<1>12. CASE Submit(c)
  <2>1. /\ pc[c] = "submit" /\ pc'[c] \in {"resume", "await"} /\ UNCHANGED <<kind, thread, workspace>>
    BY <1>1, <1>12 DEF Submit, Ask, Goto, Registers, TypeOK
  <2>2. /\ OtherRowsKeep(c) /\ Live(c) /\ reservations'[c] # Null /\ SameRow(reservations'[c], Row(c))
        /\ reservations'[c].state = "submitting" /\ reservations'[c].turn = Row(c).turn
        /\ Row(c).state = "preparing" /\ Row(c).thread # Null
    BY <1>1, <1>12, SubmittingRow DEF Submit
  <2>3. RowOK(c)'  BY <2>1, <2>2 DEF RowOK, Live, Row, SameRow
  <2>4. Grows(c)  BY <2>2 DEF Grows, SameRow
  <2> QED BY <2>2, <2>3, <2>4 DEF RowsMoved, OtherRowsKeep
<1>13. CASE Maintain(c)
  <2>1. /\ pc[c] = "resume" /\ pc'[c] = "await" /\ UNCHANGED <<kind, thread, workspace, reservations>>
        /\ kind[c] \in MaintenanceKinds
    BY <1>1, <1>13 DEF Maintain, Answered, Ask, Goto, Registers, TypeOK, storeVars, CallOK, InPlace
  <2>2. RowOK(c)'  BY <2>1 DEF RowOK, Live, Row, MaintenanceKinds
  <2> QED BY <1>1, <2>1, <2>2, SameRows, QuietRows
<1>14. CASE AcknowledgeTurn(c)
  <2>1. /\ pc[c] = "await" /\ pc'[c] = "after" /\ UNCHANGED <<kind, thread, workspace>>
        /\ kind[c] \in {"turn", "implicit"} /\ c \in Turns
    BY <1>1, <1>14 DEF AcknowledgeTurn, Answered, Continue, Goto, TypeOK
  <2>2. /\ OtherRowsKeep(c) /\ Live(c) /\ Row(c).operation \in Lifecycle
        /\ \/ reservations'[c] = Null
           \/ /\ reservations'[c] # Null /\ SameRow(reservations'[c], Row(c))
              /\ reservations'[c].state = "running"
    BY <1>1, <1>14, <2>1, AcknowledgeRow DEF AcknowledgeTurn
  <2>3. RowOK(c)'  BY <2>1, <2>2 DEF RowOK, Live, Row, SameRow, Gateless
  <2>4. Grows(c)  BY <2>2 DEF Grows, SameRow
  <2> QED BY <2>2, <2>3, <2>4 DEF RowsMoved, OtherRowsKeep
<1>15. CASE FinishTurn(c)
  BY <1>1, <1>15, SameRows, FinishRow DEF FinishTurn
<1>16. CASE AcknowledgeMaintained(c)
  <2>1. /\ pc[c] = "await" /\ pc'[c] = "done" /\ UNCHANGED <<kind, thread, workspace>>
        /\ kind[c] \in MaintenanceKinds /\ c \in Turns
    BY <1>1, <1>16, FinishEffect DEF AcknowledgeMaintained, Answered, Finish
  <2>2. /\ OtherRowsKeep(c) /\ Live(c)
        /\ \/ reservations'[c] = Null
           \/ /\ reservations'[c] # Null /\ SameRow(reservations'[c], Row(c))
              /\ Row(c).operation \in Lifecycle /\ reservations'[c].state # "preparing"
    BY <1>1, <1>16, <2>1, AcknowledgeMaintenanceRow DEF AcknowledgeMaintained
  <2>3. RowOK(c)'  BY <2>1, <2>2 DEF RowOK, Live, Row, SameRow, Gateless, MaintenanceKinds
  <2>4. Grows(c)  BY <2>2 DEF Grows, SameRow
  <2> QED BY <2>2, <2>3, <2>4 DEF RowsMoved, OtherRowsKeep
<1> QED BY <1>2, <1>3, <1>4, <1>5, <1>6, <1>7, <1>8, <1>9, <1>10, <1>11, <1>12, <1>13, <1>14, <1>15, <1>16 DEF Run

LEMMA CatalogRows ==
  ASSUME Control, Named, NEW c \in Calls, RowOK(c), Catalog(c)
  PROVE  RowsMoved(c)
<1>1. TypeOK /\ StoreTypeOK /\ CallOK(c) /\ c \in Reservations  BY DEF Control, TypeOK
<1>2. ASSUME NEW k, NEW t, StartCatalog(c, k, t)  PROVE RowsMoved(c)
  BY <1>1, <1>2, SameRows, RowlessMoved DEF StartCatalog
<1>3. CASE ReserveCatalog(c)
  <2>0. pc[c] = "reserve" /\ kind[c] \in CatalogKinds  BY <1>3 DEF ReserveCatalog
  <2>1. CASE Reserve(c, workspace[c], thread[c], kind[c]) /\ Continue(c, "submit")
    <3>1. /\ OtherRowsKeep(c) /\ ~Live(c)
          /\ reservations'[c] = [workspace |-> workspace[c], thread |-> thread[c], turn |-> Null, state |-> "preparing",
                                   operation |-> kind[c], acknowledged |-> FALSE]
      BY <1>1, <2>1, ReserveRow
    <3>2. pc'[c] = "submit" /\ UNCHANGED <<kind, thread, workspace>>
      BY <1>1, <2>1 DEF Continue, Goto, TypeOK
    <3>3. thread[c] # Null
      BY <1>1, <2>0 DEF CallOK, Equipped, Active, Gateless, CatalogKinds
    <3>4. RowOK(c)'
      BY <2>0, <3>1, <3>2, <3>3 DEF RowOK, Live, Row, CatalogKinds, Operation
    <3>5. Grows(c)  BY <2>0, <3>1, <3>2 DEF Grows
    <3> QED BY <3>1, <3>4, <3>5 DEF RowsMoved, OtherRowsKeep
  <2>2. CASE Finish(c) /\ UNCHANGED storeVars
    BY <1>1, <2>2, SameRows, FinishRow
  <2> QED BY <1>3, <2>1, <2>2 DEF ReserveCatalog
<1>4. CASE SubmitCatalog(c)
  <2>1. /\ pc[c] = "submit" /\ pc'[c] = "await" /\ UNCHANGED <<kind, thread, workspace>>
        /\ kind[c] \in CatalogKinds
    BY <1>1, <1>4 DEF SubmitCatalog, Ask, Goto, Registers, TypeOK
  <2>2. /\ OtherRowsKeep(c) /\ Live(c) /\ reservations'[c] # Null /\ SameRow(reservations'[c], Row(c))
        /\ reservations'[c].state = "submitting" /\ reservations'[c].turn = Row(c).turn
        /\ Row(c).state = "preparing" /\ Row(c).thread # Null
    BY <1>1, <1>4, SubmittingRow DEF SubmitCatalog
  <2>3. RowOK(c)'  BY <2>1, <2>2 DEF RowOK, Live, Row, SameRow
  <2>4. Grows(c)  BY <2>2 DEF Grows, SameRow
  <2> QED BY <2>2, <2>3, <2>4 DEF RowsMoved, OtherRowsKeep
<1>5. CASE CatalogAnswered(c)
  <2>0. pc[c] = "await" /\ kind[c] \in CatalogKinds  BY <1>5 DEF CatalogAnswered, Answered
  <2>1. CASE kind[c] = "delete"
    <3>1. /\ OtherRowsKeep(c) /\ Live(c) /\ reservations'[c] # Null /\ SameRow(reservations'[c], Row(c))
          /\ Row(c).state \in {"submitting", "uncertain"}
          /\ reservations'[c].turn = Row(c).turn /\ reservations'[c].state = Row(c).state
      BY <1>1, <1>5, <2>1, ConfirmDeletionRow DEF CatalogAnswered
    <3>2. pc'[c] = "forget" /\ UNCHANGED <<kind, thread, workspace>>
      BY <1>1, <1>5, <2>1 DEF CatalogAnswered, Continue, Goto, TypeOK
    <3>3. RowOK(c)'  BY <2>0, <2>1, <3>1, <3>2 DEF RowOK, Live, Row, SameRow
    <3>4. Grows(c)  BY <3>1 DEF Grows, SameRow
    <3> QED BY <3>1, <3>3, <3>4 DEF RowsMoved, OtherRowsKeep
  <2>2. CASE kind[c] # "delete"
    <3>1. pc'[c] = "release" /\ UNCHANGED <<kind, thread, workspace, reservations>>
      BY <1>1, <1>5, <2>2 DEF CatalogAnswered, File, Continue, Goto, TypeOK, WriteArchiveState
    <3>2. RowOK(c)'  BY <2>0, <3>1 DEF RowOK, Live, Row
    <3> QED BY <1>1, <3>1, <3>2, SameRows, QuietRows
  <2> QED BY <2>1, <2>2
<1>6. CASE FailCatalog(c)
  BY <1>6, FailMoved DEF FailCatalog
<1>7. CASE Forget(c)
  <2>1. pc[c] = "forget" /\ pc'[c] = "release" /\ UNCHANGED <<kind, thread, workspace, reservations>>
    BY <1>1, <1>7 DEF Forget, Continue, Goto, TypeOK, ForgetThread
  <2>2. RowOK(c)'  BY <2>1 DEF RowOK, Live, Row
  <2> QED BY <1>1, <2>1, <2>2, SameRows, QuietRows
<1>8. CASE ReleaseCatalog(c)
  <2>1. Recovered(c) \in Reservations /\ (kind[c] \in CatalogKinds => Recovered(c) = c)
    BY <1>1, <1>8 DEF ReleaseCatalog, Recovered, CallOK, InPlace, Equipped, TypeOK
  <2>2. SomeRowsGo /\ reservations'[Recovered(c)] = Null
    BY <1>1, <1>8, <2>1, ReleaseRow DEF ReleaseCatalog
  <2>3. CASE kind[c] \in CatalogKinds
    <3>1. RowOK(c)'  BY <2>1, <2>2, <2>3 DEF RowOK, Live, Row
    <3> QED BY <1>1, <2>2, <3>1, QuietRows
  <2>4. CASE kind[c] \notin CatalogKinds
    <3>1. kind[c] \notin RunKinds \cup CatalogKinds
      BY <1>1, <1>8, <2>4 DEF ReleaseCatalog, CallOK, InPlace, Reconciles, RunKinds, MaintenanceKinds
    <3> QED BY <2>2, <3>1, RowlessMoved
  <2> QED BY <2>3, <2>4
<1> QED BY <1>2, <1>3, <1>4, <1>5, <1>6, <1>7, <1>8 DEF Catalog

LEMMA SelectRows ==
  ASSUME Control, NEW c \in Calls, RowOK(c), Select(c)
  PROVE  RowsMoved(c)
<1>1. TypeOK /\ CallOK(c)  BY DEF Control
<1>2. UNCHANGED reservations
  BY DEF Select, StartSelect, SelectIdle, SelectBegin, SelectPrepare, SubmitSwitch, CommitSwitch, FailSwitch,
         storeVars, BeginTransition, SubmittingTransition, CommitTransition, FailTransition, ChangeTransitions
<1>3. pc[c] \in {"idle", "selectIdle", "selectBegin", "selectPrepare", "selectRead", "switch"}
  BY DEF Select, StartSelect, SelectIdle, SelectBegin, SelectPrepare, SubmitSwitch, CommitSwitch, FailSwitch, Answered
<1>4. kind[c] \notin RunKinds \cup CatalogKinds \/ pc[c] = "idle"
  BY <1>1, <1>3 DEF CallOK, InPlace, Reconciles, RunKinds, CatalogKinds, MaintenanceKinds
<1> QED BY <1>1, <1>2, <1>4, SameRows, RowlessMoved

LEMMA RecoverRows ==
  ASSUME Control, NEW c \in Calls, RowOK(c), Recover(c)
  PROVE  RowsMoved(c)
<1>1. TypeOK /\ StoreTypeOK /\ CallOK(c)  BY DEF Control, TypeOK
<1>2. pc[c] \in {"idle", "reconcile", "evidence", "idleRead", "items"}
  BY DEF Recover, StartReconcile, StartReconcileWorkspace, ReconcileTransition, ReconcileCatalog, ArchiveVerified,
         ReconcileExecution, ReleaseIdle, TreatItems
<1>3. kind[c] \notin RunKinds \cup CatalogKinds \/ pc[c] = "idle"
  BY <1>1, <1>2 DEF CallOK, InPlace, Reconciles, RunKinds, CatalogKinds, MaintenanceKinds
<1>4. SomeRowsGo
  <2>1. ASSUME NEW id \in Reservations, Release(id)  PROVE SomeRowsGo
    BY <1>1, <2>1, ReleaseRow
  <2>2. CASE ReconcileCatalog(c)
    BY <1>1, <2>1, <2>2, SameRows DEF ReconcileCatalog, ReservedBy
  <2>3. CASE ReleaseIdle(c)
    <3>1. held[c] \in Reservations \cup {Null}  BY <1>1 DEF TypeOK
    <3> QED BY <1>1, <2>1, <2>3, <3>1, SameRows DEF ReleaseIdle
  <2>4. CASE TreatItems(c)
    BY <1>1, <2>4 DEF TreatItems, ChangeReservations, SomeRowsGo, Row, StoreTypeOK
  <2>5. CASE Recover(c) /\ ~ReconcileCatalog(c) /\ ~ReleaseIdle(c) /\ ~TreatItems(c)
    <3>1. UNCHANGED reservations
      BY <2>5 DEF Recover, StartReconcile, StartReconcileWorkspace, ReconcileTransition, ArchiveVerified,
         ReconcileExecution, storeVars, FailTransition, ChangeTransitions, File, WriteArchiveState
    <3> QED BY <1>1, <3>1, SameRows
  <2> QED BY <2>2, <2>3, <2>4, <2>5
<1> QED BY <1>3, <1>4, RowlessMoved

LEMMA StepRows ==
  ASSUME Control, Named, NEW c \in Calls, RowOK(c), Step(c)
  PROVE  RowsMoved(c)
BY RunRows, CatalogRows, SelectRows, RecoverRows DEF Step

\* A request with an effect has been recorded in the row of its call.
LEMMA EffectRow ==
  ASSUME Control, Pipe, Rows, NEW r \in Sent, r.method \in Effects \cup {"resume"}, Live(r.call)
  PROVE  Row(r.call).state # "preparing" /\ Row(r.call).thread # Null
<1> DEFINE c == r.call
<1>1. c \in Calls /\ CallOK(c) /\ RowOK(c) /\ Matches(r) /\ Open(c)
  BY SentTyped DEF Control, TypeOK, Request, Pipe, OpenCalls, Rows
<1>2. CASE pc[c] = "done"  BY <1>2 DEF Rows, EffectRows
<1>3. CASE pc[c] \in Waiting
  <2>1. r.method = MethodOf(pc[c], kind[c])  BY <1>1, <1>3 DEF Matches
  <2>2. pc[c] \in {"resume", "await", "switch"}
    BY <1>3, <2>1 DEF MethodOf, Effects, StartMethods, Waiting
  <2>3. pc[c] # "switch"
    BY <1>1 DEF RowOK, CallOK, InPlace, Reconciles, RunKinds, CatalogKinds, MaintenanceKinds
  <2> QED BY <1>1, <2>2, <2>3 DEF RowOK, CallOK, InPlace, Gateless, MaintenanceKinds, CatalogKinds
<1> QED BY <1>1, <1>2, <1>3 DEF Open

LEMMA RowKept ==
  ASSUME NEW i \in Calls, RowOK(i), reservations'[i] \in {reservations[i], Null},
         pc'[i] = pc[i] \/ (pc'[i] = "done" /\ pc[i] # "idle"),
         kind'[i] = kind[i], thread'[i] = thread[i], workspace'[i] = workspace[i]
  PROVE  RowOK(i)'
BY DEF RowOK, Live, Row

LEMMA StepRowsHold ==
  ASSUME Control, Pipe, Rows, NEW c \in Calls, Step(c)
  PROVE  Rows'
<1>1. RowsMoved(c) /\ OthersKeep(c) /\ Shape(c)
  BY StepRows, StepMoved, StepShape DEF Pipe, Moved, Rows
<1>2. \A i \in Calls : RowOK(i)'
  BY <1>1, RowKept DEF Rows, RowsMoved, OthersKeep
<1>3. Sent \subseteq Request /\ requests \in Seq(Request)
  BY SentTyped DEF Control, TypeOK, SourceTypeOK
<1>4. \A r \in Sent' : r \in Sent \/ (r.call = c /\ pc'[c] # "done")
  <2>1. CASE UNCHANGED sourceVars  BY <2>1, SameElements
  <2>2. CASE Sends(c)
    BY <1>3, <2>2, ElementsAppend DEF Sends, Sent, Waiting
  <2> QED BY <1>1, <2>1, <2>2 DEF Shape, Quits
<1>5. ASSUME NEW r \in Sent', pc'[r.call] = "done", Live(r.call)', r.method \in Effects \cup {"resume"}
      PROVE  Row(r.call)'.state # "preparing" /\ Row(r.call)'.thread # Null
  <2>1. r \in Sent /\ r.call \in Calls  BY <1>3, <1>4, <1>5 DEF Request
  <2>2. Live(r.call) => Row(r.call).state # "preparing" /\ Row(r.call).thread # Null
    BY <1>5, <2>1, EffectRow
  <2>3. CASE r.call = c
    <3>1. ~(pc[c] = "reserve")
      BY <2>1, <2>3 DEF Pipe, OpenCalls, Open, Waiting
    <3> QED BY <1>1, <1>5, <2>2, <2>3, <3>1 DEF RowsMoved, Grows, Live, Row
  <2>4. CASE r.call # c
    BY <1>1, <1>5, <2>1, <2>2, <2>4 DEF RowsMoved, Live, Row
  <2> QED BY <2>3, <2>4
<1> QED BY <1>2, <1>5 DEF Rows, EffectRows

\* A notification joins the row of a request that was dispatched.
LEMMA ObserveRow ==
  ASSUME StoreTypeOK, NEW t \in Threads, NEW u \in Turns, NEW b \in BOOLEAN, ObserveTurn(t, u, b)
  PROVE  /\ UNCHANGED <<association, archivedRow, transitions>>
         /\ \/ UNCHANGED storeVars
            \/ \E id \in ReservedBy(t) :
                 /\ OtherRowsKeep(id)
                 /\ Row(id).turn = u \/ (~b /\ Correlates(Row(id)))
                 /\ \/ reservations'[id] = Null /\ b /\ Row(id).acknowledged
                    \/ /\ reservations'[id] # Null /\ SameRow(reservations'[id], Row(id))
                       /\ reservations'[id].turn = u /\ reservations'[id].acknowledged = Row(id).acknowledged
                       /\ b => reservations'[id].state = "completed" /\ ~Row(id).acknowledged
                       /\ ~b => reservations'[id].state = IF Correlates(Row(id)) THEN "running" ELSE Row(id).state
<1>1. CASE UNCHANGED storeVars  BY <1>1 DEF storeVars
<1>2. CASE ~UNCHANGED storeVars
  <2>1. PICK id \in ReservedBy(t) :
          LET row == Observed(Row(id), u, b)
          IN  /\ row.turn = u
              /\ CanCapture(row)
              /\ reservations' = [reservations EXCEPT ![id] = IF b /\ row.acknowledged THEN Null ELSE row]
              /\ CaptureContext(row)
              /\ UNCHANGED <<association, archivedRow, transitions>>
    BY <1>2 DEF ObserveTurn
  <2>2. id \in Reservations /\ Row(id) \in Reservation  BY LiveRow DEF ReservedBy
  <2> DEFINE row == Observed(Row(id), u, b)
  <2>3. reservations'[id] = (IF b /\ row.acknowledged THEN Null ELSE row) /\ OtherRowsKeep(id) /\ row.turn = u
    BY <2>1, <2>2 DEF StoreTypeOK, OtherRowsKeep
  <2>4. row \in Reservation /\ SameRow(row, Row(id)) /\ row.acknowledged = Row(id).acknowledged
    BY <2>2 DEF Observed, Reservation, ReservationStates, SameRow
  <2>5. row # Null  BY <2>4
  <2>6. /\ Row(id).turn = u \/ (~b /\ Correlates(Row(id)))
        /\ b => row.state = "completed"
        /\ ~b => row.state = IF Correlates(Row(id)) THEN "running" ELSE Row(id).state
    BY <2>2, <2>3 DEF Observed, Reservation
  <2> QED BY <2>1, <2>3, <2>4, <2>5, <2>6
<1> QED BY <1>1, <1>2

\* What a notification does to the rows.
RowsNoticed ==
  \/ UNCHANGED reservations
  \/ \E id \in Calls :
       /\ OtherRowsKeep(id) /\ Live(id) /\ Row(id).thread # Null /\ Row(id).operation \in Lifecycle
       /\ Row(id).state # "preparing"
       /\ \/ reservations'[id] = Null
          \/ /\ reservations'[id] # Null /\ SameRow(reservations'[id], Row(id))
             /\ reservations'[id].state # "preparing"

LEMMA NoticeRows ==
  ASSUME Control, Rows, NEW e \in Event, e.type # "answer", Notice(e)
  PROVE  RowsNoticed
<1>1. CASE e.type = "deleted"
  BY <1>1 DEF Notice, ForgetThread, storeVars, RowsNoticed
<1>2. CASE e.type # "deleted"
  <2>1. e.thread \in Threads /\ e.turn \in Turns /\ (e.type = "completed") \in BOOLEAN
    BY <1>2 DEF Event, Answer, TurnNotification, DeletedNotification
  <2>2. ObserveTurn(e.thread, e.turn, e.type = "completed")  BY <1>2 DEF Notice
  <2>3. \/ UNCHANGED storeVars
        \/ \E id \in ReservedBy(e.thread) :
             /\ OtherRowsKeep(id)
             /\ Row(id).turn = e.turn \/ Correlates(Row(id))
             /\ \/ reservations'[id] = Null
                \/ /\ reservations'[id] # Null /\ SameRow(reservations'[id], Row(id))
                   /\ reservations'[id].state \in {"completed", "running", Row(id).state}
    <3> DEFINE b == e.type = "completed"
    <3> HIDE DEF b
    <3>1. b \in BOOLEAN /\ ObserveTurn(e.thread, e.turn, b) /\ StoreTypeOK
      BY <2>1, <2>2 DEF b, Control, TypeOK
    <3>2. CASE ~UNCHANGED storeVars
      <4>1. PICK id \in ReservedBy(e.thread) :
                 /\ OtherRowsKeep(id)
                 /\ Row(id).turn = e.turn \/ (~b /\ Correlates(Row(id)))
                 /\ \/ reservations'[id] = Null /\ b /\ Row(id).acknowledged
                    \/ /\ reservations'[id] # Null /\ SameRow(reservations'[id], Row(id))
                       /\ reservations'[id].turn = e.turn /\ reservations'[id].acknowledged = Row(id).acknowledged
                       /\ b => reservations'[id].state = "completed" /\ ~Row(id).acknowledged
                       /\ ~b => reservations'[id].state = IF Correlates(Row(id)) THEN "running" ELSE Row(id).state
        BY <2>1, <3>1, <3>2, ObserveRow
      <4>2. \/ reservations'[id] = Null
            \/ /\ reservations'[id] # Null /\ SameRow(reservations'[id], Row(id))
               /\ reservations'[id].state \in {"completed", "running", Row(id).state}
        BY <3>1, <4>1
      <4> QED BY <4>1, <4>2
    <3> QED BY <3>2
  <2>4. CASE UNCHANGED storeVars  BY <2>4 DEF storeVars, RowsNoticed
  <2>5. CASE ~UNCHANGED storeVars
    <3>1. PICK id \in ReservedBy(e.thread) :
             /\ OtherRowsKeep(id)
             /\ Row(id).turn = e.turn \/ Correlates(Row(id))
             /\ \/ reservations'[id] = Null
                \/ /\ reservations'[id] # Null /\ SameRow(reservations'[id], Row(id))
                   /\ reservations'[id].state \in {"completed", "running", Row(id).state}
      BY <2>3, <2>5
    <3>2. id \in Calls /\ Live(id) /\ Row(id).thread = e.thread /\ RowOK(id)
      BY DEF ReservedBy, Rows
    <3>3. Row(id).operation \in Lifecycle /\ Row(id).state # "preparing"
      BY <2>1, <3>1, <3>2 DEF RowOK, Correlates
    <3> QED BY <2>1, <3>1, <3>2, <3>3 DEF RowsNoticed
  <2> QED BY <2>4, <2>5
<1> QED BY <1>1, <1>2

LEMMA NoticedRows ==
  ASSUME Control, Rows, RowsNoticed, UNCHANGED <<pc, kind, thread, workspace, requests>>
  PROVE  Rows'
<1>1. Sent' = Sent /\ \A r \in Sent : r.call \in Calls
  BY SentTyped DEF Sent, Elements, Control, TypeOK, Request
<1>2. CASE UNCHANGED reservations
  BY <1>1, <1>2 DEF Rows, RowOK, EffectRows, Live, Row
<1>3. CASE ~UNCHANGED reservations
  <2>1. PICK id \in Calls :
       /\ OtherRowsKeep(id) /\ Live(id) /\ Row(id).thread # Null /\ Row(id).operation \in Lifecycle
       /\ Row(id).state # "preparing"
       /\ \/ reservations'[id] = Null
          \/ /\ reservations'[id] # Null /\ SameRow(reservations'[id], Row(id))
             /\ reservations'[id].state # "preparing"
    BY <1>3 DEF RowsNoticed
  <2>2. RowOK(id)'
    BY <2>1 DEF Rows, RowOK, SameRow, Live, Row
  <2>3. \A i \in Calls \ {id} : RowOK(i)'
    BY <2>1 DEF Rows, RowOK, OtherRowsKeep, Live, Row
  <2>4. EffectRows'
    BY <1>1, <2>1 DEF Rows, EffectRows, SameRow, OtherRowsKeep, Live, Row
  <2> QED BY <2>2, <2>3, <2>4 DEF Rows
<1> QED BY <1>2, <1>3

LEMMA DeliverRows ==
  ASSUME Control, Pipe, Rows, Deliver
  PROVE  Rows'
<1>1. Head(events) \in Event
  BY FirstEvent DEF Deliver, Control, TypeOK
<1>2. RowsNoticed
  BY <1>1, NoticeRows DEF Deliver, storeVars, RowsNoticed
<1> QED BY <1>2, NoticedRows DEF Deliver

LEMMA SourceSent ==
  ASSUME SourceTypeOK, Pipe, Source
  PROVE  Sent' \subseteq Sent
<1>1. CASE Serve  BY <1>1, ServeSent DEF Pipe, OneEach
<1>2. CASE ~Serve
  <2>1. requests' = requests  BY <1>2 DEF Source, CompleteTurn, StartForeignTurn
  <2> QED BY <2>1 DEF Sent, Elements
<1> QED BY <1>1, <1>2

LEMMA RowsStep ==
  ASSUME Control, Pipe, Rows, [Next]_vars
  PROVE  Rows'
<1>0. /\ \A i \in Calls : RowOK(i)
      /\ \A r \in Sent : r.call \in Calls
      /\ SourceTypeOK
  BY SentTyped DEF Rows, Control, TypeOK, Request
<1>1. CASE UNCHANGED vars
  BY <1>1, SameElements DEF vars, storeVars, callVars, Rows, RowOK, EffectRows, Live, Row
<1>2. ASSUME NEW c \in Calls, Timeout(c)  PROVE Rows'
  BY <1>2, SameElements DEF Timeout, storeVars, Rows, RowOK, EffectRows, Live, Row
<1>3. CASE Source
  BY <1>0, <1>3, SourceSent DEF Source, storeVars, callVars, Rows, RowOK, EffectRows, Live, Row
<1>4. CASE SourceExit
  <2>1. Sent' = {} /\ UNCHANGED <<reservations, pc, kind, thread, workspace>>
    BY <1>4, ExitPipe DEF SourceExit, storeVars
  <2> QED BY <2>1 DEF Rows, RowOK, EffectRows, Live, Row
<1>5. CASE Crash
  <2>1. /\ Sent' = {} /\ UNCHANGED <<reservations, kind, thread, workspace>>
        /\ \A i \in Calls : pc'[i] = IF pc[i] = "idle" THEN "idle" ELSE "done"
    BY <1>5, ExitPipe DEF Crash, storeVars
  <2>2. \A i \in Calls : RowOK(i)'  BY <1>0, <2>1, RowKept
  <2> QED BY <2>1, <2>2 DEF Rows, EffectRows
<1>6. CASE Lists
  <2>1. UNCHANGED <<reservations, callVars, sourceVars>>
    BY <1>6 DEF Lists, ListThread, IndexListed, RemoveMissing, WriteIndex, ForgetThread, storeVars
  <2> QED BY <2>1, SameElements DEF callVars, Rows, RowOK, EffectRows, Live, Row
<1> QED BY <1>1, <1>2, <1>3, <1>4, <1>5, <1>6, StepRowsHold, DeliverRows DEF Next

LEMMA RowsInit == Init => Rows
<1> SUFFICES ASSUME Init PROVE Rows  OBVIOUS
<1>1. \A i \in Calls : ~Live(i)  BY DEF Init, StoreInit, Live, Row
<1>2. requests = <<>>  BY DEF Init, SourceInit
<1>3. Sent = {}  BY <1>2 DEF Sent, Elements
<1> QED BY <1>1, <1>3 DEF Rows, RowOK, EffectRows

Typed == Control /\ Pipe /\ Rows

LEMMA TypedInit == Init => Typed
BY ControlInit, PipeInit, RowsInit DEF Typed

LEMMA TypedStep == ASSUME Typed, [Next]_vars PROVE Typed'
BY ControlStep, PipeStep, RowsStep DEF Typed

\* A reservation always belongs to the call that made it, has its workspace and
\* its operation, and is dispatched before any request with an effect goes out.
THEOREM RowsHold == Spec => []Typed
BY TypedInit, TypedStep, PTL DEF Spec

----------------------------------------------------------------------------
(* What serving the oldest request does, seen by the calls. *)

\* Nothing changes; a positive answer is true when it is given.
Looked(a) ==
  LET t == Oldest.thread IN
  /\ UNCHANGED <<known, running, started, sourceArchived, sourceCwd, reported>>
  /\ a.thread = Null /\ Heard' = Heard \cup {a}
  /\ a.result = "ok" => Oldest.method \in {"evidence", "rollback", "resume", "switch"}
  /\ a.result = "idle" => Oldest.method = "read" /\ Idle(t)
  /\ a.result = "ok" => Idle(t)
  /\ a.result = "ok" /\ Oldest.method \in {"evidence", "resume", "switch"} => sourceCwd[t] = Oldest.cwd
  /\ a.result = "ok" /\ Oldest.method = "evidence" => sourceArchived[t] = Oldest.archived
  /\ a.result = "ok" /\ Oldest.method = "switch" => reported[t] = Oldest.contract

Created(a) ==
  /\ Oldest.method = "newThread" /\ a.result = "ok"
  /\ a.thread \in Threads \ known /\ sourceCwd[a.thread] = Null
  /\ known' = known \cup {a.thread}
  /\ sourceCwd' = [sourceCwd EXCEPT ![a.thread] = Oldest.cwd]
  /\ Heard' = Heard \cup {a}
  /\ UNCHANGED <<running, started, sourceArchived, reported>>

Begun(a) ==
  LET t == Oldest.thread
      n == [type |-> "started", thread |-> t, turn |-> Oldest.call]
  IN
  /\ Oldest.method \in StartMethods /\ Idle(t) /\ a.result = "ok" /\ a.thread = Null
  /\ running' = [running EXCEPT ![t] = Oldest.call]
  /\ started' = started \cup {Oldest.call}
  /\ sourceCwd' = [sourceCwd EXCEPT ![t] = IF Oldest.method = "turn" THEN Oldest.cwd ELSE @]
  /\ Heard' = Heard \cup {a, n}
  /\ UNCHANGED <<known, sourceArchived, reported>>

\* A resume loads the thread where it was or where it was asked for, and says so.
Resumed(a) ==
  LET t == Oldest.thread IN
  /\ Oldest.method \in {"resume", "switch"} /\ Idle(t) /\ a.result \in {"ok", "error"} /\ a.thread = Null
  /\ sourceCwd' = [sourceCwd EXCEPT ![t] = sourceCwd'[t]] /\ sourceCwd'[t] \in {sourceCwd[t], Oldest.cwd}
  /\ reported' = [reported EXCEPT ![t] = reported'[t]] /\ reported'[t] \in {reported[t], Oldest.contract}
  /\ Oldest.method = "resume" => reported'[t] = reported[t]
  /\ a.result = "ok" => sourceCwd'[t] = Oldest.cwd /\ (Oldest.method = "switch" => reported'[t] = Oldest.contract)
  /\ Heard' = Heard \cup {a}
  /\ UNCHANGED <<known, running, started, sourceArchived>>

Filed(a) ==
  /\ Oldest.method \in {"archive", "unarchive"} /\ Oldest.thread \in known /\ a.result = "ok" /\ a.thread = Null
  /\ sourceArchived' = [sourceArchived EXCEPT ![Oldest.thread] = Oldest.method = "archive"]
  /\ Heard' = Heard \cup {a}
  /\ UNCHANGED <<known, running, started, sourceCwd, reported>>

Deleted(a) ==
  /\ Oldest.method = "delete" /\ Oldest.thread \in known /\ a.result = "ok" /\ a.thread = Null
  /\ known' = known \ {Oldest.thread}
  /\ running' = [running EXCEPT ![Oldest.thread] = Null]
  /\ Heard' = Heard \cup {a, [type |-> "deleted", thread |-> Oldest.thread]}
  /\ UNCHANGED <<started, sourceArchived, sourceCwd, reported>>

Outcome(a) == Looked(a) \/ Created(a) \/ Begun(a) \/ Resumed(a) \/ Filed(a) \/ Deleted(a)

\* The oldest request is answered, and gone.
Served ==
  /\ Oldest \in Sent /\ Oldest \in Request
  /\ Sent = Sent' \cup {Oldest} /\ \A r \in Sent' : r.call # Oldest.call
  /\ \E a \in Answer : a.call = Oldest.call /\ Answers' = Answers \cup {a} /\ Outcome(a)

LEMMA ServeOutcome ==
  ASSUME SourceTypeOK, Pipe, Serve
  PROVE  Served
<1>1. /\ Sent = Sent' \cup {Oldest} /\ \A r \in Sent' : r.call # Oldest.call
      /\ Oldest \in Sent /\ Oldest \in Request
  BY ServeSent, SentTyped DEF Pipe, OneEach
<1>2. \A e \in Answers : e.call # Oldest.call
  BY <1>1 DEF Pipe, OneEach
<1>3. \A result \in Results, t \in Threads \cup {Null} :
        /\ Reply(result, t) \in Answer /\ Reply(result, t).call = Oldest.call
        /\ Reply(result, t).result = result /\ Reply(result, t).thread = t
  BY ReplyType DEF Serve, Reply
<1>4. {"ok", "idle", "active", "error"} = Results  BY DEF Results
<1>5. ASSUME NEW a \in Answer, a.call = Oldest.call, Emit(<<a>>)
      PROVE  Answers' = Answers \cup {a} /\ Heard' = Heard \cup {a}
  BY <1>2, <1>5, EmitsElements DEF Pipe, OneEach, Emits
<1>6. ASSUME NEW a \in Answer, a.call = Oldest.call, NEW n \in Event, n.type # "answer",
             Emit(<<a, n>>) \/ Emit(<<n, a>>)
      PROVE  Answers' = Answers \cup {a} /\ Heard' = Heard \cup {a, n}
  <2>1. Emits(a)  BY <1>6 DEF Emits
  <2>2. \A e \in Answers : e.call # a.call  BY <1>2, <1>6
  <2>3. OneAnswerEach(events)  BY DEF Pipe, OneEach
  <2> HIDE DEF Answers, Heard, Emits, Emit
  <2> QED BY ONLY <1>6, <2>1, <2>2, <2>3, SourceTypeOK, EmitsElements
<1>7. ASSUME NEW a \in Answer, a.call = Oldest.call, Answers' = Answers \cup {a}, Outcome(a)
      PROVE  Served
  BY <1>1, <1>7 DEF Served
<1>8. CASE ServeRead
  <2>1. PICK result \in Results \ {"ok"} : Emit(<<Reply(result, Null)>>) /\ (result = "idle" => Idle(Oldest.thread))
    BY <1>4, <1>8 DEF ServeRead
  <2> DEFINE a == Reply(result, Null)
  <2>2. a \in Answer /\ a.call = Oldest.call /\ a.result = result /\ a.thread = Null  BY <1>3
  <2>3. Answers' = Answers \cup {a} /\ Heard' = Heard \cup {a}  BY <1>5, <2>1, <2>2
  <2>4. Looked(a)  BY <1>8, <2>1, <2>2, <2>3 DEF ServeRead, Looked
  <2> QED BY <1>7, <2>2, <2>3, <2>4 DEF Outcome
<1>9. CASE ServeEvidence
  <2> DEFINE t == Oldest.thread
             isThere == Idle(t) /\ sourceArchived[t] = Oldest.archived /\ sourceCwd[t] = Oldest.cwd
             a == Reply(IF isThere THEN "ok" ELSE "error", Null)
  <2>2. a \in Answer /\ a.call = Oldest.call /\ (a.result = IF isThere THEN "ok" ELSE "error") /\ a.thread = Null
    BY <1>3, <1>4
  <2>3. Answers' = Answers \cup {a} /\ Heard' = Heard \cup {a}  BY <1>5, <1>9, <2>2 DEF ServeEvidence
  <2>4. Looked(a)  BY <1>9, <2>2, <2>3 DEF ServeEvidence, Looked
  <2> QED BY <1>7, <2>2, <2>3, <2>4 DEF Outcome
<1>10. CASE ServeNewThread
  <2>1. PICK t \in Threads \ known :
          /\ sourceCwd[t] = Null
          /\ known' = known \cup {t}
          /\ sourceCwd' = [sourceCwd EXCEPT ![t] = Oldest.cwd]
          /\ Emit(<<Reply("ok", t)>>)
    BY <1>10 DEF ServeNewThread
  <2> DEFINE a == Reply("ok", t)
  <2>2. a \in Answer /\ a.call = Oldest.call /\ a.result = "ok" /\ a.thread = t  BY <1>3, <1>4
  <2>3. Answers' = Answers \cup {a} /\ Heard' = Heard \cup {a}  BY <1>5, <2>1, <2>2
  <2>4. Created(a)  BY <1>10, <2>1, <2>2, <2>3 DEF ServeNewThread, Created
  <2> QED BY <1>7, <2>2, <2>3, <2>4 DEF Outcome
<1> DEFINE ok == Reply("ok", Null)
<1>11. ok \in Answer /\ ok.call = Oldest.call /\ ok.result = "ok" /\ ok.thread = Null  BY <1>3, <1>4
<1>12. CASE ServeStart
  <2>1. Oldest.thread \in Threads /\ Oldest.call \in Calls
    BY <1>1, <1>12 DEF ServeStart, Idle, SourceTypeOK, Request
  <2> DEFINE n == [type |-> "started", thread |-> Oldest.thread, turn |-> Oldest.call]
  <2>2. n \in Event /\ n.type # "answer"  BY <2>1, StartedOK
  <2>3. Emit(<<ok, n>>)  BY <1>12 DEF ServeStart
  <2> HIDE DEF n, ok
  <2>4. Answers' = Answers \cup {ok} /\ Heard' = Heard \cup {ok, n}  BY <1>6, <1>11, <2>2, <2>3
  <2>5. Begun(ok)  BY <1>11, <1>12, <2>4 DEF ServeStart, Begun, n
  <2> QED BY <1>7, <1>11, <2>4, <2>5 DEF Outcome
<1>13. CASE ServeRollback
  <2>1. Emit(<<ok>>)  BY <1>13 DEF ServeRollback
  <2> HIDE DEF ok
  <2>2. Answers' = Answers \cup {ok} /\ Heard' = Heard \cup {ok}  BY <1>5, <1>11, <2>1
  <2>3. Looked(ok)  BY <1>11, <1>13, <2>2 DEF ServeRollback, Looked
  <2> QED BY <1>7, <1>11, <2>2, <2>3 DEF Outcome
<1>14. CASE ServeResume
  <2> DEFINE t == Oldest.thread
  <2>1. t \in Threads  BY <1>14 DEF ServeResume, Idle, SourceTypeOK
  <2>2. PICK cwd \in {sourceCwd[t], Oldest.cwd},
             k \in {reported[t]} \cup (IF Oldest.method = "switch" THEN {Oldest.contract} ELSE {}) :
          /\ sourceCwd' = [sourceCwd EXCEPT ![t] = cwd]
          /\ reported' = [reported EXCEPT ![t] = k]
          /\ Emit(<<Reply(IF cwd = Oldest.cwd /\ (Oldest.method = "switch" => k = Oldest.contract)
                          THEN "ok" ELSE "error", Null)>>)
    BY <1>14 DEF ServeResume
  <2>3. PICK isThere \in BOOLEAN : isThere <=> (cwd = Oldest.cwd /\ (Oldest.method = "switch" => k = Oldest.contract))
    OBVIOUS
  <2> DEFINE a == Reply(IF isThere THEN "ok" ELSE "error", Null)
  <2>4. a \in Answer /\ a.call = Oldest.call /\ (a.result = IF isThere THEN "ok" ELSE "error") /\ a.thread = Null
    BY <1>3, <1>4
  <2>5. Emit(<<a>>)  BY <2>2, <2>3
  <2>6. Answers' = Answers \cup {a} /\ Heard' = Heard \cup {a}  BY <1>5, <2>4, <2>5
  <2> HIDE DEF a
  <2>7. sourceCwd'[t] = cwd /\ reported'[t] = k  BY <2>1, <2>2 DEF SourceTypeOK
  <2>8. Resumed(a)  BY <1>14, <2>2, <2>3, <2>4, <2>6, <2>7 DEF ServeResume, Resumed
  <2> QED BY <1>7, <2>4, <2>6, <2>8 DEF Outcome
<1>15. CASE ServeArchive
  <2>1. Emit(<<ok>>)  BY <1>15 DEF ServeArchive
  <2> HIDE DEF ok
  <2>2. Answers' = Answers \cup {ok} /\ Heard' = Heard \cup {ok}  BY <1>5, <1>11, <2>1
  <2>3. Filed(ok)  BY <1>11, <1>15, <2>2 DEF ServeArchive, Filed
  <2> QED BY <1>7, <1>11, <2>2, <2>3 DEF Outcome
<1>16. CASE ServeDelete
  <2> DEFINE n == [type |-> "deleted", thread |-> Oldest.thread]
  <2>1. n \in Event /\ n.type # "answer"
    BY <1>16 DEF ServeDelete, SourceTypeOK, Event, DeletedNotification
  <2>2. Emit(<<ok, n>>) \/ Emit(<<n, ok>>)  BY <1>16 DEF ServeDelete
  <2> HIDE DEF n, ok
  <2>3. Answers' = Answers \cup {ok} /\ Heard' = Heard \cup {ok, n}  BY <1>6, <1>11, <2>1, <2>2
  <2>4. Deleted(ok)  BY <1>11, <1>16, <2>3 DEF ServeDelete, Deleted, n
  <2> QED BY <1>7, <1>11, <2>3, <2>4 DEF Outcome
<1>17. CASE Refuse
  <2> DEFINE a == Reply("error", Null)
  <2>1. a \in Answer /\ a.call = Oldest.call /\ a.result = "error" /\ a.thread = Null  BY <1>3, <1>4
  <2>2. Emit(<<a>>)  BY <1>17 DEF Refuse
  <2>3. Answers' = Answers \cup {a} /\ Heard' = Heard \cup {a}  BY <1>5, <2>1, <2>2
  <2> HIDE DEF a
  <2>4. Looked(a)  BY <1>17, <2>1, <2>3 DEF Refuse, Looked
  <2> QED BY <1>7, <2>1, <2>3, <2>4 DEF Outcome
<1> QED BY <1>8, <1>9, <1>10, <1>12, <1>13, <1>14, <1>15, <1>16, <1>17 DEF Serve

----------------------------------------------------------------------------
(* What a step of a call does to the places of threads. *)

LEMMA RunKind ==
  ASSUME Control, NEW c \in Calls, Run(c)
  PROVE  kind'[c] \in RunKinds
<1>1. TypeOK /\ CallOK(c)  BY DEF Control
<1>2. ASSUME NEW k \in Kinds \cap RunKinds, NEW t, NEW w, StartRun(c, k, t, w)  PROVE kind'[c] \in RunKinds
  BY <1>1, <1>2 DEF StartRun, TypeOK
<1>3. CASE ReserveRun(c) \/ ReserveRefused(c) \/ RecoverRollback(c)
  BY <1>1, <1>3, FinishEffect DEF ReserveRun, ReserveRefused, RecoverRollback, Reserved, Continue, Registers, CallOK, InPlace, RunKinds
<1>4. CASE FailRun(c) \/ ConfirmThread(c) \/ FinishTurn(c) \/ AcknowledgeMaintained(c)
  BY <1>1, <1>4, FinishEffect DEF FailRun, ConfirmThread, FinishTurn, AcknowledgeMaintained, CallOK, InPlace, RunKinds
<1>5. CASE CheckIdle(c) \/ CreateThread(c) \/ IndexThread(c) \/ Bind(c)
  BY <1>1, <1>5 DEF CheckIdle, CreateThread, IndexThread, Bind, Answered, Continue, Registers, CallOK, InPlace, RunKinds, Gateless
<1>6. CASE Submit(c) \/ Maintain(c) \/ AcknowledgeTurn(c)
  BY <1>1, <1>6 DEF Submit, Maintain, AcknowledgeTurn, Answered, Continue, Registers, CallOK, InPlace, RunKinds
<1> QED BY <1>2, <1>3, <1>4, <1>5, <1>6 DEF Run

LEMMA SelectKind ==
  ASSUME Control, NEW c \in Calls, Select(c)
  PROVE  kind'[c] \notin RunKinds \cup CatalogKinds
<1>1. TypeOK /\ CallOK(c)  BY DEF Control
<1>2. CASE \E t \in Threads, w \in Workspaces : StartSelect(c, t, w)
  <2>1. kind'[c] = "select"  BY <1>1, <1>2 DEF StartSelect, TypeOK
  <2> QED BY <2>1 DEF RunKinds, CatalogKinds, MaintenanceKinds
<1>3. CASE Select(c) /\ ~(\E t \in Threads, w \in Workspaces : StartSelect(c, t, w))
  <2>1. pc[c] \in {"selectIdle", "selectBegin", "selectPrepare", "selectRead", "switch"}
    BY <1>3 DEF Select, SelectIdle, SelectBegin, SelectPrepare, SubmitSwitch, CommitSwitch, FailSwitch, Answered
  <2>2. kind'[c] = kind[c]
    BY <1>1, <1>3, FinishEffect, ReturnEffect
    DEF Select, SelectIdle, SelectBegin, SelectPrepare, SubmitSwitch, CommitSwitch, FailSwitch, Continue, Return, Registers
  <2> QED BY <1>1, <2>1, <2>2 DEF CallOK, InPlace, Reconciles, RunKinds, CatalogKinds, MaintenanceKinds
<1> QED BY <1>2, <1>3

LEMMA RecoverKind ==
  ASSUME Control, NEW c \in Calls, Recover(c)
  PROVE  kind'[c] \notin RunKinds \cup CatalogKinds
<1>1. TypeOK /\ CallOK(c)  BY DEF Control
<1> DEFINE starts == (\E t \in Threads : StartReconcile(c, t)) \/ (\E w \in Workspaces : StartReconcileWorkspace(c, w))
<1>2. CASE starts
  <2>1. kind'[c] \in Reconciles  BY <1>1, <1>2 DEF StartReconcile, StartReconcileWorkspace, TypeOK, Reconciles
  <2> QED BY <2>1 DEF RunKinds, CatalogKinds, MaintenanceKinds, Reconciles
<1>3. CASE Recover(c) /\ ~starts
  <2>1. pc[c] \in {"reconcile", "evidence", "idleRead", "items"}
    BY <1>3 DEF Recover, ReconcileTransition, ReconcileCatalog, ArchiveVerified, ReconcileExecution, ReleaseIdle, TreatItems
  <2>2. kind'[c] = kind[c]
    BY <1>1, <1>3, FinishEffect, ReturnEffect
    DEF Recover, ReconcileTransition, ReconcileCatalog, ArchiveVerified, ReconcileExecution, ReleaseIdle, TreatItems,
        Continue, Return
  <2> QED BY <1>1, <2>1, <2>2 DEF CallOK, InPlace, Reconciles, RunKinds, CatalogKinds, MaintenanceKinds
<1> QED BY <1>2, <1>3

\* The thread t is forgotten, indexed, bound or moved.
Forgets(c, t) == pc[c] = "forget" /\ t = thread[c] /\ association'[t] = Null /\ transitions[t] = Null
Indexes(c, t) ==
  /\ pc[c] = "newThread" /\ reply[c] # Null /\ reply[c].result = "ok" /\ t = reply[c].thread
  /\ association'[t] = IF association[t] = Null THEN workspace[c] ELSE association[t]
  /\ thread'[c] = t /\ pc'[c] = IF kind[c] = "create" THEN "confirm" ELSE "bind"
Binds(c, t) ==
  /\ pc[c] = "bind" /\ t = thread[c] /\ association[t] # Null
  /\ association'[t] = Row(c).workspace /\ CanBind(c, t)
Commits(c, t) ==
  /\ pc[c] = "switch" /\ reply[c] # Null /\ reply[c].result = "ok" /\ t = thread[c]
  /\ CanCommit(t) /\ association'[t] = transitions[t].to /\ transitions'[t] = Null

LEMMA StepPlaces ==
  ASSUME Control, NEW c \in Calls, Step(c), NEW t \in Threads, association'[t] # association[t]
  PROVE  Forgets(c, t) \/ Indexes(c, t) \/ Binds(c, t) \/ Commits(c, t)
<1>1. TypeOK /\ StoreTypeOK /\ CallOK(c)  BY DEF Control, TypeOK
<1>2. CASE Run(c)
  <2>1. CASE IndexThread(c)
    BY <1>1, <2>1 DEF IndexThread, Answered, WriteIndex, Goto, Indexes, TypeOK, StoreTypeOK
  <2>2. CASE Bind(c)
    BY <1>1, <2>2 DEF Bind, BindThread, Binds, CanBind, StoreTypeOK
  <2>3. CASE Run(c) /\ ~IndexThread(c) /\ ~Bind(c)
    <3>1. UNCHANGED association
      BY <2>3 DEF Run, StartRun, ReserveRun, ReserveRefused, RecoverRollback, CheckIdle, FailRun, CreateThread,
           ConfirmThread, Submit, Maintain, AcknowledgeTurn, FinishTurn, AcknowledgeMaintained, storeVars,
           Reserve, Release, Fail, SubmittingCreation, ConfirmCreation, Submitting, Acknowledge, AcknowledgeMaintenance,
           ChangeReservations
    <3> QED BY <3>1
  <2> QED BY <1>2, <2>1, <2>2, <2>3
<1>3. CASE Catalog(c)
  <2>1. CASE Forget(c)
    BY <1>1, <2>1 DEF Forget, ForgetThread, Forgets, StoreTypeOK
  <2>2. CASE Catalog(c) /\ ~Forget(c)
    <3>1. UNCHANGED association
      BY <2>2 DEF Catalog, StartCatalog, ReserveCatalog, SubmitCatalog, CatalogAnswered, FailCatalog, ReleaseCatalog,
           storeVars, Reserve, Submitting, ConfirmDeletion, File, WriteArchiveState, Fail, Release, ChangeReservations
    <3> QED BY <3>1
  <2> QED BY <1>3, <2>1, <2>2
<1>4. CASE Select(c)
  <2>1. CASE CommitSwitch(c)
    <3>1. thread[c] \in Threads  BY <2>1, HasThread DEF CommitSwitch, Answered
    <3> QED BY <1>1, <2>1, <3>1 DEF CommitSwitch, CommitTransition, Answered, Commits, StoreTypeOK
  <2>2. CASE Select(c) /\ ~CommitSwitch(c)
    <3>1. UNCHANGED association
      BY <2>2 DEF Select, StartSelect, SelectIdle, SelectBegin, SelectPrepare, SubmitSwitch, FailSwitch,
           storeVars, BeginTransition, SubmittingTransition, FailTransition, ChangeTransitions
    <3> QED BY <3>1
  <2> QED BY <1>4, <2>1, <2>2
<1>5. CASE Recover(c)
  <2>1. UNCHANGED association
    BY <1>5 DEF Recover, StartReconcile, StartReconcileWorkspace, ReconcileTransition, ReconcileCatalog, ArchiveVerified,
         ReconcileExecution, ReleaseIdle, TreatItems, storeVars, FailTransition, ChangeTransitions, File, WriteArchiveState,
         Release, ChangeReservations
  <2> QED BY <2>1
<1> QED BY <1>2, <1>3, <1>4, <1>5 DEF Step

\* A call that begins to wait has no answer yet.
Waits(c) == pc'[c] \in Waiting => reply'[c] = Null

LEMMA FinishWaits ==
  ASSUME TypeOK, NEW c \in Calls, Finish(c)
  PROVE  Waits(c)
BY FinishEffect DEF Waits

LEMMA ReturnWaits ==
  ASSUME TypeOK, NEW c \in Calls, Return(c)
  PROVE  Waits(c)
BY FinishEffect, ReturnEffect DEF Return, Waits, Waiting

LEMMA AskWaits ==
  ASSUME TypeOK, NEW c \in Calls, NEW m, NEW l, Ask(c, m, l)
  PROVE  Waits(c)
BY DEF Ask, Send, Waits, TypeOK

LEMMA ContinueWaits ==
  ASSUME TypeOK, NEW c \in Calls, NEW l, l \notin Waiting, Continue(c, l)
  PROVE  Waits(c)
BY DEF Continue, Goto, Waits, TypeOK

LEMMA StepWaits ==
  ASSUME Control, NEW c \in Calls, Step(c)
  PROVE  Waits(c)
<1>1. TypeOK /\ CallOK(c)  BY DEF Control
<1>2. CASE Run(c)
  <2>1. ASSUME NEW k, NEW t, NEW w, StartRun(c, k, t, w)  PROVE Waits(c)
    BY <1>1, <2>1 DEF StartRun, Waits, Waiting, TypeOK
  <2>2. CASE ReserveRun(c) \/ ReserveRefused(c) \/ RecoverRollback(c) \/ CheckIdle(c)
    BY <1>1, <2>2, FinishWaits, AskWaits, ContinueWaits
    DEF ReserveRun, Reserved, ReserveRefused, RecoverRollback, CheckIdle, Waiting
  <2>3. CASE FailRun(c) \/ ConfirmThread(c) \/ FinishTurn(c) \/ AcknowledgeMaintained(c)
    BY <1>1, <2>3, FinishWaits DEF FailRun, ConfirmThread, FinishTurn, AcknowledgeMaintained
  <2>4. CASE CreateThread(c) \/ Submit(c) \/ Maintain(c)
    BY <1>1, <2>4, AskWaits DEF CreateThread, Submit, Maintain
  <2>5. CASE IndexThread(c) \/ Bind(c) \/ AcknowledgeTurn(c)
    BY <1>1, <2>5, ContinueWaits DEF IndexThread, Bind, AcknowledgeTurn, Goto, Waits, Waiting, TypeOK
  <2> QED BY <1>2, <2>1, <2>2, <2>3, <2>4, <2>5 DEF Run
<1>3. CASE Catalog(c)
  <2>1. ASSUME NEW k, NEW t, StartCatalog(c, k, t)  PROVE Waits(c)
    BY <1>1, <2>1 DEF StartCatalog, Waits, Waiting, TypeOK
  <2>2. CASE Catalog(c) /\ ~(\E k \in Kinds \cap CatalogKinds, t \in Threads : StartCatalog(c, k, t))
    BY <1>1, <2>2, FinishWaits, ReturnWaits, AskWaits, ContinueWaits
    DEF Catalog, ReserveCatalog, SubmitCatalog, CatalogAnswered, FailCatalog, Forget, ReleaseCatalog, Waiting
  <2> QED BY <1>3, <2>1, <2>2
<1>4. CASE Select(c)
  <2>1. ASSUME NEW t, NEW w, StartSelect(c, t, w)  PROVE Waits(c)
    BY <1>1, <2>1 DEF StartSelect, Waits, CallOK, Equipped, Active
  <2>2. CASE Select(c) /\ ~(\E t \in Threads, w \in Workspaces : StartSelect(c, t, w))
    BY <1>1, <2>2, FinishWaits, ReturnWaits, ContinueWaits
    DEF Select, SelectIdle, SelectBegin, SelectPrepare, SubmitSwitch, CommitSwitch, FailSwitch, Send, Waits, Waiting, TypeOK
  <2> QED BY <1>4, <2>1, <2>2
<1>5. CASE Recover(c)
  <2>1. CASE (\E t \in Threads : StartReconcile(c, t)) \/ (\E w \in Workspaces : StartReconcileWorkspace(c, w)) \/ TreatItems(c)
    BY <1>1, <2>1, FinishWaits DEF StartReconcile, StartReconcileWorkspace, TreatItems, Goto, Waits, Waiting, TypeOK
  <2>2. CASE ReconcileTransition(c) \/ ReconcileExecution(c)
    BY <1>1, <2>2, FinishWaits, ReturnWaits DEF ReconcileTransition, ReconcileExecution, Send, Waits, TypeOK
  <2>3. CASE ReconcileCatalog(c)
    BY <1>1, <2>3, FinishWaits, ReturnWaits DEF ReconcileCatalog, Send, Goto, Waits, Waiting, TypeOK
  <2>4. CASE ArchiveVerified(c) \/ ReleaseIdle(c)
    BY <1>1, <2>4, FinishWaits, ReturnWaits, ContinueWaits DEF ArchiveVerified, ReleaseIdle, Waiting
  <2> QED BY <1>5, <2>1, <2>2, <2>3, <2>4 DEF Recover
<1> QED BY <1>2, <1>3, <1>4, <1>5 DEF Step

----------------------------------------------------------------------------
(* Deletion: a local row goes when the source has deleted the thread.      *)

\* A deleted id is never issued again.
Gone(t) == t \in Threads /\ t \notin known /\ sourceCwd[t] # Null
KnownPlaced == \A t \in known : sourceCwd[t] # Null

\* What allows a call, a notification or a recovery to forget a thread.
DeleteAnswered(c) == pc[c] = "await" /\ kind[c] = "delete" /\ reply[c] # Null /\ reply[c].result = "ok"

Forgettable ==
  /\ \A c \in Calls : pc[c] = "forget" => Gone(thread[c])
  /\ \A e \in Heard : e.type = "deleted" => Gone(e.thread)
  /\ \A c \in Calls : IsDeletionConfirmed(c) => Gone(Row(c).thread)
  /\ \A c \in Calls : DeleteAnswered(c) => Gone(thread[c])
  /\ \A e \in Answers : pc[e.call] = "await" /\ kind[e.call] = "delete" /\ e.result = "ok" => Gone(thread[e.call])

Deletion == Typed /\ KnownPlaced /\ Forgettable

\* Threads appear under ids that were never used, at a place.
LEMMA ServePlaces ==
  ASSUME Typed, KnownPlaced, Serve
  PROVE  /\ KnownPlaced'
         /\ \A t \in Threads : Gone(t) => Gone(t)'
         /\ \A t \in Threads \ known : t \in known' => sourceCwd[t] = Null
<1>1. SourceTypeOK /\ Pipe /\ Served
  BY ServeOutcome DEF Typed, Control, TypeOK
<1>2. PICK a \in Answer : Outcome(a)  BY <1>1 DEF Served
<1>3. Oldest.method \in {"turn", "resume", "newThread", "switch"} => Oldest.cwd # Null
  BY <1>1 DEF Served, Pipe, Matches
<1>4. CASE Looked(a) \/ Filed(a)  BY <1>4 DEF Looked, Filed, KnownPlaced, Gone
<1>5. CASE Created(a)  BY <1>1, <1>3, <1>5 DEF Created, KnownPlaced, Gone, SourceTypeOK
<1>6. CASE Begun(a)  BY <1>1, <1>3, <1>6 DEF Begun, Idle, KnownPlaced, Gone, SourceTypeOK
<1>7. CASE Resumed(a)  BY <1>1, <1>3, <1>7 DEF Resumed, Idle, KnownPlaced, Gone, SourceTypeOK
<1>8. CASE Deleted(a)  BY <1>1, <1>8 DEF Deleted, KnownPlaced, Gone, SourceTypeOK
<1> QED BY <1>2, <1>4, <1>5, <1>6, <1>7, <1>8 DEF Outcome

LEMMA SourcePlaces ==
  ASSUME Typed, KnownPlaced, Source
  PROVE  KnownPlaced' /\ \A t \in Threads : Gone(t) => Gone(t)'
<1>1. CASE Serve  BY <1>1, ServePlaces
<1>2. CASE ~Serve
  <2>1. UNCHANGED <<known, sourceCwd>>  BY <1>2 DEF Source, CompleteTurn, StartForeignTurn
  <2> QED BY <2>1 DEF KnownPlaced, Gone
<1> QED BY <1>1, <1>2

LEMMA ServeDeletion ==
  ASSUME Deletion, Serve, UNCHANGED <<pc, kind, thread>>
  PROVE  /\ \A e \in Heard' : e.type = "deleted" => Gone(e.thread)'
         /\ \A e \in Answers' : pc[e.call] = "await" /\ kind[e.call] = "delete" /\ e.result = "ok" => Gone(thread[e.call])'
<1>1. SourceTypeOK /\ Pipe /\ Served
  BY ServeOutcome DEF Deletion, Typed, Control, TypeOK
<1>2. PICK a \in Answer : a.call = Oldest.call /\ Answers' = Answers \cup {a} /\ Outcome(a)  BY <1>1 DEF Served
<1>3. \A t \in Threads : Gone(t) => Gone(t)'  BY ServePlaces DEF Deletion
<1>4. \A t \in Threads : Deleted(a) /\ t = Oldest.thread => Gone(t)'
  BY <1>1 DEF Deleted, Deletion, KnownPlaced, Gone, SourceTypeOK
<1>5. a.type = "answer"  BY DEF Answer
<1>6. Deleted(a) => Oldest.thread \in Threads
  BY <1>1 DEF Deleted, SourceTypeOK
<1>8. \A e \in Heard' : e.type = "deleted" => e \in Heard \/ (Deleted(a) /\ e.thread = Oldest.thread)
  BY <1>2, <1>5 DEF Outcome, Looked, Created, Begun, Resumed, Filed, Deleted
<1>7. pc[Oldest.call] = "await" /\ kind[Oldest.call] = "delete" /\ a.result = "ok"
        => Deleted(a) /\ Oldest.thread = thread[Oldest.call]
  <2>1. pc[Oldest.call] = "await" /\ kind[Oldest.call] = "delete" => Oldest.method = "delete" /\ Oldest.thread = thread[Oldest.call]
    BY <1>1 DEF Served, Pipe, Matches, MethodOf, Waiting
  <2> QED BY <1>2, <2>1 DEF Outcome, Looked, Created, Begun, Resumed, Filed, StartMethods
<1>9. \A e \in Heard' : e.type = "deleted" => Gone(e.thread)'
  BY <1>3, <1>4, <1>6, <1>8 DEF Deletion, Forgettable, Gone
<1>10. \A e \in Answers' : pc[e.call] = "await" /\ kind[e.call] = "delete" /\ e.result = "ok" => Gone(thread[e.call])'
  BY <1>2, <1>3, <1>4, <1>6, <1>7 DEF Deletion, Forgettable, Gone
<1> QED BY <1>9, <1>10

LEMMA SourceDeletion ==
  ASSUME Deletion, Source
  PROVE  KnownPlaced' /\ Forgettable'
<1>1. KnownPlaced' /\ \A t \in Threads : Gone(t) => Gone(t)'  BY SourcePlaces DEF Deletion
<1>2. UNCHANGED <<reservations, pc, kind, thread, reply>>  BY DEF Source, storeVars, callVars
<1>3. CASE Serve
  BY <1>1, <1>2, <1>3, ServeDeletion DEF Deletion, Forgettable, IsDeletionConfirmed, DeleteAnswered, Live, Row, Gone
<1>4. CASE ~Serve
  <2>1. PICK n \in TurnNotification : n \in Event /\ n.type # "answer" /\ Emit(<<n>>)
    BY <1>4, TurnsEmit DEF Source, Deletion, Typed, Control, TypeOK
  <2>2. Heard' = Heard \cup {n} /\ Answers' = Answers
    BY <2>1, NotifyElements DEF Deletion, Typed, Control, TypeOK, Pipe, OneEach
  <2>3. n.type # "deleted"  BY DEF TurnNotification
  <2> QED BY <1>1, <1>2, <2>2, <2>3 DEF Deletion, Forgettable, IsDeletionConfirmed, DeleteAnswered, Live, Row, Gone
<1> QED BY <1>3, <1>4

\* Who confirms a deletion.
LEMMA StepConfirms ==
  ASSUME Typed, NEW c \in Calls, Step(c), NEW i \in Calls, IsDeletionConfirmed(i)'
  PROVE  /\ Live(i) /\ Row(i).thread = Row(i)'.thread
         /\ IsDeletionConfirmed(i) \/ (i = c /\ DeleteAnswered(c) /\ Row(i).thread = thread[i])
<1>1. Control /\ Pipe /\ Rows /\ Named /\ TypeOK /\ StoreTypeOK /\ CallOK(c) /\ c \in Reservations
  BY DEF Typed, Control, TypeOK, Pipe
<1>2. RowsMoved(c)  BY <1>1, StepRows DEF Rows
<1>3. CASE i # c
  BY <1>2, <1>3 DEF RowsMoved, IsDeletionConfirmed, Live, Row
<1>4. CASE i = c
  <2>1. RowOK(c)' /\ Live(c)' /\ Row(c)'.operation = "delete" /\ Row(c)'.acknowledged
    BY <1>2, <1>4 DEF RowsMoved, IsDeletionConfirmed
  <2>2. kind'[c] = "delete"
    BY <2>1 DEF RowOK, Operation, RunKinds, CatalogKinds, MaintenanceKinds
  <2>3. Catalog(c)
    BY <1>1, <2>2, RunKind, SelectKind, RecoverKind DEF Step, RunKinds, CatalogKinds, MaintenanceKinds
  <2>4. ASSUME NEW k, NEW t, StartCatalog(c, k, t)  PROVE IsDeletionConfirmed(c)
    BY <2>1, <2>4 DEF StartCatalog, storeVars, IsDeletionConfirmed, Live, Row
  <2>5. ASSUME ReserveCatalog(c)  PROVE IsDeletionConfirmed(c) \/ DeleteAnswered(c)
    <3>1. CASE Reserve(c, workspace[c], thread[c], kind[c])
      <4>1. reservations'[c] = [workspace |-> workspace[c], thread |-> thread[c], turn |-> Null, state |-> "preparing",
                                operation |-> kind[c], acknowledged |-> FALSE]
        BY <1>1, <3>1, ReserveRow
      <4> QED BY <2>1, <4>1 DEF Row
    <3>2. CASE UNCHANGED storeVars
      BY <2>1, <3>2 DEF storeVars, IsDeletionConfirmed, Live, Row
    <3> QED BY <2>5, <3>1, <3>2 DEF ReserveCatalog
  <2>6. ASSUME SubmitCatalog(c)  PROVE IsDeletionConfirmed(c) \/ DeleteAnswered(c)
    BY <1>1, <2>1, <2>6, SubmittingRow DEF SubmitCatalog, IsDeletionConfirmed, SameRow, Live, Row
  <2>7. ASSUME CatalogAnswered(c)  PROVE IsDeletionConfirmed(c) \/ DeleteAnswered(c)
    <3>1. CASE kind[c] = "delete"
      BY <1>1, <2>1, <2>7, <3>1, ConfirmDeletionRow DEF CatalogAnswered, Answered, DeleteAnswered, SameRow, Live, Row, Rows,
         RowOK, Gateless
    <3>2. CASE kind[c] # "delete"
      BY <1>1, <2>2, <2>7, <3>2 DEF CatalogAnswered, Continue
    <3> QED BY <3>1, <3>2
  <2>8. ASSUME FailCatalog(c)  PROVE IsDeletionConfirmed(c) \/ DeleteAnswered(c)
    BY <1>1, <2>1, <2>8, FailRow DEF FailCatalog, IsDeletionConfirmed, SameRow, Live, Row
  <2>9. ASSUME Forget(c)  PROVE IsDeletionConfirmed(c) \/ DeleteAnswered(c)
    BY <2>1, <2>9 DEF Forget, ForgetThread, IsDeletionConfirmed, Live, Row
  <2>10. ASSUME ReleaseCatalog(c)  PROVE IsDeletionConfirmed(c) \/ DeleteAnswered(c)
    <3>1. Recovered(c) \in Reservations
      BY <1>1, <2>10 DEF ReleaseCatalog, Recovered, CallOK, InPlace, Equipped, TypeOK
    <3> QED BY <1>1, <2>1, <2>10, <3>1, ReleaseRow DEF ReleaseCatalog, SomeRowsGo, IsDeletionConfirmed, Live, Row
  <2>11. IsDeletionConfirmed(c) \/ DeleteAnswered(c)
    BY <2>3, <2>4, <2>5, <2>6, <2>7, <2>8, <2>9, <2>10 DEF Catalog
  <2>12. pc[c] # "reserve"
    BY <1>1, <2>11 DEF DeleteAnswered, IsDeletionConfirmed, Rows, RowOK
  <2>13. Live(c) /\ Row(c).thread \in {Null, Row(c)'.thread} /\ Row(c).operation = "delete"
    BY <1>2, <2>1, <2>12 DEF RowsMoved, Grows, Live, Row
  <2>14. kind[c] = "delete" /\ Row(c).thread # Null /\ Row(c).thread = thread[c]
    BY <1>1, <2>13 DEF Rows, RowOK, Operation, RunKinds, CatalogKinds, MaintenanceKinds, Gateless
  <2> QED BY <1>4, <2>11, <2>13, <2>14
<1> QED BY <1>3, <1>4

LEMMA StepForgets ==
  ASSUME Control, NEW c \in Calls, Step(c), pc'[c] = "forget"
  PROVE  /\ thread'[c] = thread[c]
         /\ DeleteAnswered(c) \/ \E id \in ReservedBy(thread[c]) : IsDeletionConfirmed(id)
<1>1. TypeOK /\ CallOK(c)  BY DEF Control
<1>2. CASE Run(c)
  <2>1. kind'[c] \in RunKinds /\ CallOK(c)'  BY <1>2, RunKind, RunMoved DEF Moved
  <2> QED BY <2>1 DEF CallOK, InPlace, RunKinds, Reconciles, MaintenanceKinds
<1>3. CASE Catalog(c)
  <2>1. ASSUME NEW k, NEW t, StartCatalog(c, k, t)  PROVE FALSE
    BY <1>1, <2>1 DEF StartCatalog, TypeOK
  <2>2. CASE ReserveCatalog(c) \/ SubmitCatalog(c) \/ FailCatalog(c) \/ Forget(c) \/ ReleaseCatalog(c)
    BY <1>1, <2>2, FinishEffect, ReturnEffect
    DEF ReserveCatalog, SubmitCatalog, FailCatalog, Forget, ReleaseCatalog, Continue, Ask, Goto, Return, TypeOK
  <2>3. CASE CatalogAnswered(c)
    BY <1>1, <2>3 DEF CatalogAnswered, Answered, Continue, Goto, TypeOK, DeleteAnswered
  <2> QED BY <1>3, <2>1, <2>2, <2>3 DEF Catalog
<1>4. ASSUME Finish(c)  PROVE pc'[c] # "forget"
  BY <1>1, <1>4, FinishEffect
<1>5. ASSUME Return(c)  PROVE pc'[c] # "forget"
  BY <1>1, <1>4, <1>5, ReturnEffect DEF Return
<1>6. ASSUME NEW l, Goto(c, l), l # "forget"  PROVE pc'[c] # "forget"
  BY <1>1, <1>6 DEF Goto, TypeOK
<1>7. CASE Select(c)
  <2>1. ASSUME NEW t, NEW w, StartSelect(c, t, w)  PROVE pc'[c] # "forget"
    BY <1>1, <2>1 DEF StartSelect, TypeOK
  <2>2. ASSUME SelectIdle(c) \/ SelectBegin(c) \/ SelectPrepare(c)  PROVE pc'[c] # "forget"
    BY <2>2, <1>4, <1>5, <1>6 DEF SelectIdle, SelectBegin, SelectPrepare, Continue
  <2>3. ASSUME SubmitSwitch(c) \/ CommitSwitch(c) \/ FailSwitch(c)  PROVE pc'[c] # "forget"
    BY <2>3, <1>4, <1>5, <1>6 DEF SubmitSwitch, CommitSwitch, FailSwitch, Continue
  <2> QED BY <1>7, <2>1, <2>2, <2>3 DEF Select
<1>8. CASE Recover(c)
  <2>1. ASSUME NEW t, StartReconcile(c, t)  PROVE pc'[c] # "forget"
    BY <1>1, <2>1 DEF StartReconcile, TypeOK
  <2>2. ASSUME NEW w, StartReconcileWorkspace(c, w)  PROVE pc'[c] # "forget"
    BY <1>1, <2>2 DEF StartReconcileWorkspace, TypeOK
  <2>3. CASE ReconcileCatalog(c)
    BY <1>1, <2>3, <1>4, <1>5, <1>6 DEF ReconcileCatalog, Goto, TypeOK
  <2>4. ASSUME ReconcileTransition(c)  PROVE pc'[c] # "forget"
    BY <2>4, <1>4, <1>5, <1>6 DEF ReconcileTransition
  <2>5. ASSUME ArchiveVerified(c) \/ ReleaseIdle(c)  PROVE pc'[c] # "forget"
    BY <2>5, <1>4, <1>5, <1>6 DEF ArchiveVerified, ReleaseIdle, Continue
  <2>6. ASSUME ReconcileExecution(c)  PROVE pc'[c] # "forget"
    BY <2>6, <1>4, <1>6 DEF ReconcileExecution
  <2>7. ASSUME TreatItems(c)  PROVE pc'[c] # "forget"
    BY <2>7, <1>4, <1>6 DEF TreatItems
  <2> QED BY <1>8, <2>1, <2>2, <2>3, <2>4, <2>5, <2>6, <2>7 DEF Recover
<1> QED BY <1>2, <1>3, <1>7, <1>8 DEF Step

LEMMA StepDeletion ==
  ASSUME Deletion, NEW c \in Calls, Step(c)
  PROVE  KnownPlaced' /\ Forgettable'
<1>1. Typed /\ Control /\ Pipe /\ Named  BY DEF Deletion, Typed, Pipe
<1>2. Shape(c) /\ OthersKeep(c) /\ Waits(c)  BY <1>1, StepShape, StepMoved, StepWaits DEF Moved
<1>3. UNCHANGED <<known, sourceCwd, events, Heard, Answers>>
  BY <1>2 DEF Shape, Quits, Sends, sourceVars, Heard, Answers, Elements
<1>4. KnownPlaced' /\ \A t \in Threads : Gone(t) => Gone(t)'
  BY <1>3 DEF Deletion, KnownPlaced, Gone
<1>5. ASSUME NEW d \in Calls, pc'[d] = "forget"  PROVE Gone(thread[d])'
  <2>1. CASE d = c
    <3>1. /\ thread'[c] = thread[c]
          /\ DeleteAnswered(c) \/ \E id \in ReservedBy(thread[c]) : IsDeletionConfirmed(id)
      BY <1>1, <1>5, <2>1, StepForgets
    <3>2. Gone(thread[c])  BY <3>1 DEF Deletion, Forgettable, ReservedBy
    <3> QED BY <1>4, <2>1, <3>1, <3>2 DEF Gone
  <2>2. CASE d # c
    BY <1>2, <1>4, <1>5, <2>2 DEF OthersKeep, Deletion, Forgettable, Gone
  <2> QED BY <2>1, <2>2
<1>6. ASSUME NEW d \in Calls, IsDeletionConfirmed(d)'  PROVE Gone(Row(d).thread)'
  <2>1. /\ Row(d).thread = Row(d)'.thread
        /\ IsDeletionConfirmed(d) \/ (DeleteAnswered(d) /\ Row(d).thread = thread[d])
    BY <1>1, <1>6, StepConfirms
  <2>2. Gone(Row(d).thread)  BY <2>1 DEF Deletion, Forgettable
  <2> QED BY <1>4, <2>1, <2>2 DEF Gone, Row
<1>7. ASSUME NEW d \in Calls, DeleteAnswered(d)'  PROVE Gone(thread[d])'
  <2>1. d # c  BY <1>2, <1>7 DEF DeleteAnswered, Waits, Waiting
  <2> QED BY <1>2, <1>4, <1>7, <2>1 DEF OthersKeep, Deletion, Forgettable, DeleteAnswered, Gone
<1>8. ASSUME NEW e \in Answers, pc'[e.call] = "await", kind'[e.call] = "delete", e.result = "ok"
      PROVE  Gone(thread[e.call])'
  <2>1. e.call \in Calls /\ Open(e.call)
    BY <1>1, SentTyped DEF Control, TypeOK, Pipe, OpenCalls, Answer
  <2>2. e.call # c
    BY <1>2, <1>8, <2>1 DEF Shape, Quits
  <2> QED BY <1>2, <1>4, <1>8, <2>1, <2>2 DEF OthersKeep, Deletion, Forgettable, Gone
<1>9. \A e \in Heard : e.type = "deleted" => Gone(e.thread)'
  BY <1>4 DEF Deletion, Forgettable, Gone
<1> QED BY <1>3, <1>4, <1>5, <1>6, <1>7, <1>8, <1>9 DEF Forgettable

LEMMA DeliverDeletion ==
  ASSUME Deletion, Deliver
  PROVE  KnownPlaced' /\ Forgettable'
<1> DEFINE message == Head(events)
<1>1. /\ Typed /\ Control /\ Pipe /\ Rows /\ TypeOK /\ StoreTypeOK /\ SourceTypeOK
      /\ UNCHANGED <<known, sourceCwd, requests, pc, kind, thread>>
      /\ events # <<>> /\ events' = Tail(events)
  BY DEF Deletion, Typed, Control, TypeOK, Deliver
<1>2. message \in Event /\ Heard = Heard' \cup {message}
  BY <1>1, FirstEvent, ElementsTail DEF Heard, SourceTypeOK
<1>3. KnownPlaced' /\ \A t : Gone(t)' <=> Gone(t)
  BY <1>1 DEF Deletion, KnownPlaced, Gone
<1>4. ASSUME NEW d \in Calls, IsDeletionConfirmed(d)'  PROVE Gone(Row(d).thread)'
  <2>1. IsDeletionConfirmed(d) /\ Row(d).thread = Row(d)'.thread
    <3>1. CASE UNCHANGED reservations
      BY <1>4, <3>1 DEF IsDeletionConfirmed, Live, Row
    <3>2. CASE ~UNCHANGED reservations
      <4>1. message.type # "answer" /\ Notice(message)  BY <3>2 DEF Deliver, storeVars
      <4>2. RowsNoticed  BY <1>1, <1>2, <4>1, NoticeRows
      <4>3. PICK i \in Calls :
              /\ OtherRowsKeep(i) /\ Live(i) /\ Row(i).operation \in Lifecycle
              /\ reservations'[i] = Null \/ SameRow(reservations'[i], Row(i))
        BY <3>2, <4>2 DEF RowsNoticed
      <4>4. d # i  BY <1>4, <4>3 DEF IsDeletionConfirmed, SameRow, Lifecycle, Live, Row
      <4> QED BY <1>4, <4>3, <4>4 DEF OtherRowsKeep, IsDeletionConfirmed, Live, Row
    <3> QED BY <3>1, <3>2
  <2> QED BY <1>3, <2>1 DEF Deletion, Forgettable, Gone
<1>5. ASSUME NEW d \in Calls, DeleteAnswered(d)'  PROVE Gone(thread[d])'
  <2>1. DeleteAnswered(d) \/ (message \in Answers /\ message.call = d /\ reply'[d] = message)
    <3>1. CASE UNCHANGED reply  BY <1>1, <1>5, <3>1 DEF DeleteAnswered
    <3>2. CASE ~UNCHANGED reply
      <4>1. message.type = "answer" /\ reply' = [reply EXCEPT ![message.call] = IF Awaiting(message.call) THEN message ELSE @]
        BY <3>2 DEF Deliver
      <4> QED BY <1>1, <1>2, <1>5, <4>1 DEF TypeOK, DeleteAnswered, Answers
    <3> QED BY <3>1, <3>2
  <2> QED BY <1>1, <1>3, <1>5, <2>1 DEF Deletion, Forgettable, DeleteAnswered, Gone
<1>6. \A d \in Calls : pc'[d] = "forget" => Gone(thread[d])'
  BY <1>1, <1>3 DEF Deletion, Forgettable, Gone
<1>7. \A e \in Heard' : e.type = "deleted" => Gone(e.thread)'
  BY <1>2, <1>3 DEF Deletion, Forgettable, Gone
<1>8. \A e \in Answers' : pc'[e.call] = "await" /\ kind'[e.call] = "delete" /\ e.result = "ok" => Gone(thread[e.call])'
  BY <1>1, <1>2, <1>3 DEF Deletion, Forgettable, Gone, Answers
<1> QED BY <1>3, <1>4, <1>5, <1>6, <1>7, <1>8 DEF Forgettable

LEMMA DeletionStep ==
  ASSUME Deletion, [Next]_vars
  PROVE  Deletion'
<1>1. Typed'  BY TypedStep DEF Deletion
<1>2. CASE UNCHANGED vars
  <2>1. UNCHANGED <<known, sourceCwd, Heard, Answers, pc, kind, thread, reply, reservations>>
    BY <1>2, SameElements DEF vars, storeVars, sourceVars, callVars
  <2> QED BY <1>1, <2>1 DEF Deletion, KnownPlaced, Forgettable, IsDeletionConfirmed, DeleteAnswered, Gone, Live, Row
<1>3. ASSUME NEW c \in Calls, Timeout(c)  PROVE Deletion'
  <2>1. /\ UNCHANGED <<known, sourceCwd, Heard, Answers, pc, kind, thread, reservations>>
        /\ \A d \in Calls : reply'[d] = reply[d] \/ reply'[d] = Rejection(d)
    BY <1>3, SameElements DEF Timeout, storeVars, sourceVars, Deletion, Typed, Control, TypeOK
  <2>2. \A d \in Calls : Rejection(d).result # "ok"
    BY DEF Rejection
  <2>3. \A d \in Calls : DeleteAnswered(d)' => DeleteAnswered(d)
    BY <2>1, <2>2 DEF DeleteAnswered
  <2> QED BY <1>1, <2>1, <2>3 DEF Deletion, KnownPlaced, Forgettable, IsDeletionConfirmed, Gone, Live, Row
<1>4. CASE Source  BY <1>1, <1>4, SourceDeletion DEF Deletion
<1>5. CASE SourceExit \/ Crash
  <2>1. /\ UNCHANGED <<known, sourceCwd, thread, kind, reservations>> /\ Heard' = {} /\ Answers' = {}
        /\ \A d \in Calls : pc'[d] \in {pc[d], "done"}
        /\ \A d \in Calls : reply'[d] = reply[d] \/ reply'[d] = Rejection(d) \/ reply'[d] = Null
    BY <1>5, ExitPipe DEF SourceExit, Crash, Exit, storeVars
  <2>2. \A d \in Calls : Rejection(d).result # "ok"
    BY DEF Rejection
  <2>3. \A d \in Calls : DeleteAnswered(d)' => DeleteAnswered(d)
    BY <2>1, <2>2 DEF DeleteAnswered
  <2> QED BY <1>1, <2>1, <2>3 DEF Deletion, KnownPlaced, Forgettable, IsDeletionConfirmed, Gone, Live, Row
<1>6. CASE Lists
  <2>1. UNCHANGED <<known, sourceCwd, Heard, Answers, pc, kind, thread, reply, reservations>>
    BY <1>6, SameElements
    DEF Lists, ListThread, IndexListed, RemoveMissing, WriteIndex, ForgetThread, storeVars, sourceVars, callVars
  <2> QED BY <1>1, <2>1 DEF Deletion, KnownPlaced, Forgettable, IsDeletionConfirmed, DeleteAnswered, Gone, Live, Row
<1> QED BY <1>1, <1>2, <1>3, <1>4, <1>5, <1>6, StepDeletion, DeliverDeletion DEF Next, Deletion

LEMMA DeletionInit == Init => Deletion
<1> SUFFICES ASSUME Init PROVE Deletion  OBVIOUS
<1>1. requests = <<>> /\ events = <<>> /\ \A i \in Calls : ~Live(i) /\ pc[i] = "idle"
  BY DEF Init, SourceInit, StoreInit, Live, Row
<1>2. Heard = {} /\ Answers = {}  BY <1>1 DEF Heard, Answers, Elements
<1>3. KnownPlaced  BY DEF Init, SourceInit, KnownPlaced
<1> QED BY <1>1, <1>2, <1>3, TypedInit DEF Deletion, Forgettable, IsDeletionConfirmed, DeleteAnswered

\* Whatever may lead to forgetting a thread, a label, a notification, a
\* confirmed row or an answer on its way, is there only once the thread is gone.
THEOREM DeletionHolds == Spec => []Deletion
BY DeletionInit, DeletionStep, PTL DEF Spec

\* ForgottenIsDeleted: neither a mutation, nor a recovery, nor a notification
\* that comes late forgets a conversation the source still has.
THEOREM OnlyDeletedIsForgotten == Spec => ForgottenIsDeleted
<1> DEFINE Safe == \A t \in Threads : association[t] # Null /\ association'[t] = Null => t \notin known
<1>1. ASSUME Deletion, [Next]_vars, NEW t \in Threads, association[t] # Null, association'[t] = Null
      PROVE  t \notin known
  <2>1. Control /\ TypeOK /\ StoreTypeOK  BY <1>1 DEF Deletion, Typed, Control, TypeOK
  <2>2. ASSUME NEW c \in Calls, Step(c)  PROVE Gone(t)
    <3>1. Forgets(c, t) \/ Indexes(c, t) \/ Binds(c, t) \/ Commits(c, t)
      BY <1>1, <2>1, <2>2, StepPlaces
    <3>2. ~Indexes(c, t)  BY <1>1 DEF Indexes
    <3>3. ~Binds(c, t)
      <4>1. Binds(c, t) => Row(c) \in Reservation  BY <2>1, LiveRow DEF Binds, CanBind
      <4> QED BY <1>1, <4>1 DEF Binds, Reservation
    <3>4. ~Commits(c, t)
      <4>1. Commits(c, t) => transitions[t] \in Transition  BY <2>1 DEF Commits, CanCommit, StoreTypeOK
      <4> QED BY <1>1, <4>1 DEF Commits, Transition
    <3> QED BY <1>1, <3>1, <3>2, <3>3, <3>4 DEF Forgets, Deletion, Forgettable
  <2>3. CASE Deliver
    <3>1. Head(events) \in Event /\ Heard = Heard' \cup {Head(events)}
      BY <2>1, <2>3, FirstEvent, ElementsTail DEF Deliver, Heard, SourceTypeOK, TypeOK
    <3>2. Notice(Head(events)) /\ Head(events).type # "answer"
      BY <1>1, <2>3 DEF Deliver, storeVars
    <3>3. CASE Head(events).type = "deleted"
      <4>1. Head(events).thread = t
        BY <1>1, <2>1, <3>2, <3>3 DEF Notice, ForgetThread, storeVars, StoreTypeOK
      <4> QED BY <1>1, <3>1, <3>3, <4>1 DEF Deletion, Forgettable, Gone
    <3>4. CASE Head(events).type # "deleted"
      BY <1>1, <3>2, <3>4 DEF Notice, ObserveTurn, storeVars
    <3> QED BY <3>3, <3>4
  <2>4. CASE Lists
    <3>1. PICK u \in Threads : u \notin known /\ ForgetThread(u)
      <4>1. Workspaces \cap {Null} = {}  OBVIOUS
      <4> QED BY <1>1, <2>1, <2>4, <4>1, ListsEffect DEF WriteIndex, storeVars, StoreTypeOK
    <3> QED BY <1>1, <2>1, <3>1 DEF ForgetThread, StoreTypeOK
  <2>5. CASE ~(\E c \in Calls : Step(c)) /\ ~Deliver /\ ~Lists
    <3>1. UNCHANGED association
      BY <1>1, <2>5 DEF Next, vars, storeVars, Timeout, Source, SourceExit, Crash
    <3> QED BY <1>1, <3>1
  <2> QED BY <2>2, <2>3, <2>4, <2>5 DEF Gone
<1>2. Deletion /\ [Next]_vars => [Safe]_vars
  BY <1>1
<1> QED BY <1>2, DeletionHolds, PTL DEF Spec, ForgottenIsDeleted

----------------------------------------------------------------------------
(* The calls reach the tables through their transactions.                  *)

\* A recovery of a workspace may release several rows at once.
Sweeps == KeepsPlaces /\ UNCHANGED <<association, transitions>> /\ \E c \in Calls : TreatItems(c)
Transacts == [StoreNext]_storeVars \/ Sweeps

LEMMA RunTransacts ==
  ASSUME Control, Named, NEW c \in Calls, Run(c)
  PROVE  Transacts
<1>1. /\ TypeOK /\ StoreTypeOK /\ CallOK(c) /\ c \in Reservations /\ c \in Turns
      /\ workspace[c] \in Workspaces \cup {Null} /\ thread[c] \in Threads \cup {Null}
  BY DEF Control, TypeOK
<1>2. ASSUME ReservationTransaction \/ ThreadTransaction \/ UNCHANGED storeVars  PROVE Transacts
  BY <1>2 DEF Transacts, StoreNext
<1>3. ASSUME NEW k, NEW t, NEW w, StartRun(c, k, t, w)  PROVE UNCHANGED storeVars
  BY <1>3 DEF StartRun
<1>4. CASE ReserveRun(c)
  <2>1. workspace[c] \in Workspaces /\ Operation(kind[c]) \in Operations
    BY <1>1, <1>4 DEF ReserveRun, CallOK, Equipped, Operation, Operations, RunKinds, MaintenanceKinds
  <2>2. ReservationTransaction  BY <1>1, <1>4, <2>1 DEF ReserveRun, ReservationTransaction
  <2> QED BY <1>2, <2>2
<1>5. CASE ReserveRefused(c) \/ CheckIdle(c) \/ Maintain(c) \/ FinishTurn(c)
  BY <1>2, <1>5 DEF ReserveRefused, CheckIdle, Maintain, FinishTurn
<1>6. CASE RecoverRollback(c)
  <2>1. held[c] \in Reservations  BY <1>1, <1>6 DEF RecoverRollback, CallOK, Equipped, TypeOK
  <2> QED BY <1>2, <1>6, <2>1 DEF RecoverRollback, ReservationTransaction
<1>7. CASE FailRun(c) \/ CreateThread(c) \/ Submit(c)
  BY <1>1, <1>2, <1>7 DEF FailRun, CreateThread, Submit, ReservationTransaction
<1>8. CASE IndexThread(c)
  <2>1. reply[c].thread \in Threads
    BY <1>1, <1>8 DEF IndexThread, Answered, Named, Fits, TypeOK, Answer
  <2>2. workspace[c] \in Workspaces
    BY <1>1, <1>8 DEF IndexThread, Answered, CallOK, InPlace, Equipped, Gateless
  <2> QED BY <1>2, <1>8, <2>1, <2>2 DEF IndexThread, ThreadTransaction
<1>9. CASE ConfirmThread(c) \/ Bind(c)
  <2>1. thread[c] \in Threads  BY <1>1, <1>9 DEF ConfirmThread, Bind, Named
  <2> QED BY <1>1, <1>2, <1>9, <2>1 DEF ConfirmThread, Bind, ReservationTransaction
<1>10. CASE AcknowledgeTurn(c) \/ AcknowledgeMaintained(c)
  BY <1>1, <1>2, <1>10 DEF AcknowledgeTurn, AcknowledgeMaintained, ReservationTransaction
<1> QED BY <1>2, <1>3, <1>4, <1>5, <1>6, <1>7, <1>8, <1>9, <1>10 DEF Run

LEMMA CatalogTransacts ==
  ASSUME Control, NEW c \in Calls, Catalog(c)
  PROVE  Transacts
<1>1. /\ TypeOK /\ StoreTypeOK /\ CallOK(c) /\ c \in Reservations
      /\ workspace[c] \in Workspaces \cup {Null} /\ thread[c] \in Threads \cup {Null}
  BY DEF Control, TypeOK
<1>2. ASSUME ReservationTransaction \/ ThreadTransaction \/ UNCHANGED storeVars  PROVE Transacts
  BY <1>2 DEF Transacts, StoreNext
<1>3. ASSUME NEW k, NEW t, StartCatalog(c, k, t)  PROVE UNCHANGED storeVars
  BY <1>3 DEF StartCatalog
<1>4. CASE ReserveCatalog(c)
  <2>1. workspace[c] \in Workspaces /\ kind[c] \in Operations
    BY <1>1, <1>4 DEF ReserveCatalog, CallOK, Equipped, Operations, CatalogKinds
  <2>2. ReservationTransaction \/ UNCHANGED storeVars
    BY <1>1, <1>4, <2>1 DEF ReserveCatalog, ReservationTransaction
  <2> QED BY <1>2, <2>2
<1>5. CASE SubmitCatalog(c) \/ FailCatalog(c)
  BY <1>1, <1>2, <1>5 DEF SubmitCatalog, FailCatalog, ReservationTransaction
<1>6. CASE CatalogAnswered(c)
  <2>1. thread[c] \in Threads
    BY <1>1, <1>6 DEF CatalogAnswered, Answered, CallOK, Equipped, Active, Gateless, CatalogKinds
  <2>2. (kind[c] = "archive") \in BOOLEAN  OBVIOUS
  <2>3. ReservationTransaction \/ ThreadTransaction
    BY <1>1, <1>6, <2>1, <2>2 DEF CatalogAnswered, File, ReservationTransaction, ThreadTransaction
  <2> QED BY <1>2, <2>3
<1>7. CASE Forget(c)
  <2>1. thread[c] \in Threads  BY <1>7, HasThread DEF Forget
  <2> QED BY <1>2, <1>7, <2>1 DEF Forget, ThreadTransaction
<1>8. CASE ReleaseCatalog(c)
  <2>1. Recovered(c) \in Reservations
    BY <1>1, <1>8 DEF ReleaseCatalog, Recovered, CallOK, InPlace, Equipped, TypeOK
  <2> QED BY <1>2, <1>8, <2>1 DEF ReleaseCatalog, ReservationTransaction
<1> QED BY <1>2, <1>3, <1>4, <1>5, <1>6, <1>7, <1>8 DEF Catalog

LEMMA SelectTransacts ==
  ASSUME Control, NEW c \in Calls, Select(c)
  PROVE  Transacts
<1>1. TypeOK /\ CallOK(c)  BY DEF Control
<1>2. ASSUME ThreadTransaction \/ UNCHANGED storeVars  PROVE Transacts
  BY <1>2 DEF Transacts, StoreNext
<1>3. ASSUME NEW t, NEW w, StartSelect(c, t, w)  PROVE UNCHANGED storeVars
  BY <1>3 DEF StartSelect
<1>4. CASE SelectIdle(c) \/ SelectPrepare(c)
  BY <1>2, <1>4 DEF SelectIdle, SelectPrepare
<1>5. ASSUME SelectBegin(c) \/ SubmitSwitch(c) \/ CommitSwitch(c) \/ FailSwitch(c)
      PROVE  thread[c] \in Threads
  BY <1>5, HasThread DEF SelectBegin, SubmitSwitch, CommitSwitch, FailSwitch, Answered
<1>6. CASE SelectBegin(c)
  <2>1. workspace[c] \in Workspaces  BY <1>1, <1>6 DEF SelectBegin, CallOK, InPlace, Equipped, TypeOK
  <2> QED BY <1>2, <1>5, <1>6, <2>1 DEF SelectBegin, ThreadTransaction
<1>7. CASE SubmitSwitch(c)
  <2>1. contract[c] \in Contracts  BY <1>1, <1>7 DEF SubmitSwitch, Answered, CallOK, Equipped, TypeOK
  <2> QED BY <1>2, <1>5, <1>7, <2>1 DEF SubmitSwitch, ThreadTransaction
<1>8. CASE CommitSwitch(c) \/ FailSwitch(c)
  BY <1>2, <1>5, <1>8 DEF CommitSwitch, FailSwitch, ThreadTransaction
<1> QED BY <1>2, <1>3, <1>4, <1>6, <1>7, <1>8 DEF Select

LEMMA TreatSweeps ==
  ASSUME Control, NEW c \in Calls, TreatItems(c)
  PROVE  Sweeps
<1>1. KeepsPlaces /\ UNCHANGED <<association, transitions>>
  BY DEF Control, TypeOK, StoreTypeOK, TreatItems, ChangeReservations, KeepsPlaces, Row
<1> QED BY <1>1 DEF Sweeps

LEMMA RecoverTransacts ==
  ASSUME Control, NEW c \in Calls, Recover(c)
  PROVE  Transacts
<1>1. TypeOK /\ CallOK(c)  BY DEF Control
<1>2. ASSUME ThreadTransaction \/ ReservationTransaction \/ UNCHANGED storeVars  PROVE Transacts
  BY <1>2 DEF Transacts, StoreNext
<1>3. CASE (\E t \in Threads : StartReconcile(c, t)) \/ (\E w \in Workspaces : StartReconcileWorkspace(c, w))
           \/ ReconcileExecution(c)
  BY <1>2, <1>3 DEF StartReconcile, StartReconcileWorkspace, ReconcileExecution
<1>4. CASE ReconcileTransition(c)
  <2>1. thread[c] \in Threads  BY <1>4, HasThread DEF ReconcileTransition
  <2>2. ThreadTransaction \/ UNCHANGED storeVars
    BY <1>4, <2>1 DEF ReconcileTransition, ThreadTransaction
  <2> QED BY <1>2, <2>2
<1>5. CASE ReconcileCatalog(c)
  <2>1. ReservationTransaction \/ UNCHANGED storeVars
    BY <1>5 DEF ReconcileCatalog, ReservationTransaction, ReservedBy
  <2> QED BY <1>2, <2>1
<1>6. CASE ArchiveVerified(c)
  <2>1. thread[c] \in Threads  BY <1>6, HasThread DEF ArchiveVerified
  <2>2. (Row(held[c]).operation = "archive") \in BOOLEAN  OBVIOUS
  <2>3. ThreadTransaction \/ UNCHANGED storeVars
    BY <1>6, <2>1, <2>2 DEF ArchiveVerified, File, ThreadTransaction
  <2> QED BY <1>2, <2>3
<1>7. CASE ReleaseIdle(c)
  <2>1. held[c] \in Reservations \cup {Null}  BY <1>1 DEF TypeOK
  <2> QED BY <1>2, <1>7, <2>1 DEF ReleaseIdle, ReservationTransaction
<1>8. CASE TreatItems(c)  BY <1>8, TreatSweeps DEF Transacts
<1> QED BY <1>2, <1>3, <1>4, <1>5, <1>6, <1>7, <1>8 DEF Recover

LEMMA NextTransacts ==
  ASSUME Typed, [Next]_vars
  PROVE  Transacts
<1>1. Control /\ Named /\ SourceTypeOK  BY DEF Typed, Control, TypeOK, Pipe
<1>2. ASSUME NEW c \in Calls, Step(c)  PROVE Transacts
  BY <1>1, <1>2, RunTransacts, CatalogTransacts, SelectTransacts, RecoverTransacts DEF Step
<1>3. CASE Deliver
  <2>1. CASE UNCHANGED storeVars  BY <2>1 DEF Transacts
  <2>2. CASE ~UNCHANGED storeVars
    <3>1. Head(events) \in Event /\ Head(events).type # "answer" /\ Notice(Head(events))
      BY <1>1, <1>3, <2>2, FirstEvent DEF Deliver
    <3>2. CASE Head(events).type = "deleted"
      BY <2>2, <3>1, <3>2, EventKinds DEF Notice, ThreadTransaction, Transacts, StoreNext
    <3>3. CASE Head(events).type # "deleted"
      <4>1. Head(events).thread \in Threads /\ Head(events).turn \in Turns  BY <3>1, <3>3, EventKinds
      <4>2. ObserveTurn(Head(events).thread, Head(events).turn, Head(events).type = "completed")
        BY <3>1, <3>3 DEF Notice
      <4>3. (Head(events).type = "completed") \in BOOLEAN  OBVIOUS
      <4> QED BY <4>1, <4>2, <4>3 DEF ThreadTransaction, Transacts, StoreNext
    <3> QED BY <3>2, <3>3
  <2> QED BY <2>1, <2>2
<1>4. CASE Lists
  <2>1. ThreadTransaction \/ UNCHANGED storeVars
    <3>1. CASE \E entry \in Listing : WriteIndex(entry.thread, entry.workspace, entry.archived)
      BY <3>1 DEF Listing, ThreadTransaction
    <3>2. CASE \E t \in Threads : ForgetThread(t)
      BY <3>2 DEF ThreadTransaction
    <3> QED BY <1>1, <1>4, <3>1, <3>2, ListsEffect
  <2> QED BY <2>1 DEF Transacts, StoreNext
<1>5. CASE ~(\E c \in Calls : Step(c)) /\ ~Deliver /\ ~Lists
  <2>1. UNCHANGED storeVars  BY <1>5 DEF Next, vars, Timeout, Source, SourceExit, Crash
  <2> QED BY <2>1 DEF Transacts
<1> QED BY <1>2, <1>3, <1>4, <1>5

LEMMA StoreHolds ==
  ASSUME Typed, StoreInv, [Next]_vars
  PROVE  StoreInv'
<1>1. StoreTypeOK /\ Transacts  BY NextTransacts DEF Typed, Control, TypeOK
<1>2. CASE [StoreNext]_storeVars  BY <1>1, <1>2, StoreInvStep
<1>3. CASE Sweeps  BY <1>1, <1>3, KeepsInv, SameTransitions DEF Sweeps
<1> QED BY <1>1, <1>2, <1>3 DEF Transacts

\* The exclusion of the tables also holds for the calls that use them, the
\* recovery that releases several rows in one step included.
THEOREM ExecutionExclusion == Spec => [](Typed /\ StoreInv)
<1>1. Init => StoreInv  BY StoreInvInit DEF Init
<1> QED BY <1>1, TypedInit, TypedStep, StoreHolds, PTL DEF Spec
=============================================================================
