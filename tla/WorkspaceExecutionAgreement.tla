---------------------- MODULE WorkspaceExecutionAgreement ----------------------
(***************************************************************************)
(* What the tables and the source agree on, whatever order the calls, the  *)
(* answers, the notifications and the crashes come in.                     *)
(***************************************************************************)
EXTENDS WorkspaceExecutionProofs

USE CallsAssumption, NullAssumption

----------------------------------------------------------------------------
(* Where a step of a call leads.                                           *)

\* A call has no row before it left these labels, and does not come back.
Early == {"idle", "reserve", "recoverRead"}

Leads(c) ==
  /\ pc[c] # "done" /\ pc'[c] # "idle"
  /\ pc[c] \notin Early => pc'[c] \notin Early
  /\ pc'[c] = "reserve" => pc[c] = "idle" \/ held'[c] # Null
  /\ pc'[c] = "reconcile" => pc[c] = "idle" \/ kind'[c] = "reconcileWorkspace"
  /\ pc'[c] = "items" => pc[c] = "idle" \/ (work'[c] = work[c] /\ pc[c] # "items" /\ kind[c] = "reconcileWorkspace")
  /\ held'[c] # Null =>
       /\ thread'[c] = thread[c]
       /\ held'[c] = held[c] \/ (held'[c] \in ReservedBy(thread[c]) /\ UNCHANGED storeVars)

LEMMA FinishLeads ==
  ASSUME TypeOK, NEW c \in Calls, pc[c] # "done", Finish(c)
  PROVE  Leads(c)
BY FinishEffect DEF Leads, Early

LEMMA ReturnLeads ==
  ASSUME TypeOK, NEW c \in Calls, pc[c] \notin {"done", "items"}, Return(c)
  PROVE  Leads(c)
BY ReturnEffect, FinishLeads DEF Return, Leads, Early

LEMMA ContinueLeads ==
  ASSUME TypeOK, NEW c \in Calls, pc[c] # "done", NEW l, Continue(c, l),
         l \notin {"idle", "recoverRead", "reconcile", "items"}, l = "reserve" => held[c] # Null /\ pc[c] \in Early
  PROVE  Leads(c)
BY DEF Continue, Goto, Leads, Early, TypeOK

LEMMA AskLeads ==
  ASSUME TypeOK, NEW c \in Calls, pc[c] # "done", NEW m, NEW l, Ask(c, m, l), UNCHANGED Registers,
         l \notin Early \cup {"reconcile", "items"}
  PROVE  Leads(c)
BY DEF Ask, Send, Goto, Registers, Leads, Early, TypeOK

LEMMA RunLeads ==
  ASSUME Control, NEW c \in Calls, Run(c)
  PROVE  Leads(c)
<1>1. TypeOK /\ CallOK(c)  BY DEF Control
<1>2. ASSUME NEW k, NEW t, NEW w, StartRun(c, k, t, w)  PROVE Leads(c)
  BY <1>1, <1>2 DEF StartRun, Leads, Early, TypeOK, CallOK, Equipped, Active
<1>3. CASE ReserveRun(c) \/ CheckIdle(c)
  BY <1>1, <1>3, AskLeads, ContinueLeads DEF ReserveRun, Reserved, CheckIdle, Answered, Early
<1>4. CASE ReserveRefused(c)
  <2>1. ASSUME NEW id \in StaleRollback(c), held' = [held EXCEPT ![c] = id], Ask(c, "read", "recoverRead"),
               UNCHANGED <<kind, thread, workspace, gate, contract, work>>
        PROVE  Leads(c)
    BY <1>1, <1>4, <2>1 DEF ReserveRefused, Ask, Send, Goto, Leads, Early, TypeOK, StaleRollback
  <2> QED BY <1>1, <1>4, <2>1, FinishLeads DEF ReserveRefused
<1>5. CASE RecoverRollback(c)
  BY <1>1, <1>5, FinishLeads, ContinueLeads DEF RecoverRollback, Early, CallOK, Equipped
<1>6. CASE FailRun(c) \/ ConfirmThread(c) \/ FinishTurn(c) \/ AcknowledgeMaintained(c)
  BY <1>1, <1>6, FinishLeads DEF FailRun, ConfirmThread, FinishTurn, AcknowledgeMaintained, Answered
<1>7. CASE CreateThread(c) \/ Submit(c) \/ Maintain(c)
  BY <1>1, <1>7, AskLeads DEF CreateThread, Submit, Maintain, Answered, Early
<1>8. CASE Bind(c) \/ AcknowledgeTurn(c)
  BY <1>1, <1>8, ContinueLeads DEF Bind, AcknowledgeTurn, Answered
<1>9. CASE IndexThread(c)
  BY <1>1, <1>9 DEF IndexThread, Answered, Goto, Leads, Early, TypeOK, CallOK, InPlace, Equipped
<1> QED BY <1>2, <1>3, <1>4, <1>5, <1>6, <1>7, <1>8, <1>9 DEF Run

LEMMA CatalogLeads ==
  ASSUME Control, NEW c \in Calls, Catalog(c)
  PROVE  Leads(c)
<1>1. TypeOK /\ CallOK(c)  BY DEF Control
<1>2. ASSUME NEW k, NEW t, StartCatalog(c, k, t)  PROVE Leads(c)
  BY <1>1, <1>2 DEF StartCatalog, Leads, Early, TypeOK, CallOK, Equipped, Active
<1>3. CASE ReserveCatalog(c) \/ CatalogAnswered(c) \/ Forget(c)
  BY <1>1, <1>3, FinishLeads, ContinueLeads DEF ReserveCatalog, CatalogAnswered, Forget, Answered
<1>4. CASE SubmitCatalog(c)
  BY <1>1, <1>4, AskLeads DEF SubmitCatalog, Early
<1>5. CASE FailCatalog(c) \/ ReleaseCatalog(c)
  BY <1>1, <1>5, FinishLeads, ReturnLeads DEF FailCatalog, ReleaseCatalog
<1> QED BY <1>2, <1>3, <1>4, <1>5 DEF Catalog

LEMMA SelectLeads ==
  ASSUME Control, NEW c \in Calls, Select(c)
  PROVE  Leads(c)
<1>1. TypeOK /\ CallOK(c)  BY DEF Control
<1>2. ASSUME NEW t, NEW w, StartSelect(c, t, w)  PROVE Leads(c)
  BY <1>1, <1>2 DEF StartSelect, Leads, Early, TypeOK, CallOK, Equipped, Active
<1>3. CASE SelectIdle(c) \/ SelectBegin(c)
  BY <1>1, <1>3, FinishLeads, ContinueLeads DEF SelectIdle, SelectBegin
<1>4. CASE SelectPrepare(c) \/ SubmitSwitch(c)
  BY <1>1, <1>4 DEF SelectPrepare, SubmitSwitch, Answered, Send, Goto, Registers, Leads, Early, TypeOK, CallOK, Equipped
<1>5. CASE CommitSwitch(c) \/ FailSwitch(c)
  BY <1>1, <1>5, FinishLeads, ReturnLeads DEF CommitSwitch, FailSwitch, Answered
<1> QED BY <1>2, <1>3, <1>4, <1>5 DEF Select

LEMMA RecoverLeads ==
  ASSUME Control, NEW c \in Calls, Recover(c)
  PROVE  Leads(c)
<1>1. TypeOK /\ CallOK(c)  BY DEF Control
<1>2. ASSUME NEW t, StartReconcile(c, t)  PROVE Leads(c)
  BY <1>1, <1>2 DEF StartReconcile, Leads, Early, TypeOK, CallOK, Equipped, Active
<1>3. ASSUME NEW w, StartReconcileWorkspace(c, w)  PROVE Leads(c)
  BY <1>1, <1>3 DEF StartReconcileWorkspace, Leads, Early, TypeOK, CallOK, Equipped, Active
<1>4. CASE ReconcileTransition(c)
  <2>1. CASE Return(c) \/ Finish(c)
    BY <1>1, <1>4, <2>1, FinishLeads, ReturnLeads DEF ReconcileTransition
  <2>2. CASE ~(Return(c) \/ Finish(c))
    BY <1>1, <1>4, <2>2 DEF ReconcileTransition, Send, Goto, Leads, Early, TypeOK, CallOK, Equipped
  <2> QED BY <2>1, <2>2
<1>5. CASE ReconcileCatalog(c)
  <2>1. CASE Return(c) \/ Finish(c)
    BY <1>1, <1>5, <2>1, FinishLeads, ReturnLeads DEF ReconcileCatalog
  <2>2. CASE ~(Return(c) \/ Finish(c))
    <3>1. PICK id \in ReservedBy(thread[c]) :
            /\ held' = [held EXCEPT ![c] = id]
            /\ Goto(c, "forget") \/ Goto(c, "evidence")
            /\ UNCHANGED storeVars /\ UNCHANGED thread
      BY <1>5, <2>2 DEF ReconcileCatalog
    <3>2. pc[c] = "reconcile"  BY <1>5 DEF ReconcileCatalog
    <3> QED BY <1>1, <3>1, <3>2 DEF Goto, Leads, Early, TypeOK
  <2> QED BY <2>1, <2>2
<1>6. CASE ReconcileExecution(c)
  <2>1. CASE Finish(c)
    BY <1>1, <1>6, <2>1, FinishLeads DEF ReconcileExecution
  <2>2. CASE ~Finish(c)
    <3>1. /\ pc[c] = "reconcile" /\ pc' = [pc EXCEPT ![c] = "idleRead"] /\ UNCHANGED storeVars /\ UNCHANGED thread
          /\ \/ UNCHANGED held
             \/ \E id \in ReservedBy(thread[c]) : held' = [held EXCEPT ![c] = id]
      BY <1>6, <2>2 DEF ReconcileExecution, Goto
    <3> QED BY <1>1, <3>1 DEF Leads, Early, TypeOK
  <2> QED BY <2>1, <2>2
<1>7. CASE ArchiveVerified(c) \/ ReleaseIdle(c)
  BY <1>1, <1>7, FinishLeads, ReturnLeads, ContinueLeads DEF ArchiveVerified, ReleaseIdle
<1>8. CASE TreatItems(c)
  <2>1. CASE Finish(c)
    BY <1>1, <1>8, <2>1, FinishLeads DEF TreatItems
  <2>2. CASE ~Finish(c)
    <3>1. pc[c] = "items" /\ pc' = [pc EXCEPT ![c] = "reconcile"] /\ UNCHANGED <<kind, held>>
      BY <1>8, <2>2 DEF TreatItems, Goto
    <3> QED BY <1>1, <3>1 DEF Leads, Early, TypeOK, CallOK, InPlace, Equipped
  <2> QED BY <2>1, <2>2
<1> QED BY <1>2, <1>3, <1>4, <1>5, <1>6, <1>7, <1>8 DEF Recover

LEMMA StepLeads ==
  ASSUME Control, NEW c \in Calls, Step(c)
  PROVE  Leads(c)
BY RunLeads, CatalogLeads, SelectLeads, RecoverLeads DEF Step

\* A step changes no transition but the one of its own thread, and never where
\* that one leads.
Shifts(c, t) ==
  /\ t = thread[c] /\ gate[c] = thread[c] /\ t # Null
  /\ \/ pc[c] = "selectBegin" /\ pc'[c] = "selectPrepare" /\ transitions[t] = Null
        /\ CanBegin(t, workspace[c])
        /\ transitions'[t] = [from |-> association[t], to |-> workspace[c], state |-> "preparing", contract |-> Null]
     \/ pc[c] = "selectRead" /\ pc'[c] = "switch" /\ transitions[t] # Null
        /\ reply[c] # Null /\ reply[c].result = "idle" /\ transitions[t].contract \in {Null, contract[c]}
        /\ transitions'[t] = [transitions[t] EXCEPT !.state = "submitting", !.contract = contract[c]]
     \/ pc[c] = "switch" /\ Commits(c, t) /\ Return(c)
     \/ pc[c] \in {"selectPrepare", "selectRead", "switch", "reconcile"} /\ transitions[t] # Null
        /\ \/ transitions[t].state = "preparing" /\ transitions'[t] = Null /\ (Return(c) \/ Finish(c))
           \/ transitions[t].state # "preparing" /\ transitions'[t] = [transitions[t] EXCEPT !.state = "uncertain"]
              /\ Finish(c)

LEMMA StepShifts ==
  ASSUME Control, NEW c \in Calls, Step(c), NEW t \in Threads, transitions'[t] # transitions[t]
  PROVE  Shifts(c, t)
<1>1. TypeOK /\ StoreTypeOK /\ CallOK(c)  BY DEF Control, TypeOK
<1>2. CASE Run(c) \/ Catalog(c)
  <2>1. UNCHANGED transitions
    BY <1>2 DEF Run, StartRun, ReserveRun, ReserveRefused, RecoverRollback, CheckIdle, FailRun, CreateThread, IndexThread,
         ConfirmThread, Bind, Submit, Maintain, AcknowledgeTurn, FinishTurn, AcknowledgeMaintained, storeVars, WriteIndex,
         Reserve, Release, Fail, SubmittingCreation, ConfirmCreation, Submitting, Acknowledge, AcknowledgeMaintenance,
         ChangeReservations, BindThread, ForgetThread,
         Catalog, StartCatalog, ReserveCatalog, SubmitCatalog, CatalogAnswered, FailCatalog, ReleaseCatalog, Forget,
         ConfirmDeletion, File, WriteArchiveState
  <2> QED BY <2>1
<1>3. ASSUME pc[c] \in {"selectBegin", "selectPrepare", "selectRead", "switch", "reconcile"}
      PROVE  thread[c] \in Threads /\ gate[c] = thread[c] /\ thread[c] # Null
  BY <1>3, HasThread
<1>4. ASSUME FailTransition(thread[c]), thread[c] \in Threads
      PROVE  /\ t = thread[c] /\ transitions[t] # Null
             /\ \/ transitions[t].state = "preparing" /\ transitions'[t] = Null
                \/ transitions[t].state # "preparing" /\ transitions'[t] = [transitions[t] EXCEPT !.state = "uncertain"]
  BY <1>1, <1>4 DEF FailTransition, ChangeTransitions, StoreTypeOK
<1>5. CASE Select(c)
  <2>1. CASE SelectBegin(c)
    <3>1. pc[c] = "selectBegin" /\ BeginTransition(thread[c], workspace[c]) /\ pc' = [pc EXCEPT ![c] = "selectPrepare"]
      BY <2>1 DEF SelectBegin, storeVars, Continue, Goto
    <3>2. t = thread[c] /\ CanBegin(t, workspace[c])
          /\ transitions'[t] = [from |-> association[t], to |-> workspace[c], state |-> "preparing", contract |-> Null]
      BY <1>1, <1>3, <3>1 DEF BeginTransition, ChangeTransitions, StoreTypeOK
    <3>3. pc'[c] = "selectPrepare"  BY <1>1, <3>1 DEF TypeOK
    <3> QED BY <1>3, <3>1, <3>2, <3>3 DEF Shifts, CanBegin
  <2>2. CASE SubmitSwitch(c)
    <3>1. t = thread[c] /\ CanSubmitTransition(t, contract[c])
          /\ transitions'[t] = [transitions[t] EXCEPT !.state = "submitting", !.contract = contract[c]]
      BY <1>1, <1>3, <2>2 DEF SubmitSwitch, Answered, SubmittingTransition, ChangeTransitions, StoreTypeOK
    <3>2. pc[c] = "selectRead" /\ pc'[c] = "switch" /\ reply[c] # Null /\ reply[c].result = "idle"
      BY <1>1, <2>2 DEF SubmitSwitch, Answered, Goto, TypeOK
    <3> QED BY <1>3, <3>1, <3>2 DEF Shifts, CanSubmitTransition
  <2>3. CASE CommitSwitch(c)
    <3>1. pc[c] = "switch" /\ Return(c) /\ CommitTransition(thread[c]) /\ reply[c] # Null /\ reply[c].result = "ok"
      BY <2>3 DEF CommitSwitch, Answered
    <3>2. t = thread[c]
      BY <1>1, <1>3, <3>1 DEF CommitTransition, StoreTypeOK
    <3> QED BY <1>1, <1>3, <3>1, <3>2 DEF CommitTransition, StoreTypeOK, Commits, Shifts
  <2>4. CASE FailSwitch(c)
    BY <1>3, <1>4, <2>4 DEF FailSwitch, Shifts
  <2>5. CASE Select(c) /\ ~SelectBegin(c) /\ ~SubmitSwitch(c) /\ ~CommitSwitch(c) /\ ~FailSwitch(c)
    <3>1. UNCHANGED transitions
      BY <2>5 DEF Select, StartSelect, SelectIdle, SelectPrepare, storeVars
    <3> QED BY <3>1
  <2> QED BY <1>5, <2>1, <2>2, <2>3, <2>4, <2>5
<1>6. CASE Recover(c)
  <2>1. CASE ReconcileTransition(c)
    <3>1. pc[c] = "reconcile"  BY <2>1 DEF ReconcileTransition
    <3>2. \/ transitions[thread[c]].state = "preparing" /\ FailTransition(thread[c]) /\ Return(c)
          \/ transitions[thread[c]].state # "preparing" /\ FailTransition(thread[c]) /\ Finish(c)
      BY <2>1 DEF ReconcileTransition, storeVars
    <3> QED BY <1>3, <1>4, <3>1, <3>2 DEF Shifts
  <2>2. CASE Recover(c) /\ ~ReconcileTransition(c)
    <3>1. UNCHANGED transitions
      BY <2>2 DEF Recover, StartReconcile, StartReconcileWorkspace, ReconcileCatalog, ArchiveVerified,
         ReconcileExecution, ReleaseIdle, TreatItems, storeVars, File, WriteArchiveState, Release, ChangeReservations
    <3> QED BY <3>1
  <2> QED BY <1>6, <2>1, <2>2
<1> QED BY <1>2, <1>5, <1>6 DEF Step

\* Registers that outlive a step.
Retains(c) ==
  /\ pc[c] # "idle" => kind'[c] = kind[c] /\ workspace'[c] = workspace[c]
  /\ pc[c] \notin {"idle", "items"} /\ pc'[c] # "done" => work'[c] = work[c]
  /\ pc[c] \notin {"idle", "items", "newThread"} /\ pc'[c] # "items" => thread'[c] = thread[c]
  /\ pc[c] = "idle" => UNCHANGED storeVars

LEMMA FinishRetains ==
  ASSUME TypeOK, NEW c \in Calls, pc[c] # "idle", Finish(c)
  PROVE  Retains(c)
BY FinishEffect DEF Retains

LEMMA ReturnRetains ==
  ASSUME TypeOK, NEW c \in Calls, pc[c] # "idle", Return(c)
  PROVE  Retains(c)
BY ReturnEffect, FinishRetains DEF Return, Retains

LEMMA ContinueRetains ==
  ASSUME TypeOK, NEW c \in Calls, pc[c] # "idle",
         (\E l : Continue(c, l)) \/ UNCHANGED Registers
  PROVE  Retains(c)
BY DEF Continue, Registers, Retains, TypeOK

LEMMA StepRetains ==
  ASSUME Control, NEW c \in Calls, Step(c)
  PROVE  Retains(c)
<1>1. TypeOK  BY DEF Control
<1>2. CASE Run(c)
  <2>1. ASSUME NEW k, NEW t, NEW w, StartRun(c, k, t, w)  PROVE Retains(c)
    BY <1>1, <2>1 DEF StartRun, Retains, TypeOK
  <2>2. CASE ReserveRun(c) \/ CheckIdle(c) \/ CreateThread(c) \/ Submit(c) \/ Maintain(c) \/ Bind(c) \/ AcknowledgeTurn(c)
    BY <1>1, <2>2, ContinueRetains
    DEF ReserveRun, Reserved, CheckIdle, CreateThread, Submit, Maintain, Bind, AcknowledgeTurn, Answered
  <2>3. CASE ReserveRefused(c) \/ RecoverRollback(c)
    BY <1>1, <2>3, FinishRetains, ContinueRetains DEF ReserveRefused, RecoverRollback, Retains
  <2>4. CASE FailRun(c) \/ ConfirmThread(c) \/ FinishTurn(c) \/ AcknowledgeMaintained(c)
    BY <1>1, <2>4, FinishRetains DEF FailRun, ConfirmThread, FinishTurn, AcknowledgeMaintained, Answered
  <2>5. CASE IndexThread(c)
    BY <1>1, <2>5 DEF IndexThread, Answered, Retains
  <2> QED BY <1>2, <2>1, <2>2, <2>3, <2>4, <2>5 DEF Run
<1>3. CASE Catalog(c)
  <2>1. ASSUME NEW k, NEW t, StartCatalog(c, k, t)  PROVE Retains(c)
    BY <1>1, <2>1 DEF StartCatalog, Retains, TypeOK
  <2>2. CASE Catalog(c) /\ ~(\E k \in Kinds \cap CatalogKinds, t \in Threads : StartCatalog(c, k, t))
    BY <1>1, <2>2, FinishRetains, ReturnRetains, ContinueRetains
    DEF Catalog, ReserveCatalog, SubmitCatalog, CatalogAnswered, FailCatalog, Forget, ReleaseCatalog, Answered
  <2> QED BY <1>3, <2>1, <2>2
<1>4. CASE Select(c)
  <2>1. ASSUME NEW t, NEW w, StartSelect(c, t, w)  PROVE Retains(c)
    BY <1>1, <2>1 DEF StartSelect, Retains
  <2>2. CASE Select(c) /\ ~(\E t \in Threads, w \in Workspaces : StartSelect(c, t, w))
    BY <1>1, <2>2, FinishRetains, ReturnRetains, ContinueRetains
    DEF Select, SelectIdle, SelectBegin, SelectPrepare, SubmitSwitch, CommitSwitch, FailSwitch, Answered, Retains
  <2> QED BY <1>4, <2>1, <2>2
<1>5. CASE Recover(c)
  <2>1. CASE (\E t \in Threads : StartReconcile(c, t)) \/ (\E w \in Workspaces : StartReconcileWorkspace(c, w))
    BY <1>1, <2>1 DEF StartReconcile, StartReconcileWorkspace, Retains, TypeOK
  <2>2. CASE TreatItems(c)
    BY <1>1, <2>2, FinishRetains DEF TreatItems, Retains
  <2>3. CASE ReconcileTransition(c) \/ ReconcileExecution(c)
    BY <1>1, <2>3, FinishRetains, ReturnRetains DEF ReconcileTransition, ReconcileExecution, Retains
  <2>4. CASE ReconcileCatalog(c)
    BY <1>1, <2>4, FinishRetains, ReturnRetains DEF ReconcileCatalog, Retains
  <2>5. CASE ArchiveVerified(c) \/ ReleaseIdle(c)
    BY <1>1, <2>5, FinishRetains, ReturnRetains, ContinueRetains DEF ArchiveVerified, ReleaseIdle
  <2> QED BY <1>5, <2>1, <2>2, <2>3, <2>4, <2>5 DEF Recover
<1> QED BY <1>2, <1>3, <1>4, <1>5 DEF Step

\* Whose reservation a step of a call deletes, and on what evidence.
Frees(c, i) ==
  \/ /\ i = c
     /\ \/ pc[c] = "confirm"
        \/ pc[c] = "release" /\ kind[c] \in CatalogKinds
        \/ Row(c).state \in {"preparing", "completed"} /\ (FailRun(c) \/ FailCatalog(c))
        \/ /\ pc[c] = "await" /\ reply[c] # Null /\ reply[c].result = "ok"
           /\ Row(c).state = "completed" \/ kind[c] = "rollback"
  \/ i = held[c] /\ pc[c] \in {"recoverRead", "idleRead"} /\ reply[c] # Null /\ reply[c].result = "idle"
  \/ i = held[c] /\ pc[c] = "release" /\ kind[c] \in Reconciles
  \/ /\ i \in ReservedBy(thread[c]) /\ thread[c] \in Threads /\ pc[c] = "reconcile" /\ transitions[thread[c]] = Null
     /\ Row(i).operation \in CatalogKinds /\ Row(i).state = "preparing"
  \/ pc[c] = "items" /\ \E item \in Remaining(c).items : item.id = i /\ item.thread = Null /\ item.state = "preparing"

LEMMA StepFrees ==
  ASSUME Typed, NEW c \in Calls, Step(c), NEW i \in Calls, Live(i), reservations'[i] = Null
  PROVE  Frees(c, i)
<1>1. /\ TypeOK /\ StoreTypeOK /\ CallOK(c) /\ c \in Reservations /\ i \in Reservations
      /\ Control /\ Rows /\ Named
  BY DEF Typed, Control, TypeOK, Pipe
<1>2. ASSUME UNCHANGED reservations  PROVE FALSE  BY <1>2 DEF Live, Row
<1>3. ASSUME NEW id \in Reservations, Release(id)  PROVE i = id
  BY <1>1, <1>3, ReleaseRow DEF OtherRowsKeep, Live, Row
<1>4. CASE Run(c)
  <2>1. CASE Run(c) /\ ~ReserveRun(c) /\ ~RecoverRollback(c) /\ ~FailRun(c) /\ ~CreateThread(c) /\ ~ConfirmThread(c)
             /\ ~Bind(c) /\ ~Submit(c) /\ ~AcknowledgeTurn(c) /\ ~AcknowledgeMaintained(c)
    <3>1. UNCHANGED reservations
      BY <2>1 DEF Run, StartRun, ReserveRefused, CheckIdle, IndexThread, Maintain, FinishTurn, storeVars, WriteIndex
    <3> QED BY <1>2, <3>1
  <2>2. CASE ReserveRun(c)
    BY <1>1, <2>2, ReserveRow DEF ReserveRun, OtherRowsKeep, Live, Row
  <2>3. CASE RecoverRollback(c)
    <3>1. held[c] \in Reservations  BY <1>1, <2>3 DEF RecoverRollback, CallOK, Equipped, TypeOK
    <3> QED BY <1>2, <1>3, <2>3, <3>1 DEF RecoverRollback, Frees, storeVars
  <2>4. CASE FailRun(c)
    <3>1. Fail(c)  BY <2>4 DEF FailRun
    <3> QED BY <1>1, <2>4, <3>1, FailRow DEF OtherRowsKeep, Live, Row, Frees
  <2>5. CASE CreateThread(c)
    BY <1>1, <1>2, <2>5, SubmittingRow DEF CreateThread, OtherRowsKeep, Live, Row, storeVars
  <2>6. CASE ConfirmThread(c)
    BY <1>1, <2>6, ConfirmCreationRow DEF ConfirmThread, OtherRowsKeep, Live, Row, Frees
  <2>7. CASE Bind(c)
    <3>1. thread[c] \in Threads
      BY <1>1, <2>7 DEF Bind, Named, TypeOK
    <3> QED BY <1>1, <2>7, <3>1, BindRow DEF Bind, OtherRowsKeep, Live, Row
  <2>8. CASE Submit(c)
    BY <1>1, <2>8, SubmittingRow DEF Submit, OtherRowsKeep, Live, Row
  <2>9. CASE AcknowledgeTurn(c)
    BY <1>1, <2>9, AcknowledgeRow DEF AcknowledgeTurn, Answered, OtherRowsKeep, Live, Row, Frees
  <2>10. CASE AcknowledgeMaintained(c)
    <3>1. RowOK(c)  BY <1>1 DEF Rows
    <3>2. Row(c).operation = "rollback" => kind[c] = "rollback"
      BY <1>1, <2>10, <3>1, AcknowledgeMaintenanceRow DEF AcknowledgeMaintained, Answered, RowOK, Operation, MaintenanceKinds
    <3> QED BY <1>1, <2>10, <3>2, AcknowledgeMaintenanceRow DEF AcknowledgeMaintained, Answered, OtherRowsKeep, Live, Row, Frees
  <2> QED BY <1>4, <2>1, <2>2, <2>3, <2>4, <2>5, <2>6, <2>7, <2>8, <2>9, <2>10
<1>5. CASE Catalog(c)
  <2>1. CASE (\E k \in Kinds \cap CatalogKinds, t \in Threads : StartCatalog(c, k, t)) \/ Forget(c)
    BY <1>2, <2>1 DEF StartCatalog, Forget, ForgetThread, storeVars
  <2>2. CASE ReserveCatalog(c)
    BY <1>1, <1>2, <2>2, ReserveRow DEF ReserveCatalog, OtherRowsKeep, Live, Row, storeVars
  <2>3. CASE SubmitCatalog(c)
    BY <1>1, <2>3, SubmittingRow DEF SubmitCatalog, OtherRowsKeep, Live, Row
  <2>4. CASE CatalogAnswered(c)
    BY <1>1, <1>2, <2>4, ConfirmDeletionRow DEF CatalogAnswered, File, WriteArchiveState, OtherRowsKeep, Live, Row
  <2>5. CASE FailCatalog(c)
    <3>1. Fail(c)  BY <2>5 DEF FailCatalog
    <3> QED BY <1>1, <2>5, <3>1, FailRow DEF OtherRowsKeep, Live, Row, Frees
  <2>6. CASE ReleaseCatalog(c)
    <3>1. Recovered(c) \in Reservations
      BY <1>1, <2>6 DEF ReleaseCatalog, Recovered, CallOK, InPlace, Equipped, TypeOK
    <3> QED BY <1>1, <1>3, <2>6, <3>1 DEF ReleaseCatalog, Recovered, Frees, CallOK, InPlace
  <2> QED BY <1>5, <2>1, <2>2, <2>3, <2>4, <2>5, <2>6 DEF Catalog
<1>6. CASE Select(c)
  <2>1. UNCHANGED reservations
    BY <1>6 DEF Select, StartSelect, SelectIdle, SelectBegin, SelectPrepare, SubmitSwitch, CommitSwitch, FailSwitch,
         storeVars, BeginTransition, SubmittingTransition, CommitTransition, FailTransition, ChangeTransitions
  <2> QED BY <1>2, <2>1
<1>7. CASE Recover(c)
  <2>1. CASE ReconcileCatalog(c)
    <3>1. thread[c] \in Threads  BY <1>1, <2>1, HasThread DEF ReconcileCatalog
    <3>2. PICK id \in ReservedBy(thread[c]) :
            /\ Row(id).operation \in CatalogKinds
            /\ (Row(id).state = "preparing" /\ Release(id)) \/ UNCHANGED storeVars
      BY <2>1 DEF ReconcileCatalog
    <3>3. i = id /\ Row(id).state = "preparing"  BY <1>2, <1>3, <3>2 DEF ReservedBy, storeVars
    <3> QED BY <2>1, <3>1, <3>2, <3>3 DEF ReconcileCatalog, Frees
  <2>2. CASE ReleaseIdle(c)
    <3>1. held[c] \in Reservations \cup {Null}  BY <1>1 DEF TypeOK
    <3> QED BY <1>2, <1>3, <2>2, <3>1 DEF ReleaseIdle, Frees, storeVars
  <2>3. CASE TreatItems(c)
    <3>1. PICK undispatched \in SUBSET {item \in Remaining(c).items : item.thread = Null /\ item.state = "preparing"} :
            reservations' = [id \in Reservations |-> IF \E item \in undispatched : item.id = id THEN Null ELSE Row(id)]
      BY <2>3 DEF TreatItems, ChangeReservations
    <3>2. \E item \in undispatched : item.id = i
      BY <1>1, <3>1 DEF Live
    <3> QED BY <2>3, <3>1, <3>2 DEF TreatItems, Frees
  <2>4. CASE Recover(c) /\ ~ReconcileCatalog(c) /\ ~ReleaseIdle(c) /\ ~TreatItems(c)
    <3>1. UNCHANGED reservations
      BY <2>4 DEF Recover, StartReconcile, StartReconcileWorkspace, ReconcileTransition, ArchiveVerified,
         ReconcileExecution, storeVars, FailTransition, ChangeTransitions, File, WriteArchiveState
    <3> QED BY <1>2, <3>1
  <2> QED BY <1>7, <2>1, <2>2, <2>3, <2>4
<1> QED BY <1>4, <1>5, <1>6, <1>7 DEF Step

\* A reservation is written by the step that checks for it.
Reserves(c) ==
  /\ pc[c] = "reserve" /\ CanReserve(workspace[c], thread[c])
  /\ reservations'[c].thread = thread[c]
  /\ UNCHANGED <<kind, thread, workspace, association, transitions>>

LEMMA StepReserves ==
  ASSUME Typed, NEW c \in Calls, Step(c), ~Live(c), reservations'[c] # Null
  PROVE  Reserves(c)
<1>1. /\ TypeOK /\ StoreTypeOK /\ CallOK(c) /\ c \in Reservations
      /\ Control /\ Named /\ RowOK(c) /\ RowOK(c)'
  BY StepRows DEF Typed, Control, TypeOK, Pipe, Rows, RowsMoved
<1>2. pc[c] = "reserve" /\ pc'[c] \in {"prepare", "checkRead", "submit"}
  BY <1>1, StepRows DEF Typed, Rows, RowsMoved, Grows
<1>3. CASE Run(c)
  <2>1. ReserveRun(c)
    <3>1. ~ReserveRefused(c)
      BY <1>1, <1>2, FinishEffect DEF ReserveRefused, Ask, Goto, TypeOK
    <3> QED BY <1>2, <1>3, <3>1 DEF Run, StartRun, RecoverRollback, CheckIdle, FailRun, CreateThread, IndexThread,
         ConfirmThread, Bind, Submit, Maintain, AcknowledgeTurn, FinishTurn, AcknowledgeMaintained, Answered
  <2>2. Reserve(c, workspace[c], thread[c], Operation(kind[c])) /\ UNCHANGED <<kind, thread, workspace>>
    BY <2>1 DEF ReserveRun, Reserved, Continue, Registers
  <2>3. reservations'[c].thread = thread[c]
    <3>1. reservations'[c] = [workspace |-> workspace[c], thread |-> thread[c], turn |-> Null, state |-> "preparing",
                              operation |-> Operation(kind[c]), acknowledged |-> FALSE]
      BY <1>1, <2>2, ReserveRow
    <3> QED BY <3>1
  <2> QED BY <1>2, <2>2, <2>3 DEF Reserves, Reserve, ChangeReservations
<1>4. CASE Catalog(c)
  <2>1. ReserveCatalog(c)
    BY <1>2, <1>4 DEF Catalog, StartCatalog, SubmitCatalog, CatalogAnswered, FailCatalog, Forget, ReleaseCatalog, Answered
  <2>2. Reserve(c, workspace[c], thread[c], kind[c]) /\ UNCHANGED <<kind, thread, workspace>>
    BY <1>1, <1>2, <2>1, FinishEffect DEF ReserveCatalog, Continue
  <2>3. reservations'[c].thread = thread[c]
    <3>1. reservations'[c] = [workspace |-> workspace[c], thread |-> thread[c], turn |-> Null, state |-> "preparing",
                              operation |-> kind[c], acknowledged |-> FALSE]
      BY <1>1, <2>2, ReserveRow
    <3> QED BY <3>1
  <2> QED BY <1>2, <2>2, <2>3 DEF Reserves, Reserve, ChangeReservations
<1>5. CASE Select(c)
  BY <1>2, <1>5
  DEF Select, StartSelect, SelectIdle, SelectBegin, SelectPrepare, SubmitSwitch, CommitSwitch, FailSwitch, Answered
<1>6. CASE Recover(c)
  BY <1>2, <1>6 DEF Recover, StartReconcile, StartReconcileWorkspace, ReconcileTransition, ReconcileCatalog, ArchiveVerified,
         ReconcileExecution, ReleaseIdle, TreatItems
<1> QED BY <1>3, <1>4, <1>5, <1>6 DEF Step

----------------------------------------------------------------------------
(* Creations that nothing can confirm: what the recoveries list.           *)

\* A call that has begun and looked at nothing yet: the event loop runs it on
\* before anything else happens.
Starting(c) ==
  \/ pc[c] = "reserve" /\ held[c] = Null
  \/ pc[c] = "reconcile" /\ kind[c] = "reconcile"
  \/ pc[c] = "items" /\ work[c].stage = "transitions" /\ work[c].items # {}

Solo == \A c, d \in Calls : Starting(c) /\ c # d => ~Runnable(d)

\* A recovery of a workspace that has not listed the reservations yet.
Scanning(c) == Active(c) /\ kind[c] = "reconcileWorkspace" /\ work[c].stage = "transitions"

\* It treats the one transition there can be, which excludes reservations.
WorkFirst ==
  \A c \in Calls : Scanning(c) =>
    /\ \A i, j \in work[c].items : i = j
    /\ \A i \in work[c].items : i.thread \in Threads /\ transitions[i.thread] # Null /\ workspace[c] \in Ends(i.thread)
    /\ pc[c] # "items" => work[c] = NoWork /\ transitions[thread[c]] # Null /\ workspace[c] \in Ends(thread[c])

\* The reservation of a call that goes on and began without a thread.
Roaming(c) == Active(c) /\ kind[c] \in Gateless /\ Live(c)

WorkClear == \A c, d \in Calls : Scanning(c) /\ Roaming(d) => workspace[d] # workspace[c]

\* A row that was listed as undispatched and for no thread still is, for its
\* call is over.
Undispatched(id) == Row(id).state = "preparing" /\ Row(id).thread = Null

WorkListed ==
  \A c \in Calls : \A i \in work[c].items : i.thread = Null /\ i.state = "preparing" =>
    i.id \in Calls /\ pc[i.id] = "done" /\ (Live(i.id) => Undispatched(i.id))

\* A reservation that a recovery holds is one of its thread.
HeldRow ==
  \A c \in Calls : held[c] # Null =>
    pc[held[c]] \notin Early /\ (Live(held[c]) => Row(held[c]).thread = thread[c])

Listed == Solo /\ WorkFirst /\ WorkClear /\ WorkListed /\ HeldRow
Recoverable == Typed /\ StoreInv /\ Listed

LEMMA StartingRuns ==
  ASSUME NEW c \in Calls, Starting(c)
  PROVE  Queued(c) /\ Runnable(c)
BY DEF Starting, Queued, Runnable, Between

\* Nobody else steps while a call starts.
LEMMA StartingAlone ==
  ASSUME Solo, NEW c \in Calls, MayRun(c), NEW a \in Calls, Starting(a)
  PROVE  a = c
BY StartingRuns DEF Solo, MayRun, LoopIsIdle

LEMMA StepSolo ==
  ASSUME Recoverable, NEW c \in Calls, MayRun(c), Step(c)
  PROVE  Solo'
<1>1. Control /\ CallOK(c) /\ TypeOK  BY DEF Recoverable, Typed, Control
<1>2. Leads(c) /\ OthersKeep(c) /\ Retains(c)
  BY <1>1, StepLeads, StepMoved, StepRetains DEF Moved
<1>3. ASSUME NEW a \in Calls, NEW b \in Calls, Starting(a)', a # b  PROVE ~Runnable(b)'
  <2>1. CASE a # c
    <3>1. Starting(a)  BY <1>2, <1>3, <2>1 DEF OthersKeep, Starting
    <3> QED BY <2>1, <3>1, StartingAlone DEF Recoverable, Listed
  <2>2. CASE a = c
    <3>1. pc[c] = "idle"
      <4>1. CASE pc'[c] = "reserve"
        BY <1>2, <1>3, <2>2, <4>1 DEF Leads, Starting
      <4>2. CASE pc'[c] = "reconcile"
        BY <1>2, <1>3, <2>2, <4>2 DEF Leads, Starting
      <4>3. CASE pc'[c] = "items"
        <5>1. SUFFICES ASSUME pc[c] # "idle" PROVE FALSE  OBVIOUS
        <5>2. work'[c] = work[c] /\ pc[c] # "items" /\ kind[c] = "reconcileWorkspace" /\ pc[c] # "done"
          BY <1>2, <4>3, <5>1 DEF Leads
        <5>3. Scanning(c) /\ work[c].items # {}
          BY <1>3, <2>2, <4>3, <5>1, <5>2 DEF Starting, Scanning, Active
        <5> QED BY <5>2, <5>3 DEF Recoverable, Listed, WorkFirst, NoWork
      <4> QED BY <1>3, <2>2, <4>1, <4>2, <4>3 DEF Starting
    <3>2. LoopIsIdle  BY <3>1 DEF MayRun, Runnable, Queued, Between, Waiting
    <3> QED BY <1>2, <1>3, <2>2, <3>2 DEF LoopIsIdle, OthersKeep, Runnable, Queued
  <2> QED BY <2>1, <2>2
<1> QED BY <1>3 DEF Solo

LEMMA ItemsStep ==
  ASSUME NEW c \in Calls, Step(c), pc[c] = "items"
  PROVE  TreatItems(c)
<1>1. ~Run(c) /\ ~Catalog(c) /\ ~Select(c)
  BY DEF Run, StartRun, ReserveRun, ReserveRefused, RecoverRollback, CheckIdle, FailRun, CreateThread, IndexThread,
         ConfirmThread, Bind, Submit, Maintain, AcknowledgeTurn, FinishTurn, AcknowledgeMaintained, Answered,
         Catalog, StartCatalog, ReserveCatalog, SubmitCatalog, CatalogAnswered, FailCatalog, Forget, ReleaseCatalog,
         Select, StartSelect, SelectIdle, SelectBegin, SelectPrepare, SubmitSwitch, CommitSwitch, FailSwitch
<1> QED BY <1>1 DEF Step, Recover, StartReconcile, StartReconcileWorkspace, ReconcileTransition, ReconcileCatalog,
         ArchiveVerified, ReconcileExecution, ReleaseIdle

\* What is left of the list of a recovery.
LEMMA WorkLeft ==
  ASSUME NEW v \in Work, NEW left
  PROVE  [v EXCEPT !.items = left] = [stage |-> v.stage, items |-> left]
<1>1. v = [stage |-> v.stage, items |-> v.items]  BY DEF Work
<1>2. PICK g, y : v = [stage |-> g, items |-> y]  BY <1>1
<1>3. [v EXCEPT !.items = left] = [stage |-> g, items |-> left] /\ v.stage = g  BY <1>2
<1> QED BY <1>3

\* A recovery of a workspace goes on with one of its rows.
LEMMA TreatMoves ==
  ASSUME Control, NEW c \in Calls, TreatItems(c), pc'[c] # "done"
  PROVE  \E i \in Remaining(c).items : \E u \in SUBSET {j \in Remaining(c).items : j.thread = Null /\ j.state = "preparing"} :
           /\ i.thread \in Threads /\ i.thread \notin busyThreads
           /\ pc'[c] = "reconcile" /\ thread'[c] = i.thread /\ UNCHANGED <<kind, workspace>>
           /\ work'[c] = [stage |-> Remaining(c).stage, items |-> Remaining(c).items \ (u \cup {i})]
<1>1. TypeOK  BY DEF Control
<1>2. Remaining(c) \in Work  BY <1>1, RemainingOK
<1>3. ~Finish(c)  BY <1>1, FinishEffect
<1>4. PICK u \in SUBSET {j \in Remaining(c).items : j.thread = Null /\ j.state = "preparing"} :
        \E i \in Remaining(c).items \ u :
          /\ i.thread # Null /\ i.thread \notin busyThreads
          /\ thread' = [thread EXCEPT ![c] = i.thread]
          /\ work' = [work EXCEPT ![c] = [Remaining(c) EXCEPT !.items = Remaining(c).items \ (u \cup {i})]]
          /\ pc' = [pc EXCEPT ![c] = "reconcile"]
          /\ UNCHANGED <<kind, workspace>>
  BY <1>3 DEF TreatItems, Goto
<1>5. PICK i \in Remaining(c).items \ u :
          /\ i.thread # Null /\ i.thread \notin busyThreads
          /\ thread' = [thread EXCEPT ![c] = i.thread]
          /\ work' = [work EXCEPT ![c] = [Remaining(c) EXCEPT !.items = Remaining(c).items \ (u \cup {i})]]
          /\ pc' = [pc EXCEPT ![c] = "reconcile"]
          /\ UNCHANGED <<kind, workspace>>
  BY <1>4
<1>6. i.thread \in Threads  BY <1>2, <1>5 DEF Work, Item
<1>7. pc'[c] = "reconcile" /\ thread'[c] = i.thread  BY <1>1, <1>5 DEF TypeOK
<1>8. work'[c] = [Remaining(c) EXCEPT !.items = Remaining(c).items \ (u \cup {i})]
  BY <1>1, <1>5 DEF TypeOK
<1>9. [Remaining(c) EXCEPT !.items = Remaining(c).items \ (u \cup {i})]
        = [stage |-> Remaining(c).stage, items |-> Remaining(c).items \ (u \cup {i})]
  BY <1>2, WorkLeft
<1> QED BY <1>5, <1>6, <1>7, <1>8, <1>9

\* Only the two loops write the rows of a recovery of a workspace.
LEMMA StartLists ==
  ASSUME Control, NEW c \in Calls, Step(c), pc[c] = "idle", kind'[c] = "reconcileWorkspace"
  PROVE  \E w \in Workspaces :
           /\ workspaceUsers(w) = {} /\ pc'[c] = "items" /\ workspace'[c] = w
           /\ work'[c] = [stage |-> "transitions", items |-> TransitionItems(w)]
<1>1. TypeOK  BY DEF Control
<1>2. ASSUME Run(c)  PROVE FALSE
  BY <1>2, RunKind DEF RunKinds, MaintenanceKinds
<1>3. ASSUME Catalog(c)  PROVE FALSE
  <2>1. \E k \in CatalogKinds, t \in Threads : StartCatalog(c, k, t)
    BY <1>3 DEF Catalog, ReserveCatalog, SubmitCatalog, CatalogAnswered, FailCatalog, Forget, ReleaseCatalog, Answered
  <2> QED BY <1>1, <2>1 DEF StartCatalog, CatalogKinds, TypeOK
<1>4. ASSUME Select(c)  PROVE FALSE
  <2>1. \E t \in Threads, w \in Workspaces : StartSelect(c, t, w)
    BY <1>4 DEF Select, SelectIdle, SelectBegin, SelectPrepare, SubmitSwitch, CommitSwitch, FailSwitch, Answered
  <2> QED BY <1>1, <2>1 DEF StartSelect, TypeOK
<1>5. CASE Recover(c)
  <2>1. ASSUME NEW t \in Threads, StartReconcile(c, t)  PROVE FALSE
    BY <1>1, <2>1 DEF StartReconcile, TypeOK
  <2>2. \E w \in Workspaces : StartReconcileWorkspace(c, w)
    BY <1>5, <2>1 DEF Recover, ReconcileTransition, ReconcileCatalog, ArchiveVerified,
         ReconcileExecution, ReleaseIdle, TreatItems
  <2> QED BY <1>1, <2>2 DEF StartReconcileWorkspace, TypeOK
<1> QED BY <1>2, <1>3, <1>4, <1>5 DEF Step

\* The transition of a thread that a recovery of a workspace has reached.
LEMMA StepWorkFirst ==
  ASSUME Recoverable, NEW c \in Calls, MayRun(c), Step(c)
  PROVE  WorkFirst'
<1>1. Typed /\ Control /\ CallOK(c) /\ TypeOK /\ StoreTypeOK /\ TransitionExclusive
  BY DEF Recoverable, Typed, Control, StoreInv, TypeOK
<1>2. Leads(c) /\ OthersKeep(c) /\ Retains(c) /\ CallOK(c)' /\ Control'
  BY <1>1, StepLeads, StepMoved, StepRetains, StepControl DEF Moved
<1>0. \A t \in Threads : transitions'[t] # transitions[t] => Shifts(c, t)
  BY <1>1, StepShifts
<1>3. ASSUME NEW t \in Threads, transitions[t] # Null, transitions'[t] # transitions[t], transitions'[t] # Null
      PROVE  Ends(t)' = Ends(t)
  <2>1. transitions[t] \in Transition  BY <1>1, <1>3 DEF StoreTypeOK
  <2>2. Shifts(c, t)  BY <1>0, <1>3
  <2>3. transitions'[t].from = transitions[t].from /\ transitions'[t].to = transitions[t].to
    BY <1>3, <2>1, <2>2 DEF Shifts, Commits, Transition
  <2> QED BY <2>3 DEF Ends
<1>4. ASSUME NEW a \in Calls, Scanning(a)', a # c
      PROVE  /\ \A i, j \in work'[a].items : i = j
             /\ \A i \in work'[a].items : i.thread \in Threads /\ transitions'[i.thread] # Null /\ workspace'[a] \in Ends(i.thread)'
             /\ pc'[a] # "items" => work'[a] = NoWork /\ transitions'[thread'[a]] # Null /\ workspace'[a] \in Ends(thread[a])'
  <2>1. /\ Scanning(a) /\ work'[a] = work[a] /\ pc'[a] = pc[a] /\ thread'[a] = thread[a] /\ workspace'[a] = workspace[a]
        /\ gate'[a] = gate[a] /\ CallOK(a)
    BY <1>1, <1>2, <1>4 DEF OthersKeep, Scanning, Active, Control
  <2>2. CASE pc[a] = "items"
    <3>1. work[a].items = {}
      BY <1>4, <2>1, <2>2, StartingAlone DEF Recoverable, Listed, Scanning, Starting
    <3> QED BY <2>1, <2>2, <3>1
  <2>3. CASE pc[a] # "items"
    <3>1. work[a] = NoWork /\ transitions[thread[a]] # Null /\ workspace[a] \in Ends(thread[a])
      BY <2>1, <2>3 DEF Recoverable, Listed, WorkFirst
    <3>2. thread[a] \in Threads /\ gate[a] = thread[a] /\ thread[a] # Null
      BY <1>1, <2>1, <2>3 DEF Scanning, CallOK, Equipped, TypeOK, Gateless
    <3>3. transitions'[thread[a]] = transitions[thread[a]]
      <4>1. gate[a] # gate[c]  BY <1>1, <1>4, <3>2 DEF Control, OneGate
      <4>2. ~Shifts(c, thread[a])  BY <3>2, <4>1 DEF Shifts
      <4> QED BY <1>0, <3>2, <4>2
    <3> QED BY <2>1, <2>3, <3>1, <3>2, <3>3 DEF NoWork, Ends
  <2> QED BY <2>2, <2>3
<1>5. ASSUME Scanning(c)', pc[c] = "idle"
      PROVE  /\ \A i, j \in work'[c].items : i = j
             /\ \A i \in work'[c].items : i.thread \in Threads /\ transitions'[i.thread] # Null /\ workspace'[c] \in Ends(i.thread)'
             /\ pc'[c] = "items"
  <2>1. PICK w \in Workspaces : pc'[c] = "items" /\ workspace'[c] = w
               /\ work'[c] = [stage |-> "transitions", items |-> TransitionItems(w)]
    BY <1>1, <1>5, StartLists DEF Scanning
  <2>2. UNCHANGED transitions  BY <1>2, <1>5 DEF Retains, storeVars
  <2>3. \A i \in TransitionItems(w) : i.thread \in Threads /\ transitions[i.thread] # Null /\ w \in Ends(i.thread)
                                      /\ i = [id |-> Null, thread |-> i.thread, state |-> transitions[i.thread].state]
    BY DEF TransitionItems
  <2>4. \A i, j \in TransitionItems(w) : i.thread = j.thread
    BY <1>1, <2>3 DEF TransitionExclusive
  <2>5. \A i, j \in TransitionItems(w) : i = j
    BY <2>3, <2>4
  <2> QED BY <2>1, <2>2, <2>3, <2>5 DEF Ends
<1>6. ASSUME Scanning(c)', pc[c] = "items"
      PROVE  pc'[c] # "items" /\ work'[c] = NoWork /\ transitions'[thread'[c]] # Null /\ workspace'[c] \in Ends(thread[c])'
  <2>1. TreatItems(c)  BY <1>6, ItemsStep
  <2>2. pc'[c] # "done"  BY <1>6 DEF Scanning, Active
  <2>3. PICK i \in Remaining(c).items, u \in SUBSET {j \in Remaining(c).items : j.thread = Null /\ j.state = "preparing"} :
           /\ i.thread \in Threads
           /\ pc'[c] = "reconcile" /\ thread'[c] = i.thread /\ UNCHANGED <<kind, workspace>>
           /\ work'[c] = [stage |-> Remaining(c).stage, items |-> Remaining(c).items \ (u \cup {i})]
    BY <1>1, <2>1, <2>2, TreatMoves
  <2>4. Remaining(c).stage = "transitions"  BY <1>6, <2>3 DEF Scanning
  <2>5. Remaining(c) = work[c]  BY <2>4 DEF Remaining
  <2>6. Scanning(c)
    BY <1>1, <1>6, <2>4, <2>5 DEF Scanning, Active, CallOK, InPlace
  <2>7. work[c].items = {i} /\ transitions[i.thread] # Null /\ workspace[c] \in Ends(i.thread)
    BY <2>3, <2>5, <2>6 DEF Recoverable, Listed, WorkFirst
  <2>8. work'[c] = NoWork  BY <2>3, <2>4, <2>5, <2>7 DEF NoWork
  <2>9. UNCHANGED transitions  BY <2>1 DEF TreatItems, ChangeReservations
  <2> QED BY <2>3, <2>7, <2>8, <2>9 DEF Ends
<1>7. ASSUME Scanning(c)', pc[c] \notin {"idle", "items"}
      PROVE  /\ work'[c] = NoWork
             /\ pc'[c] # "items" => transitions'[thread'[c]] # Null /\ workspace'[c] \in Ends(thread[c])'
  <2>1. pc[c] # "done" /\ pc'[c] # "done" /\ kind'[c] = kind[c] /\ workspace'[c] = workspace[c] /\ work'[c] = work[c]
    BY <1>2, <1>7 DEF Leads, Scanning, Active, Retains
  <2>2. Scanning(c)  BY <1>7, <2>1 DEF Scanning, Active
  <2>3. work[c] = NoWork /\ transitions[thread[c]] # Null /\ workspace[c] \in Ends(thread[c])
    BY <1>7, <2>2 DEF Recoverable, Listed, WorkFirst
  <2>4. thread[c] \in Threads /\ gate[c] = thread[c]
    BY <1>1, <1>7, <2>2 DEF Scanning, Active, CallOK, Equipped, TypeOK, Gateless
  <2>5. ASSUME pc'[c] # "items"  PROVE thread'[c] = thread[c] /\ transitions'[thread[c]] # Null
    <3>1. pc[c] \notin {"newThread", "selectBegin"}
      BY <1>1, <2>2 DEF Scanning, CallOK, InPlace, Gateless
    <3>2. thread'[c] = thread[c]  BY <1>2, <1>7, <2>5, <3>1 DEF Retains
    <3>3. ~Finish(c)  BY <1>1, <2>1, FinishEffect
    <3>4. ~Return(c)  BY <1>1, <2>2, <2>5, ReturnEffect DEF Scanning
    <3>5. transitions'[thread[c]] # Null
      <4>1. CASE transitions'[thread[c]] = transitions[thread[c]]  BY <2>3, <4>1
      <4>2. CASE Shifts(c, thread[c])
        <5>1. transitions'[thread[c]] = [transitions[thread[c]] EXCEPT !.state = "submitting", !.contract = contract[c]]
          BY <3>1, <3>3, <3>4, <4>2 DEF Shifts
        <5>2. transitions[thread[c]] \in Transition /\ contract[c] \in Contracts \cup {Null}
          BY <1>1, <2>3, <2>4 DEF StoreTypeOK, TypeOK
        <5>3. transitions'[thread[c]] \in Transition
          BY <5>1, <5>2 DEF Transition, TransitionStates
        <5> QED BY <5>3
      <4> QED BY <1>0, <2>4, <4>1, <4>2
    <3> QED BY <3>2, <3>5
  <2> QED BY <1>3, <2>1, <2>3, <2>4, <2>5 DEF Ends
<1> QED BY <1>4, <1>5, <1>6, <1>7 DEF WorkFirst, NoWork

\* Which calls go on after they began without a thread.
LEMMA StepRoaming ==
  ASSUME Typed, NEW c \in Calls, Step(c), NEW d \in Calls, Roaming(d)'
  PROVE  /\ workspace'[d] = workspace[d]
         /\ Roaming(d) \/ (d = c /\ ~Live(c) /\ Reserves(c) /\ thread[c] = Null /\ kind[c] \in Gateless)
<1>1. Control /\ TypeOK /\ Named /\ CallOK(c) /\ (\A i \in Calls : RowOK(i))
  BY DEF Typed, Control, Pipe, Rows
<1>2. RowsMoved(c) /\ OthersKeep(c) /\ Leads(c) /\ Retains(c)
  BY <1>1, StepRows, StepMoved, StepLeads, StepRetains DEF Moved
<1>3. CASE d # c
  BY <1>2, <1>3 DEF RowsMoved, OthersKeep, Roaming, Active, Live, Row
<1>4. CASE d = c
  <2>1. pc[c] # "idle"
    BY <1>1, <1>2, <1>4 DEF Retains, storeVars, Roaming, Live, Row, RowOK
  <2>2. CASE Live(c)
    BY <1>2, <1>4, <2>1, <2>2 DEF Roaming, Active, Leads, Retains
  <2>3. CASE ~Live(c)
    <3>1. Reserves(c)  BY <1>4, <2>3, StepReserves DEF Roaming, Live, Row
    <3>2. kind[c] \in Gateless  BY <1>4, <3>1 DEF Reserves, Roaming
    <3>3. thread[c] = Null
      BY <1>1, <3>1, <3>2 DEF Reserves, CallOK, Equipped
    <3> QED BY <1>4, <2>3, <3>1, <3>2, <3>3 DEF Reserves
  <2> QED BY <2>2, <2>3
<1> QED BY <1>3, <1>4

LEMMA StepScanning ==
  ASSUME Control, NEW c \in Calls, Step(c), NEW a \in Calls, Scanning(a)'
  PROVE  \/ Scanning(a) /\ workspace'[a] = workspace[a]
         \/ a = c /\ pc[c] = "idle" /\ workspaceUsers(workspace'[c]) = {}
<1>1. OthersKeep(c) /\ Leads(c) /\ Retains(c) /\ CallOK(c)
  BY StepMoved, StepLeads, StepRetains DEF Moved, Control
<1>2. CASE a # c  BY <1>1, <1>2 DEF OthersKeep, Scanning, Active
<1>3. CASE a = c /\ pc[c] = "idle"
  BY <1>3, StartLists DEF Scanning
<1>4. CASE a = c /\ pc[c] \notin {"idle", "items"}
  BY <1>1, <1>4 DEF Scanning, Active, Leads, Retains
<1>5. CASE a = c /\ pc[c] = "items"
  <2>1. TreatItems(c) /\ pc'[c] # "done"  BY <1>5, ItemsStep DEF Scanning, Active
  <2>2. work'[c].stage = Remaining(c).stage
    <3>1. PICK i \in Remaining(c).items, u \in SUBSET {j \in Remaining(c).items : j.thread = Null /\ j.state = "preparing"} :
             work'[c] = [stage |-> Remaining(c).stage, items |-> Remaining(c).items \ (u \cup {i})]
      BY <2>1, TreatMoves
    <3> QED BY <3>1
  <2>3. Remaining(c) = work[c]  BY <1>5, <2>2 DEF Scanning, Remaining
  <2> QED BY <1>1, <1>5, <2>2, <2>3 DEF Scanning, Active, Retains
<1> QED BY <1>2, <1>3, <1>4, <1>5

LEMMA StepWorkClear ==
  ASSUME Recoverable, NEW c \in Calls, MayRun(c), Step(c)
  PROVE  WorkClear'
<1>1. Typed /\ Control /\ CallOK(c) /\ (\A i \in Calls : RowOK(i))  BY DEF Recoverable, Typed, Control, Rows
<1>2. OthersKeep(c)  BY <1>1, StepMoved DEF Moved
<1>3. ASSUME NEW a \in Calls, NEW d \in Calls, Scanning(a)', Roaming(d)', workspace'[a] = workspace'[d]
      PROVE  FALSE
  <2>1. /\ workspace'[d] = workspace[d]
        /\ Roaming(d) \/ (d = c /\ Reserves(c) /\ thread[c] = Null /\ kind[c] \in Gateless)
    BY <1>1, <1>3, StepRoaming
  <2>2. \/ Scanning(a) /\ workspace'[a] = workspace[a]
        \/ a = c /\ pc[c] = "idle" /\ workspaceUsers(workspace'[c]) = {}
    BY <1>1, <1>3, StepScanning
  <2>3. CASE a = c /\ pc[c] = "idle" /\ workspaceUsers(workspace'[c]) = {}
    <3>1. Roaming(d)  BY <2>1, <2>3 DEF Reserves
    <3>2. kind[d] \in Gateless /\ pc[d] \notin {"idle", "done", "reserve"}
      BY <1>1, <3>1 DEF Roaming, Active, RowOK
    <3> QED BY <1>3, <2>1, <2>3, <3>2 DEF workspaceUsers, Gateless, RunKinds
  <2>4. CASE Scanning(a) /\ workspace'[a] = workspace[a] /\ Roaming(d)
    BY <1>3, <2>1, <2>4 DEF Recoverable, Listed, WorkClear
  <2>5. CASE Scanning(a) /\ workspace'[a] = workspace[a] /\ d = c /\ Reserves(c) /\ thread[c] = Null /\ kind[c] \in Gateless
    <3>1. ~InTransition(workspace[a])  BY <1>3, <2>1, <2>5 DEF Reserves, CanReserve
    <3>2. Starting(c)  BY <1>1, <2>5 DEF Starting, Reserves, CallOK, Equipped
    <3>3. a # c  BY <2>5 DEF Scanning, Gateless
    <3>4. pc[a] # "items"
      BY <3>2, <3>3 DEF Recoverable, Listed, Solo, Runnable, Queued, Between
    <3>5. transitions[thread[a]] # Null /\ workspace[a] \in Ends(thread[a])
      BY <2>5, <3>4 DEF Recoverable, Listed, WorkFirst
    <3>6. thread[a] \in Threads
      BY <1>1, <2>5, <3>4 DEF Scanning, Control, CallOK, Equipped, TypeOK, Gateless
    <3> QED BY <3>1, <3>5, <3>6 DEF InTransition
  <2> QED BY <2>1, <2>2, <2>3, <2>4, <2>5
<1> QED BY <1>3 DEF WorkClear

LEMMA StepWorkListed ==
  ASSUME Recoverable, NEW c \in Calls, Step(c)
  PROVE  WorkListed'
<1>1. /\ Typed /\ Control /\ CallOK(c) /\ (\A i \in Calls : RowOK(i)) /\ Named /\ TypeOK
      /\ WorkListed /\ WorkClear
  BY DEF Recoverable, Typed, Control, Rows, Pipe, Listed
<1>2. RowsMoved(c) /\ OthersKeep(c) /\ Leads(c) /\ Retains(c)
  BY <1>1, StepRows, StepMoved, StepLeads, StepRetains DEF Moved
<1>3. ASSUME NEW id \in Calls, pc[id] = "done", Live(id) => Undispatched(id)
      PROVE  pc'[id] = "done" /\ (Live(id)' => Undispatched(id)')
  <2>1. id # c  BY <1>2, <1>3 DEF Leads
  <2> QED BY <1>2, <1>3, <2>1 DEF OthersKeep, RowsMoved, Live, Row, Undispatched
<1>4. ASSUME NEW a \in Calls, NEW i \in work'[a].items, i.thread = Null, i.state = "preparing"
      PROVE  i.id \in Calls /\ pc[i.id] = "done" /\ (Live(i.id) => Undispatched(i.id))
  <2>1. CASE i \in work[a].items  BY <1>1, <1>4, <2>1 DEF WorkListed
  <2>2. CASE i \notin work[a].items
    <3>1. a = c  BY <1>2, <2>2 DEF OthersKeep
    <3>2. CASE pc[c] = "items"
      <4>1. pc'[c] # "done"
        BY <1>1, <1>4, <3>1, StepMoved DEF Moved, CallOK, Equipped, Active, NoWork
      <4>2. TreatItems(c)  BY <3>2, ItemsStep
      <4>3. i \in Remaining(c).items
        <5>1. PICK i2 \in Remaining(c).items, u \in SUBSET {j \in Remaining(c).items : j.thread = Null /\ j.state = "preparing"} :
                 work'[c] = [stage |-> Remaining(c).stage, items |-> Remaining(c).items \ (u \cup {i2})]
          BY <1>1, <4>1, <4>2, TreatMoves
        <5>2. work'[c].items = Remaining(c).items \ (u \cup {i2})  BY <5>1
        <5> QED BY <1>4, <3>1, <5>2
      <4>4. work[c] = NoWork /\ i \in ReservationItems(workspace[c])
        BY <2>2, <3>1, <4>3 DEF Remaining
      <4>5. i.id \in ReservedOn(workspace[c]) /\ i.thread = Row(i.id).thread /\ i.state = Row(i.id).state
        BY <4>4 DEF ReservationItems
      <4>6. i.id \in Calls /\ Live(i.id) /\ Row(i.id).workspace = workspace[c] /\ Row(i.id).thread = Null
        BY <1>4, <4>5 DEF ReservedOn
      <4>7. workspace[i.id] = workspace[c] /\ pc[i.id] # "idle"
        BY <1>1, <4>6 DEF RowOK
      <4>8. Scanning(c)
        BY <1>1, <3>2, <4>4 DEF Scanning, Active, NoWork, CallOK, InPlace
      <4>9. ~Roaming(i.id)  BY <1>1, <4>6, <4>7, <4>8 DEF WorkClear
      <4>10. kind[i.id] \in Gateless  BY <1>1, <4>6 DEF RowOK
      <4> QED BY <4>10, <1>4, <4>5, <4>6, <4>7, <4>9 DEF Roaming, Active, Undispatched
    <3>3. CASE pc[c] = "idle"
      <4>1. pc'[c] # "done" /\ Active(c)'
        BY <1>1, <1>2, <1>4, <3>1, StepMoved DEF Moved, CallOK, Equipped, Active, NoWork, Leads
      <4>2. kind'[c] = "reconcileWorkspace"
        BY <1>1, <1>4, <3>1, <4>1, StepMoved DEF Moved, CallOK, Equipped, NoWork
      <4>3. \E w \in Workspaces : i \in TransitionItems(w)
        <5>1. PICK w \in Workspaces : work'[c] = [stage |-> "transitions", items |-> TransitionItems(w)]
          BY <1>1, <3>3, <4>2, StartLists
        <5>2. work'[c].items = TransitionItems(w)  BY <5>1
        <5> QED BY <1>4, <3>1, <5>2
      <4> QED BY <1>4, <4>3 DEF TransitionItems
    <3>4. CASE pc[c] \notin {"idle", "items"}
      BY <1>1, <1>2, <1>4, <2>2, <3>1, <3>4, StepMoved DEF Moved, CallOK, Equipped, Active, NoWork, Retains
    <3> QED BY <3>2, <3>3, <3>4
  <2> QED BY <2>1, <2>2
<1> QED BY <1>3, <1>4 DEF WorkListed

LEMMA StepHeldRow ==
  ASSUME Typed, HeldRow, NEW c \in Calls, Step(c)
  PROVE  HeldRow'
<1>1. Control /\ (\A i \in Calls : CallOK(i) /\ RowOK(i)) /\ Named /\ TypeOK
  BY DEF Typed, Control, Rows, Pipe
<1>2. RowsMoved(c) /\ OthersKeep(c) /\ Leads(c)
  BY <1>1, StepRows, StepMoved, StepLeads DEF Moved
<1>3. ASSUME NEW id \in Calls, NEW t \in Threads, pc[id] \notin Early, Live(id) => Row(id).thread = t
      PROVE  pc'[id] \notin Early /\ (Live(id)' => Row(id)'.thread = t)
  <2>1. CASE id = c
    BY <1>2, <1>3, <2>1 DEF RowsMoved, Grows, Leads, Early, Live, Row
  <2>2. CASE id # c
    BY <1>2, <1>3, <2>2 DEF RowsMoved, OthersKeep, Live, Row
  <2> QED BY <2>1, <2>2
<1>4. ASSUME NEW a \in Calls, held'[a] # Null
      PROVE  /\ held'[a] \in Calls /\ pc[held'[a]] \notin Early /\ thread[a] \in Threads /\ thread'[a] = thread[a]
             /\ Live(held'[a]) => Row(held'[a]).thread = thread[a]
  <2>1. thread'[a] = thread[a] /\ (held'[a] = held[a] \/ (a = c /\ held'[a] \in ReservedBy(thread[a])))
    BY <1>2, <1>4 DEF OthersKeep, Leads
  <2>2. CASE held'[a] = held[a]
    <3>1. thread[a] \in Threads
      BY <1>1, <1>4, <2>2 DEF CallOK, Equipped, Active, TypeOK
    <3> QED BY <1>1, <1>4, <2>1, <2>2, <3>1 DEF HeldRow, TypeOK
  <2>3. CASE a = c /\ held'[a] \in ReservedBy(thread[a])
    <3>1. held'[a] \in Calls /\ Live(held'[a]) /\ Row(held'[a]).thread = thread[a]
      BY <2>3 DEF ReservedBy
    <3>2. pc[held'[a]] \notin Early  BY <1>1, <3>1 DEF RowOK, Early
    <3>3. thread[a] \in Threads
      <4>1. CallOK(a)' /\ thread'[a] \in Threads \cup {Null}
        BY <1>1, <2>3, StepMoved DEF Moved, CallTypes
      <4> QED BY <1>4, <2>1, <4>1 DEF CallOK, Equipped, Active
    <3> QED BY <2>1, <3>1, <3>2, <3>3
  <2> QED BY <2>1, <2>2, <2>3
<1> QED BY <1>3, <1>4 DEF HeldRow

\* A notification, a timer or the source leave what the calls do alone.
LEMMA RestListed ==
  ASSUME Recoverable, RowsNoticed, UNCHANGED <<pc, kind, thread, workspace, held, work, transitions>>,
         UNCHANGED reply \/ (\A c \in Calls : ~Queued(c))
  PROVE  Listed'
<1>1. Solo'
  <2>1. CASE UNCHANGED reply
    BY <2>1 DEF Recoverable, Listed, Solo, Starting, Runnable, Queued
  <2>2. CASE \A c \in Calls : ~Queued(c)
    <3>1. \A c \in Calls : ~Starting(c)  BY <2>2, StartingRuns
    <3> QED BY <3>1 DEF Solo, Starting
  <2> QED BY <2>1, <2>2
<1>2. \A id \in Calls : reservations'[id] # Null =>
        /\ reservations[id] # Null /\ reservations'[id].thread = reservations[id].thread
        /\ reservations[id].state = "preparing" => reservations'[id].state = "preparing"
  <2>1. CASE UNCHANGED reservations  BY <2>1 DEF Live, Row
  <2>2. CASE ~UNCHANGED reservations
    <3>1. PICK id \in Calls :
       /\ OtherRowsKeep(id) /\ Live(id) /\ Row(id).state # "preparing"
       /\ \/ reservations'[id] = Null
          \/ reservations'[id] # Null /\ SameRow(reservations'[id], Row(id))
      BY <2>2 DEF RowsNoticed
    <3> QED BY <3>1 DEF OtherRowsKeep, SameRow, Live, Row
  <2> QED BY <2>1, <2>2
<1>3. WorkFirst'  BY DEF Recoverable, Listed, WorkFirst, Scanning, Active, Ends, NoWork
<1>4. WorkClear'
  <2>1. \A c \in Calls : Roaming(c)' => Roaming(c)  BY <1>2 DEF Roaming, Active, Live, Row
  <2>2. \A c \in Calls : Scanning(c)' => Scanning(c)  BY DEF Scanning, Active
  <2> QED BY <2>1, <2>2 DEF Recoverable, Listed, WorkClear
<1>5. WorkListed'
  <2>1. ASSUME NEW c \in Calls, NEW i \in work[c].items, i.thread = Null, i.state = "preparing"
        PROVE  i.id \in Calls /\ pc[i.id] = "done" /\ (Live(i.id)' => Undispatched(i.id)')
    <3>1. i.id \in Calls /\ pc[i.id] = "done" /\ (Live(i.id) => Undispatched(i.id))
      BY <2>1 DEF Recoverable, Listed, WorkListed
    <3> QED BY <1>2, <3>1 DEF Live, Row, Undispatched
  <2> QED BY <2>1 DEF WorkListed
<1>6. HeldRow'
  <2>1. ASSUME NEW c \in Calls, held[c] # Null
        PROVE  pc[held[c]] \notin Early /\ (Live(held[c])' => Row(held[c])'.thread = thread[c])
    <3>1. held[c] \in Calls  BY <2>1 DEF Recoverable, Typed, Control, TypeOK
    <3>2. pc[held[c]] \notin Early /\ (Live(held[c]) => Row(held[c]).thread = thread[c])
      BY <2>1 DEF Recoverable, Listed, HeldRow
    <3> QED BY <1>2, <3>1, <3>2 DEF Live, Row
  <2> QED BY <2>1 DEF HeldRow
<1> QED BY <1>1, <1>3, <1>4, <1>5, <1>6 DEF Listed

\* Nothing of a call is left after a crash.
LEMMA CrashListed ==
  ASSUME Crash
  PROVE  Listed'
<1>1. \A c \in Calls : pc'[c] \in {"idle", "done"} /\ held'[c] = Null /\ work'[c].items = {}
  BY DEF Crash, NoWork
<1> QED BY <1>1 DEF Listed, Solo, Starting, WorkFirst, WorkClear, WorkListed, HeldRow, Scanning, Active

LEMMA RecoverableStep ==
  ASSUME Recoverable, [Next]_vars
  PROVE  Recoverable'
<1>1. Typed' /\ StoreInv'  BY TypedStep, StoreHolds DEF Recoverable
<1>2. ASSUME NEW c \in Calls, MayRun(c), Step(c)  PROVE Listed'
  BY <1>2, StepSolo, StepWorkFirst, StepWorkClear, StepWorkListed, StepHeldRow DEF Recoverable, Listed
<1>3. ASSUME UNCHANGED vars  PROVE Listed'
  BY <1>3, RestListed DEF vars, storeVars, callVars, RowsNoticed
<1>4. ASSUME LoopIsIdle, SourceExit \/ (\E c \in Calls : Timeout(c))  PROVE Listed'
  BY <1>4, RestListed DEF LoopIsIdle, Runnable, Timeout, SourceExit, storeVars, RowsNoticed
<1>5. ASSUME \A c \in Calls : ~Queued(c), Deliver  PROVE Listed'
  <2>1. Head(events) \in Event
    BY <1>5, FirstEvent DEF Deliver, Recoverable, Typed, Control, TypeOK
  <2>2. RowsNoticed
    BY <1>5, <2>1, NoticeRows DEF Deliver, storeVars, RowsNoticed, Recoverable, Typed
  <2>3. UNCHANGED transitions
    BY <1>5 DEF Deliver, Notice, ForgetThread, ObserveTurn, storeVars
  <2> QED BY <1>5, <2>2, <2>3, RestListed DEF Deliver
<1>6. ASSUME Source  PROVE Listed'
  BY <1>6, RestListed DEF Source, storeVars, callVars, RowsNoticed
<1>7. ASSUME Lists  PROVE Listed'
  <2>1. UNCHANGED <<reservations, transitions>>
    BY <1>7 DEF Lists, ListThread, IndexListed, RemoveMissing, WriteIndex, ForgetThread, storeVars
  <2> QED BY <1>7, <2>1, RestListed DEF Lists, callVars, RowsNoticed
<1> QED BY <1>1, <1>2, <1>3, <1>4, <1>5, <1>6, <1>7, CrashListed DEF Next, Recoverable

LEMMA RecoverableInit == Init => Recoverable
<1> SUFFICES ASSUME Init PROVE Recoverable  OBVIOUS
<1>1. \A c \in Calls : pc[c] = "idle" /\ held[c] = Null /\ work[c].items = {}
  BY DEF Init, NoWork
<1>2. Listed
  BY <1>1 DEF Listed, Solo, Starting, WorkFirst, WorkClear, WorkListed, HeldRow, Scanning, Active
<1>3. StoreInv  BY StoreInvInit DEF Init
<1> QED BY <1>2, <1>3, TypedInit DEF Recoverable

\* What the recoveries hold and list is what the tables and the calls say of it,
\* however long ago it was read.
THEOREM RecoverableHolds == Spec => []Recoverable
BY RecoverableInit, RecoverableStep, PTL DEF Spec

\* UnknownCreationStays: no recovery, no other call and no message releases the
\* reservation of a dispatched creation that nothing can confirm.
THEOREM UnknownCreations == Spec => UnknownCreationStays
<1> DEFINE Stays == \A c \in Calls :
       Live(c) /\ Row(c).thread = Null /\ Row(c).state # "preparing" => Row(c)' # Null \/ pc[c] = "confirm"
<1>1. ASSUME Recoverable, [Next]_vars, NEW i \in Calls, Live(i), Row(i).thread = Null, Row(i).state # "preparing",
             pc[i] # "confirm"
      PROVE  reservations'[i] # Null
  <2>1. /\ Typed /\ Control /\ TypeOK /\ (\A c \in Calls : CallOK(c)) /\ RowOK(i) /\ WorkListed /\ HeldRow
    BY <1>1 DEF Recoverable, Listed, Typed, Control, Rows
  <2>2. kind[i] \in Gateless /\ Row(i).state \in {"submitting", "uncertain"} /\ Row(i).operation = "turn"
    BY <1>1, <2>1 DEF RowOK, Operation, Gateless
  <2>3. ASSUME NEW c \in Calls, Step(c), reservations'[i] = Null  PROVE FALSE
    <3>1. Frees(c, i)  BY <1>1, <2>1, <2>3, StepFrees
    <3>2. i # held[c]  BY <1>1, <2>1 DEF HeldRow, CallOK, Equipped, Active
    <3>3. i # c  BY <1>1, <2>1, <2>2, <3>1, <3>2 DEF Frees, CallOK, InPlace, Gateless, CatalogKinds, Reconciles
    <3>4. i \notin ReservedBy(thread[c]) \/ thread[c] \notin Threads  BY <1>1 DEF ReservedBy
    <3>5. PICK item \in Remaining(c).items : item.id = i /\ item.thread = Null /\ item.state = "preparing"
      BY <3>1, <3>2, <3>3, <3>4 DEF Frees
    <3>6. item \notin work[c].items  BY <1>1, <2>1, <3>5 DEF WorkListed, Undispatched
    <3>7. item \in ReservationItems(workspace[c])  BY <3>5, <3>6 DEF Remaining
    <3> QED BY <1>1, <3>5, <3>7 DEF ReservationItems
  <2>4. CASE Deliver
    <3>1. Head(events) \in Event  BY <2>1, <2>4, FirstEvent DEF Deliver, TypeOK
    <3>2. RowsNoticed  BY <1>1, <2>1, <2>4, <3>1, NoticeRows DEF Deliver, storeVars, RowsNoticed, Typed
    <3> QED BY <1>1, <3>2 DEF RowsNoticed, OtherRowsKeep, Live, Row
  <2>5. CASE ~(\E c \in Calls : Step(c)) /\ ~Deliver
    <3>1. UNCHANGED reservations
      BY <1>1, <2>5 DEF Next, vars, storeVars, Timeout, Source, SourceExit, Crash, Lists, ListThread, IndexListed,
           RemoveMissing, WriteIndex, ForgetThread
    <3> QED BY <1>1, <3>1 DEF Live, Row
  <2> QED BY <2>3, <2>4, <2>5
<1>2. Recoverable /\ [Next]_vars => [Stays]_vars
  BY <1>1 DEF Row
<1> QED BY <1>2, RecoverableHolds, PTL DEF Spec, UnknownCreationStays, Row, Live

----------------------------------------------------------------------------
(* The calls implement the ownership of workspaces.                        *)

\* What a recovery of a workspace releases in its loop belongs to no thread.
LEMMA TreatedRows ==
  ASSUME Recoverable, NEW c \in Calls, TreatItems(c), NEW i \in Calls, Live(i),
         reservations'[i] # reservations[i]
  PROVE  reservations'[i] = Null /\ Row(i).thread = Null
<1>1. TypeOK /\ WorkListed  BY DEF Recoverable, Typed, Control, Listed
<1>2. PICK u \in SUBSET {j \in Remaining(c).items : j.thread = Null /\ j.state = "preparing"} :
        reservations' = [id \in Reservations |-> IF \E j \in u : j.id = id THEN Null ELSE Row(id)]
  BY DEF TreatItems, ChangeReservations
<1>3. reservations'[i] = Null /\ \E j \in u : j.id = i  BY <1>2 DEF Row
<1>4. PICK item \in Remaining(c).items : item.id = i /\ item.thread = Null /\ item.state = "preparing"
  BY <1>2, <1>3
<1>5. CASE item \in work[c].items  BY <1>1, <1>3, <1>4, <1>5 DEF WorkListed, Undispatched
<1>6. CASE item \in ReservationItems(workspace[c])  BY <1>3, <1>4, <1>6 DEF ReservationItems
<1> QED BY <1>4, <1>5, <1>6 DEF Remaining

LEMMA TreatSteps ==
  ASSUME Recoverable, NEW c \in Calls, TreatItems(c)
  PROVE  Steps
<1>1. UNCHANGED <<association, transitions>>  BY DEF TreatItems, ChangeReservations
<1>2. ASSUME NEW t \in Threads  PROVE ReservedBy(t)' = ReservedBy(t)
  <2>1. ASSUME NEW i \in Calls  PROVE i \in ReservedBy(t)' <=> i \in ReservedBy(t)
    <3>1. CASE reservations'[i] = reservations[i]  BY <3>1 DEF ReservedBy, Live, Row
    <3>2. CASE reservations'[i] # reservations[i]
      <4>1. Live(i)  BY <3>2 DEF TreatItems, ChangeReservations, Live, Row
      <4> QED BY <3>2, <4>1, TreatedRows DEF ReservedBy, Live, Row
    <3> QED BY <3>1, <3>2
  <2> QED BY <2>1 DEF ReservedBy
<1>3. ASSUME NEW t \in Threads, NEW i \in ReservedBy(t)  PROVE reservations'[i].workspace = Row(i).workspace
  <2>1. Live(i) /\ Row(i).thread # Null  BY <1>3 DEF ReservedBy
  <2>2. i \in Calls  BY <1>3 DEF ReservedBy
  <2>3. reservations'[i] = reservations[i]  BY <2>1, <2>2, TreatedRows
  <2> QED BY <2>3 DEF Row
<1> QED BY <1>1, <1>2, <1>3, SameBindings DEF Recoverable

LEMMA NextSteps ==
  ASSUME Recoverable, [Next]_vars
  PROVE  Steps
<1>1. StoreTypeOK /\ StoreInv /\ Transacts
  BY NextTransacts DEF Recoverable, Typed, Control, TypeOK
<1>2. CASE UNCHANGED storeVars
  BY <1>2, RowsAlone DEF storeVars
<1>3. CASE StoreNext
  BY <1>1, <1>3, ThreadTransactionSteps, ReservationTransactionSteps DEF StoreNext
<1>4. CASE Sweeps  BY <1>4, TreatSteps DEF Sweeps
<1> QED BY <1>1, <1>2, <1>3, <1>4 DEF Transacts

\* ImplementsOwnership, of the calls instead of the tables alone: in every
\* interleaving of run, select, the catalogue mutations, the recoveries, the
\* notifications and the crashes, the threads of this application live the
\* history of WorkspaceOwnership.
THEOREM CallsImplementOwnership == Spec => ImplementsOwnership
<1>1. Recoverable /\ [Next]_vars => [Ownership!OwnershipNext]_(Ownership!ownershipVars)
  BY NextSteps DEF Steps
<1>2. Init => Ownership!OwnershipInit  BY OwnershipInitially DEF Init
<1> QED BY <1>1, <1>2, RecoverableHolds, PTL DEF Spec, ImplementsOwnership, Ownership!OwnershipSpec

----------------------------------------------------------------------------
(* Which code a call runs where it is.                                     *)

Starts(c) ==
  \/ \E k \in RunKinds, t \in Threads \cup {Null}, w \in Workspaces : StartRun(c, k, t, w)
  \/ \E k \in CatalogKinds, t \in Threads : StartCatalog(c, k, t)
  \/ \E t \in Threads, w \in Workspaces : StartSelect(c, t, w)
  \/ \E t \in Threads : StartReconcile(c, t)
  \/ \E w \in Workspaces : StartReconcileWorkspace(c, w)

RunAt(c) ==
  /\ pc[c] = "reserve" => ReserveRun(c) \/ ReserveRefused(c)
  /\ pc[c] = "recoverRead" => RecoverRollback(c)
  /\ pc[c] = "checkRead" => CheckIdle(c) \/ FailRun(c)
  /\ pc[c] = "prepare" => CreateThread(c) \/ FailRun(c)
  /\ pc[c] = "newThread" => IndexThread(c) \/ FailRun(c)
  /\ pc[c] = "bind" => Bind(c) \/ FailRun(c)
  /\ pc[c] = "confirm" => ConfirmThread(c) \/ FailRun(c)
  /\ pc[c] = "submit" => Submit(c) \/ FailRun(c)
  /\ pc[c] = "resume" => Maintain(c) \/ FailRun(c)
  /\ pc[c] = "await" => AcknowledgeTurn(c) \/ AcknowledgeMaintained(c) \/ FailRun(c)
  /\ pc[c] = "after" => FinishTurn(c) \/ FailRun(c)
  /\ pc[c] \in {"idle", "reserve", "recoverRead", "checkRead", "prepare", "newThread", "bind", "confirm", "submit",
                "resume", "await", "after"}

CatalogAt(c) ==
  /\ pc[c] = "reserve" => ReserveCatalog(c)
  /\ pc[c] = "submit" => SubmitCatalog(c) \/ FailCatalog(c)
  /\ pc[c] = "await" => CatalogAnswered(c) \/ FailCatalog(c)
  /\ pc[c] = "forget" => Forget(c) \/ FailCatalog(c)
  /\ pc[c] = "release" => ReleaseCatalog(c) \/ FailCatalog(c)
  /\ pc[c] \in {"idle", "reserve", "submit", "await", "forget", "release"}

SelectAt(c) ==
  /\ pc[c] = "selectIdle" => SelectIdle(c)
  /\ pc[c] = "selectBegin" => SelectBegin(c)
  /\ pc[c] = "selectPrepare" => SelectPrepare(c) \/ FailSwitch(c)
  /\ pc[c] = "selectRead" => SubmitSwitch(c) \/ FailSwitch(c)
  /\ pc[c] = "switch" => CommitSwitch(c) \/ FailSwitch(c)
  /\ pc[c] \in {"idle", "selectIdle", "selectBegin", "selectPrepare", "selectRead", "switch"}

RecoverAt(c) ==
  /\ pc[c] = "reconcile" => ReconcileTransition(c) \/ ReconcileCatalog(c) \/ ReconcileExecution(c)
  /\ pc[c] = "evidence" => ArchiveVerified(c)
  /\ pc[c] = "idleRead" => ReleaseIdle(c)
  /\ pc[c] = "items" => TreatItems(c)
  /\ pc[c] \in {"idle", "reconcile", "evidence", "idleRead", "items"}

LEMMA StepAt ==
  ASSUME NEW c \in Calls, Step(c)
  PROVE  /\ pc[c] = "idle" => Starts(c)
         /\ \/ Run(c) /\ RunAt(c)
            \/ Catalog(c) /\ CatalogAt(c)
            \/ Select(c) /\ SelectAt(c)
            \/ Recover(c) /\ RecoverAt(c)
<1>1. CASE Run(c)
  <2>1. RunAt(c)
    BY <1>1 DEF Run, RunAt, StartRun, ReserveRun, ReserveRefused, RecoverRollback, CheckIdle, FailRun, CreateThread,
         IndexThread, ConfirmThread, Bind, Submit, Maintain, AcknowledgeTurn, FinishTurn, AcknowledgeMaintained, Answered
  <2>2. pc[c] = "idle" => Starts(c)
    BY <1>1 DEF Run, Starts, ReserveRun, ReserveRefused, RecoverRollback, CheckIdle, FailRun, CreateThread,
         IndexThread, ConfirmThread, Bind, Submit, Maintain, AcknowledgeTurn, FinishTurn, AcknowledgeMaintained, Answered
  <2> QED BY <1>1, <2>1, <2>2
<1>2. CASE Catalog(c)
  <2>1. CatalogAt(c)
    BY <1>2 DEF Catalog, CatalogAt, StartCatalog, ReserveCatalog, SubmitCatalog, CatalogAnswered, FailCatalog, Forget,
         ReleaseCatalog, Answered
  <2>2. pc[c] = "idle" => Starts(c)
    BY <1>2 DEF Catalog, Starts, ReserveCatalog, SubmitCatalog, CatalogAnswered, FailCatalog, Forget, ReleaseCatalog, Answered
  <2> QED BY <1>2, <2>1, <2>2
<1>3. CASE Select(c)
  <2>1. SelectAt(c)
    BY <1>3 DEF Select, SelectAt, StartSelect, SelectIdle, SelectBegin, SelectPrepare, SubmitSwitch, CommitSwitch,
         FailSwitch, Answered
  <2>2. pc[c] = "idle" => Starts(c)
    BY <1>3 DEF Select, Starts, SelectIdle, SelectBegin, SelectPrepare, SubmitSwitch, CommitSwitch, FailSwitch, Answered
  <2> QED BY <1>3, <2>1, <2>2
<1>4. CASE Recover(c)
  <2>1. RecoverAt(c)
    BY <1>4 DEF Recover, RecoverAt, StartReconcile, StartReconcileWorkspace, ReconcileTransition, ReconcileCatalog,
         ArchiveVerified, ReconcileExecution, ReleaseIdle, TreatItems
  <2>2. pc[c] = "idle" => Starts(c)
    BY <1>4 DEF Recover, Starts, ReconcileTransition, ReconcileCatalog, ArchiveVerified, ReconcileExecution, ReleaseIdle,
         TreatItems
  <2> QED BY <1>4, <2>1, <2>2
<1> QED BY <1>1, <1>2, <1>3, <1>4 DEF Step

----------------------------------------------------------------------------
(* Which threads a step reaches.                                           *)

\* A call works on a thread or has it listed. A recovery that has only been
\* asked for looks at nothing: any id may be given to it.
Touches(c, t) ==
  \/ Active(c) /\ thread[c] = t /\ ~(pc[c] = "reconcile" /\ kind[c] = "reconcile")
  \/ \E i \in work[c].items : i.thread = t

Reaches(c, t) ==
  \/ pc[c] = "idle" /\ (association[t] # Null \/ transitions[t] # Null)
  \/ /\ pc[c] = "reconcile" /\ kind[c] = "reconcile"
     /\ association[t] # Null \/ transitions[t] # Null \/ ReservedBy(t) # {}
  \/ pc[c] = "items" /\ Scanning(c) /\ \E id \in ReservedOn(workspace[c]) : Row(id).thread = t
  \/ Indexes(c, t)

LEMMA StartsReach ==
  ASSUME Control, NEW c \in Calls, Starts(c), NEW t \in Threads, Active(c)', thread'[c] = t,
         ~(pc'[c] = "reconcile" /\ kind'[c] = "reconcile")
  PROVE  association[t] # Null
<1>1. TypeOK /\ CallOK(c) /\ pc[c] = "idle" /\ thread[c] = Null
  <2>1. pc[c] = "idle"  BY DEF Starts, StartRun, StartCatalog, StartSelect, StartReconcile, StartReconcileWorkspace
  <2> QED BY <2>1 DEF Control, CallOK, InPlace
<1>2. ASSUME NEW k, NEW u \in Threads \cup {Null}, NEW w \in Workspaces, StartRun(c, k, u, w)  PROVE association[t] # Null
  <2>1. u = t  BY <1>1, <1>2 DEF StartRun, TypeOK
  <2> QED BY <1>2, <2>1 DEF StartRun
<1>3. ASSUME NEW k, NEW u \in Threads, StartCatalog(c, k, u)  PROVE association[t] # Null
  BY <1>1, <1>3 DEF StartCatalog, TypeOK
<1>4. ASSUME NEW u \in Threads, NEW w, StartSelect(c, u, w)  PROVE association[t] # Null
  BY <1>1, <1>4 DEF StartSelect, TypeOK
<1>5. ASSUME NEW u \in Threads, StartReconcile(c, u)  PROVE association[t] # Null
  BY <1>1, <1>5 DEF StartReconcile, TypeOK
<1>6. ASSUME NEW w, StartReconcileWorkspace(c, w)  PROVE association[t] # Null
  BY <1>1, <1>6 DEF StartReconcileWorkspace, TypeOK
<1> QED BY <1>2, <1>3, <1>4, <1>5, <1>6 DEF Starts

LEMMA RemainingReach ==
  ASSUME Control, NEW c \in Calls, pc[c] = "items", NEW i \in Remaining(c).items
  PROVE  Touches(c, i.thread) \/ Reaches(c, i.thread)
<1>1. CASE work[c] = NoWork
  <2>1. i \in ReservationItems(workspace[c])  BY <1>1 DEF Remaining
  <2>2. i.id \in ReservedOn(workspace[c]) /\ i.thread = Row(i.id).thread  BY <2>1 DEF ReservationItems
  <2>3. Scanning(c)  BY <1>1 DEF Scanning, Active, NoWork, Control, CallOK, InPlace
  <2> QED BY <2>2, <2>3 DEF Reaches
<1>2. CASE work[c] # NoWork
  BY <1>2 DEF Remaining, Touches
<1> QED BY <1>1, <1>2

LEMMA StepTouches ==
  ASSUME Control, NEW c \in Calls, Step(c), NEW d \in Calls, NEW t \in Threads, Touches(d, t)'
  PROVE  Touches(d, t) \/ (d = c /\ Reaches(c, t))
<1>1. TypeOK /\ CallOK(c) /\ OthersKeep(c) /\ Leads(c) /\ Retains(c) /\ CallOK(c)'
  BY StepMoved, StepLeads, StepRetains DEF Moved, Control
<1>2. CASE d # c
  BY <1>1, <1>2 DEF OthersKeep, Touches, Active
<1>3. ASSUME NEW i \in work'[c].items, i.thread = t  PROVE Touches(c, t) \/ Reaches(c, t)
  <2>1. Active(c)' /\ kind'[c] = "reconcileWorkspace"
    BY <1>1, <1>3 DEF CallOK, Equipped, NoWork
  <2>2. CASE pc[c] = "idle"
    <3>1. PICK w \in Workspaces : work'[c] = [stage |-> "transitions", items |-> TransitionItems(w)]
      BY <2>1, <2>2, StartLists
    <3>2. i \in TransitionItems(w)  BY <1>3, <3>1
    <3> QED BY <1>3, <2>2, <3>2 DEF TransitionItems, Reaches
  <2>3. CASE pc[c] = "items"
    <3>1. TreatItems(c) /\ pc'[c] # "done"  BY <2>1, <2>3, ItemsStep DEF Active
    <3>2. PICK i2 \in Remaining(c).items, u \in SUBSET {j \in Remaining(c).items : j.thread = Null /\ j.state = "preparing"} :
             work'[c] = [stage |-> Remaining(c).stage, items |-> Remaining(c).items \ (u \cup {i2})]
      BY <3>1, TreatMoves
    <3>3. work'[c].items = Remaining(c).items \ (u \cup {i2})  BY <3>2
    <3> QED BY <1>3, <2>3, <3>3, RemainingReach
  <2>4. CASE pc[c] \notin {"idle", "items"}
    BY <1>1, <1>3, <2>1, <2>4 DEF Active, Retains, Touches
  <2> QED BY <2>2, <2>3, <2>4
<1>4. ASSUME Active(c)', thread'[c] = t, ~(pc'[c] = "reconcile" /\ kind'[c] = "reconcile")
      PROVE  Touches(c, t) \/ Reaches(c, t)
  <2>1. pc'[c] \notin {"items", "idle", "done"}
    BY <1>1, <1>4 DEF CallOK, Equipped, Active
  <2>2. CASE pc[c] = "idle"
    BY <1>4, <2>2, StartsReach, StepAt DEF Reaches
  <2>3. CASE pc[c] = "items"
    <3>1. TreatItems(c)  BY <2>3, ItemsStep
    <3>2. PICK i \in Remaining(c).items : thread'[c] = i.thread  BY <2>1, <3>1, TreatMoves
    <3> QED BY <1>4, <2>3, <3>2, RemainingReach
  <2>4. CASE pc[c] = "newThread"
    <3>1. IndexThread(c)  
      BY <1>1, <2>1, <2>4, StepAt, FinishEffect DEF RunAt, CatalogAt, SelectAt, RecoverAt, FailRun
    <3>2. Indexes(c, t)
      BY <1>1, <1>4, <3>1 DEF IndexThread, Answered, WriteIndex, Goto, Indexes, TypeOK, StoreTypeOK
    <3> QED BY <3>2 DEF Reaches
  <2>5. CASE pc[c] = "reconcile" /\ kind[c] = "reconcile"
    <3>1. thread[c] = t  BY <1>1, <1>4, <2>1, <2>5 DEF Retains
    <3>2. ReconcileTransition(c) \/ ReconcileCatalog(c) \/ ReconcileExecution(c)
      BY <2>5, StepAt DEF RunAt, CatalogAt, SelectAt, RecoverAt
    <3>3. association[t] # Null \/ transitions[t] # Null \/ ReservedBy(t) # {}
      BY <1>1, <2>1, <3>1, <3>2, FinishEffect DEF ReconcileTransition, ReconcileCatalog, ReconcileExecution
    <3> QED BY <2>5, <3>3 DEF Reaches
  <2>6. CASE pc[c] \notin {"idle", "items", "newThread"} /\ ~(pc[c] = "reconcile" /\ kind[c] = "reconcile")
    BY <1>1, <1>4, <2>1, <2>6 DEF Retains, Leads, Touches, Active
  <2> QED BY <2>2, <2>3, <2>4, <2>5, <2>6
<1> QED BY <1>2, <1>3, <1>4 DEF Touches

\* A call is left alone, or is over; what it had written and sent is still there,
\* or is gone.  A thread with a row stays where it is.
Pauses ==
  /\ \A d \in Calls :
       /\ kind'[d] = kind[d] /\ thread'[d] = thread[d] /\ workspace'[d] = workspace[d]
       /\ \/ pc'[d] = pc[d] /\ gate'[d] = gate[d] /\ held'[d] = held[d] /\ contract'[d] = contract[d] /\ work'[d] = work[d]
          \/ pc'[d] = "done" /\ work'[d] = NoWork /\ held'[d] = Null
  /\ UNCHANGED transitions
  /\ \A t \in Threads : association'[t] = association[t] \/ association[t] = Null \/ Gone(t)
  /\ \A i \in Calls : reservations'[i] # Null =>
       /\ Live(i) /\ SameRow(reservations'[i], Row(i))
       /\ reservations'[i].state = "preparing" <=> Row(i).state = "preparing"
  /\ \A t \in Threads : Gone(t) => Gone(t)'
  /\ \A t \in Threads : sourceCwd[t] # Null => sourceCwd'[t] # Null
  /\ Sent' \subseteq Sent
  /\ requests' = requests \/ (requests # <<>> /\ requests' = Tail(requests)) \/ requests' = <<>>

\* What is between the steps of calls: the source, the transport, a crash.
Rests ==
  /\ Pauses
  /\ \A t \in Threads : association'[t] = association[t] \/ (association'[t] = Null /\ Gone(t))
  /\ UNCHANGED storeVars \/ (\A d \in Calls : ~Queued(d))
  /\ listed' \in {listed, {}}

\* The source itself stays as it is, and tells nothing new.
Hushed ==
  /\ UNCHANGED <<known, started, sourceArchived, sourceCwd, reported>>
  /\ Answers' \subseteq Answers /\ Heard' \subseteq Heard
  /\ \A t \in Threads : running'[t] \in {running[t], Null}
  /\ \A d \in Calls : \/ reply'[d] \in {reply[d], Null, Rejection(d)}
                      \/ reply'[d] \in Answers /\ reply'[d].call = d
  /\ \A d \in Calls : reply[d] # Null /\ pc[d] \in Waiting =>
       (reply'[d] = reply[d] /\ pc'[d] = pc[d]) \/ Answers' = {}

LEMMA DeliverRests ==
  ASSUME Deletion, Deliver, \A d \in Calls : ~Queued(d)
  PROVE  Rests /\ Hushed
<1>1. /\ Typed /\ Control /\ Pipe /\ Rows /\ TypeOK /\ StoreTypeOK /\ SourceTypeOK
      /\ UNCHANGED <<known, running, started, sourceArchived, sourceCwd, reported, requests, pc, kind, thread, workspace,
                     gate, held, contract, work>>
      /\ events # <<>> /\ events' = Tail(events)
  BY DEF Deletion, Typed, Control, TypeOK, Deliver
<1> DEFINE message == Head(events)
<1>2. message \in Event /\ Heard = Heard' \cup {message} /\ message \in Heard
  BY <1>1, FirstEvent, ElementsTail DEF Heard, SourceTypeOK
<1>3. RowsNoticed
  BY <1>1, <1>2, NoticeRows DEF Deliver, storeVars, RowsNoticed
<1>4. UNCHANGED transitions
  BY DEF Deliver, Notice, ForgetThread, ObserveTurn, storeVars
<1>5. \A t \in Threads : association'[t] = association[t] \/ (association'[t] = Null /\ Gone(t))
  <2>1. CASE UNCHANGED association  BY <2>1
  <2>2. CASE ~UNCHANGED association
    <3>1. message.type = "deleted" /\ ForgetThread(message.thread)
      BY <2>2 DEF Deliver, Notice, ObserveTurn, storeVars
    <3>2. Gone(message.thread)  BY <1>2, <3>1 DEF Deletion, Forgettable
    <3> QED BY <1>1, <3>1, <3>2 DEF ForgetThread, StoreTypeOK
  <2> QED BY <2>1, <2>2
<1>6. \A i \in Calls : reservations'[i] # Null =>
       /\ Live(i) /\ SameRow(reservations'[i], Row(i))
       /\ reservations'[i].state = "preparing" <=> Row(i).state = "preparing"
  <2>1. CASE UNCHANGED reservations  BY <2>1 DEF Live, Row, SameRow
  <2>2. CASE ~UNCHANGED reservations
    <3>1. PICK id \in Calls :
       /\ OtherRowsKeep(id) /\ Live(id) /\ Row(id).state # "preparing"
       /\ \/ reservations'[id] = Null
          \/ /\ reservations'[id] # Null /\ SameRow(reservations'[id], Row(id))
             /\ reservations'[id].state # "preparing"
      BY <1>3, <2>2 DEF RowsNoticed
    <3> QED BY <3>1 DEF OtherRowsKeep, SameRow, Live, Row
  <2> QED BY <2>1, <2>2
<1>7. Sent' = Sent /\ requests' = requests  BY <1>1 DEF Sent, Elements
<1>8. Rests
  BY <1>1, <1>4, <1>5, <1>6, <1>7 DEF Rests, Pauses, Gone, Deliver, Still, Uneventful
<1>9. \A d \in Calls : reply'[d] = reply[d] \/ (reply'[d] \in Answers /\ reply'[d].call = d)
  <2>1. CASE UNCHANGED reply  BY <2>1
  <2>2. CASE ~UNCHANGED reply
    <3>1. message.type = "answer" /\ reply' = [reply EXCEPT ![message.call] = IF Awaiting(message.call) THEN message ELSE @]
      BY <2>2 DEF Deliver
    <3> QED BY <1>1, <1>2, <3>1 DEF TypeOK, Answers
  <2> QED BY <2>1, <2>2
<1>10. Answers' \subseteq Answers  BY <1>2 DEF Answers
<1>11. \A d \in Calls : reply[d] # Null => reply'[d] = reply[d]
  BY <1>1 DEF Deliver, Awaiting, TypeOK
<1> QED BY <1>1, <1>2, <1>8, <1>9, <1>10, <1>11 DEF Hushed

LEMMA SourceRests ==
  ASSUME Deletion, Source
  PROVE  Rests
<1>1. /\ Typed /\ Control /\ Pipe /\ SourceTypeOK
  BY DEF Deletion, Typed, Control, TypeOK
<1>2. UNCHANGED <<storeVars, callVars>>  BY DEF Source
<1>3. Sent' \subseteq Sent  BY <1>1, SourceSent
<1>4. requests' = requests \/ (requests # <<>> /\ requests' = Tail(requests))
  BY DEF Source, Serve, CompleteTurn, StartForeignTurn
<1>5. \A t \in Threads : Gone(t) => Gone(t)'  BY SourcePlaces DEF Deletion
<1>6. \A t \in Threads : sourceCwd[t] # Null => sourceCwd'[t] # Null
  <2>1. CASE Serve
    <3>1. Served  BY <1>1, <2>1, ServeOutcome
    <3>2. PICK a \in Answer : Outcome(a)  BY <3>1 DEF Served
    <3>3. Oldest.method \in {"turn", "resume", "newThread", "switch"} => Oldest.cwd # Null
      BY <1>1, <3>1 DEF Served, Pipe, Matches
    <3> QED BY <1>1, <3>1, <3>2, <3>3 DEF Outcome, Looked, Created, Begun, Resumed, Filed, Deleted, SourceTypeOK
  <2>2. CASE ~Serve
    <3>1. UNCHANGED sourceCwd  BY <2>2 DEF Source, CompleteTurn, StartForeignTurn
    <3> QED BY <3>1
  <2> QED BY <2>1, <2>2
<1>7. /\ \A i \in Calls : reservations'[i] # Null => Live(i) /\ SameRow(reservations'[i], Row(i))
      /\ \A i \in Calls : reservations'[i] = Row(i)
  BY <1>2 DEF storeVars, Live, Row, SameRow
<1>8. \A i \in Calls : reservations'[i] # Null =>
       /\ Live(i) /\ SameRow(reservations'[i], Row(i))
       /\ reservations'[i].state = "preparing" <=> Row(i).state = "preparing"
  BY <1>7
<1>9. UNCHANGED listed  BY DEF Source, Still, Uneventful
<1> QED BY <1>2, <1>3, <1>4, <1>5, <1>6, <1>8, <1>9 DEF Rests, Pauses, storeVars, callVars

LEMMA OtherRests ==
  ASSUME Deletion, (\E c \in Calls : Timeout(c)) \/ SourceExit \/ Crash \/ UNCHANGED vars
  PROVE  Rests /\ Hushed
<1>1. /\ Typed /\ Control /\ TypeOK /\ \A d \in Calls : CallOK(d)
      /\ UNCHANGED <<storeVars, kind, thread, workspace, known, started, sourceArchived, sourceCwd, reported>>
  BY DEF Deletion, Typed, Control, Timeout, SourceExit, Crash, Exit, vars, sourceVars, callVars
<1>2. \A i \in Calls : reservations'[i] # Null =>
       /\ Live(i) /\ SameRow(reservations'[i], Row(i))
       /\ reservations'[i].state = "preparing" <=> Row(i).state = "preparing"
  BY <1>1 DEF storeVars, Live, Row, SameRow
<1>3. \A d \in Calls :
          \/ pc'[d] = pc[d] /\ gate'[d] = gate[d] /\ held'[d] = held[d] /\ contract'[d] = contract[d] /\ work'[d] = work[d]
          \/ pc'[d] = "done" /\ work'[d] = NoWork /\ held'[d] = Null
  <2>1. CASE Crash  BY <1>1, <2>1 DEF Crash, CallOK, Equipped, Active
  <2>2. CASE ~Crash  BY <2>2 DEF Timeout, SourceExit, vars, callVars
  <2> QED BY <2>1, <2>2
<1>4. /\ Sent' \subseteq Sent /\ Heard' \subseteq Heard /\ Answers' \subseteq Answers
      /\ requests' = requests \/ requests' = <<>>
      /\ \A t \in Threads : running'[t] \in {running[t], Null}
  <2>1. CASE SourceExit \/ Crash
    <3>1. Exit  BY <2>1 DEF SourceExit, Crash
    <3> QED BY <3>1, ExitPipe DEF Exit
  <2>2. CASE ~(SourceExit \/ Crash)
    <3>1. UNCHANGED sourceVars  BY <2>2 DEF Timeout, vars
    <3> QED BY <3>1, SameElements DEF sourceVars
  <2> QED BY <2>1, <2>2
<1>5. \A d \in Calls : reply'[d] \in {reply[d], Null, Rejection(d)}
  BY <1>1 DEF Timeout, SourceExit, Crash, vars, callVars, TypeOK
<1>6. listed' \in {listed, {}}
  BY DEF Timeout, SourceExit, Crash, vars, Still, Uneventful
<1>7. \A d \in Calls : reply[d] # Null /\ pc[d] \in Waiting =>
       (reply'[d] = reply[d] /\ pc'[d] = pc[d]) \/ Answers' = {}
  <2>1. CASE Crash  BY <2>1, ExitPipe DEF Crash
  <2>2. CASE ~Crash  BY <1>1, <2>2 DEF Timeout, SourceExit, vars, callVars, Awaiting, TypeOK
  <2> QED BY <2>1, <2>2
<1> QED BY <1>1, <1>2, <1>3, <1>4, <1>5, <1>6, <1>7 DEF Rests, Pauses, Hushed, storeVars, Gone

\* A row gets its thread when the call that began without one binds it.
LEMMA StepBinds ==
  ASSUME Typed, NEW c \in Calls, Step(c), Live(c), reservations'[c] # Null, reservations'[c].thread # Row(c).thread
  PROVE  /\ Bind(c) /\ pc[c] = "bind" /\ kind[c] = "implicit" /\ thread[c] \in Threads
         /\ Row(c).thread = Null /\ reservations'[c].thread = thread[c]
<1>1. /\ Typed /\ Control /\ TypeOK /\ StoreTypeOK /\ CallOK(c) /\ CallOK(c)' /\ Named /\ RowOK(c) /\ RowOK(c)' /\ Grows(c)
      /\ Retains(c) /\ Leads(c) /\ c \in Reservations /\ CallTypes'
  BY StepRows, StepMoved, StepRetains, StepLeads DEF Typed, Control, TypeOK, Pipe, Rows, RowsMoved, Moved
<1>2. /\ Row(c).thread = Null /\ reservations'[c].thread = thread'[c] /\ thread'[c] # Null
      /\ pc[c] # "idle" /\ kind'[c] = kind[c]
  BY <1>1 DEF Grows, RowOK, Live, Row, Retains
<1>3. kind[c] = "implicit"
  BY <1>1, <1>2 DEF RowOK, Gateless, Live, Row
<1>4. Run(c) /\ RunAt(c)
  <2>1. kind'[c] \in RunKinds  BY <1>2, <1>3 DEF RunKinds
  <2>2. ~Select(c)  BY <1>1, <2>1, SelectKind
  <2>3. ~Recover(c)  BY <1>1, <2>1, RecoverKind
  <2>4. ~Catalog(c)
    BY <1>1, <1>2, <1>3 DEF Catalog, StartCatalog, ReserveCatalog, SubmitCatalog, CatalogAnswered, FailCatalog,
         Forget, ReleaseCatalog, CallOK, InPlace, CatalogKinds, Reconciles
  <2> QED BY <2>2, <2>3, <2>4, StepAt
<1>5. pc[c] \in {"prepare", "newThread", "bind"}
  BY <1>1, <1>2, <1>3, <1>4 DEF RunAt, RowOK, CallOK, InPlace, MaintenanceKinds
<1>6. ~FailRun(c)
  <2>1. ASSUME FailRun(c)  PROVE FALSE
    <3>1. Fail(c)  BY <2>1 DEF FailRun
    <3> QED BY <1>1, <3>1, FailRow DEF SameRow
  <2> QED BY <2>1
<1>7. ~CreateThread(c)
  <2>1. ASSUME CreateThread(c)  PROVE FALSE
    <3>1. UNCHANGED storeVars  BY <1>3, <2>1 DEF CreateThread
    <3> QED BY <3>1 DEF storeVars, Row
  <2> QED BY <2>1
<1>8. ~IndexThread(c)
  <2>1. ASSUME IndexThread(c)  PROVE FALSE
    <3>1. UNCHANGED reservations  BY <2>1 DEF IndexThread, WriteIndex
    <3> QED BY <3>1 DEF Row
  <2> QED BY <2>1
<1>9. Bind(c) /\ pc[c] = "bind"
  BY <1>4, <1>5, <1>6, <1>7, <1>8 DEF RunAt
<1>10. thread'[c] = thread[c]  BY <1>9 DEF Bind, Continue
<1> QED BY <1>1, <1>2, <1>3, <1>9, <1>10 DEF TypeOK

\* What says that somebody is concerned with a thread: its transition, a
\* reservation, a call that works on it, a request that names it.
Marked(t) ==
  \/ transitions[t] # Null \/ ReservedBy(t) # {}
  \/ \E c \in Calls : Touches(c, t)
  \/ \E r \in Sent : r.thread = t

\* Its row, too, says that a thread has existed.
Traced(t) == association[t] # Null \/ Marked(t)

\* A step of a call marks no thread but one that it reaches.
LEMMA StepMarked ==
  ASSUME Typed, NEW c \in Calls, Step(c), NEW t \in Threads, Marked(t)'
  PROVE  Marked(t) \/ Reaches(c, t)
<1>1. /\ Control /\ TypeOK /\ Named /\ CallOK(c) /\ CallOK(c)' /\ RowsMoved(c) /\ OthersKeep(c) /\ Shape(c)
      /\ SourceTypeOK
  BY StepRows, StepMoved, StepShape DEF Typed, Control, TypeOK, Pipe, Rows, Moved
<1>2. ASSUME ~Marked(t), ~Reaches(c, t)  PROVE FALSE
  <2>1. /\ transitions[t] = Null /\ ReservedBy(t) = {}
        /\ (\A d \in Calls : ~Touches(d, t)) /\ (\A r \in Sent : r.thread # t)
    BY <1>2 DEF Marked
  <2>3. \A d \in Calls : ~Touches(d, t)'
    BY <1>1, <1>2, <2>1, StepTouches
  <2>5. transitions'[t] = Null
    <3>1. ASSUME transitions'[t] # transitions[t]  PROVE FALSE
      <4>1. Shifts(c, t)  BY <1>1, <3>1, StepShifts
      <4> QED BY <1>1, <2>1, <4>1 DEF Shifts, CanBegin, Commits, CanCommit, Touches, Active
    <3> QED BY <2>1, <3>1
  <2>6. ASSUME NEW i \in Calls, reservations'[i] # Null, reservations'[i].thread = t  PROVE FALSE
    <3>1. i = c \/ Row(i) = reservations'[i]  BY <1>1, <2>6 DEF RowsMoved, Row
    <3>2. i = c  BY <2>1, <2>6, <3>1 DEF ReservedBy, Live, Row
    <3>3. CASE ~Live(c)
      <4>1. Reserves(c)  BY <2>6, <3>2, <3>3, StepReserves
      <4> QED BY <2>1, <2>6, <3>2, <4>1 DEF Reserves, CanReserve, Touches, Active
    <3>4. CASE Live(c)
      <4>1. reservations'[c].thread # Row(c).thread
        BY <2>1, <2>6, <3>2, <3>4 DEF ReservedBy
      <4>2. pc[c] = "bind" /\ thread[c] = t
        BY <2>6, <3>2, <3>4, <4>1, StepBinds
      <4> QED BY <2>1, <4>2 DEF Touches, Active
    <3> QED BY <3>3, <3>4
  <2>7. ASSUME NEW r \in Sent', r.thread = t  PROVE FALSE
    <3>1. CASE UNCHANGED sourceVars
      BY <2>1, <2>7, <3>1, SameElements
    <3>2. CASE Sends(c)
      <4>1. PICK q \in Request : requests' = Append(requests, q) /\ q.call = c /\ Matches(q)'
        BY <3>2 DEF Sends
      <4>2. Sent' = Sent \cup {q}  BY <1>1, <4>1, ElementsAppend DEF SourceTypeOK, Sent
      <4>3. r = q  BY <2>1, <2>7, <4>2
      <4>4. thread'[c] = t  BY <2>7, <4>1, <4>3 DEF Matches
      <4>5. Active(c)' /\ pc'[c] # "reconcile"  BY <3>2 DEF Sends, Active, Waiting
      <4> QED BY <2>3, <4>4, <4>5 DEF Touches
    <3> QED BY <1>1, <3>1, <3>2 DEF Shape, Quits
  <2> QED BY <2>3, <2>5, <2>6, <2>7 DEF Marked, ReservedBy, Live, Row
<1> QED BY <1>2

\* A step of a call gives no thread a row but the one it indexes.
LEMMA StepInserts ==
  ASSUME Control, NEW c \in Calls, Step(c), NEW t \in Threads, association[t] = Null, association'[t] # Null
  PROVE  Indexes(c, t)
<1>1. Forgets(c, t) \/ Indexes(c, t) \/ Binds(c, t) \/ Commits(c, t)  BY StepPlaces
<1>2. ~Commits(c, t)
  <2>1. ASSUME Commits(c, t)  PROVE FALSE
    <3>1. transitions[t] \in Transition /\ transitions[t].from = Null
      BY <2>1 DEF Commits, CanCommit, Control, TypeOK, StoreTypeOK
    <3> QED BY <3>1 DEF Transition
  <2> QED BY <2>1
<1> QED BY <1>1, <1>2 DEF Forgets, Binds

LEMMA StepTraced ==
  ASSUME Typed, NEW c \in Calls, Step(c), NEW t \in Threads, Traced(t)'
  PROVE  Traced(t) \/ Indexes(c, t)
<1>1. CASE Marked(t)'
  <2>1. Marked(t) \/ Reaches(c, t)  BY <1>1, StepMarked
  <2> QED BY <2>1 DEF Reaches, Traced, Marked, ReservedBy, ReservedOn
<1>2. CASE association'[t] # Null
  BY <1>2, StepInserts DEF Traced, Typed
<1> QED BY <1>1, <1>2 DEF Traced

LEMMA PauseMarked ==
  ASSUME Pauses, NEW t \in Threads, Marked(t)'
  PROVE  Marked(t)
<1>1. \A d \in Calls : Touches(d, t)' => Touches(d, t)
  <2>1. ASSUME NEW d \in Calls, Touches(d, t)'  PROVE Touches(d, t)
    <3>1. pc'[d] = pc[d] /\ thread'[d] = thread[d] /\ kind'[d] = kind[d] /\ work'[d] = work[d]
      BY <2>1 DEF Pauses, Touches, Active, NoWork
    <3> QED BY <2>1, <3>1 DEF Touches, Active
  <2> QED BY <2>1
<1>2. (\E i \in Calls : reservations'[i] # Null /\ reservations'[i].thread = t) => ReservedBy(t) # {}
  BY DEF Pauses, SameRow, ReservedBy, Live, Row
<1> QED BY <1>1, <1>2 DEF Pauses, Marked, ReservedBy, Live, Row

LEMMA RestTraced ==
  ASSUME Rests, NEW t \in Threads, Traced(t)'
  PROVE  Traced(t)
<1>1. association'[t] # Null => association[t] # Null
  BY DEF Rests
<1> QED BY <1>1, PauseMarked DEF Rests, Traced

\* An id that nothing was ever issued for is nowhere.
Existed ==
  /\ \A t \in Threads : (Traced(t) => sourceCwd[t] # Null) /\ (sourceCwd[t] = Null => ~sourceArchived[t])
  /\ \A e \in listed : sourceCwd[e.thread] # Null

\* The call a new thread has been, or will be, named to.
Brought(c, t) == Answered(c, "newThread", {"ok"}) /\ reply[c].thread = t

Carries(c, t) ==
  \/ Brought(c, t)
  \/ \E e \in Answers : e.call = c /\ e.thread = t

\* A thread whose creation was answered is its call's alone until the call indexes
\* it; a list may have seen it once the call has been given the answer.
Newborn == \A c \in Calls, t \in Threads : Carries(c, t) =>
  /\ ~Marked(t) /\ sourceCwd[t] = workspace[c] /\ t \in known /\ ~sourceArchived[t]
  /\ association[t] # Null => association[t] = workspace[c] /\ Brought(c, t)
  /\ \A e \in listed : e.thread = t => e.workspace = workspace[c] /\ Brought(c, t)
  /\ \A d \in Calls : Carries(d, t) => c = d

\* What a list said of a thread that has no row is where the thread is.
Listings == \A e \in listed :
  e.thread \in known /\ association[e.thread] = Null => e.workspace = sourceCwd[e.thread]

\* A step of a call takes nothing from what lists said.
LEMMA StepRests ==
  ASSUME NEW c \in Calls, Step(c)
  PROVE  UNCHANGED <<listed, crashes, exits>>
BY DEF Step, Run, Catalog, Select, Recover, Still, Uneventful,
       StartRun, ReserveRun, ReserveRefused, RecoverRollback, CheckIdle, FailRun, CreateThread, IndexThread, ConfirmThread,
       Bind, Submit, Maintain, AcknowledgeTurn, FinishTurn, AcknowledgeMaintained,
       StartCatalog, ReserveCatalog, SubmitCatalog, CatalogAnswered, FailCatalog, Forget, ReleaseCatalog,
       StartSelect, SelectIdle, SelectBegin, SelectPrepare, SubmitSwitch, CommitSwitch, FailSwitch,
       StartReconcile, StartReconcileWorkspace, ReconcileTransition, ReconcileCatalog, ArchiveVerified,
       ReconcileExecution, ReleaseIdle, TreatItems

\* A step of a call leaves the source alone.
LEMMA StepSource ==
  ASSUME Typed, NEW c \in Calls, Step(c)
  PROVE  /\ UNCHANGED <<known, running, started, sourceArchived, sourceCwd, reported, events, Heard, Answers>>
         /\ Sent \subseteq Sent'
         /\ Open(c) => UNCHANGED sourceVars /\ pc'[c] = "done"
         /\ UNCHANGED requests \/ \E r \in Request : /\ requests' = Append(requests, r) /\ r.call = c /\ Matches(r)'
                                                   /\ Sent' = Sent \cup {r} /\ pc'[c] \in Waiting
<1>1. Shape(c) /\ SourceTypeOK
  BY StepShape DEF Typed, Pipe, Control, TypeOK
<1>2. UNCHANGED <<known, running, started, sourceArchived, sourceCwd, reported, events>>
  BY <1>1 DEF Shape, Quits, Sends, sourceVars
<1>3. UNCHANGED <<Heard, Answers>>  BY <1>2 DEF Heard, Answers, Elements
<1>4. CASE UNCHANGED sourceVars
  <2>1. UNCHANGED requests /\ Sent' = Sent  BY <1>4, SameElements
  <2> QED BY <1>1, <1>2, <1>3, <1>4, <2>1 DEF Shape, Quits, Sends
<1>5. CASE ~UNCHANGED sourceVars
  <2>1. ~Open(c) /\ Sends(c)  BY <1>1, <1>5 DEF Shape, Quits
  <2>2. PICK r \in Request : requests' = Append(requests, r) /\ r.call = c /\ Matches(r)'
    BY <2>1 DEF Sends
  <2>3. Sent' = Sent \cup {r}  BY <1>1, <2>2, ElementsAppend DEF SourceTypeOK, Sent
  <2> QED BY <1>2, <1>3, <2>1, <2>2, <2>3 DEF Sends
<1> QED BY <1>4, <1>5

LEMMA StepExisted ==
  ASSUME Typed, Existed, Newborn, NEW c \in Calls, Step(c)
  PROVE  Existed'
<1>1. CallOK(c) /\ UNCHANGED <<sourceCwd, sourceArchived, listed>>
  BY StepSource, StepRests DEF Typed, Control
<1>2. ASSUME NEW t \in Threads, Traced(t)'  PROVE sourceCwd[t] # Null
  <2>1. CASE Traced(t)  BY <2>1 DEF Existed
  <2>2. CASE Indexes(c, t)
    <3>1. Carries(c, t)  BY <2>2 DEF Indexes, Carries, Brought, Answered
    <3>2. workspace[c] # Null
      BY <1>1, <2>2 DEF Indexes, CallOK, InPlace, Equipped, Gateless
    <3> QED BY <3>1, <3>2 DEF Newborn
  <2> QED BY <1>2, <2>1, <2>2, StepTraced
<1>3. \A t \in Threads : Traced(t)' => sourceCwd[t] # Null  BY <1>2
<1> QED BY <1>1, <1>3 DEF Existed

LEMMA StepCarries ==
  ASSUME Typed, NEW c \in Calls, Step(c), NEW d \in Calls, NEW t, Carries(d, t)'
  PROVE  Carries(d, t) /\ workspace'[d] = workspace[d] /\ (d = c => Open(c))
<1>1. /\ Control /\ OthersKeep(c) /\ Waits(c) /\ Shape(c) /\ UNCHANGED Answers /\ Named
      /\ OpenCalls
  BY StepSource, StepMoved, StepWaits, StepShape DEF Typed, Pipe, Moved
<1>2. CASE d # c
  BY <1>1, <1>2 DEF OthersKeep, Carries, Brought, Answered
<1>3. CASE d = c
  <2>1. ~Brought(c, t)'  BY <1>1 DEF Waits, Waiting, Brought, Answered
  <2>2. PICK e \in Answers : e.call = c /\ e.thread = t  BY <1>1, <1>3, <2>1 DEF Carries
  <2>3. Open(c)  BY <1>1, <2>2 DEF OpenCalls
  <2> QED BY <1>1, <1>3, <2>2, <2>3 DEF Carries, Shape, Quits
<1> QED BY <1>2, <1>3

\* Nobody looks for a new thread while the answer that names it waits to be read.
LEMMA NewbornUnreached ==
  ASSUME Recoverable, Newborn, NEW c \in Calls, MayRun(c), NEW d \in Calls \ {c}, NEW t \in Threads, Carries(d, t)
  PROVE  ~Reaches(c, t)
<1>1. /\ Typed /\ Control /\ Solo /\ CallOK(c) /\ ~Marked(t)
      /\ association[t] # Null => Brought(d, t)
  BY DEF Recoverable, Typed, Control, Listed, Newborn
<1>2. association[t] # Null => Runnable(d) /\ ~LoopIsIdle /\ Runnable(c) /\ ~Starting(c)
  <2>1. association[t] # Null => Runnable(d)
    BY <1>1 DEF Brought, Answered, Runnable, Waiting
  <2> QED BY <1>1, <2>1 DEF LoopIsIdle, MayRun, Solo
<1>3. ~Indexes(c, t)
  BY DEF Newborn, Indexes, Carries, Brought, Answered
<1>4. Runnable(c) => pc[c] # "idle"
  BY DEF Runnable, Queued, Between, Waiting
<1> QED BY <1>1, <1>2, <1>3, <1>4 DEF Reaches, Starting, Marked, ReservedOn, ReservedBy

LEMMA StepNewborn ==
  ASSUME Recoverable, Newborn, NEW c \in Calls, MayRun(c), Step(c)
  PROVE  Newborn'
<1>1. Typed /\ Control /\ UNCHANGED <<sourceCwd, sourceArchived, known, listed>> /\ OthersKeep(c)
  BY StepSource, StepRests, StepMoved DEF Recoverable, Typed, Moved
<1>2. ASSUME NEW d \in Calls, NEW t \in Threads, Carries(d, t)'
      PROVE  /\ ~Marked(t)' /\ sourceCwd[t] = workspace'[d] /\ t \in known /\ ~sourceArchived[t]
             /\ association'[t] # Null => association'[t] = workspace'[d] /\ Brought(d, t)'
             /\ \A e \in listed : e.thread = t => e.workspace = workspace'[d] /\ Brought(d, t)'
             /\ \A a \in Calls : Carries(a, t)' => d = a
  <2>1. Carries(d, t) /\ workspace'[d] = workspace[d] /\ (d = c => Open(c))
    BY <1>1, <1>2, StepCarries
  <2>2. Brought(d, t) => d # c /\ Brought(d, t)'
    BY <1>1, <2>1 DEF Brought, Answered, Open, OthersKeep
  <2>3. ~Indexes(c, t)
    <3>1. ASSUME Indexes(c, t)  PROVE FALSE
      <4>1. Carries(c, t)  BY <3>1 DEF Indexes, Carries, Brought, Answered
      <4>2. d = c  BY <2>1, <4>1 DEF Newborn
      <4> QED BY <2>1, <3>1, <4>2 DEF Indexes, Open
    <3> QED BY <3>1
  <2>4. ~Reaches(c, t)
    <3>1. CASE d # c  BY <2>1, <3>1, NewbornUnreached
    <3>2. CASE d = c
      <4>1. ~Marked(t) /\ association[t] = Null  BY <2>1, <2>2, <3>2 DEF Newborn
      <4> QED BY <2>3, <4>1 DEF Reaches, Marked, ReservedOn, ReservedBy
    <3> QED BY <3>1, <3>2
  <2>5. ~Marked(t) /\ ~Marked(t)'  BY <1>1, <2>1, <2>4, StepMarked DEF Newborn
  <2>6. association'[t] # Null => association'[t] = association[t]
    <3>1. ASSUME association'[t] # Null, association'[t] # association[t]  PROVE FALSE
      <4>1. Forgets(c, t) \/ Indexes(c, t) \/ Binds(c, t) \/ Commits(c, t)  BY <1>1, <3>1, StepPlaces
      <4> QED BY <2>3, <2>5, <3>1, <4>1 DEF Forgets, Binds, Commits, Marked, Touches, Active
    <3> QED BY <3>1
  <2>7. \A a \in Calls : Carries(a, t)' => Carries(a, t)  BY <1>1, StepCarries
  <2> QED BY <2>1, <2>2, <2>5, <2>6, <2>7 DEF Newborn
<1> QED BY <1>1, <1>2 DEF Newborn

LEMMA RestExisted ==
  ASSUME Control, Existed, Rests, \A t \in Threads : sourceCwd'[t] = Null => sourceArchived'[t] = sourceArchived[t]
  PROVE  Existed'
<1>1. ASSUME NEW t \in Threads  PROVE /\ Traced(t)' => sourceCwd'[t] # Null
                                      /\ sourceCwd'[t] = Null => ~sourceArchived'[t]
  <2>1. Traced(t)' => Traced(t)  BY RestTraced
  <2> QED BY <2>1 DEF Existed, Rests, Pauses
<1>2. \A e \in listed : sourceCwd[e.thread] # Null /\ e.thread \in Threads
  BY DEF Existed, Control, TypeOK, Listing
<1> QED BY <1>1, <1>2 DEF Existed, Rests, Pauses

LEMMA HushedNewborn ==
  ASSUME Newborn, Rests, Hushed
  PROVE  Newborn'
<1>1. ASSUME NEW d \in Calls, NEW t \in Threads, Carries(d, t)'
      PROVE  Carries(d, t) /\ (Brought(d, t) => Brought(d, t)')
  <2>1. CASE Brought(d, t)'
    <3>1. pc[d] = "newThread"  BY <2>1 DEF Rests, Pauses, Brought, Answered
    <3>2. Rejection(d).result # "ok"  BY DEF Rejection
    <3> QED BY <2>1, <3>1, <3>2 DEF Hushed, Carries, Brought, Answered
  <2>2. CASE \E e \in Answers' : e.call = d /\ e.thread = t
    <3>1. Carries(d, t)  BY <2>2 DEF Hushed, Carries
    <3>2. Brought(d, t) => Brought(d, t)'  BY <2>2 DEF Hushed, Brought, Answered, Waiting
    <3> QED BY <3>1, <3>2
  <2> QED BY <1>1, <2>1, <2>2 DEF Carries
<1>2. \A t \in Threads : Marked(t)' => Marked(t)  BY PauseMarked DEF Rests
<1>3. ASSUME NEW d \in Calls, NEW t \in Threads, Carries(d, t)'
      PROVE  /\ ~Marked(t)' /\ sourceCwd'[t] = workspace'[d] /\ t \in known' /\ ~sourceArchived'[t]
             /\ association'[t] # Null => association'[t] = workspace'[d] /\ Brought(d, t)'
             /\ \A e \in listed' : e.thread = t => e.workspace = workspace'[d] /\ Brought(d, t)'
             /\ \A a \in Calls : Carries(a, t)' => d = a
  BY <1>1, <1>2, <1>3 DEF Newborn, Rests, Pauses, Hushed
<1> QED BY <1>3 DEF Newborn

LEMMA SourceNewborn ==
  ASSUME Deletion, Existed, Newborn, Source
  PROVE  Existed' /\ Newborn'
<1>1. /\ Typed /\ Control /\ Pipe /\ SourceTypeOK /\ KnownPlaced /\ Rests /\ UNCHANGED <<pc, reply, workspace, association, listed>>
  BY SourceRests DEF Deletion, Typed, Control, TypeOK, Source, callVars, storeVars, Still, Uneventful
<1>2. \A t \in Threads : Marked(t)' => Marked(t)  BY <1>1, PauseMarked DEF Rests
<1>3. CASE Serve
  <2>1. Served  BY <1>1, <1>3, ServeOutcome
  <2>2. PICK a \in Answer : a.call = Oldest.call /\ Answers' = Answers \cup {a} /\ Outcome(a)
    BY <2>1 DEF Served
  <2>3. /\ Oldest \in Sent /\ Oldest.call \in Calls /\ Oldest.thread \in Threads \cup {Null}
        /\ Oldest.method = "newThread" => Oldest.cwd = workspace[Oldest.call] /\ Oldest.cwd # Null
    BY <1>1, <2>1 DEF Served, Request, Pipe, Matches
  <2>4. \A t \in Threads : sourceCwd'[t] = Null => sourceArchived'[t] = sourceArchived[t]
    BY <1>1, <2>2, <2>3 DEF Outcome, Looked, Created, Begun, Resumed, Filed, Deleted, KnownPlaced, SourceTypeOK
  <2>5. Existed'  BY <1>1, <2>4, RestExisted
  <2>6. \A t \in Threads : Traced(t) => t # a.thread \/ ~Created(a)
    BY <2>2 DEF Existed, Created
  <2>7. a.thread # Null => Created(a)
    BY <2>2 DEF Outcome, Looked, Begun, Resumed, Filed, Deleted
  <2>8. ASSUME NEW d \in Calls, NEW t \in Threads, Carries(d, t)'
        PROVE  Carries(d, t) \/ (d = Oldest.call /\ Created(a) /\ t = a.thread)
    BY <1>1, <2>2, <2>7, <2>8 DEF Carries, Brought, Answered
  <2>9. ASSUME NEW d \in Calls, NEW t \in Threads, Carries(d, t)
        PROVE  /\ ~(Created(a) /\ t = a.thread)
               /\ sourceCwd'[t] = workspace[d] /\ t \in known' /\ ~sourceArchived'[t]
    <3>1. ~Marked(t) /\ sourceCwd[t] = workspace[d] /\ t \in known /\ ~sourceArchived[t]
      BY <2>9 DEF Newborn
    <3>2. t # Oldest.thread  BY <2>3, <3>1 DEF Marked
    <3>3. ~(Created(a) /\ t = a.thread)  BY <3>1 DEF Created
    <3> QED BY <1>1, <2>2, <3>1, <3>2, <3>3
            DEF Outcome, Looked, Created, Begun, Resumed, Filed, Deleted, SourceTypeOK
  <2>10. ASSUME Created(a), a.thread \in Threads
         PROVE  /\ ~Marked(a.thread)' /\ sourceCwd'[a.thread] = workspace[Oldest.call] /\ a.thread \in known'
                /\ ~sourceArchived'[a.thread]
                /\ association'[a.thread] = Null /\ \A e \in listed : e.thread # a.thread
    <3>1. sourceCwd[a.thread] = Null  BY <2>10 DEF Created
    <3>2. /\ ~sourceArchived[a.thread] /\ ~Marked(a.thread) /\ association[a.thread] = Null
          /\ \A e \in listed : e.thread # a.thread
      BY <2>10, <3>1 DEF Existed, Traced
    <3> QED BY <1>1, <1>2, <2>3, <2>10, <3>2 DEF Created, SourceTypeOK
  <2>11. ASSUME NEW d \in Calls, NEW t \in Threads, Carries(d, t)'
         PROVE  /\ ~Marked(t)' /\ sourceCwd'[t] = workspace[d] /\ t \in known' /\ ~sourceArchived'[t]
                /\ association'[t] # Null => association'[t] = workspace[d] /\ Brought(d, t)'
                /\ \A e \in listed : e.thread = t => e.workspace = workspace[d] /\ Brought(d, t)'
                /\ \A b \in Calls : Carries(b, t)' => d = b
    <3>1. CASE Created(a) /\ t = a.thread
      BY <2>8, <2>9, <2>10, <2>11, <3>1
    <3>2. CASE ~(Created(a) /\ t = a.thread)
      <4>1. Carries(d, t) /\ \A b \in Calls : Carries(b, t)' => Carries(b, t)
        BY <2>8, <2>11, <3>2
      <4>2. Brought(d, t)' <=> Brought(d, t)  BY <1>1 DEF Brought, Answered
      <4> QED BY <1>1, <1>2, <2>9, <4>1, <4>2 DEF Newborn
    <3> QED BY <3>1, <3>2
  <2> QED BY <1>1, <2>5, <2>11 DEF Newborn
<1>4. CASE ~Serve
  <2>1. PICK t \in Threads : CompleteTurn(t) \/ \E u \in ForeignTurns : StartForeignTurn(t, u)
    BY <1>4 DEF Source
  <2>2. PICK n \in TurnNotification : n \in Event /\ n.type # "answer" /\ Emit(<<n>>)
    BY <1>1, <2>1, TurnsEmit
  <2>3. UNCHANGED <<known, sourceArchived, sourceCwd>>
    BY <2>1 DEF CompleteTurn, StartForeignTurn
  <2>4. UNCHANGED Answers
    BY <1>1, <2>2, NotifyElements DEF Pipe, OneEach
  <2>5. Existed'  BY <1>1, <2>3, RestExisted
  <2>6. \A d \in Calls, t2 \in Threads : (Carries(d, t2)' => Carries(d, t2)) /\ (Brought(d, t2)' <=> Brought(d, t2))
    BY <1>1, <2>4 DEF Carries, Brought, Answered
  <2> QED BY <1>1, <1>2, <2>3, <2>5, <2>6 DEF Newborn
<1> QED BY <1>3, <1>4

\* Which row a thread has after a step of a call.
LEMMA StepRowThread ==
  ASSUME Typed, NEW c \in Calls, Step(c), NEW i \in Calls, NEW t \in Threads,
         reservations'[i] # Null, reservations'[i].thread = t
  PROVE  \/ Live(i) /\ Row(i).thread = t
         \/ i = c /\ thread[c] = t /\ Touches(c, t) /\ association'[t] = reservations'[i].workspace
            /\ association'[t] # Null /\ pc[c] \in {"reserve", "bind"}
<1>1. /\ Control /\ TypeOK /\ StoreTypeOK /\ CallOK(c) /\ RowsMoved(c) /\ RowOK(c) /\ RowOK(c)'
  BY StepRows DEF Typed, Control, TypeOK, Pipe, Rows, RowsMoved
<1>2. CASE i # c
  BY <1>1, <1>2 DEF RowsMoved, Live, Row
<1>3. CASE i = c /\ ~Live(c)
  <2>1. Reserves(c)  BY <1>3, StepReserves
  <2>2. workspace[c] # Null  BY <1>1, <2>1 DEF Reserves, CallOK, InPlace, Equipped, RunKinds, CatalogKinds, MaintenanceKinds
  <2>3. reservations'[c].workspace = workspace[c]
    BY <1>1, <1>3, <2>1 DEF Reserves, RowOK, Live, Row
  <2> QED BY <1>3, <2>1, <2>2, <2>3 DEF Reserves, CanReserve, Touches, Active
<1>4. CASE i = c /\ Live(c) /\ Row(c).thread # t
  <2>1. Bind(c) /\ pc[c] = "bind" /\ thread[c] = t  BY <1>4, StepBinds
  <2>2. /\ association' = [association EXCEPT ![t] = Row(c).workspace] /\ Row(c).workspace # Null
        /\ reservations'[c].workspace = Row(c).workspace
    BY <1>1, <1>4, <2>1, BindRow, LiveRow DEF Bind, Reservation
  <2> QED BY <1>1, <1>4, <2>1, <2>2 DEF Touches, Active, StoreTypeOK
<1> QED BY <1>2, <1>3, <1>4

\* A thread is where its reservation has it, or is gone.
RowKnown == \A id \in Calls :
  Live(id) /\ Row(id).thread # Null => association[Row(id).thread] = Row(id).workspace \/ Gone(Row(id).thread)

LEMMA StepGone ==
  ASSUME Deletion, NEW c \in Calls, Step(c), NEW t \in Threads, association[t] # Null, association'[t] = Null
  PROVE  Gone(t)
<1>1. /\ Control /\ TypeOK /\ StoreTypeOK /\ CallOK(c) /\ Forgettable /\ RowOK(c)
  BY DEF Deletion, Typed, Control, TypeOK, Rows
<1>2. Forgets(c, t) \/ Indexes(c, t) \/ Binds(c, t) \/ Commits(c, t)  BY <1>1, StepPlaces
<1>3. ~Binds(c, t)
  <2>1. ASSUME Binds(c, t)  PROVE FALSE
    <3>1. Row(c) \in Reservation /\ Row(c).workspace \in Workspaces
      BY <1>1, <2>1, LiveRow DEF Binds, CanBind, Reservation
    <3> QED BY <2>1, <3>1 DEF Binds
  <2> QED BY <2>1
<1>4. ~Commits(c, t)
  <2>1. ASSUME Commits(c, t)  PROVE FALSE
    <3>1. transitions[t] \in Transition  BY <1>1, <2>1 DEF Commits, CanCommit, StoreTypeOK
    <3>2. transitions[t].to \in Workspaces  BY <3>1 DEF Transition
    <3> QED BY <2>1, <3>2 DEF Commits
  <2> QED BY <2>1
<1> QED BY <1>1, <1>2, <1>3, <1>4 DEF Forgets, Indexes, Forgettable

LEMMA StepRowKnown ==
  ASSUME Deletion, StoreInv, Newborn, RowKnown, NEW c \in Calls, Step(c)
  PROVE  RowKnown'
<1>1. Typed /\ Control /\ UNCHANGED <<known, sourceCwd>> /\ RowsMoved(c)
  BY StepSource, StepRows DEF Deletion, Typed, Pipe, Rows
<1>2. ASSUME NEW i \in Calls, reservations'[i] # Null, NEW t \in Threads, t = reservations'[i].thread
      PROVE  association'[t] = reservations'[i].workspace \/ Gone(t)
  <2>1. CASE Live(i) /\ Row(i).thread = t
    <3>1. reservations'[i].workspace = Row(i).workspace
      BY <1>1, <1>2, <2>1 DEF RowsMoved, Grows, RowOK, Live, Row, Reserves
    <3>2. association[t] = Row(i).workspace \/ Gone(t)  BY <2>1 DEF RowKnown
    <3>3. i \in ReservedBy(t)  BY <2>1 DEF ReservedBy
    <3>4. transitions[t] = Null  BY <3>3 DEF StoreInv, TransitionExclusive
    <3>5. ASSUME association'[t] # association[t], ~Gone(t)  PROVE association'[t] = Row(i).workspace
      <4>1. Forgets(c, t) \/ Indexes(c, t) \/ Binds(c, t) \/ Commits(c, t)  BY <1>1, <3>5, StepPlaces
      <4>2. ~Forgets(c, t)  BY <3>5 DEF Forgets, Deletion, Forgettable
      <4>3. ~Indexes(c, t)  BY <3>3 DEF Indexes, Newborn, Carries, Brought, Answered, Marked
      <4>4. Binds(c, t)  BY <3>4, <4>1, <4>2, <4>3 DEF Commits, CanCommit
      <4> QED BY <3>3, <4>4 DEF Binds, CanBind
    <3> QED BY <3>1, <3>2, <3>5
  <2>2. CASE ~(Live(i) /\ Row(i).thread = t)
    BY <1>1, <1>2, <2>2, StepRowThread
  <2> QED BY <2>1, <2>2
<1>3. ASSUME NEW i \in Calls, reservations'[i] # Null, reservations'[i].thread # Null
      PROVE  \/ association'[reservations'[i].thread] = reservations'[i].workspace
             \/ Gone(reservations'[i].thread)
  <2>1. StoreTypeOK'  BY <1>1, StepMoved DEF Moved, Typed
  <2>2. reservations'[i] \in Reservation  BY <1>3, <2>1 DEF StoreTypeOK
  <2>3. reservations'[i].thread \in Threads  BY <1>3, <2>2 DEF Reservation
  <2> QED BY <1>2, <1>3, <2>3
<1> QED BY <1>1, <1>3 DEF RowKnown, Live, Row, Gone

LEMMA RestRowKnown ==
  ASSUME Typed, RowKnown, Pauses
  PROVE  RowKnown'
<1>1. StoreTypeOK  BY DEF Typed, Control, TypeOK
<1>2. ASSUME NEW i \in Calls, reservations'[i] # Null, reservations'[i].thread # Null, NEW t,
             t = reservations'[i].thread
      PROVE  association'[t] = reservations'[i].workspace \/ Gone(t)'
  <2>1. Live(i) /\ Row(i).thread = t /\ reservations'[i].workspace = Row(i).workspace  BY <1>2 DEF Pauses, SameRow
  <2>2. Row(i) \in Reservation  BY <1>1, <2>1, LiveRow
  <2>3. t \in Threads /\ Row(i).workspace # Null  BY <1>2, <2>1, <2>2 DEF Reservation
  <2>4. association[t] = Row(i).workspace \/ Gone(t)  BY <1>2, <2>1, <2>3 DEF RowKnown
  <2> QED BY <2>1, <2>3, <2>4 DEF Pauses
<1>3. ASSUME NEW i \in Calls, reservations'[i] # Null, reservations'[i].thread # Null
      PROVE  \/ association'[reservations'[i].thread] = reservations'[i].workspace
             \/ Gone(reservations[i].thread)'
  <2>1. PICK t : t = reservations'[i].thread  OBVIOUS
  <2> QED BY <1>2, <1>3, <2>1 DEF Gone
<1> QED BY <1>3 DEF RowKnown, Live, Row

\* Between the index of a new thread and its turn the thread is its call's alone.
Settling(c) == pc[c] \in {"bind", "submit"} /\ kind[c] = "implicit"

Settled == \A c \in Calls : Settling(c) =>
  /\ association[thread[c]] = workspace[c] \/ Gone(thread[c])
  /\ transitions[thread[c]] = Null
  /\ ReservedBy(thread[c]) \subseteq {c}
  /\ \A d \in Calls : Touches(d, thread[c]) => d = c

LEMMA SettlingThread ==
  ASSUME Typed, NEW c \in Calls, Settling(c)
  PROVE  thread[c] \in Threads /\ Touches(c, thread[c]) /\ Queued(c)
BY DEF Settling, Touches, Active, Queued, Typed, Control, TypeOK, Pipe, Named

\* Nobody begins, or lists the rows of a workspace, while a new thread settles.
LEMMA SettledOther ==
  ASSUME Recoverable, Settled, Newborn, NEW a \in Calls, MayRun(a), Step(a), NEW c \in Calls, c # a, Settling(c)
  PROVE  /\ ~Starting(a) /\ pc[a] # "idle" /\ ~Touches(a, thread[c]) /\ ~Reaches(a, thread[c])
         /\ ~Indexes(a, thread[c])
<1> DEFINE t == thread[c]
<1>1. /\ Typed /\ Control /\ TypeOK /\ CallOK(a) /\ CallOK(c) /\ t \in Threads /\ Touches(c, t) /\ Queued(c) /\ RowOK(c)
      /\ Solo /\ WorkClear
  BY SettlingThread DEF Recoverable, Typed, Control, Listed, Rows
<1>2. Runnable(c) /\ ~LoopIsIdle  BY <1>1 DEF Runnable, LoopIsIdle
<1>3. Runnable(a)  BY <1>2 DEF MayRun
<1>4. ~Starting(a)  BY <1>1, <1>2 DEF Solo
<1>5. pc[a] # "idle"  BY <1>3 DEF Runnable, Queued, Between, Waiting
<1>6. ~Touches(a, t)  BY DEF Settled
<1>7. ~Indexes(a, t)
  <2>1. ASSUME Indexes(a, t)  PROVE FALSE
    <3>1. Carries(a, t)  BY <2>1 DEF Indexes, Carries, Brought, Answered
    <3> QED BY <1>1, <3>1 DEF Newborn, Marked
  <2> QED BY <2>1
<1>8. ~Reaches(a, t)
  <2>1. ASSUME pc[a] = "items", Scanning(a), NEW id \in ReservedOn(workspace[a]), Row(id).thread = t  PROVE FALSE
    <3>1. id \in ReservedBy(t)  BY <2>1 DEF ReservedOn, ReservedBy
    <3>2. id = c  BY <3>1 DEF Settled
    <3>3. Live(c) /\ Row(c).workspace = workspace[a]  BY <2>1, <3>2 DEF ReservedOn
    <3>4. Roaming(c) /\ workspace[c] = workspace[a]
      BY <1>1, <3>3 DEF RowOK, Roaming, Active, Settling, Gateless
    <3> QED BY <1>1, <2>1, <3>4 DEF WorkClear
  <2> QED BY <1>4, <1>5, <1>7, <2>1 DEF Reaches, Starting
<1> QED BY <1>4, <1>5, <1>6, <1>7, <1>8

LEMMA StepSettledOther ==
  ASSUME Recoverable, Deletion, Settled, Newborn, NEW a \in Calls, MayRun(a), Step(a), NEW c \in Calls, c # a,
         Settling(c), NEW t \in Threads, t = thread[c]
  PROVE  /\ association'[t] = workspace[c] \/ Gone(t)
         /\ transitions'[t] = Null
         /\ \A i \in Calls : reservations'[i] # Null /\ reservations'[i].thread = t => i = c
         /\ \A d \in Calls : Touches(d, t)' => d = c
<1>1. /\ Typed /\ Control /\ TypeOK /\ CallOK(a)
      /\ ~Starting(a) /\ pc[a] # "idle" /\ ~Touches(a, t) /\ ~Reaches(a, t) /\ ~Indexes(a, t)
  BY SettledOther DEF Recoverable, Typed, Control
<1>2. /\ association[t] = workspace[c] \/ Gone(t)
      /\ transitions[t] = Null /\ ReservedBy(t) \subseteq {c}
      /\ \A d \in Calls : Touches(d, t) => d = c
  BY DEF Settled
<1>3. \A d \in Calls : Touches(d, t)' => d = c
  BY <1>1, <1>2, StepTouches
<1>4. association'[t] = workspace[c] \/ Gone(t)
  <2>1. ASSUME association'[t] # association[t]  PROVE Gone(t)
    <3>1. Forgets(a, t) \/ Indexes(a, t) \/ Binds(a, t) \/ Commits(a, t)  BY <1>1, <2>1, StepPlaces
    <3> QED BY <1>1, <3>1 DEF Forgets, Binds, Commits, Touches, Active
  <2> QED BY <1>2, <2>1
<1>5. transitions'[t] = Null
  <2>1. ASSUME transitions'[t] # transitions[t]  PROVE FALSE
    <3>1. Shifts(a, t)  BY <1>1, <2>1, StepShifts
    <3> QED BY <1>1, <1>2, <3>1 DEF Shifts, Touches, Active, CanBegin, Commits, CanCommit
  <2> QED BY <1>2, <2>1
<1>6. \A i \in Calls : reservations'[i] # Null /\ reservations'[i].thread = t => i = c
  <2>1. ASSUME NEW i \in Calls, reservations'[i] # Null, reservations'[i].thread = t  PROVE i = c
    <3>1. Live(i) /\ Row(i).thread = t  BY <1>1, <2>1, StepRowThread
    <3> QED BY <1>2, <3>1 DEF ReservedBy
  <2> QED BY <2>1
<1> QED BY <1>3, <1>4, <1>5, <1>6

\* The step that indexes the new thread, and the one that binds it.
LEMMA StepSettlingOwn ==
  ASSUME Recoverable, Settled, Newborn, NEW c \in Calls, Step(c), Settling(c)',
         NEW t \in Threads, t = thread'[c]
  PROVE  /\ association'[t] = workspace'[c] /\ transitions'[t] = Null
         /\ \A i \in Calls : reservations'[i] # Null /\ reservations'[i].thread = t => i = c
         /\ \A d \in Calls : Touches(d, t)' => d = c
<1>1. /\ Typed /\ Control /\ TypeOK /\ StoreTypeOK /\ CallOK(c) /\ CallOK(c)' /\ Retains(c) /\ RowOK(c) /\ Leads(c)
      /\ RowsMoved(c)
  BY StepMoved, StepRetains, StepLeads, StepRows DEF Recoverable, Typed, Control, TypeOK, Moved, Rows, Pipe
<1>2. pc[c] # "idle"
  <2>1. ASSUME Starts(c)  PROVE FALSE
    BY <1>1, <2>1 DEF Starts, StartRun, StartCatalog, StartSelect, StartReconcile, StartReconcileWorkspace, Settling, TypeOK
  <2> QED BY <2>1, StepAt
<1>3. kind[c] = "implicit" /\ workspace'[c] = workspace[c] /\ pc'[c] \in {"bind", "submit"}
  BY <1>1, <1>2 DEF Retains, Settling
<1>4. Run(c) /\ RunAt(c)
  <2>1. kind'[c] \in RunKinds  BY <1>1, <1>2, <1>3 DEF RunKinds, Retains
  <2>2. ~Select(c)  BY <1>1, <2>1, SelectKind
  <2>3. ~Recover(c)  BY <1>1, <2>1, RecoverKind
  <2>4. ~Catalog(c)
    BY <1>1, <1>2, <1>3 DEF Catalog, StartCatalog, ReserveCatalog, SubmitCatalog, CatalogAnswered, FailCatalog,
         Forget, ReleaseCatalog, CallOK, InPlace, CatalogKinds, Reconciles
  <2> QED BY <2>2, <2>3, <2>4, StepAt
<1>5. ~FailRun(c)
  BY <1>1, <1>3, FinishEffect DEF FailRun
<1>6. IndexThread(c) \/ (Bind(c) /\ pc[c] = "bind")
  <2>1. ~CreateThread(c)  BY <1>1, <1>3 DEF CreateThread, Ask, Goto, TypeOK
  <2>2. ~Submit(c)  BY <1>1, <1>3 DEF Submit, Ask, Goto, TypeOK
  <2>3. ~AcknowledgeTurn(c)  BY <1>1, <1>3 DEF AcknowledgeTurn, Continue, Goto, TypeOK
  <2>4. ~AcknowledgeMaintained(c) /\ ~FinishTurn(c)  BY <1>1, <1>3, FinishEffect DEF AcknowledgeMaintained, FinishTurn
  <2>5. pc[c] \notin {"recoverRead", "checkRead", "confirm", "resume"}
    BY <1>1, <1>3 DEF CallOK, InPlace, MaintenanceKinds
  <2>6. pc[c] # "reserve"
    <3>1. ASSUME pc[c] = "reserve"  PROVE FALSE
      <4>1. ~ReserveRefused(c)
        <5>1. thread[c] = Null  BY <1>1, <1>3, <3>1 DEF CallOK, Equipped, Gateless
        <5> QED BY <1>1, <1>3, <5>1, FinishEffect DEF ReserveRefused
      <4>2. ReserveRun(c)  BY <1>4, <3>1, <4>1 DEF RunAt
      <4> QED BY <1>1, <1>3, <4>2 DEF ReserveRun, Reserved, Ask, Continue, Goto, TypeOK
    <3> QED BY <3>1
  <2> QED BY <1>2, <1>4, <1>5, <2>1, <2>2, <2>3, <2>4, <2>5, <2>6 DEF RunAt
<1>7. CASE IndexThread(c)
  <2>1. /\ pc[c] = "newThread" /\ reply[c] # Null /\ t = reply[c].thread /\ WriteIndex(t, workspace[c], FALSE)
        /\ UNCHANGED <<work, kind>>
    BY <1>1, <1>7 DEF IndexThread, Answered, TypeOK
  <2>2. ~Marked(t) /\ association[t] \in {Null, workspace[c]}
    BY <1>7, <2>1 DEF IndexThread, Newborn, Carries, Brought
  <2>3. association'[t] = workspace[c] /\ UNCHANGED <<reservations, transitions>>
    BY <1>1, <2>1, <2>2 DEF WriteIndex, StoreTypeOK
  <2>4. \A d \in Calls : Touches(d, t)' => d = c
    BY <1>1, <2>2, StepTouches DEF Marked
  <2> QED BY <1>3, <2>2, <2>3, <2>4 DEF Marked, ReservedBy, Live, Row
<1>8. CASE Bind(c) /\ pc[c] = "bind"
  <2>1. t = thread[c] /\ Settling(c) /\ BindThread(c, t)
    BY <1>3, <1>8 DEF Bind, Continue, Settling
  <2>2. /\ association' = [association EXCEPT ![t] = Row(c).workspace] /\ UNCHANGED transitions /\ OtherRowsKeep(c)
        /\ Live(c)
    BY <1>1, <2>1, BindRow
  <2>3. association'[t] = workspace[c]  BY <1>1, <2>2 DEF StoreTypeOK, RowOK
  <2>4. \A d \in Calls : Touches(d, t)' => d = c
    BY <1>1, <2>1, StepTouches DEF Settled
  <2> QED BY <1>3, <2>1, <2>2, <2>3, <2>4 DEF Settled, OtherRowsKeep, ReservedBy, Live, Row
<1> QED BY <1>6, <1>7, <1>8

LEMMA StepSettled ==
  ASSUME Recoverable, Deletion, Settled, Newborn, NEW a \in Calls, MayRun(a), Step(a)
  PROVE  Settled'
<1>1. Typed /\ OthersKeep(a) /\ Typed' /\ UNCHANGED <<known, sourceCwd>>
  BY StepMoved, StepSource, TypedStep DEF Recoverable, Typed, Moved, Next
<1>2. ASSUME NEW c \in Calls, Settling(c)', NEW t, t = thread'[c]
      PROVE  /\ association'[t] = workspace'[c] \/ Gone(t)
             /\ transitions'[t] = Null
             /\ \A i \in Calls : reservations'[i] # Null /\ reservations'[i].thread = t => i = c
             /\ \A d \in Calls : Touches(d, t)' => d = c
  <2>1. t \in Threads  BY <1>1, <1>2 DEF Typed, Control, TypeOK, Pipe, Named, Settling
  <2>2. CASE c = a  BY <1>2, <2>1, <2>2, StepSettlingOwn
  <2>3. CASE c # a
    <3>1. Settling(c) /\ thread'[c] = thread[c] /\ workspace'[c] = workspace[c]
      BY <1>1, <1>2, <2>3 DEF OthersKeep, Settling
    <3> QED BY <1>2, <2>1, <2>3, <3>1, StepSettledOther
  <2> QED BY <2>2, <2>3
<1>3. ASSUME NEW c \in Calls, Settling(c)'
      PROVE  /\ association'[thread'[c]] = workspace'[c] \/ Gone(thread[c])'
             /\ transitions'[thread'[c]] = Null
             /\ \A i \in Calls : reservations'[i] # Null /\ reservations'[i].thread = thread'[c] => i = c
             /\ \A d \in Calls : Touches(d, thread[c])' => d = c
  <2>1. PICK t : t = thread'[c]  OBVIOUS
  <2>2. \A d \in Calls : Touches(d, t)' => d = c  BY <1>2, <1>3, <2>1
  <2>3. \A d \in Calls : Touches(d, thread[c])' => d = c  BY <2>1, <2>2 DEF Touches, Active
  <2>4. Gone(t) => Gone(thread[c])'  BY <1>1, <2>1 DEF Gone
  <2> QED BY <1>2, <1>3, <2>1, <2>3, <2>4
<1> QED BY <1>3 DEF Settled, ReservedBy, Live, Row

LEMMA RestTouches ==
  ASSUME Pauses, NEW d \in Calls, NEW t, Touches(d, t)'
  PROVE  Touches(d, t)
<1>1. pc'[d] = pc[d] /\ thread'[d] = thread[d] /\ kind'[d] = kind[d] /\ work'[d] = work[d]
  BY DEF Pauses, Touches, Active, NoWork
<1> QED BY <1>1 DEF Touches, Active

LEMMA RestSettled ==
  ASSUME Typed, Settled, Pauses
  PROVE  Settled'
<1>1. ASSUME NEW c \in Calls, Settling(c)'
      PROVE  /\ association'[thread'[c]] = workspace'[c] \/ Gone(thread[c])'
             /\ transitions'[thread'[c]] = Null
             /\ \A i \in Calls : reservations'[i] # Null /\ reservations'[i].thread = thread'[c] => i = c
             /\ \A d \in Calls : Touches(d, thread[c])' => d = c
  <2>1. Settling(c) /\ thread'[c] = thread[c] /\ workspace'[c] = workspace[c]
    BY <1>1 DEF Pauses, Settling
  <2>2. PICK t \in Threads : t = thread[c]  BY <2>1, SettlingThread
  <2>3. workspace[c] # Null
    BY <2>1 DEF Settling, Typed, Control, CallOK, Equipped
  <2>4. association'[t] = workspace[c] \/ Gone(t)'
    BY <2>1, <2>2, <2>3 DEF Settled, Pauses
  <2>5. Gone(t)' => Gone(thread[c])'  BY <2>1, <2>2 DEF Gone
  <2>6. \A d \in Calls : Touches(d, t)' => d = c  BY <2>1, <2>2, RestTouches DEF Settled
  <2>7. \A d \in Calls : Touches(d, thread[c])' => d = c  BY <2>1, <2>2, <2>6 DEF Touches, Active
  <2>8. \A i \in Calls : reservations'[i] # Null /\ reservations'[i].thread = t => i = c
    BY <2>1, <2>2 DEF Settled, Pauses, SameRow, ReservedBy
  <2>9. transitions'[t] = Null  BY <2>1, <2>2 DEF Settled, Pauses
  <2> QED BY <2>1, <2>2, <2>4, <2>5, <2>7, <2>8, <2>9
<1> QED BY <1>1 DEF Settled, ReservedBy, Live, Row

----------------------------------------------------------------------------
(* What is on its way to the source.                                       *)

\* Who sends a request with an effect, or the resume that precedes one.
LEMMA StepSubmits ==
  ASSUME Control, NEW c \in Calls, Step(c), pc'[c] \in {"await", "resume", "switch"}
  PROVE  (Submit(c) /\ Run(c)) \/ SubmitCatalog(c) \/ Maintain(c) \/ SubmitSwitch(c)
<1>1. TypeOK /\ CallOK(c) /\ pc[c] # "idle"
  <2>1. ~Starts(c)
    BY DEF Starts, StartRun, StartCatalog, StartSelect, StartReconcile, StartReconcileWorkspace, Control, TypeOK
  <2> QED BY <2>1, StepAt DEF Control
<1>2. ~Finish(c)  BY <1>1, FinishEffect
<1>3. ~Return(c)  BY <1>1, <1>2, ReturnEffect DEF Return
<1>4. ASSUME NEW l, Goto(c, l)  PROVE l \in {"await", "resume", "switch"}
  BY <1>1, <1>4 DEF Goto, TypeOK
<1>9. ~Goto(c, "selectRead") /\ ~Goto(c, "idleRead")  BY <1>4
<1>5. ASSUME Run(c), RunAt(c)  PROVE Submit(c) \/ Maintain(c)
  <2>1. ~ReserveRun(c) /\ ~ReserveRefused(c)
    BY <1>2, <1>4 DEF ReserveRun, Reserved, ReserveRefused, Ask, Continue
  <2>2. ~RecoverRollback(c) /\ ~CheckIdle(c) /\ ~FailRun(c) /\ ~CreateThread(c)
    BY <1>2, <1>4 DEF RecoverRollback, CheckIdle, FailRun, CreateThread, Ask, Continue
  <2>3. ~IndexThread(c) /\ ~ConfirmThread(c) /\ ~Bind(c)
    <3>1. ~Goto(c, IF kind[c] = "create" THEN "confirm" ELSE "bind")  BY <1>4
    <3>2. ~IndexThread(c)  BY <3>1 DEF IndexThread
    <3>3. ~ConfirmThread(c)  BY <1>2 DEF ConfirmThread
    <3>4. ~Bind(c)  BY <1>2, <1>4 DEF Bind, Continue
    <3> QED BY <3>2, <3>3, <3>4
  <2>4. ~AcknowledgeTurn(c) /\ ~AcknowledgeMaintained(c) /\ ~FinishTurn(c)
    BY <1>2, <1>4 DEF AcknowledgeTurn, AcknowledgeMaintained, FinishTurn, Continue
  <2> QED BY <1>1, <1>5, <2>1, <2>2, <2>3, <2>4 DEF RunAt
<1>6. ASSUME Catalog(c), CatalogAt(c)  PROVE SubmitCatalog(c)
  <2>1. ~ReserveCatalog(c) /\ ~CatalogAnswered(c) /\ ~FailCatalog(c) /\ ~Forget(c) /\ ~ReleaseCatalog(c)
    BY <1>2, <1>3, <1>4 DEF ReserveCatalog, CatalogAnswered, FailCatalog, Forget, ReleaseCatalog, Continue
  <2> QED BY <1>1, <1>6, <2>1 DEF CatalogAt
<1>7. ASSUME Select(c), SelectAt(c)  PROVE SubmitSwitch(c)
  <2>1. ~SelectIdle(c) /\ ~SelectBegin(c)
    BY <1>2, <1>4 DEF SelectIdle, SelectBegin, Continue
  <2>2. ~SelectPrepare(c)
    BY <1>9 DEF SelectPrepare
  <2>3. ~CommitSwitch(c) /\ ~FailSwitch(c)
    BY <1>2, <1>3 DEF CommitSwitch, FailSwitch
  <2> QED BY <1>1, <1>7, <2>1, <2>2, <2>3 DEF SelectAt
<1>8. ASSUME Recover(c), RecoverAt(c)  PROVE FALSE
  <2>1. ~ReconcileTransition(c)
    BY <1>2, <1>3, <1>9 DEF ReconcileTransition
  <2>5. ~ReconcileExecution(c)
    BY <1>2, <1>9 DEF ReconcileExecution
  <2>2. ~ReconcileCatalog(c)
    BY <1>2, <1>3, <1>4 DEF ReconcileCatalog
  <2>3. ~ArchiveVerified(c) /\ ~ReleaseIdle(c)
    BY <1>2, <1>3, <1>4 DEF ArchiveVerified, ReleaseIdle, Continue
  <2>4. ~TreatItems(c)
    BY TreatMoves
  <2> QED BY <1>1, <1>8, <2>1, <2>2, <2>3, <2>4, <2>5 DEF RecoverAt
<1> QED BY <1>5, <1>6, <1>7, <1>8, StepAt

\* A call that has asked the source about its thread, or told it what to do.
Looking(c) ==
  \/ kind[c] \in RunKinds \ Gateless /\ Active(c) /\ (pc[c] = "reserve" => held[c] # Null)
  \/ kind[c] \in CatalogKinds /\ pc[c] \in {"await", "forget", "release"}
  \/ kind[c] = "select" /\ Active(c)
  \/ kind[c] \in Reconciles /\ pc[c] \in {"selectRead", "switch", "evidence"}
  \/ kind[c] \in Reconciles /\ pc[c] = "idleRead" /\ held[c] # Null
  \/ kind[c] \in Reconciles /\ pc[c] = "release" /\ Live(held[c]) /\ Row(held[c]).operation # "delete"

Disturbing(r, c) == r.thread = thread[c] /\ r.method \in Effects \cup {"resume"} /\ r.call # c

\* Whatever others had sent for the thread is served before the call is answered.
Quiet == \A c \in Calls : Looking(c) =>
  \A i \in 1..Len(requests) : Disturbing(requests[i], c) =>
    \E j \in 1..Len(requests) : j > i /\ requests[j].call = c

\* A recovery forgets a thread for the deletion it read.
HeldOperation == \A c \in Calls :
  kind[c] \in Reconciles /\ pc[c] = "forget" /\ Live(held[c]) => Row(held[c]).operation = "delete"

LEMMA LookingThread ==
  ASSUME Control, NEW c \in Calls, Looking(c)
  PROVE  /\ pc[c] \notin {"idle", "done", "items", "reconcile", "newThread"} /\ kind[c] \notin Gateless
         /\ thread[c] \in Threads /\ gate[c] = thread[c] /\ Active(c)
<1>1. TypeOK /\ CallOK(c)  BY DEF Control
<1> QED BY <1>1 DEF Looking, Active, CallOK, InPlace, Equipped, RunKinds, CatalogKinds, MaintenanceKinds, Gateless,
     Reconciles, TypeOK

\* Once it is answered, nothing of others is left before it.
LEMMA QuietAnswered ==
  ASSUME Pipe, SourceTypeOK, Quiet, NEW c \in Calls, Looking(c), \A r \in Sent : r.call # c,
         NEW r \in Sent, r.thread = thread[c], r.method \in Effects \cup {"resume"}
  PROVE  FALSE
<1>1. PICK i \in 1..Len(requests) : r = requests[i]  BY DEF Sent, Elements
<1>2. PICK j \in 1..Len(requests) : requests[j].call = c  BY <1>1 DEF Quiet, Disturbing
<1> QED BY <1>2 DEF Sent, Elements

LEMMA NotOpenSent ==
  ASSUME Pipe, NEW c, ~Open(c)
  PROVE  \A r \in Sent : r.call # c
BY DEF Pipe, OpenCalls

LEMMA StepEffects ==
  ASSUME Typed, NEW c \in Calls, Step(c), NEW r \in Request, requests' = Append(requests, r), r.call = c, Matches(r)',
         pc'[c] \in Waiting, r.method \in Effects \cup {"resume"}
  PROVE  /\ r.thread = thread[c] /\ thread[c] \in Threads /\ UNCHANGED <<kind, thread, workspace, gate>> /\ pc[c] # "idle"
         /\ \/ Submit(c) /\ Run(c) /\ r.cwd = workspace[c] /\ r.method \in {"turn", "resume"} /\ kind[c] # "create"
            \/ SubmitCatalog(c) /\ r.method = kind[c] /\ kind[c] \in CatalogKinds
            \/ Maintain(c) /\ r.method = kind[c] /\ kind[c] \in MaintenanceKinds
            \/ SubmitSwitch(c) /\ r.method = "switch" /\ r.cwd = transitions[thread[c]].to /\ r.contract = contract[c]
<1>1. /\ Control /\ TypeOK /\ SourceTypeOK /\ CallOK(c) /\ CallOK(c)' /\ Named
  BY StepMoved DEF Typed, Control, TypeOK, Pipe, Moved
<1>2. r.method = MethodOf(pc'[c], kind'[c])  BY DEF Matches
<1>3. pc'[c] \in {"await", "resume", "switch"}
  BY <1>2 DEF MethodOf, Waiting, Effects, StartMethods
<1>4. (Submit(c) /\ Run(c)) \/ SubmitCatalog(c) \/ Maintain(c) \/ SubmitSwitch(c)
  BY <1>1, <1>3, StepSubmits
<1>5. UNCHANGED <<kind, thread, workspace, gate>>
  BY <1>4 DEF Submit, SubmitCatalog, Maintain, SubmitSwitch, Registers
<1>6. /\ r.thread = thread[c] /\ r.thread # Null /\ thread[c] \in Threads
      /\ r.method \in {"turn", "resume"} => r.cwd = workspace[c]
  BY <1>1, <1>5 DEF Matches, TypeOK, Effects, StartMethods
<1>7. CASE Submit(c) /\ Run(c)
  <2>1. pc'[c] = IF kind[c] \in MaintenanceKinds THEN "resume" ELSE "await"
    BY <1>1, <1>7 DEF Submit, Ask, Goto, TypeOK
  <2>2. kind[c] \in {"turn", "implicit"} \cup MaintenanceKinds
    BY <1>1, <1>7 DEF Submit, CallOK, InPlace, RunKinds, CatalogKinds, MaintenanceKinds
  <2>3. r.method \in {"turn", "resume"}
    BY <1>2, <1>5, <2>1, <2>2 DEF MethodOf, MaintenanceKinds
  <2> QED BY <1>1, <1>5, <1>6, <1>7, <2>2, <2>3 DEF Submit, MaintenanceKinds
<1>8. CASE SubmitCatalog(c)
  <2>1. pc'[c] = "await" /\ kind[c] \in CatalogKinds /\ pc[c] = "submit"
    BY <1>1, <1>8 DEF SubmitCatalog, Ask, Goto, TypeOK
  <2> QED BY <1>2, <1>5, <1>6, <1>8, <2>1 DEF MethodOf, CatalogKinds
<1>9. CASE Maintain(c)
  <2>1. pc'[c] = "await" /\ kind[c] \in MaintenanceKinds /\ pc[c] = "resume"
    BY <1>1, <1>9 DEF Maintain, Ask, Goto, TypeOK, Answered, CallOK, InPlace
  <2> QED BY <1>2, <1>5, <1>6, <1>9, <2>1 DEF MethodOf, MaintenanceKinds
<1>10. CASE SubmitSwitch(c)
  <2> DEFINE q == [call |-> c, method |-> "switch", thread |-> thread[c], cwd |-> transitions[thread[c]].to,
                   contract |-> contract[c], archived |-> FALSE]
  <2>1. pc'[c] = "switch" /\ pc[c] = "selectRead" /\ requests' = Append(requests, q) /\ transitions[thread[c]] # Null
    BY <1>1, <1>10 DEF SubmitSwitch, Send, Goto, TypeOK, Answered, SubmittingTransition, CanSubmitTransition
  <2>2. transitions[thread[c]] \in Transition  BY <1>1, <1>6, <2>1 DEF TypeOK, StoreTypeOK
  <2>3. transitions[thread[c]].to \in Workspaces  BY <2>2 DEF Transition
  <2>4. q \in Request  BY <1>1, <1>6, <2>3 DEF Request, TypeOK, Methods
  <2> HIDE DEF q
  <2>5. q = r
    <3>1. requests \in Seq(Request)  BY <1>1 DEF SourceTypeOK
    <3>2. Append(requests, q)[Len(requests) + 1] = q /\ Append(requests, r)[Len(requests) + 1] = r
      BY <2>4, <3>1
    <3> QED BY <2>1, <3>2
  <2>6. r.method = "switch" /\ r.cwd = transitions[thread[c]].to /\ r.contract = contract[c]
    BY <2>5 DEF q
  <2> QED BY <1>5, <1>6, <1>10, <2>1, <2>6
<1> QED BY <1>4, <1>7, <1>8, <1>9, <1>10

\* A row that is held keeps its operation.
LEMMA StepHeldKept ==
  ASSUME Typed, HeldRow, NEW a \in Calls, Step(a), NEW c \in Calls, held[c] # Null, reservations'[held[c]] # Null
  PROVE  Live(held[c]) /\ reservations'[held[c]].operation = Row(held[c]).operation
<1>1. RowsMoved(a) /\ held[c] \in Calls
  BY StepRows DEF Typed, Control, TypeOK, Pipe, Rows
<1>2. pc[held[c]] \notin Early  BY DEF HeldRow
<1> QED BY <1>1, <1>2 DEF RowsMoved, Grows, Live, Row, Early

\* A call looks once it has asked.
LEMMA StepLooks ==
  ASSUME Typed, HeldRow, HeldOperation, NEW c \in Calls, Step(c), Looking(c)', UNCHANGED requests
  PROVE  Looking(c) /\ thread'[c] = thread[c]
<1>1. /\ Control /\ TypeOK /\ CallOK(c) /\ CallOK(c)' /\ Retains(c) /\ Leads(c) /\ CallTypes' /\ SourceTypeOK
      /\ requests \in Seq(Request)
  BY StepMoved, StepRetains, StepLeads DEF Typed, Control, TypeOK, Moved, SourceTypeOK
<1>2. ~Finish(c)
  BY <1>1, FinishEffect DEF Looking, Active, Reconciles
<1>3. ~Return(c)
  BY <1>1, <1>2, ReturnEffect DEF Return, Looking, Reconciles, RunKinds, CatalogKinds, MaintenanceKinds
<1>4. ASSUME NEW r, requests' = Append(requests, r)  PROVE FALSE
  <2>1. Len(Append(requests, r)) = Len(requests) + 1  BY <1>1
  <2> QED BY <1>1, <1>4, <2>1
<1>5. /\ \A m, l : ~Ask(c, m, l)
      /\ \A m, w, k, b : ~Send(c, m, w, k, b)
  BY <1>4 DEF Ask, Send
<1>6. pc[c] # "idle"
  <2>1. ASSUME Starts(c)  PROVE FALSE
    <3>1. ASSUME NEW k \in RunKinds, NEW u \in Threads \cup {Null}, NEW w \in Workspaces, StartRun(c, k, u, w)  PROVE FALSE
      <4>1. pc'[c] = "reserve" /\ kind'[c] = k /\ held'[c] = held[c] /\ pc[c] = "idle"
        BY <1>1, <3>1 DEF StartRun, TypeOK
      <4>2. held[c] = Null  BY <1>1, <4>1 DEF CallOK, Equipped, Active
      <4> QED BY <3>1, <4>1, <4>2 DEF Looking, RunKinds, CatalogKinds, MaintenanceKinds, Reconciles
    <3>2. ASSUME NEW k \in CatalogKinds, NEW u \in Threads, StartCatalog(c, k, u)  PROVE FALSE
      <4>1. pc'[c] = "reserve" /\ kind'[c] = k
        BY <1>1, <3>2 DEF StartCatalog, TypeOK
      <4> QED BY <3>2, <4>1 DEF Looking, RunKinds, CatalogKinds, MaintenanceKinds, Reconciles
    <3>3. ASSUME NEW u \in Threads, NEW w \in Workspaces, StartSelect(c, u, w)  PROVE FALSE
      BY <1>4, <3>3 DEF StartSelect
    <3>4. ASSUME NEW u \in Threads, StartReconcile(c, u)  PROVE FALSE
      <4>1. pc'[c] = "reconcile" /\ kind'[c] = "reconcile"
        BY <1>1, <3>4 DEF StartReconcile, TypeOK
      <4> QED BY <4>1 DEF Looking, RunKinds, CatalogKinds, MaintenanceKinds, Reconciles
    <3>5. ASSUME NEW w \in Workspaces, StartReconcileWorkspace(c, w)  PROVE FALSE
      <4>1. pc'[c] = "items" /\ kind'[c] = "reconcileWorkspace"
        BY <1>1, <3>5 DEF StartReconcileWorkspace, TypeOK
      <4> QED BY <4>1 DEF Looking, RunKinds, CatalogKinds, MaintenanceKinds, Reconciles
    <3> QED BY <2>1, <3>1, <3>2, <3>3, <3>4, <3>5 DEF Starts
  <2> QED BY <2>1, StepAt
<1>7. kind'[c] = kind[c] /\ pc[c] # "done" /\ Active(c)
  BY <1>1, <1>6 DEF Retains, Leads, Active
<1>8. pc'[c] # "items" /\ kind[c] \notin Gateless
  BY <1>1, <1>7 DEF Looking, CallOK, InPlace, RunKinds, CatalogKinds, MaintenanceKinds, Reconciles, Gateless
<1>9. CASE kind[c] \in RunKinds \ Gateless
  <2>1. pc[c] \notin {"items", "newThread"} /\ thread'[c] = thread[c]
    BY <1>1, <1>6, <1>8, <1>9 DEF CallOK, InPlace, RunKinds, MaintenanceKinds, Retains, Gateless
  <2>2. ASSUME pc[c] = "reserve", held[c] = Null  PROVE FALSE
    <3>1. Run(c) /\ RunAt(c)
      <4>1. kind'[c] \in RunKinds /\ kind[c] \notin CatalogKinds
        BY <1>7, <1>9 DEF RunKinds, CatalogKinds, MaintenanceKinds
      <4>2. ~Select(c) /\ ~Recover(c)  BY <1>1, <4>1, SelectKind, RecoverKind
      <4>3. ~CatalogAt(c)  BY <2>2, <4>1 DEF CatalogAt, ReserveCatalog
      <4> QED BY <4>2, <4>3, StepAt
    <3>2. ReserveRun(c) \/ ReserveRefused(c)  BY <2>2, <3>1 DEF RunAt
    <3>3. thread[c] # Null  BY <1>1, <1>7, <1>8, <2>2 DEF CallOK, Equipped
    <3> QED BY <1>2, <1>5, <2>2, <3>2, <3>3 DEF ReserveRun, ReserveRefused, Reserved
  <2> QED BY <1>7, <1>9, <2>1, <2>2 DEF Looking
<1>10. CASE kind[c] \in CatalogKinds
  <2>1. pc'[c] \in {"await", "forget", "release"}
    BY <1>7, <1>10 DEF Looking, RunKinds, CatalogKinds, MaintenanceKinds, Reconciles
  <2>2. pc[c] \notin {"items", "newThread"} /\ thread'[c] = thread[c]
    BY <1>1, <1>6, <1>8, <1>10 DEF CallOK, InPlace, CatalogKinds, Retains, Gateless
  <2>3. pc[c] \in {"reserve", "submit", "await", "forget", "release"}
    BY <1>1, <1>7, <1>10 DEF CallOK, InPlace, CatalogKinds, Active, Labels, Waiting, TypeOK, Gateless, Reconciles, MaintenanceKinds
  <2>4. Catalog(c) /\ CatalogAt(c)
    <3>1. ~Run(c) /\ ~Select(c) /\ ~Recover(c)
      BY <1>1, <1>7, <1>10, RunKind, SelectKind, RecoverKind DEF RunKinds, CatalogKinds, MaintenanceKinds
    <3> QED BY <3>1, StepAt
  <2>5. ~(pc[c] = "submit")
    BY <1>2, <1>5, <2>4 DEF CatalogAt, SubmitCatalog, FailCatalog
  <2>6. ~(pc[c] = "reserve")
    <3>1. ASSUME ReserveCatalog(c)  PROVE FALSE
      BY <1>1, <1>2, <2>1, <3>1 DEF ReserveCatalog, Continue, Goto, TypeOK
    <3> QED BY <2>4, <3>1 DEF CatalogAt
  <2> QED BY <1>10, <2>2, <2>3, <2>5, <2>6 DEF Looking
<1>11. CASE kind[c] = "select"
  <2>1. pc[c] \notin {"items", "newThread"} /\ thread'[c] = thread[c]
    BY <1>1, <1>6, <1>8, <1>11 DEF CallOK, InPlace, CatalogKinds, Retains, Gateless
  <2> QED BY <1>7, <1>11, <2>1 DEF Looking
<1>12. CASE kind[c] \in Reconciles
  <2>1. pc'[c] \in {"selectRead", "switch", "evidence", "idleRead", "release"}
    BY <1>7, <1>12 DEF Looking, RunKinds, CatalogKinds, MaintenanceKinds, Reconciles
  <2>2. pc[c] \in {"reconcile", "evidence", "idleRead", "forget", "release", "selectRead", "switch", "items"}
    BY <1>1, <1>7, <1>12 DEF CallOK, InPlace, CatalogKinds, Active, Labels, Waiting, TypeOK, Gateless, Reconciles,
       MaintenanceKinds, RunKinds
  <2>3. ASSUME NEW l, Goto(c, l)  PROVE l \in {"selectRead", "switch", "evidence", "idleRead", "release"}
    BY <1>1, <2>1, <2>3 DEF Goto, TypeOK
  <2>4. ~Run(c)
    BY <1>1, <1>7, <1>12, RunKind DEF RunKinds, MaintenanceKinds, Reconciles
  <2>5. pc[c] # "items"
    <3>1. ASSUME pc[c] = "items"  PROVE FALSE
      BY <1>1, <2>1, <3>1, ItemsStep, TreatMoves
    <3> QED BY <3>1
  <2>6. pc[c] # "reconcile"
    <3>1. ~ReconcileTransition(c)  BY <1>2, <1>3, <1>5 DEF ReconcileTransition
    <3>2. ~ReconcileExecution(c)  BY <1>2, <1>5 DEF ReconcileExecution
    <3>3. ~ReconcileCatalog(c)
      <4>1. ~Goto(c, "forget")  BY <2>3
      <4> QED BY <1>2, <1>3, <1>5, <4>1 DEF ReconcileCatalog
    <3> QED BY <2>4, <3>1, <3>2, <3>3, StepAt DEF CatalogAt, SelectAt, RecoverAt
  <2>7. pc[c] \notin {"idleRead", "release", "switch", "selectRead"}
    <3>1. ~ReleaseIdle(c) /\ ~ReleaseCatalog(c) /\ ~FailCatalog(c)
      BY <1>2, <1>3 DEF ReleaseIdle, ReleaseCatalog, FailCatalog
    <3>2. ~CommitSwitch(c) /\ ~FailSwitch(c) /\ ~SubmitSwitch(c)
      BY <1>2, <1>3, <1>5 DEF CommitSwitch, FailSwitch, SubmitSwitch
    <3> QED BY <2>4, <3>1, <3>2, StepAt DEF CatalogAt, SelectAt, RecoverAt
  <2>8. CASE pc[c] = "evidence"
    BY <1>1, <1>8, <1>12, <2>8 DEF Looking, Retains
  <2>9. CASE pc[c] = "forget"
    <3>1. Forget(c)
      BY <1>2, <2>4, <2>9, StepAt DEF CatalogAt, SelectAt, RecoverAt, FailCatalog
    <3>2. pc'[c] = "release" /\ UNCHANGED <<held, reservations>>
      BY <1>1, <3>1 DEF Forget, ForgetThread, Continue, Goto, TypeOK
    <3>3. Live(held[c]) /\ Row(held[c]).operation # "delete"
      BY <1>7, <1>12, <3>2 DEF Looking, Live, Row, Reconciles, RunKinds, CatalogKinds, MaintenanceKinds
    <3> QED BY <1>12, <2>9, <3>3 DEF HeldOperation
  <2> QED BY <2>2, <2>5, <2>6, <2>7, <2>8, <2>9
<1>13. kind[c] \in AllKinds /\ kind[c] \notin Gateless
  BY <1>1, <1>6, <1>8 DEF CallOK, InPlace
<1> QED BY <1>9, <1>10, <1>11, <1>12, <1>13 DEF AllKinds, RunKinds, RecoveryKinds, Reconciles

LEMMA OtherLooks ==
  ASSUME Typed, HeldRow, NEW a \in Calls, Step(a), NEW c \in Calls \ {a}, Looking(c)'
  PROVE  Looking(c) /\ thread'[c] = thread[c]
<1>1. OthersKeep(a) /\ TypeOK  BY StepMoved DEF Typed, Control, Moved
<1>2. /\ pc'[c] = pc[c] /\ kind'[c] = kind[c] /\ thread'[c] = thread[c] /\ held'[c] = held[c]
  BY <1>1 DEF OthersKeep
<1>3. CASE kind[c] \in Reconciles /\ pc[c] = "release"
  <2>1. reservations'[held[c]] # Null /\ reservations'[held[c]].operation # "delete"
    BY <1>2, <1>3 DEF Looking, Live, Row, Reconciles, RunKinds, CatalogKinds, MaintenanceKinds
  <2>2. held[c] # Null  BY <1>3 DEF Typed, Control, CallOK, Equipped
  <2> QED BY <1>2, <1>3, <2>1, <2>2, StepHeldKept DEF Looking
<1>4. CASE ~(kind[c] \in Reconciles /\ pc[c] = "release")
  BY <1>2, <1>4 DEF Looking, Active
<1> QED BY <1>2, <1>3, <1>4

\* A new request does not disturb a call of another.
LEMMA StepUndisturbing ==
  ASSUME Typed, Settled, NEW a \in Calls, Step(a), NEW r \in Request, requests' = Append(requests, r), r.call = a,
         Matches(r)', pc'[a] \in Waiting, NEW c \in Calls \ {a}, Looking(c)
  PROVE  ~Disturbing(r, c)
<1>1. ASSUME Disturbing(r, c)  PROVE FALSE
  <2>1. /\ Control /\ TypeOK /\ CallOK(a) /\ OneGate  BY DEF Typed, Control
  <2>2. /\ r.thread = thread[a] /\ thread[a] \in Threads /\ pc[a] # "idle" /\ thread[c] = thread[a]
        /\ \/ Submit(a) /\ Run(a) /\ kind[a] # "create"
           \/ SubmitCatalog(a) /\ kind[a] \in CatalogKinds
           \/ Maintain(a) /\ kind[a] \in MaintenanceKinds
           \/ SubmitSwitch(a)
    BY <1>1, StepEffects DEF Disturbing
  <2>3. thread[c] \in Threads /\ gate[c] = thread[c] /\ pc[c] # "reconcile" /\ Active(c)
    BY <2>1, LookingThread
  <2>4. CASE kind[a] = "implicit"
    <3>1. Submit(a)
      BY <2>1, <2>2, <2>4 DEF CatalogKinds, MaintenanceKinds, SubmitSwitch, Answered, CallOK, InPlace, Reconciles
    <3>2. Settling(a)  BY <2>4, <3>1 DEF Submit, Settling
    <3>3. Touches(c, thread[a])  BY <2>2, <2>3 DEF Touches
    <3> QED BY <3>2, <3>3 DEF Settled
  <2>5. CASE kind[a] # "implicit"
    <3>1. kind[a] \notin Gateless
      BY <2>1, <2>2, <2>5 DEF Gateless, CatalogKinds, MaintenanceKinds, SubmitSwitch, Answered, CallOK, InPlace, Reconciles
    <3>2. pc[a] \notin {"idle", "done", "items"}
      BY <2>1, <2>2 DEF Submit, SubmitCatalog, Maintain, SubmitSwitch, Answered
    <3>3. gate[a] = thread[a]  BY <2>1, <3>1, <3>2 DEF CallOK, Equipped, Active
    <3> QED BY <2>1, <2>2, <2>3, <3>3 DEF OneGate
  <2> QED BY <2>4, <2>5
<1> QED BY <1>1

LEMMA StepQuiet ==
  ASSUME Typed, HeldRow, HeldOperation, Settled, Quiet, NEW a \in Calls, Step(a)
  PROVE  Quiet'
<1>1. SourceTypeOK /\ requests \in Seq(Request) /\ OpenCalls
  BY DEF Typed, Control, TypeOK, SourceTypeOK, Pipe
<1>2. ASSUME NEW c \in Calls, Looking(c)', NEW i \in 1..Len(requests'), Disturbing(requests[i], c)'
      PROVE  \E j \in 1..Len(requests') : j > i /\ requests'[j].call = c
  <2>1. requests'[i].thread = thread'[c] /\ requests'[i].method \in Effects \cup {"resume"} /\ requests'[i].call # c
    BY <1>2 DEF Disturbing
  <2>2. CASE UNCHANGED requests
    <3>1. Looking(c) /\ thread'[c] = thread[c]  BY <1>2, <2>2, StepLooks, OtherLooks
    <3>2. Disturbing(requests[i], c)  BY <2>1, <2>2, <3>1 DEF Disturbing
    <3> QED BY <2>2, <3>1, <3>2 DEF Quiet
  <2>3. CASE ~UNCHANGED requests
    <3>1. PICK r \in Request : /\ requests' = Append(requests, r) /\ r.call = a /\ Matches(r)' /\ pc'[a] \in Waiting
      BY <2>3, StepSource
    <3>2. /\ Len(requests') = Len(requests) + 1 /\ requests'[Len(requests) + 1] = r
          /\ \A j \in 1..Len(requests) : requests'[j] = requests[j]
      BY <1>1, <3>1
    <3>3. CASE c = a
      <4>1. i # Len(requests) + 1  BY <2>1, <3>1, <3>2, <3>3
      <4> QED BY <1>1, <3>1, <3>2, <3>3, <4>1
    <3>4. CASE c # a
      <4>1. Looking(c) /\ thread'[c] = thread[c]  BY <1>2, <3>4, OtherLooks
      <4>2. ~Disturbing(r, c)  BY <3>1, <3>4, <4>1, StepUndisturbing
      <4>3. i # Len(requests) + 1  BY <2>1, <3>2, <4>1, <4>2 DEF Disturbing
      <4>4. i \in 1..Len(requests)  BY <1>1, <3>2, <4>3
      <4>5. Disturbing(requests[i], c)  BY <2>1, <3>2, <4>1, <4>4 DEF Disturbing
      <4>6. PICK j \in 1..Len(requests) : j > i /\ requests[j].call = c  BY <4>1, <4>4, <4>5 DEF Quiet
      <4> QED BY <1>1, <3>2, <4>6
    <3> QED BY <3>3, <3>4
  <2> QED BY <2>2, <2>3
<1> QED BY <1>2 DEF Quiet

\* A recovery forgets a thread for a deletion that is confirmed.
LEMMA ForgetEnters ==
  ASSUME Typed, NEW a \in Calls, Step(a), kind'[a] \in Reconciles, pc'[a] = "forget"
  PROVE  \E id \in ReservedBy(thread[a]) :
           /\ IsDeletionConfirmed(id) /\ Row(id).state # "preparing"
           /\ held' = [held EXCEPT ![a] = id] /\ UNCHANGED <<storeVars, sourceVars>>
<1>1. /\ Control /\ TypeOK /\ OthersKeep(a) /\ CallOK(a) /\ CallOK(a)' /\ Retains(a)
  BY StepMoved, StepRetains DEF Typed, Control, Moved
<1>2. ~Finish(a)  BY <1>1, FinishEffect
<1>3. ~Return(a)  BY <1>1, <1>2, ReturnEffect DEF Return
<1>4. ASSUME NEW l, Goto(a, l)  PROVE l = "forget"  BY <1>1, <1>4 DEF Goto, TypeOK
<1>5. pc[a] # "idle"
  <2>1. ~Starts(a)
    BY <1>1 DEF Starts, StartRun, StartCatalog, StartSelect, StartReconcile, StartReconcileWorkspace, TypeOK
  <2> QED BY <2>1, StepAt
<1>6. kind[a] = kind'[a]  BY <1>1, <1>5 DEF Retains
<1>7. ~Run(a)  BY <1>1, RunKind DEF Reconciles, RunKinds, MaintenanceKinds
<1>8. ~(Catalog(a) /\ CatalogAt(a))
  <2>1. ~Goto(a, "submit") /\ ~Goto(a, "await") /\ ~Goto(a, "release")  BY <1>4
  <2>2. ~ReserveCatalog(a) /\ ~SubmitCatalog(a) /\ ~CatalogAnswered(a)
    BY <1>6 DEF ReserveCatalog, SubmitCatalog, CatalogAnswered, CatalogKinds, Reconciles
  <2>3. ~Forget(a) /\ ~FailCatalog(a) /\ ~ReleaseCatalog(a)
    BY <1>2, <1>3, <2>1 DEF Forget, FailCatalog, ReleaseCatalog, Continue
  <2> QED BY <1>5, <2>2, <2>3 DEF CatalogAt
<1>9. ~(Select(a) /\ SelectAt(a))
  <2>1. ~Goto(a, "selectBegin") /\ ~Goto(a, "selectPrepare") /\ ~Goto(a, "selectRead") /\ ~Goto(a, "switch")  BY <1>4
  <2>2. ~SelectIdle(a) /\ ~SelectBegin(a)
    BY <1>2, <2>1 DEF SelectIdle, SelectBegin, Continue
  <2>3. ~SelectPrepare(a) /\ ~SubmitSwitch(a)  BY <2>1 DEF SelectPrepare, SubmitSwitch
  <2>4. ~CommitSwitch(a) /\ ~FailSwitch(a)  BY <1>2, <1>3 DEF CommitSwitch, FailSwitch
  <2> QED BY <1>5, <2>2, <2>3, <2>4 DEF SelectAt
<1>10. Recover(a) /\ RecoverAt(a)  BY <1>7, <1>8, <1>9, StepAt
<1>11. ReconcileCatalog(a)
  <2>1. ~Goto(a, "selectRead") /\ ~Goto(a, "idleRead") /\ ~Goto(a, "release") /\ ~Goto(a, "evidence")  BY <1>4
  <2>2. ~ReconcileTransition(a)  BY <1>2, <1>3, <2>1 DEF ReconcileTransition
  <2>3. ~ReconcileExecution(a)  BY <1>2, <2>1 DEF ReconcileExecution
  <2>4. ~ArchiveVerified(a) /\ ~ReleaseIdle(a)  BY <1>2, <1>3, <2>1 DEF ArchiveVerified, ReleaseIdle, Continue
  <2>5. ~TreatItems(a)  BY <1>1, TreatMoves
  <2> QED BY <1>5, <1>10, <2>2, <2>3, <2>4, <2>5 DEF RecoverAt
<1>12. \E id \in ReservedBy(thread[a]) :
           /\ IsDeletionConfirmed(id) /\ Row(id).state # "preparing"
           /\ held' = [held EXCEPT ![a] = id] /\ UNCHANGED <<storeVars, sourceVars>>
  <2>1. ~Goto(a, "evidence")  BY <1>4
  <2> QED BY <1>2, <1>3, <1>11, <2>1 DEF ReconcileCatalog
<1> QED BY <1>12

LEMMA StepHeldOperation ==
  ASSUME Typed, HeldRow, HeldOperation, NEW a \in Calls, Step(a)
  PROVE  HeldOperation'
<1>1. /\ Control /\ TypeOK /\ OthersKeep(a) /\ CallOK(a) /\ CallOK(a)' /\ Retains(a)
  BY StepMoved, StepRetains DEF Typed, Control, Moved
<1>2. ASSUME NEW c \in Calls, kind'[c] \in Reconciles, pc'[c] = "forget", reservations'[held'[c]] # Null
      PROVE  reservations'[held'[c]].operation = "delete"
  <2>1. CASE c # a
    <3>1. kind'[c] = kind[c] /\ pc'[c] = pc[c] /\ held'[c] = held[c]  BY <1>1, <2>1 DEF OthersKeep
    <3>2. held[c] # Null  BY <1>1, <1>2, <3>1 DEF Control, CallOK, Equipped
    <3>3. Live(held[c]) /\ reservations'[held[c]].operation = Row(held[c]).operation
      BY <1>2, <3>1, <3>2, StepHeldKept
    <3> QED BY <1>2, <3>1, <3>3 DEF HeldOperation
  <2>2. CASE c = a
    <3>1. \E id \in ReservedBy(thread[a]) : IsDeletionConfirmed(id) /\ held' = [held EXCEPT ![a] = id] /\ UNCHANGED storeVars
      BY <1>2, <2>2, ForgetEnters
    <3> QED BY <1>1, <2>2, <3>1 DEF IsDeletionConfirmed, storeVars, Row, TypeOK
  <2> QED BY <2>1, <2>2
<1> QED BY <1>2 DEF HeldOperation, Live, Row

LEMMA RestLooks ==
  ASSUME Control, Pauses, NEW c \in Calls, Looking(c)'
  PROVE  Looking(c) /\ thread'[c] = thread[c] /\ pc'[c] = pc[c]
<1>1. pc'[c] # "done"  BY DEF Looking, Active, Reconciles
<1>2. pc'[c] = pc[c] /\ held'[c] = held[c] /\ kind'[c] = kind[c] /\ thread'[c] = thread[c]  BY <1>1 DEF Pauses
<1>3. held[c] \in Calls /\ reservations'[held[c]] # Null => Live(held[c]) /\ reservations'[held[c]].operation = Row(held[c]).operation
  BY DEF Pauses, SameRow
<1>4. CASE kind[c] \in Reconciles /\ pc[c] = "release"
  <2>1. held[c] \in Calls  BY <1>4 DEF Control, TypeOK, CallOK, Equipped
  <2> QED BY <1>2, <1>3, <1>4, <2>1 DEF Looking, Live, Row, Active
<1>5. CASE ~(kind[c] \in Reconciles /\ pc[c] = "release")
  BY <1>2, <1>5 DEF Looking, Active
<1> QED BY <1>2, <1>4, <1>5

LEMMA RestQuiet ==
  ASSUME Typed, Quiet, Pauses
  PROVE  Quiet'
<1>1. Control /\ requests \in Seq(Request)  BY DEF Typed, Control, TypeOK, SourceTypeOK
<1>2. ASSUME NEW c \in Calls, Looking(c)', NEW i \in 1..Len(requests'), Disturbing(requests[i], c)'
      PROVE  \E j \in 1..Len(requests') : j > i /\ requests'[j].call = c
  <2>1. requests'[i].thread = thread'[c] /\ requests'[i].method \in Effects \cup {"resume"} /\ requests'[i].call # c
    BY <1>2 DEF Disturbing
  <2>2. Looking(c) /\ thread'[c] = thread[c]  BY <1>1, <1>2, RestLooks
  <2>3. CASE requests' = requests
    <3>1. Disturbing(requests[i], c)  BY <2>1, <2>2, <2>3 DEF Disturbing
    <3> QED BY <2>2, <2>3, <3>1 DEF Quiet
  <2>4. CASE requests # <<>> /\ requests' = Tail(requests)
    <3>1. /\ Len(requests') = Len(requests) - 1 /\ Len(requests) \in Nat
          /\ \A j \in 1..Len(requests') : requests'[j] = requests[j + 1]
      BY <1>1, <2>4
    <3>2. i + 1 \in 1..Len(requests) /\ requests'[i] = requests[i + 1]  BY <3>1
    <3>3. Disturbing(requests[i + 1], c)  BY <2>1, <2>2, <3>2 DEF Disturbing
    <3>4. PICK j \in 1..Len(requests) : j > i + 1 /\ requests[j].call = c
      BY <2>2, <3>2, <3>3 DEF Quiet
    <3>5. j - 1 \in 1..Len(requests') /\ j - 1 > i  BY <3>1, <3>4
    <3>6. requests'[j - 1] = requests[j]
      <4>1. requests'[j - 1] = requests[(j - 1) + 1]  BY <3>1, <3>5
      <4> QED BY <3>4, <4>1
    <3> QED BY <3>4, <3>5, <3>6
  <2>5. CASE requests' = <<>>
    BY <2>5
  <2> QED BY <2>3, <2>4, <2>5 DEF Pauses
<1> QED BY <1>2 DEF Quiet

LEMMA RestHeldOperation ==
  ASSUME Typed, HeldOperation, Pauses
  PROVE  HeldOperation'
<1>1. ASSUME NEW c \in Calls, kind'[c] \in Reconciles, pc'[c] = "forget", reservations'[held'[c]] # Null
      PROVE  reservations'[held'[c]].operation = "delete"
  <2>1. kind'[c] = kind[c] /\ pc'[c] = pc[c] /\ held'[c] = held[c]  BY <1>1 DEF Pauses
  <2>2. held[c] \in Calls  BY <1>1, <2>1 DEF Typed, Control, TypeOK, CallOK, Equipped
  <2> QED BY <1>1, <2>1, <2>2 DEF Pauses, SameRow, HeldOperation, Live, Row
<1> QED BY <1>1 DEF HeldOperation, Live, Row

\* What a request says of the place of its thread still holds when it is served,
\* or the thread is gone.
IsPlaced(r) ==
  /\ r.method \in {"turn", "resume"} =>
       Gone(r.thread) \/ (association[r.thread] = r.cwd /\ transitions[r.thread] = Null)
  /\ r.method = "switch" =>
       /\ transitions[r.thread] # Null /\ transitions[r.thread].state # "preparing"
       /\ r.cwd = transitions[r.thread].to /\ r.contract = transitions[r.thread].contract

PlacedRequests == \A r \in Sent : IsPlaced(r)

\* Binding writes the place the thread already has, unless it is gone.
LEMMA BindsNothing ==
  ASSUME Typed, RowKnown, Settled, NEW c \in Calls, NEW t \in Threads, Binds(c, t)
  PROVE  association'[t] = association[t] \/ Gone(t)
<1>1. /\ StoreTypeOK /\ CallOK(c) /\ RowOK(c) /\ Live(c) /\ t = thread[c] /\ pc[c] = "bind" /\ association[t] # Null
      /\ association'[t] = Row(c).workspace
  BY DEF Typed, Control, TypeOK, Rows, Binds, CanBind
<1>2. Row(c).workspace = workspace[c]  BY <1>1 DEF RowOK
<1>3. CASE kind[c] = "implicit"
  BY <1>1, <1>2, <1>3 DEF Settled, Settling
<1>4. CASE kind[c] = "turn"
  <2>1. Row(c).thread = t  BY <1>1, <1>4 DEF RowOK, Gateless
  <2> QED BY <1>1, <2>1 DEF RowKnown
<1> QED BY <1>1, <1>3, <1>4 DEF CallOK, InPlace

\* The requests a selection has to wait for are over when it goes on.
LEMMA ShiftsAlone ==
  ASSUME Typed, Quiet, NEW c \in Calls, Step(c), NEW t \in Threads, Shifts(c, t),
         \/ pc[c] \in {"selectBegin"}
         \/ pc[c] = "selectRead" /\ reply[c] # Null /\ reply[c].result = "idle"
         \/ pc[c] = "switch" /\ reply[c] # Null /\ reply[c].result = "ok",
         NEW r \in Sent, r.thread = t, r.method \in Effects \cup {"resume"}
  PROVE  FALSE
<1>1. SourceTypeOK /\ Pipe /\ CallOK(c) /\ thread[c] = t
  BY DEF Typed, Control, TypeOK, Shifts
<1>2. ~Open(c)  BY DEF Open, Waiting
<1>3. Looking(c)  BY <1>1 DEF Looking, Active, CallOK, InPlace, Reconciles
<1> QED BY <1>1, <1>2, <1>3, NotOpenSent, QuietAnswered

LEMMA StepPlacedOld ==
  ASSUME Deletion, Newborn, Settled, RowKnown, Quiet, PlacedRequests, NEW c \in Calls, Step(c), NEW r \in Sent,
         NEW t \in Threads, r.thread = t
  PROVE  /\ r.method \in {"turn", "resume"} => Gone(t) \/ (association'[t] = r.cwd /\ transitions'[t] = Null)
         /\ r.method = "switch" =>
              /\ transitions'[t] # Null /\ transitions'[t].state # "preparing"
              /\ r.cwd = transitions'[t].to /\ r.contract = transitions'[t].contract
<1>1. /\ Typed /\ Control /\ TypeOK /\ StoreTypeOK /\ IsPlaced(r) /\ Forgettable
  BY DEF Deletion, Typed, Control, TypeOK, PlacedRequests
<1>2. ASSUME r.method \in {"turn", "resume"}, ~Gone(t)  PROVE association'[t] = r.cwd /\ transitions'[t] = Null
  <2>1. association[t] = r.cwd /\ transitions[t] = Null  BY <1>1, <1>2 DEF IsPlaced
  <2>2. association'[t] = association[t]
    <3>1. ASSUME association'[t] # association[t]  PROVE FALSE
      <4>1. Forgets(c, t) \/ Indexes(c, t) \/ Binds(c, t) \/ Commits(c, t)  BY <1>1, <3>1, StepPlaces
      <4>2. ~Forgets(c, t)  BY <1>1, <1>2 DEF Forgets, Forgettable
      <4>3. ~Indexes(c, t)
        <5>1. ASSUME Indexes(c, t)  PROVE FALSE
          <6>1. Carries(c, t)  BY <5>1 DEF Indexes, Carries, Brought, Answered
          <6> QED BY <6>1 DEF Newborn, Marked
        <5> QED BY <5>1
      <4>4. ~Binds(c, t)  BY <1>1, <1>2, <3>1, BindsNothing
      <4> QED BY <2>1, <4>1, <4>2, <4>3, <4>4 DEF Commits, CanCommit
    <3> QED BY <3>1
  <2>3. transitions'[t] = transitions[t]
    <3>1. ASSUME transitions'[t] # transitions[t]  PROVE FALSE
      <4>1. Shifts(c, t)  BY <1>1, <3>1, StepShifts
      <4>2. pc[c] = "selectBegin"  BY <2>1, <4>1 DEF Shifts, Commits, CanCommit
      <4> QED BY <1>1, <1>2, <4>1, <4>2, ShiftsAlone DEF Effects, StartMethods
    <3> QED BY <3>1
  <2> QED BY <2>1, <2>2, <2>3
<1>3. ASSUME r.method = "switch"
      PROVE  /\ transitions'[t] # Null /\ transitions'[t].state # "preparing"
             /\ r.cwd = transitions'[t].to /\ r.contract = transitions'[t].contract
  <2>1. /\ transitions[t] # Null /\ transitions[t].state # "preparing"
        /\ r.cwd = transitions[t].to /\ r.contract = transitions[t].contract
    BY <1>1, <1>3 DEF IsPlaced
  <2>2. CASE transitions'[t] = transitions[t]  BY <2>1, <2>2
  <2>3. CASE transitions'[t] # transitions[t]
    <3>1. Shifts(c, t)  BY <1>1, <2>3, StepShifts
    <3>2. /\ pc[c] # "selectBegin"
          /\ ~(pc[c] = "selectRead" /\ reply[c] # Null /\ reply[c].result = "idle")
          /\ ~(pc[c] = "switch" /\ reply[c] # Null /\ reply[c].result = "ok")
      BY <1>1, <1>3, <3>1, ShiftsAlone DEF Effects
    <3>3. transitions'[t] = [transitions[t] EXCEPT !.state = "uncertain"]
      BY <2>1, <3>1, <3>2 DEF Shifts, Commits
    <3>4. transitions[t] \in Transition  BY <1>1, <2>1 DEF StoreTypeOK
    <3>5. transitions'[t] \in Transition /\ transitions'[t].state = "uncertain" /\ transitions'[t].to = transitions[t].to
          /\ transitions'[t].contract = transitions[t].contract
      BY <3>3, <3>4 DEF Transition, TransitionStates
    <3> QED BY <2>1, <3>5
  <2> QED BY <2>2, <2>3
<1> QED BY <1>2, <1>3

LEMMA StepPlacedNew ==
  ASSUME Deletion, StoreInv, RowKnown, NEW c \in Calls, Step(c), NEW r \in Request, requests' = Append(requests, r),
         r.call = c, Matches(r)', pc'[c] \in Waiting
  PROVE  /\ r.method \in {"turn", "resume"} =>
              Gone(r.thread) \/ (association'[r.thread] = r.cwd /\ transitions'[r.thread] = Null)
         /\ r.method = "switch" =>
              /\ transitions'[r.thread] # Null /\ transitions'[r.thread].state # "preparing"
              /\ r.cwd = transitions'[r.thread].to /\ r.contract = transitions'[r.thread].contract
<1>1. /\ Typed /\ Control /\ TypeOK /\ StoreTypeOK /\ RowOK(c) /\ CallOK(c) /\ Dispatched' /\ StoreTypeOK'
  BY StepMoved DEF Deletion, Typed, Control, TypeOK, Rows, Moved
<1>2. ASSUME r.method \in {"turn", "resume", "switch"}
      PROVE  /\ r.thread = thread[c] /\ thread[c] \in Threads /\ pc[c] # "idle"
             /\ \/ Submit(c) /\ r.cwd = workspace[c] /\ r.method \in {"turn", "resume"} /\ kind[c] # "create"
                \/ SubmitSwitch(c) /\ r.method = "switch" /\ r.cwd = transitions[thread[c]].to /\ r.contract = contract[c]
  BY <1>1, <1>2, StepEffects DEF Effects, StartMethods, CatalogKinds, MaintenanceKinds
<1>3. ASSUME r.method \in {"turn", "resume"}
      PROVE  Gone(r.thread) \/ (association'[r.thread] = r.cwd /\ transitions'[r.thread] = Null)
  <2> DEFINE t == thread[c]
  <2>1. Submit(c) /\ t \in Threads /\ r.thread = t /\ r.cwd = workspace[c]  BY <1>2, <1>3
  <2>2. Live(c) /\ Row(c).thread # Null /\ UNCHANGED <<association, transitions>>
    BY <2>1 DEF Submit, Submitting, CanSubmit, ChangeReservations
  <2>3. Row(c).thread = t /\ Row(c).workspace = workspace[c]  BY <1>1, <2>2 DEF RowOK
  <2>4. c \in ReservedBy(t)  BY <2>2, <2>3 DEF ReservedBy
  <2>5. transitions[t] = Null  BY <2>1, <2>4 DEF StoreInv, TransitionExclusive
  <2>6. association[t] = workspace[c] \/ Gone(t)  BY <2>2, <2>3 DEF RowKnown
  <2> QED BY <2>1, <2>2, <2>5, <2>6
<1>4. ASSUME r.method = "switch"
      PROVE  /\ transitions'[r.thread] # Null /\ transitions'[r.thread].state # "preparing"
             /\ r.cwd = transitions'[r.thread].to /\ r.contract = transitions'[r.thread].contract
  <2> DEFINE t == thread[c]
  <2>1. /\ SubmitSwitch(c) /\ t \in Threads /\ r.thread = t /\ r.cwd = transitions[t].to /\ r.contract = contract[c]
    BY <1>2, <1>4
  <2>2. /\ transitions[t] # Null /\ transitions' = [transitions EXCEPT ![t].state = "submitting", ![t].contract = contract[c]]
    BY <2>1 DEF SubmitSwitch, SubmittingTransition, CanSubmitTransition, ChangeTransitions
  <2>3. transitions[t] \in Transition  BY <1>1, <2>1, <2>2 DEF StoreTypeOK
  <2>4. transitions'[t] = [transitions[t] EXCEPT !.state = "submitting", !.contract = contract[c]]
    BY <1>1, <2>1, <2>2 DEF StoreTypeOK
  <2>5. /\ transitions'[t].state = "submitting" /\ transitions'[t].contract = contract[c]
        /\ transitions'[t].to = transitions[t].to
    BY <2>3, <2>4 DEF Transition
  <2>6. contract[c] \in Contracts
    BY <1>1, <2>1 DEF SubmitSwitch, Answered, CallOK, Equipped, TypeOK
  <2>7. transitions'[t] # Null
    <3>1. transitions'[t] \in Transition  BY <2>3, <2>4, <2>6 DEF Transition, TransitionStates
    <3> QED BY <3>1
  <2> QED BY <2>1, <2>5, <2>7
<1> QED BY <1>3, <1>4

LEMMA StepPlaced ==
  ASSUME Deletion, StoreInv, Newborn, Settled, RowKnown, Quiet, PlacedRequests, NEW c \in Calls, Step(c)
  PROVE  PlacedRequests'
<1>1. Typed /\ Control /\ SourceTypeOK /\ UNCHANGED <<known, sourceCwd>> /\ \A r \in Sent : Matches(r)
  BY StepSource DEF Deletion, Typed, Control, TypeOK, Pipe
<1>2. ASSUME NEW r \in Sent'
      PROVE  /\ r.method \in {"turn", "resume"} =>
                   Gone(r.thread) \/ (association'[r.thread] = r.cwd /\ transitions'[r.thread] = Null)
             /\ r.method = "switch" =>
                  /\ transitions'[r.thread] # Null /\ transitions'[r.thread].state # "preparing"
                  /\ r.cwd = transitions'[r.thread].to /\ r.contract = transitions'[r.thread].contract
  <2>1. CASE r \in Sent
    <3>1. r \in Request  BY <1>1, <2>1, SentTyped
    <3>2. r.method \in {"turn", "resume", "switch"} => r.thread \in Threads
      BY <1>1, <2>1, <3>1 DEF Matches, Request
    <3> QED BY <2>1, <3>2, StepPlacedOld
  <2>2. CASE r \notin Sent
    <3>1. ~UNCHANGED requests  BY <1>2, <2>2 DEF Sent, Elements
    <3>2. PICK q \in Request : /\ requests' = Append(requests, q) /\ q.call = c /\ Matches(q)'
                               /\ Sent' = Sent \cup {q} /\ pc'[c] \in Waiting
      BY <1>1, <3>1, StepSource
    <3>3. r = q  BY <1>2, <2>2, <3>2
    <3> QED BY <3>2, <3>3, StepPlacedNew
  <2> QED BY <2>1, <2>2
<1>4. ASSUME NEW r \in Sent'  PROVE IsPlaced(r)'
  <2>1. ASSUME r.method \in {"turn", "resume"}  PROVE IsPlaced(r)'
    <3>1. Gone(r.thread) \/ (association'[r.thread] = r.cwd /\ transitions'[r.thread] = Null)
      BY <1>2, <1>4, <2>1 DEF Gone
    <3>2. Gone(r.thread) => Gone(r.thread)'  BY <1>1 DEF Gone
    <3> QED BY <2>1, <3>1, <3>2 DEF IsPlaced
  <2>2. r.method = "switch" => IsPlaced(r)'
    BY <1>2, <1>4 DEF IsPlaced
  <2> QED BY <2>1, <2>2 DEF IsPlaced
<1> QED BY <1>4 DEF PlacedRequests

LEMMA RestPlaced ==
  ASSUME Typed, PlacedRequests, Pauses
  PROVE  PlacedRequests'
<1>1. SourceTypeOK /\ \A r \in Sent : Matches(r)  BY DEF Typed, Control, TypeOK, Pipe
<1>2. ASSUME NEW r \in Sent'  PROVE IsPlaced(r)'
  <2>1. r \in Sent /\ IsPlaced(r)  BY <1>2 DEF Pauses, PlacedRequests
  <2>2. r \in Request  BY <1>1, <2>1, SentTyped
  <2>3. r.method \in {"turn", "resume", "switch"} => r.thread \in Threads
    BY <1>1, <2>1, <2>2 DEF Matches, Request
  <2>4. UNCHANGED transitions /\ \A t \in Threads : Gone(t) => Gone(t)'  BY DEF Pauses
  <2>5. \A t \in Threads : association'[t] = association[t] \/ association[t] = Null \/ Gone(t)  BY DEF Pauses
  <2>9. r.method \in {"turn", "resume"} => r.cwd # Null  BY <1>1, <2>1 DEF Matches
  <2>6. r.method = "switch" => IsPlaced(r)'  BY <2>1, <2>4 DEF IsPlaced
  <2>7. r.method \in {"turn", "resume"} => IsPlaced(r)'
    <3>1. ASSUME r.method \in {"turn", "resume"}, NEW t \in Threads, t = r.thread
          PROVE  Gone(t)' \/ (association'[t] = r.cwd /\ transitions'[t] = Null)
      BY <2>1, <2>4, <2>5, <2>9, <3>1 DEF IsPlaced
    <3> QED BY <2>3, <3>1 DEF IsPlaced
  <2>8. r.method \notin {"turn", "resume", "switch"} => IsPlaced(r)'  BY DEF IsPlaced
  <2> QED BY <2>6, <2>7, <2>8
<1> QED BY <1>2 DEF PlacedRequests

----------------------------------------------------------------------------
(* Where the source has loaded a thread.                                   *)

\* What a call that applies a transition knows of it.
Switching == \A c \in Calls :
  /\ pc[c] \in {"selectPrepare", "selectRead", "switch"} => transitions[thread[c]] # Null
  /\ pc[c] = "selectPrepare" => transitions[thread[c]].state = "preparing"
  /\ pc[c] \in {"selectRead", "switch"} => transitions[thread[c]].contract \in {Null, contract[c]}
  /\ pc[c] = "switch" => transitions[thread[c]].state = "submitting"

\* A positive answer has been given, and reaches the call or has reached it.
Heeds(c, results) ==
  \/ reply[c] # Null /\ reply[c].result \in results
  \/ \E e \in Answers : e.call = c /\ e.result \in results

Switched == \A c \in Calls : pc[c] = "switch" /\ Heeds(c, {"ok"}) =>
  /\ sourceCwd[thread[c]] = transitions[thread[c]].to
  /\ reported[thread[c]] = transitions[thread[c]].contract

\* Nobody else changes the transition of the thread whose gate a call holds.
LEMMA OthersTransition ==
  ASSUME Control, NEW a \in Calls, Step(a), NEW c \in Calls \ {a}, gate[c] = thread[c], thread[c] \in Threads
  PROVE  transitions'[thread[c]] = transitions[thread[c]]
<1>1. ASSUME transitions'[thread[c]] # transitions[thread[c]]  PROVE FALSE
  <2>1. Shifts(a, thread[c])  BY <1>1, StepShifts
  <2> QED BY <2>1 DEF Shifts, Control, OneGate
<1> QED BY <1>1

LEMMA StepSwitching ==
  ASSUME Typed, Switching, NEW a \in Calls, Step(a)
  PROVE  Switching'
<1>1. /\ Control /\ TypeOK /\ StoreTypeOK /\ OthersKeep(a) /\ Dispatched
      /\ CallOK(a) /\ CallOK(a)'
  BY StepMoved DEF Typed, Control, TypeOK, Moved
<1>2. ASSUME NEW c \in Calls \ {a}, pc'[c] \in {"selectPrepare", "selectRead", "switch"}
      PROVE  /\ pc'[c] = pc[c] /\ thread'[c] = thread[c] /\ contract'[c] = contract[c]
             /\ transitions'[thread[c]] = transitions[thread[c]]
  BY <1>1, <1>2, HasThread, OthersTransition DEF OthersKeep
<1>3. ASSUME pc'[a] \in {"selectPrepare", "selectRead", "switch"}
      PROVE  /\ transitions'[thread'[a]] # Null
             /\ pc'[a] = "selectPrepare" => transitions'[thread'[a]].state = "preparing"
             /\ pc'[a] \in {"selectRead", "switch"} => transitions'[thread'[a]].contract \in {Null, contract'[a]}
             /\ pc'[a] = "switch" => transitions'[thread'[a]].state = "submitting"
  <2> DEFINE t == thread[a]
  <2>1. ~Finish(a)  BY <1>1, <1>3, FinishEffect
  <2>2. ~Return(a)  BY <1>1, <1>3, <2>1, ReturnEffect DEF Return
  <2>3. ASSUME NEW l, Goto(a, l)  PROVE l \in {"selectPrepare", "selectRead", "switch"}
    BY <1>1, <1>3, <2>3 DEF Goto, TypeOK
  <2>4. pc[a] # "idle"
    <3>1. ~Starts(a)
      BY <1>1, <1>3 DEF Starts, StartRun, StartCatalog, StartSelect, StartReconcile, StartReconcileWorkspace, TypeOK
    <3> QED BY <3>1, StepAt
  <2>5. kind'[a] \notin RunKinds \cup CatalogKinds
    BY <1>1, <1>3 DEF CallOK, InPlace, RunKinds, CatalogKinds, MaintenanceKinds, Reconciles
  <2>6. ~Run(a)  BY <1>1, <2>5, RunKind
  <2>7. ~(Catalog(a) /\ CatalogAt(a))
    <3>1. ~Goto(a, "submit") /\ ~Goto(a, "await") /\ ~Goto(a, "release") /\ ~Goto(a, "forget")  BY <2>3
    <3>2. ~ReserveCatalog(a) /\ ~SubmitCatalog(a) /\ ~CatalogAnswered(a)
      BY <2>1, <3>1 DEF ReserveCatalog, SubmitCatalog, CatalogAnswered, Ask, Continue
    <3>3. ~Forget(a) /\ ~FailCatalog(a) /\ ~ReleaseCatalog(a)
      BY <2>1, <2>2, <3>1 DEF Forget, FailCatalog, ReleaseCatalog, Continue
    <3> QED BY <2>4, <3>2, <3>3 DEF CatalogAt
  <2>8. ASSUME SelectBegin(a)
        PROVE  /\ thread'[a] = t /\ t \in Threads /\ pc'[a] = "selectPrepare"
               /\ transitions'[t] = [from |-> association[t], to |-> workspace[a], state |-> "preparing", contract |-> Null]
    <3>1. BeginTransition(t, workspace[a]) /\ Continue(a, "selectPrepare")  BY <2>1, <2>8 DEF SelectBegin
    <3>2. t \in Threads  BY <1>1, <2>8, HasThread DEF SelectBegin
    <3> QED BY <1>1, <3>1, <3>2 DEF BeginTransition, ChangeTransitions, Continue, Goto, TypeOK, StoreTypeOK
  <2>9. CASE SelectBegin(a)
    <3>2. transitions'[t] # Null
      <4>1. association[t] \in Workspaces /\ workspace[a] \in Workspaces
        <5>1. BeginTransition(t, workspace[a])  BY <2>1, <2>9 DEF SelectBegin
        <5>2. association[t] # Null  BY <5>1 DEF BeginTransition, CanBegin
        <5>3. workspace[a] # Null  BY <1>1, <2>9 DEF SelectBegin, CallOK, InPlace, Equipped
        <5> QED BY <1>1, <2>8, <2>9, <5>2, <5>3 DEF StoreTypeOK, TypeOK
      <4>2. transitions'[t] \in Transition  BY <2>8, <2>9, <4>1 DEF Transition, TransitionStates
      <4> QED BY <4>2
    <3>3. transitions'[t].state = "preparing"  BY <2>8, <2>9
    <3> QED BY <2>8, <2>9, <3>2, <3>3
  <2>10. CASE SelectPrepare(a)
    <3>1. pc[a] = "selectPrepare" /\ pc'[a] = "selectRead" /\ thread'[a] = t /\ UNCHANGED transitions
      BY <1>1, <2>10 DEF SelectPrepare, Goto, TypeOK, storeVars
    <3>2. t \in Threads  BY <1>1, <3>1, HasThread
    <3>3. transitions[t] # Null /\ transitions[t].state = "preparing"  BY <3>1 DEF Switching
    <3>4. transitions[t].contract = Null  BY <1>1, <3>2, <3>3 DEF Dispatched
    <3> QED BY <3>1, <3>3, <3>4
  <2>11. CASE SubmitSwitch(a)
    <3>1. /\ pc[a] = "selectRead" /\ pc'[a] = "switch" /\ thread'[a] = t /\ contract'[a] = contract[a]
          /\ transitions[t] # Null
          /\ transitions' = [transitions EXCEPT ![t].state = "submitting", ![t].contract = contract[a]]
      BY <1>1, <2>11 DEF SubmitSwitch, Answered, Registers, Goto, TypeOK, SubmittingTransition, CanSubmitTransition,
         ChangeTransitions
    <3>2. t \in Threads  BY <1>1, <3>1, HasThread
    <3>3. contract[a] \in Contracts  BY <1>1, <3>1 DEF CallOK, Equipped, TypeOK
    <3>4. transitions[t] \in Transition  BY <1>1, <3>1, <3>2 DEF StoreTypeOK
    <3>5. transitions'[t] = [transitions[t] EXCEPT !.state = "submitting", !.contract = contract[a]]
      BY <1>1, <3>1, <3>2 DEF StoreTypeOK
    <3>6. transitions'[t] \in Transition /\ transitions'[t].state = "submitting" /\ transitions'[t].contract = contract[a]
      BY <3>3, <3>4, <3>5 DEF Transition, TransitionStates
    <3>7. transitions'[t] # Null  BY <3>6
    <3> QED BY <3>1, <3>6, <3>7
  <2>12. CASE ReconcileTransition(a)
    <3>2. /\ pc'[a] = "selectRead" /\ thread'[a] = t /\ UNCHANGED transitions /\ transitions[t] # Null
          /\ contract' = [contract EXCEPT ![a] = transitions[t].contract]
      BY <1>1, <2>1, <2>2, <2>12 DEF ReconcileTransition, Goto, TypeOK, storeVars
    <3>3. contract'[a] = transitions[t].contract  BY <1>1, <3>2 DEF TypeOK
    <3> QED BY <3>2, <3>3
  <2>13. SelectBegin(a) \/ SelectPrepare(a) \/ SubmitSwitch(a) \/ ReconcileTransition(a)
    <3>1. ~Goto(a, "selectBegin") /\ ~Goto(a, "idleRead") /\ ~Goto(a, "evidence") /\ ~Goto(a, "forget") /\ ~Goto(a, "release")
      BY <2>3
    <3>2. ~SelectIdle(a) /\ ~CommitSwitch(a) /\ ~FailSwitch(a)
      BY <2>1, <2>2, <3>1 DEF SelectIdle, CommitSwitch, FailSwitch, Continue
    <3>3. ~ReconcileExecution(a)  BY <2>1, <3>1 DEF ReconcileExecution
    <3>4. ~ReconcileCatalog(a)  BY <2>1, <2>2, <3>1 DEF ReconcileCatalog
    <3>5. ~ArchiveVerified(a) /\ ~ReleaseIdle(a)  BY <2>1, <2>2, <3>1 DEF ArchiveVerified, ReleaseIdle, Continue
    <3>6. ~TreatItems(a)  BY <1>1, <1>3, TreatMoves
    <3> QED BY <2>4, <2>6, <2>7, <3>2, <3>3, <3>4, <3>5, <3>6, StepAt DEF SelectAt, RecoverAt
  <2> QED BY <2>9, <2>10, <2>11, <2>12, <2>13
<1>4. ASSUME NEW c \in Calls
      PROVE  /\ pc'[c] \in {"selectPrepare", "selectRead", "switch"} => transitions'[thread'[c]] # Null
             /\ pc'[c] = "selectPrepare" => transitions'[thread'[c]].state = "preparing"
             /\ pc'[c] \in {"selectRead", "switch"} => transitions'[thread'[c]].contract \in {Null, contract'[c]}
             /\ pc'[c] = "switch" => transitions'[thread'[c]].state = "submitting"
  <2>1. CASE c = a  BY <1>3, <2>1
  <2>2. CASE c # a  BY <1>2, <2>2 DEF Switching
  <2> QED BY <2>1, <2>2
<1> QED BY <1>4 DEF Switching

LEMMA RestSwitching ==
  ASSUME Switching, Pauses
  PROVE  Switching'
<1>1. ASSUME NEW c \in Calls
      PROVE  /\ pc'[c] \in {"selectPrepare", "selectRead", "switch"} => transitions'[thread'[c]] # Null
             /\ pc'[c] = "selectPrepare" => transitions'[thread'[c]].state = "preparing"
             /\ pc'[c] \in {"selectRead", "switch"} => transitions'[thread'[c]].contract \in {Null, contract'[c]}
             /\ pc'[c] = "switch" => transitions'[thread'[c]].state = "submitting"
  BY DEF Pauses, Switching
<1> QED BY <1>1 DEF Switching

\* The answer to a switch is not there before the switch.
LEMMA StepSwitched ==
  ASSUME Typed, Switched, NEW a \in Calls, Step(a)
  PROVE  Switched'
<1>1. /\ Control /\ Pipe /\ OthersKeep(a) /\ Waits(a) /\ UNCHANGED <<sourceCwd, reported, Answers>>
      /\ Open(a) => pc'[a] = "done"
  BY StepMoved, StepWaits, StepSource DEF Typed, Moved
<1>2. ASSUME NEW c \in Calls, pc'[c] = "switch", Heeds(c, {"ok"})'
      PROVE  /\ sourceCwd'[thread'[c]] = transitions'[thread'[c]].to
             /\ reported'[thread'[c]] = transitions'[thread'[c]].contract
  <2>1. CASE c = a
    <3>1. reply'[c] = Null  BY <1>1, <1>2, <2>1 DEF Waits, Waiting
    <3>2. PICK e \in Answers : e.call = c  BY <1>1, <1>2, <3>1 DEF Heeds
    <3>3. Open(c)  BY <1>1, <3>2 DEF Pipe, OpenCalls
    <3> QED BY <1>1, <1>2, <2>1, <3>3
  <2>2. CASE c # a
    <3>1. pc[c] = "switch" /\ thread'[c] = thread[c] /\ Heeds(c, {"ok"})
      BY <1>1, <1>2, <2>2 DEF OthersKeep, Heeds
    <3>2. transitions'[thread[c]] = transitions[thread[c]]
      BY <1>1, <2>2, <3>1, HasThread, OthersTransition
    <3> QED BY <1>1, <3>1, <3>2 DEF Switched
  <2> QED BY <2>1, <2>2
<1> QED BY <1>2 DEF Switched

LEMMA HushedSwitched ==
  ASSUME Switched, Pauses, Hushed
  PROVE  Switched'
<1>1. ASSUME NEW c \in Calls, pc'[c] = "switch", Heeds(c, {"ok"})'
      PROVE  /\ sourceCwd'[thread'[c]] = transitions'[thread'[c]].to
             /\ reported'[thread'[c]] = transitions'[thread'[c]].contract
  <2>1. pc[c] = "switch" /\ thread'[c] = thread[c]  BY <1>1 DEF Pauses
  <2>2. Heeds(c, {"ok"})  BY <1>1 DEF Heeds, Hushed, Rejection
  <2> QED BY <2>1, <2>2 DEF Switched, Pauses, Hushed
<1> QED BY <1>1 DEF Switched

\* A positive answer to a switch says that the thread is loaded where it was sent,
\* and nobody else has a request left that would move it.
LEMMA SourceSwitched ==
  ASSUME Deletion, Existed, Switching, Quiet, PlacedRequests, Switched, Source
  PROVE  Switched'
<1>1. /\ Typed /\ Control /\ Pipe /\ TypeOK /\ SourceTypeOK /\ OneEach
      /\ UNCHANGED <<pc, reply, thread, transitions>>
  BY DEF Deletion, Typed, Control, TypeOK, Pipe, Source, callVars, storeVars
<1>2. CASE Serve
  <2>1. Served  BY <1>1, <1>2, ServeOutcome
  <2>2. PICK a \in Answer : a.call = Oldest.call /\ Answers' = Answers \cup {a} /\ Outcome(a)
    BY <2>1 DEF Served
  <2>3. Oldest \in Sent /\ Matches(Oldest) /\ IsPlaced(Oldest) /\ Oldest.call \in Calls
    BY <1>1, <2>1 DEF Served, Request, Pipe, PlacedRequests
  <2>4. ASSUME NEW c \in Calls, NEW t, t = thread[c], pc[c] = "switch", Heeds(c, {"ok"})'
        PROVE  sourceCwd'[t] = transitions[t].to /\ reported'[t] = transitions[t].contract
    <3>1. t \in Threads /\ transitions[t] # Null  BY <1>1, <2>4, HasThread DEF Switching
    <3>2. CASE a.call = c /\ a.result = "ok"
      <4>1. Oldest.method = "switch" /\ Oldest.thread = t
        BY <1>1, <2>2, <2>3, <2>4, <3>2 DEF Matches, MethodOf, Waiting
      <4>2. Oldest.cwd = transitions[t].to /\ Oldest.contract = transitions[t].contract
        BY <2>3, <4>1 DEF IsPlaced
      <4>3. CASE Looked(a)  BY <3>2, <4>1, <4>2, <4>3 DEF Looked
      <4>4. CASE Resumed(a)  BY <3>2, <4>1, <4>2, <4>4 DEF Resumed
      <4> QED BY <2>2, <4>1, <4>3, <4>4 DEF Outcome, Created, Begun, Filed, Deleted, StartMethods
    <3>3. CASE ~(a.call = c /\ a.result = "ok")
      <4>1. Heeds(c, {"ok"})  BY <1>1, <2>2, <2>4, <3>3 DEF Heeds
      <4>2. \A r \in Sent : r.call # c
        <5>1. CASE reply[c] # Null /\ reply[c].result = "ok"
          <6>1. ~Open(c)  BY <2>4, <5>1 DEF Open
          <6> QED BY <1>1, <6>1, NotOpenSent
        <5>2. CASE \E e \in Answers : e.call = c  BY <1>1, <5>2 DEF OneEach
        <5> QED BY <4>1, <5>1, <5>2 DEF Heeds
      <4>3. Looking(c)
        <5>1. CallOK(c)  BY <1>1 DEF Control
        <5> QED BY <2>4, <5>1 DEF Looking, Active, CallOK, InPlace
      <4>4. ~(Oldest.thread = t /\ Oldest.method \in Effects \cup {"resume"})
        BY <1>1, <2>3, <2>4, <4>2, <4>3, QuietAnswered
      <4>5. sourceCwd'[t] = sourceCwd[t] /\ reported'[t] = reported[t]
        <5>1. CASE Created(a)
          <6>1. sourceCwd[t] # Null  BY <3>1 DEF Existed, Traced, Marked
          <6> QED BY <1>1, <3>1, <5>1, <6>1 DEF Created, SourceTypeOK
        <5>2. CASE Begun(a)  BY <1>1, <3>1, <4>4, <5>2 DEF Begun, SourceTypeOK, Effects
        <5>3. CASE Resumed(a)  BY <1>1, <3>1, <4>4, <5>3 DEF Resumed, SourceTypeOK, Effects
        <5> QED BY <2>2, <5>1, <5>2, <5>3 DEF Outcome, Looked, Filed, Deleted
      <4> QED BY <2>4, <4>1, <4>5 DEF Switched
    <3> QED BY <3>2, <3>3
  <2> QED BY <1>1, <2>4 DEF Switched
<1>3. CASE ~Serve
  <2>1. PICK t \in Threads : CompleteTurn(t) \/ \E u \in ForeignTurns : StartForeignTurn(t, u)
    BY <1>3 DEF Source
  <2>2. PICK n \in TurnNotification : n \in Event /\ n.type # "answer" /\ Emit(<<n>>)
    BY <1>1, <2>1, TurnsEmit
  <2>3. UNCHANGED <<reported, sourceCwd>>
    BY <2>1 DEF CompleteTurn, StartForeignTurn
  <2>4. UNCHANGED Answers
    BY <1>1, <2>2, NotifyElements DEF Pipe, OneEach
  <2> QED BY <1>1, <2>3, <2>4 DEF Switched, Heeds
<1> QED BY <1>2, <1>3

\* A committed transition leads to where the thread is loaded.
LEMMA CommitLands ==
  ASSUME Switched, NEW c \in Calls, NEW t, Commits(c, t)
  PROVE  sourceCwd[t] = transitions[t].to /\ reported[t] = transitions[t].contract
BY DEF Switched, Commits, Heeds

LEMMA StepLocated ==
  ASSUME Deletion, Newborn, Settled, RowKnown, Switched, LocationAgrees, NEW c \in Calls, Step(c)
  PROVE  LocationAgrees'
<1>1. /\ Typed /\ Control /\ TypeOK /\ StoreTypeOK /\ SourceTypeOK /\ UNCHANGED <<known, sourceCwd>>
  BY StepSource DEF Deletion, Typed, Control, TypeOK
<1>2. ASSUME NEW t \in known, association'[t] # Null, sourceCwd[t] # association'[t]
      PROVE  transitions'[t] # Null /\ transitions'[t].state # "preparing"
  <2>1. t \in Threads  BY <1>1 DEF SourceTypeOK
  <2>2. ~Commits(c, t)
    <3>1. ASSUME Commits(c, t)  PROVE FALSE
      <4>1. sourceCwd[t] = transitions[t].to  BY <3>1, CommitLands
      <4> QED BY <1>2, <3>1, <4>1 DEF Commits
    <3> QED BY <3>1
  <2>3. association'[t] = association[t]
    <3>1. ASSUME association'[t] # association[t]  PROVE FALSE
      <4>1. Forgets(c, t) \/ Indexes(c, t) \/ Binds(c, t)  BY <1>1, <2>1, <2>2, <3>1, StepPlaces
      <4>2. ~Forgets(c, t)  BY <1>2 DEF Forgets
      <4>3. ~Indexes(c, t)
        <5>1. ASSUME Indexes(c, t)  PROVE FALSE
          <6>1. Carries(c, t)  BY <5>1 DEF Indexes, Carries, Brought, Answered
          <6>2. sourceCwd[t] = workspace[c]  BY <2>1, <6>1 DEF Newborn
          <6> QED BY <1>2, <3>1, <5>1, <6>2 DEF Indexes
        <5> QED BY <5>1
      <4>4. ~Binds(c, t)  BY <1>1, <1>2, <2>1, <3>1, BindsNothing DEF Gone
      <4> QED BY <4>1, <4>2, <4>3, <4>4
    <3> QED BY <3>1
  <2>4. transitions[t] # Null /\ transitions[t].state # "preparing"
    BY <1>2, <2>3 DEF LocationAgrees
  <2>5. CASE transitions'[t] = transitions[t]  BY <2>4, <2>5
  <2>6. CASE transitions'[t] # transitions[t]
    <3>1. Shifts(c, t)  BY <1>1, <2>1, <2>6, StepShifts
    <3>2. transitions[t] \in Transition  BY <1>1, <2>1, <2>4 DEF StoreTypeOK
    <3>3. CASE transitions'[t] = [transitions[t] EXCEPT !.state = "uncertain"]
      <4>1. transitions'[t] \in Transition /\ transitions'[t].state = "uncertain"
        BY <3>2, <3>3 DEF Transition, TransitionStates
      <4> QED BY <4>1
    <3>4. CASE pc[c] = "selectRead" /\ transitions'[t] = [transitions[t] EXCEPT !.state = "submitting", !.contract = contract[c]]
      <4>1. contract[c] \in Contracts \cup {Null}  BY <1>1 DEF TypeOK
      <4>2. transitions'[t] \in Transition /\ transitions'[t].state = "submitting"
        BY <3>2, <3>4, <4>1 DEF Transition, TransitionStates
      <4> QED BY <4>2
    <3> QED BY <2>2, <2>4, <3>1, <3>3, <3>4 DEF Shifts
  <2> QED BY <2>5, <2>6
<1> QED BY <1>1, <1>2 DEF LocationAgrees

LEMMA HushedLocated ==
  ASSUME SourceTypeOK, LocationAgrees, Rests, Hushed
  PROVE  LocationAgrees'
BY DEF SourceTypeOK, LocationAgrees, Rests, Pauses, Hushed

\* A turn and a resume load the thread where the tables have it, a switch where
\* its dispatched transition leads.
LEMMA SourceLocated ==
  ASSUME Deletion, Existed, PlacedRequests, LocationAgrees, Source
  PROVE  LocationAgrees'
<1>1. /\ Typed /\ Control /\ Pipe /\ SourceTypeOK /\ UNCHANGED <<association, transitions>>
  BY DEF Deletion, Typed, Control, TypeOK, Source, storeVars
<1>2. CASE Serve
  <2>1. Served  BY <1>1, <1>2, ServeOutcome
  <2>2. PICK a \in Answer : a.call = Oldest.call /\ Answers' = Answers \cup {a} /\ Outcome(a)
    BY <2>1 DEF Served
  <2>3. IsPlaced(Oldest) /\ Oldest.thread \in Threads \cup {Null}
    BY <1>1, <2>1 DEF Served, Request, PlacedRequests
  <2>4. ASSUME NEW t \in known', association[t] # Null, sourceCwd'[t] # association[t]
        PROVE  transitions[t] # Null /\ transitions[t].state # "preparing"
    <3>1. CASE Created(a)
      <4>1. sourceCwd[a.thread] = Null /\ a.thread \in Threads  BY <3>1 DEF Created
      <4>3. association[a.thread] = Null  BY <4>1 DEF Existed, Traced
      <4>2. t # a.thread  BY <2>4, <4>3
      <4> QED BY <1>1, <2>4, <3>1, <4>2 DEF Created, SourceTypeOK, LocationAgrees
    <3>2. CASE Begun(a)
      <4>1. CASE t = Oldest.thread /\ Oldest.method = "turn"
        <5>1. ~Gone(t)  BY <3>2, <4>1 DEF Begun, Idle, Gone
        <5>2. association[t] = Oldest.cwd  BY <2>3, <4>1, <5>1 DEF IsPlaced
        <5> QED BY <1>1, <2>4, <3>2, <4>1, <5>2 DEF Begun, SourceTypeOK
      <4> QED BY <1>1, <2>4, <3>2, <4>1 DEF Begun, SourceTypeOK, LocationAgrees
    <3>3. CASE Resumed(a)
      <4>1. CASE t = Oldest.thread /\ Oldest.method = "resume"
        <5>1. ~Gone(t)  BY <3>3, <4>1 DEF Resumed, Idle, Gone
        <5>2. association[t] = Oldest.cwd  BY <2>3, <4>1, <5>1 DEF IsPlaced
        <5>3. sourceCwd'[t] = sourceCwd[t] /\ t \in known  BY <2>4, <3>3, <4>1, <5>2 DEF Resumed
        <5> QED BY <2>4, <5>3 DEF LocationAgrees
      <4>2. CASE t = Oldest.thread /\ Oldest.method = "switch"  BY <2>3, <4>2 DEF IsPlaced
      <4> QED BY <1>1, <2>4, <3>3, <4>1, <4>2 DEF Resumed, SourceTypeOK, LocationAgrees
    <3> QED BY <2>2, <2>4, <3>1, <3>2, <3>3 DEF Outcome, Looked, Filed, Deleted, LocationAgrees
  <2> QED BY <1>1, <2>4 DEF LocationAgrees
<1>3. CASE ~Serve
  BY <1>1, <1>3 DEF Source, CompleteTurn, StartForeignTurn, LocationAgrees
<1> QED BY <1>2, <1>3

\* What a list said of a thread without a row holds as long as nobody may move the
\* thread, and nobody may before it has a row.
LEMMA StepListings ==
  ASSUME Deletion, Listings, NEW c \in Calls, Step(c)
  PROVE  Listings'
<1>1. Control /\ UNCHANGED <<known, sourceCwd, listed>> /\ \A e \in listed : e.thread \in Threads
  BY StepSource, StepRests DEF Deletion, Typed, Control, TypeOK, Listing
<1>2. \A t \in known : association'[t] = Null /\ t \in Threads => association[t] = Null
  BY StepGone DEF Gone
<1> QED BY <1>1, <1>2 DEF Listings

LEMMA HushedListings ==
  ASSUME Control, Listings, Rests, Hushed
  PROVE  Listings'
<1>1. \A e \in listed : e.thread \in Threads  BY DEF Control, TypeOK, Listing
<1> QED BY <1>1 DEF Listings, Rests, Hushed, Gone

LEMMA SourceListings ==
  ASSUME Deletion, TransitionExclusive, Existed, PlacedRequests, Listings, Source
  PROVE  Listings'
<1>1. /\ Typed /\ Control /\ Pipe /\ SourceTypeOK /\ StoreTypeOK /\ UNCHANGED <<association, transitions, listed>>
      /\ \A e \in listed : e.thread \in Threads /\ sourceCwd[e.thread] # Null
  BY DEF Deletion, Typed, Control, TypeOK, Source, storeVars, Still, Uneventful, Listing, Existed
<1>2. CASE Serve
  <2>1. Served  BY <1>1, <1>2, ServeOutcome
  <2>2. PICK a \in Answer : a.call = Oldest.call /\ Answers' = Answers \cup {a} /\ Outcome(a)
    BY <2>1 DEF Served
  <2>3. IsPlaced(Oldest) /\ Matches(Oldest) /\ Oldest.thread \in Threads \cup {Null}
    BY <1>1, <2>1 DEF Served, Request, PlacedRequests, Pipe
  <2>4. ASSUME NEW t \in Threads, t \in known', association[t] = Null, sourceCwd[t] # Null
        PROVE  t \in known /\ sourceCwd'[t] = sourceCwd[t]
    <3>1. transitions[t] = Null
      <4>1. ASSUME transitions[t] # Null  PROVE FALSE
        <5>1. transitions[t] \in Transition  BY <1>1, <4>1 DEF StoreTypeOK
        <5>2. transitions[t].from = Null  BY <2>4, <4>1 DEF TransitionExclusive
        <5> QED BY <5>1, <5>2 DEF Transition
      <4> QED BY <4>1
    <3>2. CASE Created(a)  BY <1>1, <2>4, <3>2 DEF Created, SourceTypeOK
    <3>3. CASE Begun(a)
      <4>1. ~(t = Oldest.thread /\ Oldest.method = "turn")
        BY <2>3, <2>4, <3>3 DEF IsPlaced, Matches, Begun, Idle, Gone
      <4> QED BY <1>1, <2>4, <3>3, <4>1 DEF Begun, SourceTypeOK
    <3>4. CASE Resumed(a)
      <4>1. t # Oldest.thread
        BY <2>3, <2>4, <3>1, <3>4 DEF IsPlaced, Matches, Resumed, Idle, Gone
      <4> QED BY <1>1, <2>4, <3>4, <4>1 DEF Resumed, SourceTypeOK
    <3> QED BY <2>2, <2>4, <3>2, <3>3, <3>4 DEF Outcome, Looked, Filed, Deleted
  <2> QED BY <1>1, <2>4 DEF Listings
<1>3. CASE ~Serve
  BY <1>1, <1>3 DEF Source, CompleteTurn, StartForeignTurn, Listings
<1> QED BY <1>2, <1>3

\* A list step gives a thread without a row the place the list said, and takes the
\* row of none that is not gone.
ListsPlace ==
  \A t \in Threads :
    \/ association'[t] = association[t]
    \/ association'[t] = Null /\ Gone(t)
    \/ association[t] = Null /\ \E e \in listed : e.thread = t /\ association'[t] = e.workspace

ListsSay ==
  \A e \in listed' :
    e \in listed \/ (/\ e.thread \in known /\ e.workspace = sourceCwd[e.thread] /\ e.workspace # Null
                    /\ \A a \in Answers : a.thread # e.thread)

LEMMA ListsRests ==
  ASSUME Control, Existed, Lists
  PROVE  /\ UNCHANGED <<reservations, transitions, sourceVars, callVars, Sent, Heard, Answers>>
         /\ Pauses /\ Hushed /\ ListsPlace /\ ListsSay
<1>1. UNCHANGED <<sourceVars, callVars>> /\ TypeOK /\ StoreTypeOK /\ UNCHANGED <<Sent, Heard, Answers>>
  BY ListsEffect, SameElements DEF Control, TypeOK
<1>2. /\ UNCHANGED <<reservations, transitions>>
      /\ UNCHANGED association
           \/ (\E entry \in listed : entry \in Listing /\ WriteIndex(entry.thread, entry.workspace, entry.archived))
           \/ (\E t \in Threads : t \notin known /\ association[t] # Null /\ ForgetThread(t))
      /\ UNCHANGED listed
           \/ (\E t \in known :
                 /\ sourceCwd[t] # Null /\ \A i \in 1..Len(events) : events[i].type = "answer" => events[i].thread # t
                 /\ listed' = listed \cup {[thread |-> t, workspace |-> sourceCwd[t], archived |-> sourceArchived[t]]})
  BY ListsEffect DEF WriteIndex, ForgetThread, storeVars
<1>3. ListsPlace
  <2>1. CASE UNCHANGED association  BY <2>1 DEF ListsPlace
  <2>2. ASSUME NEW entry \in listed, entry \in Listing, WriteIndex(entry.thread, entry.workspace, entry.archived)
        PROVE  ListsPlace
    BY <1>1, <2>2 DEF WriteIndex, ListsPlace, Listing, StoreTypeOK
  <2>3. ASSUME NEW u \in Threads, u \notin known, association[u] # Null, ForgetThread(u)  PROVE ListsPlace
    <3>1. Gone(u)  BY <2>3 DEF Existed, Traced, Gone
    <3> QED BY <1>1, <2>3, <3>1 DEF ForgetThread, ListsPlace, StoreTypeOK
  <2> QED BY <1>2, <2>1, <2>2, <2>3
<1>4. ListsSay
  <2>1. CASE UNCHANGED listed  BY <2>1 DEF ListsSay
  <2>2. ASSUME NEW t \in known, sourceCwd[t] # Null,
               \A i \in 1..Len(events) : events[i].type = "answer" => events[i].thread # t,
               listed' = listed \cup {[thread |-> t, workspace |-> sourceCwd[t], archived |-> sourceArchived[t]]}
        PROVE  ListsSay
    <3>1. \A a \in Answers : a.thread # t  BY <2>2 DEF Answers, Heard, Elements
    <3> QED BY <2>2, <3>1 DEF ListsSay
  <2> QED BY <1>2, <2>1, <2>2
<1>5. Pauses
  <2>1. \A i \in Calls : reservations'[i] # Null =>
       /\ Live(i) /\ SameRow(reservations'[i], Row(i))
       /\ reservations'[i].state = "preparing" <=> Row(i).state = "preparing"
    BY <1>2 DEF Live, Row, SameRow
  <2> QED BY <1>1, <1>2, <1>3, <2>1 DEF Pauses, ListsPlace, sourceVars, callVars, Gone
<1>6. Hushed  BY <1>1 DEF Hushed, sourceVars, callVars
<1> QED BY <1>1, <1>2, <1>3, <1>4, <1>5, <1>6

LEMMA ListsPlaced ==
  ASSUME Control, Existed, Newborn, Listings, LocationAgrees, Lists
  PROVE  Existed' /\ Newborn' /\ Listings' /\ LocationAgrees'
<1>1. /\ UNCHANGED <<transitions, pc, reply, workspace, known, sourceCwd, sourceArchived, Answers>>
      /\ Pauses /\ ListsPlace /\ ListsSay /\ SourceTypeOK
      /\ \A e \in listed : e \in Listing /\ e.thread \in Threads
  BY ListsRests DEF sourceVars, callVars, Control, TypeOK, Listing
<1>2. \A t \in Threads : Marked(t)' => Marked(t)  BY <1>1, PauseMarked
<1>3. Existed'
  <2>1. ASSUME NEW t \in Threads, Traced(t)'  PROVE sourceCwd[t] # Null
    <3>1. CASE Marked(t)'  BY <1>2, <3>1 DEF Existed, Traced
    <3>2. CASE association'[t] # Null
      BY <1>1, <3>2 DEF ListsPlace, Existed, Traced
    <3> QED BY <2>1, <3>1, <3>2 DEF Traced
  <2>2. \A t \in Threads : Traced(t)' => sourceCwd[t] # Null  BY <2>1
  <2>3. \A e \in listed' : sourceCwd[e.thread] # Null  BY <1>1 DEF ListsSay, Existed
  <2> QED BY <1>1, <2>2, <2>3 DEF Existed
<1>4. ASSUME NEW d \in Calls, NEW t \in Threads, Carries(d, t)'
      PROVE  /\ ~Marked(t)' /\ sourceCwd'[t] = workspace'[d] /\ t \in known' /\ ~sourceArchived'[t]
             /\ association'[t] # Null => association'[t] = workspace'[d] /\ Brought(d, t)'
             /\ \A e \in listed' : e.thread = t => e.workspace = workspace'[d] /\ Brought(d, t)'
             /\ \A a \in Calls : Carries(a, t)' => d = a
  <2>1. \A a \in Calls : (Carries(a, t)' <=> Carries(a, t)) /\ (Brought(a, t)' <=> Brought(a, t))
    BY <1>1 DEF Carries, Brought, Answered
  <2>2. Carries(d, t)  BY <1>4, <2>1
  <2>3. association'[t] # Null => association'[t] = workspace[d] /\ Brought(d, t)
    BY <1>1, <2>2 DEF ListsPlace, Newborn
  <2>4. \A e \in listed' : e.thread = t => e.workspace = workspace[d] /\ Brought(d, t)
    <3>1. ASSUME NEW e \in listed', e.thread = t  PROVE e.workspace = workspace[d] /\ Brought(d, t)
      <4>1. CASE e \in listed  BY <2>2, <3>1, <4>1 DEF Newborn
      <4>2. CASE e \notin listed
        BY <1>1, <2>2, <3>1, <4>2 DEF ListsSay, Newborn, Carries
      <4> QED BY <4>1, <4>2
    <3> QED BY <3>1
  <2> QED BY <1>1, <1>2, <2>1, <2>2, <2>3, <2>4 DEF Newborn
<1>5. Newborn'  BY <1>4 DEF Newborn
<1>6. Listings'
  <2>1. ASSUME NEW e \in listed', e.thread \in known, association'[e.thread] = Null
        PROVE  e.workspace = sourceCwd[e.thread]
    <3>1. CASE e \in listed
      <4>1. association[e.thread] = Null  BY <1>1, <2>1, <3>1 DEF Pauses, Gone
      <4> QED BY <2>1, <3>1, <4>1 DEF Listings
    <3>2. CASE e \notin listed  BY <1>1, <2>1, <3>2 DEF ListsSay
    <3> QED BY <3>1, <3>2
  <2> QED BY <1>1, <2>1 DEF Listings
<1>7. LocationAgrees'
  <2>1. ASSUME NEW t \in known, association'[t] # Null, sourceCwd[t] # association'[t]
        PROVE  transitions[t] # Null /\ transitions[t].state # "preparing"
    <3>1. t \in Threads  BY <1>1 DEF SourceTypeOK
    <3>2. association'[t] = association[t]
      BY <1>1, <2>1, <3>1 DEF ListsPlace, Listings
    <3> QED BY <2>1, <3>2 DEF LocationAgrees
  <2> QED BY <1>1, <2>1 DEF LocationAgrees
<1> QED BY <1>3, <1>5, <1>6, <1>7

\* What it takes to know where a thread is.
Placed ==
  /\ Recoverable /\ Deletion
  /\ Existed /\ Newborn /\ Listings /\ Settled /\ RowKnown
  /\ Quiet /\ HeldOperation /\ PlacedRequests
  /\ Switching /\ Switched /\ LocationAgrees

LEMMA PlacedStep ==
  ASSUME Placed, [Next]_vars
  PROVE  Placed'
<1>1. /\ Recoverable /\ Deletion /\ Existed /\ Newborn /\ Listings /\ Settled /\ RowKnown
      /\ Quiet /\ HeldOperation /\ PlacedRequests
      /\ Switching /\ Switched /\ LocationAgrees
      /\ Typed /\ StoreInv /\ TransitionExclusive /\ HeldRow /\ Control /\ SourceTypeOK
  BY DEF Placed, Recoverable, StoreInv, Listed, Typed, Control, TypeOK
<1>2. Recoverable' /\ Deletion'  BY <1>1, RecoverableStep, DeletionStep
<1>3. ASSUME NEW c \in Calls, MayRun(c), Step(c)  PROVE Placed'
  <2>1. Existed' /\ Newborn' /\ Listings' /\ RowKnown'
    BY <1>1, <1>3, StepExisted, StepNewborn, StepListings, StepRowKnown
  <2>2. Settled'  BY <1>1, <1>3, StepSettled
  <2>3. Quiet' /\ HeldOperation'  BY <1>1, <1>3, StepQuiet, StepHeldOperation
  <2>4. PlacedRequests'  BY <1>1, <1>3, StepPlaced
  <2>5. Switching' /\ Switched' /\ LocationAgrees'  BY <1>1, <1>3, StepSwitching, StepSwitched, StepLocated
  <2> QED BY <1>2, <2>1, <2>2, <2>3, <2>4, <2>5 DEF Placed
<1>4. ASSUME Pauses  PROVE Settled' /\ RowKnown' /\ Quiet' /\ HeldOperation' /\ PlacedRequests' /\ Switching'
  BY <1>1, <1>4, RestSettled, RestRowKnown, RestQuiet, RestHeldOperation, RestPlaced, RestSwitching
<1>5. ASSUME Rests, Hushed  PROVE Placed'
  <2>1. Existed'  BY <1>1, <1>5, RestExisted DEF Hushed
  <2>2. Newborn' /\ Listings' /\ LocationAgrees'  BY <1>1, <1>5, HushedNewborn, HushedListings, HushedLocated
  <2>3. Pauses  BY <1>5 DEF Rests, Pauses
  <2>4. Switched'  BY <1>1, <1>5, <2>3, HushedSwitched
  <2> QED BY <1>2, <1>4, <2>1, <2>2, <2>3, <2>4 DEF Placed
<1>6. ASSUME Source  PROVE Placed'
  <2>1. Pauses  BY <1>1, <1>6, SourceRests DEF Rests, Pauses
  <2>2. Existed' /\ Newborn' /\ Listings'  BY <1>1, <1>6, SourceNewborn, SourceListings
  <2>3. Switched' /\ LocationAgrees'  BY <1>1, <1>6, SourceSwitched, SourceLocated
  <2> QED BY <1>2, <1>4, <2>1, <2>2, <2>3 DEF Placed
<1>7. ASSUME \A c \in Calls : ~Queued(c), Deliver  PROVE Placed'
  BY <1>1, <1>5, <1>7, DeliverRests
<1>8. ASSUME (\E c \in Calls : Timeout(c)) \/ SourceExit \/ Crash \/ UNCHANGED vars  PROVE Placed'
  BY <1>1, <1>5, <1>8, OtherRests
<1>9. ASSUME Lists  PROVE Placed'
  <2>1. Pauses /\ Hushed  BY <1>1, <1>9, ListsRests
  <2>2. Existed' /\ Newborn' /\ Listings' /\ LocationAgrees'  BY <1>1, <1>9, ListsPlaced
  <2>3. Switched'  BY <1>1, <2>1, HushedSwitched
  <2> QED BY <1>2, <1>4, <2>1, <2>2, <2>3 DEF Placed
<1> QED BY <1>3, <1>6, <1>7, <1>8, <1>9 DEF Next

LEMMA PlacedInit == Init => Placed
<1> SUFFICES ASSUME Init PROVE Placed
  OBVIOUS
<1>1. Recoverable /\ Deletion  BY RecoverableInit, DeletionInit
<1>2. /\ Sent = {} /\ Answers = {} /\ \A c \in Calls : pc[c] = "idle" /\ reply[c] = Null /\ held[c] = Null /\ ~Live(c)
      /\ \A t \in Threads : transitions[t] = Null /\ sourceCwd[t] = association[t] /\ ~sourceArchived[t]
      /\ \A c \in Calls : work[c].items = {}
      /\ requests = <<>> /\ listed = {}
  BY ElementsEmpty DEF Init, StoreInit, SourceInit, Sent, Answers, Heard, Live, Row, NoWork
<1>3. \A t \in Threads : Traced(t) => sourceCwd[t] # Null
  BY <1>2 DEF Traced, Marked, Touches, Active, ReservedBy
<1>4. Existed  BY <1>2, <1>3 DEF Existed
<1>5. Newborn /\ Listings /\ Settled /\ RowKnown /\ HeldOperation /\ PlacedRequests /\ Switching /\ Switched
  BY <1>2 DEF Newborn, Listings, Carries, Brought, Answered, Settled, Settling, RowKnown, HeldOperation, PlacedRequests, Switching, Switched
<1>6. Quiet  BY <1>2 DEF Quiet
<1>7. LocationAgrees  BY <1>2 DEF LocationAgrees, Init, SourceInit
<1> QED BY <1>1, <1>4, <1>5, <1>6, <1>7 DEF Placed

\* What every call, request and answer says of the place of a thread holds, however
\* late it is acted on.
THEOREM PlacesHold == Spec => []Placed
BY PlacedInit, PlacedStep, PTL DEF Spec

\* LocationAgrees: the source has a thread loaded elsewhere than the tables say
\* only while a transition that was sent to the source blocks the thread.
THEOREM LocationsAgree == Spec => []LocationAgrees
BY PlacesHold, PTL DEF Placed

\* CommittedIsReported: a selection or its recovery is committed only when the source
\* has loaded the thread in that place under that contract.
THEOREM CommittedWasReported == Spec => CommittedIsReported
<1> DEFINE Lands == \A t \in Threads :
       transitions[t] # Null /\ transitions'[t] = Null /\ association'[t] = transitions[t].to
         /\ transitions[t].from # transitions[t].to
       => sourceCwd[t] = transitions[t].to /\ reported[t] = transitions[t].contract
<1>1. ASSUME Placed, [Next]_vars, NEW t \in Threads,
             transitions[t] # Null, transitions'[t] = Null, association'[t] = transitions[t].to,
             transitions[t].from # transitions[t].to
      PROVE  sourceCwd[t] = transitions[t].to /\ reported[t] = transitions[t].contract
  <2>1. Control /\ Typed /\ Switched /\ TransitionExclusive /\ Deletion
    BY <1>1 DEF Placed, Recoverable, Typed, StoreInv
  <2>2. association'[t] # association[t]  BY <1>1, <2>1 DEF TransitionExclusive
  <2>3. ASSUME NEW c \in Calls, Step(c)  PROVE Commits(c, t)
    <3>1. Forgets(c, t) \/ Indexes(c, t) \/ Binds(c, t) \/ Commits(c, t)  BY <2>1, <2>2, <2>3, StepPlaces
    <3>2. ~Indexes(c, t)
      BY <1>1, <2>1 DEF Placed, Newborn, Marked, Carries, Brought, Answered, Indexes
    <3>3. ~Binds(c, t)  BY <1>1, <2>2 DEF Binds, CanBind
    <3> QED BY <1>1, <3>1, <3>2, <3>3 DEF Forgets
  <2>4. \E c \in Calls : Step(c)
    <3>1. ASSUME Deliver, \A c \in Calls : ~Queued(c)  PROVE FALSE
      BY <1>1, <2>1, <3>1, DeliverRests DEF Rests, Pauses
    <3>2. ASSUME (\E c \in Calls : Timeout(c)) \/ SourceExit \/ Crash \/ UNCHANGED vars  PROVE FALSE
      BY <1>1, <2>1, <3>2, OtherRests DEF Rests, Pauses
    <3>3. ASSUME Source  PROVE FALSE  BY <1>1, <3>3 DEF Source, storeVars
    <3>4. ASSUME Lists  PROVE FALSE  BY <1>1, <2>1, <3>4, ListsRests DEF Placed
    <3> QED BY <1>1, <3>1, <3>2, <3>3, <3>4 DEF Next
  <2> QED BY <2>1, <2>3, <2>4, CommitLands
<1>2. Placed /\ [Next]_vars => [Lands]_vars
  BY <1>1
<1> QED BY <1>2, PlacesHold, PTL DEF Spec, CommittedIsReported

----------------------------------------------------------------------------
(* The evidence of turns.                                                  *)

\* Which steps write contexts: an acknowledgement, and the cleanup of a deletion.
LEMMA StepContexts ==
  ASSUME Typed, NEW c \in Calls, Step(c), NEW t \in Threads, NEW u \in Turns, contexts'[t][u] \notin {Null, contexts[t][u]}
  PROVE  /\ u = c /\ pc[c] = "await" /\ kind[c] \in {"turn", "implicit"} /\ reply[c] # Null /\ reply[c].result = "ok"
         /\ Live(c) /\ Row(c).thread = t /\ contexts'[t][u] = Row(c).workspace
<1>1. /\ Control /\ TypeOK /\ StoreTypeOK /\ RowOK(c) /\ CallOK(c)
  BY DEF Typed, Control, TypeOK, Rows
<1>2. contexts' # contexts  OBVIOUS
<1>3. pc[c] # "idle"  BY <1>1, <1>2, StepRetains DEF Retains, storeVars
<1>4. ~Forget(c)
  BY <1>1 DEF Forget, ForgetThread, StoreTypeOK
<1>5. Run(c) => AcknowledgeTurn(c) \/ AcknowledgeMaintained(c)
  <2>1. ~ReserveRun(c) /\ ~ReserveRefused(c) /\ ~RecoverRollback(c) /\ ~CheckIdle(c) /\ ~FailRun(c)
    BY <1>2 DEF ReserveRun, Reserve, ReserveRefused, RecoverRollback, Release, CheckIdle, FailRun, Fail, ChangeReservations, storeVars
  <2>2. ~CreateThread(c) /\ ~IndexThread(c) /\ ~ConfirmThread(c)
    BY <1>2 DEF CreateThread, SubmittingCreation, IndexThread, WriteIndex, ConfirmThread, ConfirmCreation, ChangeReservations, storeVars
  <2>3. ~Bind(c) /\ ~Submit(c) /\ ~Maintain(c) /\ ~FinishTurn(c)
    BY <1>2 DEF Bind, BindThread, Submit, Submitting, Maintain, FinishTurn, ChangeReservations, storeVars
  <2>4. ASSUME NEW k, NEW s, NEW w, StartRun(c, k, s, w)  PROVE FALSE  BY <1>3, <2>4 DEF StartRun
  <2> QED BY <2>1, <2>2, <2>3, <2>4 DEF Run
<1>6. ~Catalog(c)
  <2>1. ~ReserveCatalog(c) /\ ~SubmitCatalog(c) /\ ~CatalogAnswered(c) /\ ~FailCatalog(c) /\ ~ReleaseCatalog(c)
    BY <1>2 DEF ReserveCatalog, Reserve, SubmitCatalog, Submitting, CatalogAnswered, ConfirmDeletion, File, WriteArchiveState, FailCatalog, Fail,
       ReleaseCatalog, Release, ChangeReservations, storeVars
  <2>2. ASSUME NEW k, NEW s, StartCatalog(c, k, s)  PROVE FALSE  BY <1>3, <2>2 DEF StartCatalog
  <2> QED BY <1>4, <2>1, <2>2 DEF Catalog
<1>7. ~Select(c)
  <2>1. ~SelectIdle(c) /\ ~SelectBegin(c) /\ ~SelectPrepare(c) /\ ~SubmitSwitch(c) /\ ~CommitSwitch(c) /\ ~FailSwitch(c)
    BY <1>2 DEF SelectIdle, SelectBegin, BeginTransition, SelectPrepare, SubmitSwitch, SubmittingTransition, CommitSwitch, CommitTransition,
       FailSwitch, FailTransition, ChangeTransitions, storeVars
  <2>2. ASSUME NEW w, NEW s, StartSelect(c, s, w)  PROVE FALSE  BY <1>3, <2>2 DEF StartSelect
  <2> QED BY <2>1, <2>2 DEF Select
<1>8. ~Recover(c)
  <2>1. ~ReconcileTransition(c) /\ ~ReconcileCatalog(c) /\ ~ArchiveVerified(c) /\ ~ReconcileExecution(c) /\ ~ReleaseIdle(c) /\ ~TreatItems(c)
    BY <1>2 DEF ReconcileTransition, FailTransition, ChangeTransitions, ReconcileCatalog, Release, ArchiveVerified, File, WriteArchiveState,
       ReconcileExecution, ReleaseIdle, TreatItems, ChangeReservations, storeVars
  <2>2. ASSUME NEW w, StartReconcileWorkspace(c, w)  PROVE FALSE  BY <1>3, <2>2 DEF StartReconcileWorkspace
  <2>3. ASSUME NEW s, StartReconcile(c, s)  PROVE FALSE  BY <1>3, <2>3 DEF StartReconcile
  <2> QED BY <2>1, <2>2, <2>3 DEF Recover
<1>9. AcknowledgeTurn(c) \/ AcknowledgeMaintained(c)  BY <1>5, <1>6, <1>7, <1>8 DEF Step
<1>10. Acknowledge(c, c) /\ pc[c] = "await" /\ reply[c] # Null /\ reply[c].result = "ok"
  BY <1>2, <1>9 DEF AcknowledgeTurn, AcknowledgeMaintained, AcknowledgeMaintenance, ChangeReservations, Answered
<1>11. Row(c) \in Reservation /\ Live(c)  BY <1>1, <1>10, LiveRow DEF Acknowledge, CanAcknowledge
<1>12. /\ Acknowledged(c, c).operation = Row(c).operation /\ Acknowledged(c, c).thread = Row(c).thread
       /\ Acknowledged(c, c).workspace = Row(c).workspace /\ Acknowledged(c, c).turn = c
  BY <1>11 DEF Acknowledged, Reservation
<1>13. /\ Row(c).operation = "turn" /\ Row(c).thread \in Threads
       /\ contexts' = [contexts EXCEPT ![Row(c).thread][c] = Row(c).workspace]
  BY <1>2, <1>10, <1>11, <1>12 DEF Acknowledge, CaptureContext, HasContext, Reservation
<1>14. Row(c).thread = t /\ u = c /\ contexts'[t][u] = Row(c).workspace
  BY <1>1, <1>13 DEF StoreTypeOK
<1>15. kind[c] \in {"turn", "implicit"}
  BY <1>1, <1>10, <1>11, <1>13 DEF RowOK, Operation, MaintenanceKinds, CatalogKinds, RunKinds, CallOK, InPlace
<1> QED BY <1>10, <1>11, <1>14, <1>15

StartKinds == {"turn", "implicit", "review", "compact"}
TurnEvent(e) == e.type \in {"started", "completed"}

\* What the source has started for a call it has no other start request of.
StartedOnce == \A c \in Calls : c \in started =>
  /\ kind[c] \in StartKinds /\ pc[c] \in {"await", "after", "done"}
  /\ \A r \in Sent : r.call = c => r.method \notin StartMethods

\* Everything that says that a turn ran.
Traces ==
  /\ \A t \in Threads : running[t] # Null => running[t] \in started /\ t \in known
  /\ \A e \in Heard : TurnEvent(e) => e.turn \in started
  /\ \A t \in Threads, u \in Turns : contexts[t][u] # Null => u \in started
  /\ \A c \in Calls : pc[c] = "await" /\ kind[c] \in {"turn", "implicit"} /\ Heeds(c, {"ok"}) => c \in started

LEMMA StepStartedOnce ==
  ASSUME Typed, StartedOnce, NEW a \in Calls, Step(a)
  PROVE  StartedOnce'
<1>1. /\ Control /\ TypeOK /\ SourceTypeOK /\ Pipe /\ OthersKeep(a) /\ UNCHANGED started /\ Retains(a) /\ CallOK(a)
  BY StepMoved, StepSource, StepRetains DEF Typed, Control, TypeOK, Moved
<1>2. ASSUME a \in started  PROVE pc'[a] \in {"after", "done"} /\ kind'[a] = kind[a] /\ UNCHANGED requests
  <2>1. kind[a] \in StartKinds /\ pc[a] \in {"await", "after"}
    BY <1>1, <1>2, StepLeads DEF StartedOnce, Leads
  <2>2. pc'[a] \in {"after", "done"}
    <3>1. kind[a] \notin CatalogKinds /\ kind[a] \notin Reconciles /\ kind[a] # "select"
      BY <2>1 DEF StartKinds, CatalogKinds, Reconciles
    <3>2. kind'[a] = kind[a]  BY <1>1, <2>1 DEF Retains
    <3>3. ~CatalogAnswered(a) /\ ~FailCatalog(a)  BY <3>1 DEF CatalogAnswered, FailCatalog
    <3>4. AcknowledgeTurn(a) \/ AcknowledgeMaintained(a) \/ FinishTurn(a) \/ FailRun(a)
      BY <2>1, <3>3, StepAt DEF RunAt, CatalogAt, SelectAt, RecoverAt
    <3> QED BY <1>1, <3>4, FinishEffect
            DEF AcknowledgeTurn, AcknowledgeMaintained, FinishTurn, FailRun, Continue, Goto, TypeOK
  <2>3. UNCHANGED requests  BY <2>2, StepSource DEF Waiting
  <2> QED BY <1>1, <2>1, <2>2, <2>3 DEF Retains
<1>3. ASSUME NEW c \in Calls, c \in started
      PROVE  /\ kind'[c] \in StartKinds /\ pc'[c] \in {"await", "after", "done"}
             /\ \A r \in Sent' : r.call = c => r.method \notin StartMethods
  <2>1. CASE c = a  BY <1>2, <1>3, <2>1 DEF StartedOnce, Sent
  <2>2. CASE c # a
    <3>1. \A r \in Sent' : r.call = c => r \in Sent
      BY <1>1, <2>2, StepSource DEF Sent
    <3> QED BY <1>1, <1>3, <2>2, <3>1 DEF StartedOnce, OthersKeep
  <2> QED BY <2>1, <2>2
<1> QED BY <1>1, <1>3 DEF StartedOnce

LEMMA HushedStartedOnce ==
  ASSUME StartedOnce, Pauses, Hushed
  PROVE  StartedOnce'
<1>1. ASSUME NEW c \in Calls, c \in started'
      PROVE  /\ kind'[c] \in StartKinds /\ pc'[c] \in {"await", "after", "done"}
             /\ \A r \in Sent' : r.call = c => r.method \notin StartMethods
  BY <1>1 DEF StartedOnce, Pauses, Hushed
<1> QED BY <1>1 DEF StartedOnce

\* A request to start something is the only one of its call, which awaits it or gave up.
LEMMA StartsOne ==
  ASSUME Typed, NEW r \in Sent, r.method \in StartMethods
  PROVE  r.call \in Calls /\ kind[r.call] \in StartKinds /\ pc[r.call] \in {"await", "done"}
<1>1. Matches(r) /\ Open(r.call) /\ r.call \in Calls
  BY SentTyped DEF Typed, Control, TypeOK, Pipe, OpenCalls, Request
<1>2. kind[r.call] \in StartKinds
  BY <1>1 DEF Matches, StartMethods, StartKinds, MaintenanceKinds
<1>3. pc[r.call] \in {"await", "done"}
  <2>1. ASSUME pc[r.call] # "done"  PROVE pc[r.call] = "await"
    <3>1. pc[r.call] \in Waiting /\ r.method = MethodOf(pc[r.call], kind[r.call])  BY <1>1, <2>1 DEF Open, Matches
    <3> QED BY <3>1 DEF MethodOf, StartMethods, Waiting
  <2> QED BY <2>1
<1> QED BY <1>1, <1>2, <1>3

LEMMA SourceStartedOnce ==
  ASSUME Typed, StartedOnce, Source
  PROVE  StartedOnce'
<1>1. /\ Control /\ Pipe /\ SourceTypeOK /\ UNCHANGED <<pc, kind>> /\ Sent' \subseteq Sent
  BY SourceSent DEF Typed, Control, TypeOK, Source, callVars
<1>2. CASE Serve
  <2>1. Served  BY <1>1, <1>2, ServeOutcome
  <2>2. PICK a \in Answer : a.call = Oldest.call /\ Answers' = Answers \cup {a} /\ Outcome(a)
    BY <2>1 DEF Served
  <2>3. CASE Begun(a)
    <3>1. started' = started \cup {Oldest.call} /\ Oldest \in Sent /\ Oldest.method \in StartMethods
          /\ \A r \in Sent' : r.call # Oldest.call
      BY <2>1, <2>3 DEF Begun, Served
    <3>2. Oldest.call \in Calls /\ kind[Oldest.call] \in StartKinds /\ pc[Oldest.call] \in {"await", "done"}
      BY <3>1, StartsOne
    <3> QED BY <1>1, <3>1, <3>2 DEF StartedOnce
  <2>4. CASE ~Begun(a)
    <3>1. UNCHANGED started  BY <2>2, <2>4 DEF Outcome, Looked, Created, Resumed, Filed, Deleted
    <3> QED BY <1>1, <3>1 DEF StartedOnce
  <2> QED BY <2>3, <2>4
<1>3. CASE ~Serve
  <2>1. \A c \in Calls : c \in started' => c \in started
    BY <1>3 DEF Source, CompleteTurn, StartForeignTurn
  <2> QED BY <1>1, <2>1 DEF StartedOnce
<1> QED BY <1>2, <1>3

\* A thread with a reservation is loaded where the reservation has it.
LEMMA ReservedWhere ==
  ASSUME Placed, NEW t \in known, NEW i \in ReservedBy(t)
  PROVE  Row(i).workspace = sourceCwd[t]
<1>1. /\ t \in Threads /\ i \in Calls /\ Live(i) /\ Row(i).thread = t /\ t # Null
      /\ StoreInv /\ RowKnown /\ LocationAgrees
  BY DEF Placed, Recoverable, Typed, Control, TypeOK, SourceTypeOK, ReservedBy
<1>2. association[t] = Row(i).workspace  BY <1>1 DEF RowKnown, Gone
<1>3. association[t] # Null
  <2>1. Row(i) \in Reservation  BY <1>1, LiveRow DEF Placed, Recoverable, Typed, Control, TypeOK
  <2> QED BY <1>2, <2>1 DEF Reservation
<1>4. transitions[t] = Null  BY <1>1 DEF StoreInv, TransitionExclusive
<1> QED BY <1>1, <1>2, <1>3, <1>4 DEF LocationAgrees

LEMMA ObserveContexts ==
  ASSUME StoreTypeOK, NEW t \in Threads, NEW u \in Turns, NEW b \in BOOLEAN, ObserveTurn(t, u, b),
         NEW s \in Threads, NEW v \in Turns, contexts'[s][v] \notin {Null, contexts[s][v]}
  PROVE  v = u /\ \E i \in ReservedBy(s) : contexts'[s][v] = Row(i).workspace
<1>1. PICK id \in ReservedBy(t) : LET row == Observed(Row(id), u, b) IN row.turn = u /\ CaptureContext(row)
  BY DEF ObserveTurn, storeVars
<1>2. Row(id) \in Reservation /\ Row(id).thread = t  BY <1>1, LiveRow DEF ReservedBy
<1>3. /\ Observed(Row(id), u, b).turn = u /\ Observed(Row(id), u, b).thread = t
      /\ Observed(Row(id), u, b).workspace = Row(id).workspace
  BY <1>1, <1>2 DEF Observed, Reservation
<1>4. contexts' = [contexts EXCEPT ![t][u] = Row(id).workspace]
  BY <1>1, <1>3 DEF CaptureContext
<1>5. s = t /\ v = u /\ contexts'[s][v] = Row(id).workspace
  BY <1>4 DEF StoreTypeOK
<1> QED BY <1>1, <1>5

\* What a new context says: a turn that ran, in the workspace that is reserved for it.
Evident == \A s \in Threads, v \in Turns :
  contexts'[s][v] \notin {Null, contexts[s][v]} =>
    v \in started /\ \E i \in ReservedBy(s) : contexts'[s][v] = Row(i).workspace

LEMMA StepEvident ==
  ASSUME Typed, Traces, NEW c \in Calls, Step(c)
  PROVE  Evident
<1>1. ASSUME NEW s \in Threads, NEW v \in Turns, contexts'[s][v] \notin {Null, contexts[s][v]}
      PROVE  v \in started /\ \E i \in ReservedBy(s) : contexts'[s][v] = Row(i).workspace
  <2>1. /\ v = c /\ pc[c] = "await" /\ kind[c] \in {"turn", "implicit"} /\ reply[c] # Null /\ reply[c].result = "ok"
        /\ Live(c) /\ Row(c).thread = s /\ contexts'[s][v] = Row(c).workspace
    BY <1>1, StepContexts
  <2>2. Heeds(c, {"ok"})  BY <2>1 DEF Heeds
  <2>3. c \in started  BY <2>1, <2>2 DEF Traces
  <2> QED BY <2>1, <2>3 DEF ReservedBy
<1> QED BY <1>1 DEF Evident

LEMMA DeliverEvident ==
  ASSUME Typed, Traces, Deliver
  PROVE  Evident
<1>1. /\ TypeOK /\ StoreTypeOK /\ SourceTypeOK  BY DEF Typed, Control, TypeOK
<1> DEFINE e == Head(events)
<1>2. events # <<>> /\ e \in Event /\ e \in Heard
  BY <1>1, FirstEvent, ElementsTail DEF Deliver, SourceTypeOK, Heard
<1>3. CASE e.type \in {"started", "completed"}
  <2>1. ObserveTurn(e.thread, e.turn, e.type = "completed")
    BY <1>3 DEF Deliver, Notice
  <2>2. e.thread \in Threads /\ e.turn \in Turns /\ e.turn \in started
    BY <1>2, <1>3, EventKinds DEF Traces, TurnEvent
  <2>3. ASSUME NEW s \in Threads, NEW v \in Turns, contexts'[s][v] \notin {Null, contexts[s][v]}
        PROVE  v = e.turn /\ \E i \in ReservedBy(s) : contexts'[s][v] = Row(i).workspace
    <3>1. PICK b \in BOOLEAN : b = (e.type = "completed")  OBVIOUS
    <3>2. ObserveTurn(e.thread, e.turn, b)  BY <2>1, <3>1
    <3> HIDE DEF e
    <3> QED BY <1>1, <2>2, <2>3, <3>2, ObserveContexts
  <2> QED BY <2>2, <2>3 DEF Evident
<1>4. CASE e.type = "deleted"
  <2>1. e.thread \in Threads  BY <1>2, <1>4, EventKinds
  <2>2. UNCHANGED contexts \/ contexts' = [contexts EXCEPT ![e.thread] = [u \in Turns |-> Null]]
    BY <1>4 DEF Deliver, Notice, ForgetThread, storeVars
  <2>3. \A s \in Threads, v \in Turns : contexts'[s][v] \in {Null, contexts[s][v]}
    BY <1>1, <2>1, <2>2 DEF StoreTypeOK
  <2> QED BY <2>3 DEF Evident
<1>5. CASE e.type = "answer"
  BY <1>5 DEF Deliver, Evident, storeVars
<1> QED BY <1>2, <1>3, <1>4, <1>5, EventKinds

LEMMA EvidentKept ==
  ASSUME Placed, Traces, ContextIsTrue, Evident, UNCHANGED <<known, started, sourceCwd>>,
         \A t \in Threads : running'[t] \in {running[t], Null}
  PROVE  /\ ContextIsTrue'
         /\ \A t \in Threads, u \in Turns : contexts'[t][u] # Null => u \in started
<1>1. SourceTypeOK  BY DEF Placed, Recoverable, Typed, Control, TypeOK
<1>2. ASSUME NEW t \in Threads, NEW u, u = running[t], u # Null  PROVE contexts'[t][u] \in {Null, sourceCwd[t]}
  <2>1. u \in Turns /\ t \in known  BY <1>1, <1>2 DEF SourceTypeOK, Traces
  <2>2. contexts[t][u] \in {Null, sourceCwd[t]}  BY <1>2 DEF ContextIsTrue
  <2>3. ASSUME contexts'[t][u] \notin {Null, contexts[t][u]}  PROVE contexts'[t][u] = sourceCwd[t]
    BY <2>1, <2>3, ReservedWhere DEF Evident
  <2> QED BY <2>2, <2>3
<1>3. ContextIsTrue'  BY <1>2 DEF ContextIsTrue
<1>4. ASSUME NEW t \in Threads, NEW u \in Turns, contexts'[t][u] # Null  PROVE u \in started
  BY <1>4 DEF Evident, Traces
<1> QED BY <1>3, <1>4

\* The answer to a turn is not there before the turn.
LEMMA StepTraces ==
  ASSUME Placed, Traces, ContextIsTrue, NEW a \in Calls, Step(a)
  PROVE  Traces' /\ ContextIsTrue'
<1>1. /\ Typed /\ Control /\ Pipe /\ OthersKeep(a) /\ Waits(a)
      /\ UNCHANGED <<known, started, sourceCwd, running, Heard, Answers>>
      /\ Open(a) => pc'[a] = "done"
  BY StepMoved, StepWaits, StepSource DEF Placed, Recoverable, Typed, Moved
<1>2. ContextIsTrue' /\ \A t \in Threads, u \in Turns : contexts'[t][u] # Null => u \in started
  BY <1>1, StepEvident, EvidentKept
<1>3. ASSUME NEW c \in Calls, pc'[c] = "await", kind'[c] \in {"turn", "implicit"}, Heeds(c, {"ok"})'
      PROVE  c \in started
  <2>1. CASE c = a
    <3>1. reply'[c] = Null  BY <1>1, <1>3, <2>1 DEF Waits, Waiting
    <3>2. PICK e \in Answers : e.call = c  BY <1>1, <1>3, <3>1 DEF Heeds
    <3>3. Open(c)  BY <1>1, <3>2 DEF Pipe, OpenCalls
    <3> QED BY <1>1, <1>3, <2>1, <3>3
  <2>2. CASE c # a
    <3>1. pc[c] = "await" /\ kind[c] \in {"turn", "implicit"} /\ Heeds(c, {"ok"})
      BY <1>1, <1>3, <2>2 DEF OthersKeep, Heeds
    <3> QED BY <3>1 DEF Traces
  <2> QED BY <2>1, <2>2
<1> QED BY <1>1, <1>2, <1>3 DEF Traces

LEMMA HushedTraces ==
  ASSUME Placed, Traces, ContextIsTrue, Pauses, Hushed, Evident
  PROVE  Traces' /\ ContextIsTrue'
<1>1. ContextIsTrue' /\ \A t \in Threads, u \in Turns : contexts'[t][u] # Null => u \in started
  BY EvidentKept DEF Hushed
<1>2. ASSUME NEW c \in Calls, pc'[c] = "await", kind'[c] \in {"turn", "implicit"}, Heeds(c, {"ok"})'
      PROVE  c \in started
  <2>1. pc[c] = "await" /\ kind[c] \in {"turn", "implicit"}  BY <1>2 DEF Pauses
  <2>2. Heeds(c, {"ok"})  BY <1>2 DEF Heeds, Hushed, Rejection
  <2> QED BY <2>1, <2>2 DEF Traces
<1> QED BY <1>1, <1>2 DEF Traces, Hushed

LEMMA SourceTraces ==
  ASSUME Placed, StartedOnce, Traces, ContextIsTrue, Source
  PROVE  Traces' /\ ContextIsTrue'
<1>1. /\ Typed /\ Control /\ Pipe /\ OneEach /\ SourceTypeOK /\ StoreTypeOK
      /\ UNCHANGED <<pc, kind, reply, contexts>>
  BY DEF Placed, Recoverable, Typed, Control, TypeOK, Pipe, Source, callVars, storeVars
<1>2. CASE Serve
  <2>1. Served  BY <1>1, <1>2, ServeOutcome
  <2>2. PICK a \in Answer : a.call = Oldest.call /\ Answers' = Answers \cup {a} /\ Outcome(a)
    BY <2>1 DEF Served
  <2>3. /\ Oldest \in Sent /\ Matches(Oldest) /\ Oldest.call \in Calls /\ Oldest.thread \in Threads \cup {Null}
        /\ Oldest.call # Null
    BY <1>1, <2>1 DEF Served, Request, Pipe
  <2>4. ASSUME Begun(a)
        PROVE  /\ Oldest.call \notin started /\ started' = started \cup {Oldest.call}
               /\ Oldest.thread \in known /\ UNCHANGED known
               /\ running' = [running EXCEPT ![Oldest.thread] = Oldest.call]
    BY <2>3, <2>4 DEF Begun, StartedOnce, Idle
  <2>5. ~Begun(a) => UNCHANGED started
    BY <2>2 DEF Outcome, Looked, Created, Resumed, Filed, Deleted
  <2>6. started \subseteq started'  BY <2>4, <2>5
  <2>7. ASSUME NEW t \in Threads, NEW u, u = running'[t], u # Null
        PROVE  u \in started' /\ t \in known' /\ contexts[t][u] \in {Null, sourceCwd'[t]}
    <3>1. CASE Begun(a) /\ t = Oldest.thread
      <4>1. u = Oldest.call /\ u \in Turns  BY <1>1, <2>3, <2>4, <2>7, <3>1 DEF SourceTypeOK
      <4>2. contexts[t][u] = Null  BY <2>4, <3>1, <4>1 DEF Traces
      <4> QED BY <2>4, <3>1, <4>1, <4>2
    <3>2. CASE ~(Begun(a) /\ t = Oldest.thread)
      <4>1. running[t] = u /\ ~(Deleted(a) /\ t = Oldest.thread)
        BY <1>1, <2>2, <2>4, <2>7, <3>2 DEF SourceTypeOK, Outcome, Looked, Created, Resumed, Filed, Deleted
      <4>2. u \in started /\ t \in known /\ contexts[t][u] \in {Null, sourceCwd[t]}
        BY <2>7, <4>1 DEF Traces, ContextIsTrue
      <4>3. t \in known'
        BY <2>2, <2>4, <4>1, <4>2 DEF Outcome, Looked, Created, Resumed, Filed, Deleted
      <4>4. sourceCwd'[t] = sourceCwd[t]
        BY <1>1, <2>2, <2>7, <3>2, <4>1, <4>2 DEF SourceTypeOK, Outcome, Looked, Created, Begun, Resumed, Filed, Deleted, Idle
      <4> QED BY <2>6, <4>2, <4>3, <4>4
    <3> QED BY <3>1, <3>2
  <2>8. ASSUME NEW e \in Heard', TurnEvent(e)  PROVE e.turn \in started'
    <3>1. e \in Heard \/ (Begun(a) /\ e.turn = Oldest.call)
      BY <2>2, <2>8 DEF Outcome, Looked, Created, Begun, Resumed, Filed, Deleted, TurnEvent, Answer
    <3> QED BY <2>4, <2>6, <2>8, <3>1 DEF Traces
  <2>9. ASSUME NEW c \in Calls, pc[c] = "await", kind[c] \in {"turn", "implicit"}, Heeds(c, {"ok"})'
        PROVE  c \in started'
    <3>1. CASE a.call = c /\ a.result = "ok"
      <4>1. Oldest.method = "turn"  BY <2>2, <2>3, <2>9, <3>1 DEF Matches, MethodOf, Waiting
      <4>2. Begun(a)  BY <2>2, <3>1, <4>1 DEF Outcome, Looked, Created, Resumed, Filed, Deleted
      <4> QED BY <2>2, <2>4, <3>1, <4>2
    <3>2. CASE ~(a.call = c /\ a.result = "ok")
      <4>1. Heeds(c, {"ok"})  BY <1>1, <2>2, <2>9, <3>2 DEF Heeds
      <4> QED BY <2>6, <2>9, <4>1 DEF Traces
    <3> QED BY <3>1, <3>2
  <2>10. Traces'  BY <1>1, <2>6, <2>7, <2>8, <2>9 DEF Traces
  <2>11. ContextIsTrue'  BY <1>1, <2>7 DEF ContextIsTrue
  <2> QED BY <2>10, <2>11
<1>3. CASE ~Serve
  <2>1. PICK t \in Threads : CompleteTurn(t) \/ \E u \in ForeignTurns : StartForeignTurn(t, u)
    BY <1>3 DEF Source
  <2>2. UNCHANGED <<known, sourceCwd>>  BY <2>1 DEF CompleteTurn, StartForeignTurn
  <2>3. CASE CompleteTurn(t)
    <3>1. [type |-> "completed", thread |-> t, turn |-> running[t]] \in Event
      BY <1>1, <2>3 DEF CompleteTurn, SourceTypeOK, Event, TurnNotification
    <3>2. /\ Heard' = Heard \cup {[type |-> "completed", thread |-> t, turn |-> running[t]]} /\ Answers' = Answers
      BY <1>1, <2>3, <3>1, NotifyElements DEF CompleteTurn, OneEach
    <3>3. UNCHANGED started /\ running' = [running EXCEPT ![t] = Null] /\ running[t] # Null
      BY <2>3 DEF CompleteTurn
    <3>4. Traces'  BY <1>1, <2>2, <3>2, <3>3 DEF Traces, Heeds, SourceTypeOK
    <3>5. ContextIsTrue'  BY <1>1, <2>2, <3>3 DEF ContextIsTrue, SourceTypeOK
    <3> QED BY <3>4, <3>5
  <2>4. CASE \E u \in ForeignTurns : StartForeignTurn(t, u)
    <3>1. PICK u \in ForeignTurns : StartForeignTurn(t, u)  BY <2>4
    <3>2. [type |-> "started", thread |-> t, turn |-> u] \in Event
      BY DEF Event, TurnNotification
    <3>3. /\ Heard' = Heard \cup {[type |-> "started", thread |-> t, turn |-> u]} /\ Answers' = Answers
      BY <1>1, <3>1, <3>2, NotifyElements DEF StartForeignTurn, OneEach
    <3>4. started' = started \cup {u} /\ running' = [running EXCEPT ![t] = u] /\ u \notin started /\ t \in known
          /\ u \in Turns
      BY <3>1 DEF StartForeignTurn, Idle
    <3>5. contexts[t][u] = Null  BY <3>4 DEF Traces
    <3>6. Traces'  BY <1>1, <2>2, <3>3, <3>4 DEF Traces, Heeds, SourceTypeOK
    <3>7. ContextIsTrue'  BY <1>1, <2>2, <3>4, <3>5 DEF ContextIsTrue, SourceTypeOK
    <3> QED BY <3>6, <3>7
  <2> QED BY <2>1, <2>3, <2>4
<1> QED BY <1>2, <1>3

\* What it takes to know where a turn ran.
Witnessed == Placed /\ StartedOnce /\ Traces /\ ContextIsTrue

LEMMA WitnessedStep ==
  ASSUME Witnessed, [Next]_vars
  PROVE  Witnessed'
<1>1. /\ Placed /\ StartedOnce /\ Traces /\ ContextIsTrue /\ Deletion /\ Typed /\ Placed'
  BY PlacedStep DEF Witnessed, Placed, Deletion
<1>2. ASSUME NEW c \in Calls, Step(c)  PROVE Witnessed'
  BY <1>1, <1>2, StepStartedOnce, StepTraces DEF Witnessed
<1>3. ASSUME Source  PROVE Witnessed'
  BY <1>1, <1>3, SourceStartedOnce, SourceTraces DEF Witnessed
<1>4. ASSUME \A c \in Calls : ~Queued(c), Deliver  PROVE Witnessed'
  BY <1>1, <1>4, DeliverRests, DeliverEvident, HushedStartedOnce, HushedTraces DEF Witnessed, Rests
<1>5. ASSUME (\E c \in Calls : Timeout(c)) \/ SourceExit \/ Crash \/ UNCHANGED vars  PROVE Witnessed'
  <2>1. Rests /\ Hushed  BY <1>1, <1>5, OtherRests
  <2>2. UNCHANGED contexts  BY <1>5 DEF Timeout, SourceExit, Crash, vars, storeVars
  <2>3. Evident  BY <2>2 DEF Evident
  <2> QED BY <1>1, <2>1, <2>3, HushedStartedOnce, HushedTraces DEF Witnessed, Rests
<1>6. ASSUME Lists  PROVE Witnessed'
  <2>1. Pauses /\ Hushed /\ Control /\ StoreTypeOK
    BY <1>1, <1>6, ListsRests DEF Placed, Typed, Control, TypeOK
  <2>2. UNCHANGED contexts \/ \E t \in Threads : contexts' = [contexts EXCEPT ![t] = [u \in Turns |-> Null]]
    BY <1>6, <2>1, ListsEffect DEF WriteIndex, ForgetThread, storeVars
  <2>3. Evident  BY <2>1, <2>2 DEF Evident, StoreTypeOK
  <2> QED BY <1>1, <2>1, <2>3, HushedStartedOnce, HushedTraces DEF Witnessed
<1> QED BY <1>2, <1>3, <1>4, <1>5, <1>6 DEF Next

LEMMA WitnessedInit == Init => Witnessed
<1> SUFFICES ASSUME Init PROVE Witnessed
  OBVIOUS
<1>1. Placed  BY PlacedInit
<1>2. started = {} /\ Heard = {} /\ \A c \in Calls : pc[c] = "idle"
  BY ElementsEmpty DEF Init, SourceInit, Heard
<1>3. \A t \in Threads : running[t] = Null /\ \A u \in Turns : contexts[t][u] = Null
  BY DEF Init, SourceInit, StoreInit
<1>4. StartedOnce /\ Traces /\ ContextIsTrue
  BY <1>2, <1>3 DEF StartedOnce, Traces, ContextIsTrue
<1> QED BY <1>1, <1>4 DEF Witnessed

\* What is stored, heard or answered about a turn is about one the source ran.
THEOREM WitnessesHold == Spec => []Witnessed
BY WitnessedInit, WitnessedStep, PTL DEF Spec

\* ContextIsTrue: the evidence of a turn that runs, whoever started it and however
\* the cache came to hear of it, names the place in which the source runs it.
THEOREM ContextsTrue == Spec => []ContextIsTrue
BY WitnessesHold, PTL DEF Witnessed
----------------------------------------------------------------------------
(* Where the catalogue of the source and the tables disagree.              *)

\* A mutation of the catalogue that was dispatched and is not settled.
Filing(i) == Live(i) /\ Row(i).operation \in CatalogKinds /\ Row(i).state # "preparing"

\* The steps by which a call comes to hold or to settle a reservation.
LEMMA StepEnters ==
  ASSUME Control, NEW c \in Calls, Step(c)
  PROVE  /\ pc'[c] = "recoverRead" => ReserveRefused(c)
         /\ pc'[c] = "idleRead" => ReconcileExecution(c)
         /\ pc'[c] = "evidence" => ReconcileCatalog(c)
         /\ pc'[c] = "release" => Forget(c) \/ CatalogAnswered(c) \/ ArchiveVerified(c)
<1> SUFFICES ASSUME NEW L \in {"recoverRead", "idleRead", "evidence", "release"}, pc'[c] = L
             PROVE  /\ L = "recoverRead" => ReserveRefused(c)
                    /\ L = "idleRead" => ReconcileExecution(c)
                    /\ L = "evidence" => ReconcileCatalog(c)
                    /\ L = "release" => Forget(c) \/ CatalogAnswered(c) \/ ArchiveVerified(c)
  OBVIOUS
<1>1. TypeOK  BY DEF Control
<1>2. ASSUME NEW l, Goto(c, l)  PROVE l = L  BY <1>1, <1>2 DEF Goto, TypeOK
<1>3. ~Finish(c) /\ ~Return(c)  BY <1>2 DEF Finish, Return
<1>4. \A l : Continue(c, l) => l = L  BY <1>2 DEF Continue
<1>5. \A m, l : Ask(c, m, l) => l = L  BY <1>2 DEF Ask
<1>6. ~Starts(c)
  BY <1>1 DEF Starts, StartRun, StartCatalog, StartSelect, StartReconcile, StartReconcileWorkspace, TypeOK
<1>7. CASE Run(c) /\ RunAt(c)
  <2>1. ~Goto(c, "confirm") /\ ~Goto(c, "bind") /\ ~Goto(c, "submit") /\ ~Continue(c, "submit") /\ ~Continue(c, "bind")
        /\ ~Continue(c, "after") /\ ~Continue(c, "reserve") /\ ~Continue(c, "prepare")
    BY <1>2, <1>4
  <2>2. ~ReserveRun(c)  BY <1>5, <2>1 DEF ReserveRun, Reserved
  <2>3. ~RecoverRollback(c) /\ ~CheckIdle(c) /\ ~FailRun(c)
    BY <1>3, <2>1 DEF RecoverRollback, CheckIdle, FailRun
  <2>4. ~CreateThread(c) /\ ~IndexThread(c) /\ ~ConfirmThread(c) /\ ~Bind(c)
    BY <1>3, <1>5, <2>1 DEF CreateThread, IndexThread, ConfirmThread, Bind
  <2>5. ~Submit(c) /\ ~Maintain(c) /\ ~AcknowledgeTurn(c) /\ ~AcknowledgeMaintained(c) /\ ~FinishTurn(c)
    BY <1>3, <1>5, <2>1 DEF Submit, Maintain, AcknowledgeTurn, AcknowledgeMaintained, FinishTurn
  <2>6. ReserveRefused(c)  BY <1>6, <1>7, <2>2, <2>3, <2>4, <2>5, StepAt DEF RunAt
  <2>7. L = "recoverRead"  BY <1>3, <1>5, <2>6 DEF ReserveRefused
  <2> QED BY <2>6, <2>7
<1>8. CASE Catalog(c) /\ CatalogAt(c)
  <2>1. ~Continue(c, "submit") /\ ~Continue(c, "forget")  BY <1>4
  <2>2. ~ReserveCatalog(c) /\ ~SubmitCatalog(c) /\ ~FailCatalog(c) /\ ~ReleaseCatalog(c)
    BY <1>3, <1>5, <2>1 DEF ReserveCatalog, SubmitCatalog, FailCatalog, ReleaseCatalog
  <2>3. Forget(c) \/ CatalogAnswered(c)  BY <1>6, <1>8, <2>2, StepAt DEF CatalogAt
  <2>4. L = "release"  BY <1>4, <2>1, <2>3 DEF Forget, CatalogAnswered
  <2> QED BY <2>3, <2>4
<1>9. CASE Select(c) /\ SelectAt(c)
  <2>1. ~Continue(c, "selectBegin") /\ ~Continue(c, "selectPrepare") /\ ~Goto(c, "selectRead") /\ ~Goto(c, "switch")
    BY <1>2, <1>4
  <2>2. ~SelectIdle(c) /\ ~SelectBegin(c) /\ ~SelectPrepare(c) /\ ~SubmitSwitch(c) /\ ~CommitSwitch(c) /\ ~FailSwitch(c)
    BY <1>3, <2>1 DEF SelectIdle, SelectBegin, SelectPrepare, SubmitSwitch, CommitSwitch, FailSwitch
  <2> QED BY <1>6, <1>9, <2>2, StepAt DEF SelectAt
<1>10. CASE Recover(c) /\ RecoverAt(c)
  <2>1. ~Goto(c, "selectRead") /\ ~Goto(c, "reconcile") /\ ~Goto(c, "forget")  BY <1>2
  <2>2. ~ReconcileTransition(c) /\ ~ReleaseIdle(c) /\ ~TreatItems(c)
    BY <1>3, <2>1 DEF ReconcileTransition, ReleaseIdle, TreatItems
  <2>3. ReconcileCatalog(c) => L = "evidence"  BY <1>2, <1>3, <2>1 DEF ReconcileCatalog
  <2>4. ReconcileExecution(c) => L = "idleRead"  BY <1>2, <1>3 DEF ReconcileExecution
  <2>5. ArchiveVerified(c) => L = "release"  BY <1>3, <1>4 DEF ArchiveVerified
  <2> QED BY <1>6, <1>10, <2>2, <2>3, <2>4, <2>5, StepAt DEF RecoverAt
<1> QED BY <1>7, <1>8, <1>9, <1>10, StepAt

\* A reservation that a recovery releases as idle belongs to no mutation.
HeldExecution == \A c \in Calls :
  pc[c] \in {"recoverRead", "idleRead"} /\ held[c] # Null /\ Live(held[c]) => Row(held[c]).operation \notin CatalogKinds

LEMMA StepHeldExecution ==
  ASSUME Typed, HeldRow, HeldExecution, NEW a \in Calls, Step(a)
  PROVE  HeldExecution'
<1>1. /\ Control /\ TypeOK /\ OthersKeep(a) /\ CallOK(a) /\ CallOK(a)'
  BY StepMoved DEF Typed, Control, Moved
<1>2. ASSUME NEW c \in Calls, pc'[c] \in {"recoverRead", "idleRead"}, held'[c] # Null, reservations'[held'[c]] # Null
      PROVE  reservations'[held'[c]].operation \notin CatalogKinds
  <2>1. CASE c # a
    <3>1. pc'[c] = pc[c] /\ held'[c] = held[c]  BY <1>1, <2>1 DEF OthersKeep
    <3>2. Live(held[c]) /\ reservations'[held[c]].operation = Row(held[c]).operation
      BY <1>2, <3>1, StepHeldKept
    <3> QED BY <1>2, <3>1, <3>2 DEF HeldExecution
  <2>2. CASE c = a /\ pc'[c] = "recoverRead"
    <3>1. ReserveRefused(a)  BY <1>1, <2>2, StepEnters
    <3>2. ~Finish(a)  BY <1>1, <2>2, FinishEffect
    <3>3. \E id \in StaleRollback(a) : held' = [held EXCEPT ![a] = id] /\ UNCHANGED storeVars
      BY <3>1, <3>2 DEF ReserveRefused
    <3> QED BY <1>1, <2>2, <3>3 DEF StaleRollback, storeVars, Row, TypeOK, CatalogKinds
  <2>3. CASE c = a /\ pc'[c] = "idleRead"
    <3>1. ReconcileExecution(a)  BY <1>1, <2>3, StepEnters
    <3>2. ~Finish(a)  BY <1>1, <2>3, FinishEffect
    <3>3. held[a] = Null  BY <1>1, <3>1 DEF ReconcileExecution, CallOK, Equipped
    <3>4. \E id \in ReservedBy(thread[a]) :
            held' = [held EXCEPT ![a] = id] /\ UNCHANGED storeVars /\ Row(id).operation \notin CatalogKinds
      BY <1>2, <2>3, <3>1, <3>2, <3>3 DEF ReconcileExecution
    <3> QED BY <1>1, <2>3, <3>4 DEF storeVars, Row, TypeOK
  <2> QED BY <1>2, <2>1, <2>2, <2>3
<1> QED BY <1>2 DEF HeldExecution, Live, Row

\* A mutation is settled by the call that cleans up after it, under its gate.
Settles(c, i) ==
  /\ pc[c] = "release" /\ Recovered(c) = i
  /\ thread[c] \in Threads /\ gate[c] = thread[c] /\ Row(i).thread = thread[c]

LEMMA FilingFreed ==
  ASSUME Recoverable, HeldExecution, NEW a \in Calls, Step(a), NEW i \in Calls, Filing(i), reservations'[i] = Null
  PROVE  Settles(a, i)
<1>1. /\ Typed /\ Control /\ TypeOK /\ CallOK(a) /\ RowOK(i) /\ Live(i) /\ HeldRow /\ WorkListed
      /\ Row(i).operation \in CatalogKinds /\ Row(i).state # "preparing"
  BY DEF Recoverable, Listed, Typed, Control, Rows, Filing
<1>2. Frees(a, i)  BY <1>1, StepFrees
<1>3. kind[i] \in CatalogKinds /\ Row(i).state # "completed"
  BY <1>1 DEF RowOK, Operation, CatalogKinds, Lifecycle, RunKinds, MaintenanceKinds
<1>4. i = a => kind[a] # "rollback" /\ pc[a] # "confirm"
  BY <1>1, <1>3 DEF CatalogKinds, CallOK, InPlace
<1>5. CASE i = a /\ pc[a] = "release" /\ kind[a] \in CatalogKinds
  <2>1. Row(i).thread = thread[a]
    BY <1>1, <1>3, <1>5 DEF RowOK, CatalogKinds, Gateless
  <2> QED BY <1>1, <1>5, <2>1, HasThread DEF Settles, Recovered
<1>6. CASE i = held[a] /\ pc[a] \in {"recoverRead", "idleRead"}
  BY <1>1, <1>6 DEF HeldExecution
<1>7. CASE i = held[a] /\ pc[a] = "release" /\ kind[a] \in Reconciles
  <2>1. Row(i).thread = thread[a]  BY <1>1, <1>7 DEF HeldRow
  <2>2. Recovered(a) = i  BY <1>7 DEF Recovered, Reconciles, CatalogKinds
  <2> QED BY <1>1, <1>7, <2>1, <2>2, HasThread DEF Settles
<1>8. ~(pc[a] = "items" /\ \E item \in Remaining(a).items : item.id = i /\ item.thread = Null /\ item.state = "preparing")
  <2>1. ASSUME NEW item \in Remaining(a).items, item.id = i, item.thread = Null, item.state = "preparing"  PROVE FALSE
    <3>1. CASE item \in work[a].items  BY <1>1, <2>1, <3>1 DEF WorkListed, Undispatched
    <3>2. CASE item \in ReservationItems(workspace[a])  BY <1>1, <2>1, <3>2 DEF ReservationItems
    <3> QED BY <2>1, <3>1, <3>2 DEF Remaining
  <2> QED BY <2>1
<1> QED BY <1>1, <1>2, <1>3, <1>4, <1>5, <1>6, <1>7, <1>8 DEF Frees

\* What a step leaves of a dispatched mutation.
LEMMA StepFiling ==
  ASSUME Recoverable, HeldExecution, NEW a \in Calls, Step(a), NEW i \in Calls, Filing(i)
  PROVE  \/ Settles(a, i)
         \/ /\ reservations'[i] # Null /\ reservations'[i].operation = Row(i).operation
            /\ reservations'[i].thread = Row(i).thread /\ reservations'[i].state # "preparing"
<1>1. /\ Typed /\ RowOK(i) /\ Live(i) /\ RowsMoved(a) /\ Row(i).operation \in CatalogKinds /\ Row(i).state # "preparing"
  BY StepRows DEF Recoverable, Typed, Rows, Pipe, Filing
<1>2. CASE reservations'[i] = Null  BY <1>2, FilingFreed
<1>3. CASE reservations'[i] # Null /\ i # a
  BY <1>1, <1>3 DEF RowsMoved, Row
<1>4. CASE reservations'[i] # Null /\ i = a
  <2>1. Row(i).thread # Null
    BY <1>1 DEF RowOK, Operation, CatalogKinds, RunKinds, MaintenanceKinds, Gateless
  <2> QED BY <1>1, <1>4, <2>1 DEF RowsMoved, Grows
<1> QED BY <1>2, <1>3, <1>4

\* Nothing but a step of a call touches a dispatched mutation or an archive flag.
FilingStays ==
  \A i \in Calls : Live(i) /\ Row(i).operation \in CatalogKinds => reservations'[i] = reservations[i]

Shelved == FilingStays /\ UNCHANGED <<archivedRow, misfiled>>

LEMMA DeliverShelved ==
  ASSUME Typed, Deliver
  PROVE  Shelved
<1>1. /\ Control /\ Rows /\ SourceTypeOK  BY DEF Typed, Control, TypeOK
<1>2. UNCHANGED <<archivedRow, misfiled>>
  BY DEF Deliver, Notice, ForgetThread, ObserveTurn, storeVars, Still
<1>3. CASE Head(events).type = "answer"
  BY <1>2, <1>3 DEF Deliver, Shelved, FilingStays, storeVars
<1>4. CASE Head(events).type # "answer"
  <2>1. RowsNoticed  BY <1>1, <1>4, FirstEvent, NoticeRows DEF Deliver
  <2> QED BY <1>2, <2>1 DEF Shelved, FilingStays, RowsNoticed, OtherRowsKeep, Lifecycle, CatalogKinds
<1> QED BY <1>3, <1>4

LEMMA OthersShelved ==
  ASSUME UNCHANGED <<storeVars, misfiled>>
  PROVE  Shelved
BY DEF Shelved, FilingStays, storeVars

\* A recovery asks about an archive that was dispatched, and it stays so.
EvidenceHeld == \A c \in Calls : pc[c] = "evidence" => Filing(held[c]) /\ Row(held[c]).operation # "delete"

LEMMA StepEvidenceHeld ==
  ASSUME Recoverable, HeldExecution, EvidenceHeld, NEW a \in Calls, Step(a)
  PROVE  EvidenceHeld'
<1>1. /\ Typed /\ Control /\ TypeOK /\ OthersKeep(a) /\ CallOK(a) /\ HeldRow /\ OneGate
  BY StepMoved DEF Recoverable, Listed, Typed, Control, Moved
<1>2. ASSUME NEW c \in Calls, pc'[c] = "evidence"
      PROVE  /\ reservations'[held'[c]] # Null /\ reservations'[held'[c]].operation \in CatalogKinds \ {"delete"}
             /\ reservations'[held'[c]].state # "preparing"
  <2>1. CASE c # a
    <3>1. pc[c] = "evidence" /\ held'[c] = held[c]  BY <1>1, <1>2, <2>1 DEF OthersKeep
    <3>2. Filing(held[c]) /\ Row(held[c]).operation # "delete"  BY <3>1 DEF EvidenceHeld
    <3>3. /\ held[c] \in Calls /\ held[c] # Null /\ thread[c] \in Threads /\ gate[c] = thread[c] /\ thread[c] # Null
      BY <1>1, <3>1, HasThread DEF Control, TypeOK, CallOK, Equipped
    <3>4. Row(held[c]).thread = thread[c]  BY <1>1, <3>2, <3>3 DEF HeldRow, Filing
    <3>5. ~Settles(a, held[c])  BY <1>1, <2>1, <3>3, <3>4 DEF Settles, OneGate
    <3> QED BY <3>1, <3>2, <3>3, <3>5, StepFiling DEF Filing
  <2>2. CASE c = a
    <3>1. ReconcileCatalog(a)  BY <1>1, <1>2, <2>2, StepEnters
    <3>2. ~Finish(a) /\ ~Return(a) /\ ~Goto(a, "forget")
      BY <1>1, <1>2, <2>2, FinishEffect, ReturnEffect DEF Return, Goto, TypeOK
    <3>3. \E id \in ReservedBy(thread[a]) :
            /\ held' = [held EXCEPT ![a] = id] /\ UNCHANGED storeVars
            /\ Row(id).operation \in CatalogKinds \ {"delete"} /\ Row(id).state # "preparing"
      BY <3>1, <3>2 DEF ReconcileCatalog
    <3> QED BY <1>1, <2>2, <3>3 DEF storeVars, Row, TypeOK, ReservedBy, Live
  <2> QED BY <2>1, <2>2
<1> QED BY <1>2 DEF EvidenceHeld, Filing, Live, Row

LEMMA RestEvidenceHeld ==
  ASSUME EvidenceHeld, Typed, Pauses, FilingStays
  PROVE  EvidenceHeld'
<1>1. ASSUME NEW c \in Calls, pc'[c] = "evidence"
      PROVE  Filing(held[c]) /\ held'[c] = held[c] /\ reservations'[held[c]] = Row(held[c])
             /\ Row(held[c]).operation # "delete"
  <2>1. pc[c] = "evidence" /\ held'[c] = held[c]  BY <1>1 DEF Pauses
  <2>2. held[c] \in Calls  BY <2>1 DEF Typed, Control, TypeOK, CallOK, Equipped
  <2> QED BY <2>1, <2>2 DEF EvidenceHeld, FilingStays, Filing, Row
<1> QED BY <1>1 DEF EvidenceHeld, Filing, Live, Row

LEMMA RestHeldExecution ==
  ASSUME HeldExecution, Typed, Pauses
  PROVE  HeldExecution'
<1>1. ASSUME NEW c \in Calls, pc'[c] \in {"recoverRead", "idleRead"}, held'[c] # Null, reservations'[held'[c]] # Null
      PROVE  reservations'[held'[c]].operation \notin CatalogKinds
  <2>1. pc'[c] = pc[c] /\ held'[c] = held[c]  BY <1>1 DEF Pauses
  <2>2. held[c] \in Calls  BY <1>1, <2>1 DEF Typed, Control, TypeOK
  <2>3. Live(held[c]) /\ reservations'[held[c]].operation = Row(held[c]).operation
    BY <1>1, <2>1, <2>2 DEF Pauses, SameRow
  <2> QED BY <1>1, <2>1, <2>3 DEF HeldExecution
<1> QED BY <1>1 DEF HeldExecution, Live, Row

\* A recovery settles a deletion only once the thread is gone.
ReleasedGone == \A c \in Calls :
  pc[c] = "release" /\ kind[c] \in Reconciles /\ Live(held[c]) /\ Row(held[c]).operation = "delete" => Gone(thread[c])

LEMMA StepReleasedGone ==
  ASSUME Deletion, HeldRow, EvidenceHeld, ReleasedGone, NEW a \in Calls, Step(a)
  PROVE  ReleasedGone'
<1>1. /\ Typed /\ Control /\ TypeOK /\ OthersKeep(a) /\ CallOK(a) /\ CallOK(a)' /\ UNCHANGED <<known, sourceCwd>> /\ Forgettable
  BY StepMoved, StepSource DEF Deletion, Typed, Control, Moved
<1>2. ASSUME NEW c \in Calls, pc'[c] = "release", kind'[c] \in Reconciles, reservations'[held'[c]] # Null,
             reservations'[held'[c]].operation = "delete"
      PROVE  thread'[c] = thread[c] /\ Gone(thread[c])
  <2>1. CASE c # a
    <3>1. pc[c] = "release" /\ kind[c] = kind'[c] /\ held'[c] = held[c] /\ thread'[c] = thread[c]
      BY <1>1, <1>2, <2>1 DEF OthersKeep
    <3>2. held[c] # Null  BY <1>1, <1>2, <3>1 DEF Control, CallOK, Equipped
    <3>3. Live(held[c]) /\ Row(held[c]).operation = "delete"
      BY <1>1, <1>2, <3>1, <3>2, StepHeldKept
    <3> QED BY <1>2, <3>1, <3>3 DEF ReleasedGone
  <2>2. CASE c = a
    <3>1. Forget(a) \/ CatalogAnswered(a) \/ ArchiveVerified(a)  BY <1>1, <1>2, <2>2, StepEnters
    <3>2. CASE Forget(a)
      BY <1>1, <2>2, <3>2 DEF Forget, Continue, Forgettable
    <3>3. CASE CatalogAnswered(a)
      <4>1. kind'[a] = kind[a] /\ kind[a] \in CatalogKinds  BY <3>3 DEF CatalogAnswered, Continue
      <4> QED BY <1>2, <2>2, <4>1 DEF CatalogKinds, Reconciles
    <3>4. CASE ArchiveVerified(a)
      <4>1. ~Finish(a)  BY <1>1, <1>2, <2>2, FinishEffect
      <4>2. pc[a] = "evidence" /\ held'[a] = held[a]  BY <3>4, <4>1 DEF ArchiveVerified, Continue
      <4>3. held[a] # Null /\ Row(held[a]).operation # "delete"
        BY <1>1, <4>2 DEF EvidenceHeld, CallOK, Equipped
      <4> QED BY <1>1, <1>2, <2>2, <4>2, <4>3, StepHeldKept
    <3> QED BY <3>1, <3>2, <3>3, <3>4
  <2> QED BY <2>1, <2>2
<1>3. ASSUME NEW c \in Calls, pc'[c] = "release", kind'[c] \in Reconciles, reservations'[held'[c]] # Null,
             reservations'[held'[c]].operation = "delete"
      PROVE  thread'[c] \in Threads /\ thread'[c] \notin known' /\ sourceCwd'[thread'[c]] # Null
  BY <1>1, <1>2, <1>3 DEF Gone
<1> QED BY <1>3 DEF ReleasedGone, Live, Row, Gone

LEMMA RestReleasedGone ==
  ASSUME ReleasedGone, Typed, Pauses
  PROVE  ReleasedGone'
<1>1. ASSUME NEW c \in Calls, pc'[c] = "release", kind'[c] \in Reconciles, reservations'[held'[c]] # Null,
             reservations'[held'[c]].operation = "delete", NEW t, t = thread'[c]
      PROVE  t \in Threads /\ t \notin known' /\ sourceCwd'[t] # Null
  <2>1. pc[c] = "release" /\ kind[c] = kind'[c] /\ held'[c] = held[c] /\ thread'[c] = thread[c]
    BY <1>1 DEF Pauses
  <2>2. held[c] \in Calls  BY <1>1, <2>1 DEF Typed, Control, TypeOK, CallOK, Equipped
  <2>3. Live(held[c]) /\ Row(held[c]).operation = "delete"
    BY <1>1, <2>1, <2>2 DEF Pauses, SameRow
  <2>4. Gone(t)  BY <1>1, <2>1, <2>3 DEF ReleasedGone
  <2>5. t \in Threads  BY <2>4 DEF Gone
  <2>6. Gone(t)'  BY <2>4, <2>5 DEF Pauses
  <2> QED BY <2>6 DEF Gone
<1> QED BY <1>1 DEF ReleasedGone, Live, Row, Gone

\* So does the deletion itself.
ForgottenGone == \A c \in Calls : pc[c] = "release" /\ kind[c] = "delete" => Gone(thread[c])

LEMMA StepForgottenGone ==
  ASSUME Deletion, ForgottenGone, NEW a \in Calls, Step(a)
  PROVE  ForgottenGone'
<1>1. /\ Control /\ TypeOK /\ OthersKeep(a) /\ CallOK(a) /\ UNCHANGED <<known, sourceCwd>> /\ Forgettable
  BY StepMoved, StepSource DEF Deletion, Typed, Control, Moved
<1>2. ASSUME NEW c \in Calls, pc'[c] = "release", kind'[c] = "delete"
      PROVE  thread'[c] = thread[c] /\ Gone(thread[c])
  <2>1. CASE c # a  BY <1>1, <1>2, <2>1 DEF OthersKeep, ForgottenGone
  <2>2. CASE c = a
    <3>1. Forget(a) \/ CatalogAnswered(a) \/ ArchiveVerified(a)  BY <1>1, <1>2, <2>2, StepEnters
    <3>2. CASE Forget(a)
      BY <1>1, <2>2, <3>2 DEF Forget, Continue, Forgettable
    <3>3. CASE CatalogAnswered(a)
      <4>1. kind[a] # "delete"
        BY <1>1, <1>2, <2>2, <3>3 DEF CatalogAnswered, Continue, Goto, TypeOK
      <4> QED BY <1>2, <2>2, <3>3, <4>1 DEF CatalogAnswered, Continue
    <3>4. CASE ArchiveVerified(a)
      <4>1. ~Finish(a)  BY <1>1, <1>2, <2>2, FinishEffect
      <4>2. pc[a] = "evidence" /\ kind'[a] = kind[a]  BY <3>4, <4>1 DEF ArchiveVerified, Continue
      <4> QED BY <1>1, <1>2, <2>2, <4>2 DEF CallOK, InPlace, Reconciles
    <3> QED BY <3>1, <3>2, <3>3, <3>4
  <2> QED BY <2>1, <2>2
<1>3. ASSUME NEW c \in Calls, pc'[c] = "release", kind'[c] = "delete"
      PROVE  thread'[c] \in Threads /\ thread'[c] \notin known' /\ sourceCwd'[thread'[c]] # Null
  BY <1>1, <1>2, <1>3 DEF Gone
<1> QED BY <1>3 DEF ForgottenGone, Gone

LEMMA RestForgottenGone ==
  ASSUME ForgottenGone, Pauses
  PROVE  ForgottenGone'
<1>1. ASSUME NEW c \in Calls, pc'[c] = "release", kind'[c] = "delete", NEW t, t = thread'[c]
      PROVE  t \in Threads /\ t \notin known' /\ sourceCwd'[t] # Null
  <2>1. Gone(t)  BY <1>1 DEF Pauses, ForgottenGone
  <2>2. t \in Threads  BY <2>1 DEF Gone
  <2>3. Gone(t)'  BY <2>1, <2>2 DEF Pauses
  <2> QED BY <2>3 DEF Gone
<1> QED BY <1>1 DEF ForgottenGone, Gone

\* A mutation that is on its way to a thread that exists has its row.
FilingGuarded == \A r \in Sent : r.method \in CatalogKinds /\ ~Gone(r.thread) =>
  Filing(r.call) /\ Row(r.call).operation = r.method /\ Row(r.call).thread = r.thread

LEMMA StepFilingGuarded ==
  ASSUME Placed, HeldExecution, ReleasedGone, FilingGuarded, NEW a \in Calls, Step(a)
  PROVE  FilingGuarded'
<1>1. /\ Recoverable /\ Typed /\ Control /\ Pipe /\ TypeOK /\ StoreTypeOK /\ SourceTypeOK /\ Quiet /\ CallOK(a) /\ RowOK(a)
      /\ UNCHANGED <<known, sourceCwd>> /\ Sent \subseteq Request
  BY StepSource, SentTyped DEF Placed, Recoverable, Typed, Control, TypeOK, Rows
<1>2. ASSUME NEW r \in Sent', r.method \in CatalogKinds, ~Gone(r.thread), NEW i, i = r.call
      PROVE  /\ reservations'[i] # Null /\ reservations'[i].operation = r.method
             /\ reservations'[i].thread = r.thread /\ reservations'[i].state # "preparing"
  <2>1. CASE r \in Sent
    <3>1. i \in Calls /\ Filing(i) /\ Row(i).operation = r.method /\ Row(i).thread = r.thread
      BY <1>1, <1>2, <2>1 DEF FilingGuarded, Request
    <3>2. ASSUME Settles(a, i)  PROVE FALSE
      <4>1. pc[a] = "release" /\ thread[a] = r.thread /\ i = Recovered(a) /\ ~Open(a)
        BY <3>1, <3>2 DEF Settles, Open, Waiting
      <4>2. \A q \in Sent : q.call # a  BY <1>1, <4>1, NotOpenSent
      <4>3. kind[a] \in Reconciles /\ i = held[a]
        BY <1>1, <1>2, <2>1, <4>1, <4>2 DEF Recovered, CallOK, InPlace
      <4>4. Row(i).operation # "delete"
        BY <1>2, <3>1, <4>1, <4>3 DEF ReleasedGone, Filing
      <4>5. Looking(a)  BY <3>1, <4>1, <4>3, <4>4 DEF Looking, Filing
      <4> QED BY <1>1, <1>2, <2>1, <4>1, <4>2, <4>5, QuietAnswered DEF Effects, CatalogKinds
    <3> QED BY <1>1, <3>1, <3>2, StepFiling
  <2>2. CASE r \notin Sent
    <3>1. PICK q \in Request : /\ requests' = Append(requests, q) /\ q.call = a /\ Matches(q)'
                               /\ Sent' = Sent \cup {q} /\ pc'[a] \in Waiting
      BY <1>1, <1>2, <2>2, StepSource DEF Sent
    <3>2. r = q  BY <1>2, <2>2, <3>1
    <3>3. r.thread = thread[a] /\ thread[a] \in Threads /\ SubmitCatalog(a) /\ r.method = kind[a]
      <4>1. r.method \in Effects \cup {"resume"} /\ r.method \notin {"turn", "resume", "switch"} \cup MaintenanceKinds
        BY <1>2 DEF Effects, CatalogKinds, MaintenanceKinds
      <4> QED BY <1>1, <3>1, <3>2, <4>1, StepEffects
    <3>4. i = a  BY <1>2, <3>1, <3>2
    <3>5. /\ Live(a) /\ reservations'[a] # Null /\ SameRow(reservations'[a], Row(a))
          /\ reservations'[a].state = "submitting"
      BY <1>1, <3>3, SubmittingRow DEF SubmitCatalog
    <3>6. Row(a).operation = kind[a] /\ Row(a).thread = thread[a]
      BY <1>1, <1>2, <3>3, <3>5 DEF RowOK, Operation, CatalogKinds, Gateless, RunKinds, MaintenanceKinds
    <3> QED BY <3>3, <3>4, <3>5, <3>6 DEF SameRow
  <2> QED BY <2>1, <2>2
<1> QED BY <1>1, <1>2 DEF FilingGuarded, Filing, Live, Row, Gone

LEMMA RestFilingGuarded ==
  ASSUME FilingGuarded, Typed, Pauses, FilingStays
  PROVE  FilingGuarded'
<1>1. Sent \subseteq Request  BY SentTyped DEF Typed, Control, TypeOK
<1>2. ASSUME NEW r \in Sent', r.method \in CatalogKinds, ~Gone(r.thread)'
      PROVE  /\ Filing(r.call) /\ Row(r.call).operation = r.method /\ Row(r.call).thread = r.thread
             /\ reservations'[r.call] = Row(r.call)
  <2>1. r \in Sent /\ r.call \in Calls  BY <1>1 DEF Pauses, Request
  <2>2. ~Gone(r.thread)
    <3>1. PICK t : t = r.thread  OBVIOUS
    <3>2. Gone(t) => t \in Threads  BY DEF Gone
    <3> QED BY <1>2, <3>1, <3>2 DEF Pauses, Gone
  <2>3. Filing(r.call) /\ Row(r.call).operation = r.method /\ Row(r.call).thread = r.thread
    BY <1>2, <2>1, <2>2 DEF FilingGuarded
  <2> QED BY <2>1, <2>3 DEF FilingStays, Filing, Row
<1> QED BY <1>2 DEF FilingGuarded, Filing, Live, Row

\* A recovery asks for the half of the catalogue where the mutation would have put the thread.
EvidenceAsked == \A r \in Sent : pc[r.call] = "evidence" =>
  r.archived = (Row(held[r.call]).operation = "archive")

LEMMA StepEvidenceAsked ==
  ASSUME Recoverable, HeldExecution, EvidenceHeld, EvidenceAsked, NEW a \in Calls, Step(a)
  PROVE  EvidenceAsked'
<1>1. /\ Typed /\ Control /\ Pipe /\ TypeOK /\ SourceTypeOK /\ OthersKeep(a) /\ CallOK(a) /\ HeldRow /\ EvidenceHeld'
      /\ Sent \subseteq Request
  BY StepMoved, SentTyped, StepEvidenceHeld DEF Recoverable, Listed, Typed, Control, TypeOK, Moved
<1>2. ASSUME NEW r \in Sent', NEW c, c = r.call, pc'[c] = "evidence"
      PROVE  r.archived = (reservations'[held'[c]].operation = "archive")
  <2>1. CASE r \in Sent
    <3>1. c \in Calls  BY <1>1, <1>2, <2>1 DEF Request
    <3>2. c # a
      <4>1. Open(c)  BY <1>1, <1>2, <2>1 DEF Pipe, OpenCalls
      <4>2. Open(a) => pc'[a] = "done"  BY <1>1, StepSource
      <4> QED BY <1>2, <4>1, <4>2
    <3>3. pc[c] = "evidence" /\ held'[c] = held[c]  BY <1>1, <1>2, <3>1, <3>2 DEF OthersKeep
    <3>4. held[c] # Null  BY <1>1, <3>1, <3>3 DEF Control, CallOK, Equipped
    <3>5. reservations'[held[c]] # Null
      BY <1>1, <1>2, <3>1, <3>3 DEF EvidenceHeld, Filing, Live, Row
    <3>6. reservations'[held[c]].operation = Row(held[c]).operation
      BY <1>1, <3>1, <3>4, <3>5, StepHeldKept
    <3> QED BY <1>2, <2>1, <3>3, <3>6 DEF EvidenceAsked
  <2>2. CASE r \notin Sent
    <3>1. PICK q \in Request : requests' = Append(requests, q) /\ q.call = a /\ Sent' = Sent \cup {q}
      BY <1>1, <1>2, <2>2, StepSource DEF Sent
    <3>2. r = q /\ c = a  BY <1>2, <2>2, <3>1
    <3>3. ReconcileCatalog(a)  BY <1>1, <1>2, <3>2, StepEnters
    <3>4. ~Finish(a) /\ ~Return(a) /\ ~Goto(a, "forget")
      BY <1>1, <1>2, <3>2, FinishEffect, ReturnEffect DEF Return, Goto, TypeOK
    <3>5. PICK id \in ReservedBy(thread[a]) :
            /\ held' = [held EXCEPT ![a] = id] /\ UNCHANGED storeVars
            /\ Send(a, "evidence", Row(id).workspace, Null, Row(id).operation = "archive")
      BY <3>3, <3>4 DEF ReconcileCatalog
    <3>6. thread[a] \in Threads /\ id \in Calls /\ Live(id)
      BY <1>1, <3>3, HasThread DEF ReconcileCatalog, ReservedBy
    <3>7. PICK b \in BOOLEAN : b = (Row(id).operation = "archive")  OBVIOUS
    <3> DEFINE s == [call |-> a, method |-> "evidence", thread |-> thread[a], cwd |-> Row(id).workspace,
                     contract |-> Null, archived |-> b]
    <3>8. requests' = Append(requests, s)  BY <3>5, <3>7 DEF Send
    <3>9. s \in Request
      <4>1. Row(id) \in Reservation  BY <1>1, <3>6, LiveRow DEF TypeOK
      <4>2. Row(id).workspace \in Workspaces  BY <4>1 DEF Reservation
      <4> QED BY <3>6, <3>7, <4>2 DEF Request, Methods
    <3> HIDE DEF s
    <3>10. s = q
      <4>1. requests \in Seq(Request)  BY <1>1 DEF SourceTypeOK
      <4>2. Append(requests, s)[Len(requests) + 1] = s /\ Append(requests, q)[Len(requests) + 1] = q
        BY <3>9, <4>1
      <4> QED BY <3>1, <3>8, <4>2
    <3>11. r.archived = b  BY <3>2, <3>10 DEF s
    <3>12. held'[a] = id /\ reservations'[id] = Row(id)  BY <1>1, <3>5 DEF TypeOK, storeVars, Row
    <3> QED BY <3>2, <3>7, <3>11, <3>12
  <2> QED BY <2>1, <2>2
<1> QED BY <1>2 DEF EvidenceAsked, Row

LEMMA RestEvidenceAsked ==
  ASSUME EvidenceHeld, EvidenceAsked, Typed, Pauses, FilingStays
  PROVE  EvidenceAsked'
<1>1. Sent \subseteq Request  BY SentTyped DEF Typed, Control, TypeOK
<1>2. ASSUME NEW r \in Sent', NEW c, c = r.call, pc'[c] = "evidence"
      PROVE  r.archived = (reservations'[held'[c]].operation = "archive")
  <2>1. r \in Sent /\ c \in Calls  BY <1>1, <1>2 DEF Pauses, Request
  <2>2. pc[c] = "evidence" /\ held'[c] = held[c]  BY <1>2, <2>1 DEF Pauses
  <2>3. held[c] \in Calls  BY <2>1, <2>2 DEF Typed, Control, TypeOK, CallOK, Equipped
  <2>4. reservations'[held[c]] = Row(held[c])
    BY <2>1, <2>2, <2>3 DEF EvidenceHeld, FilingStays, Filing, Row
  <2> QED BY <1>2, <2>1, <2>2, <2>4 DEF EvidenceAsked
<1> QED BY <1>2 DEF EvidenceAsked, Row

\* A positive answer says where the catalogue of the source has the thread.
FilingAnswers == \A c \in Calls : Heeds(c, {"ok"}) =>
  /\ pc[c] = "await" /\ kind[c] \in {"archive", "unarchive"} =>
       thread[c] \in known /\ sourceArchived[thread[c]] = (kind[c] = "archive")
  /\ pc[c] = "evidence" => thread[c] \in known /\ sourceArchived[thread[c]] = (Row(held[c]).operation = "archive")

LEMMA StepFilingAnswers ==
  ASSUME Recoverable, HeldExecution, EvidenceHeld, FilingAnswers, NEW a \in Calls, Step(a)
  PROVE  FilingAnswers'
<1>1. /\ Typed /\ Control /\ Pipe /\ OthersKeep(a) /\ Waits(a) /\ UNCHANGED <<known, sourceArchived, Answers>> /\ HeldRow
      /\ EvidenceHeld' /\ (Open(a) => pc'[a] = "done")
  BY StepMoved, StepWaits, StepSource, StepEvidenceHeld DEF Recoverable, Listed, Typed, Moved
<1>2. ASSUME NEW c \in Calls, Heeds(c, {"ok"})', pc'[c] \in {"await", "evidence"}
      PROVE  /\ c # a /\ Heeds(c, {"ok"}) /\ pc'[c] = pc[c] /\ kind'[c] = kind[c] /\ thread'[c] = thread[c]
             /\ held'[c] = held[c]
             /\ pc[c] = "evidence" => reservations'[held[c]].operation = Row(held[c]).operation
  <2>1. CASE c = a
    <3>1. reply'[c] = Null  BY <1>1, <1>2, <2>1 DEF Waits, Waiting
    <3>2. PICK e \in Answers : e.call = c  BY <1>1, <1>2, <3>1 DEF Heeds
    <3>3. Open(c)  BY <1>1, <3>2 DEF Pipe, OpenCalls
    <3> QED BY <1>1, <1>2, <2>1, <3>3
  <2>2. CASE c # a
    <3>1. /\ Heeds(c, {"ok"}) /\ pc'[c] = pc[c] /\ kind'[c] = kind[c] /\ thread'[c] = thread[c] /\ held'[c] = held[c]
      BY <1>1, <1>2, <2>2 DEF OthersKeep, Heeds
    <3>2. ASSUME pc[c] = "evidence"  PROVE reservations'[held[c]].operation = Row(held[c]).operation
      <4>1. held[c] # Null  BY <1>1, <3>2 DEF Control, CallOK, Equipped
      <4>2. reservations'[held[c]] # Null  BY <1>1, <3>1, <3>2 DEF EvidenceHeld, Filing, Live, Row
      <4> QED BY <1>1, <4>1, <4>2, StepHeldKept
    <3> QED BY <2>2, <3>1, <3>2
  <2> QED BY <2>1, <2>2
<1>3. ASSUME NEW c \in Calls, Heeds(c, {"ok"})'
      PROVE  /\ pc'[c] = "await" /\ kind'[c] \in {"archive", "unarchive"} =>
                  thread'[c] \in known' /\ sourceArchived'[thread'[c]] = (kind'[c] = "archive")
             /\ pc'[c] = "evidence" =>
                  thread'[c] \in known' /\ sourceArchived'[thread'[c]] = (reservations'[held'[c]].operation = "archive")
  BY <1>1, <1>2, <1>3 DEF FilingAnswers
<1> QED BY <1>3 DEF FilingAnswers, Row

LEMMA HushedFilingAnswers ==
  ASSUME Typed, EvidenceHeld, FilingAnswers, Pauses, Hushed, FilingStays
  PROVE  FilingAnswers'
<1>1. ASSUME NEW c \in Calls, Heeds(c, {"ok"})', pc'[c] \in {"await", "evidence"}
      PROVE  /\ Heeds(c, {"ok"}) /\ pc'[c] = pc[c] /\ kind'[c] = kind[c] /\ thread'[c] = thread[c] /\ held'[c] = held[c]
             /\ pc[c] = "evidence" => reservations'[held[c]] = Row(held[c])
  <2>1. pc'[c] = pc[c] /\ kind'[c] = kind[c] /\ thread'[c] = thread[c] /\ held'[c] = held[c]  BY <1>1 DEF Pauses
  <2>2. Heeds(c, {"ok"})  BY <1>1 DEF Heeds, Hushed, Rejection
  <2>3. ASSUME pc[c] = "evidence"  PROVE reservations'[held[c]] = Row(held[c])
    <3>1. held[c] \in Calls  BY <2>3 DEF Typed, Control, TypeOK, CallOK, Equipped
    <3> QED BY <2>3, <3>1 DEF EvidenceHeld, FilingStays, Filing, Row
  <2> QED BY <2>1, <2>2, <2>3
<1>2. ASSUME NEW c \in Calls, Heeds(c, {"ok"})'
      PROVE  /\ pc'[c] = "await" /\ kind'[c] \in {"archive", "unarchive"} =>
                  thread'[c] \in known' /\ sourceArchived'[thread'[c]] = (kind'[c] = "archive")
             /\ pc'[c] = "evidence" =>
                  thread'[c] \in known' /\ sourceArchived'[thread'[c]] = (reservations'[held'[c]].operation = "archive")
  BY <1>1, <1>2 DEF FilingAnswers, Hushed
<1> QED BY <1>2 DEF FilingAnswers, Row

\* Nothing moves a thread in the catalogue under a call that has had its answer.
LEMMA QuietCatalog ==
  ASSUME Typed, Quiet, Source, NEW c \in Calls, Looking(c), \A r \in Sent : r.call # c
  PROVE  /\ sourceArchived'[thread[c]] = sourceArchived[thread[c]]
         /\ thread[c] \in known => thread[c] \in known'
<1>1. /\ Control /\ Pipe /\ SourceTypeOK  BY DEF Typed, Control, TypeOK
<1>2. thread[c] \in Threads  BY <1>1, LookingThread
<1>3. CASE Serve
  <2>1. Served  BY <1>1, <1>3, ServeOutcome
  <2>2. PICK a \in Answer : Outcome(a)  BY <2>1 DEF Served
  <2>3. CASE Filed(a)
    <3>1. Oldest.thread # thread[c]
      BY <1>1, <2>1, <2>3, QuietAnswered DEF Served, Filed, Effects
    <3> QED BY <1>1, <1>2, <2>3, <3>1 DEF Filed, SourceTypeOK
  <2>4. CASE Deleted(a)
    <3>1. Oldest.thread # thread[c]
      BY <1>1, <2>1, <2>4, QuietAnswered DEF Served, Deleted, Effects
    <3> QED BY <2>4, <3>1 DEF Deleted
  <2> QED BY <2>2, <2>3, <2>4 DEF Outcome, Looked, Created, Begun, Resumed
<1>4. CASE ~Serve
  BY <1>4 DEF Source, CompleteTurn, StartForeignTurn
<1> QED BY <1>3, <1>4

LEMMA SourceFilingAnswers ==
  ASSUME Typed, Quiet, EvidenceHeld, EvidenceAsked, FilingAnswers, Source
  PROVE  FilingAnswers'
<1>1. /\ Control /\ Pipe /\ SourceTypeOK /\ OneEach /\ UNCHANGED <<pc, kind, reply, thread, held, reservations>>
  BY DEF Typed, Control, TypeOK, Pipe, Source, callVars, storeVars
<1> DEFINE Says(c, k, b) ==
  /\ pc[c] = "await" /\ kind[c] \in {"archive", "unarchive"} => thread[c] \in k /\ b = (kind[c] = "archive")
  /\ pc[c] = "evidence" => thread[c] \in k /\ b = (Row(held[c]).operation = "archive")
<1>2. ASSUME NEW c \in Calls, Heeds(c, {"ok"}),
             pc[c] = "evidence" \/ (pc[c] = "await" /\ kind[c] \in {"archive", "unarchive"})
      PROVE  Says(c, known', sourceArchived'[thread[c]])
  <2>1. Looking(c)
    <3>1. CallOK(c)  BY <1>1 DEF Control
    <3> QED BY <1>2, <3>1 DEF Looking, CallOK, InPlace, CatalogKinds
  <2>2. \A r \in Sent : r.call # c
    <3>1. CASE reply[c] # Null /\ reply[c].result = "ok"
      <4>1. ~Open(c)  BY <1>2, <3>1 DEF Open
      <4> QED BY <1>1, <4>1, NotOpenSent
    <3>2. CASE \E e \in Answers : e.call = c  BY <1>1, <3>2 DEF OneEach
    <3> QED BY <1>2, <3>1, <3>2 DEF Heeds
  <2>3. /\ sourceArchived'[thread[c]] = sourceArchived[thread[c]]
        /\ thread[c] \in known => thread[c] \in known'
    BY <2>1, <2>2, QuietCatalog
  <2> QED BY <1>2, <2>3 DEF FilingAnswers
<1>3. ASSUME NEW c \in Calls, Heeds(c, {"ok"})', ~Heeds(c, {"ok"}),
             pc[c] = "evidence" \/ (pc[c] = "await" /\ kind[c] \in {"archive", "unarchive"})
      PROVE  Says(c, known', sourceArchived'[thread[c]])
  <2>1. Serve
    <3>1. ASSUME ~Serve  PROVE UNCHANGED Answers
      <4>1. PICK t \in Threads : CompleteTurn(t) \/ \E u \in ForeignTurns : StartForeignTurn(t, u)
        BY <3>1 DEF Source
      <4>2. PICK n \in TurnNotification : n \in Event /\ n.type # "answer" /\ Emit(<<n>>)
        BY <1>1, <4>1, TurnsEmit
      <4> QED BY <1>1, <4>2, NotifyElements DEF OneEach
    <3> QED BY <1>1, <1>3, <3>1 DEF Heeds
  <2>2. Served  BY <1>1, <2>1, ServeOutcome
  <2>3. PICK a \in Answer : a.call = Oldest.call /\ Answers' = Answers \cup {a} /\ Outcome(a)
    BY <2>2 DEF Served
  <2>4. a.call = c /\ a.result = "ok"  BY <1>1, <1>3, <2>3 DEF Heeds
  <2>5. Oldest \in Sent /\ Matches(Oldest) /\ Oldest.call = c
    BY <1>1, <2>2, <2>3, <2>4 DEF Served, Pipe
  <2>6. Oldest.thread = thread[c] /\ Oldest.method = MethodOf(pc[c], kind[c])
    BY <1>3, <2>5 DEF Matches, Waiting
  <2>7. CASE pc[c] = "evidence"
    <3>1. Oldest.method = "evidence"  BY <2>6, <2>7 DEF MethodOf
    <3>2. Looked(a)  BY <2>3, <3>1 DEF Outcome, Created, Begun, Resumed, Filed, Deleted, StartMethods
    <3>3. sourceArchived'[thread[c]] = Oldest.archived /\ thread[c] \in known'
      BY <2>4, <2>6, <3>1, <3>2 DEF Looked, Idle
    <3>4. Oldest.archived = (Row(held[c]).operation = "archive")
      BY <2>5, <2>7 DEF EvidenceAsked
    <3> QED BY <2>7, <3>3, <3>4
  <2>8. CASE pc[c] = "await" /\ kind[c] \in {"archive", "unarchive"}
    <3>1. Oldest.method = kind[c]  BY <2>6, <2>8 DEF MethodOf
    <3>2. Filed(a)  BY <2>3, <2>4, <2>8, <3>1 DEF Outcome, Looked, Created, Begun, Resumed, Deleted, StartMethods
    <3>3. thread[c] \in Threads /\ thread[c] \in known'  BY <1>1, <2>6, <3>2 DEF Filed, SourceTypeOK
    <3>4. sourceArchived'[thread[c]] = (kind[c] = "archive")
      BY <1>1, <2>6, <3>1, <3>2, <3>3 DEF Filed, SourceTypeOK
    <3> QED BY <2>8, <3>3, <3>4
  <2> QED BY <1>3, <2>7, <2>8
<1>4. ASSUME NEW c \in Calls, Heeds(c, {"ok"})',
             pc[c] = "evidence" \/ (pc[c] = "await" /\ kind[c] \in {"archive", "unarchive"})
      PROVE  Says(c, known', sourceArchived'[thread[c]])
  BY <1>2, <1>3, <1>4
<1> QED BY <1>1, <1>4 DEF FilingAnswers, Row

\* Which steps write the archive flag of a thread, or say what it is worth.
LEMMA StepArchives ==
  ASSUME Control, NEW c \in Calls, Step(c), NEW t \in Threads,
         archivedRow'[t] # archivedRow[t] \/ ~(t \in misfiled' <=> t \in misfiled)
  PROVE  \/ Indexes(c, t)
         \/ /\ t = thread[c] /\ gate[c] = t /\ reply[c] # Null /\ reply[c].result = "ok"
            /\ association'[t] = association[t] /\ t \notin misfiled'
            /\ \/ /\ pc[c] = "await" /\ kind[c] \in {"archive", "unarchive"}
                  /\ association[t] # Null => archivedRow'[t] = (kind[c] = "archive")
               \/ /\ pc[c] = "evidence"
                  /\ association[t] # Null => archivedRow'[t] = (Row(held[c]).operation = "archive")
<1>1. TypeOK /\ StoreTypeOK /\ CallOK(c) /\ ~(UNCHANGED <<archivedRow, misfiled>>)  BY DEF Control, TypeOK
<1>2. CASE Run(c)
  <2>1. IndexThread(c)
    BY <1>1, <1>2 DEF Run, StartRun, ReserveRun, ReserveRefused, RecoverRollback, CheckIdle, FailRun, CreateThread,
         ConfirmThread, Bind, BindThread, Submit, Maintain, AcknowledgeTurn, FinishTurn, AcknowledgeMaintained, storeVars,
         Reserve, Release, Fail, SubmittingCreation, ConfirmCreation, Submitting, Acknowledge, AcknowledgeMaintenance,
         ChangeReservations, Still
  <2>2. /\ reply[c].thread # t => archivedRow'[t] = archivedRow[t] /\ (t \in misfiled' <=> t \in misfiled)
        /\ association'[t] = IF reply[c].thread = t /\ association[t] = Null THEN workspace[c] ELSE association[t]
    BY <1>1, <2>1 DEF IndexThread, WriteIndex, Misfile, StoreTypeOK
  <2> QED BY <1>1, <2>1, <2>2 DEF IndexThread, Answered, Goto, Indexes, TypeOK
<1>3. CASE Catalog(c)
  <2>1. CatalogAnswered(c)
    BY <1>1, <1>3 DEF Catalog, StartCatalog, ReserveCatalog, SubmitCatalog, CatalogAnswered, FailCatalog, ReleaseCatalog,
         Forget, ForgetThread, storeVars, Reserve, Submitting, Fail, Release, ChangeReservations, Still
  <2>2. kind[c] # "delete"  BY <1>1, <2>1 DEF CatalogAnswered, ConfirmDeletion, ChangeReservations
  <2>3. thread[c] \in Threads /\ gate[c] = thread[c] /\ kind[c] \in {"archive", "unarchive"}
    BY <1>1, <2>1, <2>2 DEF CatalogAnswered, Answered, CatalogKinds, CallOK, Equipped, Active, Gateless, TypeOK
  <2>4. File(thread[c], kind[c] = "archive") /\ pc[c] = "await" /\ reply[c] # Null /\ reply[c].result = "ok"
    BY <2>1, <2>2 DEF CatalogAnswered, Answered
  <2> QED BY <1>1, <2>3, <2>4 DEF File, WriteArchiveState, StoreTypeOK
<1>4. CASE Select(c)
  BY <1>1, <1>4 DEF Select, StartSelect, SelectIdle, SelectBegin, SelectPrepare, SubmitSwitch, FailSwitch, CommitSwitch,
       CommitTransition, storeVars, BeginTransition, SubmittingTransition, FailTransition, ChangeTransitions, Still
<1>5. CASE Recover(c)
  <2>1. ArchiveVerified(c)
    BY <1>1, <1>5 DEF Recover, StartReconcile, StartReconcileWorkspace, ReconcileTransition, ReconcileCatalog,
         ReconcileExecution, ReleaseIdle, TreatItems, storeVars, FailTransition, ChangeTransitions, Release,
         ChangeReservations, Still
  <2>2. /\ File(thread[c], Row(held[c]).operation = "archive")
        /\ pc[c] = "evidence" /\ reply[c] # Null /\ reply[c].result = "ok"
    BY <1>1, <2>1 DEF ArchiveVerified, storeVars
  <2>3. thread[c] \in Threads /\ gate[c] = thread[c]  BY <2>2, HasThread
  <2> QED BY <1>1, <2>2, <2>3 DEF File, WriteArchiveState, StoreTypeOK
<1> QED BY <1>2, <1>3, <1>4, <1>5 DEF Step

LEMMA IndexArchives ==
  ASSUME Control, NEW c \in Calls, Step(c), NEW t \in Threads, Indexes(c, t)
  PROVE  \/ UNCHANGED <<association, archivedRow, misfiled>>
         \/ archivedRow'[t] = FALSE /\ (t \in misfiled' \/ (t \in known /\ sourceArchived[t] = FALSE))
<1>1. TypeOK /\ StoreTypeOK /\ pc[c] = "newThread" /\ reply[c].thread = t  BY DEF Control, TypeOK, Indexes
<1>2. CASE FailRun(c)  BY <1>2 DEF FailRun, Fail, ChangeReservations, Still
<1>3. CASE IndexThread(c)  BY <1>1, <1>3 DEF IndexThread, WriteIndex, Misfile, StoreTypeOK
<1> QED BY <1>1, <1>2, <1>3, StepAt DEF RunAt, CatalogAt, SelectAt, RecoverAt

\* A mutation whose local cleanup is done: the tables say what the source has, or a
\* list has spoken since.
Matched(t, row) ==
  association[t] = Null \/ t \in misfiled \/ (row.operation # "delete" /\ archivedRow[t] = sourceArchived[t])

FilingSettled == \A c \in Calls :
  pc[c] = "release" /\ Live(Recovered(c)) /\ Row(Recovered(c)).operation \in CatalogKinds =>
    Matched(thread[c], Row(Recovered(c)))

\* The row of a mutation names the mutation.
LEMMA FilingKind ==
  ASSUME Typed, NEW c \in Calls, kind[c] \in CatalogKinds, Live(c)
  PROVE  Row(c).operation = kind[c] /\ Row(c).thread = thread[c]
BY DEF Typed, Rows, RowOK, Operation, CatalogKinds, RunKinds, MaintenanceKinds, Gateless

\* What a call knows of the thread it works on stays, whatever the others do.
LEMMA OthersShelf ==
  ASSUME Typed, Newborn, NEW a \in Calls, Step(a), NEW c \in Calls \ {a}, pc[c] = "release", NEW t, t = thread[c]
  PROVE  /\ t \in Threads /\ archivedRow'[t] = archivedRow[t] /\ (t \in misfiled' <=> t \in misfiled)
         /\ association[t] = Null => association'[t] = Null
<1>1. Control /\ TypeOK /\ StoreTypeOK  BY DEF Typed, Control, TypeOK
<1>2. t \in Threads /\ gate[c] = t /\ t # Null /\ Touches(c, t)
  BY <1>1, HasThread DEF Touches, Active, TypeOK, NullAssumption
<1>3. ~Indexes(a, t)
  BY <1>2 DEF Indexes, Newborn, Carries, Brought, Answered, Marked
<1>4. gate[a] # t  BY <1>1, <1>2 DEF Control, OneGate
<1>5. archivedRow'[t] = archivedRow[t] /\ (t \in misfiled' <=> t \in misfiled)
  BY <1>1, <1>2, <1>3, <1>4, StepArchives
<1>6. association[t] = Null => association'[t] = Null
  <2>1. ASSUME association[t] = Null, association'[t] # Null  PROVE FALSE
    <3>1. Commits(a, t)  BY <1>1, <1>2, <1>3, <2>1, StepPlaces DEF Forgets, Binds
    <3>2. thread[a] = t /\ pc[a] = "switch"  BY <3>1 DEF Commits
    <3> QED BY <1>1, <1>4, <3>2, HasThread
  <2> QED BY <2>1
<1> QED BY <1>2, <1>5, <1>6

LEMMA StepFilingSettled ==
  ASSUME Recoverable, HeldExecution, EvidenceHeld, Newborn, FilingAnswers, FilingSettled, NEW a \in Calls, Step(a)
  PROVE  FilingSettled'
<1>1. /\ Typed /\ Control /\ TypeOK /\ StoreTypeOK /\ OthersKeep(a) /\ CallOK(a) /\ HeldRow /\ UNCHANGED sourceArchived
      /\ RowsMoved(a)
  BY StepMoved, StepSource, StepRows DEF Recoverable, Listed, Typed, Control, TypeOK, Moved, Pipe, Rows
<1> DEFINE Own(c, i) == i = IF kind[c] \in CatalogKinds THEN c ELSE held[c]
           Agrees(t, i) == association'[t] = Null \/ t \in misfiled'
                           \/ (reservations'[i].operation # "delete" /\ archivedRow'[t] = sourceArchived[t])
<1>2. ASSUME NEW c \in Calls \ {a}, pc'[c] = "release", NEW i, Own(c, i), reservations'[i] # Null,
             reservations'[i].operation \in CatalogKinds
      PROVE  /\ kind'[c] = kind[c] /\ thread'[c] = thread[c] /\ held'[c] = held[c]
             /\ Agrees(thread[c], i)
  <2>1. pc[c] = "release" /\ kind'[c] = kind[c] /\ thread'[c] = thread[c] /\ held'[c] = held[c]
    BY <1>1, <1>2 DEF OthersKeep
  <2>2. Live(i) /\ reservations'[i].operation = Row(i).operation
    <3>1. CASE kind[c] \in CatalogKinds  BY <1>1, <1>2, <3>1 DEF RowsMoved, Live, Row
    <3>2. CASE kind[c] \notin CatalogKinds
      <4>1. CallOK(c)  BY <1>1 DEF Control
      <4>2. held[c] # Null  BY <2>1, <3>2, <4>1 DEF CallOK, Equipped, InPlace
      <4> QED BY <1>1, <1>2, <3>2, <4>2, StepHeldKept
    <3> QED BY <3>1, <3>2
  <2>3. Recovered(c) = i  BY <1>2 DEF Recovered
  <2>4. Matched(thread[c], Row(i))  BY <1>2, <2>1, <2>2, <2>3 DEF FilingSettled
  <2>5. PICK t : t = thread[c]  OBVIOUS
  <2>6. /\ archivedRow'[t] = archivedRow[t] /\ (t \in misfiled' <=> t \in misfiled)
        /\ association[t] = Null => association'[t] = Null
    BY <1>1, <2>1, <2>5, OthersShelf
  <2> QED BY <2>1, <2>2, <2>4, <2>5, <2>6 DEF Matched
<1>3. ASSUME pc'[a] = "release", NEW i, i = IF kind'[a] \in CatalogKinds THEN a ELSE held'[a], reservations'[i] # Null,
             reservations'[i].operation \in CatalogKinds
      PROVE  thread'[a] = thread[a] /\ Agrees(thread[a], i)
  <2>1. Forget(a) \/ CatalogAnswered(a) \/ ArchiveVerified(a)  BY <1>1, <1>3, StepEnters
  <2>2. CASE Forget(a)
    <3>1. thread[a] \in Threads  BY <1>1, <2>2, HasThread DEF Forget
    <3> QED BY <1>1, <2>2, <3>1 DEF Forget, ForgetThread, Continue, StoreTypeOK
  <2>3. CASE CatalogAnswered(a)
    <3>1. kind[a] # "delete"
      BY <1>1, <1>3, <2>3 DEF CatalogAnswered, Continue, Goto, TypeOK
    <3>2. /\ File(thread[a], kind[a] = "archive") /\ UNCHANGED <<kind, thread, held>>
          /\ pc[a] = "await" /\ reply[a] # Null /\ reply[a].result = "ok" /\ kind[a] \in {"archive", "unarchive"}
      BY <2>3, <3>1 DEF CatalogAnswered, Answered, Continue, CatalogKinds
    <3>3. Live(a) /\ reservations'[i] = Row(a)
      BY <1>3, <3>2 DEF File, WriteArchiveState, Live, Row, CatalogKinds
    <3>4. Row(a).operation = kind[a]  BY <1>1, <3>2, <3>3, FilingKind DEF CatalogKinds
    <3>5. sourceArchived[thread[a]] = (kind[a] = "archive")  BY <3>2 DEF FilingAnswers, Heeds
    <3>6. thread[a] \in Threads
      BY <1>1, <3>2 DEF CallOK, Equipped, Active, Gateless, TypeOK
    <3> QED BY <1>1, <3>1, <3>2, <3>3, <3>4, <3>5, <3>6 DEF File, WriteArchiveState, StoreTypeOK
  <2>4. CASE ArchiveVerified(a)
    <3>1. ~Finish(a)  BY <1>1, <1>3, FinishEffect
    <3>2. /\ File(thread[a], Row(held[a]).operation = "archive") /\ UNCHANGED <<kind, thread, held>>
          /\ pc[a] = "evidence" /\ reply[a] # Null /\ reply[a].result = "ok" /\ kind[a] \in Reconciles
      BY <1>1, <2>4, <3>1 DEF ArchiveVerified, Continue, CallOK, InPlace
    <3>3. i = held[a] /\ reservations'[i] = Row(i)
      BY <1>3, <3>2 DEF File, WriteArchiveState, Row, CatalogKinds, Reconciles
    <3>4. Row(i).operation # "delete"  BY <3>2, <3>3 DEF EvidenceHeld
    <3>5. sourceArchived[thread[a]] = (Row(i).operation = "archive")  BY <3>2, <3>3 DEF FilingAnswers, Heeds
    <3>6. thread[a] \in Threads  BY <1>1, <3>2, HasThread
    <3> QED BY <1>1, <3>2, <3>3, <3>4, <3>5, <3>6 DEF File, WriteArchiveState, StoreTypeOK
  <2> QED BY <2>1, <2>2, <2>3, <2>4
<1>4. ASSUME NEW c \in Calls, pc'[c] = "release", NEW i, i = IF kind'[c] \in CatalogKinds THEN c ELSE held'[c],
             reservations'[i] # Null, reservations'[i].operation \in CatalogKinds
      PROVE  thread'[c] = thread[c] /\ Agrees(thread[c], i)
  <2>1. CASE c = a  BY <1>3, <1>4, <2>1
  <2>2. CASE c # a
    <3>1. kind'[c] = kind[c] /\ held'[c] = held[c]  BY <1>1, <2>2 DEF OthersKeep
    <3>2. Own(c, i)  BY <1>4, <3>1
    <3> QED BY <1>2, <1>4, <2>2, <3>2
  <2> QED BY <2>1, <2>2
<1>5. ASSUME NEW c \in Calls, pc'[c] = "release", NEW i, i = Recovered(c)', reservations'[i] # Null,
             reservations'[i].operation \in CatalogKinds
      PROVE  association'[thread'[c]] = Null \/ thread'[c] \in misfiled'
             \/ (reservations'[i].operation # "delete" /\ archivedRow'[thread'[c]] = sourceArchived'[thread'[c]])
  BY <1>1, <1>4, <1>5 DEF Recovered
<1> QED BY <1>5 DEF FilingSettled, Matched, Live, Row

LEMMA RestFilingSettled ==
  ASSUME Typed, FilingSettled, Rests, Shelved,
         \A c \in Calls : Looking(c) /\ ~Open(c) => sourceArchived'[thread[c]] = sourceArchived[thread[c]]
  PROVE  FilingSettled'
<1>1. Control /\ TypeOK  BY DEF Typed, Control
<1>2. ASSUME NEW c \in Calls, pc'[c] = "release", NEW i, i = Recovered(c)', reservations'[i] # Null,
             reservations'[i].operation \in CatalogKinds
      PROVE  association'[thread'[c]] = Null \/ thread'[c] \in misfiled'
             \/ (reservations'[i].operation # "delete" /\ archivedRow'[thread'[c]] = sourceArchived'[thread'[c]])
  <2>1. /\ pc[c] = "release" /\ kind'[c] = kind[c] /\ thread'[c] = thread[c] /\ held'[c] = held[c] /\ i = Recovered(c)
        /\ CallOK(c)
    BY <1>1, <1>2 DEF Rests, Pauses, Recovered, Control
  <2>2. i \in Calls  BY <1>1, <2>1 DEF Recovered, CallOK, Equipped, InPlace, TypeOK
  <2>3. Live(i) /\ reservations'[i].operation = Row(i).operation  BY <1>2, <2>2 DEF Rests, Pauses, SameRow
  <2>4. Matched(thread[c], Row(i))  BY <1>2, <2>1, <2>3 DEF FilingSettled
  <2>5. PICK t \in Threads : t = thread[c]  BY <1>1, <2>1, HasThread
  <2>6. association[t] = Null => association'[t] = Null  BY <2>5 DEF Rests, Pauses
  <2>7. Row(i).operation # "delete" => Looking(c)
    BY <2>1, <2>3, <2>2 DEF Looking, Recovered, CallOK, InPlace
  <2>8. ~Open(c)  BY <2>1 DEF Open, Waiting
  <2> QED BY <2>1, <2>3, <2>4, <2>5, <2>6, <2>7, <2>8 DEF Matched, Shelved
<1> QED BY <1>2 DEF FilingSettled, Matched, Live, Row

\* What the tables and the catalogue of the source disagree on is owed to a mutation
\* of that kind, unless it is from a list.
Owed(t, operations) == \E i \in ReservedBy(t) : Filing(i) /\ Row(i).operation \in operations

FilingDue == \A t \in Threads : association[t] # Null /\ t \notin misfiled =>
  /\ t \notin known => Owed(t, {"delete"})
  /\ archivedRow[t] # sourceArchived[t] => Owed(t, {"archive", "unarchive"})

\* A debt is paid by the call that settles it.
LEMMA StepOwed ==
  ASSUME Recoverable, HeldExecution, FilingSettled, NEW a \in Calls, Step(a), NEW t \in Threads,
         NEW O \in SUBSET CatalogKinds, Owed(t, O),
         association[t] # Null, t \notin misfiled,
                                \/ "delete" \in O /\ O = {"delete"}
                                \/ O = {"archive", "unarchive"} /\ archivedRow[t] # sourceArchived[t]
  PROVE  Owed(t, O)'
<1>1. PICK i \in Calls : Live(i) /\ Row(i).thread = t /\ Filing(i) /\ Row(i).operation \in O
  BY DEF Owed, ReservedBy
<1>2. ~Settles(a, i)
  <2>1. ASSUME Settles(a, i)  PROVE FALSE
    <3>1. Matched(t, Row(i))  BY <1>1, <2>1 DEF Settles, FilingSettled, Filing
    <3> QED BY <1>1, <3>1 DEF Matched
  <2> QED BY <2>1
<1>3. /\ reservations'[i] # Null /\ reservations'[i].operation = Row(i).operation
      /\ reservations'[i].thread = t /\ reservations'[i].state # "preparing"
  BY <1>1, <1>2, StepFiling
<1> QED BY <1>1, <1>3 DEF Owed, ReservedBy, Filing, Live, Row

LEMMA OwedStays ==
  ASSUME FilingStays, NEW t \in Threads, NEW O \in SUBSET CatalogKinds, Owed(t, O)
  PROVE  Owed(t, O)'
<1>1. PICK i \in Calls : Live(i) /\ Row(i).thread = t /\ Filing(i) /\ Row(i).operation \in O
  BY DEF Owed, ReservedBy
<1>2. reservations'[i] = Row(i)  BY <1>1 DEF FilingStays, Filing, Row
<1> QED BY <1>1, <1>2 DEF Owed, ReservedBy, Filing, Live, Row

LEMMA StepFilingDue ==
  ASSUME Recoverable, HeldExecution, Newborn, FilingAnswers, FilingSettled, FilingDue, NEW a \in Calls, Step(a)
  PROVE  FilingDue'
<1>1. /\ Typed /\ Control /\ TypeOK /\ StoreTypeOK /\ SourceTypeOK /\ UNCHANGED <<known, sourceArchived>>
  BY StepSource DEF Recoverable, Typed, Control, TypeOK
<1>2. ASSUME NEW t \in Threads, association'[t] # Null, t \notin misfiled'
      PROVE  /\ t \notin known => Owed(t, {"delete"})'
             /\ archivedRow'[t] # sourceArchived[t] => Owed(t, {"archive", "unarchive"})'
  <2>1. ASSUME association[t] # Null, archivedRow'[t] = archivedRow[t], t \notin misfiled
        PROVE  /\ t \notin known => Owed(t, {"delete"})'
               /\ archivedRow'[t] # sourceArchived[t] => Owed(t, {"archive", "unarchive"})'
    <3>1. t \notin known => Owed(t, {"delete"})'
      BY <2>1, StepOwed DEF FilingDue, CatalogKinds
    <3> QED BY <2>1, <3>1, StepOwed DEF FilingDue, CatalogKinds
  <2>2. CASE Indexes(a, t)
    <3>1. t \in known /\ ~sourceArchived[t]
      BY <2>2 DEF Newborn, Carries, Brought, Answered, Indexes
    <3>2. sourceArchived[t] = FALSE  BY <1>1, <3>1 DEF SourceTypeOK
    <3>3. UNCHANGED <<association, archivedRow, misfiled>> \/ archivedRow'[t] = FALSE
      BY <1>1, <2>2, IndexArchives
    <3> QED BY <1>2, <2>1, <3>1, <3>2, <3>3
  <2>3. CASE ~Indexes(a, t) /\ archivedRow'[t] = archivedRow[t] /\ (t \in misfiled' <=> t \in misfiled)
    <3>1. ASSUME association[t] = Null  PROVE FALSE
      <4>1. ~Forgets(a, t) /\ ~Binds(a, t)  BY <1>2, <3>1 DEF Forgets, Binds
      <4>2. ~Commits(a, t)  BY <1>1, <3>1 DEF Commits, CanCommit, StoreTypeOK, Transition
      <4> QED BY <1>1, <1>2, <2>3, <3>1, <4>1, <4>2, StepPlaces
    <3> QED BY <1>2, <2>1, <2>3, <3>1
  <2>4. CASE ~Indexes(a, t) /\ (archivedRow'[t] # archivedRow[t] \/ ~(t \in misfiled' <=> t \in misfiled))
    <3>1. /\ t = thread[a] /\ reply[a] # Null /\ reply[a].result = "ok" /\ association'[t] = association[t]
          /\ \/ /\ pc[a] = "await" /\ kind[a] \in {"archive", "unarchive"}
                /\ association[t] # Null => archivedRow'[t] = (kind[a] = "archive")
             \/ /\ pc[a] = "evidence"
                /\ association[t] # Null => archivedRow'[t] = (Row(held[a]).operation = "archive")
      BY <1>1, <2>4, StepArchives
    <3>2. t \in known /\ archivedRow'[t] = sourceArchived[t]
      BY <1>2, <3>1 DEF FilingAnswers, Heeds
    <3> QED BY <3>2
  <2> QED BY <2>2, <2>3, <2>4
<1> QED BY <1>1, <1>2 DEF FilingDue

LEMMA HushedFilingDue ==
  ASSUME FilingDue, Rests, Hushed, Shelved
  PROVE  FilingDue'
<1>1. ASSUME NEW t \in Threads, association'[t] # Null, t \notin misfiled
      PROVE  /\ t \notin known => Owed(t, {"delete"})'
             /\ archivedRow[t] # sourceArchived[t] => Owed(t, {"archive", "unarchive"})'
  <2>1. association[t] # Null  BY <1>1 DEF Rests
  <2> QED BY <1>1, <2>1, OwedStays DEF FilingDue, CatalogKinds, Shelved
<1> QED BY <1>1 DEF FilingDue, Hushed, Shelved

\* What a list does to the archive flag of a thread.
LEMMA ListsFile ==
  ASSUME Control, Lists, NEW t \in Threads
  PROVE  \/ /\ archivedRow'[t] = archivedRow[t] /\ (t \in misfiled' <=> t \in misfiled)
            /\ association'[t] \in {association[t], Null}
         \/ t \in misfiled'
         \/ t \in known /\ archivedRow'[t] = sourceArchived[t]
<1>1. StoreTypeOK  BY DEF Control, TypeOK
<1>2. CASE UNCHANGED <<storeVars, misfiled>>  BY <1>2 DEF storeVars
<1>3. ASSUME NEW e \in listed, e \in Listing, WriteIndex(e.thread, e.workspace, e.archived), Misfile(e.thread, e.archived)
      PROVE  \/ /\ archivedRow'[t] = archivedRow[t] /\ (t \in misfiled' <=> t \in misfiled)
                /\ association'[t] \in {association[t], Null}
             \/ t \in misfiled'
             \/ t \in known /\ archivedRow'[t] = sourceArchived[t]
  <2>1. CASE e.thread = t  BY <1>1, <1>3, <2>1 DEF WriteIndex, Misfile, StoreTypeOK
  <2>2. CASE e.thread # t  BY <1>1, <1>3, <2>2 DEF WriteIndex, Misfile, StoreTypeOK
  <2> QED BY <2>1, <2>2
<1>4. ASSUME NEW u \in Threads, ForgetThread(u), UNCHANGED misfiled
      PROVE  archivedRow'[t] = archivedRow[t] /\ association'[t] \in {association[t], Null}
  BY <1>1, <1>4 DEF ForgetThread, StoreTypeOK
<1> QED BY <1>2, <1>3, <1>4, ListsEffect

\* A list that is believed puts the flag right, or is older than the source.
LEMMA ListsFiled ==
  ASSUME Typed, ReleasedGone, ForgottenGone, FilingSettled, FilingDue, Lists
  PROVE  FilingSettled' /\ FilingDue'
<1>1. /\ Control /\ TypeOK
      /\ UNCHANGED <<reservations, known, sourceArchived, pc, kind, thread, held>>
  <2>1. Control  BY DEF Typed
  <2>2. UNCHANGED <<sourceVars, callVars>>  BY <2>1, ListsEffect
  <2>3. UNCHANGED reservations  BY <2>1, ListsEffect DEF WriteIndex, ForgetThread, storeVars
  <2> QED BY <2>1, <2>2, <2>3 DEF Control, sourceVars, callVars
<1>2. ASSUME NEW t \in Threads, association'[t] # Null, t \notin misfiled'
      PROVE  /\ t \notin known => Owed(t, {"delete"})'
             /\ archivedRow'[t] # sourceArchived[t] => Owed(t, {"archive", "unarchive"})'
  <2>1. \/ archivedRow'[t] = archivedRow[t] /\ association[t] # Null /\ t \notin misfiled
        \/ t \in known /\ archivedRow'[t] = sourceArchived[t]
    BY <1>1, <1>2, ListsFile
  <2>2. FilingStays  BY <1>1 DEF FilingStays
  <2> QED BY <2>1, <2>2, OwedStays DEF FilingDue, CatalogKinds
<1>3. ASSUME NEW c \in Calls, pc[c] = "release", Live(Recovered(c)), Row(Recovered(c)).operation \in CatalogKinds,
             NEW t, t = thread[c]
      PROVE  association'[t] = Null \/ t \in misfiled'
             \/ (Row(Recovered(c)).operation # "delete" /\ archivedRow'[t] = sourceArchived[t])
  <2>1. t \in Threads /\ CallOK(c)  BY <1>1, <1>3, HasThread DEF Control
  <2>2. association[t] = Null \/ t \in misfiled
        \/ (Row(Recovered(c)).operation # "delete" /\ archivedRow[t] = sourceArchived[t])
    BY <1>3 DEF FilingSettled, Matched
  <2>3. Row(Recovered(c)).operation = "delete" => t \notin known
    <3>1. CASE kind[c] \in CatalogKinds
      BY <1>3, <3>1, FilingKind DEF Recovered, ForgottenGone, Gone
    <3>2. CASE kind[c] \notin CatalogKinds
      BY <1>3, <2>1, <3>2 DEF Recovered, ReleasedGone, Gone, CallOK, InPlace
    <3> QED BY <3>1, <3>2
  <2> QED BY <2>1, <2>2, <2>3, <1>1, ListsFile
<1>4. FilingSettled'
  <2>1. \A c \in Calls : Recovered(c)' = Recovered(c)  BY <1>1 DEF Recovered
  <2> QED BY <1>1, <1>3, <2>1 DEF FilingSettled, Matched, Live, Row
<1> QED BY <1>1, <1>2, <1>4 DEF FilingDue

\* The source moves a thread in its catalogue for a request that has its row.
LEMMA SourceFilingDue ==
  ASSUME Typed, FilingGuarded, FilingDue, Source
  PROVE  FilingDue'
<1>1. /\ Control /\ Pipe /\ TypeOK /\ SourceTypeOK /\ UNCHANGED <<storeVars, misfiled>> /\ FilingStays
  BY OthersShelved DEF Typed, Control, TypeOK, Source, Still, Shelved
<1>2. ASSUME ~Serve  PROVE UNCHANGED <<known, sourceArchived>>
  BY <1>2 DEF Source, CompleteTurn, StartForeignTurn
<1>3. ASSUME NEW t \in Threads, association[t] # Null, t \notin misfiled
      PROVE  /\ t \notin known' => Owed(t, {"delete"})
             /\ archivedRow[t] # sourceArchived'[t] => Owed(t, {"archive", "unarchive"})
  <2>1. CASE Serve
    <3>1. Served  BY <1>1, <2>1, ServeOutcome
    <3>2. PICK a \in Answer : Outcome(a)  BY <3>1 DEF Served
    <3>3. ASSUME Oldest.thread = t, t \in known, Oldest.method \in CatalogKinds
          PROVE  Owed(t, {Oldest.method})
      <4>1. Oldest \in Sent /\ ~Gone(t) /\ Oldest.call \in Calls  BY <3>1, <3>3 DEF Served, Gone, Request
      <4> QED BY <3>3, <4>1, CallsAssumption DEF FilingGuarded, Owed, ReservedBy, Filing
    <3>4. CASE Deleted(a)
      <4>1. Oldest.thread # t => (t \in known <=> t \in known')  BY <3>4 DEF Deleted
      <4>2. sourceArchived' = sourceArchived  BY <3>4 DEF Deleted
      <4>3. Oldest.thread = t => Owed(t, {"delete"})
        BY <3>3, <3>4 DEF Deleted, CatalogKinds
      <4> QED BY <1>3, <4>1, <4>2, <4>3 DEF FilingDue
    <3>5. CASE Filed(a)
      <4>1. known' = known /\ (Oldest.thread # t => sourceArchived'[t] = sourceArchived[t])
        BY <1>1, <3>5 DEF Filed, SourceTypeOK
      <4>2. Oldest.thread = t => Owed(t, {"archive", "unarchive"})
        BY <3>3, <3>5 DEF Filed, CatalogKinds, Owed
      <4> QED BY <1>3, <4>1, <4>2 DEF FilingDue
    <3>6. CASE ~Deleted(a) /\ ~Filed(a)
      <4>1. known \subseteq known' /\ sourceArchived' = sourceArchived
        BY <3>2, <3>6 DEF Outcome, Looked, Created, Begun, Resumed
      <4> QED BY <1>3, <4>1 DEF FilingDue
    <3> QED BY <3>4, <3>5, <3>6
  <2>2. CASE ~Serve
    BY <1>2, <1>3, <2>2 DEF FilingDue
  <2> QED BY <2>1, <2>2
<1>4. ASSUME NEW t \in Threads, association'[t] # Null, t \notin misfiled'
      PROVE  /\ t \notin known' => Owed(t, {"delete"})'
             /\ archivedRow'[t] # sourceArchived'[t] => Owed(t, {"archive", "unarchive"})'
  <2>1. association[t] # Null /\ t \notin misfiled /\ archivedRow'[t] = archivedRow[t]  BY <1>1, <1>4 DEF storeVars
  <2> QED BY <1>1, <1>3, <2>1, OwedStays DEF CatalogKinds
<1> QED BY <1>4 DEF FilingDue

\* What it takes to know where a thread is in the catalogue.
Catalogued ==
  /\ Placed
  /\ HeldExecution /\ EvidenceHeld /\ ReleasedGone /\ ForgottenGone
  /\ FilingGuarded /\ EvidenceAsked /\ FilingAnswers
  /\ FilingSettled /\ FilingDue

LEMMA CataloguedStep ==
  ASSUME Catalogued, [Next]_vars
  PROVE  Catalogued'
<1>1. /\ Placed /\ HeldExecution /\ EvidenceHeld /\ ReleasedGone /\ ForgottenGone /\ FilingGuarded /\ EvidenceAsked
      /\ FilingAnswers /\ FilingSettled /\ FilingDue
      /\ Recoverable /\ Deletion /\ Newborn /\ Quiet /\ Typed /\ HeldRow /\ Pipe
  BY DEF Catalogued, Placed, Recoverable, Listed, Typed
<1>2. Placed'  BY <1>1, PlacedStep
<1>3. ASSUME NEW c \in Calls, Step(c)  PROVE Catalogued'
  <2>1. HeldExecution' /\ EvidenceHeld' /\ ReleasedGone' /\ ForgottenGone'
    BY <1>1, <1>3, StepHeldExecution, StepEvidenceHeld, StepReleasedGone, StepForgottenGone
  <2>2. FilingGuarded' /\ EvidenceAsked' /\ FilingAnswers'
    BY <1>1, <1>3, StepFilingGuarded, StepEvidenceAsked, StepFilingAnswers
  <2>3. FilingSettled' /\ FilingDue'  BY <1>1, <1>3, StepFilingSettled, StepFilingDue
  <2> QED BY <1>2, <2>1, <2>2, <2>3 DEF Catalogued
<1>4. ASSUME Pauses, FilingStays
      PROVE  HeldExecution' /\ EvidenceHeld' /\ ReleasedGone' /\ ForgottenGone' /\ FilingGuarded' /\ EvidenceAsked'
  BY <1>1, <1>4, RestHeldExecution, RestEvidenceHeld, RestReleasedGone, RestForgottenGone, RestFilingGuarded,
     RestEvidenceAsked
<1>5. ASSUME Rests, Hushed, Shelved  PROVE Catalogued'
  <2>1. FilingAnswers' /\ FilingDue'  BY <1>1, <1>5, HushedFilingAnswers, HushedFilingDue DEF Rests, Shelved
  <2>2. \A c \in Calls : sourceArchived'[thread[c]] = sourceArchived[thread[c]]  BY <1>5 DEF Hushed
  <2>3. FilingSettled'  BY <1>1, <1>5, <2>2, RestFilingSettled
  <2> QED BY <1>2, <1>4, <1>5, <2>1, <2>3 DEF Catalogued, Rests, Shelved
<1>6. ASSUME Source  PROVE Catalogued'
  <2>1. Rests /\ Shelved  BY <1>1, <1>6, SourceRests, OthersShelved DEF Source, Still
  <2>2. FilingAnswers' /\ FilingDue'  BY <1>1, <1>6, SourceFilingAnswers, SourceFilingDue
  <2>3. \A c \in Calls : Looking(c) /\ ~Open(c) => sourceArchived'[thread[c]] = sourceArchived[thread[c]]
    BY <1>1, <1>6, NotOpenSent, QuietCatalog
  <2>4. FilingSettled'  BY <1>1, <2>1, <2>3, RestFilingSettled
  <2> QED BY <1>2, <1>4, <2>1, <2>2, <2>4 DEF Catalogued, Rests, Shelved
<1>7. ASSUME \A c \in Calls : ~Queued(c), Deliver  PROVE Catalogued'
  BY <1>1, <1>5, <1>7, DeliverRests, DeliverShelved
<1>8. ASSUME (\E c \in Calls : Timeout(c)) \/ SourceExit \/ Crash \/ UNCHANGED vars  PROVE Catalogued'
  <2>1. UNCHANGED <<storeVars, misfiled>>  BY <1>8 DEF Timeout, SourceExit, Crash, vars, Still
  <2> QED BY <1>1, <1>5, <1>8, <2>1, OtherRests, OthersShelved
<1>9. ASSUME Lists  PROVE Catalogued'
  <2>1. Existed  BY <1>1 DEF Placed
  <2>2. Control  BY <1>1 DEF Typed
  <2>3. Pauses /\ Hushed /\ UNCHANGED reservations  BY <1>9, <2>1, <2>2, ListsRests
  <2>4. FilingStays  BY <2>3 DEF FilingStays
  <2>5. FilingAnswers'  BY <1>1, <2>3, <2>4, HushedFilingAnswers
  <2>6. FilingSettled' /\ FilingDue'  BY <1>1, <1>9, ListsFiled
  <2> QED BY <1>2, <1>4, <2>3, <2>4, <2>5, <2>6 DEF Catalogued
<1> QED BY <1>3, <1>6, <1>7, <1>8, <1>9 DEF Next

LEMMA CataloguedInit == Init => Catalogued
<1> SUFFICES ASSUME Init PROVE Catalogued
  OBVIOUS
<1>1. Placed  BY PlacedInit
<1>2. Sent = {} /\ Answers = {} /\ \A c \in Calls : pc[c] = "idle" /\ reply[c] = Null /\ held[c] = Null
  BY ElementsEmpty DEF Init, SourceInit, Sent, Answers, Heard
<1>3. \A t \in Threads : archivedRow[t] = sourceArchived[t] /\ (association[t] # Null => t \in known)
  BY DEF Init, StoreInit, SourceInit
<1>4. HeldExecution /\ EvidenceHeld /\ ReleasedGone /\ ForgottenGone /\ FilingGuarded /\ EvidenceAsked /\ FilingSettled
  BY <1>2 DEF HeldExecution, EvidenceHeld, ReleasedGone, ForgottenGone, FilingGuarded, EvidenceAsked, FilingSettled
<1>5. FilingAnswers  BY <1>2 DEF FilingAnswers, Heeds
<1>6. FilingDue  BY <1>3 DEF FilingDue
<1> QED BY <1>1, <1>4, <1>5, <1>6 DEF Catalogued

\* What every mutation of the catalogue, and every recovery of one, has written, asked
\* and heard still holds when it is acted on.
THEOREM CatalogueHolds == Spec => []Catalogued
BY CataloguedInit, CataloguedStep, PTL DEF Spec

\* CatalogAgrees: the tables call a thread archived or have it at all, against what the
\* source says, only while a mutation that was sent to the source blocks the thread, or
\* because the list that wrote the thread last was older than the source.
THEOREM CataloguesAgree == Spec => []CatalogAgrees
<1>1. Catalogued => CatalogAgrees
  BY DEF Catalogued, FilingDue, Owed, Filing, CatalogAgrees
<1> QED BY <1>1, CatalogueHolds, PTL

----------------------------------------------------------------------------
(* What is under way at the source, while it has no other client.          *)

\* A dispatched reservation of a thread.
Held(u, t) == Live(u) /\ Row(u).thread = t /\ Row(u).state # "preparing"

\* What a call asked of a thread and nobody knows the end of: its request, its turn,
\* or the news of its turn.
Acts == Effects \ {"switch"}
TurnUnderWay(u, t) == running[t] = u \/ \E e \in Heard : TurnEvent(e) /\ e.turn = u /\ e.thread = t
UnderWay(u, t) == (\E r \in Sent : r.call = u /\ r.thread = t /\ r.method \in Acts) \/ TurnUnderWay(u, t)

\* It is covered by the reservation of its call.
Covered == \A u \in Calls, t \in Threads : UnderWay(u, t) => Held(u, t)

\* Nothing is to come of a turn that is stored as completed.
Over == \A u \in Calls : Live(u) /\ Row(u).state = "completed" =>
  u \in started /\ \A t \in Threads : ~UnderWay(u, t)

\* The reservation a call releases when the thread is idle: the thread is, and there is
\* no news behind the answer that says so.
Vacating(c) == pc[c] = "recoverRead" \/ (pc[c] = "idleRead" /\ held[c] # Null)

Vacant == \A c \in Calls : Vacating(c) =>
  /\ Heeds(c, {"idle"}) => running[thread[c]] = Null
  /\ reply[c] # Null /\ reply[c].result = "idle" => \A e \in Heard : TurnEvent(e) => e.thread # thread[c]
  /\ \A i \in 1..Len(events) : events[i].type = "answer" /\ events[i].call = c /\ events[i].result = "idle" =>
       \A j \in 1..Len(events) : j > i /\ TurnEvent(events[j]) => events[j].thread # thread[c]

\* A mutation that is being settled was dispatched, and a deletion was answered.
HeldMutation == \A c \in Calls : pc[c] \in {"forget", "release"} /\ kind[c] \in Reconciles /\ Live(held[c]) =>
  /\ Row(held[c]).operation \in CatalogKinds /\ Row(held[c]).state # "preparing"
  /\ Row(held[c]).operation = "delete" => \A r \in Sent : r.call # held[c]

\* On what evidence a step deletes a dispatched reservation.
LEMMA HeldFreed ==
  ASSUME Recoverable, NEW a \in Calls, Step(a), NEW i \in Calls, NEW t \in Threads, Held(i, t), reservations'[i] = Null
  PROVE  \/ /\ i = a
            /\ \/ pc[a] = "release" /\ kind[a] \in CatalogKinds
               \/ Row(a).state = "completed"
               \/ pc[a] = "await" /\ reply[a] # Null /\ reply[a].result = "ok" /\ kind[a] = "rollback"
         \/ /\ i = held[a] /\ thread[a] = t /\ gate[a] = t
            /\ \/ Vacating(a) /\ reply[a] # Null /\ reply[a].result = "idle"
               \/ pc[a] = "release" /\ kind[a] \in Reconciles
<1>1. /\ Typed /\ Control /\ TypeOK /\ CallOK(a) /\ RowOK(i) /\ Live(i) /\ HeldRow /\ WorkListed
      /\ Row(i).thread = t /\ Row(i).state # "preparing" /\ t # Null
  BY DEF Recoverable, Listed, Typed, Control, Rows, Held
<1>2. Frees(a, i)  BY <1>1, StepFrees
<1>3. i = a => pc[a] # "confirm"
  BY <1>1 DEF RowOK, CallOK, InPlace
<1>4. CASE i = held[a] /\ pc[a] \in {"recoverRead", "idleRead", "release"}
  <2>1. Row(i).thread = thread[a] /\ held[a] # Null  BY <1>1, <1>4 DEF HeldRow
  <2>2. gate[a] = thread[a]  BY <1>1, <1>4, HasThread
  <2> QED BY <1>1, <1>2, <1>3, <1>4, <2>1, <2>2 DEF Frees, Vacating, Reconciles
<1>5. ~(pc[a] = "items" /\ \E item \in Remaining(a).items : item.id = i /\ item.thread = Null /\ item.state = "preparing")
  <2>1. ASSUME NEW item \in Remaining(a).items, item.id = i, item.thread = Null, item.state = "preparing"  PROVE FALSE
    <3>1. CASE item \in work[a].items  BY <1>1, <2>1, <3>1 DEF WorkListed, Undispatched
    <3>2. CASE item \in ReservationItems(workspace[a])  BY <1>1, <2>1, <3>2 DEF ReservationItems
    <3> QED BY <2>1, <3>1, <3>2 DEF Remaining
  <2> QED BY <2>1
<1> QED BY <1>1, <1>2, <1>3, <1>4, <1>5 DEF Frees

\* A dispatched reservation that is not deleted stays one of its thread.
LEMMA HeldKept ==
  ASSUME Typed, NEW a \in Calls, Step(a), NEW i \in Calls, NEW t \in Threads, Held(i, t), reservations'[i] # Null
  PROVE  Held(i, t)'
<1>1. RowsMoved(a)  BY StepRows DEF Typed, Rows, Pipe
<1>2. reservations'[i].thread = t /\ reservations'[i].state # "preparing"
  <2>1. CASE i # a  BY <1>1, <2>1 DEF RowsMoved, Row, Held
  <2>2. CASE i = a  BY <1>1, <2>2 DEF RowsMoved, Grows, Held
  <2> QED BY <2>1, <2>2
<1> QED BY <1>2 DEF Held, Live, Row

\* The call of a turn that ran.
LEMMA TurnStarted ==
  ASSUME Witnessed, NEW u \in Calls, NEW t \in Threads, TurnUnderWay(u, t)
  PROVE  u \in started /\ kind[u] \in StartKinds /\ pc[u] \in {"await", "after", "done"}
<1>1. u \in started
  BY DEF TurnUnderWay, Witnessed, Traces
<1> QED BY <1>1 DEF Witnessed, StartedOnce

LEMMA VacatingLooks ==
  ASSUME Control, NEW c \in Calls, Vacating(c)
  PROVE  Looking(c) /\ pc[c] \in {"recoverRead", "idleRead"} /\ pc[c] \in Waiting
<1>1. CallOK(c)  BY DEF Control
<1> QED BY <1>1 DEF Vacating, Looking, CallOK, InPlace, Active, Gateless, RunKinds, MaintenanceKinds, Waiting

\* Nothing is under way for a reservation that is deleted.
LEMMA CoveredFreed ==
  ASSUME Witnessed, Over, Vacant, HeldMutation, NEW a \in Calls, Step(a), NEW i \in Calls, NEW t \in Threads,
         UnderWay(i, t), Held(i, t), reservations'[i] = Null
  PROVE  FALSE
<1>1. /\ Recoverable /\ Typed /\ Control /\ Pipe /\ SourceTypeOK /\ Quiet /\ RowOK(i) /\ Sent \subseteq Request
  BY SentTyped DEF Witnessed, Placed, Recoverable, Typed, Control, TypeOK, Rows
<1>2. StartKinds \cap CatalogKinds = {} /\ "rollback" \notin StartKinds  BY DEF StartKinds, CatalogKinds
<1>3. CASE i = a /\ (pc[a] = "release" \/ (pc[a] = "await" /\ reply[a] # Null /\ reply[a].result = "ok"))
           /\ kind[a] \in CatalogKinds \cup {"rollback"}
  <2>1. ~Open(a)  BY <1>3 DEF Open, Waiting
  <2>2. TurnUnderWay(a, t)  BY <1>1, <1>3, <2>1, NotOpenSent DEF UnderWay
  <2> QED BY <1>2, <1>3, <2>2, TurnStarted
<1>4. CASE i = a /\ Row(a).state = "completed"
  BY <1>4 DEF Over, Held
<1>5. CASE i = held[a] /\ thread[a] = t /\ gate[a] = t /\ Vacating(a) /\ reply[a] # Null /\ reply[a].result = "idle"
  <2>1. Looking(a) /\ ~Open(a)  BY <1>1, <1>5, VacatingLooks DEF Open
  <2>2. \A r \in Sent : r.call # a  BY <1>1, <2>1, NotOpenSent
  <2>3. \A r \in Sent : r.thread = t => r.method \notin Acts
    BY <1>1, <1>5, <2>1, <2>2, QuietAnswered DEF Acts
  <2>4. running[t] = Null /\ \A e \in Heard : TurnEvent(e) => e.thread # t
    BY <1>5 DEF Vacant, Heeds
  <2> QED BY <2>3, <2>4 DEF UnderWay, TurnUnderWay
<1>6. CASE i = held[a] /\ thread[a] = t /\ gate[a] = t /\ pc[a] = "release" /\ kind[a] \in Reconciles
  <2>1. /\ Row(i).operation \in CatalogKinds
        /\ Row(i).operation = "delete" => \A r \in Sent : r.call # i
    BY <1>6 DEF HeldMutation, Held
  <2>2. kind[i] \in CatalogKinds
    BY <1>1, <2>1 DEF RowOK, Held, Operation, CatalogKinds, RunKinds, MaintenanceKinds
  <2>3. PICK r \in Sent : r.call = i /\ r.thread = t /\ r.method \in Acts
    BY <1>2, <2>2, TurnStarted DEF UnderWay
  <2>4. Looking(a) /\ ~Open(a)  BY <1>6, <2>1, <2>3 DEF Looking, Held, Open, Waiting
  <2>5. \A q \in Sent : q.call # a  BY <1>1, <2>4, NotOpenSent
  <2> QED BY <1>1, <1>6, <2>3, <2>4, <2>5, QuietAnswered DEF Acts
<1> QED BY <1>1, <1>3, <1>4, <1>5, <1>6, HeldFreed

\* Maintenance goes on under the reservation it was dispatched with.
Resuming == \A c \in Calls : pc[c] = "resume" => Held(c, thread[c])

\* A dispatch is that of the reservation of the call's thread.
LEMMA SubmittingHeld ==
  ASSUME Typed, NEW a \in Calls, Submitting(a)
  PROVE  /\ reservations'[a] # Null /\ reservations'[a].thread = thread[a] /\ reservations'[a].state = "submitting"
<1>1. TypeOK /\ RowOK(a)  BY DEF Typed, Control, Rows
<1>2. Live(a) /\ reservations'[a] # Null /\ SameRow(reservations'[a], Row(a)) /\ reservations'[a].state = "submitting"
  BY <1>1, SubmittingRow DEF TypeOK
<1>3. Row(a).thread # Null  BY DEF Submitting, CanSubmit
<1> QED BY <1>1, <1>2, <1>3 DEF RowOK, SameRow

LEMMA StepResuming ==
  ASSUME Recoverable, Resuming, NEW a \in Calls, Step(a)
  PROVE  Resuming'
<1>1. /\ Typed /\ Control /\ TypeOK /\ OthersKeep(a) /\ OneGate
  BY StepMoved DEF Recoverable, Typed, Control, Moved
<1>2. ASSUME NEW c \in Calls, pc'[c] = "resume", NEW t, t = thread'[c]
      PROVE  reservations'[c] # Null /\ reservations'[c].thread = t /\ reservations'[c].state # "preparing"
  <2>1. CASE c # a
    <3>1. pc[c] = "resume" /\ t = thread[c]  BY <1>1, <1>2, <2>1 DEF OthersKeep
    <3>2. t \in Threads /\ gate[c] = t /\ t # Null /\ Held(c, t)  BY <1>1, <3>1, HasThread DEF Resuming
    <3>3. reservations'[c] # Null
      BY <1>1, <2>1, <3>2, HeldFreed DEF OneGate
    <3> QED BY <1>1, <3>2, <3>3, HeldKept DEF Held, Row
  <2>2. CASE c = a
    <3>1. ~SubmitCatalog(a) /\ ~Maintain(a) /\ ~SubmitSwitch(a)
      BY <1>1, <1>2, <2>2 DEF SubmitCatalog, Maintain, SubmitSwitch, Ask, Goto, TypeOK
    <3>2. Submit(a)  BY <1>1, <1>2, <2>2, <3>1, StepSubmits
    <3>3. Submitting(a) /\ thread' = thread  BY <3>2 DEF Submit, Registers
    <3> QED BY <1>1, <1>2, <2>2, <3>3, SubmittingHeld
  <2> QED BY <2>1, <2>2
<1> QED BY <1>2 DEF Resuming, Held, Live, Row

LEMMA StepCovered ==
  ASSUME Witnessed, Covered, Over, Vacant, HeldMutation, Resuming, NEW a \in Calls, Step(a)
  PROVE  Covered'
<1>1. /\ Recoverable /\ Typed /\ Control /\ TypeOK /\ UNCHANGED <<running, Heard>> /\ Sent \subseteq Request
  BY StepSource, SentTyped DEF Witnessed, Placed, Recoverable, Typed, Control, TypeOK
<1>2. ASSUME NEW u \in Calls, NEW t \in Threads, UnderWay(u, t)  PROVE Held(u, t)'
  <2>1. Held(u, t)  BY <1>2 DEF Covered
  <2>2. reservations'[u] # Null  BY <1>2, <2>1, CoveredFreed
  <2> QED BY <1>1, <2>1, <2>2, HeldKept
<1>3. ASSUME NEW r \in Sent', r \notin Sent, r.method \in Acts, NEW u \in Calls, u = r.call, NEW t \in Threads, t = r.thread
      PROVE  Held(u, t)'
  <2>1. PICK q \in Request : /\ requests' = Append(requests, q) /\ q.call = a /\ Matches(q)'
                             /\ Sent' = Sent \cup {q} /\ pc'[a] \in Waiting
    BY <1>1, <1>3, StepSource DEF Sent
  <2>2. r = q /\ u = a  BY <1>3, <2>1
  <2>3. /\ t = thread[a]
        /\ \/ Submit(a) \/ SubmitCatalog(a) \/ (Maintain(a) /\ pc[a] = "resume")
    <3>1. r.method \in Effects \cup {"resume"} /\ r.method # "switch"  BY <1>3 DEF Acts
    <3>2. Maintain(a) => pc[a] = "resume"  BY DEF Maintain, Answered
    <3> QED BY <1>1, <1>3, <2>1, <2>2, <3>1, <3>2, StepEffects
  <2>4. CASE Submit(a) \/ SubmitCatalog(a)
    <3>1. Submitting(a)  BY <2>4 DEF Submit, SubmitCatalog
    <3> QED BY <1>1, <2>2, <2>3, <3>1, SubmittingHeld DEF Held, Live, Row
  <2>5. CASE Maintain(a) /\ pc[a] = "resume"
    <3>1. Held(a, t) /\ UNCHANGED storeVars  BY <2>3, <2>5 DEF Resuming, Maintain
    <3> QED BY <2>2, <3>1 DEF Held, Live, Row, storeVars
  <2> QED BY <2>3, <2>4, <2>5
<1>4. ASSUME NEW u \in Calls, NEW t \in Threads, UnderWay(u, t)'  PROVE Held(u, t)'
  <2>1. CASE TurnUnderWay(u, t)'
    <3>1. UnderWay(u, t)  BY <1>1, <2>1 DEF UnderWay, TurnUnderWay, TurnEvent
    <3> QED BY <1>2, <3>1
  <2>2. CASE \E r \in Sent' : r.call = u /\ r.thread = t /\ r.method \in Acts
    BY <1>2, <1>3, <2>2 DEF UnderWay
  <2> QED BY <1>4, <2>1, <2>2 DEF UnderWay, Acts, Effects
<1> QED BY <1>4 DEF Covered

\* A call never completes its own turn: that is told by a notification.
LEMMA StepCompletes ==
  ASSUME Typed, NEW a \in Calls, Step(a), reservations'[a] # Null, reservations'[a].state = "completed"
  PROVE  Live(a) /\ Row(a).state = "completed"
<1>1. TypeOK /\ StoreTypeOK  BY DEF Typed, Control, TypeOK
<1>2. CASE UNCHANGED reservations  BY <1>2 DEF Live, Row
<1>3. CASE \E new : ChangeReservations(new) /\ \A i \in Calls : new[i] \in {reservations[i], Null}
  BY <1>3 DEF ChangeReservations, Live, Row
<1>4. CASE Reserve(a, workspace[a], thread[a], Operation(kind[a])) \/ Reserve(a, workspace[a], thread[a], kind[a])
  BY <1>1, <1>4 DEF Reserve, ChangeReservations, StoreTypeOK
<1>5. CASE Fail(a)
  BY <1>1, <1>5 DEF Fail, ChangeReservations, StoreTypeOK, Reservation
<1>6. CASE Submitting(a) \/ SubmittingCreation(a)
  BY <1>1, <1>6, SubmittingRow
<1>7. CASE \E i : Release(i)
  BY <1>1, <1>7 DEF Release, ChangeReservations, StoreTypeOK, Live, Row
<1>8. CASE (\E t : ConfirmCreation(a, t)) \/ ConfirmDeletion(a)
  BY <1>1, <1>8 DEF ConfirmCreation, ConfirmDeletion, CanConfirmDeletion, ChangeReservations, StoreTypeOK, Live, Row, Reservation
<1>9. CASE \E t : BindThread(a, t)
  BY <1>1, <1>9 DEF BindThread, CanBind, StoreTypeOK, Live, Row, Reservation
<1>10. CASE Acknowledge(a, a) \/ AcknowledgeMaintenance(a, a)
  <2>1. Live(a) /\ Row(a) \in Reservation /\ reservations \in [Calls -> Reservation \cup {Null}]
    BY <1>1, <1>10, LiveRow DEF Acknowledge, AcknowledgeMaintenance, CanAcknowledge, CanAcknowledgeMaintenance, StoreTypeOK
  <2>2. CASE Acknowledge(a, a)
    <3>1. reservations'[a] = IF Row(a).state = "completed" THEN Null ELSE Acknowledged(a, a)
      BY <2>1, <2>2 DEF Acknowledge
    <3> QED BY <2>1, <3>1 DEF Acknowledged, Reservation
  <2>3. CASE AcknowledgeMaintenance(a, a) /\ ~Acknowledge(a, a)
    <3>1. reservations'[a] \in {Null, [Row(a) EXCEPT !.acknowledged = TRUE]}
      BY <2>1, <2>3 DEF AcknowledgeMaintenance, ChangeReservations, Row
    <3> QED BY <2>1, <3>1 DEF Reservation
  <2> QED BY <1>10, <2>2, <2>3
<1>11. CASE Run(a)
  BY <1>2, <1>4, <1>5, <1>6, <1>7, <1>8, <1>9, <1>10, <1>11
  DEF Run, StartRun, ReserveRun, ReserveRefused, RecoverRollback, CheckIdle, FailRun, CreateThread, IndexThread, WriteIndex,
      ConfirmThread, Bind, Submit, Maintain, AcknowledgeTurn, FinishTurn, AcknowledgeMaintained, storeVars
<1>12. CASE Catalog(a)
  BY <1>2, <1>4, <1>5, <1>6, <1>7, <1>8, <1>12
  DEF Catalog, StartCatalog, ReserveCatalog, SubmitCatalog, CatalogAnswered, File, WriteArchiveState, FailCatalog, ReleaseCatalog,
      Forget, ForgetThread, storeVars
<1>13. CASE Select(a)
  BY <1>2, <1>13
  DEF Select, StartSelect, SelectIdle, SelectBegin, BeginTransition, SelectPrepare, SubmitSwitch, SubmittingTransition,
      CommitSwitch, CommitTransition, FailSwitch, FailTransition, ChangeTransitions, storeVars
<1>14. CASE Recover(a)
  <2>1. CASE TreatItems(a)
    BY <1>1, <2>1 DEF TreatItems, ChangeReservations, Live, Row, StoreTypeOK
  <2> QED BY <1>2, <1>7, <1>14, <2>1
  DEF Recover, StartReconcile, StartReconcileWorkspace, ReconcileTransition, ReconcileCatalog, ArchiveVerified,
      File, WriteArchiveState, ReconcileExecution, ReleaseIdle, FailTransition, ChangeTransitions, storeVars
<1> QED BY <1>11, <1>12, <1>13, <1>14 DEF Step

LEMMA StepOver ==
  ASSUME Witnessed, Over, NEW a \in Calls, Step(a)
  PROVE  Over'
<1>1. /\ Typed /\ Control /\ TypeOK /\ UNCHANGED <<running, started, Heard>> /\ Sent \subseteq Request /\ StartedOnce'
      /\ RowsMoved(a)
  BY StepSource, SentTyped, StepStartedOnce, StepRows DEF Witnessed, Placed, Recoverable, Typed, Control, TypeOK, Pipe, Rows
<1>2. ASSUME NEW u \in Calls, reservations'[u] # Null, reservations'[u].state = "completed"
      PROVE  u \in started /\ \A t \in Threads : ~UnderWay(u, t)'
  <2>1. Live(u) /\ Row(u).state = "completed"
    <3>1. CASE u # a  BY <1>1, <1>2, <3>1 DEF RowsMoved, Live, Row
    <3> QED BY <1>1, <1>2, <3>1, StepCompletes
  <2>2. u \in started /\ \A t \in Threads : ~UnderWay(u, t)  BY <2>1 DEF Over
  <2>3. ASSUME NEW r \in Sent', r \notin Sent, r.call = u, r.method \in Acts  PROVE FALSE
    <3>1. PICK q \in Request : q.call = a /\ Matches(q)' /\ Sent' = Sent \cup {q}
      BY <1>1, <2>3, StepSource DEF Sent
    <3>2. r = q  BY <2>3, <3>1
    <3>3. kind'[u] \in StartKinds /\ r.method \notin StartMethods  BY <1>1, <2>2, <2>3 DEF StartedOnce
    <3>4. r.method \in MaintenanceKinds \cup CatalogKinds => kind'[u] = r.method
      BY <2>3, <3>1, <3>2 DEF Matches
    <3> QED BY <2>3, <3>3, <3>4 DEF Acts, Effects, StartMethods, StartKinds, MaintenanceKinds, CatalogKinds
  <2>4. ASSUME NEW t \in Threads, UnderWay(u, t)'  PROVE FALSE
    <3>1. CASE TurnUnderWay(u, t)'
      <4>1. UnderWay(u, t)  BY <1>1, <3>1 DEF UnderWay, TurnUnderWay, TurnEvent
      <4> QED BY <2>2, <4>1
    <3>2. CASE \E r \in Sent' : r.call = u /\ r.thread = t /\ r.method \in Acts
      BY <2>2, <2>3, <3>2 DEF UnderWay
    <3> QED BY <2>4, <3>1, <3>2 DEF UnderWay, Acts, Effects
  <2> QED BY <2>2, <2>4
<1> QED BY <1>1, <1>2 DEF Over, Live, Row

\* A mutation is sent by the step that dispatches its reservation.
LEMMA MutationSent ==
  ASSUME Typed, NEW a \in Calls, Step(a), kind[a] \in CatalogKinds, Live(a), Sent' # Sent
  PROVE  Row(a).state = "preparing"
<1>1. /\ Control /\ TypeOK /\ Retains(a) /\ ~UNCHANGED sourceVars /\ RowOK(a)
  BY StepRetains DEF Typed, Control, Rows, sourceVars, Sent
<1>2. pc[a] # "idle" /\ kind'[a] = kind[a]
  BY <1>1 DEF Retains, RowOK
<1>3. Catalog(a) /\ CatalogAt(a)
  BY <1>1, <1>2, StepAt, RunKind, SelectKind, RecoverKind DEF RunKinds, MaintenanceKinds, CatalogKinds
<1>4. SubmitCatalog(a)
  BY <1>1, <1>2, <1>3 DEF CatalogAt, ReserveCatalog, CatalogAnswered, FailCatalog, Forget, ReleaseCatalog
<1> QED BY <1>4 DEF SubmitCatalog, Submitting, CanSubmit

\* The requests of a call that does not send are there already.
LEMMA StepSentOld ==
  ASSUME Typed, NEW a \in Calls, Step(a), NEW i \in Calls, \A r \in Sent : r.call # i, i # a \/ Sent' = Sent
  PROVE  \A r \in Sent' : r.call # i
BY StepSource DEF Sent

\* A deletion that was answered has been served.
ConfirmedAnswered == \A i \in Calls : IsDeletionConfirmed(i) =>
  Row(i).state # "preparing" /\ \A r \in Sent : r.call # i

LEMMA StepConfirmedAnswered ==
  ASSUME Typed, ConfirmedAnswered, NEW a \in Calls, Step(a)
  PROVE  ConfirmedAnswered'
<1>1. Control /\ TypeOK /\ Pipe /\ RowsMoved(a) /\ RowOK(a)
  BY StepRows DEF Typed, Control, Rows, Pipe
<1>2. ASSUME NEW i \in Calls, IsDeletionConfirmed(i)'
      PROVE  reservations'[i].state # "preparing" /\ \A r \in Sent' : r.call # i
  <2>1. /\ Live(i)
        /\ IsDeletionConfirmed(i) \/ (i = a /\ DeleteAnswered(a))
    BY <1>2, StepConfirms
  <2>2. reservations'[i] # Null  BY <1>2 DEF IsDeletionConfirmed, Live, Row
  <2>3. Row(i).state # "preparing" /\ \A r \in Sent : r.call # i
    <3>1. CASE IsDeletionConfirmed(i)  BY <3>1 DEF ConfirmedAnswered
    <3>2. CASE i = a /\ DeleteAnswered(a)
      <4>1. ~Open(a)  BY <3>2 DEF DeleteAnswered, Open
      <4>2. Row(a).state # "preparing"  BY <1>1, <2>1, <3>2 DEF RowOK, DeleteAnswered
      <4> QED BY <1>1, <3>2, <4>1, <4>2, NotOpenSent
    <3> QED BY <2>1, <3>1, <3>2
  <2>4. CASE i # a
    <3>1. reservations'[i] = Row(i)  BY <1>1, <2>2, <2>4 DEF RowsMoved, Row
    <3> QED BY <2>3, <2>4, <3>1, StepSentOld
  <2>5. CASE i = a
    <3>1. reservations'[a].state # "preparing" /\ reservations'[a].operation = Row(a).operation
      BY <1>1, <2>1, <2>2, <2>3, <2>5 DEF RowsMoved, Grows
    <3>2. kind[a] \in CatalogKinds
      BY <1>1, <1>2, <2>1, <2>5, <3>1
      DEF RowOK, IsDeletionConfirmed, Row, Operation, CatalogKinds, RunKinds, MaintenanceKinds
    <3>3. Sent' = Sent  BY <2>1, <2>3, <2>5, <3>2, MutationSent
    <3> QED BY <2>3, <2>5, <3>1, <3>3, StepSentOld
  <2> QED BY <2>4, <2>5
<1> QED BY <1>2 DEF ConfirmedAnswered, Row

LEMMA StepHeldMutation ==
  ASSUME Recoverable, EvidenceHeld, ConfirmedAnswered, HeldMutation, NEW a \in Calls, Step(a)
  PROVE  HeldMutation'
<1>1. /\ Typed /\ Control /\ TypeOK /\ Pipe /\ HeldRow /\ OthersKeep(a) /\ RowsMoved(a) /\ (\A i \in Calls : RowOK(i))
      /\ Sent \subseteq Sent'
  BY StepMoved, StepRows, StepSource DEF Recoverable, Listed, Typed, Control, Rows, Pipe, Moved
<1>2. ASSUME NEW i \in Calls, Live(i), reservations'[i] # Null, Row(i).operation \in CatalogKinds, Row(i).state # "preparing",
             Row(i).operation = "delete" => \A r \in Sent : r.call # i
      PROVE  /\ reservations'[i].operation = Row(i).operation /\ reservations'[i].state # "preparing"
             /\ Row(i).operation = "delete" => \A r \in Sent' : r.call # i
  <2>1. reservations'[i].operation = Row(i).operation /\ reservations'[i].state # "preparing"
    <3>1. CASE i # a  BY <1>1, <1>2, <3>1 DEF RowsMoved, Row
    <3>2. CASE i = a  BY <1>1, <1>2, <3>2 DEF RowsMoved, Grows
    <3> QED BY <3>1, <3>2
  <2>2. ASSUME Row(i).operation = "delete"  PROVE \A r \in Sent' : r.call # i
    <3>1. i = a => Sent' = Sent
      <4>1. kind[i] \in CatalogKinds
        BY <1>1, <1>2, <2>2 DEF RowOK, Operation, CatalogKinds, RunKinds, MaintenanceKinds
      <4> QED BY <1>1, <1>2, <4>1, MutationSent
    <3> QED BY <1>1, <1>2, <2>2, <3>1, StepSentOld
  <2> QED BY <2>1, <2>2
<1> DEFINE Good(i) ==
  /\ reservations'[i].operation \in CatalogKinds /\ reservations'[i].state # "preparing"
  /\ reservations'[i].operation = "delete" => \A r \in Sent' : r.call # i
<1>3. ASSUME NEW i \in Calls, Live(i), reservations'[i] # Null, Row(i).operation \in CatalogKinds, Row(i).state # "preparing",
             Row(i).operation = "delete" => \A r \in Sent : r.call # i
      PROVE  Good(i)
  BY <1>2, <1>3
<1>4. ASSUME NEW c \in Calls, pc'[c] \in {"forget", "release"}, kind'[c] \in Reconciles, reservations'[held'[c]] # Null
      PROVE  Good(held'[c])
  <2>1. ASSUME pc[c] \in {"forget", "release"}, kind[c] \in Reconciles, held'[c] = held[c]  PROVE Good(held[c])
    <3>1. held[c] # Null /\ held[c] \in Calls  BY <1>1, <2>1 DEF Control, CallOK, Equipped, TypeOK
    <3>2. Live(held[c])  BY <1>1, <1>4, <2>1, <3>1, StepHeldKept
    <3> QED BY <1>3, <1>4, <2>1, <3>1, <3>2 DEF HeldMutation
  <2>2. CASE c # a
    BY <1>1, <1>4, <2>1, <2>2 DEF OthersKeep
  <2>3. CASE c = a /\ pc'[a] = "release"
    <3>1. Forget(a) \/ CatalogAnswered(a) \/ ArchiveVerified(a)  BY <1>1, <2>3, StepEnters
    <3>2. CASE Forget(a)
      BY <1>4, <2>1, <2>3, <3>2 DEF Forget, Continue
    <3>3. CASE CatalogAnswered(a)
      <4>1. kind'[a] = kind[a]  BY <3>3 DEF CatalogAnswered, Continue
      <4> QED BY <1>4, <2>3, <3>3, <4>1 DEF CatalogAnswered, Reconciles, CatalogKinds
    <3>4. CASE ArchiveVerified(a)
      <4>1. pc[a] = "evidence"  BY <3>4 DEF ArchiveVerified
      <4>2. Filing(held[a]) /\ Row(held[a]).operation # "delete" /\ held[a] \in Calls
        BY <1>1, <4>1 DEF EvidenceHeld, Control, CallOK, Equipped, TypeOK
      <4>3. held'[a] = held[a]
        <5>1. ~Finish(a)  BY <1>1, <2>3, FinishEffect
        <5> QED BY <3>4, <5>1 DEF ArchiveVerified, Continue
      <4> QED BY <1>3, <1>4, <2>3, <4>2, <4>3 DEF Filing
    <3> QED BY <3>1, <3>2, <3>3, <3>4
  <2>4. CASE c = a /\ pc'[a] = "forget"
    <3>1. PICK id \in ReservedBy(thread[a]) : /\ IsDeletionConfirmed(id) /\ Row(id).state # "preparing"
                                              /\ held' = [held EXCEPT ![a] = id] /\ UNCHANGED <<storeVars, sourceVars>>
      BY <1>1, <1>4, <2>4, ForgetEnters
    <3>2. id \in Calls /\ held'[a] = id  BY <1>1, <3>1 DEF ReservedBy, TypeOK
    <3>3. Row(id).operation \in CatalogKinds /\ \A r \in Sent : r.call # id
      BY <3>1, <3>2 DEF ConfirmedAnswered, IsDeletionConfirmed, CatalogKinds
    <3>4. Good(id)  BY <1>3, <1>4, <2>4, <3>1, <3>2, <3>3 DEF IsDeletionConfirmed
    <3> QED BY <2>4, <3>2, <3>4
  <2> QED BY <1>4, <2>2, <2>3, <2>4
<1> QED BY <1>4 DEF HeldMutation, Live, Row

\* Nothing more is told of a turn that was told to be over.
Last == \A i \in 1..Len(events) : events[i].type = "completed" =>
  /\ \A j \in 1..Len(events) : j > i /\ TurnEvent(events[j]) => events[j].turn # events[i].turn
  /\ \A t \in Threads : running[t] # events[i].turn

LEMMA StepLast ==
  ASSUME Typed, Last, NEW a \in Calls, Step(a)
  PROVE  Last'
BY StepSource DEF Last, TurnEvent

\* The answer to a question about a thread is not there before the question.
LEMMA StepVacant ==
  ASSUME Typed, Vacant, NEW a \in Calls, Step(a)
  PROVE  Vacant'
<1>1. /\ Control /\ Pipe /\ OthersKeep(a) /\ Waits(a) /\ UNCHANGED <<running, events, Heard, Answers>>
      /\ (Open(a) => pc'[a] = "done")
  BY StepMoved, StepWaits, StepSource DEF Typed, Moved
<1>2. ASSUME NEW c \in Calls, Vacating(c)', NEW t, t = thread'[c]
      PROVE  /\ Heeds(c, {"idle"})' => running'[t] = Null
             /\ reply'[c] # Null /\ reply'[c].result = "idle" => \A e \in Heard' : TurnEvent(e) => e.thread # t
             /\ \A i \in 1..Len(events') : events'[i].type = "answer" /\ events'[i].call = c /\ events'[i].result = "idle" =>
                  \A j \in 1..Len(events') : j > i /\ TurnEvent(events'[j]) => events'[j].thread # t
  <2>1. CASE c = a
    <3>1. pc'[a] \in Waiting /\ pc'[a] # "done"  BY <1>2, <2>1 DEF Vacating, Waiting
    <3>2. reply'[a] = Null  BY <1>1, <3>1 DEF Waits
    <3>3. \A e \in Answers : e.call # a  BY <1>1, <3>1 DEF Pipe, OpenCalls
    <3>4. ~Heeds(c, {"idle"})'  BY <1>1, <2>1, <3>2, <3>3 DEF Heeds
    <3>5. \A i \in 1..Len(events') : events'[i].type = "answer" => events'[i].call # a
      BY <1>1, <3>3 DEF Answers, Heard, Elements
    <3> QED BY <2>1, <3>2, <3>4, <3>5
  <2>2. CASE c # a
    <3>1. Vacating(c) /\ thread[c] = t /\ reply'[c] = reply[c]  BY <1>1, <1>2, <2>2 DEF OthersKeep, Vacating
    <3>2. Heeds(c, {"idle"})' = Heeds(c, {"idle"})  BY <1>1, <3>1 DEF Heeds
    <3> QED BY <1>1, <3>1, <3>2 DEF Vacant
  <2> QED BY <2>1, <2>2
<1>3. ASSUME NEW c \in Calls, Vacating(c)'
      PROVE  /\ Heeds(c, {"idle"})' => running'[thread'[c]] = Null
             /\ reply'[c] # Null /\ reply'[c].result = "idle" => \A e \in Heard' : TurnEvent(e) => e.thread # thread'[c]
             /\ \A i \in 1..Len(events') : events'[i].type = "answer" /\ events'[i].call = c /\ events'[i].result = "idle" =>
                  \A j \in 1..Len(events') : j > i /\ TurnEvent(events'[j]) => events'[j].thread # thread'[c]
  BY <1>2, <1>3
<1> QED BY <1>3 DEF Vacant, TurnEvent

\* A call whose turn ran has nothing else under way.
LEMMA StartedRequests ==
  ASSUME Typed, StartedOnce, NEW r \in Sent, r.call \in started
  PROVE  r.method \notin Acts
<1>1. r \in Request /\ Matches(r)  BY SentTyped DEF Typed, Control, TypeOK, Pipe
<1>2. kind[r.call] \in StartKinds /\ r.method \notin StartMethods  BY <1>1 DEF StartedOnce, Request
<1>3. r.method \in MaintenanceKinds \cup CatalogKinds => kind[r.call] = r.method  BY <1>1 DEF Matches
<1> QED BY <1>2, <1>3 DEF Acts, Effects, StartMethods, StartKinds, MaintenanceKinds, CatalogKinds

LEMMA RestUnderWay ==
  ASSUME Pauses, Hushed, NEW u \in Calls, NEW t \in Threads, UnderWay(u, t)'
  PROVE  UnderWay(u, t)
BY DEF Pauses, Hushed, UnderWay, TurnUnderWay, TurnEvent, Acts, Effects

\* What the source does without other clients it was asked for.
LEMMA CompletedHeard ==
  ASSUME Typed, NEW s \in Threads, CompleteTurn(s), NEW n, n = [type |-> "completed", thread |-> s, turn |-> running[s]]
  PROVE  n \in Event /\ n.type = "completed" /\ Heard' = Heard \cup {n} /\ events' = Append(events, n)
<1>1. SourceTypeOK /\ OneAnswerEach(events)  BY DEF Typed, Control, TypeOK, Pipe, OneEach
<1>2. running[s] \in Calls \cup ForeignTurns  BY <1>1 DEF CompleteTurn, SourceTypeOK
<1>3. n \in Event /\ n.type = "completed"  BY <1>2, StartedOK
<1>4. Emit(<<n>>)  BY DEF CompleteTurn
<1>5. Heard' = Heard \cup {n}  BY <1>1, <1>3, <1>4, NotifyElements
<1>6. events' = Append(events, n)  BY <1>1, <1>3, <1>4 DEF Emit, SourceTypeOK
<1> QED BY <1>3, <1>5, <1>6

LEMMA SourceUnderWay ==
  ASSUME ForeignTurns = {}, Typed, Source, NEW u \in Calls, NEW t \in Threads, UnderWay(u, t)'
  PROVE  UnderWay(u, t)
<1>1. Control /\ Pipe /\ SourceTypeOK  BY DEF Typed, Control, TypeOK
<1>2. Sent' \subseteq Sent  BY <1>1, SourceSent
<1>3. (\E r \in Sent' : r.call = u /\ r.thread = t /\ r.method \in Acts) \/ TurnUnderWay(u, t)'
  BY DEF UnderWay, Acts, Effects
<1>4. ASSUME TurnUnderWay(u, t)'  PROVE UnderWay(u, t)
  <2>1. CASE Serve
    <3>1. Served  BY <1>1, <2>1, ServeOutcome
    <3>2. PICK a \in Answer : Outcome(a)  BY <3>1 DEF Served
    <3>3. ~TurnEvent(a)  BY DEF TurnEvent, Answer
    <3>4. CASE Begun(a)
      <4> DEFINE n == [type |-> "started", thread |-> Oldest.thread, turn |-> Oldest.call]
      <4>1. Heard' = Heard \cup {a, n} /\ running' = [running EXCEPT ![Oldest.thread] = Oldest.call]  BY <3>4 DEF Begun
      <4>2. n.thread = Oldest.thread /\ n.turn = Oldest.call  OBVIOUS
      <4> HIDE DEF n
      <4>3. TurnUnderWay(u, t) \/ (Oldest.thread = t /\ Oldest.call = u)
        BY <1>1, <1>4, <3>3, <4>1, <4>2 DEF TurnUnderWay, TurnEvent, SourceTypeOK
      <4>4. Oldest \in Sent /\ Oldest.method \in Acts
        BY <3>1, <3>4 DEF Served, Begun, Acts, Effects, StartMethods
      <4> QED BY <4>3, <4>4 DEF UnderWay
    <3>5. CASE Deleted(a)
      <4> DEFINE n == [type |-> "deleted", thread |-> Oldest.thread]
      <4>1. Heard' = Heard \cup {a, n} /\ running' = [running EXCEPT ![Oldest.thread] = Null]  BY <3>5 DEF Deleted
      <4>2. ~TurnEvent(n)  BY DEF TurnEvent
      <4> HIDE DEF n
      <4> QED BY <1>1, <1>4, <3>3, <4>1, <4>2 DEF UnderWay, TurnUnderWay, TurnEvent, SourceTypeOK
    <3>6. CASE Looked(a) \/ Created(a) \/ Resumed(a) \/ Filed(a)
      <4>1. Heard' = Heard \cup {a} /\ running' = running  BY <3>6 DEF Looked, Created, Resumed, Filed
      <4> QED BY <1>4, <3>3, <4>1 DEF UnderWay, TurnUnderWay, TurnEvent
    <3> QED BY <3>2, <3>4, <3>5, <3>6 DEF Outcome
  <2>2. ASSUME NEW s \in Threads, CompleteTurn(s)  PROVE UnderWay(u, t)
    <3>1. PICK n : n = [type |-> "completed", thread |-> s, turn |-> running[s]]  OBVIOUS
    <3>2. Heard' = Heard \cup {n} /\ n.thread = s /\ n.turn = running[s]  BY <2>2, <3>1, CompletedHeard
    <3>3. running' = [running EXCEPT ![s] = Null]  BY <2>2 DEF CompleteTurn
    <3> QED BY <1>1, <1>4, <3>2, <3>3 DEF UnderWay, TurnUnderWay, TurnEvent, SourceTypeOK
  <2> QED BY <2>1, <2>2 DEF Source
<1> QED BY <1>2, <1>3, <1>4 DEF UnderWay

LEMMA EmittedOne ==
  ASSUME SourceTypeOK, NEW e \in Event, Emit(<<e>>)
  PROVE  /\ Len(events') = Len(events) + 1 /\ events'[Len(events) + 1] = e
         /\ \A i \in 1..Len(events) : events'[i] = events[i]
BY DEF SourceTypeOK, Emit

LEMMA EmittedTwo ==
  ASSUME SourceTypeOK, NEW e \in Event, NEW f \in Event, Emit(<<e, f>>)
  PROVE  /\ Len(events') = Len(events) + 2 /\ events'[Len(events) + 1] = e /\ events'[Len(events) + 2] = f
         /\ \A i \in 1..Len(events) : events'[i] = events[i]
BY DEF SourceTypeOK, Emit

\* What the source says next, and of which turn.
Told == {k \in 1..Len(events') : k > Len(events)}

Mute ==
  /\ \A k \in Told : events'[k].type \notin {"started", "completed"}
  /\ \A t \in Threads : running'[t] \in {running[t], Null}

Opening ==
  /\ Oldest \in Sent /\ Oldest.method \in StartMethods
  /\ running' = [running EXCEPT ![Oldest.thread] = Oldest.call]
  /\ \A k \in Told : events'[k].type # "completed" /\
       (events'[k].type = "started" => events'[k].thread = Oldest.thread /\ events'[k].turn = Oldest.call)

Ending(s) ==
  /\ running[s] # Null /\ running' = [running EXCEPT ![s] = Null]
  /\ Len(events') = Len(events) + 1 /\ events'[Len(events) + 1].type = "completed"
  /\ events'[Len(events) + 1].thread = s /\ events'[Len(events) + 1].turn = running[s]

Tells ==
  /\ Len(events) <= Len(events')
  /\ \A i \in 1..Len(events) : events'[i] = events[i]
  /\ Mute \/ Opening \/ \E s \in Threads : Ending(s)
  /\ \A k \in Told : events'[k].type = "answer" /\ events'[k].result = "idle" =>
       /\ Oldest \in Sent /\ events'[k].call = Oldest.call
       /\ running[Oldest.thread] = Null /\ running' = running /\ Len(events') = k

LEMMA SourceTells ==
  ASSUME ForeignTurns = {}, Typed, Source
  PROVE  Tells
<1>1. SourceTypeOK /\ Pipe /\ events \in Seq(Event)  BY DEF Typed, Control, TypeOK, SourceTypeOK
<1>2. ASSUME NEW result \in Results, NEW x \in Threads \cup {Null}, requests # <<>>, Emit(<<Reply(result, x)>>),
             \A t \in Threads : running'[t] \in {running[t], Null},
             result = "idle" => running[Oldest.thread] = Null /\ running' = running
      PROVE  Tells
  <2>1. Reply(result, x) \in Event  BY <1>1, <1>2, ReplyType
  <2>2. /\ Reply(result, x).type = "answer" /\ Reply(result, x).result = result /\ Reply(result, x).call = Oldest.call
    BY DEF Reply
  <2>3. Oldest \in Sent  BY <1>1, <1>2 DEF SourceTypeOK, Sent, Elements, Oldest
  <2>4. /\ Len(events') = Len(events) + 1 /\ events'[Len(events) + 1] = Reply(result, x)
        /\ \A i \in 1..Len(events) : events'[i] = events[i]
    BY <1>1, <1>2, <2>1, EmittedOne
  <2>5. \A k \in Told : k = Len(events) + 1 /\ k = Len(events')  BY <1>1, <2>4 DEF Told
  <2>6. Mute  BY <1>2, <2>2, <2>4, <2>5 DEF Mute
  <2> QED BY <1>1, <1>2, <2>2, <2>3, <2>4, <2>5, <2>6 DEF Tells
<1>3. CASE Serve
  <2>1. requests # <<>> /\ Oldest \in Sent  BY <1>1, <1>3 DEF Serve, SourceTypeOK, Sent, Elements, Oldest
  <2>2. Oldest \in Request  BY <1>1, <2>1, SentTyped
  <2>3. CASE ServeRead
    <3>1. PICK result \in Results : /\ result = IF Oldest.thread \notin known THEN "error"
                                         ELSE IF Idle(Oldest.thread) THEN "idle" ELSE "active"
      BY DEF Results
    <3>2. Emit(<<Reply(result, Null)>>) /\ running' = running  BY <2>3, <3>1 DEF ServeRead
    <3>3. result = "idle" => running[Oldest.thread] = Null  BY <3>1 DEF Idle
    <3> QED BY <1>2, <2>1, <3>2, <3>3
  <2>4. CASE ServeEvidence
    <3>1. PICK result \in {"ok", "error"} : Emit(<<Reply(result, Null)>>)  BY <2>4 DEF ServeEvidence
    <3> QED BY <1>2, <2>1, <2>4, <3>1 DEF ServeEvidence, Results
  <2>5. CASE ServeNewThread
    BY <1>2, <2>1, <2>5 DEF ServeNewThread, Results
  <2>6. CASE ServeStart
    <3> DEFINE n == [type |-> "started", thread |-> Oldest.thread, turn |-> Oldest.call]
    <3>1. Oldest.thread \in Threads /\ Oldest.call \in Calls  BY <1>1, <2>2, <2>6 DEF ServeStart, Idle, SourceTypeOK, Request
    <3>2. n \in Event  BY <3>1, StartedOK
    <3>3. Reply("ok", Null) \in Event  BY <1>1, <2>1, ReplyType DEF Results
    <3>4. Reply("ok", Null).type = "answer" /\ Reply("ok", Null).result = "ok"  BY DEF Reply
    <3>5. n.type = "started" /\ n.thread = Oldest.thread /\ n.turn = Oldest.call  OBVIOUS
    <3>6. Emit(<<Reply("ok", Null), n>>)  BY <2>6 DEF ServeStart
    <3> HIDE DEF n
    <3>7. /\ Len(events') = Len(events) + 2 /\ events'[Len(events) + 1] = Reply("ok", Null) /\ events'[Len(events) + 2] = n
          /\ \A i \in 1..Len(events) : events'[i] = events[i]
      BY <1>1, <3>2, <3>3, <3>6, EmittedTwo
    <3>8. \A k \in Told : k \in {Len(events) + 1, Len(events) + 2}  BY <1>1, <3>7 DEF Told
    <3>9. Opening  BY <2>1, <2>6, <3>4, <3>5, <3>7, <3>8 DEF Opening, ServeStart
    <3> QED BY <1>1, <3>4, <3>5, <3>7, <3>8, <3>9 DEF Tells
  <2>7. CASE ServeRollback
    BY <1>2, <2>1, <2>7 DEF ServeRollback, Results
  <2>8. CASE ServeResume
    <3>1. PICK result \in {"ok", "error"} : Emit(<<Reply(result, Null)>>)  BY <2>8 DEF ServeResume
    <3> QED BY <1>2, <2>1, <2>8, <3>1 DEF ServeResume, Results
  <2>9. CASE ServeArchive
    BY <1>2, <2>1, <2>9 DEF ServeArchive, Results
  <2>10. CASE ServeDelete
    <3> DEFINE n == [type |-> "deleted", thread |-> Oldest.thread]
    <3>1. Oldest.thread \in Threads  BY <1>1, <2>10 DEF ServeDelete, SourceTypeOK
    <3>2. n \in Event  BY <3>1 DEF Event, DeletedNotification
    <3>3. Reply("ok", Null) \in Event  BY <1>1, <2>1, ReplyType DEF Results
    <3>4. Reply("ok", Null).type = "answer" /\ Reply("ok", Null).result = "ok"  BY DEF Reply
    <3>5. n.type = "deleted"  OBVIOUS
    <3>6. Emit(<<Reply("ok", Null), n>>) \/ Emit(<<n, Reply("ok", Null)>>)  BY <2>10 DEF ServeDelete
    <3> HIDE DEF n
    <3>7. /\ Len(events') = Len(events) + 2 /\ {events'[Len(events) + 1], events'[Len(events) + 2]} = {Reply("ok", Null), n}
          /\ \A i \in 1..Len(events) : events'[i] = events[i]
      BY <1>1, <3>2, <3>3, <3>6, EmittedTwo
    <3>8. \A k \in Told : k \in {Len(events) + 1, Len(events) + 2}  BY <1>1, <3>7 DEF Told
    <3>9. \A k \in Told : events'[k] \in {Reply("ok", Null), n}  BY <3>7, <3>8
    <3>10. Mute  BY <1>1, <2>10, <3>4, <3>5, <3>9 DEF Mute, ServeDelete, SourceTypeOK
    <3> QED BY <1>1, <3>4, <3>5, <3>7, <3>9, <3>10 DEF Tells
  <2>11. CASE Refuse
    BY <1>2, <2>1, <2>11 DEF Refuse, Results
  <2> QED BY <1>3, <2>3, <2>4, <2>5, <2>6, <2>7, <2>8, <2>9, <2>10, <2>11 DEF Serve
<1>4. ASSUME NEW s \in Threads, CompleteTurn(s)  PROVE Tells
  <2>1. PICK n : n = [type |-> "completed", thread |-> s, turn |-> running[s]]  OBVIOUS
  <2>2. n.thread = s /\ n.turn = running[s] /\ n.type = "completed"  BY <2>1
  <2>3. n \in Event /\ events' = Append(events, n)  BY <1>4, <2>1, CompletedHeard
  <2>4. /\ Len(events') = Len(events) + 1 /\ events'[Len(events) + 1] = n
        /\ \A i \in 1..Len(events) : events'[i] = events[i]
    BY <1>1, <2>3
  <2>5. Ending(s)  BY <1>4, <2>2, <2>4 DEF Ending, CompleteTurn
  <2>6. \A k \in Told : k = Len(events) + 1  BY <1>1, <2>4 DEF Told
  <2> QED BY <1>1, <2>2, <2>4, <2>5, <2>6 DEF Tells
<1> QED BY <1>3, <1>4 DEF Source

\* A turn runs in one thread.
LEMMA CoveredOnce ==
  ASSUME Covered, NEW u \in Calls, NEW s \in Threads, NEW t \in Threads, UnderWay(u, s), UnderWay(u, t)
  PROVE  s = t
BY DEF Covered, Held

\* The source begins a turn once.
LEMMA OpeningNew ==
  ASSUME Witnessed, Opening
  PROVE  Oldest \in Request /\ Oldest.call \notin started
<1>1. Sent \subseteq Request  BY SentTyped DEF Witnessed, Placed, Recoverable, Typed, Control, TypeOK
<1> QED BY <1>1 DEF Opening, Witnessed, StartedOnce, Request

LEMMA SourceLast ==
  ASSUME ForeignTurns = {}, Witnessed, Covered, Last, Source
  PROVE  Last'
<1>1. /\ Typed /\ SourceTypeOK /\ Traces /\ Tells /\ events \in Seq(Event)
  BY SourceTells DEF Witnessed, Placed, Recoverable, Typed, Control, TypeOK, SourceTypeOK
<1>2. /\ Len(events) \in Nat /\ Len(events') >= Len(events) /\ \A i \in 1..Len(events) : events'[i] = events[i]
      /\ \A i \in 1..Len(events) : events[i] \in Heard /\ events[i] \in Event
  BY <1>1 DEF Tells, Heard, Elements
<1>3. \A k \in 1..Len(events') : k \in 1..Len(events) \/ k \in Told
  BY <1>2 DEF Told
<1>4. ASSUME NEW i \in 1..Len(events), events[i].type = "completed"
      PROVE  events[i].turn # Null /\ events[i].turn \in started
  <2>1. events[i].turn \in Calls  BY <1>2, <1>4, EventKinds
  <2> QED BY <1>1, <1>2, <1>4, <2>1 DEF Traces, TurnEvent
<1>5. ASSUME NEW i \in 1..Len(events'), events'[i].type = "completed"
      PROVE  /\ \A j \in 1..Len(events') : j > i /\ TurnEvent(events'[j]) => events'[j].turn # events'[i].turn
             /\ \A t \in Threads : running'[t] # events'[i].turn
  <2>1. CASE Mute
    <3>1. i \in 1..Len(events)  BY <1>3, <1>5, <2>1 DEF Mute
    <3>2. \A j \in 1..Len(events') : TurnEvent(events'[j]) => j \in 1..Len(events)
      BY <1>3, <2>1 DEF Mute, TurnEvent
    <3> QED BY <1>2, <1>4, <1>5, <2>1, <3>1, <3>2 DEF Mute, Last
  <2>2. CASE Opening
    <3>1. i \in 1..Len(events)  BY <1>3, <1>5, <2>2 DEF Opening
    <3>2. Oldest.call \notin started /\ running' = [running EXCEPT ![Oldest.thread] = Oldest.call]
      BY <2>2, OpeningNew DEF Opening
    <3>3. events'[i].turn = events[i].turn /\ events[i].turn \in started /\ events[i].type = "completed"
      BY <1>2, <1>4, <1>5, <3>1
    <3>4. ASSUME NEW j \in Told, TurnEvent(events'[j])  PROVE events'[j].turn = Oldest.call
      BY <2>2, <3>4 DEF Opening, TurnEvent
    <3>5. \A t \in Threads : running'[t] \in {running[t], Oldest.call}  BY <1>1, <3>2 DEF SourceTypeOK
    <3> QED BY <1>2, <1>3, <3>1, <3>2, <3>3, <3>4, <3>5 DEF Last
  <2>3. CASE \E s \in Threads : Ending(s)
    <3>1. PICK s \in Threads : Ending(s)  BY <2>3
    <3>2. /\ running[s] # Null /\ running' = [running EXCEPT ![s] = Null]
          /\ Len(events') = Len(events) + 1 /\ events'[Len(events) + 1].type = "completed"
          /\ events'[Len(events) + 1].turn = running[s]
      BY <3>1 DEF Ending
    <3>3. \A t \in Threads : running'[t] = IF t = s THEN Null ELSE running[t]  BY <1>1, <3>2 DEF SourceTypeOK
    <3>4. CASE i \in 1..Len(events)
      <4>1. \A t \in Threads : running[t] # events[i].turn  BY <1>2, <1>5, <3>4 DEF Last
      <4> QED BY <1>2, <1>3, <1>4, <1>5, <3>2, <3>3, <3>4, <4>1 DEF Last, Told
    <3>5. CASE i = Len(events) + 1
      <4>1. running[s] \in Calls  BY <1>1, <3>2 DEF SourceTypeOK
      <4>2. ASSUME NEW t \in Threads, running[t] = running[s]  PROVE t = s
        <5>1. PICK u \in Calls : u = running[s]  BY <4>1
        <5>2. UnderWay(u, s) /\ UnderWay(u, t)  BY <4>2, <5>1 DEF UnderWay, TurnUnderWay
        <5> QED BY <5>2, CoveredOnce
      <4>3. \A t \in Threads : running'[t] # running[s]  BY <3>2, <3>3, <4>2
      <4> QED BY <1>2, <3>2, <3>5, <4>3
    <3> QED BY <1>2, <1>3, <3>2, <3>4, <3>5
  <2> QED BY <1>1, <2>1, <2>2, <2>3 DEF Tells
<1> QED BY <1>5 DEF Last, TurnEvent

\* While a call has its answer, nobody begins a turn in the thread it asked about.
LEMMA OpeningElsewhere ==
  ASSUME Typed, Quiet, Opening, NEW c \in Calls, Vacating(c), \A r \in Sent : r.call # c
  PROVE  Oldest.thread # thread[c]
<1>1. Looking(c)  BY VacatingLooks DEF Typed
<1> QED BY <1>1, QuietAnswered DEF Typed, Control, TypeOK, Opening, Effects

LEMMA SourceVacant ==
  ASSUME ForeignTurns = {}, Witnessed, Vacant, Source
  PROVE  Vacant'
<1>1. /\ Typed /\ Control /\ Pipe /\ SourceTypeOK /\ Quiet /\ Tells /\ events \in Seq(Event)
      /\ UNCHANGED <<pc, thread, held, reply>>
  BY SourceTells DEF Witnessed, Placed, Recoverable, Typed, Control, TypeOK, SourceTypeOK, Source, callVars
<1>2. /\ Len(events) \in Nat /\ Len(events') >= Len(events) /\ \A i \in 1..Len(events) : events'[i] = events[i]
      /\ \A i \in 1..Len(events) : events[i] \in Heard
  BY <1>1 DEF Tells, Heard, Elements
<1>3. \A k \in 1..Len(events') : k \in 1..Len(events) \/ k \in Told
  BY <1>2 DEF Told
<1>4. ASSUME NEW c \in Calls, Vacating(c), NEW t \in Threads, t = thread[c], \A r \in Sent : r.call # c,
             running[t] = Null
      PROVE  running'[t] = Null /\ \A k \in Told : TurnEvent(events'[k]) => events'[k].thread # t
  <2>1. CASE Mute  BY <1>4, <2>1 DEF Mute, TurnEvent
  <2>2. CASE Opening
    <3>1. Oldest.thread # t  BY <1>1, <1>4, <2>2, OpeningElsewhere
    <3> QED BY <1>1, <1>4, <2>2, <3>1 DEF Opening, TurnEvent, SourceTypeOK
  <2>3. CASE \E s \in Threads : Ending(s)
    <3>1. PICK s \in Threads : Ending(s)  BY <2>3
    <3>2. s # t  BY <1>4, <3>1 DEF Ending
    <3>3. \A k \in Told : k = Len(events) + 1  BY <1>2, <3>1 DEF Ending, Told
    <3> QED BY <1>1, <1>4, <3>1, <3>2, <3>3 DEF Ending, SourceTypeOK
  <2> QED BY <1>1, <2>1, <2>2, <2>3 DEF Tells
<1>5. ASSUME NEW c \in Calls, Vacating(c), NEW t \in Threads, t = thread[c]
      PROVE  /\ Heeds(c, {"idle"})' => running'[t] = Null
             /\ reply'[c] # Null /\ reply'[c].result = "idle" => \A e \in Heard' : TurnEvent(e) => e.thread # t
             /\ \A i \in 1..Len(events') : events'[i].type = "answer" /\ events'[i].call = c /\ events'[i].result = "idle" =>
                  \A j \in 1..Len(events') : j > i /\ TurnEvent(events'[j]) => events'[j].thread # t
  <2>1. ASSUME Heeds(c, {"idle"})
        PROVE  running[t] = Null /\ running'[t] = Null /\ \A k \in Told : TurnEvent(events'[k]) => events'[k].thread # t
    <3>1. \A r \in Sent : r.call # c
      <4>1. CASE reply[c] # Null /\ reply[c].result = "idle"
        <5>1. pc[c] # "done"  BY <1>5 DEF Vacating
        <5>2. ~Open(c)  BY <4>1, <5>1 DEF Open
        <5> QED BY <1>1, <5>2, NotOpenSent
      <4>2. CASE \E e \in Answers : e.call = c  BY <1>1, <4>2 DEF Pipe, OneEach
      <4> QED BY <2>1, <4>1, <4>2 DEF Heeds
    <3>2. running[t] = Null  BY <1>5, <2>1 DEF Vacant
    <3> QED BY <1>4, <1>5, <3>1, <3>2
  <2>2. ASSUME reply'[c] # Null, reply'[c].result = "idle"  PROVE \A e \in Heard' : TurnEvent(e) => e.thread # t
    <3>1. reply[c] # Null /\ reply[c].result = "idle"  BY <1>1, <2>2
    <3>2. Heeds(c, {"idle"})  BY <3>1 DEF Heeds
    <3>3. \A e \in Heard : TurnEvent(e) => e.thread # t  BY <1>5, <3>1 DEF Vacant
    <3> QED BY <1>2, <1>3, <2>1, <3>2, <3>3 DEF Heard, Elements
  <2>3. ASSUME NEW i \in 1..Len(events'), events'[i].type = "answer", events'[i].call = c, events'[i].result = "idle"
        PROVE  /\ running'[t] = Null
               /\ \A j \in 1..Len(events') : j > i /\ TurnEvent(events'[j]) => events'[j].thread # t
    <3>1. CASE i \in 1..Len(events)
      <4>1. events[i] \in Answers /\ events'[i] = events[i]  BY <1>2, <2>3, <3>1 DEF Answers
      <4>2. Heeds(c, {"idle"})  BY <2>3, <4>1 DEF Heeds
      <4>3. \A j \in 1..Len(events) : j > i /\ TurnEvent(events[j]) => events[j].thread # t
        BY <1>5, <2>3, <3>1, <4>1 DEF Vacant
      <4> QED BY <1>2, <1>3, <2>1, <4>2, <4>3
    <3>2. CASE i \in Told
      <4>1. /\ Oldest \in Sent /\ Oldest.call = c /\ running[Oldest.thread] = Null /\ running' = running /\ Len(events') = i
        BY <1>1, <2>3, <3>2 DEF Tells
      <4>2. Oldest.thread = t  BY <1>1, <1>5, <4>1 DEF Pipe, Matches
      <4> QED BY <1>2, <4>1, <4>2
    <3> QED BY <1>3, <3>1, <3>2
  <2>4. ASSUME Heeds(c, {"idle"})'  PROVE running'[t] = Null
    <3>1. CASE reply'[c] # Null /\ reply'[c].result = "idle"
      BY <1>1, <2>1, <3>1 DEF Heeds
    <3>2. CASE \E e \in Answers' : e.call = c /\ e.result = "idle"
      <4>1. PICK i \in 1..Len(events') : events'[i].type = "answer" /\ events'[i].call = c /\ events'[i].result = "idle"
        BY <3>2 DEF Answers, Heard, Elements
      <4> QED BY <2>3, <4>1
    <3> QED BY <2>4, <3>1, <3>2 DEF Heeds
  <2> QED BY <2>2, <2>3, <2>4
<1>6. ASSUME NEW c \in Calls, Vacating(c)  PROVE thread[c] \in Threads
  BY <1>1, <1>6, HasThread DEF Vacating
<1>7. \A c \in Calls : Vacating(c)' <=> Vacating(c)  BY <1>1 DEF Vacating
<1> HIDE <1>4, <1>5
<1>8. ASSUME NEW c \in Calls, Vacating(c)'
      PROVE  /\ Heeds(c, {"idle"})' => running'[thread'[c]] = Null
             /\ reply'[c] # Null /\ reply'[c].result = "idle" => \A e \in Heard' : TurnEvent(e) => e.thread # thread'[c]
             /\ \A i \in 1..Len(events') : events'[i].type = "answer" /\ events'[i].call = c /\ events'[i].result = "idle" =>
                  \A j \in 1..Len(events') : j > i /\ TurnEvent(events'[j]) => events'[j].thread # thread'[c]
  BY <1>1, <1>5, <1>6, <1>7, <1>8
<1> QED BY <1>8 DEF Vacant, TurnEvent

\* The next message, and the ones behind it.
LEMMA DeliverTail ==
  ASSUME Typed, Deliver
  PROVE  /\ events # <<>> /\ Head(events) \in Event /\ Head(events) \in Heard /\ Head(events) = events[1]
         /\ Len(events) \in Nat /\ Len(events) >= 1 /\ events' = Tail(events) /\ Len(events') = Len(events) - 1
         /\ \A j \in 1..Len(events') : j + 1 \in 1..Len(events) /\ events'[j] = events[j + 1]
         /\ \A e \in Heard' : \E j \in 1..Len(events') : e = events'[j]
<1>1. events \in Seq(Event) /\ events # <<>> /\ events' = Tail(events)
  BY DEF Typed, Control, TypeOK, SourceTypeOK, Deliver
<1>2. Head(events) = events[1] /\ Len(events) \in Nat /\ Len(events) >= 1 /\ Len(Tail(events)) = Len(events) - 1
      /\ \A j \in 1..(Len(events) - 1) : Tail(events)[j] = events[j + 1]
  BY <1>1
<1>3. Head(events) \in Event /\ 1 \in 1..Len(events)  BY <1>1, <1>2
<1>4. Head(events) \in Heard  BY <1>2, <1>3 DEF Heard, Elements
<1> QED BY <1>1, <1>2, <1>3, <1>4 DEF Heard, Elements

\* A notification that ends a reservation is the last of its turn.
LEMMA DeliverCompletes ==
  ASSUME ForeignTurns = {}, Witnessed, Covered, Last, Deliver, NEW i \in Calls, Live(i),
         \/ reservations'[i] = Null
         \/ reservations'[i] # Null /\ reservations'[i].state = "completed" /\ Row(i).state # "completed"
  PROVE  i \in started /\ \A t \in Threads : ~UnderWay(i, t)'
<1>1. /\ Typed /\ Control /\ StoreTypeOK /\ SourceTypeOK /\ OneReservationPerThread /\ StartedOnce /\ Traces
  BY DEF Witnessed, Placed, Recoverable, Typed, Control, TypeOK, StoreInv
<1> DEFINE e == Head(events)
<1> DEFINE b == e.type = "completed"
<1>2. /\ e \in Event /\ e \in Heard /\ e = events[1] /\ Len(events) \in Nat /\ Len(events) >= 1
      /\ \A j \in 1..Len(events') : j + 1 \in 1..Len(events) /\ events'[j] = events[j + 1]
      /\ \A f \in Heard' : \E j \in 1..Len(events') : f = events'[j]
  BY <1>1, DeliverTail
<1>3. reservations' # reservations  BY DEF Live, Row
<1>4. e.type # "answer" /\ e.type # "deleted"
  BY <1>3 DEF Deliver, Notice, ForgetThread, storeVars
<1>5. e.thread \in Threads /\ e.turn \in Calls /\ TurnEvent(e) /\ b \in BOOLEAN
  BY <1>2, <1>4, EventKinds, CallsAssumption DEF TurnEvent
<1>6. ObserveTurn(e.thread, e.turn, b) /\ UNCHANGED <<running, started, requests>>
  BY <1>4 DEF Deliver, Notice
<1>7. b <=> e.type = "completed"  OBVIOUS
<1> HIDE DEF e, b
<1>8. PICK id \in ReservedBy(e.thread) :
        /\ OtherRowsKeep(id)
        /\ reservations'[id] = Null => b
        /\ reservations'[id] # Null /\ ~b => reservations'[id].state = IF Correlates(Row(id)) THEN "running" ELSE Row(id).state
  BY <1>1, <1>3, <1>5, <1>6, ObserveRow, CallsAssumption DEF storeVars
<1>9. id = i  BY <1>8 DEF OtherRowsKeep, Live, Row
<1>10. b  BY <1>8, <1>9
<1>11. e.turn = i
  <2>1. UnderWay(e.turn, e.thread)  BY <1>2, <1>5 DEF UnderWay, TurnUnderWay
  <2>2. Held(e.turn, e.thread)  BY <1>5, <2>1 DEF Covered
  <2>3. e.turn \in ReservedBy(e.thread)  BY <1>5, <2>2, CallsAssumption DEF Held, ReservedBy
  <2> QED BY <1>1, <1>5, <1>8, <1>9, <2>3 DEF OneReservationPerThread
<1>12. i \in started  BY <1>1, <1>2, <1>5, <1>11 DEF Traces
<1>13. \A r \in Sent' : r.call = i => r.method \notin Acts
  BY <1>1, <1>6, <1>12, StartedRequests DEF Sent
<1>14. /\ \A j \in 1..Len(events) : j > 1 /\ TurnEvent(events[j]) => events[j].turn # i
       /\ \A t \in Threads : running[t] # i
  <2>1. 1 \in 1..Len(events) /\ events[1].type = "completed" /\ events[1].turn = i
    BY <1>2, <1>7, <1>10, <1>11
  <2> QED BY <2>1 DEF Last
<1>15. \A f \in Heard' : TurnEvent(f) => f.turn # i
  BY <1>2, <1>14
<1> QED BY <1>6, <1>12, <1>13, <1>14, <1>15 DEF UnderWay, TurnUnderWay, TurnEvent, Acts, Effects

\* Between the steps of calls nothing comes under way, and a reservation ends only with
\* the turn of its call.
Dwindles == \A u \in Calls, t \in Threads : UnderWay(u, t)' => UnderWay(u, t)

Ended == \A i \in Calls :
  Live(i) /\ \/ reservations'[i] = Null
             \/ reservations'[i] # Null /\ reservations'[i].state = "completed" /\ Row(i).state # "completed"
    => i \in started /\ \A t \in Threads : ~UnderWay(i, t)'

LEMMA RestCovered ==
  ASSUME Covered, Pauses, Dwindles, Ended
  PROVE  Covered'
<1>1. ASSUME NEW u \in Calls, NEW t \in Threads, UnderWay(u, t)'
      PROVE  reservations'[u] # Null /\ reservations'[u].thread = t /\ reservations'[u].state # "preparing"
  <2>1. Held(u, t)  BY <1>1 DEF Dwindles, Covered
  <2>2. reservations'[u] # Null  BY <1>1, <2>1 DEF Ended, Held
  <2> QED BY <2>1, <2>2 DEF Pauses, SameRow, Held
<1> QED BY <1>1 DEF Covered, Held, Live, Row

LEMMA RestOver ==
  ASSUME Over, Pauses, Dwindles, Ended, started \subseteq started'
  PROVE  Over'
<1>1. ASSUME NEW u \in Calls, reservations'[u] # Null, reservations'[u].state = "completed"
      PROVE  u \in started' /\ \A t \in Threads : ~UnderWay(u, t)'
  <2>1. Live(u)  BY <1>1 DEF Pauses
  <2>2. CASE Row(u).state = "completed"  BY <2>1, <2>2 DEF Over, Dwindles
  <2>3. CASE Row(u).state # "completed"  BY <1>1, <2>1, <2>3 DEF Ended
  <2> QED BY <2>2, <2>3
<1> QED BY <1>1 DEF Over, Live, Row

LEMMA RestResuming ==
  ASSUME StartedOnce, Resuming, Pauses, Ended
  PROVE  Resuming'
<1>1. ASSUME NEW c \in Calls, pc'[c] = "resume"
      PROVE  /\ reservations'[c] # Null /\ reservations'[c].thread = thread'[c]
             /\ reservations'[c].state # "preparing"
  <2>1. pc[c] = "resume" /\ thread'[c] = thread[c]  BY <1>1 DEF Pauses
  <2>2. Held(c, thread[c]) /\ c \notin started  BY <2>1 DEF Resuming, StartedOnce
  <2>3. reservations'[c] # Null  BY <2>2 DEF Ended, Held
  <2> QED BY <2>1, <2>2, <2>3 DEF Pauses, SameRow, Held
<1> QED BY <1>1 DEF Resuming, Held, Live, Row

LEMMA DeliverEnded ==
  ASSUME ForeignTurns = {}, Witnessed, Covered, Last, Deliver
  PROVE  Ended
BY DeliverCompletes DEF Ended

LEMMA RestHeldMutation ==
  ASSUME Typed, HeldMutation, Pauses
  PROVE  HeldMutation'
<1>1. ASSUME NEW c \in Calls, NEW h, h = held'[c], pc'[c] \in {"forget", "release"}, kind'[c] \in Reconciles,
             reservations'[h] # Null
      PROVE  /\ reservations'[h].operation \in CatalogKinds /\ reservations'[h].state # "preparing"
             /\ reservations'[h].operation = "delete" => \A r \in Sent' : r.call # h
  <2>1. pc[c] = pc'[c] /\ kind[c] = kind'[c] /\ h = held[c]  BY <1>1 DEF Pauses
  <2>2. h \in Calls  BY <1>1, <2>1 DEF Typed, Control, TypeOK, CallOK, Equipped
  <2>3. Live(h) /\ SameRow(reservations'[h], Row(h)) /\ (reservations'[h].state = "preparing" <=> Row(h).state = "preparing")
    BY <1>1, <2>2 DEF Pauses
  <2>4. /\ Row(h).operation \in CatalogKinds /\ Row(h).state # "preparing"
        /\ Row(h).operation = "delete" => \A r \in Sent : r.call # h
    BY <1>1, <2>1, <2>3 DEF HeldMutation
  <2> QED BY <2>3, <2>4 DEF Pauses, SameRow
<1> QED BY <1>1 DEF HeldMutation, Live, Row

LEMMA RestConfirmedAnswered ==
  ASSUME ConfirmedAnswered, Pauses, FilingStays
  PROVE  ConfirmedAnswered'
<1>1. ASSUME NEW i \in Calls, IsDeletionConfirmed(i)'
      PROVE  reservations'[i].state # "preparing" /\ \A r \in Sent' : r.call # i
  <2>1. reservations'[i] # Null /\ reservations'[i].operation = "delete"
    BY <1>1 DEF IsDeletionConfirmed, Live, Row
  <2>2. Live(i) /\ SameRow(reservations'[i], Row(i))  BY <2>1 DEF Pauses
  <2>3. reservations'[i] = Row(i)  BY <2>1, <2>2 DEF FilingStays, SameRow, CatalogKinds, Row
  <2>4. IsDeletionConfirmed(i)  BY <1>1, <2>3 DEF IsDeletionConfirmed, Live, Row
  <2> QED BY <2>3, <2>4 DEF ConfirmedAnswered, Pauses, Row
<1> QED BY <1>1 DEF ConfirmedAnswered, Row

\* Messages are read in order, and what is behind one stays behind it.
Drops(n) ==
  /\ Len(events') \in Nat
  /\ \A j \in 1..Len(events') : j + n \in 1..Len(events) /\ events'[j] = events[j + n]

\* What a call is answered: the message that is read, or that there is no answer.
Resolves(n) == \A c \in Calls :
  \/ reply'[c] \in {reply[c], Null, Rejection(c)}
  \/ n = 1 /\ 1 \in 1..Len(events) /\ reply'[c] = events[1] /\ events[1].type = "answer" /\ events[1].call = c

LEMMA DeliverDrops ==
  ASSUME Typed, Deliver
  PROVE  Drops(1) /\ Resolves(1)
<1>1. /\ Head(events) = events[1] /\ Len(events) \in Nat /\ Len(events) >= 1 /\ Len(events') = Len(events) - 1
      /\ \A j \in 1..Len(events') : j + 1 \in 1..Len(events) /\ events'[j] = events[j + 1]
  BY DeliverTail
<1>2. Drops(1)  BY <1>1 DEF Drops
<1>3. reply \in [Calls -> Answer \cup {Null}]  BY DEF Typed, Control, TypeOK
<1>4. \A c \in Calls : reply'[c] = reply[c] \/ (reply'[c] = Head(events) /\ Head(events).type = "answer" /\ Head(events).call = c)
  BY <1>3 DEF Deliver
<1> QED BY <1>1, <1>2, <1>4 DEF Resolves

LEMMA OtherDrops ==
  ASSUME Typed, (\E c \in Calls : Timeout(c)) \/ SourceExit \/ Crash \/ UNCHANGED vars
  PROVE  Drops(0) /\ Resolves(0) /\ UNCHANGED storeVars
<1>1. events \in Seq(Event) /\ reply \in [Calls -> Answer \cup {Null}]  BY DEF Typed, Control, TypeOK, SourceTypeOK
<1>2. UNCHANGED storeVars /\ (events' = events \/ events' = <<>>)
  BY DEF Timeout, SourceExit, Crash, Exit, vars, sourceVars
<1>3. Drops(0)  BY <1>1, <1>2 DEF Drops
<1>4. \A c \in Calls : reply'[c] \in {reply[c], Null, Rejection(c)}
  BY <1>1 DEF Timeout, SourceExit, Crash, vars, callVars
<1> QED BY <1>2, <1>3, <1>4 DEF Resolves

LEMMA RestLast ==
  ASSUME Typed, Last, Hushed, NEW n \in Nat, Drops(n)
  PROVE  Last'
<1>1. events \in Seq(Event)  BY DEF Typed, Control, TypeOK, SourceTypeOK
<1>2. ASSUME NEW i \in 1..Len(events'), events'[i].type = "completed"
      PROVE  /\ \A j \in 1..Len(events') : j > i /\ TurnEvent(events'[j]) => events'[j].turn # events'[i].turn
             /\ \A t \in Threads : running'[t] # events'[i].turn
  <2>1. i + n \in 1..Len(events) /\ events'[i] = events[i + n]  BY <1>2 DEF Drops
  <2>2. events[i + n] \in Event  BY <1>1, <2>1
  <2>3. events[i + n].turn # Null  BY <1>2, <2>1, <2>2, EventKinds
  <2>4. /\ \A j \in 1..Len(events) : j > i + n /\ TurnEvent(events[j]) => events[j].turn # events[i + n].turn
        /\ \A t \in Threads : running[t] # events[i + n].turn
    BY <1>2, <2>1 DEF Last
  <2>5. \A t \in Threads : running'[t] # events'[i].turn  BY <2>1, <2>3, <2>4 DEF Hushed
  <2>6. ASSUME NEW j \in 1..Len(events'), j > i, TurnEvent(events'[j])  PROVE events'[j].turn # events'[i].turn
    <3>1. j + n \in 1..Len(events) /\ events'[j] = events[j + n] /\ j + n > i + n  BY <2>6 DEF Drops
    <3> QED BY <2>1, <2>4, <2>6, <3>1
  <2> QED BY <2>5, <2>6
<1> QED BY <1>2 DEF Last, TurnEvent

LEMMA RestVacant ==
  ASSUME Typed, Vacant, Pauses, Hushed, NEW n \in Nat, Drops(n), Resolves(n)
  PROVE  Vacant'
<1>1. ASSUME NEW c \in Calls, Vacating(c)', NEW t, t = thread'[c]
      PROVE  /\ Heeds(c, {"idle"})' => running'[t] = Null
             /\ reply'[c] # Null /\ reply'[c].result = "idle" => \A e \in Heard' : TurnEvent(e) => e.thread # t
             /\ \A i \in 1..Len(events') : events'[i].type = "answer" /\ events'[i].call = c /\ events'[i].result = "idle" =>
                  \A j \in 1..Len(events') : j > i /\ TurnEvent(events'[j]) => events'[j].thread # t
  <2>1. Vacating(c) /\ t = thread[c]  BY <1>1 DEF Pauses, Vacating
  <2>2. t \in Threads  BY <2>1, HasThread DEF Typed, Vacating
  <2>3. \A i \in 1..Len(events) : events[i].type = "answer" /\ events[i].call = c /\ events[i].result = "idle" =>
          \A j \in 1..Len(events) : j > i /\ TurnEvent(events[j]) => events[j].thread # t
    BY <2>1 DEF Vacant
  <2>4. ASSUME Heeds(c, {"idle"})'  PROVE running'[t] = Null
    <3>1. Heeds(c, {"idle"})  BY <2>4 DEF Heeds, Hushed, Rejection
    <3> QED BY <2>1, <2>2, <3>1 DEF Vacant, Hushed
  <2>5. ASSUME reply'[c] # Null, reply'[c].result = "idle", NEW e \in Heard', TurnEvent(e)  PROVE e.thread # t
    <3>1. CASE reply'[c] = reply[c]  BY <2>1, <2>5, <3>1 DEF Vacant, Hushed
    <3>2. CASE n = 1 /\ 1 \in 1..Len(events) /\ reply'[c] = events[1] /\ events[1].type = "answer" /\ events[1].call = c
      <4>1. PICK j \in 1..Len(events') : e = events'[j]  BY DEF Heard, Elements
      <4>2. j + 1 \in 1..Len(events) /\ e = events[j + 1] /\ j + 1 > 1  BY <3>2, <4>1 DEF Drops
      <4> QED BY <2>3, <2>5, <3>2, <4>2
    <3> QED BY <2>5, <3>1, <3>2 DEF Resolves, Rejection
  <2>6. ASSUME NEW i \in 1..Len(events'), events'[i].type = "answer", events'[i].call = c, events'[i].result = "idle",
               NEW j \in 1..Len(events'), j > i, TurnEvent(events'[j])
        PROVE  events'[j].thread # t
    <3>1. /\ i + n \in 1..Len(events) /\ events'[i] = events[i + n]
          /\ j + n \in 1..Len(events) /\ events'[j] = events[j + n] /\ j + n > i + n
      BY <2>6 DEF Drops
    <3> QED BY <2>3, <2>6, <3>1
  <2> QED BY <2>4, <2>5, <2>6
<1> QED BY <1>1 DEF Vacant, TurnEvent

LEMMA SourceStarted ==
  ASSUME Typed, Source
  PROVE  started \subseteq started'
<1>1. Control /\ Pipe /\ SourceTypeOK  BY DEF Typed, Control, TypeOK
<1>2. CASE Serve
  <2>1. Served  BY <1>1, <1>2, ServeOutcome
  <2>2. PICK a \in Answer : Outcome(a)  BY <2>1 DEF Served
  <2> QED BY <2>2 DEF Outcome, Looked, Created, Begun, Resumed, Filed, Deleted
<1>3. CASE ~Serve
  BY <1>3 DEF Source, CompleteTurn, StartForeignTurn
<1> QED BY <1>2, <1>3

\* What it takes to know what is under way.
Guarded ==
  /\ Witnessed /\ Catalogued
  /\ Covered /\ Over /\ Last /\ Vacant
  /\ Resuming /\ HeldMutation /\ ConfirmedAnswered

LEMMA GuardedStep ==
  ASSUME ForeignTurns = {}, Guarded, [Next]_vars
  PROVE  Guarded'
<1>1. /\ Witnessed /\ Catalogued /\ Covered /\ Over /\ Last /\ Vacant /\ Resuming /\ HeldMutation /\ ConfirmedAnswered
      /\ Recoverable /\ Deletion /\ Typed /\ EvidenceHeld /\ StartedOnce
  BY DEF Guarded, Catalogued, Witnessed, Placed, Recoverable
<1>2. Witnessed' /\ Catalogued'  BY <1>1, WitnessedStep, CataloguedStep
<1>3. ASSUME NEW a \in Calls, Step(a)  PROVE Guarded'
  <2>1. Covered' /\ Over' /\ Last' /\ Vacant'  BY <1>1, <1>3, StepCovered, StepOver, StepLast, StepVacant
  <2>2. Resuming' /\ HeldMutation' /\ ConfirmedAnswered'
    BY <1>1, <1>3, StepResuming, StepHeldMutation, StepConfirmedAnswered
  <2> QED BY <1>2, <2>1, <2>2 DEF Guarded
<1>4. ASSUME Pauses, FilingStays, Dwindles, Ended, started \subseteq started', Last', Vacant'  PROVE Guarded'
  <2>1. Covered' /\ Over' /\ Resuming'  BY <1>1, <1>4, RestCovered, RestOver, RestResuming
  <2>2. HeldMutation' /\ ConfirmedAnswered'  BY <1>1, <1>4, RestHeldMutation, RestConfirmedAnswered
  <2> QED BY <1>2, <1>4, <2>1, <2>2 DEF Guarded
<1>5. ASSUME Source  PROVE Guarded'
  <2>1. UNCHANGED <<storeVars, misfiled>>  BY <1>5 DEF Source, Still
  <2>2. Rests /\ Shelved  BY <1>1, <1>5, <2>1, SourceRests, OthersShelved
  <2>3. Dwindles  BY <1>1, <1>5, SourceUnderWay DEF Dwindles
  <2>4. Ended  BY <2>1 DEF Ended, storeVars, Live, Row
  <2>5. started \subseteq started'  BY <1>1, <1>5, SourceStarted
  <2>6. Last' /\ Vacant'  BY <1>1, <1>5, SourceLast, SourceVacant
  <2> QED BY <1>4, <2>2, <2>3, <2>4, <2>5, <2>6 DEF Rests, Shelved
<1>6. ASSUME Pauses, Hushed  PROVE Dwindles /\ started \subseteq started'
  BY <1>6, RestUnderWay DEF Dwindles, Hushed
<1>7. ASSUME \A c \in Calls : ~Queued(c), Deliver  PROVE Guarded'
  <2>1. Rests /\ Hushed /\ Shelved  BY <1>1, <1>7, DeliverRests, DeliverShelved
  <2>2. Ended  BY <1>1, <1>7, DeliverEnded
  <2>3. Drops(1) /\ Resolves(1)  BY <1>1, <1>7, DeliverDrops
  <2>4. Last' /\ Vacant'  BY <1>1, <2>1, <2>3, RestLast, RestVacant DEF Rests
  <2> QED BY <1>4, <1>6, <2>1, <2>2, <2>4 DEF Rests, Shelved
<1>8. ASSUME (\E c \in Calls : Timeout(c)) \/ SourceExit \/ Crash \/ UNCHANGED vars  PROVE Guarded'
  <2>1. Drops(0) /\ Resolves(0) /\ UNCHANGED storeVars  BY <1>1, <1>8, OtherDrops
  <2>2. Rests /\ Hushed /\ Shelved
    <3>1. UNCHANGED misfiled  BY <1>8 DEF Timeout, SourceExit, Crash, vars, Still
    <3> QED BY <1>1, <1>8, <2>1, <3>1, OtherRests, OthersShelved
  <2>3. Ended  BY <2>1 DEF Ended, storeVars, Live, Row
  <2>4. Last' /\ Vacant'  BY <1>1, <2>1, <2>2, RestLast, RestVacant DEF Rests
  <2> QED BY <1>4, <1>6, <2>2, <2>3, <2>4 DEF Rests, Shelved
<1>9. ASSUME Lists  PROVE Guarded'
  <2>1. Existed /\ Control /\ SourceTypeOK  BY <1>1 DEF Witnessed, Placed, Typed, Control, TypeOK
  <2>2. Pauses /\ Hushed /\ UNCHANGED <<reservations, sourceVars, callVars>>  BY <1>9, <2>1, ListsRests
  <2>3. FilingStays /\ Ended  BY <2>2 DEF FilingStays, Ended, Live, Row
  <2>4. Drops(0) /\ Resolves(0)  BY <2>1, <2>2 DEF Drops, Resolves, SourceTypeOK, sourceVars, callVars
  <2>5. Last' /\ Vacant'  BY <1>1, <2>2, <2>4, RestLast, RestVacant
  <2> QED BY <1>4, <1>6, <2>2, <2>3, <2>5
<1> QED BY <1>1, <1>3, <1>5, <1>7, <1>8, <1>9 DEF Next

LEMMA GuardedInit == Init => Guarded
<1> SUFFICES ASSUME Init PROVE Guarded
  OBVIOUS
<1>1. Witnessed /\ Catalogued  BY WitnessedInit, CataloguedInit
<1>2. /\ Sent = {} /\ Heard = {} /\ Answers = {} /\ events = <<>>
      /\ \A c \in Calls : pc[c] = "idle" /\ ~Live(c)
      /\ \A t \in Threads : running[t] = Null
  BY ElementsEmpty DEF Init, StoreInit, SourceInit, Sent, Answers, Heard, Live, Row
<1>3. Covered /\ Over
  BY <1>2, CallsAssumption DEF Covered, Over, UnderWay, TurnUnderWay
<1>4. Last /\ Vacant  BY <1>2 DEF Last, Vacant, Vacating
<1>5. Resuming /\ HeldMutation /\ ConfirmedAnswered
  BY <1>2 DEF Resuming, HeldMutation, ConfirmedAnswered, IsDeletionConfirmed
<1> QED BY <1>1, <1>3, <1>4, <1>5 DEF Guarded

\* While no other client begins turns in the threads of this backend: what is under way
\* at the source, its request, its turn or the news of it, is what the tables say.
THEOREM GuardHolds ==
  ASSUME ForeignTurns = {}
  PROVE  Spec => []Guarded
<1>1. Guarded /\ [Next]_vars => Guarded'  BY GuardedStep
<1> QED BY <1>1, GuardedInit, PTL DEF Spec

\* RunningIsReserved: a turn that this backend started and the source runs has its
\* reservation, while no other client begins turns (the run foreign_turn shows the
\* interference of one).
THEOREM RunningAreReserved ==
  ASSUME ForeignTurns = {}
  PROVE  Spec => []RunningIsReserved
<1>1. Guarded => RunningIsReserved
  BY DEF Guarded, Covered, UnderWay, TurnUnderWay, Held, RunningIsReserved
<1> QED BY <1>1, GuardHolds, PTL

\* PendingIsGuarded: whatever can still change the source when it is served, also for a
\* call that gave up, died or timed out, blocks its thread in the tables.
THEOREM PendingAreGuarded ==
  ASSUME ForeignTurns = {}
  PROVE  Spec => []PendingIsGuarded
<1>1. ASSUME Guarded, NEW i \in 1..Len(requests), requests[i].method \in Effects, NEW r, r = requests[i]
      PROVE  \/ \E id \in ReservedBy(r.thread) : id = r.call /\ Row(id).state # "preparing"
             \/ r.method = "switch" /\ transitions[r.thread] # Null /\ transitions[r.thread].state # "preparing"
  <2>1. r \in Sent /\ r \in Request /\ Matches(r)
    BY <1>1, SentTyped DEF Guarded, Witnessed, Placed, Recoverable, Typed, Control, TypeOK, Pipe, Sent, Elements
  <2>2. CASE r.method = "switch"
    BY <1>1, <2>1, <2>2 DEF Guarded, Witnessed, Placed, PlacedRequests, IsPlaced
  <2>3. CASE r.method # "switch"
    <3>1. r.method # "newThread"  BY <1>1 DEF Effects, StartMethods
    <3>2. r.call \in Calls /\ r.thread \in Threads  BY <2>1, <3>1 DEF Request, Matches
    <3>3. UnderWay(r.call, r.thread)  BY <1>1, <2>1, <2>3 DEF UnderWay, Acts
    <3>4. Held(r.call, r.thread)  BY <1>1, <3>2, <3>3 DEF Guarded, Covered
    <3> QED BY <3>2, <3>4, CallsAssumption DEF Held, ReservedBy
  <2> QED BY <2>2, <2>3
<1>2. Guarded => PendingIsGuarded  BY <1>1 DEF PendingIsGuarded
<1> QED BY <1>2, GuardHolds, PTL

=============================================================================
