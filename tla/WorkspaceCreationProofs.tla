----------------------- MODULE WorkspaceCreationProofs -----------------------
(***************************************************************************)
(* Proofs about WorkspaceCreation for any creations, repositories and      *)
(* destinations.                                                           *)
(***************************************************************************)
EXTENDS WorkspaceCreation, TLAPS

\* A row is one of a creation that was asked for; no two rows share a
\* repository or a destination.
RowsApart ==
  /\ \A c \in Creations : Journaled(c) => target[c] # Null
  /\ \A c, e \in Creations : Journaled(c) /\ Journaled(e) /\ c # e =>
       target[c].repository # target[e].repository /\ Destination(c) # Destination(e)

\* Git is started after its row was made to say so, and the row of a running
\* git is kept.
GitFollowsRow ==
  \A c \in Creations :
    /\ git[c] # "none" => target[c] # Null
    /\ Journaled(c) /\ journal[c].state = "preparing" => git[c] = "none"
    /\ Journaled(c) /\ journal[c].gitConfirmed => git[c] = "succeeded"
    /\ git[c] = "running" => Journaled(c)

\* A checkout is where its creation asked for it; git has not yet succeeded
\* while it is incomplete.
CheckoutsFollowGit ==
  \A d \in Destinations, c \in Creations : checkout[d] # Null /\ checkout[d].maker = c =>
    /\ target[c] # Null /\ Destination(c) = d /\ git[c] # "none"
    /\ ~checkout[d].complete => git[c] # "succeeded"

\* A call that is under way has its creation marked; one that checks is still
\* preparing, and recovery takes up no other.
CallsAreBusy ==
  \A c \in Creations :
    /\ creating[c] \in Working \/ recovering[c] # "idle" => c \in busy
    /\ creating[c] \in {"checking", "checked"} => Journaled(c) /\ journal[c].state = "preparing"
    /\ creating[c] \in Working => recovering[c] = "idle"
    /\ creating[c] = "idle" <=> target[c] = Null

CreationInv ==
  /\ CreationTypeOK /\ RowsApart /\ GitFollowsRow /\ CheckoutsFollowGit /\ CallsAreBusy
  /\ CheckoutIsKnown /\ NoUnfinishedWorkspace /\ ActiveIsJournaled

USE DEF CreationTypeOK, Journaled, Destination, PendingAt, Target, Row, Checkout, Working, CreateSteps, RecoverSteps

\* A row that is kept keeps its destination, and so on: what the steps that
\* touch neither rows, workspaces nor checkouts preserve.
LEMMA CallSteps ==
  ASSUME CreationInv, CreationTypeOK', UNCHANGED <<target, journal, workspaceAt, git, checkout>>,
         CallsAreBusy', ActiveIsJournaled'
  PROVE  CreationInv'
BY DEF CreationInv, RowsApart, GitFollowsRow, CheckoutsFollowGit, CheckoutIsKnown, NoUnfinishedWorkspace

----------------------------------------------------------------------------
(* The transactions of the journal. *)

LEMMA BeginKeeps ==
  ASSUME CreationInv, NEW c \in Creations, NEW r \in Repositories, NEW d \in Destinations, Begin(c, r, d)
  PROVE  CreationInv'
<1> USE CreationNames DEF CreationInv, Begin, CanBegin
<1>1. CreationTypeOK'
  OBVIOUS
<1>2. /\ target'[c] = [repository |-> r, destination |-> d] /\ \A e \in Creations \ {c} : target'[e] = target[e]
      /\ journal'[c] = [state |-> "preparing", gitConfirmed |-> FALSE]
      /\ \A e \in Creations \ {c} : journal'[e] = journal[e]
      /\ target'[c] \in Target /\ journal'[c] \in Row
  OBVIOUS
<1>9. target'[c] # Null /\ journal'[c] # Null
  BY <1>2
<1>3. RowsApart'
  BY <1>2 DEF RowsApart
<1>4. git[c] = "none"
  BY DEF GitFollowsRow
<1>5. GitFollowsRow'
  BY <1>2, <1>4 DEF GitFollowsRow
<1>6. CheckoutsFollowGit'
  BY <1>2 DEF CheckoutsFollowGit
<1>12. recovering[c] = "idle"
  BY DEF ActiveIsJournaled, RowsApart
<1>7. CallsAreBusy'
  BY <1>2, <1>9, <1>12 DEF CallsAreBusy
<1>10. ActiveIsJournaled'
  BY <1>2, <1>9 DEF ActiveIsJournaled, CallsAreBusy
<1>8. CheckoutIsKnown'
  BY <1>2, <1>9 DEF CheckoutIsKnown
<1>11. NoUnfinishedWorkspace'
  <2> SUFFICES ASSUME NEW f \in Destinations, workspaceAt[f] # Null
               PROVE  /\ ~\E e \in Creations : journal'[e] # Null /\ target'[e].destination = f
                      /\ checkout[f] # Null /\ checkout[f].maker # External => checkout[f].complete
    BY DEF NoUnfinishedWorkspace
  <2>1. f # d /\ target'[c].destination = d
    BY <1>2
  <2> QED BY <2>1, <1>2 DEF NoUnfinishedWorkspace
<1> QED BY <1>1, <1>3, <1>5, <1>6, <1>7, <1>8, <1>10, <1>11

\* A row changes its state without being dropped or confirmed.
LEMMA DispatchKeeps ==
  ASSUME CreationInv, NEW c \in Creations, Dispatch(c)
  PROVE  CreationInv'
<1> USE CreationNames DEF CreationInv, Dispatch
<1>1. CreationTypeOK'
  OBVIOUS
<1>2. /\ journal'[c] # Null /\ journal'[c].state = "submitting" /\ journal'[c].gitConfirmed = journal[c].gitConfirmed
      /\ \A e \in Creations \ {c} : journal'[e] = journal[e]
  OBVIOUS
<1>3. git[c] = "none" /\ git'[c] = "running" /\ \A e \in Creations \ {c} : git'[e] = git[e]
  BY DEF GitFollowsRow
<1>4. RowsApart'
  BY <1>2 DEF RowsApart
<1>5. GitFollowsRow'
  BY <1>2, <1>3 DEF GitFollowsRow, RowsApart
<1>6. CheckoutsFollowGit'
  BY <1>3 DEF CheckoutsFollowGit
<1>7. CallsAreBusy' /\ ActiveIsJournaled'
  BY <1>2 DEF CallsAreBusy, ActiveIsJournaled
<1>8. CheckoutIsKnown' /\ NoUnfinishedWorkspace'
  BY <1>2 DEF CheckoutIsKnown, NoUnfinishedWorkspace
<1> QED BY <1>1, <1>4, <1>5, <1>6, <1>7, <1>8

LEMMA ConfirmKeeps ==
  ASSUME CreationInv, NEW c \in Creations, ConfirmGit(c)
  PROVE  CreationInv'
<1> USE CreationNames DEF CreationInv, ConfirmGit
<1>a. journal[c] \in Row
  OBVIOUS
<1>0. [journal[c] EXCEPT !.gitConfirmed = TRUE] \in Row
  BY ONLY <1>a DEF Row
<1>1. CreationTypeOK'
  BY <1>0
<1>3. journal'[c] = [journal[c] EXCEPT !.gitConfirmed = TRUE]
  OBVIOUS
<1>2. /\ journal'[c] # Null /\ journal'[c].state = "submitting" /\ git[c] = "succeeded"
      /\ \A e \in Creations \ {c} : journal'[e] = journal[e]
  BY <1>0, <1>3
<1>4. RowsApart'
  BY <1>2 DEF RowsApart
<1>5. GitFollowsRow'
  BY <1>2 DEF GitFollowsRow
<1>6. CheckoutsFollowGit'
  BY DEF CheckoutsFollowGit
<1>7. CallsAreBusy' /\ ActiveIsJournaled'
  BY <1>2 DEF CallsAreBusy, ActiveIsJournaled
<1>8. CheckoutIsKnown' /\ NoUnfinishedWorkspace'
  BY <1>2 DEF CheckoutIsKnown, NoUnfinishedWorkspace
<1> QED BY <1>1, <1>4, <1>5, <1>6, <1>7, <1>8

\* fail, in create or in reconcile, which touches the marks in its own way.
LEMMA FailKeeps ==
  ASSUME CreationInv, NEW c \in Creations, Fail(c), UNCHANGED <<target, workspaceAt, git, checkout>>
  PROVE  /\ journal' \in [Creations -> Row \cup {Null}] /\ RowsApart' /\ GitFollowsRow' /\ CheckoutsFollowGit'
         /\ CheckoutIsKnown' /\ NoUnfinishedWorkspace'
         /\ \A e \in Creations \ {c} : journal'[e] = journal[e]
<1> USE CreationNames DEF CreationInv, Fail
<1>1. journal' \in [Creations -> Row \cup {Null}]
  OBVIOUS
<1>2. \A e \in Creations \ {c} : journal'[e] = journal[e]
  OBVIOUS
<1>3. \/ journal'[c] = Null /\ (journal[c] = Null \/ (journal[c] # Null /\ journal[c].state = "preparing"))
      \/ /\ journal[c] # Null /\ journal'[c] # Null /\ journal'[c].state = "uncertain"
         /\ journal'[c].gitConfirmed = journal[c].gitConfirmed
  OBVIOUS
<1>4. RowsApart'
  BY <1>2, <1>3 DEF RowsApart
<1>5. GitFollowsRow'
  BY <1>2, <1>3 DEF GitFollowsRow
<1>6. CheckoutsFollowGit'
  BY DEF CheckoutsFollowGit
<1>7. CheckoutIsKnown'
  BY <1>2, <1>3 DEF CheckoutIsKnown, CheckoutsFollowGit, GitFollowsRow
<1>8. NoUnfinishedWorkspace'
  BY <1>2, <1>3 DEF NoUnfinishedWorkspace
<1> QED BY <1>1, <1>2, <1>4, <1>5, <1>6, <1>7, <1>8

LEMMA CommitKeeps ==
  ASSUME CreationInv, NEW c \in Creations, CanCommit(c), Commit(c), UNCHANGED <<target, git, checkout>>
  PROVE  /\ journal' \in [Creations -> Row \cup {Null}]
         /\ workspaceAt' \in [Destinations -> Creations \cup {External, Null}]
         /\ RowsApart' /\ GitFollowsRow' /\ CheckoutsFollowGit' /\ CheckoutIsKnown' /\ NoUnfinishedWorkspace'
         /\ \A e \in Creations \ {c} : journal'[e] = journal[e]
<1> USE CreationNames DEF CreationInv, Commit, CanCommit
<1> DEFINE at == target[c].destination
<1>0. target[c] \in Target /\ at \in Destinations /\ git[c] = "succeeded"
  BY DEF RowsApart, GitFollowsRow
<1>1. /\ journal'[c] = Null /\ \A e \in Creations \ {c} : journal'[e] = journal[e]
      /\ workspaceAt'[at] = c /\ \A d \in Destinations \ {at} : workspaceAt'[d] = workspaceAt[d]
  BY <1>0
<1>2. journal' \in [Creations -> Row \cup {Null}] /\ workspaceAt' \in [Destinations -> Creations \cup {External, Null}]
  OBVIOUS
<1>3. RowsApart'
  BY <1>1 DEF RowsApart
<1>4. GitFollowsRow'
  BY <1>0, <1>1 DEF GitFollowsRow
<1>5. CheckoutsFollowGit'
  BY DEF CheckoutsFollowGit
<1>6. workspaceAt[at] = Null
  BY <1>0 DEF NoUnfinishedWorkspace
<1>7. CheckoutIsKnown'
  <2> SUFFICES ASSUME NEW d \in Destinations, NEW e \in Creations, checkout[d] # Null, checkout[d].maker = e
               PROVE  journal'[e] # Null \/ workspaceAt'[d] # Null
    BY DEF CheckoutIsKnown
  <2>1. CASE d = at
    BY <2>1, <1>1
  <2>2. CASE d # at
    <3>1. e # c
      BY <2>2 DEF CheckoutsFollowGit
    <3> QED BY <2>2, <3>1, <1>1 DEF CheckoutIsKnown
  <2> QED BY <2>1, <2>2
<1>8. NoUnfinishedWorkspace'
  <2>1. \A e \in Creations \ {c} : journal[e] # Null => target[e].destination # at
    BY DEF RowsApart
  <2>2. checkout[at] # Null /\ checkout[at].maker # External => checkout[at].complete
    <3> SUFFICES ASSUME checkout[at] # Null, checkout[at].maker # External
                 PROVE  checkout[at].complete
      OBVIOUS
    <3>1. PICK e \in Creations : checkout[at].maker = e
      BY <1>0
    <3>2. target[e].destination = at /\ journal[e] # Null
      BY <3>1, <1>0, <1>6 DEF CheckoutsFollowGit, CheckoutIsKnown
    <3>3. e = c
      BY <3>2, <2>1
    <3> QED BY <3>1, <3>3, <1>0 DEF CheckoutsFollowGit
  <2> SUFFICES ASSUME NEW d \in Destinations, workspaceAt'[d] # Null
               PROVE  /\ ~\E e \in Creations : journal'[e] # Null /\ target[e].destination = d
                      /\ checkout[d] # Null /\ checkout[d].maker # External => checkout[d].complete
    BY DEF NoUnfinishedWorkspace
  <2>3. CASE d = at
    BY <2>1, <2>2, <2>3, <1>1
  <2>4. CASE d # at
    BY <2>4, <1>1 DEF NoUnfinishedWorkspace
  <2> QED BY <2>3, <2>4
<1> QED BY <1>1, <1>2, <1>3, <1>4, <1>5, <1>7, <1>8
----------------------------------------------------------------------------
(* The machine of the source, and imports. *)

\* A checkout begins to be filled: its row exists, so nothing was published
\* at its path.
LEMMA GitStartsKeeps ==
  ASSUME CreationInv, NEW c \in Creations, GitStarts(c)
  PROVE  CreationInv'
<1> USE CreationNames DEF CreationInv, GitStarts
<1> DEFINE at == target[c].destination
<1>0. target[c] \in Target /\ at \in Destinations /\ journal[c] # Null
  BY DEF GitFollowsRow
<1>1. /\ checkout'[at] = [maker |-> c, complete |-> FALSE]
      /\ \A d \in Destinations \ {at} : checkout'[d] = checkout[d]
  BY <1>0
<1>2. CreationTypeOK'
  BY <1>0
<1>3. CheckoutsFollowGit'
  BY <1>0, <1>1 DEF CheckoutsFollowGit
<1>4. workspaceAt[at] = Null
  BY <1>0 DEF NoUnfinishedWorkspace
<1>5. CheckoutIsKnown'
  BY <1>0, <1>1 DEF CheckoutIsKnown
<1>6. NoUnfinishedWorkspace'
  BY <1>1, <1>4 DEF NoUnfinishedWorkspace
<1>7. RowsApart' /\ GitFollowsRow' /\ CallsAreBusy' /\ ActiveIsJournaled'
  BY DEF RowsApart, GitFollowsRow, CallsAreBusy, ActiveIsJournaled
<1> QED BY <1>2, <1>3, <1>5, <1>6, <1>7

\* The exit of git, with its checkout complete or left as it is.
LEMMA GitEndsKeeps ==
  ASSUME CreationInv, NEW c \in Creations, GitEnds(c)
  PROVE  CreationInv'
<1> USE CreationNames DEF CreationInv, GitEnds
<1> DEFINE at == target[c].destination
<1>0. target[c] \in Target /\ at \in Destinations /\ journal[c] # Null
  BY DEF GitFollowsRow
<1>1. git'[c] \in {"succeeded", "failed"} /\ \A e \in Creations \ {c} : git'[e] = git[e]
  OBVIOUS
<1>2. GitFollowsRow'
  BY <1>1 DEF GitFollowsRow
<1>3. RowsApart' /\ CallsAreBusy' /\ ActiveIsJournaled'
  BY DEF RowsApart, CallsAreBusy, ActiveIsJournaled
<1>4. CASE UNCHANGED checkout /\ git'[c] = "failed"
  <2>1. CreationTypeOK' /\ CheckoutIsKnown' /\ NoUnfinishedWorkspace'
    BY <1>4 DEF CheckoutIsKnown, NoUnfinishedWorkspace
  <2>2. CheckoutsFollowGit'
    BY <1>1, <1>4 DEF CheckoutsFollowGit
  <2> QED BY <1>2, <1>3, <2>1, <2>2
<1>5. CASE /\ checkout[at] = [maker |-> c, complete |-> FALSE]
           /\ checkout' = [checkout EXCEPT ![at].complete = TRUE]
  <2>7. checkout[at] \in Checkout
    BY <1>0, <1>5
  <2>8. checkout' = [checkout EXCEPT ![at] = [checkout[at] EXCEPT !.complete = TRUE]]
    BY <1>5
  <2>9. [checkout[at] EXCEPT !.complete = TRUE] \in Checkout
    BY ONLY <2>7 DEF Checkout
  <2>1. /\ checkout'[at] \in Checkout /\ checkout'[at].maker = c /\ checkout'[at].complete
        /\ \A d \in Destinations \ {at} : checkout'[d] = checkout[d]
    BY <1>0, <1>5, <2>8, <2>9
  <2>2. checkout' \in [Destinations -> Checkout \cup {Null}]
    BY <1>0, <2>8, <2>9
  <2>3. CreationTypeOK'
    BY <1>5, <2>2
  <2>4. CheckoutsFollowGit'
    BY <1>0, <1>1, <2>1 DEF CheckoutsFollowGit
  <2>5. CheckoutIsKnown'
    BY <1>0, <2>1 DEF CheckoutIsKnown
  <2>6. NoUnfinishedWorkspace'
    BY <2>1 DEF NoUnfinishedWorkspace
  <2> QED BY <1>2, <1>3, <2>3, <2>4, <2>5, <2>6
<1> QED BY <1>4, <1>5

\* What a user removes or adds is no checkout of a creation.
LEMMA UserKeeps ==
  ASSUME CreationInv, NEW d \in Destinations, UserChanges(d)
  PROVE  CreationInv'
<1> USE CreationNames DEF CreationInv, UserChanges
<1>1. /\ checkout'[d] = Null \/ checkout'[d] = [maker |-> External, complete |-> TRUE]
      /\ \A e \in Destinations \ {d} : checkout'[e] = checkout[e]
  OBVIOUS
<1>2. CreationTypeOK'
  OBVIOUS
<1>3. CheckoutsFollowGit' /\ CheckoutIsKnown'
  BY <1>1 DEF CheckoutsFollowGit, CheckoutIsKnown
<1>4. NoUnfinishedWorkspace'
  BY <1>1 DEF NoUnfinishedWorkspace
<1>5. RowsApart' /\ GitFollowsRow' /\ CallsAreBusy' /\ ActiveIsJournaled'
  BY DEF RowsApart, GitFollowsRow, CallsAreBusy, ActiveIsJournaled
<1> QED BY <1>2, <1>3, <1>4, <1>5

\* An import takes no pending path; a checkout that is not complete is
\* pending, or already a workspace of somebody else.
LEMMA RegisterKeeps ==
  ASSUME CreationInv, DiscoverRegister
  PROVE  CreationInv'
<1> USE CreationNames DEF CreationInv, DiscoverRegister
<1>1. CreationTypeOK'
  OBVIOUS
<1>2. \A d \in Destinations :
        workspaceAt'[d] = workspaceAt[d] \/ (workspaceAt[d] = Null /\ ~PendingAt(d) /\ workspaceAt'[d] = External)
  OBVIOUS
<1>3. CheckoutIsKnown'
  BY <1>2 DEF CheckoutIsKnown
<1>4. NoUnfinishedWorkspace'
  <2> SUFFICES ASSUME NEW d \in Destinations, workspaceAt'[d] # Null
               PROVE  /\ ~PendingAt(d)
                      /\ checkout[d] # Null /\ checkout[d].maker # External => checkout[d].complete
    BY DEF NoUnfinishedWorkspace
  <2>1. CASE workspaceAt[d] # Null
    BY <2>1 DEF NoUnfinishedWorkspace
  <2>2. CASE workspaceAt[d] = Null
    <3>1. ~PendingAt(d)
      BY <2>2, <1>2
    <3>2. ~(checkout[d] # Null /\ checkout[d].maker # External)
      BY <2>2, <3>1 DEF CheckoutIsKnown, CheckoutsFollowGit
    <3> QED BY <3>1, <3>2
  <2> QED BY <2>1, <2>2
<1>5. RowsApart' /\ GitFollowsRow' /\ CheckoutsFollowGit' /\ CallsAreBusy' /\ ActiveIsJournaled'
  BY DEF RowsApart, GitFollowsRow, CheckoutsFollowGit, CallsAreBusy, ActiveIsJournaled
<1> QED BY <1>1, <1>3, <1>4, <1>5

----------------------------------------------------------------------------
(* The steps of the calls. *)

\* A step of create that touches its own place only.
LEMMA CreateMoves ==
  ASSUME CreationInv, NEW c \in Creations, CheckDestination(c) \/ Verify(c)
  PROVE  CreationInv'
<1> USE DEF CreationInv, CheckDestination, Verify
<1>1. CreationTypeOK'
  OBVIOUS
<1>2. CallsAreBusy' /\ ActiveIsJournaled'
  BY DEF CallsAreBusy, ActiveIsJournaled
<1> QED BY <1>1, <1>2, CallSteps

LEMMA RecoveryMoves ==
  ASSUME CreationInv, NEW c \in Creations, RecoverConfirmed(c) \/ RecoverVerify(c) \/ RecoverFails(c)
  PROVE  CreationInv'
<1> USE DEF CreationInv, CanRecover, RecoverConfirmed, RecoverVerify, RecoverFails
<1>1. CreationTypeOK'
  OBVIOUS
<1>2. CallsAreBusy' /\ ActiveIsJournaled'
  BY DEF CallsAreBusy, ActiveIsJournaled
<1> QED BY <1>1, <1>2, CallSteps

LEMMA DiscoveryAndCrash ==
  ASSUME CreationInv, DiscoverRead \/ DiscoverFails \/ Crash
  PROVE  CreationInv'
<1> USE DEF CreationInv, DiscoverRead, DiscoverFails, Crash
<1>1. CreationTypeOK'
  OBVIOUS
<1>2. CallsAreBusy' /\ ActiveIsJournaled'
  BY DEF CallsAreBusy, ActiveIsJournaled
<1> QED BY <1>1, <1>2, CallSteps

\* The failure of create, and the preparation recovery cancels.
LEMMA FailureKeeps ==
  ASSUME CreationInv, NEW c \in Creations, CreateFails(c) \/ RecoverPreparing(c)
  PROVE  CreationInv'
<1> USE DEF CreationInv, CreateFails, RecoverPreparing, CanRecover
<1>1. /\ journal' \in [Creations -> Row \cup {Null}] /\ RowsApart' /\ GitFollowsRow' /\ CheckoutsFollowGit'
      /\ CheckoutIsKnown' /\ NoUnfinishedWorkspace'
      /\ \A e \in Creations \ {c} : journal'[e] = journal[e]
  BY FailKeeps
<1>2. CreationTypeOK'
  BY <1>1
<1>3. recovering'[c] = "idle" /\ creating'[c] \notin Working
  BY DEF CallsAreBusy
<1>4. CallsAreBusy' /\ ActiveIsJournaled'
  BY <1>1, <1>3 DEF CallsAreBusy, ActiveIsJournaled
<1> QED BY <1>1, <1>2, <1>4

\* The publication of create and of recovery.
LEMMA PublicationKeeps ==
  ASSUME CreationInv, NEW c \in Creations, Publish(c) \/ RecoverPublish(c)
  PROVE  CreationInv'
<1> USE DEF CreationInv, Publish, RecoverPublish
<1>1. /\ journal' \in [Creations -> Row \cup {Null}]
      /\ workspaceAt' \in [Destinations -> Creations \cup {External, Null}]
      /\ RowsApart' /\ GitFollowsRow' /\ CheckoutsFollowGit' /\ CheckoutIsKnown' /\ NoUnfinishedWorkspace'
      /\ \A e \in Creations \ {c} : journal'[e] = journal[e]
  BY CommitKeeps
<1>2. CreationTypeOK'
  BY <1>1
<1>3. recovering'[c] = "idle" /\ creating'[c] \notin Working
  BY DEF CallsAreBusy
<1>4. CallsAreBusy' /\ ActiveIsJournaled'
  BY <1>1, <1>3 DEF CallsAreBusy, ActiveIsJournaled
<1> QED BY <1>1, <1>2, <1>4
----------------------------------------------------------------------------
(* The invariant, and what it says of every run. *)

LEMMA CreationSafety == Spec => []CreationInv
<1>1. Init => CreationInv
  BY CreationNames DEF Init, CreationInv, RowsApart, GitFollowsRow, CheckoutsFollowGit, CallsAreBusy,
     CheckoutIsKnown, NoUnfinishedWorkspace, ActiveIsJournaled
<1>2. CreationInv /\ [Next]_vars => CreationInv'
  <2> SUFFICES ASSUME CreationInv, [Next]_vars PROVE CreationInv'
    OBVIOUS
  <2>1. ASSUME NEW c \in Creations, NEW r \in Repositories, NEW d \in Destinations, Begin(c, r, d)
        PROVE  CreationInv'
    BY <2>1, BeginKeeps
  <2>2. ASSUME NEW c \in Creations, Dispatch(c) PROVE CreationInv'
    BY <2>2, DispatchKeeps
  <2>3. ASSUME NEW c \in Creations, ConfirmGit(c) PROVE CreationInv'
    BY <2>3, ConfirmKeeps
  <2>4. ASSUME NEW c \in Creations, CheckDestination(c) \/ Verify(c) PROVE CreationInv'
    BY <2>4, CreateMoves
  <2>5. ASSUME NEW c \in Creations, RecoverConfirmed(c) \/ RecoverVerify(c) \/ RecoverFails(c) PROVE CreationInv'
    BY <2>5, RecoveryMoves
  <2>6. ASSUME NEW c \in Creations, CreateFails(c) \/ RecoverPreparing(c) PROVE CreationInv'
    BY <2>6, FailureKeeps
  <2>7. ASSUME NEW c \in Creations, Publish(c) \/ RecoverPublish(c) PROVE CreationInv'
    BY <2>7, PublicationKeeps
  <2>8. ASSUME NEW c \in Creations, GitStarts(c) PROVE CreationInv'
    BY <2>8, GitStartsKeeps
  <2>9. ASSUME NEW c \in Creations, GitEnds(c) PROVE CreationInv'
    BY <2>9, GitEndsKeeps
  <2>10. ASSUME NEW d \in Destinations, UserChanges(d) PROVE CreationInv'
    BY <2>10, UserKeeps
  <2>11. CASE DiscoverRegister
    BY <2>11, RegisterKeeps
  <2>12. CASE DiscoverRead \/ DiscoverFails \/ Crash
    BY <2>12, DiscoveryAndCrash
  <2>13. CASE UNCHANGED vars
    <3>1. CreationTypeOK' /\ CallsAreBusy' /\ ActiveIsJournaled'
      BY <2>13 DEF vars, CreationInv, CallsAreBusy, ActiveIsJournaled
    <3> QED BY <2>13, <3>1, CallSteps DEF vars
  <2> QED
    BY <2>1, <2>2, <2>3, <2>4, <2>5, <2>6, <2>7, <2>8, <2>9, <2>10, <2>11, <2>12, <2>13 DEF Next
<1> QED BY <1>1, <1>2, PTL DEF Spec

\* The rows, marks, checkouts and calls stay in their domains.
THEOREM CreationTypes == Spec => []CreationTypeOK
<1>1. CreationInv => CreationTypeOK
  BY DEF CreationInv
<1> QED BY <1>1, CreationSafety, PTL

\* The reservation holds for as long as git may run, because its row is not
\* given up before git has ended, and two rows never share a repository.
THEOREM Reservation == Spec => []OneGitPerRepository
<1>1. CreationInv => OneGitPerRepository
  BY DEF CreationInv, OneGitPerRepository, GitFollowsRow, RowsApart
<1> QED BY <1>1, CreationSafety, PTL

\* A checkout git made for a creation is journaled or a workspace.
THEOREM CheckoutsKnown == Spec => []CheckoutIsKnown
<1>1. CreationInv => CheckoutIsKnown
  BY DEF CreationInv
<1> QED BY <1>1, CreationSafety, PTL

\* No unfinished checkout is published, by creation, recovery or import.
THEOREM PublishedIsFinished == Spec => []NoUnfinishedWorkspace
<1>1. CreationInv => NoUnfinishedWorkspace
  BY DEF CreationInv
<1> QED BY <1>1, CreationSafety, PTL

\* Recovery cancels no creation that is under way.
THEOREM ActiveKeepsItsRow == Spec => []ActiveIsJournaled
<1>1. CreationInv => ActiveIsJournaled
  BY DEF CreationInv
<1> QED BY <1>1, CreationSafety, PTL
=============================================================================
