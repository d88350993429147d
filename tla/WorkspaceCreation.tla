--------------------------- MODULE WorkspaceCreation ---------------------------
(***************************************************************************)
(* How a workspace is created: WorkspaceCreationService journals the       *)
(* intent, has git make a checkout on the source's machine and publishes   *)
(* it, and recovers what a failure or a crash of the application           *)
(* interrupted; meanwhile WorkspaceDiscoveryService may import the same    *)
(* checkout from git's list.  One source.                                  *)
(*                                                                         *)
(* An action is what runs between two answers of the source.  A refusal    *)
(* before the journal is written changes nothing and is left out.          *)
(***************************************************************************)
EXTENDS Naturals

CONSTANTS
  Creations,      \* primary keys of workspace_creations, each for one call of create
  Repositories,   \* git common directories of the projects of the source
  Destinations,   \* paths of checkouts
  Null,
  External        \* the owner of a checkout or workspace no creation made

VARIABLES
  target,       \* what each creation was asked for
  journal,      \* workspace_creations
  workspaceAt,  \* project_workspaces: who made the secondary workspace at a path
  busy,         \* the creations this instance is working on
  creating,     \* where each call of create is
  recovering,   \* where the call of reconcile for a creation is
  discovery,    \* the paths git has listed to discover; Null when it does not run
  git,          \* external: the git worktree add of each creation
  checkout      \* external: who made what is at a path

vars == <<target, journal, workspaceAt, busy, creating, recovering, discovery, git, checkout>>

Target == [repository : Repositories, destination : Destinations]
Row == [state : {"preparing", "submitting", "uncertain"}, gitConfirmed : BOOLEAN]
Checkout == [maker : Creations \cup {External}, complete : BOOLEAN]

ASSUME CreationNames ==
  /\ Null \notin Creations \cup {External} \cup Target \cup Row \cup Checkout
  /\ External \notin Creations

CreateSteps == {"idle", "checking", "checked", "dispatched", "listing", "verified", "ended"}
RecoverSteps == {"idle", "listing", "verified"}

Init ==
  /\ target = [c \in Creations |-> Null]
  /\ journal = [c \in Creations |-> Null]
  /\ workspaceAt = [d \in Destinations |-> Null]
  /\ busy = {}
  /\ creating = [c \in Creations |-> "idle"]
  /\ recovering = [c \in Creations |-> "idle"]
  /\ discovery = Null
  /\ git = [c \in Creations |-> "none"]
  /\ checkout = [d \in Destinations |-> Null]

----------------------------------------------------------------------------
(* The journal. *)

Journaled(c) == journal[c] # Null
Destination(c) == target[c].destination
PendingAt(d) == \E c \in Creations : Journaled(c) /\ Destination(c) = d

\* Defect: the catalogue is not consulted.
CanBeginAnywhere(r, d) ==
  \A c \in Creations : Journaled(c) => target[c].repository # r /\ Destination(c) # d

\* begin: both UNIQUE constraints, and no workspace at the destination.
CanBegin(r, d) ==
  /\ \A c \in Creations : Journaled(c) => target[c].repository # r /\ Destination(c) # d
  /\ workspaceAt[d] = Null

\* Defect: a failure always gives the repository back.
FailCancels(c) == journal' = [journal EXCEPT ![c] = Null]

\* fail: preparation is cancelled, a dispatched creation keeps its row.
Fail(c) ==
  journal' = [journal EXCEPT ![c] =
    IF @ = Null \/ @.state = "preparing" THEN Null ELSE [@ EXCEPT !.state = "uncertain"]]

\* commit: the row is exchanged for a workspace in one transaction.
CanCommit(c) == Journaled(c) /\ journal[c].gitConfirmed
Commit(c) ==
  /\ journal' = [journal EXCEPT ![c] = Null]
  /\ workspaceAt' = [workspaceAt EXCEPT ![Destination(c)] = c]

----------------------------------------------------------------------------
(* create. *)

\* begin, once the primary and its repository are known.
Begin(c, r, d) ==
  /\ creating[c] = "idle" /\ target[c] = Null /\ CanBegin(r, d)
  /\ target' = [target EXCEPT ![c] = [repository |-> r, destination |-> d]]
  /\ journal' = [journal EXCEPT ![c] = [state |-> "preparing", gitConfirmed |-> FALSE]]
  /\ busy' = busy \cup {c}
  /\ creating' = [creating EXCEPT ![c] = "checking"]
  /\ UNCHANGED <<workspaceAt, recovering, discovery, git, checkout>>

\* requireDestination: nothing is at the destination.
CheckDestination(c) ==
  /\ creating[c] = "checking" /\ checkout[Destination(c)] = Null
  /\ creating' = [creating EXCEPT ![c] = "checked"]
  /\ UNCHANGED <<target, journal, workspaceAt, busy, recovering, discovery, git, checkout>>

\* Defect: git is started before the expected result is saved.
DispatchUnsaved(c) ==
  /\ creating[c] = "checked" /\ Journaled(c) /\ journal[c].state = "preparing"
  /\ git' = [git EXCEPT ![c] = "running"]
  /\ creating' = [creating EXCEPT ![c] = "dispatched"]
  /\ UNCHANGED <<target, journal, workspaceAt, busy, recovering, discovery, checkout>>

\* submitting, then git worktree add.
Dispatch(c) ==
  /\ creating[c] = "checked" /\ Journaled(c) /\ journal[c].state = "preparing"
  /\ journal' = [journal EXCEPT ![c].state = "submitting"]
  /\ git' = [git EXCEPT ![c] = "running"]
  /\ creating' = [creating EXCEPT ![c] = "dispatched"]
  /\ UNCHANGED <<target, workspaceAt, busy, recovering, discovery, checkout>>

\* confirmGit, when the exit notification of git has arrived and tells success.
ConfirmGit(c) ==
  /\ creating[c] = "dispatched" /\ git[c] = "succeeded"
  /\ Journaled(c) /\ journal[c].state = "submitting"
  /\ journal' = [journal EXCEPT ![c].gitConfirmed = TRUE]
  /\ creating' = [creating EXCEPT ![c] = "listing"]
  /\ UNCHANGED <<target, workspaceAt, busy, recovering, discovery, git, checkout>>

\* Git lists a checkout of the repository at the destination, with the head and
\* branch that were reserved.  Who made it, and whether it is finished, publish
\* cannot see; one with another head or branch ends in CreateFails.
Matches(c) == checkout[Destination(c)] # Null

\* publish up to its last answer.
Verify(c) ==
  /\ creating[c] = "listing" /\ Matches(c)
  /\ creating' = [creating EXCEPT ![c] = "verified"]
  /\ UNCHANGED <<target, journal, workspaceAt, busy, recovering, discovery, git, checkout>>

\* The rest of publish; the call is over.
Publish(c) ==
  /\ creating[c] = "verified" /\ CanCommit(c)
  /\ Commit(c)
  /\ busy' = busy \ {c}
  /\ creating' = [creating EXCEPT ![c] = "ended"]
  /\ UNCHANGED <<target, recovering, discovery, git, checkout>>

Working == {"checking", "checked", "dispatched", "listing", "verified"}

\* Any step of create fails: a check, the source, a lost or late exit of git,
\* a failed command, a checkout that does not match, the publication.
CreateFails(c) ==
  /\ creating[c] \in Working
  /\ Fail(c)
  /\ busy' = busy \ {c}
  /\ creating' = [creating EXCEPT ![c] = "ended"]
  /\ UNCHANGED <<target, workspaceAt, recovering, discovery, git, checkout>>

----------------------------------------------------------------------------
(* reconcile. *)

\* Defect: recovery does not ask who is working on the creation.
CanAlwaysRecover(c) == Journaled(c) /\ recovering[c] = "idle"

CanRecover(c) == Journaled(c) /\ c \notin busy

\* Preparation that was interrupted is cancelled.
RecoverPreparing(c) ==
  /\ CanRecover(c) /\ journal[c].state = "preparing"
  /\ Fail(c)
  /\ UNCHANGED <<target, workspaceAt, busy, creating, recovering, discovery, git, checkout>>

\* A creation whose git command has succeeded is looked for; one whose
\* command is uncertain is left alone.
RecoverConfirmed(c) ==
  /\ CanRecover(c) /\ journal[c].state # "preparing" /\ journal[c].gitConfirmed
  /\ busy' = busy \cup {c}
  /\ recovering' = [recovering EXCEPT ![c] = "listing"]
  /\ UNCHANGED <<target, journal, workspaceAt, creating, discovery, git, checkout>>

RecoverVerify(c) ==
  /\ recovering[c] = "listing" /\ Matches(c)
  /\ recovering' = [recovering EXCEPT ![c] = "verified"]
  /\ UNCHANGED <<target, journal, workspaceAt, busy, creating, discovery, git, checkout>>

RecoverPublish(c) ==
  /\ recovering[c] = "verified" /\ CanCommit(c)
  /\ Commit(c)
  /\ busy' = busy \ {c}
  /\ recovering' = [recovering EXCEPT ![c] = "idle"]
  /\ UNCHANGED <<target, creating, discovery, git, checkout>>

\* The source fails or the checkout does not match: the row stays.
RecoverFails(c) ==
  /\ recovering[c] \in {"listing", "verified"}
  /\ busy' = busy \ {c}
  /\ recovering' = [recovering EXCEPT ![c] = "idle"]
  /\ UNCHANGED <<target, journal, workspaceAt, creating, discovery, git, checkout>>

----------------------------------------------------------------------------
(* discover. *)

\* Git's list and the metadata of its entries, which an unfinished checkout
\* may already have.
DiscoverRead ==
  /\ discovery = Null
  /\ discovery' = {d \in Destinations : checkout[d] # Null}
  /\ UNCHANGED <<target, journal, workspaceAt, busy, creating, recovering, git, checkout>>

\* registerDiscovered: in one transaction, paths that are pending or known
\* are skipped.
DiscoverRegister ==
  /\ discovery # Null
  /\ workspaceAt' = [d \in Destinations |->
       IF d \in discovery /\ ~PendingAt(d) /\ workspaceAt[d] = Null THEN External ELSE workspaceAt[d]]
  /\ discovery' = Null
  /\ UNCHANGED <<target, journal, busy, creating, recovering, git, checkout>>

\* An unexpected answer of the source aborts the import.
DiscoverFails ==
  /\ discovery # Null
  /\ discovery' = Null
  /\ UNCHANGED <<target, journal, workspaceAt, busy, creating, recovering, git, checkout>>

----------------------------------------------------------------------------
(* The machine of the source, and the application. *)

\* git worktree add has begun to fill the destination, which is empty.
GitStarts(c) ==
  /\ git[c] = "running" /\ checkout[Destination(c)] = Null
  /\ checkout' = [checkout EXCEPT ![Destination(c)] = [maker |-> c, complete |-> FALSE]]
  /\ UNCHANGED <<target, journal, workspaceAt, busy, creating, recovering, discovery, git>>

\* It ends, also after the application has stopped waiting: with its checkout
\* complete, or failed with what it had done so far.
GitEnds(c) ==
  /\ git[c] = "running"
  /\ \/ /\ checkout[Destination(c)] = [maker |-> c, complete |-> FALSE]
        /\ checkout' = [checkout EXCEPT ![Destination(c)].complete = TRUE]
        /\ git' = [git EXCEPT ![c] = "succeeded"]
     \/ git' = [git EXCEPT ![c] = "failed"] /\ UNCHANGED checkout
  /\ UNCHANGED <<target, journal, workspaceAt, busy, creating, recovering, discovery>>

\* The user removes what is at a path, or makes a checkout there.
UserChanges(d) ==
  /\ checkout' = [checkout EXCEPT ![d] = IF @ = Null THEN [maker |-> External, complete |-> TRUE] ELSE Null]
  /\ UNCHANGED <<target, journal, workspaceAt, busy, creating, recovering, discovery, git>>

\* The application stops and is started again: the tables are kept, and git
\* may go on.
Crash ==
  /\ busy # {} \/ discovery # Null
  /\ busy' = {}
  /\ creating' = [c \in Creations |-> IF creating[c] = "idle" THEN "idle" ELSE "ended"]
  /\ recovering' = [c \in Creations |-> "idle"]
  /\ discovery' = Null
  /\ UNCHANGED <<target, journal, workspaceAt, git, checkout>>

Next ==
  \/ \E c \in Creations, r \in Repositories, d \in Destinations : Begin(c, r, d)
  \/ \E c \in Creations :
       \/ CheckDestination(c) \/ Dispatch(c) \/ ConfirmGit(c) \/ Verify(c) \/ Publish(c) \/ CreateFails(c)
       \/ RecoverPreparing(c) \/ RecoverConfirmed(c) \/ RecoverVerify(c) \/ RecoverPublish(c) \/ RecoverFails(c)
       \/ GitStarts(c) \/ GitEnds(c)
  \/ DiscoverRead \/ DiscoverRegister \/ DiscoverFails
  \/ \E d \in Destinations : UserChanges(d)
  \/ Crash

Spec == Init /\ [][Next]_vars

----------------------------------------------------------------------------
(* Properties. *)

\* Values stay in their domains.
CreationTypeOK ==
  /\ target \in [Creations -> Target \cup {Null}]
  /\ journal \in [Creations -> Row \cup {Null}]
  /\ workspaceAt \in [Destinations -> Creations \cup {External, Null}]
  /\ busy \subseteq Creations
  /\ creating \in [Creations -> CreateSteps] /\ recovering \in [Creations -> RecoverSteps]
  /\ discovery = Null \/ discovery \subseteq Destinations
  /\ git \in [Creations -> {"none", "running", "succeeded", "failed"}]
  /\ checkout \in [Destinations -> Checkout \cup {Null}]

\* "Creation reserves both the destination and the source/repository pair":
\* no two git commands change one repository at a time, although git may
\* outlive the call, its timer and the application that started it.
OneGitPerRepository ==
  \A c, e \in Creations :
    git[c] = "running" /\ git[e] = "running" /\ target[c].repository = target[e].repository => c = e

\* What git has made for a creation is never forgotten, whichever of its
\* steps failed or crashed: it is journaled or a workspace.
CheckoutIsKnown ==
  \A d \in Destinations, c \in Creations :
    checkout[d] # Null /\ checkout[d].maker = c => Journaled(c) \/ workspaceAt[d] # Null

\* Nothing is executed in a checkout git has not finished ("destinations are
\* invisible to execution until publication"): neither the creation, nor its
\* recovery, nor an import publishes it, and a path is either pending or a
\* workspace.
NoUnfinishedWorkspace ==
  \A d \in Destinations : workspaceAt[d] # Null =>
    /\ ~PendingAt(d)
    /\ checkout[d] # Null /\ checkout[d].maker # External => checkout[d].complete

\* "Prevents recovery from cancelling preparation that this instance is still
\* using": a creation that is under way keeps its row until it gives it up.
ActiveIsJournaled ==
  \A c \in Creations : creating[c] \in Working \/ recovering[c] # "idle" => Journaled(c)
=============================================================================
