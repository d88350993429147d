-------------------------- MODULE WorkspaceOwnership --------------------------
(***************************************************************************)
(* What the tables of WorkspaceStore are for, without rows: a conversation *)
(* is free, executes, or moves.  An execution captures a workspace, and    *)
(* nobody else moves the conversation while it lasts; while a conversation *)
(* moves, no execution has captured either end and nothing else moves from *)
(* or to there.  A conversation that was forgotten is settled anew where   *)
(* it is found, also while it executes.                                    *)
(***************************************************************************)
EXTENDS WorkspaceIdentities

VARIABLES
  location,   \* workspace of each thread, Null for an unknown thread
  mode,       \* "free", "executing" or "moving"
  target,     \* where a moving thread goes
  capture     \* the workspace that the execution of an executing thread captured

ownershipVars == <<location, mode, target, capture>>

OwnershipInit ==
  /\ location \in [Threads -> Workspaces \cup {Null}]
  /\ mode = [t \in Threads |-> "free"]
  /\ target = [t \in Threads |-> Null]
  /\ capture = [t \in Threads |-> Null]

MovesAt(w) == \E t \in Threads : mode[t] = "moving" /\ w \in {location[t], target[t]}
ExecutesAt(w) == \E t \in Threads : mode[t] = "executing" /\ w = capture[t]

\* A free thread is indexed, or placed somewhere else; an executing one is
\* indexed again once it was forgotten.
Settle(t, w) ==
  /\ mode[t] = "free" \/ (mode[t] = "executing" /\ location[t] = Null)
  /\ location' = [location EXCEPT ![t] = w]
  /\ UNCHANGED <<mode, target, capture>>

\* An execution starts, and the thread belongs to its workspace from then on.
Execute(t, w) ==
  /\ mode[t] = "free"
  /\ ~MovesAt(w)
  /\ location' = [location EXCEPT ![t] = w]
  /\ mode' = [mode EXCEPT ![t] = "executing"]
  /\ capture' = [capture EXCEPT ![t] = w]
  /\ UNCHANGED target

\* The execution of u is bound to another thread.
Handover(u, t) ==
  /\ mode[u] = "executing" /\ mode[t] = "free"
  /\ ~MovesAt(capture[u])
  /\ location' = [location EXCEPT ![t] = capture[u]]
  /\ mode' = [mode EXCEPT ![u] = "free", ![t] = "executing"]
  /\ capture' = [capture EXCEPT ![u] = Null, ![t] = capture[u]]
  /\ UNCHANGED target

\* An execution takes its thread back to where it runs.
Return(t) ==
  /\ mode[t] = "executing"
  /\ location' = [location EXCEPT ![t] = capture[t]]
  /\ UNCHANGED <<mode, target, capture>>

Rest(t) ==
  /\ mode[t] = "executing"
  /\ mode' = [mode EXCEPT ![t] = "free"]
  /\ capture' = [capture EXCEPT ![t] = Null]
  /\ UNCHANGED <<location, target>>

BeginMove(t, w) ==
  /\ mode[t] = "free" /\ location[t] # Null
  /\ \A e \in {location[t], w} : ~ExecutesAt(e) /\ ~MovesAt(e)
  /\ mode' = [mode EXCEPT ![t] = "moving"]
  /\ target' = [target EXCEPT ![t] = w]
  /\ UNCHANGED <<location, capture>>

EndMove(t, w) ==
  /\ mode[t] = "moving" /\ w \in {location[t], target[t]}
  /\ location' = [location EXCEPT ![t] = w]
  /\ mode' = [mode EXCEPT ![t] = "free"]
  /\ target' = [target EXCEPT ![t] = Null]
  /\ UNCHANGED capture

Forget(t) ==
  /\ mode[t] # "moving"
  /\ location' = [location EXCEPT ![t] = Null]
  /\ UNCHANGED <<mode, target, capture>>

OwnershipNext ==
  \E t \in Threads :
    \/ \E w \in Workspaces : Settle(t, w) \/ Execute(t, w) \/ BeginMove(t, w) \/ EndMove(t, w)
    \/ \E u \in Threads : Handover(u, t)
    \/ Return(t)
    \/ Rest(t)
    \/ Forget(t)

OwnershipSpec == OwnershipInit /\ [][OwnershipNext]_ownershipVars
=============================================================================
