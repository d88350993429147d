----------------------------- MODULE CodexSource -----------------------------
(***************************************************************************)
(* One `codex app-server` process as the backend of OpenCodexUI uses it:   *)
(* an external program behind two ordered pipes.  It serves requests in    *)
(* the order they were written, answers each of them or refuses it without *)
(* effect, and interleaves its answers with turn notifications.  What a    *)
(* thread does inside a turn is left out.                                  *)
(***************************************************************************)
EXTENDS WorkspaceIdentities, Sequences

CONSTANTS
  Calls,         \* backend calls; a call has at most one request in flight
  ForeignTurns   \* turns nobody on this backend asked for (goals, other clients)

VARIABLES
  known,           \* threads that exist on the source
  running,         \* the active turn of each thread, Null when idle
  started,         \* turns that have ever been active
  sourceArchived,  \* catalogue state of each thread
  sourceCwd,       \* location of the loaded thread
  reported,        \* permission contract its resume reports for the loaded thread, Null for the default one
  requests,        \* client to server
  events           \* server to client: answers and notifications

sourceVars == <<known, running, started, sourceArchived, sourceCwd, reported, requests, events>>

StartMethods == {"turn", "review", "compact"}
Methods == StartMethods \cup
  {"read", "evidence", "newThread", "resume", "switch", "rollback", "archive", "unarchive", "delete"}

Request ==
  [call : Calls, method : Methods, thread : Threads \cup {Null},
   cwd : Workspaces \cup {Null}, contract : Contracts \cup {Null}, archived : BOOLEAN]

Results == {"ok", "idle", "active", "error"}
Answer == [type : {"answer"}, call : Calls, result : Results, thread : Threads \cup {Null}]
TurnNotification == [type : {"started", "completed"}, thread : Threads, turn : Calls \cup ForeignTurns]
DeletedNotification == [type : {"deleted"}, thread : Threads]
Event == Answer \cup TurnNotification \cup DeletedNotification

SourceTypeOK ==
  /\ known \subseteq Threads
  /\ running \in [Threads -> Calls \cup ForeignTurns \cup {Null}]
  /\ started \subseteq Calls \cup ForeignTurns
  /\ sourceArchived \in [Threads -> BOOLEAN]
  /\ sourceCwd \in [Threads -> Workspaces \cup {Null}]
  /\ reported \in [Threads -> Contracts \cup {Null}]
  /\ requests \in Seq(Request)
  /\ events \in Seq(Event)

\* location: where each thread that exists at the start is.
SourceInit(location) ==
  /\ known = {t \in Threads : location[t] # Null}
  /\ running = [t \in Threads |-> Null]
  /\ started = {}
  /\ sourceArchived = [t \in Threads |-> FALSE]
  /\ sourceCwd = location
  /\ reported = [t \in Threads |-> Null]
  /\ requests = <<>>
  /\ events = <<>>

Idle(t) == t \in known /\ running[t] = Null

----------------------------------------------------------------------------
(* Serving the oldest request. *)

Oldest == Head(requests)

Reply(result, t) == [type |-> "answer", call |-> Oldest.call, result |-> result, thread |-> t]

Emit(new) == events' = events \o new

\* thread/read: the status a caller takes for idleness.
ServeRead ==
  /\ Oldest.method = "read"
  /\ Emit(<<Reply(IF Oldest.thread \notin known THEN "error"
                  ELSE IF Idle(Oldest.thread) THEN "idle" ELSE "active", Null)>>)
  /\ UNCHANGED <<known, running, started, sourceArchived, sourceCwd, reported>>

\* thread/list followed by thread/read: the thread is in the wanted half of
\* the catalogue, where it should be, and inactive.
ServeEvidence ==
  /\ Oldest.method = "evidence"
  /\ LET t == Oldest.thread
         isThere == Idle(t) /\ sourceArchived[t] = Oldest.archived /\ sourceCwd[t] = Oldest.cwd
     IN  Emit(<<Reply(IF isThere THEN "ok" ELSE "error", Null)>>)
  /\ UNCHANGED <<known, running, started, sourceArchived, sourceCwd, reported>>

\* thread/start issues a thread id never used before.
ServeNewThread ==
  /\ Oldest.method = "newThread"
  /\ \E t \in Threads \ known :
       /\ sourceCwd[t] = Null
       /\ known' = known \cup {t}
       /\ sourceCwd' = [sourceCwd EXCEPT ![t] = Oldest.cwd]
       /\ Emit(<<Reply("ok", t)>>)
  /\ UNCHANGED <<running, started, sourceArchived, reported>>

\* turn/start, review/start and thread/compact/start make the thread active.
\* A turn carries its cwd; the other two run where the thread is loaded.
ServeStart ==
  /\ Oldest.method \in StartMethods
  /\ Idle(Oldest.thread)
  /\ running' = [running EXCEPT ![Oldest.thread] = Oldest.call]
  /\ started' = started \cup {Oldest.call}
  /\ sourceCwd' = [sourceCwd EXCEPT ![Oldest.thread] = IF Oldest.method = "turn" THEN Oldest.cwd ELSE @]
  /\ Emit(<<Reply("ok", Null), [type |-> "started", thread |-> Oldest.thread, turn |-> Oldest.call]>>)
  /\ UNCHANGED <<known, sourceArchived, reported>>

ServeRollback ==
  /\ Oldest.method = "rollback"
  /\ Idle(Oldest.thread)
  /\ Emit(<<Reply("ok", Null)>>)
  /\ UNCHANGED <<known, running, started, sourceArchived, sourceCwd, reported>>

\* thread/resume of an idle thread: a thread that is already loaded may keep
\* its old location, or its old permissions, or both.  The answer is the
\* projection the source reports, which the caller compares.  Whether the source
\* enforces the permissions it reports is not known and not modelled.
ServeResume ==
  /\ Oldest.method \in {"resume", "switch"}
  /\ LET t == Oldest.thread
         switches == Oldest.method = "switch"
     IN  /\ Idle(t)
         /\ \E cwd \in {sourceCwd[t], Oldest.cwd},
               k \in {reported[t]} \cup (IF switches THEN {Oldest.contract} ELSE {}) :
              /\ sourceCwd' = [sourceCwd EXCEPT ![t] = cwd]
              /\ reported' = [reported EXCEPT ![t] = k]
              /\ Emit(<<Reply(IF cwd = Oldest.cwd /\ (switches => k = Oldest.contract)
                              THEN "ok" ELSE "error", Null)>>)
  /\ UNCHANGED <<known, running, started, sourceArchived>>

ServeArchive ==
  /\ Oldest.method \in {"archive", "unarchive"}
  /\ Oldest.thread \in known
  /\ sourceArchived' = [sourceArchived EXCEPT ![Oldest.thread] = Oldest.method = "archive"]
  /\ Emit(<<Reply("ok", Null)>>)
  /\ UNCHANGED <<known, running, started, sourceCwd, reported>>

\* thread/delete also ends what the thread was doing, and tells every client.
ServeDelete ==
  /\ Oldest.method = "delete"
  /\ Oldest.thread \in known
  /\ known' = known \ {Oldest.thread}
  /\ running' = [running EXCEPT ![Oldest.thread] = Null]
  /\ LET deleted == [type |-> "deleted", thread |-> Oldest.thread]
     IN  Emit(<<Reply("ok", Null), deleted>>) \/ Emit(<<deleted, Reply("ok", Null)>>)
  /\ UNCHANGED <<started, sourceArchived, sourceCwd, reported>>

\* Any request may be answered with a JSON-RPC error and have no effect.
Refuse ==
  /\ Emit(<<Reply("error", Null)>>)
  /\ UNCHANGED <<known, running, started, sourceArchived, sourceCwd, reported>>

Serve ==
  /\ requests # <<>>
  /\ requests' = Tail(requests)
  /\ \/ ServeRead
     \/ ServeEvidence
     \/ ServeNewThread
     \/ ServeStart
     \/ ServeRollback
     \/ ServeResume
     \/ ServeArchive
     \/ ServeDelete
     \/ Refuse

----------------------------------------------------------------------------
(* Turns. *)

CompleteTurn(t) ==
  /\ running[t] # Null
  /\ running' = [running EXCEPT ![t] = Null]
  /\ Emit(<<[type |-> "completed", thread |-> t, turn |-> running[t]]>>)
  /\ UNCHANGED <<known, started, sourceArchived, sourceCwd, reported, requests>>

\* A turn that another client, or the goal of the thread, starts.
StartForeignTurn(t, u) ==
  /\ Idle(t)
  /\ u \notin started
  /\ running' = [running EXCEPT ![t] = u]
  /\ started' = started \cup {u}
  /\ Emit(<<[type |-> "started", thread |-> t, turn |-> u]>>)
  /\ UNCHANGED <<known, sourceArchived, sourceCwd, reported, requests>>

\* The process ends: its turns stop, and what is in the pipes is lost.
Exit ==
  /\ running' = [t \in Threads |-> Null]
  /\ requests' = <<>>
  /\ events' = <<>>
  /\ UNCHANGED <<known, started, sourceArchived, sourceCwd, reported>>
=============================================================================
