------------------------------ MODULE ThreadTurns ------------------------------
(***************************************************************************)
(* Which turns of a thread the application holds: ThreadTurnCache in       *)
(* memory, the rows of SQLite, and the source, which owns the history.     *)
(* ThreadReadService opens, recovers and pages; ThreadTurnSyncService      *)
(* synchronizes, one operation of the thread at a time; and                *)
(* ThreadMaintenanceService rolls the last turn back.                      *)
(*                                                                         *)
(* One indexed thread of one source.  A turn is its place in time.  The    *)
(* contents of turns are not modelled: a merge is a union.  The database   *)
(* is in the process and answers without letting another task in, so an    *)
(* action is what runs between two answers of the source.                  *)
(***************************************************************************)
EXTENDS Naturals, Sequences, FiniteSets

CONSTANTS
  MaxTurns,       \* bound on the turns of the thread
  PageSize,       \* THREAD_TURNS_PAGE_SIZE
  InitialCached,  \* THREAD_INITIAL_CACHED_TURNS
  MaxQueued,      \* bound on the chain of synchronizations
  Histories,      \* what the source may hold at the start: sets of turns
  Modes,          \* history modes of the thread: "legacy", "paginated"
  Null

Turns == 1..MaxTurns

VARIABLES
  mode,      \* external: historyMode of the thread
  history,   \* external: the turns of the thread at the source
  last,      \* external: the last turn the thread ever had
  running,   \* the turn that runs; 0 when none does
  entry,     \* ThreadTurnCache: the entry of the thread; Null when it has none
  rows,      \* SQLite: the turns of the thread
  stored,    \* SQLite: its synchronization state
  chain,     \* synchronizationChains: the first one is under way
  timers,    \* completions that wait half a second
  reading,   \* openThread or readThreadReadonly without cached turns
  older,     \* loadOlderThreadMessages at the source
  rollback,  \* editLastTurn
  opened,    \* ghost: the source's latest page when the thread was opened
  gone,      \* ghost: the turns finished rollbacks removed
  readBack   \* ghost: those of them that were read back before their rollback finished

vars == <<mode, history, last, running, entry, rows, stored, chain, timers, reading, older, rollback,
          opened, gone, readBack>>
source == <<mode, history, last, running>>
database == <<rows, stored>>
undone == <<gone, readBack>>
ghosts == <<opened, undone>>

MaybeTurn == Turns \cup {Null}
Cursor == [at : {"cache", "source"}, before : MaybeTurn]
Cursors == Cursor \cup {Null}
Pages == [turns : SUBSET Turns, cursor : Cursors]
Entries == [turns : SUBSET Turns, newest : MaybeTurn, cursor : Cursors, latest : BOOLEAN, all : BOOLEAN]
SyncStates == [newest : MaybeTurn, cursor : Cursors, latest : BOOLEAN, all : BOOLEAN]
Syncs == [kind : {"opened", "recovery", "completed", "rollback"},
          at : {"queued", "asked", "answered"}, fresh : BOOLEAN, page : Pages \cup {Null}]
Readings == [opens : BOOLEAN, at : {"client", "asked", "answered"}, fresh : BOOLEAN, page : Pages \cup {Null}]
OlderReads == [at : {"client", "asked", "answered"}, cursor : Cursors, page : Pages \cup {Null}]
Rollbacks == [at : {"asked", "reverted", "syncing", "synced"}, before : MaybeTurn,
              removed : SUBSET Turns, refilled : BOOLEAN]

ASSUME TurnNames ==
  /\ MaxTurns \in Nat /\ PageSize \in Nat \ {0} /\ InitialCached \in Nat \ {0}
  /\ \A H \in Histories : \E n \in 0..MaxTurns : H = 1..n
  /\ Null \notin Turns \cup Cursor \cup Pages \cup Entries \cup Readings \cup OlderReads \cup Rollbacks

----------------------------------------------------------------------------
(* Pages, snapshots and merges. *)

\* The n latest turns of S.
Newest(S, n) == {t \in S : Cardinality({u \in S : u > t}) < n}
NewestOf(S) == IF \E t \in S : \A u \in S : u <= t THEN CHOOSE t \in S : \A u \in S : u <= t ELSE Null
OldestOf(S) == IF \E t \in S : \A u \in S : t <= u THEN CHOOSE t \in S : \A u \in S : t <= u ELSE Null
OlderThan(S, t) == {u \in S : u < t}

\* thread/turns/list, descending, from a cursor or from the end.
Page(H, before) ==
  LET from == IF before = Null THEN H ELSE OlderThan(H, before)
      turns == Newest(from, PageSize)
  IN [turns |-> turns,
      cursor |-> IF turns = from THEN Null ELSE [at |-> "source", before |-> OldestOf(turns)]]

NoEntry == [turns |-> {}, newest |-> Null, cursor |-> Null, latest |-> FALSE, all |-> FALSE]

\* mergeTurns.
Merge(e, S) == [e EXCEPT !.turns = @ \cup S, !.newest = NewestOf(e.turns \cup S)]

\* mergeLatestTurns: only a first page says where older turns begin.
MergeLatest(e, page) ==
  IF e.latest THEN Merge(e, page.turns)
  ELSE [Merge(e, page.turns) EXCEPT !.latest = TRUE, !.cursor = page.cursor, !.all = page.cursor = Null]

\* mergeOlderTurns.
MergeOlder(e, S, cursor) == [Merge(e, S) EXCEPT !.cursor = cursor, !.all = cursor = Null]

SyncStateOf(e) == [newest |-> e.newest, cursor |-> e.cursor, latest |-> e.latest, all |-> e.all]

\* getThread and replaceFromSnapshot: the latest rows; a cache cursor takes
\* the place of the stored one while the table holds more.
Snapshot ==
  LET turns == Newest(rows, InitialCached)
      more == turns # rows
  IN [turns |-> turns, newest |-> stored.newest, latest |-> stored.latest,
      cursor |-> IF more THEN [at |-> "cache", before |-> OldestOf(turns)] ELSE stored.cursor,
      all |-> stored.all /\ ~more]

\* isUnmaterializedThreadSnapshot.
IsShell == rows = {} /\ ~stored.latest

\* saveThreadDelta: the given turns and the state of the entry.
WriteDelta(e, S) ==
  IF S = {} THEN UNCHANGED database ELSE rows' = rows \cup S /\ stored' = SyncStateOf(e)

\* saveThreadSnapshot.
WriteSnapshot(e) == rows' = e.turns /\ stored' = SyncStateOf(e)

\* A new revision: what was read for the entry before is not merged.
Outdate(work) == [work EXCEPT !.fresh = FALSE]
NewRevision ==
  /\ chain' = [i \in DOMAIN chain |-> Outdate(chain[i])]
  /\ reading' = IF reading = Null THEN Null ELSE Outdate(reading)

Queued(kind) == [kind |-> kind, at |-> "queued", fresh |-> FALSE, page |-> Null]

\* Bound: one page at a time is read outside the chain.
NoPage == reading = Null /\ older = Null

----------------------------------------------------------------------------
(* Opening, recovering and reading a thread. *)

\* ghost: turns come into the entry while a rollback is under way.
Refill == rollback' = IF rollback = Null THEN Null ELSE [rollback EXCEPT !.refilled = TRUE]

\* The entry is replaced by what the database holds, a rollback under way or not.
ReplaceFromDatabase ==
  /\ entry' = Snapshot
  /\ Refill

\* Defect: an opening does not queue a synchronization while one is under way.
QueuesUnlessBusy(kind) ==
  /\ chain' = [i \in DOMAIN chain |-> Outdate(chain[i])] \o (IF chain = <<>> THEN <<Queued(kind)>> ELSE <<>>)
  /\ reading' = IF reading = Null THEN Null ELSE Outdate(reading)

\* The replacement makes a new revision and queues a synchronization.
ReplaceAndQueue(kind) ==
  /\ chain' = Append([i \in DOMAIN chain |-> Outdate(chain[i])], Queued(kind))
  /\ reading' = IF reading = Null THEN Null ELSE Outdate(reading)

\* openThread with cached turns.
OpenCached ==
  /\ rows # {} /\ Len(chain) < MaxQueued
  /\ ReplaceFromDatabase
  /\ ReplaceAndQueue("opened")
  /\ opened' = Page(history, Null).turns
  /\ UNCHANGED <<source, database, timers, older, undone>>

\* openThread on a thread the source has not materialized.
OpenShell ==
  /\ IsShell
  /\ ReplaceFromDatabase
  /\ NewRevision
  /\ opened' = {}
  /\ UNCHANGED <<source, database, timers, older, undone>>

\* recoverThread: one at a time.  Without a synchronized snapshot it opens the thread.
Recover ==
  /\ stored.latest /\ Len(chain) < MaxQueued
  /\ \A i \in DOMAIN chain : chain[i].kind # "recovery"
  /\ ReplaceFromDatabase
  /\ ReplaceAndQueue("recovery")
  /\ opened' = Page(history, Null).turns
  /\ UNCHANGED <<source, database, timers, older, undone>>

\* readThreadReadonly with cached turns: nothing is synchronized after it.
ReadCached ==
  /\ rows # {}
  /\ ReplaceFromDatabase
  /\ NewRevision
  /\ opened' = {}
  /\ UNCHANGED <<source, database, timers, older, undone>>

\* openThread and readThreadReadonly without cached turns ask the source.
ReadStart(opens) ==
  /\ NoPage /\ rows = {} /\ (opens => stored.latest)
  /\ reading' = [opens |-> opens, at |-> "client", fresh |-> FALSE, page |-> Null]
  /\ UNCHANGED <<source, entry, database, chain, timers, older, rollback, ghosts>>

\* readMetadata has answered: getOrCreate, and loadLatest asks for a page.
ReadAsk ==
  /\ reading # Null /\ reading.at = "client"
  /\ entry' = IF entry = Null THEN NoEntry ELSE entry
  /\ reading' = [reading EXCEPT !.at = "asked", !.fresh = TRUE]
  /\ UNCHANGED <<source, database, chain, timers, older, rollback, ghosts>>

ReadAnswered ==
  /\ reading # Null /\ reading.at = "asked"
  /\ reading' = [reading EXCEPT !.at = "answered", !.page = Page(history, Null)]
  /\ UNCHANGED <<source, entry, database, chain, timers, older, rollback, ghosts>>

\* Defect: the revision is not compared.
MergesAlways(work) == TRUE

\* loadLatest and syncLatest drop a page read for an earlier revision.
MayMerge(work) == work.fresh

ReadMerge ==
  /\ reading # Null /\ reading.at = "answered"
  /\ reading' = Null
  /\ IF MayMerge(reading)
     THEN /\ entry' = MergeLatest(entry, reading.page)
          /\ WriteDelta(entry', reading.page.turns)
          /\ opened' = IF reading.opens THEN reading.page.turns ELSE opened
     ELSE UNCHANGED <<entry, database, opened>>
  /\ UNCHANGED <<source, chain, timers, older, rollback, undone>>

\* The client, the request or its timeout fails.
ReadFails ==
  /\ reading # Null /\ reading.at # "answered"
  /\ reading' = Null
  /\ UNCHANGED <<source, entry, database, chain, timers, older, rollback, ghosts>>

----------------------------------------------------------------------------
(* Older turns. *)

HasOlder == entry # Null /\ ~entry.all /\ entry.cursor # Null

\* loadOlderTurns: a page of the table; no row before the cursor ends the history.
OlderFromCache ==
  /\ HasOlder /\ entry.cursor.at = "cache"
  /\ LET before == IF entry.cursor.before \in rows THEN OlderThan(rows, entry.cursor.before) ELSE {}
         turns == Newest(before, PageSize)
     IN entry' = IF turns = {} THEN [entry EXCEPT !.cursor = Null, !.all = TRUE]
                 ELSE MergeOlder(entry, turns,
                        IF turns = before THEN Null ELSE [at |-> "cache", before |-> OldestOf(turns)])
  /\ Refill
  /\ UNCHANGED <<source, database, chain, timers, reading, older, ghosts>>

OlderStart ==
  /\ NoPage /\ HasOlder /\ entry.cursor.at = "source"
  /\ older' = [at |-> "client", cursor |-> Null, page |-> Null]
  /\ UNCHANGED <<source, entry, database, chain, timers, reading, rollback, ghosts>>

\* The cursor is read once the client is there.
OlderAsk ==
  /\ older # Null /\ older.at = "client"
  /\ older' = [older EXCEPT !.at = "asked", !.cursor = entry.cursor]
  /\ UNCHANGED <<source, entry, database, chain, timers, reading, rollback, ghosts>>

\* The source does not know a cursor of the cache.
OlderAnswered ==
  /\ older # Null /\ older.at = "asked" /\ (older.cursor # Null => older.cursor.at = "source")
  /\ older' = [older EXCEPT !.at = "answered",
       !.page = Page(history, IF older.cursor = Null THEN Null ELSE older.cursor.before)]
  /\ UNCHANGED <<source, entry, database, chain, timers, reading, rollback, ghosts>>

\* The page is merged whatever the revision of the entry.
OlderMerge ==
  /\ older # Null /\ older.at = "answered"
  /\ entry' = MergeOlder(entry, older.page.turns, older.page.cursor)
  /\ WriteDelta(entry', older.page.turns)
  /\ older' = Null
  /\ Refill
  /\ UNCHANGED <<source, chain, timers, reading, ghosts>>

OlderFails ==
  /\ older # Null /\ older.at # "answered"
  /\ older' = Null
  /\ UNCHANGED <<source, entry, database, chain, timers, reading, rollback, ghosts>>

----------------------------------------------------------------------------
(* Synchronization: the chain of the thread. *)

Syncing(at) == chain # <<>> /\ Head(chain).at = at
Advance(sync) == chain' = <<sync>> \o Tail(chain)

RollbackWaits == Head(chain).kind = "rollback" /\ rollback # Null /\ rollback.at = "syncing"

\* The end of a synchronization; the rollback that waits for it goes on.
EndSync ==
  /\ chain' = Tail(chain)
  /\ rollback' = IF RollbackWaits THEN [rollback EXCEPT !.at = "synced"] ELSE rollback

\* The client is there: the entry too, or it is restored, and a page is asked
\* for.  (The code first returns for an opened thread that is a shell.  None is:
\* only a rollback takes the rows away that an opening found, it waits in the
\* chain behind the openings before it, and one after it fills its entry.)
SyncAsk ==
  /\ Syncing("queued")
  /\ IF entry = Null THEN ReplaceFromDatabase ELSE UNCHANGED <<entry, rollback>>
  /\ Advance([Head(chain) EXCEPT !.at = "asked", !.fresh = TRUE])
  /\ UNCHANGED <<source, database, timers, reading, older, ghosts>>

SyncAnswered ==
  /\ Syncing("asked")
  /\ Advance([Head(chain) EXCEPT !.at = "answered", !.page = Page(history, Null)])
  /\ UNCHANGED <<source, entry, database, timers, reading, older, rollback, ghosts>>

\* syncLatest: merged for the revision it was read for, and written when the
\* signature of the turns changed: a new turn or new contents.
SyncMerge ==
  /\ Syncing("answered")
  /\ LET sync == Head(chain)
         merged == MergeLatest(entry, sync.page)
     IN IF MayMerge(sync)
        THEN /\ entry' = merged
             /\ \/ WriteDelta(merged, sync.page.turns)
                \/ merged.turns = entry.turns /\ UNCHANGED database
        ELSE UNCHANGED <<entry, database>>
  /\ EndSync
  /\ UNCHANGED <<source, timers, reading, older, ghosts>>

\* Defect: a rollback is not told that its synchronization failed.
SyncFailsUnsettled ==
  /\ Syncing("queued") \/ Syncing("asked")
  /\ chain' = Tail(chain)
  /\ opened' = {}
  /\ UNCHANGED <<source, entry, database, timers, reading, older, rollback, undone>>

\* The client, the request or its timeout fails: the next one starts all the
\* same, and a rollback that waits fails with it.
SyncFails ==
  /\ Syncing("queued") \/ Syncing("asked")
  /\ chain' = Tail(chain)
  /\ rollback' = IF RollbackWaits THEN Null ELSE rollback
  /\ opened' = IF Head(chain).kind \in {"opened", "recovery"} THEN {} ELSE opened
  /\ UNCHANGED <<source, entry, database, timers, reading, older, undone>>

\* syncLatest: a source that has not materialized the thread is no failure; a
\* rollback that waits goes on.
SyncUnmaterialized ==
  /\ Syncing("asked") /\ history = {}
  /\ EndSync
  /\ UNCHANGED <<source, entry, database, timers, reading, older, ghosts>>

\* syncCompleted, half a second after a turn.
Timer ==
  /\ timers > 0 /\ Len(chain) < MaxQueued
  /\ timers' = timers - 1
  /\ chain' = Append(chain, Queued("completed"))
  /\ UNCHANGED <<source, entry, database, reading, older, rollback, ghosts>>

----------------------------------------------------------------------------
(* Turns. *)

\* turn/started is recorded in memory only.
StartTurn ==
  /\ running = 0 /\ rollback = Null /\ last < MaxTurns
  /\ last' = last + 1 /\ running' = last + 1
  /\ history' = history \cup {last + 1}
  /\ entry' = IF entry = Null THEN Null ELSE Merge(entry, {last + 1})
  /\ UNCHANGED <<mode, database, chain, timers, reading, older, rollback, ghosts>>

\* recordNotification: the turn of an item or of a completion is recorded and persisted.
Record(turn) ==
  IF entry = Null THEN UNCHANGED <<entry, database>>
  ELSE entry' = Merge(entry, {turn}) /\ WriteDelta(entry', {turn})

ItemOfTurn ==
  /\ running # 0
  /\ Record(running)
  /\ UNCHANGED <<source, chain, timers, reading, older, rollback, ghosts>>

CompleteTurn ==
  /\ running # 0
  /\ Record(running)
  /\ running' = 0
  /\ timers' = timers + 1
  /\ UNCHANGED <<mode, history, last, chain, reading, older, rollback, ghosts>>

\* external: another client of the source adds a turn.
ForeignTurn ==
  /\ running = 0 /\ last < MaxTurns
  /\ last' = last + 1
  /\ history' = history \cup {last + 1}
  /\ UNCHANGED <<mode, running, entry, database, chain, timers, reading, older, rollback, ghosts>>

----------------------------------------------------------------------------
(* Rollback: editLastTurn, inside the gate of the thread. *)

\* A paginated thread is reverted before the newest turn the application knows.
RollbackAsk ==
  /\ rollback = Null /\ running = 0
  /\ mode = "paginated" => entry # Null /\ entry.newest # Null
  /\ rollback' = [at |-> "asked", before |-> IF mode = "paginated" THEN entry.newest ELSE Null,
                  removed |-> {}, refilled |-> FALSE]
  /\ UNCHANGED <<source, entry, database, chain, timers, reading, older, ghosts>>

\* external: the source drops its last turn, or the turns from the given one on.
SourceReverts ==
  /\ rollback # Null /\ rollback.at = "asked"
  /\ LET first == IF rollback.before = Null THEN NewestOf(history) ELSE rollback.before
     IN /\ first \in history
        /\ history' = OlderThan(history, first)
        /\ rollback' = [rollback EXCEPT !.at = "reverted", !.removed = history \ history']
  /\ opened' = {}
  /\ UNCHANGED <<mode, last, running, entry, database, chain, timers, reading, older, undone>>

\* The request fails; nobody knows whether the source reverted.
RollbackFails ==
  /\ rollback # Null /\ rollback.at \in {"asked", "reverted"}
  /\ rollback' = Null
  /\ UNCHANGED <<source, entry, database, chain, timers, reading, older, ghosts>>

\* The rollback has finished.  An older page that is on its way will be merged
\* all the same; what the database or such a page has filled the entry with
\* since the entry was emptied is stored again.
Finished(refilled) ==
  LET onItsWay == IF older # Null /\ older.at = "answered" THEN older.page.turns ELSE {}
  IN /\ gone' = gone \cup rollback.removed
     /\ readBack' = readBack \cup (IF refilled THEN rollback.removed ELSE rollback.removed \cap onItsWay)

\* rollbackThread returns the whole history: replaceThreadTurns and writeSnapshot.
LegacyAnswered ==
  /\ rollback # Null /\ rollback.at = "reverted" /\ mode = "legacy"
  /\ entry' = [Merge(IF entry = Null THEN NoEntry ELSE [entry EXCEPT !.turns = {}], history) EXCEPT !.latest = TRUE]
  /\ WriteSnapshot(entry')
  /\ NewRevision
  /\ rollback' = Null
  /\ Finished(FALSE)
  /\ opened' = {}
  /\ UNCHANGED <<source, timers, older>>

\* revertThread has answered: the entry is emptied and a synchronization queued.
RevertAnswered ==
  /\ rollback # Null /\ rollback.at = "reverted" /\ mode = "paginated" /\ Len(chain) < MaxQueued
  /\ entry' = NoEntry
  /\ ReplaceAndQueue("rollback")
  /\ rollback' = [rollback EXCEPT !.at = "syncing", !.refilled = FALSE]
  /\ opened' = {}
  /\ UNCHANGED <<source, database, timers, older, undone>>

\* The synchronization has ended: writeSnapshot.
RollbackStored ==
  /\ rollback # Null /\ rollback.at = "synced" /\ entry # Null
  /\ WriteSnapshot(entry)
  /\ rollback' = Null
  /\ Finished(rollback.refilled)
  /\ UNCHANGED <<source, entry, chain, timers, reading, older, opened>>

\* The application and its servers end; the database and the source stay.
Crash ==
  /\ entry' = Null /\ chain' = <<>> /\ timers' = 0 /\ reading' = Null /\ older' = Null
  /\ rollback' = Null /\ opened' = {} /\ running' = 0
  /\ UNCHANGED <<mode, history, last, database, undone>>

----------------------------------------------------------------------------
Init ==
  /\ mode \in Modes /\ history \in Histories /\ last = Cardinality(history) /\ running = 0
  /\ entry = Null /\ rows = {} /\ stored = SyncStateOf(NoEntry)
  /\ chain = <<>> /\ timers = 0 /\ reading = Null /\ older = Null /\ rollback = Null
  /\ opened = {} /\ gone = {} /\ readBack = {}

Open == OpenCached \/ OpenShell \/ Recover \/ ReadCached
Read == \/ \E opens \in BOOLEAN : ReadStart(opens)
        \/ ReadAsk \/ ReadAnswered \/ ReadMerge \/ ReadFails
Older == OlderFromCache \/ OlderStart \/ OlderAsk \/ OlderAnswered \/ OlderMerge \/ OlderFails
SyncSettles == SyncAsk \/ SyncMerge \/ SyncUnmaterialized \/ SyncFails
RollbackSettles == RollbackFails \/ LegacyAnswered \/ RevertAnswered \/ RollbackStored

Next ==
  \/ Open \/ Read \/ Older
  \/ SyncSettles \/ SyncAnswered \/ Timer
  \/ StartTurn \/ ItemOfTurn \/ CompleteTurn \/ ForeignTurn
  \/ RollbackAsk \/ SourceReverts \/ RollbackSettles
  \/ Crash

Spec == Init /\ [][Next]_vars

\* The requests of a synchronization and of a rollback are answered or time out.
FairSpec == Spec /\ WF_vars(SyncSettles) /\ WF_vars(RollbackSettles)

----------------------------------------------------------------------------
(* Properties. *)

\* Every variable holds a value the code can give it.
TurnsTypeOK ==
  /\ mode \in Modes /\ history \subseteq Turns /\ last \in 0..MaxTurns /\ running \in 0..MaxTurns
  /\ entry \in Entries \cup {Null} /\ rows \subseteq Turns /\ stored \in SyncStates
  /\ chain \in Seq(Syncs) /\ timers \in Nat
  /\ reading \in Readings \cup {Null} /\ older \in OlderReads \cup {Null} /\ rollback \in Rollbacks \cup {Null}
  /\ opened \subseteq Turns /\ gone \subseteq Turns /\ readBack \subseteq Turns

\* A turn a finished rollback removed is shown and stored no more: a page read
\* before it is not merged after it (the revision of ThreadTurnCache).  Two
\* things can bring such a turn back, and do: reading the thread from the
\* database between the emptying of the entry and writeSnapshot
\* (ThreadMaintenanceService, lines 82-98), and an older page, which is merged
\* whatever its revision (ThreadReadService, line 293).
RevertedStaysGone == (gone \ readBack) \cap (rows \cup (IF entry = Null THEN {} ELSE entry.turns)) = {}

\* When the synchronizations of an opened thread have ended and none failed,
\* the window has every turn of the latest page the source had when it was
\* opened and no rollback drew back: a synchronization dropped for its revision
\* is made up for by another.  A later read of the cache alone (ReadCached) ends
\* the claim: it makes a new revision and synchronizes nothing.
OpenShowsLatest ==
  chain = <<>> /\ entry # Null => opened \cap Page(history, Null).turns \subseteq entry.turns

\* editLastTurn returns, whatever synchronizations of the thread wait or fail.
RollbackEnds == rollback # Null ~> rollback = Null

\* ThreadReadService: older messages come "from cache or Codex"; a thread that
\* says it has no more older messages has no older turn at the source.
AllIsAll ==
  entry # Null /\ entry.all /\ entry.turns # {} => OlderThan(history, OldestOf(entry.turns)) = {}
=============================================================================
