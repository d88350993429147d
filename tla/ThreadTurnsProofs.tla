--------------------------- MODULE ThreadTurnsProofs ---------------------------
(***************************************************************************)
(* Proofs about ThreadTurns for any history, page sizes and number of      *)
(* synchronizations that wait.                                             *)
(***************************************************************************)
EXTENDS ThreadTurns, FiniteSetTheorems, TLAPS

\* The turns the entry holds.
Held == IF entry = Null THEN {} ELSE entry.turns

\* A page that will be merged has no turn of X.
PageApart(work, X) == work.at = "answered" /\ work.fresh => work.page.turns \cap X = {}

\* None of X is at the source, in the entry, or in a page that will be merged there.
Apart(X) ==
  /\ history \cap X = {} /\ Held \cap X = {}
  /\ \A i \in DOMAIN chain : PageApart(chain[i], X)
  /\ reading # Null => PageApart(reading, X)

\* What was asked for is asked for an entry, and an answer is a page.
Ready(work) ==
  /\ work.at \in {"asked", "answered"} => entry # Null
  /\ work.at = "answered" => work.page \in Pages
Asked ==
  /\ \A i \in DOMAIN chain : Ready(chain[i])
  /\ reading # Null => Ready(reading)
  /\ older # Null => Ready(older) /\ entry # Null

\* Turns that are gone and were not read back never come back, from wherever a
\* turn may come.
Lost == gone \ readBack
OlderApart == older # Null /\ older.at = "answered" => older.page.turns \cap Lost = {}
GoneApart ==
  /\ gone \subseteq 1..last /\ Apart(Lost)
  /\ rows \cap Lost = {} /\ running \notin Lost
  /\ OlderApart

\* The turns a rollback has removed at the source; once the entry was emptied
\* they come back only with what refills it.
RemovedApart ==
  rollback # Null =>
    /\ running = 0
    /\ rollback.at # "asked" => rollback.removed \subseteq 1..last /\ rollback.removed \cap history = {}
    /\ rollback.at \in {"syncing", "synced"} /\ ~rollback.refilled => Apart(rollback.removed)

TurnsInv == TurnsTypeOK /\ Asked /\ GoneApart /\ RemovedApart /\ history \subseteq 1..last

USE TurnNames DEF Turns, MaybeTurn, source, database, undone, ghosts, Lost

----------------------------------------------------------------------------
(* Pages, merges and records. *)

LEMMA NewestIsTurn ==
  ASSUME NEW S \in SUBSET Turns
  PROVE  NewestOf(S) \in MaybeTurn /\ OldestOf(S) \in MaybeTurn
BY DEF NewestOf, OldestOf

LEMMA CursorAt ==
  ASSUME NEW at \in {"cache", "source"}, NEW S \in SUBSET Turns
  PROVE  [at |-> at, before |-> OldestOf(S)] \in Cursors
BY NewestIsTurn DEF Cursors, Cursor

LEMMA PagesOfHistory ==
  ASSUME NEW H \in SUBSET Turns, NEW before
  PROVE  Page(H, before).turns \subseteq H /\ Page(H, before) \in Pages
<1> DEFINE from == IF before = Null THEN H ELSE OlderThan(H, before)
           turns == Newest(from, PageSize)
           cursor == IF turns = from THEN Null ELSE [at |-> "source", before |-> OldestOf(turns)]
<1>1. turns \subseteq H /\ turns \in SUBSET Turns
  BY DEF Newest, OlderThan
<1>2. cursor \in Cursors
  BY <1>1, CursorAt DEF Cursors
<1>3. Page(H, before) = [turns |-> turns, cursor |-> cursor]
  BY DEF Page
<1> QED BY <1>1, <1>2, <1>3 DEF Pages

LEMMA SnapshotOfRows ==
  ASSUME TurnsTypeOK
  PROVE  Snapshot.turns \subseteq rows /\ Snapshot \in Entries
<1> DEFINE turns == Newest(rows, InitialCached)
           cursor == IF turns # rows THEN [at |-> "cache", before |-> OldestOf(turns)] ELSE stored.cursor
<1>1. turns \subseteq rows /\ turns \in SUBSET Turns
  BY DEF Newest, TurnsTypeOK
<1>2. cursor \in Cursors
  BY <1>1, CursorAt DEF TurnsTypeOK, SyncStates
<1>3. Snapshot = [turns |-> turns, newest |-> stored.newest, latest |-> stored.latest,
                  cursor |-> cursor, all |-> stored.all /\ ~(turns # rows)]
  BY DEF Snapshot
<1>4. stored.newest \in MaybeTurn /\ stored.latest \in BOOLEAN /\ (stored.all /\ ~(turns # rows)) \in BOOLEAN
  BY DEF TurnsTypeOK, SyncStates
<1> QED BY <1>1, <1>2, <1>3, <1>4 DEF Entries

LEMMA NoEntryHoldsNone == NoEntry.turns = {} /\ NoEntry \in Entries
BY DEF NoEntry, Entries, Cursors

LEMMA EntryIsNotNull == \A e \in Entries : e # Null
OBVIOUS

LEMMA MergeAdds ==
  ASSUME NEW e \in Entries, NEW S \in SUBSET Turns
  PROVE  Merge(e, S).turns = e.turns \cup S /\ Merge(e, S) \in Entries
BY NewestIsTurn DEF Merge, Entries

LEMMA MergeOlderAdds ==
  ASSUME NEW e \in Entries, NEW S \in SUBSET Turns, NEW cursor \in Cursors
  PROVE  MergeOlder(e, S, cursor).turns = e.turns \cup S /\ MergeOlder(e, S, cursor) \in Entries
<1> DEFINE m == Merge(e, S)
<1>1. m.turns = e.turns \cup S /\ m \in Entries
  BY MergeAdds
<1> HIDE DEF m
<1>2. [m EXCEPT !.cursor = cursor, !.all = cursor = Null].turns = m.turns
      /\ [m EXCEPT !.cursor = cursor, !.all = cursor = Null] \in Entries
  BY <1>1 DEF Entries
<1> QED BY <1>1, <1>2 DEF MergeOlder, m

LEMMA MergeLatestAdds ==
  ASSUME NEW e \in Entries, NEW page \in Pages
  PROVE  MergeLatest(e, page).turns = e.turns \cup page.turns /\ MergeLatest(e, page) \in Entries
<1> DEFINE m == Merge(e, page.turns)
<1>1. page.turns \in SUBSET Turns /\ page.cursor \in Cursors
  BY DEF Pages
<1>2. m.turns = e.turns \cup page.turns /\ m \in Entries
  BY <1>1, MergeAdds
<1> HIDE DEF m
<1>3. [m EXCEPT !.latest = TRUE, !.cursor = page.cursor, !.all = page.cursor = Null].turns = m.turns
      /\ [m EXCEPT !.latest = TRUE, !.cursor = page.cursor, !.all = page.cursor = Null] \in Entries
  BY <1>1, <1>2 DEF Entries
<1> QED BY <1>2, <1>3 DEF MergeLatest, m

LEMMA StateIsStored ==
  ASSUME NEW e \in Entries
  PROVE  SyncStateOf(e) \in SyncStates
BY DEF SyncStateOf, SyncStates, Entries

LEMMA DeltaKeeps ==
  ASSUME TurnsTypeOK, NEW e \in Entries, NEW S \in SUBSET Turns, WriteDelta(e, S)
  PROVE  rows' \subseteq rows \cup S /\ rows' \subseteq Turns /\ stored' \in SyncStates
BY StateIsStored DEF WriteDelta, TurnsTypeOK

LEMMA OutdatedSync ==
  ASSUME NEW w \in Syncs
  PROVE  Outdate(w) \in Syncs /\ Outdate(w).fresh = FALSE /\ Outdate(w).at = w.at /\ Outdate(w).page = w.page
BY DEF Outdate, Syncs

LEMMA OutdatedReading ==
  ASSUME NEW w \in Readings
  PROVE  Outdate(w) \in Readings /\ Outdate(w).fresh = FALSE /\ Outdate(w).at = w.at /\ Outdate(w).page = w.page
BY DEF Outdate, Readings

LEMMA OutdatedChain ==
  ASSUME NEW c \in Seq(Syncs), NEW d, d = [i \in DOMAIN c |-> Outdate(c[i])]
  PROVE  /\ d \in Seq(Syncs) /\ Len(d) \in Nat /\ DOMAIN d = 1..Len(d) /\ DOMAIN d = DOMAIN c
         /\ \A i \in DOMAIN c : c[i] \in Syncs /\ d[i] = Outdate(c[i])
<1>1. DOMAIN c = 1..Len(c) /\ Len(c) \in Nat /\ \A i \in DOMAIN c : c[i] \in Syncs
  OBVIOUS
<1>2. \A i \in 1..Len(c) : d[i] = Outdate(c[i]) /\ d[i] \in Syncs
  BY <1>1, OutdatedSync
<1>3. d = [i \in 1..Len(c) |-> d[i]]
  BY <1>1
<1>4. d \in Seq(Syncs) /\ Len(d) = Len(c)
  BY <1>1, <1>2, <1>3
<1> QED BY <1>1, <1>2, <1>4

\* No page waits for a revision that is over.
Stale ==
  /\ chain' \in Seq(Syncs)
  /\ \A i \in DOMAIN chain' : chain'[i].fresh = FALSE
  /\ \A i \in DOMAIN chain' : chain'[i].at = "answered" => chain'[i].page \in Pages
  /\ reading' # Null => /\ reading' \in Readings /\ reading'.fresh = FALSE
                        /\ reading'.at = "answered" => reading'.page \in Pages

LEMMA ReadingOutdates ==
  ASSUME TurnsTypeOK, Asked, reading' = IF reading = Null THEN Null ELSE Outdate(reading)
  PROVE  reading' # Null => /\ reading' \in Readings /\ reading'.fresh = FALSE
                            /\ reading'.at = "answered" => reading'.page \in Pages
BY OutdatedReading DEF TurnsTypeOK, Asked, Ready

LEMMA RevisionOutdates ==
  ASSUME TurnsTypeOK, Asked, NewRevision
  PROVE  Stale
<1>1. chain \in Seq(Syncs)
  BY DEF TurnsTypeOK
<1>2. chain' \in Seq(Syncs) /\ DOMAIN chain' = DOMAIN chain
      /\ \A i \in DOMAIN chain : chain[i] \in Syncs /\ chain'[i] = Outdate(chain[i])
  BY <1>1, OutdatedChain DEF NewRevision
<1>3. \A i \in DOMAIN chain' : /\ chain'[i].fresh = FALSE
                               /\ chain'[i].at = "answered" => chain'[i].page \in Pages
  <2> TAKE i \in DOMAIN chain'
  <2>1. chain[i] \in Syncs /\ chain'[i] = Outdate(chain[i]) /\ Ready(chain[i])
    BY <1>2 DEF Asked
  <2> QED BY <2>1, OutdatedSync DEF Ready
<1> QED BY <1>2, <1>3, ReadingOutdates DEF Stale, NewRevision

LEMMA ReplacementOutdates ==
  ASSUME TurnsTypeOK, Asked,
         NEW kind \in {"opened", "recovery", "completed", "rollback"}, ReplaceAndQueue(kind)
  PROVE  Stale
<1> DEFINE c == [i \in DOMAIN chain |-> Outdate(chain[i])]
<1>1. chain \in Seq(Syncs)
  BY DEF TurnsTypeOK
<1>2. c \in Seq(Syncs) /\ Len(c) \in Nat /\ DOMAIN c = 1..Len(c) /\ DOMAIN c = DOMAIN chain
      /\ \A i \in DOMAIN chain : chain[i] \in Syncs /\ c[i] = Outdate(chain[i])
  BY <1>1, OutdatedChain
<1>3. \A i \in DOMAIN c : c[i].fresh = FALSE /\ (c[i].at = "answered" => c[i].page \in Pages)
  <2> TAKE i \in DOMAIN c
  <2>1. chain[i] \in Syncs /\ c[i] = Outdate(chain[i]) /\ Ready(chain[i])
    BY <1>2 DEF Asked
  <2> QED BY <2>1, OutdatedSync DEF Ready
<1>4. Queued(kind) \in Syncs /\ Queued(kind).fresh = FALSE /\ Queued(kind).at = "queued"
  BY DEF Queued, Syncs
<1>5. chain' = Append(c, Queued(kind))
  BY DEF ReplaceAndQueue
<1> HIDE DEF c
<1>6. chain' \in Seq(Syncs) /\ DOMAIN chain' = 1..(Len(c) + 1)
      /\ \A i \in DOMAIN chain' : chain'[i] = IF i = Len(c) + 1 THEN Queued(kind) ELSE c[i]
  BY <1>2, <1>4, <1>5
<1>7. \A i \in DOMAIN chain' : /\ chain'[i].fresh = FALSE
                               /\ chain'[i].at = "answered" => chain'[i].page \in Pages
  BY <1>2, <1>3, <1>4, <1>6
<1> QED BY <1>6, <1>7, ReadingOutdates DEF Stale, ReplaceAndQueue

----------------------------------------------------------------------------
(* Two kinds of steps. *)

\* A step that moves no turn but from a page that may be merged.
LEMMA QuietStep ==
  ASSUME TurnsInv, TurnsTypeOK', Asked', UNCHANGED <<history, last, running, undone, rollback>>,
         \A X : Apart(X) => Apart(X)', (rows \cap Lost = {})', OlderApart'
  PROVE  TurnsInv'
<1>1. GoneApart'
  BY DEF TurnsInv, GoneApart
<1>2. RemovedApart'
  BY DEF TurnsInv, RemovedApart
<1> QED BY <1>1, <1>2 DEF TurnsInv

LEMMA RefillMarks ==
  ASSUME TurnsTypeOK, Refill
  PROVE  /\ rollback' \in Rollbacks \cup {Null}
         /\ rollback' # Null => /\ rollback # Null /\ rollback'.at = rollback.at
                                /\ rollback'.removed = rollback.removed /\ rollback'.refilled = TRUE
BY DEF Refill, TurnsTypeOK, Rollbacks

\* A step that fills the entry from the database or from an older page: a
\* rollback under way takes note.
LEMMA RefillStep ==
  ASSUME TurnsInv, TurnsTypeOK', Asked', Refill, UNCHANGED <<history, last, running, undone>>,
         Apart(Lost)', (rows \cap Lost = {})', OlderApart'
  PROVE  TurnsInv'
<1>1. GoneApart'
  BY DEF TurnsInv, GoneApart
<1>2. RemovedApart'
  BY RefillMarks DEF TurnsInv, RemovedApart
<1> QED BY <1>1, <1>2 DEF TurnsInv

LEMMA ReplacementStep ==
  ASSUME TurnsInv, ReplaceFromDatabase, Stale, UNCHANGED <<source, database, timers, older, undone>>, opened' \subseteq Turns
  PROVE  TurnsInv'
<1>1. entry' \in Entries /\ entry' # Null /\ entry'.turns \subseteq rows
  BY SnapshotOfRows, EntryIsNotNull DEF ReplaceFromDatabase, TurnsInv
<1>2. TurnsTypeOK'
  BY <1>1, RefillMarks DEF ReplaceFromDatabase, Stale, TurnsInv, TurnsTypeOK
<1>3. Asked'
  BY <1>1 DEF Stale, TurnsInv, Asked, Ready
<1>4. Apart(Lost)'
  BY <1>1 DEF Apart, Held, PageApart, Stale, TurnsInv, GoneApart
<1>5. (rows \cap Lost = {})' /\ OlderApart' /\ Refill
  BY DEF TurnsInv, GoneApart, OlderApart, ReplaceFromDatabase
<1> QED BY <1>2, <1>3, <1>4, <1>5, RefillStep

LEMMA OpenKeeps ==
  ASSUME TurnsInv, Open
  PROVE  TurnsInv'
<1>1. TurnsTypeOK /\ Asked /\ history \in SUBSET Turns /\ {} \subseteq Turns
  BY DEF TurnsInv, TurnsTypeOK
<1>2. Page(history, Null).turns \subseteq Turns
  BY <1>1, PagesOfHistory
<1>3. CASE OpenCached
  BY <1>1, <1>2, <1>3, ReplacementOutdates, ReplacementStep DEF OpenCached
<1>4. CASE Recover
  BY <1>1, <1>2, <1>4, ReplacementOutdates, ReplacementStep DEF Recover
<1>5. CASE OpenShell
  BY <1>1, <1>5, RevisionOutdates, ReplacementStep DEF OpenShell
<1>6. CASE ReadCached
  BY <1>1, <1>6, RevisionOutdates, ReplacementStep DEF ReadCached
<1> QED BY <1>3, <1>4, <1>5, <1>6 DEF Open

----------------------------------------------------------------------------
(* Pages read outside the chain. *)

LEMMA ReadKeeps ==
  ASSUME TurnsInv, Read
  PROVE  TurnsInv'
<1> USE DEF TurnsInv
<1>1. CASE (\E opens \in BOOLEAN : ReadStart(opens)) \/ ReadAsk \/ ReadAnswered \/ ReadFails
  <2> USE <1>1 DEF ReadStart, ReadAsk, ReadAnswered, ReadFails
  <2>1. UNCHANGED <<source, database, chain, timers, older, rollback, ghosts>>
    OBVIOUS
  <2>2. entry' \in Entries \cup {Null} /\ (entry # Null => entry' = entry) /\ Held' = Held
    BY NoEntryHoldsNone DEF TurnsTypeOK, Held
  <2>3. /\ reading' \in Readings \cup {Null}
        /\ reading' # Null => /\ reading'.at \in {"asked", "answered"} => entry' # Null
                              /\ reading'.at = "answered" => reading'.page \in Pages /\ reading'.page.turns \subseteq history
    <3>1. CASE \E opens \in BOOLEAN : ReadStart(opens)
      BY <3>1 DEF Readings
    <3>2. CASE ReadAsk
      <4>1. reading \in Readings /\ reading' = [reading EXCEPT !.at = "asked", !.fresh = TRUE] /\ entry' # Null
        BY <3>2, NoEntryHoldsNone, EntryIsNotNull DEF TurnsTypeOK
      <4>2. reading' \in Readings /\ reading'.at = "asked"
        BY ONLY <4>1 DEF Readings
      <4> QED BY <4>1, <4>2
    <3>3. CASE ReadAnswered
      <4> DEFINE page == Page(history, Null)
      <4>1. reading \in Readings /\ reading' = [reading EXCEPT !.at = "answered", !.page = page] /\ entry' # Null
        BY <3>3 DEF TurnsTypeOK, Asked, Ready
      <4>2. page \in Pages /\ page.turns \subseteq history
        BY PagesOfHistory DEF TurnsTypeOK
      <4> HIDE DEF page
      <4>3. reading' \in Readings /\ reading'.page = page
        BY <4>1, <4>2 DEF Readings
      <4> QED BY <4>1, <4>2, <4>3
    <3>4. CASE ReadFails
      BY <3>4
    <3> QED BY <1>1, <3>1, <3>2, <3>3, <3>4
  <2>5. TurnsTypeOK'
    BY <2>1, <2>2, <2>3 DEF TurnsTypeOK
  <2>6. Asked'
    BY <2>1, <2>2, <2>3 DEF Asked, Ready
  <2>7. \A X : Apart(X) => Apart(X)'
    BY <2>1, <2>2, <2>3 DEF Apart, PageApart
  <2>8. (rows \cap Lost = {})' /\ OlderApart'
    BY <2>1 DEF GoneApart, OlderApart
  <2> QED BY <2>1, <2>5, <2>6, <2>7, <2>8, QuietStep
<1>2. CASE ReadMerge
  <2>1. UNCHANGED <<source, chain, timers, older, rollback, undone>> /\ reading' = Null /\ reading \in Readings
        /\ entry \in Entries /\ reading.page \in Pages /\ reading.page.turns \in SUBSET Turns
    BY <1>2 DEF ReadMerge, TurnsTypeOK, Asked, Ready, Pages
  <2>2. CASE MayMerge(reading)
    <3>1. entry' = MergeLatest(entry, reading.page) /\ WriteDelta(entry', reading.page.turns) /\ reading.fresh
          /\ opened' \subseteq Turns
      BY <1>2, <2>1, <2>2 DEF ReadMerge, MayMerge, TurnsTypeOK
    <3>2. entry' \in Entries /\ entry'.turns = entry.turns \cup reading.page.turns /\ entry' # Null
      BY <2>1, <3>1, MergeLatestAdds, EntryIsNotNull
    <3>3. rows' \subseteq rows \cup reading.page.turns /\ rows' \subseteq Turns /\ stored' \in SyncStates
      BY <2>1, <3>1, <3>2, DeltaKeeps
    <3>4. TurnsTypeOK' /\ Asked'
      BY <2>1, <3>1, <3>2, <3>3 DEF TurnsTypeOK, Asked, Ready
    <3>5. \A X : Apart(X) => Apart(X)' /\ reading.page.turns \cap X = {}
      BY <1>2, <2>1, <3>1, <3>2 DEF Apart, PageApart, Held, ReadMerge
    <3>6. (rows \cap Lost = {})' /\ OlderApart'
      BY <2>1, <3>3, <3>5 DEF GoneApart, OlderApart
    <3> QED BY <2>1, <3>4, <3>5, <3>6, QuietStep
  <2>3. CASE ~MayMerge(reading)
    <3>1. UNCHANGED <<entry, database, opened>>
      BY <1>2, <2>3 DEF ReadMerge
    <3>2. TurnsTypeOK' /\ Asked'
      BY <2>1, <3>1 DEF TurnsTypeOK, Asked, Ready
    <3>3. (\A X : Apart(X) => Apart(X)') /\ (rows \cap Lost = {})' /\ OlderApart'
      BY <2>1, <3>1 DEF Apart, PageApart, Held, GoneApart, OlderApart
    <3> QED BY <2>1, <3>2, <3>3, QuietStep
  <2> QED BY <2>2, <2>3
<1> QED BY <1>1, <1>2 DEF Read

LEMMA OlderRowsKeep ==
  ASSUME TurnsInv, OlderFromCache
  PROVE  TurnsInv'
<1> DEFINE before == IF entry.cursor.before \in rows THEN OlderThan(rows, entry.cursor.before) ELSE {}
           turns == Newest(before, PageSize)
           cursor == IF turns = before THEN Null ELSE [at |-> "cache", before |-> OldestOf(turns)]
<1>1. turns \subseteq rows /\ turns \in SUBSET Turns
  BY DEF Newest, OlderThan, TurnsInv, TurnsTypeOK
<1>2. cursor \in Cursors
  BY <1>1, CursorAt DEF Cursors
<1>3. entry \in Entries /\ Refill /\ UNCHANGED <<source, database, chain, timers, reading, older, ghosts>>
      /\ entry' = IF turns = {} THEN [entry EXCEPT !.cursor = Null, !.all = TRUE] ELSE MergeOlder(entry, turns, cursor)
  BY DEF OlderFromCache, HasOlder, TurnsInv, TurnsTypeOK
<1> HIDE DEF before, turns, cursor
<1>4. entry' \in Entries /\ entry'.turns \subseteq entry.turns \cup rows /\ entry' # Null
  <2>1. CASE turns = {}
    BY <1>3, <2>1, EntryIsNotNull DEF Entries, Cursors
  <2>2. CASE turns # {}
    <3>1. MergeOlder(entry, turns, cursor).turns = entry.turns \cup turns /\ MergeOlder(entry, turns, cursor) \in Entries
      BY <1>1, <1>2, <1>3, MergeOlderAdds
    <3> QED BY <1>1, <1>3, <2>2, <3>1, EntryIsNotNull
  <2> QED BY <2>1, <2>2
<1>5. TurnsTypeOK'
  BY <1>3, <1>4, RefillMarks DEF TurnsInv, TurnsTypeOK
<1>6. Asked'
  BY <1>3, <1>4 DEF TurnsInv, Asked, Ready
<1>7. Apart(Lost)' /\ (rows \cap Lost = {})' /\ OlderApart'
  BY <1>3, <1>4 DEF TurnsInv, GoneApart, Apart, Held, PageApart, OlderApart
<1> QED BY <1>3, <1>5, <1>6, <1>7, RefillStep

LEMMA OlderMergeKeeps ==
  ASSUME TurnsInv, OlderMerge
  PROVE  TurnsInv'
<1>1. older \in OlderReads /\ entry \in Entries /\ older.page \in Pages /\ older' = Null /\ Refill
      /\ UNCHANGED <<source, chain, timers, reading, ghosts>>
  BY DEF OlderMerge, TurnsInv, TurnsTypeOK, Asked, Ready
<1>2. older.page.turns \in SUBSET Turns /\ older.page.cursor \in Cursors
  BY <1>1 DEF Pages
<1>3. entry' \in Entries /\ entry'.turns = entry.turns \cup older.page.turns /\ entry' # Null
  BY <1>1, <1>2, MergeOlderAdds, EntryIsNotNull DEF OlderMerge
<1>4. rows' \subseteq rows \cup older.page.turns /\ rows' \subseteq Turns /\ stored' \in SyncStates
  BY <1>2, <1>3, DeltaKeeps DEF OlderMerge, TurnsInv
<1>5. TurnsTypeOK'
  BY <1>1, <1>3, <1>4, RefillMarks DEF TurnsInv, TurnsTypeOK
<1>6. Asked'
  BY <1>1, <1>3 DEF TurnsInv, Asked, Ready
<1>7. older.page.turns \cap Lost = {}
  BY DEF OlderMerge, TurnsInv, GoneApart, OlderApart
<1>8. Apart(Lost)' /\ (rows \cap Lost = {})' /\ OlderApart'
  BY <1>1, <1>3, <1>4, <1>7 DEF TurnsInv, GoneApart, Apart, Held, PageApart, OlderApart
<1> QED BY <1>1, <1>5, <1>6, <1>8, RefillStep

LEMMA OlderReadKeeps ==
  ASSUME TurnsInv, OlderStart \/ OlderAsk \/ OlderAnswered \/ OlderFails
  PROVE  TurnsInv'
<1> USE DEF TurnsInv
<1>1. UNCHANGED <<source, entry, database, chain, timers, reading, rollback, ghosts>>
  BY DEF OlderStart, OlderAsk, OlderAnswered, OlderFails
<1>2. /\ older' \in OlderReads \cup {Null}
      /\ older' # Null => /\ entry # Null
                          /\ older'.at = "answered" => older'.page \in Pages /\ older'.page.turns \subseteq history
  <2>1. CASE OlderStart
    BY <2>1 DEF OlderStart, OlderReads, HasOlder, Cursors
  <2>2. CASE OlderAsk
    <3>1. older \in OlderReads /\ older' = [older EXCEPT !.at = "asked", !.cursor = entry.cursor] /\ entry \in Entries /\ entry # Null
      BY <2>2 DEF OlderAsk, TurnsTypeOK, Asked
    <3>2. entry.cursor \in Cursors
      BY <3>1 DEF Entries
    <3>3. older' \in OlderReads /\ older'.at = "asked"
      BY ONLY <3>1, <3>2 DEF OlderReads
    <3> QED BY <3>1, <3>3
  <2>3. CASE OlderAnswered
    <3> DEFINE page == Page(history, IF older.cursor = Null THEN Null ELSE older.cursor.before)
    <3>1. older \in OlderReads /\ older' = [older EXCEPT !.at = "answered", !.page = page] /\ entry # Null
      BY <2>3 DEF OlderAnswered, TurnsTypeOK, Asked
    <3>2. page \in Pages /\ page.turns \subseteq history
      BY PagesOfHistory DEF TurnsTypeOK
    <3> HIDE DEF page
    <3>3. older' \in OlderReads /\ older'.page = page
      BY <3>1, <3>2 DEF OlderReads
    <3> QED BY <3>1, <3>2, <3>3
  <2>4. CASE OlderFails
    BY <2>4 DEF OlderFails
  <2> QED BY <2>1, <2>2, <2>3, <2>4
<1>3. TurnsTypeOK'
  BY <1>1, <1>2 DEF TurnsTypeOK
<1>4. Asked'
  BY <1>1, <1>2 DEF Asked, Ready
<1>5. (\A X : Apart(X) => Apart(X)') /\ (rows \cap Lost = {})'
  BY <1>1 DEF Apart, PageApart, Held, GoneApart
<1>6. OlderApart'
  BY <1>1, <1>2 DEF GoneApart, Apart, OlderApart
<1> QED BY <1>1, <1>3, <1>4, <1>5, <1>6, QuietStep

----------------------------------------------------------------------------
(* The chain. *)

LEMMA ShorterChain ==
  ASSUME NEW c \in Seq(Syncs), c # <<>>
  PROVE  /\ Head(c) \in Syncs /\ Head(c) = c[1] /\ 1 \in DOMAIN c
         /\ Tail(c) \in Seq(Syncs)
         /\ \A i \in DOMAIN Tail(c) : i + 1 \in DOMAIN c /\ Tail(c)[i] = c[i + 1]
<1>1. Len(c) \in Nat /\ Len(c) > 0 /\ DOMAIN c = 1..Len(c)
  OBVIOUS
<1>2. Len(Tail(c)) = Len(c) - 1 /\ DOMAIN Tail(c) = 1..(Len(c) - 1) /\ Tail(c) \in Seq(Syncs)
  BY <1>1
<1> QED BY <1>1, <1>2

LEMMA ChangedHead ==
  ASSUME NEW c \in Seq(Syncs), c # <<>>, NEW w \in Syncs, NEW d, d = <<w>> \o Tail(c)
  PROVE  d \in Seq(Syncs) /\ DOMAIN d = DOMAIN c /\ \A i \in DOMAIN d : d[i] = IF i = 1 THEN w ELSE c[i]
<1>1. Len(c) \in Nat /\ Len(c) > 0 /\ DOMAIN c = 1..Len(c)
  OBVIOUS
<1>2. Len(Tail(c)) = Len(c) - 1 /\ Tail(c) \in Seq(Syncs) /\ \A i \in 1..(Len(c) - 1) : Tail(c)[i] = c[i + 1]
  BY <1>1
<1>3. <<w>> \in Seq(Syncs) /\ Len(<<w>>) = 1 /\ <<w>>[1] = w
  OBVIOUS
<1>4. d \in Seq(Syncs) /\ Len(d) = Len(c) /\ DOMAIN d = 1..Len(c)
  BY <1>1, <1>2, <1>3
<1>5. \A i \in 1..Len(c) : d[i] = IF i = 1 THEN w ELSE c[i]
  BY <1>1, <1>2, <1>3
<1> QED BY <1>1, <1>4, <1>5

\* Like QuietStep, with a rollback that goes on to store or is over.
LEMMA SettlingStep ==
  ASSUME TurnsInv, TurnsTypeOK', Asked', UNCHANGED <<history, last, running, undone>>,
         rollback' # Null => /\ rollback # Null /\ rollback'.removed = rollback.removed
                             /\ rollback'.refilled = rollback.refilled
                             /\ rollback'.at = rollback.at \/ (rollback.at = "syncing" /\ rollback'.at = "synced"),
         \A X : Apart(X) => Apart(X)', (rows \cap Lost = {})', OlderApart'
  PROVE  TurnsInv'
<1>1. GoneApart'
  BY DEF TurnsInv, GoneApart
<1>2. RemovedApart'
  BY DEF TurnsInv, RemovedApart
<1> QED BY <1>1, <1>2 DEF TurnsInv

LEMMA EndSyncSettles ==
  ASSUME TurnsTypeOK, chain # <<>>, EndSync
  PROVE  /\ chain' \in Seq(Syncs)
         /\ \A i \in DOMAIN chain' : i + 1 \in DOMAIN chain /\ chain'[i] = chain[i + 1]
         /\ rollback' \in Rollbacks \cup {Null}
         /\ rollback' # Null => /\ rollback # Null /\ rollback'.removed = rollback.removed
                                /\ rollback'.refilled = rollback.refilled
                                /\ rollback'.at = rollback.at \/ (rollback.at = "syncing" /\ rollback'.at = "synced")
<1>1. chain \in Seq(Syncs) /\ rollback \in Rollbacks \cup {Null}
  BY DEF TurnsTypeOK
<1>2. CASE RollbackWaits
  BY <1>1, <1>2, ShorterChain DEF EndSync, RollbackWaits, Rollbacks
<1>3. CASE ~RollbackWaits
  BY <1>1, <1>3, ShorterChain DEF EndSync
<1> QED BY <1>2, <1>3

LEMMA SyncFailsKeeps ==
  ASSUME TurnsInv, SyncFails
  PROVE  TurnsInv'
<1> USE DEF TurnsInv
<1>1. UNCHANGED <<source, entry, database, timers, reading, older, undone>> /\ opened' \subseteq Turns
      /\ chain # <<>> /\ chain \in Seq(Syncs) /\ chain' = Tail(chain)
  BY DEF SyncFails, Syncing, EndSync, TurnsTypeOK
<1>2. \A i \in DOMAIN chain' : i + 1 \in DOMAIN chain /\ chain'[i] = chain[i + 1]
  BY <1>1, ShorterChain
<1>3. /\ rollback' \in Rollbacks \cup {Null}
      /\ rollback' # Null => /\ rollback # Null /\ rollback'.removed = rollback.removed
                             /\ rollback'.refilled = rollback.refilled
                             /\ rollback'.at = rollback.at \/ (rollback.at = "syncing" /\ rollback'.at = "synced")
  BY <1>1, EndSyncSettles DEF SyncFails, TurnsTypeOK
<1>4. TurnsTypeOK'
  BY <1>1, <1>3, ShorterChain DEF TurnsTypeOK
<1>5. Asked'
  BY <1>1, <1>2 DEF Asked, Ready
<1>6. (\A X : Apart(X) => Apart(X)') /\ (rows \cap Lost = {})' /\ OlderApart'
  BY <1>1, <1>2 DEF Apart, PageApart, Held, GoneApart, OlderApart
<1> QED BY <1>1, <1>3, <1>4, <1>5, <1>6, SettlingStep

LEMMA SyncUnmaterializedKeeps ==
  ASSUME TurnsInv, SyncUnmaterialized
  PROVE  TurnsInv'
<1> USE DEF TurnsInv
<1>1. UNCHANGED <<source, entry, database, timers, reading, older, ghosts>> /\ chain # <<>> /\ EndSync
  BY DEF SyncUnmaterialized, Syncing
<1>2. TurnsTypeOK'
  BY <1>1, EndSyncSettles DEF TurnsTypeOK
<1>3. Asked'
  BY <1>1, EndSyncSettles DEF Asked, Ready
<1>4. (\A X : Apart(X) => Apart(X)') /\ (rows \cap Lost = {})' /\ OlderApart'
  BY <1>1, EndSyncSettles DEF Apart, PageApart, Held, GoneApart, OlderApart
<1> QED BY <1>1, <1>2, <1>3, <1>4, EndSyncSettles, SettlingStep

LEMMA SyncAskKeeps ==
  ASSUME TurnsInv, SyncAsk
  PROVE  TurnsInv'
<1> DEFINE w == [Head(chain) EXCEPT !.at = "asked", !.fresh = TRUE]
<1>1. UNCHANGED <<source, database, timers, reading, older, ghosts>> /\ chain # <<>> /\ chain \in Seq(Syncs)
      /\ chain' = <<w>> \o Tail(chain)
  BY DEF SyncAsk, Syncing, Advance, TurnsInv, TurnsTypeOK
<1>2. w \in Syncs /\ w.at = "asked"
  BY <1>1, ShorterChain DEF Syncs
<1> HIDE DEF w
<1>3. chain' \in Seq(Syncs) /\ DOMAIN chain' = DOMAIN chain /\ \A i \in DOMAIN chain' : chain'[i] = IF i = 1 THEN w ELSE chain[i]
  BY <1>1, <1>2, ChangedHead
<1>4. entry' \in Entries /\ entry' # Null /\ (entry # Null => entry' = entry) /\ (entry = Null => entry'.turns \subseteq rows)
  BY SnapshotOfRows, EntryIsNotNull DEF SyncAsk, ReplaceFromDatabase, TurnsInv, TurnsTypeOK
<1>5. rollback' \in Rollbacks \cup {Null}
  BY RefillMarks DEF SyncAsk, ReplaceFromDatabase, TurnsInv, TurnsTypeOK
<1>6. TurnsTypeOK'
  BY <1>1, <1>3, <1>4, <1>5 DEF TurnsInv, TurnsTypeOK
<1>7. Asked'
  BY <1>1, <1>2, <1>3, <1>4 DEF TurnsInv, Asked, Ready
<1>8. (rows \cap Lost = {})' /\ OlderApart'
  BY <1>1 DEF TurnsInv, GoneApart, OlderApart
<1>9. CASE entry = Null
  <2>1. Refill
    BY <1>9 DEF SyncAsk, ReplaceFromDatabase
  <2>2. Apart(Lost)'
    BY <1>1, <1>2, <1>3, <1>4, <1>9 DEF TurnsInv, GoneApart, Apart, Held, PageApart
  <2> QED BY <1>1, <1>6, <1>7, <1>8, <2>1, <2>2, RefillStep
<1>10. CASE entry # Null
  <2>1. UNCHANGED <<entry, rollback>>
    BY <1>10 DEF SyncAsk
  <2>2. \A X : Apart(X) => Apart(X)'
    BY <1>1, <1>2, <1>3, <2>1 DEF Apart, Held, PageApart
  <2> QED BY <1>1, <1>6, <1>7, <1>8, <2>1, <2>2, QuietStep
<1> QED BY <1>9, <1>10

LEMMA SyncAnsweredKeeps ==
  ASSUME TurnsInv, SyncAnswered
  PROVE  TurnsInv'
<1> DEFINE page == Page(history, Null)
           w == [Head(chain) EXCEPT !.at = "answered", !.page = page]
<1>1. UNCHANGED <<source, entry, database, timers, reading, older, rollback, ghosts>> /\ chain # <<>>
      /\ chain \in Seq(Syncs) /\ chain' = <<w>> \o Tail(chain) /\ Head(chain).at = "asked"
  BY DEF SyncAnswered, Syncing, Advance, TurnsInv, TurnsTypeOK
<1>2. page \in Pages /\ page.turns \subseteq history
  BY PagesOfHistory DEF TurnsInv, TurnsTypeOK
<1>3. Head(chain) \in Syncs /\ entry # Null
  BY <1>1, ShorterChain DEF TurnsInv, Asked, Ready
<1> HIDE DEF page
<1>4. w \in Syncs /\ w.page = page
  BY <1>2, <1>3 DEF Syncs
<1> HIDE DEF w
<1>5. chain' \in Seq(Syncs) /\ DOMAIN chain' = DOMAIN chain /\ \A i \in DOMAIN chain' : chain'[i] = IF i = 1 THEN w ELSE chain[i]
  BY <1>1, <1>4, ChangedHead
<1>6. TurnsTypeOK'
  BY <1>1, <1>5 DEF TurnsInv, TurnsTypeOK
<1>7. Asked'
  BY <1>1, <1>2, <1>3, <1>4, <1>5 DEF TurnsInv, Asked, Ready
<1>8. (\A X : Apart(X) => Apart(X)') /\ (rows \cap Lost = {})' /\ OlderApart'
  BY <1>1, <1>2, <1>4, <1>5 DEF TurnsInv, Apart, PageApart, Held, GoneApart, OlderApart
<1> QED BY <1>1, <1>6, <1>7, <1>8, QuietStep

LEMMA SyncMergeKeeps ==
  ASSUME TurnsInv, SyncMerge
  PROVE  TurnsInv'
<1> DEFINE sync == Head(chain)
<1>1. UNCHANGED <<source, timers, reading, older, ghosts>> /\ chain # <<>> /\ chain \in Seq(Syncs)
      /\ sync.at = "answered" /\ TurnsTypeOK /\ EndSync
  BY DEF SyncMerge, Syncing, TurnsInv, TurnsTypeOK
<1>2. sync = chain[1] /\ 1 \in DOMAIN chain
  BY <1>1, ShorterChain
<1>3. sync.page \in Pages /\ entry \in Entries /\ sync.page.turns \in SUBSET Turns
  BY <1>1, <1>2 DEF TurnsInv, TurnsTypeOK, Asked, Ready, Pages
<1>4. /\ chain' \in Seq(Syncs)
      /\ \A i \in DOMAIN chain' : i + 1 \in DOMAIN chain /\ chain'[i] = chain[i + 1]
      /\ rollback' \in Rollbacks \cup {Null}
      /\ rollback' # Null => /\ rollback # Null /\ rollback'.removed = rollback.removed
                             /\ rollback'.refilled = rollback.refilled
                             /\ rollback'.at = rollback.at \/ (rollback.at = "syncing" /\ rollback'.at = "synced")
  BY <1>1, EndSyncSettles
<1>5. /\ entry' \in Entries /\ rows' \subseteq Turns /\ stored' \in SyncStates
      /\ \/ UNCHANGED <<entry, database>>
         \/ sync.fresh /\ entry'.turns = entry.turns \cup sync.page.turns /\ rows' \subseteq rows \cup sync.page.turns
  <2> HIDE DEF sync
  <2>1. CASE MayMerge(sync)
    <3>1. entry' = MergeLatest(entry, sync.page) /\ (WriteDelta(entry', sync.page.turns) \/ UNCHANGED database)
      BY <2>1 DEF SyncMerge, sync
    <3>2. entry' \in Entries /\ entry'.turns = entry.turns \cup sync.page.turns
      BY <1>3, <3>1, MergeLatestAdds
    <3>3. rows' \subseteq rows \cup sync.page.turns /\ rows' \subseteq Turns /\ stored' \in SyncStates
      BY <1>1, <1>3, <3>1, <3>2, DeltaKeeps DEF TurnsTypeOK
    <3> QED BY <2>1, <3>2, <3>3 DEF MayMerge
  <2>2. CASE ~MayMerge(sync)
    BY <1>1, <1>3, <2>2 DEF SyncMerge, sync, TurnsTypeOK
  <2> QED BY <2>1, <2>2
<1>6. entry # Null /\ entry' # Null
  BY <1>3, <1>5, EntryIsNotNull
<1> HIDE DEF sync
<1>7. TurnsTypeOK'
  BY <1>1, <1>4, <1>5 DEF TurnsTypeOK
<1>8. Asked'
  BY <1>1, <1>4, <1>6 DEF TurnsInv, Asked, Ready
<1>9. \A X : Apart(X) /\ sync.fresh => sync.page.turns \cap X = {}
  BY <1>1, <1>2 DEF Apart, PageApart
<1>10. (\A X : Apart(X) => Apart(X)')
  BY <1>1, <1>4, <1>5, <1>6, <1>9 DEF Apart, PageApart, Held
<1>11. (rows \cap Lost = {})' /\ OlderApart'
  BY <1>1, <1>5, <1>9 DEF TurnsInv, GoneApart, OlderApart
<1> QED BY <1>1, <1>4, <1>7, <1>8, <1>10, <1>11, SettlingStep

----------------------------------------------------------------------------
(* Turns. *)

LEMMA TimerKeeps ==
  ASSUME TurnsInv, Timer
  PROVE  TurnsInv'
<1> USE DEF TurnsInv
<1>1. UNCHANGED <<source, entry, database, reading, older, rollback, ghosts>> /\ chain \in Seq(Syncs) /\ timers' \in Nat
      /\ chain' = Append(chain, Queued("completed"))
  BY DEF Timer, TurnsTypeOK
<1>2. Queued("completed") \in Syncs /\ Queued("completed").at = "queued"
  BY DEF Queued, Syncs
<1>3. chain' \in Seq(Syncs) /\ \A i \in DOMAIN chain' : chain'[i].at # "queued" => i \in DOMAIN chain /\ chain'[i] = chain[i]
  BY <1>1, <1>2
<1>4. TurnsTypeOK'
  BY <1>1, <1>3 DEF TurnsTypeOK
<1>5. Asked'
  BY <1>1, <1>3 DEF Asked, Ready
<1>6. (\A X : Apart(X) => Apart(X)') /\ (rows \cap Lost = {})' /\ OlderApart'
  BY <1>1, <1>3 DEF Apart, PageApart, Held, GoneApart, OlderApart
<1> QED BY <1>1, <1>4, <1>5, <1>6, QuietStep

\* A turn of the application or of another client: it is later than all before.
LEMMA NewTurnKeeps ==
  ASSUME TurnsInv, StartTurn \/ ForeignTurn
  PROVE  TurnsInv'
<1> USE DEF TurnsInv
<1>1. UNCHANGED <<mode, database, chain, timers, reading, older, rollback, ghosts>>
      /\ last' = last + 1 /\ last \in Nat /\ last' \in Turns /\ history' = history \cup {last'}
      /\ running' \in {0, last'} /\ running = 0 /\ (running' # 0 => rollback = Null)
  BY DEF StartTurn, ForeignTurn, TurnsTypeOK
<1>2. entry' \in Entries \cup {Null} /\ (entry' = Null <=> entry = Null) /\ Held' \subseteq Held \cup {last'}
  BY <1>1, MergeAdds, EntryIsNotNull DEF StartTurn, ForeignTurn, TurnsTypeOK, Held
<1>3. TurnsTypeOK'
  BY <1>1, <1>2 DEF TurnsTypeOK
<1>4. Asked'
  BY <1>1, <1>2 DEF Asked, Ready
<1>5. last' \notin 1..last /\ 1..last \subseteq 1..last' /\ 0 \notin 1..last /\ last' \in 1..last'
  BY <1>1
<1>6. \A X : X \subseteq 1..last /\ Apart(X) => Apart(X)'
  BY <1>1, <1>2, <1>5 DEF Apart, PageApart
<1>7. GoneApart'
  BY <1>1, <1>5, <1>6 DEF GoneApart, OlderApart
<1>8. RemovedApart'
  BY <1>1, <1>5, <1>6 DEF RemovedApart
<1> QED BY <1>1, <1>3, <1>4, <1>5, <1>7, <1>8

LEMMA TurnIsRecorded ==
  ASSUME TurnsInv, ItemOfTurn \/ CompleteTurn
  PROVE  TurnsInv'
<1> USE DEF TurnsInv
<1>1. UNCHANGED <<mode, history, last, chain, reading, older, rollback, ghosts>> /\ running \in Turns /\ Record(running)
      /\ running' \in {0, running} /\ timers' \in Nat /\ rollback = Null
  BY DEF ItemOfTurn, CompleteTurn, TurnsTypeOK, RemovedApart
<1>2. /\ entry' \in Entries \cup {Null} /\ (entry' = Null <=> entry = Null) /\ Held' \subseteq Held \cup {running}
      /\ rows' \subseteq rows \cup {running} /\ rows' \subseteq Turns /\ stored' \in SyncStates
  <2>1. CASE entry = Null
    BY <1>1, <2>1 DEF Record, Held, TurnsTypeOK
  <2>2. CASE entry # Null
    <3>1. entry \in Entries /\ entry' = Merge(entry, {running}) /\ WriteDelta(entry', {running}) /\ {running} \in SUBSET Turns
      BY <1>1, <2>2 DEF Record, TurnsTypeOK
    <3>2. entry' \in Entries /\ entry' # Null /\ entry'.turns = entry.turns \cup {running}
      BY <3>1, MergeAdds, EntryIsNotNull
    <3> QED BY <2>2, <3>1, <3>2, DeltaKeeps DEF Held
  <2> QED BY <2>1, <2>2
<1>3. TurnsTypeOK'
  BY <1>1, <1>2 DEF TurnsTypeOK
<1>4. Asked'
  BY <1>1, <1>2 DEF Asked, Ready
<1>5. 0 \notin Lost /\ running \notin Lost
  BY DEF GoneApart, TurnsTypeOK
<1>6. GoneApart'
  <2>1. Lost' = Lost
    BY <1>1
  <2> HIDE DEF Lost
  <2>2. Apart(Lost)'
    BY <1>1, <1>2, <1>5, <2>1 DEF GoneApart, Apart, PageApart
  <2> QED BY <1>1, <1>2, <1>5, <2>1, <2>2 DEF GoneApart, OlderApart
<1>7. RemovedApart'
  BY <1>1 DEF RemovedApart
<1> QED BY <1>1, <1>3, <1>4, <1>6, <1>7

----------------------------------------------------------------------------
(* Rollbacks. *)

LEMMA RollbackStartsOrFails ==
  ASSUME TurnsInv, RollbackAsk \/ RollbackFails
  PROVE  TurnsInv'
<1> USE DEF TurnsInv
<1>1. UNCHANGED <<source, entry, database, chain, timers, reading, older, ghosts>>
  BY DEF RollbackAsk, RollbackFails
<1>2. rollback' = Null \/ (running = 0 /\ rollback' \in Rollbacks /\ rollback'.at = "asked")
  <2>1. CASE RollbackAsk
    <3>1. (IF mode = "paginated" THEN entry.newest ELSE Null) \in MaybeTurn
      BY <2>1 DEF RollbackAsk, TurnsTypeOK, Entries
    <3> QED BY <2>1, <3>1 DEF RollbackAsk, Rollbacks
  <2>2. CASE RollbackFails
    BY <2>2 DEF RollbackFails
  <2> QED BY <2>1, <2>2
<1>3. TurnsTypeOK' /\ Asked'
  BY <1>1, <1>2 DEF TurnsTypeOK, Asked, Ready
<1>4. GoneApart'
  BY <1>1 DEF GoneApart, Apart, PageApart, Held, OlderApart
<1>5. RemovedApart'
  BY <1>1, <1>2 DEF RemovedApart
<1> QED BY <1>1, <1>3, <1>4, <1>5

LEMMA SourceRevertsKeeps ==
  ASSUME TurnsInv, SourceReverts
  PROVE  TurnsInv'
<1> USE DEF TurnsInv
<1>1. UNCHANGED <<mode, last, running, entry, database, chain, timers, reading, older, undone>> /\ opened' = {}
      /\ rollback \in Rollbacks /\ history' \subseteq history
      /\ rollback' = [rollback EXCEPT !.at = "reverted", !.removed = history \ history']
  BY DEF SourceReverts, TurnsTypeOK, OlderThan
<1>2. history \ history' \in SUBSET Turns /\ history \ history' \subseteq 1..last
  BY DEF TurnsTypeOK
<1>3. rollback' \in Rollbacks /\ rollback'.at = "reverted" /\ rollback'.removed = history \ history'
  BY <1>1, <1>2 DEF Rollbacks
<1>4. TurnsTypeOK' /\ Asked'
  BY <1>1, <1>3 DEF TurnsTypeOK, Asked, Ready
<1>5. GoneApart'
  BY <1>1 DEF GoneApart, Apart, PageApart, Held, OlderApart
<1>6. RemovedApart'
  BY <1>1, <1>2, <1>3 DEF RemovedApart
<1> QED BY <1>1, <1>4, <1>5, <1>6

LEMMA LegacyAnsweredKeeps ==
  ASSUME TurnsInv, LegacyAnswered
  PROVE  TurnsInv'
<1> USE DEF TurnsInv
<1> DEFINE emptied == IF entry = Null THEN NoEntry ELSE [entry EXCEPT !.turns = {}]
           merged == Merge(emptied, history)
<1>1. UNCHANGED <<source, timers, older>> /\ opened' = {} /\ rollback' = Null /\ rollback \in Rollbacks
      /\ rollback.at = "reverted" /\ Finished(FALSE) /\ running = 0
      /\ entry' = [merged EXCEPT !.latest = TRUE] /\ WriteSnapshot(entry') /\ NewRevision
  BY DEF LegacyAnswered, TurnsTypeOK, RemovedApart
<1>2. emptied \in Entries /\ emptied.turns = {}
  BY NoEntryHoldsNone DEF TurnsTypeOK, Entries
<1> HIDE DEF emptied
<1>3. merged \in Entries /\ merged.turns = history
  <2>1. history \in SUBSET Turns
    BY DEF TurnsTypeOK
  <2>2. merged \in Entries /\ merged.turns = emptied.turns \cup history
    BY <1>2, <2>1, MergeAdds
  <2> QED BY <1>2, <2>2
<1> HIDE DEF merged
<1>4. entry' \in Entries /\ entry' # Null /\ entry'.turns = history
  <2>1. entry' \in Entries /\ entry'.turns = merged.turns
    BY <1>1, <1>3 DEF Entries
  <2> QED BY <1>3, <2>1, EntryIsNotNull
<1>5. rows' = history /\ stored' \in SyncStates
  BY <1>1, <1>4, StateIsStored DEF WriteSnapshot
<1>6. Stale
  BY <1>1, RevisionOutdates
<1>7. /\ rollback.removed \subseteq 1..last /\ rollback.removed \cap history = {}
      /\ gone' = gone \cup rollback.removed /\ readBack \subseteq readBack' /\ readBack' \subseteq readBack \cup rollback.removed
      /\ older # Null /\ older.at = "answered" => older.page.turns \cap rollback.removed \subseteq readBack'
  BY <1>1 DEF Finished, RemovedApart
<1>8. /\ gone' \subseteq 1..last /\ Lost' \cap history = {} /\ readBack' \subseteq Turns /\ Lost' \subseteq Lost \cup rollback.removed
      /\ 1..last \subseteq Turns /\ 0 \notin 1..last
  BY <1>1, <1>7 DEF GoneApart, Apart, TurnsTypeOK
<1>9. TurnsTypeOK'
  BY <1>1, <1>4, <1>5, <1>6, <1>8 DEF TurnsTypeOK, Stale
<1>10. Asked'
  BY <1>1, <1>4, <1>6 DEF Asked, Ready, Stale
<1>11. GoneApart'
  BY <1>1, <1>4, <1>5, <1>6, <1>7, <1>8 DEF GoneApart, Apart, PageApart, Held, OlderApart, Stale
<1>12. RemovedApart'
  BY <1>1 DEF RemovedApart
<1> QED BY <1>1, <1>9, <1>10, <1>11, <1>12

LEMMA RevertAnsweredKeeps ==
  ASSUME TurnsInv, RevertAnswered
  PROVE  TurnsInv'
<1> USE DEF TurnsInv
<1>1. UNCHANGED <<source, database, timers, older, undone>> /\ opened' = {} /\ rollback \in Rollbacks
      /\ rollback.at = "reverted" /\ running = 0 /\ entry' = NoEntry /\ ReplaceAndQueue("rollback")
      /\ rollback' = [rollback EXCEPT !.at = "syncing", !.refilled = FALSE]
  BY DEF RevertAnswered, TurnsTypeOK, RemovedApart
<1>2. entry' \in Entries /\ entry' # Null /\ Held' = {}
  BY <1>1, NoEntryHoldsNone, EntryIsNotNull DEF Held
<1>3. rollback' \in Rollbacks /\ rollback'.removed = rollback.removed /\ rollback'.at = "syncing"
  BY <1>1 DEF Rollbacks
<1>4. Stale
  BY <1>1, ReplacementOutdates
<1>5. TurnsTypeOK'
  BY <1>1, <1>2, <1>3, <1>4 DEF TurnsTypeOK, Stale
<1>6. Asked'
  BY <1>1, <1>2, <1>4 DEF Asked, Ready, Stale
<1>7. \A X : X \cap history = {} => Apart(X)'
  BY <1>1, <1>2, <1>4 DEF Apart, PageApart, Stale
<1>8. GoneApart'
  <2>1. Lost' = Lost
    BY <1>1
  <2> HIDE DEF Lost
  <2>2. Lost \cap history = {}
    BY DEF GoneApart, Apart
  <2>3. Apart(Lost)'
    BY <1>7, <2>1, <2>2 DEF Apart
  <2> QED BY <1>1, <2>1, <2>3 DEF GoneApart, OlderApart
<1>9. RemovedApart'
  BY <1>1, <1>3, <1>7 DEF RemovedApart
<1> QED BY <1>1, <1>5, <1>6, <1>8, <1>9

LEMMA RollbackStoredKeeps ==
  ASSUME TurnsInv, RollbackStored
  PROVE  TurnsInv'
<1> USE DEF TurnsInv
<1>1. UNCHANGED <<source, entry, chain, timers, reading, older, opened>> /\ rollback' = Null /\ rollback \in Rollbacks
      /\ rollback.at = "synced" /\ running = 0 /\ Finished(rollback.refilled) /\ entry \in Entries /\ entry # Null
      /\ rows' = entry.turns /\ stored' = SyncStateOf(entry)
  BY DEF RollbackStored, WriteSnapshot, TurnsTypeOK, RemovedApart
<1>2. /\ rollback.removed \subseteq 1..last
      /\ gone' = gone \cup rollback.removed /\ readBack \subseteq readBack' /\ readBack' \subseteq readBack \cup rollback.removed
      /\ older # Null /\ older.at = "answered" => older.page.turns \cap rollback.removed \subseteq readBack'
      /\ Apart(rollback.removed \ readBack')
  <2>1. CASE rollback.refilled
    BY <1>1, <2>1 DEF Finished, RemovedApart, Apart, PageApart
  <2>2. CASE ~rollback.refilled
    BY <1>1, <2>2 DEF Finished, RemovedApart, Apart, PageApart
  <2> QED BY <2>1, <2>2
<1> DEFINE left == gone' \ readBack'
<1>3. /\ gone' \subseteq 1..last /\ Apart(left) /\ readBack' \subseteq Turns
      /\ 1..last \subseteq Turns /\ 0 \notin 1..last
  <2>1. left \subseteq Lost \cup (rollback.removed \ readBack')
    BY <1>2
  <2>2. \A X, Y : Apart(X) /\ Apart(Y) => Apart(X \cup Y)
    BY DEF Apart, PageApart
  <2>3. \A X, Y : X \subseteq Y /\ Apart(Y) => Apart(X)
    BY DEF Apart, PageApart
  <2>4. Apart(Lost) /\ gone \subseteq 1..last
    BY DEF GoneApart
  <2> HIDE DEF left, Lost
  <2>5. Apart(Lost \cup (rollback.removed \ readBack'))
    BY <1>2, <2>2, <2>4
  <2>6. Apart(left)
    BY <2>1, <2>3, <2>5
  <2>7. last \in 0..MaxTurns /\ readBack \subseteq Turns
    BY DEF TurnsTypeOK
  <2>8. 1..last \subseteq Turns /\ 0 \notin 1..last
    BY <2>7
  <2>9. gone' \subseteq 1..last /\ readBack' \subseteq Turns
    BY <1>2, <2>4, <2>7, <2>8
  <2> QED BY <2>6, <2>8, <2>9
<1>4. TurnsTypeOK'
  BY <1>1, <1>3, StateIsStored DEF TurnsTypeOK, Entries
<1>5. Asked'
  BY <1>1 DEF Asked, Ready
<1>6. GoneApart'
  BY <1>1, <1>2, <1>3 DEF GoneApart, Apart, PageApart, Held, OlderApart
<1>7. RemovedApart'
  BY <1>1 DEF RemovedApart
<1> QED BY <1>1, <1>4, <1>5, <1>6, <1>7

----------------------------------------------------------------------------
(* The invariant. *)

LEMMA InitHolds ==
  ASSUME Init
  PROVE  TurnsInv
<1>1. PICK n \in 0..MaxTurns : history = 1..n
  BY DEF Init
<1>2. Cardinality(1..n) = n
  BY <1>1, FS_Interval
<1>3. history = 1..last /\ history \subseteq Turns /\ last \in 0..MaxTurns
  BY <1>1, <1>2 DEF Init
<1>4. TurnsTypeOK
  BY <1>3, NoEntryHoldsNone, StateIsStored DEF Init, TurnsTypeOK
<1>5. Asked /\ GoneApart /\ RemovedApart
  BY <1>3 DEF Init, Asked, GoneApart, Apart, Held, OlderApart, RemovedApart
<1> QED BY <1>3, <1>4, <1>5 DEF TurnsInv

LEMMA CrashKeeps ==
  ASSUME TurnsInv, Crash
  PROVE  TurnsInv'
<1>1. TurnsTypeOK'
  BY DEF Crash, TurnsInv, TurnsTypeOK
<1>2. Asked' /\ GoneApart' /\ RemovedApart'
  BY DEF Crash, TurnsInv, Asked, GoneApart, Apart, Held, OlderApart, RemovedApart
<1> QED BY <1>1, <1>2 DEF Crash, TurnsInv

LEMMA StutterKeeps ==
  ASSUME TurnsInv, UNCHANGED vars
  PROVE  TurnsInv'
BY DEF vars, TurnsInv, TurnsTypeOK, Asked, Ready, GoneApart, RemovedApart, Apart, PageApart, Held, OlderApart

LEMMA NextKeeps ==
  ASSUME TurnsInv, Next
  PROVE  TurnsInv'
<1>1. CASE Open BY <1>1, OpenKeeps
<1>2. CASE Read BY <1>2, ReadKeeps
<1>3. CASE Older BY <1>3, OlderRowsKeep, OlderMergeKeeps, OlderReadKeeps DEF Older
<1>4. CASE SyncSettles \/ SyncAnswered
  BY <1>4, SyncFailsKeeps, SyncUnmaterializedKeeps, SyncAskKeeps, SyncMergeKeeps, SyncAnsweredKeeps DEF SyncSettles
<1>5. CASE Timer BY <1>5, TimerKeeps
<1>6. CASE StartTurn \/ ForeignTurn BY <1>6, NewTurnKeeps
<1>7. CASE ItemOfTurn \/ CompleteTurn BY <1>7, TurnIsRecorded
<1>8. CASE RollbackAsk \/ SourceReverts \/ RollbackSettles
  BY <1>8, RollbackStartsOrFails, SourceRevertsKeeps, LegacyAnsweredKeeps, RevertAnsweredKeeps,
     RollbackStoredKeeps DEF RollbackSettles
<1>9. CASE Crash BY <1>9, CrashKeeps
<1> QED BY <1>1, <1>2, <1>3, <1>4, <1>5, <1>6, <1>7, <1>8, <1>9 DEF Next

LEMMA TurnsSafety == Spec => []TurnsInv
<1>1. Init => TurnsInv
  BY InitHolds
<1>2. TurnsInv /\ [Next]_vars => TurnsInv'
  BY NextKeeps, StutterKeeps
<1> QED BY <1>1, <1>2, PTL DEF Spec

\* ThreadTurnCache and the tables hold turns, pages and states of the shapes
\* the code gives them, whatever operations overlap.
THEOREM TurnsTypes == Spec => []TurnsTypeOK
<1>1. TurnsInv => TurnsTypeOK
  BY DEF TurnsInv
<1> QED BY <1>1, TurnsSafety, PTL

\* The revision of ThreadTurnCache keeps the turns a finished rollback removed
\* out of the cache and of the tables, for any history and any pages on their
\* way, unless the database was read before the rollback stored its result or
\* an older page was merged.
THEOREM RevertedTurnsStayGone == Spec => []RevertedStaysGone
<1>1. TurnsInv => RevertedStaysGone
  BY DEF TurnsInv, GoneApart, Apart, Held, RevertedStaysGone
<1> QED BY <1>1, TurnsSafety, PTL
----------------------------------------------------------------------------
(* An opened thread comes to show the latest page the source had: what is  *)
(* not held yet is owed by a synchronization of the chain.                 *)

\* What an opening promised and the source still has on its latest page.
Promised == opened \cap Page(history, Null).turns

\* A synchronization that an opening queued will merge what was promised: it
\* has not asked yet, or nothing outdated it since it asked.
Owes(work) ==
  /\ work.kind \in {"opened", "recovery"}
  /\ \/ work.at = "queued"
     \/ work.at = "asked" /\ work.fresh
     \/ work.at = "answered" /\ work.fresh /\ Promised \subseteq work.page.turns
Debt == \E i \in DOMAIN chain : Owes(chain[i])

ReadIsOfThread == reading # Null /\ reading.at = "answered" => reading.page.turns \subseteq 1..last

OpenedInv ==
  /\ opened \subseteq 1..last /\ ReadIsOfThread
  /\ entry = Null => opened = {}
  /\ Promised \subseteq Held \/ Debt


----------------------------------------------------------------------------
(* Kinds of steps. *)

\* Turns that come later push turns off the latest page and bring none of the
\* earlier ones back.
LEMMA LatestPageShrinks ==
  ASSUME NEW H \in SUBSET Turns, NEW G \in SUBSET Turns, H \subseteq G
  PROVE  Page(G, Null).turns \cap H \subseteq Page(H, Null).turns
<1>1. Page(G, Null).turns = Newest(G, PageSize) /\ Page(H, Null).turns = Newest(H, PageSize)
  BY DEF Page
<1>2. ASSUME NEW t \in Newest(G, PageSize), t \in H
      PROVE  t \in Newest(H, PageSize)
  <2> DEFINE laterG == {u \in G : u > t}
             laterH == {u \in H : u > t}
  <2>1. IsFiniteSet(1..MaxTurns) /\ laterG \subseteq 1..MaxTurns /\ laterH \subseteq laterG
    <3>1. IsFiniteSet(1..MaxTurns)
      BY FS_Interval
    <3> QED BY <3>1
  <2>2. IsFiniteSet(laterG)
    BY <2>1, FS_Subset
  <2>3. Cardinality(laterH) <= Cardinality(laterG) /\ Cardinality(laterG) \in Nat /\ Cardinality(laterH) \in Nat
    BY <2>1, <2>2, FS_Subset, FS_CardinalityType
  <2>4. Cardinality(laterG) < PageSize
    BY <1>2 DEF Newest
  <2>5. Cardinality(laterH) < PageSize
    BY <2>3, <2>4
  <2> QED BY <1>2, <2>5 DEF Newest
<1> QED BY <1>1, <1>2

\* A step after which nothing is promised.
LEMMA ClearingStep ==
  ASSUME ReadIsOfThread', opened' = {}
  PROVE  OpenedInv'
BY DEF OpenedInv, Promised

\* A step that promises nothing new, lets the entry grow and keeps what is owed.
LEMMA KeepingStep ==
  ASSUME OpenedInv, ReadIsOfThread', opened' = opened, last' = last,
         entry' = Null => entry = Null, Promised' \subseteq Promised, Held \subseteq Held',
         Debt => Debt' \/ Promised \subseteq Held'
  PROVE  OpenedInv'
BY DEF OpenedInv

\* The same with the chain and the source as they were.
LEMMA GrowingStep ==
  ASSUME OpenedInv, UNCHANGED <<history, last, chain, reading, opened>>,
         entry' = Null => entry = Null, Held \subseteq Held'
  PROVE  OpenedInv'
<1>1. ReadIsOfThread' /\ Promised' = Promised /\ (Debt => Debt')
  BY DEF OpenedInv, ReadIsOfThread, Promised, Debt, Owes
<1> QED BY <1>1, KeepingStep

\* What was read is not changed by a new revision.
LEMMA OutdatedIsOfThread ==
  ASSUME TurnsTypeOK, ReadIsOfThread, last' = last,
         reading' = IF reading = Null THEN Null ELSE Outdate(reading)
  PROVE  ReadIsOfThread'
<1>1. CASE reading = Null
  BY <1>1 DEF ReadIsOfThread
<1>2. CASE reading # Null
  BY <1>2, OutdatedReading DEF ReadIsOfThread, TurnsTypeOK
<1> QED BY <1>1, <1>2

----------------------------------------------------------------------------
(* Opening, recovering and reading. *)

\* An opening queues a synchronization for what it promises.
LEMMA QueuedOwes ==
  ASSUME TurnsInv, OpenedInv, NEW kind \in {"opened", "recovery"}, ReplaceFromDatabase, ReplaceAndQueue(kind),
         UNCHANGED source, opened' = Page(history, Null).turns
  PROVE  OpenedInv'
<1> DEFINE c == [i \in DOMAIN chain |-> Outdate(chain[i])]
<1>1. c \in Seq(Syncs) /\ Len(c) \in Nat
  BY OutdatedChain DEF TurnsInv, TurnsTypeOK
<1>2. chain' = Append(c, Queued(kind)) /\ Queued(kind) \in Syncs
  BY DEF ReplaceAndQueue, Queued, Syncs
<1> HIDE DEF c
<1>3. Len(c) + 1 \in DOMAIN chain' /\ chain'[Len(c) + 1] = Queued(kind)
  BY <1>1, <1>2
<1>4. Debt'
  BY <1>3 DEF Debt, Owes, Queued
<1>5. opened' \subseteq 1..last'
  BY PagesOfHistory DEF TurnsInv, TurnsTypeOK
<1>6. ReadIsOfThread'
  BY OutdatedIsOfThread DEF TurnsInv, OpenedInv, ReplaceAndQueue
<1>7. entry' # Null
  BY SnapshotOfRows, EntryIsNotNull DEF ReplaceFromDatabase, TurnsInv
<1> QED BY <1>4, <1>5, <1>6, <1>7 DEF OpenedInv

LEMMA OpenOwes ==
  ASSUME TurnsInv, OpenedInv, Open
  PROVE  OpenedInv'
<1>1. CASE OpenCached \/ Recover
  BY <1>1, QueuedOwes DEF OpenCached, Recover
<1>2. CASE OpenShell \/ ReadCached
  <2>1. opened' = {} /\ last' = last /\ reading' = IF reading = Null THEN Null ELSE Outdate(reading)
    BY <1>2 DEF OpenShell, ReadCached, NewRevision
  <2> QED BY <2>1, OutdatedIsOfThread, ClearingStep DEF TurnsInv, OpenedInv
<1> QED BY <1>1, <1>2 DEF Open

LEMMA ReadOwes ==
  ASSUME TurnsInv, OpenedInv, Read
  PROVE  OpenedInv'
<1> USE DEF TurnsInv
<1>1. CASE (\E opens \in BOOLEAN : ReadStart(opens)) \/ ReadAsk \/ ReadAnswered \/ ReadFails
  <2>1. UNCHANGED <<history, last, chain, opened>>
    BY <1>1 DEF ReadStart, ReadAsk, ReadAnswered, ReadFails
  <2>2. (entry' = Null => entry = Null) /\ Held \subseteq Held'
    BY <1>1, NoEntryHoldsNone, EntryIsNotNull DEF ReadStart, ReadAsk, ReadAnswered, ReadFails, Held
  <2>3. ReadIsOfThread'
    <3>1. CASE \E opens \in BOOLEAN : ReadStart(opens)
      BY <3>1 DEF ReadStart, ReadIsOfThread
    <3>2. CASE ReadAsk
      BY <3>2 DEF ReadAsk, ReadIsOfThread, TurnsTypeOK, Readings
    <3>3. CASE ReadAnswered
      <4> DEFINE page == Page(history, Null)
      <4>1. page.turns \subseteq 1..last
        BY PagesOfHistory DEF TurnsTypeOK
      <4>2. reading \in Readings /\ reading' = [reading EXCEPT !.at = "answered", !.page = page]
        BY <3>3 DEF ReadAnswered, TurnsTypeOK
      <4> HIDE DEF page
      <4>3. reading'.page = page
        BY <4>2 DEF Readings
      <4> QED BY <2>1, <4>1, <4>3 DEF ReadIsOfThread
    <3>4. CASE ReadFails
      BY <3>4 DEF ReadFails, ReadIsOfThread
    <3> QED BY <1>1, <3>1, <3>2, <3>3, <3>4
  <2>4. Promised' = Promised /\ (Debt => Debt')
    BY <2>1 DEF Promised, Debt, Owes
  <2> QED BY <2>1, <2>2, <2>3, <2>4, KeepingStep
<1>2. CASE ReadMerge
  <2>1. UNCHANGED <<history, last, chain>> /\ reading' = Null /\ entry \in Entries /\ entry # Null
        /\ reading.page \in Pages /\ reading.page.turns \subseteq 1..last
    BY <1>2 DEF ReadMerge, TurnsTypeOK, Asked, Ready, OpenedInv, ReadIsOfThread
  <2>2. ReadIsOfThread'
    BY <2>1 DEF ReadIsOfThread
  <2>3. CASE MayMerge(reading)
    <3>1. entry' = MergeLatest(entry, reading.page) /\ opened' \in {reading.page.turns, opened}
      BY <1>2, <2>3 DEF ReadMerge
    <3>2. entry' # Null /\ Held' = Held \cup reading.page.turns
      BY <2>1, <3>1, MergeLatestAdds, EntryIsNotNull DEF Held
    <3>3. CASE opened' = reading.page.turns
      BY <2>1, <2>2, <3>2, <3>3 DEF OpenedInv, Promised
    <3>4. CASE opened' = opened
      <4>1. Promised' = Promised /\ (Debt => Debt')
        BY <2>1, <3>4 DEF Promised, Debt, Owes
      <4> QED BY <2>1, <2>2, <3>2, <3>4, <4>1, KeepingStep
    <3> QED BY <3>1, <3>3, <3>4
  <2>4. CASE ~MayMerge(reading)
    <3>1. UNCHANGED <<entry, opened>>
      BY <1>2, <2>4 DEF ReadMerge
    <3>2. Promised' = Promised /\ (Debt => Debt') /\ Held' = Held
      BY <2>1, <3>1 DEF Promised, Debt, Owes, Held
    <3> QED BY <2>1, <2>2, <3>1, <3>2, KeepingStep
  <2> QED BY <2>3, <2>4
<1> QED BY <1>1, <1>2 DEF Read

LEMMA OlderOwes ==
  ASSUME TurnsInv, OpenedInv, Older
  PROVE  OpenedInv'
<1> USE DEF TurnsInv
<1>1. UNCHANGED <<history, last, chain, reading, opened>>
  BY DEF Older, OlderFromCache, OlderStart, OlderAsk, OlderAnswered, OlderMerge, OlderFails
<1>2. (entry' = Null => entry = Null) /\ Held \subseteq Held'
  <2>1. CASE OlderFromCache
    <3> DEFINE before == IF entry.cursor.before \in rows THEN OlderThan(rows, entry.cursor.before) ELSE {}
               turns == Newest(before, PageSize)
               cursor == IF turns = before THEN Null ELSE [at |-> "cache", before |-> OldestOf(turns)]
    <3>1. turns \in SUBSET Turns
      BY DEF Newest, OlderThan, TurnsTypeOK
    <3>2. cursor \in Cursors
      BY <3>1, CursorAt DEF Cursors
    <3>3. entry \in Entries /\ entry # Null
          /\ entry' = IF turns = {} THEN [entry EXCEPT !.cursor = Null, !.all = TRUE] ELSE MergeOlder(entry, turns, cursor)
      BY <2>1 DEF OlderFromCache, HasOlder, TurnsTypeOK
    <3> HIDE DEF before, turns, cursor
    <3>4. entry' \in Entries /\ entry.turns \subseteq entry'.turns
      <4>1. CASE turns = {}
        BY <3>3, <4>1 DEF Entries, Cursors
      <4>2. CASE turns # {}
        BY <3>1, <3>2, <3>3, <4>2, MergeOlderAdds
      <4> QED BY <4>1, <4>2
    <3> QED BY <3>3, <3>4, EntryIsNotNull DEF Held
  <2>2. CASE OlderMerge
    <3>1. entry \in Entries /\ entry # Null /\ older.page \in Pages /\ older.page.turns \in SUBSET Turns
          /\ older.page.cursor \in Cursors /\ entry' = MergeOlder(entry, older.page.turns, older.page.cursor)
      BY <2>2 DEF OlderMerge, TurnsTypeOK, Asked, Ready, Pages
    <3>2. entry' \in Entries /\ entry'.turns = entry.turns \cup older.page.turns
      BY <3>1, MergeOlderAdds
    <3> QED BY <3>1, <3>2, EntryIsNotNull DEF Held
  <2>3. CASE OlderStart \/ OlderAsk \/ OlderAnswered \/ OlderFails
    BY <2>3 DEF OlderStart, OlderAsk, OlderAnswered, OlderFails, Held
  <2> QED BY <2>1, <2>2, <2>3 DEF Older
<1> QED BY <1>1, <1>2, GrowingStep

----------------------------------------------------------------------------
(* The chain. *)

LEMMA TailShifts ==
  ASSUME NEW c \in Seq(Syncs), c # <<>>, NEW d, d = Tail(c)
  PROVE  \A i \in DOMAIN c : i # 1 => i - 1 \in DOMAIN d /\ d[i - 1] = c[i]
<1>1. Len(c) \in Nat /\ Len(c) > 0 /\ DOMAIN c = 1..Len(c)
  OBVIOUS
<1>2. DOMAIN Tail(c) = 1..(Len(c) - 1) /\ \A i \in 1..(Len(c) - 1) : Tail(c)[i] = c[i + 1]
  BY <1>1
<1>3. \A i \in DOMAIN c : i # 1 => i - 1 \in 1..(Len(c) - 1) /\ (i - 1) + 1 = i
  BY <1>1
<1> QED BY <1>2, <1>3

LEMMA SyncFailsOwes ==
  ASSUME TurnsInv, OpenedInv, SyncFails
  PROVE  OpenedInv'
<1>1. UNCHANGED <<history, last, entry, reading>> /\ chain # <<>> /\ chain \in Seq(Syncs) /\ chain' = Tail(chain)
      /\ opened' = IF Head(chain).kind \in {"opened", "recovery"} THEN {} ELSE opened
  BY DEF SyncFails, Syncing, TurnsInv, TurnsTypeOK
<1>2. ReadIsOfThread'
  BY <1>1 DEF OpenedInv, ReadIsOfThread
<1>3. CASE Head(chain).kind \in {"opened", "recovery"}
  BY <1>1, <1>2, <1>3, ClearingStep
<1>4. CASE Head(chain).kind \notin {"opened", "recovery"}
  <2>1. Promised' = Promised /\ Held' = Held /\ opened' = opened
    BY <1>1, <1>4 DEF Promised, Held
  <2>2. \A i \in DOMAIN chain : i # 1 => i - 1 \in DOMAIN chain' /\ chain'[i - 1] = chain[i]
    BY <1>1, TailShifts
  <2>3. \A i \in DOMAIN chain : Owes(chain[i]) => i # 1
    BY <1>1, <1>4, ShorterChain DEF Owes
  <2>4. \A w : Owes(w) => Owes(w)'
    BY <2>1 DEF Owes
  <2>5. Debt => Debt'
    BY <2>2, <2>3, <2>4 DEF Debt
  <2> QED BY <1>1, <1>2, <2>1, <2>5, KeepingStep
<1> QED BY <1>3, <1>4

LEMMA SyncUnmaterializedOwes ==
  ASSUME TurnsInv, OpenedInv, SyncUnmaterialized
  PROVE  OpenedInv'
<1>1. UNCHANGED <<history, last, entry, reading, opened>> /\ history = {}
  BY DEF SyncUnmaterialized
<1>2. Promised' = Promised /\ Promised = {}
  BY <1>1, PagesOfHistory DEF Promised, TurnsInv, TurnsTypeOK
<1>3. ReadIsOfThread' /\ Held' = Held
  BY <1>1 DEF OpenedInv, ReadIsOfThread, Held
<1> QED BY <1>1, <1>2, <1>3, KeepingStep

LEMMA SyncAskOwes ==
  ASSUME TurnsInv, OpenedInv, SyncAsk
  PROVE  OpenedInv'
<1> DEFINE w == [Head(chain) EXCEPT !.at = "asked", !.fresh = TRUE]
<1>1. UNCHANGED <<history, last, reading, opened>> /\ chain # <<>> /\ chain \in Seq(Syncs) /\ chain' = <<w>> \o Tail(chain)
  BY DEF SyncAsk, Syncing, Advance, TurnsInv, TurnsTypeOK
<1>2. w \in Syncs /\ w.at = "asked" /\ w.fresh = TRUE /\ w.kind = chain[1].kind
  BY <1>1, ShorterChain DEF Syncs
<1> HIDE DEF w
<1>3. DOMAIN chain' = DOMAIN chain /\ \A i \in DOMAIN chain' : chain'[i] = IF i = 1 THEN w ELSE chain[i]
  BY <1>1, <1>2, ChangedHead
<1>4. Promised' = Promised /\ ReadIsOfThread'
  BY <1>1 DEF Promised, OpenedInv, ReadIsOfThread
<1>5. Debt => Debt'
  <2>1. \A v : Owes(v) => Owes(v)'
    BY <1>4 DEF Owes
  <2>2. Owes(chain[1]) => Owes(chain[1])'
    BY <1>1, <1>2, <1>3, ShorterChain DEF Owes
  <2> QED BY <1>3, <2>1, <2>2 DEF Debt
<1>6. (entry' = Null => entry = Null) /\ Held \subseteq Held'
  BY SnapshotOfRows, EntryIsNotNull DEF SyncAsk, ReplaceFromDatabase, Held, TurnsInv
<1> QED BY <1>1, <1>4, <1>5, <1>6, KeepingStep

LEMMA SyncAnsweredOwes ==
  ASSUME TurnsInv, OpenedInv, SyncAnswered
  PROVE  OpenedInv'
<1> DEFINE page == Page(history, Null)
           w == [Head(chain) EXCEPT !.at = "answered", !.page = page]
<1>1. UNCHANGED <<history, last, entry, reading, opened>> /\ chain # <<>> /\ chain \in Seq(Syncs)
      /\ chain' = <<w>> \o Tail(chain) /\ Head(chain).at = "asked"
  BY DEF SyncAnswered, Syncing, Advance, TurnsInv, TurnsTypeOK
<1>2. page \in Pages
  BY PagesOfHistory DEF TurnsInv, TurnsTypeOK
<1>3. Promised \subseteq page.turns
  BY DEF Promised
<1> HIDE DEF page
<1>4. w \in Syncs /\ w.at = "answered" /\ w.page = page /\ w.fresh = chain[1].fresh /\ w.kind = chain[1].kind
  BY <1>1, <1>2, ShorterChain DEF Syncs
<1> HIDE DEF w
<1>5. DOMAIN chain' = DOMAIN chain /\ \A i \in DOMAIN chain' : chain'[i] = IF i = 1 THEN w ELSE chain[i]
  BY <1>1, <1>4, ChangedHead
<1>6. Promised' = Promised /\ ReadIsOfThread' /\ Held' = Held
  BY <1>1 DEF Promised, OpenedInv, ReadIsOfThread, Held
<1>7. Debt => Debt'
  <2>1. \A v : Owes(v) => Owes(v)'
    BY <1>6 DEF Owes
  <2>2. Owes(chain[1]) => Owes(chain[1])'
    BY <1>1, <1>3, <1>4, <1>5, <1>6, ShorterChain DEF Owes
  <2> QED BY <1>5, <2>1, <2>2 DEF Debt
<1> QED BY <1>1, <1>6, <1>7, KeepingStep

LEMMA SyncMergeOwes ==
  ASSUME TurnsInv, OpenedInv, SyncMerge
  PROVE  OpenedInv'
<1> DEFINE sync == Head(chain)
<1>1. UNCHANGED <<history, last, reading, opened>> /\ chain # <<>> /\ chain \in Seq(Syncs) /\ chain' = Tail(chain)
      /\ sync = chain[1] /\ sync.at = "answered"
  BY ShorterChain DEF SyncMerge, Syncing, EndSync, TurnsInv, TurnsTypeOK
<1>2. entry \in Entries /\ entry # Null /\ sync.page \in Pages
  BY <1>1, ShorterChain DEF TurnsInv, TurnsTypeOK, Asked, Ready
<1>3. entry' # Null /\ Held \subseteq Held' /\ (sync.fresh => sync.page.turns \subseteq Held')
  BY <1>2, MergeLatestAdds, EntryIsNotNull DEF SyncMerge, MayMerge, Held
<1> HIDE DEF sync
<1>4. Promised' = Promised /\ ReadIsOfThread'
  BY <1>1 DEF Promised, OpenedInv, ReadIsOfThread
<1>5. Debt => Debt' \/ Promised \subseteq Held'
  <2>1. \A i \in DOMAIN chain : i # 1 => i - 1 \in DOMAIN chain' /\ chain'[i - 1] = chain[i]
    BY <1>1, TailShifts
  <2>2. \A v : Owes(v) => Owes(v)'
    BY <1>4 DEF Owes
  <2>3. Owes(chain[1]) => Promised \subseteq Held'
    BY <1>1, <1>3 DEF Owes
  <2> QED BY <2>1, <2>2, <2>3 DEF Debt
<1> QED BY <1>1, <1>2, <1>3, <1>4, <1>5, KeepingStep

LEMMA TimerOwes ==
  ASSUME TurnsInv, OpenedInv, Timer
  PROVE  OpenedInv'
<1>1. UNCHANGED <<history, last, entry, reading, opened>> /\ chain \in Seq(Syncs) /\ chain' = Append(chain, Queued("completed"))
  BY DEF Timer, TurnsInv, TurnsTypeOK
<1>2. Promised' = Promised /\ Held' = Held /\ ReadIsOfThread'
  BY <1>1 DEF Promised, Held, OpenedInv, ReadIsOfThread
<1>3. Queued("completed") \in Syncs
  BY DEF Queued, Syncs
<1>4. \A i \in DOMAIN chain : i \in DOMAIN chain' /\ chain'[i] = chain[i]
  BY <1>1, <1>3
<1>5. \A v : Owes(v) => Owes(v)'
  BY <1>2 DEF Owes
<1>6. Debt => Debt'
  BY <1>4, <1>5 DEF Debt
<1> QED BY <1>1, <1>2, <1>6, KeepingStep

----------------------------------------------------------------------------
(* Turns and rollbacks. *)

\* A new turn was promised by no opening and takes promised ones off the page.
LEMMA NewTurnOwes ==
  ASSUME TurnsInv, OpenedInv, StartTurn \/ ForeignTurn
  PROVE  OpenedInv'
<1> USE DEF TurnsInv
<1>1. UNCHANGED <<chain, reading, opened>> /\ last' = last + 1 /\ last \in Nat /\ last' \in Turns
      /\ history' = history \cup {last'} /\ history \in SUBSET Turns
  BY DEF StartTurn, ForeignTurn, TurnsTypeOK
<1>2. (entry' = Null => entry = Null) /\ Held \subseteq Held'
  BY <1>1, MergeAdds, EntryIsNotNull DEF StartTurn, ForeignTurn, TurnsTypeOK, Held
<1>3. last' \notin 1..last /\ 1..last \subseteq 1..last'
  BY <1>1
<1>4. Promised' \subseteq Promised
  <2>1. Page(history', Null).turns \cap history \subseteq Page(history, Null).turns /\ Page(history', Null).turns \subseteq history'
    BY <1>1, LatestPageShrinks, PagesOfHistory
  <2> QED BY <1>1, <1>3, <2>1 DEF Promised, OpenedInv
<1>5. Debt => Debt'
  <2>1. \A v : Owes(v) => Owes(v)'
    BY <1>4 DEF Owes
  <2> QED BY <1>1, <2>1 DEF Debt
<1>6. ReadIsOfThread' /\ opened' \subseteq 1..last'
  BY <1>1, <1>3 DEF OpenedInv, ReadIsOfThread
<1> QED BY <1>1, <1>2, <1>4, <1>5, <1>6 DEF OpenedInv

LEMMA RecordedOwes ==
  ASSUME TurnsInv, OpenedInv, ItemOfTurn \/ CompleteTurn
  PROVE  OpenedInv'
<1>1. UNCHANGED <<history, last, chain, reading, opened>> /\ running \in Turns /\ Record(running)
  BY DEF ItemOfTurn, CompleteTurn, TurnsInv, TurnsTypeOK
<1>2. CASE entry = Null
  BY <1>1, <1>2, GrowingStep DEF Record, Held
<1>3. CASE entry # Null
  <2>1. entry \in Entries /\ entry' = Merge(entry, {running}) /\ {running} \in SUBSET Turns
    BY <1>1, <1>3 DEF Record, TurnsInv, TurnsTypeOK
  <2>2. entry' # Null /\ entry'.turns = entry.turns \cup {running}
    BY <2>1, MergeAdds, EntryIsNotNull
  <2> QED BY <1>1, <1>3, <2>2, GrowingStep DEF Held
<1> QED BY <1>2, <1>3

\* What a rollback touches is promised no more.
LEMMA RollbackOwes ==
  ASSUME TurnsInv, OpenedInv, RollbackAsk \/ SourceReverts \/ RollbackSettles
  PROVE  OpenedInv'
<1>1. CASE RollbackAsk \/ RollbackFails \/ RollbackStored
  BY <1>1, GrowingStep DEF RollbackAsk, RollbackFails, RollbackStored, Held
<1>2. CASE SourceReverts
  <2>1. ReadIsOfThread' /\ opened' = {}
    BY <1>2 DEF SourceReverts, OpenedInv, ReadIsOfThread
  <2> QED BY <2>1, ClearingStep
<1>3. CASE LegacyAnswered \/ RevertAnswered
  <2>1. opened' = {} /\ last' = last /\ reading' = IF reading = Null THEN Null ELSE Outdate(reading)
    BY <1>3 DEF LegacyAnswered, RevertAnswered, NewRevision, ReplaceAndQueue
  <2> QED BY <2>1, OutdatedIsOfThread, ClearingStep DEF TurnsInv, OpenedInv
<1> QED BY <1>1, <1>2, <1>3 DEF RollbackSettles

----------------------------------------------------------------------------
(* The invariant. *)

LEMMA NextOwes ==
  ASSUME TurnsInv, OpenedInv, Next
  PROVE  OpenedInv'
<1>1. CASE Open BY <1>1, OpenOwes
<1>2. CASE Read BY <1>2, ReadOwes
<1>3. CASE Older BY <1>3, OlderOwes
<1>4. CASE SyncSettles \/ SyncAnswered
  BY <1>4, SyncFailsOwes, SyncUnmaterializedOwes, SyncAskOwes, SyncMergeOwes, SyncAnsweredOwes DEF SyncSettles
<1>5. CASE Timer BY <1>5, TimerOwes
<1>6. CASE StartTurn \/ ForeignTurn BY <1>6, NewTurnOwes
<1>7. CASE ItemOfTurn \/ CompleteTurn BY <1>7, RecordedOwes
<1>8. CASE RollbackAsk \/ SourceReverts \/ RollbackSettles BY <1>8, RollbackOwes
<1>9. CASE Crash BY <1>9, ClearingStep DEF Crash, ReadIsOfThread
<1> QED BY <1>1, <1>2, <1>3, <1>4, <1>5, <1>6, <1>7, <1>8, <1>9 DEF Next

\* When no synchronization of an opened thread is left and none failed, the
\* window has all of the latest page the source had when it was opened that is
\* still there, for any history, page size and order of the other operations.
THEOREM OpenedThreadIsLatest == Spec => []OpenShowsLatest
<1>1. Init => OpenedInv
  BY DEF Init, OpenedInv, ReadIsOfThread, Promised
<1>2. TurnsInv /\ OpenedInv /\ Next => OpenedInv'
  BY NextOwes
<1>3. OpenedInv /\ UNCHANGED vars => OpenedInv'
  BY DEF vars, OpenedInv, ReadIsOfThread, Promised, Held, Debt, Owes
<1>4. TurnsInv /\ OpenedInv => OpenShowsLatest
  BY DEF OpenedInv, OpenShowsLatest, Debt, Held, Promised
<1> QED BY <1>1, <1>2, <1>3, <1>4, TurnsSafety, PTL DEF Spec
=============================================================================
