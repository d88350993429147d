------------------------ MODULE StreamingNotifications ------------------------
(***************************************************************************)
(* How streamed notifications of the Codex app-server reach the window:    *)
(* StreamingNotificationBatcher holds the fragments of a stream for 50 ms, *)
(* NotificationService those of an assistant message for 20 ms, and        *)
(* RuntimeNotificationCoordinator lets nothing that follows a fragment in  *)
(* its item, turn or process overtake it.                                  *)
(*                                                                         *)
(* A notification is its number in the order of arrival over all sources;  *)
(* one action is the synchronous handling of one notification, timer or    *)
(* close.  Left out: fragments that are invalid or empty and notifications *)
(* of an ignored thread, which change nothing here.                        *)
(***************************************************************************)
EXTENDS Naturals

CONSTANTS
  Sources, Threads, Turns, Items, Handles,
  Channels,     \* what distinguishes the streams of an owner: method, segment, stdout or stderr
  Streams,      \* the batched streams: a subset of Stream
  Messages,     \* the assistant messages: a subset of Message
  Phases,       \* the phases of an assistant message
  None,         \* no thread, turn, item, process or phase: ""
  MaxReceived   \* bound: notifications received

Stream ==
  [source : Sources, thread : Threads \cup {None}, turn : Turns \cup {None}, item : Items \cup {None},
   process : Handles \cup {None}, channel : Channels, mode : {"append", "replace"}]

Message == [source : Sources, thread : Threads, turn : Turns, item : Items]

\* A stream belongs to a process of a source, or to an item or turn of a thread.
ASSUME StreamsAssumption ==
  /\ MaxReceived \in Nat
  /\ Messages \subseteq Message
  /\ Streams \subseteq Stream
  /\ \A s \in Streams : (s.process = None) # (s.thread = None /\ s.turn = None /\ s.item = None)
  /\ None \notin Threads \cup Turns \cup Items \cup Handles \cup Phases

VARIABLES
  received,       \* notifications received
  pending,        \* pendingNotifications: the fragments each stream holds back
  timers,         \* the 50 ms timer of each batch: the notification that set it, 0 when none runs
  deltas,         \* pendingAssistantDeltas: by message and phase
  deltaTimers,    \* the 20 ms timers of these, alike
  phase,          \* assistantMessagePhases
  activeTurns,    \* activeTurnIdsBySourceId
  fragments,      \* history: the fragments each stream has sent
  shown,          \* history: the fragments of each stream that were processed
  superseded,     \* history: the snapshots a newer one replaced
  ended,          \* history: the last end of each stream's item, turn, process, thread or source
  said,           \* history: the deltas each message has sent
  heard,          \* history: the deltas of each message the window was given
  begun,          \* history: the messages that have started
  concluded       \* history: the last end of each message's item or turn

batcher == <<pending, timers, fragments, shown, superseded>>
service == <<deltas, deltaTimers, phase, said, heard, begun>>
marks == <<ended, concluded>>
vars == <<received, batcher, service, activeTurns, marks>>

AllPhases == Phases \cup {None}

Init ==
  /\ received = 0
  /\ pending = [s \in Streams |-> {}]
  /\ timers = [s \in Streams |-> 0]
  /\ deltas = [m \in Messages |-> [ph \in AllPhases |-> {}]]
  /\ deltaTimers = [m \in Messages |-> [ph \in AllPhases |-> 0]]
  /\ phase = [m \in Messages |-> None]
  /\ activeTurns = [c \in Sources |-> {}]
  /\ fragments = [s \in Streams |-> {}]
  /\ shown = [s \in Streams |-> {}]
  /\ superseded = [s \in Streams |-> {}]
  /\ ended = [s \in Streams |-> 0]
  /\ said = [m \in Messages |-> {}]
  /\ heard = [m \in Messages |-> {}]
  /\ begun = {}
  /\ concluded = [m \in Messages |-> 0]

----------------------------------------------------------------------------
(* The batcher. *)

\* hasSameLogicalOwner.
SameOwner(s, t) ==
  /\ s.source = t.source
  /\ IF s.process # None \/ t.process # None
       THEN s.process # None /\ s.process = t.process
       ELSE s.thread = t.thread /\ s.turn = t.turn /\ s.item = t.item

\* Defect: the turn is read from turnId alone, which turn/completed has not.
FlushedByTurnId(n, s) ==
  /\ s.source = n.source /\ n.method # "turn/completed"
  /\ IF n.method = "process/exited"
       THEN s.process = n.process
       ELSE s.thread = n.thread /\ n.turn \in {s.turn, None}

\* What flushBeforeNotification flushes before a notification that is not
\* batched: the streams of the process that exited, of the turn the
\* notification names, or of the whole thread when it ends without a turn.
FlushedBefore(n, s) ==
  /\ s.source = n.source
  /\ IF n.method = "process/exited"
       THEN s.process = n.process
       ELSE /\ n.thread # None /\ s.thread = n.thread
            /\ \/ n.turn # None /\ s.turn = n.turn
               \/ n.turn = None /\ n.method = "thread/ended"

\* Defect: the timer of a batch that was flushed goes on running.
FlushOnTime(streams) ==
  /\ pending' = [s \in Streams |-> IF s \in streams THEN {} ELSE pending[s]]
  /\ shown' = [s \in Streams |-> IF s \in streams THEN shown[s] \cup pending[s] ELSE shown[s]]
  /\ UNCHANGED <<timers, fragments, superseded>>

\* Flush these streams: their batches are processed and their timers cleared.
Flush(streams) ==
  /\ pending' = [s \in Streams |-> IF s \in streams THEN {} ELSE pending[s]]
  /\ timers' = [s \in Streams |-> IF s \in streams THEN 0 ELSE timers[s]]
  /\ shown' = [s \in Streams |-> IF s \in streams THEN shown[s] \cup pending[s] ELSE shown[s]]
  /\ UNCHANGED <<fragments, superseded>>

\* Defect: each segment of an item waits for its own timer.
OvertakeNothing(s) == {}

\* The streams flushed before a fragment of s is buffered.
Overtaken(s) == {t \in Streams : t # s /\ SameOwner(t, s)}

\* Defect: a snapshot that replaces another one comes without a timer.
TimerOfFirst(s) ==
  IF pending[s] = {} THEN received + 1 ELSE IF s.mode = "replace" THEN 0 ELSE timers[s]

\* The first fragment of a batch sets its timer; later ones keep it.
TimerOf(s) == IF pending[s] = {} THEN received + 1 ELSE timers[s]

TimersAfterFragment(s) ==
  timers' = [t \in Streams |-> IF t = s THEN TimerOf(s) ELSE IF t \in Overtaken(s) THEN 0 ELSE timers[t]]

\* Defect: every stream is taken for one of snapshots.
ReplacingFragment(s) ==
  LET n == received + 1 IN
  /\ received < MaxReceived
  /\ received' = n
  /\ pending' = [t \in Streams |-> IF t = s THEN {n} ELSE IF t \in Overtaken(s) THEN {} ELSE pending[t]]
  /\ TimersAfterFragment(s)
  /\ shown' = [t \in Streams |-> IF t \in Overtaken(s) THEN shown[t] \cup pending[t] ELSE shown[t]]
  /\ fragments' = [fragments EXCEPT ![s] = @ \cup {n}]
  /\ UNCHANGED <<superseded, service, activeTurns, marks>>

\* A fragment of a stream is buffered: a snapshot replaces the one that waits.
Fragment(s) ==
  LET n == received + 1 IN
  /\ received < MaxReceived
  /\ received' = n
  /\ pending' = [t \in Streams |->
       IF t = s THEN (IF s.mode = "replace" THEN {n} ELSE pending[s] \cup {n})
       ELSE IF t \in Overtaken(s) THEN {} ELSE pending[t]]
  /\ TimersAfterFragment(s)
  /\ shown' = [t \in Streams |-> IF t \in Overtaken(s) THEN shown[t] \cup pending[t] ELSE shown[t]]
  /\ superseded' = [superseded EXCEPT ![s] = IF s.mode = "replace" THEN @ \cup pending[s] ELSE @]
  /\ fragments' = [fragments EXCEPT ![s] = @ \cup {n}]
  /\ UNCHANGED <<service, activeTurns, marks>>

\* The 50 ms timer of a stream fires.
BatchTimer(s) ==
  /\ timers[s] # 0
  /\ Flush({s})
  /\ UNCHANGED <<received, service, activeTurns, marks>>

----------------------------------------------------------------------------
(* The deltas of assistant messages. *)

\* Defect: only the batch of the current phase is looked up.
EmitPhase(messages) ==
  /\ deltas' = [m \in Messages |-> IF m \in messages THEN [deltas[m] EXCEPT ![phase[m]] = {}] ELSE deltas[m]]
  /\ deltaTimers' = [m \in Messages |->
       IF m \in messages THEN [deltaTimers[m] EXCEPT ![phase[m]] = 0] ELSE deltaTimers[m]]
  /\ heard' = [m \in Messages |-> IF m \in messages THEN heard[m] \cup deltas[m][phase[m]] ELSE heard[m]]

\* Defect: the timer is left to emit them.
EmitLater(messages) == UNCHANGED <<deltas, deltaTimers, heard>>

\* flushPendingAssistantDeltas of these messages, in every phase.
Emit(messages) ==
  /\ deltas' = [m \in Messages |-> IF m \in messages THEN [ph \in AllPhases |-> {}] ELSE deltas[m]]
  /\ deltaTimers' = [m \in Messages |-> IF m \in messages THEN [ph \in AllPhases |-> 0] ELSE deltaTimers[m]]
  /\ heard' = [m \in Messages |->
       IF m \in messages THEN heard[m] \cup UNION {deltas[m][ph] : ph \in AllPhases} ELSE heard[m]]

\* Timers of one delay fire in the order they were set.
IsNext(m, ph) ==
  /\ deltaTimers[m][ph] # 0
  /\ \A o \in Messages, q \in AllPhases : deltaTimers[o][q] # 0 => deltaTimers[m][ph] <= deltaTimers[o][q]

\* The 20 ms timer of a message in a phase fires.
DeltaTimer(m, ph) ==
  /\ IsNext(m, ph)
  /\ deltas' = [deltas EXCEPT ![m][ph] = {}]
  /\ deltaTimers' = [deltaTimers EXCEPT ![m][ph] = 0]
  /\ heard' = [heard EXCEPT ![m] = @ \cup deltas[m][ph]]
  /\ UNCHANGED <<received, batcher, activeTurns, marks, phase, said, begun>>

----------------------------------------------------------------------------
(* Immediate notifications: the streams they follow are flushed first. *)

Notification(method, source, thread, turn, item, process) ==
  [method |-> method, source |-> source, thread |-> thread, turn |-> turn, item |-> item, process |-> process]

\* What a notification ends, whatever the code flushes for it: an item, a
\* turn, a process or a thread.
Ends(n, s) ==
  /\ s.source = n.source
  /\ \/ n.method = "item/completed" /\ s.thread = n.thread /\ s.turn = n.turn /\ s.item = n.item
     \/ n.method = "turn/completed" /\ s.thread = n.thread /\ s.turn = n.turn
     \/ n.method = "thread/ended" /\ s.thread = n.thread
     \/ n.method = "process/exited" /\ s.process = n.process

\* handleNotification up to processNotification.
Precede(n) ==
  /\ received < MaxReceived
  /\ received' = received + 1
  /\ Flush({s \in Streams : FlushedBefore(n, s)})
  /\ ended' = [s \in Streams |-> IF Ends(n, s) THEN received' ELSE ended[s]]

MessagesOfTurn(c, thread, turn) == {m \in Messages : m.source = c /\ m.thread = thread /\ m.turn = turn}

\* item/agentMessage/delta.
MessageDelta(m) ==
  /\ Precede(Notification("item/agentMessage/delta", m.source, m.thread, m.turn, m.item, None))
  /\ deltas' = [deltas EXCEPT ![m][phase[m]] = @ \cup {received + 1}]
  /\ deltaTimers' = [deltaTimers EXCEPT ![m][phase[m]] = IF deltas[m][phase[m]] = {} THEN received + 1 ELSE @]
  /\ said' = [said EXCEPT ![m] = @ \cup {received + 1}]
  /\ UNCHANGED <<phase, heard, begun, activeTurns, concluded>>

\* item/started of an assistant message; the app-server starts an item once.
MessageStarted(m, ph) ==
  /\ m \notin begun
  /\ Precede(Notification("item/started", m.source, m.thread, m.turn, m.item, None))
  /\ phase' = [phase EXCEPT ![m] = ph]
  /\ begun' = begun \cup {m}
  /\ UNCHANGED <<deltas, deltaTimers, said, heard, activeTurns, concluded>>

\* item/completed of an assistant message.
MessageCompleted(m) ==
  /\ Precede(Notification("item/completed", m.source, m.thread, m.turn, m.item, None))
  /\ Emit({m})
  /\ phase' = [phase EXCEPT ![m] = None]
  /\ concluded' = [concluded EXCEPT ![m] = received + 1]
  /\ UNCHANGED <<said, begun, activeTurns>>

\* item/completed of any other item.
ItemCompleted(c, thread, turn, item) ==
  /\ [source |-> c, thread |-> thread, turn |-> turn, item |-> item] \notin Messages
  /\ Precede(Notification("item/completed", c, thread, turn, item, None))
  /\ UNCHANGED <<service, activeTurns, concluded>>

TurnStarted(c, thread, turn) ==
  /\ Precede(Notification("turn/started", c, thread, turn, None, None))
  /\ activeTurns' = [activeTurns EXCEPT ![c] = @ \cup {turn}]
  /\ UNCHANGED <<service, concluded>>

TurnCompleted(c, thread, turn) ==
  /\ Precede(Notification("turn/completed", c, thread, turn, None, None))
  /\ activeTurns' = [activeTurns EXCEPT ![c] = @ \ {turn}]
  /\ Emit(MessagesOfTurn(c, thread, turn))
  /\ concluded' = [m \in Messages |-> IF m \in MessagesOfTurn(c, thread, turn) THEN received' ELSE concluded[m]]
  /\ UNCHANGED <<phase, said, begun>>

\* thread/closed, thread/deleted and thread/archived end a thread; any other
\* notification of a thread without a turn is processed at once.
ThreadNotification(c, thread, method) ==
  /\ method \in {"thread/ended", "thread/other"}
  /\ Precede(Notification(method, c, thread, None, None, None))
  /\ UNCHANGED <<service, activeTurns, concluded>>

ProcessExited(c, process) ==
  /\ Precede(Notification("process/exited", c, None, None, None, process))
  /\ UNCHANGED <<service, activeTurns, concluded>>

----------------------------------------------------------------------------
(* The end of a connection. *)

\* The client of a source closes: handleClientClose.
ClientClose(c) ==
  /\ received < MaxReceived
  /\ received' = received + 1
  /\ Flush({s \in Streams : s.source = c})
  /\ activeTurns' = [activeTurns EXCEPT ![c] = {}]
  /\ ended' = [s \in Streams |-> IF s.source = c THEN received' ELSE ended[s]]
  /\ UNCHANGED <<service, concluded>>

\* The runtime is disposed: flushAll.
Dispose ==
  /\ \E s \in Streams : pending[s] # {}
  /\ Flush(Streams)
  /\ UNCHANGED <<received, service, activeTurns, marks>>

Next ==
  \/ \E s \in Streams : Fragment(s) \/ BatchTimer(s)
  \/ \E m \in Messages : MessageDelta(m) \/ MessageCompleted(m)
  \/ \E m \in Messages, ph \in AllPhases : MessageStarted(m, ph) \/ DeltaTimer(m, ph)
  \/ \E c \in Sources, thread \in Threads, turn \in Turns :
       \/ TurnStarted(c, thread, turn)
       \/ TurnCompleted(c, thread, turn)
       \/ \E item \in Items : ItemCompleted(c, thread, turn, item)
  \/ \E c \in Sources, thread \in Threads, method \in {"thread/ended", "thread/other"} :
       ThreadNotification(c, thread, method)
  \/ \E c \in Sources, process \in Handles : ProcessExited(c, process)
  \/ \E c \in Sources : ClientClose(c)
  \/ Dispose

Spec == Init /\ [][Next]_vars

\* A timer that runs and is not cleared fires.
Fairness ==
  /\ \A s \in Streams : WF_vars(BatchTimer(s))
  /\ \A m \in Messages, ph \in AllPhases : WF_vars(DeltaTimer(m, ph))

FairSpec == Spec /\ Fairness

----------------------------------------------------------------------------
(* Properties. *)

\* Values stay in their domains.
StreamTypeOK ==
  /\ received \in Nat
  /\ pending \in [Streams -> SUBSET Nat]
  /\ timers \in [Streams -> Nat]
  /\ deltas \in [Messages -> [AllPhases -> SUBSET Nat]]
  /\ deltaTimers \in [Messages -> [AllPhases -> Nat]]
  /\ phase \in [Messages -> AllPhases]
  /\ activeTurns \in [Sources -> SUBSET Turns]
  /\ fragments \in [Streams -> SUBSET Nat] /\ shown \in [Streams -> SUBSET Nat] /\ superseded \in [Streams -> SUBSET Nat]
  /\ ended \in [Streams -> Nat]
  /\ said \in [Messages -> SUBSET Nat] /\ heard \in [Messages -> SUBSET Nat]
  /\ begun \subseteq Messages
  /\ concluded \in [Messages -> Nat]

\* "should preserve order across distinct segments of one item": what waits
\* is younger than everything that was processed of the same item, turn or
\* process, whichever segment or output it came from.
OwnersInOrder ==
  \A s, t \in Streams : SameOwner(s, t) => \A i \in shown[s], j \in pending[t] : i < j

\* Every fragment is processed once: it waits, was processed or, when it was
\* a snapshot, was replaced by a newer one that is itself not lost.
NothingLost ==
  \A s \in Streams :
    /\ fragments[s] = pending[s] \cup shown[s] \cup superseded[s]
    /\ shown[s] \cap (pending[s] \cup superseded[s]) = {} /\ pending[s] \cap superseded[s] = {}
    /\ \A i \in superseded[s] : \E j \in pending[s] \cup shown[s] : i < j

\* "Buffered content must be emitted before its matching item, turn, process,
\* or source lifecycle boundary": nothing waits that is older than the end of
\* its item, turn, thread, process or connection.
BoundariesFollow ==
  \A s \in Streams : \A i \in pending[s] : ended[s] < i

\* The window is given the deltas of a message in order and once, although a
\* message whose phase becomes known has two batches.
MessageInOrder ==
  \A m \in Messages, ph \in AllPhases :
    /\ \A i \in heard[m], j \in deltas[m][ph] : i < j
    /\ said[m] = heard[m] \cup UNION {deltas[m][q] : q \in AllPhases}

\* No delta waits when its message or its turn has been completed.
MessageBeforeItsEnd ==
  \A m \in Messages, ph \in AllPhases : \A i \in deltas[m][ph] : concluded[m] < i

\* Whatever waits has a timer running, and no timer outlives its batch to flush
\* a later one of the same key early, however fragments, snapshots, changes of
\* phase, boundaries, closes and timers alternate.
BatchesAreTimed ==
  /\ \A s \in Streams : timers[s] = 0 <=> pending[s] = {}
  /\ \A m \in Messages, ph \in AllPhases : deltaTimers[m][ph] = 0 <=> deltas[m][ph] = {}

\* Whatever is received reaches the window although only a timer that was set
\* and not cleared fires: no batch waits for ever.
EverythingShown ==
  /\ \A s \in Streams : pending[s] # {} ~> pending[s] = {}
  /\ \A m \in Messages : said[m] # heard[m] ~> said[m] = heard[m]
=============================================================================
