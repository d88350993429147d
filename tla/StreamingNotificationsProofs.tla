--------------------- MODULE StreamingNotificationsProofs ---------------------
(***************************************************************************)
(* Proofs about StreamingNotifications for any streams, messages and       *)
(* number of notifications.                                                *)
(*                                                                         *)
(* Every step changes the batcher in one of two ways, FragmentStep and     *)
(* FlushStep, and the deltas in one of five; a lemma per way shows what it *)
(* preserves.                                                              *)
(***************************************************************************)
EXTENDS StreamingNotifications, TLAPS

\* Two streams of one owner never wait together: a fragment flushes the
\* others of its item, turn or process before it is buffered.
OneStreamWaits ==
  \A s, t \in Streams : SameOwner(s, t) /\ pending[s] # {} /\ pending[t] # {} => s = t

\* The numbers in use are those of received notifications.
Numbered ==
  /\ \A s \in Streams : ended[s] <= received /\ \A i \in fragments[s] : i <= received
  /\ \A m \in Messages : concluded[m] <= received /\ \A i \in said[m] : i <= received

BatchInv == OneStreamWaits /\ OwnersInOrder /\ NothingLost /\ BoundariesFollow

\* A message that has not started has no phase; a batch of another phase than
\* the current one was begun before the message started, and is older.
PhasesFollow ==
  \A m \in Messages :
    /\ m \notin begun => phase[m] = None
    /\ \A q \in AllPhases \ {phase[m], None} : deltas[m][q] = {}
    /\ phase[m] # None => \A i \in deltas[m][None], j \in deltas[m][phase[m]] : i < j

MessageInv == PhasesFollow /\ MessageInOrder /\ MessageBeforeItsEnd

\* The timer of a batch of deltas was set by the oldest of them.
FirstDeltaTimed ==
  \A m \in Messages, ph \in AllPhases :
    /\ deltas[m][ph] # {} => deltaTimers[m][ph] \in deltas[m][ph]
    /\ \A i \in deltas[m][ph] : deltaTimers[m][ph] <= i

TimerInv == BatchesAreTimed /\ FirstDeltaTimed

\* A batch of deltas that was begun before every other.
IsOldest(m, ph) ==
  \E i \in deltas[m][ph] : \A o \in Messages, q \in AllPhases : \A j \in deltas[o][q] : i <= j

----------------------------------------------------------------------------
(* Owners. *)

\* Belonging to one item, turn or process is an equivalence.
LEMMA OwnersAreClasses ==
  /\ \A s \in Streams : SameOwner(s, s)
  /\ \A s, t \in Streams : SameOwner(s, t) => SameOwner(t, s)
  /\ \A s, t, v \in Streams : SameOwner(s, t) /\ SameOwner(t, v) => SameOwner(s, v)
<1>1. \A s \in Streams : SameOwner(s, s)
  BY DEF SameOwner
<1>2. \A s, t \in Streams : SameOwner(s, t) => SameOwner(t, s)
  BY DEF SameOwner
<1>3. \A s, t, v \in Streams : SameOwner(s, t) /\ SameOwner(t, v) => SameOwner(s, v)
  BY DEF SameOwner
<1> QED BY <1>1, <1>2, <1>3

----------------------------------------------------------------------------
(* The two ways a step changes the batcher. *)

FragmentStep(s) ==
  LET n == received + 1 IN
  /\ received' = n
  /\ pending' = [t \in Streams |->
       IF t = s THEN (IF s.mode = "replace" THEN {n} ELSE pending[s] \cup {n})
       ELSE IF t \in Overtaken(s) THEN {} ELSE pending[t]]
  /\ TimersAfterFragment(s)
  /\ shown' = [t \in Streams |-> IF t \in Overtaken(s) THEN shown[t] \cup pending[t] ELSE shown[t]]
  /\ superseded' = [superseded EXCEPT ![s] = IF s.mode = "replace" THEN @ \cup pending[s] ELSE @]
  /\ fragments' = [fragments EXCEPT ![s] = @ \cup {n}]
  /\ ended' = ended

FlushStep ==
  \E streams \in SUBSET Streams :
    /\ Flush(streams)
    /\ received' \in Nat /\ received <= received'
    /\ ended' \in [Streams -> Nat]
    /\ \A s \in Streams : ended'[s] = ended[s] \/ (s \in streams /\ ended'[s] = received')

\* An immediate notification flushes and marks ends.
LEMMA PrecedeFlushes ==
  ASSUME StreamTypeOK, NEW n, Precede(n),
         \A s \in Streams : Ends(n, s) => FlushedBefore(n, s)
  PROVE  FlushStep
<1> DEFINE streams == {s \in Streams : FlushedBefore(n, s)}
<1>1. received' = received + 1 /\ received \in Nat /\ ended \in [Streams -> Nat]
  BY DEF Precede, StreamTypeOK
<1>2. ended' \in [Streams -> Nat]
  BY <1>1 DEF Precede
<1>3. \A s \in Streams : ended'[s] = ended[s] \/ (s \in streams /\ ended'[s] = received')
  BY <1>1 DEF Precede
<1>4. Flush(streams) /\ streams \in SUBSET Streams
  BY DEF Precede
<1> QED
  <2> HIDE DEF streams
  <2> QED BY <1>1, <1>2, <1>3, <1>4 DEF FlushStep

\* A flush keeps the batcher's invariant.
LEMMA FlushKeeps ==
  ASSUME StreamTypeOK, Numbered, BatchInv, FlushStep
  PROVE  BatchInv'
<1> USE DEF StreamTypeOK
<1>0. PICK streams \in SUBSET Streams :
        /\ Flush(streams)
        /\ received' \in Nat /\ received <= received'
        /\ ended' \in [Streams -> Nat]
        /\ \A s \in Streams : ended'[s] = ended[s] \/ (s \in streams /\ ended'[s] = received')
  BY DEF FlushStep
<1>a. \A s \in Streams :
        /\ s \in streams => pending'[s] = {} /\ shown'[s] = shown[s] \cup pending[s]
        /\ s \notin streams => pending'[s] = pending[s] /\ shown'[s] = shown[s]
        /\ fragments'[s] = fragments[s] /\ superseded'[s] = superseded[s]
  BY <1>0 DEF Flush
<1>1. OneStreamWaits'
  BY <1>a DEF BatchInv, OneStreamWaits, SameOwner
<1>2. OwnersInOrder'
  <2> SUFFICES ASSUME NEW s \in Streams, NEW t \in Streams, SameOwner(s, t),
                      NEW i \in shown'[s], NEW j \in pending'[t]
               PROVE  i < j
    BY DEF OwnersInOrder, SameOwner
  <2>1. t \notin streams /\ j \in pending[t]
    BY <1>a
  <2>2. CASE i \in shown[s]
    BY <2>1, <2>2 DEF BatchInv, OwnersInOrder
  <2>3. CASE i \notin shown[s]
    <3>1. s \in streams /\ i \in pending[s]
      BY <1>a, <2>3
    <3>2. s = t
      BY <3>1, <2>1 DEF BatchInv, OneStreamWaits
    <3> QED BY <3>1, <3>2, <2>1
  <2> QED BY <2>2, <2>3
<1>3. NothingLost'
  BY <1>a DEF BatchInv, NothingLost
<1>4. BoundariesFollow'
  BY <1>a, <1>0 DEF BatchInv, BoundariesFollow
<1> QED BY <1>1, <1>2, <1>3, <1>4 DEF BatchInv

\* So does a fragment.
LEMMA FragmentKeeps ==
  ASSUME StreamTypeOK, Numbered, BatchInv, NEW x \in Streams, FragmentStep(x)
  PROVE  BatchInv'
<1> USE DEF StreamTypeOK
<1> DEFINE n == received + 1
<1>a. /\ pending'[x] = IF x.mode = "replace" THEN {n} ELSE pending[x] \cup {n}
      /\ shown'[x] = shown[x]
      /\ superseded'[x] = IF x.mode = "replace" THEN superseded[x] \cup pending[x] ELSE superseded[x]
      /\ fragments'[x] = fragments[x] \cup {n}
  BY DEF FragmentStep, Overtaken
<1>b. \A t \in Streams \ {x} :
        /\ SameOwner(t, x) => pending'[t] = {} /\ shown'[t] = shown[t] \cup pending[t]
        /\ ~SameOwner(t, x) => pending'[t] = pending[t] /\ shown'[t] = shown[t]
        /\ fragments'[t] = fragments[t] /\ superseded'[t] = superseded[t]
  BY DEF FragmentStep, Overtaken
<1>c. received' = n /\ received \in Nat /\ ended' = ended
  BY DEF FragmentStep
<1>d. \A t \in Streams : \A i \in pending[t] \cup shown[t] \cup superseded[t] : i \in Nat /\ i < n
  BY <1>c DEF Numbered, BatchInv, NothingLost
<1>e. \A t \in Streams : ended[t] \in Nat /\ ended[t] < n
  BY <1>c DEF Numbered
<1> HIDE DEF n
<1>n. n \in Nat
  BY <1>c DEF n
<1>1. OneStreamWaits'
  <2> SUFFICES ASSUME NEW s \in Streams, NEW t \in Streams, SameOwner(s, t), pending'[s] # {}, pending'[t] # {}
               PROVE  s = t
    BY DEF OneStreamWaits, SameOwner
  <2>1. CASE s = x \/ t = x
    BY <2>1, <1>b, OwnersAreClasses
  <2>2. CASE s # x /\ t # x
    BY <2>2, <1>b DEF BatchInv, OneStreamWaits
  <2> QED BY <2>1, <2>2
<1>2. OwnersInOrder'
  <2> SUFFICES ASSUME NEW s \in Streams, NEW t \in Streams, SameOwner(s, t),
                      NEW i \in shown'[s], NEW j \in pending'[t]
               PROVE  i < j
    BY DEF OwnersInOrder, SameOwner
  <2>1. CASE t = x
    <3>1. i \in shown[s] \/ (s # x /\ i \in pending[s])
      BY <1>a, <1>b
    <3>2. i \in Nat /\ i < n
      BY <3>1, <1>d
    <3>3. CASE j = n
      BY <3>2, <3>3
    <3>4. CASE j # n
      <4>1. j \in pending[x]
        BY <3>4, <2>1, <1>a
      <4>2. i \in shown[s]
        BY <4>1, <3>1, <2>1 DEF BatchInv, OneStreamWaits
      <4> QED BY <4>1, <4>2, <2>1 DEF BatchInv, OwnersInOrder
    <3> QED BY <3>3, <3>4
  <2>2. CASE t # x
    <3>1. ~SameOwner(t, x) /\ j \in pending[t]
      BY <2>2, <1>b
    <3>2. ~SameOwner(s, x)
      BY <3>1, OwnersAreClasses
    <3>3. i \in shown[s]
      BY <3>2, <1>a, <1>b
    <3> QED BY <3>1, <3>3 DEF BatchInv, OwnersInOrder
  <2> QED BY <2>1, <2>2
<1>3. NothingLost'
  <2> SUFFICES ASSUME NEW s \in Streams
               PROVE  /\ fragments'[s] = pending'[s] \cup shown'[s] \cup superseded'[s]
                      /\ shown'[s] \cap (pending'[s] \cup superseded'[s]) = {} /\ pending'[s] \cap superseded'[s] = {}
                      /\ \A i \in superseded'[s] : \E j \in pending'[s] \cup shown'[s] : i < j
    BY DEF NothingLost
  <2>0. /\ fragments[s] = pending[s] \cup shown[s] \cup superseded[s]
        /\ shown[s] \cap (pending[s] \cup superseded[s]) = {} /\ pending[s] \cap superseded[s] = {}
        /\ \A i \in superseded[s] : \E j \in pending[s] \cup shown[s] : i < j
    BY DEF BatchInv, NothingLost
  <2>n. n \notin pending[s] \cup shown[s] \cup superseded[s]
    BY <1>d, <1>n
  <2>1. CASE s = x /\ x.mode = "replace"
    <3>1. /\ pending'[s] = {n} /\ shown'[s] = shown[s] /\ superseded'[s] = superseded[s] \cup pending[s]
          /\ fragments'[s] = fragments[s] \cup {n}
      BY <2>1, <1>a
    <3>2. \A i \in superseded'[s] : i < n
      BY <3>1, <1>d
    <3> QED BY <3>1, <3>2, <2>0, <2>n
  <2>2. CASE s = x /\ x.mode # "replace"
    <3>1. /\ pending'[s] = pending[s] \cup {n} /\ shown'[s] = shown[s] /\ superseded'[s] = superseded[s]
          /\ fragments'[s] = fragments[s] \cup {n}
      BY <2>2, <1>a
    <3> QED BY ONLY <3>1, <2>0, <2>n
  <2>3. CASE s # x
    BY <2>3, <1>b, <2>0
  <2> QED BY <2>1, <2>2, <2>3
<1>4. BoundariesFollow'
  <2> SUFFICES ASSUME NEW s \in Streams, NEW i \in pending'[s]
               PROVE  ended[s] < i
    BY <1>c DEF BoundariesFollow
  <2>1. i = n \/ i \in pending[s]
    BY <1>a, <1>b
  <2> QED BY <2>1, <1>e DEF BatchInv, BoundariesFollow
<1> QED BY <1>1, <1>2, <1>3, <1>4 DEF BatchInv

----------------------------------------------------------------------------
(* The ways a step changes the deltas. *)

DeltaStep(m) ==
  /\ received' = received + 1
  /\ deltas' = [deltas EXCEPT ![m][phase[m]] = @ \cup {received + 1}]
  /\ deltaTimers' = [deltaTimers EXCEPT ![m][phase[m]] = IF deltas[m][phase[m]] = {} THEN received + 1 ELSE @]
  /\ said' = [said EXCEPT ![m] = @ \cup {received + 1}]
  /\ UNCHANGED <<phase, heard, begun, concluded>>

StartStep(m, ph) ==
  /\ m \notin begun
  /\ phase' = [phase EXCEPT ![m] = ph]
  /\ begun' = begun \cup {m}
  /\ UNCHANGED <<deltas, deltaTimers, said, heard, concluded>>

\* The messages that are emitted are those that may have been completed.
EndStep ==
  \E messages \in SUBSET Messages :
    /\ Emit(messages)
    /\ \A m \in Messages : phase'[m] = phase[m] \/ (m \in messages /\ phase'[m] = None)
    /\ \A m \in Messages \ messages : concluded'[m] = concluded[m]
    /\ UNCHANGED <<said, begun>>

TimerStep(m, ph) ==
  /\ IsOldest(m, ph)
  /\ deltas' = [deltas EXCEPT ![m][ph] = {}]
  /\ deltaTimers' = [deltaTimers EXCEPT ![m][ph] = 0]
  /\ heard' = [heard EXCEPT ![m] = @ \cup deltas[m][ph]]
  /\ UNCHANGED <<phase, said, begun, concluded>>

Silent == UNCHANGED <<service, concluded>>

LEMMA DeltaKeeps ==
  ASSUME StreamTypeOK, Numbered, MessageInv, NEW x \in Messages, DeltaStep(x)
  PROVE  MessageInv'
<1> USE DEF StreamTypeOK
<1> DEFINE n == received + 1
<1>a. /\ \A q \in AllPhases : deltas'[x][q] = IF q = phase[x] THEN deltas[x][q] \cup {n} ELSE deltas[x][q]
      /\ \A m \in Messages \ {x} : deltas'[m] = deltas[m] /\ said'[m] = said[m]
      /\ said'[x] = said[x] \cup {n}
  BY DEF DeltaStep
<1>b. phase' = phase /\ heard' = heard /\ begun' = begun /\ concluded' = concluded /\ phase[x] \in AllPhases
  BY DEF DeltaStep
<1>c. n \in Nat /\ \A m \in Messages : \A i \in said[m] : i \in Nat /\ i < n
  BY DEF Numbered
<1>d. \A m \in Messages : concluded[m] \in Nat /\ concluded[m] < n
  BY DEF Numbered
<1>e. \A m \in Messages, q \in AllPhases : deltas[m][q] \subseteq said[m] /\ heard[m] \subseteq said[m]
  BY DEF MessageInv, MessageInOrder
<1> HIDE DEF n
<1>1. PhasesFollow'
  <2> SUFFICES ASSUME NEW m \in Messages
               PROVE  /\ m \notin begun => phase[m] = None
                      /\ \A q \in AllPhases \ {phase[m], None} : deltas'[m][q] = {}
                      /\ phase[m] # None => \A i \in deltas'[m][None], j \in deltas'[m][phase[m]] : i < j
    BY <1>b DEF PhasesFollow
  <2>1. None \in AllPhases
    BY DEF AllPhases
  <2>2. CASE m # x
    BY <2>2, <1>a DEF MessageInv, PhasesFollow
  <2>3. CASE m = x
    <3>1. \A q \in AllPhases \ {phase[m]} : deltas'[m][q] = deltas[m][q]
      BY <2>3, <1>a
    <3>2. phase[m] # None => \A i \in deltas'[m][None], j \in deltas'[m][phase[m]] : i < j
      <4> SUFFICES ASSUME phase[m] # None, NEW i \in deltas'[m][None], NEW j \in deltas'[m][phase[m]]
                   PROVE  i < j
        OBVIOUS
      <4>1. i \in deltas[m][None]
        BY <3>1, <2>1
      <4>2. j \in deltas[m][phase[m]] \/ j = n
        BY <2>3, <1>a, <1>b
      <4>3. i < n
        BY <4>1, <1>c, <1>e, <2>1
      <4> QED BY <4>1, <4>2, <4>3 DEF MessageInv, PhasesFollow
    <3> QED BY <3>1, <3>2 DEF MessageInv, PhasesFollow
  <2> QED BY <2>2, <2>3
<1>2. MessageInOrder'
  <2> SUFFICES ASSUME NEW m \in Messages
               PROVE  /\ \A ph \in AllPhases : \A i \in heard[m], j \in deltas'[m][ph] : i < j
                      /\ said'[m] = heard[m] \cup UNION {deltas'[m][q] : q \in AllPhases}
    BY <1>b DEF MessageInOrder
  <2>0. /\ \A ph \in AllPhases : \A i \in heard[m], j \in deltas[m][ph] : i < j
        /\ said[m] = heard[m] \cup UNION {deltas[m][q] : q \in AllPhases}
    BY <1>b DEF MessageInv, MessageInOrder
  <2>1. CASE m # x
    BY <2>1, <2>0, <1>a
  <2>2. CASE m = x
    <3>1. \A ph \in AllPhases : \A j \in deltas'[m][ph] : j = n \/ j \in deltas[m][ph]
      BY <2>2, <1>a
    <3>2. \A i \in heard[m] : i < n
      BY <1>b, <1>c, <1>e
    <3>3. said'[m] = heard[m] \cup UNION {deltas'[m][q] : q \in AllPhases}
      <4>a. \A q \in AllPhases : \A i : i \in deltas'[m][q] <=> i \in deltas[m][q] \/ (q = phase[m] /\ i = n)
        BY <2>2, <1>a
      <4>b. \A i : i \in said'[m] <=> i \in said[m] \/ i = n
        BY <2>2, <1>a
      <4>c. \A i : i \in said[m] <=> i \in heard[m] \/ \E q \in AllPhases : i \in deltas[m][q]
        BY <2>0
      <4>d. phase[m] \in AllPhases
        OBVIOUS
      <4>1. \A i \in said'[m] : i \in heard[m] \/ \E q \in AllPhases : i \in deltas'[m][q]
        BY ONLY <4>a, <4>b, <4>c, <4>d, Zenon
      <4>2. \A q \in AllPhases : deltas'[m][q] \subseteq said'[m]
        BY ONLY <4>a, <4>b, <4>c, Zenon
      <4>3. heard[m] \subseteq said'[m]
        BY <2>2, <2>0, <1>a, <1>b
      <4> QED BY <4>1, <4>2, <4>3
    <3> QED BY <3>1, <3>2, <3>3, <2>0
  <2> QED BY <2>1, <2>2
<1>3. MessageBeforeItsEnd'
  <2> SUFFICES ASSUME NEW m \in Messages, NEW ph \in AllPhases, NEW i \in deltas'[m][ph]
               PROVE  concluded[m] < i
    BY <1>b DEF MessageBeforeItsEnd
  <2>1. i = n \/ i \in deltas[m][ph]
    <3>1. CASE m = x
      <4>1. deltas'[m][ph] = IF ph = phase[x] THEN deltas[m][ph] \cup {n} ELSE deltas[m][ph]
        BY <3>1, <1>a
      <4> QED BY ONLY <4>1, i \in deltas'[m][ph]
    <3>2. CASE m # x
      BY <3>2, <1>a
    <3> QED BY <3>1, <3>2
  <2> QED BY <2>1, <1>d DEF MessageInv, MessageBeforeItsEnd
<1> QED BY <1>1, <1>2, <1>3 DEF MessageInv

LEMMA StartKeeps ==
  ASSUME StreamTypeOK, MessageInv, NEW x \in Messages, NEW p \in AllPhases, StartStep(x, p)
  PROVE  MessageInv'
<1> USE DEF StreamTypeOK, StartStep
<1>1. \A q \in AllPhases \ {None} : deltas[x][q] = {}
  BY DEF MessageInv, PhasesFollow
<1>2. PhasesFollow'
  BY <1>1 DEF MessageInv, PhasesFollow, AllPhases
<1>3. MessageInOrder' /\ MessageBeforeItsEnd'
  BY DEF MessageInv, MessageInOrder, MessageBeforeItsEnd
<1> QED BY <1>2, <1>3 DEF MessageInv

LEMMA EndKeeps ==
  ASSUME StreamTypeOK, MessageInv, EndStep
  PROVE  MessageInv'
<1> USE DEF StreamTypeOK
<1>0. PICK messages \in SUBSET Messages :
        /\ Emit(messages)
        /\ \A m \in Messages : phase'[m] = phase[m] \/ (m \in messages /\ phase'[m] = None)
        /\ \A m \in Messages \ messages : concluded'[m] = concluded[m]
        /\ UNCHANGED <<said, begun>>
  BY DEF EndStep
<1>a. \A m \in messages :
        /\ \A q \in AllPhases : deltas'[m][q] = {}
        /\ heard'[m] = heard[m] \cup UNION {deltas[m][q] : q \in AllPhases}
  BY <1>0 DEF Emit
<1>b. \A m \in Messages \ messages : deltas'[m] = deltas[m] /\ heard'[m] = heard[m] /\ phase'[m] = phase[m]
  BY <1>0 DEF Emit
<1>1. PhasesFollow'
  BY <1>0, <1>a, <1>b DEF MessageInv, PhasesFollow, AllPhases
<1>2. MessageInOrder'
  <2> SUFFICES ASSUME NEW m \in Messages
               PROVE  /\ \A ph \in AllPhases : \A i \in heard'[m], j \in deltas'[m][ph] : i < j
                      /\ said[m] = heard'[m] \cup UNION {deltas'[m][q] : q \in AllPhases}
    BY <1>0 DEF MessageInOrder
  <2>0. /\ \A ph \in AllPhases : \A i \in heard[m], j \in deltas[m][ph] : i < j
        /\ said[m] = heard[m] \cup UNION {deltas[m][q] : q \in AllPhases}
    BY DEF MessageInv, MessageInOrder, AllPhases
  <2>1. CASE m \in messages
    BY <2>1, <2>0, <1>a
  <2>2. CASE m \notin messages
    BY <2>2, <2>0, <1>b
  <2> QED BY <2>1, <2>2
<1>3. MessageBeforeItsEnd'
  BY <1>0, <1>a, <1>b DEF MessageInv, MessageBeforeItsEnd
<1> QED BY <1>1, <1>2, <1>3 DEF MessageInv

LEMMA TimerKeeps ==
  ASSUME StreamTypeOK, MessageInv, NEW x \in Messages, NEW p \in AllPhases, TimerStep(x, p)
  PROVE  MessageInv'
<1> USE DEF StreamTypeOK
<1>a. /\ deltas'[x][p] = {} /\ heard'[x] = heard[x] \cup deltas[x][p]
      /\ \A q \in AllPhases \ {p} : deltas'[x][q] = deltas[x][q]
      /\ \A m \in Messages \ {x} : deltas'[m] = deltas[m] /\ heard'[m] = heard[m]
  BY DEF TimerStep
<1>b. phase' = phase /\ said' = said /\ begun' = begun /\ concluded' = concluded
  BY DEF TimerStep
<1>c. \A q \in AllPhases \ {p} : \A i \in deltas[x][p], j \in deltas[x][q] : i < j
  <2> SUFFICES ASSUME NEW q \in AllPhases \ {p}, NEW i \in deltas[x][p], NEW j \in deltas[x][q]
               PROVE  i < j
    OBVIOUS
  <2>1. q \in {phase[x], None} /\ p \in {phase[x], None}
    BY DEF MessageInv, PhasesFollow
  <2>2. CASE p = None
    BY <2>1, <2>2 DEF MessageInv, PhasesFollow
  <2>3. CASE p # None
    <3>1. q = None /\ p = phase[x] /\ phase[x] # None
      BY <2>1, <2>3
    <3>2. \A k \in deltas[x][p] : j < k
      BY <3>1 DEF MessageInv, PhasesFollow
    <3>3. PICK k \in deltas[x][p] : k <= j
      BY DEF TimerStep, IsOldest
    <3>4. j \in Nat /\ k \in Nat
      OBVIOUS
    <3> QED BY <3>2, <3>3, <3>4
  <2> QED BY <2>2, <2>3
<1>1. PhasesFollow'
  BY <1>a, <1>b DEF MessageInv, PhasesFollow, AllPhases
<1>2. MessageInOrder'
  <2> SUFFICES ASSUME NEW m \in Messages
               PROVE  /\ \A ph \in AllPhases : \A i \in heard'[m], j \in deltas'[m][ph] : i < j
                      /\ said[m] = heard'[m] \cup UNION {deltas'[m][q] : q \in AllPhases}
    BY <1>b DEF MessageInOrder
  <2>0. /\ \A ph \in AllPhases : \A i \in heard[m], j \in deltas[m][ph] : i < j
        /\ said[m] = heard[m] \cup UNION {deltas[m][q] : q \in AllPhases}
    BY DEF MessageInv, MessageInOrder, AllPhases
  <2>1. CASE m # x
    BY <2>1, <2>0, <1>a
  <2>2. CASE m = x
    <3>1. \A ph \in AllPhases : \A i \in heard'[m], j \in deltas'[m][ph] : i < j
      BY <2>2, <2>0, <1>a, <1>c
    <3>2. said[m] = heard'[m] \cup UNION {deltas'[m][q] : q \in AllPhases}
      <4>a. \A i : i \in heard'[m] <=> i \in heard[m] \/ i \in deltas[m][p]
        BY <2>2, <1>a
      <4>b. \A i : i \in said[m] <=> i \in heard[m] \/ \E q \in AllPhases : i \in deltas[m][q]
        BY <2>0
      <4>c. \A q \in AllPhases : q # p => deltas'[m][q] = deltas[m][q]
        BY <2>2, <1>a
      <4>1. \A i \in said[m] : i \in heard'[m] \/ \E q \in AllPhases : i \in deltas'[m][q]
        BY ONLY <4>a, <4>b, <4>c, Zenon
      <4>2. \A q \in AllPhases : deltas'[m][q] \subseteq said[m]
        BY <2>2, <2>0, <1>a
      <4>3. heard'[m] \subseteq said[m]
        BY <2>2, <2>0, <1>a
      <4> QED BY <4>1, <4>2, <4>3
    <3> QED BY <3>1, <3>2
  <2> QED BY <2>1, <2>2
<1>3. MessageBeforeItsEnd'
  BY <1>a, <1>b DEF MessageInv, MessageBeforeItsEnd
<1> QED BY <1>1, <1>2, <1>3 DEF MessageInv

LEMMA SilentKeeps ==
  ASSUME MessageInv, Silent
  PROVE  MessageInv'
BY DEF Silent, service, MessageInv, PhasesFollow, MessageInOrder, MessageBeforeItsEnd, AllPhases

----------------------------------------------------------------------------
(* Every step is one of these. *)

\* The timer that fires next is that of the oldest batch.
LEMMA NextIsOldest ==
  ASSUME StreamTypeOK, TimerInv, NEW m \in Messages, NEW ph \in AllPhases, IsNext(m, ph)
  PROVE  IsOldest(m, ph)
<1> USE DEF StreamTypeOK
<1> DEFINE i == deltaTimers[m][ph]
<1>1. i # 0 /\ i \in deltas[m][ph]
  BY DEF IsNext, TimerInv, BatchesAreTimed, FirstDeltaTimed
<1>2. ASSUME NEW o \in Messages, NEW q \in AllPhases, NEW j \in deltas[o][q]
      PROVE  i <= j
  <2>1. deltaTimers[o][q] # 0 /\ deltaTimers[o][q] <= j
    BY <1>2 DEF TimerInv, BatchesAreTimed, FirstDeltaTimed
  <2>2. i <= deltaTimers[o][q]
    BY <2>1 DEF IsNext
  <2>3. i \in Nat /\ j \in Nat /\ deltaTimers[o][q] \in Nat
    OBVIOUS
  <2> HIDE DEF i
  <2> QED BY <2>1, <2>2, <2>3
<1> QED BY <1>1, <1>2 DEF IsOldest

Batching == (\E s \in Streams : FragmentStep(s)) \/ FlushStep

Speaking ==
  \/ \E m \in Messages : DeltaStep(m)
  \/ \E m \in Messages, ph \in AllPhases : StartStep(m, ph) \/ TimerStep(m, ph)
  \/ EndStep
  \/ Silent

\* A flush of these streams without an end.
LEMMA FlushOnly ==
  ASSUME StreamTypeOK, NEW streams \in SUBSET Streams, Flush(streams), received' = received, ended' = ended
  PROVE  FlushStep
BY DEF StreamTypeOK, FlushStep

LEMMA NothingFlushed ==
  ASSUME StreamTypeOK, UNCHANGED <<batcher, received, ended>>
  PROVE  FlushStep
<1>1. Flush({})
  BY DEF StreamTypeOK, batcher, Flush
<1> QED BY <1>1, FlushOnly

LEMMA StepShape ==
  ASSUME StreamTypeOK, TimerInv, [Next]_vars
  PROVE  Batching /\ Speaking
<1> USE DEF Batching, Speaking
<1>1. ASSUME NEW s \in Streams, Fragment(s)
      PROVE  Batching /\ Speaking
  <2>1. FragmentStep(s)
    BY <1>1 DEF Fragment, FragmentStep, marks
  <2>2. Silent
    BY <1>1 DEF Fragment, Silent, marks
  <2> QED BY <2>1, <2>2
<1>2. ASSUME NEW s \in Streams, BatchTimer(s)
      PROVE  Batching /\ Speaking
  <2>1. FlushStep
    BY <1>2, FlushOnly DEF BatchTimer, marks
  <2>2. Silent
    BY <1>2 DEF BatchTimer, Silent, marks
  <2> QED BY <2>1, <2>2
<1>3. ASSUME NEW m \in Messages, MessageDelta(m)
      PROVE  Batching /\ Speaking
  <2> DEFINE n == Notification("item/agentMessage/delta", m.source, m.thread, m.turn, m.item, None)
  <2>1. \A s \in Streams : ~Ends(n, s)
    BY DEF Ends, Notification
  <2>2. Precede(n)
    BY <1>3 DEF MessageDelta
  <2> HIDE DEF n
  <2>3. FlushStep
    BY <2>1, <2>2, PrecedeFlushes
  <2>4. DeltaStep(m)
    BY <1>3 DEF MessageDelta, DeltaStep, Precede
  <2> QED BY <2>3, <2>4
<1>4. ASSUME NEW m \in Messages, NEW ph \in AllPhases, MessageStarted(m, ph)
      PROVE  Batching /\ Speaking
  <2> DEFINE n == Notification("item/started", m.source, m.thread, m.turn, m.item, None)
  <2>1. \A s \in Streams : ~Ends(n, s)
    BY DEF Ends, Notification
  <2>2. Precede(n)
    BY <1>4 DEF MessageStarted
  <2> HIDE DEF n
  <2>3. FlushStep
    BY <2>1, <2>2, PrecedeFlushes
  <2>4. StartStep(m, ph)
    BY <1>4 DEF MessageStarted, StartStep
  <2> QED BY <2>3, <2>4
<1>5. ASSUME NEW m \in Messages, MessageCompleted(m)
      PROVE  Batching /\ Speaking
  <2> DEFINE n == Notification("item/completed", m.source, m.thread, m.turn, m.item, None)
  <2>1. m \in Message
    BY StreamsAssumption
  <2>2. \A s \in Streams : Ends(n, s) => FlushedBefore(n, s)
    BY <2>1, StreamsAssumption DEF Message, Ends, FlushedBefore, Notification
  <2>3. Precede(n)
    BY <1>5 DEF MessageCompleted
  <2> HIDE DEF n
  <2>4. FlushStep
    BY <2>2, <2>3, PrecedeFlushes
  <2>5. EndStep
    <3>1. {m} \in SUBSET Messages /\ Emit({m}) /\ UNCHANGED <<said, begun>>
      BY <1>5 DEF MessageCompleted
    <3>2. \A o \in Messages : phase'[o] = phase[o] \/ (o \in {m} /\ phase'[o] = None)
      BY <1>5 DEF MessageCompleted, StreamTypeOK
    <3>3. \A o \in Messages \ {m} : concluded'[o] = concluded[o]
      BY <1>5 DEF MessageCompleted, StreamTypeOK
    <3> QED BY <3>1, <3>2, <3>3 DEF EndStep
  <2> QED BY <2>4, <2>5
<1>6. ASSUME NEW m \in Messages, NEW ph \in AllPhases, DeltaTimer(m, ph)
      PROVE  Batching /\ Speaking
  <2>1. FlushStep
    BY <1>6, NothingFlushed DEF DeltaTimer, marks
  <2>2. TimerStep(m, ph)
    BY <1>6, NextIsOldest DEF DeltaTimer, TimerStep, marks
  <2> QED BY <2>1, <2>2
<1>7. ASSUME NEW c \in Sources, NEW thread \in Threads, NEW turn \in Turns, TurnStarted(c, thread, turn)
      PROVE  Batching /\ Speaking
  <2> DEFINE n == Notification("turn/started", c, thread, turn, None, None)
  <2>1. \A s \in Streams : ~Ends(n, s)
    BY DEF Ends, Notification
  <2>2. Precede(n)
    BY <1>7 DEF TurnStarted
  <2> HIDE DEF n
  <2>3. FlushStep
    BY <2>1, <2>2, PrecedeFlushes
  <2>4. Silent
    BY <1>7 DEF TurnStarted, Silent
  <2> QED BY <2>3, <2>4
<1>8. ASSUME NEW c \in Sources, NEW thread \in Threads, NEW turn \in Turns, TurnCompleted(c, thread, turn)
      PROVE  Batching /\ Speaking
  <2> DEFINE n == Notification("turn/completed", c, thread, turn, None, None)
             messages == MessagesOfTurn(c, thread, turn)
  <2>2. \A s \in Streams : Ends(n, s) => FlushedBefore(n, s)
    BY StreamsAssumption DEF Ends, FlushedBefore, Notification
  <2>3. Precede(n)
    BY <1>8 DEF TurnCompleted
  <2> HIDE DEF n
  <2>4. FlushStep
    BY <2>2, <2>3, PrecedeFlushes
  <2>5. EndStep
    <3>1. messages \in SUBSET Messages
      BY DEF MessagesOfTurn
    <3>2. Emit(messages) /\ UNCHANGED <<phase, said, begun>>
      BY <1>8 DEF TurnCompleted
    <3>3. \A o \in Messages \ messages : concluded'[o] = concluded[o]
      BY <1>8 DEF TurnCompleted
    <3> HIDE DEF messages
    <3> QED BY <3>1, <3>2, <3>3 DEF EndStep
  <2> QED BY <2>4, <2>5
<1>9. ASSUME NEW c \in Sources, NEW thread \in Threads, NEW turn \in Turns, NEW item \in Items,
             ItemCompleted(c, thread, turn, item)
      PROVE  Batching /\ Speaking
  <2> DEFINE n == Notification("item/completed", c, thread, turn, item, None)
  <2>2. \A s \in Streams : Ends(n, s) => FlushedBefore(n, s)
    BY StreamsAssumption DEF Ends, FlushedBefore, Notification
  <2>3. Precede(n)
    BY <1>9 DEF ItemCompleted
  <2> HIDE DEF n
  <2>4. FlushStep
    BY <2>2, <2>3, PrecedeFlushes
  <2>5. Silent
    BY <1>9 DEF ItemCompleted, Silent
  <2> QED BY <2>4, <2>5
<1>10. ASSUME NEW c \in Sources, NEW thread \in Threads, NEW method, ThreadNotification(c, thread, method)
       PROVE  Batching /\ Speaking
  <2> DEFINE n == Notification(method, c, thread, None, None, None)
  <2>2. \A s \in Streams : Ends(n, s) => FlushedBefore(n, s)
    BY <1>10, StreamsAssumption DEF Ends, FlushedBefore, Notification, ThreadNotification
  <2>3. Precede(n)
    BY <1>10 DEF ThreadNotification
  <2> HIDE DEF n
  <2>4. FlushStep
    BY <2>2, <2>3, PrecedeFlushes
  <2>5. Silent
    BY <1>10 DEF ThreadNotification, Silent
  <2> QED BY <2>4, <2>5
<1>11. ASSUME NEW c \in Sources, NEW process \in Handles, ProcessExited(c, process)
       PROVE  Batching /\ Speaking
  <2> DEFINE n == Notification("process/exited", c, None, None, None, process)
  <2>2. \A s \in Streams : Ends(n, s) => FlushedBefore(n, s)
    BY DEF Ends, FlushedBefore, Notification
  <2>3. Precede(n)
    BY <1>11 DEF ProcessExited
  <2> HIDE DEF n
  <2>4. FlushStep
    BY <2>2, <2>3, PrecedeFlushes
  <2>5. Silent
    BY <1>11 DEF ProcessExited, Silent
  <2> QED BY <2>4, <2>5
<1>12. ASSUME NEW c \in Sources, ClientClose(c)
       PROVE  Batching /\ Speaking
  <2> DEFINE streams == {s \in Streams : s.source = c}
  <2>1. Flush(streams) /\ streams \in SUBSET Streams
    BY <1>12 DEF ClientClose
  <2>2. received' \in Nat /\ received <= received'
    BY <1>12 DEF ClientClose, StreamTypeOK
  <2>3. ended' \in [Streams -> Nat] /\ \A s \in Streams : ended'[s] = ended[s] \/ (s \in streams /\ ended'[s] = received')
    BY <1>12, <2>2 DEF ClientClose, StreamTypeOK
  <2> HIDE DEF streams
  <2>4. FlushStep
    BY <2>1, <2>2, <2>3 DEF FlushStep
  <2>5. Silent
    BY <1>12 DEF ClientClose, Silent
  <2> QED BY <2>4, <2>5
<1>13. CASE Dispose
  <2>1. FlushStep
    BY <1>13, FlushOnly DEF Dispose, marks
  <2>2. Silent
    BY <1>13 DEF Dispose, Silent, marks
  <2> QED BY <2>1, <2>2
<1>14. CASE UNCHANGED vars
  <2>1. FlushStep
    BY <1>14, NothingFlushed DEF vars, marks
  <2>2. Silent
    BY <1>14 DEF vars, Silent, marks
  <2> QED BY <2>1, <2>2
<1> QED BY <1>1, <1>2, <1>3, <1>4, <1>5, <1>6, <1>7, <1>8, <1>9, <1>10, <1>11, <1>12, <1>13, <1>14 DEF Next

----------------------------------------------------------------------------
(* Types and numbers. *)

LEMMA TypeInductive ==
  ASSUME StreamTypeOK, [Next]_vars
  PROVE  StreamTypeOK'
<1> USE DEF StreamTypeOK
<1>n. received + 1 \in Nat
  OBVIOUS
<1>p. \A m \in Messages, ph \in AllPhases : phase[m] \in AllPhases /\ None \in AllPhases
  BY DEF AllPhases
<1>1. ASSUME NEW s \in Streams, Fragment(s)
      PROVE  StreamTypeOK'
  BY <1>1, <1>n DEF Fragment, TimersAfterFragment, TimerOf, service, marks
<1>2. ASSUME NEW s \in Streams, BatchTimer(s)
      PROVE  StreamTypeOK'
  BY <1>2 DEF BatchTimer, Flush, service, marks
<1>3. ASSUME NEW n, Precede(n)
      PROVE  /\ received' \in Nat /\ pending' \in [Streams -> SUBSET Nat] /\ timers' \in [Streams -> Nat]
             /\ shown' \in [Streams -> SUBSET Nat]
             /\ fragments' = fragments /\ superseded' = superseded
             /\ ended' \in [Streams -> Nat]
  BY <1>3, <1>n DEF Precede, Flush
<1>4. ASSUME NEW messages, Emit(messages)
      PROVE  /\ deltas' \in [Messages -> [AllPhases -> SUBSET Nat]] /\ heard' \in [Messages -> SUBSET Nat]
             /\ deltaTimers' \in [Messages -> [AllPhases -> Nat]]
  BY <1>4 DEF Emit
<1>5. ASSUME NEW m \in Messages, MessageDelta(m)
      PROVE  StreamTypeOK'
  <2>1. deltas' \in [Messages -> [AllPhases -> SUBSET Nat]] /\ said' \in [Messages -> SUBSET Nat]
    BY <1>5, <1>n DEF MessageDelta
  <2>2. deltaTimers' \in [Messages -> [AllPhases -> Nat]]
    BY <1>5, <1>n DEF MessageDelta
  <2> QED BY <1>5, <1>3, <2>1, <2>2 DEF MessageDelta
<1>6. ASSUME NEW m \in Messages, NEW ph \in AllPhases, MessageStarted(m, ph)
      PROVE  StreamTypeOK'
  BY <1>6, <1>3 DEF MessageStarted
<1>7. ASSUME NEW m \in Messages, MessageCompleted(m)
      PROVE  StreamTypeOK'
  BY <1>7, <1>3, <1>4, <1>n, <1>p DEF MessageCompleted
<1>8. ASSUME NEW m \in Messages, NEW ph \in AllPhases, DeltaTimer(m, ph)
      PROVE  StreamTypeOK'
  BY <1>8 DEF DeltaTimer, batcher, marks
<1>9. ASSUME NEW c \in Sources, NEW thread \in Threads, NEW turn \in Turns, TurnStarted(c, thread, turn)
      PROVE  StreamTypeOK'
  BY <1>9, <1>3 DEF TurnStarted, service
<1>10. ASSUME NEW c \in Sources, NEW thread \in Threads, NEW turn \in Turns, TurnCompleted(c, thread, turn)
       PROVE  StreamTypeOK'
  BY <1>10, <1>3, <1>4 DEF TurnCompleted
<1>11. ASSUME NEW c, NEW thread, NEW turn, NEW item, ItemCompleted(c, thread, turn, item)
       PROVE  StreamTypeOK'
  BY <1>11, <1>3 DEF ItemCompleted, service
<1>12. ASSUME NEW c, NEW thread, NEW method, ThreadNotification(c, thread, method)
       PROVE  StreamTypeOK'
  BY <1>12, <1>3 DEF ThreadNotification, service
<1>13. ASSUME NEW c, NEW process, ProcessExited(c, process)
       PROVE  StreamTypeOK'
  BY <1>13, <1>3 DEF ProcessExited, service
<1>14. ASSUME NEW c \in Sources, ClientClose(c)
       PROVE  StreamTypeOK'
  BY <1>14, <1>n DEF ClientClose, Flush, service
<1>15. CASE Dispose
  BY <1>15 DEF Dispose, Flush, service, marks
<1>16. CASE UNCHANGED vars
  BY <1>16 DEF vars, batcher, service, marks
<1> QED BY <1>1, <1>2, <1>5, <1>6, <1>7, <1>8, <1>9, <1>10, <1>11, <1>12, <1>13, <1>14, <1>15, <1>16 DEF Next

NumbersGrow ==
  /\ received <= received'
  /\ \A s \in Streams : ended'[s] \in {ended[s], received'} /\ fragments'[s] \subseteq fragments[s] \cup {received'}
  /\ \A m \in Messages : concluded'[m] \in {concluded[m], received'} /\ said'[m] \subseteq said[m] \cup {received'}

LEMMA StepNumbers ==
  ASSUME StreamTypeOK, [Next]_vars
  PROVE  NumbersGrow
<1> USE DEF StreamTypeOK, NumbersGrow
<1>1. ASSUME NEW s \in Streams, Fragment(s)
      PROVE  NumbersGrow
  BY <1>1 DEF Fragment, service, marks
<1>2. ASSUME NEW s \in Streams, BatchTimer(s)
      PROVE  NumbersGrow
  BY <1>2 DEF BatchTimer, Flush, service, marks
<1>3. ASSUME NEW n, Precede(n)
      PROVE  /\ received' = received + 1 /\ fragments' = fragments
             /\ \A s \in Streams : ended'[s] \in {ended[s], received'}
  BY <1>3 DEF Precede, Flush
<1>5. ASSUME NEW m \in Messages, MessageDelta(m)
      PROVE  NumbersGrow
  BY <1>5, <1>3 DEF MessageDelta
<1>6. ASSUME NEW m \in Messages, NEW ph \in AllPhases, MessageStarted(m, ph)
      PROVE  NumbersGrow
  BY <1>6, <1>3 DEF MessageStarted
<1>7. ASSUME NEW m \in Messages, MessageCompleted(m)
      PROVE  NumbersGrow
  BY <1>7, <1>3 DEF MessageCompleted
<1>8. ASSUME NEW m \in Messages, NEW ph \in AllPhases, DeltaTimer(m, ph)
      PROVE  NumbersGrow
  BY <1>8 DEF DeltaTimer, batcher, marks
<1>9. ASSUME NEW c, NEW thread, NEW turn, TurnStarted(c, thread, turn)
      PROVE  NumbersGrow
  BY <1>9, <1>3 DEF TurnStarted, service
<1>10. ASSUME NEW c, NEW thread, NEW turn, TurnCompleted(c, thread, turn)
       PROVE  NumbersGrow
  BY <1>10, <1>3 DEF TurnCompleted
<1>11. ASSUME NEW c, NEW thread, NEW turn, NEW item, ItemCompleted(c, thread, turn, item)
       PROVE  NumbersGrow
  BY <1>11, <1>3 DEF ItemCompleted, service
<1>12. ASSUME NEW c, NEW thread, NEW method, ThreadNotification(c, thread, method)
       PROVE  NumbersGrow
  BY <1>12, <1>3 DEF ThreadNotification, service
<1>13. ASSUME NEW c, NEW process, ProcessExited(c, process)
       PROVE  NumbersGrow
  BY <1>13, <1>3 DEF ProcessExited, service
<1>14. ASSUME NEW c \in Sources, ClientClose(c)
       PROVE  NumbersGrow
  BY <1>14 DEF ClientClose, Flush, service
<1>15. CASE Dispose
  BY <1>15 DEF Dispose, Flush, service, marks
<1>16. CASE UNCHANGED vars
  BY <1>16 DEF vars, batcher, service, marks
<1> QED BY <1>1, <1>2, <1>5, <1>6, <1>7, <1>8, <1>9, <1>10, <1>11, <1>12, <1>13, <1>14, <1>15, <1>16 DEF Next

LEMMA NumberedInductive ==
  ASSUME StreamTypeOK, StreamTypeOK', Numbered, NumbersGrow
  PROVE  Numbered'
<1>1. received \in Nat /\ received' \in Nat /\ received <= received'
  BY DEF StreamTypeOK, NumbersGrow
<1>2. ASSUME NEW s \in Streams
      PROVE  ended'[s] <= received' /\ \A i \in fragments'[s] : i <= received'
  <2>1. ended[s] \in Nat /\ ended[s] <= received /\ \A i \in fragments[s] : i \in Nat /\ i <= received
    BY DEF StreamTypeOK, Numbered
  <2>2. ended'[s] \in {ended[s], received'} /\ \A i \in fragments'[s] : i \in fragments[s] \/ i = received'
    BY DEF NumbersGrow
  <2> QED BY ONLY <1>1, <2>1, <2>2
<1>3. ASSUME NEW m \in Messages
      PROVE  concluded'[m] <= received' /\ \A i \in said'[m] : i <= received'
  <2>1. concluded[m] \in Nat /\ concluded[m] <= received /\ \A i \in said[m] : i \in Nat /\ i <= received
    BY DEF StreamTypeOK, Numbered
  <2>2. concluded'[m] \in {concluded[m], received'} /\ \A i \in said'[m] : i \in said[m] \/ i = received'
    BY DEF NumbersGrow
  <2> QED BY ONLY <1>1, <2>1, <2>2
<1> QED BY <1>2, <1>3 DEF Numbered

----------------------------------------------------------------------------
(* The timers. *)

\* A fragment, a flush and whatever happens to the deltas keep one timer for
\* each batch.
LEMMA TimersKept ==
  ASSUME StreamTypeOK, Numbered, MessageInv, TimerInv, Batching, Speaking
  PROVE  TimerInv'
<1> USE DEF StreamTypeOK
<1>n. received \in Nat /\ received + 1 \in Nat /\ received + 1 # 0
  OBVIOUS
<1>1. \A s \in Streams : timers'[s] = 0 <=> pending'[s] = {}
  <2>0. \A s \in Streams : timers[s] = 0 <=> pending[s] = {}
    BY DEF TimerInv, BatchesAreTimed
  <2>1. CASE \E s \in Streams : FragmentStep(s)
    <3> PICK s \in Streams : FragmentStep(s)
      BY <2>1
    <3>1. timers'[s] # 0 /\ pending'[s] # {}
      BY <1>n, <2>0 DEF FragmentStep, TimersAfterFragment, TimerOf
    <3>2. \A t \in Streams \ {s} :
            \/ timers'[t] = 0 /\ pending'[t] = {}
            \/ timers'[t] = timers[t] /\ pending'[t] = pending[t]
      BY DEF FragmentStep, TimersAfterFragment
    <3> QED BY <3>1, <3>2, <2>0
  <2>2. CASE FlushStep
    BY <2>0, <2>2 DEF FlushStep, Flush
  <2> QED BY <2>1, <2>2 DEF Batching
<1>2. ASSUME NEW m \in Messages, NEW ph \in AllPhases
      PROVE  /\ deltaTimers'[m][ph] = 0 <=> deltas'[m][ph] = {}
             /\ deltas'[m][ph] # {} => deltaTimers'[m][ph] \in deltas'[m][ph]
             /\ \A i \in deltas'[m][ph] : deltaTimers'[m][ph] <= i
  <2>0. /\ deltaTimers[m][ph] = 0 <=> deltas[m][ph] = {}
        /\ deltas[m][ph] # {} => deltaTimers[m][ph] \in deltas[m][ph]
        /\ \A i \in deltas[m][ph] : deltaTimers[m][ph] <= i
    BY DEF TimerInv, BatchesAreTimed, FirstDeltaTimed
  <2> DEFINE Change ==
        \/ deltaTimers'[m][ph] = deltaTimers[m][ph] /\ deltas'[m][ph] = deltas[m][ph]
        \/ deltaTimers'[m][ph] = 0 /\ deltas'[m][ph] = {}
        \/ /\ deltas'[m][ph] = deltas[m][ph] \cup {received + 1}
           /\ deltaTimers'[m][ph] = IF deltas[m][ph] = {} THEN received + 1 ELSE deltaTimers[m][ph]
  <2>1. Change
    <3>1. ASSUME NEW o \in Messages, DeltaStep(o)
          PROVE  Change
      <4>1. CASE o = m /\ phase[m] = ph
        BY <3>1, <4>1 DEF DeltaStep
      <4>2. CASE ~(o = m /\ phase[m] = ph)
        BY <3>1, <4>2 DEF DeltaStep
      <4> QED BY <4>1, <4>2
    <3>2. ASSUME NEW o \in Messages, NEW q \in AllPhases, StartStep(o, q)
          PROVE  Change
      BY <3>2 DEF StartStep
    <3>3. ASSUME NEW o \in Messages, NEW q \in AllPhases, TimerStep(o, q)
          PROVE  Change
      <4>1. CASE o = m /\ q = ph
        BY <3>3, <4>1 DEF TimerStep
      <4>2. CASE ~(o = m /\ q = ph)
        BY <3>3, <4>2 DEF TimerStep
      <4> QED BY <4>1, <4>2
    <3>4. CASE EndStep
      BY <3>4 DEF EndStep, Emit
    <3>5. CASE Silent
      BY <3>5 DEF Silent, service
    <3> QED BY <3>1, <3>2, <3>3, <3>4, <3>5 DEF Speaking
  <2>2. \A i \in deltas[m][ph] : i \in Nat /\ i <= received
    BY DEF Numbered, MessageInv, MessageInOrder
  <2>3. deltaTimers[m][ph] \in Nat
    OBVIOUS
  <2> QED BY ONLY <1>n, <2>0, <2>1, <2>2, <2>3
<1> QED BY <1>1, <1>2 DEF TimerInv, BatchesAreTimed, FirstDeltaTimed

----------------------------------------------------------------------------
(* The theorems. *)

StreamInv == StreamTypeOK /\ Numbered /\ BatchInv /\ MessageInv /\ TimerInv

LEMMA InitInv ==
  ASSUME Init
  PROVE  StreamInv
<1>0. None \in AllPhases
  BY DEF AllPhases
<1>1. StreamTypeOK
  BY <1>0 DEF Init, StreamTypeOK
<1>2. Numbered /\ BatchInv
  BY DEF Init, Numbered, BatchInv, OneStreamWaits, OwnersInOrder, NothingLost, BoundariesFollow
<1>3. PhasesFollow /\ MessageBeforeItsEnd
  BY DEF Init, PhasesFollow, MessageBeforeItsEnd, AllPhases
<1>4. MessageInOrder
  BY DEF Init, MessageInOrder
<1>5. TimerInv
  BY DEF Init, TimerInv, BatchesAreTimed, FirstDeltaTimed
<1> QED BY <1>1, <1>2, <1>3, <1>4, <1>5 DEF StreamInv, MessageInv

LEMMA NextInv ==
  ASSUME StreamInv, [Next]_vars
  PROVE  StreamInv'
<1>0. StreamTypeOK /\ Numbered /\ BatchInv /\ MessageInv /\ TimerInv
  BY DEF StreamInv
<1>1. StreamTypeOK' /\ Numbered'
  BY <1>0, TypeInductive, StepNumbers, NumberedInductive
<1>2. Batching /\ Speaking
  BY <1>0, StepShape
<1>3. BatchInv'
  BY <1>0, <1>2, FragmentKeeps, FlushKeeps DEF Batching
<1>4. MessageInv'
  BY <1>0, <1>2, DeltaKeeps, StartKeeps, EndKeeps, TimerKeeps, SilentKeeps DEF Speaking
<1>5. TimerInv'
  BY <1>0, <1>2, TimersKept
<1> QED BY <1>1, <1>3, <1>4, <1>5 DEF StreamInv

\* The inductive invariant of the module.
THEOREM StreamSafety == Spec => []StreamInv
<1>1. Init => StreamInv
  BY InitInv
<1>2. StreamInv /\ [Next]_vars => StreamInv'
  BY NextInv
<1> QED BY <1>1, <1>2, PTL DEF Spec

\* Values stay in their domains.
THEOREM StreamTypes == Spec => []StreamTypeOK
<1>1. StreamInv => StreamTypeOK
  BY DEF StreamInv
<1> QED BY <1>1, StreamSafety, PTL

\* The fragments of one item, turn or process are processed in the order they
\* arrived, across its segments and outputs.
THEOREM StreamOrder == Spec => []OwnersInOrder
<1>1. StreamInv => OwnersInOrder
  BY DEF StreamInv, BatchInv
<1> QED BY <1>1, StreamSafety, PTL

\* Every fragment is processed once or replaced by a newer snapshot.
THEOREM StreamConservation == Spec => []NothingLost
<1>1. StreamInv => NothingLost
  BY DEF StreamInv, BatchInv
<1> QED BY <1>1, StreamSafety, PTL

\* No fragment is processed after the end of what it belongs to.
THEOREM StreamBoundaries == Spec => []BoundariesFollow
<1>1. StreamInv => BoundariesFollow
  BY DEF StreamInv, BatchInv
<1> QED BY <1>1, StreamSafety, PTL

\* The window is given the deltas of a message once and in order.
THEOREM MessageOrder == Spec => []MessageInOrder
<1>1. StreamInv => MessageInOrder
  BY DEF StreamInv, MessageInv
<1> QED BY <1>1, StreamSafety, PTL

\* No delta waits once its message or turn has been completed.
THEOREM MessageEnds == Spec => []MessageBeforeItsEnd
<1>1. StreamInv => MessageBeforeItsEnd
  BY DEF StreamInv, MessageInv
<1> QED BY <1>1, StreamSafety, PTL

\* Whatever waits has its own timer running, and no timer runs for nothing.
THEOREM StreamTimers == Spec => []BatchesAreTimed
<1>1. StreamInv => BatchesAreTimed
  BY DEF StreamInv, TimerInv
<1> QED BY <1>1, StreamSafety, PTL
=============================================================================
