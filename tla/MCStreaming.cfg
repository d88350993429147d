\* Streams of one thread and of two processes, with a message.
CONSTANTS
  src1 = src1
  src2 = src2
  thr = thr
  trn = trn
  reasoning = reasoning
  answer = answer
  proc = proc
  ch1 = ch1
  ch2 = ch2
  None = None
  Sources = {src1, src2}
  Threads = {thr}
  Turns = {trn}
  Items = {reasoning, answer}
  Handles = {proc}
  Channels = {ch1, ch2}
  Phases = {"final"}
  Streams <- MCStreams
  Messages <- MCMessages
  MaxReceived = 4
SPECIFICATION FairSpec
INVARIANTS OwnersInOrder NothingLost BoundariesFollow MessageInOrder MessageBeforeItsEnd BatchesAreTimed
PROPERTY EverythingShown
CHECK_DEADLOCK FALSE
