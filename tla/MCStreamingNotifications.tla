----------------------- MODULE MCStreamingNotifications -----------------------
(* Two segments of a reasoning item, the diff of its turn, an output of a    *)
(* process under the same handle at two sources, and an assistant message.   *)
EXTENDS StreamingNotifications

CONSTANTS src1, src2, thr, trn, reasoning, answer, proc, ch1, ch2

OfThread(item, channel, mode) ==
  [source |-> src1, thread |-> thr, turn |-> trn, item |-> item, process |-> None, channel |-> channel, mode |-> mode]
OfProcess(src) ==
  [source |-> src, thread |-> None, turn |-> None, item |-> None, process |-> proc, channel |-> ch1, mode |-> "append"]

MCStreams ==
  {OfThread(reasoning, ch1, "append"), OfThread(reasoning, ch2, "append"), OfThread(None, ch1, "replace"),
   OfProcess(src1), OfProcess(src2)}
MCMessages == {[source |-> src1, thread |-> thr, turn |-> trn, item |-> answer]}
=============================================================================
