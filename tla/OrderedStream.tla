---------------------------- MODULE OrderedStream ----------------------------
(***************************************************************************)
(* What AsyncDetectionPipeline promises its callers, with no slots,        *)
(* workers or locks: a queue.  Frames enter in commit order; each leaves   *)
(* exactly once, in the same order, as one result whose detections and     *)
(* geometry both belong to that frame, or as that frame's failure.  After  *)
(* Close nothing enters and a reader is told the end only once the queue   *)
(* is empty.  Only an abort (the destructor) loses frames, and then only   *)
(* from the back: what is still delivered is still in order.               *)
(***************************************************************************)
EXTENDS Naturals, Sequences

CONSTANTS Readers, Frames, NoFrame

VARIABLES queue,      \* frames committed and not delivered, oldest first
          closed,     \* no more frames
          aborted,    \* frames may be abandoned
          handed,     \* handed[r]: what reader r's call is about to return
          geometry    \* letterbox geometry of the last delivered result

vars == <<queue, closed, aborted, handed, geometry>>

Nothing == [dets |-> NoFrame, lb |-> NoFrame, ok |-> FALSE]
TheEnd  == [dets |-> NoFrame, lb |-> NoFrame, ok |-> TRUE]
Outcome(f, ok) == [dets |-> f, lb |-> f, ok |-> ok]

Init ==
  /\ queue = <<>>
  /\ closed = FALSE /\ aborted = FALSE
  /\ handed = [r \in Readers |-> Nothing]
  /\ geometry = NoFrame

Push(f) ==
  /\ ~closed
  /\ queue' = Append(queue, f)
  /\ UNCHANGED <<closed, aborted, handed, geometry>>

Pop(r, ok) ==
  /\ queue # <<>>
  /\ handed[r] = Nothing
  /\ handed' = [handed EXCEPT ![r] = Outcome(Head(queue), ok)]
  /\ geometry' = Head(queue)
  /\ queue' = Tail(queue)
  /\ UNCHANGED <<closed, aborted>>

End(r) ==
  /\ (closed /\ queue = <<>>) \/ aborted
  /\ handed[r] = Nothing
  /\ handed' = [handed EXCEPT ![r] = TheEnd]
  /\ UNCHANGED <<queue, closed, aborted, geometry>>

Return(r) ==
  /\ handed[r] # Nothing
  /\ handed' = [handed EXCEPT ![r] = Nothing]
  /\ UNCHANGED <<queue, closed, aborted, geometry>>

Close ==
  /\ closed' = TRUE
  /\ UNCHANGED <<queue, aborted, handed, geometry>>

Abort ==
  /\ closed' = TRUE /\ aborted' = TRUE
  /\ UNCHANGED <<queue, handed, geometry>>

Abandon ==
  /\ aborted
  /\ \E n \in 0 .. Len(queue) : queue' = SubSeq(queue, 1, n)
  /\ UNCHANGED <<closed, aborted, handed, geometry>>

Next ==
  \/ \E f \in Frames : Push(f)
  \/ \E r \in Readers : (\E ok \in BOOLEAN : Pop(r, ok)) \/ End(r) \/ Return(r)
  \/ Close \/ Abort \/ Abandon

Spec == Init /\ [][Next]_vars
=============================================================================
