--------------------------- MODULE DiscardingPad ---------------------------
(***************************************************************************)
(* _PadDiscardingOld of actfw_core (util/pad.py) when its owner calls put  *)
(* from several threads, which the comment in put allows, and one reader   *)
(* gets.  A put is two operations on a Queue(1): a get that does not block *)
(* and whose Empty is ignored, then a put.  The pads of Pipeline have one  *)
(* thread each that puts.                                                  *)
(*                                                                         *)
(* A definition that stands before another one and is named after it and a *)
(* slip is a mistake the code could contain.  It is no part of the         *)
(* specification.                                                          *)
(***************************************************************************)
EXTENDS Naturals

CONSTANTS
  Putter,    \* the threads of the owner
  MaxPut     \* bound: the puts that are made

ASSUME Parameters == MaxPut \in Nat

VARIABLES
  full,      \* the Queue(1) holds an item
  pc,        \* where each putter is
  calls,     \* how many puts have been called
  made,      \* history: how many puts have put their item
  mark,      \* history: how many had when each putter emptied the queue
  kept       \* history: an item was put that the reader has not asked for since

vars == <<full, pc, calls, made, mark, kept>>

TypeOK ==
  /\ full \in BOOLEAN
  /\ pc \in [Putter -> {"idle", "discard", "put"}]
  /\ calls \in Nat
  /\ made \in Nat
  /\ mark \in [Putter -> Nat]
  /\ kept \in BOOLEAN

Init ==
  /\ full = FALSE
  /\ pc = [p \in Putter |-> "idle"]
  /\ calls = 0
  /\ made = 0
  /\ mark = [p \in Putter |-> 0]
  /\ kept = FALSE

Goto(p, from, to) == pc[p] = from /\ pc' = [pc EXCEPT ![p] = to]

Call(p) ==
  /\ calls < MaxPut
  /\ Goto(p, "idle", "discard")
  /\ calls' = calls + 1
  /\ UNCHANGED <<full, made, mark, kept>>

\* self.get(block=False): the old item goes, if there is one.
DiscardTo(p, left) ==
  /\ Goto(p, "discard", "put")
  /\ full' = left
  /\ mark' = [mark EXCEPT ![p] = made]
  /\ UNCHANGED <<calls, made, kept>>

DiscardNothing(p) == DiscardTo(p, full)

Discard(p) == DiscardTo(p, FALSE)

\* self._queue.put(item, ...) waits for room ...
Put(p) ==
  /\ Goto(p, "put", "idle")
  /\ ~ full
  /\ full' = TRUE
  /\ made' = made + 1
  /\ kept' = TRUE
  /\ UNCHANGED <<calls, mark>>

\* ... and raises Full when there is none at the end of its timeout.
PutFullIf(p, noRoom) ==
  /\ Goto(p, "put", "idle")
  /\ noRoom
  /\ UNCHANGED <<full, calls, made, mark, kept>>

\* The slip: the put gives up at the first contention.
PutGivesUp(p) == PutFullIf(p, \E q \in Putter \ {p} : pc[q] # "idle")

PutFull(p) == PutFullIf(p, full)

\* The reader's get: takes the item, or raises Empty.
Get ==
  /\ full' = FALSE
  /\ kept' = FALSE
  /\ UNCHANGED <<pc, calls, made, mark>>

Next == Get \/ \E p \in Putter : Call(p) \/ Discard(p) \/ Put(p) \/ PutFull(p)

Spec == Init /\ [][Next]_vars

-----------------------------------------------------------------------------
(* Properties *)

\* A put finds the slot taken only when another put came in between, since it
\* threw the old item away itself: an item that was there when the put was called
\* never holds it up, and a single thread that puts is never held up
\* (test_pad_has_the_last_one_element).
FullOnlyByRace == \A p \in Putter : pc[p] = "put" /\ full => made > mark[p]

\* Discarding the old item loses no more than the old item: when no put is under
\* way and the reader has not asked since the last one, there is an item in the
\* pad, whatever puts met and whichever of them raised Full.
KeepsOne == kept /\ (\A p \in Putter : pc[p] = "idle" \/ pc[p] = "discard") => full
=============================================================================
