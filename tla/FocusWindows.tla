---------------------------- MODULE FocusWindows ----------------------------
(***************************************************************************)
(* The focus windows of AutoFocuserBase of actfw_core (autofocus.py): the  *)
(* application sets them with set_focus_windows while the thread of the    *)
(* capture computes from them the weights of the phase and the contrast    *)
(* statistics, and divides by their sum (__get_phase, __get_contrast,      *)
(* __compute_weights).  There is no lock.                                  *)
(*                                                                         *)
(* A weight array and its sum are modelled by the windows that were added  *)
(* to them, in order; no window, the sum is 0.                             *)
(*                                                                         *)
(* A definition that stands before another one and is named after it and a *)
(* slip is a mistake the code could contain.  It is no part of the         *)
(* specification.                                                          *)
(***************************************************************************)
EXTENDS Integers, Sequences

CONSTANTS
  Window,      \* the windows the application may set
  MaxWindows,  \* MAX_WINDOWS
  MaxCalls     \* bound: the calls of set_focus_windows

Kind == {"phase", "contrast"}   \* self.phaseWeights, self.contrastWeights
Centre == <<"centre">>          \* the weights without a window: the middle cells

VARIABLES
  windows,  \* self.windows
  app,      \* where set_focus_windows is
  given,    \* the windows it has still to append
  calls,    \* how often it was called
  w,        \* the weights of each kind
  sum,      \* and their sum
  pc,       \* where the capture thread is
  kind,     \* the weights it works on
  next,     \* the index of its loop over the windows
  read,     \* what it has read of the sum to add to it
  hit       \* history: those were invalidated since it began to compute or use them

user == <<windows, app, given, calls>>
task == <<pc, kind, next, read>>
vars == <<user, w, sum, task, hit>>

Init ==
  /\ windows = << >>
  /\ app = "idle"
  /\ given = << >>
  /\ calls = 0
  /\ w = [k \in Kind |-> << >>]
  /\ sum = [k \in Kind |-> << >>]
  /\ pc = "idle"
  /\ kind \in Kind
  /\ next = 1
  /\ read = << >>
  /\ hit = [k \in Kind |-> FALSE]

-----------------------------------------------------------------------------
(* set_focus_windows *)

Lists == UNION {[1 .. n -> Window] : n \in 0 .. MaxWindows + 1}

Goto(from, to) == app = from /\ app' = to

Clear ==
  /\ Goto("idle", "append")
  /\ calls < MaxCalls
  /\ calls' = calls + 1
  /\ windows' = << >>
  /\ \E l \in Lists : given' = SubSeq(l, 1, IF Len(l) > MaxWindows THEN MaxWindows ELSE Len(l))
  /\ UNCHANGED <<w, sum, task, hit>>

AppendWindow ==
  /\ Goto("append", "append")
  /\ given # << >>
  /\ windows' = Append(windows, Head(given))
  /\ given' = Tail(given)
  /\ UNCHANGED <<calls, w, sum, task, hit>>

\* The sums of both kinds, one after the other.
Invalidate(k, from, to) ==
  /\ Goto(from, to)
  /\ sum' = [sum EXCEPT ![k] = << >>]
  /\ hit' = [hit EXCEPT ![k] = kind = k /\ pc \notin {"idle", "test"}]
  /\ UNCHANGED <<windows, given, calls, w, task>>

\* The slip: the contrast weights are forgotten.
InvalidatePhaseOnly ==
  \/ given = << >> /\ Invalidate("phase", "append", "idle")
  \/ Invalidate("contrast", "invalidate", "idle")

InvalidateWeights ==
  \/ given = << >> /\ Invalidate("phase", "append", "invalidate")
  \/ Invalidate("contrast", "invalidate", "idle")

App == AppendWindow \/ InvalidateWeights

-----------------------------------------------------------------------------
(* The capture thread *)

Step(from, to) == pc = from /\ pc' = to

\* Statistics of a kind arrive.
Statistics ==
  /\ Step("idle", "test")
  /\ kind' \in Kind
  /\ UNCHANGED <<user, w, sum, next, read, hit>>

\* With a sum of 0 the weights are computed.
TestSum ==
  /\ Step("test", IF sum[kind] = << >> THEN "reset" ELSE "check")
  /\ hit' = [hit EXCEPT ![kind] = @ /\ sum[kind] # << >>]
  /\ UNCHANGED <<user, w, sum, kind, next, read>>

\* __compute_weights: weights and sum begin at 0 ...
Reset ==
  /\ Step("reset", IF windows = << >> THEN "centre" ELSE "loop")
  /\ w' = [w EXCEPT ![kind] = << >>]
  /\ sum' = [sum EXCEPT ![kind] = << >>]
  /\ next' = 1
  /\ UNCHANGED <<user, kind, read, hit>>

\* ... each window of the list, as it is then, is added to both.  The += of the sum
\* reads and writes.
AddWeight ==
  /\ Step("loop", IF next > Len(windows) THEN "centre" ELSE "add")
  /\ IF next > Len(windows) THEN UNCHANGED <<w, next, read>>
     ELSE /\ w' = [w EXCEPT ![kind] = Append(@, windows[next])]
          /\ read' = Append(sum[kind], windows[next])
          /\ next' = next + 1
  /\ UNCHANGED <<user, sum, kind, hit>>

AddSum ==
  /\ Step("add", "loop")
  /\ sum' = [sum EXCEPT ![kind] = read]
  /\ UNCHANGED <<user, w, kind, next, read, hit>>

\* ... and when that has come to nothing the middle cells count.
TakeCentre ==
  /\ Step("centre", "check")
  /\ IF sum[kind] = << >>
       THEN /\ w' = [w EXCEPT ![kind] = @ \o Centre]
            /\ sum' = [sum EXCEPT ![kind] = Centre]
       ELSE UNCHANGED <<w, sum>>
  /\ next' = 1
  /\ read' = << >>
  /\ UNCHANGED <<user, kind, hit>>

\* The sum is tested ...
CheckSum ==
  /\ Step("check", IF sum[kind] = << >> THEN "idle" ELSE "divide")
  /\ UNCHANGED <<user, w, sum, kind, next, read, hit>>

\* ... and read again to divide: ZeroDivisionError ends the capture.
Divide ==
  /\ Step("divide", IF sum[kind] = << >> THEN "dead" ELSE "idle")
  /\ UNCHANGED <<user, w, sum, kind, next, read, hit>>

Capture ==
  \/ Statistics \/ TestSum \/ Reset \/ AddWeight \/ AddSum \/ TakeCentre
  \/ CheckSum \/ Divide

Dead == pc = "dead" /\ UNCHANGED vars

Next == Clear \/ App \/ Capture \/ Dead

Spec == Init /\ [][Next]_vars

-----------------------------------------------------------------------------
(* Properties *)

Computing(k) == kind = k /\ pc \in {"reset", "loop", "add", "centre"}
Expected == IF windows = << >> THEN Centre ELSE windows

\* Between the calls weights that are in use are those of the windows, and their sum
\* is that of the weights, unless set_focus_windows invalidated them just while they
\* were computed; and only when it does so just after the test is the division by 0.
WindowsSettle ==
  /\ \A k \in Kind :
       app = "idle" /\ sum[k] # << >> /\ ~ Computing(k) /\ ~ hit[k] =>
         w[k] = Expected /\ sum[k] = Expected
  /\ pc = "dead" => hit[kind]
=============================================================================
