----------------------- MODULE LocalVideoServerProofs -----------------------
(***************************************************************************)
(* Theorems about LocalVideoServer for any viewers, any threads that call  *)
(* stop() and any number of images.                                        *)
(***************************************************************************)
EXTENDS LocalVideoServer, TLAPS

(* The end of serve_forever *)

\* Only serve_forever sets the event, at its end; only stop() closes the socket,
\* after the event.
EndOK ==
  /\ srv \in {"new", "poll", "done"}
  /\ stop \in [Stopper -> {"no", "wait", "close", "returned"}]
  /\ ended => srv = "done"
  /\ ~ listening => srv = "done"
  /\ \A s \in Stopper : stop[s] \in {"close", "returned"} => srv = "done"

\* The socket is never closed under serve_forever, whatever threads call stop(),
\* when and how often (LocalVideoServer.stop).
THEOREM SocketOutlivesServing == Spec => []ClosedAfterEnd
<1>1. Init => EndOK
  BY DEF Init, EndOK
<1>2. EndOK /\ [Next]_vars => EndOK'
  <2> SUFFICES ASSUME EndOK, [Next]_vars
               PROVE  EndOK'
    OBVIOUS
  <2> USE DEF EndOK
  <2>1. CASE Serve
    BY <2>1 DEF Serve
  <2>2. CASE ServeEnds
    BY <2>2 DEF ServeEnds
  <2>3. CASE Set \/ Idle
    BY <2>3 DEF Set, Notify, Idle, vars, socket
  <2>4. ASSUME NEW s \in Stopper, Ask(s) \/ Stopping(s)
        PROVE  EndOK'
    BY <2>4 DEF Stopping, Ask, Wait, CloseServer, StopStep
  <2>5. ASSUME NEW v \in Viewer, View(v) \/ Watching(v) \/ Enter(v) \/ Wake(v) \/ Leave(v)
        PROVE  EndOK'
    BY <2>5 DEF View, Watching, Sleep, SleepAfter, Write, Enter, Wake, Leave, socket
  <2>6. CASE UNCHANGED vars
    BY <2>6 DEF vars, socket
  <2> QED
    BY <2>1, <2>2, <2>3, <2>4, <2>5, <2>6 DEF Next
<1>3. EndOK => ClosedAfterEnd
  BY DEF EndOK, ClosedAfterEnd
<1> QED
  BY <1>1, <1>2, <1>3, PTL DEF Spec

-----------------------------------------------------------------------------
(* What a viewer gets *)

\* Every image a viewer has got is at most n.
AtMost(v, n) == \A i \in DOMAIN seen[v] : seen[v][i] <= n

\* What a viewer has got is no newer than the value, nor than the value it began
\* to wait with; a viewer that was woken is about to read a newer one, and writes
\* it before it waits again.
ViewerOK(v) ==
  /\ AtMost(v, value)
  /\ pc[v] = "wait" => /\ AtMost(v, slept[v])
                       /\ slept[v] <= value
                       /\ v \notin asleep => slept[v] < value
  /\ pc[v] = "write" => /\ frame[v] <= value
                        /\ \A i \in DOMAIN seen[v] : seen[v][i] < frame[v]

Places == {"none", "lock", "held", "wait", "write", "done"}

Types ==
  /\ value \in Nat
  /\ pc \in [Viewer -> Places]
  /\ frame \in [Viewer -> Nat]
  /\ slept \in [Viewer -> Nat]
  /\ seen \in [Viewer -> Seq(Nat)]

IInv == Types /\ OnlyNewer /\ \A v \in Viewer : ViewerOK(v)

LEMMA InitIInv == Init => IInv
BY DEF Init, IInv, Types, Places, OnlyNewer, ViewerOK, AtMost

\* A step of the sockets disturbs nothing.
LEMMA SocketStep ==
  ASSUME IInv, UNCHANGED <<observable, pc, frame, gone, slept, seen>>
  PROVE  IInv'
BY DEF IInv, Types, OnlyNewer, ViewerOK, AtMost, observable

LEMMA SetIInv == IInv /\ Set => IInv'
<1> SUFFICES ASSUME IInv, Set
             PROVE  IInv'
  OBVIOUS
<1> USE DEF IInv, Set, Notify
<1>1. Types'
  BY DEF Types
<1>2. OnlyNewer'
  BY DEF OnlyNewer
<1>3. ASSUME NEW v \in Viewer
      PROVE  ViewerOK(v)'
  <2>1. value' = value + 1 /\ value \in Nat /\ slept[v] \in Nat /\ frame[v] \in Nat
    BY DEF Types
  <2>2. \A i \in DOMAIN seen[v] : seen[v][i] \in Nat
    BY DEF Types
  <2> QED
    BY <2>1, <2>2 DEF ViewerOK, AtMost
<1> QED
  BY <1>1, <1>2, <1>3

LEMMA WriteIInv ==
  ASSUME NEW v \in Viewer, IInv, Write(v)
  PROVE  IInv'
<1> USE DEF IInv, Write
<1>1. CASE v \in gone \/ frame[v] \in Unsavable
  BY <1>1 DEF Types, Places, OnlyNewer, ViewerOK, AtMost, observable
<1>2. CASE v \notin gone /\ frame[v] \notin Unsavable
  <2>1. seen[v] \in Seq(Nat) /\ frame[v] \in Nat /\ value \in Nat
    BY DEF Types
  <2>2. seen'[v] = Append(seen[v], frame[v]) /\ \A u \in Viewer \ {v} : seen'[u] = seen[u]
    BY <1>2 DEF Types
  <2>3. /\ Len(seen'[v]) = Len(seen[v]) + 1
        /\ seen'[v][Len(seen[v]) + 1] = frame[v]
        /\ \A i \in 1 .. Len(seen[v]) : seen'[v][i] = seen[v][i]
        /\ DOMAIN seen[v] = 1 .. Len(seen[v])
        /\ DOMAIN seen'[v] = 1 .. Len(seen[v]) + 1
        /\ Len(seen[v]) \in Nat
    BY <2>1, <2>2
  <2>4. Types'
    <3>1. Append(seen[v], frame[v]) \in Seq(Nat)
      BY <2>1
    <3> QED
      BY <1>2, <3>1 DEF Types, Places, observable
  <2>5. \A i \in DOMAIN seen[v] : seen[v][i] < frame[v] /\ seen[v][i] \in Nat
    BY <2>1, <2>3 DEF ViewerOK
  <2>6. OnlyNewer'
    <3> SUFFICES ASSUME NEW u \in Viewer, NEW i \in 1 .. Len(seen'[u]) - 1
                 PROVE  seen'[u][i] < seen'[u][i + 1]
      BY DEF OnlyNewer
    <3>1. CASE u # v
      BY <2>2, <3>1 DEF OnlyNewer
    <3>2. CASE u = v /\ i = Len(seen[v])
      BY <2>3, <2>5, <3>2
    <3>3. CASE u = v /\ i # Len(seen[v])
      <4>1. i \in 1 .. Len(seen[v]) - 1
        BY <2>3, <3>3
      <4>2. seen[v][i] < seen[v][i + 1]
        BY <4>1 DEF OnlyNewer
      <4>3. seen'[v][i] = seen[v][i] /\ seen'[v][i + 1] = seen[v][i + 1]
        <5> DEFINE n == Len(seen[v])
        <5>1. n \in Nat /\ \A j \in 1 .. n : seen'[v][j] = seen[v][j]
          BY <2>3
        <5> HIDE DEF n
        <5>2. i \in 1 .. n - 1
          BY <4>1 DEF n
        <5>3. i \in 1 .. n /\ i + 1 \in 1 .. n
          BY <5>1, <5>2
        <5> QED
          BY <5>1, <5>3
      <4> QED
        BY <3>3, <4>2, <4>3
    <3> QED
      BY <3>1, <3>2, <3>3
  <2>7. ASSUME NEW u \in Viewer
        PROVE  ViewerOK(u)'
    <3>1. CASE u # v
      BY <2>2, <3>1, <1>2 DEF ViewerOK, AtMost, Types, observable
    <3>2. CASE u = v
      <4>1. pc'[v] = "lock" /\ value' = value
        BY <1>2 DEF Types, observable
      <4>2. frame[v] <= value
        BY DEF ViewerOK
      <4>3. \A i \in DOMAIN seen'[v] : seen'[v][i] <= value
        <5> DEFINE n == Len(seen[v])
        <5>1. /\ n \in Nat /\ DOMAIN seen'[v] = 1 .. n + 1 /\ seen'[v][n + 1] = frame[v]
              /\ \A i \in 1 .. n : seen'[v][i] = seen[v][i] /\ seen[v][i] < frame[v] /\ seen[v][i] \in Nat
          BY <2>3, <2>5
        <5> HIDE DEF n
        <5>2. ASSUME NEW i \in 1 .. n PROVE seen'[v][i] <= value
          <6> DEFINE x == seen[v][i]
                     y == frame[v]
          <6>1. x \in Nat /\ y \in Nat /\ value \in Nat /\ x < y /\ y <= value
            BY <2>1, <4>2, <5>1
          <6> HIDE DEF x, y
          <6>2. x <= value
            BY <6>1
          <6> QED
            BY <5>1, <6>2 DEF x
        <5>3. \A i \in 1 .. n + 1 : i \in 1 .. n \/ i = n + 1
          BY <5>1
        <5> QED
          BY <4>2, <5>1, <5>2, <5>3
      <4> QED
        BY <3>2, <4>1, <4>3 DEF ViewerOK, AtMost
    <3> QED
      BY <3>1, <3>2
  <2> QED
    BY <2>4, <2>6, <2>7
<1> QED
  BY <1>1, <1>2

\* The other steps of a viewer write nothing.
LEMMA ViewerIInv ==
  ASSUME NEW v \in Viewer, IInv,
         View(v) \/ Sleep(v) \/ Enter(v) \/ Wake(v) \/ Leave(v)
  PROVE  IInv'
<1> USE DEF IInv, Types, Places
<1>1. OnlyNewer'
  BY DEF OnlyNewer, View, Sleep, SleepAfter, Enter, Wake, Leave
<1>2. Types'
  BY DEF View, Sleep, SleepAfter, Enter, Wake, Leave, observable
<1>3. ASSUME NEW u \in Viewer
      PROVE  ViewerOK(u)'
  <2> USE DEF ViewerOK, AtMost
  <2>1. CASE View(v)
    BY <2>1 DEF View, observable
  <2>2. CASE Sleep(v)
    BY <2>2 DEF Sleep, SleepAfter
  <2>3. CASE Enter(v)
    BY <2>3 DEF Enter
  <2>4. CASE Leave(v)
    BY <2>4 DEF Leave, observable
  <2>5. CASE Wake(v)
    <3>1. value \in Nat /\ slept[v] \in Nat /\ \A i \in DOMAIN seen[v] : seen[v][i] \in Nat
      OBVIOUS
    <3>2. \A i \in DOMAIN seen[v] : seen[v][i] < value
      BY <2>5, <3>1 DEF Wake
    <3> QED
      BY <2>5, <3>1, <3>2 DEF Wake, observable
  <2> QED
    BY <2>1, <2>2, <2>3, <2>4, <2>5
<1> QED
  BY <1>1, <1>2, <1>3

LEMMA NextIInv == IInv /\ [Next]_vars => IInv'
<1> SUFFICES ASSUME IInv, [Next]_vars
             PROVE  IInv'
  OBVIOUS
<1>1. CASE Serve \/ ServeEnds \/ Idle \/ UNCHANGED vars
  BY <1>1, SocketStep DEF Serve, ServeEnds, Idle, vars
<1>2. CASE Set
  BY <1>2, SetIInv
<1>3. ASSUME NEW s \in Stopper, Ask(s) \/ Stopping(s)
      PROVE  IInv'
  BY <1>3, SocketStep DEF Stopping, Ask, Wait, CloseServer
<1>4. ASSUME NEW v \in Viewer, View(v) \/ Watching(v) \/ Enter(v) \/ Wake(v) \/ Leave(v)
      PROVE  IInv'
  BY <1>4, WriteIInv, ViewerIInv DEF Watching
<1> QED
  BY <1>1, <1>2, <1>3, <1>4 DEF Next

\* No viewer ever gets an image again or an older one, although wait() is called
\* without a predicate (_ObservableValue.wait_new_value, set, do_GET).
THEOREM ViewersGetNewer == Spec => []OnlyNewer
<1>1. IInv => OnlyNewer
  BY DEF IInv
<1> QED
  BY <1>1, InitIInv, NextIInv, PTL DEF Spec

\* wait_new_value finds a value whenever it is woken, so that it never raises
\* (_ObservableValue.wait_new_value).
THEOREM WokenForValue == Spec => []ValueIsSet
<1>1. IInv => ValueIsSet
  BY DEF IInv, Types, ViewerOK, ValueIsSet
<1> QED
  BY <1>1, InitIInv, NextIInv, PTL DEF Spec

-----------------------------------------------------------------------------
(* Types *)

\* A frame that is about to be written is an image.
TypeInv == TypeOK /\ \A v \in Viewer : pc[v] = "write" => frame[v] # 0

LEMMA TypeInvStep == TypeInv /\ ValueIsSet /\ [Next]_vars => TypeInv'
<1> SUFFICES ASSUME TypeInv, ValueIsSet, [Next]_vars
             PROVE  TypeInv'
  OBVIOUS
<1> USE Parameters DEF Parameters, TypeInv, TypeOK
<1>1. CASE Serve \/ ServeEnds \/ Idle \/ UNCHANGED vars
  BY <1>1 DEF Serve, ServeEnds, Idle, vars, socket, observable
<1>2. CASE Set
  BY <1>2 DEF Set, Notify, socket
<1>3. ASSUME NEW s \in Stopper, Ask(s) \/ Stopping(s)
      PROVE  TypeInv'
  BY <1>3 DEF Stopping, Ask, Wait, CloseServer, StopStep, observable
<1>4. ASSUME NEW v \in Viewer, View(v) \/ Leave(v)
      PROVE  TypeInv'
  BY <1>4 DEF View, Leave, socket, observable
<1>5. ASSUME NEW v \in Viewer, Sleep(v)
      PROVE  TypeInv'
  BY <1>5 DEF Sleep, SleepAfter, socket
<1>6. ASSUME NEW v \in Viewer, Enter(v)
      PROVE  TypeInv'
  BY <1>6 DEF Enter, socket
<1>7. ASSUME NEW v \in Viewer, Wake(v)
      PROVE  TypeInv'
  BY <1>7 DEF Wake, socket, observable
<1>8. ASSUME NEW v \in Viewer, Write(v)
      PROVE  TypeInv'
  <2>1. CASE v \in gone \/ frame[v] \in Unsavable
    BY <1>8, <2>1 DEF Write, socket, observable
  <2>2. CASE v \notin gone /\ frame[v] \notin Unsavable
    <3>1. frame[v] \in 1 .. MaxImage
      BY <1>8 DEF Write
    <3>2. Append(seen[v], frame[v]) \in Seq(1 .. MaxImage)
      BY <3>1
    <3>3. /\ pc' = [pc EXCEPT ![v] = "lock"]
          /\ seen' = [seen EXCEPT ![v] = Append(seen[v], frame[v])]
      BY <1>8, <2>2 DEF Write
    <3>4. seen' \in [Viewer -> Seq(1 .. MaxImage)]
      BY <3>2, <3>3
    <3>5. UNCHANGED <<srv, asked, ended, listening, stop, lock, value, asleep, frame, gone, slept>>
      BY <1>8 DEF Write, socket, observable
    <3>6. pc[v] = "write" /\ pc' \in [Viewer -> {"none", "lock", "held", "wait", "write", "done"}]
      BY <1>8, <3>3 DEF Write
    <3> QED
      BY <3>3, <3>4, <3>5, <3>6
  <2> QED
    BY <2>1, <2>2
<1> QED
  BY <1>1, <1>2, <1>3, <1>4, <1>5, <1>6, <1>7, <1>8 DEF Next, Watching

\* Every variable keeps its type, and one viewer at most is in the block of the
\* condition.
THEOREM TypeCorrect == Spec => []TypeOK
<1>1. Init => TypeInv
  <2>1. << >> \in Seq(1 .. MaxImage)
    OBVIOUS
  <2>2. Init => seen \in [Viewer -> Seq(1 .. MaxImage)]
    BY <2>1 DEF Init
  <2>3. Init => /\ lock \in Viewer \cup {"free"}
                /\ asleep \subseteq Viewer
                /\ \A v \in Viewer : pc[v] # "held" /\ pc[v] # "write" /\ lock # v
    BY Parameters DEF Parameters, Init
  <2>4. Init => /\ pc \in [Viewer -> {"none", "lock", "held", "wait", "write", "done"}]
                /\ stop \in [Stopper -> {"no", "wait", "close", "returned"}]
                /\ frame \in [Viewer -> 0 .. MaxImage]
                /\ slept \in [Viewer -> 0 .. MaxImage]
                /\ value \in 0 .. MaxImage
    BY Parameters DEF Parameters, Init
  <2>5. Init => /\ srv \in {"new", "poll", "failed", "done"}
                /\ asked \in BOOLEAN /\ ended \in BOOLEAN /\ listening \in BOOLEAN
                /\ gone \subseteq Viewer
                /\ \A v \in asleep : pc[v] = "wait"
    BY DEF Init
  <2> QED
    BY <2>2, <2>3, <2>4, <2>5 DEF TypeInv, TypeOK
<1>2. TypeInv => TypeOK
  BY DEF TypeInv
<1> QED
  BY <1>1, <1>2, WokenForValue, TypeInvStep, PTL DEF Spec
=============================================================================
