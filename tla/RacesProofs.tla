----------------------------- MODULE RacesProofs -----------------------------
(***************************************************************************)
(* The properties of the objects of MCRaces that two threads use without a *)
(* lock: of DiscardingPad for any number of threads that put and any       *)
(* number of puts, of FocusWindows for any number of windows and calls, of *)
(* ExposureControl for the tables of any exposure mode, any exposures that *)
(* are wanted and any that are set.                                        *)
(***************************************************************************)
EXTENDS MCRaces, RationalProofs, TLAPS

-----------------------------------------------------------------------------
(* The pad *)

\* The types the two properties need, and that no put has emptied the queue in
\* the future: what a put has seen it can only fall behind.
Counts ==
  /\ pc \in [Putter -> {"idle", "discard", "put"}]
  /\ made \in Nat
  /\ mark \in [Putter -> Nat]
  /\ \A p \in Putter : mark[p] <= made

IInv == Counts /\ FullOnlyByRace

LEMMA InitIInv == Init => IInv
BY DEF Init, IInv, Counts, FullOnlyByRace

LEMMA NextIInv == IInv /\ [Next]_vars => IInv'
<1> SUFFICES ASSUME IInv, [Next]_vars
             PROVE  IInv'
  OBVIOUS
<1> USE DEF IInv, Counts, FullOnlyByRace
<1>1. CASE Get
  BY <1>1 DEF Get
<1>2. ASSUME NEW p \in Putter, Call(p)
      PROVE  IInv'
  BY <1>2 DEF Call, Goto
<1>3. ASSUME NEW p \in Putter, Discard(p)
      PROVE  IInv'
  BY <1>3 DEF Discard, DiscardTo, Goto
<1>4. ASSUME NEW p \in Putter, Put(p)
      PROVE  IInv'
  BY <1>4 DEF Put, Goto
<1>5. ASSUME NEW p \in Putter, PutFull(p)
      PROVE  IInv'
  BY <1>5 DEF PutFull, PutFullIf, Goto
<1>6. CASE UNCHANGED vars
  BY <1>6 DEF vars
<1> QED
  BY <1>1, <1>2, <1>3, <1>4, <1>5, <1>6 DEF Next

\* Every variable keeps its type (_PadDiscardingOld).
THEOREM TypeCorrect == Spec => []TypeOK
<1> DEFINE Flags == full \in BOOLEAN /\ kept \in BOOLEAN
           Rest == /\ pc \in [Putter -> {"idle", "discard", "put"}]
                   /\ calls \in Nat
                   /\ made \in Nat
                   /\ mark \in [Putter -> Nat]
<1>1. Init => Flags /\ Rest
  <2>1. Init => Flags
    BY Zenon DEF Init
  <2>2. Init => Rest
    BY SMT DEF Init
  <2> QED BY <2>1, <2>2
<1>2. Flags /\ [Next]_vars => Flags'
  BY Zenon DEF Next, Get, Call, Discard, DiscardTo, Put, PutFull, PutFullIf, Goto, vars
<1>3. Rest /\ [Next]_vars => Rest'
  BY DEF Next, Get, Call, Discard, DiscardTo, Put, PutFull, PutFullIf, Goto, vars
<1>4. Flags /\ Rest => TypeOK
  BY DEF TypeOK
<1> HIDE DEF Flags, Rest
<1> QED
  BY <1>1, <1>2, <1>3, <1>4, PTL DEF Spec

\* However many threads put, a put finds the slot taken only when another put came
\* in between since it threw the old item away (_PadDiscardingOld.put).
THEOREM NoOldItemInTheWay == Spec => []FullOnlyByRace
<1>1. IInv => FullOnlyByRace
  BY DEF IInv
<1> QED
  BY <1>1, InitIInv, NextIInv, PTL DEF Spec

\* However many threads put, what discarding loses is made up for: with no put
\* under way and no get since the last one, the pad holds an item.
THEOREM DiscardingKeepsOne == Spec => []KeepsOne
<1>1. Init => KeepsOne
  BY DEF Init, KeepsOne
<1>2. IInv /\ KeepsOne /\ [Next]_vars => KeepsOne'
  <2> SUFFICES ASSUME IInv, KeepsOne, [Next]_vars
               PROVE  KeepsOne'
    OBVIOUS
  <2> USE DEF IInv, Counts, KeepsOne
  <2>1. CASE Get
    BY <2>1 DEF Get
  <2>2. ASSUME NEW p \in Putter, Call(p)
        PROVE  KeepsOne'
    BY <2>2 DEF Call, Goto
  <2>3. ASSUME NEW p \in Putter, Discard(p)
        PROVE  KeepsOne'
    BY <2>3 DEF Discard, DiscardTo, Goto
  <2>4. ASSUME NEW p \in Putter, Put(p)
        PROVE  KeepsOne'
    BY <2>4 DEF Put
  <2>5. ASSUME NEW p \in Putter, PutFull(p)
        PROVE  KeepsOne'
    BY <2>5 DEF PutFull, PutFullIf
  <2>6. CASE UNCHANGED vars
    BY <2>6 DEF vars
  <2> QED
    BY <2>1, <2>2, <2>3, <2>4, <2>5, <2>6 DEF Next
<1> QED
  BY <1>1, <1>2, InitIInv, NextIInv, PTL DEF Spec

\* What MCRaces does to the pad is what DiscardingPad does.
THEOREM PadIsDiscardingPad == AnySpec => Spec
<1>1. AnyInit => Init
  BY DEF AnyInit
<1>2. [AnyNext]_all => [Next]_vars
  BY DEF AnyNext, Exposure, Is, all
<1> QED
  BY <1>1, <1>2, PTL DEF AnySpec, Spec

-----------------------------------------------------------------------------
(* The focus windows *)

\* set_focus_windows is under way and has not invalidated the weights of this kind yet.
Pending(k) == app = "append" \/ (app = "invalidate" /\ k = "contrast")

\* These are the first n windows of the list.
AreFirst(s, n) == n <= Len(windows) /\ Len(s) = n /\ \A i \in 1 .. n : s[i] = windows[i]

\* While the weights of a kind are computed they are those of the windows that have
\* been passed, and the sum lags behind by the one that is added to it.
Partial(k) ==
  /\ thread = "loop" => AreFirst(w[k], next - 1) /\ sum[k] = w[k]
  /\ thread = "add" => AreFirst(w[k], next - 1) /\ read = w[k]
  /\ thread = "centre" => w[k] = windows /\ sum[k] = windows

Settled(k) == sum[k] # << >> => w[k] = W!Expected /\ sum[k] = W!Expected

Entry == Window \cup {"centre"}

WindowTypes ==
  /\ windows \in Seq(Window)
  /\ given \in Seq(Window)
  /\ w \in [W!Kind -> Seq(Entry)]
  /\ sum \in [W!Kind -> Seq(Entry)]
  /\ hit \in [W!Kind -> BOOLEAN]
  /\ read \in Seq(Entry)
  /\ kind \in W!Kind
  /\ next \in Nat \ {0}

\* Weights that no call has invalidated or is about to are those of the windows, or on
\* the way there.
Weights(k) ==
  ~ Pending(k) /\ ~ hit[k] => IF W!Computing(k) THEN Partial(k) ELSE Settled(k)

\* A thread that is about to divide has a sum, and has died only for the want of one.
DivisorsThere ==
  /\ thread = "divide" /\ ~ hit[kind] => sum[kind] # << >>
  /\ thread = "dead" => hit[kind]

WindowsInv == WindowTypes /\ (\A k \in W!Kind : Weights(k)) /\ DivisorsThere

LEMMA ListsAreSequences ==
  ASSUME NEW l \in W!Lists, NEW m \in 0 .. Len(l)
  PROVE  SubSeq(l, 1, m) \in Seq(Window)
<1>1. PICK n \in 0 .. MaxWindows + 1 : l \in [1 .. n -> Window]
  BY DEF W!Lists
<1>2. l \in Seq(Window) /\ Len(l) = n
  BY <1>1, WindowsParameters
<1> QED BY <1>2

LEMMA WindowTypesKept == WindowTypes /\ W!Next => WindowTypes'
<1> SUFFICES ASSUME WindowTypes, W!Next PROVE WindowTypes'
  OBVIOUS
<1>0. /\ Seq(Window) \subseteq Seq(Entry)
      /\ << >> \in Seq(Window) /\ << >> \in Seq(Entry)
      /\ W!Centre \in Seq(Entry)
  BY DEF Entry, W!Centre
<1>1. CASE W!Clear
  <2>1. PICK l \in W!Lists :
          given' = SubSeq(l, 1, IF Len(l) > MaxWindows THEN MaxWindows ELSE Len(l))
    BY <1>1 DEF W!Clear
  <2>2. Len(l) \in Nat
    BY <2>1, WindowsParameters DEF W!Lists
  <2>3. given' \in Seq(Window)
    BY <2>1, <2>2, WindowsParameters, ListsAreSequences
  <2> QED BY <1>0, <1>1, <2>3 DEF W!Clear, W!task, WindowTypes
<1>2. CASE W!AppendWindow
  <2>1. Head(given) \in Window /\ Tail(given) \in Seq(Window)
    BY <1>2 DEF W!AppendWindow, WindowTypes
  <2>2. windows' \in Seq(Window) /\ given' \in Seq(Window)
    BY <1>2, <2>1 DEF W!AppendWindow, WindowTypes
  <2> QED BY <1>2, <2>2 DEF W!AppendWindow, W!task, WindowTypes
<1>3. ASSUME NEW k, NEW from, NEW to, W!Invalidate(k, from, to)
      PROVE  WindowTypes'
  <2>1. sum' \in [W!Kind -> Seq(Entry)]
    BY <1>0, <1>3 DEF W!Invalidate, WindowTypes
  <2>2. hit' \in [W!Kind -> BOOLEAN]
    BY <1>3, Zenon DEF W!Invalidate, WindowTypes
  <2> QED BY <1>3, <2>1, <2>2 DEF W!Invalidate, W!task, WindowTypes
<1>4. CASE W!Statistics
  BY <1>4 DEF W!Statistics, W!user, WindowTypes
<1>5. CASE W!TestSum
  <2>1. hit' \in [W!Kind -> BOOLEAN]
    BY <1>5, Zenon DEF W!TestSum, WindowTypes
  <2> QED BY <1>5, <2>1 DEF W!TestSum, W!user, WindowTypes
<1>6. CASE W!Reset
  BY <1>0, <1>6 DEF W!Reset, W!user, WindowTypes
<1>7. CASE W!AddWeight
  <2>1. CASE next > Len(windows)
    BY <1>7, <2>1 DEF W!AddWeight, W!user, WindowTypes
  <2>2. CASE ~ (next > Len(windows))
    <3>1. windows[next] \in Entry
      BY <2>2 DEF WindowTypes, Entry
    <3>2. Append(w[kind], windows[next]) \in Seq(Entry) /\ Append(sum[kind], windows[next]) \in Seq(Entry)
      BY <3>1 DEF WindowTypes
    <3>3. /\ w' = [w EXCEPT ![kind] = Append(w[kind], windows[next])]
          /\ read' = Append(sum[kind], windows[next])
          /\ next' = next + 1
          /\ UNCHANGED <<windows, given, sum, kind, hit>>
      BY <1>7, <2>2 DEF W!AddWeight, W!user
    <3>4. w' \in [W!Kind -> Seq(Entry)]
      BY <3>2, <3>3 DEF WindowTypes
    <3> QED BY <3>2, <3>3, <3>4 DEF WindowTypes
  <2> QED BY <2>1, <2>2
<1>8. CASE W!AddSum
  BY <1>8 DEF W!AddSum, W!user, WindowTypes
<1>9. CASE W!TakeCentre
  <2>1. w[kind] \o W!Centre \in Seq(Entry)
    BY <1>0 DEF WindowTypes
  <2>2. /\ \/ /\ w' = [w EXCEPT ![kind] = w[kind] \o W!Centre]
              /\ sum' = [sum EXCEPT ![kind] = W!Centre]
           \/ UNCHANGED <<w, sum>>
        /\ next' = 1 /\ read' = << >>
        /\ UNCHANGED <<windows, given, kind, hit>>
    BY <1>9 DEF W!TakeCentre, W!user
  <2>3. w' \in [W!Kind -> Seq(Entry)] /\ sum' \in [W!Kind -> Seq(Entry)]
    BY <1>0, <2>1, <2>2 DEF WindowTypes
  <2> QED BY <1>0, <2>2, <2>3 DEF WindowTypes
<1>10. CASE W!CheckSum
  BY <1>10 DEF W!CheckSum, W!user, WindowTypes
<1>11. CASE W!Divide
  BY <1>11 DEF W!Divide, W!user, WindowTypes
<1>12. CASE W!Dead
  BY <1>12 DEF W!Dead, W!vars, W!user, W!task, WindowTypes
<1> QED
  BY <1>1, <1>2, <1>3, <1>4, <1>5, <1>6, <1>7, <1>8, <1>9, <1>10, <1>11, <1>12
  DEF W!Next, W!App, W!Capture, W!InvalidateWeights

\* What keeps the weights of a kind as they are, and no call that invalidates them
\* comes to its end.
LEMMA WeightsStay ==
  ASSUME NEW k \in W!Kind, Weights(k),
         windows' = windows, w'[k] = w[k], sum'[k] = sum[k], hit'[k] = hit[k],
         Pending(k)' <=> Pending(k),
         ~ W!Computing(k), ~ W!Computing(k)'
  PROVE  Weights(k)'
<1>1. Settled(k) => Settled(k)'
  BY DEF Settled, W!Expected
<1> QED BY <1>1, Zenon DEF Weights

LEMMA PendingStays == UNCHANGED app => \A k : Pending(k)' <=> Pending(k)
BY DEF Pending

LEMMA WeightsKept ==
  ASSUME WindowsInv, W!Next, NEW k \in W!Kind
  PROVE  Weights(k)'
<1> USE DEF WindowsInv
<1>1. CASE W!Clear
  BY <1>1 DEF W!Clear, W!Goto, Weights, Pending
<1>2. CASE W!AppendWindow
  BY <1>2 DEF W!AppendWindow, W!Goto, Weights, Pending
<1>3. ASSUME NEW j \in W!Kind, NEW from, NEW to, W!Invalidate(j, from, to),
             \/ j = "phase" /\ from = "append" /\ to = "invalidate"
             \/ j = "contrast" /\ from = "invalidate" /\ to = "idle"
      PROVE  Weights(k)'
  <2>1. /\ app = from /\ app' = to
        /\ sum' = [sum EXCEPT ![j] = << >>]
        /\ hit' = [hit EXCEPT ![j] = kind = j /\ thread \notin {"idle", "test"}]
        /\ UNCHANGED <<windows, given, times, w, thread, kind, next, read>>
    BY <1>3 DEF W!Invalidate, W!Goto, W!task
  <2>2. CASE j = k
    <3>1. sum'[k] = << >>
      BY <2>1, <2>2 DEF WindowTypes
    <3>2. ~ hit'[k] => ~ (kind = k /\ thread \notin {"idle", "test"})
      BY <2>1, <2>2, Zenon DEF WindowTypes
    <3>3. ~ hit'[k] => ~ W!Computing(k)'
      BY <2>1, <3>2 DEF W!Computing
    <3> QED BY <3>1, <3>3 DEF Weights, Settled
  <2>3. CASE j # k
    <3>1. sum'[k] = sum[k] /\ hit'[k] = hit[k]
      BY <2>1, <2>3, Zenon DEF WindowTypes
    <3>2. Pending(k)' <=> Pending(k)
      BY <1>3, <2>1, <2>3 DEF Pending, W!Kind
    <3>3. W!Computing(k)' <=> W!Computing(k)
      BY <2>1 DEF W!Computing
    <3>4. Settled(k) => Settled(k)'
      BY <2>1, <3>1 DEF Settled, W!Expected
    <3>5. Partial(k) => Partial(k)'
      BY <2>1, <3>1 DEF Partial, AreFirst
    <3> QED BY <3>1, <3>2, <3>3, <3>4, <3>5, Zenon DEF Weights
  <2> QED BY <2>2, <2>3
<1>4. CASE W!Capture
  <2>0. UNCHANGED <<windows, app>>
    BY <1>4 DEF W!Capture, W!Statistics, W!TestSum, W!Reset, W!AddWeight, W!AddSum,
                W!TakeCentre, W!CheckSum, W!Divide, W!user
  <2>1. CASE k # kind
    <3>1. w'[k] = w[k] /\ sum'[k] = sum[k]
      BY <1>4, <2>1 DEF W!Capture, W!Statistics, W!TestSum, W!Reset, W!AddWeight, W!AddSum,
                W!TakeCentre, W!CheckSum, W!Divide, WindowTypes
    <3>2. hit'[k] = hit[k]
      <4>1. hit' = hit \/ hit' = [hit EXCEPT ![kind] = @ /\ sum[kind] # << >>]
        BY <1>4 DEF W!Capture, W!Statistics, W!TestSum, W!Reset, W!AddWeight, W!AddSum,
                W!TakeCentre, W!CheckSum, W!Divide
      <4> QED BY <2>1, <4>1, Zenon DEF WindowTypes
    <3>3. ~ W!Computing(k) /\ ~ W!Computing(k)'
      BY <1>4, <2>1 DEF W!Capture, W!Statistics, W!TestSum, W!Reset, W!AddWeight, W!AddSum,
                W!TakeCentre, W!CheckSum, W!Divide, W!Step, W!Computing
    <3> QED BY <2>0, <3>1, <3>2, <3>3, PendingStays, WeightsStay
  <2>2. CASE k = kind
    <3>1. CASE W!Statistics
      <4>1. ~ W!Computing(k) /\ ~ W!Computing(k)' /\ UNCHANGED <<w, sum, hit>>
        BY <3>1 DEF W!Statistics, W!Step, W!Computing
      <4> QED BY <2>0, <4>1, PendingStays, WeightsStay
    <3>2. CASE W!TestSum
      <4>1. CASE sum[k] = << >>
        BY <2>2, <3>2, <4>1 DEF W!TestSum, W!Step, Weights, W!Computing, Partial
      <4>2. CASE sum[k] # << >>
        <5>1. hit'[k] = hit[k]
          BY <2>2, <3>2, <4>2, Zenon DEF W!TestSum, WindowTypes
        <5>2. ~ W!Computing(k) /\ ~ W!Computing(k)' /\ UNCHANGED <<w, sum>>
          BY <2>2, <3>2, <4>2 DEF W!TestSum, W!Step, W!Computing
        <5> QED BY <2>0, <5>1, <5>2, PendingStays, WeightsStay
      <4> QED BY <4>1, <4>2
    <3>3. CASE W!Reset
      <4>1. /\ w'[k] = << >> /\ sum'[k] = << >> /\ next' = 1 /\ UNCHANGED <<hit, kind>>
            /\ thread' = IF windows = << >> THEN "centre" ELSE "loop"
        BY <2>2, <3>3 DEF W!Reset, W!Step, WindowTypes
      <4>2. Partial(k)' /\ W!Computing(k)'
        BY <2>0, <2>2, <4>1 DEF Partial, AreFirst, W!Computing, WindowTypes
      <4> QED BY <4>2 DEF Weights
    <3>4. CASE W!AddWeight
      <4>0. /\ W!Computing(k) /\ W!Computing(k)' /\ UNCHANGED <<hit, sum>>
            /\ thread = "loop"
            /\ thread' = IF next > Len(windows) THEN "centre" ELSE "add"
        BY <2>2, <3>4 DEF W!AddWeight, W!Step, W!Computing
      <4>1. SUFFICES ASSUME Partial(k) PROVE Partial(k)'
        BY <2>0, <4>0, PendingStays DEF Weights
      <4>2. AreFirst(w[k], next - 1) /\ sum[k] = w[k]
        BY <4>0, <4>1 DEF Partial
      <4>3. CASE next > Len(windows)
        <5>1. next - 1 = Len(windows)
          BY <4>2, <4>3 DEF AreFirst, WindowTypes
        <5>2. w[k] = windows
          BY <4>2, <5>1 DEF AreFirst, WindowTypes
        <5> QED BY <2>0, <2>2, <3>4, <4>0, <4>2, <4>3, <5>2 DEF W!AddWeight, Partial
      <4>4. CASE ~ (next > Len(windows))
        <5>1. /\ w' = [w EXCEPT ![kind] = Append(w[kind], windows[next])]
              /\ read' = Append(sum[kind], windows[next]) /\ next' = next + 1
          BY <3>4, <4>4 DEF W!AddWeight
        <5>2. w'[k] = Append(w[k], windows[next]) /\ read' = w'[k]
          BY <2>2, <4>2, <5>1 DEF WindowTypes
        <5>3. AreFirst(Append(w[k], windows[next]), next)
          BY <2>2, <4>2, <4>4 DEF AreFirst, WindowTypes, Entry
        <5>4. AreFirst(w[k], next - 1)'
          BY <2>0, <5>1, <5>2, <5>3 DEF AreFirst, WindowTypes
        <5> QED BY <4>0, <4>4, <5>2, <5>4 DEF Partial
      <4> QED BY <4>3, <4>4
    <3>5. CASE W!AddSum
      <4>1. /\ W!Computing(k) /\ W!Computing(k)' /\ UNCHANGED <<hit, w, next>>
            /\ sum'[k] = read /\ thread = "add" /\ thread' = "loop"
        BY <2>2, <3>5 DEF W!AddSum, W!Step, W!Computing, WindowTypes
      <4>2. Partial(k) => Partial(k)'
        BY <2>0, <4>1 DEF Partial, AreFirst
      <4> QED BY <2>0, <4>1, <4>2, PendingStays DEF Weights
    <3>6. CASE W!TakeCentre
      <4>1. W!Computing(k) /\ ~ W!Computing(k)' /\ UNCHANGED hit /\ thread = "centre"
        BY <2>2, <3>6 DEF W!TakeCentre, W!Step, W!Computing
      <4>2. ASSUME Partial(k) PROVE Settled(k)'
        <5>1. w[k] = windows /\ sum[k] = windows
          BY <4>1, <4>2 DEF Partial
        <5>2. CASE sum[k] = << >>
          <6>1. w'[k] = << >> \o W!Centre /\ sum'[k] = W!Centre
            BY <2>2, <3>6, <5>1, <5>2 DEF W!TakeCentre, WindowTypes
          <6>2. << >> \o W!Centre = W!Centre
            BY DEF W!Centre
          <6> QED BY <2>0, <5>1, <5>2, <6>1, <6>2 DEF Settled, W!Expected
        <5>3. CASE sum[k] # << >>
          BY <2>0, <2>2, <3>6, <5>1, <5>3 DEF W!TakeCentre, Settled, W!Expected
        <5> QED BY <5>2, <5>3
      <4> QED BY <2>0, <4>1, <4>2, PendingStays DEF Weights
    <3>7. CASE W!CheckSum \/ W!Divide
      <4>1. ~ W!Computing(k) /\ ~ W!Computing(k)' /\ UNCHANGED <<w, sum, hit>>
        BY <3>7 DEF W!CheckSum, W!Divide, W!Step, W!Computing
      <4> QED BY <2>0, <4>1, PendingStays, WeightsStay
    <3> QED BY <1>4, <3>1, <3>2, <3>3, <3>4, <3>5, <3>6, <3>7 DEF W!Capture
  <2> QED BY <2>1, <2>2
<1>5. CASE W!Dead
  <2>1. UNCHANGED <<windows, app, w, sum, thread, kind, next, read, hit>>
    BY <1>5 DEF W!Dead, W!vars, W!user, W!task
  <2> QED
    BY <2>1 DEF Weights, Pending, Settled, Partial, AreFirst, W!Computing, W!Expected
<1> QED
  BY <1>1, <1>2, <1>3, <1>4, <1>5 DEF W!Next, W!App, W!InvalidateWeights, W!Kind

LEMMA DividesKept == WindowsInv /\ W!Next => DivisorsThere'
<1> SUFFICES ASSUME WindowsInv, W!Next PROVE DivisorsThere'
  OBVIOUS
<1> USE DEF WindowsInv, DivisorsThere
<1>1. CASE W!Clear \/ W!AppendWindow
  BY <1>1 DEF W!Clear, W!AppendWindow, W!task
<1>2. ASSUME NEW j \in W!Kind, NEW from, NEW to, W!Invalidate(j, from, to)
      PROVE  DivisorsThere'
  <2>1. /\ sum' = [sum EXCEPT ![j] = << >>]
        /\ hit' = [hit EXCEPT ![j] = kind = j /\ thread \notin {"idle", "test"}]
        /\ UNCHANGED <<thread, kind>>
    BY <1>2 DEF W!Invalidate, W!task
  <2>2. CASE j = kind
    <3>1. hit'[kind] <=> thread \notin {"idle", "test"}
      BY <2>1, <2>2, Zenon DEF WindowTypes
    <3> QED BY <2>1, <3>1
  <2>3. CASE j # kind
    <3>1. hit'[kind] = hit[kind] /\ sum'[kind] = sum[kind]
      BY <2>1, <2>3, Zenon DEF WindowTypes
    <3> QED BY <2>1, <3>1
  <2> QED BY <2>2, <2>3
<1>3. CASE W!TestSum
  <2>1. thread' \in {"reset", "check"}
    BY <1>3 DEF W!TestSum, W!Step
  <2> QED BY <2>1
<1>4. CASE W!Statistics \/ W!Reset \/ W!AddWeight \/ W!AddSum \/ W!TakeCentre
  <2>1. thread' \in {"test", "centre", "loop", "add", "check"}
    BY <1>4 DEF W!Statistics, W!Reset, W!AddWeight, W!AddSum, W!TakeCentre, W!Step
  <2> QED BY <2>1
<1>5. CASE W!CheckSum
  BY <1>5 DEF W!CheckSum, W!Step
<1>6. CASE W!Divide
  BY <1>6 DEF W!Divide, W!Step
<1>7. CASE W!Dead
  BY <1>7 DEF W!Dead, W!vars, W!task
<1> QED
  BY <1>1, <1>2, <1>3, <1>4, <1>5, <1>6, <1>7
  DEF W!Next, W!App, W!Capture, W!InvalidateWeights, W!Kind

LEMMA InitWindowsInv == W!Init => WindowsInv
<1> SUFFICES ASSUME W!Init PROVE WindowsInv
  OBVIOUS
<1>1. hit \in [W!Kind -> BOOLEAN]
  BY Zenon DEF W!Init
<1>2. WindowTypes
  BY <1>1 DEF W!Init, WindowTypes, Entry
<1>3. \A k \in W!Kind : Weights(k)
  BY DEF W!Init, Weights, W!Computing, Settled
<1> QED BY <1>2, <1>3 DEF WindowsInv, DivisorsThere, W!Init

WindowsAlways == object = "windows" => WindowsInv

\* Whenever set_focus_windows is called, and however often: between the calls the
\* weights in use are those of its windows and their sum is that of the weights, and
\* the division is by 0 only when a call falls just between its test and itself
\* (AutoFocuserBase.set_focus_windows, __compute_weights, __get_phase).
THEOREM WindowsDoSettle == AnySpec => []WindowsSettle
<1>1. AnyInit => WindowsAlways
  BY InitWindowsInv DEF AnyInit, WindowsAlways
<1>2. WindowsAlways /\ [AnyNext]_all => WindowsAlways'
  <2> SUFFICES ASSUME WindowsAlways, [AnyNext]_all, (object = "windows")' PROVE WindowsInv'
    BY DEF WindowsAlways
  <2>1. CASE object = "windows" /\ W!Next
    <3>1. WindowsInv
      BY <2>1 DEF WindowsAlways
    <3>2. \A k \in W!Kind : Weights(k)'
      BY <2>1, <3>1, WeightsKept
    <3>3. W!Kind' = W!Kind
      BY DEF W!Kind
    <3> QED BY <2>1, <3>1, <3>2, <3>3, WindowTypesKept, DividesKept DEF WindowsInv
  <2>2. CASE UNCHANGED all
    <3>1. UNCHANGED <<object, windows, app, given, w, sum, thread, kind, next, read, hit>>
      BY <2>2 DEF all, common, windowsOnly
    <3>2. WindowsInv
      BY <3>1 DEF WindowsAlways
    <3>3. WindowTypes'
      BY <3>1, <3>2 DEF WindowsInv, WindowTypes
    <3>4. DivisorsThere'
      BY <3>1, <3>2 DEF WindowsInv, DivisorsThere
    <3>5. \A k \in W!Kind : Weights(k)'
      BY <3>1, <3>2 DEF WindowsInv, Weights, Pending, Settled, Partial, AreFirst, W!Computing, W!Expected
    <3> QED BY <3>3, <3>4, <3>5 DEF WindowsInv, W!Kind
  <2> QED BY <2>1, <2>2 DEF AnyNext, Exposure, Is
<1>3. WindowsAlways => WindowsSettle
  <2> SUFFICES ASSUME WindowsInv PROVE W!WindowsSettle
    BY DEF WindowsAlways, WindowsSettle
  <2>1. ASSUME NEW k \in W!Kind, app = "idle", sum[k] # << >>, ~ W!Computing(k), ~ hit[k]
        PROVE  w[k] = W!Expected /\ sum[k] = W!Expected
    BY <2>1 DEF WindowsInv, Weights, Pending, Settled
  <2> QED BY <2>1 DEF WindowsInv, DivisorsThere, W!WindowsSettle
<1> QED BY <1>1, <1>2, <1>3, PTL DEF AnySpec

-----------------------------------------------------------------------------
(* The exposure *)

Automatic == X!Auto
Kinds == {"shutter", "gain"}
Values == Reduced \cap PositiveRat

LEMMA SameArithmetic ==
  /\ \A n, d : X!Q(n, d) = Q(n, d)
  /\ \A p, q : X!Mul(p, q) = Mul(p, q) /\ X!Over(p, q) = Over(p, q)
  /\ \A p, q : X!Less(p, q) = Less(p, q) /\ X!AtMost(p, q) = AtMost(p, q)
  /\ \A p, q : X!MinQ(p, q) = MinQ(p, q) /\ X!MaxQ(p, q) = MaxQ(p, q)
<1>1. X!Gcd = Gcd
  BY DEF X!Gcd, Gcd
<1>2. \A n : X!Abs(n) = Abs(n)
  BY DEF X!Abs, Abs
<1>3. \A n, d : X!Q(n, d) = Q(n, d)
  BY <1>1, <1>2, Zenon DEF X!Q, Q
<1>4. \A p, q : X!Mul(p, q) = Mul(p, q) /\ X!Over(p, q) = Over(p, q)
  BY <1>3, Zenon DEF X!Mul, X!Over, Mul, Over
<1>5. \A p, q : X!Less(p, q) = Less(p, q) /\ X!AtMost(p, q) = AtMost(p, q)
  BY Zenon DEF X!Less, X!AtMost, Less, AtMost
<1>6. \A p, q : X!MinQ(p, q) = MinQ(p, q) /\ X!MaxQ(p, q) = MaxQ(p, q)
  BY <1>5, Zenon DEF X!MinQ, X!MaxQ, MinQ, MaxQ
<1> QED BY <1>3, <1>4, <1>5, <1>6

LEMMA ExposuresAreValues == Exposures = Values
<1>1. ASSUME NEW q \in Int \X Nat, q[1] > 0, q[2] > 0
      PROVE  q \in Rat
  BY <1>1 DEF Rat, Positive
<1>2. \A q : q \in Exposures => q \in Values
  BY <1>1, SameArithmetic, Zenon DEF Exposures, Values, Reduced, PositiveRat
<1>3. ASSUME NEW q \in Values PROVE q \in Exposures
  <2>1. q \in Int \X Nat /\ q[1] > 0 /\ q[2] > 0
    BY <1>3 DEF Values, Reduced, PositiveRat, Rat, Positive
  <2> QED BY <2>1, SameArithmetic, Zenon DEF Exposures, Values, Reduced
<1> QED BY <1>2, <1>3

\* Automatic is no value.
LEMMA AutoIsNone == Automatic \notin Values
BY DEF Automatic, X!Auto, Values, PositiveRat

\* The value at a stage: a manual one stays as it is.
Stage(what, table, n) == IF setting[what] # Automatic THEN setting[what] ELSE table[n]

LEMMA StagesGoUp ==
  ASSUME NEW what \in Kinds, setting[what] \in Values \cup {Automatic},
         NEW table, GoesUp(table), NEW m \in 1 .. Len(table), NEW n \in 1 .. Len(table), m <= n
  PROVE  /\ Stage(what, table, m) \in Values /\ Stage(what, table, n) \in Values
         /\ AtMost(Stage(what, table, m), Stage(what, table, n))
<1>1. table \in Seq(Values) /\ \A i, j \in DOMAIN table : i <= j => AtMost(table[i], table[j])
  BY ExposuresAreValues, SameArithmetic DEF GoesUp
<1>2. table[m] \in Values /\ table[n] \in Values /\ AtMost(table[m], table[n])
  BY <1>1
<1>3. \A p \in Values : AtMost(p, p)
  BY AtMostOrder DEF Values, Reduced
<1> QED BY <1>2, <1>3, Zenon DEF Stage

\* The exposure that __agc goes through and has not reached the target with.
Below(m, n) ==
  /\ local.shutter = Stage("shutter", Shutters, m)
  /\ local.gain = Stage("gain", Gains, n)
  /\ Less(Mul(local.shutter, local.gain), target)

\* What __agc has come to, if the settings stood still.
OnTheWay ==
  /\ thread = "read gain" => setting.gain # Automatic
  /\ thread \in {"test shutter", "read shutter", "compare"} => local.gain = Stage("gain", Gains, 1)
  /\ thread = "read shutter" => setting.shutter # Automatic
  /\ thread = "compare" => local.shutter = Stage("shutter", Shutters, 1)
  /\ thread = "next stage" => stage \in 1 .. Len(Gains) /\ Below(stage, stage)
  /\ thread = "stage shutter" => stage \in 2 .. Len(Gains) /\ Below(stage - 1, stage - 1)
  /\ thread = "stage gain" => stage \in 2 .. Len(Gains) /\ Below(stage, stage - 1)
  /\ thread = "set" => X!ExposureOnTarget

Manuals == [shutter : Values \cup {Automatic}, gain : Values \cup {Automatic}]

ExposureInv ==
  /\ setting \in Manuals /\ given \in Manuals
  /\ DOMAIN local = Kinds
  /\ thread \notin {"idle", "begin"} => target \in Values
  /\ steady => OnTheWay

LEMMA Tables ==
  /\ GoesUp(Shutters) /\ GoesUp(Gains)
  /\ Shutters \in Seq(Values) /\ Gains \in Seq(Values)
  /\ Len(Shutters) = Len(Gains) /\ Len(Gains) \in Nat \ {0}
  /\ Wanted \subseteq Values /\ Times \subseteq Values /\ Factors \subseteq Values
<1>1. /\ GoesUp(Shutters) /\ GoesUp(Gains) /\ Len(Shutters) = Len(Gains)
      /\ \A q \in Wanted \cup Times \cup Factors : q \in Values
  BY ExposureParameters, ExposuresAreValues
<1>2. Shutters \in Seq(Values) /\ Gains \in Seq(Values) /\ Gains # << >>
  BY <1>1, ExposuresAreValues DEF GoesUp
<1>3. Len(Gains) \in Nat \ {0}
  BY <1>2
<1> QED BY <1>1, <1>2, <1>3

LEMMA LimitsAreStages ==
  /\ X!Least("shutter", Shutters) = Stage("shutter", Shutters, 1)
  /\ X!Least("gain", Gains) = Stage("gain", Gains, 1)
  /\ X!Best("shutter", Shutters) = Stage("shutter", Shutters, Len(Gains))
  /\ X!Best("gain", Gains) = Stage("gain", Gains, Len(Gains))
<1>1. Len(Shutters) = Len(Gains)
  BY Tables
<1> QED BY <1>1, Zenon DEF X!Least, X!Best, X!Manual, Stage, Automatic

LEMMA ClippedIs ==
  ASSUME NEW lo \in Reduced, NEW t \in Reduced, NEW hi \in Reduced, AtMost(lo, hi)
  PROVE  /\ AtMost(t, lo) => X!Clipped(lo, t, hi) = lo
         /\ AtMost(lo, t) /\ AtMost(t, hi) => X!Clipped(lo, t, hi) = t
         /\ AtMost(hi, t) => X!Clipped(lo, t, hi) = hi
<1> DEFINE m == IF Less(hi, t) THEN hi ELSE t
<1>1. X!Clipped(lo, t, hi) = IF Less(lo, m) THEN m ELSE lo
  BY SameArithmetic, Zenon DEF X!Clipped, MinQ, MaxQ
<1>2. lo \in Rat /\ t \in Rat /\ hi \in Rat
  BY DEF Reduced
<1>3. /\ Less(hi, t) <=> ~ AtMost(t, hi)
      /\ Less(lo, hi) <=> ~ AtMost(hi, lo)
      /\ Less(lo, t) <=> ~ AtMost(t, lo)
  BY <1>2, AtMostOrder
<1>4. CASE AtMost(t, lo)
  <2>1. AtMost(t, hi)
    BY <1>2, <1>4, AtMostOrder
  <2>2. m = t /\ X!Clipped(lo, t, hi) = lo
    BY <1>1, <1>3, <1>4, <2>1, Zenon
  <2>3. AtMost(lo, t) => t = lo
    BY <1>4, SameValue
  <2>4. AtMost(hi, t) => AtMost(hi, lo)
    BY <1>2, <1>4, AtMostOrder
  <2>5. AtMost(hi, t) => hi = lo
    BY <2>4, SameValue
  <2> QED BY <2>2, <2>3, <2>5
<1>5. CASE ~ AtMost(t, lo)
  <2>1. CASE AtMost(t, hi)
    <3>1. m = t /\ X!Clipped(lo, t, hi) = t
      BY <1>1, <1>3, <1>5, <2>1, Zenon
    <3>2. AtMost(hi, t) => hi = t
      BY <2>1, SameValue
    <3> QED BY <1>5, <3>1, <3>2
  <2>2. CASE ~ AtMost(t, hi)
    <3>1. m = hi
      BY <1>3, <2>2, Zenon
    <3>2. Less(lo, hi) => X!Clipped(lo, t, hi) = hi
      BY <1>1, <3>1, Zenon
    <3>3. ~ Less(lo, hi) => X!Clipped(lo, t, hi) = lo /\ lo = hi
      BY <1>1, <1>3, <3>1, SameValue, Zenon
    <3> QED BY <1>5, <2>2, <3>2, <3>3
  <2> QED BY <2>1, <2>2
<1> QED BY <1>4, <1>5

\* The products of the stages.
Product(m, n) == Mul(Stage("shutter", Shutters, m), Stage("gain", Gains, n))

LEMMA ProductsGoUp ==
  ASSUME setting \in Manuals,
         NEW m \in 1 .. Len(Gains), NEW n \in 1 .. Len(Gains),
         NEW i \in 1 .. Len(Gains), NEW j \in 1 .. Len(Gains), m <= i, n <= j
  PROVE  /\ Product(m, n) \in Reduced /\ Product(i, j) \in Reduced
         /\ AtMost(Product(m, n), Product(i, j))
<1>1. /\ setting["shutter"] \in Values \cup {Automatic} /\ setting["gain"] \in Values \cup {Automatic}
      /\ "shutter" \in Kinds /\ "gain" \in Kinds
  BY DEF Manuals, Kinds
<1> DEFINE a == Stage("shutter", Shutters, m)
           b == Stage("gain", Gains, n)
           c == Stage("shutter", Shutters, i)
           d == Stage("gain", Gains, j)
<1>2. a \in Values /\ c \in Values /\ AtMost(a, c)
  BY <1>1, Tables, StagesGoUp
<1>3. b \in Values /\ d \in Values /\ AtMost(b, d)
  BY <1>1, Tables, StagesGoUp
<1> HIDE DEF a, b, c, d
<1>4. a \in Rat /\ b \in Rat /\ c \in Rat /\ d \in Rat /\ b \in PositiveRat /\ c \in PositiveRat
  BY <1>2, <1>3 DEF Values, Reduced
<1>5. AtMost(Mul(a, b), Mul(c, b))
  BY <1>2, <1>4, MulGrows
<1>6. AtMost(Mul(c, b), Mul(c, d))
  BY <1>3, <1>4, MulGrows
<1>7. Mul(a, b) \in Reduced /\ Mul(c, d) \in Reduced /\ Mul(c, b) \in Reduced
  BY <1>4, MulIs
<1>8. AtMost(Mul(a, b), Mul(c, d))
  BY <1>5, <1>6, <1>7, AtMostOrder DEF Reduced
<1> QED BY <1>7, <1>8 DEF Product, a, b, c, d

\* With one of these products __agc has done what it can.
Done(p, t) ==
  \/ p = Product(1, 1) /\ AtMost(t, p)
  \/ p = t /\ AtMost(Product(1, 1), t) /\ AtMost(t, Product(Len(Gains), Len(Gains)))
  \/ p = Product(Len(Gains), Len(Gains)) /\ AtMost(p, t)

LEMMA DoneIsOnTarget ==
  ASSUME setting \in Manuals, UNCHANGED <<setting, target>>, target \in Values,
         \A what \in Kinds : setting[what] # Automatic => local'[what] = setting[what],
         Done(Mul(local'.shutter, local'.gain), target)
  PROVE  X!ExposureOnTarget'
<1> DEFINE n == Len(Gains)
           lo == Product(1, 1)
           hi == Product(n, n)
<1>1. 1 \in 1 .. n /\ n \in 1 .. n /\ 1 <= n
  BY Tables
<1>2. lo \in Reduced /\ hi \in Reduced /\ AtMost(lo, hi)
  BY <1>1, ProductsGoUp
<1>3. target \in Reduced
  BY DEF Values
<1> HIDE DEF lo, hi
<1>4. Mul(local'.shutter, local'.gain) = X!Clipped(lo, target, hi)
  BY <1>2, <1>3, ClippedIs DEF Done, lo, hi
<1>5. /\ lo = X!Mul(X!Least("shutter", Shutters), X!Least("gain", Gains))
      /\ hi = X!Mul(X!Best("shutter", Shutters), X!Best("gain", Gains))
  BY LimitsAreStages, SameArithmetic, Zenon DEF lo, hi, n, Product
<1>6. X!Product(local)' = Mul(local'.shutter, local'.gain)
  BY SameArithmetic, Zenon DEF X!Product
<1>7. /\ UNCHANGED X!Least("shutter", Shutters) /\ UNCHANGED X!Least("gain", Gains)
      /\ UNCHANGED X!Best("shutter", Shutters) /\ UNCHANGED X!Best("gain", Gains)
  BY Zenon DEF X!Least, X!Best, X!Manual
<1>8. X!Product(local)' =
        X!Clipped(X!Mul(X!Least("shutter", Shutters), X!Least("gain", Gains)), target,
                  X!Mul(X!Best("shutter", Shutters), X!Best("gain", Gains)))'
  BY <1>4, <1>5, <1>6, <1>7, Zenon
<1>9. \A what \in {"shutter", "gain"} : X!Manual(what)' => local'[what] = setting'[what]
  BY Zenon DEF X!Manual, Kinds, Automatic
<1> QED BY <1>8, <1>9, Zenon DEF X!ExposureOnTarget

LEMMA StagesStay ==
  ASSUME UNCHANGED setting
  PROVE  \A what, table, n : Stage(what, table, n)' = Stage(what, table, n)
BY DEF Stage

\* A step that raises one of the two to its next stage, or as far as the target asks.
LEMMA Raised ==
  ASSUME ExposureInv, steady, NEW what \in Kinds, NEW other \in Kinds, what # other,
         NEW table, table = IF what = "shutter" THEN Shutters ELSE Gains,
         NEW from, NEW next_, X!RaiseTo(from, what, other, table, next_),
         stage \in 2 .. Len(Gains),
         local[what] = Stage(what, table, stage - 1),
         NEW m \in 1 .. Len(Gains),
         local[other] = Stage(other, IF what = "shutter" THEN Gains ELSE Shutters, m),
         Less(Mul(local.shutter, local.gain), target), thread \notin {"idle", "begin"}
  PROVE  \/ thread' = "set" /\ X!ExposureOnTarget'
         \/ /\ thread' = next_
            /\ local'[what] = Stage(what, table, stage) /\ local'[other] = local[other]
            /\ Less(Mul(local'.shutter, local'.gain), target)
<1> DEFINE n == Len(Gains)
           k == stage - 1
           factor == Stage(what, table, stage)
<1>1. /\ setting \in Manuals /\ target \in Values /\ DOMAIN local = Kinds
      /\ target \in Reduced /\ target \in Rat
      /\ UNCHANGED <<setting, target, stage>>
  BY DEF ExposureInv, X!RaiseTo, X!Unchanged, Values, Reduced
<1>2. /\ 1 \in 1 .. n /\ k \in 1 .. n /\ stage \in 1 .. n /\ n \in 1 .. n
      /\ 1 <= k /\ k <= stage /\ stage <= n /\ 1 <= m /\ m <= n
  BY Tables
<1>3. \/ what = "shutter" /\ other = "gain" /\ table = Shutters
      \/ what = "gain" /\ other = "shutter" /\ table = Gains
  <2>1. \/ what = "shutter" /\ other = "gain"
        \/ what = "gain" /\ other = "shutter"
    BY DEF Kinds
  <2>2. what = "shutter" => table = Shutters
    BY Zenon
  <2>3. what = "gain" => what # "shutter"
    OBVIOUS
  <2>4. what # "shutter" => table = Gains
    BY Zenon
  <2> QED BY <2>1, <2>2, <2>3, <2>4
<1>4. /\ factor \in Values /\ local[what] \in Values
      /\ GoesUp(table) /\ Len(table) = n
  <2>1. setting[what] \in Values \cup {Automatic}
    BY <1>1 DEF Manuals, Kinds
  <2>2. GoesUp(table) /\ Len(table) = n
    BY <1>3, Tables
  <2> QED BY <1>2, <2>1, <2>2, StagesGoUp
<1>5. local[other] \in Values
  <2>1. setting[other] \in Values \cup {Automatic}
    BY <1>1 DEF Manuals, Kinds
  <2>2. GoesUp(Shutters) /\ GoesUp(Gains) /\ Len(Shutters) = n
    BY Tables
  <2>3. m <= m
    BY <1>2
  <2> QED BY <1>2, <2>1, <2>2, <2>3, StagesGoUp
<1>6. local[other] \in PositiveRat /\ local[other] \in Rat /\ factor \in Rat
  BY <1>4, <1>5 DEF Values, Reduced
\* The products before and after a whole stage.
<1>7. /\ Mul(local.shutter, local.gain) = IF what = "shutter" THEN Product(k, m) ELSE Product(m, k)
      /\ Mul(factor, local[other]) = IF what = "shutter" THEN Product(stage, m) ELSE Product(m, stage)
  <2>1. Mul(factor, local[other]) = Mul(local[other], factor)
    BY <1>6, MulIs
  <2> QED BY <1>3, <2>1, Zenon DEF Product
<1>8. AtMost(Product(1, 1), Mul(local.shutter, local.gain)) /\ Mul(local.shutter, local.gain) \in Reduced
  BY <1>1, <1>2, <1>3, <1>7, ProductsGoUp
<1>9. AtMost(Mul(factor, local[other]), Product(n, n)) /\ Mul(factor, local[other]) \in Reduced
  BY <1>1, <1>2, <1>3, <1>7, ProductsGoUp
<1>10. Product(1, 1) \in Reduced /\ Product(n, n) \in Reduced
  BY <1>1, <1>2, ProductsGoUp
<1> HIDE DEF n, k, factor
<1>11. CASE setting[what] # Automatic
  <2>1. local' = local /\ thread' = next_
    BY <1>11, Zenon DEF X!RaiseTo, Automatic
  <2>2. Stage(what, table, stage) = Stage(what, table, stage - 1)
    BY <1>11, Zenon DEF Stage
  <2> QED BY <2>1, <2>2
<1>12. CASE setting[what] = Automatic
  <2>1. factor = table[stage]
    BY <1>12, Zenon DEF Stage, factor
  <2>2. CASE AtMost(target, Mul(factor, local[other]))
    <3>1. /\ local' = [local EXCEPT ![what] = Over(target, local[other])]
          /\ thread' = "set"
      BY <1>12, <2>1, <2>2, SameArithmetic, Zenon DEF X!RaiseTo, Automatic
    <3>2. local'[what] = Over(target, local[other]) /\ local'[other] = local[other]
      BY <1>1, <3>1
    <3>3. Mul(local'.shutter, local'.gain) = target
      BY <1>1, <1>3, <1>6, <3>2, OverIs
    <3>4. AtMost(Mul(local.shutter, local.gain), target)
      BY <1>1, <1>8, AtMostOrder DEF Reduced
    <3>5. AtMost(Product(1, 1), target)
      BY <1>1, <1>8, <1>10, <3>4, AtMostOrder DEF Reduced
    <3>6. AtMost(target, Product(n, n))
      BY <1>1, <1>9, <1>10, <2>2, AtMostOrder DEF Reduced
    <3>7. Done(Mul(local'.shutter, local'.gain), target)
      BY <3>3, <3>5, <3>6 DEF Done, n
    <3>8. \A kind_ \in Kinds : setting[kind_] # Automatic => local'[kind_] = setting[kind_]
      <4>1. setting[other] # Automatic => local[other] = setting[other]
        BY Zenon DEF Stage
      <4> QED BY <1>3, <1>12, <3>2, <4>1 DEF Kinds
    <3> QED BY <1>1, <3>1, <3>7, <3>8, DoneIsOnTarget
  <2>3. CASE ~ AtMost(target, Mul(factor, local[other]))
    <3>1. local' = [local EXCEPT ![what] = factor] /\ thread' = next_
      BY <1>12, <2>1, <2>3, SameArithmetic, Zenon DEF X!RaiseTo, Automatic
    <3>2. local'[what] = factor /\ local'[other] = local[other]
      BY <1>1, <3>1
    <3>3. Mul(local'.shutter, local'.gain) = Mul(factor, local[other])
      BY <1>3, <1>6, <3>2, MulIs
    <3>4. Less(Mul(factor, local[other]), target)
      BY <1>1, <1>9, <2>3, AtMostOrder DEF Reduced
    <3> QED BY <3>1, <3>2, <3>3, <3>4 DEF factor
  <2> QED BY <2>2, <2>3
<1> QED BY <1>11, <1>12

LEMMA StageNumbers ==
  ASSUME NEW n \in Nat
  PROVE  /\ \A k \in 1 .. n : IF k < n THEN k + 1 \in 2 .. n /\ (k + 1) - 1 = k ELSE k = n
         /\ \A k \in 2 .. n : k - 1 \in 1 .. n /\ k \in 1 .. n
OBVIOUS

LEMMA OnTheWayKept ==
  ASSUME ExposureInv, X!Next, steady'
  PROVE  OnTheWay'
<1>0. /\ setting \in Manuals
      /\ DOMAIN local = Kinds
      /\ steady => OnTheWay
      /\ thread \notin {"idle", "begin"} => target \in Values
  BY DEF ExposureInv
<1>1. CASE UNCHANGED <<setting, thread, stage, local, target, steady>>
  <2>1. OnTheWay
    BY <1>0, <1>1
  <2>2. \A what, table, n : Stage(what, table, n)' = Stage(what, table, n)
    BY <1>1, StagesStay
  <2>3. \A m, n : Below(m, n)' <=> Below(m, n)
    BY <1>1, <2>2, Zenon DEF Below
  <2>4. X!ExposureOnTarget' <=> X!ExposureOnTarget
    BY <1>1, Zenon DEF X!ExposureOnTarget, X!Manual, X!Least, X!Best, X!Product
  <2> QED BY <1>1, <2>1, <2>2, <2>3, <2>4 DEF OnTheWay
<1>2. CASE thread' \in {"idle", "begin", "test gain", "dead"}
  BY <1>2 DEF OnTheWay
<1>3. CASE X!SetExposureSettings \/ X!Rest
  <2>1. UNCHANGED <<setting, thread, stage, local, target, steady>>
    BY <1>3 DEF X!SetExposureSettings, X!Rest, X!vars
  <2> QED BY <1>1, <2>1
<1>4. ASSUME NEW what, NEW to, X!Assign(what, to) PROVE FALSE
  BY <1>4 DEF X!Assign
<1>5. CASE X!AdjustSettingFromIsp \/ X!Begin \/ X!SetUnicamExposure
  <2>1. thread' \in {"idle", "begin", "test gain"}
    BY <1>5 DEF X!AdjustSettingFromIsp, X!Adjust, X!Begin, X!SetUnicamExposure
  <2> QED BY <1>2, <2>1
<1>6. ASSUME UNCHANGED <<setting, steady>>
      PROVE  /\ steady /\ OnTheWay
             /\ \A what, table, n : Stage(what, table, n)' = Stage(what, table, n)
  BY <1>0, <1>6, StagesStay
<1>7. CASE X!Test("test gain", "gain", Gains, "read gain", "test shutter")
  <2>1. UNCHANGED <<setting, steady>> /\ thread' \in {"read gain", "test shutter"}
    BY <1>7 DEF X!Test, X!Unchanged
  <2>2. CASE setting.gain = Automatic
    <3>1. local'.gain = Gains[1] /\ thread' = "test shutter"
      BY <1>0, <1>7, <2>2 DEF X!Test, Automatic, Kinds
    <3>2. Stage("gain", Gains, 1)' = Gains[1]
      BY <2>1, <2>2, Zenon DEF Stage
    <3> QED BY <3>1, <3>2 DEF OnTheWay
  <2>3. CASE setting.gain # Automatic
    <3>1. thread' = "read gain"
      BY <1>7, <2>3 DEF X!Test, Automatic
    <3> QED BY <2>1, <2>3, <3>1 DEF OnTheWay
  <2> QED BY <2>2, <2>3
<1>8. CASE X!Read("read gain", "gain", "test shutter")
  <2>1. UNCHANGED <<setting, steady>> /\ thread = "read gain" /\ thread' = "test shutter"
    BY <1>8 DEF X!Read, X!Unchanged
  <2>2. local'.gain = setting.gain /\ setting.gain # Automatic
    BY <1>0, <1>6, <1>8, <2>1 DEF X!Read, OnTheWay, Kinds
  <2>3. Stage("gain", Gains, 1)' = setting.gain
    BY <2>1, <2>2, Zenon DEF Stage
  <2> QED BY <2>1, <2>2, <2>3 DEF OnTheWay
<1>9. CASE X!Test("test shutter", "shutter", Shutters, "read shutter", "compare")
  <2>1. /\ UNCHANGED <<setting, steady>> /\ thread = "test shutter"
        /\ thread' \in {"read shutter", "compare"}
    BY <1>9 DEF X!Test, X!Unchanged
  <2>2. local.gain = Stage("gain", Gains, 1)'
    BY <1>6, <2>1 DEF OnTheWay
  <2>3. CASE setting.shutter = Automatic
    <3>1. local'.shutter = Shutters[1] /\ local'.gain = local.gain /\ thread' = "compare"
      BY <1>0, <1>9, <2>3 DEF X!Test, Automatic, Kinds
    <3>2. Stage("shutter", Shutters, 1)' = Shutters[1]
      BY <2>1, <2>3, Zenon DEF Stage
    <3> QED BY <2>2, <3>1, <3>2 DEF OnTheWay
  <2>4. CASE setting.shutter # Automatic
    <3>1. thread' = "read shutter" /\ local' = local
      BY <1>9, <2>4 DEF X!Test, Automatic
    <3> QED BY <2>1, <2>2, <2>4, <3>1 DEF OnTheWay
  <2> QED BY <2>3, <2>4
<1>10. CASE X!Read("read shutter", "shutter", "compare")
  <2>1. UNCHANGED <<setting, steady>> /\ thread = "read shutter" /\ thread' = "compare"
    BY <1>10 DEF X!Read, X!Unchanged
  <2>2. /\ local'.shutter = setting.shutter /\ setting.shutter # Automatic
        /\ local'.gain = local.gain /\ local.gain = Stage("gain", Gains, 1)'
    BY <1>0, <1>6, <1>10, <2>1 DEF X!Read, OnTheWay, Kinds
  <2>3. Stage("shutter", Shutters, 1)' = setting.shutter
    BY <2>1, <2>2, Zenon DEF Stage
  <2> QED BY <2>1, <2>2, <2>3 DEF OnTheWay
<1>11. CASE X!Compare
  <2>1. /\ UNCHANGED <<setting, steady, local, target>> /\ thread = "compare" /\ stage' = 1
        /\ target \in Values
    BY <1>0, <1>11 DEF X!Compare, X!Unchanged
  <2>2. /\ local.shutter = Stage("shutter", Shutters, 1) /\ local.gain = Stage("gain", Gains, 1)
        /\ local.shutter = Stage("shutter", Shutters, 1)' /\ local.gain = Stage("gain", Gains, 1)'
    BY <1>6, <2>1 DEF OnTheWay
  <2>3. Mul(local.shutter, local.gain) = Product(1, 1)
    BY <2>2, Zenon DEF Product
  <2>4. 1 \in 1 .. Len(Gains) /\ 1 <= 1
    BY Tables
  <2>5. Product(1, 1) \in Rat /\ target \in Rat
    BY <1>0, <2>1, <2>4, ProductsGoUp DEF Reduced, Values
  <2>6. CASE thread' = "next stage"
    <3>1. Less(Mul(local.shutter, local.gain), target)
      BY <1>11, <2>6, SameArithmetic DEF X!Compare
    <3> QED BY <2>1, <2>2, <2>4, <2>6, <3>1 DEF OnTheWay, Below
  <2>7. CASE thread' = "set"
    <3>1. ~ Less(Mul(local.shutter, local.gain), target)
      BY <1>11, <2>7, SameArithmetic DEF X!Compare
    <3>2. AtMost(target, Product(1, 1))
      BY <2>3, <2>5, <3>1, AtMostOrder
    <3>3. Done(Mul(local'.shutter, local'.gain), target)
      BY <2>1, <2>3, <3>2 DEF Done
    <3>4. \A what \in Kinds : setting[what] # Automatic => local'[what] = setting[what]
      BY <2>1, <2>2 DEF Kinds, Stage
    <3>5. X!ExposureOnTarget'
      BY <1>0, <2>1, <3>3, <3>4, DoneIsOnTarget
    <3> QED BY <2>7, <3>5 DEF OnTheWay
  <2>8. thread' \in {"dead", "next stage", "set"}
    BY <1>11 DEF X!Compare
  <2> QED BY <1>2, <2>6, <2>7, <2>8
<1>12. CASE X!NextStage
  <2>1. /\ UNCHANGED <<setting, steady, local, target>> /\ thread = "next stage"
        /\ target \in Values
    BY <1>0, <1>12 DEF X!NextStage, X!Unchanged
  <2>2. stage \in 1 .. Len(Gains) /\ Below(stage, stage) /\ Len(Gains) \in Nat
    BY <1>6, <2>1, Tables DEF OnTheWay
  <2>3. CASE stage < Len(Gains)
    <3>1. thread' = "stage shutter" /\ stage' = stage + 1
      BY <1>12, <2>3 DEF X!NextStage
    <3>2. stage' \in 2 .. Len(Gains) /\ stage' - 1 = stage
      BY <2>2, <2>3, <3>1, StageNumbers, Zenon
    <3>3. Below(stage - 1, stage - 1)'
      BY <1>6, <2>1, <2>2, <3>2 DEF Below
    <3> QED BY <3>1, <3>2, <3>3 DEF OnTheWay
  <2>4. CASE ~ (stage < Len(Gains))
    <3>1. thread' = "set" /\ stage = Len(Gains)
      <4>1. stage = Len(Gains)
        BY <2>2, <2>4, StageNumbers, Zenon
      <4>2. thread' = "set"
        BY <1>12, <2>4 DEF X!NextStage
      <4> QED BY <4>1, <4>2
    <3>2. /\ Mul(local.shutter, local.gain) = Product(Len(Gains), Len(Gains))
          /\ Less(Mul(local.shutter, local.gain), target)
      BY <2>2, <3>1, Zenon DEF Below, Product
    <3>3. Len(Gains) \in 1 .. Len(Gains) /\ Len(Gains) <= Len(Gains)
      BY <2>2, <3>1
    <3>4. Product(Len(Gains), Len(Gains)) \in Rat /\ target \in Rat
      BY <1>0, <2>1, <3>3, ProductsGoUp DEF Reduced, Values
    <3>5. AtMost(Product(Len(Gains), Len(Gains)), target)
      BY <3>2, <3>4, AtMostOrder
    <3>6. Done(Mul(local'.shutter, local'.gain), target)
      BY <2>1, <3>2, <3>5 DEF Done
    <3>7. \A what \in Kinds : setting[what] # Automatic => local'[what] = setting[what]
      BY <2>1, <2>2 DEF Kinds, Stage, Below
    <3>8. X!ExposureOnTarget'
      BY <1>0, <2>1, <3>6, <3>7, DoneIsOnTarget
    <3> QED BY <3>1, <3>8 DEF OnTheWay
  <2> QED BY <2>3, <2>4
<1>13. CASE X!RaiseShutter
  <2>1. X!RaiseTo("stage shutter", "shutter", "gain", Shutters, "stage gain")
    BY <1>13, Zenon DEF X!RaiseShutter
  <2>2. UNCHANGED <<setting, steady, target, stage>> /\ thread = "stage shutter"
    BY <2>1 DEF X!RaiseTo, X!Unchanged
  <2>3. stage \in 2 .. Len(Gains) /\ Below(stage - 1, stage - 1) /\ stage - 1 \in 1 .. Len(Gains)
    <3>1. stage \in 2 .. Len(Gains) /\ Len(Gains) \in Nat
      BY <1>6, <2>2, Tables DEF OnTheWay
    <3> QED BY <1>6, <2>2, <3>1, StageNumbers, Zenon DEF OnTheWay
  <2>4. \/ thread' = "set" /\ X!ExposureOnTarget'
        \/ /\ thread' = "stage gain"
           /\ local'.shutter = Stage("shutter", Shutters, stage) /\ local'.gain = local.gain
           /\ Less(Mul(local'.shutter, local'.gain), target)
    BY <1>6, <2>1, <2>2, <2>3, Raised DEF Below, Kinds
  <2>5. CASE thread' = "set" /\ X!ExposureOnTarget'
    BY <2>5 DEF OnTheWay
  <2>6. CASE /\ thread' = "stage gain"
             /\ local'.shutter = Stage("shutter", Shutters, stage) /\ local'.gain = local.gain
             /\ Less(Mul(local'.shutter, local'.gain), target)
    <3>1. Below(stage, stage - 1)'
      BY <1>6, <2>2, <2>3, <2>6 DEF Below
    <3> QED BY <2>2, <2>3, <2>6, <3>1 DEF OnTheWay
  <2> QED BY <2>4, <2>5, <2>6
<1>14. CASE X!RaiseGain
  <2>1. X!RaiseTo("stage gain", "gain", "shutter", Gains, "next stage")
    BY <1>14, Zenon DEF X!RaiseGain
  <2>2. UNCHANGED <<setting, steady, target, stage>> /\ thread = "stage gain"
    BY <2>1 DEF X!RaiseTo, X!Unchanged
  <2>3. stage \in 2 .. Len(Gains) /\ Below(stage, stage - 1) /\ stage \in 1 .. Len(Gains)
    <3>1. stage \in 2 .. Len(Gains) /\ Len(Gains) \in Nat
      BY <1>6, <2>2, Tables DEF OnTheWay
    <3> QED BY <1>6, <2>2, <3>1, StageNumbers, Zenon DEF OnTheWay
  <2>4. \/ thread' = "set" /\ X!ExposureOnTarget'
        \/ /\ thread' = "next stage"
           /\ local'.gain = Stage("gain", Gains, stage) /\ local'.shutter = local.shutter
           /\ Less(Mul(local'.shutter, local'.gain), target)
    BY <1>6, <2>1, <2>2, <2>3, Raised DEF Below, Kinds
  <2>5. CASE thread' = "set" /\ X!ExposureOnTarget'
    BY <2>5 DEF OnTheWay
  <2>6. CASE /\ thread' = "next stage"
             /\ local'.gain = Stage("gain", Gains, stage) /\ local'.shutter = local.shutter
             /\ Less(Mul(local'.shutter, local'.gain), target)
    <3>1. Below(stage, stage)'
      BY <1>6, <2>2, <2>3, <2>6 DEF Below
    <3> QED BY <2>2, <2>3, <2>6, <3>1 DEF OnTheWay
  <2> QED BY <2>4, <2>5, <2>6
<1> QED
  BY <1>3, <1>4, <1>5, <1>7, <1>8, <1>9, <1>10, <1>11, <1>12, <1>13, <1>14
  DEF X!Next, X!Caller, X!Agc

LEMMA InitExposureInv == X!Init => ExposureInv
<1> SUFFICES ASSUME X!Init PROVE ExposureInv
  OBVIOUS
<1>1. setting \in Manuals /\ given \in Manuals
  <2>1. setting \in X!Settings(IF agc THEN {X!Auto} ELSE {}) /\ given = setting
    BY DEF X!Init, X!Allowed
  <2>2. setting \in X!Settings({X!Auto}) \/ setting \in X!Settings({})
    BY <2>1
  <2>3. setting \in Manuals
    BY <2>2, Tables DEF X!Settings, Manuals, Automatic
  <2> QED BY <2>1, <2>3
<1>2. DOMAIN local = Kinds
  BY DEF X!Init, X!Unset, X!Pair, Kinds
<1>3. thread = "idle"
  BY DEF X!Init
<1> QED BY <1>1, <1>2, <1>3 DEF ExposureInv, OnTheWay

LEMMA ExposureTypesKept ==
  ASSUME ExposureInv, X!Next
  PROVE  /\ setting' \in Manuals /\ given' \in Manuals
         /\ DOMAIN local' = Kinds
         /\ thread' \notin {"idle", "begin"} => target' \in Values
<1>0. /\ setting \in Manuals /\ given \in Manuals
      /\ DOMAIN local = Kinds
      /\ thread \notin {"idle", "begin"} => target \in Values
  BY DEF ExposureInv
<1>1. CASE X!SetExposureSettings
  <2>1. given' \in X!Settings(IF agc THEN {X!Auto} ELSE {})
    BY <1>1 DEF X!SetExposureSettings, X!Allowed
  <2>2. given' \in X!Settings({X!Auto}) \/ given' \in X!Settings({})
    BY <2>1
  <2>3. given' \in Manuals
    BY <2>2, Tables DEF X!Settings, Manuals, Automatic
  <2> QED BY <1>0, <1>1, <2>3 DEF X!SetExposureSettings
<1>2. ASSUME NEW what \in Kinds, NEW to, X!Assign(what, to)
      PROVE  /\ setting' \in Manuals
             /\ UNCHANGED <<given, local, thread, target>>
  <2>1. setting' = [setting EXCEPT ![what] = given[what]]
    BY <1>2 DEF X!Assign
  <2>2. setting' \in Manuals
    BY <1>0, <2>1 DEF Manuals, Kinds
  <2> QED BY <1>2, <2>2 DEF X!Assign
<1>3. CASE X!AdjustSettingFromIsp
  BY <1>0, <1>3 DEF X!AdjustSettingFromIsp, X!Adjust, X!caller
<1>4. CASE X!Begin
  <2>1. PICK w_ \in Wanted : target' = X!MinQ(w_, X!Mul(Shutters[Len(Shutters)], Gains[Len(Gains)]))
    BY <1>4 DEF X!Begin
  <2>2. Shutters[Len(Shutters)] \in Values /\ Gains[Len(Gains)] \in Values /\ w_ \in Values
    BY Tables
  <2>3. Mul(Shutters[Len(Shutters)], Gains[Len(Gains)]) \in Values
    BY <2>2, MulIs DEF Values, Reduced
  <2>4. target' \in Values
    BY <2>1, <2>2, <2>3, SameArithmetic, Zenon DEF MinQ
  <2> QED BY <1>0, <1>4, <2>4 DEF X!Begin, X!caller
<1>5. ASSUME NEW what, NEW table, NEW from, NEW again, NEW to, X!Test(from, what, table, again, to)
      PROVE  UNCHANGED <<setting, given, target>> /\ DOMAIN local' = Kinds
  BY <1>0, <1>5 DEF X!Test, X!Unchanged, X!caller
<1>6. ASSUME NEW what, NEW from, NEW to, X!Read(from, what, to)
      PROVE  UNCHANGED <<setting, given, target>> /\ DOMAIN local' = Kinds
  BY <1>0, <1>6 DEF X!Read, X!Unchanged, X!caller
<1>7. CASE X!Compare \/ X!NextStage
  <2>1. UNCHANGED <<setting, given, target, local>> /\ thread \in {"compare", "next stage"}
    BY <1>7 DEF X!Compare, X!NextStage, X!Unchanged, X!caller
  <2> QED BY <1>0, <2>1
<1>8. ASSUME NEW what, NEW other, NEW table, NEW from, NEW to, X!RaiseTo(from, what, other, table, to)
      PROVE  UNCHANGED <<setting, given, target>> /\ DOMAIN local' = Kinds
  BY <1>0, <1>8 DEF X!RaiseTo, X!Unchanged, X!caller
<1>9. CASE X!SetUnicamExposure
  BY <1>0, <1>9 DEF X!SetUnicamExposure, X!Unchanged, X!caller, X!Unset, X!Pair, Kinds
<1>10. CASE X!Rest
  <2>1. UNCHANGED <<setting, given, target, local, thread>>
    BY <1>10 DEF X!Rest, X!vars, X!caller
  <2> QED BY <1>0, <2>1
<1>11. CASE X!Caller
  <2>1. /\ setting' \in Manuals
        /\ UNCHANGED <<given, local, thread, target>>
    BY <1>2, <1>11 DEF X!Caller, Kinds
  <2> QED BY <1>0, <2>1
<1>12. CASE \/ X!Test("test gain", "gain", Gains, "read gain", "test shutter")
            \/ X!Read("read gain", "gain", "test shutter")
            \/ X!Test("test shutter", "shutter", Shutters, "read shutter", "compare")
            \/ X!Read("read shutter", "shutter", "compare")
            \/ X!RaiseShutter \/ X!RaiseGain
  <2>1. UNCHANGED <<setting, given, target>> /\ DOMAIN local' = Kinds
    BY <1>5, <1>6, <1>8, <1>12 DEF X!RaiseShutter, X!RaiseGain
  <2>2. thread \in {"test gain", "read gain", "test shutter", "read shutter", "stage shutter", "stage gain"}
    BY <1>12 DEF X!Test, X!Read, X!RaiseTo, X!RaiseShutter, X!RaiseGain
  <2> QED BY <1>0, <2>1, <2>2
<1> QED
  BY <1>1, <1>3, <1>4, <1>7, <1>9, <1>10, <1>11, <1>12 DEF X!Next, X!Agc

ExposureAlways == object = "exposure" => ExposureInv

\* Whatever exposures are wanted and set, with the tables of any exposure mode: what
\* __agc sets gives the wanted exposure as far as the tables and the manual values
\* allow, and these as they are, if no setting was written since it began
\* (UnicamIspCapture.__agc, set_exposure_settings).
THEOREM ExposureMeetsTarget == AnySpec => []ExposureOnTarget
<1>1. AnyInit => ExposureAlways
  BY InitExposureInv DEF AnyInit, ExposureAlways
<1>2. ExposureAlways /\ [AnyNext]_all => ExposureAlways'
  <2> SUFFICES ASSUME ExposureAlways, [AnyNext]_all, (object = "exposure")' PROVE ExposureInv'
    BY DEF ExposureAlways
  <2>1. CASE object = "exposure" /\ X!Next
    <3>1. ExposureInv
      BY <2>1 DEF ExposureAlways
    <3>2. steady' => OnTheWay'
      BY <2>1, <3>1, OnTheWayKept
    <3>3. /\ setting' \in Manuals /\ given' \in Manuals
          /\ DOMAIN local' = Kinds
          /\ thread' \notin {"idle", "begin"} => target' \in Values
      BY <2>1, <3>1, ExposureTypesKept
    <3> QED BY <3>2, <3>3 DEF ExposureInv
  <2>2. CASE UNCHANGED all
    <3>1. UNCHANGED <<object, setting, given, thread, stage, local, target, steady>>
      BY <2>2 DEF all, common, exposureOnly
    <3>2. ExposureInv
      BY <3>1 DEF ExposureAlways
    <3>3. \A what, table, n : Stage(what, table, n)' = Stage(what, table, n)
      BY <3>1, StagesStay
    <3>4. \A m, n : Below(m, n)' <=> Below(m, n)
      BY <3>1, <3>3, Zenon DEF Below
    <3>5. X!ExposureOnTarget' <=> X!ExposureOnTarget
      BY <3>1, Zenon DEF X!ExposureOnTarget, X!Manual, X!Least, X!Best, X!Product
    <3>6. OnTheWay => OnTheWay'
      BY <3>1, <3>3, <3>4, <3>5 DEF OnTheWay
    <3> QED BY <3>1, <3>2, <3>6 DEF ExposureInv
  <2> QED BY <2>1, <2>2 DEF AnyNext, Exposure, Is
<1>3. ExposureAlways => ExposureOnTarget
  <2> SUFFICES ASSUME ExposureInv PROVE X!ExposureOnTarget
    BY DEF ExposureAlways, ExposureOnTarget
  <2>1. CASE thread = "set" /\ steady
    BY <2>1 DEF ExposureInv, OnTheWay
  <2>2. CASE ~ (thread = "set" /\ steady)
    BY <2>2, Zenon DEF X!ExposureOnTarget
  <2> QED BY <2>1, <2>2
<1> QED BY <1>1, <1>2, <1>3, PTL DEF AnySpec

=============================================================================
