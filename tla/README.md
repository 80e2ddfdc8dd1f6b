# A TLA+ model of actfw-core

actfw-core is the framework an Actcast application for the Raspberry Pi is
written with: an `Application` runs a pipeline of tasks, each one a thread, that
pass camera frames on to each other; servers beside the pipeline answer requests
for a photo or a video stream; captures drive the camera hardware.  This
directory holds TLA+ modules translated from the source under `src/`, the TLC
configurations that check them on small instances, and TLAPS proofs for every
value of the constants.

## 1. The system

| Component | State it keeps | Operations | Interacts with | What makes it correct |
|---|---|---|---|---|
| `Application` (application.py) | `running`, `tasks`, settings | `run`: start, wait, stop, join; `stop`, from a signal handler or a thread; settings | calls `start`, `stop`, `join` of every task | `stop` ends the application whatever the tasks wait for; it returns only after every task has ended |
| Task classes (task/) | `running`, `in_queues`, `out_queues`, `out_queue_id` | `run` of Producer, Pipe, Consumer, Tee, Join; `_inlet`, `_outlet`, `connect`, `stop`, `cleanup` | one pad for every `connect` | items are dealt out and collected in turn, none lost, repeated or reordered; a stopped task ends; cleanup runs once |
| Pads (util/pad.py) | a `Queue(1)` | `put` and `get` with a timeout, blocking or discarding | between two tasks | a blocking pad loses nothing; a discarding pad never blocks its owner |
| `V4LCameraCapture` (capture.py) | the video device, its format | choice of a format, `run` | v4l2/video.py, discarding pads | never blocked by a slow pipeline; captures what was asked for, as far as the camera can |
| `UnicamIspCapture` (unicam_isp_capture.py) | DMA buffers in four device queues, AGC state | setup of sensor and ISP, circulation of the buffers, AGC, contrast, lens shading, AWB | dma_heap, autofocus; the application changes exposure settings | no buffer is lost or in two places; the settings reach the sensor; sensor and ISP agree on what they send |
| `LibcameraCapture` (libcamera_capture.py) | requests in flight | request cycle, errors, timeouts | libcamera | the camera is stopped and released on every path |
| V4L2 video (v4l2/video.py) | device format, mapped buffers | open with retries, format lookup, controls, streaming | kernel | buffers come back to the driver; a setter that succeeds was obeyed |
| Autofocus (autofocus.py) | scan state, lens position, phase data, windows and weights | `parse_pdaf_and_update_focus` and the scans, `set_focus_windows` | Unicam capture | every scan ends, the lens stays in range; weights are of the windows that are set |
| `CommandServer` (command_server.py) | `img`, `img_lock`, a socket | accept loop, a thread per request, `update_image` | pipeline tasks call `update_image` | every request is answered or closed; the image is whole and the latest |
| `LocalVideoServer` (local_video_server.py) | one observable value | `update_image`, a thread per viewer, `stop` | pipeline tasks, application | a viewer never gets an old image again; `stop` returns |
| Service client and server (service_client.py, _private/) | a request id; a loop thread, its channels | request and response over a socket, `teardown` | agent | a call returns with a response or an error |
| System information (system.py) | - | camera device lookup | kernel, firmware | the device chosen matches |
| Notification, heartbeat (\_\_init\_\_.py) | a function | one call | - | - |

Concurrency is everywhere in it: every task, every server loop, every request
handler and every viewer is a thread; the threads meet in queues of one slot with
timeouts of one second, in flags read without a lock, in a lock, a condition and
in sockets.  What is hard to test, with its line, is the list `hazards` of
PROJECT.json, and each property below is aimed at an entry of it.

## 2. The modules

| Module | Of | Composition, abstract view | Runs | Theorems |
|---|---|---|---|---|
| `Pipeline` | application, tasks, pads | composed of all three; any topology as constants | `fan`, `tee`, `camera_cleanup` | `PipelineProofs`: types; stop is obeyed; cleanup and join; captures never block; dealing and taking in turn; order from end to end; a tuple is of one frame |
| `DiscardingPad` | `_PadDiscardingOld` with concurrent putters | - | `races` | `RacesProofs`: types; what a put waits for; one item is kept |
| `CommandServer` | command_server.py | server, handlers, pipeline task, clients, process | `command` | `CommandServerProofs`: types; photos are current; it serves until told |
| `LocalVideoServer` | local_video_server.py | server, viewers, threads that stop it | `video` | `LocalVideoServerProofs`: types; a viewer's images get newer; a woken viewer finds one; the socket outlives the poll loop |
| `ServiceProtocol` | service_client.py, service_server.py, thread.py | client, server, socket | `service`, `service_eof` | `ServiceProtocolProofs`: types; what the loop dies of; nobody is left behind |
| `AutoFocus` | the scans of autofocus.py | capture thread and application | `focus`, `focus_dropout` | `AutoFocusProofs`: types; the lens stays in range and within its slew; the peak is of the sweep; a scan advances with every frame |
| `FocusWindows` | the windows and weights of autofocus.py | capture thread and application, no lock | `races` | `RacesProofs`: weights in use are of the windows set |
| `ExposureControl` | AGC of unicam_isp_capture.py | capture thread and application, no lock | `races` | `RacesProofs`: the exposure is on its target |
| `CaptureRing` | - | abstract: what every capture promises of its buffers | `captures` | - |
| `CaptureState` | - | the state the three captures share, its mapping to `CaptureRing` | `captures` | - |
| `V4LCapture` | capture.py, `Video`, `VideoStream` | implements `CaptureRing` | `captures` | `CapturesProofs`: types; the refinement; off when it is over |
| `UnicamCapture` | run() of unicam_isp_capture.py, `RawVideo` | four devices; implements `CaptureRing` | `captures` | `CapturesProofs`: types; the refinement |
| `LibcameraCapture` | libcamera_capture.py | implements `CaptureRing` | `captures` | `CapturesProofs`: types; the refinement; off when it is over |
| `FormatLookup`, `Environment` | what a constructor takes of the camera and of the host | operators against what the camera or the host means (`MCSetup` has the inputs) | `captures` | `CapturesProofs`: the format; the device, the settings |
| `VideoControls`, `UnicamSetup`, `LensShading`, `ContrastCurve` | what constructors and controls compute | the same, against what the hardware means | `captures`, `focus_window` | `CapturesProofs`: the setup; `RationalProofs`: the contrast |
| `Rational` | floats, as fractions | used by the computations | - | `RationalProofs`: every operator has the value of its name |

What a later extension could add: a chain of tasks as an implementation of a
queue, and white balance.

## 3. The pipeline

### 3.1 `Pipeline.tla`

The constants are an application: its tasks, their classes (`Kind`), the order
they were registered in, the pads and the queue lists that the calls of
`connect` made.  `Topology` and `Registration` are what `connect` and
`register_task` guarantee; besides, every task that reads or writes is connected
(an unconnected one raises IndexError in its first turn) and every task is
registered once.

| State | Code |
|---|---|
| `appRunning`, `appPc`, `appNext` | `Application.running`, the place in `Application.run`, the position of its `for task in self.tasks` |
| `running[t]`, `pc[t]` | `Task.running`, the place in the task's `run` |
| `inId[t]`, `outId[t]` | `in_queue_id` and `out_queue_id`; for Join and Tee the position of their `for` over the queues |
| `hand[t]` | the item in the local variable of `run` (for Join: `results`) |
| `pad[p]` | the content of the pad's `Queue(1)` |
| `cleaned`, `taken`, `sent` | history: calls of `cleanup`, items taken by a task, items put on a pad |

An item is the sequence of the frames it was computed from: a source makes a new
frame, a Pipe passes its item on (what the user's `proc` computes is left out,
that the result belongs to this frame is kept), a Join makes the concatenation.

A step is what a thread does between two points where another thread can be
noticed: reading `running` (`CheckInlet`, `CheckGather`, `CheckOutlet`,
`CheckStop`), one operation on a queue (`GetItem`, `GetEmpty`, `GatherItem`,
`Put`, `PutFull`, `TeePutFull`, `DiscardOld`), one call of `proc` (`Produce`,
`Process`, `Raise`) or of `cleanup`.  A get with a timeout either takes an item
or finds the pad empty at the end of its second; both are possible whenever the
queue is in that state, so the model makes no assumption about time.

The kind `capture` is `V4LCameraCapture`: its `run` replaces `Producer.run` and
its pads are discarding ones, whose `put` is two steps (`DiscardOld`, `Put`).

### 3.2 Properties

| Property | Kind | In words |
|---|---|---|
| `TypeOK` | invariant, proved | types; every queue index is within its list |
| `DealsInTurn` | invariant, proved | the k-th item of a pad is the item of the turn it was due at: nothing lost, repeated or misplaced by timeouts, stops, exceptions |
| `TakesInTurn` | invariant, proved | a task takes from its pads in strict turn, exactly what was put there |
| `SinkInOrder`, `JoinPairs` | invariants, proved | the same from end to end for two topologies: the assertions of tests/test_pipeline.py under every schedule; `JoinPairs` as long as Tee has passed over no full pad: after that the pairs are shifted for good, as the code has it, and only `NeverOvertaken` is left of them |
| `NeverOvertaken` | invariant, proved | the frames of a source get to every pad in order and once, also where some are dropped; in the tuples of a Join at each place of the tuple |
| `CaptureNeverBlocks` | invariant, proved | the put of a capture finds room |
| `StoppedWindsDown` | action property, proved | every step of a stopped task lowers `ToGo`, a bound on the steps it has left |
| `ReturnsCleanedUp` | invariant, proved | `run` returns after all tasks have ended, each with its cleanup called once |
| `StopReturns` | liveness | `stop` leads to the return of `run` |
| `FramesArrive` | liveness | when a source has made its last frame all of them get to a consumer, or the application is being stopped or a proc has raised |

### 3.3 Runs (`MCPipeline.tla`)

| Run | Topology and bound | Shows |
|---|---|---|
| `fan` | source, two pipes, consumer; 3 frames: each queue list goes round more than once; one pipe may die | order is kept across the parallel branches, every frame arrives, `stop` ends the application with every cleanup done once |
| `tee` | the pipeline of test_pipeline with one Incrementer left out and a capture for its source; 2 frames, so that a shift of one branch would show and the pad of the capture is overwritten; the source and the branch may die | losses where a reader is slow or dead, but no repeats or reorderings; pairs are pairs; a capture is never held back; a stopped task winds down |
| `camera_cleanup` | capture with two pads, a consumer, a pipe and its consumer; 2 frames | the finding below |

Deadlock is checked in every run: the only state without a step of its own is
the one in which `run` has returned, which `Returned` allows.

Fairness is weak fairness of the application thread and of each task thread: the
operating system runs every thread again and again, `proc` returns or raises.
Nothing forces a stop or a signal.  It is enough for `FramesArrive`
because an item stays on its blocking pad until its one reader takes it, and a
free slot stays free until its one writer fills it.  `MaxItems` bounds what a
source makes while it runs; a call of `proc` that a stop finds it in still
returns, which makes it one more.  In `fan` the source is not one of the tasks
that may die: at the bound, raising would be its only step, and fairness would
make it raise.

### 3.4 Finding

`CleanupAtEndOfRun` states what the docstring of `Producer.cleanup` says
(task/producer.py:60).  The run `camera_cleanup` refutes it: `V4LCameraCapture`
is a Producer whose `run` override (capture.py:179) never calls `cleanup`; the
overrides of the other two captures do not either.

### 3.5 Theorems (`PipelineProofs.tla`)

For every topology, every number of tasks and of frames:

| Theorem | Statement | Argument |
|---|---|---|
| `TypeCorrect` | `[]TypeOK` | `TypeOK` is inductive together with `PlaceOK`: a task is only at places of its own class's code, so a get is made only by a task that has `in_queues` |
| `JoinedAndCleanedUp` | `[]ReturnsCleanedUp` | `Control` ties the place of `Application.run` to the places of the tasks: below `appNext` they are started, stopped or ended; `cleaned` is 1 exactly after the `finally` |
| `StopIsObeyed` | `StoppedWindsDown` | by cases over the steps of one task; `Control` excludes that a stopped task is still to be started, `TypeOK` gives the bound on Tee's position |
| `CaptureFindsRoom` | `[]CaptureNeverBlocks` | a pad has one place in one `out_queues` (`OnlyWriter`), so between the discard and the put only the reader touches it |
| `DealtInTurn` | `[]DealsInTurn` | `Deals`: the pads before `out_queue_id` are one item ahead of the rest, and what was taken is what was dealt out plus the item in the hand; the item dropped at a stop or by an exception is the last one |
| `TakenInTurn` | `[]TakesInTurn` | `Takes`: the items a task has taken from its k-th pad are the first ones that were put there, as many as the rounds of `in_queue_id` it has completed; a get that times out moves nothing |
| `SharedWorkStaysInOrder` | `Fan => []SinkInOrder` | from `Deals` of the producer and `Takes` of the consumer: the dealing of the one and the collecting of the other cancel out, by division with remainder; any number of pipes |
| `FramesStayInOrder` | `NoFanIn => []NeverOvertaken` | `Numbered`: what a source has made is numbered from 1; `Ordered`: what was put on a pad, what a task took, the tuples of a Join (cut at the same places for all of them, place by place) and what a Tee put all ascend in the frames of each source, and what a pad holds is the last that was put there |
| `TuplesAreOneFrame` | `NoFanIn, Diamond => []JoinPairs` | `Gathers`: the k-th tuple of a Join has at its i-th place the k-th item put on its i-th in_queue; `Bounded`: a source makes no frame beyond `MaxItems` but the one a stop finds it at, so the pads of the branches never had to discard; lemma `Branch`: what a branch brings to the Join is what the Tee put, one by one |

The proofs assume `Topology`, `Registration` and `Parameters`, which TLC
evaluates in every run.  The last three are of the forms of topology their
properties are about: `Fan` (one source, any number of pipes, one consumer),
`NoFanIn` (only a Join has more than one in_queue) and `Diamond` (a Tee and a
Join around any number of pipes).  `FanIsAFan`, `TeeHasNoFanIn` and `TeeIsADiamond`
of `MCPipeline`, which every run evaluates, say that the topologies of the
runs are of them.

The proof of `NeverOvertaken` restated the property.  Of the whole tuple it is
false: with four frames, a Tee that has passed over a full pad lets the Join make
the tuples (2, 3) and (3, 4), in which frame 3 comes twice.  `tee`, which has two
frames, is too short to show it.  At each place of the tuple the order holds.

Liveness (`StopReturns`, `FramesArrive`) is model-checked only.

## 4. The discarding pad

`DiscardingPad.tla` is `_PadDiscardingOld` alone, with any number of threads of
its owner that put at once, which the comment in `put` allows, and one reader.
A put is two steps with the queue's lock given up between them (`Discard`,
`Put`); a put that finds the slot taken again waits or, at its timeout, raises
Full (`PutFull`).  Items are counted, not named: `made` is the number of puts
that have put, `mark[p]` what it was when `p` emptied the queue.

The run `races` (3 putters, 6 puts in all, so that each can meet both of the
others twice) checks `FullOnlyByRace`, a put waits only for an item put since it
threw the old one away, and `KeepsOne`, puts that discard each other's items
leave one.  Both are theorems of `RacesProofs` for any number of threads
and puts; `MaxPut` bounds the number of calls.  `MCRaces` composes this module
with `ExposureControl` and `FocusWindows`, the other objects two threads use
without a lock: which of them it is, is chosen at first.  `PadIsDiscardingPad` is the
theorem that the composition does to the pad what `DiscardingPad` says.

## 5. The command server

| State of `CommandServer.tla` | Code |
|---|---|
| `srv`, `conn`, `running`, `file`, `queue` | the place in `CommandServer.run`, its local variable `conn`, `Task.running`, what `sock_path` names, the connections not accepted yet |
| `pc[c]`, `answer[c]` | the place in `_handle_request` of the daemon thread of connection `c`, its local variable `response` |
| `lock`, `img`, `upd` | `img_lock`, `self.img` (the number of the update that gave it; 0 is None), the place in `update_image` |
| `client[c]`, `request[c]` | what the agent has sent and sees |
| `given`, `since[c]` | history: the last image given, the one that was current when `c` was accepted |

`Crash` kills the process and leaves the file of its socket; `Restart` starts a
new one.  The initial states have no file or a stale one.

| Run | Bound | Shows |
|---|---|---|
| `command` | 2 connections, 2 images of which PNG cannot save the last; photo requests, custom commands whose handler may never return, half requests; `stop` at any time; one crash | `Served`: who waits is answered or closed whatever the others do; `UpdateReturns`: the busy wait for the first image does not hold up the pipeline; `PhotoIsCurrent`: a photo is at least as new as what was current when its request was accepted; `ServesUntilStopped`: `run` ends only by `stop`, never because of a stale file, and leaves none |

Two connections are enough for one request to wait, hold the lock or hang while
another one is served; two images for one to be replaced.  Fairness: every
thread goes on (weak), and a thread that asks for `img_lock` gets it in the end
(strong: `threading.Lock` promises no order, but the holder gives it up in every
turn).  Without the strong fairness `UpdateReturns` would be false: that the waiters
are not always faster is assumed and not shown, and what the run shows of the busy
wait is that each waiter gives the lock up in every turn.  No
fairness is assumed of the custom handler, of clients, of `update_image` calls.

`Served` leaves out what the code does not do: a photo request is not answered
before there is an image, half a request is never answered, and the connection
of a handler that died of an exception stays open until `run` accepts the next
one, because its variable `conn` still refers to it.

`CommandServerProofs`, for any number of connections, images and crashes:
`ServesUntilTold` from an invariant on the place of `run` and the file, and
`PhotosAreCurrent` from `IInv`: the image only gets newer while a request is
handled, an answer is made from the image under the lock and not touched
afterwards, and a connection is in the queue once.

Left out: a server without `sock_path` (returns at once), the failure to start a
thread.  A client whose `connect` blocks on the full backlog is one that is not
connected yet.

## 6. The video server

| State of `LocalVideoServer.tla` | Code |
|---|---|
| `srv`, `listening`, `stop[s]` | the place in `run`, the server's socket, the place in each call of `stop` |
| `asked`, `ended` | `BaseServer.__shutdown_request` and `__is_shut_down` of Python's socketserver |
| `lock`, `asleep`, `value` | the condition's lock, the threads asleep in `wait`, `_ObservableValue.value` |
| `pc[v]`, `frame[v]`, `gone` | the place in `do_GET` of viewer `v`'s thread, its variable, the viewers that have left |
| `slept[v]`, `seen[v]` | history: the value when `v` fell asleep, the images written to it |

socketserver and `threading.Condition` are Python's: `Wait`, `ServeEnds` and
`Sleep` model what the file relies on.

| Run | Bound | Shows |
|---|---|---|
| `video` | 2 viewers, 3 images of which JPEG cannot save the second, 2 threads that call `stop` | `OnlyNewer`: no image comes twice or late though `wait` has no predicate; `Delivered`: whoever waits when an image is set gets it or a newer one, leaves, or is cut off by an image that cannot be saved; `StopReturns`, also if `stop` comes before `serve_forever` has begun; `ClosedAfterEnd`: the socket is closed when the poll loop has ended |

Two viewers are enough for `notify` to differ from `notify_all`, three images for
one to pass while another is written, and for the unsavable one to have one before
it and one after it, two calls of `stop` for one to find the loop ended by the
other.  `Ask` is `stop` up to the request of `shutdown`: what comes before it sets a
flag that nobody reads.

`Write` has the error path of `do_GET`: `frame.save` raises for an image whose mode
JPEG does not know (RGBA, P; local_video_server.py:64), the `except` is outside of
the loop, and so the stream of a viewer that is still there ends with this image
and it gets no later one.  `Delivered` says that this and leaving are the only two
ways to miss an image that one has waited for.  An image that is set while a viewer
is being written to may never get to it, and the threads of viewers are not ended by
`stop` (they are daemons): no property says otherwise.  Fairness: every thread goes
on, the lock is granted in the end.

`LocalVideoServerProofs`: `WokenForValue` (the RuntimeError of `wait_new_value`
is never raised: `notify_all` comes after the assignment, and `value` is never
taken back), `SocketOutlivesServing` (the event is set only by the
loop's end, and a call of `stop` closes after the event) and `ViewersGetNewer`
(`seen[v]` is ascending, its last is at most `slept[v]`, and whoever has been
notified sees a `value` above `slept[v]`).

## 7. The signing service

`ServiceProtocol.tla` composes `AgentAppProtocolServiceServer`, its `LoopThread`,
the thread that owns them (`main`: startup, teardown, join) and the callers, each
call with its connection, as `ServiceClient._sendrecv` makes it.

| State | Code |
|---|---|
| `torn`, `loop`, `stream` | `_teardown_ch` is not empty, the place in `_loop` and `_loop_body`, its variable |
| `queue` | the listener's connections that are not accepted |
| `caller[c]`, `what[c]`, `sock[c]` | the place of the call, what it sends, what there is to read: nothing, an answer, the end, ECONNRESET |

A request that cannot be parsed, or BrokenPipeError for a caller that has gone,
ends the loop thread: the error goes into a channel nobody reads, and the
listener stays open, so that later callers are connected and wait for ever.
`teardown` and `join` do not close the listener either.

| Run | Bound | Shows |
|---|---|---|
| `service` | 2 calls that send anything and may be killed; teardown at any time; the server's process ends once | `FailsOnlyByCaller`: the loop dies only of those two causes; `NobodyLeftBehind`: each accepted connection is answered before the next turn; `CallsEnd`: every call ends unless the server is torn down or stuck; `JoinReturns` |
| `service_eof` | 1 call, the process ends once | finding: `EndOfStreamRaises` |

Two calls: one in the hand of the loop, one in the queue.  Fairness: the loop
thread, `join` and the callers that have something to read go on.  Deadlock is
not checked: half a request keeps `_loop_body` in `recv`, and `join` with it, for
ever, which `Stuck` names and the liveness properties exclude.  In `service_eof`
the system stops in the very state that refutes the property.

Finding: `_read_int` and `_read_bytes` take the end of the stream for "nothing
yet" and turn round for ever, so that the RuntimeError `_sendrecv` has for a
response it cannot parse is not raised when the agent ends.  Besides,
`_loop_body` never looks at the kind of a request: a STOP_ACT is answered OK, with
a signature, although the comment there says that only RS_256 is supported, and
`stop_act` takes it for an agreement (`StatusOf`, `ReturnOk`).

`ServiceProtocolProofs`: both invariants, for any calls and any number of
crashes, from `IInv`: whoever is in the queue or has the stream has made its
call, so nobody else comes in its place.

Left out: request ids (nobody compares them), the bytes of messages.

## 8. Autofocus

`AutoFocus.tla` is the state machine of `AutoFocuserBase`: phase detection with
its dropouts, the coarse and the fine sweep of a programmed scan, settling, in
the three modes.  The capture thread calls `parse_pdaf_and_update_focus` (`Frame`)
and `process_contrast_metadata` for the buffers of two devices, in any order; the
application calls `trigger_scan` and `set_focus_value` from its own thread.

| State | Code |
|---|---|
| `mode`, `pdafFrames`, `dropoutFrames` | `afmode` and two fields of `cfg.speeds`, chosen by `Init` and then fixed |
| `af` | the other fields of the focuser, under their names |
| `prev_contrast`, `lensSetting` | the fields of these names |
| `lens` | the last setting the callback was given |
| `caller`, `calls` | where `set_focus_value` is, and its value; the calls so far |
| `beat` | no code: it flips with each frame, so that a frame that changes nothing is a step too and fairness does not choose the statistics |

A frame calls up to five private methods one after another, each of which reads
what the last one wrote.  They are therefore functions from the fields to the
fields (or to the set of what the statistics can make of them), and `Prepare` is
their composition.  Positions are integers.  Where the code calculates - the
shift after gain and squelch, the interpolated peak, the extrapolation of early
termination - the model takes any value in the range of the formula: a peak at
most half-way to the sharper neighbour, a termination from three and a half steps
back to three beyond the target.  What `__doPDAF` multiplies by
`step_count / stepFrames` is multiplied, since the range of the lens rests on it.
Python lists start at 0, `scan_max_index` here at 1.  An update of the lens is
one step: the two threads could also meet between its reads of `fsmooth`.

| Run | Bound | Shows |
|---|---|---|
| `focus` | positions 0 to 6, coarse step 3, fine step 1, slew 2; dropoutFrames 0 or 1; two contrasts that fade into each other, four confidences, three phases; 2 calls | `LensInRange`: phase detection and scans never send the motor out of the range; `SlewLimit`: the setting the device of the lens has moves by the slew at most in a frame; `PeakIsSharpest`: find_peak gets the index of the sharpest record of this sweep; `ScansEnd`; `ManualArrives`: a lens set by hand ends there and get_focus_value says so |
| `focus_dropout` | dropoutFrames 2, auto mode | finding: `AutoScanEnds` |

The bounds are enough for the cases the code distinguishes: a coarse sweep of
three records (the least that has an inner peak), a fine sweep of five (its
limit), coarse steps longer than the slew, so that the scan waits for the lens,
and settings that take three frames to reach.  Fairness: frames keep coming
(`Frame`), with any statistics, and a call that was begun goes on.

Finding: `drop_count` is incremented only when `drop_count + 1` is already
`dropoutFrames`, so that with 2 or more (the default is 6) phase detection never
gives up: a triggered scan in the dark stays in `Pdaf` for ever and further
triggers are ignored.  With 0 and 1 every scan ends.

`SlewLimit` is about `lens`, the setting the device was given last.  In auto and
continuous mode it holds of every step, with a factor of two for the frame that
starts a programmed scan, which moves the lens twice.  In manual mode it does not
hold: the callback of `set_focus_value` gives the device its value at once, from
any distance (autofocus.py:626), and the next frame takes the lens back to the place
that the focuser has slewed it to, from any distance again, and goes on from there.  The
property is then about the frames that find the lens in that place; that it ends
at the value is `ManualArrives`.

`AutoFocusProofs` proves the four safety properties for every range, speed, map
and statistics, from `RangeAssumption` (the default lies in the range) and
`SpeedAssumption` (steps, slew and `stepFrames` are positive: with a `stepFrames`
of 0 the last phase step is not damped and the lens leaves its range).  `SlewLimit`
follows from that of `fsmooth`, since the map from positions to settings is a line
(`SettingsApart`) and the lens is at the setting of `fsmooth` whenever it was not
set by hand (`LensFollows`).  The
invariant `IInv` has `Sweep`, the property itself for any fields, `LensInside`,
which has the target in the range too, and `CallersAreManual`.  Within a frame
the target may be outside; `Recoverable` says that it then is in a state whose
update clamps it, and the heart of the proof, `PhaseStepRecoverable`, that the
phase step which leaves these states has a shift of 0.

`ScansAdvance` is the part of `ScansEnd` that needs no fairness.  A programmed scan
has a rank of natural numbers, compared one after the other: the sweeps left
(`Stage`), the way or the records left of the sweep (`Ahead`), and the distance of
the lens with the frames to wait (`Wait`).  Every frame lowers it, whatever it
measures, and no other step touches the scan; so the scan is over after finitely many
frames.  It needs what `IInv` does not say: a manual focuser does not scan, a lens that
is scanned with is placed, and the fine sweep has at most four records between the frames
(`ScanInv`).  Phase detection has no such rank, since a frame of low confidence leaves
it as it is: that is the finding above.

Left out: the decoding of the statistics (`parse_pdaf`, and which cells
`__get_phase` and `__get_contrast` add up), `pause_flag`, which nothing sets, and
a callback that raises, which ends the capture.

### 8.1 The focus windows

`FocusWindows.tla`: `set_focus_windows` clears the list, appends window by window
and at last sets the two sums of weights to 0; the capture thread tests a sum,
computes the weights from the list when it is 0, and divides by it.  No lock; a
step is one read or write that the other thread can notice.

| State | Code |
|---|---|
| `windows`, `app`, `given`, `calls` | `self.windows`, the place in `set_focus_windows`, what it has still to append, the calls so far |
| `w[k]`, `sum[k]` | `w` and `sum` of `phaseWeights` and `contrastWeights`, as the windows that were added to them |
| `pc`, `kind`, `next`, `read` | the place in `__get_phase`, `__get_contrast` and `__compute_weights`, and their variables |
| `hit[k]` | history: the weights were invalidated while they were computed |

`WindowsSettle` (run `races`, 2 windows, 2 calls, lists up to one window longer
than the ISP can have): between the calls weights in use are those of the windows
that are set, and their sum belongs to them, with one exception the property
names, `hit`: an invalidation that comes just while the weights are computed is
lost or spoils the sum, and one just after the test makes the division fail, with
ZeroDivisionError in the capture thread.  The code leaves that window open: the
model has it and no property excludes it.  The property says that there is no other
one.  Two calls are the least in which a
second one meets the weights of the first.

`WindowsDoSettle` of `RacesProofs` proves it for any lists of windows and any
number of calls.  The invariant `WindowsInv` says of weights that no call has
invalidated or is about to: while they are computed they are those of the windows
before `next` (`Partial`), else of all the windows that are set (`Settled`); and a
thread that is about to divide has a sum, unless it was `hit` (`DivisorsThere`).
The application appends to the list only while an invalidation is to come
(`Pending`), which is why it does not disturb them.

Where a window lies on the sensor is `SetFocusWindow` of `UnicamSetup`.  Finding
(`focus_window`): `set_focus_windows` documents its boxes as "defined in capture
image coordinate system", but leaves out the factor by which the ISP scales its
crop to the captured image.  `WholeImageWhole`, a window over the whole image is
what the image shows, fails for every size that is not the crop's.  Besides,
the constructor subtracts `crop[0]` from the height of `statsRegion` where
`crop[1]` is meant (autofocus.py:594).

## 9. The captures

The three captures are threads around a driver that owns the buffers of the
frames.  `CaptureRing` says what any of them promises: a buffer is the program's
or the camera's; only the camera writes a buffer it has, a picture newer than
every one there is; the program gives out only what it reads in a buffer of its
own, and never one older than the last.  `CaptureState` has what they share, and
the mapping: the owner of a buffer is the program when its `place` is "program",
else the camera.  `BuffersGoRound` is `CaptureRing`'s specification under this
mapping, and each capture implements it.

| State | Code |
|---|---|
| `pc`, `running`, `raising` | the place in the constructor or `run`; `Task.running`; an exception is on its way through `__exit__` or `finally` |
| `tries`, `opened`, `streaming` | retries of `Video.__init__`; the device is open; STREAMON, `camera.start()` |
| `place[b]`, `picture[b]` | who has the buffer - the program, the driver to fill it, the driver with a picture; the number of the picture in it |
| `taken` | `V4LCapture`: the buffer `capture` holds; `LibcameraCapture`: the requests `get_ready_requests` gave, or those submitted; `UnicamCapture`: the dequeued image |
| `clock`, `last` | the pictures taken; history: the one given out last |
| `rawPlace[r]`, `rawPicture[r]`, `stats`, `todo` | `UnicamCapture`: the DMA buffers between unicam and the input of the ISP; buffers of metadata; what `select` reported and is not handled |

Every call of a driver may fail, at every place, and the exception takes the
code's way: `V4LCapture` leaves the `with` of the stream, unmaps and stops;
`LibcameraCapture` goes through `finally`; `UnicamCapture` has neither.  A
constructor that fails leaves the device open, or the camera acquired, as the
code does.  Drivers hand out buffers in the order in which they filled them.

| Property | In words |
|---|---|
| `BuffersGoRound` | the refinement: no buffer is read while the camera may write it, no picture twice, none older than the last |
| `StopEndsRun` | liveness: a stopped capture ends its run, whatever the camera does |
| `DmaBuffersComeBack` | liveness: a DMA buffer the ISP was given comes back to unicam unless the run is over |
| `OverIsOff` | when `run` is over the camera does not stream, and after an exception all buffers are the program's - for the two captures that stop anything, and unless munmap or STREAMOFF fail themselves |

Run `captures` (`MCCaptures.tla`): the kind of the capture is chosen at first,
and then it has that kind's steps.  Two buffers are enough for one to be filled
while the other one is read; two DMA buffers for one to be in the ISP while the
next arrives; four pictures so that each buffer goes round twice; one buffer of
metadata per device.  Fairness: the thread of the capture goes on (every `select`
has a timeout of its own, drivers answer), and the ISP converts what it is given.
No fairness is assumed of the sensor or of `stop`.

`UnicamIspCapture.run` stops no device, neither at its end nor after an
exception; and `LibcameraCapture` does not look at the result of
`queue_request`.  The properties do not say otherwise.

`CapturesProofs` proves `BuffersGoRound` for any sets of buffers and any number of
pictures: of `MCCaptures` as it is checked (`EveryCaptureGoesRound`; it EXTENDS
`UnicamCapture`, so that the actions of this capture are its own) and of each capture
by itself (`BuffersGoRoundHolds`, `V4LGoesRound`, `LibcameraGoesRound`).  The
invariant: what is ready is newer than what was given out, and no two of it are
the same picture; the buffer being read is the program's and holds the oldest
picture that is still to come (`InOrder`); in the Unicam capture also what is on its
way through the two devices is newer than all the ISP has made frames of, and in
order.  Without the last one the ISP could fill a buffer with an older picture.
`NoneLent` and `NotYetLent` say that nothing is lent before streaming begins.  Each
action then is a `Fill`, `Lend`, `TakeBack`, `Show` or a stutter.

`OffWhenOver` is `OverIsOff`, with an invariant for each of the two captures
(`V4LOff`, `LibcameraOff`) that follows an exception on its way out: after STREAMOFF
or `camera.stop()` nothing streams, and the buffers are back.

## 10. What the constructors compute

These modules are operators: a record of what is asked and one of what the
hardware offers give a record of what the code makes of them.  `MCSetup` has the
inputs; in `captures` each is an initial state of a kind of its own, and one step
computes the result.  The properties compare it with a definition that says what
the result means on the side of the hardware or the host.

| Module | Code | Property | Inputs |
|---|---|---|---|
| `FormatLookup` | `query_capability`, `lookup_config`, and the constructor of `V4LCameraCapture`, which selects | `FormatChosen`: what is chosen is offered and no less than what was asked for; no discrete mode undercuts it (PROPER) or exceeds it (MAXIMUM), and the expected format goes before the fallbacks; an error only when nothing fits | seven cameras with discrete, continuous and stepwise sizes and rates; three drivers, sizes, rates, all selectors |
| `VideoControls` | the setters of `Video` and `RawVideo`, `init_controls` | `SetUpHolds`, first part: a setter that succeeds has put every control where it was asked to be, and touched no other | drivers that obey, keep, adjust, refuse or lack a control, one control different from the rest |
| `UnicamSetup` | mode, crop, flips, bus format, blanking, codes of `__setup_pipeline` | `SetUpHolds`, second part: the bus format is the pattern the flipped sensor sends; the crop lies in the middle and has the shape of the frame; of the frame lengths, exposures and gains that the sensor can do it has the one next to what was asked (`Nearest`) | three sensors, each with wide and with narrow ranges, that clamp or refuse; four sizes, given and automatic modes, three rates, flips, two exposures with a gain each, without AGC |
| `LensShading` | `__get_cal_table` to `__populate_ls_table` | `SetUpHolds`, third part: the table lies between its neighbours; each cell has what the sensor has at that place; the grid covers the picture and fits the memory; gains are ones the ISP can hold | every mode of the three sensors, five temperatures, 0, 1 and 3 calibrations; one axis at a time |
| `ContrastCurve` | `__cumulative_quantile` to `__contrast_control` | `ContrastRight`: a quantile lies in its bin; curves rise; the composed curve is the composition at every level; the ISP is given levels that rise | every histogram of four bins with counts 0 to 2; two gammas, three configurations; levels up to `Top`, 16, for the code's 65535 |
| `Environment` | system.py, the first lines of the captures, `AppSettings`, `get_settings` | `EnvironmentUsed`: the device is the one the host calls the image source, else the default, else an error; the video device found is of the first camera with that port; a setting is the act's when its type is the schema's, else the default | supplies with 0 to 2 cameras, labelled, unlabelled and malformed nodes; values and types of all kinds |

`CapturesProofs` proves all four properties, of every input.  `FormatIsChosen`: for
every camera whose numbers are bounded and whose grids of sizes end at the largest
one (`CameraOk`), and every request with positive rates, `FormatChosen` holds of what
the constructor makes of it.  It rests on `ConfigIs` (what a place of the camera's
list gives is offered and meets the request), `ModeListed` (a fitting mode has a
place) and `SelectIs` (of tuples in lexicographic order a least and a greatest
exist, so the CHOOSE of `Select` has one to take).  `DeviceIsChosen`, `DeviceIsFound`,
`CsiIsFound` and `SettingIsGiven` do the same for every supply, node list and
schema.  The third, `SetUpHolds`, falls into `ControlsAreKept` (any device, any
controls among which are those that a setter names), `SensorIsSetUp` (every request
with positive numbers and a gain of at least 1, every sensor with ranges that are not
empty, see below), `CalTableIsBetween` (calibrations
that rise), `AxisIsResampled` (every mode that lies on its sensor: the cell a mode's
cell falls on), `GridIs` (every mode that 63 by 48 cells of 256 cover) and
`PointsHoldTheGains` (every table of gains from 1 to less than 16: what is mixed of
two of them is one again, and 1024 times it fits 14 bits).  The theorems
`FormatIsTheOneAskedFor`, `HostIsUsed`, `SetUpIsRight` and `ContrastIsRight` apply
them and `CurvesAreRight` to the run.
`FormatLookup` keeps the configurations by their places in what the driver
enumerates, since a flattened list would be a recursive definition.

Floats are fractions (`Rational`).  `RationalProofs` shows for all numbers that its
operators compute what their names say: `Gcd`, a recursive function, exists
because the greatest common divisor solves its equation, and the induction is one
on the least counterexample (the library's induction theorems take an operator);
`Q` gives the reduced fraction of its value, equal values are equal fractions
(`QIsCanonical`), and products, quotients and the order follow.  Its last part has
the same for fractions given by any two numbers: their sums and differences, their
floor, and which of two is less, by products of integers (`QAdds`, `QFloors`,
`QCompares`).

The contrast is proved in `RationalProofs` for every histogram, every gamma curve
that rises and covers 0, every configuration whose parts are between 0 and 1
(`Contrast`), any contrast that is not negative, any brightness and any levels to ask
for (`CurvesAreRight`).  Where a curve is evaluated, three fractions are brought
to one denominator and the line is one of integers (`AllOnOneGrid`).
`QuantileIsIn`: the bisection keeps the bin sought between its ends; that it stops
there for every pair of ends is shown on the pair with the least difference where
it would not.  `StretchIsRight`: the points that `Extended` leaves out are those that
would turn the curve round.  `CompositionIsRight` is about the loop that walks over two
curves at once and has no counter.  A state that the loop can be in (`Going`) holds
a result that is the composition as far as it goes and the spans of both curves that
it stands in; every turn keeps `Going` and lowers the number of spans left in both
(`GoingKeeps`), so no index leaves a curve and the last state is the composition at
every level.  `NeverDown`: since the one curve rises, the branch that goes back a span of the other
(unicam_isp_capture.py:906) is never taken.  `ComposeFrom` is a recursive function over all
states, also those from which the loop would never end: that such a function exists
is `LoopHasResult` (a state has the result of the end it reaches, or any), and that
it has the value of the loop's end is again an induction by least counterexample.  The lemmas
`SameCurve` to `SameContrast` of `CapturesProofs` say that the instance of
`ContrastCurve` in `MCSetup` is the module itself.

`__set_unicam_fps` and `__set_unicam_exposure` compute three values and give them to
`set_ext_controls`, which raises when the driver refuses and else returns what the
driver has made of them, which nobody reads.  `SetExtControl` is that: a value in
the sensor's range is held, another one is refused, or clamped if the driver
clamps.  The case is not rare.  The mode is chosen by the size of the frame and
not by its rate, and the blanking is what is left of the lines: 1920x1080 at 60
frames takes the 2464 lines of the imx219 in a time in which it reads 881, which
makes a blanking of -1583, and with the pixel rate of the run that of an ov5647 at
45 is negative too; line 456 has a TODO for it.  So the property cannot be that frames come as fast as they were asked for,
and does not say so.  It is what `Nearest` says, for frame length,
exposure and gain each: the sensor holds a value of its range; this is
the last one that fits what was asked, or the lowest if none does and the highest
if all do, and these two only if the driver clamps.  A range of the exposure depends
on the frame length the sensor has, not the one that was computed.  A gain is
at least 1, as the tables of the tuning files are, where `int` is a floor.  The AGC's
first exposure is set only with AGC.  In the run, wide and narrow ranges have
rates whose blanking is below the least and above the most, exposures that do not fit
into the frame, and gains below and above what there is, with a driver of each kind.

What the computations show of the code beyond the properties: over a stepwise
interval `lookup_config` never advances its counter and loops for ever unless the least rate is the one that was asked for
(video.py:1003), also for a format that would not convert, since that is asked
afterwards; no property says that the constructor ends, `FormatChosen` only where it
may not; `set_rotation` and
`init_controls` do not read back what a driver kept; `lo_histogram` is read from
the key "hi_histogram" (unicam_isp_capture.py:259, `Configured`); sizes the caller gives are
looked up in the modes of the imx219 for every sensor; an integer for a setting
of type "number" is replaced by the default, although JSON writes 5.0 so; of
several image sources the last is opened.

## 11. The exposure

`ExposureControl.tla`: `__adjust_setting_from_isp` and `__agc` in the capture
thread, `set_exposure_settings` in another.  Each read and each write of
`self.shutter_time` and `self.analogue_gain` is a step.  `setting` has the two
fields, `count` the statistics since the last AGC, `local` and `stage` the
variables of `__agc`, `sensor` what the sensor has; `steady` is history: no
setting has changed since this AGC began.  The exposure wanted is any of `Wanted`.

`ExposureOnTarget`: with settings that stand still, `__agc` uses manual values as
they are and meets the wanted exposure as far as the rest allows.
`SettingsReachSensor` (liveness): manual settings that stay reach the sensor and
remain there.  Its exception is a hazard of the code: `__agc` asks whether a
setting is AUTO and then reads it again, and AUTO set between the two makes it
multiply by AUTO, a TypeError that ends the capture.  The model has this step
(`pc = "dead"`), and no property excludes it.  With `agc=False` the
settings never reach the sensor; the property is about captures with AGC.  Run
`races`: tables of three, two manual times and one gain, 2 calls.  Fairness: a
call that was begun returns, and statistics go on coming (as in `captures`, the
ISP works); nothing forces a call.

`ExposureMeetsTarget` of `RacesProofs` proves `ExposureOnTarget` for all tables of
stages that rise (`ExposureParameters`; they are constants of `MCRaces`), all manual
values and every exposure that may be wanted.  The invariant `ExposureInv` follows
`__agc`: at stage n the product of what it has is below the target and is that of
the stage before (`Below`, `Stage`), manual values are taken as they are
(`OnTheWay`), and before `set_exposure_settings` the property itself holds.  The arithmetic
is that of `RationalProofs`: what a raise multiplies and divides by cancels out.

## 12. Not modelled

`__awb`, `__calc_lux`, `__calculate_y` and the black level: single formulas over
sums of the statistics, on whose results only `__agc` depends (any of `Wanted`).
`__calc_lux` divides by the number of items in the histogram, which
the ISP must not leave at 0.  The conversion of pixel formats, images and their
encodings, formatting and logging.  The kernel interface (linux/, v4l2/types.py,
v4l2/control.py: tables and C structures), `notify` and `heartbeat` (one call
each).  The controls of libcamera, which go to the library as they are; getters
of one environment variable.  In the pipeline: tasks that are connected but not
registered, a second `KeyboardInterrupt` while `run` joins.  `VideoControls`,
`UnicamSetup` and the others of section 10 treat a constructor's call as one step:
nobody else has the object before it returns.

Proofs are of safety: liveness under fairness is out of the prover's reach and
stays with TLC (`FramesArrive`, `StopReturns`, `Served`, `UpdateReturns`,
`Delivered`, `CallsEnd`, `JoinReturns`, `ScansEnd`, `ManualArrives`,
`StopEndsRun`, `DmaBuffersComeBack`, `SettingsReachSensor`; of `ScansEnd` the rank
is proved, section 8).  Nor can it take an induction theorem with an operator for a
parameter: what recursive functions compute is proved by the least counterexample
instead (section 10).  Every invariant
and every action property of a passing run is the statement of a theorem.
`PipelineProofs` and the type theorems of the other modules prove the type
invariants, which no run needs to check.
