----------------------------- MODULE MCPipeline -----------------------------
(***************************************************************************)
(* Small applications for TLC to check Pipeline on.  A topology is the     *)
(* sequence of its connect() calls; the place of a call in it is the pad   *)
(* that the call made.                                                     *)
(***************************************************************************)
EXTENDS Pipeline

Pads(links) == 1 .. Len(links)
Ids(links) == [p \in Pads(links) |-> p]
InQueues(tasks, links) ==
  [t \in tasks |-> SelectSeq(Ids(links), LAMBDA p : links[p][2] = t)]
OutQueues(tasks, links) ==
  [t \in tasks |-> SelectSeq(Ids(links), LAMBDA p : links[p][1] = t)]

NoTask == {}

-----------------------------------------------------------------------------
\* Two pipes share the work of one source, and one consumer collects it.
FanKind == [src |-> "producer", a |-> "pipe", b |-> "pipe", sink |-> "consumer"]
FanTask == DOMAIN FanKind
FanOrder == <<"src", "a", "b", "sink">>
FanLinks == << <<"src", "a">>, <<"src", "b">>, <<"a", "sink">>, <<"b", "sink">> >>
FanPad == Pads(FanLinks)
FanIn == InQueues(FanTask, FanLinks)
FanOut == OutQueues(FanTask, FanLinks)
FanFail == {"a"}

\* The pipeline of tests/test_pipeline.py with one Incrementer left out, and with a
\* camera, whose pads discard, for its source.
TeeKind == [src |-> "capture", tee |-> "tee", inc |-> "pipe", join |-> "join", sink |-> "consumer"]
TeeTask == DOMAIN TeeKind
TeeOrder == <<"src", "tee", "inc", "join", "sink">>
TeeLinks == << <<"src", "tee">>, <<"tee", "inc">>, <<"tee", "join">>, <<"inc", "join">>,
               <<"join", "sink">> >>
TeePad == Pads(TeeLinks)
TeeIn == InQueues(TeeTask, TeeLinks)
TeeOut == OutQueues(TeeTask, TeeLinks)
TeeFail == {"src", "inc"}

\* A camera whose frames a consumer and a pipe share.
CameraKind == [cap |-> "capture", view |-> "consumer", mid |-> "pipe", sink |-> "consumer"]
CameraTask == DOMAIN CameraKind
CameraOrder == <<"view", "cap", "mid", "sink">>
CameraLinks == << <<"cap", "view">>, <<"cap", "mid">>, <<"mid", "sink">> >>
CameraPad == Pads(CameraLinks)
CameraIn == InQueues(CameraTask, CameraLinks)
CameraOut == OutQueues(CameraTask, CameraLinks)

-----------------------------------------------------------------------------
(* What the applications promise from end to end *)

\* The consumer gets the frames 1, 2, 3, ... of the one source, none missing and
\* none out of order: the assertion of test_pipeline_slow_but_no_loss, also when
\* two pipes share the work and puts and gets time out at any moment.
SinkInOrder == \A k \in DOMAIN taken["sink"] : taken["sink"][k] = << [src |-> "src", n |-> k] >>

\* The topologies that share the work of the producer `src' out: as many pipes as
\* one likes, each between one pad of it and, in the same order, one of `sink'.
Fan(kind, inq, outq) ==
  /\ {"src", "sink"} \subseteq DOMAIN kind
  /\ kind["src"] = "producer" /\ kind["sink"] = "consumer"
  /\ DOMAIN inq["sink"] = DOMAIN outq["src"]
  /\ \A i \in DOMAIN outq["src"] : \E w \in DOMAIN kind :
       kind[w] = "pipe" /\ inq[w] = <<outq["src"][i]>> /\ outq[w] = <<inq["sink"][i]>>

\* The topologies in which no task but a Join has more than one in_queue.
NoFanIn(kind, inq) ==
  \A t \in DOMAIN kind : kind[t] \in {"pipe", "consumer", "tee"} => Len(inq[t]) = 1

ASSUME FanIsAFan == Fan(FanKind, FanIn, FanOut)
ASSUME TeeHasNoFanIn == NoFanIn(TeeKind, TeeIn) /\ NoFanIn(CameraKind, CameraIn)

\* Tee has put every item on all of its pads so far: with a reader that lets it
\* wait for a second it passes over one of them.
TeeWasEven ==
  \A i, j \in DOMAIN OutQ["tee"] :
    LET s == sent[OutQ["tee"][i]]
        u == sent[OutQ["tee"][j]] IN
      \A k \in DOMAIN s \cap DOMAIN u : s[k] = u[k]

\* What Join puts together was one frame before Tee, as the assertion of
\* test_pipeline has it (the order is NeverOvertaken's).  It needs that no pad was
\* passed over; gets that time out on one branch, the other branch being ahead, stops
\* and exceptions do no harm.
JoinPairs ==
  TeeWasEven =>
    \A k \in DOMAIN taken["sink"] : \E n \in 1 .. MaxItems + 1 :
      taken["sink"][k] = [i \in DOMAIN InQ["join"] |-> [src |-> "src", n |-> n]]

\* The topologies in which `join' puts together again what `tee' shared out: each of
\* its in_queues is a pad of `tee', or what a pipe makes of the items of one.
Diamond(kind, inq, outq) ==
  /\ {"src", "tee", "join", "sink"} \subseteq DOMAIN kind
  /\ kind["src"] \in {"producer", "capture"} /\ kind["tee"] = "tee"
  /\ kind["join"] = "join" /\ kind["sink"] = "consumer"
  /\ \E i \in DOMAIN outq["src"] : inq["tee"] = <<outq["src"][i]>>
  /\ inq["sink"] = outq["join"]
  /\ \A i \in DOMAIN inq["join"] : \E j \in DOMAIN outq["tee"] :
       \/ inq["join"][i] = outq["tee"][j]
       \/ \E w \in DOMAIN kind : /\ kind[w] = "pipe"
                                /\ inq[w] = <<outq["tee"][j]>>
                                /\ outq[w] = <<inq["join"][i]>>

ASSUME TeeIsADiamond == Diamond(TeeKind, TeeIn, TeeOut)
=============================================================================
