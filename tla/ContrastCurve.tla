--------------------------- MODULE ContrastCurve ---------------------------
(***************************************************************************)
(* The contrast of UnicamIspCapture of actfw_core (unicam_isp_capture.py): *)
(* a histogram makes a curve that stretches the picture, the curve is      *)
(* composed with the gamma curve of the sensor, and the ISP is given       *)
(* points of the result.                                                   *)
(*                                                                         *)
(* A curve is a sequence of points <<x, y>> of rationals, increasing in x. *)
(* Levels go from 0 to cfg.top where the code has 65535 and 65536, and     *)
(* there are few bins; the code's epsilon is 0, and so is its hi_max of    *)
(* 0.95; lo_max 500 and lo_level 0.015 are rounded to powers of two.       *)
(*                                                                         *)
(* A definition that stands before another one and is named after it and a *)
(* slip is a mistake the code could contain.  It is no part of the         *)
(* specification.                                                          *)
(***************************************************************************)
EXTENDS Rational, Sequences, FiniteSets

\* "rpi.contrast" of the configuration, by key: what of the histogram is low or high,
\* the levels it is pulled to and how far.  What is low is read from the key of what is
\* high.
Configured(cr, top) ==
  LET Get(key, default) == IF key \in DOMAIN cr THEN cr[key] ELSE default IN
    [top     |-> top,
     ce      |-> Get("ce_enable", TRUE),
     loHist  |-> Get("hi_histogram", <<1, 100>>),
     loLevel |-> Get("lo_level", <<1, 64>>),
     loMax   |-> Get("lo_max", Q(top, 128)),
     hiHist  |-> Get("hi_histogram", <<95, 100>>),
     hiLevel |-> Get("hi_level", <<19, 20>>),
     hiMax   |-> Get("hi_max", Int2Q(0))]

\* The span of a curve that x is in; the last one for all that are in none.
FindSpan(curve, x) ==
  LET last == Len(curve) - 1
      in == {i \in 1 .. last : AtMost(curve[i][1], x) /\ Less(x, curve[i + 1][1])} IN
    IF in = {} THEN last ELSE CHOOSE i \in in : \A j \in in : i <= j

EvalGammaCurve(curve, x) ==
  LET p == curve[FindSpan(curve, x)]
      q == curve[FindSpan(curve, x) + 1] IN
    Add(p[2], Over(Mul(Sub(x, p[1]), Sub(q[2], p[2])), Sub(q[1], p[1])))

\* Where in a span `one' reaches the x of a point of `other'.
Reached(one, other, span, at) ==
  LET p == one[span]
      q == one[span + 1] IN
    Add(p[1], Over(Mul(Sub(other[at][1], p[2]), Sub(q[1], p[1])), Sub(q[2], p[2])))

\* `one' leaves the span of `other' before its own.
Up(one, other, span, at) ==
  /\ one[span][2] # one[span + 1][2] /\ at + 1 <= Len(other)
  /\ AtMost(other[at + 1][1], one[span + 1][2])

Down(one, other, span, at) ==
  /\ ~ Up(one, other, span, at) /\ one[span][2] # one[span + 1][2] /\ at > 1
  /\ AtMost(one[span + 1][2], other[at - 1][1])

Longer(result, other, x, y) ==
  IF Less(result[Len(result)][1], x) THEN Append(result, <<x, EvalGammaCurve(other, y)>>)
  ELSE result

\* The loop of __compose_gamma_curve: the span of `one', that of `other' and the points
\* so far; a turn of it; and what it makes of a state.
Point == (Int \X Nat) \X (Int \X Nat)

ComposeStates(one, other) ==
  [span : 1 .. Len(one), at : 1 .. Len(other), result : Seq(Point)]

ComposeStep(one, other, s) ==
  LET to(span, at, x, y) == [span |-> span, at |-> at, result |-> Longer(s.result, other, x, y)] IN
    CASE Up(one, other, s.span, s.at) ->
           to(s.span, s.at + 1, Reached(one, other, s.span, s.at + 1), other[s.at + 1][1])
      [] Down(one, other, s.span, s.at) ->
           to(s.span, s.at - 1, Reached(one, other, s.span, s.at + 1), other[s.at - 1][1])
      [] OTHER -> to(s.span + 1, s.at, one[s.span + 1][1], one[s.span + 1][2])

\* An IndexError, that is no curve, when `one' comes down from beyond the end of `other'.
ComposeFrom(one, other) ==
  LET from[s \in ComposeStates(one, other)] ==
        IF s.span = Len(one) THEN s.result
        ELSE IF Down(one, other, s.span, s.at) /\ s.at = Len(other) THEN << >>
        ELSE from[ComposeStep(one, other, s)]
  IN from

\* The slip: the curve has only the points of `one'.
ComposeAtPoints(one, other) ==
  [i \in DOMAIN one |-> <<one[i][1], EvalGammaCurve(other, one[i][2])>>]

\* The first point takes the y of `one' for its x.
ComposeGammaCurve(one, other) ==
  LET y == one[1][2] IN
    ComposeFrom(one, other)[[span |-> 1, at |-> FindSpan(other, y),
                             result |-> << <<y, EvalGammaCurve(other, y)>> >>]]

HistogramCumulative(histogram) ==
  LET sum[i \in 1 .. Len(histogram) + 1] == IF i = 1 THEN 0 ELSE sum[i - 1] + histogram[i - 1]
  IN sum

\* The bisection, over the bins p[1] .. p[2] counted from 0.
Bisect(cumulative, items) ==
  LET bins == 0 .. Len(cumulative) - 2
      in[p \in bins \X bins] ==
        IF p[1] >= p[2] THEN p[1]
        ELSE LET middle == (p[1] + p[2]) \div 2 IN
               IF cumulative[middle + 2] > items THEN in[<<p[1], middle>>]
                                                 ELSE in[<<middle + 1, p[2]>>]
  IN in

CumulativeQuantile(cumulative, q) ==
  LET items == Floor(Mul(q, Int2Q(cumulative[Len(cumulative)])))
      bin == Bisect(cumulative, items)[<<0, Len(cumulative) - 2>>]
      inBin == cumulative[bin + 2] - cumulative[bin + 1] IN
    IF inBin = 0 THEN Int2Q(bin)
    ELSE Add(Int2Q(bin), Q(items - cumulative[bin + 1], inBin))

\* A point is added only to the right of the last one.
Extended(curve, x, y) == IF Less(curve[Len(curve)][1], x) THEN Append(curve, <<x, y>>) ELSE curve

ComputeStretchCurve(histogram, cfg) ==
  LET cumulative == HistogramCumulative(histogram)
      top == Int2Q(cfg.top)
      At(q) == Mul(CumulativeQuantile(cumulative, q), Q(cfg.top, Len(histogram)))
      levelLo == Mul(cfg.loLevel, top)
      levelHi == Mul(cfg.hiLevel, top)
      lo == MaxQ(levelLo, MinQ(At(cfg.loHist), Add(levelLo, cfg.loMax)))
      mid == At(<<1, 2>>)
      hi == MinQ(levelHi, MaxQ(At(cfg.hiHist), Sub(levelHi, cfg.hiMax)))
      start == << <<Int2Q(0), Int2Q(0)>> >> IN
    Extended(Extended(Extended(Extended(start, lo, levelLo), mid, mid), hi, levelHi), top, top)

\* Brightness and contrast move the levels of a curve about the middle.
Adjusted(curve, contrast, brightness, top) ==
  [i \in DOMAIN curve |->
     <<curve[i][1],
       MaxQ(Int2Q(0), MinQ(Int2Q(top),
         Add(Add(Mul(Sub(curve[i][2], Q(top, 2)), contrast), Q(top, 2)), brightness)))>>]

\* The levels the ISP is given: the curve at steps that grow.
FillInContrastStatus(curve, xs, top) ==
  [i \in 1 .. Len(xs) + 1 |->
     IF i > Len(xs) THEN top
     ELSE LET y == EvalGammaCurve(curve, Int2Q(xs[i])) IN
            Floor(MinQ(Int2Q(top), y))]

ContrastControl(histogram, gamma, cfg, contrast, brightness, xs) ==
  LET composed == IF cfg.ce /\ (cfg.loMax # Int2Q(0) \/ cfg.hiMax # Int2Q(0))
                  THEN ComposeGammaCurve(ComputeStretchCurve(histogram, cfg), gamma) ELSE gamma IN
    FillInContrastStatus(Adjusted(composed, contrast, brightness, cfg.top), xs, cfg.top)

-----------------------------------------------------------------------------
(* Properties *)

Increasing(curve) ==
  \A i \in 1 .. Len(curve) - 1 :
    Less(curve[i][1], curve[i + 1][1]) /\ AtMost(curve[i][2], curve[i + 1][2])

\* The pixels of some bins, one by one.
Pixels(histogram, bins) == UNION {{bin} \X (1 .. histogram[bin + 1]) : bin \in bins}

\* The least bin such that more than so many items lie in it or below; the last one
\* when there is none.
QuantileBin(histogram, items) ==
  LET bins == 0 .. Len(histogram) - 1
      reaches(b) == Cardinality(Pixels(histogram, 0 .. b)) > items \/ b = Len(histogram) - 1 IN
    CHOOSE b \in bins : reaches(b) /\ \A a \in bins : a < b => ~ reaches(a)

\* A quantile lies in the bin it should (__cumulative_quantile); stretching never
\* turns the order of two levels round and keeps the greatest
\* (__compute_stretch_curve); the composed curve is at every level what the one curve
\* makes of what the other makes of it (__compose_gamma_curve); and so the ISP is
\* given levels that rise, up to the greatest.
CurvesRight(histogram, gamma, cfg, levels) ==
  LET total == Cardinality(Pixels(histogram, 0 .. Len(histogram) - 1))
      stretch == ComputeStretchCurve(histogram, cfg)
      composed == ComposeGammaCurve(stretch, gamma) IN
    /\ \A q \in {cfg.loHist, <<1, 2>>, cfg.hiHist} :
         LET bin == QuantileBin(histogram, Floor(Mul(q, Int2Q(total))))
             at == CumulativeQuantile(HistogramCumulative(histogram), q) IN
           AtMost(Int2Q(bin), at) /\ AtMost(at, Int2Q(bin + 1))
    /\ Increasing(stretch) /\ stretch[Len(stretch)][1] = Int2Q(cfg.top)
    /\ Increasing(composed)
    /\ \A x \in 0 .. cfg.top :
         EvalGammaCurve(composed, Int2Q(x)) =
           EvalGammaCurve(gamma, EvalGammaCurve(stretch, Int2Q(x)))
    /\ levels[Len(levels)] = cfg.top
    /\ \A i \in 1 .. Len(levels) - 1 : levels[i] <= levels[i + 1]
=============================================================================
