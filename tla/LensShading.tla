---------------------------- MODULE LensShading ----------------------------
(***************************************************************************)
(* The lens shading of UnicamIspCapture of actfw_core                      *)
(* (unicam_isp_capture.py, __get_cal_table to __populate_ls_table): a      *)
(* calibration is chosen for the colour temperature, resampled for the     *)
(* mode of the sensor and written to the grid of the ISP.                  *)
(*                                                                         *)
(* A table has columns and rows, and the code treats both alike: one axis  *)
(* is modelled.  A table along an axis is a function on 0 .. n - 1.        *)
(***************************************************************************)
EXTENDS UnicamSetup

LsTableW == 16
LsTableH == 12
MaxLsGridSize == 32768

\* Calibrations are [ct, level], in the order of their colour temperatures: the first
\* or the last one outside of them, a mean of two between them.
GetCalTable(ct, calibrations) ==
  LET last == Len(calibrations) IN
    IF last = 0 THEN Int2Q(1)
    ELSE IF ct <= calibrations[1].ct THEN Int2Q(calibrations[1].level)
    ELSE IF calibrations[last].ct <= ct THEN Int2Q(calibrations[last].level)
    ELSE LET i == CHOOSE i \in 1 .. last - 1 : calibrations[i + 1].ct >= ct
                                /\ \A j \in 1 .. i - 1 : calibrations[j + 1].ct < ct
             a == calibrations[i]
             b == calibrations[i + 1] IN
           Q(a.level * (b.ct - ct) + b.level * (ct - a.ct), b.ct - a.ct)

\* A point on an axis of n cells, as the two cells it is mixed of and how much of the
\* second: both lie in the table, or the code raises IndexError.
Cells(x, n) ==
  LET lo == Floor(x) IN
    [lo |-> IF lo < 0 THEN 0 ELSE lo,
     hi |-> IF lo + 1 < n THEN lo + 1 ELSE n - 1,
     f  |-> Sub(x, Int2Q(lo))]

InTable(c, n) == c.lo \in 0 .. n - 1 /\ c.hi \in 0 .. n - 1

Mix(table, c) ==
  Add(Mul(table[c.lo], Sub(Int2Q(1), c.f)), Mul(table[c.hi], c.f))

\* `table' at `steps' points from x on, each `inc' after the one before.
Sampled(table, n, x, inc, steps) ==
  [i \in 0 .. steps - 1 |->
     LET c == Cells(Add(x, Mul(Int2Q(i), inc)), n) IN
       IF InTable(c, n) THEN Mix(table, c) ELSE <<0, 0>>]

\* Where the first cell of a mode begins in the table of the whole sensor, and how far
\* it is to the next one.
Scale(sensor, size, scale) == Q(sensor, size * scale)
Inc(sensor, size, scale) == Over(Int2Q(1), Scale(sensor, size, scale))
Start(sensor, size, scale, crop, n) ==
  Sub(Add(Over(<<1, 2>>, Scale(sensor, size, scale)), Q(crop * n, sensor)), <<1, 2>>)

ResampleCalTable(table, n, sensor, size, scale, crop) ==
  Sampled(table, n, Start(sensor, size, scale, crop, n), Inc(sensor, size, scale), n)

\* The grid of the ISP has a point at each corner of its cells.
CellSizes == <<16, 32, 64, 128, 256>>
Grid(w, h, cell) ==
  [cell |-> cell, w |-> (w + cell - 1) \div cell + 1, h |-> (h + cell - 1) \div cell + 1]

ApplyLsTables(w, h) ==
  LET fits == {i \in DOMAIN CellSizes :
                 Grid(w, h, CellSizes[i]).w < 65 /\ Grid(w, h, CellSizes[i]).h <= 49}
      least == IF fits = {} THEN Len(CellSizes) ELSE CHOOSE i \in fits : \A j \in fits : i <= j IN
    Grid(w, h, CellSizes[least])

\* The values at the points, in units of 1 / 1024.
PopulateLsTable(table, n, points) ==
  LET at == Sampled(table, n, <<-1, 2>>, Q(n, points - 1), points) IN
    [i \in 0 .. points - 1 |->
       IF at[i] = <<0, 0>> THEN -1
       ELSE LET r == Floor(Add(Mul(Int2Q(1024), at[i]), <<1, 2>>)) IN
              IF r < 16383 THEN r ELSE 16383]

-----------------------------------------------------------------------------
(* Properties *)

\* The table whose value in the middle of each cell is its distance from the edge of
\* the sensor, in cells.
Ramp(n) == [i \in 0 .. n - 1 |-> Int2Q(i)]

Clamped(x, n) == MaxQ(Int2Q(0), MinQ(x, Int2Q(n - 1)))

\* Where the middle of cell i of a mode is on the sensor, in cells of the sensor.
MiddleOf(i, n, sensor, size, scale, crop) ==
  Sub(Q(n * crop * 2 * n + (2 * i + 1) * size * scale * n, 2 * n * sensor), <<1, 2>>)

\* At a temperature that was calibrated the table is the calibrated one, and at any
\* other between those next to it (__get_cal_table).
CalTableBetween(ct, calibrations, level) ==
  calibrations # << >> =>
    \A i \in DOMAIN calibrations :
      LET c == calibrations[i]
          next == IF i = Len(calibrations) THEN c ELSE calibrations[i + 1] IN
        c.ct <= ct /\ (ct <= next.ct \/ next = c) =>
          /\ AtMost(MinQ(Int2Q(c.level), Int2Q(next.level)), level)
          /\ AtMost(level, MaxQ(Int2Q(c.level), Int2Q(next.level)))
          /\ ct = c.ct => level = Int2Q(c.level)

\* A mode's table has at each cell what the sensor's has at the same place, and never
\* reads outside of it (__resample_cal_table).
AxisShaded(n, sensor, size, scale, crop, table) ==
  \A i \in 0 .. n - 1 : table[i] = Clamped(MiddleOf(i, n, sensor, size, scale, crop), n)

\* The grid covers the picture, fits the ISP and the memory it is given, and is no
\* coarser than it must be (__apply_ls_tables).
GridFits(m, grid) ==
  /\ (grid.w - 1) * grid.cell >= m.w
  /\ (grid.h - 1) * grid.cell >= m.h
  /\ 4 * 2 * grid.w * grid.h <= MaxLsGridSize
  /\ grid.w <= 64 /\ grid.h <= 49
  /\ grid.cell > 16 =>
       LET finer == Grid(m.w, m.h, grid.cell \div 2) IN finer.w > 64 \/ finer.h > 49

\* The ISP is given gains of at least one that it can hold, and at its edges those of
\* the edges of the table (__populate_ls_table).
PointsHold(table, n, count, points) ==
  /\ DOMAIN points = 0 .. count - 1
  /\ \A i \in DOMAIN points : 1024 <= points[i] /\ points[i] <= 16383
  /\ points[0] = Floor(Add(Mul(Int2Q(1024), table[0]), <<1, 2>>))
  /\ \A i \in DOMAIN points : \A j \in 0 .. n - 1 :
       2 * i * n = (2 * j + 1) * (count - 1) =>
         points[i] = Floor(Add(Mul(Int2Q(1024), table[j]), <<1, 2>>))
=============================================================================
