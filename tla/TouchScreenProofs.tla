-------------------------- MODULE TouchScreenProofs --------------------------
(***************************************************************************)
(* The touchscreen driver, for every set of samples and every limit.       *)
(*                                                                         *)
(* ReleaseComing and MeasureEnds are inductive together with the types.    *)
(* PointsWhole is not: it needs to know which of four phases the driver is *)
(* in while the pen is down (Phase), and that no samples are left over     *)
(* from an earlier stroke.                                                 *)
(***************************************************************************)
EXTENDS TouchScreen, TLAPS

Safe == TypeOK /\ ReleaseComing /\ MeasureEnds

\* The limit is a number.
LEMMA LimitNat == ERR_LIMIT \in Nat
  BY TouchScreenAssumption DEF TouchScreenAssumption

\* So are the coordinates.
LEMMA CoordinateNat == \A e \in 0 .. 1023 : e \in Nat
  OBVIOUS

\* The filter, one axis: three samples that agree leave the other within
\* twice the limit and one for the rounding of the mean.
LEMMA AxisOutlier ==
  ASSUME NEW v \in [Four -> 0 .. 1023], Steady(v), NEW n \in Four,
         \A m, k \in Four \ {n} : v[m] = v[k]
  PROVE  \A m \in Four : Off(v[n], v[m]) <= 2 * ERR_LIMIT + 1
<1> DEFINE a == v[0]
<1> DEFINE b == v[1]
<1> DEFINE c == v[2]
<1> DEFINE d == v[3]
<1>0. 0 \in Four /\ 1 \in Four /\ 2 \in Four /\ 3 \in Four
  BY DEF Four
<1>t. a \in 0 .. 1023 /\ b \in 0 .. 1023 /\ c \in 0 .. 1023 /\ d \in 0 .. 1023
  BY <1>0
<1>1. a \in Nat /\ b \in Nat /\ c \in Nat /\ d \in Nat /\ ERR_LIMIT \in Nat
  <2> HIDE DEF a, b, c, d
  <2> QED
    BY ONLY <1>t, LimitNat
<1>2. Off(c, (a + b) \div 2) <= ERR_LIMIT /\ Off(d, (b + c) \div 2) <= ERR_LIMIT
  BY DEF Steady
<1>3. CASE n = 0
  <2>1. b = c /\ c = d
    BY <1>3 DEF Four
  <2> QED
    BY <1>1, <1>2, <1>3, <2>1 DEF Off, Four
<1>4. CASE n = 1
  <2>1. a = c /\ c = d
    BY <1>4 DEF Four
  <2> QED
    BY <1>1, <1>2, <1>4, <2>1 DEF Off, Four
<1>5. CASE n = 2
  <2>1. a = b /\ b = d
    BY <1>5 DEF Four
  <2> QED
    BY <1>1, <1>2, <1>5, <2>1 DEF Off, Four
<1>6. CASE n = 3
  <2>1. a = b /\ b = c
    BY <1>6 DEF Four
  <2> QED
    BY <1>1, <1>2, <1>6, <2>1 DEF Off, Four
<1> QED
  BY <1>3, <1>4, <1>5, <1>6 DEF Four

\* The filter, one axis: samples that differ by no more than the limit pass.
LEMMA AxisStill ==
  ASSUME NEW v \in [Four -> 0 .. 1023],
         \A m, n \in Four : Off(v[m], v[n]) <= ERR_LIMIT
  PROVE  Steady(v)
<1> DEFINE a == v[0]
<1> DEFINE b == v[1]
<1> DEFINE c == v[2]
<1> DEFINE d == v[3]
<1>0. 0 \in Four /\ 1 \in Four /\ 2 \in Four /\ 3 \in Four
  BY DEF Four
<1>t. a \in 0 .. 1023 /\ b \in 0 .. 1023 /\ c \in 0 .. 1023 /\ d \in 0 .. 1023
  BY <1>0
<1>1. a \in Nat /\ b \in Nat /\ c \in Nat /\ d \in Nat /\ ERR_LIMIT \in Nat
  <2> HIDE DEF a, b, c, d
  <2> QED
    BY ONLY <1>t, LimitNat
<1>2. Off(c, a) <= ERR_LIMIT /\ Off(c, b) <= ERR_LIMIT
  BY DEF Four
<1>3. Off(d, b) <= ERR_LIMIT /\ Off(d, c) <= ERR_LIMIT
  BY DEF Four
<1>4. Off(c, (a + b) \div 2) <= ERR_LIMIT
  BY <1>1, <1>2 DEF Off
<1>5. Off(d, (b + c) \div 2) <= ERR_LIMIT
  BY <1>1, <1>3 DEF Off
<1> QED
  BY <1>4, <1>5 DEF Steady

\* A conversion yields a pair of coordinates.
LEMMA SamplesTyped == Samples \subseteq (0 .. 1023) \X (0 .. 1023)
  BY TouchScreenAssumption DEF TouchScreenAssumption

\* Every step keeps the types and the two invariants.
LEMMA SafeStep == Safe /\ [Next]_vars => Safe'
<1> SUFFICES ASSUME Safe, [Next]_vars PROVE Safe'
  OBVIOUS
<1> USE DEF Safe, TypeOK, ReleaseComing, MeasureEnds
<1>1. CASE PenMoves
  <2>1. tc' \in BOOLEAN
    BY <1>1 DEF PenMoves
  <2>2. pen' \in {"up", "down"}
    BY <1>1 DEF PenMoves
  <2> QED
    <3>1. hurried' = hurried \/ hurried' = TRUE \/ hurried' = FALSE
      BY <1>1, Zenon DEF PenMoves
    <3>2. hurried' \in BOOLEAN
      BY <3>1, ZenonT(60)
    <3>3. /\ adctsc' = adctsc /\ adc' = adc /\ timer' = timer /\ softirq' = softirq
          /\ cnt' = cnt /\ xy' = xy /\ touch' = touch /\ reported' = reported
          /\ whole' = whole /\ torn' = torn
      BY <1>1 DEF PenMoves, sampleVars
    <3> QED
      BY <2>1, <2>2, <3>2, <3>3
<1>2. CASE pen_down_up_irq
  <2>1. CASE pen = "up"
    <3>1. ReportRelease(cnt) /\ UNCHANGED <<pen, adc, timer, softirq, cnt, xy, hurried>>
          /\ adctsc' = "down" /\ tc' = FALSE
      BY <1>2, <2>1 DEF pen_down_up_irq, sampleVars
    <3>2. whole' \in BOOLEAN
      BY <3>1 DEF ReportRelease
    <3> QED
      BY <3>1, <3>2, ZenonT(60) DEF ReportRelease
  <2>2. CASE pen = "down"
    <3>1. /\ UNCHANGED <<pen, timer, softirq, cnt, xy, touch, reported, whole, torn, hurried>>
          /\ adctsc' = "xy" /\ tc' = FALSE /\ adc' = TRUE
      BY <1>2, <2>2 DEF pen_down_up_irq, NoReport, sampleVars
    <3>2. tc' \in BOOLEAN /\ adc' \in BOOLEAN
      BY <3>1, ZenonT(60)
    <3>3. ReleaseComing' /\ MeasureEnds'
      BY <3>1 DEF ReleaseComing, MeasureEnds
    <3>4. TypeOK'
      BY <3>1, <3>2
    <3> QED
      BY <3>3, <3>4
  <2> QED
    BY <1>2, <2>1, <2>2
<1>3. CASE AdcPenUp
  <2>1. whole' \in BOOLEAN /\ cnt' \in Four
    BY <1>3 DEF AdcPenUp, ReportRelease, Four
  <2>2. UNCHANGED <<pen, tc, timer, softirq, xy, reported, torn, hurried>>
        /\ touch' = FALSE /\ adc' = FALSE /\ adctsc' = "down"
    BY <1>3 DEF AdcPenUp, ReportRelease
  <2> QED
    BY <2>1, <2>2, ZenonT(60)
<1>4. ASSUME NEW s \in Samples, AdcSample(s) PROVE Safe'
  <2>1. xy' \in [Four -> (0 .. 1023) \X (0 .. 1023)]
    BY <1>4, SamplesTyped DEF AdcSample, Store
  <2>2. cnt' \in Four
    BY <1>4 DEF AdcSample, Four
  <2>3. whole' \in BOOLEAN
    BY <1>4 DEF AdcSample, Store
  <2> QED
    BY <1>4, <2>1, <2>2, <2>3, ZenonT(60) DEF AdcSample
<1>5. ASSUME NEW s \in Samples, AdcLast(s) PROVE Safe'
  <2>1. xy' \in [Four -> (0 .. 1023) \X (0 .. 1023)]
    BY <1>5, SamplesTyped DEF AdcLast, Store
  <2>2. cnt' \in Four
    BY <1>5 DEF AdcLast, Four
  <2>3. whole' \in BOOLEAN
    BY <1>5 DEF AdcLast, Store
  <2>4. CASE s3c_filter_ts(xy')
    <3>1. touch' = TRUE /\ reported' = TRUE /\ torn' = (torn \/ ~whole')
      BY <1>5, <2>4 DEF AdcLast
    <3>2. torn' \in BOOLEAN
      BY <3>1, ZenonT(60)
    <3> QED
      BY <1>5, <2>1, <2>2, <2>3, <3>1, <3>2, ZenonT(60) DEF AdcLast
  <2>5. CASE ~s3c_filter_ts(xy')
    <3>1. reported' = FALSE /\ UNCHANGED <<touch, torn>>
      BY <1>5, <2>5 DEF AdcLast
    <3>2. touch' \in BOOLEAN /\ torn' \in BOOLEAN /\ reported' \in BOOLEAN
      BY <3>1, ZenonT(60)
    <3> QED
      BY <1>5, <2>1, <2>2, <2>3, <3>2, ZenonT(60) DEF AdcLast
  <2> QED
    BY <2>4, <2>5
<1>6. CASE TimerLook
  <2>1. softirq' \in {"up", "down"}
    BY <1>6 DEF TimerLook
  <2>2. /\ pen' = pen /\ adctsc' = adctsc /\ tc' = tc /\ adc' = adc /\ cnt' = cnt
        /\ xy' = xy /\ touch' = touch /\ reported' = reported /\ whole' = whole
        /\ torn' = torn /\ hurried' = hurried /\ timer' = FALSE
    BY <1>6 DEF TimerLook, sampleVars
  <2>5. softirq' \in {"idle", "up", "down", "wait", "start"} /\ timer' \in BOOLEAN
    BY <2>1, <2>2, ZenonT(60)
  <2>3. TypeOK'
    BY <2>5, <2>2
  <2>4. ReleaseComing' /\ MeasureEnds'
    BY <1>6, <2>1, <2>2 DEF TimerLook
  <2> QED
    BY <2>3, <2>4
<1>7. CASE TimerRelease
  <2>1. whole' \in BOOLEAN
    BY <1>7 DEF TimerRelease, ReportRelease
  <2> QED
    BY <1>7, <2>1, ZenonT(60) DEF TimerRelease, ReportRelease, sampleVars
<1>8. CASE TimerWaitPenDown
  <2>1. tc' \in BOOLEAN
    BY <1>8 DEF TimerWaitPenDown
  <2> QED
    BY <1>8, <2>1 DEF TimerWaitPenDown, sampleVars
<1>9. CASE TimerMeasure
  BY <1>9 DEF TimerMeasure, sampleVars
<1>10. CASE TimerStartAdc
  BY <1>10 DEF TimerStartAdc, sampleVars
<1>11. CASE UNCHANGED vars
  BY <1>11 DEF vars, sampleVars
<1> HIDE DEF Safe, TypeOK, ReleaseComing, MeasureEnds
<1> QED
  BY <1>1, <1>2, <1>3, <1>4, <1>5, <1>6, <1>7, <1>8, <1>9, <1>10, <1>11
     DEF Next, adc_irq, s3c_ts_timer_function

\* So does the state after insmod.
LEMMA SafeInit == Init => Safe
<1> SUFFICES ASSUME Init PROVE Safe
  OBVIOUS
<1>2. tc \in BOOLEAN /\ pen \in {"up", "down"}
  BY DEF Init
<1>1. [n \in Four |-> <<0, 0>>] \in [Four -> (0 .. 1023) \X (0 .. 1023)]
  OBVIOUS
<1>4. xy \in [Four -> (0 .. 1023) \X (0 .. 1023)]
  BY <1>1 DEF Init
<1>5. cnt \in Four
  BY DEF Init, Four
<1>3. TypeOK
  BY <1>2, <1>4, <1>5, ZenonT(60) DEF Init, TypeOK
<1> QED
  BY <1>3 DEF Init, Safe, ReleaseComing, MeasureEnds

\* Whatever the pen does: types, and a release that cannot be missed.
THEOREM NeverStuck == Spec => [](TypeOK /\ ReleaseComing)
<1>1. Safe => TypeOK /\ ReleaseComing
  BY DEF Safe
<1> QED
  BY SafeInit, SafeStep, <1>1, PTL DEF Spec

\* However fast the pen, the controller is not left in the measuring mode,
\* which no pen interrupt ends: a conversion is coming or about to start.
THEOREM MeasuringEnds == Spec => []MeasureEnds
<1>1. Safe => MeasureEnds
  BY DEF Safe
<1> QED
  BY SafeInit, SafeStep, <1>1, PTL DEF Spec

-----------------------------------------------------------------------------
(* Reports *)

\* The filter on points: AxisOutlier for either axis.
LEMMA FilterOutlier ==
  ASSUME NEW s \in [Four -> (0 .. 1023) \X (0 .. 1023)], s3c_filter_ts(s),
         NEW a \in {1, 2}, NEW n \in Four,
         \A m, k \in Four \ {n} : s[m][a] = s[k][a]
  PROVE  \A m \in Four : Off(s[n][a], s[m][a]) <= 2 * ERR_LIMIT + 1
<1> DEFINE v == Axis(s, a)
<1>1. \A m \in Four : v[m] = s[m][a] /\ v[m] \in 0 .. 1023
  BY DEF Axis
<1>2. v \in [Four -> 0 .. 1023]
  BY <1>1 DEF Axis
<1>3. Steady(v)
  BY DEF s3c_filter_ts
<1>4. \A m, k \in Four \ {n} : v[m] = v[k]
  BY <1>1
<1>5. \A m \in Four : Off(v[n], v[m]) <= 2 * ERR_LIMIT + 1
  <2> HIDE DEF v
  <2> QED
    BY <1>2, <1>3, <1>4, AxisOutlier
<1> QED
  BY <1>1, <1>5

\* The filter on points: AxisStill for both axes.
LEMMA FilterStill ==
  ASSUME NEW s \in [Four -> (0 .. 1023) \X (0 .. 1023)],
         \A a \in {1, 2}, m, n \in Four : Off(s[m][a], s[n][a]) <= ERR_LIMIT
  PROVE  s3c_filter_ts(s)
<1> SUFFICES ASSUME NEW a \in {1, 2} PROVE Steady(Axis(s, a))
  BY DEF s3c_filter_ts
<1> DEFINE v == Axis(s, a)
<1>1. \A m \in Four : v[m] = s[m][a] /\ v[m] \in 0 .. 1023
  BY DEF Axis
<1>2. v \in [Four -> 0 .. 1023]
  BY <1>1 DEF Axis
<1>3. \A m, n \in Four : Off(v[m], v[n]) <= ERR_LIMIT
  BY <1>1
<1> QED
  <2> HIDE DEF v
  <2>1. Steady(v)
    BY <1>2, <1>3, AxisStill
  <2> QED
    BY <2>1 DEF v

\* xy is only called a reported point after the filter has accepted it.
LEMMA PointStep ==
  ASSUME [Next]_vars, reported'
  PROVE  (reported /\ xy' = xy) \/ s3c_filter_ts(xy')
<1>1. ASSUME NEW s \in Samples, AdcLast(s) PROVE s3c_filter_ts(xy')
  BY <1>1 DEF AdcLast
<1>2. CASE PenMoves
  BY <1>2 DEF PenMoves, sampleVars
<1>3. CASE pen_down_up_irq
  BY <1>3 DEF pen_down_up_irq, ReportRelease, NoReport, sampleVars
<1>4. CASE AdcPenUp
  BY <1>4 DEF AdcPenUp, ReportRelease
<1>5. ASSUME NEW s \in Samples, AdcSample(s) PROVE FALSE
  BY <1>5 DEF AdcSample
<1>6. CASE s3c_ts_timer_function
  BY <1>6 DEF s3c_ts_timer_function, TimerLook, TimerRelease, TimerWaitPenDown,
              TimerMeasure, TimerStartAdc, ReportRelease, sampleVars
<1>7. CASE UNCHANGED vars
  BY <1>7 DEF vars, sampleVars
<1> QED
  BY <1>1, <1>2, <1>3, <1>4, <1>5, <1>6, <1>7 DEF Next, adc_irq

\* The filter keeps single outliers out of every reported point.
THEOREM OutliersFiltered == Spec => []NoOutlier
<1>1. Init => NoOutlier
  BY DEF Init, NoOutlier
<1>2. Safe /\ Safe' /\ NoOutlier /\ [Next]_vars => NoOutlier'
  <2> SUFFICES ASSUME Safe, Safe', NoOutlier, [Next]_vars, reported' PROVE NoOutlier'
    BY DEF NoOutlier
  <2>1. CASE reported /\ xy' = xy
    BY <2>1 DEF NoOutlier
  <2>2. CASE s3c_filter_ts(xy')
    <3>1. xy' \in [Four -> (0 .. 1023) \X (0 .. 1023)]
      BY DEF Safe, TypeOK
    <3> QED
      BY <2>2, <3>1, FilterOutlier DEF NoOutlier
  <2> QED
    BY <2>1, <2>2, PointStep
<1> QED
  BY <1>1, <1>2, SafeInit, SafeStep, PTL DEF Spec

\* A pen that stands still is never filtered away.
THEOREM StillReported == Spec => StillPenReported
<1> DEFINE Reports ==
      (cnt = 3 /\ cnt' = 0 /\ pen = "down")
        => \/ touch' /\ reported'
           \/ \E a \in {1, 2}, m, n \in Four : Off(xy'[m][a], xy'[n][a]) > ERR_LIMIT
<1>1. Safe /\ Safe' /\ [Next]_vars => Reports
  <2> SUFFICES ASSUME Safe, Safe', [Next]_vars, cnt = 3, cnt' = 0, pen = "down",
                      \A a \in {1, 2}, m, n \in Four :
                        ~(Off(xy'[m][a], xy'[n][a]) > ERR_LIMIT)
               PROVE  touch' /\ reported'
    OBVIOUS
  <2>1. xy' \in [Four -> (0 .. 1023) \X (0 .. 1023)]
    BY DEF Safe, TypeOK
  <2>2. ASSUME NEW m \in Four PROVE xy'[m][1] \in Nat /\ xy'[m][2] \in Nat
    <3>1. xy'[m] \in (0 .. 1023) \X (0 .. 1023)
      BY <2>1
    <3>2. xy'[m][1] \in 0 .. 1023 /\ xy'[m][2] \in 0 .. 1023
      BY <3>1
    <3> QED
      BY <3>2, CoordinateNat, ZenonT(60)
  <2>3. \A a \in {1, 2}, m, n \in Four : Off(xy'[m][a], xy'[n][a]) <= ERR_LIMIT
    BY <2>2, TouchScreenAssumption DEF TouchScreenAssumption, Off
  <2>4. s3c_filter_ts(xy')
    BY <2>1, <2>3, FilterStill
  <2>5. \E s \in Samples : AdcLast(s)
    <3>1. ~(cnt' = cnt)
      OBVIOUS
    <3> QED
      BY <3>1 DEF Next, adc_irq, PenMoves, pen_down_up_irq, AdcPenUp, AdcSample,
           s3c_ts_timer_function, TimerLook, TimerRelease, TimerWaitPenDown,
           TimerMeasure, TimerStartAdc, sampleVars, vars
  <2> QED
    BY <2>4, <2>5 DEF AdcLast
<1>2. (Safe /\ Safe' /\ [Next]_vars => [Reports]_vars)
  BY <1>1
<1> QED
  BY <1>2, SafeInit, SafeStep, PTL DEF Spec, StillPenReported

-----------------------------------------------------------------------------
(* Points are whole *)

\* Where the driver is while the pen is down: about to take the interrupt,
\* measuring, waiting for the timer, or starting the next measurement.
Phase ==
  \/ tc /\ adctsc = "down" /\ ~adc /\ ~timer /\ softirq = "idle" /\ cnt = 0
  \/ ~tc /\ adctsc = "xy" /\ adc /\ ~timer /\ softirq = "idle"
  \/ ~tc /\ adctsc = "up" /\ ~adc /\ timer /\ softirq = "idle" /\ cnt = 0
  \/ ~tc /\ adctsc = "up" /\ ~adc /\ ~timer /\ softirq = "down" /\ cnt = 0
  \/ ~tc /\ adctsc = "xy" /\ ~adc /\ ~timer /\ softirq = "start" /\ cnt = 0

\* Nothing is left over from a stroke: no samples without a conversion, no
\* waiting for a pen that is already up.
Left ==
  /\ cnt > 0 => adc
  /\ pen = "up" /\ adctsc = "up" => tc

InStroke == pen = "down" => Phase /\ (cnt > 0 => whole)

Strokes ==
  /\ Left
  /\ ~hurried => InStroke
  /\ PointsWhole

\* Every step keeps Left.
LEMMA LeftStep ==
  ASSUME Safe, Left, [Next]_vars
  PROVE  Left'
<1> USE DEF Safe, TypeOK, Left
<1>1. CASE PenMoves
  <2>1. CASE pen' = "down"
    <3>1. cnt' = cnt /\ adc' = adc
      BY <1>1 DEF PenMoves, sampleVars
    <3> QED
      BY <2>1, <3>1
  <2>2. CASE pen' = "up"
    <3>1. cnt' = cnt /\ adc' = adc /\ adctsc' = adctsc
      BY <1>1 DEF PenMoves, sampleVars
    <3>2. adctsc = "up" => tc'
      BY <1>1, <2>2, Zenon DEF PenMoves, Raises
    <3> QED
      BY <2>2, <3>1, <3>2
  <2> QED
    BY <1>1, <2>1, <2>2 DEF PenMoves
<1>2. CASE pen_down_up_irq
  <2>1. adctsc' # "up" /\ cnt' = cnt /\ (adc => adc')
    BY <1>2 DEF pen_down_up_irq, sampleVars
  <2> QED
    BY <2>1
<1>3. CASE AdcPenUp
  <2>1. adctsc' = "down" /\ cnt' = 0
    BY <1>3 DEF AdcPenUp
  <2>2. ~(cnt' > 0) /\ adctsc' # "up"
    BY <2>1
  <2> HIDE DEF Safe, TypeOK
  <2> QED
    BY <2>2
<1>4. ASSUME NEW s \in Samples, AdcSample(s) \/ AdcLast(s) PROVE Left'
  BY <1>4 DEF AdcSample, AdcLast
<1>5. CASE s3c_ts_timer_function
  BY <1>5 DEF s3c_ts_timer_function, TimerLook, TimerRelease, TimerWaitPenDown,
              TimerMeasure, TimerStartAdc, sampleVars, Raises
<1>6. CASE UNCHANGED vars
  BY <1>6 DEF vars, sampleVars
<1> QED
  BY <1>1, <1>2, <1>3, <1>4, <1>5, <1>6 DEF Next, adc_irq

\* Until the pen hurries, every step keeps InStroke and reports whole points.
LEMMA StrokesStep ==
  ASSUME Safe, Strokes, [Next]_vars
  PROVE  Strokes'
<1>1. SUFFICES ASSUME ~hurried' PROVE InStroke' /\ ~torn'
  BY LeftStep DEF Strokes, PointsWhole
<1>2. ~hurried /\ InStroke /\ ~torn /\ Left
  <2>1. hurried => hurried'
    BY ZenonT(60) DEF Safe, TypeOK, Next, PenMoves, pen_down_up_irq, adc_irq, AdcPenUp, AdcSample,
       AdcLast, s3c_ts_timer_function, TimerLook, TimerRelease, TimerWaitPenDown,
       TimerMeasure, TimerStartAdc, vars
  <2> QED
    BY <1>1, <2>1 DEF Strokes, PointsWhole
<1> USE <1>2 DEF Safe, TypeOK, MeasureEnds, InStroke, Left
<1>3. CASE PenMoves
  <2>1. CASE pen = "down" /\ pen' = "up"
    BY <1>3, <2>1 DEF PenMoves, Raises, sampleVars
  <2>2. CASE pen = "up" /\ pen' = "down" /\ AtRest
    <3>1. adctsc = "down"
      BY <2>2 DEF AtRest
    <3>2. UNCHANGED <<adctsc, adc, timer, softirq, cnt, xy, touch, reported, whole, torn>> /\ tc'
      BY <1>3, <2>2, <3>1, ZenonT(60) DEF PenMoves, Raises, sampleVars
    <3>3. cnt = 0
      BY <2>2 DEF AtRest, Four
    <3>4. Phase'
      BY <2>2, <3>1, <3>2, <3>3 DEF AtRest, Phase
    <3> QED
      BY <2>2, <3>2, <3>3, <3>4
  <2> QED
    BY <1>1, <1>3, <2>1, <2>2, ZenonT(60) DEF PenMoves
<1>4. CASE pen_down_up_irq
  BY <1>4 DEF pen_down_up_irq, ReportRelease, NoReport, Phase, sampleVars
<1>5. CASE AdcPenUp
  BY <1>5 DEF AdcPenUp, ReportRelease, Phase
<1>6. ASSUME NEW s \in Samples, AdcSample(s) PROVE InStroke' /\ ~torn'
  <2>1. whole' = ((cnt = 0 \/ whole) /\ adctsc = "xy")
    BY <1>6 DEF AdcSample, Store
  <2>2. adctsc = "xy" /\ ~tc /\ ~timer /\ softirq = "idle"
    BY <1>6 DEF AdcSample, Phase
  <2>3. cnt > 0 \/ cnt = 0
    BY DEF Four
  <2>4. whole'
    BY <1>6, <2>1, <2>2, <2>3, ZenonT(60) DEF AdcSample
  <2> QED
    BY <1>6, <2>2, <2>4 DEF AdcSample, Phase
<1>7. ASSUME NEW s \in Samples, AdcLast(s) PROVE InStroke' /\ ~torn'
  <2>1. whole' = ((cnt = 0 \/ whole) /\ adctsc = "xy")
    BY <1>7 DEF AdcLast, Store
  <2>2. whole /\ adctsc = "xy" /\ ~tc /\ ~timer /\ softirq = "idle"
    BY <1>7 DEF AdcLast, Phase
  <2>3. whole'
    BY <2>1, <2>2, ZenonT(60)
  <2>4. ~torn'
    BY <1>7, <2>3 DEF AdcLast
  <2>5. adctsc' = "up" /\ timer' /\ ~adc' /\ cnt' = 0 /\ tc' = tc /\ softirq' = softirq
    BY <1>7 DEF AdcLast
  <2>6. Phase'
    BY <2>2, <2>5 DEF Phase
  <2> QED
    BY <2>3, <2>4, <2>6
<1>8. CASE s3c_ts_timer_function
  <2>1. CASE TimerLook
    BY <2>1 DEF TimerLook, Phase, sampleVars
  <2>2. CASE TimerRelease
    BY <2>2 DEF TimerRelease, ReportRelease, Phase, sampleVars
  <2>3. CASE TimerWaitPenDown
    BY <2>3 DEF TimerWaitPenDown, Phase, sampleVars
  <2>4. CASE TimerMeasure
    BY <2>4 DEF TimerMeasure, Phase, sampleVars
  <2>5. CASE TimerStartAdc
    BY <2>5 DEF TimerStartAdc, Phase, sampleVars
  <2> QED
    BY <1>8, <2>1, <2>2, <2>3, <2>4, <2>5 DEF s3c_ts_timer_function
<1>9. CASE UNCHANGED vars
  BY <1>9 DEF vars, Phase, sampleVars
<1> QED
  BY <1>3, <1>4, <1>5, <1>6, <1>7, <1>8, <1>9 DEF Next, adc_irq

\* With a pen that stays away until the driver is at rest, a point never mixes
\* the samples of two strokes, nor takes one from outside the measuring mode.
THEOREM WholePoints == Spec => []PointsWhole
<1>1. Init => Strokes
  <2>1. Init => hurried \/ pen = "up"
    BY DEF Init
  <2> QED
    BY <2>1 DEF Init, Strokes, Left, InStroke, PointsWhole
<1>2. Safe /\ Strokes /\ [Next]_vars => Strokes'
  BY StrokesStep
<1>3. Strokes => PointsWhole
  BY DEF Strokes
<1> QED
  BY <1>1, <1>2, <1>3, SafeInit, SafeStep, PTL DEF Spec
=============================================================================
