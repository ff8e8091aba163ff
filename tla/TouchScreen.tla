----------------------------- MODULE TouchScreen -----------------------------
(***************************************************************************)
(* The S3C2440 touchscreen driver (ts_driver.c): the pen interrupt, the    *)
(* ADC interrupt and the 10 ms timer take turns in moving the touchscreen  *)
(* controller between waiting for the pen and measuring its position, and  *)
(* report points and releases to the input layer.                          *)
(*                                                                         *)
(* IRQ_TC and IRQ_ADC are sub-interrupts of one line, so neither handler   *)
(* is interrupted by the other; both interrupt the timer function, whose   *)
(* register accesses are therefore steps of their own.  The pen moves when *)
(* it likes.  The driver reads the UPDOWN bit of adcdat0 as the state of   *)
(* the pen.  Modes of the controller: "down" (0xd3) and "up" (0x1d3) raise *)
(* IRQ_TC when the pen is down or up, "xy" measures.                       *)
(***************************************************************************)
EXTENDS Integers

CONSTANTS
  Samples,    \* what a conversion may yield, pairs of coordinates
  ERR_LIMIT   \* the filter's limit (10 in the driver)

ASSUME TouchScreenAssumption ==
  /\ Samples \subseteq (0 .. 1023) \X (0 .. 1023)
  /\ ERR_LIMIT \in Nat

VARIABLES
  pen,     \* "up" or "down"
  adctsc,  \* the controller's mode
  tc,      \* IRQ_TC is pending
  adc,     \* a conversion is running or IRQ_ADC is pending
  timer,   \* ts_timer is pending
  softirq, \* where the timer function is: the pen state it read, or "wait",
           \* "start" when its next access is to adctsc or adccon
  cnt,     \* samples stored, adc_irq's static
  xy,      \* x[] and y[], adc_irq's statics
  touch,   \* BTN_TOUCH as the input layer has it
  reported, \* xy[] is a point that has been reported (history)
  whole,   \* no release was reported since the first of the stored samples,
           \* and all were converted in "xy" mode (history)
  torn,    \* a point was reported that was not whole (history)
  hurried  \* the pen has come back before the driver was at rest (history)

sampleVars == <<cnt, xy>>
vars == <<pen, adctsc, tc, adc, timer, softirq, sampleVars, touch, reported, whole, torn, hurried>>

Four == 0 .. 3

TypeOK ==
  /\ pen \in {"up", "down"}
  /\ adctsc \in {"up", "down", "xy"}
  /\ tc \in BOOLEAN
  /\ adc \in BOOLEAN
  /\ timer \in BOOLEAN
  /\ softirq \in {"idle", "up", "down", "wait", "start"}
  /\ cnt \in Four
  /\ xy \in [Four -> (0 .. 1023) \X (0 .. 1023)]
  /\ touch \in BOOLEAN
  /\ reported \in BOOLEAN
  /\ whole \in BOOLEAN
  /\ torn \in BOOLEAN
  /\ hurried \in BOOLEAN

\* After insmod: ts_timer was added without setting expires, so it is pending
\* at once; the controller waits for the pen.
Init ==
  /\ pen \in {"up", "down"}
  /\ adctsc = "down"
  /\ tc = (pen = "down")
  /\ adc = FALSE
  /\ timer = TRUE
  /\ softirq = "idle"
  /\ cnt = 0
  /\ xy = [n \in Four |-> <<0, 0>>]
  /\ touch = FALSE
  /\ reported = FALSE
  /\ whole = TRUE
  /\ torn = FALSE
  /\ hurried = (pen = "down")

-----------------------------------------------------------------------------
(* The filter *)

Off(a, b) == IF a > b THEN a - b ELSE b - a

\* Mutated form: only the third sample is compared.
SteadyFirst(v) == Off(v[2], (v[0] + v[1]) \div 2) <= ERR_LIMIT

\* One axis: the third sample against the mean of the first two, the fourth
\* against the mean of the second and the third.
Steady(v) ==
  /\ Off(v[2], (v[0] + v[1]) \div 2) <= ERR_LIMIT
  /\ Off(v[3], (v[1] + v[2]) \div 2) <= ERR_LIMIT

Axis(s, a) == [n \in Four |-> s[n][a]]

\* Mutated form: the limit itself is refused when the axes are compared.
FilterStrict(s) ==
  \A a \in {1, 2} :
    /\ Steady(Axis(s, a))
    /\ Off(s[3][a], s[0][a]) < ERR_LIMIT

s3c_filter_ts(s) == \A a \in {1, 2} : Steady(Axis(s, a))

-----------------------------------------------------------------------------
(* Hardware (external) *)

\* The controller raises IRQ_TC when its mode and the pen agree.
Raises(mode, p) == mode = p

\* The pen, the controller and the driver have settled after a stroke.
AtRest == ~timer /\ softirq = "idle" /\ ~adc /\ ~tc

PenMoves ==
  /\ \/ pen = "down" /\ pen' = "up" /\ UNCHANGED hurried
     \/ pen = "up" /\ pen' = "down" /\ hurried' = (hurried \/ ~AtRest)
  /\ tc' = (tc \/ Raises(adctsc, pen'))
  /\ UNCHANGED <<adctsc, adc, timer, softirq, sampleVars, touch, reported, whole, torn>>

-----------------------------------------------------------------------------
(* Interrupt handlers *)

\* input_report_abs, input_report_key and input_sync of a release.
ReportRelease(kept) ==
  /\ touch' = FALSE
  /\ whole' = (whole /\ kept = 0)
  /\ UNCHANGED <<reported, torn>>

NoReport == UNCHANGED <<touch, reported, whole, torn>>

pen_down_up_irq ==
  /\ tc
  /\ tc' = FALSE
  /\ \/ /\ pen = "up"
        /\ ReportRelease(cnt)
        /\ adctsc' = "down"
        /\ UNCHANGED adc
     \/ /\ pen = "down"
        /\ adctsc' = "xy"
        /\ adc' = TRUE
        /\ NoReport
  /\ UNCHANGED <<pen, timer, softirq, sampleVars, hurried>>

\* Mutated form: the samples are kept.
AdcPenUpKeeps ==
  /\ adc
  /\ pen = "up"
  /\ adc' = FALSE
  /\ ReportRelease(cnt)
  /\ adctsc' = "down"
  /\ UNCHANGED <<pen, tc, timer, softirq, sampleVars, hurried>>

\* The conversion is done but the pen is up: forget the samples.
AdcPenUp ==
  /\ adc
  /\ pen = "up"
  /\ adc' = FALSE
  /\ cnt' = 0
  /\ ReportRelease(0)
  /\ adctsc' = "down"
  /\ UNCHANGED <<pen, tc, timer, softirq, xy, hurried>>

\* Store a sample.
Store(s) ==
  /\ xy' = [xy EXCEPT ![cnt] = s]
  /\ whole' = ((cnt = 0 \/ whole) /\ adctsc = "xy")

\* Mutated form: no conversion is started for the next sample.
AdcSampleStops(s) ==
  /\ adc
  /\ pen = "down"
  /\ cnt < 3
  /\ Store(s)
  /\ cnt' = cnt + 1
  /\ adc' = FALSE
  /\ adctsc' = "xy"
  /\ reported' = FALSE
  /\ UNCHANGED <<pen, tc, timer, softirq, touch, torn, hurried>>

\* One of the first three samples: measure again.
AdcSample(s) ==
  /\ adc
  /\ pen = "down"
  /\ cnt < 3
  /\ Store(s)
  /\ cnt' = cnt + 1
  /\ adc' = TRUE
  /\ adctsc' = "xy"
  /\ reported' = FALSE
  /\ UNCHANGED <<pen, tc, timer, softirq, touch, torn, hurried>>

\* Mutated form: the timer is only started when a point was reported.
AdcLastTimerIfPoint(s) ==
  /\ adc
  /\ pen = "down"
  /\ cnt = 3
  /\ Store(s)
  /\ adc' = FALSE
  /\ cnt' = 0
  /\ IF s3c_filter_ts(xy')
     THEN touch' = TRUE /\ reported' = TRUE /\ torn' = (torn \/ ~whole') /\ timer' = TRUE
     ELSE reported' = FALSE /\ UNCHANGED <<touch, torn, timer>>
  /\ adctsc' = "up"
  /\ UNCHANGED <<pen, tc, softirq, hurried>>

\* Mutated form: long presses are left to the pen interrupt.
AdcLastNoTimer(s) ==
  /\ adc
  /\ pen = "down"
  /\ cnt = 3
  /\ Store(s)
  /\ adc' = FALSE
  /\ cnt' = 0
  /\ IF s3c_filter_ts(xy')
     THEN touch' = TRUE /\ reported' = TRUE /\ torn' = (torn \/ ~whole')
     ELSE reported' = FALSE /\ UNCHANGED <<touch, torn>>
  /\ adctsc' = "up"
  /\ UNCHANGED <<pen, tc, timer, softirq, hurried>>

\* The fourth sample: report the point when the filter accepts it, wait for
\* the pen to go up, and look again in 10 ms.
AdcLast(s) ==
  /\ adc
  /\ pen = "down"
  /\ cnt = 3
  /\ Store(s)
  /\ adc' = FALSE
  /\ cnt' = 0
  /\ IF s3c_filter_ts(xy')
     THEN touch' = TRUE /\ reported' = TRUE /\ torn' = (torn \/ ~whole')
     ELSE reported' = FALSE /\ UNCHANGED <<touch, torn>>
  /\ adctsc' = "up"
  /\ timer' = TRUE
  /\ UNCHANGED <<pen, tc, softirq, hurried>>

adc_irq ==
  \/ AdcPenUp
  \/ \E s \in Samples : AdcSample(s) \/ AdcLast(s)

-----------------------------------------------------------------------------
(* s3c_ts_timer_function *)

TimerLook ==
  /\ timer
  /\ softirq = "idle"
  /\ timer' = FALSE
  /\ softirq' = pen
  /\ UNCHANGED <<pen, adctsc, tc, adc, sampleVars, touch, reported, whole, torn, hurried>>

TimerRelease ==
  /\ softirq = "up"
  /\ softirq' = "wait"
  /\ ReportRelease(cnt)
  /\ UNCHANGED <<pen, adctsc, tc, adc, timer, sampleVars, hurried>>

TimerWaitPenDown ==
  /\ softirq = "wait"
  /\ softirq' = "idle"
  /\ adctsc' = "down"
  /\ tc' = (tc \/ Raises("down", pen))
  /\ UNCHANGED <<pen, adc, timer, sampleVars, touch, reported, whole, torn, hurried>>

TimerMeasure ==
  /\ softirq = "down"
  /\ softirq' = "start"
  /\ adctsc' = "xy"
  /\ UNCHANGED <<pen, tc, adc, timer, sampleVars, touch, reported, whole, torn, hurried>>

TimerStartAdc ==
  /\ softirq = "start"
  /\ softirq' = "idle"
  /\ adc' = TRUE
  /\ UNCHANGED <<pen, adctsc, tc, timer, sampleVars, touch, reported, whole, torn, hurried>>

s3c_ts_timer_function ==
  \/ TimerLook
  \/ TimerRelease
  \/ TimerWaitPenDown
  \/ TimerMeasure
  \/ TimerStartAdc

Next ==
  \/ PenMoves
  \/ pen_down_up_irq
  \/ adc_irq
  \/ s3c_ts_timer_function

Spec == Init /\ [][Next]_vars

\* A running conversion ends, a pending timer expires and its function runs.
Fairness == WF_vars(adc_irq) /\ WF_vars(s3c_ts_timer_function)

FairSpec == Spec /\ Fairness

-----------------------------------------------------------------------------
(* Properties *)

\* As long as the input layer believes in a touch, the timer or a conversion
\* is under way that will look at the pen again: no release can be missed
\* even when the pen interrupt is, whatever the handlers do to each other.
ReleaseComing ==
  touch => timer \/ adc \/ softirq \in {"up", "down", "start"}

\* The controller is never left in the measuring mode, in which it raises no
\* pen interrupt, without a conversion whose interrupt leads out of it.
MeasureEnds == adctsc = "xy" => adc \/ softirq = "start"

\* Until the pen comes back before the driver is at rest for the first time,
\* the four samples of every point were measured in the measuring mode, with
\* no release reported in between.
PointsWhole == ~hurried => ~torn

\* A point of which three samples agree on an axis does not come with a
\* fourth that is more than twice the limit (and rounding) away.
NoOutlier ==
  reported =>
    \A a \in {1, 2}, n \in Four :
      (\A m, k \in Four \ {n} : xy[m][a] = xy[k][a])
        => \A m \in Four : Off(xy[n][a], xy[m][a]) <= 2 * ERR_LIMIT + 1

\* Four samples that differ by no more than the limit are always reported.
StillPenReported ==
  [][(cnt = 3 /\ cnt' = 0 /\ pen = "down")
       => \/ touch' /\ reported'
          \/ \E a \in {1, 2}, m, n \in Four : Off(xy'[m][a], xy'[n][a]) > ERR_LIMIT]_vars

\* After the pen has gone up for good the input layer learns of it, by the
\* timer and the conversions alone.
ReleaseReported == <>[](pen = "up") => <>[]~touch

\* The timer's purpose, to handle a long press and sliding: as long as the
\* pen is down the driver measures again and again.  That the pen went down
\* at all it only learns when the controller's interrupt is delivered.
LongPressMeasured ==
  WF_vars(pen_down_up_irq) /\ <>[](pen = "down")
    => []<>(adctsc = "xy") /\ []<>(adctsc = "up")
=============================================================================
