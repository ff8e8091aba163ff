---------------------------- MODULE ReplayProofs ----------------------------
(***************************************************************************)
(* The replay keeps the recorded distances and reports every event that it *)
(* has read, for every set of recorded files, every length of the buffer   *)
(* and of a piece and every width of jiffies; and no write leaves the      *)
(* buffer.                                                                 *)
(*                                                                         *)
(* NeverEarly is about the step that reports an event.  The invariant      *)
(* (Kept) follows the recorded time of the event reported last: in the     *)
(* loop it stands in pre_time, and while the timer runs the time since the *)
(* report and what is left of the timer are together at least the          *)
(* distance to the event in pre.                                           *)
(*                                                                         *)
(* A write that has loaded replay_w stores it advanced whatever the replay *)
(* did to it in between: it can only have reset it (Loading), and a replay *)
(* that resets it inside a write counts as torn.                           *)
(*                                                                         *)
(* PlaysBuffer compares two sequences without the events that do not       *)
(* count.  It is inductive once pre is known to be empty when no timer     *)
(* function is to come (Idle), as an ioctl would have it report pre.  What *)
(* Real, a recursive function, makes of a sequence with an event more is   *)
(* shown by induction (SetInduction).                                      *)
(***************************************************************************)
EXTENDS Replay, FiniteSetTheorems, FunctionTheorems, SequenceTheorems, TLAPS

Event == [time : 0 .. JIFFIES - 1, ev : Events]

Cell == [e : Event, half : {"head", "tail", "junk"}]

Typed ==
  /\ buf \in [0 .. LEN - 1 -> Cell]
  /\ rd \in Nat
  /\ wr \in 0 .. LEN - 1
  /\ pre \in Event
  /\ timer \in BOOLEAN
  /\ left \in Nat
  /\ func \in {"off", "start", "loop"}
  /\ todo \in Seq(Cell)
  /\ copied \in Nat
  /\ loaded \in Nat \union {Not}
  /\ halted \in BOOLEAN
  /\ played \in Seq(Event)
  /\ gap \in Nat
  /\ torn \in BOOLEAN
  /\ missed \in BOOLEAN

\* A write that has copied fits behind the index it has still to advance.
Fits == copied > 0 => wr + copied < LEN

\* While a write has replay_w loaded, the variable itself is that value, or has
\* been reset, which the replay takes for torn.
Loading ==
  /\ copied > 0 => todo # <<>>
  /\ loaded # Not => /\ copied > 0 /\ loaded + copied < LEN
                     /\ wr <= loaded
                     /\ ~torn => wr = loaded

\* The event reported last, and the time until the one in pre.
OnTime ==
  LET last == played[Len(played)].time
  IN  /\ pre.time # 0
      /\ func = "loop" => last = pre.time
      /\ func # "loop" => gap + (IF timer THEN left ELSE 0) >= Distance(last, pre.time)

Kept ==
  /\ func # "off" => ~timer
  /\ func = "off" /\ ~timer => played = <<>>
  /\ ~torn /\ played # <<>> /\ NoneAtZero => OnTime

\* A timer function that is not to come has no event waiting.
Idle == func = "off" /\ ~timer => pre = Zero

IInv == Typed /\ Fits /\ Loading /\ Kept /\ Idle /\ PlaysBuffer

-----------------------------------------------------------------------------
(* Types *)

\* A recorded file is written as cells.
LEMMA CellsTyped == \A f \in Files : Cells(f) \in Seq(Cell)
<1> SUFFICES ASSUME NEW f \in Files PROVE Cells(f) \in Seq(Cell)
  OBVIOUS
<1>1. f \in Seq(Event)
  BY ReplayAssumption DEF Event
<1>2. \A i \in 1 .. 2 * Len(f) : (i + 1) \div 2 \in 1 .. Len(f)
  BY <1>1
<1>3. \A i \in 1 .. 2 * Len(f) : f[(i + 1) \div 2] \in Event
  BY <1>1, <1>2
<1>4. Cells(f) \in [1 .. 2 * Len(f) -> Cell]
  BY <1>3 DEF Cells, Cell
<1>5. 2 * Len(f) \in Nat
  BY <1>1
<1> QED
  BY <1>4, <1>5, IsASeq

\* The events of the files, and the stand-ins for what is read elsewhere.
LEMMA EventsTyped ==
  /\ Recorded \subseteq Event
  /\ Zero \in Event
  /\ \A d \in Digits : [time |-> d, ev |-> "stray"] \in Event /\ d # 0
<1>1. \A f \in Files : ToSet(f) \subseteq Event
  <2> SUFFICES ASSUME NEW f \in Files, NEW i \in DOMAIN f PROVE f[i] \in Event
    BY DEF ToSet
  <2>1. f \in Seq(Event)
    BY ReplayAssumption DEF Event
  <2> QED
    BY <2>1
<1>2. Recorded \subseteq Event
  BY <1>1 DEF Recorded
<1>3. Zero \in Event
  BY ReplayAssumption DEF Zero, Event
<1>4. \A d \in Digits : [time |-> d, ev |-> "stray"] \in Event /\ d # 0
  BY ReplayAssumption DEF Event
<1> QED
  BY <1>2, <1>3, <1>4

\* What is left of a file is again cells.
LEMMA RestTyped ==
  ASSUME Typed, todo # <<>>
  PROVE  /\ Size \in 1 .. Len(todo)
         /\ Rest \in Seq(Cell)
<1>1. Size \in 1 .. Len(todo)
  BY ReplayAssumption DEF Typed, Size
<1>2. \A i \in Size + 1 .. Len(todo) : todo[i] \in Cell
  BY <1>1 DEF Typed
<1>3. Rest \in Seq(Cell)
  BY <1>1, <1>2, SubSeqProperties DEF Rest, Typed
<1> QED
  BY <1>1, <1>3

LEMMA CopiedTyped ==
  ASSUME Typed, todo # <<>>
  PROVE  Copied \in [0 .. LEN - 1 -> Cell]
<1>1. Size \in 1 .. Len(todo)
  BY RestTyped
<1>2. \A i \in 0 .. LEN - 1 : i - wr \in 0 .. Size - 1 => todo[i - wr + 1] \in Cell
  BY <1>1 DEF Typed
<1> QED
  BY <1>2 DEF Copied, Typed

LEMMA DistanceTyped ==
  ASSUME NEW from \in Int, NEW to \in Int
  PROVE  /\ Distance(from, to) \in Nat
         /\ from = to => Distance(from, to) = 0
BY ReplayAssumption DEF Distance

\* Every step of the timer function that reads a line e.
LEMMA TakeTyped ==
  ASSUME Typed, torn' \in BOOLEAN, NEW e \in Event, Take(e)
  PROVE  /\ pre' \in Event /\ timer' \in BOOLEAN /\ left' \in Nat
         /\ func' \in {"off", "start", "loop"}
         /\ played' \in Seq(Event) /\ gap' \in Nat
<1>1. CASE Skip(e)
  BY <1>1 DEF Skip, Typed, timerVars
<1>2. CASE Report(e)
  <2>1. played' \in Seq(Event)
    BY <1>2 DEF Report, input_event, Typed
  <2>2. pre' \in Event
    BY <1>2 DEF Report, Typed, Event
  <2> QED
    BY <1>2, <2>1, <2>2 DEF Report, input_event, Typed, timerVars
<1>3. CASE Schedule(e)
  <2>1. Delay(e) \in Nat
    BY DistanceTyped DEF Delay, Typed, Event
  <2> QED
    BY <1>3, <2>1 DEF Schedule, Typed
<1> QED
  BY <1>1, <1>2, <1>3 DEF Take

LEMMA TypedNext == Typed /\ Loading /\ [Next]_vars => Typed'
<1> SUFFICES ASSUME Typed, Loading, [Next]_vars PROVE Typed'
  OBVIOUS
<1> USE DEF bufVars, timerVars, appVars, history
<1>1. CASE OpenFile
  BY <1>1, CellsTyped DEF OpenFile, Typed
<1>2. CASE Abandon
  BY <1>2 DEF Abandon, Typed
<1>3. CASE WriteFull
  BY <1>3, RestTyped DEF WriteFull, Typed
<1>4. CASE WriteCopy
  BY <1>4, RestTyped, CopiedTyped DEF WriteCopy, Typed
<1>5. CASE WriteStore
  <2>1. Rest \in Seq(Cell)
    <3>1. CASE todo # <<>>
      BY <3>1, RestTyped
    <3>2. CASE todo = <<>>
      BY <3>2, SubSeqEmpty, ReplayAssumption DEF Rest, Size
    <3> QED
      BY <3>1, <3>2
  <2>2. loaded + copied \in 0 .. LEN - 1
    BY <1>5, ReplayAssumption DEF WriteStore, Loading, Typed
  <2> QED
    BY <1>5, <2>1, <2>2 DEF WriteStore, Typed
<1>6. CASE replay_ioctl
  BY <1>6 DEF replay_ioctl, Typed
<1>7. CASE Tick
  BY <1>7 DEF Tick, Typed
<1>8. CASE Expire
  BY <1>8 DEF Expire, Typed
<1>9. CASE FuncStart
  <2>1. played' \in Seq(Event) /\ gap' \in Nat
    <3>1. played \in Seq(Event) /\ gap \in Nat /\ pre \in Event
      BY DEF Typed
    <3>2. Append(played, pre) \in Seq(Event) /\ <<>> \in Seq(Event)
      BY <3>1
    <3>3. \/ played' = played /\ gap' = gap
          \/ (played' = <<>> \/ played' = Append(played, pre)) /\ gap' = 0
      BY <1>9 DEF FuncStart, input_event
    <3>4. played' \in Seq(Event)
      BY <3>1, <3>2, <3>3, Zenon
    <3>5. gap' \in Nat
      <4>1. gap' = gap \/ gap' = 0
        BY <3>3
      <4> QED
        BY <3>1, <4>1
    <3> QED
      BY <3>4, <3>5
  <2> QED
    BY <1>9, <2>1 DEF FuncStart, Typed
<1>10. CASE ReadLine
  <2>1. rd \in 0 .. LEN - 1
    <3>1. rd \in Nat /\ wr \in 0 .. LEN - 1 /\ rd + 1 < wr
      BY <1>10 DEF ReadLine, Whole, Typed
    <3>2. LEN \in Nat
      BY ReplayAssumption
    <3> QED
      BY <3>1, <3>2
  <2>2. buf[rd] \in Cell
    BY <2>1 DEF Typed
  <2>3. buf[rd].e \in Event
    BY <2>2 DEF Cell
  <2> QED
    BY <1>10, <2>3, TakeTyped DEF ReadLine, Typed
<1>11. CASE ReadTorn
  <2>1. rd' \in Nat
    BY <1>11 DEF ReadTorn, Typed
  <2>2. PICK e \in Recorded \cup {Zero} : Take(e)
    BY <1>11 DEF ReadTorn
  <2>3. e \in Event
    BY EventsTyped
  <2>4. torn' = TRUE
    BY <1>11 DEF ReadTorn
  <2> QED
    BY <1>11, <2>1, <2>2, <2>3, <2>4, TakeTyped DEF ReadTorn, Typed
<1>12. CASE ReadStray
  <2>1. PICK d \in Digits : Take([time |-> d, ev |-> "stray"])
    BY <1>12 DEF ReadStray
  <2> QED
    BY <1>12, <2>1, EventsTyped, TakeTyped DEF ReadStray, Typed
<1>13. CASE ReadEnd
  <2>1. Zero \in Event /\ 0 \in 0 .. LEN - 1
    BY EventsTyped, ReplayAssumption
  <2>2. torn' \in BOOLEAN
    BY <1>13 DEF ReadEnd
  <2>3. <<>> \in Seq(Event)
    OBVIOUS
  <2> QED
    BY <1>13, <2>1, <2>2, <2>3 DEF ReadEnd, Typed
<1>14. CASE UNCHANGED vars
  BY <1>14 DEF vars, Typed
<1>15. CASE WriteLoad
  BY <1>15 DEF WriteLoad, Typed
<1> QED
  BY <1>1, <1>2, <1>3, <1>4, <1>5, <1>6, <1>7, <1>8, <1>9, <1>10, <1>11, <1>12, <1>13, <1>14, <1>15
     DEF Next, replay_write, input_replay_timer_func

-----------------------------------------------------------------------------
(* Writes stay in the buffer *)

\* Between its copy and its advance replay_w can only go back to the start.
LEMMA FitsNext == Typed /\ Fits /\ [Next]_vars => Fits'
<1> SUFFICES ASSUME Typed, Fits, [Next]_vars PROVE Fits'
  OBVIOUS
<1> USE DEF bufVars, timerVars, appVars, history
<1>1. ASSUME UNCHANGED <<wr, copied>> PROVE Fits'
  BY <1>1 DEF Fits
<1>2. CASE OpenFile \/ Abandon \/ WriteFull
  BY <1>1, <1>2 DEF OpenFile, Abandon, WriteFull
<1>3. CASE WriteCopy
  BY <1>3 DEF WriteCopy, Fits
<1>4. CASE WriteLoad \/ WriteStore
  BY <1>1, <1>4 DEF WriteLoad, WriteStore, Fits
<1>5. CASE replay_ioctl \/ Tick \/ Expire \/ FuncStart
  BY <1>1, <1>5 DEF replay_ioctl, Tick, Expire, FuncStart
<1>6. CASE ReadLine \/ ReadTorn \/ ReadStray
  BY <1>1, <1>6 DEF ReadLine, ReadTorn, ReadStray
<1>7. CASE ReadEnd
  <2>1. wr' = 0 /\ copied' = copied
    BY <1>7 DEF ReadEnd
  <2> QED
    BY <2>1, ReplayAssumption DEF Fits, Typed
<1>8. CASE UNCHANGED vars
  BY <1>1, <1>8 DEF vars
<1> QED
  BY <1>2, <1>3, <1>4, <1>5, <1>6, <1>7, <1>8
     DEF Next, replay_write, input_replay_timer_func

LEMMA LoadingNext == Typed /\ Fits /\ Loading /\ [Next]_vars => Loading'
<1> SUFFICES ASSUME Typed, Fits, Loading, [Next]_vars PROVE Loading'
  OBVIOUS
<1> USE DEF bufVars, timerVars, appVars, history
<1>1. ASSUME UNCHANGED <<wr, todo, copied, loaded>>, torn' \/ torn' = torn PROVE Loading'
  BY <1>1 DEF Loading
<1>2. CASE OpenFile \/ Abandon \/ WriteFull \/ WriteCopy
  <2>1. copied = 0 /\ loaded' = loaded
    <3>1. todo = <<>> => copied = 0
      BY DEF Loading, Typed
    <3> QED
      BY <1>2, <3>1 DEF OpenFile, Abandon, WriteFull, WriteCopy
  <2>2. loaded = Not
    BY <2>1 DEF Loading
  <2>3. copied' > 0 => todo' # <<>>
    BY <1>2, <2>1 DEF OpenFile, Abandon, WriteFull, WriteCopy
  <2> QED
    BY <2>1, <2>2, <2>3 DEF Loading
<1>3. CASE WriteLoad
  <2>1. loaded' = wr /\ wr' = wr /\ copied' = copied /\ todo' = todo /\ copied > 0
    BY <1>3 DEF WriteLoad
  <2> QED
    BY <2>1, ReplayAssumption DEF Loading, Fits, Typed
<1>4. CASE WriteStore
  BY <1>4 DEF WriteStore, Loading
<1>5. CASE replay_ioctl \/ Tick \/ Expire \/ FuncStart
  BY <1>1, <1>5 DEF replay_ioctl, Tick, Expire, FuncStart
<1>6. CASE ReadLine \/ ReadTorn \/ ReadStray
  BY <1>1, <1>6 DEF ReadLine, ReadTorn, ReadStray
<1>7. CASE ReadEnd
  <2>1. wr' = 0 /\ copied' = copied /\ loaded' = loaded /\ todo' = todo /\ torn' = (todo # <<>>)
    BY <1>7 DEF ReadEnd
  <2>2. loaded # Not => loaded \in Nat /\ copied > 0 /\ todo # <<>>
    BY DEF Loading, Typed
  <2>3. loaded # Not => wr' <= loaded'
    BY <2>1, <2>2
  <2>4. loaded # Not => torn'
    BY <2>1, <2>2, Zenon
  <2> QED
    BY <2>1, <2>3, <2>4 DEF Loading
<1>8. CASE UNCHANGED vars
  BY <1>1, <1>8 DEF vars
<1> QED
  BY <1>2, <1>3, <1>4, <1>5, <1>6, <1>7, <1>8
     DEF Next, replay_write, input_replay_timer_func

-----------------------------------------------------------------------------
(* The recorded distances *)

\* A step that only writes the buffer.
LEMMA KeptOutside ==
  ASSUME Kept, UNCHANGED <<pre, timerVars, func, played, gap, torn>>, NoneAtZero' => NoneAtZero
  PROVE  Kept'
<1>1. UNCHANGED <<pre, timer, left, func, played, gap, torn>>
  BY DEF timerVars
<1>2. OnTime' <=> OnTime
  BY <1>1 DEF OnTime, Distance
<1> QED
  BY <1>1, <1>2 DEF Kept

\* A line is read as e: nothing of it is lost or reported before its time.
LEMMA KeptInLoop ==
  ASSUME Typed, Kept, func = "loop", NEW e \in Event, Take(e),
         torn' \/ (torn' = torn /\ (NoneAtZero' => NoneAtZero /\ e.time # 0))
  PROVE  Kept'
<1>1. CASE Skip(e)
  <2>1. UNCHANGED <<pre, func, timer, left, played, gap>>
    BY <1>1 DEF Skip, timerVars
  <2>2. OnTime' <=> OnTime
    BY <2>1 DEF OnTime, Distance
  <2> QED
    BY <2>1, <2>2 DEF Kept
<1>2. CASE Report(e)
  <2>1. func' = "loop" /\ timer' = timer
    BY <1>2 DEF Report, timerVars
  <2>2. ASSUME ~torn', NoneAtZero' PROVE OnTime'
    <3>1. played' = Append(played, e)
      BY <1>2, <2>2 DEF Report, input_event
    <3>2. played'[Len(played')] = e
      BY <3>1, AppendProperties DEF Typed
    <3>3. pre'.time = e.time
      BY <1>2 DEF Report, Typed, Event
    <3>4. e.time # 0
      BY <2>2
    <3> QED
      BY <2>1, <3>2, <3>3, <3>4 DEF OnTime
  <2> QED
    BY <2>1, <2>2 DEF Kept
<1>3. CASE Schedule(e)
  <2>1. /\ timer' = TRUE /\ left' = Delay(e) /\ pre' = e /\ func' = "off"
        /\ played' = played /\ gap' = gap
    BY <1>3 DEF Schedule
  <2>2. ASSUME ~torn', played' # <<>>, NoneAtZero' PROVE OnTime'
    <3>1. OnTime /\ e.time # 0
      BY <2>1, <2>2 DEF Kept
    <3>2. played[Len(played)].time = pre.time
      BY <3>1 DEF OnTime
    <3>3. pre.time \in Int /\ e.time \in Int
      BY DEF Typed, Event
    <3>4. left' = Distance(pre.time, e.time) /\ left' \in Nat
      BY <2>1, <3>3, DistanceTyped DEF Delay
    <3>5. Distance(played'[Len(played')].time, pre'.time) = left'
      BY <2>1, <3>2, <3>4
    <3>6. gap' + left' >= left'
      BY <2>1, <3>4 DEF Typed
    <3> QED
      BY <2>1, <3>1, <3>5, <3>6 DEF OnTime
  <2> QED
    BY <2>1, <2>2 DEF Kept
<1> QED
  BY <1>1, <1>2, <1>3 DEF Take

LEMMA KeptNext == Typed /\ Loading /\ Kept /\ [Next]_vars => Kept'
<1> SUFFICES ASSUME Typed, Loading, Kept, [Next]_vars PROVE Kept'
  OBVIOUS
<1>1. CASE OpenFile \/ Abandon \/ WriteFull \/ WriteLoad
  <2>1. UNCHANGED <<pre, timerVars, func, played, gap, torn>> /\ UNCHANGED <<buf, rd, wr>>
    BY <1>1 DEF OpenFile, Abandon, WriteFull, WriteLoad, bufVars, history
  <2> QED
    BY <2>1, KeptOutside DEF NoneAtZero
<1>2. CASE WriteCopy
  <2>1. UNCHANGED <<pre, timerVars, func, played, gap, torn>> /\ UNCHANGED <<rd, wr>> /\ buf' = Copied
    BY <1>2 DEF WriteCopy, history
  <2>2. DOMAIN buf' = DOMAIN buf /\ \A i \in DOMAIN buf : i < wr => buf'[i] = buf[i]
    BY <2>1 DEF Copied, Typed
  <2>3. NoneAtZero' => NoneAtZero
    BY <2>1, <2>2 DEF NoneAtZero
  <2> QED
    BY <2>1, <2>3, KeptOutside
<1>3. CASE WriteStore
  <2>1. UNCHANGED <<pre, timerVars, func, played, gap, torn>> /\ UNCHANGED <<buf, rd>>
        /\ wr' = loaded + copied /\ loaded # Not
    BY <1>3 DEF WriteStore
  <2>2. \A i \in DOMAIN buf : i < wr => i < wr'
    <3>1. wr <= loaded /\ loaded \in Nat /\ copied \in Nat /\ wr \in Nat
      BY <2>1 DEF Loading, Typed
    <3> QED
      BY <2>1, <3>1 DEF Typed
  <2>3. NoneAtZero' => NoneAtZero
    BY <2>1, <2>2 DEF NoneAtZero
  <2> QED
    BY <2>1, <2>3, KeptOutside
<1>4. CASE replay_ioctl
  <2>1. /\ UNCHANGED <<buf, rd, wr, pre, func, played, gap, torn>>
        /\ func = "off" /\ timer' = TRUE
        /\ left' = IF timer THEN left ELSE 1
    BY <1>4 DEF replay_ioctl, Process, bufVars, history
  <2>2. NoneAtZero' <=> NoneAtZero
    BY <2>1 DEF NoneAtZero
  <2>3. CASE timer
    BY <2>1, <2>2, <2>3 DEF Kept, OnTime, Distance
  <2>4. CASE ~timer
    BY <2>1, <2>4 DEF Kept
  <2> QED
    BY <2>3, <2>4
<1>5. CASE Tick
  <2>1. /\ UNCHANGED <<buf, rd, wr, pre, timer, func, played, torn>>
        /\ timer /\ func = "off" /\ left' = left - 1 /\ gap' = gap + 1
    BY <1>5 DEF Tick, Process, bufVars
  <2>2. gap' + left' = gap + left
    BY <2>1 DEF Typed
  <2>3. OnTime => OnTime'
    BY <2>1, <2>2 DEF OnTime, Distance
  <2>4. NoneAtZero' <=> NoneAtZero
    BY <2>1 DEF NoneAtZero
  <2> QED
    BY <2>1, <2>3, <2>4 DEF Kept
<1>6. CASE Expire
  <2>1. /\ UNCHANGED <<buf, rd, wr, pre, played, gap, torn>>
        /\ timer /\ left = 0 /\ timer' = FALSE /\ func = "off" /\ func' = "start"
    BY <1>6 DEF Expire, Process, bufVars, history
  <2>2. OnTime => OnTime'
    BY <2>1 DEF OnTime, Distance
  <2>3. NoneAtZero' <=> NoneAtZero
    BY <2>1 DEF NoneAtZero
  <2> QED
    BY <2>1, <2>2, <2>3 DEF Kept
<1>7. CASE FuncStart
  <2>1. UNCHANGED <<buf, rd, wr, pre, timer, torn>> /\ func = "start" /\ func' = "loop"
    BY <1>7 DEF FuncStart, bufVars, timerVars
  <2>2. NoneAtZero' <=> NoneAtZero
    BY <2>1 DEF NoneAtZero
  <2>3. CASE pre.time # 0
    <3>1. played' = IF torn THEN <<>> ELSE Append(played, pre)
      BY <1>7, <2>1, <2>3 DEF FuncStart, input_event
    <3>2. ~torn => played'[Len(played')] = pre
      BY <3>1, AppendProperties DEF Typed
    <3> QED
      BY <2>1, <2>3, <3>2 DEF Kept, OnTime
  <2>4. CASE pre.time = 0
    <3>1. played' = played
      BY <1>7, <2>4 DEF FuncStart
    <3> QED
      BY <2>1, <2>2, <2>4, <3>1 DEF Kept, OnTime
  <2> QED
    BY <2>3, <2>4
<1>8. CASE ReadLine
  <2>1. /\ UNCHANGED <<buf, wr, torn>> /\ rd' = rd + 2 /\ func = "loop"
        /\ Take(buf[rd].e) /\ rd + 1 < wr
        /\ buf[rd + 1] = [buf[rd] EXCEPT !.half = "tail"]
    BY <1>8 DEF ReadLine, Whole
  <2>2. rd \in 0 .. LEN - 1 /\ rd + 1 \in 0 .. LEN - 1
    <3>1. rd \in Nat /\ wr \in 0 .. LEN - 1 /\ LEN \in Nat
      BY ReplayAssumption DEF Typed
    <3> QED
      BY <2>1, <3>1
  <2>3. buf[rd] \in Cell
    BY <2>2 DEF Typed
  <2>4. buf[rd + 1].half = "tail" /\ buf[rd + 1].e = buf[rd].e /\ buf[rd].e \in Event
    BY <2>1, <2>3 DEF Cell
  <2>5. NoneAtZero' => NoneAtZero
    BY <2>1 DEF NoneAtZero, Typed
  <2>6. NoneAtZero' => buf[rd + 1].e.time # 0
    <3>1. rd + 1 \in DOMAIN buf
      BY <2>2 DEF Typed
    <3>2. rd + 1 < rd'
      BY <2>1, <2>2
    <3> QED
      BY <2>1, <2>4, <3>1, <3>2 DEF NoneAtZero
  <2> QED
    BY <2>1, <2>4, <2>5, <2>6, KeptInLoop
<1>9. CASE ReadTorn
  <2>1. PICK e \in Recorded \cup {Zero} : Take(e)
    BY <1>9 DEF ReadTorn
  <2>2. e \in Event
    BY EventsTyped
  <2> QED
    BY <1>9, <2>1, <2>2, KeptInLoop DEF ReadTorn
<1>10. CASE ReadStray
  <2>1. PICK d \in Digits : Take([time |-> d, ev |-> "stray"])
    BY <1>10 DEF ReadStray
  <2>2. UNCHANGED <<buf, wr, torn>> /\ rd' = rd + 1 /\ func = "loop"
    BY <1>10 DEF ReadStray
  <2>3. NoneAtZero' => NoneAtZero
    BY <2>2 DEF NoneAtZero, Typed
  <2>4. [time |-> d, ev |-> "stray"] \in Event /\ d # 0
    BY EventsTyped
  <2> QED
    BY <2>1, <2>2, <2>3, <2>4, KeptInLoop
<1>11. CASE ReadEnd
  BY <1>11 DEF ReadEnd, Kept
<1>12. CASE UNCHANGED vars
  <2>1. UNCHANGED <<pre, timerVars, func, played, gap, torn>> /\ UNCHANGED <<buf, rd, wr>>
    BY <1>12 DEF vars, bufVars, history
  <2> QED
    BY <2>1, KeptOutside DEF NoneAtZero
<1> QED
  BY <1>1, <1>2, <1>3, <1>4, <1>5, <1>6, <1>7, <1>8, <1>9, <1>10, <1>11, <1>12
     DEF Next, replay_write, input_replay_timer_func

-----------------------------------------------------------------------------
(* The events that count *)

\* Induction over the natural numbers, for a set of them: the numbers up to n
\* outside S would be a finite set that counting down by one maps into itself
\* one to one, so onto itself, and yet misses its greatest element.
LEMMA SetInduction ==
  ASSUME NEW S \in SUBSET Nat, 0 \in S, \A n \in S : n + 1 \in S
  PROVE  \A n \in Nat : n \in S
<1> SUFFICES ASSUME NEW n \in Nat, n \notin S PROVE FALSE
  OBVIOUS
<1> DEFINE T == (0 .. n) \ S
           down == [k \in T |-> k - 1]
<1>1. IsFiniteSet(T)
  <2>1. IsFiniteSet(0 .. n) /\ T \in SUBSET (0 .. n)
    BY FS_Interval
  <2> QED
    BY <2>1, FS_Subset, Zenon
<1>2. down \in [T -> T]
  <2> SUFFICES ASSUME NEW k \in T PROVE k - 1 \in T
    OBVIOUS
  <2>1. k \in Nat /\ k # 0 /\ k <= n
    OBVIOUS
  <2>2. k - 1 \in S => (k - 1) + 1 \in S
    OBVIOUS
  <2> QED
    BY <2>1, <2>2
<1>3. \A i, j \in T : down[i] = down[j] => i = j
  OBVIOUS
<1>4. down \in Injection(T, T)
  BY <1>2, <1>3, Fun_IsInj, Zenon
<1>5. down \in Surjection(T, T)
  BY <1>1, <1>4, FS_Injection, Zenon
<1>6. PICK k \in T : down[k] = n
  <2>1. n \in T
    OBVIOUS
  <2> HIDE DEF T, down
  <2> QED
    BY <1>5, <2>1 DEF Surjection
<1>7. down[k] = k - 1 /\ k <= n /\ k \in Nat
  BY <1>6
<1> QED
  BY <1>6, <1>7

\* The recursive function by which Real is defined, on the first n.
RealUpTo(s, n, real) ==
  real = [k \in 0 .. n |->
            IF k = 0 THEN <<>>
            ELSE IF Counts(s[k]) THEN Append(real[k - 1], s[k]) ELSE real[k - 1]]

\* What it is at k.
RealStep(s, real, k) == IF Counts(s[k]) THEN Append(real[k - 1], s[k]) ELSE real[k - 1]

\* At 0 it is empty, and each element takes its step.
LEMMA RealSteps ==
  ASSUME NEW s, NEW n \in Nat, NEW real, RealUpTo(s, n, real)
  PROVE  /\ real[0] = <<>>
         /\ \A k \in 0 .. n : k # 0 => real[k] = RealStep(s, real, k)
<1>1. 0 \in 0 .. n
  OBVIOUS
<1>2. \A k \in 0 .. n : real[k] = IF k = 0 THEN <<>> ELSE RealStep(s, real, k)
  BY DEF RealUpTo, RealStep
<1> QED
  BY <1>1, <1>2

\* It exists.
LEMMA RealExists ==
  ASSUME NEW s
  PROVE  \A n \in Nat : \E real : RealUpTo(s, n, real)
<1> DEFINE S == {n \in Nat : \E real : RealUpTo(s, n, real)}
<1>1. 0 \in S
  <2> DEFINE real == [k \in 0 .. 0 |-> <<>>]
  <2>1. RealUpTo(s, 0, real)
    BY DEF RealUpTo
  <2> QED
    BY <2>1
<1>2. ASSUME NEW n \in S PROVE n + 1 \in S
  <2>1. PICK real : RealUpTo(s, n, real)
    OBVIOUS
  <2> DEFINE more == [k \in 0 .. n + 1 |->
                        IF k = n + 1
                        THEN IF Counts(s[k]) THEN Append(real[n], s[k]) ELSE real[n]
                        ELSE real[k]]
  <2>2. n \in Nat /\ \A k \in 0 .. n + 1 : k \in 0 .. n \/ k = n + 1
    OBVIOUS
  <2>3. real[0] = <<>> /\ \A k \in 0 .. n : k # 0 => real[k] = RealStep(s, real, k)
    BY <2>1, <2>2, RealSteps
  <2>4. \A k \in 0 .. n : more[k] = real[k]
    BY <2>2
  <2>5. ASSUME NEW k \in 0 .. n + 1
        PROVE  more[k] = IF k = 0 THEN <<>> ELSE RealStep(s, more, k)
    <3>1. CASE k = n + 1
      <4>1. k # 0 /\ n \in 0 .. n /\ k - 1 = n
        BY <2>2, <3>1
      <4> QED
        BY <2>4, <3>1, <4>1 DEF RealStep
    <3>2. CASE k \in 0 .. n
      <4>1. k # 0 => k - 1 \in 0 .. n
        BY <2>2, <3>2
      <4> QED
        BY <2>3, <2>4, <3>2, <4>1 DEF RealStep
    <3> QED
      BY <2>2, <3>1, <3>2
  <2>6. more = [k \in 0 .. n + 1 |-> more[k]]
    OBVIOUS
  <2> HIDE DEF more
  <2>7. RealUpTo(s, n + 1, more)
    BY <2>5, <2>6 DEF RealUpTo, RealStep
  <2> QED
    BY <2>2, <2>7
<1> HIDE DEF S
<1>3. \A n \in Nat : n \in S
  BY <1>1, <1>2, SetInduction DEF S
<1> QED
  BY <1>3 DEF S

\* Real is the last element of that function.
LEMMA RealDef ==
  ASSUME NEW s, Len(s) \in Nat
  PROVE  \E real : RealUpTo(s, Len(s), real) /\ Real(s) = real[Len(s)]
<1> DEFINE real == CHOOSE f : RealUpTo(s, Len(s), f)
<1>1. RealUpTo(s, Len(s), real)
  BY RealExists
<1>2. Real(s) = real[Len(s)]
  BY DEF Real, RealUpTo
<1> QED
  BY <1>1, <1>2

SameUpTo(s, t, n) == \A i \in 1 .. n : s[i] = t[i]

\* It is determined by the first elements.
LEMMA RealUnique ==
  ASSUME NEW s, NEW t, NEW m \in Nat, SameUpTo(s, t, m),
         NEW f, RealUpTo(s, m, f), NEW g, RealUpTo(t, m + 1, g)
  PROVE  f[m] = g[m]
<1> DEFINE S == {k \in Nat : k \in 0 .. m => f[k] = g[k]}
<1>1. f[0] = <<>> /\ \A k \in 0 .. m : k # 0 => f[k] = RealStep(s, f, k)
  BY RealSteps
<1>2. g[0] = <<>> /\ \A k \in 0 .. m : k # 0 => g[k] = RealStep(t, g, k)
  <2>1. \A k \in 0 .. m : k \in 0 .. m + 1
    OBVIOUS
  <2>2. g[0] = <<>> /\ \A k \in 0 .. m + 1 : k # 0 => g[k] = RealStep(t, g, k)
    BY RealSteps
  <2> QED
    BY <2>1, <2>2
<1>3. 0 \in S
  BY <1>1, <1>2
<1>4. ASSUME NEW k \in S PROVE k + 1 \in S
  <2>1. k \in Nat /\ (k + 1 \in 0 .. m => k \in 0 .. m /\ k + 1 # 0 /\ (k + 1) - 1 = k)
    OBVIOUS
  <2>2. k + 1 \in 0 .. m => s[k + 1] = t[k + 1]
    BY <2>1 DEF SameUpTo
  <2> QED
    BY <1>1, <1>2, <2>1, <2>2 DEF RealStep
<1> HIDE DEF S
<1>5. \A k \in Nat : k \in S
  BY <1>3, <1>4, SetInduction DEF S
<1>6. m \in 0 .. m
  OBVIOUS
<1> QED
  BY <1>5, <1>6 DEF S

\* An event more.
LEMMA RealAppend ==
  ASSUME NEW s \in Seq(Event), NEW e \in Event
  PROVE  Real(Append(s, e)) = IF Counts(e) THEN Append(Real(s), e) ELSE Real(s)
<1> DEFINE t == Append(s, e)
           n == Len(s)
<1>1. n \in Nat /\ Len(t) = n + 1 /\ t[n + 1] = e /\ SameUpTo(s, t, n)
  BY AppendProperties, LenProperties DEF SameUpTo
<1> HIDE DEF t, n
<1>2. PICK g : RealUpTo(t, n + 1, g) /\ Real(t) = g[n + 1]
  BY <1>1, RealDef
<1>3. PICK f : RealUpTo(s, n, f) /\ Real(s) = f[n]
  BY <1>1, RealDef DEF n
<1>4. f[n] = g[n]
  BY <1>1, <1>2, <1>3, RealUnique
<1>5. g[n + 1] = RealStep(t, g, n + 1)
  <2>1. n + 1 \in 0 .. n + 1 /\ n + 1 # 0 /\ n + 1 \in Nat
    BY <1>1
  <2> QED
    BY <1>2, <2>1, RealSteps
<1>6. (n + 1) - 1 = n
  BY <1>1
<1> QED
  BY <1>1, <1>2, <1>3, <1>4, <1>5, <1>6 DEF t, RealStep

-----------------------------------------------------------------------------
(* What has been read has been reported *)

\* What PlaysBuffer compares.
Reported == played \o Waiting

LEMMA AtMostOneMore ==
  ASSUME NEW s \in Seq(Event), NEW e \in Event
  PROVE  s \o <<>> = s /\ s \o <<e>> = Append(s, e)
BY ConcatEmptySeq, AppendIsConcat

LEMMA ConsumedTyped ==
  ASSUME Typed
  PROVE  /\ Consumed \in Seq(Event)
         /\ Len(Consumed) = IF rd < wr THEN rd ELSE wr
<1> DEFINE m == IF rd < wr THEN rd ELSE wr
<1>1. m \in Nat /\ m <= wr /\ wr \in 0 .. LEN - 1 /\ LEN \in Nat
  BY ReplayAssumption DEF Typed
<1> HIDE DEF m
<1>2. \A i \in 1 .. m : i - 1 \in 0 .. LEN - 1
  BY <1>1
<1>3. \A i \in 1 .. m : buf[i - 1] \in Cell
  BY <1>2 DEF Typed
<1>4. Consumed = [i \in 1 .. m |-> IF buf[i - 1].half = "tail" THEN buf[i - 1].e ELSE Zero]
  BY DEF Consumed, m
<1>5. Consumed \in [1 .. m -> Event]
  BY <1>3, <1>4, EventsTyped DEF Cell
<1>6. Consumed \in Seq(Event) /\ Len(Consumed) = m
  BY <1>1, <1>5, IsASeq
<1> QED
  BY <1>6 DEF m

\* A line that is read is a head, which does not count, and a tail.
LEMMA ConsumedLine ==
  ASSUME Typed, Typed', ReadLine
  PROVE  /\ buf[rd].e \in Event
         /\ Consumed' = Append(Append(Consumed, Zero), buf[rd].e)
<1>1. /\ rd \in Nat /\ rd + 1 < wr /\ rd' = rd + 2 /\ wr' = wr /\ buf' = buf
      /\ wr \in 0 .. LEN - 1 /\ LEN \in Nat
      /\ buf[rd].half = "head" /\ buf[rd + 1] = [buf[rd] EXCEPT !.half = "tail"]
  BY ReplayAssumption DEF ReadLine, Whole, Typed
<1>2. rd \in 0 .. LEN - 1 /\ rd < wr
  BY <1>1
<1>3. buf[rd] \in Cell
  BY <1>2 DEF Typed
<1>4. buf[rd].e \in Event /\ buf[rd + 1].half = "tail" /\ buf[rd + 1].e = buf[rd].e
  BY <1>1, <1>3 DEF Cell
<1> DEFINE at(i) == IF buf[i - 1].half = "tail" THEN buf[i - 1].e ELSE Zero
           two == Append(Append(Consumed, Zero), buf[rd].e)
<1>5. Consumed = [i \in 1 .. rd |-> at(i)]
  BY <1>2 DEF Consumed
<1>6. (IF rd' < wr' THEN rd' ELSE wr') = rd + 2
  BY <1>1
<1>7. Consumed' = [i \in 1 .. rd + 2 |-> at(i)]
  BY <1>1, <1>6 DEF Consumed
<1>8. Consumed \in Seq(Event) /\ Len(Consumed) = rd
  BY <1>2, ConsumedTyped
<1>9. /\ two \in Seq(Event) /\ Len(two) = rd + 2
      /\ \A i \in 1 .. rd : two[i] = Consumed[i]
      /\ two[rd + 1] = Zero /\ two[rd + 2] = buf[rd].e
  BY <1>1, <1>4, <1>8, EventsTyped
<1>10. at(rd + 1) = Zero /\ at(rd + 2) = buf[rd].e
  <2>1. (rd + 1) - 1 = rd /\ (rd + 2) - 1 = rd + 1
    BY <1>1
  <2> QED
    BY <1>1, <1>4, <2>1
<1>11. \A i \in 1 .. rd : two[i] = at(i)
  BY <1>5, <1>9
<1>12. two = [i \in 1 .. rd + 2 |-> two[i]]
  BY <1>1, <1>9
<1>13. \A i \in 1 .. rd + 2 : i \in 1 .. rd \/ i = rd + 1 \/ i = rd + 2
  BY <1>1
<1> HIDE DEF two, at
<1>14. \A i \in 1 .. rd + 2 : two[i] = at(i)
  BY <1>9, <1>10, <1>11, <1>13
<1>15. Consumed' = two
  BY <1>7, <1>12, <1>14
<1> QED
  BY <1>4, <1>15 DEF two

\* A line is read as e: it is reported or waits.
LEMMA TakenReported ==
  ASSUME Typed, Typed', Kept, func = "loop", NEW e \in Event, Take(e), ~torn'
  PROVE  Real(Reported') = IF Counts(e) THEN Append(Real(Reported), e) ELSE Real(Reported)
<1>1. played \in Seq(Event) /\ ~timer
  BY DEF Typed, Kept
<1>2. Reported = played
  <2>1. Waiting = <<>>
    BY <1>1 DEF Waiting
  <2> QED
    BY <1>1, <2>1, ConcatEmptySeq DEF Reported
<1>3. CASE Skip(e)
  <2>1. Reported' = Reported
    BY <1>3 DEF Skip, Reported, Waiting, timerVars
  <2>2. ~Counts(e)
    BY <1>3 DEF Skip, Counts, Zero
  <2> QED
    BY <2>1, <2>2
<1>4. CASE Report(e)
  <2>1. played' = Append(played, e) /\ timer' = timer /\ func' = func
    BY <1>4 DEF Report, input_event, timerVars
  <2>2. Waiting' = <<>> /\ played' \in Seq(Event)
    BY <1>1, <2>1 DEF Waiting
  <2>3. Reported' = Append(played, e)
    BY <2>1, <2>2, ConcatEmptySeq DEF Reported
  <2> QED
    BY <1>1, <1>2, <2>3, RealAppend
<1>5. CASE Schedule(e)
  <2>1. timer' = TRUE /\ pre' = e /\ played' = played
    BY <1>5 DEF Schedule
  <2>2. CASE e.time = 0
    <3>1. Waiting' = <<>>
      BY <2>1, <2>2 DEF Waiting
    <3>2. Reported' = played
      BY <1>1, <2>1, <3>1, ConcatEmptySeq DEF Reported
    <3>3. ~Counts(e)
      BY <2>2 DEF Counts
    <3> QED
      BY <1>2, <3>2, <3>3
  <2>3. CASE e.time # 0
    <3>1. Waiting' = <<e>>
      BY <2>1, <2>3 DEF Waiting
    <3>2. Reported' = Append(played, e)
      BY <1>1, <2>1, <3>1, AtMostOneMore DEF Reported
    <3> QED
      BY <1>1, <1>2, <3>2, RealAppend
  <2> QED
    BY <2>2, <2>3
<1> QED
  BY <1>3, <1>4, <1>5 DEF Take

LEMMA IdleNext == Typed /\ Kept /\ Idle /\ [Next]_vars => Idle'
<1> SUFFICES ASSUME Typed, Kept, Idle, [Next]_vars PROVE Idle'
  OBVIOUS
<1> USE DEF bufVars, timerVars, appVars, history
<1>1. ASSUME UNCHANGED <<pre, timer, func>> PROVE Idle'
  BY <1>1 DEF Idle
<1>2. CASE OpenFile \/ Abandon \/ replay_write \/ Tick \/ UNCHANGED vars
  <2>1. UNCHANGED <<pre, timer, func>>
    BY <1>2 DEF OpenFile, Abandon, replay_write, WriteFull, WriteCopy, WriteLoad, WriteStore,
          Tick, vars
  <2> QED
    BY <1>1, <2>1
<1>3. CASE replay_ioctl
  BY <1>3 DEF replay_ioctl, Idle
<1>4. CASE Expire \/ FuncStart
  BY <1>4 DEF Expire, FuncStart, Idle
<1>5. ASSUME func = "loop", NEW e, Take(e) PROVE Idle'
  BY <1>5 DEF Take, Skip, Report, Schedule, Idle
<1>6. CASE ReadLine \/ ReadTorn \/ ReadStray
  BY <1>5, <1>6 DEF ReadLine, ReadTorn, ReadStray
<1>7. CASE ReadEnd
  BY <1>7 DEF ReadEnd, Idle
<1> QED
  BY <1>2, <1>3, <1>4, <1>6, <1>7 DEF Next, input_replay_timer_func

LEMMA PlaysNext ==
  Typed /\ Typed' /\ Loading /\ Kept /\ Idle /\ PlaysBuffer /\ [Next]_vars => PlaysBuffer'
<1> SUFFICES ASSUME Typed, Typed', Loading, Kept, Idle, PlaysBuffer, [Next]_vars PROVE PlaysBuffer'
  OBVIOUS
<1>1. ASSUME torn' = torn, missed' = missed, Reported' = Reported, Consumed' = Consumed
      PROVE  PlaysBuffer'
  BY <1>1 DEF PlaysBuffer, Reported
<1>2. ASSUME UNCHANGED <<buf, rd, wr>> PROVE Consumed' = Consumed
  BY <1>2 DEF Consumed
<1>3. ASSUME UNCHANGED <<pre, timer, func, played>> PROVE Reported' = Reported
  BY <1>3 DEF Reported, Waiting
<1>4. CASE OpenFile \/ Abandon \/ WriteFull \/ WriteLoad \/ Tick \/ UNCHANGED vars
  <2>1. UNCHANGED <<buf, rd, wr, pre, timer, func, played, torn, missed>>
    BY <1>4 DEF OpenFile, Abandon, WriteFull, WriteLoad, Tick, vars, bufVars, timerVars, history
  <2> QED
    BY <1>1, <1>2, <1>3, <2>1
<1>5. CASE WriteCopy
  <2>1. /\ UNCHANGED <<rd, wr, pre, timer, func, played, torn, missed>>
        /\ buf' = Copied
    BY <1>5 DEF WriteCopy, timerVars, history
  <2>2. \A i \in 0 .. LEN - 1 : i < wr => buf'[i] = buf[i]
    BY <2>1 DEF Copied, Typed
  <2>3. Consumed' = Consumed
    <3>1. \A i \in 1 .. (IF rd < wr THEN rd ELSE wr) : i - 1 \in 0 .. LEN - 1 /\ i - 1 < wr
      BY ReplayAssumption DEF Typed
    <3>2. \A i \in 1 .. (IF rd < wr THEN rd ELSE wr) : buf'[i - 1] = buf[i - 1]
      BY <2>2, <3>1
    <3> QED
      BY <2>1, <3>2 DEF Consumed
  <2> QED
    BY <1>1, <1>3, <2>1, <2>3
<1>6. CASE WriteStore
  <2>1. /\ UNCHANGED <<buf, rd, pre, timer, func, played, torn>>
        /\ wr' = loaded + copied /\ loaded # Not /\ missed' = (missed \/ rd > loaded)
    BY <1>6 DEF WriteStore, timerVars
  <2>2. CASE missed' \/ torn'
    BY <2>2 DEF PlaysBuffer
  <2>3. CASE ~missed' /\ ~torn'
    <3>0. wr = loaded /\ copied > 0
      BY <2>1, <2>3 DEF Loading
    <3>1. ~missed /\ ~(rd > wr)
      BY <2>1, <2>3, <3>0
    <3>2. (IF rd < wr THEN rd ELSE wr) = rd /\ (IF rd' < wr' THEN rd' ELSE wr') = rd
      BY <2>1, <3>0, <3>1 DEF Typed
    <3>3. Consumed' = Consumed
      BY <2>1, <3>2 DEF Consumed
    <3>4. missed' = missed
      BY <2>3, <3>1 DEF Typed
    <3> QED
      BY <1>1, <1>3, <2>1, <3>3, <3>4
  <2> QED
    BY <2>2, <2>3
<1>7. CASE replay_ioctl
  <2>1. /\ UNCHANGED <<buf, rd, wr, pre, func, played, torn, missed>>
        /\ func = "off" /\ timer' = TRUE
    BY <1>7 DEF replay_ioctl, Process, bufVars, history
  <2>2. ~timer => pre.time = 0
    BY <2>1 DEF Idle, Zero
  <2>3. Reported' = Reported
    BY <2>1, <2>2 DEF Reported, Waiting
  <2> QED
    BY <1>1, <1>2, <2>1, <2>3
<1>8. CASE Expire
  <2>1. /\ UNCHANGED <<buf, rd, wr, pre, played, torn, missed>>
        /\ timer /\ func' = "start"
    BY <1>8 DEF Expire, bufVars, history
  <2>2. Reported' = Reported
    BY <2>1 DEF Reported, Waiting
  <2> QED
    BY <1>1, <1>2, <2>1, <2>2
<1>9. CASE FuncStart
  <2>1. /\ UNCHANGED <<buf, rd, wr, pre, timer, torn, missed>>
        /\ func = "start" /\ func' = "loop" /\ ~timer
    BY <1>9 DEF FuncStart, bufVars, timerVars, Kept
  <2>2. Waiting' = <<>> /\ played \in Seq(Event) /\ played' \in Seq(Event) /\ pre \in Event
    BY <2>1 DEF Waiting, Typed
  <2>3. Reported' = played'
    BY <2>2, ConcatEmptySeq DEF Reported
  <2>4. CASE torn
    BY <2>1, <2>4 DEF PlaysBuffer
  <2>5. CASE ~torn /\ pre.time # 0
    <3>1. played' = Append(played, pre)
      BY <1>9, <2>1, <2>5 DEF FuncStart, input_event
    <3>2. Waiting = <<pre>>
      BY <2>1, <2>5 DEF Waiting
    <3>3. Reported = Append(played, pre)
      BY <2>2, <3>2, AtMostOneMore DEF Reported
    <3> QED
      BY <1>1, <1>2, <2>1, <2>3, <3>1, <3>3
  <2>6. CASE pre.time = 0
    <3>1. played' = played
      BY <1>9, <2>6 DEF FuncStart
    <3>2. Waiting = <<>>
      BY <2>6 DEF Waiting
    <3>3. Reported = played
      BY <2>2, <3>2, ConcatEmptySeq DEF Reported
    <3> QED
      BY <1>1, <1>2, <2>1, <2>3, <3>1, <3>3
  <2> QED
    BY <2>4, <2>5, <2>6
<1>10. CASE ReadLine
  <2>1. UNCHANGED <<torn, missed>> /\ func = "loop" /\ Take(buf[rd].e)
    BY <1>10 DEF ReadLine
  <2>2. SUFFICES ASSUME ~torn', ~missed' PROVE Real(Reported') = Real(Consumed')
    BY DEF PlaysBuffer, Reported
  <2>3. Real(Reported) = Real(Consumed)
    BY <2>1, <2>2 DEF PlaysBuffer, Reported
  <2>4. buf[rd].e \in Event /\ Consumed' = Append(Append(Consumed, Zero), buf[rd].e)
    BY <1>10, ConsumedLine
  <2>5. Consumed \in Seq(Event) /\ Zero \in Event /\ ~Counts(Zero)
    BY ConsumedTyped, EventsTyped DEF Counts, Zero
  <2>6. Real(Append(Consumed, Zero)) = Real(Consumed) /\ Append(Consumed, Zero) \in Seq(Event)
    BY <2>5, RealAppend
  <2>7. Real(Consumed') = IF Counts(buf[rd].e) THEN Append(Real(Consumed), buf[rd].e) ELSE Real(Consumed)
    BY <2>4, <2>6, RealAppend
  <2>8. Real(Reported') = IF Counts(buf[rd].e) THEN Append(Real(Reported), buf[rd].e) ELSE Real(Reported)
    BY <2>1, <2>2, <2>4, TakenReported
  <2> QED
    BY <2>3, <2>7, <2>8
<1>11. CASE ReadTorn
  BY <1>11 DEF ReadTorn, PlaysBuffer
<1>12. CASE ReadStray
  <2>1. /\ UNCHANGED <<buf, wr, torn, missed>> /\ func = "loop" /\ rd = wr /\ rd' = rd + 1
    BY <1>12 DEF ReadStray
  <2>2. PICK d \in Digits : Take([time |-> d, ev |-> "stray"])
    BY <1>12 DEF ReadStray
  <2>3. SUFFICES ASSUME ~torn', ~missed' PROVE Real(Reported') = Real(Consumed')
    BY DEF PlaysBuffer, Reported
  <2>4. Real(Reported) = Real(Consumed)
    BY <2>1, <2>3 DEF PlaysBuffer, Reported
  <2>5. [time |-> d, ev |-> "stray"] \in Event
    BY EventsTyped
  <2>6. ~Counts([time |-> d, ev |-> "stray"])
    BY DEF Counts
  <2>7. Real(Reported') = Real(Reported)
    BY <2>1, <2>2, <2>3, <2>5, <2>6, TakenReported
  <2>8. (IF rd < wr THEN rd ELSE wr) = wr /\ (IF rd' < wr' THEN rd' ELSE wr') = wr
    BY <2>1 DEF Typed
  <2>9. Consumed' = Consumed
    BY <2>1, <2>8 DEF Consumed
  <2> QED
    BY <2>4, <2>7, <2>9
<1>13. CASE ReadEnd
  <2>1. timer' = FALSE /\ func' = "off" /\ played' = <<>> /\ rd' = 0 /\ wr' = 0
    BY <1>13 DEF ReadEnd
  <2>2. Waiting' = <<>>
    BY <2>1 DEF Waiting
  <2>3. Reported' = <<>>
    BY <2>1, <2>2, ConcatEmptySeq DEF Reported
  <2>4. Consumed' = <<>>
    BY <2>1 DEF Consumed
  <2> QED
    BY <2>3, <2>4 DEF PlaysBuffer, Reported
<1> QED
  BY <1>4, <1>5, <1>6, <1>7, <1>8, <1>9, <1>10, <1>11, <1>12, <1>13
     DEF Next, replay_write, input_replay_timer_func

-----------------------------------------------------------------------------
(* Theorems *)

\* In every reachable state the variables have their types, a write fits, the
\* timer keeps the recorded distance, and what has been read has been reported.
THEOREM Inductive == Spec => []IInv
<1>1. Init => IInv
  <2> SUFFICES ASSUME Init PROVE IInv
    OBVIOUS
  <2>1. Zero \in Event /\ 0 \in 0 .. LEN - 1 /\ <<>> \in Seq(Cell) /\ <<>> \in Seq(Event)
    BY EventsTyped, ReplayAssumption
  <2>2. Junk \in Cell
    BY <2>1 DEF Junk, Cell
  <2>3. Typed
    BY <2>1, <2>2 DEF Init, Typed
  <2>4. Fits /\ Loading /\ Kept /\ Idle
    BY DEF Init, Fits, Loading, Kept, Idle
  <2>5. PlaysBuffer
    <3>1. played = <<>> /\ Waiting = <<>> /\ Consumed = <<>>
      BY DEF Init, Waiting, Consumed
    <3> QED
      BY <3>1, ConcatEmptySeq DEF PlaysBuffer
  <2> QED
    BY <2>3, <2>4, <2>5 DEF IInv
<1>2. IInv /\ [Next]_vars => IInv'
  BY TypedNext, FitsNext, LoadingNext, KeptNext, IdleNext, PlaysNext DEF IInv
<1> QED
  BY <1>1, <1>2, PTL DEF Spec

\* No write of an application leaves replay_buf, whatever the replay does
\* between its copy and its advance, or inside the advance.
THEOREM WritesFit ==
  Spec => [](/\ wr < LEN
             /\ copied > 0 => wr + copied < LEN
             /\ loaded # Not => loaded + copied < LEN)
<1>1. IInv => /\ wr < LEN
              /\ copied > 0 => wr + copied < LEN
              /\ loaded # Not => loaded + copied < LEN
  BY ReplayAssumption DEF IInv, Typed, Fits, Loading
<1> QED
  BY <1>1, Inductive, PTL

\* Every event of the lines that the replay has read is reported, once and in
\* their order, or waits for its time: through the start of the timer function,
\* its loop and mod_timer, and whatever is written or started meanwhile.
THEOREM ReadIsReported == Spec => []PlaysBuffer
<1>1. IInv => PlaysBuffer
  BY DEF IInv
<1> QED
  BY <1>1, Inductive, PTL

\* The step formula of NeverEarly: a report is the waiting event at the start
\* of the timer function, or one of the time of the last.
LEMMA ReportOnTime ==
  ASSUME IInv, [Next]_vars, played # <<>>, Len(played') = Len(played) + 1, NoneAtZero
  PROVE  gap >= Distance(played[Len(played)].time, played'[Len(played) + 1].time)
<1> USE DEF IInv
<1>0. Len(played) \in Nat /\ Len(<<>>) = 0
  BY DEF Typed
<1>1. ASSUME NEW e \in Event, func = "loop", Take(e), torn' \/ torn' = torn
      PROVE  gap >= Distance(played[Len(played)].time, played'[Len(played) + 1].time)
  <2>1. Report(e)
    BY <1>0, <1>1 DEF Take, Skip, Schedule
  <2>2. ~torn' /\ played' = Append(played, e)
    BY <1>0, <2>1 DEF Report, input_event
  <2>3. OnTime
    BY <1>1, <2>2 DEF Kept
  <2>4. played'[Len(played) + 1] = e
    BY <2>2, AppendProperties DEF Typed
  <2>5. played[Len(played)].time = e.time
    BY <1>1, <2>1, <2>3 DEF OnTime, Report
  <2>6. e.time \in Int /\ gap \in Nat
    BY DEF Typed, Event
  <2>7. Distance(e.time, e.time) = 0
    BY <2>6, DistanceTyped
  <2>8. gap >= 0
    BY <2>6
  <2> QED
    BY <2>4, <2>5, <2>7, <2>8
<1>2. CASE FuncStart
  <2>1. func = "start" /\ torn' = torn
    BY <1>2 DEF FuncStart
  <2>2. ~torn' /\ played' = Append(played, pre)
    BY <1>0, <1>2 DEF FuncStart, input_event
  <2>3. OnTime /\ ~timer
    BY <1>0, <2>1, <2>2 DEF Kept
  <2>4. played'[Len(played) + 1] = pre
    BY <2>2, AppendProperties DEF Typed
  <2>5. gap + 0 >= Distance(played[Len(played)].time, pre.time)
    BY <2>1, <2>3 DEF OnTime
  <2> QED
    BY <2>4, <2>5 DEF Typed
<1>3. CASE ReadLine
  <2>1. rd \in Nat /\ wr \in 0 .. LEN - 1 /\ LEN \in Nat /\ rd + 1 < wr
    BY <1>3, ReplayAssumption DEF ReadLine, Whole, Typed
  <2>2. rd \in 0 .. LEN - 1
    BY <2>1
  <2>3. buf[rd] \in Cell
    BY <2>2 DEF Typed
  <2> QED
    BY <1>1, <1>3, <2>3 DEF ReadLine, Cell
<1>4. CASE ReadTorn
  BY <1>1, <1>4, EventsTyped DEF ReadTorn
<1>5. CASE ReadStray
  BY <1>1, <1>5, EventsTyped DEF ReadStray
<1>6. CASE played' = played \/ played' = <<>>
  BY <1>0, <1>6
<1>7. CASE OpenFile \/ Abandon \/ replay_write \/ replay_ioctl \/ Tick \/ Expire \/ ReadEnd \/ UNCHANGED vars
  <2>1. played' = played \/ played' = <<>>
    BY <1>7 DEF OpenFile, Abandon, replay_write, WriteFull, WriteCopy, WriteLoad, WriteStore,
       replay_ioctl, Tick, Expire, ReadEnd, vars, history
  <2> QED
    BY <1>6, <2>1
<1> QED
  BY <1>2, <1>3, <1>4, <1>5, <1>7 DEF Next, input_replay_timer_func

\* An event is never reported earlier after the one before it than they were
\* recorded, across the wrap of jiffies too.
THEOREM RecordedDistances == Spec => NeverEarly
<1>1. IInv /\ [Next]_vars
        => [ LET n == Len(played) IN
             n > 0 /\ Len(played') = n + 1 /\ NoneAtZero
               => gap >= Distance(played[n].time, played'[n + 1].time) ]_vars
  <2> SUFFICES ASSUME IInv, [Next]_vars, Len(played) > 0, Len(played') = Len(played) + 1, NoneAtZero
               PROVE  gap >= Distance(played[Len(played)].time, played'[Len(played) + 1].time)
    OBVIOUS
  <2>1. played # <<>>
    OBVIOUS
  <2> QED
    BY <2>1, ReportOnTime
<1> QED
  BY <1>1, Inductive, PTL DEF NeverEarly, Spec
=============================================================================
