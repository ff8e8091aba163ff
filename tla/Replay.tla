------------------------------- MODULE Replay -------------------------------
(***************************************************************************)
(* The replay of recorded input events (debug_input_emulate/s3c_ts.c): an  *)
(* application (input_replay.c) writes a recorded file in pieces to        *)
(* /dev/input_emu, one starts the replay by ioctl, and a timer function    *)
(* reports the events of the lines in the buffer at their recorded         *)
(* distances.                                                              *)
(*                                                                         *)
(* A line is two cells of the buffer, its head and its tail with the       *)
(* newline, so that a piece may end inside a line.  The timer function is  *)
(* a softirq: a write is interrupted by it between its copy and the        *)
(* advance of replay_w, and between the load and the store of the advance, *)
(* but no process runs inside it.  Jiffies are unsigned and wrap round.    *)
(*                                                                         *)
(* input_replay writes from an array of its own, so that copy_from_user    *)
(* does not fault.                                                         *)
(***************************************************************************)
EXTENDS Integers, Sequences, SequencesExt

CONSTANTS
  Files,     \* recorded files: sequences of events [time, ev]
  Events,    \* what an event is besides its time
  LEN,       \* MYLOG_BUF_LEN, in cells
  Piece,     \* cells in one write of the application
  JIFFIES,   \* number of values of the unsigned jiffies
  Digits     \* times that a single character may stand for

ASSUME ReplayAssumption ==
  /\ LEN \in Nat \ {0} /\ Piece \in Nat \ {0} /\ JIFFIES \in Nat \ {0, 1}
  /\ Digits \subseteq 1 .. JIFFIES - 1
  /\ {"sync", "stray"} \subseteq Events
  /\ \A f \in Files : f \in Seq([time : 0 .. JIFFIES - 1, ev : Events])

VARIABLES
  buf,     \* replay_buf
  rd,      \* replay_r
  wr,      \* replay_w
  pre,     \* pre_time with pre_type, pre_code and pre_val
  timer,   \* replay_timer is pending
  left,    \* jiffies until it expires
  func,    \* where the timer function is: "off", "start" or "loop"
  todo,    \* cells the application has still to write
  copied,  \* cells a write has copied without advancing replay_w
  loaded,  \* what it has loaded of replay_w to advance it, or Not
  halted,  \* add_timer has met its BUG_ON
  played,  \* the events reported in this replay (history)
  gap,     \* jiffies since the last report (history)
  torn,    \* pieces and replay have met inside a line or a write (history)
  missed   \* a write has gone where the replay had read already (history)

bufVars == <<buf, rd, wr>>
timerVars == <<timer, left>>
appVars == <<todo, copied, loaded>>
history == <<played, gap, torn, missed>>
vars == <<bufVars, pre, timerVars, func, appVars, halted, history>>

Cells(f) == [i \in 1 .. 2 * Len(f) |->
              [e |-> f[(i + 1) \div 2], half |-> IF i % 2 = 1 THEN "head" ELSE "tail"]]

\* The line "0 0 0 0", and what pre holds when there is no event.
Zero == [time |-> 0, ev |-> "sync"]

\* kmalloc does not clear the buffer.
Junk == [e |-> Zero, half |-> "junk"]

\* Nothing is loaded.
Not == -1

Recorded == UNION {ToSet(f) : f \in Files}

Init ==
  /\ buf = [i \in 0 .. LEN - 1 |-> Junk] /\ rd = 0 /\ wr = 0
  /\ pre = Zero
  /\ timer = FALSE /\ left = 0 /\ func = "off"
  /\ todo = <<>> /\ copied = 0 /\ loaded = Not
  /\ halted = FALSE
  /\ played = <<>> /\ gap = 0 /\ torn = FALSE /\ missed = FALSE

-----------------------------------------------------------------------------
(* The application and the file operations *)

\* A process runs: the timer function does not.
Process == func = "off" /\ ~halted

\* input_replay write <file>
OpenFile ==
  /\ Process /\ todo = <<>>
  /\ \E f \in Files : todo' = Cells(f)
  /\ UNCHANGED <<bufVars, pre, timerVars, func, copied, loaded, halted, history>>

Size == IF Len(todo) < Piece THEN Len(todo) ELSE Piece

Rest == SubSeq(todo, Size + 1, Len(todo))

\* The buffer is full.  The application does not look at the result and goes on
\* with the next piece.
WriteFull ==
  /\ Process /\ todo # <<>> /\ copied = 0
  /\ wr + Size >= LEN
  /\ todo' = Rest
  /\ UNCHANGED <<bufVars, pre, timerVars, func, copied, loaded, halted, history>>

Copied == [i \in DOMAIN buf |-> IF i - wr \in 0 .. Size - 1 THEN todo[i - wr + 1] ELSE buf[i]]

WriteCopy ==
  /\ Process /\ todo # <<>> /\ copied = 0
  /\ wr + Size < LEN
  /\ buf' = Copied
  /\ copied' = Size
  /\ UNCHANGED <<rd, wr, pre, timerVars, func, todo, loaded, halted, history>>

\* replay_w += size: the load
WriteLoad ==
  /\ Process /\ copied > 0 /\ loaded = Not
  /\ loaded' = wr
  /\ UNCHANGED <<bufVars, pre, timerVars, func, todo, copied, halted, history>>

\* and the store, which undoes a reset of replay_w in between.
WriteStore ==
  /\ Process /\ loaded # Not
  /\ wr' = loaded + copied
  /\ todo' = Rest
  /\ copied' = 0 /\ loaded' = Not
  /\ missed' = (missed \/ rd > loaded)
  /\ UNCHANGED <<buf, rd, pre, timerVars, func, halted, played, gap, torn>>

\* The application is killed; what it has not written it never will.
Abandon ==
  /\ Process /\ todo # <<>> /\ copied = 0
  /\ todo' = <<>>
  /\ UNCHANGED <<bufVars, pre, timerVars, func, copied, loaded, halted, history>>

replay_write == WriteFull \/ WriteCopy \/ WriteLoad \/ WriteStore

\* INPUT_REPLAY; add_timer of a pending timer is a BUG.
replay_ioctl ==
  /\ Process
  /\ halted' = timer
  /\ timer' = TRUE
  /\ left' = IF timer THEN left ELSE 1
  /\ UNCHANGED <<bufVars, pre, func, appVars, history>>

-----------------------------------------------------------------------------
(* The timer *)

Tick ==
  /\ Process /\ timer /\ left > 0
  /\ left' = left - 1
  /\ gap' = gap + 1
  /\ UNCHANGED <<bufVars, pre, timer, func, appVars, halted, played, torn, missed>>

Expire ==
  /\ Process /\ timer /\ left = 0
  /\ timer' = FALSE
  /\ func' = "start"
  /\ UNCHANGED <<bufVars, pre, left, appVars, halted, history>>

input_event(e) ==
  /\ played' = IF torn' THEN <<>> ELSE Append(played, e)
  /\ gap' = 0

\* Mutated form: the event that the timer was set for is forgotten.
FuncStartForgets ==
  /\ func = "start"
  /\ func' = "loop"
  /\ UNCHANGED <<bufVars, pre, timerVars, appVars, halted, history>>

\* pre_time = 0 means that no event is waiting.
FuncStart ==
  /\ func = "start"
  /\ func' = "loop"
  /\ torn' = torn
  /\ IF pre.time # 0 THEN input_event(pre) ELSE UNCHANGED <<played, gap>>
  /\ UNCHANGED <<bufVars, pre, timerVars, appVars, halted, missed>>

\* Jiffies between two recorded times; what seems to be in the past expires with
\* the next tick.
Distance(from, to) == LET d == (to - from) % JIFFIES IN IF d < JIFFIES \div 2 THEN d ELSE 1

\* mod_timer(jiffies + (time - pre_time))
Delay(e) == Distance(pre.time, e.time)

\* A line has been read as e.
Skip(e) ==
  /\ e = Zero
  /\ UNCHANGED <<pre, timerVars, func, played, gap>>

Report(e) ==
  /\ e # Zero
  /\ pre.time = 0 \/ e.time = pre.time
  /\ input_event(e)
  /\ pre' = IF pre.time = 0 THEN [pre EXCEPT !.time = e.time] ELSE pre
  /\ UNCHANGED <<timerVars, func>>

\* Mutated form: the timer is set for the next jiffy.
ScheduleNext(e) ==
  /\ e # Zero
  /\ pre.time # 0 /\ e.time # pre.time
  /\ timer' = TRUE
  /\ left' = 1
  /\ pre' = e
  /\ func' = "off"
  /\ UNCHANGED <<played, gap>>

Schedule(e) ==
  /\ e # Zero
  /\ pre.time # 0 /\ e.time # pre.time
  /\ timer' = TRUE
  /\ left' = Delay(e)
  /\ pre' = e
  /\ func' = "off"
  /\ UNCHANGED <<played, gap>>

Take(e) == Skip(e) \/ Report(e) \/ Schedule(e)

Whole == rd + 1 < wr /\ buf[rd].half = "head" /\ buf[rd + 1] = [buf[rd] EXCEPT !.half = "tail"]

\* Mutated form: the line is not consumed.
ReadLineAgain ==
  /\ func = "loop" /\ Whole
  /\ torn' = torn
  /\ Take(buf[rd].e)
  /\ UNCHANGED <<bufVars, appVars, halted, missed>>

\* replay_get_line finds a whole line.
ReadLine ==
  /\ func = "loop" /\ Whole
  /\ rd' = rd + 2
  /\ torn' = torn
  /\ Take(buf[rd].e)
  /\ UNCHANGED <<buf, wr, appVars, halted, missed>>

\* After the first or the last part of a line, or of two lines, up to the next
\* newline or one past what was written: it may be read as anything.
ReadTorn ==
  /\ func = "loop" /\ rd < wr /\ ~Whole
  /\ LET ends == {i \in rd .. wr - 1 : buf[i].half = "tail"}
     IN  \/ ends = {} /\ rd' = wr + 1
         \/ \E i \in ends : (\A j \in ends : i <= j) /\ rd' = i + 1
  /\ torn' = TRUE
  /\ \E e \in Recorded \cup {Zero} : Take(e)
  /\ UNCHANGED <<buf, wr, appVars, halted, missed>>

\* The character at replay_w, which nobody has written since the last replay,
\* is a digit: a line of a time only, whose type, code and value are 0.  (The
\* first character of a line is no such: a line begins with "0x".)
ReadStray ==
  /\ func = "loop" /\ rd = wr /\ buf[rd].half # "head"
  /\ rd' = rd + 1
  /\ torn' = torn
  /\ \E d \in Digits : Take([time |-> d, ev |-> "stray"])
  /\ UNCHANGED <<buf, wr, appVars, halted, missed>>

\* Nothing is left, or the character at replay_w is white or no number.
ReadEnd ==
  /\ func = "loop" /\ rd >= wr
  /\ timer' = FALSE
  /\ pre' = Zero
  /\ rd' = 0 /\ wr' = 0
  /\ func' = "off"
  /\ played' = <<>> /\ gap' = 0
  /\ torn' = (todo # <<>>) /\ missed' = FALSE
  /\ UNCHANGED <<buf, left, appVars, halted>>

input_replay_timer_func == FuncStart \/ ReadLine \/ ReadTorn \/ ReadStray \/ ReadEnd

Next ==
  \/ OpenFile \/ Abandon \/ replay_write \/ replay_ioctl
  \/ Tick \/ Expire \/ input_replay_timer_func

Spec == Init /\ [][Next]_vars

\* Time passes and the timer function runs.
FairSpec == Spec /\ WF_vars(Tick) /\ WF_vars(Expire) /\ WF_vars(input_replay_timer_func)

-----------------------------------------------------------------------------
(* Properties *)

\* An event that is neither lost for its time nor read from nothing.
Counts(e) == e.time # 0 /\ e.ev # "stray"

\* Those of a sequence.
Real(s) ==
  LET real[n \in 0 .. Len(s)] ==
        IF n = 0 THEN <<>>
        ELSE IF Counts(s[n]) THEN Append(real[n - 1], s[n]) ELSE real[n - 1]
  IN  real[Len(s)]

\* The events of the lines that the replay has read, as they stand in the buffer,
\* each at its tail.
Consumed ==
  [i \in 1 .. (IF rd < wr THEN rd ELSE wr) |->
     IF buf[i - 1].half = "tail" THEN buf[i - 1].e ELSE Zero]

\* The event that mod_timer has been called for.
Waiting == IF (timer \/ func = "start") /\ pre.time # 0 THEN <<pre>> ELSE <<>>

\* As long as the replay has met no half-written line, it has reported every
\* event of the lines it has read, once and in their order, or is waiting for
\* the last one's time, through all the ways pre_time takes.  (An event
\* recorded at jiffies 0 may be lost, as pre_time = 0 means none, and a digit
\* after the end of the file is reported as an event; what is written when that
\* digit has been read is missed, as it begins before replay_r.)
PlaysBuffer == ~torn /\ ~missed => Real(played \o Waiting) = Real(Consumed)

\* No line that the replay has read was recorded at jiffies 0.
NoneAtZero ==
  \A i \in DOMAIN buf : i < rd /\ i < wr /\ buf[i].half = "tail" => buf[i].e.time # 0

\* An event is never reported earlier after the one before it than they were
\* recorded, across the wrap of jiffies too, unless one in the file was
\* recorded at jiffies 0.  (A file that goes back in time, as two files written
\* one after the other do, goes on with the next jiffy.)
NeverEarly ==
  [][ LET n == Len(played) IN
      n > 0 /\ Len(played') = n + 1 /\ NoneAtZero
        => gap >= Distance(played[n].time, played'[n + 1].time) ]_vars

\* A started replay comes to its end, whatever is written meanwhile, so that
\* the next one starts from an empty buffer.
ReplayEnds == timer ~> (~timer /\ func = "off") \/ halted
=============================================================================
