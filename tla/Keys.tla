-------------------------------- MODULE Keys --------------------------------
(***************************************************************************)
(* The part of the button character drivers that the 2.6.22 and the 3.4.2  *)
(* version share: the debounced interrupt path (interrupt handler, 10 ms   *)
(* timer) and the read, poll and fasync handlers that run against it.      *)
(* AntiShakeKeys and Buttons26 add the two versions of open and release.   *)
(*                                                                         *)
(* The processor is a single S3C2440 core: an interrupt handler runs to    *)
(* completion, the timer function (a softirq) is preempted only by         *)
(* interrupts, and a process is preempted by both and by other processes.  *)
(* `softirq' holds what the timer function is working on; every action of  *)
(* a process needs it to be idle.                                          *)
(***************************************************************************)
EXTENDS Integers, FiniteSets

CONSTANTS
  Procs,     \* user processes
  Files,     \* struct file objects that may be open at a time
  NKeys,     \* number of keys (4 on the board): pins_desc[1..NKeys]
  MaxEdges,  \* bound: how often a key pin changes in a behaviour
  Sharing,   \* whether processes may inherit a descriptor (fork, dup)
  None

Keys == 1 .. NKeys

ASSUME KeysAssumption ==
  /\ NKeys \in Nat \ {0}
  /\ MaxEdges \in Nat
  /\ Sharing \in BOOLEAN
  /\ None \notin Files
  /\ None \notin Keys

VARIABLES
  fd,           \* the open file each process's descriptor refers to
  nonblock,     \* the files opened with O_NONBLOCK
  pc,           \* where each process is: "user" or a point in a handler
  idx,          \* the line a process requests or frees next in open, release
  button_lock,  \* the semaphore's count
  registered,   \* the key lines whose interrupt handler is installed
  denied,       \* lines an open without checks was denied from outside (history)
  pin,          \* level of each key pin, TRUE when the key is up
  missed,       \* keys whose last edge found no handler (history)
  edges,        \* edges so far (bounds the behaviours)
  irq_pd,       \* the key whose interrupt came last
  timer,        \* buttons_timer is pending
  softirq,      \* the key the timer function has loaded, None when idle
  key_val,      \* the one-place buffer of the last key value
  ev_press,     \* the event flag
  button_async, \* files on the fasync list
  sigio,        \* files whose owner has a SIGIO pending
  key_seq,      \* number of key values stored so far (history)
  last_read,    \* key_seq of the newest value read gave to copy_to_user (history)
  interrupted,  \* readers going on after a signal ended their wait (history)
  ready,        \* processes that poll told to read, and did not yet (history)
  shared        \* files whose descriptor has been inherited (history)

procVars  == <<fd, nonblock, pc, idx>>
lockVars  == <<button_lock, registered, denied>>
pinVars   == <<pin, missed, edges>>
irqVars   == <<irq_pd, timer, softirq>>
keyVars   == <<key_val, ev_press, key_seq>>
asyncVars == <<button_async, sigio>>
readVars  == <<last_read, interrupted, ready, shared>>

vars == <<procVars, lockVars, pinVars, irqVars, keyVars, asyncVars, readVars>>

KeyVal(k, up) == IF up THEN 128 + k ELSE k

TypeOK ==
  /\ fd \in [Procs -> Files \union {None}]
  /\ nonblock \in SUBSET Files
  /\ pc \in [Procs -> {"user", "down", "request", "wait", "sleep", "copy",
                       "clear", "poll", "pollsleep", "free", "up"}]
  /\ idx \in [Procs -> 1 .. NKeys + 1]
  /\ button_lock \in {0, 1}
  /\ registered \in SUBSET Keys
  /\ denied \in SUBSET Keys
  /\ pin \in [Keys -> BOOLEAN]
  /\ missed \in SUBSET Keys
  /\ edges \in 0 .. MaxEdges
  /\ irq_pd \in Keys \union {None}
  /\ timer \in BOOLEAN
  /\ softirq \in Keys \union {None}
  /\ key_val \in Nat
  /\ ev_press \in BOOLEAN
  /\ button_async \in SUBSET Files
  /\ sigio \in SUBSET Files
  /\ key_seq \in Nat
  /\ last_read \in Nat
  /\ interrupted \in SUBSET Procs
  /\ ready \in SUBSET Procs
  /\ shared \in SUBSET Files

\* After insmod: init has called add_timer without setting expires, so the
\* timer is pending at once; no interrupt has set irq_pd.
Init ==
  /\ fd = [p \in Procs |-> None]
  /\ nonblock = {}
  /\ pc = [p \in Procs |-> "user"]
  /\ idx = [p \in Procs |-> 1]
  /\ button_lock = 1
  /\ registered = {}
  /\ denied = {}
  /\ pin = [k \in Keys |-> TRUE]
  /\ missed = {}
  /\ edges = 0
  /\ irq_pd = None
  /\ timer = TRUE
  /\ softirq = None
  /\ key_val = 0
  /\ ev_press = FALSE
  /\ button_async = {}
  /\ sigio = {}
  /\ key_seq = 0
  /\ last_read = 0
  /\ interrupted = {}
  /\ ready = {}
  /\ shared = {}

Idle == softirq = None

\* Process p is at `from' in a handler and moves to `to'.
Go(p, from, to) ==
  /\ Idle
  /\ pc[p] = from
  /\ pc' = [pc EXCEPT ![p] = to]

-----------------------------------------------------------------------------
(* Interrupt context *)

buttons_irq(k) ==
  /\ irq_pd' = k
  /\ timer' = TRUE

\* A key pin changes level.  Both edges raise the line's interrupt, whose
\* handler runs at once when one is installed.
Edge(k) ==
  /\ edges < MaxEdges
  /\ edges' = edges + 1
  /\ pin' = [pin EXCEPT ![k] = ~@]
  /\ \/ /\ k \in registered
        /\ buttons_irq(k)
        /\ missed' = missed \ {k}
     \/ /\ k \notin registered
        /\ missed' = missed \union {k}
        /\ UNCHANGED <<irq_pd, timer>>
  /\ UNCHANGED <<procVars, lockVars, softirq, keyVars, asyncVars, readVars>>

\* The timer expires and its function loads irq_pd; with no key it returns.
TimerLoad ==
  /\ Idle
  /\ timer
  /\ timer' = FALSE
  /\ softirq' = irq_pd
  /\ UNCHANGED <<procVars, lockVars, pinVars, irq_pd, keyVars, asyncVars, readVars>>

\* Mutated form: the wake-up is forgotten for readers.
WakeUpPollersOnly ==
  pc' = [p \in Procs |-> IF pc[p] = "pollsleep" THEN "poll" ELSE pc[p]]

\* wake_up_interruptible(&button_waitq): readers and pollers test again.
WakeUp ==
  pc' = [p \in Procs |-> CASE pc[p] = "sleep" -> "wait"
                           [] pc[p] = "pollsleep" -> "poll"
                           [] OTHER -> pc[p]]

\* Mutated form: the timer function ends with del_timer.
TimerReportStops ==
  /\ softirq # None
  /\ softirq' = None
  /\ timer' = FALSE
  /\ key_val' = KeyVal(softirq, pin[softirq])
  /\ key_seq' = key_seq + 1
  /\ ev_press' = TRUE
  /\ WakeUp
  /\ sigio' = sigio \union button_async
  /\ UNCHANGED <<fd, nonblock, idx, lockVars, pinVars, irq_pd, button_async, readVars>>

\* The rest of the timer function: sample the pin of the loaded key, publish
\* its value, wake the sleepers and signal the files on the fasync list.
TimerReport ==
  /\ softirq # None
  /\ softirq' = None
  /\ key_val' = KeyVal(softirq, pin[softirq])
  /\ key_seq' = key_seq + 1
  /\ ev_press' = TRUE
  /\ WakeUp
  /\ sigio' = sigio \union button_async
  /\ UNCHANGED <<fd, nonblock, idx, lockVars, pinVars, irq_pd, timer,
                 button_async, readVars>>

-----------------------------------------------------------------------------
(* read *)

OpenFile(p) == pc[p] = "user" /\ fd[p] # None

\* A read of one byte on a blocking file starts with wait_event_interruptible.
ReadBlocking(p) ==
  /\ OpenFile(p)
  /\ fd[p] \notin nonblock
  /\ Go(p, "user", "wait")
  /\ UNCHANGED <<fd, nonblock, idx, lockVars, pinVars, irqVars, keyVars,
                 asyncVars, readVars>>

\* A read on an O_NONBLOCK file returns -EAGAIN when there is no event.
ReadNonblock(p) ==
  /\ OpenFile(p)
  /\ fd[p] \in nonblock
  /\ ev_press
  /\ Go(p, "user", "copy")
  /\ UNCHANGED <<fd, nonblock, idx, lockVars, pinVars, irqVars, keyVars,
                 asyncVars, readVars>>

ReadWait(p) ==
  /\ Go(p, "wait", IF ev_press THEN "copy" ELSE "sleep")
  /\ UNCHANGED <<fd, nonblock, idx, lockVars, pinVars, irqVars, keyVars,
                 asyncVars, readVars>>

\* A signal ends the sleep of a reader.  The handler ignores what
\* wait_event_interruptible returns and goes on to the copy.
ReadInterrupted(p) ==
  /\ Go(p, "sleep", "copy")
  /\ interrupted' = interrupted \union {p}
  /\ UNCHANGED <<fd, nonblock, idx, lockVars, pinVars, irqVars, keyVars,
                 asyncVars, last_read, ready, shared>>

\* copy_to_user, whose result is ignored: read goes on in the same way when
\* the user's buffer faults and the value does not arrive.
ReadCopy(p) ==
  /\ Go(p, "copy", "clear")
  /\ last_read' = key_seq
  /\ UNCHANGED <<fd, nonblock, idx, lockVars, pinVars, irqVars, keyVars,
                 asyncVars, interrupted, ready, shared>>

\* Mutated form: read forgets to reset the event flag.
ReadNoClear(p) ==
  /\ Go(p, "clear", "user")
  /\ interrupted' = interrupted \ {p}
  /\ ready' = ready \ {p}
  /\ UNCHANGED <<fd, nonblock, idx, lockVars, pinVars, irqVars, keyVars,
                 asyncVars, last_read, shared>>

ReadClear(p) ==
  /\ Go(p, "clear", "user")
  /\ ev_press' = FALSE
  /\ interrupted' = interrupted \ {p}
  /\ ready' = ready \ {p}
  /\ UNCHANGED <<fd, nonblock, idx, lockVars, pinVars, irqVars, key_val,
                 key_seq, asyncVars, last_read, shared>>

Read(p) ==
  \/ ReadBlocking(p)
  \/ ReadNonblock(p)
  \/ ReadWait(p)
  \/ ReadInterrupted(p)
  \/ ReadCopy(p)
  \/ ReadClear(p)

-----------------------------------------------------------------------------
(* poll and fasync *)

PollStart(p) ==
  /\ OpenFile(p)
  /\ Go(p, "user", "poll")
  /\ UNCHANGED <<fd, nonblock, idx, lockVars, pinVars, irqVars, keyVars,
                 asyncVars, readVars>>

\* The poll handler: the mask says readable when ev_press is set, else the
\* caller sleeps on button_waitq until it is woken or times out.
PollMask(p) ==
  /\ Go(p, "poll", IF ev_press THEN "user" ELSE "pollsleep")
  /\ ready' = IF ev_press THEN ready \union {p} ELSE ready
  /\ UNCHANGED <<fd, nonblock, idx, lockVars, pinVars, irqVars, keyVars,
                 asyncVars, last_read, interrupted, shared>>

PollTimeout(p) ==
  /\ Go(p, "pollsleep", "user")
  /\ UNCHANGED <<fd, nonblock, idx, lockVars, pinVars, irqVars, keyVars,
                 asyncVars, readVars>>

Poll(p) == PollStart(p) \/ PollMask(p) \/ PollTimeout(p)

\* fcntl(F_SETFL) with or without FASYNC reaches fasync_helper.
Fasync(p) ==
  /\ Idle
  /\ OpenFile(p)
  /\ \/ button_async' = button_async \union {fd[p]}
     \/ button_async' = button_async \ {fd[p]}
  /\ UNCHANGED <<procVars, lockVars, pinVars, irqVars, keyVars, sigio, readVars>>

\* The application's SIGIO handler runs.
TakeSigio(p) ==
  /\ Idle
  /\ OpenFile(p)
  /\ fd[p] \in sigio
  /\ sigio' = sigio \ {fd[p]}
  /\ UNCHANGED <<procVars, lockVars, pinVars, irqVars, keyVars, button_async, readVars>>

-----------------------------------------------------------------------------
(* The kernel's file table (external) *)

FreeFile(f) == \A p \in Procs : fd[p] # f

\* fork: q starts with p's descriptor.
Inherit(p, q) ==
  /\ Sharing
  /\ Idle
  /\ OpenFile(p)
  /\ pc[q] = "user"
  /\ fd[q] = None
  /\ fd' = [fd EXCEPT ![q] = fd[p]]
  /\ shared' = shared \union {fd[p]}
  /\ UNCHANGED <<nonblock, pc, idx, lockVars, pinVars, irqVars, keyVars,
                 asyncVars, last_read, interrupted, ready>>

LastReference(p) == \A q \in Procs \ {p} : fd[q] # fd[p]

\* close of a descriptor that is not the last one of its file: the driver
\* is not called.
CloseShared(p) ==
  /\ Idle
  /\ OpenFile(p)
  /\ ~LastReference(p)
  /\ fd' = [fd EXCEPT ![p] = None]
  /\ ready' = ready \ {p}
  /\ UNCHANGED <<nonblock, pc, idx, lockVars, pinVars, irqVars, keyVars,
                 asyncVars, last_read, interrupted, shared>>

\* What the keys, the timer and the file table do in every version.
Common ==
  \/ \E k \in Keys : Edge(k)
  \/ \E p \in Procs : TakeSigio(p)
  \/ \E p, q \in Procs : Inherit(p, q)
  \/ \E p \in Procs : CloseShared(p)

-----------------------------------------------------------------------------
(* Properties of both versions *)

\* p is past the semaphore on its file: from the moment open obtained it
\* until release has returned.
Opened(p) == fd[p] # None /\ pc[p] # "down"

\* At any time at most one file is open, a file being open until release has
\* returned: `only one application has this driver open at a time'
\* (buttons_driver.c), the semaphore's critical section being all of it.
AtMostOneOpen ==
  \A p, q \in Procs : Opened(p) /\ Opened(q) => fd[p] = fd[q]

\* What open got stays: while a process may read, the handlers of all keys
\* are installed, but for those that request_irq denied to this very open for
\* a reason outside the driver.  No line is missing because another process
\* opens or closes the device, however they interleave.
OpenHasLines ==
  \A p \in Procs :
    Opened(p) /\ pc[p] \notin {"request", "free", "up"} => registered = Keys \ denied

\* request_irq is never called for a line that this driver has already, which
\* the kernel would refuse; and free_irq, which removes a handler by its
\* dev_id, only for a line that the closing file got, or never had because it
\* was denied (the kernel warns of that one).
IrqCallsMatch ==
  \A p \in Procs :
    /\ pc[p] = "request" /\ idx[p] <= NKeys => idx[p] \notin registered
    /\ pc[p] = "free" /\ idx[p] <= NKeys => idx[p] \in registered \union denied

\* Once bouncing is over, that is the timer has run after the last interrupt,
\* the stored value is the level at which the last key settled, whatever the
\* interrupts did while the timer function was running.
Settled ==
  ~timer /\ softirq = None /\ irq_pd \in Keys \ missed
    => key_val = KeyVal(irq_pd, pin[irq_pd])

\* What poll promised stands: between the poll that reported the device
\* readable and the end of the next read no other reader takes the event,
\* unless the file is shared by processes that inherited it.
ReadyMeansEvent == \A p \in ready : fd[p] \notin shared => ev_press

\* p's read copies the value in this step.
Copies(p) == pc[p] = "copy" /\ pc'[p] = "clear"

\* A key value is returned at most once: on a file that is not shared, and
\* unless a signal ended its wait, a read copies a value stored after the
\* newest value any reader copied.
FreshReads ==
  [][\A p \in Procs :
       Copies(p) /\ p \notin interrupted /\ fd[p] \notin shared
         => key_seq > last_read]_vars

\* The driver's comments at the read handler: `sleep if there is no key
\* action' and `return the key value if there is one'; so every read that
\* returns 1 has an event of its own.
EveryReadHasEvent ==
  [][\A p \in Procs : Copies(p) => key_seq > last_read]_vars

\* The driver's comment at ev_press: the interrupt sets it, read clears it,
\* and `if there is a key action, return the key value'; so as long as the
\* newest value has not been read, the flag says so.
NewestNotLost == key_seq > last_read => ev_press
=============================================================================
