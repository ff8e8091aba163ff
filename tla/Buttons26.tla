----------------------------- MODULE Buttons26 -----------------------------
(***************************************************************************)
(* The 2.6.22 button driver (buttons_driver.c).  It differs from the 3.4.2 *)
(* driver in three ways: open stops at the first request_irq that fails,   *)
(* frees that line and still returns 0; release gives the semaphore back   *)
(* before it frees the lines; and the 2.6.22 VFS leaves a closed file on   *)
(* the fasync list unless the driver takes it off, which it does not.      *)
(***************************************************************************)
EXTENDS Keys

s3c24xx_buttons_irq(k) == Edge(k)

s3c24xx_buttons_timer_function == TimerLoad \/ TimerReport

s3c24xx_buttons_drv_read(p) == Read(p)

s3c24xx_buttons_drv_poll(p) == Poll(p)

s3c24xx_buttons_drv_fasync(p) == Fasync(p)

\* The VFS hands an unused file to the process and calls open.
OpenStart(p, f) ==
  /\ FreeFile(f)
  /\ fd[p] = None
  /\ Go(p, "user", "down")
  /\ fd' = [fd EXCEPT ![p] = f]
  /\ nonblock' \in {nonblock, nonblock \union {f}}
  /\ UNCHANGED <<idx, lockVars, pinVars, irqVars, keyVars, asyncVars, readVars>>

OpenBusy(p) ==
  /\ fd[p] \in nonblock
  /\ button_lock = 0
  /\ Go(p, "down", "user")
  /\ fd' = [fd EXCEPT ![p] = None]
  /\ nonblock' = nonblock \ {fd[p]}
  /\ UNCHANGED <<idx, lockVars, pinVars, irqVars, keyVars, asyncVars, readVars>>

\* Mutated form: open does not wait for the semaphore.
OpenNoDown(p) ==
  /\ button_lock' = 0
  /\ Go(p, "down", "request")
  /\ idx' = [idx EXCEPT ![p] = 1]
  /\ UNCHANGED <<fd, nonblock, registered, denied, pinVars, irqVars, keyVars, asyncVars, readVars>>

OpenDown(p) ==
  /\ button_lock = 1
  /\ button_lock' = 0
  /\ Go(p, "down", "request")
  /\ idx' = [idx EXCEPT ![p] = 1]
  /\ UNCHANGED <<fd, nonblock, registered, denied, pinVars, irqVars, keyVars, asyncVars, readVars>>

\* The next request_irq succeeds on a line without a handler.
OpenRequest(p) ==
  /\ idx[p] \in Keys \ registered
  /\ Go(p, "request", "request")
  /\ registered' = registered \union {idx[p]}
  /\ idx' = [idx EXCEPT ![p] = @ + 1]
  /\ UNCHANGED <<fd, nonblock, button_lock, denied, pinVars, irqVars, keyVars, asyncVars, readVars>>

\* It fails on a line that has this driver's handler, and may fail on any from
\* outside: no memory, or another driver's line.  free_irq then removes the
\* handler that is there, if it is this driver's, since it goes by the same
\* dev_id; of another's it only warns.  open returns 0.
OpenRequestFails(p) ==
  /\ idx[p] \in Keys
  /\ Go(p, "request", "user")
  /\ registered' = registered \ {idx[p]}
  /\ idx' = [idx EXCEPT ![p] = 1]
  /\ UNCHANGED <<fd, nonblock, button_lock, denied, pinVars, irqVars, keyVars, asyncVars, readVars>>

OpenDone(p) ==
  /\ idx[p] > NKeys
  /\ Go(p, "request", "user")
  /\ idx' = [idx EXCEPT ![p] = 1]
  /\ UNCHANGED <<fd, nonblock, lockVars, pinVars, irqVars, keyVars, asyncVars, readVars>>

s3c24xx_buttons_drv_open(p) ==
  \/ \E f \in Files : OpenStart(p, f)
  \/ OpenBusy(p)
  \/ OpenDown(p)
  \/ OpenRequest(p)
  \/ OpenRequestFails(p)
  \/ OpenDone(p)

ReleaseStart(p) ==
  /\ OpenFile(p)
  /\ LastReference(p)
  /\ Go(p, "user", "up")
  /\ ready' = ready \ {p}
  /\ UNCHANGED <<fd, nonblock, idx, lockVars, pinVars, irqVars, keyVars,
                 asyncVars, last_read, interrupted, shared>>

ReleaseUp(p) ==
  /\ Go(p, "up", "free")
  /\ button_lock' = button_lock + 1
  /\ UNCHANGED <<fd, nonblock, idx, registered, denied, pinVars, irqVars, keyVars, asyncVars, readVars>>

ReleaseFree(p) ==
  /\ idx[p] <= NKeys
  /\ Go(p, "free", "free")
  /\ registered' = registered \ {idx[p]}
  /\ idx' = [idx EXCEPT ![p] = @ + 1]
  /\ UNCHANGED <<fd, nonblock, button_lock, denied, pinVars, irqVars, keyVars, asyncVars, readVars>>

ReleaseDone(p) ==
  /\ idx[p] > NKeys
  /\ Go(p, "free", "user")
  /\ idx' = [idx EXCEPT ![p] = 1]
  /\ fd' = [fd EXCEPT ![p] = None]
  /\ nonblock' = nonblock \ {fd[p]}
  /\ shared' = shared \ {fd[p]}
  /\ UNCHANGED <<lockVars, pinVars, irqVars, keyVars, asyncVars, last_read,
                 interrupted, ready>>

s3c24xx_buttons_drv_close(p) ==
  \/ ReleaseStart(p)
  \/ ReleaseUp(p)
  \/ ReleaseFree(p)
  \/ ReleaseDone(p)

Next ==
  \/ Common
  \/ s3c24xx_buttons_timer_function
  \/ \E p \in Procs : s3c24xx_buttons_drv_read(p)
  \/ \E p \in Procs : s3c24xx_buttons_drv_poll(p)
  \/ \E p \in Procs : s3c24xx_buttons_drv_fasync(p)
  \/ \E p \in Procs : s3c24xx_buttons_drv_open(p)
  \/ \E p \in Procs : s3c24xx_buttons_drv_close(p)

Spec == Init /\ [][Next]_vars

\* The semaphore still separates users: at most one file is between the end
\* of its open and the start of its release, even though the next open may
\* run against the previous release.
AtMostOneUser ==
  \A p, q \in Procs :
    /\ Opened(p) /\ pc[p] # "free"
    /\ Opened(q) /\ pc[q] # "free"
    => fd[p] = fd[q]
=============================================================================
