--------------------------- MODULE AntiShakeKeys ---------------------------
(***************************************************************************)
(* The 3.4.2 button driver (key_anti_shake_all.c): open takes the          *)
(* semaphore and then requests the lines one by one, release frees the     *)
(* lines and then gives the semaphore back.  Neither looks at what          *)
(* request_irq and free_irq return.  A request may fail from outside, for   *)
(* want of memory or because another driver has the line: open returns 0    *)
(* all the same.  `denied' are the lines the open file misses that way.     *)
(***************************************************************************)
EXTENDS Keys

\* The VFS hands an unused file to the process and calls open.
OpenStart(p, f) ==
  /\ FreeFile(f)
  /\ fd[p] = None
  /\ Go(p, "user", "down")
  /\ fd' = [fd EXCEPT ![p] = f]
  /\ nonblock' \in {nonblock, nonblock \union {f}}
  /\ UNCHANGED <<idx, lockVars, pinVars, irqVars, keyVars, asyncVars, readVars>>

\* down_trylock found the semaphore taken: -EBUSY, and the VFS drops the file.
OpenBusy(p) ==
  /\ fd[p] \in nonblock
  /\ button_lock = 0
  /\ Go(p, "down", "user")
  /\ fd' = [fd EXCEPT ![p] = None]
  /\ nonblock' = nonblock \ {fd[p]}
  /\ UNCHANGED <<idx, lockVars, pinVars, irqVars, keyVars, asyncVars, readVars>>

\* Mutated form: open does not wait for the semaphore.
OpenNoDown(p) ==
  /\ button_lock' = 0
  /\ Go(p, "down", "request")
  /\ idx' = [idx EXCEPT ![p] = 1]
  /\ UNCHANGED <<fd, nonblock, registered, denied, pinVars, irqVars, keyVars, asyncVars, readVars>>

\* down_trylock succeeds, or down returns.
OpenDown(p) ==
  /\ button_lock = 1
  /\ button_lock' = 0
  /\ Go(p, "down", "request")
  /\ idx' = [idx EXCEPT ![p] = 1]
  /\ UNCHANGED <<fd, nonblock, registered, denied, pinVars, irqVars, keyVars, asyncVars, readVars>>

\* The next request_irq.  The lines are not shared: a request for a line that
\* has this driver's handler fails and leaves it there.  Any other request is
\* granted or, from outside, denied.  open goes on in all cases.
OpenRequest(p) ==
  /\ idx[p] <= NKeys
  /\ Go(p, "request", "request")
  /\ idx' = [idx EXCEPT ![p] = @ + 1]
  /\ \/ /\ idx[p] \in registered
        /\ UNCHANGED <<registered, denied>>
     \/ /\ idx[p] \notin registered
        /\ registered' = registered \union {idx[p]}
        /\ UNCHANGED denied
     \/ /\ idx[p] \notin registered
        /\ denied' = denied \union {idx[p]}
        /\ UNCHANGED registered
  /\ UNCHANGED <<fd, nonblock, button_lock, pinVars, irqVars, keyVars, asyncVars, readVars>>

\* Mutated form: open stops one line short.
OpenDoneEarly(p) ==
  /\ idx[p] >= NKeys
  /\ Go(p, "request", "user")
  /\ idx' = [idx EXCEPT ![p] = 1]
  /\ UNCHANGED <<fd, nonblock, lockVars, pinVars, irqVars, keyVars, asyncVars, readVars>>

OpenDone(p) ==
  /\ idx[p] > NKeys
  /\ Go(p, "request", "user")
  /\ idx' = [idx EXCEPT ![p] = 1]
  /\ UNCHANGED <<fd, nonblock, lockVars, pinVars, irqVars, keyVars, asyncVars, readVars>>

sixth_drv_open(p) ==
  \/ \E f \in Files : OpenStart(p, f)
  \/ OpenBusy(p)
  \/ OpenDown(p)
  \/ OpenRequest(p)
  \/ OpenDone(p)

\* The last close of a file.  The 3.4 VFS takes it off the fasync list
\* before it calls release.
ReleaseStart(p) ==
  /\ OpenFile(p)
  /\ LastReference(p)
  /\ Go(p, "user", "free")
  /\ ready' = ready \ {p}
  /\ button_async' = button_async \ {fd[p]}
  /\ sigio' = sigio \ {fd[p]}
  /\ UNCHANGED <<fd, nonblock, idx, lockVars, pinVars, irqVars, keyVars,
                 last_read, interrupted, shared>>

\* The next free_irq: of a line without this driver's handler it only warns.
ReleaseFree(p) ==
  /\ idx[p] <= NKeys
  /\ Go(p, "free", "free")
  /\ registered' = registered \ {idx[p]}
  /\ denied' = denied \ {idx[p]}
  /\ idx' = [idx EXCEPT ![p] = @ + 1]
  /\ UNCHANGED <<fd, nonblock, button_lock, pinVars, irqVars, keyVars, asyncVars, readVars>>

ReleaseUp(p) ==
  /\ idx[p] > NKeys
  /\ Go(p, "free", "user")
  /\ button_lock' = button_lock + 1
  /\ idx' = [idx EXCEPT ![p] = 1]
  /\ fd' = [fd EXCEPT ![p] = None]
  /\ nonblock' = nonblock \ {fd[p]}
  /\ shared' = shared \ {fd[p]}
  /\ UNCHANGED <<registered, denied, pinVars, irqVars, keyVars, asyncVars, last_read,
                 interrupted, ready>>

\* Mutated form: release gives the semaphore back first.
CloseUpFirst(p) ==
  \/ /\ OpenFile(p)
     /\ LastReference(p)
     /\ Go(p, "user", "free")
     /\ button_lock' = button_lock + 1
     /\ UNCHANGED <<fd, nonblock, idx, registered, denied, pinVars, irqVars, keyVars,
                    asyncVars, readVars>>
  \/ ReleaseFree(p)
  \/ /\ idx[p] > NKeys
     /\ Go(p, "free", "user")
     /\ idx' = [idx EXCEPT ![p] = 1]
     /\ fd' = [fd EXCEPT ![p] = None]
     /\ UNCHANGED <<nonblock, lockVars, pinVars, irqVars, keyVars, asyncVars, readVars>>

sixth_drv_close(p) ==
  \/ ReleaseStart(p)
  \/ ReleaseFree(p)
  \/ ReleaseUp(p)

Next ==
  \/ Common
  \/ TimerLoad
  \/ TimerReport
  \/ \E p \in Procs : Read(p)
  \/ \E p \in Procs : Poll(p)
  \/ \E p \in Procs : Fasync(p)
  \/ \E p \in Procs : sixth_drv_open(p)
  \/ \E p \in Procs : sixth_drv_close(p)

Spec == Init /\ [][Next]_vars

\* Code that runs in the kernel goes on running: a pending timer expires, its
\* function completes, and a process inside a handler is scheduled unless it
\* sleeps.  Nothing is assumed of what user programs call or of the keys.
Fairness ==
  /\ WF_vars(TimerLoad)
  /\ WF_vars(TimerReport)
  /\ \A p \in Procs :
       /\ WF_vars(ReadWait(p))
       /\ WF_vars(ReadCopy(p))
       /\ WF_vars(ReadClear(p))
       /\ WF_vars(OpenRequest(p))
       /\ WF_vars(OpenDone(p))
       /\ WF_vars(ReleaseFree(p))
       /\ WF_vars(ReleaseUp(p))

FairSpec == Spec /\ Fairness

\* A reader that sleeps when a key interrupt arms the timer returns, however
\* often the key bounces before it settles and even if the timer function
\* runs while the reader is on its way to sleep.  (Of several readers of one
\* shared file only one gets the event.)
KeyEndsRead ==
  \A p \in Procs :
    timer /\ irq_pd # None /\ pc[p] \in {"wait", "sleep"} /\ fd[p] \notin shared
      ~> pc[p] = "user"
=============================================================================
