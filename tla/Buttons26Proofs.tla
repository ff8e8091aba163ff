--------------------------- MODULE Buttons26Proofs ---------------------------
(***************************************************************************)
(* The 2.6.22 button driver, for any number of processes, files and keys:  *)
(* at most one file has users, although release gives the semaphore back   *)
(* before it frees its lines and open goes on when a line is taken.        *)
(*                                                                         *)
(* The invariant counts a file's users from the semaphore's down to its    *)
(* up: while there is one the semaphore is down.  A process inside open or *)
(* release is alone on its file, so that its up ends the file's use.       *)
(***************************************************************************)
EXTENDS Buttons26, KeysProofs

LockInv ==
  /\ \A p \in Procs : pc[p] # "user" => fd[p] # None
  /\ \A p, q \in Procs : pc[p] \in Alone /\ fd[q] = fd[p] => q = p
  /\ OneUser
  /\ \A p \in Procs : User(p) => button_lock = 0

IInv == TypeOK /\ LockInv /\ SettledInv /\ ReadInv

\* Every state the driver can reach is of the declared types.
LEMMA TypeStep == TypeOK /\ LockInv /\ [Next]_vars => TypeOK'
<1> SUFFICES ASSUME TypeOK, LockInv, [Next]_vars PROVE TypeOK'
  OBVIOUS
<1> USE KeysAssumption DEF Keys
<1>0. 1 \in 1 .. NKeys + 1
  OBVIOUS
<1>1. CASE SharedStep
  BY <1>1, SharedTypes
<1>2. ASSUME NEW p \in Procs, s3c24xx_buttons_drv_open(p) PROVE TypeOK'
  <2>1. ASSUME NEW f \in Files, OpenStart(p, f) PROVE TypeOK'
    BY <2>1 DEF OpenStart, Go, TypeOK, lockVars, pinVars, irqVars, keyVars, asyncVars, readVars
  <2>2. CASE OpenBusy(p)
    BY <2>2 DEF OpenBusy, Go, TypeOK, lockVars, pinVars, irqVars, keyVars, asyncVars, readVars
  <2>3. CASE OpenDown(p) \/ OpenDone(p) \/ OpenRequestFails(p)
    <3>1. idx' = [idx EXCEPT ![p] = 1]
      BY <2>3 DEF OpenDown, OpenDone, OpenRequestFails
    <3>2. idx' \in [Procs -> 1 .. NKeys + 1]
      BY <1>0, <3>1 DEF TypeOK
    <3>3. registered' \in SUBSET Keys
      BY <2>3 DEF OpenDown, OpenDone, OpenRequestFails, TypeOK, lockVars
    <3> QED
      BY <2>3, <3>2, <3>3 DEF OpenDown, OpenDone, OpenRequestFails, Go, TypeOK, lockVars,
         pinVars, irqVars, keyVars, asyncVars, readVars
  <2>4. CASE OpenRequest(p)
    <3>1. idx[p] \in Keys /\ idx[p] + 1 \in 1 .. NKeys + 1
      BY <2>4 DEF OpenRequest, TypeOK
    <3>2. idx' = [idx EXCEPT ![p] = idx[p] + 1]
      BY <2>4 DEF OpenRequest
    <3>3. idx' \in [Procs -> 1 .. NKeys + 1]
      BY <3>1, <3>2 DEF TypeOK
    <3>4. registered' \in SUBSET Keys
      BY <2>4, <3>1 DEF OpenRequest, TypeOK
    <3> QED
      BY <2>4, <3>3, <3>4 DEF OpenRequest, Go, TypeOK, pinVars, irqVars, keyVars, asyncVars, readVars
  <2> QED
    BY <1>2, <2>1, <2>2, <2>3, <2>4 DEF s3c24xx_buttons_drv_open
<1>3. ASSUME NEW p \in Procs, s3c24xx_buttons_drv_close(p) PROVE TypeOK'
  <2>1. CASE ReleaseStart(p)
    BY <2>1 DEF ReleaseStart, Go, TypeOK, lockVars, pinVars, irqVars, keyVars, asyncVars
  <2>2. CASE ReleaseUp(p)
    <3>1. button_lock = 0
      BY <2>2 DEF ReleaseUp, Go, LockInv, User, Opened
    <3> QED
      BY <2>2, <3>1 DEF ReleaseUp, Go, TypeOK, pinVars, irqVars, keyVars, asyncVars, readVars
  <2>3. CASE ReleaseFree(p)
    <3>1. idx[p] \in Keys /\ idx[p] + 1 \in 1 .. NKeys + 1
      BY <2>3 DEF ReleaseFree, TypeOK
    <3>2. idx' = [idx EXCEPT ![p] = idx[p] + 1]
      BY <2>3 DEF ReleaseFree
    <3>3. idx' \in [Procs -> 1 .. NKeys + 1]
      BY <3>1, <3>2 DEF TypeOK
    <3>4. registered' \in SUBSET Keys
      BY <2>3, <3>1 DEF ReleaseFree, TypeOK
    <3> QED
      BY <2>3, <3>3, <3>4 DEF ReleaseFree, Go, TypeOK, pinVars, irqVars, keyVars, asyncVars, readVars
  <2>4. CASE ReleaseDone(p)
    <3>1. idx' \in [Procs -> 1 .. NKeys + 1]
      BY <1>0, <2>4 DEF ReleaseDone, TypeOK
    <3> QED
      BY <2>4, <3>1 DEF ReleaseDone, Go, TypeOK, lockVars, pinVars, irqVars, keyVars, asyncVars
  <2> QED
    BY <1>3, <2>1, <2>2, <2>3, <2>4 DEF s3c24xx_buttons_drv_close
<1>4. CASE UNCHANGED vars
  BY <1>4 DEF vars, TypeOK, procVars, lockVars, pinVars, irqVars, keyVars, asyncVars, readVars
<1> QED
  BY <1>1, <1>2, <1>3, <1>4 DEF Next, SharedStep, s3c24xx_buttons_timer_function,
     s3c24xx_buttons_drv_read, s3c24xx_buttons_drv_poll, s3c24xx_buttons_drv_fasync

-----------------------------------------------------------------------------
(* One file has users *)

\* The shared part does not touch the semaphore and moves processes only
\* between points outside open and release.
LEMMA SharedLocks ==
  ASSUME TypeOK, LockInv, SharedStep
  PROVE  LockInv'
<1>1. ASSUME UNCHANGED <<fd, button_lock>>,
             \A p \in Procs :
               \/ pc'[p] = pc[p]
               \/ /\ pc[p] \notin Alone /\ pc'[p] \notin Alone
                  /\ pc'[p] # "user" => fd[p] # None
      PROVE  LockInv'
  <2>1. \A p \in Procs : User(p)' <=> User(p)
    BY <1>1 DEF User, Opened, Alone
  <2> QED
    BY <1>1, <2>1 DEF LockInv, OneUser
<1>2. ASSUME UNCHANGED <<fd, pc, button_lock>> PROVE LockInv'
  BY <1>1, <1>2
<1>3. ASSUME NEW k \in Keys, Edge(k) PROVE LockInv'
  BY <1>2, <1>3 DEF Edge, procVars, lockVars
<1>4. CASE TimerLoad
  BY <1>2, <1>4 DEF TimerLoad, procVars, lockVars
<1>5. CASE TimerReport
  <2>1. \A p \in Procs : \/ pc'[p] = pc[p]
                         \/ pc[p] = "sleep" /\ pc'[p] = "wait"
                         \/ pc[p] = "pollsleep" /\ pc'[p] = "poll"
    BY <1>5 DEF TimerReport, WakeUp, TypeOK
  <2> QED
    BY <1>1, <1>5, <2>1 DEF TimerReport, lockVars, Alone, LockInv
<1>6. ASSUME NEW p \in Procs, Read(p) \/ Poll(p) PROVE LockInv'
  <2>1. /\ UNCHANGED <<fd, button_lock>>
        /\ \A q \in Procs : q # p => pc'[q] = pc[q]
    BY <1>6 DEF Read, ReadBlocking, ReadNonblock, ReadWait, ReadInterrupted, ReadCopy,
       ReadClear, Poll, PollStart, PollMask, PollTimeout, Go, TypeOK, lockVars
  <2>2. /\ pc[p] \in {"user", "wait", "sleep", "copy", "clear", "poll", "pollsleep"}
        /\ pc'[p] \in {"user", "wait", "sleep", "copy", "clear", "poll", "pollsleep"}
        /\ fd[p] # None
    BY <1>6 DEF Read, ReadBlocking, ReadNonblock, ReadWait, ReadInterrupted, ReadCopy,
       ReadClear, Poll, PollStart, PollMask, PollTimeout, Go, TypeOK, OpenFile, LockInv
  <2> QED
    BY <1>1, <2>1, <2>2 DEF Alone
<1>7. ASSUME NEW p \in Procs, TakeSigio(p) \/ Fasync(p) PROVE LockInv'
  BY <1>2, <1>7 DEF TakeSigio, Fasync, procVars, lockVars
<1>8. ASSUME NEW p \in Procs, NEW q \in Procs, Inherit(p, q) PROVE LockInv'
  <2>1. /\ fd' = [fd EXCEPT ![q] = fd[p]] /\ UNCHANGED <<pc, button_lock>>
        /\ pc[p] = "user" /\ fd[p] # None /\ pc[q] = "user" /\ fd[q] = None
    BY <1>8 DEF Inherit, OpenFile, lockVars
  <2>2. fd'[q] = fd[p] /\ \A r \in Procs : r # q => fd'[r] = fd[r]
    BY <2>1 DEF TypeOK
  <2>3. User(p) /\ \A r \in Procs : r # q => (User(r)' <=> User(r))
    BY <2>1, <2>2 DEF User, Opened
  <2>4. OneUser'
    BY <2>2, <2>3 DEF LockInv, OneUser
  <2>5. \A r, s \in Procs : pc'[r] \in Alone /\ fd'[s] = fd'[r] => s = r
    BY <2>1, <2>2 DEF LockInv, Alone
  <2> QED
    BY <2>1, <2>2, <2>3, <2>4, <2>5 DEF LockInv
<1>9. ASSUME NEW p \in Procs, CloseShared(p) PROVE LockInv'
  <2>1. /\ fd' = [fd EXCEPT ![p] = None] /\ UNCHANGED <<pc, button_lock>> /\ pc[p] = "user"
    BY <1>9 DEF CloseShared, OpenFile, lockVars
  <2>2. fd'[p] = None /\ \A r \in Procs : r # p => fd'[r] = fd[r]
    BY <2>1 DEF TypeOK
  <2>3. ~User(p)' /\ \A r \in Procs : r # p => (User(r)' <=> User(r))
    BY <2>1, <2>2 DEF User, Opened
  <2>4. OneUser'
    BY <2>2, <2>3 DEF LockInv, OneUser
  <2>5. \A r, s \in Procs : pc'[r] \in Alone /\ fd'[s] = fd'[r] => s = r
    BY <2>1, <2>2 DEF LockInv, Alone
  <2> QED
    BY <2>1, <2>2, <2>3, <2>4, <2>5 DEF LockInv
<1> QED
  BY <1>3, <1>4, <1>5, <1>6, <1>7, <1>8, <1>9 DEF SharedStep, Common

\* A step of p inside open or release that keeps every user a user.
LEMMA SameUsers ==
  ASSUME TypeOK, LockInv, NEW p \in Procs, NEW to \in Alone \union {"user"},
         pc' = [pc EXCEPT ![p] = to],
         fd[p] # None,
         UNCHANGED <<fd, button_lock>>,
         pc[p] \in Alone \/ \A q \in Procs \ {p} : fd[q] # fd[p],
         \A q \in Procs : User(q)' <=> User(q)
  PROVE  LockInv'
<1>1. pc'[p] = to /\ \A q \in Procs : q # p => pc'[q] = pc[q]
  BY DEF TypeOK
<1>2. OneUser'
  BY DEF LockInv, OneUser
<1>3. \A q \in Procs : pc'[q] # "user" => fd'[q] # None
  BY <1>1 DEF LockInv
<1>4. \A q, r \in Procs : pc'[q] \in Alone /\ fd'[r] = fd'[q] => r = q
  BY <1>1 DEF LockInv
<1> QED
  BY <1>2, <1>3, <1>4 DEF LockInv

\* open: the semaphore admits one file at a time.
LEMMA OpenActions ==
  ASSUME TypeOK, LockInv, NEW p \in Procs, s3c24xx_buttons_drv_open(p)
  PROVE  LockInv'
<1>1. ASSUME NEW f \in Files, OpenStart(p, f) PROVE LockInv'
  <2>1. /\ fd' = [fd EXCEPT ![p] = f] /\ pc' = [pc EXCEPT ![p] = "down"]
        /\ button_lock' = button_lock /\ fd[p] = None /\ pc[p] = "user" /\ FreeFile(f)
        /\ f # None
    BY <1>1, KeysAssumption DEF OpenStart, Go, lockVars
  <2>2. /\ fd'[p] = f /\ pc'[p] = "down"
        /\ \A q \in Procs : q # p => fd'[q] = fd[q] /\ pc'[q] = pc[q]
    BY <2>1 DEF TypeOK
  <2>3. ~User(p)' /\ \A q \in Procs : q # p => (User(q)' <=> User(q))
    BY <2>1, <2>2 DEF User, Opened
  <2>4. OneUser'
    BY <2>2, <2>3 DEF LockInv, OneUser
  <2>5. \A q, r \in Procs : pc'[q] \in Alone /\ fd'[r] = fd'[q] => r = q
    BY <2>1, <2>2 DEF LockInv, Alone, FreeFile
  <2>6. \A q \in Procs : pc'[q] # "user" => fd'[q] # None
    BY <2>1, <2>2 DEF LockInv
  <2> QED
    BY <2>1, <2>3, <2>4, <2>5, <2>6 DEF LockInv
<1>2. CASE OpenBusy(p)
  <2>1. /\ fd' = [fd EXCEPT ![p] = None] /\ pc' = [pc EXCEPT ![p] = "user"]
        /\ button_lock' = button_lock
    BY <1>2 DEF OpenBusy, Go, lockVars
  <2>2. /\ fd'[p] = None /\ pc'[p] = "user"
        /\ \A q \in Procs : q # p => fd'[q] = fd[q] /\ pc'[q] = pc[q]
    BY <2>1 DEF TypeOK
  <2>3. ~User(p)' /\ \A q \in Procs : q # p => (User(q)' <=> User(q))
    BY <2>2 DEF User, Opened
  <2>4. OneUser'
    BY <2>2, <2>3 DEF LockInv, OneUser
  <2>5. \A q, r \in Procs : pc'[q] \in Alone /\ fd'[r] = fd'[q] => r = q
    BY <2>2 DEF LockInv, Alone
  <2>6. \A q \in Procs : pc'[q] # "user" => fd'[q] # None
    BY <2>2 DEF LockInv
  <2> QED
    BY <2>1, <2>3, <2>4, <2>5, <2>6 DEF LockInv
<1>3. CASE OpenDown(p)
  <2>1. /\ pc' = [pc EXCEPT ![p] = "request"] /\ fd' = fd
        /\ button_lock = 1 /\ button_lock' = 0 /\ pc[p] = "down"
    BY <1>3 DEF OpenDown, Go
  <2>2. pc'[p] = "request" /\ \A q \in Procs : q # p => pc'[q] = pc[q]
    BY <2>1 DEF TypeOK
  <2>3. \A q \in Procs : ~User(q)
    BY <2>1 DEF LockInv
  <2>4. \A q \in Procs : User(q)' => q = p
    BY <2>1, <2>2, <2>3 DEF User, Opened
  <2>5. OneUser'
    BY <2>4 DEF OneUser
  <2>6. \A q, r \in Procs : pc'[q] \in Alone /\ fd'[r] = fd'[q] => r = q
    BY <2>1, <2>2 DEF LockInv, Alone
  <2>7. \A q \in Procs : pc'[q] # "user" => fd'[q] # None
    BY <2>1, <2>2 DEF LockInv
  <2> QED
    BY <2>1, <2>5, <2>6, <2>7 DEF LockInv
<1>4. ASSUME NEW to \in {"request", "user"}, Go(p, "request", to), UNCHANGED <<fd, button_lock>>
      PROVE  LockInv'
  <2>1. pc'[p] = to /\ \A q \in Procs : q # p => pc'[q] = pc[q]
    BY <1>4 DEF Go, TypeOK
  <2>2. \A q \in Procs : User(q)' <=> User(q)
    BY <1>4, <2>1 DEF Go, User, Opened
  <2>3. fd[p] # None /\ pc[p] \in Alone /\ to \in Alone \union {"user"}
    BY <1>4 DEF Go, LockInv, Alone
  <2> QED
    BY <1>4, <2>2, <2>3, SameUsers DEF Go
<1>5. CASE OpenRequest(p)
  BY <1>4, <1>5 DEF OpenRequest
<1>6. CASE OpenRequestFails(p)
  BY <1>4, <1>6 DEF OpenRequestFails
<1>7. CASE OpenDone(p)
  BY <1>4, <1>7 DEF OpenDone, lockVars
<1> QED
  BY <1>1, <1>2, <1>3, <1>5, <1>6, <1>7 DEF s3c24xx_buttons_drv_open

\* release: when it gives the semaphore back the file has no user left.
LEMMA CloseActions ==
  ASSUME TypeOK, LockInv, NEW p \in Procs, s3c24xx_buttons_drv_close(p)
  PROVE  LockInv'
<1>1. CASE ReleaseStart(p)
  <2>1. /\ pc' = [pc EXCEPT ![p] = "up"] /\ UNCHANGED <<fd, button_lock>>
        /\ pc[p] = "user" /\ fd[p] # None /\ LastReference(p)
    BY <1>1 DEF ReleaseStart, Go, OpenFile, lockVars
  <2>2. pc'[p] = "up" /\ \A q \in Procs : q # p => pc'[q] = pc[q]
    BY <2>1 DEF TypeOK
  <2>3. \A q \in Procs : User(q)' <=> User(q)
    BY <2>1, <2>2 DEF User, Opened
  <2>4. \A q, r \in Procs : pc'[q] \in Alone /\ fd'[r] = fd'[q] => r = q
    BY <2>1, <2>2 DEF LockInv, LastReference
  <2>5. OneUser' /\ \A q \in Procs : pc'[q] # "user" => fd'[q] # None
    BY <2>1, <2>2, <2>3 DEF LockInv, OneUser
  <2> QED
    BY <2>1, <2>3, <2>4, <2>5 DEF LockInv
<1>2. CASE ReleaseUp(p)
  <2>1. /\ pc' = [pc EXCEPT ![p] = "free"] /\ fd' = fd /\ pc[p] = "up"
    BY <1>2 DEF ReleaseUp, Go
  <2>2. pc'[p] = "free" /\ \A q \in Procs : q # p => pc'[q] = pc[q]
    BY <2>1 DEF TypeOK
  <2>3. \A q \in Procs : User(q) => q = p
    BY <2>1 DEF LockInv, OneUser, User, Opened, Alone
  <2>4. \A q \in Procs : ~User(q)'
    BY <2>1, <2>2, <2>3 DEF User, Opened
  <2>5. \A q, r \in Procs : pc'[q] \in Alone /\ fd'[r] = fd'[q] => r = q
    BY <2>1, <2>2 DEF LockInv, Alone
  <2>6. \A q \in Procs : pc'[q] # "user" => fd'[q] # None
    BY <2>1, <2>2 DEF LockInv
  <2> QED
    BY <2>4, <2>5, <2>6 DEF LockInv, OneUser
<1>3. CASE ReleaseFree(p)
  <2>1. /\ pc' = [pc EXCEPT ![p] = "free"] /\ UNCHANGED <<fd, button_lock>> /\ pc[p] = "free"
    BY <1>3 DEF ReleaseFree, Go
  <2>2. \A q \in Procs : User(q)' <=> User(q)
    BY <2>1 DEF User, Opened, TypeOK
  <2>3. fd[p] # None /\ pc[p] \in Alone /\ "free" \in Alone
    BY <2>1 DEF LockInv, Alone
  <2> QED
    BY <2>1, <2>2, <2>3, SameUsers
<1>4. CASE ReleaseDone(p)
  <2>1. /\ fd' = [fd EXCEPT ![p] = None] /\ pc' = [pc EXCEPT ![p] = "user"]
        /\ button_lock' = button_lock /\ pc[p] = "free"
    BY <1>4 DEF ReleaseDone, Go, lockVars
  <2>2. /\ fd'[p] = None /\ pc'[p] = "user"
        /\ \A q \in Procs : q # p => fd'[q] = fd[q] /\ pc'[q] = pc[q]
    BY <2>1 DEF TypeOK
  <2>3. ~User(p)' /\ \A q \in Procs : q # p => (User(q)' <=> User(q))
    BY <2>2 DEF User, Opened
  <2>4. OneUser'
    BY <2>2, <2>3 DEF LockInv, OneUser
  <2>5. \A q, r \in Procs : pc'[q] \in Alone /\ fd'[r] = fd'[q] => r = q
    BY <2>2 DEF LockInv, Alone
  <2>6. \A q \in Procs : pc'[q] # "user" => fd'[q] # None
    BY <2>2 DEF LockInv
  <2> QED
    BY <2>1, <2>3, <2>4, <2>5, <2>6 DEF LockInv
<1> QED
  BY <1>1, <1>2, <1>3, <1>4 DEF s3c24xx_buttons_drv_close

LEMMA LockStep == TypeOK /\ LockInv /\ [Next]_vars => LockInv'
<1> SUFFICES ASSUME TypeOK, LockInv, [Next]_vars PROVE LockInv'
  OBVIOUS
<1>1. CASE SharedStep
  BY <1>1, SharedLocks
<1>2. ASSUME NEW p \in Procs, s3c24xx_buttons_drv_open(p) PROVE LockInv'
  BY <1>2, OpenActions
<1>3. ASSUME NEW p \in Procs, s3c24xx_buttons_drv_close(p) PROVE LockInv'
  BY <1>3, CloseActions
<1>4. CASE UNCHANGED vars
  <2>1. UNCHANGED <<fd, pc, button_lock>>
    BY <1>4 DEF vars, procVars, lockVars
  <2> QED
    BY <2>1 DEF LockInv, OneUser, User, Opened
<1> QED
  BY <1>1, <1>2, <1>3, <1>4 DEF Next, SharedStep, s3c24xx_buttons_timer_function,
     s3c24xx_buttons_drv_read, s3c24xx_buttons_drv_poll, s3c24xx_buttons_drv_fasync

-----------------------------------------------------------------------------
(* The debounce and the event flag *)

\* open and release leave the debounce alone.
LEMMA SettledNext == TypeOK /\ SettledInv /\ [Next]_vars => SettledInv'
<1> SUFFICES ASSUME TypeOK, SettledInv, [Next]_vars PROVE SettledInv'
  OBVIOUS
<1>1. \/ \E k \in Keys : Edge(k)
      \/ TimerLoad
      \/ TimerReport
      \/ UNCHANGED <<pinVars, irqVars, key_val>>
  <2>1. CASE Common
    BY <2>1 DEF Common, TakeSigio, Inherit, CloseShared, keyVars
  <2>2. ASSUME NEW p \in Procs, Read(p) \/ Poll(p) \/ Fasync(p)
        PROVE  UNCHANGED <<pinVars, irqVars, key_val>>
    BY <2>2 DEF Read, ReadBlocking, ReadNonblock, ReadWait, ReadInterrupted, ReadCopy,
       ReadClear, Poll, PollStart, PollMask, PollTimeout, Fasync, keyVars
  <2>3. ASSUME NEW p \in Procs, s3c24xx_buttons_drv_open(p)
        PROVE  UNCHANGED <<pinVars, irqVars, key_val>>
    BY <2>3 DEF s3c24xx_buttons_drv_open, OpenStart, OpenBusy, OpenDown, OpenRequest,
       OpenRequestFails, OpenDone, keyVars
  <2>4. ASSUME NEW p \in Procs, s3c24xx_buttons_drv_close(p)
        PROVE  UNCHANGED <<pinVars, irqVars, key_val>>
    BY <2>4 DEF s3c24xx_buttons_drv_close, ReleaseStart, ReleaseUp, ReleaseFree,
       ReleaseDone, keyVars
  <2>5. CASE UNCHANGED vars
    BY <2>5 DEF vars, keyVars
  <2> QED
    BY <2>1, <2>2, <2>3, <2>4, <2>5 DEF Next, s3c24xx_buttons_timer_function,
       s3c24xx_buttons_drv_read, s3c24xx_buttons_drv_poll, s3c24xx_buttons_drv_fasync
<1> QED
  BY <1>1, SettledStep

\* One file with users is enough for the event flag: the lines may be missing.
LEMMA ReadNext == TypeOK /\ LockInv /\ ReadInv /\ [Next]_vars => ReadInv'
<1> SUFFICES ASSUME TypeOK, LockInv, ReadInv, [Next]_vars PROVE ReadInv'
  OBVIOUS
<1>0. OneUser
  BY DEF LockInv
<1>1. CASE SharedStep
  BY <1>0, <1>1, ReadStep, OtherStep DEF SharedStep
<1>2. ASSUME NEW p \in Procs, s3c24xx_buttons_drv_open(p) PROVE ReadInv'
  <2>1. ASSUME NEW f \in Files, OpenStart(p, f) PROVE ReadInv'
    <3>1. ready' = ready \ {p}
      BY <2>1 DEF OpenStart, ReadInv, Promised, readVars
    <3> QED
      BY <2>1, <3>1, OutsideStep DEF OpenStart, Go, Alone, readVars
  <2>2. CASE OpenBusy(p)
    <3>1. \A q \in Procs : fd[q] = fd[p] => q = p
      BY <2>2 DEF OpenBusy, Go, LockInv, Alone
    <3> QED
      BY <2>2, <3>1, OutsideStep DEF OpenBusy, Go, Alone, readVars
  <2>3. CASE OpenDown(p)
    BY <2>3, OutsideStep DEF OpenDown, Go, Alone, readVars, LockInv
  <2>4. CASE OpenRequest(p)
    BY <2>4, OutsideStep DEF OpenRequest, Go, Alone, readVars, LockInv
  <2>5. CASE OpenRequestFails(p)
    BY <2>5, OutsideStep DEF OpenRequestFails, Go, Alone, readVars, LockInv
  <2>6. CASE OpenDone(p)
    BY <2>6, OutsideStep DEF OpenDone, Go, Alone, readVars, LockInv
  <2> QED
    BY <1>2, <2>1, <2>2, <2>3, <2>4, <2>5, <2>6 DEF s3c24xx_buttons_drv_open
<1>3. ASSUME NEW p \in Procs, s3c24xx_buttons_drv_close(p) PROVE ReadInv'
  <2>1. CASE ReleaseStart(p)
    BY <2>1, OutsideStep DEF ReleaseStart, OpenFile, Go, Alone
  <2>2. CASE ReleaseUp(p)
    BY <2>2, OutsideStep DEF ReleaseUp, Go, Alone, readVars, LockInv
  <2>3. CASE ReleaseFree(p)
    BY <2>3, OutsideStep DEF ReleaseFree, Go, Alone, readVars, LockInv
  <2>4. CASE ReleaseDone(p)
    <3>1. \A q \in Procs : fd[q] = fd[p] => q = p
      BY <2>4 DEF ReleaseDone, Go, LockInv, Alone
    <3> QED
      BY <2>4, <3>1, OutsideStep DEF ReleaseDone, Go, Alone
  <2> QED
    BY <1>3, <2>1, <2>2, <2>3, <2>4 DEF s3c24xx_buttons_drv_close
<1>4. CASE UNCHANGED vars
  BY <1>4 DEF vars, procVars, keyVars, readVars, ReadInv, Placed, Flagged, Fresh, Promised
<1> QED
  BY <1>1, <1>2, <1>3, <1>4 DEF Next, SharedStep, s3c24xx_buttons_timer_function,
     s3c24xx_buttons_drv_read, s3c24xx_buttons_drv_poll, s3c24xx_buttons_drv_fasync

\* In every reachable state of the 2.6.22 driver the variables have their
\* types, one file has users, and debounce and event flag are consistent.
THEOREM Inductive == Spec => []IInv
<1>1. Init => IInv
  <2> SUFFICES ASSUME Init PROVE IInv
    OBVIOUS
  <2>1. TypeOK
    <3>1. 1 \in 1 .. NKeys + 1 /\ 0 \in 0 .. MaxEdges
      BY KeysAssumption
    <3> QED
      BY <3>1 DEF Init, TypeOK
  <2>2. LockInv
    BY DEF Init, LockInv, OneUser, User, Opened, Alone
  <2>3. SettledInv /\ ReadInv
    BY DEF Init, SettledInv, ReadInv, Placed, Flagged, Fresh, Promised
  <2> QED
    BY <2>1, <2>2, <2>3 DEF IInv
<1>2. IInv /\ [Next]_vars => IInv'
  BY TypeStep, LockStep, SettledNext, ReadNext DEF IInv
<1> QED
  BY <1>1, <1>2, PTL DEF Spec

\* At most one file is between the end of its open and the semaphore's up in
\* its release, whatever lines the opens that overlapped it were refused.
THEOREM OneUserAtATime == Spec => []AtMostOneUser
<1>1. IInv => AtMostOneUser
  BY DEF IInv, LockInv, OneUser, User, AtMostOneUser
<1> QED
  BY <1>1, Inductive, PTL

\* Unless a signal ended its wait, a read of an unshared file copies a value
\* that no read has copied before.
THEOREM ReadsFresh == Spec => FreshReads
<1>1. IInv => [\A p \in Procs :
                 Copies(p) /\ p \notin interrupted /\ fd[p] \notin shared
                   => key_seq > last_read]_vars
  BY FreshEnough DEF IInv
<1> QED
  BY <1>1, Inductive, PTL DEF FreshReads

\* Nobody takes the event that poll has promised to an unshared file.
THEOREM PollKept == Spec => []ReadyMeansEvent
<1>1. IInv => ReadyMeansEvent
  BY PromisedEnough DEF IInv
<1> QED
  BY <1>1, Inductive, PTL

\* Once bouncing is over the stored value is the level at which the last key
\* settled.
THEOREM SettlesRight == Spec => []Settled
<1>1. IInv => Settled
  BY SettledEnough DEF IInv
<1> QED
  BY <1>1, Inductive, PTL
=============================================================================
