------------------------ MODULE AntiShakeKeysProofs ------------------------
(***************************************************************************)
(* Exclusive open of the 3.4.2 button driver, its debounce and what read   *)
(* and poll promise, for any number of processes, files and keys, with or  *)
(* without inherited descriptors.                                          *)
(*                                                                         *)
(* AtMostOneOpen is not inductive: it needs to know that the semaphore is  *)
(* down exactly while a file is open, and that a process inside open or    *)
(* release is alone on its file.  OpenHasLines and IrqCallsMatch need, on  *)
(* top, that the lines installed and those denied from outside make up     *)
(* what the one process inside open or release has asked for so far        *)
(* (Lines).  The debounce and the event flag are KeysProofs' part; the     *)
(* flag needs exclusive open.                                              *)
(***************************************************************************)
EXTENDS AntiShakeKeys, KeysProofs

\* The lines that p's file has asked for and not given back, when it is the
\* open one.
Lines(p) ==
  CASE pc[p] = "request" -> 1 .. (idx[p] - 1)
    [] pc[p] = "free"    -> idx[p] .. NKeys
    [] OTHER             -> Keys

\* Each of them has been granted or denied.
Collected(p) ==
  /\ denied \subseteq Lines(p)
  /\ registered = Lines(p) \ denied

LockInv ==
  /\ \A p \in Procs : pc[p] # "user" => fd[p] # None
  /\ \A p \in Procs : pc[p] # "up"
  /\ \A p \in Procs : pc[p] \notin {"request", "free"} => idx[p] = 1
  /\ \A p, q \in Procs : pc[p] \in Alone /\ fd[q] = fd[p] => q = p
  /\ AtMostOneOpen
  /\ \A p \in Procs : Opened(p) => button_lock = 0 /\ Collected(p)
  /\ button_lock = 0 => \E p \in Procs : Opened(p)
  /\ button_lock = 1 => registered = {} /\ denied = {}

IInv == TypeOK /\ LockInv /\ SettledInv /\ ReadInv

\* Every state the driver can reach is of the declared types.
LEMMA TypeStep == TypeOK /\ LockInv /\ [Next]_vars => TypeOK'
<1> SUFFICES ASSUME TypeOK, LockInv, [Next]_vars PROVE TypeOK'
  OBVIOUS
<1> USE KeysAssumption DEF Keys
<1>1. CASE SharedStep
  BY <1>1, SharedTypes
<1>2. ASSUME NEW p \in Procs, sixth_drv_open(p) PROVE TypeOK'
  <2>1. ASSUME NEW f \in Files, OpenStart(p, f) PROVE TypeOK'
    BY <2>1 DEF OpenStart, Go, TypeOK, lockVars, pinVars, irqVars, keyVars,
       asyncVars, readVars
  <2>2. CASE OpenBusy(p)
    BY <2>2 DEF OpenBusy, Go, TypeOK, lockVars, pinVars, irqVars, keyVars,
       asyncVars, readVars
  <2>4. CASE OpenDown(p) \/ OpenDone(p)
    <3>1. 1 \in 1 .. NKeys + 1
      OBVIOUS
    <3>2. idx' = [idx EXCEPT ![p] = 1]
      BY <2>4 DEF OpenDown, OpenDone
    <3>3. idx' \in [Procs -> 1 .. NKeys + 1]
      BY <3>1, <3>2 DEF TypeOK
    <3> QED
      BY <2>4, <3>3 DEF OpenDown, OpenDone, Go, TypeOK, lockVars, pinVars,
         irqVars, keyVars, asyncVars, readVars
  <2>3. CASE OpenRequest(p)
    <3>1. idx[p] \in Keys /\ idx[p] + 1 \in 1 .. NKeys + 1
      BY <2>3 DEF OpenRequest, TypeOK
    <3>2. idx' = [idx EXCEPT ![p] = idx[p] + 1]
      BY <2>3 DEF OpenRequest
    <3>3. idx' \in [Procs -> 1 .. NKeys + 1]
      BY <3>1, <3>2 DEF TypeOK
    <3>4. registered' \in SUBSET Keys /\ denied' \in SUBSET Keys
      BY <2>3, <3>1 DEF OpenRequest, TypeOK
    <3> QED
      BY <2>3, <3>3, <3>4 DEF OpenRequest, Go, TypeOK, pinVars, irqVars, keyVars,
         asyncVars, readVars
  <2> QED
    BY <1>2, <2>1, <2>2, <2>3, <2>4 DEF sixth_drv_open
<1>3. ASSUME NEW p \in Procs, sixth_drv_close(p) PROVE TypeOK'
  <2>1. CASE ReleaseStart(p)
    BY <2>1 DEF ReleaseStart, Go, TypeOK, lockVars, pinVars, irqVars, keyVars, readVars
  <2>2. CASE ReleaseFree(p)
    <3>1. idx[p] \in Keys /\ idx[p] + 1 \in 1 .. NKeys + 1
      BY <2>2 DEF ReleaseFree, TypeOK
    <3>2. idx' = [idx EXCEPT ![p] = idx[p] + 1]
      BY <2>2 DEF ReleaseFree
    <3>3. idx' \in [Procs -> 1 .. NKeys + 1]
      BY <3>1, <3>2 DEF TypeOK
    <3>4. registered' \in SUBSET Keys /\ denied' \in SUBSET Keys
      BY <2>2, <3>1 DEF ReleaseFree, TypeOK
    <3> QED
      BY <2>2, <3>3, <3>4 DEF ReleaseFree, Go, TypeOK, pinVars, irqVars, keyVars,
         asyncVars, readVars
  <2>3. CASE ReleaseUp(p)
    <3>1. pc[p] = "free" /\ fd[p] # None
      BY <2>3 DEF ReleaseUp, Go, LockInv
    <3>2. button_lock = 0
      BY <3>1 DEF LockInv, Opened
    <3> QED
      BY <2>3, <3>2 DEF ReleaseUp, Go, TypeOK, pinVars, irqVars, keyVars,
         asyncVars, readVars
  <2> QED
    BY <1>3, <2>1, <2>2, <2>3 DEF sixth_drv_close
<1>4. CASE UNCHANGED vars
  BY <1>4 DEF vars, TypeOK, procVars, lockVars, pinVars, irqVars, keyVars,
     asyncVars, readVars
<1> QED
  BY <1>1, <1>2, <1>3, <1>4 DEF Next, SharedStep

\* A step that leaves the descriptors, the semaphore and the lines alone and
\* moves processes only between points outside open and release.
LEMMA QuietStep ==
  ASSUME LockInv, UNCHANGED <<fd, idx, lockVars>>,
         \A p \in Procs :
           \/ pc'[p] = pc[p]
           \/ /\ pc[p] \notin Alone
              /\ pc'[p] \notin Alone \union {"up"}
              /\ pc'[p] # "user" => fd[p] # None
  PROVE  LockInv'
<1>1. UNCHANGED <<fd, idx, button_lock, registered, denied>>
  BY DEF lockVars
<1>2. \A p \in Procs : Opened(p)' <=> Opened(p)
  BY <1>1 DEF Opened, Alone
<1>3. \A p \in Procs : Collected(p)' <=> Collected(p)
  <2>1. \A p \in Procs : Lines(p)' = Lines(p)
    BY <1>1 DEF Lines, Alone
  <2> QED
    BY <1>1, <2>1 DEF Collected
<1>4. AtMostOneOpen'
  BY <1>1, <1>2 DEF LockInv, AtMostOneOpen
<1> QED
  BY <1>1, <1>2, <1>3, <1>4 DEF LockInv, Alone

\* The actions that have nothing to do with open and release.
LEMMA QuietActions ==
  ASSUME LockInv,
         \/ \E k \in Keys : Edge(k)
         \/ TimerLoad
         \/ TimerReport
         \/ \E p \in Procs : TakeSigio(p) \/ Read(p) \/ Poll(p) \/ Fasync(p)
         \/ UNCHANGED vars,
         TypeOK
  PROVE  LockInv'
<1>1. ASSUME UNCHANGED <<procVars, lockVars>> PROVE LockInv'
  BY <1>1, QuietStep DEF procVars
<1>2. CASE TimerReport
  <2>1. \A p \in Procs : \/ pc'[p] = pc[p]
                         \/ pc[p] = "sleep" /\ pc'[p] = "wait"
                         \/ pc[p] = "pollsleep" /\ pc'[p] = "poll"
    BY <1>2 DEF TimerReport, WakeUp, TypeOK
  <2>2. UNCHANGED <<fd, idx, lockVars>>
    BY <1>2 DEF TimerReport
  <2> QED
    BY <2>1, <2>2, QuietStep DEF Alone, LockInv
<1>3. ASSUME NEW p \in Procs, Read(p) PROVE LockInv'
  <2>1. UNCHANGED <<fd, idx, lockVars>>
    BY <1>3 DEF Read, ReadBlocking, ReadNonblock, ReadWait, ReadInterrupted,
       ReadCopy, ReadClear
  <2>2. \A q \in Procs : q # p => pc'[q] = pc[q]
    BY <1>3 DEF Read, ReadBlocking, ReadNonblock, ReadWait, ReadInterrupted,
       ReadCopy, ReadClear, Go, TypeOK
  <2>3. /\ pc[p] \in {"user", "wait", "sleep", "copy", "clear"}
        /\ pc'[p] \in {"user", "wait", "sleep", "copy", "clear"}
        /\ fd[p] # None
    BY <1>3 DEF Read, ReadBlocking, ReadNonblock, ReadWait, ReadInterrupted,
       ReadCopy, ReadClear, Go, TypeOK, OpenFile, LockInv
  <2> QED
    BY <2>1, <2>2, <2>3, QuietStep DEF Alone
<1>4. ASSUME NEW p \in Procs, Poll(p) PROVE LockInv'
  <2>1. UNCHANGED <<fd, idx, lockVars>>
    BY <1>4 DEF Poll, PollStart, PollMask, PollTimeout
  <2>2. \A q \in Procs : q # p => pc'[q] = pc[q]
    BY <1>4 DEF Poll, PollStart, PollMask, PollTimeout, Go, TypeOK
  <2>3. /\ pc[p] \in {"user", "poll", "pollsleep"}
        /\ pc'[p] \in {"user", "poll", "pollsleep"}
        /\ fd[p] # None
    BY <1>4 DEF Poll, PollStart, PollMask, PollTimeout, Go, TypeOK, OpenFile, LockInv
  <2> QED
    BY <2>1, <2>2, <2>3, QuietStep DEF Alone
<1>5. ASSUME NEW k \in Keys, Edge(k) PROVE LockInv'
  BY <1>1, <1>5 DEF Edge
<1>6. CASE TimerLoad
  BY <1>1, <1>6 DEF TimerLoad
<1>7. ASSUME NEW p \in Procs, TakeSigio(p) \/ Fasync(p) PROVE LockInv'
  BY <1>1, <1>7 DEF TakeSigio, Fasync
<1>8. CASE UNCHANGED vars
  BY <1>1, <1>8 DEF vars
<1> QED
  BY <1>2, <1>3, <1>4, <1>5, <1>6, <1>7, <1>8

\* A descriptor inherited or closed without reaching the driver.
LEMMA SharedActions ==
  ASSUME LockInv, TypeOK, NEW p \in Procs, NEW q \in Procs,
         Inherit(p, q) \/ CloseShared(p)
  PROVE  LockInv'
<1>1. CASE Inherit(p, q)
  <2>1. /\ fd' = [fd EXCEPT ![q] = fd[p]] /\ UNCHANGED <<pc, idx, button_lock, registered, denied>>
        /\ pc[p] = "user" /\ fd[p] # None /\ pc[q] = "user" /\ fd[q] = None
    BY <1>1 DEF Inherit, OpenFile, lockVars
  <2>2. Opened(p) /\ Opened(q)' /\ \A r \in Procs \ {q} : Opened(r)' <=> Opened(r)
    BY <2>1 DEF Opened, TypeOK
  <2>3. \A r \in Procs : Collected(r)' <=> Collected(r)
    BY <2>1 DEF Collected, Lines
  <2>4. Collected(q) <=> Collected(p)
    BY <2>1 DEF Collected, Lines
  <2>5. AtMostOneOpen'
    BY <2>1, <2>2 DEF LockInv, AtMostOneOpen, TypeOK
  <2>6. \A r, s \in Procs : pc'[r] \in Alone /\ fd'[s] = fd'[r] => s = r
    BY <2>1 DEF LockInv, Alone, TypeOK
  <2>7. \A r \in Procs : pc'[r] # "user" => fd'[r] # None
    BY <2>1 DEF LockInv, TypeOK
  <2> QED
    BY <2>1, <2>2, <2>3, <2>4, <2>5, <2>6, <2>7 DEF LockInv
<1>2. CASE CloseShared(p)
  <2>1. PICK r \in Procs \ {p} : fd[r] = fd[p]
    BY <1>2 DEF CloseShared, LastReference
  <2>2. /\ fd' = [fd EXCEPT ![p] = None] /\ UNCHANGED <<pc, idx, button_lock, registered, denied>>
        /\ pc[p] = "user" /\ fd[p] # None
    BY <1>2 DEF CloseShared, OpenFile, lockVars
  <2>3. pc[r] # "down"
    BY <2>1, <2>2 DEF LockInv, Alone
  <2>4. /\ ~Opened(p)'
        /\ \A s \in Procs \ {p} : Opened(s)' <=> Opened(s)
        /\ Opened(r)
    BY <2>1, <2>2, <2>3 DEF Opened, TypeOK
  <2>5. \A s \in Procs : Collected(s)' <=> Collected(s)
    BY <2>2 DEF Collected, Lines
  <2>6. AtMostOneOpen'
    BY <2>2, <2>4 DEF LockInv, AtMostOneOpen, TypeOK
  <2>7. \A s, t \in Procs : pc'[s] \in Alone /\ fd'[t] = fd'[s] => t = s
    BY <2>2 DEF LockInv, Alone, TypeOK
  <2>8. \A s \in Procs : pc'[s] # "user" => fd'[s] # None
    BY <2>2 DEF LockInv, TypeOK
  <2> QED
    BY <2>1, <2>2, <2>4, <2>5, <2>6, <2>7, <2>8 DEF LockInv
<1> QED
  BY <1>1, <1>2

\* open: the semaphore admits one file, which then collects the lines in order.
LEMMA OpenActions ==
  ASSUME LockInv, TypeOK, NEW p \in Procs, sixth_drv_open(p)
  PROVE  LockInv'
<1> USE KeysAssumption DEF Keys
<1>1. ASSUME NEW f \in Files, OpenStart(p, f) PROVE LockInv'
  <2>1. /\ fd' = [fd EXCEPT ![p] = f] /\ pc' = [pc EXCEPT ![p] = "down"]
        /\ UNCHANGED <<idx, button_lock, registered, denied>>
        /\ fd[p] = None /\ pc[p] = "user" /\ FreeFile(f)
    BY <1>1 DEF OpenStart, Go, lockVars
  <2>2. \A q \in Procs : Opened(q)' <=> Opened(q)
    BY <2>1 DEF Opened, TypeOK
  <2>3. \A q \in Procs :
          Opened(q) => q # p /\ fd'[q] = fd[q] /\ (Collected(q)' <=> Collected(q))
    BY <2>1 DEF Opened, Collected, Lines, TypeOK
  <2>4. AtMostOneOpen'
    BY <2>2, <2>3 DEF LockInv, AtMostOneOpen
  <2>5. \A q, r \in Procs : pc'[q] \in Alone /\ fd'[r] = fd'[q] => r = q
    BY <2>1 DEF LockInv, Alone, FreeFile, TypeOK
  <2>6. \A q \in Procs : /\ pc'[q] # "user" => fd'[q] # None
                         /\ pc'[q] # "up"
                         /\ pc'[q] \notin {"request", "free"} => idx'[q] = 1
    BY <2>1 DEF LockInv, TypeOK
  <2> QED
    BY <2>1, <2>2, <2>3, <2>4, <2>5, <2>6 DEF LockInv
<1>2. CASE OpenBusy(p)
  <2>1. /\ fd' = [fd EXCEPT ![p] = None] /\ pc' = [pc EXCEPT ![p] = "user"]
        /\ UNCHANGED <<idx, button_lock, registered, denied>>
        /\ pc[p] = "down"
    BY <1>2 DEF OpenBusy, Go, lockVars
  <2>2. \A q \in Procs : Opened(q)' <=> Opened(q)
    BY <2>1 DEF Opened, TypeOK
  <2>3. \A q \in Procs :
          Opened(q) => q # p /\ fd'[q] = fd[q] /\ (Collected(q)' <=> Collected(q))
    BY <2>1 DEF Opened, Collected, Lines, TypeOK
  <2>4. AtMostOneOpen'
    BY <2>2, <2>3 DEF LockInv, AtMostOneOpen
  <2>5. \A q, r \in Procs : pc'[q] \in Alone /\ fd'[r] = fd'[q] => r = q
    BY <2>1 DEF LockInv, Alone, TypeOK
  <2>6. \A q \in Procs : /\ pc'[q] # "user" => fd'[q] # None
                         /\ pc'[q] # "up"
                         /\ pc'[q] \notin {"request", "free"} => idx'[q] = 1
    BY <2>1 DEF LockInv, TypeOK
  <2> QED
    BY <2>1, <2>2, <2>3, <2>4, <2>5, <2>6 DEF LockInv
<1>3. CASE OpenDown(p)
  <2>1. /\ pc' = [pc EXCEPT ![p] = "request"] /\ idx' = [idx EXCEPT ![p] = 1]
        /\ button_lock = 1 /\ button_lock' = 0 /\ UNCHANGED <<fd, registered, denied>>
        /\ pc[p] = "down"
    BY <1>3 DEF OpenDown, Go
  <2>2. /\ \A q \in Procs : ~Opened(q)
        /\ registered = {} /\ denied = {}
    BY <2>1 DEF LockInv
  <2>3. \A q \in Procs : Opened(q)' <=> q = p
    BY <2>1, <2>2 DEF Opened, LockInv, TypeOK
  <2>4. Collected(p)'
    BY <2>1, <2>2 DEF Collected, Lines, TypeOK
  <2>5. AtMostOneOpen'
    BY <2>3 DEF AtMostOneOpen
  <2>6. \A q, r \in Procs : pc'[q] \in Alone /\ fd'[r] = fd'[q] => r = q
    BY <2>1 DEF LockInv, Alone, TypeOK
  <2>7. \A q \in Procs : /\ pc'[q] # "user" => fd'[q] # None
                         /\ pc'[q] # "up"
                         /\ pc'[q] \notin {"request", "free"} => idx'[q] = 1
    BY <2>1 DEF LockInv, TypeOK
  <2> QED
    BY <2>1, <2>2, <2>3, <2>4, <2>5, <2>6, <2>7 DEF LockInv
<1>4. CASE OpenRequest(p)
  <2>1. /\ pc' = [pc EXCEPT ![p] = "request"] /\ idx' = [idx EXCEPT ![p] = idx[p] + 1]
        /\ UNCHANGED <<fd, button_lock>>
        /\ pc[p] = "request" /\ idx[p] \in 1 .. NKeys
        /\ \/ registered' = registered \union {idx[p]} /\ denied' = denied
           \/ denied' = denied \union {idx[p]} /\ registered' = registered
           \/ idx[p] \in registered
    BY <1>4 DEF OpenRequest, Go, TypeOK
  <2>2. pc' = pc
    BY <2>1 DEF TypeOK
  <2>3. Opened(p) /\ \A q \in Procs : Opened(q)' <=> Opened(q)
    BY <2>1, <2>2 DEF Opened, LockInv
  <2>4. /\ denied \subseteq 1 .. (idx[p] - 1)
        /\ registered = (1 .. (idx[p] - 1)) \ denied
    BY <2>1, <2>3 DEF LockInv, Collected, Lines
  <2>5. Collected(p)'
    <3>1. idx[p] \notin registered /\ idx[p] \notin denied
      BY <2>1, <2>4
    <3>2. 1 .. (idx'[p] - 1) = (1 .. (idx[p] - 1)) \union {idx[p]}
      BY <2>1 DEF TypeOK
    <3>3. Lines(p)' = (1 .. (idx[p] - 1)) \union {idx[p]}
      BY <2>1, <2>2, <3>2 DEF Lines
    <3> QED
      BY <2>1, <2>4, <3>1, <3>3 DEF Collected
  <2>6. \A q \in Procs : Opened(q) => q = p
    BY <2>1, <2>3 DEF LockInv, AtMostOneOpen, Alone
  <2>7. AtMostOneOpen'
    BY <2>3, <2>6 DEF AtMostOneOpen
  <2>8. \A q \in Procs : pc'[q] \notin {"request", "free"} => idx'[q] = 1
    BY <2>1, <2>2 DEF LockInv, TypeOK
  <2> QED
    BY <2>1, <2>2, <2>3, <2>5, <2>6, <2>7, <2>8 DEF LockInv, Alone, TypeOK
<1>5. CASE OpenDone(p)
  <2>1. /\ pc' = [pc EXCEPT ![p] = "user"] /\ idx' = [idx EXCEPT ![p] = 1]
        /\ UNCHANGED <<fd, button_lock, registered, denied>>
        /\ pc[p] = "request" /\ idx[p] = NKeys + 1
    BY <1>5 DEF OpenDone, Go, TypeOK, lockVars
  <2>2. Opened(p) /\ \A q \in Procs : Opened(q)' <=> Opened(q)
    BY <2>1 DEF Opened, LockInv, TypeOK
  <2>3. Collected(p)'
    <3>1. (NKeys + 1) - 1 = NKeys
      OBVIOUS
    <3>2. Lines(p) = Keys /\ Lines(p)' = Keys
      BY <2>1, <3>1 DEF Lines, TypeOK
    <3> QED
      BY <2>1, <2>2, <3>2 DEF LockInv, Collected
  <2>4. \A q \in Procs : Opened(q) => q = p
    BY <2>1, <2>2 DEF LockInv, AtMostOneOpen, Alone
  <2>5. AtMostOneOpen'
    BY <2>2, <2>4 DEF AtMostOneOpen
  <2>6. \A q, r \in Procs : pc'[q] \in Alone /\ fd'[r] = fd'[q] => r = q
    BY <2>1 DEF LockInv, Alone, TypeOK
  <2>7. \A q \in Procs : /\ pc'[q] # "user" => fd'[q] # None
                         /\ pc'[q] # "up"
                         /\ pc'[q] \notin {"request", "free"} => idx'[q] = 1
    BY <2>1 DEF LockInv, TypeOK
  <2> QED
    BY <2>1, <2>2, <2>3, <2>4, <2>5, <2>6, <2>7 DEF LockInv
<1> QED
  BY <1>1, <1>2, <1>3, <1>4, <1>5 DEF sixth_drv_open

\* release: the file gives its lines back in order, then the semaphore.
LEMMA CloseActions ==
  ASSUME LockInv, TypeOK, NEW p \in Procs, sixth_drv_close(p)
  PROVE  LockInv'
<1> USE KeysAssumption DEF Keys
<1>1. CASE ReleaseStart(p)
  <2>1. /\ pc' = [pc EXCEPT ![p] = "free"]
        /\ UNCHANGED <<fd, idx, button_lock, registered, denied>>
        /\ pc[p] = "user" /\ fd[p] # None /\ LastReference(p)
    BY <1>1 DEF ReleaseStart, Go, OpenFile, lockVars
  <2>2. Opened(p) /\ \A q \in Procs : Opened(q)' <=> Opened(q)
    BY <2>1 DEF Opened, TypeOK
  <2>3. \A q \in Procs : Opened(q) => q = p
    BY <2>1, <2>2 DEF LockInv, AtMostOneOpen, LastReference
  <2>4. Collected(p)'
    <3>1. Lines(p) = Keys /\ Lines(p)' = Keys
      BY <2>1 DEF LockInv, Lines, TypeOK
    <3> QED
      BY <2>1, <2>2, <3>1 DEF LockInv, Collected
  <2>5. AtMostOneOpen'
    BY <2>2, <2>3 DEF AtMostOneOpen
  <2>6. \A q, r \in Procs : pc'[q] \in Alone /\ fd'[r] = fd'[q] => r = q
    BY <2>1 DEF LockInv, Alone, LastReference, TypeOK
  <2>7. \A q \in Procs : /\ pc'[q] # "user" => fd'[q] # None
                         /\ pc'[q] # "up"
                         /\ pc'[q] \notin {"request", "free"} => idx'[q] = 1
    BY <2>1 DEF LockInv, TypeOK
  <2> QED
    BY <2>1, <2>2, <2>3, <2>4, <2>5, <2>6, <2>7 DEF LockInv
<1>2. CASE ReleaseFree(p)
  <2>1. /\ pc' = [pc EXCEPT ![p] = "free"] /\ idx' = [idx EXCEPT ![p] = idx[p] + 1]
        /\ registered' = registered \ {idx[p]} /\ denied' = denied \ {idx[p]}
        /\ UNCHANGED <<fd, button_lock>>
        /\ pc[p] = "free" /\ idx[p] \in 1 .. NKeys
    BY <1>2 DEF ReleaseFree, Go, TypeOK
  <2>2. pc' = pc
    BY <2>1 DEF TypeOK
  <2>3. Opened(p) /\ \A q \in Procs : Opened(q)' <=> Opened(q)
    BY <2>1, <2>2 DEF Opened, LockInv
  <2>4. Collected(p) /\ Lines(p) = idx[p] .. NKeys
    BY <2>1, <2>3 DEF LockInv, Lines
  <2>5. Collected(p)'
    <3>1. idx'[p] .. NKeys = (idx[p] .. NKeys) \ {idx[p]}
      BY <2>1 DEF TypeOK
    <3>2. Lines(p)' = Lines(p) \ {idx[p]}
      BY <2>1, <2>2, <2>4, <3>1 DEF Lines
    <3> QED
      BY <2>1, <2>4, <3>2 DEF Collected
  <2>6. \A q \in Procs : Opened(q) => q = p
    BY <2>1, <2>3 DEF LockInv, AtMostOneOpen, Alone
  <2>7. AtMostOneOpen'
    BY <2>3, <2>6 DEF AtMostOneOpen
  <2>8. \A q \in Procs : pc'[q] \notin {"request", "free"} => idx'[q] = 1
    BY <2>1, <2>2 DEF LockInv, TypeOK
  <2> QED
    BY <2>1, <2>2, <2>3, <2>5, <2>6, <2>7, <2>8 DEF LockInv, Alone, TypeOK
<1>3. CASE ReleaseUp(p)
  <2>1. /\ fd' = [fd EXCEPT ![p] = None] /\ pc' = [pc EXCEPT ![p] = "user"]
        /\ idx' = [idx EXCEPT ![p] = 1] /\ button_lock' = button_lock + 1
        /\ registered' = registered /\ denied' = denied
        /\ pc[p] = "free" /\ idx[p] = NKeys + 1
    BY <1>3 DEF ReleaseUp, Go, TypeOK
  <2>2. Opened(p)
    BY <2>1 DEF Opened, LockInv
  <2>3. button_lock' = 1 /\ registered' = {} /\ denied' = {}
    BY <2>1, <2>2 DEF LockInv, Collected, Lines, TypeOK
  <2>4. \A q \in Procs : ~Opened(q)'
    <3>1. \A q \in Procs : Opened(q) => q = p
      BY <2>1, <2>2 DEF LockInv, AtMostOneOpen, Alone
    <3> QED
      BY <2>1, <3>1 DEF Opened, TypeOK
  <2>5. \A q, r \in Procs : pc'[q] \in Alone /\ fd'[r] = fd'[q] => r = q
    BY <2>1 DEF LockInv, Alone, TypeOK
  <2>6. \A q \in Procs : /\ pc'[q] # "user" => fd'[q] # None
                         /\ pc'[q] # "up"
                         /\ pc'[q] \notin {"request", "free"} => idx'[q] = 1
    BY <2>1 DEF LockInv, TypeOK
  <2> QED
    BY <2>3, <2>4, <2>5, <2>6 DEF LockInv, AtMostOneOpen
<1> QED
  BY <1>1, <1>2, <1>3 DEF sixth_drv_close

LEMMA LockStep == TypeOK /\ LockInv /\ [Next]_vars => LockInv'
<1> SUFFICES ASSUME TypeOK, LockInv, [Next]_vars PROVE LockInv'
  OBVIOUS
<1>1. CASE Common
  BY <1>1, QuietActions, SharedActions DEF Common
<1>2. ASSUME NEW p \in Procs, sixth_drv_open(p) PROVE LockInv'
  BY <1>2, OpenActions
<1>3. ASSUME NEW p \in Procs, sixth_drv_close(p) PROVE LockInv'
  BY <1>3, CloseActions
<1> QED
  BY <1>1, <1>2, <1>3, QuietActions DEF Next

\* open and release leave the debounce alone.
LEMMA SettledNext == TypeOK /\ SettledInv /\ [Next]_vars => SettledInv'
<1> SUFFICES ASSUME TypeOK, SettledInv, [Next]_vars PROVE SettledInv'
  OBVIOUS
<1>1. \/ \E k \in Keys : Edge(k)
      \/ TimerLoad
      \/ TimerReport
      \/ UNCHANGED <<pinVars, irqVars, key_val>>
  <2>1. CASE Common
    BY <2>1 DEF Common, TakeSigio, Inherit, CloseShared, keyVars
  <2>2. ASSUME NEW p \in Procs, Read(p) \/ Poll(p) \/ Fasync(p)
        PROVE  UNCHANGED <<pinVars, irqVars, key_val>>
    BY <2>2 DEF Read, ReadBlocking, ReadNonblock, ReadWait, ReadInterrupted, ReadCopy,
       ReadClear, Poll, PollStart, PollMask, PollTimeout, Fasync, keyVars
  <2>3. ASSUME NEW p \in Procs, sixth_drv_open(p)
        PROVE  UNCHANGED <<pinVars, irqVars, key_val>>
    BY <2>3 DEF sixth_drv_open, OpenStart, OpenBusy, OpenDown, OpenRequest, OpenDone, keyVars
  <2>4. ASSUME NEW p \in Procs, sixth_drv_close(p)
        PROVE  UNCHANGED <<pinVars, irqVars, key_val>>
    BY <2>4 DEF sixth_drv_close, ReleaseStart, ReleaseFree, ReleaseUp, keyVars
  <2>5. CASE UNCHANGED vars
    BY <2>5 DEF vars, keyVars
  <2> QED
    BY <2>1, <2>2, <2>3, <2>4, <2>5 DEF Next
<1> QED
  BY <1>1, SettledStep

\* Exclusive open is what the event flag needs.
LEMMA ReadNext == TypeOK /\ LockInv /\ ReadInv /\ [Next]_vars => ReadInv'
<1> SUFFICES ASSUME TypeOK, LockInv, ReadInv, [Next]_vars PROVE ReadInv'
  OBVIOUS
<1>0. OneUser
  BY DEF LockInv, AtMostOneOpen, OneUser, User
<1>1. CASE SharedStep
  BY <1>0, <1>1, ReadStep, OtherStep DEF SharedStep
<1>2. ASSUME NEW p \in Procs, sixth_drv_open(p) PROVE ReadInv'
  <2>1. ASSUME NEW f \in Files, OpenStart(p, f) PROVE ReadInv'
    <3>1. ready' = ready \ {p}
      BY <2>1 DEF OpenStart, ReadInv, Promised, readVars
    <3> QED
      BY <2>1, <3>1, OutsideStep DEF OpenStart, Go, Alone, readVars
  <2>2. CASE OpenBusy(p)
    <3>1. \A q \in Procs : fd[q] = fd[p] => q = p
      BY <2>2 DEF OpenBusy, Go, LockInv, Alone
    <3> QED
      BY <2>2, <3>1, OutsideStep DEF OpenBusy, Go, Alone, readVars
  <2>3. CASE OpenDown(p)
    BY <2>3, OutsideStep DEF OpenDown, Go, Alone, readVars, LockInv
  <2>4. CASE OpenRequest(p)
    BY <2>4, OutsideStep DEF OpenRequest, Go, Alone, readVars, LockInv
  <2>5. CASE OpenDone(p)
    BY <2>5, OutsideStep DEF OpenDone, Go, Alone, readVars, LockInv
  <2> QED
    BY <1>2, <2>1, <2>2, <2>3, <2>4, <2>5 DEF sixth_drv_open
<1>3. ASSUME NEW p \in Procs, sixth_drv_close(p) PROVE ReadInv'
  <2>1. CASE ReleaseStart(p)
    BY <2>1, OutsideStep DEF ReleaseStart, OpenFile, Go, Alone
  <2>2. CASE ReleaseFree(p)
    BY <2>2, OutsideStep DEF ReleaseFree, Go, Alone, readVars, LockInv
  <2>3. CASE ReleaseUp(p)
    <3>1. \A q \in Procs : fd[q] = fd[p] => q = p
      BY <2>3 DEF ReleaseUp, Go, LockInv, Alone
    <3> QED
      BY <2>3, <3>1, OutsideStep DEF ReleaseUp, Go, Alone
  <2> QED
    BY <1>3, <2>1, <2>2, <2>3 DEF sixth_drv_close
<1>4. CASE UNCHANGED vars
  BY <1>4 DEF vars, procVars, keyVars, readVars, ReadInv, Placed, Flagged, Fresh, Promised
<1> QED
  BY <1>1, <1>2, <1>3, <1>4 DEF Next, SharedStep

\* In every reachable state of the 3.4.2 driver the variables have their
\* types, and the semaphore, the open file and the lines, granted or denied,
\* belong together.
THEOREM Inductive == Spec => []IInv
<1>1. Init => IInv
  <2> SUFFICES ASSUME Init PROVE IInv
    OBVIOUS
  <2>1. TypeOK
    <3>1. 1 \in 1 .. NKeys + 1 /\ 0 \in 0 .. MaxEdges
      BY KeysAssumption
    <3> QED
      BY <3>1 DEF Init, TypeOK
  <2>2. LockInv
    BY DEF Init, LockInv, AtMostOneOpen, Opened, Alone
  <2>3. SettledInv /\ ReadInv
    BY DEF Init, SettledInv, ReadInv, Placed, Flagged, Fresh, Promised
  <2> QED
    BY <2>1, <2>2, <2>3 DEF IInv
<1>2. IInv /\ [Next]_vars => IInv'
  <2> SUFFICES ASSUME IInv, [Next]_vars PROVE IInv'
    OBVIOUS
  <2>1. LockInv'
    BY LockStep DEF IInv
  <2> QED
    BY <2>1, TypeStep, SettledNext, ReadNext DEF IInv
<1> QED
  BY <1>1, <1>2, PTL DEF Spec

\* open is exclusive: from the moment open has the semaphore until release
\* has returned, no other file of the device gets past it.
THEOREM ExclusiveOpen == Spec => [](TypeOK /\ AtMostOneOpen)
<1>1. IInv => TypeOK /\ AtMostOneOpen
  BY DEF IInv, LockInv
<1> QED
  BY <1>1, Inductive, PTL

\* While a process may read, the handler of every key is installed that
\* request_irq did not deny to its open from outside.
THEOREM LinesWhileOpen == Spec => []OpenHasLines
<1>1. IInv => OpenHasLines
  BY DEF IInv, LockInv, OpenHasLines, Collected, Lines
<1> QED
  BY <1>1, Inductive, PTL

\* No request_irq of open finds its line taken by this driver, and release
\* frees what its own file asked for: lines it got or was denied from outside.
THEOREM MatchedIrqCalls == Spec => []IrqCallsMatch
<1>1. IInv => IrqCallsMatch
  <2> SUFFICES ASSUME IInv, NEW p \in Procs, idx[p] <= NKeys
               PROVE  /\ pc[p] = "request" => idx[p] \notin registered
                      /\ pc[p] = "free" => idx[p] \in registered \union denied
    BY DEF IrqCallsMatch
  <2>1. idx[p] \in Keys
    BY KeysAssumption DEF IInv, TypeOK, Keys
  <2>2. pc[p] \in {"request", "free"} => Collected(p)
    BY DEF IInv, LockInv, Opened
  <2>3. idx[p] \in Int
    BY <2>1 DEF Keys
  <2>4. CASE pc[p] = "request"
    <3>1. registered \subseteq 1 .. idx[p] - 1
      BY <2>2, <2>4 DEF Collected, Lines
    <3> QED
      BY <2>3, <2>4, <3>1
  <2>5. CASE pc[p] = "free"
    <3>1. idx[p] .. NKeys \subseteq registered \union denied
      BY <2>2, <2>5 DEF Collected, Lines
    <3> QED
      BY <2>3, <2>5, <3>1, KeysAssumption
  <2> QED
    BY <2>4, <2>5
<1> QED
  BY <1>1, Inductive, PTL

\* Once bouncing is over the stored value is the level at which the last key
\* settled, whatever interrupts came while the timer function ran.
THEOREM SettlesRight == Spec => []Settled
<1>1. IInv => Settled
  BY SettledEnough DEF IInv
<1> QED
  BY <1>1, Inductive, PTL

\* Nobody takes the event that poll has promised to an unshared file.
THEOREM PollKept == Spec => []ReadyMeansEvent
<1>1. IInv => ReadyMeansEvent
  BY PromisedEnough DEF IInv
<1> QED
  BY <1>1, Inductive, PTL

\* Unless a signal ended its wait, a read of an unshared file copies a value
\* that no read has copied before.
THEOREM ReadsFresh == Spec => FreshReads
<1>1. IInv => [\A p \in Procs :
                 Copies(p) /\ p \notin interrupted /\ fd[p] \notin shared
                   => key_seq > last_read]_vars
  BY FreshEnough DEF IInv
<1> QED
  BY <1>1, Inductive, PTL DEF FreshReads
=============================================================================
