----------------------------- MODULE KeysProofs -----------------------------
(***************************************************************************)
(* What both button drivers owe to the part they share: types, the         *)
(* debounce, and what a read or a poll may conclude from ev_press.  The    *)
(* last needs of open and release only that at most one file has users     *)
(* (OneUser), which each driver's own module proves of its version.        *)
(***************************************************************************)
EXTENDS Keys, TLAPS

\* The points of open and release; a process at one has its file to itself.
Alone == {"down", "request", "up", "free"}

\* p is past the semaphore and has not started to free its lines.
User(p) == Opened(p) /\ pc[p] # "free"

OneUser == \A p, q \in Procs : User(p) /\ User(q) => fd[p] = fd[q]

\* Interrupts, timer, read, poll, fasync and the file table.
SharedStep ==
  \/ Common
  \/ TimerLoad
  \/ TimerReport
  \/ \E p \in Procs : Read(p) \/ Poll(p) \/ Fasync(p)

-----------------------------------------------------------------------------
(* Types *)

\* The shared part keeps every variable in its type.
LEMMA SharedTypes == TypeOK /\ SharedStep => TypeOK'
<1> SUFFICES ASSUME TypeOK, SharedStep PROVE TypeOK'
  OBVIOUS
<1> USE KeysAssumption DEF Keys
<1> DEFINE PCs == {"user", "down", "request", "wait", "sleep", "copy",
                   "clear", "poll", "pollsleep", "free", "up"}
<1>1. CASE Common
  <2>1. ASSUME NEW k \in Keys, Edge(k) PROVE TypeOK'
    <3>1. pin' \in [Keys -> BOOLEAN]
      BY <2>1 DEF Edge, TypeOK
    <3>2. edges' \in 0 .. MaxEdges
      BY <2>1 DEF Edge, TypeOK
    <3>3. irq_pd' \in Keys \union {None} /\ timer' \in BOOLEAN /\ missed' \in SUBSET Keys
      BY <2>1 DEF Edge, buttons_irq, TypeOK
    <3> QED
      BY <2>1, <3>1, <3>2, <3>3 DEF Edge, TypeOK, procVars, lockVars, keyVars,
         asyncVars, readVars
  <2>2. ASSUME NEW p \in Procs, TakeSigio(p) PROVE TypeOK'
    BY <2>2 DEF TakeSigio, TypeOK, procVars, lockVars, pinVars, irqVars,
       keyVars, readVars
  <2>3. ASSUME NEW p \in Procs, NEW q \in Procs, Inherit(p, q) PROVE TypeOK'
    <3>1. fd[p] \in Files
      BY <2>3 DEF Inherit, OpenFile, TypeOK
    <3>2. fd' \in [Procs -> Files \union {None}] /\ shared' \in SUBSET Files
      BY <2>3, <3>1 DEF Inherit, TypeOK
    <3> QED
      BY <2>3, <3>2 DEF Inherit, TypeOK, lockVars, pinVars, irqVars, keyVars, asyncVars
  <2>4. ASSUME NEW p \in Procs, CloseShared(p) PROVE TypeOK'
    BY <2>4 DEF CloseShared, TypeOK, lockVars, pinVars, irqVars, keyVars, asyncVars
  <2> QED
    BY <1>1, <2>1, <2>2, <2>3, <2>4 DEF Common
<1>2. CASE TimerLoad
  BY <1>2 DEF TimerLoad, TypeOK, procVars, lockVars, pinVars, irqVars,
     keyVars, asyncVars, readVars
<1>3. CASE TimerReport
  <2>1. pc' \in [Procs -> PCs]
    BY <1>3 DEF TimerReport, WakeUp, TypeOK
  <2>2. key_val' \in Nat
    BY <1>3 DEF TimerReport, KeyVal, TypeOK
  <2> QED
    BY <1>3, <2>1, <2>2 DEF TimerReport, TypeOK, lockVars, pinVars, readVars
<1>4. ASSUME NEW p \in Procs, Read(p) PROVE TypeOK'
  BY <1>4 DEF Read, ReadBlocking, ReadNonblock, ReadWait, ReadInterrupted,
     ReadCopy, ReadClear, Go, TypeOK, procVars, lockVars, pinVars, irqVars,
     keyVars, asyncVars, readVars
<1>5. ASSUME NEW p \in Procs, Poll(p) PROVE TypeOK'
  BY <1>5 DEF Poll, PollStart, PollMask, PollTimeout, Go, TypeOK, procVars,
     lockVars, pinVars, irqVars, keyVars, asyncVars, readVars
<1>6. ASSUME NEW p \in Procs, Fasync(p) PROVE TypeOK'
  BY <1>6 DEF Fasync, OpenFile, TypeOK, procVars, lockVars, pinVars, irqVars,
     keyVars, asyncVars, readVars
<1> QED
  BY <1>1, <1>2, <1>3, <1>4, <1>5, <1>6 DEF SharedStep

-----------------------------------------------------------------------------
(* The debounce *)

\* Between interrupt and timer the last key's value is on its way: the timer
\* function works on it, or has stored it as the pin is.
SettledInv ==
  ~timer /\ irq_pd \in Keys \ missed
    => IF softirq = None THEN key_val = KeyVal(irq_pd, pin[irq_pd]) ELSE softirq = irq_pd

\* Of all steps only interrupts and the timer function touch the debounce.
LEMMA SettledStep ==
  ASSUME TypeOK, SettledInv,
         \/ \E k \in Keys : Edge(k)
         \/ TimerLoad
         \/ TimerReport
         \/ UNCHANGED <<pinVars, irqVars, key_val>>
  PROVE  SettledInv'
<1>1. ASSUME NEW k \in Keys, Edge(k) PROVE SettledInv'
  <2>1. CASE k \in registered
    BY <1>1, <2>1 DEF Edge, buttons_irq, SettledInv
  <2>2. CASE k \notin registered
    <3>1. /\ UNCHANGED <<irq_pd, timer, softirq, key_val>>
          /\ missed' = missed \union {k}
          /\ pin' = [pin EXCEPT ![k] = ~pin[k]]
      BY <1>1, <2>2 DEF Edge, keyVars
    <3>2. \A j \in Keys : j # k => pin'[j] = pin[j]
      BY <3>1 DEF TypeOK
    <3>3. ASSUME irq_pd \in Keys \ missed' PROVE pin'[irq_pd] = pin[irq_pd]
      BY <3>1, <3>2, <3>3
    <3> QED
      BY <3>1, <3>3 DEF SettledInv, KeyVal
  <2> QED
    BY <2>1, <2>2
<1>2. CASE TimerLoad
  BY <1>2, KeysAssumption DEF TimerLoad, Idle, SettledInv, pinVars, keyVars
<1>3. CASE TimerReport
  BY <1>3 DEF TimerReport, SettledInv, pinVars
<1>4. CASE UNCHANGED <<pinVars, irqVars, key_val>>
  BY <1>4 DEF SettledInv, pinVars, irqVars
<1> QED
  BY <1>1, <1>2, <1>3, <1>4

LEMMA SettledEnough == SettledInv => Settled
BY DEF SettledInv, Settled

-----------------------------------------------------------------------------
(* The event flag *)

\* ev_press stands for a value newer than the last one read, except while a
\* reader that has copied it is about to reset the flag (Flagged); so a reader
\* at its copy has such a value, unless its file is shared or a signal brought
\* it there (Fresh), and what poll promised is kept (Promised).
Placed ==
  /\ \A p \in Procs : pc[p] # "user" => fd[p] # None
  /\ \A p, q \in Procs : p # q /\ fd[p] = fd[q] /\ fd[p] # None => fd[p] \in shared

Flagged ==
  /\ last_read <= key_seq
  /\ ev_press /\ key_seq = last_read => \E q \in Procs : pc[q] = "clear"

Fresh ==
  \A p \in Procs :
    pc[p] = "copy" /\ p \notin interrupted /\ fd[p] \notin shared => key_seq > last_read

Promised ==
  \A p \in ready :
    fd[p] # None /\ pc[p] \notin Alone /\ (fd[p] \notin shared => ev_press)

ReadInv == Placed /\ Flagged /\ Fresh /\ Promised

\* On an unshared file no process but its owner is past the semaphore.
LEMMA OwnerAlone ==
  ASSUME OneUser, Placed, NEW p \in Procs, NEW q \in Procs,
         User(p), User(q), fd[p] \notin shared
  PROVE  p = q
BY DEF OneUser, Placed, User, Opened

\* With ev_press set and nobody at its reset there is a newer value.
LEMMA FlagMeansNewer ==
  ASSUME TypeOK, OneUser, ReadInv, NEW p \in Procs,
         User(p), fd[p] \notin shared, pc[p] # "clear", ev_press
  PROVE  key_seq > last_read
<1>1. \A q \in Procs : pc[q] = "clear" => User(q)
  BY DEF ReadInv, Placed, User, Opened
<1>2. \A q \in Procs : pc[q] # "clear"
  BY <1>1, OwnerAlone DEF ReadInv
<1> QED
  BY <1>2 DEF ReadInv, Flagged, TypeOK

\* Steps of a read.
LEMMA ReadStep ==
  ASSUME TypeOK, OneUser, ReadInv, NEW p \in Procs, Read(p)
  PROVE  ReadInv'
<1> USE DEF ReadInv
<1>0. UNCHANGED <<fd, shared, key_seq>>
  BY DEF Read, ReadBlocking, ReadNonblock, ReadWait, ReadInterrupted, ReadCopy, ReadClear, keyVars, readVars
<1>1. /\ pc[p] \in {"user", "wait", "sleep", "copy", "clear"}
      /\ pc'[p] \in {"user", "wait", "sleep", "copy", "clear"}
      /\ \A q \in Procs : q # p => pc'[q] = pc[q]
      /\ fd[p] # None
  BY DEF Read, ReadBlocking, ReadNonblock, ReadWait, ReadInterrupted, ReadCopy, ReadClear, Go, OpenFile, Placed, TypeOK
<1>2. User(p)
  BY <1>1 DEF User, Opened
<1>3. Placed'
  BY <1>0, <1>1 DEF Placed
<1>4. CASE ReadBlocking(p) \/ ReadNonblock(p) \/ ReadWait(p) \/ ReadInterrupted(p)
  <2>1. UNCHANGED <<ev_press, last_read, ready>> /\ pc[p] # "clear" /\ pc'[p] # "clear"
    BY <1>4 DEF ReadBlocking, ReadNonblock, ReadWait, ReadInterrupted, Go, keyVars, readVars, TypeOK
  <2>2. Flagged'
    BY <1>0, <1>1, <2>1 DEF Flagged
  <2>3. Promised'
    BY <1>0, <1>1, <2>1 DEF Promised, Alone, TypeOK
  <2>4. ASSUME pc'[p] = "copy", p \notin interrupted' PROVE ev_press
    BY <1>4, <2>4 DEF ReadBlocking, ReadNonblock, ReadWait, ReadInterrupted, Go, TypeOK
  <2>5. \A q \in Procs : q # p /\ q \notin interrupted' => q \notin interrupted
    BY <1>4 DEF ReadBlocking, ReadNonblock, ReadWait, ReadInterrupted, readVars
  <2>6. Fresh'
    BY <1>0, <1>1, <1>2, <2>1, <2>4, <2>5, FlagMeansNewer DEF Fresh
  <2> QED
    BY <1>3, <2>2, <2>3, <2>6
<1>5. CASE ReadCopy(p)
  <2>1. /\ UNCHANGED <<ev_press, interrupted, ready>> /\ last_read' = key_seq
        /\ pc[p] = "copy" /\ pc'[p] = "clear"
    BY <1>5 DEF ReadCopy, Go, keyVars, TypeOK
  <2>2. Flagged'
    BY <1>0, <2>1 DEF Flagged, TypeOK
  <2>3. Promised'
    BY <1>0, <1>1, <2>1 DEF Promised, Alone, TypeOK
  <2>4. \A q \in Procs : pc'[q] = "copy" => User(q) /\ q # p /\ pc[q] = "copy"
    BY <1>1, <2>1 DEF User, Opened, Placed
  <2>5. \A q \in Procs : pc'[q] = "copy" => fd[q] \in shared
    BY <1>2, <2>4, OwnerAlone
  <2>6. Fresh'
    BY <1>0, <2>5 DEF Fresh
  <2> QED
    BY <1>3, <2>2, <2>3, <2>6
<1>6. CASE ReadClear(p)
  <2>1. /\ last_read' = last_read /\ interrupted' = interrupted \ {p} /\ ev_press' = FALSE /\ ready' = ready \ {p}
        /\ pc'[p] = "user"
    BY <1>6 DEF ReadClear, Go, TypeOK
  <2>2. Flagged'
    BY <1>0, <2>1 DEF Flagged
  <2>3. \A q \in ready' : User(q) /\ q # p /\ q \in ready /\ pc'[q] = pc[q]
    BY <1>1, <2>1 DEF Promised, User, Opened, Alone, TypeOK
  <2>4. \A q \in ready' : fd[q] \in shared
    BY <1>2, <2>3, OwnerAlone DEF TypeOK
  <2>5. Promised'
    BY <1>0, <2>3, <2>4 DEF Promised
  <2>6. Fresh'
    BY <1>0, <1>1, <2>1 DEF Fresh
  <2> QED
    BY <1>3, <2>2, <2>5, <2>6
<1> QED
  BY <1>4, <1>5, <1>6 DEF Read

\* The other steps of the shared part.
LEMMA OtherStep ==
  ASSUME TypeOK, OneUser, ReadInv,
         \/ Common \/ TimerLoad \/ TimerReport
         \/ \E p \in Procs : Poll(p) \/ Fasync(p)
  PROVE  ReadInv'
<1> USE DEF ReadInv
<1>1. ASSUME UNCHANGED <<fd, pc, shared, key_seq, last_read, ev_press, interrupted, ready>>
      PROVE  ReadInv'
  BY <1>1 DEF Placed, Flagged, Fresh, Promised
<1>2. ASSUME NEW k \in Keys, Edge(k) PROVE ReadInv'
  BY <1>1, <1>2 DEF Edge, procVars, keyVars, readVars
<1>3. ASSUME NEW p \in Procs, TakeSigio(p) \/ Fasync(p) PROVE ReadInv'
  BY <1>1, <1>3 DEF TakeSigio, Fasync, procVars, keyVars, readVars
<1>4. CASE TimerLoad
  BY <1>1, <1>4 DEF TimerLoad, procVars, keyVars, readVars
<1>5. CASE TimerReport
  <2>1. UNCHANGED <<fd, shared, last_read, interrupted, ready>> /\ key_seq' = key_seq + 1 /\ ev_press' = TRUE
    BY <1>5 DEF TimerReport, readVars
  <2>2. \A p \in Procs : \/ pc'[p] = pc[p]
                         \/ pc[p] = "sleep" /\ pc'[p] = "wait"
                         \/ pc[p] = "pollsleep" /\ pc'[p] = "poll"
    BY <1>5 DEF TimerReport, WakeUp, TypeOK
  <2>3. key_seq' > last_read'
    BY <2>1 DEF Flagged, TypeOK
  <2>4. Placed'
    BY <2>1, <2>2 DEF Placed
  <2>5. Promised'
    BY <2>1, <2>2 DEF Promised, Alone, TypeOK
  <2>6. Flagged' /\ Fresh'
    <3>1. key_seq' \in Nat /\ last_read' \in Nat
      BY <2>1 DEF TypeOK
    <3> QED
      BY <2>3, <3>1 DEF Flagged, Fresh
  <2> QED
    BY <2>4, <2>5, <2>6
<1>6. ASSUME NEW p \in Procs, Poll(p) PROVE ReadInv'
  <2>1. /\ UNCHANGED <<fd, shared, key_seq, last_read, ev_press, interrupted>>
        /\ pc[p] \in {"user", "poll", "pollsleep"} /\ pc'[p] \in {"user", "poll", "pollsleep"}
        /\ \A q \in Procs : q # p => pc'[q] = pc[q]
        /\ fd[p] # None
    BY <1>6 DEF Poll, PollStart, PollMask, PollTimeout, Go, OpenFile, Placed, TypeOK, keyVars, readVars
  <2>2. ready' = ready \/ (ready' = ready \union {p} /\ ev_press)
    BY <1>6 DEF Poll, PollStart, PollMask, PollTimeout, readVars
  <2>3. Placed'
    BY <2>1 DEF Placed
  <2>4. Promised'
    BY <2>1, <2>2 DEF Promised, Alone, TypeOK
  <2>5. Flagged'
    BY <2>1 DEF Flagged
  <2>6. Fresh'
    BY <2>1 DEF Fresh
  <2> QED
    BY <2>3, <2>4, <2>5, <2>6
<1>7. ASSUME NEW p \in Procs, NEW q \in Procs, Inherit(p, q) PROVE ReadInv'
  <2>1. /\ UNCHANGED <<pc, key_seq, last_read, ev_press, interrupted, ready>>
        /\ fd[p] # None /\ pc[q] = "user" /\ fd[q] = None
        /\ fd' = [fd EXCEPT ![q] = fd[p]] /\ shared' = shared \union {fd[p]}
    BY <1>7 DEF Inherit, OpenFile, keyVars
  <2>2. fd'[q] = fd[p] /\ \A r \in Procs : r # q => fd'[r] = fd[r]
    BY <2>1 DEF TypeOK
  <2>3. Placed'
    BY <2>1, <2>2 DEF Placed
  <2>4. Promised'
    BY <2>1, <2>2 DEF Promised, TypeOK
  <2>5. Flagged'
    BY <2>1 DEF Flagged
  <2>6. Fresh'
    BY <2>1, <2>2 DEF Fresh
  <2> QED
    BY <2>3, <2>4, <2>5, <2>6
<1>8. ASSUME NEW p \in Procs, CloseShared(p) PROVE ReadInv'
  <2>1. /\ UNCHANGED <<pc, shared, key_seq, last_read, ev_press, interrupted>>
        /\ pc[p] = "user" /\ ready' = ready \ {p}
        /\ fd' = [fd EXCEPT ![p] = None]
    BY <1>8 DEF CloseShared, OpenFile, keyVars
  <2>2. fd'[p] = None /\ \A r \in Procs : r # p => fd'[r] = fd[r]
    BY <2>1 DEF TypeOK
  <2>3. Placed'
    BY <2>1, <2>2 DEF Placed
  <2>4. Promised'
    BY <2>1, <2>2 DEF Promised, TypeOK
  <2>5. Flagged'
    BY <2>1 DEF Flagged
  <2>6. Fresh'
    BY <2>1, <2>2 DEF Fresh
  <2> QED
    BY <2>3, <2>4, <2>5, <2>6
<1> QED
  BY <1>2, <1>3, <1>4, <1>5, <1>6, <1>7, <1>8 DEF Common

\* Steps of open and release, which touch neither the buffer nor the flag: p
\* moves between user and the points of open and release, takes a free file,
\* or drops the file it has to itself.
LEMMA OutsideStep ==
  ASSUME TypeOK, ReadInv, NEW p \in Procs, NEW to \in Alone \union {"user"},
         UNCHANGED <<keyVars, last_read, interrupted>>,
         pc[p] \in Alone \union {"user"},
         pc' = [pc EXCEPT ![p] = to],
         ready' = IF pc[p] = "user" THEN ready \ {p} ELSE ready,
         \/ fd[p] # None /\ UNCHANGED <<fd, shared>>
         \/ /\ \E f \in Files : FreeFile(f) /\ fd' = [fd EXCEPT ![p] = f]
            /\ UNCHANGED shared
         \/ /\ pc[p] \in Alone /\ to = "user"
            /\ fd' = [fd EXCEPT ![p] = None]
            /\ \A q \in Procs : fd[q] = fd[p] => q = p
            /\ shared' \in {shared, shared \ {fd[p]}}
  PROVE  ReadInv'
<1> USE DEF ReadInv
<1>1. UNCHANGED <<ev_press, key_seq>>
  BY DEF keyVars
<1>2. pc'[p] = to /\ \A q \in Procs : q # p => pc'[q] = pc[q]
  BY DEF TypeOK
<1>3. \A q \in Procs : q # p => fd'[q] = fd[q]
  BY DEF TypeOK
<1>4. \A q \in Procs : q # p /\ fd[q] # None => (fd[q] \in shared' <=> fd[q] \in shared)
  OBVIOUS
<1>5. Placed'
  <2>1. \A q \in Procs : pc'[q] # "user" => fd'[q] # None
    BY <1>2, <1>3, KeysAssumption DEF Placed, TypeOK
  <2>2. \A q \in Procs : q # p /\ fd'[q] # None /\ fd'[p] = fd'[q] => fd'[q] \in shared'
    BY <1>3, <1>4 DEF Placed, FreeFile, TypeOK
  <2>3. \A q, r \in Procs : q # p /\ r # p /\ q # r /\ fd'[q] = fd'[r] /\ fd'[q] # None => fd'[q] \in shared'
    BY <1>3, <1>4 DEF Placed
  <2> QED
    BY <2>1, <2>2, <2>3 DEF Placed
<1>6. Flagged'
  <2>1. \A q \in Procs : pc[q] = "clear" => pc'[q] = "clear"
    BY <1>2 DEF Alone
  <2> QED
    BY <1>1, <2>1 DEF Flagged
<1>7. Fresh'
  <2>1. \A q \in Procs : pc'[q] = "copy" => q # p /\ pc[q] = "copy" /\ fd[q] # None
    BY <1>2 DEF Alone, Placed
  <2> QED
    BY <1>1, <1>3, <1>4, <2>1 DEF Fresh
<1>8. Promised'
  <2>1. \A q \in ready' : q # p /\ q \in ready /\ q \in Procs /\ fd[q] # None
    BY DEF Promised, TypeOK
  <2> QED
    BY <1>1, <1>2, <1>3, <1>4, <2>1 DEF Promised
<1> QED
  BY <1>5, <1>6, <1>7, <1>8

LEMMA PromisedEnough == ReadInv => ReadyMeansEvent
BY DEF ReadInv, Promised, ReadyMeansEvent

\* The step formula of FreshReads.
LEMMA FreshEnough ==
  ASSUME ReadInv
  PROVE  \A p \in Procs :
           Copies(p) /\ p \notin interrupted /\ fd[p] \notin shared => key_seq > last_read
BY DEF ReadInv, Fresh, Copies
=============================================================================
