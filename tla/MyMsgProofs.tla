---------------------------- MODULE MyMsgProofs ----------------------------
(***************************************************************************)
(* The ring log implements the log stream, for every ring size and number  *)
(* of readers, when myprintk is only called outside interrupt context.     *)
(*                                                                         *)
(* CursorInWindow and SlotsHoldLog are inductive together once they are    *)
(* told what a reader inside mylog_getc_for_read has in its registers:     *)
(* the cursor, still where it was, and the character under it.             *)
(***************************************************************************)
EXTENDS MyMsg, TLAPS

Loaded ==
  \A p \in Readers :
    pc[p] = "advance" =>
      /\ idx[p] = mylog_r_for_read
      /\ c[p] = mylog_buf[mylog_r_for_read]
      /\ ~is_mylog_empty_for_read
      /\ \A q \in Readers : pc[q] = "advance" => q = p

RingInv == CursorInWindow /\ SlotsHoldLog

IInv == TypeOK /\ RingInv /\ Loaded

\* Advancing an index: the remainder is a case distinction.
LEMMA SuccCases ==
  ASSUME NEW s \in Slots
  PROVE  /\ Succ(s) \in Slots
         /\ Succ(s) = IF s = MYLOG_BUF_LEN - 1 THEN 0 ELSE s + 1
<1>1. CASE s = MYLOG_BUF_LEN - 1
  <2>1. s + 1 = MYLOG_BUF_LEN
    BY <1>1, MyMsgAssumption
  <2>2. MYLOG_BUF_LEN % MYLOG_BUF_LEN = 0
    BY MyMsgAssumption
  <2> QED
    BY <1>1, <2>1, <2>2, MyMsgAssumption DEF Succ, Slots
<1>2. CASE s # MYLOG_BUF_LEN - 1
  <2>1. s + 1 \in 0 .. MYLOG_BUF_LEN - 1
    BY <1>2, MyMsgAssumption DEF Slots
  <2>2. (s + 1) % MYLOG_BUF_LEN = s + 1
    BY <2>1, MyMsgAssumption
  <2> QED
    BY <1>2, <2>1, <2>2 DEF Succ, Slots
<1> QED
  BY <1>1, <1>2

\* Distances round the ring: their range, and what moving an end does.
LEMMA DistFacts ==
  ASSUME NEW a \in Slots, NEW b \in Slots
  PROVE  /\ Dist(a, b) \in 0 .. MYLOG_BUF_LEN - 1
         /\ Dist(a, b) = 0 <=> a = b
         /\ Succ(b) # a => Dist(a, Succ(b)) = Dist(a, b) + 1
         /\ Succ(b) = a <=> Dist(a, b) = MYLOG_BUF_LEN - 1
         /\ a # b => Dist(Succ(a), b) = Dist(a, b) - 1
BY SuccCases, MyMsgAssumption DEF Slots, Dist

\* The full ring's first character is dropped: what lay behind it keeps its
\* distance from the new first slot.
LEMMA DistShift ==
  ASSUME NEW a \in Slots, NEW b \in Slots, NEW s \in Slots
  PROVE  /\ s # a => Dist(Succ(a), s) = Dist(a, s) - 1
         /\ Dist(a, s) <= Dist(a, b) => Dist(s, b) = Dist(a, b) - Dist(a, s)
         /\ Dist(a, s) = Dist(a, b) => s = b
BY SuccCases, MyMsgAssumption DEF Slots, Dist

\* A handler's local variables keep their types.
LEMMA LocalsTyped ==
  ASSUME TypeOK, NEW p \in Readers, NEW n \in Nat, NEW k \in Nat, NEW slot \in Slots,
         NEW ch \in Int, Locals(p, n, k, slot, ch)
  PROVE  /\ count' \in [Readers -> Nat] /\ i' \in [Readers -> Nat]
         /\ idx' \in [Readers -> Slots] /\ c' \in [Readers -> Int]
BY DEF TypeOK, Locals

LEMMA ReturnTyped ==
  ASSUME TypeOK, NEW p \in Readers, Return(p)
  PROVE  /\ count' \in [Readers -> Nat] /\ i' \in [Readers -> Nat]
         /\ idx' \in [Readers -> Slots] /\ c' \in [Readers -> Int]
<1>1. 0 \in Slots
  BY MyMsgAssumption DEF Slots
<1>2. -1 \in Int /\ 0 \in Nat
  OBVIOUS
<1> QED
  BY <1>1, <1>2, LocalsTyped DEF Return

LEMMA TypeStep ==
  ASSUME TypeOK, [Next]_vars
  PROVE  TypeOK'
<1> USE DEF TypeOK
<1>1. CASE mylog_putc
  <2>1. /\ mylog_r' \in Slots /\ mylog_r_for_read' \in Slots /\ mylog_w' \in Slots
    BY <1>1, SuccCases DEF mylog_putc, DropOldest
  <2>2. pc' \in [Readers -> {"closed", "open", "wait", "sleep", "get", "advance", "put"}]
    BY <1>1 DEF mylog_putc, WakeUp
  <2>3. mylog_buf' \in [Slots -> Int] /\ written' \in Nat
    BY <1>1 DEF mylog_putc
  <2> QED
    BY <1>1, <2>1, <2>2, <2>3 DEF mylog_putc
<1>2. ASSUME NEW p \in Readers, mymsg_open(p) PROVE TypeOK'
  <2>1. delivered' \in Int
    BY <1>2, DistFacts DEF mymsg_open, Oldest
  <2> QED
    BY <1>2, <2>1 DEF mymsg_open, Go
<1>3. ASSUME NEW p \in Readers, mymsg_read(p) PROVE TypeOK'
  <2> DEFINE LocalsOK == /\ count' \in [Readers -> Nat] /\ i' \in [Readers -> Nat]
                         /\ idx' \in [Readers -> Slots] /\ c' \in [Readers -> Int]
  <2>0. 0 \in Slots /\ -1 \in Int /\ 0 \in Nat
    BY MyMsgAssumption DEF Slots
  <2>1. ASSUME NEW n \in Counts, ReadCall(p, n) PROVE TypeOK'
    <3>1. LocalsOK
      BY <2>0, <2>1, LocalsTyped, MyMsgAssumption DEF ReadCall
    <3> QED
      BY <2>1, <3>1 DEF ReadCall, Go, ringVars
  <2>2. CASE ReadInterrupted(p) \/ GetcEmpty(p) \/ PutFault(p)
    <3>1. LocalsOK
      BY <2>2, ReturnTyped DEF ReadInterrupted, GetcEmpty, PutFault
    <3> QED
      BY <2>2, <3>1 DEF ReadInterrupted, GetcEmpty, PutFault, Go, ringVars
  <2>3. CASE ReadWait(p) \/ GetcLoad(p)
    BY <2>3 DEF ReadWait, GetcLoad, Go, ringVars
  <2>4. CASE GetcAdvance(p)
    <3>1. LocalsOK
      <4>1. count[p] \in Nat /\ i[p] \in Nat /\ c[p] \in Int
        OBVIOUS
      <4> QED
        BY <2>0, <2>4, <4>1, LocalsTyped, ReturnTyped DEF GetcAdvance
    <3>2. pc' \in [Readers -> {"closed", "open", "wait", "sleep", "get", "advance", "put"}]
      BY <2>4 DEF GetcAdvance, Go
    <3>3. mylog_r_for_read' \in Slots /\ taken' \in Int
      BY <2>4, SuccCases DEF GetcAdvance
    <3>4. robbed' \in SUBSET Readers
      BY <2>4 DEF GetcAdvance
    <3> QED
      BY <2>4, <3>1, <3>2, <3>3, <3>4 DEF GetcAdvance
  <2>5. CASE PutUser(p)
    <3>1. LocalsOK
      <4>1. count[p] \in Nat /\ i[p] + 1 \in Nat
        OBVIOUS
      <4> QED
        BY <2>0, <2>5, <4>1, LocalsTyped DEF PutUser
    <3>2. delivered' \in Int
      BY <2>5 DEF PutUser
    <3> QED
      BY <2>5, <3>1, <3>2 DEF PutUser, Go, ringVars
  <2> QED
    BY <1>3, <2>1, <2>2, <2>3, <2>4, <2>5 DEF mymsg_read
<1>4. ASSUME NEW p \in Readers, Close(p) PROVE TypeOK'
  BY <1>4 DEF Close, Go, ringVars
<1>5. CASE UNCHANGED vars
  BY <1>5 DEF vars, ringVars, readerVars
<1> QED
  BY <1>1, <1>2, <1>3, <1>4, <1>5 DEF Next

\* What a putc does to the ring, seen as distances.
LEMMA PutcRing ==
  ASSUME TypeOK, RingInv, mylog_putc
  PROVE  /\ RingInv'
         /\ Oldest' = IF written - Oldest = MYLOG_BUF_LEN - 1 THEN Oldest + 1 ELSE Oldest
         /\ Cursor' = IF Cursor < Oldest' THEN Oldest' ELSE Cursor
<1> USE MyMsgAssumption DEF TypeOK
<1> DEFINE n == Dist(mylog_r, mylog_w)
           rd == Dist(mylog_r, mylog_r_for_read)
<1>0. /\ mylog_w' = Succ(mylog_w)
      /\ mylog_buf' = [mylog_buf EXCEPT ![mylog_w] = written]
      /\ written' = written + 1
      /\ DropOldest
  BY DEF mylog_putc
<1>1. /\ n \in 0 .. MYLOG_BUF_LEN - 1 /\ rd \in 0 .. n
      /\ Dist(mylog_r_for_read, mylog_w) = n - rd
  BY DistFacts, DistShift DEF RingInv, CursorInWindow
<1>2. CASE is_mylog_full
  <2>1. n = MYLOG_BUF_LEN - 1 /\ Succ(mylog_w) = mylog_r /\ mylog_r' = Succ(mylog_r)
    BY <1>0, <1>2, DistFacts DEF is_mylog_full, DropOldest
  <2>2. mylog_r' \in Slots /\ mylog_w' \in Slots /\ mylog_w' = mylog_r
    BY <1>0, <2>1, SuccCases
  <2>3. Dist(mylog_r', mylog_w') = n
    <3>1. Succ(mylog_w') = mylog_r'
      BY <2>1, <2>2
    <3> QED
      BY <2>1, <2>2, <3>1, DistFacts
  <2>4. mylog_r_for_read' = IF rd = 0 THEN mylog_r' ELSE mylog_r_for_read
    <3>1. Succ(mylog_r_for_read) = Succ(mylog_r) <=> mylog_r_for_read = mylog_r
      <4>1. /\ Succ(mylog_r) = IF mylog_r = MYLOG_BUF_LEN - 1 THEN 0 ELSE mylog_r + 1
            /\ Succ(mylog_r_for_read) = IF mylog_r_for_read = MYLOG_BUF_LEN - 1
                                        THEN 0 ELSE mylog_r_for_read + 1
        BY SuccCases
      <4> QED
        BY <4>1 DEF Slots
    <3>2. rd = 0 <=> mylog_r_for_read = mylog_r
      BY DistFacts
    <3> QED
      BY <1>0, <1>2, <2>1, <3>1, <3>2 DEF DropOldest
  <2>5. Dist(mylog_r', mylog_r_for_read') = IF rd = 0 THEN 0 ELSE rd - 1
    <3>1. CASE rd = 0
      BY <2>2, <2>4, <3>1, DistFacts
    <3>2. CASE rd # 0
      <4>1. mylog_r_for_read # mylog_r
        BY <3>2, DistFacts
      <4> QED
        BY <2>1, <2>4, <3>2, <4>1, DistShift
    <3> QED
      BY <3>1, <3>2
  <2>6. CursorInWindow'
    BY <1>1, <2>3, <2>5 DEF CursorInWindow
  <2>7. Oldest' = Oldest + 1 /\ written - Oldest = MYLOG_BUF_LEN - 1
    BY <1>0, <1>1, <2>1, <2>3 DEF Oldest
  <2>8. Dist(mylog_r_for_read', mylog_w') = IF rd = 0 THEN n ELSE n - rd + 1
    BY <1>1, <2>2, <2>3, <2>4, <2>5, DistShift DEF CursorInWindow
  <2>9. Cursor' = IF Cursor < Oldest' THEN Oldest' ELSE Cursor
    <3>1. Oldest = written - n /\ Cursor = written - (n - rd)
      BY <1>1 DEF Oldest, Cursor
    <3>2. Cursor' = (written + 1) - (IF rd = 0 THEN n ELSE n - rd + 1)
      BY <1>0, <2>8 DEF Cursor
    <3>3. CASE rd = 0
      BY <1>1, <2>7, <3>1, <3>2, <3>3
    <3>4. CASE rd # 0
      BY <1>1, <2>7, <3>1, <3>2, <3>4
    <3> QED
      BY <3>3, <3>4
  <2>10. SlotsHoldLog'
    <3> SUFFICES ASSUME NEW s \in Slots, Dist(mylog_r', s) < Dist(mylog_r', mylog_w')
                 PROVE  mylog_buf'[s] = Oldest' + Dist(mylog_r', s)
      BY DEF SlotsHoldLog
    <3>1. s # mylog_r
      BY <2>1, <2>2, <2>3
    <3>2. Dist(mylog_r', s) = Dist(mylog_r, s) - 1
      BY <2>1, <3>1, DistShift
    <3>3. CASE s = mylog_w
      BY <1>0, <1>1, <2>1, <2>7, <3>2, <3>3 DEF Oldest
    <3>4. CASE s # mylog_w
      <4>1. Dist(mylog_r, s) < n
        BY <1>1, <2>1, <3>4, DistFacts, DistShift
      <4>2. mylog_buf[s] = Oldest + Dist(mylog_r, s)
        BY <4>1 DEF RingInv, SlotsHoldLog
      <4> QED
        BY <1>0, <1>1, <2>7, <3>2, <3>4, <4>2, DistFacts DEF Oldest
    <3> QED
      BY <3>3, <3>4
  <2> QED
    BY <2>6, <2>7, <2>9, <2>10 DEF RingInv
<1>3. CASE ~is_mylog_full
  <2>1. /\ mylog_r' = mylog_r /\ mylog_r_for_read' = mylog_r_for_read
        /\ n < MYLOG_BUF_LEN - 1
    BY <1>0, <1>1, <1>3, DistFacts DEF is_mylog_full, DropOldest
  <2>2. mylog_w' \in Slots /\ Dist(mylog_r', mylog_w') = n + 1
    BY <1>0, <1>3, <2>1, SuccCases, DistFacts DEF is_mylog_full
  <2>3. CursorInWindow'
    BY <1>1, <2>1, <2>2 DEF CursorInWindow
  <2>4. Oldest' = Oldest /\ written - Oldest # MYLOG_BUF_LEN - 1
    BY <1>0, <1>1, <2>1, <2>2 DEF Oldest
  <2>5. Dist(mylog_r_for_read', mylog_w') = n + 1 - rd
    BY <1>1, <2>1, <2>2, DistShift
  <2>6. Cursor' = Cursor /\ Oldest <= Cursor
    BY <1>0, <1>1, <2>5 DEF Cursor, Oldest
  <2>7. SlotsHoldLog'
    <3> SUFFICES ASSUME NEW s \in Slots, Dist(mylog_r, s) < n + 1
                 PROVE  mylog_buf'[s] = Oldest + Dist(mylog_r, s)
      BY <2>1, <2>2, <2>4 DEF SlotsHoldLog
    <3>1. CASE s = mylog_w
      BY <1>0, <1>1, <3>1 DEF Oldest
    <3>2. CASE s # mylog_w
      <4>1. Dist(mylog_r, s) < n
        BY <1>1, <3>2, DistFacts, DistShift
      <4> QED
        BY <1>0, <3>2, <4>1 DEF RingInv, SlotsHoldLog
    <3> QED
      BY <3>1, <3>2
  <2> QED
    BY <1>1, <2>3, <2>4, <2>6, <2>7 DEF RingInv, Oldest, Cursor
<1> QED
  BY <1>2, <1>3

\* The store of the cursor takes exactly the oldest unread character.
LEMMA AdvanceRing ==
  ASSUME TypeOK, RingInv, Loaded, NEW p \in Readers, GetcAdvance(p)
  PROVE  /\ RingInv'
         /\ Cursor < written /\ taken' = Cursor /\ Cursor' = Cursor + 1
         /\ Oldest' = Oldest
<1> USE MyMsgAssumption DEF TypeOK
<1>1. /\ mylog_r_for_read' = Succ(mylog_r_for_read)
      /\ taken' = mylog_buf[mylog_r_for_read]
      /\ mylog_r_for_read # mylog_w
      /\ UNCHANGED <<mylog_buf, mylog_r, mylog_w, written>>
  BY DEF GetcAdvance, Go, Loaded, is_mylog_empty_for_read
<1> DEFINE n == Dist(mylog_r, mylog_w)
           rd == Dist(mylog_r, mylog_r_for_read)
<1>2. /\ n \in 0 .. MYLOG_BUF_LEN - 1 /\ rd \in 0 .. n
      /\ Dist(mylog_r_for_read, mylog_w) = n - rd
  BY DistFacts, DistShift DEF RingInv, CursorInWindow
<1>3. rd < n
  BY <1>1, <1>2, DistFacts
<1>4. Succ(mylog_r_for_read) # mylog_r
  BY <1>2, <1>3, DistFacts
<1>5. Dist(mylog_r, mylog_r_for_read') = rd + 1
  BY <1>1, <1>4, DistFacts
<1>6. Dist(mylog_r_for_read', mylog_w) = n - rd - 1
  BY <1>1, <1>2, DistFacts
<1>7. taken' = Cursor
  <2>1. mylog_buf[mylog_r_for_read] = Oldest + rd
    BY <1>3 DEF RingInv, SlotsHoldLog
  <2> QED
    BY <1>1, <1>2, <2>1 DEF Oldest, Cursor
<1> QED
  BY <1>1, <1>2, <1>3, <1>5, <1>6, <1>7
     DEF RingInv, CursorInWindow, SlotsHoldLog, Oldest, Cursor

\* open moves the cursor to the oldest character.
LEMMA OpenRing ==
  ASSUME TypeOK, RingInv, NEW p \in Readers, mymsg_open(p)
  PROVE  RingInv' /\ Cursor' = Oldest /\ Oldest' = Oldest
<1>1. /\ mylog_r_for_read' = mylog_r
      /\ UNCHANGED <<mylog_buf, mylog_r, mylog_w, written>>
  BY DEF mymsg_open
<1>2. Dist(mylog_r, mylog_r) = 0 /\ Dist(mylog_r, mylog_w) \in Nat
  BY DistFacts, MyMsgAssumption DEF TypeOK
<1> QED
  BY <1>1, <1>2 DEF RingInv, CursorInWindow, SlotsHoldLog, Oldest, Cursor

\* The steps that leave the ring and its history alone.
RingQuiet(p) ==
  \/ \E n \in Counts : ReadCall(p, n)
  \/ ReadWait(p)
  \/ ReadInterrupted(p)
  \/ GetcEmpty(p)
  \/ GetcLoad(p)
  \/ PutUser(p)
  \/ PutFault(p)
  \/ Close(p)

LEMMA QuietRing ==
  ASSUME NEW p \in Readers, RingQuiet(p) PROVE UNCHANGED <<ringVars, written, taken>>
BY DEF RingQuiet, ReadCall, ReadWait, ReadInterrupted, GetcEmpty, GetcLoad,
   PutUser, PutFault, Close

\* Every step does to the ring what one of these cases says.
LEMMA StepCases ==
  ASSUME [Next]_vars
  PROVE  \/ mylog_putc
         \/ \E p \in Readers : mymsg_open(p) \/ GetcAdvance(p) \/ RingQuiet(p)
         \/ UNCHANGED vars
BY DEF Next, mymsg_read, RingQuiet

\* Without callers in interrupt context nothing moves under a reader that is
\* inside getc.
LEMMA LoadedStep ==
  ASSUME TypeOK, Loaded, [Next]_vars, ~IrqCallers
  PROVE  Loaded'
<1> USE DEF TypeOK
<1>1. CASE mylog_putc
  BY <1>1 DEF mylog_putc, NoGetc, WakeUp, Loaded
<1>2. ASSUME NEW p \in Readers, mymsg_open(p) PROVE Loaded'
  BY <1>2 DEF mymsg_open, NoGetc, Go, Loaded
<1>3. ASSUME NEW p \in Readers, GetcAdvance(p) PROVE Loaded'
  BY <1>3 DEF GetcAdvance, Go, Loaded
<1>4. ASSUME NEW p \in Readers, GetcLoad(p) PROVE Loaded'
  <2>1. /\ pc' = [pc EXCEPT ![p] = "advance"]
        /\ \A q \in Readers : pc[q] # "advance"
        /\ idx'[p] = mylog_r_for_read /\ c'[p] = mylog_buf[mylog_r_for_read]
        /\ UNCHANGED <<mylog_buf, mylog_r_for_read, mylog_w>>
        /\ ~is_mylog_empty_for_read
    BY <1>4 DEF GetcLoad, NoGetc, Go, ringVars
  <2> QED
    BY <2>1 DEF Loaded, is_mylog_empty_for_read
<1>5. ASSUME NEW p \in Readers, RingQuiet(p), ~GetcLoad(p) PROVE Loaded'
  <2>1. \A q \in Readers : pc'[q] # "advance"
    BY <1>5 DEF RingQuiet, ReadCall, ReadWait, ReadInterrupted, GetcEmpty,
       PutUser, PutFault, Close, NoGetc, Go
  <2> QED
    BY <2>1 DEF Loaded
<1>6. CASE UNCHANGED vars
  BY <1>6 DEF vars, ringVars, readerVars, Loaded, is_mylog_empty_for_read
<1> QED
  BY <1>1, <1>2, <1>3, <1>4, <1>5, <1>6, StepCases

LEMMA InductiveStep ==
  ASSUME IInv, [Next]_vars, ~IrqCallers
  PROVE  IInv'
<1> USE DEF IInv
<1>1. RingInv'
  <2>1. ASSUME UNCHANGED <<ringVars, written, taken>> PROVE RingInv'
    BY <2>1 DEF ringVars, RingInv, CursorInWindow, SlotsHoldLog, Oldest
  <2>2. UNCHANGED vars => UNCHANGED <<ringVars, written, taken>>
    BY DEF vars
  <2> QED
    BY <2>1, <2>2, StepCases, PutcRing, AdvanceRing, OpenRing, QuietRing
<1> QED
  BY <1>1, TypeStep, LoadedStep

LEMMA InitInv == Init => IInv
<1> SUFFICES ASSUME Init PROVE IInv
  OBVIOUS
<1>1. 0 \in Slots /\ Dist(0, 0) = 0
  BY MyMsgAssumption DEF Slots, Dist
<1>2. TypeOK
  BY <1>1 DEF Init, TypeOK
<1>3. RingInv
  <2>1. \A s \in Slots : ~(Dist(0, s) < 0)
    BY <1>1, DistFacts, MyMsgAssumption
  <2> QED
    BY <1>1, <2>1 DEF Init, RingInv, CursorInWindow, SlotsHoldLog
<1>4. Loaded
  BY DEF Init, Loaded
<1> QED
  BY <1>2, <1>3, <1>4 DEF IInv

\* With no caller in interrupt context the cursor stays between the oldest
\* and the newest character, whatever the size of the ring and the number of
\* readers.
THEOREM RingSafe ==
  ASSUME ~IrqCallers
  PROVE  Spec => [](TypeOK /\ CursorInWindow)
<1>1. IInv /\ [Next]_vars => IInv'
  BY InductiveStep
<1>2. IInv => TypeOK /\ CursorInWindow
  BY DEF IInv, RingInv
<1> QED
  BY InitInv, <1>1, <1>2, PTL DEF Spec

\* Under the same assumption the slots of the window hold the newest
\* characters, in the order mylog_putc was given them, also while readers
\* take some of them.
THEOREM LogKept ==
  ASSUME ~IrqCallers
  PROVE  Spec => []SlotsHoldLog
<1>1. IInv /\ [Next]_vars => IInv'
  BY InductiveStep
<1>2. IInv => SlotsHoldLog
  BY DEF IInv, RingInv
<1> QED
  BY InitInv, <1>1, <1>2, PTL DEF Spec

\* Under the same assumption the driver implements the log stream: each putc
\* is a write, each store of the cursor a read of the oldest unread
\* character, each open a rewind.
THEOREM ImplementsLogStream ==
  ASSUME ~IrqCallers
  PROVE  Spec => IsLogStream
<1>1. Init => Stream!Init
  <2>1. Dist(0, 0) = 0
    BY DEF Dist
  <2> QED
    BY <2>1 DEF Init, Stream!Init, Oldest, Cursor
<1>2. IInv /\ [Next]_vars => [Stream!Next]_(Stream!logVars)
  <2> SUFFICES ASSUME IInv, [Next]_vars PROVE [Stream!Next]_(Stream!logVars)
    OBVIOUS
  <2> USE DEF IInv
  <2>1. CASE mylog_putc
    <3>1. written' = written + 1 /\ taken' = taken
      BY <2>1 DEF mylog_putc
    <3> QED
      BY <2>1, <3>1, PutcRing DEF Stream!Next, Stream!Write
  <2>2. ASSUME NEW p \in Readers, GetcAdvance(p) PROVE Stream!Take
    <3>1. written' = written
      BY <2>2 DEF GetcAdvance
    <3> QED
      BY <2>2, <3>1, AdvanceRing DEF Stream!Take
  <2>3. ASSUME NEW p \in Readers, mymsg_open(p) PROVE Stream!Rewind
    <3>1. written' = written /\ taken' = taken
      BY <2>3 DEF mymsg_open
    <3> QED
      BY <2>3, <3>1, OpenRing DEF Stream!Rewind
  <2>4. ASSUME UNCHANGED <<ringVars, written, taken>> PROVE UNCHANGED Stream!logVars
    BY <2>4 DEF ringVars, Stream!logVars, Oldest, Cursor
  <2>5. UNCHANGED vars => UNCHANGED <<ringVars, written, taken>>
    BY DEF vars
  <2> QED
    BY <2>1, <2>2, <2>3, <2>4, <2>5, StepCases, QuietRing DEF Stream!Next
<1>3. IInv /\ [Next]_vars => IInv'
  BY InductiveStep
<1> QED
  BY InitInv, <1>1, <1>2, <1>3, PTL DEF Spec, IsLogStream, Stream!Spec

\* A reader that has tested the ring and taken nothing yet has a character to
\* take, unless another one took it.
TestedFull ==
  \A p \in Readers \ robbed : pc[p] = "get" /\ i[p] = 0 => ~is_mylog_empty_for_read

\* The ring is empty for reading when the cursor has come to its end.
LEMMA EmptyCursor ==
  ASSUME TypeOK
  PROVE  is_mylog_empty_for_read <=> ~(Cursor < written)
BY DistFacts, MyMsgAssumption DEF TypeOK, is_mylog_empty_for_read, Cursor

\* A putc and an open leave a ring that was not empty for reading so, and a
\* putc makes one that was empty readable.
LEMMA ReadableStays ==
  ASSUME TypeOK, TypeOK', RingInv,
         mylog_putc \/ \E p \in Readers : mymsg_open(p)
  PROVE  ~is_mylog_empty_for_read => ~is_mylog_empty_for_read'
<1>1. /\ written \in Nat /\ Cursor \in Int /\ Oldest \in Int
      /\ Cursor <= written /\ Oldest <= Cursor
  BY DistFacts, DistShift, MyMsgAssumption DEF TypeOK, RingInv, CursorInWindow, Oldest, Cursor
<1>2. is_mylog_empty_for_read' <=> ~(Cursor' < written')
  BY EmptyCursor, DistFacts, MyMsgAssumption DEF TypeOK, is_mylog_empty_for_read, Cursor
<1>3. CASE mylog_putc
  <2>1. written' = written + 1
    BY <1>3 DEF mylog_putc
  <2>2. Oldest' = IF written - Oldest = MYLOG_BUF_LEN - 1 THEN Oldest + 1 ELSE Oldest
    BY <1>3, PutcRing
  <2>3. Cursor' = IF Cursor < Oldest' THEN Oldest' ELSE Cursor
    BY <1>3, PutcRing
  <2>4. Oldest' < written'
    BY <1>1, <2>1, <2>2, MyMsgAssumption
  <2>5. Cursor' < written'
    BY <1>1, <2>1, <2>3, <2>4
  <2> QED
    BY <1>2, <2>5
<1>4. ASSUME NEW p \in Readers, mymsg_open(p), ~is_mylog_empty_for_read
      PROVE  ~is_mylog_empty_for_read'
  <2>1. Cursor' = Oldest /\ written' = written
    BY <1>4, OpenRing DEF mymsg_open
  <2>2. Cursor < written
    BY <1>4, EmptyCursor
  <2> QED
    BY <1>1, <1>2, <2>1, <2>2
<1> QED
  BY <1>3, <1>4

LEMMA TestedFullStep ==
  ASSUME IInv, TypeOK', TestedFull, [Next]_vars
  PROVE  TestedFull'
<1> USE DEF IInv
<1>1. ASSUME UNCHANGED <<mylog_r_for_read, mylog_w, robbed>>,
             \A p \in Readers : pc'[p] = "get" => pc[p] = "get" /\ i'[p] = i[p]
      PROVE  TestedFull'
  BY <1>1 DEF TestedFull, is_mylog_empty_for_read
<1>2. CASE mylog_putc
  <2>1. /\ robbed' = robbed /\ i' = i
        /\ \A p \in Readers : pc'[p] = "get" => pc[p] = "get"
    BY <1>2 DEF mylog_putc, WakeUp
  <2> QED
    BY <1>2, <2>1, ReadableStays DEF TestedFull
<1>3. ASSUME NEW p \in Readers, mymsg_open(p) PROVE TestedFull'
  <2>1. /\ robbed' = robbed /\ i' = i
        /\ \A q \in Readers : pc'[q] = "get" => pc[q] = "get"
    BY <1>3 DEF mymsg_open, Go, TypeOK
  <2> QED
    BY <1>3, <2>1, ReadableStays DEF TestedFull
<1>4. ASSUME NEW p \in Readers, ReadWait(p) PROVE TestedFull'
  <2>1. /\ pc' = [pc EXCEPT ![p] = IF is_mylog_empty_for_read THEN "sleep" ELSE "get"]
        /\ robbed' = robbed \ {p} /\ i' = i
        /\ mylog_r_for_read' = mylog_r_for_read /\ mylog_w' = mylog_w
    BY <1>4 DEF ReadWait, Go, ringVars
  <2> QED
    BY <2>1 DEF TypeOK, TestedFull, is_mylog_empty_for_read
<1>5. ASSUME NEW p \in Readers, GetcAdvance(p) PROVE TestedFull'
  <2>1. robbed' = robbed \union (Readers \ {p}) /\ pc'[p] \in {"put", "open"}
    BY <1>5 DEF GetcAdvance, Go, TypeOK
  <2> QED
    BY <2>1 DEF TestedFull
<1>6. ASSUME NEW p \in Readers, PutUser(p) PROVE TestedFull'
  <2>1. /\ pc' = [pc EXCEPT ![p] = "get"] /\ i' = [i EXCEPT ![p] = i[p] + 1]
        /\ UNCHANGED <<mylog_r_for_read, mylog_w, robbed>>
    BY <1>6 DEF PutUser, Go, Locals, ringVars
  <2>2. i'[p] # 0
    BY <2>1 DEF TypeOK
  <2> QED
    BY <2>1, <2>2 DEF TypeOK, TestedFull, is_mylog_empty_for_read
<1>7. ASSUME NEW p \in Readers, RingQuiet(p), ~ReadWait(p), ~PutUser(p) PROVE TestedFull'
  <2>1. UNCHANGED <<mylog_r_for_read, mylog_w, robbed>>
    BY <1>7 DEF RingQuiet, ReadCall, ReadInterrupted, GetcEmpty, GetcLoad, PutFault, Close,
       ringVars
  <2>2. \A q \in Readers : pc'[q] = "get" => pc[q] = "get" /\ i'[q] = i[q]
    BY <1>7 DEF RingQuiet, ReadCall, ReadInterrupted, GetcEmpty, GetcLoad, PutFault, Close,
       Go, Return, Locals, TypeOK
  <2> QED
    BY <1>1, <2>1, <2>2
<1>8. CASE UNCHANGED vars
  BY <1>1, <1>8 DEF vars, ringVars, readerVars
<1> QED
  BY <1>2, <1>3, <1>4, <1>5, <1>6, <1>7, <1>8, StepCases

\* With no caller in interrupt context, a read of at least one character that
\* found the ring filled does not return 0, which cat takes for the end of
\* the file, unless another reader took the characters: what is logged and
\* dropped meanwhile never leaves it without one.
THEOREM ReadsDeliver ==
  ASSUME ~IrqCallers
  PROVE  Spec => NoFalseEof
<1> DEFINE NoZero ==
      \A p \in Readers \ robbed :
        pc[p] = "get" /\ pc'[p] = "open" /\ count[p] > 0 => i[p] > 0
<1>1. Init => TestedFull
  BY DEF Init, TestedFull
<1>2. IInv /\ [Next]_vars => IInv'
  BY InductiveStep
<1>3. IInv /\ IInv' /\ TestedFull /\ [Next]_vars => TestedFull'
  BY TestedFullStep DEF IInv
<1>4. IInv /\ TestedFull /\ [Next]_vars => [NoZero]_vars
  <2> SUFFICES ASSUME IInv, TestedFull, [Next]_vars,
                      NEW p \in Readers \ robbed, pc[p] = "get", pc'[p] = "open"
               PROVE  i[p] > 0
    OBVIOUS
  <2>1. is_mylog_empty_for_read
    BY DEF Next, IInv, TypeOK, mylog_putc, WakeUp, mymsg_open, Close, mymsg_read, ReadCall,
       ReadWait, ReadInterrupted, GetcEmpty, GetcLoad, GetcAdvance, PutUser, PutFault, Go,
       vars, readerVars
  <2>2. i[p] # 0 /\ i[p] \in Nat
    BY <2>1 DEF TestedFull, IInv, TypeOK
  <2> QED
    BY <2>2
<1> QED
  BY InitInv, <1>1, <1>2, <1>3, <1>4, PTL DEF Spec, NoFalseEof
=============================================================================
