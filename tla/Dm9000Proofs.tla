---------------------------- MODULE Dm9000Proofs ----------------------------
(***************************************************************************)
(* Theorems about Dm9000, for every throttle limit, every size of the      *)
(* receive memory and both chip revisions.                                 *)
(*                                                                         *)
(* The safety properties speak of the moments at which nothing runs        *)
(* (Quiet).  The invariant IInv says what holds in between: how far the    *)
(* count may be from the chip at each statement of dmfe_start_xmit and of  *)
(* the handler, who is on the way to unmask, to wake or to add the timer,  *)
(* and that a packet marked in NSR has been announced.                     *)
(***************************************************************************)
EXTENDS Dm9000, FiniteSetTheorems, TLAPS

-----------------------------------------------------------------------------
(* The inductive invariant *)

\* Packets marked in NSR.
Count == (IF 1 \in nsr THEN 1 ELSE 0) + (IF 2 \in nsr THEN 1 ELSE 0)

\* dmfe_start_xmit has counted a packet that the chip has not got.
Copying == call \in {"xlimit", "xfull", "xstop", "xmask", "xcopy"}

\* What the chip has to send, with the packet being copied.
Owed == out + (IF Copying THEN 1 ELSE 0)

\* dmfe_start_xmit has not stored the count.
Storing == call \in {"xspeed", "xtest", "xload", "xstore"}

\* Where the device is closed, where its timer is off, and what the load of the
\* count and the polls of TCR have established.
Places ==
  /\ ~open => call \in {"idle", "soff"} /\ hpc = "idle" /\ ~timer
  /\ open => call # "soff"
  /\ call = "sfree" => ~timer
  /\ ~open /\ call = "idle" => imr = "off"
  /\ call = "xload" => cnt < 2
  /\ call = "xstore" => cnt <= tmp /\ tmp < 2
  /\ hpc = "rx" => cont < CONT_RX_PKT_CNT
  /\ call \in {"clear", "won", "wcount", "wwake", "oon", "ocount", "odone"} => out = 0

\* MWCMD is selected for the copy, or saved by the handler for it.
Selected == call = "xcopy" => (IF hpc = "idle" THEN index ELSE saved) = "MWCMD"

\* A throttle in force is visible to the timer, the timer is on its way, and
\* who has masked all sources is about to unmask them.
Throttled ==
  /\ imr = "norx" =>
       /\ hpc = "idle"
       /\ cont >= CONT_RX_PKT_CNT \/ lapsed \/ call \in {"xend", "tickmask"}
  /\ open => timer \/ call \in {"tick", "tickmask", "ochip", "oon", "ocount", "odone", "sfree"}
  /\ open /\ hpc = "idle" /\ imr = "off" =>
       call \in {"xcopy", "xzero", "xend", "won", "ochip", "oon"}

\* A high line has been latched.
Latched == High(isr, imr) => irq

\* A packet marked in NSR has raised ISR, or the handler is about to read NSR.
Announced ==
  nsr # {} => \/ "TX" \in isr
              \/ "TX" \in ist /\ hpc \in {"link", "rx", "rxdone", "tx"}

\* A stopped queue has who will wake it.
Woken ==
  open /\ stopped =>
    \/ out > 0
    \/ "TX" \in isr
    \/ "TX" \in ist /\ hpc \notin {"idle", "exit"}
    \/ call \in {"xmask", "xcopy", "wchip", "won", "wcount", "wwake",
                 "ochip", "oon", "ocount", "odone", "sfree"}

\* The count is at most one too low.  While a packet is marked that the count
\* cannot contain, dmfe_tx_done does not subtract it; before the store of the
\* count that is so only when the chip has nothing to send.
NotBehind ==
  /\ Owed <= cnt + 1
  /\ Count <= cnt => Owed + Count <= cnt + 1
  /\ Storing /\ cnt < Count => out = 0

\* At its highest the count has a packet in the chip, marked or being copied.
NotAhead ==
  cnt = 2 => Owed > 0 \/ nsr # {} \/ call \in {"won", "wcount", "oon", "ocount"}

IInv ==
  /\ TypeOK /\ Places /\ Selected /\ Throttled /\ Latched
  /\ Announced /\ Woken /\ NotBehind /\ NotAhead

-----------------------------------------------------------------------------
(* Types *)

\* Every step keeps the types of cont, the packets in the chip and the speed.
LEMMA NumbersTyped ==
  ASSUME IInv, [Next]_vars
  PROVE  /\ cont' \in 0 .. CONT_RX_PKT_CNT
         /\ rxq' \in 0 .. RxRoom
         /\ speed' \in {10, 100}
<1>1. CASE Chip
  BY <1>1, Dm9000Assumption DEF IInv, TypeOK, Sources, Places, Chip, ChipSends,
    ChipReceives, LinkChanges, SetLine, Step, NoChip, driverVars, callVars,
    handlerVars, lineVars, txVars, rxVars
<1>2. CASE IrqEnter
  BY <1>2, Dm9000Assumption DEF IInv, TypeOK, Sources, Places, IrqEnter, SetLine,
    Step, NoChip, driverVars, callVars, handlerVars, lineVars, txVars, rxVars
<1>3. CASE dmfe_interrupt
  BY <1>3, Dm9000Assumption DEF IInv, TypeOK, Sources, Places, dmfe_interrupt,
    IrqAck, IrqLink, dmfe_packet_receive, RxGood, RxBad, RxSqueeze, RxEmpty,
    RxBroken, ChipReset, dmfe_tx_done, TxDoneCounted, TxDoneWaits, TxDoneSent,
    IrqExit, HandlerStep, NoLine, AfterRx, AfterLink, AfterAck, GoTo, SetLine, Step,
    NoChip, driverVars, callVars, handlerVars, lineVars, txVars, rxVars
<1>4. CASE Calls
  BY <1>4, Dm9000Assumption DEF IInv, TypeOK, Sources, Places, Calls, XmitCall,
    TimerCall, WatchdogCall, OpenCall, StopCall, Free, SetLine, Step, NoChip,
    driverVars, callVars, handlerVars, lineVars, txVars, rxVars
<1>5. CASE dmfe_start_xmit
  BY <1>5, Dm9000Assumption DEF IInv, TypeOK, Sources, Places, dmfe_start_xmit,
    XmitSpeed, XmitTest, XmitLoad, XmitStore, XmitLimit, XmitFull, XmitStop, XmitMask,
    XmitCopy, XmitZero,
    XmitEnd, Limit, SetLine, Step, NoChip, driverVars, callVars, handlerVars,
    lineVars, txVars, rxVars
<1>6. CASE dmfe_timer
  BY <1>6, Dm9000Assumption DEF IInv, TypeOK, Sources, Places, dmfe_timer,
    TimerAgain, TimerLifts, TimerUnmasks, SetLine, Step, NoChip, driverVars,
    callVars, handlerVars, lineVars, txVars, rxVars
<1>7. CASE dmfe_timeout
  BY <1>7, Dm9000Assumption DEF IInv, TypeOK, Sources, Places, dmfe_timeout,
    PollClear, PollBusy, ClearCount, TimeoutWakes, dmfe_reset, ResetStops, InitChip,
    Activate, ResetWakes, ChipReset, SetLine, Step, NoChip, driverVars, callVars,
    handlerVars, lineVars, txVars, rxVars
<1>8. CASE dmfe_open
  BY <1>8, Dm9000Assumption DEF IInv, TypeOK, Sources, Places, dmfe_open, InitChip,
    Activate, ClearCount, OpenDone, ChipReset, SetLine, Step, NoChip, driverVars,
    callVars, handlerVars, lineVars, txVars, rxVars
<1>9. CASE dmfe_stop
  BY <1>9, Dm9000Assumption DEF IInv, TypeOK, Sources, Places, dmfe_stop, FreeIrq,
    MaskChip, SetLine, Step, NoChip, driverVars, callVars, handlerVars, lineVars,
    txVars, rxVars
<1>10. CASE UNCHANGED vars
  BY <1>10 DEF IInv, TypeOK, Sources, vars, SetLine, Step, NoChip, driverVars,
    callVars, handlerVars, lineVars, txVars, rxVars
<1> QED BY <1>1, <1>2, <1>3, <1>4, <1>5, <1>6, <1>7, <1>8, <1>9, <1>10 DEF Next, Continue

\* Every step keeps the types of the places of the called function and of the handler.
LEMMA PlacesTyped ==
  ASSUME IInv, [Next]_vars
  PROVE  /\ call' \in CallPlaces
         /\ hpc' \in HandlerPlaces
<1>1. CASE Chip
  BY <1>1 DEF IInv, TypeOK, Sources, CallPlaces, HandlerPlaces, Chip, ChipSends,
    ChipReceives, LinkChanges, SetLine, Step, NoChip, driverVars, callVars,
    handlerVars, lineVars, txVars, rxVars
<1>2. CASE IrqEnter
  BY <1>2 DEF IInv, TypeOK, Sources, CallPlaces, HandlerPlaces, IrqEnter, SetLine,
    Step, NoChip, driverVars, callVars, handlerVars, lineVars, txVars, rxVars
<1>3. CASE dmfe_interrupt
  BY <1>3 DEF IInv, TypeOK, Sources, CallPlaces, HandlerPlaces, dmfe_interrupt,
    IrqAck, IrqLink, dmfe_packet_receive, RxGood, RxBad, RxSqueeze, RxEmpty,
    RxBroken, ChipReset, dmfe_tx_done, TxDoneCounted, TxDoneWaits, TxDoneSent,
    IrqExit, HandlerStep, NoLine, AfterRx, AfterLink, AfterAck, GoTo, SetLine, Step,
    NoChip, driverVars, callVars, handlerVars, lineVars, txVars, rxVars
<1>4. CASE Calls
  BY <1>4 DEF IInv, TypeOK, Sources, CallPlaces, HandlerPlaces, Calls, XmitCall,
    TimerCall, WatchdogCall, OpenCall, StopCall, Free, SetLine, Step, NoChip,
    driverVars, callVars, handlerVars, lineVars, txVars, rxVars
<1>5. CASE dmfe_start_xmit
  BY <1>5 DEF IInv, TypeOK, Sources, CallPlaces, HandlerPlaces, dmfe_start_xmit,
    XmitSpeed, XmitTest, XmitLoad, XmitStore, XmitLimit, XmitFull, XmitStop, XmitMask,
    XmitCopy, XmitZero,
    XmitEnd, Limit, SetLine, Step, NoChip, driverVars, callVars, handlerVars,
    lineVars, txVars, rxVars
<1>6. CASE dmfe_timer
  BY <1>6 DEF IInv, TypeOK, Sources, CallPlaces, HandlerPlaces, dmfe_timer,
    TimerAgain, TimerLifts, TimerUnmasks, SetLine, Step, NoChip, driverVars,
    callVars, handlerVars, lineVars, txVars, rxVars
<1>7. CASE dmfe_timeout
  BY <1>7 DEF IInv, TypeOK, Sources, CallPlaces, HandlerPlaces, dmfe_timeout,
    PollClear, PollBusy, ClearCount, TimeoutWakes, dmfe_reset, ResetStops, InitChip,
    Activate, ResetWakes, ChipReset, SetLine, Step, NoChip, driverVars, callVars,
    handlerVars, lineVars, txVars, rxVars
<1>8. CASE dmfe_open
  BY <1>8 DEF IInv, TypeOK, Sources, CallPlaces, HandlerPlaces, dmfe_open, InitChip,
    Activate, ClearCount, OpenDone, ChipReset, SetLine, Step, NoChip, driverVars,
    callVars, handlerVars, lineVars, txVars, rxVars
<1>9. CASE dmfe_stop
  BY <1>9 DEF IInv, TypeOK, Sources, CallPlaces, HandlerPlaces, dmfe_stop, FreeIrq,
    MaskChip, SetLine, Step, NoChip, driverVars, callVars, handlerVars, lineVars,
    txVars, rxVars
<1>10. CASE UNCHANGED vars
  BY <1>10 DEF IInv, TypeOK, Sources, vars, SetLine, Step, NoChip, driverVars,
    callVars, handlerVars, lineVars, txVars, rxVars
<1> QED BY <1>1, <1>2, <1>3, <1>4, <1>5, <1>6, <1>7, <1>8, <1>9, <1>10 DEF Next, Continue

\* Every step keeps the types of the chip's registers and the copies of them.
LEMMA RegistersTyped ==
  ASSUME IInv, [Next]_vars
  PROVE  /\ ist' \in SUBSET Sources
         /\ isr' \in SUBSET Sources
         /\ nsr' \in SUBSET {1, 2}
         /\ slot' \in {1, 2}
         /\ saved' \in {"MWCMD", "other"}
         /\ index' \in {"MWCMD", "other"}
         /\ imr' \in {"off", "norx", "all"}
<1>1. CASE Chip
  <2>1. CASE ChipSends
    BY <2>1 DEF IInv, TypeOK, Sources, ChipSends, HandlerStep, NoLine, SetLine,
      Step, NoChip, driverVars, callVars, handlerVars, lineVars, txVars, rxVars
  <2>2. CASE ChipReceives
    BY <2>2 DEF IInv, TypeOK, Sources, ChipReceives, HandlerStep, NoLine, SetLine,
      Step, NoChip, driverVars, callVars, handlerVars, lineVars, txVars, rxVars
  <2>3. CASE LinkChanges
    BY <2>3 DEF IInv, TypeOK, Sources, LinkChanges, HandlerStep, NoLine, SetLine,
      Step, NoChip, driverVars, callVars, handlerVars, lineVars, txVars, rxVars
  <2> QED
    BY <1>1, <2>1, <2>2, <2>3 DEF Chip
<1>2. CASE IrqEnter
  BY <1>2 DEF IInv, TypeOK, Sources, IrqEnter, SetLine, Step, NoChip, driverVars,
    callVars, handlerVars, lineVars, txVars, rxVars
<1>3. CASE dmfe_interrupt
  BY <1>3 DEF IInv, TypeOK, Sources, dmfe_interrupt, IrqAck, IrqLink,
    dmfe_packet_receive, RxGood, RxBad, RxSqueeze, RxEmpty, RxBroken, ChipReset,
    dmfe_tx_done, TxDoneCounted, TxDoneWaits, TxDoneSent, IrqExit, HandlerStep,
    NoLine, AfterRx, AfterLink, AfterAck, GoTo, SetLine, Step, NoChip, driverVars,
    callVars, handlerVars, lineVars, txVars, rxVars
<1>4. CASE Calls
  BY <1>4 DEF IInv, TypeOK, Sources, Calls, XmitCall, TimerCall, WatchdogCall,
    OpenCall, StopCall, Free, SetLine, Step, NoChip, driverVars, callVars,
    handlerVars, lineVars, txVars, rxVars
<1>5. CASE dmfe_start_xmit
  BY <1>5 DEF IInv, TypeOK, Sources, dmfe_start_xmit, XmitSpeed, XmitTest, XmitLoad,
    XmitStore,
    XmitLimit, XmitFull, XmitStop, XmitMask, XmitCopy, XmitZero, XmitEnd, Limit,
    SetLine, Step,
    NoChip, driverVars, callVars, handlerVars, lineVars, txVars, rxVars
<1>6. CASE dmfe_timer
  BY <1>6 DEF IInv, TypeOK, Sources, dmfe_timer, TimerAgain, TimerLifts,
    TimerUnmasks, SetLine, Step, NoChip, driverVars, callVars, handlerVars,
    lineVars, txVars, rxVars
<1>7. CASE dmfe_timeout
  BY <1>7 DEF IInv, TypeOK, Sources, dmfe_timeout, PollClear, PollBusy, ClearCount,
    TimeoutWakes, dmfe_reset, ResetStops, InitChip, Activate, ResetWakes, ChipReset,
    SetLine, Step, NoChip, driverVars, callVars, handlerVars, lineVars, txVars,
    rxVars
<1>8. CASE dmfe_open
  BY <1>8 DEF IInv, TypeOK, Sources, dmfe_open, InitChip, Activate, ClearCount,
    OpenDone, ChipReset, SetLine, Step, NoChip, driverVars, callVars, handlerVars,
    lineVars, txVars, rxVars
<1>9. CASE dmfe_stop
  BY <1>9 DEF IInv, TypeOK, Sources, dmfe_stop, FreeIrq, MaskChip, SetLine, Step,
    NoChip, driverVars, callVars, handlerVars, lineVars, txVars, rxVars
<1>10. CASE UNCHANGED vars
  BY <1>10 DEF IInv, TypeOK, Sources, vars, SetLine, Step, NoChip, driverVars,
    callVars, handlerVars, lineVars, txVars, rxVars
<1> QED BY <1>1, <1>2, <1>3, <1>4, <1>5, <1>6, <1>7, <1>8, <1>9, <1>10 DEF Next, Continue

\* Every step keeps the types of the flags.
LEMMA FlagsTyped ==
  ASSUME IInv, [Next]_vars
  PROVE  /\ stopped' \in BOOLEAN
         /\ timer' \in BOOLEAN
         /\ open' \in BOOLEAN
         /\ irq' \in BOOLEAN
         /\ rxen' \in BOOLEAN
         /\ squeezed' \in BOOLEAN
         /\ lapsed' \in BOOLEAN
<1>1. CASE Chip
  BY Zenon, <1>1 DEF IInv, TypeOK, Sources, Chip, ChipSends, ChipReceives,
    LinkChanges, SetLine, Step, NoChip, driverVars, callVars, handlerVars, lineVars,
    txVars, rxVars
<1>2. CASE IrqEnter
  BY Zenon, <1>2 DEF IInv, TypeOK, Sources, IrqEnter, SetLine, Step, NoChip,
    driverVars, callVars, handlerVars, lineVars, txVars, rxVars
<1>3. CASE dmfe_interrupt
  BY Zenon, <1>3 DEF IInv, TypeOK, Sources, dmfe_interrupt, IrqAck, IrqLink,
    dmfe_packet_receive, RxGood, RxBad, RxSqueeze, RxEmpty, RxBroken, ChipReset,
    dmfe_tx_done, TxDoneCounted, TxDoneWaits, TxDoneSent, IrqExit, HandlerStep,
    NoLine, AfterRx, AfterLink, AfterAck, GoTo, SetLine, Step, NoChip, driverVars,
    callVars, handlerVars, lineVars, txVars, rxVars
<1>4. CASE Calls
  BY Zenon, <1>4 DEF IInv, TypeOK, Sources, Calls, XmitCall, TimerCall,
    WatchdogCall, OpenCall, StopCall, Free, SetLine, Step, NoChip, driverVars,
    callVars, handlerVars, lineVars, txVars, rxVars
<1>5. CASE dmfe_start_xmit
  BY Zenon, <1>5 DEF IInv, TypeOK, Sources, dmfe_start_xmit, XmitSpeed, XmitTest,
    XmitLoad,
    XmitStore, XmitLimit, XmitFull, XmitStop, XmitMask, XmitCopy, XmitZero, XmitEnd,
    Limit,
    SetLine, Step, NoChip, driverVars, callVars, handlerVars, lineVars, txVars,
    rxVars
<1>6. CASE dmfe_timer
  BY Zenon, <1>6 DEF IInv, TypeOK, Sources, dmfe_timer, TimerAgain, TimerLifts,
    TimerUnmasks, SetLine, Step, NoChip, driverVars, callVars, handlerVars,
    lineVars, txVars, rxVars
<1>7. CASE dmfe_timeout
  BY Zenon, <1>7 DEF IInv, TypeOK, Sources, dmfe_timeout, PollClear, PollBusy,
    ClearCount, TimeoutWakes, dmfe_reset, ResetStops, InitChip, Activate,
    ResetWakes, ChipReset, SetLine, Step, NoChip, driverVars, callVars, handlerVars,
    lineVars, txVars, rxVars
<1>8. CASE dmfe_open
  BY Zenon, <1>8 DEF IInv, TypeOK, Sources, dmfe_open, InitChip, Activate,
    ClearCount, OpenDone, ChipReset, SetLine, Step, NoChip, driverVars, callVars,
    handlerVars, lineVars, txVars, rxVars
<1>9. CASE dmfe_stop
  BY Zenon, <1>9 DEF IInv, TypeOK, Sources, dmfe_stop, FreeIrq, MaskChip, SetLine,
    Step, NoChip, driverVars, callVars, handlerVars, lineVars, txVars, rxVars
<1>10. CASE UNCHANGED vars
  BY <1>10 DEF IInv, TypeOK, Sources, vars, SetLine, Step, NoChip, driverVars,
    callVars, handlerVars, lineVars, txVars, rxVars
<1> QED BY <1>1, <1>2, <1>3, <1>4, <1>5, <1>6, <1>7, <1>8, <1>9, <1>10 DEF Next, Continue

-----------------------------------------------------------------------------
(* The count of packets *)

\* Cardinality of NSR's marks without the operator.
LEMMA CountIs ==
  ASSUME nsr \in SUBSET {1, 2} PROVE Cardinality(nsr) = Count /\ Count \in 0 .. 2
<1>1. IsFiniteSet({1}) /\ Cardinality({1}) = 1 /\ Cardinality({2}) = 1 BY FS_Singleton
<1>2. CASE nsr = {} BY <1>2, FS_EmptySet DEF Count
<1>3. CASE nsr = {1} BY <1>1, <1>3 DEF Count
<1>4. CASE nsr = {2} BY <1>1, <1>4 DEF Count
<1>5. CASE nsr = {1, 2}
  <2>1. nsr = {1} \cup {2} /\ 2 \notin {1} BY <1>5
  <2>2. Cardinality(nsr) = 2 BY <1>1, <2>1, FS_AddElement
  <2> QED BY <1>5, <2>2 DEF Count
<1> QED BY <1>2, <1>3, <1>4, <1>5

\* What the invariant says about the count, for the lemmas below.
LEMMA Counters ==
  ASSUME IInv
  PROVE  /\ cnt \in 0 .. 2 /\ tmp \in 0 .. 2 /\ out \in Nat
         /\ nsr \in SUBSET {1, 2} /\ slot \in {1, 2}
         /\ Count \in 0 .. 2 /\ (Count = 0 <=> nsr = {})
         /\ Owed = out + (IF Copying THEN 1 ELSE 0)
         /\ NotBehind /\ NotAhead
  BY DEF IInv, TypeOK, Count, Owed

\* What a step of the handler does to the count and the chip: nothing, all
\* cleared, the marked packets subtracted, or the marks lost because they are
\* more than are counted.
LEMMA HandlerCounts ==
  ASSUME IInv, dmfe_interrupt
  PROVE  /\ call' = call /\ tmp' = tmp
         /\ \/ cnt' = cnt /\ out' = out /\ nsr' = nsr
            \/ cnt' = 0 /\ out' = 0 /\ nsr' \in {nsr, {}}
            \/ Count > 0 /\ cnt >= Count /\ cnt' = cnt - Count /\ out' = out /\ nsr' = {}
            \/ (nsr = {} \/ cnt < Count) /\ cnt' = cnt /\ out' = out /\ nsr' = {}
<1>1. Cardinality(nsr) = Count /\ (Count = 0 <=> nsr = {}) /\ Count \in 0 .. 2
  BY CountIs, Counters
<1>2. CASE dmfe_packet_receive
  BY <1>2 DEF dmfe_packet_receive, RxGood, RxBad, RxSqueeze, RxEmpty, RxBroken, ChipReset, HandlerStep, callVars, txVars
<1>3. CASE dmfe_tx_done
  BY <1>1, <1>3 DEF dmfe_tx_done, TxDoneCounted, TxDoneWaits, TxDoneSent, HandlerStep, callVars, txVars
<1>4. CASE IrqAck \/ IrqLink \/ IrqExit
  BY <1>4 DEF IrqAck, IrqLink, IrqExit, HandlerStep, callVars, txVars, driverVars
<1> QED BY <1>2, <1>3, <1>4 DEF dmfe_interrupt

\* Steps that touch neither count nor chip.
LEMMA CountersStay ==
  ASSUME IInv, cnt' = cnt, out' = out, nsr' = nsr,
         Copying' <=> Copying, Storing' => Storing \/ nsr = {},
         call' \in {"won", "wcount", "oon", "ocount"} <=> call \in {"won", "wcount", "oon", "ocount"}
  PROVE  NotBehind' /\ NotAhead'
<1>1. Count' = Count /\ Owed' = Owed BY DEF Count, Owed
<1> QED BY Counters, <1>1 DEF NotBehind, NotAhead

\* Steps that clear the count of a chip that has nothing to send.
LEMMA CountersCleared ==
  ASSUME cnt' = 0, out' = 0, ~Copying', nsr' \in SUBSET {1, 2}
  PROVE  NotBehind' /\ NotAhead'
<1>1. Owed' = 0 BY DEF Owed
<1>2. Count' \in 0 .. 2 BY DEF Count
<1>3. \A c \in 0 .. 2 : c <= 0 => 0 + c <= 0 + 1 OBVIOUS
<1>4. Count' <= 0 => 0 + Count' <= 0 + 1 BY <1>2, <1>3
<1>5. NotBehind' BY <1>1, <1>4 DEF NotBehind
<1>6. NotAhead' BY DEF NotAhead
<1> QED BY <1>5, <1>6

\* The handler.
LEMMA NotBehindInHandler ==
  ASSUME IInv, dmfe_interrupt PROVE NotBehind' /\ NotAhead'
<1>1. call' = call /\ (Copying' <=> Copying) /\ (Storing' <=> Storing)
  BY HandlerCounts DEF Copying, Storing
<1>2. Owed' = out' + (IF Copying THEN 1 ELSE 0) BY <1>1 DEF Owed
<1>3. nsr' = {} => Count' = 0 BY DEF Count
<1>4. CASE cnt' = cnt /\ out' = out /\ nsr' = nsr
  <2>1. Count' = Count BY <1>4 DEF Count
  <2> QED BY Counters, <1>1, <1>2, <1>4, <2>1 DEF NotBehind, NotAhead
<1>5. CASE cnt' = 0 /\ out' = 0 /\ nsr' \in {nsr, {}}
  <2>1. Owed' \in 0 .. 1 BY <1>2, <1>5
  <2>2. Count' \in 0 .. 2 BY CountIs, <1>5, Counters DEF Count
  <2>3. NotAhead' BY <1>5 DEF NotAhead
  <2>5. cnt' = 0 /\ out' = 0 BY <1>5
  <2>6. \A o \in 0 .. 1, c \in 0 .. 2 : o <= 1 /\ (c <= 0 => o + c <= 1) OBVIOUS
  <2>7. Owed' <= 1 /\ (Count' <= 0 => Owed' + Count' <= 1) BY <2>1, <2>2, <2>6
  <2>4. NotBehind' BY <2>5, <2>7 DEF NotBehind
  <2> QED BY <2>3, <2>4
<1>6. CASE Count > 0 /\ cnt >= Count /\ cnt' = cnt - Count /\ out' = out /\ nsr' = {}
  BY Counters, <1>1, <1>2, <1>3, <1>6 DEF NotBehind, NotAhead
<1>7. CASE (nsr = {} \/ cnt < Count) /\ cnt' = cnt /\ out' = out /\ nsr' = {}
  BY Counters, <1>1, <1>2, <1>3, <1>7 DEF NotBehind, NotAhead
<1> QED BY HandlerCounts, <1>4, <1>5, <1>6, <1>7

\* A packet leaves.
LEMMA CountersInChip ==
  ASSUME IInv, ChipSends PROVE NotBehind' /\ NotAhead'
<1>1. /\ out > 0 /\ out' = out - 1 /\ nsr' = nsr \cup {slot}
      /\ cnt' = cnt /\ call' = call
  BY DEF ChipSends, driverVars, callVars
<1>2. Owed' = Owed - 1 /\ (Storing' <=> Storing) BY <1>1, Counters DEF Owed, Copying, Storing
<1>3. Count' \in {Count, Count + 1} BY <1>1, Counters DEF Count
<1>4. NotBehind' BY Counters, <1>1, <1>2, <1>3 DEF NotBehind
<1>5. NotAhead' BY Counters, <1>1 DEF NotAhead
<1> QED BY <1>4, <1>5

\* When a call begins, no packet is marked in NSR: its interrupt would be
\* latched, and the handler goes first.
LEMMA NothingMarked ==
  ASSUME IInv, Free, open PROVE nsr = {}
<1>1. imr # "off" /\ hpc = "idle" /\ ~irq BY DEF IInv, Throttled, Free
<1>2. ~High(isr, imr) BY <1>1 DEF IInv, Latched
<1>3. imr \in {"norx", "all"} /\ isr \in SUBSET Sources BY <1>1 DEF IInv, TypeOK
<1>4. "TX" \in Passed(imr) BY <1>3 DEF Passed, Sources
<1>5. "TX" \notin isr BY <1>2, <1>4 DEF High
<1> QED BY <1>1, <1>5 DEF IInv, Announced

\* Calls begin.
LEMMA CountersInCalls ==
  ASSUME IInv, Calls PROVE NotBehind' /\ NotAhead'
<1>1. cnt' = cnt /\ out' = out /\ nsr' = nsr /\ call = "idle"
      /\ call' \in {"xspeed", "tick", "poll", "ochip", "sfree"}
  BY DEF Calls, XmitCall, TimerCall, WatchdogCall, OpenCall, StopCall, Step, NoChip, driverVars, txVars
<1>2. call' = "xspeed" => nsr = {}
  BY NothingMarked DEF Calls, XmitCall, TimerCall, WatchdogCall, OpenCall, StopCall, Step
<1> QED BY <1>1, <1>2, CountersStay DEF Copying, Storing

\* dmfe_start_xmit: a count that the handler has lowered since it was loaded is
\* stored too high, not too low.
LEMMA CountersInXmit ==
  ASSUME IInv, dmfe_start_xmit PROVE NotBehind' /\ NotAhead'
<1>1. CASE XmitStore
  <2>1. /\ cnt' = tmp + 1 /\ out' = out /\ nsr' = nsr
        /\ call = "xstore" /\ call' = "xlimit" /\ cnt <= tmp /\ tmp < 2
    BY <1>1 DEF XmitStore, Step, NoChip, txVars, IInv, Places
  <2>2. Owed = out /\ Owed' = out + 1 /\ Storing /\ ~Storing' /\ Count' = Count
    BY <2>1, Counters DEF Owed, Copying, Storing, Count
  <2> QED BY Counters, <2>1, <2>2 DEF NotBehind, NotAhead
<1>2. CASE XmitCopy
  <2>1. /\ cnt' = cnt /\ out' = out + 1 /\ nsr' = nsr /\ call = "xcopy" /\ call' = "xzero"
    BY <1>2 DEF XmitCopy, Step, driverVars
  <2>2. Owed = out + 1 /\ Owed' = out + 1 /\ ~Storing' /\ Count' = Count
    BY <2>1, Counters DEF Owed, Copying, Storing, Count
  <2> QED BY Counters, <2>1, <2>2 DEF NotBehind, NotAhead
<1>3. CASE \/ XmitSpeed \/ XmitTest \/ XmitLoad \/ XmitLimit \/ XmitFull
           \/ XmitStop \/ XmitMask \/ XmitZero \/ XmitEnd
  <2>1. cnt' = cnt /\ out' = out /\ nsr' = nsr
    BY <1>3 DEF XmitSpeed, XmitTest, XmitLoad, XmitLimit, XmitFull, XmitStop,
      XmitMask, XmitZero, XmitEnd, Step, NoChip, driverVars, txVars
  <2>2. /\ Copying' <=> Copying
        /\ Storing' => Storing
        /\ call' \in {"won", "wcount", "oon", "ocount"}
             <=> call \in {"won", "wcount", "oon", "ocount"}
    BY <1>3 DEF XmitSpeed, XmitTest, XmitLoad, XmitLimit, XmitFull, XmitStop,
      XmitMask, XmitZero, XmitEnd, Step, Copying, Storing
  <2> QED BY <2>1, <2>2, CountersStay
<1> QED BY <1>1, <1>2, <1>3 DEF dmfe_start_xmit

\* The chip is reset.
LEMMA CountersInInit ==
  ASSUME IInv, NEW from, NEW to \in {"won", "oon"}, InitChip(from, to)
  PROVE  NotBehind' /\ NotAhead'
<1>1. out' = 0 /\ nsr' = {} /\ cnt' = cnt /\ call' = to
  BY DEF InitChip, ChipReset, Step, driverVars
<1>2. Owed' = 0 /\ Count' = 0 BY <1>1 DEF Owed, Count, Copying
<1>3. \A c \in 0 .. 2 : 0 <= c + 1 /\ 0 + 0 <= c + 1 /\ ~(c < 0) OBVIOUS
<1> QED BY Counters, <1>1, <1>2, <1>3 DEF NotBehind, NotAhead

\* The count is cleared after a reset or when TCR is clear.
LEMMA CountersInClear ==
  ASSUME IInv, NEW from \in {"clear", "wcount", "ocount"},
         NEW to \in {"wake", "wwake", "odone"}, ClearCount(from, to)
  PROVE  NotBehind' /\ NotAhead'
<1>1. out' = 0 /\ nsr' = nsr /\ cnt' = 0 /\ call' = to
  BY DEF ClearCount, Step, NoChip, txVars, IInv, Places
<1> QED BY Counters, <1>1, CountersCleared DEF Copying, Storing

\* The chip is activated.
LEMMA CountersInActivate ==
  ASSUME IInv, NEW from \in {"won", "oon"}, NEW to \in {"wcount", "ocount"}, Activate(from, to)
  PROVE  NotBehind' /\ NotAhead'
BY CountersStay DEF Activate, Step, driverVars, txVars, Copying, Storing

\* The timer, stop, and the statements about the queue.
LEMMA CountersInOthers ==
  ASSUME IInv,
         \/ dmfe_timer \/ dmfe_stop
         \/ PollClear \/ PollBusy \/ TimeoutWakes \/ ResetStops \/ ResetWakes \/ OpenDone
  PROVE  NotBehind' /\ NotAhead'
<1>1. cnt' = cnt /\ out' = out /\ nsr' = nsr
  BY DEF dmfe_timer, dmfe_stop, TimerAgain, TimerLifts, TimerUnmasks, FreeIrq, MaskChip,
         PollClear, PollBusy, TimeoutWakes, ResetStops, ResetWakes, OpenDone, NoChip, driverVars, txVars
<1>2. /\ call \notin {"won", "wcount", "oon", "ocount"} /\ ~Copying
      /\ call' \notin {"won", "wcount", "oon", "ocount"} /\ ~Copying' /\ ~Storing'
  BY DEF dmfe_timer, dmfe_stop, TimerAgain, TimerLifts, TimerUnmasks, FreeIrq, MaskChip,
         PollClear, PollBusy, TimeoutWakes, ResetStops, ResetWakes, OpenDone, Step, Copying, Storing
<1> QED BY <1>1, <1>2, CountersStay

\* Every step keeps the count near the chip.
LEMMA CountersKept ==
  ASSUME IInv, [Next]_vars PROVE NotBehind' /\ NotAhead'
<1>1. CASE ChipSends BY <1>1, CountersInChip
<1>2. CASE ChipReceives \/ LinkChanges \/ IrqEnter
  <2>1. cnt' = cnt /\ out' = out /\ nsr' = nsr /\ call' = call
    BY <1>2 DEF ChipReceives, LinkChanges, IrqEnter, driverVars, callVars, txVars
  <2> QED BY <2>1, CountersStay DEF Copying, Storing
<1>3. CASE dmfe_interrupt BY <1>3, NotBehindInHandler
<1>4. CASE Calls BY <1>4, CountersInCalls
<1>5. CASE dmfe_start_xmit BY <1>5, CountersInXmit
<1>6. CASE dmfe_timer \/ dmfe_stop BY <1>6, CountersInOthers
<1>7. CASE dmfe_timeout
  BY <1>7, CountersInOthers, CountersInInit, CountersInActivate, CountersInClear
  DEF dmfe_timeout, dmfe_reset
<1>8. CASE dmfe_open
  BY <1>8, CountersInOthers, CountersInInit, CountersInActivate, CountersInClear
  DEF dmfe_open
<1>9. CASE UNCHANGED vars
  <2>1. cnt' = cnt /\ out' = out /\ nsr' = nsr /\ call' = call
    BY <1>9 DEF vars, driverVars, callVars, txVars
  <2> QED BY <2>1, CountersStay DEF Copying, Storing
<1> QED
  BY <1>1, <1>2, <1>3, <1>4, <1>5, <1>6, <1>7, <1>8, <1>9 DEF Next, Chip, Continue

\* The counters keep their types: the count never passes two, although the
\* store of dmfe_start_xmit does not look at it again.
LEMMA CountersTyped ==
  ASSUME IInv, [Next]_vars
  PROVE  cnt' \in 0 .. 2 /\ tmp' \in 0 .. 2 /\ out' \in Nat
<1>1. CASE Chip
  BY <1>1 DEF IInv, TypeOK, Sources, Places, Chip, ChipSends, ChipReceives,
    LinkChanges, SetLine, Step, NoChip, driverVars, callVars, handlerVars, lineVars,
    txVars, rxVars
<1>2. CASE IrqEnter
  BY <1>2 DEF IInv, TypeOK, Sources, Places, IrqEnter, SetLine, Step, NoChip,
    driverVars, callVars, handlerVars, lineVars, txVars, rxVars
<1>3. CASE dmfe_interrupt
  BY <1>3, HandlerCounts, Counters
<1>4. CASE Calls
  BY <1>4 DEF IInv, TypeOK, Sources, Places, Calls, XmitCall, TimerCall,
    WatchdogCall, OpenCall, StopCall, Free, SetLine, Step, NoChip, driverVars,
    callVars, handlerVars, lineVars, txVars, rxVars
<1>5. CASE dmfe_start_xmit
  BY <1>5 DEF IInv, TypeOK, Sources, Places, dmfe_start_xmit, XmitSpeed, XmitTest,
    XmitLoad,
    XmitStore, XmitLimit, XmitFull, XmitStop, XmitMask, XmitCopy, XmitZero, XmitEnd,
    Limit,
    SetLine, Step, NoChip, driverVars, callVars, handlerVars, lineVars, txVars,
    rxVars
<1>6. CASE dmfe_timer
  BY <1>6 DEF IInv, TypeOK, Sources, Places, dmfe_timer, TimerAgain, TimerLifts,
    TimerUnmasks, SetLine, Step, NoChip, driverVars, callVars, handlerVars,
    lineVars, txVars, rxVars
<1>7. CASE dmfe_timeout
  BY <1>7 DEF IInv, TypeOK, Sources, Places, dmfe_timeout, PollClear, PollBusy,
    ClearCount, TimeoutWakes, dmfe_reset, ResetStops, InitChip, Activate,
    ResetWakes, ChipReset, SetLine, Step, NoChip, driverVars, callVars, handlerVars,
    lineVars, txVars, rxVars
<1>8. CASE dmfe_open
  BY <1>8 DEF IInv, TypeOK, Sources, Places, dmfe_open, InitChip, Activate,
    ClearCount, OpenDone, ChipReset, SetLine, Step, NoChip, driverVars, callVars,
    handlerVars, lineVars, txVars, rxVars
<1>9. CASE dmfe_stop
  BY <1>9 DEF IInv, TypeOK, Sources, Places, dmfe_stop, FreeIrq, MaskChip, SetLine,
    Step, NoChip, driverVars, callVars, handlerVars, lineVars, txVars, rxVars
<1>10. CASE UNCHANGED vars
  BY <1>10 DEF IInv, TypeOK, Sources, vars, SetLine, Step, NoChip, driverVars,
    callVars, handlerVars, lineVars, txVars, rxVars
<1> QED BY <1>1, <1>2, <1>3, <1>4, <1>5, <1>6, <1>7, <1>8, <1>9, <1>10 DEF Next, Continue

-----------------------------------------------------------------------------
(* The other parts of the invariant *)

\* Places: the load of the count finds what the test has seen or less.
LEMMA PlacesKept ==
  ASSUME IInv, [Next]_vars PROVE Places'
<1>1. CASE Chip
  BY <1>1, Dm9000Assumption DEF IInv, TypeOK, Sources, Places, Chip, ChipSends,
    ChipReceives, LinkChanges, SetLine, Step, NoChip, driverVars, callVars,
    handlerVars, lineVars, txVars, rxVars
<1>2. CASE IrqEnter
  BY <1>2, Dm9000Assumption DEF IInv, TypeOK, Sources, Places, IrqEnter, SetLine,
    Step, NoChip, driverVars, callVars, handlerVars, lineVars, txVars, rxVars
<1>3. CASE dmfe_interrupt
  <2>1. CASE IrqAck
    BY <2>1, Dm9000Assumption DEF IInv, TypeOK, Sources, Places, IrqAck, GoTo,
      AfterAck, AfterLink, AfterRx, HandlerStep, NoLine, SetLine, Step, NoChip,
      driverVars, callVars, handlerVars, lineVars, txVars, rxVars
  <2>2. CASE IrqLink
    BY <2>2, Dm9000Assumption DEF IInv, TypeOK, Sources, Places, IrqLink, GoTo,
      AfterLink, AfterRx, HandlerStep, NoLine, SetLine, Step, NoChip, driverVars,
      callVars, handlerVars, lineVars, txVars, rxVars
  <2>3. CASE RxGood
    BY <2>3, Dm9000Assumption DEF IInv, TypeOK, Sources, Places, RxGood,
      HandlerStep, NoLine, SetLine, Step, NoChip, driverVars, callVars, handlerVars,
      lineVars, txVars, rxVars
  <2>4. CASE RxBad
    BY <2>4, Dm9000Assumption DEF IInv, TypeOK, Sources, Places, RxBad, HandlerStep,
      NoLine, SetLine, Step, NoChip, driverVars, callVars, handlerVars, lineVars,
      txVars, rxVars
  <2>5. CASE RxSqueeze
    BY <2>5, Dm9000Assumption DEF IInv, TypeOK, Sources, Places, RxSqueeze, AfterRx,
      HandlerStep, NoLine, SetLine, Step, NoChip, driverVars, callVars, handlerVars,
      lineVars, txVars, rxVars
  <2>6. CASE RxEmpty
    BY <2>6, Dm9000Assumption DEF IInv, TypeOK, Sources, Places, RxEmpty, AfterRx,
      HandlerStep, NoLine, SetLine, Step, NoChip, driverVars, callVars, handlerVars,
      lineVars, txVars, rxVars
  <2>7. CASE RxBroken
    BY <2>7, Dm9000Assumption DEF IInv, TypeOK, Sources, Places, RxBroken,
      ChipReset, HandlerStep, NoLine, SetLine, Step, NoChip, driverVars, callVars,
      handlerVars, lineVars, txVars, rxVars
  <2>8. CASE TxDoneCounted("rxdone", AfterRx)
    BY <1>3, <2>8, HandlerCounts, Counters DEF IInv, Places, TxDoneCounted, HandlerStep, AfterRx,
      callVars, rxVars, lineVars
  <2>9. CASE TxDoneWaits("rxdone", "rxspin")
    BY <2>9, Dm9000Assumption DEF IInv, TypeOK, Sources, Places, TxDoneWaits,
      HandlerStep, NoLine, SetLine, Step, NoChip, driverVars, callVars, handlerVars,
      lineVars, txVars, rxVars
  <2>10. CASE TxDoneSent("rxspin", AfterRx)
    BY <2>10, Dm9000Assumption DEF IInv, TypeOK, Sources, Places, TxDoneSent,
      AfterRx, HandlerStep, NoLine, SetLine, Step, NoChip, driverVars, callVars,
      handlerVars, lineVars, txVars, rxVars
  <2>11. CASE TxDoneCounted("tx", "exit")
    BY <1>3, <2>11, HandlerCounts, Counters DEF IInv, Places, TxDoneCounted, HandlerStep, AfterRx,
      callVars, rxVars, lineVars
  <2>12. CASE TxDoneWaits("tx", "txspin")
    BY <2>12, Dm9000Assumption DEF IInv, TypeOK, Sources, Places, TxDoneWaits,
      HandlerStep, NoLine, SetLine, Step, NoChip, driverVars, callVars, handlerVars,
      lineVars, txVars, rxVars
  <2>13. CASE TxDoneSent("txspin", "exit")
    BY <2>13, Dm9000Assumption DEF IInv, TypeOK, Sources, Places, TxDoneSent,
      AfterRx, HandlerStep, NoLine, SetLine, Step, NoChip, driverVars, callVars,
      handlerVars, lineVars, txVars, rxVars
  <2>14. CASE IrqExit
    BY <2>14, Dm9000Assumption DEF IInv, TypeOK, Sources, Places, IrqExit,
      HandlerStep, NoLine, SetLine, Step, NoChip, driverVars, callVars, handlerVars,
      lineVars, txVars, rxVars
  <2> QED
    BY <1>3, <2>1, <2>2, <2>3, <2>4, <2>5, <2>6, <2>7, <2>8, <2>9, <2>10, <2>11, <2>12, <2>13, <2>14 DEF
      dmfe_interrupt, dmfe_packet_receive, dmfe_tx_done
<1>4. CASE Calls
  BY <1>4, Dm9000Assumption DEF IInv, TypeOK, Sources, Places, Calls, XmitCall,
    TimerCall, WatchdogCall, OpenCall, StopCall, Free, SetLine, Step, NoChip,
    driverVars, callVars, handlerVars, lineVars, txVars, rxVars
<1>5. CASE dmfe_start_xmit
  BY <1>5, Dm9000Assumption DEF IInv, TypeOK, Sources, Places, dmfe_start_xmit,
    XmitSpeed, XmitTest, XmitLoad, XmitStore, XmitLimit, XmitFull, XmitStop, XmitMask,
    XmitCopy, XmitZero,
    XmitEnd, Limit, SetLine, Step, NoChip, driverVars, callVars, handlerVars,
    lineVars, txVars, rxVars
<1>6. CASE dmfe_timer
  BY <1>6, Dm9000Assumption DEF IInv, TypeOK, Sources, Places, dmfe_timer,
    TimerAgain, TimerLifts, TimerUnmasks, SetLine, Step, NoChip, driverVars,
    callVars, handlerVars, lineVars, txVars, rxVars
<1>7. CASE dmfe_timeout
  BY <1>7, Dm9000Assumption DEF IInv, TypeOK, Sources, Places, dmfe_timeout,
    PollClear, PollBusy, ClearCount, TimeoutWakes, dmfe_reset, ResetStops, InitChip,
    Activate, ResetWakes, ChipReset, SetLine, Step, NoChip, driverVars, callVars,
    handlerVars, lineVars, txVars, rxVars
<1>8. CASE dmfe_open
  BY <1>8, Dm9000Assumption DEF IInv, TypeOK, Sources, Places, dmfe_open, InitChip,
    Activate, ClearCount, OpenDone, ChipReset, SetLine, Step, NoChip, driverVars,
    callVars, handlerVars, lineVars, txVars, rxVars
<1>9. CASE dmfe_stop
  BY <1>9, Dm9000Assumption DEF IInv, TypeOK, Sources, Places, dmfe_stop, FreeIrq,
    MaskChip, SetLine, Step, NoChip, driverVars, callVars, handlerVars, lineVars,
    txVars, rxVars
<1>10. CASE UNCHANGED vars
  BY <1>10 DEF IInv, Places, vars, SetLine, Step, NoChip, driverVars, callVars,
    handlerVars, lineVars, txVars, rxVars
<1> QED BY <1>1, <1>2, <1>3, <1>4, <1>5, <1>6, <1>7, <1>8, <1>9, <1>10 DEF Next, Continue

\* Selected: whoever interrupts restores the index.
LEMMA SelectedKept ==
  ASSUME IInv, [Next]_vars PROVE Selected'
<1>1. CASE Chip
  BY <1>1 DEF IInv, Selected, Chip, ChipSends, ChipReceives, LinkChanges, SetLine,
    Step, NoChip, driverVars, callVars, handlerVars, lineVars, txVars, rxVars
<1>2. CASE IrqEnter
  BY <1>2 DEF IInv, Selected, IrqEnter, SetLine, Step, NoChip, driverVars, callVars,
    handlerVars, lineVars, txVars, rxVars
<1>3. CASE dmfe_interrupt
  BY <1>3 DEF IInv, Selected, dmfe_interrupt, IrqAck, IrqLink, dmfe_packet_receive,
    RxGood, RxBad, RxSqueeze, RxEmpty, RxBroken, ChipReset, dmfe_tx_done,
    TxDoneCounted, TxDoneWaits, TxDoneSent, IrqExit, HandlerStep, NoLine, AfterRx,
    AfterLink, AfterAck, GoTo, SetLine, Step, NoChip, driverVars, callVars,
    handlerVars, lineVars, txVars, rxVars
<1>4. CASE Calls
  BY <1>4 DEF IInv, Selected, Calls, XmitCall, TimerCall, WatchdogCall, OpenCall,
    StopCall, Free, SetLine, Step, NoChip, driverVars, callVars, handlerVars,
    lineVars, txVars, rxVars
<1>5. CASE dmfe_start_xmit
  BY <1>5 DEF IInv, Selected, dmfe_start_xmit, XmitSpeed, XmitTest, XmitLoad, XmitStore,
    XmitLimit, XmitFull, XmitStop, XmitMask, XmitCopy, XmitZero, XmitEnd, Limit,
    SetLine, Step,
    NoChip, driverVars, callVars, handlerVars, lineVars, txVars, rxVars
<1>6. CASE dmfe_timer
  BY <1>6 DEF IInv, Selected, dmfe_timer, TimerAgain, TimerLifts, TimerUnmasks,
    SetLine, Step, NoChip, driverVars, callVars, handlerVars, lineVars, txVars,
    rxVars
<1>7. CASE dmfe_timeout
  BY <1>7 DEF IInv, Selected, dmfe_timeout, PollClear, PollBusy, ClearCount,
    TimeoutWakes, dmfe_reset, ResetStops, InitChip, Activate, ResetWakes, ChipReset,
    SetLine, Step, NoChip, driverVars, callVars, handlerVars, lineVars, txVars,
    rxVars
<1>8. CASE dmfe_open
  BY <1>8 DEF IInv, Selected, dmfe_open, InitChip, Activate, ClearCount, OpenDone,
    ChipReset, SetLine, Step, NoChip, driverVars, callVars, handlerVars, lineVars,
    txVars, rxVars
<1>9. CASE dmfe_stop
  BY <1>9 DEF IInv, Selected, dmfe_stop, FreeIrq, MaskChip, SetLine, Step, NoChip,
    driverVars, callVars, handlerVars, lineVars, txVars, rxVars
<1>10. CASE UNCHANGED vars
  BY <1>10 DEF IInv, Selected, vars, SetLine, Step, NoChip, driverVars, callVars,
    handlerVars, lineVars, txVars, rxVars
<1> QED BY <1>1, <1>2, <1>3, <1>4, <1>5, <1>6, <1>7, <1>8, <1>9, <1>10 DEF Next, Continue

\* Throttled: every write of IMR agrees with the throttle's count.
LEMMA ThrottledKept ==
  ASSUME IInv, [Next]_vars PROVE Throttled'
<1>1. CASE Chip
  BY <1>1, Dm9000Assumption DEF IInv, TypeOK, Sources, Throttled, Places, Chip,
    ChipSends, ChipReceives, LinkChanges, SetLine, Step, NoChip, driverVars,
    callVars, handlerVars, lineVars, txVars, rxVars
<1>2. CASE IrqEnter
  BY <1>2, Dm9000Assumption DEF IInv, TypeOK, Sources, Throttled, Places, IrqEnter,
    SetLine, Step, NoChip, driverVars, callVars, handlerVars, lineVars, txVars,
    rxVars
<1>3. CASE dmfe_interrupt
  BY <1>3, Dm9000Assumption DEF IInv, TypeOK, Sources, Throttled, Places,
    dmfe_interrupt, IrqAck, IrqLink, dmfe_packet_receive, RxGood, RxBad, RxSqueeze,
    RxEmpty, RxBroken, ChipReset, dmfe_tx_done, TxDoneCounted, TxDoneWaits,
    TxDoneSent, IrqExit, HandlerStep, NoLine, AfterRx, AfterLink, AfterAck, GoTo,
    SetLine, Step, NoChip, driverVars, callVars, handlerVars, lineVars, txVars,
    rxVars
<1>4. CASE Calls
  BY <1>4, Dm9000Assumption DEF IInv, TypeOK, Sources, Throttled, Places, Calls,
    XmitCall, TimerCall, WatchdogCall, OpenCall, StopCall, Free, SetLine, Step,
    NoChip, driverVars, callVars, handlerVars, lineVars, txVars, rxVars
<1>5. CASE dmfe_start_xmit
  BY <1>5, Dm9000Assumption DEF IInv, TypeOK, Sources, Throttled, Places,
    dmfe_start_xmit, XmitSpeed, XmitTest, XmitLoad, XmitStore, XmitLimit, XmitFull,
    XmitStop, XmitMask,
    XmitCopy, XmitZero, XmitEnd, Limit, SetLine, Step, NoChip, driverVars, callVars,
    handlerVars, lineVars, txVars, rxVars
<1>6. CASE dmfe_timer
  BY <1>6, Dm9000Assumption DEF IInv, TypeOK, Sources, Throttled, Places,
    dmfe_timer, TimerAgain, TimerLifts, TimerUnmasks, SetLine, Step, NoChip,
    driverVars, callVars, handlerVars, lineVars, txVars, rxVars
<1>7. CASE dmfe_timeout
  BY <1>7, Dm9000Assumption DEF IInv, TypeOK, Sources, Throttled, Places,
    dmfe_timeout, PollClear, PollBusy, ClearCount, TimeoutWakes, dmfe_reset,
    ResetStops, InitChip, Activate, ResetWakes, ChipReset, SetLine, Step, NoChip,
    driverVars, callVars, handlerVars, lineVars, txVars, rxVars
<1>8. CASE dmfe_open
  BY <1>8, Dm9000Assumption DEF IInv, TypeOK, Sources, Throttled, Places, dmfe_open,
    InitChip, Activate, ClearCount, OpenDone, ChipReset, SetLine, Step, NoChip,
    driverVars, callVars, handlerVars, lineVars, txVars, rxVars
<1>9. CASE dmfe_stop
  BY <1>9, Dm9000Assumption DEF IInv, TypeOK, Sources, Throttled, Places, dmfe_stop,
    FreeIrq, MaskChip, SetLine, Step, NoChip, driverVars, callVars, handlerVars,
    lineVars, txVars, rxVars
<1>10. CASE UNCHANGED vars
  BY <1>10 DEF IInv, Throttled, vars, SetLine, Step, NoChip, driverVars, callVars,
    handlerVars, lineVars, txVars, rxVars
<1> QED BY <1>1, <1>2, <1>3, <1>4, <1>5, <1>6, <1>7, <1>8, <1>9, <1>10 DEF Next, Continue

\* SetLine latches a rise.
LEMMA RiseLatched ==
  ASSUME Latched, NEW s, NEW m, SetLine(s, m) PROVE Latched'
  BY Zenon DEF Latched, SetLine

\* Steps that leave ISR and IMR alone.
LEMMA LineStays ==
  ASSUME Latched, UNCHANGED lineVars PROVE Latched'
  BY Zenon DEF Latched, High, Passed, lineVars

\* Latched: only the handler takes the latched rise, with all sources masked.
LEMMA LatchedKept ==
  ASSUME IInv, [Next]_vars PROVE Latched'
<1> USE DEF IInv
<1>1. CASE IrqEnter
  <2>1. imr' = "off" BY <1>1 DEF IrqEnter
  <2>2. Passed(imr') = {} BY <2>1 DEF Passed
  <2> QED BY <2>2 DEF Latched, High
<1>2. CASE Chip
  BY <1>2, RiseLatched, LineStays DEF Chip, ChipSends, ChipReceives, LinkChanges,
    NoChip
<1>3. CASE dmfe_interrupt
  BY <1>3, RiseLatched, LineStays DEF dmfe_interrupt, IrqAck, IrqLink,
    dmfe_packet_receive, RxGood, RxBad, RxSqueeze, RxEmpty, RxBroken, ChipReset,
    dmfe_tx_done, TxDoneCounted, TxDoneWaits, TxDoneSent, IrqExit, NoLine, NoChip
<1>4. CASE Calls
  BY <1>4, RiseLatched, LineStays DEF Calls, XmitCall, TimerCall, WatchdogCall,
    OpenCall, StopCall, NoChip
<1>5. CASE dmfe_start_xmit
  BY <1>5, RiseLatched, LineStays DEF dmfe_start_xmit, XmitSpeed, XmitTest, XmitLoad,
    XmitStore, XmitLimit, XmitFull, XmitStop, XmitMask, XmitCopy, XmitZero, XmitEnd,
    NoChip
<1>6. CASE dmfe_timer
  BY <1>6, RiseLatched, LineStays DEF dmfe_timer, TimerAgain, TimerLifts,
    TimerUnmasks, NoChip
<1>7. CASE dmfe_timeout
  BY <1>7, RiseLatched, LineStays DEF dmfe_timeout, PollClear, PollBusy, ClearCount,
    TimeoutWakes, dmfe_reset, ResetStops, InitChip, Activate, ResetWakes, ChipReset,
    NoChip
<1>8. CASE dmfe_open
  BY <1>8, RiseLatched, LineStays DEF dmfe_open, InitChip, Activate, ClearCount,
    OpenDone, ChipReset, NoChip
<1>9. CASE dmfe_stop
  BY <1>9, RiseLatched, LineStays DEF dmfe_stop, FreeIrq, MaskChip, NoChip
<1>10. CASE UNCHANGED vars BY <1>10, LineStays DEF vars
<1> QED BY <1>1, <1>2, <1>3, <1>4, <1>5, <1>6, <1>7, <1>8, <1>9, <1>10 DEF Next, Continue

\* Announced: ISR is cleared before NSR is read.
LEMMA AnnouncedKept ==
  ASSUME IInv, [Next]_vars PROVE Announced'
<1>1. CASE Chip
  BY <1>1 DEF IInv, TypeOK, Sources, Announced, Chip, ChipSends, ChipReceives,
    LinkChanges, SetLine, Step, NoChip, driverVars, callVars, handlerVars, lineVars,
    txVars, rxVars
<1>2. CASE IrqEnter
  BY <1>2 DEF IInv, TypeOK, Sources, Announced, IrqEnter, SetLine, Step, NoChip,
    driverVars, callVars, handlerVars, lineVars, txVars, rxVars
<1>3. CASE dmfe_interrupt
  BY <1>3 DEF IInv, TypeOK, Sources, Announced, dmfe_interrupt, IrqAck, IrqLink,
    dmfe_packet_receive, RxGood, RxBad, RxSqueeze, RxEmpty, RxBroken, ChipReset,
    dmfe_tx_done, TxDoneCounted, TxDoneWaits, TxDoneSent, IrqExit, HandlerStep,
    NoLine, AfterRx, AfterLink, AfterAck, GoTo, SetLine, Step, NoChip, driverVars,
    callVars, handlerVars, lineVars, txVars, rxVars
<1>4. CASE Calls
  BY <1>4 DEF IInv, TypeOK, Sources, Announced, Calls, XmitCall, TimerCall,
    WatchdogCall, OpenCall, StopCall, Free, SetLine, Step, NoChip, driverVars,
    callVars, handlerVars, lineVars, txVars, rxVars
<1>5. CASE dmfe_start_xmit
  BY <1>5 DEF IInv, TypeOK, Sources, Announced, dmfe_start_xmit, XmitSpeed, XmitTest,
    XmitLoad,
    XmitStore, XmitLimit, XmitFull, XmitStop, XmitMask, XmitCopy, XmitZero, XmitEnd,
    Limit,
    SetLine, Step, NoChip, driverVars, callVars, handlerVars, lineVars, txVars,
    rxVars
<1>6. CASE dmfe_timer
  BY <1>6 DEF IInv, TypeOK, Sources, Announced, dmfe_timer, TimerAgain, TimerLifts,
    TimerUnmasks, SetLine, Step, NoChip, driverVars, callVars, handlerVars,
    lineVars, txVars, rxVars
<1>7. CASE dmfe_timeout
  BY <1>7 DEF IInv, TypeOK, Sources, Announced, dmfe_timeout, PollClear, PollBusy,
    ClearCount, TimeoutWakes, dmfe_reset, ResetStops, InitChip, Activate,
    ResetWakes, ChipReset, SetLine, Step, NoChip, driverVars, callVars, handlerVars,
    lineVars, txVars, rxVars
<1>8. CASE dmfe_open
  BY <1>8 DEF IInv, TypeOK, Sources, Announced, dmfe_open, InitChip, Activate,
    ClearCount, OpenDone, ChipReset, SetLine, Step, NoChip, driverVars, callVars,
    handlerVars, lineVars, txVars, rxVars
<1>9. CASE dmfe_stop
  BY <1>9 DEF IInv, TypeOK, Sources, Announced, dmfe_stop, FreeIrq, MaskChip,
    SetLine, Step, NoChip, driverVars, callVars, handlerVars, lineVars, txVars,
    rxVars
<1>10. CASE UNCHANGED vars
  BY <1>10 DEF IInv, Announced, vars, SetLine, Step, NoChip, driverVars, callVars,
    handlerVars, lineVars, txVars, rxVars
<1> QED BY <1>1, <1>2, <1>3, <1>4, <1>5, <1>6, <1>7, <1>8, <1>9, <1>10 DEF Next, Continue

\* Woken: who stops the queue gives the chip a packet or wakes it again.
LEMMA WokenKept ==
  ASSUME IInv, [Next]_vars PROVE Woken'
<1>1. CASE Chip
  BY <1>1 DEF IInv, TypeOK, Sources, Woken, Places, Chip, ChipSends, ChipReceives,
    LinkChanges, SetLine, Step, NoChip, driverVars, callVars, handlerVars, lineVars,
    txVars, rxVars
<1>2. CASE IrqEnter
  BY <1>2 DEF IInv, TypeOK, Sources, Woken, Places, IrqEnter, SetLine, Step, NoChip,
    driverVars, callVars, handlerVars, lineVars, txVars, rxVars
<1>3. CASE dmfe_interrupt
  BY <1>3 DEF IInv, TypeOK, Sources, Woken, Places, dmfe_interrupt, IrqAck, IrqLink,
    dmfe_packet_receive, RxGood, RxBad, RxSqueeze, RxEmpty, RxBroken, ChipReset,
    dmfe_tx_done, TxDoneCounted, TxDoneWaits, TxDoneSent, IrqExit, HandlerStep,
    NoLine, AfterRx, AfterLink, AfterAck, GoTo, SetLine, Step, NoChip, driverVars,
    callVars, handlerVars, lineVars, txVars, rxVars
<1>4. CASE Calls
  BY <1>4 DEF IInv, TypeOK, Sources, Woken, Places, Calls, XmitCall, TimerCall,
    WatchdogCall, OpenCall, StopCall, Free, SetLine, Step, NoChip, driverVars,
    callVars, handlerVars, lineVars, txVars, rxVars
<1>5. CASE dmfe_start_xmit
  <2>1. CASE XmitSpeed \/ XmitTest
    BY <2>1 DEF IInv, TypeOK, Sources, Woken, Places, XmitSpeed, XmitTest, Limit, HandlerStep,
      NoLine, SetLine, Step, NoChip, driverVars, callVars, handlerVars, lineVars,
      txVars, rxVars
  <2>2. CASE XmitLoad
    BY <2>2 DEF IInv, TypeOK, Sources, Woken, Places, XmitLoad, HandlerStep, NoLine,
      SetLine, Step, NoChip, driverVars, callVars, handlerVars, lineVars, txVars,
      rxVars
  <2>3. CASE XmitStore
    BY <2>3 DEF IInv, TypeOK, Sources, Woken, Places, XmitStore, HandlerStep,
      NoLine, SetLine, Step, NoChip, driverVars, callVars, handlerVars, lineVars,
      txVars, rxVars
  <2>4. CASE XmitLimit \/ XmitFull
    BY <2>4 DEF IInv, TypeOK, Sources, Woken, Places, XmitLimit, XmitFull, Limit,
      HandlerStep,
      NoLine, SetLine, Step, NoChip, driverVars, callVars, handlerVars, lineVars,
      txVars, rxVars
  <2>5. CASE XmitStop
    BY <2>5 DEF IInv, TypeOK, Sources, Woken, Places, XmitStop, HandlerStep, NoLine,
      SetLine, Step, NoChip, driverVars, callVars, handlerVars, lineVars, txVars,
      rxVars
  <2>6. CASE XmitMask
    BY <2>6 DEF IInv, TypeOK, Sources, Woken, Places, XmitMask, HandlerStep, NoLine,
      SetLine, Step, NoChip, driverVars, callVars, handlerVars, lineVars, txVars,
      rxVars
  <2>7. CASE XmitCopy
    BY <2>7 DEF IInv, TypeOK, Sources, Woken, Places, XmitCopy, HandlerStep, NoLine,
      SetLine, Step, NoChip, driverVars, callVars, handlerVars, lineVars, txVars,
      rxVars
  <2>8. CASE XmitZero
    BY <2>8 DEF IInv, TypeOK, Sources, Woken, Places, XmitZero, HandlerStep, NoLine,
      SetLine, Step, NoChip, driverVars, callVars, handlerVars, lineVars, txVars,
      rxVars
  <2>9. CASE XmitEnd
    BY <2>9 DEF IInv, TypeOK, Sources, Woken, Places, XmitEnd, HandlerStep, NoLine,
      SetLine, Step, NoChip, driverVars, callVars, handlerVars, lineVars, txVars,
      rxVars
  <2> QED
    BY <1>5, <2>1, <2>2, <2>3, <2>4, <2>5, <2>6, <2>7, <2>8, <2>9 DEF dmfe_start_xmit
<1>6. CASE dmfe_timer
  BY <1>6 DEF IInv, TypeOK, Sources, Woken, Places, dmfe_timer, TimerAgain,
    TimerLifts, TimerUnmasks, SetLine, Step, NoChip, driverVars, callVars,
    handlerVars, lineVars, txVars, rxVars
<1>7. CASE dmfe_timeout
  BY <1>7 DEF IInv, TypeOK, Sources, Woken, Places, dmfe_timeout, PollClear,
    PollBusy, ClearCount, TimeoutWakes, dmfe_reset, ResetStops, InitChip, Activate,
    ResetWakes, ChipReset, SetLine, Step, NoChip, driverVars, callVars, handlerVars,
    lineVars, txVars, rxVars
<1>8. CASE dmfe_open
  BY <1>8 DEF IInv, TypeOK, Sources, Woken, Places, dmfe_open, InitChip, Activate,
    ClearCount, OpenDone, ChipReset, SetLine, Step, NoChip, driverVars, callVars,
    handlerVars, lineVars, txVars, rxVars
<1>9. CASE dmfe_stop
  BY <1>9 DEF IInv, TypeOK, Sources, Woken, Places, dmfe_stop, FreeIrq, MaskChip,
    SetLine, Step, NoChip, driverVars, callVars, handlerVars, lineVars, txVars,
    rxVars
<1>10. CASE UNCHANGED vars
  BY <1>10 DEF IInv, Woken, vars, SetLine, Step, NoChip, driverVars, callVars,
    handlerVars, lineVars, txVars, rxVars
<1> QED BY <1>1, <1>2, <1>3, <1>4, <1>5, <1>6, <1>7, <1>8, <1>9, <1>10 DEF Next, Continue

-----------------------------------------------------------------------------
(* Theorems *)

\* The invariant holds before dmfe_open.
LEMMA InitInv == Init => IInv
<1> SUFFICES ASSUME Init PROVE IInv OBVIOUS
<1>1. TypeOK
  <2>1. /\ cont \in 0 .. CONT_RX_PKT_CNT /\ rxq \in 0 .. RxRoom
        /\ cnt \in 0 .. 2 /\ tmp \in 0 .. 2 /\ out \in Nat
    BY Dm9000Assumption DEF Init
  <2>2. /\ speed \in {10, 100} /\ slot \in {1, 2} /\ nsr \in SUBSET {1, 2}
        /\ call \in CallPlaces /\ hpc \in HandlerPlaces
    BY DEF Init, CallPlaces, HandlerPlaces
  <2> QED BY Zenon, <2>1, <2>2 DEF Init, TypeOK, Sources
<1>2. Count = 0 /\ Owed = 0 BY DEF Init, Count, Owed, Copying
<1>3. NotBehind /\ NotAhead BY <1>2 DEF Init, NotBehind, NotAhead
<1>4. Places /\ Selected /\ Throttled BY DEF Init, Places, Selected, Throttled
<1>5. Latched BY DEF Init, Latched, High
<1>6. Announced /\ Woken BY DEF Init, Announced, Woken
<1> QED BY <1>1, <1>3, <1>4, <1>5, <1>6 DEF IInv

\* Every step keeps it.
LEMMA NextInv == IInv /\ [Next]_vars => IInv'
<1> SUFFICES ASSUME IInv, [Next]_vars PROVE IInv' OBVIOUS
<1>1. TypeOK'
  BY NumbersTyped, PlacesTyped, RegistersTyped, FlagsTyped, CountersTyped DEF TypeOK
<1> QED
  BY <1>1, PlacesKept, SelectedKept, ThrottledKept, LatchedKept, AnnouncedKept, WokenKept,
     CountersKept DEF IInv

\* The invariant is one of the specification.
THEOREM Inductive == Spec => []IInv
  BY InitInv, NextInv, PTL DEF Spec

\* Every variable keeps its type; tx_pkt_cnt never passes two.
THEOREM Typed == Spec => []TypeOK
<1>1. IInv => TypeOK BY DEF IInv
<1> QED BY <1>1, Inductive, PTL

\* Data is copied with MWCMD selected, whatever interrupts dmfe_start_xmit.
THEOREM CopiesSelected == Spec => []CopiesToMWCMD
<1>1. IInv => CopiesToMWCMD BY DEF IInv, Selected, CopiesToMWCMD
<1> QED BY <1>1, Inductive, PTL

\* A throttled receiver has its timer coming.
THEOREM ThrottleEnds == Spec => []MaskLifted
<1>1. IInv => MaskLifted BY DEF IInv, Throttled, MaskLifted, Quiet
<1> QED BY <1>1, Inductive, PTL

\* A stopped device neither interrupts nor has its timer pending.
THEOREM StoppedQuietly == Spec => []ClosedChipMasked
<1>1. IInv => ClosedChipMasked BY DEF IInv, Places, ClosedChipMasked, Quiet
<1> QED BY <1>1, Inductive, PTL

\* tx_pkt_cnt is at most one off what the chip has.
THEOREM CountNearChip == Spec => []CountTracksChip
<1>1. ASSUME IInv PROVE CountTracksChip
  <2>1. out <= cnt + 1 BY <1>1, Counters DEF NotBehind
  <2>2. ASSUME Quiet, open, "TX" \notin isr PROVE cnt <= out + 1
    <3>1. nsr = {} BY <1>1, <2>2 DEF IInv, Announced, Quiet
    <3>2. Owed = out /\ call = "idle" BY <1>1, <2>2, Counters DEF Copying, Quiet
    <3>3. cnt = 2 => out > 0 BY <1>1, <3>1, <3>2, Counters DEF NotAhead
    <3> QED BY <1>1, <3>3, Counters
  <2> QED BY <2>1, <2>2 DEF CountTracksChip
<1> QED BY <1>1, Inductive, PTL

\* A stopped queue has a completion coming.
THEOREM QueueWoken == Spec => []StoppedHasCompletion
<1>1. IInv => StoppedHasCompletion BY DEF IInv, Woken, StoppedHasCompletion, Quiet
<1> QED BY <1>1, Inductive, PTL
=============================================================================
