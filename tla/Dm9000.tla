------------------------------- MODULE Dm9000 -------------------------------
(***************************************************************************)
(* The DM9000 network driver (dm9000c_driver.c) and its chip: the packet   *)
(* count tx_pkt_cnt and the transmit queue, the interrupt mask, the        *)
(* receive throttle and its timer, the watchdog and the reset, open and    *)
(* stop.                                                                   *)
(*                                                                         *)
(* One CPU.  The functions the kernel calls (dmfe_start_xmit, dmfe_timer,  *)
(* dmfe_timeout, dmfe_open, dmfe_stop) exclude each other: the first three *)
(* are softirqs, the device is deactivated before dmfe_stop and activated  *)
(* after dmfe_open.  dmfe_interrupt interrupts each of them between any    *)
(* two accesses to shared state, and is not interrupted by itself.  The    *)
(* chip works at any time.  The interrupt line is edge-triggered: a rise   *)
(* is latched in irq; the handler may be late by some steps of the         *)
(* function it interrupts, but runs before the next call begins.           *)
(***************************************************************************)
EXTENDS Integers, FiniteSets

CONSTANTS
  CONT_RX_PKT_CNT,  \* packets received in a row before RX is masked (0xFFFF)
  RxRoom,           \* bound: packets the chip holds for the driver to read
  IsC               \* chip_revision = 0x1A

ASSUME Dm9000Assumption ==
  /\ CONT_RX_PKT_CNT \in Nat \ {0}
  /\ RxRoom \in Nat \ {0}
  /\ IsC \in BOOLEAN

VARIABLES
  cnt,     \* db->tx_pkt_cnt
  speed,   \* db->Speed
  cont,    \* db->cont_rx_pkt_cnt
  stopped, \* the transmit queue is stopped
  timer,   \* db->timer is pending
  open,    \* the interrupt is requested
  call,    \* where the called function is
  tmp,     \* what dmfe_start_xmit has loaded: tx_pkt_cnt to increment it, or
           \* the limit that Speed sets it
  hpc,     \* where dmfe_interrupt is
  ist,     \* its int_status
  saved,   \* its reg_save
  irq,     \* a rise of the line has been latched
  index,   \* the chip's register that io_data accesses: "MWCMD" or "other"
  out,     \* packets the chip was told to send and has not sent
  nsr,     \* NSR: which of the two packets in turn was sent
  slot,    \* which of the two is sent next
  isr,     \* ISR
  imr,     \* IMR: "off" (0x80), "norx" (0xa2) or "all" (0xa3)
  rxen,    \* RX is enabled
  rxq,     \* packets received, not read
  squeezed, \* no memory for the packet at the front, none came since (history)
  lapsed   \* dmfe_open zeroed cont while IMR was "norx" (history)

driverVars == <<cnt, speed, cont, stopped, timer, open>>
callVars == <<call, tmp>>
handlerVars == <<hpc, ist, saved>>
lineVars == <<isr, imr, irq>>
txVars == <<out, nsr, slot>>
rxVars == <<rxen, rxq, squeezed>>
vars == <<driverVars, callVars, handlerVars, lineVars, index, txVars, rxVars, lapsed>>

Sources == {"RX", "TX", "LINK"}

CallPlaces ==
  {"idle", "xspeed", "xtest", "xload", "xstore", "xlimit", "xfull", "xstop", "xmask",
   "xcopy", "xzero", "xend", "tick", "tickmask", "poll", "clear", "wake", "wreset", "wchip",
   "won", "wcount", "wwake", "ochip", "oon", "ocount", "odone", "sfree", "soff"}

HandlerPlaces ==
  {"idle", "ack", "link", "rx", "rxdone", "rxspin", "tx", "txspin", "exit"}

TypeOK ==
  /\ cnt \in 0 .. 2
  /\ speed \in {10, 100}
  /\ cont \in 0 .. CONT_RX_PKT_CNT
  /\ stopped \in BOOLEAN
  /\ timer \in BOOLEAN
  /\ open \in BOOLEAN
  /\ call \in CallPlaces
  /\ tmp \in 0 .. 2
  /\ hpc \in HandlerPlaces
  /\ ist \in SUBSET Sources
  /\ saved \in {"MWCMD", "other"}
  /\ irq \in BOOLEAN
  /\ index \in {"MWCMD", "other"}
  /\ out \in Nat
  /\ nsr \in SUBSET {1, 2}
  /\ slot \in {1, 2}
  /\ isr \in SUBSET Sources
  /\ imr \in {"off", "norx", "all"}
  /\ rxen \in BOOLEAN
  /\ rxq \in 0 .. RxRoom
  /\ squeezed \in BOOLEAN
  /\ lapsed \in BOOLEAN

\* The device is registered, dmfe_open has not been called.
Init ==
  /\ cnt = 0 /\ speed = 10 /\ cont = 0
  /\ stopped = FALSE /\ timer = FALSE /\ open = FALSE
  /\ call = "idle" /\ tmp = 0
  /\ hpc = "idle" /\ ist = {} /\ saved = "other"
  /\ isr = {} /\ imr = "off" /\ irq = FALSE /\ index = "other"
  /\ out = 0 /\ nsr = {} /\ slot = 1
  /\ rxen = FALSE /\ rxq = 0 /\ squeezed = FALSE /\ lapsed = FALSE

-----------------------------------------------------------------------------
(* The chip (its registers as the driver uses them) *)

Passed(mask) ==
  CASE mask = "all" -> Sources
    [] mask = "norx" -> Sources \ {"RX"}
    [] mask = "off" -> {}

High(status, mask) == status \cap Passed(mask) # {}

\* The interrupt controller latches a rise of the line.
SetLine(status, mask) ==
  /\ isr' = status
  /\ imr' = mask
  /\ irq' = (irq \/ (High(status, mask) /\ ~High(isr, imr)))

ChipSends ==
  /\ out > 0
  /\ out' = out - 1
  /\ nsr' = nsr \cup {slot}
  /\ slot' = 3 - slot
  /\ SetLine(isr \cup {"TX"}, imr)
  /\ UNCHANGED <<driverVars, callVars, handlerVars, index, rxVars, lapsed>>

ChipReceives ==
  /\ rxen
  /\ rxq < RxRoom
  /\ rxq' = rxq + 1
  /\ squeezed' = FALSE
  /\ SetLine(isr \cup {"RX"}, imr)
  /\ UNCHANGED <<rxen, driverVars, callVars, handlerVars, index, txVars, lapsed>>

LinkChanges ==
  /\ "LINK" \notin isr
  /\ SetLine(isr \cup {"LINK"}, imr)
  /\ UNCHANGED <<driverVars, callVars, handlerVars, index, txVars, rxVars, lapsed>>

Chip == ChipSends \/ ChipReceives \/ LinkChanges

\* dmfe_init_dm9000 up to the address filter: NCR resets the chip, which masks
\* its interrupts; ISR and NSR are cleared.
ChipReset ==
  /\ out' = 0 /\ nsr' = {} /\ slot' = 1
  /\ rxq' = 0 /\ squeezed' = FALSE

-----------------------------------------------------------------------------
(* dmfe_interrupt *)

HandlerStep == hpc # "idle" /\ UNCHANGED <<callVars, timer, open, lapsed>>

NoLine == UNCHANGED lineVars

\* dmfe_interrupt's tests of int_status, in their order.
AfterRx == IF "TX" \in ist THEN "tx" ELSE "exit"
AfterLink == IF "RX" \in ist THEN "rx" ELSE AfterRx
AfterAck == IF "LINK" \in ist THEN "link" ELSE AfterLink

\* dmfe_packet_receive begins with cont_rx_pkt_cnt = 0.
GoTo(place) ==
  /\ hpc' = place
  /\ cont' = IF place = "rx" THEN 0 ELSE cont

\* Up to the read of ISR; no source can raise the line while all are masked.
IrqEnter ==
  /\ irq /\ open /\ hpc = "idle"
  /\ hpc' = "ack"
  /\ saved' = index
  /\ index' = "other"
  /\ imr' = "off"
  /\ ist' = isr
  /\ irq' = FALSE
  /\ UNCHANGED <<isr, driverVars, callVars, txVars, rxVars, lapsed>>

\* The write of int_status to ISR clears what was read, whatever came since.
IrqAck ==
  /\ hpc = "ack"
  /\ HandlerStep
  /\ SetLine(isr \ ist, imr)
  /\ GoTo(AfterAck)
  /\ UNCHANGED <<ist, saved, index, cnt, speed, stopped, txVars, rxVars>>

\* Stops the queue, waits for the link, takes its speed if it came, wakes the
\* queue.
IrqLink ==
  /\ hpc = "link"
  /\ HandlerStep
  /\ speed' \in {10, 100}
  /\ stopped' = FALSE
  /\ GoTo(AfterLink)
  /\ UNCHANGED <<lineVars, ist, saved, index, cnt, txVars, rxVars>>

\* dmfe_packet_receive: a good packet goes up.
RxGood ==
  /\ hpc = "rx" /\ rxq > 0
  /\ HandlerStep
  /\ rxq' = rxq - 1
  /\ cont' = cont + 1
  /\ hpc' = IF cont' >= CONT_RX_PKT_CNT THEN "rxdone" ELSE "rx"
  /\ UNCHANGED <<lineVars, ist, saved, index, cnt, speed, stopped, txVars, rxen, squeezed>>

\* A packet whose status has an error is read and dropped.
RxBad ==
  /\ hpc = "rx" /\ rxq > 0
  /\ HandlerStep
  /\ rxq' = rxq - 1
  /\ UNCHANGED <<lineVars, hpc, ist, saved, index, cnt, speed, cont, stopped, txVars, rxen,
                 squeezed>>

\* dev_alloc_skb fails: the packet stays in the chip.
RxSqueeze ==
  /\ hpc = "rx" /\ rxq > 0
  /\ HandlerStep
  /\ squeezed' = TRUE
  /\ hpc' = AfterRx
  /\ UNCHANGED <<lineVars, ist, saved, index, cnt, speed, cont, stopped, txVars, rxen, rxq>>

RxEmpty ==
  /\ hpc = "rx" /\ rxq = 0
  /\ HandlerStep
  /\ hpc' = AfterRx
  /\ UNCHANGED <<lineVars, ist, saved, index, cnt, speed, cont, stopped, txVars, rxVars>>

\* rxbyte > 1: dmfe_reset, which saves and restores the index itself.
RxBroken ==
  /\ hpc = "rx" /\ rxq > 0
  /\ HandlerStep
  /\ ChipReset
  /\ SetLine({}, "all")
  /\ rxen' = TRUE
  /\ cnt' = 0
  /\ speed' \in {10, 100}
  /\ stopped' = FALSE
  /\ hpc' = AfterRx
  /\ UNCHANGED <<ist, saved, index, cont>>

\* dmfe_tx_done: reading NSR clears it.
TxDoneCounted(at, next) ==
  /\ hpc = at
  /\ HandlerStep
  /\ nsr # {}
  /\ cnt >= Cardinality(nsr)
  /\ cnt' = cnt - Cardinality(nsr)
  /\ nsr' = {}
  /\ stopped' = FALSE
  /\ hpc' = next
  /\ UNCHANGED <<lineVars, ist, saved, index, speed, cont, out, slot, rxVars>>

\* No packet is marked in NSR, or more than are counted.
TxDoneWaits(at, spin) ==
  /\ hpc = at
  /\ HandlerStep
  /\ nsr = {} \/ cnt < Cardinality(nsr)
  /\ nsr' = {}
  /\ hpc' = spin
  /\ UNCHANGED <<lineVars, ist, saved, index, cnt, speed, cont, stopped, out, slot, rxVars>>

\* Mutated form: the queue is not woken.
TxDoneSentOnly(spin, next) ==
  /\ hpc = spin
  /\ HandlerStep
  /\ out = 0
  /\ cnt' = 0
  /\ hpc' = next
  /\ UNCHANGED <<lineVars, ist, saved, index, speed, cont, stopped, txVars, rxVars>>

\* TCR's request bit is clear when the chip has sent all packets.
TxDoneSent(spin, next) ==
  /\ hpc = spin
  /\ HandlerStep
  /\ out = 0
  /\ cnt' = 0
  /\ stopped' = FALSE
  /\ hpc' = next
  /\ UNCHANGED <<lineVars, ist, saved, index, speed, cont, txVars, rxVars>>

dmfe_tx_done ==
  \/ TxDoneCounted("rxdone", AfterRx)
  \/ TxDoneWaits("rxdone", "rxspin")
  \/ TxDoneSent("rxspin", AfterRx)
  \/ TxDoneCounted("tx", "exit")
  \/ TxDoneWaits("tx", "txspin")
  \/ TxDoneSent("txspin", "exit")

\* Mutated form: the register index is not restored.
IrqExitKeepsIndex ==
  /\ hpc = "exit"
  /\ hpc' = "idle"
  /\ SetLine(isr, IF cont >= CONT_RX_PKT_CNT THEN "norx" ELSE "all")
  /\ ist' = {} /\ saved' = "other"
  /\ lapsed' = FALSE
  /\ UNCHANGED <<index, callVars, driverVars, txVars, rxVars>>

\* Mutated form: ISR is cleared when the sources have been served.
IrqExitAcks ==
  /\ hpc = "exit"
  /\ hpc' = "idle"
  /\ SetLine(isr \ ist, IF cont >= CONT_RX_PKT_CNT THEN "norx" ELSE "all")
  /\ index' = saved
  /\ ist' = {} /\ saved' = "other"
  /\ lapsed' = FALSE
  /\ UNCHANGED <<callVars, driverVars, txVars, rxVars>>

IrqExit ==
  /\ hpc = "exit"
  /\ hpc' = "idle"
  /\ SetLine(isr, IF cont >= CONT_RX_PKT_CNT THEN "norx" ELSE "all")
  /\ index' = saved
  /\ ist' = {} /\ saved' = "other"
  /\ lapsed' = FALSE
  /\ UNCHANGED <<callVars, driverVars, txVars, rxVars>>

dmfe_packet_receive == RxGood \/ RxBad \/ RxSqueeze \/ RxEmpty \/ RxBroken

dmfe_interrupt ==
  IrqAck \/ IrqLink \/ dmfe_packet_receive \/ dmfe_tx_done \/ IrqExit

-----------------------------------------------------------------------------
(* Functions the kernel calls *)

\* A call begins: no other runs, the handler has served the line.
Free == call = "idle" /\ hpc = "idle" /\ (open => ~irq)

\* A called function makes its step from one place to the next.
Step(from, to) ==
  /\ call = from
  /\ hpc = "idle"
  /\ call' = to
  /\ UNCHANGED handlerVars

\* What a step leaves alone when it is only about the count and the queue.
NoChip == UNCHANGED <<lineVars, index, txVars, rxVars>>

Limit == IF ~IsC /\ speed = 10 THEN 1 ELSE 2

(* dmfe_start_xmit *)

XmitCall ==
  /\ Free /\ open /\ ~stopped
  /\ Step("idle", "xspeed")
  /\ UNCHANGED <<driverVars, tmp, lapsed>> /\ NoChip

\* The revision and the speed are looked at before the count.
XmitSpeed ==
  /\ Step("xspeed", "xtest")
  /\ tmp' = Limit
  /\ UNCHANGED <<driverVars, lapsed>> /\ NoChip

\* Mutated form: off by one.
XmitTestMore ==
  /\ Step("xtest", IF cnt > tmp THEN "idle" ELSE "xload")
  /\ tmp' = 0
  /\ UNCHANGED <<driverVars, lapsed>> /\ NoChip

\* Returns 1 if the count is at its limit.
XmitTest ==
  /\ Step("xtest", IF cnt >= tmp THEN "idle" ELSE "xload")
  /\ tmp' = 0
  /\ UNCHANGED <<driverVars, lapsed>> /\ NoChip

\* tx_pkt_cnt++ is a load and a store.
XmitLoad ==
  /\ Step("xload", "xstore")
  /\ tmp' = cnt
  /\ UNCHANGED <<driverVars, lapsed>> /\ NoChip

XmitStore ==
  /\ Step("xstore", "xlimit")
  /\ cnt' = tmp + 1
  /\ tmp' = 0
  /\ UNCHANGED <<speed, cont, stopped, timer, open, lapsed>> /\ NoChip

XmitLimit ==
  /\ Step("xlimit", "xfull")
  /\ tmp' = Limit
  /\ UNCHANGED <<driverVars, lapsed>> /\ NoChip

XmitFull ==
  /\ Step("xfull", IF cnt >= tmp THEN "xstop" ELSE "xmask")
  /\ tmp' = 0
  /\ UNCHANGED <<driverVars, lapsed>> /\ NoChip

XmitStop ==
  /\ Step("xstop", "xmask")
  /\ stopped' = TRUE
  /\ UNCHANGED <<cnt, speed, cont, timer, open, tmp, lapsed>> /\ NoChip

\* Masks all sources and selects MWCMD; a handler that comes between the two
\* leaves the index as it was.
XmitMask ==
  /\ Step("xmask", "xcopy")
  /\ SetLine(isr, "off")
  /\ index' = "MWCMD"
  /\ UNCHANGED <<driverVars, tmp, txVars, rxVars, lapsed>>

\* The data is copied and TCR's request bit set.
XmitCopy ==
  /\ Step("xcopy", "xzero")
  /\ out' = out + 1
  /\ index' = "other"
  /\ UNCHANGED <<lineVars, driverVars, tmp, nsr, slot, rxVars, lapsed>>

XmitZero ==
  /\ Step("xzero", "xend")
  /\ cont' = 0
  /\ UNCHANGED <<cnt, speed, stopped, timer, open, tmp, lapsed>> /\ NoChip

XmitEnd ==
  /\ Step("xend", "idle")
  /\ SetLine(isr, "all")
  /\ lapsed' = FALSE
  /\ UNCHANGED <<driverVars, tmp, index, txVars, rxVars>>

dmfe_start_xmit ==
  \/ XmitSpeed \/ XmitTest \/ XmitLoad \/ XmitStore
  \/ XmitLimit \/ XmitFull \/ XmitStop
  \/ XmitMask \/ XmitCopy \/ XmitZero \/ XmitEnd

(* dmfe_timer *)

TimerCall ==
  /\ Free /\ timer
  /\ Step("idle", "tick")
  /\ timer' = FALSE
  /\ UNCHANGED <<cnt, speed, cont, stopped, open, tmp, lapsed>> /\ NoChip

TimerAgain ==
  /\ cont < CONT_RX_PKT_CNT
  /\ Step("tick", "idle")
  /\ timer' = TRUE
  /\ UNCHANGED <<cnt, speed, cont, stopped, open, tmp, lapsed>> /\ NoChip

\* Mutated form: IMR is left to the next interrupt.
TimerLiftsOnly ==
  /\ cont >= CONT_RX_PKT_CNT
  /\ Step("tick", "idle")
  /\ cont' = 0
  /\ timer' = TRUE
  /\ UNCHANGED <<cnt, speed, stopped, open, tmp, lapsed>> /\ NoChip

TimerLifts ==
  /\ cont >= CONT_RX_PKT_CNT
  /\ Step("tick", "tickmask")
  /\ cont' = 0
  /\ UNCHANGED <<cnt, speed, stopped, timer, open, tmp, lapsed>> /\ NoChip

TimerUnmasks ==
  /\ Step("tickmask", "idle")
  /\ SetLine(isr, "all")
  /\ timer' = TRUE
  /\ lapsed' = FALSE
  /\ UNCHANGED <<cnt, speed, cont, stopped, open, tmp, index, txVars, rxVars>>

dmfe_timer == TimerAgain \/ TimerLifts \/ TimerUnmasks

(* dmfe_timeout: the queue has been stopped too long *)

WatchdogCall ==
  /\ Free /\ open /\ stopped
  /\ Step("idle", "poll")
  /\ UNCHANGED <<driverVars, tmp, lapsed>> /\ NoChip

\* TCR's request bit is seen clear within the polls.
PollClear ==
  /\ out = 0
  /\ Step("poll", "clear")
  /\ UNCHANGED <<driverVars, tmp, lapsed>> /\ NoChip

\* The polls run out, or only the last one sees the bit clear.
PollBusy ==
  /\ Step("poll", "wreset")
  /\ UNCHANGED <<driverVars, tmp, lapsed>> /\ NoChip

\* Mutated form: the count survives.
ClearCountNot(from, to) ==
  /\ Step(from, to)
  /\ UNCHANGED <<driverVars, tmp, lapsed>> /\ NoChip

ClearCount(from, to) ==
  /\ Step(from, to)
  /\ cnt' = 0
  /\ UNCHANGED <<speed, cont, stopped, timer, open, tmp, lapsed>> /\ NoChip

TimeoutWakes ==
  /\ Step("wake", "idle")
  /\ stopped' = FALSE
  /\ UNCHANGED <<cnt, speed, cont, timer, open, tmp, lapsed>> /\ NoChip

(* dmfe_reset as dmfe_timeout calls it, with dmfe_init_dm9000 *)

ResetStops ==
  /\ Step("wreset", "wchip")
  /\ stopped' = TRUE
  /\ UNCHANGED <<cnt, speed, cont, timer, open, tmp, lapsed>> /\ NoChip

InitChip(from, to) ==
  /\ Step(from, to)
  /\ ChipReset
  /\ SetLine({}, "off")
  /\ rxen' = FALSE
  /\ UNCHANGED <<driverVars, tmp, index, lapsed>>

Activate(from, to) ==
  /\ Step(from, to)
  /\ SetLine(isr, "all")
  /\ rxen' = TRUE
  /\ lapsed' = FALSE
  /\ UNCHANGED <<driverVars, tmp, index, txVars, rxq, squeezed>>

ResetWakes ==
  /\ Step("wwake", "idle")
  /\ speed' \in {10, 100}
  /\ stopped' = FALSE
  /\ UNCHANGED <<cnt, cont, timer, open, tmp, lapsed>> /\ NoChip

dmfe_reset ==
  ResetStops \/ InitChip("wchip", "won") \/ Activate("won", "wcount")
    \/ ClearCount("wcount", "wwake") \/ ResetWakes

dmfe_timeout == PollClear \/ PollBusy \/ ClearCount("clear", "wake") \/ TimeoutWakes \/ dmfe_reset

(* dmfe_open and dmfe_stop *)

OpenCall ==
  /\ Free /\ ~open
  /\ Step("idle", "ochip")
  /\ open' = TRUE
  /\ UNCHANGED <<cnt, speed, cont, stopped, timer, tmp, lapsed>> /\ NoChip

OpenDone ==
  /\ Step("odone", "idle")
  /\ cont' = 0
  /\ speed' \in {10, 100}
  /\ timer' = TRUE
  /\ stopped' = FALSE
  /\ lapsed' = (imr = "norx")
  /\ UNCHANGED <<cnt, open, tmp>> /\ NoChip

dmfe_open ==
  InitChip("ochip", "oon") \/ Activate("oon", "ocount") \/ ClearCount("ocount", "odone") \/ OpenDone

StopCall ==
  /\ Free /\ open
  /\ Step("idle", "sfree")
  /\ timer' = FALSE
  /\ stopped' = TRUE
  /\ UNCHANGED <<cnt, speed, cont, open, tmp, lapsed>> /\ NoChip

FreeIrq(from, to) ==
  /\ Step(from, to)
  /\ open' = FALSE
  /\ UNCHANGED <<cnt, speed, cont, stopped, timer, tmp, lapsed>> /\ NoChip

MaskChip(from, to) ==
  /\ Step(from, to)
  /\ SetLine(isr, "off")
  /\ rxen' = FALSE
  /\ UNCHANGED <<driverVars, tmp, index, txVars, rxq, squeezed, lapsed>>

\* Mutated form: the chip is masked before the handler is freed.
StopMasksFirst == MaskChip("sfree", "soff") \/ FreeIrq("soff", "idle")

dmfe_stop == FreeIrq("sfree", "soff") \/ MaskChip("soff", "idle")

Calls == XmitCall \/ TimerCall \/ WatchdogCall \/ OpenCall \/ StopCall

Continue == dmfe_start_xmit \/ dmfe_timer \/ dmfe_timeout \/ dmfe_open \/ dmfe_stop

Next == Chip \/ IrqEnter \/ dmfe_interrupt \/ Calls \/ Continue

Spec == Init /\ [][Next]_vars

\* The chip sends what it is told to, the interrupt is delivered, the timer
\* expires.  The CPU is faster than the network: it makes steps of the
\* interrupted function between interrupts, and reads packets faster than they
\* come.
FairSpec ==
  /\ Spec
  /\ WF_vars(ChipSends)
  /\ WF_vars(IrqEnter)
  /\ WF_vars(dmfe_interrupt)
  /\ WF_vars(TimerCall)
  /\ SF_vars(Continue)
  /\ SF_vars(RxEmpty)

-----------------------------------------------------------------------------
(* Properties *)

Quiet == call = "idle" /\ hpc = "idle"

\* The packet's data goes to the transmit buffer: an interrupt between the
\* selection of MWCMD and the copy, and a reset in it, leave the index as it
\* was.
CopiesToMWCMD == call = "xcopy" /\ hpc = "idle" => index = "MWCMD"

\* When RX is masked by the throttle the timer is coming to lift it, whatever
\* the order in which the handler, dmfe_start_xmit and the timer write IMR and
\* cont_rx_pkt_cnt; only dmfe_open may have zeroed the count of a throttle
\* that was in force, so that the timer does not see it.
MaskLifted ==
  Quiet /\ open /\ imr = "norx" => timer /\ (cont >= CONT_RX_PKT_CNT \/ lapsed)

\* After dmfe_stop the chip cannot raise its line and the timer is not
\* pending, whatever interrupts come while it runs.
ClosedChipMasked == Quiet /\ ~open => imr = "off" /\ ~timer

\* tx_pkt_cnt is read and written by dmfe_start_xmit without a lock and zeroed
\* by the reset, the throttle and the watchdog, and still is never more than
\* one below what the chip has to send, nor, once the handler has seen all
\* that was sent, more than one above: the chip has at most one packet too
\* many, and the queue never loses its last place.
CountTracksChip ==
  /\ out <= cnt + 1
  /\ Quiet /\ open /\ "TX" \notin isr => cnt <= out + 1

\* Whenever the queue is left stopped, the chip has a packet whose completion
\* will wake it, or has raised that interrupt: the watchdog is never the only
\* way on.
StoppedHasCompletion == Quiet /\ open /\ stopped => out > 0 \/ "TX" \in isr

\* Again and again the handler reads the chip's packets or there are none: no
\* packet is forgotten by the acknowledge of ISR, the edge-triggered line, the
\* throttle or the masking in dmfe_start_xmit.  (One that found no memory
\* waits for the next one, and a throttle that dmfe_open zeroed stays.)
RxServed == []<>(rxq = 0 \/ hpc = "rx" \/ squeezed \/ lapsed \/ ~open)
=============================================================================
