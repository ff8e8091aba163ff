-------------------------------- MODULE Sound --------------------------------
(***************************************************************************)
(* The OSS sound driver (s3c-wm8976.c): /dev/dsp with one output and one   *)
(* input stream.  Each stream is a ring of fragments; `sem' of a fragment  *)
(* is down while the fragment is in the DMA queue or a handler works on    *)
(* it, and the DMA callback ups it.                                        *)
(*                                                                         *)
(* Data is the number of a unit (one stereo sample).  A handler of one     *)
(* thread may sleep on a semaphore or in a copy from or to user memory, so *)
(* calls of threads that share a file interleave there.  Allocation in     *)
(* audio_setup_buf is taken not to sleep.  When it fails the stream is as  *)
(* it was, so that a call which only gets -ENOMEM is no step.  As long as  *)
(* a stream has no buffers its other fields are kept at the values         *)
(* audio_setup_buf will give them.                                         *)
(*                                                                         *)
(* Whether a file is O_NONBLOCK is left open: where its handler would      *)
(* return -EAGAIN that of another file may be ended by a signal.           *)
(*                                                                         *)
(* copy_from_user_mono_stereo tests access_ok the wrong way round: a mono  *)
(* write from memory the application has takes the fault path, and one     *)
(* from memory it does not have is accepted like a copy.                   *)
(***************************************************************************)
EXTENDS Integers, SequencesExt

CONSTANTS
  Procs,    \* threads of applications
  Files,    \* struct file objects
  NbFrags,  \* fragments of a stream (audio_nbfrags)
  FragSize, \* units in a fragment (audio_fragsize)
  Counts,   \* the sizes reads and writes ask for, in units
  MaxWritten,  \* bounds: units a stream's buffers see between their set-up
  MaxCaptured, \* and their clearing
  None

ASSUME SoundAssumption ==
  /\ NbFrags \in Nat
  /\ NbFrags > 1
  /\ FragSize \in Nat \ {0}
  /\ Counts \subseteq Nat \ {0}
  /\ MaxWritten \in Nat
  /\ MaxCaptured \in Nat
  /\ None \notin Files

VARIABLES
  fd,        \* the open file of each thread
  mode,      \* the streams each open file may use, {} when it is not open
  ref,       \* audio_rd_refcount ("in") and audio_wr_refcount ("out")
  iis,       \* the direction the IIS bus was set up for, or "off"
  buffers,   \* whether the stream has buffers
  buf_idx,   \* the stream's current fragment, s->buf
  data,      \* units in each fragment; their number is b->size
  sem,       \* each fragment's semaphore
  dma,       \* queue of the DMA channel
  op,        \* the handler each thread is in
  pc,        \* where in it: "down" and "wait" are semaphores it waits for
  b,         \* the fragment the handler works on
  left,      \* the handler's count
  queues,    \* the fragments whose wait queues a poll has joined
  accepted,  \* units taken from writers into these buffers (history)
  played,    \* newest of them that was played (history)
  captured,  \* units the DMA stored in these buffers (history)
  delivered, \* units of them given to readers (history)
  overlapped, \* streams that had two threads inside handlers (history)
  leaked,    \* streams that lost a fragment to a failed enqueue (history)
  stale      \* threads inside a handler whose buffers were freed

fileVars   == <<fd, mode, ref, iis>>
streamVars == <<buffers, buf_idx, data, sem, dma>>
procVars   == <<op, pc, b, left, queues>>
unitVars   == <<accepted, played, captured, delivered>>
pathVars   == <<overlapped, leaked, stale>>

vars == <<fileVars, streamVars, procVars, unitVars, pathVars>>

Streams == {"out", "in"}
Frags == 0 .. NbFrags - 1

\* What the DMA queue holds.
Entries == [frag : Frags, units : Seq(Nat)]

TypeOK ==
  /\ fd \in [Procs -> Files \union {None}]
  /\ mode \in [Files -> SUBSET Streams]
  /\ ref \in [Streams -> {0, 1}]
  /\ iis \in Streams \union {"off"}
  /\ buffers \in [Streams -> BOOLEAN]
  /\ buf_idx \in [Streams -> Frags]
  /\ data \in [Streams -> [Frags -> Seq(Nat)]]
  /\ sem \in [Streams -> [Frags -> {0, 1}]]
  /\ dma \in [Streams -> Seq(Entries)]
  /\ op \in [Procs -> {"none", "write", "read", "sync", "release", "poll"}]
  /\ pc \in [Procs -> {"user", "down", "copy", "wait", "poll", "pollsleep"}]
  /\ b \in [Procs -> Frags]
  /\ left \in [Procs -> Nat]
  /\ queues \in [Procs -> SUBSET (Streams \X Frags)]
  /\ accepted \in Nat /\ played \in Nat
  /\ captured \in Nat /\ delivered \in Nat
  /\ overlapped \in SUBSET Streams
  /\ leaked \in SUBSET Streams
  /\ stale \in SUBSET Procs

Empty == [f \in Frags |-> <<>>]
Free == [f \in Frags |-> 1]

Init ==
  /\ fd = [p \in Procs |-> None]
  /\ mode = [f \in Files |-> {}]
  /\ ref = [s \in Streams |-> 0]
  /\ iis = "off"
  /\ buffers = [s \in Streams |-> FALSE]
  /\ buf_idx = [s \in Streams |-> 0]
  /\ data = [s \in Streams |-> Empty]
  /\ sem = [s \in Streams |-> Free]
  /\ dma = [s \in Streams |-> <<>>]
  /\ op = [p \in Procs |-> "none"]
  /\ pc = [p \in Procs |-> "user"]
  /\ b = [p \in Procs |-> 0]
  /\ left = [p \in Procs |-> 0]
  /\ queues = [p \in Procs |-> {}]
  /\ accepted = 0 /\ played = 0
  /\ captured = 0 /\ delivered = 0
  /\ overlapped = {}
  /\ leaked = {}
  /\ stale = {}

-----------------------------------------------------------------------------
(* Handlers and streams *)

OpenFile(p) == pc[p] = "user" /\ fd[p] # None

\* The streams a thread's handler works on.
Using(p) ==
  CASE op[p] = "none" -> {}
    [] op[p] = "read" -> {"in"}
    [] op[p] = "poll" -> mode[fd[p]]
    [] OTHER          -> {"out"}

\* Thread p enters handler o, which uses the streams S.
Enter(p, o, S) ==
  /\ OpenFile(p)
  /\ op' = [op EXCEPT ![p] = o]
  /\ overlapped' = overlapped \union {s \in S : \E q \in Procs : s \in Using(q)}

At(p, o, from) == op[p] = o /\ pc[p] = from

\* The handler returns.
Return(p) ==
  /\ op' = [op EXCEPT ![p] = "none"]
  /\ pc' = [pc EXCEPT ![p] = "user"]
  /\ b' = [b EXCEPT ![p] = 0]
  /\ left' = [left EXCEPT ![p] = 0]
  /\ queues' = [queues EXCEPT ![p] = {}]

\* The handler goes on at `to' with fragment f and count n.
Continue(p, to, f, n) ==
  /\ pc' = [pc EXCEPT ![p] = to]
  /\ b' = [b EXCEPT ![p] = f]
  /\ left' = [left EXCEPT ![p] = n]
  /\ UNCHANGED queues

NEXT_BUF(s) == buf_idx' = [buf_idx EXCEPT ![s] = (@ + 1) % NbFrags]

\* The top of the write and read loops: b = s->buf, unless count is 0.
Loop(p, s, n) ==
  \/ n > 0 /\ Continue(p, "down", buf_idx'[s], n) /\ UNCHANGED op
  \/ n = 0 /\ Return(p)

\* Mutated form: the previous fragment of fragment 0 is not taken modulo.
PrevNoWrap(f) == IF f = 0 THEN 0 ELSE f - 1

Prev(f) == (NbFrags + f - 1) % NbFrags

\* Mutated form: the semaphore is looked at, not taken.
DownTestsOnly(s, f) == sem[s][f] > 0 /\ UNCHANGED sem

Up(s, f) == sem' = [sem EXCEPT ![s][f] = @ + 1]
Down(s, f) == sem[s][f] > 0 /\ sem' = [sem EXCEPT ![s][f] = @ - 1]

\* s3c2410_dma_enqueue (external): the channel's queue takes the buffer, or
\* it fails for want of memory and the fragment's semaphore stays down.
Enqueue(s, f, units) ==
  /\ dma' = [dma EXCEPT ![s] = Append(@, [frag |-> f, units |-> units])]
  /\ UNCHANGED leaked

EnqueueFails(s) == leaked' = leaked \union {s} /\ UNCHANGED dma

audio_setup_buf(S) == buffers' = [s \in Streams |-> buffers[s] \/ s \in S]

\* Flush the DMA of the streams S and free their buffers, whoever is using
\* them.  (The callbacks of the flushed buffers come before the freeing.)
audio_clear_buf(S, p) ==
  /\ buffers' = [s \in Streams |-> buffers[s] /\ s \notin S]
  /\ buf_idx' = [s \in Streams |-> IF s \in S THEN 0 ELSE buf_idx[s]]
  /\ data' = [s \in Streams |-> IF s \in S THEN Empty ELSE data[s]]
  /\ sem' = [s \in Streams |-> IF s \in S THEN Free ELSE sem[s]]
  /\ dma' = [s \in Streams |-> IF s \in S THEN <<>> ELSE dma[s]]
  /\ overlapped' = overlapped \ S
  /\ leaked' = leaked \ S
  /\ stale' = {q \in Procs \ {p} : Using(q) \intersect S # {}}
  /\ IF "out" \in S THEN accepted' = 0 /\ played' = 0
                    ELSE UNCHANGED <<accepted, played>>
  /\ IF "in" \in S THEN captured' = 0 /\ delivered' = 0
                   ELSE UNCHANGED <<captured, delivered>>

-----------------------------------------------------------------------------
(* open and release *)

\* Mutated form: the reader's count is not looked at.
OpenAllowedToReaders(m) == ref["out"] = 0

\* A file that may read needs both directions idle, a write-only file only
\* the output.
OpenAllowed(m) ==
  /\ ref["out"] = 0
  /\ "in" \in m => ref["in"] = 0

smdk2410_audio_open(p, f, m) ==
  /\ pc[p] = "user"
  /\ fd[p] = None
  /\ mode[f] = {}
  /\ OpenAllowed(m)
  /\ fd' = [fd EXCEPT ![p] = f]
  /\ mode' = [mode EXCEPT ![f] = m]
  /\ ref' = [s \in Streams |-> IF s \in m THEN 1 ELSE ref[s]]
  /\ IF \A s \in Streams : ref[s] = 0
     THEN \* cold: the receiver's set-up wipes out the transmitter's
          /\ iis' = IF "in" \in m THEN "in" ELSE "out"
          /\ audio_clear_buf(m, p)
     ELSE UNCHANGED <<iis, streamVars, unitVars, pathVars>>
  /\ UNCHANGED procVars

\* The VFS forgets the file.
Forget(p) ==
  /\ mode' = [mode EXCEPT ![fd[p]] = {}]
  /\ fd' = [fd EXCEPT ![p] = None]
  /\ UNCHANGED iis

LastReference(p) == \A q \in Procs \ {p} : fd[q] # fd[p]

\* Mutated form: closing one direction clears both.
ReleaseClearsBoth(p) ==
  /\ OpenFile(p)
  /\ LastReference(p)
  /\ "out" \notin mode[fd[p]]
  /\ ref' = [ref EXCEPT !["in"] = 0]
  /\ audio_clear_buf(Streams, p)
  /\ Forget(p)
  /\ UNCHANGED procVars

\* Release of a file that does not write, or whose output has no buffers.
ReleaseAtOnce(p) ==
  /\ OpenFile(p)
  /\ LastReference(p)
  /\ "out" \in mode[fd[p]] => ~buffers["out"]
  /\ ref' = [s \in Streams |-> IF s \in mode[fd[p]] THEN 0 ELSE ref[s]]
  /\ audio_clear_buf(mode[fd[p]], p)
  /\ Forget(p)
  /\ UNCHANGED procVars

\* audio_sync with buffers: send a started fragment off, then wait for the
\* one before the current fragment.  It reads b->size without the semaphore.
SyncFrom(p) ==
  LET cur == buf_idx["out"]
  IN IF data["out"][cur] # <<>>
     THEN Continue(p, "down", cur, 0)
     ELSE Continue(p, "wait", Prev(cur), 0)

\* Release of a file that writes: first its input is cleared, then it syncs.
ReleaseSync(p) ==
  /\ OpenFile(p)
  /\ LastReference(p)
  /\ "out" \in mode[fd[p]]
  /\ buffers["out"]
  /\ op' = [op EXCEPT ![p] = "release"]
  /\ SyncFrom(p)
  /\ ref' = [ref EXCEPT !["in"] = IF "in" \in mode[fd[p]] THEN 0 ELSE @]
  /\ audio_clear_buf(mode[fd[p]] \ {"out"}, p)
  /\ UNCHANGED <<fd, mode, iis>>

\* The awaited fragment is free (or, with signalled, a signal ended the wait).
ReleaseEnd(p, signalled) ==
  /\ At(p, "release", "wait")
  /\ (sem["out"][b[p]] = 0) = signalled
  /\ ref' = [ref EXCEPT !["out"] = 0]
  /\ audio_clear_buf({"out"}, p)
  /\ Forget(p)
  /\ Return(p)

smdk2410_audio_release(p) ==
  \/ ReleaseAtOnce(p)
  \/ ReleaseSync(p)
  \/ \E signalled \in BOOLEAN : ReleaseEnd(p, signalled)

-----------------------------------------------------------------------------
(* The semaphore of a fragment *)

\* The stream that p's write or read loop works on.
LoopStream(p) == IF op[p] = "read" THEN "in" ELSE "out"

\* down_interruptible or down_trylock succeeds: write and read go on to the
\* copy.
LoopDown(p) ==
  /\ op[p] \in {"write", "read"}
  /\ pc[p] = "down"
  /\ Down(LoopStream(p), b[p])
  /\ pc' = [pc EXCEPT ![p] = "copy"]
  /\ UNCHANGED <<fileVars, buffers, buf_idx, data, dma, op, b, left,
                 queues, unitVars, pathVars>>

\* It fails, as the file is O_NONBLOCK or by a signal: the handler returns
\* what it has done so far, or the error.
LoopDownFails(p) ==
  /\ op[p] \in {"write", "read"}
  /\ pc[p] = "down"
  /\ sem[LoopStream(p)][b[p]] = 0
  /\ Return(p)
  /\ UNCHANGED <<fileVars, streamVars, unitVars, pathVars>>

\* Mutated form: no up.
LoopFaultNoUp(p) ==
  /\ op[p] \in {"write", "read"}
  /\ pc[p] = "copy"
  /\ op[p] = "read" => data["in"][b[p]] # <<>>
  /\ Return(p)
  /\ UNCHANGED <<fileVars, streamVars, unitVars, pathVars>>

\* A fault in the copy of at least one unit, or any mono write from memory
\* that can be read: up, -EFAULT.
LoopFault(p) ==
  /\ op[p] \in {"write", "read"}
  /\ pc[p] = "copy"
  /\ op[p] = "read" => data["in"][b[p]] # <<>>
  /\ Up(LoopStream(p), b[p])
  /\ Return(p)
  /\ UNCHANGED <<fileVars, buffers, buf_idx, data, dma, unitVars, pathVars>>

-----------------------------------------------------------------------------
(* write *)

WriteCall(p, n) ==
  /\ Enter(p, "write", {"out"})
  /\ "out" \in mode[fd[p]]
  /\ \A q \in Procs : accepted + left[q] + n <= MaxWritten
  /\ audio_setup_buf({"out"})
  /\ Continue(p, "down", buf_idx["out"], n)
  /\ UNCHANGED <<fileVars, buf_idx, data, sem, dma, unitVars, leaked, stale>>

Smaller(m, n) == IF m < n THEN m ELSE n

\* The units first + 1 .. last.
Units(first, last) == [n \in 1 .. last - first |-> first + n]

\* How much a write of p copies into its fragment.
WriteChunk(p) == Smaller(FragSize - Len(data["out"][b[p]]), left[p])

\* Mutated form: copied to the start of the fragment.
FilledFromStart(p) == Units(accepted, accepted + WriteChunk(p))

\* The fragment after that.
Filled(p) == data["out"][b[p]] \o Units(accepted, accepted + WriteChunk(p))

\* The copy, and what follows from it: the chunk leaves room in the fragment
\* and write ends with an up; the fragment is full, goes to the DMA and write
\* goes on with the next one; or the enqueue fails and write returns the error
\* without an up.
WriteCopy(p) ==
  /\ At(p, "write", "copy")
  /\ accepted' = accepted + WriteChunk(p)
  /\ \/ /\ Len(Filled(p)) < FragSize
        /\ data' = [data EXCEPT !["out"][b[p]] = Filled(p)]
        /\ Up("out", b[p])
        /\ Return(p)
        /\ UNCHANGED <<buf_idx, dma, leaked>>
     \/ /\ Len(Filled(p)) = FragSize
        /\ Enqueue("out", b[p], Filled(p))
        /\ data' = [data EXCEPT !["out"][b[p]] = <<>>]
        /\ NEXT_BUF("out")
        /\ Loop(p, "out", left[p] - WriteChunk(p))
        /\ UNCHANGED sem
     \/ /\ Len(Filled(p)) = FragSize
        /\ EnqueueFails("out")
        /\ data' = [data EXCEPT !["out"][b[p]] = Filled(p)]
        /\ Return(p)
        /\ UNCHANGED <<buf_idx, sem>>
  /\ UNCHANGED <<fileVars, buffers, played, captured, delivered, overlapped, stale>>

-----------------------------------------------------------------------------
(* read *)

\* The first read enqueues every fragment in turn and looks at no result: all
\* of them are queued, or only some, in the same order.
EnqueueAll ==
  \/ /\ dma' = [dma EXCEPT !["in"] =
                   [i \in 1 .. NbFrags |-> [frag |-> i - 1, units |-> <<>>]]]
     /\ UNCHANGED leaked
  \/ /\ \E k \in 0 .. NbFrags - 1 : \E g \in [1 .. k -> Frags] :
          /\ \A i, j \in 1 .. k : i < j => g[i] < g[j]
          /\ dma' = [dma EXCEPT !["in"] = [i \in 1 .. k |-> [frag |-> g[i], units |-> <<>>]]]
     /\ leaked' = leaked \union {"in"}

\* The first read sets the buffers up, downs them all and enqueues them all.
ReadCall(p, n) ==
  /\ Enter(p, "read", {"in"})
  /\ "in" \in mode[fd[p]]
  /\ audio_setup_buf({"in"})
  /\ IF buffers["in"]
     THEN UNCHANGED <<sem, dma, leaked>>
     ELSE /\ sem' = [sem EXCEPT !["in"] = [f \in Frags |-> 0]]
          /\ EnqueueAll
  /\ Continue(p, "down", buf_idx["in"], n)
  /\ UNCHANGED <<fileVars, buf_idx, data, unitVars, stale>>

\* How much a read of p copies to the user.
ReadChunk(p) == Smaller(Len(data["in"][b[p]]), left[p])

\* Mutated form: copied from the end of the fragment.
DrainedFromEnd(p) == SubSeq(data["in"][b[p]], 1, Len(data["in"][b[p]]) - ReadChunk(p))

\* What stays in the fragment after that.
Drained(p) == SubSeq(data["in"][b[p]], ReadChunk(p) + 1, Len(data["in"][b[p]]))

\* The copy, and what follows from it: units stay behind and read ends with an
\* up, or the fragment is empty, maybe from the start, goes to the DMA again,
\* which nobody checks, and read goes on with the next one.
ReadCopy(p) ==
  /\ At(p, "read", "copy")
  /\ delivered' = delivered + ReadChunk(p)
  /\ data' = [data EXCEPT !["in"][b[p]] = Drained(p)]
  /\ \/ /\ Drained(p) # <<>>
        /\ Up("in", b[p])
        /\ Return(p)
        /\ UNCHANGED <<buf_idx, dma, leaked>>
     \/ /\ Drained(p) = <<>>
        /\ Enqueue("in", b[p], <<>>) \/ EnqueueFails("in")
        /\ NEXT_BUF("in")
        /\ Loop(p, "in", left[p] - ReadChunk(p))
        /\ UNCHANGED sem
  /\ UNCHANGED <<fileVars, buffers, accepted, played, captured, overlapped, stale>>

-----------------------------------------------------------------------------
(* ioctl *)

\* SNDCTL_DSP_SYNC on any open file; without output buffers it does nothing.
SyncCall(p) ==
  /\ Enter(p, "sync", {"out"})
  /\ buffers["out"]
  /\ SyncFrom(p)
  /\ UNCHANGED <<fileVars, streamVars, unitVars, leaked, stale>>

\* Mutated form: sync does not move on to the next fragment.
SyncDownNoNext(p) ==
  /\ op[p] \in {"sync", "release"}
  /\ pc[p] = "down"
  /\ Down("out", b[p])
  /\ Enqueue("out", b[p], data["out"][b[p]])
  /\ data' = [data EXCEPT !["out"][b[p]] = <<>>]
  /\ Continue(p, "wait", b[p], 0)
  /\ UNCHANGED <<fileVars, buffers, buf_idx, op, unitVars, overlapped, stale>>

\* The down of audio_sync, in ioctl or release, is not interruptible.  What
\* it enqueues is what the fragment holds by now; a failure is not noticed.
SyncDown(p) ==
  /\ op[p] \in {"sync", "release"}
  /\ pc[p] = "down"
  /\ Down("out", b[p])
  /\ Enqueue("out", b[p], data["out"][b[p]]) \/ EnqueueFails("out")
  /\ data' = [data EXCEPT !["out"][b[p]] = <<>>]
  /\ NEXT_BUF("out")
  /\ Continue(p, "wait", Prev(buf_idx'["out"]), 0)
  /\ UNCHANGED <<fileVars, buffers, op, unitVars, overlapped, stale>>

\* down_interruptible and up at once (or, with signalled, -EINTR).
SyncEnd(p, signalled) ==
  /\ At(p, "sync", "wait")
  /\ (sem["out"][b[p]] = 0) = signalled
  /\ Return(p)
  /\ UNCHANGED <<fileVars, streamVars, unitVars, pathVars>>

\* SNDCTL_DSP_RESET clears the streams of the file, whoever is using them.
Reset(p) ==
  /\ OpenFile(p)
  /\ audio_clear_buf(mode[fd[p]], p)
  /\ UNCHANGED <<fileVars, procVars>>

\* SNDCTL_DSP_SETFRAGMENT (the sizes are abstracted): -EBUSY when the file's
\* output, or if it has none its input, has buffers already.  For want of
\* memory it may set up the output alone, or nothing.
SetFragment(p) ==
  /\ OpenFile(p)
  /\ ~buffers[IF "out" \in mode[fd[p]] THEN "out" ELSE "in"]
  /\ \E S \in {mode[fd[p]], mode[fd[p]] \intersect {"out"}} : audio_setup_buf(S)
  /\ UNCHANGED <<fileVars, buf_idx, data, sem, dma, procVars, unitVars, pathVars>>

smdk2410_audio_ioctl(p) ==
  \/ SyncCall(p)
  \/ SyncDown(p)
  \/ \E signalled \in BOOLEAN : SyncEnd(p, signalled)
  \/ Reset(p)
  \/ SetFragment(p)

-----------------------------------------------------------------------------
(* poll *)

\* The loop over the fragments breaks after the first: the mask only tells
\* of fragment 0.
FragZeroFree(p) == \E s \in mode[fd[p]] : sem[s][0] > 0

\* poll sets missing buffers up (an input without enqueueing them), joins the
\* wait queues of the current fragments and looks at the masks.
PollCall(p) ==
  /\ Enter(p, "poll", mode[fd[p]])
  /\ audio_setup_buf(mode[fd[p]])
  /\ pc' = [pc EXCEPT ![p] = "poll"]
  /\ queues' = [queues EXCEPT ![p] = {<<s, buf_idx[s]>> : s \in mode[fd[p]]}]
  /\ UNCHANGED <<fileVars, buf_idx, data, sem, dma, b, left, unitVars, leaked, stale>>

\* poll sets the input up and then finds no memory for the output: -ENOMEM.
PollNoMemory(p) ==
  /\ OpenFile(p)
  /\ mode[fd[p]] = Streams
  /\ ~buffers["out"]
  /\ audio_setup_buf({"in"})
  /\ UNCHANGED <<fileVars, buf_idx, data, sem, dma, procVars, unitVars, pathVars>>

PollMask(p) ==
  /\ At(p, "poll", "poll")
  /\ \/ FragZeroFree(p) /\ Return(p)
     \/ /\ ~FragZeroFree(p)
        /\ pc' = [pc EXCEPT ![p] = "pollsleep"]
        /\ UNCHANGED <<op, b, left, queues>>
  /\ UNCHANGED <<fileVars, streamVars, unitVars, pathVars>>

PollTimeout(p) ==
  /\ At(p, "poll", "pollsleep")
  /\ Return(p)
  /\ UNCHANGED <<fileVars, streamVars, unitVars, pathVars>>

smdk2410_audio_poll(p) == PollCall(p) \/ PollNoMemory(p) \/ PollMask(p) \/ PollTimeout(p)

-----------------------------------------------------------------------------
(* The DMA callbacks *)

\* Mutated form: the callback does not wake pollers.
WakeNobody(s, f) == UNCHANGED pc

\* wake_up(&b->sem.wait) for the pollers; a thread in down tests sem itself.
WakePollers(s, f) ==
  pc' = [p \in Procs |-> IF pc[p] = "pollsleep" /\ <<s, f>> \in queues[p]
                         THEN "poll" ELSE pc[p]]

\* The DMA has played the buffer at the head of its queue.  Without the
\* transmitter set up it never gets there.
audio_dmaout_done_callback ==
  /\ iis = "out"
  /\ dma["out"] # <<>>
  /\ LET head == Head(dma["out"])
     IN /\ Up("out", head.frag)
        /\ WakePollers("out", head.frag)
        /\ played' = IF head.units = <<>> THEN played
                     ELSE head.units[Len(head.units)]
  /\ dma' = [dma EXCEPT !["out"] = Tail(@)]
  /\ UNCHANGED <<fileVars, buffers, buf_idx, data, op, b, left, queues,
                 accepted, captured, delivered, pathVars>>

\* The DMA has filled the buffer at the head of its queue.
audio_dmain_done_callback ==
  /\ iis = "in"
  /\ dma["in"] # <<>>
  /\ captured + FragSize <= MaxCaptured
  /\ LET f == Head(dma["in"]).frag
     IN /\ Up("in", f)
        /\ WakePollers("in", f)
        /\ data' = [data EXCEPT !["in"][f] = Units(captured, captured + FragSize)]
  /\ captured' = captured + FragSize
  /\ dma' = [dma EXCEPT !["in"] = Tail(@)]
  /\ UNCHANGED <<fileVars, buffers, buf_idx, op, b, left, queues, accepted,
                 played, delivered, pathVars>>

-----------------------------------------------------------------------------
(* The kernel's file table (external) *)

\* A thread, or a child, that shares p's descriptor.
Inherit(p, q) ==
  /\ OpenFile(p)
  /\ pc[q] = "user"
  /\ fd[q] = None
  /\ fd' = [fd EXCEPT ![q] = fd[p]]
  /\ UNCHANGED <<mode, ref, iis, streamVars, procVars, unitVars, pathVars>>

CloseShared(p) ==
  /\ OpenFile(p)
  /\ ~LastReference(p)
  /\ fd' = [fd EXCEPT ![p] = None]
  /\ UNCHANGED <<mode, ref, iis, streamVars, procVars, unitVars, pathVars>>

-----------------------------------------------------------------------------

\* When a handler's buffers have been freed its next step uses freed memory;
\* from there on anything may happen, and the model ends.
Next ==
  /\ stale = {}
  /\ \/ audio_dmaout_done_callback
     \/ audio_dmain_done_callback
     \/ \E p \in Procs :
          \/ \E f \in Files, m \in (SUBSET Streams) \ {{}} : smdk2410_audio_open(p, f, m)
          \/ smdk2410_audio_release(p)
          \/ \E n \in Counts : WriteCall(p, n) \/ ReadCall(p, n)
          \/ LoopDown(p) \/ LoopDownFails(p) \/ LoopFault(p)
          \/ WriteCopy(p) \/ ReadCopy(p)
          \/ smdk2410_audio_ioctl(p)
          \/ smdk2410_audio_poll(p)
          \/ CloseShared(p)
          \/ \E q \in Procs : Inherit(p, q)

Spec == Init /\ [][Next]_vars

\* What p's handler does by itself, without a signal or a fault.
Step(p) ==
  \/ LoopDown(p) \/ WriteCopy(p) \/ ReadCopy(p)
  \/ SyncDown(p) \/ SyncEnd(p, FALSE) \/ ReleaseEnd(p, FALSE)
  \/ PollMask(p)

\* The DMA plays and fills what it has, and a handler whose semaphore is up
\* again and again gets it.  Nothing is assumed of signals or of what
\* applications call.
Fairness ==
  /\ WF_vars(audio_dmaout_done_callback)
  /\ WF_vars(audio_dmain_done_callback)
  /\ \A p \in Procs : SF_vars(Step(p))

FairSpec == Spec /\ Fairness

-----------------------------------------------------------------------------
(* Properties *)

\* p's handler has fragment f of stream s in its hands.
Holds(p, s, f) ==
  /\ pc[p] = "copy"
  /\ b[p] = f
  /\ s = IF op[p] = "read" THEN "in" ELSE "out"

\* `Down before touching the buffer': a fragment is in the hands of one
\* handler, or once in the DMA queue, or free, however many threads use the
\* stream and whatever fails, and its semaphore is up only when it is free.
FragmentExclusive ==
  stale = {} =>
    \A s \in Streams :
      /\ \A p \in Procs, f \in Frags : Holds(p, s, f) =>
           /\ sem[s][f] = 0
           /\ \A q \in Procs : Holds(q, s, f) => q = p
           /\ \A i \in 1 .. Len(dma[s]) : dma[s][i].frag # f
      /\ \A i \in 1 .. Len(dma[s]) :
           /\ sem[s][dma[s][i].frag] = 0
           /\ \A j \in 1 .. Len(dma[s]) : dma[s][i].frag = dma[s][j].frag => i = j

\* At most one open file may use a stream, from its open until its release
\* has waited for the last fragment.
OneFilePerStream ==
  \A f, g \in Files : mode[f] \intersect mode[g] # {} => f = g

\* Nothing has mixed up or lost fragments: no two threads were inside the
\* stream at once since it got its buffers, and every enqueue succeeded.
Orderly(s) == s \notin overlapped \union leaked

\* What has been written and not yet been played is in the DMA queue and the
\* current fragment, complete and in order.
PlaysInOrder ==
  Orderly("out") =>
    LET cur == buf_idx["out"]
        sent == [i \in 1 .. Len(dma["out"]) |-> dma["out"][i].units]
    IN /\ FlattenSeq(Append(sent, data["out"][cur])) = Units(played, accepted)
       /\ \A f \in Frags \ {cur} : data["out"][f] = <<>>

\* What has been captured and not yet been read is in the fragments from the
\* current one on, complete and in order.
CapturesInOrder ==
  Orderly("in") =>
    FlattenSeq([i \in 1 .. NbFrags |-> data["in"][(buf_idx["in"] + i - 1) % NbFrags]])
      = Units(delivered, captured)

\* When audio_sync has got its semaphore, everything written has been played:
\* waiting for one fragment is enough.
SyncDrains ==
  \A p \in Procs :
    pc[p] = "wait" /\ sem["out"][b[p]] = 1 /\ Orderly("out") => played = accepted

\* Although poll looks at fragment 0 only, what it promises is true of the
\* current fragment: it is free, or has data.  (Before the first read an
\* input's empty fragment 0 counts as readable.)
PollPromise ==
  \A p \in Procs : At(p, "poll", "poll") =>
    \A s \in mode[fd[p]] :
      sem[s][0] = 1 /\ Orderly(s) /\ (s = "in" => data[s][0] # <<>>)
        => sem[s][buf_idx[s]] = 1 /\ (s = "in" => data[s][buf_idx[s]] # <<>>)

\* Buffers are freed under a handler only by a step that opens and closes no
\* file, as RESET is, or, since SYNC does not look at the mode of its file, under
\* a SYNC through a file without output: by the close of the file that writes.
\* (The code does both.)
FreedOnlyByReset ==
  [][\A p \in stale' :
       \/ UNCHANGED fileVars
       \/ op[p] = "sync" /\ "out" \notin mode[fd[p]]]_vars

\* A write, a sync, a close or a read ends when the bus is set up for its
\* direction: every fragment that it waits for is on its way through the DMA,
\* unless an enqueue failed (or the model's bound keeps the DMA from filling).
CallsEnd ==
  \A p \in Procs :
    op[p] \notin {"none", "poll"} /\ iis = LoopStream(p)
      ~> \/ pc[p] = "user" \/ iis \in leaked \/ stale # {}
         \/ iis = "in" /\ captured + FragSize > MaxCaptured

\* A poll that sleeps while fragment 0 is the current one is woken.  (At
\* another fragment it waits for that one's wait queue, which may stay quiet
\* for ever.)
PollEnds ==
  \A p \in Procs :
    pc[p] = "pollsleep" /\ queues[p] = {<<iis, 0>>} /\ Orderly(iis)
      ~> \/ pc[p] = "user" \/ stale # {} \/ ~Orderly(iis)
         \/ captured + FragSize > MaxCaptured
=============================================================================
