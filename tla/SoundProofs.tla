---------------------------- MODULE SoundProofs ----------------------------
(***************************************************************************)
(* For any number of threads, files and fragments: no two open files share *)
(* a stream, every fragment is in the hands of one handler, or once in the *)
(* DMA queue, or free, and what is written is played, what is captured is  *)
(* read, a sync waits long enough and poll tells the truth.                *)
(*                                                                         *)
(* FragmentExclusive is inductive with two facts: a thread is in a copy    *)
(* only inside write or read (Places), and while nobody's buffers have     *)
(* been freed under it a write or read has buffers (Buffered), so that the *)
(* first read, which enqueues every fragment, finds nobody in a copy.      *)
(* OneFilePerStream is inductive with what the counters say of the modes   *)
(* (Counted) and with the exclusive reference of a thread inside release   *)
(* (LastInside).  FreedOnlyByReset rests on it, and on handlers running on *)
(* open files that allow them (InsideFile).                                *)
(*                                                                         *)
(* The four promises rest on the shape of an orderly stream (Ordered): its *)
(* queue holds the fragments before the current one in the order of the    *)
(* ring (Consecutive), what is down is held or queued (Accounted), nobody  *)
(* is inside it with others, but for a sync through another file while a   *)
(* release waits (Alone), an input's filled fragments are the last ones    *)
(* before its queue (Shaped), and what a sync waits for is the last        *)
(* fragment with something to play (Settled).  The units themselves are    *)
(* FlattenSeq of fragments, so lemmas about it come first; they need an    *)
(* induction, which SetInduction does with sets.                           *)
(*                                                                         *)
(* At the end, what the parameters of applications lead to (DspSettings).  *)
(***************************************************************************)
EXTENDS Sound, DspSettings, SequenceTheorems, FiniteSetTheorems, FunctionTheorems, TLAPS

Places ==
  \A p \in Procs :
    /\ op[p] = "none" <=> pc[p] = "user"
    /\ pc[p] = "copy" => op[p] \in {"write", "read"}
    /\ op[p] \in {"write", "read"} => pc[p] \in {"down", "copy"}

Buffered ==
  stale = {} =>
    \A p \in Procs : op[p] \in {"write", "read"} => buffers[LoopStream(p)]

Counted ==
  \A f \in Files :
    /\ "out" \in mode[f] => ref["out"] = 1
    /\ "in" \in mode[f] => ref["in"] = 1 \/ "out" \in mode[f]

LastInside ==
  \A p \in Procs :
    op[p] = "release" =>
      /\ fd[p] # None
      /\ "out" \in mode[fd[p]]
      /\ \A q \in Procs \ {p} : fd[q] # fd[p]

Fits == \A s \in Streams, f \in Frags : Len(data[s][f]) <= FragSize

-----------------------------------------------------------------------------
(* Types *)

\* Neighbours of a fragment are fragments.
LEMMA FragFacts ==
  /\ 0 \in Frags
  /\ \A f \in Frags : Prev(f) \in Frags /\ (f + 1) % NbFrags \in Frags
  /\ \A i \in 1 .. NbFrags : i - 1 \in Frags
BY SoundAssumption DEF Frags, Prev

\* Units is a sequence of the length it should have.
LEMMA UnitsFacts ==
  ASSUME NEW m \in Nat, NEW n \in Nat
  PROVE  /\ Units(m, m + n) \in Seq(Nat)
         /\ Len(Units(m, m + n)) = n
<1>1. m + n - m = n
  OBVIOUS
<1>2. Units(m, m + n) = [k \in 1 .. n |-> m + k]
  BY <1>1 DEF Units
<1>3. \A k \in 1 .. n : m + k \in Nat
  OBVIOUS
<1> QED
  BY <1>2, <1>3

\* A handler's return and its next position keep the types.
LEMMA ReturnTyped ==
  ASSUME TypeOK, NEW p \in Procs, Return(p)
  PROVE  /\ op' \in [Procs -> {"none", "write", "read", "sync", "release", "poll"}]
         /\ pc' \in [Procs -> {"user", "down", "copy", "wait", "poll", "pollsleep"}]
         /\ b' \in [Procs -> Frags]
         /\ left' \in [Procs -> Nat]
         /\ queues' \in [Procs -> SUBSET (Streams \X Frags)]
BY FragFacts DEF TypeOK, Return

\* Going on in a handler keeps the types.
LEMMA ContinueTyped ==
  ASSUME TypeOK, NEW p \in Procs, NEW to \in {"down", "wait"}, NEW f \in Frags,
         NEW n \in Nat, Continue(p, to, f, n)
  PROVE  /\ pc' \in [Procs -> {"user", "down", "copy", "wait", "poll", "pollsleep"}]
         /\ b' \in [Procs -> Frags]
         /\ left' \in [Procs -> Nat]
         /\ queues' \in [Procs -> SUBSET (Streams \X Frags)]
BY DEF TypeOK, Continue

\* A semaphore that is up is downed, and one that is down is upped.
LEMMA SemTyped ==
  ASSUME TypeOK, NEW s \in Streams, NEW f \in Frags,
         Down(s, f) \/ (sem[s][f] = 0 /\ Up(s, f))
  PROVE  sem' \in [Streams -> [Frags -> {0, 1}]]
<1>1. ASSUME NEW v \in {0, 1}, sem' = [sem EXCEPT ![s][f] = v]
      PROVE  sem' \in [Streams -> [Frags -> {0, 1}]]
  BY <1>1 DEF TypeOK
<1>2. CASE Down(s, f)
  <2>1. sem[s][f] - 1 = 0
    BY <1>2 DEF TypeOK, Down
  <2> QED
    BY <1>1, <1>2, <2>1 DEF Down
<1>3. CASE sem[s][f] = 0 /\ Up(s, f)
  BY <1>1, <1>3 DEF Up
<1> QED
  BY <1>2, <1>3

\* The DMA queue holds entries.
LEMMA EnqueueTyped ==
  ASSUME TypeOK, NEW s \in Streams, NEW f \in Frags, NEW units \in Seq(Nat),
         Enqueue(s, f, units) \/ EnqueueFails(s)
  PROVE  /\ dma' \in [Streams -> Seq(Entries)]
         /\ leaked' \in SUBSET Streams
<1>1. [frag |-> f, units |-> units] \in Entries
  BY DEF Entries
<1>2. Append(dma[s], [frag |-> f, units |-> units]) \in Seq(Entries)
  BY <1>1 DEF TypeOK
<1> QED
  BY <1>2 DEF TypeOK, Enqueue, EnqueueFails

\* The next fragment is a fragment.
LEMMA NextBufTyped ==
  ASSUME TypeOK, NEW s \in Streams, NEXT_BUF(s)
  PROVE  buf_idx' \in [Streams -> Frags]
BY FragFacts DEF TypeOK, NEXT_BUF

\* Freeing buffers keeps the types.
LEMMA ClearTyped ==
  ASSUME TypeOK, NEW S \in SUBSET Streams, NEW p \in Procs, audio_clear_buf(S, p)
  PROVE  /\ buffers' \in [Streams -> BOOLEAN]
         /\ buf_idx' \in [Streams -> Frags]
         /\ data' \in [Streams -> [Frags -> Seq(Nat)]]
         /\ sem' \in [Streams -> [Frags -> {0, 1}]]
         /\ dma' \in [Streams -> Seq(Entries)]
         /\ accepted' \in Nat /\ played' \in Nat
         /\ captured' \in Nat /\ delivered' \in Nat
         /\ overlapped' \in SUBSET Streams
         /\ leaked' \in SUBSET Streams
         /\ stale' \in SUBSET Procs
<1>1. buffers' \in [Streams -> BOOLEAN]
  BY DEF TypeOK, audio_clear_buf
<1>2. buf_idx' \in [Streams -> Frags]
  BY FragFacts DEF TypeOK, audio_clear_buf
<1>3. data' \in [Streams -> [Frags -> Seq(Nat)]]
  <2>1. Empty \in [Frags -> Seq(Nat)]
    BY DEF Empty
  <2> QED
    BY <2>1 DEF TypeOK, audio_clear_buf
<1>4. sem' \in [Streams -> [Frags -> {0, 1}]]
  BY DEF TypeOK, audio_clear_buf, Free
<1>5. dma' \in [Streams -> Seq(Entries)]
  <2>1. <<>> \in Seq(Entries)
    OBVIOUS
  <2> QED
    BY <2>1 DEF TypeOK, audio_clear_buf
<1>6. /\ accepted' \in Nat /\ played' \in Nat
      /\ captured' \in Nat /\ delivered' \in Nat
  BY DEF TypeOK, audio_clear_buf
<1>7. overlapped' \in SUBSET Streams /\ leaked' \in SUBSET Streams /\ stale' \in SUBSET Procs
  BY DEF TypeOK, audio_clear_buf
<1> QED
  BY <1>1, <1>2, <1>3, <1>4, <1>5, <1>6, <1>7

\* What a write copies fits into its fragment and is part of its count.
LEMMA WriteFacts ==
  ASSUME TypeOK, Fits, NEW p \in Procs
  PROVE  WriteChunk(p) \in Nat /\ Filled(p) \in Seq(Nat)
<1>1. /\ data["out"][b[p]] \in Seq(Nat) /\ Len(data["out"][b[p]]) \in Nat
      /\ Len(data["out"][b[p]]) <= FragSize /\ left[p] \in Nat
  BY DEF TypeOK, Fits, Streams
<1>2. WriteChunk(p) \in Nat
  BY <1>1, SoundAssumption DEF WriteChunk, Smaller
<1>3. Units(accepted, accepted + WriteChunk(p)) \in Seq(Nat)
  BY <1>2, UnitsFacts DEF TypeOK
<1> QED
  BY <1>1, <1>2, <1>3 DEF Filled

\* What a read copies is in its fragment and is part of its count.
LEMMA ReadFacts ==
  ASSUME TypeOK, Fits, NEW p \in Procs
  PROVE  ReadChunk(p) \in Nat /\ Drained(p) \in Seq(Nat) /\ Len(Drained(p)) <= FragSize
<1>1. /\ data["in"][b[p]] \in Seq(Nat) /\ Len(data["in"][b[p]]) \in Nat
      /\ Len(data["in"][b[p]]) <= FragSize /\ left[p] \in Nat /\ FragSize \in Nat
  BY SoundAssumption DEF TypeOK, Fits, Streams
<1>2. ReadChunk(p) \in Nat /\ ReadChunk(p) <= Len(data["in"][b[p]])
  BY <1>1 DEF ReadChunk, Smaller
<1> DEFINE u == data["in"][b[p]]
           n == ReadChunk(p)
<1>3. ASSUME NEW x \in Seq(Nat), NEW k \in Nat, k <= Len(x)
      PROVE  /\ SubSeq(x, k + 1, Len(x)) \in Seq(Nat)
             /\ Len(SubSeq(x, k + 1, Len(x))) = Len(x) - k
  <2>1. k + 1 \in Int /\ Len(x) \in Int /\ \A i \in k + 1 .. Len(x) : x[i] \in Nat
    BY <1>3
  <2>2. /\ SubSeq(x, k + 1, Len(x)) \in Seq(Nat)
        /\ Len(SubSeq(x, k + 1, Len(x)))
             = IF k + 1 <= Len(x) THEN Len(x) - (k + 1) + 1 ELSE 0
    BY <2>1, SubSeqProperties
  <2> QED
    BY <1>3, <2>2
<1>4. Drained(p) \in Seq(Nat) /\ Len(Drained(p)) = Len(u) - n
  BY <1>1, <1>2, <1>3 DEF Drained
<1> QED
  BY <1>1, <1>2, <1>4

\* Storing units in a fragment.
LEMMA DataTyped ==
  ASSUME TypeOK, Fits, NEW s \in Streams, NEW f \in Frags, NEW units \in Seq(Nat),
         Len(units) <= FragSize, data' = [data EXCEPT ![s][f] = units]
  PROVE  data' \in [Streams -> [Frags -> Seq(Nat)]] /\ Fits'
<1>1. data' \in [Streams -> [Frags -> Seq(Nat)]]
  BY DEF TypeOK
<1>2. ASSUME NEW t \in Streams, NEW g \in Frags PROVE Len(data'[t][g]) <= FragSize
  <2>1. data'[t][g] = IF t = s /\ g = f THEN units ELSE data[t][g]
    BY DEF TypeOK
  <2> QED
    BY <2>1 DEF Fits
<1> QED
  BY <1>1, <1>2 DEF Fits

\* Cleared fragments are not too full.
LEMMA ClearFits ==
  ASSUME TypeOK, Fits, NEW S \in SUBSET Streams, NEW p \in Procs, audio_clear_buf(S, p)
  PROVE  Fits'
<1>1. ASSUME NEW t \in Streams, NEW g \in Frags PROVE Len(data'[t][g]) <= FragSize
  <2>1. data'[t][g] = IF t \in S THEN <<>> ELSE data[t][g]
    BY DEF TypeOK, audio_clear_buf, Empty
  <2> QED
    BY <2>1, SoundAssumption DEF Fits
<1> QED
  BY <1>1 DEF Fits

\* A forgotten file leaves well-typed files.
LEMMA ForgetTyped ==
  ASSUME TypeOK, NEW p \in Procs, Forget(p)
  PROVE  /\ fd' \in [Procs -> Files \union {None}]
         /\ mode' \in [Files -> SUBSET Streams]
         /\ iis' \in Streams \union {"off"}
BY DEF TypeOK, Forget

\* The types survive open, release and the sharing of descriptors.
LEMMA FileTypeStep ==
  ASSUME TypeOK, Fits, NEW p \in Procs,
         \/ \E f \in Files, m \in (SUBSET Streams) \ {{}} : smdk2410_audio_open(p, f, m)
         \/ smdk2410_audio_release(p)
         \/ CloseShared(p)
         \/ \E q \in Procs : Inherit(p, q)
  PROVE  TypeOK' /\ Fits'
<1>1. ASSUME NEW f \in Files, NEW m \in SUBSET Streams, smdk2410_audio_open(p, f, m)
      PROVE  TypeOK' /\ Fits'
  <2>1. /\ fd' \in [Procs -> Files \union {None}]
        /\ mode' \in [Files -> SUBSET Streams]
        /\ ref' \in [Streams -> {0, 1}]
    BY <1>1 DEF TypeOK, smdk2410_audio_open
  <2>2. UNCHANGED procVars
    BY <1>1 DEF smdk2410_audio_open
  <2>3. CASE \A s \in Streams : ref[s] = 0
    <3>1. audio_clear_buf(m, p) /\ iis' \in Streams \union {"off"}
      BY <1>1, <2>3 DEF smdk2410_audio_open, Streams
    <3> QED
      BY <2>1, <2>2, <3>1, ClearTyped, ClearFits DEF TypeOK, procVars
  <2>4. CASE ~ \A s \in Streams : ref[s] = 0
    BY <1>1, <2>1, <2>2, <2>4
    DEF TypeOK, Fits, smdk2410_audio_open, procVars, streamVars, unitVars, pathVars
  <2> QED
    BY <2>3, <2>4
<1>2. CASE smdk2410_audio_release(p)
  <2>1. CASE ReleaseAtOnce(p)
    <3>1. /\ mode[fd[p]] \in SUBSET Streams
          /\ audio_clear_buf(mode[fd[p]], p)
          /\ Forget(p)
          /\ UNCHANGED procVars
      BY <2>1 DEF TypeOK, ReleaseAtOnce, OpenFile
    <3>2. ref' \in [Streams -> {0, 1}]
      BY <2>1 DEF TypeOK, ReleaseAtOnce
    <3> QED
      BY <3>1, <3>2, ForgetTyped, ClearTyped, ClearFits DEF TypeOK, procVars
  <2>2. CASE ReleaseSync(p)
    <3>1. /\ mode[fd[p]] \ {"out"} \in SUBSET Streams
          /\ audio_clear_buf(mode[fd[p]] \ {"out"}, p)
          /\ SyncFrom(p)
      BY <2>2 DEF TypeOK, ReleaseSync, OpenFile
    <3>2. ref' \in [Streams -> {0, 1}] /\ UNCHANGED <<fd, mode, iis>>
      BY <2>2 DEF TypeOK, ReleaseSync
    <3>3. op' \in [Procs -> {"none", "write", "read", "sync", "release", "poll"}]
      BY <2>2 DEF TypeOK, ReleaseSync
    <3>4. buf_idx["out"] \in Frags /\ Prev(buf_idx["out"]) \in Frags
      BY FragFacts DEF TypeOK, Streams
    <3>5. /\ pc' \in [Procs -> {"user", "down", "copy", "wait", "poll", "pollsleep"}]
          /\ b' \in [Procs -> Frags]
          /\ left' \in [Procs -> Nat]
          /\ queues' \in [Procs -> SUBSET (Streams \X Frags)]
      BY <3>1, <3>4, ContinueTyped DEF SyncFrom
    <3> QED
      BY <3>1, <3>2, <3>3, <3>5, ClearTyped, ClearFits DEF TypeOK
  <2>3. ASSUME NEW signalled \in BOOLEAN, ReleaseEnd(p, signalled)
        PROVE  TypeOK' /\ Fits'
    <3>1. {"out"} \in SUBSET Streams /\ audio_clear_buf({"out"}, p) /\ Forget(p) /\ Return(p)
      BY <2>3 DEF ReleaseEnd, Streams
    <3>2. ref' \in [Streams -> {0, 1}]
      BY <2>3 DEF TypeOK, ReleaseEnd
    <3> QED
      BY <3>1, <3>2, ForgetTyped, ReturnTyped, ClearTyped, ClearFits DEF TypeOK
  <2> QED
    BY <1>2, <2>1, <2>2, <2>3 DEF smdk2410_audio_release
<1>3. CASE CloseShared(p)
  BY <1>3 DEF TypeOK, Fits, CloseShared, streamVars, procVars, unitVars, pathVars
<1>4. ASSUME NEW q \in Procs, Inherit(p, q) PROVE TypeOK' /\ Fits'
  BY <1>4 DEF TypeOK, Fits, Inherit, streamVars, procVars, unitVars, pathVars
<1> QED
  BY <1>1, <1>2, <1>3, <1>4

\* The handlers' ways out and on, with what they need to know of sem.
LEMMA LoopTypeStep ==
  ASSUME TypeOK, Fits, NEW p \in Procs, sem[LoopStream(p)][b[p]] = 0 \/ ~(pc[p] = "copy"),
         LoopDown(p) \/ LoopDownFails(p) \/ LoopFault(p)
  PROVE  TypeOK' /\ Fits'
<1>1. LoopStream(p) \in Streams /\ b[p] \in Frags
  BY DEF TypeOK, LoopStream, Streams
<1>2. CASE LoopDown(p)
  <2>1. sem' \in [Streams -> [Frags -> {0, 1}]]
    BY <1>1, <1>2, SemTyped DEF LoopDown
  <2>2. pc' \in [Procs -> {"user", "down", "copy", "wait", "poll", "pollsleep"}]
    BY <1>2 DEF TypeOK, LoopDown
  <2> QED
    BY <1>2, <2>1, <2>2 DEF TypeOK, Fits, LoopDown, fileVars, unitVars, pathVars
<1>3. CASE LoopDownFails(p)
  BY <1>3, ReturnTyped DEF TypeOK, Fits, LoopDownFails, fileVars, streamVars, unitVars, pathVars
<1>4. CASE LoopFault(p)
  <2>1. sem' \in [Streams -> [Frags -> {0, 1}]]
    BY <1>1, <1>4, SemTyped DEF LoopFault
  <2>2. Return(p)
    BY <1>4 DEF LoopFault
  <2> QED
    BY <1>4, <2>1, <2>2, ReturnTyped DEF TypeOK, Fits, LoopFault, fileVars, unitVars, pathVars
<1> QED
  BY <1>2, <1>3, <1>4

\* The end of the write and read loops' bodies.
LEMMA LoopTyped ==
  ASSUME TypeOK, NEW p \in Procs, NEW s \in Streams, NEW n \in Nat,
         NEXT_BUF(s), Loop(p, s, n)
  PROVE  /\ op' \in [Procs -> {"none", "write", "read", "sync", "release", "poll"}]
         /\ pc' \in [Procs -> {"user", "down", "copy", "wait", "poll", "pollsleep"}]
         /\ b' \in [Procs -> Frags]
         /\ left' \in [Procs -> Nat]
         /\ queues' \in [Procs -> SUBSET (Streams \X Frags)]
<1>1. buf_idx'[s] \in Frags
  BY NextBufTyped
<1>2. CASE Continue(p, "down", buf_idx'[s], n) /\ UNCHANGED op
  BY <1>1, <1>2, ContinueTyped DEF TypeOK
<1> QED
  BY <1>2, ReturnTyped DEF Loop

\* The types survive the copy of a write, whose fragment is down.
LEMMA WriteTypeStep ==
  ASSUME TypeOK, Fits, NEW p \in Procs, sem["out"][b[p]] = 0, WriteCopy(p)
  PROVE  TypeOK' /\ Fits'
<1>1. "out" \in Streams /\ b[p] \in Frags /\ WriteChunk(p) \in Nat /\ left[p] \in Nat
  BY WriteFacts DEF TypeOK, Streams
<1>2. left[p] - WriteChunk(p) \in Nat
  <2>1. WriteChunk(p) <= left[p]
    <3>1. Len(data["out"][b[p]]) \in Nat
      BY <1>1 DEF TypeOK
    <3> QED
      BY <1>1, <3>1, SoundAssumption DEF WriteChunk, Smaller
  <2> QED
    BY <1>1, <2>1
<1>3. /\ accepted' \in Nat
      /\ UNCHANGED <<fileVars, buffers, played, captured, delivered, overlapped, stale>>
  BY <1>1 DEF TypeOK, WriteCopy
<1>4. CASE /\ Len(Filled(p)) < FragSize
           /\ data' = [data EXCEPT !["out"][b[p]] = Filled(p)]
           /\ Up("out", b[p])
           /\ Return(p)
           /\ UNCHANGED <<buf_idx, dma, leaked>>
  <2>1. sem' \in [Streams -> [Frags -> {0, 1}]]
    BY <1>1, <1>4, SemTyped
  <2>2. Len(Filled(p)) <= FragSize
    BY <1>4, WriteFacts, SoundAssumption
  <2>3. data' \in [Streams -> [Frags -> Seq(Nat)]] /\ Fits'
    BY <1>1, <1>4, <2>2, DataTyped, WriteFacts
  <2> QED
    BY <1>3, <1>4, <2>1, <2>3, ReturnTyped DEF TypeOK, fileVars
<1>5. CASE /\ Len(Filled(p)) = FragSize
           /\ Enqueue("out", b[p], Filled(p))
           /\ data' = [data EXCEPT !["out"][b[p]] = <<>>]
           /\ NEXT_BUF("out")
           /\ Loop(p, "out", left[p] - WriteChunk(p))
           /\ UNCHANGED sem
  <2>1. dma' \in [Streams -> Seq(Entries)] /\ leaked' \in SUBSET Streams
    BY <1>1, <1>5, EnqueueTyped, WriteFacts
  <2>2. data' \in [Streams -> [Frags -> Seq(Nat)]] /\ Fits'
    <3>1. <<>> \in Seq(Nat) /\ Len(<<>>) <= FragSize
      BY SoundAssumption
    <3> QED
      BY <1>1, <1>5, <3>1, DataTyped
  <2>3. buf_idx' \in [Streams -> Frags]
    BY <1>1, <1>5, NextBufTyped
  <2>4. /\ op' \in [Procs -> {"none", "write", "read", "sync", "release", "poll"}]
        /\ pc' \in [Procs -> {"user", "down", "copy", "wait", "poll", "pollsleep"}]
        /\ b' \in [Procs -> Frags]
        /\ left' \in [Procs -> Nat]
        /\ queues' \in [Procs -> SUBSET (Streams \X Frags)]
    BY <1>1, <1>2, <1>5, LoopTyped
  <2> QED
    BY <1>3, <1>5, <2>1, <2>2, <2>3, <2>4 DEF TypeOK, fileVars
<1>6. CASE /\ Len(Filled(p)) = FragSize
           /\ EnqueueFails("out")
           /\ data' = [data EXCEPT !["out"][b[p]] = Filled(p)]
           /\ Return(p)
           /\ UNCHANGED <<buf_idx, sem>>
  <2>1. dma' \in [Streams -> Seq(Entries)] /\ leaked' \in SUBSET Streams
    BY <1>1, <1>6, EnqueueTyped, WriteFacts
  <2>2. Len(Filled(p)) <= FragSize
    BY <1>6, WriteFacts, SoundAssumption
  <2>3. data' \in [Streams -> [Frags -> Seq(Nat)]] /\ Fits'
    BY <1>1, <1>6, <2>2, DataTyped, WriteFacts
  <2> QED
    BY <1>3, <1>6, <2>1, <2>3, ReturnTyped DEF TypeOK, fileVars
<1> QED
  BY <1>4, <1>5, <1>6 DEF WriteCopy

\* The types survive the copy of a read, whose fragment is down.
LEMMA ReadTypeStep ==
  ASSUME TypeOK, Fits, NEW p \in Procs, sem["in"][b[p]] = 0, ReadCopy(p)
  PROVE  TypeOK' /\ Fits'
<1>1. "in" \in Streams /\ b[p] \in Frags /\ ReadChunk(p) \in Nat /\ left[p] \in Nat
  BY ReadFacts DEF TypeOK, Streams
<1>2. left[p] - ReadChunk(p) \in Nat
  <2>1. ReadChunk(p) <= left[p]
    <3>1. Len(data["in"][b[p]]) \in Nat
      BY <1>1 DEF TypeOK
    <3> QED
      BY <1>1, <3>1 DEF ReadChunk, Smaller
  <2> QED
    BY <1>1, <2>1
<1>3. /\ delivered' \in Nat
      /\ UNCHANGED <<fileVars, buffers, accepted, played, captured, overlapped, stale>>
  BY <1>1 DEF TypeOK, ReadCopy
<1>4. data' \in [Streams -> [Frags -> Seq(Nat)]] /\ Fits'
  <2>1. data' = [data EXCEPT !["in"][b[p]] = Drained(p)]
    BY DEF ReadCopy
  <2> QED
    BY <1>1, <2>1, DataTyped, ReadFacts
<1>5. CASE Up("in", b[p]) /\ Return(p) /\ UNCHANGED <<buf_idx, dma, leaked>>
  <2>1. sem' \in [Streams -> [Frags -> {0, 1}]]
    BY <1>1, <1>5, SemTyped
  <2> QED
    BY <1>3, <1>4, <1>5, <2>1, ReturnTyped DEF TypeOK, fileVars
<1>6. CASE /\ Enqueue("in", b[p], <<>>) \/ EnqueueFails("in")
           /\ NEXT_BUF("in")
           /\ Loop(p, "in", left[p] - ReadChunk(p))
           /\ UNCHANGED sem
  <2>1. <<>> \in Seq(Nat)
    OBVIOUS
  <2>2. dma' \in [Streams -> Seq(Entries)] /\ leaked' \in SUBSET Streams
    BY <1>1, <1>6, <2>1, EnqueueTyped
  <2>3. buf_idx' \in [Streams -> Frags]
    BY <1>1, <1>6, NextBufTyped
  <2>4. /\ op' \in [Procs -> {"none", "write", "read", "sync", "release", "poll"}]
        /\ pc' \in [Procs -> {"user", "down", "copy", "wait", "poll", "pollsleep"}]
        /\ b' \in [Procs -> Frags]
        /\ left' \in [Procs -> Nat]
        /\ queues' \in [Procs -> SUBSET (Streams \X Frags)]
    BY <1>1, <1>2, <1>6, LoopTyped
  <2> QED
    BY <1>3, <1>4, <1>6, <2>2, <2>3, <2>4 DEF TypeOK, fileVars
<1> QED
  BY <1>5, <1>6 DEF ReadCopy

\* Whatever the first read's enqueues do, fragments are queued.
LEMMA FirstQueueTyped ==
  ASSUME TypeOK, EnqueueAll
  PROVE  dma' \in [Streams -> Seq(Entries)] /\ leaked' \in SUBSET Streams
<1>1. dma \in [Streams -> Seq(Entries)] /\ leaked \in SUBSET Streams
  BY DEF TypeOK
<1>2. CASE /\ dma' = [dma EXCEPT !["in"] =
                         [i \in 1 .. NbFrags |-> [frag |-> i - 1, units |-> <<>>]]]
           /\ leaked' = leaked
  <2>1. \A i \in 1 .. NbFrags : [frag |-> i - 1, units |-> <<>>] \in Entries
    BY FragFacts DEF Entries
  <2>2. [i \in 1 .. NbFrags |-> [frag |-> i - 1, units |-> <<>>]] \in Seq(Entries)
    BY <2>1, SoundAssumption
  <2> QED
    BY <1>1, <1>2, <2>2
<1>3. ASSUME NEW k \in 0 .. NbFrags - 1, NEW g \in [1 .. k -> Frags],
             dma' = [dma EXCEPT !["in"] = [i \in 1 .. k |-> [frag |-> g[i], units |-> <<>>]]],
             leaked' = leaked \union {"in"}
      PROVE  dma' \in [Streams -> Seq(Entries)] /\ leaked' \in SUBSET Streams
  <2>1. \A i \in 1 .. k : [frag |-> g[i], units |-> <<>>] \in Entries
    BY <1>3 DEF Entries
  <2>2. k \in Nat
    BY <1>3, SoundAssumption
  <2>3. [i \in 1 .. k |-> [frag |-> g[i], units |-> <<>>]] \in Seq(Entries)
    BY <2>1, <2>2
  <2> QED
    BY <1>1, <1>3, <2>3 DEF Streams
<1> QED
  BY <1>2, <1>3 DEF EnqueueAll

\* The types survive the entry of write and read,
LEMMA CallTypeStep ==
  ASSUME TypeOK, Fits, NEW p \in Procs, NEW n \in Counts, WriteCall(p, n) \/ ReadCall(p, n)
  PROVE  TypeOK' /\ Fits'
<1>1. n \in Nat /\ buf_idx["out"] \in Frags /\ buf_idx["in"] \in Frags
  BY SoundAssumption DEF TypeOK, Streams
<1>2. CASE WriteCall(p, n)
  <2>1. /\ op' = [op EXCEPT ![p] = "write"]
        /\ overlapped' \in SUBSET Streams
    BY <1>2 DEF TypeOK, WriteCall, Enter, Streams
  <2>2. Continue(p, "down", buf_idx["out"], n)
    BY <1>2 DEF WriteCall
  <2>3. buffers' \in [Streams -> BOOLEAN]
    BY <1>2 DEF WriteCall, audio_setup_buf, TypeOK
  <2> QED
    BY <1>1, <1>2, <2>1, <2>2, <2>3, ContinueTyped DEF TypeOK, Fits, WriteCall, fileVars, unitVars
<1>3. CASE ReadCall(p, n)
  <2>1. /\ op' = [op EXCEPT ![p] = "read"]
        /\ overlapped' \in SUBSET Streams
    BY <1>3 DEF TypeOK, ReadCall, Enter, Streams
  <2>2. Continue(p, "down", buf_idx["in"], n)
    BY <1>3 DEF ReadCall
  <2>3. buffers' \in [Streams -> BOOLEAN]
    BY <1>3 DEF ReadCall, audio_setup_buf, TypeOK
  <2>4. sem' \in [Streams -> [Frags -> {0, 1}]]
    <3>1. [f \in Frags |-> 0] \in [Frags -> {0, 1}] /\ sem \in [Streams -> [Frags -> {0, 1}]]
      BY DEF TypeOK
    <3>2. sem' = sem \/ sem' = [sem EXCEPT !["in"] = [f \in Frags |-> 0]]
      BY <1>3 DEF ReadCall
    <3> QED
      BY <3>1, <3>2
  <2>5. dma' \in [Streams -> Seq(Entries)] /\ leaked' \in SUBSET Streams
    <3>1. CASE buffers["in"]
      BY <1>3, <3>1 DEF ReadCall, TypeOK
    <3>2. CASE ~buffers["in"]
      BY <1>3, <3>2, FirstQueueTyped DEF ReadCall
    <3> QED
      BY <3>1, <3>2
  <2> QED
    BY <1>1, <1>3, <2>1, <2>2, <2>3, <2>4, <2>5, ContinueTyped
    DEF TypeOK, Fits, ReadCall, fileVars, unitVars
<1> QED
  BY <1>2, <1>3

\* the ioctl requests,
LEMMA IoctlTypeStep ==
  ASSUME TypeOK, Fits, NEW p \in Procs, smdk2410_audio_ioctl(p)
  PROVE  TypeOK' /\ Fits'
<1>1. b[p] \in Frags /\ "out" \in Streams
      /\ buf_idx["out"] \in Frags /\ Prev(buf_idx["out"]) \in Frags
  BY FragFacts DEF TypeOK, Streams
<1>2. CASE SyncCall(p)
  <2>1. /\ op' = [op EXCEPT ![p] = "sync"]
        /\ overlapped' \in SUBSET Streams
        /\ SyncFrom(p)
    BY <1>2 DEF TypeOK, SyncCall, Enter, Streams
  <2>2. /\ pc' \in [Procs -> {"user", "down", "copy", "wait", "poll", "pollsleep"}]
        /\ b' \in [Procs -> Frags]
        /\ left' \in [Procs -> Nat]
        /\ queues' \in [Procs -> SUBSET (Streams \X Frags)]
    BY <1>1, <2>1, ContinueTyped DEF SyncFrom
  <2> QED
    BY <1>2, <2>1, <2>2 DEF TypeOK, Fits, SyncCall, fileVars, streamVars, unitVars
<1>3. CASE SyncDown(p)
  <2>1. <<>> \in Seq(Nat) /\ Len(<<>>) <= FragSize /\ data["out"][b[p]] \in Seq(Nat)
    BY <1>1, SoundAssumption DEF TypeOK
  <2>2. sem' \in [Streams -> [Frags -> {0, 1}]]
    BY <1>1, <1>3, SemTyped DEF SyncDown
  <2>3. dma' \in [Streams -> Seq(Entries)] /\ leaked' \in SUBSET Streams
    BY <1>1, <1>3, <2>1, EnqueueTyped DEF SyncDown
  <2>4. data' \in [Streams -> [Frags -> Seq(Nat)]] /\ Fits'
    BY <1>1, <1>3, <2>1, DataTyped DEF SyncDown
  <2>5. buf_idx' \in [Streams -> Frags]
    BY <1>1, <1>3, NextBufTyped DEF SyncDown
  <2>6. Prev(buf_idx'["out"]) \in Frags
    BY <2>5, FragFacts DEF Streams
  <2>7. Continue(p, "wait", Prev(buf_idx'["out"]), 0) /\ 0 \in Nat /\ "wait" \in {"down", "wait"}
    BY <1>3 DEF SyncDown
  <2>8. /\ pc' \in [Procs -> {"user", "down", "copy", "wait", "poll", "pollsleep"}]
        /\ b' \in [Procs -> Frags]
        /\ left' \in [Procs -> Nat]
        /\ queues' \in [Procs -> SUBSET (Streams \X Frags)]
    BY <2>6, <2>7, ContinueTyped
  <2> QED
    BY <1>3, <2>2, <2>3, <2>4, <2>5, <2>8 DEF TypeOK, SyncDown, fileVars, unitVars
<1>4. ASSUME NEW signalled \in BOOLEAN, SyncEnd(p, signalled) PROVE TypeOK' /\ Fits'
  <2>1. Return(p)
    BY <1>4 DEF SyncEnd
  <2> QED
    BY <1>4, <2>1, ReturnTyped DEF TypeOK, Fits, SyncEnd, fileVars, streamVars, unitVars, pathVars
<1>5. CASE Reset(p)
  <2>1. mode[fd[p]] \in SUBSET Streams /\ audio_clear_buf(mode[fd[p]], p)
    BY <1>5 DEF TypeOK, Reset, OpenFile
  <2> QED
    BY <1>5, <2>1, ClearTyped, ClearFits DEF TypeOK, Reset, fileVars, procVars
<1>6. CASE SetFragment(p)
  <2>1. buffers' \in [Streams -> BOOLEAN]
    BY <1>6 DEF SetFragment, audio_setup_buf, TypeOK
  <2> QED
    BY <1>6, <2>1 DEF TypeOK, Fits, SetFragment, fileVars, procVars, unitVars, pathVars
<1> QED
  BY <1>2, <1>3, <1>4, <1>5, <1>6 DEF smdk2410_audio_ioctl

\* poll,
LEMMA PollTypeStep ==
  ASSUME TypeOK, Fits, NEW p \in Procs, smdk2410_audio_poll(p)
  PROVE  TypeOK' /\ Fits'
<1>1. CASE PollCall(p)
  <2>1. mode[fd[p]] \in SUBSET Streams
    BY <1>1 DEF TypeOK, PollCall, Enter, OpenFile
  <2>2. op' = [op EXCEPT ![p] = "poll"] /\ overlapped' \in SUBSET Streams
    BY <1>1, <2>1 DEF TypeOK, PollCall, Enter
  <2>3. buffers' \in [Streams -> BOOLEAN]
    BY <1>1 DEF PollCall, audio_setup_buf, TypeOK
  <2>4. {<<s, buf_idx[s]>> : s \in mode[fd[p]]} \in SUBSET (Streams \X Frags)
    BY <2>1 DEF TypeOK
  <2>5. queues' \in [Procs -> SUBSET (Streams \X Frags)]
    BY <1>1, <2>4 DEF PollCall, TypeOK
  <2> QED
    BY <1>1, <2>2, <2>3, <2>5 DEF TypeOK, Fits, PollCall, fileVars, unitVars
<1>2. CASE PollMask(p)
  <2>1. \/ Return(p)
        \/ pc' = [pc EXCEPT ![p] = "pollsleep"] /\ UNCHANGED <<op, b, left, queues>>
    BY <1>2 DEF PollMask
  <2>2. /\ op' \in [Procs -> {"none", "write", "read", "sync", "release", "poll"}]
        /\ pc' \in [Procs -> {"user", "down", "copy", "wait", "poll", "pollsleep"}]
        /\ b' \in [Procs -> Frags]
        /\ left' \in [Procs -> Nat]
        /\ queues' \in [Procs -> SUBSET (Streams \X Frags)]
    BY <2>1, ReturnTyped DEF TypeOK
  <2> QED
    BY <1>2, <2>2 DEF TypeOK, Fits, PollMask, fileVars, streamVars, unitVars, pathVars
<1>3. CASE PollTimeout(p)
  <2>1. Return(p)
    BY <1>3 DEF PollTimeout
  <2> QED
    BY <1>3, <2>1, ReturnTyped DEF TypeOK, Fits, PollTimeout, fileVars, streamVars, unitVars, pathVars
<1>4. CASE PollNoMemory(p)
  <2>1. buffers' \in [Streams -> BOOLEAN]
    BY <1>4 DEF PollNoMemory, audio_setup_buf, TypeOK
  <2> QED
    BY <1>4, <2>1 DEF TypeOK, Fits, PollNoMemory, fileVars, procVars, unitVars, pathVars
<1> QED
  BY <1>1, <1>2, <1>3, <1>4 DEF smdk2410_audio_poll

\* What the callbacks find at the head of a channel's queue.
LEMMA HeadFacts ==
  ASSUME TypeOK, NEW s \in Streams, dma[s] # <<>>
  PROVE  /\ Head(dma[s]) = dma[s][1] /\ 1 \in 1 .. Len(dma[s])
         /\ dma[s][1] \in Entries
         /\ dma[s][1].frag \in Frags
         /\ dma[s][1].units \in Seq(Nat)
         /\ Tail(dma[s]) \in Seq(Entries)
         /\ Len(Tail(dma[s])) = Len(dma[s]) - 1
         /\ \A i \in 1 .. Len(Tail(dma[s])) : Tail(dma[s])[i] = dma[s][i + 1]
<1>1. dma[s] \in Seq(Entries)
  BY DEF TypeOK
<1>2. /\ Head(dma[s]) = dma[s][1] /\ 1 \in 1 .. Len(dma[s])
      /\ dma[s][1] \in Entries
      /\ Tail(dma[s]) \in Seq(Entries)
      /\ Len(Tail(dma[s])) = Len(dma[s]) - 1
      /\ \A i \in 1 .. Len(Tail(dma[s])) : Tail(dma[s])[i] = dma[s][i + 1]
  BY <1>1, HeadTailProperties
<1> QED
  BY <1>2 DEF Entries

\* and the DMA callbacks, whose fragment is down.
LEMMA CallbackTypeStep ==
  ASSUME TypeOK, Fits,
         \A s \in Streams : \A i \in 1 .. Len(dma[s]) : sem[s][dma[s][i].frag] = 0,
         audio_dmaout_done_callback \/ audio_dmain_done_callback
  PROVE  TypeOK' /\ Fits'
<1>1. ASSUME NEW s \in Streams, dma[s] # <<>>, dma' = [dma EXCEPT ![s] = Tail(@)],
             Up(s, Head(dma[s]).frag), WakePollers(s, Head(dma[s]).frag)
      PROVE  /\ dma' \in [Streams -> Seq(Entries)]
             /\ sem' \in [Streams -> [Frags -> {0, 1}]]
             /\ pc' \in [Procs -> {"user", "down", "copy", "wait", "poll", "pollsleep"}]
  <2>1. dma' \in [Streams -> Seq(Entries)]
    BY <1>1, HeadFacts DEF TypeOK
  <2>2. Head(dma[s]).frag \in Frags /\ sem[s][Head(dma[s]).frag] = 0
    BY <1>1, HeadFacts
  <2>3. sem' \in [Streams -> [Frags -> {0, 1}]]
    BY <1>1, <2>2, SemTyped
  <2>4. pc' \in [Procs -> {"user", "down", "copy", "wait", "poll", "pollsleep"}]
    BY <1>1 DEF WakePollers, TypeOK
  <2> QED
    BY <2>1, <2>3, <2>4
<1>2. CASE audio_dmaout_done_callback
  <2>1. /\ "out" \in Streams /\ dma["out"] # <<>> /\ dma' = [dma EXCEPT !["out"] = Tail(@)]
        /\ Up("out", Head(dma["out"]).frag) /\ WakePollers("out", Head(dma["out"]).frag)
        /\ played' = IF Head(dma["out"]).units = <<>> THEN played
                     ELSE Head(dma["out"]).units[Len(Head(dma["out"]).units)]
    BY <1>2 DEF audio_dmaout_done_callback, Streams
  <2>2. played' \in Nat
    <3>1. ASSUME NEW u \in Seq(Nat), u # <<>> PROVE u[Len(u)] \in Nat
      <4>1. Len(u) \in 1 .. Len(u)
        BY <3>1, EmptySeq
      <4> QED
        BY <3>1, <4>1, ElementOfSeq
    <3>2. Head(dma["out"]).units \in Seq(Nat)
      BY <2>1, HeadFacts
    <3> QED
      BY <2>1, <3>1, <3>2 DEF TypeOK
  <2>3. /\ dma' \in [Streams -> Seq(Entries)]
        /\ sem' \in [Streams -> [Frags -> {0, 1}]]
        /\ pc' \in [Procs -> {"user", "down", "copy", "wait", "poll", "pollsleep"}]
    BY <1>1, <2>1
  <2> QED
    BY <1>2, <2>2, <2>3 DEF TypeOK, Fits, audio_dmaout_done_callback, fileVars, pathVars
<1>3. CASE audio_dmain_done_callback
  <2>1. /\ "in" \in Streams /\ dma["in"] # <<>> /\ dma' = [dma EXCEPT !["in"] = Tail(@)]
        /\ Up("in", Head(dma["in"]).frag) /\ WakePollers("in", Head(dma["in"]).frag)
        /\ data' = [data EXCEPT !["in"][Head(dma["in"]).frag]
                                   = Units(captured, captured + FragSize)]
    BY <1>3 DEF audio_dmain_done_callback, Streams
  <2>2. captured' \in Nat
    BY <1>3, SoundAssumption DEF TypeOK, audio_dmain_done_callback
  <2>3. /\ dma' \in [Streams -> Seq(Entries)]
        /\ sem' \in [Streams -> [Frags -> {0, 1}]]
        /\ pc' \in [Procs -> {"user", "down", "copy", "wait", "poll", "pollsleep"}]
    BY <1>1, <2>1
  <2>4. data' \in [Streams -> [Frags -> Seq(Nat)]] /\ Fits'
    <3>1. captured \in Nat /\ FragSize \in Nat
      BY SoundAssumption DEF TypeOK
    <3>2. /\ Units(captured, captured + FragSize) \in Seq(Nat)
          /\ Len(Units(captured, captured + FragSize)) <= FragSize
      BY <3>1, UnitsFacts
    <3>3. Head(dma["in"]).frag \in Frags
      BY <2>1, HeadFacts
    <3> QED
      BY <2>1, <3>2, <3>3, DataTyped
  <2> QED
    BY <1>3, <2>2, <2>3, <2>4 DEF TypeOK, audio_dmain_done_callback, fileVars, pathVars
<1> QED
  BY <1>2, <1>3

-----------------------------------------------------------------------------
(* One stream: who holds its fragments, its semaphores and its DMA queue *)

Exclusive(H, S, D) ==
  /\ \A p \in Procs, f \in Frags : <<p, f>> \in H =>
       /\ S[f] = 0
       /\ \A q \in Procs : <<q, f>> \in H => q = p
       /\ \A i \in 1 .. Len(D) : D[i].frag # f
  /\ \A i \in 1 .. Len(D) :
       /\ S[D[i].frag] = 0
       /\ \A j \in 1 .. Len(D) : D[i].frag = D[j].frag => i = j

\* What is queued is a fragment.
LEMMA QueuedFrag ==
  \A D \in Seq(Entries) : \A i \in 1 .. Len(D) : D[i].frag \in Frags
<1> SUFFICES ASSUME NEW D \in Seq(Entries), NEW i \in 1 .. Len(D) PROVE D[i].frag \in Frags
  OBVIOUS
<1>1. D[i] \in Entries
  BY ElementOfSeq
<1> QED
  BY <1>1 DEF Entries

\* With fewer holders a stream stays exclusive.
LEMMA FewerHolders ==
  ASSUME NEW H, NEW K \in SUBSET H, NEW S, NEW D, Exclusive(H, S, D)
  PROVE  Exclusive(K, S, D)
BY DEF Exclusive

\* A handler downs a free fragment.
LEMMA Taken ==
  ASSUME NEW H, NEW S \in [Frags -> {0, 1}], NEW D \in Seq(Entries), Exclusive(H, S, D),
         NEW p \in Procs, NEW f \in Frags, S[f] = 1
  PROVE  Exclusive(H \union {<<p, f>>}, [S EXCEPT ![f] = 0], D)
<1> DEFINE T == [S EXCEPT ![f] = 0]
<1>1. \A g \in Frags : T[g] = IF g = f THEN 0 ELSE S[g]
  OBVIOUS
<1>2. \A i \in 1 .. Len(D) : D[i].frag \in Frags
  BY QueuedFrag
<1>4. \A q \in Procs : <<q, f>> \notin H
  BY DEF Exclusive
<1> HIDE DEF T
<1>3. ASSUME NEW i \in 1 .. Len(D) PROVE D[i].frag # f /\ T[D[i].frag] = 0
  <2>1. S[D[i].frag] = 0
    BY DEF Exclusive
  <2> QED
    BY <1>1, <1>2, <2>1
<1>5. ASSUME NEW q \in Procs, NEW g \in Frags, <<q, g>> \in H \union {<<p, f>>}
      PROVE  /\ T[g] = 0
             /\ \A r \in Procs : <<r, g>> \in H \union {<<p, f>>} => r = q
             /\ \A i \in 1 .. Len(D) : D[i].frag # g
  <2>1. CASE g = f
    BY <1>1, <1>3, <1>4, <1>5, <2>1
  <2>2. CASE g # f
    BY <1>1, <1>5, <2>2 DEF Exclusive
  <2> QED
    BY <2>1, <2>2
<1>6. Exclusive(H \union {<<p, f>>}, T, D)
  BY <1>3, <1>5 DEF Exclusive
<1> QED
  BY <1>6 DEF T

\* A handler ups the fragment it holds.
LEMMA Released ==
  ASSUME NEW H, NEW S \in [Frags -> {0, 1}], NEW D \in Seq(Entries), Exclusive(H, S, D),
         NEW p \in Procs, NEW f \in Frags, <<p, f>> \in H
  PROVE  Exclusive(H \ {<<p, f>>}, [S EXCEPT ![f] = 1], D)
<1> DEFINE T == [S EXCEPT ![f] = 1]
<1>1. \A g \in Frags : T[g] = IF g = f THEN 1 ELSE S[g]
  OBVIOUS
<1>2. \A i \in 1 .. Len(D) : D[i].frag \in Frags
  BY QueuedFrag
<1>5. \A i \in 1 .. Len(D) : D[i].frag # f
  BY DEF Exclusive
<1>3. \A q \in Procs : <<q, f>> \notin H \ {<<p, f>>}
  BY DEF Exclusive
<1> HIDE DEF T
<1>4. Exclusive(H \ {<<p, f>>}, T, D)
  BY <1>1, <1>2, <1>3, <1>5 DEF Exclusive
<1> QED
  BY <1>4 DEF T

\* A handler queues the fragment it holds for the DMA.
LEMMA Sent ==
  ASSUME NEW H, NEW S \in [Frags -> {0, 1}], NEW D \in Seq(Entries), Exclusive(H, S, D),
         NEW p \in Procs, NEW f \in Frags, <<p, f>> \in H, NEW e \in Entries, e.frag = f
  PROVE  Exclusive(H \ {<<p, f>>}, S, Append(D, e))
<1> DEFINE E == Append(D, e)
<1>1. /\ Len(D) \in Nat
      /\ Len(E) = Len(D) + 1
      /\ \A i \in 1 .. Len(D) : E[i] = D[i]
      /\ E[Len(D) + 1] = e
  BY AppendProperties, LenProperties
<1> HIDE DEF E
<1>2. \A i \in 1 .. Len(E) : i \in 1 .. Len(D) \/ i = Len(D) + 1
  BY <1>1
<1>3. \A q \in Procs : <<q, f>> \notin H \ {<<p, f>>}
  BY DEF Exclusive
<1>4. \A i \in 1 .. Len(D) : D[i].frag # f
  BY DEF Exclusive
<1>5. S[f] = 0
  BY DEF Exclusive
<1>6. ASSUME NEW q \in Procs, NEW g \in Frags, <<q, g>> \in H \ {<<p, f>>}
      PROVE  /\ S[g] = 0
             /\ \A r \in Procs : <<r, g>> \in H \ {<<p, f>>} => r = q
             /\ \A i \in 1 .. Len(E) : E[i].frag # g
  <2>1. g # f
    BY <1>3, <1>6
  <2> QED
    BY <1>1, <1>2, <1>6, <2>1 DEF Exclusive
<1>7. ASSUME NEW i \in 1 .. Len(E)
      PROVE  /\ S[E[i].frag] = 0
             /\ \A j \in 1 .. Len(E) : E[i].frag = E[j].frag => i = j
  BY <1>1, <1>2, <1>4, <1>5 DEF Exclusive
<1>8. Exclusive(H \ {<<p, f>>}, S, E)
  BY <1>6, <1>7 DEF Exclusive
<1> QED
  BY <1>8 DEF E

\* The DMA is done with the head of its queue.
LEMMA Done ==
  ASSUME NEW H, NEW S \in [Frags -> {0, 1}], NEW D \in Seq(Entries), Exclusive(H, S, D),
         D # <<>>
  PROVE  Exclusive(H, [S EXCEPT ![D[1].frag] = 1], Tail(D))
<1> DEFINE E == Tail(D)
           f == D[1].frag
           T == [S EXCEPT ![f] = 1]
<1>1. /\ Len(D) \in Nat \ {0}
      /\ Len(E) = Len(D) - 1
      /\ \A i \in 1 .. Len(E) : E[i] = D[i + 1]
  BY HeadTailProperties, EmptySeq
<1>2. \A i \in 1 .. Len(D) : D[i].frag \in Frags
  BY QueuedFrag
<1>3. 1 \in 1 .. Len(D) /\ f \in Frags
  BY <1>1, <1>2
<1>4. \A g \in Frags : T[g] = IF g = f THEN 1 ELSE S[g]
  BY <1>3
<1>5. \A i \in 1 .. Len(E) : i \in Nat /\ i + 1 \in 1 .. Len(D) /\ i + 1 # 1
  BY <1>1
<1>6. \A i \in 1 .. Len(E) : E[i].frag # f
  BY <1>1, <1>3, <1>5 DEF Exclusive
<1> HIDE DEF E, T
<1>7. \A q \in Procs : <<q, f>> \notin H
  BY <1>3 DEF Exclusive
<1> HIDE DEF f
<1>8. ASSUME NEW q \in Procs, NEW g \in Frags, <<q, g>> \in H
      PROVE  /\ T[g] = 0
             /\ \A r \in Procs : <<r, g>> \in H => r = q
             /\ \A i \in 1 .. Len(E) : E[i].frag # g
  <2>1. g # f
    BY <1>7, <1>8
  <2> QED
    BY <1>1, <1>4, <1>5, <1>8, <2>1 DEF Exclusive
<1>9. ASSUME NEW i \in 1 .. Len(E)
      PROVE  T[E[i].frag] = 0
  BY <1>1, <1>2, <1>4, <1>5, <1>6 DEF Exclusive
<1>10. ASSUME NEW i \in 1 .. Len(E), NEW j \in 1 .. Len(E), E[i].frag = E[j].frag
       PROVE  i = j
  <2>1. i + 1 = j + 1
    BY <1>1, <1>5, <1>10 DEF Exclusive
  <2> QED
    BY <1>5, <2>1
<1>11. Exclusive(H, T, E)
  BY <1>8, <1>9, <1>10 DEF Exclusive
<1> QED
  BY <1>11 DEF T, E, f

\* Freed, and set up by the first read.
LEMMA Fresh ==
  ASSUME NEW S
  PROVE  Exclusive({}, S, <<>>)
BY DEF Exclusive

\* The queue of the first read holds every fragment once.
LEMMA AllQueued ==
  Exclusive({}, [f \in Frags |-> 0], [i \in 1 .. NbFrags |-> [frag |-> i - 1, units |-> <<>>]])
<1> DEFINE D == [i \in 1 .. NbFrags |-> [frag |-> i - 1, units |-> <<>>]]
<1>1. Len(D) = NbFrags
  BY SoundAssumption
<1>2. \A i \in 1 .. NbFrags : D[i].frag = i - 1 /\ i - 1 \in Frags
  BY FragFacts
<1> HIDE DEF D
<1>3. \A i, j \in 1 .. NbFrags : i - 1 = j - 1 => i = j
  BY SoundAssumption
<1>4. Exclusive({}, [f \in Frags |-> 0], D)
  BY <1>1, <1>2, <1>3 DEF Exclusive
<1> QED
  BY <1>4 DEF D

\* The same of a part of them.
LEMMA SomeQueued ==
  ASSUME NEW k \in 0 .. NbFrags - 1, NEW g \in [1 .. k -> Frags],
         \A i, j \in 1 .. k : i < j => g[i] < g[j]
  PROVE  Exclusive({}, [f \in Frags |-> 0], [i \in 1 .. k |-> [frag |-> g[i], units |-> <<>>]])
<1> DEFINE D == [i \in 1 .. k |-> [frag |-> g[i], units |-> <<>>]]
<1>1. k \in Nat /\ Len(D) = k
  BY SoundAssumption
<1>2. \A i \in 1 .. k : D[i].frag = g[i] /\ g[i] \in Frags
  OBVIOUS
<1> HIDE DEF D
<1>3. ASSUME NEW i \in 1 .. k, NEW j \in 1 .. k, g[i] = g[j] PROVE i = j
  <2>1. g[i] \in Int /\ ~(i < j) /\ ~(j < i)
    BY <1>2, <1>3 DEF Frags
  <2> QED
    BY <1>1, <2>1
<1>4. Exclusive({}, [f \in Frags |-> 0], D)
  BY <1>1, <1>2, <1>3 DEF Exclusive
<1> QED
  BY <1>4 DEF D

\* What the first read's enqueues leave behind: exclusive fragments, and all of
\* them unless the stream has leaked some.
LEMMA FirstQueue ==
  ASSUME TypeOK, EnqueueAll
  PROVE  /\ dma'["out"] = dma["out"]
         /\ Exclusive({}, [f \in Frags |-> 0], dma'["in"])
         /\ leaked \subseteq leaked'
         /\ \A s \in Streams : s # "in" /\ s \notin leaked' => s \notin leaked
         /\ "in" \notin leaked' =>
              dma'["in"] = [i \in 1 .. NbFrags |-> [frag |-> i - 1, units |-> <<>>]]
<1>1. dma \in [Streams -> Seq(Entries)] /\ "in" \in Streams /\ "out" \in Streams /\ "in" # "out"
  BY DEF TypeOK, Streams
<1>2. CASE /\ dma' = [dma EXCEPT !["in"] =
                         [i \in 1 .. NbFrags |-> [frag |-> i - 1, units |-> <<>>]]]
           /\ leaked' = leaked
  <2>1. dma'["in"] = [i \in 1 .. NbFrags |-> [frag |-> i - 1, units |-> <<>>]]
        /\ dma'["out"] = dma["out"]
    BY <1>1, <1>2
  <2> QED
    BY <1>2, <2>1, AllQueued
<1>3. ASSUME NEW k \in 0 .. NbFrags - 1, NEW g \in [1 .. k -> Frags],
             \A i, j \in 1 .. k : i < j => g[i] < g[j],
             dma' = [dma EXCEPT !["in"] = [i \in 1 .. k |-> [frag |-> g[i], units |-> <<>>]]],
             leaked' = leaked \union {"in"}
      PROVE  /\ dma'["out"] = dma["out"]
             /\ Exclusive({}, [f \in Frags |-> 0], dma'["in"])
             /\ leaked \subseteq leaked' /\ "in" \in leaked'
             /\ \A s \in Streams : s # "in" /\ s \notin leaked' => s \notin leaked
  <2>1. dma'["in"] = [i \in 1 .. k |-> [frag |-> g[i], units |-> <<>>]]
        /\ dma'["out"] = dma["out"]
    BY <1>1, <1>3
  <2>2. Exclusive({}, [f \in Frags |-> 0], dma'["in"])
    BY <1>3, <2>1, SomeQueued
  <2> QED
    BY <1>3, <2>1, <2>2
<1> QED
  BY <1>2, <1>3 DEF EnqueueAll

-----------------------------------------------------------------------------
(* The handlers *)

HeldOf(s) == {h \in Procs \X Frags : Holds(h[1], s, h[2])}

StreamsExclusive == \A s \in Streams : Exclusive(HeldOf(s), sem[s], dma[s])

\* Only a thread in a copy holds something, namely its b of its LoopStream.
LEMMA HeldFacts ==
  ASSUME TypeOK, Places
  PROVE  /\ \A s \in Streams, p \in Procs, f \in Frags :
              <<p, f>> \in HeldOf(s) <=> pc[p] = "copy" /\ b[p] = f /\ s = LoopStream(p)
         /\ \A s \in Streams : \A h \in HeldOf(s) :
              /\ h = <<h[1], h[2]>> /\ h[1] \in Procs /\ h[2] \in Frags
              /\ pc[h[1]] = "copy" /\ b[h[1]] = h[2] /\ s = LoopStream(h[1])
         /\ \A p \in Procs : LoopStream(p) \in Streams /\ b[p] \in Frags
BY DEF TypeOK, Places, HeldOf, Holds, LoopStream, Streams

\* A thread that does not go to a copy holds nothing afterwards, and the
\* others hold what they held.
Leaves(p) ==
  /\ pc'[p] # "copy"
  /\ \A q \in Procs \ {p} : pc'[q] = pc[q] /\ op'[q] = op[q] /\ b'[q] = b[q]

\* A handler that returns leaves what it holds.
LEMMA ReturnLeaves ==
  ASSUME TypeOK, NEW p \in Procs, Return(p)
  PROVE  Leaves(p) /\ op'[p] = "none" /\ pc'[p] = "user"
BY DEF TypeOK, Return, Leaves

\* So does one that goes on to a semaphore.
LEMMA ContinueLeaves ==
  ASSUME TypeOK, NEW p \in Procs, NEW to \in {"down", "wait"}, NEW f, NEW n,
         Continue(p, to, f, n),
         UNCHANGED op \/ \E o : op' = [op EXCEPT ![p] = o]
  PROVE  Leaves(p) /\ pc'[p] = to
BY DEF TypeOK, Continue, Leaves

\* Who leaves holds nothing, and the others what they held.
LEMMA LeavesHeld ==
  ASSUME NEW p \in Procs, Leaves(p), NEW s \in Streams
  PROVE  HeldOf(s)' \subseteq {h \in HeldOf(s) : h[1] # p}
BY DEF Leaves, HeldOf, Holds

\* Streams that a step does not touch, or only by a thread that leaves.
LEMMA Untouched ==
  ASSUME StreamsExclusive, NEW s \in Streams, NEW p \in Procs, Leaves(p),
         sem'[s] = sem[s], dma'[s] = dma[s]
  PROVE  Exclusive(HeldOf(s)', sem'[s], dma'[s])
<1>1. HeldOf(s)' \subseteq HeldOf(s)
  BY LeavesHeld
<1> QED
  BY <1>1, FewerHolders DEF StreamsExclusive

\* Buffers are freed: nobody is left in a handler that uses them.
LEMMA ClearStep ==
  ASSUME TypeOK, Places, Buffered, StreamsExclusive, stale = {}, stale' = {},
         NEW p \in Procs, NEW S \in SUBSET Streams, audio_clear_buf(S, p),
         op'[p] \notin {"write", "read"}, Leaves(p)
  PROVE  StreamsExclusive' /\ Buffered'
<1>1. ASSUME NEW q \in Procs \ {p}, op[q] \in {"write", "read"}
      PROVE  LoopStream(q) \notin S
  BY <1>1 DEF audio_clear_buf, Using, LoopStream
<1>2. ASSUME NEW s \in Streams PROVE Exclusive(HeldOf(s)', sem'[s], dma'[s])
  <2>1. CASE s \in S
    <3>1. dma'[s] = <<>>
      BY <2>1 DEF audio_clear_buf
    <3>2. HeldOf(s)' = {}
      <4> SUFFICES ASSUME NEW h \in HeldOf(s)' PROVE FALSE
        OBVIOUS
      <4>1. h \in HeldOf(s) /\ h[1] # p
        BY LeavesHeld
      <4>2. h[1] \in Procs \ {p} /\ pc[h[1]] = "copy" /\ s = LoopStream(h[1])
        BY <4>1, HeldFacts
      <4>3. op[h[1]] \in {"write", "read"}
        BY <4>2 DEF Places
      <4> QED
        BY <1>1, <2>1, <4>2, <4>3
    <3> QED
      BY <3>1, <3>2, Fresh
  <2>2. CASE s \notin S
    <3>1. sem'[s] = sem[s] /\ dma'[s] = dma[s]
      BY <2>2 DEF audio_clear_buf
    <3> QED
      BY <3>1, Untouched
  <2> QED
    BY <2>1, <2>2
<1>3. ASSUME NEW q \in Procs, op'[q] \in {"write", "read"}
      PROVE  buffers'[LoopStream(q)']
  <2>1. q # p /\ op'[q] = op[q]
    BY <1>3 DEF Leaves
  <2>2. LoopStream(q)' = LoopStream(q) /\ LoopStream(q) \in Streams
    BY <2>1 DEF LoopStream, Streams
  <2>3. LoopStream(q) \notin S /\ buffers[LoopStream(q)]
    BY <1>1, <1>3, <2>1 DEF Buffered
  <2> QED
    BY <2>2, <2>3 DEF audio_clear_buf
<1>4. StreamsExclusive'
  BY <1>2 DEF StreamsExclusive
<1>5. Buffered'
  BY <1>3 DEF Buffered
<1> QED
  BY <1>4, <1>5

Safe == TypeOK /\ Fits /\ Places /\ Buffered /\ (stale = {} => StreamsExclusive)

\* Buffers stay, and whoever enters write or read has some.
LEMMA BuffersStay ==
  ASSUME TypeOK, Buffered, stale = {},
         \A s \in Streams : buffers[s] => buffers'[s],
         \A q \in Procs : op'[q] \in {"write", "read"} =>
                           op'[q] = op[q] \/ buffers'[LoopStream(q)']
  PROVE  Buffered'
<1> SUFFICES ASSUME NEW q \in Procs, op'[q] \in {"write", "read"}, op'[q] = op[q]
             PROVE  buffers'[LoopStream(q)']
  BY DEF Buffered
<1>1. LoopStream(q)' = LoopStream(q) /\ LoopStream(q) \in Streams
  BY DEF LoopStream, Streams
<1> QED
  BY <1>1 DEF Buffered

\* Only a release enters a handler in open, release and close.
LEMMA FilePlaces ==
  ASSUME TypeOK, Places, NEW p \in Procs,
         \/ UNCHANGED procVars
         \/ Return(p)
         \/ /\ op' = [op EXCEPT ![p] = "release"]
            /\ \E to \in {"down", "wait"} : pc' = [pc EXCEPT ![p] = to]
  PROVE  Places'
BY DEF TypeOK, Places, Return, procVars

\* Steps that open, close or clear streams.
LEMMA FileSafe ==
  ASSUME Safe, stale = {}, NEW p \in Procs,
         \/ \E f \in Files, m \in (SUBSET Streams) \ {{}} : smdk2410_audio_open(p, f, m)
         \/ smdk2410_audio_release(p)
         \/ CloseShared(p)
         \/ \E q \in Procs : Inherit(p, q)
         \/ Reset(p)
  PROVE  Places' /\ Buffered' /\ (stale' = {} => StreamsExclusive')
<1>1. TypeOK /\ Places /\ Buffered /\ StreamsExclusive
  BY DEF Safe
<1>2. ASSUME NEW S \in SUBSET Streams, audio_clear_buf(S, p), pc[p] = "user", UNCHANGED procVars
      PROVE  Places' /\ Buffered' /\ (stale' = {} => StreamsExclusive')
  <2>1. Leaves(p) /\ op'[p] \notin {"write", "read"}
    BY <1>1, <1>2 DEF Leaves, procVars, Places
  <2>2. stale' # {} => Buffered'
    BY DEF Buffered
  <2> QED
    BY <1>1, <1>2, <2>1, <2>2, ClearStep, FilePlaces
<1>3. ASSUME UNCHANGED <<streamVars, procVars, pathVars>>
      PROVE  Places' /\ Buffered' /\ (stale' = {} => StreamsExclusive')
  <2>1. Places'
    BY <1>1, <1>3, FilePlaces
  <2>2. Buffered'
    BY <1>1, <1>3 DEF Buffered, LoopStream, streamVars, procVars, pathVars
  <2>3. \A s \in Streams : HeldOf(s)' = HeldOf(s)
    BY <1>3 DEF HeldOf, Holds, procVars
  <2>4. StreamsExclusive'
    BY <1>1, <1>3, <2>3 DEF StreamsExclusive, streamVars
  <2> QED
    BY <2>1, <2>2, <2>4
<1>4. ASSUME NEW f \in Files, NEW m \in SUBSET Streams, smdk2410_audio_open(p, f, m)
      PROVE  Places' /\ Buffered' /\ (stale' = {} => StreamsExclusive')
  <2>1. pc[p] = "user" /\ UNCHANGED procVars
    BY <1>4 DEF smdk2410_audio_open
  <2>2. audio_clear_buf(m, p) \/ UNCHANGED <<streamVars, pathVars>>
    BY <1>4 DEF smdk2410_audio_open
  <2> QED
    BY <1>2, <1>3, <2>1, <2>2
<1>5. CASE ReleaseAtOnce(p)
  <2>1. /\ pc[p] = "user" /\ UNCHANGED procVars
        /\ audio_clear_buf(mode[fd[p]], p) /\ mode[fd[p]] \in SUBSET Streams
    BY <1>1, <1>5 DEF ReleaseAtOnce, OpenFile, TypeOK
  <2> QED
    BY <1>2, <2>1
<1>6. CASE ReleaseSync(p)
  <2>1. /\ audio_clear_buf(mode[fd[p]] \ {"out"}, p) /\ mode[fd[p]] \ {"out"} \in SUBSET Streams
        /\ op' = [op EXCEPT ![p] = "release"] /\ SyncFrom(p)
    BY <1>1, <1>6 DEF ReleaseSync, OpenFile, TypeOK
  <2>2. /\ Leaves(p) /\ op'[p] \notin {"write", "read"}
        /\ \E to \in {"down", "wait"} : pc' = [pc EXCEPT ![p] = to]
    <3>1. op'[p] = "release"
      BY <1>1, <2>1 DEF TypeOK
    <3>2. \E to \in {"down", "wait"} : \E f : Continue(p, to, f, 0)
      BY <2>1 DEF SyncFrom
    <3>3. Leaves(p)
      BY <1>1, <2>1, <3>2, ContinueLeaves
    <3> QED
      BY <3>1, <3>2, <3>3 DEF Continue
  <2>3. stale' # {} => Buffered'
    BY DEF Buffered
  <2>4. Places'
    BY <1>1, <2>1, <2>2, FilePlaces
  <2> QED
    BY <1>1, <2>1, <2>2, <2>3, <2>4, ClearStep
<1>7. ASSUME NEW signalled \in BOOLEAN, ReleaseEnd(p, signalled)
      PROVE  Places' /\ Buffered' /\ (stale' = {} => StreamsExclusive')
  <2>1. audio_clear_buf({"out"}, p) /\ {"out"} \in SUBSET Streams /\ Return(p)
    BY <1>7 DEF ReleaseEnd, Streams
  <2>2. Leaves(p) /\ op'[p] \notin {"write", "read"}
    BY <1>1, <2>1, ReturnLeaves
  <2>3. stale' # {} => Buffered'
    BY DEF Buffered
  <2>4. Places'
    BY <1>1, <2>1, FilePlaces
  <2> QED
    BY <1>1, <2>1, <2>2, <2>3, <2>4, ClearStep
<1>8. CASE CloseShared(p)
  BY <1>3, <1>8 DEF CloseShared
<1>9. ASSUME NEW q \in Procs, Inherit(p, q)
      PROVE  Places' /\ Buffered' /\ (stale' = {} => StreamsExclusive')
  BY <1>3, <1>9 DEF Inherit
<1>10. CASE Reset(p)
  <2>1. /\ pc[p] = "user" /\ UNCHANGED procVars
        /\ audio_clear_buf(mode[fd[p]], p) /\ mode[fd[p]] \in SUBSET Streams
    BY <1>1, <1>10 DEF Reset, OpenFile, TypeOK
  <2> QED
    BY <1>2, <2>1
<1> QED
  BY <1>4, <1>5, <1>6, <1>7, <1>8, <1>9, <1>10 DEF smdk2410_audio_release

\* Steps that leave the semaphores and the DMA alone.
LEMMA QuietSafe ==
  ASSUME Safe, stale = {}, NEW p \in Procs,
         \/ \E n \in Counts : WriteCall(p, n)
         \/ LoopDownFails(p)
         \/ SyncCall(p)
         \/ \E signalled \in BOOLEAN : SyncEnd(p, signalled)
         \/ SetFragment(p)
         \/ smdk2410_audio_poll(p)
  PROVE  Places' /\ Buffered' /\ (stale' = {} => StreamsExclusive')
<1>1. TypeOK /\ Places /\ Buffered /\ StreamsExclusive
  BY DEF Safe
<1>2. ASSUME Leaves(p), sem' = sem, dma' = dma
      PROVE  StreamsExclusive'
  BY <1>1, <1>2, Untouched DEF StreamsExclusive
<1>3. ASSUME Return(p), UNCHANGED streamVars
      PROVE  Places' /\ Buffered' /\ (stale' = {} => StreamsExclusive')
  <2>1. Leaves(p) /\ op'[p] = "none"
    BY <1>1, <1>3, ReturnLeaves
  <2>2. Buffered'
    BY <1>1, <1>3, <2>1, BuffersStay DEF Leaves, streamVars
  <2> QED
    BY <1>1, <1>2, <1>3, <2>1, <2>2, FilePlaces DEF streamVars
<1>4. ASSUME NEW n \in Counts, WriteCall(p, n)
      PROVE  Places' /\ Buffered' /\ StreamsExclusive'
  <2>1. /\ op' = [op EXCEPT ![p] = "write"] /\ Continue(p, "down", buf_idx["out"], n)
        /\ sem' = sem /\ dma' = dma /\ audio_setup_buf({"out"})
    BY <1>4 DEF WriteCall, Enter
  <2>2. Leaves(p) /\ pc'[p] = "down" /\ op'[p] = "write"
    BY <1>1, <2>1, ContinueLeaves DEF TypeOK
  <2>3. Places'
    BY <1>1, <2>2 DEF Places, Leaves
  <2>4. /\ \A s \in Streams : buffers[s] => buffers'[s]
        /\ buffers'[LoopStream(p)']
    BY <2>1, <2>2 DEF audio_setup_buf, LoopStream, Streams
  <2>5. Buffered'
    BY <1>1, <2>2, <2>4, BuffersStay DEF Leaves
  <2> QED
    BY <1>2, <2>1, <2>2, <2>3, <2>5
<1>5. CASE LoopDownFails(p)
  BY <1>3, <1>5 DEF LoopDownFails
<1>6. CASE SyncCall(p)
  <2>1. /\ op' = [op EXCEPT ![p] = "sync"] /\ SyncFrom(p) /\ UNCHANGED streamVars
    BY <1>6 DEF SyncCall, Enter
  <2>2. \E to \in {"down", "wait"} : \E f : Continue(p, to, f, 0)
    BY <2>1 DEF SyncFrom
  <2>3. Leaves(p) /\ pc'[p] \in {"down", "wait"} /\ op'[p] = "sync"
    BY <1>1, <2>1, <2>2, ContinueLeaves DEF TypeOK
  <2>4. Places'
    BY <1>1, <2>3 DEF Places, Leaves
  <2>5. Buffered'
    BY <1>1, <2>1, <2>3, BuffersStay DEF Leaves, streamVars
  <2> QED
    BY <1>2, <2>1, <2>3, <2>4, <2>5 DEF streamVars
<1>7. ASSUME NEW signalled \in BOOLEAN, SyncEnd(p, signalled)
      PROVE  Places' /\ Buffered' /\ (stale' = {} => StreamsExclusive')
  BY <1>3, <1>7 DEF SyncEnd
<1>8. CASE SetFragment(p) \/ PollNoMemory(p)
  <2>1. pc[p] = "user" /\ UNCHANGED procVars /\ sem' = sem /\ dma' = dma
    BY <1>8 DEF SetFragment, PollNoMemory, OpenFile
  <2>2. Leaves(p)
    BY <2>1 DEF Leaves, procVars
  <2>3. Places'
    BY <1>1, <2>1, FilePlaces
  <2>4. \A s \in Streams : buffers[s] => buffers'[s]
    BY <1>8 DEF SetFragment, PollNoMemory, audio_setup_buf
  <2>5. Buffered'
    BY <1>1, <2>1, <2>4, BuffersStay DEF procVars
  <2> QED
    BY <1>2, <2>1, <2>2, <2>3, <2>5
<1>9. CASE PollCall(p)
  <2>1. /\ op' = [op EXCEPT ![p] = "poll"] /\ pc' = [pc EXCEPT ![p] = "poll"] /\ b' = b
        /\ sem' = sem /\ dma' = dma /\ audio_setup_buf(mode[fd[p]])
    BY <1>9 DEF PollCall, Enter
  <2>2. Leaves(p) /\ pc'[p] = "poll" /\ op'[p] = "poll"
    BY <1>1, <2>1 DEF Leaves, TypeOK
  <2>3. Places'
    BY <1>1, <2>2 DEF Places, Leaves
  <2>4. \A s \in Streams : buffers[s] => buffers'[s]
    BY <2>1 DEF audio_setup_buf
  <2>5. Buffered'
    BY <1>1, <2>2, <2>4, BuffersStay DEF Leaves
  <2> QED
    BY <1>2, <2>1, <2>2, <2>3, <2>5
<1>10. CASE /\ At(p, "poll", "poll") /\ pc' = [pc EXCEPT ![p] = "pollsleep"]
            /\ UNCHANGED <<op, b>> /\ UNCHANGED streamVars
  <2>1. Leaves(p) /\ pc'[p] = "pollsleep" /\ op'[p] = "poll"
    BY <1>1, <1>10 DEF Leaves, TypeOK, At
  <2>2. Places'
    BY <1>1, <2>1 DEF Places, Leaves
  <2>3. Buffered'
    BY <1>1, <1>10, BuffersStay DEF streamVars
  <2> QED
    BY <1>2, <1>10, <2>1, <2>2, <2>3 DEF streamVars
<1>11. CASE PollMask(p)
  BY <1>3, <1>10, <1>11 DEF PollMask
<1>12. CASE PollTimeout(p)
  BY <1>3, <1>12 DEF PollTimeout
<1> QED
  BY <1>4, <1>5, <1>6, <1>7, <1>8, <1>9, <1>11, <1>12 DEF smdk2410_audio_poll

\* The first read queues every fragment; nobody else is in read then.
LEMMA ReadCallSafe ==
  ASSUME Safe, stale = {}, NEW p \in Procs, NEW n \in Counts, ReadCall(p, n)
  PROVE  Places' /\ Buffered' /\ StreamsExclusive'
<1>1. TypeOK /\ Places /\ Buffered /\ StreamsExclusive
  BY DEF Safe
<1>2. /\ op' = [op EXCEPT ![p] = "read"] /\ Continue(p, "down", buf_idx["in"], n)
      /\ audio_setup_buf({"in"})
  BY DEF ReadCall, Enter
<1>3. Leaves(p) /\ pc'[p] = "down" /\ op'[p] = "read"
  BY <1>1, <1>2, ContinueLeaves DEF TypeOK
<1>4. Places'
  BY <1>1, <1>3 DEF Places, Leaves
<1>5. /\ \A s \in Streams : buffers[s] => buffers'[s]
      /\ buffers'[LoopStream(p)']
  BY <1>2, <1>3 DEF audio_setup_buf, LoopStream, Streams
<1>6. Buffered'
  BY <1>1, <1>3, <1>5, BuffersStay DEF Leaves
<1>7. CASE buffers["in"]
  <2>1. sem' = sem /\ dma' = dma
    BY <1>7 DEF ReadCall
  <2> QED
    BY <1>1, <1>3, <1>4, <1>6, <2>1, Untouched DEF StreamsExclusive
<1>8. CASE ~buffers["in"]
  <2>1. sem' = [sem EXCEPT !["in"] = [f \in Frags |-> 0]] /\ EnqueueAll
    BY <1>8 DEF ReadCall
  <2>2. "in" \in Streams /\ "out" \in Streams
    BY DEF Streams
  <2>3. HeldOf("in")' = {}
    <3> SUFFICES ASSUME NEW h \in HeldOf("in")' PROVE FALSE
      OBVIOUS
    <3>1. h \in HeldOf("in")
      BY <1>3, <2>2, LeavesHeld
    <3>2. h[1] \in Procs /\ pc[h[1]] = "copy" /\ LoopStream(h[1]) = "in"
      BY <1>1, <2>2, <3>1, HeldFacts
    <3>3. op[h[1]] \in {"write", "read"}
      BY <1>1, <3>2 DEF Places
    <3> QED
      BY <1>1, <1>8, <3>2, <3>3 DEF Buffered
  <2>4. Exclusive(HeldOf("in")', sem'["in"], dma'["in"])
    <3>1. sem'["in"] = [f \in Frags |-> 0]
      BY <1>1, <2>1, <2>2 DEF TypeOK
    <3> QED
      BY <1>1, <2>1, <2>3, <3>1, FirstQueue
  <2>5. Exclusive(HeldOf("out")', sem'["out"], dma'["out"])
    <3>1. sem'["out"] = sem["out"]
      BY <1>1, <2>1, <2>2 DEF TypeOK
    <3>2. dma'["out"] = dma["out"]
      BY <1>1, <2>1, FirstQueue
    <3> QED
      BY <1>1, <1>3, <2>2, <3>1, <3>2, Untouched
  <2>6. \A s \in Streams : Exclusive(HeldOf(s)', sem'[s], dma'[s])
    BY <2>4, <2>5 DEF Streams
  <2> QED
    BY <1>4, <1>6, <2>6 DEF StreamsExclusive
<1> QED
  BY <1>7, <1>8

\* A write or read takes a free fragment in its hands.
LEMMA LoopDownSafe ==
  ASSUME Safe, stale = {}, NEW p \in Procs, LoopDown(p)
  PROVE  Places' /\ Buffered' /\ StreamsExclusive'
<1>1. TypeOK /\ Places /\ Buffered /\ StreamsExclusive
  BY DEF Safe
<1>2. PICK s \in Streams, f \in Frags : s = LoopStream(p) /\ f = b[p] /\ sem[s][f] = 1
  <2>1. LoopStream(p) \in Streams /\ b[p] \in Frags
    BY <1>1, HeldFacts
  <2>2. sem[LoopStream(p)][b[p]] = 1
    BY <1>1, <2>1 DEF LoopDown, Down, TypeOK
  <2> QED
    BY <2>1, <2>2
<1>3. /\ sem' = [sem EXCEPT ![s][f] = 0] /\ dma' = dma
      /\ pc' = [pc EXCEPT ![p] = "copy"] /\ op' = op /\ b' = b /\ buffers' = buffers
      /\ op[p] \in {"write", "read"}
  BY <1>2 DEF LoopDown, Down
<1>4. Places'
  BY <1>1, <1>3 DEF Places, TypeOK
<1>5. Buffered'
  BY <1>1, <1>3, BuffersStay
<1>6. ASSUME NEW t \in Streams PROVE Exclusive(HeldOf(t)', sem'[t], dma'[t])
  <2>1. ASSUME NEW h \in HeldOf(t)' PROVE h \in HeldOf(t) \/ (t = s /\ h = <<p, f>>)
    <3>1. h \in Procs \X Frags /\ Holds(h[1], t, h[2])'
      BY DEF HeldOf
    <3>2. CASE h[1] = p
      BY <1>2, <1>3, <3>1, <3>2 DEF Holds, LoopStream
    <3>3. CASE h[1] # p
      BY <1>1, <1>3, <3>1, <3>3 DEF HeldOf, Holds, TypeOK
    <3> QED
      BY <3>2, <3>3
  <2>2. CASE t = s
    <3>1. HeldOf(s)' \subseteq HeldOf(s) \union {<<p, f>>}
      BY <2>1, <2>2
    <3>2. sem[s] \in [Frags -> {0, 1}] /\ dma[s] \in Seq(Entries)
      BY <1>1, <1>2 DEF TypeOK
    <3>3. Exclusive(HeldOf(s) \union {<<p, f>>}, [sem[s] EXCEPT ![f] = 0], dma[s])
      BY <1>1, <1>2, <3>2, Taken DEF StreamsExclusive
    <3>4. sem'[s] = [sem[s] EXCEPT ![f] = 0] /\ dma'[s] = dma[s]
      BY <1>1, <1>2, <1>3 DEF TypeOK
    <3> QED
      BY <2>2, <3>1, <3>3, <3>4, FewerHolders
  <2>3. CASE t # s
    <3>1. HeldOf(t)' \subseteq HeldOf(t)
      BY <2>1, <2>3
    <3>2. sem'[t] = sem[t] /\ dma'[t] = dma[t]
      BY <1>1, <1>3, <2>3 DEF TypeOK
    <3> QED
      BY <1>1, <3>1, <3>2, FewerHolders DEF StreamsExclusive
  <2> QED
    BY <2>2, <2>3
<1> QED
  BY <1>4, <1>5, <1>6 DEF StreamsExclusive

\* A thread ends its copy with an up, with an enqueue or with a failed one.
LEMMA CopyEnds ==
  ASSUME TypeOK, Places, StreamsExclusive, NEW p \in Procs, pc[p] = "copy", Leaves(p),
         NEW s \in Streams, s = LoopStream(p),
         \/ Up(s, b[p]) /\ dma' = dma
         \/ sem' = sem /\ \E units \in Seq(Nat) : Enqueue(s, b[p], units)
         \/ sem' = sem /\ dma' = dma
  PROVE  StreamsExclusive'
<1>1. b[p] \in Frags /\ <<p, b[p]>> \in HeldOf(s)
  BY HeldFacts
<1>2. sem[s] \in [Frags -> {0, 1}] /\ dma[s] \in Seq(Entries) /\ Exclusive(HeldOf(s), sem[s], dma[s])
  BY DEF TypeOK, StreamsExclusive
<1>3. sem[s][b[p]] = 0
  BY <1>1, <1>2 DEF Exclusive
<1>4. HeldOf(s)' \subseteq HeldOf(s) \ {<<p, b[p]>>}
  BY LeavesHeld
<1>5. ASSUME NEW t \in Streams, t # s PROVE Exclusive(HeldOf(t)', sem'[t], dma'[t])
  <2>1. sem'[t] = sem[t] /\ dma'[t] = dma[t]
    BY <1>5 DEF Up, Enqueue, TypeOK
  <2> QED
    BY <2>1, Untouched
<1>6. Exclusive(HeldOf(s)', sem'[s], dma'[s])
  <2>1. CASE Up(s, b[p]) /\ dma' = dma
    <3>1. sem'[s] = [sem[s] EXCEPT ![b[p]] = 1]
      BY <1>1, <1>3, <2>1 DEF Up, TypeOK
    <3>2. Exclusive(HeldOf(s) \ {<<p, b[p]>>}, sem'[s], dma'[s])
      BY <1>1, <1>2, <2>1, <3>1, Released
    <3> QED
      BY <1>4, <3>2, FewerHolders
  <2>2. ASSUME sem' = sem, NEW units \in Seq(Nat), Enqueue(s, b[p], units)
        PROVE  Exclusive(HeldOf(s)', sem'[s], dma'[s])
    <3> DEFINE e == [frag |-> b[p], units |-> units]
    <3>1. e \in Entries /\ e.frag = b[p] /\ dma'[s] = Append(dma[s], e)
      BY <1>1, <2>2 DEF Enqueue, Entries, TypeOK
    <3> HIDE DEF e
    <3>2. Exclusive(HeldOf(s) \ {<<p, b[p]>>}, sem[s], Append(dma[s], e))
      BY <1>1, <1>2, <3>1, Sent
    <3> QED
      BY <1>4, <2>2, <3>1, <3>2, FewerHolders
  <2>3. CASE sem' = sem /\ dma' = dma
    BY <2>3, Untouched
  <2> QED
    BY <2>1, <2>2, <2>3
<1> QED
  BY <1>5, <1>6 DEF StreamsExclusive

\* The copies of write and read.
LEMMA CopySafe ==
  ASSUME Safe, stale = {}, NEW p \in Procs, LoopFault(p) \/ WriteCopy(p) \/ ReadCopy(p)
  PROVE  Places' /\ Buffered' /\ StreamsExclusive'
<1>1. TypeOK /\ Fits /\ Places /\ Buffered /\ StreamsExclusive
  BY DEF Safe
<1>2. ASSUME Return(p)
      PROVE  Leaves(p) /\ Places' /\ (op'[p] = op[p] \/ op'[p] = "none")
  BY <1>1, <1>2, ReturnLeaves, FilePlaces
<1>3. ASSUME NEW f, NEW n, Continue(p, "down", f, n), op' = op, op[p] \in {"write", "read"}
      PROVE  Leaves(p) /\ Places' /\ (op'[p] = op[p] \/ op'[p] = "none")
  <2>1. Leaves(p) /\ pc'[p] = "down"
    BY <1>1, <1>3, ContinueLeaves
  <2> QED
    BY <1>1, <1>3, <2>1 DEF Places, Leaves
<1>4. ASSUME Leaves(p), op'[p] = op[p] \/ op'[p] = "none", buffers' = buffers
      PROVE  Buffered'
  BY <1>1, <1>4, BuffersStay DEF Leaves
<1>5. CASE LoopFault(p)
  <2>1. Return(p) /\ pc[p] = "copy" /\ Up(LoopStream(p), b[p]) /\ dma' = dma /\ buffers' = buffers
    BY <1>5 DEF LoopFault
  <2> QED
    BY <1>1, <1>2, <1>4, <2>1, HeldFacts, CopyEnds
<1>6. CASE WriteCopy(p)
  <2>1. /\ op[p] = "write" /\ pc[p] = "copy" /\ buffers' = buffers
        /\ LoopStream(p) = "out" /\ "out" \in Streams
    BY <1>6 DEF WriteCopy, At, LoopStream, Streams
  <2>2. Return(p) \/ \E n : Loop(p, "out", n)
    BY <1>6 DEF WriteCopy
  <2>3. Leaves(p) /\ Places' /\ (op'[p] = op[p] \/ op'[p] = "none")
    BY <1>2, <1>3, <2>1, <2>2 DEF Loop
  <2>4. \/ Up("out", b[p]) /\ dma' = dma
        \/ sem' = sem /\ \E units \in Seq(Nat) : Enqueue("out", b[p], units)
        \/ sem' = sem /\ dma' = dma
    BY <1>1, <1>6, WriteFacts DEF WriteCopy, EnqueueFails
  <2> QED
    BY <1>1, <1>4, <2>1, <2>3, <2>4, CopyEnds
<1>7. CASE ReadCopy(p)
  <2>1. /\ op[p] = "read" /\ pc[p] = "copy" /\ buffers' = buffers
        /\ LoopStream(p) = "in" /\ "in" \in Streams
    BY <1>7 DEF ReadCopy, At, LoopStream, Streams
  <2>2. Return(p) \/ \E n : Loop(p, "in", n)
    BY <1>7 DEF ReadCopy
  <2>3. Leaves(p) /\ Places' /\ (op'[p] = op[p] \/ op'[p] = "none")
    BY <1>2, <1>3, <2>1, <2>2 DEF Loop
  <2>4. <<>> \in Seq(Nat)
    OBVIOUS
  <2>5. \/ Up("in", b[p]) /\ dma' = dma
        \/ sem' = sem /\ \E units \in Seq(Nat) : Enqueue("in", b[p], units)
        \/ sem' = sem /\ dma' = dma
    BY <1>7, <2>4 DEF ReadCopy, EnqueueFails
  <2> QED
    BY <1>1, <1>4, <2>1, <2>3, <2>5, CopyEnds
<1> QED
  BY <1>5, <1>6, <1>7

\* sync downs a free fragment and queues it in one go.
LEMMA SyncDownSafe ==
  ASSUME Safe, stale = {}, NEW p \in Procs, SyncDown(p)
  PROVE  Places' /\ Buffered' /\ StreamsExclusive'
<1>1. TypeOK /\ Fits /\ Places /\ Buffered /\ StreamsExclusive
  BY DEF Safe
<1> DEFINE f == b[p]
           S == [sem["out"] EXCEPT ![f] = 0]
<1>2. /\ op[p] \in {"sync", "release"} /\ op' = op /\ buffers' = buffers
      /\ \E g : Continue(p, "wait", g, 0)
      /\ Down("out", f)
      /\ Enqueue("out", f, data["out"][f]) \/ EnqueueFails("out")
  BY DEF SyncDown
<1>3. Leaves(p) /\ pc'[p] = "wait"
  BY <1>1, <1>2, ContinueLeaves
<1>4. Places'
  BY <1>1, <1>2, <1>3 DEF Places, Leaves
<1>5. Buffered'
  BY <1>1, <1>2, BuffersStay
<1>6. /\ "out" \in Streams /\ "in" \in Streams /\ f \in Frags /\ sem["out"][f] = 1
      /\ sem["out"] \in [Frags -> {0, 1}] /\ dma["out"] \in Seq(Entries)
      /\ data["out"][f] \in Seq(Nat)
  BY <1>1, <1>2 DEF TypeOK, Streams, Down
<1>7. sem'["out"] = S /\ sem'["in"] = sem["in"] /\ dma'["in"] = dma["in"]
  BY <1>1, <1>2, <1>6 DEF Down, Enqueue, EnqueueFails, TypeOK
<1>8. Exclusive(HeldOf("out") \union {<<p, f>>}, S, dma["out"])
  BY <1>1, <1>6, Taken DEF StreamsExclusive
<1>9. Exclusive(HeldOf("out")', sem'["out"], dma'["out"])
  <2>1. HeldOf("out")' \subseteq (HeldOf("out") \union {<<p, f>>}) \ {<<p, f>>}
    BY <1>3, <1>6, LeavesHeld
  <2>2. CASE Enqueue("out", f, data["out"][f])
    <3> DEFINE e == [frag |-> f, units |-> data["out"][f]]
    <3>1. e \in Entries /\ e.frag = f /\ dma'["out"] = Append(dma["out"], e)
      BY <1>1, <1>6, <2>2 DEF Enqueue, Entries, TypeOK
    <3>2. S \in [Frags -> {0, 1}] /\ <<p, f>> \in HeldOf("out") \union {<<p, f>>}
      BY <1>6
    <3> HIDE DEF e, S, f
    <3>3. Exclusive((HeldOf("out") \union {<<p, f>>}) \ {<<p, f>>}, S, Append(dma["out"], e))
      BY <1>6, <1>8, <3>1, <3>2, Sent
    <3> QED
      BY <1>7, <2>1, <3>1, <3>3, FewerHolders
  <2>3. CASE EnqueueFails("out")
    <3>1. HeldOf("out")' \subseteq HeldOf("out") \union {<<p, f>>} /\ dma'["out"] = dma["out"]
      BY <2>1, <2>3 DEF EnqueueFails
    <3> HIDE DEF S, f
    <3> QED
      BY <1>7, <1>8, <3>1, FewerHolders
  <2> QED
    BY <1>2, <2>2, <2>3
<1>10. Exclusive(HeldOf("in")', sem'["in"], dma'["in"])
  BY <1>1, <1>3, <1>6, <1>7, Untouched
<1> QED
  BY <1>4, <1>5, <1>9, <1>10 DEF StreamsExclusive, Streams

\* The DMA gives the fragment at the head of its queue back.
LEMMA CallbackSafe ==
  ASSUME Safe, stale = {}, audio_dmaout_done_callback \/ audio_dmain_done_callback
  PROVE  Places' /\ Buffered' /\ StreamsExclusive'
<1>1. TypeOK /\ Places /\ Buffered /\ StreamsExclusive
  BY DEF Safe
<1>2. PICK s \in Streams :
        /\ dma[s] # <<>> /\ dma' = [dma EXCEPT ![s] = Tail(@)]
        /\ Up(s, Head(dma[s]).frag) /\ WakePollers(s, Head(dma[s]).frag)
        /\ op' = op /\ b' = b /\ buffers' = buffers
  BY DEF audio_dmaout_done_callback, audio_dmain_done_callback, Streams
<1>3. \A q \in Procs : pc'[q] = pc[q] \/ (pc[q] = "pollsleep" /\ pc'[q] = "poll")
  BY <1>2 DEF WakePollers
<1>4. Places'
  BY <1>1, <1>2, <1>3 DEF Places
<1>5. Buffered'
  BY <1>1, <1>2, BuffersStay
<1>6. ASSUME NEW t \in Streams PROVE HeldOf(t)' \subseteq HeldOf(t)
  BY <1>2, <1>3 DEF HeldOf, Holds
<1>7. /\ sem[s] \in [Frags -> {0, 1}] /\ dma[s] \in Seq(Entries)
      /\ Exclusive(HeldOf(s), sem[s], dma[s])
  BY <1>1 DEF TypeOK, StreamsExclusive
<1>8. /\ Head(dma[s]).frag = dma[s][1].frag /\ dma[s][1].frag \in Frags /\ 1 \in 1 .. Len(dma[s])
  BY <1>1, <1>2, HeadFacts
<1>9. sem[s][dma[s][1].frag] = 0
  BY <1>7, <1>8 DEF Exclusive
<1>10. Exclusive(HeldOf(s)', sem'[s], dma'[s])
  <2>1. PICK g \in Frags : g = Head(dma[s]).frag /\ g = dma[s][1].frag
    BY <1>8
  <2>4. sem[s][g] + 1 = 1 /\ sem' = [sem EXCEPT ![s][g] = sem[s][g] + 1]
    BY <1>2, <1>9, <2>1 DEF Up
  <2>5. sem' = [sem EXCEPT ![s][g] = 1]
    BY <2>4
  <2>6. sem'[s] = [sem[s] EXCEPT ![g] = 1]
    BY <1>1, <2>5 DEF TypeOK
  <2>3. sem'[s] = [sem[s] EXCEPT ![dma[s][1].frag] = 1] /\ dma'[s] = Tail(dma[s])
    BY <1>1, <1>2, <2>1, <2>6 DEF TypeOK
  <2>2. Exclusive(HeldOf(s), [sem[s] EXCEPT ![dma[s][1].frag] = 1], Tail(dma[s]))
    BY <1>2, <1>7, Done
  <2> QED
    BY <1>6, <2>2, <2>3, FewerHolders
<1>11. ASSUME NEW t \in Streams, t # s PROVE Exclusive(HeldOf(t)', sem'[t], dma'[t])
  <2>1. sem'[t] = sem[t] /\ dma'[t] = dma[t]
    BY <1>1, <1>2, <1>11 DEF Up, TypeOK
  <2> QED
    BY <1>1, <1>6, <2>1, FewerHolders DEF StreamsExclusive
<1> QED
  BY <1>4, <1>5, <1>10, <1>11 DEF StreamsExclusive

-----------------------------------------------------------------------------
(* The invariant *)

\* At first nothing is held or queued.
LEMMA SafeInit == Init => Safe
<1> SUFFICES ASSUME Init PROVE Safe
  OBVIOUS
<1>1. Empty \in [Frags -> Seq(Nat)] /\ Free \in [Frags -> {0, 1}] /\ 0 \in Frags
  BY FragFacts DEF Empty, Free
<1>2. TypeOK
  BY <1>1 DEF Init, TypeOK, Streams
<1>3. Fits
  BY SoundAssumption DEF Init, Fits, Empty
<1>4. Places /\ Buffered
  BY DEF Init, Places, Buffered
<1>5. \A s \in Streams : HeldOf(s) = {} /\ dma[s] = <<>>
  BY DEF Init, HeldOf, Holds
<1>6. StreamsExclusive
  BY <1>5, Fresh DEF StreamsExclusive
<1> QED
  BY <1>2, <1>3, <1>4, <1>6 DEF Safe

\* What a handler in a copy works on is down, and so is what is queued.
LEMMA DownFacts ==
  ASSUME Safe, stale = {}
  PROVE  /\ \A p \in Procs : pc[p] = "copy" => sem[LoopStream(p)][b[p]] = 0
         /\ \A s \in Streams : \A i \in 1 .. Len(dma[s]) : sem[s][dma[s][i].frag] = 0
<1>1. TypeOK /\ Places /\ StreamsExclusive
  BY DEF Safe
<1>2. ASSUME NEW p \in Procs, pc[p] = "copy" PROVE sem[LoopStream(p)][b[p]] = 0
  <2>1. /\ LoopStream(p) \in Streams /\ b[p] \in Frags
        /\ <<p, b[p]>> \in HeldOf(LoopStream(p))
    BY <1>1, <1>2, HeldFacts
  <2>2. Exclusive(HeldOf(LoopStream(p)), sem[LoopStream(p)], dma[LoopStream(p)])
    BY <1>1, <2>1 DEF StreamsExclusive
  <2> QED
    BY <2>1, <2>2 DEF Exclusive
<1>3. \A s \in Streams : \A i \in 1 .. Len(dma[s]) : sem[s][dma[s][i].frag] = 0
  BY <1>1 DEF StreamsExclusive, Exclusive
<1> QED
  BY <1>2, <1>3

\* Every step keeps the invariant.
LEMMA SafeStep ==
  ASSUME Safe, [Next]_vars
  PROVE  Safe'
<1>1. TypeOK /\ Fits
  BY DEF Safe
<1>2. CASE UNCHANGED vars
  <2>1. UNCHANGED <<fileVars, streamVars, procVars, unitVars, pathVars>>
    BY <1>2 DEF vars
  <2>2. TypeOK' /\ Fits'
    BY <1>1, <2>1 DEF TypeOK, Fits, fileVars, streamVars, procVars, unitVars, pathVars
  <2>3. Places' /\ Buffered'
    <3>1. op' = op /\ pc' = pc /\ buffers' = buffers /\ stale' = stale
      BY <2>1 DEF procVars, streamVars, pathVars
    <3>2. \A q \in Procs : LoopStream(q)' = LoopStream(q)
      BY <3>1 DEF LoopStream
    <3>3. Places'
      BY <3>1 DEF Safe, Places
    <3>4. Buffered'
      BY <3>1, <3>2 DEF Safe, Buffered
    <3> QED
      BY <3>3, <3>4
  <2>4. stale' = {} => StreamsExclusive'
    <3>1. op' = op /\ pc' = pc /\ b' = b /\ sem' = sem /\ dma' = dma /\ stale' = stale
      BY <2>1 DEF procVars, streamVars, pathVars
    <3>2. \A s \in Streams : HeldOf(s)' = HeldOf(s)
      BY <3>1 DEF HeldOf, Holds
    <3> QED
      BY <3>1, <3>2 DEF Safe, StreamsExclusive
  <2> QED
    BY <2>2, <2>3, <2>4 DEF Safe
<1>3. CASE Next
  <2>1. stale = {}
    BY <1>3 DEF Next
  <2>2. CASE audio_dmaout_done_callback \/ audio_dmain_done_callback
    BY <1>1, <2>1, <2>2, DownFacts, CallbackTypeStep, CallbackSafe DEF Safe
  <2>3. ASSUME NEW p \in Procs,
               \/ \E f \in Files, m \in (SUBSET Streams) \ {{}} : smdk2410_audio_open(p, f, m)
               \/ smdk2410_audio_release(p)
               \/ CloseShared(p)
               \/ \E q \in Procs : Inherit(p, q)
        PROVE  Safe'
    BY <1>1, <2>1, <2>3, FileTypeStep, FileSafe DEF Safe
  <2>4. ASSUME NEW p \in Procs, NEW n \in Counts, WriteCall(p, n) \/ ReadCall(p, n)
        PROVE  Safe'
    BY <1>1, <2>1, <2>4, CallTypeStep, QuietSafe, ReadCallSafe DEF Safe
  <2>5. ASSUME NEW p \in Procs, LoopDown(p) \/ LoopDownFails(p) \/ LoopFault(p)
        PROVE  Safe'
    <3>1. sem[LoopStream(p)][b[p]] = 0 \/ ~(pc[p] = "copy")
      BY <2>1, DownFacts
    <3>2. TypeOK' /\ Fits'
      BY <1>1, <2>5, <3>1, LoopTypeStep
    <3> QED
      BY <2>1, <2>5, <3>2, LoopDownSafe, QuietSafe, CopySafe DEF Safe
  <2>6. ASSUME NEW p \in Procs, WriteCopy(p) PROVE Safe'
    <3>1. sem["out"][b[p]] = 0
      BY <2>1, <2>6, DownFacts DEF WriteCopy, At, LoopStream
    <3>2. TypeOK' /\ Fits'
      BY <1>1, <2>6, <3>1, WriteTypeStep
    <3> QED
      BY <2>1, <2>6, <3>2, CopySafe DEF Safe
  <2>7. ASSUME NEW p \in Procs, ReadCopy(p) PROVE Safe'
    <3>1. sem["in"][b[p]] = 0
      BY <2>1, <2>7, DownFacts DEF ReadCopy, At, LoopStream
    <3>2. TypeOK' /\ Fits'
      BY <1>1, <2>7, <3>1, ReadTypeStep
    <3> QED
      BY <2>1, <2>7, <3>2, CopySafe DEF Safe
  <2>8. ASSUME NEW p \in Procs, smdk2410_audio_ioctl(p) PROVE Safe'
    <3>1. TypeOK' /\ Fits'
      BY <1>1, <2>8, IoctlTypeStep
    <3>2. Places' /\ Buffered' /\ (stale' = {} => StreamsExclusive')
      BY <2>1, <2>8, SyncDownSafe, QuietSafe, FileSafe DEF smdk2410_audio_ioctl
    <3> QED
      BY <3>1, <3>2 DEF Safe
  <2>9. ASSUME NEW p \in Procs, smdk2410_audio_poll(p) PROVE Safe'
    BY <1>1, <2>1, <2>9, PollTypeStep, QuietSafe DEF Safe
  <2> QED
    BY <1>3, <2>2, <2>3, <2>4, <2>5, <2>6, <2>7, <2>8, <2>9 DEF Next
<1> QED
  BY <1>2, <1>3

\* The invariant says what FragmentExclusive says.
LEMMA SafeExclusive == Safe => FragmentExclusive
<1> SUFFICES ASSUME Safe, stale = {}, NEW s \in Streams
             PROVE  /\ \A p \in Procs, f \in Frags : Holds(p, s, f) =>
                         /\ sem[s][f] = 0
                         /\ \A q \in Procs : Holds(q, s, f) => q = p
                         /\ \A i \in 1 .. Len(dma[s]) : dma[s][i].frag # f
                    /\ \A i \in 1 .. Len(dma[s]) :
                         /\ sem[s][dma[s][i].frag] = 0
                         /\ \A j \in 1 .. Len(dma[s]) : dma[s][i].frag = dma[s][j].frag => i = j
  BY DEF FragmentExclusive
<1>1. \A p \in Procs, f \in Frags : Holds(p, s, f) <=> <<p, f>> \in HeldOf(s)
  BY DEF HeldOf
<1>2. Exclusive(HeldOf(s), sem[s], dma[s])
  BY DEF Safe, StreamsExclusive
<1> QED
  BY <1>1, <1>2 DEF Exclusive

\* However many threads share a stream, whatever call fails and whenever a
\* signal or a fault comes: every state is well typed, and as long as nobody's
\* buffers were freed under it (`stale') each fragment is in one pair of hands:
\* down before touching the buffer keeps handlers, DMA queue and each other
\* apart (the loops of smdk2410_audio_write and _read, audio_sync, and the
\* callbacks).
THEOREM FragmentsExclusive == Spec => [](TypeOK /\ FragmentExclusive)
<1>1. Init => Safe
  BY SafeInit
<1>2. Safe /\ [Next]_vars => Safe'
  BY SafeStep
<1>3. Safe => TypeOK /\ FragmentExclusive
  BY SafeExclusive DEF Safe
<1> QED
  BY <1>1, <1>2, <1>3, PTL DEF Spec

-----------------------------------------------------------------------------
(* The files *)

FilesInv == OneFilePerStream /\ Counted /\ LastInside

\* Handlers other than open and release leave the files alone, and nobody
\* but a release is in release afterwards.
FilesUntouched ==
  /\ fd' = fd /\ mode' = mode /\ ref' = ref
  /\ \A p \in Procs : op'[p] = "release" => op[p] = "release"

\* Such handlers keep the invariant of the files.
LEMMA FilesStay ==
  ASSUME FilesInv, FilesUntouched
  PROVE  FilesInv'
<1>1. OneFilePerStream' /\ Counted'
  BY DEF FilesInv, FilesUntouched, OneFilePerStream, Counted
<1>2. LastInside'
  BY DEF FilesInv, FilesUntouched, LastInside
<1> QED
  BY <1>1, <1>2 DEF FilesInv

\* The VFS forgets a file that only p had open, and the counters of other
\* files' streams stay; p is not in release afterwards.
LEMMA FileForgotten ==
  ASSUME TypeOK, FilesInv, NEW p \in Procs, fd[p] # None, LastReference(p), Forget(p),
         \A s \in Streams : s \notin mode[fd[p]] => ref'[s] = ref[s],
         op'[p] # "release", \A q \in Procs \ {p} : op'[q] = op[q]
  PROVE  FilesInv'
<1> PICK f \in Files : f = fd[p]
  BY DEF TypeOK
<1>1. /\ fd' = [fd EXCEPT ![p] = None] /\ mode' = [mode EXCEPT ![f] = {}]
      /\ fd \in [Procs -> Files \union {None}] /\ mode \in [Files -> SUBSET Streams]
  BY DEF Forget, TypeOK
<1>2. mode'[f] = {} /\ \A g \in Files \ {f} : mode'[g] = mode[g] /\ mode[g] \intersect mode[f] = {}
  BY <1>1 DEF FilesInv, OneFilePerStream
<1>3. OneFilePerStream'
  BY <1>2 DEF FilesInv, OneFilePerStream
<1>4. Counted'
  BY <1>2 DEF FilesInv, Counted, Streams
<1>5. ASSUME NEW q \in Procs, op'[q] = "release"
      PROVE  /\ fd'[q] # None
             /\ "out" \in mode'[fd'[q]]
             /\ \A r \in Procs \ {q} : fd'[r] # fd'[q]
  <2>1. q # p /\ op[q] = "release" /\ fd'[q] = fd[q] /\ fd[q] # None /\ fd[q] # f
    BY <1>1, <1>5 DEF FilesInv, LastInside, LastReference
  <2>2. fd[q] \in Files /\ mode'[fd[q]] = mode[fd[q]]
    BY <1>1, <1>2, <2>1
  <2>3. "out" \in mode[fd[q]] /\ \A r \in Procs \ {q} : fd[r] # fd[q]
    BY <2>1 DEF FilesInv, LastInside
  <2> QED
    BY <1>1, <2>1, <2>2, <2>3
<1> QED
  BY <1>3, <1>4, <1>5 DEF FilesInv, LastInside

\* open finds the counters of its streams zero, so nobody uses them.
LEMMA OpenFiles ==
  ASSUME TypeOK, Places, FilesInv, NEW p \in Procs, NEW f \in Files, NEW m \in SUBSET Streams,
         smdk2410_audio_open(p, f, m)
  PROVE  FilesInv'
<1>1. /\ fd' = [fd EXCEPT ![p] = f] /\ mode' = [mode EXCEPT ![f] = m] /\ op' = op
      /\ ref' = [s \in Streams |-> IF s \in m THEN 1 ELSE ref[s]]
      /\ fd[p] = None /\ mode[f] = {} /\ pc[p] = "user"
      /\ ref["out"] = 0 /\ ("in" \in m => ref["in"] = 0)
  BY DEF smdk2410_audio_open, OpenAllowed, procVars
<1>2. fd \in [Procs -> Files \union {None}] /\ mode \in [Files -> SUBSET Streams]
  BY DEF TypeOK
<1>3. mode'[f] = m /\ \A g \in Files \ {f} : mode'[g] = mode[g]
  BY <1>1, <1>2
<1>4. \A g \in Files : mode[g] \intersect m = {}
  BY <1>1, <1>2 DEF FilesInv, Counted, Streams
<1>5. OneFilePerStream'
  BY <1>3, <1>4 DEF FilesInv, OneFilePerStream
<1>6. Counted'
  BY <1>1, <1>3 DEF FilesInv, Counted, Streams
<1>7. ASSUME NEW q \in Procs, op[q] = "release"
      PROVE  /\ fd'[q] # None
             /\ "out" \in mode'[fd'[q]]
             /\ \A r \in Procs \ {q} : fd'[r] # fd'[q]
  <2>1. q # p /\ fd[q] # None /\ "out" \in mode[fd[q]] /\ \A r \in Procs \ {q} : fd[r] # fd[q]
    BY <1>1, <1>7 DEF FilesInv, LastInside, Places
  <2>2. fd'[q] = fd[q] /\ fd[q] \in Files /\ fd[q] # f
    BY <1>1, <1>2, <2>1
  <2> QED
    BY <1>1, <1>2, <1>3, <2>1, <2>2
<1> QED
  BY <1>1, <1>5, <1>6, <1>7 DEF FilesInv, LastInside

\* Each way through release.
LEMMA ReleaseFiles ==
  ASSUME TypeOK, Places, FilesInv, NEW p \in Procs, smdk2410_audio_release(p)
  PROVE  FilesInv'
<1>1. CASE ReleaseAtOnce(p)
  <2>1. /\ fd[p] # None /\ LastReference(p) /\ Forget(p) /\ op' = op /\ pc[p] = "user"
        /\ \A s \in Streams : s \notin mode[fd[p]] => ref'[s] = ref[s]
    BY <1>1 DEF ReleaseAtOnce, OpenFile, procVars
  <2>2. op[p] # "release"
    BY <2>1 DEF Places
  <2> QED
    BY <2>1, <2>2, FileForgotten
<1>2. CASE ReleaseSync(p)
  <2>1. /\ fd[p] # None /\ LastReference(p) /\ "out" \in mode[fd[p]]
        /\ fd' = fd /\ mode' = mode
        /\ op' = [op EXCEPT ![p] = "release"]
        /\ ref' = [ref EXCEPT !["in"] = IF "in" \in mode[fd[p]] THEN 0 ELSE ref["in"]]
    BY <1>2 DEF ReleaseSync, OpenFile
  <2>2. fd[p] \in Files /\ ref \in [Streams -> {0, 1}] /\ op \in [Procs -> {"none", "write", "read", "sync", "release", "poll"}]
    BY <2>1 DEF TypeOK
  <2>3. OneFilePerStream'
    BY <2>1 DEF FilesInv, OneFilePerStream
  <2>4. ref'["out"] = ref["out"] /\ ("in" \notin mode[fd[p]] => ref'["in"] = ref["in"])
    BY <2>1, <2>2 DEF Streams
  <2>5. \A g \in Files : "in" \in mode[g] /\ "in" \in mode[fd[p]] => "out" \in mode[g]
    BY <2>1, <2>2 DEF FilesInv, OneFilePerStream
  <2>6. Counted'
    BY <2>1, <2>4, <2>5 DEF FilesInv, Counted
  <2>7. LastInside'
    BY <2>1, <2>2 DEF FilesInv, LastInside, LastReference
  <2> QED
    BY <2>3, <2>6, <2>7 DEF FilesInv
<1>3. ASSUME NEW signalled \in BOOLEAN, ReleaseEnd(p, signalled) PROVE FilesInv'
  <2>1. /\ op[p] = "release" /\ Forget(p) /\ Return(p)
        /\ ref' = [ref EXCEPT !["out"] = 0]
    BY <1>3 DEF ReleaseEnd, At
  <2>2. fd[p] # None /\ "out" \in mode[fd[p]] /\ LastReference(p)
    BY <2>1 DEF FilesInv, LastInside, LastReference
  <2>3. op'[p] = "none" /\ \A q \in Procs \ {p} : op'[q] = op[q]
    BY <2>1 DEF TypeOK, Return
  <2>4. \A s \in Streams : s \notin mode[fd[p]] => ref'[s] = ref[s]
    BY <2>1, <2>2 DEF TypeOK, Streams
  <2> QED
    BY <2>1, <2>2, <2>3, <2>4, FileForgotten
<1> QED
  BY <1>1, <1>2, <1>3 DEF smdk2410_audio_release

\* What the steps of the other handlers leave alone.
LEMMA OtherFiles ==
  ASSUME TypeOK, NEW p \in Procs,
         \/ \E n \in Counts : WriteCall(p, n) \/ ReadCall(p, n)
         \/ LoopDown(p) \/ LoopDownFails(p) \/ LoopFault(p)
         \/ WriteCopy(p) \/ ReadCopy(p)
         \/ smdk2410_audio_ioctl(p)
         \/ smdk2410_audio_poll(p)
  PROVE  FilesUntouched
<1>1. ASSUME op' = op \/ Return(p) \/ \E o \in {"write", "read", "sync", "poll"} : op' = [op EXCEPT ![p] = o]
      PROVE  \A q \in Procs : op'[q] = "release" => op[q] = "release"
  BY <1>1 DEF TypeOK, Return
<1>2. ASSUME UNCHANGED fileVars PROVE fd' = fd /\ mode' = mode /\ ref' = ref
  BY <1>2 DEF fileVars
<1>3. ASSUME NEW n \in Counts, WriteCall(p, n) \/ ReadCall(p, n) PROVE FilesUntouched
  BY <1>1, <1>2, <1>3 DEF WriteCall, ReadCall, Enter, FilesUntouched
<1>4. CASE LoopDown(p) \/ LoopDownFails(p) \/ LoopFault(p)
  BY <1>1, <1>2, <1>4 DEF LoopDown, LoopDownFails, LoopFault, FilesUntouched
<1>5. CASE WriteCopy(p) \/ ReadCopy(p)
  BY <1>1, <1>2, <1>5 DEF WriteCopy, ReadCopy, Loop, FilesUntouched
<1>6. CASE smdk2410_audio_ioctl(p)
  <2>1. CASE SyncCall(p) \/ SyncDown(p)
    BY <1>1, <1>2, <2>1 DEF SyncCall, SyncDown, Enter, FilesUntouched
  <2>2. CASE (\E signalled \in BOOLEAN : SyncEnd(p, signalled)) \/ Reset(p) \/ SetFragment(p)
    BY <1>1, <1>2, <2>2 DEF SyncEnd, Reset, SetFragment, procVars, FilesUntouched
  <2> QED
    BY <1>6, <2>1, <2>2 DEF smdk2410_audio_ioctl
<1>7. CASE smdk2410_audio_poll(p)
  BY <1>1, <1>2, <1>7
     DEF smdk2410_audio_poll, PollCall, PollNoMemory, PollMask, PollTimeout, Enter, procVars,
         FilesUntouched
<1> QED
  BY <1>3, <1>4, <1>5, <1>6, <1>7

\* Every step keeps the invariant of the files.
LEMMA FilesStep ==
  ASSUME Safe, FilesInv, [Next]_vars
  PROVE  FilesInv'
<1>1. TypeOK /\ Places
  BY DEF Safe
<1>2. CASE UNCHANGED vars
  <2>1. FilesUntouched
    BY <1>2 DEF vars, fileVars, procVars, FilesUntouched
  <2> QED
    BY <2>1, FilesStay
<1>3. CASE audio_dmaout_done_callback \/ audio_dmain_done_callback
  <2>1. FilesUntouched
    BY <1>3 DEF audio_dmaout_done_callback, audio_dmain_done_callback, fileVars, FilesUntouched
  <2> QED
    BY <2>1, FilesStay
<1>4. ASSUME NEW p \in Procs, NEW q \in Procs, CloseShared(p) \/ Inherit(p, q)
      PROVE  FilesInv'
  <2>1. /\ mode' = mode /\ ref' = ref /\ op' = op /\ fd[p] # None /\ pc[p] = "user"
        /\ fd \in [Procs -> Files \union {None}]
    BY <1>1, <1>4 DEF CloseShared, Inherit, OpenFile, procVars, TypeOK
  <2>2. OneFilePerStream' /\ Counted'
    BY <2>1 DEF FilesInv, OneFilePerStream, Counted
  <2>3. op[p] = "none"
    BY <1>1, <2>1 DEF Places
  <2>4. \/ fd' = [fd EXCEPT ![p] = None]
        \/ fd' = [fd EXCEPT ![q] = fd[p]] /\ fd[q] = None
    BY <1>4 DEF CloseShared, Inherit
  <2>5. LastInside'
    BY <2>1, <2>3, <2>4 DEF FilesInv, LastInside
  <2> QED
    BY <2>2, <2>5 DEF FilesInv
<1>5. ASSUME NEW p \in Procs, NEW f \in Files, NEW m \in SUBSET Streams,
             smdk2410_audio_open(p, f, m) \/ smdk2410_audio_release(p)
      PROVE  FilesInv'
  BY <1>1, <1>5, OpenFiles, ReleaseFiles
<1>6. ASSUME NEW p \in Procs,
             \/ \E n \in Counts : WriteCall(p, n) \/ ReadCall(p, n)
             \/ LoopDown(p) \/ LoopDownFails(p) \/ LoopFault(p)
             \/ WriteCopy(p) \/ ReadCopy(p)
             \/ smdk2410_audio_ioctl(p)
             \/ smdk2410_audio_poll(p)
      PROVE  FilesInv'
  BY <1>1, <1>6, OtherFiles, FilesStay
<1>7. CASE Next
  <2>1. ASSUME NEW p \in Procs, smdk2410_audio_release(p) PROVE FilesInv'
    BY <1>1, <2>1, ReleaseFiles
  <2> QED
    BY <1>3, <1>4, <1>5, <1>6, <1>7, <2>1 DEF Next
<1> QED
  BY <1>2, <1>7

\* However many applications open and close the device: at most one open file
\* may use a stream, also while a release waits for the last fragment, by when
\* smdk2410_audio_release has cleared the reader's counter already.
THEOREM OneFile == Spec => []OneFilePerStream
<1>1. Init => Safe
  BY SafeInit
<1>2. Init => FilesInv
  BY DEF Init, FilesInv, OneFilePerStream, Counted, LastInside
<1>3. Safe /\ [Next]_vars => Safe'
  BY SafeStep
<1>4. Safe /\ FilesInv /\ [Next]_vars => FilesInv'
  BY FilesStep
<1>5. FilesInv => OneFilePerStream
  BY DEF FilesInv
<1> QED
  BY <1>1, <1>2, <1>3, <1>4, <1>5, PTL DEF Spec

-----------------------------------------------------------------------------
(* Who may lose its buffers *)

\* A handler runs on an open file, and what it writes to or reads from is one
\* of the file's streams.
InsideFile ==
  \A p \in Procs :
    /\ fd[p] # None => mode[fd[p]] # {}
    /\ op[p] # "none" => fd[p] # None
    /\ op[p] = "write" => "out" \in mode[fd[p]]
    /\ op[p] = "read" => "in" \in mode[fd[p]]

\* A thread only enters a handler that its file allows.
LEMMA InsideStays ==
  ASSUME InsideFile, NEW p \in Procs, fd' = fd, mode' = mode,
         \A q \in Procs : op'[q] \in {op[q], "none"} \/ (q = p /\ fd[p] # None),
         op'[p] = "write" => op[p] = "write" \/ "out" \in mode[fd[p]],
         op'[p] = "read" => op[p] = "read" \/ "in" \in mode[fd[p]]
  PROVE  InsideFile'
BY DEF InsideFile

\* When a file is forgotten its last handler has returned.
LEMMA InsideForgotten ==
  ASSUME TypeOK, InsideFile, NEW p \in Procs, fd[p] # None, LastReference(p), Forget(p),
         op'[p] = "none", \A q \in Procs \ {p} : op'[q] = op[q]
  PROVE  InsideFile'
<1>1. /\ fd' = [fd EXCEPT ![p] = None] /\ mode' = [mode EXCEPT ![fd[p]] = {}]
      /\ fd \in [Procs -> Files \union {None}] /\ mode \in [Files -> SUBSET Streams]
  BY DEF Forget, TypeOK
<1>2. fd'[p] = None /\ op'[p] = "none"
  BY <1>1
<1>3. ASSUME NEW q \in Procs \ {p}, fd[q] # None
      PROVE  fd'[q] = fd[q] /\ mode'[fd'[q]] = mode[fd[q]]
  BY <1>1, <1>3 DEF LastReference
<1>4. \A q \in Procs \ {p} : fd'[q] = fd[q]
  BY <1>1
<1> QED
  BY <1>2, <1>3, <1>4 DEF InsideFile

\* Every step keeps handlers inside their files.
LEMMA InsideStep ==
  ASSUME Safe, FilesInv, InsideFile, [Next]_vars
  PROVE  InsideFile'
<1>1. TypeOK /\ Places
  BY DEF Safe
<1>2. CASE UNCHANGED vars \/ audio_dmaout_done_callback \/ audio_dmain_done_callback
  <2>1. fd' = fd /\ mode' = mode /\ op' = op
    BY <1>2 DEF vars, fileVars, procVars, audio_dmaout_done_callback, audio_dmain_done_callback
  <2> QED
    BY <2>1 DEF InsideFile
<1>3. ASSUME NEW p \in Procs, NEW q \in Procs, CloseShared(p) \/ Inherit(p, q)
      PROVE  InsideFile'
  <2>1. /\ mode' = mode /\ op' = op /\ fd[p] # None /\ op[p] = "none"
        /\ fd \in [Procs -> Files \union {None}]
    BY <1>1, <1>3 DEF CloseShared, Inherit, OpenFile, procVars, TypeOK, Places
  <2>2. \/ fd' = [fd EXCEPT ![p] = None]
        \/ fd' = [fd EXCEPT ![q] = fd[p]] /\ op[q] = "none"
    BY <1>1, <1>3 DEF CloseShared, Inherit, Places
  <2>3. ASSUME NEW r \in Procs
        PROVE  /\ fd'[r] # None => mode[fd'[r]] # {}
               /\ op[r] # "none" => fd'[r] = fd[r]
    <3>1. fd'[r] \in {None, fd[r], fd[p]}
      BY <2>1, <2>2
    <3>2. op[r] # "none" => fd'[r] = fd[r]
      BY <2>1, <2>2
    <3> QED
      BY <3>1, <3>2, <2>1 DEF InsideFile
  <2>4. ASSUME NEW r \in Procs
        PROVE  /\ op[r] # "none" => fd'[r] # None
               /\ op[r] = "write" => "out" \in mode[fd'[r]]
               /\ op[r] = "read" => "in" \in mode[fd'[r]]
    BY <2>3, <2>4 DEF InsideFile
  <2> QED
    BY <2>1, <2>3, <2>4 DEF InsideFile
<1>4. ASSUME NEW p \in Procs, NEW f \in Files, NEW m \in (SUBSET Streams) \ {{}},
             smdk2410_audio_open(p, f, m)
      PROVE  InsideFile'
  <2>1. /\ fd' = [fd EXCEPT ![p] = f] /\ mode' = [mode EXCEPT ![f] = m] /\ op' = op
        /\ mode[f] = {} /\ pc[p] = "user" /\ m # {}
        /\ fd \in [Procs -> Files \union {None}] /\ mode \in [Files -> SUBSET Streams]
    BY <1>1, <1>4 DEF smdk2410_audio_open, procVars, TypeOK
  <2>2. op[p] = "none"
    BY <1>1, <2>1 DEF Places
  <2>3. \A q \in Procs \ {p} : fd[q] # None => fd'[q] = fd[q] /\ mode'[fd[q]] = mode[fd[q]]
    BY <2>1 DEF InsideFile
  <2>4. fd'[p] = f /\ mode'[f] = m /\ \A q \in Procs \ {p} : fd'[q] = fd[q]
    BY <2>1
  <2> QED
    BY <2>1, <2>2, <2>3, <2>4 DEF InsideFile
<1>5. ASSUME NEW p \in Procs, smdk2410_audio_release(p) PROVE InsideFile'
  <2>1. CASE ReleaseAtOnce(p)
    <3>1. fd[p] # None /\ LastReference(p) /\ Forget(p) /\ op' = op /\ pc[p] = "user"
      BY <2>1 DEF ReleaseAtOnce, OpenFile, procVars
    <3>2. op[p] = "none"
      BY <1>1, <3>1 DEF Places
    <3> QED
      BY <1>1, <3>1, <3>2, InsideForgotten
  <2>2. CASE ReleaseSync(p)
    <3>1. fd' = fd /\ mode' = mode /\ op' = [op EXCEPT ![p] = "release"] /\ fd[p] # None
      BY <2>2 DEF ReleaseSync, OpenFile
    <3> QED
      BY <1>1, <3>1, InsideStays DEF TypeOK
  <2>3. ASSUME NEW signalled \in BOOLEAN, ReleaseEnd(p, signalled) PROVE InsideFile'
    <3>1. op[p] = "release" /\ Forget(p) /\ Return(p)
      BY <2>3 DEF ReleaseEnd, At
    <3>2. fd[p] # None /\ LastReference(p)
      BY <3>1 DEF FilesInv, LastInside, LastReference
    <3>3. op'[p] = "none" /\ \A q \in Procs \ {p} : op'[q] = op[q]
      BY <1>1, <3>1 DEF TypeOK, Return
    <3> QED
      BY <1>1, <3>1, <3>2, <3>3, InsideForgotten
  <2> QED
    BY <1>5, <2>1, <2>2, <2>3 DEF smdk2410_audio_release
<1>6. ASSUME NEW p \in Procs,
             \/ \E n \in Counts : WriteCall(p, n) \/ ReadCall(p, n)
             \/ LoopDown(p) \/ LoopDownFails(p) \/ LoopFault(p)
             \/ WriteCopy(p) \/ ReadCopy(p)
             \/ smdk2410_audio_ioctl(p)
             \/ smdk2410_audio_poll(p)
      PROVE  InsideFile'
  <2>1. fd' = fd /\ mode' = mode
    BY <1>1, <1>6, OtherFiles DEF FilesUntouched
  <2>2. ASSUME op' = op \/ Return(p) PROVE InsideFile'
    <3>1. \A q \in Procs : op'[q] \in {op[q], "none"}
      BY <1>1, <2>2 DEF TypeOK, Return
    <3> QED
      BY <2>1, <3>1, InsideStays
  <2>3. ASSUME NEW o, NEW S, Enter(p, o, S), o = "write" => "out" \in mode[fd[p]],
               o = "read" => "in" \in mode[fd[p]]
        PROVE  InsideFile'
    <3>1. op' = [op EXCEPT ![p] = o] /\ fd[p] # None
      BY <2>3 DEF Enter, OpenFile
    <3>2. op'[p] = o /\ \A q \in Procs \ {p} : op'[q] = op[q]
      BY <1>1, <3>1 DEF TypeOK
    <3> QED
      BY <2>1, <2>3, <3>1, <3>2, InsideStays
  <2>4. ASSUME NEW n \in Counts, WriteCall(p, n) \/ ReadCall(p, n) PROVE InsideFile'
    BY <2>3, <2>4 DEF WriteCall, ReadCall
  <2>5. CASE LoopDown(p) \/ LoopDownFails(p) \/ LoopFault(p)
    BY <2>2, <2>5 DEF LoopDown, LoopDownFails, LoopFault
  <2>6. CASE WriteCopy(p) \/ ReadCopy(p)
    BY <2>2, <2>6 DEF WriteCopy, ReadCopy, Loop
  <2>7. CASE smdk2410_audio_ioctl(p)
    <3>1. CASE SyncCall(p)
      BY <2>3, <3>1 DEF SyncCall
    <3>2. CASE SyncDown(p) \/ (\E signalled \in BOOLEAN : SyncEnd(p, signalled))
               \/ Reset(p) \/ SetFragment(p)
      BY <2>2, <3>2 DEF SyncDown, SyncEnd, Reset, SetFragment, procVars
    <3> QED
      BY <2>7, <3>1, <3>2 DEF smdk2410_audio_ioctl
  <2>8. CASE smdk2410_audio_poll(p)
    <3>1. CASE PollCall(p)
      BY <2>3, <3>1 DEF PollCall
    <3>2. CASE PollNoMemory(p) \/ PollMask(p) \/ PollTimeout(p)
      BY <2>2, <3>2 DEF PollNoMemory, PollMask, PollTimeout, procVars
    <3> QED
      BY <2>8, <3>1, <3>2 DEF smdk2410_audio_poll
  <2> QED
    BY <1>6, <2>4, <2>5, <2>6, <2>7, <2>8
<1>7. CASE Next
  BY <1>2, <1>3, <1>4, <1>5, <1>6, <1>7 DEF Next
<1> QED
  BY <1>2, <1>7

\* Who works on a stream is inside the file that may use it, except for SYNC.
LEMMA UsingOwn ==
  ASSUME TypeOK, FilesInv, InsideFile, NEW q \in Procs, NEW s \in Using(q)
  PROVE  /\ fd[q] # None
         /\ s \in mode[fd[q]] \/ (op[q] = "sync" /\ s = "out")
<1>1. op[q] # "none"
  BY DEF Using
<1>2. fd[q] # None
  BY <1>1 DEF InsideFile
<1>3. s \in mode[fd[q]] \/ (op[q] = "sync" /\ s = "out")
  <2>1. CASE op[q] = "read"
    BY <2>1 DEF Using, InsideFile
  <2>2. CASE op[q] = "poll"
    BY <2>2 DEF Using
  <2>3. CASE op[q] = "write"
    BY <2>3 DEF Using, InsideFile
  <2>4. CASE op[q] = "release"
    BY <2>4 DEF Using, FilesInv, LastInside
  <2>5. CASE op[q] \notin {"read", "poll", "write", "release"}
    <3>1. s = "out"
      BY <1>1, <2>5 DEF Using
    <3> QED
      BY <1>1, <2>5, <3>1 DEF TypeOK
  <2> QED
    BY <2>1, <2>2, <2>3, <2>4, <2>5
<1> QED
  BY <1>2, <1>3

\* Clearing streams of a file that only p has open meets, besides p, only
\* threads that sync the output through another file.
LEMMA ClearedUnder ==
  ASSUME TypeOK, FilesInv, InsideFile, NEW p \in Procs, fd[p] # None, LastReference(p),
         NEW S \in SUBSET mode[fd[p]], audio_clear_buf(S, p), NEW q \in stale'
  PROVE  op[q] = "sync" /\ "out" \notin mode[fd[q]]
<1>1. q \in Procs \ {p} /\ Using(q) \intersect S # {}
  BY DEF audio_clear_buf
<1>2. PICK s \in Using(q) : s \in mode[fd[p]]
  BY <1>1
<1>3. /\ fd[q] # None
      /\ s \in mode[fd[q]] \/ (op[q] = "sync" /\ s = "out")
  BY <1>1, UsingOwn
<1>4. fd[p] \in Files /\ fd[q] \in Files /\ fd[q] # fd[p]
  BY <1>1, <1>3 DEF TypeOK, LastReference
<1>5. mode[fd[p]] \intersect mode[fd[q]] = {}
  BY <1>4 DEF FilesInv, OneFilePerStream
<1> QED
  BY <1>2, <1>3, <1>5

\* The first open clears streams that nobody is inside.
LEMMA ColdOpenClears ==
  ASSUME TypeOK, FilesInv, InsideFile, NEW p \in Procs, NEW m \in SUBSET Streams,
         \A s \in Streams : ref[s] = 0, audio_clear_buf(m, p)
  PROVE  stale' = {}
<1>1. ASSUME NEW q \in stale' PROVE FALSE
  <2>1. q \in Procs /\ Using(q) # {}
    BY <1>1 DEF audio_clear_buf
  <2>2. fd[q] # None
    BY <2>1, UsingOwn
  <2>3. fd[q] \in Files /\ mode[fd[q]] # {} /\ mode[fd[q]] \subseteq Streams
    BY <2>1, <2>2 DEF TypeOK, InsideFile
  <2>4. "out" \in mode[fd[q]] \/ "in" \in mode[fd[q]]
    BY <2>3 DEF Streams
  <2>5. ref["out"] = 0 /\ ref["in"] = 0
    BY DEF Streams
  <2> QED
    BY <2>3, <2>4, <2>5 DEF FilesInv, Counted
<1> QED
  BY <1>1

\* Steps that free no buffers put nobody on freed memory.
LEMMA NothingFreed ==
  ASSUME NEW p \in Procs,
         \/ \E n \in Counts : WriteCall(p, n) \/ ReadCall(p, n)
         \/ LoopDown(p) \/ LoopDownFails(p) \/ LoopFault(p)
         \/ WriteCopy(p) \/ ReadCopy(p)
         \/ smdk2410_audio_ioctl(p)
         \/ smdk2410_audio_poll(p)
  PROVE  stale' = stale \/ UNCHANGED fileVars
<1>1. CASE smdk2410_audio_ioctl(p)
  BY <1>1 DEF smdk2410_audio_ioctl, SyncCall, SyncDown, SyncEnd, Reset, SetFragment
<1>2. CASE smdk2410_audio_poll(p)
  BY <1>2 DEF smdk2410_audio_poll, PollCall, PollNoMemory, PollMask, PollTimeout
<1>3. CASE WriteCopy(p) \/ ReadCopy(p)
  BY <1>3 DEF WriteCopy, ReadCopy
<1>4. CASE LoopDown(p) \/ LoopDownFails(p) \/ LoopFault(p)
  BY <1>4 DEF LoopDown, LoopDownFails, LoopFault
<1>5. ASSUME NEW n \in Counts, WriteCall(p, n) \/ ReadCall(p, n)
      PROVE  UNCHANGED fileVars
  BY <1>5 DEF WriteCall, ReadCall
<1> QED
  BY <1>1, <1>2, <1>3, <1>4, <1>5

\* However many threads share files, audio_clear_buf frees buffers under a thread
\* inside the driver only in a step that opens and closes no file (a RESET does),
\* or under a SYNC through a file without output, which the close of the file
\* that writes does not wait for.  No open, and no close of a reader, frees the
\* buffers of a handler that works on the streams of its own file.
THEOREM FreesOwnBuffers == Spec => FreedOnlyByReset
<1> DEFINE Excused ==
      \A p \in stale' :
        \/ UNCHANGED fileVars
        \/ op[p] = "sync" /\ "out" \notin mode[fd[p]]
<1>1. Init => Safe /\ FilesInv
  BY SafeInit DEF Init, FilesInv, OneFilePerStream, Counted, LastInside
<1>2. Init => InsideFile
  BY DEF Init, InsideFile
<1>3. Safe /\ [Next]_vars => Safe'
  BY SafeStep
<1>4. Safe /\ FilesInv /\ [Next]_vars => FilesInv'
  BY FilesStep
<1>5. Safe /\ FilesInv /\ InsideFile /\ [Next]_vars => InsideFile'
  BY InsideStep
<1>6. Safe /\ FilesInv /\ InsideFile /\ [Next]_vars => [Excused]_vars
  <2> SUFFICES ASSUME Safe, FilesInv, InsideFile, Next PROVE Excused
    OBVIOUS
  <2>1. TypeOK /\ Places /\ stale = {}
    BY DEF Safe, Next
  <2>2. CASE audio_dmaout_done_callback \/ audio_dmain_done_callback
    BY <2>2 DEF audio_dmaout_done_callback, audio_dmain_done_callback
  <2>3. ASSUME NEW p \in Procs, NEW q \in Procs, CloseShared(p) \/ Inherit(p, q)
        PROVE  Excused
    BY <2>1, <2>3 DEF CloseShared, Inherit, pathVars
  <2>4. ASSUME NEW p \in Procs, NEW f \in Files, NEW m \in (SUBSET Streams) \ {{}},
               smdk2410_audio_open(p, f, m)
        PROVE  Excused
    <3>1. CASE \A s \in Streams : ref[s] = 0
      <4>1. audio_clear_buf(m, p)
        BY <2>4, <3>1 DEF smdk2410_audio_open
      <4>2. stale' = {}
        BY <2>1, <3>1, <4>1, ColdOpenClears
      <4> QED
        BY <4>2
    <3>2. CASE ~ \A s \in Streams : ref[s] = 0
      BY <2>1, <2>4, <3>2 DEF smdk2410_audio_open, pathVars
    <3> QED
      BY <3>1, <3>2
  <2>5. ASSUME NEW p \in Procs, smdk2410_audio_release(p) PROVE Excused
    <3>1. PICK S \in SUBSET mode[fd[p]] :
            fd[p] # None /\ LastReference(p) /\ audio_clear_buf(S, p)
      <4>1. CASE ReleaseAtOnce(p)
        BY <4>1 DEF ReleaseAtOnce, OpenFile
      <4>2. CASE ReleaseSync(p)
        <5>1. mode[fd[p]] \ {"out"} \in SUBSET mode[fd[p]]
          OBVIOUS
        <5> QED
          BY <4>2, <5>1 DEF ReleaseSync, OpenFile
      <4>3. ASSUME NEW signalled \in BOOLEAN, ReleaseEnd(p, signalled)
            PROVE  {"out"} \in SUBSET mode[fd[p]] /\ fd[p] # None /\ LastReference(p)
                   /\ audio_clear_buf({"out"}, p)
        BY <4>3 DEF ReleaseEnd, At, FilesInv, LastInside, LastReference
      <4> QED
        BY <2>5, <4>1, <4>2, <4>3 DEF smdk2410_audio_release
    <3> QED
      BY <2>1, <3>1, ClearedUnder
  <2>6. ASSUME NEW p \in Procs,
               \/ \E n \in Counts : WriteCall(p, n) \/ ReadCall(p, n)
               \/ LoopDown(p) \/ LoopDownFails(p) \/ LoopFault(p)
               \/ WriteCopy(p) \/ ReadCopy(p)
               \/ smdk2410_audio_ioctl(p)
               \/ smdk2410_audio_poll(p)
        PROVE  Excused
    BY <2>1, <2>6, NothingFreed
  <2> QED
    BY <2>2, <2>3, <2>4, <2>5, <2>6 DEF Next
<1> QED
  BY <1>1, <1>2, <1>3, <1>4, <1>5, <1>6, PTL DEF Spec, FreedOnlyByReset

-----------------------------------------------------------------------------
(* Sequences of sequences of units *)

\* Induction over the natural numbers, for a set of them: the numbers up to n
\* outside S would be a finite set that counting down by one maps into itself
\* one to one, so onto itself, and yet misses its greatest element.
LEMMA SetInduction ==
  ASSUME NEW S \in SUBSET Nat, 0 \in S, \A n \in S : n + 1 \in S
  PROVE  \A n \in Nat : n \in S
<1> SUFFICES ASSUME NEW n \in Nat, n \notin S PROVE FALSE
  OBVIOUS
<1> DEFINE T == (0 .. n) \ S
           down == [k \in T |-> k - 1]
<1>1. IsFiniteSet(T)
  <2>1. IsFiniteSet(0 .. n) /\ T \in SUBSET (0 .. n)
    BY FS_Interval
  <2> QED
    BY <2>1, FS_Subset, Zenon
<1>2. down \in [T -> T]
  <2> SUFFICES ASSUME NEW k \in T PROVE k - 1 \in T
    OBVIOUS
  <2>1. k \in Nat /\ k # 0 /\ k <= n
    OBVIOUS
  <2>2. k - 1 \in S => (k - 1) + 1 \in S
    OBVIOUS
  <2> QED
    BY <2>1, <2>2
<1>3. \A i, j \in T : down[i] = down[j] => i = j
  OBVIOUS
<1>4. down \in Injection(T, T)
  BY <1>2, <1>3, Fun_IsInj, Zenon
<1>5. down \in Surjection(T, T)
  BY <1>1, <1>4, FS_Injection, Zenon
<1>6. PICK k \in T : down[k] = n
  <2>1. n \in T
    OBVIOUS
  <2> HIDE DEF T, down
  <2> QED
    BY <1>5, <2>1 DEF Surjection
<1>7. down[k] = k - 1 /\ k <= n /\ k \in Nat
  BY <1>6
<1> QED
  BY <1>6, <1>7

\* The recursive function by which FlattenSeq is defined, on the first n.
FlattenUpTo(seqs, n, fl) ==
  fl = [i \in 1 .. n |-> IF i = 1 THEN seqs[i] ELSE fl[i-1] \o seqs[i]]

\* It exists.
LEMMA FlattenExists ==
  ASSUME NEW seqs
  PROVE  \A n \in Nat : \E fl : FlattenUpTo(seqs, n, fl)
<1> DEFINE S == {n \in Nat : \E fl : FlattenUpTo(seqs, n, fl)}
<1>1. 0 \in S
  <2> DEFINE fl == [i \in 1 .. 0 |-> seqs[i]]
  <2>1. FlattenUpTo(seqs, 0, fl)
    BY DEF FlattenUpTo
  <2> QED
    BY <2>1
<1>2. ASSUME NEW n \in S PROVE n + 1 \in S
  <2>1. PICK fl : FlattenUpTo(seqs, n, fl)
    OBVIOUS
  <2> DEFINE gl == [i \in 1 .. n + 1 |->
                      IF i = n + 1 THEN IF i = 1 THEN seqs[i] ELSE fl[n] \o seqs[i] ELSE fl[i]]
  <2>2. n \in Nat /\ \A i \in 1 .. n + 1 : i \in 1 .. n \/ i = n + 1
    OBVIOUS
  <2>3. \A i \in 1 .. n : fl[i] = IF i = 1 THEN seqs[i] ELSE fl[i-1] \o seqs[i]
    BY <2>1 DEF FlattenUpTo
  <2>4. \A i \in 1 .. n : gl[i] = fl[i]
    BY <2>2
  <2>5. ASSUME NEW i \in 1 .. n + 1
        PROVE  gl[i] = IF i = 1 THEN seqs[i] ELSE gl[i-1] \o seqs[i]
    <3>1. CASE i = n + 1
      <4>1. i # 1 => n \in 1 .. n /\ i - 1 = n
        BY <2>2, <3>1
      <4> QED
        BY <2>2, <2>4, <3>1, <4>1
    <3>2. CASE i \in 1 .. n
      <4>1. i # 1 => i - 1 \in 1 .. n
        BY <2>2, <3>2
      <4> QED
        BY <2>3, <2>4, <3>2, <4>1
    <3> QED
      BY <2>2, <3>1, <3>2
  <2>6. gl = [i \in 1 .. n + 1 |-> gl[i]]
    OBVIOUS
  <2> HIDE DEF gl
  <2>7. FlattenUpTo(seqs, n + 1, gl)
    BY <2>5, <2>6 DEF FlattenUpTo
  <2> QED
    BY <2>2, <2>7
<1> HIDE DEF S
<1>3. \A n \in Nat : n \in S
  BY <1>1, <1>2, SetInduction DEF S
<1> QED
  BY <1>3 DEF S

\* FlattenSeq is the last element of that function.
LEMMA FlattenDef ==
  ASSUME NEW seqs, Len(seqs) \in Nat, Len(seqs) # 0
  PROVE  \E fl : FlattenUpTo(seqs, Len(seqs), fl) /\ FlattenSeq(seqs) = fl[Len(seqs)]
<1> DEFINE fl == CHOOSE f : FlattenUpTo(seqs, Len(seqs), f)
<1>1. FlattenUpTo(seqs, Len(seqs), fl)
  BY FlattenExists
<1>2. FlattenSeq(seqs) = fl[Len(seqs)]
  BY DEF FlattenSeq, FlattenUpTo
<1> QED
  BY <1>1, <1>2

SameUpTo(s, t, n) == \A i \in 1 .. n : s[i] = t[i]

\* It is determined by the first elements.
LEMMA FlattenUnique ==
  ASSUME NEW s, NEW t, NEW m \in Nat, SameUpTo(s, t, m),
         NEW fl, FlattenUpTo(s, m, fl), NEW gl, FlattenUpTo(t, m + 1, gl)
  PROVE  SameUpTo(fl, gl, m)
<1> DEFINE S == {k \in Nat : k \in 1 .. m => fl[k] = gl[k]}
<1>1. \A i \in 1 .. m : fl[i] = IF i = 1 THEN s[i] ELSE fl[i-1] \o s[i]
  BY DEF FlattenUpTo
<1>2. \A i \in 1 .. m : gl[i] = IF i = 1 THEN t[i] ELSE gl[i-1] \o t[i]
  <2>1. \A i \in 1 .. m : i \in 1 .. m + 1
    OBVIOUS
  <2>2. \A i \in 1 .. m + 1 : gl[i] = IF i = 1 THEN t[i] ELSE gl[i-1] \o t[i]
    BY DEF FlattenUpTo
  <2> QED
    BY <2>1, <2>2
<1>3. 0 \in S
  OBVIOUS
<1>4. ASSUME NEW k \in S PROVE k + 1 \in S
  <2>1. k \in Nat /\ (k + 1 \in 1 .. m /\ k + 1 # 1 => k \in 1 .. m /\ (k + 1) - 1 = k)
    OBVIOUS
  <2>2. k + 1 \in 1 .. m => s[k + 1] = t[k + 1]
    BY DEF SameUpTo
  <2> QED
    BY <1>1, <1>2, <2>1, <2>2
<1> HIDE DEF S
<1>5. \A k \in Nat : k \in S
  BY <1>3, <1>4, SetInduction DEF S
<1> QED
  BY <1>5 DEF S, SameUpTo

\* One sequence more.
LEMMA FlattenAppend ==
  ASSUME NEW s \in Seq(Seq(Nat)), NEW x \in Seq(Nat)
  PROVE  /\ FlattenSeq(<<>>) = <<>>
         /\ s = <<>> => FlattenSeq(Append(s, x)) = x
         /\ s # <<>> => FlattenSeq(Append(s, x)) = FlattenSeq(s) \o x
<1> DEFINE t == Append(s, x)
           n == Len(s)
<1>1. FlattenSeq(<<>>) = <<>>
  BY DEF FlattenSeq
<1>2. n \in Nat /\ Len(t) = n + 1 /\ t[n + 1] = x /\ \A i \in 1 .. n : t[i] = s[i]
  BY AppendProperties, LenProperties
<1>3. s # <<>> => n # 0
  BY EmptySeq
<1> HIDE DEF t, n
<1>4. PICK gl : FlattenUpTo(t, n + 1, gl) /\ FlattenSeq(t) = gl[n + 1]
  BY <1>2, FlattenDef
<1>5. gl[n + 1] = IF n + 1 = 1 THEN t[n + 1] ELSE gl[n] \o t[n + 1]
  <2>1. n + 1 \in 1 .. n + 1 /\ (n + 1) - 1 = n
    <3>1. n \in Nat
      BY <1>2
    <3> QED
      BY <3>1
  <2>2. \A i \in 1 .. n + 1 : gl[i] = IF i = 1 THEN t[i] ELSE gl[i-1] \o t[i]
    BY <1>4 DEF FlattenUpTo
  <2> QED
    BY <2>1, <2>2
<1>6. CASE s = <<>>
  <2>1. n = 0
    BY <1>6 DEF n
  <2> QED
    BY <1>1, <1>2, <1>4, <1>5, <1>6, <2>1 DEF t
<1>7. CASE s # <<>>
  <2>1. PICK fl : FlattenUpTo(s, n, fl) /\ FlattenSeq(s) = fl[n]
    BY <1>2, <1>3, <1>7, FlattenDef DEF n
  <2>2. n \in 1 .. n /\ n + 1 # 1 /\ n <= n + 1 /\ n + 1 \in Nat
    <3>1. n \in Nat /\ n # 0
      BY <1>2, <1>3, <1>7
    <3> QED
      BY <3>1
  <2>3. fl[n] = gl[n]
    <3>1. /\ n \in Nat
          /\ \A i \in 1 .. n : s[i] = t[i]
          /\ FlattenUpTo(s, n, fl)
          /\ FlattenUpTo(t, n + 1, gl)
      BY <1>2, <1>4, <2>1
    <3>2. \A i \in 1 .. n : fl[i] = gl[i]
      <4>1. SameUpTo(s, t, n)
        BY <3>1 DEF SameUpTo
      <4>2. SameUpTo(fl, gl, n)
        BY <3>1, <4>1, FlattenUnique, Zenon
      <4> QED
        BY <4>2 DEF SameUpTo
    <3> QED
      BY <2>2, <3>2
  <2> QED
    BY <1>1, <1>2, <1>4, <1>5, <1>7, <2>1, <2>2, <2>3 DEF t
<1> QED
  BY <1>6, <1>7

\* A sequence of sequences is built by Append.
LEMMA LastApart ==
  ASSUME NEW T, NEW n \in Nat, NEW s \in Seq(T), Len(s) = n + 1
  PROVE  \E r \in Seq(T), x \in T :
           s = Append(r, x) /\ Len(r) = n /\ x = s[n + 1] /\ \A i \in 1 .. n : r[i] = s[i]
<1>1. s # <<>>
  BY EmptySeq
<1>2. PICK r \in Seq(T), x \in T : s = Append(r, x)
  BY <1>1, SequenceEmptyOrAppend
<1>3. Len(r) \in Nat /\ Len(s) = Len(r) + 1 /\ s[Len(r) + 1] = x /\ \A i \in 1 .. Len(r) : s[i] = r[i]
  BY <1>2, AppendProperties, LenProperties
<1>4. Len(r) = n
  BY <1>3
<1> QED
  BY <1>2, <1>3, <1>4

\* Joined sequences of numbers are a sequence of numbers.
LEMMA FlattenType == \A s \in Seq(Seq(Nat)) : FlattenSeq(s) \in Seq(Nat)
<1> DEFINE S == {n \in Nat : \A q \in Seq(Seq(Nat)) : Len(q) = n => FlattenSeq(q) \in Seq(Nat)}
<1>1. 0 \in S
  <2>1. \A q \in Seq(Seq(Nat)) : Len(q) = 0 => q = <<>>
    BY EmptySeq
  <2>2. FlattenSeq(<<>>) = <<>> /\ <<>> \in Seq(Nat)
    BY FlattenAppend, EmptySeq DEF FlattenSeq
  <2> QED
    BY <2>1, <2>2
<1>2. ASSUME NEW n \in Nat, n \in S PROVE n + 1 \in S
  <2>1. \A q \in Seq(Seq(Nat)) : Len(q) = n => FlattenSeq(q) \in Seq(Nat)
    BY <1>2
  <2>2. ASSUME NEW q \in Seq(Seq(Nat)), Len(q) = n + 1 PROVE FlattenSeq(q) \in Seq(Nat)
    <3>1. \E r \in Seq(Seq(Nat)), x \in Seq(Nat) :
            q = Append(r, x) /\ Len(r) = n /\ x = q[n + 1] /\ \A i \in 1 .. n : r[i] = q[i]
      BY <2>2, LastApart
    <3>2. PICK r \in Seq(Seq(Nat)), x \in Seq(Nat) : q = Append(r, x) /\ Len(r) = n
      BY <3>1
    <3>3. FlattenSeq(r) \in Seq(Nat)
      BY <2>1, <3>2
    <3>4. FlattenSeq(r) \o x \in Seq(Nat)
      BY <3>3, ConcatProperties
    <3>5. FlattenSeq(q) = x \/ FlattenSeq(q) = FlattenSeq(r) \o x
      BY <3>2, FlattenAppend
    <3> QED
      BY <3>4, <3>5
  <2> QED
    BY <2>2
<1> HIDE DEF S
<1>3. \A n \in Nat : n \in S
  BY <1>1, <1>2, SetInduction DEF S
<1> QED
  BY <1>3, LenProperties DEF S

\* Append as one equation.
LEMMA FlattenMore ==
  ASSUME NEW s \in Seq(Seq(Nat)), NEW x \in Seq(Nat)
  PROVE  FlattenSeq(Append(s, x)) = FlattenSeq(s) \o x
<1>1. CASE s = <<>>
  BY <1>1, FlattenAppend, ConcatEmptySeq
<1>2. CASE s # <<>>
  BY <1>2, FlattenAppend
<1> QED
  BY <1>1, <1>2

\* Joining sequences of numbers is associative.
LEMMA ConcatTwice ==
  \A u, v, w \in Seq(Nat) : (u \o v) \o w = u \o (v \o w)
<1>1. ASSUME NEW u \in Seq(Nat), NEW v \in Seq(Nat), NEW w \in Seq(Nat)
      PROVE  (u \o v) \o w = u \o (v \o w)
  BY ConcatAssociative
<1> QED
  BY <1>1

\* The first sequence comes first.
LEMMA FlattenHead ==
  ASSUME NEW s \in Seq(Seq(Nat)), s # <<>>
  PROVE  FlattenSeq(s) = s[1] \o FlattenSeq(Tail(s))
<1> DEFINE S == {n \in Nat : \A q \in Seq(Seq(Nat)) :
                   Len(q) = n /\ n # 0 => FlattenSeq(q) = q[1] \o FlattenSeq(Tail(q))}
<1>1. 0 \in S
  OBVIOUS
<1>2. ASSUME NEW n \in Nat, n \in S PROVE n + 1 \in S
  <2>1. \A q \in Seq(Seq(Nat)) :
          Len(q) = n /\ n # 0 => FlattenSeq(q) = q[1] \o FlattenSeq(Tail(q))
    BY <1>2
  <2> SUFFICES ASSUME NEW q \in Seq(Seq(Nat)), Len(q) = n + 1
               PROVE  FlattenSeq(q) = q[1] \o FlattenSeq(Tail(q))
    OBVIOUS
  <2> HIDE DEF S
  <2>2. PICK r \in Seq(Seq(Nat)), x \in Seq(Nat) :
          q = Append(r, x) /\ Len(r) = n /\ x = q[n + 1] /\ \A i \in 1 .. n : r[i] = q[i]
    BY <2>1, LastApart
  <2>3. Tail(q) = IF r = <<>> THEN <<>> ELSE Append(Tail(r), x)
    BY <2>2, HeadTailAppend
  <2>4. FlattenSeq(q) = FlattenSeq(r) \o x
    BY <2>2, FlattenMore
  <2>5. CASE r = <<>>
    <3>1. n = 0 /\ q[1] = x
      BY <2>2, <2>5
    <3>2. FlattenSeq(<<>>) = <<>>
      BY FlattenAppend
    <3>3. FlattenSeq(r) = <<>> /\ <<>> \o x = x /\ x \o <<>> = x
      BY <2>5, <3>2, ConcatEmptySeq
    <3> QED
      BY <2>3, <2>4, <2>5, <3>1, <3>2, <3>3, Zenon
  <2>6. CASE r # <<>>
    <3>1. n # 0 /\ 1 \in 1 .. n
      BY <2>1, <2>2, <2>6, EmptySeq
    <3>2. FlattenSeq(r) = q[1] \o FlattenSeq(Tail(r))
      BY <2>1, <2>2, <3>1
    <3>3. Tail(r) \in Seq(Seq(Nat))
      BY <2>6, HeadTailProperties
    <3>4. FlattenSeq(Tail(q)) = FlattenSeq(Tail(r)) \o x
      BY <2>3, <2>6, <3>3, FlattenMore
    <3>5. FlattenSeq(Tail(r)) \in Seq(Nat) /\ q[1] \in Seq(Nat)
      <4>1. r[1] \in Seq(Nat)
        BY <2>2, <3>1, ElementOfSeq
      <4> QED
        BY <2>2, <3>1, <3>3, <4>1, FlattenType
    <3>6. (q[1] \o FlattenSeq(Tail(r))) \o x = q[1] \o (FlattenSeq(Tail(r)) \o x)
      BY <2>2, <3>5, ConcatTwice
    <3> QED
      BY <2>4, <3>2, <3>4, <3>6, Zenon
  <2> QED
    BY <2>5, <2>6
<1> HIDE DEF S
<1>3. \A n \in Nat : n \in S
  BY <1>1, <1>2, SetInduction DEF S
<1>4. Len(s) \in Nat /\ Len(s) # 0
  BY EmptySeq, LenProperties
<1> QED
  BY <1>3, <1>4 DEF S

\* Filling an empty one behind which all are empty adds its elements.
LEMMA FlattenFill ==
  ASSUME NEW s \in Seq(Seq(Nat)), NEW t \in Seq(Seq(Nat)), Len(s) = Len(t),
         NEW i \in 1 .. Len(s),
         \A j \in 1 .. Len(s) : j # i => t[j] = s[j],
         \A j \in 1 .. Len(s) : j >= i => s[j] = <<>>
  PROVE  FlattenSeq(t) = FlattenSeq(s) \o t[i]
<1> DEFINE Fills(n, q, r) ==
             /\ Len(q) = n
             /\ Len(r) = n
             /\ i <= n
             /\ \A j \in 1 .. n : j # i => r[j] = q[j]
             /\ \A j \in 1 .. n : j >= i => q[j] = <<>>
           S == {n \in Nat : \A q, r \in Seq(Seq(Nat)) :
                   Fills(n, q, r) => FlattenSeq(r) = FlattenSeq(q) \o r[i]}
<1>0. i \in Nat /\ i >= 1
  OBVIOUS
<1>1. 0 \in S
  BY <1>0
<1>2. ASSUME NEW n \in Nat, n \in S PROVE n + 1 \in S
  <2> HIDE DEF Fills
  <2>1. \A q, r \in Seq(Seq(Nat)) : Fills(n, q, r) => FlattenSeq(r) = FlattenSeq(q) \o r[i]
    BY <1>2
  <2> SUFFICES ASSUME NEW q \in Seq(Seq(Nat)), NEW r \in Seq(Seq(Nat)), Fills(n + 1, q, r)
               PROVE  FlattenSeq(r) = FlattenSeq(q) \o r[i]
    OBVIOUS
  <2> HIDE DEF S
  <2>0. /\ Len(q) = n + 1 /\ Len(r) = n + 1 /\ i <= n + 1
        /\ \A j \in 1 .. n + 1 : j # i => r[j] = q[j]
        /\ \A j \in 1 .. n + 1 : j >= i => q[j] = <<>>
    BY DEF Fills
  <2>2. PICK qs \in Seq(Seq(Nat)), x \in Seq(Nat) :
          q = Append(qs, x) /\ Len(qs) = n /\ x = q[n + 1] /\ \A j \in 1 .. n : qs[j] = q[j]
    BY <2>0, LastApart
  <2>3. PICK rs \in Seq(Seq(Nat)), y \in Seq(Nat) :
          r = Append(rs, y) /\ Len(rs) = n /\ y = r[n + 1] /\ \A j \in 1 .. n : rs[j] = r[j]
    BY <2>0, LastApart
  <2>4. FlattenSeq(q) = FlattenSeq(qs) \o x /\ FlattenSeq(r) = FlattenSeq(rs) \o y
    BY <2>2, <2>3, FlattenMore
  <2>5. FlattenSeq(qs) \in Seq(Nat) /\ FlattenSeq(rs) \in Seq(Nat)
    BY FlattenType
  <2>6. x = <<>>
    BY <1>0, <2>0, <2>2
  <2>7. \A j \in 1 .. n : j \in 1 .. n + 1
    OBVIOUS
  <2>8. FlattenSeq(q) = FlattenSeq(qs)
    BY <2>4, <2>5, <2>6, ConcatEmptySeq
  <2>9. CASE i = n + 1
    <3>1. \A j \in 1 .. n : rs[j] = qs[j]
      BY <2>0, <2>2, <2>3, <2>7, <2>9
    <3>2. rs = qs
      BY <2>2, <2>3, <3>1, SeqEqual
    <3> QED
      BY <2>3, <2>4, <2>8, <2>9, <3>2
  <2>10. CASE i # n + 1
    <3>1. i \in 1 .. n /\ i <= n
      BY <1>0, <2>0, <2>10
    <3>2. y = x
      BY <1>0, <2>0, <2>2, <2>3, <2>10
    <3>3. FlattenSeq(rs) = FlattenSeq(qs) \o rs[i]
      <4>1. \A j \in 1 .. n : j # i => rs[j] = qs[j]
        BY <2>0, <2>2, <2>3, <2>7
      <4>2. \A j \in 1 .. n : j >= i => qs[j] = <<>>
        BY <2>0, <2>2, <2>7
      <4> QED
        BY <2>1, <2>2, <2>3, <3>1, <4>1, <4>2 DEF Fills
    <3>4. FlattenSeq(r) = FlattenSeq(rs)
      BY <2>4, <2>5, <2>6, <3>2, ConcatEmptySeq
    <3> QED
      BY <2>3, <2>8, <3>1, <3>3, <3>4
  <2> QED
    BY <2>9, <2>10
<1> HIDE DEF S
<1>3. \A n \in Nat : n \in S
  BY <1>1, <1>2, SetInduction DEF S
<1>4. Len(s) \in Nat /\ i <= Len(s)
  OBVIOUS
<1> QED
  BY <1>3, <1>4 DEF S

\* Empty sequences join to the empty one.
LEMMA FlattenEmpty ==
  ASSUME NEW s \in Seq(Seq(Nat)), \A i \in 1 .. Len(s) : s[i] = <<>>
  PROVE  FlattenSeq(s) = <<>>
<1> DEFINE S == {n \in Nat : \A q \in Seq(Seq(Nat)) :
                   Len(q) = n /\ (\A i \in 1 .. n : q[i] = <<>>) => FlattenSeq(q) = <<>>}
<1>1. 0 \in S
  <2>1. \A q \in Seq(Seq(Nat)) : Len(q) = 0 => q = <<>>
    BY EmptySeq
  <2>2. FlattenSeq(<<>>) = <<>>
    BY DEF FlattenSeq
  <2> QED
    BY <2>1, <2>2
<1>2. ASSUME NEW n \in Nat, n \in S PROVE n + 1 \in S
  <2>1. \A q \in Seq(Seq(Nat)) : Len(q) = n /\ (\A i \in 1 .. n : q[i] = <<>>) => FlattenSeq(q) = <<>>
    BY <1>2
  <2> SUFFICES ASSUME NEW q \in Seq(Seq(Nat)), Len(q) = n + 1, \A i \in 1 .. n + 1 : q[i] = <<>>
               PROVE  FlattenSeq(q) = <<>>
    OBVIOUS
  <2> HIDE DEF S
  <2>2. PICK r \in Seq(Seq(Nat)), x \in Seq(Nat) :
          q = Append(r, x) /\ Len(r) = n /\ x = q[n + 1] /\ \A i \in 1 .. n : r[i] = q[i]
    BY LastApart
  <2>3. x = <<>> /\ \A i \in 1 .. n : r[i] = <<>>
    BY <2>2
  <2>4. FlattenSeq(r) = <<>>
    BY <2>1, <2>2, <2>3
  <2> QED
    BY <2>2, <2>3, <2>4, FlattenMore, ConcatEmptySeq
<1> HIDE DEF S
<1>3. \A n \in Nat : n \in S
  BY <1>1, <1>2, SetInduction DEF S
<1> QED
  BY <1>3, LenProperties DEF S

-----------------------------------------------------------------------------
(* Intervals of units *)

\* Adjacent intervals of units join.
LEMMA UnitsJoin ==
  ASSUME NEW l \in Nat, NEW m \in Nat, NEW n \in Nat, l <= m, m <= n
  PROVE  Units(l, m) \o Units(m, n) = Units(l, n)
<1> DEFINE u == Units(l, m)
           v == Units(m, n)
           w == Units(l, n)
<1>1. m - l \in Nat /\ n - m \in Nat /\ n - l \in Nat /\ l + (m - l) = m /\ m + (n - m) = n
      /\ l + (n - l) = n
  OBVIOUS
<1>2. u \in Seq(Nat) /\ Len(u) = m - l /\ v \in Seq(Nat) /\ Len(v) = n - m
  BY <1>1, UnitsFacts
<1>3. w \in Seq(Nat) /\ Len(w) = n - l
  BY <1>1, UnitsFacts
<1>4. /\ \A i \in 1 .. m - l : u[i] = l + i
      /\ \A i \in 1 .. n - m : v[i] = m + i
      /\ \A i \in 1 .. n - l : w[i] = l + i
  BY DEF Units
<1> HIDE DEF u, v, w
<1>5. /\ u \o v \in Seq(Nat)
      /\ Len(u \o v) = n - l
      /\ \A i \in 1 .. n - l : (u \o v)[i] = IF i <= m - l THEN u[i] ELSE v[i - (m - l)]
  <2>1. (m - l) + (n - m) = n - l
    OBVIOUS
  <2>2. /\ u \o v \in Seq(Nat)
        /\ Len(u \o v) = Len(u) + Len(v)
        /\ \A i \in 1 .. Len(u) + Len(v) : (u \o v)[i] = IF i <= Len(u) THEN u[i] ELSE v[i - Len(u)]
    BY <1>2, ConcatProperties
  <2> QED
    BY <1>2, <2>1, <2>2, Zenon
<1>6. \A i \in 1 .. n - l : (u \o v)[i] = w[i]
  <2> SUFFICES ASSUME NEW i \in 1 .. n - l PROVE (u \o v)[i] = w[i]
    OBVIOUS
  <2>1. i > m - l => i - (m - l) \in 1 .. n - m /\ m + (i - (m - l)) = l + i
    OBVIOUS
  <2>2. i <= m - l => i \in 1 .. m - l
    OBVIOUS
  <2> QED
    BY <1>4, <1>5, <2>1, <2>2
<1>7. u \o v = w
  BY <1>3, <1>5, <1>6, SeqEqual
<1> QED
  BY <1>7 DEF u, v, w

\* The units u and then v are those after m up to n.
Parts(u, v, m, n) == m <= n /\ u \o v = Units(m, n)

\* An interval of units has its length, and its first part is the interval up
\* to its last unit.
LEMMA UnitsSplit ==
  ASSUME NEW u \in Seq(Nat), NEW v \in Seq(Nat), NEW m \in Nat, NEW n \in Nat,
         Parts(u, v, m, n)
  PROVE  /\ m + Len(u) \in Nat
         /\ m + Len(u) <= n
         /\ u = Units(m, m + Len(u))
         /\ v = Units(m + Len(u), n)
         /\ u # <<>> => u[Len(u)] = m + Len(u)
<1>0. m <= n /\ u \o v = Units(m, n)
  BY DEF Parts
<1> DEFINE k == Len(u)
           w == Units(m, n)
           x == Units(m, m + k)
           y == Units(m + k, n)
<1>1. k \in Nat /\ Len(v) \in Nat
  BY LenProperties
<1>2. /\ Len(u \o v) = k + Len(v)
      /\ \A i \in 1 .. k + Len(v) : (u \o v)[i] = IF i <= k THEN u[i] ELSE v[i - k]
  BY ConcatProperties
<1>3. w \in Seq(Nat) /\ Len(w) = n - m /\ \A i \in 1 .. n - m : w[i] = m + i
  <2>1. n - m \in Nat /\ m + (n - m) = n
    BY <1>0
  <2> QED
    BY <2>1, UnitsFacts DEF Units
<1>4. k + Len(v) = n - m
  BY <1>0, <1>2, <1>3
<1> HIDE DEF k, w
<1>5. m + k \in Nat /\ m + k <= n /\ Len(v) = n - (m + k) /\ (m + k) + Len(v) = n /\ m + k - m = k
  BY <1>0, <1>1, <1>4
<1>6. x \in Seq(Nat) /\ Len(x) = k /\ y \in Seq(Nat) /\ Len(y) = Len(v)
  BY <1>1, <1>5, UnitsFacts
<1>7. /\ \A i \in 1 .. k : x[i] = m + i
      /\ \A i \in 1 .. Len(v) : y[i] = m + k + i
  BY <1>1, <1>5 DEF Units
<1>8. \A i \in 1 .. k : u[i] = m + i
  BY <1>0, <1>1, <1>2, <1>3, <1>4 DEF w
<1>9. ASSUME NEW i \in 1 .. Len(v) PROVE v[i] = m + k + i
  <2>1. k + i \in 1 .. k + Len(v) /\ ~(k + i <= k) /\ (k + i) - k = i /\ m + (k + i) = m + k + i
    BY <1>1
  <2> QED
    BY <1>0, <1>2, <1>3, <1>4, <2>1 DEF w
<1> HIDE DEF x, y
<1>10. u = x
  BY <1>6, <1>7, <1>8, SeqEqual DEF k
<1>11. v = y
  BY <1>6, <1>7, <1>9, SeqEqual
<1>12. u # <<>> => k \in 1 .. k
  BY <1>1, EmptySeq DEF k
<1> QED
  BY <1>5, <1>8, <1>10, <1>11, <1>12 DEF k, x, y

\* An interval without units.
LEMMA UnitsEmpty ==
  ASSUME NEW m \in Nat, NEW n \in Nat, m <= n
  PROVE  Units(m, n) = <<>> <=> m = n
<1>1. n - m \in Nat /\ m + (n - m) = n
  OBVIOUS
<1>2. Units(m, n) \in Seq(Nat) /\ Len(Units(m, n)) = n - m
  BY <1>1, UnitsFacts
<1>3. \A s \in Seq(Nat) : s = <<>> <=> Len(s) = 0
  BY EmptySeq
<1> QED
  BY <1>1, <1>2, <1>3

-----------------------------------------------------------------------------
(* The ring of fragments *)

\* The j-th fragment from cur on.
Slot(cur, j) == (cur + j - 1) % NbFrags

\* The remainder of numbers below twice the divisor.
LEMMA ModSmall ==
  ASSUME NEW n \in Nat \ {0}, NEW x \in Nat
  PROVE  /\ x < n => x % n = x
         /\ n <= x /\ x < 2 * n => x % n = x - n
<1>1. n \in Int /\ n > 0 /\ x \in Int
  OBVIOUS
<1> QED
  BY <1>1

\* The j-th fragment from cur on, without a remainder.
LEMMA SlotIs ==
  ASSUME NEW cur \in Frags, NEW j \in 1 .. NbFrags
  PROVE  Slot(cur, j) = IF cur + j - 1 < NbFrags THEN cur + j - 1 ELSE cur + j - 1 - NbFrags
<1>1. NbFrags \in Nat \ {0} /\ cur + j - 1 \in Nat /\ cur + j - 1 < 2 * NbFrags
  BY SoundAssumption DEF Frags
<1> DEFINE x == cur + j - 1
<1>2. x \in Nat /\ x < 2 * NbFrags /\ (~(x < NbFrags) => NbFrags <= x) /\ Slot(cur, j) = x % NbFrags
  BY <1>1 DEF Slot
<1> HIDE DEF x
<1>4. /\ x < NbFrags => x % NbFrags = x
      /\ NbFrags <= x /\ x < 2 * NbFrags => x % NbFrags = x - NbFrags
  BY <1>1, <1>2, ModSmall, Zenon
<1>3. Slot(cur, j) = IF x < NbFrags THEN x ELSE x - NbFrags
  BY <1>2, <1>4, Zenon
<1> QED
  BY <1>1, <1>3 DEF x, Frags

\* The next fragment, without a remainder.
LEMMA NextIs ==
  ASSUME NEW cur \in Frags
  PROVE  (cur + 1) % NbFrags = IF cur + 1 < NbFrags THEN cur + 1 ELSE 0
<1>1. NbFrags \in Nat \ {0} /\ cur + 1 \in Nat /\ cur + 1 <= NbFrags /\ NbFrags < 2 * NbFrags
  BY SoundAssumption DEF Frags
<1> QED
  BY <1>1, ModSmall

\* The fragments from cur on are all of them, each once, from cur itself to the
\* one before it; from the next one on they are the same, one place earlier.
LEMMA SlotFacts ==
  ASSUME NEW cur \in Frags
  PROVE  /\ \A j \in 1 .. NbFrags : Slot(cur, j) \in Frags
         /\ Slot(cur, 1) = cur
         /\ Slot(cur, NbFrags) = Prev(cur)
         /\ \A j, k \in 1 .. NbFrags : Slot(cur, j) = Slot(cur, k) => j = k
         /\ \A f \in Frags : \E j \in 1 .. NbFrags : Slot(cur, j) = f
         /\ (cur + 1) % NbFrags \in Frags
         /\ \A j \in 1 .. NbFrags : j # NbFrags =>
              Slot((cur + 1) % NbFrags, j) = Slot(cur, j + 1)
         /\ Slot((cur + 1) % NbFrags, NbFrags) = cur
<1>1. NbFrags \in Nat /\ NbFrags > 1 /\ cur \in 0 .. NbFrags - 1
  BY SoundAssumption DEF Frags
<1>2. \A j \in 1 .. NbFrags : Slot(cur, j) \in Frags
  BY <1>1, SlotIs DEF Frags
<1>3. Slot(cur, 1) = cur
  BY <1>1, SlotIs
<1>4. Slot(cur, NbFrags) = Prev(cur)
  <2>1. cur + NbFrags - 1 = NbFrags + cur - 1
    BY <1>1
  <2> QED
    BY <2>1 DEF Slot, Prev
<1>5. \A j, k \in 1 .. NbFrags : Slot(cur, j) = Slot(cur, k) => j = k
  BY <1>1, SlotIs
<1>6. ASSUME NEW f \in Frags PROVE \E j \in 1 .. NbFrags : Slot(cur, j) = f
  <2>1. CASE f >= cur
    <3> DEFINE j == f - cur + 1
    <3>1. j \in 1 .. NbFrags /\ cur + j - 1 = f /\ f < NbFrags
      BY <1>1, <2>1 DEF Frags
    <3> HIDE DEF j
    <3> QED
      BY <3>1, SlotIs
  <2>2. CASE f < cur
    <3> DEFINE j == f - cur + NbFrags + 1
    <3>1. j \in 1 .. NbFrags /\ ~(cur + j - 1 < NbFrags) /\ cur + j - 1 - NbFrags = f
      BY <1>1, <2>2 DEF Frags
    <3> HIDE DEF j
    <3> QED
      BY <3>1, SlotIs
  <2> QED
    BY <1>1, <2>1, <2>2 DEF Frags
<1>7. (cur + 1) % NbFrags \in Frags
  BY FragFacts
<1>8. ASSUME NEW j \in 1 .. NbFrags, j # NbFrags
      PROVE  Slot((cur + 1) % NbFrags, j) = Slot(cur, j + 1)
  <2>1. j + 1 \in 1 .. NbFrags /\ cur + (j + 1) - 1 = cur + j
    BY <1>1, <1>8
  <2>2. Slot(cur, j + 1) = IF cur + j < NbFrags THEN cur + j ELSE cur + j - NbFrags
    BY <2>1, SlotIs
  <2> DEFINE nxt == (cur + 1) % NbFrags
  <2>3. nxt = IF cur + 1 < NbFrags THEN cur + 1 ELSE 0
    BY NextIs
  <2>4. Slot(nxt, j) = IF nxt + j - 1 < NbFrags THEN nxt + j - 1 ELSE nxt + j - 1 - NbFrags
    BY <1>7, SlotIs
  <2> HIDE DEF nxt
  <2> QED
    BY <1>1, <1>8, <2>2, <2>3, <2>4 DEF nxt
<1>9. Slot((cur + 1) % NbFrags, NbFrags) = cur
  <2> DEFINE nxt == (cur + 1) % NbFrags
  <2>3. nxt = IF cur + 1 < NbFrags THEN cur + 1 ELSE 0
    BY NextIs
  <2>4. Slot(nxt, NbFrags) =
          IF nxt + NbFrags - 1 < NbFrags THEN nxt + NbFrags - 1 ELSE nxt + NbFrags - 1 - NbFrags
    <3>1. NbFrags \in 1 .. NbFrags
      BY <1>1
    <3> QED
      BY <1>7, <3>1, SlotIs
  <2> HIDE DEF nxt
  <2> QED
    BY <1>1, <2>3, <2>4 DEF nxt
<1> QED
  BY <1>2, <1>3, <1>4, <1>5, <1>6, <1>7, <1>8, <1>9

-----------------------------------------------------------------------------
(* The DMA queue of an orderly stream *)

\* The fragments that are not in the queue, when it is in order.
Room(D) == NbFrags - Len(D)

\* The queue D holds the fragments before cur, in the order of the ring.
Consecutive(cur, D) ==
  /\ Len(D) <= NbFrags
  /\ \A i \in 1 .. Len(D) : D[i].frag = Slot(cur, Room(D) + i)

Queued(D, f) == \E i \in 1 .. Len(D) : D[i].frag = f

\* Once the current fragment is queued every fragment is.
LEMMA QueueFull ==
  ASSUME NEW cur \in Frags, NEW D \in Seq(Entries), Consecutive(cur, D)
  PROVE  /\ Room(D) \in 0 .. NbFrags
         /\ Queued(D, cur) <=> Room(D) = 0
         /\ Room(D) = 0 => \A f \in Frags : Queued(D, f)
<1>1. Len(D) \in Nat /\ Len(D) <= NbFrags /\ NbFrags \in Nat /\ NbFrags > 1
  BY LenProperties, SoundAssumption DEF Consecutive
<1>2. Room(D) \in 0 .. NbFrags
  BY <1>1 DEF Room
<1>3. Queued(D, cur) => Room(D) = 0
  <2> SUFFICES ASSUME NEW i \in 1 .. Len(D), D[i].frag = cur PROVE Room(D) = 0
    BY DEF Queued
  <2>1. Slot(cur, Room(D) + i) = Slot(cur, 1)
    BY SlotFacts DEF Consecutive
  <2>2. Room(D) + i \in 1 .. NbFrags /\ 1 \in 1 .. NbFrags
    BY <1>1 DEF Room
  <2>3. Room(D) + i = 1
    BY <2>1, <2>2, SlotFacts
  <2> QED
    BY <1>1, <1>2, <2>3
<1>4. ASSUME Room(D) = 0, NEW f \in Frags PROVE Queued(D, f)
  <2>1. PICK j \in 1 .. NbFrags : Slot(cur, j) = f
    BY SlotFacts
  <2>2. Len(D) = NbFrags /\ Room(D) + j = j
    BY <1>1, <1>4 DEF Room
  <2> QED
    BY <2>1, <2>2 DEF Consecutive, Queued
<1>5. cur \in Frags
  OBVIOUS
<1> QED
  BY <1>2, <1>3, <1>4, <1>5

\* What was queued last is the fragment before the current one.
LEMMA QueueLast ==
  ASSUME NEW cur \in Frags, NEW D \in Seq(Entries), Consecutive(cur, D), D # <<>>
  PROVE  Len(D) \in 1 .. Len(D) /\ D[Len(D)].frag = Prev(cur)
<1>1. Len(D) \in Nat /\ Len(D) # 0 /\ NbFrags \in Nat
  BY EmptySeq, LenProperties, SoundAssumption
<1>2. Len(D) \in 1 .. Len(D) /\ Room(D) + Len(D) = NbFrags
  BY <1>1 DEF Room
<1> QED
  BY <1>2, SlotFacts DEF Consecutive

\* The current fragment is queued, and the next one becomes current.
LEMMA QueueSend ==
  ASSUME NEW cur \in Frags, NEW D \in Seq(Entries), Consecutive(cur, D), ~Queued(D, cur),
         NEW e \in Entries, e.frag = cur
  PROVE  Consecutive((cur + 1) % NbFrags, Append(D, e))
<1> DEFINE E == Append(D, e)
           nxt == (cur + 1) % NbFrags
<1>1. /\ Len(D) \in Nat
      /\ Len(E) = Len(D) + 1
      /\ \A i \in 1 .. Len(D) : E[i] = D[i]
      /\ E[Len(D) + 1] = e
  BY AppendProperties, LenProperties
<1>2. Room(D) \in 1 .. NbFrags /\ NbFrags \in Nat
  BY QueueFull, SoundAssumption
<1> HIDE DEF E
<1>3. Room(E) = Room(D) - 1 /\ Len(E) <= NbFrags
  BY <1>1, <1>2 DEF Room
<1>4. ASSUME NEW i \in 1 .. Len(E) PROVE E[i].frag = Slot(nxt, Room(E) + i)
  <2>1. CASE i \in 1 .. Len(D)
    <3>1. D[i].frag = Slot(cur, Room(D) + i)
      BY <2>1 DEF Consecutive
    <3> DEFINE j == Room(E) + i
    <3>2. j \in 1 .. NbFrags /\ j # NbFrags /\ Room(D) + i = j + 1
      BY <1>1, <1>2, <1>3, <2>1 DEF Room
    <3> HIDE DEF j
    <3>3. Slot(nxt, j) = Slot(cur, j + 1)
      BY <3>2, SlotFacts
    <3> QED
      BY <1>1, <2>1, <3>1, <3>2, <3>3 DEF j
  <2>2. CASE i = Len(D) + 1
    <3>1. Room(E) + i = NbFrags
      BY <1>1, <1>2, <1>3, <2>2 DEF Room
    <3> QED
      BY <1>1, <2>2, <3>1, SlotFacts
  <2> QED
    BY <1>1, <2>1, <2>2
<1>5. Consecutive(nxt, E)
  BY <1>3, <1>4 DEF Consecutive
<1> QED
  BY <1>5 DEF E

\* The DMA is done with the first one.
LEMMA QueueDone ==
  ASSUME NEW cur \in Frags, NEW D \in Seq(Entries), Consecutive(cur, D), D # <<>>
  PROVE  /\ Consecutive(cur, Tail(D))
         /\ Room(Tail(D)) = Room(D) + 1
         /\ Room(D) + 1 \in 1 .. NbFrags
         /\ D[1].frag = Slot(cur, Room(D) + 1)
<1> DEFINE E == Tail(D)
<1>1. /\ Len(D) \in Nat \ {0}
      /\ Len(E) = Len(D) - 1
      /\ \A i \in 1 .. Len(E) : E[i] = D[i + 1]
  BY HeadTailProperties, EmptySeq
<1>2. Room(D) \in 0 .. NbFrags /\ NbFrags \in Nat
  BY QueueFull, SoundAssumption
<1> HIDE DEF E
<1>3. Room(E) = Room(D) + 1 /\ Len(E) <= NbFrags /\ Room(D) + 1 \in 1 .. NbFrags
  BY <1>1, <1>2 DEF Room
<1>4. ASSUME NEW i \in 1 .. Len(E) PROVE E[i].frag = Slot(cur, Room(E) + i)
  <2>1. i + 1 \in 1 .. Len(D) /\ Room(E) + i = Room(D) + (i + 1)
    BY <1>1, <1>2, <1>3
  <2> QED
    BY <1>1, <2>1 DEF Consecutive
<1>5. 1 \in 1 .. Len(D)
  BY <1>1
<1>6. Consecutive(cur, E)
  BY <1>3, <1>4 DEF Consecutive
<1> QED
  BY <1>3, <1>5, <1>6 DEF E, Consecutive

\* What the first read queues, and an empty queue.
LEMMA QueueAll ==
  ASSUME NEW D, D = [i \in 1 .. NbFrags |-> [frag |-> i - 1, units |-> <<>>]]
  PROVE  Consecutive(0, D) /\ Room(D) = 0
<1>1. Len(D) = NbFrags /\ NbFrags \in Nat /\ NbFrags > 1
  BY SoundAssumption
<1>2. Room(D) = 0
  BY <1>1 DEF Room
<1>3. ASSUME NEW i \in 1 .. NbFrags PROVE D[i].frag = Slot(0, Room(D) + i)
  <2>1. D[i].frag = i - 1
    OBVIOUS
  <2>2. Slot(0, i) = IF 0 + i - 1 < NbFrags THEN 0 + i - 1 ELSE 0 + i - 1 - NbFrags
    BY FragFacts, SlotIs
  <2> QED
    BY <1>1, <1>2, <2>1, <2>2
<1>4. Len(D) <= NbFrags /\ \A i \in 1 .. Len(D) : D[i].frag = Slot(0, Room(D) + i)
  BY <1>1, <1>3
<1> QED
  BY <1>2, <1>4 DEF Consecutive

\* An empty queue is in order, whichever fragment is current.
LEMMA QueueEmpty ==
  ASSUME NEW cur
  PROVE  Consecutive(cur, <<>>) /\ Room(<<>>) = NbFrags
BY SoundAssumption DEF Consecutive, Room

-----------------------------------------------------------------------------
(* The units of an orderly output *)

SentOf(D) == [i \in 1 .. Len(D) |-> D[i].units]

\* The units in the queue D and the current fragment are those after pl up to
\* ac, and the other fragments are empty.
OutOrder(cur, dat, D, pl, ac) ==
  /\ pl <= ac
  /\ \A f \in Frags \ {cur} : dat[f] = <<>>
  /\ FlattenSeq(SentOf(D)) \o dat[cur] = Units(pl, ac)

\* The units of a longer and a shorter queue.
LEMMA SentFacts ==
  ASSUME NEW D \in Seq(Entries)
  PROVE  /\ SentOf(D) \in Seq(Seq(Nat))
         /\ Len(SentOf(D)) = Len(D)
         /\ \A e \in Entries : SentOf(Append(D, e)) = Append(SentOf(D), e.units)
         /\ D # <<>> => /\ SentOf(D) # <<>>
                        /\ SentOf(D)[1] = D[1].units
                        /\ SentOf(Tail(D)) = Tail(SentOf(D))
<1>1. Len(D) \in Nat /\ \A i \in 1 .. Len(D) : D[i].units \in Seq(Nat)
  <2>1. \A i \in 1 .. Len(D) : D[i] \in Entries
    BY ElementOfSeq
  <2> QED
    BY <2>1, LenProperties DEF Entries
<1>2. SentOf(D) \in Seq(Seq(Nat)) /\ Len(SentOf(D)) = Len(D)
  BY <1>1 DEF SentOf
<1>3. ASSUME NEW e \in Entries PROVE SentOf(Append(D, e)) = Append(SentOf(D), e.units)
  <2> DEFINE E == Append(D, e)
             s == SentOf(E)
             t == Append(SentOf(D), e.units)
  <2>1. /\ E \in Seq(Entries)
        /\ Len(E) = Len(D) + 1
        /\ \A i \in 1 .. Len(D) : E[i] = D[i]
        /\ E[Len(D) + 1] = e
    BY AppendProperties
  <2>2. e.units \in Seq(Nat)
    BY DEF Entries
  <2> HIDE DEF E
  <2>3. \A i \in 1 .. Len(E) : i \in 1 .. Len(D) \/ i = Len(D) + 1
    BY <1>1, <2>1
  <2>4. \A i \in 1 .. Len(E) : E[i].units \in Seq(Nat)
    BY <1>1, <2>1, <2>2, <2>3
  <2>5. s \in Seq(Seq(Nat)) /\ Len(s) = Len(D) + 1 /\ \A i \in 1 .. Len(E) : s[i] = E[i].units
    BY <1>1, <2>1, <2>4 DEF SentOf
  <2>6. /\ t \in Seq(Seq(Nat)) /\ Len(t) = Len(D) + 1
        /\ \A i \in 1 .. Len(D) : t[i] = SentOf(D)[i]
        /\ t[Len(D) + 1] = e.units
    BY <1>2, <2>2, AppendProperties
  <2>7. \A i \in 1 .. Len(D) : SentOf(D)[i] = D[i].units
    BY DEF SentOf
  <2> HIDE DEF s, t
  <2>8. \A i \in 1 .. Len(s) : s[i] = t[i]
    BY <2>1, <2>3, <2>5, <2>6, <2>7
  <2>9. s = t
    BY <2>5, <2>6, <2>8, SeqEqual
  <2> QED
    BY <2>9 DEF s, t, E
<1>4. ASSUME D # <<>>
      PROVE  SentOf(D) # <<>> /\ SentOf(D)[1] = D[1].units /\ SentOf(Tail(D)) = Tail(SentOf(D))
  <2> DEFINE E == Tail(D)
             r == SentOf(D)
             s == SentOf(E)
             t == Tail(r)
  <2>1. /\ Len(D) \in Nat \ {0} /\ E \in Seq(Entries) /\ Len(E) = Len(D) - 1
        /\ \A i \in 1 .. Len(E) : E[i] = D[i + 1]
    BY <1>4, HeadTailProperties, EmptySeq
  <2>2. r # <<>> /\ \A i \in 1 .. Len(D) : r[i] = D[i].units
    <3>1. Len(r) # 0
      BY <1>2, <2>1
    <3> QED
      BY <3>1, EmptySeq DEF SentOf
  <2>3. t \in Seq(Seq(Nat)) /\ Len(t) = Len(D) - 1 /\ \A i \in 1 .. Len(t) : t[i] = r[i + 1]
    BY <1>2, <2>2, HeadTailProperties
  <2> HIDE DEF E, r, t
  <2>4. \A i \in 1 .. Len(E) : i + 1 \in 1 .. Len(D)
    BY <2>1
  <2>5. \A i \in 1 .. Len(E) : E[i].units = D[i + 1].units /\ E[i].units \in Seq(Nat)
    BY <1>1, <2>1, <2>4
  <2>6. s \in Seq(Seq(Nat)) /\ Len(s) = Len(E) /\ \A i \in 1 .. Len(E) : s[i] = E[i].units
    <3>1. Len(E) \in Nat
      BY <2>1
    <3> QED
      BY <2>5, <3>1 DEF SentOf
  <2> HIDE DEF s
  <2>7. \A i \in 1 .. Len(s) : s[i] = t[i]
    BY <2>1, <2>2, <2>3, <2>4, <2>5, <2>6
  <2>8. s = t
    BY <2>1, <2>3, <2>6, <2>7, SeqEqual
  <2>9. 1 \in 1 .. Len(D)
    BY <2>1
  <2> QED
    BY <2>2, <2>8, <2>9 DEF E, r, s, t
<1> QED
  BY <1>2, <1>3, <1>4

\* Nothing queued and nothing in the fragments.
LEMMA OutEmpty ==
  ASSUME NEW cur \in Frags, NEW n \in Nat
  PROVE  OutOrder(cur, Empty, <<>>, n, n)
<1>1. SentOf(<<>>) = <<>> /\ FlattenSeq(<<>>) = <<>>
  <2>1. Len(<<>>) = 0
    BY EmptySeq
  <2>2. SentOf(<<>>) = [i \in 1 .. 0 |-> <<>>[i].units]
    BY <2>1 DEF SentOf
  <2> QED
    BY <2>1, <2>2 DEF FlattenSeq
<1>2. \A f \in Frags : Empty[f] = <<>>
  BY DEF Empty
<1>3. Units(n, n) = <<>> /\ n <= n
  BY UnitsEmpty
<1>4. <<>> \o <<>> = <<>>
  BY ConcatEmptySeq, EmptySeq
<1> QED
  BY <1>1, <1>2, <1>3, <1>4 DEF OutOrder

\* What an orderly output holds, as sequences of numbers.
LEMMA OutTypes ==
  ASSUME NEW cur \in Frags, NEW dat \in [Frags -> Seq(Nat)], NEW D \in Seq(Entries)
  PROVE  FlattenSeq(SentOf(D)) \in Seq(Nat) /\ dat[cur] \in Seq(Nat)
BY SentFacts, FlattenType

\* A write fills the current fragment.
LEMMA OutFill ==
  ASSUME NEW cur \in Frags, NEW dat \in [Frags -> Seq(Nat)], NEW D \in Seq(Entries),
         NEW pl \in Nat, NEW ac \in Nat, NEW n \in Nat, OutOrder(cur, dat, D, pl, ac)
  PROVE  OutOrder(cur, [dat EXCEPT ![cur] = dat[cur] \o Units(ac, ac + n)], D, pl, ac + n)
<1> DEFINE e == [dat EXCEPT ![cur] = dat[cur] \o Units(ac, ac + n)]
           s == FlattenSeq(SentOf(D))
           u == dat[cur]
           v == Units(ac, ac + n)
<1>1. s \in Seq(Nat) /\ u \in Seq(Nat) /\ v \in Seq(Nat)
  BY OutTypes, UnitsFacts
<1>2. e[cur] = u \o v /\ \A f \in Frags \ {cur} : e[f] = dat[f]
  OBVIOUS
<1>3. s \o u = Units(pl, ac) /\ pl <= ac
  BY DEF OutOrder
<1>4. Units(pl, ac) \o v = Units(pl, ac + n) /\ pl <= ac + n
  <2>1. ac <= ac + n /\ ac + n \in Nat /\ pl <= ac + n
    BY <1>3
  <2> QED
    BY <1>3, <2>1, UnitsJoin
<1> HIDE DEF e, s, u, v
<1>5. s \o (u \o v) = (s \o u) \o v
  BY <1>1, ConcatTwice
<1>6. s \o e[cur] = Units(pl, ac + n)
  BY <1>2, <1>3, <1>4, <1>5
<1>7. OutOrder(cur, e, D, pl, ac + n)
  BY <1>2, <1>4, <1>6 DEF OutOrder, s
<1> QED
  BY <1>7 DEF e, u, v

\* The current fragment goes to the queue.
LEMMA OutSend ==
  ASSUME NEW cur \in Frags, NEW nxt \in Frags, nxt # cur, NEW dat \in [Frags -> Seq(Nat)],
         NEW D \in Seq(Entries), NEW pl \in Nat, NEW ac \in Nat,
         OutOrder(cur, dat, D, pl, ac), NEW e \in Entries, e.units = dat[cur]
  PROVE  OutOrder(nxt, [dat EXCEPT ![cur] = <<>>], Append(D, e), pl, ac)
<1>1. FlattenSeq(SentOf(Append(D, e))) = FlattenSeq(SentOf(D)) \o dat[cur]
  <2>1. SentOf(Append(D, e)) = Append(SentOf(D), dat[cur]) /\ SentOf(D) \in Seq(Seq(Nat))
    BY SentFacts
  <2>2. dat[cur] \in Seq(Nat)
    OBVIOUS
  <2> QED
    BY <2>1, <2>2, FlattenMore
<1>2. FlattenSeq(SentOf(D)) \o dat[cur] = Units(pl, ac) /\ pl <= ac
  BY DEF OutOrder
<1>3. Units(pl, ac) \o <<>> = Units(pl, ac)
  <2>1. ac - pl \in Nat /\ pl + (ac - pl) = ac
    BY <1>2
  <2>2. Units(pl, ac) \in Seq(Nat)
    BY <2>1, UnitsFacts
  <2> QED
    BY <2>2, ConcatEmptySeq
<1>4. \A f \in Frags : [dat EXCEPT ![cur] = <<>>][f] = <<>>
  BY DEF OutOrder
<1> QED
  BY <1>1, <1>2, <1>3, <1>4 DEF OutOrder

\* An empty fragment goes to the queue when the current one is empty too.
LEMMA OutSendEmpty ==
  ASSUME NEW cur \in Frags, NEW nxt \in Frags, NEW f \in Frags,
         NEW dat \in [Frags -> Seq(Nat)],
         NEW D \in Seq(Entries), NEW pl \in Nat, NEW ac \in Nat,
         OutOrder(cur, dat, D, pl, ac), dat[cur] = <<>>, NEW e \in Entries, e.units = dat[f]
  PROVE  OutOrder(nxt, [dat EXCEPT ![f] = <<>>], Append(D, e), pl, ac)
<1>1. \A g \in Frags : dat[g] = <<>>
  BY DEF OutOrder
<1>2. FlattenSeq(SentOf(Append(D, e))) = FlattenSeq(SentOf(D)) \o <<>>
  <2>1. SentOf(Append(D, e)) = Append(SentOf(D), <<>>) /\ SentOf(D) \in Seq(Seq(Nat))
    BY <1>1, SentFacts
  <2>2. <<>> \in Seq(Nat)
    BY EmptySeq
  <2> QED
    BY <2>1, <2>2, FlattenMore
<1>3. FlattenSeq(SentOf(D)) \o <<>> = Units(pl, ac) /\ pl <= ac
  BY DEF OutOrder
<1>4. Units(pl, ac) \o <<>> = Units(pl, ac)
  <2>1. ac - pl \in Nat /\ pl + (ac - pl) = ac
    BY <1>3
  <2>2. Units(pl, ac) \in Seq(Nat)
    BY <2>1, UnitsFacts
  <2> QED
    BY <2>2, ConcatEmptySeq
<1>5. \A g \in Frags : [dat EXCEPT ![f] = <<>>][g] = <<>>
  BY <1>1
<1> QED
  BY <1>2, <1>3, <1>4, <1>5 DEF OutOrder

\* The newest unit that has been played when u has been.
Newest(pl, u) == IF u = <<>> THEN pl ELSE u[Len(u)]

\* The newest of the first part is where the rest starts.
LEMMA NewestSplit ==
  ASSUME NEW u \in Seq(Nat), NEW w \in Seq(Nat), NEW pl \in Nat, NEW ac \in Nat,
         Parts(u, w, pl, ac)
  PROVE  /\ Newest(pl, u) \in Nat
         /\ pl <= Newest(pl, u)
         /\ Newest(pl, u) <= ac
         /\ w = Units(Newest(pl, u), ac)
<1>1. /\ pl + Len(u) \in Nat
      /\ pl + Len(u) <= ac
      /\ w = Units(pl + Len(u), ac)
      /\ u # <<>> => u[Len(u)] = pl + Len(u)
  BY UnitsSplit
<1>2. Newest(pl, u) = pl + Len(u) /\ pl <= pl + Len(u)
  <2>1. u = <<>> => pl + Len(u) = pl
    BY EmptySeq
  <2>2. Len(u) \in Nat
    BY LenProperties
  <2> QED
    BY <1>1, <2>1, <2>2 DEF Newest
<1> QED
  BY <1>1, <1>2

\* The DMA has played the first of the queue.
LEMMA OutDone ==
  ASSUME NEW cur \in Frags, NEW dat \in [Frags -> Seq(Nat)], NEW D \in Seq(Entries),
         D # <<>>, NEW pl \in Nat, NEW ac \in Nat, OutOrder(cur, dat, D, pl, ac)
  PROVE  /\ OutOrder(cur, dat, Tail(D), Newest(pl, D[1].units), ac)
         /\ Newest(pl, D[1].units) \in Nat
         /\ pl <= Newest(pl, D[1].units)
<1> DEFINE u == D[1].units
           r == SentOf(D)
           s == FlattenSeq(SentOf(Tail(D)))
           v == dat[cur]
<1>1. /\ r \in Seq(Seq(Nat)) /\ r # <<>> /\ r[1] = u /\ Tail(r) = SentOf(Tail(D))
      /\ Tail(D) \in Seq(Entries)
  BY SentFacts, HeadTailProperties
<1>2. u \in Seq(Nat) /\ s \in Seq(Nat) /\ v \in Seq(Nat)
  <2>1. 1 \in 1 .. Len(r)
    BY <1>1, EmptySeq
  <2>2. r[1] \in Seq(Nat)
    BY <1>1, <2>1, ElementOfSeq
  <2> QED
    BY <1>1, <2>2, OutTypes
<1>3. FlattenSeq(r) = u \o s
  BY <1>1, FlattenHead
<1>4. FlattenSeq(r) \o v = Units(pl, ac) /\ pl <= ac /\ \A f \in Frags \ {cur} : dat[f] = <<>>
  BY DEF OutOrder
<1> HIDE DEF u, r, s, v
<1>5. u \o (s \o v) = Units(pl, ac) /\ s \o v \in Seq(Nat)
  <2>1. (u \o s) \o v = u \o (s \o v)
    BY <1>2, ConcatTwice
  <2>2. s \o v \in Seq(Nat)
    BY <1>2, ConcatProperties
  <2> QED
    BY <1>3, <1>4, <2>1, <2>2
<1> DEFINE w == s \o v
<1>6. w \in Seq(Nat) /\ u \o w = Units(pl, ac)
  BY <1>5
<1> HIDE DEF w
<1>7. /\ Newest(pl, u) \in Nat /\ pl <= Newest(pl, u) /\ Newest(pl, u) <= ac
      /\ w = Units(Newest(pl, u), ac)
  <2>1. Parts(u, w, pl, ac)
    BY <1>4, <1>6 DEF Parts
  <2> QED
    BY <1>2, <1>6, <2>1, NewestSplit
<1>8. OutOrder(cur, dat, Tail(D), Newest(pl, u), ac)
  BY <1>4, <1>7 DEF OutOrder, w, s, v
<1> QED
  BY <1>7, <1>8 DEF u

\* When all that is left of the queue and the current fragment are empty,
\* everything has been played.
LEMMA OutPlayed ==
  ASSUME NEW cur \in Frags, NEW dat \in [Frags -> Seq(Nat)], NEW D \in Seq(Entries),
         NEW pl \in Nat, NEW ac \in Nat, OutOrder(cur, dat, D, pl, ac), dat[cur] = <<>>,
         \A i \in 1 .. Len(D) : D[i].units = <<>>
  PROVE  pl = ac
<1>1. SentOf(D) \in Seq(Seq(Nat)) /\ \A i \in 1 .. Len(SentOf(D)) : SentOf(D)[i] = <<>>
  <2>1. \A i \in 1 .. Len(D) : SentOf(D)[i] = D[i].units
    BY DEF SentOf
  <2> QED
    BY <2>1, SentFacts
<1>2. FlattenSeq(SentOf(D)) = <<>>
  BY <1>1, FlattenEmpty
<1>3. <<>> \o <<>> = <<>>
  BY ConcatEmptySeq, EmptySeq
<1>4. Units(pl, ac) = <<>> /\ pl <= ac
  BY <1>2, <1>3 DEF OutOrder
<1> QED
  BY <1>4, UnitsEmpty

-----------------------------------------------------------------------------
(* The units of an orderly input *)

\* A place of the ring is a fragment, another place another one, and the first
\* is the current one.
LEMMA SlotIn == \A cur \in Frags : \A j \in 1 .. NbFrags : Slot(cur, j) \in Frags
BY SlotFacts

\* Two places are two fragments.
LEMMA SlotOnce ==
  ASSUME NEW cur \in Frags, NEW j \in 1 .. NbFrags, NEW k \in 1 .. NbFrags, j # k
  PROVE  Slot(cur, j) # Slot(cur, k)
BY SlotFacts

\* The first place is the current fragment.
LEMMA SlotFirst == \A cur \in Frags : Slot(cur, 1) = cur /\ 1 \in 1 .. NbFrags
<1>1. 1 \in 1 .. NbFrags
  BY SoundAssumption
<1> QED
  BY <1>1, SlotFacts

RingOf(cur, dat) == [j \in 1 .. NbFrags |-> dat[Slot(cur, j)]]

\* The units from de up to ca are in the ring of fragments that starts at the
\* current one.
InOrder(cur, dat, de, ca) ==
  /\ de <= ca
  /\ FlattenSeq(RingOf(cur, dat)) = Units(de, ca)

\* The ring holds each fragment once.
LEMMA RingFacts ==
  ASSUME NEW cur \in Frags, NEW dat \in [Frags -> Seq(Nat)]
  PROVE  /\ RingOf(cur, dat) \in Seq(Seq(Nat))
         /\ Len(RingOf(cur, dat)) = NbFrags
         /\ \A j \in 1 .. NbFrags : RingOf(cur, dat)[j] = dat[Slot(cur, j)]
<1>1. NbFrags \in Nat
  BY SoundAssumption
<1>2. \A j \in 1 .. NbFrags : dat[Slot(cur, j)] \in Seq(Nat)
  BY SlotFacts
<1> QED
  BY <1>1, <1>2 DEF RingOf

\* e is dat but for the i-th fragment from cur on, which is v.
RingSet(cur, dat, i, v, e) ==
  /\ e \in [Frags -> Seq(Nat)]
  /\ RingOf(cur, e)[i] = v
  /\ \A j \in 1 .. NbFrags : j # i => RingOf(cur, e)[j] = RingOf(cur, dat)[j]

\* Changing one fragment changes one place of the ring.
LEMMA RingExcept ==
  ASSUME NEW cur \in Frags, NEW dat \in [Frags -> Seq(Nat)], NEW i \in 1 .. NbFrags,
         NEW f \in Frags, f = Slot(cur, i), NEW v \in Seq(Nat)
  PROVE  RingSet(cur, dat, i, v, [dat EXCEPT ![f] = v])
<1> DEFINE e == [dat EXCEPT ![f] = v]
<1>1. e \in [Frags -> Seq(Nat)] /\ e[Slot(cur, i)] = v
  OBVIOUS
<1>2. ASSUME NEW j \in 1 .. NbFrags, j # i PROVE e[Slot(cur, j)] = dat[Slot(cur, j)]
  <2>1. Slot(cur, j) # Slot(cur, i)
    BY <1>2, SlotOnce
  <2>2. Slot(cur, j) \in Frags
    BY SlotIn
  <2> QED
    BY <2>1, <2>2
<1> HIDE DEF e
<1>3. \A j \in 1 .. NbFrags : RingOf(cur, e)[j] = e[Slot(cur, j)]
  BY <1>1, RingFacts
<1>4. \A j \in 1 .. NbFrags : RingOf(cur, dat)[j] = dat[Slot(cur, j)]
  BY RingFacts
<1>5. RingSet(cur, dat, i, v, e)
  BY <1>1, <1>2, <1>3, <1>4 DEF RingSet
<1> QED
  BY <1>5 DEF e

\* Nothing in the fragments.
LEMMA InEmpty ==
  ASSUME NEW cur \in Frags, NEW n \in Nat
  PROVE  InOrder(cur, Empty, n, n)
<1>1. Empty \in [Frags -> Seq(Nat)] /\ \A f \in Frags : Empty[f] = <<>>
  BY DEF Empty
<1>2. RingOf(cur, Empty) \in Seq(Seq(Nat))
      /\ \A j \in 1 .. Len(RingOf(cur, Empty)) : RingOf(cur, Empty)[j] = <<>>
  <2>1. /\ RingOf(cur, Empty) \in Seq(Seq(Nat)) /\ Len(RingOf(cur, Empty)) = NbFrags
        /\ \A j \in 1 .. NbFrags : RingOf(cur, Empty)[j] = Empty[Slot(cur, j)]
    BY <1>1, RingFacts
  <2> QED
    BY <1>1, <2>1, SlotIn
<1>3. FlattenSeq(RingOf(cur, Empty)) = <<>>
  BY <1>2, FlattenEmpty
<1>4. Units(n, n) = <<>> /\ n <= n
  BY UnitsEmpty
<1> QED
  BY <1>3, <1>4 DEF InOrder

\* The DMA fills the first fragment from which on all are empty.
LEMMA InDone ==
  ASSUME NEW cur \in Frags, NEW dat \in [Frags -> Seq(Nat)], NEW i \in 1 .. NbFrags,
         \A j \in i .. NbFrags : dat[Slot(cur, j)] = <<>>,
         NEW de \in Nat, NEW ca \in Nat, NEW n \in Nat, InOrder(cur, dat, de, ca)
  PROVE  InOrder(cur, [dat EXCEPT ![Slot(cur, i)] = Units(ca, ca + n)], de, ca + n)
<1> DEFINE v == Units(ca, ca + n)
           e == [dat EXCEPT ![Slot(cur, i)] = v]
           s == RingOf(cur, dat)
           t == RingOf(cur, e)
<1>1. v \in Seq(Nat) /\ NbFrags \in Nat /\ ca + n \in Nat
  <2>1. ca + n \in Nat
    OBVIOUS
  <2> QED
    BY <2>1, UnitsFacts, SoundAssumption
<1> HIDE DEF v
<1>2. RingSet(cur, dat, i, v, e)
  BY <1>1, SlotIn, RingExcept
<1> HIDE DEF e
<1>3. /\ e \in [Frags -> Seq(Nat)] /\ t[i] = v
      /\ \A j \in 1 .. NbFrags : j # i => t[j] = s[j]
  BY <1>2 DEF RingSet
<1>10. s \in Seq(Seq(Nat)) /\ t \in Seq(Seq(Nat)) /\ Len(s) = NbFrags /\ Len(t) = NbFrags
  BY <1>3, RingFacts
<1>4. \A j \in 1 .. NbFrags : j >= i => s[j] = <<>>
  <2>1. \A j \in 1 .. NbFrags : j >= i => j \in i .. NbFrags
    BY <1>1
  <2> QED
    BY <2>1, RingFacts
<1> HIDE DEF s, t
<1>5. FlattenSeq(t) = FlattenSeq(s) \o t[i]
  BY <1>1, <1>3, <1>4, <1>10, FlattenFill
<1>6. FlattenSeq(s) = Units(de, ca) /\ de <= ca
  BY DEF InOrder, s
<1>7. Units(de, ca) \o v = Units(de, ca + n) /\ de <= ca + n
  <2>1. ca <= ca + n /\ de <= ca + n
    BY <1>6
  <2> QED
    BY <1>1, <1>6, <2>1, UnitsJoin DEF v
<1>8. InOrder(cur, e, de, ca + n)
  BY <1>3, <1>5, <1>6, <1>7 DEF InOrder, t
<1> QED
  BY <1>8 DEF e, v

\* x is u and then v.
Joins(u, v, x) == x = u \o v

\* A read takes the first units of the current fragment.
LEMMA InDrain ==
  ASSUME NEW cur \in Frags, NEW dat \in [Frags -> Seq(Nat)], NEW u \in Seq(Nat),
         NEW v \in Seq(Nat), Joins(u, v, dat[cur]),
         NEW de \in Nat, NEW ca \in Nat, InOrder(cur, dat, de, ca)
  PROVE  /\ InOrder(cur, [dat EXCEPT ![cur] = v], de + Len(u), ca)
         /\ de + Len(u) \in Nat
<1> DEFINE e == [dat EXCEPT ![cur] = v]
           s == RingOf(cur, dat)
           t == RingOf(cur, e)
           w == FlattenSeq(Tail(s))
<1>1. NbFrags \in Nat /\ 1 \in 1 .. NbFrags /\ Slot(cur, 1) = cur
  BY SoundAssumption, SlotFirst
<1>2. /\ e \in [Frags -> Seq(Nat)] /\ t[1] = v
      /\ \A j \in 1 .. NbFrags : j # 1 => t[j] = s[j]
  <2>1. RingSet(cur, dat, 1, v, e)
    BY <1>1, RingExcept
  <2> HIDE DEF e
  <2> QED
    BY <2>1 DEF RingSet
<1> HIDE DEF e
<1>3. s \in Seq(Seq(Nat)) /\ t \in Seq(Seq(Nat)) /\ Len(s) = NbFrags /\ Len(t) = NbFrags
      /\ s[1] = u \o v
  <2>1. s \in Seq(Seq(Nat)) /\ Len(s) = NbFrags /\ s[1] = dat[cur]
    BY <1>1, RingFacts
  <2>2. t \in Seq(Seq(Nat)) /\ Len(t) = NbFrags
    BY <1>2, RingFacts
  <2> HIDE DEF s, t
  <2> QED
    BY <2>1, <2>2 DEF Joins
<1> HIDE DEF s, t
<1>4. s # <<>> /\ t # <<>>
  BY <1>1, <1>3, EmptySeq
<1>5. Tail(s) \in Seq(Seq(Nat)) /\ Tail(t) = Tail(s)
  <2>1. /\ Tail(s) \in Seq(Seq(Nat)) /\ Len(Tail(s)) = NbFrags - 1
        /\ \A j \in 1 .. Len(Tail(s)) : Tail(s)[j] = s[j + 1]
    BY <1>3, <1>4, HeadTailProperties
  <2>2. /\ Tail(t) \in Seq(Seq(Nat)) /\ Len(Tail(t)) = NbFrags - 1
        /\ \A j \in 1 .. Len(Tail(t)) : Tail(t)[j] = t[j + 1]
    BY <1>3, <1>4, HeadTailProperties
  <2>3. \A j \in 1 .. NbFrags - 1 : j + 1 \in 1 .. NbFrags /\ j + 1 # 1
    BY <1>1
  <2>4. \A j \in 1 .. Len(Tail(t)) : Tail(t)[j] = Tail(s)[j]
    BY <1>2, <2>1, <2>2, <2>3
  <2> QED
    BY <2>1, <2>2, <2>4, SeqEqual
<1>6. w \in Seq(Nat)
  BY <1>5, FlattenType
<1>7. FlattenSeq(s) = s[1] \o w /\ FlattenSeq(t) = t[1] \o w
  BY <1>3, <1>4, <1>5, FlattenHead
<1>8. de <= ca /\ FlattenSeq(s) = Units(de, ca)
  BY DEF InOrder, s
<1> HIDE DEF w
<1>9. (u \o v) \o w = u \o (v \o w)
  BY <1>6, ConcatTwice
<1>10. v \o w \in Seq(Nat)
  BY <1>6, ConcatProperties
<1>11. Parts(u, v \o w, de, ca)
  BY <1>3, <1>7, <1>8, <1>9 DEF Parts
<1> DEFINE x == v \o w
<1>12. x \in Seq(Nat) /\ Parts(u, x, de, ca)
  BY <1>10, <1>11
<1> HIDE DEF x
<1>13. de + Len(u) \in Nat /\ de + Len(u) <= ca /\ x = Units(de + Len(u), ca)
  BY <1>12, UnitsSplit
<1>14. InOrder(cur, e, de + Len(u), ca)
  BY <1>2, <1>7, <1>13 DEF InOrder, t, x
<1> QED
  BY <1>13, <1>14 DEF e

\* Once it is empty the next one becomes current.
LEMMA InAdvance ==
  ASSUME NEW cur \in Frags, NEW dat \in [Frags -> Seq(Nat)], dat[cur] = <<>>,
         NEW de \in Nat, NEW ca \in Nat, InOrder(cur, dat, de, ca)
  PROVE  InOrder((cur + 1) % NbFrags, dat, de, ca)
<1> DEFINE nxt == (cur + 1) % NbFrags
           s == RingOf(cur, dat)
           r == Tail(s)
           t == RingOf(nxt, dat)
<1>1. NbFrags \in Nat /\ 1 \in 1 .. NbFrags /\ NbFrags \in 1 .. NbFrags /\ nxt \in Frags
  BY SoundAssumption, SlotFacts
<1>2. s \in Seq(Seq(Nat)) /\ Len(s) = NbFrags /\ s[1] = <<>>
      /\ \A j \in 1 .. NbFrags : s[j] = dat[Slot(cur, j)]
  BY <1>1, RingFacts, SlotFirst
<1>3. t \in Seq(Seq(Nat)) /\ Len(t) = NbFrags
      /\ \A j \in 1 .. NbFrags : t[j] = dat[Slot(nxt, j)]
  BY <1>1, RingFacts
<1>4. /\ \A j \in 1 .. NbFrags : j # NbFrags => Slot(nxt, j) = Slot(cur, j + 1)
      /\ Slot(nxt, NbFrags) = cur
  BY SlotFacts
<1> HIDE DEF s, t, nxt
<1>5. s # <<>>
  BY <1>1, <1>2, EmptySeq
<1>6. /\ r \in Seq(Seq(Nat)) /\ Len(r) = NbFrags - 1
      /\ \A j \in 1 .. NbFrags - 1 : r[j] = s[j + 1]
  BY <1>1, <1>2, <1>5, HeadTailProperties
<1>7. FlattenSeq(s) = FlattenSeq(r)
  <2>1. FlattenSeq(s) = s[1] \o FlattenSeq(Tail(s))
    BY <1>2, <1>5, FlattenHead
  <2>2. FlattenSeq(r) \in Seq(Nat)
    BY <1>6, FlattenType
  <2>3. <<>> \o FlattenSeq(r) = FlattenSeq(r)
    BY <2>2, ConcatEmptySeq
  <2> QED
    BY <1>2, <2>1, <2>3
<1> HIDE DEF r
<1>8. t = Append(r, <<>>)
  <2>1. <<>> \in Seq(Nat)
    BY EmptySeq
  <2>2. /\ Append(r, <<>>) \in Seq(Seq(Nat)) /\ Len(Append(r, <<>>)) = Len(r) + 1
        /\ \A j \in 1 .. Len(r) : Append(r, <<>>)[j] = r[j]
        /\ Append(r, <<>>)[Len(r) + 1] = <<>>
    BY <1>6, <2>1, AppendProperties
  <2>3. ASSUME NEW j \in 1 .. NbFrags PROVE t[j] = Append(r, <<>>)[j]
    <3>1. CASE j = NbFrags
      <4>1. t[j] = <<>>
        BY <1>1, <1>3, <1>4, <3>1
      <4>2. Len(r) + 1 = j
        BY <1>1, <1>6, <3>1
      <4> QED
        BY <2>2, <4>1, <4>2
    <3>2. CASE j # NbFrags
      <4>1. j \in 1 .. NbFrags - 1 /\ j + 1 \in 1 .. NbFrags
        BY <1>1, <3>2
      <4>2. t[j] = dat[Slot(cur, j + 1)] /\ s[j + 1] = dat[Slot(cur, j + 1)]
        BY <1>2, <1>3, <1>4, <3>2, <4>1
      <4> QED
        BY <1>6, <2>2, <4>1, <4>2
    <3> QED
      BY <3>1, <3>2
  <2>4. Len(Append(r, <<>>)) = NbFrags
    BY <1>1, <1>6, <2>2
  <2> DEFINE x == Append(r, <<>>)
  <2>5. x \in Seq(Seq(Nat)) /\ Len(x) = NbFrags /\ \A j \in 1 .. NbFrags : t[j] = x[j]
    BY <2>2, <2>3, <2>4
  <2> HIDE DEF x
  <2>6. t = x
    BY <1>3, <2>5, SeqEqual
  <2> QED
    BY <2>6 DEF x
<1>9. FlattenSeq(t) = FlattenSeq(r) \o <<>>
  <2>1. <<>> \in Seq(Nat)
    BY EmptySeq
  <2> QED
    BY <1>6, <1>8, <2>1, FlattenMore
<1>10. FlattenSeq(r) \o <<>> = FlattenSeq(r)
  <2>1. FlattenSeq(r) \in Seq(Nat)
    BY <1>6, FlattenType
  <2> QED
    BY <2>1, ConcatEmptySeq
<1>11. de <= ca /\ FlattenSeq(s) = Units(de, ca)
  BY DEF InOrder, s
<1> QED
  BY <1>7, <1>9, <1>10, <1>11 DEF InOrder, t, nxt

\* What is queued is empty, and the fragments that are not are filled from the
\* last one backwards.
Shaped(cur, dat, D) ==
  /\ \A j \in 1 .. NbFrags : j > Room(D) => dat[Slot(cur, j)] = <<>>
  /\ \A j, k \in 1 .. NbFrags :
       j < k /\ k <= Room(D) /\ dat[Slot(cur, j)] # <<>> => dat[Slot(cur, k)] # <<>>

\* The current fragment has data, or is queued, or nothing is queued and there
\* is no data at all.
Ready(cur, dat, D) ==
  Room(D) > 0 /\ dat[cur] = <<>> => D = <<>> /\ \A f \in Frags : dat[f] = <<>>

InView(cur, dat, D, de, ca) ==
  Consecutive(cur, D) /\ InOrder(cur, dat, de, ca) /\ Shaped(cur, dat, D)

\* An input without data and without buffers in its queue, or with all of them.
LEMMA InFresh ==
  ASSUME NEW cur \in Frags, NEW n \in Nat
  PROVE  InView(cur, Empty, <<>>, n, n) /\ Ready(cur, Empty, <<>>)
<1>1. \A f \in Frags : Empty[f] = <<>>
  BY DEF Empty
<1>2. Shaped(cur, Empty, <<>>)
  BY <1>1, SlotIn DEF Shaped
<1> QED
  BY <1>1, <1>2, InEmpty, QueueEmpty DEF InView, Ready

\* The first read queues every fragment, and the order is kept.
LEMMA InStart ==
  ASSUME NEW de \in Nat, NEW ca \in Nat, InView(0, Empty, <<>>, de, ca),
         NEW D, D = [i \in 1 .. NbFrags |-> [frag |-> i - 1, units |-> <<>>]]
  PROVE  InView(0, Empty, D, de, ca) /\ Ready(0, Empty, D)
<1>1. Consecutive(0, D) /\ Room(D) = 0
  BY QueueAll
<1>2. \A f \in Frags : Empty[f] = <<>>
  BY DEF Empty
<1>3. Shaped(0, Empty, D)
  BY <1>2, SlotIn, FragFacts DEF Shaped
<1>4. Ready(0, Empty, D)
  BY <1>1 DEF Ready
<1> QED
  BY <1>1, <1>3, <1>4 DEF InView

\* The DMA has filled the first of its queue.
LEMMA InViewDone ==
  ASSUME NEW cur \in Frags, NEW dat \in [Frags -> Seq(Nat)], NEW D \in Seq(Entries),
         D # <<>>, NEW de \in Nat, NEW ca \in Nat, InView(cur, dat, D, de, ca),
         NEW n \in Nat, n # 0
  PROVE  /\ InView(cur, [dat EXCEPT ![D[1].frag] = Units(ca, ca + n)], Tail(D), de, ca + n)
         /\ Ready(cur, dat, D)
              => Ready(cur, [dat EXCEPT ![D[1].frag] = Units(ca, ca + n)], Tail(D))
<1> DEFINE f == D[1].frag
           v == Units(ca, ca + n)
           e == [dat EXCEPT ![f] = v]
           E == Tail(D)
           i == Room(D) + 1
<1>1. Consecutive(cur, D) /\ InOrder(cur, dat, de, ca) /\ Shaped(cur, dat, D)
  BY DEF InView
<1>2. Consecutive(cur, E) /\ Room(E) = i /\ i \in 1 .. NbFrags /\ f = Slot(cur, i)
  BY <1>1, QueueDone
<1>3. Room(D) \in 0 .. NbFrags /\ NbFrags \in Nat
  BY <1>1, QueueFull, SoundAssumption
<1>4. v \in Seq(Nat) /\ v # <<>>
  <2>1. v \in Seq(Nat) /\ Len(v) = n
    BY UnitsFacts
  <2> QED
    BY <2>1, EmptySeq
<1>5. i = Room(D) + 1
  OBVIOUS
<1> HIDE DEF v, E, i
<1>6. \A j \in i .. NbFrags : dat[Slot(cur, j)] = <<>>
  <2>1. \A j \in i .. NbFrags : j \in 1 .. NbFrags /\ j > Room(D)
    BY <1>2, <1>3, <1>5
  <2> QED
    BY <1>1, <2>1 DEF Shaped
<1>7. InOrder(cur, e, de, ca + n)
  <2>1. e = [dat EXCEPT ![Slot(cur, i)] = Units(ca, ca + n)]
    BY <1>2 DEF v
  <2> HIDE DEF e
  <2> QED
    BY <1>1, <1>2, <1>6, <2>1, InDone
<1>8. f \in Frags
  BY <1>2, SlotIn
<1>9. e[Slot(cur, i)] = v
  BY <1>2, <1>8
<1>10. ASSUME NEW j \in 1 .. NbFrags, j # i PROVE e[Slot(cur, j)] = dat[Slot(cur, j)]
  <2>1. Slot(cur, j) # Slot(cur, i)
    BY <1>2, <1>10, SlotOnce
  <2>2. Slot(cur, j) \in Frags
    BY SlotIn
  <2> QED
    BY <1>2, <2>1, <2>2
<1> HIDE DEF e, f
<1>11. Shaped(cur, e, E)
  <2>1. ASSUME NEW j \in 1 .. NbFrags, j > Room(E) PROVE e[Slot(cur, j)] = <<>>
    <3>1. j # i /\ j > Room(D)
      BY <1>2, <1>3, <1>5, <2>1
    <3> QED
      BY <1>1, <1>10, <3>1 DEF Shaped
  <2>2. ASSUME NEW j \in 1 .. NbFrags, NEW k \in 1 .. NbFrags,
               j < k, k <= Room(E), e[Slot(cur, j)] # <<>>
        PROVE  e[Slot(cur, k)] # <<>>
    <3>1. CASE k = i
      BY <1>4, <1>9, <3>1
    <3>2. CASE k # i
      <4>1. k <= Room(D) /\ j # i
        BY <1>2, <1>3, <1>5, <2>2, <3>2
      <4>2. e[Slot(cur, j)] = dat[Slot(cur, j)] /\ e[Slot(cur, k)] = dat[Slot(cur, k)]
        BY <1>10, <3>2, <4>1
      <4> QED
        BY <1>1, <2>2, <4>1, <4>2 DEF Shaped
    <3> QED
      BY <3>1, <3>2
  <2> QED
    BY <2>1, <2>2 DEF Shaped
<1>12. ASSUME Ready(cur, dat, D) PROVE Ready(cur, e, E)
  <2> SUFFICES ASSUME e[cur] = <<>> PROVE FALSE
    BY DEF Ready
  <2>1. 1 \in 1 .. NbFrags /\ Slot(cur, 1) = cur
    BY SlotFirst
  <2>2. i # 1
    BY <1>4, <1>9, <2>1
  <2>3. dat[cur] = <<>>
    BY <1>10, <2>1, <2>2
  <2>4. Room(D) > 0
    BY <1>3, <1>5, <2>2
  <2> QED
    BY <1>12, <2>3, <2>4 DEF Ready
<1>13. InView(cur, e, E, de, ca + n)
  BY <1>2, <1>7, <1>11 DEF InView
<1> QED
  BY <1>12, <1>13 DEF e, E, f, v

\* A read leaves units v in the current fragment.
LEMMA InViewDrain ==
  ASSUME NEW cur \in Frags, NEW dat \in [Frags -> Seq(Nat)], NEW D \in Seq(Entries),
         NEW de \in Nat, NEW ca \in Nat, InView(cur, dat, D, de, ca),
         NEW u \in Seq(Nat), NEW v \in Seq(Nat), v # <<>>, Joins(u, v, dat[cur])
  PROVE  /\ InView(cur, [dat EXCEPT ![cur] = v], D, de + Len(u), ca)
         /\ Ready(cur, [dat EXCEPT ![cur] = v], D)
<1> DEFINE e == [dat EXCEPT ![cur] = v]
<1>1. Consecutive(cur, D) /\ InOrder(cur, dat, de, ca) /\ Shaped(cur, dat, D)
  BY DEF InView
<1>2. InOrder(cur, e, de + Len(u), ca)
  BY <1>1, InDrain
<1>3. dat[cur] # <<>>
  <2>1. Len(u) \in Nat /\ Len(v) \in Nat /\ Len(v) # 0
    BY EmptySeq, LenProperties
  <2>2. Len(u \o v) = Len(u) + Len(v)
    BY ConcatProperties
  <2>3. Len(dat[cur]) # 0
    BY <2>1, <2>2 DEF Joins
  <2> QED
    BY <2>3
<1>4. e[cur] = v /\ \A f \in Frags : e[f] = <<>> <=> dat[f] = <<>>
  BY <1>3
<1> HIDE DEF e
<1>5. Shaped(cur, e, D)
  BY <1>1, <1>4, SlotIn DEF Shaped
<1>6. Ready(cur, e, D)
  BY <1>4 DEF Ready
<1>7. InView(cur, e, D, de + Len(u), ca)
  BY <1>1, <1>2, <1>5 DEF InView
<1> QED
  BY <1>6, <1>7 DEF e

\* A read empties the current fragment and queues it.
LEMMA InViewSend ==
  ASSUME NEW cur \in Frags, NEW dat \in [Frags -> Seq(Nat)], NEW D \in Seq(Entries),
         NEW de \in Nat, NEW ca \in Nat, InView(cur, dat, D, de, ca),
         NEW u \in Seq(Nat), Joins(u, <<>>, dat[cur]),
         ~Queued(D, cur), NEW x \in Entries, x.frag = cur
  PROVE  /\ InView((cur + 1) % NbFrags, [dat EXCEPT ![cur] = <<>>], Append(D, x),
                   de + Len(u), ca)
         /\ dat[cur] # <<>> =>
              Ready((cur + 1) % NbFrags, [dat EXCEPT ![cur] = <<>>], Append(D, x))
<1> DEFINE e == [dat EXCEPT ![cur] = <<>>]
           E == Append(D, x)
           nxt == (cur + 1) % NbFrags
<1>1. Consecutive(cur, D) /\ InOrder(cur, dat, de, ca) /\ Shaped(cur, dat, D)
  BY DEF InView
<1>2. e \in [Frags -> Seq(Nat)] /\ e[cur] = <<>> /\ \A f \in Frags \ {cur} : e[f] = dat[f]
  <2>1. <<>> \in Seq(Nat)
    BY EmptySeq
  <2> QED
    BY <2>1
<1>3. InOrder(cur, e, de + Len(u), ca) /\ de + Len(u) \in Nat
  <2>1. <<>> \in Seq(Nat)
    BY EmptySeq
  <2> QED
    BY <1>1, <2>1, InDrain
<1> HIDE DEF e
<1>4. InOrder(nxt, e, de + Len(u), ca)
  BY <1>2, <1>3, InAdvance
<1>5. Consecutive(nxt, E)
  BY <1>1, QueueSend
<1>6. /\ NbFrags \in Nat /\ NbFrags > 1
      /\ Room(D) \in 0 .. NbFrags /\ Room(D) # 0
      /\ Room(E) = Room(D) - 1
  <2>1. Len(D) \in Nat /\ Len(E) = Len(D) + 1
    BY AppendProperties, LenProperties
  <2>2. NbFrags \in Nat /\ NbFrags > 1 /\ Room(D) \in 0 .. NbFrags /\ Room(D) # 0
    BY <1>1, QueueFull, SoundAssumption
  <2> QED
    BY <2>1, <2>2 DEF Room
<1>7. /\ nxt \in Frags
      /\ \A j \in 1 .. NbFrags : j # NbFrags => Slot(nxt, j) = Slot(cur, j + 1)
      /\ Slot(nxt, NbFrags) = cur
  BY SlotFacts
<1> HIDE DEF E, nxt
<1>8. ASSUME NEW j \in 1 .. NbFrags, j # NbFrags
      PROVE  j + 1 \in 1 .. NbFrags /\ e[Slot(nxt, j)] = dat[Slot(cur, j + 1)]
  <2>1. j + 1 \in 1 .. NbFrags /\ j + 1 # 1 /\ 1 \in 1 .. NbFrags
    BY <1>6, <1>8
  <2>2. Slot(cur, j + 1) # cur /\ Slot(cur, j + 1) \in Frags
    <3> DEFINE k == j + 1
    <3>1. k \in 1 .. NbFrags /\ k # 1 /\ 1 \in 1 .. NbFrags
      BY <2>1
    <3> HIDE DEF k
    <3>2. Slot(cur, k) # Slot(cur, 1) /\ Slot(cur, 1) = cur /\ Slot(cur, k) \in Frags
      BY <3>1, SlotFacts
    <3> QED
      BY <3>2 DEF k
  <2> QED
    BY <1>2, <1>7, <1>8, <2>1, <2>2
<1>9. Shaped(nxt, e, E)
  <2>1. ASSUME NEW j \in 1 .. NbFrags, j > Room(E) PROVE e[Slot(nxt, j)] = <<>>
    <3>1. CASE j = NbFrags
      BY <1>2, <1>7, <3>1
    <3>2. CASE j # NbFrags
      <4>1. j + 1 \in 1 .. NbFrags /\ j + 1 > Room(D)
        BY <1>6, <1>8, <2>1, <3>2
      <4> QED
        BY <1>1, <1>8, <3>2, <4>1 DEF Shaped
    <3> QED
      BY <3>1, <3>2
  <2>2. ASSUME NEW j \in 1 .. NbFrags, NEW k \in 1 .. NbFrags,
               j < k, k <= Room(E), e[Slot(nxt, j)] # <<>>
        PROVE  e[Slot(nxt, k)] # <<>>
    <3>1. j # NbFrags /\ k # NbFrags
      BY <1>6, <2>2
    <3>2. /\ j + 1 \in 1 .. NbFrags /\ k + 1 \in 1 .. NbFrags
          /\ j + 1 < k + 1 /\ k + 1 <= Room(D)
      BY <1>6, <1>8, <2>2, <3>1
    <3>3. dat[Slot(cur, j + 1)] # <<>>
      BY <1>8, <2>2, <3>1
    <3>4. dat[Slot(cur, k + 1)] # <<>>
      BY <1>1, <3>2, <3>3 DEF Shaped
    <3> QED
      BY <1>8, <3>1, <3>4
  <2> QED
    BY <2>1, <2>2 DEF Shaped
<1>10. ASSUME dat[cur] # <<>> PROVE Ready(nxt, e, E)
  <2> SUFFICES ASSUME Room(E) > 0 PROVE e[nxt] # <<>>
    BY DEF Ready
  <2>1. 1 \in 1 .. NbFrags /\ 1 # NbFrags /\ 1 < 1 + 1 /\ 1 + 1 <= Room(D) /\ 1 + 1 \in 1 .. NbFrags
    BY <1>6
  <2>2. Slot(cur, 1) = cur /\ Slot(nxt, 1) = nxt
    BY <1>7, SlotFirst
  <2>3. dat[Slot(cur, 1 + 1)] # <<>>
    BY <1>1, <1>10, <2>1, <2>2 DEF Shaped
  <2> QED
    BY <1>8, <2>1, <2>2, <2>3
<1>11. InView(nxt, e, E, de + Len(u), ca)
  BY <1>4, <1>5, <1>9 DEF InView
<1> QED
  BY <1>10, <1>11 DEF e, E, nxt

-----------------------------------------------------------------------------
(* What a sync waits for *)

\* The current fragment is empty, and f is the last fragment with something to
\* play, unless all has been played.
Settled(cur, dat, D, pl, ac, f) ==
  /\ dat[cur] = <<>>
  /\ \/ pl = ac
     \/ \E i \in 1 .. Len(D) :
          /\ D[i].frag = f
          /\ \A j \in 1 .. Len(D) : j > i => D[j].units = <<>>

\* The fragment before an empty current one is.
LEMMA SettledLast ==
  ASSUME NEW cur \in Frags, NEW dat \in [Frags -> Seq(Nat)], NEW D \in Seq(Entries),
         NEW pl \in Nat, NEW ac \in Nat, OutOrder(cur, dat, D, pl, ac),
         Consecutive(cur, D), dat[cur] = <<>>
  PROVE  Settled(cur, dat, D, pl, ac, Prev(cur))
<1>1. CASE D = <<>>
  <2>1. \A i \in 1 .. Len(D) : D[i].units = <<>>
    BY <1>1
  <2> QED
    BY <2>1, OutPlayed DEF Settled
<1>2. CASE D # <<>>
  <2>1. Len(D) \in 1 .. Len(D) /\ D[Len(D)].frag = Prev(cur)
    BY <1>2, QueueLast
  <2>2. \A j \in 1 .. Len(D) : ~(j > Len(D))
    BY LenProperties
  <2> QED
    BY <2>1, <2>2 DEF Settled
<1> QED
  BY <1>1, <1>2

\* It still is when the DMA has played the first of its queue.
LEMMA SettledDone ==
  ASSUME NEW cur \in Frags, NEW dat \in [Frags -> Seq(Nat)], NEW D \in Seq(Entries),
         D # <<>>, NEW pl \in Nat, NEW ac \in Nat, OutOrder(cur, dat, D, pl, ac),
         NEW f, Settled(cur, dat, D, pl, ac, f)
  PROVE  Settled(cur, dat, Tail(D), Newest(pl, D[1].units), ac, f)
<1> DEFINE E == Tail(D)
           n == Newest(pl, D[1].units)
<1>1. OutOrder(cur, dat, E, n, ac) /\ n \in Nat /\ pl <= n
  BY OutDone
<1>2. n <= ac /\ dat[cur] = <<>>
  BY <1>1 DEF OutOrder, Settled
<1>3. /\ E \in Seq(Entries) /\ Len(D) \in Nat /\ Len(E) = Len(D) - 1
      /\ \A i \in 1 .. Len(E) : E[i] = D[i + 1]
  BY HeadTailProperties, LenProperties
<1> HIDE DEF E, n
<1>4. CASE pl = ac
  BY <1>1, <1>2, <1>4 DEF Settled, E, n
<1>5. ASSUME NEW i \in 1 .. Len(D), D[i].frag = f,
             \A j \in 1 .. Len(D) : j > i => D[j].units = <<>>
      PROVE  Settled(cur, dat, E, n, ac, f)
  <2>1. CASE i = 1
    <3>1. \A j \in 1 .. Len(E) : E[j].units = <<>>
      <4>1. \A j \in 1 .. Len(E) : j + 1 \in 1 .. Len(D) /\ j + 1 > i
        BY <1>3, <2>1
      <4> QED
        BY <1>3, <1>5, <4>1
    <3>2. n = ac
      BY <1>1, <1>2, <1>3, <3>1, OutPlayed
    <3> QED
      BY <1>2, <3>2 DEF Settled
  <2>2. CASE i # 1
    <3> DEFINE k == i - 1
    <3>1. k \in 1 .. Len(E) /\ k + 1 = i
      BY <1>3, <2>2
    <3>2. \A j \in 1 .. Len(E) : j > k => j + 1 \in 1 .. Len(D) /\ j + 1 > i
      BY <1>3
    <3> HIDE DEF k
    <3>3. E[k].frag = f
      BY <1>3, <1>5, <3>1
    <3>4. \A j \in 1 .. Len(E) : j > k => E[j].units = <<>>
      BY <1>3, <1>5, <3>2
    <3> QED
      BY <1>2, <3>1, <3>3, <3>4 DEF Settled
  <2> QED
    BY <2>1, <2>2
<1> QED
  BY <1>4, <1>5 DEF Settled, E, n

\* The current fragment is queued: it is what to wait for, and so is what was
\* when there is nothing in it.
LEMMA SettledSend ==
  ASSUME NEW cur, NEW nxt, NEW dat, NEW e, NEW D \in Seq(Entries), NEW x \in Entries,
         NEW pl, NEW ac, e[nxt] = <<>>
  PROVE  /\ Settled(nxt, e, Append(D, x), pl, ac, x.frag)
         /\ \A f : x.units = <<>> /\ Settled(cur, dat, D, pl, ac, f)
                     => Settled(nxt, e, Append(D, x), pl, ac, f)
<1> DEFINE E == Append(D, x)
<1>1. /\ Len(D) \in Nat /\ Len(E) = Len(D) + 1
      /\ \A i \in 1 .. Len(D) : E[i] = D[i]
      /\ E[Len(D) + 1] = x
  BY AppendProperties, LenProperties
<1> HIDE DEF E
<1>2. Settled(nxt, e, E, pl, ac, x.frag)
  <2>1. Len(E) \in 1 .. Len(E) /\ E[Len(E)] = x /\ \A j \in 1 .. Len(E) : ~(j > Len(E))
    BY <1>1
  <2> QED
    BY <2>1 DEF Settled
<1>3. ASSUME NEW f, x.units = <<>>, Settled(cur, dat, D, pl, ac, f)
      PROVE  Settled(nxt, e, E, pl, ac, f)
  <2>1. CASE pl = ac
    BY <2>1 DEF Settled
  <2>2. ASSUME NEW i \in 1 .. Len(D), D[i].frag = f,
               \A j \in 1 .. Len(D) : j > i => D[j].units = <<>>
        PROVE  Settled(nxt, e, E, pl, ac, f)
    <3>1. i \in 1 .. Len(E) /\ E[i].frag = f
      BY <1>1, <2>2
    <3>2. ASSUME NEW j \in 1 .. Len(E), j > i PROVE E[j].units = <<>>
      <4>1. j \in 1 .. Len(D) \/ j = Len(D) + 1
        BY <1>1
      <4> QED
        BY <1>1, <1>3, <2>2, <3>2, <4>1
    <3> QED
      BY <3>1, <3>2 DEF Settled
  <2> QED
    BY <1>3, <2>1, <2>2 DEF Settled
<1> QED
  BY <1>2, <1>3 DEF E

-----------------------------------------------------------------------------
(* The kinds of steps *)

\* A step of thread p leaves the other threads where they are.
Others(p) ==
  \A q \in Procs \ {p} :
    /\ op'[q] = op[q] /\ pc'[q] = pc[q] /\ b'[q] = b[q] /\ left'[q] = left[q]
    /\ Using(q)' = Using(q)

\* Nothing happens to the threads and what the streams hold.
Idle(p) ==
  /\ UNCHANGED <<op, pc, b, left, buf_idx, data, sem, dma, unitVars, pathVars>>
  /\ \A s \in Streams : buffers[s] => buffers'[s]
  /\ Using(p)' = Using(p)

\* The handler returns without having touched a stream.
Ends(p) ==
  /\ Return(p)
  /\ UNCHANGED <<streamVars, unitVars, pathVars>>
  /\ op[p] \in {"write", "read"} => LoopDownFails(p)
  /\ op[p] # "release"

Sleeps(p) ==
  /\ op[p] = "poll" /\ pc'[p] = "pollsleep"
  /\ UNCHANGED <<op, b, left, streamVars, unitVars, pathVars>>
  /\ Using(p)' = Using(p)

\* The streams S are cleared, by a thread that is in no handler afterwards.
Clears(p, S) ==
  /\ audio_clear_buf(S, p)
  /\ \/ UNCHANGED <<op, pc, b, left>> /\ pc[p] = "user"
     \/ Return(p) /\ At(p, "release", "wait") /\ S = {"out"}

Enters(p) ==
  \/ \E n \in Counts : WriteCall(p, n) \/ ReadCall(p, n)
  \/ SyncCall(p)
  \/ PollCall(p)

Acts(p) ==
  \/ \E f \in Files, m \in (SUBSET Streams) \ {{}} : smdk2410_audio_open(p, f, m)
  \/ smdk2410_audio_release(p)
  \/ \E n \in Counts : WriteCall(p, n) \/ ReadCall(p, n)
  \/ LoopDown(p) \/ LoopDownFails(p) \/ LoopFault(p)
  \/ WriteCopy(p) \/ ReadCopy(p)
  \/ smdk2410_audio_ioctl(p)
  \/ smdk2410_audio_poll(p)
  \/ CloseShared(p)
  \/ \E q \in Procs : Inherit(p, q)

Known == Safe /\ FilesInv /\ InsideFile

\* Who is in a handler when the files stay, or when it is in none.
LEMMA UsingStays ==
  ASSUME NEW q, op'[q] = op[q], op[q] = "poll" => mode'[fd'[q]] = mode[fd[q]]
  PROVE  Using(q)' = Using(q)
BY DEF Using

\* Outside every handler a thread works on no stream.
LEMMA NoneUsing ==
  ASSUME NEW q
  PROVE  /\ op[q] = "none" => Using(q) = {}
         /\ op'[q] = "none" => Using(q)' = {}
BY DEF Using

\* A return and a continuation concern one thread.
LEMMA ReturnOthers ==
  ASSUME TypeOK, NEW p \in Procs, Return(p)
  PROVE  /\ op'[p] = "none" /\ pc'[p] = "user" /\ b'[p] = 0 /\ left'[p] = 0
         /\ \A q \in Procs \ {p} :
              op'[q] = op[q] /\ pc'[q] = pc[q] /\ b'[q] = b[q] /\ left'[q] = left[q]
BY DEF TypeOK, Return

\* Going on in a handler concerns one thread.
LEMMA ContinueOthers ==
  ASSUME TypeOK, NEW p \in Procs, NEW to, NEW f, NEW n, Continue(p, to, f, n)
  PROVE  /\ pc'[p] = to /\ b'[p] = f /\ left'[p] = n
         /\ \A q \in Procs \ {p} : pc'[q] = pc[q] /\ b'[q] = b[q] /\ left'[q] = left[q]
BY DEF TypeOK, Continue

\* Opening, forgetting and sharing a file leaves the other handlers' files.
LEMMA FilesOfOthers ==
  ASSUME TypeOK, InsideFile, NEW p \in Procs,
         \/ \E f \in Files, m \in SUBSET Streams :
              mode[f] = {} /\ fd' = [fd EXCEPT ![p] = f] /\ mode' = [mode EXCEPT ![f] = m]
         \/ fd[p] # None /\ LastReference(p) /\ Forget(p)
         \/ mode' = mode /\ fd' = [fd EXCEPT ![p] = None]
         \/ mode' = mode /\ \E r \in Procs : op[r] = "none" /\ fd' = [fd EXCEPT ![r] = fd[p]],
         NEW q \in Procs \ {p}, op[q] = "poll"
  PROVE  mode'[fd'[q]] = mode[fd[q]]
<1>1. fd[q] # None /\ fd[q] \in Files /\ mode[fd[q]] # {}
      /\ fd \in [Procs -> Files \union {None}] /\ mode \in [Files -> SUBSET Streams]
  BY DEF TypeOK, InsideFile
<1>2. ASSUME NEW f \in Files, NEW m \in SUBSET Streams, mode[f] = {},
             fd' = [fd EXCEPT ![p] = f], mode' = [mode EXCEPT ![f] = m]
      PROVE  mode'[fd'[q]] = mode[fd[q]]
  <2>1. fd'[q] = fd[q] /\ fd[q] # f
    BY <1>1, <1>2
  <2> QED
    BY <1>1, <1>2, <2>1
<1>3. ASSUME fd[p] # None, LastReference(p), Forget(p) PROVE mode'[fd'[q]] = mode[fd[q]]
  <2>1. fd'[q] = fd[q] /\ fd[q] # fd[p]
    BY <1>1, <1>3 DEF LastReference, Forget
  <2> QED
    BY <1>1, <1>3, <2>1 DEF Forget
<1>4. ASSUME mode' = mode, fd' = [fd EXCEPT ![p] = None] PROVE mode'[fd'[q]] = mode[fd[q]]
  BY <1>1, <1>4
<1>5. ASSUME mode' = mode, NEW r \in Procs, op[r] = "none", fd' = [fd EXCEPT ![r] = fd[p]]
      PROVE  mode'[fd'[q]] = mode[fd[q]]
  BY <1>1, <1>5
<1> QED
  BY <1>2, <1>3, <1>4, <1>5

\* Any step of a thread leaves the others where they are.
LEMMA OthersStay ==
  ASSUME Known, stale = {}, NEW p \in Procs, Acts(p)
  PROVE  Others(p)
<1>1. TypeOK /\ Places /\ InsideFile /\ LastInside
  BY DEF Known, Safe, FilesInv
<1>2. ASSUME \A q \in Procs \ {p} :
               op'[q] = op[q] /\ pc'[q] = pc[q] /\ b'[q] = b[q] /\ left'[q] = left[q],
             \A q \in Procs \ {p} : op[q] = "poll" => mode'[fd'[q]] = mode[fd[q]]
      PROVE  Others(p)
  BY <1>2, UsingStays DEF Others
<1>3. ASSUME UNCHANGED procVars,
             \A q \in Procs \ {p} : op[q] = "poll" => mode'[fd'[q]] = mode[fd[q]]
      PROVE  Others(p)
  BY <1>2, <1>3 DEF procVars
<1>4. ASSUME NEW f \in Files, NEW m \in (SUBSET Streams) \ {{}}, smdk2410_audio_open(p, f, m)
      PROVE  Others(p)
  <2>1. UNCHANGED procVars /\ mode[f] = {} /\ m \in SUBSET Streams
        /\ fd' = [fd EXCEPT ![p] = f] /\ mode' = [mode EXCEPT ![f] = m]
    BY <1>4 DEF smdk2410_audio_open
  <2> QED
    BY <1>1, <1>3, <2>1, FilesOfOthers
<1>5. CASE ReleaseAtOnce(p)
  <2>1. UNCHANGED procVars /\ fd[p] # None /\ LastReference(p) /\ Forget(p)
    BY <1>5 DEF ReleaseAtOnce, OpenFile
  <2> QED
    BY <1>1, <1>3, <2>1, FilesOfOthers
<1>6. ASSUME UNCHANGED <<fd, mode>>,
             \A q \in Procs \ {p} :
               op'[q] = op[q] /\ pc'[q] = pc[q] /\ b'[q] = b[q] /\ left'[q] = left[q]
      PROVE  Others(p)
  BY <1>2, <1>6
<1>7. ASSUME UNCHANGED <<fd, mode>>,
             UNCHANGED op \/ \E o : op' = [op EXCEPT ![p] = o],
             \E to, f, n : Continue(p, to, f, n)
      PROVE  Others(p)
  <2>1. \A q \in Procs \ {p} : op'[q] = op[q]
    BY <1>1, <1>7 DEF TypeOK
  <2> QED
    BY <1>1, <1>6, <1>7, <2>1, ContinueOthers
<1>8. ASSUME UNCHANGED <<fd, mode>>, Return(p) PROVE Others(p)
  BY <1>1, <1>6, <1>8, ReturnOthers
<1>9. CASE ReleaseSync(p)
  <2>1. /\ UNCHANGED <<fd, mode>> /\ op' = [op EXCEPT ![p] = "release"] /\ SyncFrom(p)
    BY <1>9 DEF ReleaseSync
  <2> QED
    BY <1>7, <2>1 DEF SyncFrom
<1>10. ASSUME NEW signalled \in BOOLEAN, ReleaseEnd(p, signalled) PROVE Others(p)
  <2>1. fd[p] # None /\ LastReference(p) /\ Forget(p) /\ Return(p)
    BY <1>1, <1>10 DEF ReleaseEnd, At, LastInside, LastReference
  <2> QED
    BY <1>1, <1>2, <2>1, FilesOfOthers, ReturnOthers
<1>11. ASSUME NEW n \in Counts, WriteCall(p, n) \/ ReadCall(p, n) PROVE Others(p)
  <2>1. /\ UNCHANGED <<fd, mode>> /\ \E o : op' = [op EXCEPT ![p] = o]
        /\ \E to, f : Continue(p, to, f, n)
    BY <1>11 DEF WriteCall, ReadCall, Enter, fileVars
  <2> QED
    BY <1>7, <2>1
<1>12. CASE LoopDown(p)
  BY <1>1, <1>6, <1>12 DEF LoopDown, fileVars, TypeOK
<1>13. CASE LoopDownFails(p) \/ LoopFault(p)
  BY <1>8, <1>13 DEF LoopDownFails, LoopFault, fileVars
<1>14. CASE WriteCopy(p)
  <2>1. UNCHANGED <<fd, mode>> /\ (Return(p) \/ Loop(p, "out", left[p] - WriteChunk(p)))
    BY <1>14 DEF WriteCopy, fileVars
  <2> QED
    BY <1>7, <1>8, <2>1 DEF Loop
<1>15. CASE ReadCopy(p)
  <2>1. UNCHANGED <<fd, mode>> /\ (Return(p) \/ Loop(p, "in", left[p] - ReadChunk(p)))
    BY <1>15 DEF ReadCopy, fileVars
  <2> QED
    BY <1>7, <1>8, <2>1 DEF Loop
<1>16. CASE SyncCall(p)
  <2>1. UNCHANGED <<fd, mode>> /\ op' = [op EXCEPT ![p] = "sync"] /\ SyncFrom(p)
    BY <1>16 DEF SyncCall, Enter, fileVars
  <2> QED
    BY <1>7, <2>1 DEF SyncFrom
<1>17. CASE SyncDown(p)
  <2>1. UNCHANGED <<fd, mode>> /\ op' = op /\ \E to, f, n : Continue(p, to, f, n)
    BY <1>17 DEF SyncDown, fileVars
  <2> QED
    BY <1>7, <2>1
<1>18. ASSUME NEW signalled \in BOOLEAN, SyncEnd(p, signalled) PROVE Others(p)
  BY <1>8, <1>18 DEF SyncEnd, fileVars
<1>19. CASE Reset(p) \/ SetFragment(p) \/ PollNoMemory(p)
  BY <1>3, <1>19 DEF Reset, SetFragment, PollNoMemory, fileVars
<1>20. CASE PollCall(p)
  <2>1. /\ UNCHANGED <<fd, mode, b, left>> /\ op' = [op EXCEPT ![p] = "poll"]
        /\ pc' = [pc EXCEPT ![p] = "poll"]
    BY <1>20 DEF PollCall, Enter, fileVars
  <2> QED
    BY <1>1, <1>6, <2>1 DEF TypeOK
<1>21. CASE PollMask(p)
  <2>1. CASE Return(p)
    BY <1>8, <1>21, <2>1 DEF PollMask, fileVars
  <2>2. CASE pc' = [pc EXCEPT ![p] = "pollsleep"] /\ UNCHANGED <<op, b, left, queues>>
    BY <1>1, <1>6, <1>21, <2>2 DEF PollMask, fileVars, TypeOK
  <2> QED
    BY <1>21, <2>1, <2>2 DEF PollMask
<1>22. CASE PollTimeout(p)
  BY <1>8, <1>22 DEF PollTimeout, fileVars
<1>23. CASE CloseShared(p)
  <2>1. UNCHANGED procVars /\ mode' = mode /\ fd' = [fd EXCEPT ![p] = None]
    BY <1>23 DEF CloseShared
  <2> QED
    BY <1>1, <1>3, <2>1, FilesOfOthers
<1>24. ASSUME NEW q \in Procs, Inherit(p, q) PROVE Others(p)
  <2>1. UNCHANGED procVars /\ mode' = mode /\ op[q] = "none" /\ fd' = [fd EXCEPT ![q] = fd[p]]
    BY <1>1, <1>24 DEF Inherit, Places
  <2> QED
    BY <1>1, <1>3, <2>1, FilesOfOthers
<1> QED
  BY <1>4, <1>5, <1>9, <1>10, <1>11, <1>12, <1>13, <1>14, <1>15, <1>16, <1>17, <1>18, <1>19,
     <1>20, <1>21, <1>22, <1>23, <1>24
     DEF Acts, smdk2410_audio_release, smdk2410_audio_ioctl, smdk2410_audio_poll

\* Using of a thread whose handler and file stay.
LEMMA UsingKept ==
  ASSUME NEW p, op' = op, op[p] = "poll" => fd' = fd /\ mode' = mode
  PROVE  Using(p)' = Using(p)
BY DEF Using

\* Using of a thread outside every handler.
LEMMA UserUsing ==
  ASSUME Places, NEW p \in Procs, pc[p] = "user"
  PROVE  op[p] = "none" /\ Using(p) = {} /\ (op' = op => Using(p)' = {})
BY DEF Places, Using

\* What a step of a thread may be.
LEMMA Kinds ==
  ASSUME Known, stale = {}, NEW p \in Procs, Acts(p)
  PROVE  \/ Idle(p) \/ Ends(p) \/ Sleeps(p) \/ Enters(p)
         \/ \E S \in SUBSET Streams : Clears(p, S)
         \/ ReleaseSync(p)
         \/ LoopDown(p) \/ LoopFault(p) \/ WriteCopy(p) \/ ReadCopy(p) \/ SyncDown(p)
<1>1. TypeOK /\ Places
  BY DEF Known, Safe
<1>2. ASSUME NEW f \in Files, NEW m \in (SUBSET Streams) \ {{}}, smdk2410_audio_open(p, f, m)
      PROVE  Idle(p) \/ Clears(p, m)
  <2>1. pc[p] = "user" /\ UNCHANGED procVars
    BY <1>2 DEF smdk2410_audio_open
  <2>2. UNCHANGED <<op, pc, b, left>>
    BY <2>1 DEF procVars
  <2>3. CASE audio_clear_buf(m, p)
    BY <2>1, <2>2, <2>3 DEF Clears
  <2>4. CASE UNCHANGED <<iis, streamVars, unitVars, pathVars>>
    <3>1. Using(p)' = Using(p)
      BY <1>1, <2>1, <2>2, UserUsing
    <3> QED
      BY <2>2, <2>4, <3>1 DEF Idle, streamVars
  <2> QED
    BY <1>2, <2>3, <2>4 DEF smdk2410_audio_open
<1>3. CASE ReleaseAtOnce(p)
  <2>1. /\ UNCHANGED <<op, pc, b, left>> /\ pc[p] = "user"
        /\ audio_clear_buf(mode[fd[p]], p) /\ mode[fd[p]] \in SUBSET Streams
    BY <1>1, <1>3 DEF ReleaseAtOnce, OpenFile, procVars, TypeOK
  <2> QED
    BY <2>1 DEF Clears
<1>4. CASE Reset(p)
  <2>1. /\ UNCHANGED <<op, pc, b, left>> /\ pc[p] = "user"
        /\ audio_clear_buf(mode[fd[p]], p) /\ mode[fd[p]] \in SUBSET Streams
    BY <1>1, <1>4 DEF Reset, OpenFile, procVars, TypeOK
  <2> QED
    BY <2>1 DEF Clears
<1>5. ASSUME NEW signalled \in BOOLEAN, ReleaseEnd(p, signalled) PROVE Clears(p, {"out"})
  BY <1>5 DEF ReleaseEnd, Clears
<1>6. ASSUME UNCHANGED <<op, pc, b, left, buf_idx, data, sem, dma, unitVars, pathVars>>,
             \A s \in Streams : buffers[s] => buffers'[s], pc[p] = "user"
      PROVE  Idle(p)
  BY <1>1, <1>6, UserUsing DEF Idle
<1>7. CASE SetFragment(p) \/ PollNoMemory(p)
  <2>1. \A s \in Streams : buffers[s] => buffers'[s]
    BY <1>7 DEF SetFragment, PollNoMemory, audio_setup_buf
  <2> QED
    BY <1>6, <1>7, <2>1 DEF SetFragment, PollNoMemory, OpenFile, procVars
<1>8. CASE CloseShared(p)
  BY <1>6, <1>8 DEF CloseShared, OpenFile, procVars, streamVars
<1>9. ASSUME NEW q \in Procs, Inherit(p, q) PROVE Idle(p)
  BY <1>6, <1>9 DEF Inherit, OpenFile, procVars, streamVars
<1>10. CASE LoopDownFails(p)
  BY <1>10 DEF LoopDownFails, Ends
<1>11. ASSUME NEW signalled \in BOOLEAN, SyncEnd(p, signalled) PROVE Ends(p)
  BY <1>11 DEF SyncEnd, At, Ends
<1>12. CASE PollMask(p) \/ PollTimeout(p)
  <2>1. op[p] = "poll" /\ UNCHANGED <<fd, mode, streamVars, unitVars, pathVars>>
    BY <1>12 DEF PollMask, PollTimeout, At, fileVars
  <2>2. CASE Return(p)
    BY <2>1, <2>2 DEF Ends
  <2>3. CASE pc' = [pc EXCEPT ![p] = "pollsleep"] /\ UNCHANGED <<op, b, left, queues>>
    <3>1. Using(p)' = Using(p)
      BY <2>1, <2>3, UsingKept
    <3> QED
      BY <1>1, <2>1, <2>3, <3>1 DEF Sleeps, TypeOK
  <2> QED
    BY <1>12, <2>2, <2>3 DEF PollMask, PollTimeout
<1>13. ASSUME NEW n \in Counts, WriteCall(p, n) \/ ReadCall(p, n) PROVE Enters(p)
  BY <1>13 DEF Enters
<1>14. CASE SyncCall(p) \/ PollCall(p)
  BY <1>14 DEF Enters
<1>15. {"out"} \in SUBSET Streams
  BY DEF Streams
<1> QED
  BY <1>2, <1>3, <1>4, <1>5, <1>7, <1>8, <1>9, <1>10, <1>11, <1>12, <1>13, <1>14, <1>15
     DEF Acts, smdk2410_audio_release, smdk2410_audio_ioctl, smdk2410_audio_poll

-----------------------------------------------------------------------------
(* Who is inside a stream *)

SyncAndRelease(o, r) == (o = "release" /\ r = "sync") \/ (o = "sync" /\ r = "release")

\* Two threads inside a stream that has not been overlapped are a release and
\* a sync through another file.
Alone ==
  \A s \in Streams \ overlapped : \A p, q \in Procs :
    p # q /\ s \in Using(p) /\ s \in Using(q) => SyncAndRelease(op[p], op[q])

\* Where handlers are.
SyncPlaces ==
  \A p \in Procs :
    /\ pc[p] = "wait" => op[p] \in {"sync", "release"}
    /\ op[p] \in {"sync", "release"} => pc[p] \in {"down", "wait"}

LeftPositive == \A p \in Procs : op[p] \in {"write", "read"} => left[p] > 0

\* An input without buffers is as audio_setup_buf will leave it.
Pristine ==
  ~buffers["in"] => buf_idx["in"] = 0 /\ data["in"] = Empty /\ dma["in"] = <<>>

\* A write or read is at the current fragment of an orderly stream.
AtCurrent ==
  \A p \in Procs : op[p] \in {"write", "read"} /\ Orderly(LoopStream(p))
                     => b[p] = buf_idx[LoopStream(p)]

\* Who was inside stays alone, and who enters meets nobody, or as a release a
\* sync.
LEMMA AloneStep ==
  ASSUME Alone, NEW p \in Procs,
         \A q \in Procs \ {p} : \A s \in Streams : s \notin overlapped' /\ s \in Using(q)'
           => s \in Using(q) /\ op'[q] = op[q] /\ s \notin overlapped,
         \A s \in Streams : s \notin overlapped' /\ s \in Using(p)'
           => \/ s \in Using(p) /\ op'[p] = op[p]
              \/ \A q \in Procs \ {p} :
                   s \in Using(q) => op'[p] = "release" /\ op[q] = "sync"
  PROVE  Alone'
<1> SUFFICES ASSUME NEW s \in Streams, s \notin overlapped', NEW q \in Procs, NEW r \in Procs,
                    q # r, s \in Using(q)', s \in Using(r)'
             PROVE  SyncAndRelease(op'[q], op'[r])
  BY DEF Alone
<1>1. CASE q # p /\ r # p
  BY <1>1 DEF Alone
<1>2. ASSUME r # p, q = p PROVE SyncAndRelease(op'[q], op'[r])
  <2>1. s \in Using(r) /\ op'[r] = op[r] /\ s \notin overlapped
    BY <1>2
  <2>2. CASE s \in Using(p) /\ op'[p] = op[p]
    BY <1>2, <2>1, <2>2 DEF Alone
  <2>3. CASE op'[p] = "release" /\ op[r] = "sync"
    <3>1. op'[q] = "release" /\ op'[r] = "sync"
      BY <1>2, <2>1, <2>3
    <3> QED
      BY <3>1 DEF SyncAndRelease
  <2> QED
    BY <1>2, <2>1, <2>2, <2>3
<1>3. ASSUME q # p, r = p PROVE SyncAndRelease(op'[q], op'[r])
  <2>1. s \in Using(q) /\ op'[q] = op[q] /\ s \notin overlapped
    BY <1>3
  <2>2. CASE s \in Using(p) /\ op'[p] = op[p]
    BY <1>3, <2>1, <2>2 DEF Alone
  <2>3. CASE op'[p] = "release" /\ op[q] = "sync"
    BY <1>3, <2>1, <2>3 DEF SyncAndRelease
  <2> QED
    BY <1>3, <2>1, <2>2, <2>3
<1> QED
  BY <1>1, <1>2, <1>3

\* A cleared stream has no other thread inside unless one lost its buffers.
LEMMA ClearedNobody ==
  ASSUME NEW S \in SUBSET Streams, NEW p \in Procs, audio_clear_buf(S, p), stale' = {},
         NEW q \in Procs \ {p}, NEW s \in S
  PROVE  s \notin Using(q)
BY DEF audio_clear_buf

\* A release frees nobody's buffers and meets at most a sync.
LEMMA ReleaseMeets ==
  ASSUME Known, NEW p \in Procs, fd[p] # None, LastReference(p), NEW s \in mode[fd[p]],
         NEW q \in Procs \ {p}, s \in Using(q)
  PROVE  op[q] = "sync" /\ s = "out"
<1>1. TypeOK /\ FilesInv /\ InsideFile
  BY DEF Known, Safe
<1>2. fd[q] # None /\ (s \in mode[fd[q]] \/ (op[q] = "sync" /\ s = "out"))
  BY <1>1, UsingOwn
<1>3. fd[p] \in Files /\ fd[q] \in Files /\ fd[q] # fd[p]
  BY <1>1, <1>2 DEF TypeOK, LastReference
<1>4. mode[fd[p]] \intersect mode[fd[q]] = {}
  BY <1>1, <1>3 DEF FilesInv, OneFilePerStream
<1> QED
  BY <1>2, <1>4

\* So a release frees nobody's buffers when it clears the input.
LEMMA ReleaseFrees ==
  ASSUME Known, NEW p \in Procs, ReleaseSync(p)
  PROVE  stale' = {}
<1>1. /\ audio_clear_buf(mode[fd[p]] \ {"out"}, p)
      /\ fd[p] # None /\ LastReference(p)
  BY DEF ReleaseSync, OpenFile
<1>2. ASSUME NEW q \in stale' PROVE FALSE
  <2>1. q \in Procs \ {p} /\ Using(q) \intersect (mode[fd[p]] \ {"out"}) # {}
    BY <1>1, <1>2 DEF audio_clear_buf
  <2>2. PICK s \in mode[fd[p]] : s # "out" /\ s \in Using(q)
    BY <2>1
  <2> QED
    BY <1>1, <2>1, <2>2, ReleaseMeets
<1> QED
  BY <1>2

\* Alone survives every step of a thread that frees nobody's buffers.
LEMMA AloneActs ==
  ASSUME Known, Alone, stale = {}, NEW p \in Procs, Acts(p), stale' = {}
  PROVE  Alone'
<1>1. TypeOK /\ Places /\ Others(p)
  BY OthersStay DEF Known, Safe
<1>2. ASSUME \A s \in Streams : s \notin overlapped' => s \notin overlapped,
             Using(p)' = {} \/ (Using(p)' = Using(p) /\ op'[p] = op[p])
      PROVE  Alone'
  BY <1>1, <1>2, AloneStep DEF Others
<1>3. CASE Idle(p)
  BY <1>2, <1>3 DEF Idle, pathVars
<1>4. CASE Ends(p)
  <2>1. Using(p)' = {}
    BY <1>1, <1>4, ReturnOthers, NoneUsing DEF Ends
  <2> QED
    BY <1>2, <1>4, <2>1 DEF Ends, pathVars
<1>5. CASE Sleeps(p)
  BY <1>2, <1>5 DEF Sleeps, pathVars
<1>6. ASSUME NEW o, NEW S, Enter(p, o, S), Using(p)' \subseteq S PROVE Alone'
  <2>1. overlapped' = overlapped \union {s \in S : \E q \in Procs : s \in Using(q)}
    BY <1>6 DEF Enter
  <2>2. ASSUME NEW s \in Streams, s \notin overlapped', s \in Using(p)'
        PROVE  \A q \in Procs \ {p} : s \notin Using(q)
    BY <1>6, <2>1, <2>2
  <2> QED
    BY <1>1, <2>1, <2>2, AloneStep DEF Others
<1>7. CASE Enters(p)
  <2>1. ASSUME NEW n \in Counts, WriteCall(p, n) PROVE Alone'
    <3>1. Enter(p, "write", {"out"}) /\ op'[p] = "write"
      BY <1>1, <2>1 DEF WriteCall, Enter, TypeOK
    <3>2. Using(p)' \subseteq {"out"}
      BY <3>1 DEF Using
    <3> QED
      BY <1>6, <3>1, <3>2
  <2>2. ASSUME NEW n \in Counts, ReadCall(p, n) PROVE Alone'
    <3>1. Enter(p, "read", {"in"}) /\ op'[p] = "read"
      BY <1>1, <2>2 DEF ReadCall, Enter, TypeOK
    <3>2. Using(p)' \subseteq {"in"}
      BY <3>1 DEF Using
    <3> QED
      BY <1>6, <3>1, <3>2
  <2>3. CASE SyncCall(p)
    <3>1. Enter(p, "sync", {"out"}) /\ op'[p] = "sync"
      BY <1>1, <2>3 DEF SyncCall, Enter, TypeOK
    <3>2. Using(p)' \subseteq {"out"}
      BY <3>1 DEF Using
    <3> QED
      BY <1>6, <3>1, <3>2
  <2>4. CASE PollCall(p)
    <3>1. Enter(p, "poll", mode[fd[p]]) /\ op'[p] = "poll" /\ mode' = mode /\ fd' = fd
      BY <1>1, <2>4 DEF PollCall, Enter, TypeOK, fileVars
    <3>2. Using(p)' \subseteq mode[fd[p]]
      BY <3>1 DEF Using
    <3> QED
      BY <1>6, <3>1, <3>2
  <2> QED
    BY <1>7, <2>1, <2>2, <2>3, <2>4 DEF Enters
<1>8. ASSUME NEW S \in SUBSET Streams, audio_clear_buf(S, p), Using(p)' = {} PROVE Alone'
  <2>1. ASSUME NEW q \in Procs \ {p}, NEW s \in Streams, s \notin overlapped', s \in Using(q)'
        PROVE  s \in Using(q) /\ op'[q] = op[q] /\ s \notin overlapped
    <3>1. s \in Using(q) /\ op'[q] = op[q]
      BY <1>1, <2>1 DEF Others
    <3>2. s \notin S
      BY <1>8, <3>1, ClearedNobody
    <3> QED
      BY <1>8, <2>1, <3>1, <3>2 DEF audio_clear_buf
  <2> QED
    BY <1>8, <2>1, AloneStep
<1>9. ASSUME NEW S \in SUBSET Streams, Clears(p, S) PROVE Alone'
  <2>1. Using(p)' = {}
    <3>1. CASE UNCHANGED <<op, pc, b, left>> /\ pc[p] = "user"
      BY <1>1, <3>1, UserUsing
    <3>2. CASE Return(p)
      BY <1>1, <3>2, ReturnOthers, NoneUsing
    <3> QED
      BY <1>9, <3>1, <3>2 DEF Clears
  <2> QED
    BY <1>8, <1>9, <2>1 DEF Clears
<1>10. CASE ReleaseSync(p)
  <2> DEFINE S == mode[fd[p]] \ {"out"}
  <2>1. /\ audio_clear_buf(S, p) /\ S \in SUBSET Streams /\ op'[p] = "release"
        /\ fd[p] # None /\ LastReference(p) /\ "out" \in mode[fd[p]]
    BY <1>1, <1>10 DEF ReleaseSync, OpenFile, TypeOK
  <2>2. ASSUME NEW q \in Procs \ {p}, NEW s \in Streams, s \notin overlapped', s \in Using(q)'
        PROVE  s \in Using(q) /\ op'[q] = op[q] /\ s \notin overlapped
    <3>1. s \in Using(q) /\ op'[q] = op[q]
      BY <1>1, <2>2 DEF Others
    <3>2. s \notin S
      BY <2>1, <3>1, ClearedNobody
    <3> QED
      BY <2>1, <2>2, <3>1, <3>2 DEF audio_clear_buf
  <2>3. ASSUME NEW s \in Using(p)', NEW q \in Procs \ {p}, s \in Using(q)
        PROVE  op'[p] = "release" /\ op[q] = "sync"
    <3>1. s = "out"
      BY <2>1, <2>3 DEF Using
    <3> QED
      BY <2>1, <2>3, <3>1, ReleaseMeets
  <2> QED
    BY <2>2, <2>3, AloneStep
<1>11. CASE LoopDown(p)
  <2>1. op' = op /\ overlapped' = overlapped /\ op[p] # "poll"
    BY <1>11 DEF LoopDown, pathVars
  <2> QED
    BY <1>2, <2>1, UsingKept
<1>12. ASSUME Return(p), overlapped' = overlapped PROVE Alone'
  <2>1. Using(p)' = {}
    BY <1>1, <1>12, ReturnOthers, NoneUsing
  <2> QED
    BY <1>2, <1>12, <2>1
<1>13. CASE LoopFault(p)
  BY <1>12, <1>13 DEF LoopFault, pathVars
<1>14. ASSUME op' = op, op[p] # "poll", overlapped' = overlapped PROVE Alone'
  BY <1>2, <1>14, UsingKept
<1>15. CASE WriteCopy(p)
  <2>1. overlapped' = overlapped /\ op[p] = "write"
    BY <1>15 DEF WriteCopy, At
  <2>2. Return(p) \/ op' = op
    BY <1>15 DEF WriteCopy, Loop
  <2> QED
    BY <1>12, <1>14, <2>1, <2>2
<1>16. CASE ReadCopy(p)
  <2>1. overlapped' = overlapped /\ op[p] = "read"
    BY <1>16 DEF ReadCopy, At
  <2>2. Return(p) \/ op' = op
    BY <1>16 DEF ReadCopy, Loop
  <2> QED
    BY <1>12, <1>14, <2>1, <2>2
<1>17. CASE SyncDown(p)
  BY <1>14, <1>17 DEF SyncDown
<1> QED
  BY <1>3, <1>4, <1>5, <1>7, <1>9, <1>10, <1>11, <1>13, <1>15, <1>16, <1>17, Kinds

\* The DMA moves nobody into a handler or out of one.
LEMMA CallbackUsing ==
  ASSUME TypeOK, audio_dmaout_done_callback \/ audio_dmain_done_callback
  PROVE  /\ op' = op /\ b' = b /\ left' = left /\ fd' = fd /\ mode' = mode
         /\ buffers' = buffers /\ buf_idx' = buf_idx
         /\ overlapped' = overlapped /\ leaked' = leaked /\ stale' = stale
         /\ \A q \in Procs : Using(q)' = Using(q)
         /\ \A q \in Procs : pc'[q] = pc[q] \/ (pc[q] = "pollsleep" /\ pc'[q] = "poll")
<1>1. /\ op' = op /\ b' = b /\ left' = left /\ fd' = fd /\ mode' = mode
      /\ buffers' = buffers /\ buf_idx' = buf_idx
      /\ overlapped' = overlapped /\ leaked' = leaked /\ stale' = stale
  BY DEF audio_dmaout_done_callback, audio_dmain_done_callback, fileVars, pathVars
<1>2. \A q \in Procs : pc'[q] = pc[q] \/ (pc[q] = "pollsleep" /\ pc'[q] = "poll")
  BY DEF audio_dmaout_done_callback, audio_dmain_done_callback, WakePollers
<1> QED
  BY <1>1, <1>2, UsingStays

\* What a step of a thread leaves in LoopStream, when it is still in the loop.
LEMMA LoopStreamStays ==
  ASSUME NEW q, op'[q] = op[q]
  PROVE  LoopStream(q)' = LoopStream(q)
BY DEF LoopStream

\* A write or read is inside its stream, and so is a sync or release.
LEMMA LoopUsing ==
  /\ \A p \in Procs : op[p] \in {"write", "read"} => LoopStream(p) \in Using(p)
  /\ \A p \in Procs : op[p] \in {"sync", "release", "write"} => "out" \in Using(p)
  /\ \A p \in Procs : op[p] = "read" => "in" \in Using(p)
BY DEF LoopStream, Using

\* Positions stay those of the streams when nobody else is at the current
\* fragment of one that changes.
LEMMA AtCurrentStep ==
  ASSUME AtCurrent, NEW p \in Procs, Others(p),
         \A s \in Streams : Orderly(s)' /\ (\E q \in Procs \ {p} : s \in Using(q))
           => Orderly(s) /\ (buf_idx'[s] = buf_idx[s]
                             \/ \A q \in Procs \ {p} : op[q] \notin {"write", "read"}
                                                        \/ LoopStream(q) # s),
         op'[p] \in {"write", "read"} /\ Orderly(LoopStream(p))'
           => b'[p] = buf_idx'[LoopStream(p)']
  PROVE  AtCurrent'
<1> SUFFICES ASSUME NEW q \in Procs, q # p, op'[q] \in {"write", "read"},
                    Orderly(LoopStream(q))'
             PROVE  b'[q] = buf_idx'[LoopStream(q)']
  BY DEF AtCurrent
<1>1. op'[q] = op[q] /\ b'[q] = b[q] /\ LoopStream(q)' = LoopStream(q)
  BY LoopStreamStays DEF Others
<1>2. LoopStream(q) \in Streams /\ LoopStream(q) \in Using(q)
  BY <1>1, LoopUsing DEF LoopStream, Streams
<1> DEFINE s == LoopStream(q)
<1>3. Orderly(s)'
  BY <1>1 DEF Orderly
<1>4. Orderly(s) /\ buf_idx'[s] = buf_idx[s]
  BY <1>1, <1>2, <1>3
<1> QED
  BY <1>1, <1>4 DEF AtCurrent

\* Nobody else is inside with a write or a read, and only the other kind with a
\* sync or a release.
LEMMA AloneWith ==
  ASSUME Alone, NEW p \in Procs, NEW q \in Procs, q # p
  PROVE  /\ op[p] = "write" /\ "out" \notin overlapped => "out" \notin Using(q)
         /\ op[p] = "read" /\ "in" \notin overlapped => "in" \notin Using(q)
         /\ op[p] \in {"sync", "release"} /\ "out" \notin overlapped /\ "out" \in Using(q)
              => SyncAndRelease(op[p], op[q])
<1>1. "out" \in Streams /\ "in" \in Streams
  BY DEF Streams
<1>2. ASSUME NEW s \in Streams, s \notin overlapped, s \in Using(p), s \in Using(q)
      PROVE  SyncAndRelease(op[p], op[q])
  BY <1>2 DEF Alone
<1> QED
  BY <1>1, <1>2, LoopUsing DEF SyncAndRelease

\* What a step leaves of the input, and of the output.
InSame ==
  /\ buf_idx'["in"] = buf_idx["in"] /\ data'["in"] = data["in"] /\ dma'["in"] = dma["in"]
  /\ delivered' = delivered /\ captured' = captured
  /\ buffers["in"] => buffers'["in"]
  /\ Orderly("in")' => Orderly("in")

OutSame ==
  /\ buf_idx'["out"] = buf_idx["out"] /\ data'["out"] = data["out"] /\ dma'["out"] = dma["out"]
  /\ played' = played /\ accepted' = accepted
  /\ Orderly("out")' => Orderly("out")

\* What clearing the streams S leaves of them, and of the others.
LEMMA Cleared ==
  ASSUME TypeOK, NEW S \in SUBSET Streams, NEW p \in Procs, audio_clear_buf(S, p)
  PROVE  /\ \A s \in S : /\ buf_idx'[s] = 0 /\ data'[s] = Empty /\ dma'[s] = <<>>
                         /\ sem'[s] = Free
         /\ "in" \in S => captured' = 0 /\ delivered' = 0
         /\ "out" \in S => accepted' = 0 /\ played' = 0
         /\ "in" \notin S => InSame
         /\ "out" \notin S => OutSame
         /\ \A s \in Streams \ S : /\ sem'[s] = sem[s] /\ dma'[s] = dma[s]
                                   /\ (s \in leaked => s \in leaked')
<1>1. S \subseteq Streams /\ "in" \in Streams /\ "out" \in Streams
  BY DEF Streams
<1>2. \A s \in S : /\ buf_idx'[s] = 0 /\ data'[s] = Empty /\ dma'[s] = <<>> /\ sem'[s] = Free
  BY <1>1 DEF audio_clear_buf
<1>3. \A s \in Streams \ S :
        /\ buf_idx'[s] = buf_idx[s] /\ data'[s] = data[s] /\ dma'[s] = dma[s]
        /\ sem'[s] = sem[s] /\ (buffers[s] => buffers'[s])
  BY DEF audio_clear_buf
<1>4. \A s \in Streams \ S : /\ (s \in overlapped' <=> s \in overlapped)
                             /\ (s \in leaked' <=> s \in leaked)
  BY DEF audio_clear_buf
<1>5. \A s \in Streams \ S : Orderly(s)' => Orderly(s)
  BY <1>4 DEF Orderly
<1>6. /\ "in" \in S => captured' = 0 /\ delivered' = 0
      /\ "out" \in S => accepted' = 0 /\ played' = 0
      /\ "in" \notin S => captured' = captured /\ delivered' = delivered
      /\ "out" \notin S => accepted' = accepted /\ played' = played
  BY DEF audio_clear_buf
<1> QED
  BY <1>1, <1>2, <1>3, <1>4, <1>5, <1>6 DEF InSame, OutSame

\* Steps that leave the input alone.
LEMMA InQuiet ==
  ASSUME TypeOK, NEW p \in Procs,
         \/ Idle(p) \/ Ends(p) \/ Sleeps(p)
         \/ \E n \in Counts : WriteCall(p, n)
         \/ SyncCall(p) \/ PollCall(p) \/ LoopDown(p) \/ LoopFault(p) \/ WriteCopy(p)
         \/ SyncDown(p)
  PROVE  InSame
<1>1. "in" \in Streams /\ "out" \in Streams /\ "in" # "out"
  BY DEF Streams
<1>2. ASSUME buf_idx' = buf_idx, data' = data, dma' = dma,
             delivered' = delivered, captured' = captured,
             \A s \in Streams : buffers[s] => buffers'[s],
             overlapped \subseteq overlapped', leaked' = leaked
      PROVE  InSame
  BY <1>1, <1>2 DEF InSame, Orderly
<1>3. CASE Idle(p)
  BY <1>2, <1>3 DEF Idle, unitVars, pathVars
<1>4. CASE Ends(p)
  BY <1>2, <1>4 DEF Ends, streamVars, unitVars, pathVars
<1>5. CASE Sleeps(p)
  BY <1>2, <1>5 DEF Sleeps, streamVars, unitVars, pathVars
<1>6. ASSUME NEW n \in Counts, WriteCall(p, n) PROVE InSame
  BY <1>2, <1>6 DEF WriteCall, Enter, audio_setup_buf, unitVars
<1>7. CASE SyncCall(p)
  BY <1>2, <1>7 DEF SyncCall, Enter, streamVars, unitVars
<1>8. CASE PollCall(p)
  BY <1>2, <1>8 DEF PollCall, Enter, audio_setup_buf, unitVars
<1>9. CASE LoopDown(p)
  BY <1>2, <1>9 DEF LoopDown, unitVars, pathVars
<1>10. CASE LoopFault(p)
  BY <1>2, <1>10 DEF LoopFault, unitVars, pathVars
<1>11. ASSUME \E x : buf_idx' = [buf_idx EXCEPT !["out"] = x], 
              \E x : data' = [data EXCEPT !["out"] = x],
              \E x : dma' = [dma EXCEPT !["out"] = x],
              delivered' = delivered, captured' = captured, buffers' = buffers,
              overlapped' = overlapped, leaked \subseteq leaked'
       PROVE  InSame
  <2>1. buf_idx'["in"] = buf_idx["in"] /\ data'["in"] = data["in"] /\ dma'["in"] = dma["in"]
    BY <1>1, <1>11 DEF TypeOK
  <2> QED
    BY <1>11, <2>1 DEF InSame, Orderly
<1>12. buf_idx = [buf_idx EXCEPT !["out"] = buf_idx["out"]]
       /\ dma = [dma EXCEPT !["out"] = dma["out"]]
  BY DEF TypeOK
<1>13. CASE WriteCopy(p)
  <2>1. \E x : buf_idx' = [buf_idx EXCEPT !["out"] = x]
    BY <1>12, <1>13 DEF WriteCopy, NEXT_BUF
  <2>2. \E x : data' = [data EXCEPT !["out"] = x]
    BY <1>13 DEF WriteCopy
  <2>3. \E x : dma' = [dma EXCEPT !["out"] = x]
    BY <1>12, <1>13 DEF WriteCopy, Enqueue, EnqueueFails
  <2>4. delivered' = delivered /\ captured' = captured /\ buffers' = buffers
        /\ overlapped' = overlapped /\ leaked \subseteq leaked'
    BY <1>13 DEF WriteCopy, Enqueue, EnqueueFails
  <2> QED
    BY <1>11, <2>1, <2>2, <2>3, <2>4
<1>14. CASE SyncDown(p)
  <2>1. \E x : buf_idx' = [buf_idx EXCEPT !["out"] = x]
    BY <1>14 DEF SyncDown, NEXT_BUF
  <2>2. \E x : data' = [data EXCEPT !["out"] = x]
    BY <1>14 DEF SyncDown
  <2>3. \E x : dma' = [dma EXCEPT !["out"] = x]
    BY <1>12, <1>14 DEF SyncDown, Enqueue, EnqueueFails
  <2>4. delivered' = delivered /\ captured' = captured /\ buffers' = buffers
        /\ overlapped' = overlapped /\ leaked \subseteq leaked'
    BY <1>14 DEF SyncDown, Enqueue, EnqueueFails, unitVars
  <2> QED
    BY <1>11, <2>1, <2>2, <2>3, <2>4
<1> QED
  BY <1>3, <1>4, <1>5, <1>6, <1>7, <1>8, <1>9, <1>10, <1>13, <1>14

\* Steps that leave the output alone.
LEMMA OutQuiet ==
  ASSUME TypeOK, NEW p \in Procs,
         \/ Idle(p) \/ Ends(p) \/ Sleeps(p) \/ Enters(p)
         \/ LoopDown(p) \/ LoopFault(p) \/ ReadCopy(p) \/ ReleaseSync(p)
  PROVE  OutSame
<1>1. "in" \in Streams /\ "out" \in Streams /\ "in" # "out"
  BY DEF Streams
<1>2. ASSUME buf_idx' = buf_idx, data' = data, dma'["out"] = dma["out"],
             played' = played, accepted' = accepted,
             overlapped \subseteq overlapped', leaked' = leaked
      PROVE  OutSame
  BY <1>1, <1>2 DEF OutSame, Orderly
<1>3. CASE Idle(p)
  BY <1>2, <1>3 DEF Idle, unitVars, pathVars
<1>4. CASE Ends(p)
  BY <1>2, <1>4 DEF Ends, streamVars, unitVars, pathVars
<1>5. CASE Sleeps(p)
  BY <1>2, <1>5 DEF Sleeps, streamVars, unitVars, pathVars
<1>6. ASSUME NEW n \in Counts, WriteCall(p, n) PROVE OutSame
  BY <1>2, <1>6 DEF WriteCall, Enter, unitVars
<1>7. CASE SyncCall(p)
  BY <1>2, <1>7 DEF SyncCall, Enter, streamVars, unitVars
<1>8. CASE PollCall(p)
  BY <1>2, <1>8 DEF PollCall, Enter, unitVars
<1>9. ASSUME NEW n \in Counts, ReadCall(p, n) PROVE OutSame
  <2>1. dma'["out"] = dma["out"] /\ leaked \subseteq leaked'
    <3>1. CASE EnqueueAll
      BY <3>1, FirstQueue
    <3> QED
      BY <1>9, <3>1 DEF ReadCall
  <2>2. /\ buf_idx' = buf_idx /\ data' = data /\ played' = played /\ accepted' = accepted
        /\ overlapped \subseteq overlapped'
    BY <1>9 DEF ReadCall, Enter, unitVars
  <2> QED
    BY <1>1, <2>1, <2>2 DEF OutSame, Orderly
<1>10. CASE LoopDown(p)
  BY <1>2, <1>10 DEF LoopDown, unitVars, pathVars
<1>11. CASE LoopFault(p)
  BY <1>2, <1>11 DEF LoopFault, unitVars, pathVars
<1>12. CASE ReadCopy(p)
  <2>1. buf_idx'["out"] = buf_idx["out"] /\ data'["out"] = data["out"]
        /\ dma'["out"] = dma["out"]
    BY <1>1, <1>12 DEF ReadCopy, NEXT_BUF, Enqueue, EnqueueFails, TypeOK
  <2>2. played' = played /\ accepted' = accepted /\ overlapped' = overlapped
        /\ leaked \subseteq leaked'
    BY <1>12 DEF ReadCopy, Enqueue, EnqueueFails
  <2> QED
    BY <2>1, <2>2 DEF OutSame, Orderly
<1>13. CASE ReleaseSync(p)
  <2>1. audio_clear_buf(mode[fd[p]] \ {"out"}, p) /\ mode[fd[p]] \ {"out"} \in SUBSET Streams
    BY <1>13 DEF ReleaseSync, OpenFile, TypeOK
  <2> QED
    BY <2>1, Cleared
<1> QED
  BY <1>3, <1>4, <1>5, <1>6, <1>7, <1>8, <1>9, <1>10, <1>11, <1>12, <1>13 DEF Enters

-----------------------------------------------------------------------------
(* Where handlers are, and what an input without buffers holds *)

\* A write or read that goes round its loop has something left to do.
LEMMA GoesRound ==
  ASSUME TypeOK, NEW p \in Procs, NEW s \in Streams, NEW n, Return(p) \/ Loop(p, s, n)
  PROVE  \/ op'[p] = "none" /\ pc'[p] = "user"
         \/ op' = op /\ pc'[p] = "down" /\ left'[p] = n /\ n > 0 /\ b'[p] = buf_idx'[s]
<1>1. CASE Return(p)
  BY <1>1, ReturnOthers
<1>2. CASE n > 0 /\ Continue(p, "down", buf_idx'[s], n) /\ UNCHANGED op
  BY <1>2, ContinueOthers
<1> QED
  BY <1>1, <1>2, ReturnOthers DEF Loop

\* Where the thread that enters a handler is then.
LEMMA Entered ==
  ASSUME Known, NEW p \in Procs, Enters(p)
  PROVE  /\ op[p] = "none"
         /\ \/ \E n \in Counts : /\ WriteCall(p, n) /\ op'[p] = "write" /\ pc'[p] = "down"
                                 /\ left'[p] = n /\ b'[p] = buf_idx["out"]
            \/ \E n \in Counts : /\ ReadCall(p, n) /\ op'[p] = "read" /\ pc'[p] = "down"
                                 /\ left'[p] = n /\ b'[p] = buf_idx["in"]
            \/ /\ SyncCall(p) /\ op'[p] = "sync"
               /\ \/ pc'[p] = "down" /\ b'[p] = buf_idx["out"]
                  \/ /\ pc'[p] = "wait" /\ b'[p] = Prev(buf_idx["out"])
                     /\ data["out"][buf_idx["out"]] = <<>>
            \/ PollCall(p) /\ op'[p] = "poll" /\ pc'[p] = "poll"
<1>1. TypeOK /\ Places
  BY DEF Known, Safe
<1>2. pc[p] = "user"
  BY DEF Enters, WriteCall, ReadCall, SyncCall, PollCall, Enter, OpenFile
<1>3. op[p] = "none"
  BY <1>1, <1>2 DEF Places
<1>4. ASSUME NEW n \in Counts, WriteCall(p, n)
      PROVE  op'[p] = "write" /\ pc'[p] = "down" /\ left'[p] = n /\ b'[p] = buf_idx["out"]
  BY <1>1, <1>4, ContinueOthers DEF WriteCall, Enter, TypeOK
<1>5. ASSUME NEW n \in Counts, ReadCall(p, n)
      PROVE  op'[p] = "read" /\ pc'[p] = "down" /\ left'[p] = n /\ b'[p] = buf_idx["in"]
  BY <1>1, <1>5, ContinueOthers DEF ReadCall, Enter, TypeOK
<1>6. ASSUME SyncCall(p)
      PROVE  /\ op'[p] = "sync"
             /\ \/ pc'[p] = "down" /\ b'[p] = buf_idx["out"]
                \/ /\ pc'[p] = "wait" /\ b'[p] = Prev(buf_idx["out"])
                   /\ data["out"][buf_idx["out"]] = <<>>
  BY <1>1, <1>6, ContinueOthers DEF SyncCall, SyncFrom, Enter, TypeOK
<1>7. ASSUME PollCall(p) PROVE op'[p] = "poll" /\ pc'[p] = "poll"
  BY <1>1, <1>7 DEF PollCall, Enter, TypeOK
<1> QED
  BY <1>3, <1>4, <1>5, <1>6, <1>7 DEF Enters

\* Where a release is once it has begun.
LEMMA ReleaseBegun ==
  ASSUME Known, NEW p \in Procs, ReleaseSync(p)
  PROVE  /\ op[p] = "none" /\ op'[p] = "release"
         /\ \/ pc'[p] = "down" /\ b'[p] = buf_idx["out"]
            \/ /\ pc'[p] = "wait" /\ b'[p] = Prev(buf_idx["out"])
               /\ data["out"][buf_idx["out"]] = <<>>
<1>1. TypeOK /\ Places
  BY DEF Known, Safe
<1>2. pc[p] = "user" /\ op' = [op EXCEPT ![p] = "release"] /\ SyncFrom(p)
  BY DEF ReleaseSync, OpenFile
<1> QED
  BY <1>1, <1>2, ContinueOthers DEF SyncFrom, Places, TypeOK

\* Where a sync is once it has its semaphore.
LEMMA SyncedTo ==
  ASSUME Known, NEW p \in Procs, SyncDown(p)
  PROVE  /\ op[p] \in {"sync", "release"} /\ op' = op
         /\ pc[p] = "down" /\ pc'[p] = "wait" /\ b'[p] = buf_idx["out"]
         /\ buf_idx'["out"] = (buf_idx["out"] + 1) % NbFrags
<1>1. TypeOK /\ buf_idx["out"] \in Frags
  BY DEF Known, Safe, TypeOK, Streams
<1>2. /\ op[p] \in {"sync", "release"} /\ op' = op /\ pc[p] = "down"
      /\ NEXT_BUF("out") /\ Continue(p, "wait", Prev(buf_idx'["out"]), 0)
  BY DEF SyncDown
<1>3. buf_idx'["out"] = (buf_idx["out"] + 1) % NbFrags
  BY <1>1, <1>2 DEF NEXT_BUF, TypeOK, Streams
<1>4. Prev((buf_idx["out"] + 1) % NbFrags) = buf_idx["out"]
  BY <1>1, SlotFacts
<1> QED
  BY <1>1, <1>2, <1>3, <1>4, ContinueOthers

\* Handlers stay at their places.
LEMMA PlacesStep ==
  ASSUME Known, stale = {}, SyncPlaces, LeftPositive, NEW p \in Procs, Acts(p)
  PROVE  SyncPlaces' /\ LeftPositive'
<1>1. TypeOK /\ Places /\ Others(p) /\ "in" \in Streams /\ "out" \in Streams
  BY OthersStay DEF Known, Safe, Streams
<1>2. ASSUME pc'[p] = "wait" => op'[p] \in {"sync", "release"},
             op'[p] \in {"sync", "release"} => pc'[p] \in {"down", "wait"},
             op'[p] \in {"write", "read"} => left'[p] > 0
      PROVE  SyncPlaces' /\ LeftPositive'
  BY <1>1, <1>2 DEF SyncPlaces, LeftPositive, Others
<1>3. CASE Idle(p)
  BY <1>2, <1>3 DEF Idle, SyncPlaces, LeftPositive
<1>4. ASSUME Return(p) PROVE SyncPlaces' /\ LeftPositive'
  BY <1>1, <1>2, <1>4, ReturnOthers
<1>5. CASE Ends(p)
  BY <1>4, <1>5 DEF Ends
<1>6. CASE Sleeps(p)
  BY <1>2, <1>6 DEF Sleeps
<1>7. CASE Enters(p)
  <2>1. \A n \in Counts : n > 0
    BY SoundAssumption
  <2> QED
    BY <1>2, <1>7, <2>1, Entered
<1>8. ASSUME NEW S \in SUBSET Streams, Clears(p, S) PROVE SyncPlaces' /\ LeftPositive'
  <2>1. CASE UNCHANGED <<op, pc, b, left>>
    BY <1>2, <2>1 DEF SyncPlaces, LeftPositive
  <2> QED
    BY <1>4, <1>8, <2>1 DEF Clears
<1>9. CASE ReleaseSync(p)
  BY <1>2, <1>9, ReleaseBegun
<1>10. CASE LoopDown(p)
  <2>1. op[p] \in {"write", "read"} /\ op' = op /\ pc'[p] = "copy" /\ left' = left
    BY <1>1, <1>10 DEF LoopDown, TypeOK
  <2> QED
    BY <1>2, <2>1 DEF LeftPositive
<1>11. CASE LoopFault(p)
  BY <1>4, <1>11 DEF LoopFault
<1>12. ASSUME NEW s \in Streams, NEW n, Return(p) \/ Loop(p, s, n), op[p] \in {"write", "read"}
       PROVE  SyncPlaces' /\ LeftPositive'
  BY <1>1, <1>2, <1>12, GoesRound
<1>13. CASE WriteCopy(p)
  <2>1. op[p] = "write" /\ (Return(p) \/ Loop(p, "out", left[p] - WriteChunk(p)))
    BY <1>13 DEF WriteCopy, At
  <2> QED
    BY <1>1, <1>12, <2>1
<1>14. CASE ReadCopy(p)
  <2>1. op[p] = "read" /\ (Return(p) \/ Loop(p, "in", left[p] - ReadChunk(p)))
    BY <1>14 DEF ReadCopy, At
  <2> QED
    BY <1>1, <1>12, <2>1
<1>15. CASE SyncDown(p)
  BY <1>2, <1>15, SyncedTo
<1> QED
  BY <1>3, <1>5, <1>6, <1>7, <1>8, <1>9, <1>10, <1>11, <1>13, <1>14, <1>15, Kinds

\* An input has data and a queue only with its buffers.
LEMMA PristineStep ==
  ASSUME Known, stale = {}, Pristine, NEW p \in Procs, Acts(p)
  PROVE  Pristine'
<1>1. TypeOK /\ Places /\ Buffered
  BY DEF Known, Safe
<1>2. CASE InSame
  BY <1>2 DEF Pristine, InSame
<1>3. CASE buffers'["in"]
  BY <1>3 DEF Pristine
<1>4. ASSUME NEW n \in Counts, ReadCall(p, n) PROVE Pristine'
  BY <1>3, <1>4 DEF ReadCall, audio_setup_buf, Streams
<1>5. ASSUME NEW S \in SUBSET Streams, audio_clear_buf(S, p) PROVE Pristine'
  <2>1. CASE "in" \in S
    BY <1>1, <1>5, <2>1, Cleared DEF Pristine
  <2>2. CASE "in" \notin S
    BY <1>1, <1>2, <1>5, <2>2, Cleared
  <2> QED
    BY <2>1, <2>2
<1>6. CASE ReleaseSync(p)
  <2>1. audio_clear_buf(mode[fd[p]] \ {"out"}, p) /\ mode[fd[p]] \ {"out"} \in SUBSET Streams
    BY <1>1, <1>6 DEF ReleaseSync, OpenFile, TypeOK
  <2> QED
    BY <1>5, <2>1
<1>7. CASE ReadCopy(p)
  <2>1. op[p] = "read" /\ buffers' = buffers
    BY <1>7 DEF ReadCopy, At
  <2>2. buffers["in"]
    BY <1>1, <2>1 DEF Buffered, LoopStream
  <2> QED
    BY <1>3, <2>1, <2>2
<1>8. CASE Enters(p)
  BY <1>1, <1>2, <1>4, <1>8, InQuiet DEF Enters
<1>9. ASSUME NEW S \in SUBSET Streams, Clears(p, S) PROVE Pristine'
  BY <1>5, <1>9 DEF Clears
<1> QED
  BY <1>1, <1>2, <1>6, <1>7, <1>8, <1>9, InQuiet, Kinds

\* A write or read stays at the current fragment.
LEMMA AtCurrentKept ==
  ASSUME Known, stale = {}, stale' = {}, Alone, AtCurrent, NEW p \in Procs, Acts(p)
  PROVE  AtCurrent'
<1>1. TypeOK /\ Places /\ Others(p) /\ "in" \in Streams /\ "out" \in Streams
      /\ Streams = {"in", "out"}
  BY OthersStay DEF Known, Safe, Streams
<1>2. \A s \in Streams : (Orderly(s) => s \notin overlapped) /\ (Orderly(s)' => s \notin overlapped')
  BY DEF Orderly
<1>3. ASSUME InSame, OutSame,
             op'[p] \in {"write", "read"} /\ Orderly(LoopStream(p))'
               => b'[p] = buf_idx'[LoopStream(p)']
      PROVE  AtCurrent'
  BY <1>1, <1>3, AtCurrentStep DEF InSame, OutSame
<1>4. ASSUME InSame, OutSame, op'[p] = op[p], b'[p] = b[p] PROVE AtCurrent'
  <2> SUFFICES ASSUME op'[p] \in {"write", "read"}, Orderly(LoopStream(p))'
               PROVE  b'[p] = buf_idx'[LoopStream(p)']
    BY <1>3, <1>4
  <2>1. LoopStream(p)' = LoopStream(p) /\ LoopStream(p) \in Streams
    BY <1>1, <1>4, LoopStreamStays DEF LoopStream
  <2>2. Orderly(LoopStream(p)) /\ buf_idx'[LoopStream(p)] = buf_idx[LoopStream(p)]
    BY <1>1, <1>4, <2>1 DEF InSame, OutSame, Orderly
  <2> QED
    BY <1>4, <2>1, <2>2 DEF AtCurrent
<1>5. CASE Idle(p)
  BY <1>1, <1>4, <1>5, InQuiet, OutQuiet DEF Idle
<1>6. CASE Ends(p)
  BY <1>1, <1>3, <1>6, InQuiet, OutQuiet, ReturnOthers DEF Ends
<1>7. CASE Sleeps(p)
  BY <1>1, <1>4, <1>7, InQuiet, OutQuiet DEF Sleeps
<1>8. ASSUME NEW n \in Counts, WriteCall(p, n), op'[p] = "write", b'[p] = buf_idx["out"]
      PROVE AtCurrent'
  <2>1. InSame /\ OutSame
    BY <1>1, <1>8, InQuiet, OutQuiet DEF Enters
  <2> QED
    BY <1>3, <1>8, <2>1 DEF LoopStream, OutSame
<1>9. ASSUME NEW n \in Counts, ReadCall(p, n), op'[p] = "read", b'[p] = buf_idx["in"]
      PROVE AtCurrent'
  <2>1. overlapped' = overlapped \union {s \in {"in"} : \E q \in Procs : s \in Using(q)}
        /\ leaked \subseteq leaked' /\ buf_idx' = buf_idx
    <3>1. CASE EnqueueAll
      BY <1>1, <1>9, <3>1, FirstQueue DEF ReadCall, Enter
    <3> QED
      BY <1>9, <3>1 DEF ReadCall, Enter
  <2>2. \A s \in Streams : Orderly(s)' => Orderly(s)
    BY <2>1 DEF Orderly
  <2>3. b'[p] = buf_idx'[LoopStream(p)']
    BY <1>9, <2>1 DEF LoopStream
  <2> QED
    BY <1>1, <2>1, <2>2, <2>3, AtCurrentStep
<1>10. CASE SyncCall(p) \/ PollCall(p)
  <2>1. InSame /\ OutSame /\ Enters(p)
    BY <1>1, <1>10, InQuiet, OutQuiet DEF Enters
  <2>2. op'[p] \in {"sync", "poll"}
    BY <1>1, <1>10 DEF SyncCall, PollCall, Enter, TypeOK
  <2> QED
    BY <1>3, <2>1, <2>2
<1>11. CASE Enters(p)
  BY <1>8, <1>9, <1>10, <1>11, Entered
<1>12. ASSUME NEW S \in SUBSET Streams, audio_clear_buf(S, p), op'[p] \notin {"write", "read"}
       PROVE  AtCurrent'
  <2>1. ASSUME NEW s \in Streams, Orderly(s)', NEW q \in Procs \ {p}, s \in Using(q)
        PROVE  Orderly(s) /\ buf_idx'[s] = buf_idx[s]
    <3>1. s \notin S
      BY <1>12, <2>1, ClearedNobody
    <3> QED
      BY <1>1, <1>12, <2>1, <3>1, Cleared DEF InSame, OutSame
  <2> QED
    BY <1>1, <1>12, <2>1, AtCurrentStep
<1>13. ASSUME NEW S \in SUBSET Streams, Clears(p, S) PROVE AtCurrent'
  <2>1. op'[p] = "none"
    <3>1. CASE UNCHANGED <<op, pc, b, left>> /\ pc[p] = "user"
      BY <1>1, <3>1 DEF Places
    <3>2. CASE Return(p)
      BY <1>1, <3>2, ReturnOthers
    <3> QED
      BY <1>13, <3>1, <3>2 DEF Clears
  <2> QED
    BY <1>12, <1>13, <2>1 DEF Clears
<1>14. CASE ReleaseSync(p)
  <2>1. audio_clear_buf(mode[fd[p]] \ {"out"}, p) /\ mode[fd[p]] \ {"out"} \in SUBSET Streams
    BY <1>1, <1>14 DEF ReleaseSync, OpenFile, TypeOK
  <2>2. op'[p] = "release"
    BY <1>14, ReleaseBegun
  <2> QED
    BY <1>12, <2>1, <2>2
<1>15. CASE LoopDown(p)
  BY <1>1, <1>4, <1>15, InQuiet, OutQuiet DEF LoopDown
<1>16. CASE LoopFault(p)
  BY <1>1, <1>3, <1>16, InQuiet, OutQuiet, ReturnOthers DEF LoopFault
<1>17. CASE WriteCopy(p)
  <2>1. op[p] = "write" /\ overlapped' = overlapped
        /\ (Return(p) \/ Loop(p, "out", left[p] - WriteChunk(p)))
    BY <1>17 DEF WriteCopy, At
  <2>2. InSame
    BY <1>1, <1>17, InQuiet
  <2>3. ASSUME Orderly("out")', NEW q \in Procs \ {p} PROVE "out" \notin Using(q)
    BY <1>1, <1>2, <2>1, <2>3, AloneWith
  <2>4. op'[p] \in {"write", "read"} => LoopStream(p)' = "out" /\ b'[p] = buf_idx'["out"]
    <3>1. \/ op'[p] = "none"
          \/ op' = op /\ b'[p] = buf_idx'["out"]
      BY <1>1, <2>1, GoesRound
    <3> QED
      BY <2>1, <3>1 DEF LoopStream
  <2> QED
    BY <1>1, <2>2, <2>3, <2>4, AtCurrentStep DEF InSame
<1>18. CASE ReadCopy(p)
  <2>1. op[p] = "read" /\ overlapped' = overlapped
        /\ (Return(p) \/ Loop(p, "in", left[p] - ReadChunk(p)))
    BY <1>18 DEF ReadCopy, At
  <2>2. OutSame
    BY <1>1, <1>18, OutQuiet
  <2>3. ASSUME Orderly("in")', NEW q \in Procs \ {p} PROVE "in" \notin Using(q)
    BY <1>1, <1>2, <2>1, <2>3, AloneWith
  <2>4. op'[p] \in {"write", "read"} => LoopStream(p)' = "in" /\ b'[p] = buf_idx'["in"]
    <3>1. \/ op'[p] = "none"
          \/ op' = op /\ b'[p] = buf_idx'["in"]
      BY <1>1, <2>1, GoesRound
    <3> QED
      BY <2>1, <3>1 DEF LoopStream
  <2> QED
    BY <1>1, <2>2, <2>3, <2>4, AtCurrentStep DEF OutSame
<1>19. CASE SyncDown(p)
  <2>1. op[p] \in {"sync", "release"} /\ op'[p] = op[p]
    BY <1>19, SyncedTo
  <2>2. InSame
    BY <1>1, <1>19, InQuiet
  <2>3. Orderly("out")' => Orderly("out")
    BY <1>19 DEF SyncDown, Enqueue, EnqueueFails, Orderly
  <2>4. ASSUME Orderly("out"), NEW q \in Procs \ {p}, op[q] \in {"write", "read"}
        PROVE  LoopStream(q) # "out"
    <3>1. "out" \in Using(q) => SyncAndRelease(op[p], op[q])
      BY <1>1, <1>2, <2>1, <2>4, AloneWith
    <3>2. LoopStream(q) = "out" => "out" \in Using(q)
      BY <2>4, LoopUsing
    <3> QED
      BY <2>4, <3>1, <3>2 DEF SyncAndRelease
  <2> QED
    BY <1>1, <2>1, <2>2, <2>3, <2>4, AtCurrentStep DEF InSame
<1> QED
  BY <1>5, <1>6, <1>7, <1>11, <1>13, <1>14, <1>15, <1>16, <1>17, <1>18, <1>19, Kinds

-----------------------------------------------------------------------------
(* What is down is in somebody's hands *)

\* A fragment that is down is held or queued.
Traced(H, S, D) ==
  \A f \in Frags : S[f] = 0 => (\E p \in Procs : <<p, f>> \in H) \/ Queued(D, f)

Accounted == \A s \in Streams \ leaked : Traced(HeldOf(s), sem[s], dma[s])

\* More holders do no harm.
LEMMA TracedMore ==
  ASSUME NEW H, NEW K, H \subseteq K, NEW S, NEW D, Traced(H, S, D)
  PROVE  Traced(K, S, D)
BY DEF Traced

\* A handler downs a fragment, ups it again, or queues it.
LEMMA TracedTaken ==
  ASSUME NEW H, NEW S \in [Frags -> {0, 1}], NEW D, Traced(H, S, D),
         NEW p \in Procs, NEW f \in Frags
  PROVE  Traced(H \union {<<p, f>>}, [S EXCEPT ![f] = 0], D)
BY DEF Traced

\* It ups a fragment that it held,
LEMMA TracedReleased ==
  ASSUME NEW H, NEW S \in [Frags -> {0, 1}], NEW D, Traced(H, S, D),
         NEW p \in Procs, NEW f \in Frags
  PROVE  Traced(H \ {<<p, f>>}, [S EXCEPT ![f] = 1], D)
BY DEF Traced

\* or queues it with the semaphore down.
LEMMA TracedSent ==
  ASSUME NEW H, NEW S \in [Frags -> {0, 1}], NEW D \in Seq(Entries), Traced(H, S, D),
         NEW p \in Procs, NEW f \in Frags, NEW e \in Entries, e.frag = f
  PROVE  Traced(H \ {<<p, f>>}, S, Append(D, e))
<1> DEFINE E == Append(D, e)
<1>1. /\ Len(D) \in Nat /\ Len(E) = Len(D) + 1
      /\ \A i \in 1 .. Len(D) : E[i] = D[i]
      /\ E[Len(D) + 1] = e
  BY AppendProperties, LenProperties
<1> HIDE DEF E
<1>2. Queued(E, f)
  <2>1. Len(D) + 1 \in 1 .. Len(E)
    BY <1>1
  <2> QED
    BY <1>1, <2>1 DEF Queued
<1>3. \A g : Queued(D, g) => Queued(E, g)
  <2>1. \A i \in 1 .. Len(D) : i \in 1 .. Len(E)
    BY <1>1
  <2> QED
    BY <1>1, <2>1 DEF Queued
<1>4. Traced(H \ {<<p, f>>}, S, E)
  <2> SUFFICES ASSUME NEW g \in Frags, S[g] = 0, ~Queued(E, g)
               PROVE  \E q \in Procs : <<q, g>> \in H \ {<<p, f>>}
    BY DEF Traced
  <2>1. g # f /\ ~Queued(D, g)
    BY <1>2, <1>3
  <2>2. PICK q \in Procs : <<q, g>> \in H
    BY <2>1 DEF Traced
  <2> QED
    BY <2>1, <2>2
<1> QED
  BY <1>4 DEF E

\* The DMA gives a fragment back.
LEMMA TracedDone ==
  ASSUME NEW H, NEW S \in [Frags -> {0, 1}], NEW D \in Seq(Entries), Traced(H, S, D),
         D # <<>>, NEW f \in Frags, D[1].frag = f
  PROVE  Traced(H, [S EXCEPT ![f] = 1], Tail(D))
<1> DEFINE E == Tail(D)
           T == [S EXCEPT ![f] = 1]
<1>1. /\ Len(D) \in Nat \ {0}
      /\ Len(E) = Len(D) - 1
      /\ \A i \in 1 .. Len(E) : E[i] = D[i + 1]
  BY HeadTailProperties, EmptySeq
<1>2. \A g \in Frags : T[g] = IF g = f THEN 1 ELSE S[g]
  OBVIOUS
<1> HIDE DEF E, T
<1>3. ASSUME NEW g, Queued(D, g), g # f PROVE Queued(E, g)
  <2>1. PICK i \in 1 .. Len(D) : D[i].frag = g
    BY <1>3 DEF Queued
  <2>2. i # 1
    BY <1>3, <2>1
  <2>3. i - 1 \in 1 .. Len(E) /\ E[i - 1] = D[(i - 1) + 1] /\ (i - 1) + 1 = i
    BY <1>1, <2>1, <2>2
  <2> QED
    BY <2>1, <2>3 DEF Queued
<1>4. Traced(H, T, E)
  <2> SUFFICES ASSUME NEW g \in Frags, T[g] = 0, ~Queued(E, g)
               PROVE  \E q \in Procs : <<q, g>> \in H
    BY DEF Traced
  <2>1. g # f /\ S[g] = 0
    BY <1>2
  <2> QED
    BY <1>3, <2>1 DEF Traced
<1> QED
  BY <1>4 DEF E, T

\* Nothing is down, or everything is queued.
LEMMA TracedFresh ==
  ASSUME NEW H
  PROVE  /\ \A D : Traced(H, Free, D)
         /\ \A S : Traced(H, S, [i \in 1 .. NbFrags |-> [frag |-> i - 1, units |-> <<>>]])
<1>1. \A D : Traced(H, Free, D)
  BY DEF Traced, Free
<1> DEFINE D == [i \in 1 .. NbFrags |-> [frag |-> i - 1, units |-> <<>>]]
<1>2. Len(D) = NbFrags /\ \A i \in 1 .. NbFrags : D[i].frag = i - 1
  BY SoundAssumption
<1> HIDE DEF D
<1>3. ASSUME NEW f \in Frags PROVE Queued(D, f)
  <2>1. f + 1 \in 1 .. NbFrags /\ (f + 1) - 1 = f
    BY SoundAssumption DEF Frags
  <2> QED
    BY <1>2, <2>1 DEF Queued
<1>4. \A S : Traced(H, S, D)
  BY <1>3 DEF Traced
<1> QED
  BY <1>1, <1>4 DEF D

\* What others hold they go on to hold.
LEMMA HeldKept ==
  ASSUME NEW p \in Procs, Leaves(p), NEW s \in Streams
  PROVE  {h \in HeldOf(s) : h[1] # p} \subseteq HeldOf(s)'
BY DEF Leaves, HeldOf, Holds

\* A step of p that does not end in a copy leaves what others hold.
LEMMA OthersLeave ==
  ASSUME NEW p \in Procs, Others(p), pc'[p] # "copy"
  PROVE  Leaves(p)
BY DEF Others, Leaves

\* Who is in no copy leaves nothing.
LEMMA HeldAll ==
  ASSUME TypeOK, Places, NEW p \in Procs, Leaves(p), NEW s \in Streams,
         pc[p] # "copy" \/ LoopStream(p) # s
  PROVE  HeldOf(s) \subseteq HeldOf(s)'
<1> SUFFICES ASSUME NEW h \in HeldOf(s) PROVE h \in HeldOf(s)'
  OBVIOUS
<1>1. h[1] # p
  BY HeldFacts
<1> QED
  BY <1>1, HeldKept

\* Streams that lose no holder and whose semaphores and queue stay.
LEMMA TracedStays ==
  ASSUME Accounted, NEW s \in Streams, HeldOf(s) \subseteq HeldOf(s)', s \notin leaked,
         sem'[s] = sem[s], dma'[s] = dma[s]
  PROVE  Traced(HeldOf(s)', sem'[s], dma'[s])
<1>1. Traced(HeldOf(s), sem[s], dma[s])
  BY DEF Accounted
<1> QED
  BY <1>1, TracedMore

\* A copy that ends.
LEMMA TracedEnds ==
  ASSUME TypeOK, Places, StreamsExclusive, Accounted,
         NEW p \in Procs, pc[p] = "copy", Leaves(p),
         NEW s \in Streams, s = LoopStream(p), leaked \subseteq leaked',
         \/ Up(s, b[p]) /\ dma' = dma
         \/ sem' = sem /\ \E units \in Seq(Nat) : Enqueue(s, b[p], units)
         \/ sem' = sem /\ EnqueueFails(s)
  PROVE  Accounted'
<1>1. b[p] \in Frags /\ <<p, b[p]>> \in HeldOf(s)
  BY HeldFacts
<1>2. sem[s] \in [Frags -> {0, 1}] /\ dma[s] \in Seq(Entries) /\ Exclusive(HeldOf(s), sem[s], dma[s])
  BY DEF TypeOK, StreamsExclusive
<1>3. sem[s][b[p]] = 0
  BY <1>1, <1>2 DEF Exclusive
<1>4. HeldOf(s) \ {<<p, b[p]>>} \subseteq HeldOf(s)'
  <2> SUFFICES ASSUME NEW h \in HeldOf(s), h # <<p, b[p]>> PROVE h \in HeldOf(s)'
    OBVIOUS
  <2>1. h[1] # p
    BY HeldFacts
  <2> QED
    BY <2>1, HeldKept
<1>5. ASSUME NEW t \in Streams, t # s, t \notin leaked' PROVE Traced(HeldOf(t)', sem'[t], dma'[t])
  <2>1. sem'[t] = sem[t] /\ dma'[t] = dma[t]
    BY <1>5 DEF Up, Enqueue, EnqueueFails, TypeOK
  <2>2. HeldOf(t) \subseteq HeldOf(t)'
    BY <1>5, HeldAll
  <2> QED
    BY <1>5, <2>1, <2>2, TracedStays
<1>6. ASSUME s \notin leaked' PROVE Traced(HeldOf(s)', sem'[s], dma'[s])
  <2>0. Traced(HeldOf(s), sem[s], dma[s])
    BY <1>6 DEF Accounted
  <2>1. CASE Up(s, b[p]) /\ dma' = dma
    <3>1. sem'[s] = [sem[s] EXCEPT ![b[p]] = 1]
      BY <1>1, <1>3, <2>1 DEF Up, TypeOK
    <3>2. Traced(HeldOf(s) \ {<<p, b[p]>>}, sem'[s], dma'[s])
      BY <1>1, <1>2, <2>0, <2>1, <3>1, TracedReleased
    <3> QED
      BY <1>4, <3>2, TracedMore
  <2>2. ASSUME sem' = sem, NEW units \in Seq(Nat), Enqueue(s, b[p], units)
        PROVE  Traced(HeldOf(s)', sem'[s], dma'[s])
    <3> DEFINE e == [frag |-> b[p], units |-> units]
    <3>1. e \in Entries /\ e.frag = b[p] /\ dma'[s] = Append(dma[s], e)
      BY <1>1, <2>2 DEF Enqueue, Entries, TypeOK
    <3> HIDE DEF e
    <3>2. Traced(HeldOf(s) \ {<<p, b[p]>>}, sem[s], Append(dma[s], e))
      BY <1>1, <1>2, <2>0, <3>1, TracedSent
    <3> QED
      BY <1>4, <2>2, <3>1, <3>2, TracedMore
  <2>3. ~EnqueueFails(s)
    BY <1>6 DEF EnqueueFails
  <2> QED
    BY <2>1, <2>2, <2>3
<1> QED
  BY <1>5, <1>6 DEF Accounted

\* The first read queues every fragment.
LEMMA TracedRead ==
  ASSUME TypeOK, Accounted, NEW p \in Procs, NEW n \in Counts, ReadCall(p, n),
         \A s \in Streams : HeldOf(s) \subseteq HeldOf(s)'
  PROVE  Accounted'
<1>1. "in" \in Streams /\ "out" \in Streams
  BY DEF Streams
<1>2. CASE buffers["in"]
  <2>1. sem' = sem /\ dma' = dma /\ leaked' = leaked
    BY <1>2 DEF ReadCall
  <2> QED
    BY <1>1, <2>1, TracedStays DEF Accounted
<1>3. CASE ~buffers["in"]
  <2>1. sem' = [sem EXCEPT !["in"] = [f \in Frags |-> 0]] /\ EnqueueAll
    BY <1>3 DEF ReadCall
  <2>2. ASSUME "in" \notin leaked' PROVE Traced(HeldOf("in")', sem'["in"], dma'["in"])
    <3>1. dma'["in"] = [i \in 1 .. NbFrags |-> [frag |-> i - 1, units |-> <<>>]]
      BY <2>1, <2>2, FirstQueue
    <3> QED
      BY <3>1, TracedFresh
  <2>3. ASSUME NEW s \in Streams, s # "in", s \notin leaked'
        PROVE  Traced(HeldOf(s)', sem'[s], dma'[s])
    <3>1. sem'[s] = sem[s]
      BY <2>1, <2>3 DEF TypeOK
    <3>2. dma'[s] = dma[s] /\ s \notin leaked
      BY <2>1, <2>3, FirstQueue DEF Streams
    <3> QED
      BY <2>3, <3>1, <3>2, TracedStays
  <2> QED
    BY <1>1, <2>2, <2>3 DEF Accounted
<1> QED
  BY <1>2, <1>3

\* A handler takes a free fragment in its hands, and a sync queues it at once.
LEMMA TracedDown ==
  ASSUME TypeOK, Accounted, NEW p \in Procs, LoopDown(p)
  PROVE  Accounted'
<1>1. PICK s \in Streams, f \in Frags : s = LoopStream(p) /\ f = b[p]
  BY DEF LoopStream, Streams, TypeOK
<1>2. /\ sem[s] \in [Frags -> {0, 1}] /\ sem \in [Streams -> [Frags -> {0, 1}]]
      /\ pc \in [Procs -> {"user", "down", "copy", "wait", "poll", "pollsleep"}]
  BY <1>1 DEF TypeOK
<1>3. /\ pc[p] = "down" /\ leaked' = leaked
      /\ sem' = [sem EXCEPT ![s][f] = sem[s][f] - 1] /\ sem[s][f] > 0
      /\ dma' = dma /\ pc' = [pc EXCEPT ![p] = "copy"] /\ op' = op /\ b' = b
  BY <1>1 DEF LoopDown, Down, pathVars
<1>6. ASSUME NEW t \in Streams, NEW h \in HeldOf(t) PROVE h \in HeldOf(t)'
  <2>1. h \in Procs \X Frags /\ Holds(h[1], t, h[2])
    BY <1>6 DEF HeldOf
  <2>2. h[1] # p
    BY <1>3, <2>1 DEF Holds
  <2>3. Holds(h[1], t, h[2])'
    BY <1>2, <1>3, <2>1, <2>2 DEF Holds
  <2> QED
    BY <2>1, <2>3 DEF HeldOf
<1>7. <<p, f>> \in HeldOf(s)'
  <2>1. Holds(p, s, f)'
    BY <1>1, <1>2, <1>3 DEF Holds, LoopStream
  <2> QED
    BY <1>1, <2>1 DEF HeldOf
<1>4. sem[s][f] - 1 = 0
  BY <1>1, <1>2, <1>3
<1>5. sem'[s] = [sem[s] EXCEPT ![f] = 0] /\ \A t \in Streams \ {s} : sem'[t] = sem[t]
  BY <1>1, <1>2, <1>3, <1>4
<1>8. ASSUME s \notin leaked PROVE Traced(HeldOf(s)', sem'[s], dma'[s])
  <2>3. Traced(HeldOf(s), sem[s], dma[s])
    BY <1>1, <1>8 DEF Accounted
  <2>1. Traced(HeldOf(s) \union {<<p, f>>}, [sem[s] EXCEPT ![f] = 0], dma[s])
    BY <1>1, <1>2, <2>3, TracedTaken
  <2>2. HeldOf(s) \union {<<p, f>>} \subseteq HeldOf(s)'
    BY <1>1, <1>6, <1>7
  <2> QED
    BY <1>3, <1>5, <2>1, <2>2, TracedMore
<1>9. ASSUME NEW t \in Streams, t # s, t \notin leaked PROVE Traced(HeldOf(t)', sem'[t], dma'[t])
  <2>1. sem'[t] = sem[t] /\ dma'[t] = dma[t] /\ HeldOf(t) \subseteq HeldOf(t)'
    BY <1>3, <1>5, <1>6, <1>9
  <2> QED
    BY <1>9, <2>1, TracedStays
<1> QED
  BY <1>3, <1>8, <1>9 DEF Accounted

\* A sync downs a fragment and queues it in one step.
LEMMA TracedSync ==
  ASSUME TypeOK, Places, Accounted, NEW p \in Procs, SyncDown(p), Leaves(p)
  PROVE  Accounted'
<1> DEFINE f == b[p]
           S == [sem["out"] EXCEPT ![f] = 0]
<1>1. /\ op[p] \in {"sync", "release"} /\ pc[p] = "down"
      /\ Down("out", f)
      /\ Enqueue("out", f, data["out"][f]) \/ EnqueueFails("out")
      /\ "out" \in Streams /\ f \in Frags
  BY DEF SyncDown, Streams, TypeOK
<1>2. /\ sem["out"] \in [Frags -> {0, 1}] /\ dma["out"] \in Seq(Entries)
      /\ data["out"][f] \in Seq(Nat) /\ sem["out"][f] = 1
  BY <1>1 DEF TypeOK, Down
<1>3. /\ sem'["out"] = S
      /\ \A t \in Streams \ {"out"} : sem'[t] = sem[t] /\ dma'[t] = dma[t]
      /\ leaked \subseteq leaked'
  BY <1>1, <1>2 DEF Down, Enqueue, EnqueueFails, TypeOK
<1>4. \A t \in Streams : HeldOf(t) \subseteq HeldOf(t)'
  BY <1>1, HeldAll
<1>5. S \in [Frags -> {0, 1}]
  BY <1>1, <1>2
<1>6. ASSUME "out" \notin leaked' PROVE Traced(HeldOf("out")', sem'["out"], dma'["out"])
  <2>1. Enqueue("out", f, data["out"][f])
    BY <1>1, <1>6 DEF EnqueueFails
  <2>2. Traced(HeldOf("out") \union {<<p, f>>}, S, dma["out"])
    BY <1>1, <1>2, <1>3, <1>6, TracedTaken DEF Accounted
  <2> DEFINE e == [frag |-> f, units |-> data["out"][f]]
  <2>3. e \in Entries /\ e.frag = f /\ dma'["out"] = Append(dma["out"], e)
    BY <1>1, <1>2, <2>1 DEF Enqueue, Entries, TypeOK
  <2> HIDE DEF e, S, f
  <2>4. Traced((HeldOf("out") \union {<<p, f>>}) \ {<<p, f>>}, S, Append(dma["out"], e))
    BY <1>1, <1>2, <1>5, <2>2, <2>3, TracedSent
  <2>5. (HeldOf("out") \union {<<p, f>>}) \ {<<p, f>>} \subseteq HeldOf("out")'
    BY <1>1, <1>4
  <2> QED
    BY <1>3, <2>3, <2>4, <2>5, TracedMore
<1>7. ASSUME NEW t \in Streams, t # "out", t \notin leaked'
      PROVE  Traced(HeldOf(t)', sem'[t], dma'[t])
  BY <1>3, <1>4, <1>7, TracedStays
<1> QED
  BY <1>6, <1>7 DEF Accounted

\* What is down stays accounted for.
LEMMA AccountedStep ==
  ASSUME Known, stale = {}, stale' = {}, Accounted, NEW p \in Procs, Acts(p)
  PROVE  Accounted'
<1>1. TypeOK /\ Places /\ StreamsExclusive /\ Others(p) /\ "in" \in Streams /\ "out" \in Streams
  BY OthersStay DEF Known, Safe, Streams
<1>2. ASSUME \A s \in Streams : HeldOf(s) \subseteq HeldOf(s)', sem' = sem, dma' = dma,
             leaked \subseteq leaked'
      PROVE  Accounted'
  <2> SUFFICES ASSUME NEW s \in Streams, s \notin leaked' 
               PROVE  Traced(HeldOf(s)', sem'[s], dma'[s])
    BY DEF Accounted
  <2>1. s \notin leaked /\ sem'[s] = sem[s] /\ dma'[s] = dma[s] /\ HeldOf(s) \subseteq HeldOf(s)'
    BY <1>2
  <2> QED
    BY <2>1, TracedStays
<1>3. ASSUME pc[p] # "copy", pc'[p] # "copy" PROVE \A s \in Streams : HeldOf(s) \subseteq HeldOf(s)'
  BY <1>1, <1>3, OthersLeave, HeldAll
<1>4. CASE Idle(p)
  <2>1. op' = op /\ pc' = pc /\ b' = b /\ sem' = sem /\ dma' = dma /\ leaked' = leaked
    BY <1>4 DEF Idle, pathVars
  <2>2. \A s \in Streams : HeldOf(s) \subseteq HeldOf(s)'
    BY <2>1 DEF HeldOf, Holds
  <2> QED
    BY <1>2, <2>1, <2>2
<1>5. CASE Ends(p)
  <2>1. pc[p] # "copy"
    BY <1>1, <1>5 DEF Ends, LoopDownFails, Places
  <2>2. pc'[p] = "user" /\ sem' = sem /\ dma' = dma /\ leaked' = leaked
    BY <1>1, <1>5, ReturnOthers DEF Ends, streamVars, pathVars
  <2> QED
    BY <1>2, <1>3, <2>1, <2>2
<1>6. CASE Sleeps(p)
  <2>1. pc[p] # "copy" /\ pc'[p] = "pollsleep" /\ sem' = sem /\ dma' = dma /\ leaked' = leaked
    BY <1>1, <1>6 DEF Sleeps, Places, streamVars, pathVars
  <2> QED
    BY <1>2, <1>3, <2>1
<1>7. CASE Enters(p)
  <2>1. pc[p] # "copy" /\ pc'[p] # "copy"
    BY <1>1, <1>7, Entered DEF Places
  <2>2. ASSUME NEW n \in Counts, ReadCall(p, n) PROVE Accounted'
    BY <1>1, <1>3, <2>1, <2>2, TracedRead
  <2>3. CASE (\E n \in Counts : WriteCall(p, n)) \/ SyncCall(p) \/ PollCall(p)
    <3>1. sem' = sem /\ dma' = dma /\ leaked' = leaked
      BY <2>3 DEF WriteCall, SyncCall, PollCall, streamVars
    <3> QED
      BY <1>2, <1>3, <2>1, <3>1
  <2> QED
    BY <1>7, <2>2, <2>3 DEF Enters
<1>8. ASSUME NEW S \in SUBSET Streams, audio_clear_buf(S, p), pc[p] # "copy", pc'[p] # "copy"
      PROVE  Accounted'
  <2> SUFFICES ASSUME NEW s \in Streams, s \notin leaked' 
               PROVE  Traced(HeldOf(s)', sem'[s], dma'[s])
    BY DEF Accounted
  <2>1. CASE s \in S
    BY <1>1, <1>8, <2>1, Cleared, TracedFresh
  <2>2. CASE s \notin S
    <3>1. sem'[s] = sem[s] /\ dma'[s] = dma[s] /\ s \notin leaked
      BY <1>1, <1>8, <2>2, Cleared
    <3> QED
      BY <1>3, <1>8, <3>1, TracedStays
  <2> QED
    BY <2>1, <2>2
<1>9. ASSUME NEW S \in SUBSET Streams, Clears(p, S) PROVE Accounted'
  <2>1. pc[p] # "copy" /\ pc'[p] # "copy"
    <3>1. CASE UNCHANGED <<op, pc, b, left>> /\ pc[p] = "user"
      BY <3>1
    <3>2. CASE Return(p) /\ At(p, "release", "wait")
      BY <1>1, <3>2, ReturnOthers DEF At
    <3> QED
      BY <1>9, <3>1, <3>2 DEF Clears
  <2> QED
    BY <1>8, <1>9, <2>1 DEF Clears
<1>10. CASE ReleaseSync(p)
  <2>1. audio_clear_buf(mode[fd[p]] \ {"out"}, p) /\ mode[fd[p]] \ {"out"} \in SUBSET Streams
    BY <1>1, <1>10 DEF ReleaseSync, OpenFile, TypeOK
  <2>2. pc[p] # "copy" /\ pc'[p] # "copy"
    BY <1>1, <1>10, ReleaseBegun DEF Places
  <2> QED
    BY <1>8, <2>1, <2>2
<1>11. CASE LoopDown(p)
  BY <1>1, <1>11, TracedDown
<1>12. CASE LoopFault(p)
  <2>1. Return(p) /\ pc[p] = "copy" /\ Up(LoopStream(p), b[p]) /\ dma' = dma /\ leaked' = leaked
    BY <1>12 DEF LoopFault, pathVars
  <2>2. Leaves(p)
    BY <1>1, <2>1, ReturnLeaves
  <2> QED
    BY <1>1, <2>1, <2>2, HeldFacts, TracedEnds
<1>13. CASE WriteCopy(p)
  <2>1. /\ op[p] = "write" /\ pc[p] = "copy" /\ LoopStream(p) = "out"
        /\ (Return(p) \/ Loop(p, "out", left[p] - WriteChunk(p)))
        /\ leaked \subseteq leaked'
    BY <1>13 DEF WriteCopy, At, LoopStream, Enqueue, EnqueueFails
  <2>2. Leaves(p)
    <3>1. pc'[p] # "copy"
      BY <1>1, <2>1, GoesRound
    <3> QED
      BY <1>1, <3>1, OthersLeave
  <2>3. \/ Up("out", b[p]) /\ dma' = dma
        \/ sem' = sem /\ \E units \in Seq(Nat) : Enqueue("out", b[p], units)
        \/ sem' = sem /\ EnqueueFails("out")
    <3>1. Fits /\ sem["out"][b[p]] = 0
      BY <1>1, <2>1, DownFacts DEF Known, Safe
    <3> QED
      BY <1>1, <1>13, <3>1, WriteFacts DEF WriteCopy
  <2> QED
    BY <1>1, <2>1, <2>2, <2>3, TracedEnds
<1>14. CASE ReadCopy(p)
  <2>1. /\ op[p] = "read" /\ pc[p] = "copy" /\ LoopStream(p) = "in"
        /\ (Return(p) \/ Loop(p, "in", left[p] - ReadChunk(p)))
        /\ leaked \subseteq leaked'
    BY <1>14 DEF ReadCopy, At, LoopStream, Enqueue, EnqueueFails
  <2>2. Leaves(p)
    <3>1. pc'[p] # "copy"
      BY <1>1, <2>1, GoesRound
    <3> QED
      BY <1>1, <3>1, OthersLeave
  <2>4. <<>> \in Seq(Nat)
    OBVIOUS
  <2>3. \/ Up("in", b[p]) /\ dma' = dma
        \/ sem' = sem /\ \E units \in Seq(Nat) : Enqueue("in", b[p], units)
        \/ sem' = sem /\ EnqueueFails("in")
    BY <1>14, <2>4 DEF ReadCopy
  <2> QED
    BY <1>1, <2>1, <2>2, <2>3, TracedEnds
<1>15. CASE SyncDown(p)
  <2>1. Leaves(p)
    BY <1>1, <1>15, SyncedTo, OthersLeave
  <2> QED
    BY <1>1, <1>15, <2>1, TracedSync
<1> QED
  BY <1>4, <1>5, <1>6, <1>7, <1>9, <1>10, <1>11, <1>12, <1>13, <1>14, <1>15, Kinds

\* The DMA gives back what it had.
LEMMA AccountedCallback ==
  ASSUME Known, stale = {}, Accounted, audio_dmaout_done_callback \/ audio_dmain_done_callback
  PROVE  Accounted'
<1>1. TypeOK /\ Places /\ StreamsExclusive
  BY DEF Known, Safe
<1>2. PICK s \in Streams :
        /\ dma[s] # <<>> /\ dma' = [dma EXCEPT ![s] = Tail(@)]
        /\ Up(s, Head(dma[s]).frag)
  BY DEF audio_dmaout_done_callback, audio_dmain_done_callback, Streams
<1>3. /\ op' = op /\ b' = b /\ leaked' = leaked
      /\ \A q \in Procs : pc'[q] = pc[q] \/ (pc[q] = "pollsleep" /\ pc'[q] = "poll")
  BY <1>1, CallbackUsing
<1>4. ASSUME NEW t \in Streams PROVE HeldOf(t) \subseteq HeldOf(t)'
  BY <1>3 DEF HeldOf, Holds
<1>5. /\ sem[s] \in [Frags -> {0, 1}] /\ dma[s] \in Seq(Entries)
      /\ Exclusive(HeldOf(s), sem[s], dma[s])
  BY <1>1, <1>2 DEF TypeOK, StreamsExclusive
<1>6. PICK g \in Frags : g = Head(dma[s]).frag /\ g = dma[s][1].frag /\ 1 \in 1 .. Len(dma[s])
  BY <1>1, <1>2, HeadFacts
<1>7. sem[s][g] = 0
  BY <1>5, <1>6 DEF Exclusive
<1>8. sem[s][g] + 1 = 1 /\ sem' = [sem EXCEPT ![s][g] = sem[s][g] + 1]
  BY <1>2, <1>6, <1>7 DEF Up
<1>9. sem' = [sem EXCEPT ![s][g] = 1]
  BY <1>8
<1>10. sem'[s] = [sem[s] EXCEPT ![g] = 1] /\ dma'[s] = Tail(dma[s])
  BY <1>1, <1>2, <1>9 DEF TypeOK
<1>11. ASSUME s \notin leaked PROVE Traced(HeldOf(s)', sem'[s], dma'[s])
  <2>1. Traced(HeldOf(s), [sem[s] EXCEPT ![g] = 1], Tail(dma[s]))
    BY <1>2, <1>5, <1>6, <1>11, TracedDone DEF Accounted
  <2> QED
    BY <1>2, <1>4, <1>10, <2>1, TracedMore
<1>12. ASSUME NEW t \in Streams, t # s, t \notin leaked PROVE Traced(HeldOf(t)', sem'[t], dma'[t])
  <2>1. sem'[t] = sem[t] /\ dma'[t] = dma[t]
    BY <1>1, <1>2, <1>9, <1>12 DEF TypeOK
  <2> QED
    BY <1>4, <1>12, <2>1, TracedStays
<1> QED
  BY <1>3, <1>11, <1>12 DEF Accounted

-----------------------------------------------------------------------------
(* The input *)

Reading == \E p \in Procs : op[p] = "read"

\* What an orderly input looks like.
Input ==
  Orderly("in") =>
    /\ InView(buf_idx["in"], data["in"], dma["in"], delivered, captured)
    /\ Reading \/ Ready(buf_idx["in"], data["in"], dma["in"])

\* A sequence is its first k elements and the rest.
LEMMA SplitAt ==
  ASSUME NEW x \in Seq(Nat), NEW k \in Nat, k <= Len(x)
  PROVE  /\ SubSeq(x, 1, k) \in Seq(Nat)
         /\ Len(SubSeq(x, 1, k)) = k
         /\ Joins(SubSeq(x, 1, k), SubSeq(x, k + 1, Len(x)), x)
<1>1. 1 \in 1 .. Len(x) + 1 /\ k \in 1 - 1 .. Len(x) /\ Len(x) \in k .. Len(x)
  OBVIOUS
<1>2. SubSeq(x, 1, k) \o SubSeq(x, k + 1, Len(x)) = SubSeq(x, 1, Len(x))
  BY <1>1, ConcatAdjacentSubSeq
<1>3. SubSeq(x, 1, Len(x)) = x
  BY SubSeqFull
<1>4. SubSeq(x, 1, k) \in Seq(Nat) /\ Len(SubSeq(x, 1, k)) = k
  <2>1. 1 \in Int /\ k \in Int /\ \A i \in 1 .. k : x[i] \in Nat
    OBVIOUS
  <2>2. /\ SubSeq(x, 1, k) \in Seq(Nat)
        /\ Len(SubSeq(x, 1, k)) = IF 1 <= k THEN k - 1 + 1 ELSE 0
    BY <2>1, SubSeqProperties
  <2> QED
    BY <2>2
<1> QED
  BY <1>2, <1>3, <1>4 DEF Joins

\* A reader goes on reading while somebody else acts.
LEMMA ReadingStays ==
  ASSUME Reading, NEW p \in Procs, Others(p), op'[p] = op[p] \/ op[p] # "read"
  PROVE  Reading'
<1>1. PICK q \in Procs : op[q] = "read"
  BY DEF Reading
<1> QED
  BY <1>1 DEF Reading, Others

\* Steps that leave the input alone, and no reader returns.
LEMMA InputSame ==
  ASSUME Input, InSame, Reading => Reading'
  PROVE  Input'
BY DEF Input, InSame

\* A read returns when the fragment is down or still has data.
LEMMA ReadReturns ==
  ASSUME Known, stale = {}, Alone, AtCurrent, Accounted, Input, InSame,
         NEW p \in Procs, op[p] = "read",
         \/ pc[p] = "down" /\ sem["in"][b[p]] = 0
         \/ data["in"][b[p]] # <<>>
  PROVE  Input'
<1>1. TypeOK /\ Places /\ LoopStream(p) = "in" /\ "in" \in Streams
  BY DEF Known, Safe, LoopStream, Streams
<1> SUFFICES ASSUME Orderly("in")
             PROVE  /\ InView(buf_idx["in"], data["in"], dma["in"], delivered, captured)
                    /\ Ready(buf_idx["in"], data["in"], dma["in"])
  BY DEF Input, InSame
<1> DEFINE cur == buf_idx["in"]
<1>2. b[p] = cur /\ cur \in Frags /\ dma["in"] \in Seq(Entries)
  BY <1>1 DEF AtCurrent, TypeOK
<1>3. InView(cur, data["in"], dma["in"], delivered, captured)
  BY DEF Input
<1>4. CASE data["in"][b[p]] # <<>>
  BY <1>2, <1>3, <1>4 DEF Ready
<1>5. CASE pc[p] = "down" /\ sem["in"][b[p]] = 0
  <2>1. "in" \notin overlapped /\ "in" \notin leaked
    BY DEF Orderly
  <2>2. (\E q \in Procs : <<q, cur>> \in HeldOf("in")) \/ Queued(dma["in"], cur)
    BY <1>1, <1>2, <1>5, <2>1 DEF Accounted, Traced
  <2>3. ASSUME NEW q \in Procs, <<q, cur>> \in HeldOf("in") PROVE FALSE
    <3>1. pc[q] = "copy" /\ LoopStream(q) = "in"
      BY <1>1, <1>2, <2>3, HeldFacts
    <3>2. op[q] = "read" /\ q # p
      BY <1>1, <1>5, <3>1 DEF LoopStream, Places
    <3> QED
      BY <2>1, <3>2, AloneWith, LoopUsing
  <2>4. Queued(dma["in"], cur)
    BY <2>2, <2>3
  <2>5. Consecutive(cur, dma["in"])
    BY <1>3 DEF InView
  <2>6. Room(dma["in"]) = 0
    BY <1>2, <2>4, <2>5, QueueFull
  <2> QED
    BY <1>3, <2>6 DEF Ready
<1> QED
  BY <1>4, <1>5

\* The first read queues the fragments.
LEMMA InputRead ==
  ASSUME Known, Input, Pristine, NEW p \in Procs, NEW n \in Counts, ReadCall(p, n),
         op'[p] = "read"
  PROVE  Input'
<1>1. TypeOK /\ "in" \in Streams
  BY DEF Known, Safe, Streams
<1>2. /\ buf_idx' = buf_idx /\ data' = data /\ delivered' = delivered /\ captured' = captured
      /\ leaked \subseteq leaked' /\ overlapped \subseteq overlapped'
  <2>1. CASE EnqueueAll
    BY <1>1, <2>1, FirstQueue DEF ReadCall, Enter, unitVars
  <2> QED
    BY <2>1 DEF ReadCall, Enter, unitVars
<1>3. Reading'
  BY DEF Reading
<1> SUFFICES ASSUME Orderly("in")'
             PROVE  InView(buf_idx'["in"], data'["in"], dma'["in"], delivered', captured')
  BY <1>3 DEF Input
<1>4. InView(buf_idx["in"], data["in"], dma["in"], delivered, captured)
  BY <1>2 DEF Input, Orderly
<1>5. CASE buffers["in"]
  <2>1. dma' = dma
    BY <1>5 DEF ReadCall
  <2> QED
    BY <1>2, <1>4, <2>1
<1>6. CASE ~buffers["in"]
  <2>1. EnqueueAll /\ "in" \notin leaked'
    BY <1>6 DEF ReadCall, Orderly
  <2>2. dma'["in"] = [i \in 1 .. NbFrags |-> [frag |-> i - 1, units |-> <<>>]]
    BY <1>1, <2>1, FirstQueue
  <2>3. buf_idx["in"] = 0 /\ data["in"] = Empty /\ dma["in"] = <<>>
    BY <1>6 DEF Pristine
  <2>4. delivered \in Nat /\ captured \in Nat /\ InView(0, Empty, <<>>, delivered, captured)
    BY <1>1, <1>4, <2>3 DEF TypeOK
  <2>5. InView(0, Empty, dma'["in"], delivered, captured)
    BY <2>2, <2>4, InStart
  <2> QED
    BY <1>2, <2>3, <2>5
<1> QED
  BY <1>5, <1>6

\* The streams are cleared.
LEMMA InputCleared ==
  ASSUME Known, Input, NEW S \in SUBSET Streams, NEW p \in Procs, audio_clear_buf(S, p),
         Reading => Reading'
  PROVE  Input'
<1>1. TypeOK
  BY DEF Known, Safe
<1>2. CASE "in" \in S
  <2>1. /\ buf_idx'["in"] = 0 /\ data'["in"] = Empty /\ dma'["in"] = <<>>
        /\ captured' = 0 /\ delivered' = 0
    BY <1>1, <1>2, Cleared
  <2>2. 0 \in Frags /\ 0 \in Nat
    BY FragFacts
  <2>3. InView(0, Empty, <<>>, 0, 0) /\ Ready(0, Empty, <<>>)
    BY <2>2, InFresh
  <2> QED
    BY <2>1, <2>3 DEF Input
<1>3. CASE "in" \notin S
  BY <1>1, <1>3, Cleared, InputSame
<1> QED
  BY <1>2, <1>3

\* A read takes what it asked for, or all there is and goes on.
LEMMA InputCopy ==
  ASSUME Known, stale = {}, LeftPositive, AtCurrent, Input, NEW p \in Procs, ReadCopy(p)
  PROVE  Input'
<1>1. TypeOK /\ Places /\ Fits /\ StreamsExclusive /\ "in" \in Streams /\ LoopStream(p) = "in"
  BY DEF Known, Safe, Streams, ReadCopy, At, LoopStream
<1>2. /\ op[p] = "read" /\ pc[p] = "copy" /\ overlapped' = overlapped
      /\ captured' = captured /\ delivered' = delivered + ReadChunk(p)
      /\ leaked \subseteq leaked'
  BY DEF ReadCopy, At, Enqueue, EnqueueFails
<1> SUFFICES ASSUME Orderly("in")'
             PROVE  /\ InView(buf_idx'["in"], data'["in"], dma'["in"], delivered', captured')
                    /\ Reading' \/ Ready(buf_idx'["in"], data'["in"], dma'["in"])
  BY DEF Input
<1>3. Orderly("in") /\ "in" \notin leaked'
  BY <1>2 DEF Orderly
<1> DEFINE cur == buf_idx["in"]
           dat == data["in"]
           D == dma["in"]
           u == SubSeq(data["in"][b[p]], 1, ReadChunk(p))
           v == Drained(p)
<1>4. /\ b[p] = cur /\ cur \in Frags /\ D \in Seq(Entries) /\ dat \in [Frags -> Seq(Nat)]
      /\ delivered \in Nat /\ captured \in Nat
  BY <1>1, <1>2, <1>3 DEF AtCurrent, TypeOK
<1>5. InView(cur, dat, D, delivered, captured)
  BY <1>3 DEF Input
<1>6. data["in"][b[p]] \in Seq(Nat) /\ ReadChunk(p) \in Nat /\ ReadChunk(p) <= Len(data["in"][b[p]])
      /\ v \in Seq(Nat) /\ left[p] > 0
      /\ (data["in"][b[p]] = <<>> => left[p] - ReadChunk(p) > 0)
  <2>1. data["in"][b[p]] \in Seq(Nat) /\ left[p] \in Nat /\ left[p] > 0
    BY <1>1, <1>2, <1>4 DEF TypeOK, LeftPositive
  <2>2. Len(data["in"][b[p]]) \in Nat /\ (data["in"][b[p]] = <<>> => Len(data["in"][b[p]]) = 0)
    BY <2>1
  <2> QED
    BY <1>1, <2>1, <2>2, ReadFacts DEF ReadChunk, Smaller
<1>7. u \in Seq(Nat) /\ Len(u) = ReadChunk(p) /\ Joins(u, v, dat[cur])
  BY <1>4, <1>6, SplitAt DEF Drained
<1>8. data' = [data EXCEPT !["in"][b[p]] = v]
  BY DEF ReadCopy
<1>9. data'["in"] = [dat EXCEPT ![cur] = v]
  BY <1>1, <1>4, <1>8 DEF TypeOK
<1>10. delivered' = delivered + Len(u)
  BY <1>2, <1>7
<1> HIDE DEF u, v
<1>11. CASE v # <<>> /\ UNCHANGED <<buf_idx, dma>>
  <2>1. InView(cur, [dat EXCEPT ![cur] = v], D, delivered + Len(u), captured)
        /\ Ready(cur, [dat EXCEPT ![cur] = v], D)
    BY <1>4, <1>5, <1>6, <1>7, <1>11, InViewDrain
  <2> QED
    BY <1>2, <1>9, <1>10, <1>11, <2>1
<1>12. CASE v = <<>> /\ Enqueue("in", b[p], <<>>) /\ NEXT_BUF("in")
            /\ Loop(p, "in", left[p] - ReadChunk(p))
  <2> DEFINE x == [frag |-> cur, units |-> <<>>]
  <2>0. <<>> \in Seq(Nat)
    OBVIOUS
  <2>1. x \in Entries /\ x.frag = cur
    BY <1>4, <2>0 DEF Entries
  <2>2. dma'["in"] = Append(D, x)
    BY <1>1, <1>4, <1>12 DEF Enqueue, TypeOK
  <2>3. buf_idx'["in"] = (cur + 1) % NbFrags
    BY <1>1, <1>12 DEF NEXT_BUF, TypeOK
  <2>4. ~Queued(D, cur)
    <3>1. <<p, cur>> \in HeldOf("in")
      BY <1>1, <1>2, <1>4, HeldFacts
    <3> QED
      BY <1>1, <1>4, <3>1 DEF StreamsExclusive, Exclusive, Queued
  <2>7. Joins(u, <<>>, dat[cur])
    BY <1>7, <1>12
  <2> HIDE DEF x
  <2>5. /\ InView((cur + 1) % NbFrags, [dat EXCEPT ![cur] = <<>>], Append(D, x),
                  delivered + Len(u), captured)
        /\ dat[cur] # <<>> =>
             Ready((cur + 1) % NbFrags, [dat EXCEPT ![cur] = <<>>], Append(D, x))
    BY <1>4, <1>5, <1>7, <2>1, <2>4, <2>7, InViewSend
  <2>6. Reading' \/ dat[cur] # <<>>
    <3>1. left[p] - ReadChunk(p) > 0 => op' = op
      <4>1. left[p] - ReadChunk(p) > 0 => left[p] - ReadChunk(p) # 0
        BY <1>1, <1>6 DEF TypeOK
      <4> QED
        BY <1>12, <4>1 DEF Loop
    <3>2. op' = op => Reading'
      BY <1>2 DEF Reading
    <3> QED
      BY <1>4, <1>6, <3>1, <3>2
  <2>8. data'["in"] = [dat EXCEPT ![cur] = <<>>]
    BY <1>9, <1>12
  <2>9. InView(buf_idx'["in"], data'["in"], dma'["in"], delivered', captured')
    BY <1>2, <1>10, <2>2, <2>3, <2>5, <2>8
  <2>10. dat[cur] # <<>> => Ready(buf_idx'["in"], data'["in"], dma'["in"])
    BY <2>2, <2>3, <2>5, <2>8
  <2> QED
    BY <2>6, <2>9, <2>10
<1>13. ~EnqueueFails("in")
  BY <1>3 DEF EnqueueFails
<1>14. \/ v # <<>> /\ UNCHANGED <<buf_idx, dma>>
       \/ /\ v = <<>>
          /\ Enqueue("in", b[p], <<>>) \/ EnqueueFails("in")
          /\ NEXT_BUF("in")
          /\ Loop(p, "in", left[p] - ReadChunk(p))
  BY DEF ReadCopy, v
<1> QED
  BY <1>11, <1>12, <1>13, <1>14

\* An orderly input stays orderly.
LEMMA InputStep ==
  ASSUME Known, stale = {}, stale' = {}, Alone, LeftPositive, Pristine, AtCurrent, Accounted,
         Input, NEW p \in Procs, Acts(p)
  PROVE  Input'
<1>1. TypeOK /\ Places /\ Others(p)
  BY OthersStay DEF Known, Safe
<1>2. ASSUME InSame, op'[p] = op[p] \/ op[p] # "read" PROVE Input'
  BY <1>1, <1>2, ReadingStays, InputSame
<1>3. CASE Idle(p)
  BY <1>1, <1>2, <1>3, InQuiet DEF Idle
<1>4. CASE Ends(p)
  <2>1. InSame
    BY <1>1, <1>4, InQuiet
  <2>2. CASE op[p] = "read"
    <3>1. pc[p] = "down" /\ sem["in"][b[p]] = 0
      BY <1>4, <2>2 DEF Ends, LoopDownFails, LoopStream
    <3> QED
      BY <2>1, <2>2, <3>1, ReadReturns
  <2> QED
    BY <1>2, <2>1, <2>2
<1>5. CASE Sleeps(p)
  BY <1>1, <1>2, <1>5, InQuiet DEF Sleeps
<1>6. CASE Enters(p)
  <2>1. op[p] = "none"
    BY <1>6, Entered
  <2>2. ASSUME NEW n \in Counts, ReadCall(p, n) PROVE Input'
    <3>1. op'[p] = "read"
      BY <1>1, <2>2 DEF ReadCall, Enter, TypeOK
    <3> QED
      BY <2>2, <3>1, InputRead
  <2>3. CASE (\E n \in Counts : WriteCall(p, n)) \/ SyncCall(p) \/ PollCall(p)
    BY <1>1, <1>2, <2>1, <2>3, InQuiet
  <2> QED
    BY <1>6, <2>2, <2>3 DEF Enters
<1>7. ASSUME NEW S \in SUBSET Streams, audio_clear_buf(S, p), op[p] # "read" PROVE Input'
  BY <1>1, <1>7, ReadingStays, InputCleared
<1>8. ASSUME NEW S \in SUBSET Streams, Clears(p, S) PROVE Input'
  <2>1. op[p] # "read"
    BY <1>1, <1>8 DEF Clears, At, Places
  <2> QED
    BY <1>7, <1>8, <2>1 DEF Clears
<1>9. CASE ReleaseSync(p)
  <2>1. audio_clear_buf(mode[fd[p]] \ {"out"}, p) /\ mode[fd[p]] \ {"out"} \in SUBSET Streams
    BY <1>1, <1>9 DEF ReleaseSync, OpenFile, TypeOK
  <2>2. op[p] # "read"
    BY <1>9, ReleaseBegun
  <2> QED
    BY <1>7, <2>1, <2>2
<1>10. CASE LoopDown(p)
  BY <1>1, <1>2, <1>10, InQuiet DEF LoopDown
<1>11. CASE LoopFault(p)
  <2>1. InSame
    BY <1>1, <1>11, InQuiet
  <2>2. CASE op[p] = "read"
    <3>1. data["in"][b[p]] # <<>>
      BY <1>11, <2>2 DEF LoopFault
    <3> QED
      BY <2>1, <2>2, <3>1, ReadReturns
  <2> QED
    BY <1>2, <2>1, <2>2
<1>12. CASE WriteCopy(p)
  BY <1>1, <1>2, <1>12, InQuiet DEF WriteCopy, At
<1>13. CASE ReadCopy(p)
  BY <1>13, InputCopy
<1>14. CASE SyncDown(p)
  BY <1>1, <1>2, <1>14, InQuiet DEF SyncDown
<1> QED
  BY <1>3, <1>4, <1>5, <1>6, <1>8, <1>9, <1>10, <1>11, <1>12, <1>13, <1>14, Kinds

\* The DMA fills the first of its queue.
LEMMA InputCallback ==
  ASSUME Known, stale = {}, Input, audio_dmaout_done_callback \/ audio_dmain_done_callback
  PROVE  Input'
<1>1. TypeOK /\ "in" \in Streams /\ "out" \in Streams /\ "in" # "out"
  BY DEF Known, Safe, Streams
<1>2. buf_idx' = buf_idx /\ overlapped' = overlapped /\ leaked' = leaked /\ op' = op
  BY <1>1, CallbackUsing
<1>3. (Reading' <=> Reading) /\ (Orderly("in")' <=> Orderly("in"))
  BY <1>2 DEF Reading, Orderly
<1>4. CASE audio_dmaout_done_callback
  <2>1. data' = data /\ dma'["in"] = dma["in"] /\ delivered' = delivered /\ captured' = captured
    BY <1>1, <1>4 DEF audio_dmaout_done_callback, TypeOK
  <2> QED
    BY <1>2, <1>3, <2>1 DEF Input
<1>5. CASE audio_dmain_done_callback
  <2> SUFFICES ASSUME Orderly("in")
               PROVE  /\ InView(buf_idx'["in"], data'["in"], dma'["in"], delivered', captured')
                      /\ Reading \/ Ready(buf_idx'["in"], data'["in"], dma'["in"])
    BY <1>3 DEF Input
  <2> DEFINE cur == buf_idx["in"]
             dat == data["in"]
             D == dma["in"]
             f == D[1].frag
             v == Units(captured, captured + FragSize)
  <2>1. /\ cur \in Frags /\ D \in Seq(Entries) /\ dat \in [Frags -> Seq(Nat)]
        /\ delivered \in Nat /\ captured \in Nat /\ FragSize \in Nat /\ FragSize # 0
    BY <1>1, SoundAssumption DEF TypeOK
  <2>2. /\ D # <<>> /\ Head(D).frag = f /\ f \in Frags
    BY <1>1, <1>5, HeadFacts DEF audio_dmain_done_callback
  <2>3. /\ data' = [data EXCEPT !["in"][f] = v]
        /\ dma' = [dma EXCEPT !["in"] = Tail(D)]
        /\ captured' = captured + FragSize /\ delivered' = delivered
    BY <1>5, <2>2 DEF audio_dmain_done_callback
  <2>4. data'["in"] = [dat EXCEPT ![f] = v] /\ dma'["in"] = Tail(D)
    BY <1>1, <2>2, <2>3 DEF TypeOK
  <2>5. InView(cur, dat, D, delivered, captured) /\ (Reading \/ Ready(cur, dat, D))
    BY DEF Input
  <2>6. /\ InView(cur, [dat EXCEPT ![f] = v], Tail(D), delivered, captured + FragSize)
        /\ Ready(cur, dat, D) => Ready(cur, [dat EXCEPT ![f] = v], Tail(D))
    BY <2>1, <2>2, <2>5, InViewDone
  <2> QED
    BY <1>2, <2>3, <2>4, <2>5, <2>6
<1> QED
  BY <1>4, <1>5

-----------------------------------------------------------------------------
(* The output *)

Releasing == \E p \in Procs : op[p] = "release"

\* What an orderly output looks like.
Output ==
  Orderly("out") =>
    /\ OutOrder(buf_idx["out"], data["out"], dma["out"], played, accepted)
    /\ \/ Consecutive(buf_idx["out"], dma["out"])
       \/ played = accepted /\ Releasing

\* Fragment f is what a sync that comes to wait now waits for.
SettledAt(f) ==
  Settled(buf_idx["out"], data["out"], dma["out"], played, accepted, f)

\* A sync or release p knows what to wait for.
Waits(p) ==
  op[p] \in {"sync", "release"} =>
    /\ pc[p] = "wait" => SettledAt(b[p])
    /\ pc[p] = "down" => b[p] = buf_idx["out"] \/ (SettledAt(b[p]) /\ Releasing)

Syncing == Orderly("out") => \A p \in Procs : Waits(p)

\* A release goes on while somebody else acts.
LEMMA ReleasingStays ==
  ASSUME Releasing, NEW p \in Procs, Others(p), op'[p] = op[p] \/ op[p] # "release"
  PROVE  Releasing'
<1>1. PICK q \in Procs : op[q] = "release"
  BY DEF Releasing
<1> QED
  BY <1>1 DEF Releasing, Others

\* Steps that leave the output alone, and no release ends.
LEMMA OutputSame ==
  ASSUME Output, OutSame, Releasing => Releasing'
  PROVE  Output'
BY DEF Output, OutSame

\* A sync that stays where it is goes on to know what to wait for.
LEMMA WaitsSame ==
  ASSUME OutSame, Releasing => Releasing', NEW q, op'[q] = op[q], pc'[q] = pc[q], b'[q] = b[q],
         Waits(q)
  PROVE  Waits(q)'
BY DEF Waits, SettledAt, OutSame

\* Steps that leave the output alone leave every sync its fragment.
LEMMA SyncingSame ==
  ASSUME Syncing, OutSame, Releasing => Releasing', NEW p \in Procs, Others(p),
         Orderly("out")' => Waits(p)'
  PROVE  Syncing'
<1> SUFFICES ASSUME Orderly("out")', NEW q \in Procs \ {p} PROVE Waits(q)'
  BY DEF Syncing
<1>1. Orderly("out") /\ Waits(q)
  BY DEF Syncing, OutSame
<1>2. op'[q] = op[q] /\ pc'[q] = pc[q] /\ b'[q] = b[q]
  BY DEF Others
<1> QED
  BY <1>1, <1>2, WaitsSame

\* A sync that begins when no release is under way knows what to wait for.
LEMMA WaitsBegun ==
  ASSUME Known, Output, OutSame, Orderly("out")', ~Releasing, NEW p,
         \/ pc'[p] = "down" /\ b'[p] = buf_idx["out"]
         \/ /\ pc'[p] = "wait" /\ b'[p] = Prev(buf_idx["out"])
            /\ data["out"][buf_idx["out"]] = <<>>
  PROVE  Waits(p)'
<1>1. TypeOK /\ Orderly("out") /\ "out" \in Streams
  BY DEF Known, Safe, OutSame, Streams
<1>2. CASE pc'[p] = "down" /\ b'[p] = buf_idx["out"]
  BY <1>2 DEF Waits, OutSame
<1>3. CASE /\ pc'[p] = "wait" /\ b'[p] = Prev(buf_idx["out"])
           /\ data["out"][buf_idx["out"]] = <<>>
  <2>1. /\ buf_idx["out"] \in Frags /\ data["out"] \in [Frags -> Seq(Nat)]
        /\ dma["out"] \in Seq(Entries) /\ played \in Nat /\ accepted \in Nat
    BY <1>1 DEF TypeOK
  <2>2. /\ OutOrder(buf_idx["out"], data["out"], dma["out"], played, accepted)
        /\ Consecutive(buf_idx["out"], dma["out"])
    BY <1>1 DEF Output
  <2>3. SettledAt(Prev(buf_idx["out"]))
    BY <1>3, <2>1, <2>2, SettledLast DEF SettledAt
  <2> QED
    BY <1>3, <2>3 DEF Waits, SettledAt, OutSame
<1> QED
  BY <1>2, <1>3

\* Nobody releases the output that another thread begins to use in order.
LEMMA NoRelease ==
  ASSUME Known, stale = {}, NEW p \in Procs,
         \/ /\ SyncCall(p) /\ "out" \notin overlapped'
         \/ ReleaseSync(p)
  PROVE  ~Releasing
<1>1. TypeOK /\ Places
  BY DEF Known, Safe
<1> SUFFICES ASSUME NEW r \in Procs, op[r] = "release" PROVE FALSE
  BY DEF Releasing
<1>2. "out" \in Using(r)
  BY LoopUsing
<1>3. CASE SyncCall(p) /\ "out" \notin overlapped'
  BY <1>2, <1>3 DEF SyncCall, Enter
<1>4. CASE ReleaseSync(p)
  <2>1. pc[p] = "user" /\ fd[p] # None /\ LastReference(p) /\ "out" \in mode[fd[p]]
    BY <1>4 DEF ReleaseSync, OpenFile
  <2>2. r # p
    BY <1>1, <2>1 DEF Places
  <2> QED
    BY <1>2, <2>1, <2>2, ReleaseMeets
<1> QED
  BY <1>3, <1>4

\* The output is cleared.
LEMMA OutputCleared ==
  ASSUME Known, Output, Syncing, NEW S \in SUBSET Streams, NEW p \in Procs,
         audio_clear_buf(S, p), stale' = {}, Others(p), op'[p] = "none",
         op[p] # "release" \/ "out" \in S
  PROVE  Output' /\ Syncing'
<1>1. TypeOK
  BY DEF Known, Safe
<1>2. CASE "out" \in S
  <2>1. /\ buf_idx'["out"] = 0 /\ data'["out"] = Empty /\ dma'["out"] = <<>>
        /\ accepted' = 0 /\ played' = 0
    BY <1>1, <1>2, Cleared
  <2>2. 0 \in Frags /\ 0 \in Nat
    BY FragFacts
  <2>3. OutOrder(0, Empty, <<>>, 0, 0)
    BY <2>2, OutEmpty
  <2>4. Consecutive(0, <<>>)
    BY QueueEmpty
  <2>5. Output'
    BY <2>1, <2>3, <2>4 DEF Output
  <2>6. ASSUME NEW q \in Procs PROVE op'[q] \notin {"sync", "release"}
    <3>1. CASE q = p
      BY <3>1
    <3>2. CASE q # p
      <4>1. "out" \notin Using(q) /\ op'[q] = op[q]
        BY <1>2, <3>2, ClearedNobody DEF Others
      <4> QED
        BY <4>1, LoopUsing
    <3> QED
      BY <3>1, <3>2
  <2> QED
    BY <2>5, <2>6 DEF Syncing, Waits
<1>3. CASE "out" \notin S
  <2>1. OutSame /\ (Releasing => Releasing')
    BY <1>1, <1>3, Cleared, ReleasingStays
  <2>2. Waits(p)'
    BY DEF Waits
  <2> QED
    BY <2>1, <2>2, OutputSame, SyncingSame
<1> QED
  BY <1>2, <1>3

\* There are at least two fragments.
LEMMA NextOther ==
  ASSUME NEW f \in Frags
  PROVE  (f + 1) % NbFrags \in Frags /\ (f + 1) % NbFrags # f
<1>1. NbFrags \in Nat /\ NbFrags > 1 /\ f \in Nat
  BY SoundAssumption DEF Frags
<1>2. (f + 1) % NbFrags = IF f + 1 < NbFrags THEN f + 1 ELSE 0
  BY NextIs
<1>3. (f + 1) % NbFrags # f
  BY <1>1, <1>2
<1>4. (f + 1) % NbFrags \in Frags
  BY SlotFacts
<1> QED
  BY <1>3, <1>4

\* A write fills the current fragment and, when it is full, sends it off.
LEMMA OutputWrite ==
  ASSUME Known, stale = {}, Alone, AtCurrent, Output, NEW p \in Procs, WriteCopy(p)
  PROVE  Output'
<1>1. TypeOK /\ Places /\ Fits /\ StreamsExclusive /\ "out" \in Streams /\ LoopStream(p) = "out"
  BY DEF Known, Safe, Streams, WriteCopy, At, LoopStream
<1>2. /\ op[p] = "write" /\ pc[p] = "copy" /\ overlapped' = overlapped
      /\ played' = played /\ accepted' = accepted + WriteChunk(p)
      /\ leaked \subseteq leaked'
  BY DEF WriteCopy, At, Enqueue, EnqueueFails
<1> SUFFICES ASSUME Orderly("out")'
             PROVE  /\ OutOrder(buf_idx'["out"], data'["out"], dma'["out"], played', accepted')
                    /\ Consecutive(buf_idx'["out"], dma'["out"])
  BY DEF Output
<1>3. Orderly("out") /\ "out" \notin leaked' /\ "out" \notin overlapped
  BY <1>2 DEF Orderly
<1> DEFINE cur == buf_idx["out"]
           dat == data["out"]
           D == dma["out"]
           n == WriteChunk(p)
           x == Filled(p)
<1>4. /\ b[p] = cur /\ cur \in Frags /\ D \in Seq(Entries) /\ dat \in [Frags -> Seq(Nat)]
      /\ played \in Nat /\ accepted \in Nat
  BY <1>1, <1>2, <1>3 DEF AtCurrent, TypeOK
<1>5. OutOrder(cur, dat, D, played, accepted) /\ Consecutive(cur, D)
  <2>1. ~Releasing
    <3> SUFFICES ASSUME NEW r \in Procs, op[r] = "release" PROVE FALSE
      BY DEF Releasing
    <3>1. r # p /\ "out" \in Using(r)
      BY <1>2, LoopUsing
    <3> QED
      BY <1>2, <1>3, <3>1, AloneWith
  <2> QED
    BY <1>3, <2>1 DEF Output
<1>6. n \in Nat /\ x \in Seq(Nat) /\ accepted + n \in Nat
  BY <1>1, <1>4, WriteFacts
<1>7. OutOrder(cur, [dat EXCEPT ![cur] = dat[cur] \o Units(accepted, accepted + n)], D,
               played, accepted + n)
  <2> HIDE DEF n
  <2> QED
    BY <1>4, <1>5, <1>6, OutFill
<1>8. OutOrder(cur, [dat EXCEPT ![cur] = x], D, played, accepted + n)
  BY <1>4, <1>7 DEF Filled
<1>9. CASE data' = [data EXCEPT !["out"][b[p]] = x] /\ UNCHANGED <<buf_idx, dma>>
  <2>1. data'["out"] = [dat EXCEPT ![cur] = x]
    BY <1>1, <1>4, <1>9 DEF TypeOK
  <2> QED
    BY <1>2, <1>5, <1>8, <1>9, <2>1
<1>10. CASE /\ Enqueue("out", b[p], x) /\ data' = [data EXCEPT !["out"][b[p]] = <<>>]
            /\ NEXT_BUF("out")
  <2> DEFINE e == [frag |-> cur, units |-> x]
             dat1 == [dat EXCEPT ![cur] = x]
             nxt == (cur + 1) % NbFrags
  <2>1. e \in Entries /\ e.frag = cur /\ e.units = x
    BY <1>4, <1>6 DEF Entries
  <2>2. dma'["out"] = Append(D, e)
    BY <1>1, <1>4, <1>10 DEF Enqueue, TypeOK
  <2>3. buf_idx'["out"] = nxt
    BY <1>1, <1>10 DEF NEXT_BUF, TypeOK
  <2>4. dat1 \in [Frags -> Seq(Nat)] /\ dat1[cur] = x
    BY <1>4, <1>6
  <2>5. data'["out"] = [dat1 EXCEPT ![cur] = <<>>]
    <3> HIDE DEF x
    <3>1. data'["out"] = [dat EXCEPT ![cur] = <<>>]
      BY <1>1, <1>4, <1>10 DEF TypeOK
    <3>2. [dat1 EXCEPT ![cur] = <<>>] = [dat EXCEPT ![cur] = <<>>]
      BY <1>4
    <3> QED
      BY <3>1, <3>2
  <2>6. ~Queued(D, cur)
    <3>1. <<p, cur>> \in HeldOf("out")
      BY <1>1, <1>2, <1>4, HeldFacts
    <3> QED
      BY <1>1, <1>4, <3>1 DEF StreamsExclusive, Exclusive, Queued
  <2>7. nxt \in Frags /\ nxt # cur
    BY <1>4, NextOther
  <2> HIDE DEF e, dat1, nxt, x, n
  <2>8. OutOrder(nxt, [dat1 EXCEPT ![cur] = <<>>], Append(D, e), played, accepted + n)
    <3>1. OutOrder(cur, dat1, D, played, accepted + n)
      BY <1>8 DEF dat1
    <3> QED
      BY <1>4, <1>6, <2>1, <2>4, <2>7, <3>1, OutSend
  <2>9. Consecutive(nxt, Append(D, e))
    <3>1. Consecutive((cur + 1) % NbFrags, Append(D, e))
      BY <1>4, <1>5, <2>1, <2>6, QueueSend
    <3> QED
      BY <3>1 DEF nxt
  <2>10. accepted' = accepted + n
    BY <1>2 DEF n
  <2> QED
    BY <1>2, <2>2, <2>3, <2>5, <2>8, <2>9, <2>10
<1>11. ~EnqueueFails("out")
  BY <1>3 DEF EnqueueFails
<1>12. \/ data' = [data EXCEPT !["out"][b[p]] = x] /\ UNCHANGED <<buf_idx, dma>>
       \/ /\ Enqueue("out", b[p], x) /\ data' = [data EXCEPT !["out"][b[p]] = <<>>]
          /\ NEXT_BUF("out")
       \/ EnqueueFails("out")
  BY DEF WriteCopy
<1> QED
  BY <1>9, <1>10, <1>11, <1>12

\* Nobody waits while a write is going on.
LEMMA SyncingWrite ==
  ASSUME Known, stale = {}, Alone, Syncing, NEW p \in Procs, WriteCopy(p), Others(p)
  PROVE  Syncing'
<1>1. TypeOK /\ "out" \in Streams
  BY DEF Known, Safe, Streams
<1>2. /\ op[p] = "write" /\ overlapped' = overlapped
      /\ (Return(p) \/ Loop(p, "out", left[p] - WriteChunk(p)))
  BY DEF WriteCopy, At
<1> SUFFICES ASSUME Orderly("out")', NEW q \in Procs, op'[q] \in {"sync", "release"}
             PROVE  FALSE
  BY DEF Syncing, Waits
<1>3. "out" \notin overlapped
  BY <1>2 DEF Orderly
<1>4. q # p
  BY <1>1, <1>2, GoesRound
<1>5. op[q] \in {"sync", "release"}
  BY <1>4 DEF Others
<1> QED
  BY <1>2, <1>3, <1>4, <1>5, AloneWith, LoopUsing

\* A sync sends the current fragment off, or when it comes late an empty one
\* once everything has been played.
LEMMA OutputSync ==
  ASSUME Known, stale = {}, Alone, Output, Syncing, NEW p \in Procs, SyncDown(p), Others(p)
  PROVE  Output' /\ Syncing'
<1>1. TypeOK /\ Places /\ StreamsExclusive /\ "out" \in Streams
  BY DEF Known, Safe, Streams
<1>2. /\ op[p] \in {"sync", "release"} /\ op' = op /\ pc[p] = "down" /\ pc'[p] = "wait"
      /\ b'[p] = buf_idx["out"] /\ buf_idx'["out"] = (buf_idx["out"] + 1) % NbFrags
  BY SyncedTo
<1>3. /\ overlapped' = overlapped /\ leaked \subseteq leaked'
      /\ played' = played /\ accepted' = accepted
      /\ Down("out", b[p]) /\ data' = [data EXCEPT !["out"][b[p]] = <<>>]
      /\ Enqueue("out", b[p], data["out"][b[p]]) \/ EnqueueFails("out")
  BY DEF SyncDown, Enqueue, EnqueueFails, unitVars
<1> SUFFICES ASSUME Orderly("out")' PROVE Output' /\ Syncing'
  BY DEF Output, Syncing
<1>4. Orderly("out") /\ "out" \notin leaked' /\ "out" \notin overlapped
  BY <1>3 DEF Orderly
<1>5. Enqueue("out", b[p], data["out"][b[p]])
  BY <1>3, <1>4 DEF EnqueueFails
<1> DEFINE cur == buf_idx["out"]
           nxt == (cur + 1) % NbFrags
           dat == data["out"]
           D == dma["out"]
           f == b[p]
           x == [frag |-> f, units |-> dat[f]]
           e == [dat EXCEPT ![f] = <<>>]
           E == Append(D, x)
<1>6. /\ f \in Frags /\ cur \in Frags /\ D \in Seq(Entries) /\ dat \in [Frags -> Seq(Nat)]
      /\ played \in Nat /\ accepted \in Nat /\ sem["out"][f] # 0
  BY <1>1, <1>3 DEF TypeOK, Down
<1>7. x \in Entries /\ x.frag = f /\ x.units = dat[f]
  BY <1>6 DEF Entries
<1>8. dma'["out"] = E /\ data'["out"] = e /\ buf_idx'["out"] = nxt
  <2>1. dma'["out"] = E
    BY <1>1, <1>5, <1>6 DEF Enqueue, TypeOK
  <2>2. data'["out"] = e
    BY <1>1, <1>3, <1>6 DEF TypeOK
  <2>3. buf_idx'["out"] = nxt
    BY <1>2
  <2> QED
    BY <2>1, <2>2, <2>3
<1>9. nxt \in Frags /\ nxt # cur
  BY <1>6, NextOther
<1>10. /\ OutOrder(cur, dat, D, played, accepted)
       /\ Consecutive(cur, D) \/ (played = accepted /\ Releasing)
       /\ \A q \in Procs : Waits(q)
  BY <1>4 DEF Output, Syncing
<1>11. ~Queued(D, f)
  BY <1>1, <1>6 DEF StreamsExclusive, Exclusive, Queued
<1>12. ASSUME f # cur
       PROVE  SettledAt(f) /\ Releasing /\ played = accepted /\ dat[cur] = <<>>
  <2>1. SettledAt(f) /\ Releasing
    BY <1>2, <1>10, <1>12 DEF Waits
  <2> QED
    BY <1>11, <2>1 DEF SettledAt, Settled, Queued
<1>13. Releasing' = Releasing
  BY <1>2 DEF Releasing
<1>16. \A g \in Frags : g # cur => dat[g] = <<>>
  BY <1>10 DEF OutOrder
<1>17. e[nxt] = <<>>
  BY <1>6, <1>9, <1>16
<1> HIDE DEF nxt, x
<1>14. OutOrder(nxt, e, E, played, accepted)
  <2>1. CASE f = cur
    <3>1. OutOrder(nxt, [dat EXCEPT ![cur] = <<>>], Append(D, x), played, accepted)
      BY <1>6, <1>7, <1>9, <1>10, <2>1, OutSend
    <3> QED
      BY <2>1, <3>1
  <2>2. CASE f # cur
    BY <1>6, <1>7, <1>9, <1>10, <1>12, <2>2, OutSendEmpty
  <2> QED
    BY <2>1, <2>2
<1>15. Consecutive(nxt, E) \/ (played = accepted /\ Releasing)
  <2>1. CASE f = cur /\ Consecutive(cur, D)
    <3>1. Consecutive((cur + 1) % NbFrags, Append(D, x))
      BY <1>6, <1>7, <1>11, <2>1, QueueSend
    <3> QED
      BY <3>1 DEF nxt
  <2> QED
    BY <1>10, <1>12, <2>1
<1> HIDE DEF e, E
<1>18. Output'
  BY <1>3, <1>8, <1>13, <1>14, <1>15 DEF Output
<1>19. /\ Settled(nxt, e, E, played, accepted, f)
       /\ \A g : dat[f] = <<>> /\ SettledAt(g) => Settled(nxt, e, E, played, accepted, g)
  BY <1>6, <1>7, <1>17, SettledSend DEF E, SettledAt
<1>21. \A g : Settled(nxt, e, E, played, accepted, g)
               <=> Settled(buf_idx'["out"], data'["out"], dma'["out"], played', accepted', g)
  BY <1>3, <1>8
<1>22. Settled(nxt, e, E, played, accepted, cur)
  <2>1. CASE f = cur
    BY <1>19, <2>1
  <2>2. CASE f # cur
    BY <1>12, <1>17, <2>2 DEF Settled
  <2> QED
    BY <2>1, <2>2
<1>23. ASSUME NEW q \in Procs \ {p}, op'[q] \in {"sync", "release"}
       PROVE  Waits(q)'
  <2>1. op[q] = op'[q] /\ pc'[q] = pc[q] /\ b'[q] = b[q] /\ Waits(q)
    BY <1>10 DEF Others
  <2>2. Releasing
    <3>1. SyncAndRelease(op[p], op[q])
      BY <1>2, <1>4, <1>23, <2>1, AloneWith, LoopUsing
    <3> QED
      BY <3>1 DEF SyncAndRelease, Releasing
  <2>3. ASSUME SettledAt(b[q]) PROVE Settled(nxt, e, E, played, accepted, b[q])
    <3>1. dat[cur] = <<>>
      BY <2>3 DEF SettledAt, Settled
    <3>2. dat[f] = <<>>
      BY <1>6, <1>16, <3>1
    <3> QED
      BY <1>19, <2>3, <3>2
  <2>4. CASE pc[q] = "wait"
    BY <1>21, <1>23, <2>1, <2>3, <2>4 DEF Waits, SettledAt
  <2>5. CASE pc[q] = "down"
    <3>1. Settled(nxt, e, E, played, accepted, b[q])
      BY <1>22, <1>23, <2>1, <2>3, <2>5 DEF Waits
    <3> QED
      BY <1>13, <1>21, <2>1, <2>2, <2>5, <3>1 DEF Waits, SettledAt
  <2> QED
    BY <2>1, <2>4, <2>5 DEF Waits
<1>24. Waits(p)'
  BY <1>2, <1>21, <1>22 DEF Waits, SettledAt
<1>25. Syncing'
  BY <1>23, <1>24 DEF Syncing, Waits
<1> QED
  BY <1>18, <1>25

\* An orderly output stays orderly.
LEMMA OutputStep ==
  ASSUME Known, stale = {}, stale' = {}, Alone, AtCurrent, Output, Syncing,
         NEW p \in Procs, Acts(p)
  PROVE  Output' /\ Syncing'
<1>1. TypeOK /\ Places /\ Others(p)
  BY OthersStay DEF Known, Safe
<1>2. ASSUME OutSame, op'[p] = op[p] \/ op[p] # "release", Orderly("out")' => Waits(p)'
      PROVE  Output' /\ Syncing'
  BY <1>1, <1>2, ReleasingStays, OutputSame, SyncingSame
<1>3. ASSUME op'[p] \notin {"sync", "release"} PROVE Waits(p)'
  BY <1>3 DEF Waits
<1>4. CASE Idle(p)
  <2>1. OutSame /\ op'[p] = op[p] /\ pc'[p] = pc[p] /\ b'[p] = b[p]
    BY <1>1, <1>4, OutQuiet DEF Idle
  <2>2. Releasing => Releasing'
    BY <1>1, <2>1, ReleasingStays
  <2>3. Orderly("out")' => Waits(p)'
    BY <2>1, <2>2, WaitsSame DEF Syncing, OutSame
  <2> QED
    BY <1>2, <2>1, <2>3
<1>5. CASE Ends(p)
  BY <1>1, <1>2, <1>3, <1>5, OutQuiet, ReturnOthers DEF Ends
<1>6. CASE Sleeps(p)
  BY <1>1, <1>2, <1>3, <1>6, OutQuiet DEF Sleeps
<1>7. CASE Enters(p)
  <2>1. OutSame /\ op[p] # "release"
    BY <1>1, <1>7, OutQuiet, Entered
  <2>2. CASE op'[p] # "sync"
    BY <1>2, <1>3, <1>7, <2>1, <2>2, Entered
  <2>3. CASE op'[p] = "sync"
    <3>1. /\ SyncCall(p)
          /\ \/ pc'[p] = "down" /\ b'[p] = buf_idx["out"]
             \/ /\ pc'[p] = "wait" /\ b'[p] = Prev(buf_idx["out"])
                /\ data["out"][buf_idx["out"]] = <<>>
      BY <1>7, <2>3, Entered
    <3>2. Orderly("out")' => ~Releasing
      BY <3>1, NoRelease DEF Orderly
    <3>3. Orderly("out")' => Waits(p)'
      BY <2>1, <3>1, <3>2, WaitsBegun
    <3> QED
      BY <1>2, <2>1, <3>3
  <2> QED
    BY <2>2, <2>3
<1>8. ASSUME NEW S \in SUBSET Streams, Clears(p, S) PROVE Output' /\ Syncing'
  <2>1. CASE UNCHANGED <<op, pc, b, left>> /\ pc[p] = "user"
    BY <1>1, <1>8, <2>1, OutputCleared DEF Clears, Places
  <2>2. CASE Return(p) /\ S = {"out"}
    BY <1>1, <1>8, <2>2, OutputCleared, ReturnOthers DEF Clears
  <2> QED
    BY <1>8, <2>1, <2>2 DEF Clears
<1>9. CASE ReleaseSync(p)
  <2>1. OutSame /\ op[p] # "release" /\ ~Releasing
    BY <1>1, <1>9, OutQuiet, ReleaseBegun, NoRelease
  <2>2. Orderly("out")' => Waits(p)'
    BY <1>9, <2>1, ReleaseBegun, WaitsBegun
  <2> QED
    BY <1>2, <2>1, <2>2
<1>10. CASE LoopDown(p)
  BY <1>1, <1>2, <1>3, <1>10, OutQuiet DEF LoopDown
<1>11. CASE LoopFault(p)
  BY <1>1, <1>2, <1>3, <1>11, OutQuiet, ReturnOthers DEF LoopFault
<1>12. CASE WriteCopy(p)
  BY <1>1, <1>12, OutputWrite, SyncingWrite
<1>13. CASE ReadCopy(p)
  <2>1. op[p] = "read" /\ (Return(p) \/ Loop(p, "in", left[p] - ReadChunk(p)))
    BY <1>13 DEF ReadCopy, At
  <2>2. op'[p] \in {"none", "read"}
    BY <1>1, <2>1, GoesRound DEF Streams
  <2> QED
    BY <1>1, <1>2, <1>3, <1>13, <2>1, <2>2, OutQuiet
<1>14. CASE SyncDown(p)
  BY <1>1, <1>14, OutputSync
<1> QED
  BY <1>4, <1>5, <1>6, <1>7, <1>8, <1>9, <1>10, <1>11, <1>12, <1>13, <1>14, Kinds

\* The DMA has played the first of its queue.
LEMMA OutputCallback ==
  ASSUME Known, stale = {}, Output, Syncing,
         audio_dmaout_done_callback \/ audio_dmain_done_callback
  PROVE  Output' /\ Syncing'
<1>1. TypeOK /\ Places /\ "in" \in Streams /\ "out" \in Streams /\ "in" # "out"
  BY DEF Known, Safe, Streams
<1>2. /\ buf_idx' = buf_idx /\ overlapped' = overlapped /\ leaked' = leaked /\ op' = op
      /\ b' = b
      /\ \A q \in Procs : pc'[q] = pc[q] \/ (pc[q] = "pollsleep" /\ pc'[q] = "poll")
  BY <1>1, CallbackUsing
<1>3. (Releasing' <=> Releasing) /\ (Orderly("out")' <=> Orderly("out"))
  BY <1>2 DEF Releasing, Orderly
<1>4. ASSUME NEW q \in Procs, Waits(q), \A g : SettledAt(g) => SettledAt(g)'
      PROVE  Waits(q)'
  BY <1>2, <1>3, <1>4 DEF Waits
<1>5. CASE audio_dmain_done_callback
  <2>1. data'["out"] = data["out"] /\ dma'["out"] = dma["out"] /\ played' = played
        /\ accepted' = accepted
    BY <1>1, <1>5 DEF audio_dmain_done_callback, TypeOK
  <2>2. OutSame
    BY <1>2, <1>3, <2>1 DEF OutSame
  <2>3. \A g : SettledAt(g) => SettledAt(g)'
    BY <1>2, <2>1 DEF SettledAt
  <2> QED
    BY <1>3, <1>4, <2>2, <2>3, OutputSame DEF Syncing
<1>6. CASE audio_dmaout_done_callback
  <2> SUFFICES ASSUME Orderly("out") PROVE Output' /\ Syncing'
    BY <1>3 DEF Output, Syncing
  <2> DEFINE cur == buf_idx["out"]
             dat == data["out"]
             D == dma["out"]
             n == Newest(played, D[1].units)
  <2>1. /\ cur \in Frags /\ D \in Seq(Entries) /\ dat \in [Frags -> Seq(Nat)]
        /\ played \in Nat /\ accepted \in Nat
    BY <1>1 DEF TypeOK
  <2>2. D # <<>> /\ Head(D) = D[1]
    BY <1>1, <1>6, HeadFacts DEF audio_dmaout_done_callback
  <2>3. /\ data' = data /\ dma'["out"] = Tail(D) /\ played' = n /\ accepted' = accepted
    BY <1>1, <1>6, <2>2 DEF audio_dmaout_done_callback, TypeOK, Newest
  <2>4. OutOrder(cur, dat, D, played, accepted)
        /\ (Consecutive(cur, D) \/ (played = accepted /\ Releasing))
        /\ \A q \in Procs : Waits(q)
    BY DEF Output, Syncing
  <2> HIDE DEF n
  <2>5. OutOrder(cur, dat, Tail(D), n, accepted) /\ n \in Nat /\ played <= n
    BY <2>1, <2>2, <2>4, OutDone DEF n
  <2>6. n <= accepted
    BY <2>5 DEF OutOrder
  <2>7. Consecutive(cur, D) => Consecutive(cur, Tail(D))
    BY <2>1, <2>2, QueueDone
  <2>8. played = accepted => n = accepted
    BY <2>1, <2>5, <2>6
  <2>9. Output'
    BY <1>2, <1>3, <2>3, <2>4, <2>5, <2>7, <2>8 DEF Output
  <2>10. ASSUME NEW g, SettledAt(g) PROVE SettledAt(g)'
    <3>1. Settled(cur, dat, Tail(D), n, accepted, g)
      BY <2>1, <2>2, <2>4, <2>10, SettledDone DEF SettledAt, n
    <3> QED
      BY <1>2, <2>3, <3>1 DEF SettledAt
  <2> QED
    BY <1>4, <2>4, <2>9, <2>10 DEF Syncing
<1> QED
  BY <1>5, <1>6

-----------------------------------------------------------------------------
(* The four promises *)

Ordered ==
  /\ Alone /\ SyncPlaces /\ LeftPositive /\ Pristine /\ AtCurrent /\ Accounted
  /\ Input /\ Output /\ Syncing

\* As long as every handler's buffers are its own.
OrderedInv == stale = {} => Ordered

Promises == PlaysInOrder /\ CapturesInOrder /\ SyncDrains /\ PollPromise

\* At first nothing is anywhere.
LEMMA OrderedInit == Init => OrderedInv
<1> SUFFICES ASSUME Init PROVE Ordered
  BY DEF OrderedInv
<1>1. \A q \in Procs : op[q] = "none" /\ pc[q] = "user" /\ Using(q) = {}
  BY DEF Init, Using
<1>2. Alone /\ SyncPlaces /\ LeftPositive /\ AtCurrent
  BY <1>1 DEF Alone, SyncPlaces, LeftPositive, AtCurrent
<1>3. /\ buf_idx["in"] = 0 /\ data["in"] = Empty /\ dma["in"] = <<>>
      /\ buf_idx["out"] = 0 /\ data["out"] = Empty /\ dma["out"] = <<>>
      /\ delivered = 0 /\ captured = 0 /\ accepted = 0 /\ played = 0
  BY DEF Init, Streams
<1>4. 0 \in Frags /\ 0 \in Nat
  BY FragFacts
<1>5. Pristine
  BY <1>3 DEF Pristine
<1>6. Accounted
  <2>1. \A s \in Streams : sem[s] = Free
    BY DEF Init
  <2> QED
    BY <2>1, TracedFresh DEF Accounted
<1>7. Input
  <2>1. InView(0, Empty, <<>>, 0, 0) /\ Ready(0, Empty, <<>>)
    BY <1>4, InFresh
  <2> QED
    BY <1>3, <2>1 DEF Input
<1>8. Output
  <2>1. OutOrder(0, Empty, <<>>, 0, 0)
    BY <1>4, OutEmpty
  <2>2. Consecutive(0, <<>>)
    BY QueueEmpty
  <2> QED
    BY <1>3, <2>1, <2>2 DEF Output
<1>9. Syncing
  BY <1>1 DEF Syncing, Waits
<1> QED
  BY <1>2, <1>5, <1>6, <1>7, <1>8, <1>9 DEF Ordered

\* A step of a thread that frees nobody's buffers keeps the order.
LEMMA OrderedStep ==
  ASSUME Known, stale = {}, stale' = {}, Ordered, NEW p \in Procs, Acts(p)
  PROVE  Ordered'
<1>1. /\ Alone /\ SyncPlaces /\ LeftPositive /\ Pristine /\ AtCurrent /\ Accounted
      /\ Input /\ Output /\ Syncing
  BY DEF Ordered
<1>2. Alone' /\ SyncPlaces' /\ LeftPositive'
  BY <1>1, AloneActs, PlacesStep
<1>3. Pristine' /\ AtCurrent' /\ Accounted'
  BY <1>1, PristineStep, AtCurrentKept, AccountedStep
<1>4. Input'
  BY <1>1, InputStep
<1>5. Output' /\ Syncing'
  BY <1>1, OutputStep
<1> QED
  BY <1>2, <1>3, <1>4, <1>5 DEF Ordered

\* So does the DMA.
LEMMA OrderedCallback ==
  ASSUME Known, stale = {}, Ordered, audio_dmaout_done_callback \/ audio_dmain_done_callback
  PROVE  Ordered'
<1>1. TypeOK /\ Alone /\ SyncPlaces /\ LeftPositive /\ Pristine /\ AtCurrent /\ Accounted
      /\ Input /\ Output /\ Syncing
  BY DEF Ordered, Known, Safe
<1>2. /\ op' = op /\ b' = b /\ left' = left /\ buffers' = buffers /\ buf_idx' = buf_idx
      /\ overlapped' = overlapped /\ leaked' = leaked
      /\ \A q \in Procs : Using(q)' = Using(q)
      /\ \A q \in Procs : pc'[q] = pc[q] \/ (pc[q] = "pollsleep" /\ pc'[q] = "poll")
  BY <1>1, CallbackUsing
<1>3. Alone'
  BY <1>1, <1>2 DEF Alone
<1>4. SyncPlaces' /\ LeftPositive'
  <2>1. SyncPlaces'
    BY <1>1, <1>2 DEF SyncPlaces
  <2>2. LeftPositive'
    BY <1>1, <1>2 DEF LeftPositive
  <2> QED
    BY <2>1, <2>2
<1>5. Pristine'
  <2> SUFFICES ASSUME ~buffers["in"]
               PROVE  data'["in"] = data["in"] /\ dma'["in"] = dma["in"]
    BY <1>1, <1>2 DEF Pristine
  <2>1. audio_dmaout_done_callback
    BY <1>1 DEF Pristine, audio_dmain_done_callback
  <2> QED
    BY <1>1, <2>1 DEF audio_dmaout_done_callback, TypeOK, Streams
<1>6. AtCurrent'
  <2>1. \A q \in Procs : LoopStream(q)' = LoopStream(q)
    BY <1>2, LoopStreamStays
  <2> QED
    BY <1>1, <1>2, <2>1 DEF AtCurrent, Orderly
<1>7. Accounted'
  BY <1>1, AccountedCallback
<1>8. Input'
  BY <1>1, InputCallback
<1>9. Output' /\ Syncing'
  BY <1>1, OutputCallback
<1> QED
  BY <1>3, <1>4, <1>5, <1>6, <1>7, <1>8, <1>9 DEF Ordered

\* What an orderly output and an orderly input look like, in the words of the
\* properties.
LEMMA OutPromise ==
  ASSUME NEW cur \in Frags, NEW dat \in [Frags -> Seq(Nat)], NEW D \in Seq(Entries),
         NEW pl, NEW ac, OutOrder(cur, dat, D, pl, ac)
  PROVE  /\ FlattenSeq(Append([i \in 1 .. Len(D) |-> D[i].units], dat[cur])) = Units(pl, ac)
         /\ \A f \in Frags \ {cur} : dat[f] = <<>>
<1>1. SentOf(D) \in Seq(Seq(Nat)) /\ dat[cur] \in Seq(Nat)
  BY SentFacts
<1>2. FlattenSeq(Append(SentOf(D), dat[cur])) = FlattenSeq(SentOf(D)) \o dat[cur]
  BY <1>1, FlattenMore
<1> QED
  BY <1>2 DEF OutOrder, SentOf

\* The same for an input.
LEMMA InPromise ==
  ASSUME NEW cur, NEW dat, NEW D, NEW de, NEW ca, InView(cur, dat, D, de, ca)
  PROVE  FlattenSeq([i \in 1 .. NbFrags |-> dat[(cur + i - 1) % NbFrags]]) = Units(de, ca)
BY DEF InView, InOrder, RingOf, Slot

\* The order keeps the promises.
LEMMA OrderedPromises ==
  ASSUME Known, stale = {}, Ordered
  PROVE  Promises
<1>1. TypeOK /\ Places /\ StreamsExclusive /\ "in" \in Streams /\ "out" \in Streams
      /\ Streams = {"in", "out"}
  BY DEF Known, Safe, Streams
<1>2. /\ \A s \in Streams : /\ buf_idx[s] \in Frags /\ data[s] \in [Frags -> Seq(Nat)]
                            /\ dma[s] \in Seq(Entries) /\ sem[s] \in [Frags -> {0, 1}]
                            /\ Exclusive(HeldOf(s), sem[s], dma[s])
      /\ played \in Nat /\ accepted \in Nat /\ b \in [Procs -> Frags]
  BY <1>1 DEF TypeOK, StreamsExclusive
<1>3. /\ Alone /\ SyncPlaces /\ LeftPositive /\ Accounted /\ Input /\ Output /\ Syncing
  BY DEF Ordered
<1>4. \A s \in Streams : \A f : Queued(dma[s], f) => sem[s][f] = 0
  BY <1>2 DEF Exclusive, Queued
<1>5. PlaysInOrder
  <2>1. Orderly("out") => OutOrder(buf_idx["out"], data["out"], dma["out"], played, accepted)
    BY <1>3 DEF Output
  <2> QED
    BY <1>1, <1>2, <2>1, OutPromise DEF PlaysInOrder
<1>6. CapturesInOrder
  <2>1. Orderly("in") => InView(buf_idx["in"], data["in"], dma["in"], delivered, captured)
    BY <1>3 DEF Input
  <2> QED
    BY <2>1, InPromise DEF CapturesInOrder
<1>7. SyncDrains
  <2> SUFFICES ASSUME NEW p \in Procs, pc[p] = "wait", sem["out"][b[p]] = 1, Orderly("out")
               PROVE  played = accepted
    BY DEF SyncDrains
  <2>1. SettledAt(b[p])
    BY <1>3 DEF SyncPlaces, Syncing, Waits
  <2>2. ~Queued(dma["out"], b[p])
    BY <1>1, <1>4
  <2> QED
    BY <2>1, <2>2 DEF SettledAt, Settled, Queued
<1>8. PollPromise
  <2> SUFFICES ASSUME NEW p \in Procs, At(p, "poll", "poll"), NEW s \in mode[fd[p]],
                      sem[s][0] = 1, Orderly(s), s = "in" => data[s][0] # <<>>
               PROVE  sem[s][buf_idx[s]] = 1 /\ (s = "in" => data[s][buf_idx[s]] # <<>>)
    BY DEF PollPromise
  <2>1. op[p] = "poll" /\ s \in Using(p) /\ s \in Streams
    <3>1. op[p] = "poll"
      BY DEF At
    <3>2. fd[p] \in Files
      BY <1>1, <3>1 DEF TypeOK, Known, InsideFile
    <3> QED
      BY <1>1, <3>1, <3>2 DEF Using, TypeOK
  <2>2. ASSUME NEW q \in Procs, s \in Using(q) PROVE q = p
    <3>1. q # p => SyncAndRelease(op[p], op[q])
      BY <1>3, <2>1, <2>2 DEF Alone, Orderly
    <3> QED
      BY <2>1, <3>1 DEF SyncAndRelease
  <2>3. ASSUME NEW q \in Procs, op[q] \in {"write", "read", "release"} PROVE s \notin Using(q)
    BY <2>1, <2>2, <2>3
  <2>4. \A q \in Procs, f \in Frags : <<q, f>> \notin HeldOf(s)
    <3> SUFFICES ASSUME NEW q \in Procs, NEW f \in Frags, <<q, f>> \in HeldOf(s) PROVE FALSE
      OBVIOUS
    <3>1. pc[q] = "copy" /\ s = LoopStream(q)
      BY <1>1, <2>1, HeldFacts
    <3>2. op[q] \in {"write", "read"}
      BY <1>1, <3>1 DEF Places
    <3> QED
      BY <2>3, <3>1, <3>2, LoopUsing
  <2>5. \A f \in Frags : sem[s][f] = 0 => Queued(dma[s], f)
    <3>1. Traced(HeldOf(s), sem[s], dma[s])
      BY <1>3, <2>1 DEF Accounted, Orderly
    <3> QED
      BY <2>4, <3>1 DEF Traced
  <2>6. Consecutive(buf_idx[s], dma[s])
    <3>1. CASE s = "in"
      BY <1>3, <3>1 DEF Input, InView
    <3>2. CASE s = "out"
      <4>1. ~Releasing
        BY <2>3, <3>2, LoopUsing DEF Releasing
      <4> QED
        BY <1>3, <3>2, <4>1 DEF Output
    <3> QED
      BY <1>1, <2>1, <3>1, <3>2
  <2>7. Room(dma[s]) # 0
    <3>1. 0 \in Frags
      BY FragFacts
    <3>2. Room(dma[s]) = 0 => Queued(dma[s], 0)
      BY <1>2, <2>1, <2>6, <3>1, QueueFull
    <3> QED
      BY <1>4, <2>1, <3>2
  <2>8. Room(dma[s]) \in Nat /\ ~Queued(dma[s], buf_idx[s])
    BY <1>2, <2>1, <2>6, <2>7, QueueFull
  <2>9. sem[s][buf_idx[s]] = 1
    BY <1>2, <2>1, <2>5, <2>8
  <2>10. ASSUME s = "in" PROVE data[s][buf_idx[s]] # <<>>
    <3>1. ~Reading
      BY <2>3, <2>10, LoopUsing DEF Reading
    <3>2. Ready(buf_idx[s], data[s], dma[s])
      BY <1>3, <2>10, <3>1 DEF Input
    <3>3. 0 \in Frags
      BY FragFacts
    <3> QED
      BY <2>7, <2>8, <2>10, <3>2, <3>3 DEF Ready
  <2> QED
    BY <2>9, <2>10
<1> QED
  BY <1>5, <1>6, <1>7, <1>8 DEF Promises

\* Only clearing streams may free the buffers of somebody else's handler.
LEMMA FreesByClearing ==
  ASSUME Known, stale = {}, NEW p \in Procs, Acts(p), stale' # {}
  PROVE  \E S \in SUBSET Streams : Clears(p, S)
<1>1. ~Idle(p) /\ ~Ends(p) /\ ~Sleeps(p)
  BY DEF Idle, Ends, Sleeps, pathVars
<1>2. ~Enters(p)
  BY DEF Enters, WriteCall, ReadCall, SyncCall, PollCall
<1>3. ~ReleaseSync(p)
  BY ReleaseFrees
<1>4. ~LoopDown(p) /\ ~LoopFault(p)
  BY DEF LoopDown, LoopFault, pathVars
<1>5. ~WriteCopy(p) /\ ~ReadCopy(p) /\ ~SyncDown(p)
  BY DEF WriteCopy, ReadCopy, SyncDown
<1> QED
  BY <1>1, <1>2, <1>3, <1>4, <1>5, Kinds

\* The model ends there with the promises kept: the cleared streams are empty,
\* and nothing happened to the others.
LEMMA FreedPromises ==
  ASSUME Known, stale = {}, Promises, NEW p \in Procs, Acts(p), stale' # {}
  PROVE  Promises'
<1>1. TypeOK /\ Places /\ Others(p) /\ "in" \in Streams /\ "out" \in Streams
      /\ Streams = {"in", "out"}
  BY OthersStay DEF Known, Safe, Streams
<1>2. PICK S \in SUBSET Streams : Clears(p, S)
  BY FreesByClearing
<1>3. /\ audio_clear_buf(S, p)
      /\ pc'[p] = "user" /\ op'[p] = "none"
  <2>1. CASE UNCHANGED <<op, pc, b, left>> /\ pc[p] = "user"
    BY <1>1, <1>2, <2>1 DEF Clears, Places
  <2>2. CASE Return(p)
    BY <1>1, <1>2, <2>2, ReturnOthers DEF Clears
  <2> QED
    BY <1>2, <2>1, <2>2 DEF Clears
<1>4. /\ \A s \in S : /\ buf_idx'[s] = 0 /\ data'[s] = Empty /\ dma'[s] = <<>>
                      /\ sem'[s] = Free
      /\ "in" \in S => captured' = 0 /\ delivered' = 0
      /\ "out" \in S => accepted' = 0 /\ played' = 0
      /\ "in" \notin S => InSame
      /\ "out" \notin S => OutSame
      /\ \A s \in Streams \ S : sem'[s] = sem[s]
  BY <1>1, <1>3, Cleared
<1>5. 0 \in Frags /\ 0 \in Nat /\ Empty \in [Frags -> Seq(Nat)] /\ <<>> \in Seq(Entries)
  BY FragFacts DEF Empty
<1>6. PlaysInOrder'
  <2>1. CASE "out" \in S
    <3>1. OutOrder(0, Empty, <<>>, 0, 0)
      BY <1>5, OutEmpty
    <3>2. /\ FlattenSeq(Append([i \in 1 .. Len(<<>>) |-> <<>>[i].units], Empty[0])) = Units(0, 0)
          /\ \A f \in Frags \ {0} : Empty[f] = <<>>
      BY <1>5, <3>1, OutPromise
    <3> QED
      BY <1>4, <2>1, <3>2 DEF PlaysInOrder
  <2>2. CASE "out" \notin S
    BY <1>4, <2>2 DEF Promises, PlaysInOrder, OutSame
  <2> QED
    BY <2>1, <2>2
<1>7. CapturesInOrder'
  <2>1. CASE "in" \in S
    <3>1. InView(0, Empty, <<>>, 0, 0)
      BY <1>5, InFresh
    <3>2. FlattenSeq([i \in 1 .. NbFrags |-> Empty[(0 + i - 1) % NbFrags]]) = Units(0, 0)
      BY <3>1, InPromise
    <3> QED
      BY <1>4, <2>1, <3>2 DEF CapturesInOrder
  <2>2. CASE "in" \notin S
    BY <1>4, <2>2 DEF Promises, CapturesInOrder, InSame
  <2> QED
    BY <2>1, <2>2
<1>8. SyncDrains'
  <2> SUFFICES ASSUME NEW q \in Procs, pc'[q] = "wait", sem'["out"][b'[q]] = 1, Orderly("out")'
               PROVE  played' = accepted'
    BY DEF SyncDrains
  <2>1. q # p /\ pc'[q] = pc[q] /\ b'[q] = b[q]
    BY <1>1, <1>3 DEF Others
  <2>2. CASE "out" \in S
    BY <1>4, <2>2
  <2>3. CASE "out" \notin S
    BY <1>1, <1>4, <2>1, <2>3 DEF Promises, SyncDrains, OutSame
  <2> QED
    BY <2>2, <2>3
<1>9. PollPromise'
  <2> SUFFICES ASSUME NEW q \in Procs, op'[q] = "poll", pc'[q] = "poll",
                      NEW s, s \in mode'[fd'[q]],
                      sem'[s][0] = 1, Orderly(s)', s = "in" => data'[s][0] # <<>>
               PROVE  sem'[s][buf_idx'[s]] = 1 /\ (s = "in" => data'[s][buf_idx'[s]] # <<>>)
    BY DEF PollPromise, At
  <2>1. q # p /\ op[q] = "poll" /\ pc[q] = "poll" /\ Using(q)' = Using(q)
    BY <1>1, <1>3 DEF Others
  <2>2. s \in mode[fd[q]]
    BY <2>1 DEF Using
  <2>3. s \in Streams
    <3>1. fd[q] \in Files
      BY <1>1, <2>1 DEF TypeOK, Known, InsideFile
    <3> QED
      BY <1>1, <2>2, <3>1 DEF TypeOK
  <2>4. CASE s \in S
    BY <1>4, <2>4
  <2>5. CASE s \notin S
    <3>1. sem'[s] = sem[s] /\ buf_idx'[s] = buf_idx[s] /\ data'[s] = data[s] /\ Orderly(s)
      BY <1>1, <1>4, <2>3, <2>5 DEF InSame, OutSame
    <3> QED
      BY <2>1, <2>2, <3>1 DEF Promises, PollPromise, At
  <2> QED
    BY <2>4, <2>5
<1> QED
  BY <1>6, <1>7, <1>8, <1>9 DEF Promises

\* The order as long as every handler's buffers are its own, the promises
\* themselves where the model ends.
SoundInv == Known /\ OrderedInv /\ (stale # {} => Promises)

\* The invariant keeps the promises.
LEMMA SoundPromises == SoundInv => Promises
BY OrderedPromises DEF SoundInv, OrderedInv

\* Everything holds at first.
LEMMA SoundInit == Init => SoundInv
<1> SUFFICES ASSUME Init PROVE SoundInv
  OBVIOUS
<1>1. FilesInv
  BY DEF Init, FilesInv, OneFilePerStream, Counted, LastInside
<1>2. InsideFile
  BY DEF Init, InsideFile
<1>3. Known
  BY <1>1, <1>2, SafeInit DEF Known
<1>4. stale = {} /\ Ordered
  BY OrderedInit DEF Init, OrderedInv
<1> QED
  BY <1>3, <1>4 DEF SoundInv, OrderedInv

\* Every step keeps it.
LEMMA SoundStep ==
  ASSUME SoundInv, [Next]_vars
  PROVE  SoundInv'
<1>1. Known /\ OrderedInv /\ Promises /\ Safe /\ FilesInv /\ InsideFile
  BY SoundPromises DEF SoundInv, Known
<1>2. Known'
  <2>1. Safe' /\ FilesInv' /\ InsideFile'
    BY <1>1, SafeStep, FilesStep, InsideStep
  <2> QED
    BY <2>1 DEF Known
<1>3. CASE UNCHANGED vars
  <2>1. UNCHANGED <<fd, mode, ref, iis, buffers, buf_idx, data, sem, dma, op, pc, b, left, queues,
                    accepted, played, captured, delivered, overlapped, leaked, stale>>
    BY <1>3 DEF vars, fileVars, streamVars, procVars, unitVars, pathVars
  <2>2. \A q : LoopStream(q)' = LoopStream(q) /\ Using(q)' = Using(q)
    BY <2>1 DEF LoopStream, Using
  <2>3. \A s : (Orderly(s)' <=> Orderly(s)) /\ HeldOf(s)' = HeldOf(s)
    BY <2>1 DEF Orderly, HeldOf, Holds
  <2>4. Alone' <=> Alone
    BY <2>1, <2>2 DEF Alone
  <2>5. (SyncPlaces' <=> SyncPlaces) /\ (LeftPositive' <=> LeftPositive)
    BY <2>1 DEF SyncPlaces, LeftPositive
  <2>6. (Pristine' <=> Pristine) /\ (AtCurrent' <=> AtCurrent)
    BY <2>1, <2>2, <2>3 DEF Pristine, AtCurrent
  <2>7. Accounted' <=> Accounted
    BY <2>1, <2>3 DEF Accounted
  <2>8. Input' <=> Input
    BY <2>1, <2>3 DEF Input, Reading
  <2>9. (Output' <=> Output) /\ (Syncing' <=> Syncing)
    BY <2>1, <2>3 DEF Output, Syncing, Waits, Releasing, SettledAt
  <2>10. OrderedInv'
    BY <1>1, <2>1, <2>4, <2>5, <2>6, <2>7, <2>8, <2>9 DEF OrderedInv, Ordered
  <2>11. Promises'
    BY <1>1, <2>1, <2>3 DEF Promises, PlaysInOrder, CapturesInOrder, SyncDrains, PollPromise, At
  <2> QED
    BY <1>2, <2>10, <2>11 DEF SoundInv
<1>4. ASSUME stale = {}, stale' = {}, Ordered' PROVE SoundInv'
  BY <1>2, <1>4 DEF SoundInv, OrderedInv
<1>5. CASE Next
  <2>1. stale = {} /\ Ordered
    BY <1>1, <1>5 DEF Next, OrderedInv
  <2>2. CASE audio_dmaout_done_callback \/ audio_dmain_done_callback
    <3>1. stale' = stale
      BY <1>1, <2>2, CallbackUsing DEF Safe
    <3> QED
      BY <1>1, <1>4, <2>1, <2>2, <3>1, OrderedCallback
  <2>3. ASSUME NEW p \in Procs, Acts(p) PROVE SoundInv'
    <3>1. CASE stale' = {}
      BY <1>1, <1>4, <2>1, <2>3, <3>1, OrderedStep
    <3>2. CASE stale' # {}
      <4>1. Promises'
        BY <1>1, <2>1, <2>3, <3>2, FreedPromises
      <4> QED
        BY <1>2, <3>2, <4>1 DEF SoundInv, OrderedInv
    <3> QED
      BY <3>1, <3>2
  <2>4. (audio_dmaout_done_callback \/ audio_dmain_done_callback) \/ \E p \in Procs : Acts(p)
    BY <1>5 DEF Next, Acts
  <2> QED
    BY <2>2, <2>3, <2>4
<1> QED
  BY <1>3, <1>5

\* The invariant holds in every state.
LEMMA SoundAlways == Spec => []SoundInv
<1>1. Init => SoundInv
  BY SoundInit
<1>2. SoundInv /\ [Next]_vars => SoundInv'
  BY SoundStep
<1> QED
  BY <1>1, <1>2, PTL DEF Spec

\* Whatever writers, SYNC, RESET, close and the DMA do: as long as no two
\* threads were inside the output at once and no enqueue failed, what write
\* accepted and the DMA has not played is in the queue and the current fragment,
\* complete and in order (smdk2410_audio_write, audio_sync and the callback).
THEOREM WrittenPlays == Spec => []PlaysInOrder
<1>1. SoundInv => PlaysInOrder
  BY SoundPromises DEF Promises
<1> QED
  BY <1>1, SoundAlways, PTL

\* Whatever readers, poll, RESET, close and the DMA do: on the same condition
\* the units that the DMA captured and no read has taken are in the fragments
\* from the current one on, complete and in order (smdk2410_audio_read and the
\* callback).
THEOREM CapturedIsRead == Spec => []CapturesInOrder
<1>1. SoundInv => CapturesInOrder
  BY SoundPromises DEF Promises
<1> QED
  BY <1>1, SoundAlways, PTL

\* Waiting for one fragment is enough: when audio_sync, from SYNC or from close,
\* gets its semaphore, everything written to the orderly output was played.
THEOREM SyncHasDrained == Spec => []SyncDrains
<1>1. SoundInv => SyncDrains
  BY SoundPromises DEF Promises
<1> QED
  BY <1>1, SoundAlways, PTL

\* What smdk2410_audio_poll says of fragment 0 is true of the current fragment.
THEOREM PollTells == Spec => []PollPromise
<1>1. SoundInv => PollPromise
  BY SoundPromises DEF Promises
<1> QED
  BY <1>1, SoundAlways, PTL

-----------------------------------------------------------------------------
(* The parameters that applications set *)

\* Products grow with their factors, and so do the factors with the products.
LEMMA ProductGrows ==
  ASSUME NEW m \in Nat, NEW n \in Nat, m <= n, NEW k \in Nat
  PROVE  m * k <= n * k
<1>1. n = m + (n - m) /\ n - m \in Nat
  OBVIOUS
<1>2. \A j \in Nat : (m + j) * k = m * k + j * k /\ j * k \in Nat /\ m * k \in Nat
  OBVIOUS
<1> QED
  BY <1>1, <1>2

\* The other way round.
LEMMA ProductCancels ==
  ASSUME NEW m \in Nat, NEW n \in Nat, NEW k \in Nat, m * k < n * k
  PROVE  m < n
BY ProductGrows

\* A number is divided into at least two when twice the divisor is within it.
LEMMA Quotient ==
  ASSUME NEW all \in Nat, NEW size \in Nat, size >= 1, 2 * size <= all
  PROVE  all \div size \in Nat /\ 2 <= all \div size /\ (all \div size) * size <= all
<1> DEFINE q == all \div size
<1>1. q \in Int
  OBVIOUS
<1>2. size * q <= all
  OBVIOUS
<1>3. all < size * (q + 1)
  OBVIOUS
<1>4. size \in Nat
  OBVIOUS
<1> HIDE DEF q
<1>5. q \in Nat
  <2>1. ASSUME NEW k \in Nat PROVE size * k \in Nat /\ size * (0 - k) = 0 - size * k
    BY <1>4
  <2>2. q < 0 => 0 - (q + 1) \in Nat /\ q + 1 = 0 - (0 - (q + 1))
    BY <1>1
  <2>3. q < 0 => size * (q + 1) <= 0
    BY <1>1, <1>4, <2>1, <2>2
  <2>4. size * (q + 1) \in Int
    BY <1>1, <1>4
  <2>5. ~(q < 0)
    BY <1>3, <2>3, <2>4
  <2> QED
    BY <1>1, <2>5
<1>6. size * q = q * size /\ size * (q + 1) = (q + 1) * size
  BY <1>1, <1>4
<1>7. 2 * size <= all
  OBVIOUS
<1>8. 2 < q + 1
  BY <1>3, <1>4, <1>5, <1>6, <1>7, ProductCancels
<1> QED
  BY <1>2, <1>5, <1>6, <1>8 DEF q

\* What the proofs need to know of the driver's limits.
LEMMA Limits ==
  /\ MaxFragsize \in Nat
  /\ 16 <= MaxFragsize
  /\ MaxBytes \in Nat
  /\ 2 * MaxFragsize <= MaxBytes
BY DEF MaxFragsize, MaxBytes

\* SETFRAGMENT limits the size of a fragment, and their number to what fits.
LEMMA FragsizeBounds ==
  ASSUME NEW shifted \in Nat
  PROVE  /\ Fragsize(shifted) \in Nat
         /\ Fragsize(shifted) >= 16
         /\ Fragsize(shifted) <= MaxFragsize
BY Limits DEF Fragsize, Low

\* There are at least two fragments, and they fit into the buffer.
LEMMA NbfragsBounds ==
  ASSUME NEW asked \in Nat, NEW size \in Nat, size >= 16, size <= MaxFragsize
  PROVE  /\ Nbfrags(asked, size) \in Nat
         /\ Nbfrags(asked, size) >= 2
         /\ Nbfrags(asked, size) * size <= MaxBytes
<1> DEFINE n == IF asked < 2 THEN 2 ELSE asked
<1>1. n \in Nat /\ n >= 2
  OBVIOUS
<1>2. n * size \in Nat
  BY <1>1
<1>3. Nbfrags(asked, size) = IF n * size > MaxBytes THEN MaxBytes \div size ELSE n
  BY DEF Nbfrags
<1> HIDE DEF n
<1>4. CASE n * size > MaxBytes
  <2>1. 2 * size <= MaxBytes
    BY Limits
  <2>2. /\ MaxBytes \div size \in Nat
        /\ 2 <= MaxBytes \div size
        /\ (MaxBytes \div size) * size <= MaxBytes
    BY <2>1, Limits, Quotient
  <2>3. Nbfrags(asked, size) = MaxBytes \div size
    BY <1>3, <1>4
  <2> QED
    BY <2>2, <2>3
<1>5. CASE ~(n * size > MaxBytes)
  <2>1. n * size <= MaxBytes
    BY <1>2, <1>5, Limits
  <2> QED
    BY <1>1, <1>3, <1>5, <2>1
<1> QED
  BY <1>4, <1>5

\* Whatever an application passes to SETFRAGMENT, and whatever its shift gives,
\* the stream gets at least two fragments, of 16 to 16384 bytes, and 128 kbytes
\* at most (s3c-wm8976.c:848-857), so that SoundAssumption holds of NbFrags.
THEOREM Geometry ==
  ASSUME NEW shifted \in Nat, NEW asked \in Nat
  PROVE  /\ Fragsize(shifted) \in 16 .. MaxFragsize
         /\ Nbfrags(asked, Fragsize(shifted)) \in Nat \ {0, 1}
         /\ Nbfrags(asked, Fragsize(shifted)) * Fragsize(shifted) <= MaxBytes
<1>1. Fragsize(shifted) \in 16 .. MaxFragsize
  BY FragsizeBounds, Limits
<1>2. /\ Nbfrags(asked, Fragsize(shifted)) \in Nat
      /\ Nbfrags(asked, Fragsize(shifted)) >= 2
      /\ Nbfrags(asked, Fragsize(shifted)) * Fragsize(shifted) <= MaxBytes
  BY FragsizeBounds, NbfragsBounds
<1> QED
  BY <1>1, <1>2

\* A volume of 0 to 100 fits into the six bits of the codec's registers, what
\* is read back is at most one away from what was written, and an application
\* that writes back what it has read changes nothing (s3c-wm8976.c:722, :730).
THEOREM VolumeKept ==
  /\ \A val \in 0 .. 100 :
       /\ WriteVolume(val) \in 0 .. 63
       /\ ReadVolume(WriteVolume(val)) \in val - 1 .. val + 1
  /\ \A volume \in 0 .. 63 : WriteVolume(ReadVolume(volume)) = volume
<1>1. \A val \in 0 .. 100 : val % 256 = val
  OBVIOUS
<1>2. \A volume \in 0 .. 63 : ReadVolume(volume) \in 0 .. 100
  BY DEF ReadVolume
<1>3. \A val \in 0 .. 100 :
        /\ WriteVolume(val) \in 0 .. 63
        /\ ReadVolume(WriteVolume(val)) \in val - 1 .. val + 1
  BY <1>1 DEF ReadVolume, WriteVolume
<1>4. \A volume \in 0 .. 63 : WriteVolume(ReadVolume(volume)) = volume
  BY <1>1, <1>2 DEF ReadVolume, WriteVolume
<1> QED
  BY <1>3, <1>4

-----------------------------------------------------------------------------
(* Where the fragments lie *)

LayoutStep(n, avail, at, f) ==
  IF f = 0 \/ at[f - 1].left = 0
  THEN [piece |-> f, start |-> 0, master |-> Low(n - f, avail[f]), left |-> Low(n - f, avail[f]) - 1]
  ELSE [piece |-> at[f - 1].piece, start |-> at[f - 1].start + 1,
        master |-> 0, left |-> at[f - 1].left - 1]

\* The recursive function by which FragmentLayout is defined, on the first k.
LayoutUpTo(n, avail, k, at) == at = [f \in 0 .. k - 1 |-> LayoutStep(n, avail, at, f)]

\* Each fragment takes its step.
LEMMA LayoutSteps ==
  ASSUME NEW n, NEW avail, NEW k \in Nat, NEW at, LayoutUpTo(n, avail, k, at)
  PROVE  \A f \in 0 .. k - 1 : at[f] = LayoutStep(n, avail, at, f)
BY DEF LayoutUpTo

\* It exists.
LEMMA LayoutExists ==
  ASSUME NEW n, NEW avail
  PROVE  \A k \in Nat : \E at : LayoutUpTo(n, avail, k, at)
<1> DEFINE S == {k \in Nat : \E at : LayoutUpTo(n, avail, k, at)}
<1>1. 0 \in S
  <2> DEFINE at == [f \in 0 .. 0 - 1 |-> 0]
  <2>1. LayoutUpTo(n, avail, 0, at)
    BY DEF LayoutUpTo
  <2> QED
    BY <2>1
<1>2. ASSUME NEW k \in S PROVE k + 1 \in S
  <2>1. PICK at : LayoutUpTo(n, avail, k, at)
    OBVIOUS
  <2> DEFINE more == [f \in 0 .. (k + 1) - 1 |->
                        IF f = k THEN LayoutStep(n, avail, at, f) ELSE at[f]]
  <2>2. k \in Nat /\ \A f \in 0 .. (k + 1) - 1 : f \in 0 .. k - 1 \/ f = k
    OBVIOUS
  <2>3. \A f \in 0 .. k - 1 : at[f] = LayoutStep(n, avail, at, f)
    BY <2>1, <2>2, LayoutSteps
  <2>4. \A f \in 0 .. k - 1 : more[f] = at[f]
    BY <2>2
  <2>5. ASSUME NEW f \in 0 .. (k + 1) - 1
        PROVE  more[f] = LayoutStep(n, avail, more, f)
    <3>1. f # 0 => f - 1 \in 0 .. k - 1
      BY <2>2
    <3>2. LayoutStep(n, avail, more, f) = LayoutStep(n, avail, at, f)
      BY <2>4, <3>1 DEF LayoutStep
    <3> QED
      BY <2>2, <2>3, <3>2
  <2>6. more = [f \in 0 .. (k + 1) - 1 |-> more[f]]
    OBVIOUS
  <2> HIDE DEF more
  <2>7. LayoutUpTo(n, avail, k + 1, more)
    BY <2>5, <2>6 DEF LayoutUpTo
  <2> QED
    BY <2>2, <2>7
<1> HIDE DEF S
<1>3. \A k \in Nat : k \in S
  BY <1>1, <1>2, SetInduction DEF S
<1> QED
  BY <1>3 DEF S

\* FragmentLayout is that function on all fragments.
LEMMA LayoutDef ==
  ASSUME NEW n \in Nat, NEW avail
  PROVE  LayoutUpTo(n, avail, n, FragmentLayout(n, avail))
<1> DEFINE at == CHOOSE g : LayoutUpTo(n, avail, n, g)
<1>1. LayoutUpTo(n, avail, n, at)
  BY LayoutExists
<1>2. FragmentLayout(n, avail) = at
  BY DEF FragmentLayout, LayoutUpTo, LayoutStep
<1> QED
  BY <1>1, <1>2

\* Fragment f lies in a piece that is large enough for it and for those that
\* are left, and was allocated as one.
InPiece(n, avail, at, f) ==
  /\ at[f].piece \in 0 .. f /\ at[f].start \in Nat /\ at[f].left \in Nat
  /\ at[f].piece + at[f].start = f
  /\ at[at[f].piece].master = at[f].start + at[f].left + 1
  /\ f + at[f].left < n
  /\ at[f].master \in Nat
  /\ at[f].master > 0 <=> at[f].piece = f
  /\ at[f].master <= avail[f]

\* A fragment that begins a piece, ...
LEMMA LayoutFirst ==
  ASSUME NEW n \in Nat, NEW avail \in [0 .. n - 1 -> Nat \ {0}], NEW at, NEW f \in 0 .. n - 1,
         at[f] = LayoutStep(n, avail, at, f), f = 0 \/ at[f - 1].left = 0
  PROVE  InPiece(n, avail, at, f)
<1> DEFINE size == Low(n - f, avail[f])
<1>1. size \in Nat /\ size >= 1 /\ size <= n - f /\ size <= avail[f]
  BY DEF Low
<1> HIDE DEF size
<1>2. at[f] = [piece |-> f, start |-> 0, master |-> size, left |-> size - 1]
  BY DEF LayoutStep, size
<1>3. at[f].piece = f /\ at[f].start = 0 /\ at[f].master = size /\ at[f].left = size - 1
  BY <1>2
<1>4. size - 1 \in Nat /\ f + (size - 1) < n /\ 0 + (size - 1) + 1 = size /\ f + 0 = f /\ size > 0
  BY <1>1
<1> QED
  BY <1>1, <1>3, <1>4 DEF InPiece

\* ... and one that goes on in the piece of the fragment before.
LEMMA LayoutNext ==
  ASSUME NEW n \in Nat, NEW avail \in [0 .. n - 1 -> Nat \ {0}], NEW at, NEW f \in 0 .. n - 1,
         f # 0, at[f - 1].left # 0,
         at[f] = LayoutStep(n, avail, at, f), InPiece(n, avail, at, f - 1)
  PROVE  InPiece(n, avail, at, f)
<1>1. PICK first, start, room : first = at[f - 1].piece /\ start = at[f - 1].start /\ room = at[f - 1].left
  OBVIOUS
<1>2. /\ first \in 0 .. f - 1 /\ start \in Nat /\ room \in Nat /\ room # 0
      /\ first + start = f - 1
      /\ at[first].master = start + room + 1
      /\ (f - 1) + room < n
  BY <1>1 DEF InPiece
<1>3. /\ at[f].piece = first /\ at[f].start = start + 1 /\ at[f].master = 0
      /\ at[f].left = room - 1
  BY <1>1 DEF LayoutStep
<1>4. f \in Nat /\ f # 0 /\ first \in Nat
  BY <1>2
<1>5. first \in 0 .. f /\ first # f
  BY <1>2, <1>4
<1>6. start + 1 \in Nat /\ room - 1 \in Nat
  BY <1>2
<1>7. first + (start + 1) = f
  BY <1>2, <1>4
<1>8. start + room + 1 = (start + 1) + (room - 1) + 1
  BY <1>2
<1>9. f + (room - 1) < n
  BY <1>2, <1>4
<1>10. 0 <= avail[f]
  OBVIOUS
<1> QED
  BY <1>2, <1>3, <1>5, <1>6, <1>7, <1>8, <1>9, <1>10 DEF InPiece

\* Whatever pieces of memory the allocator has for audio_setup_buf: each fragment
\* lies inside one that was allocated, at its own place (fragments of one piece
\* have different starts), no piece is larger than was asked for or reaches
\* beyond the last fragment, and audio_clear_buf frees exactly the pieces
\* (s3c-wm8976.c:344-396, :327-334).
THEOREM FragmentsDisjoint ==
  ASSUME NEW n \in Nat, NEW avail \in [0 .. n - 1 -> Nat \ {0}]
  PROVE  LET at == FragmentLayout(n, avail)
         IN \A f \in 0 .. n - 1 :
              /\ at[f].piece \in 0 .. f
              /\ f = at[f].piece + at[f].start
              /\ at[f].start < at[at[f].piece].master
              /\ at[f].master > 0 <=> at[f].piece = f
              /\ at[f].master <= avail[f] /\ f + at[f].master <= n
<1> DEFINE at == FragmentLayout(n, avail)
           S == {k \in Nat : k \in 0 .. n - 1 => InPiece(n, avail, at, k)}
<1>1. \A f \in 0 .. n - 1 : at[f] = LayoutStep(n, avail, at, f)
  BY LayoutDef, LayoutSteps
<1> HIDE DEF at
<1>2. 0 \in S
  <2>1. 0 \in 0 .. n - 1 => InPiece(n, avail, at, 0)
    BY <1>1, LayoutFirst
  <2> QED
    BY <2>1
<1>3. ASSUME NEW k \in S PROVE k + 1 \in S
  <2>1. k \in Nat /\ k + 1 \in Nat /\ k + 1 # 0 /\ (k + 1) - 1 = k
    OBVIOUS
  <2>2. SUFFICES ASSUME k + 1 \in 0 .. n - 1 PROVE InPiece(n, avail, at, k + 1)
    BY <2>1
  <2>3. InPiece(n, avail, at, k)
    BY <2>1, <2>2
  <2>4. at[k + 1] = LayoutStep(n, avail, at, k + 1)
    BY <1>1, <2>2
  <2>5. CASE at[k].left = 0
    BY <2>1, <2>2, <2>4, <2>5, LayoutFirst
  <2>6. CASE at[k].left # 0
    BY <2>1, <2>2, <2>3, <2>4, <2>6, LayoutNext
  <2> QED
    BY <2>5, <2>6
<1> HIDE DEF S
<1>4. \A k \in Nat : k \in S
  BY <1>2, <1>3, SetInduction DEF S
<1>5. ASSUME NEW f \in 0 .. n - 1
      PROVE  /\ at[f].piece \in 0 .. f
             /\ f = at[f].piece + at[f].start
             /\ at[f].start < at[at[f].piece].master
             /\ at[f].master > 0 <=> at[f].piece = f
             /\ at[f].master <= avail[f] /\ f + at[f].master <= n
  <2>1. InPiece(n, avail, at, f)
    BY <1>4 DEF S
  <2>2. /\ at[f].start \in Nat /\ at[f].left \in Nat /\ f + at[f].left < n
        /\ at[at[f].piece].master = at[f].start + at[f].left + 1
        /\ at[f].piece + at[f].start = f
    BY <2>1 DEF InPiece
  <2>3. at[f].start < at[at[f].piece].master
    BY <2>2
  <2>4. f + at[f].master <= n
    <3>1. CASE at[f].piece = f
      <4>1. at[f].start = 0
        BY <2>2, <3>1
      <4> QED
        BY <2>2, <3>1, <4>1
    <3>2. CASE at[f].piece # f
      <4>1. at[f].master = 0
        BY <2>1, <3>2 DEF InPiece
      <4> QED
        BY <4>1
    <3> QED
      BY <3>1, <3>2
  <2> QED
    BY <2>1, <2>2, <2>3, <2>4 DEF InPiece
<1> QED
  BY <1>5 DEF at

-----------------------------------------------------------------------------
(* The divider of the sample clock *)

ClockStep(clock, rate, best, i) ==
  IF clock \div i <= rate /\ rate - (clock \div i) < best[i - 1].min
  THEN [prescaler |-> i - 1, min |-> rate - (clock \div i)]
  ELSE best[i - 1]

\* The recursive function by which iispsr_value is defined, up to k.
ClockUpTo(clock, rate, k, best) ==
  best = [i \in 0 .. k |->
            IF i = 0 THEN [prescaler |-> 0, min |-> 65535] ELSE ClockStep(clock, rate, best, i)]

\* It starts above every difference, and each divider takes its step.
LEMMA ClockSteps ==
  ASSUME NEW clock, NEW rate, NEW k \in Nat, NEW best, ClockUpTo(clock, rate, k, best)
  PROVE  /\ best[0] = [prescaler |-> 0, min |-> 65535]
         /\ \A i \in 0 .. k : i # 0 => best[i] = ClockStep(clock, rate, best, i)
<1>1. 0 \in 0 .. k
  OBVIOUS
<1>2. \A i \in 0 .. k : best[i] = IF i = 0 THEN [prescaler |-> 0, min |-> 65535]
                                  ELSE ClockStep(clock, rate, best, i)
  BY DEF ClockUpTo
<1> QED
  BY <1>1, <1>2

\* It exists.
LEMMA ClockExists ==
  ASSUME NEW clock, NEW rate
  PROVE  \A k \in Nat : \E best : ClockUpTo(clock, rate, k, best)
<1> DEFINE S == {k \in Nat : \E best : ClockUpTo(clock, rate, k, best)}
<1>1. 0 \in S
  <2> DEFINE best == [i \in 0 .. 0 |-> [prescaler |-> 0, min |-> 65535]]
  <2>1. ClockUpTo(clock, rate, 0, best)
    BY DEF ClockUpTo
  <2> QED
    BY <2>1
<1>2. ASSUME NEW k \in S PROVE k + 1 \in S
  <2>1. PICK best : ClockUpTo(clock, rate, k, best)
    OBVIOUS
  <2> DEFINE more == [i \in 0 .. k + 1 |->
                        IF i = k + 1 THEN ClockStep(clock, rate, best, i) ELSE best[i]]
  <2>2. k \in Nat /\ \A i \in 0 .. k + 1 : i \in 0 .. k \/ i = k + 1
    OBVIOUS
  <2>3. /\ best[0] = [prescaler |-> 0, min |-> 65535]
        /\ \A i \in 0 .. k : i # 0 => best[i] = ClockStep(clock, rate, best, i)
    BY <2>1, <2>2, ClockSteps
  <2>4. \A i \in 0 .. k : more[i] = best[i]
    BY <2>2
  <2>5. ASSUME NEW i \in 0 .. k + 1
        PROVE  more[i] = IF i = 0 THEN [prescaler |-> 0, min |-> 65535]
                         ELSE ClockStep(clock, rate, more, i)
    <3>1. CASE i = 0
      <4>1. i \in 0 .. k
        BY <2>2, <3>1
      <4> QED
        BY <2>3, <2>4, <3>1, <4>1
    <3>2. CASE i # 0
      <4>1. i - 1 \in 0 .. k
        BY <2>2, <3>2
      <4>2. ClockStep(clock, rate, more, i) = ClockStep(clock, rate, best, i)
        BY <2>4, <4>1 DEF ClockStep
      <4> QED
        BY <2>2, <2>3, <3>2, <4>2
    <3> QED
      BY <3>1, <3>2
  <2>6. more = [i \in 0 .. k + 1 |-> more[i]]
    OBVIOUS
  <2> HIDE DEF more
  <2>7. ClockUpTo(clock, rate, k + 1, more)
    BY <2>5, <2>6 DEF ClockUpTo
  <2> QED
    BY <2>2, <2>7
<1> HIDE DEF S
<1>3. \A k \in Nat : k \in S
  BY <1>1, <1>2, SetInduction DEF S
<1> QED
  BY <1>3 DEF S

\* iispsr_value is its last prescaler.
LEMMA ClockDef ==
  ASSUME NEW clock, NEW rate
  PROVE  \E best : ClockUpTo(clock, rate, 32, best) /\ iispsr_value(clock, rate) = best[32].prescaler
<1> DEFINE best == CHOOSE g : ClockUpTo(clock, rate, 32, g)
<1>1. ClockUpTo(clock, rate, 32, best)
  BY ClockExists
<1>2. iispsr_value(clock, rate) = best[32].prescaler
  BY DEF iispsr_value, ClockUpTo, ClockStep
<1> QED
  BY <1>1, <1>2

\* After i dividers min is the least difference from below, and that of the
\* divider in prescaler.
NearestUpTo(clock, rate, best, i) ==
  /\ best[i].min \in Nat /\ best[i].min <= 65535
  /\ best[i].prescaler \in Nat /\ (best[i].prescaler < i \/ best[i].prescaler = 0)
  /\ \A j \in 1 .. i : clock \div j <= rate => best[i].min <= rate - (clock \div j)
  /\ best[i].min # 65535 => /\ best[i].prescaler < i
                            /\ best[i].min = rate - (clock \div (best[i].prescaler + 1))

\* One divider more.
LEMMA ClockNext ==
  ASSUME NEW clock \in Nat, NEW rate \in Int, NEW best, NEW i \in Nat,
         NearestUpTo(clock, rate, best, i), best[i + 1] = ClockStep(clock, rate, best, i + 1)
  PROVE  NearestUpTo(clock, rate, best, i + 1)
<1> DEFINE c(j) == clock \div j
<1>1. \A j \in Nat : j # 0 => c(j) \in Int
  OBVIOUS
<1>2. PICK min, at : min = best[i].min /\ at = best[i].prescaler
  OBVIOUS
<1>3. /\ min \in Nat /\ min <= 65535
      /\ at \in Nat /\ (at < i \/ at = 0)
      /\ \A j \in 1 .. i : c(j) <= rate => min <= rate - c(j)
      /\ min # 65535 => at < i /\ min = rate - c(at + 1)
  BY <1>2 DEF NearestUpTo
<1>4. best[i + 1] = IF c(i + 1) <= rate /\ rate - c(i + 1) < min
                    THEN [prescaler |-> i, min |-> rate - c(i + 1)] ELSE best[i]
  <2>1. (i + 1) - 1 = i
    OBVIOUS
  <2> QED
    BY <1>2, <2>1 DEF ClockStep
<1>5. c(i + 1) \in Int /\ i + 1 \in Nat
  BY <1>1
<1>6. \A j \in 1 .. i + 1 : j \in 1 .. i \/ j = i + 1
  OBVIOUS
<1>7. SUFFICES
        /\ best[i + 1].min \in Nat /\ best[i + 1].min <= 65535
        /\ best[i + 1].prescaler \in Nat
        /\ (best[i + 1].prescaler < i + 1 \/ best[i + 1].prescaler = 0)
        /\ \A j \in 1 .. i + 1 : c(j) <= rate => best[i + 1].min <= rate - c(j)
        /\ best[i + 1].min # 65535 => /\ best[i + 1].prescaler < i + 1
                                      /\ best[i + 1].min = rate - c(best[i + 1].prescaler + 1)
  BY DEF NearestUpTo
<1>8. \A j \in 1 .. i : c(j) \in Int
  BY <1>1
<1> HIDE DEF c
<1>9. CASE c(i + 1) <= rate /\ rate - c(i + 1) < min
  <2>1. best[i + 1].prescaler = i /\ best[i + 1].min = rate - c(i + 1)
    BY <1>4, <1>9
  <2>2. rate - c(i + 1) \in Nat /\ rate - c(i + 1) <= 65535 /\ i < i + 1
    BY <1>3, <1>5, <1>9
  <2>3. \A j \in 1 .. i + 1 : c(j) <= rate => rate - c(i + 1) <= rate - c(j)
    BY <1>3, <1>5, <1>6, <1>8, <1>9
  <2> QED
    BY <2>1, <2>2, <2>3
<1>10. CASE ~(c(i + 1) <= rate /\ rate - c(i + 1) < min)
  <2>1. best[i + 1] = best[i]
    BY <1>4, <1>10
  <2>2. best[i + 1].prescaler = at /\ best[i + 1].min = min
    BY <1>2, <2>1
  <2>3. \A j \in 1 .. i + 1 : c(j) <= rate => min <= rate - c(j)
    BY <1>3, <1>5, <1>6, <1>10
  <2>4. at < i + 1
    BY <1>3
  <2> QED
    BY <1>3, <2>2, <2>3, <2>4
<1> QED
  BY <1>9, <1>10

\* Of all 32 dividers whose clock is at most 65534 Hz below the rate, the one
\* chosen has the nearest: a rate is played too slowly, never too fast, although
\* a faster clock may be nearer, as PCM_ABS is applied to an unsigned number
\* (s3c-wm8976.c:758-779).
THEOREM NearestFromBelow ==
  ASSUME NEW clock \in Nat, NEW rate \in Int
  PROVE  LET p == iispsr_value(clock, rate)
         IN /\ p \in 0 .. 31
            /\ \A j \in 1 .. 32 : clock \div j <= rate /\ rate - (clock \div j) < 65535
                 => clock \div j <= clock \div (p + 1) /\ clock \div (p + 1) <= rate
<1>1. PICK best : /\ ClockUpTo(clock, rate, 32, best)
                  /\ iispsr_value(clock, rate) = best[32].prescaler
  BY ClockDef
<1>2. /\ best[0] = [prescaler |-> 0, min |-> 65535]
      /\ \A i \in 0 .. 32 : i # 0 => best[i] = ClockStep(clock, rate, best, i)
  BY <1>1, ClockSteps
<1> DEFINE S == {k \in Nat : k \in 0 .. 32 => NearestUpTo(clock, rate, best, k)}
<1>3. 0 \in S
  <2>1. best[0].min = 65535 /\ best[0].prescaler = 0
    BY <1>2
  <2> QED
    BY <2>1 DEF NearestUpTo
<1>4. ASSUME NEW k \in S PROVE k + 1 \in S
  <2>1. k \in Nat /\ k + 1 \in Nat /\ k + 1 # 0
    OBVIOUS
  <2>2. SUFFICES ASSUME k + 1 \in 0 .. 32 PROVE NearestUpTo(clock, rate, best, k + 1)
    BY <2>1
  <2>3. NearestUpTo(clock, rate, best, k)
    BY <2>1, <2>2
  <2>4. best[k + 1] = ClockStep(clock, rate, best, k + 1)
    BY <1>2, <2>1, <2>2
  <2> QED
    BY <2>1, <2>3, <2>4, ClockNext
<1> HIDE DEF S
<1>5. \A k \in Nat : k \in S
  BY <1>3, <1>4, SetInduction DEF S
<1>6. NearestUpTo(clock, rate, best, 32)
  <2>1. 32 \in Nat /\ 32 \in 0 .. 32
    OBVIOUS
  <2> QED
    BY <1>5, <2>1 DEF S
<1> DEFINE c(j) == clock \div j
<1>7. PICK min, p : min = best[32].min /\ p = best[32].prescaler
  OBVIOUS
<1>8. /\ min \in Nat /\ p \in 0 .. 31
      /\ \A j \in 1 .. 32 : c(j) <= rate => min <= rate - c(j)
      /\ min # 65535 => min = rate - c(p + 1)
  BY <1>6, <1>7 DEF NearestUpTo
<1>9. ASSUME NEW j \in 1 .. 32, c(j) <= rate, rate - c(j) < 65535
      PROVE  c(j) <= c(p + 1) /\ c(p + 1) <= rate
  <2>1. c(j) \in Int /\ c(p + 1) \in Int
    BY <1>8
  <2> HIDE DEF c
  <2>2. min <= rate - c(j)
    BY <1>8, <1>9
  <2>3. min # 65535
    BY <1>8, <1>9, <2>1, <2>2
  <2>4. min = rate - c(p + 1)
    BY <1>8, <2>3
  <2> QED
    BY <1>8, <2>1, <2>2, <2>4
<1> QED
  BY <1>1, <1>7, <1>8, <1>9
=============================================================================
