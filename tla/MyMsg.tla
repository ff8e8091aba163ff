------------------------------- MODULE MyMsg -------------------------------
(***************************************************************************)
(* The /proc/mymsg ring log (mymsg.c): myprintk puts characters into a     *)
(* ring that drops its oldest character when it is full, and reads of the  *)
(* proc file take characters out of it through one cursor,                 *)
(* mylog_r_for_read, that all open files share.                            *)
(*                                                                         *)
(* A character is its number: how many were put before it.  A read calls   *)
(* mylog_getc_for_read once per character; between two calls it may sleep  *)
(* or be preempted (__put_user may fault).  When myprintk is only called   *)
(* from system calls, as first_drv.c does, a kernel that does not preempt  *)
(* itself runs each call of putc and getc as a whole.  IrqCallers adds the *)
(* callers in interrupt context that debug_input_emulate/s3c_ts.c has: a   *)
(* putc may then come between the load of the cursor and its store.        *)
(***************************************************************************)
EXTENDS Integers, FiniteSets

CONSTANTS
  Readers,        \* processes reading /proc/mymsg
  MYLOG_BUF_LEN,  \* slots of the ring
  Counts,         \* the sizes reads ask for
  MaxWritten,     \* bound: characters written in a behaviour
  IrqCallers      \* whether interrupt handlers call myprintk

ASSUME MyMsgAssumption ==
  /\ MYLOG_BUF_LEN \in Nat
  /\ MYLOG_BUF_LEN > 1
  /\ Counts \subseteq Nat
  /\ MaxWritten \in Nat
  /\ IrqCallers \in BOOLEAN

VARIABLES
  mylog_buf,         \* the ring
  mylog_r,           \* oldest character
  mylog_r_for_read,  \* next character to read
  mylog_w,           \* next slot to write
  pc,                \* where each reader is
  count,             \* what its read asked for
  i,                 \* how many characters its read delivered
  idx,               \* the cursor getc has loaded
  c,                 \* the character getc has loaded
  written,           \* characters written so far (history)
  taken,             \* character the last getc returned (history)
  delivered,         \* newest character copied to a user since the last open,
                     \* or the one before the oldest then kept (history)
  robbed,            \* readers from whom another one took a character since
                     \* they last tested the ring (history)
  rewound            \* readers whose sleep an open rewound the cursor in, with
                     \* no character written since (history)

ringVars == <<mylog_buf, mylog_r, mylog_r_for_read, mylog_w>>
readerVars == <<pc, count, i, idx, c>>
vars == <<ringVars, readerVars, written, taken, delivered, robbed, rewound>>

Slots == 0 .. MYLOG_BUF_LEN - 1

Succ(s) == (s + 1) % MYLOG_BUF_LEN

is_mylog_empty_for_read == mylog_r_for_read = mylog_w

is_mylog_full == Succ(mylog_w) = mylog_r

\* How many slots lie from a up to b, walking round the ring.
Dist(a, b) == IF a <= b THEN b - a ELSE b - a + MYLOG_BUF_LEN

\* The numbers of the oldest character kept and of the next one to read.
Oldest == written - Dist(mylog_r, mylog_w)
Cursor == written - Dist(mylog_r_for_read, mylog_w)

TypeOK ==
  /\ mylog_buf \in [Slots -> Int]
  /\ mylog_r \in Slots
  /\ mylog_r_for_read \in Slots
  /\ mylog_w \in Slots
  /\ pc \in [Readers -> {"closed", "open", "wait", "sleep", "get", "advance", "put"}]
  /\ count \in [Readers -> Nat]
  /\ i \in [Readers -> Nat]
  /\ idx \in [Readers -> Slots]
  /\ c \in [Readers -> Int]
  /\ written \in Nat
  /\ taken \in Int
  /\ delivered \in Int
  /\ robbed \in SUBSET Readers
  /\ rewound \in SUBSET Readers

Init ==
  /\ mylog_buf = [s \in Slots |-> -1]
  /\ mylog_r = 0
  /\ mylog_r_for_read = 0
  /\ mylog_w = 0
  /\ pc = [p \in Readers |-> "closed"]
  /\ count = [p \in Readers |-> 0]
  /\ i = [p \in Readers |-> 0]
  /\ idx = [p \in Readers |-> 0]
  /\ c = [p \in Readers |-> -1]
  /\ written = 0
  /\ taken = -1
  /\ delivered = -1
  /\ robbed = {}
  /\ rewound = {}

\* Nobody is inside mylog_getc_for_read.
NoGetc == \A p \in Readers : pc[p] # "advance"

Go(p, from, to) == pc[p] = from /\ pc' = [pc EXCEPT ![p] = to]

\* A handler's local variables end with it.
Locals(p, n, k, slot, ch) ==
  /\ count' = [count EXCEPT ![p] = n]
  /\ i' = [i EXCEPT ![p] = k]
  /\ idx' = [idx EXCEPT ![p] = slot]
  /\ c' = [c EXCEPT ![p] = ch]

Return(p) == Locals(p, 0, 0, 0, -1)

-----------------------------------------------------------------------------
(* myprintk *)

\* Mutated form: nobody is woken.
WakeNobody == UNCHANGED pc

\* wake_up_interruptible(&mymsg_waitq)
WakeUp == pc' = [p \in Readers |-> IF pc[p] = "sleep" THEN "wait" ELSE pc[p]]

\* Mutated form: the cursor is not taken along.
DropOldestOnly ==
  IF is_mylog_full
  THEN mylog_r' = Succ(mylog_r) /\ UNCHANGED mylog_r_for_read
  ELSE UNCHANGED <<mylog_r, mylog_r_for_read>>

\* Make room: when the ring is full the oldest character goes, and a cursor
\* that stood on it goes along.
DropOldest ==
  IF is_mylog_full
  THEN /\ mylog_r' = Succ(mylog_r)
       /\ mylog_r_for_read' = IF Succ(mylog_r_for_read) = mylog_r'
                              THEN mylog_r' ELSE mylog_r_for_read
  ELSE UNCHANGED <<mylog_r, mylog_r_for_read>>

\* Mutated form: the character is stored after the index has moved.
PutcStoreLate ==
  /\ IrqCallers \/ NoGetc
  /\ written < MaxWritten
  /\ DropOldest
  /\ mylog_w' = Succ(mylog_w)
  /\ mylog_buf' = [mylog_buf EXCEPT ![mylog_w'] = written]
  /\ written' = written + 1
  /\ WakeUp
  /\ rewound' = {}
  /\ UNCHANGED <<count, i, idx, c, taken, delivered, robbed>>

\* One character of a myprintk call.
mylog_putc ==
  /\ IrqCallers \/ NoGetc
  /\ written < MaxWritten
  /\ DropOldest
  /\ mylog_buf' = [mylog_buf EXCEPT ![mylog_w] = written]
  /\ mylog_w' = Succ(mylog_w)
  /\ written' = written + 1
  /\ WakeUp
  /\ rewound' = {}
  /\ UNCHANGED <<count, i, idx, c, taken, delivered, robbed>>

-----------------------------------------------------------------------------
(* open and read *)

mymsg_open(p) ==
  /\ NoGetc
  /\ Go(p, "closed", "open")
  /\ mylog_r_for_read' = mylog_r
  /\ delivered' = Oldest - 1
  /\ rewound' = rewound \union {q \in Readers : pc[q] = "sleep"}
  /\ UNCHANGED <<mylog_buf, mylog_r, mylog_w, count, i, idx, c, written, taken, robbed>>

Close(p) ==
  /\ NoGetc
  /\ Go(p, "open", "closed")
  /\ UNCHANGED <<ringVars, count, i, idx, c, written, taken, delivered, robbed, rewound>>

\* A read of n characters.  On an O_NONBLOCK file it returns -EAGAIN when
\* there is nothing to read, which changes nothing.
ReadCall(p, n) ==
  /\ NoGetc
  /\ Go(p, "open", "wait")
  /\ Locals(p, n, 0, 0, -1)
  /\ UNCHANGED <<ringVars, written, taken, delivered, robbed, rewound>>

ReadWait(p) ==
  /\ NoGetc
  /\ Go(p, "wait", IF is_mylog_empty_for_read THEN "sleep" ELSE "get")
  /\ rewound' = rewound \ {p}
  /\ robbed' = robbed \ {p}
  /\ UNCHANGED <<ringVars, count, i, idx, c, written, taken, delivered>>

\* Mutated form: the error of the wait is ignored.
ReadInterruptedGoesOn(p) ==
  /\ NoGetc
  /\ Go(p, "sleep", "get")
  /\ UNCHANGED <<ringVars, count, i, idx, c, written, taken, delivered, robbed, rewound>>

\* A signal ends the sleep: the read returns the error without a getc.
ReadInterrupted(p) ==
  /\ NoGetc
  /\ Go(p, "sleep", "open")
  /\ Return(p)
  /\ UNCHANGED <<ringVars, written, taken, delivered, robbed, rewound>>

\* getc finds nothing: the read returns what it has delivered.
GetcEmpty(p) ==
  /\ NoGetc
  /\ is_mylog_empty_for_read
  /\ Go(p, "get", "open")
  /\ Return(p)
  /\ UNCHANGED <<ringVars, written, taken, delivered, robbed, rewound>>

\* Mutated form: getc does not test for an empty ring, relying on the wait.
GetcUnchecked(p) ==
  /\ NoGetc
  /\ Go(p, "get", "advance")
  /\ idx' = [idx EXCEPT ![p] = mylog_r_for_read]
  /\ c' = [c EXCEPT ![p] = mylog_buf[mylog_r_for_read]]
  /\ UNCHANGED <<ringVars, count, i, written, taken, delivered, robbed, rewound>>

\* getc loads the cursor and the character under it.
GetcLoad(p) ==
  /\ NoGetc
  /\ ~is_mylog_empty_for_read
  /\ Go(p, "get", "advance")
  /\ idx' = [idx EXCEPT ![p] = mylog_r_for_read]
  /\ c' = [c EXCEPT ![p] = mylog_buf[mylog_r_for_read]]
  /\ UNCHANGED <<ringVars, count, i, written, taken, delivered, robbed, rewound>>

\* getc stores the cursor.  Only now does the loop test i < count: when the
\* user's buffer is full the character just taken goes nowhere.
GetcAdvance(p) ==
  /\ \/ /\ i[p] < count[p]
        /\ Go(p, "advance", "put")
        /\ Locals(p, count[p], i[p], 0, c[p])
     \/ /\ i[p] >= count[p]
        /\ Go(p, "advance", "open")
        /\ Return(p)
  /\ mylog_r_for_read' = Succ(idx[p])
  /\ taken' = c[p]
  /\ robbed' = robbed \union (Readers \ {p})
  /\ UNCHANGED <<mylog_buf, mylog_r, mylog_w, written, delivered, rewound>>

PutUser(p) ==
  /\ NoGetc
  /\ Go(p, "put", "get")
  /\ Locals(p, count[p], i[p] + 1, 0, -1)
  /\ delivered' = c[p]
  /\ UNCHANGED <<ringVars, written, taken, robbed, rewound>>

\* __put_user fails: the read returns -EFAULT.
PutFault(p) ==
  /\ NoGetc
  /\ Go(p, "put", "open")
  /\ Return(p)
  /\ UNCHANGED <<ringVars, written, taken, delivered, robbed, rewound>>

mymsg_read(p) ==
  \/ \E n \in Counts : ReadCall(p, n)
  \/ ReadWait(p)
  \/ ReadInterrupted(p)
  \/ GetcEmpty(p)
  \/ GetcLoad(p)
  \/ GetcAdvance(p)
  \/ PutUser(p)
  \/ PutFault(p)

Next ==
  \/ mylog_putc
  \/ \E p \in Readers : mymsg_open(p)
  \/ \E p \in Readers : mymsg_read(p)
  \/ \E p \in Readers : Close(p)

Spec == Init /\ [][Next]_vars

\* A read that is inside the driver gets its turn unless it sleeps.  Strong
\* fairness because NoGetc disables a reader's step for as long as another one
\* is in a getc.
Fairness ==
  \A p \in Readers :
    /\ SF_vars(ReadWait(p))
    /\ SF_vars(GetcEmpty(p) \/ GetcLoad(p))
    /\ WF_vars(GetcAdvance(p))
    /\ SF_vars(PutUser(p))

FairSpec == Spec /\ Fairness

-----------------------------------------------------------------------------
(* Properties *)

\* The read cursor never leaves the window of kept characters: it is neither
\* behind the oldest one, on a slot that was overwritten, nor past the newest.
CursorInWindow ==
  Dist(mylog_r, mylog_r_for_read) <= Dist(mylog_r, mylog_w)

\* The slots between mylog_r and mylog_w hold the newest characters, in the
\* order they were written.
SlotsHoldLog ==
  \A s \in Slots :
    Dist(mylog_r, s) < Dist(mylog_r, mylog_w)
      => mylog_buf[s] = Oldest + Dist(mylog_r, s)

\* The ring is a log stream of MYLOG_BUF_LEN - 1 characters.
Stream == INSTANCE LogStream WITH
  Capacity <- MYLOG_BUF_LEN - 1,
  lo <- Oldest, hi <- written, cur <- Cursor, out <- taken
IsLogStream == Stream!Spec

\* A read of at least one character that was not interrupted returns at least
\* one, since a return of 0 means end of file to cat; only a second reader that
\* takes the characters between wait and getc can make it return 0.
NoFalseEof ==
  [][\A p \in Readers \ robbed :
       pc[p] = "get" /\ pc'[p] = "open" /\ count[p] > 0 => i[p] > 0]_vars

\* The comment in the full branch: `drop one datum'.  No step makes more than
\* one unread character unreadable.
DropsAtMostOne == [][Cursor' <= Cursor + 1]_vars

\* The comment in the read handler: `copy the data of mylog_buf to the user
\* and return'.  Between two characters a single reader is given, only
\* characters that the full ring dropped are missing.
DeliversNext ==
  [][\A p \in Readers : pc[p] = "put" /\ pc'[p] = "get" =>
       c[p] = delivered + 1 \/ (c[p] > delivered /\ c[p] <= Oldest)]_vars

\* A reader that waits returns once there is a character, unless another one
\* takes it first, as long as user memory is there: no wake-up is lost.  (When
\* an open rewinds the cursor the sleepers are not woken.)
CharEndsRead ==
  \A p \in Readers :
    /\ pc[p] = "wait" \/ (pc[p] = "sleep" /\ p \notin rewound)
    /\ ~is_mylog_empty_for_read
    ~> pc[p] = "open" \/ is_mylog_empty_for_read
=============================================================================
