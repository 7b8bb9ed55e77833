----------------------------- MODULE RingBuffer -----------------------------
(***************************************************************************)
(* CCF's multiple-producer, single-consumer ring buffer: the memory that   *)
(* carries every message between the host and the enclave.  A step is one  *)
(* access to shared memory and the local computation that follows it.      *)
(* Sizes and offsets are counted in words of header_size() = 8 bytes:      *)
(* every entry is aligned to that, and every offset is a sum of entries.   *)
(***************************************************************************)
EXTENDS Integers, Sequences, SequencesExt, FiniteSets

CONSTANTS
  Writers,     \* threads that write to the buffer
  Size,        \* words in the buffer
  Modulus,     \* number of values of an offset: 2^64 bytes in the build
  Start,       \* offset at which the buffer is found empty
  Jobs,        \* Jobs[w]: the entries w writes, [size (in words), wait, more]:
               \* more when the next entry is a fragment of the same message
  Limit,       \* limit argument of Reader::read
  MaxSpurious  \* bound on the spurious failures of compare_exchange_weak

ASSUME SizeAssumption == Size \in {2, 4, 8, 16, 32} /\ Modulus % Size = 0
ASSUME StartAssumption == Start \in 0 .. Modulus - 1
ASSUME JobsAssumption ==
  \A w \in Writers :
    Jobs[w] \in Seq([size : Nat \ {0}, wait : BOOLEAN, more : BOOLEAN])

VARIABLES
  mem,         \* the words of the buffer
  head, tail, head_cache,    \* struct Offsets
  at,          \* where each writer stands in prepare, reserve, finish
  job,         \* number of the message each writer is on
  hd, tl, pad, index,        \* locals of reserve and prepare, per writer
  prev,        \* start of the fragment each writer has still to finish, or -1
  spurious,    \* spurious failures so far
  rat, rhd, advance, count,  \* where the reader stands, and locals of read
  order,       \* messages in the order their places were reserved
  handled      \* what the reader's handler was called with, in order

offsets == <<head, tail, head_cache>>
writing == <<at, job, hd, tl, pad, index, prev, spurious>>
reading == <<rat, rhd, advance, count>>
vars == <<mem, offsets, writing, reading, order, handled>>

-----------------------------------------------------------------------------
(* Words of the buffer, and arithmetic on offsets. *)

Zero == [kind |-> "zero"]
Header(m, size, pending) ==
  [kind |-> "header", m |-> m, size |-> size, pending |-> pending]
Padding(size) == [kind |-> "pad", size |-> size]
Data(m) == [kind |-> "data", m |-> m]

\* The entry of message m occupies the words index .. index + size - 1.
SizeOf(m) == Jobs[m[1]][m[2]].size
Message(w) == <<w, job[w]>>
Messages == UNION {{<<w, i>> : i \in DOMAIN Jobs[w]} : w \in Writers}

max_reservation_size == Size \div 2

Diff(a, b) == (a - b) % Modulus

greater_with_wraparound(a, b) == a # b /\ Diff(a, b) < Modulus \div 2

\* Where a pass of reserve's loop goes when it need not look at head first.
Fit(h, t, size) ==
  IF size <= Size - (t % Size)
  THEN [to |-> "cas", pad |-> 0]
  ELSE IF size <= h % Size
       THEN [to |-> "cas", pad |-> Size - (t % Size)]
       ELSE [to |-> "head again", pad |-> 0]

\* The test at the top of the loop: too little room as far as h tells.
Pass(h, t, size, oldpad) ==
  IF Diff(t, h) > Size \/ size > Size - Diff(t, h)
  THEN [to |-> "head", pad |-> oldpad]
  ELSE Fit(h, t, size)

Go(w, to) == at' = [at EXCEPT ![w] = to]

\* reserve found no room: a waiting writer pauses and tries again, another
\* gives the message up.
NoRoom(w) ==
  IF Jobs[w][job[w]].wait
  THEN Go(w, "reserve") /\ UNCHANGED job
  ELSE Go(w, "idle") /\ job' = [job EXCEPT ![w] = @ + 1]

-----------------------------------------------------------------------------
(* Writers. *)

\* prepare: the checks that throw, before anything is reserved.
Prepare(w) ==
  /\ at[w] = "idle" /\ job[w] <= Len(Jobs[w])
  /\ IF SizeOf(Message(w)) > max_reservation_size
     THEN job' = [job EXCEPT ![w] = @ + 1] /\ UNCHANGED at
     ELSE Go(w, "reserve") /\ UNCHANGED job
  /\ UNCHANGED <<mem, offsets, hd, tl, pad, index, prev, spurious, reading, order,
                 handled>>

LoadHeadCache(w) ==
  /\ at[w] = "reserve"
  /\ hd' = [hd EXCEPT ![w] = head_cache]
  /\ Go(w, "tail")
  /\ UNCHANGED <<mem, offsets, job, tl, pad, index, prev, spurious, reading, order,
                 handled>>

LoadTail(w) ==
  /\ at[w] = "tail"
  /\ tl' = [tl EXCEPT ![w] = tail]
  /\ LET p == Pass(hd[w], tail, SizeOf(Message(w)), 0)
     IN Go(w, p.to) /\ pad' = [pad EXCEPT ![w] = p.pad]
  /\ UNCHANGED <<mem, offsets, job, hd, index, prev, spurious, reading, order,
                 handled>>

LoadHead(w) ==
  LET size == SizeOf(Message(w)) IN
  /\ at[w] = "head"
  /\ hd' = [hd EXCEPT ![w] = head]
  /\ IF greater_with_wraparound(head, tl[w])
     THEN Go(w, "cas") /\ UNCHANGED job
     ELSE IF size > Size - Diff(tl[w], head)
          THEN NoRoom(w)
          ELSE Go(w, "cache") /\ UNCHANGED job
  /\ UNCHANGED <<mem, offsets, tl, pad, index, prev, spurious, reading, order,
                 handled>>

StoreHeadCache(w) ==
  /\ at[w] = "cache"
  /\ head_cache' = hd[w]
  /\ LET p == Fit(hd[w], tl[w], SizeOf(Message(w)))
     IN Go(w, p.to) /\ pad' = [pad EXCEPT ![w] = p.pad]
  /\ UNCHANGED <<mem, head, tail, job, hd, tl, index, prev, spurious, reading, order,
                 handled>>

LoadHeadAgain(w) ==
  /\ at[w] = "head again"
  /\ hd' = [hd EXCEPT ![w] = head]
  /\ IF SizeOf(Message(w)) > head % Size
     THEN NoRoom(w)
     ELSE Go(w, "cache again") /\ UNCHANGED job
  /\ UNCHANGED <<mem, offsets, tl, pad, index, prev, spurious, reading, order,
                 handled>>

StoreHeadCacheAgain(w) ==
  /\ at[w] = "cache again"
  /\ head_cache' = hd[w]
  /\ pad' = [pad EXCEPT ![w] = Size - (tl[w] % Size)]
  /\ Go(w, "cas")
  /\ UNCHANGED <<mem, head, tail, job, hd, tl, index, prev, spurious, reading, order,
                 handled>>

\* compare_exchange_weak: it may fail although tail is the expected value.
CompareExchange(w) ==
  LET size == SizeOf(Message(w)) IN
  /\ at[w] = "cas"
  /\ \/ /\ tail = tl[w]
        /\ tail' = (tl[w] + size + pad[w]) % Modulus
        /\ index' = [index EXCEPT ![w] =
                       IF pad[w] # 0 THEN 0 ELSE tl[w] % Size]
        /\ order' = Append(order, Message(w))
        /\ Go(w, IF pad[w] # 0 THEN "pad" ELSE "header")
        /\ UNCHANGED <<tl, pad, spurious>>
     \/ /\ tail # tl[w] \/ spurious < MaxSpurious
        /\ spurious' = IF tail = tl[w] THEN spurious + 1 ELSE spurious
        /\ tl' = [tl EXCEPT ![w] = tail]
        /\ LET p == Pass(hd[w], tail, size, pad[w])
           IN Go(w, p.to) /\ pad' = [pad EXCEPT ![w] = p.pad]
        /\ UNCHANGED <<tail, index, order>>
  /\ UNCHANGED <<mem, head, head_cache, job, hd, prev, reading, handled>>

WritePad(w) ==
  /\ at[w] = "pad"
  /\ mem' = [mem EXCEPT ![tl[w] % Size] = Padding(pad[w] - 1)]
  /\ Go(w, "header")
  /\ UNCHANGED <<offsets, job, hd, tl, pad, index, prev, spurious, reading, order,
                 handled>>

\* Mutant: the preliminary header lacks the pending flag.
WriteHeaderPublished(w) ==
  /\ at[w] = "header"
  /\ mem' = [mem EXCEPT ![index[w]] =
               Header(Message(w), SizeOf(Message(w)) - 1, FALSE)]
  /\ Go(w, IF prev[w] # -1 THEN "previous" ELSE "bytes")
  /\ UNCHANGED <<offsets, job, hd, tl, pad, index, prev, spurious, reading,
                 order, handled>>

\* The end of prepare: the preliminary header, with the pending flag.
WriteHeader(w) ==
  /\ at[w] = "header"
  /\ mem' = [mem EXCEPT ![index[w]] =
               Header(Message(w), SizeOf(Message(w)) - 1, TRUE)]
  /\ Go(w, IF prev[w] # -1 THEN "previous" ELSE "bytes")
  /\ UNCHANGED <<offsets, job, hd, tl, pad, index, prev, spurious, reading,
                 order, handled>>

\* The oversized writer finishes a fragment once the next one is prepared.
FinishPrevious(w) ==
  /\ at[w] = "previous"
  /\ mem' = [mem EXCEPT ![prev[w]].pending = FALSE]
  /\ prev' = [prev EXCEPT ![w] = -1]
  /\ Go(w, "bytes")
  /\ UNCHANGED <<offsets, job, hd, tl, pad, index, spurious, reading, order,
                 handled>>

\* After the bytes of a fragment with more to come, the next one is prepared.
write_bytes(w) ==
  /\ at[w] = "bytes"
  /\ mem' = [i \in DOMAIN mem |->
               IF i \in index[w] + 1 .. index[w] + SizeOf(Message(w)) - 1
               THEN Data(Message(w)) ELSE mem[i]]
  /\ IF Jobs[w][job[w]].more
     THEN /\ prev' = [prev EXCEPT ![w] = index[w]]
          /\ job' = [job EXCEPT ![w] = @ + 1]
          /\ Go(w, "idle")
     ELSE Go(w, "finish") /\ UNCHANGED <<prev, job>>
  /\ UNCHANGED <<offsets, hd, tl, pad, index, spurious, reading, order, handled>>

\* finish reads the header back and writes it without the pending flag.
finish(w) ==
  /\ at[w] = "finish"
  /\ mem' = [mem EXCEPT ![index[w]].pending = FALSE]
  /\ job' = [job EXCEPT ![w] = @ + 1]
  /\ Go(w, "idle")
  /\ UNCHANGED <<offsets, hd, tl, pad, index, prev, spurious, reading, order,
                 handled>>

-----------------------------------------------------------------------------
(* The reader. *)

Block == Size - (rhd % Size)

StartRead ==
  /\ rat = "idle"
  /\ rhd' = head
  /\ advance' = 0 /\ count' = 0
  /\ rat' = "scan"
  /\ UNCHANGED <<mem, offsets, writing, order, handled>>

\* The payload the handler is given: the words behind the header.
Payload(i) == {mem[j] : j \in i + 1 .. i + mem[i].size}

Scanning == rat = "scan" /\ advance < Block /\ count < Limit
Word == mem[(rhd % Size) + advance]

SkipPadding ==
  /\ Scanning /\ Word.kind = "pad"
  /\ advance' = advance + 1 + Word.size
  /\ UNCHANGED <<mem, offsets, writing, rat, rhd, count, order, handled>>

\* Mutant: an entry is taken to be one word longer than it is.
DeliverTooFar ==
  /\ Scanning /\ Word.kind = "header" /\ ~Word.pending
  /\ advance' = advance + 2 + Word.size
  /\ count' = count + 1
  /\ handled' = Append(handled,
       [m |-> Word.m, data |-> Payload((rhd % Size) + advance)])
  /\ UNCHANGED <<mem, offsets, writing, rat, rhd, order>>

\* The handler is called with the message number and its payload.
Deliver ==
  /\ Scanning /\ Word.kind = "header" /\ ~Word.pending
  /\ advance' = advance + 1 + Word.size
  /\ count' = count + 1
  /\ handled' = Append(handled,
       [m |-> Word.m, data |-> Payload((rhd % Size) + advance)])
  /\ UNCHANGED <<mem, offsets, writing, rat, rhd, order>>

\* The loop is left at its bound, at a pending write, or where there is no
\* message; what was read is cleared before head moves over it.
StopScan ==
  /\ rat = "scan"
  /\ Scanning => Word = Zero \/ (Word.kind = "header" /\ Word.pending)
  /\ rat' = IF advance > 0 THEN "clear" ELSE "idle"
  /\ UNCHANGED <<mem, offsets, writing, rhd, advance, count, order, handled>>

clear_mem ==
  /\ rat = "clear"
  /\ mem' = [i \in DOMAIN mem |->
               IF i \in rhd % Size .. (rhd % Size) + advance - 1
               THEN Zero ELSE mem[i]]
  /\ rat' = "store"
  /\ UNCHANGED <<offsets, writing, rhd, advance, count, order, handled>>

\* Mutant: head stays in front of the words that were cleared.
StoreOldHead ==
  /\ rat = "store"
  /\ head' = rhd
  /\ rat' = "idle"
  /\ UNCHANGED <<mem, tail, head_cache, writing, rhd, advance, count, order,
                 handled>>

StoreHead ==
  /\ rat = "store"
  /\ head' = (rhd + advance) % Modulus
  /\ rat' = "idle"
  /\ UNCHANGED <<mem, tail, head_cache, writing, rhd, advance, count, order,
                 handled>>

-----------------------------------------------------------------------------
Init ==
  /\ mem = [i \in 0 .. Size - 1 |-> Zero]
  /\ head = Start /\ tail = Start /\ head_cache = Start
  /\ at = [w \in Writers |-> "idle"]
  /\ job = [w \in Writers |-> 1]
  /\ hd = [w \in Writers |-> 0]
  /\ tl = [w \in Writers |-> 0]
  /\ pad = [w \in Writers |-> 0]
  /\ index = [w \in Writers |-> 0]
  /\ prev = [w \in Writers |-> -1]
  /\ spurious = 0
  /\ rat = "idle" /\ rhd = Start /\ advance = 0 /\ count = 0
  /\ order = <<>> /\ handled = <<>>

Write(w) ==
  \/ Prepare(w) \/ LoadHeadCache(w) \/ LoadTail(w) \/ LoadHead(w)
  \/ StoreHeadCache(w) \/ LoadHeadAgain(w) \/ StoreHeadCacheAgain(w)
  \/ CompareExchange(w) \/ WritePad(w) \/ WriteHeader(w)
  \/ FinishPrevious(w) \/ write_bytes(w) \/ finish(w)

Read == StartRead \/ SkipPadding \/ Deliver \/ StopScan \/ clear_mem \/ StoreHead

Next == Read \/ \E w \in Writers : Write(w)

Spec == Init /\ [][Next]_vars

\* The reader's loop never stops calling read, and a writer's thread is
\* scheduled whenever it can take a step.
FairSpec == Spec /\ WF_vars(Read) /\ \A w \in Writers : WF_vars(Write(w))

-----------------------------------------------------------------------------
(* Properties. *)

\* "It is safe to continue here, as the compare_exchange_weak is guaranteed to
\* fail": a writer that reaches the exchange with a head beyond its tail never
\* finds that tail still in place.
StaleExchangeFails ==
  \A w \in Writers :
    at[w] = "cas" /\ greater_with_wraparound(hd[w], tl[w]) => tail # tl[w]

\* The buffer is a first-in first-out queue: messages are handled once, whole,
\* in the order in which their places were reserved, and none before its
\* writer has finished it.
Whole(d) ==
  d.data \subseteq {Data(d.m)} /\ (d.data = {} <=> SizeOf(d.m) = 1)
Finished(m) ==
  m[2] < IF prev[m[1]] = -1 THEN job[m[1]] ELSE job[m[1]] - 1
Left == Len(order) - Len(handled)
Fifo == INSTANCE MessageQueue WITH
  queue <- [i \in 1 .. Left |->
              LET m == order[Len(handled) + i]
              IN [m |-> m, ready |-> Finished(m)]],
  handled <- [i \in DOMAIN handled |->
                IF Whole(handled[i]) THEN handled[i].m ELSE "torn"]
ImplementsQueue == Fifo!Spec

\* An entry of another writer was reserved behind a fragment that its own
\* writer has not finished.
HeldUp ==
  \E w \in Writers : prev[w] # -1 /\
    \E i, j \in DOMAIN order :
      i < j /\ order[i] = <<w, job[w] - 1>> /\ order[j][1] # w

\* Every entry whose writer waits for room is handled: max_reservation_size is
\* small enough that an emptied buffer has room for it, before or behind the
\* tail, also while the previous fragment of the same message keeps its place.
\* The one thing that can stop them all is that other writers fill the buffer
\* behind an unfinished fragment: oversized::Writer finishes a fragment only
\* when the next one has its place, and the reader cannot pass it.
WaitersGetThrough ==
  <>[]HeldUp \/
  \A m \in Messages :
    Jobs[m[1]][m[2]].wait /\ SizeOf(m) <= max_reservation_size =>
      <>(\E i \in DOMAIN handled : handled[i].m = m)
=============================================================================
