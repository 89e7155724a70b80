-------------------------- MODULE RemoteFenceProofs -------------------------
(***************************************************************************)
(* Theorems about the fifo of sbi_fifo.c and about RemoteFence, for every  *)
(* number of harts, every size of the fifo, every width of an address and  *)
(* every number of ecalls.                                                 *)
(***************************************************************************)
EXTENDS RemoteFence, TLAPS

\* time limits of the provers, in seconds
USE SMTT(30), ZenonT(30)

-----------------------------------------------------------------------------
(* The first hart of a mask.                                                 *)

\* The loops over a hart mask (sbi_ipi_send_many, tlb_process) find a least
\* hart whenever the mask is not empty.  It is a hypothesis of the lemmas that
\* need it, and shown at the end with the theorems on well-founded relations.
FirstIsLeast == \A S \in SUBSET Nat : S # {} => First(S) \in S /\ \A g \in S : First(S) <= g

-----------------------------------------------------------------------------
(* The ring of sbi_fifo.c.                                                   *)

\* the i-th entry in use, counted from 0
Entry(f, i) == f.queue[Slot(f, i)]
InUse(f) == 0 .. f.avail - 1

\* tlb_sync is 0 or 1.
LEMMA ZeroOne == 0 # 1
OBVIOUS

\* A fifo starts with no entry in use.
LEMMA EmptyInUse == InUse(FifoInit) = {}
BY DEF FifoInit, InUse

\* The fields of a fifo.
LEMMA FifoFields ==
    ASSUME NEW E, NEW f \in Fifos(E)
    PROVE  /\ f = [queue |-> f.queue, avail |-> f.avail, tail |-> f.tail]
           /\ f.queue \in [0 .. NumEntries - 1 -> E \cup {Free}]
           /\ f.avail \in 0 .. NumEntries
           /\ f.tail \in 0 .. NumEntries - 1
BY ZenonT(30) DEF Fifos

\* The slot arithmetic of sbi_fifo.c stays in the queue and gives every position
\* a slot of its own.
LEMMA Slots ==
    ASSUME NEW E, NEW f \in Fifos(E)
    PROVE  /\ \A i \in 0 .. NumEntries - 1 : Slot(f, i) \in 0 .. NumEntries - 1
           /\ \A i, j \in 0 .. NumEntries - 1 : Slot(f, i) = Slot(f, j) => i = j
BY FifoFields, NumEntriesAssumption DEF Slot

\* sbi_fifo_enqueue adds an entry behind the ones in use.
LEMMA EnqueueEntry ==
    ASSUME NEW E, NEW f \in Fifos(E), NEW e \in E, ~IsFull(f)
    PROVE  /\ Enqueue(f, e) \in Fifos(E)
           /\ Enqueue(f, e).avail = f.avail + 1
           /\ \A i \in InUse(f) : Entry(Enqueue(f, e), i) = Entry(f, i)
           /\ Entry(Enqueue(f, e), f.avail) = e
<1> DEFINE g == Enqueue(f, e)
<1>1. f.avail \in 0 .. NumEntries - 1 /\ f.avail + 1 \in 0 .. NumEntries
  BY FifoFields, NumEntriesAssumption DEF IsFull
<1>2. Slot(f, f.avail) \in 0 .. NumEntries - 1
  BY <1>1, Slots, ZenonT(30)
<1>3. /\ g.queue = [f.queue EXCEPT ![Slot(f, f.avail)] = e]
      /\ g.avail = f.avail + 1
      /\ g.tail = f.tail
      /\ g = [queue |-> g.queue, avail |-> g.avail, tail |-> g.tail]
  BY ZenonT(30) DEF Enqueue
<1>4. g.queue \in [0 .. NumEntries - 1 -> E \cup {Free}]
  BY <1>2, <1>3, FifoFields
<1>5. g \in Fifos(E)
  BY <1>1, <1>3, <1>4, FifoFields, ZenonT(30) DEF Fifos
<1>6. \A i \in 0 .. NumEntries - 1 : Slot(g, i) = Slot(f, i)
  BY <1>3, ZenonT(30) DEF Slot
<1>7. ASSUME NEW i \in InUse(f) PROVE Entry(g, i) = Entry(f, i)
  <2>1. i \in 0 .. NumEntries - 1 /\ i # f.avail
    BY <1>1, NumEntriesAssumption DEF InUse
  <2>2. Slot(f, i) # Slot(f, f.avail) /\ Slot(f, i) \in 0 .. NumEntries - 1
    BY <1>1, <2>1, Slots, ZenonT(30)
  <2>3. [f.queue EXCEPT ![Slot(f, f.avail)] = e][Slot(f, i)] = f.queue[Slot(f, i)]
    <3>1. DOMAIN f.queue = 0 .. NumEntries - 1
      BY FifoFields, ZenonT(30)
    <3> QED BY <2>2, <3>1, ZenonT(30)
  <2> QED BY <1>3, <1>6, <2>1, <2>3, ZenonT(30) DEF Entry
<1>8. Entry(g, f.avail) = e
  <2>1. [f.queue EXCEPT ![Slot(f, f.avail)] = e][Slot(f, f.avail)] = e
    BY <1>2, FifoFields, ZenonT(30)
  <2> QED BY <1>1, <1>3, <1>6, <2>1, ZenonT(30) DEF Entry
<1> QED BY <1>3, <1>5, <1>7, <1>8, ZenonT(30)

\* sbi_fifo_dequeue removes the oldest entry and moves the others up.
LEMMA DequeueEntry ==
    ASSUME NEW E, NEW f \in Fifos(E), ~IsEmpty(f)
    PROVE  /\ Dequeue(f) \in Fifos(E)
           /\ Dequeue(f).avail = f.avail - 1
           /\ \A i \in InUse(Dequeue(f)) : i + 1 \in InUse(f) /\ Entry(Dequeue(f), i) = Entry(f, i + 1)
           /\ 0 \in InUse(f)
           /\ Oldest(f) = Entry(f, 0)
<1> DEFINE g == Dequeue(f)
<1>1. f.avail \in 1 .. NumEntries /\ f.tail \in 0 .. NumEntries - 1
  BY FifoFields, NumEntriesAssumption DEF IsEmpty
<1>2. /\ g.queue = [f.queue EXCEPT ![f.tail] = Free]
      /\ g.avail = f.avail - 1
      /\ g.tail = IF f.tail + 1 >= NumEntries THEN 0 ELSE f.tail + 1
      /\ g = [queue |-> g.queue, avail |-> g.avail, tail |-> g.tail]
  BY ZenonT(30) DEF Dequeue
<1>3. g.queue \in [0 .. NumEntries - 1 -> E \cup {Free}]
  BY <1>2, FifoFields
<1>4. g.avail \in 0 .. NumEntries /\ g.tail \in 0 .. NumEntries - 1
  BY <1>1, <1>2, NumEntriesAssumption
<1>5. g \in Fifos(E)
  BY <1>2, <1>3, <1>4, ZenonT(30) DEF Fifos
<1>6. Slot(f, 0) = f.tail
  BY <1>1, NumEntriesAssumption DEF Slot
<1>7. ASSUME NEW i \in InUse(g)
      PROVE  i + 1 \in InUse(f) /\ Entry(g, i) = Entry(f, i + 1)
  <2>1. i + 1 \in InUse(f) /\ i + 1 \in 0 .. NumEntries - 1 /\ i \in Nat
    BY <1>1, <1>2, NumEntriesAssumption DEF InUse
  <2>2. Slot(g, i) = Slot(f, i + 1)
    BY <1>1, <1>2, <2>1, NumEntriesAssumption DEF Slot
  <2>3. Slot(f, i + 1) # f.tail /\ Slot(f, i + 1) \in 0 .. NumEntries - 1
    <3>1. 0 \in 0 .. NumEntries - 1 /\ i + 1 # 0
      BY <2>1, NumEntriesAssumption
    <3> QED BY <1>6, <2>1, <3>1, Slots, ZenonT(30)
  <2>4. [f.queue EXCEPT ![f.tail] = Free][Slot(f, i + 1)] = f.queue[Slot(f, i + 1)]
    <3>1. DOMAIN f.queue = 0 .. NumEntries - 1
      BY FifoFields, ZenonT(30)
    <3> QED BY <2>3, <3>1, ZenonT(30)
  <2> QED BY <1>2, <2>1, <2>2, <2>4, ZenonT(30) DEF Entry
<1>8. 0 \in InUse(f) /\ Oldest(f) = Entry(f, 0)
  BY <1>1, <1>6 DEF InUse, Oldest, Entry
<1> QED BY <1>2, <1>5, <1>7, <1>8, ZenonT(30)

\* sbi_fifo_inplace_update changes one entry.
LEMMA ReplaceEntry ==
    ASSUME NEW E, NEW f \in Fifos(E), NEW e \in E, NEW i \in InUse(f)
    PROVE  /\ Replace(f, i, e) \in Fifos(E)
           /\ Replace(f, i, e).avail = f.avail
           /\ \A k \in InUse(f) : Entry(Replace(f, i, e), k) = IF k = i THEN e ELSE Entry(f, k)
<1> DEFINE g == Replace(f, i, e)
<1>1. i \in 0 .. NumEntries - 1 /\ \A k \in InUse(f) : k \in 0 .. NumEntries - 1
  BY FifoFields, NumEntriesAssumption DEF InUse
<1>2. Slot(f, i) \in 0 .. NumEntries - 1
  BY <1>1, Slots, ZenonT(30)
<1>3. /\ g.queue = [f.queue EXCEPT ![Slot(f, i)] = e]
      /\ g.avail = f.avail
      /\ g.tail = f.tail
      /\ g = [queue |-> g.queue, avail |-> g.avail, tail |-> g.tail]
  BY FifoFields DEF Replace
<1>4. g \in Fifos(E)
  <2>1. g.queue \in [0 .. NumEntries - 1 -> E \cup {Free}]
    BY <1>2, <1>3, FifoFields
  <2> QED BY <1>3, <2>1, FifoFields, ZenonT(30) DEF Fifos
<1>5. ASSUME NEW k \in InUse(f) PROVE Entry(g, k) = IF k = i THEN e ELSE Entry(f, k)
  <2>1. Slot(g, k) = Slot(f, k)
    BY <1>3, ZenonT(30) DEF Slot
  <2>2. Slot(f, k) \in 0 .. NumEntries - 1 /\ (k # i => Slot(f, k) # Slot(f, i))
    BY <1>1, Slots, ZenonT(30)
  <2> QED BY <1>2, <1>3, <2>1, <2>2, FifoFields, ZenonT(30) DEF Entry
<1> QED BY <1>3, <1>4, <1>5, ZenonT(30)

\* what a reader of the fifo would call its contents
Contents(f) == [i \in 1 .. f.avail |-> Entry(f, i - 1)]

\* The ring is a queue: the operations of sbi_fifo.c append to the contents and
\* take the head of it, wherever the entries stand in the ring.
THEOREM FifoIsQueue ==
    ASSUME NEW E, NEW f \in Fifos(E), \A i \in InUse(f) : Entry(f, i) \in E
    PROVE  /\ \A e \in E : ~IsFull(f) => Contents(Enqueue(f, e)) = Append(Contents(f), e)
           /\ ~IsEmpty(f) => /\ Oldest(f) = Head(Contents(f))
                             /\ Contents(Dequeue(f)) = Tail(Contents(f))
\* The contents are a sequence of the entries in use.
<1>ContentsSeq.
      ASSUME NEW D, NEW q \in Fifos(D), \A i \in InUse(q) : Entry(q, i) \in D
      PROVE  /\ Contents(q) \in Seq(D)
             /\ Len(Contents(q)) = q.avail
             /\ \A i \in 1 .. q.avail : Contents(q)[i] = Entry(q, i - 1)
  <2> USE <1>ContentsSeq
  <2>1. q.avail \in Nat
    BY FifoFields, NumEntriesAssumption
  <2>2. \A i \in 1 .. q.avail : i - 1 \in InUse(q)
    BY <2>1 DEF InUse
  <2>3. Contents(q) \in [1 .. q.avail -> D]
    BY <2>2, ZenonT(30) DEF Contents
  <2>4. Contents(q) \in Seq(D) /\ Len(Contents(q)) = q.avail
    BY <2>1, <2>3
  <2> QED BY <2>4, ZenonT(30) DEF Contents
<1> DEFINE s == Contents(f)
<1>1. f.avail \in Nat
  BY FifoFields, NumEntriesAssumption
<1>2. s \in Seq(E) /\ Len(s) = f.avail /\ \A i \in 1 .. f.avail : s[i] = Entry(f, i - 1)
  BY <1>ContentsSeq, ZenonT(30)
<1> HIDE DEF s
<1>3. ASSUME NEW e \in E, ~IsFull(f)
      PROVE  Contents(Enqueue(f, e)) = Append(s, e)
  <2> DEFINE g == Enqueue(f, e)
  <2>1. /\ g \in Fifos(E)
        /\ g.avail = f.avail + 1
        /\ \A i \in InUse(f) : Entry(g, i) = Entry(f, i)
        /\ Entry(g, f.avail) = e
    BY <1>3, EnqueueEntry, ZenonT(30)
  <2> HIDE DEF g
  <2>2. InUse(g) = InUse(f) \cup {f.avail}
    BY <1>1, <2>1 DEF InUse
  <2>3. \A i \in InUse(g) : Entry(g, i) \in E
    BY <2>1, <2>2, ZenonT(30)
  <2>4. /\ Contents(g) \in Seq(E)
        /\ Len(Contents(g)) = f.avail + 1
        /\ \A i \in 1 .. f.avail + 1 : Contents(g)[i] = Entry(g, i - 1)
    BY <2>1, <2>3, <1>ContentsSeq, ZenonT(30)
  <2>5. /\ Append(s, e) \in Seq(E)
        /\ Len(Append(s, e)) = f.avail + 1
        /\ \A i \in 1 .. f.avail : Append(s, e)[i] = s[i]
        /\ Append(s, e)[f.avail + 1] = e
    BY <1>2
  <2>6. ASSUME NEW i \in 1 .. f.avail + 1
        PROVE  Contents(g)[i] = Append(s, e)[i]
    <3>1. CASE i = f.avail + 1
      <4>1. i - 1 = f.avail
        BY <1>1, <3>1
      <4> QED BY <2>1, <2>4, <2>5, <3>1, <4>1, ZenonT(30)
    <3>2. CASE i # f.avail + 1
      <4>1. i \in 1 .. f.avail /\ i - 1 \in InUse(f)
        BY <1>1, <3>2 DEF InUse
      <4> QED BY <1>2, <2>1, <2>4, <2>5, <4>1, ZenonT(30)
    <3> QED BY <3>1, <3>2, ZenonT(30)
  <2>7. Contents(g) = Append(s, e)
    BY <2>4, <2>5, <2>6
  <2> QED BY <2>7, ZenonT(30) DEF g
<1>4. ASSUME ~IsEmpty(f)
      PROVE  Oldest(f) = Head(s) /\ Contents(Dequeue(f)) = Tail(s)
  <2> DEFINE g == Dequeue(f)
  <2>1. /\ g \in Fifos(E)
        /\ g.avail = f.avail - 1
        /\ \A i \in InUse(g) : i + 1 \in InUse(f) /\ Entry(g, i) = Entry(f, i + 1)
        /\ Oldest(f) = Entry(f, 0)
    BY <1>4, DequeueEntry, ZenonT(30)
  <2> HIDE DEF g
  <2>2. f.avail > 0
    BY <1>1, <1>4 DEF IsEmpty
  <2>3. s # << >>
    BY <1>2, <2>2
  <2>4. Oldest(f) = Head(s)
    <3>1. 1 \in 1 .. f.avail /\ 1 - 1 = 0
      BY <1>1, <2>2
    <3>2. s[1] = Entry(f, 0)
      BY <1>2, <3>1, ZenonT(30)
    <3> QED BY <1>2, <2>1, <2>3, <3>2
  <2>5. /\ Tail(s) \in Seq(E)
        /\ Len(Tail(s)) = f.avail - 1
        /\ \A i \in 1 .. f.avail - 1 : Tail(s)[i] = s[i + 1]
    BY <1>2, <2>3
  <2>6. /\ Contents(g) \in Seq(E)
        /\ Len(Contents(g)) = f.avail - 1
        /\ \A i \in 1 .. f.avail - 1 : Contents(g)[i] = Entry(g, i - 1)
    BY <2>1, <1>ContentsSeq, ZenonT(30)
  <2>7. ASSUME NEW i \in 1 .. f.avail - 1
        PROVE  Contents(g)[i] = Tail(s)[i]
    <3>1. i - 1 \in InUse(g) /\ i + 1 \in 1 .. f.avail /\ (i - 1) + 1 = (i + 1) - 1
      BY <1>1, <2>1 DEF InUse
    <3> QED BY <1>2, <2>1, <2>5, <2>6, <3>1, ZenonT(30)
  <2>8. Contents(g) = Tail(s)
    BY <2>5, <2>6, <2>7
  <2> QED BY <2>4, <2>8, ZenonT(30) DEF g
<1> QED BY <1>3, <1>4, ZenonT(30) DEF s

\* Upgrade and Merged, field by field.
LEMMA InfoFields ==
    ASSUME NEW f \in Info
    PROVE  /\ f.local_fn \in LocalFns /\ f.asid \in Asids /\ f.vmid \in Vmids
           /\ f.start \in Nat /\ f.size \in Nat /\ f.start < ADDR_MOD /\ f.size < ADDR_MOD
           /\ f.smask \in SUBSET Harts
BY FenceAssumption DEF Info

LEMMA UpgradeFields ==
    ASSUME NEW f \in Info
    PROVE  /\ Upgrade(f) \in Info
           /\ Upgrade(f).local_fn = f.local_fn /\ Upgrade(f).asid = f.asid
           /\ Upgrade(f).vmid = f.vmid /\ Upgrade(f).smask = f.smask
           /\ f.size > FlushLimit => Upgrade(f).start = 0 /\ Upgrade(f).size = FLUSH_ALL
           /\ ~(f.size > FlushLimit) => Upgrade(f) = f
<1>1. FLUSH_ALL \in 0 .. ADDR_MOD - 1 /\ 0 \in 0 .. ADDR_MOD - 1
  BY FenceAssumption DEF FLUSH_ALL
<1> QED BY <1>1, ZenonT(30) DEF Upgrade, Info

LEMMA MergedFields ==
    ASSUME NEW in \in Info, NEW cur \in Info
    PROVE  /\ Merged(in, cur) \in Info
           /\ Merged(in, cur).local_fn = cur.local_fn /\ Merged(in, cur).asid = cur.asid
           /\ Merged(in, cur).vmid = cur.vmid /\ Merged(in, cur).smask = cur.smask \cup in.smask
           /\ Covers(in, cur) => Merged(in, cur).start = in.start /\ Merged(in, cur).size = in.size
           /\ ~Covers(in, cur) => Merged(in, cur).start = cur.start /\ Merged(in, cur).size = cur.size
BY ZenonT(30) DEF Merged, Info

-----------------------------------------------------------------------------
(* Types and control.                                                        *)

\* the step of one hart
Step(h) == Firmware(h) \/ Kernel(h)

Places == {"smode", "send", "enqueue", "type", "raise", "sync", "take", "dequeue", "signal"}

\* the part of the state that belongs to one hart's firmware
Of(h) == <<pc[h], tinfo[h], event[h], todo[h], back[h], left[h], signal[h], calls[h]>>

\* h serves its own fifo, called from c
Serving(h, c) == pc[h] \in {"dequeue", "signal"} /\ back[h] = c

\* where a hart is and what it has in hand
Flow(h) ==
    /\ pc[h] \in {"smode", "take"} \/ Serving(h, "smode") => todo[h] = {}
    /\ pc[h] \in {"enqueue", "type", "raise", "sync"} \/ Serving(h, "enqueue") \/ Serving(h, "sync") =>
           todo[h] # {}
    /\ pc[h] \in {"enqueue", "sync"} \/ Serving(h, "enqueue") \/ Serving(h, "sync") => event[h] = "tlb"
    /\ pc[h] = "signal" <=> signal[h] # {}
    /\ event[h] = "tlb" /\ todo[h] # {} => tinfo[h].smask = {h}

\* what an entry in use is: a fence somebody waits for
Awaited(e) == e \in Info /\ e.smask # {}

Holds(f) == \A i \in InUse(f) : Awaited(Entry(f, i))
Stored == \A t \in Harts : Holds(fifo[t])

Owing == DOMAIN owed = Harts /\ \A h \in Harts : DOMAIN owed[h] = Harts

TypeInv == TypeOK /\ Stored /\ Owing /\ \A h \in Harts : Flow(h)

\* TypeOK, variable by variable.
LEMMA TypeParts ==
    ASSUME TypeOK
    PROVE  /\ fifo \in [Harts -> Fifos(Info)] /\ tlb_sync \in [Harts -> {0, 1}]
           /\ ipi_type \in [Harts -> SUBSET {"smode", "tlb"}]
           /\ msip \in [Harts -> BOOLEAN] /\ ssip \in [Harts -> BOOLEAN]
           /\ pc \in [Harts -> Places] /\ tinfo \in [Harts -> Info]
           /\ event \in [Harts -> {"smode", "tlb"}] /\ todo \in [Harts -> SUBSET Harts]
           /\ back \in [Harts -> {"smode", "enqueue", "sync"}] /\ left \in [Harts -> 0 .. 2]
           /\ signal \in [Harts -> SUBSET Harts] /\ calls \in [Harts -> 0 .. MaxCalls]
BY ZenonT(30) DEF TypeOK, Places

LEMMA Domains ==
    ASSUME TypeOK
    PROVE  /\ DOMAIN pc = Harts /\ DOMAIN tinfo = Harts /\ DOMAIN event = Harts
           /\ DOMAIN todo = Harts /\ DOMAIN back = Harts /\ DOMAIN left = Harts
           /\ DOMAIN signal = Harts /\ DOMAIN calls = Harts
BY ZenonT(30) DEF TypeOK

\* A step of one hart leaves the other harts' firmware alone.
LEMMA OthersKept ==
    ASSUME TypeOK, NEW h \in Harts, NEW g \in Harts, g # h, Step(h)
    PROVE  UNCHANGED Of(g)
<1> USE Domains
<1>1. CASE RequestFence(h)
  BY <1>1, ZenonT(30) DEF RequestFence, Of
<1>2. CASE RequestIpi(h)
  BY <1>2, ZenonT(30) DEF RequestIpi, Of
<1>3. CASE ClearSmode(h)
  BY <1>3, ZenonT(30) DEF ClearSmode, Of, hart
<1>4. CASE SendReturn(h)
  BY <1>4, ZenonT(30) DEF SendReturn, Of
<1>5. CASE SendPlain(h)
  BY <1>5, ZenonT(30) DEF SendPlain, Of
<1>6. CASE UpdateSelf(h)
  BY <1>6, ZenonT(30) DEF UpdateSelf, Served, Of
<1>7. CASE UpdateRemote(h)
  BY <1>7, ZenonT(30) DEF UpdateRemote, Of
<1>8. CASE EnqueueFence(h)
  BY <1>8, ZenonT(30) DEF EnqueueFence, ProcessCount, Of
<1>9. CASE SetType(h)
  BY <1>9, ZenonT(30) DEF SetType, Of
<1>10. CASE Raise(h)
  BY <1>10, ZenonT(30) DEF Raise, Served, Of
<1>11. CASE Sync(h)
  BY <1>11, ZenonT(30) DEF Sync, Served, ProcessCount, Of
<1>12. CASE IpiClear(h)
  BY <1>12, ZenonT(30) DEF IpiClear, Of
<1>13. CASE IpiTake(h)
  BY <1>13, ZenonT(30) DEF IpiTake, Of
<1>14. CASE DequeueFence(h)
  BY <1>14, ZenonT(30) DEF DequeueFence, Of
<1>15. CASE ProcessReturn(h)
  BY <1>15, ZenonT(30) DEF ProcessReturn, Of
<1>16. CASE Signal(h)
  BY <1>16, ZenonT(30) DEF Signal, Of
<1> QED
  BY <1>1, <1>2, <1>3, <1>4, <1>5, <1>6, <1>7, <1>8, <1>9, <1>10, <1>11, <1>12, <1>13, <1>14,
     <1>15, <1>16, ZenonT(30) DEF Step, Firmware, Kernel

\* The target of a sender is a hart.
LEMMA TargetIn ==
    ASSUME FirstIsLeast, TypeOK, NEW h \in Harts, todo[h] # {}
    PROVE  Target(h) \in Harts /\ Target(h) \in todo[h]
<1>1. todo[h] \in SUBSET Nat /\ todo[h] \subseteq Harts
  BY FenceAssumption, TypeParts, ZenonT(30)
<1> QED BY <1>1, ZenonT(30) DEF Target, FirstIsLeast

\* The candidate that tlb_update_cb changes is the first entry it can merge.
LEMMA CandidateIn ==
    ASSUME FirstIsLeast, NEW f \in Fifos(Info), NEW in, Candidates(f, in) # {}
    PROVE  LET i == First(Candidates(f, in)) IN
           /\ i \in InUse(f)
           /\ Merges(in, Entry(f, i))
           /\ InplaceUpdate(f, in) = Replace(f, i, Merged(in, Entry(f, i)))
<1>1. Candidates(f, in) \in SUBSET Nat
  BY FifoFields, NumEntriesAssumption DEF Candidates
<1>2. First(Candidates(f, in)) \in Candidates(f, in)
  BY <1>1, ZenonT(30) DEF FirstIsLeast
<1> QED BY <1>2, ZenonT(30) DEF Candidates, InUse, Entry, InplaceUpdate

LEMMA TypeInvHolds == ASSUME FirstIsLeast PROVE Spec => []TypeInv
<1>PlaceFacts.
      /\ "smode" \in Places /\ "send" \in Places /\ "enqueue" \in Places /\ "type" \in Places
      /\ "raise" \in Places /\ "sync" \in Places /\ "take" \in Places /\ "dequeue" \in Places
      /\ "signal" \in Places
  BY ZenonT(30) DEF Places
<1>TypeFromParts.
      ASSUME fifo' \in [Harts -> Fifos(Info)], tlb_sync' \in [Harts -> {0, 1}],
             ipi_type' \in [Harts -> SUBSET {"smode", "tlb"}],
             msip' \in [Harts -> BOOLEAN], ssip' \in [Harts -> BOOLEAN],
             pc' \in [Harts -> Places], tinfo' \in [Harts -> Info],
             event' \in [Harts -> {"smode", "tlb"}], todo' \in [Harts -> SUBSET Harts],
             back' \in [Harts -> {"smode", "enqueue", "sync"}], left' \in [Harts -> 0 .. 2],
             signal' \in [Harts -> SUBSET Harts], calls' \in [Harts -> 0 .. MaxCalls]
      PROVE  TypeOK'
  BY <1>TypeFromParts, ZenonT(30) DEF TypeOK, Places
<1>FlowKept. ASSUME NEW g, Flow(g), UNCHANGED Of(g) PROVE Flow(g)'
  BY <1>FlowKept, ZenonT(30) DEF Flow, Of, Serving
<1>EnqueueHolds.
      ASSUME NEW f \in Fifos(Info), Holds(f), NEW e \in Info, e.smask # {}, ~IsFull(f)
      PROVE  Enqueue(f, e) \in Fifos(Info) /\ Holds(Enqueue(f, e))
  <2> USE <1>EnqueueHolds
  <2> DEFINE g == Enqueue(f, e)
  <2>1. /\ g \in Fifos(Info)
        /\ g.avail = f.avail + 1
        /\ \A i \in InUse(f) : Entry(g, i) = Entry(f, i)
        /\ Entry(g, f.avail) = e
    BY EnqueueEntry, ZenonT(30)
  <2> HIDE DEF g
  <2>2. f.avail \in Nat
    BY FifoFields, NumEntriesAssumption
  <2>3. InUse(g) = InUse(f) \cup {f.avail}
    BY <2>1, <2>2 DEF InUse
  <2>4. Holds(g)
    BY <2>1, <2>3, ZenonT(30) DEF Holds, Awaited
  <2> QED BY <2>1, <2>4, ZenonT(30) DEF g
<1>DequeueHolds.
      ASSUME NEW f \in Fifos(Info), Holds(f), ~IsEmpty(f)
      PROVE  Dequeue(f) \in Fifos(Info) /\ Holds(Dequeue(f)) /\ Awaited(Oldest(f))
  BY <1>DequeueHolds, DequeueEntry, ZenonT(30) DEF Holds
<1>UpdateHolds.
      ASSUME NEW f \in Fifos(Info), Holds(f), NEW in \in Info, Candidates(f, in) # {}
      PROVE  InplaceUpdate(f, in) \in Fifos(Info) /\ Holds(InplaceUpdate(f, in))
  <2> USE <1>UpdateHolds
  <2> DEFINE i == First(Candidates(f, in))
             e == Entry(f, i)
             m == Merged(in, e)
             g == Replace(f, i, m)
  <2>1. i \in InUse(f) /\ InplaceUpdate(f, in) = g
    BY CandidateIn, ZenonT(30)
  <2>2. e \in Info /\ e.smask # {}
    BY <2>1, ZenonT(30) DEF Holds, Awaited
  <2> HIDE DEF i, e
  <2>3. m \in Info /\ m.smask # {}
    BY <2>2, MergedFields, ZenonT(30)
  <2> HIDE DEF m
  <2>4. /\ g \in Fifos(Info) /\ g.avail = f.avail
        /\ \A k \in InUse(f) : Entry(g, k) = IF k = i THEN m ELSE Entry(f, k)
    BY <2>1, <2>3, ReplaceEntry
  <2> HIDE DEF g
  <2>5. Holds(g)
    BY <2>3, <2>4, ZenonT(30) DEF Holds, InUse, Awaited
  <2> QED BY <2>1, <2>4, <2>5, ZenonT(30)
<1>StoredKept. ASSUME Stored, UNCHANGED fifo PROVE Stored'
  BY <1>StoredKept, ZenonT(30) DEF Stored
<1>StoredStep.
      ASSUME TypeOK, Stored, NEW t \in Harts, NEW f \in Fifos(Info), Holds(f),
             fifo' = [fifo EXCEPT ![t] = f]
      PROVE  fifo' \in [Harts -> Fifos(Info)] /\ Stored'
  <2> USE <1>StoredStep
  <2>1. fifo \in [Harts -> Fifos(Info)]
    BY TypeParts, ZenonT(30)
  <2>2. \A g \in Harts : fifo'[g] = IF g = t THEN f ELSE fifo[g]
    BY <2>1, ZenonT(30)
  <2>3. \A g \in Harts : Holds(fifo'[g])
    BY <2>2, ZenonT(30) DEF Stored
  <2>4. Stored'
    BY <2>3, ZenonT(30) DEF Stored
  <2> QED BY <2>1, <2>4, ZenonT(30)
<1>NoInfoType. NoInfo \in Info
  <2>1. (CHOOSE a \in Asids : TRUE) \in Asids /\ (CHOOSE v \in Vmids : TRUE) \in Vmids
    BY FenceAssumption, ZenonT(30)
  <2>2. 0 \in 0 .. ADDR_MOD - 1
    BY FenceAssumption
  <2> QED BY <2>1, <2>2, ZenonT(30) DEF NoInfo, TlbInfo, Info, LocalFns
<1>InitTypeInv. Init => TypeInv
  <2> SUFFICES ASSUME Init PROVE TypeInv
    BY ZenonT(30)
  <2>1. FifoInit \in Fifos(Info) /\ FifoInit.avail = 0
    BY NumEntriesAssumption DEF FifoInit, Fifos
  <2>2. TypeOK
    BY <2>1, <1>NoInfoType, FenceAssumption DEF Init, TypeOK
  <2>3. Stored
    BY <2>1 DEF Init, Stored, Holds, InUse
  <2>4. Owing
    BY ZenonT(30) DEF Init, Owing
  <2>5. \A h \in Harts : Flow(h)
    BY ZenonT(30) DEF Init, Flow, Serving
  <2> QED BY <2>2, <2>3, <2>4, <2>5, ZenonT(30) DEF TypeInv
<1>StepTypeInv.
      ASSUME TypeInv, NEW h \in Harts, Step(h)
      PROVE  TypeInv'
  <2> USE <1>StepTypeInv
  <2>a. TypeOK /\ Stored /\ Owing /\ \A g \in Harts : Flow(g)
    BY ZenonT(30) DEF TypeInv
  <2>b. /\ fifo \in [Harts -> Fifos(Info)] /\ tlb_sync \in [Harts -> {0, 1}]
        /\ ipi_type \in [Harts -> SUBSET {"smode", "tlb"}]
        /\ msip \in [Harts -> BOOLEAN] /\ ssip \in [Harts -> BOOLEAN]
        /\ pc \in [Harts -> Places] /\ tinfo \in [Harts -> Info]
        /\ event \in [Harts -> {"smode", "tlb"}] /\ todo \in [Harts -> SUBSET Harts]
        /\ back \in [Harts -> {"smode", "enqueue", "sync"}] /\ left \in [Harts -> 0 .. 2]
        /\ signal \in [Harts -> SUBSET Harts] /\ calls \in [Harts -> 0 .. MaxCalls]
    BY <2>a, TypeParts, ZenonT(30)
  <2>c. SUFFICES TypeOK' /\ Stored' /\ Owing' /\ Flow(h)'
    BY <2>a, OthersKept, <1>FlowKept, ZenonT(30) DEF TypeInv
  <2>d. Flow(h)
    BY <2>a, ZenonT(30)
  <2>e. ASSUME UNCHANGED fifo PROVE Stored'
    BY <2>a, <2>e, <1>StoredKept, ZenonT(30)
  <2>f. ASSUME UNCHANGED owed PROVE Owing'
    BY <2>a, <2>f, ZenonT(30) DEF Owing
  <2>g. ASSUME NEW f, Flush(h, f) PROVE Owing'
    BY <2>a, <2>g, ZenonT(30) DEF Owing, Flush
  <2>1. CASE RequestFence(h)
    <3>1. PICK r \in Requests[h], m \in Masks[h] :
              /\ tinfo' = [tinfo EXCEPT ![h] = TlbInfo(r, {h})]
              /\ todo' = [todo EXCEPT ![h] = m]
              /\ owed' = [owed EXCEPT ![h] = [t \in Harts |-> IF t \in m THEN LocalFlush(r) ELSE {}]]
      BY <2>1, ZenonT(30) DEF RequestFence
    <3>2. /\ pc[h] = "smode" /\ calls[h] < MaxCalls
          /\ event' = [event EXCEPT ![h] = "tlb"]
          /\ pc' = [pc EXCEPT ![h] = "send"]
          /\ calls' = [calls EXCEPT ![h] = @ + 1]
          /\ UNCHANGED <<fifo, tlb_sync, ipi_type, msip, ssip, back, left, signal>>
      BY <2>1, ZenonT(30) DEF RequestFence
    <3>3. r \in Fences /\ m \in SUBSET Harts
      BY FenceAssumption, ZenonT(30)
    <3>4. TlbInfo(r, {h}) \in Info /\ TlbInfo(r, {h}).smask = {h}
      BY <3>3, ZenonT(30) DEF Fences, TlbInfo, Info
    <3>5. tinfo' \in [Harts -> Info] /\ tinfo'[h].smask = {h}
      BY <2>b, <3>1, <3>4, ZenonT(30)
    <3>6. todo' \in [Harts -> SUBSET Harts] /\ event' \in [Harts -> {"smode", "tlb"}]
      BY <2>b, <3>1, <3>2, <3>3, ZenonT(30)
    <3>7. calls' \in [Harts -> 0 .. MaxCalls]
      BY <2>b, <3>2, FenceAssumption
    <3>8. pc' \in [Harts -> Places] /\ pc'[h] = "send"
      BY <2>b, <3>2, <1>PlaceFacts, ZenonT(30)
    <3>9. TypeOK'
      BY <2>b, <3>2, <3>5, <3>6, <3>7, <3>8, <1>TypeFromParts, ZenonT(30)
    <3>10. Owing'
      BY <2>a, <3>1, ZenonT(30) DEF Owing
    <3>11. Flow(h)'
      BY <2>d, <3>2, <3>5, <3>8, ZenonT(30) DEF Flow, Serving
    <3> QED BY <2>e, <3>2, <3>9, <3>10, <3>11, ZenonT(30)
  <2>2. CASE RequestIpi(h)
    <3>1. PICK m \in Masks[h] : todo' = [todo EXCEPT ![h] = m]
      BY <2>2, ZenonT(30) DEF RequestIpi
    <3>2. /\ pc[h] = "smode" /\ calls[h] < MaxCalls
          /\ event' = [event EXCEPT ![h] = "smode"]
          /\ pc' = [pc EXCEPT ![h] = "send"]
          /\ calls' = [calls EXCEPT ![h] = @ + 1]
          /\ UNCHANGED <<fifo, tlb_sync, ipi_type, msip, ssip, tinfo, back, left, signal, owed>>
      BY <2>2, ZenonT(30) DEF RequestIpi
    <3>3. m \in SUBSET Harts
      BY FenceAssumption, ZenonT(30)
    <3>4. todo' \in [Harts -> SUBSET Harts]
      BY <2>b, <3>1, <3>3, ZenonT(30)
    <3>5. event' \in [Harts -> {"smode", "tlb"}] /\ event'[h] = "smode"
      BY <2>b, <3>2, ZenonT(30)
    <3>6. calls' \in [Harts -> 0 .. MaxCalls]
      BY <2>b, <3>2, FenceAssumption
    <3>7. pc' \in [Harts -> Places] /\ pc'[h] = "send"
      BY <2>b, <3>2, <1>PlaceFacts, ZenonT(30)
    <3>8. TypeOK'
      BY <2>b, <3>2, <3>4, <3>5, <3>6, <3>7, <1>TypeFromParts, ZenonT(30)
    <3>9. Flow(h)'
      BY <2>d, <3>2, <3>5, <3>7, ZenonT(30) DEF Flow, Serving
    <3> QED BY <2>e, <2>f, <3>2, <3>8, <3>9, ZenonT(30)
  <2>3. CASE ClearSmode(h)
    <3>1. /\ ssip' = [ssip EXCEPT ![h] = FALSE]
          /\ UNCHANGED <<fifo, tlb_sync, ipi_type, msip, pc, tinfo, event, todo, back, left, signal, calls, owed>>
      BY <2>3, ZenonT(30) DEF ClearSmode, hart
    <3>2. ssip' \in [Harts -> BOOLEAN]
      BY <2>b, <3>1, ZenonT(30)
    <3>3. TypeOK'
      BY <2>b, <3>1, <3>2, <1>TypeFromParts, ZenonT(30)
    <3>4. Flow(h)'
      BY <2>d, <3>1, ZenonT(30) DEF Flow, Serving
    <3> QED BY <2>e, <2>f, <3>1, <3>3, <3>4, ZenonT(30)
  <2>4. CASE SendReturn(h)
    <3>1. /\ pc[h] = "send" /\ todo[h] = {}
          /\ pc' = [pc EXCEPT ![h] = "smode"]
          /\ tinfo' = [tinfo EXCEPT ![h] = NoInfo]
          /\ UNCHANGED <<fifo, tlb_sync, ipi_type, msip, ssip, event, todo, back, left, signal, calls, owed>>
      BY <2>4, ZenonT(30) DEF SendReturn
    <3>2. pc' \in [Harts -> Places] /\ pc'[h] = "smode"
      BY <2>b, <3>1, <1>PlaceFacts, ZenonT(30)
    <3>3. tinfo' \in [Harts -> Info]
      BY <2>b, <3>1, <1>NoInfoType, ZenonT(30)
    <3>4. TypeOK'
      BY <2>b, <3>1, <3>2, <3>3, <1>TypeFromParts, ZenonT(30)
    <3>5. Flow(h)'
      BY <2>d, <3>1, <3>2, ZenonT(30) DEF Flow, Serving
    <3> QED BY <2>e, <2>f, <3>1, <3>4, <3>5, ZenonT(30)
  <2>5. CASE SendPlain(h)
    <3>1. /\ pc[h] = "send" /\ todo[h] # {} /\ event[h] = "smode"
          /\ pc' = [pc EXCEPT ![h] = "type"]
          /\ UNCHANGED <<fifo, tlb_sync, ipi_type, msip, ssip, tinfo, event, todo, back, left, signal, calls, owed>>
      BY <2>5, ZenonT(30) DEF SendPlain
    <3>2. pc' \in [Harts -> Places] /\ pc'[h] = "type"
      BY <2>b, <3>1, <1>PlaceFacts, ZenonT(30)
    <3>3. TypeOK'
      BY <2>b, <3>1, <3>2, <1>TypeFromParts, ZenonT(30)
    <3>4. Flow(h)'
      BY <2>d, <3>1, <3>2, ZenonT(30) DEF Flow, Serving
    <3> QED BY <2>e, <2>f, <3>1, <3>3, <3>4, ZenonT(30)
  <2>6. CASE UpdateSelf(h)
    <3>1. /\ pc[h] = "send" /\ todo[h] # {} /\ event[h] = "tlb"
          /\ tinfo' = [tinfo EXCEPT ![h] = Upgrade(@)]
          /\ Flush(h, Upgrade(tinfo[h]))
          /\ todo' = [todo EXCEPT ![h] = @ \ {Target(h)}]
          /\ pc' = [pc EXCEPT ![h] = "send"]
          /\ UNCHANGED <<fifo, tlb_sync, ipi_type, msip, ssip, event, back, left, signal, calls>>
      BY <2>6, ZenonT(30) DEF UpdateSelf, Served
    <3>2. Upgrade(tinfo[h]) \in Info /\ Upgrade(tinfo[h]).smask = {h}
      BY <2>b, <2>d, <3>1, UpgradeFields, ZenonT(30) DEF Flow
    <3>3. tinfo' \in [Harts -> Info] /\ tinfo'[h].smask = {h}
      BY <2>b, <3>1, <3>2, ZenonT(30)
    <3>4. todo' \in [Harts -> SUBSET Harts]
      BY <2>b, <3>1, ZenonT(30)
    <3>5. pc' \in [Harts -> Places] /\ pc'[h] = "send"
      BY <2>b, <3>1, <1>PlaceFacts, ZenonT(30)
    <3>6. TypeOK'
      BY <2>b, <3>1, <3>3, <3>4, <3>5, <1>TypeFromParts, ZenonT(30)
    <3>7. Flow(h)'
      BY <2>d, <3>1, <3>3, <3>5, ZenonT(30) DEF Flow, Serving
    <3> QED BY <2>e, <2>g, <3>1, <3>6, <3>7, ZenonT(30)
  <2>7. CASE UpdateRemote(h)
    <3> DEFINE t == Target(h)
               in == Upgrade(tinfo[h])
    <3>1. /\ pc[h] = "send" /\ todo[h] # {} /\ event[h] = "tlb"
          /\ tinfo' = [tinfo EXCEPT ![h] = in]
          /\ UNCHANGED <<tlb_sync, ipi_type, msip, ssip, event, todo, back, left, signal, calls, owed>>
      BY <2>7, ZenonT(30) DEF UpdateRemote
    <3>2. in \in Info /\ in.smask = {h}
      BY <2>b, <2>d, <3>1, UpgradeFields, ZenonT(30) DEF Flow
    <3>3. t \in Harts
      BY <2>a, <3>1, TargetIn, ZenonT(30)
    <3>4. tinfo' \in [Harts -> Info] /\ tinfo'[h].smask = {h}
      BY <2>b, <3>1, <3>2, ZenonT(30)
    <3>5. \/ /\ Candidates(fifo[t], in) # {}
             /\ fifo' = [fifo EXCEPT ![t] = InplaceUpdate(fifo[t], in)]
             /\ pc' = [pc EXCEPT ![h] = "type"]
          \/ /\ pc' = [pc EXCEPT ![h] = "enqueue"]
             /\ UNCHANGED fifo
      BY <2>7, ZenonT(30) DEF UpdateRemote
    <3>6. pc' \in [Harts -> Places] /\ pc'[h] \in {"type", "enqueue"}
      BY <2>b, <3>5, <1>PlaceFacts
    <3>7. fifo' \in [Harts -> Fifos(Info)] /\ Stored'
      <4> HIDE DEF t, in
      <4>1. CASE Candidates(fifo[t], in) # {} /\ fifo' = [fifo EXCEPT ![t] = InplaceUpdate(fifo[t], in)]
        <5>1. fifo[t] \in Fifos(Info) /\ Holds(fifo[t])
          BY <2>a, <2>b, <3>3, ZenonT(30) DEF Stored
        <5>2. InplaceUpdate(fifo[t], in) \in Fifos(Info) /\ Holds(InplaceUpdate(fifo[t], in))
          BY <3>2, <4>1, <5>1, <1>UpdateHolds, ZenonT(30)
        <5> QED BY <2>a, <3>3, <4>1, <5>2, <1>StoredStep, ZenonT(30)
      <4>2. CASE UNCHANGED fifo
        BY <2>b, <2>e, <4>2, ZenonT(30)
      <4> QED BY <3>5, <4>1, <4>2, ZenonT(30)
    <3>8. TypeOK'
      BY <2>b, <3>1, <3>4, <3>6, <3>7, <1>TypeFromParts, ZenonT(30)
    <3>9. Flow(h)'
      BY <2>d, <3>1, <3>4, <3>6, ZenonT(30) DEF Flow, Serving
    <3> QED BY <2>f, <3>1, <3>7, <3>8, <3>9, ZenonT(30)
  <2>8. CASE EnqueueFence(h)
    <3> DEFINE t == Target(h)
    <3>1. /\ pc[h] = "enqueue"
          /\ UNCHANGED <<tlb_sync, ipi_type, msip, ssip, tinfo, event, todo, signal, calls, owed>>
      BY <2>8, ZenonT(30) DEF EnqueueFence
    <3>2. todo[h] # {} /\ event[h] = "tlb" /\ tinfo[h].smask = {h} /\ tinfo[h] \in Info /\ signal[h] = {}
      BY <2>b, <2>d, <3>1, ZenonT(30) DEF Flow
    <3>3. t \in Harts
      BY <2>a, <3>2, TargetIn, ZenonT(30)
    <3>4. CASE /\ ~IsFull(fifo[t])
               /\ fifo' = [fifo EXCEPT ![t] = Enqueue(fifo[t], tinfo[h])]
               /\ pc' = [pc EXCEPT ![h] = "type"]
               /\ UNCHANGED <<back, left>>
      <4> HIDE DEF t
      <4>1. fifo[t] \in Fifos(Info) /\ Holds(fifo[t])
        BY <2>a, <2>b, <3>3, ZenonT(30) DEF Stored
      <4>2. Enqueue(fifo[t], tinfo[h]) \in Fifos(Info) /\ Holds(Enqueue(fifo[t], tinfo[h]))
        BY <3>2, <3>4, <4>1, <1>EnqueueHolds, ZenonT(30)
      <4>3. fifo' \in [Harts -> Fifos(Info)] /\ Stored'
        BY <2>a, <3>3, <3>4, <4>2, <1>StoredStep, ZenonT(30)
      <4>4. pc' \in [Harts -> Places] /\ pc'[h] = "type"
        BY <2>b, <3>4, <1>PlaceFacts, ZenonT(30)
      <4>5. TypeOK'
        BY <2>b, <3>1, <3>4, <4>3, <4>4, <1>TypeFromParts, ZenonT(30)
      <4>6. Flow(h)'
        BY <3>1, <3>2, <3>4, <4>4, ZenonT(30) DEF Flow, Serving
      <4> QED BY <2>f, <3>1, <4>3, <4>5, <4>6, ZenonT(30)
    <3>5. CASE /\ pc' = [pc EXCEPT ![h] = "dequeue"]
               /\ back' = [back EXCEPT ![h] = "enqueue"]
               /\ left' = [left EXCEPT ![h] = 2]
               /\ UNCHANGED fifo
      <4>1. back' \in [Harts -> {"smode", "enqueue", "sync"}] /\ back'[h] = "enqueue"
        BY <2>b, <3>5, ZenonT(30)
      <4>2. left' \in [Harts -> 0 .. 2]
        BY <2>b, <3>5
      <4>3. pc' \in [Harts -> Places] /\ pc'[h] = "dequeue"
        BY <2>b, <3>5, <1>PlaceFacts, ZenonT(30)
      <4>4. TypeOK'
        BY <2>b, <3>1, <3>5, <4>1, <4>2, <4>3, <1>TypeFromParts, ZenonT(30)
      <4>5. Flow(h)'
        BY <3>1, <3>2, <4>1, <4>3, ZenonT(30) DEF Flow, Serving
      <4> QED BY <2>e, <2>f, <3>1, <3>5, <4>4, <4>5, ZenonT(30)
    <3> QED BY <2>8, <3>4, <3>5, ZenonT(30) DEF EnqueueFence, ProcessCount
  <2>9. CASE SetType(h)
    <3>1. /\ pc[h] = "type"
          /\ ipi_type' = [ipi_type EXCEPT ![Target(h)] = @ \cup {event[h]}]
          /\ pc' = [pc EXCEPT ![h] = "raise"]
          /\ UNCHANGED <<fifo, tlb_sync, msip, ssip, tinfo, event, todo, back, left, signal, calls, owed>>
      BY <2>9, ZenonT(30) DEF SetType
    <3>2. Target(h) \in Harts /\ event[h] \in {"smode", "tlb"}
      BY <2>a, <2>b, <2>d, <3>1, TargetIn, ZenonT(30) DEF Flow
    <3>3. ipi_type' \in [Harts -> SUBSET {"smode", "tlb"}]
      BY <2>b, <3>1, <3>2, ZenonT(30)
    <3>4. pc' \in [Harts -> Places] /\ pc'[h] = "raise"
      BY <2>b, <3>1, <1>PlaceFacts, ZenonT(30)
    <3>5. TypeOK'
      BY <2>b, <3>1, <3>3, <3>4, <1>TypeFromParts, ZenonT(30)
    <3>6. Flow(h)'
      BY <2>d, <3>1, <3>4, ZenonT(30) DEF Flow, Serving
    <3> QED BY <2>e, <2>f, <3>1, <3>5, <3>6, ZenonT(30)
  <2>10. CASE Raise(h)
    <3>1. /\ pc[h] = "raise"
          /\ msip' = [msip EXCEPT ![Target(h)] = TRUE]
          /\ UNCHANGED <<fifo, tlb_sync, ipi_type, ssip, tinfo, event, back, left, signal, calls, owed>>
      BY <2>10, ZenonT(30) DEF Raise
    <3>2. \/ event[h] = "tlb" /\ pc' = [pc EXCEPT ![h] = "sync"] /\ UNCHANGED todo
          \/ event[h] = "smode" /\ pc' = [pc EXCEPT ![h] = "send"] /\ todo' = [todo EXCEPT ![h] = @ \ {Target(h)}]
      BY <2>10, ZenonT(30) DEF Raise, Served
    <3>3. msip' \in [Harts -> BOOLEAN]
      BY <2>b, <3>1, ZenonT(30)
    <3>4. pc' \in [Harts -> Places] /\ todo' \in [Harts -> SUBSET Harts]
      BY <2>b, <3>2, <1>PlaceFacts
    <3>5. \/ pc'[h] = "sync" /\ todo'[h] = todo[h] /\ event[h] = "tlb"
          \/ pc'[h] = "send" /\ event[h] = "smode"
      BY <2>b, <3>2, ZenonT(30)
    <3>6. TypeOK'
      BY <2>b, <3>1, <3>3, <3>4, <1>TypeFromParts, ZenonT(30)
    <3>7. Flow(h)'
      BY <2>d, <3>1, <3>5, ZenonT(30) DEF Flow, Serving
    <3> QED BY <2>e, <2>f, <3>1, <3>6, <3>7, ZenonT(30)
  <2>11. CASE Sync(h)
    <3>1. pc[h] = "sync" /\ UNCHANGED <<fifo, ipi_type, msip, ssip, tinfo, event, signal, calls, owed>>
      BY <2>11, ZenonT(30) DEF Sync
    <3>2. todo[h] # {} /\ event[h] = "tlb" /\ tinfo[h].smask = {h} /\ signal[h] = {}
      BY <2>d, <3>1, ZenonT(30) DEF Flow
    <3>3. CASE /\ tlb_sync' = [tlb_sync EXCEPT ![h] = 0]
               /\ todo' = [todo EXCEPT ![h] = @ \ {Target(h)}]
               /\ pc' = [pc EXCEPT ![h] = "send"]
               /\ UNCHANGED <<back, left>>
      <4>1. tlb_sync' \in [Harts -> {0, 1}] /\ todo' \in [Harts -> SUBSET Harts]
        BY <2>b, <3>3, ZenonT(30)
      <4>2. pc' \in [Harts -> Places] /\ pc'[h] = "send"
        BY <2>b, <3>3, <1>PlaceFacts, ZenonT(30)
      <4>3. TypeOK'
        BY <2>b, <3>1, <3>3, <4>1, <4>2, <1>TypeFromParts, ZenonT(30)
      <4>4. Flow(h)'
        BY <3>1, <3>2, <4>2, ZenonT(30) DEF Flow, Serving
      <4> QED BY <2>e, <2>f, <3>1, <4>3, <4>4, ZenonT(30)
    <3>4. CASE /\ pc' = [pc EXCEPT ![h] = "dequeue"]
               /\ back' = [back EXCEPT ![h] = "sync"]
               /\ left' = [left EXCEPT ![h] = 2]
               /\ UNCHANGED <<tlb_sync, todo>>
      <4>1. back' \in [Harts -> {"smode", "enqueue", "sync"}] /\ back'[h] = "sync"
        BY <2>b, <3>4, ZenonT(30)
      <4>2. left' \in [Harts -> 0 .. 2]
        BY <2>b, <3>4
      <4>3. pc' \in [Harts -> Places] /\ pc'[h] = "dequeue"
        BY <2>b, <3>4, <1>PlaceFacts, ZenonT(30)
      <4>4. TypeOK'
        BY <2>b, <3>1, <3>4, <4>1, <4>2, <4>3, <1>TypeFromParts, ZenonT(30)
      <4>5. Flow(h)'
        BY <3>1, <3>2, <3>4, <4>1, <4>3, ZenonT(30) DEF Flow, Serving
      <4> QED BY <2>e, <2>f, <3>1, <4>4, <4>5, ZenonT(30)
    <3> QED BY <2>11, <3>3, <3>4, ZenonT(30) DEF Sync, Served, ProcessCount
  <2>12. CASE IpiClear(h)
    <3>1. /\ pc[h] = "smode"
          /\ msip' = [msip EXCEPT ![h] = FALSE]
          /\ pc' = [pc EXCEPT ![h] = "take"]
          /\ UNCHANGED <<fifo, tlb_sync, ipi_type, ssip, tinfo, event, todo, back, left, signal, calls, owed>>
      BY <2>12, ZenonT(30) DEF IpiClear
    <3>2. msip' \in [Harts -> BOOLEAN]
      BY <2>b, <3>1, ZenonT(30)
    <3>3. pc' \in [Harts -> Places] /\ pc'[h] = "take"
      BY <2>b, <3>1, <1>PlaceFacts, ZenonT(30)
    <3>4. TypeOK'
      BY <2>b, <3>1, <3>2, <3>3, <1>TypeFromParts, ZenonT(30)
    <3>5. Flow(h)'
      BY <2>d, <3>1, <3>3, ZenonT(30) DEF Flow, Serving
    <3> QED BY <2>e, <2>f, <3>1, <3>4, <3>5, ZenonT(30)
  <2>13. CASE IpiTake(h)
    <3>1. /\ pc[h] = "take"
          /\ ipi_type' = [ipi_type EXCEPT ![h] = {}]
          /\ ssip' = [ssip EXCEPT ![h] = @ \/ "smode" \in ipi_type[h]]
          /\ UNCHANGED <<fifo, tlb_sync, msip, tinfo, event, todo, left, signal, calls, owed>>
      BY <2>13, ZenonT(30) DEF IpiTake
    <3>2. \/ pc' = [pc EXCEPT ![h] = "dequeue"] /\ back' = [back EXCEPT ![h] = "smode"]
          \/ pc' = [pc EXCEPT ![h] = "smode"] /\ UNCHANGED back
      BY <2>13, ZenonT(30) DEF IpiTake
    <3>3. ipi_type' \in [Harts -> SUBSET {"smode", "tlb"}]
      BY <2>b, <3>1, ZenonT(30)
    <3>4. ssip' \in [Harts -> BOOLEAN]
      BY <2>b, <3>1, ZenonT(30)
    <3>5. pc' \in [Harts -> Places] /\ back' \in [Harts -> {"smode", "enqueue", "sync"}]
      BY <2>b, <3>2, <1>PlaceFacts
    <3>6. pc'[h] = "smode" \/ (pc'[h] = "dequeue" /\ back'[h] = "smode")
      BY <2>b, <3>2, ZenonT(30)
    <3>7. TypeOK'
      BY <2>b, <3>1, <3>3, <3>4, <3>5, <1>TypeFromParts, ZenonT(30)
    <3>8. Flow(h)'
      BY <2>d, <3>1, <3>6, ZenonT(30) DEF Flow, Serving
    <3> QED BY <2>e, <2>f, <3>1, <3>7, <3>8, ZenonT(30)
  <2>14. CASE DequeueFence(h)
    <3>1. /\ pc[h] = "dequeue" /\ ~IsEmpty(fifo[h]) /\ (back[h] # "smode" => left[h] > 0)
          /\ fifo' = [fifo EXCEPT ![h] = Dequeue(fifo[h])]
          /\ Flush(h, Oldest(fifo[h]))
          /\ signal' = [signal EXCEPT ![h] = Oldest(fifo[h]).smask]
          /\ left' = [left EXCEPT ![h] = IF back[h] = "smode" THEN @ ELSE @ - 1]
          /\ pc' = [pc EXCEPT ![h] = "signal"]
          /\ UNCHANGED <<tlb_sync, ipi_type, msip, ssip, tinfo, event, todo, back, calls>>
      BY <2>14, ZenonT(30) DEF DequeueFence, MayDequeue
    <3>2. fifo[h] \in Fifos(Info) /\ Holds(fifo[h])
      BY <2>a, <2>b, ZenonT(30) DEF Stored
    <3>3. Dequeue(fifo[h]) \in Fifos(Info) /\ Holds(Dequeue(fifo[h])) /\ Awaited(Oldest(fifo[h]))
      BY <3>1, <3>2, <1>DequeueHolds, ZenonT(30)
    <3>4. fifo' \in [Harts -> Fifos(Info)] /\ Stored'
      BY <2>a, <3>1, <3>3, <1>StoredStep, ZenonT(30)
    <3>5. Oldest(fifo[h]).smask \in SUBSET Harts /\ Oldest(fifo[h]).smask # {}
      BY <3>3, InfoFields, ZenonT(30) DEF Awaited
    <3>6. signal' \in [Harts -> SUBSET Harts] /\ signal'[h] # {}
      BY <2>b, <3>1, <3>5, ZenonT(30)
    <3>7. left' \in [Harts -> 0 .. 2]
      <4>1. left[h] \in 0 .. 2 /\ (back[h] # "smode" => left[h] - 1 \in 0 .. 2)
        BY <2>b, <3>1
      <4> QED BY <2>b, <3>1, <4>1, ZenonT(30)
    <3>8. pc' \in [Harts -> Places] /\ pc'[h] = "signal"
      BY <2>b, <3>1, <1>PlaceFacts, ZenonT(30)
    <3>9. TypeOK'
      BY <2>b, <3>1, <3>4, <3>6, <3>7, <3>8, <1>TypeFromParts, ZenonT(30)
    <3>10. Flow(h)'
      BY <2>d, <3>1, <3>6, <3>8, ZenonT(30) DEF Flow, Serving
    <3> QED BY <2>g, <3>1, <3>4, <3>9, <3>10, ZenonT(30)
  <2>15. CASE ProcessReturn(h)
    <3>1. /\ pc[h] = "dequeue"
          /\ pc' = [pc EXCEPT ![h] = back[h]]
          /\ back' = [back EXCEPT ![h] = "smode"]
          /\ left' = [left EXCEPT ![h] = 0]
          /\ UNCHANGED <<fifo, tlb_sync, ipi_type, msip, ssip, tinfo, event, todo, signal, calls, owed>>
      BY <2>15, ZenonT(30) DEF ProcessReturn
    <3>2. pc' \in [Harts -> Places] /\ pc'[h] = back[h] /\ back[h] \in {"smode", "enqueue", "sync"}
      BY <2>b, <3>1, <1>PlaceFacts, ZenonT(30)
    <3>3. back' \in [Harts -> {"smode", "enqueue", "sync"}] /\ left' \in [Harts -> 0 .. 2]
      BY <2>b, <3>1
    <3>4. TypeOK'
      BY <2>b, <3>1, <3>2, <3>3, <1>TypeFromParts, ZenonT(30)
    <3>5. Flow(h)'
      BY <2>d, <3>1, <3>2, ZenonT(30) DEF Flow, Serving
    <3> QED BY <2>e, <2>f, <3>1, <3>4, <3>5, ZenonT(30)
  <2>16. CASE Signal(h)
    <3> DEFINE r == First(signal[h])
    <3>1. /\ pc[h] = "signal"
          /\ tlb_sync' = [tlb_sync EXCEPT ![r] = 1]
          /\ signal' = [signal EXCEPT ![h] = @ \ {r}]
          /\ pc' = [pc EXCEPT ![h] = IF signal[h] = {r} THEN "dequeue" ELSE "signal"]
          /\ UNCHANGED <<fifo, ipi_type, msip, ssip, tinfo, event, todo, back, left, calls, owed>>
      BY <2>16, ZenonT(30) DEF Signal
    <3>2. signal[h] # {}
      BY <2>d, <3>1, ZenonT(30) DEF Flow
    <3> HIDE DEF r
    <3>3. tlb_sync' \in [Harts -> {0, 1}]
      BY <2>b, <3>1, ZenonT(30)
    <3>4. signal' \in [Harts -> SUBSET Harts] /\ signal'[h] = signal[h] \ {r}
      BY <2>b, <3>1, ZenonT(30)
    <3>5. pc' \in [Harts -> Places] /\ pc'[h] = IF signal[h] = {r} THEN "dequeue" ELSE "signal"
      BY <2>b, <3>1, <1>PlaceFacts, ZenonT(30)
    <3>6. TypeOK'
      BY <2>b, <3>1, <3>3, <3>4, <3>5, <1>TypeFromParts, ZenonT(30)
    <3>7. Flow(h)'
      BY <2>d, <3>1, <3>2, <3>4, <3>5 DEF Flow, Serving
    <3> QED BY <2>e, <2>f, <3>1, <3>6, <3>7, ZenonT(30)
  <2> QED
    BY <2>1, <2>2, <2>3, <2>4, <2>5, <2>6, <2>7, <2>8, <2>9, <2>10, <2>11, <2>12, <2>13, <2>14,
       <2>15, <2>16, ZenonT(30) DEF Step, Firmware, Kernel
<1>NextTypeInv. TypeInv /\ [Next]_vars => TypeInv'
  <2> SUFFICES ASSUME TypeInv, [Next]_vars PROVE TypeInv'
    BY ZenonT(30)
  <2>1. CASE Next
    BY <2>1, <1>StepTypeInv, ZenonT(30) DEF Next, Step
  <2>2. CASE UNCHANGED vars
    <3>1. TypeOK'
      BY <2>2, ZenonT(30) DEF TypeInv, TypeOK, vars, hart
    <3>2. Stored' /\ Owing'
      BY <2>2, <1>StoredKept, ZenonT(30) DEF TypeInv, vars, Owing
    <3>3. \A h \in Harts : Flow(h)'
      BY <2>2, <1>FlowKept, ZenonT(30) DEF TypeInv, vars, hart, Of
    <3> QED BY <3>1, <3>2, <3>3, ZenonT(30) DEF TypeInv
  <2> QED BY <2>1, <2>2, ZenonT(30)
<1> QED BY <1>InitTypeInv, <1>NextTypeInv, PTL DEF Spec

-----------------------------------------------------------------------------
(* Wake-ups.                                                                 *)

Woken(t) == msip[t] \/ pc[t] = "take" \/ \E g \in Harts : pc[g] = "raise" /\ Target(g) = t

\* the steps that neither send nor take an interrupt
Quiet(h) ==
    \/ RequestFence(h) \/ RequestIpi(h) \/ ClearSmode(h) \/ SendReturn(h) \/ SendPlain(h)
    \/ UpdateSelf(h) \/ UpdateRemote(h) \/ EnqueueFence(h) \/ Sync(h) \/ DequeueFence(h)
    \/ ProcessReturn(h) \/ Signal(h)

LEMMA WakeupsKept == ASSUME FirstIsLeast PROVE Spec => []NoLostWakeup
<1>QuietStep.
      ASSUME NEW h \in Harts, Quiet(h)
      PROVE  UNCHANGED <<ipi_type, msip>> /\ pc[h] # "raise" /\ pc[h] # "take"
  <2> USE <1>QuietStep
  <2>1. CASE RequestFence(h) \/ RequestIpi(h) \/ ClearSmode(h)
    BY <2>1, ZenonT(30) DEF RequestFence, RequestIpi, ClearSmode
  <2>2. CASE SendReturn(h) \/ SendPlain(h) \/ UpdateSelf(h) \/ UpdateRemote(h)
    BY <2>2, ZenonT(30) DEF SendReturn, SendPlain, UpdateSelf, UpdateRemote
  <2>3. CASE EnqueueFence(h) \/ Sync(h)
    BY <2>3, ZenonT(30) DEF EnqueueFence, Sync
  <2>4. CASE DequeueFence(h) \/ ProcessReturn(h) \/ Signal(h)
    BY <2>4, ZenonT(30) DEF DequeueFence, ProcessReturn, Signal
  <2> QED BY <2>1, <2>2, <2>3, <2>4, ZenonT(30) DEF Quiet
\* A wake-up that is on its way stays on its way as long as nobody takes it.
<1>WokenKept.
      ASSUME NEW t \in Harts, Woken(t), msip[t] => msip'[t], pc[t] = "take" => pc'[t] = "take",
             \A g \in Harts : pc[g] = "raise" => pc'[g] = "raise" /\ todo'[g] = todo[g]
      PROVE  Woken(t)'
  BY <1>WokenKept, ZenonT(30) DEF Woken, Target
<1>WakeupStep.
      ASSUME TypeInv, NoLostWakeup, NEW h \in Harts, Step(h)
      PROVE  NoLostWakeup'
  <2> USE <1>WakeupStep
  <2>a. TypeOK /\ Flow(h)
    BY ZenonT(30) DEF TypeInv
  <2>b. pc \in [Harts -> Places] /\ ipi_type \in [Harts -> SUBSET {"smode", "tlb"}] /\ msip \in [Harts -> BOOLEAN]
    BY <2>a, TypeParts, ZenonT(30)
  <2>c. SUFFICES ASSUME NEW t \in Harts, ipi_type'[t] # {} PROVE Woken(t)'
    BY ZenonT(30) DEF NoLostWakeup, Woken
  <2>d. ipi_type[t] # {} => Woken(t)
    BY ZenonT(30) DEF NoLostWakeup, Woken
  <2>e. \A g \in Harts : g # h => pc'[g] = pc[g] /\ todo'[g] = todo[g]
    BY <2>a, OthersKept, ZenonT(30) DEF Of
  <2>1. CASE SetType(h)
    <3>1. /\ pc[h] = "type" /\ ipi_type' = [ipi_type EXCEPT ![Target(h)] = @ \cup {event[h]}]
          /\ pc' = [pc EXCEPT ![h] = "raise"] /\ UNCHANGED <<msip, todo>>
      BY <2>1, ZenonT(30) DEF SetType
    <3>2. pc'[h] = "raise"
      BY <2>b, <3>1, ZenonT(30)
    <3>3. CASE t = Target(h)
      BY <3>1, <3>2, <3>3, ZenonT(30) DEF Woken, Target
    <3>4. CASE t # Target(h)
      <4>1. ipi_type'[t] = ipi_type[t]
        BY <2>b, <3>1, <3>4, ZenonT(30)
      <4>2. Woken(t)
        BY <2>c, <2>d, <4>1, ZenonT(30)
      <4>3. \A g \in Harts : pc[g] = "raise" => pc'[g] = "raise" /\ todo'[g] = todo[g]
        BY <2>e, <3>1, ZenonT(30)
      <4>4. msip[t] => msip'[t]
        BY <3>1, ZenonT(30)
      <4>5. pc[t] = "take" => pc'[t] = "take"
        BY <2>e, <3>1, ZenonT(30)
      <4> QED BY <4>2, <4>3, <4>4, <4>5, <1>WokenKept, ZenonT(30)
    <3> QED BY <3>3, <3>4, ZenonT(30)
  <2>2. CASE Raise(h)
    <3>1. pc[h] = "raise" /\ msip' = [msip EXCEPT ![Target(h)] = TRUE] /\ UNCHANGED ipi_type
      BY <2>2, ZenonT(30) DEF Raise
    <3>2. Woken(t)
      BY <2>c, <2>d, <3>1, ZenonT(30)
    <3>3. CASE t = Target(h)
      BY <2>b, <3>1, <3>3, ZenonT(30) DEF Woken
    <3>4. CASE t # Target(h)
      <4>1. msip'[t] = msip[t]
        BY <2>b, <3>1, <3>4, ZenonT(30)
      <4>2. CASE msip[t] \/ pc[t] = "take"
        BY <2>e, <3>1, <4>1, <4>2, ZenonT(30) DEF Woken
      <4>3. CASE \E g \in Harts : pc[g] = "raise" /\ Target(g) = t
        <5>1. PICK g \in Harts : pc[g] = "raise" /\ Target(g) = t
          BY <4>3, ZenonT(30)
        <5>2. pc'[g] = "raise" /\ todo'[g] = todo[g]
          BY <2>e, <3>4, <5>1, ZenonT(30)
        <5> QED BY <5>1, <5>2, ZenonT(30) DEF Woken, Target
      <4> QED BY <3>2, <4>2, <4>3, ZenonT(30) DEF Woken
    <3> QED BY <3>3, <3>4, ZenonT(30)
  <2>3. CASE IpiClear(h)
    <3>1. /\ pc[h] = "smode" /\ msip' = [msip EXCEPT ![h] = FALSE] /\ pc' = [pc EXCEPT ![h] = "take"]
          /\ UNCHANGED <<ipi_type, todo>>
      BY <2>3, ZenonT(30) DEF IpiClear
    <3>2. CASE t = h
      BY <2>b, <3>1, <3>2, ZenonT(30) DEF Woken
    <3>3. CASE t # h
      <4>1. msip'[t] = msip[t] /\ pc'[t] = pc[t]
        BY <2>b, <3>1, <3>3, ZenonT(30)
      <4>2. \A g \in Harts : pc[g] = "raise" => pc'[g] = "raise" /\ todo'[g] = todo[g]
        BY <2>e, <3>1, ZenonT(30)
      <4>3. Woken(t)
        BY <2>c, <2>d, <3>1, ZenonT(30)
      <4> QED BY <4>1, <4>2, <4>3, <1>WokenKept, ZenonT(30)
    <3> QED BY <3>2, <3>3, ZenonT(30)
  <2>4. CASE IpiTake(h)
    <3>1. pc[h] = "take" /\ ipi_type' = [ipi_type EXCEPT ![h] = {}] /\ UNCHANGED <<msip, todo>>
      BY <2>4, ZenonT(30) DEF IpiTake
    <3>2. t # h /\ ipi_type'[t] = ipi_type[t]
      BY <2>b, <2>c, <3>1, ZenonT(30)
    <3>3. Woken(t)
      BY <2>c, <2>d, <3>2, ZenonT(30)
    <3>4. \A g \in Harts : pc[g] = "raise" => pc'[g] = "raise" /\ todo'[g] = todo[g]
      BY <2>e, <3>1, ZenonT(30)
    <3> QED BY <2>e, <3>1, <3>2, <3>3, <3>4, <1>WokenKept, ZenonT(30)
  <2>5. CASE Quiet(h)
    <3>1. UNCHANGED <<ipi_type, msip>> /\ pc[h] # "raise" /\ pc[h] # "take"
      BY <2>5, <1>QuietStep, ZenonT(30)
    <3>2. Woken(t)
      BY <2>c, <2>d, <3>1, ZenonT(30)
    <3>3. \A g \in Harts : pc[g] = "raise" => pc'[g] = "raise" /\ todo'[g] = todo[g]
      BY <2>e, <3>1, ZenonT(30)
    <3>4. pc[t] = "take" => pc'[t] = "take"
      BY <2>e, <3>1, ZenonT(30)
    <3> QED BY <3>1, <3>2, <3>3, <3>4, <1>WokenKept, ZenonT(30)
  <2> QED BY <2>1, <2>2, <2>3, <2>4, <2>5, ZenonT(30) DEF Step, Firmware, Kernel, Quiet
<1>1. Init => NoLostWakeup
  BY ZenonT(30) DEF Init, NoLostWakeup
<1>2. TypeInv /\ NoLostWakeup /\ [Next]_vars => NoLostWakeup'
  <2> SUFFICES ASSUME TypeInv, NoLostWakeup, [Next]_vars PROVE NoLostWakeup'
    BY ZenonT(30)
  <2>1. CASE Next
    BY <2>1, <1>WakeupStep, ZenonT(30) DEF Next, Step
  <2>2. CASE UNCHANGED vars
    BY <2>2, ZenonT(30) DEF vars, hart, NoLostWakeup, Target
  <2> QED BY <2>1, <2>2, ZenonT(30)
<1> QED BY <1>1, <1>2, TypeInvHolds, PTL DEF Spec

-----------------------------------------------------------------------------
(* Acknowledgements.  A hart that has handed its fence to a target waits for *)
(* one acknowledgement.  It is on its way in exactly one of three forms: an  *)
(* entry of the target's fifo that names the hart, a signal the target still *)
(* has to send, or the hart's own sync word.                                 *)

\* the fence of h is with its current target and not yet acknowledged
Waiting(h) == event[h] = "tlb" /\ (pc[h] \in {"type", "raise", "sync"} \/ Serving(h, "sync"))

Expects(h, g) == Waiting(h) /\ g = Target(h) /\ tlb_sync[h] = 0

\* the i-th entry of g's fifo names h
Named(h, g, i) == i \in InUse(fifo[g]) /\ h \in Entry(fifo[g], i).smask

Token(h) ==
    /\ \A g \in Harts, i \in Nat : Named(h, g, i) => Expects(h, g) /\ h \notin signal[g]
    /\ \A g \in Harts, i \in Nat, k \in Nat : Named(h, g, i) /\ Named(h, g, k) => i = k
    /\ \A g \in Harts : h \in signal[g] => Expects(h, g)
    /\ tlb_sync[h] = 1 => Waiting(h)

TokenInv == \A h \in Harts : Token(h)

\* Nothing is on its way to a hart that does not wait.
LEMMA NoToken ==
    ASSUME TypeOK, NEW h \in Harts, Token(h), ~Waiting(h)
    PROVE  /\ \A g \in Harts, i \in Nat : ~Named(h, g, i)
           /\ \A g \in Harts : h \notin signal[g]
           /\ tlb_sync[h] = 0
<1>1. tlb_sync[h] \in {0, 1}
  BY TypeParts, ZenonT(30)
<1> QED BY <1>1, ZenonT(30) DEF Token, Expects

\* A waiting hart waits for the same target until it takes its sync word.
LEMMA WaitingKept ==
    ASSUME TypeInv, NEW h \in Harts, Step(h), NEW g \in Harts, Waiting(g),
           ~(g = h /\ pc[h] = "sync" /\ tlb_sync[h] = 1)
    PROVE  Waiting(g)' /\ Target(g)' = Target(g)
<1>a. TypeOK /\ Flow(h)
  BY ZenonT(30) DEF TypeInv
<1>b. DOMAIN pc = Harts /\ DOMAIN back = Harts
  BY <1>a, Domains, ZenonT(30)
<1>c. CASE g # h
  BY <1>a, <1>c, OthersKept, ZenonT(30) DEF Of, Waiting, Serving, Target
<1>d. CASE g = h
  <2>a. event[h] = "tlb" /\ pc[h] \in {"type", "raise", "sync", "dequeue", "signal"}
    BY <1>d, ZenonT(30) DEF Waiting, Serving
  <2>b. pc[h] \in {"dequeue", "signal"} => back[h] = "sync"
    BY <1>d, ZenonT(30) DEF Waiting, Serving
  <2>c. SUFFICES UNCHANGED <<event, todo>> /\ (pc'[h] \in {"type", "raise", "sync"} \/ Serving(h, "sync")')
    BY <1>d, <2>a, ZenonT(30) DEF Waiting, Target
  <2>1. CASE SetType(h)
    BY <1>b, <2>1, ZenonT(30) DEF SetType
  <2>2. CASE Raise(h)
    BY <1>b, <2>2, <2>a, ZenonT(30) DEF Raise
  <2>3. CASE Sync(h)
    <3>1. /\ pc' = [pc EXCEPT ![h] = "dequeue"] /\ back' = [back EXCEPT ![h] = "sync"]
          /\ UNCHANGED <<event, todo>>
      BY <1>d, <2>3, ZenonT(30) DEF Sync, ProcessCount
    <3> QED BY <1>b, <3>1, ZenonT(30) DEF Serving
  <2>4. CASE DequeueFence(h)
    BY <1>b, <2>4, <2>b, ZenonT(30) DEF DequeueFence, Serving
  <2>5. CASE ProcessReturn(h)
    BY <1>b, <2>5, <2>b, ZenonT(30) DEF ProcessReturn
  <2>6. CASE Signal(h)
    BY <1>b, <2>6, <2>b, ZenonT(30) DEF Signal, Serving
  <2>7. CASE pc[h] \in {"smode", "send", "enqueue", "take"}
    BY <2>7, <2>a, ZenonT(30)
  <2>8. pc[h] \in {"smode", "send", "enqueue", "take"} \/ SetType(h) \/ Raise(h) \/ Sync(h)
          \/ DequeueFence(h) \/ ProcessReturn(h) \/ Signal(h)
    BY ZenonT(30) DEF Step, Firmware, Kernel, RequestFence, RequestIpi, ClearSmode, SendReturn, SendPlain,
           UpdateSelf, UpdateRemote, EnqueueFence, IpiClear, IpiTake
  <2> QED BY <2>1, <2>2, <2>3, <2>4, <2>5, <2>6, <2>7, <2>8, ZenonT(30)
<1> QED BY <1>c, <1>d, ZenonT(30)

-----------------------------------------------------------------------------
(* Who is named after the three changes of a fifo.                           *)

LEMMA EnqueueNames ==
    ASSUME TypeOK, NEW t \in Harts, NEW e \in Info, ~IsFull(fifo[t]),
           fifo' = [fifo EXCEPT ![t] = Enqueue(fifo[t], e)]
    PROVE  /\ fifo[t].avail \in Nat
           /\ \A g \in Harts, x \in Harts, i \in Nat :
                  Named(g, x, i)' => Named(g, x, i) \/ (g \in e.smask /\ x = t /\ i = fifo[t].avail)
<1> DEFINE f == fifo[t]
           n == Enqueue(f, e)
<1>a. fifo \in [Harts -> Fifos(Info)]
  BY TypeParts, ZenonT(30)
<1>b. f \in Fifos(Info)
  BY <1>a, ZenonT(30)
<1> HIDE DEF f
<1>1. /\ n.avail = f.avail + 1
      /\ \A i \in InUse(f) : Entry(n, i) = Entry(f, i)
      /\ Entry(n, f.avail) = e
  BY <1>b, EnqueueEntry DEF f
<1>2. f.avail \in Nat
  BY <1>b, FifoFields, NumEntriesAssumption
<1> HIDE DEF n
<1>3. InUse(n) = InUse(f) \cup {f.avail}
  BY <1>1, <1>2 DEF InUse
<1>4. \A x \in Harts : fifo'[x] = IF x = t THEN n ELSE fifo[x]
  BY <1>a, ZenonT(30) DEF n, f
<1>5. ASSUME NEW g \in Harts, NEW x \in Harts, NEW i \in Nat, Named(g, x, i)'
      PROVE  Named(g, x, i) \/ (g \in e.smask /\ x = t /\ i = f.avail)
  <2>1. i \in InUse(fifo'[x]) /\ g \in Entry(fifo'[x], i).smask
    BY <1>5, ZenonT(30) DEF Named
  <2>2. CASE x # t
    BY <1>4, <2>1, <2>2, ZenonT(30) DEF Named
  <2>3. CASE x = t
    BY <1>1, <1>3, <1>4, <2>1, <2>3, ZenonT(30) DEF Named, f
  <2> QED BY <2>2, <2>3, ZenonT(30)
<1> QED BY <1>2, <1>5, ZenonT(30) DEF f

LEMMA UpdateNames ==
    ASSUME FirstIsLeast, TypeInv, NEW t \in Harts, NEW in \in Info, Candidates(fifo[t], in) # {},
           fifo' = [fifo EXCEPT ![t] = InplaceUpdate(fifo[t], in)]
    PROVE  LET n == First(Candidates(fifo[t], in)) IN
           /\ n \in Nat
           /\ \A g \in Harts, x \in Harts, i \in Nat :
                  Named(g, x, i)' => Named(g, x, i) \/ (g \in in.smask /\ x = t /\ i = n)
<1> DEFINE f == fifo[t]
           n == First(Candidates(f, in))
           e == Entry(f, n)
           m == Merged(in, e)
           r == Replace(f, n, m)
<1>a. fifo \in [Harts -> Fifos(Info)]
  BY TypeParts, ZenonT(30) DEF TypeInv
<1>b. f \in Fifos(Info) /\ Holds(f)
  BY <1>a, ZenonT(30) DEF TypeInv, Stored
<1>1. n \in InUse(f) /\ InplaceUpdate(f, in) = r
  BY <1>b, CandidateIn, ZenonT(30)
<1>2. \A x \in Harts : fifo'[x] = IF x = t THEN r ELSE fifo[x]
  BY <1>a, <1>1, ZenonT(30)
<1> HIDE DEF f, n, e
<1>3. e \in Info
  BY <1>1, <1>b, ZenonT(30) DEF Holds, Awaited, e
<1>4. m \in Info /\ m.smask = e.smask \cup in.smask
  BY <1>3, MergedFields, ZenonT(30)
<1> HIDE DEF m
<1>5. r.avail = f.avail /\ \A k \in InUse(f) : Entry(r, k) = IF k = n THEN m ELSE Entry(f, k)
  BY <1>b, <1>1, <1>4, ReplaceEntry
<1> HIDE DEF r
<1>6. InUse(r) = InUse(f)
  BY <1>5, ZenonT(30) DEF InUse
<1>7. ASSUME NEW g \in Harts, NEW x \in Harts, NEW i \in Nat, Named(g, x, i)'
      PROVE  Named(g, x, i) \/ (g \in in.smask /\ x = t /\ i = n)
  <2>1. i \in InUse(fifo'[x]) /\ g \in Entry(fifo'[x], i).smask
    BY <1>7, ZenonT(30) DEF Named
  <2>2. CASE x # t
    BY <1>2, <2>1, <2>2, ZenonT(30) DEF Named
  <2>3. CASE x = t
    <3>1. i \in InUse(f) /\ g \in Entry(r, i).smask
      BY <1>2, <1>6, <2>1, <2>3, ZenonT(30)
    <3>2. CASE i = n
      BY <1>4, <1>5, <2>3, <3>1, <3>2, ZenonT(30) DEF Named, e, f
    <3>3. CASE i # n
      BY <1>5, <2>3, <3>1, <3>3, ZenonT(30) DEF Named, f
    <3> QED BY <3>2, <3>3, ZenonT(30)
  <2> QED BY <2>2, <2>3, ZenonT(30)
<1>8. n \in Nat
  BY <1>1, <1>b, FifoFields, NumEntriesAssumption DEF InUse
<1> QED BY <1>7, <1>8, ZenonT(30) DEF n, f

LEMMA DequeueNames ==
    ASSUME TypeOK, NEW t \in Harts, ~IsEmpty(fifo[t]), fifo' = [fifo EXCEPT ![t] = Dequeue(fifo[t])]
    PROVE  /\ \A g \in Harts, i \in Nat : Named(g, t, i)' => Named(g, t, i + 1)
           /\ \A g \in Harts, x \in Harts, i \in Nat : x # t /\ Named(g, x, i)' => Named(g, x, i)
           /\ \A g \in Harts : g \in Oldest(fifo[t]).smask <=> Named(g, t, 0)
<1> DEFINE f == fifo[t]
           n == Dequeue(f)
<1>a. fifo \in [Harts -> Fifos(Info)]
  BY TypeParts, ZenonT(30)
<1>b. f \in Fifos(Info)
  BY <1>a, ZenonT(30)
<1>c. \A x \in Harts : fifo'[x] = IF x = t THEN n ELSE fifo[x]
  BY <1>a, ZenonT(30)
<1>1. /\ \A i \in InUse(n) : i + 1 \in InUse(f) /\ Entry(n, i) = Entry(f, i + 1)
      /\ 0 \in InUse(f)
      /\ Oldest(f) = Entry(f, 0)
  BY <1>b, DequeueEntry, ZenonT(30)
<1> HIDE DEF f, n
<1>2. \A g \in Harts, i \in Nat : Named(g, t, i)' => Named(g, t, i + 1)
  BY <1>1, <1>c, ZenonT(30) DEF Named, f
<1>3. \A g \in Harts, x \in Harts, i \in Nat : x # t /\ Named(g, x, i)' => Named(g, x, i)
  BY <1>c, ZenonT(30) DEF Named
<1>4. \A g \in Harts : g \in Oldest(fifo[t]).smask <=> Named(g, t, 0)
  BY <1>1, ZenonT(30) DEF Named, f
<1> QED BY <1>2, <1>3, <1>4, ZenonT(30)

-----------------------------------------------------------------------------
\* the steps that move an acknowledgement on
MergeInto(h)   == UpdateRemote(h) /\ Candidates(fifo[Target(h)], Upgrade(tinfo[h])) # {}
Hand(h)        == EnqueueFence(h) /\ ~IsFull(fifo[Target(h)])
Acknowledged(h) == Sync(h) /\ tlb_sync[h] = 1

Moves(h) == MergeInto(h) \/ Hand(h) \/ Acknowledged(h) \/ DequeueFence(h) \/ Signal(h)

LEMMA StillStep ==
    ASSUME NEW h \in Harts, Step(h), ~Moves(h)
    PROVE  UNCHANGED <<fifo, tlb_sync, signal>>
<1>1. CASE RequestFence(h) \/ RequestIpi(h) \/ ClearSmode(h)
  BY <1>1, ZenonT(30) DEF RequestFence, RequestIpi, ClearSmode, hart
<1>2. CASE SendReturn(h) \/ SendPlain(h) \/ UpdateSelf(h)
  BY <1>2, ZenonT(30) DEF SendReturn, SendPlain, UpdateSelf
<1>3. CASE UpdateRemote(h)
  BY <1>3, ZenonT(30) DEF Moves, MergeInto, UpdateRemote
<1>4. CASE EnqueueFence(h)
  BY <1>4, ZenonT(30) DEF Moves, Hand, EnqueueFence
<1>5. CASE Sync(h)
  BY <1>5, ZenonT(30) DEF Moves, Acknowledged, Sync
<1>6. CASE SetType(h) \/ Raise(h) \/ IpiClear(h) \/ IpiTake(h) \/ ProcessReturn(h)
  BY <1>6, ZenonT(30) DEF SetType, Raise, IpiClear, IpiTake, ProcessReturn
<1> QED BY <1>1, <1>2, <1>3, <1>4, <1>5, <1>6, ZenonT(30) DEF Step, Firmware, Kernel, Moves

LEMMA TokenInvHolds == ASSUME FirstIsLeast PROVE Spec => []TokenInv
\* A step that adds nothing for h keeps its token.
<1>TokenKept.
      ASSUME NEW h \in Harts, Token(h),
             \A g \in Harts, i \in Nat : Named(h, g, i)' => Named(h, g, i),
             \A g \in Harts : h \in signal'[g] => h \in signal[g],
             tlb_sync'[h] = tlb_sync[h],
             Waiting(h) => Waiting(h)' /\ Target(h)' = Target(h)
      PROVE  Token(h)'
  <2> USE <1>TokenKept
  <2>1. \A g \in Harts : Expects(h, g) => Expects(h, g)'
    BY ZenonT(30) DEF Expects
  <2> QED BY <2>1, ZenonT(30) DEF Token
\* The step that hands the fence of h to its target.
<1>TokenNew.
      ASSUME TypeOK, NEW h \in Harts, Token(h), ~Waiting(h), NEW t \in Harts, NEW n \in Nat,
             \A g \in Harts, i \in Nat : Named(h, g, i)' => Named(h, g, i) \/ (g = t /\ i = n),
             UNCHANGED <<signal, tlb_sync>>, Waiting(h)', Target(h)' = t
      PROVE  Token(h)'
  <2> USE <1>TokenNew
  <2>1. /\ \A g \in Harts, i \in Nat : ~Named(h, g, i)
        /\ \A g \in Harts : h \notin signal[g]
        /\ tlb_sync[h] = 0
    BY NoToken, ZenonT(30)
  <2>2. Expects(h, t)'
    BY <2>1, ZenonT(30) DEF Expects
  <2> QED BY <2>1, <2>2 DEF Token
<1>TokenStep.
      ASSUME TypeInv, TokenInv, NEW h \in Harts, Step(h)
      PROVE  TokenInv'
  <2> USE <1>TokenStep
  <2>a. TypeOK /\ Flow(h) /\ \A g \in Harts : Token(g)
    BY ZenonT(30) DEF TypeInv, TokenInv
  <2>b. /\ fifo \in [Harts -> Fifos(Info)] /\ tlb_sync \in [Harts -> {0, 1}] /\ pc \in [Harts -> Places]
        /\ tinfo \in [Harts -> Info] /\ signal \in [Harts -> SUBSET Harts]
    BY <2>a, TypeParts, ZenonT(30)
  <2>c. ASSUME ~Acknowledged(h), NEW g \in Harts, Waiting(g) PROVE Waiting(g)' /\ Target(g)' = Target(g)
    <3>1. ~(g = h /\ pc[h] = "sync" /\ tlb_sync[h] = 1)
      BY <2>c, ZenonT(30) DEF Acknowledged, Step, Firmware, Kernel, RequestFence, RequestIpi, ClearSmode, SendReturn, SendPlain,
             UpdateSelf, UpdateRemote, EnqueueFence, SetType, Raise, IpiClear, IpiTake, DequeueFence, ProcessReturn, Signal
    <3> QED BY <2>c, <3>1, WaitingKept, ZenonT(30)
  <2>d. SUFFICES ASSUME NEW g \in Harts PROVE Token(g)'
    BY ZenonT(30) DEF TokenInv
  <2>1. CASE MergeInto(h)
    <3> DEFINE t == Target(h)
               in == Upgrade(tinfo[h])
               n == First(Candidates(fifo[t], in))
    <3>1. /\ pc[h] = "send" /\ todo[h] # {} /\ event[h] = "tlb"
          /\ Candidates(fifo[t], in) # {}
          /\ fifo' = [fifo EXCEPT ![t] = InplaceUpdate(fifo[t], in)]
          /\ pc' = [pc EXCEPT ![h] = "type"]
          /\ UNCHANGED <<event, todo, tlb_sync, signal>>
      BY <2>1, ZenonT(30) DEF MergeInto, UpdateRemote
    <3>2. t \in Harts
      BY <2>a, <3>1, TargetIn, ZenonT(30)
    <3>3. in \in Info /\ in.smask = {h}
      BY <2>a, <2>b, <3>1, UpgradeFields, ZenonT(30) DEF Flow
    <3>4. ~Waiting(h) /\ Waiting(h)' /\ Target(h)' = t
      BY <2>b, <3>1, ZenonT(30) DEF Waiting, Serving, Target
    <3>5. ~Acknowledged(h)
      BY <3>1, ZenonT(30) DEF Acknowledged, Sync
    <3> HIDE DEF t, in
    <3>6. /\ n \in Nat
          /\ \A x \in Harts, i \in Nat : Named(g, x, i)' => Named(g, x, i) \/ (g \in in.smask /\ x = t /\ i = n)
      BY <3>1, <3>2, <3>3, UpdateNames, ZenonT(30)
    <3> HIDE DEF n
    <3>7. CASE g = h
      <4>1. \A x \in Harts, i \in Nat : Named(h, x, i)' => Named(h, x, i) \/ (x = t /\ i = n)
        BY <3>6, <3>7, ZenonT(30)
      <4>2. TypeOK /\ Token(h) /\ UNCHANGED <<signal, tlb_sync>>
        BY <2>a, <3>1, ZenonT(30)
      <4>3. n \in Nat
        BY <3>6, ZenonT(30)
      <4>4. Token(h)'
        BY <3>2, <3>4, <4>1, <4>2, <4>3, <1>TokenNew
      <4> QED BY <3>7, <4>4, ZenonT(30)
    <3>8. CASE g # h
      <4>1. \A x \in Harts, i \in Nat : Named(g, x, i)' => Named(g, x, i)
        BY <3>3, <3>6, <3>8, ZenonT(30)
      <4> QED BY <2>a, <2>c, <3>1, <3>5, <4>1, <1>TokenKept, ZenonT(30)
    <3> QED BY <3>7, <3>8, ZenonT(30)
  <2>2. CASE Hand(h)
    <3> DEFINE t == Target(h)
               n == fifo[t].avail
    <3>1. /\ pc[h] = "enqueue" /\ ~IsFull(fifo[t])
          /\ fifo' = [fifo EXCEPT ![t] = Enqueue(fifo[t], tinfo[h])]
          /\ pc' = [pc EXCEPT ![h] = "type"]
          /\ UNCHANGED <<event, todo, tlb_sync, signal>>
      BY <2>2, ZenonT(30) DEF Hand, EnqueueFence
    <3>2. todo[h] # {} /\ event[h] = "tlb" /\ tinfo[h].smask = {h} /\ tinfo[h] \in Info
      BY <2>a, <2>b, <3>1, ZenonT(30) DEF Flow
    <3>3. t \in Harts
      BY <2>a, <3>2, TargetIn, ZenonT(30)
    <3>4. ~Waiting(h) /\ Waiting(h)' /\ Target(h)' = t
      BY <2>b, <3>1, <3>2, ZenonT(30) DEF Waiting, Serving, Target
    <3>5. ~Acknowledged(h)
      BY <3>1, ZenonT(30) DEF Acknowledged, Sync
    <3> HIDE DEF t
    <3>6. /\ n \in Nat
          /\ \A x \in Harts, i \in Nat : Named(g, x, i)' => Named(g, x, i) \/ (g \in {h} /\ x = t /\ i = n)
      <4>1. /\ n \in Nat
            /\ \A x \in Harts, i \in Nat :
                   Named(g, x, i)' => Named(g, x, i) \/ (g \in tinfo[h].smask /\ x = t /\ i = n)
        BY <2>a, <3>1, <3>2, <3>3, EnqueueNames, ZenonT(30)
      <4> QED BY <3>2, <4>1, ZenonT(30)
    <3> HIDE DEF n
    <3>7. CASE g = h
      BY <2>a, <3>1, <3>3, <3>4, <3>6, <3>7, <1>TokenNew
    <3>8. CASE g # h
      <4>1. \A x \in Harts, i \in Nat : Named(g, x, i)' => Named(g, x, i)
        BY <3>6, <3>8, ZenonT(30)
      <4> QED BY <2>a, <2>c, <3>1, <3>5, <4>1, <1>TokenKept, ZenonT(30)
    <3> QED BY <3>7, <3>8, ZenonT(30)
  <2>3. CASE Acknowledged(h)
    <3>1. /\ pc[h] = "sync" /\ tlb_sync[h] = 1
          /\ tlb_sync' = [tlb_sync EXCEPT ![h] = 0]
          /\ UNCHANGED <<fifo, signal>>
      BY <2>3 DEF Acknowledged, Sync
    <3>2. \A x \in Harts, i \in Nat : Named(g, x, i)' <=> Named(g, x, i)
      BY <3>1, ZenonT(30) DEF Named
    <3>3. CASE g = h
      <4>1. /\ \A x \in Harts, i \in Nat : ~Named(h, x, i)
            /\ \A x \in Harts : h \notin signal[x]
        BY <2>a, <3>1 DEF Token, Expects
      <4>2. tlb_sync'[h] = 0
        BY <2>b, <3>1, ZenonT(30)
      <4> QED BY <3>1, <3>2, <3>3, <4>1, <4>2 DEF Token
    <3>4. CASE g # h
      <4>1. Waiting(g) => Waiting(g)' /\ Target(g)' = Target(g)
        BY <3>4, WaitingKept, ZenonT(30)
      <4>2. tlb_sync'[g] = tlb_sync[g]
        BY <2>b, <3>1, <3>4, ZenonT(30)
      <4> QED BY <2>a, <3>1, <3>2, <4>1, <4>2, <1>TokenKept, ZenonT(30)
    <3> QED BY <3>3, <3>4, ZenonT(30)
  <2>4. CASE DequeueFence(h)
    <3>1. /\ pc[h] = "dequeue" /\ ~IsEmpty(fifo[h])
          /\ fifo' = [fifo EXCEPT ![h] = Dequeue(fifo[h])]
          /\ signal' = [signal EXCEPT ![h] = Oldest(fifo[h]).smask]
          /\ UNCHANGED tlb_sync
      BY <2>4, ZenonT(30) DEF DequeueFence, MayDequeue
    <3>2. /\ \A i \in Nat : Named(g, h, i)' => Named(g, h, i + 1)
          /\ \A x \in Harts, i \in Nat : x # h /\ Named(g, x, i)' => Named(g, x, i)
          /\ g \in Oldest(fifo[h]).smask <=> Named(g, h, 0)
      BY <2>a, <3>1, DequeueNames, ZenonT(30)
    <3>3. \A x \in Harts : signal'[x] = IF x = h THEN Oldest(fifo[h]).smask ELSE signal[x]
      BY <2>b, <3>1, ZenonT(30)
    <3>4. ~Acknowledged(h)
      BY <3>1, ZenonT(30) DEF Acknowledged, Sync
    <3>5. \A x \in Harts : Expects(g, x) => Expects(g, x)'
      BY <2>c, <3>1, <3>4, ZenonT(30) DEF Expects
    <3>6. ASSUME NEW x \in Harts, NEW i \in Nat, Named(g, x, i)'
          PROVE  Expects(g, x)' /\ g \notin signal'[x]
      <4>1. CASE x = h
        <5>1. Named(g, h, i + 1) /\ i + 1 \in Nat /\ i + 1 # 0
          BY <3>2, <3>6, <4>1
        <5>2. ~Named(g, h, 0)
          BY <2>a, <5>1, ZenonT(30) DEF Token
        <5>3. Expects(g, h)
          BY <2>a, <5>1, ZenonT(30) DEF Token
        <5> QED BY <3>2, <3>3, <3>5, <4>1, <5>2, <5>3, ZenonT(30)
      <4>2. CASE x # h
        BY <2>a, <3>2, <3>3, <3>5, <3>6, <4>2, ZenonT(30) DEF Token
      <4> QED BY <4>1, <4>2, ZenonT(30)
    <3>7. ASSUME NEW x \in Harts, NEW i \in Nat, NEW k \in Nat, Named(g, x, i)', Named(g, x, k)'
          PROVE  i = k
      <4>1. CASE x = h
        <5>1. Named(g, h, i + 1) /\ Named(g, h, k + 1) /\ i + 1 \in Nat /\ k + 1 \in Nat
          BY <3>2, <3>7, <4>1
        <5>2. i + 1 = k + 1
          BY <2>a, <5>1, ZenonT(30) DEF Token
        <5> QED BY <5>2
      <4>2. CASE x # h
        BY <2>a, <3>2, <3>7, <4>2, ZenonT(30) DEF Token
      <4> QED BY <4>1, <4>2, ZenonT(30)
    <3>8. ASSUME NEW x \in Harts, g \in signal'[x] PROVE Expects(g, x)'
      <4>1. CASE x = h
        <5>1. Named(g, h, 0) /\ 0 \in Nat
          BY <3>2, <3>3, <3>8, <4>1, ZenonT(30)
        <5> QED BY <2>a, <3>5, <4>1, <5>1, ZenonT(30) DEF Token
      <4>2. CASE x # h
        BY <2>a, <3>3, <3>5, <3>8, <4>2, ZenonT(30) DEF Token
      <4> QED BY <4>1, <4>2, ZenonT(30)
    <3>9. tlb_sync'[g] = 1 => Waiting(g)'
      BY <2>a, <2>c, <3>1, <3>4, ZenonT(30) DEF Token
    <3> QED BY <3>6, <3>7, <3>8, <3>9, ZenonT(30) DEF Token
  <2>5. CASE Signal(h)
    <3> DEFINE r == First(signal[h])
    <3>1. /\ pc[h] = "signal"
          /\ tlb_sync' = [tlb_sync EXCEPT ![r] = 1]
          /\ signal' = [signal EXCEPT ![h] = @ \ {r}]
          /\ UNCHANGED fifo
      BY <2>5, ZenonT(30) DEF Signal
    <3>2. r \in signal[h] /\ r \in Harts
      <4>1. signal[h] # {} /\ signal[h] \in SUBSET Nat /\ signal[h] \subseteq Harts
        BY <2>a, <2>b, <3>1, FenceAssumption, ZenonT(30) DEF Flow
      <4> QED BY <4>1, ZenonT(30) DEF FirstIsLeast
    <3> HIDE DEF r
    <3>3. ~Acknowledged(h)
      BY <3>1, ZenonT(30) DEF Acknowledged, Sync
    <3>4. \A x \in Harts, i \in Nat : Named(g, x, i)' <=> Named(g, x, i)
      BY <3>1, ZenonT(30) DEF Named
    <3>5. \A x \in Harts : signal'[x] = IF x = h THEN signal[x] \ {r} ELSE signal[x]
      BY <2>b, <3>1, ZenonT(30)
    <3>6. CASE g = r
      <4>1. Expects(r, h)
        BY <2>a, <3>2, ZenonT(30) DEF Token
      <4>2. \A x \in Harts, i \in Nat : ~Named(r, x, i)
        BY <2>a, <3>2, <4>1, ZenonT(30) DEF Token, Expects
      <4>3. \A x \in Harts : r \notin signal'[x]
        BY <2>a, <3>2, <3>5, <4>1, ZenonT(30) DEF Token, Expects
      <4>4. Waiting(g)'
        BY <2>c, <3>3, <3>6, <4>1, ZenonT(30) DEF Expects
      <4> QED BY <3>4, <3>6, <4>2, <4>3, <4>4, ZenonT(30) DEF Token
    <3>7. CASE g # r
      <4>1. tlb_sync'[g] = tlb_sync[g]
        BY <2>b, <3>1, <3>7, ZenonT(30)
      <4>2. \A x \in Harts : g \in signal'[x] => g \in signal[x]
        BY <3>5, ZenonT(30)
      <4> QED BY <2>a, <2>c, <3>3, <3>4, <4>1, <4>2, <1>TokenKept, ZenonT(30)
    <3> QED BY <3>6, <3>7, ZenonT(30)
  <2>6. CASE ~Moves(h)
    <3>1. UNCHANGED <<fifo, tlb_sync, signal>>
      BY <2>6, StillStep, ZenonT(30)
    <3>2. \A x \in Harts, i \in Nat : Named(g, x, i)' <=> Named(g, x, i)
      BY <3>1, ZenonT(30) DEF Named
    <3>3. ~Acknowledged(h)
      BY <2>6, ZenonT(30) DEF Moves
    <3> QED BY <2>a, <2>c, <3>1, <3>2, <3>3, <1>TokenKept, ZenonT(30)
  <2> QED BY <2>1, <2>2, <2>3, <2>4, <2>5, <2>6, ZenonT(30) DEF Moves
<1>1. Init => TokenInv
  <2> SUFFICES ASSUME Init, NEW h \in Harts PROVE Token(h)
    BY ZenonT(30) DEF TokenInv
  <2>1. \A g \in Harts, i \in Nat : ~Named(h, g, i)
    BY EmptyInUse, ZenonT(30) DEF Init, Named
  <2>2. tlb_sync[h] # 1 /\ \A g \in Harts : signal[g] = {}
    BY ZeroOne, ZenonT(30) DEF Init
  <2> QED BY <2>1, <2>2, ZenonT(30) DEF Token
<1>2. TypeInv /\ TokenInv /\ [Next]_vars => TokenInv'
  <2> SUFFICES ASSUME TypeInv, TokenInv, [Next]_vars PROVE TokenInv'
    BY ZenonT(30)
  <2>1. CASE Next
    BY <2>1, <1>TokenStep, ZenonT(30) DEF Next, Step
  <2>2. CASE UNCHANGED vars
    <3>1. UNCHANGED <<fifo, tlb_sync, pc, event, todo, back, signal>>
      BY <2>2, ZenonT(30) DEF vars, hart
    <3>2. \A h \in Harts : Waiting(h) => Waiting(h)' /\ Target(h)' = Target(h)
      BY <3>1, ZenonT(30) DEF Waiting, Serving, Target
    <3>3. \A h \in Harts, g \in Harts, i \in Nat : Named(h, g, i)' => Named(h, g, i)
      BY <3>1, ZenonT(30) DEF Named
    <3> QED BY <3>1, <3>2, <3>3, <1>TokenKept, ZenonT(30) DEF TokenInv
  <2> QED BY <2>1, <2>2, ZenonT(30)
<1> QED BY <1>1, <1>2, TypeInvHolds, PTL DEF Spec

\* A target is never held up and an acknowledgement never lost: whenever
\* tlb_entry_process exchanges the sync word of a waiting hart for 1, the word
\* is 0, and the hart is waiting for this very target.
SignalsReachWaiters ==
    \A h \in Harts : pc[h] = "signal" =>
        LET r == First(signal[h]) IN tlb_sync[r] = 0 /\ Waiting(r) /\ Target(r) = h

-----------------------------------------------------------------------------
(* Ranges of pages: what a merged or an upgraded entry flushes.              *)

\* A range whose end can be compared: not empty, on a page boundary, and not
\* beyond the last address.  tlb_update_cb compares ranges of sfence_vma and
\* sfence_vma_asid only.
Compared(f) == f.local_fn \in {"sfence_vma", "sfence_vma_asid"}

Plain(f) == /\ f.size > 0
            /\ (f.start % PAGE_SIZE) = 0
            /\ f.start + f.size < ADDR_MOD

\* what a kernel may ask for: a range beyond the limit is flushed as a whole
Ordinary(f) == Compared(f) => f.size > FlushLimit \/ Plain(f)

\* what may stand in a fifo
Sound(f) == Compared(f) => Plain(f)

\* What a local function flushes grows with its pages and address spaces.
LEMMA FlushGrows ==
    ASSUME NEW f \in Info, NEW g \in Info, f.local_fn = g.local_fn,
           PagesFlushed(f) \subseteq PagesFlushed(g),
           f.local_fn # "sfence_vma" => AsidsFlushed(f) \subseteq AsidsFlushed(g),
           ~Compared(f) => f.vmid = g.vmid /\ VmidsFlushed(f) \subseteq VmidsFlushed(g)
    PROVE  LocalFlush(f) \subseteq LocalFlush(g)
<1>1. f.local_fn \in LocalFns
  BY InfoFields, ZenonT(30)
<1>2. CASE f.local_fn = "fence_i"
  BY <1>2, ZenonT(30) DEF LocalFlush
<1>3. CASE f.local_fn = "sfence_vma"
  BY <1>3, ZenonT(30) DEF LocalFlush
<1>4. CASE f.local_fn = "sfence_vma_asid"
  BY <1>4, ZenonT(30) DEF LocalFlush
<1>5. CASE f.local_fn = "hfence_gvma"
  BY <1>5, ZenonT(30) DEF LocalFlush
<1>6. CASE f.local_fn = "hfence_gvma_vmid"
  BY <1>6, ZenonT(30) DEF LocalFlush, Compared
<1>7. CASE f.local_fn = "hfence_vvma"
  BY <1>7, ZenonT(30) DEF LocalFlush, Compared
<1>8. CASE f.local_fn = "hfence_vvma_asid"
  BY <1>8, ZenonT(30) DEF LocalFlush, Compared
<1> QED BY <1>1, <1>2, <1>3, <1>4, <1>5, <1>6, <1>7, <1>8, ZenonT(30) DEF LocalFns

\* Every range consists of pages.
LEMMA RangeInPages ==
    ASSUME NEW f \in Info
    PROVE  RangePages(f) \subseteq Pages /\ PagesFlushed(f) \subseteq Pages
<1>1. ASSUME NEW i \in 0 .. f.size - 1
      PROVE  ((f.start + i) % ADDR_MOD) \in 0 .. ADDR_MOD - 1
  BY InfoFields, FenceAssumption
<1>2. RangePages(f) \subseteq Pages
  BY <1>1, ZenonT(30) DEF RangePages, Pages
<1> QED BY <1>2, ZenonT(30) DEF PagesFlushed

\* The upgrade of tlb_update flushes at least what was asked for, and leaves a
\* range that can be compared.
LEMMA UpgradeFlushes ==
    ASSUME NEW f \in Info
    PROVE  /\ LocalFlush(f) \subseteq LocalFlush(Upgrade(f))
           /\ Ordinary(f) => Sound(Upgrade(f))
<1>1. CASE ~(f.size > FlushLimit)
  BY <1>1, UpgradeFields, ZenonT(30) DEF Ordinary, Sound
<1>2. CASE f.size > FlushLimit
  <2> DEFINE g == Upgrade(f)
  <2>1. /\ g \in Info /\ g.local_fn = f.local_fn /\ g.asid = f.asid /\ g.vmid = f.vmid
        /\ g.start = 0 /\ g.size = FLUSH_ALL
    BY <1>2, UpgradeFields, ZenonT(30)
  <2> HIDE DEF g
  <2>2. ~Unbounded(f) /\ ~Unbounded(g)
    BY <1>2, <2>1, InfoFields, FenceAssumption DEF Unbounded, FLUSH_ALL
  <2>3. PagesFlushed(f) \subseteq PagesFlushed(g)
    BY <2>1, RangeInPages, ZenonT(30) DEF PagesFlushed
  <2>4. AsidsFlushed(f) = AsidsFlushed(g) /\ VmidsFlushed(f) = VmidsFlushed(g)
    BY <2>1, <2>2, ZenonT(30) DEF AsidsFlushed, VmidsFlushed
  <2>5. LocalFlush(f) \subseteq LocalFlush(g)
    BY <2>1, <2>3, <2>4, FlushGrows, ZenonT(30)
  <2>6. (0 % PAGE_SIZE) = 0
    BY FenceAssumption
  <2>7. Plain(g)
    BY <1>2, <2>1, <2>6, InfoFields, FenceAssumption DEF Plain, FLUSH_ALL
  <2> QED BY <2>5, <2>7, ZenonT(30) DEF g, Sound
<1> QED BY <1>1, <1>2, ZenonT(30)

\* A merged entry flushes what either of the two would have flushed, and its
\* range can be compared.
LEMMA MergedFlushes ==
    ASSUME NEW in \in Info, NEW cur \in Info, Sound(in), Sound(cur), Merges(in, cur)
    PROVE  /\ LocalFlush(in) \subseteq LocalFlush(Merged(in, cur))
           /\ LocalFlush(cur) \subseteq LocalFlush(Merged(in, cur))
           /\ Sound(Merged(in, cur))
\* Division with remainder by the page size.
<1>Multiple.
      ASSUME NEW p \in Nat \ {0}, NEW a \in Int
      PROVE  /\ (a % p) = 0 => \E k \in Int : a = p * k
             /\ \A k \in Int : a = p * k => (a % p) = 0
  <2> USE <1>Multiple
  <2>1. a = p * (a \div p) + (a % p) /\ (a \div p) \in Int /\ (a % p) \in 0 .. p - 1
    OBVIOUS
  <2>2. ASSUME NEW k \in Int, a = p * k PROVE (a % p) = 0
    <3>1. p * (k - (a \div p)) = (a % p)
      BY <2>1, <2>2
    <3>2. ASSUME NEW d \in Int, p * d \in 0 .. p - 1 PROVE p * d = 0
      BY <3>2
    <3>3. k - (a \div p) \in Int
      BY <2>1
    <3> QED BY <2>1, <3>1, <3>2, <3>3, ZenonT(30)
  <2> QED BY <2>1, <2>2
\* Sums and differences of page boundaries are page boundaries.
<1>Boundaries.
      ASSUME NEW p \in Nat \ {0}, NEW a \in Int, NEW b \in Int, NEW c \in Int,
             (a % p) = 0, (b % p) = 0, (c % p) = 0
      PROVE  (((a + b) - c) % p) = 0
  <2> USE <1>Boundaries
  <2>1. PICK k \in Int : a = p * k
    BY <1>Multiple, ZenonT(30)
  <2>2. PICK l \in Int : b = p * l
    BY <1>Multiple, ZenonT(30)
  <2>3. PICK m \in Int : c = p * m
    BY <1>Multiple, ZenonT(30)
  <2>4. (a + b) - c = p * ((k + l) - m) /\ (k + l) - m \in Int /\ (a + b) - c \in Int
    BY <2>1, <2>2, <2>3
  <2> QED BY <2>4, <1>Multiple, ZenonT(30)
\* A range that lies within another one is flushed with it.
<1>RangeWithin.
      ASSUME NEW f \in Info, NEW g \in Info, Plain(f), Plain(g),
             g.start <= f.start, f.start + f.size <= g.start + g.size
      PROVE  PagesFlushed(f) \subseteq PagesFlushed(g)
  <2> USE <1>RangeWithin
  <2>1. CASE f.size = FLUSH_ALL
    <3>1. g.size = FLUSH_ALL
      BY <2>1, InfoFields, FenceAssumption DEF Plain, FLUSH_ALL
    <3> QED BY <2>1, <3>1, ZenonT(30) DEF PagesFlushed
  <2>2. CASE f.size # FLUSH_ALL
    <3>1. ~Unbounded(f) /\ ~Unbounded(g)
      BY DEF Unbounded, Plain
    <3>2. ASSUME NEW i \in 0 .. f.size - 1, (i % PAGE_SIZE) = 0
          PROVE  \E j \in 0 .. g.size - 1 : (j % PAGE_SIZE) = 0 /\ g.start + j = f.start + i
      <4> DEFINE j == (f.start + i) - g.start
      <4>1. j \in 0 .. g.size - 1 /\ g.start + j = f.start + i
        BY InfoFields
      <4>2. (j % PAGE_SIZE) = 0
        BY <3>2, InfoFields, FenceAssumption, <1>Boundaries DEF Plain
      <4> QED BY <4>1, <4>2, ZenonT(30)
    <3>3. RangePages(f) \subseteq RangePages(g)
      BY <3>2, ZenonT(30) DEF RangePages
    <3> QED BY <2>2, <3>1, <3>3, RangeInPages, ZenonT(30) DEF PagesFlushed
  <2> QED BY <2>1, <2>2, ZenonT(30)
<1> DEFINE m == Merged(in, cur)
<1>1. /\ m \in Info /\ m.local_fn = cur.local_fn /\ m.asid = cur.asid
      /\ Covers(in, cur) => m.start = in.start /\ m.size = in.size
      /\ ~Covers(in, cur) => m.start = cur.start /\ m.size = cur.size
  BY MergedFields, ZenonT(30)
<1> HIDE DEF m
<1>2. /\ in.local_fn = cur.local_fn /\ Compared(in) /\ Compared(cur) /\ Compared(m)
      /\ in.local_fn # "sfence_vma" => in.asid = cur.asid
  BY <1>1, ZenonT(30) DEF Merges, Mergeable, Compared
<1>3. Plain(in) /\ Plain(cur)
  BY <1>2, ZenonT(30) DEF Sound
<1>4. Plain(m)
  BY <1>1, <1>3, ZenonT(30) DEF Plain
<1>5. End(in) = in.start + in.size /\ End(cur) = cur.start + cur.size
  <2>1. ASSUME NEW a \in Nat, a < ADDR_MOD PROVE (a % ADDR_MOD) = a
    BY <2>1, FenceAssumption
  <2>2. /\ in.start + in.size \in Nat /\ in.start + in.size < ADDR_MOD
        /\ cur.start + cur.size \in Nat /\ cur.start + cur.size < ADDR_MOD
    BY <1>3, InfoFields DEF Plain
  <2> QED BY <2>1, <2>2, ZenonT(30) DEF End
<1>6. /\ m.start <= in.start /\ in.start + in.size <= m.start + m.size
      /\ m.start <= cur.start /\ cur.start + cur.size <= m.start + m.size
  BY <1>1, <1>5, InfoFields DEF Merges, Covers, CoveredBy
<1>7. PagesFlushed(in) \subseteq PagesFlushed(m) /\ PagesFlushed(cur) \subseteq PagesFlushed(m)
  BY <1>1, <1>3, <1>4, <1>6, <1>RangeWithin, ZenonT(30)
<1>8. ~Unbounded(in) /\ ~Unbounded(cur) /\ ~Unbounded(m)
  BY <1>3, <1>4 DEF Unbounded, Plain
<1>9. /\ in.local_fn # "sfence_vma" => AsidsFlushed(in) \subseteq AsidsFlushed(m)
      /\ AsidsFlushed(cur) \subseteq AsidsFlushed(m)
  BY <1>1, <1>2, <1>8, ZenonT(30) DEF AsidsFlushed
<1>10. LocalFlush(in) \subseteq LocalFlush(m) /\ LocalFlush(cur) \subseteq LocalFlush(m)
  BY <1>1, <1>2, <1>7, <1>9, FlushGrows, ZenonT(30)
<1> QED BY <1>4, <1>10, ZenonT(30) DEF m, Sound

-----------------------------------------------------------------------------
(* Flushes.  What is still owed to a hart is flushed before the hart is      *)
(* acknowledged.                                                             *)

\* the fences the kernels ask for are ordinary
AllOrdinary == \A h \in Harts : \A r \in Requests[h] : Ordinary(r)

Sane(h) ==
    /\ event[h] = "tlb" /\ todo[h] # {} => Ordinary(tinfo[h])
    /\ pc[h] = "enqueue" \/ Serving(h, "enqueue") => Sound(tinfo[h])

SoundEntries == \A t \in Harts : \A i \in InUse(fifo[t]) : Sound(Entry(fifo[t], i))

\* only harts the sender has not gone past owe it anything, and no more than it asks for
Debts(h) == \A t \in Harts : owed[h][t] # {} =>
    event[h] = "tlb" /\ t \in todo[h] /\ owed[h][t] \subseteq LocalFlush(tinfo[h])

\* the entry that names h flushes all that is owed to h, and after that nothing is owed
Paid(h) ==
    /\ \A g \in Harts, i \in Nat : Named(h, g, i) => owed[h][g] \subseteq LocalFlush(Entry(fifo[g], i))
    /\ \A g \in Harts : h \in signal[g] => owed[h][g] = {}
    /\ tlb_sync[h] = 1 => owed[h][Target(h)] = {}

PayInv == SoundEntries /\ \A h \in Harts : Sane(h) /\ Debts(h) /\ Paid(h)

LEMMA PayInvHolds ==
    ASSUME FirstIsLeast, AllOrdinary
    PROVE  Spec => []PayInv
\* Only a request adds to what is owed.
<1>OwedShrinks.
      ASSUME TypeInv, NEW h \in Harts, Step(h), ~RequestFence(h), NEW g \in Harts, NEW t \in Harts
      PROVE  owed'[g][t] \subseteq owed[g][t]
  <2> USE <1>OwedShrinks
  <2>1. CASE \E f : Flush(h, f)
    <3>1. PICK f : Flush(h, f)
      BY <2>1, ZenonT(30)
    <3>2. owed'[g] = [owed[g] EXCEPT ![h] = @ \ LocalFlush(f)]
      BY <3>1, ZenonT(30) DEF Flush
    <3>3. DOMAIN owed[g] = Harts
      BY ZenonT(30) DEF TypeInv, Owing
    <3> QED BY <3>2, <3>3, ZenonT(30)
  <2>2. CASE UNCHANGED owed
    BY <2>2, ZenonT(30)
  <2>3. CASE UpdateSelf(h) \/ DequeueFence(h)
    BY <2>1, <2>3, ZenonT(30) DEF UpdateSelf, DequeueFence
  <2>4. CASE RequestIpi(h) \/ ClearSmode(h) \/ SendReturn(h) \/ SendPlain(h) \/ UpdateRemote(h) \/ EnqueueFence(h)
    BY <2>2, <2>4, ZenonT(30) DEF RequestIpi, ClearSmode, SendReturn, SendPlain, UpdateRemote, EnqueueFence
  <2>5. CASE SetType(h) \/ Raise(h) \/ Sync(h) \/ IpiClear(h) \/ IpiTake(h) \/ ProcessReturn(h) \/ Signal(h)
    BY <2>2, <2>5, ZenonT(30) DEF SetType, Raise, Sync, IpiClear, IpiTake, ProcessReturn, Signal
  <2> QED BY <2>3, <2>4, <2>5, ZenonT(30) DEF Step, Firmware, Kernel
\* What the hart h flushes is owed by h no more.
<1>FlushPays.
      ASSUME TypeInv, NEW h \in Harts, NEW f, Flush(h, f), NEW g \in Harts, owed[g][h] \subseteq LocalFlush(f)
      PROVE  owed'[g][h] = {}
  <2> USE <1>FlushPays
  <2>1. owed'[g] = [owed[g] EXCEPT ![h] = @ \ LocalFlush(f)]
    BY ZenonT(30) DEF Flush
  <2>2. DOMAIN owed[g] = Harts
    BY ZenonT(30) DEF TypeInv, Owing
  <2> QED BY <2>1, <2>2, ZenonT(30)
<1>UpdateFlush.
      ASSUME TypeInv, SoundEntries, NEW t \in Harts, NEW in \in Info, Sound(in), Candidates(fifo[t], in) # {},
             fifo' = [fifo EXCEPT ![t] = InplaceUpdate(fifo[t], in)]
      PROVE  /\ \A x \in Harts : \A i \in InUse(fifo'[x]) :
                    /\ i \in InUse(fifo[x]) /\ Sound(Entry(fifo'[x], i))
                    /\ LocalFlush(Entry(fifo[x], i)) \subseteq LocalFlush(Entry(fifo'[x], i))
             /\ LocalFlush(in) \subseteq LocalFlush(Entry(fifo'[t], First(Candidates(fifo[t], in))))
  <2> USE <1>UpdateFlush
  <2> DEFINE f == fifo[t]
             n == First(Candidates(f, in))
             e == Entry(f, n)
             m == Merged(in, e)
             r == Replace(f, n, m)
  <2>a. fifo \in [Harts -> Fifos(Info)]
    BY TypeParts, ZenonT(30) DEF TypeInv
  <2>b. f \in Fifos(Info) /\ Holds(f) /\ \A i \in InUse(f) : Sound(Entry(f, i))
    BY <2>a, ZenonT(30) DEF TypeInv, Stored, SoundEntries
  <2>1. n \in InUse(f) /\ Merges(in, e) /\ InplaceUpdate(f, in) = r
    BY <2>b, CandidateIn, ZenonT(30)
  <2>2. \A x \in Harts : fifo'[x] = IF x = t THEN r ELSE fifo[x]
    BY <2>a, <2>1, ZenonT(30)
  <2> HIDE DEF f, n, e
  <2>3. e \in Info /\ Sound(e)
    BY <2>1, <2>b, ZenonT(30) DEF Holds, Awaited, e
  <2>4. /\ LocalFlush(in) \subseteq LocalFlush(m) /\ LocalFlush(e) \subseteq LocalFlush(m)
        /\ Sound(m) /\ m \in Info
    BY <2>1, <2>3, MergedFlushes, MergedFields, ZenonT(30)
  <2> HIDE DEF m
  <2>5. r.avail = f.avail /\ \A k \in InUse(f) : Entry(r, k) = IF k = n THEN m ELSE Entry(f, k)
    BY <2>b, <2>1, <2>4, ReplaceEntry
  <2> HIDE DEF r
  <2>6. InUse(r) = InUse(f)
    BY <2>5, ZenonT(30) DEF InUse
  <2>7. ASSUME NEW x \in Harts, NEW i \in InUse(fifo'[x])
        PROVE  /\ i \in InUse(fifo[x]) /\ Sound(Entry(fifo'[x], i))
               /\ LocalFlush(Entry(fifo[x], i)) \subseteq LocalFlush(Entry(fifo'[x], i))
    <3>1. CASE x # t
      BY <2>2, <3>1, ZenonT(30) DEF SoundEntries
    <3>2. CASE x = t
      BY <2>b, <2>2, <2>4, <2>5, <2>6, <3>2, ZenonT(30) DEF f, e
    <3> QED BY <3>1, <3>2, ZenonT(30)
  <2>8. LocalFlush(in) \subseteq LocalFlush(Entry(fifo'[t], n))
    BY <2>1, <2>2, <2>4, <2>5, ZenonT(30)
  <2> QED BY <2>7, <2>8, ZenonT(30) DEF n, f
<1>EnqueueFlush.
      ASSUME TypeOK, NEW t \in Harts, NEW e \in Info, ~IsFull(fifo[t]),
             fifo' = [fifo EXCEPT ![t] = Enqueue(fifo[t], e)]
      PROVE  \A x \in Harts : \A i \in InUse(fifo'[x]) :
                 \/ i \in InUse(fifo[x]) /\ Entry(fifo'[x], i) = Entry(fifo[x], i)
                 \/ x = t /\ i = fifo[t].avail /\ Entry(fifo'[x], i) = e
  <2> USE <1>EnqueueFlush
  <2> DEFINE f == fifo[t]
             n == Enqueue(f, e)
  <2>a. fifo \in [Harts -> Fifos(Info)]
    BY TypeParts, ZenonT(30)
  <2>b. f \in Fifos(Info)
    BY <2>a, ZenonT(30)
  <2>c. \A x \in Harts : fifo'[x] = IF x = t THEN n ELSE fifo[x]
    BY <2>a, ZenonT(30)
  <2> HIDE DEF f
  <2>1. /\ n.avail = f.avail + 1
        /\ \A i \in InUse(f) : Entry(n, i) = Entry(f, i)
        /\ Entry(n, f.avail) = e
    BY <2>b, EnqueueEntry DEF f
  <2>2. f.avail \in Nat
    BY <2>b, FifoFields, NumEntriesAssumption
  <2> HIDE DEF n
  <2>3. InUse(n) = InUse(f) \cup {f.avail}
    BY <2>1, <2>2 DEF InUse
  <2> QED BY <2>c, <2>1, <2>3, ZenonT(30) DEF f
<1>DequeueFlush.
      ASSUME TypeOK, NEW t \in Harts, ~IsEmpty(fifo[t]), fifo' = [fifo EXCEPT ![t] = Dequeue(fifo[t])]
      PROVE  /\ \A i \in InUse(fifo'[t]) : i + 1 \in InUse(fifo[t]) /\ Entry(fifo'[t], i) = Entry(fifo[t], i + 1)
             /\ \A x \in Harts : x # t => fifo'[x] = fifo[x]
             /\ Oldest(fifo[t]) = Entry(fifo[t], 0)
  <2> USE <1>DequeueFlush
  <2>a. fifo \in [Harts -> Fifos(Info)]
    BY TypeParts, ZenonT(30)
  <2>b. fifo[t] \in Fifos(Info)
    BY <2>a, ZenonT(30)
  <2>c. \A x \in Harts : fifo'[x] = IF x = t THEN Dequeue(fifo[t]) ELSE fifo[x]
    BY <2>a, ZenonT(30)
  <2> QED BY <2>b, <2>c, DequeueEntry
\* Nothing has to be paid to a hart that nothing is on its way to.
<1>PaidNone.
      ASSUME NEW g \in Harts, \A x \in Harts, i \in Nat : ~Named(g, x, i)',
             \A x \in Harts : g \notin signal'[x], tlb_sync'[g] = 0
      PROVE  Paid(g)'
  BY <1>PaidNone DEF Paid
\* A step that only grows the flushes on their way to g keeps g paid.
<1>PaidKept.
      ASSUME NEW g \in Harts, Paid(g), \A x \in Harts : owed'[g][x] \subseteq owed[g][x],
             \A x \in Harts, i \in Nat : Named(g, x, i)' =>
                 /\ Named(g, x, i)
                 /\ LocalFlush(Entry(fifo[x], i)) \subseteq LocalFlush(Entry(fifo'[x], i)),
             \A x \in Harts : g \in signal'[x] => g \in signal[x],
             tlb_sync'[g] = 1 => tlb_sync[g] = 1 /\ Target(g)' = Target(g) /\ Target(g) \in Harts
      PROVE  Paid(g)'
  <2> USE <1>PaidKept
  <2>1. ASSUME NEW x \in Harts, NEW i \in Nat, Named(g, x, i)'
        PROVE  owed'[g][x] \subseteq LocalFlush(Entry(fifo'[x], i))
    BY <2>1, ZenonT(30) DEF Paid
  <2>2. \A x \in Harts : g \in signal'[x] => owed'[g][x] = {}
    BY ZenonT(30) DEF Paid
  <2>3. tlb_sync'[g] = 1 => owed'[g][Target(g)'] = {}
    BY ZenonT(30) DEF Paid
  <2> QED BY <2>1, <2>2, <2>3, ZenonT(30) DEF Paid
<1>PaidStep.
      ASSUME TypeInv, TokenInv, PayInv, NEW h \in Harts, Step(h), NEW g \in Harts
      PROVE  Paid(g)'
  <2> USE <1>PaidStep
  <2>a. /\ TypeOK /\ Flow(h) /\ Flow(g) /\ Token(h) /\ Token(g) /\ SoundEntries
        /\ Sane(h) /\ Debts(h) /\ Paid(h) /\ Paid(g)
    BY ZenonT(30) DEF TypeInv, TokenInv, PayInv
  <2>b. /\ fifo \in [Harts -> Fifos(Info)] /\ tlb_sync \in [Harts -> {0, 1}]
        /\ tinfo \in [Harts -> Info] /\ signal \in [Harts -> SUBSET Harts]
    BY <2>a, TypeParts, ZenonT(30)
  <2>c. ~RequestFence(h) => \A x \in Harts : owed'[g][x] \subseteq owed[g][x]
    BY <1>OwedShrinks, ZenonT(30)
  <2>d. Waiting(g) => Target(g) \in Harts
    BY <2>a, TargetIn, ZenonT(30) DEF Waiting, Flow
  <2>e. ASSUME ~Acknowledged(h), Waiting(g) PROVE Target(g)' = Target(g)
    <3>1. ~(g = h /\ pc[h] = "sync" /\ tlb_sync[h] = 1)
      BY <2>e, ZenonT(30) DEF Acknowledged, Step, Firmware, Kernel, RequestFence, RequestIpi, ClearSmode, SendReturn, SendPlain,
             UpdateSelf, UpdateRemote, EnqueueFence, SetType, Raise, IpiClear, IpiTake, DequeueFence, ProcessReturn, Signal
    <3> QED BY <2>e, <3>1, WaitingKept, ZenonT(30)
  <2>f. ASSUME ~Acknowledged(h), tlb_sync[g] = 1 PROVE Target(g)' = Target(g) /\ Target(g) \in Harts
    BY <2>a, <2>d, <2>e, <2>f, ZenonT(30) DEF Token
  <2>1. CASE MergeInto(h)
    <3> DEFINE t == Target(h)
               in == Upgrade(tinfo[h])
               n == First(Candidates(fifo[t], in))
    <3>1. /\ pc[h] = "send" /\ todo[h] # {} /\ event[h] = "tlb" /\ Candidates(fifo[t], in) # {}
          /\ fifo' = [fifo EXCEPT ![t] = InplaceUpdate(fifo[t], in)]
          /\ UNCHANGED <<tlb_sync, signal, owed>>
      BY <2>1, ZenonT(30) DEF MergeInto, UpdateRemote
    <3>2. t \in Harts
      BY <2>a, <3>1, TargetIn, ZenonT(30)
    <3>3. in \in Info /\ in.smask = {h} /\ Sound(in) /\ LocalFlush(tinfo[h]) \subseteq LocalFlush(in)
      BY <2>a, <2>b, <3>1, UpgradeFields, UpgradeFlushes, ZenonT(30) DEF Flow, Sane
    <3>4. ~Waiting(h) /\ ~Acknowledged(h)
      BY <3>1, ZenonT(30) DEF Waiting, Serving, Acknowledged, Sync
    <3> HIDE DEF t, in
    <3>5. \A x \in Harts, i \in Nat : Named(g, x, i)' => Named(g, x, i) \/ (g \in in.smask /\ x = t /\ i = n)
      BY <3>1, <3>2, <3>3, UpdateNames, ZenonT(30)
    <3>6. /\ \A x \in Harts : \A i \in InUse(fifo'[x]) :
                  LocalFlush(Entry(fifo[x], i)) \subseteq LocalFlush(Entry(fifo'[x], i))
          /\ LocalFlush(in) \subseteq LocalFlush(Entry(fifo'[t], n))
      BY <2>a, <3>1, <3>2, <3>3, <1>UpdateFlush, ZenonT(30)
    <3> HIDE DEF n
    <3>7. CASE g = h
      <4>1. /\ \A x \in Harts, i \in Nat : ~Named(h, x, i)
            /\ \A x \in Harts : h \notin signal[x]
            /\ tlb_sync[h] = 0
        BY <2>a, <3>4, NoToken, ZenonT(30)
      <4>2. owed[h][t] \subseteq LocalFlush(Entry(fifo'[t], n))
        BY <2>a, <3>2, <3>3, <3>6, ZenonT(30) DEF Debts
      <4>3. ASSUME NEW x \in Harts, NEW i \in Nat, Named(h, x, i)'
            PROVE  owed'[h][x] \subseteq LocalFlush(Entry(fifo'[x], i))
        <5>1. x = t /\ i = n
          BY <3>5, <3>7, <4>1, <4>3, ZenonT(30)
        <5> QED BY <3>1, <4>2, <5>1, ZenonT(30)
      <4>4. (\A x \in Harts : h \notin signal'[x]) /\ tlb_sync'[h] # 1
        BY <3>1, <4>1
      <4> QED BY <3>7, <4>3, <4>4, ZenonT(30) DEF Paid
    <3>8. CASE g # h
      <4>1. ASSUME NEW x \in Harts, NEW i \in Nat, Named(g, x, i)'
            PROVE  Named(g, x, i) /\ LocalFlush(Entry(fifo[x], i)) \subseteq LocalFlush(Entry(fifo'[x], i))
        <5>1. i \in InUse(fifo'[x])
          BY <4>1, ZenonT(30) DEF Named
        <5> QED BY <3>3, <3>5, <3>6, <3>8, <4>1, <5>1, ZenonT(30)
      <4> QED BY <2>a, <2>f, <3>1, <3>4, <4>1, <1>PaidKept, ZenonT(30)
    <3> QED BY <3>7, <3>8, ZenonT(30)
  <2>2. CASE Hand(h)
    <3> DEFINE t == Target(h)
               n == fifo[t].avail
    <3>1. /\ pc[h] = "enqueue" /\ ~IsFull(fifo[t])
          /\ fifo' = [fifo EXCEPT ![t] = Enqueue(fifo[t], tinfo[h])]
          /\ UNCHANGED <<tlb_sync, signal, owed>>
      BY <2>2, ZenonT(30) DEF Hand, EnqueueFence
    <3>2. todo[h] # {} /\ event[h] = "tlb" /\ tinfo[h].smask = {h} /\ tinfo[h] \in Info
      BY <2>a, <2>b, <3>1, ZenonT(30) DEF Flow
    <3>3. t \in Harts
      BY <2>a, <3>2, TargetIn, ZenonT(30)
    <3>4. ~Waiting(h) /\ ~Acknowledged(h)
      BY <3>1, ZenonT(30) DEF Waiting, Serving, Acknowledged, Sync
    <3> HIDE DEF t
    <3>e. /\ TypeOK /\ tinfo[h] \in Info /\ ~IsFull(fifo[t])
          /\ fifo' = [fifo EXCEPT ![t] = Enqueue(fifo[t], tinfo[h])]
      BY <2>a, <3>1, <3>2, ZenonT(30)
    <3>5. \A x \in Harts, i \in Nat :
              Named(g, x, i)' => Named(g, x, i) \/ (g \in tinfo[h].smask /\ x = t /\ i = n)
      BY <3>3, <3>e, EnqueueNames, ZenonT(30)
    <3>6. \A x \in Harts : \A i \in InUse(fifo'[x]) :
              \/ i \in InUse(fifo[x]) /\ Entry(fifo'[x], i) = Entry(fifo[x], i)
              \/ x = t /\ i = fifo[t].avail /\ Entry(fifo'[x], i) = tinfo[h]
      BY <3>3, <3>e, <1>EnqueueFlush, ZenonT(30)
    <3>7. CASE g = h
      <4>1. /\ \A x \in Harts, i \in Nat : ~Named(h, x, i)
            /\ \A x \in Harts : h \notin signal[x]
            /\ tlb_sync[h] = 0
        BY <2>a, <3>4, NoToken, ZenonT(30)
      <4>2. owed[h][t] \subseteq LocalFlush(tinfo[h])
        BY <2>a, <3>3, ZenonT(30) DEF Debts
      <4>3. ASSUME NEW x \in Harts, NEW i \in Nat, Named(h, x, i)'
            PROVE  owed'[h][x] \subseteq LocalFlush(Entry(fifo'[x], i))
        <5>1. x = t /\ i = n
          BY <3>5, <3>7, <4>1, <4>3, ZenonT(30)
        <5>2. i \in InUse(fifo'[x]) /\ h \in Entry(fifo'[x], i).smask
          BY <4>3, ZenonT(30) DEF Named
        <5>3. Entry(fifo'[x], i) = tinfo[h]
          <6>1. CASE i \in InUse(fifo[x]) /\ Entry(fifo'[x], i) = Entry(fifo[x], i)
            BY <4>1, <5>2, <6>1, ZenonT(30) DEF Named
          <6> QED BY <3>6, <5>2, <6>1, ZenonT(30)
        <5> QED BY <3>1, <4>2, <5>1, <5>3, ZenonT(30)
      <4>4. (\A x \in Harts : h \notin signal'[x]) /\ tlb_sync'[h] # 1
        BY <3>1, <4>1
      <4> QED BY <3>7, <4>3, <4>4, ZenonT(30) DEF Paid
    <3>8. CASE g # h
      <4>1. ASSUME NEW x \in Harts, NEW i \in Nat, Named(g, x, i)'
            PROVE  Named(g, x, i) /\ LocalFlush(Entry(fifo[x], i)) \subseteq LocalFlush(Entry(fifo'[x], i))
        <5>1. i \in InUse(fifo'[x]) /\ g \in Entry(fifo'[x], i).smask
          BY <4>1, ZenonT(30) DEF Named
        <5>n. g \notin tinfo[h].smask
          BY <3>2, <3>8, ZenonT(30)
        <5>2. Named(g, x, i)
          BY <3>5, <4>1, <5>n, ZenonT(30)
        <5>3. Entry(fifo'[x], i) # tinfo[h]
          BY <5>1, <5>n, ZenonT(30)
        <5>4. Entry(fifo'[x], i) = Entry(fifo[x], i)
          BY <3>6, <5>1, <5>3, ZenonT(30)
        <5> QED BY <5>2, <5>4, ZenonT(30)
      <4> QED BY <2>a, <2>f, <3>1, <3>4, <4>1, <1>PaidKept, ZenonT(30)
    <3> QED BY <3>7, <3>8, ZenonT(30)
  <2>3. CASE Acknowledged(h)
    <3>1. /\ pc[h] = "sync" /\ tlb_sync[h] = 1
          /\ tlb_sync' = [tlb_sync EXCEPT ![h] = 0]
          /\ UNCHANGED <<fifo, signal, owed>>
      BY <2>3 DEF Acknowledged, Sync
    <3>2. \A x \in Harts, i \in Nat : Named(g, x, i)' <=> Named(g, x, i)
      BY <3>1, ZenonT(30) DEF Named
    <3>3. CASE g = h
      <4>1. /\ \A x \in Harts, i \in Nat : ~Named(h, x, i)
            /\ \A x \in Harts : h \notin signal[x]
        BY <2>a, <3>1, ZeroOne, ZenonT(30) DEF Token, Expects
      <4>2. tlb_sync'[h] = 0
        BY <2>b, <3>1, ZenonT(30)
      <4> QED BY <3>1, <3>2, <3>3, <4>1, <4>2, <1>PaidNone, ZenonT(30)
    <3>4. CASE g # h
      <4>1. tlb_sync'[g] = tlb_sync[g]
        BY <2>b, <3>1, <3>4, ZenonT(30)
      <4>2. tlb_sync[g] = 1 => Target(g)' = Target(g) /\ Target(g) \in Harts
        BY <2>a, <2>d, <3>4, WaitingKept, ZenonT(30) DEF Token
      <4> QED BY <2>a, <3>1, <3>2, <4>1, <4>2, <1>PaidKept, ZenonT(30)
    <3> QED BY <3>3, <3>4, ZenonT(30)
  <2>4. CASE DequeueFence(h)
    <3>1. /\ pc[h] = "dequeue" /\ ~IsEmpty(fifo[h])
          /\ fifo' = [fifo EXCEPT ![h] = Dequeue(fifo[h])]
          /\ Flush(h, Oldest(fifo[h]))
          /\ signal' = [signal EXCEPT ![h] = Oldest(fifo[h]).smask]
          /\ UNCHANGED tlb_sync
      BY <2>4, ZenonT(30) DEF DequeueFence, MayDequeue
    <3>2. /\ \A i \in Nat : Named(g, h, i)' => Named(g, h, i + 1)
          /\ \A x \in Harts, i \in Nat : x # h /\ Named(g, x, i)' => Named(g, x, i)
          /\ g \in Oldest(fifo[h]).smask <=> Named(g, h, 0)
      BY <2>a, <3>1, DequeueNames, ZenonT(30)
    <3>3. /\ \A i \in InUse(fifo'[h]) : Entry(fifo'[h], i) = Entry(fifo[h], i + 1)
          /\ \A x \in Harts : x # h => fifo'[x] = fifo[x]
          /\ Oldest(fifo[h]) = Entry(fifo[h], 0)
      BY <2>a, <3>1, <1>DequeueFlush, ZenonT(30)
    <3>4. \A x \in Harts : signal'[x] = IF x = h THEN Oldest(fifo[h]).smask ELSE signal[x]
      BY <2>b, <3>1, ZenonT(30)
    <3>5. ~Acknowledged(h) /\ ~RequestFence(h)
      BY <3>1, ZenonT(30) DEF Acknowledged, Sync, RequestFence
    <3>6. ASSUME NEW x \in Harts, NEW i \in Nat, Named(g, x, i)'
          PROVE  owed'[g][x] \subseteq LocalFlush(Entry(fifo'[x], i))
      <4>1. CASE x = h
        <5>n. i + 1 \in Nat
          BY <3>6
        <5>1. Named(g, h, i + 1) /\ i + 1 \in Nat
          BY <3>2, <3>6, <4>1, <5>n, ZenonT(30)
        <5>2. owed[g][h] \subseteq LocalFlush(Entry(fifo[h], i + 1))
          BY <2>a, <5>1, ZenonT(30) DEF Paid
        <5>3. i \in InUse(fifo'[h])
          BY <3>6, <4>1, ZenonT(30) DEF Named
        <5> QED BY <2>c, <3>3, <3>5, <4>1, <5>2, <5>3, ZenonT(30)
      <4>2. CASE x # h
        <5>1. owed[g][x] \subseteq LocalFlush(Entry(fifo[x], i))
          BY <2>a, <3>2, <3>6, <4>2, ZenonT(30) DEF Paid
        <5> QED BY <2>c, <3>3, <3>5, <4>2, <5>1, ZenonT(30)
      <4> QED BY <4>1, <4>2, ZenonT(30)
    <3>7. ASSUME NEW x \in Harts, g \in signal'[x] PROVE owed'[g][x] = {}
      <4>1. CASE x = h
        <5>1. Named(g, h, 0) /\ 0 \in Nat
          BY <3>2, <3>4, <3>7, <4>1, ZenonT(30)
        <5>2. owed[g][h] \subseteq LocalFlush(Oldest(fifo[h]))
          BY <2>a, <3>3, <5>1, ZenonT(30) DEF Paid
        <5> QED BY <3>1, <4>1, <5>2, <1>FlushPays, ZenonT(30)
      <4>2. CASE x # h
        BY <2>a, <2>c, <3>4, <3>5, <3>7, <4>2, ZenonT(30) DEF Paid
      <4> QED BY <4>1, <4>2, ZenonT(30)
    <3>8. tlb_sync'[g] = 1 => owed'[g][Target(g)'] = {}
      BY <2>a, <2>c, <2>f, <3>1, <3>5, ZenonT(30) DEF Paid
    <3> QED BY <3>6, <3>7, <3>8, ZenonT(30) DEF Paid
  <2>5. CASE Signal(h)
    <3> DEFINE r == First(signal[h])
    <3>1. /\ pc[h] = "signal"
          /\ tlb_sync' = [tlb_sync EXCEPT ![r] = 1]
          /\ signal' = [signal EXCEPT ![h] = @ \ {r}]
          /\ UNCHANGED <<fifo, owed>>
      BY <2>5, ZenonT(30) DEF Signal
    <3>2. r \in signal[h]
      <4>1. signal[h] # {} /\ signal[h] \in SUBSET Nat
        BY <2>a, <2>b, <3>1, FenceAssumption, ZenonT(30) DEF Flow
      <4> QED BY <4>1, ZenonT(30) DEF FirstIsLeast
    <3> HIDE DEF r
    <3>3. ~Acknowledged(h)
      BY <3>1, ZenonT(30) DEF Acknowledged, Sync
    <3>4. \A x \in Harts, i \in Nat : Named(g, x, i)' <=> Named(g, x, i)
      BY <3>1, ZenonT(30) DEF Named
    <3>5. \A x \in Harts : g \in signal'[x] => g \in signal[x]
      BY <2>b, <3>1, ZenonT(30)
    <3>6. CASE g = r
      <4>1. Waiting(g) /\ Target(g) = h /\ owed[g][h] = {}
        BY <2>a, <3>2, <3>6, ZenonT(30) DEF Token, Expects, Paid
      <4>2. Target(g)' = h
        BY <2>e, <3>3, <4>1, ZenonT(30)
      <4>3. owed'[g][Target(g)'] = {}
        BY <3>1, <4>1, <4>2, ZenonT(30)
      <4>4. \A x \in Harts, i \in Nat : Named(g, x, i)' => owed'[g][x] \subseteq LocalFlush(Entry(fifo'[x], i))
        BY <2>a, <3>1, <3>4, ZenonT(30) DEF Paid
      <4>5. \A x \in Harts : g \in signal'[x] => owed'[g][x] = {}
        BY <2>a, <3>1, <3>5, ZenonT(30) DEF Paid
      <4> QED BY <4>3, <4>4, <4>5, ZenonT(30) DEF Paid
    <3>7. CASE g # r
      <4>1. tlb_sync'[g] = tlb_sync[g]
        BY <2>b, <3>1, <3>7, ZenonT(30)
      <4> QED BY <2>a, <2>f, <3>1, <3>3, <3>4, <3>5, <4>1, <1>PaidKept, ZenonT(30)
    <3> QED BY <3>6, <3>7, ZenonT(30)
  <2>6. CASE ~Moves(h)
    <3>1. UNCHANGED <<fifo, tlb_sync, signal>>
      BY <2>6, StillStep, ZenonT(30)
    <3>2. \A x \in Harts, i \in Nat : Named(g, x, i)' <=> Named(g, x, i)
      BY <3>1, ZenonT(30) DEF Named
    <3>3. ~Acknowledged(h)
      BY <2>6, ZenonT(30) DEF Moves
    <3>4. CASE ~RequestFence(h)
      BY <2>a, <2>c, <2>f, <3>1, <3>2, <3>3, <3>4, <1>PaidKept, ZenonT(30)
    <3>5. CASE RequestFence(h) /\ g = h
      <4>1. ~Waiting(h)
        BY <3>5, ZenonT(30) DEF RequestFence, Waiting, Serving
      <4>2. /\ \A x \in Harts, i \in Nat : ~Named(h, x, i)
            /\ \A x \in Harts : h \notin signal[x]
            /\ tlb_sync[h] = 0
        BY <2>a, <4>1, NoToken, ZenonT(30)
      <4> QED BY <3>1, <3>2, <3>5, <4>2, <1>PaidNone, ZenonT(30)
    <3>6. CASE RequestFence(h) /\ g # h
      <4>1. owed'[g] = owed[g]
        BY <3>6, ZenonT(30) DEF RequestFence, TypeInv, Owing
      <4> QED BY <2>a, <2>f, <3>1, <3>2, <3>3, <4>1, <1>PaidKept, ZenonT(30)
    <3> QED BY <3>4, <3>5, <3>6, ZenonT(30)
  <2> QED BY <2>1, <2>2, <2>3, <2>4, <2>5, <2>6, ZenonT(30) DEF Moves
<1>RequestFacts.
      ASSUME NEW r \in Fences, NEW s \in SUBSET Harts
      PROVE  /\ LocalFlush(TlbInfo(r, s)) = LocalFlush(r)
             /\ Ordinary(TlbInfo(r, s)) <=> Ordinary(r)
  <2> USE <1>RequestFacts
  <2> DEFINE f == TlbInfo(r, s)
  <2>1. /\ f.local_fn = r.local_fn /\ f.start = r.start /\ f.size = r.size
        /\ f.asid = r.asid /\ f.vmid = r.vmid
    BY ZenonT(30) DEF TlbInfo
  <2> HIDE DEF f
  <2>2. PagesFlushed(f) = PagesFlushed(r) /\ AsidsFlushed(f) = AsidsFlushed(r) /\ VmidsFlushed(f) = VmidsFlushed(r)
    BY <2>1, ZenonT(30) DEF PagesFlushed, AsidsFlushed, VmidsFlushed, Unbounded, RangePages
  <2>3. LocalFlush(f) = LocalFlush(r)
    BY <2>1, <2>2, ZenonT(30) DEF LocalFlush
  <2>4. Ordinary(f) <=> Ordinary(r)
    BY <2>1, ZenonT(30) DEF Ordinary, Compared, Plain
  <2> QED BY <2>3, <2>4, ZenonT(30) DEF f
<1>SaneStep.
      ASSUME AllOrdinary, TypeInv, NEW h \in Harts, Step(h), \A g \in Harts : Sane(g), NEW g \in Harts
      PROVE  Sane(g)'
  <2> USE <1>SaneStep
  <2>a. TypeOK /\ Flow(h) /\ Sane(h)
    BY ZenonT(30) DEF TypeInv
  <2>b. CASE g # h
    BY <2>a, <2>b, OthersKept, ZenonT(30) DEF Of, Sane, Serving
  <2>c. SUFFICES ASSUME g = h PROVE Sane(h)'
    BY <2>b, ZenonT(30)
  <2> USE <2>a, Domains
  <2>1. CASE RequestFence(h)
    <3>1. PICK r \in Requests[h] : tinfo' = [tinfo EXCEPT ![h] = TlbInfo(r, {h})]
      BY <2>1, ZenonT(30) DEF RequestFence
    <3>2. Ordinary(TlbInfo(r, {h}))
      <4>1. r \in Fences /\ Ordinary(r)
        BY FenceAssumption, ZenonT(30) DEF AllOrdinary
      <4> QED BY <4>1, <1>RequestFacts, ZenonT(30)
    <3>3. pc'[h] = "send" /\ tinfo'[h] = TlbInfo(r, {h})
      BY <2>1, <3>1, ZenonT(30) DEF RequestFence
    <3> QED BY <3>2, <3>3, ZenonT(30) DEF Sane, Serving
  <2>2. CASE RequestIpi(h)
    BY <2>2, ZenonT(30) DEF RequestIpi, Sane, Serving
  <2>3. CASE ClearSmode(h)
    BY <2>3, ZenonT(30) DEF ClearSmode, hart, Sane, Serving
  <2>4. CASE SendReturn(h)
    BY <2>4, ZenonT(30) DEF SendReturn, Sane, Serving
  <2>5. CASE SendPlain(h)
    BY <2>5, ZenonT(30) DEF SendPlain, Sane, Serving
  <2>6. CASE UpdateSelf(h) \/ UpdateRemote(h)
    <3>1. tinfo[h] \in Info
      BY TypeParts, ZenonT(30)
    <3>2. event[h] = "tlb" /\ todo[h] # {} /\ tinfo' = [tinfo EXCEPT ![h] = Upgrade(tinfo[h])]
      BY <2>6, ZenonT(30) DEF UpdateSelf, UpdateRemote
    <3>3. Sound(Upgrade(tinfo[h])) /\ tinfo'[h] = Upgrade(tinfo[h])
      BY <3>1, <3>2, UpgradeFlushes, ZenonT(30) DEF Sane
    <3> QED BY <3>3, ZenonT(30) DEF Sane, Sound, Ordinary
  <2>7. CASE EnqueueFence(h)
    BY <2>7, ZenonT(30) DEF EnqueueFence, ProcessCount, Sane, Serving
  <2>8. CASE SetType(h)
    BY <2>8, ZenonT(30) DEF SetType, Sane, Serving
  <2>9. CASE Raise(h)
    BY <2>9, ZenonT(30) DEF Raise, Served, Sane, Serving
  <2>10. CASE Sync(h)
    BY <2>10, ZenonT(30) DEF Sync, Served, ProcessCount, Sane, Serving
  <2>11. CASE IpiClear(h)
    BY <2>11, ZenonT(30) DEF IpiClear, Sane, Serving
  <2>12. CASE IpiTake(h)
    BY <2>12, ZenonT(30) DEF IpiTake, Sane, Serving
  <2>13. CASE DequeueFence(h)
    BY <2>13, ZenonT(30) DEF DequeueFence, Sane, Serving
  <2>14. CASE ProcessReturn(h)
    BY <2>14, ZenonT(30) DEF ProcessReturn, Sane, Serving
  <2>15. CASE Signal(h)
    BY <2>15, ZenonT(30) DEF Signal, Sane, Serving
  <2> QED
    BY <2>1, <2>2, <2>3, <2>4, <2>5, <2>6, <2>7, <2>8, <2>9, <2>10, <2>11, <2>12, <2>13, <2>14, ZenonT(30),
       <2>15 DEF Step, Firmware, Kernel
<1>SoundStep.
      ASSUME TypeInv, NEW h \in Harts, Step(h), SoundEntries, Sane(h)
      PROVE  SoundEntries'
  <2> USE <1>SoundStep
  <2>a. TypeOK /\ Flow(h)
    BY ZenonT(30) DEF TypeInv
  <2>b. tinfo[h] \in Info
    BY <2>a, TypeParts, ZenonT(30)
  <2>1. CASE MergeInto(h)
    <3> DEFINE t == Target(h)
               in == Upgrade(tinfo[h])
    <3>1. /\ todo[h] # {} /\ event[h] = "tlb" /\ Candidates(fifo[t], in) # {}
          /\ fifo' = [fifo EXCEPT ![t] = InplaceUpdate(fifo[t], in)]
      BY <2>1, ZenonT(30) DEF MergeInto, UpdateRemote
    <3>2. t \in Harts
      BY <2>a, <3>1, TargetIn, ZenonT(30)
    <3>3. in \in Info /\ Sound(in)
      BY <2>b, <3>1, UpgradeFields, UpgradeFlushes, ZenonT(30) DEF Sane
    <3> HIDE DEF t, in
    <3>4. \A x \in Harts : \A i \in InUse(fifo'[x]) : Sound(Entry(fifo'[x], i))
      BY <3>1, <3>2, <3>3, <1>UpdateFlush, ZenonT(30)
    <3> QED BY <3>4, ZenonT(30) DEF SoundEntries
  <2>2. CASE Hand(h)
    <3> DEFINE t == Target(h)
    <3>1. /\ pc[h] = "enqueue" /\ ~IsFull(fifo[t])
          /\ fifo' = [fifo EXCEPT ![t] = Enqueue(fifo[t], tinfo[h])]
      BY <2>2, ZenonT(30) DEF Hand, EnqueueFence
    <3>2. t \in Harts /\ Sound(tinfo[h])
      BY <2>a, <3>1, TargetIn, ZenonT(30) DEF Flow, Sane
    <3> HIDE DEF t
    <3>3. \A x \in Harts : \A i \in InUse(fifo'[x]) :
              \/ i \in InUse(fifo[x]) /\ Entry(fifo'[x], i) = Entry(fifo[x], i)
              \/ x = t /\ i = fifo[t].avail /\ Entry(fifo'[x], i) = tinfo[h]
      BY <2>a, <2>b, <3>1, <3>2, <1>EnqueueFlush, ZenonT(30)
    <3> QED BY <3>2, <3>3, ZenonT(30) DEF SoundEntries
  <2>3. CASE DequeueFence(h)
    <3>1. ~IsEmpty(fifo[h]) /\ fifo' = [fifo EXCEPT ![h] = Dequeue(fifo[h])]
      BY <2>3, ZenonT(30) DEF DequeueFence, MayDequeue
    <3>2. /\ \A i \in InUse(fifo'[h]) : i + 1 \in InUse(fifo[h]) /\ Entry(fifo'[h], i) = Entry(fifo[h], i + 1)
          /\ \A x \in Harts : x # h => fifo'[x] = fifo[x]
      BY <2>a, <3>1, <1>DequeueFlush, ZenonT(30)
    <3>3. ASSUME NEW x \in Harts, NEW i \in InUse(fifo'[x]) PROVE Sound(Entry(fifo'[x], i))
      <4>1. CASE x = h
        BY <3>2, <4>1, ZenonT(30) DEF SoundEntries
      <4>2. CASE x # h
        BY <3>2, <4>2, ZenonT(30) DEF SoundEntries
      <4> QED BY <4>1, <4>2, ZenonT(30)
    <3> QED BY <3>3, ZenonT(30) DEF SoundEntries
  <2>4. CASE Acknowledged(h) \/ Signal(h)
    BY <2>4, ZenonT(30) DEF Acknowledged, Sync, Signal, SoundEntries
  <2>5. CASE ~Moves(h)
    BY <2>5, StillStep, ZenonT(30) DEF SoundEntries
  <2> QED BY <2>1, <2>2, <2>3, <2>4, <2>5, ZenonT(30) DEF Moves
<1>DebtsStep.
      ASSUME TypeInv, NEW h \in Harts, Step(h), \A g \in Harts : Debts(g) /\ Paid(g), NEW g \in Harts
      PROVE  Debts(g)'
  <2> USE <1>DebtsStep
  <2>a. TypeOK /\ Flow(h) /\ Debts(h) /\ Paid(h) /\ Owing
    BY ZenonT(30) DEF TypeInv
  <2>b. tinfo[h] \in Info /\ tlb_sync[h] \in {0, 1}
    BY <2>a, TypeParts, ZenonT(30)
  <2>c. CASE g # h
    <3>1. ~RequestFence(h) \/ \A t \in Harts : owed'[g][t] = owed[g][t]
      BY <2>a, <2>c, ZenonT(30) DEF RequestFence, Owing
    <3>2. \A t \in Harts : owed'[g][t] \subseteq owed[g][t]
      BY <3>1, <1>OwedShrinks, ZenonT(30)
    <3>3. event'[g] = event[g] /\ todo'[g] = todo[g] /\ tinfo'[g] = tinfo[g]
      BY <2>a, <2>c, OthersKept, ZenonT(30) DEF Of
    <3> QED BY <3>2, <3>3, ZenonT(30) DEF Debts
  <2>d. SUFFICES ASSUME g = h PROVE Debts(h)'
    BY <2>c, ZenonT(30)
  <2> USE <2>a, Domains
  <2>1. CASE RequestFence(h)
    <3>1. PICK r \in Requests[h], m \in Masks[h] :
              /\ tinfo' = [tinfo EXCEPT ![h] = TlbInfo(r, {h})]
              /\ todo' = [todo EXCEPT ![h] = m]
              /\ owed' = [owed EXCEPT ![h] = [t \in Harts |-> IF t \in m THEN LocalFlush(r) ELSE {}]]
      BY <2>1, ZenonT(30) DEF RequestFence
    <3>2. tinfo'[h] = TlbInfo(r, {h}) /\ todo'[h] = m /\ event'[h] = "tlb"
      BY <2>1, <3>1, ZenonT(30) DEF RequestFence
    <3>3. \A t \in Harts : owed'[h][t] = IF t \in m THEN LocalFlush(r) ELSE {}
      BY <3>1, ZenonT(30) DEF Owing
    <3>4. LocalFlush(TlbInfo(r, {h})) = LocalFlush(r)
      BY FenceAssumption, <1>RequestFacts, ZenonT(30)
    <3> QED BY <3>2, <3>3, <3>4, ZenonT(30) DEF Debts
  <2>2. CASE RequestIpi(h)
    <3>1. todo[h] = {} /\ UNCHANGED owed
      BY <2>2, ZenonT(30) DEF RequestIpi, Flow
    <3> QED BY <3>1, ZenonT(30) DEF Debts
  <2>3. CASE SendReturn(h)
    BY <2>3, ZenonT(30) DEF SendReturn, Debts
  <2>4. CASE UpdateSelf(h)
    <3>1. /\ event[h] = "tlb" /\ Target(h) = h /\ Flush(h, Upgrade(tinfo[h])) /\ UNCHANGED event
          /\ tinfo'[h] = Upgrade(tinfo[h]) /\ todo'[h] = todo[h] \ {h}
      BY <2>4, ZenonT(30) DEF UpdateSelf, Served
    <3>2. LocalFlush(tinfo[h]) \subseteq LocalFlush(Upgrade(tinfo[h]))
      BY <2>b, UpgradeFlushes, ZenonT(30)
    <3>3. owed[h][h] \subseteq LocalFlush(Upgrade(tinfo[h]))
      BY <3>2, ZenonT(30) DEF Debts
    <3>4. owed'[h][h] = {}
      BY <3>1, <3>3, <1>FlushPays, ZenonT(30)
    <3>5. ~RequestFence(h)
      BY <2>4, ZenonT(30) DEF RequestFence, UpdateSelf
    <3>6. \A t \in Harts : owed'[h][t] \subseteq owed[h][t]
      BY <3>5, <1>OwedShrinks, ZenonT(30)
    <3> QED BY <3>1, <3>2, <3>4, <3>6, ZenonT(30) DEF Debts
  <2>5. CASE UpdateRemote(h)
    <3>1. UNCHANGED <<event, todo, owed>> /\ tinfo'[h] = Upgrade(tinfo[h])
      BY <2>5, ZenonT(30) DEF UpdateRemote
    <3>2. LocalFlush(tinfo[h]) \subseteq LocalFlush(Upgrade(tinfo[h]))
      BY <2>b, UpgradeFlushes, ZenonT(30)
    <3> QED BY <3>1, <3>2, ZenonT(30) DEF Debts
  <2>6. CASE Raise(h)
    <3>1. UNCHANGED <<event, tinfo, owed>> /\ (event[h] = "tlb" => UNCHANGED todo)
      BY <2>6, ZenonT(30) DEF Raise
    <3> QED BY <3>1, ZenonT(30) DEF Debts
  <2>7. CASE Sync(h)
    <3>1. UNCHANGED <<event, tinfo, owed>>
      BY <2>7, ZenonT(30) DEF Sync
    <3>2. CASE tlb_sync[h] = 1
      <4>1. todo'[h] = todo[h] \ {Target(h)}
        <5>1. Served(h)
          BY <2>7, <3>2, ZeroOne, ZenonT(30) DEF Sync
        <5> QED BY <2>b, <5>1, ZenonT(30) DEF Served
      <4>2. owed[h][Target(h)] = {}
        BY <3>2, ZenonT(30) DEF Paid
      <4> QED BY <3>1, <4>1, <4>2, ZenonT(30) DEF Debts
    <3>3. CASE tlb_sync[h] = 0
      <4>1. UNCHANGED todo
        BY <2>7, <3>3, ZeroOne, ZenonT(30) DEF Sync
      <4> QED BY <3>1, <4>1, ZenonT(30) DEF Debts
    <3> QED BY <2>b, <3>2, <3>3, ZenonT(30)
  <2>8. CASE DequeueFence(h)
    <3>1. UNCHANGED <<event, todo, tinfo>> /\ ~RequestFence(h)
      BY <2>8, ZenonT(30) DEF DequeueFence, RequestFence
    <3>2. \A t \in Harts : owed'[h][t] \subseteq owed[h][t]
      BY <3>1, <1>OwedShrinks, ZenonT(30)
    <3> QED BY <3>1, <3>2, ZenonT(30) DEF Debts
  <2>9. CASE UNCHANGED <<event, todo, tinfo, owed>>
    BY <2>9, ZenonT(30) DEF Debts
  <2>10. CASE ClearSmode(h) \/ SendPlain(h) \/ EnqueueFence(h) \/ SetType(h) \/ IpiClear(h) \/ IpiTake(h)
                \/ ProcessReturn(h) \/ Signal(h)
    BY <2>9, <2>10, ZenonT(30) DEF ClearSmode, hart, SendPlain, EnqueueFence, SetType, IpiClear, IpiTake, ProcessReturn, Signal
  <2> QED
    BY <2>1, <2>2, <2>3, <2>4, <2>5, <2>6, <2>7, <2>8, <2>10, ZenonT(30) DEF Step, Firmware, Kernel
<1>1. Init => PayInv
  <2> SUFFICES ASSUME Init PROVE PayInv
    BY ZenonT(30)
  <2>1. SoundEntries
    BY DEF Init, FifoInit, InUse, SoundEntries
  <2>2. ASSUME NEW h \in Harts PROVE Sane(h) /\ Debts(h)
    BY ZenonT(30) DEF Init, Sane, Debts, Serving
  <2>3. ASSUME NEW h \in Harts PROVE Paid(h)
    <3>1. \A g \in Harts, i \in Nat : ~Named(h, g, i)
      BY EmptyInUse, ZenonT(30) DEF Init, Named
    <3>2. tlb_sync[h] # 1 /\ \A g \in Harts : signal[g] = {}
      BY ZeroOne, ZenonT(30) DEF Init
    <3> QED BY <3>1, <3>2, ZenonT(30) DEF Paid
  <2> QED BY <2>1, <2>2, <2>3, ZenonT(30) DEF PayInv
<1>2. TypeInv /\ TokenInv /\ PayInv /\ [Next]_vars => PayInv'
  <2> SUFFICES ASSUME TypeInv, TokenInv, PayInv, [Next]_vars PROVE PayInv'
    BY ZenonT(30)
  <2>1. CASE Next
    <3>1. PICK h \in Harts : Step(h)
      BY <2>1, ZenonT(30) DEF Next, Step
    <3>2. SoundEntries /\ \A g \in Harts : Sane(g) /\ Debts(g) /\ Paid(g)
      BY ZenonT(30) DEF PayInv
    <3>3. SoundEntries'
      BY <3>1, <3>2, <1>SoundStep, ZenonT(30)
    <3>4. \A g \in Harts : Sane(g)'
      BY <3>1, <3>2, <1>SaneStep, ZenonT(30)
    <3>5. \A g \in Harts : Debts(g)'
      BY <3>1, <3>2, <1>DebtsStep, ZenonT(30)
    <3>6. \A g \in Harts : Paid(g)'
      BY <3>1, <1>PaidStep, ZenonT(30)
    <3> QED BY <3>3, <3>4, <3>5, <3>6, ZenonT(30) DEF PayInv
  <2>2. CASE UNCHANGED vars
    <3>1. UNCHANGED <<fifo, tlb_sync, pc, tinfo, event, todo, back, signal, owed>>
      BY <2>2, ZenonT(30) DEF vars, hart
    <3>2. SoundEntries'
      BY <3>1, ZenonT(30) DEF PayInv, SoundEntries
    <3>3. ASSUME NEW h \in Harts PROVE Sane(h)' /\ Debts(h)'
      BY <3>1, ZenonT(30) DEF PayInv, Sane, Debts, Serving
    <3>4. ASSUME NEW h \in Harts PROVE Paid(h)'
      <4>1. Paid(h)
        BY ZenonT(30) DEF PayInv
      <4>2. Target(h)' = Target(h)
        BY <3>1, ZenonT(30) DEF Target
      <4> QED BY <3>1, <4>1, <4>2, ZenonT(30) DEF Paid, Named
    <3> QED BY <3>2, <3>3, <3>4, ZenonT(30) DEF PayInv
  <2> QED BY <2>1, <2>2, ZenonT(30)
<1> QED BY <1>1, <1>2, TypeInvHolds, TokenInvHolds, PTL DEF Spec

-----------------------------------------------------------------------------
(* The protocol implements the service.                                      *)

LEMMA StepsRefine ==
    ASSUME FirstIsLeast, AllOrdinary
    PROVE  Spec => ImplementsService
\* A step of h decides only whether h itself is asking.
<1>AskingStep.
      ASSUME TypeOK, NEW h \in Harts, Step(h)
      PROVE  /\ \A g \in Harts : g # h => (g \in Asking' <=> g \in Asking)
             /\ (h \in Asking' <=> h \in Asking) => Asking' = Asking
  <2> USE <1>AskingStep
  <2>1. ASSUME NEW g \in Harts, g # h PROVE g \in Asking' <=> g \in Asking
    BY <2>1, OthersKept, ZenonT(30) DEF Of, Asking
  <2> QED BY <2>1, ZenonT(30) DEF Asking
<1>AskingKept.
      ASSUME TypeOK, NEW h \in Harts, Step(h), event'[h] = event[h],
             (pc'[h] = "send" \/ todo'[h] # {}) <=> (pc[h] = "send" \/ todo[h] # {})
      PROVE  Asking' = Asking
  <2> USE <1>AskingKept
  <2>1. h \in Asking' <=> h \in Asking
    BY ZenonT(30) DEF Asking
  <2> QED BY <2>1, <1>AskingStep, ZenonT(30)
\* A local flush is a flush of the service, for the harts it pays completely.
<1>FlushMaps.
      ASSUME Owing, NEW h \in Harts, NEW f, Flush(h, f), Asking' = Asking
      PROVE  Service!Flush(h)
  <2> USE <1>FlushMaps
  <2> DEFINE W == {g \in Harts : owed[g][h] # {} /\ owed'[g][h] = {}}
  <2>1. ASSUME NEW g \in Harts, NEW t \in Harts
        PROVE  owed'[g][t] = IF t = h THEN owed[g][h] \ LocalFlush(f) ELSE owed[g][t]
    <3>1. owed'[g] = [owed[g] EXCEPT ![h] = @ \ LocalFlush(f)]
      BY ZenonT(30) DEF Flush
    <3> QED BY <3>1, ZenonT(30) DEF Owing
  <2>2. W \in SUBSET {g \in Harts : h \in OwedBy[g]}
    BY ZenonT(30) DEF OwedBy
  <2>3. ASSUME NEW g \in Harts
        PROVE  {t \in Harts : owed'[g][t] # {}}
                   = IF g \in W THEN OwedBy[g] \ {h} ELSE OwedBy[g]
    <3>1. ASSUME NEW t \in Harts
          PROVE  owed'[g][t] # {} <=> owed[g][t] # {} /\ ~(g \in W /\ t = h)
      BY <2>1, ZenonT(30)
    <3>2. OwedBy[g] = {t \in Harts : owed[g][t] # {}}
      BY ZenonT(30) DEF OwedBy
    <3> HIDE DEF W
    <3>3. CASE g \in W
      BY <3>1, <3>2, <3>3, ZenonT(30)
    <3>4. CASE g \notin W
      BY <3>1, <3>2, <3>4, ZenonT(30)
    <3> QED BY <3>3, <3>4, ZenonT(30)
  <2> HIDE DEF W
  <2>4. OwedBy' = [g \in Harts |-> IF g \in W THEN OwedBy[g] \ {h} ELSE OwedBy[g]]
    BY <2>3, ZenonT(30) DEF OwedBy
  <2> QED BY <2>2, <2>4, ZenonT(30) DEF Service!Flush
<1>StepRefines.
      ASSUME TypeInv, PayInv, NEW h \in Harts, Step(h)
      PROVE  Service!Next \/ UNCHANGED Service!vars
  <2> USE <1>StepRefines
  <2>a. TypeOK /\ Flow(h) /\ Debts(h) /\ Owing
    BY ZenonT(30) DEF TypeInv, PayInv
  <2>b. event[h] \in {"smode", "tlb"} /\ back[h] \in {"smode", "enqueue", "sync"}
    BY <2>a, TypeParts, ZenonT(30)
  <2>c. ASSUME UNCHANGED owed, Asking' = Asking PROVE UNCHANGED Service!vars
    BY <2>c, ZenonT(30) DEF OwedBy, Service!vars
  <2>d. ASSUME NEW f, Flush(h, f), Asking' = Asking PROVE Service!Next
    BY <2>a, <2>d, <1>FlushMaps, ZenonT(30) DEF Service!Next
  <2> USE Domains
  <2>1. CASE RequestFence(h)
    <3>1. PICK r \in Requests[h], m \in Masks[h] :
              owed' = [owed EXCEPT ![h] = [t \in Harts |-> IF t \in m THEN LocalFlush(r) ELSE {}]]
      BY <2>1, ZenonT(30) DEF RequestFence
    <3>2. pc[h] = "smode" /\ todo[h] = {} /\ pc'[h] = "send" /\ event'[h] = "tlb"
      BY <2>a, <2>1, ZenonT(30) DEF RequestFence, Flow
    <3>3. h \notin Asking /\ Asking' = Asking \cup {h}
      <4>1. h \notin Asking /\ h \in Asking'
        BY <3>2, ZenonT(30) DEF Asking
      <4>2. Asking \subseteq Harts /\ Asking' \subseteq Harts
        BY ZenonT(30) DEF Asking
      <4> QED BY <2>a, <4>1, <4>2, <1>AskingStep, ZenonT(30)
    <3>4. \A g \in Harts : g # h => owed'[g] = owed[g]
      BY <2>a, <3>1, ZenonT(30) DEF Owing
    <3>5. OwedBy' = [OwedBy EXCEPT ![h] = {t \in Harts : owed'[h][t] # {}}]
      BY <3>4, ZenonT(30) DEF OwedBy
    <3>6. Service!Ask(h)
      BY <3>3, <3>5, ZenonT(30) DEF Service!Ask
    <3> QED BY <3>6, ZenonT(30) DEF Service!Next
  <2>2. CASE RequestIpi(h)
    <3>1. pc[h] = "smode" /\ todo[h] = {} /\ event'[h] = "smode" /\ UNCHANGED owed
      BY <2>a, <2>2, ZenonT(30) DEF RequestIpi, Flow
    <3>2. h \notin Asking /\ h \notin Asking'
      BY <3>1, ZenonT(30) DEF Asking
    <3> QED BY <2>a, <2>c, <3>1, <3>2, <1>AskingStep, ZenonT(30)
  <2>3. CASE ClearSmode(h)
    BY <2>a, <2>c, <2>3, <1>AskingKept, ZenonT(30) DEF ClearSmode, hart
  <2>4. CASE SendReturn(h)
    <3>1. /\ pc[h] = "send" /\ todo[h] = {} /\ pc'[h] = "smode" /\ todo'[h] = {}
          /\ event'[h] = event[h] /\ UNCHANGED owed
      BY <2>a, <2>4, ZenonT(30) DEF SendReturn
    <3>2. CASE event[h] = "tlb"
      <4>1. h \in Asking /\ h \notin Asking' /\ Asking \subseteq Harts /\ Asking' \subseteq Harts
        BY <3>1, <3>2, ZenonT(30) DEF Asking
      <4>2. Asking' = Asking \ {h}
        BY <2>a, <4>1, <1>AskingStep, ZenonT(30)
      <4>3. OwedBy[h] = {} /\ OwedBy' = OwedBy
        BY <2>a, <3>1, ZenonT(30) DEF Debts, OwedBy
      <4>4. Service!Finish(h)
        BY <4>1, <4>2, <4>3, ZenonT(30) DEF Service!Finish
      <4> QED BY <4>4, ZenonT(30) DEF Service!Next
    <3>3. CASE event[h] = "smode"
      <4>1. h \notin Asking /\ h \notin Asking'
        BY <3>1, <3>3, ZenonT(30) DEF Asking
      <4> QED BY <2>a, <2>c, <3>1, <4>1, <1>AskingStep, ZenonT(30)
    <3> QED BY <2>b, <3>2, <3>3, ZenonT(30)
  <2>5. CASE SendPlain(h)
    BY <2>a, <2>c, <2>5, <1>AskingKept, ZenonT(30) DEF SendPlain
  <2>6. CASE UpdateSelf(h)
    <3>1. /\ pc[h] = "send" /\ pc'[h] = "send" /\ event'[h] = event[h]
          /\ Flush(h, Upgrade(tinfo[h]))
      BY <2>a, <2>6, ZenonT(30) DEF UpdateSelf, Served
    <3>2. Asking' = Asking
      BY <2>a, <3>1, <1>AskingKept, ZenonT(30)
    <3> QED BY <2>d, <3>1, <3>2, ZenonT(30)
  <2>7. CASE UpdateRemote(h)
    BY <2>a, <2>c, <2>7, <1>AskingKept, ZenonT(30) DEF UpdateRemote
  <2>8. CASE EnqueueFence(h)
    BY <2>a, <2>c, <2>8, <1>AskingKept, ZenonT(30) DEF EnqueueFence, Flow
  <2>9. CASE SetType(h)
    BY <2>a, <2>c, <2>9, <1>AskingKept, ZenonT(30) DEF SetType, Flow
  <2>10. CASE Raise(h)
    <3>1. pc[h] = "raise" /\ todo[h] # {} /\ UNCHANGED <<event, owed>>
      BY <2>a, <2>10, ZenonT(30) DEF Raise, Flow
    <3>2. CASE event[h] = "tlb"
      BY <2>a, <2>c, <2>10, <3>1, <3>2, <1>AskingKept, ZenonT(30) DEF Raise
    <3>3. CASE event[h] = "smode"
      <4>1. h \notin Asking /\ h \notin Asking'
        BY <3>1, <3>3, ZenonT(30) DEF Asking
      <4> QED BY <2>a, <2>c, <3>1, <4>1, <1>AskingStep, ZenonT(30)
    <3> QED BY <2>b, <3>2, <3>3, ZenonT(30)
  <2>11. CASE Sync(h)
    <3>1. /\ pc[h] = "sync" /\ todo[h] # {} /\ UNCHANGED <<event, owed>>
          /\ pc'[h] = "send" \/ UNCHANGED todo
      BY <2>a, <2>11, ZenonT(30) DEF Sync, Served, Flow
    <3>2. Asking' = Asking
      BY <2>a, <3>1, <1>AskingKept, ZenonT(30)
    <3> QED BY <2>c, <3>1, <3>2, ZenonT(30)
  <2>12. CASE IpiClear(h)
    BY <2>a, <2>c, <2>12, <1>AskingKept, ZenonT(30) DEF IpiClear
  <2>13. CASE IpiTake(h)
    <3>1. /\ pc[h] = "take" /\ pc'[h] \in {"dequeue", "smode"}
          /\ UNCHANGED <<event, todo, owed>>
      BY <2>a, <2>13, ZenonT(30) DEF IpiTake
    <3>2. Asking' = Asking
      BY <2>a, <3>1, <1>AskingKept, ZenonT(30)
    <3> QED BY <2>c, <3>1, <3>2, ZenonT(30)
  <2>14. CASE DequeueFence(h)
    <3>1. /\ pc[h] = "dequeue" /\ pc'[h] = "signal" /\ UNCHANGED <<event, todo>>
          /\ Flush(h, Oldest(fifo[h]))
      BY <2>a, <2>14, ZenonT(30) DEF DequeueFence
    <3>2. Asking' = Asking
      BY <2>a, <3>1, <1>AskingKept, ZenonT(30)
    <3> QED BY <2>d, <3>1, <3>2, ZenonT(30)
  <2>15. CASE ProcessReturn(h)
    <3>1. /\ pc[h] = "dequeue" /\ pc'[h] = back[h] /\ UNCHANGED <<event, todo, owed>>
      BY <2>a, <2>15, ZenonT(30) DEF ProcessReturn
    <3>2. Asking' = Asking
      BY <2>a, <2>b, <3>1, <1>AskingKept, ZenonT(30)
    <3> QED BY <2>c, <3>1, <3>2, ZenonT(30)
  <2>16. CASE Signal(h)
    <3>1. /\ pc[h] = "signal" /\ pc'[h] \in {"dequeue", "signal"} /\ UNCHANGED <<event, todo, owed>>
      BY <2>a, <2>16, ZenonT(30) DEF Signal
    <3>2. Asking' = Asking
      BY <2>a, <3>1, <1>AskingKept, ZenonT(30)
    <3> QED BY <2>c, <3>1, <3>2, ZenonT(30)
  <2> QED
    BY <2>1, <2>2, <2>3, <2>4, <2>5, <2>6, <2>7, <2>8, <2>9, <2>10, <2>11, <2>12, <2>13, <2>14, <2>15, <2>16, ZenonT(30)
    DEF Step, Firmware, Kernel
<1>1. Init => Service!Init
  BY DEF Init, Service!Init, Asking, OwedBy
<1>2. TypeInv /\ PayInv /\ [Next]_vars => [Service!Next]_(Service!vars)
  <2> SUFFICES ASSUME TypeInv, PayInv, [Next]_vars PROVE [Service!Next]_(Service!vars)
    BY ZenonT(30)
  <2>1. CASE Next
    BY <2>1, <1>StepRefines, ZenonT(30) DEF Next, Step
  <2>2. CASE UNCHANGED vars
    BY <2>2, ZenonT(30) DEF vars, hart, Service!vars, Asking, OwedBy
  <2> QED BY <2>1, <2>2, ZenonT(30)
<1> QED BY <1>1, <1>2, TypeInvHolds, PayInvHolds, PTL DEF Spec, ImplementsService, Service!Spec

-----------------------------------------------------------------------------
(* The theorems about the protocol.                                          *)

INSTANCE WellFoundedInduction

\* A mask that is not empty has a least hart.
LEMMA FirstIn == FirstIsLeast
<1> SUFFICES ASSUME NEW S \in SUBSET Nat, S # {}
             PROVE  First(S) \in S /\ \A g \in S : First(S) <= g
  BY ZenonT(30) DEF FirstIsLeast
<1> DEFINE R == {ss \in Nat \X Nat : ss[1] < ss[2]}
<1>1. IsWellFoundedOn(R, Nat)
  BY NatLessThanWellFounded, ZenonT(30) DEF OpToRel
<1>2. \E x \in S : \A y \in S : ~(<<y, x>> \in R)
  <2> HIDE DEF R
  <2> QED BY <1>1, WFMin, ZenonT(30)
<1>3. PICK x \in S : \A y \in S : ~(<<y, x>> \in R)
  BY <1>2, ZenonT(30)
<1>4. ASSUME NEW y \in S PROVE x <= y
  <2>1. x \in Nat /\ y \in Nat
    BY ZenonT(30)
  <2>2. <<y, x>> \in Nat \X Nat /\ ~(y < x)
    BY <1>3, <2>1, ZenonT(30)
  <2> QED BY <2>1, <2>2
<1>5. \E h \in S : \A g \in S : h <= g
  BY <1>4, ZenonT(30)
<1> QED BY <1>5, ZenonT(30) DEF First

\* Every variable of the protocol keeps its type: no fifo holds more than
\* SBI_TLB_FIFO_NUM_ENTRIES entries, whatever the harts ask for and in whichever
\* order sbi_tlb_request, tlb_process and sbi_ipi_process interleave.
THEOREM TypeCorrect == Spec => []TypeOK
<1>1. TypeInv => TypeOK
  BY ZenonT(30) DEF TypeInv
<1> QED BY <1>1, FirstIn, TypeInvHolds, PTL

\* No wake-up is lost, for any number of harts and any interleaving of the two
\* writes of sbi_ipi_send with the two reads of sbi_ipi_process.
THEOREM NoLostWakeupHolds == Spec => []NoLostWakeup
BY FirstIn, WakeupsKept, PTL

\* Whenever tlb_entry_process exchanges a sync word for 1, the word is 0 and its
\* hart waits for this very target.
THEOREM SignalsReachWaitersHolds == Spec => []SignalsReachWaiters
<1>1. TypeInv /\ TokenInv => SignalsReachWaiters
  <2> SUFFICES ASSUME TypeInv, TokenInv, NEW h \in Harts, pc[h] = "signal"
               PROVE  LET r == First(signal[h]) IN tlb_sync[r] = 0 /\ Waiting(r) /\ Target(r) = h
    BY ZenonT(30) DEF SignalsReachWaiters
  <2>1. signal[h] # {} /\ signal[h] \in SUBSET Nat /\ signal[h] \subseteq Harts
    BY TypeParts, FenceAssumption, ZenonT(30) DEF TypeInv, Flow
  <2>2. First(signal[h]) \in signal[h] /\ First(signal[h]) \in Harts
    BY <2>1, FirstIn, ZenonT(30) DEF FirstIsLeast
  <2> QED BY <2>2, ZenonT(30) DEF TokenInv, Token, Expects
<1> QED BY <1>1, FirstIn, TypeInvHolds, TokenInvHolds, PTL

\* When the kernels ask for ordinary ranges (not empty, on a page boundary, not
\* up to the last address, or beyond the flush limit), a remote fence has
\* happened on every hart of the mask when sbi_tlb_request returns: for every
\* number of harts, every size of the fifos, and all interleavings of senders,
\* receivers and waiters, with the entries that tlb_update merged, tlb_process
\* flushed upgraded, or tlb_process_count served while waiting.
THEOREM RemoteFenceImplementsService ==
    ASSUME AllOrdinary
    PROVE  Spec => ImplementsService
BY FirstIn, StepsRefine, PTL

=============================================================================
