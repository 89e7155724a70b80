------------------------------- MODULE SbiFifo ------------------------------
(***************************************************************************)
(* The ring of lib/sbi/sbi_fifo.c.  A fifo is a record: queue holds        *)
(* num_entries slots, tail is the slot of the oldest entry and avail the   *)
(* number of entries in use.  Each operation runs under fifo->qlock, so it *)
(* is one function from a fifo to a fifo.  The bytes a dequeued entry      *)
(* leaves behind are never read; the slot is shown as Free.                *)
(***************************************************************************)
EXTENDS Integers, Sequences

CONSTANTS NumEntries,  \* SBI_TLB_FIFO_NUM_ENTRIES
          Free         \* the content of a slot that is not in use

ASSUME NumEntriesAssumption == NumEntries \in Nat \ {0}

Fifos(E) == [queue : [0 .. NumEntries - 1 -> E \cup {Free}],
             avail : 0 .. NumEntries,
             tail  : 0 .. NumEntries - 1]

FifoInit == [queue |-> [i \in 0 .. NumEntries - 1 |-> Free], avail |-> 0, tail |-> 0]

IsFull(f)  == f.avail = NumEntries
IsEmpty(f) == f.avail = 0

\* slot of the i-th entry, counted from 0
Slot(f, i) == IF f.tail + i >= NumEntries THEN (f.tail + i) - NumEntries ELSE f.tail + i

Enqueue(f, e) == [queue |-> [f.queue EXCEPT ![Slot(f, f.avail)] = e],
                  avail |-> f.avail + 1,
                  tail  |-> f.tail]

Oldest(f)  == f.queue[f.tail]
Dequeue(f) == [queue |-> [f.queue EXCEPT ![f.tail] = Free],
               avail |-> f.avail - 1,
               tail  |-> IF f.tail + 1 >= NumEntries THEN 0 ELSE f.tail + 1]

\* the callback changed the i-th entry to e
Replace(f, i, e) == [f EXCEPT !.queue = [@ EXCEPT ![Slot(f, i)] = e]]
=============================================================================
