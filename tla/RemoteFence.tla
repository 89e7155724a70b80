----------------------------- MODULE RemoteFence ----------------------------
(***************************************************************************)
(* Remote fences and inter-processor interrupts of the firmware the TPM    *)
(* lives in: sbi_tlb.c, sbi_ipi.c and sbi_fifo.c.  A hart that asks for a  *)
(* remote fence queues it in the fifo of every target hart in turn, raises *)
(* an interrupt there and spins on its own tlb_sync word until the target  *)
(* has flushed.  While it spins it serves its own fifo.                    *)
(*                                                                         *)
(* Every hart is a sequential program (pc); a step is one operation that   *)
(* other harts can see: a fifo operation, an atomic exchange, a write to   *)
(* the interrupt device.  A flush changes the flushing hart's own TLB      *)
(* only, so it is part of the step that dequeued the entry.                *)
(***************************************************************************)
EXTENDS SbiFifo, FiniteSets

CONSTANTS Harts,        \* hart ids
          Asids, Vmids, \* address spaces told apart
          ADDR_MOD,     \* 2^XLEN
          PAGE_SIZE,
          FlushLimit,   \* tlb_range_flush_limit
          Requests,     \* bound: the fences the kernel of each hart asks for
          Masks,        \* bound: the hart masks it names with them
          IpiSenders,   \* bound: harts whose kernel sends interrupts to other kernels
          MaxCalls      \* bound: ecalls per hart

FLUSH_ALL == ADDR_MOD - 1

LocalFns == {"fence_i", "sfence_vma", "sfence_vma_asid", "hfence_gvma", "hfence_gvma_vmid",
              "hfence_vvma", "hfence_vvma_asid"}

Fences == [local_fn : LocalFns, start : 0 .. ADDR_MOD - 1, size : 0 .. ADDR_MOD - 1,
           asid : Asids, vmid : Vmids]

ASSUME FenceAssumption ==
    /\ Harts \subseteq Nat /\ IsFiniteSet(Harts)
    /\ ADDR_MOD \in Nat \ {0} /\ PAGE_SIZE \in Nat \ {0} /\ FlushLimit \in Nat
    /\ Asids # {} /\ Vmids # {}
    /\ Requests \in [Harts -> SUBSET Fences]
    /\ Masks \in [Harts -> SUBSET SUBSET Harts]
    /\ IpiSenders \subseteq Harts
    /\ MaxCalls \in Nat

\* struct sbi_tlb_info: a fence and the harts that wait for it
Info == [local_fn : LocalFns, start : 0 .. ADDR_MOD - 1, size : 0 .. ADDR_MOD - 1,
         asid : Asids, vmid : Vmids, smask : SUBSET Harts]

TlbInfo(r, smask) == [local_fn |-> r.local_fn, start |-> r.start, size |-> r.size,
                      asid |-> r.asid, vmid |-> r.vmid, smask |-> smask]

VARIABLES
    fifo,      \* tlb_fifo of each hart
    tlb_sync,  \* its sync word
    ipi_type,  \* its ipi_data: events set and not yet taken
    msip,      \* its pending bit in the interrupt device
    ssip,      \* mip.SSIP, the interrupt its kernel sees
    pc,        \* where its firmware is
    tinfo,     \* the fence it is asking for
    event,     \* the event it is sending
    todo,      \* harts of the mask still to be served, the current target first
    back,      \* what called tlb_process or tlb_process_count
    left,      \* entries tlb_process_count may still take
    signal,    \* smask of the entry in hand, harts not signalled yet
    calls,     \* ecalls made
    owed       \* history: for the fence a hart asks for, what each target must still flush

hart == <<pc, tinfo, event, todo, back, left, signal, calls>>
vars == <<fifo, tlb_sync, ipi_type, msip, ssip, hart, owed>>

First(S) == CHOOSE h \in S : \A g \in S : h <= g
Target(h) == First(todo[h])

-----------------------------------------------------------------------------
(* What the local functions flush.  An item of a TLB is a page of an address *)
(* space; the instruction cache is one item.                                 *)

Pages == {a \div PAGE_SIZE : a \in 0 .. ADDR_MOD - 1}

\* for (i = 0; i < size; i += PAGE_SIZE) flush(start + i)
RangePages(f) == {((f.start + i) % ADDR_MOD) \div PAGE_SIZE :
                     i \in {j \in 0 .. f.size - 1 : j % PAGE_SIZE = 0}}

Unbounded(f)    == f.start = 0 /\ f.size = 0
PagesFlushed(f) == IF Unbounded(f) \/ f.size = FLUSH_ALL THEN Pages ELSE RangePages(f)
AsidsFlushed(f) == IF Unbounded(f) THEN Asids ELSE {f.asid}
VmidsFlushed(f) == IF Unbounded(f) THEN Vmids ELSE {f.vmid}

LocalFlush(f) ==
    CASE f.local_fn = "fence_i"          -> {<<"icache">>}
      [] f.local_fn = "sfence_vma"       -> {"vma"} \X Asids \X PagesFlushed(f)
      [] f.local_fn = "sfence_vma_asid"  -> {"vma"} \X AsidsFlushed(f) \X PagesFlushed(f)
      [] f.local_fn = "hfence_gvma"      -> {"gvma"} \X Vmids \X PagesFlushed(f)
      [] f.local_fn = "hfence_gvma_vmid" -> {"gvma"} \X VmidsFlushed(f) \X PagesFlushed(f)
      [] f.local_fn = "hfence_vvma"      -> {"vvma"} \X {f.vmid} \X Asids \X PagesFlushed(f)
      [] f.local_fn = "hfence_vvma_asid" -> {"vvma"} \X {f.vmid} \X AsidsFlushed(f) \X PagesFlushed(f)

\* hart h runs a local function: whoever waited for these items waits no more
Flush(h, f) == owed' = [g \in Harts |-> [owed[g] EXCEPT ![h] = @ \ LocalFlush(f)]]

-----------------------------------------------------------------------------
(* tlb_update_cb: merge the new fence in into the queued entry cur.  The     *)
(* ends of the ranges are unsigned long sums.                                *)

End(f) == (f.start + f.size) % ADDR_MOD

Covers(in, cur)   == in.start <= cur.start /\ End(in) > End(cur)
CoveredBy(in, cur) == ~Covers(in, cur) /\ in.start >= cur.start /\ End(in) <= End(cur)

Mergeable(in, cur) ==
    \/ in.local_fn = "sfence_vma" /\ cur.local_fn = "sfence_vma"
    \/ in.local_fn = "sfence_vma_asid" /\ cur.local_fn = "sfence_vma_asid" /\ in.asid = cur.asid

Merges(in, cur) == Mergeable(in, cur) /\ (Covers(in, cur) \/ CoveredBy(in, cur))

\* mutant: the entry keeps its own range
MutMerged(in, cur) == [cur EXCEPT !.smask = @ \cup in.smask]

Merged(in, cur) ==
    [cur EXCEPT !.start = IF Covers(in, cur) THEN in.start ELSE @,
                !.size  = IF Covers(in, cur) THEN in.size ELSE @,
                !.smask = @ \cup in.smask]

\* sbi_fifo_inplace_update: positions of the entries the callback would change
Candidates(f, in) == {i \in 0 .. f.avail - 1 : Merges(in, f.queue[Slot(f, i)])}

InplaceUpdate(f, in) ==
    LET i == First(Candidates(f, in)) IN Replace(f, i, Merged(in, f.queue[Slot(f, i)]))

\* a range beyond the limit becomes a flush of everything
Upgrade(f) == IF f.size > FlushLimit THEN [f EXCEPT !.start = 0, !.size = FLUSH_ALL] ELSE f

-----------------------------------------------------------------------------
(* The kernel of hart h makes an ecall: a remote fence (sbi_tlb_request) or  *)
(* an interrupt for other kernels (sbi_ipi_send_smode).  All harts are       *)
(* started, so the interruptible mask leaves the hart mask as it is.         *)

NoInfo == TlbInfo([local_fn |-> "fence_i", start |-> 0, size |-> 0,
                   asid |-> CHOOSE a \in Asids : TRUE, vmid |-> CHOOSE v \in Vmids : TRUE], {})

RequestFence(h) ==
    /\ pc[h] = "smode" /\ calls[h] < MaxCalls
    /\ \E r \in Requests[h], m \in Masks[h] :
          /\ tinfo' = [tinfo EXCEPT ![h] = TlbInfo(r, {h})]
          /\ todo' = [todo EXCEPT ![h] = m]
          /\ owed' = [owed EXCEPT ![h] = [t \in Harts |-> IF t \in m THEN LocalFlush(r) ELSE {}]]
    /\ event' = [event EXCEPT ![h] = "tlb"]
    /\ pc' = [pc EXCEPT ![h] = "send"]
    /\ calls' = [calls EXCEPT ![h] = @ + 1]
    /\ UNCHANGED <<fifo, tlb_sync, ipi_type, msip, ssip, back, left, signal>>

RequestIpi(h) ==
    /\ h \in IpiSenders
    /\ pc[h] = "smode" /\ calls[h] < MaxCalls
    /\ \E m \in Masks[h] : todo' = [todo EXCEPT ![h] = m]
    /\ event' = [event EXCEPT ![h] = "smode"]
    /\ pc' = [pc EXCEPT ![h] = "send"]
    /\ calls' = [calls EXCEPT ![h] = @ + 1]
    /\ UNCHANGED <<fifo, tlb_sync, ipi_type, msip, ssip, tinfo, back, left, signal, owed>>

\* the kernel of h takes its own software interrupt
ClearSmode(h) ==
    /\ pc[h] = "smode" /\ ssip[h]
    /\ ssip' = [ssip EXCEPT ![h] = FALSE]
    /\ UNCHANGED <<fifo, tlb_sync, ipi_type, msip, hart, owed>>

-----------------------------------------------------------------------------
(* sbi_ipi_send_many and sbi_ipi_send, once for each hart of the mask.       *)

\* the target is served: go on with the next hart of the mask
Served(h) ==
    /\ todo' = [todo EXCEPT ![h] = @ \ {Target(h)}]
    /\ pc' = [pc EXCEPT ![h] = "send"]

\* no hart of the mask is left: the ecall returns
SendReturn(h) ==
    /\ pc[h] = "send" /\ todo[h] = {}
    /\ pc' = [pc EXCEPT ![h] = "smode"]
    /\ tinfo' = [tinfo EXCEPT ![h] = NoInfo]
    /\ UNCHANGED <<fifo, tlb_sync, ipi_type, msip, ssip, event, todo, back, left, signal, calls, owed>>

\* an event without an update operation
SendPlain(h) ==
    /\ pc[h] = "send" /\ todo[h] # {} /\ event[h] = "smode"
    /\ pc' = [pc EXCEPT ![h] = "type"]
    /\ UNCHANGED <<fifo, tlb_sync, ipi_type, msip, ssip, tinfo, event, todo, back, left, signal, calls, owed>>

\* tlb_update for the hart itself: flush, and no interrupt is sent
UpdateSelf(h) ==
    /\ pc[h] = "send" /\ todo[h] # {} /\ event[h] = "tlb" /\ Target(h) = h
    /\ tinfo' = [tinfo EXCEPT ![h] = Upgrade(@)]
    /\ Flush(h, Upgrade(tinfo[h]))
    /\ Served(h)
    /\ UNCHANGED <<fifo, tlb_sync, ipi_type, msip, ssip, event, back, left, signal, calls>>

\* tlb_update for another hart: merge with an entry of its fifo if possible
UpdateRemote(h) ==
    LET t == Target(h)
        in == Upgrade(tinfo[h]) IN
    /\ pc[h] = "send" /\ todo[h] # {} /\ event[h] = "tlb" /\ t # h
    /\ tinfo' = [tinfo EXCEPT ![h] = in]
    /\ \/ /\ Candidates(fifo[t], in) # {}
          /\ fifo' = [fifo EXCEPT ![t] = InplaceUpdate(@, in)]
          /\ pc' = [pc EXCEPT ![h] = "type"]
       \/ /\ Candidates(fifo[t], in) = {}
          /\ pc' = [pc EXCEPT ![h] = "enqueue"]
          /\ UNCHANGED fifo
    /\ UNCHANGED <<tlb_sync, ipi_type, msip, ssip, event, todo, back, left, signal, calls, owed>>

\* tlb_process_count(scratch, 1): up to two entries of its own fifo
ProcessCount(h, caller) ==
    /\ pc' = [pc EXCEPT ![h] = "dequeue"]
    /\ back' = [back EXCEPT ![h] = caller]
    /\ left' = [left EXCEPT ![h] = 2]

\* mutant: no test for a full fifo
MutEnqueueFence(h) ==
    /\ pc[h] = "enqueue"
    /\ fifo' = [fifo EXCEPT ![Target(h)] = Enqueue(@, tinfo[h])]
    /\ pc' = [pc EXCEPT ![h] = "type"]
    /\ UNCHANGED <<tlb_sync, ipi_type, msip, ssip, tinfo, event, todo, back, left, signal, calls, owed>>

EnqueueFence(h) ==
    LET t == Target(h) IN
    /\ pc[h] = "enqueue"
    /\ \/ /\ ~IsFull(fifo[t])
          /\ fifo' = [fifo EXCEPT ![t] = Enqueue(@, tinfo[h])]
          /\ pc' = [pc EXCEPT ![h] = "type"]
          /\ UNCHANGED <<back, left>>
       \/ /\ IsFull(fifo[t])
          /\ ProcessCount(h, "enqueue")
          /\ UNCHANGED fifo
    /\ UNCHANGED <<tlb_sync, ipi_type, msip, ssip, tinfo, event, todo, signal, calls, owed>>

SetType(h) ==
    /\ pc[h] = "type"
    /\ ipi_type' = [ipi_type EXCEPT ![Target(h)] = @ \cup {event[h]}]
    /\ pc' = [pc EXCEPT ![h] = "raise"]
    /\ UNCHANGED <<fifo, tlb_sync, msip, ssip, tinfo, event, todo, back, left, signal, calls, owed>>

Raise(h) ==
    /\ pc[h] = "raise"
    /\ msip' = [msip EXCEPT ![Target(h)] = TRUE]
    /\ \/ /\ event[h] = "tlb"
          /\ pc' = [pc EXCEPT ![h] = "sync"]
          /\ UNCHANGED todo
       \/ /\ event[h] = "smode"
          /\ Served(h)
    /\ UNCHANGED <<fifo, tlb_sync, ipi_type, ssip, tinfo, event, back, left, signal, calls, owed>>

\* mutant: the own fifo is not served while waiting
MutSync(h) ==
    /\ pc[h] = "sync" /\ tlb_sync[h] = 1
    /\ tlb_sync' = [tlb_sync EXCEPT ![h] = 0]
    /\ Served(h)
    /\ UNCHANGED <<fifo, ipi_type, msip, ssip, tinfo, event, back, left, signal, calls, owed>>

\* tlb_sync: exchange the sync word for 0; as long as it was 0, serve the own fifo
Sync(h) ==
    /\ pc[h] = "sync"
    /\ \/ /\ tlb_sync[h] = 1
          /\ tlb_sync' = [tlb_sync EXCEPT ![h] = 0]
          /\ Served(h)
          /\ UNCHANGED <<back, left>>
       \/ /\ tlb_sync[h] = 0
          /\ ProcessCount(h, "sync")
          /\ UNCHANGED <<tlb_sync, todo>>
    /\ UNCHANGED <<fifo, ipi_type, msip, ssip, tinfo, event, signal, calls, owed>>

-----------------------------------------------------------------------------
(* The other side: sbi_ipi_process, taken only from the kernel's mode, and   *)
(* the entries of the own fifo.                                              *)

\* the interrupt is cleared before the events are taken
IpiClear(h) ==
    /\ pc[h] = "smode" /\ msip[h]
    /\ msip' = [msip EXCEPT ![h] = FALSE]
    /\ pc' = [pc EXCEPT ![h] = "take"]
    /\ UNCHANGED <<fifo, tlb_sync, ipi_type, ssip, tinfo, event, todo, back, left, signal, calls, owed>>

\* mutant: one event is taken for one interrupt
MutIpiTake(h) ==
    /\ pc[h] = "take"
    /\ LET e == IF "smode" \in ipi_type[h] THEN "smode" ELSE "tlb" IN
          /\ ipi_type' = [ipi_type EXCEPT ![h] = @ \ {e}]
          /\ ssip' = [ssip EXCEPT ![h] = @ \/ e = "smode"]
          /\ pc' = [pc EXCEPT ![h] = IF e = "tlb" THEN "dequeue" ELSE "smode"]
    /\ back' = [back EXCEPT ![h] = "smode"]
    /\ UNCHANGED <<fifo, tlb_sync, msip, tinfo, event, todo, left, signal, calls, owed>>

IpiTake(h) ==
    /\ pc[h] = "take"
    /\ ipi_type' = [ipi_type EXCEPT ![h] = {}]
    /\ ssip' = [ssip EXCEPT ![h] = @ \/ "smode" \in ipi_type[h]]
    /\ \/ /\ "tlb" \in ipi_type[h]
          /\ pc' = [pc EXCEPT ![h] = "dequeue"]
          /\ back' = [back EXCEPT ![h] = "smode"]
       \/ /\ "tlb" \notin ipi_type[h]
          /\ pc' = [pc EXCEPT ![h] = "smode"]
          /\ UNCHANGED back
    /\ UNCHANGED <<fifo, tlb_sync, msip, tinfo, event, todo, left, signal, calls, owed>>

\* tlb_process goes on until the fifo is empty, tlb_process_count stops earlier
MayDequeue(h) == ~IsEmpty(fifo[h]) /\ (back[h] # "smode" => left[h] > 0)

DequeueFence(h) ==
    /\ pc[h] = "dequeue" /\ MayDequeue(h)
    /\ fifo' = [fifo EXCEPT ![h] = Dequeue(@)]
    /\ Flush(h, Oldest(fifo[h]))
    /\ signal' = [signal EXCEPT ![h] = Oldest(fifo[h]).smask]
    /\ left' = [left EXCEPT ![h] = IF back[h] = "smode" THEN @ ELSE @ - 1]
    /\ pc' = [pc EXCEPT ![h] = "signal"]
    /\ UNCHANGED <<tlb_sync, ipi_type, msip, ssip, tinfo, event, todo, back, calls>>

ProcessReturn(h) ==
    /\ pc[h] = "dequeue" /\ ~MayDequeue(h)
    /\ pc' = [pc EXCEPT ![h] = back[h]]
    /\ back' = [back EXCEPT ![h] = "smode"]
    /\ left' = [left EXCEPT ![h] = 0]
    /\ UNCHANGED <<fifo, tlb_sync, ipi_type, msip, ssip, tinfo, event, todo, signal, calls, owed>>

\* while (atomic_raw_xchg_ulong(rtlb_sync, 1)): wait until the word was 0
Signal(h) ==
    /\ pc[h] = "signal"
    /\ LET r == First(signal[h]) IN
          /\ tlb_sync[r] = 0
          /\ tlb_sync' = [tlb_sync EXCEPT ![r] = 1]
          /\ signal' = [signal EXCEPT ![h] = @ \ {r}]
          /\ pc' = [pc EXCEPT ![h] = IF signal[h] = {r} THEN "dequeue" ELSE "signal"]
    /\ UNCHANGED <<fifo, ipi_type, msip, ssip, tinfo, event, todo, back, left, calls, owed>>

-----------------------------------------------------------------------------
Init ==
    /\ fifo = [h \in Harts |-> FifoInit]
    /\ tlb_sync = [h \in Harts |-> 0]
    /\ ipi_type = [h \in Harts |-> {}]
    /\ msip = [h \in Harts |-> FALSE]
    /\ ssip = [h \in Harts |-> FALSE]
    /\ pc = [h \in Harts |-> "smode"]
    /\ tinfo = [h \in Harts |-> NoInfo]
    /\ event = [h \in Harts |-> "tlb"]
    /\ todo = [h \in Harts |-> {}]
    /\ back = [h \in Harts |-> "smode"]
    /\ left = [h \in Harts |-> 0]
    /\ signal = [h \in Harts |-> {}]
    /\ calls = [h \in Harts |-> 0]
    /\ owed = [h \in Harts |-> [t \in Harts |-> {}]]

\* a hart in the firmware runs on; one in its kernel takes a pending interrupt
Firmware(h) ==
    \/ SendReturn(h) \/ SendPlain(h) \/ UpdateSelf(h) \/ UpdateRemote(h) \/ EnqueueFence(h)
    \/ SetType(h) \/ Raise(h) \/ Sync(h)
    \/ IpiClear(h) \/ IpiTake(h) \/ DequeueFence(h) \/ ProcessReturn(h) \/ Signal(h)

Kernel(h) == RequestFence(h) \/ RequestIpi(h) \/ ClearSmode(h)

Next == \E h \in Harts : Firmware(h) \/ Kernel(h)

Fairness == \A h \in Harts : WF_vars(Firmware(h))

Spec == Init /\ [][Next]_vars /\ Fairness

-----------------------------------------------------------------------------
TypeOK ==
    /\ fifo \in [Harts -> Fifos(Info)]
    /\ tlb_sync \in [Harts -> {0, 1}]
    /\ ipi_type \in [Harts -> SUBSET {"smode", "tlb"}]
    /\ msip \in [Harts -> BOOLEAN]
    /\ ssip \in [Harts -> BOOLEAN]
    /\ pc \in [Harts -> {"smode", "send", "enqueue", "type", "raise", "sync", "take", "dequeue", "signal"}]
    /\ tinfo \in [Harts -> Info]
    /\ event \in [Harts -> {"smode", "tlb"}]
    /\ todo \in [Harts -> SUBSET Harts]
    /\ back \in [Harts -> {"smode", "enqueue", "sync"}]
    /\ left \in [Harts -> 0 .. 2]
    /\ signal \in [Harts -> SUBSET Harts]
    /\ calls \in [Harts -> 0 .. MaxCalls]

\* No wake-up is lost between the sender's two writes (the event, then the
\* interrupt) and the target's two reads (the interrupt, then the events): an
\* event that is set will be taken, because the interrupt is pending, is about
\* to be raised, or has just been taken.
NoLostWakeup ==
    \A t \in Harts :
        ipi_type[t] # {} =>
            \/ msip[t]
            \/ pc[t] = "take"
            \/ \E h \in Harts : pc[h] = "raise" /\ Target(h) = t

\* The detailed protocol implements the service: a remote fence has happened
\* when the ecall returns, merged, upgraded and skipped entries included.  The
\* fence of h is under way from the ecall to its return, and t owes h a flush as
\* long as it has not flushed, after the request was made, all that the requested
\* function flushes.
Asking == {h \in Harts : event[h] = "tlb" /\ (pc[h] = "send" \/ todo[h] # {})}
OwedBy == [h \in Harts |-> {t \in Harts : owed[h][t] # {}}]

Service == INSTANCE FenceService WITH asking <- Asking, owing <- OwedBy

ImplementsService == Service!Spec

\* Every ecall returns: no ring of harts waiting in tlb_sync, in a full fifo or
\* on each other's sync word lasts.
CallsReturn == \A h \in Harts : pc[h] = "send" ~> pc[h] = "smode"

=============================================================================
