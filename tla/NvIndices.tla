----------------------------- MODULE NvIndices ------------------------------
(***************************************************************************)
(* The dynamic NV area: indices, their RAM-backed (orderly) data and       *)
(* persistent objects (NVDynamic.c, NVCommands.c, NV_spt.c), with the      *)
(* commands that change them, TPM2_Startup, TPM2_Shutdown and the loss of  *)
(* power.                                                                  *)
(*                                                                         *)
(* One action is one command up to the commit at the end of ExecuteCommand;*)
(* NvPersistence shows what a power failure inside the commit does.  Power *)
(* lost before the commit leaves the card as it was before the command.    *)
(* Authorization is taken as given.  NV is available, since TPM2_Startup   *)
(* refuses to run otherwise.                                               *)
(*                                                                         *)
(* An integer index (counter, bits, extend) has a number for its data: the *)
(* count, the one bit told apart, the length of the hash chain.  The data  *)
(* of an ordinary or PIN index are two halves that TPM2_NV_Write may write *)
(* separately.                                                             *)
(***************************************************************************)
EXTENDS Integers, FiniteSets, FiniteSetsExt

CONSTANTS
    Handles, Persistent,  \* handles of indices and of persistent objects
    Templates,            \* attributes and sizes an index may be asked for
    Values,               \* values of half an index; an erased half is 0
    OrderlyMod,           \* MAX_ORDERLY_COUNT + 1
    MaxCount, MaxChain,   \* bounds: highest count, longest hash chain
    NvSize, RamSize,      \* size of the dynamic area and of s_indexOrderlyRam
    NvHeader, RamHeader,  \* link and NV_INDEX; NV_RAM_HEADER
    EvictSize,            \* NV_EVICT_OBJECT_SIZE
    Terminator,           \* sizeof(NV_LIST_TERMINATOR)
    CounterData,          \* sizeof(UINT64)
    MIN_EVICT_OBJECTS, MIN_COUNTER_INDICES,
    None                  \* no template, no hierarchy

Types == {"counter", "bits", "extend", "ordinary", "pin"}
Hierarchies == {"owner", "endorsement", "platform"}

\* TPMA_NV without the lock and WRITTEN bits, and dataSize.  owner is the
\* complement of PLATFORMCREATE.
Attributes ==
    [nt : Types, size : Nat,
     orderly : BOOLEAN, owner : BOOLEAN, policy_delete : BOOLEAN, clear_stclear : BOOLEAN,
     writedefine : BOOLEAN, write_stclear : BOOLEAN, read_stclear : BOOLEAN, globallock : BOOLEAN]

ASSUME NvIndicesAssumption ==
    /\ IsFiniteSet(Handles) /\ IsFiniteSet(Persistent)
    /\ Templates \subseteq Attributes /\ Values \subseteq Nat
    /\ OrderlyMod \in Nat \ {0} /\ MaxCount \in Nat \ {0} /\ (MaxCount + 1) % OrderlyMod = 0
    /\ MaxChain \in 0 .. MaxCount
    /\ {NvSize, RamSize, NvHeader, RamHeader, EvictSize, Terminator, CounterData} \subseteq Nat
    /\ MIN_EVICT_OBJECTS \in Nat /\ MIN_COUNTER_INDICES \in Nat
    /\ None \notin Templates

VARIABLES
    nv,            \* the list of indices in NV
    backing,       \* NV_INDEX_RAM_DATA, where NV keeps the orderly data
    ram,           \* s_indexOrderlyRam; what power loss leaves of it is not read
    evict,         \* the persistent objects in the list, by hierarchy
    maxCount,      \* the count in the list terminator
    s_maxCounter,  \* its copy in RAM
    orderlyState,  \* gp.orderlyState
    up,            \* TPM2_Startup has run since power on
    retired,       \* history: highest value of a deleted counter
    covered        \* history: halves written since the index was last unwritten

vars == <<nv, backing, ram, evict, maxCount, s_maxCounter, orderlyState, up, retired, covered>>

Halves == {1, 2}
Split(t) == t.nt \in {"ordinary", "pin"}
Erased(t) == IF Split(t) THEN [i \in Halves |-> 0] ELSE 0

Undefined ==
    [tmpl |-> None, written |-> FALSE, writelocked |-> FALSE, readlocked |-> FALSE, data |-> 0]

Defined == {h \in Handles : nv[h].tmpl # None}
Orderly(h) == nv[h].tmpl.orderly
Counter(e) == e.tmpl.nt = "counter"

\* NvGetIndexInfo, NvGetIndexData: RAM has the attributes and data of an
\* orderly index.
Info(h) == IF Orderly(h) THEN ram[h] ELSE nv[h]

-----------------------------------------------------------------------------
(* Space *)

EntrySize(t) == NvHeader + (IF t.orderly THEN 0 ELSE t.size)

Evicted == {p \in Persistent : evict[p] # None}
Counters == {h \in Defined : Counter(nv[h])}

NvGetFreeBytes ==
    NvSize - SumFunction([h \in Defined |-> EntrySize(nv[h].tmpl)])
           - EvictSize * Cardinality(Evicted)

Missing(min, n) == IF n < min THEN min - n ELSE 0

\* Mutant: one object too few is kept room for.
MutNvTestSpace(size, isIndex, isCounter) ==
    size + Terminator
      + (IF isIndex THEN Missing(MIN_EVICT_OBJECTS, Cardinality(Evicted) + 1) * EvictSize ELSE 0)
      + (IF isIndex /\ isCounter THEN 0
         ELSE Missing(MIN_COUNTER_INDICES, Cardinality(Counters)) * (NvHeader + CounterData))
      <= NvGetFreeBytes

\* The link counts in size here, in reserved in the code.
NvTestSpace(size, isIndex, isCounter) ==
    size + Terminator
      + (IF isIndex THEN Missing(MIN_EVICT_OBJECTS, Cardinality(Evicted)) * EvictSize ELSE 0)
      + (IF isIndex /\ isCounter THEN 0
         ELSE Missing(MIN_COUNTER_INDICES, Cardinality(Counters)) * (NvHeader + CounterData))
      <= NvGetFreeBytes

RamUsed == SumFunction([h \in {g \in Defined : Orderly(g)} |-> RamHeader + nv[h].tmpl.size])

NvRamTestSpaceIndex(size) == RamHeader + size <= RamSize - RamUsed

-----------------------------------------------------------------------------
(* The end of ExecuteCommand *)

\* Mutant: a command does not make the TPM disorderly.
MutCleanup(g_clearOrderly, utOrderly) ==
    /\ orderlyState' = orderlyState
    /\ backing' = IF utOrderly THEN ram' ELSE backing

Cleanup(g_clearOrderly, utOrderly) ==
    /\ orderlyState' = IF g_clearOrderly THEN "none" ELSE orderlyState
    /\ backing' = IF utOrderly THEN ram' ELSE backing

-----------------------------------------------------------------------------
(* Definition and deletion *)

\* The checks of NvDefineSpace that concern these attributes.
Definable(t) ==
    /\ t.nt = "counter" => ~t.clear_stclear
    /\ t.nt = "pin" => ~t.globallock /\ ~t.writedefine
    /\ t.clear_stclear => ~t.writedefine
    /\ t.policy_delete => ~t.owner
    /\ t.nt \in {"counter", "bits", "pin"} => t.size = CounterData

\* Mutant: the backing store is not rewritten for the new layout.
MutNV_DefineSpace(h, t) ==
    /\ up /\ h \notin Defined /\ Definable(t)
    /\ NvTestSpace(EntrySize(t), TRUE, t.nt = "counter")
    /\ t.orderly => NvRamTestSpaceIndex(t.size)
    /\ LET e == [Undefined EXCEPT !.tmpl = t, !.data = Erased(t)]
       IN  /\ nv' = [nv EXCEPT ![h] = e]
           /\ ram' = IF t.orderly THEN [ram EXCEPT ![h] = e] ELSE ram
    /\ maxCount' = s_maxCounter
    /\ Cleanup(FALSE, FALSE)
    /\ UNCHANGED <<evict, s_maxCounter, up, retired, covered>>

NV_DefineSpace(h, t) ==
    /\ up /\ h \notin Defined /\ Definable(t)
    /\ NvTestSpace(EntrySize(t), TRUE, t.nt = "counter")
    /\ t.orderly => NvRamTestSpaceIndex(t.size)
    /\ LET e == [Undefined EXCEPT !.tmpl = t, !.data = Erased(t)]
       IN  /\ nv' = [nv EXCEPT ![h] = e]
           /\ ram' = IF t.orderly THEN [ram EXCEPT ![h] = e] ELSE ram
    /\ maxCount' = s_maxCounter
    /\ Cleanup(FALSE, t.orderly)
    /\ UNCHANGED <<evict, s_maxCounter, up, retired, covered>>

\* Mutant: the highest count is not kept up.
MutMaxAfter(H, info) == s_maxCounter

\* NvUpdateMaxCount for the deleted counters that are marked WRITTEN in info.
MaxAfter(H, info) ==
    Max({s_maxCounter} \cup {Info(h).data : h \in {g \in H : Counter(info[g]) /\ info[g].written}})

\* NvDeleteIndex for every index of H, with the attributes in info.
NvDeleteIndex(H, info) ==
    /\ nv' = [h \in Handles |-> IF h \in H THEN Undefined ELSE nv[h]]
    /\ ram' = [h \in Handles |-> IF h \in H THEN Undefined ELSE ram[h]]
    /\ s_maxCounter' = MaxAfter(H, info)
    /\ retired' = Max({retired} \cup
                      {Info(h).data : h \in {g \in H : Counter(nv[g]) /\ Info(g).written}})
    /\ covered' = [h \in Handles |-> IF h \in H THEN {} ELSE covered[h]]

\* TPM2_NV_UndefineSpace, or TPM2_NV_UndefineSpaceSpecial for an index with
\* POLICY_DELETE: NvGetIndexInfo supplies the attributes.
NV_UndefineSpace(h) ==
    /\ up /\ h \in Defined
    /\ NvDeleteIndex({h}, [g \in {h} |-> Info(g)])
    /\ maxCount' = s_maxCounter'
    /\ Cleanup(FALSE, Orderly(h))
    /\ UNCHANGED <<evict, up>>

\* NvFlushHierarchy: the objects of the hierarchies.
FlushObjects(hierarchies) ==
    evict' = [p \in Persistent |-> IF evict[p] \in hierarchies THEN None ELSE evict[p]]

\* TPM2_Clear flushes the owner's indices.  NvFlushHierarchy takes their
\* attributes from NV, not from RAM.
Clear ==
    /\ up
    /\ FlushObjects({"owner", "endorsement"})
    /\ LET H == {h \in Defined : nv[h].tmpl.owner}
       IN  /\ NvDeleteIndex(H, nv)
           /\ maxCount' = IF H = {} /\ evict' = evict THEN maxCount ELSE s_maxCounter'
           /\ Cleanup(TRUE, \E h \in H : Orderly(h))
    /\ UNCHANGED up

\* TPM2_ChangePPS and TPM2_ChangeEPS
ChangeSeed(hierarchy) ==
    /\ up
    /\ FlushObjects({hierarchy})
    /\ maxCount' = IF evict' = evict THEN maxCount ELSE s_maxCounter
    /\ ram' = ram
    /\ Cleanup(TRUE, FALSE)
    /\ UNCHANGED <<nv, s_maxCounter, up, retired, covered>>

\* TPM2_EvictControl makes an object persistent, or deletes a persistent one.
EvictControl(p, hierarchy) ==
    /\ up
    /\ \/ /\ evict[p] = None /\ NvTestSpace(EvictSize, FALSE, FALSE)
          /\ evict' = [evict EXCEPT ![p] = hierarchy]
       \/ /\ evict[p] = hierarchy
          /\ evict' = [evict EXCEPT ![p] = None]
    /\ maxCount' = s_maxCounter
    /\ ram' = ram
    /\ Cleanup(FALSE, FALSE)
    /\ UNCHANGED <<nv, s_maxCounter, up, retired, covered>>

-----------------------------------------------------------------------------
(* Data *)

\* NvWriteIndexData with the data that result; rollover asks for UT_ORDERLY.
NvWriteIndexData(h, data, rollover) ==
    LET e == [Info(h) EXCEPT !.written = TRUE, !.data = data]
    IN  IF Orderly(h)
        THEN /\ ram' = [ram EXCEPT ![h] = e]
             /\ Cleanup(TRUE, rollover \/ (Counter(e) /\ ~Info(h).written))
             /\ UNCHANGED nv
        ELSE /\ nv' = [nv EXCEPT ![h] = e]
             /\ ram' = ram
             /\ Cleanup(FALSE, FALSE)

\* NvWriteAccessChecks
Writable(h) == up /\ h \in Defined /\ ~Info(h).writelocked

\* Mutant: the first write to an index leaves the rest of it as it was.
MutPrior(e) == e.data

\* The contents a write to part of an index is laid over.  Only an ordinary
\* index is cleared at its first write.
Prior(e) == IF e.written \/ e.tmpl.nt # "ordinary" THEN e.data ELSE Erased(e.tmpl)

NV_Write(h, part, v) ==
    /\ Writable(h) /\ Split(nv[h].tmpl)
    /\ NvWriteIndexData(h, [i \in Halves |-> IF i \in part THEN v ELSE Prior(Info(h))[i]], FALSE)
    /\ covered' = [covered EXCEPT ![h] = (IF Info(h).written THEN @ ELSE {}) \cup part]
    /\ UNCHANGED <<evict, maxCount, s_maxCounter, up, retired>>

RolledOver(count) == count % OrderlyMod = 0

NV_Increment(h) ==
    /\ Writable(h) /\ Counter(nv[h])
    /\ LET count == (IF Info(h).written THEN Info(h).data ELSE s_maxCounter) + 1
       IN  /\ count <= MaxCount
           /\ NvWriteIndexData(h, count, RolledOver(count))
    /\ UNCHANGED <<evict, maxCount, s_maxCounter, up, retired, covered>>

NV_Extend(h) ==
    /\ Writable(h) /\ nv[h].tmpl.nt = "extend"
    /\ LET digest == (IF Info(h).written THEN Info(h).data ELSE 0) + 1
       IN  digest <= MaxChain /\ NvWriteIndexData(h, digest, FALSE)
    /\ UNCHANGED <<evict, maxCount, s_maxCounter, up, retired, covered>>

NV_SetBits(h, bits) ==
    /\ Writable(h) /\ nv[h].tmpl.nt = "bits"
    /\ NvWriteIndexData(h, IF Info(h).written /\ Info(h).data = 1 THEN 1 ELSE bits, FALSE)
    /\ UNCHANGED <<evict, maxCount, s_maxCounter, up, retired, covered>>

-----------------------------------------------------------------------------
(* Locks *)

\* NvWriteIndexAttributes: the attributes of an orderly index change in RAM.
NvWriteIndexAttributes(h, e) ==
    /\ IF Orderly(h)
       THEN ram' = [ram EXCEPT ![h] = e] /\ UNCHANGED nv
       ELSE nv' = [nv EXCEPT ![h] = e] /\ ram' = ram
    /\ Cleanup(FALSE, FALSE)
    /\ UNCHANGED <<evict, maxCount, s_maxCounter, up, retired, covered>>

NV_WriteLock(h) ==
    /\ Writable(h)
    /\ nv[h].tmpl.writedefine \/ nv[h].tmpl.write_stclear
    /\ NvWriteIndexAttributes(h, [Info(h) EXCEPT !.writelocked = TRUE])

NV_ReadLock(h) ==
    /\ up /\ h \in Defined /\ ~Info(h).readlocked
    /\ nv[h].tmpl.read_stclear
    /\ NvWriteIndexAttributes(h, [Info(h) EXCEPT !.readlocked = TRUE])

\* NvSetGlobalLock
Locked(e) == IF e.tmpl # None /\ e.tmpl.globallock THEN [e EXCEPT !.writelocked = TRUE] ELSE e

NV_GlobalWriteLock ==
    /\ up
    /\ nv' = [h \in Handles |-> IF h \in Defined /\ ~Orderly(h) THEN Locked(nv[h]) ELSE nv[h]]
    /\ ram' = [h \in Handles |-> Locked(ram[h])]
    /\ Cleanup(FALSE, FALSE)
    /\ UNCHANGED <<evict, maxCount, s_maxCounter, up, retired, covered>>

-----------------------------------------------------------------------------
(* Power *)

\* Mutant: every index is unlocked.
MutNvSetStartupAttributes(e, reset) ==
    [e EXCEPT !.readlocked = FALSE,
              !.written = @ /\ (Counter(e) \/ ~(e.tmpl.clear_stclear \/ (e.tmpl.orderly /\ reset))),
              !.writelocked = FALSE]

NvSetStartupAttributes(e, reset) ==
    LET written == e.written /\ (Counter(e) \/ ~(e.tmpl.clear_stclear \/ (e.tmpl.orderly /\ reset)))
    IN  [e EXCEPT !.readlocked = FALSE,
                  !.written = written,
                  !.writelocked = @ /\ written /\ e.tmpl.writedefine]

\* Mutants: the count goes on from the one saved, or from the next rollover.
MutSetLowerBits(count) == count
MutSetNextBits(count) == count - (count % OrderlyMod) + OrderlyMod

\* count |= MAX_ORDERLY_COUNT
SetLowerBits(count) == count - (count % OrderlyMod) + (OrderlyMod - 1)

\* NvEntityStartup for an orderly index saved as e.
StartOrderly(e, reset) ==
    LET s == NvSetStartupAttributes(e, reset)
    IN  IF Counter(e) /\ orderlyState = "none" THEN [s EXCEPT !.data = SetLowerBits(@)] ELSE s

Shutdown(type) ==
    /\ up
    /\ orderlyState' = type
    /\ backing' = ram
    /\ UNCHANGED <<nv, ram, evict, maxCount, s_maxCounter, up, retired, covered>>

PowerOff ==
    /\ up
    /\ up' = FALSE
    /\ UNCHANGED <<nv, backing, ram, evict, maxCount, s_maxCounter, orderlyState, retired, covered>>

\* TPM2_Startup as far as it concerns NV
Startup(type) ==
    LET reset == orderlyState # "state"
    IN  /\ ~up
        /\ up' = TRUE
        /\ type = "state" => orderlyState = "state"
        /\ s_maxCounter' = maxCount
        /\ IF type = "state"
           THEN ram' = backing /\ UNCHANGED nv
           ELSE /\ nv' = [h \in Handles |->
                             IF h \in Defined /\ ~Orderly(h)
                             THEN NvSetStartupAttributes(nv[h], reset) ELSE nv[h]]
                /\ ram' = [h \in Handles |->
                             IF backing[h].tmpl = None THEN backing[h]
                             ELSE StartOrderly(backing[h], reset)]
        /\ orderlyState' = "none"
        /\ UNCHANGED <<backing, evict, maxCount, retired, covered>>

-----------------------------------------------------------------------------
\* NvManufacture, then the first TPM2_Startup
Init ==
    /\ nv = [h \in Handles |-> Undefined]
    /\ backing = nv
    /\ ram = nv
    /\ evict = [p \in Persistent |-> None]
    /\ maxCount = 0 /\ s_maxCounter = 0
    /\ orderlyState = "none"
    /\ up = TRUE
    /\ retired = 0
    /\ covered = [h \in Handles |-> {}]

Next ==
    \/ \E h \in Handles :
         \/ \E t \in Templates : NV_DefineSpace(h, t)
         \/ NV_UndefineSpace(h)
         \/ \E part \in SUBSET Halves \ {{}}, v \in Values : NV_Write(h, part, v)
         \/ NV_Increment(h)
         \/ NV_Extend(h)
         \/ \E bits \in {0, 1} : NV_SetBits(h, bits)
         \/ NV_WriteLock(h)
         \/ NV_ReadLock(h)
    \/ NV_GlobalWriteLock
    \/ Clear
    \/ \E hierarchy \in {"endorsement", "platform"} : ChangeSeed(hierarchy)
    \/ \E p \in Persistent, hierarchy \in Hierarchies : EvictControl(p, hierarchy)
    \/ \E type \in {"clear", "state"} : Shutdown(type) \/ Startup(type)
    \/ PowerOff

Spec == Init /\ [][Next]_vars

-----------------------------------------------------------------------------
(* Properties *)

Datum(t) == IF Split(t) THEN [Halves -> Values \cup {0}] ELSE 0 .. MaxCount

Admitted(t) ==
    [tmpl : {t}, written : BOOLEAN, writelocked : BOOLEAN, readlocked : BOOLEAN, data : Datum(t)]

Entries == {Undefined} \cup UNION {Admitted(t) : t \in {u \in Templates : Definable(u)}}

\* Every index in NV, in RAM and in the backing store has attributes that
\* NvDefineSpace admits and data of its type.
TypeOK ==
    /\ nv \in [Handles -> Entries] /\ backing \in [Handles -> Entries] /\ ram \in [Handles -> Entries]
    /\ evict \in [Persistent -> Hierarchies \cup {None}]
    /\ {maxCount, s_maxCounter, retired} \subseteq 0 .. MaxCount
    /\ orderlyState \in {"none", "clear", "state"} /\ up \in BOOLEAN
    /\ covered \in [Handles -> SUBSET Halves]

\* The backing store lists exactly the orderly indices of NV, and so does RAM
\* once TPM2_Startup has run: NvRamGetIndex finds every orderly index, also after
\* a crash (NvAddRAM, NvDeleteRAM and UT_ORDERLY).
LayoutMatches ==
    \A h \in Handles :
        LET t == IF h \in Defined /\ Orderly(h) THEN nv[h].tmpl ELSE None
        IN  backing[h].tmpl = t /\ (up => ram[h].tmpl = t)

\* No command and no loss of power makes a counter go back or lose its value
\* while its index exists, although an orderly counter is saved to NV only when
\* its low bits roll over (TPM2_NV_Increment, NvEntityStartup).
CounterMonotone ==
    [][\A h \in Handles :
         h \in Counters /\ h \in Counters' /\ Info(h).written
           => Info(h)'.written /\ Info(h)'.data >= Info(h).data]_vars

\* The first value of a counter is greater than every value a counter had when
\* it was deleted, so that deleting and defining an index again does not roll
\* it back (NvUpdateMaxCount and the count in the list terminator).
NewCounterAboveDeleted ==
    [][\A h \in Handles :
         h \in Counters /\ h \in Counters' /\ ~Info(h).written /\ Info(h)'.written
           => Info(h)'.data > retired]_vars

\* After TPM2_Shutdown, any write to orderly data takes the orderly state back:
\* an orderly startup finds the orderly counters, and a resume all orderly data,
\* as they were when power went (g_clearOrderly in NvWriteIndexData).
OrderlyRestores ==
    [][\A h \in Handles, type \in {"clear", "state"} :
         /\ Startup(type) /\ orderlyState # "none"
         /\ h \in Defined /\ Orderly(h) /\ (Counter(nv[h]) \/ type = "state")
         => ram'[h].data = ram[h].data /\ ram'[h].written = ram[h].written]_vars

\* What was in an ordinary index before it became unwritten cannot be read after
\* a partial write: the halves not written since are erased (NvWriteIndexData).
NoResidue ==
    up => \A h \in Defined : nv[h].tmpl.nt = "ordinary" /\ Info(h).written
              => \A i \in Halves \ covered[h] : Info(h).data[i] = 0

\* An index in NV with WRITEDEFINE that was written and write-locked keeps its
\* data and its lock through every command and every startup, until it is
\* deleted (NvWriteAccessChecks, NvSetStartupAttributes).
LockedForGood ==
    [][\A h \in Defined :
         /\ ~Orderly(h) /\ nv[h].tmpl.writedefine /\ nv[h].written /\ nv[h].writelocked
         => h \notin Defined' \/ (nv'[h].data = nv[h].data /\ nv'[h].writelocked)]_vars

\* Indices leave room for the persistent objects still missing from
\* MIN_EVICT_OBJECTS and for the list terminator (NvTestSpace).
RoomForObjects ==
    Terminator + Missing(MIN_EVICT_OBJECTS, Cardinality(Evicted)) * EvictSize <= NvGetFreeBytes

=============================================================================
