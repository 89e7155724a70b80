# RfTPM: a TLA+ verification project

RfTPM runs the TPM 2.0 reference code in M-mode, as an extension of OpenSBI on
RISC-V. Linux reaches it through a misc device whose ioctl becomes an SBI ecall;
the ibmtss tools sit on top of that device. The NV memory of the TPM is an image in
RAM that is written, AES-CBC encrypted, to the file `NVChip` on a FatFs SD card
(vivado platform), or only kept in RAM (generic platform).

## 1. Inventory

| Part | Source | State | Operations | Meets |
|---|---|---|---|---|
| Linux driver | `ftpm-driver/` | the copy of a context on the kernel stack; no lock | ioctl, ecall | transport |
| SBI transport | `ftpm-opensbi/src/ftpm.c`, `ftpm-sbi-opensbi.c`, `mprv.*` | global request/response buffers, initialised flag | `ftpm_init`, `ftpm_cmd_handler`, unprivileged copies | driver, TPM server |
| TPM server shim | `TPMCmdp.c`, `PowerPlat.c`, `RunCommand.c`, `TpmFail.c` | power, failure mode, cancel flag | power on/off, NV on/off, send command | transport, execution |
| Platform NV | `NVMem.c`, `intercept.c` | RAM image, file image, availability and error flags | enable, disable, commit, memory operations | reserved and dynamic NV |
| Reserved and dynamic NV | `NVReserved.c`, `NVDynamic.c`, `NVCommands.c` | persistent data, index list, RAM orderly indices | define, undefine, write, increment, lock, evict | platform NV, startup |
| Command execution | `ExecCommand.c`, `SessionProcess.c`, `CommandDispatcher.c` | `g_updateNV`, `g_clearOrderly`, session slots of the command | execute, authorise, audit, commit | all commands |
| Startup and shutdown | `StartupCommands.c`, `Power.c`, `Manufacture.c` | `orderlyState`, reset counters | `_TPM_Init`, Startup, Shutdown | every subsystem |
| Sessions | `Session.c`, `SessionCommands.c`, `ContextCommands.c`, `Context_spt.c` | `contextArray`, `contextCounter`, slots, oldest saved session | start, save, load, flush | startup, execution |
| Objects | `Object.c`, `ObjectCommands.c`, `ContextCommands.c` | object slots, `objectContextID` | load, save, flush, evict | NV, hierarchies |
| Dictionary attack | `DA.c`, `DictionaryCommands.c`, part of `SessionProcess.c` | `failedTries`, timers, `lockOutAuthEnabled` | register failure, self heal, reset, parameters | execution, time, startup |
| Time | `Time.c`, `Clock.c`, `ClockCommands.c` | `go.clock`, `g_time`, `clockSafe` | update, set, startup | DA, startup |
| PCR | `PCR.c`, `IntegrityCommands.c` | banks, allocation, update counter | extend, reset, event, allocate | startup |
| Hierarchies | `Hierarchy.c`, `HierarchyCommands.c` | seeds, proofs, enables | clear, change seeds, control | objects, NV |
| Command audit | `CommandAudit.c`, `AuditCommands.c` | audit counter, digest, list | audit, set status | execution |
| Policies | `EACommands.c`, `Policy_spt.c` | policy digest and session flags | the `TPM2_Policy*` commands | sessions |
| Remote fences and interrupts | `sbi_tlb.c`, `sbi_ipi.c`, `sbi_fifo.c` | a fifo, a sync word and pending events per hart | fence, interrupt, process | OpenSBI, the TPM's ecall |
| OpenSBI, the rest | `lib/sbi`, `firmware` | hart states, domains, locks | cold/warm boot, HSM, ecall, emulation | transport |
| Vendored libraries | `cryptomini`, FatFs, `libfdt`, `ibmtss-ftpm`, Kconfiglib | | | |

What is hard here: loss of power between any two steps (a shutdown may be followed
by more commands before power fails), a truncated counter that wraps, tables at
their limit, NV that becomes unavailable or whose commit fails while a command runs,
harts that enter the handler together.

Build switches assumed everywhere: `NDEBUG`, `USE_DA_USED NO`,
`ACCUMULATE_SELF_HEAL_TIMER YES`, `CLOCK_STOPS NO`, `NO_LONGJMP`.

## 2. Modules

| Module | Models | Checked by | Proved in |
|---|---|---|---|
| `SessionContext` | session table, contextIDs, save and load of session contexts | `MCSessionContext`: `Session` | `SessionContextProofs` |
| `NvPersistence` | boot, NV image, encrypted file, end of a command | `MCNvPersistence`: `NvFaults`, `NvManufactureFails` | `NvPersistenceProofs` |
| `DictionaryAttack` | failed authorizations, self healing, time and clock | `MCDictionaryAttack`: `DaLockout`, `DaTime` | `DictionaryAttackProofs` |
| `NvIndices` | NV indices, orderly data in RAM, counters, locks, space | `MCNvIndices`: `NvIndices`, `NvClearRollback` | `NvIndicesProofs` |
| `Audit` | audit sessions and the command audit log | `MCAudit`: `Audit` | `AuditProofs` |
| `Policy` | policy sessions, tickets, PCRs | `MCPolicy`: `Policy`, `PcrAllocateCleared` | `PolicyProofs` |
| `Transport` | client library, driver, SBI call, global buffers | `MCTransport`: `Transport` | `TransportProofs` |
| `TpmService` | what a caller of `/dev/ftpm` may rely on | implemented by `Transport` | `TransportProofs` |
| `RemoteFence`, `SbiFifo` | remote fences and interrupts between harts | `MCRemoteFence`: `RemoteFence` | `RemoteFenceProofs` |
| `FenceService` | what a kernel may rely on when it asks for a fence | implemented by `RemoteFence` | `RemoteFenceProofs` |

The first six modules are slices of the same TPM: each has Shutdown, loss of power and
Startup, with the part of the state it is about. A command is one step wherever only
one hart runs and the command does not touch the card. `NvPersistence` opens up the
commit at the end of a command, `Transport` the way of a command into and out of the
TPM.

### SessionContext

*State.* `contextArray` and `contextCounter` (`gr`, STATE_RESET_DATA), the slots
`s_sessions`, `s_freeSessionSlots` and `s_oldestSavedSession` in RAM, the orderly
state, the saved copy of `gr` and `totalResetCount` in NV. The history variables
`contexts` and `loaded` record what was handed out and what was accepted back.

*Actions.* `TPM2_StartAuthSession` (with `SessionCreate`), `TPM2_ContextSave`
(with `SessionContextSave` and its error paths), `TPM2_ContextLoad` (with the
integrity check, `SequenceNumberForSavedContextIsValid` and `SessionContextLoad`),
`TPM2_FlushContext`, `EndSession` (a session used with continueSession CLEAR),
`TPM2_Shutdown`, `PowerLoss`, `StartupPreserving` (resume and restart) and
`StartupReset`. Session contents are not modelled; the HMAC of a context is modelled
by what it covers.

*Why it is hard.* A contextID is a 64-bit count of which the table keeps only a few
bits. Whether an old context can be told from a new one depends on the gap between
the oldest saved context and the counter, which every save, load, flush and startup
changes; and Shutdown(STATE) makes a copy of the table that comes back if power is
lost later.

### NvPersistence

*State.* The card (`fsize`, `cipher`), `NVMem.c` (`mounted`, `s_NvFile`, `s_NV`,
`s_NV_ENC`, `s_NvIsAvailable`, `s_NeedsManufacture`, the size of the open file), the
globals `gp`, `gc`, `g_initialized`, `g_inFailureMode`, and where the code is (`pc`,
the block being written, where the commit returns to, the response). `promised` is
the last image committed in full, `suspect` says that a commit was cut short since
the last manufacture.

*Actions.* `PowerOn`; `FirstEnable`, `TPM_Manufacture`, `NVDisable`, `SecondEnable`
and `TPM_Init` in the order of `ftpm_init`; `WriteBlock` and `WriteFails` for
`NvFileCommit`; one action per command that stands for a kind of use of NV
(`TPM2_Startup`, `TPM2_Shutdown`, `TPM2_ChangeEPS`, `TPM2_HierarchyControl`,
`TPM2_SelfTest`), with `FailureMode` and `OutOfOrder`; `PowerLoss` anywhere. The image
has three blocks because three kinds of data behave differently: the orderly state,
a persistent value, the state saved by Shutdown(STATE). AES-CBC with its fixed key
and IV is modelled by what decrypts: a block needs its own predecessor.

*External.* FatFs is not in the repository. From how `NVMem.c` uses it: a full
sector reaches the card when it is written, the size in the directory when the file
is closed.

### DictionaryAttack

*State.* One record `tpm` with `gp` and `go` in RAM and in NV, `g_time` and failure
mode, so that `TimeUpdate`, `DASelfHeal`, `DAStartup` are operators on it, composed
as the functions call each other; the platform timer; the phase. History: the wrong
authValues that counted (`failures`), the ticks with power on (`powered`), the time
of the last wrong lockoutAuth, the largest clock read.

*Actions.* `WrongAuth` for every kind of session (password, HMAC or policy; bound to
a protected entity, to lockoutAuth, or not; the authValue in use or not),
`Refused`, `Execute`, `TPM2_DictionaryAttackLockReset`,
`TPM2_DictionaryAttackParameters`, `TPM2_Clear`, `TPM2_ReadClock`, `TPM2_ClockSet`,
`TPM2_Shutdown`, `Tick`, `PowerCycle`, `TPM2_Startup`. Each command starts with
`TimeUpdateToCurrent`. Times are UINT64 differences (`% TIME_MOD`), the count is
UINT32 (`% TRIES_MOD`).

*Why it is hard.* Four clocks meet: the platform timer that restarts at zero, `g_time`
that follows it, the timers of DA that are relative to `g_time` or to the one of an
earlier power cycle, and the time in NV of the last orderly shutdown. Healing after a
restart must count each second once.

### NvIndices

*State.* The list of indices in NV, the orderly RAM (`s_indexOrderlyRam`) and its
backing store in NV, the persistent objects that share the list, the maximum count in
NV and in RAM, the orderly state. An index is a record of its template (attributes,
type, size), the WRITTEN and lock bits and its data; the data of an ordinary or PIN
index are two halves, of the others a number. History: the highest count of a deleted
counter (`retired`), the halves written since an index was last unwritten (`covered`).

*Actions.* `NV_DefineSpace` and `NV_UndefineSpace` (with `NvTestSpace` and the RAM
layout), `NV_Write`, `NV_Increment`, `NV_Extend`, `NV_SetBits`, `NV_WriteLock`,
`NV_ReadLock`, `NV_GlobalWriteLock`, `EvictControl`, `Clear`, `ChangeSeed` (ChangePPS
and ChangeEPS), `Shutdown`, `PowerOff`, `Startup` (with `NvEntityStartup`). Every
command ends in `Cleanup`, where `ExecuteCommand` clears the orderly state.

*Why it is hard.* An orderly index lives in three places (attributes in the NV list,
contents in RAM, a copy in the backing store) that are written at different times. An
orderly counter reaches NV only when its low bits roll over; after a crash the low
bits are set. Attributes are reset at a startup that depends on how the last power
cycle ended.

### Audit

*State.* The session table as far as auditing goes, `g_exclusiveAuditSession`, the
list, algorithm and counter of the command audit in RAM and NV, the command audit
digest in RAM and as saved by Shutdown(STATE). A session digest is the number of
commands in it, the command audit digest the sequence of their codes. History: the
commands that should be in the log (`done`), the commands since a session digest began
(`since`), how many logs each counter value has had (`started`).

*Actions.* `OrdinaryCommand`, `StartAuthSession`, `GetSessionAuditDigest`,
`GetCommandAuditDigest`, `SetCommandCodeAuditStatus`, `FlushContext`, `ContextSave`,
`ContextLoad`, `Clear`, `Shutdown`, `Startup`, `PowerCycle`. Each command that takes
sessions may use one as its audit session, in every combination of continue, reset and
exclusive, and end others; each goes through `Complete`, the tail of `ExecuteCommand`:
command audit, update of the audit session, end of sessions, orderly state.

*Why it is hard.* Exclusivity is kept in one global handle that must be dropped when
the session ends, is flushed, is reused, or another command slips in. The audit counter is
written at the first entry of a log, the digest only at a shutdown; and the commands
that report, change or save the log are themselves audited after they have run.

### Policy

*State.* Policy sessions with the fields that defer a check (command code, the digest
union with its kind, locality, deadline and epoch, PCR counter, physical presence,
authValue, NvWritten), tickets, PCR values per bank, `pcrCounter`, the allocation in
RAM and NV, the time, the epoch, and what Shutdown(STATE) saved. `asserted` in a session is history:
all that was asserted since its last use.

*Actions.* One for every `TPM2_Policy*` command, `PolicyRestart`, `StartAuthSession`,
`UseSession` (a command that `CheckPolicyAuthSession` lets through), context save, load
and flush; `PCR_Extend`, `PCR_Event`, `PCR_Reset`, `PCR_Allocate`; `Clear`, `Tick`,
`TimeNewEpoch`, `Shutdown`, `PowerCycle`, `Startup`. What an immediate check compares
(signatures, NV contents, capabilities) is a free choice.

*Why it is hard.* A session outlives the facts it was built on: PCRs change under it,
deadlines pass, tickets carry a deadline into other sessions and power cycles, a saved
context comes back after a resume. The fields share storage and are overwritten by
later assertions.

### Transport and TpmService

*State.* For each thread where its call is, the context in user memory, its copy in
the driver and in the firmware, its response buffer; the two global buffers block by
block; which thread's SBI call a hart executes; whether other data of the firmware has
been overwritten (`intact`). History: the executions and which of them served a call.

*Actions.* `Transmit` (client library), `IoctlEnter`, `IoctlReturn` (driver), `Ecall`,
`CopyIn` and `CopyOut` (one block a step, or a trap that ends the copy), `Execute`,
`EcallReturn`, `Hang`. The driver may be preempted anywhere; an SBI call holds its hart.

*Lengths.* A caller gives the length of its command (`Written`) and nothing compares it
with `MAX_BUFFER` (`ftpm.c:82-86`), so a copy may run past `InputBuffer` (`Store`). The
linker decides what lies there: the blocks fall on `OutputBuffer`, or on other data, and
then `intact` is FALSE and the firmware may trap and hang or answer anything.
`ExecuteCommand` refuses such a command by its length, with a response. `TpmService` has
the same edge: a command that does not fit may destroy the TPM, and nothing is promised
after that. As long as it only reaches into `OutputBuffer`, which is written before it is
read, all promises hold.

`TpmService` has one log of executions and five actions: a caller asks, is served,
returns, is rejected (with unmapped buffers only), or destroys the TPM (with a command
that does not fit). The mapping takes a call as served
when `ExecuteCommand` has run.

*Why it is hard.* Nothing locks: neither the driver nor the firmware. The buffers keep
what earlier calls left, and a copy that traps is not noticed.

### RemoteFence, SbiFifo and FenceService

*State.* For each hart its fifo, sync word, events, pending interrupt, and where its
firmware is (`pc` with the fence asked for, the harts still to be served, the entry in
hand). A step is one operation other harts can see. History: what each target must
still flush for each asker (`owed`), as sets of TLB items.

*Actions.* `RequestFence`, `RequestIpi` and `ClearSmode` for the kernel; `SendPlain`,
`UpdateSelf`, `UpdateRemote` (merge), `ProcessCount` and `EnqueueFence` (full fifo),
`SetType`, `Raise`, `Sync`, `SendReturn` for the sender; `IpiClear`, `IpiTake`,
`DequeueFence`, `Signal`, `ProcessReturn` for the target, also nested in a sender that
waits. Ranges are sums modulo the width of an address, and each local function flushes
what the instruction it issues flushes.

*Why it is hard.* Requests of several harts are merged in place in a fifo that its
owner empties at the same time; harts wait for one another with interrupts off.

## 3. Runs

| Run | Shows |
|---|---|
| `session` | the slot table and contextArray agree (what the FAIL in `SessionCreate` and the assertion in `SessionContextLoad` rest on); with the gap at its maximum a slot is left to recycle the oldest context; over wraps of the truncated ID, resets and resumes exactly the newest context of a saved session is acceptable, once; a refused context becomes acceptable only by a resume |
| `nv_faults` | with power lost anywhere and every fault: what was answered is on the card; failed commands and failure mode leave no trace on it; a saved state that would be accepted is current; a TPM2_Startup is taken only on a manufactured image; all this unless a commit was cut short; boot and commands end |
| `da_lockout` | for all kinds of sessions and changing parameters the assertion of `IncrementLockout` holds and the counters stay in range |
| `da_time` | no failure is forgotten before it is paid for with time under power; lockoutAuth waits; a clock reported as safe is not behind one reported before |
| `nv_indices` | RAM, backing store and NV list the same orderly indices; counters never go back and new ones start above deleted ones; orderly data come back current; erased data stay erased; a lock holds; room is kept for persistent objects |
| `audit` | a session is reported as exclusive exactly when it is; the command audit log is complete over restarts and no two logs since a TPM2_Clear have one number |
| `policy` | what `CheckPolicyAuthSession` lets through satisfies every assertion made in the session, at that moment; the PCRs a resume would restore are current |
| `transport` | on one hart the unlocked path to the TPM implements `TpmService`; no caller gets a block of another's response, whatever was copied in part; every ioctl returns; all this until a command longer than the buffer overwrites data behind the two |
| `remote_fence` | the fifos, merges and waits implement `FenceService`: a fence has happened when its ecall returns; no wake-up is lost; every ecall returns |

Expected violations, each a disagreement between the code and its own words:

| Run | Shows |
|---|---|
| `nv_manufacture_fails` | `TPM_Manufacture` ignores the result of its commit; after a write error the next boot takes the erased image for a manufactured one, which `ftpm_init` means to prevent; TPM2_Startup runs on it, its `totalResetCount` wraps and the TPM is in failure mode for good |
| `nv_clear_rollback` | `NvFlushHierarchy` reads the count of a deleted counter from NV, where an orderly counter has none; a counter defined after TPM2_Clear starts at a value the deleted one has shown |
| `pcr_allocate_cleared` | TPM2_Clear writes all of `gp` to NV and with it the old PCR allocation, so the one TPM2_PCR_Allocate asked for is lost |

More were met while modelling and are not kept as runs. These can be reproduced by a
change of a configuration:

- *Response before commit.* A commit that fails at the end of a command
  (`ExecCommand.c:321`) comes after the response was built: the caller reads success,
  the TPM is in failure mode. "ExecuteCommand() will simply build a failure response
  and return" (`RunCommand.c:82-85`). In `NvFaults.cfg`, check
  `response # "SUCCESS" \/ ~g_inFailureMode` in the states with `pc = "idle"`.
- *Healing after TPM2_Shutdown.* Commands after it heal the count in NV while the timers
  in NV stay those of the shutdown; after the restart the same time heals again
  (`DA.c:215`; "to check if sufficient time has passed to allow decrement of
  failedTries", `DA.c:173`). Set `CleanShutdown = FALSE` in `DaTime.cfg`.
- *Lockout assertion.* With a lockoutPolicy, a policy session bound to another protected
  entity passes the lockout check and then fails `pAssert(gp.lockOutAuthEnabled == TRUE)`
  (`SessionProcess.c:165`, check at 1600). Set `LockoutPolicy = TRUE` in `DaLockout.cfg`.
- *Audit after Shutdown(STATE).* An audited command then is extended into the digest in
  RAM and leaves the Shutdown in force; after a resume the log misses it. The digest "is
  set to an Empty Digest by TPM2_GetCommandAuditDigest() or a TPM Reset"
  (`Global.h:1042-1050`). Set `AuditAfterShutdown = TRUE` in `Audit.cfg`.
- *Edges of ranges.* The end of a fence of the last page is 0, and size 0 with start 0
  means everything; the comparison in `tlb_range_check` then skips or merges a request
  that does not lie "within one of the existing entry" (`sbi_tlb.c:303-305`). Set
  `Requests <- Edge` in `RemoteFence.cfg`; `ImplementsService` fails. The theorem about
  it has the hypothesis that leaves these requests out (`AllOrdinary`).
- *Several harts in the TPM.* Nothing but the single hart of the vivado platform keeps
  two commands apart. With `Harts = {0, 1}` in `Transport.cfg` `OnlyOwnResponses` and
  `ImplementsService` fail.

The others are seen in the code:

- Only the spin in `tlb_update` on a full fifo is said to lead to a deadlock
  (`sbi_tlb.c:378-383`); `CallsReturn` holds, because `tlb_process_count` empties the
  own fifo in that loop.
- `SessionCapGetOneLoaded` ("whether a session handle exists and is loaded",
  `Session.c:933`) is TRUE for a saved session too.
- A file longer than the image is meant to be initialised ("for any other size,
  initialize it", `NVMem.c:273`) but keeps its length, so it is erased again by the
  second enable of every boot.
- `DAStartup` is said to keep lockoutAuth disabled until the TPM was "continuously
  powered" (`DA.c:95-97`); with `ACCUMULATE_SELF_HEAL_TIMER` the time accumulates over
  orderly shutdowns.
- "a policy session is never bound" (`SessionProcess.c:1597`), but `SessionCreate`
  sets `isDaBound` for policy sessions as well, so such a session is refused during
  lockout.
- A partial write is cleared for ordinary indices only, the other types being always
  written in total (`NVDynamic.c:1084-1087`); TPM2_NV_Write may write part of a PIN
  index.
- The reserve for counters (`NVDynamic.c:246-257`) misses 8 bytes for each orderly
  counter that is deleted and replaced by one in NV.
- A lock set on an orderly index after Shutdown(STATE) is lost by a resume
  (`NVDynamic.c:949` leaves the orderly state alone); PCR_Allocate after Shutdown(STATE)
  takes effect at a resume, with whatever `gc.pcrSave` held for the new banks.

**Bounds.**
`Session`: three sessions, one slot, a slot width of 5 and a counter limit of 9, so that
the truncated ID wraps, the gap reaches its maximum and the counter runs out; one TPM
Reset.
`NvFaults`: two seeds tell an old value from a new one; nothing else is bounded.
`DaLockout`, `DaTime`: 3 or 4 ticks with power on, a second of one or two ticks, recovery
times of 0 or 1 second, limits of 0 or 2 tries: failures pass the limit, heal in part and
in full, and power is lost between; TPM2_ClockSet jumps over an update interval.
`NvIndices`: two handles, six templates that cover both places, the lock attributes and
all types but PIN indices, which are left to the proofs; four values between two rollovers and a highest count of 7, so that a count
rolls over, crashes and rolls over again; sizes for which a second index or an object
may or may not fit.
`Audit`: two sessions, two algorithms, two logs.
`Policy`: one session, two banks, three PCRs (saved, counted, neither), two epochs, the
first with three units of time, the second with one, two deferred assertions at a time,
one ticket. `Within` separates what cannot affect each other: limits on the command are
combined freely within a calm power cycle, deadlines and tickets with time and power,
assertions on PCRs with PCR changes and power.
`Transport`: three threads with one call each and buffers of two blocks, so that a copy
can end half way and older contents remain. One thread fills the buffer; one gives one
block or four, twice the buffer; one, whose pages come and go, none or three. The
lengths differ by thread to keep the run small; the proofs take any.
`RemoteFence`: three harts with one ecall each, fifos of one entry, addresses of 3 bits
and pages of 2 bytes: ranges are merged in both directions, upgraded and kept apart, and
fifos overflow.
The proofs remove these bounds, except
`MaxPowered < TIME_MOD` (the TPM runs for less than 2^64 ms), `MaxCount`, `MaxChain` and
`MaxCounter` where a counter at its end makes the TPM fail.

**Views and symmetry.** `LiveState` leaves out the saved copy of the session table while
no startup can use it. The views of `MCDictionaryAttack` leave out timers that are
overwritten before they are read next, and histories that the run's properties do not
mention. `Agreement` keeps of two counts, and of a log and its history, whether they
agree. `Live` of `MCPolicy` keeps of a PCR counter whether it is current, and of the
saved state only what a resume can read. No property depends on what its view leaves
out. The two handles of `NvIndices` are interchangeable, and that run checks no
liveness.

**Fairness.** `NvPersistence`: `WF(Boot)` and `WF(Commit)` say that a hart in M-mode goes
on with the code it is in: `ftpm_init` and `NvFileCommit` wait for nobody, and every
call to the card returns, with an error if need be. Commands and power are not fair.
`Transport`: weak fairness of the firmware for the same reason, strong fairness of the
driver because a runnable thread is scheduled again and again, while the hart it needs
may be taken by others in between; callers are not fair. This takes `ExecuteCommand` to
end: `_sbrk` (`ftpm.c:139-148`) hangs the hart when the heap is used up, and how much heap
a command needs is not modelled. A hart hung after an overrun is outside `CallsReturn`. `RemoteFence`: weak fairness of
each hart's firmware; kernels need not make calls.

**Deadlock** is checked in every run but `transport` and `remote_fence`, which really
stop when every thread or hart has made its `MaxCalls` calls; there `CallsReturn` says
that nobody is stuck inside a call.

## 4. Proofs

All proofs are for arbitrary constants and rest on the named assumptions of the
modules only, and on the conditions a theorem states. Each module has one inductive
invariant; its theorems are `Init => Inv`, lemmas for the step of each action, and the
properties as consequences.

**SessionContextProofs** (assumes `SizesAssumption`: at least one slot, a slot width
larger than the number of slots plus one, a counter limit that ends a wrap). `IInv`
adds to the type and slot properties: IDs are unique within a reset; the entries of
saved sessions are the low bits of distinct issued sequence numbers that lie within
one wrap below the counter (`CurrentOK`), the oldest one being the smallest; and the
same of the copy in NV as long as it is valid (`SavedOK`), which must hold before the
power fails for the restored table to be good. Proved: `TypeOK`, `SlotsMatchArray`,
`GapIsRecoverable`, `NoReplay`, `OnlyNewestAcceptable`, the action property
`RevivedOnlyByResume`, and two facts on the way that no run repeats: `IssuedIDsAreFresh`
and `OldestIsOldest` (the cached oldest session is the oldest).

**NvPersistenceProofs** (a first file not longer than the image). `IInv` follows the
image through the boot: at each `pc`, what the RAM image, the encrypted copy and the
card have in common. In a commit the blocks before the current one are already those
of the new image, and the others are those of the promised one; a command cannot
start before the commit has ended. Proved: `TypeOK`, `Durable`, `CardKeepsPromise`,
`SavedStateIsCurrent` for every set of faults, that the card never changes in failure
mode (`FailureFreezesCard`), and `StartsManufactured` when writes do not fail, with a
second invariant (`Seeded`): where an erased image can be. `StartsFromWhole` holds with
write errors too; its invariant (`Whole`) is the same place by place, as long as no
commit was cut short since the last manufacture.

**DictionaryAttackProofs** (`CleanShutdown`: TPM2_Shutdown is the last command before
the power goes, and `~LockoutPolicy`; section 3 shows that both are needed).
`IInv` prices a decrement of `failedTries` at the smallest recovery time: the failures
not in the count, times the price, plus the time since `selfHealTimer`, never exceed
the time with power on (`Paid`). `TimeUpdate` adds the same to both sides, `DASelfHeal`
moves time into decrements, a failure resets the timer. The same is stated of NV
(`Saved`), with timers that count only after an orderly shutdown, because `DAStartup`
takes them from there. `Waits` does the same for lockoutAuth, `Clock` says that NV
knows the interval the clock is in. Proved: `TypeOK`, `HealingIsPaid`, `LockoutWaits`,
`LockoutAssertion`, `SafeClock`, and as a corollary the bound on the number of wrong
guesses (`GuessBudget`).

**NvIndicesProofs** (`NvIndicesAssumption`: sizes are naturals, a template is one
`NvDefineSpace` admits). Every action is first shown to do one of five things to an
index: leave it alone, write it, make it, delete it or start it (`StepEffect`); the
invariants are then carried through these five. `Inv` has the layout of RAM and backing
store, `Saved` (the saved count of an orderly counter is not above the one in RAM and,
with its low bits set, not below it; after an orderly shutdown they are equal) and `Clean`
(of a written index, a half not written since it became written is erased).
Proved: `TypeOK`, `LayoutMatches`, `NoResidue`, `CounterMonotone`, `OrderlyRestores`,
`LockedForGood`, and `NewCounterAboveDeleted` provided no template is an orderly counter
of the owner (`ClearSparesOrderlyCounters`); `nv_clear_rollback` shows what happens
otherwise. `RetiredBelow` is the strengthening for the last: the highest deleted count
is in RAM and in NV. `RoomForObjects` is proved for every area that holds
`MIN_EVICT_OBJECTS` objects and the terminator when it is empty: the amounts that
`NvTestSpace` compares (`Measured`) reduce it to one inequality between the larger of
the objects there are and those promised, the indices and the size of NV (`Room`). That a
sum over the indices changes by the size of the one defined or deleted follows from a
least counterexample, since induction over data is out of reach.

**AuditProofs** (`AuditAssumption`). All commands end in `Complete`, so each conjunct is
carried through it once, by a lemma on what a handler may hand over. `Inv`: a session
that audits is exclusive if and only if it has missed no command; an audit session that
a resume would bring back has missed the Shutdown at least, so none is exclusive after
one (`Behind`); TPM2_Shutdown is never on the list (`Lists`); counter values above the
current one have had no log, and NV has the counter of RAM (`Numbering`). Proved:
`TypeOK`, `ExclusiveMeansAll`, `OneLogPerCounter`, and `CommandLogComplete` when the
host does not change the log after a Shutdown(STATE) that stays in force.

**PolicyProofs** (`PolicyAssumption`). `Inv` relates each field of a session to the
assertions it stands for (`Fits`): a single command code, one digest for all kinds, a
locality set inside every asserted one, the earliest deadline with its epoch. A PCR
counter that is current vouches for the snapshots (`PcrFits`). A session saved in NV
has a counter not ahead of the one saved with it (`Behind`); a startup counts at least
one change, so after a restart none is current. `SavedInv` ties the saved PCRs to the
current ones, `Off` says that without power there are no sessions. Proved: `TypeOK`,
`AuthorizedAsAsserted`, `SavedPcrsCurrent`.

**TransportProofs** (`TransportAssumption`; one hart, `OneHart`, for all but type
correctness). An SBI call occupies the hart (`Occupies`), so at most one thread is in
the firmware, and for that one the invariant says how much of its command is in the
input buffer (`Shared`, for mapped buffers) and that the output buffer has the response
of its execution (`Answer`); for every thread, the sizes in its copies of the context
(`Frame`) and, for mapped buffers, what has reached it (`Private`). `Shared`, `Answer` and
`Private` are claimed while `intact` holds. Proved, for every length: `TypeOK`,
`OnlyOwnResponses`, and `ImplementsService`: every step of `Transport` is a step of
`TpmService` or a stutter. `OwnResponse` states for a caller what the refinement contains:
its buffer holds the response to its own command, or to the part of it that fits.

**RemoteFenceProofs** (`FenceAssumption`, `NumEntriesAssumption`: a finite set of hart
numbers, a fifo of at least one entry). `FifoIsQueue` says of the ring what its users rely
on: an enqueue on one that is not full appends, a dequeue on one that is not empty takes
the head.
The protocol has four layers, each proved on the ones before.
`TypeInv` adds to `TypeOK` that every entry of a fifo in use has somebody waiting for it,
and which harts a sender still has to serve at each `pc` (`Flow`).
`NoLostWakeup` is inductive on top of it: the hart whose event is set has its interrupt
pending, is about to take it, or some sender is about to raise it (`Woken`).
`TokenInv`: the acknowledgement a waiting hart expects is in at most one place at a time:
one entry of its target's fifo that names it, a signal the target still has to send, or
its own sync word. `SignalsReachWaiters` is the part of it that can be seen: when a target
is about to write a sync word, the word is 0 and its hart waits for this target.
`PayInv`: the entry that names a hart flushes all that is still owed to that hart, also
after a merge has replaced it by a larger one, and when the signal is on its way nothing is
owed. From it `RemoteFenceImplementsService` proves `ImplementsService`: every step of the
protocol is a step of `FenceService` or a stutter. The hypothesis is `AllOrdinary`: a
range that `tlb_range_check` compares starts at a page, is not empty and does not reach
the end of the address space, or is so long that all is flushed anyway; the requests of
the run are of this kind.

Two facts that need the library's theorems (a set of fifo positions has a least element,
`FirstIsLeast`; a finite set of counts a greatest, `GreatestCount`) are hypotheses of the
lemmas that use them; each is proved at the end of its module, and the theorems there
have no such hypothesis.

**Only model-checked:** the liveness properties (`Answers` and the two `CallsReturn`):
fairness and ENABLED are out of the prover's reach. For these the bounds of section 3
are the limits of what is known.

## 5. Simplifications

- Sessions: contents, keys and nonces; object contexts; the capability enumerations.
- NV: requests longer than INT32_MAX, a failing `CryptInit`, a refusal by
  `TPM_Manufacture` (its checks are of the build and of NV being ready, and it is only
  called with the file open), errors of closing the file, the branch for `UT_ORDERLY`. A
  garbled orderly state is taken to differ from every valid one. `suspect` excludes
  images torn by a loss of power inside a commit: the code has no journal, so nothing can
  be promised of them.
- DA: one session per command (the first failing one ends the command, one that
  succeeds changes none of this state); the commit of a command is atomic here
  (`NvPersistence` shows when it is not); whether a lockoutPolicy exists is a constant;
  the rate adjustment of the clock and the time epoch are left out.
- NvIndices: the authorization of a command is taken as given, and with it the failure
  counts of PIN indices; NV is available; `phEnableNV`, `shEnable` and
  TPM2_NV_ChangeAuth are left out; a command is atomic up to its commit. Sizes are in
  units that keep the order of the real ones.
- Audit: a failing command changes none of this state and is left out, as are the
  attestation signatures around a reported digest.
- Policy: the policyDigest is whether anything was extended into it, and an entity's
  policy is the digest the session has reached (one that is all zero asks for nothing, so
  `AuthorizedAsAsserted` is about the others); expirations are small naturals; all
  commands come at locality 0, as `ftpm_cmd_handler` sends them; the values PCRs are
  reset to and the authorization of PCRs are left out.
- Transport: addresses in the context; a context has the sizes only. What an overrun does
  to the rest of the firmware is left open, and how much heap a command uses. The context lies
  on the kernel stack, which is always mapped.
- RemoteFence: all harts are started and stay so; the halt event and the performance
  counters are left out; a flush is part of the step that dequeued the entry, since it
  changes the flushing hart only; memory is sequentially consistent, for which the code
  has its fences and atomic exchanges.

## 6. Not modelled

- **Objects**: slots, sequence objects, loading and flushing of transient objects, and
  hierarchies that are disabled while objects are loaded. Persistent objects appear in
  `NvIndices` only by the space they take.
- **Hierarchies**: the enables and authValues; seeds and proofs appear as one value that
  changes (`NvPersistence`) and by what their change deletes (`NvIndices`).
- **PCR**: authValues and policies of PCRs and the H-CRTM sequence of
  `_TPM_Hash_Start/Data/End`, which no caller of this platform reaches.
- **OpenSBI**: cold and warm boot, hart state management, domains, PMU, emulation and
  the drivers of the platforms. The TPM relies on the ecall path, which is in
  `Transport`. A hart that stops while another sends it a fence would be the hazard to
  look at next.
- **Cryptography and marshalling** transform data and have no state of their own. Only
  the chaining of the NV cipher matters to a property, and is modelled.
- **Vendored code**: ibmtss (but `TSS_FTPM_Transmit`), cryptomini, libfdt, Kconfiglib,
  the device trees and the platform drivers make up nearly all of the repository's lines.
  They hold none of the TPM's state, and a model of them would say nothing about it. What
  is modelled is the part of the TPM and of the firmware that keeps state over commands,
  power cycles and harts.
