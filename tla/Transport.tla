------------------------------ MODULE Transport -----------------------------
(***************************************************************************)
(* The way of a command from a process to the TPM and back: TSS_FTPM_      *)
(* Transmit in the client library, ftpm_ioctl in the Linux driver, the SBI *)
(* call, and sbi_ftpm_run_command with its two global buffers.             *)
(*                                                                         *)
(* The driver takes no lock and may be preempted; an SBI call holds its    *)
(* hart until it returns, because machine-mode interrupts are off.  The    *)
(* buffers are copied block by block through the caller's page table; a    *)
(* page that is not there ends the copy half way, and ftpm_cmd_handler     *)
(* goes on regardless.  The struct tss_ftpm_context the firmware copies    *)
(* lies on the kernel stack, which is always mapped.                       *)
(*                                                                         *)
(* The length of a command is the caller's; nothing compares it with       *)
(* MAX_BUFFER.  What lies behind InputBuffer is up to the linker, so the    *)
(* rest of a longer command falls on OutputBuffer or on other data of the  *)
(* firmware; from then on the TPM may hang or answer anything.             *)
(*                                                                         *)
(* A block of a command is named by its caller, the call and its place; a  *)
(* block of a response by the execution and its place.                     *)
(***************************************************************************)
EXTENDS Integers, Sequences

CONSTANTS Callers,   \* threads that have opened /dev/ftpm
          Harts,
          Resident,  \* callers whose buffers stay mapped
          Blocks,    \* bound: blocks of a buffer (MAX_BUFFER)
          Written,   \* the lengths each caller gives
          MaxCalls,  \* bound: calls of a thread
          None       \* no thread

ASSUME TransportAssumption ==
    /\ Resident \subseteq Callers
    /\ Blocks \in Nat \ {0} /\ MaxCalls \in Nat
    /\ Written \in [Callers -> SUBSET Nat]
    /\ None \notin Callers

VARIABLES
    pc,            \* where each call is
    calls,         \* calls made
    rc,            \* result of the last ioctl: 0 or EFAULT
    cnx,           \* struct tss_ftpm_context of the process
    data,          \* its copy in ftpm_ioctl
    local_cnx,     \* its copy in sbi_ftpm_run_command
    response,      \* responseBuffer of the process
    pos,           \* blocks copied by the copy under way
    running,       \* the thread whose SBI call a hart executes
    InputBuffer,
    OutputBuffer,
    intact,        \* no copy has overwritten data other than the two buffers
    executed,      \* history: the executions
    slot           \* history: the execution that served a call

call == <<pc, calls, rc, cnx, data, local_cnx, response, pos, slot>>
vars == <<call, running, InputBuffer, OutputBuffer, intact, executed>>

Buffer  == 1 .. Blocks                       \* the places of a buffer
Held(n) == IF n > Blocks THEN Blocks ELSE n  \* what InputBuffer holds of a command of n blocks

Contexts == [written : Nat, read : 0 .. Blocks]  \* struct tss_ftpm_context without the addresses
Empty    == [written |-> 0, read |-> 0]

CommandBlocks  == (Callers \cup {None}) \X Nat \X Nat
ResponseBlocks == Nat \X Nat
Executions     == [caller : Callers, command : Seq(CommandBlocks), size : Buffer]

CommandBlock(t, i) == <<t, calls[t], i>>
Command(t, n) == [i \in 1 .. n |-> CommandBlock(t, i)]

-----------------------------------------------------------------------------
(* TSS_FTPM_Transmit and ftpm_ioctl.                                         *)

\* cnx.read is not initialised
Transmit(t) ==
    /\ pc[t] = "user" /\ calls[t] < MaxCalls
    /\ \E n \in Written[t] : cnx' = [cnx EXCEPT ![t].written = n]
    /\ calls' = [calls EXCEPT ![t] = @ + 1]
    /\ pc' = [pc EXCEPT ![t] = "ioctl"]
    /\ UNCHANGED <<rc, data, local_cnx, response, pos, slot,
                   running, InputBuffer, OutputBuffer, intact, executed>>

\* copy_from_user
IoctlEnter(t) ==
    /\ pc[t] = "ioctl"
    /\ \/ /\ data' = [data EXCEPT ![t] = cnx[t]]
          /\ pc' = [pc EXCEPT ![t] = "ecall"]
          /\ UNCHANGED rc
       \/ /\ t \notin Resident
          /\ rc' = [rc EXCEPT ![t] = "EFAULT"]
          /\ pc' = [pc EXCEPT ![t] = "user"]
          /\ UNCHANGED data
    /\ UNCHANGED <<calls, cnx, local_cnx, response, pos, slot,
                   running, InputBuffer, OutputBuffer, intact, executed>>

\* sbi_ecall on a hart that runs no other SBI call; copy_to_ftpm(&local_cnx, ...).
\* A copy of no blocks is over at once.
Ecall(t) ==
    /\ pc[t] = "ecall"
    /\ \E h \in Harts :
          /\ running[h] = None
          /\ running' = [running EXCEPT ![h] = t]
    /\ local_cnx' = [local_cnx EXCEPT ![t] = data[t]]
    /\ pos' = [pos EXCEPT ![t] = 0]
    /\ pc' = [pc EXCEPT ![t] = IF data[t].written = 0 THEN "execute" ELSE "copy_in"]
    /\ UNCHANGED <<calls, rc, cnx, data, response, slot,
                   InputBuffer, OutputBuffer, intact, executed>>

-----------------------------------------------------------------------------
(* ftpm_cmd_handler.                                                         *)

\* The i-th block of a copy to InputBuffer.  Past the end it falls on
\* OutputBuffer, if that comes next, or on something else.
Store(t, i) ==
    \/ /\ i \in Buffer
       /\ InputBuffer' = [InputBuffer EXCEPT ![i] = CommandBlock(t, i)]
       /\ UNCHANGED <<OutputBuffer, intact>>
    \/ /\ i - Blocks \in Buffer
       /\ OutputBuffer' = [OutputBuffer EXCEPT ![i - Blocks] = CommandBlock(t, i)]
       /\ UNCHANGED <<InputBuffer, intact>>
    \/ /\ i > Blocks
       /\ intact' = FALSE
       /\ UNCHANGED <<InputBuffer, OutputBuffer>>

\* mutant: a rest shorter than a block is dropped
MutCopyInShort(t) ==
    /\ pc[t] = "copy_in"
    /\ Store(t, pos[t] + 1)
    /\ pos' = [pos EXCEPT ![t] = @ + 1]
    /\ pc' = [pc EXCEPT ![t] = IF pos[t] + 2 >= local_cnx[t].written THEN "execute" ELSE @]
    /\ UNCHANGED <<calls, rc, cnx, data, local_cnx, response, slot, running, executed>>

\* copy_to_ftpm(InputBuffer, commandBuffer, length); its result is not looked at
CopyIn(t) ==
    /\ pc[t] = "copy_in"
    /\ \/ /\ Store(t, pos[t] + 1)
          /\ pos' = [pos EXCEPT ![t] = @ + 1]
          /\ pc' = [pc EXCEPT ![t] = IF pos[t] + 1 = local_cnx[t].written THEN "execute" ELSE @]
       \/ /\ t \notin Resident
          /\ pc' = [pc EXCEPT ![t] = "execute"]
          /\ UNCHANGED <<pos, InputBuffer, OutputBuffer, intact>>
    /\ UNCHANGED <<calls, rc, cnx, data, local_cnx, response, slot, running, executed>>

\* mutant: a response one block longer than OutputBuffer
MutExecute(t) ==
    /\ pc[t] = "execute"
    /\ \E n \in 1 .. Blocks + 1 :
          LET k == Len(executed) + 1
              request == [i \in 1 .. Held(local_cnx[t].written) |-> InputBuffer[i]] IN
          /\ executed' = Append(executed, [caller |-> t, command |-> request, size |-> n])
          /\ slot' = [slot EXCEPT ![t] = k]
          /\ OutputBuffer' = [i \in Buffer |-> IF i > n THEN OutputBuffer[i] ELSE <<k, i>>]
          /\ local_cnx' = [local_cnx EXCEPT ![t].read = n]
    /\ pos' = [pos EXCEPT ![t] = 0]
    /\ pc' = [pc EXCEPT ![t] = "copy_out"]
    /\ UNCHANGED <<calls, rc, cnx, data, response, running, InputBuffer, intact>>

\* _rpc__Send_Command; cnx->read = BufferSize.  ExecuteCommand refuses a command
\* that is not as long as its header says, or longer than MAX_COMMAND_SIZE, with
\* a response of its own.
Execute(t) ==
    /\ pc[t] = "execute"
    /\ \E n \in Buffer, garbled \in IF intact THEN {FALSE} ELSE BOOLEAN :
          LET k == Len(executed) + 1
              request == [i \in 1 .. Held(local_cnx[t].written) |-> InputBuffer[i]] IN
          /\ executed' = Append(executed, [caller |-> t, command |-> request, size |-> n])
          /\ slot' = [slot EXCEPT ![t] = k]
          /\ OutputBuffer' = [i \in Buffer |-> IF i > n THEN OutputBuffer[i]
                                               ELSE IF garbled THEN <<0, i>> ELSE <<k, i>>]
          /\ local_cnx' = [local_cnx EXCEPT ![t].read = n]
    /\ pos' = [pos EXCEPT ![t] = 0]
    /\ pc' = [pc EXCEPT ![t] = "copy_out"]
    /\ UNCHANGED <<calls, rc, cnx, data, response, running, InputBuffer, intact>>

\* a firmware whose data has been overwritten traps: sbi_trap_error, sbi_hart_hang
Hang(t) ==
    /\ ~intact
    /\ pc[t] \in {"copy_in", "execute", "copy_out", "eret"}
    /\ pc' = [pc EXCEPT ![t] = "hung"]
    /\ UNCHANGED <<calls, rc, cnx, data, local_cnx, response, pos, slot,
                   running, InputBuffer, OutputBuffer, intact, executed>>

\* mutant: the whole buffer is copied, not only the response
MutCopyOut(t) ==
    /\ pc[t] = "copy_out"
    /\ \/ /\ response' = [response EXCEPT ![t][pos[t] + 1] = OutputBuffer[pos[t] + 1]]
          /\ pos' = [pos EXCEPT ![t] = @ + 1]
          /\ pc' = [pc EXCEPT ![t] = IF pos[t] + 1 = Blocks THEN "eret" ELSE @]
       \/ /\ t \notin Resident
          /\ pc' = [pc EXCEPT ![t] = "eret"]
          /\ UNCHANGED <<response, pos>>
    /\ UNCHANGED <<calls, rc, cnx, data, local_cnx, slot,
                   running, InputBuffer, OutputBuffer, intact, executed>>

\* copy_from_ftpm(responseBuffer, OutputBuffer, BufferSize); its result is not looked at
CopyOut(t) ==
    /\ pc[t] = "copy_out"
    /\ \/ /\ response' = [response EXCEPT ![t][pos[t] + 1] = OutputBuffer[pos[t] + 1]]
          /\ pos' = [pos EXCEPT ![t] = @ + 1]
          /\ pc' = [pc EXCEPT ![t] = IF pos[t] + 1 = local_cnx[t].read THEN "eret" ELSE @]
       \/ /\ t \notin Resident
          /\ pc' = [pc EXCEPT ![t] = "eret"]
          /\ UNCHANGED <<response, pos>>
    /\ UNCHANGED <<calls, rc, cnx, data, local_cnx, slot,
                   running, InputBuffer, OutputBuffer, intact, executed>>

\* mutant: the hart hangs after a copy that failed
MutEcallHang(t) ==
    /\ pc[t] = "eret" /\ pos[t] = local_cnx[t].read
    /\ data' = [data EXCEPT ![t] = local_cnx[t]]
    /\ local_cnx' = [local_cnx EXCEPT ![t] = Empty]
    /\ pos' = [pos EXCEPT ![t] = 0]
    /\ running' = [h \in Harts |-> IF running[h] = t THEN None ELSE running[h]]
    /\ pc' = [pc EXCEPT ![t] = "ioctl_end"]
    /\ UNCHANGED <<calls, rc, cnx, response, slot, InputBuffer, OutputBuffer, intact, executed>>

\* the SBI call returns: copy_from_ftpm(cnx, &local_cnx, ...)
EcallReturn(t) ==
    /\ pc[t] = "eret"
    /\ data' = [data EXCEPT ![t] = local_cnx[t]]
    /\ local_cnx' = [local_cnx EXCEPT ![t] = Empty]
    /\ pos' = [pos EXCEPT ![t] = 0]
    /\ running' = [h \in Harts |-> IF running[h] = t THEN None ELSE running[h]]
    /\ pc' = [pc EXCEPT ![t] = "ioctl_end"]
    /\ UNCHANGED <<calls, rc, cnx, response, slot, InputBuffer, OutputBuffer, intact, executed>>

\* copy_to_user; ftpm_run_command has dropped the result of the SBI call
IoctlReturn(t) ==
    /\ pc[t] = "ioctl_end"
    /\ \/ /\ cnx' = [cnx EXCEPT ![t] = data[t]]
          /\ rc' = [rc EXCEPT ![t] = "0"]
       \/ /\ t \notin Resident
          /\ rc' = [rc EXCEPT ![t] = "EFAULT"]
          /\ UNCHANGED cnx
    /\ data' = [data EXCEPT ![t] = Empty]
    /\ pc' = [pc EXCEPT ![t] = "user"]
    /\ UNCHANGED <<calls, local_cnx, response, pos, slot,
                   running, InputBuffer, OutputBuffer, intact, executed>>

-----------------------------------------------------------------------------
Init ==
    /\ pc = [t \in Callers |-> "user"]
    /\ calls = [t \in Callers |-> 0]
    /\ rc = [t \in Callers |-> "0"]
    /\ cnx = [t \in Callers |-> Empty]
    /\ data = [t \in Callers |-> Empty]
    /\ local_cnx = [t \in Callers |-> Empty]
    /\ response = [t \in Callers |-> [i \in Buffer |-> <<0, 0>>]]
    /\ pos = [t \in Callers |-> 0]
    /\ running = [h \in Harts |-> None]
    /\ InputBuffer = [i \in Buffer |-> <<None, 0, 0>>]
    /\ OutputBuffer = [i \in Buffer |-> <<0, 0>>]
    /\ intact = TRUE
    /\ executed = <<>>
    /\ slot = [t \in Callers |-> 0]

Firmware(t) == CopyIn(t) \/ Execute(t) \/ CopyOut(t) \/ EcallReturn(t) \/ Hang(t)
Driver(t)   == IoctlEnter(t) \/ Ecall(t) \/ IoctlReturn(t)

Next == \E t \in Callers : Transmit(t) \/ Driver(t) \/ Firmware(t)

\* a hart runs on; the kernel's scheduler gives every runnable thread a hart again and again
Fairness == \A t \in Callers : WF_vars(Firmware(t)) /\ SF_vars(Driver(t))

Spec == Init /\ [][Next]_vars /\ Fairness

-----------------------------------------------------------------------------
\* the type of every variable
TypeOK ==
    /\ pc \in [Callers -> {"user", "ioctl", "ecall", "copy_in", "execute", "copy_out", "eret", "ioctl_end", "hung"}]
    /\ calls \in [Callers -> 0 .. MaxCalls]
    /\ rc \in [Callers -> {"0", "EFAULT"}]
    /\ cnx \in [Callers -> Contexts] /\ data \in [Callers -> Contexts] /\ local_cnx \in [Callers -> Contexts]
    /\ response \in [Callers -> [Buffer -> CommandBlocks \cup ResponseBlocks]]
    /\ pos \in [Callers -> Nat]
    /\ running \in [Harts -> Callers \cup {None}]
    /\ InputBuffer \in [Buffer -> CommandBlocks]
    /\ OutputBuffer \in [Buffer -> CommandBlocks \cup ResponseBlocks]
    /\ intact \in BOOLEAN /\ slot \in [Callers -> Nat]
    /\ executed \in Seq(Executions)

\* A caller whose buffers stay mapped holds, after a return without error, the
\* response of an execution of the command it sent, as far as InputBuffer holds
\* it: neither the faults nor the commands of other callers show in the two
\* buffers they share, as long as no copy has run past them.
OwnResponse ==
    \A t \in Resident :
        intact /\ pc[t] = "user" /\ calls[t] > 0 =>
            /\ rc[t] = "0"
            /\ slot[t] \in 1 .. Len(executed)
            /\ executed[slot[t]].command = Command(t, Held(cnx[t].written))
            /\ cnx[t].read = executed[slot[t]].size
            /\ \A i \in 1 .. cnx[t].read : response[t][i] = <<slot[t], i>>

\* Whatever reaches a caller's memory is a block of the response of an execution
\* of that caller, also when its own copy of the command failed half way, when
\* OutputBuffer holds a longer response of somebody else, or when somebody's
\* command has run into it.
OnlyOwnResponses ==
    intact => \A t \in Callers, i \in Buffer :
        \/ response[t][i] = <<0, 0>>
        \/ \E k \in 1 .. Len(executed) : executed[k].caller = t /\ response[t][i] = <<k, i>>

\* The path from the ioctl to the buffers and back implements a TPM that serves
\* one command at a time, until a caller gives a length the buffer cannot hold.
\* The call is served when ExecuteCommand runs.
Stage == [t \in Callers |-> CASE pc[t] = "user" -> "idle"
                              [] pc[t] \in {"copy_out", "eret", "ioctl_end"} -> "served"
                              [] OTHER -> "asked"]

Request == [t \in Callers |-> IF calls[t] = 0 THEN <<>> ELSE Command(t, cnx[t].written)]

Reply == [t \in Callers |-> IF pc[t] = "user" /\ rc[t] = "0"
                            THEN [i \in 1 .. cnx[t].read |-> response[t][i]] ELSE <<>>]

Service == INSTANCE TpmService WITH
    Capacity <- Blocks, stage <- Stage, request <- Request, log <- executed, reply <- Reply

ImplementsService == Service!Spec

\* Every ioctl returns, also when a copy of another caller has failed half way,
\* unless a copy has run past the buffers.
CallsReturn == \A t \in Callers : pc[t] = "ioctl" ~> pc[t] = "user" \/ ~intact
=============================================================================
