--------------------------- MODULE TransportProofs --------------------------
(***************************************************************************)
(* Theorems about Transport for every set of callers, every buffer size,   *)
(* every length a caller gives and every number of calls, on a machine     *)
(* with one hart (hart_count is 1 in platform/vivado-risc-v/platform.c).   *)
(***************************************************************************)
EXTENDS Transport, TLAPS

\* time limits of the provers, in seconds
USE SMTT(30), ZenonT(30)

Machine == {"copy_in", "execute", "copy_out", "eret"}

OneHart == \E h : Harts = {h}

\* an SBI call runs on a hart
Occupies == \A t \in Callers : pc[t] \in Machine => \E h \in Harts : running[h] = t

\* the sizes in the three copies of the context
Frame(t) ==
    /\ pc[t] = "ioctl" => calls[t] > 0
    /\ pc[t] = "ecall" => data[t].written = cnx[t].written /\ calls[t] > 0
    /\ pc[t] \in Machine => local_cnx[t].written = cnx[t].written /\ calls[t] > 0
    /\ pc[t] = "ioctl_end" => data[t].written = cnx[t].written /\ calls[t] > 0
    /\ pc[t] = "copy_in" => pos[t] < local_cnx[t].written
    /\ pc[t] = "copy_out" => pos[t] < local_cnx[t].read

\* what a call with mapped buffers has in InputBuffer
Shared(t) ==
    /\ pc[t] = "copy_in" => \A i \in 1 .. Held(pos[t]) : InputBuffer[i] = CommandBlock(t, i)
    /\ pc[t] = "execute" => \A i \in 1 .. Held(local_cnx[t].written) : InputBuffer[i] = CommandBlock(t, i)

\* what any call finds in OutputBuffer
Answer(t) ==
    pc[t] = "copy_out" =>
        /\ slot[t] \in 1 .. Len(executed) /\ executed[slot[t]].caller = t
        /\ \A i \in 1 .. local_cnx[t].read : OutputBuffer[i] = <<slot[t], i>>

\* which execution it was, and what has reached the caller
Private(t) ==
    /\ pc[t] \in {"copy_out", "eret", "ioctl_end"} \/ (pc[t] = "user" /\ calls[t] > 0) =>
          /\ slot[t] \in 1 .. Len(executed)
          /\ executed[slot[t]].command = Command(t, Held(cnx[t].written))
    /\ pc[t] \in {"copy_out", "eret"} => local_cnx[t].read = executed[slot[t]].size
    /\ pc[t] = "ioctl_end" => data[t].read = executed[slot[t]].size
    /\ pc[t] = "copy_out" => \A i \in 1 .. pos[t] : response[t][i] = <<slot[t], i>>
    /\ pc[t] = "eret" => \A i \in 1 .. local_cnx[t].read : response[t][i] = <<slot[t], i>>
    /\ pc[t] = "ioctl_end" => \A i \in 1 .. data[t].read : response[t][i] = <<slot[t], i>>
    /\ pc[t] = "user" /\ calls[t] > 0 =>
          /\ rc[t] = "0"
          /\ cnx[t].read = executed[slot[t]].size
          /\ \A i \in 1 .. cnx[t].read : response[t][i] = <<slot[t], i>>

TypeInv == TypeOK /\ \A t \in Callers : Frame(t)

\* the promises hold while the firmware's data is intact
Inv ==
    /\ TypeInv
    /\ Occupies
    /\ intact => \A t \in Callers : Answer(t)
    /\ intact => \A t \in Resident : Shared(t) /\ Private(t)
    /\ OnlyOwnResponses

\* a step of one call
Step(t) == Transmit(t) \/ Driver(t) \/ Firmware(t)

\* the part of the state that belongs to one call
Of(t) == <<pc[t], calls[t], rc[t], cnx[t], data[t], local_cnx[t], response[t], pos[t], slot[t]>>

Places == {"user", "ioctl", "ecall", "copy_in", "execute", "copy_out", "eret", "ioctl_end", "hung"}

Cells == CommandBlocks \cup ResponseBlocks

-----------------------------------------------------------------------------
LEMMA EmptyType == Empty \in Contexts
  BY TransportAssumption DEF Empty, Contexts

LEMMA InitTypeInv == Init => TypeInv
<1> SUFFICES ASSUME Init PROVE TypeInv
  OBVIOUS
<1>1. <<None, 0, 0>> \in CommandBlocks /\ <<0, 0>> \in ResponseBlocks
  BY DEF CommandBlocks, ResponseBlocks
<1>2. TypeOK
  BY <1>1, EmptyType, TransportAssumption DEF Init, TypeOK, Cells
<1>3. \A t \in Callers : Frame(t)
  BY ZenonT(30) DEF Init, Frame, Machine
<1> QED
  BY <1>2, <1>3 DEF TypeInv

\* the variables of a call are functions on the callers
LEMMA Domains ==
    ASSUME TypeOK
    PROVE  /\ DOMAIN pc = Callers /\ DOMAIN calls = Callers /\ DOMAIN rc = Callers
           /\ DOMAIN cnx = Callers /\ DOMAIN data = Callers /\ DOMAIN local_cnx = Callers
           /\ DOMAIN response = Callers /\ DOMAIN pos = Callers
           /\ DOMAIN slot = Callers
  BY DEF TypeOK

LEMMA PcType == ASSUME TypeOK PROVE pc \in [Callers -> Places]
  BY DEF TypeOK, Places

LEMMA PlaceFacts ==
    /\ "user" \in Places /\ "ioctl" \in Places /\ "ecall" \in Places /\ "copy_in" \in Places
    /\ "hung" \in Places /\ "execute" \in Places /\ "copy_out" \in Places /\ "eret" \in Places
    /\ "ioctl_end" \in Places
  BY DEF Places

\* TypeOK after a step, variable by variable
LEMMA TypeFromParts ==
    ASSUME pc' \in [Callers -> Places],
           calls' \in [Callers -> 0 .. MaxCalls] /\ rc' \in [Callers -> {"0", "EFAULT"}],
           cnx' \in [Callers -> Contexts] /\ data' \in [Callers -> Contexts] /\ local_cnx' \in [Callers -> Contexts],
           response' \in [Callers -> [Buffer -> Cells]] /\ pos' \in [Callers -> Nat],
           running' \in [Harts -> Callers \cup {None}],
           InputBuffer' \in [Buffer -> CommandBlocks] /\ OutputBuffer' \in [Buffer -> Cells],
           intact' \in BOOLEAN /\ slot' \in [Callers -> Nat],
           executed' \in Seq(Executions)
    PROVE  TypeOK'
  BY DEF TypeOK, Places, Cells

\* a block of a command falls on a buffer, or behind both
LEMMA StoreType ==
    ASSUME TypeOK, NEW t \in Callers, NEW i \in Nat, Store(t, i)
    PROVE  /\ InputBuffer' \in [Buffer -> CommandBlocks]
           /\ OutputBuffer' \in [Buffer -> Cells]
           /\ intact' \in BOOLEAN
<1>1. calls[t] \in Nat
  BY TransportAssumption DEF TypeOK
<1>2. CommandBlock(t, i) \in CommandBlocks
  BY <1>1 DEF CommandBlock, CommandBlocks
<1>3. CommandBlock(t, i) \in Cells
  BY <1>2 DEF Cells
<1>4. InputBuffer \in [Buffer -> CommandBlocks] /\ OutputBuffer \in [Buffer -> Cells] /\ intact \in BOOLEAN
  BY DEF TypeOK, Cells
<1> QED
  BY <1>2, <1>3, <1>4, ZenonT(30) DEF Store

LEMMA FrameSame == ASSUME NEW t \in Callers, Frame(t), UNCHANGED Of(t) PROVE Frame(t)'
  BY DEF Frame, Of

\* a step of one call leaves the others' state alone
LEMMA OthersKept ==
    ASSUME TypeOK, NEW t \in Callers, NEW u \in Callers, u # t, Step(t)
    PROVE  UNCHANGED Of(u)
<1> USE Domains
<1>1. CASE Transmit(t)
  BY <1>1 DEF Transmit, Of
<1>2. CASE IoctlEnter(t)
  BY <1>2 DEF IoctlEnter, Of
<1>3. CASE Ecall(t)
  BY <1>3 DEF Ecall, Of
<1>4. CASE CopyIn(t)
  BY <1>4 DEF CopyIn, Of
<1>5. CASE Hang(t)
  BY <1>5 DEF Hang, Of
<1>6. CASE Execute(t)
  BY <1>6 DEF Execute, Of
<1>7. CASE CopyOut(t)
  BY <1>7 DEF CopyOut, Of
<1>8. CASE EcallReturn(t)
  BY <1>8 DEF EcallReturn, Of
<1>9. CASE IoctlReturn(t)
  BY <1>9 DEF IoctlReturn, Of
<1> QED
  BY <1>1, <1>2, <1>3, <1>4, <1>5, <1>6, <1>7, <1>8, <1>9 DEF Step, Driver, Firmware

-----------------------------------------------------------------------------
LEMMA NextTypeInv == TypeInv /\ [Next]_vars => TypeInv'
<1> SUFFICES ASSUME TypeInv, [Next]_vars PROVE TypeInv'
  OBVIOUS
<1>a. TypeOK /\ \A t \in Callers : Frame(t)
  BY DEF TypeInv
<1>b. /\ pc \in [Callers -> Places]
      /\ calls \in [Callers -> 0 .. MaxCalls] /\ rc \in [Callers -> {"0", "EFAULT"}]
      /\ cnx \in [Callers -> Contexts] /\ data \in [Callers -> Contexts] /\ local_cnx \in [Callers -> Contexts]
      /\ response \in [Callers -> [Buffer -> Cells]] /\ pos \in [Callers -> Nat]
      /\ running \in [Harts -> Callers \cup {None}]
      /\ InputBuffer \in [Buffer -> CommandBlocks] /\ OutputBuffer \in [Buffer -> Cells]
      /\ intact \in BOOLEAN /\ slot \in [Callers -> Nat]
      /\ executed \in Seq(Executions)
  BY <1>a, PcType DEF TypeOK, Cells
<1>c. ASSUME NEW t \in Callers, Step(t), TypeOK', Frame(t)' PROVE TypeInv'
  BY <1>a, <1>c, OthersKept, FrameSame DEF TypeInv
<1>1. ASSUME NEW t \in Callers, Transmit(t) PROVE TypeInv'
  <2>1. PICK n \in Written[t] : cnx' = [cnx EXCEPT ![t].written = n]
    BY <1>1, ZenonT(30) DEF Transmit
  <2>2. /\ calls[t] < MaxCalls
        /\ calls' = [calls EXCEPT ![t] = @ + 1]
        /\ pc' = [pc EXCEPT ![t] = "ioctl"]
        /\ UNCHANGED <<rc, data, local_cnx, response, pos, slot,
                       running, InputBuffer, OutputBuffer, intact, executed>>
    BY <1>1 DEF Transmit
  <2>3. [cnx[t] EXCEPT !.written = n] \in Contexts
    <3>1. n \in Nat
      BY TransportAssumption
    <3>2. cnx[t] \in [written : Nat, read : 0 .. Blocks]
      BY <1>b DEF Contexts
    <3> QED
      BY <3>1, <3>2 DEF Contexts
  <2>4. cnx' \in [Callers -> Contexts]
    BY <1>b, <2>1, <2>3
  <2>5. calls' \in [Callers -> 0 .. MaxCalls] /\ calls'[t] > 0
    BY <1>b, <2>2, TransportAssumption
  <2>6. pc' \in [Callers -> Places]
    BY <1>b, <2>2, PlaceFacts
  <2>7. TypeOK'
    BY <1>b, <2>2, <2>4, <2>5, <2>6, TypeFromParts, Zenon
  <2>8. pc'[t] = "ioctl"
    BY <1>b, <2>2
  <2>9. Frame(t)'
    BY <2>5, <2>8 DEF Frame, Machine
  <2> QED
    BY <1>1, <1>c, <2>7, <2>9 DEF Step
<1>2. ASSUME NEW t \in Callers, IoctlEnter(t) PROVE TypeInv'
  <2>1. /\ pc[t] = "ioctl"
        /\ UNCHANGED <<calls, cnx, local_cnx, response, pos, slot,
                       running, InputBuffer, OutputBuffer, intact, executed>>
    BY <1>2 DEF IoctlEnter
  <2>2. calls[t] > 0
    BY <1>a, <2>1 DEF Frame
  <2>3. CASE data' = [data EXCEPT ![t] = cnx[t]] /\ pc' = [pc EXCEPT ![t] = "ecall"] /\ UNCHANGED rc
    <3>1. data' \in [Callers -> Contexts] /\ data'[t] = cnx[t]
      BY <1>b, <2>3
    <3>2. pc' \in [Callers -> Places] /\ pc'[t] = "ecall"
      BY <1>b, <2>3, PlaceFacts
    <3>3. TypeOK'
      BY <1>b, <2>1, <2>3, <3>1, <3>2, TypeFromParts, Zenon
    <3>4. Frame(t)'
      BY <2>1, <2>2, <3>1, <3>2 DEF Frame, Machine
    <3> QED
      BY <1>2, <1>c, <3>3, <3>4 DEF Step, Driver
  <2>4. CASE rc' = [rc EXCEPT ![t] = "EFAULT"] /\ pc' = [pc EXCEPT ![t] = "user"] /\ UNCHANGED data
    <3>1. rc' \in [Callers -> {"0", "EFAULT"}]
      BY <1>b, <2>4
    <3>2. pc' \in [Callers -> Places] /\ pc'[t] = "user"
      BY <1>b, <2>4, PlaceFacts
    <3>3. TypeOK'
      BY <1>b, <2>1, <2>4, <3>1, <3>2, TypeFromParts, Zenon
    <3>4. Frame(t)'
      BY <3>2 DEF Frame, Machine
    <3> QED
      BY <1>2, <1>c, <3>3, <3>4 DEF Step, Driver
  <2> QED
    BY <1>2, <2>3, <2>4 DEF IoctlEnter
<1>3. ASSUME NEW t \in Callers, Ecall(t) PROVE TypeInv'
  <2>1. /\ pc[t] = "ecall"
        /\ local_cnx' = [local_cnx EXCEPT ![t] = data[t]]
        /\ pos' = [pos EXCEPT ![t] = 0]
        /\ pc' = [pc EXCEPT ![t] = IF data[t].written = 0 THEN "execute" ELSE "copy_in"]
        /\ UNCHANGED <<calls, rc, cnx, data, response, slot,
                       InputBuffer, OutputBuffer, intact, executed>>
    BY <1>3 DEF Ecall
  <2>2. PICK h \in Harts : running' = [running EXCEPT ![h] = t]
    BY <1>3, ZenonT(30) DEF Ecall
  <2>3. data[t].written = cnx[t].written /\ calls[t] > 0
    BY <1>a, <2>1 DEF Frame
  <2>4. running' \in [Harts -> Callers \cup {None}]
    BY <1>b, <2>2
  <2>5. local_cnx' \in [Callers -> Contexts] /\ local_cnx'[t] = data[t]
    BY <1>b, <2>1
  <2>6. pos' \in [Callers -> Nat] /\ pos'[t] = 0
    BY <1>b, <2>1, TransportAssumption
  <2>7. pc' \in [Callers -> Places] /\ pc'[t] = IF data[t].written = 0 THEN "execute" ELSE "copy_in"
    BY <1>b, <2>1, PlaceFacts
  <2>8. TypeOK'
    BY <1>b, <2>1, <2>4, <2>5, <2>6, <2>7, TypeFromParts, Zenon
  <2>9. pc'[t] = "copy_in" => pos'[t] < local_cnx'[t].written
    <3>1. data[t].written \in Nat
      BY <1>b DEF Contexts
    <3> QED
      BY <2>5, <2>6, <2>7, <3>1
  <2>10. Frame(t)'
    BY <2>1, <2>3, <2>5, <2>7, <2>9 DEF Frame, Machine
  <2> QED
    BY <1>3, <1>c, <2>8, <2>10 DEF Step, Driver
<1>4. ASSUME NEW t \in Callers, CopyIn(t) PROVE TypeInv'
  <2>1. /\ pc[t] = "copy_in"
        /\ UNCHANGED <<calls, rc, cnx, data, local_cnx, response, slot, running, executed>>
    BY <1>4 DEF CopyIn
  <2>2. local_cnx[t].written = cnx[t].written /\ calls[t] > 0 /\ pos[t] < local_cnx[t].written
    BY <1>a, <2>1 DEF Frame, Machine
  <2>3. pos[t] \in Nat /\ pos[t] + 1 \in Nat /\ local_cnx[t].written \in Nat
    BY <1>b DEF Contexts
  <2>4. CASE /\ Store(t, pos[t] + 1)
             /\ pos' = [pos EXCEPT ![t] = @ + 1]
             /\ pc' = [pc EXCEPT ![t] = IF pos[t] + 1 = local_cnx[t].written THEN "execute" ELSE @]
    <3>1. InputBuffer' \in [Buffer -> CommandBlocks] /\ OutputBuffer' \in [Buffer -> Cells] /\ intact' \in BOOLEAN
      BY <1>a, <2>3, <2>4, StoreType
    <3>2. pos' \in [Callers -> Nat] /\ pos'[t] = pos[t] + 1
      BY <1>b, <2>3, <2>4
    <3>3. pc' \in [Callers -> Places] /\ pc'[t] = IF pos[t] + 1 = local_cnx[t].written THEN "execute" ELSE "copy_in"
      BY <1>b, <2>1, <2>4, PlaceFacts
    <3>4. TypeOK'
      BY <1>b, <2>1, <3>1, <3>2, <3>3, TypeFromParts, Zenon
    <3>5. pc'[t] = "copy_in" => pos'[t] < local_cnx[t].written
      BY <2>2, <2>3, <3>2, <3>3
    <3>6. Frame(t)'
      BY <2>1, <2>2, <3>3, <3>5 DEF Frame, Machine
    <3> QED
      BY <1>4, <1>c, <3>4, <3>6 DEF Step, Firmware
  <2>5. CASE pc' = [pc EXCEPT ![t] = "execute"] /\ UNCHANGED <<pos, InputBuffer, OutputBuffer, intact>>
    <3>1. pc' \in [Callers -> Places] /\ pc'[t] = "execute"
      BY <1>b, <2>5, PlaceFacts
    <3>2. TypeOK'
      BY <1>b, <2>1, <2>5, <3>1, TypeFromParts, Zenon
    <3>3. Frame(t)'
      BY <2>1, <2>2, <3>1 DEF Frame, Machine
    <3> QED
      BY <1>4, <1>c, <3>2, <3>3 DEF Step, Firmware
  <2> QED
    BY <1>4, <2>4, <2>5 DEF CopyIn
<1>5. ASSUME NEW t \in Callers, Hang(t) PROVE TypeInv'
  <2>1. /\ pc' = [pc EXCEPT ![t] = "hung"]
        /\ UNCHANGED <<calls, rc, cnx, data, local_cnx, response, pos, slot,
                       running, InputBuffer, OutputBuffer, intact, executed>>
    BY <1>5 DEF Hang
  <2>2. pc' \in [Callers -> Places] /\ pc'[t] = "hung"
    BY <1>b, <2>1, PlaceFacts
  <2>3. TypeOK'
    BY <1>b, <2>1, <2>2, TypeFromParts, Zenon
  <2>4. Frame(t)'
    BY <2>2 DEF Frame, Machine
  <2> QED
    BY <1>5, <1>c, <2>3, <2>4 DEF Step, Firmware
<1>6. ASSUME NEW t \in Callers, Execute(t) PROVE TypeInv'
  <2> DEFINE k == Len(executed) + 1
             request == [i \in 1 .. Held(local_cnx[t].written) |-> InputBuffer[i]]
  <2>1. PICK n \in Buffer, garbled \in (IF intact THEN {FALSE} ELSE BOOLEAN) :
            /\ executed' = Append(executed, [caller |-> t, command |-> request, size |-> n])
            /\ slot' = [slot EXCEPT ![t] = k]
            /\ OutputBuffer' = [i \in Buffer |-> IF i > n THEN OutputBuffer[i]
                                                 ELSE IF garbled THEN <<0, i>> ELSE <<k, i>>]
            /\ local_cnx' = [local_cnx EXCEPT ![t].read = n]
    BY <1>6, ZenonT(30) DEF Execute
  <2>2. /\ pc[t] = "execute"
        /\ pos' = [pos EXCEPT ![t] = 0]
        /\ pc' = [pc EXCEPT ![t] = "copy_out"]
        /\ UNCHANGED <<calls, rc, cnx, data, response, running, InputBuffer, intact>>
    BY <1>6 DEF Execute
  <2>3. local_cnx[t].written = cnx[t].written /\ calls[t] > 0
    BY <1>a, <2>2 DEF Frame, Machine
  <2>4. request \in Seq(CommandBlocks)
    <3> DEFINE m == Held(local_cnx[t].written)
    <3>1. local_cnx[t].written \in Nat
      BY <1>b DEF Contexts
    <3>2. m \in 0 .. Blocks
      BY <3>1, TransportAssumption DEF Held
    <3> HIDE DEF m
    <3>3. \A i \in 1 .. m : InputBuffer[i] \in CommandBlocks
      BY <1>b, <3>2, TransportAssumption DEF Buffer
    <3>4. [i \in 1 .. m |-> InputBuffer[i]] \in Seq(CommandBlocks)
      BY <3>2, <3>3
    <3> QED
      BY <3>4 DEF m
  <2>5. k \in Nat
    BY <1>b
  <2>6. OutputBuffer' \in [Buffer -> Cells]
    <3>1. \A i \in Buffer : <<k, i>> \in Cells /\ <<0, i>> \in Cells
      BY <2>5, TransportAssumption DEF ResponseBlocks, Buffer, Cells
    <3> HIDE DEF k
    <3> QED
      BY <1>b, <2>1, <3>1
  <2>7. slot' \in [Callers -> Nat]
    BY <1>b, <2>1, <2>5
  <2>8. executed' \in Seq(Executions)
    <3>1. [caller |-> t, command |-> request, size |-> n] \in Executions
      BY <2>4 DEF Executions
    <3> HIDE DEF request
    <3> QED
      BY <1>b, <2>1, <3>1
  <2> HIDE DEF k, request
  <2>9. local_cnx' \in [Callers -> Contexts] /\ local_cnx'[t].written = local_cnx[t].written /\ local_cnx'[t].read = n
    <3>1. local_cnx[t] \in [written : Nat, read : 0 .. Blocks] /\ n \in 0 .. Blocks
      BY <1>b, TransportAssumption DEF Contexts, Buffer
    <3>2. [local_cnx[t] EXCEPT !.read = n] \in Contexts
      BY <3>1 DEF Contexts
    <3>3. local_cnx'[t] = [local_cnx[t] EXCEPT !.read = n]
      BY <1>b, <2>1
    <3> QED
      BY <1>b, <2>1, <3>1, <3>2, <3>3
  <2>10. pos' \in [Callers -> Nat] /\ pos'[t] = 0
    BY <1>b, <2>2, TransportAssumption
  <2>11. pc' \in [Callers -> Places] /\ pc'[t] = "copy_out"
    BY <1>b, <2>2, PlaceFacts
  <2>12. TypeOK'
    BY <1>b, <2>2, <2>6, <2>7, <2>8, <2>9, <2>10, <2>11, TypeFromParts, Zenon
  <2>13. pos'[t] < local_cnx'[t].read
    BY <2>9, <2>10, TransportAssumption DEF Buffer
  <2>14. Frame(t)'
    BY <2>2, <2>3, <2>9, <2>11, <2>13 DEF Frame, Machine
  <2> QED
    BY <1>6, <1>c, <2>12, <2>14 DEF Step, Firmware
<1>7. ASSUME NEW t \in Callers, CopyOut(t) PROVE TypeInv'
  <2>1. /\ pc[t] = "copy_out"
        /\ UNCHANGED <<calls, rc, cnx, data, local_cnx, slot,
                       running, InputBuffer, OutputBuffer, intact, executed>>
    BY <1>7 DEF CopyOut
  <2>2. /\ local_cnx[t].written = cnx[t].written /\ calls[t] > 0
        /\ pos[t] < local_cnx[t].read
    BY <1>a, <2>1 DEF Frame, Machine
  <2>3. local_cnx[t].read \in 0 .. Blocks
    BY <1>b DEF Contexts
  <2>4. pos[t] \in Nat /\ pos[t] + 1 \in Buffer
    BY <1>b, <2>2, <2>3, TransportAssumption DEF Buffer
  <2>5. CASE /\ response' = [response EXCEPT ![t][pos[t] + 1] = OutputBuffer[pos[t] + 1]]
             /\ pos' = [pos EXCEPT ![t] = @ + 1]
             /\ pc' = [pc EXCEPT ![t] = IF pos[t] + 1 = local_cnx[t].read THEN "eret" ELSE @]
    <3>1. OutputBuffer[pos[t] + 1] \in Cells /\ response[t] \in [Buffer -> Cells]
      BY <1>b, <2>4
    <3>2. [response[t] EXCEPT ![pos[t] + 1] = OutputBuffer[pos[t] + 1]] \in [Buffer -> Cells]
      BY <3>1, ZenonT(30)
    <3>3. response' \in [Callers -> [Buffer -> Cells]]
      BY <1>b, <2>5, <3>2
    <3>4. pos' \in [Callers -> Nat] /\ pos'[t] = pos[t] + 1
      BY <1>b, <2>4, <2>5
    <3>5. pc' \in [Callers -> Places] /\ pc'[t] = IF pos[t] + 1 = local_cnx[t].read THEN "eret" ELSE "copy_out"
      BY <1>b, <2>1, <2>5, PlaceFacts
    <3>6. TypeOK'
      BY <1>b, <2>1, <3>3, <3>4, <3>5, TypeFromParts, Zenon
    <3>7. pc'[t] = "copy_out" => pos'[t] < local_cnx[t].read
      BY <2>2, <2>3, <2>4, <3>4, <3>5
    <3>8. Frame(t)'
      BY <2>1, <2>2, <3>5, <3>7 DEF Frame, Machine
    <3> QED
      BY <1>7, <1>c, <3>6, <3>8 DEF Step, Firmware
  <2>6. CASE pc' = [pc EXCEPT ![t] = "eret"] /\ UNCHANGED <<response, pos>>
    <3>1. pc' \in [Callers -> Places] /\ pc'[t] = "eret"
      BY <1>b, <2>6, PlaceFacts
    <3>2. TypeOK'
      BY <1>b, <2>1, <2>6, <3>1, TypeFromParts, Zenon
    <3>3. Frame(t)'
      BY <2>1, <2>2, <3>1 DEF Frame, Machine
    <3> QED
      BY <1>7, <1>c, <3>2, <3>3 DEF Step, Firmware
  <2> QED
    BY <1>7, <2>5, <2>6 DEF CopyOut
<1>8. ASSUME NEW t \in Callers, EcallReturn(t) PROVE TypeInv'
  <2>1. /\ pc[t] = "eret"
        /\ data' = [data EXCEPT ![t] = local_cnx[t]]
        /\ local_cnx' = [local_cnx EXCEPT ![t] = Empty]
        /\ pos' = [pos EXCEPT ![t] = 0]
        /\ running' = [h \in Harts |-> IF running[h] = t THEN None ELSE running[h]]
        /\ pc' = [pc EXCEPT ![t] = "ioctl_end"]
        /\ UNCHANGED <<calls, rc, cnx, response, slot, InputBuffer, OutputBuffer, intact, executed>>
    BY <1>8 DEF EcallReturn
  <2>2. local_cnx[t].written = cnx[t].written /\ calls[t] > 0
    BY <1>a, <2>1 DEF Frame, Machine
  <2>3. data' \in [Callers -> Contexts] /\ data'[t] = local_cnx[t]
    BY <1>b, <2>1
  <2>4. local_cnx' \in [Callers -> Contexts]
    BY <1>b, <2>1, EmptyType
  <2>5. pos' \in [Callers -> Nat]
    BY <1>b, <2>1, TransportAssumption
  <2>6. running' \in [Harts -> Callers \cup {None}]
    BY <1>b, <2>1
  <2>7. pc' \in [Callers -> Places] /\ pc'[t] = "ioctl_end"
    BY <1>b, <2>1, PlaceFacts
  <2>8. TypeOK'
    BY <1>b, <2>1, <2>3, <2>4, <2>5, <2>6, <2>7, TypeFromParts, Zenon
  <2>9. Frame(t)'
    BY <2>1, <2>2, <2>3, <2>7 DEF Frame, Machine
  <2> QED
    BY <1>8, <1>c, <2>8, <2>9 DEF Step, Firmware
<1>9. ASSUME NEW t \in Callers, IoctlReturn(t) PROVE TypeInv'
  <2>1. /\ data' = [data EXCEPT ![t] = Empty]
        /\ pc' = [pc EXCEPT ![t] = "user"]
        /\ UNCHANGED <<calls, local_cnx, response, pos, slot,
                       running, InputBuffer, OutputBuffer, intact, executed>>
    BY <1>9 DEF IoctlReturn
  <2>2. cnx' \in [Callers -> Contexts]
    <3>1. cnx' = [cnx EXCEPT ![t] = data[t]] \/ cnx' = cnx
      BY <1>9 DEF IoctlReturn
    <3> QED
      BY <1>b, <3>1, ZenonT(30)
  <2>3. rc' \in [Callers -> {"0", "EFAULT"}]
    <3>1. rc' = [rc EXCEPT ![t] = "0"] \/ rc' = [rc EXCEPT ![t] = "EFAULT"]
      BY <1>9 DEF IoctlReturn
    <3> QED
      BY <1>b, <3>1, ZenonT(30)
  <2>4. data' \in [Callers -> Contexts]
    BY <1>b, <2>1, EmptyType
  <2>5. pc' \in [Callers -> Places] /\ pc'[t] = "user"
    BY <1>b, <2>1, PlaceFacts
  <2>6. TypeOK'
    BY <1>b, <2>1, <2>2, <2>3, <2>4, <2>5, TypeFromParts, Zenon
  <2>7. Frame(t)'
    BY <2>5 DEF Frame, Machine
  <2> QED
    BY <1>9, <1>c, <2>6, <2>7 DEF Step, Driver
<1>10. CASE UNCHANGED vars
  BY <1>10 DEF TypeInv, TypeOK, Frame, Machine, vars, call
<1> QED
  BY <1>1, <1>2, <1>3, <1>4, <1>5, <1>6, <1>7, <1>8, <1>9, <1>10 DEF Next, Driver, Firmware

\* Every variable of the transport keeps its type, for any number of callers,
\* harts, blocks and calls and for every length a caller gives.
THEOREM TypeCorrect == Spec => []TypeOK
<1>1. TypeInv => TypeOK
  BY DEF TypeInv
<1> QED
  BY InitTypeInv, NextTypeInv, <1>1, PTL DEF Spec

-----------------------------------------------------------------------------
(* One hart: at most one call is in machine mode, so nobody else touches the *)
(* shared buffers between its steps.                                         *)

LEMMA Alone ==
    ASSUME OneHart, Occupies, NEW t \in Callers, NEW u \in Callers,
           pc[t] \in Machine, pc[u] \in Machine
    PROVE  t = u
  BY DEF OneHart, Occupies

LEMMA SharedSame ==
    ASSUME NEW t \in Callers, Shared(t), UNCHANGED Of(t),
           pc[t] \in Machine => UNCHANGED <<InputBuffer, OutputBuffer>>
    PROVE  Shared(t)'
<1>1. UNCHANGED <<pc[t], calls[t], local_cnx[t], pos[t], slot[t]>>
  BY DEF Of
<1>2. CASE pc[t] \in Machine
  BY <1>1, <1>2 DEF Shared, CommandBlock, Held
<1>3. CASE pc[t] \notin Machine
  BY <1>1, <1>3 DEF Shared, Machine
<1> QED
  BY <1>2, <1>3

\* an execution, once recorded, stays
LEMMA ExecutedKept ==
    ASSUME TypeOK, NEW t \in Callers, Step(t)
    PROVE  \A k \in 1 .. Len(executed) : k \in 1 .. Len(executed') /\ executed'[k] = executed[k]
<1>1. CASE UNCHANGED executed
  BY <1>1
<1>2. ASSUME NEW e, executed' = Append(executed, e)
      PROVE  \A k \in 1 .. Len(executed) : k \in 1 .. Len(executed') /\ executed'[k] = executed[k]
  <2>1. executed \in Seq(Executions)
    BY DEF TypeOK
  <2> QED
    BY <1>2, <2>1
<1>3. CASE Execute(t)
  <2>1. \E e : executed' = Append(executed, e)
    BY <1>3 DEF Execute
  <2> QED
    BY <1>2, <2>1
<1>4. CASE ~Execute(t)
  BY <1>1, <1>4 DEF Step, Transmit, Driver, Firmware, IoctlEnter, Ecall, CopyIn, CopyOut, EcallReturn,
                    IoctlReturn, Hang
<1> QED
  BY <1>3, <1>4

LEMMA AnswerSame ==
    ASSUME NEW t \in Callers, Answer(t), UNCHANGED Of(t),
           pc[t] \in Machine => UNCHANGED <<InputBuffer, OutputBuffer>>,
           \A k \in 1 .. Len(executed) : k \in 1 .. Len(executed') /\ executed'[k] = executed[k]
    PROVE  Answer(t)'
<1>1. UNCHANGED <<pc[t], local_cnx[t], slot[t]>>
  BY DEF Of
<1>2. CASE pc[t] = "copy_out"
  BY <1>1, <1>2 DEF Answer, Machine
<1>3. CASE pc[t] # "copy_out"
  BY <1>1, <1>3 DEF Answer
<1> QED
  BY <1>2, <1>3

LEMMA PrivateSame ==
    ASSUME NEW t \in Callers, Private(t), UNCHANGED Of(t),
           \A k \in 1 .. Len(executed) : k \in 1 .. Len(executed') /\ executed'[k] = executed[k]
    PROVE  Private(t)'
<1>1. UNCHANGED <<pc[t], calls[t], rc[t], cnx[t], data[t], local_cnx[t], response[t], pos[t], slot[t]>>
  BY DEF Of
<1>2. Command(t, Held(cnx[t].written))' = Command(t, Held(cnx[t].written))
  BY <1>1 DEF Command, CommandBlock, Held
<1> QED
  BY <1>1, <1>2 DEF Private

\* the shared buffers change only in machine mode
LEMMA BuffersKept ==
    ASSUME NEW t \in Callers, Step(t), pc[t] \notin Machine
    PROVE  UNCHANGED <<InputBuffer, OutputBuffer>>
  BY DEF Step, Transmit, Driver, Firmware, IoctlEnter, Ecall, CopyIn, Execute, CopyOut,
         EcallReturn, IoctlReturn, Hang, Machine

\* data of the firmware is lost only where a copy runs past InputBuffer ...
LEMMA IntactStep ==
    ASSUME NEW t \in Callers, Step(t)
    PROVE  intact' = intact \/ (CopyIn(t) /\ Store(t, pos[t] + 1) /\ pos[t] + 1 > Blocks /\ intact' = FALSE)
<1>1. CASE CopyIn(t)
  <2>1. CASE Store(t, pos[t] + 1)
    BY <1>1, <2>1, ZenonT(30) DEF Store
  <2> QED
    BY <1>1, <2>1, ZenonT(30) DEF CopyIn
<1>2. CASE ~CopyIn(t)
  BY <1>2 DEF Step, Transmit, Driver, Firmware, IoctlEnter, Ecall, Execute, CopyOut, EcallReturn, IoctlReturn, Hang
<1> QED
  BY <1>1, <1>2

\* ... and never comes back
LEMMA IntactBack ==
    ASSUME NEW t \in Callers, Step(t), intact'
    PROVE  intact
  BY IntactStep, ZenonT(30)

\* what a step of call t leaves alone, seen from another call
LEMMA Others ==
    ASSUME OneHart, TypeOK, Occupies, NEW t \in Callers, NEW u \in Callers, u # t, Step(t)
    PROVE  /\ Answer(u) => Answer(u)'
           /\ Shared(u) => Shared(u)'
           /\ Private(u) => Private(u)'
<1>1. UNCHANGED Of(u)
  BY OthersKept
<1>2. pc[u] \in Machine => UNCHANGED <<InputBuffer, OutputBuffer>>
  <2>1. CASE pc[t] \in Machine
    BY <2>1, Alone
  <2>2. CASE pc[t] \notin Machine
    BY <2>2, BuffersKept
  <2> QED
    BY <2>1, <2>2
<1>3. \A k \in 1 .. Len(executed) : k \in 1 .. Len(executed') /\ executed'[k] = executed[k]
  BY ExecutedKept
<1>4. Answer(u) => Answer(u)'
  BY <1>1, <1>2, <1>3, AnswerSame
<1>5. Shared(u) => Shared(u)'
  BY <1>1, <1>2, SharedSame
<1>6. Private(u) => Private(u)'
  BY <1>1, <1>3, PrivateSame
<1> QED
  BY <1>4, <1>5, <1>6

LEMMA InitInv == Init => Inv
<1> SUFFICES ASSUME Init PROVE Inv
  OBVIOUS
<1>1. TypeInv
  BY InitTypeInv
<1>2. Occupies
  BY DEF Init, Occupies, Machine
<1>3. ASSUME NEW t \in Callers PROVE Answer(t) /\ Shared(t) /\ Private(t)
  <2>1. pc[t] = "user" /\ calls[t] = 0
    BY DEF Init
  <2> QED
    BY <2>1 DEF Answer, Shared, Private
<1>4. OnlyOwnResponses
  <2>1. \A t \in Callers, i \in Buffer : response[t][i] = <<0, 0>>
    BY DEF Init
  <2> QED
    BY <2>1 DEF OnlyOwnResponses
<1> QED
  BY <1>1, <1>2, <1>3, <1>4, TransportAssumption DEF Inv

\* what InputBuffer holds of a copy, block by block
LEMMA HeldFacts ==
    ASSUME NEW n \in Nat
    PROVE  /\ Held(n) \in 0 .. Blocks /\ Held(0) = 0
           /\ n + 1 \in Buffer => Held(n) = n /\ Held(n + 1) = n + 1
           /\ n + 1 > Blocks => Held(n) = Blocks /\ Held(n + 1) = Blocks
           /\ n <= Blocks => Held(n) = n
  BY TransportAssumption DEF Held, Buffer

\* the execution a call finds in OutputBuffer is its own
LEMMA OwnAnswer ==
    ASSUME TypeOK, intact, intact', NEW t \in Callers, Answer(t), Step(t)
    PROVE  Answer(t)'
<1>1. CASE Execute(t)
  <2> DEFINE k == Len(executed) + 1
             request == [i \in 1 .. Held(local_cnx[t].written) |-> InputBuffer[i]]
  <2>1. PICK n \in Buffer :
            /\ executed' = Append(executed, [caller |-> t, command |-> request, size |-> n])
            /\ slot' = [slot EXCEPT ![t] = k]
            /\ OutputBuffer' = [i \in Buffer |-> IF i > n THEN OutputBuffer[i] ELSE <<k, i>>]
            /\ local_cnx' = [local_cnx EXCEPT ![t].read = n]
    BY <1>1, ZenonT(30) DEF Execute
  <2> HIDE DEF request
  <2>2. k \in 1 .. Len(executed') /\ executed'[k] = [caller |-> t, command |-> request, size |-> n]
    <3>1. executed \in Seq(Executions)
      BY DEF TypeOK
    <3> QED
      BY <2>1, <3>1
  <2> HIDE DEF k
  <2>3. slot'[t] = k
    BY <2>1, Domains
  <2>4. local_cnx'[t].read = n
    <3>1. local_cnx'[t] = [local_cnx[t] EXCEPT !.read = n]
      BY <2>1, Domains
    <3>2. local_cnx[t] \in Contexts
      BY DEF TypeOK
    <3> QED
      BY <3>1, <3>2 DEF Contexts
  <2>5. \A i \in 1 .. n : OutputBuffer'[i] = <<k, i>>
    BY <2>1, TransportAssumption DEF Buffer
  <2> QED
    BY <2>2, <2>3, <2>4, <2>5 DEF Answer
<1>2. CASE CopyOut(t)
  <2>1. pc[t] = "copy_out" /\ UNCHANGED <<local_cnx, slot, OutputBuffer, executed>>
    BY <1>2 DEF CopyOut
  <2> QED
    BY <2>1 DEF Answer
<1>3. CASE ~Execute(t) /\ ~CopyOut(t)
  <2>1. pc'[t] # "copy_out"
    <3> USE Domains
    <3>1. CASE Transmit(t) \/ IoctlEnter(t) \/ Ecall(t) \/ IoctlReturn(t)
      BY <3>1 DEF Transmit, IoctlEnter, Ecall, IoctlReturn
    <3>2. CASE CopyIn(t) \/ EcallReturn(t) \/ Hang(t)
      BY <3>2 DEF CopyIn, EcallReturn, Hang
    <3> QED
      BY <1>3, <3>1, <3>2 DEF Step, Driver, Firmware
  <2> QED
    BY <2>1 DEF Answer
<1> QED
  BY <1>1, <1>2, <1>3

\* a step of a call with mapped buffers
LEMMA Own ==
    ASSUME Inv, intact, intact', NEW t \in Resident, Step(t)
    PROVE  Shared(t)' /\ Private(t)'
<1>a. t \in Callers /\ TypeOK /\ Frame(t) /\ Shared(t) /\ Private(t) /\ Answer(t)
  BY TransportAssumption DEF Inv, TypeInv
<1>b. /\ calls[t] \in Nat /\ pos[t] \in Nat /\ Blocks \in Nat
      /\ cnx[t] \in Contexts /\ data[t] \in Contexts /\ local_cnx[t] \in Contexts
      /\ response[t] \in [Buffer -> Cells]
  BY <1>a, TransportAssumption DEF TypeOK, Cells
<1>c. local_cnx[t].written \in Nat /\ local_cnx[t].read \in 0 .. Blocks
  BY <1>b DEF Contexts
<1>1. CASE Transmit(t)
  <2>1. pc'[t] = "ioctl"
    BY <1>a, <1>1, Domains DEF Transmit
  <2> QED
    BY <2>1 DEF Shared, Private
<1>2. CASE IoctlEnter(t)
  <2>1. pc'[t] = "ecall"
    BY <1>a, <1>2, Domains DEF IoctlEnter
  <2> QED
    BY <2>1 DEF Shared, Private
<1>3. CASE Ecall(t)
  <2>1. /\ pos'[t] = 0 /\ local_cnx'[t] = data[t]
        /\ pc'[t] = "copy_in" \/ (pc'[t] = "execute" /\ data[t].written = 0)
    BY <1>a, <1>3, Domains DEF Ecall
  <2>2. Held(0) = 0
    BY HeldFacts
  <2>3. Shared(t)'
    BY <2>1, <2>2 DEF Shared, Held
  <2> QED
    BY <2>1, <2>3 DEF Private
<1>4. CASE CopyIn(t)
  <2> DEFINE i == pos[t] + 1
  <2>1. /\ Store(t, i)
        /\ pos'[t] = i
        /\ pc'[t] = IF i = local_cnx[t].written THEN "execute" ELSE "copy_in"
        /\ pc[t] = "copy_in"
        /\ UNCHANGED <<calls, local_cnx>>
    BY <1>a, <1>4, Domains DEF CopyIn
  <2>2. \A j \in 1 .. Held(pos[t]) : InputBuffer[j] = CommandBlock(t, j)
    BY <1>a, <2>1 DEF Shared
  <2>3. DOMAIN InputBuffer = 1 .. Blocks
    BY <1>a DEF TypeOK, Buffer
  <2>4. \A j \in 1 .. Held(i) : InputBuffer'[j] = CommandBlock(t, j)
    <3>1. CASE i \in Buffer /\ InputBuffer' = [InputBuffer EXCEPT ![i] = CommandBlock(t, i)]
      <4>1. Held(pos[t]) = pos[t] /\ Held(i) = i
        BY <1>b, <3>1, HeldFacts
      <4>2. \A j \in 1 .. i : InputBuffer'[j] = CommandBlock(t, j)
        BY <1>b, <2>2, <2>3, <3>1, <4>1 DEF Buffer
      <4> QED
        BY <4>1, <4>2
    <3>2. CASE i > Blocks /\ UNCHANGED InputBuffer
      <4>1. Held(pos[t]) = Held(i)
        BY <1>b, <3>2, HeldFacts
      <4> QED
        BY <2>2, <3>2, <4>1
    <3>3. i - Blocks \in Buffer => i > Blocks
      BY <1>b DEF Buffer
    <3> QED
      BY <2>1, <3>1, <3>2, <3>3 DEF Store
  <2> HIDE DEF i
  <2>5. \A j : CommandBlock(t, j)' = CommandBlock(t, j)
    BY <2>1 DEF CommandBlock
  <2>6. Shared(t)'
    BY <2>1, <2>4, <2>5 DEF Shared, Held
  <2> QED
    BY <2>1, <2>6 DEF Private
<1>5. CASE Hang(t)
  BY <1>5 DEF Hang
<1>6. CASE Execute(t)
  <2> DEFINE k == Len(executed) + 1
             request == [i \in 1 .. Held(local_cnx[t].written) |-> InputBuffer[i]]
  <2>1. PICK n \in Buffer :
            /\ executed' = Append(executed, [caller |-> t, command |-> request, size |-> n])
            /\ slot' = [slot EXCEPT ![t] = k]
            /\ local_cnx' = [local_cnx EXCEPT ![t].read = n]
    BY <1>6, ZenonT(30) DEF Execute
  <2>2. pc[t] = "execute" /\ pc'[t] = "copy_out" /\ pos'[t] = 0 /\ UNCHANGED <<cnx, calls>>
    BY <1>a, <1>6, Domains DEF Execute
  <2>3. request = Command(t, Held(cnx[t].written))
    <3>1. local_cnx[t].written = cnx[t].written
      BY <1>a, <2>2 DEF Frame, Machine
    <3>2. \A i \in 1 .. Held(local_cnx[t].written) : InputBuffer[i] = CommandBlock(t, i)
      BY <1>a, <2>2 DEF Shared
    <3> QED
      BY <3>1, <3>2 DEF Command
  <2>4. Command(t, Held(cnx[t].written))' = Command(t, Held(cnx[t].written))
    BY <2>2 DEF Command, CommandBlock, Held
  <2> HIDE DEF request
  <2>5. k \in 1 .. Len(executed') /\ executed'[k] = [caller |-> t, command |-> request, size |-> n]
    <3>1. executed \in Seq(Executions)
      BY <1>a DEF TypeOK
    <3> QED
      BY <2>1, <3>1
  <2> HIDE DEF k
  <2>6. slot'[t] = k
    BY <1>a, <2>1, Domains
  <2>7. local_cnx'[t].read = n
    <3>1. local_cnx'[t] = [local_cnx[t] EXCEPT !.read = n]
      BY <1>a, <2>1, Domains
    <3> QED
      BY <1>b, <3>1 DEF Contexts
  <2>8. slot'[t] \in 1 .. Len(executed') /\ executed'[slot'[t]].command = request /\ executed'[slot'[t]].size = n
    BY <2>5, <2>6
  <2>9. Private(t)'
    BY <2>2, <2>3, <2>4, <2>7, <2>8 DEF Private
  <2> QED
    BY <2>2, <2>9 DEF Shared
<1>7. CASE CopyOut(t)
  <2>1. /\ response' = [response EXCEPT ![t][pos[t] + 1] = OutputBuffer[pos[t] + 1]]
        /\ pos'[t] = pos[t] + 1
        /\ pc'[t] = IF pos[t] + 1 = local_cnx[t].read THEN "eret" ELSE "copy_out"
        /\ pc[t] = "copy_out"
        /\ UNCHANGED <<calls, cnx, local_cnx, slot, executed, OutputBuffer>>
    BY <1>a, <1>7, Domains DEF CopyOut
  <2>2. /\ pos[t] < local_cnx[t].read
        /\ \A i \in 1 .. pos[t] : response[t][i] = <<slot[t], i>>
        /\ \A i \in 1 .. local_cnx[t].read : OutputBuffer[i] = <<slot[t], i>>
    BY <1>a, <2>1 DEF Frame, Answer, Private
  <2>3. response'[t] = [response[t] EXCEPT ![pos[t] + 1] = OutputBuffer[pos[t] + 1]]
    BY <1>a, <2>1, Domains
  <2>4. DOMAIN response[t] = 1 .. Blocks /\ pos[t] < Blocks
    BY <1>b, <1>c, <2>2 DEF Buffer
  <2>5. OutputBuffer[pos[t] + 1] = <<slot[t], pos[t] + 1>>
    BY <1>b, <1>c, <2>2
  <2> DEFINE copied == response[t]
             tag(j) == <<slot[t], j>>
  <2>6. \A j \in 1 .. pos[t] + 1 : response'[t][j] = tag(j)
    <3>1. response'[t] = [copied EXCEPT ![pos[t] + 1] = tag(pos[t] + 1)] /\ DOMAIN copied = 1 .. Blocks
          /\ \A i \in 1 .. pos[t] : copied[i] = tag(i)
      BY <2>2, <2>3, <2>4, <2>5
    <3> HIDE DEF copied, tag
    <3> QED
      BY <1>b, <2>4, <3>1
  <2>7. Shared(t)'
    BY <2>1, <2>2 DEF Shared
  <2>8. Command(t, Held(cnx[t].written))' = Command(t, Held(cnx[t].written))
    BY <2>1 DEF Command, CommandBlock, Held
  <2>9. /\ slot[t] \in 1 .. Len(executed)
        /\ executed[slot[t]].command = Command(t, Held(cnx[t].written))
        /\ local_cnx[t].read = executed[slot[t]].size
    BY <1>a, <2>1 DEF Private
  <2>10. Private(t)'
    BY <2>1, <2>6, <2>8, <2>9 DEF Private
  <2> QED
    BY <2>7, <2>10
<1>8. CASE EcallReturn(t)
  <2>1. pc[t] = "eret" /\ pc'[t] = "ioctl_end" /\ data'[t] = local_cnx[t]
        /\ UNCHANGED <<calls, cnx, slot, executed, response>>
    BY <1>a, <1>8, Domains DEF EcallReturn
  <2>2. Command(t, Held(cnx[t].written))' = Command(t, Held(cnx[t].written))
    BY <2>1 DEF Command, CommandBlock, Held
  <2>3. Private(t)'
    BY <1>a, <2>1, <2>2 DEF Private
  <2> QED
    BY <2>1, <2>3 DEF Shared
<1>9. CASE IoctlReturn(t)
  <2>1. pc[t] = "ioctl_end" /\ pc'[t] = "user" /\ cnx'[t] = data[t] /\ rc'[t] = "0"
        /\ UNCHANGED <<calls, slot, executed, response>>
    BY <1>a, <1>9, Domains, ZenonT(30) DEF IoctlReturn
  <2>2. data[t].written = cnx[t].written
    BY <1>a, <2>1 DEF Frame
  <2>3. Command(t, Held(cnx[t].written))' = Command(t, Held(cnx[t].written))
    BY <2>1, <2>2 DEF Command, CommandBlock, Held
  <2>4. Private(t)'
    BY <1>a, <2>1, <2>3 DEF Private
  <2> QED
    BY <2>1, <2>4, ZenonT(30) DEF Shared
<1> QED
  BY <1>1, <1>2, <1>3, <1>4, <1>5, <1>6, <1>7, <1>8, <1>9 DEF Step, Driver, Firmware

\* how a step changes the harts
LEMMA HartsStep ==
    ASSUME TypeOK, NEW t \in Callers, Step(t)
    PROVE  \/ Ecall(t)
           \/ EcallReturn(t)
           \/ running' = running /\ (pc'[t] \in Machine => pc[t] \in Machine)
<1> USE Domains DEF Machine
<1>1. CASE Transmit(t)
  BY <1>1 DEF Transmit
<1>2. CASE IoctlEnter(t)
  BY <1>2 DEF IoctlEnter
<1>3. CASE CopyIn(t)
  BY <1>3 DEF CopyIn
<1>4. CASE Hang(t)
  BY <1>4 DEF Hang
<1>5. CASE Execute(t)
  BY <1>5 DEF Execute
<1>6. CASE CopyOut(t)
  BY <1>6 DEF CopyOut
<1>7. CASE IoctlReturn(t)
  BY <1>7 DEF IoctlReturn
<1> QED
  BY <1>1, <1>2, <1>3, <1>4, <1>5, <1>6, <1>7 DEF Step, Driver, Firmware

LEMMA OccupiesStep ==
    ASSUME TypeOK, Occupies, NEW t \in Callers, Step(t)
    PROVE  Occupies'
<1> SUFFICES ASSUME NEW u \in Callers, pc'[u] \in Machine PROVE \E h \in Harts : running'[h] = u
  BY DEF Occupies, Machine
<1>a. running \in [Harts -> Callers \cup {None}]
  BY DEF TypeOK
<1>b. u # t => pc'[u] = pc[u]
  BY OthersKept DEF Of
<1>1. CASE Ecall(t)
  <2>1. PICK h \in Harts : running[h] = None /\ running' = [running EXCEPT ![h] = t]
    BY <1>1, ZenonT(30) DEF Ecall
  <2>2. CASE u = t
    BY <1>a, <2>1, <2>2
  <2>3. CASE u # t
    <3>1. PICK g \in Harts : running[g] = u
      BY <1>b, <2>3 DEF Occupies
    <3>2. g # h
      BY <2>1, <3>1, TransportAssumption
    <3> QED
      BY <1>a, <2>1, <3>1, <3>2
  <2> QED
    BY <2>2, <2>3
<1>2. CASE EcallReturn(t)
  <2>1. u # t
    BY <1>2, Domains DEF EcallReturn, Machine
  <2>2. PICK g \in Harts : running[g] = u
    BY <1>b, <2>1 DEF Occupies
  <2>3. running' = [h \in Harts |-> IF running[h] = t THEN None ELSE running[h]]
    BY <1>2 DEF EcallReturn
  <2>4. running'[g] = u
    BY <2>1, <2>2, <2>3
  <2> QED
    BY <2>4
<1>3. CASE running' = running /\ (pc'[t] \in Machine => pc[t] \in Machine)
  BY <1>3, <1>b DEF Occupies
<1> QED
  BY <1>1, <1>2, <1>3, HartsStep

\* what reaches a caller's memory is copied from its own answer
LEMMA OnlyOwnStep ==
    ASSUME TypeInv, intact, OnlyOwnResponses, NEW t \in Callers, Answer(t), Step(t)
    PROVE  OnlyOwnResponses'
<1>a. TypeOK /\ Frame(t)
  BY DEF TypeInv
<1>b. \A k \in 1 .. Len(executed) : k \in 1 .. Len(executed') /\ executed'[k] = executed[k]
  BY <1>a, ExecutedKept
<1> DEFINE Good(u, i) == \/ response[u][i] = <<0, 0>>
                         \/ \E k \in 1 .. Len(executed) : executed[k].caller = u /\ response[u][i] = <<k, i>>
<1>c. \A u \in Callers, i \in Buffer : Good(u, i)
  BY DEF OnlyOwnResponses
<1> SUFFICES ASSUME NEW u \in Callers, NEW i \in Buffer
             PROVE  \/ response'[u][i] = <<0, 0>>
                    \/ \E k \in 1 .. Len(executed') : executed'[k].caller = u /\ response'[u][i] = <<k, i>>
  BY DEF OnlyOwnResponses
<1>1. CASE response'[u][i] = response[u][i]
  BY <1>1, <1>b, <1>c
<1>2. CASE CopyOut(t) /\ u = t /\ i = pos[t] + 1 /\ response'[t][i] = OutputBuffer[i]
  <2>1. /\ pos[t] < local_cnx[t].read /\ pos[t] \in Nat /\ local_cnx[t].read \in Nat
        /\ pc[t] = "copy_out"
    <3>1. pc[t] = "copy_out"
      BY <1>2 DEF CopyOut
    <3>2. pos[t] \in Nat /\ local_cnx[t] \in Contexts
      BY <1>a DEF TypeOK
    <3>3. local_cnx[t].read \in Nat
      BY <3>2, TransportAssumption DEF Contexts
    <3> QED
      BY <1>a, <3>1, <3>2, <3>3 DEF Frame
  <2>2. OutputBuffer[i] = <<slot[t], i>> /\ slot[t] \in 1 .. Len(executed) /\ executed[slot[t]].caller = t
    BY <1>2, <2>1 DEF Answer
  <2> QED
    BY <1>2, <1>b, <2>2
<1>3. \/ response'[u][i] = response[u][i]
      \/ CopyOut(t) /\ u = t /\ i = pos[t] + 1 /\ response'[t][i] = OutputBuffer[i]
  <2>1. CASE CopyOut(t)
    <3>1. response \in [Callers -> [Buffer -> Cells]]
      BY <1>a DEF TypeOK, Cells
    <3>2. \/ response' = [response EXCEPT ![t][pos[t] + 1] = OutputBuffer[pos[t] + 1]]
          \/ response' = response
      BY <2>1 DEF CopyOut
    <3> QED
      BY <2>1, <3>1, <3>2
  <2>2. CASE ~CopyOut(t)
    BY <2>2 DEF Step, Transmit, Driver, Firmware, IoctlEnter, Ecall, CopyIn, Execute, EcallReturn, IoctlReturn, Hang
  <2> QED
    BY <2>1, <2>2
<1> QED
  BY <1>1, <1>2, <1>3

LEMMA NextInv == OneHart /\ Inv /\ [Next]_vars => Inv'
<1> SUFFICES ASSUME OneHart, Inv, [Next]_vars PROVE Inv'
  OBVIOUS
<1>a. TypeOK /\ Occupies /\ OnlyOwnResponses
  BY DEF Inv, TypeInv
<1>1. TypeInv'
  BY NextTypeInv DEF Inv
<1>2. ASSUME NEW t \in Callers, Step(t) PROVE Inv'
  <2>1. Occupies'
    BY <1>a, <1>2, OccupiesStep
  <2>2. ASSUME intact', NEW u \in Callers PROVE Answer(u)'
    <3>1. intact
      BY <1>2, <2>2, IntactBack
    <3>2. Answer(u)
      BY <3>1 DEF Inv
    <3>3. CASE u = t
      BY <1>a, <1>2, <2>2, <3>1, <3>2, <3>3, OwnAnswer
    <3>4. CASE u # t
      BY <1>a, <1>2, <3>2, <3>4, Others
    <3> QED
      BY <3>3, <3>4
  <2>3. ASSUME intact', NEW u \in Resident PROVE Shared(u)' /\ Private(u)'
    <3>1. intact
      BY <1>2, <2>3, IntactBack
    <3>2. Shared(u) /\ Private(u) /\ u \in Callers
      BY <3>1, TransportAssumption DEF Inv
    <3>3. CASE u = t
      BY <1>2, <2>3, <3>1, <3>3, Own
    <3>4. CASE u # t
      BY <1>a, <1>2, <3>2, <3>4, Others
    <3> QED
      BY <3>3, <3>4
  <2>4. OnlyOwnResponses'
    <3>1. CASE intact'
      <4>1. intact
        BY <1>2, <3>1, IntactBack
      <4>2. TypeInv /\ Answer(t)
        BY <4>1 DEF Inv
      <4> QED
        BY <1>a, <1>2, <4>1, <4>2, OnlyOwnStep
    <3>2. CASE ~intact'
      BY <3>2 DEF OnlyOwnResponses
    <3> QED
      BY <3>1, <3>2
  <2> QED
    BY <1>1, <2>1, <2>2, <2>3, <2>4 DEF Inv
<1>3. CASE UNCHANGED vars
  <2>1. Occupies' /\ OnlyOwnResponses'
    BY <1>a, <1>3 DEF Occupies, OnlyOwnResponses, vars, call
  <2>2. ASSUME intact', NEW u \in Callers PROVE Answer(u)'
    <3>1. Answer(u)
      BY <1>3, <2>2 DEF Inv, vars
    <3> QED
      BY <1>3, <3>1 DEF Answer, vars, call
  <2>3. ASSUME intact', NEW u \in Resident PROVE Shared(u)' /\ Private(u)'
    <3>1. Shared(u) /\ Private(u)
      BY <1>3, <2>3 DEF Inv, vars
    <3>2. Shared(u)'
      BY <1>3, <3>1 DEF Shared, CommandBlock, Held, vars, call
    <3>3. Private(u)'
      BY <1>3, <3>1, ZenonT(30) DEF Private, Command, CommandBlock, Held, vars, call
    <3> QED
      BY <3>2, <3>3
  <2> QED
    BY <1>1, <2>1, <2>2, <2>3 DEF Inv
<1> QED
  BY <1>2, <1>3 DEF Next, Step

\* On one hart, while no copy has run past the buffers, a caller with mapped
\* buffers gets the response of the command it sent, whatever the other callers
\* send and however their copies fail.
THEOREM OwnResponseHolds == ASSUME OneHart PROVE Spec => []OwnResponse
<1>1. Inv => OwnResponse
  BY ZenonT(30) DEF Inv, Private, OwnResponse
<1> QED
  BY InitInv, NextInv, <1>1, PTL DEF Spec

\* On one hart, while no copy has run past the buffers, nothing but blocks of
\* its own responses reaches a caller's memory, mapped or not.
THEOREM OnlyOwnResponsesHolds == ASSUME OneHart PROVE Spec => []OnlyOwnResponses
<1>1. Inv => OnlyOwnResponses
  BY DEF Inv
<1> QED
  BY InitInv, NextInv, <1>1, PTL DEF Spec

-----------------------------------------------------------------------------
(* The refinement: while the firmware is intact every step of the path is a  *)
(* step of the service, or a step the service does not see.                  *)

LEMMA InitRefines == Init => Service!Init
<1> SUFFICES ASSUME Init PROVE Service!Init
  OBVIOUS
<1>1. Stage = [t \in Callers |-> "idle"]
  BY DEF Init, Stage
<1>2. Request = [t \in Callers |-> <<>>]
  BY DEF Init, Request
<1>3. Reply = [t \in Callers |-> <<>>]
  BY DEF Init, Reply, Empty
<1> QED
  BY <1>1, <1>2, <1>3 DEF Init, Service!Init

\* a function that changes at one argument only
LEMMA ExceptOne ==
    ASSUME NEW C, NEW F, NEW G, NEW t \in C,
           F = [u \in C |-> F[u]], G = [u \in C |-> G[u]],
           \A u \in C : u # t => G[u] = F[u]
    PROVE  G = [F EXCEPT ![t] = G[t]] /\ (G[t] = F[t] => G = F)
  OBVIOUS

LEMMA MappingFunctions ==
    /\ Stage = [u \in Callers |-> Stage[u]] /\ Stage' = [u \in Callers |-> Stage'[u]]
    /\ Request = [u \in Callers |-> Request[u]] /\ Request' = [u \in Callers |-> Request'[u]]
    /\ Reply = [u \in Callers |-> Reply[u]] /\ Reply' = [u \in Callers |-> Reply'[u]]
<1>1. Stage = [u \in Callers |-> Stage[u]] /\ Stage' = [u \in Callers |-> Stage'[u]]
  BY DEF Stage
<1>2. Request = [u \in Callers |-> Request[u]] /\ Request' = [u \in Callers |-> Request'[u]]
  BY DEF Request
<1>3. Reply = [u \in Callers |-> Reply[u]] /\ Reply' = [u \in Callers |-> Reply'[u]]
  BY DEF Reply
<1> QED
  BY <1>1, <1>2, <1>3

\* how a step of call t looks in the service: the other callers see nothing
LEMMA Mapping ==
    ASSUME TypeOK, NEW t \in Callers, Step(t)
    PROVE  /\ Stage' = [Stage EXCEPT ![t] = Stage'[t]]
           /\ Request' = [Request EXCEPT ![t] = Request'[t]]
           /\ Reply' = [Reply EXCEPT ![t] = Reply'[t]]
           /\ Stage'[t] = Stage[t] => Stage' = Stage
           /\ Request'[t] = Request[t] => Request' = Request
           /\ Reply'[t] = Reply[t] => Reply' = Reply
<1>1. ASSUME NEW u \in Callers, u # t PROVE UNCHANGED Of(u)
  BY <1>1, OthersKept
<1>2. \A u \in Callers : u # t => Stage'[u] = Stage[u]
  BY <1>1 DEF Of, Stage
<1>3. \A u \in Callers : u # t => Request'[u] = Request[u]
  BY <1>1, ZenonT(30) DEF Of, Request, Command, CommandBlock
<1>4. \A u \in Callers : u # t => Reply'[u] = Reply[u]
  BY <1>1, ZenonT(30) DEF Of, Reply
<1>5. Stage' = [Stage EXCEPT ![t] = Stage'[t]] /\ (Stage'[t] = Stage[t] => Stage' = Stage)
  BY <1>2, MappingFunctions, ExceptOne
<1>6. Request' = [Request EXCEPT ![t] = Request'[t]] /\ (Request'[t] = Request[t] => Request' = Request)
  BY <1>3, MappingFunctions, ExceptOne
<1>7. Reply' = [Reply EXCEPT ![t] = Reply'[t]] /\ (Reply'[t] = Reply[t] => Reply' = Reply)
  BY <1>4, MappingFunctions, ExceptOne
<1> QED
  BY <1>5, <1>6, <1>7

\* the length of a command is the one its caller gave
LEMMA RequestLength ==
    ASSUME TypeOK, NEW t \in Callers, calls[t] > 0
    PROVE  Request[t] = Command(t, cnx[t].written) /\ Len(Request[t]) = cnx[t].written
<1>1. calls[t] \in Nat /\ cnx[t].written \in Nat
  BY TransportAssumption DEF TypeOK, Contexts
<1>2. Request[t] = Command(t, cnx[t].written)
  BY <1>1 DEF Request
<1>3. ASSUME NEW n \in Nat PROVE Len(Command(t, n)) = n
  BY DEF Command
<1> QED
  BY <1>1, <1>2, <1>3

\* a copy that runs past the buffers: some caller has asked for more than fits
LEMMA OverrunRefines ==
    ASSUME TypeInv, intact, NEW t \in Callers, Step(t), ~intact'
    PROVE  Service!Next
<1>a. TypeOK /\ Frame(t)
  BY DEF TypeInv
<1>1. CopyIn(t) /\ Store(t, pos[t] + 1) /\ pos[t] + 1 > Blocks /\ intact' = FALSE
  BY IntactStep, ZenonT(30)
<1>2. /\ pc[t] = "copy_in" /\ pc'[t] \in {"copy_in", "execute"}
      /\ UNCHANGED <<calls, cnx, rc, response, slot, executed>>
  BY <1>a, <1>1, Domains DEF CopyIn
<1>3. Stage[t] = "asked" /\ Stage'[t] = Stage[t] /\ Request'[t] = Request[t] /\ Reply'[t] = Reply[t]
  BY <1>2 DEF Stage, Request, Reply, Command, CommandBlock
<1>4. Stage' = Stage /\ Request' = Request /\ Reply' = Reply
  BY <1>a, <1>3, Mapping
<1>5. Len(Request[t]) > Blocks
  <2>1. calls[t] > 0 /\ local_cnx[t].written = cnx[t].written /\ pos[t] < local_cnx[t].written
    BY <1>a, <1>2 DEF Frame, Machine
  <2>2. pos[t] \in Nat /\ cnx[t] \in Contexts
    BY <1>a DEF TypeOK
  <2>3. cnx[t].written \in Nat /\ pos[t] \in Nat
    BY <2>2 DEF Contexts
  <2>4. cnx[t].written > Blocks
    BY <1>1, <2>1, <2>3, TransportAssumption
  <2> QED
    BY <1>a, <2>1, <2>4, RequestLength
<1>6. Service!Overrun(t)
  BY <1>1, <1>2, <1>3, <1>4, <1>5 DEF Service!Overrun
<1> QED
  BY <1>6 DEF Service!Next

LEMMA StepRefines ==
    ASSUME Inv, Inv', intact, intact', NEW t \in Callers, Step(t)
    PROVE  Service!Next \/ UNCHANGED Service!vars
<1>a. TypeOK /\ Frame(t) /\ TypeOK'
  BY DEF Inv, TypeInv
<1>b. /\ Stage' = [Stage EXCEPT ![t] = Stage'[t]]
      /\ Request' = [Request EXCEPT ![t] = Request'[t]]
      /\ Reply' = [Reply EXCEPT ![t] = Reply'[t]]
      /\ Stage'[t] = Stage[t] => Stage' = Stage
      /\ Request'[t] = Request[t] => Request' = Request
      /\ Reply'[t] = Reply[t] => Reply' = Reply
  BY <1>a, Mapping
<1>i. intact' = intact
  BY <1>a, IntactStep
<1>c. t \in Resident => Shared(t) /\ Private(t) /\ Shared(t)' /\ Private(t)'
  BY DEF Inv
<1>e. Answer(t)'
  BY DEF Inv
\* steps inside a stage
<1>d. ASSUME pc[t] # "user", pc'[t] # "user", UNCHANGED <<calls, cnx, slot, executed>>, Stage'[t] = Stage[t]
      PROVE  UNCHANGED Service!vars
  <2>1. Request'[t] = Request[t]
    BY <1>d DEF Request, Command, CommandBlock
  <2>2. Reply'[t] = Reply[t]
    BY <1>d DEF Reply
  <2> QED
    BY <1>b, <1>d, <1>i, <2>1, <2>2 DEF Service!vars
<1>1. CASE Transmit(t)
  <2>1. pc[t] = "user" /\ pc'[t] = "ioctl" /\ UNCHANGED <<slot, executed>>
    BY <1>a, <1>1, Domains DEF Transmit
  <2>2. Stage[t] = "idle" /\ Stage'[t] = "asked" /\ Reply'[t] = <<>>
    BY <2>1 DEF Stage, Reply
  <2>3. Service!Ask(t)
    BY <1>b, <2>1, <2>2 DEF Service!Ask
  <2> QED
    BY <2>3 DEF Service!Next
<1>2. CASE IoctlEnter(t)
  <2>1. pc[t] = "ioctl" /\ UNCHANGED <<calls, cnx, slot, executed>>
    BY <1>2 DEF IoctlEnter
  <2>2. CASE pc'[t] = "ecall"
    <3>1. Stage'[t] = Stage[t]
      BY <2>1, <2>2 DEF Stage
    <3> QED
      BY <1>d, <2>1, <2>2, <3>1
  <2>3. CASE t \notin Resident /\ pc'[t] = "user" /\ rc'[t] = "EFAULT"
    <3>1. Stage[t] = "asked" /\ Stage'[t] = "idle" /\ Reply'[t] = Reply[t]
      BY <2>1, <2>3 DEF Stage, Reply
    <3>2. Request'[t] = Request[t]
      BY <2>1 DEF Request, Command, CommandBlock
    <3>3. Service!Reject(t)
      BY <1>b, <2>1, <2>3, <3>1, <3>2 DEF Service!Reject
    <3> QED
      BY <3>3 DEF Service!Next
  <2> QED
    BY <1>a, <1>2, <2>2, <2>3, Domains DEF IoctlEnter
<1>3. CASE Ecall(t) \/ CopyIn(t)
  <2>1. pc[t] \in {"ecall", "copy_in"} /\ pc'[t] \in {"copy_in", "execute"}
        /\ UNCHANGED <<calls, cnx, slot, executed>>
    BY <1>a, <1>3, Domains DEF Ecall, CopyIn
  <2>2. Stage'[t] = Stage[t]
    BY <2>1 DEF Stage
  <2> QED
    BY <1>d, <2>1, <2>2
<1>4. CASE Execute(t)
  <2>1. pc[t] = "execute" /\ pc'[t] = "copy_out" /\ UNCHANGED <<calls, cnx>>
    BY <1>a, <1>4, Domains DEF Execute
  <2>2. Stage[t] = "asked" /\ Stage'[t] = "served" /\ Reply'[t] = Reply[t]
    BY <2>1 DEF Stage, Reply
  <2>3. Request'[t] = Request[t]
    BY <2>1 DEF Request, Command, CommandBlock
  <2>4. slot' = [slot EXCEPT ![t] = Len(executed) + 1]
        /\ executed' = Append(executed, executed'[Len(executed) + 1])
    <3>1. slot' = [slot EXCEPT ![t] = Len(executed) + 1] /\ \E e : executed' = Append(executed, e)
      BY <1>4 DEF Execute
    <3>2. executed \in Seq(Executions)
      BY <1>a DEF TypeOK
    <3> QED
      BY <3>1, <3>2
  <2>5. slot'[t] = Len(executed) + 1
    BY <1>a, <2>4, Domains
  <2>6. executed'[Len(executed) + 1].caller = t
    BY <1>e, <2>1, <2>5 DEF Answer
  <2>7. t \in Resident /\ Len(Request[t]) <= Blocks => executed'[Len(executed) + 1].command = Request[t]
    <3>1. t \in Resident => executed'[slot'[t]].command = Command(t, Held(cnx[t].written))'
      BY <1>c, <2>1, ZenonT(30) DEF Private
    <3>2. Command(t, Held(cnx[t].written))' = Command(t, Held(cnx[t].written))
      BY <2>1 DEF Command, CommandBlock, Held
    <3>3. Request[t] = Command(t, cnx[t].written) /\ Len(Request[t]) = cnx[t].written
      <4>1. calls[t] > 0
        BY <1>a, <2>1 DEF Frame, Machine
      <4> QED
        BY <1>a, <4>1, RequestLength
    <3>4. cnx[t].written <= Blocks => Held(cnx[t].written) = cnx[t].written
      BY TransportAssumption, <1>a DEF Held, TypeOK, Contexts
    <3> QED
      BY <2>5, <3>1, <3>2, <3>3, <3>4
  <2>8. Service!Serve(t)
    BY <1>b, <2>2, <2>3, <2>4, <2>6, <2>7 DEF Service!Serve
  <2> QED
    BY <2>8 DEF Service!Next
<1>5. CASE CopyOut(t) \/ EcallReturn(t)
  <2>1. pc[t] \in {"copy_out", "eret"} /\ pc'[t] \in {"copy_out", "eret", "ioctl_end"}
        /\ UNCHANGED <<calls, cnx, slot, executed>>
    BY <1>a, <1>5, Domains DEF CopyOut, EcallReturn
  <2>2. Stage'[t] = Stage[t]
    BY <2>1 DEF Stage
  <2> QED
    BY <1>d, <2>1, <2>2
<1>6. CASE IoctlReturn(t)
  <2>1. pc[t] = "ioctl_end" /\ pc'[t] = "user" /\ UNCHANGED <<calls, slot, executed>>
        /\ (t \in Resident => rc'[t] = "0")
        /\ (cnx'[t] = data[t] \/ cnx'[t] = cnx[t])
    BY <1>a, <1>6, Domains DEF IoctlReturn
  <2>2. Stage[t] = "served" /\ Stage'[t] = "idle"
    BY <2>1 DEF Stage
  <2>3. Request'[t] = Request[t]
    BY <1>a, <2>1, ZenonT(30) DEF Frame, Request, Command, CommandBlock
  <2>4. t \in Resident => Reply'[t] = Service!Response(slot[t])
    <3>1. SUFFICES ASSUME t \in Resident PROVE Reply'[t] = Service!Response(slot[t])
      OBVIOUS
    <3>2. /\ cnx'[t].read = executed[slot[t]].size
          /\ \A i \in 1 .. cnx'[t].read : response'[t][i] = <<slot[t], i>>
      BY <1>a, <1>c, <2>1, <3>1, ZenonT(30) DEF Private, Frame
    <3>3. Reply'[t] = [i \in 1 .. cnx'[t].read |-> response'[t][i]]
      BY <2>1, <3>1, ZenonT(30) DEF Reply
    <3> QED
      BY <3>2, <3>3 DEF Service!Response
  <2>5. Service!Return(t)
    BY <1>b, <2>1, <2>2, <2>3, <2>4, ZenonT(30) DEF Service!Return
  <2> QED
    BY <2>5 DEF Service!Next
<1>7. ~Hang(t)
  BY DEF Hang
<1> QED
  BY <1>1, <1>2, <1>3, <1>4, <1>5, <1>6, <1>7 DEF Step, Driver, Firmware

\* On one hart the ioctl, the SBI call and the shared buffers implement the
\* atomic TPM service: each call of a caller with mapped buffers is one
\* execution of its own command, if it fits, and its reply is that execution's
\* response; only a caller whose command does not fit InputBuffer can end this.
THEOREM TransportImplementsService == ASSUME OneHart PROVE Spec => ImplementsService
<1>1. Inv /\ Inv' /\ [Next]_vars => [Service!Next]_(Service!vars)
  <2> SUFFICES ASSUME Inv, Inv', [Next]_vars PROVE [Service!Next]_(Service!vars)
    OBVIOUS
  <2>1. ASSUME NEW t \in Callers, Step(t) PROVE [Service!Next]_(Service!vars)
    <3>1. CASE intact /\ intact'
      BY <2>1, <3>1, StepRefines
    <3>2. CASE intact /\ ~intact'
      BY <2>1, <3>2, OverrunRefines DEF Inv
    <3>3. CASE ~intact
      BY <2>1, <3>3, IntactBack DEF Service!Next
    <3> QED
      BY <3>1, <3>2, <3>3
  <2>2. CASE UNCHANGED vars
    BY <2>2 DEF vars, call, Service!vars, Stage, Request, Reply, Command, CommandBlock
  <2> QED
    BY <2>1, <2>2 DEF Next, Step
<1> QED
  BY InitInv, NextInv, InitRefines, <1>1, PTL DEF Spec, ImplementsService, Service!Spec
=============================================================================
