----------------------------- MODULE TpmService -----------------------------
(***************************************************************************)
(* What the callers of /dev/ftpm may rely on.  The TPM serves one command  *)
(* at a time.  A caller whose buffers stay mapped and whose command fits   *)
(* the TPM has that command executed exactly once, between the call and    *)
(* the return; every caller with mapped buffers gets the response of its   *)
(* execution.  The others are only promised not to disturb it.  A command  *)
(* that does not fit may destroy the TPM; nothing is promised after that.  *)
(***************************************************************************)
EXTENDS Integers, Sequences

CONSTANTS Callers, Resident,
          Capacity  \* the longest command that fits

VARIABLES stage,    \* of each caller: "idle", "asked" or "served"
          request,  \* the command it asks for
          slot,     \* the place of its execution in log
          log,      \* executions: the caller, the command and the size of its response
          reply,    \* what the caller holds after a return without error
          intact    \* the TPM has not been destroyed

vars == <<stage, request, slot, log, reply, intact>>

\* the response of the k-th execution
Response(k) == [i \in 1 .. log[k].size |-> <<k, i>>]

Init ==
    /\ stage = [t \in Callers |-> "idle"]
    /\ request = [t \in Callers |-> <<>>]
    /\ slot = [t \in Callers |-> 0]
    /\ log = <<>>
    /\ reply = [t \in Callers |-> <<>>]
    /\ intact = TRUE

Ask(t) ==
    /\ stage[t] = "idle"
    /\ stage' = [stage EXCEPT ![t] = "asked"]
    /\ request' = [request EXCEPT ![t] = request'[t]]
    /\ reply' = [reply EXCEPT ![t] = <<>>]
    /\ UNCHANGED <<slot, log>>

Serve(t) ==
    /\ stage[t] = "asked"
    /\ stage' = [stage EXCEPT ![t] = "served"]
    /\ slot' = [slot EXCEPT ![t] = Len(log) + 1]
    /\ log' = Append(log, log'[Len(log) + 1])
    /\ log'[Len(log) + 1].caller = t
    /\ t \in Resident /\ Len(request[t]) <= Capacity => log'[Len(log) + 1].command = request[t]
    /\ UNCHANGED <<request, reply>>

Return(t) ==
    /\ stage[t] = "served"
    /\ stage' = [stage EXCEPT ![t] = "idle"]
    /\ reply' = [reply EXCEPT ![t] = reply'[t]]
    /\ t \in Resident => reply'[t] = Response(slot[t])
    /\ UNCHANGED <<request, slot, log>>

\* a call that ends before anything was executed; only without mapped buffers
Reject(t) ==
    /\ stage[t] = "asked" /\ t \notin Resident
    /\ stage' = [stage EXCEPT ![t] = "idle"]
    /\ UNCHANGED <<request, slot, log, reply>>

\* a command that does not fit destroys the TPM
Overrun(t) ==
    /\ stage[t] = "asked" /\ Len(request[t]) > Capacity
    /\ intact' = FALSE
    /\ UNCHANGED <<stage, request, slot, log, reply>>

Next ==
    \/ intact /\ intact' /\ \E t \in Callers : Ask(t) \/ Serve(t) \/ Return(t) \/ Reject(t)
    \/ intact /\ \E t \in Callers : Overrun(t)
    \/ ~intact /\ ~intact'

Spec == Init /\ [][Next]_vars
=============================================================================
