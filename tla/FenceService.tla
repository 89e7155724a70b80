---------------------------- MODULE FenceService ----------------------------
(***************************************************************************)
(* What sbi_tlb_request promises to a kernel.  A hart asks for a fence on  *)
(* a set of harts; each of them flushes, once and for as many askers as it *)
(* likes; the asker goes on only when nobody owes it a flush any more.     *)
(***************************************************************************)
CONSTANT Harts

VARIABLES asking,  \* harts whose fence is under way
          owing    \* for each hart, those that still have to flush for it

vars == <<asking, owing>>

Init == asking = {} /\ owing = [h \in Harts |-> {}]

Ask(h) ==
    /\ h \notin asking
    /\ asking' = asking \cup {h}
    /\ \E m \in SUBSET Harts : owing' = [owing EXCEPT ![h] = m]

Flush(t) ==
    /\ \E W \in SUBSET {h \in Harts : t \in owing[h]} :
          owing' = [h \in Harts |-> IF h \in W THEN owing[h] \ {t} ELSE owing[h]]
    /\ UNCHANGED asking

Finish(h) ==
    /\ h \in asking /\ owing[h] = {}
    /\ asking' = asking \ {h}
    /\ UNCHANGED owing

Next == \E h \in Harts : Ask(h) \/ Flush(h) \/ Finish(h)

Spec == Init /\ [][Next]_vars
=============================================================================
