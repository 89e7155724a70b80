------------------------------ MODULE MCPolicy ------------------------------
(***************************************************************************)
(* Instances of Policy for TLC: PCR 0 is saved and counted, PCR 16 neither *)
(* (it can be extended and reset), PCR 17 is counted but not saved.        *)
(***************************************************************************)
EXTENDS Policy, TLC

MCSelections == {{<<"sha256", 0>>, <<"sha384", 0>>},
                 {<<"sha256", 16>>, <<"sha256", 17>>}}

(* Add the other bank, or move to it.                                      *)
MCAllocRequests == {("sha384" :> PCRs),
                    [b \in {"sha256", "sha384"} |->
                        IF b = "sha384" THEN PCRs ELSE {}]}

MCLocalities == {{0, 1}, {1, 2}, {32}}

(* What later steps and the invariants depend on: not the values of PCRs   *)
(* that are not counted, nor what a Shutdown(STATE) saved once it is void, *)
(* nor what the next one overwrites; of a counter, whether it is current.  *)
Relative(ss, counter) ==
    [h \in Handles |-> [ss[h] EXCEPT !.policy.pcrCounter =
                           IF @ = counter THEN MaxCounter + 1
                           ELSE IF @ = 0 THEN 0 ELSE 1]]

Live ==
    <<running, stopped, time, [c \in {d \in Cells : Counted(d[2])} |-> pcr[c]],
      pcrReConfig, gp, Relative(sessions, pcrCounter), tickets,
      [c \in {d \in Cells \ gp.allocated : d[2] \in StateSave} |-> gc[c]],
      nv.gp,
      IF nv.gp.orderlyState = "STATE"
      THEN <<[c \in {d \in Cells : d[2] \in StateSave} |-> nv.pcrSave[c]],
             Relative(SessionStartup(nv.sessions), nv.pcrCounter)>>
      ELSE <<>> >>

(* Commands that have digest d1 as one of the kinds, d2 as the others.     *)
MCCommands ==
    [code: {"Create", "PolicySecret"}, role: {"USER", "ADMIN"},
     digest: {[k \in Kinds |-> IF k = l THEN "d1" ELSE "d2"] : l \in Kinds},
     locality: {0}, presence: BOOLEAN, knowsAuth: BOOLEAN,
     index: {"none", "written"}]

(* A bound on what is combined.  The assertions that power, time and PCRs  *)
(* have no part in are explored in a power cycle in which nothing else     *)
(* happens.  Deadlines and tickets are explored with time and power, but   *)
(* neither with assertions on PCRs nor with changes of PCRs; they run out  *)
(* in the first epoch, the second shows that they do not outlive it.       *)
Calm == /\ time = 0 /\ gp.timeEpoch <= 1 /\ gp = nv.gp
        /\ gp.orderlyState = "NONE" /\ \A c \in Cells : pcr[c] = 0

NoPcrs == /\ \A h \in Handles : sessions[h].policy.asserted.pcr = {}
          /\ \A c \in Cells : pcr[c] = 0
          /\ ~pcrReConfig /\ nv.gp.allocated = DefaultBanks \X PCRs
          /\ gp.timeEpoch > 1 => time <= 1

NoTimes == /\ \A h \in Handles : sessions[h].policy.asserted.until = {}
           /\ tickets = {} /\ time = 0

Within ==
    \/ Calm
    \/ /\ NoPcrs \/ NoTimes
       /\ \A h \in Handles :
             LET a == sessions[h].policy.asserted
             IN  /\ a.digests = {} /\ a.localities = {} /\ a.written = {}
                 /\ a.codes = {} /\ ~a.presence /\ ~a.authValue

MCNext == Next /\ Within'

MCSpec == Init /\ [][MCNext]_vars

=============================================================================
