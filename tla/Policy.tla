------------------------------- MODULE Policy -------------------------------
(***************************************************************************)
(* Policy sessions, and the PCRs, the time and the power cycles they       *)
(* depend on.                                                              *)
(*                                                                         *)
(* A TPM2_Policy...() command extends a session's policyDigest.  Some of   *)
(* what it asserts is checked there and then; the rest is deferred: the    *)
(* session remembers a limit (a command code, a digest of the parameters,  *)
(* a deadline, the PCR counter...) that CheckPolicyAuthSession() compares  *)
(* when the session authorizes a command.  Between the two, PCRs change,   *)
(* time passes, the session is context-saved and loaded, tickets carry an  *)
(* authorization into another session, and the power may go.               *)
(*                                                                         *)
(* A PCR value is the number of extends since it was initialised, and the  *)
(* policyDigest whether anything was extended into it: an entity's policy  *)
(* is taken to be the digest the session has reached.  Commands come at    *)
(* locality 0 (ftpm.c); a command that fails changes nothing here.         *)
(***************************************************************************)
EXTENDS Integers, FiniteSets

CONSTANTS
    Handles,        \* handles of policy sessions
    Banks,          \* hash algorithms that have a PCR bank
    PCRs,           \* PCR numbers
    StateSave,      \* attribute stateSave: kept over a TPM Resume
    TCB,            \* attribute doNotIncrementPcrCounter
    Extendable,     \* PCRs with locality 0 in extendLocality
    Resettable,     \* PCRs with locality 0 in resetLocality
    DRTM_PCR,
    DefaultBanks,   \* the banks that are active when the TPM is manufactured
    Selections,     \* what PolicyPCR selects: sets of PCRs in banks
    AllocRequests,  \* what PCR_Allocate is asked for: PCRs for some of the banks
    Commands,       \* commands a session may be used to authorize
    Codes, NoCode,  \* command codes; commandCode 0
    Digests, NoDigest,  \* digests; a digest of size 0
    Localities,     \* arguments of PolicyLocality, as sets of localities
    SECOND,         \* units of g_time in a second
    MaxTime,        \* bound: g_time within a power cycle
    MaxEpoch,       \* bound: power cycles that come to a first command
    MaxExtends,     \* bound: extends of a PCR since it was initialised
    MaxCounter,     \* bound: gr.pcrCounter (at its end the TPM fails)
    MaxAssertions,  \* bound: deferred assertions of a session
    MaxTickets,     \* bound: tickets kept
    Expirations     \* absolute values of the argument expiration

HCRTM_PCR == 0

Cells == Banks \X PCRs

(* The members of the union u1 of a SESSION.                               *)
Kinds == {"cpHash", "nameHash", "pHash", "templateHash"}

NormalLocalities == 0 .. 4

Command == [code: Codes, role: {"USER", "ADMIN"},
            digest: [Kinds -> Digests \cup {NoDigest}],
            locality: NormalLocalities,
            presence: BOOLEAN, knowsAuth: BOOLEAN,
            index: {"none", "unwritten", "written"}]

ASSUME PolicyAssumption ==
    /\ IsFiniteSet(PCRs) /\ HCRTM_PCR \in PCRs
    /\ IsFiniteSet(Banks) /\ DefaultBanks \subseteq Banks
    /\ NoCode \notin Codes \cup {"Duplicate"} /\ NoDigest \notin Digests
    /\ Commands \subseteq Command
    /\ Expirations \subseteq Nat /\ SECOND \in Nat \ {0}
    /\ MaxTime \in Nat /\ MaxCounter \in Nat /\ MaxEpoch \in Nat
    /\ MaxExtends \in Nat

(* Some PCR is reinitialised, and counted, even by a TPM Resume (in        *)
(* s_initAttributes these are PCR 17 to 20).                               *)
ASSUME ResumeCounts == PCRs \ (StateSave \cup TCB) # {}

VARIABLES
    running,     \* a TPM2_Startup() was accepted since the power came on
    stopped,     \* s_timerStopped
    time,        \* g_time
    pcr,         \* s_pcrs
    pcrCounter,  \* gr.pcrCounter
    pcrReConfig, \* g_pcrReConfig
    gc,          \* gc.pcrSave
    gp,          \* the persistent data, RAM copy
    sessions,    \* the session table: each handle's session
    nv,          \* NV: gp, and what the last Shutdown(STATE) saved
    tickets,     \* tickets the TPM has returned
    requested    \* history: the allocation of the last successful PCR_Allocate

vars == <<running, stopped, time, pcr, pcrCounter, pcrReConfig, gc, gp,
          sessions, nv, tickets, requested>>

pcrVars == <<pcr, pcrCounter, pcrReConfig, gc>>
timeVars == <<running, stopped, time>>

-----------------------------------------------------------------------------
(* Sessions.                                                               *)

(* History: what has been asserted in a session since its last use or      *)
(* restart.  verified is FALSE if a check was skipped for a trial session. *)
NothingAsserted ==
    [any |-> FALSE, verified |-> TRUE, pcr |-> {}, codes |-> {},
     digests |-> {}, localities |-> {}, until |-> {}, presence |-> FALSE,
     authValue |-> FALSE, written |-> {}]

(* The policy data of a session that SessionResetPolicyData() clears.      *)
NoPolicy ==
    [policyDigest |-> "zero", pcrCounter |-> 0, timeout |-> 0,
     commandCode |-> NoCode, commandLocality |-> {}, u1 |-> NoDigest,
     defined |-> {}, needed |-> "nothing", isPPRequired |-> FALSE,
     checkNvWritten |-> "no", asserted |-> NothingAsserted]

Absent == [where |-> "absent", trial |-> FALSE, startTime |-> 0, epoch |-> 0,
           policy |-> NoPolicy]

(* SessionCreate() for a policy or a trial session.                        *)
SessionCreate(trial) ==
    [where |-> "loaded", trial |-> trial, startTime |-> time,
     epoch |-> gp.timeEpoch, policy |-> NoPolicy]

IsCpHashUnionOccupied(p) == p.defined # {}

Size(a) == Cardinality(a.pcr) + Cardinality(a.codes) + Cardinality(a.digests)
           + Cardinality(a.localities) + Cardinality(a.until)
           + Cardinality(a.written) + (IF a.presence THEN 1 ELSE 0)
           + (IF a.authValue THEN 1 ELSE 0)

-----------------------------------------------------------------------------
(* The check of a session against a command.                               *)

SessionPCRValueIsCurrent(p) == p.pcrCounter \in {0, pcrCounter}

NotExpired(s) ==
    s.policy.timeout # 0 => time <= s.policy.timeout /\ s.epoch = gp.timeEpoch

CommandAllowed(p, c) ==
    IF p.commandCode # NoCode THEN p.commandCode = c.code ELSE c.role = "USER"

LocalityAllowed(p, c) ==
    p.commandLocality # {} => c.locality \in p.commandLocality

(* The first of the members that is defined is the one compared.           *)
HashAllowed(p, c) ==
    p.u1 # NoDigest =>
        p.u1 = c.digest[CASE "cpHash" \in p.defined -> "cpHash"
                          [] "cpHash" \notin p.defined
                             /\ "nameHash" \in p.defined -> "nameHash"
                          [] p.defined \cap {"cpHash", "nameHash"} = {}
                             /\ "pHash" \in p.defined -> "pHash"
                          [] OTHER -> "templateHash"]

WrittenAllowed(p, c) == p.checkNvWritten \in {"no", c.index}

CheckPolicyAuthSession(s, c) ==
    LET p == s.policy IN
    /\ c.code = "PolicySecret" => p.needed # "nothing"
    /\ SessionPCRValueIsCurrent(p)
    /\ NotExpired(s)
    /\ CommandAllowed(p, c)
    /\ LocalityAllowed(p, c)
    /\ p.isPPRequired => c.presence
    /\ HashAllowed(p, c)
    /\ WrittenAllowed(p, c)

(* ParseSessionBuffer() and CheckAuthSession(): s authorizes command c.    *)
Authorizes(s, c) ==
    /\ s.where = "loaded"
    /\ ~s.trial
    /\ CheckPolicyAuthSession(s, c)
    /\ s.policy.needed # "nothing" => c.knowsAuth

-----------------------------------------------------------------------------
(* The policy commands.                                                    *)

(* TimeUpdate() has run: TimeNewEpoch() comes before the first command.    *)
Ready == running /\ ~stopped

Loaded(h) == Ready /\ sessions[h].where = "loaded"

(* A policy command leaves p, and asserted a, in session h.                *)
Asserts(h, p, a) ==
    /\ Size(a) <= MaxAssertions
    /\ sessions' = [sessions EXCEPT ![h].policy =
            [p EXCEPT !.policyDigest = "extended",
                      !.asserted = [a EXCEPT !.any = TRUE]]]
    /\ UNCHANGED <<timeVars, pcrVars, gp, nv, requested>>

(* What a command asserts when trial sessions skip its checks.             *)
Checked(s, a) == IF s.trial THEN [a EXCEPT !.verified = FALSE] ELSE a

ComputeAuthTimeout(s, expiration, nonce) ==
    CASE expiration = 0 -> 0
      [] expiration # 0 /\ nonce -> s.startTime + expiration * SECOND
      [] expiration # 0 /\ ~nonce -> expiration * SECOND + (time % SECOND)

PolicyParameterChecks(s, authTimeout, cpHashA) ==
    /\ authTimeout # 0 => time <= authTimeout /\ s.epoch = gp.timeEpoch
    /\ cpHashA # NoDigest /\ s.policy.u1 # NoDigest => cpHashA = s.policy.u1

Earlier(old, new) == IF new # 0 /\ (old = 0 \/ old > new) THEN new ELSE old

PolicyContextUpdate(p, cpHash, policyTimeout) ==
    [p EXCEPT !.u1 = IF cpHash # NoDigest THEN cpHash ELSE @,
              !.defined = IF cpHash # NoDigest THEN @ \cup {"cpHash"} ELSE @,
              !.timeout = Earlier(@, policyTimeout)]

(* An authorization for cpHash, if there is one, that ends at timeout.     *)
Authorization(a, cpHash, timeout, epoch) ==
    [a EXCEPT !.digests = IF cpHash # NoDigest
                          THEN @ \cup {<<"cpHash", cpHash>>} ELSE @,
              !.until = IF timeout # 0
                        THEN @ \cup {[deadline |-> timeout, epoch |-> epoch]}
                        ELSE @]

(* What PolicySigned() and PolicySecret() do once the signature, or the    *)
(* use of the secret, is verified; nonce says whether the caller gave the  *)
(* session's nonceTPM.  A negative expiration asks for a ticket.  (With    *)
(* expiresOnReset the ticket also holds the reset count; a reset always is *)
(* a new epoch too.)                                                       *)
AuthorizedBy(h, expiration, negative, nonce, cpHashA) ==
    LET s == sessions[h]
        authTimeout == IF s.trial THEN 0
                       ELSE ComputeAuthTimeout(s, expiration, nonce)
    IN  /\ Loaded(h)
        /\ ~s.trial => PolicyParameterChecks(s, authTimeout, cpHashA)
        /\ Asserts(h, PolicyContextUpdate(s.policy, cpHashA, authTimeout),
                   Authorization(Checked(s, s.policy.asserted), cpHashA,
                                 authTimeout, gp.timeEpoch))
        /\ tickets' =
              IF negative /\ expiration # 0 /\ ~s.trial
              THEN tickets \cup {[timeout |-> authTimeout, cpHash |-> cpHashA,
                                  epoch |-> gp.timeEpoch]}
              ELSE tickets
        /\ Cardinality(tickets') <= MaxTickets

PolicySigned(h, expiration, negative, nonce, cpHashA) ==
    AuthorizedBy(h, expiration, negative, nonce, cpHashA)

PolicySecret(h, expiration, negative, nonce, cpHashA) ==
    AuthorizedBy(h, expiration, negative, nonce, cpHashA)

(* The ticket is the one TicketComputeAuth() computes in this epoch.       *)
TicketIsValid(t) == t.epoch = gp.timeEpoch

PolicyTicket(h, t) ==
    LET s == sessions[h]
    IN  /\ Loaded(h)
        /\ ~s.trial
        /\ PolicyParameterChecks(s, t.timeout, t.cpHash)
        /\ TicketIsValid(t)
        /\ Asserts(h, PolicyContextUpdate(s.policy, t.cpHash, t.timeout),
                  Authorization(s.policy.asserted, t.cpHash, t.timeout, t.epoch))
        /\ UNCHANGED tickets

Counted(p) == p = HCRTM_PCR \/ p \notin TCB

(* The values of the selected PCRs that are counted when they change.      *)
Snapshot(selection) ==
    [c \in {d \in selection \cap gp.allocated : Counted(d[2])} |-> pcr[c]]

PolicyPCR(h, selection) ==
    LET s == sessions[h]
        a == s.policy.asserted
    IN  /\ Loaded(h)
        /\ ~s.trial => SessionPCRValueIsCurrent(s.policy)
        /\ Asserts(h, IF s.trial THEN s.policy
                     ELSE [s.policy EXCEPT !.pcrCounter = pcrCounter],
                  Checked(s, [a EXCEPT !.pcr = @ \cup {Snapshot(selection)}]))
        /\ UNCHANGED tickets

PolicyPhysicalPresence(h) ==
    LET p == sessions[h].policy
    IN  /\ Loaded(h)
        /\ Asserts(h, [p EXCEPT !.isPPRequired = TRUE],
                  [p.asserted EXCEPT !.presence = TRUE])
        /\ UNCHANGED tickets

PolicyLocality(h, locality) ==
    LET p      == sessions[h].policy
        prev   == p.commandLocality
        normal == locality \subseteq NormalLocalities
        new    == IF normal /\ prev # {} THEN prev \cap locality ELSE locality
    IN  /\ Loaded(h)
        /\ locality # {}
        /\ prev # {} => (prev \subseteq NormalLocalities <=> normal)
        /\ new # {}
        /\ ~normal => prev \in {{}, locality}
        /\ Asserts(h, [p EXCEPT !.commandLocality = new],
                  [p.asserted EXCEPT !.localities = @ \cup {locality}])
        /\ UNCHANGED tickets

PolicyCommandCode(h, code) ==
    LET p == sessions[h].policy
    IN  /\ Loaded(h)
        /\ p.commandCode \in {NoCode, code}
        /\ Asserts(h, [p EXCEPT !.commandCode = code],
                  [p.asserted EXCEPT !.codes = @ \cup {code}])
        /\ UNCHANGED tickets

(* A digest of kind k takes the union u1.                                  *)
BindDigest(h, k, digest) ==
    LET p == sessions[h].policy
    IN  /\ Asserts(h, [p EXCEPT !.u1 = digest, !.defined = @ \cup {k}],
                  [p.asserted EXCEPT !.digests = @ \cup {<<k, digest>>}])
        /\ UNCHANGED tickets

SameAgain(p, k, digest) ==
    IsCpHashUnionOccupied(p) => k \in p.defined /\ p.u1 = digest

PolicyCpHash(h, digest) ==
    /\ Loaded(h)
    /\ SameAgain(sessions[h].policy, "cpHash", digest)
    /\ BindDigest(h, "cpHash", digest)

PolicyNameHash(h, digest) ==
    /\ Loaded(h)
    /\ ~IsCpHashUnionOccupied(sessions[h].policy)
    /\ BindDigest(h, "nameHash", digest)

PolicyParameters(h, digest) ==
    /\ Loaded(h)
    /\ ~IsCpHashUnionOccupied(sessions[h].policy)
    /\ BindDigest(h, "pHash", digest)

PolicyTemplate(h, digest) ==
    /\ Loaded(h)
    /\ SameAgain(sessions[h].policy, "templateHash", digest)
    /\ BindDigest(h, "templateHash", digest)

(* Mutant: the flag of the digest is not set.                              *)
MutPolicyDuplicationSelect(h, digest) ==
    LET p == sessions[h].policy
    IN  /\ Loaded(h)
        /\ p.u1 = NoDigest
        /\ p.commandCode = NoCode
        /\ Asserts(h, [p EXCEPT !.u1 = digest, !.commandCode = "Duplicate"],
                  [p.asserted EXCEPT !.digests = @ \cup {<<"nameHash", digest>>},
                                     !.codes = @ \cup {"Duplicate"}])
        /\ UNCHANGED tickets

PolicyDuplicationSelect(h, digest) ==
    LET p == sessions[h].policy
    IN  /\ Loaded(h)
        /\ p.u1 = NoDigest
        /\ p.commandCode = NoCode
        /\ Asserts(h, [p EXCEPT !.u1 = digest, !.defined = @ \cup {"nameHash"},
                               !.commandCode = "Duplicate"],
                  [p.asserted EXCEPT !.digests = @ \cup {<<"nameHash", digest>>},
                                     !.codes = @ \cup {"Duplicate"}])
        /\ UNCHANGED tickets

(* The authValue is needed, in the HMAC or in plain: the later command     *)
(* decides which.                                                          *)
NeedAuthValue(h, needed) ==
    LET p == sessions[h].policy
    IN  /\ Loaded(h)
        /\ Asserts(h, [p EXCEPT !.needed = needed],
                   [p.asserted EXCEPT !.authValue = TRUE])
        /\ UNCHANGED tickets

PolicyAuthValue(h) == NeedAuthValue(h, "authValue")

PolicyPassword(h) == NeedAuthValue(h, "password")

PolicyNvWritten(h, written) ==
    LET p == sessions[h].policy
    IN  /\ Loaded(h)
        /\ p.checkNvWritten \in {"no", written}
        /\ Asserts(h, [p EXCEPT !.checkNvWritten = written],
                  [p.asserted EXCEPT !.written = @ \cup {written}])
        /\ UNCHANGED tickets

(* The commands whose condition is checked here and now (unless the        *)
(* session is a trial session): only policyDigest changes.  A condition    *)
(* that does not hold is an error and changes nothing.                     *)
CheckedNow(h) ==
    LET s == sessions[h]
    IN  /\ Loaded(h)
        /\ Asserts(h, s.policy, Checked(s, s.policy.asserted))
        /\ UNCHANGED tickets

PolicyOR(h) == CheckedNow(h)
PolicyNV(h) == CheckedNow(h)
PolicyCounterTimer(h) == CheckedNow(h)
PolicyAuthorize(h) == CheckedNow(h)
PolicyAuthorizeNV(h) == CheckedNow(h)
PolicyCapability(h) == CheckedNow(h)

PolicyRestart(h) ==
    /\ Loaded(h)
    /\ sessions' = [sessions EXCEPT ![h].policy = NoPolicy]
    /\ UNCHANGED <<timeVars, pcrVars, gp, nv, tickets, requested>>

UpdateInternalSession(s) ==
    [s EXCEPT !.policy = NoPolicy, !.startTime = time, !.epoch = gp.timeEpoch]

(* A command completes for which the session was in use: it authorized the *)
(* command, or encrypted a parameter of it.                                *)
UseSession(h, continueSession) ==
    /\ Loaded(h)
    /\ ~sessions[h].trial
    /\ sessions' = [sessions EXCEPT ![h] =
            IF continueSession THEN UpdateInternalSession(@) ELSE Absent]
    /\ UNCHANGED <<timeVars, pcrVars, gp, nv, tickets, requested>>

-----------------------------------------------------------------------------
(* Session contexts.                                                       *)

(* RETURN_IF_ORDERLY, or g_clearOrderly: a Shutdown in force is voided.    *)
Voided(p) == [p EXCEPT !.orderlyState = "NONE"]

Void == gp' = Voided(gp) /\ nv' = [nv EXCEPT !.gp = Voided(@)]

StartAuthSession(h, trial) ==
    /\ Ready
    /\ sessions[h].where = "absent"
    /\ sessions' = [sessions EXCEPT ![h] = SessionCreate(trial)]
    /\ UNCHANGED <<timeVars, pcrVars, gp, nv, tickets, requested>>

FlushContext(h) ==
    /\ Ready
    /\ sessions[h].where # "absent"
    /\ sessions' = [sessions EXCEPT ![h] = Absent]
    /\ UNCHANGED <<timeVars, pcrVars, gp, nv, tickets, requested>>

ContextSave(h) ==
    /\ Loaded(h)
    /\ sessions' = [sessions EXCEPT ![h].where = "saved"]
    /\ Void
    /\ UNCHANGED <<timeVars, pcrVars, tickets, requested>>

ContextLoad(h) ==
    /\ Ready
    /\ sessions[h].where = "saved"
    /\ sessions' = [sessions EXCEPT ![h].where = "loaded"]
    /\ Void
    /\ UNCHANGED <<timeVars, pcrVars, tickets, requested>>

-----------------------------------------------------------------------------
(* PCRs.                                                                   *)

(* PCRChanged() n times for PCR p.                                         *)
PCRChanged(p, n) ==
    /\ pcrCounter' = IF Counted(p) THEN pcrCounter + n ELSE pcrCounter
    /\ pcrCounter' <= MaxCounter

(* Mutant: a changed PCR leaves the Shutdown in force.                     *)
MutIfStateSaved(p) == UNCHANGED <<gp, nv>>

(* PCRs that are saved have to be the same when the TPM resumes.           *)
IfStateSaved(p) == IF p \in StateSave THEN Void ELSE UNCHANGED <<gp, nv>>

PCR_Extend(p, banks) ==
    LET extended == (banks \X {p}) \cap gp.allocated
    IN  /\ Ready
        /\ p \in Extendable
        /\ \A c \in extended : pcr[c] < MaxExtends
        /\ pcr' = [c \in Cells |-> IF c \in extended THEN pcr[c] + 1 ELSE pcr[c]]
        /\ PCRChanged(p, Cardinality(extended))
        /\ IfStateSaved(p)
        /\ UNCHANGED <<timeVars, pcrReConfig, gc, sessions, tickets, requested>>

(* PCR_Event() and EventSequenceComplete(): a digest for every bank.       *)
PCR_Event(p) == PCR_Extend(p, Banks)

PCR_Reset(p) ==
    /\ Ready
    /\ p \in Resettable
    /\ pcr' = [c \in Cells |-> IF c[2] = p THEN 0 ELSE pcr[c]]
    /\ PCRChanged(p, 1)
    /\ IfStateSaved(p)
    /\ UNCHANGED <<timeVars, pcrReConfig, gc, sessions, tickets, requested>>

(* The banks that the request does not name stay as they are in RAM.       *)
NewAllocation(request) ==
    {c \in Cells : IF c[1] \in DOMAIN request THEN c[2] \in request[c[1]]
                   ELSE c \in gp.allocated}

PCR_Allocate(request) ==
    LET new == NewAllocation(request)
    IN  /\ Ready
        /\ \A p \in {HCRTM_PCR, DRTM_PCR} : \E b \in Banks : <<b, p>> \in new
        /\ nv' = [nv EXCEPT !.gp.allocated = new]
        /\ pcrReConfig' = TRUE
        /\ requested' = new
        /\ UNCHANGED <<timeVars, pcr, pcrCounter, gc, gp, sessions, tickets>>

(* Clear() writes the whole of gp.  (The tickets here are of the platform  *)
(* hierarchy, whose proof it keeps.)                                       *)
Clear ==
    /\ Ready
    /\ gp' = Voided(gp)
    /\ nv' = [nv EXCEPT !.gp = gp']
    /\ PCRChanged(HCRTM_PCR, 1)
    /\ UNCHANGED <<timeVars, pcr, pcrReConfig, gc, sessions, tickets, requested>>

-----------------------------------------------------------------------------
(* Time and power.                                                         *)

Tick ==
    /\ Ready
    /\ time < MaxTime
    /\ time' = time + 1
    /\ UNCHANGED <<running, stopped, pcrVars, gp, sessions, nv, tickets, requested>>

(* TimeUpdate() at the first command after TPM2_Startup().                 *)
TimeNewEpoch ==
    /\ running
    /\ stopped
    /\ gp.timeEpoch < MaxEpoch
    /\ stopped' = FALSE
    /\ gp' = [gp EXCEPT !.timeEpoch = @ + 1]
    /\ nv' = [nv EXCEPT !.gp.timeEpoch = gp'.timeEpoch]
    /\ UNCHANGED <<running, time, pcrVars, sessions, tickets, requested>>

(* PCRStateSave(): what gc.pcrSave holds of cells not allocated stays.     *)
PCRStateSave ==
    [c \in Cells |-> IF c \in gp.allocated /\ c[2] \in StateSave
                     THEN pcr[c] ELSE gc[c]]

Shutdown(type) ==
    /\ Ready
    /\ type = "STATE" => ~pcrReConfig
    /\ gp' = [gp EXCEPT !.orderlyState = type]
    /\ IF type = "STATE"
       THEN /\ gc' = PCRStateSave
            /\ nv' = [nv EXCEPT !.gp.orderlyState = type, !.pcrSave = gc',
                                !.pcrCounter = pcrCounter, !.sessions = sessions]
       ELSE /\ nv' = [nv EXCEPT !.gp.orderlyState = type]
            /\ UNCHANGED gc
    /\ UNCHANGED <<timeVars, pcr, pcrCounter, pcrReConfig, sessions, tickets,
                   requested>>

(* The power goes and comes back: RAM starts from zero, NV is read.        *)
PowerCycle ==
    /\ running' = FALSE
    /\ stopped' = TRUE
    /\ time' = 0
    /\ pcr' = [c \in Cells |-> 0]
    /\ pcrCounter' = 0
    /\ pcrReConfig' = FALSE
    /\ gc' = [c \in Cells |-> 0]
    /\ gp' = nv.gp
    /\ sessions' = [h \in Handles |-> Absent]
    /\ UNCHANGED <<nv, tickets, requested>>

(* The PCRs that PCRStartup() takes from gc.pcrSave.                       *)
Restored(type) == IF type = "STATE" THEN StateSave ELSE {}

(* Mutant: after a TPM Resume or Restart the changes are not counted.      *)
MutPCRStartup(type, keep) ==
    LET base    == IF keep THEN nv.pcrCounter ELSE 0
        changed == IF keep THEN {} ELSE {p \in PCRs : Counted(p)}
    IN  /\ pcrCounter' = base + Cardinality(changed)
        /\ pcrCounter' <= MaxCounter
        /\ pcr' = [c \in Cells |->
                     IF c \in gp.allocated /\ c[2] \in Restored(type)
                     THEN nv.pcrSave[c] ELSE 0]

PCRStartup(type, keep) ==
    LET base    == IF keep THEN nv.pcrCounter ELSE 0
        changed == {p \in PCRs \ Restored(type) : Counted(p)}
    IN  /\ pcrCounter' = base + Cardinality(changed)
        /\ pcrCounter' <= MaxCounter
        /\ pcr' = [c \in Cells |->
                     IF c \in gp.allocated /\ c[2] \in Restored(type)
                     THEN nv.pcrSave[c] ELSE 0]

SessionStartup(saved) ==
    [h \in Handles |->
        IF saved[h].where = "saved" THEN saved[h] ELSE Absent]

Startup(type) ==
    LET keep == gp.orderlyState = "STATE"
    IN  /\ ~running
        /\ type = "STATE" => keep
        /\ running' = TRUE
        /\ gc' = IF type = "STATE" THEN nv.pcrSave ELSE gc
        /\ PCRStartup(type, keep)
        /\ sessions' = IF keep THEN SessionStartup(nv.sessions) ELSE sessions
        /\ Void
        /\ UNCHANGED <<stopped, time, pcrReConfig, tickets, requested>>

-----------------------------------------------------------------------------
Init ==
    /\ running = FALSE
    /\ stopped = TRUE
    /\ time = 0
    /\ pcr = [c \in Cells |-> 0]
    /\ pcrCounter = 0
    /\ pcrReConfig = FALSE
    /\ gc = [c \in Cells |-> 0]
    /\ gp = [allocated |-> DefaultBanks \X PCRs, timeEpoch |-> 0,
             orderlyState |-> "NONE"]
    /\ sessions = [h \in Handles |-> Absent]
    /\ nv = [gp |-> gp, pcrCounter |-> 0, pcrSave |-> gc, sessions |-> sessions]
    /\ tickets = {}
    /\ requested = gp.allocated

PolicyCommand(h) ==
    \/ \E e \in Expirations, negative, nonce \in BOOLEAN,
          d \in Digests \cup {NoDigest} :
             \/ PolicySigned(h, e, negative, nonce, d)
             \/ PolicySecret(h, e, negative, nonce, d)
    \/ \E t \in tickets : PolicyTicket(h, t)
    \/ \E s \in Selections : PolicyPCR(h, s)
    \/ PolicyPhysicalPresence(h)
    \/ \E l \in Localities : PolicyLocality(h, l)
    \/ \E c \in Codes : PolicyCommandCode(h, c)
    \/ \E d \in Digests : \/ PolicyCpHash(h, d)
                          \/ PolicyNameHash(h, d)
                          \/ PolicyParameters(h, d)
                          \/ PolicyTemplate(h, d)
                          \/ PolicyDuplicationSelect(h, d)
    \/ PolicyAuthValue(h)
    \/ PolicyPassword(h)
    \/ \E w \in {"unwritten", "written"} : PolicyNvWritten(h, w)
    \/ PolicyOR(h)
    \/ PolicyNV(h)
    \/ PolicyCounterTimer(h)
    \/ PolicyAuthorize(h)
    \/ PolicyAuthorizeNV(h)
    \/ PolicyCapability(h)
    \/ PolicyRestart(h)

SessionCommand(h) ==
    \/ \E continue \in BOOLEAN : UseSession(h, continue)
    \/ \E trial \in BOOLEAN : StartAuthSession(h, trial)
    \/ FlushContext(h)
    \/ ContextSave(h)
    \/ ContextLoad(h)

PCRCommand ==
    \/ \E p \in PCRs, banks \in SUBSET Banks : PCR_Extend(p, banks)
    \/ \E p \in PCRs : PCR_Event(p) \/ PCR_Reset(p)
    \/ \E r \in AllocRequests : PCR_Allocate(r)
    \/ Clear

PowerAndTime ==
    \/ Tick
    \/ TimeNewEpoch
    \/ \E type \in {"CLEAR", "STATE"} : Shutdown(type) \/ Startup(type)
    \/ PowerCycle

Next ==
    \/ \E h \in Handles : PolicyCommand(h) \/ SessionCommand(h)
    \/ PCRCommand
    \/ PowerAndTime

Spec == Init /\ [][Next]_vars

-----------------------------------------------------------------------------
(* Properties.                                                             *)

Snapshots == UNION {[S -> 0 .. MaxExtends] : S \in SUBSET Cells}

Asserted ==
    [any: BOOLEAN, verified: BOOLEAN, pcr: SUBSET Snapshots,
     codes: SUBSET (Codes \cup {"Duplicate"}),
     digests: SUBSET (Kinds \X Digests), localities: SUBSET Localities,
     until: SUBSET [deadline: Nat, epoch: 0 .. MaxEpoch],
     presence: BOOLEAN, authValue: BOOLEAN,
     written: SUBSET {"unwritten", "written"}]

PolicyData ==
    [policyDigest: {"zero", "extended"}, pcrCounter: 0 .. MaxCounter,
     timeout: Nat, commandCode: Codes \cup {NoCode, "Duplicate"},
     commandLocality: SUBSET (UNION Localities),
     u1: Digests \cup {NoDigest}, defined: SUBSET Kinds,
     needed: {"nothing", "authValue", "password"}, isPPRequired: BOOLEAN,
     checkNvWritten: {"no", "unwritten", "written"}, asserted: Asserted]

Session ==
    [where: {"absent", "loaded", "saved"}, trial: BOOLEAN,
     startTime: 0 .. MaxTime, epoch: 0 .. MaxEpoch, policy: PolicyData]

Persistent ==
    [allocated: SUBSET Cells, timeEpoch: 0 .. MaxEpoch,
     orderlyState: {"NONE", "CLEAR", "STATE"}]

(* What NV holds.                                                          *)
Image ==
    [gp: Persistent, pcrCounter: 0 .. MaxCounter,
     pcrSave: [Cells -> 0 .. MaxExtends], sessions: [Handles -> Session]]

Ticket ==
    [timeout: Nat, cpHash: Digests \cup {NoDigest}, epoch: 0 .. MaxEpoch]

(* The types of the state.  The digest union and its flags (SESSION, u1    *)
(* and the is...HashDefined attributes) agree: a flag is set exactly when  *)
(* the union holds a digest.                                               *)
TypeOK ==
    /\ running \in BOOLEAN /\ stopped \in BOOLEAN /\ time \in 0 .. MaxTime
    /\ pcr \in [Cells -> 0 .. MaxExtends] /\ pcrCounter \in 0 .. MaxCounter
    /\ pcrReConfig \in BOOLEAN /\ gc \in [Cells -> 0 .. MaxExtends]
    /\ gp \in Persistent
    /\ sessions \in [Handles -> Session]
    /\ nv \in Image
    /\ tickets \subseteq Ticket
    /\ requested \subseteq Cells
    /\ \A h \in Handles : LET p == sessions[h].policy
                          IN  p.defined # {} <=> p.u1 # NoDigest

(* Everything asserted in a session since its last use holds of c, now.    *)
HoldsOf(a, c) ==
    /\ a.any /\ a.verified
    /\ \A f \in a.pcr : \A x \in DOMAIN f : x \in gp.allocated /\ pcr[x] = f[x]
    /\ a.codes \subseteq {c.code}
    /\ c.role = "ADMIN" => a.codes # {}
    /\ \A d \in a.digests :
          \E k \in Kinds : <<k, d[2]>> \in a.digests /\ c.digest[k] = d[2]
    /\ \A l \in a.localities : c.locality \in l
    /\ \A u \in a.until : u.epoch = gp.timeEpoch /\ time <= u.deadline
    /\ a.presence => c.presence
    /\ a.authValue => c.knowsAuth
    /\ \A w \in a.written : c.index = w

(* A session that CheckPolicyAuthSession() lets through for a command has  *)
(* had something asserted in it, with its check made, and every assertion  *)
(* made since the session was last used still holds for that command at    *)
(* that moment: the counted PCRs selected have the values they had, no     *)
(* deadline is over and none is of an earlier power cycle, and the         *)
(* command, its parameters, locality, presence and NV index are the ones   *)
(* every assertion named (of a digest that is asserted as two kinds, the   *)
(* command has to match one).  A session in which nothing was asserted has *)
(* a policyDigest of zeros, which the code compares like any other: an     *)
(* entity with that authPolicy asks for nothing.                           *)
AuthorizedAsAsserted ==
    \A h \in Handles, c \in Commands :
        Ready /\ Authorizes(sessions[h], c) /\ sessions[h].policy.policyDigest # "zero" =>
            HoldsOf(sessions[h].policy.asserted, c)

(* As long as a Shutdown(STATE) is in force, the values a TPM Resume would *)
(* restore are the ones the saved PCRs have: a command that changes a PCR  *)
(* with stateSave voids the Shutdown.                                      *)
SavedPcrsCurrent ==
    running /\ gp.orderlyState = "STATE" =>
        \A c \in gp.allocated \cap nv.gp.allocated :
            c[2] \in StateSave => nv.pcrSave[c] = pcr[c]

(* The allocation in NV, the one the next Startup(CLEAR) uses, is the one  *)
(* the last TPM2_PCR_Allocate asked for: PCRAllocate says of its write to  *)
(* NV that "The NV version reflect the allocate after next TPM_RESET".     *)
(* TPM2_Clear writes the whole of gp, whose RAM copy still has the old     *)
(* allocation, over it.                                                    *)
AllocationAsRequested == nv.gp.allocated = requested

=============================================================================
