-------------------------- MODULE DictionaryAttack --------------------------
(***************************************************************************)
(* Dictionary attack protection and time: the count of failed              *)
(* authorizations and its self healing (DA.c), the authorization checks    *)
(* that feed it (SessionProcess.c), time and clock (Time.c), the commands  *)
(* that manage them, and their way through shutdown, loss of power and     *)
(* startup.                                                                *)
(*                                                                         *)
(* A command is one step: its changes to NV are committed at its end (how  *)
(* that may fail is the subject of NvPersistence).  One session per        *)
(* command is enough here: a session that succeeds changes none of this    *)
(* state, and the first that fails ends the command.                       *)
(***************************************************************************)
EXTENDS Integers

CONSTANTS SECOND,             \* ticks of the timer in a second
          INTERVAL,           \* 2^NV_CLOCK_UPDATE_INTERVAL
          TIME_MOD,           \* 2^64
          TRIES_MOD,          \* 2^32
          CLOCK_LIMIT,        \* largest value TPM2_ClockSet takes
          MaxTriesValues,     \* inputs of TPM2_DictionaryAttackParameters
          RecoveryTimes,
          LockoutRecoveries,
          DefaultMaxTries,    \* DAPreInstall_Init
          DefaultRecovery,
          DefaultLockoutRecovery,
          LockoutPolicy,      \* TRUE if gp.lockoutPolicy has been set
          CleanShutdown,      \* TRUE if TPM2_Shutdown is the last command
          MaxPowered          \* bound: ticks with power on

ASSUME ParametersAssumption ==
    /\ SECOND \in Nat \ {0} /\ INTERVAL \in Nat \ {0}
    /\ TIME_MOD \in Nat \ {0} /\ TRIES_MOD \in Nat \ {0}
    /\ CLOCK_LIMIT \in Nat
    /\ MaxTriesValues \subseteq 0 .. (TRIES_MOD - 1)
    /\ RecoveryTimes \subseteq Nat /\ LockoutRecoveries \subseteq Nat
    /\ DefaultMaxTries \in MaxTriesValues
    /\ DefaultRecovery \in RecoveryTimes
    /\ DefaultLockoutRecovery \in LockoutRecoveries
    /\ \E m \in MaxTriesValues : \A n \in MaxTriesValues : n <= m
    /\ \E r \in RecoveryTimes \ {0} : \A q \in RecoveryTimes \ {0} : r <= q
    /\ \E r \in LockoutRecoveries \ {0} : \A q \in LockoutRecoveries \ {0} : r <= q
    /\ LockoutPolicy \in BOOLEAN /\ CleanShutdown \in BOOLEAN
    /\ MaxPowered \in Nat
    /\ MaxPowered < TIME_MOD

VARIABLES
    tpm,       \* gp and go in RAM and in NV, g_time, failure mode
    timer,     \* _plat__TimerRead
    phase,     \* "init" after _TPM_Init, "started" after TPM2_Startup
    \* history: wrong authValues that counted and were not forgiven, ticks with
    \* power on, the tick of the last wrong lockoutAuth, the largest clock read
    failures, powered, lockFailed, reported

vars == <<tpm, timer, phase, failures, powered, lockFailed, reported>>

Never == -1

\* What an authorization is about: an object or index subject to dictionary
\* attack protection, one that is not, lockoutAuth, or nothing.
Handles   == {"protected", "exempt", "lockout", "none"}
IsDAProtected(handle) == handle \in {"protected", "lockout"}

\* A session of a command: its kind, what it is bound to, the entity it
\* authorizes, whether that is the bound entity with an unchanged authValue,
\* and whether its policy asks for the authValue.
Session ==
    {a \in [type : {"PW", "HMAC", "POLICY"}, bind : Handles, entity : Handles,
            same : BOOLEAN, needed : BOOLEAN] :
        /\ a.type = "PW" => a.bind = "none" /\ a.entity # "none"
        /\ a.same => a.type = "HMAC" /\ a.bind = a.entity /\ a.bind # "none"
        /\ a.needed => a.type = "POLICY" /\ a.entity # "none"
        /\ a.type = "POLICY" /\ a.entity = "lockout" => LockoutPolicy}

-----------------------------------------------------------------------------
(* Time.c *)

TimeClockUpdate(s, newTime) ==
    IF newTime \div INTERVAL > s.go.clock \div INTERVAL
    THEN LET go == [s.go EXCEPT !.clock = newTime, !.clockSafe = TRUE]
         IN  [s EXCEPT !.go = go, !.nvgo = go]
    ELSE [s EXCEPT !.go.clock = newTime]

\* g_time - (INT64)since, in UINT64.
Elapsed(s, since) == (s.time - since) % TIME_MOD

\* The first half of DASelfHeal.
HealTries(s) ==
    LET decreaseCount == (Elapsed(s, s.go.selfHealTimer) \div SECOND) \div s.gp.recoveryTime
        low  == decreaseCount % TRIES_MOD
        left == IF s.gp.failedTries <= low THEN 0 ELSE s.gp.failedTries - low
    IN  IF s.gp.failedTries = 0 THEN s
        ELSE IF s.gp.recoveryTime = 0
        THEN [s EXCEPT !.gp.failedTries = 0, !.nvgp.failedTries = 0]
        ELSE [s EXCEPT !.gp.failedTries = left,
                       !.nvgp.failedTries = IF decreaseCount # 0 THEN left ELSE @,
                       !.go.selfHealTimer =
                           (@ + decreaseCount * s.gp.recoveryTime * SECOND) % TIME_MOD]

\* The second half.
HealLockout(s) ==
    IF /\ ~s.gp.lockOutAuthEnabled
       /\ s.gp.lockoutRecovery # 0
       /\ Elapsed(s, s.go.lockoutTimer) \div SECOND >= s.gp.lockoutRecovery
    THEN [s EXCEPT !.gp.lockOutAuthEnabled = TRUE, !.nvgp.lockOutAuthEnabled = TRUE]
    ELSE s

DASelfHeal(s) == HealLockout(HealTries(s))

TimeUpdate(s) ==
    DASelfHeal(TimeClockUpdate([s EXCEPT !.time = timer], s.go.clock + (timer - s.time)))

-----------------------------------------------------------------------------
(* SessionProcess.c *)

\* SessionCreate sets isDaBound for policy sessions too.
IsDaBound(a) == IsDAProtected(a.bind)

\* authUsed of CheckAuthSession and the attribute includeAuth.
AuthUsed(a) ==
    /\ a.entity # "none"
    /\ a.type = "HMAC" => ~a.same
    /\ a.type = "POLICY" => a.needed

CheckLockedOut(s, lockoutAuthCheck) ==
    IF lockoutAuthCheck
    THEN ~s.gp.lockOutAuthEnabled
    ELSE s.gp.failedTries >= s.gp.maxTries

\* Mutant: a session bound to a protected entity is not checked.
MutIsLockedOut(s, a) ==
    AuthUsed(a) /\ IsDAProtected(a.entity) /\ CheckLockedOut(s, a.entity = "lockout")

\* ParseSessionBuffer and CheckAuthSession refuse before they compare anything.
IsLockedOut(s, a) ==
    \/ IsDaBound(a) /\ CheckLockedOut(s, a.bind = "lockout")
    \/ AuthUsed(a) /\ IsDAProtected(a.entity) /\ CheckLockedOut(s, a.entity = "lockout")

\* The handle IncrementLockout works on.
LockoutHandle(a) == IF a.bind = "lockout" THEN "lockout" ELSE a.entity

\* TPM_RC_AUTH_FAIL rather than TPM_RC_BAD_AUTH.
Counts(a) == IsDaBound(a) \/ (IsDAProtected(LockoutHandle(a)) /\ AuthUsed(a))

\* Mutant: the wrong one of the two timers is reset.
MutIncrementLockout(s, a) ==
    IF ~Counts(a) THEN s
    ELSE IF LockoutHandle(a) = "lockout"
    THEN [s EXCEPT !.failed = ~s.gp.lockOutAuthEnabled,
                   !.gp.lockOutAuthEnabled = FALSE,
                   !.nvgp.lockOutAuthEnabled = (s.gp.lockoutRecovery = 0 /\ @),
                   !.go.selfHealTimer = s.time]
    ELSE [s EXCEPT !.gp.failedTries = @ + 1, !.nvgp.failedTries = s.gp.failedTries + 1,
                   !.go.lockoutTimer = s.time]

IncrementLockout(s, a) ==
    IF ~Counts(a) THEN s
    ELSE IF LockoutHandle(a) = "lockout"
    THEN [s EXCEPT !.failed = ~s.gp.lockOutAuthEnabled,     \* pAssert
                   !.gp.lockOutAuthEnabled = FALSE,
                   !.nvgp.lockOutAuthEnabled = (s.gp.lockoutRecovery = 0 /\ @),
                   !.go.lockoutTimer = s.time]
    ELSE IF s.gp.recoveryTime # 0
    THEN [s EXCEPT !.gp.failedTries = @ + 1,
                   !.nvgp.failedTries = s.gp.failedTries + 1,
                   !.go.selfHealTimer = s.time]
    ELSE [s EXCEPT !.go.selfHealTimer = s.time]

ClearOrderly(s) == [s EXCEPT !.gp.orderly = FALSE, !.nvgp.orderly = FALSE]

\* NvCommit at the end of ExecuteCommand, unless a pAssert failed.
Committed(s) ==
    IF s.failed THEN [s EXCEPT !.nvgp = tpm.nvgp, !.nvgo = tpm.nvgo] ELSE s

-----------------------------------------------------------------------------
(* Commands.  Each starts with TimeUpdateToCurrent. *)

Now == TimeUpdate(tpm)

Ready ==
    /\ phase = "started" /\ ~tpm.failed
    /\ CleanShutdown => ~tpm.gp.orderly

Tries(count) == failures' = IF tpm.gp.recoveryTime = 0 THEN 0 ELSE failures + count

\* A command refused for lockout, or one that changes nothing but the time.
Refused ==
    /\ Ready
    /\ tpm' = Now
    /\ Tries(0)
    /\ UNCHANGED <<timer, phase, powered, lockFailed, reported>>

\* An authorization fails.
WrongAuth(a) ==
    /\ Ready
    /\ ~IsLockedOut(Now, a)
    /\ tpm' = Committed(IncrementLockout(Now, a))
    /\ IF Counts(a) /\ LockoutHandle(a) = "lockout"
       THEN lockFailed' = powered /\ Tries(0)
       ELSE UNCHANGED lockFailed /\ Tries(IF Counts(a) THEN 1 ELSE 0)
    /\ UNCHANGED <<timer, phase, powered, reported>>

\* A command that is authorized for the given entity.
Authorized(entity) == Ready /\ \E a \in Session : a.entity = entity /\ ~IsLockedOut(Now, a)

\* Any other command that succeeds and sets g_clearOrderly.
Execute ==
    /\ Ready
    /\ tpm' = ClearOrderly(Now)
    /\ Tries(0)
    /\ UNCHANGED <<timer, phase, powered, lockFailed, reported>>

TPM2_DictionaryAttackLockReset ==
    /\ Authorized("lockout")
    /\ tpm' = [Now EXCEPT !.gp.failedTries = 0, !.nvgp.failedTries = 0]
    /\ failures' = 0
    /\ UNCHANGED <<timer, phase, powered, lockFailed, reported>>

TPM2_DictionaryAttackParameters(maxTries, recoveryTime, lockoutRecovery) ==
    /\ Authorized("lockout")
    /\ tpm' = [Now EXCEPT !.gp.maxTries = maxTries, !.nvgp.maxTries = maxTries,
                          !.gp.recoveryTime = recoveryTime, !.nvgp.recoveryTime = recoveryTime,
                          !.gp.lockoutRecovery = lockoutRecovery,
                          !.nvgp.lockoutRecovery = lockoutRecovery,
                          !.nvgp.failedTries = Now.gp.failedTries]
    /\ Tries(0)
    /\ UNCHANGED <<timer, phase, powered, lockFailed, reported>>

PreInstall(orderly) ==
    [failedTries |-> 0, maxTries |-> DefaultMaxTries, recoveryTime |-> DefaultRecovery,
     lockoutRecovery |-> DefaultLockoutRecovery, lockOutAuthEnabled |-> TRUE,
     orderly |-> orderly]

\* With lockoutAuth, or with platformAuth, which is exempt.
TPM2_Clear ==
    /\ Authorized("lockout") \/ Authorized("exempt")
    /\ LET go == [Now.go EXCEPT !.clock = 0, !.clockSafe = TRUE]
       IN  tpm' = [Now EXCEPT !.gp = PreInstall(FALSE), !.nvgp = PreInstall(FALSE),
                              !.go = go, !.nvgo = go]
    /\ failures' = 0
    /\ lockFailed' = Never
    /\ reported' = 0
    /\ UNCHANGED <<timer, phase, powered>>

TPM2_ReadClock ==
    /\ Ready
    /\ tpm' = Now
    /\ reported' = IF Now.go.clock > reported THEN Now.go.clock ELSE reported
    /\ Tries(0)
    /\ UNCHANGED <<timer, phase, powered, lockFailed>>

TPM2_ClockSet(newTime) ==
    /\ Authorized("exempt")
    /\ newTime <= CLOCK_LIMIT /\ newTime >= Now.go.clock
    /\ tpm' = TimeClockUpdate(Now, newTime)
    /\ Tries(0)
    /\ UNCHANGED <<timer, phase, powered, lockFailed, reported>>

TPM2_Shutdown ==
    /\ Ready
    /\ LET go == [Now.go EXCEPT !.time = Now.time]
       IN  tpm' = [Now EXCEPT !.gp.orderly = TRUE, !.nvgp.orderly = TRUE,
                              !.go = go, !.nvgo = go]
    /\ Tries(0)
    /\ UNCHANGED <<timer, phase, powered, lockFailed, reported>>

-----------------------------------------------------------------------------
(* Power and startup *)

Tick ==
    /\ powered < MaxPowered        \* bound
    /\ powered' = powered + 1
    /\ timer' = timer + 1
    /\ UNCHANGED <<tpm, phase, failures, lockFailed, reported>>

\* Power is lost and comes back: _plat__Signal_PowerOn resets the timer, _TPM_Init
\* reads gp and go from NV.
PowerCycle ==
    /\ phase' = "init"
    /\ timer' = 0
    /\ tpm' = [tpm EXCEPT !.gp = tpm.nvgp, !.go = tpm.nvgo, !.time = 0, !.failed = FALSE]
    /\ UNCHANGED <<failures, powered, lockFailed, reported>>

\* Mutant: the clock stays safe after an unorderly shutdown.
MutTimeStartup(s) == s

TimeStartup(s) == [s EXCEPT !.go.clockSafe = @ /\ s.gp.orderly]

\* Mutant: the timers are not moved to the new time base.
MutDATimers(s) ==
    IF s.gp.orderly THEN s
    ELSE [s EXCEPT !.go.selfHealTimer = 0, !.go.lockoutTimer = 0]

\* _plat__TimerWasReset holds at every startup.
DATimers(s) ==
    IF s.gp.orderly
    THEN [s EXCEPT !.go.selfHealTimer = (@ - s.go.time) % TIME_MOD,
                   !.go.lockoutTimer = (@ - s.go.time) % TIME_MOD]
    ELSE [s EXCEPT !.go.selfHealTimer = 0, !.go.lockoutTimer = 0]

DARecovery(s) ==
    IF s.gp.lockoutRecovery = 0
    THEN [s EXCEPT !.gp.lockOutAuthEnabled = TRUE, !.nvgp.lockOutAuthEnabled = TRUE]
    ELSE s

\* Mutant: the count grows past maxTries.
MutDAUnorderly(s) ==
    IF s.gp.recoveryTime # 0 /\ ~s.gp.orderly
    THEN [s EXCEPT !.gp.failedTries = @ + 1, !.nvgp.failedTries = s.gp.failedTries + 1]
    ELSE s

DAUnorderly(s) ==
    IF s.gp.recoveryTime # 0 /\ s.gp.failedTries < s.gp.maxTries /\ ~s.gp.orderly
    THEN [s EXCEPT !.gp.failedTries = @ + 1, !.nvgp.failedTries = s.gp.failedTries + 1]
    ELSE s

DAStartup(s) == TimeUpdate(DAUnorderly(DARecovery(DATimers(s))))

TPM2_Startup ==
    /\ phase = "init"
    /\ phase' = "started"
    /\ tpm' = ClearOrderly(DAStartup(TimeStartup(tpm)))
    /\ lockFailed' = IF tpm.gp.lockoutRecovery = 0 THEN Never ELSE lockFailed
    /\ Tries(0)
    /\ UNCHANGED <<timer, powered, reported>>

-----------------------------------------------------------------------------
Manufactured == [clock |-> 0, clockSafe |-> TRUE, selfHealTimer |-> 0, lockoutTimer |-> 0,
                 time |-> 0]

Init ==
    /\ tpm = [gp |-> PreInstall(TRUE), nvgp |-> PreInstall(TRUE),
              go |-> Manufactured, nvgo |-> Manufactured, time |-> 0, failed |-> FALSE]
    /\ timer = 0 /\ phase = "init"
    /\ failures = 0 /\ powered = 0 /\ lockFailed = Never /\ reported = 0

Next ==
    \/ Refused
    \/ \E a \in Session : WrongAuth(a)
    \/ Execute
    \/ TPM2_DictionaryAttackLockReset
    \/ \E maxTries \in MaxTriesValues, recoveryTime \in RecoveryTimes,
          lockoutRecovery \in LockoutRecoveries :
             TPM2_DictionaryAttackParameters(maxTries, recoveryTime, lockoutRecovery)
    \/ TPM2_Clear
    \/ TPM2_ReadClock
    \/ \E newTime \in 0 .. CLOCK_LIMIT : TPM2_ClockSet(newTime)
    \/ TPM2_Shutdown
    \/ Tick
    \/ PowerCycle
    \/ TPM2_Startup

Spec == Init /\ [][Next]_vars
-----------------------------------------------------------------------------
(* Properties *)

MinNonZero(S) == CHOOSE r \in S \ {0} : \A q \in S \ {0} : r <= q
MaxTriesLimit == CHOOSE m \in MaxTriesValues : \A n \in MaxTriesValues : n <= m

GpType == [failedTries : 0 .. (TRIES_MOD - 1), maxTries : MaxTriesValues,
           recoveryTime : RecoveryTimes, lockoutRecovery : LockoutRecoveries,
           lockOutAuthEnabled : BOOLEAN, orderly : BOOLEAN]
GoType == [clock : Nat, clockSafe : BOOLEAN, selfHealTimer : 0 .. (TIME_MOD - 1),
           lockoutTimer : 0 .. (TIME_MOD - 1), time : 0 .. (TIME_MOD - 1)]

TpmType == [gp : GpType, nvgp : GpType, go : GoType, nvgo : GoType,
            time : 0 .. (TIME_MOD - 1), failed : BOOLEAN]

TypeOK ==
    /\ tpm \in TpmType
    /\ timer \in Nat /\ powered \in Nat /\ failures \in Nat /\ reported \in Nat
    /\ lockFailed \in Nat \cup {Never}
    /\ phase \in {"init", "started"}

\* Every wrong authValue that counted is still in failedTries, in NV too, unless
\* it was forgiven by a command or paid for with recoveryTime seconds of power.
HealingIsPaid ==
    failures <= tpm.nvgp.failedTries + powered \div (MinNonZero(RecoveryTimes) * SECOND)

\* What the protection is for: whatever sessions are used and however often the
\* power is cut, the number of wrong authValues that are tried between two pardons
\* is limited by maxTries and the time spent with power on.
GuessBudget ==
    failures <= MaxTriesLimit + powered \div (MinNonZero(RecoveryTimes) * SECOND)

\* After a wrong lockoutAuth it is not tried again before lockoutRecovery seconds
\* with power on, unless a startup with lockoutRecovery 0 enabled it.
LockoutWaits ==
    phase = "started" /\ lockFailed # Never /\ tpm.gp.lockOutAuthEnabled =>
        powered - lockFailed >= MinNonZero(LockoutRecoveries) * SECOND

\* The assertion of IncrementLockout: a failure of lockoutAuth is only counted
\* while its use is enabled.
LockoutAssertion == ~tpm.failed

\* A clock that is reported as safe is not behind any clock reported earlier, in
\* this power cycle or before.
SafeClock ==
    phase = "started" /\ tpm.go.clockSafe => tpm.go.clock >= reported
=============================================================================
