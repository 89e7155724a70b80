----------------------- MODULE DictionaryAttackProofs -----------------------
(***************************************************************************)
(* Proofs about DictionaryAttack for every choice of its parameters, under *)
(* the two assumptions the properties need: TPM2_Shutdown is the last      *)
(* command before the power goes, and lockoutPolicy is empty.              *)
(***************************************************************************)
EXTENDS DictionaryAttack, TLAPS

\* time limits of the provers, in seconds
USE SMTT(30), ZenonT(30)

\* The price of one decrement of failedTries, and of enabling lockoutAuth.
Price     == MinNonZero(RecoveryTimes) * SECOND
LockPrice == MinNonZero(LockoutRecoveries) * SECOND

-----------------------------------------------------------------------------
(* Arithmetic *)

\* Quotient and remainder, for the signed differences of times.
LEMMA DivMod ==
    ASSUME NEW m \in Nat \ {0}, NEW a \in Int
    PROVE  /\ a \div m \in Int
           /\ a % m \in 0 .. (m - 1)
           /\ a = m * (a \div m) + (a % m)
  BY SMT

\* A remainder is determined by its range.
LEMMA ModUnique ==
    ASSUME NEW m \in Nat \ {0}, NEW q \in Int, NEW r \in 0 .. (m - 1)
    PROVE  (m * q + r) % m = r
  BY SMT

\* A number below the modulus is its own remainder.
LEMMA ModSmall ==
    ASSUME NEW m \in Nat \ {0}, NEW r \in 0 .. (m - 1)
    PROVE  r % m = r
<1>1. (m * 0 + r) % m = r
  BY ModUnique
<1>2. m * 0 + r = r
  OBVIOUS
<1>3. QED BY <1>1, <1>2

\* UINT64 subtraction: reducing an operand first makes no difference.
LEMMA ModSub ==
    ASSUME NEW m \in Nat \ {0}, NEW t \in Int, NEW s \in Int
    PROVE  (t - (s % m)) % m = (t - s) % m
<1> DEFINE q == s \div m
           p == (t - s) \div m
           r == (t - s) % m
           w == s % m
<1>1. q \in Int /\ w \in Int /\ s = m * q + w
  BY DivMod
<1>2. p \in Int /\ r \in 0 .. (m - 1) /\ t - s = m * p + r
  <2>1. t - s \in Int
    OBVIOUS
  <2>2. QED BY <2>1, DivMod, ZenonT(30)
<1> HIDE DEF q, p, r, w
<1>3. t - w = m * p + m * q + r
  BY <1>1, <1>2
<1>4. m * p + m * q + r = m * (p + q) + r
  BY <1>1, <1>2
<1>5. (m * (p + q) + r) % m = r
  <2>1. p + q \in Int
    BY <1>1, <1>2
  <2>2. QED BY <2>1, <1>2, ModUnique
<1>6. QED BY <1>3, <1>4, <1>5 DEF r, w

\* Time that passes adds to a difference of two times, as long as it fits.
LEMMA ModAdd ==
    ASSUME NEW m \in Nat \ {0}, NEW t \in Int, NEW s \in Int, NEW d \in Int,
           ((t - s) % m) + d \in 0 .. (m - 1)
    PROVE  (t + d - s) % m = ((t - s) % m) + d
<1> DEFINE p == (t - s) \div m
           r == (t - s) % m
<1>1. p \in Int /\ r \in 0 .. (m - 1) /\ t - s = m * p + r
  <2>1. t - s \in Int
    OBVIOUS
  <2>2. QED BY <2>1, DivMod, ZenonT(30)
<1>2. r + d \in 0 .. (m - 1)
  OBVIOUS
<1> HIDE DEF p, r
<1>3. t + d - s = m * p + (r + d)
  BY <1>1
<1>4. (m * p + (r + d)) % m = r + d
  BY <1>1, <1>2, ModUnique
<1>5. QED BY <1>3, <1>4 DEF r

\* Whole seconds and whole recovery times never exceed the time elapsed.
LEMMA WholeUnits ==
    ASSUME NEW e \in Nat, NEW u \in Nat \ {0}, NEW r \in Nat \ {0}
    PROVE  /\ (e \div u) \div r \in Nat
           /\ ((e \div u) \div r) * r * u \in Nat
           /\ ((e \div u) \div r) * r * u <= e
<1> DEFINE q == e \div u
           d == q \div r
<1>1. q \in Nat /\ u * q <= e
  BY DivMod, SMT
<1> HIDE DEF q
<1>2. d \in Nat /\ r * d <= q
  BY <1>1, DivMod, SMT
<1> HIDE DEF d
<1>3. d * r \in Nat /\ d * r <= q
  BY <1>2
<1> DEFINE x == d * r
<1>4. x \in Nat /\ x <= q
  BY <1>3
<1> HIDE DEF x
<1>5. x * u \in Nat /\ x * u <= q * u
  BY <1>1, <1>4
<1>6. QED BY <1>1, <1>2, <1>5 DEF x, d, q

\* A count of whole prices fits in the time that pays for it.
LEMMA CountFits ==
    ASSUME NEW k \in Nat \ {0}, NEW n \in Int, NEW p \in Nat, n * k <= p
    PROVE  n <= p \div k
<1> DEFINE q == p \div k
           r == p % k
<1>1. q \in Int /\ r \in 0 .. (k - 1) /\ p = k * q + r
  BY DivMod
<1> HIDE DEF q, r
<1>2. SUFFICES ASSUME n >= q + 1 PROVE FALSE
  BY <1>1 DEF q
<1>3. n * k >= (q + 1) * k
  BY <1>1, <1>2
<1>4. (q + 1) * k = k * q + k
  BY <1>1
<1>5. QED BY <1>1, <1>3, <1>4

\* Multiplication by a natural number is monotone.
LEMMA MulMono ==
    ASSUME NEW k \in Nat, NEW a \in Int, NEW b \in Int, a <= b
    PROVE  a * k <= b * k /\ a * k \in Int /\ b * k \in Int
  OBVIOUS

\* So is integer division.
LEMMA DivMono ==
    ASSUME NEW k \in Nat \ {0}, NEW a \in Nat, NEW b \in Nat
    PROVE  /\ a \div k \in Nat /\ b \div k \in Nat
           /\ a <= b => a \div k <= b \div k
           /\ a \div k < b \div k => a < b
<1> DEFINE q == a \div k
           r == a % k
           p == b \div k
           t == b % k
<1>1. q \in Int /\ r \in 0 .. (k - 1) /\ a = k * q + r
  BY DivMod
<1>2. p \in Int /\ t \in 0 .. (k - 1) /\ b = k * p + t
  BY DivMod
<1> HIDE DEF q, r, p, t
<1>3. ASSUME q > p PROVE a > b
  <2>1. k * q >= k * (p + 1)
    BY <1>1, <1>2, <1>3
  <2>2. k * (p + 1) = k * p + k
    BY <1>2
  <2>3. QED BY <1>1, <1>2, <2>1, <2>2
<1>4. ASSUME p > q PROVE b > a
  <2>1. k * p >= k * (q + 1)
    BY <1>1, <1>2, <1>4
  <2>2. k * (q + 1) = k * q + k
    BY <1>1
  <2>3. QED BY <1>1, <1>2, <2>1, <2>2
<1>5. q >= 0 /\ p >= 0
  <2>1. ASSUME NEW x \in Int, x <= -1 PROVE k * x <= -k
    BY <2>1
  <2>2. QED BY <1>1, <1>2, <2>1
<1>6. QED BY <1>1, <1>2, <1>3, <1>4, <1>5 DEF q, p

-----------------------------------------------------------------------------
(* The inductive invariant *)

\* failedTries and the time since selfHealTimer pay for the failures so far.
Paid(elapsed, tries, f, p) == elapsed <= p /\ (f - tries) * Price + elapsed <= p

\* lockoutAuth is enabled after its recovery time, which lockoutTimer measures.
Waits(enabled, elapsed, l, p) ==
    l # Never => /\ l <= p
                 /\ enabled => p - l >= LockPrice
                 /\ ~enabled => elapsed <= p - l

\* NV misses at most a lockout that ends with the next startup.
Synced(s) ==
    /\ s.gp.failedTries = s.nvgp.failedTries
    /\ s.gp.maxTries = s.nvgp.maxTries
    /\ s.gp.recoveryTime = s.nvgp.recoveryTime
    /\ s.gp.lockoutRecovery = s.nvgp.lockoutRecovery
    /\ s.gp.orderly = s.nvgp.orderly
    /\ \/ s.gp.lockOutAuthEnabled = s.nvgp.lockOutAuthEnabled
       \/ s.gp.lockoutRecovery = 0 /\ s.gp.lockOutAuthEnabled = FALSE

Healthy(s) == ~s.failed /\ s.gp.failedTries <= MaxTriesLimit /\ Synced(s)

\* The state in RAM, for f failures, the last one of lockoutAuth at l, at time p.
Ram(s, f, l, p) ==
    /\ Paid(Elapsed(s, s.go.selfHealTimer), s.gp.failedTries, f, p)
    /\ Waits(s.gp.lockOutAuthEnabled, Elapsed(s, s.go.lockoutTimer), l, p)

\* The state in NV.  Its timers count after an orderly shutdown only.
NvElapsed(s, since) == (s.nvgo.time - since) % TIME_MOD

Saved(s, f, l, p) ==
    /\ Paid(IF s.nvgp.orderly THEN NvElapsed(s, s.nvgo.selfHealTimer) ELSE 0,
            s.nvgp.failedTries, f, p)
    /\ IF s.nvgp.lockoutRecovery = 0 THEN l # Never => l <= p
       ELSE Waits(s.nvgp.lockOutAuthEnabled,
                  IF s.nvgp.orderly THEN NvElapsed(s, s.nvgo.lockoutTimer) ELSE 0, l, p)

\* NV knows the interval of the clock, and no later interval was reported.
Clock(s, r) ==
    /\ s.go.clock \div INTERVAL = s.nvgo.clock \div INTERVAL
    /\ r \div INTERVAL <= s.nvgo.clock \div INTERVAL
    /\ s.nvgp.orderly /\ s.nvgo.clockSafe => s.nvgo.clock >= r

ClockRam(s, r) == s.go.clockSafe => s.go.clock >= r

IInv ==
    /\ TypeOK
    /\ Healthy(tpm)
    /\ timer <= powered /\ powered <= MaxPowered /\ tpm.time <= timer
    /\ phase = "init" => tpm.gp = tpm.nvgp /\ tpm.go = tpm.nvgo /\ tpm.time = 0
    /\ phase = "started" => Ram(tpm, failures, lockFailed, powered - timer + tpm.time)
                            /\ ClockRam(tpm, reported)
    /\ Saved(tpm, failures, lockFailed, IF phase = "init" THEN powered - timer ELSE powered)
    /\ Clock(tpm, reported)

-----------------------------------------------------------------------------
(* The constants *)

\* What the arithmetic needs to know of the constants.
LEMMA Constants ==
    /\ SECOND \in Nat \ {0} /\ INTERVAL \in Nat \ {0}
    /\ TIME_MOD \in Nat \ {0} /\ TRIES_MOD \in Nat \ {0}
    /\ MaxPowered \in Nat /\ MaxPowered < TIME_MOD
  BY ParametersAssumption

\* DASelfHeal moves the timer forward by what it has used up.
LEMMA TimeAdvance ==
    ASSUME NEW t \in Int, NEW s \in Int, NEW d \in Int,
           0 <= d, d <= (t - s) % TIME_MOD
    PROVE  (t - ((s + d) % TIME_MOD)) % TIME_MOD = ((t - s) % TIME_MOD) - d
<1> DEFINE p == (t - s) \div TIME_MOD
           r == (t - s) % TIME_MOD
<1>1. p \in Int /\ r \in 0 .. (TIME_MOD - 1) /\ t - s = TIME_MOD * p + r
  <2>1. t - s \in Int
    OBVIOUS
  <2>2. QED BY <2>1, Constants, DivMod
<1>2. d <= r
  OBVIOUS
<1> HIDE DEF p, r
<1>3. r - d \in 0 .. (TIME_MOD - 1)
  BY Constants, <1>1, <1>2
<1>4. t - (s + d) = TIME_MOD * p + (r - d)
  BY Constants, <1>1
<1>5. (TIME_MOD * p + (r - d)) % TIME_MOD = r - d
  BY <1>1, <1>3, Constants, ModUnique
<1>6. (t - ((s + d) % TIME_MOD)) % TIME_MOD = (t - (s + d)) % TIME_MOD
  <2>1. s + d \in Int
    OBVIOUS
  <2>2. QED BY <2>1, Constants, ModSub, ZenonT(30)
<1>7. QED BY <1>4, <1>5, <1>6 DEF r

\* The same for time that passes.
LEMMA TimeAdd ==
    ASSUME NEW t \in Int, NEW s \in Int, NEW d \in Int,
           ((t - s) % TIME_MOD) + d \in 0 .. (TIME_MOD - 1)
    PROVE  (t + d - s) % TIME_MOD = ((t - s) % TIME_MOD) + d
  BY Constants, ModAdd, ZenonT(30)

\* The fields of gp.
LEMMA Sets ==
    ASSUME NEW g \in GpType
    PROVE  /\ g.failedTries \in 0 .. (TRIES_MOD - 1) /\ g.failedTries \in Nat
           /\ g.maxTries \in MaxTriesValues
           /\ g.recoveryTime \in RecoveryTimes /\ g.recoveryTime \in Nat
           /\ g.lockoutRecovery \in LockoutRecoveries /\ g.lockoutRecovery \in Nat
           /\ g.lockOutAuthEnabled \in BOOLEAN /\ g.orderly \in BOOLEAN
<1>1. RecoveryTimes \subseteq Nat /\ LockoutRecoveries \subseteq Nat /\ TRIES_MOD \in Nat
  BY ParametersAssumption
<1>2. g.failedTries \in 0 .. (TRIES_MOD - 1) /\ g.maxTries \in MaxTriesValues
  BY DEF GpType
<1>3. g.recoveryTime \in RecoveryTimes /\ g.lockoutRecovery \in LockoutRecoveries
  BY DEF GpType
<1>4. g.lockOutAuthEnabled \in BOOLEAN /\ g.orderly \in BOOLEAN
  BY DEF GpType
<1>5. g.failedTries \in Nat
  BY <1>1, <1>2
<1>6. g.recoveryTime \in Nat /\ g.lockoutRecovery \in Nat
  BY <1>1, <1>3, ZenonT(30)
<1>7. QED BY <1>2, <1>3, <1>4, <1>5, <1>6, Zenon

\* The parts of the state.
LEMMA Parts ==
    ASSUME NEW s \in TpmType
    PROVE  /\ s.gp \in GpType /\ s.nvgp \in GpType /\ s.go \in GoType /\ s.nvgo \in GoType
           /\ s.time \in 0 .. (TIME_MOD - 1) /\ s.failed \in BOOLEAN
  BY DEF TpmType

\* No value of maxTries is above MaxTriesLimit.
LEMMA Limits ==
    /\ MaxTriesLimit \in 0 .. (TRIES_MOD - 1)
    /\ \A n \in MaxTriesValues : n \in Nat /\ n <= MaxTriesLimit
<1>1. MaxTriesLimit \in MaxTriesValues /\ \A n \in MaxTriesValues : n <= MaxTriesLimit
  BY ParametersAssumption, Zenon DEF MaxTriesLimit
<1>2. QED BY <1>1, ParametersAssumption

\* No recovery time but 0 is cheaper than the smallest one.
LEMMA Prices ==
    /\ Price \in Nat \ {0} /\ LockPrice \in Nat \ {0}
    /\ \A r \in RecoveryTimes \ {0} : Price <= r * SECOND /\ r * SECOND \in Nat
    /\ \A r \in LockoutRecoveries \ {0} : LockPrice <= r * SECOND /\ r * SECOND \in Nat
<1> DEFINE a == MinNonZero(RecoveryTimes)
           b == MinNonZero(LockoutRecoveries)
<1>1. a \in RecoveryTimes \ {0} /\ \A q \in RecoveryTimes \ {0} : a <= q
  BY ParametersAssumption, Zenon DEF MinNonZero
<1>2. b \in LockoutRecoveries \ {0} /\ \A q \in LockoutRecoveries \ {0} : b <= q
  BY ParametersAssumption, Zenon DEF MinNonZero
<1>3. Price = a * SECOND /\ LockPrice = b * SECOND
  BY DEF Price, LockPrice
<1> HIDE DEF a, b
<1>4. a \in Nat \ {0} /\ b \in Nat \ {0} /\ SECOND \in Nat \ {0}
  BY <1>1, <1>2, ParametersAssumption
<1>5. a * SECOND \in Nat \ {0} /\ b * SECOND \in Nat \ {0}
  BY <1>4
<1>6. ASSUME NEW r \in RecoveryTimes \ {0} PROVE Price <= r * SECOND /\ r * SECOND \in Nat
  <2>1. r \in Nat /\ a <= r
    BY <1>1, ParametersAssumption
  <2>2. QED BY <2>1, <1>3, <1>4, MulMono
<1>7. ASSUME NEW r \in LockoutRecoveries \ {0} PROVE LockPrice <= r * SECOND /\ r * SECOND \in Nat
  <2>1. r \in Nat /\ b <= r
    BY <1>2, ParametersAssumption
  <2>2. QED BY <2>1, <1>3, <1>4, MulMono
<1>8. QED BY <1>3, <1>5, <1>6, <1>7

-----------------------------------------------------------------------------
(* Time and healing, step by step *)

\* The UINT64 difference of g_time and a timer.
LEMMA ElapsedType ==
    ASSUME NEW s \in TpmType
    PROVE  /\ Elapsed(s, s.go.selfHealTimer) \in 0 .. (TIME_MOD - 1)
           /\ Elapsed(s, s.go.lockoutTimer) \in 0 .. (TIME_MOD - 1)
<1>1. s.time - s.go.selfHealTimer \in Int /\ s.time - s.go.lockoutTimer \in Int
  BY DEF TpmType, GoType
<1>2. TIME_MOD \in Nat \ {0}
  BY ParametersAssumption
<1>3. QED BY <1>1, <1>2, DivMod, ZenonT(30) DEF Elapsed

\* The clock keeps its interval in NV, and is safe when a new one begins.
LEMMA ClockAdvances ==
    ASSUME NEW s \in TpmType, NEW newTime \in Nat, NEW r \in Nat,
           s.go.clock <= newTime, Clock(s, r), ClockRam(s, r)
    PROVE  LET u == TimeClockUpdate(s, newTime)
           IN  /\ u \in TpmType
               /\ u.gp = s.gp /\ u.nvgp = s.nvgp /\ u.time = s.time /\ u.failed = s.failed
               /\ u.go.selfHealTimer = s.go.selfHealTimer
               /\ u.go.lockoutTimer = s.go.lockoutTimer
               /\ Clock(u, r) /\ ClockRam(u, r)
<1> DEFINE u == TimeClockUpdate(s, newTime)
           q == newTime \div INTERVAL
           c == s.go.clock \div INTERVAL
<1>1. s.go \in GoType /\ s.nvgo \in GoType /\ s.go.clock \in Nat /\ s.nvgo.clock \in Nat
  BY DEF TpmType, GoType
<1>2. q \in Nat /\ c \in Nat /\ r \div INTERVAL \in Nat /\ c <= q /\ (r \div INTERVAL < q => r < newTime)
  BY <1>1, DivMono, ParametersAssumption, ZenonT(30)
<1>3. CASE q > c
  <2> DEFINE go == [s.go EXCEPT !.clock = newTime, !.clockSafe = TRUE]
  <2>1. u = [s EXCEPT !.go = go, !.nvgo = go]
    BY <1>3 DEF TimeClockUpdate
  <2>2. go \in GoType /\ go.clock = newTime /\ go.selfHealTimer = s.go.selfHealTimer
        /\ go.lockoutTimer = s.go.lockoutTimer
    BY <1>1, ZenonT(30) DEF GoType
  <2> HIDE DEF go
  <2>3. u \in TpmType /\ u.go = go /\ u.nvgo = go /\ u.gp = s.gp /\ u.nvgp = s.nvgp
        /\ u.time = s.time /\ u.failed = s.failed
    BY <2>1, <2>2, ZenonT(30) DEF TpmType
  <2>4. r \div INTERVAL < q
    BY <1>2, <1>3, DivMono, ParametersAssumption DEF Clock
  <2>5. r \div INTERVAL <= q /\ r <= newTime
    BY <2>4, <1>2
  <2> HIDE DEF u
  <2>6. Clock(u, r) /\ ClockRam(u, r)
    BY <2>2, <2>3, <2>5, <1>2 DEF Clock, ClockRam
  <2>7. QED BY <2>2, <2>3, <2>6 DEF u
<1>4. CASE ~(q > c)
  <2>1. u = [s EXCEPT !.go.clock = newTime]
    BY <1>4 DEF TimeClockUpdate
  <2>2. u \in TpmType /\ u.go = [s.go EXCEPT !.clock = newTime] /\ u.nvgo = s.nvgo /\ u.gp = s.gp
        /\ u.nvgp = s.nvgp /\ u.time = s.time /\ u.failed = s.failed
    BY <2>1, <1>1 DEF TpmType, GoType
  <2>3. u.go.clock = newTime /\ u.go.selfHealTimer = s.go.selfHealTimer
        /\ u.go.lockoutTimer = s.go.lockoutTimer /\ u.go.clockSafe = s.go.clockSafe
    BY <2>2, <1>1 DEF GoType
  <2>4. newTime \div INTERVAL = s.go.clock \div INTERVAL
    BY <1>2, <1>4
  <2> HIDE DEF u
  <2>5. Clock(u, r)
    BY <2>2, <2>3, <2>4 DEF Clock
  <2>6. ClockRam(u, r)
    BY <2>3, <1>1 DEF ClockRam
  <2>7. QED BY <2>2, <2>3, <2>5, <2>6 DEF u
<1>5. QED BY <1>3, <1>4

\* The count never falls behind what was paid for.
LEMMA PaidMono ==
    ASSUME NEW e \in Nat, NEW t \in Int, NEW f \in Int, NEW g \in Int, NEW p \in Int,
           g <= f, Paid(e, t, f, p)
    PROVE  Paid(e, t, g, p)
<1>1. (g - t) * Price <= (f - t) * Price /\ (g - t) * Price \in Int /\ (f - t) * Price \in Int
  BY Prices, MulMono
<1>2. QED BY <1>1, Prices DEF Paid

Forgiven(s, f) == IF s.gp.recoveryTime = 0 THEN 0 ELSE f

\* What both halves of DASelfHeal leave alone.
SameButHealed(s, u) ==
    /\ u.gp.maxTries = s.gp.maxTries /\ u.gp.recoveryTime = s.gp.recoveryTime
    /\ u.gp.lockoutRecovery = s.gp.lockoutRecovery /\ u.gp.orderly = s.gp.orderly
    /\ u.nvgp.orderly = s.nvgp.orderly
    /\ u.go.clock = s.go.clock /\ u.go.clockSafe = s.go.clockSafe
    /\ u.nvgo = s.nvgo /\ u.time = s.time

\* DASelfHeal takes from failedTries only what the time since selfHealTimer pays
\* for, and moves the timer by as much.
LEMMA HealTriesPays ==
    ASSUME NEW s \in TpmType, NEW f \in Nat, NEW p \in Nat, NEW l, Healthy(s),
           Ram(s, f, l, p)
    PROVE  LET u == HealTries(s)
           IN  u \in TpmType /\ Healthy(u) /\ SameButHealed(s, u) /\ Ram(u, Forgiven(s, f), l, p)
<1> DEFINE u == HealTries(s)
           e == Elapsed(s, s.go.selfHealTimer)
           d == (e \div SECOND) \div s.gp.recoveryTime
           t == s.gp.failedTries
           g == Forgiven(s, f)
<1>1. /\ s.gp \in GpType /\ s.nvgp \in GpType /\ s.go \in GoType /\ s.nvgo \in GoType
      /\ t \in Nat /\ t \in 0 .. (TRIES_MOD - 1)
      /\ s.gp.recoveryTime \in RecoveryTimes /\ s.gp.recoveryTime \in Nat
  BY Parts, Sets
<1>2. e \in 0 .. (TIME_MOD - 1) /\ TIME_MOD \in Nat \ {0} /\ TRIES_MOD \in Nat \ {0}
  BY ElapsedType, ParametersAssumption
<1>3. Paid(e, t, f, p) /\ Waits(s.gp.lockOutAuthEnabled, Elapsed(s, s.go.lockoutTimer), l, p)
  BY DEF Ram
<1>4. g \in Nat /\ g <= f
  BY DEF Forgiven
<1>5. s.nvgp.failedTries = s.gp.failedTries
  BY <1>1 DEF Healthy, Synced, GpType
<1> HIDE DEF e
<1>6. CASE t = 0
  <2>1. u = s
    BY <1>6 DEF HealTries
  <2>2. Paid(e, t, g, p)
    <3> HIDE DEF t, g
    <3> QED BY <1>1, <1>2, <1>3, <1>4, PaidMono
  <2>3. Ram(s, g, l, p)
    BY <2>2, <1>3 DEF Ram, e
  <2>4. QED BY <2>1, <2>3 DEF SameButHealed
<1>7. CASE t # 0 /\ s.gp.recoveryTime = 0
  <2>1. u = [s EXCEPT !.gp.failedTries = 0, !.nvgp.failedTries = 0]
    BY <1>7 DEF HealTries
  <2>2. u.gp = [s.gp EXCEPT !.failedTries = 0] /\ u.nvgp = [s.nvgp EXCEPT !.failedTries = 0]
        /\ u.go = s.go /\ u.nvgo = s.nvgo /\ u.time = s.time /\ u.failed = s.failed
    BY <2>1 DEF TpmType
  <2>3. u \in TpmType
    <3>1. 0 \in 0 .. (TRIES_MOD - 1)
      BY Constants
    <3>2. u.gp \in GpType /\ u.nvgp \in GpType
      BY <2>2, <3>1, <1>1 DEF GpType
    <3>3. u = [s EXCEPT !.gp = u.gp, !.nvgp = u.nvgp]
      BY <2>1 DEF TpmType
    <3>4. QED BY <3>2, <3>3, ZenonT(30) DEF TpmType
  <2>4. Healthy(u)
    <3>1. 0 <= MaxTriesLimit
      BY Limits
    <3>2. QED BY <2>2, <3>1, <1>1 DEF Healthy, Synced, GpType
  <2>5. SameButHealed(s, u)
    BY <2>2, <1>1 DEF SameButHealed, GpType
  <2>6. u.gp.failedTries = 0 /\ u.gp.lockOutAuthEnabled = s.gp.lockOutAuthEnabled
    BY <2>2, <1>1 DEF GpType
  <2>7. Paid(e, 0, 0, p)
    BY <1>2, <1>3, Prices DEF Paid
  <2>8. Ram(u, g, l, p)
    BY <2>2, <2>6, <2>7, <1>3, <1>7 DEF Ram, Forgiven, e, Elapsed
  <2>9. QED BY <2>3, <2>4, <2>5, <2>8
<1>8. CASE t # 0 /\ s.gp.recoveryTime # 0
  <2> DEFINE low == d % TRIES_MOD
             left == IF t <= low THEN 0 ELSE t - low
             x == d * s.gp.recoveryTime * SECOND
             sht == (s.go.selfHealTimer + x) % TIME_MOD
  <2>1. u = [s EXCEPT !.gp.failedTries = left,
                      !.nvgp.failedTries = IF d # 0 THEN left ELSE @,
                      !.go.selfHealTimer = sht]
    BY <1>8 DEF HealTries, e
  <2>2. SECOND \in Nat \ {0} /\ d \in Nat /\ x \in Nat /\ x <= e
    <3>1. e \in Nat /\ SECOND \in Nat \ {0} /\ s.gp.recoveryTime \in Nat \ {0}
      BY <1>1, <1>2, <1>8, Constants
    <3>2. QED BY <3>1, WholeUnits, ZenonT(30)
  <2>3. low \in Nat /\ low <= d
    <3> HIDE DEF d
    <3>1. d \div TRIES_MOD \in Nat
      BY <1>2, <2>2, DivMono
    <3>2. d = TRIES_MOD * (d \div TRIES_MOD) + low /\ low \in 0 .. (TRIES_MOD - 1)
      BY <1>2, <2>2, DivMod
    <3>3. TRIES_MOD * (d \div TRIES_MOD) \in Nat
      BY <1>2, <3>1
    <3>4. QED BY <3>2, <3>3, <2>2
  <2>4. left \in Nat /\ left <= t /\ left >= t - d /\ (d = 0 => left = t)
    <3> HIDE DEF d, low
    <3> QED BY <1>1, <1>8, <2>2, <2>3
  <2>5. sht \in 0 .. (TIME_MOD - 1) /\ (s.time - sht) % TIME_MOD = e - x
    <3> HIDE DEF x
    <3>1. s.time \in Int /\ s.go.selfHealTimer \in Int /\ s.go.selfHealTimer + x \in Int
      BY <1>1, <2>2 DEF TpmType, GoType
    <3>2. x <= (s.time - s.go.selfHealTimer) % TIME_MOD
      BY <2>2 DEF e, Elapsed
    <3>3. (s.time - sht) % TIME_MOD = ((s.time - s.go.selfHealTimer) % TIME_MOD) - x
      <4> DEFINE tm == s.time
                 st == s.go.selfHealTimer
      <4>1. tm \in Int /\ st \in Int /\ x <= (tm - st) % TIME_MOD
        BY <3>1, <3>2
      <4>2. (tm - ((st + x) % TIME_MOD)) % TIME_MOD = ((tm - st) % TIME_MOD) - x
        <5> HIDE DEF tm, st
        <5>1. x \in Int /\ 0 <= x
          BY <2>2
        <5> HIDE DEF x
        <5> QED BY <4>1, <5>1, TimeAdvance, Zenon
      <4>3. QED BY <4>2
    <3>4. sht \in 0 .. (TIME_MOD - 1)
      BY <3>1, <1>2, DivMod, ZenonT(30)
    <3>5. QED BY <3>3, <3>4 DEF e, Elapsed
  <2>6. Paid(e - x, left, f, p)
    <3> DEFINE w == s.gp.recoveryTime * SECOND
    <3>1. w \in Nat /\ Price <= w /\ Price \in Nat
      BY <1>1, <1>8, Prices
    <3>2. x = d * w
      <4> HIDE DEF d
      <4> QED BY <1>1, <2>2
    <3> HIDE DEF w, x, left, d
    <3>3. d * Price <= d * w /\ d * Price \in Int
      BY <3>1, <2>2
    <3>4. (f - left) * Price <= (f - t + d) * Price
      BY <3>1, <2>2, <2>4, <1>1, MulMono
    <3>5. (f - t + d) * Price = (f - t) * Price + d * Price
      BY <3>1, <2>2, <1>1
    <3>6. (f - left) * Price \in Int /\ (f - t) * Price \in Int
      BY <3>1, <2>2, <2>4, <1>1
    <3>7. QED BY <3>2, <3>3, <3>4, <3>5, <3>6, <1>2, <1>3, <2>2 DEF Paid
  <2> HIDE DEF left, sht, x, d
  <2>7. u.gp = [s.gp EXCEPT !.failedTries = left] /\ u.nvgp = [s.nvgp EXCEPT !.failedTries = left]
        /\ u.go = [s.go EXCEPT !.selfHealTimer = sht] /\ u.nvgo = s.nvgo /\ u.time = s.time
        /\ u.failed = s.failed
    <3>1. CASE d # 0
      BY <2>1, <3>1 DEF TpmType
    <3>2. CASE d = 0
      <4>1. u.nvgp = s.nvgp
        <5>1. u.nvgp = [s.nvgp EXCEPT !.failedTries = IF d # 0 THEN left ELSE @]
          BY <2>1 DEF TpmType
        <5>2. QED BY <5>1, <3>2, <1>1 DEF GpType
      <4>2. s.nvgp = [s.nvgp EXCEPT !.failedTries = left]
        BY <1>1, <1>5, <2>4, <3>2 DEF GpType
      <4>3. QED BY <2>1, <4>1, <4>2 DEF TpmType
    <3>3. QED BY <3>1, <3>2
  <2>8. u \in [gp : GpType, nvgp : GpType, go : GoType, nvgo : GoType,
               time : 0 .. (TIME_MOD - 1), failed : BOOLEAN]
    <3>1. left \in 0 .. (TRIES_MOD - 1)
      BY <2>4, <1>1, <1>2
    <3>2. [s.gp EXCEPT !.failedTries = left] \in GpType /\ [s.nvgp EXCEPT !.failedTries = left] \in GpType
      BY <3>1, <1>1 DEF GpType
    <3>3. [s.go EXCEPT !.selfHealTimer = sht] \in GoType
      BY <2>5, <1>1 DEF GoType
    <3>4. u = [s EXCEPT !.gp = u.gp, !.nvgp = u.nvgp, !.go = u.go]
      BY <2>1 DEF TpmType
    <3>5. QED BY <3>2, <3>3, <3>4, <2>7 DEF TpmType
  <2>9. u.gp.failedTries = left /\ u.gp.lockOutAuthEnabled = s.gp.lockOutAuthEnabled
        /\ u.go.selfHealTimer = sht /\ u.go.lockoutTimer = s.go.lockoutTimer
    BY <2>7, <1>1 DEF GpType, GoType
  <2>10. Healthy(u)
    <3>1. left <= MaxTriesLimit
      BY <2>4, <1>1, Limits DEF Healthy
    <3>2. QED BY <2>7, <2>9, <3>1, <1>1 DEF Healthy, Synced, GpType
  <2>11. SameButHealed(s, u)
    BY <2>7, <1>1 DEF SameButHealed, GpType, GoType
  <2>12. Ram(u, g, l, p)
    BY <2>5, <2>6, <2>7, <2>9, <1>3, <1>8 DEF Ram, Forgiven, e, Elapsed
  <2>13. QED BY <2>8, <2>10, <2>11, <2>12 DEF TpmType
<1>9. QED BY <1>6, <1>7, <1>8

\* DASelfHeal enables lockoutAuth only after lockoutRecovery seconds.
LEMMA HealLockoutWaits ==
    ASSUME NEW s \in TpmType, NEW f \in Nat, NEW p \in Nat, NEW l \in Nat \cup {Never},
           Healthy(s), Ram(s, f, l, p)
    PROVE  LET u == HealLockout(s)
           IN  u \in TpmType /\ Healthy(u) /\ SameButHealed(s, u) /\ Ram(u, f, l, p)
<1> DEFINE u == HealLockout(s)
           e == Elapsed(s, s.go.lockoutTimer)
           r == s.gp.lockoutRecovery
<1>1. CASE ~s.gp.lockOutAuthEnabled /\ r # 0 /\ e \div SECOND >= r
  <2>1. u = [s EXCEPT !.gp.lockOutAuthEnabled = TRUE, !.nvgp.lockOutAuthEnabled = TRUE]
    BY <1>1 DEF HealLockout
  <2>2. s.gp \in GpType /\ s.nvgp \in GpType
    BY Parts
  <2>3. u.gp = [s.gp EXCEPT !.lockOutAuthEnabled = TRUE]
        /\ u.nvgp = [s.nvgp EXCEPT !.lockOutAuthEnabled = TRUE]
        /\ u.go = s.go /\ u.nvgo = s.nvgo /\ u.time = s.time /\ u.failed = s.failed
    BY <2>1 DEF TpmType
  <2>4. u \in TpmType
    <3>1. u.gp \in GpType /\ u.nvgp \in GpType
      BY <2>2, <2>3, ZenonT(30) DEF GpType
    <3>2. u = [s EXCEPT !.gp = u.gp, !.nvgp = u.nvgp]
      BY <2>1 DEF TpmType
    <3>3. QED BY <3>1, <3>2, ZenonT(30) DEF TpmType
  <2>5. Healthy(u)
    BY <2>2, <2>3 DEF Healthy, Synced, GpType
  <2>6. SameButHealed(s, u)
    BY <2>2, <2>3 DEF SameButHealed, GpType
  <2>7. l # Never => p - l >= LockPrice
    <3> SUFFICES ASSUME l # Never PROVE p - l >= LockPrice
      OBVIOUS
    <3>1. e \in Nat /\ SECOND \in Nat \ {0} /\ r \in LockoutRecoveries \ {0} /\ r \in Nat
      BY <1>1, <2>2, ElapsedType, Sets, Constants
    <3>2. l \in Nat /\ e <= p - l
      BY <1>1 DEF Ram, Waits, Never
    <3> HIDE DEF e, r
    <3>3. r * SECOND <= e
      <4> DEFINE q == e \div SECOND
      <4>1. q \in Int /\ e = SECOND * q + (e % SECOND) /\ e % SECOND \in Nat
        BY <3>1, DivMod
      <4>2. r <= q
        BY <1>1, <3>1
      <4> HIDE DEF q
      <4>3. r * SECOND <= q * SECOND
        BY <3>1, <4>1, <4>2, MulMono
      <4>4. QED BY <3>1, <4>1, <4>3
    <3>4. LockPrice \in Nat /\ LockPrice <= r * SECOND /\ r * SECOND \in Nat
      BY <3>1, Prices
    <3>5. QED BY <3>1, <3>2, <3>3, <3>4
  <2>8. u.gp.lockOutAuthEnabled = TRUE /\ u.gp.failedTries = s.gp.failedTries
    BY <2>2, <2>3 DEF GpType
  <2>9. Ram(u, f, l, p)
    <3>1. Paid(Elapsed(s, s.go.selfHealTimer), s.gp.failedTries, f, p) /\ (l # Never => l <= p)
      BY DEF Ram, Waits
    <3>2. QED BY <2>3, <2>7, <2>8, <3>1 DEF Ram, Waits, Elapsed
  <2>10. QED BY <2>4, <2>5, <2>6, <2>9
<1>2. CASE ~(~s.gp.lockOutAuthEnabled /\ r # 0 /\ e \div SECOND >= r)
  <2>1. u = s
    BY <1>2 DEF HealLockout
  <2>2. QED BY <2>1 DEF SameButHealed
<1>3. QED BY <1>1, <1>2

\* TimeUpdate: time passes, is credited, and heals.
LEMMA TimeUpdateHeals ==
    ASSUME NEW s \in TpmType, NEW f \in Nat, NEW l \in Nat \cup {Never}, NEW p \in Nat,
           NEW r \in Nat, timer \in Nat, timer <= MaxPowered, s.time <= timer,
           p + (timer - s.time) <= MaxPowered,
           Healthy(s), Ram(s, f, l, p), Clock(s, r), ClockRam(s, r)
    PROVE  LET u == TimeUpdate(s)
           IN  /\ u \in TpmType /\ Healthy(u) /\ u.time = timer
               /\ u.gp.maxTries = s.gp.maxTries /\ u.gp.recoveryTime = s.gp.recoveryTime
               /\ u.gp.lockoutRecovery = s.gp.lockoutRecovery /\ u.gp.orderly = s.gp.orderly
               /\ Ram(u, Forgiven(s, f), l, p + (timer - s.time))
               /\ Clock(u, r) /\ ClockRam(u, r)
<1> DEFINE d == timer - s.time
           a == [s EXCEPT !.time = timer]
           b == TimeClockUpdate(a, s.go.clock + d)
           c == HealTries(b)
           u == HealLockout(c)
           g == Forgiven(s, f)
<1>1. TimeUpdate(s) = u
  BY DEF TimeUpdate, DASelfHeal
<1>2. s.time \in 0 .. (TIME_MOD - 1) /\ s.go \in GoType /\ TIME_MOD \in Nat \ {0}
      /\ MaxPowered \in Nat /\ MaxPowered < TIME_MOD
  BY Parts, Constants
<1>3. d \in Nat /\ p + d \in Nat /\ p + d < TIME_MOD /\ timer \in 0 .. (TIME_MOD - 1)
  BY <1>2
<1>4. a \in TpmType /\ a.gp = s.gp /\ a.nvgp = s.nvgp /\ a.go = s.go /\ a.nvgo = s.nvgo
      /\ a.time = timer /\ a.failed = s.failed
  BY <1>3 DEF TpmType
<1>5. ASSUME NEW x \in 0 .. (TIME_MOD - 1), (s.time - x) % TIME_MOD <= p
      PROVE  (timer - x) % TIME_MOD = ((s.time - x) % TIME_MOD) + d
  <2>1. (s.time - x) % TIME_MOD \in 0 .. (TIME_MOD - 1)
    <3>1. s.time - x \in Int
      BY <1>2
    <3>2. QED BY <3>1, <1>2, DivMod
  <2>2. s.time \in Int /\ x \in Int /\ ((s.time - x) % TIME_MOD) + d \in 0 .. (TIME_MOD - 1)
    BY <1>2, <1>3, <1>5, <2>1
  <2>3. d \in Int
    BY <1>3
  <2>4. (s.time + d - x) % TIME_MOD = ((s.time - x) % TIME_MOD) + d
    <3> HIDE DEF d
    <3> QED BY <2>2, <2>3, TimeAdd, Zenon
  <2>5. s.time + d - x = timer - x
    BY <1>2
  <2>6. QED BY <2>4, <2>5
<1>6. Healthy(a)
  BY <1>4 DEF Healthy, Synced
<1>7. Ram(a, f, l, p + d)
  <2>1. Paid(Elapsed(a, s.go.selfHealTimer), s.gp.failedTries, f, p + d)
    <3> DEFINE e == Elapsed(s, s.go.selfHealTimer)
               k == (f - s.gp.failedTries) * Price
    <3>1. e <= p /\ k + e <= p
      BY DEF Ram, Paid
    <3>2. e \in Nat /\ k \in Int
      <4>1. s.gp.failedTries \in Nat
        BY Parts, Sets
      <4>2. Price \in Nat
        BY Prices
      <4>3. k \in Int
        BY <4>1, <4>2
      <4>4. QED BY <4>3, ElapsedType, <1>2
    <3>3. Elapsed(a, s.go.selfHealTimer) = e + d
      BY <1>2, <1>4, <1>5, <3>1 DEF Elapsed, GoType
    <3> HIDE DEF e, k, d
    <3>4. QED BY <1>3, <3>1, <3>2, <3>3 DEF Paid, k
  <2>2. Waits(s.gp.lockOutAuthEnabled, Elapsed(a, s.go.lockoutTimer), l, p + d)
    <3> DEFINE e == Elapsed(s, s.go.lockoutTimer)
    <3>1. ASSUME l # Never
          PROVE  /\ l <= p + d
                 /\ s.gp.lockOutAuthEnabled => (p + d) - l >= LockPrice
                 /\ ~s.gp.lockOutAuthEnabled => Elapsed(a, s.go.lockoutTimer) <= (p + d) - l
      <4>1. l \in Nat /\ LockPrice \in Nat /\ e \in Nat
        BY Prices, ElapsedType, <1>2, <3>1
      <4>2. l <= p /\ (s.gp.lockOutAuthEnabled => p - l >= LockPrice)
            /\ (~s.gp.lockOutAuthEnabled => e <= p - l)
        BY <3>1 DEF Ram, Waits
      <4>3. ASSUME ~s.gp.lockOutAuthEnabled PROVE Elapsed(a, s.go.lockoutTimer) = e + d
        <5>1. e <= p
          BY <4>1, <4>2, <4>3
        <5>2. QED BY <5>1, <1>2, <1>4, <1>5 DEF Elapsed, GoType
      <4> HIDE DEF e, d
      <4>4. QED BY <1>3, <4>1, <4>2, <4>3
    <3> HIDE DEF e, d, a
    <3>2. QED BY <3>1 DEF Waits
  <2>3. QED BY <1>4, <2>1, <2>2 DEF Ram
<1>8. Clock(a, r) /\ ClockRam(a, r)
  BY <1>4 DEF Clock, ClockRam
<1>9. s.go.clock \in Nat /\ s.go.clock + d \in Nat /\ a.go.clock <= s.go.clock + d
  BY <1>2, <1>3, <1>4 DEF GoType
<1> HIDE DEF a, d
<1>10. /\ b \in TpmType /\ b.gp = s.gp /\ b.nvgp = s.nvgp /\ b.time = timer /\ b.failed = s.failed
       /\ b.go.selfHealTimer = s.go.selfHealTimer /\ b.go.lockoutTimer = s.go.lockoutTimer
       /\ Clock(b, r) /\ ClockRam(b, r)
  BY <1>4, <1>8, <1>9, ClockAdvances
<1> HIDE DEF b
<1>11. Healthy(b) /\ Ram(b, f, l, p + d) /\ Forgiven(b, f) = g
  BY <1>4, <1>6, <1>7, <1>10 DEF Healthy, Synced, Ram, Elapsed, Forgiven
<1>12. c \in TpmType /\ Healthy(c) /\ SameButHealed(b, c) /\ Ram(c, g, l, p + d)
  BY <1>3, <1>10, <1>11, HealTriesPays
<1> HIDE DEF c
<1>13. g \in Nat
  BY DEF Forgiven
<1> HIDE DEF g
<1>14. u \in TpmType /\ Healthy(u) /\ SameButHealed(c, u) /\ Ram(u, g, l, p + d)
  BY <1>3, <1>12, <1>13, HealLockoutWaits
<1> HIDE DEF u
<1>15. Clock(u, r) /\ ClockRam(u, r)
  BY <1>10, <1>12, <1>14 DEF SameButHealed, Clock, ClockRam
<1>16. /\ u.time = timer
       /\ u.gp.maxTries = s.gp.maxTries /\ u.gp.recoveryTime = s.gp.recoveryTime
       /\ u.gp.lockoutRecovery = s.gp.lockoutRecovery /\ u.gp.orderly = s.gp.orderly
  BY <1>10, <1>12, <1>14 DEF SameButHealed
<1>17. QED BY <1>1, <1>14, <1>15, <1>16 DEF g, d

-----------------------------------------------------------------------------
(* Commands *)

\* The state a command works on, and leaves, when it does not shut down.
Running(s, f, l, r) ==
    /\ s \in TpmType /\ Healthy(s) /\ s.time = timer /\ s.gp.orderly = FALSE
    /\ Ram(s, f, l, powered) /\ Clock(s, r) /\ ClockRam(s, r)

\* Every command works on a state in which time was credited.
LEMMA NowRuns ==
    ASSUME CleanShutdown, IInv, Ready
    PROVE  /\ Running(Now, Forgiven(tpm, failures), lockFailed, reported)
           /\ Now.gp.recoveryTime = tpm.gp.recoveryTime
           /\ Now.gp.maxTries = tpm.gp.maxTries
<1>1. phase = "started" /\ ~tpm.gp.orderly
  BY DEF Ready
<1>2. tpm \in TpmType /\ timer \in Nat /\ powered \in Nat /\ failures \in Nat /\ reported \in Nat
      /\ lockFailed \in Nat \cup {Never}
  BY DEF IInv, TypeOK
<1>3. timer <= powered /\ powered <= MaxPowered /\ tpm.time <= timer /\ MaxPowered \in Nat
  BY Constants DEF IInv
<1> DEFINE p == powered - timer + tpm.time
<1>4. tpm.time \in Nat /\ tpm.gp \in GpType
  BY <1>2, Parts, Constants
<1>5. p \in Nat /\ p + (timer - tpm.time) = powered /\ timer <= MaxPowered
  BY <1>2, <1>3, <1>4
<1>6. Healthy(tpm) /\ Ram(tpm, failures, lockFailed, p) /\ Clock(tpm, reported)
      /\ ClockRam(tpm, reported)
  BY <1>1 DEF IInv
<1> HIDE DEF p
<1>7. p + (timer - tpm.time) <= MaxPowered
  BY <1>3, <1>5
<1>8. LET u == TimeUpdate(tpm)
      IN  /\ u \in TpmType /\ Healthy(u) /\ u.time = timer
          /\ u.gp.maxTries = tpm.gp.maxTries /\ u.gp.recoveryTime = tpm.gp.recoveryTime
          /\ u.gp.lockoutRecovery = tpm.gp.lockoutRecovery /\ u.gp.orderly = tpm.gp.orderly
          /\ Ram(u, Forgiven(tpm, failures), lockFailed, p + (timer - tpm.time))
          /\ Clock(u, reported) /\ ClockRam(u, reported)
  BY <1>2, <1>3, <1>5, <1>6, <1>7, TimeUpdateHeals
<1>9. tpm.gp.orderly = FALSE
  BY <1>1, <1>4, Sets
<1>10. QED BY <1>5, <1>8, <1>9 DEF Running, Now

\* Unless the state is orderly, what NV holds is good because RAM is.
LEMMA NvFollows ==
    ASSUME NEW s \in TpmType, NEW f \in Nat, NEW l \in Nat \cup {Never}, NEW p \in Nat,
           Healthy(s), s.gp.orderly = FALSE, Ram(s, f, l, p)
    PROVE  Saved(s, f, l, p)
<1>1. s.nvgp.orderly = FALSE /\ s.nvgp.failedTries = s.gp.failedTries
      /\ s.nvgp.lockoutRecovery = s.gp.lockoutRecovery
  BY DEF Healthy, Synced
<1>2. Paid(0, s.gp.failedTries, f, p)
  <2> DEFINE e == Elapsed(s, s.go.selfHealTimer)
             k == (f - s.gp.failedTries) * Price
  <2>1. e \in Nat
    BY ElapsedType, Constants
  <2>2. k \in Int
    <3>1. s.gp.failedTries \in Nat /\ Price \in Nat
      BY Parts, Sets, Prices
    <3>2. QED BY <3>1
  <2>3. k + e <= p
    BY DEF Ram, Paid
  <2> HIDE DEF e, k
  <2>4. k + 0 <= p
    BY <2>1, <2>2, <2>3
  <2>5. QED BY <2>4 DEF Paid, k
<1>3. l # Never => l <= p
  BY DEF Ram, Waits
<1>4. ASSUME s.gp.lockoutRecovery # 0
      PROVE  Waits(s.nvgp.lockOutAuthEnabled, 0, l, p)
  <2>1. s.nvgp.lockOutAuthEnabled = s.gp.lockOutAuthEnabled
    BY <1>4 DEF Healthy, Synced
  <2>2. ASSUME l # Never PROVE 0 <= p - l /\ (s.gp.lockOutAuthEnabled => p - l >= LockPrice)
    <3>1. l \in Nat
      BY <2>2
    <3>2. QED BY <1>3, <2>2, <3>1 DEF Ram, Waits
  <2>3. QED BY <1>3, <2>1, <2>2 DEF Waits
<1>5. QED BY <1>1, <1>2, <1>3, <1>4 DEF Saved

\* A command, or a startup, that leaves such a state preserves the invariant.
LEMMA Resumed ==
    ASSUME IInv, phase' = "started", UNCHANGED <<timer, powered>>,
           failures' \in Nat, lockFailed' \in Nat \cup {Never}, reported' \in Nat,
           Running(tpm', failures', lockFailed', reported')
    PROVE  IInv'
<1>1. tpm' \in TpmType /\ Healthy(tpm') /\ tpm'.time = timer /\ tpm'.gp.orderly = FALSE
      /\ Ram(tpm', failures', lockFailed', powered) /\ Clock(tpm', reported')
      /\ ClockRam(tpm', reported')
  BY DEF Running
<1>2. timer \in Nat /\ powered \in Nat /\ timer <= powered /\ powered <= MaxPowered
  BY DEF IInv, TypeOK
<1>3. timer' = timer /\ powered' = powered /\ phase' = "started"
  OBVIOUS
<1>4. TypeOK'
  BY <1>1, <1>2, <1>3 DEF TypeOK
<1>5. Saved(tpm', failures', lockFailed', powered)
  BY <1>1, <1>2, NvFollows, ZenonT(30)
<1>6. Ram(tpm', failures', lockFailed', powered' - timer' + tpm'.time)
  <2>1. powered' - timer' + tpm'.time = powered
    BY <1>1, <1>2, <1>3
  <2>2. QED BY <1>1, <2>1
<1>7. timer' <= powered' /\ powered' <= MaxPowered /\ tpm'.time <= timer'
  BY <1>1, <1>2, <1>3
<1>8. QED BY <1>1, <1>3, <1>4, <1>5, <1>6, <1>7 DEF IInv

\* The failures a command without a wrong authValue leaves.
LEMMA TriesZero ==
    ASSUME IInv, Tries(0)
    PROVE  failures' = Forgiven(tpm, failures) /\ failures' \in Nat
<1>1. failures \in Nat
  BY DEF IInv, TypeOK
<1>2. QED BY <1>1 DEF Tries, Forgiven

\* Dropping the orderly state.
LEMMA ClearOrderlyRuns ==
    ASSUME NEW s \in TpmType, Healthy(s)
    PROVE  LET u == ClearOrderly(s)
           IN  /\ u \in TpmType /\ Healthy(u) /\ u.gp.orderly = FALSE /\ u.time = s.time
               /\ u.go = s.go /\ u.nvgo = s.nvgo
               /\ u.gp.failedTries = s.gp.failedTries
               /\ u.gp.lockOutAuthEnabled = s.gp.lockOutAuthEnabled
               /\ u.nvgp.orderly = FALSE
<1> DEFINE u == ClearOrderly(s)
<1>1. s.gp \in GpType /\ s.nvgp \in GpType
  BY Parts
<1>2. u.gp = [s.gp EXCEPT !.orderly = FALSE] /\ u.nvgp = [s.nvgp EXCEPT !.orderly = FALSE]
      /\ u.go = s.go /\ u.nvgo = s.nvgo /\ u.time = s.time /\ u.failed = s.failed
      /\ u = [s EXCEPT !.gp = u.gp, !.nvgp = u.nvgp]
  BY DEF ClearOrderly, TpmType
<1> HIDE DEF u
<1>3. u.gp \in GpType /\ u.nvgp \in GpType
  BY <1>1, <1>2, ZenonT(30) DEF GpType
<1>4. u \in TpmType
  BY <1>2, <1>3 DEF TpmType
<1>5. Healthy(u)
  BY <1>1, <1>2 DEF Healthy, Synced, GpType
<1>6. QED BY <1>1, <1>2, <1>4, <1>5 DEF GpType, u

\* A refused command preserves the invariant.
LEMMA RefusedKeeps ==
    ASSUME CleanShutdown, IInv, Refused PROVE IInv'
<1>1. Ready /\ tpm' = Now /\ Tries(0) /\ phase = "started"
      /\ UNCHANGED <<timer, phase, powered, lockFailed, reported>>
  BY DEF Refused, Ready
<1>2. failures' = Forgiven(tpm, failures) /\ failures' \in Nat
      /\ lockFailed' \in Nat \cup {Never} /\ reported' \in Nat
  BY <1>1, TriesZero DEF IInv, TypeOK
<1>3. Running(tpm', failures', lockFailed', reported')
  BY <1>1, <1>2, NowRuns
<1>4. QED BY <1>1, <1>2, <1>3, Resumed

\* TPM2_ReadClock reports a clock whose interval NV knows.
LEMMA ReadClockKeeps ==
    ASSUME CleanShutdown, IInv, TPM2_ReadClock PROVE IInv'
<1>1. Ready /\ tpm' = Now /\ Tries(0) /\ phase = "started"
      /\ UNCHANGED <<timer, phase, powered, lockFailed>>
      /\ reported' = IF Now.go.clock > reported THEN Now.go.clock ELSE reported
  BY DEF TPM2_ReadClock, Ready
<1>2. failures' = Forgiven(tpm, failures) /\ failures' \in Nat
      /\ lockFailed' \in Nat \cup {Never} /\ reported \in Nat
  BY <1>1, TriesZero DEF IInv, TypeOK
<1>3. Running(Now, failures', lockFailed', reported)
  BY <1>1, <1>2, NowRuns
<1> DEFINE n == Now
<1>4. Now = n
  OBVIOUS
<1> HIDE DEF n
<1>5. n \in TpmType /\ Clock(n, reported) /\ ClockRam(n, reported)
      /\ n.nvgp.orderly = FALSE
  BY <1>3, <1>4 DEF Running, Healthy, Synced
<1>6. n.go.clock \in Nat
  BY <1>5, Parts DEF GoType
<1>7. reported' \in Nat /\ Clock(n, reported') /\ ClockRam(n, reported')
  <2>1. CASE n.go.clock > reported
    <3>1. reported' = n.go.clock
      BY <1>1, <1>4, <2>1
    <3>2. n.go.clock \div INTERVAL \in Nat
      BY <1>2, <1>6, Constants, DivMono
    <3>3. n.go.clock \div INTERVAL <= n.nvgo.clock \div INTERVAL
      BY <1>5, <3>2 DEF Clock
    <3>4. QED BY <1>5, <1>6, <3>1, <3>3 DEF Clock, ClockRam
  <2>2. CASE ~(n.go.clock > reported)
    BY <1>1, <1>2, <1>4, <1>5, <2>2
  <2>3. QED BY <2>1, <2>2
<1>8. Running(tpm', failures', lockFailed', reported')
  BY <1>1, <1>3, <1>4, <1>7 DEF Running
<1>9. QED BY <1>1, <1>2, <1>7, <1>8, Resumed

\* TPM2_ClockSet only moves the clock forward.
LEMMA ClockSetKeeps ==
    ASSUME CleanShutdown, IInv, NEW newTime \in 0 .. CLOCK_LIMIT, TPM2_ClockSet(newTime)
    PROVE  IInv'
<1>1. Ready /\ tpm' = TimeClockUpdate(Now, newTime) /\ Tries(0) /\ phase = "started"
      /\ newTime >= Now.go.clock /\ UNCHANGED <<timer, phase, powered, lockFailed, reported>>
  BY DEF TPM2_ClockSet, Authorized, Ready
<1>2. failures' = Forgiven(tpm, failures) /\ failures' \in Nat
      /\ lockFailed' \in Nat \cup {Never} /\ reported' \in Nat /\ reported \in Nat
  BY <1>1, TriesZero DEF IInv, TypeOK
<1>3. Running(Now, failures', lockFailed', reported)
  BY <1>1, <1>2, NowRuns
<1> DEFINE n == Now
           u == TimeClockUpdate(n, newTime)
<1>4. Now = n /\ tpm' = u
  BY <1>1
<1> HIDE DEF n
<1>5. n \in TpmType /\ Clock(n, reported) /\ ClockRam(n, reported) /\ Healthy(n)
      /\ n.time = timer /\ n.gp.orderly = FALSE /\ Ram(n, failures', lockFailed', powered)
  BY <1>3, <1>4 DEF Running
<1>6. newTime \in Nat /\ n.go.clock \in Nat /\ n.go.clock <= newTime
  <2>1. CLOCK_LIMIT \in Nat
    BY ParametersAssumption
  <2>2. n.go.clock \in Nat
    BY <1>5, Parts DEF GoType
  <2>3. QED BY <1>1, <1>4, <2>1, <2>2
<1>7. /\ u \in TpmType
      /\ u.gp = n.gp /\ u.nvgp = n.nvgp /\ u.time = n.time /\ u.failed = n.failed
      /\ u.go.selfHealTimer = n.go.selfHealTimer
      /\ u.go.lockoutTimer = n.go.lockoutTimer
      /\ Clock(u, reported) /\ ClockRam(u, reported)
  BY <1>2, <1>5, <1>6, ClockAdvances
<1> HIDE DEF u
<1>8. Running(u, failures', lockFailed', reported)
  BY <1>5, <1>7 DEF Running, Healthy, Synced, Ram, Elapsed
<1>9. QED BY <1>1, <1>2, <1>4, <1>8, Resumed

\* A command that drops the orderly state preserves the invariant.
LEMMA ExecuteKeeps ==
    ASSUME CleanShutdown, IInv, Execute PROVE IInv'
<1>1. Ready /\ tpm' = ClearOrderly(Now) /\ Tries(0) /\ phase = "started"
      /\ UNCHANGED <<timer, phase, powered, lockFailed, reported>>
  BY DEF Execute, Ready
<1>2. failures' = Forgiven(tpm, failures) /\ failures' \in Nat
      /\ lockFailed' \in Nat \cup {Never} /\ reported' \in Nat
  BY <1>1, TriesZero DEF IInv, TypeOK
<1>3. Running(Now, failures', lockFailed', reported')
  BY <1>1, <1>2, NowRuns
<1> DEFINE n == Now
           u == ClearOrderly(n)
<1>4. Now = n /\ tpm' = u
  BY <1>1
<1> HIDE DEF n
<1>5. n \in TpmType /\ Healthy(n)
  BY <1>3, <1>4 DEF Running
<1>6. /\ u \in TpmType /\ Healthy(u) /\ u.gp.orderly = FALSE /\ u.time = n.time
      /\ u.go = n.go /\ u.nvgo = n.nvgo
      /\ u.gp.failedTries = n.gp.failedTries
      /\ u.gp.lockOutAuthEnabled = n.gp.lockOutAuthEnabled
      /\ u.nvgp.orderly = FALSE
  BY <1>5, ClearOrderlyRuns, ZenonT(30)
<1> HIDE DEF u
<1>7. Running(u, failures', lockFailed', reported')
  BY <1>3, <1>4, <1>6 DEF Running, Ram, Clock, ClockRam, Elapsed
<1>8. QED BY <1>1, <1>2, <1>4, <1>7, Resumed

\* Forgiving: no tries are left and none are owed.
LEMMA LockResetKeeps ==
    ASSUME CleanShutdown, IInv, TPM2_DictionaryAttackLockReset PROVE IInv'
<1>1. Ready /\ tpm' = [Now EXCEPT !.gp.failedTries = 0, !.nvgp.failedTries = 0]
      /\ phase = "started" /\ failures' = 0
      /\ UNCHANGED <<timer, phase, powered, lockFailed, reported>>
  BY DEF TPM2_DictionaryAttackLockReset, Authorized, Ready
<1>2. failures' \in Nat /\ lockFailed' \in Nat \cup {Never} /\ reported' \in Nat
  BY <1>1 DEF IInv, TypeOK
<1>3. Running(Now, Forgiven(tpm, failures), lockFailed', reported')
  BY <1>1, NowRuns
<1> DEFINE n == Now
           u == [n EXCEPT !.gp.failedTries = 0, !.nvgp.failedTries = 0]
<1>4. Now = n /\ tpm' = u
  BY <1>1
<1> HIDE DEF n
<1>5. n \in TpmType /\ Healthy(n) /\ n.gp \in GpType /\ n.nvgp \in GpType
      /\ Ram(n, Forgiven(tpm, failures), lockFailed', powered)
  BY <1>3, <1>4, Parts DEF Running
<1>6. u.gp = [n.gp EXCEPT !.failedTries = 0] /\ u.nvgp = [n.nvgp EXCEPT !.failedTries = 0]
      /\ u.go = n.go /\ u.nvgo = n.nvgo /\ u.time = n.time /\ u.failed = n.failed
      /\ u = [n EXCEPT !.gp = u.gp, !.nvgp = u.nvgp]
  BY <1>5 DEF TpmType
<1> HIDE DEF u
<1>7. 0 \in 0 .. (TRIES_MOD - 1) /\ 0 <= MaxTriesLimit
  BY Constants, Limits
<1>8. u.gp \in GpType /\ u.nvgp \in GpType
  BY <1>5, <1>6, <1>7 DEF GpType
<1>9. u \in TpmType
  BY <1>5, <1>6, <1>8 DEF TpmType
<1>10. Healthy(u)
  BY <1>5, <1>6, <1>7 DEF Healthy, Synced, GpType
<1>11. u.gp.failedTries = 0 /\ u.gp.lockOutAuthEnabled = n.gp.lockOutAuthEnabled
       /\ u.gp.orderly = n.gp.orderly /\ u.nvgp.orderly = n.nvgp.orderly
  BY <1>5, <1>6 DEF GpType
<1>12. Paid(Elapsed(n, n.go.selfHealTimer), 0, 0, powered)
  <2>1. Elapsed(n, n.go.selfHealTimer) \in Nat
    BY <1>5, ElapsedType, Constants
  <2>2. QED BY <2>1, <1>5, Prices DEF Ram, Paid
<1>13. Running(u, 0, lockFailed', reported')
  BY <1>3, <1>4, <1>6, <1>9, <1>10, <1>11, <1>12
     DEF Running, Ram, Clock, ClockRam, Elapsed
<1>14. QED BY <1>1, <1>2, <1>4, <1>13, Resumed

\* A session that authorizes lockoutAuth was checked for it: without a policy for
\* lockoutAuth every such session uses its authValue or is bound to it.
LEMMA LockoutChecked ==
    ASSUME ~LockoutPolicy, NEW s, NEW a \in Session, ~IsLockedOut(s, a),
           a.entity = "lockout" \/ a.bind = "lockout"
    PROVE  s.gp.lockOutAuthEnabled
<1>1. /\ a.type \in {"PW", "HMAC", "POLICY"}
      /\ a.type = "PW" => a.bind = "none" /\ a.entity # "none"
      /\ a.same => a.type = "HMAC" /\ a.bind = a.entity /\ a.bind # "none"
      /\ a.type = "POLICY" /\ a.entity = "lockout" => LockoutPolicy
  BY DEF Session
<1>2. a.bind = "lockout" => s.gp.lockOutAuthEnabled
  BY DEF IsLockedOut, IsDaBound, IsDAProtected, CheckLockedOut
<1>3. a.entity = "lockout" /\ AuthUsed(a) => s.gp.lockOutAuthEnabled
  BY DEF IsLockedOut, IsDAProtected, CheckLockedOut
<1>4. a.entity = "lockout" /\ ~AuthUsed(a) => a.bind = "lockout"
  BY <1>1 DEF AuthUsed
<1>5. QED BY <1>2, <1>3, <1>4

\* New parameters leave the count and the timers as they are.
LEMMA ParametersKeep ==
    ASSUME CleanShutdown, ~LockoutPolicy, IInv,
           NEW maxTries \in MaxTriesValues, NEW recoveryTime \in RecoveryTimes,
           NEW lockoutRecovery \in LockoutRecoveries,
           TPM2_DictionaryAttackParameters(maxTries, recoveryTime, lockoutRecovery)
    PROVE  IInv'
<1> DEFINE n == Now
           u == [n EXCEPT !.gp.maxTries = maxTries, !.nvgp.maxTries = maxTries,
                          !.gp.recoveryTime = recoveryTime, !.nvgp.recoveryTime = recoveryTime,
                          !.gp.lockoutRecovery = lockoutRecovery,
                          !.nvgp.lockoutRecovery = lockoutRecovery,
                          !.nvgp.failedTries = n.gp.failedTries]
<1>1. Ready /\ tpm' = u /\ Tries(0) /\ phase = "started"
      /\ UNCHANGED <<timer, phase, powered, lockFailed, reported>>
  BY DEF TPM2_DictionaryAttackParameters, Authorized, Ready
<1>2. failures' = Forgiven(tpm, failures) /\ failures' \in Nat
      /\ lockFailed' \in Nat \cup {Never} /\ reported' \in Nat
  BY <1>1, TriesZero DEF IInv, TypeOK
<1>3. Running(n, failures', lockFailed', reported')
  BY <1>1, <1>2, NowRuns
<1>4. n.gp.lockOutAuthEnabled
  <2>1. PICK a \in Session : a.entity = "lockout" /\ ~IsLockedOut(n, a)
    BY DEF TPM2_DictionaryAttackParameters, Authorized
  <2> HIDE DEF n
  <2>2. QED BY <2>1, LockoutChecked
<1> HIDE DEF n
<1>5. n \in TpmType /\ Healthy(n) /\ n.gp \in GpType /\ n.nvgp \in GpType
  BY <1>3, Parts DEF Running
<1>6. /\ u.gp = [n.gp EXCEPT !.maxTries = maxTries, !.recoveryTime = recoveryTime,
                             !.lockoutRecovery = lockoutRecovery]
      /\ u.nvgp = [n.nvgp EXCEPT !.maxTries = maxTries, !.recoveryTime = recoveryTime,
                                 !.lockoutRecovery = lockoutRecovery,
                                 !.failedTries = n.gp.failedTries]
      /\ u.go = n.go /\ u.nvgo = n.nvgo /\ u.time = n.time /\ u.failed = n.failed
      /\ u = [n EXCEPT !.gp = u.gp, !.nvgp = u.nvgp]
  BY <1>5, ZenonT(30) DEF TpmType
<1> HIDE DEF u
<1>7. n.gp.failedTries \in 0 .. (TRIES_MOD - 1) /\ n.gp.lockOutAuthEnabled = TRUE
      /\ n.nvgp.lockOutAuthEnabled = TRUE
  <2>1. n.gp.failedTries \in 0 .. (TRIES_MOD - 1) /\ n.gp.lockOutAuthEnabled = TRUE
    BY <1>4, <1>5, Sets
  <2>2. QED BY <2>1, <1>5 DEF Healthy, Synced
<1>8. u.gp \in GpType /\ u.nvgp \in GpType
  BY <1>5, <1>6, <1>7, ZenonT(30) DEF GpType
<1>9. u \in TpmType
  BY <1>5, <1>6, <1>8 DEF TpmType
<1>10. /\ u.gp.failedTries = n.gp.failedTries /\ u.nvgp.failedTries = n.gp.failedTries
       /\ u.gp.maxTries = u.nvgp.maxTries /\ u.gp.recoveryTime = u.nvgp.recoveryTime
       /\ u.gp.lockoutRecovery = u.nvgp.lockoutRecovery
       /\ u.gp.lockOutAuthEnabled = n.gp.lockOutAuthEnabled
       /\ u.nvgp.lockOutAuthEnabled = n.nvgp.lockOutAuthEnabled
       /\ u.gp.orderly = n.gp.orderly /\ u.nvgp.orderly = n.nvgp.orderly
  BY <1>5, <1>6 DEF GpType
<1>11. Healthy(u)
  BY <1>5, <1>6, <1>7, <1>10 DEF Healthy, Synced
<1>12. Running(u, failures', lockFailed', reported')
  BY <1>3, <1>6, <1>9, <1>10, <1>11 DEF Running, Ram, Clock, ClockRam, Elapsed
<1>13. QED BY <1>1, <1>2, <1>12, Resumed

\* DAPreInstall_Init sets values in range.
LEMMA PreInstallType == PreInstall(FALSE) \in GpType /\ PreInstall(TRUE) \in GpType
<1>1. 0 \in 0 .. (TRIES_MOD - 1) /\ DefaultMaxTries \in MaxTriesValues
      /\ DefaultRecovery \in RecoveryTimes /\ DefaultLockoutRecovery \in LockoutRecoveries
  BY ParametersAssumption
<1>2. QED BY <1>1 DEF PreInstall, GpType

\* TPM2_Clear starts from the values DAPreInstall_Init sets.
LEMMA ClearKeeps ==
    ASSUME CleanShutdown, IInv, TPM2_Clear PROVE IInv'
<1> DEFINE n == Now
           go == [n.go EXCEPT !.clock = 0, !.clockSafe = TRUE]
           u == [n EXCEPT !.gp = PreInstall(FALSE), !.nvgp = PreInstall(FALSE),
                          !.go = go, !.nvgo = go]
<1>1. Ready /\ tpm' = u /\ phase = "started" /\ failures' = 0 /\ lockFailed' = Never
      /\ reported' = 0 /\ UNCHANGED <<timer, phase, powered>>
  BY DEF TPM2_Clear, Authorized, Ready
<1>2. failures' \in Nat /\ lockFailed' \in Nat \cup {Never} /\ reported' \in Nat
  BY <1>1
<1>3. Running(n, Forgiven(tpm, failures), lockFailed, reported)
  BY <1>1, NowRuns
<1> HIDE DEF n
<1>4. n \in TpmType /\ Healthy(n) /\ n.go \in GoType /\ n.time = timer
      /\ Ram(n, Forgiven(tpm, failures), lockFailed, powered)
  BY <1>3, Parts DEF Running
<1>5. go \in GoType /\ go.clock = 0 /\ go.selfHealTimer = n.go.selfHealTimer
  BY <1>4, ZenonT(30) DEF GoType
<1> HIDE DEF go
<1>6. u \in TpmType /\ u.gp = PreInstall(FALSE) /\ u.nvgp = PreInstall(FALSE) /\ u.go = go
      /\ u.nvgo = go /\ u.time = timer /\ u.failed = n.failed
  BY <1>4, <1>5, PreInstallType, ZenonT(30) DEF TpmType
<1> HIDE DEF u
<1>7. u.gp.failedTries = 0 /\ u.gp.orderly = FALSE /\ 0 <= MaxTriesLimit
  BY <1>6, Limits DEF PreInstall
<1>8. Healthy(u)
  BY <1>4, <1>6, <1>7, ZenonT(30) DEF Healthy, Synced
<1>9. Paid(Elapsed(n, n.go.selfHealTimer), 0, 0, powered)
  <2>1. Elapsed(n, n.go.selfHealTimer) \in Nat
    BY <1>4, ElapsedType, Constants
  <2>2. QED BY <2>1, <1>4, Prices DEF Ram, Paid
<1>10. Ram(u, 0, Never, powered)
  BY <1>4, <1>5, <1>6, <1>7, <1>9, ZenonT(30) DEF Ram, Waits, Elapsed
<1>11. Clock(u, 0) /\ ClockRam(u, 0)
  <2>1. 0 \div INTERVAL \in Nat
    BY Constants, DivMono
  <2>2. u.go.clock = 0 /\ u.nvgo.clock = 0 /\ 0 \div INTERVAL <= 0 \div INTERVAL
    BY <1>5, <1>6, <2>1
  <2> HIDE DEF go
  <2>3. QED BY <2>2 DEF Clock, ClockRam
<1>12. Running(u, 0, Never, 0)
  BY <1>6, <1>7, <1>8, <1>10, <1>11, ZenonT(30) DEF Running
<1>13. QED BY <1>1, <1>2, <1>12, Resumed

\* The time since a timer that was just reset.
LEMMA ElapsedNow == ASSUME NEW t \in Int PROVE (t - t) % TIME_MOD = 0
<1>1. t - t = 0 /\ 0 \in 0 .. (TIME_MOD - 1) /\ TIME_MOD \in Nat \ {0}
  BY Constants
<1>2. 0 % TIME_MOD = 0
  BY <1>1, ModSmall
<1>3. QED BY <1>1, <1>2

\* A wrong lockoutAuth disables it, and its recovery starts to run.
LEMMA WrongLockoutAuth ==
    ASSUME NEW n, NEW f \in Nat, NEW l, NEW r, Running(n, f, l, r), powered \in Nat,
           n.gp.lockOutAuthEnabled
    PROVE  Running([n EXCEPT !.failed = ~n.gp.lockOutAuthEnabled,
                             !.gp.lockOutAuthEnabled = FALSE,
                             !.nvgp.lockOutAuthEnabled = (n.gp.lockoutRecovery = 0 /\ @),
                             !.go.lockoutTimer = n.time], f, powered, r)
<1> DEFINE b == (n.gp.lockoutRecovery = 0 /\ n.nvgp.lockOutAuthEnabled)
           u == [n EXCEPT !.failed = ~n.gp.lockOutAuthEnabled,
                          !.gp.lockOutAuthEnabled = FALSE,
                          !.nvgp.lockOutAuthEnabled = (n.gp.lockoutRecovery = 0 /\ @),
                          !.go.lockoutTimer = n.time]
<1>1. n \in TpmType /\ Healthy(n) /\ n.gp \in GpType /\ n.nvgp \in GpType /\ n.go \in GoType
      /\ n.time \in 0 .. (TIME_MOD - 1) /\ n.time \in Int
  BY Parts, Constants DEF Running
<1>2. (~n.gp.lockOutAuthEnabled) = FALSE /\ b \in BOOLEAN
      /\ (n.gp.lockoutRecovery # 0 => b = FALSE)
  <2>1. n.nvgp.lockOutAuthEnabled \in BOOLEAN
    BY <1>1, Sets
  <2>2. QED BY <2>1
<1>3. /\ u.gp = [n.gp EXCEPT !.lockOutAuthEnabled = FALSE]
      /\ u.nvgp = [n.nvgp EXCEPT !.lockOutAuthEnabled = b]
      /\ u.go = [n.go EXCEPT !.lockoutTimer = n.time]
      /\ u.nvgo = n.nvgo /\ u.time = n.time /\ u.failed = FALSE
      /\ u = [n EXCEPT !.failed = FALSE, !.gp = u.gp, !.nvgp = u.nvgp, !.go = u.go]
  BY <1>1, <1>2, ZenonT(30) DEF TpmType, GpType
<1> HIDE DEF b, u
<1>4. u.gp \in GpType /\ u.nvgp \in GpType /\ u.go \in GoType
  <2>1. u.gp \in GpType
    BY <1>1, <1>3, ZenonT(30) DEF GpType
  <2>2. CASE b = TRUE
    <3>1. u.nvgp = [n.nvgp EXCEPT !.lockOutAuthEnabled = TRUE]
      BY <1>3, <2>2
    <3>2. u.nvgp \in GpType
      BY <1>1, <3>1, ZenonT(30) DEF GpType
    <3>3. u.go \in GoType
      BY <1>1, <1>3 DEF GoType
    <3>4. QED BY <2>1, <3>2, <3>3
  <2>3. CASE b = FALSE
    <3>1. u.nvgp = [n.nvgp EXCEPT !.lockOutAuthEnabled = FALSE]
      BY <1>3, <2>3, ZenonT(30)
    <3>2. u.nvgp \in GpType
      BY <1>1, <3>1, ZenonT(30) DEF GpType
    <3>3. u.go \in GoType
      BY <1>1, <1>3 DEF GoType
    <3>4. QED BY <2>1, <3>2, <3>3
  <2>4. QED BY <1>2, <2>2, <2>3, ZenonT(30)
<1>5. u \in TpmType
  BY <1>1, <1>3, <1>4, ZenonT(30) DEF TpmType
<1>6. /\ u.gp.failedTries = n.gp.failedTries /\ u.nvgp.failedTries = n.nvgp.failedTries
      /\ u.gp.maxTries = n.gp.maxTries /\ u.nvgp.maxTries = n.nvgp.maxTries
      /\ u.gp.recoveryTime = n.gp.recoveryTime /\ u.nvgp.recoveryTime = n.nvgp.recoveryTime
      /\ u.gp.lockoutRecovery = n.gp.lockoutRecovery
      /\ u.nvgp.lockoutRecovery = n.nvgp.lockoutRecovery
      /\ u.gp.orderly = n.gp.orderly /\ u.nvgp.orderly = n.nvgp.orderly
      /\ u.gp.lockOutAuthEnabled = FALSE /\ u.nvgp.lockOutAuthEnabled = b
  BY <1>1, <1>3 DEF GpType
<1>7. /\ u.go.clock = n.go.clock /\ u.go.clockSafe = n.go.clockSafe
      /\ u.go.selfHealTimer = n.go.selfHealTimer /\ u.go.lockoutTimer = n.time
  BY <1>1, <1>3 DEF GoType
<1>8. Healthy(u)
  BY <1>1, <1>2, <1>3, <1>6, ZenonT(30) DEF Healthy, Synced
<1>9. Elapsed(u, u.go.lockoutTimer) = 0
  BY <1>1, <1>3, <1>7, ElapsedNow DEF Elapsed
<1>10. Waits(u.gp.lockOutAuthEnabled, Elapsed(u, u.go.lockoutTimer), powered, powered)
  BY <1>6, <1>9 DEF Waits
<1>11. Ram(u, f, powered, powered)
  BY <1>3, <1>6, <1>7, <1>10, ZenonT(30) DEF Running, Ram, Elapsed
<1>12. Clock(u, r) /\ ClockRam(u, r)
  BY <1>3, <1>6, <1>7 DEF Running, Clock, ClockRam
<1>13. QED BY <1>3, <1>5, <1>6, <1>8, <1>11, <1>12, ZenonT(30) DEF Running, u

\* A wrong authValue that counts is in RAM and in NV, and its time starts to run.
LEMMA WrongProtectedAuth ==
    ASSUME NEW n, NEW f \in Nat, NEW l, NEW r, Running(n, f, l, r), powered \in Nat,
           NEW k \in {0, 1}, n.gp.failedTries + k <= MaxTriesLimit
    PROVE  Running([n EXCEPT !.gp.failedTries = n.gp.failedTries + k,
                             !.nvgp.failedTries = n.gp.failedTries + k,
                             !.go.selfHealTimer = n.time], f + k, l, r)
<1> DEFINE t == n.gp.failedTries + k
           u == [n EXCEPT !.gp.failedTries = t, !.nvgp.failedTries = t,
                          !.go.selfHealTimer = n.time]
<1>1. n \in TpmType /\ Healthy(n) /\ n.gp \in GpType /\ n.nvgp \in GpType /\ n.go \in GoType
      /\ n.time \in 0 .. (TIME_MOD - 1) /\ n.time \in Int
  BY Parts, Constants DEF Running
<1>2. n.gp.failedTries \in Nat /\ t \in 0 .. (TRIES_MOD - 1) /\ t <= MaxTriesLimit
  <2>1. n.gp.failedTries \in Nat
    BY <1>1, Sets
  <2>2. MaxTriesLimit \in 0 .. (TRIES_MOD - 1) /\ TRIES_MOD \in Nat
    BY Limits, Constants
  <2>3. QED BY <2>1, <2>2
<1> HIDE DEF t
<1>3. /\ u.gp = [n.gp EXCEPT !.failedTries = t]
      /\ u.nvgp = [n.nvgp EXCEPT !.failedTries = t]
      /\ u.go = [n.go EXCEPT !.selfHealTimer = n.time]
      /\ u.nvgo = n.nvgo /\ u.time = n.time /\ u.failed = n.failed
      /\ u = [n EXCEPT !.gp = u.gp, !.nvgp = u.nvgp, !.go = u.go]
  BY <1>1 DEF TpmType
<1> HIDE DEF u
<1>4. u.gp \in GpType /\ u.nvgp \in GpType /\ u.go \in GoType
  BY <1>1, <1>2, <1>3 DEF GpType, GoType
<1>5. u \in TpmType
  BY <1>1, <1>3, <1>4 DEF TpmType
<1>6. Healthy(u)
  BY <1>1, <1>2, <1>3 DEF Healthy, Synced, GpType
<1>7. /\ u.gp.failedTries = t /\ u.gp.lockOutAuthEnabled = n.gp.lockOutAuthEnabled
      /\ u.gp.orderly = n.gp.orderly /\ u.nvgp.orderly = n.nvgp.orderly
      /\ u.go.clock = n.go.clock /\ u.go.clockSafe = n.go.clockSafe
      /\ u.go.selfHealTimer = n.time /\ u.go.lockoutTimer = n.go.lockoutTimer
  BY <1>1, <1>3 DEF GpType, GoType
<1>8. Elapsed(u, u.go.selfHealTimer) = 0
  BY <1>1, <1>3, <1>7, ElapsedNow DEF Elapsed
<1>9. Paid(0, t, f + k, powered)
  <2> DEFINE e == Elapsed(n, n.go.selfHealTimer)
             x == (f - n.gp.failedTries) * Price
  <2>1. e \in Nat
    BY <1>1, ElapsedType, Constants
  <2>2. x \in Int
    BY <1>2, Prices
  <2>3. x + e <= powered
    BY DEF Running, Ram, Paid
  <2>4. (f + k) - t = f - n.gp.failedTries
    BY <1>2 DEF t
  <2>5. ((f + k) - t) * Price = x
    BY <2>4
  <2> HIDE DEF e, x
  <2>6. ((f + k) - t) * Price + 0 <= powered
    BY <2>1, <2>2, <2>3, <2>5
  <2>7. QED BY <2>6 DEF Paid
<1>10. Ram(u, f + k, l, powered)
  BY <1>3, <1>7, <1>8, <1>9 DEF Running, Ram, Elapsed
<1>11. Clock(u, r) /\ ClockRam(u, r)
  BY <1>3, <1>7 DEF Running, Clock, ClockRam
<1>12. QED BY <1>3, <1>5, <1>6, <1>7, <1>10, <1>11 DEF Running, u, t

\* A wrong authorization of any kind preserves the invariant.
LEMMA WrongAuthKeeps ==
    ASSUME CleanShutdown, ~LockoutPolicy, IInv, NEW a \in Session, WrongAuth(a)
    PROVE  IInv'
<1> DEFINE n == Now
           f == Forgiven(tpm, failures)
           u == IncrementLockout(n, a)
<1>1. Ready /\ ~IsLockedOut(n, a) /\ tpm' = Committed(u) /\ phase = "started"
      /\ UNCHANGED <<timer, phase, powered, reported>>
  BY DEF WrongAuth, Ready
<1>2. powered \in Nat /\ reported' \in Nat /\ failures \in Nat /\ f \in Nat
      /\ lockFailed \in Nat \cup {Never}
  BY <1>1 DEF IInv, TypeOK, Forgiven
<1>3. Running(n, f, lockFailed, reported') /\ n.gp.recoveryTime = tpm.gp.recoveryTime
  BY <1>1, NowRuns
<1>4. n.gp \in GpType /\ n.gp.failedTries <= MaxTriesLimit
  BY <1>3, Parts DEF Running, Healthy
<1>5. ASSUME NEW v, u = v, lockFailed' \in Nat \cup {Never}, failures' \in Nat,
             Running(v, failures', lockFailed', reported')
      PROVE  IInv'
  <2>1. v.failed = FALSE
    BY <1>5, Parts DEF Running, Healthy
  <2>2. tpm' = v
    BY <1>1, <1>5, <2>1 DEF Committed
  <2>3. QED BY <1>1, <1>2, <1>5, <2>2, Resumed
<1>6. CASE ~Counts(a)
  <2>1. u = n
    BY <1>6 DEF IncrementLockout
  <2>2. lockFailed' = lockFailed /\ Tries(0)
    BY <1>6 DEF WrongAuth
  <2>3. failures' = f /\ failures' \in Nat
    BY <2>2, TriesZero
  <2> HIDE DEF u, f, n
  <2>4. QED BY <1>2, <1>3, <1>5, <2>1, <2>2, <2>3
<1>7. CASE Counts(a) /\ LockoutHandle(a) = "lockout"
  <2>1. lockFailed' = powered /\ Tries(0)
    BY <1>7 DEF WrongAuth
  <2>2. failures' = f /\ failures' \in Nat
    BY <2>1, TriesZero
  <2> DEFINE v == [n EXCEPT !.failed = ~n.gp.lockOutAuthEnabled,
                            !.gp.lockOutAuthEnabled = FALSE,
                            !.nvgp.lockOutAuthEnabled = (n.gp.lockoutRecovery = 0 /\ @),
                            !.go.lockoutTimer = n.time]
  <2>3. u = v
    BY <1>7 DEF IncrementLockout
  <2>4. a.entity = "lockout" \/ a.bind = "lockout"
    BY <1>7 DEF LockoutHandle
  <2> HIDE DEF u, n, f
  <2>5. n.gp.lockOutAuthEnabled
    BY <1>1, <2>4, LockoutChecked
  <2>6. Running(v, f, powered, reported')
    BY <1>2, <1>3, <2>5, WrongLockoutAuth, ZenonT(30)
  <2> HIDE DEF v
  <2>7. QED BY <1>2, <1>5, <2>1, <2>2, <2>3, <2>6
<1>8. CASE Counts(a) /\ LockoutHandle(a) # "lockout"
  <2>1. lockFailed' = lockFailed /\ Tries(1)
    BY <1>8 DEF WrongAuth
  <2>2. a.bind # "lockout" /\ a.entity \in Handles /\ a.bind \in Handles
        /\ (IsDaBound(a) \/ (IsDAProtected(a.entity) /\ AuthUsed(a)))
        /\ (a.entity # "lockout" \/ IsDaBound(a))
    BY <1>8 DEF LockoutHandle, Counts, Session
  <2> HIDE DEF u, n, f
  <2>3. ~(n.gp.failedTries >= n.gp.maxTries)
    <3>1. LockoutHandle(a) = a.entity /\ a.entity # "lockout"
      BY <1>8, <2>2 DEF LockoutHandle
    <3>2. QED BY <1>1, <2>2, <3>1 DEF IsLockedOut, IsDaBound, IsDAProtected, CheckLockedOut
  <2>4. n.gp.failedTries + 1 <= MaxTriesLimit /\ n.gp.failedTries \in Nat
    BY <1>4, <2>3, Sets, Limits
  <2>5. CASE n.gp.recoveryTime # 0
    <3> DEFINE v == [n EXCEPT !.gp.failedTries = n.gp.failedTries + 1,
                              !.nvgp.failedTries = n.gp.failedTries + 1,
                              !.go.selfHealTimer = n.time]
    <3>1. u = v
      BY <1>8, <2>5 DEF IncrementLockout, u
    <3>2. failures' = f + 1
      BY <1>2, <1>3, <2>1, <2>5 DEF Tries, Forgiven, f
    <3>3. Running(v, f + 1, lockFailed, reported')
      BY <1>2, <1>3, <2>4, WrongProtectedAuth, ZenonT(30)
    <3> HIDE DEF v
    <3>4. f + 1 \in Nat
      BY <1>2
    <3>5. QED BY <1>2, <1>5, <2>1, <3>1, <3>2, <3>3, <3>4
  <2>6. CASE n.gp.recoveryTime = 0
    <3> DEFINE w == [n EXCEPT !.go.selfHealTimer = n.time]
               v == [n EXCEPT !.gp.failedTries = n.gp.failedTries + 0,
                              !.nvgp.failedTries = n.gp.failedTries + 0,
                              !.go.selfHealTimer = n.time]
    <3>1. u = w
      BY <1>8, <2>6 DEF IncrementLockout, u
    <3>2. w = v
      <4>1. n \in TpmType /\ n.gp \in GpType /\ n.nvgp \in GpType
            /\ n.nvgp.failedTries = n.gp.failedTries
        BY <1>3, Parts DEF Running, Healthy, Synced
      <4>2. n.gp.failedTries + 0 = n.gp.failedTries
        BY <2>4
      <4>3. [n.gp EXCEPT !.failedTries = n.gp.failedTries] = n.gp
            /\ [n.nvgp EXCEPT !.failedTries = n.gp.failedTries] = n.nvgp
        BY <4>1 DEF GpType
      <4>4. v = [n EXCEPT !.gp = [n.gp EXCEPT !.failedTries = n.gp.failedTries],
                          !.nvgp = [n.nvgp EXCEPT !.failedTries = n.gp.failedTries],
                          !.go.selfHealTimer = n.time]
        BY <4>1, <4>2, ZenonT(30) DEF TpmType
      <4>5. QED BY <4>1, <4>3, <4>4, ZenonT(30) DEF TpmType
    <3>3. failures' = 0 /\ f = 0
      BY <1>3, <2>1, <2>6 DEF Tries, Forgiven, f
    <3>4. Running(v, f + 0, lockFailed, reported')
      <4>1. n.gp.failedTries + 0 <= MaxTriesLimit /\ 0 \in {0, 1}
        BY <1>4, <2>4
      <4>2. QED BY <1>2, <1>3, <4>1, WrongProtectedAuth, ZenonT(30)
    <3> HIDE DEF v, w
    <3>5. f + 0 = 0
      BY <3>3
    <3>6. QED BY <1>2, <1>5, <2>1, <3>1, <3>2, <3>3, <3>4, <3>5
  <2>7. QED BY <2>5, <2>6
<1>9. QED BY <1>6, <1>7, <1>8

\* TPM2_Shutdown saves the timers with the time they are relative to.
LEMMA ShutdownKeeps ==
    ASSUME CleanShutdown, IInv, TPM2_Shutdown PROVE IInv'
<1> DEFINE n == Now
           u == tpm'
           f == Forgiven(tpm, failures)
           go == [n.go EXCEPT !.time = n.time]
<1>1. Ready /\ Tries(0) /\ phase = "started" /\ UNCHANGED <<timer, phase, powered, lockFailed, reported>>
      /\ u = [n EXCEPT !.gp.orderly = TRUE, !.nvgp.orderly = TRUE, !.go = go, !.nvgo = go]
  BY DEF TPM2_Shutdown, Ready
<1>2. powered \in Nat /\ timer \in Nat /\ reported \in Nat /\ failures' = f /\ f \in Nat
      /\ lockFailed \in Nat \cup {Never} /\ timer <= powered /\ powered <= MaxPowered
  BY <1>1, TriesZero DEF IInv, TypeOK
<1>3. Running(n, f, lockFailed, reported)
  BY <1>1, NowRuns
<1> HIDE DEF n, f
<1>4. n \in TpmType /\ n.gp \in GpType /\ n.nvgp \in GpType /\ n.go \in GoType /\ Healthy(n)
      /\ n.time \in 0 .. (TIME_MOD - 1) /\ n.time = timer
      /\ Ram(n, f, lockFailed, powered) /\ Clock(n, reported) /\ ClockRam(n, reported)
  BY <1>3, Parts DEF Running
<1>5. go \in GoType /\ go.time = n.time /\ go.clock = n.go.clock /\ go.clockSafe = n.go.clockSafe
      /\ go.selfHealTimer = n.go.selfHealTimer /\ go.lockoutTimer = n.go.lockoutTimer
  BY <1>4 DEF GoType
<1> HIDE DEF go
<1>6. u.gp = [n.gp EXCEPT !.orderly = TRUE] /\ u.nvgp = [n.nvgp EXCEPT !.orderly = TRUE]
      /\ u.go = go /\ u.nvgo = go /\ u.time = n.time /\ u.failed = n.failed
      /\ u = [n EXCEPT !.gp = u.gp, !.nvgp = u.nvgp, !.go = u.go, !.nvgo = u.nvgo]
  BY <1>1, <1>4 DEF TpmType
<1> HIDE DEF u
<1>7. u.gp \in GpType /\ u.nvgp \in GpType
  BY <1>4, <1>6, ZenonT(30) DEF GpType
<1>8. u \in TpmType
  BY <1>4, <1>5, <1>6, <1>7 DEF TpmType
<1>9. /\ u.gp.failedTries = n.gp.failedTries /\ u.nvgp.failedTries = n.nvgp.failedTries
      /\ u.gp.lockoutRecovery = n.gp.lockoutRecovery /\ u.nvgp.lockoutRecovery = n.nvgp.lockoutRecovery
      /\ u.gp.lockOutAuthEnabled = n.gp.lockOutAuthEnabled
      /\ u.nvgp.lockOutAuthEnabled = n.nvgp.lockOutAuthEnabled
      /\ u.gp.maxTries = n.gp.maxTries /\ u.nvgp.maxTries = n.nvgp.maxTries
      /\ u.gp.recoveryTime = n.gp.recoveryTime /\ u.nvgp.recoveryTime = n.nvgp.recoveryTime
      /\ u.gp.orderly = TRUE /\ u.nvgp.orderly = TRUE
  BY <1>4, <1>6 DEF GpType
<1>10. Healthy(u)
  BY <1>4, <1>6, <1>9 DEF Healthy, Synced
<1>11. Ram(u, f, lockFailed, powered)
  BY <1>4, <1>5, <1>6, <1>9 DEF Ram, Elapsed
<1>12. Saved(u, f, lockFailed, powered)
  <2>1. NvElapsed(u, u.nvgo.selfHealTimer) = Elapsed(u, u.go.selfHealTimer)
        /\ NvElapsed(u, u.nvgo.lockoutTimer) = Elapsed(u, u.go.lockoutTimer)
    BY <1>5, <1>6 DEF NvElapsed, Elapsed
  <2>2. Paid(NvElapsed(u, u.nvgo.selfHealTimer), u.nvgp.failedTries, f, powered)
    BY <1>10, <1>11, <2>1 DEF Ram, Healthy, Synced
  <2>3. lockFailed # Never => lockFailed <= powered
    BY <1>11 DEF Ram, Waits
  <2>4. u.nvgp.lockoutRecovery # 0 => u.gp.lockOutAuthEnabled = u.nvgp.lockOutAuthEnabled
    BY <1>10 DEF Healthy, Synced
  <2>5. u.nvgp.lockoutRecovery # 0 =>
          Waits(u.nvgp.lockOutAuthEnabled, NvElapsed(u, u.nvgo.lockoutTimer), lockFailed, powered)
    BY <1>11, <2>1, <2>4 DEF Ram
  <2>6. QED BY <1>9, <2>2, <2>3, <2>5 DEF Saved
<1>13. Clock(u, reported) /\ ClockRam(u, reported)
  BY <1>4, <1>5, <1>6 DEF Clock, ClockRam
<1>14. TypeOK'
  BY <1>1, <1>2, <1>8 DEF TypeOK, u
<1>15. powered' - timer' + u.time = powered /\ u.time <= timer' /\ timer' <= powered'
       /\ powered' <= MaxPowered
  BY <1>1, <1>2, <1>4, <1>6
<1>16. QED BY <1>1, <1>2, <1>10, <1>11, <1>12, <1>13, <1>14, <1>15 DEF IInv, u

-----------------------------------------------------------------------------
(* Power *)

\* What has been paid for stays paid for.
LEMMA SavedLater ==
    ASSUME NEW s \in TpmType, NEW f \in Nat, NEW l \in Nat \cup {Never},
           NEW p \in Nat, NEW q \in Nat, p <= q, Saved(s, f, l, p)
    PROVE  Saved(s, f, l, q)
<1> DEFINE e == IF s.nvgp.orderly THEN NvElapsed(s, s.nvgo.selfHealTimer) ELSE 0
           w == IF s.nvgp.orderly THEN NvElapsed(s, s.nvgo.lockoutTimer) ELSE 0
           k == (f - s.nvgp.failedTries) * Price
<1>1. s.nvgp \in GpType /\ s.nvgo \in GoType /\ TIME_MOD \in Nat \ {0} /\ LockPrice \in Nat
  BY Parts, Constants, Prices
<1>2. e \in Int /\ w \in Int
  <2>1. s.nvgo.time - s.nvgo.selfHealTimer \in Int /\ s.nvgo.time - s.nvgo.lockoutTimer \in Int
    BY <1>1 DEF GoType
  <2>2. NvElapsed(s, s.nvgo.selfHealTimer) \in 0 .. (TIME_MOD - 1)
        /\ NvElapsed(s, s.nvgo.lockoutTimer) \in 0 .. (TIME_MOD - 1)
    BY <1>1, <2>1, DivMod, ZenonT(30) DEF NvElapsed
  <2>3. NvElapsed(s, s.nvgo.selfHealTimer) \in Int /\ NvElapsed(s, s.nvgo.lockoutTimer) \in Int
    BY <1>1, <2>2
  <2>4. QED BY <2>3
<1>3. k \in Int
  <2>1. s.nvgp.failedTries \in Nat /\ Price \in Nat
    BY <1>1, Sets, Prices
  <2>2. QED BY <2>1
<1>4. Paid(e, s.nvgp.failedTries, f, q)
  <2>1. e <= p /\ k + e <= p
    BY DEF Saved, Paid
  <2> HIDE DEF e, k
  <2>2. e <= q /\ k + e <= q
    BY <1>2, <1>3, <2>1
  <2>3. QED BY <2>2 DEF Paid, k
<1>5. l # Never => l <= q
  <2>1. l # Never => l <= p
    BY DEF Saved, Waits
  <2>2. QED BY <2>1
<1>6. ASSUME s.nvgp.lockoutRecovery # 0 PROVE Waits(s.nvgp.lockOutAuthEnabled, w, l, q)
  <2>1. Waits(s.nvgp.lockOutAuthEnabled, w, l, p)
    BY <1>6 DEF Saved
  <2> HIDE DEF w
  <2>2. ASSUME l # Never PROVE l \in Nat /\ p - l <= q - l
    BY <2>2
  <2>3. QED BY <1>1, <1>2, <1>5, <2>1, <2>2 DEF Waits
<1>7. QED BY <1>4, <1>5, <1>6 DEF Saved

\* Time that passes between commands preserves the invariant.
LEMMA TickKeeps ==
    ASSUME IInv, Tick PROVE IInv'
<1>1. powered < MaxPowered /\ powered' = powered + 1 /\ timer' = timer + 1
      /\ tpm' = tpm /\ phase' = phase /\ failures' = failures /\ lockFailed' = lockFailed
      /\ reported' = reported
  BY DEF Tick
<1>2. TypeOK /\ tpm \in TpmType /\ powered \in Nat /\ timer \in Nat /\ failures \in Nat
      /\ lockFailed \in Nat \cup {Never} /\ timer <= powered /\ tpm.time <= timer
  BY ZenonT(30) DEF IInv, TypeOK
<1>3. tpm.time \in Nat /\ MaxPowered \in Nat
  BY <1>2, Parts, Constants
<1>4. TypeOK'
  BY <1>1, <1>2 DEF TypeOK
<1>5. timer' <= powered' /\ powered' <= MaxPowered /\ tpm'.time <= timer'
      /\ powered' - timer' + tpm'.time = powered - timer + tpm.time
      /\ powered' - timer' = powered - timer
  BY <1>1, <1>2, <1>3
<1>6. Saved(tpm, failures, lockFailed, IF phase = "init" THEN powered' - timer' ELSE powered')
  <2>1. CASE phase = "init"
    BY <1>5, <2>1 DEF IInv
  <2>2. CASE phase # "init"
    <3>1. Saved(tpm, failures, lockFailed, powered) /\ powered' \in Nat /\ powered <= powered'
      BY <1>1, <1>2, <2>2 DEF IInv
    <3>2. QED BY <1>2, <2>2, <3>1, SavedLater
  <2>3. QED BY <2>1, <2>2
<1>7. QED BY <1>1, <1>4, <1>5, <1>6, ZenonT(30) DEF IInv

\* A loss of power leaves what NV holds.
LEMMA PowerCycleKeeps ==
    ASSUME IInv, PowerCycle PROVE IInv'
<1> DEFINE u == tpm'
<1>1. phase' = "init" /\ timer' = 0 /\ failures' = failures /\ lockFailed' = lockFailed
      /\ powered' = powered /\ reported' = reported
      /\ u = [tpm EXCEPT !.gp = tpm.nvgp, !.go = tpm.nvgo, !.time = 0, !.failed = FALSE]
  BY DEF PowerCycle
<1>2. tpm \in TpmType /\ powered \in Nat /\ timer \in Nat /\ failures \in Nat /\ reported \in Nat
      /\ lockFailed \in Nat \cup {Never} /\ timer <= powered /\ powered <= MaxPowered
  BY DEF IInv, TypeOK
<1>3. tpm.nvgp \in GpType /\ tpm.nvgo \in GoType /\ 0 \in 0 .. (TIME_MOD - 1)
  BY <1>2, Parts, Constants
<1>4. u \in TpmType /\ u.gp = tpm.nvgp /\ u.nvgp = tpm.nvgp /\ u.go = tpm.nvgo
      /\ u.nvgo = tpm.nvgo /\ u.time = 0 /\ u.failed = FALSE
  BY <1>1, <1>2, <1>3, ZenonT(30) DEF TpmType
<1> HIDE DEF u
<1>5. Healthy(u)
  BY <1>4, ZenonT(30) DEF IInv, Healthy, Synced
<1>6. Saved(u, failures, lockFailed, powered)
  <2> DEFINE p == IF phase = "init" THEN powered - timer ELSE powered
  <2>1. Saved(tpm, failures, lockFailed, p)
    BY ZenonT(30) DEF IInv
  <2>2. p \in Nat /\ p <= powered
    BY <1>2
  <2> HIDE DEF p
  <2>3. Saved(tpm, failures, lockFailed, powered)
    BY <1>2, <2>1, <2>2, SavedLater
  <2>4. QED BY <1>4, <2>3, ZenonT(30) DEF Saved, NvElapsed
<1>7. Clock(u, reported)
  <2>1. Clock(tpm, reported)
    BY ZenonT(30) DEF IInv
  <2>2. QED BY <1>4, <2>1 DEF Clock
<1>8. TypeOK'
  BY <1>1, <1>2, <1>4 DEF TypeOK, u
<1>9. powered' - timer' = powered /\ timer' <= powered' /\ powered' <= MaxPowered /\ u.time <= timer'
  BY <1>1, <1>2, <1>4
<1>10. QED BY <1>1, <1>4, <1>5, <1>6, <1>7, <1>8, <1>9 DEF IInv, u

\* The invariant holds after manufacture.
LEMMA InitHolds == Init => IInv
<1> SUFFICES ASSUME Init PROVE IInv
  OBVIOUS
<1>1. tpm = [gp |-> PreInstall(TRUE), nvgp |-> PreInstall(TRUE), go |-> Manufactured,
             nvgo |-> Manufactured, time |-> 0, failed |-> FALSE]
      /\ timer = 0 /\ phase = "init" /\ failures = 0 /\ powered = 0 /\ lockFailed = Never
      /\ reported = 0
  BY DEF Init
<1>2. TIME_MOD \in Nat \ {0} /\ MaxPowered \in Nat /\ 0 \in 0 .. (TIME_MOD - 1)
  BY Constants
<1>3. PreInstall(TRUE) \in GpType /\ PreInstall(TRUE).failedTries = 0
  BY PreInstallType DEF PreInstall
<1>4. Manufactured \in GoType /\ Manufactured.clock = 0 /\ Manufactured.selfHealTimer = 0
      /\ Manufactured.lockoutTimer = 0 /\ Manufactured.time = 0
  BY <1>2 DEF Manufactured, GoType
<1>5. tpm \in TpmType /\ TypeOK
  BY <1>1, <1>2, <1>3, <1>4, ZenonT(30) DEF TypeOK, TpmType
<1> DEFINE gp == PreInstall(TRUE)
           go == Manufactured
<1> HIDE DEF gp, go
<1>12. tpm.gp = gp /\ tpm.nvgp = gp /\ tpm.go = go /\ tpm.nvgo = go /\ tpm.time = 0 /\ tpm.failed = FALSE
       /\ gp.failedTries = 0 /\ go.clock = 0
  BY <1>1, <1>3, <1>4, ZenonT(30) DEF gp, go
<1>6. Healthy(tpm)
  <2>1. 0 <= MaxTriesLimit
    BY Limits
  <2>2. QED BY <1>12, <2>1 DEF Healthy, Synced
<1>7. NvElapsed(tpm, tpm.nvgo.selfHealTimer) = 0
  <2>1. 0 % TIME_MOD = 0
    BY <1>2, ModSmall
  <2>2. QED BY <1>1, <1>4, <2>1 DEF NvElapsed
<1>8. Saved(tpm, 0, Never, 0)
  <2>1. (0 - 0) * Price + 0 <= 0
    BY Prices
  <2>2. Paid(IF tpm.nvgp.orderly THEN NvElapsed(tpm, tpm.nvgo.selfHealTimer) ELSE 0,
             tpm.nvgp.failedTries, 0, 0)
    BY <1>7, <1>12, <2>1 DEF Paid
  <2>3. QED BY <2>2 DEF Saved, Waits
<1>9. Clock(tpm, 0)
  <2>1. 0 \div INTERVAL \in Nat
    BY Constants, DivMono
  <2>2. QED BY <1>12, <2>1 DEF Clock
<1>10. powered - timer = 0 /\ timer <= powered /\ powered <= MaxPowered /\ tpm.time <= timer
  BY <1>1, <1>2
<1>11. QED BY <1>1, <1>5, <1>6, <1>8, <1>9, <1>10 DEF IInv

-----------------------------------------------------------------------------
(* Startup *)

\* After an orderly shutdown the timers stand as far back from the new time as
\* they stood from the old one; otherwise they start again.
LEMMA TimersMoved ==
    ASSUME NEW s \in TpmType, Healthy(s), s.gp = s.nvgp, s.go = s.nvgo, s.time = 0,
           NEW r \in Nat, Clock(s, r)
    PROVE  LET u == DATimers(TimeStartup(s))
           IN  /\ u \in TpmType /\ u.gp = s.gp /\ u.nvgp = s.nvgp /\ u.nvgo = s.nvgo
               /\ u.time = 0 /\ u.failed = s.failed
               /\ Elapsed(u, u.go.selfHealTimer) =
                     IF s.nvgp.orderly THEN NvElapsed(s, s.nvgo.selfHealTimer) ELSE 0
               /\ Elapsed(u, u.go.lockoutTimer) =
                     IF s.nvgp.orderly THEN NvElapsed(s, s.nvgo.lockoutTimer) ELSE 0
               /\ Clock(u, r) /\ ClockRam(u, r)
<1> DEFINE a == TimeStartup(s)
           u == DATimers(a)
           c == s.go.clockSafe /\ s.gp.orderly
           h == (s.go.selfHealTimer - s.go.time) % TIME_MOD
           k == (s.go.lockoutTimer - s.go.time) % TIME_MOD
<1>1. s.gp \in GpType /\ s.go \in GoType /\ s.nvgo \in GoType /\ TIME_MOD \in Nat \ {0}
      /\ 0 \in 0 .. (TIME_MOD - 1) /\ s.gp.orderly \in BOOLEAN
  BY Parts, Constants, Sets, ZenonT(30)
<1>2. a.gp = s.gp /\ a.nvgp = s.nvgp /\ a.nvgo = s.nvgo /\ a.time = 0 /\ a.failed = s.failed
      /\ a.go = [s.go EXCEPT !.clockSafe = c] /\ a = [s EXCEPT !.go = a.go]
  BY DEF TimeStartup, TpmType
<1>3. c \in BOOLEAN
  OBVIOUS
<1> HIDE DEF c
<1>4. a.go \in GoType /\ a.go.clock = s.go.clock /\ a.go.clockSafe = c /\ a.go.time = s.go.time
      /\ a.go.selfHealTimer = s.go.selfHealTimer /\ a.go.lockoutTimer = s.go.lockoutTimer
  <2>1. CASE c = TRUE
    <3>1. a.go = [s.go EXCEPT !.clockSafe = TRUE]
      BY <1>2, <2>1
    <3>2. QED BY <1>1, <2>1, <3>1, ZenonT(30) DEF GoType
  <2>2. CASE c = FALSE
    <3>1. a.go = [s.go EXCEPT !.clockSafe = FALSE]
      BY <1>2, <2>2, ZenonT(30)
    <3>2. QED BY <1>1, <2>2, <3>1, ZenonT(30) DEF GoType
  <2>3. QED BY <1>3, <2>1, <2>2, ZenonT(30)
<1>5. a \in TpmType
  BY <1>2, <1>4 DEF TpmType
<1>6. c => s.go.clock >= r
  BY DEF c, Clock
<1>7. ASSUME NEW x \in 0 .. (TIME_MOD - 1)
      PROVE  (0 - ((x - s.go.time) % TIME_MOD)) % TIME_MOD = (s.go.time - x) % TIME_MOD
             /\ (x - s.go.time) % TIME_MOD \in 0 .. (TIME_MOD - 1)
  <2>1. x - s.go.time \in Int /\ 0 - (x - s.go.time) = s.go.time - x /\ 0 \in Int
    BY <1>1 DEF GoType
  <2>2. (0 - ((x - s.go.time) % TIME_MOD)) % TIME_MOD = (0 - (x - s.go.time)) % TIME_MOD
    <3> DEFINE y == x - s.go.time
    <3> HIDE DEF y
    <3>1. y \in Int
      BY <2>1 DEF y
    <3>2. (0 - (y % TIME_MOD)) % TIME_MOD = (0 - y) % TIME_MOD
      BY <1>1, <2>1, <3>1, ModSub, Zenon
    <3>3. QED BY <3>2 DEF y
  <2>3. (x - s.go.time) % TIME_MOD \in 0 .. (TIME_MOD - 1)
    BY <1>1, <2>1, DivMod
  <2>4. QED BY <2>1, <2>2, <2>3
<1>8. s.go.selfHealTimer \in 0 .. (TIME_MOD - 1) /\ s.go.lockoutTimer \in 0 .. (TIME_MOD - 1)
  BY <1>1 DEF GoType
<1>9. h \in 0 .. (TIME_MOD - 1) /\ (0 - h) % TIME_MOD = NvElapsed(s, s.nvgo.selfHealTimer)
  BY <1>7, <1>8 DEF NvElapsed
<1>10. k \in 0 .. (TIME_MOD - 1) /\ (0 - k) % TIME_MOD = NvElapsed(s, s.nvgo.lockoutTimer)
  BY <1>7, <1>8 DEF NvElapsed
<1>11. ASSUME NEW x \in 0 .. (TIME_MOD - 1), NEW y \in 0 .. (TIME_MOD - 1),
              u = [a EXCEPT !.go.selfHealTimer = x, !.go.lockoutTimer = y]
       PROVE  /\ u \in TpmType /\ u.gp = s.gp /\ u.nvgp = s.nvgp /\ u.nvgo = s.nvgo
              /\ u.time = 0 /\ u.failed = s.failed
              /\ Elapsed(u, u.go.selfHealTimer) = (0 - x) % TIME_MOD
              /\ Elapsed(u, u.go.lockoutTimer) = (0 - y) % TIME_MOD
              /\ Clock(u, r) /\ ClockRam(u, r)
  <2> HIDE DEF a, u
  <2>1. u.gp = s.gp /\ u.nvgp = s.nvgp /\ u.nvgo = s.nvgo /\ u.time = 0 /\ u.failed = s.failed
        /\ u.go = [a.go EXCEPT !.selfHealTimer = x, !.lockoutTimer = y]
        /\ u = [a EXCEPT !.go = u.go]
    BY <1>2, <1>5, <1>11, ZenonT(30) DEF TpmType
  <2>2. u.go \in GoType /\ u.go.clock = s.go.clock /\ u.go.clockSafe = c
        /\ u.go.selfHealTimer = x /\ u.go.lockoutTimer = y
    BY <1>4, <2>1, ZenonT(30) DEF GoType
  <2>3. u \in TpmType
    BY <1>5, <2>1, <2>2 DEF TpmType
  <2>4. Elapsed(u, u.go.selfHealTimer) = (0 - x) % TIME_MOD
        /\ Elapsed(u, u.go.lockoutTimer) = (0 - y) % TIME_MOD
    BY <2>1, <2>2 DEF Elapsed
  <2>5. Clock(u, r) /\ ClockRam(u, r)
    BY <1>6, <2>1, <2>2 DEF Clock, ClockRam
  <2>6. QED BY <2>1, <2>3, <2>4, <2>5
<1>12. CASE s.gp.orderly = TRUE
  <2>1. u = [a EXCEPT !.go.selfHealTimer = h, !.go.lockoutTimer = k]
    <3> HIDE DEF a
    <3>1. u = [a EXCEPT !.go.selfHealTimer = (@ - a.go.time) % TIME_MOD,
                        !.go.lockoutTimer = (@ - a.go.time) % TIME_MOD]
      BY <1>2, <1>12 DEF DATimers
    <3>2. a.go = [a.go EXCEPT !.selfHealTimer = s.go.selfHealTimer]
      BY <1>4 DEF GoType
    <3>3. QED BY <1>4, <1>5, <3>1 DEF TpmType, GoType
  <2> HIDE DEF u, a, h, k
  <2>2. /\ u \in TpmType /\ u.gp = s.gp /\ u.nvgp = s.nvgp /\ u.nvgo = s.nvgo
        /\ u.time = 0 /\ u.failed = s.failed
        /\ Elapsed(u, u.go.selfHealTimer) =
              IF s.nvgp.orderly THEN NvElapsed(s, s.nvgo.selfHealTimer) ELSE 0
        /\ Elapsed(u, u.go.lockoutTimer) =
              IF s.nvgp.orderly THEN NvElapsed(s, s.nvgo.lockoutTimer) ELSE 0
        /\ Clock(u, r) /\ ClockRam(u, r)
    BY <1>9, <1>10, <1>11, <1>12, <2>1, ZenonT(30)
  <2>3. QED BY <2>2, ZenonT(30) DEF u, a
<1>13. CASE s.gp.orderly = FALSE
  <2>1. u = [a EXCEPT !.go.selfHealTimer = 0, !.go.lockoutTimer = 0]
    BY <1>2, <1>13 DEF DATimers
  <2>2. (0 - 0) % TIME_MOD = 0
    BY <1>1, ModSmall
  <2> HIDE DEF u, a, h, k
  <2>3. /\ u \in TpmType /\ u.gp = s.gp /\ u.nvgp = s.nvgp /\ u.nvgo = s.nvgo
        /\ u.time = 0 /\ u.failed = s.failed
        /\ Elapsed(u, u.go.selfHealTimer) =
              IF s.nvgp.orderly THEN NvElapsed(s, s.nvgo.selfHealTimer) ELSE 0
        /\ Elapsed(u, u.go.lockoutTimer) =
              IF s.nvgp.orderly THEN NvElapsed(s, s.nvgo.lockoutTimer) ELSE 0
        /\ Clock(u, r) /\ ClockRam(u, r)
    BY <1>1, <1>11, <1>13, <2>1, <2>2, ZenonT(30)
  <2>4. QED BY <2>3, ZenonT(30) DEF u, a
<1>14. QED BY <1>1, <1>12, <1>13, ZenonT(30)

\* With a lockoutRecovery of 0 a startup enables lockoutAuth.
LEMMA RecoveryRuns ==
    ASSUME NEW s \in TpmType, Healthy(s), NEW f \in Nat, NEW p \in Nat,
           NEW l \in Nat \cup {Never},
           Paid(Elapsed(s, s.go.selfHealTimer), s.gp.failedTries, f, p),
           s.gp.lockoutRecovery # 0 =>
               Waits(s.gp.lockOutAuthEnabled, Elapsed(s, s.go.lockoutTimer), l, p)
    PROVE  LET u == DARecovery(s)
           IN  /\ u \in TpmType /\ Healthy(u) /\ SameButHealed(s, u)
               /\ Ram(u, f, IF s.gp.lockoutRecovery = 0 THEN Never ELSE l, p)
<1> DEFINE u == DARecovery(s)
<1>1. s.gp \in GpType /\ s.nvgp \in GpType
  BY Parts
<1>2. CASE s.gp.lockoutRecovery # 0
  <2>1. u = s
    BY <1>2 DEF DARecovery
  <2>2. QED BY <1>2, <2>1, ZenonT(30) DEF SameButHealed, Ram
<1>3. CASE s.gp.lockoutRecovery = 0
  <2>1. u.gp = [s.gp EXCEPT !.lockOutAuthEnabled = TRUE]
        /\ u.nvgp = [s.nvgp EXCEPT !.lockOutAuthEnabled = TRUE]
        /\ u.go = s.go /\ u.nvgo = s.nvgo /\ u.time = s.time /\ u.failed = s.failed
        /\ u = [s EXCEPT !.gp = u.gp, !.nvgp = u.nvgp]
    BY <1>3 DEF DARecovery, TpmType
  <2> HIDE DEF u
  <2>2. u.gp \in GpType /\ u.nvgp \in GpType
    BY <1>1, <2>1, ZenonT(30) DEF GpType
  <2>3. u \in TpmType
    BY <2>1, <2>2 DEF TpmType
  <2>4. Healthy(u)
    BY <1>1, <2>1 DEF Healthy, Synced, GpType
  <2>5. SameButHealed(s, u) /\ u.gp.failedTries = s.gp.failedTries
    BY <1>1, <2>1 DEF SameButHealed, GpType
  <2>6. Ram(u, f, Never, p)
    BY <2>1, <2>5 DEF Ram, Waits, Elapsed
  <2>7. QED BY <1>3, <2>3, <2>4, <2>5, <2>6, ZenonT(30) DEF u
<1>4. QED BY <1>2, <1>3

\* An unorderly shutdown may add to the count, never past maxTries.
LEMMA UnorderlyRuns ==
    ASSUME NEW s \in TpmType, Healthy(s), NEW f \in Nat, NEW p \in Nat, NEW l, Ram(s, f, l, p)
    PROVE  LET u == DAUnorderly(s)
           IN  u \in TpmType /\ Healthy(u) /\ SameButHealed(s, u) /\ Ram(u, f, l, p)
<1> DEFINE u == DAUnorderly(s)
           t == s.gp.failedTries + 1
<1>1. s.gp \in GpType /\ s.nvgp \in GpType
  BY Parts
<1>2. CASE ~(s.gp.recoveryTime # 0 /\ s.gp.failedTries < s.gp.maxTries /\ ~s.gp.orderly)
  <2>1. u = s
    BY <1>2 DEF DAUnorderly
  <2>2. QED BY <2>1 DEF SameButHealed
<1>3. CASE s.gp.recoveryTime # 0 /\ s.gp.failedTries < s.gp.maxTries /\ ~s.gp.orderly
  <2>1. u.gp = [s.gp EXCEPT !.failedTries = t] /\ u.nvgp = [s.nvgp EXCEPT !.failedTries = t]
        /\ u.go = s.go /\ u.nvgo = s.nvgo /\ u.time = s.time /\ u.failed = s.failed
        /\ u = [s EXCEPT !.gp = u.gp, !.nvgp = u.nvgp]
    BY <1>3 DEF DAUnorderly, TpmType
  <2>2. s.gp.failedTries \in Nat /\ t \in 0 .. (TRIES_MOD - 1) /\ t <= MaxTriesLimit
    <3>1. s.gp.failedTries \in Nat /\ s.gp.maxTries \in MaxTriesValues
      BY <1>1, Sets
    <3>2. s.gp.maxTries \in Nat /\ s.gp.maxTries <= MaxTriesLimit
          /\ MaxTriesLimit \in 0 .. (TRIES_MOD - 1) /\ TRIES_MOD \in Nat
      BY <3>1, Limits, Constants
    <3>3. QED BY <1>3, <3>1, <3>2
  <2>3. Paid(Elapsed(s, s.go.selfHealTimer), t, f, p)
    <3> DEFINE e == Elapsed(s, s.go.selfHealTimer)
               k == s.gp.failedTries
    <3>1. e \in Int /\ Price \in Nat
      BY ElapsedType, Constants, Prices
    <3>2. e <= p /\ (f - k) * Price + e <= p
      BY DEF Ram, Paid
    <3> HIDE DEF e, k
    <3>3. k \in Nat /\ t = k + 1
      BY <2>2 DEF k
    <3> HIDE DEF t
    <3>4. (f - t) * Price <= (f - k) * Price
      BY <3>1, <3>3, MulMono
    <3>5. (f - t) * Price \in Int /\ (f - k) * Price \in Int
      BY <3>1, <3>3
    <3>6. QED BY <3>1, <3>2, <3>4, <3>5 DEF Paid, e
  <2> HIDE DEF u, t
  <2>4. u.gp \in GpType /\ u.nvgp \in GpType
    BY <1>1, <2>1, <2>2 DEF GpType
  <2>5. u \in TpmType
    BY <2>1, <2>4 DEF TpmType
  <2>6. Healthy(u)
    BY <1>1, <2>1, <2>2 DEF Healthy, Synced, GpType
  <2>7. SameButHealed(s, u) /\ u.gp.failedTries = t
        /\ u.gp.lockOutAuthEnabled = s.gp.lockOutAuthEnabled
    BY <1>1, <2>1 DEF SameButHealed, GpType
  <2>8. Ram(u, f, l, p)
    BY <2>1, <2>3, <2>7 DEF Ram, Elapsed
  <2>9. QED BY <2>5, <2>6, <2>7, <2>8 DEF u
<1>4. QED BY <1>2, <1>3

\* TPM2_Startup makes the state in RAM from the one in NV, and credits no time that
\* was not spent with power on.
LEMMA StartupKeeps ==
    ASSUME IInv, TPM2_Startup PROVE IInv'
<1> DEFINE b == DATimers(TimeStartup(tpm))
           c == DARecovery(b)
           d == DAUnorderly(c)
           e == TimeUpdate(d)
           p == powered - timer
           l == IF tpm.gp.lockoutRecovery = 0 THEN Never ELSE lockFailed
           f == Forgiven(tpm, failures)
<1>1. phase = "init" /\ phase' = "started" /\ tpm' = ClearOrderly(e) /\ lockFailed' = l
      /\ Tries(0) /\ UNCHANGED <<timer, powered, reported>>
  BY DEF TPM2_Startup, DAStartup
<1>2. /\ tpm \in TpmType /\ powered \in Nat /\ timer \in Nat /\ failures \in Nat
      /\ reported \in Nat /\ lockFailed \in Nat \cup {Never}
      /\ timer <= powered /\ powered <= MaxPowered
  BY DEF IInv, TypeOK
<1>3. Healthy(tpm) /\ tpm.gp = tpm.nvgp /\ tpm.go = tpm.nvgo /\ tpm.time = 0
      /\ Saved(tpm, failures, lockFailed, p) /\ Clock(tpm, reported)
  BY <1>1, ZenonT(30) DEF IInv
<1>4. p \in Nat /\ MaxPowered \in Nat /\ timer <= MaxPowered
  BY <1>2, Constants
<1>5. failures' = f /\ f \in Nat /\ l \in Nat \cup {Never}
  BY <1>1, <1>2, TriesZero
<1>6. /\ b \in TpmType /\ b.gp = tpm.gp /\ b.nvgp = tpm.nvgp /\ b.nvgo = tpm.nvgo
      /\ b.time = 0 /\ b.failed = tpm.failed
      /\ Elapsed(b, b.go.selfHealTimer) =
           IF tpm.nvgp.orderly THEN NvElapsed(tpm, tpm.nvgo.selfHealTimer) ELSE 0
      /\ Elapsed(b, b.go.lockoutTimer) =
           IF tpm.nvgp.orderly THEN NvElapsed(tpm, tpm.nvgo.lockoutTimer) ELSE 0
      /\ Clock(b, reported) /\ ClockRam(b, reported)
  BY <1>2, <1>3, TimersMoved, ZenonT(30)
<1> HIDE DEF b, p
<1>7. Healthy(b) /\ Paid(Elapsed(b, b.go.selfHealTimer), b.gp.failedTries, failures, p)
      /\ (b.gp.lockoutRecovery # 0 =>
            Waits(b.gp.lockOutAuthEnabled, Elapsed(b, b.go.lockoutTimer), lockFailed, p))
  BY <1>3, <1>6, ZenonT(30) DEF Healthy, Synced, Saved
<1>8. c \in TpmType /\ Healthy(c) /\ SameButHealed(b, c) /\ Ram(c, failures, l, p)
  BY <1>2, <1>4, <1>6, <1>7, RecoveryRuns, ZenonT(30)
<1> HIDE DEF c, l
<1>9. d \in TpmType /\ Healthy(d) /\ SameButHealed(c, d) /\ Ram(d, failures, l, p)
  BY <1>2, <1>4, <1>8, UnorderlyRuns
<1> HIDE DEF d
<1>10. d.time = 0 /\ Clock(d, reported) /\ ClockRam(d, reported) /\ Forgiven(d, failures) = f
  BY <1>6, <1>8, <1>9, ZenonT(30) DEF SameButHealed, Clock, ClockRam, Forgiven
<1>11. d.time <= timer /\ p + (timer - d.time) = powered /\ p + (timer - d.time) <= MaxPowered
  BY <1>2, <1>4, <1>10 DEF p
<1>12. /\ e \in TpmType /\ Healthy(e) /\ e.time = timer
       /\ Ram(e, f, l, p + (timer - d.time)) /\ Clock(e, reported) /\ ClockRam(e, reported)
  BY <1>2, <1>4, <1>5, <1>9, <1>10, <1>11, TimeUpdateHeals
<1> HIDE DEF e, f
<1>13. /\ tpm' \in TpmType /\ Healthy(tpm') /\ tpm'.gp.orderly = FALSE /\ tpm'.time = e.time
       /\ tpm'.go = e.go /\ tpm'.nvgo = e.nvgo
       /\ tpm'.gp.failedTries = e.gp.failedTries
       /\ tpm'.gp.lockOutAuthEnabled = e.gp.lockOutAuthEnabled
       /\ tpm'.nvgp.orderly = FALSE
  BY <1>1, <1>12, ClearOrderlyRuns, ZenonT(30)
<1>14. Ram(tpm', f, l, powered)
  BY <1>11, <1>12, <1>13, ZenonT(30) DEF Ram, Elapsed
<1>15. Clock(tpm', reported) /\ ClockRam(tpm', reported)
  BY <1>12, <1>13, ZenonT(30) DEF Clock, ClockRam
<1>16. Running(tpm', failures', lockFailed', reported')
  BY <1>1, <1>5, <1>12, <1>13, <1>14, <1>15 DEF Running
<1>17. QED BY <1>1, <1>2, <1>5, <1>16, Resumed

-----------------------------------------------------------------------------
(* The theorems *)

\* Every command, the passing of time, a loss of power and a startup preserve the
\* inductive invariant.
THEOREM Step ==
    ASSUME CleanShutdown, ~LockoutPolicy, IInv, [Next]_vars PROVE IInv'
<1>1. CASE Refused
  BY <1>1, RefusedKeeps
<1>2. ASSUME NEW a \in Session, WrongAuth(a) PROVE IInv'
  BY <1>2, WrongAuthKeeps
<1>3. CASE Execute
  BY <1>3, ExecuteKeeps
<1>4. CASE TPM2_DictionaryAttackLockReset
  BY <1>4, LockResetKeeps
<1>5. ASSUME NEW maxTries \in MaxTriesValues, NEW recoveryTime \in RecoveryTimes,
             NEW lockoutRecovery \in LockoutRecoveries,
             TPM2_DictionaryAttackParameters(maxTries, recoveryTime, lockoutRecovery)
      PROVE  IInv'
  BY <1>5, ParametersKeep
<1>6. CASE TPM2_Clear
  BY <1>6, ClearKeeps
<1>7. CASE TPM2_ReadClock
  BY <1>7, ReadClockKeeps
<1>8. ASSUME NEW newTime \in 0 .. CLOCK_LIMIT, TPM2_ClockSet(newTime) PROVE IInv'
  BY <1>8, ClockSetKeeps
<1>9. CASE TPM2_Shutdown
  BY <1>9, ShutdownKeeps
<1>10. CASE Tick
  BY <1>10, TickKeeps
<1>11. CASE PowerCycle
  BY <1>11, PowerCycleKeeps
<1>12. CASE TPM2_Startup
  BY <1>12, StartupKeeps
<1>13. CASE UNCHANGED vars
  BY <1>13, ZenonT(30) DEF vars, IInv, TypeOK, Healthy, Synced, Saved, NvElapsed, Clock, ClockRam, Ram, Elapsed
<1>14. QED
  BY <1>1, <1>2, <1>3, <1>4, <1>5, <1>6, <1>7, <1>8, <1>9, <1>10, <1>11, <1>12, <1>13 DEF Next

\* The inductive invariant holds in every state.
THEOREM Invariance ==
    ASSUME CleanShutdown, ~LockoutPolicy PROVE Spec => []IInv
<1>1. Init => IInv
  BY InitHolds
<1>2. IInv /\ [Next]_vars => IInv'
  BY Step
<1>3. QED BY <1>1, <1>2, PTL DEF Spec

\* failedTries and the timers stay in the range of their types: the counter does
\* not wrap, however often IncrementLockout and DAStartup add to it.
THEOREM TypeCorrect ==
    ASSUME CleanShutdown, ~LockoutPolicy PROVE Spec => []TypeOK
<1>1. IInv => TypeOK
  BY DEF IInv
<1>2. QED BY <1>1, Invariance, PTL

\* Every failure that counted is in failedTries in NV or was paid for with
\* recoveryTime seconds of power.
LEMMA FailuresPaid ==
    ASSUME IInv PROVE HealingIsPaid
<1> DEFINE t == tpm.nvgp.failedTries
           p == IF phase = "init" THEN powered - timer ELSE powered
           e == IF tpm.nvgp.orderly THEN NvElapsed(tpm, tpm.nvgo.selfHealTimer) ELSE 0
           q == powered \div Price
<1>1. powered \in Nat /\ failures \in Nat /\ timer \in Nat /\ timer <= powered /\ tpm \in TpmType
      /\ Price \in Nat \ {0} /\ TIME_MOD \in Nat \ {0}
  BY Prices, Constants DEF IInv, TypeOK
<1>2. t \in Nat
  BY <1>1, Parts, Sets
<1>3. (failures - t) * Price + e <= p
  BY ZenonT(30) DEF IInv, Saved, Paid
<1>4. e \in Nat
  <2>1. tpm.nvgo.time - tpm.nvgo.selfHealTimer \in Int
    BY <1>1, Parts DEF GoType
  <2>2. NvElapsed(tpm, tpm.nvgo.selfHealTimer) \in 0 .. (TIME_MOD - 1)
    BY <1>1, <2>1, DivMod, ZenonT(30) DEF NvElapsed
  <2>3. NvElapsed(tpm, tpm.nvgo.selfHealTimer) \in Nat
    BY <1>1, <2>2
  <2>4. QED BY <2>3
<1>5. p \in Nat /\ p <= powered
  BY <1>1
<1> HIDE DEF t, p, e
<1>6. (failures - t) * Price <= powered
  <2>1. (failures - t) * Price \in Int
    BY <1>1, <1>2
  <2>2. QED BY <1>1, <1>3, <1>4, <1>5, <2>1
<1>7. failures - t <= q
  <2>1. failures - t \in Int
    BY <1>1, <1>2
  <2>2. QED BY <1>1, <1>6, <2>1, CountFits
<1>8. q \in Nat
  BY <1>1, DivMono
<1> HIDE DEF q
<1>9. failures <= t + q
  BY <1>1, <1>2, <1>7, <1>8
<1>10. QED BY <1>9 DEF HealingIsPaid, t, q, Price

\* Self healing never forgives more than the time with power on has paid for,
\* across every sequence of orderly and unorderly power cycles.
THEOREM HealingPaid ==
    ASSUME CleanShutdown, ~LockoutPolicy PROVE Spec => []HealingIsPaid
<1>1. IInv => HealingIsPaid
  BY FailuresPaid
<1>2. QED BY <1>1, Invariance, PTL

\* The number of wrong authValues between two pardons is limited by maxTries and
\* the time with power on.
THEOREM BudgetHolds ==
    ASSUME CleanShutdown, ~LockoutPolicy PROVE Spec => []GuessBudget
<1>1. IInv => GuessBudget
  <2> SUFFICES ASSUME IInv PROVE GuessBudget
    OBVIOUS
  <2> DEFINE t == tpm.nvgp.failedTries
             q == powered \div Price
  <2>1. failures <= t + q
    BY FailuresPaid DEF HealingIsPaid, Price
  <2>2. t \in Nat /\ t <= MaxTriesLimit
    <3>1. tpm \in TpmType
      BY DEF IInv, TypeOK
    <3>2. t \in Nat
      BY <3>1, Parts, Sets
    <3>3. QED BY <3>2 DEF IInv, Healthy, Synced
  <2>3. q \in Nat /\ MaxTriesLimit \in Nat /\ failures \in Nat
    <3>1. powered \in Nat /\ failures \in Nat
      BY DEF IInv, TypeOK
    <3>2. MaxTriesLimit \in Nat
      BY Limits, Constants
    <3>3. QED BY <3>1, <3>2, Prices, DivMono
  <2> HIDE DEF t, q
  <2>4. failures <= MaxTriesLimit + q
    BY <2>1, <2>2, <2>3
  <2>5. QED BY <2>4 DEF GuessBudget, q, Price
<1>2. QED BY <1>1, Invariance, PTL

\* After a wrong lockoutAuth, lockoutAuth stays disabled for lockoutRecovery
\* seconds with power on.
THEOREM LockoutWaitsHolds ==
    ASSUME CleanShutdown, ~LockoutPolicy PROVE Spec => []LockoutWaits
<1>1. IInv => LockoutWaits
  <2> SUFFICES ASSUME IInv, phase = "started", lockFailed # Never, tpm.gp.lockOutAuthEnabled
               PROVE  powered - lockFailed >= LockPrice
    BY DEF LockoutWaits, LockPrice
  <2> DEFINE p == powered - timer + tpm.time
  <2>1. p - lockFailed >= LockPrice
    BY DEF IInv, Ram, Waits
  <2>2. tpm.time \in Nat /\ tpm.time <= timer /\ timer \in Nat /\ powered \in Nat
        /\ lockFailed \in Nat /\ LockPrice \in Nat
    <3>1. tpm \in TpmType /\ lockFailed \in Nat /\ timer \in Nat /\ powered \in Nat
          /\ tpm.time <= timer
      BY DEF IInv, TypeOK
    <3>2. QED BY <3>1, Parts, Constants, Prices
  <2>3. QED BY <2>1, <2>2
<1>2. QED BY <1>1, Invariance, PTL

\* The pAssert of IncrementLockout never fails.
THEOREM AssertionHolds ==
    ASSUME CleanShutdown, ~LockoutPolicy PROVE Spec => []LockoutAssertion
<1>1. IInv => LockoutAssertion
  BY DEF IInv, Healthy, LockoutAssertion
<1>2. QED BY <1>1, Invariance, PTL

\* A clock that is reported as safe is never behind one reported before.
THEOREM ClockIsSafe ==
    ASSUME CleanShutdown, ~LockoutPolicy PROVE Spec => []SafeClock
<1>1. IInv => SafeClock
  BY DEF IInv, ClockRam, SafeClock
<1>2. QED BY <1>1, Invariance, PTL
=============================================================================
