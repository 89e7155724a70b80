------------------------- MODULE MCDictionaryAttack -------------------------
(***************************************************************************)
(* Instances of DictionaryAttack for TLC.  The views leave out values that *)
(* are overwritten before they are next read: a timer while there is       *)
(* nothing to heal, what NV holds of go after an unorderly shutdown except *)
(* its clock, and the histories a run does not ask about.                  *)
(***************************************************************************)
EXTENDS DictionaryAttack

OneLimit    == {2}
TwoLimits   == {0, 2}
OneTime     == {1}
ZeroOrOne   == {0, 1}

LiveTimers(gp, go) ==
    <<IF gp.failedTries = 0 THEN 0 ELSE go.selfHealTimer,
      IF gp.lockOutAuthEnabled THEN 0 ELSE go.lockoutTimer,
      IF gp.orderly THEN go.time ELSE 0>>

Live ==
    <<tpm.gp, tpm.nvgp, tpm.time, tpm.failed, timer, phase, powered,
      tpm.go.clock, tpm.go.clockSafe, LiveTimers(tpm.gp, tpm.go), tpm.nvgo.clock,
      IF tpm.nvgp.orderly
      THEN <<LiveTimers(tpm.nvgp, tpm.nvgo), tpm.nvgo.clockSafe>> ELSE <<>>>>

LiveWithFailures == <<Live, failures, lockFailed>>
LiveWithHistories == <<Live, failures, lockFailed, reported>>
=============================================================================
