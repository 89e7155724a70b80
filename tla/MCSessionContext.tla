-------------------------- MODULE MCSessionContext --------------------------
(* Small instances of SessionContext for TLC. *)
EXTENDS SessionContext

\* The saved copy of the session table is dead data unless the last shutdown was
\* Shutdown(STATE) and nothing has invalidated it since.
LiveState ==
    <<gr, ram, started, orderlyState, totalResetCount, hist,
      IF orderlyState = "STATE" THEN <<nvReset>> ELSE << >> >>
=============================================================================
