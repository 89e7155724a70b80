------------------------------ MODULE MCAudit ------------------------------
(* Instances of Audit for TLC.                                             *)
EXTENDS Audit

MCRequests ==
    {<<{}, {}>>, <<{"Startup", "Shutdown"}, {}>>,
     <<{}, {"Startup", "SetCommandCodeAuditStatus"}>>}

(* A session's counts matter only in whether they agree, and the contents  *)
(* of the command audit log only in whether they agree with the history:   *)
(* states that differ in nothing else are one.  The saved state is not     *)
(* read again once a command has voided the Shutdown(STATE).               *)
Counted(s) ==
    [h \in Handles |-> <<s[h].where, s[h].isAudit, s[h].audited = s[h].since>>]

Logged(d) == <<d.size, d.log = done>>

Agreement ==
    <<running, Counted(sessions), exclusive, gp, nv.gp, Logged(digest),
      done = <<>>, started,
      IF nv.gp.orderlyState = "STATE"
      THEN <<Logged(nv.digest), Counted(nv.sessions)>> ELSE <<>> >>
=============================================================================
