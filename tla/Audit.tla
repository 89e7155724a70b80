------------------------------- MODULE Audit -------------------------------
(***************************************************************************)
(* The two audit logs of the TPM and what a restart does to them.          *)
(*                                                                         *)
(* A command may name one of its HMAC sessions as an audit session: the    *)
(* session's digest is then extended by the command, and                   *)
(* g_exclusiveAuditSession tells whether every command since the digest    *)
(* was started went through that session (SessionProcess.c).  Separately,  *)
(* the commands in gp.auditCommands are extended into one command audit    *)
(* digest, numbered by gp.auditCounter (CommandAudit.c).                   *)
(*                                                                         *)
(* A digest is modelled by what was extended into it: for a session the    *)
(* number of commands, for the command audit the sequence of their codes.  *)
(* A failing command leaves all of this alone and is not modelled.         *)
(***************************************************************************)
EXTENDS Integers, Sequences, FiniteSets

CONSTANTS
    Handles,          \* handles an HMAC session can have
    UNASSIGNED,       \* TPM_RH_UNASSIGNED (or the zero of a fresh RAM): no session
    Ordinary,         \* codes of the commands that have no part in auditing
    Requests,         \* the pairs of a set list and a clear list callers send
    Algs,             \* hash algorithms for the command audit
    InitialAlg,       \* CONTEXT_INTEGRITY_HASH_ALG
    MaxCounter,       \* bound: command audit logs started
    AuditAfterShutdown  \* whether the host still changes the command audit log
                        \* after a TPM2_Shutdown(STATE) that stays in force

(* Commands whose table entry has NO_SESSIONS.                             *)
NoSessions == {"Startup", "ContextLoad", "ContextSave", "FlushContext"}

Codes == Ordinary \cup NoSessions \cup
         {"Shutdown", "Clear", "StartAuthSession", "GetSessionAuditDigest",
          "GetCommandAuditDigest", "SetCommandCodeAuditStatus"}

ASSUME AuditAssumption ==
    /\ UNASSIGNED \notin Handles
    /\ Ordinary \cap {"Startup", "Shutdown"} = {}
    /\ InitialAlg \in Algs
    /\ MaxCounter \in Nat
    /\ AuditAfterShutdown \in BOOLEAN

ASSUME RequestsAssumption ==
    Requests \subseteq (SUBSET Codes) \X (SUBSET Codes)

IsSessionAllowed(c) == c \notin NoSessions

VARIABLES
    running,    \* a TPM2_Startup() was accepted since the power came on
    sessions,   \* the session table: each handle's session
    exclusive,  \* g_exclusiveAuditSession
    gp,         \* the persistent data of auditing, RAM copy
    digest,     \* gr.commandAuditDigest
    nv,         \* NV: gp, and the state-reset data of the last Shutdown(STATE)
    done,       \* history: audited commands completed since the log was emptied
    started     \* history: logs started under each counter value since a Clear

vars == <<running, sessions, exclusive, gp, digest, nv, done, started>>

(* audited counts the commands extended into the session's digest; since   *)
(* is history: the commands that could have been, since the digest began.  *)
Session == [where: {"absent", "loaded", "saved"}, isAudit: BOOLEAN,
            audited: Nat, since: Nat]

Absent == [where |-> "absent", isAudit |-> FALSE, audited |-> 0, since |-> 0]

Loaded == {h \in Handles : sessions[h].where = "loaded"}

(* A digest size of 0 means empty and of 1 that the algorithm has changed. *)
HASH_SIZE == 32

Empty == [size |-> 0, log |-> <<>>]

(* How a command uses its audit session, if it has one.                    *)
NoAudit == [handle |-> UNASSIGNED, reset |-> FALSE, exclusive |-> FALSE,
            continue |-> TRUE]

Uses == [handle: Handles, reset: BOOLEAN, exclusive: BOOLEAN,
         continue: BOOLEAN] \cup {NoAudit}

(* What g_exclusiveAuditSession lets an audit session begin or claim.      *)
RetrieveSessionData(c, a, ended) ==
    /\ ~IsSessionAllowed(c) => a = NoAudit /\ ended = {}
    /\ ended \subseteq Loaded \ {a.handle}
    /\ \/ a = NoAudit
       \/ /\ a.handle \in Loaded
          /\ \/ a.reset
             \/ ~sessions[a.handle].isAudit
             \/ a.exclusive => exclusive = a.handle

Begins(a, s) == a.reset \/ ~s[a.handle].isAudit

(* Mutant: a command without an audit session leaves exclusivity alone.    *)
MutExclusiveAfter(c, a, s, x) ==
    CASE a # NoAudit /\ (Begins(a, s) \/ x = a.handle) -> a.handle
      [] a # NoAudit /\ ~(Begins(a, s) \/ x = a.handle) -> UNASSIGNED
      [] OTHER -> x

ExclusiveAfter(c, a, s, x) ==
    CASE a # NoAudit /\ (Begins(a, s) \/ x = a.handle) -> a.handle
      [] a # NoAudit /\ ~(Begins(a, s) \/ x = a.handle) -> UNASSIGNED
      [] a = NoAudit /\ IsSessionAllowed(c) -> UNASSIGNED
      [] OTHER -> x

(* Session h when command c completes without being extended into it.      *)
Passed(c, session) ==
    IF session.isAudit /\ IsSessionAllowed(c)
    THEN [session EXCEPT !.since = @ + 1] ELSE session

UpdateAuditSessionStatus(c, a, s) ==
    [h \in Handles |->
        CASE h # a.handle -> Passed(c, s[h])
          [] h = a.handle /\ Begins(a, s) ->
                [s[h] EXCEPT !.isAudit = TRUE, !.audited = 1, !.since = 1]
          [] h = a.handle /\ ~Begins(a, s) ->
                [s[h] EXCEPT !.audited = @ + 1, !.since = @ + 1]]

(* Sessions whose continueSession is clear end with the response.          *)
EndSessions(a, ended, s) ==
    [h \in Handles |->
        IF h \in ended \/ (h = a.handle /\ ~a.continue) THEN Absent ELSE s[h]]

CommandAuditIsRequired(c, p) == c \in p.auditCommands

Starts(c, p, d) == CommandAuditIsRequired(c, p) /\ d.size = 0

(* Mutant: the size that marks a changed algorithm is left in place.       *)
MutCommandAudit(c, p, d) ==
    IF CommandAuditIsRequired(c, p) /\ d.size # 1
    THEN [size |-> HASH_SIZE, log |-> Append(d.log, c)] ELSE d

CommandAudit(c, p, d) ==
    CASE ~CommandAuditIsRequired(c, p) -> d
      [] CommandAuditIsRequired(c, p) /\ d.size = 1 -> Empty
      [] CommandAuditIsRequired(c, p) /\ d.size # 1 ->
            [size |-> HASH_SIZE, log |-> Append(d.log, c)]

(* gp after CommandAudit(), in RAM, and which of it NV_SYNC_PERSISTENT     *)
(* writes to NV.                                                           *)
Bumped(c, p, d) ==
    IF Starts(c, p, d) THEN [p EXCEPT !.auditCounter = @ + 1] ELSE p

(* Mutant: the new counter value is not written to NV.                     *)
MutSynced(c, p, d, stored) == stored

Synced(c, p, d, stored) ==
    IF Starts(c, p, d)
    THEN [stored EXCEPT !.auditCounter = p.auditCounter + 1] ELSE stored

-----------------------------------------------------------------------------

(* g_clearOrderly: a Shutdown in force is voided, in RAM and in NV.        *)
Voided(p) == [p EXCEPT !.orderlyState = "NONE"]

(* The end of ExecuteCommand() for a command that succeeded.  Its handler  *)
(* has left the session table s, exclusivity x, persistent data p, digest  *)
(* d, NV contents n, and, as history, the commands kept in the log.        *)
Complete(c, a, ended, s, x, p, d, n, kept) ==
    /\ Starts(c, p, d) => p.auditCounter < MaxCounter
    /\ \/ AuditAfterShutdown
       \/ c \in {"Shutdown", "Startup"}
       \/ p.orderlyState # "STATE"
       \/ ~CommandAuditIsRequired(c, p) /\ kept = done
    /\ exclusive' = ExclusiveAfter(c, a, s, x)
    /\ sessions' = EndSessions(a, ended, UpdateAuditSessionStatus(c, a, s))
    /\ digest' = CommandAudit(c, p, d)
    /\ gp' = Bumped(c, p, d)
    /\ nv' = [n EXCEPT !.gp = Synced(c, p, d, @),
                       !.sessions = [h \in Handles |-> Passed(c, @[h])]]
    /\ done' = IF CommandAuditIsRequired(c, p) /\ d.size # 1
               THEN Append(kept, c) ELSE kept
    /\ started' =
          LET base == IF c = "Clear" THEN [i \in 0 .. MaxCounter |-> 0]
                                     ELSE started
          IN  IF Starts(c, p, d)
              THEN [base EXCEPT ![p.auditCounter + 1] = @ + 1] ELSE base

(* Any other command, with an audit session or without.                    *)
OrdinaryCommand(c, a, ended) ==
    /\ running
    /\ RetrieveSessionData(c, a, ended)
    /\ Complete(c, a, ended, sessions, exclusive, gp, digest, nv, done)
    /\ UNCHANGED running

StartAuthSession(h, a, ended) ==
    /\ running
    /\ sessions[h].where = "absent"
    /\ RetrieveSessionData("StartAuthSession", a, ended)
    /\ Complete("StartAuthSession", a, ended,
                [sessions EXCEPT ![h] = [Absent EXCEPT !.where = "loaded"]],
                exclusive, gp, digest, nv, done)
    /\ UNCHANGED running

(* Reports the session's digest with exclusive = h, before the command     *)
(* itself is accounted for.                                                *)
GetSessionAuditDigest(h, a, ended) ==
    /\ running
    /\ h \in Loaded
    /\ sessions[h].isAudit
    /\ RetrieveSessionData("GetSessionAuditDigest", a, ended)
    /\ Complete("GetSessionAuditDigest", a, ended, sessions, exclusive, gp,
                digest, nv, done)
    /\ UNCHANGED running

FlushContext(h) ==
    /\ running
    /\ sessions[h].where # "absent"
    /\ Complete("FlushContext", NoAudit, {}, [sessions EXCEPT ![h] = Absent],
                IF exclusive = h THEN UNASSIGNED ELSE exclusive,
                gp, digest, nv, done)
    /\ UNCHANGED running

ContextSave(h) ==
    /\ running
    /\ h \in Loaded
    /\ Complete("ContextSave", NoAudit, {},
                [sessions EXCEPT ![h].where = "saved"],
                exclusive, Voided(gp), digest, [nv EXCEPT !.gp = Voided(@)], done)
    /\ UNCHANGED running

ContextLoad(h) ==
    /\ running
    /\ sessions[h].where = "saved"
    /\ Complete("ContextLoad", NoAudit, {},
                [sessions EXCEPT ![h].where = "loaded"],
                exclusive, Voided(gp), digest, [nv EXCEPT !.gp = Voided(@)], done)
    /\ UNCHANGED running

(* A signed report empties the log; an unsigned one leaves it.             *)
GetCommandAuditDigest(signed, a, ended) ==
    /\ running
    /\ RetrieveSessionData("GetCommandAuditDigest", a, ended)
    /\ Complete("GetCommandAuditDigest", a, ended, sessions, exclusive, gp,
                IF signed THEN Empty ELSE digest, nv,
                IF signed THEN <<>> ELSE done)
    /\ UNCHANGED running

(* Mutant: Shutdown can be put on the list.                                *)
MutCommandAuditSet(commands, list) == commands \cup list

CommandAuditSet(commands, list) == commands \cup (list \ {"Shutdown"})

CommandAuditClear(commands, list) ==
    commands \ (list \ {"SetCommandCodeAuditStatus"})

SetCommandCodeAuditStatus(alg, setList, clearList, a, ended) ==
    LET rehash   == alg # gp.auditHashAlg
        commands == CommandAuditClear(CommandAuditSet(gp.auditCommands, setList),
                                      clearList)
        p == IF rehash THEN [gp EXCEPT !.auditHashAlg = alg]
                       ELSE [gp EXCEPT !.auditCommands = commands]
    IN  /\ running
        /\ rehash => setList = {} /\ clearList = {}
        /\ RetrieveSessionData("SetCommandCodeAuditStatus", a, ended)
        /\ Complete("SetCommandCodeAuditStatus", a, ended, sessions, exclusive,
                    p, IF rehash THEN [size |-> 1, log |-> <<>>] ELSE digest,
                    [nv EXCEPT !.gp.auditHashAlg = p.auditHashAlg,
                               !.gp.auditCommands = p.auditCommands],
                    IF rehash THEN <<>> ELSE done)
        /\ UNCHANGED running

(* The counter starts again from zero; the log that is open stays open.    *)
Clear(a, ended) ==
    LET p == Voided([gp EXCEPT !.auditCounter = 0])
    IN  /\ running
        /\ RetrieveSessionData("Clear", a, ended)
        /\ Complete("Clear", a, ended, sessions, exclusive, p, digest,
                    [nv EXCEPT !.gp = p], done)
        /\ UNCHANGED running

Shutdown(type, a, ended) ==
    LET p == [gp EXCEPT !.orderlyState = type]
        n == [nv EXCEPT !.gp.orderlyState = type]
    IN  /\ running
        /\ RetrieveSessionData("Shutdown", a, ended)
        /\ Complete("Shutdown", a, ended, sessions, exclusive, p, digest,
                    IF type = "STATE"
                    THEN [n EXCEPT !.digest = digest, !.sessions = sessions]
                    ELSE n,
                    done)
        /\ UNCHANGED running

(* The power goes and comes back: RAM starts from zero, NV is read.        *)
PowerCycle ==
    /\ running' = FALSE
    /\ sessions' = [h \in Handles |-> Absent]
    /\ exclusive' = UNASSIGNED
    /\ gp' = nv.gp
    /\ digest' = Empty
    /\ UNCHANGED <<nv, done, started>>

(* SessionStartup() keeps, on a Resume or a Restart, the sessions that     *)
(* were context-saved when the state was.                                  *)
SessionStartup(saved) ==
    [h \in Handles |->
        IF saved[h].where = "saved" THEN saved[h] ELSE Absent]

Startup(type) ==
    LET keep == gp.orderlyState = "STATE"
    IN  /\ ~running
        /\ type = "STATE" => keep
        /\ running' = TRUE
        /\ Complete("Startup", NoAudit, {},
                    IF keep THEN SessionStartup(nv.sessions) ELSE sessions,
                    exclusive, Voided(gp), IF keep THEN nv.digest ELSE Empty,
                    [nv EXCEPT !.gp = Voided(@)],
                    IF keep THEN done ELSE <<>>)

-----------------------------------------------------------------------------

Init ==
    /\ running = FALSE
    /\ sessions = [h \in Handles |-> Absent]
    /\ exclusive = UNASSIGNED
    /\ gp = [auditCommands |-> {"SetCommandCodeAuditStatus"},
             auditHashAlg |-> InitialAlg, auditCounter |-> 0,
             orderlyState |-> "NONE"]
    /\ digest = Empty
    /\ nv = [gp |-> gp, digest |-> Empty,
             sessions |-> [h \in Handles |-> Absent]]
    /\ done = <<>>
    /\ started = [i \in 0 .. MaxCounter |-> 0]

WithSessions(a, ended) ==
    \/ \E c \in Ordinary : OrdinaryCommand(c, a, ended)
    \/ \E h \in Handles : StartAuthSession(h, a, ended)
    \/ \E h \in Handles : GetSessionAuditDigest(h, a, ended)
    \/ \E signed \in BOOLEAN : GetCommandAuditDigest(signed, a, ended)
    \/ \E alg \in Algs, r \in Requests :
            SetCommandCodeAuditStatus(alg, r[1], r[2], a, ended)
    \/ Clear(a, ended)
    \/ \E type \in {"CLEAR", "STATE"} : Shutdown(type, a, ended)

Next ==
    \/ \E a \in Uses, ended \in SUBSET Handles : WithSessions(a, ended)
    \/ \E h \in Handles : FlushContext(h) \/ ContextSave(h) \/ ContextLoad(h)
    \/ PowerCycle
    \/ \E type \in {"CLEAR", "STATE"} : Startup(type)

Spec == Init /\ [][Next]_vars

-----------------------------------------------------------------------------

Sessions == [Handles -> Session]

Digests == [size: {0, HASH_SIZE}, log: Seq(Codes)]

Persistent == [auditCommands: SUBSET Codes, auditHashAlg: Algs,
               auditCounter: 0 .. MaxCounter,
               orderlyState: {"NONE", "CLEAR", "STATE"}]

(* Type correctness; between commands the digest never has the size 1 that *)
(* marks a changed algorithm (CommandAudit() clears it on the way out).    *)
TypeOK ==
    /\ running \in BOOLEAN
    /\ sessions \in Sessions
    /\ exclusive \in Handles \cup {UNASSIGNED}
    /\ gp \in Persistent
    /\ digest \in Digests
    /\ nv \in [gp: Persistent, digest: Digests, sessions: Sessions]
    /\ done \in Seq(Codes)
    /\ started \in [0 .. MaxCounter -> Nat]

(* A session in use for auditing, loaded or context-saved, is reported as  *)
(* exclusive by GetSessionAuditDigest() and by the auditExclusive response *)
(* attribute exactly when every command that allows sessions has been      *)
(* extended into its digest since the digest began: over the ends, flushes *)
(* and re-use of handles, the saving and loading of sessions, resets of    *)
(* the audit and TPM Resume (UpdateAuditSessionStatus()).                  *)
ExclusiveMeansAll ==
    running =>
        \A h \in Handles :
            sessions[h].where # "absent" /\ sessions[h].isAudit
                => (exclusive = h <=> sessions[h].audited = sessions[h].since)

(* The command audit log that GetCommandAuditDigest() reports is the       *)
(* sequence of the audited commands that completed since it was last       *)
(* emptied by a signed report, a change of algorithm or a TPM Reset; a     *)
(* Shutdown(STATE) and the Restart or Resume after it lose none.           *)
CommandLogComplete ==
    running => /\ digest.log = done
               /\ digest.size = 0 <=> done = <<>>

(* No two command audit logs since a Clear, which sets the counter to 0,   *)
(* are numbered with the same audit counter, even when the power fails     *)
(* right after the first command of a log.                                 *)
OneLogPerCounter ==
    \A k \in 0 .. MaxCounter : started[k] <= 1
=============================================================================
