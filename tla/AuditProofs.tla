---------------------------- MODULE AuditProofs ----------------------------
(***************************************************************************)
(* Proofs about Audit for every set of handles, of ordinary commands, of   *)
(* algorithms and of requests: type correctness, what exclusivity means,   *)
(* the numbering of the command audit logs and, for a host that stops      *)
(* changing the log after Shutdown(STATE), that the log is complete.       *)
(*                                                                         *)
(* All commands end in Complete, so each invariant is carried through it   *)
(* once, by a lemma on what the command's handler hands to Complete.       *)
(***************************************************************************)
EXTENDS Audit, TLAPS

\* time limits of the provers, in seconds
USE SMTT(30), ZenonT(30)

Nowhere == Handles \cup {UNASSIGNED}

(* A digest as a handler leaves it, before CommandAudit().                 *)
Handed == [size: {0, 1, HASH_SIZE}, log: Seq(Codes)]

NvImages == [gp: Persistent, digest: Digests, sessions: Sessions]

(* What a handler may hand to Complete.                                    *)
Arguments(c, a, s, x, p, d, n, kept) ==
    /\ c \in Codes
    /\ a \in Uses
    /\ s \in Sessions
    /\ x \in Nowhere
    /\ p \in Persistent
    /\ d \in Handed
    /\ d.size = 1 => CommandAuditIsRequired(c, p)
    /\ n \in NvImages
    /\ kept \in Seq(Codes)

LEMMA CodesAreCodes ==
    /\ Ordinary \subseteq Codes
    /\ {"Startup", "ContextLoad", "ContextSave", "FlushContext", "Shutdown",
        "Clear", "StartAuthSession", "GetSessionAuditDigest",
        "GetCommandAuditDigest", "SetCommandCodeAuditStatus"} \subseteq Codes
BY DEF Codes, NoSessions

LEMMA PassedType ==
    ASSUME NEW c, NEW session \in Session
    PROVE  Passed(c, session) \in Session
BY DEF Passed, Session

LEMMA EmptyType == Empty \in Digests /\ Empty \in Handed /\ Digests \subseteq Handed
BY DEF Empty, Digests, Handed, HASH_SIZE

LEMMA AbsentType == Absent \in Session
BY DEF Absent, Session

LEMMA UsesType ==
    ASSUME NEW a \in Uses
    PROVE  /\ a.handle \in Nowhere
           /\ a = NoAudit => a.handle = UNASSIGNED /\ a.continue = TRUE
           /\ a # NoAudit => a.handle \in Handles
<1>1. CASE a = NoAudit
  BY <1>1 DEF NoAudit, Nowhere
<1>2. CASE a \in [handle: Handles, reset: BOOLEAN, exclusive: BOOLEAN,
                  continue: BOOLEAN]
  <2>1. a.handle \in Handles
    BY <1>2
  <2>2. NoAudit.handle = UNASSIGNED
    BY DEF NoAudit
  <2>3. QED  BY <2>1, <2>2, AuditAssumption DEF Nowhere
<1>3. QED  BY <1>1, <1>2, ZenonT(30) DEF Uses

LEMMA ExtendedType ==
    ASSUME NEW t \in Session
    PROVE  /\ [t EXCEPT !.isAudit = TRUE, !.audited = 1, !.since = 1] \in Session
           /\ [t EXCEPT !.audited = @ + 1, !.since = @ + 1] \in Session
<1>1. t.audited + 1 \in Nat /\ t.since + 1 \in Nat
  BY DEF Session
<1>2. ASSUME NEW i \in Nat, NEW j \in Nat
      PROVE  [t EXCEPT !.audited = i, !.since = j] \in Session
  BY <1>2, ZenonT(30) DEF Session
<1>3. [t EXCEPT !.isAudit = TRUE, !.audited = 1, !.since = 1] \in Session
  BY ZenonT(30) DEF Session
<1>4. QED  BY <1>1, <1>2, <1>3, ZenonT(30)

LEMMA StatusType ==
    ASSUME NEW c, NEW a \in Uses, NEW s \in Sessions
    PROVE  UpdateAuditSessionStatus(c, a, s) \in Sessions
<1> DEFINE u == UpdateAuditSessionStatus(c, a, s)
<1>1. ASSUME NEW h \in Handles PROVE u[h] \in Session
  <2>1. s[h] \in Session
    BY DEF Sessions
  <2>2. CASE h # a.handle
    <3>1. u[h] = Passed(c, s[h])
      BY <2>2 DEF UpdateAuditSessionStatus
    <3>2. QED  BY <3>1, <2>1, PassedType
  <2>3. CASE h = a.handle /\ Begins(a, s)
    <3>1. u[h] = [s[h] EXCEPT !.isAudit = TRUE, !.audited = 1, !.since = 1]
      BY <2>3, ZenonT(30) DEF UpdateAuditSessionStatus
    <3>2. QED  BY <3>1, <2>1, ExtendedType, ZenonT(30)
  <2>4. CASE h = a.handle /\ ~Begins(a, s)
    <3>1. u[h] = [s[h] EXCEPT !.audited = @ + 1, !.since = @ + 1]
      BY <2>4, ZenonT(30) DEF UpdateAuditSessionStatus
    <3>2. QED  BY <3>1, <2>1, ExtendedType, ZenonT(30)
  <2>5. QED  BY <2>2, <2>3, <2>4
<1>2. u = [h \in Handles |-> u[h]]
  BY ZenonT(30) DEF UpdateAuditSessionStatus
<1>3. QED  BY <1>1, <1>2 DEF Sessions

LEMMA EndType ==
    ASSUME NEW a, NEW ended, NEW s \in Sessions
    PROVE  EndSessions(a, ended, s) \in Sessions
BY AbsentType DEF EndSessions, Sessions

LEMMA ExclusiveType ==
    ASSUME NEW c, NEW a \in Uses, NEW s, NEW x \in Nowhere
    PROVE  ExclusiveAfter(c, a, s, x) \in Nowhere
<1>1. CASE a # NoAudit
  <2>1. a.handle \in Nowhere
    BY UsesType, ZenonT(30)
  <2>2. ExclusiveAfter(c, a, s, x) = IF Begins(a, s) \/ x = a.handle
                                     THEN a.handle ELSE UNASSIGNED
    BY <1>1 DEF ExclusiveAfter
  <2>3. QED  BY <2>1, <2>2 DEF Nowhere
<1>2. CASE a = NoAudit
  <2>1. ExclusiveAfter(c, a, s, x) = IF IsSessionAllowed(c) THEN UNASSIGNED ELSE x
    BY <1>2 DEF ExclusiveAfter
  <2>2. QED  BY <2>1 DEF Nowhere
<1>3. QED  BY <1>1, <1>2

(* A handler that hands over well-typed values leads to a well-typed state. *)
LEMMA CompleteType ==
    ASSUME NEW c, NEW a, NEW ended, NEW s, NEW x, NEW p, NEW d, NEW n, NEW kept,
           Arguments(c, a, s, x, p, d, n, kept),
           started \in [0 .. MaxCounter -> Nat],
           Complete(c, a, ended, s, x, p, d, n, kept)
    PROVE  /\ sessions' \in Sessions
           /\ exclusive' \in Nowhere
           /\ gp' \in Persistent
           /\ digest' \in Digests
           /\ nv' \in NvImages
           /\ done' \in Seq(Codes)
           /\ started' \in [0 .. MaxCounter -> Nat]
<1> USE AuditAssumption
<1>0. /\ c \in Codes /\ a \in Uses /\ s \in Sessions /\ x \in Nowhere
      /\ p \in Persistent /\ d \in Handed /\ n \in NvImages /\ kept \in Seq(Codes)
      /\ d.size = 1 => CommandAuditIsRequired(c, p)
  BY DEF Arguments
<1>1. sessions' \in Sessions
  <2>1. UpdateAuditSessionStatus(c, a, s) \in Sessions
    BY <1>0, StatusType
  <2>2. sessions' = EndSessions(a, ended, UpdateAuditSessionStatus(c, a, s))
    BY DEF Complete
  <2>3. QED  BY <2>1, <2>2, EndType
<1>2. exclusive' \in Nowhere
  BY <1>0, ExclusiveType DEF Complete
<1>3. Starts(c, p, d) => p.auditCounter + 1 \in 0 .. MaxCounter
  <2>1. p.auditCounter \in 0 .. MaxCounter
    BY <1>0 DEF Persistent
  <2>2. Starts(c, p, d) => p.auditCounter < MaxCounter
    BY DEF Complete
  <2>3. QED  BY <2>1, <2>2
<1>4. gp' \in Persistent
  <2>1. gp' = Bumped(c, p, d)
    BY DEF Complete
  <2>2. QED  BY <2>1, <1>0, <1>3 DEF Bumped, Persistent
<1>5. digest' \in Digests
  <2>1. digest' = CommandAudit(c, p, d)
    BY DEF Complete
  <2>2. CASE ~CommandAuditIsRequired(c, p)
    <3>1. digest' = d
      BY <2>1, <2>2 DEF CommandAudit
    <3>2. QED  BY <3>1, <2>2, <1>0 DEF Handed, Digests
  <2>3. CASE CommandAuditIsRequired(c, p) /\ d.size = 1
    <3>1. digest' = Empty
      BY <2>1, <2>3 DEF CommandAudit
    <3>2. QED  BY <3>1, EmptyType
  <2>4. CASE CommandAuditIsRequired(c, p) /\ d.size # 1
    <3>1. digest' = [size |-> HASH_SIZE, log |-> Append(d.log, c)]
      BY <2>1, <2>4 DEF CommandAudit
    <3>2. Append(d.log, c) \in Seq(Codes)
      BY <1>0 DEF Handed
    <3>3. QED  BY <3>1, <3>2 DEF Digests
  <2>5. QED  BY <2>2, <2>3, <2>4
<1>6. nv' \in NvImages
  <2>1. nv' = [n EXCEPT !.gp = Synced(c, p, d, n.gp),
                        !.sessions = [h \in Handles |-> Passed(c, n.sessions[h])]]
    BY DEF Complete
  <2>2. n.gp \in Persistent /\ n.digest \in Digests /\ n.sessions \in Sessions
    BY <1>0 DEF NvImages
  <2>3. Synced(c, p, d, n.gp) \in Persistent
    BY <2>2, <1>3 DEF Synced, Persistent
  <2>4. [h \in Handles |-> Passed(c, n.sessions[h])] \in Sessions
    BY <2>2, PassedType DEF Sessions
  <2>5. QED  BY <2>1, <2>2, <2>3, <2>4, <1>0, ZenonT(30) DEF NvImages
<1>7. done' \in Seq(Codes)
  BY <1>0 DEF Complete
<1>8. started' \in [0 .. MaxCounter -> Nat]
  BY <1>3 DEF Complete
<1>9. QED  BY <1>1, <1>2, <1>4, <1>5, <1>6, <1>7, <1>8

-----------------------------------------------------------------------------
(* The inductive invariant.                                                *)

(* What ExclusiveMeansAll says of a session table and an exclusive handle. *)
Exclusivity(s, x) ==
    \A h \in Handles :
        s[h].where # "absent" /\ s[h].isAudit
            => (x = h <=> s[h].audited = s[h].since)

Counts(s) == \A h \in Handles : s[h].audited <= s[h].since

(* Every audit session that a Restart or a Resume would bring back has     *)
(* missed a command: the Shutdown(STATE) itself, at least.                 *)
Behind(s) ==
    \A h \in Handles :
        s[h].where = "saved" /\ s[h].isAudit => s[h].audited < s[h].since

Match(d, log) == d.log = log /\ (d.size = 0 <=> log = <<>>)

(* TPM2_Shutdown() is never audited and a change of the list always is.    *)
Lists(commands) ==
    "Shutdown" \notin commands /\ "SetCommandCodeAuditStatus" \in commands

Numbering ==
    \A k \in 0 .. MaxCounter :
        started[k] <= 1 /\ (k > gp.auditCounter => started[k] = 0)

Off == /\ sessions = [h \in Handles |-> Absent]
       /\ exclusive = UNASSIGNED
       /\ digest = Empty

Logs ==
    ~AuditAfterShutdown =>
        /\ running => Match(digest, done)
        /\ gp.orderlyState = "STATE" => Match(nv.digest, done)

Inv ==
    /\ TypeOK
    /\ nv.gp = gp
    /\ Exclusivity(sessions, exclusive)
    /\ Counts(sessions)
    /\ Counts(nv.sessions)
    /\ gp.orderlyState = "STATE" => Behind(nv.sessions)
    /\ Lists(gp.auditCommands)
    /\ Numbering
    /\ ~running => Off
    /\ Logs

(* What the handler of a command hands to Complete in a state of Inv.      *)
Handler(c, a, s, x, p, d, n, kept) ==
    /\ Arguments(c, a, s, x, p, d, n, kept)
    /\ ~IsSessionAllowed(c) => a = NoAudit
    /\ n.gp = p
    /\ Exclusivity(s, x)
    /\ Counts(s)
    /\ Counts(n.sessions)
    /\ p.orderlyState = "STATE" => c = "Shutdown" \/ Behind(n.sessions)
    /\ Lists(p.auditCommands)
    /\ c = "Clear" \/ p.auditCounter = gp.auditCounter
    /\ ~AuditAfterShutdown =>
          /\ d.size = 1 => kept = <<>>
          /\ d.size # 1 => Match(d, kept)
          /\ p.orderlyState = "STATE" =>
                \/ c = "Shutdown" /\ n.digest = d /\ kept = done
                \/ /\ c \notin {"Startup", "Shutdown"}
                   /\ n.digest = nv.digest
                   /\ gp.orderlyState = "STATE"

LEMMA ExclusivityKept ==
    ASSUME NEW c, NEW a \in Uses, NEW ended, NEW s \in Sessions, NEW x \in Nowhere,
           ~IsSessionAllowed(c) => a = NoAudit, Exclusivity(s, x), Counts(s)
    PROVE  LET t == EndSessions(a, ended, UpdateAuditSessionStatus(c, a, s))
           IN  Exclusivity(t, ExclusiveAfter(c, a, s, x)) /\ Counts(t)
<1> DEFINE u == UpdateAuditSessionStatus(c, a, s)
           t == EndSessions(a, ended, u)
           y == ExclusiveAfter(c, a, s, x)
<1> SUFFICES ASSUME NEW h \in Handles
             PROVE  /\ t[h].audited <= t[h].since
                    /\ t[h].where # "absent" /\ t[h].isAudit
                          => (y = h <=> t[h].audited = t[h].since)
  BY DEF Exclusivity, Counts
<1>1. /\ s[h] \in Session
      /\ s[h].audited \in Nat /\ s[h].since \in Nat
      /\ s[h].audited <= s[h].since
  BY DEF Sessions, Session, Counts
<1>2. s[h].where # "absent" /\ s[h].isAudit => (x = h <=> s[h].audited = s[h].since)
  BY DEF Exclusivity
<1>3. h # UNASSIGNED
  BY AuditAssumption
<1>4. t[h] = Absent \/ t[h] = u[h]
  BY DEF EndSessions
<1>5. CASE t[h] = Absent
  BY <1>5 DEF Absent
<1>6. CASE t[h] = u[h] /\ h # a.handle
  <2>1. u[h] = Passed(c, s[h])
    BY <1>6, ZenonT(30) DEF UpdateAuditSessionStatus
  <2>2. CASE s[h].isAudit /\ IsSessionAllowed(c)
    <3>1. u[h] = [s[h] EXCEPT !.since = s[h].since + 1]
      BY <2>1, <2>2 DEF Passed
    <3>2. u[h].audited = s[h].audited /\ u[h].since = s[h].since + 1
      BY <3>1, <1>1 DEF Session
    <3>3. y # h
      <4>1. CASE a = NoAudit
        <5>1. y = UNASSIGNED
          BY <4>1, <2>2 DEF ExclusiveAfter
        <5>2. QED  BY <5>1, <1>3
      <4>2. CASE a # NoAudit
        <5>1. y \in {a.handle, UNASSIGNED}
          BY <4>2 DEF ExclusiveAfter
        <5>2. QED  BY <5>1, <1>3, <1>6
      <4>3. QED  BY <4>1, <4>2
    <3>4. QED  BY <3>2, <3>3, <1>1, <1>6
  <2>3. CASE ~(s[h].isAudit /\ IsSessionAllowed(c))
    <3>1. u[h] = s[h]
      BY <2>1, <2>3 DEF Passed
    <3>2. CASE ~s[h].isAudit
      BY <3>1, <3>2, <1>1, <1>6
    <3>3. CASE s[h].isAudit /\ ~IsSessionAllowed(c) /\ a = NoAudit
      <4>1. y = x
        BY <3>3 DEF ExclusiveAfter
      <4>2. QED  BY <4>1, <3>1, <1>1, <1>2, <1>6
    <3>4. QED  BY <3>1, <3>2, <3>3, <2>3
  <2>4. QED  BY <2>2, <2>3
<1>7. CASE t[h] = u[h] /\ h = a.handle
  <2>0. a # NoAudit
    BY <1>7, <1>3, UsesType, ZenonT(30)
  <2>1. CASE Begins(a, s)
    <3>1. u[h] = [s[h] EXCEPT !.isAudit = TRUE, !.audited = 1, !.since = 1]
      BY <1>7, <2>1, ZenonT(30) DEF UpdateAuditSessionStatus
    <3>2. u[h].audited = 1 /\ u[h].since = 1
      BY <3>1, <1>1 DEF Session
    <3>3. y = h
      BY <2>0, <2>1, <1>7 DEF ExclusiveAfter
    <3>4. QED  BY <3>2, <3>3, <1>7
  <2>2. CASE ~Begins(a, s)
    <3>1. u[h] = [s[h] EXCEPT !.audited = s[h].audited + 1, !.since = s[h].since + 1]
      BY <1>7, <2>2, ZenonT(30) DEF UpdateAuditSessionStatus
    <3>2. /\ u[h].audited = s[h].audited + 1 /\ u[h].since = s[h].since + 1
          /\ u[h].where = s[h].where
      BY <3>1, <1>1 DEF Session
    <3>3. y = IF x = h THEN h ELSE UNASSIGNED
      BY <2>0, <2>2, <1>7 DEF ExclusiveAfter
    <3>4. s[h].isAudit
      BY <2>2, <1>7 DEF Begins
    <3>5. QED  BY <3>2, <3>3, <3>4, <1>1, <1>2, <1>3, <1>7
  <2>3. QED  BY <2>1, <2>2
<1>8. QED  BY <1>4, <1>5, <1>6, <1>7

LEMMA PassedCounts ==
    ASSUME NEW c, NEW s \in Sessions, Counts(s)
    PROVE  LET t == [h \in Handles |-> Passed(c, s[h])]
           IN  /\ Counts(t)
               /\ Behind(s) => Behind(t)
               /\ IsSessionAllowed(c) => Behind(t)
<1> DEFINE t == [h \in Handles |-> Passed(c, s[h])]
<1>1. ASSUME NEW h \in Handles
      PROVE  /\ t[h].where = s[h].where /\ t[h].isAudit = s[h].isAudit
             /\ t[h].audited = s[h].audited
             /\ s[h].audited \in Nat /\ s[h].since \in Nat
             /\ s[h].audited <= s[h].since
             /\ t[h].since = IF s[h].isAudit /\ IsSessionAllowed(c)
                             THEN s[h].since + 1 ELSE s[h].since
  <2>1. s[h] \in Session /\ s[h].audited <= s[h].since
    BY DEF Sessions, Counts
  <2>2. t[h] = Passed(c, s[h])
    OBVIOUS
  <2>3. QED  BY <2>1, <2>2 DEF Passed, Session
<1> HIDE DEF t
<1>2. QED  BY <1>1 DEF Counts, Behind, t

(* Complete preserves the invariant for every handler that hands it what   *)
(* Handler says.                                                           *)
LEMMA HandlerKeeps ==
    ASSUME NEW c, NEW a, NEW ended, NEW s, NEW x, NEW p, NEW d, NEW n, NEW kept,
           Inv, Handler(c, a, s, x, p, d, n, kept),
           Complete(c, a, ended, s, x, p, d, n, kept), running' = TRUE
    PROVE  Inv'
<1> USE AuditAssumption
<1>0. /\ c \in Codes /\ a \in Uses /\ s \in Sessions /\ x \in Nowhere
      /\ p \in Persistent /\ d \in Handed /\ n \in NvImages /\ kept \in Seq(Codes)
      /\ Arguments(c, a, s, x, p, d, n, kept)
  BY DEF Handler, Arguments
<1>1. TypeOK'
  <2>1. started \in [0 .. MaxCounter -> Nat]
    BY DEF Inv, TypeOK
  <2>2. /\ sessions' \in Sessions /\ exclusive' \in Nowhere /\ gp' \in Persistent
        /\ digest' \in Digests /\ nv' \in NvImages /\ done' \in Seq(Codes)
        /\ started' \in [0 .. MaxCounter -> Nat]
    BY <1>0, <2>1, CompleteType
  <2>3. QED  BY <2>2 DEF TypeOK, Nowhere, NvImages
<1>2. nv'.gp = gp' /\ nv'.digest = n.digest
      /\ nv'.sessions = [h \in Handles |-> Passed(c, n.sessions[h])]
  <2>1. nv' = [n EXCEPT !.gp = Synced(c, p, d, n.gp),
                        !.sessions = [h \in Handles |-> Passed(c, n.sessions[h])]]
    BY DEF Complete
  <2>2. nv'.gp = Synced(c, p, d, n.gp) /\ nv'.digest = n.digest
        /\ nv'.sessions = [h \in Handles |-> Passed(c, n.sessions[h])]
    BY <2>1, <1>0 DEF NvImages
  <2>3. n.gp = p /\ gp' = Bumped(c, p, d)
    BY DEF Handler, Complete
  <2>4. Synced(c, p, d, p) = Bumped(c, p, d)
    BY DEF Synced, Bumped
  <2>5. QED  BY <2>2, <2>3, <2>4
<1>3. Exclusivity(sessions, exclusive)' /\ Counts(sessions)'
  <2>1. /\ sessions' = EndSessions(a, ended, UpdateAuditSessionStatus(c, a, s))
        /\ exclusive' = ExclusiveAfter(c, a, s, x)
    BY DEF Complete
  <2>2. /\ ~IsSessionAllowed(c) => a = NoAudit
        /\ Exclusivity(s, x) /\ Counts(s)
    BY DEF Handler
  <2>3. Exclusivity(sessions', exclusive') /\ Counts(sessions')
    BY <1>0, <2>1, <2>2, ExclusivityKept
  <2>4. QED  BY <2>3 DEF Exclusivity, Counts
<1>4. gp'.orderlyState = p.orderlyState /\ gp'.auditCommands = p.auditCommands
      /\ gp'.auditCounter = IF Starts(c, p, d) THEN p.auditCounter + 1
                                               ELSE p.auditCounter
  BY <1>0 DEF Complete, Bumped, Persistent
<1>5. Counts(nv.sessions)' /\ (gp.orderlyState = "STATE" => Behind(nv.sessions))'
  <2>1. n.sessions \in Sessions /\ Counts(n.sessions)
    BY <1>0 DEF NvImages, Handler
  <2>2. /\ Counts(nv'.sessions)
        /\ Behind(n.sessions) => Behind(nv'.sessions)
        /\ IsSessionAllowed(c) => Behind(nv'.sessions)
    BY <1>2, <2>1, PassedCounts
  <2>3. gp'.orderlyState = "STATE" => c = "Shutdown" \/ Behind(n.sessions)
    BY <1>4 DEF Handler
  <2>4. c = "Shutdown" => IsSessionAllowed(c)
    BY DEF IsSessionAllowed, NoSessions
  <2>5. QED  BY <2>2, <2>3, <2>4 DEF Counts, Behind
<1>6. Lists(gp.auditCommands)'
  BY <1>4 DEF Handler, Lists
<1>7. Numbering'
  <2> DEFINE base == IF c = "Clear" THEN [i \in 0 .. MaxCounter |-> 0] ELSE started
  <2>1. /\ base \in [0 .. MaxCounter -> Nat]
        /\ p.auditCounter \in 0 .. MaxCounter
        /\ \A k \in 0 .. MaxCounter :
              base[k] <= 1 /\ (k > p.auditCounter => base[k] = 0)
    <3>1. started \in [0 .. MaxCounter -> Nat] /\ Numbering
      BY DEF Inv, TypeOK
    <3>2. p.auditCounter \in 0 .. MaxCounter
      BY <1>0 DEF Persistent
    <3>3. CASE c = "Clear"
      BY <3>2, <3>3
    <3>4. CASE c # "Clear"
      <4>1. p.auditCounter = gp.auditCounter
        BY <3>4 DEF Handler
      <4>2. QED  BY <3>1, <3>2, <3>4, <4>1 DEF Numbering
    <3>5. QED  BY <3>3, <3>4
  <2>2. started' = IF Starts(c, p, d)
                   THEN [base EXCEPT ![p.auditCounter + 1] = base[p.auditCounter + 1] + 1]
                   ELSE base
    BY DEF Complete
  <2>3. Starts(c, p, d) => p.auditCounter < MaxCounter
    BY DEF Complete
  <2> HIDE DEF base
  <2>4. QED  BY <1>4, <2>1, <2>2, <2>3 DEF Numbering
<1>8. Logs'
  <2> SUFFICES ASSUME ~AuditAfterShutdown
               PROVE  /\ Match(digest', done')
                      /\ gp'.orderlyState = "STATE" => Match(nv'.digest, done')
    BY DEF Logs, Match
  <2>1. /\ d.size = 1 => kept = <<>>
        /\ d.size # 1 => Match(d, kept)
        /\ p.orderlyState = "STATE" =>
                \/ c = "Shutdown" /\ n.digest = d /\ kept = done
                \/ /\ c \notin {"Startup", "Shutdown"}
                   /\ n.digest = nv.digest
                   /\ gp.orderlyState = "STATE"
    BY DEF Handler
  <2>2. /\ digest' = CommandAudit(c, p, d)
        /\ done' = IF CommandAuditIsRequired(c, p) /\ d.size # 1
                   THEN Append(kept, c) ELSE kept
        /\ \/ c \in {"Shutdown", "Startup"}
           \/ p.orderlyState # "STATE"
           \/ ~CommandAuditIsRequired(c, p) /\ kept = done
    BY DEF Complete
  <2>3. d.size = 1 => CommandAuditIsRequired(c, p)
    BY <1>0 DEF Arguments
  <2>4. Match(digest', done')
    <3>1. CASE ~CommandAuditIsRequired(c, p)
      <4>1. digest' = d
        BY <2>2, <3>1 DEF CommandAudit
      <4>2. QED  BY <4>1, <2>1, <2>2, <2>3, <3>1, ZenonT(30)
    <3>2. CASE CommandAuditIsRequired(c, p) /\ d.size = 1
      <4>1. digest' = Empty
        BY <2>2, <3>2 DEF CommandAudit
      <4>2. QED  BY <4>1, <2>1, <2>2, <3>2 DEF Match, Empty
    <3>3. CASE CommandAuditIsRequired(c, p) /\ d.size # 1
      <4>1. digest' = [size |-> HASH_SIZE, log |-> Append(d.log, c)]
        BY <2>2, <3>3 DEF CommandAudit
      <4>2. done' = Append(d.log, c)
        BY <2>1, <2>2, <3>3 DEF Match
      <4>3. Append(d.log, c) # <<>>
        <5>1. d.log \in Seq(Codes)
          BY <1>0 DEF Handed
        <5>2. Len(Append(d.log, c)) = Len(d.log) + 1 /\ Len(d.log) \in Nat
          BY <5>1, <1>0
        <5>3. Len(<<>>) = 0
          OBVIOUS
        <5>4. QED  BY <5>2, <5>3
      <4>4. QED  BY <4>1, <4>2, <4>3 DEF Match, HASH_SIZE
    <3>4. QED  BY <3>1, <3>2, <3>3
  <2>5. ASSUME gp'.orderlyState = "STATE" PROVE Match(nv'.digest, done')
    <3>1. p.orderlyState = "STATE" /\ nv'.digest = n.digest
      BY <1>2, <1>4, <2>5
    <3>2. CASE c = "Shutdown" /\ n.digest = d /\ kept = done
      <4>1. ~CommandAuditIsRequired(c, p)
        BY <3>2 DEF CommandAuditIsRequired, Handler, Lists
      <4>2. digest' = d
        BY <2>2, <4>1 DEF CommandAudit
      <4>3. QED  BY <2>4, <3>1, <3>2, <4>2
    <3>3. CASE /\ c \notin {"Startup", "Shutdown"}
               /\ n.digest = nv.digest
               /\ gp.orderlyState = "STATE"
      <4>1. ~CommandAuditIsRequired(c, p) /\ kept = done
        BY <2>2, <3>1, <3>3
      <4>2. Match(nv.digest, done)
        BY <3>3 DEF Inv, Logs
      <4>3. QED  BY <2>2, <3>1, <3>3, <4>1, <4>2
    <3>4. QED  BY <2>1, <3>1, <3>2, <3>3
  <2>6. QED  BY <2>4, <2>5
<1>9. QED
  BY <1>1, <1>2, <1>3, <1>5, <1>6, <1>7, <1>8 DEF Inv

-----------------------------------------------------------------------------
(* What each handler hands over.                                           *)

LEMMA InvTypes ==
    ASSUME Inv
    PROVE  /\ sessions \in Sessions /\ exclusive \in Nowhere /\ gp \in Persistent
           /\ digest \in Digests /\ digest \in Handed /\ digest.size # 1
           /\ nv \in NvImages /\ nv.gp = gp /\ nv.sessions \in Sessions
           /\ nv.digest \in Digests /\ nv.digest \in Handed /\ nv.digest.size # 1
           /\ done \in Seq(Codes) /\ <<>> \in Seq(Codes)
BY EmptyType DEF Inv, TypeOK, Nowhere, NvImages, Digests, HASH_SIZE

(* A handler that changes only the session table, the exclusive handle or  *)
(* the standing of a Shutdown.                                             *)
LEMMA SessionHandler ==
    ASSUME Inv, running = TRUE, NEW c \in Codes \ {"Startup", "Shutdown"},
           NEW a \in Uses, ~IsSessionAllowed(c) => a = NoAudit,
           NEW s \in Sessions, NEW x \in Nowhere, Exclusivity(s, x), Counts(s)
    PROVE  /\ Handler(c, a, s, x, gp, digest, nv, done)
           /\ Handler(c, a, s, x, Voided(gp), digest,
                      [nv EXCEPT !.gp = Voided(gp)], done)
<1>1. /\ gp \in Persistent /\ nv \in NvImages /\ nv.gp = gp
      /\ digest \in Handed /\ digest.size # 1 /\ done \in Seq(Codes)
  BY InvTypes
<1>2. /\ Counts(nv.sessions)
      /\ gp.orderlyState = "STATE" => Behind(nv.sessions)
      /\ Lists(gp.auditCommands)
      /\ ~AuditAfterShutdown => Match(digest, done)
  BY DEF Inv, Logs
<1>3. Handler(c, a, s, x, gp, digest, nv, done)
  BY <1>1, <1>2 DEF Handler, Arguments
<1>4. /\ Voided(gp) \in Persistent /\ Voided(gp).orderlyState = "NONE"
      /\ Voided(gp).auditCommands = gp.auditCommands
      /\ Voided(gp).auditCounter = gp.auditCounter
  BY <1>1 DEF Voided, Persistent
<1>5. /\ [nv EXCEPT !.gp = Voided(gp)] \in NvImages
      /\ [nv EXCEPT !.gp = Voided(gp)].gp = Voided(gp)
      /\ [nv EXCEPT !.gp = Voided(gp)].sessions = nv.sessions
  BY <1>1, <1>4 DEF NvImages
<1>6. Handler(c, a, s, x, Voided(gp), digest, [nv EXCEPT !.gp = Voided(gp)], done)
  BY <1>1, <1>2, <1>4, <1>5 DEF Handler, Arguments
<1>7. QED  BY <1>3, <1>6

LEMMA TableTypes ==
    ASSUME Inv, NEW h \in Handles
    PROVE  /\ Exclusivity(sessions, exclusive) /\ Counts(sessions)
           /\ LET t == [sessions EXCEPT ![h] = Absent]
                  y == IF exclusive = h THEN UNASSIGNED ELSE exclusive
              IN  t \in Sessions /\ y \in Nowhere /\ Exclusivity(t, y) /\ Counts(t)
           /\ LET t == [sessions EXCEPT ![h] = [Absent EXCEPT !.where = "loaded"]]
              IN  t \in Sessions /\ Exclusivity(t, exclusive) /\ Counts(t)
           /\ LET t == [sessions EXCEPT ![h].where = "saved"]
              IN  /\ t \in Sessions /\ Counts(t)
                  /\ sessions[h].where # "absent" => Exclusivity(t, exclusive)
           /\ LET t == [sessions EXCEPT ![h].where = "loaded"]
              IN  /\ t \in Sessions /\ Counts(t)
                  /\ sessions[h].where # "absent" => Exclusivity(t, exclusive)
<1>1. /\ sessions \in Sessions /\ exclusive \in Nowhere
      /\ Exclusivity(sessions, exclusive) /\ Counts(sessions)
  BY InvTypes DEF Inv
<1>2. Absent \in Session /\ [Absent EXCEPT !.where = "loaded"] \in Session
  BY ZenonT(30) DEF Absent, Session
<1>3. LET t == [sessions EXCEPT ![h] = Absent]
          y == IF exclusive = h THEN UNASSIGNED ELSE exclusive
      IN  t \in Sessions /\ y \in Nowhere /\ Exclusivity(t, y) /\ Counts(t)
  BY <1>1, <1>2, AuditAssumption DEF Sessions, Nowhere, Exclusivity, Counts, Absent
<1>4. LET t == [sessions EXCEPT ![h] = [Absent EXCEPT !.where = "loaded"]]
      IN  t \in Sessions /\ Exclusivity(t, exclusive) /\ Counts(t)
  BY <1>1, <1>2 DEF Sessions, Exclusivity, Counts, Absent
<1>5. ASSUME NEW w \in {"saved", "loaded"}
      PROVE  LET t == [sessions EXCEPT ![h].where = w]
             IN  /\ t \in Sessions /\ Counts(t)
                 /\ sessions[h].where # "absent" => Exclusivity(t, exclusive)
  <2> DEFINE t == [sessions EXCEPT ![h].where = w]
  <2>1. \A g \in Handles : sessions[g] \in Session
    BY <1>1 DEF Sessions
  <2>2. ASSUME NEW g \in Handles
        PROVE  /\ t[g] \in Session
               /\ t[g].isAudit = sessions[g].isAudit
               /\ t[g].audited = sessions[g].audited
               /\ t[g].since = sessions[g].since
               /\ t[g].where = IF g = h THEN w ELSE sessions[g].where
    <3>1. t[g] = IF g = h THEN [sessions[h] EXCEPT !.where = w] ELSE sessions[g]
      BY <1>1 DEF Sessions
    <3>2. QED  BY <3>1, <2>1 DEF Session
  <2>3. t = [g \in Handles |-> t[g]]
    BY <1>1, ZenonT(30) DEF Sessions
  <2>4. t \in Sessions
    BY <2>2, <2>3, ZenonT(30) DEF Sessions
  <2> HIDE DEF t
  <2>5. Counts(t) /\ (sessions[h].where # "absent" => Exclusivity(t, exclusive))
    BY <1>1, <2>2 DEF Counts, Exclusivity
  <2>6. QED  BY <2>4, <2>5 DEF t
<1>6. QED  BY <1>1, <1>3, <1>4, <1>5

LEMMA SamePersistent ==
    ASSUME NEW f \in Persistent, NEW g \in Persistent,
           f.auditCommands = g.auditCommands, f.auditHashAlg = g.auditHashAlg,
           f.auditCounter = g.auditCounter, f.orderlyState = g.orderlyState
    PROVE  f = g
BY DEF Persistent

LEMMA StatusHandler ==
    ASSUME Inv, running = TRUE, NEW a \in Uses, NEW ended,
           NEW alg \in Algs, NEW setList \in SUBSET Codes,
           NEW clearList \in SUBSET Codes,
           SetCommandCodeAuditStatus(alg, setList, clearList, a, ended)
    PROVE  Inv'
<1> DEFINE rehash   == alg # gp.auditHashAlg
           commands == CommandAuditClear(CommandAuditSet(gp.auditCommands, setList),
                                         clearList)
           p == IF rehash THEN [gp EXCEPT !.auditHashAlg = alg]
                          ELSE [gp EXCEPT !.auditCommands = commands]
           d == IF rehash THEN [size |-> 1, log |-> <<>>] ELSE digest
           n == [nv EXCEPT !.gp.auditHashAlg = p.auditHashAlg,
                           !.gp.auditCommands = p.auditCommands]
           kept == IF rehash THEN <<>> ELSE done
           c == "SetCommandCodeAuditStatus"
<1>1. /\ gp \in Persistent /\ nv \in NvImages /\ nv.gp = gp
      /\ digest \in Handed /\ digest.size # 1 /\ done \in Seq(Codes)
      /\ <<>> \in Seq(Codes) /\ sessions \in Sessions /\ exclusive \in Nowhere
  BY InvTypes
<1>2. /\ Exclusivity(sessions, exclusive) /\ Counts(sessions)
      /\ Counts(nv.sessions)
      /\ gp.orderlyState = "STATE" => Behind(nv.sessions)
      /\ Lists(gp.auditCommands)
      /\ ~AuditAfterShutdown => Match(digest, done)
  BY DEF Inv, Logs
<1>3. Complete(c, a, ended, sessions, exclusive, p, d, n, kept)
  BY DEF SetCommandCodeAuditStatus
<1>4. running' = TRUE
  BY DEF SetCommandCodeAuditStatus
<1>5. commands \in SUBSET Codes /\ Lists(commands)
  BY <1>1, <1>2 DEF CommandAuditClear, CommandAuditSet, Persistent, Lists
<1>6. /\ p \in Persistent /\ Lists(p.auditCommands)
      /\ p.auditCounter = gp.auditCounter /\ p.orderlyState = gp.orderlyState
  BY <1>1, <1>2, <1>5 DEF Persistent
<1>7. /\ n \in NvImages /\ n.gp = p
      /\ n.sessions = nv.sessions /\ n.digest = nv.digest
  <2>1. p.auditHashAlg \in Algs /\ p.auditCommands \in SUBSET Codes
    BY <1>6 DEF Persistent
  <2> HIDE DEF p
  <2>2. nv.gp \in Persistent
    BY <1>1
  <2>3. [nv.gp EXCEPT !.auditHashAlg = p.auditHashAlg,
                     !.auditCommands = p.auditCommands] = p
    <3> DEFINE f == [nv.gp EXCEPT !.auditHashAlg = p.auditHashAlg,
                                  !.auditCommands = p.auditCommands]
    <3>1. /\ f \in Persistent
          /\ f.auditHashAlg = p.auditHashAlg /\ f.auditCommands = p.auditCommands
          /\ f.auditCounter = nv.gp.auditCounter
          /\ f.orderlyState = nv.gp.orderlyState
      BY <2>1, <2>2, ZenonT(30) DEF Persistent
    <3> HIDE DEF f
    <3>2. /\ f.auditCounter = p.auditCounter /\ f.orderlyState = p.orderlyState
          /\ p \in Persistent
      BY <1>1, <1>6, <3>1
    <3>3. f = p
      BY <3>1, <3>2, SamePersistent
    <3>4. QED  BY <3>3 DEF f
  <2>4. n = [nv EXCEPT !.gp = [nv.gp EXCEPT !.auditHashAlg = p.auditHashAlg,
                                           !.auditCommands = p.auditCommands]]
    BY <1>1, ZenonT(30) DEF NvImages
  <2>5. n = [nv EXCEPT !.gp = p]
    BY <2>3, <2>4
  <2> HIDE DEF n
  <2>6. QED  BY <1>1, <1>6, <2>5 DEF NvImages
<1>8. /\ d \in Handed /\ kept \in Seq(Codes)
      /\ d.size = 1 => kept = <<>>
      /\ ~AuditAfterShutdown /\ d.size # 1 => Match(d, kept)
  <2>1. CASE rehash
    <3>1. d = [size |-> 1, log |-> <<>>] /\ kept = <<>>
      BY <2>1
    <3>2. QED  BY <3>1, <1>1 DEF Handed
  <2>2. CASE ~rehash
    BY <2>2, <1>1, <1>2
  <2>3. QED  BY <2>1, <2>2
<1>9. c \in Codes /\ CommandAuditIsRequired(c, p) /\ IsSessionAllowed(c)
  BY <1>6, CodesAreCodes DEF CommandAuditIsRequired, IsSessionAllowed, NoSessions, Lists
<1> HIDE DEF p, d, n, kept
<1>10. Handler(c, a, sessions, exclusive, p, d, n, kept)
  BY <1>1, <1>2, <1>6, <1>7, <1>8, <1>9 DEF Handler, Arguments
<1>11. QED  BY <1>3, <1>4, <1>10, HandlerKeeps

LEMMA DigestHandler ==
    ASSUME Inv, running = TRUE, NEW a \in Uses, NEW ended,
           NEW signed \in BOOLEAN, GetCommandAuditDigest(signed, a, ended)
    PROVE  Inv'
<1> DEFINE c == "GetCommandAuditDigest"
           d == IF signed THEN Empty ELSE digest
           kept == IF signed THEN <<>> ELSE done
<1>1. /\ gp \in Persistent /\ nv \in NvImages /\ nv.gp = gp
      /\ digest \in Handed /\ digest.size # 1 /\ done \in Seq(Codes)
      /\ <<>> \in Seq(Codes) /\ sessions \in Sessions /\ exclusive \in Nowhere
  BY InvTypes
<1>2. /\ Exclusivity(sessions, exclusive) /\ Counts(sessions)
      /\ Counts(nv.sessions)
      /\ gp.orderlyState = "STATE" => Behind(nv.sessions)
      /\ Lists(gp.auditCommands)
      /\ ~AuditAfterShutdown => Match(digest, done)
  BY DEF Inv, Logs
<1>3. /\ Complete(c, a, ended, sessions, exclusive, gp, d, nv, kept)
      /\ running' = TRUE
  BY DEF GetCommandAuditDigest
<1>4. /\ d \in Handed /\ d.size # 1 /\ kept \in Seq(Codes)
      /\ ~AuditAfterShutdown => Match(d, kept)
  BY <1>1, <1>2, EmptyType DEF Empty, Match
<1>5. c \in Codes /\ IsSessionAllowed(c)
  BY CodesAreCodes DEF IsSessionAllowed, NoSessions
<1> HIDE DEF d, kept
<1>6. Handler(c, a, sessions, exclusive, gp, d, nv, kept)
  BY <1>1, <1>2, <1>4, <1>5 DEF Handler, Arguments
<1>7. QED  BY <1>3, <1>6, HandlerKeeps

LEMMA ClearHandler ==
    ASSUME Inv, running = TRUE, NEW a \in Uses, NEW ended, Clear(a, ended)
    PROVE  Inv'
<1> DEFINE c == "Clear"
           p == Voided([gp EXCEPT !.auditCounter = 0])
           n == [nv EXCEPT !.gp = p]
<1>1. /\ gp \in Persistent /\ nv \in NvImages /\ nv.gp = gp
      /\ digest \in Handed /\ digest.size # 1 /\ done \in Seq(Codes)
      /\ sessions \in Sessions /\ exclusive \in Nowhere
  BY InvTypes
<1>2. /\ Exclusivity(sessions, exclusive) /\ Counts(sessions)
      /\ Counts(nv.sessions)
      /\ Lists(gp.auditCommands)
      /\ ~AuditAfterShutdown => Match(digest, done)
  BY DEF Inv, Logs
<1>3. Complete(c, a, ended, sessions, exclusive, p, digest, n, done) /\ running' = TRUE
  BY DEF Clear
<1>4. /\ p \in Persistent /\ p.orderlyState = "NONE"
      /\ p.auditCommands = gp.auditCommands
  <2> DEFINE q == [gp EXCEPT !.auditCounter = 0]
  <2>1. q \in Persistent /\ q.auditCommands = gp.auditCommands
    BY <1>1, AuditAssumption DEF Persistent
  <2> HIDE DEF q
  <2>2. /\ Voided(q) \in Persistent /\ Voided(q).orderlyState = "NONE"
        /\ Voided(q).auditCommands = q.auditCommands
    BY <2>1 DEF Persistent, Voided
  <2>3. QED  BY <2>1, <2>2 DEF q
<1> HIDE DEF p
<1>5. n \in NvImages /\ n.gp = p /\ n.sessions = nv.sessions
  BY <1>1, <1>4 DEF NvImages
<1>6. c \in Codes /\ IsSessionAllowed(c)
  BY CodesAreCodes DEF IsSessionAllowed, NoSessions
<1> HIDE DEF n
<1>7. Handler(c, a, sessions, exclusive, p, digest, n, done)
  BY <1>1, <1>2, <1>4, <1>5, <1>6 DEF Handler, Arguments
<1>8. QED  BY <1>3, <1>7, HandlerKeeps

LEMMA ShutdownHandler ==
    ASSUME Inv, running = TRUE, NEW a \in Uses, NEW ended,
           NEW type \in {"CLEAR", "STATE"}, Shutdown(type, a, ended)
    PROVE  Inv'
<1> DEFINE c == "Shutdown"
           p == [gp EXCEPT !.orderlyState = type]
           m == [nv EXCEPT !.gp.orderlyState = type]
           n == IF type = "STATE"
                THEN [m EXCEPT !.digest = digest, !.sessions = sessions] ELSE m
<1>1. /\ gp \in Persistent /\ nv \in NvImages /\ nv.gp = gp /\ digest \in Digests
      /\ digest \in Handed /\ digest.size # 1 /\ done \in Seq(Codes)
      /\ sessions \in Sessions /\ exclusive \in Nowhere
  BY InvTypes
<1>2. /\ Exclusivity(sessions, exclusive) /\ Counts(sessions)
      /\ Counts(nv.sessions)
      /\ Lists(gp.auditCommands)
      /\ ~AuditAfterShutdown => Match(digest, done)
  BY DEF Inv, Logs
<1>3. Complete(c, a, ended, sessions, exclusive, p, digest, n, done) /\ running' = TRUE
  BY DEF Shutdown
<1>4. /\ p \in Persistent /\ p.orderlyState = type
      /\ p.auditCommands = gp.auditCommands /\ p.auditCounter = gp.auditCounter
  BY <1>1 DEF Persistent
<1>5. m = [nv EXCEPT !.gp = p]
  BY <1>1 DEF NvImages
<1> HIDE DEF p, m
<1>6. m \in NvImages /\ m.gp = p /\ m.sessions = nv.sessions
  BY <1>1, <1>4, <1>5 DEF NvImages
<1>7. /\ n \in NvImages /\ n.gp = p /\ Counts(n.sessions)
      /\ type = "STATE" => n.digest = digest
  BY <1>1, <1>2, <1>6, ZenonT(30) DEF NvImages
<1>8. c \in Codes /\ IsSessionAllowed(c)
  BY CodesAreCodes DEF IsSessionAllowed, NoSessions
<1> HIDE DEF n
<1>9. Handler(c, a, sessions, exclusive, p, digest, n, done)
  BY <1>1, <1>2, <1>4, <1>7, <1>8 DEF Handler, Arguments
<1>10. QED  BY <1>3, <1>9, HandlerKeeps

LEMMA StartupHandler ==
    ASSUME Inv, NEW type \in {"CLEAR", "STATE"}, Startup(type)
    PROVE  Inv'
<1> DEFINE keep == gp.orderlyState = "STATE"
           c == "Startup"
           p == Voided(gp)
           s == IF keep THEN SessionStartup(nv.sessions) ELSE sessions
           d == IF keep THEN nv.digest ELSE Empty
           n == [nv EXCEPT !.gp = Voided(nv.gp)]
           kept == IF keep THEN done ELSE <<>>
<1>1. /\ gp \in Persistent /\ nv \in NvImages /\ nv.gp = gp
      /\ nv.digest \in Handed /\ nv.digest.size # 1 /\ done \in Seq(Codes)
      /\ <<>> \in Seq(Codes) /\ sessions \in Sessions /\ exclusive \in Nowhere
      /\ nv.sessions \in Sessions
  BY InvTypes
<1>2. /\ Exclusivity(sessions, exclusive) /\ Counts(sessions)
      /\ Counts(nv.sessions)
      /\ keep => Behind(nv.sessions)
      /\ Lists(gp.auditCommands)
      /\ ~AuditAfterShutdown /\ keep => Match(nv.digest, done)
  BY DEF Inv, Logs
<1>3. /\ Complete(c, NoAudit, {}, s, exclusive, p, d, n, kept)
      /\ running' = TRUE /\ ~running
  BY DEF Startup
<1>4. exclusive = UNASSIGNED
  BY <1>3 DEF Inv, Off
<1>5. /\ p \in Persistent /\ p.orderlyState = "NONE"
      /\ p.auditCommands = gp.auditCommands /\ p.auditCounter = gp.auditCounter
  BY <1>1 DEF Persistent, Voided
<1>6. n \in NvImages /\ n.gp = p /\ n.sessions = nv.sessions
  BY <1>1, <1>5 DEF NvImages
<1>7. /\ d \in Handed /\ d.size # 1 /\ kept \in Seq(Codes)
      /\ ~AuditAfterShutdown => Match(d, kept)
  BY <1>1, <1>2, EmptyType DEF Empty, Match
<1>8. s \in Sessions /\ Counts(s) /\ Exclusivity(s, exclusive)
  <2>1. CASE ~keep
    BY <2>1, <1>1, <1>2
  <2>2. CASE keep
    <3> DEFINE r == SessionStartup(nv.sessions)
    <3>1. ASSUME NEW h \in Handles
          PROVE  /\ r[h] \in Session
                 /\ r[h].audited <= r[h].since
                 /\ r[h].where # "absent" /\ r[h].isAudit => r[h].audited # r[h].since
      <4>1. r[h] = IF nv.sessions[h].where = "saved" THEN nv.sessions[h] ELSE Absent
        BY DEF SessionStartup
      <4>2. CASE nv.sessions[h].where = "saved"
        <5>1. /\ nv.sessions[h] \in Session
              /\ nv.sessions[h].audited \in Nat /\ nv.sessions[h].since \in Nat
          BY <1>1 DEF Sessions, Session
        <5>2. nv.sessions[h].audited <= nv.sessions[h].since
          BY <1>2 DEF Counts
        <5>3. nv.sessions[h].isAudit => nv.sessions[h].audited < nv.sessions[h].since
          BY <1>2, <2>2, <4>2 DEF Behind
        <5>4. QED  BY <4>1, <4>2, <5>1, <5>2, <5>3
      <4>3. CASE nv.sessions[h].where # "saved"
        BY <4>1, <4>3, AbsentType DEF Absent
      <4>4. QED  BY <4>2, <4>3
    <3>2. r = [h \in Handles |-> r[h]]
      BY DEF SessionStartup
    <3>3. s = r
      BY <2>2
    <3> HIDE DEF r
    <3>4. \A h \in Handles : exclusive # h
      BY <1>4, AuditAssumption
    <3>5. QED  BY <3>1, <3>2, <3>3, <3>4 DEF Sessions, Counts, Exclusivity
  <2>3. QED  BY <2>1, <2>2
<1>9. c \in Codes /\ NoAudit \in Uses
  BY CodesAreCodes DEF Uses
<1> HIDE DEF p, s, d, n, kept
<1>10. Handler(c, NoAudit, s, exclusive, p, d, n, kept)
  BY <1>1, <1>2, <1>5, <1>6, <1>7, <1>8, <1>9 DEF Handler, Arguments
<1>11. QED  BY <1>3, <1>10, HandlerKeeps

-----------------------------------------------------------------------------

LEMMA InvInit == Init => Inv
<1> SUFFICES ASSUME Init PROVE Inv
  OBVIOUS
<1> USE AuditAssumption
<1>1. gp \in Persistent /\ gp.auditCommands = {"SetCommandCodeAuditStatus"}
      /\ gp.orderlyState = "NONE" /\ gp.auditCounter = 0
  BY CodesAreCodes DEF Init, Persistent
<1>2. nv.gp = gp /\ nv.digest = Empty /\ nv.sessions = sessions
  BY DEF Init
<1>3. sessions \in Sessions /\ \A h \in Handles : sessions[h] = Absent
  BY AbsentType DEF Init, Sessions
<1>4. nv \in NvImages
  <2>1. nv = [gp |-> gp, digest |-> Empty, sessions |-> sessions]
    BY DEF Init
  <2>2. QED  BY <1>1, <1>3, <2>1, EmptyType DEF NvImages
<1>5. TypeOK
  <2>1. /\ running \in BOOLEAN /\ exclusive \in Handles \cup {UNASSIGNED}
        /\ digest \in Digests
    BY EmptyType, ZenonT(30) DEF Init
  <2>2. done \in Seq(Codes)
    BY DEF Init
  <2>3. started \in [0 .. MaxCounter -> Nat]
    BY DEF Init
  <2>4. QED  BY <1>1, <1>3, <1>4, <2>1, <2>2, <2>3 DEF TypeOK, NvImages
<1>6. Exclusivity(sessions, exclusive) /\ Counts(sessions) /\ Counts(nv.sessions)
  BY <1>2, <1>3 DEF Exclusivity, Counts, Absent
<1>7. Lists(gp.auditCommands) /\ Numbering
  BY <1>1 DEF Lists, Numbering, Init
<1>8. Off /\ Logs
  BY <1>1 DEF Off, Logs, Init
<1>9. QED  BY <1>1, <1>2, <1>5, <1>6, <1>7, <1>8 DEF Inv

LEMMA PowerCycleKeeps == Inv /\ PowerCycle => Inv'
<1> SUFFICES ASSUME Inv, PowerCycle PROVE Inv'
  OBVIOUS
<1>1. /\ running' = FALSE /\ sessions' = [h \in Handles |-> Absent]
      /\ exclusive' = UNASSIGNED /\ gp' = gp /\ digest' = Empty
      /\ nv' = nv /\ done' = done /\ started' = started
  BY DEF PowerCycle, Inv
<1>2. sessions' \in Sessions /\ \A h \in Handles : sessions'[h] = Absent
  BY <1>1, AbsentType DEF Sessions
<1>3. TypeOK'
  BY <1>1, <1>2, EmptyType, ZenonT(30) DEF Inv, TypeOK
<1>4. Exclusivity(sessions', exclusive') /\ Counts(sessions')
  BY <1>2 DEF Exclusivity, Counts, Absent
<1>5. Exclusivity(sessions, exclusive)' /\ Counts(sessions)'
  BY <1>4 DEF Exclusivity, Counts
<1>6. /\ (nv.gp = gp)' /\ Counts(nv.sessions)'
      /\ (gp.orderlyState = "STATE" => Behind(nv.sessions))'
      /\ Lists(gp.auditCommands)' /\ Numbering'
  BY <1>1 DEF Inv, Counts, Behind, Lists, Numbering
<1>7. Off' /\ Logs'
  BY <1>1 DEF Off, Logs, Inv, Match
<1>8. QED  BY <1>3, <1>5, <1>6, <1>7 DEF Inv

LEMMA CommandKeeps ==
    ASSUME Inv, NEW a \in Uses, NEW ended, WithSessions(a, ended)
    PROVE  Inv'
<1>0. /\ sessions \in Sessions /\ exclusive \in Nowhere
      /\ Exclusivity(sessions, exclusive) /\ Counts(sessions)
  BY InvTypes DEF Inv
<1>1. CASE \E c \in Ordinary : OrdinaryCommand(c, a, ended)
  <2>1. PICK c \in Ordinary : OrdinaryCommand(c, a, ended)
    BY <1>1
  <2>2. /\ running = TRUE /\ running' = TRUE
        /\ Complete(c, a, ended, sessions, exclusive, gp, digest, nv, done)
        /\ ~IsSessionAllowed(c) => a = NoAudit
    BY <2>1, ZenonT(30) DEF OrdinaryCommand, RetrieveSessionData, Inv, TypeOK
  <2>3. c \in Codes \ {"Startup", "Shutdown"}
    BY AuditAssumption, CodesAreCodes
  <2>4. Handler(c, a, sessions, exclusive, gp, digest, nv, done)
    BY <1>0, <2>2, <2>3, SessionHandler
  <2>5. QED  BY <2>2, <2>4, HandlerKeeps
<1>2. CASE \E h \in Handles : StartAuthSession(h, a, ended)
  <2>1. PICK h \in Handles : StartAuthSession(h, a, ended)
    BY <1>2
  <2> DEFINE s == [sessions EXCEPT ![h] = [Absent EXCEPT !.where = "loaded"]]
             c == "StartAuthSession"
  <2>2. /\ running = TRUE /\ running' = TRUE
        /\ Complete(c, a, ended, s, exclusive, gp, digest, nv, done)
    BY <2>1 DEF StartAuthSession, Inv, TypeOK
  <2>3. c \in Codes \ {"Startup", "Shutdown"} /\ IsSessionAllowed(c)
    BY CodesAreCodes DEF IsSessionAllowed, NoSessions
  <2>4. s \in Sessions /\ Exclusivity(s, exclusive) /\ Counts(s)
    BY TableTypes, ZenonT(30)
  <2> HIDE DEF s
  <2>5. Handler(c, a, s, exclusive, gp, digest, nv, done)
    BY <1>0, <2>2, <2>3, <2>4, SessionHandler
  <2>6. QED  BY <2>2, <2>5, HandlerKeeps
<1>3. CASE \E h \in Handles : GetSessionAuditDigest(h, a, ended)
  <2> DEFINE c == "GetSessionAuditDigest"
  <2>2. /\ running = TRUE /\ running' = TRUE
        /\ Complete(c, a, ended, sessions, exclusive, gp, digest, nv, done)
    BY <1>3 DEF GetSessionAuditDigest, Inv, TypeOK
  <2>3. c \in Codes \ {"Startup", "Shutdown"} /\ IsSessionAllowed(c)
    BY CodesAreCodes DEF IsSessionAllowed, NoSessions
  <2>4. Handler(c, a, sessions, exclusive, gp, digest, nv, done)
    BY <1>0, <2>2, <2>3, SessionHandler
  <2>5. QED  BY <2>2, <2>4, HandlerKeeps
<1>4. CASE \E signed \in BOOLEAN : GetCommandAuditDigest(signed, a, ended)
  <2>1. PICK signed \in BOOLEAN : GetCommandAuditDigest(signed, a, ended)
    BY <1>4
  <2>2. running = TRUE
    BY <2>1 DEF GetCommandAuditDigest, Inv, TypeOK
  <2>3. QED  BY <2>1, <2>2, DigestHandler
<1>5. CASE \E alg \in Algs, r \in Requests :
              SetCommandCodeAuditStatus(alg, r[1], r[2], a, ended)
  <2>1. PICK alg \in Algs, r \in Requests :
             SetCommandCodeAuditStatus(alg, r[1], r[2], a, ended)
    BY <1>5
  <2>2. running = TRUE
    BY <2>1 DEF SetCommandCodeAuditStatus, Inv, TypeOK
  <2>3. r[1] \in SUBSET Codes /\ r[2] \in SUBSET Codes
    BY RequestsAssumption
  <2>4. QED  BY <2>1, <2>2, <2>3, StatusHandler
<1>6. CASE Clear(a, ended)
  <2>1. running = TRUE
    BY <1>6 DEF Clear, Inv, TypeOK
  <2>2. QED  BY <1>6, <2>1, ClearHandler
<1>7. CASE \E type \in {"CLEAR", "STATE"} : Shutdown(type, a, ended)
  <2>1. PICK type \in {"CLEAR", "STATE"} : Shutdown(type, a, ended)
    BY <1>7
  <2>2. running = TRUE
    BY <2>1 DEF Shutdown, Inv, TypeOK
  <2>3. QED  BY <2>1, <2>2, ShutdownHandler
<1>8. QED
  BY <1>1, <1>2, <1>3, <1>4, <1>5, <1>6, <1>7 DEF WithSessions

LEMMA ContextKeeps ==
    ASSUME Inv, NEW h \in Handles,
           FlushContext(h) \/ ContextSave(h) \/ ContextLoad(h)
    PROVE  Inv'
<1>0. NoAudit \in Uses /\ nv.gp = gp /\ exclusive \in Nowhere
  BY InvTypes DEF Uses
<1>1. CASE FlushContext(h)
  <2> DEFINE s == [sessions EXCEPT ![h] = Absent]
             x == IF exclusive = h THEN UNASSIGNED ELSE exclusive
             c == "FlushContext"
  <2>1. /\ running = TRUE /\ running' = TRUE
        /\ Complete(c, NoAudit, {}, s, x, gp, digest, nv, done)
    BY <1>1 DEF FlushContext, Inv, TypeOK
  <2>2. c \in Codes \ {"Startup", "Shutdown"}
    BY CodesAreCodes
  <2>3. s \in Sessions /\ x \in Nowhere /\ Exclusivity(s, x) /\ Counts(s)
    BY TableTypes, ZenonT(30)
  <2> HIDE DEF s, x
  <2>4. Handler(c, NoAudit, s, x, gp, digest, nv, done)
    BY <1>0, <2>1, <2>2, <2>3, SessionHandler
  <2>5. QED  BY <2>1, <2>4, HandlerKeeps
<1>2. CASE ContextSave(h)
  <2> DEFINE s == [sessions EXCEPT ![h].where = "saved"]
             c == "ContextSave"
  <2>1. /\ running = TRUE /\ running' = TRUE /\ sessions[h].where = "loaded"
        /\ Complete(c, NoAudit, {}, s, exclusive, Voided(gp), digest,
                    [nv EXCEPT !.gp = Voided(nv.gp)], done)
    BY <1>2 DEF ContextSave, Inv, TypeOK, Loaded
  <2>2. c \in Codes \ {"Startup", "Shutdown"}
    BY CodesAreCodes
  <2>3. s \in Sessions /\ Exclusivity(s, exclusive) /\ Counts(s)
    BY <2>1, TableTypes, ZenonT(30)
  <2> HIDE DEF s
  <2>4. Handler(c, NoAudit, s, exclusive, Voided(gp), digest,
                [nv EXCEPT !.gp = Voided(gp)], done)
    BY <1>0, <2>1, <2>2, <2>3, SessionHandler
  <2>5. QED  BY <1>0, <2>1, <2>4, HandlerKeeps
<1>3. CASE ContextLoad(h)
  <2> DEFINE s == [sessions EXCEPT ![h].where = "loaded"]
             c == "ContextLoad"
  <2>1. /\ running = TRUE /\ running' = TRUE /\ sessions[h].where = "saved"
        /\ Complete(c, NoAudit, {}, s, exclusive, Voided(gp), digest,
                    [nv EXCEPT !.gp = Voided(nv.gp)], done)
    BY <1>3 DEF ContextLoad, Inv, TypeOK
  <2>2. c \in Codes \ {"Startup", "Shutdown"}
    BY CodesAreCodes
  <2>3. s \in Sessions /\ Exclusivity(s, exclusive) /\ Counts(s)
    BY <2>1, TableTypes, ZenonT(30)
  <2> HIDE DEF s
  <2>4. Handler(c, NoAudit, s, exclusive, Voided(gp), digest,
                [nv EXCEPT !.gp = Voided(gp)], done)
    BY <1>0, <2>1, <2>2, <2>3, SessionHandler
  <2>5. QED  BY <1>0, <2>1, <2>4, HandlerKeeps
<1>4. QED  BY <1>1, <1>2, <1>3

(* The invariant holds in every reachable state of auditing.               *)
THEOREM Invariance == Spec => []Inv
<1>1. Init => Inv
  BY InvInit
<1>2. Inv /\ [Next]_vars => Inv'
  <2> SUFFICES ASSUME Inv, [Next]_vars PROVE Inv'
    OBVIOUS
  <2>1. CASE \E a \in Uses, ended \in SUBSET Handles : WithSessions(a, ended)
    BY <2>1, CommandKeeps
  <2>2. CASE \E h \in Handles : FlushContext(h) \/ ContextSave(h) \/ ContextLoad(h)
    BY <2>2, ContextKeeps
  <2>3. CASE PowerCycle
    BY <2>3, PowerCycleKeeps
  <2>4. CASE \E type \in {"CLEAR", "STATE"} : Startup(type)
    BY <2>4, StartupHandler
  <2>5. CASE UNCHANGED vars
    BY <2>5 DEF vars, Inv, TypeOK, Exclusivity, Counts, Behind, Lists, Numbering,
                Off, Logs, Match
  <2>6. QED  BY <2>1, <2>2, <2>3, <2>4, <2>5 DEF Next
<1>3. QED  BY <1>1, <1>2, PTL DEF Spec

(* Every state is type-correct, and between commands the command audit     *)
(* digest is empty or a full digest.                                       *)
THEOREM TypeCorrect == Spec => []TypeOK
<1>1. Inv => TypeOK
  BY DEF Inv
<1>2. QED  BY <1>1, Invariance, PTL

(* A session is reported exclusive exactly when every command that allows  *)
(* sessions was extended into its digest since the digest began.           *)
THEOREM ExclusiveMeansAllHolds == Spec => []ExclusiveMeansAll
<1>1. Inv => ExclusiveMeansAll
  BY DEF Inv, Exclusivity, ExclusiveMeansAll
<1>2. QED  BY <1>1, Invariance, PTL

(* No audit counter value numbers two command audit logs since a Clear.    *)
THEOREM OneLogPerCounterHolds == Spec => []OneLogPerCounter
<1>1. Inv => OneLogPerCounter
  BY DEF Inv, Numbering, OneLogPerCounter
<1>2. QED  BY <1>1, Invariance, PTL

(* When the host leaves the log alone after a Shutdown(STATE) that stays   *)
(* in force, the log has every audited command since it was last emptied.  *)
THEOREM CommandLogCompleteHolds ==
    ASSUME ~AuditAfterShutdown PROVE Spec => []CommandLogComplete
<1>1. Inv => CommandLogComplete
  BY DEF Inv, Logs, Match, CommandLogComplete
<1>2. QED  BY <1>1, Invariance, PTL
=============================================================================
