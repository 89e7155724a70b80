---------------------------- MODULE PolicyProofs ----------------------------
(***************************************************************************)
(* Proofs about Policy for every set of handles, banks, PCRs, codes,       *)
(* digests, localities and commands: type correctness, that a session only *)
(* authorizes what its assertions allow, and that the PCR values a Resume  *)
(* restores are current.                                                   *)
(*                                                                         *)
(* The inductive invariant relates the fields of a SESSION to the history  *)
(* of what was asserted in it (Fits), and its PCR counter to the values    *)
(* the PCRs had (PcrFits).  Sessions saved in NV keep Fits, and their PCR  *)
(* counters lie behind the one saved with them: since a Startup always     *)
(* counts at least one change, none is current when it comes back.         *)
(***************************************************************************)
EXTENDS Policy, FiniteSetTheorems, TLAPS

\* time limits of the provers, in seconds
USE SMTT(30), ZenonT(30)

CodesFit(p, a) ==
    IF p.commandCode = NoCode THEN a.codes = {} ELSE a.codes = {p.commandCode}

DigestsFit(p, a, s) ==
    /\ p.defined # {} <=> p.u1 # NoDigest
    /\ s.trial = FALSE => /\ \A d \in a.digests : d[2] = p.u1
                          /\ \A k \in p.defined : <<k, p.u1>> \in a.digests

LocalitiesFit(p, a) ==
    \A l \in a.localities : p.commandLocality # {} /\ p.commandLocality \subseteq l

UntilFit(p, a, s) ==
    \A u \in a.until : p.timeout # 0 /\ p.timeout <= u.deadline /\ u.epoch = s.epoch

FlagsFit(p, a, s) ==
    /\ a.verified = FALSE => s.trial = TRUE
    /\ a.presence = TRUE => p.isPPRequired = TRUE
    /\ a.authValue = TRUE => p.needed # "nothing"
    /\ \A w \in a.written : p.checkNvWritten = w

(* The fields of p, in session s, are as strict as what a says.            *)
Fits(p, a, s) ==
    /\ CodesFit(p, a)
    /\ DigestsFit(p, a, s)
    /\ LocalitiesFit(p, a)
    /\ UntilFit(p, a, s)
    /\ FlagsFit(p, a, s)

(* A PCR counter that is current vouches for the snapshots.                *)
PcrFits(p, a, s, counter, allocated, values) ==
    /\ p.pcrCounter <= counter
    /\ s.trial = FALSE /\ a.pcr # {} => p.pcrCounter # 0
    /\ s.trial = FALSE /\ p.pcrCounter = counter =>
          \A f \in a.pcr : \A x \in DOMAIN f :
              x \in allocated /\ Counted(x[2]) /\ values[x] = f[x]

Begun(p, a) == p.policyDigest = "extended" => a.any = TRUE

Agrees(s) ==
    Fits(s.policy, s.policy.asserted, s) /\ Begun(s.policy, s.policy.asserted)

Current(s, counter, allocated, values) ==
    PcrFits(s.policy, s.policy.asserted, s, counter, allocated, values)

(* A session saved in NV: its counter is not ahead of the saved one.       *)
Behind(s, counter) ==
    /\ s.policy.pcrCounter <= counter
    /\ s.trial = FALSE /\ s.policy.asserted.pcr # {} => s.policy.pcrCounter # 0

SavedInv ==
    running = TRUE /\ gp.orderlyState = "STATE" =>
        \A c \in gp.allocated : c[2] \in StateSave => nv.pcrSave[c] = pcr[c]

Inv ==
    /\ TypeOK
    /\ running = TRUE => pcrCounter >= 1
    /\ \A h \in Handles : 
          /\ Agrees(sessions[h])
          /\ Current(sessions[h], pcrCounter, gp.allocated, pcr)
    /\ \A h \in Handles : Agrees(nv.sessions[h])
                          /\ Behind(nv.sessions[h], nv.pcrCounter)
    /\ SavedInv

-----------------------------------------------------------------------------
(* What Inv says of the types of the state, one variable at a time.        *)
LEMMA Parts ==
    ASSUME Inv
    PROVE  /\ running \in BOOLEAN /\ time \in 0 .. MaxTime
           /\ pcr \in [Cells -> 0 .. MaxExtends] /\ pcrCounter \in 0 .. MaxCounter
           /\ pcrReConfig \in BOOLEAN /\ gc \in [Cells -> 0 .. MaxExtends]
           /\ gp \in Persistent /\ sessions \in [Handles -> Session]
           /\ nv \in Image /\ tickets \subseteq Ticket /\ requested \subseteq Cells
BY ZenonT(30) DEF Inv, TypeOK

LEMMA Numbers == ASSUME Inv PROVE time \in Nat /\ pcrCounter \in Nat
<1>1. time \in 0 .. MaxTime /\ pcrCounter \in 0 .. MaxCounter
  BY Parts
<1>2. QED  BY <1>1, PolicyAssumption

LEMMA GpParts ==
    ASSUME Inv
    PROVE  gp.allocated \subseteq Cells /\ gp.timeEpoch \in 0 .. MaxEpoch
<1>1. gp \in Persistent
  BY Parts
<1>2. QED  BY <1>1 DEF Persistent

(* What Inv says of a session.                                             *)
LEMMA OneSession ==
    ASSUME Inv, NEW h \in Handles
    PROVE  /\ sessions[h] \in Session /\ Agrees(sessions[h])
           /\ Current(sessions[h], pcrCounter, gp.allocated, pcr)
<1>1. sessions \in [Handles -> Session]
  BY Parts
<1>2. sessions[h] \in Session
  BY <1>1
<1>3. QED  BY <1>2, ZenonT(30) DEF Inv

-----------------------------------------------------------------------------
(* Sessions.                                                               *)

LEMMA NothingType == NothingAsserted \in Asserted
BY DEF NothingAsserted, Asserted

LEMMA NoPolicyType == NoPolicy \in PolicyData
<1>1. NothingAsserted \in Asserted  BY NothingType
<1> HIDE DEF NothingAsserted
<1>2. QED  BY <1>1, PolicyAssumption DEF NoPolicy, PolicyData

LEMMA NoPolicyFits ==
    ASSUME NEW s
    PROVE  /\ Fits(NoPolicy, NothingAsserted, s)
           /\ Begun(NoPolicy, NothingAsserted)
<1>1. /\ NoPolicy.commandCode = NoCode /\ NoPolicy.defined = {}
      /\ NoPolicy.u1 = NoDigest /\ NoPolicy.policyDigest = "zero"
  BY DEF NoPolicy
<1>2. /\ NothingAsserted.codes = {} /\ NothingAsserted.digests = {}
      /\ NothingAsserted.localities = {} /\ NothingAsserted.until = {}
      /\ NothingAsserted.written = {} /\ NothingAsserted.any = FALSE
      /\ NothingAsserted.verified = TRUE /\ NothingAsserted.presence = FALSE
      /\ NothingAsserted.authValue = FALSE
  BY DEF NothingAsserted
<1>3. /\ CodesFit(NoPolicy, NothingAsserted)
      /\ DigestsFit(NoPolicy, NothingAsserted, s)
      /\ LocalitiesFit(NoPolicy, NothingAsserted)
      /\ UntilFit(NoPolicy, NothingAsserted, s)
  BY <1>1, <1>2 DEF CodesFit, DigestsFit, LocalitiesFit, UntilFit
<1>4. FlagsFit(NoPolicy, NothingAsserted, s) /\ Begun(NoPolicy, NothingAsserted)
  BY <1>1, <1>2 DEF FlagsFit, Begun
<1>5. QED  BY <1>3, <1>4 DEF Fits

LEMMA NoPolicyCurrent ==
    ASSUME NEW s, NEW n \in Nat, NEW allocated, NEW values
    PROVE  PcrFits(NoPolicy, NothingAsserted, s, n, allocated, values)
BY DEF PcrFits, NoPolicy, NothingAsserted

(* A session without a policy.                                             *)
LEMMA Fresh ==
    ASSUME NEW s, s.policy = NoPolicy, NEW n \in Nat, NEW allocated, NEW values
    PROVE  Agrees(s) /\ Current(s, n, allocated, values)
<1>1. NoPolicy.asserted = NothingAsserted
  BY DEF NoPolicy
<1>2. QED  BY <1>1, NoPolicyFits, NoPolicyCurrent DEF Agrees, Current

LEMMA PolicyOf ==
    ASSUME NEW s \in Session
    PROVE  s.policy \in PolicyData /\ s.policy.asserted \in Asserted
<1>1. s.policy \in PolicyData
  BY DEF Session
<1>2. QED  BY <1>1 DEF PolicyData

LEMMA AbsentSession ==
    /\ Absent \in Session
    /\ Absent.policy = NoPolicy
BY NoPolicyType, PolicyAssumption DEF Absent, Session

(* A step that only changes one session keeps Inv if the new session fits. *)
LEMMA SessionStep ==
    ASSUME Inv, NEW h \in Handles, NEW s \in Session,
           sessions' = [sessions EXCEPT ![h] = s],
           Agrees(s), Current(s, pcrCounter, gp.allocated, pcr),
           tickets' \subseteq Ticket,
           UNCHANGED <<timeVars, pcrVars, gp, nv, requested>>
    PROVE  Inv'
<1>1. /\ running' = running /\ stopped' = stopped /\ time' = time
      /\ pcr' = pcr /\ pcrCounter' = pcrCounter /\ pcrReConfig' = pcrReConfig
      /\ gc' = gc /\ gp' = gp /\ nv' = nv /\ requested' = requested
  BY DEF timeVars, pcrVars
<1>2. sessions \in [Handles -> Session]
  BY Parts
<1>3. sessions' \in [Handles -> Session]
  BY <1>2
<1>4. ASSUME NEW g \in Handles
      PROVE  /\ Agrees(sessions'[g])
             /\ Current(sessions'[g], pcrCounter, gp.allocated, pcr)
  <2>1. CASE g = h
    <3>1. sessions'[g] = s
      BY <2>1, <1>2
    <3>2. QED  BY <3>1
  <2>2. CASE g # h
    <3>1. sessions'[g] = sessions[g]
      BY <2>2, <1>2
    <3>2. QED  BY <3>1, OneSession
  <2>3. QED  BY <2>1, <2>2
<1>5. ASSUME NEW g \in Handles
      PROVE  sessions'[g].policy.defined # {} <=> sessions'[g].policy.u1 # NoDigest
  BY <1>4, ZenonT(30) DEF Agrees, Fits, DigestsFit
<1>6. TypeOK'
  BY <1>1, <1>3, <1>5, ZenonT(30) DEF Inv, TypeOK
<1>7. SavedInv'
  BY <1>1, ZenonT(30) DEF Inv, SavedInv
<1>8. QED  BY <1>1, <1>4, <1>6, <1>7, ZenonT(30) DEF Inv

-----------------------------------------------------------------------------
(* The policy commands.                                                    *)

LEMMA AssertsKeeps ==
    ASSUME Inv, NEW h \in Handles, NEW p \in PolicyData, NEW a \in Asserted,
           Asserts(h, p, a), Fits(p, a, sessions[h]),
           PcrFits(p, a, sessions[h], pcrCounter, gp.allocated, pcr),
           tickets' \subseteq Ticket
    PROVE  Inv'
<1> DEFINE b == [a EXCEPT !.any = TRUE]
           q == [p EXCEPT !.policyDigest = "extended", !.asserted = b]
           s == [sessions[h] EXCEPT !.policy = q]
<1>1. sessions[h] \in Session
  BY OneSession
<1>2. b \in Asserted
  BY ZenonT(30) DEF Asserted
<1>3. q \in PolicyData
  BY <1>2, ZenonT(30) DEF PolicyData
<1>4. s \in Session /\ s.policy = q /\ s.trial = sessions[h].trial
      /\ s.epoch = sessions[h].epoch
  BY <1>1, <1>3 DEF Session
<1>5. /\ b.any = TRUE /\ b.verified = a.verified /\ b.pcr = a.pcr
      /\ b.codes = a.codes /\ b.digests = a.digests
      /\ b.localities = a.localities /\ b.until = a.until
      /\ b.presence = a.presence /\ b.authValue = a.authValue
      /\ b.written = a.written
  BY DEF Asserted
<1>6. /\ q.policyDigest = "extended" /\ q.pcrCounter = p.pcrCounter
      /\ q.timeout = p.timeout /\ q.commandCode = p.commandCode
      /\ q.commandLocality = p.commandLocality /\ q.u1 = p.u1
      /\ q.defined = p.defined /\ q.needed = p.needed
      /\ q.isPPRequired = p.isPPRequired
      /\ q.checkNvWritten = p.checkNvWritten /\ q.asserted = b
  BY DEF PolicyData
<1> HIDE DEF b, q, s
<1>7. Fits(q, b, s)
  BY <1>4, <1>5, <1>6 DEF Fits, CodesFit, DigestsFit, LocalitiesFit, UntilFit,
                          FlagsFit
<1>8. PcrFits(q, b, s, pcrCounter, gp.allocated, pcr)
  BY <1>4, <1>5, <1>6 DEF PcrFits
<1>9. Agrees(s) /\ Current(s, pcrCounter, gp.allocated, pcr)
  BY <1>4, <1>5, <1>6, <1>7, <1>8 DEF Agrees, Current, Begun
<1>10. sessions' = [sessions EXCEPT ![h] = s]
  BY DEF Asserts, s, q, b
<1>11. UNCHANGED <<timeVars, pcrVars, gp, nv, requested>>
  BY DEF Asserts
<1>12. QED  BY <1>4, <1>9, <1>10, <1>11, SessionStep, ZenonT(30)

LEMMA SessionFacts ==
    ASSUME Inv, NEW h \in Handles
    PROVE  /\ sessions[h] \in Session
           /\ sessions[h].policy \in PolicyData
           /\ sessions[h].policy.asserted \in Asserted
           /\ Fits(sessions[h].policy, sessions[h].policy.asserted, sessions[h])
           /\ PcrFits(sessions[h].policy, sessions[h].policy.asserted,
                      sessions[h], pcrCounter, gp.allocated, pcr)
           /\ tickets \subseteq Ticket
<1>1. sessions[h] \in Session /\ tickets \subseteq Ticket
  BY Parts, OneSession
<1>2. QED  BY <1>1, PolicyOf, OneSession DEF Agrees, Current

LEMMA PresenceKeeps ==
    ASSUME Inv, NEW h \in Handles, PolicyPhysicalPresence(h) PROVE Inv'
<1> DEFINE s == sessions[h]
           p == s.policy
           a == p.asserted
           p2 == [p EXCEPT !.isPPRequired = TRUE]
           a2 == [a EXCEPT !.presence = TRUE]
<1>1. /\ p \in PolicyData /\ a \in Asserted /\ Fits(p, a, s)
      /\ PcrFits(p, a, s, pcrCounter, gp.allocated, pcr) /\ tickets \subseteq Ticket
  BY SessionFacts
<1>2. Asserts(h, p2, a2) /\ tickets' = tickets
  BY DEF PolicyPhysicalPresence
<1> HIDE DEF s, p, a
<1>3. p2 \in PolicyData /\ a2 \in Asserted
  BY <1>1, ZenonT(30) DEF PolicyData, Asserted
<1>4. Fits(p2, a2, s) /\ PcrFits(p2, a2, s, pcrCounter, gp.allocated, pcr)
  BY <1>1 DEF Fits, CodesFit, DigestsFit, LocalitiesFit, UntilFit,
                   FlagsFit, PcrFits, PolicyData, Asserted
<1>5. QED  BY <1>1, <1>2, <1>3, <1>4, AssertsKeeps DEF s

LEMMA CodeKeeps ==
    ASSUME Inv, NEW h \in Handles, NEW code \in Codes,
           PolicyCommandCode(h, code) PROVE Inv'
<1> DEFINE s == sessions[h]
           p == s.policy
           a == p.asserted
           p2 == [p EXCEPT !.commandCode = code]
           a2 == [a EXCEPT !.codes = @ \cup {code}]
<1>1. /\ p \in PolicyData /\ a \in Asserted /\ Fits(p, a, s)
      /\ PcrFits(p, a, s, pcrCounter, gp.allocated, pcr) /\ tickets \subseteq Ticket
  BY SessionFacts
<1>2. Asserts(h, p2, a2) /\ tickets' = tickets
  BY DEF PolicyCommandCode
<1>0. p.commandCode \in {NoCode, code}
  BY DEF PolicyCommandCode
<1> HIDE DEF s, p, a
<1>3. p2 \in PolicyData /\ a2 \in Asserted
  BY <1>1, <1>0, PolicyAssumption DEF PolicyData, Asserted
<1>4. Fits(p2, a2, s) /\ PcrFits(p2, a2, s, pcrCounter, gp.allocated, pcr)
  BY <1>1, <1>0, PolicyAssumption DEF Fits, CodesFit, DigestsFit, LocalitiesFit, UntilFit,
                   FlagsFit, PcrFits, PolicyData, Asserted
<1>5. QED  BY <1>1, <1>2, <1>3, <1>4, AssertsKeeps DEF s

LEMMA AuthValueKeeps ==
    ASSUME Inv, NEW h \in Handles, NEW needed \in {"authValue", "password"},
           NeedAuthValue(h, needed) PROVE Inv'
<1> DEFINE s == sessions[h]
           p == s.policy
           a == p.asserted
           p2 == [p EXCEPT !.needed = needed]
           a2 == [a EXCEPT !.authValue = TRUE]
<1>1. /\ p \in PolicyData /\ a \in Asserted /\ Fits(p, a, s)
      /\ PcrFits(p, a, s, pcrCounter, gp.allocated, pcr) /\ tickets \subseteq Ticket
  BY SessionFacts
<1>2. Asserts(h, p2, a2) /\ tickets' = tickets
  BY DEF NeedAuthValue
<1> HIDE DEF s, p, a
<1>3. p2 \in PolicyData /\ a2 \in Asserted
  BY <1>1, ZenonT(30) DEF PolicyData, Asserted
<1>4. Fits(p2, a2, s) /\ PcrFits(p2, a2, s, pcrCounter, gp.allocated, pcr)
  BY <1>1 DEF Fits, CodesFit, DigestsFit, LocalitiesFit, UntilFit,
                   FlagsFit, PcrFits, PolicyData, Asserted
<1>5. QED  BY <1>1, <1>2, <1>3, <1>4, AssertsKeeps DEF s

LEMMA NvWrittenKeeps ==
    ASSUME Inv, NEW h \in Handles, NEW written \in {"unwritten", "written"},
           PolicyNvWritten(h, written) PROVE Inv'
<1> DEFINE s == sessions[h]
           p == s.policy
           a == p.asserted
           p2 == [p EXCEPT !.checkNvWritten = written]
           a2 == [a EXCEPT !.written = @ \cup {written}]
<1>1. /\ p \in PolicyData /\ a \in Asserted /\ Fits(p, a, s)
      /\ PcrFits(p, a, s, pcrCounter, gp.allocated, pcr) /\ tickets \subseteq Ticket
  BY SessionFacts
<1>2. Asserts(h, p2, a2) /\ tickets' = tickets
  BY DEF PolicyNvWritten
<1>0. p.checkNvWritten \in {"no", written}
  BY DEF PolicyNvWritten
<1> HIDE DEF s, p, a
<1>3. p2 \in PolicyData /\ a2 \in Asserted
  BY <1>1, <1>0 DEF PolicyData, Asserted
<1>4. Fits(p2, a2, s) /\ PcrFits(p2, a2, s, pcrCounter, gp.allocated, pcr)
  BY <1>1, <1>0 DEF Fits, CodesFit, DigestsFit, LocalitiesFit, UntilFit,
                   FlagsFit, PcrFits, PolicyData, Asserted
<1>5. QED  BY <1>1, <1>2, <1>3, <1>4, AssertsKeeps DEF s

(* A digest in the union: every digest asserted is that one.               *)
LEMMA DigestFits ==
    ASSUME NEW p \in PolicyData, NEW a \in Asserted, NEW s, DigestsFit(p, a, s),
           NEW k \in Kinds, NEW digest \in Digests,
           s.trial = FALSE /\ p.u1 # NoDigest => p.u1 = digest,
           NEW p2, p2.u1 = digest, p2.defined = p.defined \cup {k},
           NEW a2, a2.digests = a.digests \cup {<<k, digest>>}
    PROVE  DigestsFit(p2, a2, s)
<1>1. digest # NoDigest
  BY PolicyAssumption
<1>2. p2.defined # {}
  OBVIOUS
<1>3. ASSUME s.trial = FALSE PROVE \A d \in a2.digests : d[2] = p2.u1
  <2>1. ASSUME NEW d \in a.digests PROVE d[2] = digest
    <3>1. d[2] = p.u1
      BY <1>3 DEF DigestsFit
    <3>2. d[2] \in Digests
      BY DEF Asserted
    <3>3. QED  BY <3>1, <3>2, <1>3, PolicyAssumption
  <2>2. QED  BY <2>1
<1>4. ASSUME s.trial = FALSE, NEW j \in p2.defined
      PROVE  <<j, p2.u1>> \in a2.digests
  <2>1. CASE j = k
    BY <2>1
  <2>2. CASE j \in p.defined
    <3>1. p.u1 = digest /\ <<j, p.u1>> \in a.digests
      BY <2>2, <1>4 DEF DigestsFit
    <3>2. QED  BY <3>1
  <2>3. QED  BY <2>1, <2>2
<1>5. QED  BY <1>1, <1>2, <1>3, <1>4, ZenonT(30) DEF DigestsFit

LEMMA DigestTypes ==
    ASSUME NEW p \in PolicyData, NEW a \in Asserted, NEW k \in Kinds,
           NEW digest \in Digests
    PROVE  /\ [p EXCEPT !.u1 = digest, !.defined = @ \cup {k}] \in PolicyData
           /\ [a EXCEPT !.digests = @ \cup {<<k, digest>>}] \in Asserted
<1>1. p.defined \cup {k} \in SUBSET Kinds
  BY DEF PolicyData
<1>2. a.digests \cup {<<k, digest>>} \in SUBSET (Kinds \X Digests)
  BY DEF Asserted
<1>3. ASSUME NEW D \in SUBSET (Kinds \X Digests)
      PROVE  [a EXCEPT !.digests = D] \in Asserted
  BY DEF Asserted
<1>4. ASSUME NEW K \in SUBSET Kinds
      PROVE  [p EXCEPT !.u1 = digest, !.defined = K] \in PolicyData
  BY ZenonT(30) DEF PolicyData
<1>5. QED  BY <1>1, <1>2, <1>3, <1>4, ZenonT(30)

LEMMA DigestKeeps ==
    ASSUME Inv, NEW h \in Handles, NEW k \in Kinds, NEW digest \in Digests,
           SameAgain(sessions[h].policy, k, digest), BindDigest(h, k, digest)
    PROVE  Inv'
<1> DEFINE s == sessions[h]
           p == s.policy
           a == p.asserted
           p2 == [p EXCEPT !.u1 = digest, !.defined = @ \cup {k}]
           a2 == [a EXCEPT !.digests = @ \cup {<<k, digest>>}]
<1>1. /\ p \in PolicyData /\ a \in Asserted /\ Fits(p, a, s)
      /\ PcrFits(p, a, s, pcrCounter, gp.allocated, pcr) /\ tickets \subseteq Ticket
  BY SessionFacts
<1>2. Asserts(h, p2, a2) /\ tickets' = tickets
  BY DEF BindDigest
<1>3. p.u1 # NoDigest => p.u1 = digest
  BY <1>1 DEF SameAgain, IsCpHashUnionOccupied, Fits, DigestsFit
<1> HIDE DEF s, p, a
<1>4. p2 \in PolicyData /\ a2 \in Asserted
  BY <1>1, DigestTypes, ZenonT(30)
<1>5. /\ p2.u1 = digest /\ p2.defined = p.defined \cup {k}
      /\ a2.digests = a.digests \cup {<<k, digest>>}
  BY <1>1 DEF PolicyData, Asserted
<1>6. DigestsFit(p2, a2, s)
  BY <1>1, <1>3, <1>5, DigestFits, ZenonT(30) DEF Fits
<1>7. /\ CodesFit(p2, a2) /\ LocalitiesFit(p2, a2) /\ UntilFit(p2, a2, s)
      /\ FlagsFit(p2, a2, s) /\ PcrFits(p2, a2, s, pcrCounter, gp.allocated, pcr)
  BY <1>1 DEF Fits, CodesFit, LocalitiesFit, UntilFit, FlagsFit, PcrFits,
              PolicyData, Asserted
<1>8. QED  BY <1>1, <1>2, <1>4, <1>6, <1>7, AssertsKeeps DEF s, Fits

LEMMA DuplicationKeeps ==
    ASSUME Inv, NEW h \in Handles, NEW digest \in Digests,
           PolicyDuplicationSelect(h, digest)
    PROVE  Inv'
<1> DEFINE s == sessions[h]
           p == s.policy
           a == p.asserted
           p1 == [p EXCEPT !.u1 = digest, !.defined = @ \cup {"nameHash"}]
           a1 == [a EXCEPT !.digests = @ \cup {<<"nameHash", digest>>}]
           p2 == [p1 EXCEPT !.commandCode = "Duplicate"]
           a2 == [a1 EXCEPT !.codes = @ \cup {"Duplicate"}]
<1>1. /\ p \in PolicyData /\ a \in Asserted /\ Fits(p, a, s)
      /\ PcrFits(p, a, s, pcrCounter, gp.allocated, pcr) /\ tickets \subseteq Ticket
  BY SessionFacts
<1>2. Asserts(h, p2, a2) /\ tickets' = tickets
  <2>1. /\ p2 = [p EXCEPT !.u1 = digest, !.defined = @ \cup {"nameHash"},
                          !.commandCode = "Duplicate"]
        /\ a2 = [a EXCEPT !.digests = @ \cup {<<"nameHash", digest>>},
                          !.codes = @ \cup {"Duplicate"}]
    BY <1>1 DEF PolicyData, Asserted
  <2>2. QED  BY <2>1 DEF PolicyDuplicationSelect
<1>3. p.u1 = NoDigest /\ p.commandCode = NoCode
  BY DEF PolicyDuplicationSelect
<1> HIDE DEF s, p, a
<1>4. p1 \in PolicyData /\ a1 \in Asserted
  BY <1>1, DigestTypes, ZenonT(30) DEF Kinds
<1>5. /\ p1.u1 = digest /\ p1.defined = p.defined \cup {"nameHash"}
      /\ a1.digests = a.digests \cup {<<"nameHash", digest>>}
  BY <1>1 DEF PolicyData, Asserted
<1>6. DigestsFit(p1, a1, s)
  BY <1>1, <1>3, <1>5, DigestFits, ZenonT(30) DEF Fits, Kinds
<1>7. /\ a1.codes = {} /\ LocalitiesFit(p1, a1) /\ UntilFit(p1, a1, s)
      /\ FlagsFit(p1, a1, s) /\ PcrFits(p1, a1, s, pcrCounter, gp.allocated, pcr)
  BY <1>1, <1>3 DEF Fits, CodesFit, LocalitiesFit, UntilFit, FlagsFit, PcrFits,
                    PolicyData, Asserted
<1> HIDE DEF p1, a1
<1>8. p2 \in PolicyData /\ a2 \in Asserted
  BY <1>4 DEF PolicyData, Asserted
<1>9. Fits(p2, a2, s) /\ PcrFits(p2, a2, s, pcrCounter, gp.allocated, pcr)
  BY <1>4, <1>6, <1>7, PolicyAssumption DEF Fits, CodesFit, DigestsFit,
     LocalitiesFit, UntilFit, FlagsFit, PcrFits, PolicyData, Asserted
<1>10. QED  BY <1>1, <1>2, <1>8, <1>9, AssertsKeeps DEF s

LEMMA LocalityKeeps ==
    ASSUME Inv, NEW h \in Handles, NEW locality \in Localities,
           PolicyLocality(h, locality)
    PROVE  Inv'
<1> DEFINE s == sessions[h]
           p == s.policy
           a == p.asserted
           prev == p.commandLocality
           normal == locality \subseteq NormalLocalities
           new == IF normal /\ prev # {} THEN prev \cap locality ELSE locality
           p2 == [p EXCEPT !.commandLocality = new]
           a2 == [a EXCEPT !.localities = @ \cup {locality}]
<1>1. /\ p \in PolicyData /\ a \in Asserted /\ Fits(p, a, s)
      /\ PcrFits(p, a, s, pcrCounter, gp.allocated, pcr) /\ tickets \subseteq Ticket
  BY SessionFacts
<1>2. Asserts(h, p2, a2) /\ tickets' = tickets
  BY DEF PolicyLocality
<1>3. /\ new # {} /\ new \subseteq locality /\ (prev # {} => new \subseteq prev)
  BY DEF PolicyLocality
<1>4. new \in SUBSET (UNION Localities)
  BY <1>3
<1> HIDE DEF s, p, a, new
<1>5. p2 \in PolicyData /\ a2 \in Asserted
  BY <1>1, <1>4 DEF PolicyData, Asserted
<1>6. LocalitiesFit(p2, a2)
  <2>1. p2.commandLocality = new /\ a2.localities = a.localities \cup {locality}
    BY <1>1 DEF PolicyData, Asserted
  <2>2. \A l \in a.localities : prev # {} /\ prev \subseteq l
    BY <1>1 DEF Fits, LocalitiesFit
  <2>3. QED  BY <1>3, <2>1, <2>2 DEF LocalitiesFit
<1>7. /\ CodesFit(p2, a2) /\ DigestsFit(p2, a2, s) /\ UntilFit(p2, a2, s)
      /\ FlagsFit(p2, a2, s) /\ PcrFits(p2, a2, s, pcrCounter, gp.allocated, pcr)
  BY <1>1 DEF Fits, CodesFit, DigestsFit, UntilFit, FlagsFit, PcrFits,
              PolicyData, Asserted
<1>8. QED  BY <1>1, <1>2, <1>5, <1>6, <1>7, AssertsKeeps DEF s, Fits

(* What is asserted in a trial session is not verified.                    *)
LEMMA CheckedFits ==
    ASSUME NEW s \in Session, NEW p \in PolicyData, NEW a \in Asserted,
           Fits(p, a, s), NEW n, NEW allocated, NEW values,
           PcrFits(p, a, s, n, allocated, values)
    PROVE  /\ Checked(s, a) \in Asserted
           /\ Fits(p, Checked(s, a), s)
           /\ PcrFits(p, Checked(s, a), s, n, allocated, values)
<1>1. CASE s.trial = TRUE
  <2>1. Checked(s, a) = [a EXCEPT !.verified = FALSE]
    BY <1>1 DEF Checked
  <2>2. [a EXCEPT !.verified = FALSE] \in Asserted
    BY ZenonT(30) DEF Asserted
  <2>3. QED  BY <1>1, <2>1, <2>2 DEF Fits, CodesFit, DigestsFit,
                LocalitiesFit, UntilFit, FlagsFit, PcrFits, Asserted
<1>2. CASE s.trial = FALSE
  <2>1. Checked(s, a) = a
    BY <1>2 DEF Checked
  <2>2. QED  BY <2>1
<1>3. QED  BY <1>1, <1>2, ZenonT(30) DEF Session

LEMMA CheckedNowKeeps ==
    ASSUME Inv, NEW h \in Handles, CheckedNow(h) PROVE Inv'
<1> DEFINE s == sessions[h]
           p == s.policy
           a == p.asserted
<1>1. /\ s \in Session /\ p \in PolicyData /\ a \in Asserted /\ Fits(p, a, s)
      /\ PcrFits(p, a, s, pcrCounter, gp.allocated, pcr) /\ tickets \subseteq Ticket
  BY SessionFacts
<1>2. Asserts(h, p, Checked(s, a)) /\ tickets' = tickets
  BY DEF CheckedNow
<1> HIDE DEF p, a
<1>3. /\ Checked(s, a) \in Asserted /\ Fits(p, Checked(s, a), s)
      /\ PcrFits(p, Checked(s, a), s, pcrCounter, gp.allocated, pcr)
  BY <1>1, CheckedFits
<1>4. QED  BY <1>1, <1>2, <1>3, AssertsKeeps

(* PolicyContextUpdate(), and the authorization that was asserted.         *)
LEMMA AuthorizationFits ==
    ASSUME NEW s \in Session, NEW p \in PolicyData, NEW a \in Asserted,
           Fits(p, a, s), NEW n, NEW allocated, NEW values,
           PcrFits(p, a, s, n, allocated, values),
           NEW cp \in Digests \cup {NoDigest}, NEW t \in Nat,
           NEW e \in 0 .. MaxEpoch, t # 0 => e = s.epoch,
           s.trial = FALSE /\ cp # NoDigest /\ p.u1 # NoDigest => cp = p.u1
    PROVE  /\ PolicyContextUpdate(p, cp, t) \in PolicyData
           /\ Authorization(a, cp, t, e) \in Asserted
           /\ Fits(PolicyContextUpdate(p, cp, t), Authorization(a, cp, t, e), s)
           /\ PcrFits(PolicyContextUpdate(p, cp, t), Authorization(a, cp, t, e),
                      s, n, allocated, values)
<1> DEFINE p1 == IF cp # NoDigest
                 THEN [p EXCEPT !.u1 = cp, !.defined = @ \cup {"cpHash"}] ELSE p
           a1 == IF cp # NoDigest
                 THEN [a EXCEPT !.digests = @ \cup {<<"cpHash", cp>>}] ELSE a
           p2 == [p1 EXCEPT !.timeout = Earlier(@, t)]
           a2 == IF t # 0
                 THEN [a1 EXCEPT !.until = @ \cup {[deadline |-> t, epoch |-> e]}]
                 ELSE a1
<1>1. PolicyContextUpdate(p, cp, t) = p2 /\ Authorization(a, cp, t, e) = a2
  BY ZenonT(30) DEF PolicyContextUpdate, Authorization, PolicyData, Asserted
<1>2. /\ p1 \in PolicyData /\ a1 \in Asserted /\ Fits(p1, a1, s)
      /\ PcrFits(p1, a1, s, n, allocated, values)
  <2>1. CASE cp = NoDigest
    BY <2>1
  <2>2. CASE cp # NoDigest
    <3>1. /\ p1 = [p EXCEPT !.u1 = cp, !.defined = @ \cup {"cpHash"}]
          /\ a1 = [a EXCEPT !.digests = @ \cup {<<"cpHash", cp>>}]
          /\ cp \in Digests
      BY <2>2
    <3> HIDE DEF p1, a1
    <3>2. p1 \in PolicyData /\ a1 \in Asserted
      BY <3>1, DigestTypes, ZenonT(30) DEF Kinds
    <3>3. /\ p1.u1 = cp /\ p1.defined = p.defined \cup {"cpHash"}
          /\ a1.digests = a.digests \cup {<<"cpHash", cp>>}
      BY <3>1 DEF PolicyData, Asserted
    <3>4. DigestsFit(p1, a1, s)
      BY <2>2, <3>1, <3>3, DigestFits, ZenonT(30) DEF Fits, Kinds
    <3>5. /\ CodesFit(p1, a1) /\ LocalitiesFit(p1, a1) /\ UntilFit(p1, a1, s)
          /\ FlagsFit(p1, a1, s) /\ PcrFits(p1, a1, s, n, allocated, values)
      BY <3>1 DEF Fits, CodesFit, LocalitiesFit, UntilFit, FlagsFit, PcrFits,
                  PolicyData, Asserted
    <3>6. QED  BY <3>2, <3>4, <3>5 DEF Fits
  <2>3. QED  BY <2>1, <2>2
<1> HIDE DEF p1, a1
<1>3. p1.timeout \in Nat
  BY <1>2 DEF PolicyData
<1>4. Earlier(p1.timeout, t) \in Nat
  BY <1>3 DEF Earlier
<1>5. p2 \in PolicyData /\ p2.timeout = Earlier(p1.timeout, t)
  BY <1>2, <1>4 DEF PolicyData
<1>6. a2 \in Asserted
  <2>1. [deadline |-> t, epoch |-> e] \in [deadline: Nat, epoch: 0 .. MaxEpoch]
    OBVIOUS
  <2>2. QED  BY <1>2, <2>1 DEF Asserted
<1>7. UntilFit(p2, a2, s)
  <2>1. ASSUME NEW u \in a1.until
        PROVE  /\ p2.timeout # 0 /\ p2.timeout <= u.deadline /\ u.epoch = s.epoch
    <3>1. /\ p1.timeout # 0 /\ p1.timeout <= u.deadline /\ u.epoch = s.epoch
          /\ u.deadline \in Nat
      BY <1>2 DEF Fits, UntilFit, Asserted
    <3>2. QED  BY <1>3, <1>5, <3>1 DEF Earlier
  <2>2. CASE t = 0
    BY <2>1, <2>2 DEF UntilFit
  <2>3. CASE t # 0
    <3>1. a2.until = a1.until \cup {[deadline |-> t, epoch |-> e]}
      BY <2>3, <1>2 DEF Asserted
    <3>2. p2.timeout # 0 /\ p2.timeout <= t
      BY <2>3, <1>3, <1>5 DEF Earlier
    <3>3. QED  BY <2>1, <2>3, <3>1, <3>2 DEF UntilFit
  <2>4. QED  BY <2>2, <2>3
<1>8. /\ CodesFit(p2, a2) /\ DigestsFit(p2, a2, s) /\ LocalitiesFit(p2, a2)
      /\ FlagsFit(p2, a2, s) /\ PcrFits(p2, a2, s, n, allocated, values)
  <2>1. /\ a2.codes = a1.codes /\ a2.digests = a1.digests
        /\ a2.localities = a1.localities /\ a2.verified = a1.verified
        /\ a2.presence = a1.presence /\ a2.authValue = a1.authValue
        /\ a2.written = a1.written /\ a2.pcr = a1.pcr
    BY <1>2 DEF Asserted
  <2> HIDE DEF a2
  <2>2. QED  BY <1>2, <2>1 DEF Fits, CodesFit, DigestsFit, LocalitiesFit,
                FlagsFit, PcrFits, PolicyData
<1>9. QED  BY <1>1, <1>5, <1>6, <1>7, <1>8 DEF Fits

LEMMA TimeoutType ==
    ASSUME Inv, NEW s \in Session, NEW e \in Expirations, NEW nonce \in BOOLEAN
    PROVE  ComputeAuthTimeout(s, e, nonce) \in Nat
<1>1. s.startTime \in Nat /\ time \in Nat
  BY PolicyAssumption, Numbers DEF Session
<1>2. e \in Nat /\ SECOND \in Nat /\ SECOND > 0
  BY PolicyAssumption
<1>3. e * SECOND \in Nat /\ (time % SECOND) \in Nat
  BY <1>1, <1>2
<1>4. s.startTime + e * SECOND \in Nat /\ e * SECOND + (time % SECOND) \in Nat
  BY <1>1, <1>3
<1>5. QED  BY <1>4 DEF ComputeAuthTimeout

LEMMA AuthorizedByKeeps ==
    ASSUME Inv, NEW h \in Handles, NEW e \in Expirations,
           NEW negative \in BOOLEAN, NEW nonce \in BOOLEAN,
           NEW cp \in Digests \cup {NoDigest},
           AuthorizedBy(h, e, negative, nonce, cp)
    PROVE  Inv'
<1> DEFINE s == sessions[h]
           p == s.policy
           a == Checked(s, p.asserted)
           t == IF s.trial THEN 0 ELSE ComputeAuthTimeout(s, e, nonce)
           p2 == PolicyContextUpdate(p, cp, t)
           a2 == Authorization(a, cp, t, gp.timeEpoch)
<1>1. /\ s \in Session /\ p \in PolicyData /\ p.asserted \in Asserted
      /\ Fits(p, p.asserted, s)
      /\ PcrFits(p, p.asserted, s, pcrCounter, gp.allocated, pcr)
      /\ tickets \subseteq Ticket
  BY SessionFacts
<1>2. /\ a \in Asserted /\ Fits(p, a, s)
      /\ PcrFits(p, a, s, pcrCounter, gp.allocated, pcr)
  BY <1>1, CheckedFits
<1>3. t \in Nat
  BY <1>1, TimeoutType
<1>4. gp.timeEpoch \in 0 .. MaxEpoch
  BY GpParts
<1>5. /\ Asserts(h, p2, a2)
      /\ ~s.trial => PolicyParameterChecks(s, t, cp)
      /\ \/ tickets' = tickets
         \/ tickets' = tickets \cup {[timeout |-> t, cpHash |-> cp,
                                      epoch |-> gp.timeEpoch]}
  BY ZenonT(30) DEF AuthorizedBy
<1>6. s.trial = FALSE /\ cp # NoDigest /\ p.u1 # NoDigest => cp = p.u1
  BY <1>5, ZenonT(30) DEF PolicyParameterChecks
<1>7. t # 0 => gp.timeEpoch = s.epoch
  BY <1>5 DEF PolicyParameterChecks
<1> HIDE DEF p, a, t
<1>8. tickets' \subseteq Ticket
  <2>1. [timeout |-> t, cpHash |-> cp, epoch |-> gp.timeEpoch] \in Ticket
    BY <1>3, <1>4 DEF Ticket
  <2>2. QED  BY <1>1, <1>5, <2>1, ZenonT(30)
<1>9. /\ p2 \in PolicyData /\ a2 \in Asserted /\ Fits(p2, a2, s)
      /\ PcrFits(p2, a2, s, pcrCounter, gp.allocated, pcr)
  BY <1>1, <1>2, <1>3, <1>4, <1>6, <1>7, AuthorizationFits, ZenonT(30)
<1> HIDE DEF p2, a2
<1>10. QED  BY <1>5, <1>8, <1>9, AssertsKeeps

LEMMA TicketKeeps ==
    ASSUME Inv, NEW h \in Handles, NEW t \in tickets, PolicyTicket(h, t)
    PROVE  Inv'
<1> DEFINE s == sessions[h]
           p == s.policy
           a == p.asserted
           p2 == PolicyContextUpdate(p, t.cpHash, t.timeout)
           a2 == Authorization(a, t.cpHash, t.timeout, t.epoch)
<1>1. /\ s \in Session /\ p \in PolicyData /\ a \in Asserted /\ Fits(p, a, s)
      /\ PcrFits(p, a, s, pcrCounter, gp.allocated, pcr)
      /\ tickets \subseteq Ticket
  BY SessionFacts
<1>2. /\ t.cpHash \in Digests \cup {NoDigest} /\ t.timeout \in Nat
      /\ t.epoch \in 0 .. MaxEpoch
  BY <1>1 DEF Ticket
<1>3. /\ Asserts(h, p2, a2) /\ tickets' = tickets
      /\ PolicyParameterChecks(s, t.timeout, t.cpHash) /\ t.epoch = gp.timeEpoch
  BY ZenonT(30) DEF PolicyTicket, TicketIsValid
<1>4. t.cpHash # NoDigest /\ p.u1 # NoDigest => t.cpHash = p.u1
  BY <1>3 DEF PolicyParameterChecks
<1>5. t.timeout # 0 => t.epoch = s.epoch
  BY <1>3 DEF PolicyParameterChecks
<1> HIDE DEF p, a
<1>6. /\ p2 \in PolicyData /\ a2 \in Asserted /\ Fits(p2, a2, s)
      /\ PcrFits(p2, a2, s, pcrCounter, gp.allocated, pcr)
  BY <1>1, <1>2, <1>4, <1>5, AuthorizationFits, ZenonT(30)
<1> HIDE DEF p2, a2
<1>7. QED  BY <1>1, <1>3, <1>6, AssertsKeeps, ZenonT(30)

LEMMA SnapshotType ==
    ASSUME Inv, NEW selection
    PROVE  /\ Snapshot(selection) \in Snapshots
           /\ \A x \in DOMAIN Snapshot(selection) :
                 /\ x \in gp.allocated /\ Counted(x[2])
                 /\ pcr[x] = Snapshot(selection)[x]
<1> DEFINE D == {d \in selection \cap gp.allocated : Counted(d[2])}
<1>1. Snapshot(selection) = [c \in D |-> pcr[c]]
  BY DEF Snapshot
<1>2. D \in SUBSET Cells /\ pcr \in [Cells -> 0 .. MaxExtends]
  BY Parts, GpParts
<1>3. [c \in D |-> pcr[c]] \in [D -> 0 .. MaxExtends]
  BY <1>2
<1>4. Snapshot(selection) \in Snapshots
  BY <1>1, <1>2, <1>3 DEF Snapshots
<1>5. QED  BY <1>1, <1>4

LEMMA PolicyPCRKeeps ==
    ASSUME Inv, NEW h \in Handles, NEW selection \in Selections,
           PolicyPCR(h, selection)
    PROVE  Inv'
<1> DEFINE s == sessions[h]
           p == s.policy
           a == p.asserted
           f == Snapshot(selection)
           a1 == [a EXCEPT !.pcr = @ \cup {f}]
<1>1. /\ s \in Session /\ p \in PolicyData /\ a \in Asserted /\ Fits(p, a, s)
      /\ PcrFits(p, a, s, pcrCounter, gp.allocated, pcr)
      /\ tickets \subseteq Ticket
  BY SessionFacts
<1>2. /\ f \in Snapshots
      /\ \A x \in DOMAIN f : x \in gp.allocated /\ Counted(x[2]) /\ pcr[x] = f[x]
  BY SnapshotType
<1>3. tickets' = tickets /\ running = TRUE
  BY Parts, ZenonT(30) DEF PolicyPCR, Loaded, Ready
<1>4. pcrCounter \in 0 .. MaxCounter /\ pcrCounter >= 1
  BY <1>3, Parts, ZenonT(30) DEF Inv
<1>5. CASE s.trial = TRUE
  <2>1. Asserts(h, p, Checked(s, a1))
    BY <1>5 DEF PolicyPCR
  <2> HIDE DEF p, a, f
  <2>2. a1 \in Asserted
    BY <1>1, <1>2 DEF Asserted
  <2>3. Fits(p, a1, s) /\ PcrFits(p, a1, s, pcrCounter, gp.allocated, pcr)
    BY <1>1, <1>5 DEF Fits, CodesFit, DigestsFit, LocalitiesFit, UntilFit,
                      FlagsFit, PcrFits, Asserted
  <2> HIDE DEF a1
  <2>4. /\ Checked(s, a1) \in Asserted /\ Fits(p, Checked(s, a1), s)
        /\ PcrFits(p, Checked(s, a1), s, pcrCounter, gp.allocated, pcr)
    BY <1>1, <2>2, <2>3, CheckedFits
  <2>5. QED  BY <1>1, <1>3, <2>1, <2>4, AssertsKeeps
<1>6. CASE s.trial = FALSE
  <2> DEFINE p2 == [p EXCEPT !.pcrCounter = pcrCounter]
  <2>1. Asserts(h, p2, a1) /\ SessionPCRValueIsCurrent(p)
    BY <1>6 DEF PolicyPCR, Checked
  <2>2. p.pcrCounter \in {0, pcrCounter}
    BY <2>1 DEF SessionPCRValueIsCurrent
  <2> HIDE DEF p, a, f
  <2>3. p2 \in PolicyData /\ a1 \in Asserted
    BY <1>1, <1>2, <1>4 DEF PolicyData, Asserted
  <2>4. Fits(p2, a1, s)
    BY <1>1 DEF Fits, CodesFit, DigestsFit, LocalitiesFit, UntilFit, FlagsFit,
                Asserted, PolicyData
  <2>5. PcrFits(p2, a1, s, pcrCounter, gp.allocated, pcr)
    <3>0. p \in PolicyData /\ a \in Asserted
      BY <1>1
    <3>1. p2.pcrCounter = pcrCounter /\ a1.pcr = a.pcr \cup {f}
      BY <3>0 DEF PolicyData, Asserted
    <3>2. ASSUME NEW g \in a.pcr, NEW x \in DOMAIN g
          PROVE  x \in gp.allocated /\ Counted(x[2]) /\ pcr[x] = g[x]
      <4>1. p.pcrCounter = pcrCounter
        BY <1>1, <1>6, <2>2, <3>2 DEF PcrFits
      <4>2. QED  BY <1>1, <1>6, <3>2, <4>1 DEF PcrFits
    <3>3. QED  BY <1>2, <1>4, <3>1, <3>2 DEF PcrFits
  <2> HIDE DEF p2, a1
  <2>6. QED  BY <1>1, <1>3, <2>1, <2>3, <2>4, <2>5, AssertsKeeps
<1>7. QED  BY <1>1, <1>5, <1>6, ZenonT(30) DEF Session

LEMMA PolicyCommandKeeps ==
    ASSUME Inv, NEW h \in Handles, PolicyCommand(h) PROVE Inv'
<1>1. ASSUME NEW e \in Expirations, NEW negative \in BOOLEAN,
             NEW nonce \in BOOLEAN, NEW d \in Digests \cup {NoDigest},
             PolicySigned(h, e, negative, nonce, d)
             \/ PolicySecret(h, e, negative, nonce, d)
      PROVE  Inv'
  BY <1>1, AuthorizedByKeeps DEF PolicySigned, PolicySecret
<1>2. ASSUME NEW t \in tickets, PolicyTicket(h, t) PROVE Inv'
  BY <1>2, TicketKeeps
<1>3. ASSUME NEW s \in Selections, PolicyPCR(h, s) PROVE Inv'
  BY <1>3, PolicyPCRKeeps
<1>4. CASE PolicyPhysicalPresence(h)
  BY <1>4, PresenceKeeps
<1>5. ASSUME NEW l \in Localities, PolicyLocality(h, l) PROVE Inv'
  BY <1>5, LocalityKeeps
<1>6. ASSUME NEW c \in Codes, PolicyCommandCode(h, c) PROVE Inv'
  BY <1>6, CodeKeeps
<1>7. ASSUME NEW d \in Digests, PolicyCpHash(h, d) PROVE Inv'
  <2>1. "cpHash" \in Kinds
    BY DEF Kinds
  <2>2. SameAgain(sessions[h].policy, "cpHash", d) /\ BindDigest(h, "cpHash", d)
    BY <1>7 DEF PolicyCpHash
  <2>3. QED  BY <2>1, <2>2, DigestKeeps
<1>8. ASSUME NEW d \in Digests, PolicyNameHash(h, d) PROVE Inv'
  <2>1. "nameHash" \in Kinds
    BY DEF Kinds
  <2>2. SameAgain(sessions[h].policy, "nameHash", d) /\ BindDigest(h, "nameHash", d)
    BY <1>8 DEF PolicyNameHash, SameAgain
  <2>3. QED  BY <2>1, <2>2, DigestKeeps
<1>9. ASSUME NEW d \in Digests, PolicyParameters(h, d) PROVE Inv'
  <2>1. "pHash" \in Kinds
    BY DEF Kinds
  <2>2. SameAgain(sessions[h].policy, "pHash", d) /\ BindDigest(h, "pHash", d)
    BY <1>9 DEF PolicyParameters, SameAgain
  <2>3. QED  BY <2>1, <2>2, DigestKeeps
<1>10. ASSUME NEW d \in Digests, PolicyTemplate(h, d) PROVE Inv'
  <2>1. "templateHash" \in Kinds
    BY DEF Kinds
  <2>2. /\ SameAgain(sessions[h].policy, "templateHash", d)
        /\ BindDigest(h, "templateHash", d)
    BY <1>10 DEF PolicyTemplate
  <2>3. QED  BY <2>1, <2>2, DigestKeeps
<1>11. ASSUME NEW d \in Digests, PolicyDuplicationSelect(h, d) PROVE Inv'
  BY <1>11, DuplicationKeeps
<1>12. CASE PolicyAuthValue(h) \/ PolicyPassword(h)
  BY <1>12, AuthValueKeeps DEF PolicyAuthValue, PolicyPassword
<1>13. ASSUME NEW w \in {"unwritten", "written"}, PolicyNvWritten(h, w) PROVE Inv'
  BY <1>13, NvWrittenKeeps
<1>14. CASE CheckedNow(h)
  BY <1>14, CheckedNowKeeps
<1>15. CASE PolicyRestart(h)
  <2> DEFINE s == [sessions[h] EXCEPT !.policy = NoPolicy]
  <2>1. sessions[h] \in Session /\ tickets \subseteq Ticket /\ pcrCounter \in Nat
    BY OneSession, Parts, Numbers
  <2>2. s \in Session /\ s.policy = NoPolicy
    BY <2>1, NoPolicyType DEF Session
  <2>3. Agrees(s) /\ Current(s, pcrCounter, gp.allocated, pcr)
    BY <2>1, <2>2, Fresh, ZenonT(30)
  <2>4. /\ sessions' = [sessions EXCEPT ![h] = s] /\ tickets' = tickets
        /\ UNCHANGED <<timeVars, pcrVars, gp, nv, requested>>
    BY <1>15 DEF PolicyRestart
  <2> HIDE DEF s
  <2>5. QED  BY <2>1, <2>2, <2>3, <2>4, SessionStep, ZenonT(30)
<1>16. QED
  BY <1>1, <1>2, <1>3, <1>4, <1>5, <1>6, <1>7, <1>8, <1>9, <1>10, <1>11, <1>12,
     <1>13, <1>14, <1>15
  DEF PolicyCommand, PolicyOR, PolicyNV, PolicyCounterTimer, PolicyAuthorize,
      PolicyAuthorizeNV, PolicyCapability

-----------------------------------------------------------------------------
(* Session contexts.                                                       *)

LEMMA FreshStep ==
    ASSUME Inv, NEW h \in Handles, NEW s \in Session, s.policy = NoPolicy,
           sessions' = [sessions EXCEPT ![h] = s],
           UNCHANGED <<timeVars, pcrVars, gp, nv, tickets, requested>>
    PROVE  Inv'
<1>1. tickets \subseteq Ticket /\ pcrCounter \in Nat
  BY Parts, Numbers
<1>2. Agrees(s) /\ Current(s, pcrCounter, gp.allocated, pcr)
  BY <1>1, Fresh
<1>3. /\ tickets' \subseteq Ticket
      /\ UNCHANGED <<timeVars, pcrVars, gp, nv, requested>>
  BY <1>1
<1>4. QED  BY <1>2, <1>3, SessionStep, ZenonT(30)

LEMMA UseSessionKeeps ==
    ASSUME Inv, NEW h \in Handles, NEW continue \in BOOLEAN,
           UseSession(h, continue)
    PROVE  Inv'
<1> DEFINE s == IF continue THEN UpdateInternalSession(sessions[h]) ELSE Absent
<1>1. sessions[h] \in Session
  BY SessionFacts
<1>2. time \in 0 .. MaxTime /\ gp.timeEpoch \in 0 .. MaxEpoch
  BY Parts, GpParts
<1>3. /\ UpdateInternalSession(sessions[h]) \in Session
      /\ UpdateInternalSession(sessions[h]).policy = NoPolicy
  BY <1>1, <1>2, NoPolicyType, ZenonT(30) DEF UpdateInternalSession, Session
<1>4. s \in Session /\ s.policy = NoPolicy
  BY <1>3, AbsentSession
<1>5. /\ sessions' = [sessions EXCEPT ![h] = s]
      /\ UNCHANGED <<timeVars, pcrVars, gp, nv, tickets, requested>>
  BY DEF UseSession
<1> HIDE DEF s
<1>6. QED  BY <1>4, <1>5, FreshStep, ZenonT(30)

LEMMA StartKeeps ==
    ASSUME Inv, NEW h \in Handles, NEW trial \in BOOLEAN,
           StartAuthSession(h, trial)
    PROVE  Inv'
<1>1. time \in 0 .. MaxTime /\ gp.timeEpoch \in 0 .. MaxEpoch
  BY Parts, GpParts
<1>2. SessionCreate(trial) \in Session /\ SessionCreate(trial).policy = NoPolicy
  BY <1>1, NoPolicyType DEF SessionCreate, Session
<1>3. /\ sessions' = [sessions EXCEPT ![h] = SessionCreate(trial)]
      /\ UNCHANGED <<timeVars, pcrVars, gp, nv, tickets, requested>>
  BY DEF StartAuthSession
<1>4. QED  BY <1>2, <1>3, FreshStep, ZenonT(30)

LEMMA SamePolicy ==
    ASSUME NEW s, NEW t, t.policy = s.policy, t.trial = s.trial, t.epoch = s.epoch,
           NEW n, NEW allocated, NEW values,
           Agrees(s), Current(s, n, allocated, values)
    PROVE  Agrees(t) /\ Current(t, n, allocated, values)
<1> DEFINE p == s.policy
           a == p.asserted
<1>1. /\ CodesFit(p, a) /\ DigestsFit(p, a, s) /\ LocalitiesFit(p, a)
      /\ UntilFit(p, a, s) /\ FlagsFit(p, a, s) /\ Begun(p, a)
      /\ PcrFits(p, a, s, n, allocated, values)
  BY DEF Agrees, Current, Fits
<1> HIDE DEF p, a
<1>2. DigestsFit(p, a, t)
  BY <1>1 DEF DigestsFit
<1>3. UntilFit(p, a, t) /\ FlagsFit(p, a, t)
  BY <1>1 DEF UntilFit, FlagsFit
<1>4. PcrFits(p, a, t, n, allocated, values)
  BY <1>1 DEF PcrFits
<1>5. QED  BY <1>1, <1>2, <1>3, <1>4 DEF Agrees, Current, Fits, p, a

(* Voiding a Shutdown changes nothing the sessions depend on.              *)
LEMMA VoidKeeps ==
    ASSUME Inv, Void
    PROVE  /\ gp' \in Persistent /\ gp'.allocated = gp.allocated
           /\ gp'.timeEpoch = gp.timeEpoch /\ gp'.orderlyState = "NONE"
           /\ nv'.gp \in Persistent /\ nv'.pcrCounter = nv.pcrCounter
           /\ nv'.pcrSave = nv.pcrSave /\ nv'.sessions = nv.sessions
           /\ nv' \in Image
<1>1. gp \in Persistent /\ nv \in Image
  BY Parts
<1>2. ASSUME NEW p \in Persistent
      PROVE  /\ Voided(p) \in Persistent /\ Voided(p).allocated = p.allocated
             /\ Voided(p).timeEpoch = p.timeEpoch
             /\ Voided(p).orderlyState = "NONE"
  BY <1>2 DEF Voided, Persistent
<1>3. gp' = Voided(gp) /\ nv' = [nv EXCEPT !.gp = Voided(nv.gp)]
  BY DEF Void
<1>4. nv.gp \in Persistent
  BY <1>1 DEF Image
<1>5. Voided(nv.gp) \in Persistent
  BY <1>2, <1>4
<1>6. /\ nv' \in Image /\ nv'.gp = Voided(nv.gp) /\ nv'.pcrCounter = nv.pcrCounter
      /\ nv'.pcrSave = nv.pcrSave /\ nv'.sessions = nv.sessions
  BY <1>1, <1>3, <1>5 DEF Image
<1>7. QED  BY <1>1, <1>2, <1>3, <1>5, <1>6

LEMMA ContextKeeps ==
    ASSUME Inv, NEW h \in Handles, NEW w \in {"saved", "loaded"},
           sessions' = [sessions EXCEPT ![h].where = w], Void,
           UNCHANGED <<timeVars, pcrVars, tickets, requested>>
    PROVE  Inv'
<1>1. /\ running' = running /\ stopped' = stopped /\ time' = time
      /\ pcr' = pcr /\ pcrCounter' = pcrCounter /\ pcrReConfig' = pcrReConfig
      /\ gc' = gc /\ requested' = requested /\ tickets' = tickets
  BY DEF timeVars, pcrVars
<1>2. sessions \in [Handles -> Session]
  BY Parts
<1>3. ASSUME NEW g \in Handles
      PROVE  /\ sessions'[g] \in Session
             /\ sessions'[g].policy = sessions[g].policy
             /\ sessions'[g].trial = sessions[g].trial
             /\ sessions'[g].epoch = sessions[g].epoch
  <2>1. sessions[g] \in Session
    BY <1>2
  <2>2. sessions'[g] = IF g = h THEN [sessions[h] EXCEPT !.where = w]
                       ELSE sessions[g]
    BY <1>2
  <2>3. QED  BY <2>1, <2>2 DEF Session
<1>4. sessions' \in [Handles -> Session]
  BY <1>2, <1>3
<1>5. ASSUME NEW g \in Handles
      PROVE  /\ Agrees(sessions'[g])
             /\ Current(sessions'[g], pcrCounter, gp.allocated, pcr)
  <2>1. Agrees(sessions[g]) /\ Current(sessions[g], pcrCounter, gp.allocated, pcr)
    BY OneSession
  <2>2. QED
    BY <1>3, <2>1, SamePolicy, ZenonT(30)
<1>6. ASSUME NEW g \in Handles
      PROVE  sessions'[g].policy.defined # {} <=> sessions'[g].policy.u1 # NoDigest
  BY <1>5, ZenonT(30) DEF Agrees, Fits, DigestsFit
<1>7. TypeOK'
  BY <1>1, <1>4, <1>6, VoidKeeps, ZenonT(30) DEF Inv, TypeOK
<1>8. SavedInv'
  BY VoidKeeps DEF SavedInv
<1>9. QED  BY <1>1, <1>5, <1>7, <1>8, VoidKeeps, ZenonT(30) DEF Inv

LEMMA SessionCommandKeeps ==
    ASSUME Inv, NEW h \in Handles, SessionCommand(h) PROVE Inv'
<1>1. ASSUME NEW continue \in BOOLEAN, UseSession(h, continue) PROVE Inv'
  BY <1>1, UseSessionKeeps
<1>2. ASSUME NEW trial \in BOOLEAN, StartAuthSession(h, trial) PROVE Inv'
  BY <1>2, StartKeeps
<1>3. CASE FlushContext(h)
  BY <1>3, AbsentSession, FreshStep, ZenonT(30) DEF FlushContext
<1>4. CASE ContextSave(h)
  BY <1>4, ContextKeeps, ZenonT(30) DEF ContextSave
<1>5. CASE ContextLoad(h)
  BY <1>5, ContextKeeps, ZenonT(30) DEF ContextLoad
<1>6. QED  BY <1>1, <1>2, <1>3, <1>4, <1>5 DEF SessionCommand

-----------------------------------------------------------------------------
(* PCRs.                                                                   *)

(* A counter that has moved on makes the sessions' counters stale.         *)
LEMMA CounterMoves ==
    ASSUME NEW s \in Session, NEW n \in Nat, NEW m \in Nat, n <= m,
           NEW allocated, NEW v, NEW w, Current(s, n, allocated, v),
           m = n => \A x \in allocated : Counted(x[2]) => w[x] = v[x]
    PROVE  Current(s, m, allocated, w)
<1> DEFINE p == s.policy
           a == p.asserted
<1>1. p.pcrCounter \in Nat
  BY PolicyAssumption DEF Session, PolicyData
<1>2. PcrFits(p, a, s, n, allocated, v)
  BY DEF Current
<1> HIDE DEF p, a
<1>3. p.pcrCounter <= n
  BY <1>2 DEF PcrFits
<1>4. p.pcrCounter <= m /\ (p.pcrCounter = m => m = n)
  BY <1>1, <1>3
<1>5. s.trial = FALSE /\ a.pcr # {} => p.pcrCounter # 0
  BY <1>2 DEF PcrFits
<1>6. ASSUME s.trial = FALSE, p.pcrCounter = m, NEW f \in a.pcr, NEW x \in DOMAIN f
      PROVE  x \in allocated /\ Counted(x[2]) /\ w[x] = f[x]
  <2>1. x \in allocated /\ Counted(x[2]) /\ v[x] = f[x]
    BY <1>2, <1>4, <1>6 DEF PcrFits
  <2>2. QED  BY <1>4, <1>6, <2>1
<1>7. PcrFits(p, a, s, m, allocated, w)
  BY <1>4, <1>5, <1>6, ZenonT(30) DEF PcrFits
<1>8. QED  BY <1>7 DEF Current, p, a

(* A step of the PCRs: a counted PCR does not change without the counter,  *)
(* and a saved one does not change without voiding the Shutdown.           *)
PcrValues ==
    /\ pcr' \in [Cells -> 0 .. MaxExtends] /\ pcrCounter' \in 0 .. MaxCounter
    /\ pcrCounter <= pcrCounter'
    /\ pcrCounter' = pcrCounter =>
          \A x \in Cells : Counted(x[2]) => pcr'[x] = pcr[x]

PcrImage ==
    /\ gp' \in Persistent /\ gp'.allocated = gp.allocated /\ nv' \in Image
    /\ nv'.pcrCounter = nv.pcrCounter /\ nv'.sessions = nv.sessions

PcrSaved ==
    \/ gp'.orderlyState = "NONE"
    \/ /\ gp' = gp /\ nv'.pcrSave = nv.pcrSave
       /\ \A x \in Cells : x[2] \in StateSave => pcr'[x] = pcr[x]

LEMMA PcrStep ==
    ASSUME Inv, PcrValues, PcrImage, PcrSaved,
           pcrReConfig' \in BOOLEAN, requested' \subseteq Cells,
           UNCHANGED <<timeVars, gc, sessions, tickets>>
    PROVE  Inv'
<1>1. /\ running' = running /\ stopped' = stopped /\ time' = time /\ gc' = gc
      /\ sessions' = sessions /\ tickets' = tickets
  BY DEF timeVars
<1>2. pcrCounter \in Nat /\ pcrCounter' \in Nat /\ gp.allocated \subseteq Cells
  <2>1. pcrCounter' \in 0 .. MaxCounter
    BY DEF PcrValues
  <2>2. QED  BY <2>1, Numbers, GpParts, PolicyAssumption
<1>3. ASSUME NEW h \in Handles
      PROVE  Current(sessions[h], pcrCounter', gp.allocated, pcr')
  <2>1. Current(sessions[h], pcrCounter, gp.allocated, pcr) /\ sessions[h] \in Session
    BY OneSession
  <2>2. pcrCounter' = pcrCounter =>
            \A x \in gp.allocated : Counted(x[2]) => pcr'[x] = pcr[x]
    BY <1>2, ZenonT(30) DEF PcrValues
  <2>3. pcrCounter <= pcrCounter'
    BY DEF PcrValues
  <2>4. QED  BY <1>2, <2>1, <2>2, <2>3, CounterMoves
<1>4. TypeOK'
  BY <1>1, ZenonT(30) DEF Inv, TypeOK, PcrValues, PcrImage
<1>5. SavedInv'
  <2>1. CASE gp'.orderlyState = "NONE"
    BY <2>1 DEF SavedInv
  <2>2. CASE /\ gp' = gp /\ nv'.pcrSave = nv.pcrSave
             /\ \A x \in Cells : x[2] \in StateSave => pcr'[x] = pcr[x]
    BY <1>1, <1>2, <2>2, ZenonT(30) DEF SavedInv, Inv
  <2>3. QED  BY <2>1, <2>2 DEF PcrSaved
<1>6. running' = TRUE => pcrCounter' >= 1
  <2>1. running = TRUE => pcrCounter >= 1
    BY ZenonT(30) DEF Inv
  <2>2. QED  BY <1>1, <1>2, <2>1 DEF PcrValues
<1>7. QED  BY <1>1, <1>3, <1>4, <1>5, <1>6, ZenonT(30) DEF Inv, PcrImage

LEMMA FiniteCells == IsFiniteSet(Cells)
BY FS_Product, PolicyAssumption DEF Cells

(* What IfStateSaved() leaves.                                             *)
LEMMA IfStateSavedKeeps ==
    ASSUME Inv, NEW p, IfStateSaved(p)
    PROVE  /\ PcrImage
           /\ \/ gp'.orderlyState = "NONE"
              \/ gp' = gp /\ nv'.pcrSave = nv.pcrSave /\ p \notin StateSave
<1>1. CASE p \in StateSave
  BY <1>1, VoidKeeps DEF IfStateSaved, PcrImage
<1>2. CASE p \notin StateSave
  <2>1. gp' = gp /\ nv' = nv
    BY <1>2 DEF IfStateSaved
  <2>2. QED  BY <1>2, <2>1, Parts DEF PcrImage
<1>3. QED  BY <1>1, <1>2

LEMMA ExtendKeeps ==
    ASSUME Inv, NEW p \in PCRs, NEW banks \in SUBSET Banks, PCR_Extend(p, banks)
    PROVE  Inv'
<1> DEFINE E == (banks \X {p}) \cap gp.allocated
<1>1. /\ pcrCounter \in 0 .. MaxCounter /\ pcr \in [Cells -> 0 .. MaxExtends]
      /\ gp.allocated \subseteq Cells /\ requested \subseteq Cells
      /\ pcrReConfig \in BOOLEAN /\ MaxCounter \in Nat /\ MaxExtends \in Nat
  BY PolicyAssumption, Parts, GpParts
<1>2. /\ \A c \in E : pcr[c] < MaxExtends
      /\ pcr' = [c \in Cells |-> IF c \in E THEN pcr[c] + 1 ELSE pcr[c]]
      /\ PCRChanged(p, Cardinality(E)) /\ IfStateSaved(p)
      /\ UNCHANGED <<timeVars, pcrReConfig, gc, sessions, tickets, requested>>
  BY ZenonT(30) DEF PCR_Extend
<1>3. E \subseteq Cells /\ \A x \in E : x[2] = p
  BY <1>1
<1>4. Cardinality(E) \in Nat /\ (Cardinality(E) = 0 => E = {})
  BY <1>3, FiniteCells, FS_Subset, FS_CardinalityType, FS_EmptySet
<1> HIDE DEF E
<1>5. pcr' \in [Cells -> 0 .. MaxExtends]
  <2>1. ASSUME NEW c \in Cells
        PROVE  (IF c \in E THEN pcr[c] + 1 ELSE pcr[c]) \in 0 .. MaxExtends
    <3>1. pcr[c] \in 0 .. MaxExtends
      BY <1>1
    <3>2. QED  BY <1>1, <1>2, <3>1
  <2>2. QED  BY <1>2, <2>1
<1>a. pcr' = [c \in Cells |-> IF c \in E THEN pcr[c] + 1 ELSE pcr[c]]
  BY <1>2
<1>6. /\ pcrCounter' \in 0 .. MaxCounter /\ pcrCounter <= pcrCounter'
      /\ pcrCounter' = pcrCounter => ~Counted(p) \/ E = {}
  <2>1. pcrCounter \in 0 .. MaxCounter /\ MaxCounter \in Nat
    BY <1>1
  <2>2. PCRChanged(p, Cardinality(E))
    BY <1>2
  <2>3. QED  BY <1>4, <2>1, <2>2 DEF PCRChanged
<1>7. pcrCounter' = pcrCounter =>
          \A x \in Cells : Counted(x[2]) => pcr'[x] = pcr[x]
  BY <1>a, <1>3, <1>6
<1>8. p \notin StateSave =>
          \A x \in Cells : x[2] \in StateSave => pcr'[x] = pcr[x]
  BY <1>a, <1>3
<1>9. pcrReConfig' = pcrReConfig /\ requested' = requested
      /\ UNCHANGED <<timeVars, gc, sessions, tickets>>
  BY <1>2
<1>10. PcrValues
  BY <1>5, <1>6, <1>7, ZenonT(30) DEF PcrValues
<1>11. PcrImage /\ PcrSaved
  BY <1>2, <1>8, IfStateSavedKeeps DEF PcrSaved
<1>12. QED  BY <1>1, <1>9, <1>10, <1>11, PcrStep, ZenonT(30)

LEMMA ResetKeeps ==
    ASSUME Inv, NEW p \in PCRs, PCR_Reset(p) PROVE Inv'
<1>1. /\ pcrCounter \in 0 .. MaxCounter /\ pcr \in [Cells -> 0 .. MaxExtends]
      /\ requested \subseteq Cells /\ pcrReConfig \in BOOLEAN
      /\ MaxCounter \in Nat /\ MaxExtends \in Nat
  BY PolicyAssumption, Parts
<1>2. /\ pcr' = [c \in Cells |-> IF c[2] = p THEN 0 ELSE pcr[c]]
      /\ PCRChanged(p, 1) /\ IfStateSaved(p)
      /\ UNCHANGED <<timeVars, pcrReConfig, gc, sessions, tickets, requested>>
  BY ZenonT(30) DEF PCR_Reset
<1>3. pcr' \in [Cells -> 0 .. MaxExtends]
  BY <1>1, <1>2
<1>4. /\ pcrCounter' \in 0 .. MaxCounter /\ pcrCounter <= pcrCounter'
      /\ pcrCounter' = pcrCounter => ~Counted(p)
  BY <1>1, <1>2 DEF PCRChanged
<1>5. pcrCounter' = pcrCounter =>
          \A x \in Cells : Counted(x[2]) => pcr'[x] = pcr[x]
  BY <1>2, <1>4
<1>6. p \notin StateSave =>
          \A x \in Cells : x[2] \in StateSave => pcr'[x] = pcr[x]
  BY <1>2
<1>7. pcrReConfig' = pcrReConfig /\ requested' = requested
      /\ UNCHANGED <<timeVars, gc, sessions, tickets>>
  BY <1>2
<1>8. PcrValues
  BY <1>3, <1>4, <1>5, ZenonT(30) DEF PcrValues
<1>9. PcrImage /\ PcrSaved
  BY <1>2, <1>6, IfStateSavedKeeps DEF PcrSaved
<1>10. QED  BY <1>1, <1>7, <1>8, <1>9, PcrStep, ZenonT(30)

LEMMA NvTypes ==
    ASSUME Inv
    PROVE  /\ nv.gp \in Persistent /\ nv.pcrCounter \in 0 .. MaxCounter
           /\ nv.pcrSave \in [Cells -> 0 .. MaxExtends]
           /\ nv.sessions \in [Handles -> Session]
BY Parts DEF Image

(* NV with another copy of gp.                                             *)
LEMMA NvWithGp ==
    ASSUME Inv, NEW p \in Persistent
    PROVE  /\ [nv EXCEPT !.gp = p] \in Image
           /\ [nv EXCEPT !.gp = p].pcrCounter = nv.pcrCounter
           /\ [nv EXCEPT !.gp = p].pcrSave = nv.pcrSave
           /\ [nv EXCEPT !.gp = p].sessions = nv.sessions
BY Parts DEF Image

LEMMA AllocateKeeps ==
    ASSUME Inv, NEW request \in AllocRequests, PCR_Allocate(request) PROVE Inv'
<1> DEFINE new == NewAllocation(request)
           q == [nv.gp EXCEPT !.allocated = new]
<1>1. new \in SUBSET Cells
  BY DEF NewAllocation
<1>2. /\ nv' = [nv EXCEPT !.gp = q] /\ pcrReConfig' = TRUE /\ requested' = new
      /\ UNCHANGED <<timeVars, pcr, pcrCounter, gc, gp, sessions, tickets>>
  BY DEF PCR_Allocate
<1> HIDE DEF new
<1>3. q \in Persistent
  BY <1>1, NvTypes DEF Persistent
<1> HIDE DEF q
<1>4. /\ nv' \in Image
      /\ nv'.pcrCounter = nv.pcrCounter /\ nv'.pcrSave = nv.pcrSave
      /\ nv'.sessions = nv.sessions
  BY <1>2, <1>3, NvWithGp
<1>5. /\ pcr' = pcr /\ pcrCounter' = pcrCounter /\ gp' = gp
      /\ UNCHANGED <<timeVars, gc, sessions, tickets>>
  BY <1>2
<1>6. /\ pcr \in [Cells -> 0 .. MaxExtends] /\ pcrCounter \in 0 .. MaxCounter
      /\ gp \in Persistent /\ pcrCounter <= pcrCounter
  BY Parts, Numbers
<1>7. PcrValues
  BY <1>5, <1>6 DEF PcrValues
<1>8. PcrImage /\ PcrSaved
  BY <1>4, <1>5, <1>6, ZenonT(30) DEF PcrImage, PcrSaved
<1>9. QED  BY <1>1, <1>2, <1>5, <1>7, <1>8, PcrStep

LEMMA ClearKeeps == ASSUME Inv, Clear PROVE Inv'
<1>1. /\ pcrCounter \in 0 .. MaxCounter /\ pcr \in [Cells -> 0 .. MaxExtends]
      /\ requested \subseteq Cells /\ pcrReConfig \in BOOLEAN
      /\ MaxCounter \in Nat /\ gp \in Persistent
  BY PolicyAssumption, Parts
<1>2. /\ gp' = Voided(gp) /\ nv' = [nv EXCEPT !.gp = gp']
      /\ PCRChanged(HCRTM_PCR, 1)
      /\ UNCHANGED <<timeVars, pcr, pcrReConfig, gc, sessions, tickets, requested>>
  BY DEF Clear
<1>3. gp' \in Persistent /\ gp'.allocated = gp.allocated /\ gp'.orderlyState = "NONE"
  BY <1>1, <1>2 DEF Voided, Persistent
<1>4. /\ nv' \in Image
      /\ nv'.pcrCounter = nv.pcrCounter /\ nv'.pcrSave = nv.pcrSave
      /\ nv'.sessions = nv.sessions
  BY <1>2, <1>3, NvWithGp
<1>5. pcrCounter' \in 0 .. MaxCounter /\ pcrCounter <= pcrCounter' /\ pcr' = pcr
  BY <1>1, <1>2 DEF PCRChanged
<1>6. PcrValues
  BY <1>1, <1>5 DEF PcrValues
<1>7. PcrImage /\ PcrSaved
  BY <1>3, <1>4, ZenonT(30) DEF PcrImage, PcrSaved
<1>8. QED  BY <1>1, <1>2, <1>6, <1>7, PcrStep

LEMMA PCRCommandKeeps == ASSUME Inv, PCRCommand PROVE Inv'
<1>1. ASSUME NEW p \in PCRs, NEW banks \in SUBSET Banks, PCR_Extend(p, banks)
      PROVE  Inv'
  BY <1>1, ExtendKeeps
<1>2. ASSUME NEW p \in PCRs, PCR_Event(p) PROVE Inv'
  BY <1>2, ExtendKeeps DEF PCR_Event
<1>3. ASSUME NEW p \in PCRs, PCR_Reset(p) PROVE Inv'
  BY <1>3, ResetKeeps
<1>4. ASSUME NEW r \in AllocRequests, PCR_Allocate(r) PROVE Inv'
  BY <1>4, AllocateKeeps
<1>5. QED  BY <1>1, <1>2, <1>3, <1>4, ClearKeeps DEF PCRCommand

-----------------------------------------------------------------------------
(* Time and power.                                                         *)

LEMMA TickKeeps == ASSUME Inv, Tick PROVE Inv'
<1>1. /\ running' = running /\ stopped' = stopped /\ pcr' = pcr
      /\ pcrCounter' = pcrCounter /\ pcrReConfig' = pcrReConfig /\ gc' = gc
      /\ gp' = gp /\ nv' = nv /\ sessions' = sessions /\ tickets' = tickets
      /\ requested' = requested /\ time' = time + 1 /\ time < MaxTime
  BY DEF Tick, pcrVars
<1>2. time' \in 0 .. MaxTime
  BY <1>1, Parts, PolicyAssumption
<1>3. TypeOK'
  BY <1>1, <1>2, ZenonT(30) DEF Inv, TypeOK
<1>4. SavedInv'
  BY <1>1, ZenonT(30) DEF Inv, SavedInv
<1>5. QED  BY <1>1, <1>3, <1>4, ZenonT(30) DEF Inv

LEMMA EpochKeeps == ASSUME Inv, TimeNewEpoch PROVE Inv'
<1> DEFINE e == gp.timeEpoch + 1
           q == [nv.gp EXCEPT !.timeEpoch = e]
<1>1. gp \in Persistent /\ gp.timeEpoch \in 0 .. MaxEpoch /\ MaxEpoch \in Nat
  BY PolicyAssumption, Parts, GpParts
<1>2. /\ gp.timeEpoch < MaxEpoch /\ stopped' = FALSE
      /\ gp' = [gp EXCEPT !.timeEpoch = e]
      /\ running' = running /\ time' = time /\ pcr' = pcr
      /\ pcrCounter' = pcrCounter /\ pcrReConfig' = pcrReConfig /\ gc' = gc
      /\ sessions' = sessions /\ tickets' = tickets /\ requested' = requested
  BY DEF TimeNewEpoch, pcrVars
<1>3. e \in 0 .. MaxEpoch
  BY <1>1, <1>2
<1>4. nv' = [nv EXCEPT !.gp = q]
  <2>1. gp'.timeEpoch = e
    BY <1>1, <1>2 DEF Persistent
  <2>2. QED  BY <2>1 DEF TimeNewEpoch
<1> HIDE DEF e
<1>5. q \in Persistent
  BY <1>3, NvTypes DEF Persistent
<1>6. /\ gp' \in Persistent /\ gp'.allocated = gp.allocated
      /\ gp'.orderlyState = gp.orderlyState
  BY <1>1, <1>2, <1>3 DEF Persistent
<1> HIDE DEF q
<1>7. /\ nv' \in Image
      /\ nv'.pcrCounter = nv.pcrCounter /\ nv'.pcrSave = nv.pcrSave
      /\ nv'.sessions = nv.sessions
  BY <1>4, <1>5, NvWithGp
<1>8. TypeOK'
  BY <1>2, <1>6, <1>7, ZenonT(30) DEF Inv, TypeOK
<1>9. SavedInv'
  BY <1>2, <1>6, <1>7, ZenonT(30) DEF Inv, SavedInv
<1>10. QED  BY <1>2, <1>6, <1>7, <1>8, <1>9, ZenonT(30) DEF Inv

LEMMA ShutdownKeeps ==
    ASSUME Inv, NEW type \in {"CLEAR", "STATE"}, Shutdown(type) PROVE Inv'
<1> DEFINE q == [nv.gp EXCEPT !.orderlyState = type]
<1>1. /\ gp' = [gp EXCEPT !.orderlyState = type]
      /\ running' = running /\ stopped' = stopped /\ time' = time /\ pcr' = pcr
      /\ pcrCounter' = pcrCounter /\ pcrReConfig' = pcrReConfig
      /\ sessions' = sessions /\ tickets' = tickets /\ requested' = requested
  BY DEF Shutdown, timeVars
<1>2. gp \in Persistent
  BY Parts
<1>3. /\ gp' \in Persistent /\ gp'.allocated = gp.allocated
      /\ gp'.orderlyState = type
  BY <1>1, <1>2 DEF Persistent
<1>4. q \in Persistent
  BY NvTypes DEF Persistent
<1>5. CASE type = "CLEAR"
  <2>1. nv' = [nv EXCEPT !.gp = q] /\ gc' = gc
    BY <1>5 DEF Shutdown
  <2> HIDE DEF q
  <2>2. /\ nv' \in Image
        /\ nv'.pcrCounter = nv.pcrCounter /\ nv'.pcrSave = nv.pcrSave
        /\ nv'.sessions = nv.sessions
    BY <1>4, <2>1, NvWithGp
  <2>3. TypeOK'
    BY <1>1, <1>3, <2>1, <2>2, ZenonT(30) DEF Inv, TypeOK
  <2>4. SavedInv'
    BY <1>3, <1>5 DEF SavedInv
  <2>5. QED  BY <1>1, <1>3, <2>2, <2>3, <2>4, ZenonT(30) DEF Inv
<1>6. CASE type = "STATE"
  <2>1. /\ gc' = PCRStateSave
        /\ nv' = [nv EXCEPT !.gp = q, !.pcrSave = gc', !.pcrCounter = pcrCounter,
                            !.sessions = sessions]
    BY <1>6 DEF Shutdown
  <2>2. gc \in [Cells -> 0 .. MaxExtends] /\ pcr \in [Cells -> 0 .. MaxExtends]
        /\ pcrCounter \in 0 .. MaxCounter /\ sessions \in [Handles -> Session]
    BY Parts
  <2>3. gc' \in [Cells -> 0 .. MaxExtends]
    BY <2>1, <2>2 DEF PCRStateSave
  <2>4. ASSUME NEW c \in gp.allocated, c[2] \in StateSave PROVE gc'[c] = pcr[c]
    <3>1. c \in Cells
      BY <1>2 DEF Persistent
    <3>2. QED  BY <2>1, <2>4, <3>1 DEF PCRStateSave
  <2> HIDE DEF q
  <2>5. /\ nv' \in Image
        /\ nv'.pcrCounter = pcrCounter /\ nv'.pcrSave = gc'
        /\ nv'.sessions = sessions
    BY <1>4, <2>1, <2>2, <2>3, Parts DEF Image
  <2>6. TypeOK'
    BY <1>1, <1>3, <2>3, <2>5, ZenonT(30) DEF Inv, TypeOK
  <2>7. SavedInv'
    BY <1>1, <1>3, <2>4, <2>5 DEF SavedInv
  <2>8. ASSUME NEW h \in Handles
        PROVE  Agrees(sessions[h]) /\ Behind(sessions[h], pcrCounter)
    BY OneSession, ZenonT(30) DEF Current, PcrFits, Behind
  <2>9. QED  BY <1>1, <1>3, <2>5, <2>6, <2>7, <2>8, ZenonT(30) DEF Inv
<1>7. QED  BY <1>5, <1>6

LEMMA PowerCycleKeeps == ASSUME Inv, PowerCycle PROVE Inv'
<1>1. /\ running' = FALSE /\ stopped' = TRUE /\ time' = 0 /\ pcrCounter' = 0
      /\ pcr' = [c \in Cells |-> 0] /\ pcrReConfig' = FALSE
      /\ gc' = [c \in Cells |-> 0] /\ gp' = nv.gp
      /\ sessions' = [h \in Handles |-> Absent]
      /\ nv' = nv /\ tickets' = tickets /\ requested' = requested
  BY DEF PowerCycle
<1>2. ASSUME NEW h \in Handles
      PROVE  /\ sessions'[h] \in Session
             /\ Agrees(sessions'[h])
             /\ Current(sessions'[h], pcrCounter', gp'.allocated, pcr')
  <2>1. sessions'[h] = Absent
    BY <1>1
  <2>2. QED  BY <1>1, <2>1, AbsentSession, Fresh
<1>3. sessions' \in [Handles -> Session]
  BY <1>1, AbsentSession
<1>4. ASSUME NEW h \in Handles
      PROVE  sessions'[h].policy.defined # {} <=> sessions'[h].policy.u1 # NoDigest
  BY <1>2, ZenonT(30) DEF Agrees, Fits, DigestsFit
<1>5. TypeOK'
  <2>1. gc' \in [Cells -> 0 .. MaxExtends] /\ pcr' \in [Cells -> 0 .. MaxExtends]
    BY <1>1, PolicyAssumption
  <2>2. time' \in 0 .. MaxTime /\ pcrCounter' \in 0 .. MaxCounter
    BY <1>1, PolicyAssumption
  <2>3. gp' \in Persistent
    BY <1>1, NvTypes
  <2>4. QED  BY <1>1, <1>3, <1>4, <2>1, <2>2, <2>3, ZenonT(30) DEF Inv, TypeOK
<1>6. SavedInv'
  BY <1>1 DEF SavedInv
<1>7. QED  BY <1>1, <1>2, <1>5, <1>6, ZenonT(30) DEF Inv

(* Without power there are no sessions.                                    *)
Off == running = FALSE => \A h \in Handles : sessions[h] = Absent

LEMMA CommandsNeedPower ==
    ASSUME NEW h \in Handles, running \in BOOLEAN,
           PolicyCommand(h) \/ SessionCommand(h)
    PROVE  running' = TRUE
<1>1. ASSUME Ready, UNCHANGED timeVars PROVE running' = TRUE
  BY <1>1 DEF Ready, timeVars
<1>2. ASSUME NEW p, NEW a, Loaded(h), Asserts(h, p, a) PROVE running' = TRUE
  BY <1>1, <1>2 DEF Loaded, Asserts
<1>3. ASSUME NEW e, NEW n, NEW x, NEW d, AuthorizedBy(h, e, n, x, d)
      PROVE  running' = TRUE
  BY <1>2, <1>3, ZenonT(30) DEF AuthorizedBy
<1>4. ASSUME NEW k, NEW d, Loaded(h), BindDigest(h, k, d) PROVE running' = TRUE
  BY <1>2, <1>4, ZenonT(30) DEF BindDigest
<1>5. ASSUME NEW t, PolicyTicket(h, t) PROVE running' = TRUE
  BY <1>2, <1>5, ZenonT(30) DEF PolicyTicket
<1>6. ASSUME NEW s, PolicyPCR(h, s) PROVE running' = TRUE
  BY <1>2, <1>6, ZenonT(30) DEF PolicyPCR
<1>7. ASSUME NEW l, PolicyLocality(h, l) PROVE running' = TRUE
  BY <1>2, <1>7, ZenonT(30) DEF PolicyLocality
<1>8. ASSUME NEW c, PolicyCommandCode(h, c) PROVE running' = TRUE
  BY <1>2, <1>8, ZenonT(30) DEF PolicyCommandCode
<1>9. ASSUME NEW d, PolicyDuplicationSelect(h, d) PROVE running' = TRUE
  BY <1>2, <1>9, ZenonT(30) DEF PolicyDuplicationSelect
<1>10. ASSUME NEW n, NeedAuthValue(h, n) PROVE running' = TRUE
  BY <1>2, <1>10, ZenonT(30) DEF NeedAuthValue
<1>11. ASSUME NEW w, PolicyNvWritten(h, w) PROVE running' = TRUE
  BY <1>2, <1>11, ZenonT(30) DEF PolicyNvWritten
<1>12. CASE CheckedNow(h)
  BY <1>2, <1>12, ZenonT(30) DEF CheckedNow
<1>13. CASE PolicyPhysicalPresence(h)
  BY <1>2, <1>13, ZenonT(30) DEF PolicyPhysicalPresence
<1>14. CASE PolicyRestart(h)
  BY <1>1, <1>14 DEF PolicyRestart, Loaded
<1>15. CASE SessionCommand(h)
  BY <1>1, <1>15, ZenonT(30) DEF SessionCommand, UseSession, StartAuthSession, FlushContext,
                     ContextSave, ContextLoad, Loaded
<1>16. ASSUME NEW d,
              \/ PolicyCpHash(h, d) \/ PolicyNameHash(h, d)
              \/ PolicyParameters(h, d) \/ PolicyTemplate(h, d)
       PROVE  running' = TRUE
  BY <1>4, <1>16, ZenonT(30) DEF PolicyCpHash, PolicyNameHash, PolicyParameters, PolicyTemplate
<1>17. CASE PolicyCommand(h)
  BY <1>3, <1>5, <1>6, <1>7, <1>8, <1>9, <1>10, <1>11, <1>12, <1>13, <1>14,
     <1>16, <1>17, ZenonT(30)
     DEF PolicyCommand, PolicySigned, PolicySecret, PolicyAuthValue,
         PolicyPassword, PolicyOR, PolicyNV, PolicyCounterTimer,
         PolicyAuthorize, PolicyAuthorizeNV, PolicyCapability
<1>18. QED  BY <1>15, <1>17, ZenonT(30)

LEMMA OffKeeps == ASSUME running \in BOOLEAN, Off, [Next]_vars PROVE Off'
<1>1. ASSUME running' = running, sessions' = sessions PROVE Off'
  BY <1>1 DEF Off
<1>2. ASSUME NEW h \in Handles, PolicyCommand(h) \/ SessionCommand(h) PROVE Off'
  BY <1>2, CommandsNeedPower, ZenonT(30) DEF Off
<1>3. CASE PCRCommand
  BY <1>1, <1>3, ZenonT(30) DEF PCRCommand, PCR_Event, PCR_Extend, PCR_Reset, PCR_Allocate,
                    Clear, timeVars
<1>4. CASE Tick \/ TimeNewEpoch
  BY <1>1, <1>4 DEF Tick, TimeNewEpoch
<1>5. ASSUME NEW type \in {"CLEAR", "STATE"}, Shutdown(type) \/ Startup(type)
      PROVE  Off'
  <2>1. CASE Shutdown(type)
    BY <1>1, <2>1 DEF Shutdown, timeVars
  <2>2. CASE Startup(type)
    BY <2>2 DEF Startup, Off
  <2>3. QED  BY <1>5, <2>1, <2>2
<1>6. CASE PowerCycle
  BY <1>6 DEF PowerCycle, Off
<1>7. CASE UNCHANGED vars
  BY <1>1, <1>7 DEF vars
<1>8. QED  BY <1>2, <1>3, <1>4, <1>5, <1>6, <1>7 DEF Next, PowerAndTime

(* A saved session is behind any later counter.                            *)
LEMMA BehindIsCurrent ==
    ASSUME NEW s \in Session, NEW n \in Nat, NEW m \in Nat, n < m, Behind(s, n),
           NEW allocated, NEW values
    PROVE  Current(s, m, allocated, values)
<1>1. s.policy.pcrCounter \in Nat
  BY PolicyAssumption DEF Session, PolicyData
<1>2. s.policy.pcrCounter <= m /\ s.policy.pcrCounter # m
  BY <1>1 DEF Behind
<1>3. QED  BY <1>2 DEF Behind, Current, PcrFits

(* A Startup counts at least one change: ResumeCounts.                     *)
LEMMA StartupCounts ==
    ASSUME NEW type
    PROVE  LET changed == {p \in PCRs \ Restored(type) : Counted(p)}
           IN  Cardinality(changed) \in Nat /\ Cardinality(changed) >= 1
<1> DEFINE changed == {p \in PCRs \ Restored(type) : Counted(p)}
<1>1. PICK p \in PCRs : p \notin StateSave /\ p \notin TCB
  BY ResumeCounts
<1>2. p \in changed
  BY <1>1 DEF Restored, Counted
<1>3. changed \subseteq PCRs
  OBVIOUS
<1> HIDE DEF changed
<1>4. IsFiniteSet(changed)
  BY <1>3, PolicyAssumption, FS_Subset
<1>5. Cardinality(changed) \in Nat /\ Cardinality(changed) # 0
  BY <1>2, <1>4, FS_CardinalityType, FS_EmptySet
<1>6. Cardinality(changed) >= 1
  BY <1>5
<1>7. QED  BY <1>5, <1>6 DEF changed

LEMMA StartupKeeps ==
    ASSUME Inv, Off, NEW type \in {"CLEAR", "STATE"}, Startup(type) PROVE Inv'
<1> DEFINE n == IF gp.orderlyState = "STATE" THEN nv.pcrCounter ELSE 0
           k == Cardinality({p \in PCRs \ Restored(type) : Counted(p)})
<1>1. /\ running = FALSE /\ running' = TRUE /\ stopped' = stopped /\ time' = time
      /\ pcrReConfig' = pcrReConfig /\ tickets' = tickets /\ requested' = requested
      /\ Void
  BY Parts, ZenonT(30) DEF Startup
<1>2. k \in Nat /\ k >= 1
  BY StartupCounts
<1>3. pcrCounter' = n + k /\ pcrCounter' <= MaxCounter
  BY DEF Startup, PCRStartup
<1>4. n \in Nat
  BY NvTypes, PolicyAssumption
<1> HIDE DEF n, k
<1>5. /\ pcrCounter' \in Nat /\ pcrCounter' >= 1 /\ n < pcrCounter'
      /\ pcrCounter' \in 0 .. MaxCounter
  BY <1>2, <1>3, <1>4, PolicyAssumption
<1>6. pcr' \in [Cells -> 0 .. MaxExtends]
  <2>1. nv.pcrSave \in [Cells -> 0 .. MaxExtends] /\ 0 \in 0 .. MaxExtends
    BY NvTypes, PolicyAssumption
  <2>2. pcr' = [c \in Cells |->
                  IF c \in gp.allocated /\ c[2] \in Restored(type)
                  THEN nv.pcrSave[c] ELSE 0]
    BY DEF Startup, PCRStartup
  <2>3. QED  BY <2>1, <2>2
<1>7. gc' \in [Cells -> 0 .. MaxExtends]
  BY NvTypes, Parts, ZenonT(30) DEF Startup
<1>8. ASSUME NEW h \in Handles
      PROVE  /\ sessions'[h] \in Session
             /\ Agrees(sessions'[h])
             /\ Current(sessions'[h], pcrCounter', gp'.allocated, pcr')
  <2>1. CASE sessions'[h] = Absent
    BY <1>5, <2>1, AbsentSession, Fresh
  <2>2. CASE /\ gp.orderlyState = "STATE"
             /\ sessions'[h] = nv.sessions[h]
    <3>1. n = nv.pcrCounter
      BY <2>2 DEF n
    <3>2. nv.sessions[h] \in Session
      BY NvTypes
    <3>3. Agrees(nv.sessions[h]) /\ Behind(nv.sessions[h], n)
      BY <3>1, ZenonT(30) DEF Inv
    <3>4. Current(nv.sessions[h], pcrCounter', gp'.allocated, pcr')
      BY <1>4, <1>5, <3>2, <3>3, BehindIsCurrent
    <3>5. QED  BY <2>2, <3>2, <3>3, <3>4
  <2>3. sessions'[h] = Absent
        \/ (gp.orderlyState = "STATE" /\ sessions'[h] = nv.sessions[h])
    BY <1>1, ZenonT(30) DEF Startup, SessionStartup, Off
  <2>4. QED  BY <2>1, <2>2, <2>3, ZenonT(30)
<1>9. sessions' \in [Handles -> Session]
  <2>1. sessions' \in [Handles -> Session]
        \/ sessions' = SessionStartup(nv.sessions)
    BY Parts, ZenonT(30) DEF Startup
  <2>2. CASE sessions' = SessionStartup(nv.sessions)
    BY <1>8, <2>2 DEF SessionStartup
  <2>3. QED  BY <2>1, <2>2
<1>10. ASSUME NEW h \in Handles
       PROVE  sessions'[h].policy.defined # {} <=> sessions'[h].policy.u1 # NoDigest
  BY <1>8, ZenonT(30) DEF Agrees, Fits, DigestsFit
<1>11. TypeOK'
  BY <1>1, <1>5, <1>6, <1>7, <1>9, <1>10, VoidKeeps, ZenonT(30) DEF Inv, TypeOK
<1>12. SavedInv'
  BY <1>1, VoidKeeps, ZenonT(30) DEF SavedInv
<1>13. QED  BY <1>1, <1>5, <1>8, <1>11, <1>12, VoidKeeps, ZenonT(30) DEF Inv

-----------------------------------------------------------------------------
(* The theorems.                                                           *)

LEMMA InitInv == ASSUME Init PROVE Inv /\ Off
<1>1. ASSUME NEW h \in Handles, NEW allocated, NEW values
      PROVE  /\ Absent \in Session /\ Agrees(Absent)
             /\ Current(Absent, 0, allocated, values)
  BY AbsentSession, Fresh
<1>2. ASSUME NEW h \in Handles PROVE Agrees(Absent) /\ Behind(Absent, 0)
  BY AbsentSession, Fresh, <1>1, ZenonT(30) DEF Current, PcrFits, Behind
<1>3. ASSUME NEW h \in Handles PROVE sessions[h] = Absent /\ nv.sessions[h] = Absent
  BY DEF Init
<1>4. gp \in Persistent
  BY PolicyAssumption DEF Init, Persistent, Cells
<1>5. gc \in [Cells -> 0 .. MaxExtends] /\ pcr \in [Cells -> 0 .. MaxExtends]
  BY PolicyAssumption DEF Init
<1>6. sessions \in [Handles -> Session]
  BY AbsentSession DEF Init
<1>7. /\ nv \in Image
      /\ nv.pcrCounter = 0
  BY <1>4, <1>5, <1>6, PolicyAssumption DEF Init, Image
<1>8. ASSUME NEW h \in Handles
      PROVE  sessions[h].policy.defined # {} <=> sessions[h].policy.u1 # NoDigest
  BY <1>1, <1>3, ZenonT(30) DEF Agrees, Fits, DigestsFit
<1>9. /\ running = FALSE /\ stopped = TRUE /\ time = 0 /\ pcrCounter = 0
      /\ pcrReConfig = FALSE /\ tickets = {} /\ requested = gp.allocated
  BY DEF Init
<1>10. requested \subseteq Cells /\ time \in 0 .. MaxTime
       /\ pcrCounter \in 0 .. MaxCounter
  BY <1>4, <1>9, PolicyAssumption DEF Persistent
<1>11. TypeOK
  BY <1>4, <1>5, <1>6, <1>7, <1>8, <1>9, <1>10, ZenonT(30) DEF TypeOK
<1>12. SavedInv
  BY <1>9 DEF SavedInv
<1>13. ASSUME NEW h \in Handles
       PROVE  /\ Agrees(sessions[h])
              /\ Current(sessions[h], pcrCounter, gp.allocated, pcr)
              /\ Agrees(nv.sessions[h]) /\ Behind(nv.sessions[h], nv.pcrCounter)
  BY <1>1, <1>2, <1>3, <1>7, <1>9, ZenonT(30)
<1>14. QED  BY <1>3, <1>9, <1>11, <1>12, <1>13 DEF Inv, Off

LEMMA NextKeeps == ASSUME Inv, Off, [Next]_vars PROVE Inv' /\ Off'
<1>1. Off'
  BY Parts, OffKeeps
<1> SUFFICES Inv'
  BY <1>1
<1>2. ASSUME NEW h \in Handles, PolicyCommand(h) \/ SessionCommand(h) PROVE Inv'
  BY <1>2, PolicyCommandKeeps, SessionCommandKeeps
<1>3. CASE PowerAndTime
  <2>1. ASSUME NEW type \in {"CLEAR", "STATE"}, Shutdown(type) PROVE Inv'
    BY <2>1, ShutdownKeeps
  <2>2. ASSUME NEW type \in {"CLEAR", "STATE"}, Startup(type) PROVE Inv'
    BY <2>2, StartupKeeps
  <2>3. CASE Tick
    BY <2>3, TickKeeps
  <2>4. CASE TimeNewEpoch
    BY <2>4, EpochKeeps
  <2>5. CASE PowerCycle
    BY <2>5, PowerCycleKeeps
  <2>6. QED  BY <1>3, <2>1, <2>2, <2>3, <2>4, <2>5 DEF PowerAndTime
<1>4. CASE UNCHANGED vars
  <2>1. /\ running' = running /\ stopped' = stopped /\ time' = time /\ pcr' = pcr
        /\ pcrCounter' = pcrCounter /\ pcrReConfig' = pcrReConfig /\ gc' = gc
        /\ gp' = gp /\ sessions' = sessions /\ nv' = nv /\ tickets' = tickets
        /\ requested' = requested
    BY <1>4 DEF vars
  <2>2. TypeOK'
    BY <2>1, ZenonT(30) DEF Inv, TypeOK
  <2>3. SavedInv'
    BY <2>1, ZenonT(30) DEF Inv, SavedInv
  <2>4. QED  BY <2>1, <2>2, <2>3, ZenonT(30) DEF Inv
<1>5. QED  BY <1>2, <1>3, <1>4, PCRCommandKeeps DEF Next

(* The fields of a SESSION are as strict as what was asserted in it, in    *)
(* every reachable state.                                                  *)
THEOREM Invariance == Spec => [](Inv /\ Off)
<1>1. Init => Inv /\ Off
  BY InitInv
<1>2. Inv /\ Off /\ [Next]_vars => Inv' /\ Off'
  BY NextKeeps
<1>3. QED  BY <1>1, <1>2, PTL DEF Spec

(* The state keeps its types, and the digest union of a session agrees     *)
(* with the flags that say which digest it holds.                          *)
THEOREM TypeCorrect == Spec => []TypeOK
<1>1. Inv /\ Off => TypeOK
  BY ZenonT(30) DEF Inv
<1>2. QED  BY <1>1, Invariance, PTL

LEMMA DigestHolds ==
    ASSUME NEW s \in Session, NEW c \in Command, s.trial = FALSE,
           DigestsFit(s.policy, s.policy.asserted, s), HashAllowed(s.policy, c),
           NEW d \in s.policy.asserted.digests
    PROVE  \E k \in Kinds : /\ <<k, d[2]>> \in s.policy.asserted.digests
                            /\ c.digest[k] = d[2]
<1> DEFINE p == s.policy
           a == p.asserted
<1>1. p \in PolicyData /\ a \in Asserted
  BY PolicyOf
<1>2. a \in Asserted /\ p.defined \subseteq Kinds
  BY <1>1 DEF PolicyData
<1>3. d[2] \in Digests
  BY <1>2 DEF Asserted
<1>4. d[2] = p.u1 /\ p.u1 # NoDigest
  BY <1>3, PolicyAssumption DEF DigestsFit
<1>5. p.defined # {}
  BY <1>4 DEF DigestsFit
<1>6. \E k \in p.defined : p.u1 = c.digest[k]
  BY <1>2, <1>4, <1>5 DEF HashAllowed, Kinds
<1>7. QED  BY <1>2, <1>4, <1>6 DEF DigestsFit

LEMMA Deferred ==
    ASSUME Inv, NEW h \in Handles, NEW c \in Command, Authorizes(sessions[h], c),
           sessions[h].policy.policyDigest # "zero"
    PROVE  HoldsOf(sessions[h].policy.asserted, c)
<1> DEFINE s == sessions[h]
           p == s.policy
           a == p.asserted
<1>1. s \in Session /\ p \in PolicyData /\ a \in Asserted
  BY SessionFacts
<1>2. Agrees(s) /\ Current(s, pcrCounter, gp.allocated, pcr)
  BY OneSession
<1>3. /\ CodesFit(p, a) /\ DigestsFit(p, a, s) /\ LocalitiesFit(p, a)
      /\ UntilFit(p, a, s) /\ FlagsFit(p, a, s) /\ Begun(p, a)
      /\ PcrFits(p, a, s, pcrCounter, gp.allocated, pcr)
  BY <1>2 DEF Agrees, Fits, Current
<1>4. s.trial = FALSE
  BY <1>1 DEF Authorizes, Session
<1>5. /\ SessionPCRValueIsCurrent(p) /\ NotExpired(s)
      /\ CommandAllowed(p, c) /\ LocalityAllowed(p, c)
      /\ p.isPPRequired => c.presence
      /\ HashAllowed(p, c) /\ WrittenAllowed(p, c)
      /\ p.needed # "nothing" => c.knowsAuth
  BY ZenonT(30) DEF Authorizes, CheckPolicyAuthSession
<1>6. ASSUME NEW d \in a.digests
      PROVE  \E k \in Kinds : <<k, d[2]>> \in a.digests /\ c.digest[k] = d[2]
  BY <1>1, <1>3, <1>4, <1>5, DigestHolds, ZenonT(30)
<1>7. p.timeout # 0 => time <= p.timeout /\ s.epoch = gp.timeEpoch
  BY <1>5, ZenonT(30) DEF NotExpired
<1>8. time \in Nat /\ p.timeout \in Nat /\ pcrCounter \in Nat
  BY <1>1, Numbers DEF PolicyData
<1>Extended. p.policyDigest # "zero"
  OBVIOUS
<1> HIDE DEF s, p, a
<1>0. /\ a.any \in BOOLEAN /\ a.verified \in BOOLEAN /\ a.presence \in BOOLEAN
      /\ a.authValue \in BOOLEAN
  BY <1>1 DEF Asserted
<1>9. a.any /\ a.verified
  <2>1. p.policyDigest = "extended"
    BY <1>1, <1>Extended DEF PolicyData
  <2>2. QED  BY <1>0, <1>3, <1>4, <2>1, ZenonT(30) DEF Begun, FlagsFit
<1>10. ASSUME NEW f \in a.pcr, NEW x \in DOMAIN f
       PROVE  x \in gp.allocated /\ pcr[x] = f[x]
  <2>1. p.pcrCounter # 0
    BY <1>3, <1>4, ZenonT(30) DEF PcrFits
  <2>2. p.pcrCounter = pcrCounter
    BY <1>5, <2>1, ZenonT(30) DEF SessionPCRValueIsCurrent
  <2>3. QED  BY <1>3, <1>4, <2>2, ZenonT(30) DEF PcrFits
<1>11. a.codes \subseteq {c.code} /\ (c.role = "ADMIN" => a.codes # {})
  BY <1>3, <1>5, ZenonT(30) DEF CodesFit, CommandAllowed
<1>12. ASSUME NEW l \in a.localities PROVE c.locality \in l
  BY <1>3, <1>5, ZenonT(30) DEF LocalitiesFit, LocalityAllowed
<1>13. ASSUME NEW u \in a.until
       PROVE  u.epoch = gp.timeEpoch /\ time <= u.deadline
  <2>1. u.deadline \in Nat
    BY <1>1 DEF Asserted
  <2>2. p.timeout # 0 /\ p.timeout <= u.deadline /\ u.epoch = s.epoch
    BY <1>3, ZenonT(30) DEF UntilFit
  <2>3. QED  BY <1>7, <1>8, <2>1, <2>2
<1>14. (a.presence => c.presence) /\ (a.authValue => c.knowsAuth)
  BY <1>0, <1>3, <1>5, ZenonT(30) DEF FlagsFit
<1>15. ASSUME NEW w \in a.written PROVE c.index = w
  <2>1. w \in {"unwritten", "written"}
    BY <1>1 DEF Asserted
  <2>2. p.checkNvWritten = w /\ p.checkNvWritten \in {"no", c.index}
    BY <1>3, <1>5, ZenonT(30) DEF FlagsFit, WrittenAllowed
  <2>3. QED  BY <2>1, <2>2
<1>16. HoldsOf(a, c)
  BY <1>6, <1>9, <1>10, <1>11, <1>12, <1>13, <1>14, <1>15, ZenonT(30) DEF HoldsOf
<1>17. QED  BY <1>16 DEF s, p, a

(* A session CheckPolicyAuthSession() lets through for a command: each     *)
(* assertion made in it since its last use holds of that command, now.     *)
THEOREM AuthorizedAsAssertedHolds == Spec => []AuthorizedAsAsserted
<1>1. Inv /\ Off => AuthorizedAsAsserted
  BY Deferred, PolicyAssumption DEF AuthorizedAsAsserted
<1>2. QED  BY <1>1, Invariance, PTL

(* While a Shutdown(STATE) is in force, the PCR values it saved are the    *)
(* current ones.                                                           *)
THEOREM SavedPcrsCurrentHolds == Spec => []SavedPcrsCurrent
<1>1. Inv /\ Off => SavedPcrsCurrent
  BY DEF Inv, SavedInv, SavedPcrsCurrent
<1>2. QED  BY <1>1, Invariance, PTL

=============================================================================
