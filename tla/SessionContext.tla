--------------------------- MODULE SessionContext ---------------------------
(***************************************************************************)
(* The session context manager of the TPM (Session.c) together with the    *)
(* commands that drive it: StartAuthSession, ContextSave, ContextLoad,     *)
(* FlushContext, the implicit flush of a session used with continueSession *)
(* CLEAR, Shutdown, Startup, and a loss of power at any moment.            *)
(*                                                                         *)
(* A session is identified by its index in contextArray.  An entry is 0    *)
(* when the index is free, slot + 1 while the session is loaded in         *)
(* s_sessions[slot], and the low bits of the contextID while the session   *)
(* is saved outside the TPM.  Session contents are abstracted to the index *)
(* of the session they belong to.                                          *)
(***************************************************************************)
EXTENDS Integers, FiniteSets

CONSTANTS MAX_ACTIVE_SESSIONS,  \* entries of contextArray
          MAX_LOADED_SESSIONS,  \* session slots in RAM
          SLOT_MOD,             \* 2^w for the w-bit CONTEXT_SLOT
          COUNTER_MAX,          \* largest value of contextCounter, 2^64 - 1
          MaxResets             \* bound: TPM Resets explored

ASSUME SizesAssumption ==
    /\ MAX_LOADED_SESSIONS \in Nat \ {0}
    /\ MAX_ACTIVE_SESSIONS \in Nat
    /\ MAX_ACTIVE_SESSIONS >= MAX_LOADED_SESSIONS
    /\ SLOT_MOD \in Nat
    /\ SLOT_MOD > MAX_LOADED_SESSIONS + 1
    /\ COUNTER_MAX \in Nat
    /\ (COUNTER_MAX + 1) % SLOT_MOD = 0
    /\ MaxResets \in Nat

Sessions  == 0 .. (MAX_ACTIVE_SESSIONS - 1)
Slots     == 0 .. (MAX_LOADED_SESSIONS - 1)
NoOldest  == MAX_ACTIVE_SESSIONS + 1
Empty     == -1     \* an s_sessions entry whose occupied flag is FALSE
FirstID   == MAX_LOADED_SESSIONS + 1

VARIABLES
    \* STATE_RESET_DATA gr, saved by Shutdown(STATE)
    contextArray, contextCounter,
    \* RAM
    s_sessions, s_freeSessionSlots, s_oldestSavedSession, started,
    \* NV
    orderlyState, nvReset, totalResetCount,
    \* history: contexts handed out by the TPM, and those it accepted back
    contexts, loaded

gr    == <<contextArray, contextCounter>>
ram   == <<s_sessions, s_freeSessionSlots, s_oldestSavedSession>>
nv    == <<orderlyState, nvReset, totalResetCount>>
hist  == <<contexts, loaded>>
vars  == <<contextArray, contextCounter, s_sessions, s_freeSessionSlots,
           s_oldestSavedSession, started, orderlyState, nvReset,
           totalResetCount, contexts, loaded>>

Context == [handle : Sessions, sequence : Nat, reset : Nat]

-----------------------------------------------------------------------------
(* Helpers of Session.c *)

\* The cast (CONTEXT_SLOT)x.
LowBits(x) == x % SLOT_MOD

IsLoaded(h) == contextArray[h] \in 1 .. MAX_LOADED_SESSIONS

IsSaved(h) == contextArray[h] > MAX_LOADED_SESSIONS

\* Distance of a saved entry above the counter, modulo the slot width: the
\* entry with the smallest distance was saved first.
Distance(entry, counter) == (entry - LowBits(counter)) % SLOT_MOD

SavedIn(array) == {h \in Sessions : array[h] > MAX_LOADED_SESSIONS}

ContextIdSetOldest(array, counter) ==
    IF SavedIn(array) = {} THEN NoOldest
    ELSE CHOOSE h \in SavedIn(array) :
            \A k \in SavedIn(array) :
                \/ Distance(array[h], counter) < Distance(array[k], counter)
                \/ /\ Distance(array[h], counter) = Distance(array[k], counter)
                   /\ k <= h

\* Mutant: no test for a colliding contextID.
MutGapIsMax == FALSE

\* The next contextID would have the low bits of the oldest saved context.
GapIsMax ==
    /\ s_oldestSavedSession < MAX_ACTIVE_SESSIONS
    /\ contextArray[s_oldestSavedSession] = LowBits(contextCounter)

FreeSlots == {s \in Slots : s_sessions[s] = Empty}

\* The loops over s_sessions and contextArray stop at the first free entry.
FirstFree(S) == CHOOSE s \in S : \A t \in S : s <= t

\* After an increment that clears the low bits the counter steps over the
\* values that denote loaded sessions.
Increment(c) ==
    IF LowBits(c + 1) = 0 THEN c + 1 + FirstID ELSE c + 1

\* Mutant: the command leaves a valid orderly state in NV.
MutClearOrderly == UNCHANGED orderlyState

\* g_clearOrderly: ExecuteCommand drops an orderly state from NV.
ClearOrderly == orderlyState' = "NONE"

-----------------------------------------------------------------------------
(* Commands.  TPM2_ContextSave and TPM2_ContextLoad execute RETURN_IF_ORDERLY  *)
(* before they look at the session table, so ExecuteCommand drops an orderly   *)
(* state even when they are then refused.  The other refusals change nothing.  *)

MayCreate == s_freeSessionSlots # 0 /\ ~(s_freeSessionSlots = 1 /\ GapIsMax)

SessionCreate ==
    /\ MayCreate
    /\ \E h \in Sessions : contextArray[h] = 0
    /\ LET slot == FirstFree(FreeSlots)
           h    == FirstFree({i \in Sessions : contextArray[i] = 0})
       IN  /\ contextArray' = [contextArray EXCEPT ![h] = slot + 1]
           /\ s_sessions' = [s_sessions EXCEPT ![slot] = h]
    /\ s_freeSessionSlots' = s_freeSessionSlots - 1
    /\ UNCHANGED <<contextCounter, s_oldestSavedSession>>

TPM2_StartAuthSession == started /\ SessionCreate /\ UNCHANGED <<started, nv, hist>>

SessionContextSave(h) ==
    /\ ~GapIsMax
    /\ contextCounter < COUNTER_MAX
    /\ contextArray' = [contextArray EXCEPT ![h] = LowBits(contextCounter)]
    /\ contextCounter' = Increment(contextCounter)
    /\ s_oldestSavedSession' =
          IF s_oldestSavedSession >= MAX_ACTIVE_SESSIONS
          THEN h ELSE s_oldestSavedSession
    /\ s_sessions' = [s_sessions EXCEPT ![contextArray[h] - 1] = Empty]
    /\ s_freeSessionSlots' = s_freeSessionSlots + 1
    /\ contexts' = contexts \cup {[handle   |-> h,
                                   sequence |-> contextCounter,
                                   reset    |-> totalResetCount]}

\* TPM_RC_TOO_MANY_CONTEXTS: the 64-bit counter would roll over.  The error is
\* returned after the entry has been overwritten; the slot stays occupied.
TooManyContexts(h) ==
    /\ ~GapIsMax
    /\ contextCounter = COUNTER_MAX
    /\ contextArray' = [contextArray EXCEPT ![h] = LowBits(contextCounter)]
    /\ UNCHANGED <<contextCounter, ram, contexts>>

TPM2_ContextSave(h) ==
    /\ started
    /\ IsLoaded(h)
    /\ ClearOrderly
    /\ \/ SessionContextSave(h)
       \/ TooManyContexts(h)
       \/ GapIsMax /\ UNCHANGED <<gr, ram, contexts>>
    /\ UNCHANGED <<started, nvReset, totalResetCount, loaded>>

\* Mutant: no lower limit on the sequence number.
MutSequenceNumberIsValid(c) ==
    /\ IsSaved(c.handle)
    /\ contextArray[c.handle] = LowBits(c.sequence)
    /\ c.sequence <= contextCounter

SequenceNumberForSavedContextIsValid(c) ==
    /\ IsSaved(c.handle)
    /\ contextArray[c.handle] = LowBits(c.sequence)
    /\ c.sequence <= contextCounter
    /\ contextCounter - c.sequence <= SLOT_MOD

\* The context HMAC covers totalResetCount, the sequence and the handle, and
\* totalResetCount changes on every TPM Reset.
ComputeContextIntegrity(c) == c.reset = totalResetCount

\* Mutant: the last free slot is not kept for the oldest context.
MutMayLoad(h) == s_freeSessionSlots # 0

\* A slot is free, and it is not the one that recycling the oldest needs.
MayLoad(h) ==
    /\ s_freeSessionSlots # 0
    /\ ~(s_freeSessionSlots = 1 /\ GapIsMax /\ h # s_oldestSavedSession)

SessionContextLoad(h) ==
    /\ LET slot == FirstFree(FreeSlots)
       IN  /\ contextArray' = [contextArray EXCEPT ![h] = slot + 1]
           /\ s_sessions' = [s_sessions EXCEPT ![slot] = h]
    /\ s_oldestSavedSession' =
          IF h = s_oldestSavedSession
          THEN ContextIdSetOldest(contextArray', contextCounter)
          ELSE s_oldestSavedSession
    /\ s_freeSessionSlots' = s_freeSessionSlots - 1

TPM2_ContextLoad(c) ==
    /\ started
    /\ ComputeContextIntegrity(c)
    /\ ClearOrderly
    /\ IF SequenceNumberForSavedContextIsValid(c) /\ MayLoad(c.handle)
       THEN SessionContextLoad(c.handle) /\ loaded' = loaded \cup {c}
       ELSE UNCHANGED <<contextArray, ram, loaded>>
    /\ UNCHANGED <<contextCounter, started, nvReset, totalResetCount, contexts>>

\* Mutant: the slot of a flushed session is not counted as free again.
MutSessionFlush(h) ==
    /\ contextArray' = [contextArray EXCEPT ![h] = 0]
    /\ IF IsSaved(h)
       THEN /\ s_oldestSavedSession' = IF h = s_oldestSavedSession
                                       THEN ContextIdSetOldest(contextArray', contextCounter)
                                       ELSE s_oldestSavedSession
            /\ UNCHANGED <<s_sessions, s_freeSessionSlots>>
       ELSE /\ s_sessions' = [s_sessions EXCEPT ![contextArray[h] - 1] = Empty]
            /\ s_freeSessionSlots' = s_freeSessionSlots
            /\ UNCHANGED s_oldestSavedSession
    /\ UNCHANGED <<contextCounter, started, nv, hist>>

SessionFlush(h) ==
    /\ contextArray' = [contextArray EXCEPT ![h] = 0]
    /\ IF IsSaved(h)
       THEN /\ s_oldestSavedSession' =
                  IF h = s_oldestSavedSession
                  THEN ContextIdSetOldest(contextArray', contextCounter)
                  ELSE s_oldestSavedSession
            /\ UNCHANGED <<s_sessions, s_freeSessionSlots>>
       ELSE /\ s_sessions' = [s_sessions EXCEPT ![contextArray[h] - 1] = Empty]
            /\ s_freeSessionSlots' = s_freeSessionSlots + 1
            /\ UNCHANGED s_oldestSavedSession
    /\ UNCHANGED <<contextCounter, started, nv, hist>>

\* The orderly state is left alone.
TPM2_FlushContext(h) ==
    /\ started
    /\ IsLoaded(h) \/ IsSaved(h)
    /\ SessionFlush(h)

\* BuildResponseSession flushes a session used with continueSession CLEAR.
EndSession(h) ==
    /\ started
    /\ IsLoaded(h)
    /\ SessionFlush(h)

-----------------------------------------------------------------------------
(* Shutdown, power and startup *)

TPM2_Shutdown(type) ==
    /\ started
    /\ orderlyState' = type
    /\ nvReset' = IF type = "STATE"
                  THEN [array |-> contextArray, counter |-> contextCounter]
                  ELSE nvReset
    /\ UNCHANGED <<gr, ram, started, totalResetCount, hist>>

ZeroArray == [h \in Sessions |-> 0]
NoSlots   == [s \in Slots |-> Empty]

\* Power fails: RAM is zero until Startup has initialised it.
PowerLoss ==
    /\ started
    /\ orderlyState = "STATE" \/ totalResetCount < MaxResets   \* bound
    /\ started' = FALSE
    /\ contextArray' = ZeroArray
    /\ contextCounter' = 0
    /\ s_sessions' = NoSlots
    /\ s_freeSessionSlots' = 0
    /\ s_oldestSavedSession' = 0
    /\ UNCHANGED <<nv, hist>>

\* Mutant: entries of sessions that were loaded at the shutdown are kept.
MutKeepSaved(array) == array

\* SessionStartup for SU_RESUME and SU_RESTART: sessions that were loaded at
\* the shutdown are lost, saved ones survive.
KeepSaved(array) ==
    [h \in Sessions |-> IF array[h] <= MAX_LOADED_SESSIONS THEN 0 ELSE array[h]]

StartupCommon ==
    /\ ~started
    /\ started' = TRUE
    /\ s_sessions' = NoSlots
    /\ s_freeSessionSlots' = MAX_LOADED_SESSIONS
    /\ orderlyState' = "NONE"
    /\ UNCHANGED <<nvReset, hist>>

\* Startup(STATE), or Startup(CLEAR), after Shutdown(STATE).
StartupPreserving ==
    /\ StartupCommon
    /\ orderlyState = "STATE"
    /\ contextArray' = KeepSaved(nvReset.array)
    /\ contextCounter' = nvReset.counter
    /\ s_oldestSavedSession' = ContextIdSetOldest(contextArray', contextCounter')
    /\ UNCHANGED totalResetCount

\* Startup(CLEAR) after any other end of the previous cycle: a TPM Reset.
StartupReset ==
    /\ StartupCommon
    /\ orderlyState # "STATE"
    /\ totalResetCount < MaxResets
    /\ totalResetCount' = totalResetCount + 1
    /\ contextArray' = ZeroArray
    /\ contextCounter' = FirstID
    /\ s_oldestSavedSession' = NoOldest

-----------------------------------------------------------------------------
Init ==
    /\ contextArray = ZeroArray
    /\ contextCounter = 0
    /\ s_sessions = NoSlots
    /\ s_freeSessionSlots = 0
    /\ s_oldestSavedSession = 0
    /\ started = FALSE
    /\ orderlyState = "CLEAR"
    /\ nvReset = [array |-> ZeroArray, counter |-> 0]
    /\ totalResetCount = 0
    /\ contexts = {}
    /\ loaded = {}

Next ==
    \/ TPM2_StartAuthSession
    \/ \E h \in Sessions :
          \/ TPM2_ContextSave(h)
          \/ TPM2_FlushContext(h)
          \/ EndSession(h)
    \/ \E c \in contexts : TPM2_ContextLoad(c)
    \/ \E type \in {"CLEAR", "STATE"} : TPM2_Shutdown(type)
    \/ PowerLoss
    \/ StartupPreserving
    \/ StartupReset

Spec == Init /\ [][Next]_vars
-----------------------------------------------------------------------------
(* Properties *)

\* A context the TPM would take back if it were offered now and a slot is free.
Acceptable(c) ==
    ComputeContextIntegrity(c) /\ SequenceNumberForSavedContextIsValid(c)

\* The counter has not been exhausted.  At COUNTER_MAX a refused save leaves
\* the session neither loaded nor saved, so nothing is claimed from there until
\* the next TPM Reset.
Countable == started /\ contextCounter < COUNTER_MAX

TypeOK ==
    /\ contextArray \in [Sessions -> 0 .. (SLOT_MOD - 1)]
    /\ contextCounter \in Nat
    /\ s_sessions \in [Slots -> Sessions \cup {Empty}]
    /\ s_freeSessionSlots \in 0 .. MAX_LOADED_SESSIONS
    /\ s_oldestSavedSession \in Sessions \cup {NoOldest}
    /\ started \in BOOLEAN
    /\ orderlyState \in {"NONE", "CLEAR", "STATE"}
    /\ nvReset \in [array : [Sessions -> 0 .. (SLOT_MOD - 1)], counter : Nat]
    /\ totalResetCount \in Nat
    /\ contexts \subseteq Context
    /\ loaded \subseteq contexts

\* The slot table and contextArray describe the same set of loaded sessions and
\* s_freeSessionSlots counts the free slots.  The FAIL in SessionCreate and the
\* assertion in SessionContextLoad that a free slot is found rest on this.
SlotsMatchArray ==
    started =>
        /\ s_freeSessionSlots = Cardinality(FreeSlots)
        /\ \A h \in Sessions : IsLoaded(h) => s_sessions[contextArray[h] - 1] = h
        /\ contextCounter < COUNTER_MAX =>
              \A s \in Slots : s_sessions[s] # Empty => contextArray[s_sessions[s]] = s + 1

\* Every saved session has exactly one context the TPM would accept, and it is
\* the last one saved for that session: truncating contextIDs to CONTEXT_SLOT
\* never makes an older context look current.
OnlyNewestAcceptable ==
    Countable =>
        \A h \in Sessions : IsSaved(h) =>
            \E c \in contexts :
                /\ c.handle = h
                /\ Acceptable(c)
                /\ \A d \in contexts :
                      d.handle = h /\ d # c =>
                          ~Acceptable(d) /\ (d.reset = c.reset => d.sequence < c.sequence)

\* A context that was loaded once is never accepted again, across saves, wraps
\* of the truncated counter, shutdowns, power losses and startups.
NoReplay == Countable => \A c \in loaded : ~Acceptable(c)

\* "By construction, the entry that contains the matching value is the oldest
\* context" (introduction of Session.c): s_oldestSavedSession is the session
\* whose acceptable context has the smallest sequence, and only its entry can
\* collide with the next contextID.
OldestIsOldest ==
    Countable =>
        /\ (s_oldestSavedSession = NoOldest) <=> (SavedIn(contextArray) = {})
        /\ \A h \in Sessions : IsSaved(h) =>
              /\ contextArray[h] = LowBits(contextCounter) => h = s_oldestSavedSession
              /\ \A c, d \in contexts :
                    /\ Acceptable(c) /\ c.handle = s_oldestSavedSession
                    /\ Acceptable(d) /\ d.handle = h
                    => c.sequence <= d.sequence

\* When no further context can be saved there is a free slot to load the oldest
\* one into, so the caller can always recycle it.
GapIsRecoverable == Countable /\ GapIsMax => s_freeSessionSlots > 0

\* Every contextID issued since the last TPM Reset is below the counter, so none
\* is issued twice: not even when power fails after a Shutdown(STATE) that was
\* followed by further saves.
IssuedIDsAreFresh ==
    started => \A c \in contexts : c.reset = totalResetCount => c.sequence < contextCounter

\* A context that the TPM would refuse becomes acceptable again only by a
\* startup that restores the table of an earlier Shutdown(STATE).
RevivedOnlyByResume ==
    [][started /\ Countable' => \A c \in contexts : Acceptable(c)' => Acceptable(c)]_vars

=============================================================================
