------------------------ MODULE SessionContextProofs ------------------------
(***************************************************************************)
(* Proofs about SessionContext for every number of sessions and slots and  *)
(* every width of the context counter and of its truncated copy.           *)
(***************************************************************************)
EXTENDS SessionContext, FiniteSetTheorems, NaturalsInduction,
        WellFoundedInduction, TLAPS

\* time limits of the provers, in seconds
USE SMTT(30), ZenonT(30)

\* The contextID whose low bits are entry and that was issued less than one
\* period of the truncated counter ago.
FullID(entry, counter) == counter - SLOT_MOD + Distance(entry, counter)

\* The context the TPM expects back for the saved session h.
Expected(h, array, counter) ==
    [handle |-> h, sequence |-> FullID(array[h], counter), reset |-> totalResetCount]

Newest(h, id) ==
    \A c \in contexts : c.handle = h /\ c.reset = totalResetCount => c.sequence <= id

\* The table tracks, for every saved session, the last context that was handed
\* out for it, and that context has not been loaded since.
TableOK(array, counter) ==
    counter < COUNTER_MAX =>
        /\ LowBits(counter) >= FirstID
        /\ \A h \in SavedIn(array) :
              /\ Expected(h, array, counter) \in contexts \ loaded
              /\ Newest(h, FullID(array[h], counter))

Fresh(counter) ==
    \A c \in contexts : c.reset = totalResetCount => c.sequence < counter

UniqueIDs ==
    \A c, d \in contexts :
        c.reset = d.reset /\ c.sequence = d.sequence => c = d

OldestOK ==
    contextCounter < COUNTER_MAX =>
        IF SavedIn(contextArray) = {} THEN s_oldestSavedSession = NoOldest
        ELSE /\ s_oldestSavedSession \in SavedIn(contextArray)
             /\ \A h \in SavedIn(contextArray) :
                   FullID(contextArray[s_oldestSavedSession], contextCounter)
                       <= FullID(contextArray[h], contextCounter)

ResetsOK == \A c \in contexts : c.reset <= totalResetCount

\* The table in use, and the one a Shutdown(STATE) left in NV.
CurrentOK ==
    started => /\ Fresh(contextCounter)
               /\ TableOK(contextArray, contextCounter)
               /\ OldestOK

SavedOK ==
    orderlyState = "STATE" => /\ Fresh(nvReset.counter)
                              /\ TableOK(nvReset.array, nvReset.counter)

\* The inductive invariant.
IInv ==
    /\ TypeOK
    /\ ResetsOK
    /\ UniqueIDs
    /\ SlotsMatchArray
    /\ GapIsRecoverable
    /\ CurrentOK
    /\ SavedOK

-----------------------------------------------------------------------------
(* Arithmetic of the truncated counter *)

\* A non-empty set of naturals has a least element: the loops of Session.c that
\* look for the first free entry, and for the oldest context, find one.
LEMMA MinExists ==
    ASSUME NEW T \in SUBSET Nat, T # {}
    PROVE  \E x \in T : \A y \in T : x <= y
<1> DEFINE R == {ss \in Nat \X Nat : ss[1] < ss[2]}
<1>1. IsWellFoundedOn(R, Nat)
  BY NatLessThanWellFounded DEF OpToRel
<1>2. \E x \in T : \A y \in T : ~(<<y, x>> \in R)
  <2> HIDE DEF R
  <2> QED BY <1>1, WFMin, ZenonT(30)
<1>3. PICK x \in T : \A y \in T : ~(<<y, x>> \in R)
  BY <1>2
<1>4. ASSUME NEW y \in T PROVE x <= y
  <2>1. x \in Nat /\ y \in Nat
    OBVIOUS
  <2>2. <<y, x>> \in Nat \X Nat /\ ~(y < x)
    BY <1>3, <2>1
  <2>3. QED BY <2>1, <2>2
<1>5. QED BY <1>4

\* Division with remainder by the period of the truncated counter (the cast to
\* CONTEXT_SLOT).
LEMMA DivMod ==
    ASSUME NEW a \in Int
    PROVE  /\ a \div SLOT_MOD \in Int
           /\ LowBits(a) \in 0 .. (SLOT_MOD - 1)
           /\ a = SLOT_MOD * (a \div SLOT_MOD) + LowBits(a)
  BY SizesAssumption, SMT DEF LowBits

\* The cast discards multiples of the period.
LEMMA ModUnique ==
    ASSUME NEW q \in Int, NEW r \in 0 .. (SLOT_MOD - 1)
    PROVE  LowBits(SLOT_MOD * q + r) = r
  BY SizesAssumption, SMT DEF LowBits

\* Two numbers less than a period apart with the same low bits are equal.
LEMMA SameLow ==
    ASSUME NEW a \in Int, NEW b \in Int, LowBits(a) = LowBits(b),
           a >= b, a < b + SLOT_MOD
    PROVE  a = b
<1> DEFINE p == a \div SLOT_MOD
           q == b \div SLOT_MOD
<1>1. /\ p \in Int /\ q \in Int /\ LowBits(b) \in Int
      /\ a = SLOT_MOD * p + LowBits(b) /\ b = SLOT_MOD * q + LowBits(b)
  BY DivMod
<1> HIDE DEF p, q
<1>2. p - q \in Int /\ a - b = SLOT_MOD * (p - q)
  BY <1>1, SizesAssumption
<1>3. p - q = 0
  <2>1. \A d \in Int : SLOT_MOD * d >= 0 /\ SLOT_MOD * d < SLOT_MOD => d = 0
    BY SizesAssumption
  <2>2. SLOT_MOD * (p - q) >= 0 /\ SLOT_MOD * (p - q) < SLOT_MOD
    BY <1>2, SizesAssumption
  <2>3. QED BY <1>2, <2>1, <2>2
<1>4. QED BY <1>1, <1>3

\* The contextID recovered from an entry lies in the last period before the
\* counter and has the entry as its low bits.
LEMMA FullIDRange ==
    ASSUME NEW e \in 0 .. (SLOT_MOD - 1), NEW n \in Int
    PROVE  /\ FullID(e, n) \in Int
           /\ n - SLOT_MOD <= FullID(e, n)
           /\ FullID(e, n) < n
           /\ LowBits(FullID(e, n)) = e
<1> DEFINE b == n \div SLOT_MOD
           s == LowBits(n)
           k == (e - s) \div SLOT_MOD
           d == LowBits(e - s)
<1>1. b \in Int /\ s \in 0 .. (SLOT_MOD - 1) /\ n = SLOT_MOD * b + s
  BY DivMod
<1> HIDE DEF b, s
<1>2. e - s \in Int
  BY <1>1, SizesAssumption
<1>3. k \in Int /\ d \in 0 .. (SLOT_MOD - 1) /\ e - s = SLOT_MOD * k + d
  BY <1>2, DivMod
<1>4. FullID(e, n) = n - SLOT_MOD + d
  BY DEF FullID, Distance, d, s, LowBits
<1> HIDE DEF k, d
<1>5. b - 1 - k \in Int /\ FullID(e, n) = SLOT_MOD * (b - 1 - k) + e
  BY <1>1, <1>3, <1>4, SizesAssumption
<1>6. LowBits(FullID(e, n)) = e
  BY <1>5, ModUnique
<1>7. QED BY <1>1, <1>3, <1>4, <1>6, SizesAssumption

\* It is the only such number.
LEMMA FullIDUnique ==
    ASSUME NEW q \in Int, NEW n \in Int, n - SLOT_MOD <= q, q < n
    PROVE  q = FullID(LowBits(q), n)
<1>1. LowBits(q) \in 0 .. (SLOT_MOD - 1)
  BY DivMod
<1> DEFINE f == FullID(LowBits(q), n)
<1>2. f \in Int /\ n - SLOT_MOD <= f /\ f < n /\ LowBits(f) = LowBits(q)
  BY <1>1, FullIDRange
<1> HIDE DEF f
<1>3. q >= f => q = f
  BY <1>2, SameLow, SizesAssumption
<1>4. f >= q => q = f
  BY <1>2, SameLow, SizesAssumption
<1>5. q = f
  BY <1>2, <1>3, <1>4
<1>6. QED BY <1>5 DEF f

\* Incrementing the counter, with the step over the slot numbers, keeps every
\* recovered contextID except that of an entry equal to the counter's low bits;
\* for that entry the new one is the old counter.
LEMMA IncrementFacts ==
    ASSUME NEW n \in Nat, LowBits(n) >= FirstID
    PROVE  /\ Increment(n) \in Nat
           /\ n < Increment(n)
           /\ LowBits(Increment(n)) >= FirstID
           /\ FullID(LowBits(n), Increment(n)) = n
           /\ \A e \in FirstID .. (SLOT_MOD - 1) :
                 e # LowBits(n) => FullID(e, Increment(n)) = FullID(e, n)
<1> DEFINE b == n \div SLOT_MOD
           s == LowBits(n)
           m == Increment(n)
<1>1. b \in Int /\ s \in 0 .. (SLOT_MOD - 1) /\ n = SLOT_MOD * b + s
  BY DivMod
<1>2. s >= FirstID /\ FirstID \in Nat \ {0} /\ FirstID < SLOT_MOD /\ SLOT_MOD \in Nat
  BY SizesAssumption DEF FirstID
<1> HIDE DEF b, s
<1>3. ASSUME NEW e \in FirstID .. (SLOT_MOD - 1), e # s
      PROVE  /\ FullID(e, n) \in Int
             /\ n - SLOT_MOD < FullID(e, n)
             /\ FullID(e, n) < n
             /\ LowBits(FullID(e, n)) = e
  <2>1. e \in 0 .. (SLOT_MOD - 1)
    BY <1>2
  <2>2. b - 1 \in Int /\ n - SLOT_MOD = SLOT_MOD * (b - 1) + s
    BY <1>1, <1>2
  <2>3. LowBits(n - SLOT_MOD) = s
    BY <1>1, <2>2, ModUnique
  <2>4. /\ FullID(e, n) \in Int /\ n - SLOT_MOD <= FullID(e, n)
        /\ FullID(e, n) < n /\ LowBits(FullID(e, n)) = e
    BY <2>1, FullIDRange
  <2>5. FullID(e, n) # n - SLOT_MOD
    BY <2>3, <2>4, <1>3
  <2>6. QED BY <2>4, <2>5, <1>2
<1>4. /\ m \in Nat /\ n < m /\ m - SLOT_MOD <= n /\ LowBits(m) >= FirstID
      /\ \A e \in FirstID .. (SLOT_MOD - 1) : e # s => m - SLOT_MOD <= FullID(e, n)
  <2>1. CASE s + 1 < SLOT_MOD
    <3>1. n + 1 = SLOT_MOD * b + (s + 1) /\ s + 1 \in 0 .. (SLOT_MOD - 1)
      BY <1>1, <1>2, <2>1
    <3>2. LowBits(n + 1) = s + 1
      BY <1>1, <3>1, ModUnique
    <3>3. m = n + 1
      BY <3>2, <1>1, <1>2 DEF Increment
    <3>4. QED BY <3>2, <3>3, <1>1, <1>2, <1>3
  <2>2. CASE ~(s + 1 < SLOT_MOD)
    <3>1. s = SLOT_MOD - 1 /\ b + 1 \in Int /\ n + 1 = SLOT_MOD * (b + 1) + 0
      BY <1>1, <1>2, <2>2
    <3>2. LowBits(n + 1) = 0
      <4>1. 0 \in 0 .. (SLOT_MOD - 1)
        BY <1>2
      <4>2. LowBits(SLOT_MOD * (b + 1) + 0) = 0
        BY <3>1, <4>1, ModUnique
      <4>3. QED BY <3>1, <4>2
    <3>3. m = n + 1 + FirstID /\ m = SLOT_MOD * (b + 1) + FirstID
      BY <3>1, <3>2, <1>2 DEF Increment
    <3>4. LowBits(m) = FirstID
      <4>1. FirstID \in 0 .. (SLOT_MOD - 1)
        BY <1>2
      <4>2. LowBits(SLOT_MOD * (b + 1) + FirstID) = FirstID
        BY <3>1, <4>1, ModUnique
      <4>3. QED BY <3>3, <4>2
    <3>5. ASSUME NEW e \in FirstID .. (SLOT_MOD - 1), e # s
          PROVE  m - SLOT_MOD <= FullID(e, n)
      <4> DEFINE t == FullID(e, n) - SLOT_MOD * b
      <4>1. /\ t \in 0 .. (SLOT_MOD - 1)
            /\ FullID(e, n) = SLOT_MOD * b + t
        BY <1>1, <1>2, <1>3, <3>1, <3>5
      <4> HIDE DEF t
      <4>2. t = e
        BY <1>1, <1>3, <3>5, <4>1, ModUnique
      <4>3. QED BY <1>1, <1>2, <3>1, <3>3, <4>1, <4>2
    <3>6. QED BY <3>3, <3>4, <3>5, <1>1, <1>2
  <2>3. QED BY <2>1, <2>2
<1> HIDE DEF m
<1>5. FullID(s, m) = n
  BY <1>4, FullIDUnique DEF s
<1>6. ASSUME NEW e \in FirstID .. (SLOT_MOD - 1), e # s
      PROVE  FullID(e, m) = FullID(e, n)
  <2>1. m - SLOT_MOD <= FullID(e, n) /\ FullID(e, n) < m /\ FullID(e, n) \in Int
    BY <1>3, <1>4, <1>6
  <2>2. QED BY <2>1, <1>3, <1>4, <1>6, FullIDUnique
<1>7. QED BY <1>4, <1>5, <1>6 DEF m, s

-----------------------------------------------------------------------------
(* The searches of Session.c *)

\* A search for the first free entry of a non-empty set returns a member of it.
LEMMA FirstFreeIn ==
    ASSUME NEW S \in SUBSET Nat, S # {}
    PROVE  FirstFree(S) \in S
<1>1. \E s \in S : \A t \in S : s <= t
  BY MinExists
<1>2. QED BY <1>1, ZenonT(30) DEF FirstFree

\* ContextIdSetOldest returns the "none" value exactly when nothing is saved, and
\* else a saved session whose recovered contextID is the smallest.
LEMMA SetOldestFacts ==
    ASSUME NEW array \in [Sessions -> 0 .. (SLOT_MOD - 1)], NEW n \in Int
    PROVE  IF SavedIn(array) = {} THEN ContextIdSetOldest(array, n) = NoOldest
           ELSE /\ ContextIdSetOldest(array, n) \in SavedIn(array)
                /\ \A h \in SavedIn(array) :
                      FullID(array[ContextIdSetOldest(array, n)], n) <= FullID(array[h], n)
<1> DEFINE D(h) == Distance(array[h], n)
           V == SavedIn(array)
<1>1. SUFFICES ASSUME V # {}
               PROVE  /\ ContextIdSetOldest(array, n) \in V
                      /\ \A h \in V : D(ContextIdSetOldest(array, n)) <= D(h)
  <2>1. CASE V = {}
    BY <2>1 DEF ContextIdSetOldest
  <2>2. CASE V # {}
    <3> DEFINE o == ContextIdSetOldest(array, n)
    <3>1. o \in V /\ \A h \in V : D(o) <= D(h)
      BY <2>2, <1>1
    <3>2. \A h \in V : D(h) \in Int
      <4>1. \A h \in V : array[h] - LowBits(n) \in Int
        BY DivMod, SizesAssumption DEF SavedIn
      <4>2. QED BY <4>1, DivMod DEF Distance, LowBits
    <3> HIDE DEF o, D, V
    <3>3. \A h \in V : FullID(array[o], n) <= FullID(array[h], n)
      BY <3>1, <3>2, SizesAssumption DEF FullID, D
    <3>4. QED BY <2>2, <3>1, <3>3 DEF o, V
  <2>3. QED BY <2>1, <2>2
<1>2. V \in SUBSET Nat /\ \A h \in V : h < MAX_ACTIVE_SESSIONS
  BY SizesAssumption DEF SavedIn, Sessions
<1>3. \A h \in V : D(h) \in Nat
  <2>1. \A h \in V : array[h] - LowBits(n) \in Int
    BY DivMod, SizesAssumption DEF SavedIn
  <2>2. \A x \in Int : x % SLOT_MOD \in Nat
    BY SizesAssumption
  <2>3. QED BY <2>1, <2>2 DEF Distance
<1> HIDE DEF D, V
<1>4. PICK m \in V : \A k \in V : D(m) <= D(k)
  <2> DEFINE T == {D(h) : h \in V}
  <2>1. T \in SUBSET Nat /\ T # {}
    BY <1>1, <1>3
  <2>2. PICK x \in T : \A y \in T : x <= y
    BY <2>1, MinExists, ZenonT(30)
  <2>3. QED BY <2>2
<1>5. PICK p \in V : /\ D(p) = D(m)
                     /\ \A k \in V : D(k) = D(m) => k <= p
  <2> DEFINE T == {MAX_ACTIVE_SESSIONS - h : h \in {k \in V : D(k) = D(m)}}
  <2>1. T \in SUBSET Nat /\ T # {}
    BY <1>2, <1>4, SizesAssumption
  <2>2. PICK x \in T : \A y \in T : x <= y
    BY <2>1, MinExists, ZenonT(30)
  <2>3. PICK p \in V : D(p) = D(m) /\ x = MAX_ACTIVE_SESSIONS - p
    BY <2>2
  <2>4. \A k \in V : D(k) = D(m) => MAX_ACTIVE_SESSIONS - p <= MAX_ACTIVE_SESSIONS - k
    BY <2>2, <2>3
  <2>5. QED BY <1>2, <2>3, <2>4, SizesAssumption
<1>6. \A k \in V : D(p) < D(k) \/ (D(p) = D(k) /\ k <= p)
  BY <1>3, <1>4, <1>5
<1>7. \E h \in V : \A k \in V : D(h) < D(k) \/ (D(h) = D(k) /\ k <= h)
  BY <1>6
<1>8. ContextIdSetOldest(array, n)
        = CHOOSE h \in V : \A k \in V : D(h) < D(k) \/ (D(h) = D(k) /\ k <= h)
  BY <1>1 DEF ContextIdSetOldest, D, V
<1>9. /\ ContextIdSetOldest(array, n) \in V
      /\ \A k \in V : \/ D(ContextIdSetOldest(array, n)) < D(k)
                      \/ D(ContextIdSetOldest(array, n)) = D(k)
  BY <1>7, <1>8
<1>10. QED BY <1>3, <1>9

-----------------------------------------------------------------------------
(* Preservation of the inductive invariant *)

\* "By construction, the entry that contains the matching value is the oldest
\* context": an entry equal to the counter's low bits belongs to the oldest one.
LEMMA NoCollision ==
    ASSUME IInv, Countable, NEW k \in SavedIn(contextArray),
           contextArray[k] = LowBits(contextCounter)
    PROVE  k = s_oldestSavedSession
<1> DEFINE n == contextCounter
           o == s_oldestSavedSession
<1>1. /\ contextArray \in [Sessions -> 0 .. (SLOT_MOD - 1)] /\ n \in Nat
      /\ o \in SavedIn(contextArray)
      /\ FullID(contextArray[o], n) <= FullID(contextArray[k], n)
      /\ Expected(o, contextArray, n) \in contexts
      /\ Expected(k, contextArray, n) \in contexts
  BY DEF IInv, Countable, TypeOK, CurrentOK, OldestOK, TableOK
<1>2. FullID(contextArray[k], n) = n - SLOT_MOD
  <2>1. n - SLOT_MOD \in Int /\ n - SLOT_MOD < n
    BY <1>1, SizesAssumption
  <2>2. LowBits(n - SLOT_MOD) = LowBits(n)
    <3> DEFINE b == n \div SLOT_MOD
    <3>1. b \in Int /\ LowBits(n) \in 0 .. (SLOT_MOD - 1) /\ n = SLOT_MOD * b + LowBits(n)
      BY <1>1, DivMod
    <3> HIDE DEF b
    <3>2. b - 1 \in Int /\ n - SLOT_MOD = SLOT_MOD * (b - 1) + LowBits(n)
      BY <3>1, SizesAssumption
    <3>3. QED BY <3>1, <3>2, ModUnique
  <2>3. n - SLOT_MOD = FullID(LowBits(n - SLOT_MOD), n)
    BY <1>1, <2>1, FullIDUnique
  <2>4. QED BY <2>2, <2>3
<1>3. contextArray[o] \in 0 .. (SLOT_MOD - 1) /\ contextArray[k] \in 0 .. (SLOT_MOD - 1)
  BY <1>1 DEF SavedIn
<1>4. FullID(contextArray[o], n) \in Int /\ n - SLOT_MOD <= FullID(contextArray[o], n)
  BY <1>1, <1>3, FullIDRange
<1>5. FullID(contextArray[o], n) = FullID(contextArray[k], n)
  BY <1>1, <1>2, <1>4, SizesAssumption
<1>6. Expected(o, contextArray, n) = Expected(k, contextArray, n)
  BY <1>1, <1>5 DEF IInv, UniqueIDs, Expected
<1>7. QED BY <1>6 DEF Expected

\* The facts about the slots that several actions use.
LEMMA SlotFacts ==
    /\ FreeSlots \in SUBSET Slots /\ IsFiniteSet(FreeSlots)
    /\ Cardinality(FreeSlots) \in 0 .. MAX_LOADED_SESSIONS
    /\ IsFiniteSet(Slots) /\ Cardinality(Slots) = MAX_LOADED_SESSIONS
<1>1. IsFiniteSet(Slots) /\ Cardinality(Slots) = MAX_LOADED_SESSIONS
  BY FS_Interval, SizesAssumption DEF Slots
<1>2. FreeSlots \in SUBSET Slots
  BY DEF FreeSlots
<1>3. IsFiniteSet(FreeSlots) /\ Cardinality(FreeSlots) <= MAX_LOADED_SESSIONS
  BY <1>1, <1>2, FS_Subset
<1>4. Cardinality(FreeSlots) \in Nat
  BY <1>3, FS_CardinalityType
<1>5. QED BY <1>1, <1>2, <1>3, <1>4, SizesAssumption

\* The cleared tables are well typed, and nothing in them is saved or occupied.
LEMMA ClearedTables ==
    /\ ZeroArray \in [Sessions -> 0 .. (SLOT_MOD - 1)]
    /\ \A h \in Sessions : ZeroArray[h] = 0
    /\ SavedIn(ZeroArray) = {}
    /\ NoSlots \in [Slots -> Sessions \cup {Empty}]
    /\ \A t \in Slots : NoSlots[t] = Empty
    /\ 0 \in Sessions
  BY SizesAssumption DEF ZeroArray, NoSlots, SavedIn, Sessions, Slots

\* Init establishes the inductive invariant.
LEMMA InitIInv == Init => IInv
<1> SUFFICES ASSUME Init PROVE IInv
  OBVIOUS
<1>1. TypeOK
  <2>1. nvReset \in [array : [Sessions -> 0 .. (SLOT_MOD - 1)], counter : Nat]
    BY ClearedTables DEF Init
  <2>2. contextArray \in [Sessions -> 0 .. (SLOT_MOD - 1)]
    BY ClearedTables DEF Init
  <2>3. s_sessions \in [Slots -> Sessions \cup {Empty}]
    BY ClearedTables DEF Init
  <2>4. s_oldestSavedSession \in Sessions \cup {NoOldest}
    BY ClearedTables DEF Init
  <2>5. s_freeSessionSlots \in 0 .. MAX_LOADED_SESSIONS
    BY SizesAssumption DEF Init
  <2>6. contexts \subseteq Context /\ loaded \subseteq contexts
    BY DEF Init
  <2>7. QED BY <2>1, <2>2, <2>3, <2>4, <2>5, <2>6, ZenonT(30) DEF Init, TypeOK
<1>2. QED BY <1>1 DEF Init, IInv, ResetsOK, UniqueIDs, SlotsMatchArray, GapIsRecoverable,
                      Countable, CurrentOK, SavedOK

\* A step that only drops the orderly state or nothing at all, as a refused
\* TPM2_ContextSave or TPM2_ContextLoad does, preserves the invariant.
LEMMA RefusedIInv ==
    ASSUME IInv, ClearOrderly \/ UNCHANGED orderlyState,
           UNCHANGED <<gr, ram, started, nvReset, totalResetCount, hist>>
    PROVE  IInv'
  BY DEF IInv, TypeOK, ResetsOK, UniqueIDs, SlotsMatchArray, GapIsRecoverable, Countable,
         CurrentOK, SavedOK, TableOK, Fresh, OldestOK, Expected, Newest, SavedIn, IsLoaded,
         FreeSlots, GapIsMax, gr, ram, hist, ClearOrderly

\* StartAuthSession takes a free slot and a free index.
LEMMA StartAuthSessionIInv ==
    ASSUME IInv, TPM2_StartAuthSession
    PROVE  IInv'
<1> DEFINE slot == FirstFree(FreeSlots)
           Z == {i \in Sessions : contextArray[i] = 0}
           h == FirstFree(Z)
<1>1. slot \in Slots /\ s_sessions[slot] = Empty /\ slot \in FreeSlots
  <2>1. FreeSlots # {}
    BY SlotFacts, FS_EmptySet DEF TPM2_StartAuthSession, SessionCreate, MayCreate, IInv, SlotsMatchArray
  <2>2. FreeSlots \in SUBSET Nat
    BY SizesAssumption DEF FreeSlots, Slots
  <2>3. slot \in FreeSlots
    BY <2>1, <2>2, FirstFreeIn
  <2>4. QED BY <2>3 DEF FreeSlots
<1>2. h \in Sessions /\ contextArray[h] = 0
  <2>1. Z \in SUBSET Nat /\ Z # {}
    BY SizesAssumption DEF TPM2_StartAuthSession, SessionCreate, Sessions
  <2>2. h \in Z
    BY <2>1, FirstFreeIn
  <2>3. QED BY <2>2
<1>3. /\ contextArray' = [contextArray EXCEPT ![h] = slot + 1]
      /\ s_sessions' = [s_sessions EXCEPT ![slot] = h]
      /\ s_freeSessionSlots' = s_freeSessionSlots - 1
      /\ started /\ MayCreate
      /\ UNCHANGED <<contextCounter, s_oldestSavedSession, started, orderlyState, nvReset,
                     totalResetCount, contexts, loaded>>
  BY DEF TPM2_StartAuthSession, SessionCreate, nv, hist
<1> HIDE DEF slot, h, Z
<1>4. /\ contextArray \in [Sessions -> 0 .. (SLOT_MOD - 1)]
      /\ s_sessions \in [Slots -> Sessions \cup {Empty}]
      /\ s_freeSessionSlots \in 0 .. MAX_LOADED_SESSIONS
  BY DEF IInv, TypeOK
<1>5. slot + 1 \in 1 .. MAX_LOADED_SESSIONS /\ slot + 1 \in 0 .. (SLOT_MOD - 1)
  BY <1>1, SizesAssumption DEF Slots
<1>6. TypeOK'
  <2>1. contextArray' \in [Sessions -> 0 .. (SLOT_MOD - 1)]
    BY <1>3, <1>4, <1>5, ZenonT(30)
  <2>2. s_sessions' \in [Slots -> Sessions \cup {Empty}]
    BY <1>2, <1>3, <1>4, ZenonT(30)
  <2>3. s_freeSessionSlots' \in 0 .. MAX_LOADED_SESSIONS
    BY <1>3, <1>4, SizesAssumption DEF MayCreate
  <2>4. QED BY <1>3, <2>1, <2>2, <2>3 DEF IInv, TypeOK
<1>7. SlotsMatchArray'
  <2>1. FreeSlots' = FreeSlots \ {slot}
    BY <1>1, <1>2, <1>3, <1>4, SizesAssumption DEF FreeSlots, Sessions, Empty
  <2>2. Cardinality(FreeSlots') = s_freeSessionSlots'
    BY <1>1, <1>3, <2>1, SlotFacts, FS_RemoveElement, ZenonT(30) DEF IInv, SlotsMatchArray
  <2>3. ASSUME NEW k \in Sessions, IsLoaded(k)' PROVE s_sessions'[contextArray'[k] - 1] = k
    <3>1. CASE k = h
      BY <1>1, <1>2, <1>3, <1>4, <1>5, <3>1 DEF Slots
    <3>2. CASE k # h
      <4>1. IsLoaded(k) /\ contextArray'[k] = contextArray[k]
        BY <1>3, <1>4, <2>3, <3>2 DEF IsLoaded
      <4>2. s_sessions[contextArray[k] - 1] = k
        BY <4>1, <1>3 DEF IInv, SlotsMatchArray
      <4>3. contextArray[k] - 1 # slot
        BY <4>2, <1>1, SizesAssumption DEF Empty, Sessions
      <4>4. contextArray[k] - 1 \in Slots
        BY <4>1, SizesAssumption DEF IsLoaded, Slots
      <4>5. QED BY <1>3, <1>4, <4>1, <4>2, <4>3, <4>4
    <3>3. QED BY <3>1, <3>2
  <2>4. ASSUME contextCounter' < COUNTER_MAX, NEW t \in Slots, s_sessions'[t] # Empty
        PROVE  contextArray'[s_sessions'[t]] = t + 1
    <3>1. CASE t = slot
      BY <1>2, <1>3, <1>4, <3>1
    <3>2. CASE t # slot
      <4>1. s_sessions'[t] = s_sessions[t] /\ s_sessions[t] \in Sessions
        BY <1>3, <1>4, <2>4, <3>2
      <4>2. contextArray[s_sessions[t]] = t + 1
        BY <1>3, <2>4, <4>1 DEF IInv, SlotsMatchArray
      <4>3. s_sessions[t] # h
        BY <1>2, <4>2, SizesAssumption DEF Slots
      <4>4. QED BY <1>3, <1>4, <4>1, <4>2, <4>3
    <3>3. QED BY <3>1, <3>2
  <2>5. QED BY <2>2, <2>3, <2>4 DEF SlotsMatchArray
<1>8. SavedIn(contextArray') = SavedIn(contextArray)
      /\ \A k \in SavedIn(contextArray) : contextArray'[k] = contextArray[k]
  BY <1>2, <1>3, <1>4, <1>5, SizesAssumption DEF SavedIn
<1>9. CurrentOK' /\ SavedOK'
  <2>1. TableOK(contextArray, contextCounter)'
    BY <1>3, <1>8 DEF IInv, CurrentOK, TableOK, Expected, Newest
  <2>2. OldestOK'
    BY <1>3, <1>8, ZenonT(30) DEF IInv, CurrentOK, OldestOK
  <2>3. QED BY <1>3, <2>1, <2>2, ZenonT(30) DEF IInv, CurrentOK, SavedOK, Fresh, TableOK, Expected, Newest
<1>10. GapIsRecoverable'
  <2>1. SUFFICES ASSUME Countable', GapIsMax' PROVE s_freeSessionSlots' > 0
    BY DEF GapIsRecoverable
  <2>2. contextCounter < COUNTER_MAX
    BY <1>3, <2>1 DEF Countable
  <2>3. s_oldestSavedSession \in SavedIn(contextArray)
    BY <1>3, <2>1, <2>2, SizesAssumption
       DEF IInv, CurrentOK, OldestOK, GapIsMax, NoOldest
  <2>4. GapIsMax
    BY <1>3, <1>8, <2>1, <2>3 DEF GapIsMax
  <2>5. QED BY <1>3, <1>4, <2>4, SizesAssumption DEF MayCreate
<1>11. QED BY <1>3, <1>6, <1>7, <1>9, <1>10 DEF IInv, ResetsOK, UniqueIDs

\* Slot bookkeeping of an operation that frees the slot of the loaded session h
\* and makes its entry one that does not denote a slot.
LEMMA FreeSlotOfLoaded ==
    ASSUME IInv, started, started', NEW h \in Sessions, IsLoaded(h),
           NEW e \in 0 .. (SLOT_MOD - 1), e \notin 1 .. MAX_LOADED_SESSIONS,
           contextArray' = [contextArray EXCEPT ![h] = e],
           s_sessions' = [s_sessions EXCEPT ![contextArray[h] - 1] = Empty],
           s_freeSessionSlots' = s_freeSessionSlots + 1,
           contextCounter' < COUNTER_MAX => contextCounter < COUNTER_MAX
    PROVE  /\ SlotsMatchArray'
           /\ s_freeSessionSlots' \in 1 .. MAX_LOADED_SESSIONS
           /\ contextArray' \in [Sessions -> 0 .. (SLOT_MOD - 1)]
           /\ s_sessions' \in [Slots -> Sessions \cup {Empty}]
<1> DEFINE slot == contextArray[h] - 1
<1>1. /\ contextArray \in [Sessions -> 0 .. (SLOT_MOD - 1)]
      /\ s_sessions \in [Slots -> Sessions \cup {Empty}]
  BY DEF IInv, TypeOK
<1>2. slot \in Slots /\ s_sessions[slot] = h
  BY SizesAssumption DEF IInv, SlotsMatchArray, IsLoaded, Slots
<1>3. h # Empty
  BY SizesAssumption DEF Sessions, Empty
<1> HIDE DEF slot
<1>4. s_sessions' = [s_sessions EXCEPT ![slot] = Empty]
  BY DEF slot
<1>5. FreeSlots' = FreeSlots \cup {slot} /\ slot \notin FreeSlots
  BY <1>1, <1>2, <1>3, <1>4 DEF FreeSlots
<1>6. Cardinality(FreeSlots') = s_freeSessionSlots'
  BY <1>5, SlotFacts, FS_AddElement, ZenonT(30) DEF IInv, SlotsMatchArray
<1>7. s_freeSessionSlots' \in 1 .. MAX_LOADED_SESSIONS
  <2>1. FreeSlots' \in SUBSET Slots
    BY <1>2, <1>5, SlotFacts
  <2>2. Cardinality(FreeSlots') <= MAX_LOADED_SESSIONS
    BY <2>1, SlotFacts, FS_Subset
  <2>3. QED BY <1>6, <2>2, SizesAssumption DEF IInv, TypeOK
<1>8. ASSUME NEW k \in Sessions, IsLoaded(k)' PROVE s_sessions'[contextArray'[k] - 1] = k
  <2>1. k # h
    BY <1>1, <1>8 DEF IsLoaded
  <2>2. IsLoaded(k) /\ contextArray'[k] = contextArray[k]
    BY <1>1, <1>8, <2>1 DEF IsLoaded
  <2>3. s_sessions[contextArray[k] - 1] = k /\ contextArray[k] - 1 \in Slots
    BY <2>2, SizesAssumption DEF IInv, SlotsMatchArray, IsLoaded, Slots
  <2>4. contextArray[k] - 1 # slot
    BY <1>2, <2>1, <2>3
  <2>5. QED BY <1>1, <1>4, <2>2, <2>3, <2>4
<1>9. ASSUME contextCounter' < COUNTER_MAX, NEW t \in Slots, s_sessions'[t] # Empty
      PROVE  contextArray'[s_sessions'[t]] = t + 1
  <2>1. t # slot /\ s_sessions'[t] = s_sessions[t] /\ s_sessions[t] \in Sessions
    BY <1>1, <1>2, <1>4, <1>9
  <2>2. contextArray[s_sessions[t]] = t + 1
    BY <1>9, <2>1 DEF IInv, SlotsMatchArray
  <2>3. s_sessions[t] # h
    BY <2>1, <2>2, SizesAssumption DEF slot, Slots
  <2>4. QED BY <1>1, <2>1, <2>2, <2>3
<1>10. QED BY <1>1, <1>4, <1>6, <1>7, <1>8, <1>9, ZenonT(30) DEF SlotsMatchArray

\* A successful TPM2_ContextSave issues a fresh contextID.
LEMMA ContextSaveIInv ==
    ASSUME IInv, NEW h \in Sessions, TPM2_ContextSave(h), SessionContextSave(h)
    PROVE  IInv'
<1> DEFINE n == contextCounter
           c == [handle |-> h, sequence |-> n, reset |-> totalResetCount]
<1>1. /\ started /\ IsLoaded(h) /\ ~GapIsMax /\ n < COUNTER_MAX
      /\ contextArray' = [contextArray EXCEPT ![h] = LowBits(n)]
      /\ contextCounter' = Increment(n)
      /\ s_oldestSavedSession' = IF s_oldestSavedSession >= MAX_ACTIVE_SESSIONS
                                 THEN h ELSE s_oldestSavedSession
      /\ s_sessions' = [s_sessions EXCEPT ![contextArray[h] - 1] = Empty]
      /\ s_freeSessionSlots' = s_freeSessionSlots + 1
      /\ contexts' = contexts \cup {c}
      /\ orderlyState' = "NONE"
      /\ UNCHANGED <<started, nvReset, totalResetCount, loaded>>
  BY DEF TPM2_ContextSave, SessionContextSave, ClearOrderly
<1>2. /\ contextArray \in [Sessions -> 0 .. (SLOT_MOD - 1)] /\ n \in Nat
      /\ totalResetCount \in Nat /\ contexts \subseteq Context /\ loaded \subseteq contexts
      /\ s_oldestSavedSession \in Sessions \cup {NoOldest}
  BY DEF IInv, TypeOK
<1>3. /\ LowBits(n) \in FirstID .. (SLOT_MOD - 1) /\ LowBits(n) \in 0 .. (SLOT_MOD - 1)
      /\ LowBits(n) \notin 1 .. MAX_LOADED_SESSIONS
  <2>1. LowBits(n) >= FirstID
    BY <1>1 DEF IInv, CurrentOK, TableOK
  <2>2. LowBits(n) \in 0 .. (SLOT_MOD - 1)
    BY <1>2, DivMod
  <2>3. QED BY <2>1, <2>2, SizesAssumption DEF FirstID
<1>4. /\ Increment(n) \in Nat /\ n < Increment(n) /\ LowBits(Increment(n)) >= FirstID
      /\ FullID(LowBits(n), Increment(n)) = n
      /\ \A e \in FirstID .. (SLOT_MOD - 1) :
            e # LowBits(n) => FullID(e, Increment(n)) = FullID(e, n)
  BY <1>2, <1>3, IncrementFacts, SizesAssumption DEF FirstID
<1>5. c \in Context /\ c.handle = h /\ c.sequence = n /\ c.reset = totalResetCount
  BY <1>2 DEF Context
<1>6. \A d \in contexts : d.reset = totalResetCount => d.sequence < n
  BY <1>1 DEF IInv, CurrentOK, Fresh
<1> HIDE DEF c
<1>7. c \notin contexts
  BY <1>2, <1>5, <1>6
<1>8. /\ SlotsMatchArray'
      /\ s_freeSessionSlots' \in 1 .. MAX_LOADED_SESSIONS
      /\ contextArray' \in [Sessions -> 0 .. (SLOT_MOD - 1)]
      /\ s_sessions' \in [Slots -> Sessions \cup {Empty}]
  BY <1>1, <1>3, FreeSlotOfLoaded, ZenonT(30)
<1>9. TypeOK'
  BY <1>1, <1>2, <1>4, <1>5, <1>8, SizesAssumption DEF IInv, TypeOK
<1>10. UniqueIDs' /\ ResetsOK'
  <2>1. ASSUME NEW d \in contexts PROVE d.reset <= totalResetCount /\ d.sequence \in Nat
    BY <1>2 DEF IInv, ResetsOK, Context
  <2>2. \A d \in contexts : d.reset = c.reset => d.sequence # c.sequence
    BY <1>2, <1>5, <1>6, <2>1
  <2>3. UniqueIDs'
    BY <1>1, <2>2 DEF IInv, UniqueIDs
  <2>4. QED BY <1>1, <1>2, <1>5, <2>1, <2>3 DEF ResetsOK
<1>11. ASSUME NEW k \in SavedIn(contextArray)
       PROVE  /\ k # h /\ k \in Sessions /\ contextArray'[k] = contextArray[k]
              /\ FullID(contextArray[k], Increment(n)) = FullID(contextArray[k], n)
              /\ FullID(contextArray[k], n) \in Int /\ FullID(contextArray[k], n) < n
              /\ Expected(k, contextArray, n) \in contexts \ loaded
              /\ Newest(k, FullID(contextArray[k], n))
  <2>1. k \in Sessions /\ contextArray[k] \in FirstID .. (SLOT_MOD - 1)
        /\ contextArray[k] \in 0 .. (SLOT_MOD - 1)
    BY <1>2, SizesAssumption DEF SavedIn, FirstID
  <2>2. k # h
    BY <1>1, <2>1, SizesAssumption DEF IsLoaded, FirstID
  <2>3. contextArray[k] # LowBits(n)
    <3>1. SUFFICES ASSUME contextArray[k] = LowBits(n) PROVE FALSE
      OBVIOUS
    <3>2. k = s_oldestSavedSession
      BY <1>1, <3>1, NoCollision DEF Countable
    <3>3. QED BY <1>1, <2>1, <3>1, <3>2, SizesAssumption DEF GapIsMax, Sessions
  <2>4. FullID(contextArray[k], n) \in Int /\ FullID(contextArray[k], n) < n
    BY <1>2, <2>1, FullIDRange
  <2>5. QED BY <1>1, <1>2, <1>4, <2>1, <2>2, <2>3, <2>4 DEF IInv, CurrentOK, TableOK
<1>12. SavedIn(contextArray') = SavedIn(contextArray) \cup {h}
       /\ contextArray'[h] = LowBits(n)
  <2>1. contextArray'[h] = LowBits(n) /\ contextArray'[h] > MAX_LOADED_SESSIONS
    BY <1>1, <1>2, <1>3, SizesAssumption DEF FirstID
  <2>2. \A k \in Sessions \ {h} : contextArray'[k] = contextArray[k]
    BY <1>1, <1>2
  <2>3. QED BY <2>1, <2>2 DEF SavedIn
<1>13. TableOK(contextArray, contextCounter)'
  <2>1. ASSUME NEW k \in SavedIn(contextArray')
        PROVE  /\ Expected(k, contextArray, contextCounter)' \in contexts' \ loaded'
               /\ Newest(k, FullID(contextArray[k], contextCounter))'
    <3>1. CASE k = h
      <4>1. Expected(k, contextArray, contextCounter)' = c
        BY <1>1, <1>4, <1>12, <3>1 DEF Expected, c
      <4>2. \A d \in contexts' : d.reset = totalResetCount => d.sequence <= n
        BY <1>1, <1>2, <1>5, <1>6 DEF Context
      <4>3. Newest(k, FullID(contextArray[k], contextCounter))'
        BY <1>1, <1>4, <1>12, <3>1, <4>2 DEF Newest
      <4>4. QED BY <1>1, <1>2, <1>7, <4>1, <4>3
    <3>2. CASE k # h
      <4>1. k \in SavedIn(contextArray)
        BY <1>12, <3>2
      <4>2. Expected(k, contextArray, contextCounter)' = Expected(k, contextArray, n)
        BY <1>1, <1>11, <4>1 DEF Expected
      <4>3. Newest(k, FullID(contextArray[k], contextCounter))'
        BY <1>1, <1>5, <1>11, <3>2, <4>1 DEF Newest
      <4>4. QED BY <1>1, <1>11, <4>1, <4>2, <4>3
    <3>3. QED BY <3>1, <3>2
  <2>2. QED BY <1>1, <1>4, <2>1, ZenonT(30) DEF TableOK
<1>14. OldestOK'
  <2>1. CASE SavedIn(contextArray) = {}
    <3>0. s_oldestSavedSession = NoOldest
      BY <1>1, <2>1 DEF IInv, CurrentOK, OldestOK
    <3>1. s_oldestSavedSession' = h /\ SavedIn(contextArray') = {h}
      <4>1. s_oldestSavedSession >= MAX_ACTIVE_SESSIONS
        BY <3>0, SizesAssumption DEF NoOldest
      <4>2. s_oldestSavedSession' = h
        BY <1>1, <4>1
      <4>3. QED BY <1>12, <2>1, <4>2
    <3>2. FullID(contextArray'[h], contextCounter') \in Int
      BY <1>1, <1>2, <1>4, <1>12
    <3>3. QED BY <3>1, <3>2 DEF OldestOK
  <2>2. CASE SavedIn(contextArray) # {}
    <3> DEFINE o == s_oldestSavedSession
    <3>1. o \in SavedIn(contextArray)
          /\ \A k \in SavedIn(contextArray) : FullID(contextArray[o], n) <= FullID(contextArray[k], n)
      BY <1>1, <2>2 DEF IInv, CurrentOK, OldestOK
    <3>2. s_oldestSavedSession' = o
      BY <1>1, <3>1, SizesAssumption DEF SavedIn, Sessions
    <3>3. FullID(contextArray'[h], contextCounter') = n
      BY <1>1, <1>4, <1>12
    <3>4. \A k \in SavedIn(contextArray) :
              FullID(contextArray'[k], contextCounter') = FullID(contextArray[k], n)
      BY <1>1, <1>11
    <3>5. \A k \in SavedIn(contextArray') :
              FullID(contextArray'[o], contextCounter') <= FullID(contextArray'[k], contextCounter')
      BY <1>2, <1>11, <1>12, <3>1, <3>3, <3>4
    <3>6. QED BY <1>12, <3>1, <3>2, <3>5 DEF OldestOK
  <2>3. QED BY <2>1, <2>2
<1>15. Fresh(contextCounter)'
  BY <1>1, <1>2, <1>4, <1>5, <1>6 DEF Fresh, Context
<1>16. GapIsRecoverable'
  BY <1>8, SizesAssumption DEF GapIsRecoverable
<1>17. CurrentOK' /\ SavedOK'
  BY <1>1, <1>13, <1>14, <1>15 DEF CurrentOK, SavedOK
<1>18. QED BY <1>8, <1>9, <1>10, <1>16, <1>17 DEF IInv

\* An exhausted counter makes TPM2_ContextSave overwrite the entry and fail; the
\* slot bookkeeping survives, and nothing else is claimed until a TPM Reset.
LEMMA TooManyContextsIInv ==
    ASSUME IInv, NEW h \in Sessions, TPM2_ContextSave(h), TooManyContexts(h)
    PROVE  IInv'
<1>1. /\ started /\ IsLoaded(h) /\ contextCounter = COUNTER_MAX
      /\ contextArray' = [contextArray EXCEPT ![h] = LowBits(contextCounter)]
      /\ orderlyState' = "NONE"
      /\ UNCHANGED <<contextCounter, s_sessions, s_freeSessionSlots, s_oldestSavedSession,
                     started, nvReset, totalResetCount, contexts, loaded>>
  BY DEF TPM2_ContextSave, TooManyContexts, ClearOrderly, ram
<1>2. contextArray \in [Sessions -> 0 .. (SLOT_MOD - 1)]
  BY DEF IInv, TypeOK
<1>3. LowBits(COUNTER_MAX) = SLOT_MOD - 1
  <2> DEFINE r == LowBits(COUNTER_MAX)
             b == COUNTER_MAX \div SLOT_MOD
  <2>1. b \in Int /\ r \in 0 .. (SLOT_MOD - 1) /\ COUNTER_MAX = SLOT_MOD * b + r
    BY DivMod, SizesAssumption
  <2> HIDE DEF r, b
  <2>2. SUFFICES ASSUME r # SLOT_MOD - 1 PROVE FALSE
    BY DEF r
  <2>3. r + 1 \in 0 .. (SLOT_MOD - 1) /\ COUNTER_MAX + 1 = SLOT_MOD * b + (r + 1)
    BY <2>1, <2>2, SizesAssumption
  <2>4. LowBits(SLOT_MOD * b + (r + 1)) = r + 1
    BY <2>1, <2>3, ModUnique
  <2>5. LowBits(COUNTER_MAX + 1) = 0
    BY SizesAssumption DEF LowBits
  <2>6. QED BY <2>1, <2>3, <2>4, <2>5, SizesAssumption
<1>4. contextArray' \in [Sessions -> 0 .. (SLOT_MOD - 1)] /\ ~IsLoaded(h)'
  BY <1>1, <1>2, <1>3, SizesAssumption DEF IsLoaded
<1>5. ~(contextCounter < COUNTER_MAX) /\ ~(contextCounter' < COUNTER_MAX)
  BY <1>1, SizesAssumption
<1>6. TypeOK'
  BY <1>1, <1>4 DEF IInv, TypeOK
<1>7. SlotsMatchArray'
  <2>1. \A k \in Sessions : IsLoaded(k)' => k # h /\ IsLoaded(k) /\ contextArray'[k] = contextArray[k]
    BY <1>1, <1>2, <1>4 DEF IsLoaded
  <2>2. QED BY <1>1, <1>5, <2>1 DEF IInv, SlotsMatchArray, FreeSlots
<1>8. CurrentOK' /\ SavedOK' /\ GapIsRecoverable'
  BY <1>1, <1>5 DEF IInv, CurrentOK, SavedOK, GapIsRecoverable, Countable, TableOK, OldestOK, Fresh
<1>9. QED BY <1>1, <1>6, <1>7, <1>8 DEF IInv, ResetsOK, UniqueIDs

\* An operation that removes the saved session h from the table, and refreshes
\* s_oldestSavedSession when h was the oldest, keeps the rest of the table.
LEMMA RemoveSaved ==
    ASSUME IInv, started, started', NEW h \in SavedIn(contextArray),
           NEW e \in 0 .. MAX_LOADED_SESSIONS,
           contextArray' = [contextArray EXCEPT ![h] = e],
           s_oldestSavedSession' = IF h = s_oldestSavedSession
                                   THEN ContextIdSetOldest(contextArray', contextCounter)
                                   ELSE s_oldestSavedSession,
           UNCHANGED <<contextCounter, totalResetCount, contexts>>,
           \A c \in loaded' : c \in loaded \/ c.handle = h
    PROVE  /\ contextArray' \in [Sessions -> 0 .. (SLOT_MOD - 1)]
           /\ s_oldestSavedSession' \in Sessions \cup {NoOldest}
           /\ CurrentOK'
           /\ Countable' /\ GapIsMax' => GapIsMax /\ h # s_oldestSavedSession
<1> DEFINE n == contextCounter
<1>1. /\ contextArray \in [Sessions -> 0 .. (SLOT_MOD - 1)] /\ n \in Nat
      /\ s_oldestSavedSession \in Sessions \cup {NoOldest}
  BY DEF IInv, TypeOK
<1>2. contextArray' \in [Sessions -> 0 .. (SLOT_MOD - 1)]
  <2>1. e \in 0 .. (SLOT_MOD - 1) /\ n \in Int
    BY <1>1, SizesAssumption
  <2>2. QED BY <1>1, <2>1, ZenonT(30)
<1>3. /\ SavedIn(contextArray') = SavedIn(contextArray) \ {h}
      /\ \A k \in SavedIn(contextArray') : contextArray'[k] = contextArray[k]
  BY <1>1, SizesAssumption DEF SavedIn
<1>4. TableOK(contextArray, contextCounter)'
  <2>1. SUFFICES ASSUME n < COUNTER_MAX, NEW k \in SavedIn(contextArray')
                 PROVE  /\ Expected(k, contextArray, contextCounter)' \in contexts' \ loaded'
                        /\ Newest(k, FullID(contextArray[k], contextCounter))'
    BY ZenonT(30) DEF TableOK, IInv, CurrentOK
  <2>2. Expected(k, contextArray, contextCounter)' = Expected(k, contextArray, n)
    BY <1>3, ZenonT(30) DEF Expected
  <2>3. Expected(k, contextArray, n) \in contexts \ loaded /\ k # h
    BY <1>3, <2>1, ZenonT(30) DEF IInv, CurrentOK, TableOK
  <2>4. Expected(k, contextArray, n).handle = k
    BY DEF Expected
  <2>5. Newest(k, FullID(contextArray[k], contextCounter))'
    BY <1>3, <2>1, ZenonT(30) DEF IInv, CurrentOK, TableOK, Newest
  <2>6. QED BY <2>2, <2>3, <2>4, <2>5
<1>5. CASE h = s_oldestSavedSession
  <2> DEFINE a == contextArray'
             o == ContextIdSetOldest(a, n)
  <2>1. IF SavedIn(a) = {} THEN o = NoOldest
        ELSE /\ o \in SavedIn(a)
             /\ \A k \in SavedIn(a) : FullID(a[o], n) <= FullID(a[k], n)
    <3>1. a \in [Sessions -> 0 .. (SLOT_MOD - 1)] /\ n \in Int
      BY <1>1, <1>2
    <3> HIDE DEF a, n
    <3>2. QED BY <3>1, SetOldestFacts
  <2>2. s_oldestSavedSession' = o
    BY <1>5
  <2> HIDE DEF o
  <2>3. OldestOK' /\ s_oldestSavedSession' \in Sessions \cup {NoOldest}
    BY <2>1, <2>2, ZenonT(30) DEF OldestOK, SavedIn
  <2>4. ~(Countable' /\ GapIsMax')
    <3>1. SUFFICES ASSUME Countable', GapIsMax' PROVE FALSE
      OBVIOUS
    <3>2. o \in SavedIn(contextArray') /\ contextArray'[o] = LowBits(n)
      BY <2>1, <2>2, <3>1, SizesAssumption DEF GapIsMax, NoOldest
    <3>3. o \in SavedIn(contextArray) /\ o # h /\ contextArray[o] = LowBits(n)
      BY <1>3, <3>2, ZenonT(30)
    <3>4. o = s_oldestSavedSession
      BY <3>1, <3>3, NoCollision DEF Countable
    <3>5. QED BY <1>5, <3>3, <3>4
  <2>5. QED BY <1>2, <1>4, <2>3, <2>4 DEF IInv, CurrentOK, Fresh
<1>6. CASE h # s_oldestSavedSession
  <2>1. s_oldestSavedSession' = s_oldestSavedSession
    BY <1>6
  <2>2. n < COUNTER_MAX =>
          /\ s_oldestSavedSession \in SavedIn(contextArray')
          /\ contextArray'[s_oldestSavedSession] = contextArray[s_oldestSavedSession]
    BY <1>3, <1>6, ZenonT(30) DEF IInv, CurrentOK, OldestOK
  <2>3. OldestOK'
    BY <1>3, <2>1, <2>2, ZenonT(30) DEF IInv, CurrentOK, OldestOK
  <2>4. Countable' /\ GapIsMax' => GapIsMax
    BY <2>1, <2>2 DEF Countable, GapIsMax
  <2>5. QED BY <1>1, <1>2, <1>4, <1>6, <2>1, <2>3, <2>4 DEF IInv, CurrentOK, Fresh
<1>7. QED BY <1>5, <1>6

\* A successful TPM2_ContextLoad takes a free slot and retires the context.
LEMMA ContextLoadIInv ==
    ASSUME IInv, NEW c \in contexts, started, UNCHANGED started,
           SequenceNumberForSavedContextIsValid(c), MayLoad(c.handle),
           SessionContextLoad(c.handle), loaded' = loaded \cup {c}, orderlyState' = "NONE",
           UNCHANGED <<contextCounter, nvReset, totalResetCount, contexts>>
    PROVE  IInv'
<1> DEFINE h == c.handle
           slot == FirstFree(FreeSlots)
<1>1. /\ contextArray \in [Sessions -> 0 .. (SLOT_MOD - 1)]
      /\ s_sessions \in [Slots -> Sessions \cup {Empty}]
      /\ s_freeSessionSlots \in 0 .. MAX_LOADED_SESSIONS
      /\ contexts \subseteq Context /\ loaded \subseteq contexts
  BY DEF IInv, TypeOK
<1>2. h \in SavedIn(contextArray) /\ h \in Sessions
  BY <1>1 DEF SequenceNumberForSavedContextIsValid, IsSaved, SavedIn, Context
<1>3. slot \in FreeSlots /\ slot \in Slots /\ s_sessions[slot] = Empty
  <2>1. FreeSlots # {}
    BY SlotFacts, FS_EmptySet DEF MayLoad, IInv, SlotsMatchArray
  <2>2. FreeSlots \in SUBSET Nat
    BY SizesAssumption DEF FreeSlots, Slots
  <2>3. slot \in FreeSlots
    BY <2>1, <2>2, FirstFreeIn
  <2>4. QED BY <2>3 DEF FreeSlots
<1>4. /\ contextArray' = [contextArray EXCEPT ![h] = slot + 1]
      /\ s_sessions' = [s_sessions EXCEPT ![slot] = h]
      /\ s_freeSessionSlots' = s_freeSessionSlots - 1
      /\ s_oldestSavedSession' = IF h = s_oldestSavedSession
                                 THEN ContextIdSetOldest(contextArray', contextCounter)
                                 ELSE s_oldestSavedSession
  BY DEF SessionContextLoad
<1> HIDE DEF slot
<1>5. slot + 1 \in 1 .. MAX_LOADED_SESSIONS /\ slot + 1 \in 0 .. MAX_LOADED_SESSIONS
  BY <1>3, SizesAssumption DEF Slots
<1>6. /\ contextArray' \in [Sessions -> 0 .. (SLOT_MOD - 1)]
      /\ s_oldestSavedSession' \in Sessions \cup {NoOldest}
      /\ CurrentOK'
      /\ Countable' /\ GapIsMax' => GapIsMax /\ h # s_oldestSavedSession
  <2>1. \A d \in loaded' : d \in loaded \/ d.handle = h
    OBVIOUS
  <2> HIDE DEF h
  <2>2. QED BY <1>2, <1>4, <1>5, <2>1, RemoveSaved, ZenonT(30)
<1> HIDE DEF h
<1>7. TypeOK'
  <2>1. s_sessions' \in [Slots -> Sessions \cup {Empty}]
    BY <1>1, <1>2, <1>4, ZenonT(30)
  <2>2. s_freeSessionSlots' \in 0 .. MAX_LOADED_SESSIONS
    BY <1>1, <1>4, SizesAssumption DEF MayLoad
  <2>3. QED BY <1>1, <1>6, <2>1, <2>2 DEF IInv, TypeOK
<1>8. SlotsMatchArray'
  <2>1. FreeSlots' = FreeSlots \ {slot}
    BY <1>1, <1>2, <1>3, <1>4, SizesAssumption DEF FreeSlots, Sessions, Empty
  <2>2. Cardinality(FreeSlots') = s_freeSessionSlots'
    BY <1>3, <1>4, <2>1, SlotFacts, FS_RemoveElement, ZenonT(30) DEF IInv, SlotsMatchArray
  <2>3. ASSUME NEW k \in Sessions, IsLoaded(k)' PROVE s_sessions'[contextArray'[k] - 1] = k
    <3>1. CASE k = h
      BY <1>1, <1>2, <1>3, <1>4, <1>5, <3>1 DEF Slots
    <3>2. CASE k # h
      <4>1. IsLoaded(k) /\ contextArray'[k] = contextArray[k]
        BY <1>1, <1>4, <2>3, <3>2 DEF IsLoaded
      <4>2. s_sessions[contextArray[k] - 1] = k /\ contextArray[k] - 1 \in Slots
        BY <4>1, SizesAssumption DEF IInv, SlotsMatchArray, IsLoaded, Slots
      <4>3. contextArray[k] - 1 # slot
        BY <4>2, <1>3, SizesAssumption DEF Empty, Sessions
      <4>4. QED BY <1>1, <1>4, <4>1, <4>2, <4>3
    <3>3. QED BY <3>1, <3>2
  <2>4. ASSUME contextCounter' < COUNTER_MAX, NEW t \in Slots, s_sessions'[t] # Empty
        PROVE  contextArray'[s_sessions'[t]] = t + 1
    <3>1. CASE t = slot
      BY <1>1, <1>2, <1>4, <3>1
    <3>2. CASE t # slot
      <4>1. s_sessions'[t] = s_sessions[t] /\ s_sessions[t] \in Sessions
        BY <1>1, <1>4, <2>4, <3>2
      <4>2. contextArray[s_sessions[t]] = t + 1
        BY <2>4, <4>1 DEF IInv, SlotsMatchArray
      <4>3. s_sessions[t] # h
        BY <1>2, <4>2, SizesAssumption DEF Slots, SavedIn
      <4>4. QED BY <1>1, <1>4, <4>1, <4>2, <4>3
    <3>3. QED BY <3>1, <3>2
  <2>5. QED BY <2>2, <2>3, <2>4 DEF SlotsMatchArray
<1>9. GapIsRecoverable'
  <2>1. Countable' /\ GapIsMax' => s_freeSessionSlots # 1 /\ s_freeSessionSlots # 0
    BY <1>6 DEF MayLoad, h
  <2>2. QED BY <1>1, <1>4, <2>1, SizesAssumption DEF GapIsRecoverable
<1>10. SavedOK' /\ ResetsOK' /\ UniqueIDs'
  BY DEF IInv, SavedOK, ResetsOK, UniqueIDs
<1>11. QED BY <1>6, <1>7, <1>8, <1>9, <1>10 DEF IInv

\* Flushing a loaded or a saved session.
LEMMA SessionFlushIInv ==
    ASSUME IInv, NEW h \in Sessions, started, IsLoaded(h) \/ IsSaved(h), SessionFlush(h)
    PROVE  IInv'
<1>1. /\ contextArray' = [contextArray EXCEPT ![h] = 0]
      /\ UNCHANGED <<contextCounter, started, orderlyState, nvReset, totalResetCount,
                     contexts, loaded>>
  BY DEF SessionFlush, nv, hist
<1>2. contextArray \in [Sessions -> 0 .. (SLOT_MOD - 1)]
  BY DEF IInv, TypeOK
<1>3. /\ 0 \in 0 .. MAX_LOADED_SESSIONS /\ 0 \in 0 .. (SLOT_MOD - 1)
      /\ 0 \notin 1 .. MAX_LOADED_SESSIONS
  BY SizesAssumption
<1>4. ResetsOK' /\ UniqueIDs' /\ SavedOK'
  BY <1>1 DEF IInv, ResetsOK, UniqueIDs, SavedOK, Fresh, TableOK, Expected, Newest
<1>5. CASE IsSaved(h)
  <2>1. /\ s_oldestSavedSession' = IF h = s_oldestSavedSession
                                   THEN ContextIdSetOldest(contextArray', contextCounter)
                                   ELSE s_oldestSavedSession
        /\ UNCHANGED <<s_sessions, s_freeSessionSlots>>
    BY <1>5 DEF SessionFlush
  <2>2. h \in SavedIn(contextArray)
    BY <1>5 DEF IsSaved, SavedIn
  <2>3. /\ contextArray' \in [Sessions -> 0 .. (SLOT_MOD - 1)]
        /\ s_oldestSavedSession' \in Sessions \cup {NoOldest}
        /\ CurrentOK'
        /\ Countable' /\ GapIsMax' => GapIsMax /\ h # s_oldestSavedSession
    BY <1>1, <1>3, <2>1, <2>2, RemoveSaved, ZenonT(30)
  <2>4. TypeOK'
    BY <1>1, <2>1, <2>3 DEF IInv, TypeOK
  <2>5. SlotsMatchArray'
    <3>1. \A k \in Sessions : IsLoaded(k)' => IsLoaded(k) /\ contextArray'[k] = contextArray[k]
      BY <1>1, <1>2 DEF IsLoaded
    <3>2. \A t \in Slots : contextArray[h] # t + 1
      BY <1>5, SizesAssumption DEF IsSaved, Slots
    <3>3. ASSUME contextCounter < COUNTER_MAX, NEW t \in Slots, s_sessions[t] # Empty
          PROVE  contextArray'[s_sessions[t]] = t + 1
      <4>1. s_sessions[t] \in Sessions /\ contextArray[s_sessions[t]] = t + 1
        BY <3>3 DEF IInv, TypeOK, SlotsMatchArray
      <4>2. QED BY <1>1, <1>2, <3>2, <4>1
    <3>4. QED BY <1>1, <2>1, <3>1, <3>3 DEF IInv, SlotsMatchArray, FreeSlots
  <2>6. GapIsRecoverable'
    BY <1>1, <2>1, <2>3 DEF IInv, GapIsRecoverable, Countable
  <2>7. QED BY <1>4, <2>3, <2>4, <2>5, <2>6 DEF IInv
<1>6. CASE ~IsSaved(h)
  <2>1. /\ IsLoaded(h)
        /\ s_sessions' = [s_sessions EXCEPT ![contextArray[h] - 1] = Empty]
        /\ s_freeSessionSlots' = s_freeSessionSlots + 1
        /\ UNCHANGED s_oldestSavedSession
    BY <1>6 DEF SessionFlush
  <2>2. /\ SlotsMatchArray'
        /\ s_freeSessionSlots' \in 1 .. MAX_LOADED_SESSIONS
        /\ contextArray' \in [Sessions -> 0 .. (SLOT_MOD - 1)]
        /\ s_sessions' \in [Slots -> Sessions \cup {Empty}]
    BY <1>1, <1>3, <2>1, FreeSlotOfLoaded, ZenonT(30)
  <2>3. TypeOK'
    BY <1>1, <2>1, <2>2, SizesAssumption DEF IInv, TypeOK
  <2>4. /\ SavedIn(contextArray') = SavedIn(contextArray)
        /\ \A k \in SavedIn(contextArray) : contextArray'[k] = contextArray[k]
    BY <1>1, <1>2, <1>6, SizesAssumption DEF SavedIn, IsSaved
  <2>5. CurrentOK'
    BY <1>1, <2>1, <2>4, ZenonT(30) DEF IInv, CurrentOK, Fresh, TableOK, Expected, Newest, OldestOK
  <2>6. GapIsRecoverable'
    BY <2>2, SizesAssumption DEF GapIsRecoverable
  <2>7. QED BY <1>4, <2>2, <2>3, <2>5, <2>6 DEF IInv
<1>7. QED BY <1>5, <1>6

\* Shutdown records the table in use; a loss of power leaves only NV.
LEMMA ShutdownIInv ==
    ASSUME IInv, NEW type \in {"CLEAR", "STATE"}, TPM2_Shutdown(type)
    PROVE  IInv'
<1>1. /\ started /\ orderlyState' = type
      /\ nvReset' = IF type = "STATE"
                    THEN [array |-> contextArray, counter |-> contextCounter] ELSE nvReset
      /\ UNCHANGED <<contextArray, contextCounter, s_sessions, s_freeSessionSlots,
                     s_oldestSavedSession, started, totalResetCount, contexts, loaded>>
  BY DEF TPM2_Shutdown, gr, ram, hist
<1>2. nvReset' \in [array : [Sessions -> 0 .. (SLOT_MOD - 1)], counter : Nat]
  BY <1>1 DEF IInv, TypeOK
<1>3. TypeOK'
  BY <1>1, <1>2 DEF IInv, TypeOK
<1>4. SavedOK'
  BY <1>1 DEF IInv, CurrentOK, SavedOK, Fresh, TableOK, Expected, Newest
<1>5. QED BY <1>1, <1>3, <1>4
          DEF IInv, ResetsOK, UniqueIDs, SlotsMatchArray, GapIsRecoverable, Countable, GapIsMax,
              IsLoaded, FreeSlots, CurrentOK, Fresh, TableOK, Expected, Newest, OldestOK

LEMMA PowerLossIInv ==
    ASSUME IInv, PowerLoss
    PROVE  IInv'
<1>1. /\ started' = FALSE /\ contextArray' = ZeroArray /\ contextCounter' = 0
      /\ s_sessions' = NoSlots /\ s_freeSessionSlots' = 0 /\ s_oldestSavedSession' = 0
      /\ UNCHANGED <<orderlyState, nvReset, totalResetCount, contexts, loaded>>
  BY DEF PowerLoss, nv, hist
<1>2. TypeOK'
  <2>1. 0 \in 0 .. MAX_LOADED_SESSIONS /\ 0 \in Nat
    BY SizesAssumption
  <2>2. QED BY <1>1, <2>1, ClearedTables, ZenonT(30) DEF IInv, TypeOK
<1>3. QED BY <1>1, <1>2, ZenonT(30)
          DEF IInv, ResetsOK, UniqueIDs, SlotsMatchArray, GapIsRecoverable, Countable,
              CurrentOK, SavedOK, Fresh, TableOK, Expected, Newest

\* Startup begins with all slots free and no entry that denotes a slot.
LEMMA StartupSlots ==
    ASSUME StartupCommon, \A h \in Sessions : ~IsLoaded(h)'
    PROVE  SlotsMatchArray' /\ GapIsRecoverable'
<1>1. s_sessions' = NoSlots /\ s_freeSessionSlots' = MAX_LOADED_SESSIONS
  BY DEF StartupCommon
<1>2. FreeSlots' = Slots
  BY <1>1, ClearedTables DEF FreeSlots
<1>3. QED BY <1>1, <1>2, SlotFacts, ClearedTables, SizesAssumption
          DEF SlotsMatchArray, GapIsRecoverable

\* A startup that resumes the saved table: its saved sessions, and no others.
LEMMA StartupPreservingIInv ==
    ASSUME IInv, StartupPreserving
    PROVE  IInv'
<1> DEFINE a == nvReset.array
           n == nvReset.counter
<1>1. /\ ~started /\ started' = TRUE /\ s_sessions' = NoSlots
      /\ s_freeSessionSlots' = MAX_LOADED_SESSIONS /\ orderlyState = "STATE" /\ orderlyState' = "NONE"
      /\ contextArray' = KeepSaved(a) /\ contextCounter' = n
      /\ s_oldestSavedSession' = ContextIdSetOldest(contextArray', contextCounter')
      /\ UNCHANGED <<nvReset, totalResetCount, contexts, loaded>>
  BY DEF StartupPreserving, StartupCommon, hist
<1>2. a \in [Sessions -> 0 .. (SLOT_MOD - 1)] /\ n \in Nat
  BY DEF IInv, TypeOK
<1>3. Fresh(n) /\ TableOK(a, n)
  BY <1>1 DEF IInv, SavedOK
<1> HIDE DEF a, n
<1> DEFINE b == KeepSaved(a)
           o == ContextIdSetOldest(b, n)
<1>4. /\ b \in [Sessions -> 0 .. (SLOT_MOD - 1)]
      /\ SavedIn(b) = SavedIn(a) /\ \A h \in SavedIn(a) : b[h] = a[h]
      /\ \A h \in Sessions : b[h] \notin 1 .. MAX_LOADED_SESSIONS
  BY <1>2, SizesAssumption DEF KeepSaved, SavedIn
<1> HIDE DEF b
<1>5. IF SavedIn(b) = {} THEN o = NoOldest
      ELSE /\ o \in SavedIn(b)
           /\ \A h \in SavedIn(b) : FullID(b[o], n) <= FullID(b[h], n)
  <2>1. n \in Int
    BY <1>2
  <2>2. QED BY <1>4, <2>1, SetOldestFacts
<1>6. contextArray' = b /\ contextCounter' = n /\ s_oldestSavedSession' = o
  BY <1>1 DEF b
<1> HIDE DEF o
<1>7. TypeOK'
  <2>1. o \in Sessions \cup {NoOldest}
    BY <1>5 DEF SavedIn
  <2>2. QED BY <1>1, <1>2, <1>4, <1>6, <2>1, ClearedTables, SizesAssumption DEF IInv, TypeOK
<1>8. SlotsMatchArray' /\ GapIsRecoverable'
  BY <1>4, <1>6, StartupSlots DEF StartupPreserving, IsLoaded
<1>9. CurrentOK'
  <2>1. Fresh(contextCounter)'
    BY <1>1, <1>3, <1>6 DEF Fresh
  <2>2. TableOK(contextArray, contextCounter)'
    BY <1>1, <1>3, <1>4, <1>6 DEF TableOK, Expected, Newest
  <2>3. OldestOK'
    BY <1>5, <1>6 DEF OldestOK
  <2>4. QED BY <2>1, <2>2, <2>3 DEF CurrentOK
<1>10. QED BY <1>1, <1>7, <1>8, <1>9 DEF IInv, ResetsOK, UniqueIDs, SavedOK

\* A TPM Reset starts a new period in which no context has been issued yet.
LEMMA StartupResetIInv ==
    ASSUME IInv, StartupReset
    PROVE  IInv'
<1>1. /\ started' = TRUE /\ s_sessions' = NoSlots
      /\ s_freeSessionSlots' = MAX_LOADED_SESSIONS /\ orderlyState' = "NONE"
      /\ totalResetCount' = totalResetCount + 1
      /\ contextArray' = ZeroArray /\ contextCounter' = FirstID
      /\ s_oldestSavedSession' = NoOldest
      /\ UNCHANGED <<nvReset, contexts, loaded>>
  BY DEF StartupReset, StartupCommon, hist
<1>2. totalResetCount \in Nat /\ contexts \subseteq Context
  BY DEF IInv, TypeOK
<1>3. \A c \in contexts : c.reset \in Nat /\ c.reset < totalResetCount'
  BY <1>1, <1>2 DEF IInv, ResetsOK, Context
<1>4. FirstID \in Nat /\ LowBits(FirstID) = FirstID
  <2>1. FirstID \in 0 .. (SLOT_MOD - 1) /\ FirstID \in Nat
    BY SizesAssumption DEF FirstID
  <2>2. LowBits(SLOT_MOD * 0 + FirstID) = FirstID
    BY <2>1, ModUnique
  <2>3. QED BY <2>1, <2>2, SizesAssumption
<1>5. TypeOK'
  BY <1>1, <1>2, <1>4, ClearedTables, SizesAssumption DEF IInv, TypeOK
<1>6. SlotsMatchArray' /\ GapIsRecoverable'
  BY <1>1, ClearedTables, StartupSlots, SizesAssumption DEF StartupReset, IsLoaded
<1>7. CurrentOK'
  <2>1. Fresh(contextCounter)'
    BY <1>1, <1>2, <1>3 DEF Fresh
  <2>2. TableOK(contextArray, contextCounter)' /\ OldestOK'
    BY <1>1, <1>4, ClearedTables DEF TableOK, OldestOK
  <2>3. QED BY <2>1, <2>2 DEF CurrentOK
<1>8. ResetsOK'
  BY <1>1, <1>2, <1>3 DEF ResetsOK
<1>9. QED BY <1>1, <1>5, <1>6, <1>7, <1>8 DEF IInv, UniqueIDs, SavedOK

\* Every step of the session manager preserves the inductive invariant.
LEMMA NextIInv == IInv /\ [Next]_vars => IInv'
<1> SUFFICES ASSUME IInv, [Next]_vars PROVE IInv'
  OBVIOUS
<1>1. CASE TPM2_StartAuthSession
  BY <1>1, StartAuthSessionIInv
<1>2. ASSUME NEW h \in Sessions, TPM2_ContextSave(h) PROVE IInv'
  <2>1. CASE SessionContextSave(h)
    BY <1>2, <2>1, ContextSaveIInv
  <2>2. CASE TooManyContexts(h)
    BY <1>2, <2>2, TooManyContextsIInv
  <2>3. CASE UNCHANGED <<gr, ram, contexts>>
    BY <1>2, <2>3, RefusedIInv DEF TPM2_ContextSave, hist
  <2>4. QED BY <1>2, <2>1, <2>2, <2>3 DEF TPM2_ContextSave
<1>3. ASSUME NEW h \in Sessions, TPM2_FlushContext(h) \/ EndSession(h) PROVE IInv'
  BY <1>3, SessionFlushIInv DEF TPM2_FlushContext, EndSession
<1>4. ASSUME NEW c \in contexts, TPM2_ContextLoad(c) PROVE IInv'
  <2>1. CASE SequenceNumberForSavedContextIsValid(c) /\ MayLoad(c.handle)
    BY <1>4, <2>1, ContextLoadIInv DEF TPM2_ContextLoad, ClearOrderly
  <2>2. CASE ~(SequenceNumberForSavedContextIsValid(c) /\ MayLoad(c.handle))
    <3>1. UNCHANGED <<gr, ram, started, nvReset, totalResetCount, hist>> /\ ClearOrderly
      BY <1>4, <2>2 DEF TPM2_ContextLoad, gr, ram, hist
    <3>2. QED BY <3>1, RefusedIInv
  <2>3. QED BY <2>1, <2>2
<1>5. ASSUME NEW type \in {"CLEAR", "STATE"}, TPM2_Shutdown(type) PROVE IInv'
  BY <1>5, ShutdownIInv
<1>6. CASE PowerLoss
  BY <1>6, PowerLossIInv
<1>7. CASE StartupPreserving
  BY <1>7, StartupPreservingIInv
<1>8. CASE StartupReset
  BY <1>8, StartupResetIInv
<1>9. CASE UNCHANGED vars
  BY <1>9, RefusedIInv DEF vars, gr, ram, hist
<1>10. QED BY <1>1, <1>2, <1>3, <1>4, <1>5, <1>6, <1>7, <1>8, <1>9 DEF Next

-----------------------------------------------------------------------------
(* Theorems *)

\* The inductive invariant holds in every reachable state.
THEOREM Invariance == Spec => []IInv
  BY InitIInv, NextIInv, PTL DEF Spec

\* The variables keep their types: contextArray entries fit CONTEXT_SLOT, the free
\* count stays between 0 and MAX_LOADED_SESSIONS, the oldest index is a session.
THEOREM TypeCorrect == Spec => []TypeOK
<1>1. IInv => TypeOK
  BY DEF IInv
<1>2. QED BY <1>1, Invariance, PTL

\* contextArray and s_sessions agree, so the searches for a free slot in
\* SessionCreate and SessionContextLoad never reach their internal errors.
THEOREM SlotsAgree == Spec => []SlotsMatchArray
<1>1. IInv => SlotsMatchArray
  BY DEF IInv
<1>2. QED BY <1>1, Invariance, PTL

\* The last slot is never taken while the oldest context has to be recycled.
THEOREM OldestCanBeRecycled == Spec => []GapIsRecoverable
<1>1. IInv => GapIsRecoverable
  BY DEF IInv
<1>2. QED BY <1>1, Invariance, PTL

\* No contextID is issued twice between two TPM Resets.
THEOREM IDsAreFresh == Spec => []IssuedIDsAreFresh
<1>1. IInv => IssuedIDsAreFresh
  BY DEF IInv, CurrentOK, Fresh, IssuedIDsAreFresh
<1>2. QED BY <1>1, Invariance, PTL

\* The context the TPM accepts for a session is the one its entry stands for.
LEMMA AcceptableIsExpected ==
    ASSUME IInv, Countable, NEW c \in contexts, Acceptable(c)
    PROVE  /\ c.handle \in SavedIn(contextArray)
           /\ c = Expected(c.handle, contextArray, contextCounter)
<1>1. /\ c \in Context /\ contextCounter \in Nat
      /\ c.reset = totalResetCount /\ contextArray[c.handle] = LowBits(c.sequence)
      /\ contextArray[c.handle] > MAX_LOADED_SESSIONS
      /\ contextCounter - c.sequence <= SLOT_MOD
  BY DEF IInv, TypeOK, Acceptable, ComputeContextIntegrity,
         SequenceNumberForSavedContextIsValid, IsSaved
<1>2. c.handle \in SavedIn(contextArray) /\ c.sequence \in Nat
  BY <1>1 DEF SavedIn, Context
<1>3. c.sequence < contextCounter
  BY <1>1 DEF IInv, Countable, CurrentOK, Fresh
<1>4. c.sequence = FullID(contextArray[c.handle], contextCounter)
  <2>1. contextCounter - SLOT_MOD <= c.sequence
    BY <1>1, <1>2, SizesAssumption
  <2>2. QED BY <1>1, <1>2, <1>3, <2>1, FullIDUnique
<1>5. QED BY <1>1, <1>2, <1>4, ZenonT(30) DEF Expected, Context

\* And that context is accepted.
LEMMA ExpectedIsAcceptable ==
    ASSUME IInv, Countable, NEW h \in SavedIn(contextArray)
    PROVE  Acceptable(Expected(h, contextArray, contextCounter))
<1> DEFINE c == Expected(h, contextArray, contextCounter)
<1>1. /\ c.handle = h /\ c.reset = totalResetCount
      /\ c.sequence = FullID(contextArray[h], contextCounter)
  BY DEF Expected
<1>2. /\ contextArray[h] \in 0 .. (SLOT_MOD - 1) /\ contextCounter \in Nat
      /\ contextArray[h] > MAX_LOADED_SESSIONS
  BY DEF IInv, TypeOK, SavedIn
<1> HIDE DEF c
<1>3. /\ c.sequence \in Int /\ contextCounter - SLOT_MOD <= c.sequence
      /\ c.sequence < contextCounter /\ LowBits(c.sequence) = contextArray[h]
  BY <1>1, <1>2, FullIDRange
<1>4. Acceptable(c)
  BY <1>1, <1>2, <1>3, SizesAssumption
     DEF Acceptable, ComputeContextIntegrity, SequenceNumberForSavedContextIsValid, IsSaved
<1>5. QED BY <1>4 DEF c

\* A context that was loaded is never accepted again.
THEOREM ContextsAreNotReplayed == Spec => []NoReplay
<1>1. IInv => NoReplay
  <2> SUFFICES ASSUME IInv, Countable, NEW c \in loaded, Acceptable(c) PROVE FALSE
    BY DEF NoReplay
  <2>1. c \in contexts
    BY DEF IInv, TypeOK
  <2>2. c.handle \in SavedIn(contextArray) /\ c = Expected(c.handle, contextArray, contextCounter)
    BY <2>1, AcceptableIsExpected
  <2>3. c \notin loaded
    BY <2>2 DEF IInv, Countable, CurrentOK, TableOK
  <2>4. QED BY <2>3
<1>2. QED BY <1>1, Invariance, PTL

\* Every saved session has exactly one acceptable context: the last one saved.
THEOREM NewestIsAcceptable == Spec => []OnlyNewestAcceptable
<1>1. IInv => OnlyNewestAcceptable
  <2> SUFFICES ASSUME IInv, Countable, NEW h \in Sessions, IsSaved(h)
               PROVE  \E c \in contexts :
                        /\ c.handle = h
                        /\ Acceptable(c)
                        /\ \A d \in contexts : d.handle = h /\ d # c =>
                              ~Acceptable(d) /\ (d.reset = c.reset => d.sequence < c.sequence)
    BY DEF OnlyNewestAcceptable
  <2> DEFINE c == Expected(h, contextArray, contextCounter)
  <2>1. h \in SavedIn(contextArray)
    BY DEF IsSaved, SavedIn
  <2>2. /\ c \in contexts /\ c.handle = h /\ c.reset = totalResetCount
        /\ Newest(h, c.sequence)
    BY <2>1 DEF IInv, Countable, CurrentOK, TableOK, Expected
  <2>3. Acceptable(c)
    BY <2>1, ExpectedIsAcceptable
  <2>4. ASSUME NEW d \in contexts, d.handle = h, d # c
        PROVE  ~Acceptable(d) /\ (d.reset = c.reset => d.sequence < c.sequence)
    <3>1. ~Acceptable(d)
      BY <2>4, AcceptableIsExpected
    <3> HIDE DEF c
    <3>2. ASSUME d.reset = c.reset PROVE d.sequence < c.sequence
      <4>1. d.sequence <= c.sequence
        BY <2>2, <2>4, <3>2 DEF Newest
      <4>2. d.sequence # c.sequence
        BY <2>2, <2>4, <3>2 DEF IInv, UniqueIDs
      <4>3. d.sequence \in Nat /\ c.sequence \in Nat
        BY <2>2 DEF IInv, TypeOK, Context
      <4>4. QED BY <4>1, <4>2, <4>3
    <3>3. QED BY <3>1, <3>2
  <2>5. QED BY <2>2, <2>3, <2>4
<1>2. QED BY <1>1, Invariance, PTL

\* s_oldestSavedSession is the session that was saved first, and only its entry
\* can match the next contextID.
THEOREM OldestIsTheOldest == Spec => []OldestIsOldest
<1>1. IInv => OldestIsOldest
  <2> SUFFICES ASSUME IInv, Countable
               PROVE  /\ (s_oldestSavedSession = NoOldest) <=> (SavedIn(contextArray) = {})
                      /\ \A h \in Sessions : IsSaved(h) =>
                            /\ contextArray[h] = LowBits(contextCounter) => h = s_oldestSavedSession
                            /\ \A c, d \in contexts :
                                  /\ Acceptable(c) /\ c.handle = s_oldestSavedSession
                                  /\ Acceptable(d) /\ d.handle = h
                                  => c.sequence <= d.sequence
    BY DEF OldestIsOldest
  <2>1. (s_oldestSavedSession = NoOldest) <=> (SavedIn(contextArray) = {})
    <3>1. NoOldest \notin SavedIn(contextArray)
      BY SizesAssumption DEF NoOldest, SavedIn, Sessions
    <3>2. QED BY <3>1 DEF IInv, Countable, CurrentOK, OldestOK
  <2>2. ASSUME NEW h \in Sessions, IsSaved(h)
        PROVE  contextArray[h] = LowBits(contextCounter) => h = s_oldestSavedSession
    BY <2>2, NoCollision DEF IsSaved, SavedIn
  <2>3. ASSUME NEW c \in contexts, NEW d \in contexts,
               Acceptable(c), c.handle = s_oldestSavedSession, Acceptable(d)
        PROVE  c.sequence <= d.sequence
    <3>1. /\ d.handle \in SavedIn(contextArray)
          /\ c = Expected(c.handle, contextArray, contextCounter)
          /\ d = Expected(d.handle, contextArray, contextCounter)
      BY <2>3, AcceptableIsExpected
    <3>2. /\ c.sequence = FullID(contextArray[s_oldestSavedSession], contextCounter)
          /\ d.sequence = FullID(contextArray[d.handle], contextCounter)
      BY <2>3, <3>1 DEF Expected
    <3>3. FullID(contextArray[s_oldestSavedSession], contextCounter)
            <= FullID(contextArray[d.handle], contextCounter)
      BY <3>1 DEF IInv, Countable, CurrentOK, OldestOK
    <3>4. QED BY <3>2, <3>3
  <2>4. QED BY <2>1, <2>2, <2>3
<1>2. QED BY <1>1, Invariance, PTL

\* While the TPM runs, a context that it would refuse stays refused: only a
\* startup that restores an earlier Shutdown(STATE) can make it acceptable again.
THEOREM RefusedStaysRefused == Spec => RevivedOnlyByResume
<1> DEFINE Kept == started /\ Countable' => \A c \in contexts : Acceptable(c)' => Acceptable(c)
<1>1. ASSUME IInv, [Next]_vars PROVE Kept
  <2> USE <1>1
  <2> SUFFICES ASSUME started, Countable', NEW c \in contexts, Acceptable(c)'
               PROVE  Acceptable(c)
    OBVIOUS
  <2> DEFINE k == c.handle
  <2>1. /\ k \in Sessions /\ c.sequence \in Nat /\ contextCounter \in Nat
        /\ contextArray \in [Sessions -> 0 .. (SLOT_MOD - 1)]
    BY DEF IInv, TypeOK, Context
  <2>2. /\ contextArray'[k] > MAX_LOADED_SESSIONS /\ contextArray'[k] = LowBits(c.sequence)
        /\ contextCounter' - c.sequence <= SLOT_MOD /\ c.reset = totalResetCount'
    BY DEF Acceptable, SequenceNumberForSavedContextIsValid, IsSaved, ComputeContextIntegrity
  <2>3. ASSUME UNCHANGED <<contextCounter, totalResetCount>>, contextArray'[k] = contextArray[k]
        PROVE  Acceptable(c)
    BY <2>3 DEF Acceptable, SequenceNumberForSavedContextIsValid, IsSaved, ComputeContextIntegrity
  <2>4. ASSUME UNCHANGED <<contextCounter, totalResetCount>>, NEW h \in Sessions,
               NEW e \in 0 .. MAX_LOADED_SESSIONS, contextArray' = [contextArray EXCEPT ![h] = e]
        PROVE  Acceptable(c)
    <3>1. k # h
      BY <2>1, <2>2, <2>4, SizesAssumption
    <3>2. QED BY <2>1, <2>3, <2>4, <3>1
  <2>5. ASSUME s_freeSessionSlots # 0
        PROVE  FirstFree(FreeSlots) + 1 \in 0 .. MAX_LOADED_SESSIONS
    <3>1. FreeSlots # {}
      BY <2>5, SlotFacts, FS_EmptySet DEF IInv, SlotsMatchArray
    <3>2. FreeSlots \in SUBSET Nat
      BY SizesAssumption DEF FreeSlots, Slots
    <3>3. FirstFree(FreeSlots) \in Slots
      BY <3>1, <3>2, FirstFreeIn, SlotFacts, ZenonT(30)
    <3>4. QED BY <3>3, SizesAssumption DEF Slots
  <2>6. CASE TPM2_StartAuthSession
    <3> DEFINE Z == {i \in Sessions : contextArray[i] = 0}
    <3>1. Z # {} /\ Z \in SUBSET Nat
      BY <2>6, SizesAssumption DEF TPM2_StartAuthSession, SessionCreate, Sessions
    <3>2. FirstFree(Z) \in Sessions
      BY <3>1, FirstFreeIn
    <3>3. /\ contextArray' = [contextArray EXCEPT ![FirstFree(Z)] = FirstFree(FreeSlots) + 1]
          /\ UNCHANGED <<contextCounter, totalResetCount>> /\ s_freeSessionSlots # 0
      BY <2>6 DEF TPM2_StartAuthSession, SessionCreate, MayCreate, nv
    <3> HIDE DEF Z
    <3>4. QED BY <2>4, <2>5, <3>2, <3>3, ZenonT(30)
  <2>7. ASSUME NEW h \in Sessions, TPM2_ContextSave(h) PROVE Acceptable(c)
    <3>1. CASE SessionContextSave(h)
      <4>1. /\ contextCounter' = Increment(contextCounter) /\ UNCHANGED totalResetCount
            /\ contextArray' = [contextArray EXCEPT ![h] = LowBits(contextCounter)]
        BY <2>7, <3>1 DEF SessionContextSave, TPM2_ContextSave
      <4>2. contextCounter' \in Nat /\ contextCounter' > contextCounter
        BY <2>1, <4>1, SizesAssumption DEF Increment, FirstID
      <4>3. c.sequence < contextCounter
        BY <2>2, <4>1 DEF IInv, CurrentOK, Fresh
      <4>4. k # h
        <5>1. SUFFICES ASSUME k = h PROVE FALSE
          OBVIOUS
        <5>2. LowBits(contextCounter) = LowBits(c.sequence)
          BY <2>1, <2>2, <4>1, <5>1
        <5>3. contextCounter >= c.sequence /\ contextCounter < c.sequence + SLOT_MOD
          BY <2>1, <2>2, <4>2, <4>3, SizesAssumption
        <5>4. contextCounter = c.sequence
          BY <2>1, <5>2, <5>3, SameLow
        <5>5. QED BY <2>1, <4>3, <5>4
      <4>5. contextArray'[k] = contextArray[k]
        BY <2>1, <4>1, <4>4
      <4>6. c.sequence <= contextCounter /\ contextCounter - c.sequence <= SLOT_MOD
        BY <2>1, <2>2, <4>2, <4>3, SizesAssumption
      <4>7. QED BY <2>2, <4>1, <4>5, <4>6
                DEF Acceptable, SequenceNumberForSavedContextIsValid, IsSaved, ComputeContextIntegrity
    <3>2. CASE TooManyContexts(h)
      BY <3>2, SizesAssumption DEF TooManyContexts, Countable
    <3>3. CASE GapIsMax /\ UNCHANGED <<gr, ram, contexts>>
      BY <2>3, <2>7, <3>3 DEF TPM2_ContextSave, gr
    <3>4. QED BY <2>7, <3>1, <3>2, <3>3 DEF TPM2_ContextSave
  <2>8. ASSUME NEW h \in Sessions, TPM2_FlushContext(h) \/ EndSession(h) PROVE Acceptable(c)
    <3>1. 0 \in 0 .. MAX_LOADED_SESSIONS
      BY SizesAssumption
    <3>2. QED BY <2>4, <2>8, <3>1, ZenonT(30) DEF TPM2_FlushContext, EndSession, SessionFlush, nv
  <2>9. ASSUME NEW d \in contexts, TPM2_ContextLoad(d) PROVE Acceptable(c)
    <3>1. CASE SequenceNumberForSavedContextIsValid(d) /\ MayLoad(d.handle)
      <4>1. d.handle \in Sessions
        BY DEF IInv, TypeOK, Context
      <4>2. /\ contextArray' = [contextArray EXCEPT ![d.handle] = FirstFree(FreeSlots) + 1]
            /\ UNCHANGED <<contextCounter, totalResetCount>> /\ s_freeSessionSlots # 0
        BY <2>9, <3>1 DEF TPM2_ContextLoad, SessionContextLoad, MayLoad
      <4>3. QED BY <2>4, <2>5, <4>1, <4>2, ZenonT(30)
    <3>2. CASE ~(SequenceNumberForSavedContextIsValid(d) /\ MayLoad(d.handle))
      BY <2>3, <2>9, <3>2 DEF TPM2_ContextLoad
    <3>3. QED BY <3>1, <3>2
  <2>10. ASSUME NEW type, TPM2_Shutdown(type) PROVE Acceptable(c)
    BY <2>3, <2>10 DEF TPM2_Shutdown, gr
  <2>11. CASE PowerLoss \/ StartupPreserving \/ StartupReset
    BY <2>11 DEF PowerLoss, StartupPreserving, StartupReset, StartupCommon, Countable
  <2>12. CASE UNCHANGED vars
    BY <2>3, <2>12 DEF vars
  <2>13. QED BY <2>6, <2>7, <2>8, <2>9, <2>10, <2>11, <2>12 DEF Next
<1>2. QED BY <1>1, Invariance, PTL DEF Spec, RevivedOnlyByResume
=============================================================================
