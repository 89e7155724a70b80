--------------------------- MODULE NvIndicesProofs --------------------------
(***************************************************************************)
(* Theorems about NvIndices for every set of handles and templates, every  *)
(* size and every number of low bits of an orderly counter.                *)
(***************************************************************************)
EXTENDS NvIndices, TLAPS

\* time limits of the provers, in seconds
USE SMTT(30), ZenonT(30)

-----------------------------------------------------------------------------
USE NvIndicesAssumption

(* Arithmetic of the orderly counters *)

LEMMA LowBits ==
    ASSUME NEW c \in Nat
    PROVE  /\ SetLowerBits(c) \in Nat
           /\ c <= SetLowerBits(c)
           /\ (SetLowerBits(c) + 1) % OrderlyMod = 0
<1> DEFINE r == (c % OrderlyMod)
           q == (c \div OrderlyMod)
<1>1. r \in 0 .. (OrderlyMod - 1) /\ q \in Nat /\ c = OrderlyMod * q + r
  OBVIOUS
<1>2. SetLowerBits(c) = OrderlyMod * q + (OrderlyMod - 1)
  BY <1>1 DEF SetLowerBits
<1>3. SetLowerBits(c) + 1 = OrderlyMod * (q + 1)
  BY <1>1, <1>2
<1>4. (OrderlyMod * (q + 1)) % OrderlyMod = 0
  BY <1>1
<1>5. SetLowerBits(c) \in Nat /\ c <= SetLowerBits(c)
  BY <1>1, <1>2
<1> QED
  BY <1>3, <1>4, <1>5, ZenonT(30)

LEMMA LowBitsBound == ASSUME NEW c \in 0 .. MaxCount PROVE SetLowerBits(c) \in 0 .. MaxCount
<1> DEFINE q == (c \div OrderlyMod)
           r == (c % OrderlyMod)
           p == ((MaxCount + 1) \div OrderlyMod)
<1>1. r \in 0 .. (OrderlyMod - 1) /\ q \in Nat /\ c = OrderlyMod * q + r
  OBVIOUS
<1>2. p \in Nat /\ MaxCount + 1 = OrderlyMod * p
  OBVIOUS
<1>3. SetLowerBits(c) + 1 = OrderlyMod * (q + 1)
  BY <1>1 DEF SetLowerBits
<1>4. q < p
  <2>1. OrderlyMod * q < OrderlyMod * p
    BY <1>1, <1>2
  <2> QED
    BY <2>1, <1>1, <1>2
<1>5. OrderlyMod * (q + 1) <= OrderlyMod * p
  BY <1>1, <1>2, <1>4
<1>6. SetLowerBits(c) \in Nat
  BY LowBits
<1> QED
  BY <1>2, <1>3, <1>5, <1>6

\* Below the next rollover, an increment stays below it.
LEMMA NoRollover ==
    ASSUME NEW c \in Nat, NEW s \in Nat, c <= SetLowerBits(s), ~RolledOver(c + 1)
    PROVE  c + 1 <= SetLowerBits(s)
<1>1. SetLowerBits(s) \in Nat /\ (SetLowerBits(s) + 1) % OrderlyMod = 0
  BY LowBits, ZenonT(30)
<1>2. c # SetLowerBits(s)
  BY <1>1, ZenonT(30) DEF RolledOver
<1> QED
  BY <1>1, <1>2

\* A non-empty set of counts has a greatest element.  It is a hypothesis of the
\* lemmas on the highest count, and shown below with the theorems on finite sets.
GreatestCount ==
    \A S \in SUBSET (0 .. MaxCount) : S # {} => Max(S) \in S /\ \A y \in S : Max(S) >= y

-----------------------------------------------------------------------------
(* Entries *)

LEMMA EntryCases ==
    ASSUME NEW e \in Entries
    PROVE  \/ e = Undefined /\ e.tmpl = None
           \/ e.tmpl \in Templates /\ e.tmpl # None /\ Definable(e.tmpl) /\ e \in Admitted(e.tmpl)
<1>1. CASE e = Undefined
  BY <1>1, ZenonT(30) DEF Undefined
<1>2. CASE e # Undefined
  <2>1. PICK t \in Templates : Definable(t) /\ e \in Admitted(t)
    BY <1>2, ZenonT(30) DEF Entries
  <2>2. e.tmpl = t
    BY <2>1, ZenonT(30) DEF Admitted
  <2> QED
    BY <2>1, <2>2, ZenonT(30)
<1> QED
  BY <1>1, <1>2, ZenonT(30)

LEMMA EntryIntro ==
    ASSUME NEW t \in Templates, Definable(t), NEW e \in Admitted(t)
    PROVE  e \in Entries
  BY ZenonT(30) DEF Entries

LEMMA UndefinedEntry == Undefined \in Entries
  BY ZenonT(30) DEF Entries

LEMMA ErasedDatum == ASSUME NEW t PROVE Erased(t) \in Datum(t)
  BY DEF Erased, Datum, Halves

LEMMA FreshEntry ==
    ASSUME NEW t PROVE [Undefined EXCEPT !.tmpl = t, !.data = Erased(t)] \in Admitted(t)
  BY ErasedDatum, ZenonT(30) DEF Undefined, Admitted

LEMMA WrittenEntry ==
    ASSUME NEW t, NEW e \in Admitted(t), NEW d \in Datum(t)
    PROVE  [e EXCEPT !.written = TRUE, !.data = d] \in Admitted(t)
  BY ZenonT(30) DEF Admitted

LEMMA LockedEntry ==
    ASSUME NEW t, NEW e \in Admitted(t)
    PROVE  /\ [e EXCEPT !.writelocked = TRUE] \in Admitted(t)
           /\ [e EXCEPT !.readlocked = TRUE] \in Admitted(t)
  BY ZenonT(30) DEF Admitted

LEMMA StartedEntry ==
    ASSUME NEW t \in Templates, NEW e \in Admitted(t), NEW reset \in BOOLEAN
    PROVE  /\ NvSetStartupAttributes(e, reset) \in Admitted(t)
           /\ NvSetStartupAttributes(e, reset).data = e.data
           /\ Counter(e) => NvSetStartupAttributes(e, reset).written = e.written
  BY ZenonT(30) DEF Admitted, NvSetStartupAttributes, Counter

LEMMA StartedOrderly ==
    ASSUME NEW t \in Templates, NEW e \in Admitted(t), NEW reset \in BOOLEAN
    PROVE  /\ StartOrderly(e, reset) \in Admitted(t)
           /\ StartOrderly(e, reset).written = NvSetStartupAttributes(e, reset).written
           /\ StartOrderly(e, reset).data =
                 IF Counter(e) /\ orderlyState = "none" THEN SetLowerBits(e.data) ELSE e.data
<1> DEFINE s == NvSetStartupAttributes(e, reset)
<1>1. s \in Admitted(t) /\ s.data = e.data
  BY StartedEntry, ZenonT(30)
<1>2. CASE Counter(e) /\ orderlyState = "none"
  <2>1. e.data \in 0 .. MaxCount /\ Datum(t) = 0 .. MaxCount
    BY <1>2, ZenonT(30) DEF Admitted, Datum, Counter, Split
  <2>2. SetLowerBits(s.data) \in Datum(t)
    BY <1>1, <2>1, LowBitsBound, ZenonT(30)
  <2>3. StartOrderly(e, reset) = [s EXCEPT !.data = SetLowerBits(s.data)]
    BY <1>2, ZenonT(30) DEF StartOrderly
  <2> HIDE DEF s
  <2> QED
    BY <1>1, <1>2, <2>2, <2>3, ZenonT(30) DEF Admitted, s
<1>3. CASE ~(Counter(e) /\ orderlyState = "none")
  BY <1>1, <1>3, ZenonT(30) DEF StartOrderly
<1> QED
  BY <1>2, <1>3, ZenonT(30)

-----------------------------------------------------------------------------
(* Types and layout *)

\* the template under which RAM and the backing store list h
RamTemplate(h) == IF h \in Defined /\ Orderly(h) THEN nv[h].tmpl ELSE None

Lists ==
    /\ nv \in [Handles -> Entries]
    /\ backing \in [Handles -> Entries]
    /\ ram \in [Handles -> Entries]

\* LayoutMatches, also for what power loss leaves in ram
Layout == \A h \in Handles : backing[h].tmpl = RamTemplate(h) /\ ram[h].tmpl = RamTemplate(h)

TypeInv == TypeOK /\ Layout

LEMMA ListsTyped == TypeInv => Lists
  BY ZenonT(30) DEF TypeInv, TypeOK, Lists

LEMMA InfoTyped ==
    ASSUME Lists, Layout, NEW h \in Defined
    PROVE  /\ nv[h].tmpl \in Templates /\ Definable(nv[h].tmpl)
           /\ nv[h] \in Admitted(nv[h].tmpl)
           /\ Info(h) \in Admitted(nv[h].tmpl) /\ Info(h).tmpl = nv[h].tmpl
           /\ Orderly(h) => /\ Info(h) = ram[h] /\ backing[h] \in Admitted(nv[h].tmpl)
                            /\ backing[h].tmpl = nv[h].tmpl
           /\ ~Orderly(h) => Info(h) = nv[h]
<1>1. h \in Handles /\ nv[h].tmpl # None /\ nv[h] \in Entries /\ ram[h] \in Entries /\ backing[h] \in Entries
  BY ZenonT(30) DEF Defined, Lists
<1>2. nv[h].tmpl \in Templates /\ Definable(nv[h].tmpl) /\ nv[h] \in Admitted(nv[h].tmpl)
  BY <1>1, EntryCases, ZenonT(30)
<1>3. CASE Orderly(h)
  <2>1. ram[h].tmpl = nv[h].tmpl /\ backing[h].tmpl = nv[h].tmpl
    BY <1>1, <1>3, ZenonT(30) DEF Layout, RamTemplate
  <2>2. ram[h] \in Admitted(nv[h].tmpl) /\ backing[h] \in Admitted(nv[h].tmpl)
    BY <1>1, <2>1, EntryCases, ZenonT(30)
  <2> QED
    BY <1>2, <1>3, <2>1, <2>2, ZenonT(30) DEF Info
<1>4. CASE ~Orderly(h)
  BY <1>2, <1>4, ZenonT(30) DEF Info
<1> QED
  BY <1>3, <1>4, ZenonT(30)

\* A step that keeps the templates keeps the layout.
KeepsTemplates ==
    /\ Lists'
    /\ \A g \in Handles : nv'[g].tmpl = nv[g].tmpl /\ ram'[g].tmpl = ram[g].tmpl
    /\ backing' \in {backing, ram, ram'}

LEMMA LayoutKept == ASSUME Layout, KeepsTemplates PROVE Layout' /\ Defined' = Defined
<1>1. Defined' = Defined
  BY ZenonT(30) DEF KeepsTemplates, Defined
<1>2. ASSUME NEW g \in Handles PROVE RamTemplate(g)' = RamTemplate(g)
  BY <1>1, <1>2, ZenonT(30) DEF KeepsTemplates, RamTemplate, Orderly
<1>3. ASSUME NEW g \in Handles PROVE backing'[g].tmpl = RamTemplate(g) /\ ram'[g].tmpl = RamTemplate(g)
  BY <1>3, ZenonT(30) DEF KeepsTemplates, Layout
<1> QED
  BY <1>1, <1>2, <1>3, ZenonT(30) DEF Layout

LEMMA CleanupType ==
    ASSUME NEW c, NEW u, Cleanup(c, u), orderlyState \in {"none", "clear", "state"}
    PROVE  backing' \in {backing, ram'} /\ orderlyState' \in {"none", "clear", "state"}
  BY ZenonT(30) DEF Cleanup

LEMMA WriteKeeps ==
    ASSUME Lists, Layout, NEW h \in Defined, NEW d \in Datum(nv[h].tmpl),
           orderlyState \in {"none", "clear", "state"},
           NvWriteIndexData(h, d, FALSE) \/ NvWriteIndexData(h, d, RolledOver(d))
    PROVE  KeepsTemplates /\ orderlyState' \in {"none", "clear", "state"}
<1> DEFINE e == [Info(h) EXCEPT !.written = TRUE, !.data = d]
<1>1. h \in Handles
  BY ZenonT(30) DEF Defined
<1>2. e \in Admitted(nv[h].tmpl) /\ e.tmpl = nv[h].tmpl /\ e \in Entries
  <2>1. e \in Admitted(nv[h].tmpl)
    BY InfoTyped, WrittenEntry, ZenonT(30)
  <2> HIDE DEF e
  <2>2. e.tmpl = nv[h].tmpl
    BY <2>1, ZenonT(30) DEF Admitted
  <2> QED
    BY <2>1, <2>2, InfoTyped, EntryIntro, ZenonT(30)
<1>3. CASE Orderly(h)
  <2>1. ram' = [ram EXCEPT ![h] = e] /\ nv' = nv
    BY <1>3, ZenonT(30) DEF NvWriteIndexData
  <2>2. ram[h].tmpl = nv[h].tmpl
    BY <1>3, InfoTyped, ZenonT(30)
  <2> HIDE DEF e
  <2>3. backing' \in {backing, ram'} /\ orderlyState' \in {"none", "clear", "state"}
    BY <1>3, ZenonT(30) DEF NvWriteIndexData, Cleanup
  <2> QED
    BY <1>1, <1>2, <2>1, <2>2, <2>3, ZenonT(30) DEF KeepsTemplates, Lists
<1>4. CASE ~Orderly(h)
  <2>1. nv' = [nv EXCEPT ![h] = e] /\ ram' = ram
    BY <1>4, ZenonT(30) DEF NvWriteIndexData
  <2> HIDE DEF e
  <2>3. backing' \in {backing, ram'} /\ orderlyState' \in {"none", "clear", "state"}
    BY <1>4, ZenonT(30) DEF NvWriteIndexData, Cleanup
  <2> QED
    BY <1>1, <1>2, <2>1, <2>3, ZenonT(30) DEF KeepsTemplates, Lists
<1> QED
  BY <1>3, <1>4, ZenonT(30)

LEMMA AttributesKeep ==
    ASSUME Lists, Layout, NEW h \in Defined, NEW e \in Admitted(nv[h].tmpl),
           orderlyState \in {"none", "clear", "state"},
           NvWriteIndexAttributes(h, e)
    PROVE  KeepsTemplates /\ orderlyState' \in {"none", "clear", "state"}
<1>1. h \in Handles
  BY ZenonT(30) DEF Defined
<1>2. e.tmpl = nv[h].tmpl /\ e \in Entries
  <2>1. e.tmpl = nv[h].tmpl
    BY ZenonT(30) DEF Admitted
  <2> QED
    BY <2>1, InfoTyped, EntryIntro, ZenonT(30)
<1>3. Cleanup(FALSE, FALSE)
  BY ZenonT(30) DEF NvWriteIndexAttributes
<1>4. backing' \in {backing, ram'} /\ orderlyState' \in {"none", "clear", "state"}
  BY <1>3, CleanupType, ZenonT(30)
<1>5. CASE Orderly(h)
  <2>1. ram' = [ram EXCEPT ![h] = e] /\ nv' = nv
    BY <1>5, ZenonT(30) DEF NvWriteIndexAttributes
  <2>2. ram[h].tmpl = nv[h].tmpl
    BY <1>5, InfoTyped, ZenonT(30)
  <2> QED
    BY <1>1, <1>2, <1>4, <2>1, <2>2, ZenonT(30) DEF KeepsTemplates, Lists
<1>6. CASE ~Orderly(h)
  <2>1. nv' = [nv EXCEPT ![h] = e] /\ ram' = ram
    BY <1>6, ZenonT(30) DEF NvWriteIndexAttributes
  <2> QED
    BY <1>1, <1>2, <1>4, <2>1, ZenonT(30) DEF KeepsTemplates, Lists
<1> QED
  BY <1>5, <1>6, ZenonT(30)

LEMMA DefineLists ==
    ASSUME TypeInv, NEW h \in Handles, NEW t \in Templates, NV_DefineSpace(h, t)
    PROVE  Lists' /\ Layout' /\ Defined' = Defined \cup {h}
<1> DEFINE e == [Undefined EXCEPT !.tmpl = t, !.data = Erased(t)]
<1>1. e \in Entries /\ e.tmpl = t /\ t # None
  <2>1. e \in Admitted(t)
    BY FreshEntry, ZenonT(30)
  <2>2. Definable(t)
    BY ZenonT(30) DEF NV_DefineSpace
  <2> HIDE DEF e
  <2> QED
    BY <2>1, <2>2, EntryIntro, ZenonT(30) DEF Admitted
<1>2. /\ nv' = [nv EXCEPT ![h] = e]
      /\ ram' = IF t.orderly THEN [ram EXCEPT ![h] = e] ELSE ram
      /\ backing' = IF t.orderly THEN ram' ELSE backing
      /\ nv[h].tmpl = None
  BY ZenonT(30) DEF NV_DefineSpace, Cleanup, Defined
<1> HIDE DEF e
<1>3. Lists'
  BY <1>1, <1>2, ListsTyped, ZenonT(30) DEF Lists
<1>4. Defined' = Defined \cup {h}
  BY <1>1, <1>2, ListsTyped, ZenonT(30) DEF Lists, Defined
<1>5. ASSUME NEW g \in Handles PROVE backing'[g].tmpl = RamTemplate(g)' /\ ram'[g].tmpl = RamTemplate(g)'
  <2>1. backing[g].tmpl = RamTemplate(g) /\ ram[g].tmpl = RamTemplate(g)
    BY <1>5, ZenonT(30) DEF TypeInv, Layout
  <2>2. CASE g = h
    BY <1>1, <1>2, <1>4, <2>1, <2>2, ListsTyped, ZenonT(30) DEF Lists, RamTemplate, Orderly, Defined
  <2>3. CASE g # h
    <3>1. nv'[g] = nv[g] /\ ram'[g] = ram[g] /\ backing'[g] \in {backing[g], ram[g]}
      BY <1>2, <1>5, <2>3, ListsTyped, ZenonT(30) DEF Lists
    <3>2. RamTemplate(g)' = RamTemplate(g)
      BY <1>4, <2>3, <3>1, ZenonT(30) DEF RamTemplate, Orderly
    <3> QED
      BY <2>1, <3>1, <3>2, ZenonT(30)
  <2> QED
    BY <2>2, <2>3, ZenonT(30)
<1> QED
  BY <1>3, <1>4, <1>5, ZenonT(30) DEF Layout

LEMMA DeleteLists ==
    ASSUME TypeInv, NEW H \in SUBSET Defined, NEW info, NvDeleteIndex(H, info),
           backing' = IF \E h \in H : Orderly(h) THEN ram' ELSE backing
    PROVE  Lists' /\ Layout' /\ Defined' = Defined \ H
<1>1. /\ nv' = [h \in Handles |-> IF h \in H THEN Undefined ELSE nv[h]]
      /\ ram' = [h \in Handles |-> IF h \in H THEN Undefined ELSE ram[h]]
  BY ZenonT(30) DEF NvDeleteIndex
<1>2. Lists'
  BY <1>1, ListsTyped, UndefinedEntry, ZenonT(30) DEF Lists
<1>3. Defined' = Defined \ H
  BY <1>1, ZenonT(30) DEF Defined, Undefined
<1>4. ASSUME NEW g \in Handles PROVE backing'[g].tmpl = RamTemplate(g)' /\ ram'[g].tmpl = RamTemplate(g)'
  <2>1. backing[g].tmpl = RamTemplate(g) /\ ram[g].tmpl = RamTemplate(g)
    BY <1>4, ZenonT(30) DEF TypeInv, Layout
  <2>2. CASE g \in H
    <3>1. ram'[g].tmpl = None /\ RamTemplate(g)' = None
      BY <1>1, <1>3, <1>4, <2>2, ZenonT(30) DEF RamTemplate, Undefined
    <3>2. CASE Orderly(g)
      BY <3>1, <3>2, <2>2, ZenonT(30)
    <3>3. CASE ~Orderly(g)
      BY <2>1, <3>1, <3>3, ZenonT(30) DEF RamTemplate
    <3> QED
      BY <3>2, <3>3, ZenonT(30)
  <2>3. CASE g \notin H
    <3>1. nv'[g] = nv[g] /\ ram'[g] = ram[g] /\ backing'[g] \in {backing[g], ram[g]}
      BY <1>1, <1>4, <2>3, ZenonT(30)
    <3>2. RamTemplate(g)' = RamTemplate(g)
      BY <1>3, <2>3, <3>1, ZenonT(30) DEF RamTemplate, Orderly
    <3> QED
      BY <2>1, <3>1, <3>2, ZenonT(30)
  <2> QED
    BY <2>2, <2>3, ZenonT(30)
<1> QED
  BY <1>2, <1>3, <1>4, ZenonT(30) DEF Layout

\* A deleted counter that info marks WRITTEN raises the highest count; retired
\* is raised by nothing else than the counters that really were written.
LEMMA DeleteMax ==
    ASSUME GreatestCount, TypeInv, NEW H \in SUBSET Defined, NEW info, NvDeleteIndex(H, info),
           \A h \in H : info[h].tmpl = nv[h].tmpl
    PROVE  /\ s_maxCounter' \in 0 .. MaxCount /\ s_maxCounter' >= s_maxCounter
           /\ retired' \in 0 .. MaxCount
           /\ \A h \in H : Counter(nv[h]) /\ info[h].written => s_maxCounter' >= Info(h).data
           /\ \/ retired' = retired
              \/ \E h \in H : Counter(nv[h]) /\ Info(h).written /\ retired' = Info(h).data
<1> DEFINE C == {Info(h).data : h \in {g \in H : Counter(info[g]) /\ info[g].written}}
           D == {Info(h).data : h \in {g \in H : Counter(nv[g]) /\ Info(g).written}}
<1>1. s_maxCounter \in 0 .. MaxCount /\ retired \in 0 .. MaxCount
  BY ZenonT(30) DEF TypeInv, TypeOK
<1>2. ASSUME NEW h \in H, Counter(nv[h]) PROVE Info(h).data \in 0 .. MaxCount
  <2>1. Info(h) \in Admitted(nv[h].tmpl)
    BY ListsTyped, InfoTyped, ZenonT(30) DEF TypeInv
  <2> QED
    BY <1>2, <2>1, ZenonT(30) DEF Admitted, Datum, Split, Counter
<1>3. C \subseteq 0 .. MaxCount /\ D \subseteq 0 .. MaxCount
  BY <1>2, ZenonT(30) DEF Counter
<1>4. s_maxCounter' = Max({s_maxCounter} \cup C) /\ retired' = Max({retired} \cup D)
  BY ZenonT(30) DEF NvDeleteIndex, MaxAfter
<1>5. \A h \in H : Counter(nv[h]) /\ info[h].written => Info(h).data \in C
  BY ZenonT(30) DEF Counter
<1>6. \A d \in D : \E h \in H : Counter(nv[h]) /\ Info(h).written /\ d = Info(h).data
  BY ZenonT(30)
<1> HIDE DEF C, D
<1>7. {s_maxCounter} \cup C \in SUBSET (0 .. MaxCount) /\ {s_maxCounter} \cup C # {}
  BY <1>1, <1>3, ZenonT(30)
<1>8. {retired} \cup D \in SUBSET (0 .. MaxCount) /\ {retired} \cup D # {}
  BY <1>1, <1>3, ZenonT(30)
<1>9. s_maxCounter' \in {s_maxCounter} \cup C /\ \A y \in {s_maxCounter} \cup C : s_maxCounter' >= y
  BY <1>4, <1>7, ZenonT(30) DEF GreatestCount
<1>10. retired' \in {retired} \cup D
  BY <1>4, <1>8, ZenonT(30) DEF GreatestCount
<1>11. s_maxCounter' \in 0 .. MaxCount /\ s_maxCounter' >= s_maxCounter /\ retired' \in 0 .. MaxCount
  BY <1>7, <1>8, <1>9, <1>10, ZenonT(30)
<1>12. \A h \in H : Counter(nv[h]) /\ info[h].written => s_maxCounter' >= Info(h).data
  BY <1>5, <1>9, ZenonT(30)
<1>13. \/ retired' = retired
       \/ \E h \in H : Counter(nv[h]) /\ Info(h).written /\ retired' = Info(h).data
  BY <1>6, <1>10, ZenonT(30)
<1> QED
  BY <1>11, <1>12, <1>13, ZenonT(30)

\* the rest of TypeOK
Scalars ==
    /\ evict \in [Persistent -> Hierarchies \cup {None}]
    /\ maxCount \in 0 .. MaxCount /\ s_maxCounter \in 0 .. MaxCount /\ retired \in 0 .. MaxCount
    /\ orderlyState \in {"none", "clear", "state"} /\ up \in BOOLEAN
    /\ covered \in [Handles -> SUBSET Halves]

LEMMA TypeParts == TypeOK <=> Lists /\ Scalars
  BY ZenonT(30) DEF TypeOK, Lists, Scalars

LEMMA TypePartsNext == Lists' /\ Scalars' => TypeOK'
  BY ZenonT(30) DEF TypeOK, Lists, Scalars

LEMMA WrittenHalves ==
    ASSUME TypeInv, NEW h \in Defined, Split(nv[h].tmpl),
           NEW part \in SUBSET Halves, NEW v \in Values
    PROVE  [i \in Halves |-> IF i \in part THEN v ELSE Prior(Info(h))[i]] \in Datum(nv[h].tmpl)
<1>1. Info(h) \in Admitted(nv[h].tmpl) /\ Info(h).tmpl = nv[h].tmpl
  BY ListsTyped, InfoTyped, ZenonT(30) DEF TypeInv
<1>2. Info(h).data \in Datum(nv[h].tmpl)
  BY <1>1, ZenonT(30) DEF Admitted
<1>3. Prior(Info(h)) \in Datum(nv[h].tmpl)
  BY <1>1, <1>2, ErasedDatum, ZenonT(30) DEF Prior
<1>4. Datum(nv[h].tmpl) = [Halves -> Values \cup {0}]
  BY ZenonT(30) DEF Datum
<1> QED
  BY <1>3, <1>4, ZenonT(30)

\* the data each command writes, and that it writes to a defined index
LEMMA IncrementData ==
    ASSUME TypeInv, NEW h \in Handles, NV_Increment(h)
    PROVE  \E count \in Datum(nv[h].tmpl) :
              /\ h \in Defined /\ Counter(nv[h]) /\ count \in 0 .. MaxCount
              /\ count = (IF Info(h).written THEN Info(h).data ELSE s_maxCounter) + 1
              /\ NvWriteIndexData(h, count, RolledOver(count))
<1> DEFINE count == (IF Info(h).written THEN Info(h).data ELSE s_maxCounter) + 1
<1>1. h \in Defined /\ Counter(nv[h]) /\ count <= MaxCount /\ NvWriteIndexData(h, count, RolledOver(count))
  BY ZenonT(30) DEF NV_Increment, Writable
<1>2. Datum(nv[h].tmpl) = 0 .. MaxCount
  BY <1>1, ZenonT(30) DEF Datum, Counter, Split
<1>3. Info(h).data \in 0 .. MaxCount /\ s_maxCounter \in 0 .. MaxCount
  <2>1. Info(h) \in Admitted(nv[h].tmpl)
    BY <1>1, ListsTyped, InfoTyped, ZenonT(30) DEF TypeInv
  <2> QED
    BY <1>2, <2>1, ZenonT(30) DEF Admitted, TypeInv, TypeOK
<1>4. count \in 0 .. MaxCount
  BY <1>1, <1>3
<1> HIDE DEF count
<1>5. count \in Datum(nv[h].tmpl) /\ count = (IF Info(h).written THEN Info(h).data ELSE s_maxCounter) + 1
  BY <1>2, <1>4, ZenonT(30) DEF count
<1> QED
  BY <1>1, <1>4, <1>5, ZenonT(30)

LEMMA ExtendData ==
    ASSUME TypeInv, NEW h \in Handles, NV_Extend(h)
    PROVE  \E d \in Datum(nv[h].tmpl) :
              h \in Defined /\ nv[h].tmpl.nt = "extend" /\ NvWriteIndexData(h, d, FALSE)
<1> DEFINE d == (IF Info(h).written THEN Info(h).data ELSE 0) + 1
<1>1. h \in Defined /\ nv[h].tmpl.nt = "extend" /\ d <= MaxChain /\ NvWriteIndexData(h, d, FALSE)
  BY ZenonT(30) DEF NV_Extend, Writable
<1>2. Datum(nv[h].tmpl) = 0 .. MaxCount
  BY <1>1, ZenonT(30) DEF Datum, Split
<1>3. Info(h).data \in 0 .. MaxCount
  <2>1. Info(h) \in Admitted(nv[h].tmpl)
    BY <1>1, ListsTyped, InfoTyped, ZenonT(30) DEF TypeInv
  <2> QED
    BY <1>2, <2>1, ZenonT(30) DEF Admitted
<1>4. d \in Datum(nv[h].tmpl)
  BY <1>1, <1>2, <1>3
<1> HIDE DEF d
<1> QED
  BY <1>1, <1>4, ZenonT(30)

LEMMA SetBitsData ==
    ASSUME TypeInv, NEW h \in Handles, NEW bits \in {0, 1}, NV_SetBits(h, bits)
    PROVE  \E d \in Datum(nv[h].tmpl) :
              h \in Defined /\ nv[h].tmpl.nt = "bits" /\ NvWriteIndexData(h, d, FALSE)
<1> DEFINE d == IF Info(h).written /\ Info(h).data = 1 THEN 1 ELSE bits
<1>1. h \in Defined /\ nv[h].tmpl.nt = "bits" /\ NvWriteIndexData(h, d, FALSE)
  BY ZenonT(30) DEF NV_SetBits, Writable
<1>2. Datum(nv[h].tmpl) = 0 .. MaxCount
  BY <1>1, ZenonT(30) DEF Datum, Split
<1>3. d \in Datum(nv[h].tmpl)
  BY <1>2
<1> HIDE DEF d
<1> QED
  BY <1>1, <1>3, ZenonT(30)

LEMMA GlobalLockKeeps ==
    ASSUME TypeInv, NV_GlobalWriteLock
    PROVE  KeepsTemplates /\ orderlyState' = orderlyState /\ backing' = backing
<1>1. /\ nv' = [h \in Handles |-> IF h \in Defined /\ ~Orderly(h) THEN Locked(nv[h]) ELSE nv[h]]
      /\ ram' = [h \in Handles |-> Locked(ram[h])]
      /\ orderlyState' = orderlyState /\ backing' = backing
  BY ZenonT(30) DEF NV_GlobalWriteLock, Cleanup
<1>2. ASSUME NEW e \in Entries PROVE Locked(e) \in Entries /\ Locked(e).tmpl = e.tmpl
  <2>1. CASE e.tmpl # None /\ e.tmpl.globallock
    <3>1. e.tmpl \in Templates /\ Definable(e.tmpl) /\ e \in Admitted(e.tmpl)
      BY <1>2, <2>1, EntryCases, ZenonT(30)
    <3>2. Locked(e) = [e EXCEPT !.writelocked = TRUE]
      BY <2>1, ZenonT(30) DEF Locked
    <3>3. Locked(e) \in Admitted(e.tmpl)
      BY <3>1, <3>2, LockedEntry, ZenonT(30)
    <3> QED
      BY <3>1, <3>3, EntryIntro, ZenonT(30) DEF Admitted
  <2>2. CASE ~(e.tmpl # None /\ e.tmpl.globallock)
    BY <1>2, <2>2, ZenonT(30) DEF Locked
  <2> QED
    BY <2>1, <2>2, ZenonT(30)
<1>3. Lists
  BY ListsTyped, ZenonT(30)
<1>4. Lists'
  BY <1>1, <1>2, <1>3, ZenonT(30) DEF Lists
<1>5. \A g \in Handles : nv'[g].tmpl = nv[g].tmpl /\ ram'[g].tmpl = ram[g].tmpl
  BY <1>1, <1>2, <1>3, ZenonT(30) DEF Lists
<1> QED
  BY <1>1, <1>4, <1>5, ZenonT(30) DEF KeepsTemplates

\* what TPM2_Startup does to one index
LEMMA StartupOf ==
    ASSUME TypeInv, NEW type \in {"clear", "state"}, Startup(type), NEW g \in Handles
    PROVE  /\ g \notin Defined => nv'[g] = nv[g] /\ ram'[g] = backing[g]
           /\ g \in Defined /\ ~Orderly(g) =>
                 /\ ram'[g] = backing[g]
                 /\ nv'[g] = IF type = "state" THEN nv[g]
                             ELSE NvSetStartupAttributes(nv[g], orderlyState # "state")
           /\ g \in Defined /\ Orderly(g) =>
                 /\ nv'[g] = nv[g]
                 /\ ram'[g] = IF type = "state" THEN backing[g]
                              ELSE StartOrderly(backing[g], orderlyState # "state")
<1>1. backing[g].tmpl = RamTemplate(g)
  BY ZenonT(30) DEF TypeInv, Layout
<1>2. g \in Defined => nv[g].tmpl # None
  BY ZenonT(30) DEF Defined
<1>3. CASE type = "state"
  BY <1>3, ZenonT(30) DEF Startup
<1>4. CASE type = "clear"
  <2>1. /\ nv' = [h \in Handles |->
                    IF h \in Defined /\ ~Orderly(h)
                    THEN NvSetStartupAttributes(nv[h], orderlyState # "state") ELSE nv[h]]
        /\ ram' = [h \in Handles |->
                    IF backing[h].tmpl = None THEN backing[h]
                    ELSE StartOrderly(backing[h], orderlyState # "state")]
    BY <1>4, ZenonT(30) DEF Startup
  <2> QED
    BY <1>1, <1>2, <1>4, <2>1, ZenonT(30) DEF RamTemplate
<1> QED
  BY <1>3, <1>4, ZenonT(30)

LEMMA StartupKeeps ==
    ASSUME TypeInv, NEW type \in {"clear", "state"}, Startup(type)
    PROVE  KeepsTemplates
<1>1. Lists /\ Layout
  BY ListsTyped, ZenonT(30) DEF TypeInv
<1>2. (orderlyState # "state") \in BOOLEAN
  BY ZenonT(30)
<1>3. ASSUME NEW g \in Handles
      PROVE  /\ nv'[g] \in Entries /\ nv'[g].tmpl = nv[g].tmpl
             /\ ram'[g] \in Entries /\ ram'[g].tmpl = ram[g].tmpl
  <2>1. nv[g] \in Entries /\ backing[g] \in Entries /\ backing[g].tmpl = ram[g].tmpl
    BY <1>1, <1>3, ZenonT(30) DEF Lists, Layout
  <2>2. CASE g \notin Defined
    BY <2>1, <2>2, StartupOf, ZenonT(30)
  <2>3. CASE g \in Defined /\ ~Orderly(g)
    <3>1. nv[g].tmpl \in Templates /\ Definable(nv[g].tmpl) /\ nv[g] \in Admitted(nv[g].tmpl)
      BY <1>1, <2>3, InfoTyped, ZenonT(30)
    <3>2. NvSetStartupAttributes(nv[g], orderlyState # "state") \in Admitted(nv[g].tmpl)
      BY <1>2, <3>1, StartedEntry, ZenonT(30)
    <3>3. nv'[g] \in Admitted(nv[g].tmpl)
      BY <2>3, <3>1, <3>2, StartupOf, ZenonT(30)
    <3>4. nv'[g] \in Entries /\ nv'[g].tmpl = nv[g].tmpl
      BY <3>1, <3>3, EntryIntro, ZenonT(30) DEF Admitted
    <3>5. ram'[g] = backing[g]
      BY <2>3, StartupOf, ZenonT(30)
    <3> QED
      BY <2>1, <3>4, <3>5, ZenonT(30)
  <2>4. CASE g \in Defined /\ Orderly(g)
    <3>1. /\ nv[g].tmpl \in Templates /\ Definable(nv[g].tmpl)
          /\ backing[g] \in Admitted(nv[g].tmpl) /\ backing[g].tmpl = nv[g].tmpl
      BY <1>1, <2>4, InfoTyped, ZenonT(30)
    <3>2. StartOrderly(backing[g], orderlyState # "state") \in Admitted(nv[g].tmpl)
      BY <1>2, <3>1, StartedOrderly, ZenonT(30)
    <3>3. ram'[g] \in Admitted(nv[g].tmpl)
      BY <2>4, <3>1, <3>2, StartupOf, ZenonT(30)
    <3>4. ram'[g] \in Entries /\ ram'[g].tmpl = nv[g].tmpl
      BY <3>1, <3>3, EntryIntro, ZenonT(30) DEF Admitted
    <3>5. nv'[g] = nv[g]
      BY <2>4, StartupOf, ZenonT(30)
    <3> QED
      BY <2>1, <3>1, <3>4, <3>5, ZenonT(30)
  <2> QED
    BY <2>2, <2>3, <2>4, ZenonT(30)
<1>4. CASE type = "state"
  <2>1. ram' = backing /\ nv' = nv /\ backing' = backing
    BY <1>4, ZenonT(30) DEF Startup
  <2> QED
    BY <1>1, <1>3, <2>1, ZenonT(30) DEF KeepsTemplates, Lists
<1>5. CASE type = "clear"
  <2>1. /\ nv' = [h \in Handles |-> nv'[h]] /\ ram' = [h \in Handles |-> ram'[h]] /\ backing' = backing
    <3>1. /\ nv' = [h \in Handles |->
                      IF h \in Defined /\ ~Orderly(h)
                      THEN NvSetStartupAttributes(nv[h], orderlyState # "state") ELSE nv[h]]
          /\ ram' = [h \in Handles |->
                      IF backing[h].tmpl = None THEN backing[h]
                      ELSE StartOrderly(backing[h], orderlyState # "state")]
          /\ backing' = backing
      BY <1>5, ZenonT(30) DEF Startup
    <3> QED
      BY <3>1, ZenonT(30)
  <2>2. Lists'
    BY <1>1, <1>3, <2>1, ZenonT(30) DEF Lists
  <2> QED
    BY <1>3, <2>1, <2>2, ZenonT(30) DEF KeepsTemplates
<1> QED
  BY <1>4, <1>5, ZenonT(30)

\* Every step leaves the list entries typed and the layout right.
LEMMA NextTypeInv == ASSUME GreatestCount, TypeInv, [Next]_vars PROVE TypeInv'
<1>0. Lists /\ Layout /\ Scalars
  BY TypeParts, ZenonT(30) DEF TypeInv
<1>k. ASSUME KeepsTemplates, Scalars' PROVE TypeInv'
  BY <1>0, <1>k, LayoutKept, TypePartsNext, ZenonT(30) DEF TypeInv, KeepsTemplates
<1>1. ASSUME NEW h \in Handles, NEW t \in Templates, NV_DefineSpace(h, t) PROVE TypeInv'
  <2>1. Lists' /\ Layout'
    BY <1>1, DefineLists, ZenonT(30)
  <2>2. Scalars'
    BY <1>0, <1>1, ZenonT(30) DEF Scalars, NV_DefineSpace, Cleanup
  <2> QED
    BY <2>1, <2>2, TypePartsNext, ZenonT(30) DEF TypeInv
<1>2. ASSUME NEW h \in Handles, NV_UndefineSpace(h) PROVE TypeInv'
  <2> DEFINE info == [g \in {h} |-> Info(g)]
  <2>1. {h} \in SUBSET Defined /\ NvDeleteIndex({h}, info) /\ Cleanup(FALSE, Orderly(h))
    BY <1>2, ZenonT(30) DEF NV_UndefineSpace
  <2>2. \A g \in {h} : info[g].tmpl = nv[g].tmpl
    BY <1>0, <2>1, InfoTyped, ZenonT(30)
  <2>3. backing' = IF \E g \in {h} : Orderly(g) THEN ram' ELSE backing
    BY <2>1, ZenonT(30) DEF Cleanup
  <2> HIDE DEF info
  <2>4. Lists' /\ Layout'
    BY <2>1, <2>3, DeleteLists, ZenonT(30)
  <2>5. s_maxCounter' \in 0 .. MaxCount /\ retired' \in 0 .. MaxCount
    BY <2>1, <2>2, DeleteMax, ZenonT(30)
  <2>6. covered' \in [Handles -> SUBSET Halves]
    BY <1>0, <2>1, ZenonT(30) DEF NvDeleteIndex, Scalars
  <2>7. Scalars'
    BY <1>0, <1>2, <2>5, <2>6, ZenonT(30) DEF Scalars, NV_UndefineSpace, Cleanup
  <2> QED
    BY <2>4, <2>7, TypePartsNext, ZenonT(30) DEF TypeInv
<1>3. ASSUME NEW h \in Handles, NEW part \in SUBSET Halves \ {{}}, NEW v \in Values, NV_Write(h, part, v)
      PROVE  TypeInv'
  <2> DEFINE d == [i \in Halves |-> IF i \in part THEN v ELSE Prior(Info(h))[i]]
  <2>1. h \in Defined /\ Split(nv[h].tmpl) /\ NvWriteIndexData(h, d, FALSE)
    BY <1>3, ZenonT(30) DEF NV_Write, Writable
  <2>2. d \in Datum(nv[h].tmpl)
    BY <2>1, WrittenHalves, ZenonT(30)
  <2> HIDE DEF d
  <2>3. orderlyState \in {"none", "clear", "state"}
    BY <1>0, ZenonT(30) DEF Scalars
  <2>4. KeepsTemplates /\ orderlyState' \in {"none", "clear", "state"}
    BY <1>0, <2>1, <2>2, <2>3, WriteKeeps, ZenonT(30)
  <2>5. Scalars'
    BY <1>0, <1>3, <2>4, ZenonT(30) DEF Scalars, NV_Write
  <2> QED
    BY <1>k, <2>4, <2>5, ZenonT(30)
<1>4. ASSUME NEW h \in Handles, NV_Increment(h) PROVE TypeInv'
  <2>1. PICK d \in Datum(nv[h].tmpl) : h \in Defined /\ NvWriteIndexData(h, d, RolledOver(d))
    BY <1>4, IncrementData, ZenonT(30)
  <2>2. orderlyState \in {"none", "clear", "state"}
    BY <1>0, ZenonT(30) DEF Scalars
  <2>3. KeepsTemplates /\ orderlyState' \in {"none", "clear", "state"}
    BY <1>0, <2>1, <2>2, WriteKeeps, ZenonT(30)
  <2>4. Scalars'
    BY <1>0, <1>4, <2>3, ZenonT(30) DEF Scalars, NV_Increment
  <2> QED
    BY <1>k, <2>3, <2>4, ZenonT(30)
<1>5. ASSUME NEW h \in Handles, NV_Extend(h) PROVE TypeInv'
  <2>1. PICK d \in Datum(nv[h].tmpl) : h \in Defined /\ NvWriteIndexData(h, d, FALSE)
    BY <1>5, ExtendData, ZenonT(30)
  <2>2. orderlyState \in {"none", "clear", "state"}
    BY <1>0, ZenonT(30) DEF Scalars
  <2>3. KeepsTemplates /\ orderlyState' \in {"none", "clear", "state"}
    BY <1>0, <2>1, <2>2, WriteKeeps, ZenonT(30)
  <2>4. Scalars'
    BY <1>0, <1>5, <2>3, ZenonT(30) DEF Scalars, NV_Extend
  <2> QED
    BY <1>k, <2>3, <2>4, ZenonT(30)
<1>6. ASSUME NEW h \in Handles, NEW bits \in {0, 1}, NV_SetBits(h, bits) PROVE TypeInv'
  <2>1. PICK d \in Datum(nv[h].tmpl) : h \in Defined /\ NvWriteIndexData(h, d, FALSE)
    BY <1>6, SetBitsData, ZenonT(30)
  <2>2. orderlyState \in {"none", "clear", "state"}
    BY <1>0, ZenonT(30) DEF Scalars
  <2>3. KeepsTemplates /\ orderlyState' \in {"none", "clear", "state"}
    BY <1>0, <2>1, <2>2, WriteKeeps, ZenonT(30)
  <2>4. Scalars'
    BY <1>0, <1>6, <2>3, ZenonT(30) DEF Scalars, NV_SetBits
  <2> QED
    BY <1>k, <2>3, <2>4, ZenonT(30)
<1>7. ASSUME NEW h \in Handles, NV_WriteLock(h) \/ NV_ReadLock(h) PROVE TypeInv'
  <2>1. h \in Defined
    BY <1>7, ZenonT(30) DEF NV_WriteLock, NV_ReadLock, Writable
  <2>2. PICK e \in Admitted(nv[h].tmpl) : NvWriteIndexAttributes(h, e)
    <3>1. Info(h) \in Admitted(nv[h].tmpl)
      BY <1>0, <2>1, InfoTyped, ZenonT(30)
    <3> QED
      BY <1>7, <3>1, LockedEntry, ZenonT(30) DEF NV_WriteLock, NV_ReadLock
  <2>3. orderlyState \in {"none", "clear", "state"}
    BY <1>0, ZenonT(30) DEF Scalars
  <2>4. KeepsTemplates /\ orderlyState' \in {"none", "clear", "state"}
    BY <1>0, <2>1, <2>2, <2>3, AttributesKeep, ZenonT(30)
  <2>5. Scalars'
    BY <1>0, <2>2, <2>4, ZenonT(30) DEF Scalars, NvWriteIndexAttributes
  <2> QED
    BY <1>k, <2>4, <2>5, ZenonT(30)
<1>8. ASSUME NV_GlobalWriteLock PROVE TypeInv'
  <2>1. KeepsTemplates /\ orderlyState' = orderlyState
    BY <1>8, GlobalLockKeeps, ZenonT(30)
  <2>2. Scalars'
    BY <1>0, <1>8, <2>1, ZenonT(30) DEF Scalars, NV_GlobalWriteLock
  <2> QED
    BY <1>k, <2>1, <2>2, ZenonT(30)
<1>9. ASSUME Clear PROVE TypeInv'
  <2> DEFINE H == {h \in Defined : nv[h].tmpl.owner}
  <2>1. H \in SUBSET Defined
    BY ZenonT(30)
  <2>2. /\ NvDeleteIndex(H, nv) /\ Cleanup(TRUE, \E h \in H : Orderly(h))
        /\ maxCount' = IF H = {} /\ evict' = evict THEN maxCount ELSE s_maxCounter'
        /\ FlushObjects({"owner", "endorsement"}) /\ up' = up
    BY <1>9, ZenonT(30) DEF Clear
  <2> HIDE DEF H
  <2>3. backing' = IF \E h \in H : Orderly(h) THEN ram' ELSE backing
    BY <2>2, ZenonT(30) DEF Cleanup
  <2>4. Lists' /\ Layout'
    BY <2>1, <2>2, <2>3, DeleteLists, ZenonT(30)
  <2>5. s_maxCounter' \in 0 .. MaxCount /\ retired' \in 0 .. MaxCount
    BY <2>1, <2>2, DeleteMax, ZenonT(30)
  <2>6. covered' \in [Handles -> SUBSET Halves]
    BY <1>0, <2>2, ZenonT(30) DEF NvDeleteIndex, Scalars
  <2>7. evict' \in [Persistent -> Hierarchies \cup {None}]
    BY <1>0, <2>2, ZenonT(30) DEF FlushObjects, Scalars
  <2>8. Scalars'
    BY <1>0, <2>2, <2>5, <2>6, <2>7, ZenonT(30) DEF Scalars, Cleanup
  <2> QED
    BY <2>4, <2>8, TypePartsNext, ZenonT(30) DEF TypeInv
<1>10. ASSUME NEW hierarchy \in {"endorsement", "platform"}, ChangeSeed(hierarchy) PROVE TypeInv'
  <2>1. nv' = nv /\ ram' = ram /\ backing' = backing /\ orderlyState' = "none"
    BY <1>10, ZenonT(30) DEF ChangeSeed, Cleanup
  <2>2. KeepsTemplates
    BY <1>0, <2>1, ZenonT(30) DEF KeepsTemplates, Lists
  <2>3. evict' \in [Persistent -> Hierarchies \cup {None}]
    BY <1>0, <1>10, ZenonT(30) DEF ChangeSeed, FlushObjects, Scalars
  <2>4. Scalars'
    BY <1>0, <1>10, <2>1, <2>3, ZenonT(30) DEF ChangeSeed, Scalars
  <2> QED
    BY <1>k, <2>2, <2>4, ZenonT(30)
<1>11. ASSUME NEW p \in Persistent, NEW hierarchy \in Hierarchies, EvictControl(p, hierarchy) PROVE TypeInv'
  <2>1. nv' = nv /\ ram' = ram /\ backing' = backing /\ orderlyState' = orderlyState
    BY <1>11, ZenonT(30) DEF EvictControl, Cleanup
  <2>2. KeepsTemplates
    BY <1>0, <2>1, ZenonT(30) DEF KeepsTemplates, Lists
  <2>3. Scalars'
    BY <1>0, <1>11, <2>1, ZenonT(30) DEF EvictControl, Scalars
  <2> QED
    BY <1>k, <2>2, <2>3, ZenonT(30)
<1>12. ASSUME NEW type \in {"clear", "state"}, Shutdown(type) PROVE TypeInv'
  <2>1. KeepsTemplates
    BY <1>0, <1>12, ZenonT(30) DEF Shutdown, KeepsTemplates, Lists
  <2>2. Scalars'
    BY <1>0, <1>12, ZenonT(30) DEF Shutdown, Scalars
  <2> QED
    BY <1>k, <2>1, <2>2, ZenonT(30)
<1>13. ASSUME NEW type \in {"clear", "state"}, Startup(type) PROVE TypeInv'
  <2>1. KeepsTemplates
    BY <1>13, StartupKeeps, ZenonT(30)
  <2>2. Scalars'
    BY <1>0, <1>13, ZenonT(30) DEF Startup, Scalars
  <2> QED
    BY <1>k, <2>1, <2>2, ZenonT(30)
<1>14. ASSUME PowerOff \/ UNCHANGED vars PROVE TypeInv'
  <2>1. KeepsTemplates
    BY <1>0, <1>14, ZenonT(30) DEF PowerOff, vars, KeepsTemplates, Lists
  <2>2. Scalars'
    BY <1>0, <1>14, ZenonT(30) DEF PowerOff, vars, Scalars
  <2> QED
    BY <1>k, <2>1, <2>2, ZenonT(30)
<1> QED
  BY <1>1, <1>2, <1>3, <1>4, <1>5, <1>6, <1>7, <1>8, <1>9, <1>10, <1>11, <1>12, <1>13, <1>14, ZenonT(30) DEF Next

LEMMA InitTypeInv == Init => TypeInv
<1> SUFFICES ASSUME Init PROVE TypeInv
  BY ZenonT(30)
<1>1. Lists
  BY UndefinedEntry, ZenonT(30) DEF Init, Lists
<1>2. Scalars
  BY DEF Init, Scalars
<1>3. Layout
  BY ZenonT(30) DEF Init, Layout, RamTemplate, Defined, Undefined
<1> QED
  BY <1>1, <1>2, <1>3, TypeParts, ZenonT(30) DEF TypeInv

-----------------------------------------------------------------------------
(* What a step does to one index *)

\* nothing but a change of its locks or of its copy in the backing store
Same(g) ==
    /\ nv'[g].tmpl = nv[g].tmpl /\ nv'[g].data = nv[g].data /\ nv'[g].written = nv[g].written
    /\ nv[g].writelocked => nv'[g].writelocked
    /\ ram'[g].tmpl = ram[g].tmpl /\ ram'[g].data = ram[g].data /\ ram'[g].written = ram[g].written
    /\ covered'[g] = covered[g]
    /\ \/ backing'[g] = backing[g] /\ orderlyState' \in {orderlyState, "none"}
       \/ backing'[g] = ram'[g]

\* d is written to it
Stored(g, d) ==
    LET e == [Info(g) EXCEPT !.written = TRUE, !.data = d]
    IN  IF Orderly(g)
        THEN /\ nv'[g] = nv[g] /\ ram'[g] = e /\ orderlyState' = "none"
             /\ backing'[g] \in {backing[g], ram'[g]}
             /\ Counter(nv[g]) /\ (RolledOver(d) \/ ~Info(g).written) => backing'[g] = ram'[g]
        ELSE /\ nv'[g] = e /\ ram'[g] = ram[g]
             /\ backing'[g] = backing[g] /\ orderlyState' = orderlyState

Wrote(g) ==
    /\ g \in Defined /\ ~Info(g).writelocked
    /\ \E d \in Datum(nv[g].tmpl) :
         /\ Stored(g, d)
         /\ Counter(nv[g]) => d = (IF Info(g).written THEN Info(g).data ELSE s_maxCounter) + 1
         /\ nv[g].tmpl.nt = "ordinary" =>
               /\ \A i \in Halves \ covered'[g] : d[i] = Prior(Info(g))[i]
               /\ Info(g).written => covered[g] \subseteq covered'[g]

\* it is defined
Made(g) ==
    /\ \E t \in Templates : NV_DefineSpace(g, t)
    /\ g \notin Defined /\ g \in Defined'
    /\ ~nv'[g].written /\ ~ram'[g].written /\ backing'[g] = ram'[g]

\* it is deleted
Gone(g) == g \notin Defined' /\ backing'[g] = ram'[g]

Started == \E type \in {"clear", "state"} : Startup(type)

Effect(g) == Same(g) \/ Wrote(g) \/ Made(g) \/ Gone(g) \/ Started

LEMMA NoTemplate ==
    ASSUME TypeInv, NEW g \in Handles, RamTemplate(g) = None
    PROVE  ram[g] = Undefined /\ backing[g] = Undefined
<1>1. ram[g] \in Entries /\ backing[g] \in Entries /\ ram[g].tmpl = None /\ backing[g].tmpl = None
  BY ListsTyped, ZenonT(30) DEF Lists, TypeInv, Layout
<1> QED
  BY <1>1, EntryCases, ZenonT(30)

LEMMA StoredBy ==
    ASSUME TypeInv, NEW h \in Defined, NEW d \in Datum(nv[h].tmpl),
           \/ NvWriteIndexData(h, d, FALSE) /\ ~Counter(nv[h])
           \/ NvWriteIndexData(h, d, RolledOver(d))
    PROVE  /\ Stored(h, d)
           /\ \A g \in Handles \ {h} :
                 /\ nv'[g] = nv[g] /\ ram'[g] = ram[g]
                 /\ \/ backing'[g] = backing[g] /\ orderlyState' \in {orderlyState, "none"}
                    \/ backing'[g] = ram'[g]
<1> DEFINE e == [Info(h) EXCEPT !.written = TRUE, !.data = d]
<1>1. Lists /\ Layout /\ h \in Handles
  BY ListsTyped, ZenonT(30) DEF TypeInv, Defined
<1>2. Counter(e) <=> Counter(nv[h])
  <2>1. Info(h) \in Admitted(nv[h].tmpl)
    BY <1>1, InfoTyped, ZenonT(30)
  <2>2. e \in Admitted(nv[h].tmpl)
    BY <2>1, WrittenEntry, ZenonT(30)
  <2> HIDE DEF e
  <2> QED
    BY <2>2, ZenonT(30) DEF Counter, Admitted
<1>3. CASE Orderly(h)
  <2>1. /\ ram' = [ram EXCEPT ![h] = e] /\ nv' = nv /\ orderlyState' = "none"
        /\ backing' \in {backing, ram'}
        /\ (Counter(e) /\ ~Info(h).written) \/ (Counter(e) /\ RolledOver(d)) => backing' = ram'
    BY <1>2, <1>3, ZenonT(30) DEF NvWriteIndexData, Cleanup
  <2> HIDE DEF e
  <2>2. Stored(h, d)
    BY <1>1, <1>2, <1>3, <2>1, ZenonT(30) DEF Stored, Lists, e
  <2> QED
    BY <1>1, <2>1, <2>2, ZenonT(30) DEF Lists
<1>4. CASE ~Orderly(h)
  <2>1. nv' = [nv EXCEPT ![h] = e] /\ ram' = ram /\ backing' = backing /\ orderlyState' = orderlyState
    BY <1>4, ZenonT(30) DEF NvWriteIndexData, Cleanup
  <2> HIDE DEF e
  <2>2. Stored(h, d)
    BY <1>1, <1>4, <2>1, ZenonT(30) DEF Stored, Lists, e
  <2> QED
    BY <1>1, <2>1, <2>2, ZenonT(30) DEF Lists
<1> QED
  BY <1>3, <1>4, ZenonT(30)

LEMMA LockedSame ==
    ASSUME TypeInv, NEW h \in Handles, NV_WriteLock(h) \/ NV_ReadLock(h), NEW g \in Handles
    PROVE  Same(g)
<1>1. Lists /\ Layout /\ h \in Defined
  BY ListsTyped, ZenonT(30) DEF TypeInv, NV_WriteLock, NV_ReadLock, Writable
<1>2. PICK e : /\ NvWriteIndexAttributes(h, e)
               /\ e.tmpl = Info(h).tmpl /\ e.data = Info(h).data /\ e.written = Info(h).written
               /\ Info(h).writelocked => e.writelocked
  <2>1. Info(h) \in Admitted(nv[h].tmpl)
    BY <1>1, InfoTyped, ZenonT(30)
  <2>2. CASE NV_WriteLock(h)
    BY <2>1, <2>2, ZenonT(30) DEF NV_WriteLock, Admitted
  <2>3. CASE NV_ReadLock(h)
    BY <2>1, <2>3 DEF NV_ReadLock, Admitted
  <2> QED
    BY <2>2, <2>3, ZenonT(30)
<1>3. backing' = backing /\ orderlyState' = orderlyState /\ covered' = covered
  BY <1>2, ZenonT(30) DEF NvWriteIndexAttributes, Cleanup
<1>4. CASE Orderly(h)
  <2>1. ram' = [ram EXCEPT ![h] = e] /\ nv' = nv
    BY <1>2, <1>4, ZenonT(30) DEF NvWriteIndexAttributes
  <2>2. Info(h) = ram[h]
    BY <1>4, ZenonT(30) DEF Info
  <2> QED
    BY <1>1, <1>2, <1>3, <2>1, <2>2, ZenonT(30) DEF Same, Lists
<1>5. CASE ~Orderly(h)
  <2>1. nv' = [nv EXCEPT ![h] = e] /\ ram' = ram
    BY <1>2, <1>5, ZenonT(30) DEF NvWriteIndexAttributes
  <2>2. Info(h) = nv[h]
    BY <1>5, ZenonT(30) DEF Info
  <2> QED
    BY <1>1, <1>2, <1>3, <2>1, <2>2, ZenonT(30) DEF Same, Lists
<1> QED
  BY <1>4, <1>5, ZenonT(30)

LEMMA GloballyLockedSame ==
    ASSUME TypeInv, NV_GlobalWriteLock, NEW g \in Handles
    PROVE  Same(g)
<1>1. /\ nv'[g] = IF g \in Defined /\ ~Orderly(g) THEN Locked(nv[g]) ELSE nv[g]
      /\ ram'[g] = Locked(ram[g])
      /\ orderlyState' = orderlyState /\ backing' = backing /\ covered' = covered
  BY ZenonT(30) DEF NV_GlobalWriteLock, Cleanup
<1>2. ASSUME NEW e \in Entries
      PROVE  /\ Locked(e).tmpl = e.tmpl /\ Locked(e).data = e.data /\ Locked(e).written = e.written
             /\ e.writelocked => Locked(e).writelocked
  <2>1. CASE e.tmpl # None /\ e.tmpl.globallock
    <3>1. e \in Admitted(e.tmpl)
      BY <1>2, <2>1, EntryCases, ZenonT(30)
    <3>2. Locked(e) = [e EXCEPT !.writelocked = TRUE]
      BY <2>1, ZenonT(30) DEF Locked
    <3> QED
      BY <3>1, <3>2, ZenonT(30) DEF Admitted
  <2>2. CASE ~(e.tmpl # None /\ e.tmpl.globallock)
    BY <2>2, ZenonT(30) DEF Locked
  <2> QED
    BY <2>1, <2>2, ZenonT(30)
<1>3. nv[g] \in Entries /\ ram[g] \in Entries
  BY ListsTyped, ZenonT(30) DEF Lists
<1> QED
  BY <1>1, <1>2, <1>3, ZenonT(30) DEF Same

LEMMA DeletedEffect ==
    ASSUME TypeInv, NEW H \in SUBSET Defined, NEW info, NvDeleteIndex(H, info),
           backing' = IF \E h \in H : Orderly(h) THEN ram' ELSE backing,
           orderlyState' \in {orderlyState, "none"},
           NEW g \in Handles
    PROVE  Same(g) \/ Gone(g)
<1>1. /\ nv'[g] = (IF g \in H THEN Undefined ELSE nv[g])
      /\ ram'[g] = (IF g \in H THEN Undefined ELSE ram[g])
      /\ covered'[g] = (IF g \in H THEN {} ELSE covered[g])
  BY ZenonT(30) DEF NvDeleteIndex
<1>2. CASE g \in H
  <2>1. g \notin Defined'
    BY <1>2, DeleteLists
  <2>2. backing'[g] = ram'[g]
    <3>1. CASE Orderly(g)
      BY <1>2, <3>1, ZenonT(30)
    <3>2. CASE ~Orderly(g)
      <4>1. backing[g] = Undefined
        BY <3>2, NoTemplate, ZenonT(30) DEF RamTemplate
      <4> QED
        BY <1>1, <1>2, <4>1, ZenonT(30)
    <3> QED
      BY <3>1, <3>2, ZenonT(30)
  <2> QED
    BY <2>1, <2>2, ZenonT(30) DEF Gone
<1>3. CASE g \notin H
  BY <1>1, <1>3, ZenonT(30) DEF Same
<1> QED
  BY <1>2, <1>3, ZenonT(30)

LEMMA StepEffect == ASSUME TypeInv, [Next]_vars, NEW g \in Handles PROVE Effect(g)
<1>0. Lists /\ Layout /\ Scalars
  BY TypeParts, ZenonT(30) DEF TypeInv
<1>1. ASSUME NEW h \in Handles, NEW t \in Templates, NV_DefineSpace(h, t) PROVE Effect(g)
  <2> DEFINE e == [Undefined EXCEPT !.tmpl = t, !.data = Erased(t)]
  <2>1. /\ nv' = [nv EXCEPT ![h] = e]
        /\ ram' = IF t.orderly THEN [ram EXCEPT ![h] = e] ELSE ram
        /\ backing' = IF t.orderly THEN ram' ELSE backing
        /\ orderlyState' = orderlyState /\ covered' = covered /\ h \notin Defined
    BY <1>1, ZenonT(30) DEF NV_DefineSpace, Cleanup
  <2>2. ~e.written
    BY ZenonT(30) DEF Undefined
  <2> HIDE DEF e
  <2>3. CASE g = h
    <3>1. g \in Defined'
      BY <1>1, <2>3, DefineLists, ZenonT(30)
    <3>2. ram[g] = Undefined /\ backing[g] = Undefined
      BY <2>1, <2>3, NoTemplate, ZenonT(30) DEF RamTemplate
    <3>3. ~nv'[g].written /\ ~ram'[g].written /\ backing'[g] = ram'[g]
      <4>1. nv'[g] = e
        BY <1>0, <2>1, <2>3, ZenonT(30) DEF Lists
      <4>2. CASE t.orderly
        BY <1>0, <2>1, <2>2, <2>3, <4>1, <4>2, ZenonT(30) DEF Lists
      <4>3. CASE ~t.orderly
        <5>1. ~Undefined.written
          BY ZenonT(30) DEF Undefined
        <5> QED
          BY <2>1, <2>2, <3>2, <4>1, <4>3, <5>1, ZenonT(30)
      <4> QED
        BY <4>2, <4>3, ZenonT(30)
    <3> QED
      BY <1>1, <2>1, <2>3, <3>1, <3>3, ZenonT(30) DEF Made, Effect
  <2>4. CASE g # h
    <3>1. nv'[g] = nv[g] /\ ram'[g] = ram[g] /\ covered'[g] = covered[g]
      BY <1>0, <2>1, <2>4, ZenonT(30) DEF Lists
    <3>2. backing'[g] = backing[g] \/ backing'[g] = ram'[g]
      BY <2>1, ZenonT(30)
    <3> QED
      BY <2>1, <3>1, <3>2, ZenonT(30) DEF Same, Effect
  <2> QED
    BY <2>3, <2>4, ZenonT(30)
<1>2. ASSUME NEW h \in Handles, NV_UndefineSpace(h) PROVE Effect(g)
  <2> DEFINE info == [f \in {h} |-> Info(f)]
  <2>1. {h} \in SUBSET Defined /\ NvDeleteIndex({h}, info) /\ Cleanup(FALSE, Orderly(h))
    BY <1>2, ZenonT(30) DEF NV_UndefineSpace
  <2> HIDE DEF info
  <2>2. backing' = (IF \E f \in {h} : Orderly(f) THEN ram' ELSE backing) /\ orderlyState' = orderlyState
    BY <2>1, ZenonT(30) DEF Cleanup
  <2> QED
    BY <2>1, <2>2, DeletedEffect, ZenonT(30) DEF Effect
<1>3. ASSUME NEW h \in Handles, NEW part \in SUBSET Halves \ {{}}, NEW v \in Values, NV_Write(h, part, v)
      PROVE  Effect(g)
  <2> DEFINE d == [i \in Halves |-> IF i \in part THEN v ELSE Prior(Info(h))[i]]
  <2>1. /\ h \in Defined /\ ~Info(h).writelocked /\ Split(nv[h].tmpl) /\ NvWriteIndexData(h, d, FALSE)
        /\ covered' = [covered EXCEPT ![h] = (IF Info(h).written THEN covered[h] ELSE {}) \cup part]
    BY <1>3, ZenonT(30) DEF NV_Write, Writable
  <2>2. d \in Datum(nv[h].tmpl)
    BY <2>1, WrittenHalves, ZenonT(30)
  <2>3. ~Counter(nv[h])
    BY <2>1, ZenonT(30) DEF Counter, Split
  <2>4. covered'[h] = (IF Info(h).written THEN covered[h] ELSE {}) \cup part
    BY <1>0, <2>1, ZenonT(30) DEF Scalars
  <2>5. \A i \in Halves \ covered'[h] : d[i] = Prior(Info(h))[i]
    BY <2>4, ZenonT(30)
  <2> HIDE DEF d
  <2>6. /\ Stored(h, d)
        /\ \A f \in Handles \ {h} :
              /\ nv'[f] = nv[f] /\ ram'[f] = ram[f]
              /\ \/ backing'[f] = backing[f] /\ orderlyState' \in {orderlyState, "none"}
                 \/ backing'[f] = ram'[f]
    BY <2>1, <2>2, <2>3, StoredBy, ZenonT(30)
  <2>7. CASE g = h
    BY <2>1, <2>2, <2>3, <2>4, <2>5, <2>6, <2>7, ZenonT(30) DEF Wrote, Effect
  <2>8. CASE g # h
    <3>1. covered'[g] = covered[g]
      BY <1>0, <2>1, <2>8, ZenonT(30) DEF Scalars
    <3> QED
      BY <2>6, <2>8, <3>1, ZenonT(30) DEF Same, Effect
  <2> QED
    BY <2>7, <2>8, ZenonT(30)
<1>4. ASSUME NEW h \in Handles, NV_Increment(h) PROVE Effect(g)
  <2>1. PICK d \in Datum(nv[h].tmpl) :
           /\ h \in Defined /\ Counter(nv[h])
           /\ d = (IF Info(h).written THEN Info(h).data ELSE s_maxCounter) + 1
           /\ NvWriteIndexData(h, d, RolledOver(d))
    BY <1>4, IncrementData, ZenonT(30)
  <2>2. ~Info(h).writelocked /\ covered' = covered
    BY <1>4, ZenonT(30) DEF NV_Increment, Writable
  <2>3. /\ Stored(h, d)
        /\ \A f \in Handles \ {h} :
              /\ nv'[f] = nv[f] /\ ram'[f] = ram[f]
              /\ \/ backing'[f] = backing[f] /\ orderlyState' \in {orderlyState, "none"}
                 \/ backing'[f] = ram'[f]
    BY <2>1, StoredBy, ZenonT(30)
  <2>4. nv[h].tmpl.nt # "ordinary"
    BY <2>1, ZenonT(30) DEF Counter
  <2>5. CASE g = h
    BY <2>1, <2>2, <2>3, <2>4, <2>5, ZenonT(30) DEF Wrote, Effect
  <2>6. CASE g # h
    BY <2>2, <2>3, <2>6, ZenonT(30) DEF Same, Effect
  <2> QED
    BY <2>5, <2>6, ZenonT(30)
<1>5. ASSUME NEW h \in Handles, NV_Extend(h) PROVE Effect(g)
  <2>1. PICK d \in Datum(nv[h].tmpl) :
           h \in Defined /\ nv[h].tmpl.nt = "extend" /\ NvWriteIndexData(h, d, FALSE)
    BY <1>5, ExtendData, ZenonT(30)
  <2>2. ~Info(h).writelocked /\ covered' = covered
    BY <1>5, ZenonT(30) DEF NV_Extend, Writable
  <2>3. ~Counter(nv[h])
    BY <2>1, ZenonT(30) DEF Counter
  <2>4. /\ Stored(h, d)
        /\ \A f \in Handles \ {h} :
              /\ nv'[f] = nv[f] /\ ram'[f] = ram[f]
              /\ \/ backing'[f] = backing[f] /\ orderlyState' \in {orderlyState, "none"}
                 \/ backing'[f] = ram'[f]
    BY <2>1, <2>3, StoredBy, ZenonT(30)
  <2>5. CASE g = h
    BY <2>1, <2>2, <2>3, <2>4, <2>5, ZenonT(30) DEF Wrote, Effect
  <2>6. CASE g # h
    BY <2>2, <2>4, <2>6, ZenonT(30) DEF Same, Effect
  <2> QED
    BY <2>5, <2>6, ZenonT(30)
<1>6. ASSUME NEW h \in Handles, NEW bits \in {0, 1}, NV_SetBits(h, bits) PROVE Effect(g)
  <2>1. PICK d \in Datum(nv[h].tmpl) :
           h \in Defined /\ nv[h].tmpl.nt = "bits" /\ NvWriteIndexData(h, d, FALSE)
    BY <1>6, SetBitsData, ZenonT(30)
  <2>2. ~Info(h).writelocked /\ covered' = covered
    BY <1>6, ZenonT(30) DEF NV_SetBits, Writable
  <2>3. ~Counter(nv[h])
    BY <2>1, ZenonT(30) DEF Counter
  <2>4. /\ Stored(h, d)
        /\ \A f \in Handles \ {h} :
              /\ nv'[f] = nv[f] /\ ram'[f] = ram[f]
              /\ \/ backing'[f] = backing[f] /\ orderlyState' \in {orderlyState, "none"}
                 \/ backing'[f] = ram'[f]
    BY <2>1, <2>3, StoredBy, ZenonT(30)
  <2>5. CASE g = h
    BY <2>1, <2>2, <2>3, <2>4, <2>5, ZenonT(30) DEF Wrote, Effect
  <2>6. CASE g # h
    BY <2>2, <2>4, <2>6, ZenonT(30) DEF Same, Effect
  <2> QED
    BY <2>5, <2>6, ZenonT(30)
<1>7. ASSUME NEW h \in Handles, NV_WriteLock(h) \/ NV_ReadLock(h) PROVE Effect(g)
  BY <1>7, LockedSame, ZenonT(30) DEF Effect
<1>8. ASSUME NV_GlobalWriteLock PROVE Effect(g)
  BY <1>8, GloballyLockedSame, ZenonT(30) DEF Effect
<1>9. ASSUME Clear PROVE Effect(g)
  <2> DEFINE H == {h \in Defined : nv[h].tmpl.owner}
  <2>1. H \in SUBSET Defined
    BY ZenonT(30)
  <2>2. NvDeleteIndex(H, nv) /\ Cleanup(TRUE, \E h \in H : Orderly(h))
    BY <1>9, ZenonT(30) DEF Clear
  <2> HIDE DEF H
  <2>3. backing' = (IF \E h \in H : Orderly(h) THEN ram' ELSE backing) /\ orderlyState' = "none"
    BY <2>2, ZenonT(30) DEF Cleanup
  <2> QED
    BY <2>1, <2>2, <2>3, DeletedEffect, ZenonT(30) DEF Effect
<1>10. ASSUME NEW hierarchy \in {"endorsement", "platform"}, ChangeSeed(hierarchy) PROVE Effect(g)
  BY <1>10, ZenonT(30) DEF ChangeSeed, Cleanup, Same, Effect
<1>11. ASSUME NEW p \in Persistent, NEW hierarchy \in Hierarchies, EvictControl(p, hierarchy) PROVE Effect(g)
  BY <1>11, ZenonT(30) DEF EvictControl, Cleanup, Same, Effect
<1>12. ASSUME NEW type \in {"clear", "state"}, Shutdown(type) PROVE Effect(g)
  BY <1>12, ZenonT(30) DEF Shutdown, Same, Effect
<1>13. ASSUME NEW type \in {"clear", "state"}, Startup(type) PROVE Effect(g)
  BY <1>13, ZenonT(30) DEF Started, Effect
<1>14. ASSUME PowerOff \/ UNCHANGED vars PROVE Effect(g)
  BY <1>14, ZenonT(30) DEF PowerOff, vars, Same, Effect
<1> QED
  BY <1>1, <1>2, <1>3, <1>4, <1>5, <1>6, <1>7, <1>8, <1>9, <1>10, <1>11, <1>12, <1>13, <1>14, ZenonT(30) DEF Next

-----------------------------------------------------------------------------
(* Orderly data and their saved copy *)

OrderlyCounterAt(g) == g \in Defined /\ Orderly(g) /\ Counter(nv[g])

\* After a shutdown the saved data are those in RAM.  A written orderly counter
\* is saved, and RAM is at or below the count an unorderly startup continues from.
Saved(g) ==
    /\ orderlyState # "none" => backing[g].data = ram[g].data /\ backing[g].written = ram[g].written
    /\ OrderlyCounterAt(g) =>
         /\ backing[g].written = ram[g].written
         /\ ram[g].written => backing[g].data <= ram[g].data /\ ram[g].data <= SetLowerBits(backing[g].data)

LEMMA CounterTyped ==
    ASSUME TypeInv, NEW g \in Handles, OrderlyCounterAt(g)
    PROVE  /\ nv[g].tmpl \in Templates /\ ram[g] \in Admitted(nv[g].tmpl) /\ backing[g] \in Admitted(nv[g].tmpl)
           /\ Counter(ram[g]) /\ Counter(backing[g]) /\ Info(g) = ram[g]
           /\ ram[g].data \in 0 .. MaxCount /\ backing[g].data \in 0 .. MaxCount
<1>1. /\ nv[g].tmpl \in Templates /\ Info(g) \in Admitted(nv[g].tmpl) /\ Info(g) = ram[g]
      /\ backing[g] \in Admitted(nv[g].tmpl)
  BY ListsTyped, InfoTyped, ZenonT(30) DEF TypeInv, OrderlyCounterAt
<1>2. nv[g].tmpl.nt = "counter"
  BY ZenonT(30) DEF OrderlyCounterAt, Counter
<1>3. Datum(nv[g].tmpl) = 0 .. MaxCount
  BY <1>2, ZenonT(30) DEF Datum, Split
<1> QED
  BY <1>1, <1>2, <1>3, ZenonT(30) DEF Admitted, Counter

LEMMA SyncSaved ==
    ASSUME TypeInv', NEW g \in Handles, backing'[g] = ram'[g]
    PROVE  Saved(g)'
<1>1. ASSUME OrderlyCounterAt(g)' PROVE ram'[g].data \in Nat
  <2>1. ram'[g] \in Entries /\ ram'[g].tmpl = nv'[g].tmpl /\ nv'[g].tmpl # None /\ nv'[g].tmpl.nt = "counter"
    BY <1>1, ZenonT(30) DEF TypeInv, TypeOK, Layout, RamTemplate, OrderlyCounterAt, Counter, Defined
  <2>2. ram'[g] \in Admitted(ram'[g].tmpl)
    BY <2>1, EntryCases, ZenonT(30)
  <2>3. ram'[g].data \in Datum(ram'[g].tmpl)
    BY <2>2, ZenonT(30) DEF Admitted
  <2> QED
    BY <2>1, <2>3 DEF Datum, Split
<1>2. OrderlyCounterAt(g)' => ram'[g].data <= ram'[g].data /\ ram'[g].data <= SetLowerBits(ram'[g].data)
  BY <1>1, LowBits
<1> QED
  BY <1>2, ZenonT(30) DEF Saved

LEMMA SameSaved == ASSUME TypeInv', NEW g \in Handles, Same(g), Saved(g) PROVE Saved(g)'
<1>1. CASE backing'[g] = ram'[g]
  BY <1>1, SyncSaved, ZenonT(30)
<1>2. CASE backing'[g] = backing[g] /\ orderlyState' \in {orderlyState, "none"}
  <2>1. OrderlyCounterAt(g)' => OrderlyCounterAt(g)
    BY ZenonT(30) DEF Same, OrderlyCounterAt, Defined, Orderly, Counter
  <2>2. ram'[g].data = ram[g].data /\ ram'[g].written = ram[g].written
    BY ZenonT(30) DEF Same
  <2> QED
    BY <1>2, <2>1, <2>2, ZenonT(30) DEF Saved
<1> QED
  BY <1>1, <1>2, ZenonT(30) DEF Same

LEMMA WroteSaved ==
    ASSUME TypeInv, TypeInv', NEW g \in Handles, Wrote(g), Saved(g)
    PROVE  Saved(g)'
<1>1. PICK d \in Datum(nv[g].tmpl) :
         /\ Stored(g, d)
         /\ Counter(nv[g]) => d = (IF Info(g).written THEN Info(g).data ELSE s_maxCounter) + 1
  BY ZenonT(30) DEF Wrote
<1> DEFINE e == [Info(g) EXCEPT !.written = TRUE, !.data = d]
<1>2. g \in Defined /\ Info(g) \in Admitted(nv[g].tmpl) /\ Info(g).tmpl = nv[g].tmpl
  BY ListsTyped, InfoTyped, ZenonT(30) DEF TypeInv, Wrote
<1>3. e.written /\ e.data = d /\ e.tmpl = nv[g].tmpl
  BY <1>2, ZenonT(30) DEF Admitted
<1> HIDE DEF e
<1>4. CASE ~Orderly(g)
  <2>1. /\ nv'[g] = e /\ ram'[g] = ram[g] /\ backing'[g] = backing[g] /\ orderlyState' = orderlyState
    BY <1>1, <1>4, ZenonT(30) DEF Stored, e
  <2>2. ~OrderlyCounterAt(g)'
    BY <1>3, <1>4, <2>1, ZenonT(30) DEF OrderlyCounterAt, Orderly
  <2> QED
    BY <2>1, <2>2, ZenonT(30) DEF Saved
<1>5. CASE Orderly(g) /\ ~Counter(nv[g])
  <2>1. nv'[g] = nv[g] /\ orderlyState' = "none"
    BY <1>1, <1>5, ZenonT(30) DEF Stored
  <2>2. ~OrderlyCounterAt(g)'
    BY <1>5, <2>1, ZenonT(30) DEF OrderlyCounterAt, Counter
  <2> QED
    BY <2>1, <2>2, ZenonT(30) DEF Saved
<1>6. CASE Orderly(g) /\ Counter(nv[g])
  <2>1. /\ ram'[g] = e /\ orderlyState' = "none" /\ backing'[g] \in {backing[g], ram'[g]}
        /\ RolledOver(d) \/ ~Info(g).written => backing'[g] = ram'[g]
    BY <1>1, <1>6, ZenonT(30) DEF Stored, e
  <2>2. CASE backing'[g] = ram'[g]
    BY <2>2, SyncSaved, ZenonT(30)
  <2>3. CASE backing'[g] = backing[g] /\ ~RolledOver(d) /\ Info(g).written
    <3>1. OrderlyCounterAt(g)
      BY <1>2, <1>6, ZenonT(30) DEF OrderlyCounterAt
    <3>2. Info(g) = ram[g] /\ ram[g].data \in Nat /\ backing[g].data \in Nat
      BY <3>1, CounterTyped
    <3>3. /\ backing[g].written = ram[g].written
          /\ backing[g].data <= ram[g].data /\ ram[g].data <= SetLowerBits(backing[g].data)
      BY <2>3, <3>1, <3>2, ZenonT(30) DEF Saved
    <3>4. d = ram[g].data + 1
      BY <1>1, <1>6, <2>3, <3>2, ZenonT(30)
    <3>5. d <= SetLowerBits(backing[g].data) /\ backing[g].data <= d
      BY <2>3, <3>2, <3>3, <3>4, NoRollover
    <3>6. backing'[g].written = ram'[g].written
      <4>1. ram[g].written \in BOOLEAN /\ backing[g].written \in BOOLEAN
        BY <3>1, CounterTyped, ZenonT(30) DEF Admitted
      <4>2. e.written = TRUE
        BY <1>2, ZenonT(30) DEF e, Admitted
      <4> QED
        BY <2>1, <2>3, <3>2, <3>3, <4>1, <4>2, ZenonT(30)
    <3> QED
      BY <1>3, <2>1, <2>3, <3>5, <3>6, ZenonT(30) DEF Saved
  <2> QED
    BY <2>1, <2>2, <2>3, ZenonT(30)
<1> QED
  BY <1>4, <1>5, <1>6, ZenonT(30)

\* the effect of TPM2_Startup on an orderly counter
LEMMA CounterStarted ==
    ASSUME TypeInv, NEW g \in Handles, OrderlyCounterAt(g),
           NEW type \in {"clear", "state"}, Startup(type)
    PROVE  /\ nv'[g] = nv[g] /\ backing'[g] = backing[g]
           /\ ram'[g].written = backing[g].written
           /\ ram'[g].data = IF type = "clear" /\ orderlyState = "none"
                             THEN SetLowerBits(backing[g].data) ELSE backing[g].data
<1>1. /\ nv'[g] = nv[g]
      /\ ram'[g] = IF type = "state" THEN backing[g]
                   ELSE StartOrderly(backing[g], orderlyState # "state")
  BY StartupOf, ZenonT(30) DEF OrderlyCounterAt
<1>2. backing' = backing
  BY ZenonT(30) DEF Startup
<1>3. nv[g].tmpl \in Templates /\ backing[g] \in Admitted(nv[g].tmpl) /\ Counter(backing[g])
  BY CounterTyped, ZenonT(30)
<1>4. (orderlyState # "state") \in BOOLEAN
  BY ZenonT(30)
<1>5. /\ StartOrderly(backing[g], orderlyState # "state").written
           = NvSetStartupAttributes(backing[g], orderlyState # "state").written
      /\ StartOrderly(backing[g], orderlyState # "state").data =
            IF orderlyState = "none" THEN SetLowerBits(backing[g].data) ELSE backing[g].data
  BY <1>3, <1>4, StartedOrderly, ZenonT(30)
<1>6. NvSetStartupAttributes(backing[g], orderlyState # "state").written = backing[g].written
  BY <1>3, <1>4, StartedEntry, ZenonT(30)
<1> QED
  BY <1>1, <1>2, <1>5, <1>6, ZenonT(30)

LEMMA StartedSaved ==
    ASSUME TypeInv, TypeInv', NEW g \in Handles, Started, Saved(g)
    PROVE  Saved(g)'
<1>1. PICK type \in {"clear", "state"} : Startup(type)
  BY ZenonT(30) DEF Started
<1>2. orderlyState' = "none"
  BY <1>1, ZenonT(30) DEF Startup
<1>3. OrderlyCounterAt(g)' => OrderlyCounterAt(g)
  <2>1. nv'[g].tmpl = nv[g].tmpl
    BY <1>1, StartupKeeps, ZenonT(30) DEF KeepsTemplates
  <2> QED
    BY <2>1, ZenonT(30) DEF OrderlyCounterAt, Defined, Orderly, Counter
<1>4. ASSUME OrderlyCounterAt(g)
      PROVE  /\ backing'[g].written = ram'[g].written
             /\ backing'[g].data <= ram'[g].data /\ ram'[g].data <= SetLowerBits(backing'[g].data)
  <2>1. backing[g].data \in Nat
    BY <1>4, CounterTyped
  <2>2. SetLowerBits(backing[g].data) \in Nat /\ backing[g].data <= SetLowerBits(backing[g].data)
    BY <2>1, LowBits, ZenonT(30)
  <2>3. /\ backing'[g] = backing[g] /\ ram'[g].written = backing[g].written
        /\ ram'[g].data \in {backing[g].data, SetLowerBits(backing[g].data)}
    BY <1>1, <1>4, CounterStarted, ZenonT(30)
  <2> QED
    BY <2>1, <2>2, <2>3
<1> QED
  BY <1>2, <1>3, <1>4, ZenonT(30) DEF Saved

LEMMA NextSaved ==
    ASSUME GreatestCount, TypeInv, [Next]_vars, NEW g \in Handles, Saved(g)
    PROVE  Saved(g)'
<1>1. TypeInv'
  BY NextTypeInv, ZenonT(30)
<1>2. CASE Same(g)
  BY <1>1, <1>2, SameSaved, ZenonT(30)
<1>3. CASE Wrote(g)
  BY <1>1, <1>3, WroteSaved, ZenonT(30)
<1>4. CASE Made(g) \/ Gone(g)
  BY <1>1, <1>4, SyncSaved, ZenonT(30) DEF Made, Gone
<1>5. CASE Started
  BY <1>1, <1>5, StartedSaved, ZenonT(30)
<1> QED
  BY <1>2, <1>3, <1>4, <1>5, StepEffect, ZenonT(30) DEF Effect

-----------------------------------------------------------------------------
(* Residue *)

Clean(g) ==
    g \in Defined /\ nv[g].tmpl.nt = "ordinary" /\ Info(g).written
      => \A i \in Halves \ covered[g] : Info(g).data[i] = 0

LEMMA WroteClean == ASSUME TypeInv, NEW g \in Handles, Wrote(g), Clean(g) PROVE Clean(g)'
<1>1. PICK d \in Datum(nv[g].tmpl) :
         /\ Stored(g, d)
         /\ nv[g].tmpl.nt = "ordinary" =>
               /\ \A i \in Halves \ covered'[g] : d[i] = Prior(Info(g))[i]
               /\ Info(g).written => covered[g] \subseteq covered'[g]
  BY ZenonT(30) DEF Wrote
<1> DEFINE e == [Info(g) EXCEPT !.written = TRUE, !.data = d]
<1>2. g \in Defined /\ Info(g) \in Admitted(nv[g].tmpl) /\ Info(g).tmpl = nv[g].tmpl
  BY ListsTyped, InfoTyped, ZenonT(30) DEF TypeInv, Wrote
<1>3. e.data = d /\ e.tmpl = nv[g].tmpl
  BY <1>2, ZenonT(30) DEF Admitted
<1> HIDE DEF e
<1>4. Info(g)' = e /\ nv'[g].tmpl = nv[g].tmpl
  <2>1. CASE Orderly(g)
    BY <1>1, <2>1, ZenonT(30) DEF Stored, e, Info, Orderly
  <2>2. CASE ~Orderly(g)
    BY <1>1, <1>3, <2>2, ZenonT(30) DEF Stored, e, Info, Orderly
  <2> QED
    BY <2>1, <2>2, ZenonT(30)
<1>5. ASSUME nv[g].tmpl.nt = "ordinary", NEW i \in Halves \ covered'[g] PROVE d[i] = 0
  <2>1. d[i] = Prior(Info(g))[i]
    BY <1>1, <1>5, ZenonT(30)
  <2>2. CASE Info(g).written
    <3>1. Prior(Info(g)) = Info(g).data /\ i \notin covered[g]
      BY <1>1, <1>5, <2>2, ZenonT(30) DEF Prior
    <3> QED
      BY <1>2, <1>5, <2>1, <2>2, <3>1, ZenonT(30) DEF Clean
  <2>3. CASE ~Info(g).written
    <3>1. Prior(Info(g)) = [j \in Halves |-> 0]
      BY <1>2, <1>5, <2>3, ZenonT(30) DEF Prior, Erased, Split
    <3> QED
      BY <2>1, <3>1, ZenonT(30)
  <2> QED
    BY <2>2, <2>3, ZenonT(30)
<1> QED
  BY <1>3, <1>4, <1>5, ZenonT(30) DEF Clean

LEMMA SameClean == ASSUME TypeInv, NEW g \in Handles, Same(g), Clean(g) PROVE Clean(g)'
<1>1. nv'[g].tmpl = nv[g].tmpl /\ covered'[g] = covered[g]
  BY ZenonT(30) DEF Same
<1>2. Info(g)'.data = Info(g).data /\ Info(g)'.written = Info(g).written
  BY <1>1, ZenonT(30) DEF Same, Info, Orderly
<1>3. g \in Defined' => g \in Defined
  BY <1>1, ZenonT(30) DEF Defined
<1> QED
  BY <1>1, <1>2, <1>3, ZenonT(30) DEF Clean

\* TPM2_Startup keeps WRITTEN only where the data are those that were in use.
LEMMA StartedData ==
    ASSUME TypeInv, NEW g \in Defined, ~Counter(nv[g]), Saved(g), Started, Info(g)'.written
    PROVE  Info(g).written /\ Info(g)'.data = Info(g).data
<1>1. PICK type \in {"clear", "state"} : Startup(type)
  BY ZenonT(30) DEF Started
<1>2. g \in Handles
  BY ZenonT(30) DEF Defined
<1>3. nv'[g].tmpl = nv[g].tmpl
  BY <1>1, <1>2, StartupKeeps, ZenonT(30) DEF KeepsTemplates
<1>4. /\ nv[g].tmpl \in Templates /\ nv[g] \in Admitted(nv[g].tmpl)
      /\ Orderly(g) => /\ Info(g) = ram[g] /\ backing[g] \in Admitted(nv[g].tmpl)
                       /\ backing[g].tmpl = nv[g].tmpl
      /\ ~Orderly(g) => Info(g) = nv[g]
  BY ListsTyped, InfoTyped, ZenonT(30) DEF TypeInv
<1>5. (orderlyState # "state") \in BOOLEAN
  BY ZenonT(30)
<1>6. CASE ~Orderly(g)
  <2>1. Info(g)' = nv'[g]
    BY <1>3, <1>6, ZenonT(30) DEF Info, Orderly
  <2>2. nv'[g] = IF type = "state" THEN nv[g] ELSE NvSetStartupAttributes(nv[g], orderlyState # "state")
    BY <1>1, <1>2, <1>6, StartupOf, ZenonT(30)
  <2>3. NvSetStartupAttributes(nv[g], orderlyState # "state").written => nv[g].written
    BY <1>4, ZenonT(30) DEF NvSetStartupAttributes, Admitted
  <2>4. NvSetStartupAttributes(nv[g], orderlyState # "state").data = nv[g].data
    BY <1>4, <1>5, StartedEntry, ZenonT(30)
  <2> QED
    BY <1>4, <1>6, <2>1, <2>2, <2>3, <2>4, ZenonT(30)
<1>7. CASE Orderly(g)
  <2>1. Info(g)' = ram'[g]
    BY <1>3, <1>7, ZenonT(30) DEF Info, Orderly
  <2>2. ram'[g] = IF type = "state" THEN backing[g] ELSE StartOrderly(backing[g], orderlyState # "state")
    BY <1>1, <1>2, <1>7, StartupOf, ZenonT(30)
  <2>3. ~Counter(backing[g])
    BY <1>4, <1>7, ZenonT(30) DEF Counter
  <2>4. /\ StartOrderly(backing[g], orderlyState # "state").written
             = NvSetStartupAttributes(backing[g], orderlyState # "state").written
        /\ StartOrderly(backing[g], orderlyState # "state").data = backing[g].data
    BY <1>4, <1>5, <1>7, <2>3, StartedOrderly, ZenonT(30)
  <2>5. NvSetStartupAttributes(backing[g], orderlyState # "state").written
          => backing[g].written /\ orderlyState = "state"
    BY <1>4, <1>7, <2>3, ZenonT(30) DEF NvSetStartupAttributes, Admitted, Orderly
  <2>6. orderlyState = "state" /\ backing[g].written /\ ram'[g].data = backing[g].data
    <3>1. CASE type = "state"
      BY <1>1, <2>1, <2>2, <3>1, ZenonT(30) DEF Startup
    <3>2. CASE type = "clear"
      BY <2>1, <2>2, <2>4, <2>5, <3>2, ZenonT(30)
    <3> QED
      BY <3>1, <3>2, ZenonT(30)
  <2>7. backing[g].data = ram[g].data /\ backing[g].written = ram[g].written
    BY <2>6, ZenonT(30) DEF Saved
  <2> QED
    BY <1>4, <1>7, <2>1, <2>6, <2>7, ZenonT(30)
<1> QED
  BY <1>6, <1>7, ZenonT(30)

LEMMA NextClean ==
    ASSUME TypeInv, [Next]_vars, NEW g \in Handles, Saved(g), Clean(g)
    PROVE  Clean(g)'
<1>1. CASE Same(g)
  BY <1>1, SameClean, ZenonT(30)
<1>2. CASE Wrote(g)
  BY <1>2, WroteClean, ZenonT(30)
<1>3. CASE Made(g) \/ Gone(g)
  BY <1>3, ZenonT(30) DEF Made, Gone, Clean, Info
<1>4. CASE Started
  <2>1. PICK type \in {"clear", "state"} : Startup(type)
    BY <1>4, ZenonT(30) DEF Started
  <2>2. nv'[g].tmpl = nv[g].tmpl /\ covered' = covered
    BY <2>1, StartupKeeps, ZenonT(30) DEF KeepsTemplates, Startup
  <2>3. g \in Defined' => g \in Defined
    BY <2>2, ZenonT(30) DEF Defined
  <2>4. g \in Defined' /\ nv'[g].tmpl.nt = "ordinary" /\ Info(g)'.written
          => Info(g).written /\ Info(g)'.data = Info(g).data
    BY <1>4, <2>2, <2>3, StartedData, ZenonT(30) DEF Counter
  <2> QED
    BY <2>2, <2>3, <2>4, ZenonT(30) DEF Clean
<1> QED
  BY <1>1, <1>2, <1>3, <1>4, StepEffect, ZenonT(30) DEF Effect

-----------------------------------------------------------------------------
(* The inductive invariant *)

Inv == TypeInv /\ \A g \in Handles : Saved(g) /\ Clean(g)

LEMMA InitInv == Init => Inv
<1> SUFFICES ASSUME Init PROVE Inv
  BY ZenonT(30)
<1>1. TypeInv
  BY InitTypeInv, ZenonT(30)
<1>2. \A g \in Handles : Saved(g) /\ Clean(g)
  BY ZenonT(30) DEF Init, Saved, Clean, OrderlyCounterAt, Defined, Undefined
<1> QED
  BY <1>1, <1>2, ZenonT(30) DEF Inv

-----------------------------------------------------------------------------
(* Counters *)

LEMMA CounterStep ==
    ASSUME TypeInv, [Next]_vars, NEW g \in Handles, Saved(g),
           g \in Counters, g \in Counters', Info(g).written
    PROVE  Info(g)'.written /\ Info(g)'.data >= Info(g).data
<1>1. g \in Defined /\ Counter(nv[g]) /\ g \in Defined'
  BY ZenonT(30) DEF Counters
<1>2. /\ nv[g].tmpl \in Templates /\ nv[g] \in Admitted(nv[g].tmpl)
      /\ Info(g) \in Admitted(nv[g].tmpl)
      /\ ~Orderly(g) => Info(g) = nv[g]
  BY <1>1, ListsTyped, InfoTyped, ZenonT(30) DEF TypeInv
<1>3. Info(g).data \in Nat
  BY <1>1, <1>2 DEF Admitted, Datum, Split, Counter
<1>4. CASE Same(g)
  <2>1. Info(g)'.data = Info(g).data /\ Info(g)'.written = Info(g).written
    BY <1>4, ZenonT(30) DEF Same, Info, Orderly
  <2> QED
    BY <1>3, <2>1
<1>5. CASE Wrote(g)
  <2>1. PICK d \in Datum(nv[g].tmpl) : Stored(g, d) /\ d = Info(g).data + 1
    BY <1>1, <1>5, ZenonT(30) DEF Wrote
  <2> DEFINE e == [Info(g) EXCEPT !.written = TRUE, !.data = d]
  <2>2. e.written /\ e.data = d /\ e.tmpl = Info(g).tmpl
    BY <1>2, ZenonT(30) DEF Admitted
  <2>3. Info(g).tmpl = nv[g].tmpl
    BY <1>2, ZenonT(30) DEF Admitted
  <2> HIDE DEF e
  <2>4. Info(g)' = e
    <3>1. CASE Orderly(g)
      BY <2>1, <3>1, ZenonT(30) DEF Stored, e, Info, Orderly
    <3>2. CASE ~Orderly(g)
      BY <2>1, <2>2, <2>3, <3>2, ZenonT(30) DEF Stored, e, Info, Orderly
    <3> QED
      BY <3>1, <3>2, ZenonT(30)
  <2> QED
    BY <1>3, <2>1, <2>2, <2>4
<1>6. CASE Made(g) \/ Gone(g)
  BY <1>1, <1>6, ZenonT(30) DEF Made, Gone
<1>7. CASE Started
  <2>1. PICK type \in {"clear", "state"} : Startup(type)
    BY <1>7, ZenonT(30) DEF Started
  <2>2. nv'[g].tmpl = nv[g].tmpl
    BY <2>1, StartupKeeps, ZenonT(30) DEF KeepsTemplates
  <2>3. (orderlyState # "state") \in BOOLEAN
    BY ZenonT(30)
  <2>4. CASE Orderly(g)
    <3>1. OrderlyCounterAt(g)
      BY <1>1, <2>4, ZenonT(30) DEF OrderlyCounterAt
    <3>2. Info(g) = ram[g] /\ Info(g)' = ram'[g] /\ backing[g].data \in Nat
      BY <2>2, <2>4, <3>1, CounterTyped DEF Info, Orderly
    <3>3. /\ ram'[g].written = backing[g].written
          /\ ram'[g].data = IF type = "clear" /\ orderlyState = "none"
                            THEN SetLowerBits(backing[g].data) ELSE backing[g].data
      BY <2>1, <3>1, CounterStarted, ZenonT(30)
    <3>4. backing[g].written = ram[g].written /\ ram[g].data <= SetLowerBits(backing[g].data)
      BY <3>1, <3>2, ZenonT(30) DEF Saved
    <3>5. orderlyState # "none" => backing[g].data = ram[g].data
      BY ZenonT(30) DEF Saved
    <3>6. SetLowerBits(backing[g].data) \in Nat
      BY <3>2, LowBits, ZenonT(30)
    <3>7. type = "state" => orderlyState # "none"
      BY <2>1, ZenonT(30) DEF Startup
    <3>8. ram'[g].data >= ram[g].data
      BY <1>3, <3>2, <3>3, <3>4, <3>5, <3>6, <3>7
    <3> QED
      BY <3>2, <3>3, <3>4, <3>8, ZenonT(30)
  <2>5. CASE ~Orderly(g)
    <3>1. Info(g)' = nv'[g]
      BY <2>2, <2>5, ZenonT(30) DEF Info, Orderly
    <3>2. nv'[g] = IF type = "state" THEN nv[g] ELSE NvSetStartupAttributes(nv[g], orderlyState # "state")
      BY <1>1, <2>1, <2>5, StartupOf, ZenonT(30)
    <3>3. /\ NvSetStartupAttributes(nv[g], orderlyState # "state").data = nv[g].data
          /\ NvSetStartupAttributes(nv[g], orderlyState # "state").written = nv[g].written
      BY <1>1, <1>2, <2>3, StartedEntry, ZenonT(30)
    <3> QED
      BY <1>2, <1>3, <2>5, <3>1, <3>2, <3>3
  <2> QED
    BY <2>4, <2>5, ZenonT(30)
<1> QED
  BY <1>4, <1>5, <1>6, <1>7, StepEffect, ZenonT(30) DEF Effect

\* TPM2_Clear deletes no orderly counter: without this, NewCounterAboveDeleted
\* does not hold.
ClearSparesOrderlyCounters == \A t \in Templates : t.nt = "counter" /\ t.orderly => ~t.owner

\* neither copy of the highest count is below a deleted counter
RetiredBelow == retired <= s_maxCounter /\ retired <= maxCount

LEMMA NextRetired ==
    ASSUME GreatestCount, ClearSparesOrderlyCounters, TypeInv, RetiredBelow, [Next]_vars
    PROVE  RetiredBelow'
<1>0. Lists /\ Layout /\ Scalars
  BY TypeParts, ZenonT(30) DEF TypeInv
<1>1. ASSUME NEW H \in SUBSET Defined, NEW info, NvDeleteIndex(H, info),
             \A h \in H : info[h].tmpl = nv[h].tmpl,
             \A h \in H : Counter(nv[h]) /\ Info(h).written => info[h].written
      PROVE  s_maxCounter' \in Nat /\ retired' \in Nat /\ retired' <= s_maxCounter'
  <2>1. /\ s_maxCounter' \in 0 .. MaxCount /\ s_maxCounter' >= s_maxCounter
        /\ retired' \in 0 .. MaxCount
        /\ \A h \in H : Counter(nv[h]) /\ info[h].written => s_maxCounter' >= Info(h).data
        /\ \/ retired' = retired
           \/ \E h \in H : Counter(nv[h]) /\ Info(h).written /\ retired' = Info(h).data
    BY <1>1, DeleteMax, ZenonT(30)
  <2>2. CASE retired' = retired
    BY <1>0, <2>1, <2>2 DEF RetiredBelow, Scalars
  <2>3. CASE retired' # retired
    <3>1. PICK h \in H : Counter(nv[h]) /\ Info(h).written /\ retired' = Info(h).data
      BY <2>1, <2>3, ZenonT(30)
    <3>2. s_maxCounter' >= Info(h).data
      BY <1>1, <2>1, <3>1, ZenonT(30)
    <3> QED
      BY <2>1, <3>1, <3>2
  <2> QED
    BY <2>2, <2>3, ZenonT(30)
<1>2. ASSUME NEW h \in Handles, NV_UndefineSpace(h) PROVE RetiredBelow'
  <2> DEFINE info == [g \in {h} |-> Info(g)]
  <2>1. {h} \in SUBSET Defined /\ NvDeleteIndex({h}, info) /\ maxCount' = s_maxCounter'
    BY <1>2, ZenonT(30) DEF NV_UndefineSpace
  <2>2. \A g \in {h} : info[g].tmpl = nv[g].tmpl
    BY <1>0, <2>1, InfoTyped, ZenonT(30)
  <2>3. \A g \in {h} : Counter(nv[g]) /\ Info(g).written => info[g].written
    BY ZenonT(30)
  <2> HIDE DEF info
  <2>4. retired' <= s_maxCounter'
    BY <1>1, <2>1, <2>2, <2>3, ZenonT(30)
  <2> QED
    BY <2>1, <2>4, ZenonT(30) DEF RetiredBelow
<1>3. ASSUME Clear PROVE RetiredBelow'
  <2> DEFINE H == {h \in Defined : nv[h].tmpl.owner}
  <2>1. H \in SUBSET Defined /\ \A h \in H : nv[h].tmpl.owner
    BY ZenonT(30)
  <2>2. /\ NvDeleteIndex(H, nv)
        /\ maxCount' = IF H = {} /\ evict' = evict THEN maxCount ELSE s_maxCounter'
    BY <1>3, ZenonT(30) DEF Clear
  <2> HIDE DEF H
  <2>3. ASSUME NEW h \in H, Counter(nv[h]) PROVE Info(h) = nv[h]
    <3>1. nv[h].tmpl \in Templates
      BY <1>0, <2>1, <2>3, InfoTyped, ZenonT(30)
    <3>2. ~Orderly(h)
      BY <2>1, <2>3, <3>1, ZenonT(30) DEF ClearSparesOrderlyCounters, Counter, Orderly
    <3> QED
      BY <3>2, ZenonT(30) DEF Info
  <2>4. retired' <= s_maxCounter'
    BY <1>1, <2>1, <2>2, <2>3, ZenonT(30)
  <2>5. CASE H = {}
    <3>1. retired' = retired
      <4>1. \/ retired' = retired
            \/ \E h \in H : Counter(nv[h]) /\ Info(h).written /\ retired' = Info(h).data
        BY <2>1, <2>2, DeleteMax, ZenonT(30)
      <4> QED
        BY <2>5, <4>1, ZenonT(30)
    <3> QED
      BY <2>2, <2>4, <2>5, <3>1, ZenonT(30) DEF RetiredBelow
  <2>6. CASE H # {}
    BY <2>2, <2>4, <2>6, ZenonT(30) DEF RetiredBelow
  <2> QED
    BY <2>5, <2>6, ZenonT(30)
<1>4. ASSUME NEW h \in Handles, NEW t \in Templates, NV_DefineSpace(h, t) PROVE RetiredBelow'
  BY <1>4, ZenonT(30) DEF NV_DefineSpace, RetiredBelow
<1>5. ASSUME NEW h \in Handles, NEW part \in SUBSET Halves \ {{}}, NEW v \in Values, NV_Write(h, part, v)
      PROVE  RetiredBelow'
  BY <1>5, ZenonT(30) DEF NV_Write, RetiredBelow
<1>6. ASSUME NEW h \in Handles,
             NV_Increment(h) \/ NV_Extend(h) \/ NV_SetBits(h, 0) \/ NV_SetBits(h, 1)
      PROVE  RetiredBelow'
  BY <1>6, ZenonT(30) DEF NV_Increment, NV_Extend, NV_SetBits, RetiredBelow
<1>7. ASSUME NEW h \in Handles, NV_WriteLock(h) \/ NV_ReadLock(h) PROVE RetiredBelow'
  BY <1>7, ZenonT(30) DEF NV_WriteLock, NV_ReadLock, NvWriteIndexAttributes, RetiredBelow
<1>8. ASSUME NV_GlobalWriteLock PROVE RetiredBelow'
  BY <1>8, ZenonT(30) DEF NV_GlobalWriteLock, RetiredBelow
<1>9. ASSUME NEW hierarchy \in {"endorsement", "platform"}, ChangeSeed(hierarchy) PROVE RetiredBelow'
  BY <1>9, ZenonT(30) DEF ChangeSeed, RetiredBelow
<1>10. ASSUME NEW p \in Persistent, NEW hierarchy \in Hierarchies, EvictControl(p, hierarchy) PROVE RetiredBelow'
  BY <1>10, ZenonT(30) DEF EvictControl, RetiredBelow
<1>11. ASSUME NEW type \in {"clear", "state"}, Shutdown(type) \/ Startup(type) PROVE RetiredBelow'
  BY <1>11, ZenonT(30) DEF Shutdown, Startup, RetiredBelow
<1>12. ASSUME PowerOff \/ UNCHANGED vars PROVE RetiredBelow'
  BY <1>12, ZenonT(30) DEF PowerOff, vars, RetiredBelow
<1> QED
  BY <1>2, <1>3, <1>4, <1>5, <1>6, <1>7, <1>8, <1>9, <1>10, <1>11, <1>12, ZenonT(30) DEF Next

LEMMA FirstCount ==
    ASSUME TypeInv, RetiredBelow, [Next]_vars, NEW g \in Handles, Saved(g),
           g \in Counters, g \in Counters', ~Info(g).written, Info(g)'.written
    PROVE  Info(g)'.data > retired
<1>1. g \in Defined /\ Counter(nv[g]) /\ g \in Defined'
  BY ZenonT(30) DEF Counters
<1>2. /\ nv[g].tmpl \in Templates /\ nv[g] \in Admitted(nv[g].tmpl)
      /\ Info(g) \in Admitted(nv[g].tmpl) /\ Info(g).tmpl = nv[g].tmpl
      /\ ~Orderly(g) => Info(g) = nv[g]
  BY <1>1, ListsTyped, InfoTyped, ZenonT(30) DEF TypeInv
<1>3. CASE Same(g)
  BY <1>3, ZenonT(30) DEF Same, Info, Orderly
<1>4. CASE Wrote(g)
  <2>1. PICK d \in Datum(nv[g].tmpl) : Stored(g, d) /\ d = s_maxCounter + 1
    BY <1>1, <1>4, ZenonT(30) DEF Wrote
  <2> DEFINE e == [Info(g) EXCEPT !.written = TRUE, !.data = d]
  <2>2. e.data = d /\ e.tmpl = nv[g].tmpl
    BY <1>2, ZenonT(30) DEF Admitted
  <2> HIDE DEF e
  <2>3. Info(g)' = e
    <3>1. CASE Orderly(g)
      BY <2>1, <3>1, ZenonT(30) DEF Stored, e, Info, Orderly
    <3>2. CASE ~Orderly(g)
      BY <2>1, <2>2, <3>2, ZenonT(30) DEF Stored, e, Info, Orderly
    <3> QED
      BY <3>1, <3>2, ZenonT(30)
  <2>4. s_maxCounter \in Nat /\ retired \in Nat
    BY DEF TypeInv, TypeOK
  <2> QED
    BY <2>1, <2>2, <2>3, <2>4 DEF RetiredBelow
<1>5. CASE Made(g) \/ Gone(g)
  BY <1>1, <1>5, ZenonT(30) DEF Made, Gone
<1>6. CASE Started
  <2>1. PICK type \in {"clear", "state"} : Startup(type)
    BY <1>6, ZenonT(30) DEF Started
  <2>2. nv'[g].tmpl = nv[g].tmpl
    BY <2>1, StartupKeeps, ZenonT(30) DEF KeepsTemplates
  <2>3. (orderlyState # "state") \in BOOLEAN
    BY ZenonT(30)
  <2>4. CASE Orderly(g)
    <3>1. OrderlyCounterAt(g)
      BY <1>1, <2>4, ZenonT(30) DEF OrderlyCounterAt
    <3>2. Info(g) = ram[g] /\ Info(g)' = ram'[g]
      BY <2>2, <2>4, <3>1, ZenonT(30) DEF Info, Orderly
    <3>3. ram'[g].written = backing[g].written
      BY <2>1, <3>1, CounterStarted, ZenonT(30)
    <3>4. backing[g].written = ram[g].written
      BY <3>1, ZenonT(30) DEF Saved
    <3> QED
      BY <3>2, <3>3, <3>4, ZenonT(30)
  <2>5. CASE ~Orderly(g)
    <3>1. Info(g)' = nv'[g]
      BY <2>2, <2>5, ZenonT(30) DEF Info, Orderly
    <3>2. nv'[g] = IF type = "state" THEN nv[g] ELSE NvSetStartupAttributes(nv[g], orderlyState # "state")
      BY <1>1, <2>1, <2>5, StartupOf, ZenonT(30)
    <3>3. NvSetStartupAttributes(nv[g], orderlyState # "state").written = nv[g].written
      BY <1>1, <1>2, <2>3, StartedEntry, ZenonT(30)
    <3> QED
      BY <1>2, <2>5, <3>1, <3>2, <3>3, ZenonT(30)
  <2> QED
    BY <2>4, <2>5, ZenonT(30)
<1> QED
  BY <1>3, <1>4, <1>5, <1>6, StepEffect, ZenonT(30) DEF Effect

-----------------------------------------------------------------------------
(* Orderly shutdown and locks *)

LEMMA RestoreStep ==
    ASSUME TypeInv, NEW g \in Defined, Saved(g), NEW type \in {"clear", "state"}, Startup(type),
           orderlyState # "none", Orderly(g), Counter(nv[g]) \/ type = "state"
    PROVE  ram'[g].data = ram[g].data /\ ram'[g].written = ram[g].written
<1>1. g \in Handles
  BY ZenonT(30) DEF Defined
<1>2. backing[g].data = ram[g].data /\ backing[g].written = ram[g].written
  BY ZenonT(30) DEF Saved
<1>3. CASE type = "state"
  BY <1>2, <1>3, ZenonT(30) DEF Startup
<1>4. CASE type = "clear"
  <2>1. OrderlyCounterAt(g)
    BY <1>4, ZenonT(30) DEF OrderlyCounterAt
  <2>2. ram'[g].written = backing[g].written /\ ram'[g].data = backing[g].data
    BY <1>1, <2>1, CounterStarted, ZenonT(30)
  <2> QED
    BY <1>2, <2>2, ZenonT(30)
<1> QED
  BY <1>3, <1>4, ZenonT(30)

LEMMA LockedStep ==
    ASSUME TypeInv, [Next]_vars, NEW g \in Defined,
           ~Orderly(g), nv[g].tmpl.writedefine, nv[g].written, nv[g].writelocked
    PROVE  g \notin Defined' \/ (nv'[g].data = nv[g].data /\ nv'[g].writelocked)
<1>1. /\ g \in Handles /\ nv[g].tmpl \in Templates /\ Definable(nv[g].tmpl)
      /\ nv[g] \in Admitted(nv[g].tmpl) /\ Info(g) = nv[g]
  BY ListsTyped, InfoTyped, ZenonT(30) DEF TypeInv, Defined
<1>2. CASE Same(g)
  BY <1>2, ZenonT(30) DEF Same
<1>3. CASE Wrote(g) \/ Made(g) \/ Gone(g)
  BY <1>1, <1>3, ZenonT(30) DEF Wrote, Made, Gone
<1>4. CASE Started
  <2>1. PICK type \in {"clear", "state"} : Startup(type)
    BY <1>4, ZenonT(30) DEF Started
  <2>2. nv'[g] = IF type = "state" THEN nv[g] ELSE NvSetStartupAttributes(nv[g], orderlyState # "state")
    BY <1>1, <2>1, StartupOf, ZenonT(30)
  <2>3. ~nv[g].tmpl.clear_stclear /\ ~nv[g].tmpl.orderly
    BY <1>1, ZenonT(30) DEF Definable, Orderly, Attributes
  <2>4. /\ NvSetStartupAttributes(nv[g], orderlyState # "state").data = nv[g].data
        /\ NvSetStartupAttributes(nv[g], orderlyState # "state").writelocked
    BY <1>1, <2>3, ZenonT(30) DEF NvSetStartupAttributes, Admitted
  <2> QED
    BY <2>2, <2>4, ZenonT(30)
<1> QED
  BY <1>1, <1>2, <1>3, <1>4, StepEffect, ZenonT(30) DEF Effect

-----------------------------------------------------------------------------
(* The invariant and the theorems.  The facts on finite sets are brought in  *)
(* only here, so that the proofs above are searched without them.            *)

INSTANCE FiniteSetTheorems

\* A non-empty set of numbers has a least element.
LEMMA Least ==
    ASSUME NEW A \in SUBSET Nat, A # {}
    PROVE  \E n \in A : \A m \in A : n <= m
<1> DEFINE R == {ss \in Nat \X Nat : ss[1] < ss[2]}
<1>1. IsWellFoundedOn(R, Nat)
  BY NatLessThanWellFounded, ZenonT(30) DEF OpToRel
<1>2. \E n \in A : \A m \in A : ~(<<m, n>> \in R)
  <2> HIDE DEF R
  <2> QED BY <1>1, WFMin, ZenonT(30)
<1>3. PICK n \in A : \A m \in A : ~(<<m, n>> \in R)
  BY <1>2, ZenonT(30)
<1>4. ASSUME NEW m \in A PROVE n <= m
  <2>1. <<m, n>> \in Nat \X Nat /\ ~(m < n)
    BY <1>3, ZenonT(30)
  <2> QED BY <2>1
<1> QED BY <1>4, ZenonT(30)

\* A non-empty set of counts has a greatest element.
LEMMA CountsHaveGreatest == GreatestCount
<1> SUFFICES ASSUME NEW S \in SUBSET (0 .. MaxCount), S # {}
             PROVE  Max(S) \in S /\ \A y \in S : Max(S) >= y
  BY ZenonT(30) DEF GreatestCount
<1> DEFINE T == {n \in Nat : \A y \in S : n >= y}
<1>1. T # {} /\ T \in SUBSET Nat
  <2>1. MaxCount \in T
    OBVIOUS
  <2> QED
    BY <2>1, ZenonT(30)
<1>2. PICK x \in T : \A y \in T : x <= y
  <2> HIDE DEF T
  <2> QED
    BY <1>1, Least, ZenonT(30)
<1>3. x \in Nat /\ \A y \in S : x >= y
  BY ZenonT(30)
<1>4. x \in S
  <2> SUFFICES ASSUME x \notin S PROVE FALSE
    BY ZenonT(30)
  <2>1. \A y \in S : y \in Nat /\ y < x
    BY <1>3
  <2>2. x > 0
    <3>1. PICK y \in S : TRUE
      BY ZenonT(30)
    <3> QED
      BY <1>3, <2>1, <3>1
  <2>3. x - 1 \in T
    BY <1>3, <2>1, <2>2
  <2> QED
    BY <1>2, <1>3, <2>3
<1>5. \E m \in S : \A y \in S : m >= y
  BY <1>3, <1>4, ZenonT(30)
<1> QED
  BY <1>5, ZenonT(30) DEF Max

LEMMA NextInv == Inv /\ [Next]_vars => Inv'
<1> SUFFICES ASSUME Inv, [Next]_vars PROVE Inv'
  BY ZenonT(30)
<1>1. TypeInv /\ \A g \in Handles : Saved(g) /\ Clean(g)
  BY ZenonT(30) DEF Inv
<1>2. TypeInv'
  BY <1>1, CountsHaveGreatest, NextTypeInv, ZenonT(30)
<1>3. \A g \in Handles : Saved(g)' /\ Clean(g)'
  BY <1>1, CountsHaveGreatest, NextSaved, NextClean, ZenonT(30)
<1> QED
  BY <1>2, <1>3, ZenonT(30) DEF Inv

LEMMA Invariance == Spec => []Inv
  BY InitInv, NextInv, PTL DEF Spec

\* Every index in NV, in RAM and in the backing store has attributes that
\* NvDefineSpace admits and data of its type, in every state.
THEOREM TypeCorrect == Spec => []TypeOK
<1>1. Inv => TypeOK
  BY ZenonT(30) DEF Inv, TypeInv
<1> QED
  BY <1>1, Invariance, PTL

\* The backing store and RAM list exactly the orderly indices of NV, whatever
\* is defined, deleted and lost with power (NvAddRAM, NvDeleteRAM, UT_ORDERLY).
THEOREM LayoutMatchesHolds == Spec => []LayoutMatches
<1>1. Inv => LayoutMatches
  BY ZenonT(30) DEF Inv, TypeInv, Layout, LayoutMatches, RamTemplate
<1> QED
  BY <1>1, Invariance, PTL

\* A partial write to an ordinary index exposes nothing that was in it before
\* (NvWriteIndexData clears it at its first write), also across power cycles.
THEOREM NoResidueHolds == Spec => []NoResidue
<1>1. Inv => NoResidue
  BY ZenonT(30) DEF Inv, Clean, NoResidue, Defined
<1> QED
  BY <1>1, Invariance, PTL

\* No command and no loss of power makes a counter go back or lose its value
\* while its index exists (TPM2_NV_Increment, NvEntityStartup), whatever the
\* number of low bits that are kept in RAM.
THEOREM CounterMonotoneHolds == Spec => CounterMonotone
<1>1. Inv /\ [Next]_vars =>
        [\A h \in Handles :
           h \in Counters /\ h \in Counters' /\ Info(h).written
             => Info(h)'.written /\ Info(h)'.data >= Info(h).data]_vars
  BY CounterStep, ZenonT(30) DEF Inv
<1> QED
  BY <1>1, Invariance, PTL DEF Spec, CounterMonotone

\* Provided that TPM2_Clear never deletes an orderly counter, the first value of
\* a counter is greater than every value a counter had when it was deleted
\* (NvUpdateMaxCount, NvWriteNvListEnd, NvGetMaxCount), across power cycles.
THEOREM NewCounterAboveDeletedHolds ==
    ASSUME ClearSparesOrderlyCounters PROVE Spec => NewCounterAboveDeleted
<1>1. Init => Inv /\ RetiredBelow
  BY InitInv DEF Init, RetiredBelow
<1>2. Inv /\ RetiredBelow /\ [Next]_vars => (Inv /\ RetiredBelow)'
  <2> SUFFICES ASSUME Inv, RetiredBelow, [Next]_vars PROVE (Inv /\ RetiredBelow)'
    BY ZenonT(30)
  <2>1. TypeInv
    BY ZenonT(30) DEF Inv
  <2>2. RetiredBelow'
    BY <2>1, CountsHaveGreatest, NextRetired, ZenonT(30)
  <2> QED
    BY <2>2, NextInv, ZenonT(30)
<1>3. Inv /\ RetiredBelow /\ [Next]_vars =>
        [\A h \in Handles :
           h \in Counters /\ h \in Counters' /\ ~Info(h).written /\ Info(h)'.written
             => Info(h)'.data > retired]_vars
  BY FirstCount, ZenonT(30) DEF Inv
<1> QED
  BY <1>1, <1>2, <1>3, PTL DEF Spec, NewCounterAboveDeleted

\* After TPM2_Shutdown, an orderly startup finds the orderly counters, and a
\* resume all orderly data, as they were when power went: every write since the
\* shutdown has taken the orderly state back (NvWriteIndexData).
THEOREM OrderlyRestoresHolds == Spec => OrderlyRestores
<1>1. Inv /\ [Next]_vars =>
        [\A h \in Handles, type \in {"clear", "state"} :
           /\ Startup(type) /\ orderlyState # "none"
           /\ h \in Defined /\ Orderly(h) /\ (Counter(nv[h]) \/ type = "state")
           => ram'[h].data = ram[h].data /\ ram'[h].written = ram[h].written]_vars
  BY RestoreStep, ZenonT(30) DEF Inv
<1> QED
  BY <1>1, Invariance, PTL DEF Spec, OrderlyRestores

\* An index in NV with WRITEDEFINE, once written and write-locked, keeps its data
\* and its lock until it is deleted (NvWriteAccessChecks, NvSetStartupAttributes).
THEOREM LockedForGoodHolds == Spec => LockedForGood
<1>1. Inv /\ [Next]_vars =>
        [\A h \in Defined :
           /\ ~Orderly(h) /\ nv[h].tmpl.writedefine /\ nv[h].written /\ nv[h].writelocked
           => h \notin Defined' \/ (nv'[h].data = nv[h].data /\ nv'[h].writelocked)]_vars
  BY LockedStep, ZenonT(30) DEF Inv
<1> QED
  BY <1>1, Invariance, PTL DEF Spec, LockedForGood

-----------------------------------------------------------------------------
(* Sums over finite sets, by induction on their size: a least counterexample *)
(* is led to a contradiction.                                                *)

HIDE NvIndicesAssumption

\* A family of subsets has a member that no longer belongs to it when any one
\* element is taken out.
LEMMA Smallest ==
    ASSUME NEW S, IsFiniteSet(S), NEW B \in SUBSET (SUBSET S), B # {}
    PROVE  \E s \in B : \A x \in s : s \ {x} \notin B
<1>1. ASSUME NEW s \in SUBSET S
      PROVE  /\ IsFiniteSet(s) /\ Cardinality(s) \in Nat
             /\ \A x \in s : Cardinality(s \ {x}) = Cardinality(s) - 1
  BY FS_Subset, FS_CardinalityType, FS_RemoveElement, ZenonT(30)
<1> DEFINE A == {Cardinality(s) : s \in B}
<1>2. A \in SUBSET Nat /\ A # {}
  BY <1>1, ZenonT(30)
<1>3. PICK n \in A : \A m \in A : n <= m
  BY <1>2, Least, ZenonT(30)
<1>4. PICK s \in B : Cardinality(s) = n
  BY <1>3, ZenonT(30)
<1>5. ASSUME NEW x \in s, s \ {x} \in B PROVE FALSE
  <2>1. Cardinality(s \ {x}) = n - 1 /\ Cardinality(s \ {x}) \in A /\ n \in Nat
    BY <1>1, <1>2, <1>4, <1>5, ZenonT(30)
  <2> QED BY <1>3, <2>1
<1> QED BY <1>5, ZenonT(30)

Pick(s) == CHOOSE x \in s : TRUE

\* the recursion behind SumFunctionOnSet, for the subsets in D
Unfolded(f, D, g) == [s \in D |-> IF s = {} THEN 0 ELSE f[Pick(s)] + g[s \ {Pick(s)}]]

Partial(f, S) == CHOOSE g : g = Unfolded(f, SUBSET S, g)

LEMMA SumIsPartial ==
    ASSUME NEW f, NEW S
    PROVE  SumFunctionOnSet(f, S) = Partial(f, S)[S]
BY ZenonT(30) DEF SumFunctionOnSet, FoldFunctionOnSet, MapThenFoldSet, Partial, Unfolded, Pick

LEMMA PickIn == ASSUME NEW s, s # {} PROVE Pick(s) \in s
BY ZenonT(30) DEF Pick

LEMMA PartialExists ==
    ASSUME NEW f, NEW S, IsFiniteSet(S)
    PROVE  \E g : g = Unfolded(f, SUBSET S, g)
<1> DEFINE Upto(n) == {s \in SUBSET S : Cardinality(s) <= n}
           A == {n \in Nat : ~ \E g : g = Unfolded(f, Upto(n), g)}
<1>1. ASSUME NEW s \in SUBSET S, s # {}
      PROVE  /\ s \ {Pick(s)} \in SUBSET S /\ Cardinality(s) \in Nat \ {0}
             /\ Cardinality(s \ {Pick(s)}) = Cardinality(s) - 1
  BY <1>1, PickIn, FS_Subset, FS_CardinalityType, FS_RemoveElement, FS_EmptySet, ZenonT(30)
<1>2. ASSUME A # {} PROVE FALSE
  <2>a. A \in SUBSET Nat
    BY ZenonT(30)
  <2>1. PICK n \in A : \A m \in A : n <= m
    <3> HIDE DEF A
    <3> QED BY <1>2, <2>a, Least, ZenonT(30)
  <2>2. n \in Nat /\ ~ \E g : g = Unfolded(f, Upto(n), g)
    BY ZenonT(30)
  <2>3. CASE n = 0
    <3>1. ASSUME NEW s \in Upto(0), s # {} PROVE FALSE
      <4>1. s \in SUBSET S /\ Cardinality(s) <= 0
        BY ZenonT(30)
      <4>2. Cardinality(s) \in Nat \ {0}
        BY <1>1, <3>1, <4>1, ZenonT(30)
      <4> QED BY <4>1, <4>2
    <3> DEFINE g == [s \in Upto(0) |-> 0]
    <3>2. g = Unfolded(f, Upto(0), g)
      BY <3>1, ZenonT(30) DEF Unfolded
    <3> QED BY <2>2, <2>3, <3>2, ZenonT(30)
  <2>4. CASE n # 0
    <3>1. n - 1 \in Nat /\ n - 1 \notin A
      <4> HIDE DEF A
      <4> QED BY <2>1, <2>2, <2>4
    <3>2. PICK g : g = Unfolded(f, Upto(n - 1), g)
      BY <3>1, ZenonT(30)
    <3> DEFINE k == Unfolded(f, Upto(n), g)
    <3>3. ASSUME NEW s \in Upto(n), s # {} PROVE k[s \ {Pick(s)}] = g[s \ {Pick(s)}]
      <4> DEFINE t == s \ {Pick(s)}
      <4>1. t \in Upto(n - 1) /\ t \in Upto(n)
        BY <1>1, <2>2, <3>3
      <4> HIDE DEF t
      <4>2. k[t] = IF t = {} THEN 0 ELSE f[Pick(t)] + g[t \ {Pick(t)}]
        BY <4>1, ZenonT(30) DEF Unfolded
      <4>3. Unfolded(f, Upto(n - 1), g)[t] = IF t = {} THEN 0 ELSE f[Pick(t)] + g[t \ {Pick(t)}]
        BY <4>1, ZenonT(30) DEF Unfolded
      <4>4. k[t] = g[t]
        BY <3>2, <4>2, <4>3, ZenonT(30)
      <4> QED BY <4>4, ZenonT(30) DEF t
    <3>4. k = Unfolded(f, Upto(n), k)
      <4> HIDE DEF k
      <4>1. \A s \in Upto(n) : (IF s = {} THEN 0 ELSE f[Pick(s)] + g[s \ {Pick(s)}])
                                 = (IF s = {} THEN 0 ELSE f[Pick(s)] + k[s \ {Pick(s)}])
        BY <3>3, ZenonT(30)
      <4>2. Unfolded(f, Upto(n), g) = Unfolded(f, Upto(n), k)
        <5> HIDE DEF Upto
        <5> QED BY <4>1, ZenonT(30) DEF Unfolded
      <4> QED BY <4>2, ZenonT(30) DEF k
    <3> QED BY <2>2, <3>4, ZenonT(30)
  <2> QED BY <2>3, <2>4, ZenonT(30)
<1>3. Cardinality(S) \in Nat /\ Upto(Cardinality(S)) = SUBSET S
  BY FS_CardinalityType, FS_Subset, ZenonT(30)
<1> QED BY <1>2, <1>3, ZenonT(30)

\* P[s] is the sum of f over s, for every subset s of S
Sums(f, S, P) ==
    \A s \in SUBSET S : P[s] = IF s = {} THEN 0 ELSE f[Pick(s)] + P[s \ {Pick(s)}]

LEMMA PartialSums ==
    ASSUME NEW f, NEW S, IsFiniteSet(S)
    PROVE  Sums(f, S, Partial(f, S))
<1>1. Partial(f, S) = Unfolded(f, SUBSET S, Partial(f, S))
  BY PartialExists, ZenonT(30) DEF Partial
<1> DEFINE P == Partial(f, S)
<1> HIDE DEF P
<1>2. P = Unfolded(f, SUBSET S, P)
  BY <1>1, ZenonT(30) DEF P
<1>3. ASSUME NEW s \in SUBSET S
      PROVE  P[s] = IF s = {} THEN 0 ELSE f[Pick(s)] + P[s \ {Pick(s)}]
  <2>1. Unfolded(f, SUBSET S, P)[s] = IF s = {} THEN 0 ELSE f[Pick(s)] + P[s \ {Pick(s)}]
    BY ZenonT(30) DEF Unfolded
  <2> QED BY <1>2, <2>1, ZenonT(30)
<1>4. Sums(f, S, P)
  BY <1>3, ZenonT(30) DEF Sums
<1> QED BY <1>4, ZenonT(30) DEF P

LEMMA PartialNat ==
    ASSUME NEW f, NEW S, IsFiniteSet(S), \A x \in S : f[x] \in Nat
    PROVE  \A s \in SUBSET S : Partial(f, S)[s] \in Nat
<1> DEFINE P == Partial(f, S)
           B == {s \in SUBSET S : P[s] \notin Nat}
<1>1. Sums(f, S, P)
  BY PartialSums, ZenonT(30)
<1> HIDE DEF P
<1>2. ASSUME B # {} PROVE FALSE
  <2>0. B \in SUBSET (SUBSET S)
    BY ZenonT(30)
  <2>1. PICK s \in B : \A x \in s : s \ {x} \notin B
    <3> HIDE DEF B
    <3> QED BY <1>2, <2>0, Smallest, ZenonT(30)
  <2>2. s # {} /\ s \in SUBSET S
    <3>1. s \in SUBSET S /\ P[s] \notin Nat
      BY ZenonT(30)
    <3>2. s = {} => P[s] = 0
      BY <1>1, <3>1, ZenonT(30) DEF Sums
    <3> QED BY <3>1, <3>2
  <2>3. Pick(s) \in s
    BY <2>2, PickIn, ZenonT(30)
  <2>4. P[s \ {Pick(s)}] \in Nat /\ f[Pick(s)] \in Nat
    BY <2>1, <2>2, <2>3, ZenonT(30)
  <2> QED BY <1>1, <2>2, <2>4 DEF Sums
<1> QED BY <1>2, ZenonT(30) DEF P

\* The order does not matter: any element may be added last.
LEMMA PartialRemove ==
    ASSUME NEW f, NEW S, IsFiniteSet(S), \A x \in S : f[x] \in Nat
    PROVE  \A s \in SUBSET S : \A x \in s : Partial(f, S)[s] = f[x] + Partial(f, S)[s \ {x}]
<1> DEFINE P == Partial(f, S)
           B == {s \in SUBSET S : \E x \in s : P[s] # f[x] + P[s \ {x}]}
<1>1. Sums(f, S, P)
  BY PartialSums, ZenonT(30)
<1>2. \A s \in SUBSET S : P[s] \in Nat
  BY PartialNat, ZenonT(30)
<1> HIDE DEF P
<1>3. ASSUME B # {} PROVE FALSE
  <2>0. B \in SUBSET (SUBSET S)
    BY ZenonT(30)
  <2>1. PICK s \in B : \A x \in s : s \ {x} \notin B
    <3> HIDE DEF B
    <3> QED BY <1>3, <2>0, Smallest, ZenonT(30)
  <2>2. PICK x \in s : P[s] # f[x] + P[s \ {x}]
    BY <2>1, ZenonT(30)
  <2> DEFINE c == Pick(s)
  <2>3. s \in SUBSET S /\ c \in s /\ P[s] = f[c] + P[s \ {c}]
    <3>1. s \in SUBSET S /\ s # {}
      BY <2>2, ZenonT(30)
    <3> QED BY <1>1, <3>1, PickIn, ZenonT(30) DEF Sums
  <2> HIDE DEF c
  <2>4. x # c
    BY <2>2, <2>3, ZenonT(30)
  <2>5. P[s \ {c}] = f[x] + P[(s \ {c}) \ {x}]
    BY <2>1, <2>3, <2>4, ZenonT(30)
  <2>6. P[s \ {x}] = f[c] + P[(s \ {x}) \ {c}]
    BY <2>1, <2>3, <2>4, ZenonT(30)
  <2>7. (s \ {c}) \ {x} = (s \ {x}) \ {c} /\ (s \ {c}) \ {x} \in SUBSET S
    BY <2>3, ZenonT(30)
  <2>8. f[x] \in Nat /\ f[c] \in Nat /\ P[(s \ {c}) \ {x}] \in Nat
    BY <1>2, <2>3, <2>7, ZenonT(30)
  <2> DEFINE r == P[(s \ {c}) \ {x}]
  <2>9. P[s] = f[c] + (f[x] + r) /\ P[s \ {x}] = f[c] + r
    BY <2>3, <2>5, <2>6, <2>7, ZenonT(30)
  <2>10. r \in Nat
    BY <2>8, ZenonT(30)
  <2> HIDE DEF r
  <2>11. P[s] = f[x] + P[s \ {x}]
    BY <2>8, <2>9, <2>10
  <2> QED BY <2>2, <2>11, ZenonT(30)
<1> QED BY <1>3, ZenonT(30) DEF P

\* The sum depends on the summands only.
LEMMA PartialSame ==
    ASSUME NEW f, NEW S, IsFiniteSet(S), NEW g, NEW T, IsFiniteSet(T), S \subseteq T,
           \A x \in S : f[x] = g[x]
    PROVE  \A s \in SUBSET S : Partial(f, S)[s] = Partial(g, T)[s]
<1> DEFINE P == Partial(f, S)
           Q == Partial(g, T)
           B == {s \in SUBSET S : P[s] # Q[s]}
<1>1. Sums(f, S, P)
  BY PartialSums, ZenonT(30)
<1> HIDE DEF P
<1>2. Sums(g, T, Q)
  BY PartialSums, ZenonT(30)
<1> HIDE DEF Q
<1>3. ASSUME B # {} PROVE FALSE
  <2>0. B \in SUBSET (SUBSET S)
    BY ZenonT(30)
  <2>1. PICK s \in B : \A x \in s : s \ {x} \notin B
    <3> HIDE DEF B
    <3> QED BY <1>3, <2>0, Smallest, ZenonT(30)
  <2>2. s # {} /\ s \in SUBSET S /\ s \in SUBSET T /\ P[s] # Q[s]
    BY <1>1, <1>2, ZenonT(30) DEF Sums
  <2>3. Pick(s) \in s
    BY <2>2, PickIn, ZenonT(30)
  <2>4. P[s \ {Pick(s)}] = Q[s \ {Pick(s)}] /\ f[Pick(s)] = g[Pick(s)]
    BY <2>1, <2>2, <2>3, ZenonT(30)
  <2> QED BY <1>1, <1>2, <2>2, <2>4, ZenonT(30) DEF Sums
<1> QED BY <1>3, ZenonT(30) DEF P, Q

LEMMA SumSame ==
    ASSUME NEW S, IsFiniteSet(S), NEW f, NEW g, \A x \in S : f[x] = g[x]
    PROVE  SumFunctionOnSet(f, S) = SumFunctionOnSet(g, S)
BY PartialSame, SumIsPartial

LEMMA SumEmpty == ASSUME NEW f PROVE SumFunctionOnSet(f, {}) = 0
BY FS_EmptySet, PartialSums, SumIsPartial, ZenonT(30) DEF Sums

LEMMA SumNat ==
    ASSUME NEW S, IsFiniteSet(S), NEW f, \A x \in S : f[x] \in Nat
    PROVE  SumFunctionOnSet(f, S) \in Nat
BY PartialNat, SumIsPartial, ZenonT(30)

LEMMA SumRemove ==
    ASSUME NEW S, IsFiniteSet(S), NEW f, \A x \in S : f[x] \in Nat, NEW x \in S
    PROVE  SumFunctionOnSet(f, S) = f[x] + SumFunctionOnSet(f, S \ {x})
<1>1. Partial(f, S)[S] = f[x] + Partial(f, S)[S \ {x}]
  BY PartialRemove
<1>2. IsFiniteSet(S \ {x})
  BY FS_RemoveElement, ZenonT(30)
<1>3. Partial(f, S \ {x})[S \ {x}] = Partial(f, S)[S \ {x}]
  BY <1>2, PartialSame
<1> QED BY <1>1, <1>3, SumIsPartial, ZenonT(30)

LEMMA SumSubset ==
    ASSUME NEW S, IsFiniteSet(S), NEW f, \A x \in S : f[x] \in Nat, NEW T \in SUBSET S
    PROVE  SumFunctionOnSet(f, T) <= SumFunctionOnSet(f, S)
<1> DEFINE Sum(s) == SumFunctionOnSet(f, s)
           B == {s \in SUBSET S : T \subseteq s /\ ~(Sum(T) <= Sum(s))}
<1>1. ASSUME NEW s \in SUBSET S
      PROVE  Sum(s) \in Nat /\ \A x \in s : Sum(s) = f[x] + Sum(s \ {x})
  BY FS_Subset, SumNat, SumRemove, ZenonT(30)
<1> HIDE DEF Sum
<1>2. ASSUME B # {} PROVE FALSE
  <2>0. B \in SUBSET (SUBSET S)
    BY ZenonT(30)
  <2>1. PICK s \in B : \A x \in s : s \ {x} \notin B
    <3> HIDE DEF B
    <3> QED BY <1>2, <2>0, Smallest, ZenonT(30)
  <2>2. s \in SUBSET S /\ T \subseteq s /\ s # T /\ ~(Sum(T) <= Sum(s))
    BY <1>1
  <2>3. PICK x \in s : x \notin T
    BY <2>2, ZenonT(30)
  <2>4. Sum(T) <= Sum(s \ {x}) /\ s \ {x} \in SUBSET S
    BY <2>1, <2>2, <2>3, ZenonT(30)
  <2>5. Sum(s) = f[x] + Sum(s \ {x}) /\ f[x] \in Nat /\ Sum(T) \in Nat /\ Sum(s \ {x}) \in Nat
    BY <1>1, <2>2, <2>4, ZenonT(30)
  <2> QED BY <2>2, <2>4, <2>5
<1> QED BY <1>2, ZenonT(30) DEF Sum

-----------------------------------------------------------------------------
USE NvIndicesAssumption

(* Room for persistent objects *)

\* what the indices of D take up in the list n
Space(n, D) == SumFunctionOnSet([h \in D |-> EntrySize(n[h].tmpl)], D)

LEMMA EntrySizeNat == ASSUME NEW t \in Templates PROVE EntrySize(t) \in Nat
  BY DEF EntrySize, Attributes

LEMMA SpaceNat ==
    ASSUME NEW n, NEW D, IsFiniteSet(D), \A h \in D : n[h].tmpl \in Templates
    PROVE  Space(n, D) \in Nat
<1> DEFINE f == [h \in D |-> EntrySize(n[h].tmpl)]
<1>1. \A h \in D : f[h] \in Nat
  BY EntrySizeNat, ZenonT(30)
<1> HIDE DEF f
<1>2. SumFunctionOnSet(f, D) \in Nat
  BY <1>1, SumNat, ZenonT(30)
<1> QED
  BY <1>2, ZenonT(30) DEF Space, f

\* Fewer indices take up less.
LEMMA SpaceLess ==
    ASSUME NEW n, NEW D, IsFiniteSet(D), \A h \in D : n[h].tmpl \in Templates,
           NEW m, NEW T \in SUBSET D, \A h \in T : m[h].tmpl = n[h].tmpl
    PROVE  Space(m, T) <= Space(n, D)
<1> DEFINE f == [h \in D |-> EntrySize(n[h].tmpl)]
           g == [h \in T |-> EntrySize(m[h].tmpl)]
<1>1. \A h \in D : f[h] \in Nat
  BY EntrySizeNat, ZenonT(30)
<1>2. \A h \in T : g[h] = f[h]
  BY ZenonT(30)
<1> HIDE DEF f, g
<1>3. SumFunctionOnSet(f, T) <= SumFunctionOnSet(f, D)
  BY <1>1, SumSubset, ZenonT(30)
<1>4. IsFiniteSet(T)
  BY FS_Subset, ZenonT(30)
<1>5. SumFunctionOnSet(g, T) = SumFunctionOnSet(f, T)
  BY <1>2, <1>4, SumSame, ZenonT(30)
<1> QED
  BY <1>3, <1>5, ZenonT(30) DEF Space, f, g

\* A new index adds its size.
LEMMA SpaceMore ==
    ASSUME NEW n, NEW D, IsFiniteSet(D), \A h \in D : n[h].tmpl \in Templates,
           NEW m, NEW x, x \notin D, m[x].tmpl \in Templates, \A h \in D : m[h].tmpl = n[h].tmpl
    PROVE  Space(m, D \cup {x}) = EntrySize(m[x].tmpl) + Space(n, D)
<1> DEFINE S == D \cup {x}
           f == [h \in D |-> EntrySize(n[h].tmpl)]
           g == [h \in S |-> EntrySize(m[h].tmpl)]
<1>1. \A h \in S : g[h] \in Nat
  BY EntrySizeNat, ZenonT(30)
<1>2. (\A h \in D : g[h] = f[h]) /\ g[x] = EntrySize(m[x].tmpl)
  BY ZenonT(30)
<1>3. IsFiniteSet(S) /\ x \in S /\ S \ {x} = D
  BY FS_AddElement, ZenonT(30)
<1> HIDE DEF f, g, S
<1>4. SumFunctionOnSet(g, S) = g[x] + SumFunctionOnSet(g, D)
  BY <1>1, <1>3, SumRemove, ZenonT(30)
<1>5. SumFunctionOnSet(g, D) = SumFunctionOnSet(f, D)
  BY <1>2, SumSame, ZenonT(30)
<1> QED
  BY <1>2, <1>4, <1>5, ZenonT(30) DEF Space, f, g, S

\* the objects that count: those there are, or those room is kept for
Larger(n) == IF n < MIN_EVICT_OBJECTS THEN MIN_EVICT_OBJECTS ELSE n

\* n objects and indices of size u leave the room that is to be kept.
Room(n, u) == Terminator + EvictSize * Larger(n) + u <= NvSize

LEMMA MissingIsLarger ==
    ASSUME NEW n \in Nat
    PROVE  Missing(MIN_EVICT_OBJECTS, n) * EvictSize + EvictSize * n = EvictSize * Larger(n)
<1>1. CASE n < MIN_EVICT_OBJECTS
  <2> DEFINE k == MIN_EVICT_OBJECTS - n
  <2>1. k \in Nat /\ MIN_EVICT_OBJECTS = k + n
    BY <1>1
  <2>2. Missing(MIN_EVICT_OBJECTS, n) = k /\ Larger(n) = k + n
    BY <1>1, <2>1, ZenonT(30) DEF Missing, Larger
  <2> HIDE DEF k
  <2> QED
    BY <2>1, <2>2
<1>2. CASE ~(n < MIN_EVICT_OBJECTS)
  BY <1>2 DEF Missing, Larger
<1> QED
  BY <1>1, <1>2, ZenonT(30)

LEMMA RoomLess ==
    ASSUME NEW n \in Nat, NEW u \in Nat, Room(n, u),
           NEW m \in Nat, NEW v \in Nat, m <= n, v <= u
    PROVE  Room(m, v)
<1>1. Larger(m) \in Nat /\ Larger(n) \in Nat /\ Larger(m) <= Larger(n)
  BY DEF Larger
<1>2. EvictSize * Larger(m) \in Nat /\ EvictSize * Larger(n) \in Nat
  BY <1>1
<1>3. EvictSize * Larger(m) <= EvictSize * Larger(n)
  BY <1>1
<1> QED
  BY <1>2, <1>3 DEF Room

\* The amounts that RoomForObjects and NvTestSpace compare.
Measured ==
    /\ IsFiniteSet(Defined) /\ \A h \in Defined : nv[h].tmpl \in Templates
    /\ IsFiniteSet(Evicted) /\ Cardinality(Evicted) \in Nat
    /\ Space(nv, Defined) \in Nat
    /\ NvGetFreeBytes = NvSize - Space(nv, Defined) - EvictSize * Cardinality(Evicted)
    /\ RoomForObjects <=> Room(Cardinality(Evicted), Space(nv, Defined))
    /\ Missing(MIN_COUNTER_INDICES, Cardinality(Counters)) * (NvHeader + CounterData) \in Nat

LEMMA Amounts == TypeInv => Measured
<1> SUFFICES ASSUME TypeInv PROVE Measured
  BY ZenonT(30)
<1>1. IsFiniteSet(Defined) /\ IsFiniteSet(Evicted) /\ IsFiniteSet(Counters)
  <2>1. Defined \in SUBSET Handles /\ Evicted \in SUBSET Persistent /\ Counters \in SUBSET Handles
    BY ZenonT(30) DEF Defined, Evicted, Counters
  <2> QED
    BY <2>1, FS_Subset, ZenonT(30)
<1>2. Cardinality(Evicted) \in Nat /\ Cardinality(Counters) \in Nat
  BY <1>1, FS_CardinalityType, ZenonT(30)
<1>3. \A h \in Defined : nv[h].tmpl \in Templates
  BY ListsTyped, InfoTyped, ZenonT(30) DEF TypeInv
<1>4. Space(nv, Defined) \in Nat
  BY <1>1, <1>3, SpaceNat, ZenonT(30)
<1>5. SumFunction([h \in Defined |-> EntrySize(nv[h].tmpl)]) = Space(nv, Defined)
  BY ZenonT(30) DEF SumFunction, Space
<1>6. NvGetFreeBytes = NvSize - Space(nv, Defined) - EvictSize * Cardinality(Evicted)
  BY <1>5, ZenonT(30) DEF NvGetFreeBytes
<1>7. Missing(MIN_COUNTER_INDICES, Cardinality(Counters)) * (NvHeader + CounterData) \in Nat
  <2>1. Missing(MIN_COUNTER_INDICES, Cardinality(Counters)) \in Nat /\ NvHeader + CounterData \in Nat
    BY <1>2 DEF Missing
  <2> QED
    BY <2>1
<1>8. RoomForObjects <=> Room(Cardinality(Evicted), Space(nv, Defined))
  <2> DEFINE n == Cardinality(Evicted)
             a == Missing(MIN_EVICT_OBJECTS, n) * EvictSize
             b == EvictSize * n
             u == Space(nv, Defined)
  <2>1. a + b = EvictSize * Larger(n)
    BY <1>2, MissingIsLarger, ZenonT(30)
  <2>2. a \in Nat /\ b \in Nat /\ u \in Nat
    BY <1>2, <1>4 DEF Missing
  <2>3. RoomForObjects <=> Terminator + a <= NvSize - u - b
    BY <1>6, ZenonT(30) DEF RoomForObjects
  <2>4. Room(n, u) <=> Terminator + (a + b) + u <= NvSize
    BY <2>1, ZenonT(30) DEF Room
  <2> HIDE DEF a, b, u, n
  <2>5. RoomForObjects <=> Room(n, u)
    BY <2>2, <2>3, <2>4
  <2> QED
    BY <2>5, ZenonT(30) DEF n, u
<1> QED
  BY <1>1, <1>2, <1>3, <1>4, <1>6, <1>7, <1>8, ZenonT(30) DEF Measured

LEMMA AmountsAfter == TypeInv' => Measured'
  BY Amounts, PTL

\* Only TPM2_NV_DefineSpace takes up more room with indices.
LEMMA IndicesStep ==
    ASSUME TypeInv, [Next]_vars, ~ \E h \in Handles : \E t \in Templates : NV_DefineSpace(h, t)
    PROVE  Space(nv', Defined') <= Space(nv, Defined)
<1>1. ASSUME NEW g \in Defined' PROVE g \in Defined /\ nv'[g].tmpl = nv[g].tmpl
  <2>1. g \in Handles /\ nv'[g].tmpl # None
    BY <1>1, ZenonT(30) DEF Defined
  <2>2. nv'[g].tmpl = nv[g].tmpl
    <3>1. CASE Same(g)
      BY <3>1, ZenonT(30) DEF Same
    <3>2. CASE Wrote(g)
      <4>1. g \in Defined /\ \E d \in Datum(nv[g].tmpl) : Stored(g, d)
        BY <3>2, ZenonT(30) DEF Wrote
      <4>2. PICK d \in Datum(nv[g].tmpl) : Stored(g, d)
        BY <4>1, ZenonT(30)
      <4>3. Info(g) \in Admitted(nv[g].tmpl) /\ Info(g).tmpl = nv[g].tmpl
        BY <4>1, ListsTyped, InfoTyped, ZenonT(30) DEF TypeInv
      <4>4. [Info(g) EXCEPT !.written = TRUE, !.data = d].tmpl = nv[g].tmpl
        BY <4>3, ZenonT(30) DEF Admitted
      <4> QED
        BY <4>2, <4>4, ZenonT(30) DEF Stored
    <3>3. CASE Made(g)
      BY <2>1, <3>3, ZenonT(30) DEF Made
    <3>4. CASE Gone(g)
      BY <1>1, <3>4, ZenonT(30) DEF Gone
    <3>5. CASE Started
      <4>1. KeepsTemplates
        BY <3>5, StartupKeeps, ZenonT(30) DEF Started
      <4> QED
        BY <2>1, <4>1, ZenonT(30) DEF KeepsTemplates
    <3>6. Effect(g)
      BY <2>1, StepEffect, ZenonT(30)
    <3> QED
      BY <3>1, <3>2, <3>3, <3>4, <3>5, <3>6, ZenonT(30) DEF Effect
  <2> QED
    BY <2>1, <2>2, ZenonT(30) DEF Defined
<1>2. Defined' \in SUBSET Defined
  BY <1>1, ZenonT(30)
<1>3. IsFiniteSet(Defined) /\ \A h \in Defined : nv[h].tmpl \in Templates
  BY Amounts, ZenonT(30) DEF Measured
<1> QED
  BY <1>1, <1>2, <1>3, SpaceLess, ZenonT(30)

\* Only TPM2_EvictControl adds an object, and only one.
LEMMA ObjectsStep ==
    ASSUME TypeInv, [Next]_vars
    PROVE  \/ Evicted' \in SUBSET Evicted
           \/ /\ nv' = nv /\ NvTestSpace(EvictSize, FALSE, FALSE)
              /\ \E p \in Persistent : Evicted' \in SUBSET (Evicted \cup {p})
<1> DEFINE Fewer == Evicted' \in SUBSET Evicted
<1>1. ASSUME evict' = evict PROVE Fewer
  BY <1>1, ZenonT(30) DEF Evicted
<1>2. ASSUME NEW H, FlushObjects(H) PROVE Fewer
  BY <1>2, ZenonT(30) DEF FlushObjects, Evicted
<1> HIDE DEF Fewer
<1>3. ASSUME NEW h \in Handles,
             \/ \E t \in Templates : NV_DefineSpace(h, t)
             \/ NV_UndefineSpace(h)
             \/ \E part \in SUBSET Halves \ {{}}, v \in Values : NV_Write(h, part, v)
             \/ NV_Increment(h)
             \/ NV_Extend(h)
             \/ \E bits \in {0, 1} : NV_SetBits(h, bits)
             \/ NV_WriteLock(h)
             \/ NV_ReadLock(h)
      PROVE  Fewer
  BY <1>1, <1>3, ZenonT(30) DEF NV_DefineSpace, NV_UndefineSpace, NV_Write, NV_Increment, NV_Extend,
                     NV_SetBits, NV_WriteLock, NV_ReadLock, NvWriteIndexAttributes
<1>4. ASSUME NV_GlobalWriteLock \/ PowerOff \/ UNCHANGED vars PROVE Fewer
  BY <1>1, <1>4, ZenonT(30) DEF NV_GlobalWriteLock, PowerOff, vars
<1>5. ASSUME NEW type \in {"clear", "state"}, Shutdown(type) \/ Startup(type) PROVE Fewer
  BY <1>1, <1>5, ZenonT(30) DEF Shutdown, Startup
<1>6. ASSUME Clear \/ \E hierarchy \in {"endorsement", "platform"} : ChangeSeed(hierarchy) PROVE Fewer
  BY <1>2, <1>6, ZenonT(30) DEF Clear, ChangeSeed
<1>7. ASSUME NEW p \in Persistent, NEW hierarchy \in Hierarchies, EvictControl(p, hierarchy)
      PROVE  Fewer \/ (nv' = nv /\ NvTestSpace(EvictSize, FALSE, FALSE) /\ Evicted' \in SUBSET (Evicted \cup {p}))
  <2>1. CASE NvTestSpace(EvictSize, FALSE, FALSE) /\ evict' = [evict EXCEPT ![p] = hierarchy]
    <3>1. nv' = nv
      BY <1>7, ZenonT(30) DEF EvictControl
    <3>2. Evicted' \in SUBSET (Evicted \cup {p})
      BY <2>1 DEF Evicted
    <3> QED
      BY <2>1, <3>1, <3>2, ZenonT(30)
  <2>2. CASE evict' = [evict EXCEPT ![p] = None]
    <3>1. evict \in [Persistent -> Hierarchies \cup {None}]
      BY ZenonT(30) DEF TypeInv, TypeOK
    <3> QED
      BY <2>2, <3>1, ZenonT(30) DEF Evicted, Fewer
  <2> QED
    BY <1>7, <2>1, <2>2, ZenonT(30) DEF EvictControl
<1>8. Fewer \/ \E p \in Persistent : nv' = nv /\ NvTestSpace(EvictSize, FALSE, FALSE) /\ Evicted' \in SUBSET (Evicted \cup {p})
  BY <1>3, <1>4, <1>5, <1>6, <1>7, ZenonT(30) DEF Next
<1> QED
  BY <1>8, ZenonT(30) DEF Fewer

LEMMA DefineRoom ==
    ASSUME TypeInv, TypeInv', NEW h \in Handles, NEW t \in Templates, NV_DefineSpace(h, t)
    PROVE  RoomForObjects'
<1> DEFINE n == Cardinality(Evicted)
           a == Missing(MIN_EVICT_OBJECTS, n) * EvictSize
           b == EvictSize * n
           u == Space(nv, Defined)
           c == IF t.nt = "counter" THEN 0
                ELSE Missing(MIN_COUNTER_INDICES, Cardinality(Counters)) * (NvHeader + CounterData)
<1>1. /\ IsFiniteSet(Defined) /\ \A g \in Defined : nv[g].tmpl \in Templates
      /\ n \in Nat /\ u \in Nat /\ c \in Nat
      /\ NvGetFreeBytes = NvSize - u - b
  BY Amounts, ZenonT(30) DEF Measured
<1>2. a \in Nat /\ b \in Nat
  BY <1>1 DEF Missing
<1>3. EntrySize(t) + Terminator + a + c <= NvSize - u - b
  <2>1. NvTestSpace(EntrySize(t), TRUE, t.nt = "counter")
    BY ZenonT(30) DEF NV_DefineSpace
  <2> QED
    BY <1>1, <2>1, ZenonT(30) DEF NvTestSpace
<1>4. Evicted' = Evicted /\ h \notin Defined
  BY ZenonT(30) DEF NV_DefineSpace, Evicted
<1>5. Defined' = Defined \cup {h}
  BY DefineLists, ZenonT(30)
<1>6. nv'[h].tmpl = t /\ \A g \in Defined : nv'[g].tmpl = nv[g].tmpl
  <2> DEFINE e == [Undefined EXCEPT !.tmpl = t, !.data = Erased(t)]
  <2>1. nv' = [nv EXCEPT ![h] = e]
    BY ZenonT(30) DEF NV_DefineSpace
  <2>2. e.tmpl = t
    BY ZenonT(30) DEF Undefined
  <2> HIDE DEF e
  <2>3. nv \in [Handles -> Entries] /\ \A g \in Defined : g \in Handles /\ g # h
    BY <1>4, ListsTyped, ZenonT(30) DEF Lists, Defined
  <2> QED
    BY <2>1, <2>2, <2>3, ZenonT(30)
<1>7. Space(nv', Defined') = EntrySize(t) + u
  BY <1>1, <1>4, <1>5, <1>6, SpaceMore, ZenonT(30)
<1>8. NvGetFreeBytes' = NvSize - (EntrySize(t) + u) - b
  <2>1. NvGetFreeBytes' = NvSize - Space(nv', Defined') - EvictSize * Cardinality(Evicted')
    BY AmountsAfter, ZenonT(30) DEF Measured
  <2> QED
    BY <1>4, <1>7, <2>1, ZenonT(30)
<1>9. EntrySize(t) \in Nat
  BY EntrySizeNat, ZenonT(30)
<1> HIDE DEF a, b, c, u, n
<1>10. Terminator + a <= NvSize - (EntrySize(t) + u) - b
  BY <1>1, <1>2, <1>3, <1>9
<1>11. RoomForObjects' <=> Terminator + a <= NvGetFreeBytes'
  BY <1>4, ZenonT(30) DEF RoomForObjects, a, n
<1> QED
  BY <1>8, <1>10, <1>11, ZenonT(30)

LEMMA NextRoom ==
    ASSUME TypeInv, TypeInv', RoomForObjects, [Next]_vars
    PROVE  RoomForObjects'
<1>1. CASE \E h \in Handles : \E t \in Templates : NV_DefineSpace(h, t)
  BY <1>1, DefineRoom, ZenonT(30)
<1>2. CASE ~ \E h \in Handles : \E t \in Templates : NV_DefineSpace(h, t)
  <2> DEFINE n == Cardinality(Evicted)
             m == Cardinality(Evicted')
             u == Space(nv, Defined)
             v == Space(nv', Defined')
  <2>1. IsFiniteSet(Evicted) /\ n \in Nat /\ u \in Nat /\ Room(n, u)
    BY Amounts, ZenonT(30) DEF Measured
  <2>2. m \in Nat /\ v \in Nat /\ (RoomForObjects' <=> Room(m, v))
    BY AmountsAfter, ZenonT(30) DEF Measured
  <2>3. v <= u
    BY <1>2, IndicesStep, ZenonT(30)
  <2>4. CASE Evicted' \in SUBSET Evicted
    <3>1. m <= n
      BY <2>1, <2>4, FS_Subset, ZenonT(30)
    <3> HIDE DEF m, n, u, v
    <3> QED
      BY <2>1, <2>2, <2>3, <3>1, RoomLess, ZenonT(30)
  <2>5. CASE /\ nv' = nv /\ NvTestSpace(EvictSize, FALSE, FALSE)
             /\ \E p \in Persistent : Evicted' \in SUBSET (Evicted \cup {p})
    <3>1. m <= n + 1
      <4>1. PICK p \in Persistent : Evicted' \in SUBSET (Evicted \cup {p})
        BY <2>5, ZenonT(30)
      <4>2. IsFiniteSet(Evicted \cup {p}) /\ Cardinality(Evicted \cup {p}) <= n + 1
        <5>1. /\ IsFiniteSet(Evicted \cup {p})
              /\ Cardinality(Evicted \cup {p}) = IF p \in Evicted THEN n ELSE n + 1
          BY <2>1, FS_AddElement, ZenonT(30)
        <5> HIDE DEF n
        <5> QED
          BY <2>1, <5>1
      <4>3. m <= Cardinality(Evicted \cup {p}) /\ Cardinality(Evicted \cup {p}) \in Nat
        BY <4>1, <4>2, FS_Subset, FS_CardinalityType, ZenonT(30)
      <4> QED
        BY <2>1, <2>2, <4>2, <4>3
    <3>2. Room(n + 1, u)
      <4>1. CASE n < MIN_EVICT_OBJECTS
        <5>1. Larger(n + 1) = Larger(n)
          BY <2>1, <4>1 DEF Larger
        <5> QED
          BY <2>1, <5>1, ZenonT(30) DEF Room
      <4>2. CASE ~(n < MIN_EVICT_OBJECTS)
        <5> DEFINE c == Missing(MIN_COUNTER_INDICES, Cardinality(Counters)) * (NvHeader + CounterData)
                   b == EvictSize * n
        <5>1. c \in Nat /\ NvGetFreeBytes = NvSize - u - b
          BY Amounts, ZenonT(30) DEF Measured
        <5>2. EvictSize + Terminator + 0 + c <= NvSize - u - b
          BY <2>5, <5>1, ZenonT(30) DEF NvTestSpace
        <5>3. EvictSize * Larger(n + 1) = EvictSize + b /\ b \in Nat
          BY <2>1, <4>2 DEF Larger
        <5> HIDE DEF b, c, u, n
        <5> QED
          BY <2>1, <5>1, <5>2, <5>3 DEF Room
      <4> QED
        BY <4>1, <4>2, ZenonT(30)
    <3> HIDE DEF m, n, u, v
    <3>3. Room(m, v)
      BY <2>1, <2>2, <2>3, <3>1, <3>2, RoomLess
    <3> QED
      BY <2>2, <3>3, ZenonT(30)
  <2> QED
    BY <2>4, <2>5, ObjectsStep, ZenonT(30)
<1> QED
  BY <1>1, <1>2, ZenonT(30)

\* If the area holds MIN_EVICT_OBJECTS objects and the terminator when it is
\* empty, no command ever leaves less room than the objects still missing need
\* (NvTestSpace in TPM2_NV_DefineSpace and TPM2_EvictControl).
THEOREM RoomForObjectsHolds ==
    ASSUME Terminator + EvictSize * MIN_EVICT_OBJECTS <= NvSize
    PROVE  Spec => []RoomForObjects
<1>1. Init => TypeInv /\ RoomForObjects
  <2> SUFFICES ASSUME Init PROVE RoomForObjects
    BY InitTypeInv, ZenonT(30)
  <2>1. Defined = {} /\ Evicted = {}
    BY ZenonT(30) DEF Init, Defined, Evicted, Undefined
  <2>2. Space(nv, Defined) = 0 /\ Cardinality(Evicted) = 0
    BY <2>1, SumEmpty, FS_EmptySet, ZenonT(30) DEF Space
  <2>3. EvictSize * Larger(0) = EvictSize * MIN_EVICT_OBJECTS
    BY DEF Larger
  <2>4. Room(0, 0)
    BY <2>3 DEF Room
  <2> QED
    BY <2>2, <2>4, InitTypeInv, Amounts, ZenonT(30) DEF Measured
<1>2. TypeInv /\ RoomForObjects /\ [Next]_vars => (TypeInv /\ RoomForObjects)'
  BY CountsHaveGreatest, NextTypeInv, NextRoom, ZenonT(30)
<1> QED
  BY <1>1, <1>2, PTL DEF Spec

=============================================================================
