------------------------- MODULE ActivityIndex_proofs -------------------------
(***************************************************************************)
(* Proofs about ActivityIndex, for every budget, history, number of syncs  *)
(* at once and number of failures and null answers: its types, and that    *)
(* the cursor row never loses sight of an event that is missing, except in *)
(* the two ways GapsAreAhead names.                                        *)
(***************************************************************************)
EXTENDS ActivityIndex, FeeMath_proofs

LEMMA BudgetsAreNat ==
    /\ PageSize \in Nat /\ PageSize >= 1 /\ TopUpPages \in Nat /\ TopUpPages >= 1
    /\ BackfillPages \in Nat /\ BackfillPages >= 1 /\ MaxEntries \in Nat /\ MaxEntries >= 1
    /\ MaxEvents \in Nat /\ MaxEvents >= 1 /\ MaxTxs \in Nat /\ MaxFaults \in Nat
BY IndexAssumption

(***************************************************************************)
(* Finite sets of signatures and of events.                                *)
(***************************************************************************)
LEMMA LeastExists ==
    ASSUME NEW S \in SUBSET Int, IsFiniteSet(S)
    PROVE  S = {} \/ \E m \in S : \A y \in S : m <= y
<1> DEFINE Good == {T \in SUBSET S : T = {} \/ \E m \in T : \A y \in T : m <= y}
<1>1. ASSUME NEW T \in SUBSET S, \A U \in SUBSET T : U # T => U \in Good
      PROVE  T \in Good
  <2>1. CASE T = {}
    BY <2>1
  <2>2. CASE T # {}
    <3>1. PICK x \in T : TRUE
      BY <2>2
    <3>2. T \ {x} \in Good
      BY <1>1, <3>1
    <3>3. CASE T \ {x} = {}
      <4>1. \A y \in T : x <= y
        BY <3>1, <3>3
      <4> QED
        BY <3>1, <4>1
    <3>4. CASE \E m \in T \ {x} : \A y \in T \ {x} : m <= y
      <4>1. PICK m \in T \ {x} : \A y \in T \ {x} : m <= y
        BY <3>4
      <4>2. CASE x <= m
        <5>1. \A y \in T : x <= y
          BY <3>1, <4>1, <4>2
        <5> QED
          BY <3>1, <5>1
      <4>3. CASE ~(x <= m)
        <5>1. \A y \in T : m <= y
          BY <3>1, <4>1, <4>3
        <5> QED
          BY <4>1, <5>1
      <4> QED
        BY <4>2, <4>3
    <3> QED
      BY <3>2, <3>3, <3>4
  <2> QED
    BY <2>1, <2>2
<1>2. S \in Good
  <2> HIDE DEF Good
  <2> QED
    BY <1>1, SetInduction
<1> QED
  BY <1>2

LEMMA MinIsLeast ==
    ASSUME NEW S \in SUBSET Int, IsFiniteSet(S), S # {}
    PROVE  Min(S) \in S /\ \A y \in S : Min(S) <= y
<1>1. \E m \in S : \A y \in S : m <= y
  BY LeastExists
<1> QED
  BY <1>1, Zenon DEF Min

LEMMA MaxIsGreatest ==
    ASSUME NEW S \in SUBSET Int, IsFiniteSet(S), S # {}
    PROVE  Max(S) \in S /\ \A y \in S : Max(S) >= y
<1> DEFINE R == {-x : x \in S}
<1>1. R \in SUBSET Int /\ IsFiniteSet(R) /\ R # {}
  <2>1. [x \in S |-> -x] \in Surjection(S, R)
    BY DEF Surjection
  <2>2. IsFiniteSet(R)
    <3> HIDE DEF R
    <3> QED
      BY <2>1, FS_Surjection
  <2>3. R \in SUBSET Int
    OBVIOUS
  <2>4. R # {}
    <3>1. PICK x \in S : TRUE
      OBVIOUS
    <3>2. -x \in R
      OBVIOUS
    <3> QED
      BY <3>2
  <2> HIDE DEF R
  <2> QED
    BY <2>2, <2>3, <2>4
<1>2. \E m \in R : \A y \in R : m <= y
  <2> HIDE DEF R
  <2> QED
    BY <1>1, LeastExists
<1>3. PICK x \in S : \A y \in R : -x <= y
  BY <1>2
<1>4. \A y \in S : x >= y
  BY <1>3
<1>5. \E m \in S : \A y \in S : m >= y
  BY <1>4
<1> QED
  BY <1>5, Zenon DEF Max

LEMMA EventsAreFinite ==
    ASSUME NEW S, IsFiniteSet(S)
    PROVE  /\ IsFiniteSet(Events(S)) /\ Reported(S) \in Nat
           /\ \A E \in SUBSET Events(S) : IsFiniteSet(E) /\ Cardinality(E) <= Reported(S)
<1>1. IsFiniteSet(1..MaxEvents)
  BY BudgetsAreNat, FS_Interval
<1>2. IsFiniteSet(S \X (1..MaxEvents))
  BY <1>1, FS_Product
<1>3. Events(S) \subseteq S \X (1..MaxEvents)
  BY DEF Events
<1>4. IsFiniteSet(Events(S))
  BY <1>2, <1>3, FS_Subset
<1> QED
  BY <1>4, FS_Subset, FS_CardinalityType DEF Reported

LEMMA MoreEvents ==
    ASSUME NEW S, NEW R, R \subseteq S
    PROVE  Events(R) \subseteq Events(S)
BY DEF Events

(***************************************************************************)
(* A walk.                                                                 *)
(***************************************************************************)
Top(before) == IF before = 0 THEN Len(chain) ELSE before - 1
Reach(top, pages, mute) ==
    {s \in 1..top : top - s < pages * PageSize /\ Reported((s + 1..top) \ mute) < MaxEntries}

\* What a walk reaches is a stretch of history from its top down.
LEMMA ReachIsStretch ==
    ASSUME NEW top \in Nat, NEW pages \in Nat, NEW mute, NEW s \in Reach(top, pages, mute), NEW u \in s..top
    PROVE  u \in Reach(top, pages, mute)
<1> DEFINE below == (s + 1..top) \ mute
           above == (u + 1..top) \ mute
<1>1. s \in Nat /\ u \in Nat /\ u >= s /\ u \in 1..top
  BY DEF Reach
<1>2. IsFiniteSet(below) /\ IsFiniteSet(above) /\ above \subseteq below
  <2>1. IsFiniteSet(s + 1..top) /\ IsFiniteSet(u + 1..top)
    BY <1>1, FS_Interval
  <2>2. above \subseteq below
    BY <1>1
  <2> QED
    BY <2>1, <2>2, FS_Subset
<1>3. Reported(above) <= Reported(below) /\ Reported(above) \in Nat /\ Reported(below) \in Nat
  <2> HIDE DEF above, below
  <2> QED
    BY <1>2, EventsAreFinite, MoreEvents DEF Reported
<1>4. top - u < pages * PageSize
  <2>1. pages * PageSize \in Nat
    BY BudgetsAreNat, ProductIsNat
  <2> QED
    BY <1>1, <2>1 DEF Reach
<1>5. Reported(above) < MaxEntries
  <2>1. Reported(below) < MaxEntries
    BY DEF Reach
  <2> HIDE DEF above, below
  <2> QED
    BY <1>3, <2>1, BudgetsAreNat
<1> QED
  BY <1>1, <1>4, <1>5 DEF Reach

Rows(n) == [tag : {"none", "here", "other"}, newest : 0..n, oldest : 0..n, complete : {"yes", "no"}]
Walks(n) == [ entries : SUBSET Events(1..n), skipped : SUBSET Events(1..n),
              newest : 0..n, oldest : 0..n, known : BOOLEAN, end : BOOLEAN ]

\* What a walk down from top to stop says of the history it covered.
Covers(w, stop, top) ==
    /\ w.oldest = 0 => w.newest = 0 /\ ~w.end
    /\ w.oldest # 0 =>
          /\ w.oldest \in stop + 1..top /\ w.newest <= top
          /\ Events(w.oldest..top) \subseteq w.entries \cup w.skipped
    /\ w.end => Events(1..top) \subseteq w.entries \cup w.skipped
    /\ w.known => w.oldest \in {0, stop + 1} /\ stop >= 1

LEMMA WalkCovers ==
    ASSUME Len(chain) \in Nat, NEW stop \in 0..Len(chain), NEW before \in 0..Len(chain),
           NEW pages \in Nat, NEW mute, NEW top, top = Top(before),
           NEW w, w = Walk(stop, before, pages, mute)
    PROVE  w \in Walks(Len(chain)) /\ Covers(w, stop, top)
<1> DEFINE reach == Reach(top, pages, mute)
           walked == {s \in reach : s > stop}
           oldest == IF walked = {} THEN 0 ELSE Min(walked)
           entries == {e \in Events(walked \ mute) : Cardinality(Ahead(e, top, mute)) < MaxEntries}
           page == {s \in 1..top : (top - s) \div PageSize = (top - oldest) \div PageSize}
           newest == IF entries = {} THEN 0 ELSE Max({e[1] : e \in entries})
           known == stop \in reach
           end == stop \notin reach /\ walked # {} /\ Cardinality(page) < PageSize
           past == walked \cup (IF end THEN 1..oldest - 1 ELSE {})
           skips == Events(past) \ entries
<1>1. w = [ entries |-> entries, skipped |-> skips, newest |-> newest, oldest |-> oldest,
            known |-> known, end |-> end ]
  BY Zenon DEF Walk, Reach, Top
<1>2. top \in Nat /\ top <= Len(chain)
  BY DEF Top
<1>3. walked \in SUBSET (1..top) /\ IsFiniteSet(walked) /\ walked \in SUBSET Int
  <2>1. walked \in SUBSET (1..top)
    BY DEF Reach
  <2>2. IsFiniteSet(1..top) /\ 1..top \subseteq Int
    BY <1>2, FS_Interval
  <2> HIDE DEF walked
  <2> QED
    BY <2>1, <2>2, FS_Subset
<1>4. walked # {} => oldest \in walked /\ \A s \in walked : oldest <= s
  <2> HIDE DEF walked
  <2> QED
    BY <1>3, MinIsLeast
<1>5. oldest \in 0..Len(chain) /\ (walked # {} <=> oldest # 0) /\ (walked # {} => oldest \in stop + 1..top)
  BY <1>2, <1>3, <1>4
<1>6. entries \in SUBSET Events(walked) /\ Events(walked) \subseteq Events(1..top)
      /\ Events(1..top) \subseteq Events(1..Len(chain))
  <2> HIDE DEF walked
  <2>1. walked \ mute \subseteq walked /\ 1..top \subseteq 1..Len(chain)
    BY <1>2
  <2> QED
    BY <1>3, <2>1, MoreEvents
<1>7. newest \in 0..Len(chain) /\ newest <= top /\ (walked = {} => newest = 0)
  <2>1. CASE entries = {}
    BY <1>2, <2>1
  <2>2. CASE entries # {}
    <3>1. PICK E : E = {e[1] : e \in entries}
      OBVIOUS
    <3>2. E \in SUBSET walked /\ E # {}
      BY <1>6, <2>2, <3>1 DEF Events
    <3>3. IsFiniteSet(E) /\ E \in SUBSET Int
      BY <1>3, <3>2, FS_Subset
    <3>4. Max(E) \in walked
      BY <3>2, <3>3, MaxIsGreatest
    <3> QED
      BY <1>2, <1>3, <2>2, <3>1, <3>4
  <2> QED
    BY <2>1, <2>2
<1>8. past \subseteq 1..Len(chain)
  <2> HIDE DEF walked, end, oldest
  <2> QED
    BY <1>2, <1>3, <1>5
<1>9. w \in Walks(Len(chain))
  <2>1. known \in BOOLEAN /\ end \in BOOLEAN
    OBVIOUS
  <2>2. entries \in SUBSET Events(1..Len(chain))
    BY <1>6
  <2>3. skips \in SUBSET Events(1..Len(chain))
    <3> HIDE DEF past, entries
    <3> QED
      BY <1>8, MoreEvents
  <2> HIDE DEF entries, skips, newest, oldest, known, end
  <2> QED
    BY <1>1, <1>5, <1>7, <2>1, <2>2, <2>3 DEF Walks
<1>10. oldest # 0 => oldest..top \subseteq walked
  <2> SUFFICES ASSUME oldest # 0, NEW s \in oldest..top PROVE s \in walked
    OBVIOUS
  <2>1. oldest \in reach /\ oldest > stop /\ oldest \in Nat
    BY <1>3, <1>4, <1>5
  <2> HIDE DEF oldest
  <2>2. s \in reach
    <3> QED
      BY <1>2, <2>1, ReachIsStretch
  <2> QED
    BY <2>1, <2>2
<1>11. oldest # 0 => Events(oldest..top) \subseteq entries \cup skips
  <2> HIDE DEF walked, oldest, entries, end
  <2>1. oldest # 0 => oldest..top \subseteq past
    BY <1>10
  <2> HIDE DEF past
  <2> QED
    BY <2>1, MoreEvents
<1>12. end => Events(1..top) \subseteq entries \cup skips
  <2> SUFFICES ASSUME end PROVE Events(1..top) \subseteq entries \cup skips
    OBVIOUS
  <2>1. oldest # 0 /\ oldest \in Nat
    BY <1>5
  <2> HIDE DEF walked, oldest, entries, end
  <2>2. 1..top \subseteq past
    BY <1>2, <1>10, <2>1
  <2> HIDE DEF past
  <2> QED
    BY <2>2, MoreEvents
<1>13. known => oldest \in {0, stop + 1} /\ stop >= 1
  <2> SUFFICES ASSUME known PROVE oldest \in {0, stop + 1} /\ stop >= 1
    OBVIOUS
  <2>1. stop \in 1..top
    BY DEF Reach
  <2>2. CASE walked = {}
    BY <1>5, <2>1, <2>2
  <2>3. CASE walked # {}
    <3>1. oldest \in stop + 1..top
      BY <1>5, <2>3
    <3>2. stop + 1 \in stop..top
      BY <1>2, <2>1, <3>1
    <3>3. stop + 1 \in reach
      BY <1>2, <3>2, ReachIsStretch
    <3>4. oldest <= stop + 1
      BY <1>4, <2>1, <2>3, <3>3
    <3> QED
      BY <2>1, <3>1, <3>4
  <2> QED
    BY <2>2, <2>3
<1>14. end => oldest # 0
  BY <1>5
<1> HIDE DEF entries, skips, newest, oldest, known, end
<1>15. /\ w.entries = entries /\ w.skipped = skips /\ w.newest = newest /\ w.oldest = oldest
       /\ w.known = known /\ w.end = end
  BY <1>1
<1> QED
  BY <1>5, <1>7, <1>9, <1>11, <1>12, <1>13, <1>14, <1>15 DEF Covers

(***************************************************************************)
(* The rows a step writes.                                                 *)
(***************************************************************************)
\* A transaction is new at the top; what is below it stays as it is.
LEMMA HistoryGrows ==
    ASSUME NEW n \in 0..MaxEvents, chain \in Seq(0..MaxEvents), chain' = Append(chain, n)
    PROVE  /\ Len(chain') = Len(chain) + 1 /\ Len(chain) \in Nat
           /\ \A a, b \in Int : b <= Len(chain) /\ a >= 1 => Events(a..b)' = Events(a..b)
           /\ Rows(Len(chain)) \subseteq Rows(Len(chain'))
           /\ Walks(Len(chain)) \subseteq Walks(Len(chain))'
<1>1. Len(chain') = Len(chain) + 1 /\ Len(chain) \in Nat /\ \A i \in 1..Len(chain) : chain'[i] = chain[i]
  OBVIOUS
<1>2. ASSUME NEW a \in Int, NEW b \in Int, b <= Len(chain), a >= 1 PROVE Events(a..b)' = Events(a..b)
  BY <1>1, <1>2 DEF Events
<1>3. Rows(Len(chain)) \subseteq Rows(Len(chain'))
  BY <1>1 DEF Rows
<1>4. Events(1..Len(chain)) \subseteq Events(1..Len(chain))'
  BY <1>1 DEF Events
<1>5. Walks(Len(chain)) \subseteq Walks(Len(chain))'
  BY <1>1, <1>4 DEF Walks
<1> QED
  BY <1>1, <1>2, <1>3, <1>5

LEMMA TopUpTypes ==
    ASSUME Len(chain) \in Nat, NEW c \in Rows(Len(chain)), NEW w \in Walks(Len(chain)), cursor \in Rows(Len(chain))
    PROVE  Upserted(TopUpUpdate(c, w)) \in Rows(Len(chain))
<1>1. PICK u : u = TopUpUpdate(c, w)
  OBVIOUS
<1>2. u.newest \in 0..Len(chain) /\ u.oldest \in 0..Len(chain) /\ u.complete \in {"yes", "no", "keep"}
  BY <1>1 DEF TopUpUpdate, Rows, Walks
<1> QED
  BY <1>1, <1>2 DEF Upserted, Rows

LEMMA BackfillTypes ==
    ASSUME Len(chain) \in Nat, NEW c \in Rows(Len(chain)), NEW w \in Walks(Len(chain)), cursor \in Rows(Len(chain))
    PROVE  Upserted(BackfillUpdate(c, w)) \in Rows(Len(chain))
<1>1. PICK u : u = BackfillUpdate(c, w)
  OBVIOUS
<1>2. u.newest \in 0..Len(chain) /\ u.oldest \in 0..Len(chain) /\ u.complete \in {"yes", "no", "keep"}
  BY <1>1 DEF BackfillUpdate, Rows, Walks
<1> QED
  BY <1>1, <1>2 DEF Upserted, Rows

(***************************************************************************)
(* Types.                                                                  *)
(***************************************************************************)
Places == {"idle", "drop", "topup", "rows", "cursor", "reread", "backfill", "rows2", "cursor2"}
SyncsAt(n) == [pc : Places, cur : Rows(n), walk : Walks(n)]

\* No row, walk or event is of a signature the Reserve does not have.
IndexOK ==
    /\ chain \in Seq(0..MaxEvents) /\ Len(chain) <= MaxTxs
    /\ log \subseteq Events(1..Len(chain)) /\ skipped \subseteq Events(1..Len(chain))
    /\ cursor \in Rows(Len(chain))
    /\ sync \in [Syncs -> SyncsAt(Len(chain))]
    /\ faults \in 0..MaxFaults /\ overwritten \in BOOLEAN

LEMMA IdleIsSync == ASSUME NEW n \in Nat PROVE Idle \in SyncsAt(n) /\ NoCursor \in Rows(n) /\ NoWalk \in Walks(n)
<1>1. NoCursor \in Rows(n) /\ NoWalk \in Walks(n)
  BY DEF NoCursor, Rows, NoWalk, Walks
<1> QED
  BY <1>1 DEF Idle, SyncsAt, Places

\* A step of one sync that keeps the history.
LEMMA SyncStepKeeps ==
    ASSUME IndexOK, NEW s \in Syncs, NEW r \in SyncsAt(Len(chain)), sync' = [sync EXCEPT ![s] = r],
           chain' = chain, log' \subseteq Events(1..Len(chain)), cursor' \in Rows(Len(chain)),
           faults' \in 0..MaxFaults, skipped' \subseteq Events(1..Len(chain)), overwritten' \in BOOLEAN
    PROVE  IndexOK'
<1>1. Events(1..Len(chain))' = Events(1..Len(chain)) /\ Walks(Len(chain))' = Walks(Len(chain))
  BY DEF Events, Walks
<1>2. SyncsAt(Len(chain))' = SyncsAt(Len(chain))
  BY <1>1 DEF SyncsAt
<1>3. sync' \in [Syncs -> SyncsAt(Len(chain))]
  BY DEF IndexOK
<1> QED
  BY <1>1, <1>2, <1>3 DEF IndexOK

LEMMA ReadsKeepTypes ==
    ASSUME IndexOK, NEW s \in Syncs, ReadCursor(s) \/ DropRow(s) \/ RereadCursor(s)
    PROVE  IndexOK'
<1>1. /\ UNCHANGED <<chain, log, faults, skipped, overwritten>> /\ cursor' \in {cursor, NoCursor}
      /\ Len(chain) \in Nat /\ cursor \in Rows(Len(chain)) /\ sync[s] \in SyncsAt(Len(chain))
  BY DEF ReadCursor, DropRow, RereadCursor, IndexOK
<1>2. /\ Idle \in SyncsAt(Len(chain)) /\ cursor' \in Rows(Len(chain))
      /\ [Idle EXCEPT !.pc = "drop"] \in SyncsAt(Len(chain))
      /\ [Idle EXCEPT !.pc = "topup", !.cur = cursor] \in SyncsAt(Len(chain))
      /\ [Idle EXCEPT !.pc = "backfill", !.cur = cursor] \in SyncsAt(Len(chain))
      /\ [sync[s] EXCEPT !.pc = "topup"] \in SyncsAt(Len(chain))
  BY <1>1, IdleIsSync DEF SyncsAt, Places
<1>3. \E r \in SyncsAt(Len(chain)) : sync' = [sync EXCEPT ![s] = r]
  <2>1. CASE ReadCursor(s)
    BY <1>2, <2>1 DEF ReadCursor
  <2>2. CASE DropRow(s)
    <3>1. PICK r : r = [sync[s] EXCEPT !.pc = "topup"]
      OBVIOUS
    <3>2. sync' = [sync EXCEPT ![s] = r]
      BY <2>2, <3>1 DEF DropRow, Goes, IndexOK
    <3> QED
      BY <1>2, <3>1, <3>2
  <2>3. CASE RereadCursor(s)
    BY <1>2, <2>3 DEF RereadCursor
  <2> QED
    BY <2>1, <2>2, <2>3
<1> QED
  BY <1>1, <1>2, <1>3, SyncStepKeeps DEF IndexOK

\* Null answers stay within the bound on faults.
LEMMA MuteIsBounded ==
    ASSUME IndexOK, NEW mute \in SUBSET (1..Len(chain)), Mute(mute)
    PROVE  faults' \in 0..MaxFaults
<1>1. IsFiniteSet(1..Len(chain))
  BY FS_Interval DEF IndexOK
<1>2. Cardinality(mute) \in Nat
  BY <1>1, FS_Subset, FS_CardinalityType
<1> QED
  BY <1>2, BudgetsAreNat DEF Mute, IndexOK

\* What a walk leaves behind, whatever cursor it starts from.
LEMMA WalkKeepsTypes ==
    ASSUME IndexOK, NEW s \in Syncs, NEW pc \in Places, NEW stop \in 0..Len(chain), NEW before \in 0..Len(chain),
           NEW pages \in Nat, NEW mute \in SUBSET (1..Len(chain)), Mute(mute),
           sync' = [sync EXCEPT ![s].pc = pc, ![s].walk = Walk(stop, before, pages, mute)],
           UNCHANGED <<chain, log, cursor, skipped, overwritten>>
    PROVE  IndexOK'
<1>1. PICK w : w = Walk(stop, before, pages, mute)
  OBVIOUS
<1>2. w \in Walks(Len(chain))
  BY <1>1, WalkCovers DEF IndexOK
<1>3. PICK r : r = [sync[s] EXCEPT !.pc = pc, !.walk = w]
  OBVIOUS
<1>4. r \in SyncsAt(Len(chain))
  BY <1>2, <1>3 DEF IndexOK, SyncsAt
<1>5. sync' = [sync EXCEPT ![s] = r]
  BY <1>1, <1>3 DEF IndexOK
<1>6. faults' \in 0..MaxFaults
  BY MuteIsBounded
<1> QED
  BY <1>4, <1>5, <1>6, SyncStepKeeps DEF IndexOK

LEMMA SavesKeepTypes == ASSUME IndexOK, NEW s \in Syncs, SaveEntries(s) \/ SaveCursor(s) PROVE IndexOK'
<1>0. /\ sync[s] \in SyncsAt(Len(chain)) /\ sync[s].walk \in Walks(Len(chain)) /\ sync[s].cur \in Rows(Len(chain))
      /\ Len(chain) \in Nat /\ cursor \in Rows(Len(chain)) /\ log \subseteq Events(1..Len(chain))
      /\ faults \in 0..MaxFaults /\ skipped \subseteq Events(1..Len(chain)) /\ overwritten \in BOOLEAN
  BY DEF IndexOK, SyncsAt
<1>1. CASE SaveEntries(s)
  <2>1. PICK pc \in {"cursor", "cursor2"} : sync' = [sync EXCEPT ![s].pc = pc]
    BY <1>1 DEF SaveEntries, Goes
  <2>2. PICK r : r = [sync[s] EXCEPT !.pc = pc]
    OBVIOUS
  <2>3. r \in SyncsAt(Len(chain)) /\ sync' = [sync EXCEPT ![s] = r]
    BY <1>0, <2>1, <2>2 DEF SyncsAt, Places, IndexOK
  <2>4. log' \subseteq Events(1..Len(chain))
    BY <1>0, <1>1 DEF SaveEntries, Walks
  <2> QED
    BY <1>0, <1>1, <2>3, <2>4, SyncStepKeeps DEF SaveEntries
<1>2. CASE SaveCursor(s)
  <2>1. UNCHANGED <<chain, log, faults>>
    BY <1>2 DEF SaveCursor
  <2>2. cursor' \in Rows(Len(chain))
    BY <1>0, <1>2, TopUpTypes, BackfillTypes DEF SaveCursor
  <2>3. \E r \in SyncsAt(Len(chain)) : sync' = [sync EXCEPT ![s] = r]
    <3>1. CASE sync' = [sync EXCEPT ![s] = [Idle EXCEPT !.pc = "reread"]]
      <4>1. [Idle EXCEPT !.pc = "reread"] \in SyncsAt(Len(chain))
        BY <1>0, IdleIsSync DEF SyncsAt, Places
      <4> QED
        BY <3>1, <4>1
    <3>2. CASE sync' = [sync EXCEPT ![s] = Idle]
      BY <1>0, <3>2, IdleIsSync
    <3> QED
      BY <1>2, <3>1, <3>2 DEF SaveCursor
  <2>4. skipped' \subseteq Events(1..Len(chain))
    BY <1>0, <1>2 DEF SaveCursor, Walks
  <2>5. overwritten' \in BOOLEAN
    BY <1>2, Zenon DEF SaveCursor
  <2> QED
    BY <1>0, <2>1, <2>2, <2>3, <2>4, <2>5, SyncStepKeeps
<1> QED
  BY <1>1, <1>2

LEMMA FailsKeepTypes == ASSUME IndexOK, NEW s \in Syncs, Fails(s) PROVE IndexOK'
<1>1. /\ sync' = [sync EXCEPT ![s] = Idle] /\ UNCHANGED <<chain, cursor>> /\ faults' \in 0..MaxFaults
      /\ Idle \in SyncsAt(Len(chain)) /\ cursor \in Rows(Len(chain))
      /\ UNCHANGED <<skipped, overwritten>>
  BY IdleIsSync, BudgetsAreNat DEF Fails, Fault, IndexOK
<1>2. log' \subseteq log \cup sync[s].walk.entries
  BY DEF Fails
<1>3. log' \subseteq Events(1..Len(chain))
  BY <1>2 DEF IndexOK, SyncsAt, Walks
<1> QED
  BY <1>1, <1>3, SyncStepKeeps DEF IndexOK

LEMMA NewTransactionKeepsTypes == ASSUME IndexOK, NewTransaction PROVE IndexOK'
<1>1. PICK n \in 0..MaxEvents : chain' = Append(chain, n)
  BY DEF NewTransaction
<1>2. /\ Len(chain') = Len(chain) + 1 /\ Len(chain) \in Nat
      /\ Rows(Len(chain)) \subseteq Rows(Len(chain'))
      /\ Walks(Len(chain)) \subseteq Walks(Len(chain))'
      /\ chain' \in Seq(0..MaxEvents) /\ \A i \in 1..Len(chain) : chain'[i] = chain[i]
  BY <1>1, HistoryGrows DEF IndexOK
<1>3. Len(chain') <= MaxTxs
  BY <1>2, BudgetsAreNat DEF NewTransaction, IndexOK
<1>4. Events(1..Len(chain)) \subseteq Events(1..Len(chain))'
  BY <1>2 DEF Events
<1>5. SyncsAt(Len(chain)) \subseteq SyncsAt(Len(chain))'
  BY <1>2 DEF SyncsAt
<1> QED
  BY <1>2, <1>3, <1>4, <1>5 DEF IndexOK, NewTransaction

LEMMA StepKeepsTypes == ASSUME IndexOK, NEW s \in Syncs, ReadCursor(s) \/ Continue(s) PROVE IndexOK'
<1>1. /\ sync[s].cur.newest \in 0..Len(chain) /\ sync[s].cur.oldest \in 0..Len(chain) /\ 0 \in 0..Len(chain)
      /\ "rows" \in Places /\ "rows2" \in Places
  BY DEF IndexOK, SyncsAt, Rows, Places
<1>2. CASE WalkTopUp(s)
  <2>1. PICK mute \in SUBSET (1..Len(chain)) :
           /\ Mute(mute)
           /\ sync' = [sync EXCEPT ![s].pc = "rows", ![s].walk = Walk(sync[s].cur.newest, 0, TopUpPages, mute)]
    BY <1>2 DEF WalkTopUp
  <2>2. UNCHANGED <<chain, log, cursor, skipped, overwritten>>
    BY <1>2 DEF WalkTopUp
  <2> QED
    BY <1>1, <2>1, <2>2, WalkKeepsTypes, BudgetsAreNat
<1>3. CASE WalkBackfill(s)
  <2>1. PICK mute \in SUBSET (1..Len(chain)) :
           /\ Mute(mute)
           /\ sync' = [sync EXCEPT ![s].pc = "rows2", ![s].walk = Walk(0, sync[s].cur.oldest, BackfillPages, mute)]
    BY <1>3 DEF WalkBackfill
  <2>2. UNCHANGED <<chain, log, cursor, skipped, overwritten>>
    BY <1>3 DEF WalkBackfill
  <2> QED
    BY <1>1, <2>1, <2>2, WalkKeepsTypes, BudgetsAreNat
<1> QED
  BY <1>2, <1>3, ReadsKeepTypes, SavesKeepTypes DEF Continue

LEMMA NextKeepsTypes == IndexOK /\ [Next]_vars => IndexOK'
<1> SUFFICES ASSUME IndexOK, [Next]_vars PROVE IndexOK'
  OBVIOUS
<1>1. CASE UNCHANGED vars
  <2>1. UNCHANGED <<chain, log, cursor, sync, faults, skipped, overwritten>>
    BY <1>1 DEF vars
  <2>2. Events(1..Len(chain))' = Events(1..Len(chain)) /\ Walks(Len(chain))' = Walks(Len(chain))
    BY <2>1 DEF Events, Walks
  <2>3. SyncsAt(Len(chain))' = SyncsAt(Len(chain))
    BY <2>1, <2>2 DEF SyncsAt
  <2> QED
    BY <2>1, <2>2, <2>3 DEF IndexOK
<1> QED
  BY <1>1, NewTransactionKeepsTypes, StepKeepsTypes, FailsKeepTypes DEF Next

LEMMA InitTypes == Init => IndexOK
<1> SUFFICES ASSUME Init PROVE IndexOK
  OBVIOUS
<1>1. chain \in Seq(0..MaxEvents) /\ Len(chain) = 0
  BY DEF Init
<1>2. Idle \in SyncsAt(Len(chain)) /\ cursor \in Rows(Len(chain))
  BY <1>1, IdleIsSync DEF Init, Rows, NoCursor
<1>3. sync \in [Syncs -> SyncsAt(Len(chain))] /\ log = {} /\ skipped = {} /\ faults = 0
  BY <1>2 DEF Init
<1>4. overwritten \in BOOLEAN
  BY Zenon DEF Init
<1> QED
  BY <1>1, <1>2, <1>3, <1>4, BudgetsAreNat DEF IndexOK

LEMMA AlwaysIndexOK == Spec => []IndexOK
BY InitTypes, NextKeepsTypes, PTL DEF Spec

\* Every variable keeps its type, and only events that happened are logged,
\* however many syncs run at once and wherever they fail.
THEOREM IndexTypeCorrect == Spec => []TypeOK
<1>1. IndexOK => TypeOK
  BY BudgetsAreNat DEF IndexOK, TypeOK, Rows, SyncsAt, Walks, Sigs
<1> QED
  BY <1>1, AlwaysIndexOK, PTL

(***************************************************************************)
(* Gaps.                                                                   *)
(***************************************************************************)
\* What of M is at or below the newest signature of a row is ahead of its backfill.
GapsAhead(row, M) ==
    \A e \in M : e[1] <= row.newest => row.complete = "no" /\ (row.oldest = 0 \/ e[1] < row.oldest)

\* What a sync holds, whatever the others have done to the row since it was read.
HoldsWalk(r) ==
    /\ r.cur.tag # "other" /\ (r.cur.tag = "none" => r.cur = NoCursor)
    /\ r.pc \in {"backfill", "rows2", "cursor2"} => r.cur.tag = "here" /\ r.cur.complete = "no"
    /\ r.pc \in {"rows", "cursor"} =>
          \E top \in r.cur.newest..Len(chain) : Covers(r.walk, r.cur.newest, top)
    /\ r.pc \in {"rows2", "cursor2"} =>
          \E top \in 0..Len(chain) :
             /\ IF r.cur.oldest = 0 THEN top >= r.cur.newest ELSE top = r.cur.oldest - 1
             /\ Covers(r.walk, 0, top)
    /\ r.pc \in {"cursor", "cursor2"} => r.walk.entries \subseteq log

RowOK(row) == (row.tag = "none" => row = NoCursor) /\ (row.tag = "other" => row.complete = "yes")

GapInv == RowOK(cursor) /\ (\A s \in Syncs : HoldsWalk(sync[s])) /\ GapsAreAhead

\* A saved walk has indexed or gone past all it covered.
LEMMA WalkAccounts ==
    ASSUME NEW w, NEW stop \in Nat, NEW top \in Nat, Covers(w, stop, top), w.entries \subseteq log,
           NEW e \in Events(1..top), e \notin log, e \notin w.skipped
    PROVE  ~w.end /\ (w.oldest # 0 => e[1] < w.oldest)
<1>1. ~w.end
  BY DEF Covers
<1>2. ASSUME w.oldest # 0, ~(e[1] < w.oldest) PROVE FALSE
  <2>1. w.oldest \in stop + 1..top /\ e[1] \in 1..top
    BY <1>2 DEF Covers, Events
  <2>2. e \in Events(w.oldest..top)
    BY <1>2, <2>1 DEF Events
  <2> QED
    BY <1>2, <2>2 DEF Covers
<1> QED
  BY <1>1, <1>2

LEMMA TopUpLeavesGapsAhead ==
    ASSUME IndexOK, RowOK(cursor), cursor.tag # "other",
           NEW w \in Walks(Len(chain)), w.entries \subseteq log,
           NEW M \in SUBSET (Events(1..Len(chain)) \ log), M \cap w.skipped = {}, GapsAhead(cursor, M),
           NEW top \in cursor.newest..Len(chain), Covers(w, cursor.newest, top),
           NEW row, row = Upserted(TopUpUpdate(cursor, w))
    PROVE  GapsAhead(row, M)
<1>1. /\ Len(chain) \in Nat /\ cursor.newest \in Nat /\ cursor.oldest \in Nat /\ top \in Nat /\ top >= cursor.newest
      /\ top <= Len(chain) /\ w.oldest \in Nat /\ w.newest \in Nat
  BY DEF IndexOK, Rows, Walks
<1>2. PICK u : u = TopUpUpdate(cursor, w)
  OBVIOUS
<1>3. /\ row.newest = IF u.newest # 0 THEN u.newest ELSE cursor.newest
      /\ row.oldest = IF u.oldest # 0 THEN u.oldest ELSE cursor.oldest
      /\ row.complete = IF u.complete # "keep" THEN u.complete ELSE cursor.complete
  BY <1>2 DEF Upserted
<1>4. u.newest = IF w.newest # 0 THEN w.newest ELSE cursor.newest
  BY <1>2 DEF TopUpUpdate
<1>5. row.newest \in Nat /\ row.newest <= top /\ (w.oldest = 0 => row.newest = cursor.newest)
  BY <1>1, <1>3, <1>4 DEF Covers
<1>6. cursor = NoCursor => cursor.newest = 0 /\ cursor.oldest = 0 /\ cursor.complete = "no"
  BY DEF NoCursor
<1> SUFFICES ASSUME NEW e \in M, e[1] <= row.newest
             PROVE  row.complete = "no" /\ (row.oldest = 0 \/ e[1] < row.oldest)
  BY DEF GapsAhead
<1>7. PICK s \in Nat : s = e[1] /\ s >= 1 /\ s <= top
  BY <1>1, <1>5 DEF Events
<1>8. ~w.end /\ (w.oldest # 0 => s < w.oldest)
  <2>1. e \in Events(1..top) /\ e \notin log /\ e \notin w.skipped
    BY <1>1, <1>7 DEF Events
  <2> QED
    BY <1>1, <1>7, <2>1, WalkAccounts
<1>9. s <= cursor.newest => cursor.complete = "no" /\ (cursor.oldest = 0 \/ s < cursor.oldest)
  BY <1>7 DEF GapsAhead
<1>10. CASE w.oldest = 0
  <2>1. u.oldest = 0 /\ u.complete = "keep"
    BY <1>2, <1>8, <1>10 DEF TopUpUpdate
  <2> QED
    BY <1>3, <1>5, <1>7, <1>9, <1>10, <2>1
<1>11. CASE w.oldest # 0 /\ cursor = NoCursor
  <2>1. u.oldest = w.oldest /\ u.complete = "keep"
    BY <1>2, <1>8, <1>11 DEF TopUpUpdate
  <2> QED
    BY <1>3, <1>6, <1>7, <1>8, <1>11, <2>1
<1>12. CASE w.oldest # 0 /\ cursor # NoCursor /\ ~w.known
  <2>1. u.oldest = w.oldest /\ u.complete = "no"
    BY <1>2, <1>8, <1>12 DEF TopUpUpdate
  <2> QED
    BY <1>3, <1>7, <1>8, <1>12, <2>1
<1>13. CASE w.oldest # 0 /\ cursor # NoCursor /\ w.known
  <2>1. u.oldest = 0 /\ u.complete = "keep"
    BY <1>2, <1>8, <1>13 DEF TopUpUpdate
  <2>2. w.oldest = cursor.newest + 1
    BY <1>13 DEF Covers
  <2>3. s <= cursor.newest
    BY <1>1, <1>7, <1>8, <1>13, <2>2
  <2> QED
    BY <1>3, <1>7, <1>9, <2>1, <2>3
<1> QED
  BY <1>10, <1>11, <1>12, <1>13

LEMMA BackfillLeavesGapsAhead ==
    ASSUME IndexOK, cursor.tag = "here", cursor.complete = "no",
           NEW w \in Walks(Len(chain)), w.entries \subseteq log,
           NEW M \in SUBSET (Events(1..Len(chain)) \ log), M \cap w.skipped = {}, GapsAhead(cursor, M),
           NEW top \in 0..Len(chain), Covers(w, 0, top),
           IF cursor.oldest = 0 THEN top >= cursor.newest ELSE top = cursor.oldest - 1,
           NEW row, row = Upserted(BackfillUpdate(cursor, w))
    PROVE  GapsAhead(row, M)
<1>1. /\ Len(chain) \in Nat /\ cursor.newest \in Nat /\ cursor.oldest \in Nat /\ top \in Nat /\ 0 \in Nat
      /\ w.oldest \in Nat /\ w.newest \in Nat
  BY DEF IndexOK, Rows, Walks
<1>2. /\ row.newest = cursor.newest
      /\ row.oldest = IF w.oldest # 0 THEN w.oldest ELSE cursor.oldest
      /\ row.complete = IF w.end THEN "yes" ELSE "no"
  BY DEF Upserted, BackfillUpdate
<1> SUFFICES ASSUME NEW e \in M, e[1] <= cursor.newest
             PROVE  row.complete = "no" /\ (row.oldest = 0 \/ e[1] < row.oldest)
  BY <1>2 DEF GapsAhead
<1>3. PICK s \in Nat : s = e[1] /\ s >= 1
  BY <1>1 DEF Events
<1>4. cursor.oldest = 0 \/ s < cursor.oldest
  BY <1>3 DEF GapsAhead
<1>5. s <= top
  BY <1>1, <1>3, <1>4
<1>6. ~w.end /\ (w.oldest # 0 => s < w.oldest)
  <2>1. e \in Events(1..top) /\ e \notin log /\ e \notin w.skipped
    BY <1>1, <1>3, <1>5 DEF Events
  <2> QED
    BY <1>1, <1>3, <2>1, WalkAccounts
<1> QED
  BY <1>2, <1>3, <1>4, <1>6

\* A step of one sync that keeps the history disturbs no other sync's walk.
LEMMA GapStep ==
    ASSUME IndexOK, GapInv, NEW s \in Syncs, NEW r, sync' = [sync EXCEPT ![s] = r],
           chain' = chain, log \subseteq log', HoldsWalk(r)', RowOK(cursor'), GapsAreAhead'
    PROVE  GapInv'
<1>1. \A w, stop, top : Covers(w, stop, top)' = Covers(w, stop, top)
  BY DEF Covers, Events
<1>2. ASSUME NEW t \in Syncs PROVE HoldsWalk(sync[t])'
  <2>1. CASE t = s
    BY <2>1 DEF IndexOK, HoldsWalk
  <2>2. CASE t # s
    <3>1. PICK q : q = sync[t]
      OBVIOUS
    <3>2. HoldsWalk(q) /\ sync'[t] = q
      BY <2>2, <3>1 DEF GapInv, IndexOK
    <3>3. HoldsWalk(q)'
      BY <1>1, <3>2 DEF HoldsWalk
    <3> QED
      BY <3>2, <3>3 DEF HoldsWalk
  <2> QED
    BY <2>1, <2>2
<1>3. \A t \in Syncs : HoldsWalk(sync[t])'
  BY <1>2
<1> QED
  BY <1>3 DEF GapInv, RowOK

\* The row stays, and nothing that was indexed or accounted for comes back.
LEMMA GapsStay ==
    ASSUME GapsAreAhead, UNCHANGED <<chain, cursor, skipped, overwritten>>, log \subseteq log'
    PROVE  GapsAreAhead'
BY DEF GapsAreAhead, Missing, Events

LEMMA IdleHolds == HoldsWalk(Idle) /\ HoldsWalk([Idle EXCEPT !.pc = "drop"])
                   /\ HoldsWalk([Idle EXCEPT !.pc = "reread"])
BY DEF HoldsWalk, Idle, NoCursor

LEMMA ReadKeepsGaps == ASSUME IndexOK, GapInv, NEW s \in Syncs, ReadCursor(s) PROVE GapInv'
<1>1. PICK r : r = IF cursor.tag = "other" THEN [Idle EXCEPT !.pc = "drop"]
                   ELSE [Idle EXCEPT !.pc = "topup", !.cur = cursor]
  OBVIOUS
<1>2. sync' = [sync EXCEPT ![s] = r] /\ UNCHANGED <<chain, log, cursor, skipped, overwritten>>
  BY <1>1 DEF ReadCursor
<1>3. HoldsWalk(r)
  <2>1. CASE cursor.tag = "other"
    BY <1>1, <2>1, IdleHolds
  <2>2. CASE cursor.tag # "other"
    <3>1. r.pc = "topup" /\ r.cur = cursor
      BY <1>1, <2>2 DEF Idle
    <3> QED
      BY <2>2, <3>1 DEF HoldsWalk, GapInv, RowOK
  <2> QED
    BY <2>1, <2>2
<1>4. HoldsWalk(r)'
  BY <1>2, <1>3 DEF HoldsWalk, Covers, Events
<1>5. GapsAreAhead' /\ RowOK(cursor')
  BY <1>2, GapsStay DEF GapInv
<1> QED
  BY <1>2, <1>4, <1>5, GapStep

LEMMA RereadKeepsGaps == ASSUME IndexOK, GapInv, NEW s \in Syncs, RereadCursor(s) PROVE GapInv'
<1>1. PICK r : r = IF cursor = NoCursor \/ cursor.complete = "yes" THEN Idle
                   ELSE [Idle EXCEPT !.pc = "backfill", !.cur = cursor]
  OBVIOUS
<1>2. sync' = [sync EXCEPT ![s] = r] /\ UNCHANGED <<chain, log, cursor, skipped, overwritten>>
  BY <1>1 DEF RereadCursor
<1>3. HoldsWalk(r)
  <2>1. CASE cursor = NoCursor \/ cursor.complete = "yes"
    BY <1>1, <2>1, IdleHolds
  <2>2. CASE ~(cursor = NoCursor \/ cursor.complete = "yes")
    <3>1. r.pc = "backfill" /\ r.cur = cursor
      BY <1>1, <2>2 DEF Idle
    <3>2. cursor.tag = "here" /\ cursor.complete = "no"
      BY <2>2 DEF GapInv, RowOK, IndexOK, Rows
    <3> QED
      BY <3>1, <3>2 DEF HoldsWalk
  <2> QED
    BY <2>1, <2>2
<1>4. HoldsWalk(r)'
  BY <1>2, <1>3 DEF HoldsWalk, Covers, Events
<1>5. GapsAreAhead' /\ RowOK(cursor')
  BY <1>2, GapsStay DEF GapInv
<1> QED
  BY <1>2, <1>4, <1>5, GapStep

LEMMA DropKeepsGaps == ASSUME IndexOK, GapInv, NEW s \in Syncs, DropRow(s) PROVE GapInv'
<1>1. PICK old : old = sync[s]
  OBVIOUS
<1>2. PICK r : r = [old EXCEPT !.pc = "topup"]
  OBVIOUS
<1>3. /\ sync' = [sync EXCEPT ![s] = r] /\ r.pc = "topup" /\ r.cur = old.cur /\ HoldsWalk(old)
      /\ UNCHANGED <<chain, log>> /\ cursor' = NoCursor
  BY <1>1, <1>2 DEF DropRow, Goes, IndexOK, SyncsAt, GapInv
<1>4. HoldsWalk(r)'
  BY <1>3 DEF HoldsWalk
<1>5. RowOK(cursor') /\ GapsAreAhead'
  BY <1>3 DEF RowOK, GapsAreAhead, NoCursor
<1> QED
  BY <1>3, <1>4, <1>5, GapStep

LEMMA TopUpWalkKeepsGaps == ASSUME IndexOK, GapInv, NEW s \in Syncs, WalkTopUp(s) PROVE GapInv'
<1>1. PICK old : old = sync[s]
  OBVIOUS
<1>2. PICK cur : cur = old.cur
  OBVIOUS
<1>3. /\ old.pc = "topup" /\ HoldsWalk(old) /\ UNCHANGED <<chain, log, cursor, skipped, overwritten>>
      /\ cur.newest \in 0..Len(chain) /\ Len(chain) \in Nat /\ old \in SyncsAt(Len(chain))
  BY <1>1, <1>2 DEF WalkTopUp, GapInv, IndexOK, SyncsAt, Rows
<1>4. PICK mute : sync' = [sync EXCEPT ![s].pc = "rows", ![s].walk = Walk(cur.newest, 0, TopUpPages, mute)]
  BY <1>1, <1>2 DEF WalkTopUp
<1>5. PICK w : w = Walk(cur.newest, 0, TopUpPages, mute)
  OBVIOUS
<1>6. Covers(w, cur.newest, Len(chain))
  <2>1. PICK top : top = Top(0)
    OBVIOUS
  <2>2. Covers(w, cur.newest, top)
    BY <1>3, <1>5, <2>1, WalkCovers, BudgetsAreNat
  <2> QED
    BY <2>1, <2>2 DEF Top
<1>7. PICK r : r = [old EXCEPT !.pc = "rows", !.walk = w]
  OBVIOUS
<1>8. sync' = [sync EXCEPT ![s] = r] /\ r.pc = "rows" /\ r.walk = w /\ r.cur = cur
  BY <1>1, <1>2, <1>3, <1>4, <1>5, <1>7 DEF IndexOK, SyncsAt
<1>9. HoldsWalk(r)'
  BY <1>2, <1>3, <1>6, <1>8 DEF HoldsWalk, Covers, Events
<1>10. GapsAreAhead' /\ RowOK(cursor')
  BY <1>3, GapsStay DEF GapInv
<1> QED
  BY <1>3, <1>8, <1>9, <1>10, GapStep

LEMMA BackfillWalkKeepsGaps == ASSUME IndexOK, GapInv, NEW s \in Syncs, WalkBackfill(s) PROVE GapInv'
<1>1. PICK old : old = sync[s]
  OBVIOUS
<1>2. PICK cur : cur = old.cur
  OBVIOUS
<1>3. /\ old.pc = "backfill" /\ HoldsWalk(old) /\ UNCHANGED <<chain, log, cursor, skipped, overwritten>>
      /\ cur.newest \in 0..Len(chain) /\ cur.oldest \in 0..Len(chain) /\ Len(chain) \in Nat
      /\ old \in SyncsAt(Len(chain))
  BY <1>1, <1>2 DEF WalkBackfill, GapInv, IndexOK, SyncsAt, Rows
<1>4. PICK mute : sync' = [sync EXCEPT ![s].pc = "rows2", ![s].walk = Walk(0, cur.oldest, BackfillPages, mute)]
  BY <1>1, <1>2 DEF WalkBackfill
<1>5. PICK w : w = Walk(0, cur.oldest, BackfillPages, mute)
  OBVIOUS
<1>6. PICK top : top = Top(cur.oldest)
  OBVIOUS
<1>7. Covers(w, 0, top)
  BY <1>3, <1>5, <1>6, WalkCovers, BudgetsAreNat
<1>8. top \in 0..Len(chain) /\ IF cur.oldest = 0 THEN top >= cur.newest ELSE top = cur.oldest - 1
  BY <1>3, <1>6 DEF Top
<1>9. PICK r : r = [old EXCEPT !.pc = "rows2", !.walk = w]
  OBVIOUS
<1>10. sync' = [sync EXCEPT ![s] = r] /\ r.pc = "rows2" /\ r.walk = w /\ r.cur = cur
  BY <1>1, <1>2, <1>3, <1>4, <1>5, <1>9 DEF IndexOK, SyncsAt
<1>11. HoldsWalk(r)'
  BY <1>2, <1>3, <1>7, <1>8, <1>10 DEF HoldsWalk, Covers, Events
<1>12. GapsAreAhead' /\ RowOK(cursor')
  BY <1>3, GapsStay DEF GapInv
<1> QED
  BY <1>3, <1>10, <1>11, <1>12, GapStep

LEMMA EntriesKeepGaps == ASSUME IndexOK, GapInv, NEW s \in Syncs, SaveEntries(s) PROVE GapInv'
<1>1. PICK old : old = sync[s]
  OBVIOUS
<1>2. /\ old.pc \in {"rows", "rows2"} /\ log' = log \cup old.walk.entries
      /\ UNCHANGED <<chain, cursor, skipped, overwritten>> /\ HoldsWalk(old)
  BY <1>1 DEF SaveEntries, GapInv
<1>3. PICK r : r = [old EXCEPT !.pc = IF old.pc = "rows" THEN "cursor" ELSE "cursor2"]
  OBVIOUS
<1>4. /\ sync' = [sync EXCEPT ![s] = r]
      /\ r.pc = (IF old.pc = "rows" THEN "cursor" ELSE "cursor2") /\ r.walk = old.walk /\ r.cur = old.cur
  BY <1>1, <1>3 DEF SaveEntries, Goes, IndexOK, SyncsAt
<1>5. HoldsWalk(r)'
  BY <1>2, <1>4 DEF HoldsWalk, Covers, Events
<1>6. GapsAreAhead' /\ RowOK(cursor') /\ log \subseteq log'
  BY <1>2, GapsStay DEF GapInv
<1> QED
  BY <1>2, <1>4, <1>5, <1>6, GapStep

\* A row saved over the one its sync read keeps sight of what the walk did not
\* go past; a row saved over any other is an overwrite.
LEMMA SaveLeavesGapsAhead ==
    ASSUME IndexOK, GapInv, NEW s \in Syncs, SaveCursor(s), ~overwritten, cursor = sync[s].cur
    PROVE  GapsAhead(cursor', Missing \ (skipped \cup sync[s].walk.skipped))
<1>1. PICK old : old = sync[s]
  OBVIOUS
<1>2. PICK w : w = old.walk
  OBVIOUS
<1>3. PICK M : M = Missing \ (skipped \cup w.skipped)
  OBVIOUS
<1>4. PICK row : row = cursor'
  OBVIOUS
<1>5. /\ old.pc \in {"cursor", "cursor2"} /\ HoldsWalk(old) /\ old.cur = cursor
      /\ w \in Walks(Len(chain)) /\ RowOK(cursor) /\ cursor.tag # "other" /\ w.entries \subseteq log
  BY <1>1, <1>2 DEF SaveCursor, GapInv, IndexOK, SyncsAt, HoldsWalk
<1>6. M \in SUBSET (Events(1..Len(chain)) \ log) /\ M \cap w.skipped = {}
  BY <1>3 DEF Missing
<1>7. GapsAhead(cursor, M)
  <2>1. CASE cursor.tag = "here"
    BY <1>3, <2>1 DEF GapInv, GapsAreAhead, GapsAhead
  <2>2. CASE cursor.tag = "none"
    <3>1. cursor.newest = 0
      BY <1>5, <2>2 DEF RowOK, NoCursor
    <3>2. \A e \in M : e[1] \in 1..Len(chain)
      BY <1>6 DEF Events
    <3> QED
      BY <3>1, <3>2 DEF GapsAhead, IndexOK
  <2> QED
    BY <1>5, <2>1, <2>2 DEF IndexOK, Rows
<1>8. CASE old.pc = "cursor"
  <2>1. PICK top \in cursor.newest..Len(chain) : Covers(w, cursor.newest, top)
    BY <1>2, <1>5, <1>8 DEF HoldsWalk
  <2>2. row = Upserted(TopUpUpdate(cursor, w))
    BY <1>1, <1>2, <1>4, <1>5, <1>8 DEF SaveCursor
  <2>3. GapsAhead(row, M)
    BY <1>5, <1>6, <1>7, <2>1, <2>2, TopUpLeavesGapsAhead
  <2> QED
    BY <1>1, <1>2, <1>3, <1>4, <2>3
<1>9. CASE old.pc = "cursor2"
  <2>1. PICK top \in 0..Len(chain) :
           /\ IF cursor.oldest = 0 THEN top >= cursor.newest ELSE top = cursor.oldest - 1
           /\ Covers(w, 0, top)
    BY <1>2, <1>5, <1>9 DEF HoldsWalk
  <2>2. row = Upserted(BackfillUpdate(cursor, w)) /\ cursor.tag = "here" /\ cursor.complete = "no"
    BY <1>1, <1>2, <1>4, <1>5, <1>9 DEF SaveCursor, HoldsWalk
  <2>3. GapsAhead(row, M)
    BY <1>5, <1>6, <1>7, <2>1, <2>2, BackfillLeavesGapsAhead
  <2> QED
    BY <1>1, <1>2, <1>3, <1>4, <2>3
<1> QED
  BY <1>5, <1>8, <1>9

LEMMA CursorKeepsGaps == ASSUME IndexOK, GapInv, NEW s \in Syncs, SaveCursor(s) PROVE GapInv'
<1>1. UNCHANGED <<chain, log>> /\ skipped' = (skipped \cup sync[s].walk.skipped) \ log
  BY DEF SaveCursor
<1>2. overwritten' = (overwritten \/ cursor # sync[s].cur)
  BY DEF SaveCursor
<1>3. cursor'.tag = "here"
  BY DEF SaveCursor, Upserted
<1>4. RowOK(cursor')
  BY <1>3 DEF RowOK
<1>5. Missing' \ skipped' = Missing \ (skipped \cup sync[s].walk.skipped)
  BY <1>1 DEF Missing, Events
<1>6. ~overwritten' => GapsAhead(cursor', Missing' \ skipped')
  BY <1>2, <1>5, SaveLeavesGapsAhead, Zenon
<1>7. GapsAreAhead'
  BY <1>6 DEF GapsAhead, GapsAreAhead
<1>8. \E r \in {Idle, [Idle EXCEPT !.pc = "reread"]} : sync' = [sync EXCEPT ![s] = r]
  BY DEF SaveCursor
<1>9. PICK r \in {Idle, [Idle EXCEPT !.pc = "reread"]} : sync' = [sync EXCEPT ![s] = r]
  BY <1>8
<1>10. HoldsWalk(r)'
  BY <1>9 DEF HoldsWalk, Idle, NoCursor
<1> QED
  BY <1>1, <1>4, <1>7, <1>9, <1>10, GapStep

LEMMA FailsKeepGaps == ASSUME IndexOK, GapInv, NEW s \in Syncs, Fails(s) PROVE GapInv'
<1>1. UNCHANGED <<chain, cursor, skipped, overwritten>> /\ log \subseteq log' /\ sync' = [sync EXCEPT ![s] = Idle]
  BY DEF Fails
<1>2. PICK r : r = Idle
  OBVIOUS
<1>3. HoldsWalk(r)'
  BY <1>2 DEF HoldsWalk, Idle, NoCursor
<1>4. GapsAreAhead' /\ RowOK(cursor')
  BY <1>1, GapsStay DEF GapInv
<1> QED
  BY <1>1, <1>2, <1>3, <1>4, GapStep

LEMMA HistoryKeepsGaps == ASSUME IndexOK, GapInv, NewTransaction PROVE GapInv'
<1>1. PICK n \in 0..MaxEvents : chain' = Append(chain, n)
  BY DEF NewTransaction
<1>2. /\ Len(chain') = Len(chain) + 1 /\ Len(chain) \in Nat
      /\ UNCHANGED <<log, cursor, sync, skipped, overwritten>>
      /\ \A a, b \in Int : b <= Len(chain) /\ a >= 1 => Events(a..b)' = Events(a..b)
      /\ cursor.newest \in 0..Len(chain)
  BY <1>1, HistoryGrows DEF IndexOK, NewTransaction, Rows
<1>3. \A i \in 1..Len(chain) : chain'[i] = chain[i]
  BY <1>1 DEF IndexOK
<1>4. GapsAreAhead'
  <2>1. \A e \in Missing' : e[1] <= cursor.newest => e \in Missing
    BY <1>2, <1>3 DEF Missing, Events
  <2> QED
    BY <1>2, <2>1 DEF GapInv, GapsAreAhead
<1>5. ASSUME NEW w, NEW stop \in Nat, NEW top \in 0..Len(chain), Covers(w, stop, top)
      PROVE  Covers(w, stop, top)'
  <2>1. w.oldest # 0 => Events(w.oldest..top)' = Events(w.oldest..top)
    BY <1>2, <1>5 DEF Covers
  <2>2. Events(1..top)' = Events(1..top)
    BY <1>2
  <2> QED
    BY <1>5, <2>1, <2>2 DEF Covers
<1>6. ASSUME NEW s \in Syncs PROVE HoldsWalk(sync[s])'
  <2>1. PICK r : r = sync[s]
    OBVIOUS
  <2>2. HoldsWalk(r) /\ sync'[s] = r /\ r.cur.newest \in Nat
    BY <1>2, <2>1 DEF GapInv, IndexOK, SyncsAt, Rows
  <2>3. r.pc \in {"rows", "cursor"} =>
            \E top \in r.cur.newest..Len(chain) : Covers(r.walk, r.cur.newest, top)'
    BY <1>2, <1>5, <2>2 DEF HoldsWalk
  <2>4. r.pc \in {"rows2", "cursor2"} =>
            \E top \in 0..Len(chain) :
               /\ IF r.cur.oldest = 0 THEN top >= r.cur.newest ELSE top = r.cur.oldest - 1
               /\ Covers(r.walk, 0, top)'
    BY <1>2, <1>5, <2>2 DEF HoldsWalk
  <2>5. r.cur.newest..Len(chain) \subseteq r.cur.newest..Len(chain') /\ 0..Len(chain) \subseteq 0..Len(chain')
    BY <1>2, <2>2
  <2>6. HoldsWalk(r)'
    BY <1>2, <2>2, <2>3, <2>4, <2>5 DEF HoldsWalk
  <2> QED
    BY <2>2, <2>6 DEF HoldsWalk
<1>7. \A s \in Syncs : HoldsWalk(sync[s])'
  BY <1>6
<1> QED
  BY <1>2, <1>4, <1>7 DEF GapInv, RowOK

LEMMA NextKeepsGaps == IndexOK /\ GapInv /\ [Next]_vars => GapInv'
<1> SUFFICES ASSUME IndexOK, GapInv, [Next]_vars PROVE GapInv'
  OBVIOUS
<1>1. CASE UNCHANGED vars
  <2>1. UNCHANGED <<chain, log, cursor, sync, skipped, overwritten>>
    BY <1>1 DEF vars
  <2>2. \A S : Events(S)' = Events(S)
    BY <2>1 DEF Events
  <2> QED
    BY <2>1, <2>2 DEF GapInv, RowOK, HoldsWalk, Covers, GapsAreAhead, Missing
<1>2. ASSUME NEW s \in Syncs, ReadCursor(s) \/ Continue(s) PROVE GapInv'
  BY <1>2, ReadKeepsGaps, DropKeepsGaps, TopUpWalkKeepsGaps, RereadKeepsGaps, BackfillWalkKeepsGaps,
     EntriesKeepGaps, CursorKeepsGaps DEF Continue
<1> QED
  BY <1>1, <1>2, HistoryKeepsGaps, FailsKeepGaps DEF Next

LEMMA InitGaps == Init => GapInv
<1> SUFFICES ASSUME Init PROVE GapInv
  OBVIOUS
<1>1. \A s \in Syncs : HoldsWalk(sync[s])
  BY IdleHolds DEF Init
<1>2. cursor.tag \in {"none", "other"} /\ RowOK(cursor)
  <2>1. PICK other : other = [NoCursor EXCEPT !.tag = "other", !.complete = "yes"]
    OBVIOUS
  <2>2. other.tag = "other" /\ other.complete = "yes" /\ NoCursor.tag = "none"
    BY <2>1 DEF NoCursor
  <2>3. cursor = NoCursor \/ cursor = other
    BY <2>1 DEF Init
  <2> QED
    BY <2>2, <2>3 DEF RowOK
<1> QED
  BY <1>1, <1>2 DEF GapInv, GapsAreAhead

\* However many syncs run at once, wherever each fails and whatever the budgets
\* are: an event missing at or below the newest indexed signature is ahead of
\* the backfill, unless a walk went past it unread or unreturned, or a row was
\* saved over one that had changed since it was read.
THEOREM GapsStayAhead == Spec => []GapsAreAhead
<1>1. GapInv => GapsAreAhead
  BY DEF GapInv
<1> QED
  BY <1>1, InitGaps, NextKeepsGaps, AlwaysIndexOK, PTL DEF Spec
=============================================================================
