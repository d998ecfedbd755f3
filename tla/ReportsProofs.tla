---------------------------- MODULE ReportsProofs ----------------------------
(***************************************************************************)
(* Proofs about Reports, for any number of readers of any mix of kinds,    *)
(* any table, page size, life of the cache and bound on the fills.         *)
(***************************************************************************)
EXTENDS Reports, FiniteSetTheorems, SequenceTheorems, TLAPS

FigureKinds == {"dashboard", "page", "campaigns"}
WalkKinds == {"cursor", "offset"}

(* The stages of each kind of reader, and what it holds there. *)
ReaderTyped(r) ==
    /\ kind[r] = "dashboard" =>
          stage[r] \in {"idle", "raised", "counted", "newest", "donors",
                        "fill", "done"}
    /\ kind[r] = "page" =>
          stage[r] \in {"idle", "id", "counted", "donors", "done"}
    /\ kind[r] = "campaigns" =>
          stage[r] \in {"idle", "counted", "donors", "done"}
    /\ kind[r] = "cursor" => stage[r] \in {"idle", "next", "done"}
    /\ kind[r] = "offset" => stage[r] \in {"idle", "next", "total", "done"}
    /\ kind[r] = "nothing" => stage[r] = "idle"
    /\ kind[r] \in FigureKinds => seen[r] \in Figures
    /\ kind[r] \in WalkKinds /\ stage[r] # "idle" => seen[r] \in Walk

ReportsTyped ==
    /\ TypeOK
    /\ IsFiniteSet(visible)
    /\ \A r \in Readers : ReaderTyped(r)

-----------------------------------------------------------------------------
(* Which figures reader r has read. *)
RaisedRead(r) ==
    IF kind[r] = "dashboard"
    THEN stage[r] \in {"counted", "newest", "donors", "fill", "done"}
    ELSE stage[r] \in {"id", "counted", "donors", "done"}

CountedRead(r) ==
    IF kind[r] = "dashboard"
    THEN stage[r] \in {"newest", "donors", "fill", "done"}
    ELSE stage[r] \in {"donors", "done"}

NewestRead(r) ==
    kind[r] = "dashboard" /\ stage[r] \in {"donors", "fill", "done"}

DonorsRead(r) ==
    IF kind[r] = "dashboard" THEN stage[r] \in {"fill", "done"}
                             ELSE stage[r] = "done"

(* The figures read so far include one another in the order they were read *)
(* in, and the table includes them all.                                    *)
FiguresNested(r) ==
    kind[r] \in FigureKinds /\ stage[r] # "idle" =>
        /\ seen[r].before \subseteq Succeeded
        /\ RaisedRead(r) => /\ seen[r].before \subseteq seen[r].raised
                            /\ seen[r].raised \subseteq Succeeded
        /\ CountedRead(r) =>
              /\ seen[r].raised \subseteq seen[r].counted
              /\ seen[r].counted \subseteq visible
              /\ kind[r] # "dashboard" => seen[r].counted \subseteq Succeeded
        /\ NewestRead(r) =>
              \A d \in seen[r].counted : createdAt[d] <= seen[r].newest
        /\ DonorsRead(r) => seen[r].counted \subseteq seen[r].donors

(* A fill has missed nothing that is older than its first statement.       *)
FillIsRecent(r) ==
    Filling(r) =>
        \A d \in visible : age[d] > fillAge[r] =>
            /\ RaisedRead(r) /\ status[d] = "SUCCEEDED" => d \in seen[r].raised
            /\ CountedRead(r) => d \in seen[r].counted
            /\ NewestRead(r) => createdAt[d] <= seen[r].newest
            /\ DonorsRead(r) => d \in seen[r].donors

(* Nor has the cache, of what was older than a fill when it was set.       *)
CacheIsRecent ==
    cacheLeft > 0 =>
        \A d \in visible : age[d] > MaxFill + TtlMs - cacheLeft =>
            /\ status[d] = "SUCCEEDED" => d \in cache.raised
            /\ d \in cache.counted
            /\ createdAt[d] <= cache.newest
            /\ d \in cache.donors

-----------------------------------------------------------------------------
Returned(w) == Range(w.returned)

(* What is true of a walk in either mode: a row that was in a list from    *)
(* the beginning is in it still, but for the list of PENDING rows.         *)
WalkStarted(r) ==
    kind[r] \in WalkKinds /\ stage[r] # "idle" =>
        /\ seen[r].before \subseteq visible
        /\ seen[r].filter # "PENDING" =>
              seen[r].before \subseteq Matching(seen[r].filter)
        /\ Returned(seen[r]) \subseteq visible

(* What was returned is not after the cursor; what was not is.             *)
AtCursor(r) ==
    kind[r] = "cursor" /\ stage[r] # "idle" =>
        /\ IsInjective(seen[r].returned)
        /\ \A d \in Returned(seen[r]) :
              /\ seen[r].cursor # <<>>
              /\ ~Follows(seen[r].direction, EncodeCursor(d), seen[r].cursor)
        /\ \A d \in seen[r].before \intersect Matching(seen[r].filter) :
              \/ d \in Returned(seen[r])
              \/ /\ stage[r] = "next"
                 /\ \/ seen[r].cursor = <<>>
                    \/ Follows(seen[r].direction, EncodeCursor(d),
                               seen[r].cursor)

(* The rows of a list that come before d in every order by createdAt.      *)
Earlier(f, dir, d) ==
    {e \in Matching(f) : IF dir = "asc" THEN createdAt[e] < createdAt[d]
                                        ELSE createdAt[e] > createdAt[d]}

Untied(d) == \A e \in visible \ {d} : createdAt[e] # createdAt[d]

(* Rows come in, but none leaves: a row that was not yet returned has at   *)
(* least as many before it as were skipped.                                *)
AtPage(r) ==
    (kind[r] = "offset" /\ stage[r] # "idle" /\ seen[r].filter # "PENDING") =>
        \A d \in seen[r].before :
            \/ ~Untied(d)
            \/ d \in Returned(seen[r])
            \/ /\ stage[r] = "next"
               /\ Cardinality(Earlier(seen[r].filter, seen[r].direction, d))
                    >= Skipped(seen[r].page)
            \/ /\ stage[r] = "total"
               /\ Cardinality(Earlier(seen[r].filter, seen[r].direction, d))
                    >= seen[r].page * PageSize

-----------------------------------------------------------------------------
(* A sequence that lists a finite set once each lists all of it.           *)
LEMMA ListingOfSet ==
    ASSUME NEW S, IsFiniteSet(S), NEW q \in SetToSeqs(S)
    PROVE  /\ q \in Seq(S)
           /\ Len(q) = Cardinality(S)
           /\ Len(q) \in Nat
           /\ DOMAIN q = 1..Len(q)
           /\ \A i, j \in 1..Len(q) : q[i] = q[j] => i = j
           /\ \A x \in S : \E i \in 1..Len(q) : q[i] = x
<1> DEFINE n == Cardinality(S)
<1>1. n \in Nat
  BY FS_CardinalityType
<1>2. q \in [1..n -> S] /\ \A i, j \in 1..n : i # j => q[i] # q[j]
  BY DEF SetToSeqs
<1>3. q \in Injection(1..n, S)
  BY <1>2 DEF Injection, IsInjective
<1>4. Cardinality(1..n) = n
  BY <1>1, FS_Interval
<1>5. q \in Surjection(1..n, S)
  BY <1>3, <1>4, FS_Injection
<1>6. \A x \in S : \E i \in 1..n : q[i] = x
  BY <1>5 DEF Surjection
<1>7. q \in Seq(S) /\ Len(q) = n
  <2>1. q \in Seq(S)
    BY <1>1, <1>2, SeqDef
  <2>2. DOMAIN q = 1..n /\ Len(q) \in Nat /\ DOMAIN q = 1..Len(q)
    BY <1>2, <2>1, LenProperties
  <2> HIDE DEF n
  <2> QED
    BY <1>1, <2>1, <2>2
<1> HIDE DEF n
<1> QED
  BY <1>1, <1>2, <1>6, <1>7 DEF n

(* What FirstOf returns. *)
LEMMA FirstOfListing ==
    ASSUME NEW S, NEW q \in Seq(S), NEW n \in Nat
    PROVE  /\ FirstOf(q, n) \in Seq(S)
           /\ Len(FirstOf(q, n)) = IF n < Len(q) THEN n ELSE Len(q)
           /\ \A i \in 1..Len(FirstOf(q, n)) : FirstOf(q, n)[i] = q[i]
<1> DEFINE m == IF n < Len(q) THEN n ELSE Len(q)
<1>1. Len(q) \in Nat /\ q \in [1..Len(q) -> S]
  BY LenProperties
<1>2. m \in Nat /\ m <= Len(q)
  BY <1>1
<1>3. FirstOf(q, n) = SubSeq(q, 1, m)
  BY DEF FirstOf
<1> HIDE DEF m
<1>4. \A i \in 1..m : q[i] \in S
  BY <1>1, <1>2
<1>5. /\ SubSeq(q, 1, m) \in Seq(S)
      /\ Len(SubSeq(q, 1, m)) = IF 1 <= m THEN m - 1 + 1 ELSE 0
      /\ \A i \in 1..(m - 1 + 1) : SubSeq(q, 1, m)[i] = q[1 + i - 1]
  BY <1>2, <1>4, SubSeqProperties
<1>6. Len(SubSeq(q, 1, m)) = m
  BY <1>2, <1>5
<1>7. \A i \in 1..m : SubSeq(q, 1, m)[i] = q[i]
  BY <1>2, <1>5
<1> QED
  BY <1>3, <1>5, <1>6, <1>7 DEF m

-----------------------------------------------------------------------------
(* The steps of one reader, and what none of them touches. *)
ReaderStep(r) ==
    \/ GetMetrics(r)
    \/ DashboardMetrics(r)
    \/ Fill(r)
    \/ FindCampaign(r)
    \/ FindById(r)
    \/ GetCampaignProgress(r)
    \/ FirstPage(r)
    \/ ListCursor(r)
    \/ FindMany(r)
    \/ Count(r)
    \/ Reply(r)

TableStep == \E d \in Donations : CreatePending(d) \/ Settle(d)

LEMMA NextCases ==
    ASSUME [Next]_vars
    PROVE  \/ TableStep
           \/ \E r \in Readers : ReaderStep(r)
           \/ Tick
           \/ UNCHANGED vars
BY DEF Next, TableStep, ReaderStep

LEMMA ReaderFrame ==
    ASSUME TypeOK, NEW r \in Readers, ReaderStep(r)
    PROVE  /\ UNCHANGED <<visible, createdAt, status, age, kind>>
           /\ \A q \in Readers \ {r} : /\ stage'[q] = stage[q]
                                       /\ seen'[q] = seen[q]
                                       /\ fillAge'[q] = fillAge[q]
           /\ Fill(r) \/ UNCHANGED dashboard
<1> USE DEF TypeOK, GoOn, table, dashboard, reader, vars
<1>1. CASE GetMetrics(r)
  BY <1>1 DEF GetMetrics
<1>2. CASE DashboardMetrics(r)
  BY <1>2 DEF DashboardMetrics
<1>3. CASE Fill(r)
  BY <1>3 DEF Fill
<1>4. CASE FindCampaign(r)
  BY <1>4 DEF FindCampaign
<1>5. CASE FindById(r)
  BY <1>5 DEF FindById
<1>6. CASE GetCampaignProgress(r)
  BY <1>6 DEF GetCampaignProgress
<1>7. CASE FirstPage(r)
  BY <1>7 DEF FirstPage
<1>8. CASE ListCursor(r)
  BY <1>8 DEF ListCursor
<1>9. CASE FindMany(r)
  BY <1>9 DEF FindMany
<1>10. CASE Count(r)
  BY <1>10 DEF Count
<1>11. CASE Reply(r)
  BY <1>11 DEF Reply
<1> QED
  BY <1>1, <1>2, <1>3, <1>4, <1>5, <1>6, <1>7, <1>8, <1>9, <1>10, <1>11
     DEF ReaderStep

(* The table only grows, and a settled row stays as it is. *)
LEMMA TableGrows ==
    ASSUME TypeOK, [Next]_vars
    PROVE  /\ kind' = kind
           /\ visible \subseteq visible'
           /\ Succeeded \subseteq Succeeded'
           /\ \A d \in visible : createdAt'[d] = createdAt[d]
           /\ \A d \in visible : status[d] # "PENDING" => status'[d] = status[d]
<1>1. CASE TableStep
  <2>1. PICK d \in Donations : CreatePending(d) \/ Settle(d)
    BY <1>1 DEF TableStep
  <2>2. CASE CreatePending(d)
    BY <2>2 DEF CreatePending, TypeOK, Succeeded, reader, dashboard
  <2>3. CASE Settle(d)
    BY <2>3 DEF Settle, TypeOK, Succeeded, reader, dashboard
  <2> QED
    BY <2>1, <2>2, <2>3
<1>2. CASE \E r \in Readers : ReaderStep(r)
  BY <1>2, ReaderFrame DEF Succeeded
<1>3. CASE Tick
  BY <1>3 DEF Tick, Succeeded
<1>4. CASE UNCHANGED vars
  BY <1>4 DEF vars, table, reader, Succeeded
<1> QED
  BY <1>1, <1>2, <1>3, <1>4, NextCases

-----------------------------------------------------------------------------
(* What a page of either mode adds to a walk. *)
LEMMA WalkExcept ==
    ASSUME NEW w \in Walk, NEW ret, NEW c
    PROVE  /\ [w EXCEPT !.returned = ret, !.cursor = c] =
                [filter |-> w.filter, direction |-> w.direction,
                 before |-> w.before, returned |-> ret,
                 cursor |-> c, page |-> w.page]
           /\ [w EXCEPT !.returned = ret] =
                [filter |-> w.filter, direction |-> w.direction,
                 before |-> w.before, returned |-> ret,
                 cursor |-> w.cursor, page |-> w.page]
<1> DEFINE u == [filter |-> w.filter, direction |-> w.direction,
                 before |-> w.before, returned |-> ret,
                 cursor |-> w.cursor, page |-> w.page]
<1>1. [w EXCEPT !.returned = ret] = u
  BY DEF Walk
<1>2. [w EXCEPT !.returned = ret, !.cursor = c] =
          [[w EXCEPT !.returned = ret] EXCEPT !.cursor = c]
  OBVIOUS
<1>3. [u EXCEPT !.cursor = c] =
          [filter |-> w.filter, direction |-> w.direction,
           before |-> w.before, returned |-> ret,
           cursor |-> c, page |-> w.page]
  OBVIOUS
<1> HIDE DEF u
<1>4. [w EXCEPT !.returned = ret, !.cursor = c] = [u EXCEPT !.cursor = c]
  BY <1>1, <1>2, Zenon
<1> QED
  BY <1>1, <1>3, <1>4, Zenon DEF u

LEMMA CursorUpdate ==
    ASSUME NEW w \in Walk, NEW items, NEW c
    PROVE  [w EXCEPT !.returned = @ \o items, !.cursor = c] =
              [filter |-> w.filter, direction |-> w.direction,
               before |-> w.before, returned |-> w.returned \o items,
               cursor |-> c, page |-> w.page]
BY WalkExcept, Zenon

LEMMA OffsetUpdate ==
    ASSUME NEW w \in Walk, NEW items
    PROVE  [w EXCEPT !.returned = @ \o items] =
              [filter |-> w.filter, direction |-> w.direction,
               before |-> w.before, returned |-> w.returned \o items,
               cursor |-> w.cursor, page |-> w.page]
BY WalkExcept, Zenon

LEMMA WalkFields ==
    ASSUME NEW w \in Walk, NEW items \in Seq(Donations)
    PROVE  /\ w.filter \in Statuses \union {AnyStatus}
           /\ w.direction \in {"asc", "desc"}
           /\ w.before \in SUBSET Donations
           /\ w.returned \in Seq(Donations)
           /\ w.returned \o items \in Seq(Donations)
           /\ w.cursor \in {<<>>} \union (Stamps \X Donations)
           /\ w.page \in Nat \ {0}
<1>1. w.returned \in Seq(Donations)
  BY DEF Walk
<1>2. w.returned \o items \in Seq(Donations)
  BY <1>1, ConcatProperties
<1> QED
  BY <1>1, <1>2 DEF Walk

LEMMA EncodedCursor ==
    ASSUME TypeOK, NEW d \in Donations
    PROVE  EncodeCursor(d) \in Stamps \X Donations
BY DEF TypeOK, EncodeCursor

(* The page that listCursor cuts off. *)
LEMMA CursorPage ==
    ASSUME ReportsTyped, NEW rows \in SUBSET visible,
           NEW dir, NEW q \in OrderedByKey(rows, dir)
    PROVE  LET items == FirstOf(q, PageSize) IN
           /\ items \in Seq(Donations)
           /\ Len(items) \in Nat
           /\ Len(items) = IF PageSize < Len(q) THEN PageSize ELSE Len(q)
           /\ \A i \in 1..Len(items) : items[i] = q[i] /\ items[i] \in rows
           /\ items = <<>> <=> rows = {}
           /\ items # <<>> => /\ Len(items) > 0
                              /\ Last(items) = q[Len(items)]
                              /\ Last(items) \in rows
<1> DEFINE items == FirstOf(q, PageSize)
<1>1. IsFiniteSet(rows) /\ rows \subseteq Donations
  BY FS_Subset DEF ReportsTyped, TypeOK
<1>2. q \in SetToSeqs(rows)
  BY DEF OrderedByKey
<1>3. /\ q \in Seq(rows)
      /\ Len(q) \in Nat
      /\ \A x \in rows : \E i \in 1..Len(q) : q[i] = x
      /\ q \in [1..Len(q) -> rows]
  BY <1>1, <1>2, ListingOfSet, LenProperties
<1>4. PageSize \in Nat /\ PageSize > 0
  BY ReportAssumption
<1>5. /\ items \in Seq(rows)
      /\ Len(items) = IF PageSize < Len(q) THEN PageSize ELSE Len(q)
      /\ \A i \in 1..Len(items) : items[i] = q[i]
  BY <1>3, <1>4, FirstOfListing
<1>6. items \in Seq(Donations)
  BY <1>1, <1>5, SeqMonotonic
<1> HIDE DEF items
<1>7. Len(items) \in Nat /\ Len(items) <= Len(q)
  BY <1>3, <1>4, <1>5
<1>8. \A i \in 1..Len(items) : items[i] = q[i] /\ items[i] \in rows
  BY <1>3, <1>5, <1>7
<1>9. items = <<>> <=> Len(items) = 0
  BY <1>5, EmptySeq
<1>10. Len(items) = 0 <=> rows = {}
  <2>1. Len(items) = 0 <=> Len(q) = 0
    BY <1>3, <1>4, <1>5
  <2>2. Len(q) = 0 <=> rows = {}
    BY <1>3
  <2> QED
    BY <2>1, <2>2
<1>11. items # <<>> => /\ Len(items) > 0
                       /\ Last(items) = q[Len(items)]
                       /\ Last(items) \in rows
  BY <1>7, <1>8, <1>9 DEF Last
<1> QED
  BY <1>5, <1>6, <1>7, <1>8, <1>9, <1>10, <1>11 DEF items

LEMMA SkippedRows ==
    ASSUME NEW page \in Nat \ {0}
    PROVE  /\ Skipped(page) \in Nat
           /\ Skipped(page) + PageSize = page * PageSize
           /\ Skipped(page + 1) = page * PageSize
<1>1. PageSize \in Nat
  BY ReportAssumption
<1>2. (page - 1) * PageSize \in Nat
  BY <1>1
<1>3. (page - 1) * PageSize + PageSize = page * PageSize
  BY <1>1
<1>4. ((page + 1) - 1) * PageSize = page * PageSize
  BY <1>1
<1> QED
  BY <1>2, <1>3, <1>4 DEF Skipped

(* The page that listPaged cuts out. *)
LEMMA OffsetPage ==
    ASSUME ReportsTyped, NEW rows \in SUBSET visible,
           NEW dir, NEW q \in OrderedByTime(rows, dir), NEW skipped \in Nat
    PROVE  LET last == IF skipped + PageSize < Len(q)
                       THEN skipped + PageSize ELSE Len(q)
               items == SubSeq(q, skipped + 1, last)
           IN  /\ items \in Seq(rows)
               /\ items \in Seq(Donations)
               /\ Len(q) \in Nat
               /\ \A i \in 1..Len(q) :
                     \/ i <= skipped
                     \/ i > skipped + PageSize
                     \/ q[i] \in Range(items)
<1> DEFINE last == IF skipped + PageSize < Len(q)
                   THEN skipped + PageSize ELSE Len(q)
           items == SubSeq(q, skipped + 1, last)
<1>1. IsFiniteSet(rows) /\ rows \subseteq Donations
  BY FS_Subset DEF ReportsTyped, TypeOK
<1>2. q \in SetToSeqs(rows)
  BY DEF OrderedByTime
<1>3. q \in Seq(rows) /\ Len(q) \in Nat /\ q \in [1..Len(q) -> rows]
  BY <1>1, <1>2, ListingOfSet, LenProperties
<1>4. last \in Nat /\ last <= Len(q) /\ PageSize \in Nat
  BY <1>3, ReportAssumption
<1> HIDE DEF last
<1>5. \A i \in (skipped + 1)..last : q[i] \in rows
  BY <1>3, <1>4
<1>6. /\ items \in Seq(rows)
      /\ Len(items) = IF skipped + 1 <= last
                      THEN last - (skipped + 1) + 1 ELSE 0
      /\ \A j \in 1..(last - (skipped + 1) + 1) :
            items[j] = q[(skipped + 1) + j - 1]
  BY <1>4, <1>5, SubSeqProperties
<1>7. items \in Seq(Donations)
  BY <1>1, <1>6, SeqMonotonic
<1> HIDE DEF items
<1>8. ASSUME NEW i \in (skipped + 1)..last
      PROVE  \E j \in 1..Len(items) : items[j] = q[i]
  <2>1. i - skipped \in 1..(last - (skipped + 1) + 1)
    BY <1>4
  <2>2. i - skipped \in 1..Len(items)
    BY <1>4, <1>6
  <2>3. items[i - skipped] = q[(skipped + 1) + (i - skipped) - 1]
    BY <1>6, <2>1
  <2>4. (skipped + 1) + (i - skipped) - 1 = i
    BY <1>4
  <2> QED
    BY <2>2, <2>3, <2>4
<1>9. ASSUME NEW i \in 1..Len(q), ~(i <= skipped), ~(i > skipped + PageSize)
      PROVE  q[i] \in Range(items)
  <2>1. i \in (skipped + 1)..last
    BY <1>3, <1>4, <1>9 DEF last
  <2>2. PICK j \in 1..Len(items) : items[j] = q[i]
    BY <1>8, <2>1
  <2>3. DOMAIN items = 1..Len(items)
    BY <1>6, LenProperties
  <2> QED
    BY <2>2, <2>3 DEF Range
<1> QED
  BY <1>3, <1>6, <1>7, <1>9 DEF items, last

-----------------------------------------------------------------------------
(* Types.  A step that goes on with something well typed keeps all types.  *)
LEMMA ReportsInitially == Init => ReportsTyped
<1> SUFFICES ASSUME Init PROVE ReportsTyped
  OBVIOUS
<1>1. kind \in [Readers -> Kinds]
  BY ReportAssumption DEF Init
<1>2. NoFigures \in Figures
  BY ReportAssumption DEF NoFigures, Figures
<1>3. IsFiniteSet(visible)
  BY FS_EmptySet DEF Init
<1>4. TypeOK
  BY <1>1, <1>2, ReportAssumption
     DEF Init, TypeOK, Stamps, Statuses, Stages
<1>5. \A r \in Readers : ReaderTyped(r)
  BY <1>1, <1>2
     DEF Init, ReaderTyped, Kinds, FigureKinds, WalkKinds
<1> QED
  BY <1>3, <1>4, <1>5 DEF ReportsTyped

LEMMA OwnTyped ==
    ASSUME ReportsTyped, NEW r \in Readers, ReaderStep(r),
           stage' \in [Readers -> Stages],
           seen' \in [Readers -> Figures \union Walk],
           fillAge' \in [Readers -> 0..MaxFill],
           UNCHANGED dashboard,
           ReaderTyped(r)'
    PROVE  ReportsTyped'
<1>1. /\ UNCHANGED <<visible, createdAt, status, age, kind>>
      /\ \A q \in Readers \ {r} : stage'[q] = stage[q] /\ seen'[q] = seen[q]
  BY ReaderFrame DEF ReportsTyped
<1>2. TypeOK'
  BY <1>1 DEF ReportsTyped, TypeOK, dashboard
<1>3. \A q \in Readers : ReaderTyped(q)'
  BY <1>1 DEF ReportsTyped, ReaderTyped
<1> QED
  BY <1>1, <1>2, <1>3 DEF ReportsTyped

LEMMA GoOnTyped ==
    ASSUME ReportsTyped, NEW r \in Readers, ReaderStep(r),
           NEW next \in Stages, NEW what \in Figures \union Walk,
           GoOn(r, next, what),
           fillAge' \in [Readers -> 0..MaxFill],
           stage'[r] = next /\ seen'[r] = what => ReaderTyped(r)'
    PROVE  ReportsTyped'
<1>1. /\ stage' = [stage EXCEPT ![r] = next]
      /\ seen' = [seen EXCEPT ![r] = what]
      /\ UNCHANGED dashboard
  BY DEF GoOn
<1>2. /\ stage' \in [Readers -> Stages]
      /\ seen' \in [Readers -> Figures \union Walk]
      /\ stage'[r] = next
      /\ seen'[r] = what
  BY <1>1 DEF ReportsTyped, TypeOK
<1> QED
  BY <1>1, <1>2, OwnTyped

LEMMA FiguresTyped ==
    ASSUME ReportsTyped, NEW r \in Readers, ReaderStep(r),
           kind[r] \in FigureKinds
    PROVE  ReportsTyped'
<1>1. kind' = kind
  BY ReaderFrame DEF ReportsTyped
<1>2. NoFigures \in Figures
  BY ReportAssumption DEF NoFigures, Figures
<1>3. Succeeded \in SUBSET Donations /\ visible \in SUBSET Donations
  BY DEF ReportsTyped, TypeOK, Succeeded
<1>4. 0 \in 0..MaxFill
  BY ReportAssumption
<1>5. fillAge \in [Readers -> 0..MaxFill]
  BY DEF ReportsTyped, TypeOK
<1>6. seen[r] \in Figures
  BY DEF ReportsTyped, ReaderTyped
<1>7. CASE GetMetrics(r)
  <2>1. CASE cacheLeft > 0
    BY <1>7, <2>1
       DEF GetMetrics, vars, table, reader, dashboard, ReportsTyped, TypeOK,
           ReaderTyped
  <2>2. CASE ~(cacheLeft > 0)
    <3> DEFINE what == [NoFigures EXCEPT !.before = Succeeded]
    <3>1. GoOn(r, "raised", what) /\ fillAge' = [fillAge EXCEPT ![r] = 0]
      BY <1>7, <2>2 DEF GetMetrics
    <3>2. what \in Figures
      BY <1>2, <1>3 DEF Figures
    <3>3. kind[r] = "dashboard"
      BY <1>7 DEF GetMetrics, Begins
    <3> HIDE DEF what
    <3>4. fillAge' \in [Readers -> 0..MaxFill]
      BY <1>4, <1>5, <3>1
    <3>5. stage'[r] = "raised" /\ seen'[r] = what => ReaderTyped(r)'
      BY <1>1, <3>2, <3>3 DEF ReaderTyped, WalkKinds
    <3> QED
      BY <3>1, <3>2, <3>4, <3>5, GoOnTyped DEF Stages
  <2> QED
    BY <2>1, <2>2
<1>8. CASE DashboardMetrics(r)
  <2>1. PICK next \in {"counted", "newest", "donors", "fill"},
             what \in Figures : GoOn(r, next, what)
    <3>1. CASE GoOn(r, "counted", [seen[r] EXCEPT !.raised = Succeeded])
      <4>1. [seen[r] EXCEPT !.raised = Succeeded] \in Figures
        BY <1>3, <1>6 DEF Figures
      <4> QED
        BY <3>1, <4>1
    <3>2. CASE GoOn(r, "newest", [seen[r] EXCEPT !.counted = visible])
      <4>1. [seen[r] EXCEPT !.counted = visible] \in Figures
        BY <1>3, <1>6 DEF Figures
      <4> QED
        BY <3>2, <4>1
    <3>3. ASSUME NEW t \in Stamps \union {0},
                 GoOn(r, "donors", [seen[r] EXCEPT !.newest = t])
          PROVE  \E next \in {"counted", "newest", "donors", "fill"},
                    what \in Figures : GoOn(r, next, what)
      <4>1. t \in 0..LastStamp
        BY ReportAssumption DEF Stamps
      <4>2. [seen[r] EXCEPT !.newest = t] \in Figures
        BY <1>6, <4>1 DEF Figures
      <4> QED
        BY <3>3, <4>2
    <3>4. CASE GoOn(r, "fill", [seen[r] EXCEPT !.donors = visible])
      <4>1. [seen[r] EXCEPT !.donors = visible] \in Figures
        BY <1>3, <1>6 DEF Figures
      <4> QED
        BY <3>4, <4>1
    <3> QED
      BY <1>8, <3>1, <3>2, <3>3, <3>4 DEF DashboardMetrics
  <2>2. kind[r] = "dashboard" /\ UNCHANGED fillAge
    BY <1>8 DEF DashboardMetrics
  <2>3. stage'[r] = next /\ seen'[r] = what => ReaderTyped(r)'
    BY <1>1, <2>2 DEF ReaderTyped, WalkKinds
  <2> QED
    BY <1>5, <2>1, <2>2, <2>3, GoOnTyped DEF Stages
<1>9. CASE Fill(r)
  <2>1. /\ cache' = seen[r]
        /\ cacheLeft' = TtlMs
        /\ stage' = [stage EXCEPT ![r] = "done"]
        /\ UNCHANGED <<visible, createdAt, status, age, kind, seen, fillAge>>
    BY <1>9 DEF Fill, table
  <2>2. TypeOK'
    BY <1>6, <2>1, ReportAssumption DEF ReportsTyped, TypeOK, Stages
  <2>3. \A q \in Readers : q # r => stage'[q] = stage[q]
    BY <2>1 DEF ReportsTyped, TypeOK
  <2>4. stage'[r] = "done" /\ stage[r] = "fill"
    BY <1>9, <2>1 DEF Fill, ReportsTyped, TypeOK
  <2>5. \A q \in Readers : ReaderTyped(q)'
    BY <2>1, <2>3, <2>4 DEF ReportsTyped, ReaderTyped
  <2> QED
    BY <2>1, <2>2, <2>5 DEF ReportsTyped
<1>10. CASE FindCampaign(r)
  <2> DEFINE what == [NoFigures EXCEPT !.before = Succeeded,
                                       !.raised = Succeeded]
  <2>1. PICK k \in {"page", "campaigns"} :
            /\ Begins(r, k)
            /\ GoOn(r, IF k = "page" THEN "id" ELSE "counted", what)
    BY <1>10 DEF FindCampaign
  <2>2. what \in Figures
    BY <1>2, <1>3 DEF Figures
  <2>3. UNCHANGED fillAge
    BY <1>10 DEF FindCampaign
  <2> HIDE DEF what
  <2>4. stage'[r] = (IF k = "page" THEN "id" ELSE "counted")
            /\ seen'[r] = what => ReaderTyped(r)'
    BY <1>1, <2>1, <2>2 DEF Begins, ReaderTyped, WalkKinds
  <2>5. (IF k = "page" THEN "id" ELSE "counted") \in Stages
    BY DEF Stages
  <2> QED
    BY <1>5, <2>1, <2>2, <2>3, <2>4, <2>5, GoOnTyped
<1>11. CASE FindById(r)
  <2>1. /\ kind[r] = "page"
        /\ GoOn(r, "counted", seen[r])
        /\ UNCHANGED fillAge
    BY <1>11 DEF FindById
  <2>2. stage'[r] = "counted" /\ seen'[r] = seen[r] => ReaderTyped(r)'
    BY <1>1, <1>6, <2>1 DEF ReaderTyped, WalkKinds
  <2> QED
    BY <1>5, <1>6, <2>1, <2>2, GoOnTyped DEF Stages
<1>12. CASE GetCampaignProgress(r)
  <2>1. PICK next \in {"donors", "done"}, what \in Figures :
            GoOn(r, next, what)
    <3>1. /\ [seen[r] EXCEPT !.counted = Succeeded] \in Figures
          /\ [seen[r] EXCEPT !.donors = Succeeded] \in Figures
      BY <1>3, <1>6 DEF Figures
    <3> QED
      BY <1>12, <3>1 DEF GetCampaignProgress
  <2>2. kind[r] \in {"page", "campaigns"} /\ UNCHANGED fillAge
    BY <1>12 DEF GetCampaignProgress
  <2>3. stage'[r] = next /\ seen'[r] = what => ReaderTyped(r)'
    BY <1>1, <2>2 DEF ReaderTyped, WalkKinds
  <2> QED
    BY <1>5, <2>1, <2>2, <2>3, GoOnTyped DEF Stages
<1>13. CASE Reply(r)
  <2>1. /\ stage' = [stage EXCEPT ![r] = "idle"]
        /\ seen' = [seen EXCEPT ![r] = NoFigures]
        /\ fillAge' = [fillAge EXCEPT ![r] = 0]
        /\ UNCHANGED dashboard
    BY <1>13 DEF Reply
  <2>2. /\ stage' \in [Readers -> Stages]
        /\ seen' \in [Readers -> Figures \union Walk]
        /\ fillAge' \in [Readers -> 0..MaxFill]
        /\ stage'[r] = "idle"
        /\ seen'[r] = NoFigures
    BY <1>2, <1>4, <2>1 DEF ReportsTyped, TypeOK, Stages
  <2>3. ReaderTyped(r)'
    BY <1>2, <2>2 DEF ReaderTyped
  <2> QED
    BY <2>1, <2>2, <2>3, OwnTyped
<1> QED
  BY <1>7, <1>8, <1>9, <1>10, <1>11, <1>12, <1>13
     DEF ReaderStep, FirstPage, ListCursor, FindMany, Count, Begins,
         FigureKinds

LEMMA WalksTyped ==
    ASSUME ReportsTyped, NEW r \in Readers, ReaderStep(r),
           kind[r] \notin FigureKinds
    PROVE  ReportsTyped'
<1>1. kind' = kind
  BY ReaderFrame DEF ReportsTyped
<1>2. 0 \in 0..MaxFill /\ fillAge \in [Readers -> 0..MaxFill]
  BY ReportAssumption DEF ReportsTyped, TypeOK
<1>3. \A f : Matching(f) \subseteq visible
  BY DEF Matching
<1>4. CASE FirstPage(r)
  <2>1. PICK k \in {"cursor", "offset"}, f \in Statuses \union {AnyStatus},
             dir \in {"asc", "desc"} :
            /\ Begins(r, k)
            /\ GoOn(r, "next", [filter |-> f, direction |-> dir,
                                before |-> Matching(f), returned |-> <<>>,
                                cursor |-> <<>>, page |-> 1])
    BY <1>4 DEF FirstPage
  <2> DEFINE what == [filter |-> f, direction |-> dir,
                      before |-> Matching(f), returned |-> <<>>,
                      cursor |-> <<>>, page |-> 1]
  <2>2. what \in Walk
    <3>1. Matching(f) \in SUBSET Donations
      BY <1>3 DEF ReportsTyped, TypeOK
    <3>2. <<>> \in Seq(Donations)
      BY EmptySeq
    <3> QED
      BY <3>1, <3>2 DEF Walk
  <2>3. UNCHANGED fillAge
    BY <1>4 DEF FirstPage
  <2> HIDE DEF what
  <2>4. GoOn(r, "next", what)
    BY <2>1 DEF what
  <2>5. stage'[r] = "next" /\ seen'[r] = what => ReaderTyped(r)'
    BY <1>1, <2>1, <2>2 DEF Begins, ReaderTyped, FigureKinds
  <2> QED
    BY <1>2, <2>2, <2>3, <2>4, <2>5, GoOnTyped DEF Stages
<1>5. CASE ListCursor(r)
  <2> DEFINE w == seen[r]
             rows == {d \in Matching(w.filter) :
                        w.cursor = <<>>
                          \/ Follows(w.direction, EncodeCursor(d), w.cursor)}
  <2>1. /\ kind[r] = "cursor" /\ stage[r] = "next" /\ UNCHANGED fillAge
        /\ w \in Walk
    BY <1>5 DEF ListCursor, ReportsTyped, ReaderTyped, WalkKinds
  <2>2. PICK q \in OrderedByKey(rows, w.direction) :
            IF FirstOf(q, PageSize) = <<>>
            THEN GoOn(r, "done", w)
            ELSE GoOn(r, "next",
                      [w EXCEPT !.returned = @ \o FirstOf(q, PageSize),
                                !.cursor =
                                    EncodeCursor(Last(FirstOf(q, PageSize)))])
    BY <1>5, Zenon DEF ListCursor
  <2> DEFINE items == FirstOf(q, PageSize)
             c == EncodeCursor(Last(items))
             what == [w EXCEPT !.returned = @ \o items, !.cursor = c]
  <2>3. rows \in SUBSET visible
    BY <1>3
  <2> HIDE DEF rows
  <2>4. /\ items \in Seq(Donations)
        /\ items # <<>> => Last(items) \in rows
    BY <2>2, <2>3, CursorPage
  <2> HIDE DEF w
  <2>5. CASE items = <<>>
    <3>1. GoOn(r, "done", w)
      BY <2>2, <2>5
    <3>2. stage'[r] = "done" /\ seen'[r] = w => ReaderTyped(r)'
      BY <1>1, <2>1 DEF ReaderTyped, FigureKinds
    <3> QED
      BY <1>2, <2>1, <3>1, <3>2, GoOnTyped DEF Stages
  <2>6. CASE items # <<>>
    <3>1. GoOn(r, "next", what)
      BY <2>2, <2>6, Zenon
    <3>2. c \in Stamps \X Donations
      <4>1. Last(items) \in Donations
        BY <2>3, <2>4, <2>6 DEF ReportsTyped, TypeOK
      <4> QED
        BY <4>1, EncodedCursor DEF ReportsTyped
    <3> HIDE DEF items, c
    <3>3. what = [filter |-> w.filter, direction |-> w.direction,
                  before |-> w.before, returned |-> w.returned \o items,
                  cursor |-> c, page |-> w.page]
      BY <2>1, CursorUpdate
    <3> HIDE DEF what
    <3>4. what \in Walk
      BY <2>1, <2>4, <3>2, <3>3, WalkFields DEF Walk
    <3>5. stage'[r] = "next" /\ seen'[r] = what => ReaderTyped(r)'
      BY <1>1, <2>1, <3>4 DEF ReaderTyped, FigureKinds
    <3> QED
      BY <1>2, <2>1, <3>1, <3>4, <3>5, GoOnTyped DEF Stages
  <2> QED
    BY <2>5, <2>6
<1>6. CASE FindMany(r)
  <2> DEFINE w == seen[r]
             rows == Matching(w.filter)
             skipped == Skipped(w.page)
  <2>1. /\ kind[r] = "offset" /\ stage[r] = "next" /\ UNCHANGED fillAge
        /\ w \in Walk
    BY <1>6 DEF FindMany, ReportsTyped, ReaderTyped, WalkKinds
  <2>2. PICK q \in OrderedByTime(rows, w.direction) :
            GoOn(r, "total",
                 [w EXCEPT !.returned = @ \o
                      SubSeq(q, skipped + 1,
                             IF skipped + PageSize < Len(q)
                             THEN skipped + PageSize ELSE Len(q))])
    BY <1>6, Zenon DEF FindMany
  <2> DEFINE last == IF skipped + PageSize < Len(q)
                     THEN skipped + PageSize ELSE Len(q)
             items == SubSeq(q, skipped + 1, last)
             what == [w EXCEPT !.returned = @ \o items]
  <2>3. GoOn(r, "total", what)
    BY <2>2, Zenon
  <2>4. rows \in SUBSET visible
    BY <1>3
  <2>5. items \in Seq(Donations)
    <3>1. skipped \in Nat
      BY <2>1, SkippedRows DEF Walk
    <3> HIDE DEF skipped, rows
    <3> QED
      BY <2>2, <2>4, <3>1, OffsetPage
  <2> HIDE DEF items, w
  <2>6. what = [filter |-> w.filter, direction |-> w.direction,
                before |-> w.before, returned |-> w.returned \o items,
                cursor |-> w.cursor, page |-> w.page]
    BY <2>1, OffsetUpdate
  <2> HIDE DEF what
  <2>7. what \in Walk
    BY <2>1, <2>5, <2>6, WalkFields DEF Walk
  <2>8. stage'[r] = "total" /\ seen'[r] = what => ReaderTyped(r)'
    BY <1>1, <2>1, <2>7 DEF ReaderTyped, FigureKinds
  <2> QED
    BY <1>2, <2>1, <2>3, <2>7, <2>8, GoOnTyped DEF Stages
<1>7. CASE Count(r)
  <2>1. /\ kind[r] = "offset" /\ UNCHANGED fillAge
        /\ seen[r] \in Walk
    BY <1>7 DEF Count, ReportsTyped, ReaderTyped, WalkKinds
  <2>2. \/ GoOn(r, "done", seen[r])
        \/ GoOn(r, "next", [seen[r] EXCEPT !.page = @ + 1])
    BY <1>7 DEF Count
  <2>3. [seen[r] EXCEPT !.page = @ + 1] \in Walk
    BY <2>1 DEF Walk
  <2>4. PICK next \in {"done", "next"}, what \in Walk : GoOn(r, next, what)
    BY <2>1, <2>2, <2>3
  <2>5. stage'[r] = next /\ seen'[r] = what => ReaderTyped(r)'
    BY <1>1, <2>1 DEF ReaderTyped, FigureKinds
  <2> QED
    BY <1>2, <2>1, <2>4, <2>5, GoOnTyped DEF Stages
<1>8. CASE Reply(r)
  <2>1. /\ stage' = [stage EXCEPT ![r] = "idle"]
        /\ seen' = [seen EXCEPT ![r] = NoFigures]
        /\ fillAge' = [fillAge EXCEPT ![r] = 0]
        /\ UNCHANGED dashboard
    BY <1>8 DEF Reply
  <2>2. NoFigures \in Figures
    BY ReportAssumption DEF NoFigures, Figures
  <2>3. /\ stage' \in [Readers -> Stages]
        /\ seen' \in [Readers -> Figures \union Walk]
        /\ fillAge' \in [Readers -> 0..MaxFill]
        /\ stage'[r] = "idle"
    BY <1>2, <2>1, <2>2 DEF ReportsTyped, TypeOK, Stages
  <2>4. ReaderTyped(r)'
    BY <1>1, <2>3 DEF ReaderTyped
  <2> QED
    BY <2>1, <2>3, <2>4, OwnTyped
<1>9. CASE Fill(r)
  BY <1>9 DEF Fill, ReportsTyped, ReaderTyped, TypeOK, Kinds, FigureKinds
<1> QED
  BY <1>4, <1>5, <1>6, <1>7, <1>8, <1>9
     DEF ReaderStep, GetMetrics, DashboardMetrics, FindCampaign, FindById,
         GetCampaignProgress, Begins, FigureKinds

LEMMA TickTyped ==
    ASSUME ReportsTyped, Tick
    PROVE  ReportsTyped'
<1>1. /\ fillAge' = [r \in Readers |-> IF Filling(r) THEN fillAge[r] + 1
                                                     ELSE fillAge[r]]
      /\ age' = [d \in Donations |->
              IF d \in visible /\ age[d] < TtlMs + MaxFill THEN age[d] + 1
                                                           ELSE age[d]]
      /\ cacheLeft' = IF cacheLeft > 0 THEN cacheLeft - 1 ELSE 0
      /\ cache' = IF cacheLeft > 1 THEN cache ELSE NoFigures
      /\ UNCHANGED <<visible, createdAt, status, kind, stage, seen>>
  BY DEF Tick
<1>2. fillAge' \in [Readers -> 0..MaxFill]
  <2>1. \A r \in Readers : Filling(r) => fillAge[r] < MaxFill
    BY DEF Tick
  <2> QED
    BY <1>1, <2>1, ReportAssumption DEF ReportsTyped, TypeOK
<1>3. age' \in [Donations -> 0..(TtlMs + MaxFill)]
  BY <1>1, ReportAssumption DEF ReportsTyped, TypeOK
<1>4. cacheLeft' \in 0..TtlMs
  BY <1>1, ReportAssumption DEF ReportsTyped, TypeOK
<1>5. cache' \in Figures
  BY <1>1, ReportAssumption DEF ReportsTyped, TypeOK, NoFigures, Figures
<1> QED
  BY <1>1, <1>2, <1>3, <1>4, <1>5 DEF ReportsTyped, TypeOK, ReaderTyped

LEMMA ReportsStep ==
    ASSUME ReportsTyped, [Next]_vars
    PROVE  ReportsTyped'
<1>1. CASE TableStep
  <2>1. PICK d \in Donations : CreatePending(d) \/ Settle(d)
    BY <1>1 DEF TableStep
  <2>2. 0 \in 0..(TtlMs + MaxFill)
    BY ReportAssumption
  <2>3. CASE CreatePending(d)
    <3>1. IsFiniteSet(visible')
      BY <2>3, FS_AddElement DEF CreatePending, ReportsTyped
    <3> QED
      BY <2>2, <2>3, <3>1
         DEF CreatePending, ReportsTyped, TypeOK, ReaderTyped, reader,
             dashboard
  <2>4. CASE Settle(d)
    BY <2>2, <2>4 DEF Settle, ReportsTyped, TypeOK, ReaderTyped, reader,
                      dashboard, Statuses
  <2> QED
    BY <2>1, <2>3, <2>4
<1>2. CASE \E r \in Readers : ReaderStep(r)
  BY <1>2, FiguresTyped, WalksTyped
<1>3. CASE Tick
  BY <1>3, TickTyped
<1>4. CASE UNCHANGED vars
  BY <1>4 DEF vars, table, reader, dashboard, ReportsTyped, TypeOK,
              ReaderTyped
<1> QED
  BY <1>1, <1>2, <1>3, <1>4, NextCases

(* Whatever is read and however it interleaves, the table, the readers and *)
(* the dashboard's cache keep their types: a fill never takes the cache's  *)
(* entry beyond its life.                                                  *)
THEOREM ReportsTypeCorrect == Spec => []TypeOK
<1>1. ReportsTyped => TypeOK
  BY DEF ReportsTyped
<1>2. ReportsTyped /\ [Next]_vars => ReportsTyped'
  BY ReportsStep
<1> QED
  BY ReportsInitially, <1>1, <1>2, PTL DEF Spec

-----------------------------------------------------------------------------
(* The figures of one answer. *)
LEMMA NestedFrame ==
    ASSUME ReportsTyped, [Next]_vars, NEW r \in Readers, FiguresNested(r),
           stage'[r] = stage[r], seen'[r] = seen[r]
    PROVE  FiguresNested(r)'
<1>1. /\ kind' = kind
      /\ visible \subseteq visible'
      /\ Succeeded \subseteq Succeeded'
      /\ \A d \in visible : createdAt'[d] = createdAt[d]
  BY TableGrows DEF ReportsTyped
<1> QED
  BY <1>1 DEF FiguresNested, RaisedRead, CountedRead, NewestRead, DonorsRead

LEMMA NestedOwn ==
    ASSUME ReportsTyped, NEW r \in Readers, ReaderStep(r), FiguresNested(r)
    PROVE  FiguresNested(r)'
<1>1. /\ UNCHANGED <<visible, createdAt, status, kind>>
      /\ Succeeded' = Succeeded
      /\ Succeeded \subseteq visible
  BY ReaderFrame DEF ReportsTyped, Succeeded
<1>2. SUFFICES ASSUME kind[r] \in FigureKinds
               PROVE  FiguresNested(r)'
  BY <1>1 DEF FiguresNested
<1>3. stage \in [Readers -> Stages] /\ seen \in [Readers -> Figures \union Walk]
  BY DEF ReportsTyped, TypeOK
<1>4. seen[r] \in Figures
  BY <1>2 DEF ReportsTyped, ReaderTyped
<1> USE DEF FiguresNested, RaisedRead, CountedRead, NewestRead, DonorsRead
<1>5. CASE GetMetrics(r)
  <2>1. CASE cacheLeft > 0
    BY <1>1, <1>5, <2>1 DEF GetMetrics, vars, reader, table
  <2>2. CASE ~(cacheLeft > 0)
    <3> DEFINE what == [NoFigures EXCEPT !.before = Succeeded]
    <3>1. stage'[r] = "raised" /\ seen'[r] = what
      BY <1>3, <1>5, <2>2 DEF GetMetrics, GoOn
    <3>2. kind[r] = "dashboard" /\ what.before = Succeeded
      BY <1>5 DEF GetMetrics, Begins, NoFigures
    <3> HIDE DEF what
    <3> QED
      BY <1>1, <3>1, <3>2
  <2> QED
    BY <2>1, <2>2
<1>6. CASE DashboardMetrics(r)
  <2>1. kind[r] = "dashboard"
    BY <1>6 DEF DashboardMetrics
  <2>2. CASE /\ stage[r] = "raised"
             /\ GoOn(r, "counted", [seen[r] EXCEPT !.raised = Succeeded])
    <3> DEFINE what == [seen[r] EXCEPT !.raised = Succeeded]
    <3>1. stage'[r] = "counted" /\ seen'[r] = what
      BY <1>3, <2>2 DEF GoOn
    <3>2. what.before = seen[r].before /\ what.raised = Succeeded
      BY <1>4 DEF Figures
    <3> HIDE DEF what
    <3> QED
      BY <1>1, <2>1, <2>2, <3>1, <3>2, <1>2
  <2>3. CASE /\ stage[r] = "counted"
             /\ GoOn(r, "newest", [seen[r] EXCEPT !.counted = visible])
    <3> DEFINE what == [seen[r] EXCEPT !.counted = visible]
    <3>1. stage'[r] = "newest" /\ seen'[r] = what
      BY <1>3, <2>3 DEF GoOn
    <3>2. /\ what.before = seen[r].before
          /\ what.raised = seen[r].raised
          /\ what.counted = visible
      BY <1>4 DEF Figures
    <3> HIDE DEF what
    <3> QED
      BY <1>1, <2>1, <2>3, <3>1, <3>2, <1>2
  <2>4. ASSUME stage[r] = "newest", NEW t \in Stamps \union {0},
               \A d \in visible : createdAt[d] <= t,
               GoOn(r, "donors", [seen[r] EXCEPT !.newest = t])
        PROVE  FiguresNested(r)'
    <3> DEFINE what == [seen[r] EXCEPT !.newest = t]
    <3>1. stage'[r] = "donors" /\ seen'[r] = what
      BY <1>3, <2>4 DEF GoOn
    <3>2. /\ what.before = seen[r].before
          /\ what.raised = seen[r].raised
          /\ what.counted = seen[r].counted
          /\ what.newest = t
      BY <1>4 DEF Figures
    <3> HIDE DEF what
    <3> QED
      BY <1>1, <2>1, <2>4, <3>1, <3>2, <1>2
  <2>5. CASE /\ stage[r] = "donors"
             /\ GoOn(r, "fill", [seen[r] EXCEPT !.donors = visible])
    <3> DEFINE what == [seen[r] EXCEPT !.donors = visible]
    <3>1. stage'[r] = "fill" /\ seen'[r] = what
      BY <1>3, <2>5 DEF GoOn
    <3>2. /\ what.before = seen[r].before
          /\ what.raised = seen[r].raised
          /\ what.counted = seen[r].counted
          /\ what.newest = seen[r].newest
          /\ what.donors = visible
      BY <1>4 DEF Figures
    <3> HIDE DEF what
    <3> QED
      BY <1>1, <2>1, <2>5, <3>1, <3>2, <1>2
  <2> QED
    BY <1>6, <2>2, <2>3, <2>4, <2>5 DEF DashboardMetrics
<1>7. CASE Fill(r)
  <2>1. /\ stage[r] = "fill"
        /\ stage'[r] = "done"
        /\ seen'[r] = seen[r]
        /\ kind[r] = "dashboard"
    BY <1>2, <1>3, <1>7 DEF Fill, ReportsTyped, ReaderTyped, FigureKinds
  <2> QED
    BY <1>1, <2>1
<1>8. CASE FindCampaign(r)
  <2> DEFINE what == [NoFigures EXCEPT !.before = Succeeded,
                                       !.raised = Succeeded]
  <2>1. PICK k \in {"page", "campaigns"} :
            /\ kind[r] = k
            /\ stage'[r] = (IF k = "page" THEN "id" ELSE "counted")
            /\ seen'[r] = what
    BY <1>3, <1>8 DEF FindCampaign, Begins, GoOn
  <2>2. what.before = Succeeded /\ what.raised = Succeeded
    BY DEF NoFigures
  <2> HIDE DEF what
  <2> QED
    BY <1>1, <2>1, <2>2
<1>9. CASE FindById(r)
  <2>1. /\ kind[r] = "page"
        /\ stage[r] = "id"
        /\ stage'[r] = "counted"
        /\ seen'[r] = seen[r]
    BY <1>3, <1>9 DEF FindById, GoOn
  <2> QED
    BY <1>1, <1>2, <2>1
<1>10. CASE GetCampaignProgress(r)
  <2>1. kind[r] \in {"page", "campaigns"}
    BY <1>10 DEF GetCampaignProgress
  <2>2. CASE /\ stage[r] = "counted"
             /\ GoOn(r, "donors", [seen[r] EXCEPT !.counted = Succeeded])
    <3> DEFINE what == [seen[r] EXCEPT !.counted = Succeeded]
    <3>1. stage'[r] = "donors" /\ seen'[r] = what
      BY <1>3, <2>2 DEF GoOn
    <3>2. /\ what.before = seen[r].before
          /\ what.raised = seen[r].raised
          /\ what.counted = Succeeded
      BY <1>4 DEF Figures
    <3> HIDE DEF what
    <3> QED
      BY <1>1, <1>2, <2>1, <2>2, <3>1, <3>2
  <2>3. CASE /\ stage[r] = "donors"
             /\ GoOn(r, "done", [seen[r] EXCEPT !.donors = Succeeded])
    <3> DEFINE what == [seen[r] EXCEPT !.donors = Succeeded]
    <3>1. stage'[r] = "done" /\ seen'[r] = what
      BY <1>3, <2>3 DEF GoOn
    <3>2. /\ what.before = seen[r].before
          /\ what.raised = seen[r].raised
          /\ what.counted = seen[r].counted
          /\ what.donors = Succeeded
      BY <1>4 DEF Figures
    <3> HIDE DEF what
    <3> QED
      BY <1>1, <1>2, <2>1, <2>3, <3>1, <3>2
  <2> QED
    BY <1>10, <2>2, <2>3 DEF GetCampaignProgress
<1>11. CASE Reply(r)
  BY <1>3, <1>11 DEF Reply
<1> QED
  BY <1>2, <1>5, <1>6, <1>7, <1>8, <1>9, <1>10, <1>11
     DEF ReaderStep, FirstPage, ListCursor, FindMany, Count, Begins,
         FigureKinds

LEMMA SameReader ==
    ASSUME TypeOK, NEW r \in Readers,
           TableStep \/ Tick \/ UNCHANGED vars
    PROVE  kind'[r] = kind[r] /\ stage'[r] = stage[r] /\ seen'[r] = seen[r]
BY DEF TableStep, CreatePending, Settle, Tick, vars, reader

AllNested == ReportsTyped /\ \A r \in Readers : FiguresNested(r)

LEMMA NestedStep ==
    ASSUME AllNested, [Next]_vars
    PROVE  AllNested'
<1>1. ReportsTyped'
  BY ReportsStep DEF AllNested
<1>2. ASSUME NEW r \in Readers
      PROVE  FiguresNested(r)'
  <2>1. CASE TableStep \/ Tick \/ UNCHANGED vars
    BY <2>1, SameReader, NestedFrame DEF AllNested, ReportsTyped
  <2>2. ASSUME NEW q \in Readers, ReaderStep(q)
        PROVE  FiguresNested(r)'
    <3>1. CASE q = r
      BY <2>2, <3>1, NestedOwn DEF AllNested
    <3>2. CASE q # r
      BY <2>2, <3>2, ReaderFrame, NestedFrame DEF AllNested, ReportsTyped
    <3> QED
      BY <3>1, <3>2
  <2> QED
    BY <2>1, <2>2, NextCases
<1> QED
  BY <1>1, <1>2 DEF AllNested

(* The figures of one answer never contradict one another, for any number  *)
(* of readers, and of donations that come in and settle between their      *)
(* statements: each set read includes those read before it.                *)
THEOREM FiguresAgreeHolds == Spec => []FiguresAgree
<1>1. Init => AllNested
  BY ReportsInitially DEF Init, AllNested, FiguresNested
<1>2. AllNested => FiguresAgree
  BY DEF AllNested, FiguresNested, FiguresAgree, Agree, FigureKinds,
         RaisedRead, CountedRead, NewestRead, DonorsRead
<1>3. AllNested /\ [Next]_vars => AllNested'
  BY NestedStep
<1> QED
  BY <1>1, <1>2, <1>3, PTL DEF Spec

-----------------------------------------------------------------------------
(* The age of the dashboard. *)
AllRecent ==
    ReportsTyped /\ CacheIsRecent /\ \A r \in Readers : FillIsRecent(r)

LEMMA RecentNumbers ==
    ASSUME ReportsTyped
    PROVE  /\ \A r \in Readers : fillAge[r] \in Nat /\ fillAge[r] <= MaxFill
           /\ \A d \in visible : d \in Donations /\ age[d] \in Nat
           /\ cacheLeft \in Nat /\ cacheLeft <= TtlMs
           /\ MaxFill \in Nat /\ TtlMs \in Nat
BY ReportAssumption DEF ReportsTyped, TypeOK

(* A row that comes in or settles is new again. *)
LEMMA TableKeepsRecent ==
    ASSUME AllRecent, TableStep
    PROVE  CacheIsRecent' /\ \A r \in Readers : FillIsRecent(r)'
<1>1. PICK e \in Donations : CreatePending(e) \/ Settle(e)
  BY DEF TableStep
<1>2. /\ UNCHANGED <<kind, stage, seen, fillAge, cache, cacheLeft>>
      /\ age'[e] = 0
      /\ \A d \in visible' \ {e} : /\ d \in visible
                                   /\ age'[d] = age[d]
                                   /\ createdAt'[d] = createdAt[d]
                                   /\ status'[d] = status[d]
  BY <1>1 DEF CreatePending, Settle, reader, dashboard, AllRecent,
              ReportsTyped, TypeOK
<1>3. CacheIsRecent'
  BY <1>2, RecentNumbers DEF AllRecent, CacheIsRecent
<1>4. \A r \in Readers : FillIsRecent(r)'
  BY <1>2, RecentNumbers
     DEF AllRecent, FillIsRecent, Filling, RaisedRead, CountedRead,
         NewestRead, DonorsRead
<1> QED
  BY <1>3, <1>4

(* Time makes rows, fills and the cache older together. *)
LEMMA TickKeepsRecent ==
    ASSUME AllRecent, Tick
    PROVE  CacheIsRecent' /\ \A r \in Readers : FillIsRecent(r)'
<1>1. /\ UNCHANGED <<visible, createdAt, status, kind, stage, seen>>
      /\ cacheLeft' = IF cacheLeft > 0 THEN cacheLeft - 1 ELSE 0
      /\ cache' = IF cacheLeft > 1 THEN cache ELSE NoFigures
      /\ \A r \in Readers : fillAge'[r] = IF Filling(r) THEN fillAge[r] + 1
                                                        ELSE fillAge[r]
      /\ \A d \in visible : age'[d] \in {age[d], age[d] + 1}
  BY DEF Tick, AllRecent, ReportsTyped, TypeOK
<1>2. CacheIsRecent'
  <2> SUFFICES ASSUME cacheLeft' > 0, NEW d \in visible,
                      age'[d] > MaxFill + TtlMs - cacheLeft'
               PROVE  /\ status[d] = "SUCCEEDED" => d \in cache'.raised
                      /\ d \in cache'.counted
                      /\ createdAt[d] <= cache'.newest
                      /\ d \in cache'.donors
    BY <1>1 DEF CacheIsRecent
  <2>1. cacheLeft > 1 /\ cache' = cache /\ cacheLeft' = cacheLeft - 1
    BY <1>1, RecentNumbers DEF AllRecent
  <2>2. age[d] > MaxFill + TtlMs - cacheLeft
    BY <1>1, <2>1, RecentNumbers DEF AllRecent
  <2> QED
    BY <2>1, <2>2, RecentNumbers DEF AllRecent, CacheIsRecent
<1>3. ASSUME NEW r \in Readers
      PROVE  FillIsRecent(r)'
  <2> SUFFICES ASSUME Filling(r), NEW d \in visible, age'[d] > fillAge'[r]
               PROVE  /\ RaisedRead(r) /\ status[d] = "SUCCEEDED"
                            => d \in seen[r].raised
                      /\ CountedRead(r) => d \in seen[r].counted
                      /\ NewestRead(r) => createdAt[d] <= seen[r].newest
                      /\ DonorsRead(r) => d \in seen[r].donors
    BY <1>1 DEF FillIsRecent, Filling, RaisedRead, CountedRead, NewestRead,
                DonorsRead
  <2>1. age[d] > fillAge[r]
    BY <1>1, RecentNumbers DEF AllRecent
  <2> QED
    BY <2>1 DEF AllRecent, FillIsRecent
<1> QED
  BY <1>2, <1>3

(* A statement of a fill reads every row there is. *)
LEMMA FillKeepsRecent ==
    ASSUME AllRecent, NEW r \in Readers, ReaderStep(r)
    PROVE  FillIsRecent(r)'
<1>1. UNCHANGED <<visible, createdAt, status, age, kind>>
  BY ReaderFrame DEF AllRecent, ReportsTyped
<1>2. SUFFICES ASSUME kind[r] = "dashboard"
               PROVE  FillIsRecent(r)'
  BY <1>1 DEF FillIsRecent, Filling
<1>3. /\ stage \in [Readers -> Stages]
      /\ seen \in [Readers -> Figures \union Walk]
      /\ fillAge \in [Readers -> 0..MaxFill]
  BY DEF AllRecent, ReportsTyped, TypeOK
<1>4. seen[r] \in Figures
  BY <1>2 DEF AllRecent, ReportsTyped, ReaderTyped, FigureKinds
<1> USE DEF FillIsRecent, Filling, RaisedRead, CountedRead, NewestRead,
            DonorsRead
<1>5. FillIsRecent(r)
  BY DEF AllRecent
<1>6. CASE GetMetrics(r)
  <2>1. CASE cacheLeft > 0
    BY <1>1, <1>5, <1>6, <2>1 DEF GetMetrics, vars, reader, table
  <2>2. CASE ~(cacheLeft > 0)
    <3>1. stage'[r] = "raised"
      BY <1>3, <1>6, <2>2 DEF GetMetrics, GoOn
    <3> QED
      BY <1>1, <1>2, <3>1
  <2> QED
    BY <2>1, <2>2
<1>7. CASE DashboardMetrics(r)
  <2>1. fillAge' = fillAge
    BY <1>7 DEF DashboardMetrics
  <2>2. CASE /\ stage[r] = "raised"
             /\ GoOn(r, "counted", [seen[r] EXCEPT !.raised = Succeeded])
    <3> DEFINE what == [seen[r] EXCEPT !.raised = Succeeded]
    <3>1. stage'[r] = "counted" /\ seen'[r] = what
      BY <1>3, <2>2 DEF GoOn
    <3>2. what.raised = Succeeded
      BY <1>4 DEF Figures
    <3> HIDE DEF what
    <3> QED
      BY <1>1, <1>2, <3>1, <3>2 DEF Succeeded
  <2>3. CASE /\ stage[r] = "counted"
             /\ GoOn(r, "newest", [seen[r] EXCEPT !.counted = visible])
    <3> DEFINE what == [seen[r] EXCEPT !.counted = visible]
    <3>1. stage'[r] = "newest" /\ seen'[r] = what
      BY <1>3, <2>3 DEF GoOn
    <3>2. what.raised = seen[r].raised /\ what.counted = visible
      BY <1>4 DEF Figures
    <3> HIDE DEF what
    <3> QED
      BY <1>1, <1>2, <1>5, <2>1, <2>3, <3>1, <3>2
  <2>4. ASSUME stage[r] = "newest", NEW t \in Stamps \union {0},
               \A d \in visible : createdAt[d] <= t,
               GoOn(r, "donors", [seen[r] EXCEPT !.newest = t])
        PROVE  FillIsRecent(r)'
    <3> DEFINE what == [seen[r] EXCEPT !.newest = t]
    <3>1. stage'[r] = "donors" /\ seen'[r] = what
      BY <1>3, <2>4 DEF GoOn
    <3>2. /\ what.raised = seen[r].raised
          /\ what.counted = seen[r].counted
          /\ what.newest = t
      BY <1>4 DEF Figures
    <3> HIDE DEF what
    <3> QED
      BY <1>1, <1>2, <1>5, <2>1, <2>4, <3>1, <3>2
  <2>5. CASE /\ stage[r] = "donors"
             /\ GoOn(r, "fill", [seen[r] EXCEPT !.donors = visible])
    <3> DEFINE what == [seen[r] EXCEPT !.donors = visible]
    <3>1. stage'[r] = "fill" /\ seen'[r] = what
      BY <1>3, <2>5 DEF GoOn
    <3>2. /\ what.raised = seen[r].raised
          /\ what.counted = seen[r].counted
          /\ what.newest = seen[r].newest
          /\ what.donors = visible
      BY <1>4 DEF Figures
    <3> HIDE DEF what
    <3> QED
      BY <1>1, <1>2, <1>5, <2>1, <2>5, <3>1, <3>2
  <2> QED
    BY <1>7, <2>2, <2>3, <2>4, <2>5 DEF DashboardMetrics
<1>8. CASE Fill(r)
  BY <1>3, <1>8 DEF Fill
<1>9. CASE Reply(r)
  BY <1>3, <1>9 DEF Reply
<1> QED
  BY <1>2, <1>6, <1>7, <1>8, <1>9
     DEF ReaderStep, FindCampaign, FindById, GetCampaignProgress, FirstPage,
         ListCursor, FindMany, Count, Begins

(* A fill took at most MaxFill, so what it leaves in the cache has every   *)
(* row that was older than that.                                           *)
LEMMA FillKeepsCache ==
    ASSUME AllRecent, NEW r \in Readers, ReaderStep(r)
    PROVE  CacheIsRecent'
<1>1. /\ UNCHANGED <<visible, createdAt, status, age, kind>>
      /\ Fill(r) \/ UNCHANGED dashboard
  BY ReaderFrame DEF AllRecent, ReportsTyped
<1>2. CASE UNCHANGED dashboard
  BY <1>1, <1>2 DEF dashboard, AllRecent, CacheIsRecent
<1>3. CASE Fill(r)
  <2>1. stage[r] = "fill" /\ cache' = seen[r] /\ cacheLeft' = TtlMs
    BY <1>3 DEF Fill
  <2>2. kind[r] = "dashboard"
    BY <2>1 DEF AllRecent, ReportsTyped, ReaderTyped, TypeOK, Kinds
  <2>3. ASSUME NEW d \in visible, age[d] > MaxFill + TtlMs - TtlMs
        PROVE  age[d] > fillAge[r]
    BY <2>3, RecentNumbers DEF AllRecent
  <2>4. ASSUME NEW d \in visible, age[d] > MaxFill + TtlMs - TtlMs
        PROVE  /\ status[d] = "SUCCEEDED" => d \in seen[r].raised
               /\ d \in seen[r].counted
               /\ createdAt[d] <= seen[r].newest
               /\ d \in seen[r].donors
    BY <2>1, <2>2, <2>3, <2>4
       DEF AllRecent, FillIsRecent, Filling, RaisedRead, CountedRead,
           NewestRead, DonorsRead
  <2> QED
    BY <1>1, <2>1, <2>4 DEF CacheIsRecent
<1> QED
  BY <1>1, <1>2, <1>3

LEMMA RecentStep ==
    ASSUME AllRecent, [Next]_vars
    PROVE  AllRecent'
<1>1. ReportsTyped'
  BY ReportsStep DEF AllRecent
<1>2. CASE TableStep
  BY <1>1, <1>2, TableKeepsRecent DEF AllRecent
<1>3. CASE Tick
  BY <1>1, <1>3, TickKeepsRecent DEF AllRecent
<1>4. ASSUME NEW q \in Readers, ReaderStep(q)
      PROVE  AllRecent'
  <2>1. CacheIsRecent' /\ FillIsRecent(q)'
    BY <1>4, FillKeepsCache, FillKeepsRecent
  <2>2. ASSUME NEW r \in Readers \ {q}
        PROVE  FillIsRecent(r)'
    <3>1. /\ UNCHANGED <<visible, createdAt, status, age, kind>>
          /\ stage'[r] = stage[r]
          /\ seen'[r] = seen[r]
          /\ fillAge'[r] = fillAge[r]
      BY <1>4, <2>2, ReaderFrame DEF AllRecent, ReportsTyped
    <3> QED
      BY <3>1 DEF AllRecent, FillIsRecent, Filling, RaisedRead, CountedRead,
                  NewestRead, DonorsRead
  <2> QED
    BY <1>1, <2>1, <2>2 DEF AllRecent
<1>5. CASE UNCHANGED vars
  BY <1>1, <1>5
     DEF vars, table, reader, dashboard, AllRecent, CacheIsRecent,
         FillIsRecent, Filling, RaisedRead, CountedRead, NewestRead,
         DonorsRead
<1> QED
  BY <1>2, <1>3, <1>4, <1>5, NextCases

(* The dashboard shows every donation and every success that is as old as  *)
(* the cache's life and a fill together, for any number of overlapping     *)
(* fills that overwrite one another's entries in any order.                *)
THEOREM DashboardIsRecentHolds == Spec => []DashboardIsRecent
<1>1. Init => AllRecent
  BY ReportsInitially
     DEF Init, AllRecent, CacheIsRecent, FillIsRecent, Filling
<1>2. AllRecent => DashboardIsRecent
  <2> SUFFICES ASSUME AllRecent, cacheLeft > 0, NEW d \in visible,
                      age[d] = TtlMs + MaxFill
               PROVE  /\ d \in cache.counted \intersect cache.donors
                      /\ createdAt[d] <= cache.newest
                      /\ status[d] = "SUCCEEDED" => d \in cache.raised
    BY DEF DashboardIsRecent
  <2>1. age[d] > MaxFill + TtlMs - cacheLeft
    BY RecentNumbers DEF AllRecent
  <2> QED
    BY <2>1 DEF AllRecent, CacheIsRecent
<1>3. AllRecent /\ [Next]_vars => AllRecent'
  BY RecentStep
<1> QED
  BY <1>1, <1>2, <1>3, PTL DEF Spec

-----------------------------------------------------------------------------
(* The order that cursors follow is a strict total order of the keys.      *)
LEMMA KeyIsPair ==
    ASSUME NEW k \in Stamps \X Donations
    PROVE  k = <<k[1], k[2]>> /\ k[1] \in Int /\ k[2] \in Int
<1>1. k = <<k[1], k[2]>> /\ k[1] \in Stamps /\ k[2] \in Donations
  OBVIOUS
<1>2. k[1] \in Int
  BY <1>1 DEF Stamps
<1>3. Donations \subseteq Int
  BY ReportAssumption
<1>4. k[2] \in Int
  BY <1>1, <1>3, Zenon
<1> QED
  BY <1>1, <1>2, <1>4, Zenon

LEMMA FollowsOrder ==
    ASSUME NEW dir, NEW k \in Stamps \X Donations,
           NEW c \in Stamps \X Donations, NEW e \in Stamps \X Donations
    PROVE  /\ ~Follows(dir, k, k)
           /\ Follows(dir, k, c) /\ Follows(dir, c, e) => Follows(dir, k, e)
           /\ k # c => Follows(dir, k, c) \/ Follows(dir, c, k)
<1>1. /\ k[1] \in Int /\ k[2] \in Int
      /\ c[1] \in Int /\ c[2] \in Int
      /\ e[1] \in Int /\ e[2] \in Int
  BY KeyIsPair, Zenon
<1>2. k # c => k[1] # c[1] \/ k[2] # c[2]
  BY KeyIsPair, Zenon
<1> QED
  BY <1>1, <1>2 DEF Follows, Above

(* No row enters the list of PENDING rows again, none leaves another one.  *)
LEMMA ListsGrow ==
    ASSUME TypeOK, [Next]_vars
    PROVE  /\ \A f : f # "PENDING" => Matching(f) \subseteq Matching(f)'
           /\ \A d \in visible :
                d \in Matching("PENDING")' => d \in Matching("PENDING")
BY TableGrows DEF Matching, AnyStatus

LEMMA WalkFrame ==
    ASSUME ReportsTyped, [Next]_vars, NEW r \in Readers,
           WalkStarted(r), AtCursor(r), AtPage(r),
           stage'[r] = stage[r], seen'[r] = seen[r], ReportsTyped'
    PROVE  WalkStarted(r)' /\ AtCursor(r)' /\ AtPage(r)'
<1>1. /\ kind' = kind
      /\ visible \subseteq visible'
      /\ \A d \in visible : createdAt'[d] = createdAt[d]
  BY TableGrows DEF ReportsTyped
<1>2. SUFFICES ASSUME kind[r] \in WalkKinds, stage[r] # "idle"
               PROVE  WalkStarted(r)' /\ AtCursor(r)' /\ AtPage(r)'
  BY <1>1 DEF WalkStarted, AtCursor, AtPage, WalkKinds
<1> DEFINE w == seen[r]
<1>3. /\ w.before \subseteq visible
      /\ w.filter # "PENDING" => w.before \subseteq Matching(w.filter)
      /\ Returned(w) \subseteq visible
  BY <1>2 DEF WalkStarted
<1>4. w.filter # "PENDING" => Matching(w.filter) \subseteq Matching(w.filter)'
  BY ListsGrow DEF ReportsTyped
<1>5. WalkStarted(r)'
  BY <1>1, <1>3, <1>4 DEF WalkStarted, Returned, Range
<1>6. AtCursor(r)'
  <2> SUFFICES ASSUME kind[r] = "cursor"
               PROVE  AtCursor(r)'
    BY <1>1 DEF AtCursor
  <2>1. \A d \in visible : EncodeCursor(d)' = EncodeCursor(d)
    BY <1>1 DEF EncodeCursor
  <2>2. \A d \in w.before : d \in Matching(w.filter)' => d \in Matching(w.filter)
    <3>1. CASE w.filter = "PENDING"
      BY <1>3, <3>1, ListsGrow DEF ReportsTyped
    <3>2. CASE w.filter # "PENDING"
      BY <1>3, <3>2
    <3> QED
      BY <3>1, <3>2
  <2>3. AtCursor(r)
    OBVIOUS
  <2>4. ASSUME NEW d \in Returned(w)
        PROVE  /\ w.cursor # <<>>
               /\ ~Follows(w.direction, EncodeCursor(d)', w.cursor)
    <3>1. EncodeCursor(d)' = EncodeCursor(d)
      BY <1>3, <2>1
    <3> QED
      BY <1>2, <2>3, <3>1 DEF AtCursor
  <2>5. ASSUME NEW d \in w.before, d \in Matching(w.filter)'
        PROVE  \/ d \in Returned(w)
               \/ /\ stage[r] = "next"
                  /\ \/ w.cursor = <<>>
                     \/ Follows(w.direction, EncodeCursor(d)', w.cursor)
    <3>1. EncodeCursor(d)' = EncodeCursor(d) /\ d \in Matching(w.filter)
      BY <1>3, <2>1, <2>2, <2>5
    <3> QED
      BY <1>2, <2>3, <2>5, <3>1 DEF AtCursor
  <2>6. IsInjective(w.returned)
    BY <1>2, <2>3 DEF AtCursor
  <2> QED
    BY <1>1, <1>2, <2>4, <2>5, <2>6 DEF AtCursor, Returned, Range, Follows, IsInjective
<1>7. AtPage(r)'
  <2> SUFFICES ASSUME kind[r] = "offset", w.filter # "PENDING",
                      NEW d \in w.before, Untied(d)', d \notin Returned(w)
               PROVE  \/ /\ stage[r] = "next"
                         /\ Cardinality(Earlier(w.filter, w.direction, d)')
                              >= Skipped(w.page)
                      \/ /\ stage[r] = "total"
                         /\ Cardinality(Earlier(w.filter, w.direction, d)')
                              >= w.page * PageSize
    BY <1>1 DEF AtPage, Returned, Range, Skipped
  <2>1. d \in visible /\ Untied(d)
    BY <1>1, <1>3 DEF Untied
  <2> DEFINE before == Earlier(w.filter, w.direction, d)
             after == Earlier(w.filter, w.direction, d)'
  <2>2. before \subseteq after
    BY <1>1, <1>4, <2>1 DEF Earlier, Matching
  <2>3. IsFiniteSet(after)
    <3>1. after \subseteq visible'
      BY DEF Earlier, Matching
    <3> QED
      BY <3>1, FS_Subset DEF ReportsTyped
  <2>4. /\ Cardinality(before) \in Nat
        /\ Cardinality(after) \in Nat
        /\ Cardinality(before) <= Cardinality(after)
    BY <2>2, <2>3, FS_Subset, FS_CardinalityType
  <2>5. \/ stage[r] = "next" /\ Cardinality(before) >= Skipped(w.page)
        \/ stage[r] = "total" /\ Cardinality(before) >= w.page * PageSize
    BY <1>2, <2>1 DEF AtPage
  <2>6. Skipped(w.page) \in Nat /\ w.page * PageSize \in Nat
    <3>1. w.page \in Nat \ {0}
      BY <1>2 DEF ReportsTyped, ReaderTyped, Walk
    <3>2. w.page * PageSize \in Nat
      BY <3>1, ReportAssumption
    <3> QED
      BY <3>1, <3>2, SkippedRows
  <2> HIDE DEF before, after
  <2>7. \/ stage[r] = "next" /\ Cardinality(after) >= Skipped(w.page)
        \/ stage[r] = "total" /\ Cardinality(after) >= w.page * PageSize
    BY <2>4, <2>5, <2>6
  <2> QED
    BY <2>7 DEF after
<1> QED
  BY <1>5, <1>6, <1>7

-----------------------------------------------------------------------------
(* A page added to what was returned. *)
LEMMA PageAdded ==
    ASSUME NEW S, NEW s \in Seq(S), NEW t \in Seq(S)
    PROVE  /\ Range(s \o t) = Range(s) \union Range(t)
           /\ (/\ IsInjective(s)
               /\ IsInjective(t)
               /\ Range(s) \intersect Range(t) = {})
                 => IsInjective(s \o t)
<1>1. /\ Len(s) \in Nat /\ DOMAIN s = 1..Len(s)
      /\ Len(t) \in Nat /\ DOMAIN t = 1..Len(t)
  BY LenProperties
<1>2. /\ DOMAIN (s \o t) = 1..(Len(s) + Len(t))
      /\ \A i \in 1..(Len(s) + Len(t)) :
            (s \o t)[i] = IF i <= Len(s) THEN s[i] ELSE t[i - Len(s)]
  <2>1. /\ s \o t \in Seq(S)
        /\ Len(s \o t) = Len(s) + Len(t)
        /\ \A i \in 1..(Len(s) + Len(t)) :
              (s \o t)[i] = IF i <= Len(s) THEN s[i] ELSE t[i - Len(s)]
    BY ConcatProperties
  <2> QED
    BY <2>1, LenProperties
<1> DEFINE st == s \o t
<1> HIDE DEF st
<1>3. \A i \in 1..Len(s) : i \in DOMAIN st /\ st[i] = s[i]
  BY <1>1, <1>2 DEF st
<1>4. \A i \in 1..Len(t) : i + Len(s) \in DOMAIN st /\ st[i + Len(s)] = t[i]
  BY <1>1, <1>2 DEF st
<1>5. \A i \in DOMAIN st :
          \/ i \in DOMAIN s /\ st[i] = s[i]
          \/ /\ i - Len(s) \in DOMAIN t
             /\ st[i] = t[i - Len(s)]
             /\ i \in Int
  BY <1>1, <1>2 DEF st
<1>6. Range(st) = Range(s) \union Range(t)
  BY <1>1, <1>3, <1>4, <1>5 DEF Range
<1>7. ASSUME IsInjective(s), IsInjective(t),
             Range(s) \intersect Range(t) = {},
             NEW i \in DOMAIN st, NEW j \in DOMAIN st, st[i] = st[j]
      PROVE  i = j
  <2>1. \A x \in DOMAIN s, y \in DOMAIN t : s[x] # t[y]
    BY <1>7 DEF Range
  <2>2. CASE i \in DOMAIN s /\ st[i] = s[i]
    <3>1. j \in DOMAIN s /\ st[j] = s[j]
      BY <1>5, <1>7, <2>1, <2>2
    <3> QED
      BY <1>7, <2>2, <3>1 DEF IsInjective
  <2>3. CASE i - Len(s) \in DOMAIN t /\ st[i] = t[i - Len(s)] /\ i \in Int
    <3>1. j - Len(s) \in DOMAIN t /\ st[j] = t[j - Len(s)] /\ j \in Int
      BY <1>5, <1>7, <2>1, <2>3
    <3>2. i - Len(s) = j - Len(s)
      BY <1>7, <2>3, <3>1 DEF IsInjective
    <3> QED
      BY <1>1, <2>3, <3>1, <3>2
  <2> QED
    BY <1>5, <2>2, <2>3
<1> QED
  BY <1>6, <1>7 DEF st, IsInjective

(* Where a page that the cursor cuts off ends. *)
LEMMA CursorPageEnds ==
    ASSUME ReportsTyped, NEW rows \in SUBSET visible,
           NEW dir, NEW q \in OrderedByKey(rows, dir),
           FirstOf(q, PageSize) # <<>>
    PROVE  LET items == FirstOf(q, PageSize)
               end == EncodeCursor(Last(items))
           IN  /\ IsInjective(items)
               /\ Range(items) \subseteq rows
               /\ Last(items) \in rows
               /\ end \in Stamps \X Donations
               /\ end # <<>>
               /\ \A d \in Range(items) :
                     ~Follows(dir, EncodeCursor(d), end)
               /\ \A d \in rows : \/ d \in Range(items)
                                  \/ Follows(dir, EncodeCursor(d), end)
<1> DEFINE items == FirstOf(q, PageSize)
           n == Len(items)
<1>1. /\ items \in Seq(Donations)
      /\ n \in Nat /\ n > 0
      /\ n = IF PageSize < Len(q) THEN PageSize ELSE Len(q)
      /\ \A i \in 1..n : items[i] = q[i] /\ items[i] \in rows
      /\ Last(items) = q[n]
      /\ Last(items) \in rows
  <2>1. /\ items \in Seq(Donations)
        /\ n \in Nat
        /\ n = IF PageSize < Len(q) THEN PageSize ELSE Len(q)
        /\ \A i \in 1..n : items[i] = q[i] /\ items[i] \in rows
    BY CursorPage
  <2>2. items # <<>> => n > 0 /\ Last(items) \in rows
    BY CursorPage
  <2>3. Last(items) = items[n]
    BY DEF Last
  <2> HIDE DEF n, items
  <2>4. items # <<>>
    BY DEF items
  <2> QED
    BY <2>1, <2>2, <2>3, <2>4
<1>2. IsFiniteSet(rows) /\ rows \subseteq Donations
  BY FS_Subset DEF ReportsTyped, TypeOK
<1>3. q \in SetToSeqs(rows)
  BY DEF OrderedByKey
<1>4. /\ q \in Seq(rows)
      /\ Len(q) \in Nat
      /\ \A i, j \in 1..Len(q) : q[i] = q[j] => i = j
      /\ \A x \in rows : \E i \in 1..Len(q) : q[i] = x
  BY <1>2, <1>3, ListingOfSet
<1>5. \A i, j \in 1..Len(q) :
          i < j => ~Follows(dir, EncodeCursor(q[i]), EncodeCursor(q[j]))
  BY DEF OrderedByKey
<1>6. DOMAIN items = 1..n
  BY <1>1, LenProperties
<1>7. PageSize \in Nat
  BY ReportAssumption
<1>8. n <= Len(q)
  BY <1>1, <1>4, <1>7
<1>9. \A d \in rows : EncodeCursor(d) \in Stamps \X Donations
  BY <1>2, EncodedCursor DEF ReportsTyped
<1> HIDE DEF items, n
<1>10. IsInjective(items)
  <2> SUFFICES ASSUME NEW i \in 1..n, NEW j \in 1..n, items[i] = items[j]
               PROVE  i = j
    BY <1>6 DEF IsInjective
  <2>1. n \in Nat /\ Len(q) \in Nat
    BY <1>1, <1>4
  <2>2. i \in 1..Len(q) /\ j \in 1..Len(q)
    BY <1>8, <2>1
  <2>3. q[i] = q[j]
    BY <1>1
  <2> QED
    BY <1>4, <2>2, <2>3
<1>11. Range(items) \subseteq rows
  BY <1>1, <1>6 DEF Range
<1>12. ASSUME NEW d \in Range(items)
       PROVE  ~Follows(dir, EncodeCursor(d), EncodeCursor(q[n]))
  <2>1. PICK i \in 1..n : d = q[i]
    BY <1>1, <1>6 DEF Range
  <2>2. CASE i = n
    <3>1. q[n] \in rows
      BY <1>1
    <3>2. ~Follows(dir, EncodeCursor(q[n]), EncodeCursor(q[n]))
      BY <1>9, <3>1, FollowsOrder, Zenon
    <3> QED
      BY <2>1, <2>2, <3>2, Zenon
  <2>3. CASE i # n
    <3>1. i \in 1..Len(q) /\ n \in 1..Len(q) /\ i < n
      BY <1>1, <1>4, <1>8, <2>3
    <3> QED
      BY <1>5, <2>1, <3>1
  <2> QED
    BY <2>2, <2>3
<1>13. ASSUME NEW d \in rows, d \notin Range(items)
       PROVE  Follows(dir, EncodeCursor(d), EncodeCursor(q[n]))
  <2>1. PICK j \in 1..Len(q) : q[j] = d
    BY <1>4
  <2>2. ~(j \in 1..n)
    BY <1>1, <1>6, <1>13, <2>1 DEF Range
  <2>3. n \in 1..Len(q) /\ n < j
    BY <1>1, <1>4, <1>8, <2>2
  <2>4. ~Follows(dir, EncodeCursor(q[n]), EncodeCursor(d))
    BY <1>5, <2>1, <2>3
  <2>5. d # q[n]
    BY <1>4, <2>1, <2>3
  <2>6. EncodeCursor(d) # EncodeCursor(q[n])
    BY <2>5 DEF EncodeCursor
  <2>7. q[n] \in rows
    BY <1>1
  <2> QED
    BY <1>9, <2>4, <2>6, <2>7, FollowsOrder, Zenon
<1>14. EncodeCursor(q[n]) # <<>>
  BY DEF EncodeCursor
<1> QED
  BY <1>1, <1>9, <1>10, <1>11, <1>12, <1>13, <1>14 DEF items, n

-----------------------------------------------------------------------------
(* What a walk becomes with its own step: the table is as it was.          *)
LEMMA CursorOwn ==
    ASSUME ReportsTyped, NEW r \in Readers, ReportsTyped',
           WalkStarted(r), AtCursor(r), ListCursor(r)
    PROVE  WalkStarted(r)' /\ AtCursor(r)' /\ AtPage(r)'
<1> DEFINE w == seen[r]
           before == w.before
           returned == w.returned
           rows == {d \in Matching(w.filter) :
                      w.cursor = <<>>
                        \/ Follows(w.direction, EncodeCursor(d), w.cursor)}
<1>1. /\ kind[r] = "cursor" /\ stage[r] = "next"
      /\ w \in Walk
  BY DEF ListCursor, ReportsTyped, ReaderTyped, WalkKinds
<1>2. UNCHANGED <<visible, createdAt, status, kind>>
  BY DEF ListCursor, GoOn, table
<1>3. /\ \A d : EncodeCursor(d)' = EncodeCursor(d)
      /\ \A f : Matching(f)' = Matching(f)
  BY <1>2 DEF EncodeCursor, Matching
<1>4. /\ before \subseteq visible
      /\ w.filter # "PENDING" => before \subseteq Matching(w.filter)
      /\ Range(returned) \subseteq visible
  BY <1>1 DEF WalkStarted, WalkKinds, Returned
<1>5. /\ IsInjective(returned)
      /\ \A d \in Range(returned) :
            /\ w.cursor # <<>>
            /\ ~Follows(w.direction, EncodeCursor(d), w.cursor)
      /\ \A d \in before \intersect Matching(w.filter) :
            d \in Range(returned) \/ d \in rows
  BY <1>1 DEF AtCursor, Returned
<1>6. rows \in SUBSET visible /\ rows \subseteq Matching(w.filter)
  BY DEF Matching
<1>7. PICK q \in OrderedByKey(rows, w.direction) :
          IF FirstOf(q, PageSize) = <<>>
          THEN GoOn(r, "done", w)
          ELSE GoOn(r, "next",
                    [w EXCEPT !.returned = @ \o FirstOf(q, PageSize),
                              !.cursor =
                                  EncodeCursor(Last(FirstOf(q, PageSize)))])
  BY Zenon DEF ListCursor
<1>8. stage \in [Readers -> Stages] /\ seen \in [Readers -> Figures \union Walk]
  BY DEF ReportsTyped, TypeOK
<1>9. AtPage(r)'
  BY <1>1, <1>2 DEF AtPage
<1> DEFINE items == FirstOf(q, PageSize)
           end == EncodeCursor(Last(items))
<1>10. CASE items = <<>>
  <2>1. GoOn(r, "done", w)
    BY <1>7, <1>10
  <2>2. stage'[r] = "done" /\ seen'[r] = w
    BY <1>8, <2>1 DEF GoOn
  <2>3. rows = {}
    BY <1>6, <1>7, <1>10, CursorPage, Zenon
  <2>4. WalkStarted(r)'
    BY <1>1, <1>2, <1>3, <1>4, <2>2 DEF WalkStarted, Returned
  <2>5. \A d \in before \intersect Matching(w.filter) : d \in Range(returned)
    BY <1>5, <2>3
  <2> HIDE DEF rows
  <2>6. AtCursor(r)'
    BY <1>1, <1>2, <1>3, <1>5, <2>2, <2>5
       DEF AtCursor, Returned, Follows
  <2> QED
    BY <1>9, <2>4, <2>6
<1>11. CASE items # <<>>
  <2> DEFINE what == [filter |-> w.filter, direction |-> w.direction,
                      before |-> w.before, returned |-> returned \o items,
                      cursor |-> end, page |-> w.page]
  <2>1. /\ IsInjective(items)
        /\ Range(items) \subseteq rows
        /\ Last(items) \in rows
        /\ end \in Stamps \X Donations
        /\ end # <<>>
        /\ \A d \in Range(items) : ~Follows(w.direction, EncodeCursor(d), end)
        /\ \A d \in rows : \/ d \in Range(items)
                           \/ Follows(w.direction, EncodeCursor(d), end)
    BY <1>6, <1>7, <1>11, CursorPageEnds, Zenon
  <2>2. items \in Seq(Donations)
    BY <1>6, <1>7, CursorPage, Zenon
  <2>3. Last(items) \in rows /\ end # <<>> /\ end \in Stamps \X Donations
    BY <2>1
  <2>4. returned \in Seq(Donations)
    BY <1>1 DEF Walk
  <2>5. GoOn(r, "next", [w EXCEPT !.returned = @ \o items, !.cursor = end])
    BY <1>7, <1>11, Zenon
  <2>6. [w EXCEPT !.returned = @ \o items, !.cursor = end] = what
    BY <1>1, CursorUpdate, Zenon
  <2> HIDE DEF what
  <2>7. stage'[r] = "next" /\ seen'[r] = what
    BY <1>8, <2>5, <2>6, Zenon DEF GoOn
  <2> HIDE DEF items, end
  <2>8. Range(returned) \intersect Range(items) = {}
    BY <1>5, <2>1
  <2>9. /\ Range(returned \o items) = Range(returned) \union Range(items)
        /\ IsInjective(returned \o items)
    BY <1>5, <2>1, <2>2, <2>4, <2>8, PageAdded
  <2>10. /\ what.filter = w.filter /\ what.direction = w.direction
         /\ what.before = before /\ what.returned = returned \o items
         /\ what.cursor = end /\ what # <<>>
    BY DEF what
  <2>12. ASSUME NEW d \in Range(returned)
         PROVE  ~Follows(w.direction, EncodeCursor(d), end)
    <3>1. d \in Donations /\ Last(items) \in Donations
      BY <1>4, <1>6, <2>3 DEF ReportsTyped, TypeOK
    <3>2. EncodeCursor(d) \in Stamps \X Donations
      BY <3>1, EncodedCursor DEF ReportsTyped
    <3>3. w.cursor # <<>> /\ w.cursor \in Stamps \X Donations
      BY <1>1, <1>5 DEF Walk
    <3>4. ~Follows(w.direction, EncodeCursor(d), w.cursor)
      BY <1>5
    <3>5. Follows(w.direction, end, w.cursor)
      BY <2>3, <3>3 DEF end
    <3>6. Follows(w.direction, EncodeCursor(d), end)
            /\ Follows(w.direction, end, w.cursor)
              => Follows(w.direction, EncodeCursor(d), w.cursor)
      BY <2>3, <3>2, <3>3, FollowsOrder, Zenon
    <3> QED
      BY <3>4, <3>5, <3>6
  <2>13. \A d \in Range(returned \o items) :
            ~Follows(w.direction, EncodeCursor(d), end)
    BY <2>1, <2>9, <2>12
  <2>14. \A d \in before \intersect Matching(w.filter) :
            \/ d \in Range(returned \o items)
            \/ Follows(w.direction, EncodeCursor(d), end)
    BY <1>5, <2>1, <2>9
  <2>15. Range(returned \o items) \subseteq visible
    BY <1>4, <1>6, <2>1, <2>9
  <2>16. WalkStarted(r)'
    BY <1>1, <1>2, <1>3, <1>4, <2>7, <2>10, <2>15 DEF WalkStarted, Returned
  <2> HIDE DEF rows
  <2>17. AtCursor(r)'
    BY <1>1, <1>2, <1>3, <2>7, <2>9, <2>3, <2>10, <2>13, <2>14
       DEF AtCursor, Returned, Follows
  <2> QED
    BY <1>9, <2>16, <2>17
<1> QED
  BY <1>10, <1>11

(* In any order by createdAt a row without ties has its place: it comes    *)
(* right after the rows that are earlier than it.                          *)
LEMMA UntiedPlace ==
    ASSUME ReportsTyped, NEW f, NEW dir, NEW d \in Matching(f), Untied(d),
           NEW q \in OrderedByTime(Matching(f), dir)
    PROVE  \E i \in 1..Len(q) :
              q[i] = d /\ Cardinality(Earlier(f, dir, d)) = i - 1
<1> DEFINE rows == Matching(f)
           earlier == Earlier(f, dir, d)
<1>1. IsFiniteSet(rows) /\ rows \subseteq Donations /\ rows \subseteq visible
  <2>1. rows \subseteq visible
    BY DEF Matching
  <2> QED
    BY <2>1, FS_Subset DEF ReportsTyped, TypeOK
<1>2. q \in SetToSeqs(rows)
  BY DEF OrderedByTime
<1>3. /\ q \in Seq(rows)
      /\ Len(q) \in Nat
      /\ \A i, j \in 1..Len(q) : q[i] = q[j] => i = j
      /\ \A x \in rows : \E i \in 1..Len(q) : q[i] = x
  BY <1>1, <1>2, ListingOfSet
<1>4. \A i \in 1..Len(q) : q[i] \in rows
  BY <1>3, LenProperties
<1>5. \A i, j \in 1..Len(q) :
          i < j => IF dir = "asc" THEN createdAt[q[i]] <= createdAt[q[j]]
                                  ELSE createdAt[q[i]] >= createdAt[q[j]]
  BY DEF OrderedByTime
<1>6. \A e \in rows : createdAt[e] \in Int
  BY <1>1 DEF ReportsTyped, TypeOK, Stamps
<1>7. \A e \in rows : e # d => createdAt[e] # createdAt[d]
  BY <1>1 DEF Untied
<1>8. PICK i \in 1..Len(q) : q[i] = d
  BY <1>3
<1>9. \A e : e \in earlier <=>
          /\ e \in rows
          /\ IF dir = "asc" THEN createdAt[e] < createdAt[d]
                            ELSE createdAt[e] > createdAt[d]
  BY DEF Earlier
<1> HIDE DEF rows, earlier
<1>10. ASSUME NEW j \in 1..(i - 1)
       PROVE  q[j] \in earlier
  <2>1. j \in 1..Len(q) /\ j < i
    BY <1>3
  <2>2. q[j] \in rows /\ q[j] # d /\ d \in rows
    BY <1>3, <1>4, <1>8, <2>1
  <2>3. createdAt[q[j]] # createdAt[d]
    BY <1>7, <2>2
  <2>4. IF dir = "asc" THEN createdAt[q[j]] <= createdAt[d]
                       ELSE createdAt[q[j]] >= createdAt[d]
    BY <1>5, <1>8, <2>1
  <2> QED
    BY <1>6, <1>9, <2>2, <2>3, <2>4
<1>11. ASSUME NEW e \in earlier
       PROVE  \E j \in 1..(i - 1) : q[j] = e
  <2>1. e \in rows /\ d \in rows
    BY <1>4, <1>8, <1>9
  <2>2. PICK j \in 1..Len(q) : q[j] = e
    BY <1>3, <2>1
  <2>3. i # j
    BY <1>6, <1>8, <1>9, <2>1, <2>2
  <2>4. ~(i < j)
    <3>1. i < j => IF dir = "asc" THEN createdAt[d] <= createdAt[e]
                                  ELSE createdAt[d] >= createdAt[e]
      BY <1>5, <1>8, <2>2
    <3> QED
      BY <1>6, <1>9, <2>1, <3>1
  <2>5. j \in 1..(i - 1)
    BY <1>3, <2>3, <2>4
  <2> QED
    BY <2>2, <2>5
<1>12. Cardinality(earlier) = i - 1
  <2> DEFINE n == i - 1
             place == [j \in 1..n |-> q[j]]
  <2>1. n \in Nat
    BY <1>3
  <2>2. \A j, k \in 1..n : q[j] = q[k] => j = k
    <3>1. 1..n \subseteq 1..Len(q)
      BY <1>3
    <3> QED
      BY <1>3, <3>1
  <2>3. place \in [1..n -> earlier]
    BY <1>10
  <2>4. IsInjective(place)
    BY <2>2 DEF IsInjective
  <2>5. \A e \in earlier : \E j \in 1..n : place[j] = e
    BY <1>11
  <2> HIDE DEF n
  <2>6. place \in Bijection(1..n, earlier)
    BY <2>3, <2>4, <2>5 DEF Bijection, Injection, Surjection
  <2>7. ExistsBijection(1..n, earlier)
    BY <2>6 DEF ExistsBijection
  <2>8. Cardinality(earlier) = n
    BY <2>1, <2>7, FS_CountingElements
  <2> QED
    BY <2>8 DEF n
<1> QED
  BY <1>8, <1>12 DEF earlier

(* A row without ties that was not skipped is on this page or after it. *)
LEMMA FindManyOwn ==
    ASSUME ReportsTyped, NEW r \in Readers, ReportsTyped',
           WalkStarted(r), AtPage(r), FindMany(r)
    PROVE  WalkStarted(r)' /\ AtCursor(r)' /\ AtPage(r)'
<1> DEFINE w == seen[r]
           before == w.before
           rows == Matching(w.filter)
           skipped == Skipped(w.page)
           returned == w.returned
<1>1. /\ kind[r] = "offset" /\ stage[r] = "next"
      /\ w \in Walk
  BY DEF FindMany, ReportsTyped, ReaderTyped, WalkKinds
<1>2. UNCHANGED <<visible, createdAt, status, kind>>
  BY DEF FindMany, GoOn, table
<1>3. /\ \A f : Matching(f)' = Matching(f)
      /\ \A f, dir, d : Earlier(f, dir, d)' = Earlier(f, dir, d)
      /\ \A d : Untied(d)' = Untied(d)
  BY <1>2 DEF Matching, Earlier, Untied
<1>4. /\ before \subseteq visible
      /\ w.filter # "PENDING" => before \subseteq rows
      /\ Range(returned) \subseteq visible
  BY <1>1 DEF WalkStarted, WalkKinds, Returned
<1>5. PICK q \in OrderedByTime(rows, w.direction) :
          GoOn(r, "total",
               [w EXCEPT !.returned = @ \o
                    SubSeq(q, skipped + 1,
                           IF skipped + PageSize < Len(q)
                           THEN skipped + PageSize ELSE Len(q))])
  BY Zenon DEF FindMany
<1> DEFINE last == IF skipped + PageSize < Len(q)
                   THEN skipped + PageSize ELSE Len(q)
           items == SubSeq(q, skipped + 1, last)
           what == [filter |-> w.filter, direction |-> w.direction,
                    before |-> w.before, returned |-> returned \o items,
                    cursor |-> w.cursor, page |-> w.page]
<1>6. stage \in [Readers -> Stages] /\ seen \in [Readers -> Figures \union Walk]
  BY DEF ReportsTyped, TypeOK
<1>7. w.page \in Nat \ {0} /\ returned \in Seq(Donations)
  BY <1>1 DEF Walk
<1>8. /\ skipped \in Nat
      /\ skipped + PageSize = w.page * PageSize
      /\ PageSize \in Nat
  BY <1>7, SkippedRows, ReportAssumption
<1>9. rows \in SUBSET visible
  BY DEF Matching
<1>10. /\ items \in Seq(rows)
       /\ items \in Seq(Donations)
       /\ Len(q) \in Nat
       /\ \A i \in 1..Len(q) :
             \/ i <= skipped
             \/ i > skipped + PageSize
             \/ q[i] \in Range(items)
  <2>1. q \in OrderedByTime(rows, w.direction)
    BY <1>5, Zenon
  <2>2. skipped \in Nat
    BY <1>8
  <2> HIDE DEF skipped, rows, w
  <2>3. items \in Seq(rows) /\ items \in Seq(Donations) /\ Len(q) \in Nat
    BY <1>9, <2>1, <2>2, OffsetPage
  <2>4. \A i \in 1..Len(q) :
            \/ i <= skipped
            \/ i > skipped + PageSize
            \/ q[i] \in Range(items)
    BY <1>9, <2>1, <2>2, OffsetPage
  <2> QED
    BY <2>3, <2>4
<1>11. stage'[r] = "total" /\ seen'[r] = what
  <2>1. GoOn(r, "total", [w EXCEPT !.returned = @ \o items])
    BY <1>5, Zenon
  <2>2. [w EXCEPT !.returned = @ \o items] = what
    BY <1>1, OffsetUpdate, Zenon
  <2> HIDE DEF what
  <2> QED
    BY <1>6, <2>1, <2>2, Zenon DEF GoOn
<1>12. DOMAIN items = 1..Len(items) /\ Range(items) \subseteq rows
  <2> HIDE DEF items, rows
  <2> QED
    BY <1>10, LenProperties DEF Range
<1>13. Range(returned \o items) = Range(returned) \union Range(items)
  <2> HIDE DEF items
  <2> QED
    BY <1>7, <1>10, PageAdded
<1>14. /\ what.filter = w.filter /\ what.direction = w.direction
       /\ what.before = before /\ what.returned = returned \o items
       /\ what.page = w.page
  <2> HIDE DEF items
  <2> QED
    BY DEF what
<1> HIDE DEF items, what
<1>15. WalkStarted(r)'
  BY <1>1, <1>2, <1>3, <1>4, <1>9, <1>11, <1>12, <1>13, <1>14
     DEF WalkStarted, Returned
<1>16. AtCursor(r)'
  BY <1>1, <1>2 DEF AtCursor
<1>17. ASSUME w.filter # "PENDING", NEW d \in before, Untied(d),
              d \notin Range(returned \o items)
       PROVE  Cardinality(Earlier(w.filter, w.direction, d))
                 >= w.page * PageSize
  <2>1. d \in rows /\ d \notin Range(returned) /\ d \notin Range(items)
    BY <1>4, <1>13, <1>17
  <2>2. Cardinality(Earlier(w.filter, w.direction, d)) >= skipped
    BY <1>1, <1>17, <2>1 DEF AtPage, Returned
  <2>3. PICK i \in 1..Len(q) :
            /\ q[i] = d
            /\ Cardinality(Earlier(w.filter, w.direction, d)) = i - 1
    <3> HIDE DEF w
    <3> QED
      BY <1>5, <1>17, <2>1, UntiedPlace
  <2>4. q[i] \notin Range(items)
    BY <2>1, <2>3
  <2> HIDE DEF skipped, rows, w
  <2>5. ~(i <= skipped)
    BY <1>8, <1>10, <2>2, <2>3
  <2>6. i > skipped + PageSize
    BY <1>10, <2>4, <2>5
  <2> QED
    BY <1>8, <1>10, <2>3, <2>6
<1>18. AtPage(r)'
  <2> SUFFICES ASSUME w.filter # "PENDING", NEW d \in before, Untied(d),
                      d \notin Range(returned \o items)
               PROVE  Cardinality(Earlier(w.filter, w.direction, d))
                        >= w.page * PageSize
    BY <1>2, <1>3, <1>11, <1>14 DEF AtPage, Returned
  <2> QED
    BY <1>17
<1> QED
  BY <1>15, <1>16, <1>18

(* The pages end where the list does, or the next one skips this one too. *)
LEMMA CountOwn ==
    ASSUME ReportsTyped, NEW r \in Readers, ReportsTyped',
           WalkStarted(r), AtPage(r), Count(r)
    PROVE  WalkStarted(r)' /\ AtCursor(r)' /\ AtPage(r)'
<1> DEFINE w == seen[r]
           rows == Matching(w.filter)
<1>1. /\ kind[r] = "offset" /\ stage[r] = "total"
      /\ w \in Walk
  BY DEF Count, ReportsTyped, ReaderTyped, WalkKinds
<1>2. UNCHANGED <<visible, createdAt, status, kind>>
  BY DEF Count, GoOn, table
<1>3. /\ \A f : Matching(f)' = Matching(f)
      /\ \A f, dir, d : Earlier(f, dir, d)' = Earlier(f, dir, d)
      /\ \A d : Untied(d)' = Untied(d)
  BY <1>2 DEF Matching, Earlier, Untied
<1>4. stage \in [Readers -> Stages] /\ seen \in [Readers -> Figures \union Walk]
  BY DEF ReportsTyped, TypeOK
<1>5. w.page \in Nat \ {0}
  BY <1>1 DEF Walk
<1>6. AtCursor(r)'
  BY <1>1, <1>2 DEF AtCursor
<1>7. CASE w.page * PageSize >= Cardinality(rows)
  <2>1. GoOn(r, "done", w)
    BY <1>7 DEF Count
  <2>2. stage'[r] = "done" /\ seen'[r] = w
    BY <1>4, <2>1 DEF GoOn
  <2>3. ASSUME w.filter # "PENDING", NEW d \in w.before, Untied(d),
               d \notin Returned(w)
        PROVE  FALSE
    <3> DEFINE earlier == Earlier(w.filter, w.direction, d)
    <3>1. Cardinality(earlier) >= w.page * PageSize
      BY <1>1, <2>3 DEF AtPage
    <3>2. d \in rows
      BY <1>1, <2>3 DEF WalkStarted, WalkKinds
    <3>3. rows \subseteq visible /\ IsFiniteSet(visible)
      BY DEF Matching, ReportsTyped
    <3>4. earlier \subseteq rows /\ d \notin earlier
      <4>1. createdAt[d] \in Int
        BY <3>2, <3>3 DEF ReportsTyped, TypeOK, Stamps
      <4> QED
        BY <4>1 DEF Earlier
    <3> HIDE DEF rows, earlier
    <3>5. IsFiniteSet(rows)
      BY <3>3, FS_Subset
    <3>6. /\ Cardinality(earlier) \in Nat
          /\ Cardinality(rows) \in Nat
          /\ Cardinality(earlier) < Cardinality(rows)
      <4>1. IsFiniteSet(earlier) /\ earlier # rows
        BY <3>2, <3>4, <3>5, FS_Subset
      <4>2. /\ Cardinality(earlier) <= Cardinality(rows)
            /\ Cardinality(earlier) # Cardinality(rows)
        BY <3>4, <3>5, <4>1, FS_Subset
      <4>3. Cardinality(earlier) \in Nat /\ Cardinality(rows) \in Nat
        BY <3>5, <4>1, FS_CardinalityType
      <4> QED
        BY <4>2, <4>3
    <3>7. w.page * PageSize \in Nat
      BY <1>5, ReportAssumption
    <3> QED
      BY <1>7, <3>1, <3>6, <3>7
  <2>4. AtPage(r)'
    BY <1>2, <1>3, <2>2, <2>3 DEF AtPage
  <2>5. WalkStarted(r)'
    BY <1>1, <1>2, <1>3, <2>2 DEF WalkStarted, WalkKinds
  <2> QED
    BY <1>6, <2>4, <2>5
<1>8. CASE ~(w.page * PageSize >= Cardinality(rows))
  <2> DEFINE what == [w EXCEPT !.page = w.page + 1]
  <2>1. GoOn(r, "next", what)
    BY <1>8 DEF Count
  <2>2. stage'[r] = "next" /\ seen'[r] = what
    BY <1>4, <2>1 DEF GoOn
  <2>3. /\ what.filter = w.filter /\ what.direction = w.direction
        /\ what.before = w.before /\ what.returned = w.returned
        /\ what.page = w.page + 1
    BY <1>1 DEF Walk
  <2> HIDE DEF what
  <2>4. WalkStarted(r)'
    BY <1>1, <1>2, <1>3, <2>2, <2>3 DEF WalkStarted, WalkKinds, Returned
  <2>5. Skipped(w.page + 1) = w.page * PageSize
    BY <1>5, SkippedRows
  <2>7. ASSUME w.filter # "PENDING", NEW d \in w.before, Untied(d),
               d \notin Returned(w)
        PROVE  Cardinality(Earlier(w.filter, w.direction, d))
                 >= w.page * PageSize
    BY <1>1, <2>7 DEF AtPage
  <2>8. AtPage(r)'
    <3> SUFFICES ASSUME w.filter # "PENDING", NEW d \in w.before, Untied(d),
                        d \notin Returned(w)
                 PROVE  Cardinality(Earlier(w.filter, w.direction, d))
                          >= Skipped(what.page)
      BY <1>1, <1>2, <1>3, <2>2, <2>3 DEF AtPage, Returned
    <3> QED
      BY <2>3, <2>5, <2>7
  <2> QED
    BY <1>6, <2>4, <2>8
<1> QED
  BY <1>7, <1>8

LEMMA FirstPageOwn ==
    ASSUME ReportsTyped, NEW r \in Readers, ReportsTyped', FirstPage(r)
    PROVE  WalkStarted(r)' /\ AtCursor(r)' /\ AtPage(r)'
<1>1. PICK f \in Statuses \union {AnyStatus}, dir \in {"asc", "desc"} :
          GoOn(r, "next", [filter |-> f, direction |-> dir,
                           before |-> Matching(f), returned |-> <<>>,
                           cursor |-> <<>>, page |-> 1])
  BY DEF FirstPage
<1> DEFINE what == [filter |-> f, direction |-> dir,
                    before |-> Matching(f), returned |-> <<>>,
                    cursor |-> <<>>, page |-> 1]
<1>2. /\ what.filter = f /\ what.before = Matching(f)
      /\ what.returned = <<>> /\ what.cursor = <<>> /\ what.page = 1
  OBVIOUS
<1> HIDE DEF what
<1>3. UNCHANGED <<visible, createdAt, status, kind>>
  BY <1>1 DEF GoOn, table
<1>4. stage'[r] = "next" /\ seen'[r] = what
  BY <1>1 DEF GoOn, ReportsTyped, TypeOK, what
<1>5. Range(<<>>) = {} /\ IsInjective(<<>>)
  BY DEF Range, IsInjective
<1>6. Matching(f) \subseteq visible
  BY DEF Matching
<1>7. Matching(f)' = Matching(f)
  BY <1>3 DEF Matching
<1>8. WalkStarted(r)'
  BY <1>2, <1>3, <1>4, <1>5, <1>6, <1>7 DEF WalkStarted, Returned
<1>9. AtCursor(r)'
  BY <1>2, <1>4, <1>5 DEF AtCursor, Returned
<1>10. AtPage(r)'
  <2> SUFFICES ASSUME NEW d \in Matching(f)
               PROVE  Cardinality(Earlier(f, what.direction, d))
                        >= Skipped(1)
    BY <1>2, <1>3, <1>4 DEF AtPage, Earlier, Matching, Skipped
  <2>1. Earlier(f, what.direction, d) \subseteq visible
    BY DEF Earlier, Matching
  <2>2. IsFiniteSet(Earlier(f, what.direction, d))
    BY <2>1, FS_Subset DEF ReportsTyped
  <2>3. Cardinality(Earlier(f, what.direction, d)) \in Nat
    BY <2>2, FS_CardinalityType
  <2>4. Skipped(1) = 0
    BY ReportAssumption DEF Skipped
  <2> QED
    BY <2>3, <2>4
<1> QED
  BY <1>8, <1>9, <1>10

LEMMA WalkOwn ==
    ASSUME ReportsTyped, NEW r \in Readers, ReportsTyped', ReaderStep(r),
           WalkStarted(r), AtCursor(r), AtPage(r)
    PROVE  WalkStarted(r)' /\ AtCursor(r)' /\ AtPage(r)'
<1>1. kind' = kind
  BY ReaderFrame DEF ReportsTyped
<1>2. CASE kind[r] \notin WalkKinds
  BY <1>1, <1>2 DEF WalkStarted, AtCursor, AtPage, WalkKinds
<1>3. CASE FirstPage(r)
  BY <1>3, FirstPageOwn
<1>4. CASE ListCursor(r)
  BY <1>4, CursorOwn
<1>5. CASE FindMany(r)
  BY <1>5, FindManyOwn
<1>6. CASE Count(r)
  BY <1>6, CountOwn
<1>7. CASE Reply(r)
  <2>1. stage'[r] = "idle"
    BY <1>7 DEF Reply, ReportsTyped, TypeOK
  <2> QED
    BY <2>1 DEF WalkStarted, AtCursor, AtPage
<1>8. CASE Fill(r)
  BY <1>2, <1>8 DEF Fill, ReportsTyped, ReaderTyped, WalkKinds
<1> QED
  BY <1>2, <1>3, <1>4, <1>5, <1>6, <1>7, <1>8
     DEF ReaderStep, GetMetrics, DashboardMetrics, FindCampaign, FindById,
         GetCampaignProgress, Begins, WalkKinds

AllWalks ==
    /\ ReportsTyped
    /\ \A r \in Readers : WalkStarted(r) /\ AtCursor(r) /\ AtPage(r)

LEMMA WalksStep ==
    ASSUME AllWalks, [Next]_vars
    PROVE  AllWalks'
<1>1. ReportsTyped'
  BY ReportsStep DEF AllWalks
<1>2. ASSUME NEW r \in Readers, stage'[r] = stage[r], seen'[r] = seen[r]
      PROVE  WalkStarted(r)' /\ AtCursor(r)' /\ AtPage(r)'
  BY <1>1, <1>2, WalkFrame DEF AllWalks
<1>3. CASE TableStep \/ Tick \/ UNCHANGED vars
  BY <1>1, <1>2, <1>3, SameReader DEF AllWalks, ReportsTyped
<1>4. ASSUME NEW q \in Readers, ReaderStep(q)
      PROVE  AllWalks'
  <2>1. WalkStarted(q)' /\ AtCursor(q)' /\ AtPage(q)'
    BY <1>1, <1>4, WalkOwn DEF AllWalks
  <2>2. \A r \in Readers \ {q} : stage'[r] = stage[r] /\ seen'[r] = seen[r]
    BY <1>4, ReaderFrame DEF AllWalks, ReportsTyped
  <2> QED
    BY <1>1, <1>2, <2>1, <2>2 DEF AllWalks
<1> QED
  BY <1>3, <1>4, NextCases

LEMMA WalksInitially == Init => AllWalks
BY ReportsInitially DEF Init, AllWalks, WalkStarted, AtCursor, AtPage

(* A walk by cursor returns no donation twice and misses none that was     *)
(* there from its beginning to its end, for any page size, in either       *)
(* direction and under every filter, while rows come in and are settled    *)
(* at any moment and with any timestamps.                                  *)
THEOREM CursorWalkIsExactHolds == Spec => []CursorWalkIsExact
<1>1. AllWalks => CursorWalkIsExact
  <2> SUFFICES ASSUME AllWalks, NEW r \in Readers, kind[r] = "cursor",
                      stage[r] \in {"next", "done"}
               PROVE  /\ IsInjective(seen[r].returned)
                      /\ stage[r] = "done" =>
                            seen[r].before \intersect Matching(seen[r].filter)
                               \subseteq Returned(seen[r])
    BY DEF CursorWalkIsExact, Returned, Range
  <2> QED
    BY DEF AllWalks, AtCursor
<1>2. AllWalks /\ [Next]_vars => AllWalks'
  BY WalksStep
<1> QED
  BY <1>1, <1>2, WalksInitially, PTL DEF Spec

(* Nor does a walk page by page, but for rows that share their timestamp   *)
(* with another one and for the list of PENDING rows, which others leave.  *)
THEOREM OffsetWalkMissesOnlyTiesHolds == Spec => []OffsetWalkMissesOnlyTies
<1>1. AllWalks => OffsetWalkMissesOnlyTies
  <2> SUFFICES ASSUME AllWalks, NEW r \in Readers, kind[r] = "offset",
                      stage[r] = "done", NEW d \in seen[r].before,
                      seen[r].filter # "PENDING", Untied(d)
               PROVE  d \in Returned(seen[r])
    BY DEF OffsetWalkMissesOnlyTies, Returned, Range, Untied
  <2> QED
    BY DEF AllWalks, AtPage
<1>2. AllWalks /\ [Next]_vars => AllWalks'
  BY WalksStep
<1> QED
  BY <1>1, <1>2, WalksInitially, PTL DEF Spec
=============================================================================
