------------------------------- MODULE Reports -------------------------------
(***************************************************************************)
(* What is read from the table of donations: the dashboard and its cache,  *)
(* the campaign pages, and the two ways to page through the list.  Each of *)
(* these asks several questions one after the other; statements of one     *)
(* transaction are READ COMMITTED, so each sees what is committed when it  *)
(* runs, and webhooks and donors go on meanwhile.                          *)
(*                                                                         *)
(* A figure is the set of donations it is drawn from: sums and counts of   *)
(* what is never removed grow with that set.  How a donation's status      *)
(* comes about is the matter of DonationPayments, how campaigns come and   *)
(* go that of Campaigns; here both just happen.                            *)
(***************************************************************************)
EXTENDS Integers, Sequences, FiniteSets, SequencesExt

CONSTANTS
    Donations,      \* bound: the ids the table may hold, in their order
    LastStamp,      \* bound: instants of createdAt, ties included
    PageSize,
    TtlMs,          \* ticks that the dashboard is cached for (15 s)
    MaxFill,        \* bound: ticks that the statements of a fill may take
    Readers,        \* each asks one kind of question, over and over
    Rows            \* bound: the mixes of questions asked at once, and for
                    \* each the greatest id in use

Stamps == 1..LastStamp
Kinds == {"dashboard", "page", "campaigns", "cursor", "offset", "nothing"}
Statuses == {"PENDING", "SUCCEEDED", "EXPIRED"}
AnyStatus == "any"  \* no filter on the status
Stages == {"idle", "raised", "counted", "newest", "donors", "fill", "id",
           "next", "total", "done"}

ASSUME ReportAssumption ==
    /\ Donations \subseteq Nat
    /\ LastStamp \in Nat \ {0}
    /\ PageSize \in Nat \ {0}
    /\ TtlMs \in Nat \ {0}
    /\ MaxFill \in Nat
    /\ DOMAIN Rows \subseteq [Readers -> Kinds]

VARIABLES
    visible,        \* the committed rows
    createdAt,      \* createdAt[d], status[d]: the columns
    status,
    age,            \* history: ticks since row d was written, told apart
                    \* up to TtlMs + MaxFill
    kind,           \* kind[r]: what reader r asks for
    stage,          \* stage[r]: the statement it is at
    seen,           \* seen[r]: what its statements have returned so far
    fillAge,        \* fillAge[r]: ticks since its first statement
    cache,          \* the value of the dashboard's TtlCache
    cacheLeft       \* ticks until expiresAt, 0 when there is none

table == <<visible, createdAt, status, age>>
reader == <<kind, stage, seen, fillAge>>
dashboard == <<cache, cacheLeft>>
vars == <<table, reader, dashboard>>

Succeeded == {d \in visible : status[d] = "SUCCEEDED"}
Matching(f) == {d \in visible : f = AnyStatus \/ status[d] = f}

Figures == [before : SUBSET Donations, raised : SUBSET Donations,
            counted : SUBSET Donations, newest : 0..LastStamp,
            donors : SUBSET Donations]

NoFigures == [before |-> {}, raised |-> {}, counted |-> {}, newest |-> 0,
              donors |-> {}]

Walk == [filter : Statuses \union {AnyStatus}, direction : {"asc", "desc"},
         before : SUBSET Donations, returned : Seq(Donations),
         cursor : {<<>>} \union (Stamps \X Donations), page : Nat \ {0}]

TypeOK ==
    /\ visible \subseteq Donations
    /\ createdAt \in [Donations -> Stamps]
    /\ status \in [Donations -> Statuses]
    /\ age \in [Donations -> 0..(TtlMs + MaxFill)]
    /\ kind \in [Readers -> Kinds]
    /\ stage \in [Readers -> Stages]
    /\ seen \in [Readers -> Figures \union Walk]
    /\ fillAge \in [Readers -> 0..MaxFill]
    /\ cache \in Figures
    /\ cacheLeft \in 0..TtlMs

Init ==
    /\ visible = {}
    /\ createdAt = [d \in Donations |-> 1]
    /\ status = [d \in Donations |-> "PENDING"]
    /\ age = [d \in Donations |-> 0]
    /\ kind \in DOMAIN Rows
    /\ stage = [r \in Readers |-> "idle"]
    /\ seen = [r \in Readers |-> NoFigures]
    /\ fillAge = [r \in Readers |-> 0]
    /\ cache = NoFigures
    /\ cacheLeft = 0

-----------------------------------------------------------------------------
(* createPending: the instant in createdAt is the writer's, of several     *)
(* processes and of transactions that commit in any order.                 *)
CreatePending(d) ==
    /\ d \notin visible
    /\ d <= Rows[kind]
    /\ visible' = visible \union {d}
    /\ \E t \in Stamps : createdAt' = [createdAt EXCEPT ![d] = t]
    /\ age' = [age EXCEPT ![d] = 0]
    /\ UNCHANGED <<status, reader, dashboard>>

(* updateStatusByStripeSessionId: a donation is settled once. *)
Settle(d) ==
    /\ d \in visible
    /\ status[d] = "PENDING"
    /\ \E s \in {"SUCCEEDED", "EXPIRED"} : status' = [status EXCEPT ![d] = s]
    /\ age' = [age EXCEPT ![d] = 0]
    /\ UNCHANGED <<visible, createdAt, reader, dashboard>>

-----------------------------------------------------------------------------
(* Reader r goes on to another statement with what it has seen. *)
GoOn(r, next, what) ==
    /\ stage' = [stage EXCEPT ![r] = next]
    /\ seen' = [seen EXCEPT ![r] = what]
    /\ UNCHANGED <<table, kind, dashboard>>

Begins(r, k) == kind[r] = k /\ stage[r] = "idle"

(* Mutant: a hit prolongs the life of the entry. *)
GetMetrics_Sliding(r) ==
    /\ Begins(r, "dashboard")
    /\ IF cacheLeft > 0
       THEN /\ cacheLeft' = TtlMs
            /\ UNCHANGED <<table, reader, cache>>
       ELSE /\ GoOn(r, "raised", [NoFigures EXCEPT !.before = Succeeded])
            /\ fillAge' = [fillAge EXCEPT ![r] = 0]

(* getMetrics: the cached answer if there is one, or else a fill, several  *)
(* of which may be in progress.                                            *)
GetMetrics(r) ==
    /\ Begins(r, "dashboard")
    /\ IF cacheLeft > 0
       THEN UNCHANGED vars
       ELSE /\ GoOn(r, "raised", [NoFigures EXCEPT !.before = Succeeded])
            /\ fillAge' = [fillAge EXCEPT ![r] = 0]

(* dashboardMetrics: three statements of a transaction, then one alone. *)
DashboardMetrics(r) ==
    /\ kind[r] = "dashboard"
    /\ UNCHANGED fillAge
    /\ \/ /\ stage[r] = "raised"
          /\ GoOn(r, "counted", [seen[r] EXCEPT !.raised = Succeeded])
       \/ /\ stage[r] = "counted"
          /\ GoOn(r, "newest", [seen[r] EXCEPT !.counted = visible])
       \/ /\ stage[r] = "newest"
          /\ \E t \in Stamps \union {0} :
                /\ \A d \in visible : createdAt[d] <= t
                /\ t # 0 => \E d \in visible : createdAt[d] = t
                /\ GoOn(r, "donors", [seen[r] EXCEPT !.newest = t])
       \/ /\ stage[r] = "donors"
          /\ GoOn(r, "fill", [seen[r] EXCEPT !.donors = visible])

(* Mutant: the time the fill took is added to the life of its entry. *)
Fill_LaterExpiry(r) ==
    /\ stage[r] = "fill"
    /\ cache' = seen[r]
    /\ cacheLeft' = TtlMs + fillAge[r]
    /\ stage' = [stage EXCEPT ![r] = "done"]
    /\ UNCHANGED <<table, kind, seen, fillAge>>

(* The fill ends: TtlCache.set, whatever another fill has put there. *)
Fill(r) ==
    /\ stage[r] = "fill"
    /\ cache' = seen[r]
    /\ cacheLeft' = TtlMs
    /\ stage' = [stage EXCEPT ![r] = "done"]
    /\ UNCHANGED <<table, kind, seen, fillAge>>

(* GET /campaigns/:slug and GET /campaigns start with a look-up that also  *)
(* counts the campaign's successful donations.                             *)
FindCampaign(r) ==
    /\ UNCHANGED fillAge
    /\ \E k \in {"page", "campaigns"} :
        /\ Begins(r, k)
        /\ GoOn(r, IF k = "page" THEN "id" ELSE "counted",
                [NoFigures EXCEPT !.before = Succeeded, !.raised = Succeeded])

(* getProgress looks the campaign up once more, by its id. *)
FindById(r) ==
    /\ kind[r] = "page"
    /\ stage[r] = "id"
    /\ GoOn(r, "counted", seen[r])
    /\ UNCHANGED fillAge

(* Mutant: the sum forgets the filter on the status. *)
GetCampaignProgress_AnyStatus(r) ==
    /\ kind[r] \in {"page", "campaigns"}
    /\ UNCHANGED fillAge
    /\ \/ /\ stage[r] = "counted"
          /\ GoOn(r, "donors", [seen[r] EXCEPT !.counted = visible])
       \/ /\ stage[r] = "donors"
          /\ GoOn(r, "done", [seen[r] EXCEPT !.donors = Succeeded])

(* getCampaignProgress: the sum and count, then the donors. *)
GetCampaignProgress(r) ==
    /\ kind[r] \in {"page", "campaigns"}
    /\ UNCHANGED fillAge
    /\ \/ /\ stage[r] = "counted"
          /\ GoOn(r, "donors", [seen[r] EXCEPT !.counted = Succeeded])
       \/ /\ stage[r] = "donors"
          /\ GoOn(r, "done", [seen[r] EXCEPT !.donors = Succeeded])

-----------------------------------------------------------------------------
(* encodeCursor: what of a row the cursor carries. *)
EncodeCursor(d) == <<createdAt[d], d>>

Above(k, c) == k[1] > c[1] \/ (k[1] = c[1] /\ k[2] > c[2])

(* Mutant: ties on createdAt are not broken by the id. *)
Follows_TimeOnly(dir, k, c) ==
    IF dir = "asc" THEN k[1] > c[1] ELSE k[1] < c[1]

(* The row of key k comes after the cursor c. *)
Follows(dir, k, c) == IF dir = "asc" THEN Above(k, c) ELSE Above(c, k)

(* The rows in the order asked for, createdAt first and then the id. *)
OrderedByKey(rows, dir) ==
    {q \in SetToSeqs(rows) :
        \A i, j \in 1..Len(q) : i < j =>
            ~Follows(dir, EncodeCursor(q[i]), EncodeCursor(q[j]))}

FirstOf(q, n) == SubSeq(q, 1, IF n < Len(q) THEN n ELSE Len(q))

(* The first page of a walk, in either mode. *)
FirstPage(r) ==
    /\ UNCHANGED fillAge
    /\ \E k \in {"cursor", "offset"}, f \in Statuses \union {AnyStatus},
          dir \in {"asc", "desc"} :
        /\ Begins(r, k)
        /\ GoOn(r, "next", [filter |-> f, direction |-> dir,
                            before |-> Matching(f), returned |-> <<>>,
                            cursor |-> <<>>, page |-> 1])

(* listCursor: rows after the cursor; an empty page ends the walk. *)
ListCursor(r) ==
    /\ kind[r] = "cursor"
    /\ stage[r] = "next"
    /\ UNCHANGED fillAge
    /\ LET w == seen[r]
           rows == {d \in Matching(w.filter) :
                      w.cursor = <<>>
                        \/ Follows(w.direction, EncodeCursor(d), w.cursor)}
       IN \E q \in OrderedByKey(rows, w.direction) :
            LET items == FirstOf(q, PageSize) IN
            IF items = <<>>
            THEN GoOn(r, "done", w)
            ELSE GoOn(r, "next",
                      [w EXCEPT !.returned = @ \o items,
                                !.cursor = EncodeCursor(Last(items))])

(* The orders the database may return rows in, sorted by createdAt alone. *)
OrderedByTime(rows, dir) ==
    {q \in SetToSeqs(rows) :
        \A i, j \in 1..Len(q) : i < j =>
            IF dir = "asc" THEN createdAt[q[i]] <= createdAt[q[j]]
                           ELSE createdAt[q[i]] >= createdAt[q[j]]}

(* Mutant: pages are counted from zero. *)
Skipped_FromZero(page) == page * PageSize

Skipped(page) == (page - 1) * PageSize

(* listPaged, its first statement. *)
FindMany(r) ==
    /\ kind[r] = "offset"
    /\ stage[r] = "next"
    /\ UNCHANGED fillAge
    /\ LET w == seen[r] IN
       \E q \in OrderedByTime(Matching(w.filter), w.direction) :
          LET items == SubSeq(q, Skipped(w.page) + 1,
                              IF Skipped(w.page) + PageSize < Len(q)
                              THEN Skipped(w.page) + PageSize ELSE Len(q))
          IN GoOn(r, "total", [w EXCEPT !.returned = @ \o items])

(* The second statement, and the route's totalPages, up to which the       *)
(* reader goes on.                                                         *)
Count(r) ==
    /\ kind[r] = "offset"
    /\ stage[r] = "total"
    /\ UNCHANGED fillAge
    /\ LET w == seen[r] IN
       IF w.page * PageSize >= Cardinality(Matching(w.filter))
       THEN GoOn(r, "done", w)
       ELSE GoOn(r, "next", [w EXCEPT !.page = @ + 1])

-----------------------------------------------------------------------------
(* The answer is sent, a statement failed, the campaign was not found, or  *)
(* the reader does not ask for the next page.                              *)
Reply(r) ==
    /\ stage[r] # "idle"
    /\ stage' = [stage EXCEPT ![r] = "idle"]
    /\ seen' = [seen EXCEPT ![r] = NoFigures]
    /\ fillAge' = [fillAge EXCEPT ![r] = 0]
    /\ UNCHANGED <<table, kind, dashboard>>

Filling(r) ==
    kind[r] = "dashboard" /\ stage[r] \notin {"idle", "done"}

(* Time passes, which matters to the dashboard alone; get drops an entry   *)
(* that has expired.                                                       *)
Tick ==
    /\ \E r \in Readers : kind[r] = "dashboard"
    /\ \A r \in Readers : Filling(r) => fillAge[r] < MaxFill
    /\ fillAge' = [r \in Readers |-> IF Filling(r) THEN fillAge[r] + 1
                                                   ELSE fillAge[r]]
    /\ age' = [d \in Donations |->
            IF d \in visible /\ age[d] < TtlMs + MaxFill THEN age[d] + 1
                                                         ELSE age[d]]
    /\ cacheLeft' = IF cacheLeft > 0 THEN cacheLeft - 1 ELSE 0
    /\ cache' = IF cacheLeft > 1 THEN cache ELSE NoFigures
    /\ UNCHANGED <<visible, createdAt, status, kind, stage, seen>>

Next ==
    \/ \E d \in Donations : CreatePending(d) \/ Settle(d)
    \/ \E r \in Readers :
        \/ GetMetrics(r)
        \/ DashboardMetrics(r)
        \/ Fill(r)
        \/ FindCampaign(r)
        \/ FindById(r)
        \/ GetCampaignProgress(r)
        \/ FirstPage(r)
        \/ ListCursor(r)
        \/ FindMany(r)
        \/ Count(r)
        \/ Reply(r)
    \/ Tick

Spec == Init /\ [][Next]_vars

-----------------------------------------------------------------------------
(* The figures of one answer, read by different statements while donations *)
(* come in, never contradict one another: what was there when the request  *)
(* began is in all of them, no more donations have succeeded than there    *)
(* are, the last one is not before any that is counted, the donors include *)
(* those of the donations counted, and a campaign page's progress is not   *)
(* behind the count shown beside it.                                       *)
Agree(f) ==
    /\ f.before \subseteq f.raised
    /\ f.raised \subseteq f.counted
    /\ f.counted \subseteq f.donors

FiguresAgree ==
    \A r \in Readers :
        (stage[r] = "done" /\ kind[r] \in {"dashboard", "page", "campaigns"})
            => /\ Agree(seen[r])
               /\ kind[r] = "dashboard"
                    => \A d \in seen[r].counted : createdAt[d] <= seen[r].newest

(* The dashboard shows every donation, and every success, that is as old   *)
(* as the cache's life and the time a fill may take together, although a   *)
(* slow fill may replace what a faster one has put into the cache.         *)
DashboardIsRecent ==
    cacheLeft > 0 =>
        \A d \in visible :
            age[d] = TtlMs + MaxFill
                => /\ d \in cache.counted \intersect cache.donors
                   /\ createdAt[d] <= cache.newest
                   /\ status[d] = "SUCCEEDED" => d \in cache.raised

(* Walking the list by cursor returns no donation twice, and at the end it *)
(* has returned every donation that was there, and passed the filter, from *)
(* beginning to end, however many share a timestamp.                       *)
CursorWalkIsExact ==
    \A r \in Readers :
        (kind[r] = "cursor" /\ stage[r] \in {"next", "done"}) =>
            LET w == seen[r] IN
            /\ IsInjective(w.returned)
            /\ stage[r] = "done" =>
                w.before \intersect Matching(w.filter)
                    \subseteq {w.returned[i] : i \in DOMAIN w.returned}

(* Walking it page by page misses none either, unless another donation has *)
(* the same timestamp, which the order leaves open, or rows leave the list *)
(* meanwhile, as PENDING ones do.                                          *)
OffsetWalkMissesOnlyTies ==
    \A r \in Readers :
        (kind[r] = "offset" /\ stage[r] = "done") =>
            LET w == seen[r] IN
            \A d \in w.before :
                \/ \E i \in DOMAIN w.returned : w.returned[i] = d
                \/ \E e \in visible \ {d} : createdAt[e] = createdAt[d]
                \/ w.filter = "PENDING"
=============================================================================
