--------------------------- MODULE CampaignsProofs ---------------------------
(***************************************************************************)
(* Proofs about Campaigns, for any sets of ids, slugs, statuses and        *)
(* requests and any number of days.                                        *)
(*                                                                         *)
(* WritesWhatItChecked is not inductive: of the two ways in which a check  *)
(* may have gone stale the second one has to be known for every campaign   *)
(* concerned, and the check must be followed from the await before the     *)
(* write on.  ChecksKnown says so, campaign by campaign; DatesInOrder is   *)
(* ActiveIsListable without the clock.                                     *)
(***************************************************************************)
EXTENDS Campaigns, TLAPS

(* The unique index on the slug. *)
UniqueSlugs ==
    \A j, k \in Present : campaign[j].slug = campaign[k].slug => j = k

(* What a request that waits at a stage is about; rows are never removed. *)
Shapes ==
    \A w \in Writers :
        /\ stage[w] = "slug"
            => req[w].op = "update" /\ req[w].patch.field = "slug"
        /\ stage[w] = "write" => req[w].op # "none"
        /\ stage[w] # "idle" /\ req[w].op \in {"update", "delete", "restore"}
            => req[w].target \in Present

(* Every campaign that makes a check stale was written by somebody else    *)
(* after the check.                                                        *)
ChecksKnown ==
    \A w \in Writers :
        /\ stage[w] # "idle" /\ req[w].op \in {"update", "delete"}
            => req[w].target \in Live \union moved[w]
        /\ stage[w] # "idle" /\ req[w].op = "restore"
            => req[w].target \in deleted \union moved[w]
        /\ stage[w] = "write"
            => \A s \in Wanted(req[w]) :
                  FindBySlug(s) \subseteq Target(req[w]) \union moved[w]

InOrder(row) ==
    (row.startDate # NoDate /\ row.endDate # NoDate)
        => row.startDate < row.endDate

(* Dates that no update has touched are those that create has checked. *)
DatesInOrder ==
    /\ \A k \in Present : k \in redated \/ InOrder(campaign[k])
    /\ \A w \in Writers : req[w].op = "create" => InOrder(req[w].row)

IInv == TypeOK /\ UniqueSlugs /\ Shapes /\ ChecksKnown /\ DatesInOrder

-----------------------------------------------------------------------------
(* A row is not the mark of an unused id. *)
LEMMA RowIsARow == NoRow \notin Row
<1>1. SUFFICES ASSUME NoRow \in Row PROVE FALSE
  OBVIOUS
<1>2. DOMAIN NoRow = {"slug", "status", "startDate", "endDate"}
  BY <1>1 DEF Row
<1>3. DOMAIN NoRow = {"slug"}
  BY DEF NoRow
<1> QED
  BY <1>2, <1>3

(* A patched row is a row, and differs from the old one in one field. *)
LEMMA PatchedRow ==
    ASSUME NEW row \in Row, NEW p \in Patch
    PROVE  /\ [row EXCEPT ![p.field] = p.value] \in Row
           /\ p.field # "slug" =>
                [row EXCEPT ![p.field] = p.value].slug = row.slug
           /\ p.field = "slug" =>
                [row EXCEPT ![p.field] = p.value].slug = p.value
           /\ p.field \notin {"startDate", "endDate"} =>
                /\ [row EXCEPT ![p.field] = p.value].startDate = row.startDate
                /\ [row EXCEPT ![p.field] = p.value].endDate = row.endDate
<1>1. CASE p.field = "slug"
  BY <1>1 DEF Row, Patch
<1>2. CASE p.field = "status"
  BY <1>2 DEF Row, Patch
<1>3. CASE p.field = "startDate"
  BY <1>3 DEF Row, Patch
<1>4. CASE p.field = "endDate"
  BY <1>4 DEF Row, Patch
<1> QED
  BY <1>1, <1>2, <1>3, <1>4 DEF Patch

(* The initial state satisfies the invariant. *)
LEMMA InitIInv == Init => IInv
<1> SUFFICES ASSUME Init PROVE IInv
  OBVIOUS
<1> USE DEF Init
<1>1. Present = {}
  BY DEF Present
<1>2. TypeOK
  BY <1>1 DEF TypeOK, Request, Idle
<1>3. UniqueSlugs /\ Shapes /\ ChecksKnown /\ DatesInOrder
  BY <1>1 DEF UniqueSlugs, Shapes, ChecksKnown, DatesInOrder, Idle
<1> QED
  BY <1>2, <1>3 DEF IInv

-----------------------------------------------------------------------------
(* A request that reaches its next await leaves the table alone, so only   *)
(* what is known of itself has to be shown.                                *)
LEMMA AwaitKeeps ==
    ASSUME IInv, NEW w \in Writers, NEW r \in Request,
           NEW next \in {"slug", "write"}, Await(w, next, r),
           r.op # "none",
           next = "slug" => r.op = "update" /\ r.patch.field = "slug",
           r.op \in {"update", "delete"} => r.target \in Live,
           r.op = "restore" => r.target \in deleted,
           next = "write" => \A s \in Wanted(r) : FindBySlug(s) \subseteq Target(r),
           r.op = "create" => InOrder(r.row)
    PROVE  IInv'
<1> USE DEF IInv
<1>0. /\ req' = [req EXCEPT ![w] = r] /\ stage' = [stage EXCEPT ![w] = next]
      /\ moved' = [moved EXCEPT ![w] = {}]
      /\ UNCHANGED <<campaign, deleted, redated>>
  BY DEF Await
<1>1. /\ Present' = Present /\ Live' = Live
      /\ \A s : FindBySlug(s)' = FindBySlug(s)
  BY <1>0 DEF Present, Live, FindBySlug, Holders
<1>2. TypeOK'
  BY <1>0, <1>1 DEF TypeOK
<1>3. UniqueSlugs'
  BY <1>0, <1>1 DEF UniqueSlugs
<1>4. Shapes'
  <2>1. r.op \in {"update", "delete", "restore"} => r.target \in Present
    BY DEF TypeOK, Live
  <2> QED
    BY <2>1, <1>0, <1>1 DEF Shapes, TypeOK
<1>5. ChecksKnown'
  <2> SUFFICES ASSUME NEW v \in Writers
               PROVE  /\ stage'[v] # "idle" /\ req'[v].op \in {"update", "delete"}
                          => req'[v].target \in Live \union moved'[v]
                      /\ stage'[v] # "idle" /\ req'[v].op = "restore"
                          => req'[v].target \in deleted \union moved'[v]
                      /\ stage'[v] = "write"
                          => \A s \in Wanted(req'[v]) :
                                FindBySlug(s) \subseteq Target(req'[v]) \union moved'[v]
    BY <1>0, <1>1 DEF ChecksKnown, Wanted, Target
  <2>1. CASE v = w
    BY <2>1, <1>0 DEF TypeOK
  <2>2. CASE v # w
    <3>1. /\ req'[v] = req[v] /\ stage'[v] = stage[v] /\ moved'[v] = moved[v]
      BY <2>2, <1>0 DEF TypeOK
    <3> QED
      BY <3>1 DEF ChecksKnown
  <2> QED
    BY <2>1, <2>2
<1>6. DatesInOrder'
  BY <1>0, <1>1 DEF DatesInOrder, TypeOK, InOrder
<1> QED
  BY <1>2, <1>3, <1>4, <1>5, <1>6

(* A request that is over and wrote no row but those it names leaves the   *)
(* checks of the others known: a row is changed only for those who are     *)
(* told.                                                                   *)
LEMMA DoneKeeps ==
    ASSUME IInv, NEW w \in Writers, NEW written \in SUBSET Ids,
           Done(w, written),
           campaign' \in [Ids -> Row \union {NoRow}], deleted' \in SUBSET Ids,
           Present \subseteq Present',
           \A k \in Ids \ written :
              campaign'[k] = campaign[k] /\ (k \in deleted' <=> k \in deleted)
    PROVE  /\ Shapes' /\ ChecksKnown'
           /\ req' \in [Writers -> Request]
           /\ stage' \in [Writers -> {"idle", "slug", "write"}]
           /\ moved' \in [Writers -> SUBSET Ids]
           /\ \A v \in Writers : req'[v].op = "create" => req'[v] = req[v]
<1> USE DEF IInv
<1>0. /\ req' = [req EXCEPT ![w] = Idle] /\ stage' = [stage EXCEPT ![w] = "idle"]
      /\ moved' = [v \in Writers |->
            IF v = w \/ stage[v] = "idle" THEN {} ELSE moved[v] \union written]
  BY DEF Done
<1>1. /\ req' \in [Writers -> Request]
      /\ stage' \in [Writers -> {"idle", "slug", "write"}]
      /\ moved' \in [Writers -> SUBSET Ids]
  BY <1>0 DEF TypeOK, Request
<1>2. \A v \in Writers : req'[v].op = "create" => req'[v] = req[v]
  BY <1>0 DEF TypeOK, Idle
<1>3. Shapes'
  BY <1>0 DEF Shapes, TypeOK
<1>4. Live \ written \subseteq Live' /\ Live' \ written \subseteq Live
  BY DEF Live, Present, TypeOK
<1>5. \A s : FindBySlug(s)' \ written \subseteq FindBySlug(s)
  BY <1>4 DEF FindBySlug, Holders, Present, Live
<1>6. ChecksKnown'
  <2> SUFFICES ASSUME NEW v \in Writers, stage'[v] # "idle"
               PROVE  /\ req'[v].op \in {"update", "delete"}
                          => req'[v].target \in Live' \union moved'[v]
                      /\ req'[v].op = "restore"
                          => req'[v].target \in deleted' \union moved'[v]
                      /\ stage'[v] = "write"
                          => \A s \in Wanted(req'[v]) :
                                FindBySlug(s)' \subseteq Target(req'[v]) \union moved'[v]
    BY DEF ChecksKnown, Wanted, Target
  <2>1. /\ v # w /\ req'[v] = req[v] /\ stage'[v] = stage[v]
        /\ moved'[v] = moved[v] \union written
    BY <1>0 DEF TypeOK
  <2>2. /\ req[v].op \in {"update", "delete"}
            => req[v].target \in Live \union moved[v]
        /\ req[v].op = "restore" => req[v].target \in deleted \union moved[v]
        /\ stage[v] = "write"
            => \A s \in Wanted(req[v]) :
                  FindBySlug(s) \subseteq Target(req[v]) \union moved[v]
    BY <2>1 DEF ChecksKnown
  <2>3. deleted \ written \subseteq deleted'
    BY DEF TypeOK, Present
  <2> QED
    BY <2>1, <2>2, <2>3, <1>4, <1>5
<1> QED
  BY <1>1, <1>2, <1>3, <1>6

-----------------------------------------------------------------------------
(* create and update pass on what they have checked. *)
LEMMA CreateKeeps ==
    ASSUME IInv, NEW w \in Writers, Create(w)
    PROVE  IInv'
<1>1. PICK row \in Row :
        /\ InOrder(row)
        /\ FindBySlug(row.slug) = {}
        /\ Await(w, "write", [op |-> "create", row |-> row])
  BY DEF Create, InOrder
<1> DEFINE r == [op |-> "create", row |-> row]
<1>2. r \in Request
  BY DEF Request
<1>3. \A s \in Wanted(r) : FindBySlug(s) \subseteq Target(r)
  BY <1>1 DEF Wanted
<1> HIDE DEF r
<1>4. r.op = "create" /\ r.row = row /\ Await(w, "write", r)
  BY <1>1 DEF r
<1> QED
  BY <1>1, <1>2, <1>3, <1>4, AwaitKeeps

LEMMA UpdateKeeps ==
    ASSUME IInv, NEW w \in Writers, Update(w)
    PROVE  IInv'
<1>1. PICK k \in Live, p \in Patch :
        Await(w, IF p.field = "slug" /\ p.value # campaign[k].slug
                 THEN "slug" ELSE "write",
              [op |-> "update", target |-> k, patch |-> p])
  BY DEF Update
<1> DEFINE r == [op |-> "update", target |-> k, patch |-> p]
           next == IF p.field = "slug" /\ p.value # campaign[k].slug
                   THEN "slug" ELSE "write"
<1>2. r \in Request /\ k \in Present
  BY DEF Request, Live, Present
<1>3. next = "write" => \A s \in Wanted(r) : FindBySlug(s) \subseteq Target(r)
  BY <1>2 DEF Wanted, Target, FindBySlug, Holders, IInv, UniqueSlugs, Live
<1>4. next = "slug" => p.field = "slug"
  OBVIOUS
<1>5. next \in {"slug", "write"} /\ Await(w, next, r)
  BY <1>1
<1> HIDE DEF next
<1>6. r.op = "update" /\ r.target = k /\ r.patch = p
  OBVIOUS
<1> HIDE DEF r
<1> QED
  BY <1>2, <1>3, <1>4, <1>5, <1>6, AwaitKeeps

LEMMA DeleteKeeps ==
    ASSUME IInv, NEW w \in Writers, Delete(w) \/ Restore(w)
    PROVE  IInv'
<1>1. PICK op \in {"delete", "restore"}, k \in Ids :
        /\ op = "delete" => k \in Live
        /\ op = "restore" => k \in deleted
        /\ Await(w, "write", [op |-> op, target |-> k])
  BY DEF Delete, Restore, Live, Present, IInv, TypeOK
<1> DEFINE r == [op |-> op, target |-> k]
<1>2. r \in Request /\ Wanted(r) = {}
  BY DEF Request, Wanted
<1>3. r.op = op /\ r.target = k /\ Await(w, "write", r)
  BY <1>1
<1> HIDE DEF r
<1> QED
  BY <1>1, <1>2, <1>3, AwaitKeeps

(* The second question of an update: either it is over, or nobody but its  *)
(* own campaign has the slug.                                              *)
LEMMA CheckSlugKeeps ==
    ASSUME IInv, NEW w \in Writers, CheckSlug(w)
    PROVE  IInv'
<1> USE DEF IInv
<1>0. UNCHANGED <<campaign, deleted, redated>> /\ stage[w] = "slug"
  BY DEF CheckSlug
<1>1. /\ Present' = Present /\ Live' = Live
      /\ \A s : FindBySlug(s)' = FindBySlug(s)
  BY <1>0 DEF Present, Live, FindBySlug, Holders
<1>2. UniqueSlugs'
  BY <1>0, <1>1 DEF UniqueSlugs
<1>3. req[w].op = "update" /\ req[w].patch.field = "slug"
  BY <1>0 DEF Shapes
<1>4. CASE FindBySlug(req[w].patch.value) # {}
  <2>1. Done(w, {})
    BY <1>4 DEF CheckSlug
  <2>2. /\ campaign' \in [Ids -> Row \union {NoRow}] /\ deleted' \in SUBSET Ids
        /\ \A k \in Ids : campaign'[k] = campaign[k]
                          /\ (k \in deleted' <=> k \in deleted)
        /\ Present \subseteq Present'
    BY <1>0, <1>1 DEF TypeOK, Present
  <2>3. /\ Shapes' /\ ChecksKnown'
        /\ req' \in [Writers -> Request]
        /\ stage' \in [Writers -> {"idle", "slug", "write"}]
        /\ moved' \in [Writers -> SUBSET Ids]
        /\ \A v \in Writers : req'[v].op = "create" => req'[v] = req[v]
    BY <2>1, <2>2, DoneKeeps
  <2>4. TypeOK'
    BY <2>3, <1>0, <1>1 DEF TypeOK
  <2>5. DatesInOrder'
    BY <2>3, <1>0, <1>1 DEF DatesInOrder
  <2> QED
    BY <2>3, <2>4, <2>5, <1>2
<1>5. CASE FindBySlug(req[w].patch.value) = {}
  <2>1. stage' = [stage EXCEPT ![w] = "write"] /\ UNCHANGED <<req, moved>>
    BY <1>5 DEF CheckSlug
  <2>2. TypeOK'
    BY <2>1, <1>0, <1>1 DEF TypeOK
  <2>3. Shapes'
    BY <2>1, <1>0, <1>1, <1>3 DEF Shapes, TypeOK
  <2>4. \A s \in Wanted(req[w]) : FindBySlug(s) = {}
    BY <1>3, <1>5 DEF Wanted
  <2>5. ChecksKnown'
    BY <2>1, <2>4, <1>0, <1>1, <1>3 DEF ChecksKnown, TypeOK, Wanted, Target
  <2>6. DatesInOrder'
    BY <2>1, <1>0, <1>1 DEF DatesInOrder
  <2> QED
    BY <2>2, <2>3, <2>5, <2>6, <1>2
<1> QED
  BY <1>4, <1>5

-----------------------------------------------------------------------------
(* The end of a request that writes nothing. *)
LEMMA NothingWritten ==
    ASSUME IInv, NEW w \in Writers, Done(w, {}),
           UNCHANGED <<campaign, deleted, redated>>
    PROVE  IInv'
<1> USE DEF IInv
<1>1. Present' = Present
  BY DEF Present
<1>2. /\ campaign' \in [Ids -> Row \union {NoRow}] /\ deleted' \in SUBSET Ids
      /\ \A k \in Ids : campaign'[k] = campaign[k]
                        /\ (k \in deleted' <=> k \in deleted)
  BY DEF TypeOK, Present
<1>3. /\ Shapes' /\ ChecksKnown'
      /\ req' \in [Writers -> Request]
      /\ stage' \in [Writers -> {"idle", "slug", "write"}]
      /\ moved' \in [Writers -> SUBSET Ids]
      /\ \A v \in Writers : req'[v].op = "create" => req'[v] = req[v]
  BY <1>1, <1>2, DoneKeeps
<1>4. TypeOK' /\ UniqueSlugs' /\ DatesInOrder'
  BY <1>1, <1>3 DEF TypeOK, UniqueSlugs, DatesInOrder
<1> QED
  BY <1>3, <1>4

(* The index keeps the slugs apart, and create has checked the dates. *)
LEMMA InsertRowKeeps ==
    ASSUME IInv, NEW w \in Writers, stage[w] = "write", InsertRow(w)
    PROVE  IInv'
<1> USE DEF IInv
<1>0. /\ req[w].op = "create" /\ req[w].row \in Row /\ InOrder(req[w].row)
      /\ UNCHANGED <<deleted, redated>>
  BY DEF InsertRow, TypeOK, Request, Idle, DatesInOrder
<1>1. CASE Done(w, {}) /\ UNCHANGED campaign
  BY <1>0, <1>1, NothingWritten
<1>2. ASSUME NEW k \in Ids \ Present, Holders(req[w].row.slug) = {},
             campaign' = [campaign EXCEPT ![k] = req[w].row],
             Done(w, {k})
      PROVE  IInv'
  <2>1. campaign' \in [Ids -> Row \union {NoRow}] /\ deleted' \in SUBSET Ids
    BY <1>0, <1>2 DEF TypeOK, Present
  <2>2. \A j \in Ids \ {k} : campaign'[j] = campaign[j]
                             /\ (j \in deleted' <=> j \in deleted)
    BY <1>0, <1>2 DEF TypeOK
  <2>3. campaign'[k] = req[w].row /\ Present' = Present \union {k}
    BY <1>0, <1>2, RowIsARow DEF TypeOK, Present
  <2>4. /\ Shapes' /\ ChecksKnown'
        /\ req' \in [Writers -> Request]
        /\ stage' \in [Writers -> {"idle", "slug", "write"}]
        /\ moved' \in [Writers -> SUBSET Ids]
        /\ \A v \in Writers : req'[v].op = "create" => req'[v] = req[v]
    BY <1>2, <2>1, <2>2, <2>3, DoneKeeps
  <2>5. TypeOK'
    BY <1>0, <2>1, <2>3, <2>4 DEF TypeOK
  <2>6. UniqueSlugs'
    BY <1>2, <2>2, <2>3 DEF UniqueSlugs, Holders, Present
  <2>7. DatesInOrder'
    BY <1>0, <2>2, <2>3, <2>4 DEF DatesInOrder, Present
  <2> QED
    BY <2>4, <2>5, <2>6, <2>7
<1> QED
  BY <1>1, <1>2 DEF InsertRow

(* An update that changes the dates is noted, one that changes the slug    *)
(* meets the index.                                                        *)
LEMMA UpdateRowKeeps ==
    ASSUME IInv, NEW w \in Writers, stage[w] = "write", UpdateRow(w)
    PROVE  IInv'
<1> USE DEF IInv
<1> DEFINE k == req[w].target
           p == req[w].patch
<1>0. /\ req[w].op = "update" /\ k \in Present /\ p \in Patch
      /\ UNCHANGED deleted
  BY DEF UpdateRow, TypeOK, Request, Idle, Shapes
<1>1. CASE Done(w, {}) /\ UNCHANGED <<campaign, redated>>
  BY <1>0, <1>1, NothingWritten
<1>2. CASE /\ p.field = "slug" => Holders(p.value) \subseteq {k}
           /\ campaign' = [campaign EXCEPT ![k][p.field] = p.value]
           /\ redated' = IF p.field \in {"startDate", "endDate"}
                         THEN redated \union {k} ELSE redated
           /\ Done(w, {k})
  <2> DEFINE new == [campaign[k] EXCEPT ![p.field] = p.value]
  <2>1. campaign[k] \in Row /\ k \in Ids
    BY <1>0 DEF TypeOK, Present
  <2>2. /\ new \in Row
        /\ p.field # "slug" => new.slug = campaign[k].slug
        /\ p.field = "slug" => new.slug = p.value
        /\ p.field \notin {"startDate", "endDate"} =>
             new.startDate = campaign[k].startDate
             /\ new.endDate = campaign[k].endDate
    BY <1>0, <2>1, PatchedRow
  <2>3. campaign' = [campaign EXCEPT ![k] = new]
    BY <1>2
  <2> HIDE DEF new
  <2>4. campaign' \in [Ids -> Row \union {NoRow}] /\ deleted' \in SUBSET Ids
    BY <1>0, <2>1, <2>2, <2>3 DEF TypeOK, Present
  <2>5. \A j \in Ids \ {k} : campaign'[j] = campaign[j]
                             /\ (j \in deleted' <=> j \in deleted)
    BY <1>0, <2>3 DEF TypeOK
  <2>6. campaign'[k] = new /\ Present' = Present
    BY <1>0, <2>1, <2>2, <2>3, RowIsARow DEF TypeOK, Present
  <2>7. /\ Shapes' /\ ChecksKnown'
        /\ req' \in [Writers -> Request]
        /\ stage' \in [Writers -> {"idle", "slug", "write"}]
        /\ moved' \in [Writers -> SUBSET Ids]
        /\ \A v \in Writers : req'[v].op = "create" => req'[v] = req[v]
    BY <1>2, <2>1, <2>4, <2>5, <2>6, DoneKeeps
  <2>8. TypeOK'
    BY <1>0, <1>2, <2>4, <2>6, <2>7 DEF TypeOK
  <2>9. UniqueSlugs'
    BY <1>0, <1>2, <2>2, <2>5, <2>6 DEF UniqueSlugs, Holders, Present
  <2>10. \A j \in Present : j \in redated' \/ InOrder(campaign'[j])
    <3>1. CASE p.field \in {"startDate", "endDate"}
      BY <1>2, <2>5, <3>1 DEF DatesInOrder, Present
    <3>2. CASE p.field \notin {"startDate", "endDate"}
      BY <1>2, <2>2, <2>5, <2>6, <3>2 DEF DatesInOrder, Present, InOrder
    <3> QED
      BY <3>1, <3>2
  <2>11. DatesInOrder'
    BY <2>6, <2>7, <2>10 DEF DatesInOrder
  <2> QED
    BY <2>7, <2>8, <2>9, <2>11
<1> QED
  BY <1>1, <1>2 DEF UpdateRow

(* Deleting and restoring touch nothing but the mark. *)
LEMMA MarkKeeps ==
    ASSUME IInv, NEW w \in Writers, stage[w] = "write",
           SoftDelete(w) \/ RestoreRow(w)
    PROVE  IInv'
<1> USE DEF IInv
<1> DEFINE k == req[w].target
<1>0. /\ k \in Present /\ UNCHANGED <<campaign, redated>> /\ Done(w, {k})
      /\ deleted' = deleted \union {k} \/ deleted' = deleted \ {k}
  BY DEF SoftDelete, RestoreRow, Shapes
<1>1. Present' = Present /\ k \in Ids
  BY <1>0 DEF Present
<1>2. /\ campaign' \in [Ids -> Row \union {NoRow}] /\ deleted' \subseteq Present
      /\ \A j \in Ids \ {k} : campaign'[j] = campaign[j]
                              /\ (j \in deleted' <=> j \in deleted)
  BY <1>0 DEF TypeOK
<1>3. /\ Shapes' /\ ChecksKnown'
      /\ req' \in [Writers -> Request]
      /\ stage' \in [Writers -> {"idle", "slug", "write"}]
      /\ moved' \in [Writers -> SUBSET Ids]
      /\ \A v \in Writers : req'[v].op = "create" => req'[v] = req[v]
  <2>1. deleted' \in SUBSET Ids /\ Present \subseteq Present'
    BY <1>1, <1>2 DEF Present
  <2> QED
    BY <2>1, <1>0, <1>1, <1>2, DoneKeeps
<1>4. TypeOK' /\ UniqueSlugs' /\ DatesInOrder'
  BY <1>0, <1>1, <1>2, <1>3 DEF TypeOK, UniqueSlugs, DatesInOrder
<1> QED
  BY <1>3, <1>4

-----------------------------------------------------------------------------
(* Every step preserves the invariant. *)
LEMMA NextIInv == IInv /\ [Next]_vars => IInv'
<1> SUFFICES ASSUME IInv, [Next]_vars PROVE IInv'
  OBVIOUS
<1>1. ASSUME NEW w \in Writers, Create(w) PROVE IInv'
  BY <1>1, CreateKeeps
<1>2. ASSUME NEW w \in Writers, Update(w) PROVE IInv'
  BY <1>2, UpdateKeeps
<1>3. ASSUME NEW w \in Writers, CheckSlug(w) PROVE IInv'
  BY <1>3, CheckSlugKeeps
<1>4. ASSUME NEW w \in Writers, Delete(w) \/ Restore(w) PROVE IInv'
  BY <1>4, DeleteKeeps
<1>5. ASSUME NEW w \in Writers, Write(w) PROVE IInv'
  BY <1>5, InsertRowKeeps, UpdateRowKeeps, MarkKeeps DEF Write
<1>6. ASSUME NEW w \in Writers, Abort(w) PROVE IInv'
  BY <1>6, NothingWritten DEF Abort
<1>7. CASE UNCHANGED vars
  <2>1. Present' = Present /\ Live' = Live /\ \A s : FindBySlug(s)' = FindBySlug(s)
    BY <1>7 DEF vars, Present, Live, FindBySlug, Holders
  <2> QED
    BY <1>7, <2>1 DEF vars, IInv, TypeOK, UniqueSlugs, Shapes, ChecksKnown,
                      DatesInOrder
<1> QED
  BY <1>1, <1>2, <1>3, <1>4, <1>5, <1>6, <1>7 DEF Next

(* The invariant holds in every reachable state of the campaigns table.    *)
THEOREM Invariance == Spec => []IInv
<1> QED
  BY InitIInv, NextIInv, PTL DEF Spec

(* The table and the requests in progress are of their types; in           *)
(* particular only campaigns in the table are ever marked as deleted.      *)
THEOREM TypeCorrect == Spec => []TypeOK
<1>1. IInv => TypeOK
  BY DEF IInv
<1> QED
  BY <1>1, Invariance, PTL

(* A write of CampaignService finds the campaigns as it checked them,      *)
(* unless another request wrote one of them in between.                    *)
THEOREM WritesWhatItCheckedHolds == Spec => []WritesWhatItChecked
<1>1. IInv => WritesWhatItChecked
  <2> SUFFICES ASSUME IInv, NEW w \in Writers, stage[w] = "write",
                      Concerns(req[w]) \intersect moved[w] = {}
               PROVE  CheckHolds(req[w])
    BY DEF WritesWhatItChecked
  <2>1. req[w].op # "create" => req[w].target \notin moved[w]
    BY DEF Concerns, Target
  <2>2. \A s \in Wanted(req[w]) : Holders(s) \intersect moved[w] = {}
    BY DEF Concerns
  <2>3. \A s \in Wanted(req[w]) : FindBySlug(s) \subseteq Target(req[w])
    BY <2>2 DEF IInv, ChecksKnown, FindBySlug
  <2> QED
    BY <2>1, <2>3 DEF CheckHolds, IInv, ChecksKnown
<1> QED
  BY <1>1, Invariance, PTL

(* An active campaign whose dates no update has changed has a day on which *)
(* the public page lists it.                                               *)
THEOREM ActiveIsListableHolds == Spec => []ActiveIsListable
<1>1. IInv => ActiveIsListable
  <2> SUFFICES ASSUME IInv, NEW k \in Live, campaign[k].status = "ACTIVE",
                      k \notin redated
               PROVE  \E t \in 0..(LastDay + 1) : k \in ListActive(t)
    BY DEF ActiveIsListable
  <2>1. /\ k \in Present /\ campaign[k] \in Row /\ InOrder(campaign[k])
    BY DEF IInv, TypeOK, DatesInOrder, Live, Present
  <2>2. /\ campaign[k].startDate \in 0..LastDay
        /\ campaign[k].endDate \in 0..LastDay
    BY <2>1, CampaignAssumption DEF Row, Dates, Days, NoDate
  <2>3. CASE campaign[k].startDate # NoDate
    <3>1. k \in ListActive(campaign[k].startDate)
      BY <2>1, <2>2, <2>3 DEF ListActive, InOrder, NoDate
    <3> QED
      BY <3>1, <2>2, CampaignAssumption
  <2>4. CASE campaign[k].startDate = NoDate
    <3>1. k \in ListActive(campaign[k].endDate)
      BY <2>2, <2>4 DEF ListActive, NoDate
    <3> QED
      BY <3>1, <2>2, CampaignAssumption
  <2> QED
    BY <2>3, <2>4
<1> QED
  BY <1>1, Invariance, PTL
=============================================================================
