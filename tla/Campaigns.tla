------------------------------ MODULE Campaigns ------------------------------
(***************************************************************************)
(* The table of campaigns and the requests of the administrators that      *)
(* change it.  CampaignService asks the table one or two questions, then   *)
(* writes; each question and the write is a statement of its own.  A       *)
(* deleted campaign stays in the table with its slug, which the unique     *)
(* index knows and the look-up by slug does not.                           *)
(*                                                                         *)
(* Who may send these requests is the matter of AdminUsers; what the       *)
(* public pages say of a campaign's donations that of Reports.  Of a row,  *)
(* only the fields that something is decided on are kept.                  *)
(***************************************************************************)
EXTENDS Integers

CONSTANTS
    Ids,            \* bound: the ids the table may hold
    Slugs,
    Statuses,       \* bound: the statuses in use, "ACTIVE" among them
    LastDay,        \* bound: dates are days 1..LastDay
    Writers         \* bound: requests in progress at once

NoDate == 0
Days == 1..LastDay
Dates == Days \union {NoDate}
NoRow == [slug |-> "none"]

ASSUME CampaignAssumption ==
    /\ LastDay \in Nat \ {0}
    /\ "ACTIVE" \in Statuses

VARIABLES
    campaign,       \* campaign[k]: the row, or NoRow
    deleted,        \* the campaigns that have a deletedAt
    req,            \* req[w]: what request w is about to write
    stage,          \* stage[w]: the await it has reached
    moved,          \* history: campaigns written by others since it began
    redated         \* history: campaigns whose dates were updated

vars == <<campaign, deleted, req, stage, moved, redated>>

Row == [slug : Slugs, status : Statuses, startDate : Dates, endDate : Dates]

(* Bound: an update changes one field.                                     *)
Patch ==
    [field : {"slug"}, value : Slugs] \union
    [field : {"status"}, value : Statuses] \union
    [field : {"startDate", "endDate"}, value : Dates]

Idle == [op |-> "none"]
Request ==
    {Idle} \union
    [op : {"create"}, row : Row] \union
    [op : {"update"}, target : Ids, patch : Patch] \union
    [op : {"delete", "restore"}, target : Ids]

(* What findById finds, and what of it the service goes on with. *)
Present == {k \in Ids : campaign[k] # NoRow}
Live == Present \ deleted
Holders(s) == {k \in Present : campaign[k].slug = s}

TypeOK ==
    /\ campaign \in [Ids -> Row \union {NoRow}]
    /\ deleted \subseteq Present
    /\ req \in [Writers -> Request]
    /\ stage \in [Writers -> {"idle", "slug", "write"}]
    /\ moved \in [Writers -> SUBSET Ids]
    /\ redated \subseteq Present

Init ==
    /\ campaign = [k \in Ids |-> NoRow]
    /\ deleted = {}
    /\ req = [w \in Writers |-> Idle]
    /\ stage = [w \in Writers |-> "idle"]
    /\ moved = [w \in Writers |-> {}]
    /\ redated = {}

-----------------------------------------------------------------------------
(* findBySlug: the campaign that has the slug and is not deleted. *)
FindBySlug(s) == Holders(s) \intersect Live

(* listActive: what the public page lists on day t. *)
ListActive(t) ==
    {k \in Live :
        /\ campaign[k].status = "ACTIVE"
        /\ campaign[k].startDate # NoDate => campaign[k].startDate <= t
        /\ campaign[k].endDate # NoDate => t <= campaign[k].endDate}

(* Request w has passed its checks so far and awaits its next statement. *)
Await(w, next, r) ==
    /\ req' = [req EXCEPT ![w] = r]
    /\ stage' = [stage EXCEPT ![w] = next]
    /\ moved' = [moved EXCEPT ![w] = {}]
    /\ UNCHANGED <<campaign, deleted, redated>>

(* Request w is over; what it wrote may overtake the others. *)
Done(w, written) ==
    /\ req' = [req EXCEPT ![w] = Idle]
    /\ stage' = [stage EXCEPT ![w] = "idle"]
    /\ moved' = [v \in Writers |->
            IF v = w \/ stage[v] = "idle" THEN {} ELSE moved[v] \union written]

-----------------------------------------------------------------------------
(* Mutant: create trusts the dates. *)
Create_AnyDates(w) ==
    /\ stage[w] = "idle"
    /\ \E row \in Row :
        /\ FindBySlug(row.slug) = {}
        /\ Await(w, "write", [op |-> "create", row |-> row])

(* create: the dates are in order and no live campaign has the slug. *)
Create(w) ==
    /\ stage[w] = "idle"
    /\ \E row \in Row :
        /\ (row.startDate # NoDate /\ row.endDate # NoDate)
                => row.startDate < row.endDate
        /\ FindBySlug(row.slug) = {}
        /\ Await(w, "write", [op |-> "create", row |-> row])

(* Mutant: a deleted campaign may be updated. *)
Update_DeletedToo(w) ==
    /\ stage[w] = "idle"
    /\ \E k \in Present, p \in Patch :
        Await(w, IF p.field = "slug" /\ p.value # campaign[k].slug
                 THEN "slug" ELSE "write",
              [op |-> "update", target |-> k, patch |-> p])

(* update: findById, and once more by slug when that is to change.  The    *)
(* dates of an update are not looked at.                                   *)
Update(w) ==
    /\ stage[w] = "idle"
    /\ \E k \in Live, p \in Patch :
        Await(w, IF p.field = "slug" /\ p.value # campaign[k].slug
                 THEN "slug" ELSE "write",
              [op |-> "update", target |-> k, patch |-> p])

CheckSlug(w) ==
    /\ stage[w] = "slug"
    /\ UNCHANGED <<campaign, deleted, redated>>
    /\ IF FindBySlug(req[w].patch.value) # {}
       THEN Done(w, {})
       ELSE stage' = [stage EXCEPT ![w] = "write"] /\ UNCHANGED <<req, moved>>

Delete(w) ==
    /\ stage[w] = "idle"
    /\ \E k \in Live : Await(w, "write", [op |-> "delete", target |-> k])

Restore(w) ==
    /\ stage[w] = "idle"
    /\ \E k \in deleted : Await(w, "write", [op |-> "restore", target |-> k])

-----------------------------------------------------------------------------
(* INSERT; the unique index refuses a slug that is taken, by a deleted     *)
(* campaign too: 500.  Bound: with all ids used up it is only ever refused. *)
InsertRow(w) ==
    LET row == req[w].row IN
    /\ req[w].op = "create"
    /\ UNCHANGED <<deleted, redated>>
    /\ \/ /\ Holders(row.slug) # {}
          /\ Done(w, {})
          /\ UNCHANGED campaign
       \/ /\ Holders(row.slug) = {}
          /\ \E k \in Ids \ Present :
                /\ campaign' = [campaign EXCEPT ![k] = row]
                /\ Done(w, {k})

(* UPDATE of one row by its id, deleted meanwhile or not. *)
UpdateRow(w) ==
    LET k == req[w].target
        p == req[w].patch IN
    /\ req[w].op = "update"
    /\ UNCHANGED deleted
    /\ \/ /\ p.field = "slug"
          /\ Holders(p.value) \ {k} # {}
          /\ Done(w, {})
          /\ UNCHANGED <<campaign, redated>>
       \/ /\ p.field = "slug" => Holders(p.value) \subseteq {k}
          /\ campaign' = [campaign EXCEPT ![k][p.field] = p.value]
          /\ redated' = IF p.field \in {"startDate", "endDate"}
                        THEN redated \union {k} ELSE redated
          /\ Done(w, {k})

SoftDelete(w) ==
    /\ req[w].op = "delete"
    /\ deleted' = deleted \union {req[w].target}
    /\ Done(w, {req[w].target})
    /\ UNCHANGED <<campaign, redated>>

RestoreRow(w) ==
    /\ req[w].op = "restore"
    /\ deleted' = deleted \ {req[w].target}
    /\ Done(w, {req[w].target})
    /\ UNCHANGED <<campaign, redated>>

Write(w) ==
    /\ stage[w] = "write"
    /\ \/ InsertRow(w)
       \/ UpdateRow(w)
       \/ SoftDelete(w)
       \/ RestoreRow(w)

(* A statement fails or the process stops before the write. *)
Abort(w) ==
    /\ stage[w] # "idle"
    /\ Done(w, {})
    /\ UNCHANGED <<campaign, deleted, redated>>

Next ==
    \E w \in Writers :
        \/ Create(w)
        \/ Update(w)
        \/ CheckSlug(w)
        \/ Delete(w)
        \/ Restore(w)
        \/ Write(w)
        \/ Abort(w)

Spec == Init /\ [][Next]_vars

-----------------------------------------------------------------------------
(* What was checked before a write, as the table has it at the write: the  *)
(* target of an update or deletion is live, that of a restoration deleted, *)
(* and no live campaign but the target has the slug.                       *)
Wanted(r) ==
    IF r.op = "create" THEN {r.row.slug}
    ELSE IF r.op = "update" /\ r.patch.field = "slug" THEN {r.patch.value}
    ELSE {}

Target(r) == IF r.op = "create" THEN {} ELSE {r.target}

CheckHolds(r) ==
    /\ r.op \in {"update", "delete"} => r.target \in Live
    /\ r.op = "restore" => r.target \in deleted
    /\ \A s \in Wanted(r) : FindBySlug(s) \subseteq Target(r)

Concerns(r) == Target(r) \union UNION {Holders(s) : s \in Wanted(r)}

(* A write finds the campaigns it checked as it checked them unless        *)
(* another request wrote one of them in between.  So a slug is refused by  *)
(* the unique index only for a race or for a deleted campaign, and a       *)
(* deleted campaign is changed only by a request that found it live.       *)
WritesWhatItChecked ==
    \A w \in Writers :
        stage[w] = "write"
            => CheckHolds(req[w]) \/ Concerns(req[w]) \intersect moved[w] # {}

(* A campaign that is active and not deleted has a day on which the public *)
(* page lists it, before the first date or after the last one if need be,  *)
(* unless an update has changed its dates: create checks their order,      *)
(* update does not, and listActive asks for both.                          *)
ActiveIsListable ==
    \A k \in Live :
        campaign[k].status = "ACTIVE"
            => k \in redated \/ \E t \in 0..(LastDay + 1) : k \in ListActive(t)
=============================================================================
