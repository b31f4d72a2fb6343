------------------------------ MODULE TravelPlan ------------------------------
(***************************************************************************)
(* Travel plans and their daily items (service/travel_plan_http.go, the    *)
(* user handlers of server.go, docs/travel-plan-soft-delete.md).           *)
(*                                                                         *)
(* A request loads a plan outside its transaction.  The transaction first  *)
(* saves the plan, which locks its row, then deletes all items of the      *)
(* plan, inserts the new ones or deletes the plan, and commits.  Only a    *)
(* deletion asked for with an API key that acts for no user does not save  *)
(* the plan, so it holds no lock on it while it deletes items.  Deletion   *)
(* is soft.  Isolation is that of Postgres, read committed: a statement    *)
(* sees what was committed before it began and waits for locked rows.      *)
(***************************************************************************)
EXTENDS FiniteSets

CONSTANTS
    Plan,         \* plans
    Item,         \* ids of daily items (bound)
    PlanRequest,  \* requests that are served at the same time
    NoPlan        \* no plan

ASSUME PlanAssumption == NoPlan \notin Plan

VARIABLES
    plan,     \* table travel_plans, the committed rows
    item,     \* table travel_plan_daily_plans, the committed rows
    work,     \* each request, with what its transaction has written
    outrun    \* history: plans deleted without a lock, while an update of them
              \* put items into them that the deletion did not see

planVars == <<plan, item, work, outrun>>

\* together: the items that the same transaction has inserted.
ItemRow == [status : {"absent", "live", "deleted"}, plan : Plan \cup {NoPlan},
            together : SUBSET Item, linked : BOOLEAN]
NoItem == [status |-> "absent", plan |-> NoPlan, together |-> {},
           linked |-> FALSE]

WorkKind == {"update", "deletePlan", "deleteAsKey", "deleteItem", "linkItem"}
WorkStep == {"idle", "loaded", "saved", "clearing", "cleared", "found"}
\* gone: items the transaction has deleted; fresh: items it has inserted;
\* target: the items a request is about; outrun: others came since.
Work == [kind : WorkKind, at : WorkStep, plan : Plan \cup {NoPlan},
         gone : SUBSET Item, fresh : SUBSET Item, target : SUBSET Item,
         outrun : BOOLEAN]
NoWork == [kind |-> "update", at |-> "idle", plan |-> NoPlan,
           gone |-> {}, fresh |-> {}, target |-> {}, outrun |-> FALSE]

PlanTypeOK ==
    /\ plan \in [Plan -> {"absent", "live", "deleted"}]
    /\ item \in [Item -> ItemRow]
    /\ \A i \in Item : item[i].status = "absent" <=> item[i].plan = NoPlan
    /\ work \in [PlanRequest -> Work]
    /\ outrun \in SUBSET Plan

PlanInit ==
    /\ plan = [p \in Plan |-> "absent"]
    /\ item = [i \in Item |-> NoItem]
    /\ work = [r \in PlanRequest |-> NoWork]
    /\ outrun = {}

-----------------------------------------------------------------------------
(* Rows and locks                                                          *)

LiveAmong(rows, p) == {i \in Item : rows[i].status = "live" /\ rows[i].plan = p}
LiveItems(p) == LiveAmong(item, p)

\* The row of the plan is locked by the transaction that has saved it.
HoldsPlan(r) == /\ work[r].at \in {"saved", "clearing", "cleared"}
                /\ work[r].kind # "deleteAsKey"
PlanLocked(p) == \E r \in PlanRequest : work[r].plan = p /\ HoldsPlan(r)

ItemsLocked(S) == \E r \in PlanRequest : work[r].gone \cap S # {}

\* The sequence hands out an id, also to a transaction that is rolled back.
UnusedItems ==
    {i \in Item : /\ item[i].status = "absent"
                  /\ \A r \in PlanRequest : i \notin work[r].fresh}
NextItem(i) == i \in UnusedItems /\ i = CHOOSE x \in UnusedItems : TRUE

\* Mistake: the items are inserted without the id of the plan.
NewRowsUnowned(p, S) == [i \in Item |->
    IF i \in S THEN [status |-> "live", plan |-> NoPlan, together |-> S,
                     linked |-> FALSE]
              ELSE item[i]]

\* The items S are inserted for p.
NewRows(p, S) == [i \in Item |->
    IF i \in S THEN [status |-> "live", plan |-> p, together |-> S,
                     linked |-> FALSE]
              ELSE item[i]]

EndWork(r) == work' = [work EXCEPT ![r] = NoWork]

-----------------------------------------------------------------------------
(* Requests                                                                *)

\* createTravelPlan: nobody sees the plan before its transaction commits.
CreatePlan(p, S) ==
    /\ plan[p] = "absent"
    /\ S \subseteq UnusedItems
    /\ plan' = [plan EXCEPT ![p] = "live"]
    /\ item' = NewRows(p, S)
    /\ UNCHANGED <<work, outrun>>

\* GetWithDailyPlans, and the checks of relation or owner.
LoadPlan(r, p, kind) ==
    /\ work[r].at = "idle"
    /\ plan[p] = "live"
    /\ work' = [work EXCEPT ![r] = [NoWork EXCEPT !.kind = kind, !.plan = p,
                                                  !.at = "loaded"]]
    /\ UNCHANGED <<plan, item, outrun>>

\* Every handler answers "plan not found" for a plan that is not there.
PlanNotFound(p) ==
    /\ plan[p] # "live"
    /\ UNCHANGED planVars

\* Mistake: a plan is not saved before its items are deleted.
SavePlanUnlocked(r) ==
    /\ work[r].at = "loaded"
    /\ work[r].kind \in {"update", "deletePlan"}
    /\ work' = [work EXCEPT ![r].at = "saved"]
    /\ UNCHANGED <<plan, item, outrun>>

\* plan.Update: waits for the lock.  Items of the copy are only given their
\* plan again.  If the plan has been deleted since it was loaded the save
\* brings it back when it commits, or is refused, as the library has it.
SavePlan(r) ==
    LET p == work[r].plan IN
    /\ work[r].at = "loaded"
    /\ work[r].kind \in {"update", "deletePlan"}
    /\ ~PlanLocked(p)
    /\ \/ work' = [work EXCEPT ![r].at = "saved"]
       \/ plan[p] = "deleted" /\ EndWork(r)
    /\ UNCHANGED <<plan, item, outrun>>

\* The statement that deletes the items of the plan sees those of now.  A key
\* without a user begins with it (integrationDeleteTravelPlanFn, actor = nil).
StartClearing(r) ==
    /\ work[r].at = IF work[r].kind = "deleteAsKey" THEN "loaded" ELSE "saved"
    /\ work' = [work EXCEPT ![r].at = "clearing",
                            ![r].target = LiveItems(work[r].plan)]
    /\ UNCHANGED <<plan, item, outrun>>

\* It waits for those that others have locked, and deletes what is left.
ClearItems(r) ==
    LET seen == work[r].target IN
    /\ work[r].at = "clearing"
    /\ ~ItemsLocked(seen)
    /\ work' = [work EXCEPT ![r].at = "cleared",
                            ![r].gone = seen \cap LiveItems(work[r].plan)]
    /\ UNCHANGED <<plan, item, outrun>>

\* persistTravelPlanDailyEntries, one entry.
AddItem(r) ==
    /\ work[r].at = "cleared" /\ work[r].kind = "update"
    /\ \E i \in Item :
          /\ NextItem(i)
          /\ work' = [work EXCEPT ![r].fresh = @ \cup {i}]
    /\ UNCHANGED <<plan, item, outrun>>

\* What a commit makes of the items.
Committed(r) ==
    [i \in Item |->
       IF i \in work[r].gone THEN [item[i] EXCEPT !.status = "deleted"]
                             ELSE NewRows(work[r].plan, work[r].fresh)[i]]

\* The transaction of an update commits, with or without daily plans.  A
\* deletion that is at work without a lock does not see the items it brings.
CommitUpdate(r) ==
    /\ work[r].kind = "update" /\ work[r].at \in {"saved", "cleared"}
    /\ plan' = [plan EXCEPT ![work[r].plan] = "live"]
    /\ item' = Committed(r)
    /\ work' = [s \in PlanRequest |->
                 IF s = r THEN NoWork
                 ELSE [work[s] EXCEPT !.outrun =
                         @ \/ /\ work[s].kind = "deleteAsKey"
                              /\ work[s].at \in {"clearing", "cleared"}
                              /\ work[s].plan = work[r].plan
                              /\ work[r].fresh # {}]]
    /\ UNCHANGED outrun

\* integrationDeleteTravelPlanFn, deleteUserTravelPlanHandler: the plan goes
\* with its items.  The statement waits for the plan if another has it locked.
CommitDeletion(r) ==
    LET p == work[r].plan IN
    /\ work[r].kind \in {"deletePlan", "deleteAsKey"} /\ work[r].at = "cleared"
    /\ HoldsPlan(r) \/ ~PlanLocked(p)
    /\ plan' = [plan EXCEPT ![p] = "deleted"]
    /\ item' = Committed(r)
    /\ outrun' = IF work[r].outrun THEN outrun \cup {p} ELSE outrun \ {p}
    /\ EndWork(r)

\* integrationGetTravelPlanDailyByIDFn, and the same for a user or a link: the
\* item is read.
FindItem(r) ==
    /\ work[r].kind \in {"deleteItem", "linkItem"} /\ work[r].at = "loaded"
    /\ \/ \E i \in LiveItems(work[r].plan) :
             work' = [work EXCEPT ![r].at = "found", ![r].target = {i}]
       \/ LiveItems(work[r].plan) = {} /\ EndWork(r)
    /\ UNCHANGED <<plan, item, outrun>>

\* The statement that deletes one item.
DeleteItem(r) ==
    /\ work[r].kind = "deleteItem" /\ work[r].at = "found"
    /\ ~ItemsLocked(work[r].target)
    /\ item' = [i \in Item |->
                  IF i \in work[r].target
                  THEN [item[i] EXCEPT !.status = "deleted"] ELSE item[i]]
    /\ EndWork(r)
    /\ UNCHANGED <<plan, outrun>>

\* Mistake: the whole item is saved from the copy.
LinkWholeItem(r) ==
    /\ work[r].kind = "linkItem" /\ work[r].at = "found"
    /\ ~ItemsLocked(work[r].target)
    /\ item' = [i \in Item |->
                  IF i \in work[r].target
                  THEN [item[i] EXCEPT !.status = "live", !.linked = TRUE]
                  ELSE item[i]]
    /\ EndWork(r)
    /\ UNCHANGED <<plan, outrun>>

\* linkScheduleToTravelPlanItem: only the column schedule_id is written, in
\* the transaction that creates the schedule.
LinkItem(r) ==
    /\ work[r].kind = "linkItem" /\ work[r].at = "found"
    /\ ~ItemsLocked(work[r].target)
    /\ item' = [i \in Item |->
                  IF i \in work[r].target /\ item[i].status = "live"
                  THEN [item[i] EXCEPT !.linked = TRUE] ELSE item[i]]
    /\ EndWork(r)
    /\ UNCHANGED <<plan, outrun>>

\* A statement or a check of the input fails: the transaction is rolled back.
RollBack(r) ==
    /\ work[r].at # "idle"
    /\ EndWork(r)
    /\ UNCHANGED <<plan, item, outrun>>

PlanNext ==
    \/ \E p \in Plan : PlanNotFound(p) \/ \E S \in SUBSET Item : CreatePlan(p, S)
    \/ \E r \in PlanRequest, p \in Plan, kind \in WorkKind :
          LoadPlan(r, p, kind)
    \/ \E r \in PlanRequest :
          \/ SavePlan(r) \/ StartClearing(r) \/ ClearItems(r) \/ AddItem(r)
          \/ CommitUpdate(r) \/ CommitDeletion(r)
          \/ FindItem(r) \/ DeleteItem(r) \/ LinkItem(r) \/ RollBack(r)

PlanSpec == PlanInit /\ [][PlanNext]_planVars

-----------------------------------------------------------------------------
(* Properties                                                              *)

\* A deleted plan has no live item (docs/travel-plan-soft-delete.md:15),
\* although updates that have loaded it before may insert items at any time.
\* Where an update overlapped a deletion by a key without a user the code does
\* not keep this: such plans, and no others, are excepted.
DeletedPlanHasNoItems ==
    \A p \in Plan \ outrun : plan[p] = "deleted" => LiveItems(p) = {}

\* The items of a plan come from one creation or one update: overlapping
\* updates replace each other's items and never mix them.
ItemsOfOneUpdate ==
    \A p \in Plan : \A i, j \in LiveItems(p) : item[i].together = item[j].together

\* An item that has been deleted never comes back, whatever copies of it the
\* requests hold, not even when its plan does.
DeletedItemsStay ==
    [][\A i \in Item : item[i].status = "deleted" => item'[i].status = "deleted"]_planVars

===============================================================================
