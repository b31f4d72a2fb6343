------------------------------- MODULE PinGroups -------------------------------
(***************************************************************************)
(* Groups of pins (service/pin_group.go, service/pin_group_http.go).       *)
(*                                                                         *)
(* A pin may be put into one group; the rule is kept by the program, for   *)
(* the table holds any pairs of a pin and a group.  Handlers read first,   *)
(* and write later what they have read, or erase what they see and add     *)
(* their own in a transaction that others run beside.                      *)
(***************************************************************************)
EXTENDS FiniteSets

CONSTANTS
    GroupedPin,    \* pins that are not deleted; of others nothing is shown
    PinGroup,      \* rows of pin_groups
    GroupName,     \* normalized names
    GroupRequest,  \* requests of administrators that are served at the same time
    NoGroup        \* no group, no name, no pin

ASSUME GroupAssumption == NoGroup \notin PinGroup \cup GroupName \cup GroupedPin

VARIABLES
    group,     \* pin_groups, with rows that are deleted
    assigned,  \* pin_group_assignments
    setting,   \* local variables of each request
    overlaid,  \* pins with assignments that ran at the same time (history)
    reused     \* groups deleted while a request had them in hand (history)

groupVars == <<group, assigned, setting, overlaid, reused>>

GroupRow == [status : {"unused", "live", "deleted"}, name : GroupName \cup {NoGroup}]

Setting == [step : {"idle", "assign", "commit", "rename", "erase", "remove"},
            pin : GroupedPin \cup {NoGroup}, id : PinGroup \cup {NoGroup},
            rows : SUBSET (GroupedPin \X PinGroup)]

NotSetting == [step |-> "idle", pin |-> NoGroup, id |-> NoGroup, rows |-> {}]

GroupTypeOK ==
    /\ group \in [PinGroup -> GroupRow]
    /\ \A g, h \in PinGroup : group[g].name = group[h].name /\ g # h
                                => group[g].status = "unused"
    /\ assigned \subseteq GroupedPin \X PinGroup
    /\ setting \in [GroupRequest -> Setting]
    /\ overlaid \subseteq GroupedPin
    /\ reused \subseteq PinGroup

GroupInit ==
    /\ group = [g \in PinGroup |-> [status |-> "unused", name |-> NoGroup]]
    /\ assigned = {}
    /\ setting = [r \in GroupRequest |-> NotSetting]
    /\ overlaid = {}
    /\ reused = {}

-----------------------------------------------------------------------------

Idle(r) == setting[r].step = "idle"

GoesOn(r, context) == setting' = [setting EXCEPT ![r] = context]

LiveGroup(g) == group[g].status = "live"

RowsOf(p) == {e \in assigned : e[1] = p}

\* A row that a transaction has erased is locked until it ends.
Locked == UNION {setting[r].rows : r \in {q \in GroupRequest : setting[q].step = "commit"}}

\* Requests that may still put a pin into group g.
Using(g) == {r \in GroupRequest : setting[r].step \in {"assign", "commit"} /\ setting[r].id = g}

\* The index on names counts the rows that are deleted.
NameIsFree(n, g) == \A h \in PinGroup \ {g} : group[h].name # n

CreatePinGroup(g, n) ==
    /\ group[g].status = "unused"
    /\ NameIsFree(n, g)
    /\ group' = [group EXCEPT ![g] = [status |-> "live", name |-> n]]
    /\ UNCHANGED <<assigned, setting, overlaid, reused>>

\* UpdatePinGroup, DeletePinGroup: the row is read.
ReadGroup(r, g, step) ==
    /\ Idle(r)
    /\ LiveGroup(g)
    /\ step \in {"rename", "erase"}
    /\ GoesOn(r, [NotSetting EXCEPT !.step = step, !.id = g])
    /\ UNCHANGED <<group, assigned, overlaid, reused>>

\* Mistake: a deleted group is brought back under any name.
UpdateUnchecked(r, n) ==
    /\ setting[r].step = "rename"
    /\ group' = [group EXCEPT ![setting[r].id] = [status |-> "live", name |-> n]]
    /\ GoesOn(r, NotSetting)
    /\ UNCHANGED <<assigned, overlaid, reused>>

\* The whole row is saved.  If it was deleted meanwhile it is there again or
\* the request is refused.
UpdatePinGroup(r, n) ==
    /\ setting[r].step = "rename"
    /\ NameIsFree(n, setting[r].id)
    /\ group' = [group EXCEPT ![setting[r].id] = [status |-> "live", name |-> n]]
    /\ GoesOn(r, NotSetting)
    /\ UNCHANGED <<assigned, overlaid, reused>>

\* Mistake: the assignments of the group stay.
EraseNothing(r) ==
    /\ setting[r].step = "erase"
    /\ GoesOn(r, [setting[r] EXCEPT !.step = "remove"])
    /\ UNCHANGED <<group, assigned, overlaid, reused>>

\* DeletePinGroup: the assignments of the group are erased, ...
EraseAssignments(r) ==
    LET rows == {e \in assigned : e[2] = setting[r].id} IN
    /\ setting[r].step = "erase"
    /\ rows \cap Locked = {}
    /\ assigned' = assigned \ rows
    /\ GoesOn(r, [setting[r] EXCEPT !.step = "remove"])
    /\ reused' = IF Using(setting[r].id) = {} THEN reused ELSE reused \cup {setting[r].id}
    /\ UNCHANGED <<group, overlaid>>

\* ... then its row is deleted.
RemoveGroup(r) ==
    LET g == setting[r].id IN
    /\ setting[r].step = "remove"
    /\ group' = [group EXCEPT ![g].status = "deleted"]
    /\ GoesOn(r, NotSetting)
    /\ UNCHANGED <<assigned, overlaid, reused>>

\* SetPinGroupAssignments: the pin is read, the groups are at most one, and it
\* is read.  Another assignment of the pin may be under way.
CheckAssignment(r, p, g) ==
    /\ Idle(r)
    /\ g # NoGroup => LiveGroup(g)
    /\ GoesOn(r, [NotSetting EXCEPT !.step = "assign", !.pin = p, !.id = g])
    /\ reused' = IF \E q \in GroupRequest : setting[q].step = "remove" /\ setting[q].id = g
                 THEN reused \cup {g} ELSE reused
    /\ UNCHANGED <<group, assigned, overlaid>>

\* Mistake: a new assignment is added to those there are.
EraseNoneOfPin(r) ==
    /\ setting[r].step = "assign"
    /\ GoesOn(r, [setting[r] EXCEPT !.step = "commit"])
    /\ UNCHANGED <<group, assigned, overlaid, reused>>

\* The transaction begins and erases the assignments it sees.
ErasePinRows(r) ==
    LET p == setting[r].pin IN
    /\ setting[r].step = "assign"
    /\ RowsOf(p) \cap Locked = {}
    /\ GoesOn(r, [setting[r] EXCEPT !.step = "commit", !.rows = RowsOf(p)])
    /\ overlaid' = IF \E q \in GroupRequest : setting[q].step = "commit" /\ setting[q].pin = p
                   THEN overlaid \cup {p} ELSE overlaid
    /\ UNCHANGED <<group, assigned, reused>>

\* It adds its own, if there is none such, and commits.
CommitAssignment(r) ==
    LET p == setting[r].pin
        own == IF setting[r].id = NoGroup THEN {} ELSE {<<p, setting[r].id>>}
        rest == assigned \ setting[r].rows
    IN  /\ setting[r].step = "commit"
        /\ own \cap rest = {}
        /\ assigned' = rest \cup own
        /\ GoesOn(r, NotSetting)
        /\ UNCHANGED <<group, overlaid, reused>>

\* A call of the database fails; what was committed stays.
GroupRequestFails(r) ==
    /\ ~Idle(r)
    /\ GoesOn(r, NotSetting)
    /\ UNCHANGED <<group, assigned, overlaid, reused>>

GroupNext ==
    \/ \E g \in PinGroup, n \in GroupName : CreatePinGroup(g, n)
    \/ \E r \in GroupRequest :
          \/ \E g \in PinGroup, step \in {"rename", "erase"} : ReadGroup(r, g, step)
          \/ \E n \in GroupName : UpdatePinGroup(r, n)
          \/ EraseAssignments(r) \/ RemoveGroup(r)
          \/ \E p \in GroupedPin, g \in PinGroup \cup {NoGroup} : CheckAssignment(r, p, g)
          \/ ErasePinRows(r) \/ CommitAssignment(r) \/ GroupRequestFails(r)

GroupSpec == GroupInit /\ [][GroupNext]_groupVars

-----------------------------------------------------------------------------
(* Settings                                                                *)

\* The groups of a pin, as GetAllPin loads them: those that are not deleted.
GroupsOf(p) == {g \in PinGroup : <<p, g>> \in assigned /\ LiveGroup(g)}

\* buildGroupedSelectionSections: sections of the list of pins.
Sections ==
    {[of |-> g, pins |-> {p \in GroupedPin : g \in GroupsOf(p)}] :
        g \in {h \in PinGroup : \E p \in GroupedPin : h \in GroupsOf(p)}}
      \cup {[of |-> NoGroup, pins |-> {p \in GroupedPin : GroupsOf(p) = {}}]}

-----------------------------------------------------------------------------
(* Properties                                                              *)

\* The settings show each pin in one section: only assignments of the same pin
\* that ran at the same time can put it into two groups
\* (ErrPinGroupSingleAssignmentOnly).
ShownOnce ==
    \A p \in GroupedPin \ overlaid : Cardinality({s \in Sections : p \in s.pins}) = 1

\* A group that is deleted leaves no assignments behind, but for those of a
\* request that had read the group before.  They would count again if the group
\* were saved by a request that had read it, too.
DeletedGroupHasNoPins ==
    \A g \in PinGroup \ reused : group[g].status = "deleted" => \A e \in assigned : e[2] # g

\* Assignments are those of groups that are there, one for each pin.
AssignmentsAgree == ShownOnce /\ DeletedGroupHasNoPins

===============================================================================
