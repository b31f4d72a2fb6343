------------------------------- MODULE MCLogs -------------------------------
(***************************************************************************)
(* Offline export, the audit logs and reminders for TLC.  They share no    *)
(* state and call none of each other, so nothing is lost when in each      *)
(* behaviour only one of them is at work.                                  *)
(***************************************************************************)
EXTENDS OfflineExport, AuditLog, Reminders

VARIABLE part  \* which of them

logsVars == <<part, vars, auditVars, reminderVars>>

LogsInit ==
    /\ part \in {"exports", "logs", "reminders"}
    /\ Init /\ AuditInit /\ ReminderInit
    /\ part = "logs" \/ logKind = "apikey"
    /\ part = "reminders" \/ /\ dayOf = [s \in Planned |-> 0]
                             /\ zoneOf = [s \in Planned |-> 0]
                             /\ dueTime = NotPolling.time

LogsNext ==
    /\ UNCHANGED part
    /\ \/ part = "exports" /\ Next /\ UNCHANGED <<auditVars, reminderVars>>
       \/ part = "logs" /\ AuditNext /\ UNCHANGED <<vars, reminderVars>>
       \/ part = "reminders" /\ ReminderNext /\ UNCHANGED <<vars, auditVars>>

\* The fairness of FairSpec and of AuditSpec, each for its own part.
LogsSpec ==
    /\ LogsInit /\ [][LogsNext]_logsVars
    /\ \A j \in Job : WF_vars(part = "exports" /\ RunStep(j))
    /\ \A c \in Client : WF_vars(part = "exports" /\ RequestStep(c))
    /\ \A c \in Cleaner : WF_auditVars(part = "logs" /\ Cleanup(c))

\* The types of all of them.
LogTypesOK == TypeOK /\ AuditTypeOK /\ ReminderTypeOK

===============================================================================
