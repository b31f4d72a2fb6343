------------------------------ MODULE MCSessions ------------------------------
(***************************************************************************)
(* Calendar sync, login sessions, API keys and travel plans for TLC.  They *)
(* share no state and call none of each other, so nothing is lost when in  *)
(* each behaviour only one of them is at work: the states to be looked at  *)
(* are the sum of theirs, not the product.                                 *)
(***************************************************************************)
EXTENDS CalendarSync, AuthState, ApiKey, TravelPlan, TLC

VARIABLE part  \* which of them

sessionsVars == <<part, vars, authVars, keyVars, planVars>>

SessionsInit ==
    /\ part \in {"calendar", "sessions", "keys", "plans"}
    /\ Init /\ AuthInit /\ KeyInit /\ PlanInit
    /\ part = "sessions" \/ token = [u \in AuthUser |-> NoSecret]

SessionsNext ==
    /\ UNCHANGED part
    /\ \/ part = "calendar" /\ Next /\ UNCHANGED <<authVars, keyVars, planVars>>
       \/ part = "sessions" /\ AuthNext /\ UNCHANGED <<vars, keyVars, planVars>>
       \/ part = "keys" /\ KeyNext /\ UNCHANGED <<vars, authVars, planVars>>
       \/ part = "plans" /\ PlanNext /\ UNCHANGED <<vars, authVars, keyVars>>

SessionsSpec == SessionsInit /\ [][SessionsNext]_sessionsVars

\* The requests of all of them have the same names.
Symmetry == Permutations(AuthProcess)

\* The types of all of them.
SessionTypesOK == TypeOK /\ AuthTypeOK /\ KeyTypeOK /\ PlanTypeOK

===============================================================================
