-------------------------------- MODULE ApiKey --------------------------------
(***************************************************************************)
(* API keys and service accounts (service/api_key.go, the key handlers of  *)
(* service/api_key_http.go, service/service_account_admin_http.go).        *)
(*                                                                         *)
(* An administrator creates, revokes, rotates and deletes keys; a worker   *)
(* removes revoked keys after a time.  A rotation is a read and three      *)
(* writes without a transaction, and gorm's Save writes the whole row from *)
(* the copy that was read.                                                 *)
(***************************************************************************)
EXTENDS Naturals, FiniteSets

CONSTANTS
    Key,       \* the ids of the keys that may be created (bound)
    Admin,     \* administrators' requests served at the same time
    NoKey,     \* no key
    KeyFault   \* what may go wrong, see KeyFaultKind

KeyFaultKind == {"database", "overlap"}

ASSUME KeyAssumption == NoKey \notin Key /\ KeyFault \subseteq KeyFaultKind

\* A key belongs to a user, or to a service account and, all the same, to the
\* user the account acts for.
KeyRow == [status : {"absent", "active", "revoked"}, deleted : BOOLEAN,
           expired : BOOLEAN, stale : BOOLEAN,
           service : BOOLEAN, from : Key \cup {NoKey}]

Unused == [status |-> "absent", deleted |-> FALSE, expired |-> FALSE,
           stale |-> FALSE, service |-> FALSE, from |-> NoKey]

KeyStep == {"idle", "revoke", "rotate", "create", "link", "delete", "account"}

VARIABLES
    key,         \* table api_keys; stale: not updated for the retention time
    account,     \* the service account: "absent", "active" or "inactive"
    keyStep,     \* next write of each request
    keyCopy,     \* the key each request has read, and its row as it was read
    rotated,     \* keys a rotation has revoked (history)
    overlapped,  \* two requests have overlapped (history)
    dbFailed     \* the database has refused a call (history)

keyVars == <<key, account, keyStep, keyCopy, rotated, overlapped, dbFailed>>

KeyCopy == [id : Key \cup {NoKey}, row : KeyRow, new : Key \cup {NoKey},
         account : {"absent", "active", "inactive"}]

NoCopy == [id |-> NoKey, row |-> Unused, new |-> NoKey, account |-> "absent"]

KeyTypeOK ==
    /\ key \in [Key -> KeyRow]
    /\ account \in {"absent", "active", "inactive"}
    /\ keyStep \in [Admin -> KeyStep]
    /\ keyCopy \in [Admin -> KeyCopy]
    /\ rotated \subseteq Key
    /\ overlapped \in BOOLEAN
    /\ dbFailed \in BOOLEAN

KeyInit ==
    /\ key = [k \in Key |-> Unused]
    /\ account = "absent"
    /\ keyStep = [a \in Admin |-> "idle"]
    /\ keyCopy = [a \in Admin |-> NoCopy]
    /\ rotated = {}
    /\ overlapped = FALSE
    /\ dbFailed = FALSE

KeyFound(k) == key[k].status # "absent" /\ ~key[k].deleted

\* AuthenticateAPIKey accepts the key.
Admitted(k) == KeyFound(k) /\ key[k].status = "active" /\ ~key[k].expired

-----------------------------------------------------------------------------
(* Requests                                                                *)

MayManage(a) ==
    /\ keyStep[a] = "idle"
    /\ \/ "overlap" \in KeyFault
       \/ \A b \in Admin : keyStep[b] = "idle"
    /\ overlapped' = (overlapped \/ \E b \in Admin : keyStep[b] # "idle")

StartKey(a, next, c) ==
    /\ MayManage(a)
    /\ keyStep' = [keyStep EXCEPT ![a] = next]
    /\ keyCopy' = [keyCopy EXCEPT ![a] = c]
    /\ UNCHANGED dbFailed

FinishKey(a) ==
    /\ keyStep' = [keyStep EXCEPT ![a] = "idle"]
    /\ keyCopy' = [keyCopy EXCEPT ![a] = NoCopy]
    /\ UNCHANGED <<overlapped, dbFailed>>

AdvanceKey(a, next) ==
    /\ keyStep' = [keyStep EXCEPT ![a] = next]
    /\ UNCHANGED <<keyCopy, overlapped, dbFailed>>

\* Save: the row is overwritten by the copy.  If it has been deleted since,
\* that brings the row back or is refused, as the library has it.
SaveRow(k, row) ==
    key' = [key EXCEPT ![k] = [row EXCEPT !.stale = FALSE,
                                          !.expired = key[k].expired]]

KeyRefused(a) == ~KeyFound(keyCopy[a].id) /\ FinishKey(a) /\ UNCHANGED key

NewRow(service) == [Unused EXCEPT !.status = "active", !.service = service]

\* The sequence of the table hands out the ids in one order.
NextId(k) == key[k] = Unused /\ k = CHOOSE x \in Key : key[x] = Unused

\* CreateAPIKey for a user, or for a service account that is active.
CreateAPIKey(a, k) ==
    /\ MayManage(a)
    /\ NextId(k)
    /\ \/ key' = [key EXCEPT ![k] = NewRow(FALSE)]
       \/ account = "active" /\ key' = [key EXCEPT ![k] = NewRow(TRUE)]
    /\ UNCHANGED <<account, keyStep, keyCopy, rotated, dbFailed>>

\* Revoke, rotate and delete first look the key up.
ReadKey(a, k) ==
    /\ KeyFound(k)
    /\ \E next \in {"revoke", "rotate", "delete"} :
          StartKey(a, next,
                   [NoCopy EXCEPT !.id = k,
                                  !.row = [key[k] EXCEPT !.stale = FALSE,
                                                         !.expired = FALSE]])
    /\ UNCHANGED <<key, account, rotated>>

RevokedCopy(a) == [keyCopy[a].row EXCEPT !.status = "revoked"]

RevokeAPIKey(a) ==
    /\ keyStep[a] = "revoke"
    /\ \/ SaveRow(keyCopy[a].id, RevokedCopy(a)) /\ FinishKey(a)
       \/ KeyRefused(a)
    /\ UNCHANGED <<account, rotated>>

\* RotateAPIKey, first write: the old key is revoked, whatever its status was.
RevokeRotated(a) ==
    /\ keyStep[a] = "rotate"
    /\ \/ /\ SaveRow(keyCopy[a].id, RevokedCopy(a))
          /\ AdvanceKey(a, "create")
          /\ rotated' = rotated \cup {keyCopy[a].id}
       \/ KeyRefused(a) /\ UNCHANGED rotated
    /\ UNCHANGED account

\* Mistake: when no successor can be created, the old key is made active again.
CreateSuccessorOrRestore(a) ==
    /\ keyStep[a] = "create"
    /\ \/ /\ \E n \in Key :
                /\ NextId(n)
                /\ key' = [key EXCEPT ![n] = NewRow(FALSE)]
                /\ keyCopy' = [keyCopy EXCEPT ![a].new = n]
          /\ keyStep' = [keyStep EXCEPT ![a] = "link"]
          /\ UNCHANGED <<overlapped, dbFailed>>
       \/ SaveRow(keyCopy[a].id, keyCopy[a].row) /\ FinishKey(a)
    /\ UNCHANGED <<account, rotated>>

\* RotateAPIKey, second write.  CreateAPIKey is given the user and the service
\* account of the old row, and refuses to be given both: the rotation of a
\* service account's key ends here.
CreateSuccessor(a) ==
    /\ keyStep[a] = "create"
    /\ LET old == keyCopy[a].row IN
       \/ /\ ~old.service
          /\ \E n \in Key :
                /\ NextId(n)
                /\ key' = [key EXCEPT ![n] =
                              [NewRow(FALSE) EXCEPT
                                 !.expired = key[keyCopy[a].id].expired]]
                /\ keyCopy' = [keyCopy EXCEPT ![a].new = n]
          /\ keyStep' = [keyStep EXCEPT ![a] = "link"]
          /\ UNCHANGED <<overlapped, dbFailed>>
       \/ old.service /\ FinishKey(a) /\ UNCHANGED key
    /\ UNCHANGED <<account, rotated>>

\* Mistake: the old row is saved once more with its link to the successor.
LinkSuccessorBothWays(a) ==
    /\ keyStep[a] = "link"
    /\ key' = [key EXCEPT ![keyCopy[a].new].from = keyCopy[a].id,
                          ![keyCopy[a].id] = keyCopy[a].row]
    /\ FinishKey(a)
    /\ UNCHANGED <<account, rotated>>

\* Mistake: the successor is not linked if it was used meanwhile.
LinkSuccessorUnused(a) ==
    /\ keyStep[a] = "link"
    /\ \/ SaveRow(keyCopy[a].new, [NewRow(FALSE) EXCEPT !.from = keyCopy[a].id])
       \/ UNCHANGED key
    /\ FinishKey(a)
    /\ UNCHANGED <<account, rotated>>

\* RotateAPIKey, third write: the new row, as it was created, is saved again.
LinkSuccessor(a) ==
    /\ keyStep[a] = "link"
    /\ \/ SaveRow(keyCopy[a].new, [NewRow(FALSE) EXCEPT !.from = keyCopy[a].id])
       \/ ~KeyFound(keyCopy[a].new) /\ UNCHANGED key
    /\ FinishKey(a)
    /\ UNCHANGED <<account, rotated>>

\* Mistake: the deletion is written to the status.
DeleteAPIKeyByStatus(a) ==
    /\ keyStep[a] = "delete"
    /\ key' = [key EXCEPT ![keyCopy[a].id].status = "deleted"]
    /\ FinishKey(a)
    /\ UNCHANGED <<account, rotated>>

DeleteAPIKey(a) ==
    /\ keyStep[a] = "delete"
    /\ key' = [key EXCEPT ![keyCopy[a].id].deleted = TRUE]
    /\ FinishKey(a)
    /\ UNCHANGED <<account, rotated>>

\* A call of the database fails: the request ends there.
DatabaseFails(a) ==
    /\ "database" \in KeyFault
    /\ keyStep[a] # "idle"
    /\ keyStep' = [keyStep EXCEPT ![a] = "idle"]
    /\ keyCopy' = [keyCopy EXCEPT ![a] = NoCopy]
    /\ dbFailed' = TRUE
    /\ UNCHANGED <<key, account, rotated, overlapped>>

-----------------------------------------------------------------------------
(* Use, expiry, retention, service accounts                                *)

\* AuthenticateAPIKey: an admitted key is touched.
AuthenticateAPIKey(k) ==
    /\ Admitted(k)
    /\ key' = [key EXCEPT ![k].stale = FALSE]
    /\ UNCHANGED <<account, keyStep, keyCopy, rotated, overlapped, dbFailed>>

\* A key's expiry date, or the retention time of a revoked key, has passed.
TimePasses(k) ==
    /\ KeyFound(k)
    /\ \/ key[k].status = "revoked" /\ key' = [key EXCEPT ![k].stale = TRUE]
       \/ key[k].status = "active" /\ key' = [key EXCEPT ![k].expired = TRUE]
    /\ UNCHANGED <<account, keyStep, keyCopy, rotated, overlapped, dbFailed>>

\* CleanupOldAPIKeyData, as far as it deletes keys: one statement.
CleanupKeys ==
    /\ key' = [k \in Key |->
                 IF KeyFound(k) /\ key[k].status = "revoked" /\ key[k].stale
                 THEN [key[k] EXCEPT !.deleted = TRUE] ELSE key[k]]
    /\ UNCHANGED <<account, keyStep, keyCopy, rotated, overlapped, dbFailed>>

\* AdminCreateServiceAccountHandler: the column has a default of true, so an
\* account that is to be inactive is stored as active.
CreateServiceAccount(a) ==
    /\ MayManage(a)
    /\ account = "absent"
    /\ account' = "active"
    /\ UNCHANGED <<key, keyStep, keyCopy, rotated, dbFailed>>

\* AdminUpdateServiceAccountHandler: reads the row, changes what is asked for
\* and saves all of it.
ReadServiceAccount(a) ==
    /\ account # "absent"
    /\ \E new \in {account, "active", "inactive"} :
          StartKey(a, "account", [NoCopy EXCEPT !.account = new])
    /\ UNCHANGED <<key, account, rotated>>

SaveServiceAccount(a) ==
    /\ keyStep[a] = "account"
    /\ account' = keyCopy[a].account
    /\ FinishKey(a)
    /\ UNCHANGED <<key, rotated>>

KeyNext ==
    \/ \E a \in Admin, k \in Key : CreateAPIKey(a, k) \/ ReadKey(a, k)
    \/ \E a \in Admin :
          \/ RevokeAPIKey(a)
          \/ RevokeRotated(a) \/ CreateSuccessor(a) \/ LinkSuccessor(a)
          \/ DeleteAPIKey(a) \/ DatabaseFails(a)
          \/ CreateServiceAccount(a) \/ ReadServiceAccount(a) \/ SaveServiceAccount(a)
    \/ \E k \in Key : AuthenticateAPIKey(k) \/ TimePasses(k)
    \/ CleanupKeys

KeySpec == KeyInit /\ [][KeyNext]_keyVars

-----------------------------------------------------------------------------
(* Properties                                                              *)

HasSuccessor(k) ==
    \/ \E n \in Key : key[n].from = k
    \/ \E a \in Admin : keyStep[a] \in {"create", "link"} /\ keyCopy[a].id = k

\* A user's key that a rotation has revoked has a successor, or is about to get
\* one: the three writes of a rotation lose no key, as long as no call of the
\* database fails and requests do not overlap.
RotatedUserKeyHasSuccessor ==
    ~dbFailed /\ ~overlapped =>
        \A k \in rotated : HasSuccessor(k) \/ key[k].service

\* Whatever overlaps or fails, a key that a rotation has revoked is active again
\* only if it is a successor itself, saved as it was created by the rotation
\* that made it: of a key an administrator created nothing brings back the right.
RotatedStaysRevoked ==
    \A k \in rotated : key[k].status = "active" => key[k].from # NoKey

\* A key that has been revoked, deleted or has expired is never accepted again,
\* whatever fails, by none of the saves of copies read before, as long as
\* requests do not overlap.
RevokedKeysStay ==
    [][~overlapped' =>
         \A k \in Key :
            key[k].status # "absent" /\ ~Admitted(k) => ~Admitted(k)']_keyVars

\* A rotation leaves the user with one key that works in place of the other.
RotationHolds == RotatedUserKeyHasSuccessor /\ RotatedStaysRevoked

===============================================================================
