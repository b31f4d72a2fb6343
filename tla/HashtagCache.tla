----------------------------- MODULE HashtagCache -----------------------------
(***************************************************************************)
(* Counts of the hashtags of a relation's markers, kept in Redis           *)
(* (service/integration_hashtag_cache.go).                                 *)
(*                                                                         *)
(* A reader looks the counts up, and on a miss queries the markers and     *)
(* stores the result, which expires; a writer changes a marker and then    *)
(* deletes the two entries, one after the other.  Nothing orders readers   *)
(* and writers, each call to Redis may fail, and some writers delete       *)
(* nothing.  One relation and one tag stand for all.                       *)
(***************************************************************************)
EXTENDS Naturals, FiniteSets

CONSTANTS
    TagMarker,    \* markers of the relation
    TagReader,    \* requests for the counts
    TagWriter,    \* requests that change a marker
    TagTTL,       \* life of an entry, in ticks
    NoCount,      \* no entry
    TagFault      \* what may go wrong, see TagFaultKind

\* "redis": calls fail; "silent": markers change and no entry is deleted.
TagFaultKind == {"redis", "silent"}

ASSUME TagAssumption ==
    /\ IsFiniteSet(TagMarker)
    /\ TagTTL \in Nat \ {0}
    /\ NoCount \notin Nat
    /\ TagFault \subseteq TagFaultKind

\* A marker bears the tag or not, and may be for testing.
Bearing == {"none", "plain", "testing"}

\* The two entries: with the markers for testing, and without.
WithTesting == BOOLEAN

VARIABLES
    tags,      \* what the markers bear, in Postgres
    counts,    \* the two entries in Redis
    lived,     \* ticks since an entry was stored
    reader,    \* step, key and result of each reader
    dropping,  \* entries each writer has still to delete
    calm,      \* ticks since a reason for a stale entry (history), to TagTTL
    blame      \* entries that may be stale for good reason (history)

tagVars == <<tags, counts, lived, reader, dropping, calm, blame>>

Bearers(b, key) ==
    Cardinality({m \in TagMarker : b[m] = "plain" \/ (key /\ b[m] = "testing")})

Current(key) == Bearers(tags, key)

TagReaderState ==
    [step : {"idle", "query"}, key : BOOLEAN, result : {NoCount}]
      \cup [step : {"store"}, key : BOOLEAN, result : 0..Cardinality(TagMarker)]

NotReading == [step |-> "idle", key |-> FALSE, result |-> NoCount]

TagTypeOK ==
    /\ tags \in [TagMarker -> Bearing]
    /\ counts \in [WithTesting -> {NoCount} \cup 0..Cardinality(TagMarker)]
    /\ lived \in [WithTesting -> 0..TagTTL - 1]
    /\ reader \in [TagReader -> TagReaderState]
    /\ dropping \in [TagWriter -> SUBSET WithTesting]
    /\ calm \in [WithTesting -> 0..TagTTL]
    /\ blame \subseteq WithTesting

TagInit ==
    /\ tags = [m \in TagMarker |-> "none"]
    /\ counts = [key \in WithTesting |-> NoCount]
    /\ lived = [key \in WithTesting |-> 0]
    /\ reader = [r \in TagReader |-> NotReading]
    /\ dropping = [w \in TagWriter |-> {}]
    /\ calm = [key \in WithTesting |-> TagTTL]
    /\ blame = {}

-----------------------------------------------------------------------------
(* Readers                                                                 *)

\* Mistake: a hit stores the counts again, which prolongs their life.
LookUpAndRenew(r, key) ==
    /\ reader[r].step = "idle"
    /\ reader' = [reader EXCEPT ![r] = [NotReading EXCEPT
                    !.step = IF counts[key] = NoCount THEN "query" ELSE "idle",
                    !.key = IF counts[key] = NoCount THEN key ELSE FALSE]]
    /\ lived' = [lived EXCEPT ![key] = 0]
    /\ UNCHANGED <<tags, counts, dropping, calm, blame>>

\* loadIntegrationHashtagCache: a hit is the answer, a miss or an error leads
\* to the query.
LookUp(r, key) ==
    /\ reader[r].step = "idle"
    /\ counts[key] = NoCount \/ "redis" \in TagFault
    /\ reader' = [reader EXCEPT ![r] = [NotReading EXCEPT !.step = "query", !.key = key]]
    /\ UNCHANGED <<tags, counts, lived, dropping, calm, blame>>

Query(r) ==
    /\ reader[r].step = "query"
    /\ reader' = [reader EXCEPT ![r].step = "store",
                                ![r].result = Current(reader[r].key)]
    /\ UNCHANGED <<tags, counts, lived, dropping, calm, blame>>

\* storeIntegrationHashtagCache; whether Redis has obeyed is not known when
\* the call fails, and the counts are answered all the same.
StoreCounts(r) ==
    LET key == reader[r].key
        n == reader[r].result
    IN  /\ reader[r].step = "store"
        /\ \/ /\ counts' = [counts EXCEPT ![key] = n]
              /\ lived' = [lived EXCEPT ![key] = 0]
              /\ blame' = IF n = Current(key) THEN blame \ {key} ELSE blame \cup {key}
           \/ "redis" \in TagFault /\ UNCHANGED <<counts, lived, blame>>
        /\ reader' = [reader EXCEPT ![r] = NotReading]
        /\ UNCHANGED <<tags, dropping, calm>>

-----------------------------------------------------------------------------
(* Writers                                                                 *)

SetBearing(m, b) ==
    /\ tags[m] # b
    /\ tags' = [tags EXCEPT ![m] = b]
    /\ calm' = [key \in WithTesting |->
                  IF Bearers(tags', key) = Current(key) THEN calm[key] ELSE 0]

\* Mistake: only the entry that leaves the testing markers out is deleted.
ChangeMarkerDropsOne(w, m, b) ==
    /\ dropping[w] = {}
    /\ SetBearing(m, b)
    /\ dropping' = [dropping EXCEPT ![w] = {FALSE}]
    /\ UNCHANGED <<counts, lived, reader, blame>>

\* CreateMarker and EditMarker: the row is committed, then the entries go.
ChangeMarker(w, m, b) ==
    /\ dropping[w] = {}
    /\ SetBearing(m, b)
    /\ dropping' = [dropping EXCEPT ![w] = WithTesting]
    /\ UNCHANGED <<counts, lived, reader, blame>>

\* invalidateIntegrationHashtagCacheForRelation, one entry: first the one
\* without the testing markers.  An error is only logged.
DropEntry(w, key) ==
    /\ key \in dropping[w]
    /\ key => FALSE \notin dropping[w]
    /\ dropping' = [dropping EXCEPT ![w] = @ \ {key}]
    /\ \/ /\ counts' = [counts EXCEPT ![key] = NoCount]
          /\ lived' = [lived EXCEPT ![key] = 0]
          /\ blame' = blame \ {key}
       \/ /\ "redis" \in TagFault
          /\ blame' = blame \cup {key}
          /\ UNCHANGED <<counts, lived>>
    /\ UNCHANGED <<tags, reader, calm>>

\* The administrator's deletions, and RevokeMarker saving an old copy, change
\* what the markers bear and delete no entry.
ChangeSilently(m, b) ==
    /\ "silent" \in TagFault
    /\ SetBearing(m, b)
    /\ blame' = WithTesting
    /\ UNCHANGED <<counts, lived, reader, dropping>>

-----------------------------------------------------------------------------
(* Time                                                                    *)

\* A reader holds a result for this entry that is no longer right.
HeldStale(key) ==
    \E r \in TagReader :
       reader[r].step = "store" /\ reader[r].key = key /\ reader[r].result # Current(key)

\* Mistake: an entry lives a tick too long.
RunOutLate(key) == counts[key] # NoCount /\ lived[key] = TagTTL

RunOut(key) == counts[key] # NoCount /\ lived[key] + 1 = TagTTL

TagTick ==
    /\ counts' = [key \in WithTesting |-> IF RunOut(key) THEN NoCount ELSE counts[key]]
    /\ lived' = [key \in WithTesting |->
                   IF counts[key] = NoCount \/ RunOut(key) THEN 0 ELSE lived[key] + 1]
    /\ blame' = {key \in blame : ~RunOut(key)}
    /\ calm' = [key \in WithTesting |->
                  IF HeldStale(key) \/ calm[key] = TagTTL THEN calm[key] ELSE calm[key] + 1]
    /\ UNCHANGED <<tags, reader, dropping>>

TagNext ==
    \/ \E r \in TagReader : (\E key \in WithTesting : LookUp(r, key)) \/ Query(r) \/ StoreCounts(r)
    \/ \E w \in TagWriter, m \in TagMarker, b \in Bearing : ChangeMarker(w, m, b)
    \/ \E w \in TagWriter, key \in WithTesting : DropEntry(w, key)
    \/ \E m \in TagMarker, b \in Bearing : ChangeSilently(m, b)
    \/ TagTick

TagSpec == TagInit /\ [][TagNext]_tagVars

-----------------------------------------------------------------------------
(* Properties                                                              *)

StaleEntry(key) == counts[key] # NoCount /\ counts[key] # Current(key)

\* Wrong counts are not answered for longer than the life of one entry, counted
\* from the last change of the markers or the last moment at which a reader held
\* a result older than it: hits do not prolong the life of an entry, and no
\* failure of Redis does.
StaleIsBrief == \A key \in WithTesting : StaleEntry(key) => calm[key] < TagTTL

\* A cached count is wrong only while a writer is on its way to delete it, after
\* a deletion failed, after a change that deletes nothing, or because a reader
\* stored what it had counted before a change.
StaleIsExplained ==
    \A key \in WithTesting :
       StaleEntry(key) => key \in blame \/ \E w \in TagWriter : key \in dropping[w]

\* Wrong counts have a reason and an end.
StaleIsBounded == StaleIsBrief /\ StaleIsExplained

==============================================================================
