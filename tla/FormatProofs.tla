---------------------------- MODULE FormatProofs ----------------------------
(*****************************************************************************)
(* The hashtag cache and forecasts, for any number of markers, viewports and *)
(* overlapping requests: a wrong count is explained and does not last, an    *)
(* answer is as old as it says, and the provider is not called too often.    *)
(*****************************************************************************)
EXTENDS MCFormats, OfflineExportProofs, FiniteSetTheorems, TLAPS

-----------------------------------------------------------------------------
(* The hashtag cache                                                       *)

\* What a reader holds is wrong only since a change, and so is an entry.
TagIInv ==
    /\ TagTypeOK
    /\ \A key \in WithTesting : HeldStale(key) => calm[key] = 0
    /\ \A key \in WithTesting : StaleEntry(key) => calm[key] <= lived[key]
    /\ StaleIsExplained

\* A count is one that a reader can hold.
LEMMA CountsAreSmall ==
    ASSUME NEW b, NEW key
    PROVE  Bearers(b, key) \in 0 .. Cardinality(TagMarker)
<1> DEFINE S == {m \in TagMarker : b[m] = "plain" \/ (key /\ b[m] = "testing")}
<1>1. S \in SUBSET TagMarker /\ IsFiniteSet(TagMarker)
  BY TagAssumption
<1>2. IsFiniteSet(S) /\ Cardinality(S) <= Cardinality(TagMarker)
  BY <1>1, FS_Subset
<1>3. Cardinality(S) \in Nat /\ Cardinality(TagMarker) \in Nat
  BY <1>1, <1>2, FS_CardinalityType
<1> QED BY <1>2, <1>3 DEF Bearers

LEMMA TagInitial == TagInit => TagIInv
<1> SUFFICES ASSUME TagInit PROVE TagIInv
  OBVIOUS
<1>1. TagTypeOK
  BY TagAssumption DEF TagInit, TagTypeOK, TagReaderState, NotReading, Bearing, WithTesting
<1>2. \A key \in WithTesting : ~HeldStale(key) /\ ~StaleEntry(key)
  BY DEF TagInit, HeldStale, StaleEntry, NotReading, WithTesting
<1> QED BY <1>1, <1>2 DEF TagIInv, StaleIsExplained

\* Readers that look up and query hold nothing that is wrong.
LEMMA LookUpKeeps ==
    ASSUME TagIInv, NEW r \in TagReader, NEW key \in WithTesting, LookUp(r, key)
    PROVE  TagIInv'
<1> USE DEF LookUp
<1>1. TagTypeOK'
  BY DEF TagIInv, TagTypeOK, TagReaderState, NotReading, WithTesting
<1>2. \A k \in WithTesting : HeldStale(k)' => HeldStale(k)
  BY DEF TagIInv, TagTypeOK, HeldStale, Current, NotReading
<1>3. \A k \in WithTesting : StaleEntry(k)' = StaleEntry(k)
  BY DEF StaleEntry, Current
<1> QED BY <1>1, <1>2, <1>3 DEF TagIInv, StaleIsExplained

LEMMA QueryKeeps ==
    ASSUME TagIInv, NEW r \in TagReader, Query(r)
    PROVE  TagIInv'
<1> USE DEF Query
<1>0. reader[r].key \in WithTesting /\ reader[r] \in TagReaderState
  BY DEF TagIInv, TagTypeOK, TagReaderState, WithTesting
<1>1. Current(reader[r].key) \in 0 .. Cardinality(TagMarker)
  BY CountsAreSmall DEF Current
<1>2. TagTypeOK'
  BY <1>0, <1>1 DEF TagIInv, TagTypeOK, TagReaderState, WithTesting
<1>3. \A k \in WithTesting : HeldStale(k)' => HeldStale(k)
  BY <1>0 DEF TagIInv, TagTypeOK, HeldStale, Current
<1>4. \A k \in WithTesting : StaleEntry(k)' = StaleEntry(k)
  BY DEF StaleEntry, Current
<1> QED BY <1>2, <1>3, <1>4 DEF TagIInv, StaleIsExplained

\* A wrong count that is stored has been held, so the last change is recent.
LEMMA StoreKeeps ==
    ASSUME TagIInv, NEW r \in TagReader, StoreCounts(r)
    PROVE  TagIInv'
<1>0. PICK key \in WithTesting, n \in 0 .. Cardinality(TagMarker) :
             reader[r].step = "store" /\ key = reader[r].key /\ n = reader[r].result
  BY DEF StoreCounts, TagIInv, TagTypeOK, TagReaderState, WithTesting
<1>1. TagTypeOK'
  BY <1>0, TagAssumption
  DEF StoreCounts, TagIInv, TagTypeOK, TagReaderState, NotReading, WithTesting
<1>2. \A k \in WithTesting : HeldStale(k)' => HeldStale(k)
  BY DEF StoreCounts, TagIInv, TagTypeOK, HeldStale, Current, NotReading
<1>3. n # Current(key) => HeldStale(key)
  BY <1>0 DEF HeldStale
<1>4. \A k \in WithTesting : k # key => StaleEntry(k)' = StaleEntry(k) /\ lived'[k] = lived[k]
  BY <1>0 DEF StoreCounts, StaleEntry, Current, TagIInv, TagTypeOK
<1>5. \/ counts' = counts /\ lived' = lived /\ blame' = blame
      \/ /\ lived'[key] = 0
         /\ StaleEntry(key)' => n # Current(key)
         /\ n # Current(key) => key \in blame'
         /\ blame \ {key} \subseteq blame'
  <2>1. CASE counts' = counts /\ lived' = lived /\ blame' = blame
    BY <2>1
  <2>2. CASE /\ counts' = [counts EXCEPT ![key] = n]
             /\ lived' = [lived EXCEPT ![key] = 0]
             /\ blame' = (IF n = Current(key) THEN blame \ {key} ELSE blame \cup {key})
    <3>1. lived'[key] = 0 /\ counts'[key] = n /\ Current(key)' = Current(key)
      BY <1>0, <2>2 DEF TagIInv, TagTypeOK, Current, StoreCounts
    <3>2. (n # Current(key) => key \in blame') /\ blame \ {key} \subseteq blame'
      BY <2>2
    <3> QED BY <3>1, <3>2 DEF StaleEntry
  <2> QED BY <1>0, <2>1, <2>2 DEF StoreCounts
<1>6. calm' = calm /\ dropping' = dropping /\ tags' = tags
  BY DEF StoreCounts
<1>7. \A k \in WithTesting : HeldStale(k)' => calm'[k] = 0
  BY <1>2, <1>6 DEF TagIInv
<1>8. ASSUME NEW k \in WithTesting, StaleEntry(k)'
      PROVE  calm'[k] <= lived'[k]
  <2>1. CASE k # key
    BY <2>1, <1>4, <1>6, <1>8 DEF TagIInv
  <2>2. CASE k = key /\ counts' = counts /\ lived' = lived /\ blame' = blame
    <3>1. StaleEntry(k)
      BY <1>6, <1>8, <2>2 DEF StaleEntry, Current
    <3> QED BY <2>2, <3>1, <1>6 DEF TagIInv
  <2>3. CASE k = key /\ lived'[key] = 0 /\ (StaleEntry(key)' => n # Current(key))
    BY <2>3, <1>8, <1>3, <1>6 DEF TagIInv
  <2> QED BY <2>1, <2>2, <2>3, <1>5
<1>9. StaleIsExplained'
  <2> SUFFICES ASSUME NEW k \in WithTesting, StaleEntry(k)'
               PROVE  k \in blame' \/ \E w \in TagWriter : k \in dropping'[w]
    BY DEF StaleIsExplained
  <2>1. CASE k # key
    BY <2>1, <1>4, <1>5, <1>6 DEF TagIInv, StaleIsExplained
  <2>2. CASE k = key /\ counts' = counts /\ lived' = lived /\ blame' = blame
    <3>1. StaleEntry(k)
      BY <1>6, <2>2 DEF StaleEntry, Current
    <3> QED BY <2>2, <3>1, <1>6 DEF TagIInv, StaleIsExplained
  <2>3. CASE k = key /\ (StaleEntry(key)' => n # Current(key)) /\ (n # Current(key) => key \in blame')
    BY <2>3
  <2> QED BY <2>1, <2>2, <2>3, <1>5
<1> QED BY <1>1, <1>7, <1>8, <1>9 DEF TagIInv

\* A change that matters to an entry resets calm; others leave it as right as
\* it was.
LEMMA BearingKeeps ==
    ASSUME TagIInv, NEW m \in TagMarker, NEW b \in Bearing, SetBearing(m, b),
           UNCHANGED <<counts, lived, reader>>
    PROVE  /\ tags' \in [TagMarker -> Bearing]
           /\ calm' \in [WithTesting -> 0..TagTTL]
           /\ \A k \in WithTesting : HeldStale(k)' => calm'[k] = 0
           /\ \A k \in WithTesting : StaleEntry(k)' => calm'[k] <= lived'[k]
<1>1. tags' \in [TagMarker -> Bearing]
  BY DEF SetBearing, TagIInv, TagTypeOK
<1>2. calm' \in [WithTesting -> 0..TagTTL]
  BY TagAssumption DEF SetBearing, TagIInv, TagTypeOK
<1>3. ASSUME NEW k \in WithTesting
      PROVE  \/ calm'[k] = 0
             \/ calm'[k] = calm[k] /\ Current(k)' = Current(k)
  BY DEF SetBearing, Current
<1>4. ASSUME NEW k \in WithTesting, Current(k)' = Current(k)
      PROVE  HeldStale(k)' = HeldStale(k) /\ StaleEntry(k)' = StaleEntry(k)
  BY <1>4 DEF HeldStale, StaleEntry
<1>5. \A k \in WithTesting : lived[k] \in Nat /\ lived' = lived
  BY TagAssumption DEF TagIInv, TagTypeOK
<1> QED BY <1>1, <1>2, <1>3, <1>4, <1>5 DEF TagIInv

LEMMA ChangeKeeps ==
    ASSUME TagIInv, NEW w \in TagWriter, NEW m \in TagMarker, NEW b \in Bearing,
           ChangeMarker(w, m, b)
    PROVE  TagIInv'
<1>1. SetBearing(m, b) /\ UNCHANGED <<counts, lived, reader, blame>>
  BY DEF ChangeMarker
<1>2. dropping' \in [TagWriter -> SUBSET WithTesting] /\ dropping'[w] = WithTesting
  BY DEF ChangeMarker, TagIInv, TagTypeOK
<1>3. TagTypeOK'
  BY <1>1, <1>2, BearingKeeps DEF TagIInv, TagTypeOK
<1> QED BY <1>1, <1>2, <1>3, BearingKeeps DEF TagIInv, StaleIsExplained

LEMMA SilentKeeps ==
    ASSUME TagIInv, NEW m \in TagMarker, NEW b \in Bearing, ChangeSilently(m, b)
    PROVE  TagIInv'
<1>1. SetBearing(m, b) /\ UNCHANGED <<counts, lived, reader, dropping>> /\ blame' = WithTesting
  BY DEF ChangeSilently
<1>2. TagTypeOK'
  BY <1>1, BearingKeeps DEF TagIInv, TagTypeOK
<1> QED BY <1>1, <1>2, BearingKeeps DEF TagIInv, StaleIsExplained

LEMMA DropKeeps ==
    ASSUME TagIInv, NEW w \in TagWriter, NEW key \in WithTesting, DropEntry(w, key)
    PROVE  TagIInv'
<1> USE DEF DropEntry
<1>1. TagTypeOK'
  BY TagAssumption DEF TagIInv, TagTypeOK
<1>2. \A k \in WithTesting : HeldStale(k)' = HeldStale(k)
  BY DEF HeldStale, Current
<1>3. \A k \in WithTesting : StaleEntry(k)' => StaleEntry(k) /\ lived'[k] = lived[k]
  BY DEF StaleEntry, Current, TagIInv, TagTypeOK
<1>4. StaleEntry(key)' => key \in blame'
  BY DEF StaleEntry, TagIInv, TagTypeOK
<1>5. ASSUME NEW k \in WithTesting, k # key
      PROVE  /\ k \in blame => k \in blame'
             /\ \A v \in TagWriter : k \in dropping[v] => k \in dropping'[v]
  BY <1>5 DEF TagIInv, TagTypeOK
<1> QED BY <1>1, <1>2, <1>3, <1>4, <1>5 DEF TagIInv, StaleIsExplained

LEMMA TickKeeps ==
    ASSUME TagIInv, TagTick
    PROVE  TagIInv'
<1> USE DEF TagTick
<1>1. TagTypeOK'
  BY TagAssumption DEF TagIInv, TagTypeOK, RunOut
<1>2. \A k \in WithTesting : HeldStale(k)' = HeldStale(k)
  BY DEF HeldStale, Current
<1>3. \A k \in WithTesting : StaleEntry(k)' => StaleEntry(k) /\ ~RunOut(k)
  BY DEF StaleEntry, Current
<1>4. \A k \in WithTesting : HeldStale(k)' => calm'[k] = 0
  BY <1>2 DEF TagIInv
<1>5. \A k \in WithTesting : StaleEntry(k)' => calm'[k] <= lived'[k]
  <2> SUFFICES ASSUME NEW k \in WithTesting, StaleEntry(k)' PROVE calm'[k] <= lived'[k]
    OBVIOUS
  <2>1. calm[k] <= lived[k] /\ calm[k] \in Nat /\ lived[k] \in Nat
    BY <1>3, TagAssumption DEF TagIInv, TagTypeOK
  <2>2. lived'[k] = lived[k] + 1
    BY <1>3 DEF StaleEntry
  <2>3. calm'[k] \in {calm[k], calm[k] + 1}
    OBVIOUS
  <2> QED BY <2>1, <2>2, <2>3
<1>6. \A k \in WithTesting : ~RunOut(k) /\ k \in blame => k \in blame'
  OBVIOUS
<1> QED BY <1>1, <1>3, <1>4, <1>5, <1>6 DEF TagIInv, StaleIsExplained

LEMMA TagStep == TagIInv /\ [TagNext]_tagVars => TagIInv'
<1> SUFFICES ASSUME TagIInv, [TagNext]_tagVars PROVE TagIInv'
  OBVIOUS
<1>1. CASE UNCHANGED tagVars
  BY <1>1 DEF tagVars, TagIInv, TagTypeOK, HeldStale, StaleEntry, Current, StaleIsExplained
<1>2. ASSUME NEW r \in TagReader, NEW key \in WithTesting, LookUp(r, key) PROVE TagIInv'
  BY <1>2, LookUpKeeps
<1>3. ASSUME NEW r \in TagReader, Query(r) PROVE TagIInv'
  BY <1>3, QueryKeeps
<1>4. ASSUME NEW r \in TagReader, StoreCounts(r) PROVE TagIInv'
  BY <1>4, StoreKeeps
<1>5. ASSUME NEW w \in TagWriter, NEW m \in TagMarker, NEW b \in Bearing, ChangeMarker(w, m, b)
      PROVE TagIInv'
  BY <1>5, ChangeKeeps
<1>6. ASSUME NEW w \in TagWriter, NEW key \in WithTesting, DropEntry(w, key) PROVE TagIInv'
  BY <1>6, DropKeeps
<1>7. ASSUME NEW m \in TagMarker, NEW b \in Bearing, ChangeSilently(m, b) PROVE TagIInv'
  BY <1>7, SilentKeeps
<1>8. CASE TagTick
  BY <1>8, TickKeeps
<1> QED BY <1>1, <1>2, <1>3, <1>4, <1>5, <1>6, <1>7, <1>8 DEF TagNext

\* In every state that is reached: types, and since when a count that is stored
\* or in hand can be wrong.
THEOREM TagInvariant == TagSpec => []TagIInv
  BY TagInitial, TagStep, PTL DEF TagSpec

\* A wrong count in Redis has a reason, a deletion that is still to come or
\* failed, a change that deletes nothing or a reader that was late, and is gone
\* one lifetime after it (integration_hashtag_cache.go).
THEOREM StaleCountsBounded == TagSpec => []StaleIsBounded
<1>1. TagIInv => StaleIsBounded
  BY TagAssumption DEF TagIInv, TagTypeOK, StaleIsBounded, StaleIsBrief
<1> QED BY <1>1, TagInvariant, PTL

-----------------------------------------------------------------------------
(* Forecasts                                                               *)

\* A request that has the viewport to itself has missed what is there.
RequestOK(r) ==
    LET a == asking[r]
        e == forecast[a.view]
    IN  a.step # "idle" =>
          /\ a.view \in Viewport /\ a.now <= clock
          /\ a.step \in {"lookup", "limit"} => clock - a.now <= MaxDelay
          /\ a.step = "fetch" => a.now <= a.fetched
          /\ a.alone => \A q \in WeatherRequest \ {r} : asking[q].step # "idle" => asking[q].view # a.view
          /\ a.alone /\ a.step # "lookup" => e = NoForecast \/ a.now - e.stored > CacheTTL

\* An entry was asked for when it was stored or later.
EntriesOK ==
    \A v \in Viewport : forecast[v] # NoForecast => forecast[v].stored <= forecast[v].fetched

\* Windows do not overlap, places in a window are given once, and a call is made
\* no longer than MaxDelay after its window.
CallsOK ==
    /\ limiter.start <= clock
    /\ \A c \in calls :
          /\ c.n \in 1 .. Limit
          /\ c.start <= c.at /\ c.at < c.start + Window + MaxDelay
          /\ c.start <= limiter.start
          /\ c.start # limiter.start => c.start + Window <= limiter.start
          /\ c.start = limiter.start => c.n <= limiter.count
    /\ \A c, d \in calls : c.start < d.start => c.start + Window <= d.start
    /\ \A c, d \in calls : c.start = d.start /\ c.n = d.n => c = d

WeatherIInv ==
    /\ WeatherTypeOK
    /\ \A r \in WeatherRequest : RequestOK(r)
    /\ EntriesOK
    /\ CallsOK
    /\ AnswersSayTheAge

LEMMA WeatherInitial == WeatherInit => WeatherIInv
<1> SUFFICES ASSUME WeatherInit PROVE WeatherIInv
  OBVIOUS
<1>1. 0 \in Time /\ NotAsking \in WeatherCall /\ NothingSaid \in WeatherAnswer
  BY WeatherAssumption DEF Time, NotAsking, WeatherCall, WeatherStep, NothingSaid, WeatherAnswer
<1>2. WeatherTypeOK
  BY <1>1 DEF WeatherInit, WeatherTypeOK
<1>3. CallsOK /\ EntriesOK
  BY DEF WeatherInit, CallsOK, EntriesOK
<1>4. \A r \in WeatherRequest : RequestOK(r)
  BY DEF WeatherInit, RequestOK, NotAsking
<1>5. AnswersSayTheAge
  BY DEF WeatherInit, AnswersSayTheAge, AnswersInTime, MarkedIsOld, NothingSaid
<1> QED BY <1>2, <1>3, <1>4, <1>5 DEF WeatherIInv

\* What a request is.
LEMMA RequestType ==
    ASSUME WeatherIInv, NEW r \in WeatherRequest, asking[r].step # "idle"
    PROVE  /\ asking[r] \in WeatherCall /\ asking[r].view \in Viewport
           /\ asking[r].now \in Time /\ asking[r].fetched \in Time /\ asking[r].alone \in BOOLEAN
           /\ Time \subseteq Nat /\ clock \in Time
           /\ forecast[asking[r].view] # NoForecast =>
                 /\ forecast[asking[r].view] \in Forecast
                 /\ forecast[asking[r].view].stored \in Time
                 /\ forecast[asking[r].view].fetched \in Time
                 /\ forecast[asking[r].view].stored <= forecast[asking[r].view].fetched
<1>1. asking[r] \in WeatherCall /\ clock \in Time /\ Time \subseteq Nat
  BY DEF WeatherIInv, WeatherTypeOK, Time
<1>2. RequestOK(r)
  BY DEF WeatherIInv
<1>3. asking[r].view \in Viewport
  BY <1>2 DEF RequestOK
<1>4. forecast[asking[r].view] \in Forecast \cup {NoForecast}
  BY <1>3 DEF WeatherIInv, WeatherTypeOK
<1> QED BY <1>1, <1>3, <1>4 DEF WeatherCall, Forecast, WeatherIInv, EntriesOK

\* A step of one request that changes neither the clock nor the entries of others.
LEMMA OthersOK ==
    ASSUME WeatherIInv, NEW r \in WeatherRequest, NEW q \in WeatherRequest, q # r,
           clock' = clock, NEW a, asking' = [asking EXCEPT ![r] = a],
           asking[r].step # "idle",
           a.step # "idle" => a.view = asking[r].view,
           \A v \in Viewport : v # asking[r].view => forecast'[v] = forecast[v]
    PROVE  RequestOK(q)'
<1>1. asking'[q] = asking[q] /\ asking'[r] = a
  BY DEF WeatherIInv, WeatherTypeOK
<1>2. \A p \in WeatherRequest :
         asking'[p].step # "idle" => asking[p].step # "idle" /\ asking'[p].view = asking[p].view
  BY <1>1 DEF WeatherIInv, WeatherTypeOK
<1>3. RequestOK(q)
  BY DEF WeatherIInv
<1>4. asking[q].step # "idle" /\ asking[q].alone => asking[q].view # asking[r].view
  BY <1>3 DEF RequestOK
<1> QED BY <1>1, <1>2, <1>3, <1>4 DEF RequestOK

\* The answer of a request.
LEMMA Ends ==
    ASSUME WeatherIInv, NEW r \in WeatherRequest, asking[r].step # "idle",
           clock' = clock, limiter' = limiter, calls' = calls,
           asking' = [asking EXCEPT ![r] = NotAsking],
           said' \in WeatherAnswer, AnswersInTime',
           NEW e \in Forecast \cup {NoForecast},
           forecast' = [forecast EXCEPT ![asking[r].view] = e],
           e # NoForecast => e.stored <= e.fetched,
           e # NoForecast /\ e.marked = "alone" => clock - e.stored > CacheTTL
    PROVE  WeatherIInv'
<1>1. asking[r].view \in Viewport
  BY RequestType
<1>2. NotAsking \in WeatherCall
  BY WeatherAssumption DEF Time, NotAsking, WeatherCall, WeatherStep
<1>3. WeatherTypeOK'
  BY <1>1, <1>2 DEF WeatherIInv, WeatherTypeOK
<1>4. \A v \in Viewport : forecast'[v] = IF v = asking[r].view THEN e ELSE forecast[v]
  BY DEF WeatherIInv, WeatherTypeOK
<1>5. ASSUME NEW q \in WeatherRequest PROVE RequestOK(q)'
  <2>1. CASE q = r
    <3>1. asking'[q].step = "idle"
      BY <2>1 DEF WeatherIInv, WeatherTypeOK, NotAsking
    <3> QED BY <3>1 DEF RequestOK
  <2>2. CASE q # r
    <3>1. NotAsking.step = "idle"
      BY DEF NotAsking
    <3> QED BY <2>2, <3>1, <1>4, OthersOK
  <2> QED BY <2>1, <2>2
<1>6. EntriesOK'
  BY <1>4 DEF EntriesOK, WeatherIInv
<1>7. MarkedIsOld'
  BY <1>4 DEF MarkedIsOld, WeatherIInv, AnswersSayTheAge
<1>8. CallsOK'
  BY DEF CallsOK, WeatherIInv
<1> QED BY <1>3, <1>5, <1>6, <1>7, <1>8 DEF WeatherIInv, AnswersSayTheAge

\* A request goes on.
LEMMA GoesOn ==
    ASSUME WeatherIInv, NEW r \in WeatherRequest, asking[r].step # "idle",
           clock' = clock, forecast' = forecast, said' = said,
           NEW step \in WeatherStep \ {"idle"}, NEW fetched \in Time,
           asking' = [asking EXCEPT ![r].step = step, ![r].fetched = fetched],
           step # "lookup", step = "limit" => clock - asking[r].now <= MaxDelay,
           step = "fetch" => asking[r].now <= fetched,
           asking[r].alone =>
              \/ forecast[asking[r].view] = NoForecast
              \/ asking[r].now - forecast[asking[r].view].stored > CacheTTL,
           limiter' \in [start : Time \cup {-1}, count : Nat], calls' \subseteq ProviderCall,
           CallsOK'
    PROVE  WeatherIInv'
<1> DEFINE a == [asking[r] EXCEPT !.step = step, !.fetched = fetched]
<1>1. asking[r] \in WeatherCall
  BY RequestType
<1>2. a \in WeatherCall /\ a.step = step /\ a.fetched = fetched /\ a.view = asking[r].view
      /\ a.now = asking[r].now /\ a.alone = asking[r].alone
  BY <1>1 DEF WeatherCall
<1>3. asking' = [asking EXCEPT ![r] = a]
  BY DEF WeatherIInv, WeatherTypeOK
<1> HIDE DEF a
<1>4. WeatherTypeOK'
  BY <1>2, <1>3 DEF WeatherIInv, WeatherTypeOK
<1>5. ASSUME NEW q \in WeatherRequest, q # r PROVE RequestOK(q)'
  BY <1>2, <1>3, <1>5, OthersOK
<1>6. RequestOK(r)'
  <2>1. RequestOK(r)
    BY DEF WeatherIInv
  <2>2. asking'[r] = a /\ \A q \in WeatherRequest \ {r} : asking'[q] = asking[q]
    BY <1>3 DEF WeatherIInv, WeatherTypeOK
  <2>3. asking[r].alone => \A q \in WeatherRequest \ {r} :
                              asking'[q].step # "idle" => asking'[q].view # asking[r].view
    BY <2>1, <2>2 DEF RequestOK
  <2> QED BY <1>2, <2>1, <2>2, <2>3 DEF RequestOK
<1>7. EntriesOK' /\ AnswersSayTheAge'
  BY DEF EntriesOK, AnswersSayTheAge, AnswersInTime, MarkedIsOld, WeatherIInv
<1> QED BY <1>4, <1>5, <1>6, <1>7 DEF WeatherIInv

LEMMA AskKeeps ==
    ASSUME WeatherIInv, NEW r \in WeatherRequest, NEW v \in Viewport, Ask(r, v)
    PROVE  WeatherIInv'
<1> DEFINE new == [step |-> "lookup", view |-> v, now |-> clock, fetched |-> 0,
                   alone |-> \A p \in WeatherRequest \ {r} : ~Asks(p, v)]
<1>1. new \in WeatherCall
  BY WeatherAssumption DEF WeatherCall, WeatherStep, Time, WeatherIInv, WeatherTypeOK
<1>2. /\ asking'[r] = new
      /\ \A q \in WeatherRequest \ {r} :
            asking'[q] = IF Asks(q, v) THEN [asking[q] EXCEPT !.alone = FALSE] ELSE asking[q]
      /\ DOMAIN asking' = WeatherRequest /\ asking' = [q \in WeatherRequest |-> asking'[q]]
  BY DEF Ask
<1>3. UNCHANGED <<clock, forecast, limiter, said, calls>>
  BY DEF Ask
<1>4. \A q \in WeatherRequest \ {r} :
         /\ asking'[q] \in WeatherCall
         /\ asking'[q].step = asking[q].step /\ asking'[q].view = asking[q].view
         /\ asking'[q].now = asking[q].now /\ asking'[q].fetched = asking[q].fetched
         /\ asking'[q].alone => asking[q].alone /\ ~Asks(q, v)
  <2> SUFFICES ASSUME NEW q \in WeatherRequest \ {r}
               PROVE  /\ asking'[q] \in WeatherCall
                      /\ asking'[q].step = asking[q].step /\ asking'[q].view = asking[q].view
                      /\ asking'[q].now = asking[q].now /\ asking'[q].fetched = asking[q].fetched
                      /\ asking'[q].alone => asking[q].alone /\ ~Asks(q, v)
    OBVIOUS
  <2>1. asking[q] \in WeatherCall
    BY DEF WeatherIInv, WeatherTypeOK
  <2>2. CASE Asks(q, v)
    <3>1. asking'[q] = [asking[q] EXCEPT !.alone = FALSE]
      BY <1>2, <2>2
    <3> QED BY <2>1, <3>1 DEF WeatherCall
  <2>3. CASE ~Asks(q, v)
    <3>1. asking'[q] = asking[q]
      BY <1>2, <2>3
    <3> QED BY <2>1, <2>3, <3>1
  <2> QED BY <2>2, <2>3
<1>5. WeatherTypeOK'
  <2>0. \A q \in WeatherRequest : asking'[q] \in WeatherCall
    BY <1>1, <1>2, <1>4
  <2> HIDE DEF new
  <2>1. asking' \in [WeatherRequest -> WeatherCall]
    BY <1>2, <2>0
  <2> QED BY <1>3, <2>1 DEF WeatherIInv, WeatherTypeOK
<1>6. RequestOK(r)'
  <2>1. new.alone => \A q \in WeatherRequest \ {r} :
                        asking'[q].step # "idle" => asking'[q].view # v
    BY <1>4 DEF Asks
  <2>2. clock \in Nat /\ MaxDelay \in Nat
    BY WeatherAssumption DEF WeatherIInv, WeatherTypeOK, Time
  <2> QED BY <1>2, <1>3, <2>1, <2>2 DEF RequestOK
<1>7. ASSUME NEW q \in WeatherRequest \ {r} PROVE RequestOK(q)'
  <2>1. RequestOK(q)
    BY DEF WeatherIInv
  <2>2. asking'[q].step # "idle" /\ asking'[q].alone
          => \A p \in WeatherRequest \ {q} :
                asking'[p].step # "idle" => asking'[p].view # asking'[q].view
    <3> SUFFICES ASSUME asking'[q].step # "idle", asking'[q].alone,
                        NEW p \in WeatherRequest \ {q}, asking'[p].step # "idle"
                 PROVE  asking'[p].view # asking'[q].view
      OBVIOUS
    <3>1. asking[q].view # v /\ asking'[q].view = asking[q].view
      BY <1>4 DEF Asks
    <3>2. CASE p = r
      BY <1>2, <3>1, <3>2
    <3>3. CASE p # r
      BY <1>4, <2>1, <3>3 DEF RequestOK
    <3> QED BY <3>2, <3>3
  <2>3. UNCHANGED clock /\ UNCHANGED forecast
    BY <1>3
  <2>4. /\ asking'[q].step = asking[q].step /\ asking'[q].view = asking[q].view
        /\ asking'[q].now = asking[q].now /\ asking'[q].fetched = asking[q].fetched
        /\ asking'[q].alone => asking[q].alone
    BY <1>4
  <2> QED BY <2>1, <2>2, <2>3, <2>4 DEF RequestOK
<1>8. EntriesOK' /\ AnswersSayTheAge' /\ CallsOK'
  BY <1>3 DEF EntriesOK, AnswersSayTheAge, AnswersInTime, MarkedIsOld, CallsOK, WeatherIInv
<1> QED BY <1>5, <1>6, <1>7, <1>8 DEF WeatherIInv

LEMMA LookUpForecastKeeps ==
    ASSUME WeatherIInv, NEW r \in WeatherRequest, LookUpForecast(r)
    PROVE  WeatherIInv'
<1> DEFINE v == asking[r].view
<1>1. asking[r].step = "lookup" /\ UNCHANGED <<clock, forecast, limiter, calls>>
  BY DEF LookUpForecast
<1>2. /\ v \in Viewport /\ asking[r] \in WeatherCall
      /\ asking[r].now \in Nat /\ asking[r].now \in Time /\ CacheTTL \in Nat
      /\ forecast[v] # NoForecast =>
                 /\ forecast[v] \in Forecast
                 /\ forecast[v].stored \in Nat /\ forecast[v].fetched \in Time
                 /\ forecast[v].fetched \in Nat
                 /\ forecast[v].stored <= forecast[v].fetched
  BY <1>1, RequestType, WeatherAssumption
<1>3. CASE Hit(r) /\ Say(r, "fresh", forecast[v].fetched)
  <2>1. forecast[v] # NoForecast /\ asking[r].now - forecast[v].stored <= CacheTTL
    BY <1>3 DEF Hit, Usable
  <2>2. said' = [status |-> "fresh", age |-> asking[r].now - forecast[v].fetched]
        /\ asking' = [asking EXCEPT ![r] = NotAsking]
    BY <1>3 DEF Say
  <2>3. said' \in WeatherAnswer
    BY <1>2, <2>1, <2>2, WeatherAssumption DEF WeatherAnswer, Time
  <2>4. AnswersInTime'
    BY <1>2, <2>1, <2>2 DEF AnswersInTime
  <2>5. forecast' = [forecast EXCEPT ![v] = forecast[v]]
    BY <1>1, <1>2 DEF WeatherIInv, WeatherTypeOK
  <2>6. forecast[v].marked = "alone" => clock - forecast[v].stored > CacheTTL
    BY <1>2, <2>1 DEF WeatherIInv, AnswersSayTheAge, MarkedIsOld
  <2> QED BY <1>1, <1>2, <2>1, <2>2, <2>3, <2>4, <2>5, <2>6, Ends
<1>4. CASE ~Hit(r) /\ GoTo(r, "limit") /\ UNCHANGED said
  <2>1. asking' = [asking EXCEPT ![r].step = "limit", ![r].fetched = asking[r].fetched]
    BY <1>2, <1>4 DEF GoTo, WeatherIInv, WeatherTypeOK, WeatherCall
  <2>2. forecast[v] = NoForecast \/ asking[r].now - forecast[v].stored > CacheTTL
    BY <1>2, <1>4 DEF Hit, Usable
  <2>3. clock - asking[r].now <= MaxDelay
    BY <1>1 DEF WeatherIInv, RequestOK
  <2>4. asking[r].fetched \in Time /\ "limit" \in WeatherStep
    BY <1>2 DEF WeatherCall, WeatherStep
  <2>5. CallsOK' /\ limiter' \in [start : Time \cup {-1}, count : Nat] /\ calls' \subseteq ProviderCall
    BY <1>1 DEF CallsOK, WeatherIInv, WeatherTypeOK
  <2>6. "limit" \in WeatherStep \ {"idle"} /\ "limit" # "lookup" /\ "limit" # "fetch"
        /\ asking[r].step # "idle" /\ said' = said /\ clock' = clock /\ forecast' = forecast
    BY <1>1, <1>4, <2>4
  <2> HIDE DEF v
  <2> QED BY <2>1, <2>2, <2>3, <2>4, <2>5, <2>6, GoesOn DEF v
<1> QED BY <1>3, <1>4 DEF LookUpForecast

\* The limiter opens a window after the last one, or counts on.
LEMMA AskLimiterKeeps ==
    ASSUME WeatherIInv, NEW r \in WeatherRequest, AskLimiter(r)
    PROVE  WeatherIInv'
<1> DEFINE now == asking[r].now
           after == Counted(now)
           call == [start |-> after.start, n |-> after.count, at |-> clock]
<1>1. asking[r].step = "limit" /\ UNCHANGED <<clock, forecast, said>>
  BY DEF AskLimiter
<1>2. /\ asking[r] \in WeatherCall /\ now \in Time /\ asking[r].fetched \in Time
      /\ now \in Nat /\ clock \in Nat /\ clock \in Time
      /\ now <= clock /\ clock - now <= MaxDelay
      /\ asking[r].alone =>
              \/ forecast[asking[r].view] = NoForecast
              \/ now - forecast[asking[r].view].stored > CacheTTL
  <2>1. RequestOK(r)
    BY DEF WeatherIInv
  <2> QED BY <1>1, <2>1, RequestType DEF RequestOK
<1>3. Window \in Nat \ {0} /\ MaxDelay \in Nat /\ Limit \in Nat
  BY WeatherAssumption
<1>4. limiter \in [start : Time \cup {-1}, count : Nat] /\ calls \subseteq ProviderCall /\ CallsOK
      /\ limiter.start \in Int /\ Time \subseteq Nat
  BY DEF WeatherIInv, WeatherTypeOK, Time
<1>5. CASE /\ Limit = 0 \/ after.count <= Limit
           /\ limiter' = IF Limit = 0 THEN limiter ELSE after
           /\ asking' = [asking EXCEPT ![r].step = "fetch", ![r].fetched = clock]
           /\ calls' = IF Limit = 0 THEN calls ELSE calls \cup {call}
  <2>1. CASE Limit = 0
    <3>1. CallsOK'
      BY <1>1, <1>4, <1>5, <2>1 DEF CallsOK
    <3> QED BY <1>1, <1>2, <1>4, <1>5, <2>1, <3>1, GoesOn DEF WeatherStep
  <2>2. CASE Limit # 0
    <3>1. limiter' = after /\ calls' = calls \cup {call} /\ after.count <= Limit
      BY <1>5, <2>2
    <3>2. CASE limiter.start = -1 \/ now - limiter.start >= Window
      <4>1. after.start = now /\ after.count = 1
        BY <3>2 DEF Counted
      <4>2. call \in ProviderCall /\ after \in [start : Time \cup {-1}, count : Nat]
        BY <1>2, <4>1, <3>2 DEF ProviderCall, Counted
      <4>3. call.start = now /\ call.n = 1 /\ call.at = clock
        BY <4>1
      <4>4. \A c \in calls : c.start + Window <= now /\ c.start \in Nat
        <5> SUFFICES ASSUME NEW c \in calls PROVE c.start + Window <= now /\ c.start \in Nat
          OBVIOUS
        <5>1. c.start \in Nat
          BY <1>4 DEF ProviderCall
        <5>2. c.start <= limiter.start /\ (c.start # limiter.start => c.start + Window <= limiter.start)
          BY <1>4 DEF CallsOK
        <5> QED BY <1>2, <1>3, <1>4, <3>2, <5>1, <5>2
      <4>5. CallsOK'
        <5> HIDE DEF call, after, now
        <5>1. limiter'.start = now /\ limiter'.count = 1 /\ clock' = clock
          BY <1>1, <3>1, <4>1
        <5>2. \A c \in calls' :
                 /\ c.n \in 1 .. Limit
                 /\ c.start <= c.at /\ c.at < c.start + Window + MaxDelay
                 /\ c.start <= now
                 /\ c.start # now => c.start + Window <= now
                 /\ c.start = now => c.n <= 1
          BY <1>2, <1>3, <1>4, <3>1, <4>1, <4>3, <4>4 DEF CallsOK
        <5>3. \A c, d \in calls' : c.start < d.start => c.start + Window <= d.start
          BY <1>2, <1>3, <1>4, <3>1, <4>3, <4>4 DEF CallsOK
        <5>4. \A c, d \in calls' : c.start = d.start /\ c.n = d.n => c = d
          BY <1>2, <1>3, <1>4, <3>1, <4>3, <4>4 DEF CallsOK
        <5> QED BY <1>2, <5>1, <5>2, <5>3, <5>4 DEF CallsOK
      <4>6. calls' \subseteq ProviderCall
        BY <1>4, <3>1, <4>2
      <4> QED BY <1>1, <1>2, <1>5, <3>1, <4>2, <4>5, <4>6, GoesOn DEF WeatherStep
    <3>3. CASE ~(limiter.start = -1 \/ now - limiter.start >= Window)
      <4>1. after.start = limiter.start /\ after.count = limiter.count + 1
        BY <3>3 DEF Counted
      <4>2. limiter.start \in Time /\ limiter.start \in Nat /\ limiter.count \in Nat
        BY <1>4, <3>3
      <4>3. call \in ProviderCall /\ after \in [start : Time \cup {-1}, count : Nat]
        BY <1>2, <4>1, <4>2, <3>3 DEF ProviderCall, Counted
      <4>4. call.start = limiter.start /\ call.n = limiter.count + 1 /\ call.at = clock
        BY <4>1
      <4>5. CallsOK'
        <5>0. now < limiter.start + Window /\ limiter.start <= clock
          BY <1>2, <1>3, <1>4, <3>3, <4>2 DEF CallsOK
        <5>00. \A c \in calls : c.start \in Nat /\ c.at \in Nat /\ c.n \in Nat
          BY <1>4 DEF ProviderCall, Time
        <5> HIDE DEF call, after, now
        <5>1. limiter'.start = limiter.start /\ limiter'.count = limiter.count + 1 /\ clock' = clock
          BY <1>1, <3>1, <4>1
        <5>2. \A c \in calls' :
                 /\ c.n \in 1 .. Limit
                 /\ c.start <= c.at /\ c.at < c.start + Window + MaxDelay
                 /\ c.start <= limiter.start
                 /\ c.start # limiter.start => c.start + Window <= limiter.start
                 /\ c.start = limiter.start => c.n <= limiter.count + 1
          <6>1. /\ call.n \in 1 .. Limit
                /\ call.start <= call.at /\ call.at < call.start + Window + MaxDelay
            BY <1>2, <1>3, <3>1, <4>1, <4>2, <4>4, <5>0
          <6> QED BY <1>4, <3>1, <4>2, <4>4, <5>00, <6>1 DEF CallsOK
        <5>3. \A c, d \in calls' : c.start < d.start => c.start + Window <= d.start
          BY <1>3, <1>4, <3>1, <4>2, <4>4, <5>00 DEF CallsOK
        <5>4. \A c, d \in calls' : c.start = d.start /\ c.n = d.n => c = d
          BY <1>4, <3>1, <4>2, <4>4, <5>00 DEF CallsOK
        <5> QED BY <5>0, <5>1, <5>2, <5>3, <5>4 DEF CallsOK
      <4>6. calls' \subseteq ProviderCall
        BY <1>4, <3>1, <4>3
      <4> QED BY <1>1, <1>2, <1>5, <3>1, <4>3, <4>5, <4>6, GoesOn DEF WeatherStep
    <3> QED BY <3>2, <3>3
  <2> QED BY <2>1, <2>2
<1>6. CASE GoTo(r, "degrade") /\ UNCHANGED <<limiter, calls>>
  <2>1. asking' = [asking EXCEPT ![r].step = "degrade", ![r].fetched = asking[r].fetched]
    BY <1>2, <1>6 DEF GoTo, WeatherIInv, WeatherTypeOK, WeatherCall
  <2>2. CallsOK'
    BY <1>1, <1>4, <1>6 DEF CallsOK
  <2> QED BY <1>1, <1>2, <1>4, <1>6, <2>1, <2>2, GoesOn DEF WeatherStep
<1> QED BY <1>5, <1>6 DEF AskLimiter

LEMMA FetchedKeeps ==
    ASSUME WeatherIInv, NEW r \in WeatherRequest, Fetched(r)
    PROVE  WeatherIInv'
<1>1. /\ asking[r].step = "fetch" /\ UNCHANGED <<clock, limiter, calls>>
      /\ forecast' = [forecast EXCEPT ![asking[r].view] = Entry(r)]
      /\ said' = [status |-> "fresh", age |-> asking[r].now - asking[r].fetched]
      /\ asking' = [asking EXCEPT ![r] = NotAsking]
  BY DEF Fetched, Say
<1>2. /\ asking[r].now \in Time /\ asking[r].fetched \in Time /\ Time \subseteq Nat
      /\ asking[r].now <= asking[r].fetched
  BY <1>1, RequestType DEF WeatherIInv, RequestOK
<1>3. Entry(r) \in Forecast /\ Entry(r).stored <= Entry(r).fetched /\ Entry(r).marked = "no"
  BY <1>2 DEF Entry, Forecast
<1>4. said' \in WeatherAnswer
  BY <1>1, <1>2, WeatherAssumption DEF WeatherAnswer, Time
<1>5. AnswersInTime'
  <2>1. said'.status = "fresh" /\ said'.age = asking[r].now - asking[r].fetched
    BY <1>1
  <2>2. asking[r].now - asking[r].fetched <= CacheTTL
    <3>1. asking[r].now \in Nat /\ asking[r].fetched \in Nat /\ CacheTTL \in Nat
      BY <1>2, WeatherAssumption
    <3> QED BY <1>2, <3>1
  <2> QED BY <2>1, <2>2 DEF AnswersInTime
<1> QED BY <1>1, <1>3, <1>4, <1>5, Ends

LEMMA FetchFailsKeeps ==
    ASSUME WeatherIInv, NEW r \in WeatherRequest, FetchFails(r)
    PROVE  WeatherIInv'
<1>1. asking[r].step = "fetch" /\ UNCHANGED <<clock, forecast, limiter, said, calls>>
      /\ asking' = [asking EXCEPT ![r].step = "degrade"]
  BY DEF FetchFails, GoTo
<1>2. RequestOK(r) /\ asking[r] \in WeatherCall /\ asking[r].fetched \in Time
  BY <1>1, RequestType DEF WeatherIInv
<1>3. asking' = [asking EXCEPT ![r].step = "degrade", ![r].fetched = asking[r].fetched]
  BY <1>1, <1>2 DEF WeatherIInv, WeatherTypeOK, WeatherCall
<1>4. asking[r].alone =>
              \/ forecast[asking[r].view] = NoForecast
              \/ asking[r].now - forecast[asking[r].view].stored > CacheTTL
  BY <1>1, <1>2 DEF RequestOK
<1>5. CallsOK' /\ limiter' \in [start : Time \cup {-1}, count : Nat] /\ calls' \subseteq ProviderCall
  BY <1>1 DEF CallsOK, WeatherIInv, WeatherTypeOK
<1>6. clock' = clock /\ forecast' = forecast /\ said' = said /\ asking[r].step # "idle"
      /\ "degrade" \in WeatherStep \ {"idle"}
  BY <1>1 DEF WeatherStep
<1> QED BY <1>2, <1>3, <1>4, <1>5, <1>6, GoesOn

LEMMA DegradeKeeps ==
    ASSUME WeatherIInv, NEW r \in WeatherRequest, Degrade(r)
    PROVE  WeatherIInv'
<1> DEFINE v == asking[r].view
<1>1. asking[r].step = "degrade" /\ UNCHANGED <<clock, limiter, calls>>
      /\ asking' = [asking EXCEPT ![r] = NotAsking]
  BY DEF Degrade, Say
<1>2. /\ v \in Viewport /\ asking[r].alone \in BOOLEAN
      /\ asking[r].now \in Nat /\ asking[r].now \in Time /\ StaleTTL \in Nat
      /\ clock \in Nat /\ asking[r].now <= clock /\ CacheTTL \in Nat
      /\ forecast[v] # NoForecast =>
                 /\ forecast[v] \in Forecast
                 /\ forecast[v].stored \in Nat /\ forecast[v].fetched \in Time
                 /\ forecast[v].fetched \in Nat
                 /\ forecast[v].stored <= forecast[v].fetched
  <2>1. RequestOK(r)
    BY DEF WeatherIInv
  <2> QED BY <1>1, <2>1, RequestType, WeatherAssumption DEF RequestOK
<1>3. forecast[v] # NoForecast /\ forecast[v].marked = "alone" => clock - forecast[v].stored > CacheTTL
  BY <1>2 DEF WeatherIInv, AnswersSayTheAge, MarkedIsOld
<1>4. CASE /\ Usable(r, StaleTTL)
           /\ Say(r, "stale", forecast[v].fetched)
           /\ forecast' = [forecast EXCEPT ![v].marked =
                            IF @ = "alone" \/ asking[r].alone THEN "alone" ELSE "overlapping"]
  <2>1. forecast[v] # NoForecast /\ asking[r].now - forecast[v].stored <= StaleTTL
    BY <1>4 DEF Usable
  <2>2. said' = [status |-> "stale", age |-> asking[r].now - forecast[v].fetched]
    BY <1>4 DEF Say
  <2>3. said' \in WeatherAnswer
    BY <1>2, <2>1, <2>2, WeatherAssumption DEF WeatherAnswer, Time
  <2>4. AnswersInTime'
    BY <1>2, <2>1, <2>2 DEF AnswersInTime
  <2>5. PICK mark \in {"alone", "overlapping"} :
           /\ forecast' = [forecast EXCEPT ![v].marked = mark]
           /\ mark = "alone" => forecast[v].marked = "alone" \/ asking[r].alone
    BY <1>2, <1>4 DEF WeatherIInv, WeatherTypeOK
  <2> DEFINE e == [forecast[v] EXCEPT !.marked = mark]
  <2>6. e \in Forecast /\ e.stored = forecast[v].stored /\ e.fetched = forecast[v].fetched
        /\ e.marked = mark
    BY <1>2, <2>1 DEF Forecast
  <2>7. forecast' = [forecast EXCEPT ![v] = e]
    BY <1>2, <2>5 DEF WeatherIInv, WeatherTypeOK
  <2>8. asking[r].alone => asking[r].now - forecast[v].stored > CacheTTL
    BY <1>1, <2>1 DEF WeatherIInv, RequestOK
  <2> HIDE DEF e
  <2>9. e.marked = "alone" => clock - e.stored > CacheTTL
    BY <1>2, <1>3, <2>1, <2>5, <2>6, <2>8
  <2>10. e.stored <= e.fetched
    BY <1>2, <2>1, <2>6
  <2> QED BY <1>1, <2>3, <2>4, <2>6, <2>7, <2>9, <2>10, Ends
<1>5. CASE said' = NothingSaid /\ UNCHANGED forecast
  <2>1. said' \in WeatherAnswer /\ AnswersInTime'
    BY <1>5, WeatherAssumption DEF NothingSaid, WeatherAnswer, AnswersInTime
  <2>2. forecast' = [forecast EXCEPT ![v] = forecast[v]] /\ forecast[v] \in Forecast \cup {NoForecast}
    BY <1>2, <1>5 DEF WeatherIInv, WeatherTypeOK
  <2> QED BY <1>1, <1>2, <1>3, <2>1, <2>2, Ends
<1> QED BY <1>4, <1>5 DEF Degrade

LEMMA PassKeeps ==
    ASSUME WeatherIInv, Pass
    PROVE  WeatherIInv'
<1>1. /\ clock \in Nat /\ clock' = clock + 1 /\ clock' \in Time /\ MaxDelay \in Nat /\ CacheTTL \in Nat
      /\ UNCHANGED <<forecast, limiter, asking, said, calls>>
  BY WeatherAssumption DEF Pass, WeatherIInv, WeatherTypeOK, Time
<1>2. WeatherTypeOK'
  BY <1>1 DEF WeatherIInv, WeatherTypeOK
<1>3. ASSUME NEW r \in WeatherRequest PROVE RequestOK(r)'
  <2>1. RequestOK(r) /\ asking[r].now \in Nat
    BY DEF WeatherIInv, WeatherTypeOK, WeatherCall, Time
  <2>2. asking[r].step \in {"lookup", "limit"} => clock - asking[r].now < MaxDelay
    BY DEF Pass
  <2> QED BY <1>1, <2>1, <2>2 DEF RequestOK
<1>4. EntriesOK' /\ AnswersInTime'
  BY <1>1 DEF EntriesOK, AnswersSayTheAge, AnswersInTime, WeatherIInv
<1>5. MarkedIsOld'
  <2>1. \A v \in Viewport : forecast[v] # NoForecast => forecast[v].stored \in Nat
    BY DEF WeatherIInv, WeatherTypeOK, Forecast, Time
  <2> QED BY <1>1, <2>1 DEF MarkedIsOld, WeatherIInv, AnswersSayTheAge
<1>6. CallsOK'
  <2>1. limiter.start \in Int
    BY DEF WeatherIInv, WeatherTypeOK, Time
  <2> QED BY <1>1, <2>1 DEF CallsOK, WeatherIInv
<1> QED BY <1>2, <1>3, <1>4, <1>5, <1>6 DEF WeatherIInv, AnswersSayTheAge

LEMMA WeatherStepKeeps == WeatherIInv /\ [WeatherNext]_weatherVars => WeatherIInv'
<1> SUFFICES ASSUME WeatherIInv, [WeatherNext]_weatherVars PROVE WeatherIInv'
  OBVIOUS
<1>1. CASE UNCHANGED weatherVars
  <2>1. UNCHANGED <<clock, forecast, limiter, asking, said, calls>>
    BY <1>1 DEF weatherVars
  <2>2. \A r \in WeatherRequest : RequestOK(r)'
    BY <2>1 DEF RequestOK, WeatherIInv
  <2> QED BY <2>1, <2>2
    DEF WeatherIInv, WeatherTypeOK, EntriesOK, CallsOK, AnswersSayTheAge, AnswersInTime, MarkedIsOld
<1>2. ASSUME NEW r \in WeatherRequest, NEW v \in Viewport, Ask(r, v) PROVE WeatherIInv'
  BY <1>2, AskKeeps
<1>3. ASSUME NEW r \in WeatherRequest, LookUpForecast(r) PROVE WeatherIInv'
  BY <1>3, LookUpForecastKeeps
<1>4. ASSUME NEW r \in WeatherRequest, AskLimiter(r) PROVE WeatherIInv'
  BY <1>4, AskLimiterKeeps
<1>5. ASSUME NEW r \in WeatherRequest, Fetched(r) PROVE WeatherIInv'
  BY <1>5, FetchedKeeps
<1>6. ASSUME NEW r \in WeatherRequest, FetchFails(r) PROVE WeatherIInv'
  BY <1>6, FetchFailsKeeps
<1>7. ASSUME NEW r \in WeatherRequest, Degrade(r) PROVE WeatherIInv'
  BY <1>7, DegradeKeeps
<1>8. CASE Pass
  BY <1>8, PassKeeps
<1> QED BY <1>1, <1>2, <1>3, <1>4, <1>5, <1>6, <1>7, <1>8 DEF WeatherNext

\* Any time shorter than a window by the delay touches at most two windows, and
\* each gives Limit places.
LEMMA TwoWindows ==
    ASSUME WeatherIInv, Limit > 0, NEW t \in Time
    PROVE  Cardinality({c \in calls : t <= c.at /\ c.at < t + Window - MaxDelay}) <= 2 * Limit
<1> DEFINE S == {c \in calls : t <= c.at /\ c.at < t + Window - MaxDelay}
<1>1. /\ Window \in Nat /\ MaxDelay \in Nat /\ Limit \in Nat /\ t \in Nat
      /\ \A c \in S : c.start \in Nat /\ c.at \in Nat /\ c.n \in 1 .. Limit
  BY WeatherAssumption DEF WeatherIInv, WeatherTypeOK, CallsOK, ProviderCall, Time
<1>2. ASSUME NEW c \in S, NEW d \in S, NEW e \in S, c.start < d.start, d.start < e.start
      PROVE  FALSE
  <2>1. c.start + Window <= d.start /\ d.start + Window <= e.start
    BY <1>2 DEF WeatherIInv, CallsOK
  <2>2. c.at < c.start + Window + MaxDelay /\ e.start <= e.at
    BY DEF WeatherIInv, CallsOK
  <2>3. t <= c.at /\ e.at < t + Window - MaxDelay
    OBVIOUS
  <2> QED BY <1>1, <2>1, <2>2, <2>3
<1>3. \E a, b \in Nat : \A c \in S : c.start \in {a, b}
  <2>1. CASE S = {}
    BY <2>1
  <2>2. CASE S # {}
    <3>1. PICK c \in S : TRUE
      BY <2>2
    <3>2. CASE \A d \in S : d.start = c.start
      BY <1>1, <3>2
    <3>3. ASSUME NEW d \in S, d.start # c.start PROVE \A e \in S : e.start \in {c.start, d.start}
      BY <1>1, <1>2, <3>3
    <3> QED BY <1>1, <3>2, <3>3
  <2> QED BY <2>1, <2>2
<1>4. PICK a, b \in Nat : \A c \in S : c.start \in {a, b}
  BY <1>3
<1> DEFINE Places == {a, b} \X (1 .. Limit)
           place == [c \in S |-> <<c.start, c.n>>]
<1>5. place \in Injection(S, Places)
  BY <1>1, <1>4 DEF Injection, IsInjective, WeatherIInv, CallsOK
<1>6. IsFiniteSet(Places) /\ Cardinality(Places) <= 2 * Limit
  <2>1. IsFiniteSet({a}) /\ Cardinality({a}) = 1 /\ {a, b} = {a} \cup {b}
    BY FS_Singleton
  <2>2. IsFiniteSet({a, b}) /\ Cardinality({a, b}) \in {1, 2}
    BY <2>1, FS_AddElement
  <2>3. IsFiniteSet(1 .. Limit) /\ Cardinality(1 .. Limit) = Limit
    BY <1>1, FS_Interval
  <2>4. IsFiniteSet(Places) /\ Cardinality(Places) = Cardinality({a, b}) * Limit
    BY <2>2, <2>3, FS_Product
  <2> QED BY <1>1, <2>2, <2>4
<1>7. IsFiniteSet(S) /\ Cardinality(S) <= Cardinality(Places)
  BY <1>5, <1>6, FS_Injection
<1>8. Cardinality(S) \in Nat /\ Cardinality(Places) \in Nat
  BY <1>6, <1>7, FS_CardinalityType
<1> QED BY <1>1, <1>6, <1>7, <1>8

\* In every state that is reached: types, the ages of entries, what requests
\* know of them, and where in its window each call was made.
THEOREM WeatherInvariant == WeatherSpec => []WeatherIInv
  BY WeatherInitial, WeatherStepKeeps, PTL DEF WeatherSpec

\* An answer that is said to be fresh, from the cache or old is so, for any
\* number of requests for a viewport (WeatherPlanningService.Get).
THEOREM ForecastAgesTold == WeatherSpec => []AnswersSayTheAge
<1>1. WeatherIInv => AnswersSayTheAge
  BY DEF WeatherIInv
<1> QED BY <1>1, WeatherInvariant, PTL

\* Within a window, and the time a call may be late, the provider is not called
\* more often than two full windows allow (allowProviderCall).
THEOREM ProviderBudgetKept == WeatherSpec => []MinuteBudget
<1>1. WeatherIInv => MinuteBudget
  BY TwoWindows DEF MinuteBudget
<1> QED BY <1>1, WeatherInvariant, PTL

-----------------------------------------------------------------------------
(* The run of exports, counts and forecasts                                *)

\* Each behaviour of the run is one of every component, most of which rest: what
\* is proved of a component holds in the run.
LEMMA FormatsRun ==
    FormatsSpec => Spec /\ TagSpec /\ WeatherSpec
<1>1. FormatsInit => Init /\ TagInit /\ WeatherInit
  BY DEF FormatsInit
<1>2. [FormatsNext]_formatsVars => [Next]_vars /\ [TagNext]_tagVars /\ [WeatherNext]_weatherVars
  BY DEF FormatsNext, formatsVars
<1> QED BY <1>1, <1>2, PTL DEF FormatsSpec, Spec, TagSpec, WeatherSpec

\* The types of exports, the hashtag cache and forecasts, together.
THEOREM FormatTypes == FormatsSpec => []FormatTypesOK
<1>1. TypeOK /\ TagIInv /\ WeatherIInv => FormatTypesOK
  BY DEF TagIInv, WeatherIInv, FormatTypesOK
<1> QED BY <1>1, FormatsRun, ExportTypeCorrect, TagInvariant, WeatherInvariant, PTL

=============================================================================
