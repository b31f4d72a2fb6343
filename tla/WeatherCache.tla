----------------------------- MODULE WeatherCache -----------------------------
(***************************************************************************)
(* Forecasts for the planning map (service/weather_planning.go).           *)
(*                                                                         *)
(* GetPlanningWeather answers from a cache in memory while an entry is     *)
(* young; otherwise it asks the provider, as often as a limiter with       *)
(* fixed windows allows; when that is refused or fails, it falls back on   *)
(* an entry that is not too old and says that it is stale.  A request      *)
(* reads the clock once, when it starts, and uses that time throughout.    *)
(***************************************************************************)
EXTENDS Integers, FiniteSets

CONSTANTS
    Viewport,        \* cache keys
    WeatherRequest,  \* requests that are served at the same time
    CacheTTL,        \* cache_ttl_seconds, in ticks
    StaleTTL,        \* stale_ttl_seconds, in ticks
    Window,          \* the limiter's minute, in ticks
    Limit,           \* rate_limit_per_minute, 0 for no limit
    MaxDelay,        \* ticks from the start of a request to the limiter
    MaxClock,        \* the clock stops here (bound)
    NoForecast       \* no entry

ASSUME WeatherAssumption ==
    /\ CacheTTL \in Nat \ {0}
    /\ StaleTTL \in Nat \ {0}
    /\ Window \in Nat \ {0}
    /\ Limit \in Nat
    /\ MaxDelay \in Nat /\ MaxDelay < Window
    /\ MaxClock \in Nat

VARIABLES
    clock,    \* ticks
    forecast, \* weatherCacheData
    limiter,  \* start of the window and calls counted in it
    asking,   \* local variables of each request
    said,     \* how the last answer described its data, and when it was fetched
    calls     \* calls of the provider under a limit (history)

weatherVars == <<clock, forecast, limiter, asking, said, calls>>

Time == 0..MaxClock

\* stored: the clock of the request that stored the entry; fetched: when the
\* provider was asked (history); marked: whether its items have been marked as
\* stale, by a request that had the viewport to itself or not.
Forecast == [stored : Time, fetched : Time, marked : {"no", "alone", "overlapping"}]

\* start: the limiter's window; n: the place in it; at: the time of the call.
ProviderCall == [start : Time, n : Nat, at : Time]

WeatherStep == {"idle", "lookup", "limit", "fetch", "degrade"}

WeatherCall == [step : WeatherStep, view : Viewport \cup {NoForecast},
                now : Time, fetched : Time, alone : BOOLEAN]

NotAsking == [step |-> "idle", view |-> NoForecast, now |-> 0, fetched |-> 0, alone |-> FALSE]

\* status: what the answer says of its data; age: between the time the data was
\* fetched and the start of the request.
WeatherAnswer == [status : {"fresh", "stale", "unavailable"}, age : -MaxClock..MaxClock]

WeatherTypeOK ==
    /\ clock \in Time
    /\ forecast \in [Viewport -> Forecast \cup {NoForecast}]
    /\ limiter \in [start : Time \cup {-1}, count : Nat]
    /\ asking \in [WeatherRequest -> WeatherCall]
    /\ said \in WeatherAnswer
    /\ calls \subseteq ProviderCall

NothingSaid == [status |-> "unavailable", age |-> 0]

WeatherInit ==
    /\ clock = 0
    /\ forecast = [v \in Viewport |-> NoForecast]
    /\ limiter = [start |-> -1, count |-> 0]
    /\ asking = [r \in WeatherRequest |-> NotAsking]
    /\ said = NothingSaid
    /\ calls = {}

-----------------------------------------------------------------------------

Asks(r, v) == asking[r].step # "idle" /\ asking[r].view = v

\* A request starts and reads the clock.
Ask(r, v) ==
    /\ asking[r].step = "idle"
    /\ asking' = [q \in WeatherRequest |->
                    IF q = r
                    THEN [step |-> "lookup", view |-> v, now |-> clock, fetched |-> 0,
                          alone |-> \A p \in WeatherRequest \ {r} : ~Asks(p, v)]
                    ELSE IF Asks(q, v) THEN [asking[q] EXCEPT !.alone = FALSE]
                                       ELSE asking[q]]
    /\ UNCHANGED <<clock, forecast, limiter, said, calls>>

\* The entry, if it is at most that old for this request.
Usable(r, ttl) ==
    LET e == forecast[asking[r].view]
    IN  e # NoForecast /\ asking[r].now - e.stored <= ttl

\* Mistake: the call that opens a window is not counted.
CountedFirstFree(now) ==
    IF limiter.start = -1 \/ now - limiter.start >= Window
    THEN [start |-> now, count |-> 0]
    ELSE [start |-> limiter.start, count |-> limiter.count + 1]

\* weatherRateLimiter.allow, the limiter afterwards: a call whose clock is a
\* minute past the start of the window opens a new one.
Counted(now) ==
    IF limiter.start = -1 \/ now - limiter.start >= Window
    THEN [start |-> now, count |-> 1]
    ELSE [start |-> limiter.start, count |-> limiter.count + 1]

\* Mistake: a request counts against the quota before it looks at the cache.
HitWithinQuota(r) ==
    Usable(r, CacheTTL) /\ (Limit = 0 \/ Counted(asking[r].now).count <= Limit)

\* weatherCacheGet finds an entry within weatherCacheTTL.
Hit(r) == Usable(r, CacheTTL)

Say(r, status, fetched) ==
    /\ said' = [status |-> status, age |-> asking[r].now - fetched]
    /\ asking' = [asking EXCEPT ![r] = NotAsking]

GoTo(r, step) == asking' = [asking EXCEPT ![r].step = step]

LookUpForecast(r) ==
    /\ asking[r].step = "lookup"
    /\ \/ Hit(r) /\ Say(r, "fresh", forecast[asking[r].view].fetched)
       \/ ~Hit(r) /\ GoTo(r, "limit") /\ UNCHANGED said
    /\ UNCHANGED <<clock, forecast, limiter, calls>>

\* The provider is called, or refused by the limiter.
AskLimiter(r) ==
    LET after == Counted(asking[r].now) IN
    /\ asking[r].step = "limit"
    /\ \/ /\ Limit = 0 \/ after.count <= Limit
          /\ limiter' = IF Limit = 0 THEN limiter ELSE after
          /\ asking' = [asking EXCEPT ![r].step = "fetch", ![r].fetched = clock]
          /\ calls' = IF Limit = 0 THEN calls
                      ELSE calls \cup {[start |-> after.start, n |-> after.count, at |-> clock]}
       \/ /\ Limit > 0 /\ after.count > Limit
          /\ GoTo(r, "degrade")
          /\ UNCHANGED <<limiter, calls>>
    /\ UNCHANGED <<clock, forecast, said>>

\* Mistake: the entry bears the time at which the answer has come.
EntryAtAnswer(r) == [stored |-> clock, fetched |-> asking[r].fetched, marked |-> "no"]

\* Mistake: the entry is stored without a time.
EntryUnstamped(r) == [stored |-> -1, fetched |-> asking[r].fetched, marked |-> "no"]

\* weatherCachePut, with the clock of the request.
Entry(r) == [stored |-> asking[r].now, fetched |-> asking[r].fetched, marked |-> "no"]

\* The provider has answered: the entry is replaced, also by an older one.
Fetched(r) ==
    /\ asking[r].step = "fetch"
    /\ forecast' = [forecast EXCEPT ![asking[r].view] = Entry(r)]
    /\ Say(r, "fresh", asking[r].fetched)
    /\ UNCHANGED <<clock, limiter, calls>>

FetchFails(r) ==
    /\ asking[r].step = "fetch"
    /\ GoTo(r, "degrade")
    /\ UNCHANGED <<clock, forecast, limiter, said, calls>>

\* weatherDegradedFromCacheOrUnavailable.  The answer shares its items with the
\* entry, so marking them as stale marks those in the cache.
Degrade(r) ==
    LET v == asking[r].view IN
    /\ asking[r].step = "degrade"
    /\ \/ /\ Usable(r, StaleTTL)
          /\ Say(r, "stale", forecast[v].fetched)
          /\ forecast' = [forecast EXCEPT ![v].marked =
                            IF @ = "alone" \/ asking[r].alone THEN "alone" ELSE "overlapping"]
       \/ /\ ~Usable(r, StaleTTL)
          /\ said' = NothingSaid
          /\ asking' = [asking EXCEPT ![r] = NotAsking]
          /\ UNCHANGED forecast
    /\ UNCHANGED <<clock, limiter, calls>>

\* A request may wait for the provider for as long as it takes, and for the
\* audit rows it writes before the limiter for MaxDelay.
Pass ==
    /\ clock < MaxClock
    /\ \A r \in WeatherRequest :
          asking[r].step \in {"lookup", "limit"} => clock - asking[r].now < MaxDelay
    /\ clock' = clock + 1
    /\ UNCHANGED <<forecast, limiter, asking, said, calls>>

WeatherNext ==
    \/ \E r \in WeatherRequest :
          \/ \E v \in Viewport : Ask(r, v)
          \/ LookUpForecast(r) \/ AskLimiter(r)
          \/ Fetched(r) \/ FetchFails(r) \/ Degrade(r)
    \/ Pass

WeatherSpec == WeatherInit /\ [][WeatherNext]_weatherVars

-----------------------------------------------------------------------------
(* Properties                                                              *)

\* What an answer says of its data is so: fresh data was asked for no longer
\* than cache_ttl_seconds before the request, stale data no longer than
\* stale_ttl_seconds, whichever requests stored, replaced or fell back on the
\* entry in between and however long the provider took.
AnswersInTime ==
    /\ said.status = "fresh" => said.age <= CacheTTL
    /\ said.status = "stale" => said.age <= StaleTTL

\* The provider is called at most twice rate_limit_per_minute times in any
\* minute (less the time a request may need to reach the limiter): windows do
\* not pile up, although requests pass the limiter in another order than that of
\* the times they carry.
MinuteBudget ==
    Limit > 0 =>
      \A t \in Time :
         Cardinality({c \in calls : t <= c.at /\ c.at < t + Window - MaxDelay}) <= 2 * Limit

\* Items in the cache are marked as stale by a request that had the viewport to
\* itself only when no later request can be told that they are fresh.  (Requests
\* that overlap can mark the items of an entry that is still served as fresh.)
MarkedIsOld ==
    \A v \in Viewport :
       forecast[v] # NoForecast /\ forecast[v].marked = "alone"
         => clock - forecast[v].stored > CacheTTL

\* What an answer says of its age is so, and so is what it says of its items.
AnswersSayTheAge == AnswersInTime /\ MarkedIsOld

==============================================================================
