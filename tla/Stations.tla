------------------------------- MODULE Stations -------------------------------
(***************************************************************************)
(* Train stations, their lines and maps (service/train_station_admin.go,   *)
(* train_station_line_admin.go, train_station_map_admin.go, the station    *)
(* handlers of admin_station_http.go and api_key_http.go, initdb).         *)
(*                                                                         *)
(* Which lines stop at a station is kept twice: in a relation between      *)
(* stations and a catalogue of lines, and in a column of the station that  *)
(* is derived from it.  Maps are tied to stations and lines by their name  *)
(* only.                                                                   *)
(*                                                                         *)
(* A transaction is a sequence of steps.  Its statements read what others  *)
(* have committed by then, and what it writes is seen by others when it    *)
(* commits (read committed).  Of the row locks only those on stations are  *)
(* modelled: without the others more overlaps here than in the database.   *)
(***************************************************************************)
CONSTANTS
    StationMap,      \* names of maps
    BuiltinMap,      \* constant.HKMTR
    StationId,       \* rows of train_stations
    Ident,           \* identifiers of stations
    LineId,          \* rows of train_station_lines
    LineName,        \* name, local name and colour of a line
    StationRequest,  \* requests that are served at the same time
    NoMap,           \* no map
    NoLine,          \* no row of train_station_lines
    SeededMap        \* maps that come with the program

ASSUME StationAssumption ==
    /\ BuiltinMap \in StationMap
    /\ SeededMap \subseteq StationMap
    /\ NoMap \notin StationMap
    /\ NoLine \notin StationMap \X LineName
    /\ NoLine \notin LineName

VARIABLES
    mapRow,    \* train_station_maps, with rows that are deleted
    station,   \* train_stations
    line,      \* train_station_lines
    stops,     \* train_station_station_lines
    editing,   \* each request, with what its transaction has written
    torn,      \* stations written by a request that another has overtaken, or
               \* left behind by a new seed, and not given their lines since
    stray      \* maps that were removed or filled by a request that another
               \* has overtaken, or seeded after they were removed (history)

stationVars == <<mapRow, station, line, stops, editing, torn, stray>>

\* A line_info that is JSON, but no list the relation can hold.
Odd == {NoLine}

LineInfo == (SUBSET LineName) \cup {Odd}

\* Of a row that is deleted no column is read again.
StationRow == [status : {"gone", "live"}, map : StationMap \cup {NoMap},
               ident : Ident \cup {NoMap}, info : LineInfo]

NoStation == [status |-> "gone", map |-> NoMap, ident |-> NoMap, info |-> {}]

EditStep == {"idle", "upsert", "lines", "catalog", "rename", "remove", "save", "relines",
             "stopping", "derived", "rows", "erased", "rebuilt", "moved", "emptied"}

\* Functions on some of the elements of S.
Partial(S, T) == UNION {[D -> T] : D \in SUBSET S}

\* map is the name a request was given; held, the name that the row it has
\* read bears now; id and row, the station it is about; rows, the stations
\* that are written and so locked; todo, names still to be looked up; lines,
\* the rows of lines in hand, with their names, NoLine for those to remove;
\* made, the names of new ones; erased, stops to go; infos, columns computed;
\* overtaken, whether others have changed since what it has in hand.
Editing == [step : EditStep, map : StationMap \cup {NoMap}, held : StationMap \cup {NoMap},
            id : StationId \cup {NoMap}, row : StationRow, rows : SUBSET StationId,
            todo : SUBSET LineName, lines : Partial(LineId, LineName \cup {NoLine}),
            made : SUBSET LineName, erased : SUBSET (StationId \X LineId),
            infos : Partial(StationId, SUBSET LineName), overtaken : BOOLEAN]

NotEditing == [step |-> "idle", map |-> NoMap, held |-> NoMap, id |-> NoMap,
               row |-> NoStation, rows |-> {}, todo |-> {},
               lines |-> [l \in {} |-> NoLine], made |-> {}, erased |-> {},
               infos |-> [s \in {} |-> {}], overtaken |-> FALSE]

StationTypeOK ==
    /\ mapRow \in [StationMap -> {"absent", "live", "deleted"}]
    /\ station \in [StationId -> StationRow]
    /\ line \in [LineId -> (StationMap \X LineName) \cup {NoLine}]
    /\ \A k, l \in LineId : line[k] = line[l] /\ line[k] # NoLine => k = l
    /\ stops \subseteq StationId \X LineId
    /\ editing \in [StationRequest -> Editing]
    /\ torn \subseteq StationId
    /\ stray \subseteq StationMap

StationInit ==
    /\ mapRow = [m \in StationMap |-> "absent"]
    /\ station = [s \in StationId |-> NoStation]
    /\ line = [l \in LineId |-> NoLine]
    /\ stops = {}
    /\ editing = [r \in StationRequest |-> NotEditing]
    /\ torn = {}
    /\ stray = {}

-----------------------------------------------------------------------------
(* Rows                                                                    *)

LiveAmong(rows, m) == {s \in StationId : rows[s].status = "live" /\ rows[s].map = m}
LiveOf(m) == LiveAmong(station, m)

\* GetByMapAndIdentifier; several rows may qualify.
Found(m, i) == {s \in LiveOf(m) : station[s].ident = i}

LinesOf(lines, m) == {l \in LineId : lines[l] # NoLine /\ lines[l][1] = m}

StopsAmong(relation, s) == {e \in relation : e[1] = s}
StopsAt(s) == StopsAmong(stops, s)

\* The column as it is derived from a relation: name[l] is what line l is called.
Derived(name, relation, s) ==
    {name[l] : l \in {k \in LineId : <<s, k>> \in relation /\ name[k] # NoLine}}

Names(lines) == [l \in LineId |-> IF lines[l] = NoLine THEN NoLine ELSE lines[l][2]]

\* Ids that are not in use, nor remembered by anyone.
Free == {l \in LineId : /\ line[l] = NoLine
                        /\ \A e \in stops : e[2] # l
                        /\ \A r \in StationRequest : l \notin DOMAIN editing[r].lines}

\* Catalogues with a new line of map m, in one of the rows free, for each name.
WithNew(lines, free, m, names) ==
    {[l \in LineId |-> IF l \in free /\ new[l] # NoLine THEN <<m, new[l]>> ELSE lines[l]] :
        new \in {f \in [free -> names \cup {NoLine}] :
                   \A n \in names : \E l \in free : \A k \in free : f[k] = n <=> k = l}}

\* No two lines are the same (the unique index of train_station_lines).
Distinct(lines) == \A k, l \in LineId : lines[k] = lines[l] /\ lines[k] # NoLine => k = l

-----------------------------------------------------------------------------
(* Requests                                                                *)

Busy(r) == editing[r].step # "idle"

\* The rows of S are not locked by another transaction.
Unlocked(r, S) == \A q \in StationRequest \ {r} : editing[q].rows \cap S = {}

\* Station s stays as it is in this step, with its stops.
StationKept(s) ==
    station'[s] = station[s] /\ StopsAmong(stops', s) = StopsAmong(stops, s)

\* So does what concerns map m: its stations, its lines and the stops at them.
MapKept(m) ==
    /\ \A s \in LiveOf(m) \cup LiveAmong(station', m) : StationKept(s)
    /\ \A l \in LinesOf(line, m) \cup LinesOf(line', m) : line'[l] = line[l]
    /\ \A e \in StationId \X LinesOf(line, m) : e \in stops <=> e \in stops'

\* So does what request q has in hand.
InHandKept(q) ==
    LET e == editing[q] IN
    /\ e.map \in StationMap => mapRow'[e.map] = mapRow[e.map]
    /\ e.id \in StationId => StationKept(e.id)
    /\ \A l \in DOMAIN e.lines : line'[l] = line[l]
    /\ e.step \in {"rows", "erased", "rebuilt", "moved", "remove", "emptied"} => MapKept(e.map)

Noticed(q) == [editing[q] EXCEPT !.overtaken = @ \/ ~InHandKept(q)]

\* Request r goes on with next, and overtakes others perhaps.
Goes(r, next) ==
    editing' = [q \in StationRequest |-> IF q = r THEN next ELSE Noticed(q)]

Answered(r) == Goes(r, NotEditing)

\* A request that is answered with its first step.
Passes == editing' = [q \in StationRequest |-> Noticed(q)]

\* EnsureTrainStationMapExists: the row is found or created.  The name of a
\* deleted map is taken, and the request is refused.
Ensured(m) ==
    /\ mapRow[m] # "deleted"
    /\ mapRow' = [mapRow EXCEPT ![m] = "live"]

\* AdminUpsertStationHandler, AdminImportStationJSONHandler,
\* AdminUpdateStationLinesHandler and AdminSaveStationLineCatalogHandler start
\* with the map; AdminListStationsHandler and the like end there.
EnsureMap(r, m, step) ==
    /\ ~Busy(r)
    /\ Ensured(m)
    /\ UNCHANGED <<station, line, stops, torn, stray>>
    /\ Goes(r, IF step = "idle" THEN NotEditing
               ELSE [NotEditing EXCEPT !.step = step, !.map = m])

\* A request ends here: nothing is found, a statement fails and its
\* transaction is rolled back, or an import is over.
EndRequest(r) ==
    /\ Busy(r)
    /\ UNCHANGED <<mapRow, station, line, stops, torn, stray>>
    /\ Answered(r)

-----------------------------------------------------------------------------
(* Lines of a station                                                      *)

\* The transaction begins: the station's stops are erased
\* (replaceStationLineRelationsTx).  written: the rows it has saved before.
\* What the column was is not looked at again.
StartLines(r, s, row, written, names) ==
    /\ UNCHANGED <<mapRow, station, line, stops, torn, stray>>
    /\ Goes(r, [editing[r] EXCEPT !.step = "stopping", !.id = s,
                                 !.row = [row EXCEPT !.info = {}],
                                 !.rows = written, !.todo = names,
                                 !.erased = StopsAt(s)])

\* A row of this id may be written: it is new, or forgotten by everyone.
Unheld(s) ==
    /\ station[s].status # "live"
    /\ StopsAt(s) = {}
    /\ \A r \in StationRequest : editing[r].id # s /\ s \notin DOMAIN editing[r].infos

\* UpsertTrainStationByIdentifier: the station is found or created and saved.
UpsertTrainStation(r, i, names) ==
    LET m == editing[r].map
        row == [status |-> "live", map |-> m, ident |-> i, info |-> {}]
    IN  /\ editing[r].step = "upsert"
        /\ \E s \in StationId :
              /\ s \in Found(m, i) \/ (Found(m, i) = {} /\ Unheld(s))
              /\ Unlocked(r, {s})
              /\ StartLines(r, s, row, {s}, names)

\* UpdateTrainStationLines, for the administrator's handler.
UpdateTrainStationLines(r, s, names) ==
    /\ editing[r].step = "lines"
    /\ s \in LiveOf(editing[r].map)
    /\ StartLines(r, s, station[s], {}, names)

\* ensureTrainStationLineTx: the line is looked up, or created, and the stop
\* inserted, unless there is one (the unique index).
EnsureLine(r, n) ==
    LET e == editing[r] IN
    /\ e.step = "stopping" /\ n \in e.todo
    /\ UNCHANGED <<mapRow, station, line, stops, torn, stray>>
    /\ \/ \E l \in LineId \ DOMAIN e.lines :
             /\ line[l] = <<e.row.map, n>> /\ <<e.id, l>> \notin stops \ e.erased
             /\ Goes(r, [e EXCEPT !.todo = @ \ {n},
                                  !.lines = [k \in (DOMAIN e.lines) \cup {l} |->
                                               IF k = l THEN n ELSE e.lines[k]]])
       \/ /\ \A l \in LineId : line[l] # <<e.row.map, n>>
          /\ Goes(r, [e EXCEPT !.todo = @ \ {n}, !.made = @ \cup {n}])

\* The stops of the station as its transaction sees them, but for new lines.
OwnStops(r) == (stops \ editing[r].erased)
                 \cup {<<editing[r].id, l>> : l \in DOMAIN editing[r].lines}

\* buildStationLineInfoMapTx: the column is computed from what is there now.
DeriveColumn(r) ==
    LET e == editing[r]
        info == Derived(Names(line), OwnStops(r), e.id) \cup e.made
    IN  /\ e.step = "stopping" /\ e.todo = {}
        /\ UNCHANGED <<mapRow, station, line, stops, torn, stray>>
        /\ Goes(r, [e EXCEPT !.step = "derived", !.infos = [s \in {e.id} |-> info]])

\* The column is written, of a station that was not deleted meanwhile, and the
\* transaction commits.  An import goes on with its next station.
CommitLines(r) ==
    LET e == editing[r]
        s == e.id
        m == e.row.map
    IN  /\ e.step = "derived"
        /\ Unlocked(r, {s})
        /\ \A l \in DOMAIN e.lines : <<s, l>> \notin stops \ e.erased
        /\ UNCHANGED mapRow
        /\ line' \in WithNew(line, Free, m, e.made)
        /\ Distinct(line')
        /\ stops' = OwnStops(r) \cup {<<s, l>> : l \in {k \in LineId : line'[k] # line[k]}}
        /\ station' = [station EXCEPT ![s] =
                         IF s \in e.rows THEN [e.row EXCEPT !.info = e.infos[s]]
                         ELSE IF @.status = "live" THEN [@ EXCEPT !.info = e.infos[s]]
                         ELSE @]
        /\ torn' = IF e.overtaken THEN torn \cup {s} ELSE torn \ {s}
        /\ stray' = IF e.overtaken THEN stray \cup {m} ELSE stray
        /\ \/ Answered(r)
           \/ e.rows # {} /\ Goes(r, [NotEditing EXCEPT !.step = "upsert", !.map = m,
                                                        !.overtaken = e.overtaken])

\* RemoveTrainStationByIdentifier.
RemoveTrainStation(s) ==
    /\ station[s].status = "live"
    /\ \A q \in StationRequest : s \notin editing[q].rows
    /\ station' = [station EXCEPT ![s] = NoStation]
    /\ stops' = stops \ StopsAt(s)
    /\ UNCHANGED <<mapRow, line, torn, stray>>
    /\ Passes

-----------------------------------------------------------------------------
(* The catalogue                                                           *)

\* Rows of m are kept, under the same name or another, or removed in the end,
\* and new ones are created.  At no time may two have the same name.
Fits(m, kept, made) ==
    LET ours == DOMAIN kept
        stay == {l \in ours : kept[l] # NoLine}
        moved == {l \in stay : kept[l] # line[l][2]}
    IN  /\ \A k, l \in stay : kept[k] = kept[l] => k = l
        /\ \A l \in stay : kept[l] \notin made
        /\ \A g \in ours \ stay :
              line[g][2] \notin made /\ \A l \in stay : kept[l] # line[g][2]
        /\ \A S \in SUBSET moved :
              S # {} => \E l \in S : \A k \in S \ {l} : kept[l] # line[k][2]

\* SaveTrainStationLineCatalog: the rows of the map are read, ...
ReadCatalog(r) ==
    LET m == editing[r].map IN
    /\ editing[r].step = "catalog"
    /\ UNCHANGED <<mapRow, station, line, stops, torn, stray>>
    /\ \E kept \in [LinesOf(line, m) -> LineName \cup {NoLine}], made \in SUBSET LineName :
          /\ Fits(m, kept, made)
          /\ Goes(r, [editing[r] EXCEPT !.step = "rows", !.lines = kept, !.made = made])

Removed(r) == {l \in DOMAIN editing[r].lines : editing[r].lines[l] = NoLine}

\* ... saved, created or removed, removed ones with their stops, ...
EraseStops(r) ==
    /\ editing[r].step = "rows"
    /\ UNCHANGED <<mapRow, station, line, stops, torn, stray>>
    /\ Goes(r, [editing[r] EXCEPT !.step = "erased",
                                 !.erased = {e \in stops : e[2] \in Removed(r)}])

\* The names of lines as the transaction of r sees them.
OwnNames(r) == [l \in LineId |-> IF l \in DOMAIN editing[r].lines THEN editing[r].lines[l]
                                 ELSE Names(line)[l]]

\* Mistake: columns are computed with the names that lines had before.
RebuildWithOldNames(r) ==
    LET e == editing[r] IN
    /\ e.step = "erased"
    /\ UNCHANGED <<mapRow, station, line, stops, torn, stray>>
    /\ Goes(r, [e EXCEPT !.step = "rebuilt",
                        !.infos = [s \in LiveOf(e.map) |->
                                     Derived(Names(line), stops \ e.erased, s)]])

\* ... the columns of the map's stations are computed, with
\* RebuildStationLineInfoForMapTx, ...
RebuildLineInfo(r) ==
    LET e == editing[r] IN
    /\ e.step = "erased"
    /\ UNCHANGED <<mapRow, station, line, stops, torn, stray>>
    /\ Goes(r, [e EXCEPT !.step = "rebuilt",
                        !.infos = [s \in LiveOf(e.map) |->
                                     Derived(OwnNames(r), stops \ e.erased, s)]])

\* Stations that may be wrong when a map-wide request was overtaken: those of
\* its map, those it writes, and those with a stop at one of the lines in L.
Doubtful(r, L) ==
    LET e == editing[r]
    IN  LiveOf(e.map) \cup e.rows \cup DOMAIN e.infos
          \cup {s \in StationId : \E l \in LineId :
                   <<s, l>> \in e.erased \/ (l \in L /\ <<s, l>> \in stops)}

\* ... and written, and the transaction commits.  A row that was removed
\* meanwhile is saved as a new one, or the request is refused.
CommitCatalog(r) ==
    LET e == editing[r]
        m == e.map
        saved == [l \in LineId |-> IF l \notin DOMAIN e.lines THEN line[l]
                                   ELSE IF e.lines[l] = NoLine THEN NoLine
                                   ELSE <<m, e.lines[l]>>]
    IN  /\ e.step = "rebuilt"
        /\ Unlocked(r, DOMAIN e.infos)
        /\ UNCHANGED mapRow
        /\ line' \in WithNew(saved, Free, m, e.made)
        /\ Distinct(line')
        /\ stops' = stops \ e.erased
        /\ station' = [s \in StationId |->
                         IF s \in DOMAIN e.infos /\ station[s].status = "live"
                         THEN [station[s] EXCEPT !.info = e.infos[s]] ELSE station[s]]
        /\ torn' = IF e.overtaken THEN torn \cup Doubtful(r, DOMAIN e.lines) ELSE torn
        /\ stray' = IF e.overtaken THEN stray \cup {m} ELSE stray
        /\ Answered(r)

-----------------------------------------------------------------------------
(* Maps                                                                    *)

CreateTrainStationMap(m) ==
    /\ mapRow[m] = "absent"
    /\ mapRow' = [mapRow EXCEPT ![m] = "live"]
    /\ UNCHANGED <<station, line, stops, torn, stray>>
    /\ Passes

\* UpdateTrainStationMap: the row is read, ...
ReadMap(r, m) ==
    /\ ~Busy(r)
    /\ mapRow[m] = "live"
    /\ UNCHANGED <<mapRow, station, line, stops, torn, stray>>
    /\ Goes(r, [NotEditing EXCEPT !.step = "rename", !.map = m, !.held = m])

\* ... the stations of the map get the new name, ...
MoveStations(r) ==
    LET m == editing[r].map IN
    /\ editing[r].step = "rename"
    /\ Unlocked(r, LiveOf(m))
    /\ UNCHANGED <<mapRow, station, line, stops, torn, stray>>
    /\ Goes(r, [editing[r] EXCEPT !.step = "moved", !.rows = LiveOf(m)])

\* Mistake: the lines keep the old name of their map.
RenamedLinesKept(m, target) == line

\* Mistake: the lines are left without a map.
RenamedLinesUnmapped(m, target) ==
    [l \in LineId |-> IF l \in LinesOf(line, m) THEN <<NoMap, line[l][2]>> ELSE line[l]]

\* The lines of m belong to the map of the new name.
RenamedLines(m, target) ==
    [l \in LineId |-> IF l \in LinesOf(line, m) THEN <<target, line[l][2]>> ELSE line[l]]

\* ... then lines and the row, which no other row bears, deleted or not.  The
\* row is saved as it was read: if it has got another name meanwhile it loses
\* that, and if it was deleted it comes back or the request is refused.
RenameTrainStationMap(r, target) ==
    LET e == editing[r]
        m == e.map
    IN  /\ e.step = "moved"
        /\ mapRow[target] = "absent"
        /\ mapRow' = [mapRow EXCEPT ![e.held] = "absent", ![target] = "live"]
        /\ station' = [s \in StationId |-> IF s \in e.rows THEN [station[s] EXCEPT !.map = target]
                                           ELSE station[s]]
        /\ line' = RenamedLines(m, target)
        /\ Distinct(line')
        /\ UNCHANGED <<stops, stray>>
        /\ torn' = IF e.overtaken THEN torn \cup Doubtful(r, LinesOf(line, m)) ELSE torn
        /\ editing' = [q \in StationRequest |->
                         IF q = r THEN NotEditing
                         ELSE IF editing[q].held = e.held
                              THEN [Noticed(q) EXCEPT !.held = target]
                              ELSE Noticed(q)]

\* RemoveTrainStationMap: stations are counted, ...
CountStations(r, m) ==
    /\ ~Busy(r)
    /\ m # BuiltinMap
    /\ LiveOf(m) = {}
    /\ UNCHANGED <<mapRow, station, line, stops, torn, stray>>
    /\ Goes(r, [NotEditing EXCEPT !.step = "remove", !.map = m])

\* ... then the stops at the map's lines are erased, ...
EmptyMap(r) ==
    /\ editing[r].step = "remove"
    /\ UNCHANGED <<mapRow, station, line, stops, torn, stray>>
    /\ Goes(r, [editing[r] EXCEPT !.step = "emptied",
                   !.erased = {e \in stops : e[2] \in LinesOf(line, editing[r].map)}])

\* Mistake: the lines of the map stay.
RemoveMapOnly(r) ==
    LET m == editing[r].map IN
    /\ editing[r].step = "emptied"
    /\ mapRow' = [mapRow EXCEPT ![m] = IF @ = "live" THEN "deleted" ELSE @]
    /\ UNCHANGED <<station, line, stops, torn, stray>>
    /\ Answered(r)

\* ... and its lines and its row are deleted.
RemoveTrainStationMap(r) ==
    LET e == editing[r]
        m == e.map
        gone == LinesOf(line, m)
    IN  /\ e.step = "emptied"
        /\ line' = [l \in LineId |-> IF l \in gone THEN NoLine ELSE line[l]]
        /\ stops' = stops \ e.erased
        /\ mapRow' = [mapRow EXCEPT ![m] = IF @ = "live" THEN "deleted" ELSE @]
        /\ torn' = IF e.overtaken THEN torn \cup Doubtful(r, gone) ELSE torn
        /\ stray' = IF e.overtaken THEN stray \cup {m} ELSE stray
        /\ UNCHANGED station
        /\ Answered(r)

-----------------------------------------------------------------------------
(* IntegrationUpdateStationHandler                                         *)

\* The station is read, ...
ReadStation(r, s) ==
    /\ ~Busy(r)
    /\ station[s].status = "live"
    /\ UNCHANGED <<mapRow, station, line, stops, torn, stray>>
    /\ Goes(r, [NotEditing EXCEPT !.step = "save", !.map = station[s].map,
                                  !.id = s, !.row = station[s]])

\* ... and saved, all columns of it, with the line_info of the request if
\* there is one.  A station deleted meanwhile comes back, or the request ends.
SaveStation(r) ==
    LET e == editing[r]
        s == e.id
    IN  /\ e.step = "save"
        /\ Unlocked(r, {s})
        /\ UNCHANGED <<mapRow, line, stops>>
        /\ stray' = IF e.overtaken THEN stray \cup {e.map} ELSE stray
        /\ \/ /\ station' = [station EXCEPT ![s] = e.row]
              /\ torn' = IF e.overtaken THEN torn \cup {s} ELSE torn
              /\ Answered(r)
           \/ \E info \in LineInfo :
                 /\ station' = [station EXCEPT ![s] = [e.row EXCEPT !.info = info]]
                 /\ torn' = torn \cup {s}
                 /\ Goes(r, [e EXCEPT !.step = "relines", !.row = station'[s]])

\* Then its lines are replaced, with UpdateTrainStationLines.
RelineStation(r) ==
    LET e == editing[r] IN
    /\ e.step = "relines"
    /\ e.row.info # Odd
    /\ \E s \in Found(e.map, e.row.ident) : StartLines(r, s, station[s], {}, e.row.info)

-----------------------------------------------------------------------------
(* Start of the server                                                     *)

\* SeedTrainStationData: the lines of all stations of the map are erased, and
\* those of the data are written again.  lines: identifiers in the data, with
\* their lines.
SeedTrainStationData(m, lines) ==
    LET seeded == DOMAIN lines
        erased == [l \in LineId |-> IF l \in LinesOf(line, m) THEN NoLine ELSE line[l]]
        kept == {e \in stops : e[1] \notin LiveOf(m)}
        free == {l \in LineId : erased[l] = NoLine /\ \A e \in kept : e[2] # l}
    IN  \E row \in [seeded -> StationId] :
           /\ \A i, k \in seeded : row[i] = row[k] => i = k
           /\ \A i \in seeded : IF Found(m, i) = {}
                                 THEN station[row[i]].status # "live" /\ StopsAt(row[i]) = {}
                                 ELSE row[i] \in Found(m, i)
           /\ line' \in WithNew(erased, free, m, UNION {lines[i] : i \in seeded})
           /\ stops' = kept \cup {e \in StationId \X LineId :
                                    \E i \in seeded : /\ row[i] = e[1]
                                                     /\ \E n \in lines[i] : line'[e[2]] = <<m, n>>}
           /\ station' = [s \in StationId |->
                            IF \E i \in seeded : row[i] = s
                            THEN LET i == CHOOSE k \in seeded : row[k] = s
                                 IN  [status |-> "live", map |-> m, ident |-> i,
                                      info |-> lines[i]]
                            ELSE station[s]]
           /\ torn' = (torn \cup LiveOf(m)) \ {row[i] : i \in seeded}

\* The process ends and starts again, with other data for map m perhaps.  No
\* request is served before the data is in.
RestartWithSeed(m) ==
    /\ \/ \E seeded \in SUBSET Ident : \E lines \in [seeded -> SUBSET LineName] :
             SeedTrainStationData(m, lines)
       \/ UNCHANGED <<station, line, stops, torn>>
    /\ editing' = [r \in StationRequest |-> NotEditing]
    /\ stray' = IF mapRow[m] = "deleted" THEN stray \cup {m} ELSE stray
    /\ UNCHANGED mapRow

StationNext ==
    \/ \E r \in StationRequest :
          \/ \E m \in StationMap :
                \/ \E step \in {"idle", "upsert", "lines", "catalog"} : EnsureMap(r, m, step)
                \/ ReadMap(r, m) \/ RenameTrainStationMap(r, m) \/ CountStations(r, m)
          \/ \E i \in Ident, names \in SUBSET LineName : UpsertTrainStation(r, i, names)
          \/ \E s \in StationId :
                \/ \E names \in SUBSET LineName : UpdateTrainStationLines(r, s, names)
                \/ ReadStation(r, s)
          \/ \E n \in LineName : EnsureLine(r, n)
          \/ DeriveColumn(r) \/ CommitLines(r)
          \/ ReadCatalog(r) \/ EraseStops(r) \/ RebuildLineInfo(r) \/ CommitCatalog(r)
          \/ MoveStations(r) \/ EmptyMap(r) \/ RemoveTrainStationMap(r)
          \/ SaveStation(r) \/ RelineStation(r) \/ EndRequest(r)
    \/ \E s \in StationId : RemoveTrainStation(s)
    \/ \E m \in StationMap : CreateTrainStationMap(m)
    \/ \E m \in SeededMap : RestartWithSeed(m)

StationSpec == StationInit /\ [][StationNext]_stationVars

-----------------------------------------------------------------------------
(* Properties                                                              *)

StationLive(s) == station[s].status = "live"

\* The column of a station says what the relation says: whatever names lines
\* get and lose in the catalogue, and whoever replaces the lines of a station,
\* unless another has changed what the last to write it had in hand.
LineInfoDerived ==
    \A s \in StationId \ torn :
        StationLive(s) => station[s].info = Derived(Names(line), stops, s)

\* The lines of a station are in the catalogue, and in that of its map, also
\* after the map has got another name; with the same exception.
LinesOfOwnMap ==
    \A s \in StationId \ torn, l \in LineId :
        StationLive(s) /\ <<s, l>> \in stops => line[l] # NoLine /\ line[l][1] = station[s].map

\* Nothing is left of a map that was removed: else no list of maps could be
\* had any more, for the name of the map is taken and it cannot be created.
\* Maps removed or filled by a request that was overtaken are excepted.
NothingOfDeletedMap ==
    \A m \in StationMap \ stray :
        mapRow[m] = "deleted" =>
            LiveOf(m) = {} /\ LinesOf(line, m) = {}

\* The relation, the column that is derived from it and the catalogue agree.
LinesAgree == LineInfoDerived /\ LinesOfOwnMap

===============================================================================
