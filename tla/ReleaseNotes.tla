------------------------------ MODULE ReleaseNotes ------------------------------
(***************************************************************************)
(* Release notes (service/release_note_admin.go, service/release_note.go,  *)
(* prepareReleaseNote in server.go, scripts/backfill_release_notes.go).    *)
(*                                                                         *)
(* Administrators write, publish and withdraw notes.  Rows from before     *)
(* there was a publish state are published by whoever lists notes, or by a *)
(* script.  All of them read rows and save them whole later.  Clients ask  *)
(* for the latest note, in the order of semantic versions.                 *)
(***************************************************************************)
EXTENDS Naturals, Sequences, FiniteSets, SequencesExt

CONSTANTS
    MaxNotes,    \* rows of release_notes (bound)
    Version,     \* versions: three numbers, and the parts of a pre-release
    NoVersion,   \* a version that is not semantic
    AppVersion,  \* the versions of the program
    NoteRequest  \* requests and scripts that run at the same time

Note == 1 .. MaxNotes  \* in the order of created_at

\* A part of a pre-release is a number or a word, v is its place in the order.
PrePart == [number : BOOLEAN, v : Nat]

SemanticVersion == [main : Nat \X Nat \X Nat, pre : Seq(PrePart)]

ASSUME NoteAssumption ==
    /\ MaxNotes \in Nat
    /\ Version \subseteq SemanticVersion
    /\ NoVersion \notin Version
    /\ AppVersion \subseteq Version

VARIABLES
    note,     \* release_notes
    app,      \* constant.AppVersion of the build that runs
    editor,   \* local variables of each request
    decided,  \* the state an administrator last gave to each note (history)
    raced     \* notes saved from a copy that was not up to date (history)

noteVars == <<note, app, editor, decided, raced>>

\* whole: content, content_format and notes_format are not blank; the other rows
\* have notes that these are made from.
NoteRow == [live : BOOLEAN, version : Version \cup {NoVersion},
            state : {"", "draft", "published"}, dated : BOOLEAN, whole : BOOLEAN]

NoNote == [live |-> FALSE, version |-> NoVersion, state |-> "", dated |-> FALSE,
           whole |-> FALSE]

Editor == [step : {"idle", "save", "legacy", "backfill"},
           todo : SUBSET [id : Note, row : NoteRow]]

NotEditingNote == [step |-> "idle", todo |-> {}]

NoteTypeOK ==
    /\ note \in [Note -> NoteRow]
    /\ \A n \in Note : note[n].state = "published" => note[n].dated
    /\ app \in AppVersion
    /\ editor \in [NoteRequest -> Editor]
    /\ decided \in [Note -> {"none", "draft", "published"}]
    /\ raced \subseteq Note

-----------------------------------------------------------------------------
(* The order of versions                                                   *)

Sign(a, b) == IF a > b THEN 1 ELSE IF a < b THEN 0 - 1 ELSE 0

FirstOf(S) == CHOOSE i \in S : \A k \in S : i <= k

\* One step of the loop of comparePreRelease.
ComparePart(a, b, i) ==
    IF i > Len(a) THEN 0 - 1
    ELSE IF i > Len(b) THEN 1
    ELSE IF a[i].number = b[i].number THEN Sign(a[i].v, b[i].v)
    ELSE IF a[i].number THEN 0 - 1 ELSE 1

ComparePreRelease(a, b) ==
    LET differ == {i \in DOMAIN a \cup DOMAIN b : ComparePart(a, b, i) # 0}
    IN  IF differ = {} THEN 0 ELSE ComparePart(a, b, FirstOf(differ))

CompareSemver(a, b) ==
    LET differ == {i \in 1 .. 3 : a.main[i] # b.main[i]}
    IN  IF differ # {} THEN Sign(a.main[FirstOf(differ)], b.main[FirstOf(differ)])
        ELSE IF a.pre = <<>> THEN IF b.pre = <<>> THEN 0 ELSE 1
        ELSE IF b.pre = <<>> THEN 0 - 1 ELSE ComparePreRelease(a.pre, b.pre)

-----------------------------------------------------------------------------
(* Listing                                                                 *)

\* Mistake: a draft has no date either.
IsLegacyByDate(row) == row.live /\ ~row.dated

\* Rows that normalizeLegacyReleaseNotePublishState selects.
IsLegacy(row) == row.live /\ row.state = "" /\ ~row.dated

\* Notes that GetAllReleaseNote returns, in some order.
ShownNotes == {n \in Note : note[n].live /\ note[n].state \in {"published", ""}}

\* Mistake: a note without a version is never replaced.
NewerOfVersions(latest, item) ==
    LET v == note[latest].version
        w == note[item].version
    IN  IF \/ v # NoVersion /\ w # NoVersion /\ CompareSemver(w, v) > 0
           \/ v = NoVersion /\ w = NoVersion /\ item > latest
        THEN item ELSE latest

\* One step of the loop of GetLatestReleaseNote.
Newer(latest, item) ==
    LET v == note[latest].version
        w == note[item].version
    IN  IF \/ v # NoVersion /\ w # NoVersion /\ CompareSemver(w, v) > 0
           \/ v = NoVersion /\ w # NoVersion
           \/ v = NoVersion /\ w = NoVersion /\ item > latest
        THEN item ELSE latest

GetLatest(list) ==
    LET latest[i \in 1 .. Len(list)] ==
          IF i = 1 THEN list[1] ELSE Newer(latest[i - 1], list[i])
    IN  latest[Len(list)]

-----------------------------------------------------------------------------
(* Requests                                                                *)

\* Legacy rows may be there from the beginning.
NoteInit ==
    /\ note \in [Note -> {NoNote} \cup [live : {TRUE}, version : Version \cup {NoVersion},
                                       state : {""}, dated : {FALSE}, whole : {FALSE}]]
    /\ app \in AppVersion
    /\ editor = [r \in NoteRequest |-> NotEditingNote]
    /\ decided = [n \in Note |-> "none"]
    /\ raced = {}

Editors(n) == {r \in NoteRequest : \E e \in editor[r].todo : e.id = n}

\* The id of a new row is higher than any other that is still in use.
NextNote(n) == \A k \in Note : k >= n => ~note[k].live /\ Editors(k) = {}

NewNote(n, version, state) ==
    /\ NextNote(n)
    /\ note' = [note EXCEPT ![n] = [live |-> TRUE, version |-> version, state |-> state,
                                    dated |-> state = "published", whole |-> TRUE]]

\* AdminCreateReleaseNoteHandler: for the version that runs.
CreateNote(n, version, state) ==
    /\ CompareSemver(version, app) = 0
    /\ NewNote(n, version, state)
    /\ decided' = [decided EXCEPT ![n] = state]
    /\ raced' = raced \ {n}
    /\ UNCHANGED <<app, editor>>

\* getReleaseNoteByIDParam, in the handlers that change a note.
ReadNote(r, n) ==
    /\ editor[r].step = "idle"
    /\ note[n].live
    /\ editor' = [editor EXCEPT ![r] = [step |-> "save", todo |-> {[id |-> n, row |-> note[n]]}]]
    /\ UNCHANGED <<note, app, decided, raced>>

\* The row a handler saves: AdminUpdateReleaseNoteHandler writes all of it, and
\* may give it another version if that is not older than the program;
\* AdminPublishReleaseNoteHandler and its counterpart change its state.
Edited(row, state) ==
    {[row EXCEPT !.state = state, !.dated = state = "published"]}
      \cup {[row EXCEPT !.state = state, !.dated = state = "published", !.whole = TRUE,
                        !.version = v] :
              v \in {w \in Version : w = row.version \/ CompareSemver(w, app) >= 0}}

\* The whole row is saved.  A row that was deleted is there again, or the
\* request is refused.
SaveRowOf(e, row) == note' = [note EXCEPT ![e.id] = row]

Stale(e) == note[e.id] # e.row

SaveNote(r) ==
    /\ editor[r].step = "save"
    /\ \E e \in editor[r].todo, state \in {"draft", "published"} :
          /\ \E row \in Edited(e.row, state) : SaveRowOf(e, row)
          /\ decided' = [decided EXCEPT ![e.id] = state]
          /\ raced' = IF Stale(e) THEN raced \cup {e.id} ELSE raced \ {e.id}
    /\ editor' = [editor EXCEPT ![r] = NotEditingNote]
    /\ UNCHANGED app

DeleteNote(n) ==
    /\ note[n].live
    /\ note' = [note EXCEPT ![n] = NoNote]
    /\ UNCHANGED <<app, editor, decided, raced>>

\* Whoever lists notes: legacy rows are selected, ...
SelectLegacy(r) ==
    /\ editor[r].step = "idle"
    /\ editor' = [editor EXCEPT ![r] =
                    [step |-> "legacy",
                     todo |-> {[id |-> n, row |-> note[n]] : n \in {k \in Note : IsLegacy(note[k])}}]]
    /\ UNCHANGED <<note, app, decided, raced>>

\* ... and those that are not newer than the program are saved as published.
PublishLegacy(r) ==
    /\ editor[r].step = "legacy"
    /\ \E e \in editor[r].todo :
          /\ e.row.version # NoVersion /\ CompareSemver(e.row.version, app) <= 0
          /\ SaveRowOf(e, [e.row EXCEPT !.state = "published", !.dated = TRUE])
          /\ raced' = IF Stale(e) THEN raced \cup {e.id} ELSE raced
          /\ editor' = [editor EXCEPT ![r].todo = @ \ {e}]
    /\ UNCHANGED <<app, decided>>

\* BackfillLegacyReleaseNotes: rows that are not whole are read, ...
SelectBlank(r) ==
    /\ editor[r].step = "idle"
    /\ editor' = [editor EXCEPT ![r] =
                    [step |-> "backfill",
                     todo |-> {[id |-> n, row |-> note[n]] :
                                 n \in {k \in Note : note[k].live /\ ~note[k].whole}}]]
    /\ UNCHANGED <<note, app, decided, raced>>

\* Mistake: only a row without a state gets a date.
BackfilledUndated(row) ==
    [row EXCEPT !.whole = TRUE, !.state = IF @ = "" THEN "published" ELSE @]

Backfilled(row) ==
    LET state == IF row.state = "" THEN "published" ELSE row.state
    IN  [row EXCEPT !.whole = TRUE, !.state = state,
                    !.dated = row.dated \/ state = "published"]

\* ... and saved, whatever their version.
SaveBackfilled(r) ==
    /\ editor[r].step = "backfill"
    /\ \E e \in editor[r].todo :
          /\ SaveRowOf(e, Backfilled(e.row))
          /\ raced' = IF Stale(e) THEN raced \cup {e.id} ELSE raced
          /\ editor' = [editor EXCEPT ![r].todo = @ \ {e}]
    /\ UNCHANGED <<app, decided>>

\* Nothing is left to do, or a call of the database fails.
EndNoteRequest(r) ==
    /\ editor[r].step # "idle"
    /\ editor' = [editor EXCEPT ![r] = NotEditingNote]
    /\ UNCHANGED <<note, app, decided, raced>>

\* Another build of the program starts, and prepareReleaseNote adds a note for
\* it if it is told to and there is none.
StartBuild(v) ==
    /\ app' = v
    /\ editor' = [r \in NoteRequest |-> NotEditingNote]
    /\ \/ UNCHANGED <<note, decided, raced>>
       \/ /\ \A n \in Note : note[n].live => note[n].version # v
          /\ \E n \in Note :
                /\ NewNote(n, v, "published")
                /\ decided' = [decided EXCEPT ![n] = "none"]
                /\ raced' = raced \ {n}

NoteNext ==
    \/ \E n \in Note, v \in Version, state \in {"draft", "published"} : CreateNote(n, v, state)
    \/ \E r \in NoteRequest, n \in Note : ReadNote(r, n)
    \/ \E r \in NoteRequest :
          \/ SaveNote(r) \/ SelectLegacy(r) \/ PublishLegacy(r)
          \/ SelectBlank(r) \/ SaveBackfilled(r) \/ EndNoteRequest(r)
    \/ \E n \in Note : DeleteNote(n)
    \/ \E v \in AppVersion : StartBuild(v)

NoteSpec == NoteInit /\ [][NoteNext]_noteVars

-----------------------------------------------------------------------------
(* Properties                                                              *)

\* What an administrator has decided holds: neither a visitor who lists the
\* notes nor the script publishes a draft or withdraws a note, but for one who
\* had read the row before the decision.
DecisionKept ==
    \A n \in Note \ raced :
        note[n].live /\ decided[n] # "none" => note[n].state = decided[n]

\* Numbers come before words.
PartPrecedes(a, b) ==
    \/ a.number /\ ~b.number
    \/ a.number = b.number /\ a.v < b.v

\* The precedence of semantic versions: the first difference decides, a
\* pre-release comes before its release, and a longer pre-release comes after
\* its beginning.
Precedes(v, w) ==
    \/ \E i \in 1 .. 3 : /\ \A k \in 1 .. i - 1 : v.main[k] = w.main[k]
                         /\ v.main[i] < w.main[i]
    \/ /\ v.main = w.main
       /\ v.pre # <<>>
       /\ \/ w.pre = <<>>
          \/ IsStrictPrefix(v.pre, w.pre)
          \/ \E i \in DOMAIN v.pre \cap DOMAIN w.pre :
                /\ \A k \in 1 .. i - 1 : v.pre[k] = w.pre[k]
                /\ PartPrecedes(v.pre[i], w.pre[i])

\* The latest note has the greatest version of all that are shown, and is the
\* newest if none has a version, in whatever order the table returns them.
LatestIsGreatest ==
    \A list \in [1 .. Cardinality(ShownNotes) -> ShownNotes] :
        IsInjective(list) /\ list # <<>> =>
            LET latest == GetLatest(list) IN
            \A n \in ShownNotes :
                IF note[latest].version = NoVersion
                THEN note[n].version = NoVersion /\ n <= latest
                ELSE note[n].version # NoVersion => ~Precedes(note[latest].version, note[n].version)
===============================================================================
