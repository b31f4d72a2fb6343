---------------------------- MODULE NoteProofs ----------------------------
(*****************************************************************************)
(* Release notes, for any number of notes and requests, and versions of any  *)
(* length: what an administrator decides holds, and the latest note has the  *)
(* greatest version.                                                         *)
(*****************************************************************************)
EXTENDS MCNotes, MarkerScheduleProofs, FiniteSetTheorems, WellFoundedInduction, TLAPS

-----------------------------------------------------------------------------
(* States of notes                                                         *)

\* The rows that a request has in hand were there when it read them; those that
\* a visitor publishes had no state.
TodoOK(r) ==
    \A e \in editor[r].todo :
       e.row.live /\ (editor[r].step = "legacy" => e.row.state = "")

NoteIInv ==
    /\ NoteTypeOK
    /\ \A r \in NoteRequest : TodoOK(r)
    /\ DecisionKept

\* What a request has in hand.
LEMMA TodoType ==
    ASSUME NoteIInv, NEW r \in NoteRequest, NEW e \in editor[r].todo
    PROVE  /\ e.id \in Note /\ e.row \in NoteRow /\ e.row.live
           /\ editor[r].step = "legacy" => e.row.state = ""
<1>1. editor[r] \in Editor
  BY DEF NoteIInv, NoteTypeOK
<1>2. e \in [id : Note, row : NoteRow]
  BY <1>1 DEF Editor
<1> QED BY <1>2 DEF NoteIInv, TodoOK

\* A request takes rows, or leaves some.
LEMMA EditorTakes ==
    ASSUME NoteIInv, NEW r \in NoteRequest, NEW c \in Editor, editor' = [editor EXCEPT ![r] = c],
           \A e \in c.todo : e.row.live /\ (c.step = "legacy" => e.row.state = "")
    PROVE  /\ editor' \in [NoteRequest -> Editor]
           /\ \A q \in NoteRequest : TodoOK(q)'
<1>1. editor' \in [NoteRequest -> Editor]
  BY DEF NoteIInv, NoteTypeOK
<1>2. ASSUME NEW q \in NoteRequest PROVE TodoOK(q)'
  <2>1. editor'[q] = IF q = r THEN c ELSE editor[q]
    BY DEF NoteIInv, NoteTypeOK
  <2> QED BY <2>1 DEF TodoOK, NoteIInv
<1> QED BY <1>1, <1>2

\* Reading changes nothing else.
LEMMA OnlyReads ==
    ASSUME NoteIInv, note' = note, app' = app, decided' = decided, raced' = raced,
           editor' \in [NoteRequest -> Editor], \A q \in NoteRequest : TodoOK(q)'
    PROVE  NoteIInv'
<1>1. NoteTypeOK' /\ DecisionKept'
  BY DEF NoteIInv, NoteTypeOK, DecisionKept
<1> QED BY <1>1 DEF NoteIInv

\* One row is saved, and the state it is given is the one that was decided.
LEMMA OneRow ==
    ASSUME NoteIInv, NEW n \in Note, NEW row \in NoteRow,
           row.state = "published" => row.dated,
           note' = [note EXCEPT ![n] = row], app' \in AppVersion,
           NEW d \in {"none", "draft", "published"}, decided' = [decided EXCEPT ![n] = d],
           raced' \subseteq Note, \A k \in Note : k \in raced' \/ k \notin raced \/ k = n,
           n \in raced' \/ ~row.live \/ d = "none" \/ row.state = d,
           editor' \in [NoteRequest -> Editor], \A q \in NoteRequest : TodoOK(q)'
    PROVE  NoteIInv'
<1>1. NoteTypeOK'
  BY DEF NoteIInv, NoteTypeOK
<1>2. DecisionKept'
  <2> SUFFICES ASSUME NEW k \in Note \ raced', note'[k].live, decided'[k] # "none"
               PROVE  note'[k].state = decided'[k]
    BY DEF DecisionKept
  <2>1. CASE k = n
    BY <2>1 DEF NoteIInv, NoteTypeOK
  <2>2. CASE k # n
    BY <2>2 DEF NoteIInv, NoteTypeOK, DecisionKept
  <2> QED BY <2>1, <2>2
<1> QED BY <1>1, <1>2 DEF NoteIInv

LEMMA NoteInitial == NoteAssumption /\ NoteInit => NoteIInv
<1> SUFFICES ASSUME NoteInit PROVE NoteIInv
  OBVIOUS
<1>1. NotEditingNote \in Editor /\ NotEditingNote.todo = {}
  BY DEF NotEditingNote, Editor
<1>2. NoNote \in NoteRow /\ NoNote.state = ""
  BY DEF NoNote, NoteRow
<1>3. [live : {TRUE}, version : Version \cup {NoVersion}, state : {""}, dated : {FALSE},
       whole : {FALSE}] \subseteq NoteRow
  BY DEF NoteRow
<1>4. \A n \in Note : note[n] \in NoteRow /\ note[n].state = ""
  BY <1>2 DEF NoteInit, NoteRow
<1>5. NoteTypeOK
  <2>1. note \in [Note -> NoteRow]
    BY <1>2, <1>3 DEF NoteInit
  <2> QED BY <1>1, <1>4, <2>1 DEF NoteInit, NoteTypeOK
<1>6. \A r \in NoteRequest : TodoOK(r)
  BY <1>1 DEF NoteInit, TodoOK
<1>7. DecisionKept
  BY DEF NoteInit, DecisionKept
<1> QED BY <1>5, <1>6, <1>7 DEF NoteIInv

LEMMA CreateNoteKeeps ==
    ASSUME NoteIInv, NEW n \in Note, NEW v \in Version, NEW state \in {"draft", "published"},
           CreateNote(n, v, state)
    PROVE  NoteIInv'
<1> DEFINE row == [live |-> TRUE, version |-> v, state |-> state, dated |-> state = "published",
                   whole |-> TRUE]
<1>1. row \in NoteRow /\ row.state = state /\ row.dated = (state = "published")
  BY DEF NoteRow
<1>2. note' = [note EXCEPT ![n] = row] /\ decided' = [decided EXCEPT ![n] = state]
      /\ raced' = raced \ {n} /\ app' = app /\ editor' = editor
  BY DEF CreateNote, NewNote
<1>3. app' \in AppVersion /\ editor' \in [NoteRequest -> Editor] /\ raced' \subseteq Note
      /\ \A q \in NoteRequest : TodoOK(q)'
  BY <1>2 DEF NoteIInv, NoteTypeOK, TodoOK
<1> HIDE DEF row
<1> QED BY <1>1, <1>2, <1>3, OneRow

LEMMA ReadNoteKeeps ==
    ASSUME NoteIInv, NEW r \in NoteRequest, NEW n \in Note, ReadNote(r, n)
    PROVE  NoteIInv'
<1> DEFINE c == [step |-> "save", todo |-> {[id |-> n, row |-> note[n]]}]
<1>1. note[n] \in NoteRow /\ note[n].live
  BY DEF NoteIInv, NoteTypeOK, ReadNote
<1>2. c \in Editor /\ c.step = "save" /\ \A e \in c.todo : e.row.live
  BY <1>1 DEF Editor
<1>3. editor' = [editor EXCEPT ![r] = c]
  BY DEF ReadNote
<1> HIDE DEF c
<1>4. editor' \in [NoteRequest -> Editor] /\ \A q \in NoteRequest : TodoOK(q)'
  BY <1>2, <1>3, EditorTakes
<1> QED BY <1>4, OnlyReads DEF ReadNote

LEMMA SelectLegacyKeeps ==
    ASSUME NoteIInv, NEW r \in NoteRequest, SelectLegacy(r)
    PROVE  NoteIInv'
<1> DEFINE c == [step |-> "legacy",
                 todo |-> {[id |-> n, row |-> note[n]] : n \in {k \in Note : IsLegacy(note[k])}}]
<1>1. \A n \in Note : note[n] \in NoteRow
  BY DEF NoteIInv, NoteTypeOK
<1>2. c \in Editor /\ \A e \in c.todo : e.row.live /\ e.row.state = ""
  <2>1. ASSUME NEW e \in c.todo
        PROVE  e \in [id : Note, row : NoteRow] /\ e.row.live /\ e.row.state = ""
    <3>1. PICK n \in Note : IsLegacy(note[n]) /\ e = [id |-> n, row |-> note[n]]
      OBVIOUS
    <3> QED BY <1>1, <3>1 DEF IsLegacy
  <2>2. c.todo \subseteq [id : Note, row : NoteRow]
    BY <2>1
  <2> QED BY <2>1, <2>2 DEF Editor
<1>3. editor' = [editor EXCEPT ![r] = c]
  BY DEF SelectLegacy
<1> HIDE DEF c
<1>4. editor' \in [NoteRequest -> Editor] /\ \A q \in NoteRequest : TodoOK(q)'
  BY <1>2, <1>3, EditorTakes
<1> QED BY <1>4, OnlyReads DEF SelectLegacy

LEMMA SelectBlankKeeps ==
    ASSUME NoteIInv, NEW r \in NoteRequest, SelectBlank(r)
    PROVE  NoteIInv'
<1> DEFINE c == [step |-> "backfill",
                 todo |-> {[id |-> n, row |-> note[n]] :
                                 n \in {k \in Note : note[k].live /\ ~note[k].whole}}]
<1>1. \A n \in Note : note[n] \in NoteRow
  BY DEF NoteIInv, NoteTypeOK
<1>2. c \in Editor /\ c.step # "legacy" /\ \A e \in c.todo : e.row.live
  BY <1>1 DEF Editor
<1>3. editor' = [editor EXCEPT ![r] = c]
  BY DEF SelectBlank
<1> HIDE DEF c
<1>4. editor' \in [NoteRequest -> Editor] /\ \A q \in NoteRequest : TodoOK(q)'
  BY <1>2, <1>3, EditorTakes
<1> QED BY <1>4, OnlyReads DEF SelectBlank

\* Everything a request has in hand is dropped.
LEMMA NothingInHand ==
    /\ NotEditingNote \in Editor
    /\ \A e \in NotEditingNote.todo : e.row.live /\ (NotEditingNote.step = "legacy" => e.row.state = "")
  BY DEF NotEditingNote, Editor

LEMMA EndNoteRequestKeeps ==
    ASSUME NoteIInv, NEW r \in NoteRequest, EndNoteRequest(r)
    PROVE  NoteIInv'
<1>1. editor' = [editor EXCEPT ![r] = NotEditingNote]
  BY DEF EndNoteRequest
<1>2. editor' \in [NoteRequest -> Editor] /\ \A q \in NoteRequest : TodoOK(q)'
  BY <1>1, NothingInHand, EditorTakes
<1> QED BY <1>2, OnlyReads DEF EndNoteRequest

LEMMA SaveNoteKeeps ==
    ASSUME NoteIInv, NEW r \in NoteRequest, SaveNote(r)
    PROVE  NoteIInv'
<1>1. PICK e \in editor[r].todo, state \in {"draft", "published"} :
          /\ \E row \in Edited(e.row, state) : SaveRowOf(e, row)
          /\ decided' = [decided EXCEPT ![e.id] = state]
          /\ raced' = IF Stale(e) THEN raced \cup {e.id} ELSE raced \ {e.id}
  BY DEF SaveNote
<1>2. PICK row \in Edited(e.row, state) : note' = [note EXCEPT ![e.id] = row]
  BY <1>1 DEF SaveRowOf
<1>3. e.id \in Note /\ e.row \in NoteRow
  BY TodoType
<1>4. row \in NoteRow /\ row.state = state /\ row.dated = (state = "published")
  BY <1>3 DEF Edited, NoteRow
<1>5. editor' = [editor EXCEPT ![r] = NotEditingNote] /\ app' = app
  BY DEF SaveNote
<1>6. editor' \in [NoteRequest -> Editor] /\ \A q \in NoteRequest : TodoOK(q)'
  BY <1>5, NothingInHand, EditorTakes
<1>7. app' \in AppVersion /\ raced' \subseteq Note
      /\ \A k \in Note : k \in raced' \/ k \notin raced \/ k = e.id
  BY <1>1, <1>3, <1>5 DEF NoteIInv, NoteTypeOK
<1>8. state \in {"none", "draft", "published"}
  OBVIOUS
<1> QED BY <1>1, <1>2, <1>3, <1>4, <1>6, <1>7, <1>8, OneRow

\* A row in hand is saved without a decision.
LEMMA SavedUndecided ==
    ASSUME NoteIInv, NEW r \in NoteRequest, NEW e \in editor[r].todo, NEW row \in NoteRow,
           row.state = "published" => row.dated,
           SaveRowOf(e, row),
           raced' = IF Stale(e) THEN raced \cup {e.id} ELSE raced,
           editor' = [editor EXCEPT ![r].todo = @ \ {e}],
           app' = app, decided' = decided,
           e.row.state # "" => row.state = e.row.state
    PROVE  NoteIInv'
<1>1. e.id \in Note /\ e.row \in NoteRow /\ e.row.live /\ editor[r] \in Editor
  BY TodoType DEF NoteIInv, NoteTypeOK
<1> DEFINE c == [editor[r] EXCEPT !.todo = @ \ {e}]
<1>2. c \in Editor /\ c.step = editor[r].step /\ c.todo \subseteq editor[r].todo
  BY <1>1 DEF Editor
<1>3. editor' = [editor EXCEPT ![r] = c]
  BY DEF NoteIInv, NoteTypeOK
<1> HIDE DEF c
<1>4. \A f \in c.todo : f.row.live /\ (c.step = "legacy" => f.row.state = "")
  BY <1>2, TodoType
<1>5. editor' \in [NoteRequest -> Editor] /\ \A q \in NoteRequest : TodoOK(q)'
  BY <1>2, <1>3, <1>4, EditorTakes
<1> DEFINE d == decided[e.id]
<1>6. d \in {"none", "draft", "published"} /\ decided' = [decided EXCEPT ![e.id] = d]
  BY <1>1 DEF NoteIInv, NoteTypeOK
<1>7. e.id \in raced' \/ d = "none" \/ row.state = d
  <2> SUFFICES ASSUME e.id \notin raced', d # "none" PROVE row.state = d
    OBVIOUS
  <2>1. note[e.id] = e.row /\ e.id \notin raced
    BY DEF Stale
  <2>2. e.row.state = d
    BY <1>1, <2>1 DEF NoteIInv, DecisionKept
  <2> QED BY <1>6, <2>2
<1>8. app' \in AppVersion /\ raced' \subseteq Note
      /\ \A k \in Note : k \in raced' \/ k \notin raced \/ k = e.id
  BY <1>1 DEF NoteIInv, NoteTypeOK
<1>9. note' = [note EXCEPT ![e.id] = row]
  BY DEF SaveRowOf
<1> HIDE DEF d
<1> QED BY <1>1, <1>5, <1>6, <1>7, <1>8, <1>9, OneRow

LEMMA PublishLegacyKeeps ==
    ASSUME NoteIInv, NEW r \in NoteRequest, PublishLegacy(r)
    PROVE  NoteIInv'
<1>1. PICK e \in editor[r].todo :
          /\ SaveRowOf(e, [e.row EXCEPT !.state = "published", !.dated = TRUE])
          /\ raced' = IF Stale(e) THEN raced \cup {e.id} ELSE raced
          /\ editor' = [editor EXCEPT ![r].todo = @ \ {e}]
  BY DEF PublishLegacy
<1> DEFINE row == [e.row EXCEPT !.state = "published", !.dated = TRUE]
<1>2. e.row \in NoteRow /\ e.row.state = ""
  BY TodoType DEF PublishLegacy
<1>3. row \in NoteRow /\ row.dated
  BY <1>2 DEF NoteRow
<1>4. app' = app /\ decided' = decided
  BY DEF PublishLegacy
<1> HIDE DEF row
<1>5. SaveRowOf(e, row)
  BY <1>1 DEF row
<1> QED BY <1>1, <1>2, <1>3, <1>4, <1>5, SavedUndecided

LEMMA SaveBackfilledKeeps ==
    ASSUME NoteIInv, NEW r \in NoteRequest, SaveBackfilled(r)
    PROVE  NoteIInv'
<1>1. PICK e \in editor[r].todo :
          /\ SaveRowOf(e, Backfilled(e.row))
          /\ raced' = IF Stale(e) THEN raced \cup {e.id} ELSE raced
          /\ editor' = [editor EXCEPT ![r].todo = @ \ {e}]
  BY DEF SaveBackfilled
<1>2. e.row \in NoteRow
  BY TodoType
<1>3. /\ Backfilled(e.row) \in NoteRow
      /\ Backfilled(e.row).state = "published" => Backfilled(e.row).dated
      /\ e.row.state # "" => Backfilled(e.row).state = e.row.state
  BY <1>2 DEF NoteRow, Backfilled
<1>4. app' = app /\ decided' = decided
  BY DEF SaveBackfilled
<1> QED BY <1>1, <1>2, <1>3, <1>4, SavedUndecided

LEMMA DeleteNoteKeeps ==
    ASSUME NoteIInv, NEW n \in Note, DeleteNote(n)
    PROVE  NoteIInv'
<1>1. NoNote \in NoteRow /\ NoNote.state = "" /\ ~NoNote.live
  BY DEF NoNote, NoteRow
<1>2. note' = [note EXCEPT ![n] = NoNote] /\ app' = app /\ editor' = editor
      /\ decided' = decided /\ raced' = raced
  BY DEF DeleteNote
<1>3. decided[n] \in {"none", "draft", "published"} /\ decided' = [decided EXCEPT ![n] = decided[n]]
  BY <1>2 DEF NoteIInv, NoteTypeOK
<1>4. app' \in AppVersion /\ editor' \in [NoteRequest -> Editor] /\ raced' \subseteq Note
      /\ \A q \in NoteRequest : TodoOK(q)'
  BY <1>2 DEF NoteIInv, NoteTypeOK, TodoOK
<1> QED BY <1>1, <1>2, <1>3, <1>4, OneRow

LEMMA StartBuildKeeps ==
    ASSUME NoteAssumption, NoteIInv, NEW v \in AppVersion, StartBuild(v)
    PROVE  NoteIInv'
<1>1. app' = v /\ editor' = [r \in NoteRequest |-> NotEditingNote]
  BY DEF StartBuild
<1>2. editor' \in [NoteRequest -> Editor] /\ \A q \in NoteRequest : TodoOK(q)'
  BY <1>1, NothingInHand DEF TodoOK
<1>3. CASE UNCHANGED <<note, decided, raced>>
  <2>1. NoteTypeOK' /\ DecisionKept'
    BY <1>1, <1>2, <1>3 DEF NoteIInv, NoteTypeOK, DecisionKept
  <2> QED BY <1>2, <2>1 DEF NoteIInv
<1>4. ASSUME NEW n \in Note, NewNote(n, v, "published"),
             decided' = [decided EXCEPT ![n] = "none"], raced' = raced \ {n}
      PROVE  NoteIInv'
  <2> DEFINE row == [live |-> TRUE, version |-> v, state |-> "published",
                     dated |-> "published" = "published", whole |-> TRUE]
  <2>1. v \in Version
    BY DEF NoteAssumption
  <2>2. row \in NoteRow /\ row.dated
    BY <2>1 DEF NoteRow
  <2>3. note' = [note EXCEPT ![n] = row]
    BY <1>4 DEF NewNote
  <2> HIDE DEF row
  <2>4. raced' \subseteq Note /\ \A k \in Note : k \in raced' \/ k \notin raced \/ k = n
    BY <1>4 DEF NoteIInv, NoteTypeOK
  <2> QED BY <1>1, <1>2, <1>4, <2>2, <2>3, <2>4, OneRow
<1> QED BY <1>3, <1>4 DEF StartBuild

LEMMA NoteStepKeeps == NoteIInv /\ [NoteNext]_noteVars => NoteIInv'
<1> SUFFICES ASSUME NoteIInv, [NoteNext]_noteVars PROVE NoteIInv'
  OBVIOUS
<1>1. CASE UNCHANGED noteVars
  BY <1>1 DEF noteVars, NoteIInv, NoteTypeOK, TodoOK, DecisionKept
<1>2. ASSUME NEW n \in Note, NEW v \in Version, NEW state \in {"draft", "published"},
             CreateNote(n, v, state)
      PROVE  NoteIInv'
  BY <1>2, CreateNoteKeeps
<1>3. ASSUME NEW r \in NoteRequest, NEW n \in Note, ReadNote(r, n) PROVE NoteIInv'
  BY <1>3, ReadNoteKeeps
<1>4. ASSUME NEW r \in NoteRequest, SaveNote(r) PROVE NoteIInv'
  BY <1>4, SaveNoteKeeps
<1>5. ASSUME NEW r \in NoteRequest, SelectLegacy(r) PROVE NoteIInv'
  BY <1>5, SelectLegacyKeeps
<1>6. ASSUME NEW r \in NoteRequest, PublishLegacy(r) PROVE NoteIInv'
  BY <1>6, PublishLegacyKeeps
<1>7. ASSUME NEW r \in NoteRequest, SelectBlank(r) PROVE NoteIInv'
  BY <1>7, SelectBlankKeeps
<1>8. ASSUME NEW r \in NoteRequest, SaveBackfilled(r) PROVE NoteIInv'
  BY <1>8, SaveBackfilledKeeps
<1>9. ASSUME NEW r \in NoteRequest, EndNoteRequest(r) PROVE NoteIInv'
  BY <1>9, EndNoteRequestKeeps
<1>10. ASSUME NEW n \in Note, DeleteNote(n) PROVE NoteIInv'
  BY <1>10, DeleteNoteKeeps
<1>11. ASSUME NEW v \in AppVersion, StartBuild(v) PROVE NoteIInv'
  BY <1>11, StartBuildKeeps, NoteAssumption
<1> QED BY <1>1, <1>2, <1>3, <1>4, <1>5, <1>6, <1>7, <1>8, <1>9, <1>10, <1>11 DEF NoteNext

\* In every state that is reached: types, and the notes that a request has still
\* to save were as it has them.
THEOREM NoteInvariant == NoteSpec => []NoteIInv
  BY NoteInitial, NoteStepKeeps, NoteAssumption, PTL DEF NoteSpec

\* What an administrator has decided about a note holds: no visitor's list, no
\* script and no new build undoes it, but for a request that had read the row
\* before the decision.
THEOREM DecisionsHold == NoteSpec => []DecisionKept
<1>1. NoteIInv => DecisionKept
  BY DEF NoteIInv
<1> QED BY <1>1, NoteInvariant, PTL

-----------------------------------------------------------------------------
(* Versions                                                                *)

LEMMA LeastElement ==
    ASSUME NEW S \in SUBSET Nat, S # {}
    PROVE  \E i \in S : \A k \in S : i <= k
<1>1. PICK i \in S : \A k \in S : ~(<<k, i>> \in OpToRel(<, Nat))
  BY NatLessThanWellFounded, WFMin
<1>2. ASSUME NEW k \in S PROVE i <= k
  <2>1. ~(k < i)
    BY <1>1 DEF OpToRel
  <2> QED BY <2>1
<1> QED BY <1>2

\* What holds of 1 and of the next number holds up to n.
LEMMA UpTo ==
    ASSUME NEW S, NEW n \in Nat, 1 \in S, \A i \in 1 .. n : i \in S /\ i < n => i + 1 \in S
    PROVE  1 .. n \subseteq S
<1> SUFFICES ASSUME NEW j \in (1 .. n) \ S PROVE FALSE
  OBVIOUS
<1> DEFINE T == (1 .. n) \ S
<1>1. T \in SUBSET Nat /\ T # {}
  OBVIOUS
<1>2. PICK i \in T : \A k \in T : i <= k
  BY <1>1, LeastElement
<1>3. i - 1 \in 1 .. n /\ i - 1 < n /\ i - 1 + 1 = i
  BY <1>2
<1>4. i - 1 \in S
  BY <1>2, <1>3
<1> QED BY <1>2, <1>3, <1>4

LEMMA FirstOfLeast ==
    ASSUME NEW S \in SUBSET Nat, S # {}
    PROVE  FirstOf(S) \in S /\ \A k \in S : FirstOf(S) <= k
  BY LeastElement DEF FirstOf

LEMMA SignPositive ==
    ASSUME NEW a \in Nat, NEW b \in Nat
    PROVE  (Sign(a, b) > 0 <=> b < a) /\ (Sign(a, b) = 0 <=> a = b)
  BY DEF Sign

LEMMA ComparePartIs ==
    ASSUME NEW a \in Seq(PrePart), NEW b \in Seq(PrePart), NEW i \in Nat \ {0}
    PROVE  /\ i > Len(a) => ComparePart(a, b, i) = 0 - 1
           /\ i <= Len(a) /\ i > Len(b) => ComparePart(a, b, i) = 1
           /\ i <= Len(a) /\ i <= Len(b) =>
                /\ ComparePart(a, b, i) = 0 <=> a[i] = b[i]
                /\ ComparePart(a, b, i) > 0 <=> PartPrecedes(b[i], a[i])
<1>1. CASE i > Len(a)
  BY <1>1 DEF ComparePart
<1>2. CASE i <= Len(a) /\ i > Len(b)
  BY <1>2 DEF ComparePart
<1>3. CASE i <= Len(a) /\ i <= Len(b)
  <2>1. a[i] \in PrePart /\ b[i] \in PrePart
    BY <1>3
  <2>2. /\ a[i].v \in Nat /\ b[i].v \in Nat /\ a[i].number \in BOOLEAN /\ b[i].number \in BOOLEAN
        /\ a[i] = b[i] <=> a[i].number = b[i].number /\ a[i].v = b[i].v
    <3>1. /\ a[i].v \in Nat /\ b[i].v \in Nat
          /\ a[i].number \in BOOLEAN /\ b[i].number \in BOOLEAN
      BY <2>1 DEF PrePart
    <3>2. /\ a[i] = [number |-> a[i].number, v |-> a[i].v]
          /\ b[i] = [number |-> b[i].number, v |-> b[i].v]
      BY <2>1 DEF PrePart
    <3> QED BY <3>1, <3>2
  <2>3. CASE a[i].number = b[i].number
    <3>1. ComparePart(a, b, i) = Sign(a[i].v, b[i].v)
      BY <1>3, <2>3 DEF ComparePart
    <3>2. PartPrecedes(b[i], a[i]) <=> b[i].v < a[i].v
      BY <2>3 DEF PartPrecedes
    <3> QED BY <1>3, <2>2, <2>3, <3>1, <3>2, SignPositive
  <2>4. CASE a[i].number # b[i].number
    <3>1. ComparePart(a, b, i) = IF a[i].number THEN 0 - 1 ELSE 1
      BY <1>3, <2>4 DEF ComparePart
    <3>2. PartPrecedes(b[i], a[i]) <=> ~a[i].number
      BY <2>2, <2>4 DEF PartPrecedes
    <3> QED BY <1>3, <2>2, <2>4, <3>1, <3>2
  <2> QED BY <2>3, <2>4
<1> QED BY <1>1, <1>2, <1>3

LEMMA PrefixIs ==
    ASSUME NEW a \in Seq(PrePart), NEW b \in Seq(PrePart)
    PROVE  /\ IsPrefix(a, b) <=> Len(a) <= Len(b) /\ \A k \in 1 .. Len(a) : a[k] = b[k]
           /\ IsStrictPrefix(a, b) <=> Len(a) < Len(b) /\ \A k \in 1 .. Len(a) : a[k] = b[k]
<1>1. Len(a) \in Nat /\ Len(b) \in Nat
  OBVIOUS
<1>2. ASSUME Len(a) <= Len(b)
      PROVE  SubSeq(a, 1, Len(a)) = SubSeq(b, 1, Len(a)) <=> \A k \in 1 .. Len(a) : a[k] = b[k]
  <2>1. SubSeq(a, 1, Len(a)) = [k \in 1 .. Len(a) |-> a[k]]
    BY <1>1
  <2>2. SubSeq(b, 1, Len(a)) = [k \in 1 .. Len(a) |-> b[k]]
    BY <1>1, <1>2
  <2> QED BY <2>1, <2>2
<1>3. IsPrefix(a, b) <=> Len(a) <= Len(b) /\ \A k \in 1 .. Len(a) : a[k] = b[k]
  BY <1>1, <1>2 DEF IsPrefix
<1>4. ASSUME IsPrefix(a, b) PROVE a = b <=> Len(a) = Len(b)
  BY <1>1, <1>3, <1>4
<1> QED BY <1>1, <1>3, <1>4 DEF IsStrictPrefix

\* The first difference of two pre-releases, one of which may end there.
FirstDifference(a, b, i) ==
    /\ i \in Nat \ {0}
    /\ \A k \in 1 .. i - 1 : k <= Len(a) /\ k <= Len(b) /\ a[k] = b[k]
    /\ \/ i = Len(a) + 1 /\ i <= Len(b)
       \/ i <= Len(a) /\ i <= Len(b) /\ PartPrecedes(a[i], b[i])

PrePrecedes(a, b) ==
    \/ IsStrictPrefix(a, b)
    \/ \E i \in DOMAIN a \cap DOMAIN b :
          (\A k \in 1 .. i - 1 : a[k] = b[k]) /\ PartPrecedes(a[i], b[i])

LEMMA PrePrecedesIs ==
    ASSUME NEW a \in Seq(PrePart), NEW b \in Seq(PrePart)
    PROVE  PrePrecedes(a, b) <=> \E i : FirstDifference(a, b, i)
<1>1. Len(a) \in Nat /\ Len(b) \in Nat /\ DOMAIN a = 1 .. Len(a) /\ DOMAIN b = 1 .. Len(b)
  OBVIOUS
<1>2. ASSUME IsStrictPrefix(a, b) PROVE FirstDifference(a, b, Len(a) + 1)
  BY <1>1, <1>2, PrefixIs DEF FirstDifference
<1>3. ASSUME NEW i \in DOMAIN a \cap DOMAIN b, \A k \in 1 .. i - 1 : a[k] = b[k],
             PartPrecedes(a[i], b[i])
      PROVE  FirstDifference(a, b, i)
  BY <1>1, <1>3 DEF FirstDifference
<1>4. ASSUME NEW i, FirstDifference(a, b, i) PROVE PrePrecedes(a, b)
  <2>1. CASE i = Len(a) + 1 /\ i <= Len(b)
    BY <1>1, <1>4, <2>1, PrefixIs DEF FirstDifference, PrePrecedes
  <2>2. CASE i <= Len(a) /\ i <= Len(b) /\ PartPrecedes(a[i], b[i])
    <3>1. i \in DOMAIN a \cap DOMAIN b /\ \A k \in 1 .. i - 1 : a[k] = b[k]
      BY <1>1, <1>4, <2>2 DEF FirstDifference
    <3> QED BY <2>2, <3>1 DEF PrePrecedes
  <2> QED BY <1>4, <2>1, <2>2 DEF FirstDifference
<1> QED BY <1>2, <1>3, <1>4 DEF PrePrecedes

LEMMA PrePrecedesTransitive ==
    ASSUME NEW a \in Seq(PrePart), NEW b \in Seq(PrePart), NEW c \in Seq(PrePart),
           PrePrecedes(a, b), PrePrecedes(b, c)
    PROVE  PrePrecedes(a, c)
<1>1. PICK i : FirstDifference(a, b, i)
  BY PrePrecedesIs
<1>2. PICK j : FirstDifference(b, c, j)
  BY PrePrecedesIs
<1>3. i \in Nat \ {0} /\ j \in Nat \ {0} /\ Len(a) \in Nat /\ Len(b) \in Nat /\ Len(c) \in Nat
  BY <1>1, <1>2 DEF FirstDifference
<1>4. CASE i < j
  <2>1. FirstDifference(a, c, i)
    BY <1>1, <1>2, <1>3, <1>4 DEF FirstDifference
  <2> QED BY <2>1, PrePrecedesIs
<1>5. CASE j < i
  <2>1. FirstDifference(a, c, j)
    BY <1>1, <1>2, <1>3, <1>5 DEF FirstDifference
  <2> QED BY <2>1, PrePrecedesIs
<1>6. CASE i = j
  <2>0. i <= Len(b) /\ j <= Len(c) /\ PartPrecedes(b[i], c[i])
    BY <1>1, <1>2, <1>3, <1>6 DEF FirstDifference
  <2>1. CASE i = Len(a) + 1
    <3>1. FirstDifference(a, c, i)
      BY <1>1, <1>2, <1>3, <1>6, <2>0, <2>1 DEF FirstDifference
    <3> QED BY <3>1, PrePrecedesIs
  <2>2. CASE i <= Len(a) /\ PartPrecedes(a[i], b[i])
    <3>1. a[i] \in PrePart /\ b[i] \in PrePart /\ c[i] \in PrePart
      BY <1>3, <1>6, <2>0, <2>2
    <3>2. PartPrecedes(a[i], c[i])
      BY <2>0, <2>2, <3>1 DEF PartPrecedes, PrePart
    <3>3. FirstDifference(a, c, i)
      BY <1>1, <1>2, <1>3, <1>6, <2>0, <2>2, <3>2 DEF FirstDifference
    <3> QED BY <3>3, PrePrecedesIs
  <2> QED BY <1>1, <2>1, <2>2 DEF FirstDifference
<1> QED BY <1>3, <1>4, <1>5, <1>6

LEMMA PrePrecedesIrreflexive ==
    ASSUME NEW a \in Seq(PrePart) PROVE ~PrePrecedes(a, a)
<1> SUFFICES ASSUME NEW i, FirstDifference(a, a, i) PROVE FALSE
  BY PrePrecedesIs
<1>1. i \in Nat /\ Len(a) \in Nat /\ i <= Len(a) /\ i # 0 /\ PartPrecedes(a[i], a[i])
  BY DEF FirstDifference
<1>2. a[i] \in PrePart
  BY <1>1
<1> QED BY <1>1, <1>2 DEF PartPrecedes, PrePart

\* comparePreRelease says which of two pre-releases comes first.
LEMMA ComparePreReleaseIs ==
    ASSUME NEW a \in Seq(PrePart), NEW b \in Seq(PrePart)
    PROVE  ComparePreRelease(a, b) > 0 <=> PrePrecedes(b, a)
<1> DEFINE differ == {i \in DOMAIN a \cup DOMAIN b : ComparePart(a, b, i) # 0}
           f == FirstOf(differ)
<1>1. Len(a) \in Nat /\ Len(b) \in Nat /\ DOMAIN a = 1 .. Len(a) /\ DOMAIN b = 1 .. Len(b)
  OBVIOUS
<1>2. differ \in SUBSET Nat
  BY <1>1
<1>3. CASE differ = {}
  <2>1. ComparePreRelease(a, b) = 0
    BY <1>3 DEF ComparePreRelease
  <2>2. ~(Len(a) + 1 <= Len(b)) /\ ~(Len(b) + 1 <= Len(a))
    <3>1. ASSUME Len(a) + 1 <= Len(b) PROVE FALSE
      <4>1. Len(a) + 1 \in DOMAIN b /\ ComparePart(a, b, Len(a) + 1) # 0
        BY <1>1, <3>1, ComparePartIs
      <4> QED BY <1>3, <4>1
    <3>2. ASSUME Len(b) + 1 <= Len(a) PROVE FALSE
      <4>1. Len(b) + 1 \in DOMAIN a /\ ComparePart(a, b, Len(b) + 1) # 0
        BY <1>1, <3>2, ComparePartIs
      <4> QED BY <1>3, <4>1
    <3> QED BY <3>1, <3>2
  <2>3. ASSUME NEW k \in 1 .. Len(a) PROVE a[k] = b[k]
    BY <1>1, <1>3, <2>2, ComparePartIs
  <2>4. a = b
    BY <1>1, <2>2, <2>3
  <2> QED BY <2>1, <2>4, PrePrecedesIrreflexive
<1>4. CASE differ # {}
  <2>1. f \in differ /\ \A k \in differ : f <= k
    BY <1>2, <1>4, FirstOfLeast
  <2>2. ComparePreRelease(a, b) = ComparePart(a, b, f)
    BY <1>4 DEF ComparePreRelease
  <2>3. f \in Nat \ {0} /\ (f <= Len(a) \/ f <= Len(b)) /\ ComparePart(a, b, f) # 0
    BY <1>1, <2>1
  <2> HIDE DEF f
  <2>4. ASSUME NEW k \in 1 .. f - 1 PROVE k <= Len(a) /\ k <= Len(b) /\ a[k] = b[k]
    <3>1. k \in DOMAIN a \cup DOMAIN b /\ k < f
      BY <1>1, <2>3
    <3>2. ComparePart(a, b, k) = 0
      BY <2>1, <2>3, <3>1
    <3> QED BY <1>1, <3>1, <3>2, ComparePartIs
  <2>5. CASE f > Len(a)
    <3>1. ComparePart(a, b, f) = 0 - 1
      BY <1>1, <2>3, <2>5, ComparePartIs
    <3>2. ASSUME NEW i, FirstDifference(b, a, i) PROVE FALSE
      <4>1. i \in Nat \ {0} /\ i <= Len(a) /\ i <= f - 1
        BY <1>1, <2>3, <2>5, <3>2 DEF FirstDifference
      <4>2. i <= Len(b) /\ a[i] = b[i] /\ PartPrecedes(b[i], a[i])
        BY <1>1, <2>3, <2>4, <3>2, <4>1 DEF FirstDifference
      <4>3. a[i] \in PrePart
        BY <1>1, <4>1
      <4> QED BY <4>2, <4>3 DEF PartPrecedes, PrePart
    <3> QED BY <2>2, <3>1, <3>2, PrePrecedesIs
  <2>6. CASE f <= Len(a) /\ f > Len(b)
    <3>1. ComparePart(a, b, f) = 1
      BY <1>1, <2>3, <2>6, ComparePartIs
    <3>2. f = Len(b) + 1
      <4>1. f - 1 <= Len(b)
        BY <1>1, <2>3, <2>4
      <4> QED BY <1>1, <2>3, <2>6, <4>1
    <3>3. FirstDifference(b, a, f)
      BY <1>1, <2>3, <2>4, <2>6, <3>2 DEF FirstDifference
    <3> QED BY <2>2, <3>1, <3>3, PrePrecedesIs
  <2>7. CASE f <= Len(a) /\ f <= Len(b)
    <3>1. ComparePart(a, b, f) > 0 <=> PartPrecedes(b[f], a[f])
      BY <2>3, <2>7, ComparePartIs
    <3>2. a[f] # b[f]
      BY <2>3, <2>7, ComparePartIs
    <3>3. ASSUME PartPrecedes(b[f], a[f]) PROVE FirstDifference(b, a, f)
      BY <1>1, <2>3, <2>4, <2>7, <3>3 DEF FirstDifference
    <3>4. ASSUME NEW i, FirstDifference(b, a, i) PROVE PartPrecedes(b[f], a[f])
      <4>1. i \in Nat \ {0} /\ i <= Len(a)
        BY <1>1, <3>4 DEF FirstDifference
      <4>2. ~(f < i)
        BY <1>1, <2>3, <3>2, <3>4, <4>1 DEF FirstDifference
      <4>3. ~(i < f)
        <5> SUFFICES ASSUME i < f PROVE FALSE
          OBVIOUS
        <5>1. i <= Len(b) /\ a[i] = b[i] /\ i \in 1 .. f - 1
          BY <2>3, <2>4, <4>1
        <5>2. PartPrecedes(b[i], a[i]) /\ a[i] \in PrePart
          BY <1>1, <3>4, <4>1, <5>1 DEF FirstDifference
        <5> QED BY <5>1, <5>2 DEF PartPrecedes, PrePart
      <4>4. i = f
        BY <2>3, <4>1, <4>2, <4>3
      <4> QED BY <1>1, <2>7, <3>4, <4>4 DEF FirstDifference
    <3> QED BY <2>2, <3>1, <3>3, <3>4, PrePrecedesIs
  <2> QED BY <1>1, <2>3, <2>5, <2>6, <2>7
<1> QED BY <1>3, <1>4

LEMMA VersionType ==
    ASSUME NEW v \in SemanticVersion
    PROVE  /\ v.pre \in Seq(PrePart)
           /\ v.main[1] \in Nat /\ v.main[2] \in Nat /\ v.main[3] \in Nat
           /\ \A i \in 1 .. 3 : v.main[i] \in Nat
           /\ v.main = <<v.main[1], v.main[2], v.main[3]>>
<1>1. v.pre \in Seq(PrePart) /\ v.main \in Nat \X Nat \X Nat
  BY DEF SemanticVersion
<1>2. v.main[1] \in Nat /\ v.main[2] \in Nat /\ v.main[3] \in Nat
      /\ v.main = <<v.main[1], v.main[2], v.main[3]>>
  BY <1>1
<1>3. ASSUME NEW i \in 1 .. 3 PROVE v.main[i] \in Nat
  <2>1. i = 1 \/ i = 2 \/ i = 3
    OBVIOUS
  <2> QED BY <1>2, <2>1
<1> QED BY <1>1, <1>2, <1>3

\* compareSemver says which of two versions comes first.
THEOREM CompareAgrees ==
    \A v, w \in SemanticVersion : CompareSemver(w, v) > 0 <=> Precedes(v, w)
<1> SUFFICES ASSUME NEW v \in SemanticVersion, NEW w \in SemanticVersion
             PROVE  CompareSemver(w, v) > 0 <=> Precedes(v, w)
  OBVIOUS
<1> DEFINE differ == {i \in 1 .. 3 : w.main[i] # v.main[i]}
           f == FirstOf(differ)
<1>1. v.pre \in Seq(PrePart) /\ w.pre \in Seq(PrePart)
      /\ \A i \in 1 .. 3 : v.main[i] \in Nat /\ w.main[i] \in Nat
  BY VersionType
<1>2. CASE differ # {}
  <2>1. f \in differ /\ \A k \in differ : f <= k
    BY <1>2, FirstOfLeast
  <2>2. CompareSemver(w, v) = Sign(w.main[f], v.main[f])
    BY <1>2 DEF CompareSemver
  <2> HIDE DEF f
  <2>3. CompareSemver(w, v) > 0 <=> v.main[f] < w.main[f]
    BY <1>1, <2>1, <2>2, SignPositive
  <2>4. \A k \in 1 .. f - 1 : v.main[k] = w.main[k]
    <3> SUFFICES ASSUME NEW k \in 1 .. f - 1, v.main[k] # w.main[k] PROVE FALSE
      OBVIOUS
    <3>1. f \in 1 .. 3
      BY <2>1
    <3>2. k \in differ /\ k < f
      BY <3>1
    <3> QED BY <2>1, <3>1, <3>2
  <2>5. v.main # w.main
    BY <2>1
  <2>6. ASSUME NEW i \in 1 .. 3, \A k \in 1 .. i - 1 : v.main[k] = w.main[k],
               v.main[i] < w.main[i]
        PROVE  i = f
    <3>1. f \in 1 .. 3 /\ w.main[f] # v.main[f]
      BY <2>1
    <3>2. ~(f < i)
      BY <2>6, <3>1
    <3>3. ~(i < f)
      BY <1>1, <2>4, <2>6, <3>1
    <3> QED BY <3>1, <3>2, <3>3
  <2> QED BY <2>1, <2>3, <2>4, <2>5, <2>6 DEF Precedes
<1>3. CASE differ = {}
  <2>1. \A i \in 1 .. 3 : v.main[i] = w.main[i]
    BY <1>3
  <2>2. v.main = w.main
    <3>1. v.main[1] = w.main[1] /\ v.main[2] = w.main[2] /\ v.main[3] = w.main[3]
      BY <2>1
    <3> QED BY <3>1, VersionType
  <2>3. Precedes(v, w) <=> v.pre # <<>> /\ (w.pre = <<>> \/ PrePrecedes(v.pre, w.pre))
    BY <1>1, <2>1, <2>2 DEF Precedes, PrePrecedes
  <2>4. CompareSemver(w, v) = IF w.pre = <<>> THEN IF v.pre = <<>> THEN 0 ELSE 1
                              ELSE IF v.pre = <<>> THEN 0 - 1
                              ELSE ComparePreRelease(w.pre, v.pre)
    BY <1>3 DEF CompareSemver
  <2> QED BY <1>1, <2>3, <2>4, ComparePreReleaseIs
<1> QED BY <1>2, <1>3

LEMMA PrecedesTransitive ==
    ASSUME NEW u \in SemanticVersion, NEW v \in SemanticVersion, NEW w \in SemanticVersion,
           Precedes(u, v), Precedes(v, w)
    PROVE  Precedes(u, w)
<1> DEFINE Main(x, y, i) == (\A k \in 1 .. i - 1 : x.main[k] = y.main[k]) /\ x.main[i] < y.main[i]
           Pre(x, y) == x.pre # <<>> /\ (y.pre = <<>> \/ PrePrecedes(x.pre, y.pre))
<1>1. /\ u.pre \in Seq(PrePart) /\ v.pre \in Seq(PrePart) /\ w.pre \in Seq(PrePart)
      /\ \A i \in 1 .. 3 : u.main[i] \in Nat /\ v.main[i] \in Nat /\ w.main[i] \in Nat
  BY VersionType
<1>2. (\E i \in 1 .. 3 : Main(u, v, i)) \/ (u.main = v.main /\ Pre(u, v))
  BY DEF Precedes, PrePrecedes
<1>3. (\E i \in 1 .. 3 : Main(v, w, i)) \/ (v.main = w.main /\ Pre(v, w))
  BY DEF Precedes, PrePrecedes
<1>4. ASSUME (\E i \in 1 .. 3 : Main(u, w, i)) \/ (u.main = w.main /\ Pre(u, w))
      PROVE  Precedes(u, w)
  BY <1>4 DEF Precedes, PrePrecedes
<1>5. CASE \E i \in 1 .. 3 : Main(u, v, i)
  <2>1. PICK i \in 1 .. 3 : Main(u, v, i)
    BY <1>5
  <2>2. CASE \E j \in 1 .. 3 : Main(v, w, j)
    <3>1. PICK j \in 1 .. 3 : Main(v, w, j)
      BY <2>2
    <3>2. CASE i < j
      <4>1. v.main[i] = w.main[i] /\ \A k \in 1 .. i - 1 : v.main[k] = w.main[k]
        BY <3>1, <3>2
      <4>2. Main(u, w, i)
        BY <2>1, <4>1
      <4> QED BY <1>4, <4>2
    <3>3. CASE j < i
      BY <1>1, <1>4, <2>1, <3>1, <3>3
    <3>4. CASE i = j
      <4>1. u.main[i] < w.main[i]
        <5>1. u.main[i] < v.main[i] /\ v.main[i] < w.main[i]
          BY <2>1, <3>1, <3>4
        <5>2. u.main[i] \in Nat /\ v.main[i] \in Nat /\ w.main[i] \in Nat
          BY <1>1
        <5> QED BY <5>1, <5>2
      <4> QED BY <1>4, <2>1, <3>1, <3>4, <4>1
    <3> QED BY <3>2, <3>3, <3>4
  <2>3. CASE v.main = w.main
    BY <1>4, <2>1, <2>3
  <2> QED BY <1>3, <2>2, <2>3
<1>6. CASE u.main = v.main /\ Pre(u, v)
  <2>1. CASE \E j \in 1 .. 3 : Main(v, w, j)
    BY <1>4, <1>6, <2>1
  <2>2. CASE v.main = w.main /\ Pre(v, w)
    <3>1. v.pre # <<>> /\ u.pre # <<>> /\ PrePrecedes(u.pre, v.pre)
      BY <1>6, <2>2
    <3>2. CASE w.pre = <<>>
      BY <1>4, <1>6, <2>2, <3>1, <3>2
    <3>3. CASE PrePrecedes(v.pre, w.pre)
      BY <1>1, <1>4, <1>6, <2>2, <3>1, <3>3, PrePrecedesTransitive
    <3> QED BY <2>2, <3>2, <3>3
  <2> QED BY <1>3, <2>1, <2>2
<1> QED BY <1>2, <1>5, <1>6

LEMMA PrecedesIrreflexive ==
    ASSUME NEW v \in SemanticVersion PROVE ~Precedes(v, v)
<1>1. v.pre \in Seq(PrePart) /\ \A i \in 1 .. 3 : v.main[i] \in Nat
  BY VersionType
<1>2. ~PrePrecedes(v.pre, v.pre)
  BY <1>1, PrePrecedesIrreflexive
<1>3. \A i \in 1 .. 3 : ~(v.main[i] < v.main[i])
  BY <1>1
<1> QED BY <1>2, <1>3 DEF Precedes, PrePrecedes

\* The loop of GetLatestReleaseNote, as a function that goes through the list.
LoopStep(f, list, i) == IF i = 1 THEN list[1] ELSE Newer(f[i - 1], list[i])

\* Such a function there is, because a loop of i steps can go one step further.
LEMMA LoopRuns ==
    ASSUME NEW n \in Nat \ {0}, NEW list \in [1 .. n -> Note]
    PROVE  \E f : f = [i \in 1 .. n |-> LoopStep(f, list, i)]
<1> DEFINE Runs(k) == \E f : f = [i \in 1 .. k |-> LoopStep(f, list, i)]
           S == {k \in 1 .. n : Runs(k)}
<1>1. Runs(1)
  <2> DEFINE f == [i \in 1 .. 1 |-> list[1]]
  <2>1. f = [i \in 1 .. 1 |-> LoopStep(f, list, i)]
    BY DEF LoopStep
  <2> QED BY <2>1
<1>2. ASSUME NEW k \in 1 .. n, k \in S, k < n PROVE Runs(k + 1)
  <2>1. PICK f : f = [i \in 1 .. k |-> LoopStep(f, list, i)]
    BY <1>2
  <2> DEFINE g == [i \in 1 .. k + 1 |-> IF i = k + 1 THEN LoopStep(f, list, k + 1) ELSE f[i]]
  <2>2. k \in Nat \ {0} /\ k + 1 # 1 /\ k + 1 - 1 = k
    BY <1>2
  <2>3. ASSUME NEW i \in 1 .. k + 1 PROVE g[i] = LoopStep(g, list, i)
    <3>1. CASE i = k + 1
      <4>1. g[i] = Newer(f[k], list[k + 1]) /\ g[k] = f[k]
        BY <2>2, <3>1 DEF LoopStep
      <4> QED BY <2>2, <3>1, <4>1 DEF LoopStep
    <3>2. CASE i # k + 1
      <4>1. i \in 1 .. k /\ (i # 1 => i - 1 \in 1 .. k)
        BY <2>2, <3>2
      <4>2. g[i] = f[i] /\ f[i] = LoopStep(f, list, i) /\ (i # 1 => g[i - 1] = f[i - 1])
        BY <2>1, <2>2, <3>2, <4>1
      <4> QED BY <4>2 DEF LoopStep
    <3> QED BY <3>1, <3>2
  <2>4. g = [i \in 1 .. k + 1 |-> LoopStep(g, list, i)]
    BY <2>3
  <2> QED BY <2>4
<1>3. 1 \in S /\ \A i \in 1 .. n : i \in S /\ i < n => i + 1 \in S
  BY <1>1, <1>2
<1> HIDE DEF S
<1>4. 1 .. n \subseteq S
  BY <1>3, UpTo
<1>5. n \in S
  BY <1>4
<1> QED BY <1>5 DEF S

LEMMA GetLatestIs ==
    ASSUME NEW n \in Nat \ {0}, NEW list \in [1 .. n -> Note]
    PROVE  \E f : /\ GetLatest(list) = f[n]
                  /\ f[1] = list[1]
                  /\ \A i \in 2 .. n : f[i] = Newer(f[i - 1], list[i])
<1> DEFINE f == CHOOSE h : h = [i \in 1 .. n |-> LoopStep(h, list, i)]
<1>1. f = [i \in 1 .. n |-> LoopStep(f, list, i)]
  BY LoopRuns
<1>2. Len(list) = n
  <2>1. list \in Seq(Note)
    OBVIOUS
  <2> QED BY <2>1
<1>3. GetLatest(list) = (CHOOSE h : h = [i \in 1 .. Len(list) |-> LoopStep(h, list, i)])[Len(list)]
  BY DEF GetLatest, LoopStep
<1>4. GetLatest(list) = f[n]
  BY <1>2, <1>3
<1> HIDE DEF f
<1>5. f[1] = list[1]
  BY <1>1 DEF LoopStep
<1>6. \A i \in 2 .. n : f[i] = Newer(f[i - 1], list[i])
  BY <1>1 DEF LoopStep
<1> QED BY <1>4, <1>5, <1>6

\* No note beats the latest one.
Beats(m, n) ==
    IF note[n].version = NoVersion
    THEN note[m].version # NoVersion \/ m > n
    ELSE note[m].version # NoVersion /\ Precedes(note[n].version, note[m].version)

LEMMA NewerBeats ==
    ASSUME NoteTypeOK, NEW l \in Note, NEW m \in Note
    PROVE  Newer(l, m) = IF Beats(m, l) THEN m ELSE l
<1>1. \A n \in Note : note[n].version = NoVersion \/ note[n].version \in SemanticVersion
  BY NoteAssumption DEF NoteTypeOK, NoteRow
<1>2. l \in Nat /\ m \in Nat
  BY NoteAssumption DEF Note
<1>3. CASE note[l].version # NoVersion /\ note[m].version # NoVersion
  BY <1>1, <1>3, CompareAgrees DEF Newer, Beats
<1>4. CASE ~(note[l].version # NoVersion /\ note[m].version # NoVersion)
  BY <1>2, <1>4 DEF Newer, Beats
<1> QED BY <1>3, <1>4

LEMMA BeatsTransitive ==
    ASSUME NoteTypeOK, NEW k \in Note, NEW l \in Note, NEW m \in Note, Beats(m, l), Beats(k, m)
    PROVE  Beats(k, l)
<1>1. \A n \in Note : note[n].version = NoVersion \/ note[n].version \in SemanticVersion
  BY NoteAssumption DEF NoteTypeOK, NoteRow
<1>2. k \in Nat /\ l \in Nat /\ m \in Nat
  BY NoteAssumption DEF Note
<1>3. CASE note[l].version = NoVersion
  BY <1>2, <1>3 DEF Beats
<1>4. CASE note[l].version # NoVersion
  <2>1. /\ note[m].version # NoVersion /\ Precedes(note[l].version, note[m].version)
        /\ note[k].version # NoVersion /\ Precedes(note[m].version, note[k].version)
    BY <1>4 DEF Beats
  <2>2. Precedes(note[l].version, note[k].version)
    BY <1>1, <1>4, <2>1, PrecedesTransitive
  <2> QED BY <1>4, <2>1, <2>2 DEF Beats
<1> QED BY <1>3, <1>4

LEMMA BeatsNotItself ==
    ASSUME NoteTypeOK, NEW n \in Note PROVE ~Beats(n, n)
<1>1. note[n].version = NoVersion \/ note[n].version \in SemanticVersion
  BY NoteAssumption DEF NoteTypeOK, NoteRow
<1>2. n \in Nat
  BY NoteAssumption DEF Note
<1> QED BY <1>1, <1>2, PrecedesIrreflexive DEF Beats

\* After i steps the loop holds a note of the list that none so far beats.
LEMMA LatestUnbeaten ==
    ASSUME NoteTypeOK, NEW n \in Nat \ {0}, NEW list \in [1 .. n -> Note]
    PROVE  /\ \E j \in 1 .. n : GetLatest(list) = list[j]
           /\ \A j \in 1 .. n : ~Beats(list[j], GetLatest(list))
<1>1. PICK f : /\ GetLatest(list) = f[n]
               /\ f[1] = list[1]
               /\ \A i \in 2 .. n : f[i] = Newer(f[i - 1], list[i])
  BY GetLatestIs
<1> DEFINE S == {i \in 1 .. n : /\ \E j \in 1 .. i : f[i] = list[j]
                                /\ \A j \in 1 .. i : ~Beats(list[j], f[i])}
<1>2. 1 \in S
  <2>1. \A j \in 1 .. 1 : ~Beats(list[j], f[1])
    BY <1>1, BeatsNotItself
  <2> QED BY <1>1, <2>1
<1>3. ASSUME NEW i \in 1 .. n, i \in S, i < n PROVE i + 1 \in S
  <2>1. i + 1 \in 2 .. n /\ i + 1 - 1 = i
    BY <1>3
  <2>2. f[i + 1] = Newer(f[i], list[i + 1])
    BY <1>1, <2>1
  <2>3. PICK j \in 1 .. i : f[i] = list[j]
    BY <1>3
  <2>4. f[i] \in Note /\ list[i + 1] \in Note /\ \A k \in 1 .. i : list[k] \in Note
    BY <2>1, <2>3
  <2>5. f[i + 1] = IF Beats(list[i + 1], f[i]) THEN list[i + 1] ELSE f[i]
    BY <2>2, <2>4, NewerBeats
  <2>6. \A k \in 1 .. i : ~Beats(list[k], f[i])
    BY <1>3
  <2>7. CASE Beats(list[i + 1], f[i])
    <3>1. f[i + 1] = list[i + 1]
      BY <2>5, <2>7
    <3>2. ASSUME NEW k \in 1 .. i + 1 PROVE ~Beats(list[k], f[i + 1])
      <4>1. CASE k = i + 1
        BY <2>4, <3>1, <4>1, BeatsNotItself
      <4>2. CASE k \in 1 .. i
        BY <2>4, <2>6, <2>7, <3>1, <4>2, BeatsTransitive
      <4> QED BY <4>1, <4>2
    <3> QED BY <2>1, <3>1, <3>2
  <2>8. CASE ~Beats(list[i + 1], f[i])
    <3>1. f[i + 1] = f[i]
      BY <2>5, <2>8
    <3>2. ASSUME NEW k \in 1 .. i + 1 PROVE ~Beats(list[k], f[i + 1])
      <4>1. CASE k = i + 1
        BY <2>8, <3>1, <4>1
      <4>2. CASE k \in 1 .. i
        BY <2>6, <3>1, <4>2
      <4> QED BY <4>1, <4>2
    <3> QED BY <2>1, <2>3, <3>1, <3>2
  <2> QED BY <2>7, <2>8
<1> HIDE DEF S
<1>4. 1 .. n \subseteq S
  BY <1>2, <1>3, UpTo
<1>5. n \in S
  BY <1>4
<1> QED BY <1>1, <1>5 DEF S

LEMMA LatestGreatest == NoteTypeOK => LatestIsGreatest
<1> SUFFICES ASSUME NoteTypeOK,
                    NEW list \in [1 .. Cardinality(ShownNotes) -> ShownNotes],
                    IsInjective(list), list # <<>>,
                    NEW m \in ShownNotes
             PROVE  LET latest == GetLatest(list) IN
                    IF note[latest].version = NoVersion
                    THEN note[m].version = NoVersion /\ m <= latest
                    ELSE note[m].version # NoVersion
                           => ~Precedes(note[latest].version, note[m].version)
  BY DEF LatestIsGreatest
<1> DEFINE n == Cardinality(ShownNotes)
<1>1. ShownNotes \subseteq Note /\ IsFiniteSet(ShownNotes) /\ n \in Nat
  <2>1. IsFiniteSet(Note)
    BY NoteAssumption, FS_Interval DEF Note
  <2>2. ShownNotes \in SUBSET Note
    BY DEF ShownNotes
  <2> QED BY <2>1, <2>2, FS_Subset, FS_CardinalityType
<1>2. n # 0
  BY <1>1, FS_EmptySet
<1>3. IsFiniteSet(1 .. n) /\ Cardinality(1 .. n) = n
  BY <1>1, FS_Interval
<1>4. list \in Injection(1 .. n, ShownNotes)
  BY DEF Injection, IsInjective
<1>5. list \in Surjection(1 .. n, ShownNotes)
  BY <1>1, <1>3, <1>4, FS_Injection
<1>6. PICK j \in 1 .. n : list[j] = m
  BY <1>5 DEF Surjection
<1>7. list \in [1 .. n -> Note]
  BY <1>1
<1>8. ~Beats(m, GetLatest(list)) /\ GetLatest(list) \in Note
  BY <1>1, <1>2, <1>6, <1>7, LatestUnbeaten
<1>9. m \in Nat /\ GetLatest(list) \in Nat
  BY <1>1, <1>8, NoteAssumption DEF Note
<1> QED BY <1>8, <1>9 DEF Beats

-----------------------------------------------------------------------------
(* The latest note                                                         *)

\* The latest note has the greatest version of all that are shown, in whatever
\* order the table returns them (GetLatestReleaseNote).
THEOREM LatestNoteIsGreatest == NoteSpec => []LatestIsGreatest
<1>1. NoteIInv => LatestIsGreatest
  BY LatestGreatest DEF NoteIInv
<1> QED BY <1>1, NoteInvariant, PTL

-----------------------------------------------------------------------------
(* The run of markers and notes                                            *)

\* Each behaviour of the run is one of every component, most of which rest: what
\* is proved of a component holds in the run.
LEMMA RacesRun ==
    RacesSpec => Spec /\ NoteSpec
<1>1. RacesInit => Init /\ NoteInit
  BY DEF RacesInit
<1>2. [RacesNext]_allVars => [Next]_vars /\ [NoteNext]_noteVars
  BY DEF RacesNext, allVars
<1> QED BY <1>1, <1>2, PTL DEF RacesSpec, Spec, NoteSpec

\* The types of markers, schedules and notes, together.
THEOREM RaceTypes == RacesSpec => []RaceTypesOK
<1>1. TypeOK /\ NoteIInv => RaceTypesOK
  BY DEF NoteIInv, RaceTypesOK
<1> QED BY <1>1, RacesRun, MarkerTypeCorrect, NoteInvariant, PTL

=============================================================================
