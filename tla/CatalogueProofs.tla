---------------------------- MODULE CatalogueProofs ----------------------------
(*****************************************************************************)
(* Pins and their types, pin groups and train stations, for any number of    *)
(* rows and overlapping requests: images are those of their pairs, a pin is in*)
(* one group, and what is derived from lines, groups and maps agrees.        *)
(*****************************************************************************)
EXTENDS MCCatalogue, MarkerScheduleProofs, FiniteSetTheorems, TLAPS

-----------------------------------------------------------------------------
(* Pins and marker types                                                   *)

\* A request at work is about a row, lists rows of the other table, and draws
\* with the image it has read or saved.
TasksFit ==
    \A r \in PinRequest :
        task[r].step # "idle" =>
            /\ task[r].row \in Drawable
            /\ \A e \in task[r].todo : e[1] \in Others(task[r].row)

\* A request that is alone is the only one at work.
AloneIsOnly ==
    \A r, q \in PinRequest : task[r].alone /\ q # r => task[q].step = "idle"

\* While a request is about to draw the pairs of a row, none of them counts as
\* settled: what it has read may be old.
DrawnIsUnsettled ==
    \A r \in PinRequest :
        task[r].step \in {"list", "draw"} => PairsOf(task[r].row) \cap settled = {}

\* The images of a pair, as they are in the two tables.
Current(d) == <<image[d[1]], image[d[2]]>>

\* What a request has read is still so, and of the rows that are there it has
\* drawn those that it has not still to draw.
ReadIsCurrent(r) ==
    LET x == task[r].row IN
    /\ task[r].step \in {"list", "draw"} => task[r].copy = image[x]
    /\ task[r].step = "draw" =>
          /\ \A e \in task[r].todo : e[2] = image[e[1]]
          /\ \A y \in Others(x) \cap present :
                <<y, image[y]>> \in task[r].todo
                  \/ drawn[PairOf(x, y)] = Current(PairOf(x, y))

AloneIsCurrent == \A r \in PinRequest : task[r].alone => ReadIsCurrent(r)

PinIInv ==
    /\ PinTypeOK /\ TasksFit /\ AloneIsOnly /\ DrawnIsUnsettled
    /\ AloneIsCurrent /\ PairsCovered /\ SettledIsCurrent

-----------------------------------------------------------------------------
(* Rows and pairs                                                          *)

LEMMA PairFacts ==
    ASSUME NEW x \in Drawable
    PROVE  /\ Others(x) \subseteq Drawable
           /\ x \notin Others(x)
           /\ PairsOf(x) \subseteq Pair
           /\ \A y \in Others(x) : PairOf(x, y) \in PairsOf(x)
           /\ \A d \in PairsOf(x) : \E y \in Others(x) : d = PairOf(x, y)
           /\ \A d \in Pair : d \in PairsOf(x) <=> (d[1] = x \/ d[2] = x)
           /\ \A d \in Pair : d[1] \in Drawable /\ d[2] \in Drawable
           /\ \A y, z \in Others(x) : PairOf(x, y) = PairOf(x, z) => y = z
<1>1. Others(x) \subseteq Drawable /\ x \notin Others(x)
  BY PinAssumption DEF Others, Drawable
<1>2. \A d \in Pair : d[1] \in MarkerType /\ d[2] \in Pin /\ d = <<d[1], d[2]>>
  BY DEF Pair
<1>3. CASE x \in Pin
  BY <1>1, <1>2, <1>3, PinAssumption DEF Others, PairOf, PairsOf, Pair, Drawable
<1>4. CASE x \in MarkerType
  BY <1>1, <1>2, <1>4, PinAssumption DEF Others, PairOf, PairsOf, Pair, Drawable
<1> QED BY <1>3, <1>4 DEF Drawable

LEMMA NoTaskTyped ==
    /\ NoTask \in Task
    /\ NoTask.step = "idle" /\ NoTask.todo = {} /\ NoTask.alone = FALSE
BY DEF NoTask, Task, TaskStep

LEMMA PinInitial == PinInit => PinIInv
BY NoTaskTyped DEF PinInit, PinIInv, PinTypeOK, TasksFit, AloneIsOnly,
   DrawnIsUnsettled, AloneIsCurrent, PairsCovered, SettledIsCurrent

-----------------------------------------------------------------------------
(* Steps                                                                   *)

\* What a request that begins for row x does to the others, and to itself.
LEMMA BeginFits ==
    ASSUME PinTypeOK, TasksFit, AloneIsOnly,
           NEW r \in PinRequest, NEW x \in Drawable,
           NEW step \in TaskStep \ {"idle"}, NEW copy \in Upload \cup {NoImage},
           Begin(r, x, step, copy, {})
    PROVE  /\ task' \in [PinRequest -> Task]
           /\ TasksFit'
           /\ AloneIsOnly'
           /\ task[r].step = "idle"
           /\ task'[r].step = step /\ task'[r].row = x /\ task'[r].copy = copy
           /\ task'[r].todo = {}
           /\ \A q \in PinRequest \ {r} :
                 /\ task'[q].alone = FALSE
                 /\ task'[q].step = task[q].step /\ task'[q].row = task[q].row
                 /\ task'[q].copy = task[q].copy /\ task'[q].todo = task[q].todo
<1>1. task' = [q \in PinRequest |->
                  IF q = r
                  THEN [step |-> step, row |-> x, copy |-> copy, todo |-> {},
                        alone |-> \A p \in PinRequest \ {r} : task[p].step = "idle"]
                  ELSE [task[q] EXCEPT !.alone = FALSE]]
      /\ task[r].step = "idle"
  BY DEF Begin
<1>2. \A q \in PinRequest : task[q] \in Task
  BY DEF PinTypeOK
<1>3. /\ task'[r].step = step /\ task'[r].row = x /\ task'[r].copy = copy
      /\ task'[r].todo = {} /\ task'[r] \in Task
      /\ task'[r].alone => \A p \in PinRequest \ {r} : task[p].step = "idle"
  <2>1. (\A p \in PinRequest \ {r} : task[p].step = "idle") \in BOOLEAN
    OBVIOUS
  <2> QED BY <1>1, <2>1 DEF Task
<1>4. \A q \in PinRequest \ {r} :
         /\ task'[q] \in Task /\ task'[q].alone = FALSE
         /\ task'[q].step = task[q].step /\ task'[q].row = task[q].row
         /\ task'[q].copy = task[q].copy /\ task'[q].todo = task[q].todo
  BY <1>1, <1>2 DEF Task
<1>5. task' \in [PinRequest -> Task]
  BY <1>1, <1>3, <1>4
<1>6. TasksFit'
  BY <1>3, <1>4 DEF TasksFit
<1>7. AloneIsOnly'
  BY <1>3, <1>4 DEF AloneIsOnly
<1> QED BY <1>1, <1>3, <1>4, <1>5, <1>6, <1>7

LEMMA RemoveRowStep ==
    ASSUME PinIInv, NEW x \in Drawable, RemoveRow(x)
    PROVE  PinIInv'
<1> USE DEF PinIInv, RemoveRow
<1>1. PinTypeOK'
  BY DEF PinTypeOK
<1>2. TasksFit' /\ AloneIsOnly' /\ DrawnIsUnsettled'
  BY DEF TasksFit, AloneIsOnly, DrawnIsUnsettled
<1>3. AloneIsCurrent'
  BY DEF AloneIsCurrent, ReadIsCurrent, Current
<1>4. PairsCovered' /\ SettledIsCurrent'
  BY DEF PairsCovered, SettledIsCurrent, WillDraw
<1> QED BY <1>1, <1>2, <1>3, <1>4

LEMMA ReadRowStep ==
    ASSUME PinIInv, NEW r \in PinRequest, NEW x \in Drawable, ReadRow(r, x)
    PROVE  PinIInv'
<1>0. PinTypeOK /\ TasksFit /\ AloneIsOnly /\ "save" \in TaskStep \ {"idle"}
      /\ UNCHANGED <<image, present, drawn, failed, settled>>
  BY DEF PinIInv, ReadRow, TaskStep
<1>c. PICK copy \in Upload \cup {NoImage} : Begin(r, x, "save", copy, {})
  BY <1>0 DEF PinTypeOK, ReadRow
<1>1. /\ task' \in [PinRequest -> Task] /\ TasksFit' /\ AloneIsOnly'
      /\ task[r].step = "idle" /\ task'[r].step = "save" /\ task'[r].row = x
      /\ task'[r].copy = copy /\ task'[r].todo = {}
      /\ \A q \in PinRequest \ {r} :
            /\ task'[q].alone = FALSE
            /\ task'[q].step = task[q].step /\ task'[q].row = task[q].row
            /\ task'[q].copy = task[q].copy /\ task'[q].todo = task[q].todo
  BY <1>0, <1>c, BeginFits
<1>2. PinTypeOK'
  BY <1>0, <1>1 DEF PinTypeOK
<1>3. DrawnIsUnsettled' /\ AloneIsCurrent'
  BY <1>0, <1>1 DEF PinIInv, DrawnIsUnsettled, AloneIsCurrent, ReadIsCurrent
<1>4. \A q \in PinRequest, d \in Pair : WillDraw(q, d) => WillDraw(q, d)'
  BY <1>0, <1>1 DEF WillDraw
<1>5. PairsCovered' /\ SettledIsCurrent'
  BY <1>0, <1>4 DEF PinIInv, PairsCovered, SettledIsCurrent
<1> QED BY <1>1, <1>2, <1>3, <1>5 DEF PinIInv

LEMMA CreateStep ==
    ASSUME PinIInv, NEW r \in PinRequest, NEW x \in Drawable, Create(r, x)
    PROVE  PinIInv'
<1>0. PICK v \in Upload \cup {NoImage} :
         /\ Uploaded(v) \/ (v = NoImage /\ x \in Pin)
         /\ image' = [image EXCEPT ![x] = v]
         /\ Begin(r, x, "list", v, {})
  BY DEF Create
<1>1. /\ PinTypeOK /\ TasksFit /\ AloneIsOnly /\ "list" \in TaskStep \ {"idle"}
      /\ x \notin present
      /\ present' = present \cup {x}
      /\ drawn' = [d \in Pair |-> IF d \in PairsOf(x) THEN NoImage ELSE drawn[d]]
      /\ failed' = failed \ PairsOf(x)
      /\ settled' = settled \ PairsOf(x)
  BY DEF PinIInv, Create, Forgotten, TaskStep
<1>2. /\ task' \in [PinRequest -> Task] /\ TasksFit' /\ AloneIsOnly'
      /\ task[r].step = "idle" /\ task'[r].step = "list" /\ task'[r].row = x
      /\ task'[r].copy = v /\ task'[r].todo = {}
      /\ \A q \in PinRequest \ {r} :
            /\ task'[q].alone = FALSE
            /\ task'[q].step = task[q].step /\ task'[q].row = task[q].row
            /\ task'[q].copy = task[q].copy /\ task'[q].todo = task[q].todo
  BY <1>0, <1>1, BeginFits
<1>3. /\ image' \in [Drawable -> Upload \cup {NoImage}]
      /\ image'[x] = v /\ \A y \in Drawable \ {x} : image'[y] = image[y]
      /\ x \in MarkerType => v # NoImage
  <2>1. x \in MarkerType => v # NoImage
    BY <1>0, PinAssumption DEF Uploaded
  <2> QED BY <1>0, <1>1, <2>1 DEF PinTypeOK
<1>4. PinTypeOK'
  BY <1>1, <1>2, <1>3 DEF PinTypeOK, Drawable
<1>5. DrawnIsUnsettled' /\ AloneIsCurrent'
  BY <1>1, <1>2, <1>3 DEF PinIInv, DrawnIsUnsettled, AloneIsCurrent, ReadIsCurrent
<1>6. \A q \in PinRequest, d \in Pair : WillDraw(q, d) => WillDraw(q, d)'
  BY <1>1, <1>2 DEF WillDraw
<1>7. \A d \in PairsOf(x) : WillDraw(r, d)'
  BY <1>2 DEF WillDraw
<1>8. \A d \in Pair \ PairsOf(x) :
         /\ d[1] \in Drawable \ {x} /\ d[2] \in Drawable \ {x}
         /\ drawn'[d] = drawn[d]
  BY <1>1, PairFacts
<1>9. PairsCovered'
  BY <1>1, <1>6, <1>7, <1>8 DEF PinIInv, PairsCovered
<1>10. SettledIsCurrent'
  BY <1>1, <1>3, <1>8 DEF PinIInv, SettledIsCurrent, PinTypeOK
<1> QED BY <1>2, <1>4, <1>5, <1>9, <1>10 DEF PinIInv

\* A request changes its own state only.
Own(r) == \A q \in PinRequest \ {r} : task'[q] = task[q]

\* What the others have read is still so when rows and images stay.
LEMMA StillCurrent ==
    ASSUME AloneIsCurrent, NEW r \in PinRequest, Own(r), task'[r].alone = FALSE,
           UNCHANGED <<image, present, drawn>>
    PROVE  AloneIsCurrent'
<1> SUFFICES ASSUME NEW q \in PinRequest, task'[q].alone
    PROVE  ReadIsCurrent(q)'
  BY DEF AloneIsCurrent
<1>1. task'[q] = task[q] /\ ReadIsCurrent(q)
  BY DEF Own, AloneIsCurrent
<1> QED BY <1>1 DEF ReadIsCurrent, Current

\* A request that ends, and counts the pairs it has not drawn as left out.
LEMMA EndsStep ==
    ASSUME PinIInv, NEW r \in PinRequest,
           task' = [task EXCEPT ![r] = NoTask],
           NEW left \in SUBSET Pair, failed' = failed \cup left,
           \A d \in Pair : WillDraw(r, d) /\ d[1] \in present /\ d[2] \in present
                              => d \in left,
           UNCHANGED <<image, present, drawn, settled>>
    PROVE  PinIInv'
<1>1. task'[r] = NoTask /\ Own(r) /\ PinTypeOK'
  BY NoTaskTyped DEF PinIInv, PinTypeOK, Own
<1>2. TasksFit' /\ AloneIsOnly' /\ DrawnIsUnsettled'
  BY <1>1, NoTaskTyped DEF PinIInv, TasksFit, AloneIsOnly, DrawnIsUnsettled, Own
<1>5. AloneIsCurrent'
  <2>1. AloneIsCurrent /\ task'[r].alone = FALSE
    BY <1>1, NoTaskTyped DEF PinIInv
  <2> QED BY <1>1, <2>1, StillCurrent
<1>3. \A q \in PinRequest \ {r}, d \in Pair : WillDraw(q, d) => WillDraw(q, d)'
  BY <1>1 DEF WillDraw, Own
<1>4. PairsCovered'
  <2> SUFFICES ASSUME NEW d \in Pair, d[1] \in present, d[2] \in present,
                      drawn[d] = NoImage, d \notin failed, d \notin left
      PROVE  \E q \in PinRequest : WillDraw(q, d)'
    BY DEF PairsCovered
  <2>1. PICK q \in PinRequest : WillDraw(q, d)
    BY DEF PinIInv, PairsCovered
  <2>2. q # r
    BY <2>1
  <2> QED BY <1>3, <2>1, <2>2
<1>6. SettledIsCurrent'
  BY DEF PinIInv, SettledIsCurrent
<1> QED BY <1>1, <1>2, <1>4, <1>5, <1>6 DEF PinIInv

LEMMA SaveDrawableStep ==
    ASSUME PinIInv, NEW r \in PinRequest, SaveDrawable(r)
    PROVE  PinIInv'
<1> DEFINE x == task[r].row
<1>0. task[r].step = "save" /\ x \in Drawable /\ task[r] \in Task
      /\ UNCHANGED <<drawn, failed>>
  BY DEF PinIInv, PinTypeOK, TasksFit, SaveDrawable
<1>1. ASSUME NEW v \in Upload, image' = [image EXCEPT ![x] = v],
             task' = [task EXCEPT ![r].step = "list", ![r].copy = v],
             present' = present \cup {x}, settled' = settled \ PairsOf(x)
      PROVE  PinIInv'
  <2>1. /\ task'[r].step = "list" /\ task'[r].row = x /\ task'[r].copy = v
        /\ task'[r].todo = task[r].todo /\ task'[r].alone = task[r].alone
        /\ task'[r] \in Task /\ Own(r)
        /\ task' \in [PinRequest -> Task]
    BY <1>0, <1>1 DEF PinIInv, PinTypeOK, Task, TaskStep, Own
  <2>2. /\ image' \in [Drawable -> Upload \cup {NoImage}]
        /\ image'[x] = v /\ \A y \in Drawable \ {x} : image'[y] = image[y]
    BY <1>0, <1>1 DEF PinIInv, PinTypeOK
  <2>3. PinTypeOK'
    BY <1>0, <1>1, <2>1, <2>2, PinAssumption DEF PinIInv, PinTypeOK, Drawable
  <2>4. TasksFit' /\ AloneIsOnly'
    BY <1>0, <2>1 DEF PinIInv, TasksFit, AloneIsOnly, Own
  <2>5. DrawnIsUnsettled' /\ AloneIsCurrent'
    BY <1>0, <1>1, <2>1, <2>2 DEF PinIInv, DrawnIsUnsettled, AloneIsOnly, AloneIsCurrent, ReadIsCurrent, Own
  <2>6. \A q \in PinRequest, d \in Pair : WillDraw(q, d) => WillDraw(q, d)'
    BY <1>0, <2>1 DEF WillDraw, Own
  <2>7. \A d \in PairsOf(x) : WillDraw(r, d)'
    BY <2>1 DEF WillDraw
  <2>8. \A d \in Pair \ PairsOf(x) : d[1] \in Drawable \ {x} /\ d[2] \in Drawable \ {x}
    BY <1>0, PairFacts
  <2>9. PairsCovered'
    BY <1>0, <1>1, <2>6, <2>7, <2>8 DEF PinIInv, PairsCovered
  <2>10. SettledIsCurrent'
    BY <1>0, <1>1, <2>2, <2>8 DEF PinIInv, SettledIsCurrent, PinTypeOK
  <2> QED BY <2>3, <2>4, <2>5, <2>9, <2>10 DEF PinIInv
<1>2. ASSUME task' = [task EXCEPT ![r] = NoTask], UNCHANGED <<image, present, settled>>
      PROVE  PinIInv'
  <2>1. {} \in SUBSET Pair /\ failed' = failed \cup {}
    BY <1>0
  <2>2. \A d \in Pair : ~WillDraw(r, d)
    BY <1>0 DEF WillDraw
  <2> QED BY <1>0, <1>2, <2>1, <2>2, EndsStep
<1> QED BY <1>1, <1>2 DEF SaveDrawable, Uploaded

LEMMA ListOthersStep ==
    ASSUME PinIInv, NEW r \in PinRequest, ListOthers(r)
    PROVE  PinIInv'
<1> DEFINE x == task[r].row
<1>0. task[r].step = "list" /\ x \in Drawable /\ task[r] \in Task
      /\ UNCHANGED <<image, present, drawn, failed, settled>>
  BY DEF PinIInv, PinTypeOK, TasksFit, ListOthers
<1>1. /\ Others(x) \subseteq Drawable
      /\ Listed(x) \in SUBSET (Drawable \X (Upload \cup {NoImage}))
      /\ \A e \in Listed(x) : e[1] \in Others(x) /\ e[2] = image[e[1]]
      /\ \A y \in Others(x) \cap present : <<y, image[y]>> \in Listed(x)
  <2>1. Others(x) \subseteq Drawable
    BY <1>0, PairFacts
  <2> QED BY <2>1 DEF PinIInv, PinTypeOK, Listed
<1>2. /\ task'[r].step = "draw" /\ task'[r].row = x /\ task'[r].copy = task[r].copy
      /\ task'[r].todo = Listed(x) /\ task'[r].alone = task[r].alone
      /\ Own(r) /\ task' \in [PinRequest -> Task]
  BY <1>0, <1>1 DEF PinIInv, PinTypeOK, Task, TaskStep, Own, ListOthers
<1>3. PinTypeOK'
  BY <1>0, <1>2 DEF PinIInv, PinTypeOK
<1>4. TasksFit' /\ AloneIsOnly' /\ DrawnIsUnsettled'
  BY <1>0, <1>1, <1>2 DEF PinIInv, TasksFit, AloneIsOnly, DrawnIsUnsettled, Own
<1>5. AloneIsCurrent'
  <2> SUFFICES ASSUME NEW q \in PinRequest, task'[q].alone
      PROVE  ReadIsCurrent(q)'
    BY DEF AloneIsCurrent
  <2>1. CASE q = r
    <3>1. task[r].copy = image[x]
      BY <1>0, <1>2, <2>1 DEF PinIInv, AloneIsCurrent, ReadIsCurrent
    <3> QED BY <1>0, <1>1, <1>2, <2>1, <3>1 DEF ReadIsCurrent
  <2>2. CASE q # r
    <3>1. task[r].step # "idle" /\ task'[q] = task[q]
      BY <1>0, <1>2, <2>2 DEF Own
    <3>2. FALSE
      BY <2>2, <3>1 DEF PinIInv, AloneIsOnly
    <3> QED BY <3>2
  <2> QED BY <2>1, <2>2
<1>6. \A q \in PinRequest \ {r}, d \in Pair : WillDraw(q, d) => WillDraw(q, d)'
  BY <1>2 DEF WillDraw, Own
<1>7. ASSUME NEW d \in PairsOf(x), d[1] \in present, d[2] \in present
      PROVE  WillDraw(r, d)'
  <2>1. PICK y \in Others(x) : d = PairOf(x, y)
    BY <1>0, PairFacts
  <2>2. y \in present
    <3>1. d = <<y, x>> \/ d = <<x, y>>
      BY <2>1 DEF PairOf
    <3>2. x \in Pin => d = <<y, x>>
      BY <2>1 DEF PairOf
    <3>3. x \notin Pin => d = <<x, y>>
      BY <2>1 DEF PairOf
    <3> QED BY <1>7, <3>2, <3>3
  <2>3. <<y, image[y]>> \in task'[r].todo /\ <<y, image[y]>>[1] = y
    BY <1>1, <1>2, <2>2
  <2> QED BY <1>2, <2>1, <2>3 DEF WillDraw
<1>8. PairsCovered' /\ SettledIsCurrent'
  <2>1. \A d \in Pair : WillDraw(r, d) => d \in PairsOf(x)
    BY <1>0 DEF WillDraw
  <2> QED BY <1>0, <1>6, <1>7, <2>1 DEF PinIInv, PairsCovered, SettledIsCurrent
<1> QED BY <1>3, <1>4, <1>5, <1>8, <1>2 DEF PinIInv

LEMMA GroupsRefusedStep ==
    ASSUME PinIInv, NEW r \in PinRequest, GroupsRefused(r)
    PROVE  PinIInv'
<1>1. task[r].step = "list" /\ task[r].row \in Drawable
      /\ task' = [task EXCEPT ![r] = NoTask]
      /\ failed' = failed \cup PairsOf(task[r].row)
      /\ UNCHANGED <<image, present, drawn, settled>>
  BY DEF PinIInv, TasksFit, GroupsRefused
<1>2. PairsOf(task[r].row) \in SUBSET Pair
  BY <1>1, PairFacts
<1>3. \A d \in Pair : WillDraw(r, d) => d \in PairsOf(task[r].row)
  BY <1>1 DEF WillDraw
<1> QED BY <1>1, <1>2, <1>3, EndsStep

LEMMA DrawingFailsStep ==
    ASSUME PinIInv, NEW r \in PinRequest, DrawingFails(r)
    PROVE  PinIInv'
<1> DEFINE left == {PairOf(task[r].row, e[1]) : e \in task[r].todo}
<1>1. task[r].step = "draw" /\ task[r].row \in Drawable
      /\ task' = [task EXCEPT ![r] = NoTask]
      /\ failed' = failed \cup left
      /\ UNCHANGED <<image, present, drawn, settled>>
  BY DEF PinIInv, TasksFit, DrawingFails
<1>2. left \in SUBSET Pair
  BY <1>1, PairFacts DEF PinIInv, TasksFit
<1>3. \A d \in Pair : WillDraw(r, d) => d \in left
  BY <1>1 DEF WillDraw
<1> HIDE DEF left
<1> QED BY <1>1, <1>2, <1>3, EndsStep

LEMMA CreateTypePinStep ==
    ASSUME PinIInv, NEW r \in PinRequest, NEW y \in Drawable, NEW v \in Upload,
           CreateTypePin(r, y, v)
    PROVE  PinIInv'
<1> DEFINE x == task[r].row
           d == PairOf(x, y)
<1>0. /\ task[r].step = "draw" /\ x \in Drawable /\ task[r] \in Task
      /\ <<y, v>> \in task[r].todo /\ y \in Others(x)
      /\ task[r].copy \in Upload
      /\ drawn' = [drawn EXCEPT ![d] = IF x \in Pin THEN <<v, task[r].copy>>
                                                    ELSE <<task[r].copy, v>>]
      /\ failed' = failed \ {d}
      /\ task' = [task EXCEPT ![r].todo = @ \ {<<y, v>>}]
      /\ UNCHANGED <<image, present, settled>>
  BY DEF PinIInv, PinTypeOK, TasksFit, CreateTypePin, Task
<1>1. /\ task'[r].step = "draw" /\ task'[r].row = x /\ task'[r].copy = task[r].copy
      /\ task'[r].todo = task[r].todo \ {<<y, v>>} /\ task'[r].alone = task[r].alone
      /\ Own(r) /\ task' \in [PinRequest -> Task]
  BY <1>0 DEF PinIInv, PinTypeOK, Task, Own
<1>2. /\ d \in PairsOf(x) /\ d \in Pair
      /\ drawn'[d] \in Upload \X Upload /\ drawn'[d] # NoImage
      /\ \A c \in Pair \ {d} : drawn'[c] = drawn[c]
      /\ drawn' \in [Pair -> {NoImage} \cup (Upload \X Upload)]
  <2>1. d \in PairsOf(x) /\ d \in Pair
    BY <1>0, PairFacts
  <2>2. drawn'[d] \in Upload \X Upload /\ \A c \in Pair \ {d} : drawn'[c] = drawn[c]
    BY <1>0, <2>1 DEF PinIInv, PinTypeOK
  <2> QED BY <1>0, <2>1, <2>2, PinAssumption DEF PinIInv, PinTypeOK
<1>3. PinTypeOK'
  BY <1>0, <1>1, <1>2 DEF PinIInv, PinTypeOK
<1>4. TasksFit' /\ AloneIsOnly' /\ DrawnIsUnsettled'
  BY <1>0, <1>1 DEF PinIInv, TasksFit, AloneIsOnly, DrawnIsUnsettled, Own
<1>5. AloneIsCurrent'
  <2> SUFFICES ASSUME NEW q \in PinRequest, task'[q].alone
      PROVE  ReadIsCurrent(q)'
    BY DEF AloneIsCurrent
  <2>1. CASE q = r
    <3>1. ReadIsCurrent(r)
      BY <1>1, <2>1 DEF PinIInv, AloneIsCurrent
    <3>2. task[r].copy = image[x] /\ v = image[y]
      BY <1>0, <3>1 DEF ReadIsCurrent
    <3>3. drawn'[d] = Current(d)
      BY <1>0, <1>2, <3>2 DEF Current, PairOf, PinIInv, PinTypeOK
    <3>4. \A z \in Others(x) : z # y => PairOf(x, z) \in Pair \ {d}
      BY <1>0, PairFacts
    <3>5. \A z \in Others(x) \cap present :
             <<z, image[z]>> \in task'[r].todo
               \/ drawn'[PairOf(x, z)] = Current(PairOf(x, z))
      BY <1>0, <1>1, <1>2, <3>1, <3>3, <3>4 DEF ReadIsCurrent
    <3>6. \A e \in task'[r].todo : e[2] = image[e[1]]
      BY <1>0, <1>1, <3>1 DEF ReadIsCurrent
    <3> QED BY <1>0, <1>1, <2>1, <3>2, <3>5, <3>6 DEF ReadIsCurrent, Current
  <2>2. CASE q # r
    <3>1. task[r].step # "idle" /\ task'[q] = task[q]
      BY <1>0, <1>1, <2>2 DEF Own
    <3>2. FALSE
      BY <2>2, <3>1 DEF PinIInv, AloneIsOnly
    <3> QED BY <3>2
  <2> QED BY <2>1, <2>2
<1>6. \A q \in PinRequest, c \in Pair \ {d} : WillDraw(q, c) => WillDraw(q, c)'
  <2> SUFFICES ASSUME NEW q \in PinRequest, NEW c \in Pair \ {d}, WillDraw(q, c)
      PROVE  WillDraw(q, c)'
    OBVIOUS
  <2>1. CASE q = r
    <3>1. PICK e \in task[r].todo : c = PairOf(x, e[1])
      BY <1>0, <2>1 DEF WillDraw
    <3>2. e \in task'[r].todo
      BY <1>1, <3>1
    <3> QED BY <1>1, <2>1, <3>1, <3>2 DEF WillDraw
  <2>2. CASE q # r
    BY <1>1, <2>2 DEF WillDraw, Own
  <2> QED BY <2>1, <2>2
<1>7. PairsCovered'
  BY <1>0, <1>2, <1>6 DEF PinIInv, PairsCovered
<1>8. SettledIsCurrent'
  <2>1. d \notin settled
    BY <1>0, <1>2 DEF PinIInv, DrawnIsUnsettled
  <2> QED BY <1>0, <1>2, <2>1 DEF PinIInv, PinTypeOK, SettledIsCurrent
<1> QED BY <1>3, <1>4, <1>5, <1>7, <1>8 DEF PinIInv

LEMMA FinishDrawingStep ==
    ASSUME PinIInv, NEW r \in PinRequest, FinishDrawing(r)
    PROVE  PinIInv'
<1> DEFINE x == task[r].row
           new == {PairOf(x, y) : y \in Others(x) \cap present}
<1>0. /\ task[r].step = "draw" /\ x \in Drawable /\ task[r].todo = {}
      /\ settled' = IF task[r].alone THEN settled \cup new ELSE settled
      /\ task' = [task EXCEPT ![r] = NoTask]
      /\ UNCHANGED <<image, present, drawn, failed>>
  BY DEF PinIInv, TasksFit, FinishDrawing
<1>1. task'[r] = NoTask /\ Own(r) /\ task' \in [PinRequest -> Task]
  BY <1>0, NoTaskTyped DEF PinIInv, PinTypeOK, Own
<1>2. new \subseteq PairsOf(x) /\ new \subseteq Pair
  BY <1>0, PairFacts
<1>3. PinTypeOK'
  BY <1>0, <1>1, <1>2 DEF PinIInv, PinTypeOK
<1>4. TasksFit' /\ AloneIsOnly'
  BY <1>1, NoTaskTyped DEF PinIInv, TasksFit, AloneIsOnly, Own
<1>5. AloneIsCurrent'
  <2>1. AloneIsCurrent /\ task'[r].alone = FALSE
    BY <1>1, NoTaskTyped DEF PinIInv
  <2> QED BY <1>0, <1>1, <2>1, StillCurrent
<1>6. DrawnIsUnsettled'
  <2>1. CASE task[r].alone
    <3>1. \A q \in PinRequest : task'[q].step = "idle"
      BY <1>1, <2>1, NoTaskTyped DEF PinIInv, AloneIsOnly, Own
    <3> QED BY <3>1 DEF DrawnIsUnsettled
  <2>2. CASE ~task[r].alone
    BY <1>0, <1>1, <2>2, NoTaskTyped DEF PinIInv, DrawnIsUnsettled, Own
  <2> QED BY <2>1, <2>2
<1>7. PairsCovered'
  <2>1. \A c \in Pair : ~WillDraw(r, c)
    BY <1>0 DEF WillDraw
  <2>2. \A q \in PinRequest \ {r}, c \in Pair : WillDraw(q, c) => WillDraw(q, c)'
    BY <1>1 DEF WillDraw, Own
  <2> QED BY <1>0, <2>1, <2>2 DEF PinIInv, PairsCovered
<1>8. SettledIsCurrent'
  <2>1. ASSUME task[r].alone, NEW c \in new
        PROVE  drawn[c] = <<image[c[1]], image[c[2]]>>
    <3>1. ReadIsCurrent(r)
      BY <2>1 DEF PinIInv, AloneIsCurrent
    <3>2. PICK y \in Others(x) \cap present : c = PairOf(x, y)
      BY <2>1
    <3> QED BY <1>0, <3>1, <3>2 DEF ReadIsCurrent, Current
  <2> HIDE DEF new
  <2> QED BY <1>0, <2>1 DEF PinIInv, SettledIsCurrent
<1> QED BY <1>3, <1>4, <1>5, <1>6, <1>7, <1>8 DEF PinIInv

-----------------------------------------------------------------------------
(* Theorems                                                                *)

\* The inductive invariant: what a request that nobody disturbs has read is still
\* so, and every pair is drawn, to be drawn, or left out.
THEOREM PinInvariant == PinSpec => []PinIInv
<1>1. PinInit => PinIInv
  BY PinInitial
<1>2. PinIInv /\ [PinNext]_pinVars => PinIInv'
  <2> SUFFICES ASSUME PinIInv, [PinNext]_pinVars
      PROVE  PinIInv'
    OBVIOUS
  <2>1. ASSUME NEW x \in Drawable, RemoveRow(x) PROVE PinIInv'
    BY <2>1, RemoveRowStep
  <2>2. ASSUME NEW r \in PinRequest, NEW x \in Drawable, Create(r, x) PROVE PinIInv'
    BY <2>2, CreateStep
  <2>3. ASSUME NEW r \in PinRequest, NEW x \in Drawable, ReadRow(r, x) PROVE PinIInv'
    BY <2>3, ReadRowStep
  <2>4. ASSUME NEW r \in PinRequest, SaveDrawable(r) PROVE PinIInv'
    BY <2>4, SaveDrawableStep
  <2>5. ASSUME NEW r \in PinRequest, ListOthers(r) PROVE PinIInv'
    BY <2>5, ListOthersStep
  <2>6. ASSUME NEW r \in PinRequest, GroupsRefused(r) PROVE PinIInv'
    BY <2>6, GroupsRefusedStep
  <2>7. ASSUME NEW r \in PinRequest, DrawingFails(r) PROVE PinIInv'
    BY <2>7, DrawingFailsStep
  <2>8. ASSUME NEW r \in PinRequest, FinishDrawing(r) PROVE PinIInv'
    BY <2>8, FinishDrawingStep
  <2>9. ASSUME NEW r \in PinRequest, NEW y \in Drawable, NEW v \in Upload,
               CreateTypePin(r, y, v)
        PROVE  PinIInv'
    BY <2>9, CreateTypePinStep
  <2>10. CASE UNCHANGED pinVars
    <3>1. UNCHANGED <<image, present, drawn, task, failed, settled>>
      BY <2>10 DEF pinVars
    <3>2. (PinTypeOK /\ TasksFit /\ AloneIsOnly /\ DrawnIsUnsettled)'
      BY <3>1 DEF PinIInv, PinTypeOK, TasksFit, AloneIsOnly, DrawnIsUnsettled
    <3>3. AloneIsCurrent'
      BY <3>1 DEF PinIInv, AloneIsCurrent, ReadIsCurrent, Current
    <3>4. PairsCovered' /\ SettledIsCurrent'
      BY <3>1 DEF PinIInv, PairsCovered, WillDraw, SettledIsCurrent
    <3> QED BY <3>2, <3>3, <3>4 DEF PinIInv
  <2> QED BY <2>1, <2>2, <2>3, <2>4, <2>5, <2>6, <2>7, <2>8, <2>9, <2>10 DEF PinNext
<1> QED BY <1>1, <1>2, PTL DEF PinSpec

\* CreatePin, CreateMarkerType and their like, whoever else is at work: no pair of
\* a pin and a type is overlooked, and what was drawn undisturbed stays that of the
\* pair (service/type_pin.go).
THEOREM ImagesCorrect == PinSpec => []ImagesAgree
<1>1. PinIInv => ImagesAgree
  BY DEF PinIInv, ImagesAgree
<1> QED BY <1>1, PinInvariant, PTL

-----------------------------------------------------------------------------
(* Pin groups                                                              *)

\* What a request has in hand.
SettingOK(r) ==
    /\ setting[r].step \in {"assign", "commit"} => setting[r].pin \in GroupedPin
    /\ setting[r].step \in {"rename", "erase", "remove"} =>
          setting[r].id \in PinGroup /\ group[setting[r].id].status # "unused"

Commits(r, p) == setting[r].step = "commit" /\ setting[r].pin = p

\* Assignments of a pin that did not run at the same time: one of them is being
\* written, and it has seen all that the next one replaces.
InTurn(p) ==
    p \notin overlaid =>
      /\ \A e, f \in assigned : e[1] = p /\ f[1] = p => e = f
      /\ \A r, q \in GroupRequest : Commits(r, p) /\ Commits(q, p) => r = q
      /\ \A r \in GroupRequest : Commits(r, p) => RowsOf(p) \subseteq setting[r].rows

Going(g) ==
    \/ group[g].status = "deleted"
    \/ \E r \in GroupRequest : setting[r].step = "remove" /\ setting[r].id = g

\* A group that goes away has no pins and is not about to get one.
Left(g) == g \notin reused /\ Going(g) => Using(g) = {} /\ \A e \in assigned : e[2] # g

GroupIInv ==
    /\ GroupTypeOK
    /\ \A r \in GroupRequest : SettingOK(r)
    /\ \A p \in GroupedPin : InTurn(p)
    /\ \A g \in PinGroup : Left(g)

LEMMA GroupInitial == GroupInit => GroupIInv
<1> SUFFICES ASSUME GroupInit PROVE GroupIInv
  OBVIOUS
<1>1. NotSetting \in Setting /\ NotSetting.step = "idle"
  BY DEF NotSetting, Setting
<1>2. [status |-> "unused", name |-> NoGroup] \in GroupRow
  BY DEF GroupRow
<1>3. GroupTypeOK
  BY <1>1, <1>2 DEF GroupInit, GroupTypeOK
<1>4. \A r \in GroupRequest : setting[r].step = "idle"
  BY <1>1 DEF GroupInit
<1>5. \A p \in GroupedPin : InTurn(p)
  BY <1>4 DEF GroupInit, InTurn, Commits
<1>6. \A g \in PinGroup : group[g].status = "unused"
  BY DEF GroupInit
<1>7. \A g \in PinGroup : Left(g)
  BY <1>4, <1>6 DEF Left, Going
<1> QED BY <1>3, <1>4, <1>5, <1>7 DEF GroupIInv, SettingOK

\* What a request has in hand, and how it goes on.
LEMMA SettingTypes ==
    ASSUME GroupIInv, NEW r \in GroupRequest
    PROVE  /\ setting[r] \in Setting
           /\ setting[r].step \in {"idle", "assign", "commit", "rename", "erase", "remove"}
           /\ setting[r].rows \subseteq GroupedPin \X PinGroup
           /\ setting[r].pin \in GroupedPin \cup {NoGroup}
           /\ setting[r].id \in PinGroup \cup {NoGroup}
           /\ SettingOK(r)
           /\ NotSetting \in Setting /\ NotSetting.step = "idle"
  BY DEF GroupIInv, GroupTypeOK, Setting, NotSetting

LEMMA GoesOnIs ==
    ASSUME GroupIInv, NEW r \in GroupRequest, NEW c \in Setting, GoesOn(r, c)
    PROVE  /\ setting' \in [GroupRequest -> Setting]
           /\ setting'[r] = c
           /\ \A q \in GroupRequest \ {r} : setting'[q] = setting[q]
  BY DEF GroupIInv, GroupTypeOK, GoesOn

\* A request that neither assigns a pin nor removes a group goes on.
LEMMA AsideKeeps ==
    ASSUME GroupIInv, NEW r \in GroupRequest, NEW c \in Setting, GoesOn(r, c),
           c.step \in {"idle", "rename", "erase"},
           c.step # "idle" => c.id \in PinGroup /\ group[c.id].status # "unused",
           assigned' = assigned, overlaid' = overlaid, reused' = reused,
           group' \in [PinGroup -> GroupRow],
           \A g, h \in PinGroup : group'[g].name = group'[h].name /\ g # h
                                => group'[g].status = "unused",
           \A g \in PinGroup : /\ group'[g].status = "deleted" => Going(g)
                               /\ group[g].status # "unused" => group'[g].status # "unused"
    PROVE  GroupIInv'
<1>1. /\ setting' \in [GroupRequest -> Setting]
      /\ setting'[r] = c
      /\ \A q \in GroupRequest \ {r} : setting'[q] = setting[q]
  BY GoesOnIs
<1>2. GroupTypeOK'
  BY <1>1 DEF GroupIInv, GroupTypeOK
<1>3. ASSUME NEW q \in GroupRequest PROVE SettingOK(q)'
  <2>1. CASE q = r
    BY <1>1, <2>1 DEF SettingOK
  <2>2. CASE q # r
    <3>1. SettingOK(q) /\ setting'[q] = setting[q]
      BY <1>1, <2>2 DEF GroupIInv
    <3> QED BY <3>1 DEF SettingOK
  <2> QED BY <2>1, <2>2
<1>4. ASSUME NEW p \in GroupedPin PROVE InTurn(p)'
  <2>1. \A q \in GroupRequest : Commits(q, p)' => Commits(q, p) /\ setting'[q].rows = setting[q].rows
    BY <1>1 DEF Commits
  <2>2. InTurn(p) /\ RowsOf(p)' = RowsOf(p)
    BY DEF GroupIInv, RowsOf
  <2> QED BY <2>1, <2>2 DEF InTurn
<1>5. ASSUME NEW g \in PinGroup PROVE Left(g)'
  <2>1. Using(g)' \subseteq Using(g)
    BY <1>1 DEF Using
  <2>2. Going(g)' => Going(g)
    BY <1>1 DEF Going
  <2> QED BY <2>1, <2>2 DEF Left, GroupIInv
<1> QED BY <1>2, <1>3, <1>4, <1>5 DEF GroupIInv

LEMMA CreatePinGroupKeeps ==
    ASSUME GroupIInv, NEW g \in PinGroup, NEW n \in GroupName, CreatePinGroup(g, n)
    PROVE  GroupIInv'
<1>1. /\ group[g].status = "unused" /\ NameIsFree(n, g)
      /\ group' = [group EXCEPT ![g] = [status |-> "live", name |-> n]]
      /\ assigned' = assigned /\ setting' = setting /\ overlaid' = overlaid /\ reused' = reused
  BY DEF CreatePinGroup
<1>2. [status |-> "live", name |-> n] \in GroupRow
  BY DEF GroupRow
<1>3. /\ group' \in [PinGroup -> GroupRow] /\ group'[g].status = "live" /\ group'[g].name = n
      /\ \A h \in PinGroup \ {g} : group'[h] = group[h]
  BY <1>1, <1>2 DEF GroupIInv, GroupTypeOK
<1>4. GroupTypeOK'
  BY <1>1, <1>3 DEF GroupIInv, GroupTypeOK, NameIsFree
<1>5. \A q \in GroupRequest : SettingOK(q)'
  BY <1>1, <1>3 DEF GroupIInv, SettingOK
<1>6. \A p \in GroupedPin : InTurn(p)'
  BY <1>1 DEF GroupIInv, InTurn, Commits, RowsOf
<1>7. ASSUME NEW h \in PinGroup PROVE Left(h)'
  <2>1. Going(h)' => Going(h)
    BY <1>1, <1>3 DEF Going
  <2> QED BY <1>1, <2>1 DEF GroupIInv, Left, Using
<1> QED BY <1>4, <1>5, <1>6, <1>7 DEF GroupIInv

LEMMA ReadGroupKeeps ==
    ASSUME GroupIInv, NEW r \in GroupRequest, NEW g \in PinGroup, NEW step \in {"rename", "erase"},
           ReadGroup(r, g, step)
    PROVE  GroupIInv'
<1> DEFINE c == [NotSetting EXCEPT !.step = step, !.id = g]
<1>1. c \in Setting /\ c.step = step /\ c.id = g
  BY DEF NotSetting, Setting
<1>2. GoesOn(r, c) /\ group[g].status = "live"
      /\ group' = group /\ assigned' = assigned /\ overlaid' = overlaid /\ reused' = reused
  BY DEF ReadGroup, LiveGroup
<1> HIDE DEF c
<1>3. /\ group' \in [PinGroup -> GroupRow]
      /\ \A h, k \in PinGroup : group'[h].name = group'[k].name /\ h # k
                                => group'[h].status = "unused"
  BY <1>2 DEF GroupIInv, GroupTypeOK
<1>4. \A h \in PinGroup : /\ group'[h].status = "deleted" => Going(h)
                          /\ group[h].status # "unused" => group'[h].status # "unused"
  BY <1>2 DEF Going
<1>5. c.step \in {"idle", "rename", "erase"} /\ group[c.id].status # "unused" /\ c.id \in PinGroup
  BY <1>1, <1>2
<1> QED BY <1>1, <1>2, <1>3, <1>4, <1>5, AsideKeeps

LEMMA UpdatePinGroupKeeps ==
    ASSUME GroupIInv, NEW r \in GroupRequest, NEW n \in GroupName, UpdatePinGroup(r, n)
    PROVE  GroupIInv'
<1> DEFINE g == setting[r].id
<1>1. /\ setting[r].step = "rename" /\ NameIsFree(n, g)
      /\ group' = [group EXCEPT ![g] = [status |-> "live", name |-> n]]
      /\ GoesOn(r, NotSetting)
      /\ assigned' = assigned /\ overlaid' = overlaid /\ reused' = reused
  BY DEF UpdatePinGroup
<1>2. g \in PinGroup /\ NotSetting \in Setting /\ NotSetting.step = "idle"
  BY <1>1, SettingTypes DEF SettingOK
<1>3. [status |-> "live", name |-> n] \in GroupRow
  BY DEF GroupRow
<1> HIDE DEF g
<1>4. /\ group' \in [PinGroup -> GroupRow] /\ group'[g].status = "live" /\ group'[g].name = n
      /\ \A h \in PinGroup \ {g} : group'[h] = group[h]
  BY <1>1, <1>2, <1>3 DEF GroupIInv, GroupTypeOK
<1>5. \A h, k \in PinGroup : group'[h].name = group'[k].name /\ h # k
                                => group'[h].status = "unused"
  BY <1>1, <1>4 DEF GroupIInv, GroupTypeOK, NameIsFree
<1>6. \A h \in PinGroup : /\ group'[h].status = "deleted" => Going(h)
                          /\ group[h].status # "unused" => group'[h].status # "unused"
  BY <1>4 DEF Going
<1> QED BY <1>1, <1>2, <1>4, <1>5, <1>6, AsideKeeps

\* The group of a request that removes it has no pins already.
LEMMA RemoveGroupKeeps ==
    ASSUME GroupIInv, NEW r \in GroupRequest, RemoveGroup(r)
    PROVE  GroupIInv'
<1> DEFINE g == setting[r].id
<1>1. /\ setting[r].step = "remove"
      /\ group' = [group EXCEPT ![g].status = "deleted"]
      /\ GoesOn(r, NotSetting)
      /\ assigned' = assigned /\ overlaid' = overlaid /\ reused' = reused
  BY DEF RemoveGroup
<1>2. g \in PinGroup /\ group[g].status # "unused" /\ NotSetting \in Setting /\ NotSetting.step = "idle"
  BY <1>1, SettingTypes DEF SettingOK
<1>3. Going(g)
  BY <1>1 DEF Going
<1> HIDE DEF g
<1>4. /\ group' \in [PinGroup -> GroupRow] /\ group'[g].status = "deleted"
      /\ group'[g].name = group[g].name
      /\ \A h \in PinGroup \ {g} : group'[h] = group[h]
  <2>1. group \in [PinGroup -> GroupRow] /\ group[g] \in GroupRow
    BY <1>2 DEF GroupIInv, GroupTypeOK
  <2>2. /\ [group[g] EXCEPT !.status = "deleted"] \in GroupRow
        /\ [group[g] EXCEPT !.status = "deleted"].status = "deleted"
        /\ [group[g] EXCEPT !.status = "deleted"].name = group[g].name
    BY <2>1 DEF GroupRow
  <2>3. group' = [group EXCEPT ![g] = [group[g] EXCEPT !.status = "deleted"]]
    BY <1>1, <1>2, <2>1
  <2> QED BY <1>2, <2>1, <2>2, <2>3
<1>5. \A h, k \in PinGroup : group'[h].name = group'[k].name /\ h # k
                                => group'[h].status = "unused"
  <2>1. \A h \in PinGroup : group'[h].name = group[h].name
    BY <1>4
  <2>2. \A h, k \in PinGroup : group[h].name = group[k].name /\ h # k
                                 => group[h].status = "unused" /\ h # g
    BY <1>2 DEF GroupIInv, GroupTypeOK
  <2> QED BY <1>4, <2>1, <2>2
<1>6. \A h \in PinGroup : /\ group'[h].status = "deleted" => Going(h)
                          /\ group[h].status # "unused" => group'[h].status # "unused"
  BY <1>3, <1>4 DEF Going
<1> QED BY <1>1, <1>2, <1>4, <1>5, <1>6, AsideKeeps

LEMMA GroupRequestFailsKeeps ==
    ASSUME GroupIInv, NEW r \in GroupRequest, GroupRequestFails(r)
    PROVE  GroupIInv'
<1>1. GoesOn(r, NotSetting)
      /\ group' = group /\ assigned' = assigned /\ overlaid' = overlaid /\ reused' = reused
  BY DEF GroupRequestFails
<1>2. NotSetting \in Setting /\ NotSetting.step = "idle"
  BY SettingTypes
<1>3. /\ group' \in [PinGroup -> GroupRow]
      /\ \A h, k \in PinGroup : group'[h].name = group'[k].name /\ h # k
                                => group'[h].status = "unused"
  BY <1>1 DEF GroupIInv, GroupTypeOK
<1>4. \A h \in PinGroup : /\ group'[h].status = "deleted" => Going(h)
                          /\ group[h].status # "unused" => group'[h].status # "unused"
  BY <1>1 DEF Going
<1> QED BY <1>1, <1>2, <1>3, <1>4, AsideKeeps

LEMMA EraseAssignmentsKeeps ==
    ASSUME GroupIInv, NEW r \in GroupRequest, EraseAssignments(r)
    PROVE  GroupIInv'
<1> DEFINE g == setting[r].id
           c == [setting[r] EXCEPT !.step = "remove"]
<1>1. /\ setting[r].step = "erase" /\ GoesOn(r, c)
      /\ assigned' = assigned \ {e \in assigned : e[2] = g}
      /\ reused' = IF Using(g) = {} THEN reused ELSE reused \cup {g}
      /\ group' = group /\ overlaid' = overlaid
  BY DEF EraseAssignments
<1>2. g \in PinGroup /\ group[g].status # "unused" /\ setting[r] \in Setting
  BY <1>1, SettingTypes DEF SettingOK
<1>3. c \in Setting /\ c.step = "remove" /\ c.id = g
  BY <1>2 DEF Setting
<1> HIDE DEF c, g
<1>4. /\ setting' \in [GroupRequest -> Setting]
      /\ setting'[r] = c
      /\ \A q \in GroupRequest \ {r} : setting'[q] = setting[q]
  BY <1>1, <1>3, GoesOnIs
<1>5. GroupTypeOK'
  BY <1>1, <1>2, <1>4 DEF GroupIInv, GroupTypeOK
<1>6. ASSUME NEW q \in GroupRequest PROVE SettingOK(q)'
  BY <1>1, <1>2, <1>3, <1>4 DEF GroupIInv, SettingOK
<1>7. ASSUME NEW p \in GroupedPin PROVE InTurn(p)'
  <2>1. \A q \in GroupRequest : Commits(q, p)' => Commits(q, p) /\ setting'[q].rows = setting[q].rows
    BY <1>3, <1>4 DEF Commits
  <2>2. InTurn(p) /\ RowsOf(p)' \subseteq RowsOf(p) /\ assigned' \subseteq assigned
    BY <1>1 DEF GroupIInv, RowsOf
  <2> QED BY <1>1, <2>1, <2>2 DEF InTurn
<1>8. ASSUME NEW h \in PinGroup PROVE Left(h)'
  <2>1. Using(h)' \subseteq Using(h)
    BY <1>3, <1>4 DEF Using
  <2>2. CASE h = g
    BY <1>1, <2>1, <2>2 DEF Left
  <2>3. CASE h # g
    <3>1. Going(h)' => Going(h)
      BY <1>1, <1>3, <1>4, <2>3 DEF Going
    <3> QED BY <1>1, <2>1, <2>3, <3>1 DEF Left, GroupIInv
  <2> QED BY <2>2, <2>3
<1> QED BY <1>5, <1>6, <1>7, <1>8 DEF GroupIInv

LEMMA CheckAssignmentKeeps ==
    ASSUME GroupIInv, NEW r \in GroupRequest, NEW p \in GroupedPin,
           NEW g \in PinGroup \cup {NoGroup}, CheckAssignment(r, p, g)
    PROVE  GroupIInv'
<1> DEFINE c == [NotSetting EXCEPT !.step = "assign", !.pin = p, !.id = g]
<1>1. /\ g # NoGroup => LiveGroup(g)
      /\ GoesOn(r, c)
      /\ reused' = IF \E q \in GroupRequest : setting[q].step = "remove" /\ setting[q].id = g
                   THEN reused \cup {g} ELSE reused
      /\ group' = group /\ assigned' = assigned /\ overlaid' = overlaid
  BY DEF CheckAssignment
<1>2. c \in Setting /\ c.step = "assign" /\ c.id = g /\ c.pin = p
  BY DEF NotSetting, Setting
<1> HIDE DEF c
<1>3. /\ setting' \in [GroupRequest -> Setting]
      /\ setting'[r] = c
      /\ \A q \in GroupRequest \ {r} : setting'[q] = setting[q]
  BY <1>1, <1>2, GoesOnIs
<1>4. reused' \subseteq PinGroup
  <2>1. ASSUME NEW q \in GroupRequest, setting[q].step = "remove", setting[q].id = g
        PROVE  g \in PinGroup
    BY <2>1, SettingTypes DEF SettingOK
  <2> QED BY <1>1, <2>1 DEF GroupIInv, GroupTypeOK
<1>5. GroupTypeOK'
  BY <1>1, <1>3, <1>4 DEF GroupIInv, GroupTypeOK
<1>6. ASSUME NEW q \in GroupRequest PROVE SettingOK(q)'
  BY <1>1, <1>2, <1>3 DEF GroupIInv, SettingOK
<1>7. ASSUME NEW k \in GroupedPin PROVE InTurn(k)'
  <2>1. \A q \in GroupRequest : Commits(q, k)' => Commits(q, k) /\ setting'[q].rows = setting[q].rows
    BY <1>2, <1>3 DEF Commits
  <2>2. InTurn(k) /\ RowsOf(k)' = RowsOf(k)
    BY <1>1 DEF GroupIInv, RowsOf
  <2> QED BY <1>1, <2>1, <2>2 DEF InTurn
<1>8. ASSUME NEW h \in PinGroup PROVE Left(h)'
  <2>1. Going(h)' => Going(h)
    BY <1>1, <1>2, <1>3 DEF Going
  <2>2. CASE h = g
    <3>1. group[h].status = "live"
      BY <1>1, <2>2, GroupAssumption DEF LiveGroup
    <3>2. h \notin reused' => ~Going(h)
      BY <1>1, <2>2, <3>1 DEF Going
    <3> QED BY <2>1, <3>2 DEF Left
  <2>3. CASE h # g
    <3>1. Using(h)' \subseteq Using(h)
      BY <1>2, <1>3, <2>3 DEF Using
    <3> QED BY <1>1, <2>1, <3>1 DEF Left, GroupIInv
  <2> QED BY <2>2, <2>3
<1> QED BY <1>5, <1>6, <1>7, <1>8 DEF GroupIInv

LEMMA ErasePinRowsKeeps ==
    ASSUME GroupIInv, NEW r \in GroupRequest, ErasePinRows(r)
    PROVE  GroupIInv'
<1> DEFINE p == setting[r].pin
           c == [setting[r] EXCEPT !.step = "commit", !.rows = RowsOf(p)]
<1>1. /\ setting[r].step = "assign" /\ GoesOn(r, c)
      /\ overlaid' = IF \E q \in GroupRequest : Commits(q, p)
                     THEN overlaid \cup {p} ELSE overlaid
      /\ group' = group /\ assigned' = assigned /\ reused' = reused
  BY DEF ErasePinRows, Commits
<1>2. p \in GroupedPin /\ setting[r] \in Setting
  BY <1>1, SettingTypes DEF SettingOK
<1>3. c \in Setting /\ c.step = "commit" /\ c.pin = p /\ c.id = setting[r].id /\ c.rows = RowsOf(p)
  <2>1. RowsOf(p) \subseteq GroupedPin \X PinGroup
    BY DEF RowsOf, GroupIInv, GroupTypeOK
  <2> QED BY <1>2, <2>1 DEF Setting
<1> HIDE DEF c, p
<1>4. /\ setting' \in [GroupRequest -> Setting]
      /\ setting'[r] = c
      /\ \A q \in GroupRequest \ {r} : setting'[q] = setting[q]
  BY <1>1, <1>3, GoesOnIs
<1>5. GroupTypeOK'
  BY <1>1, <1>2, <1>4 DEF GroupIInv, GroupTypeOK
<1>6. ASSUME NEW q \in GroupRequest PROVE SettingOK(q)'
  BY <1>1, <1>2, <1>3, <1>4 DEF GroupIInv, SettingOK
<1>7. ASSUME NEW k \in GroupedPin PROVE InTurn(k)'
  <2>1. InTurn(k) /\ RowsOf(k)' = RowsOf(k)
    BY <1>1 DEF GroupIInv, RowsOf
  <2>2. \A q \in GroupRequest \ {r} : Commits(q, k)' <=> Commits(q, k)
    BY <1>4 DEF Commits
  <2>3. CASE k # p
    <3>1. ~Commits(r, k)'
      BY <1>3, <1>4, <2>3 DEF Commits
    <3> QED BY <1>1, <1>4, <2>1, <2>2, <2>3, <3>1 DEF InTurn
  <2>4. CASE k = p
    <3> SUFFICES ASSUME k \notin overlaid'
                 PROVE  /\ \A e, f \in assigned' : e[1] = k /\ f[1] = k => e = f
                        /\ \A s, q \in GroupRequest : Commits(s, k)' /\ Commits(q, k)' => s = q
                        /\ \A q \in GroupRequest : Commits(q, k)' => RowsOf(k)' \subseteq setting'[q].rows
      BY DEF InTurn
    <3>1. k \notin overlaid /\ \A q \in GroupRequest : ~Commits(q, k)
      BY <1>1, <2>4
    <3>2. \A q \in GroupRequest : Commits(q, k)' => q = r
      BY <2>2, <3>1
    <3> QED BY <1>1, <1>3, <1>4, <2>1, <2>4, <3>1, <3>2 DEF InTurn
  <2> QED BY <2>3, <2>4
<1>8. ASSUME NEW h \in PinGroup PROVE Left(h)'
  <2>1. Using(h)' = Using(h)
    BY <1>1, <1>3, <1>4 DEF Using
  <2>2. Going(h)' => Going(h)
    BY <1>1, <1>3, <1>4 DEF Going
  <2> QED BY <1>1, <2>1, <2>2 DEF Left, GroupIInv
<1> QED BY <1>5, <1>6, <1>7, <1>8 DEF GroupIInv

LEMMA CommitAssignmentKeeps ==
    ASSUME GroupIInv, NEW r \in GroupRequest, CommitAssignment(r)
    PROVE  GroupIInv'
<1> DEFINE p == setting[r].pin
           g == setting[r].id
           own == IF g = NoGroup THEN {} ELSE {<<p, g>>}
<1>1. /\ setting[r].step = "commit" /\ GoesOn(r, NotSetting)
      /\ assigned' = (assigned \ setting[r].rows) \cup own
      /\ group' = group /\ overlaid' = overlaid /\ reused' = reused
  BY DEF CommitAssignment
<1>2. p \in GroupedPin /\ g \in PinGroup \cup {NoGroup} /\ NotSetting \in Setting
      /\ NotSetting.step = "idle"
  BY <1>1, SettingTypes DEF SettingOK
<1>3. \A e \in own : e = <<p, g>> /\ g \in PinGroup
  BY <1>2
<1> HIDE DEF own, g, p
<1>4. /\ setting' \in [GroupRequest -> Setting]
      /\ setting'[r] = NotSetting
      /\ \A q \in GroupRequest \ {r} : setting'[q] = setting[q]
  BY <1>1, <1>2, GoesOnIs
<1>5. GroupTypeOK'
  <2>1. assigned' \subseteq GroupedPin \X PinGroup
    BY <1>1, <1>2, <1>3 DEF GroupIInv, GroupTypeOK
  <2> QED BY <1>1, <1>4, <2>1 DEF GroupIInv, GroupTypeOK
<1>6. ASSUME NEW q \in GroupRequest PROVE SettingOK(q)'
  BY <1>1, <1>2, <1>4 DEF GroupIInv, SettingOK
<1>7. ASSUME NEW k \in GroupedPin PROVE InTurn(k)'
  <2> SUFFICES ASSUME k \notin overlaid
               PROVE  /\ \A e, f \in assigned' : e[1] = k /\ f[1] = k => e = f
                      /\ \A s, q \in GroupRequest : Commits(s, k)' /\ Commits(q, k)' => s = q
                      /\ \A q \in GroupRequest : Commits(q, k)' => RowsOf(k)' \subseteq setting'[q].rows
    BY <1>1 DEF InTurn
  <2>1. /\ \A e, f \in assigned : e[1] = k /\ f[1] = k => e = f
        /\ \A s, q \in GroupRequest : Commits(s, k) /\ Commits(q, k) => s = q
        /\ \A q \in GroupRequest : Commits(q, k) => RowsOf(k) \subseteq setting[q].rows
    BY DEF GroupIInv, InTurn
  <2>2. \A q \in GroupRequest : Commits(q, k)' => /\ Commits(q, k) /\ q # r
                                                 /\ setting'[q].rows = setting[q].rows
    BY <1>2, <1>4 DEF Commits
  <2>3. CASE k = p
    <3>1. Commits(r, k)
      BY <1>1, <2>3 DEF Commits, p
    <3>2. \A q \in GroupRequest : ~Commits(q, k)'
      BY <2>1, <2>2, <3>1
    <3>3. \A e \in assigned' : e[1] = k => e = <<p, g>>
      BY <1>1, <1>3, <2>1, <3>1 DEF RowsOf
    <3> QED BY <3>2, <3>3
  <2>4. CASE k # p
    <3>1. \A e \in assigned' : e[1] = k => e \in assigned
      BY <1>1, <1>3, <2>4
    <3>2. RowsOf(k)' \subseteq RowsOf(k)
      BY <3>1 DEF RowsOf
    <3> QED BY <2>1, <2>2, <3>1, <3>2
  <2> QED BY <2>3, <2>4
<1>8. ASSUME NEW h \in PinGroup PROVE Left(h)'
  <2>1. Using(h)' \subseteq Using(h)
    BY <1>2, <1>4 DEF Using
  <2>2. Going(h)' => Going(h)
    BY <1>1, <1>2, <1>4 DEF Going
  <2>3. Left(h)
    BY DEF GroupIInv
  <2>4. CASE h = g
    <3>1. r \in Using(h)
      BY <1>1, <2>4 DEF Using, g
    <3> QED BY <1>1, <2>2, <2>3, <3>1 DEF Left
  <2>5. CASE h # g
    <3>1. \A e \in assigned' : e[2] = h => e \in assigned
      BY <1>1, <1>3, <2>5
    <3> QED BY <1>1, <2>1, <2>2, <2>3, <3>1 DEF Left
  <2> QED BY <2>4, <2>5
<1> QED BY <1>5, <1>6, <1>7, <1>8 DEF GroupIInv

LEMMA GroupStepKeeps == GroupIInv /\ [GroupNext]_groupVars => GroupIInv'
<1> SUFFICES ASSUME GroupIInv, [GroupNext]_groupVars PROVE GroupIInv'
  OBVIOUS
<1>1. CASE UNCHANGED groupVars
  <2>1. group' = group /\ assigned' = assigned /\ setting' = setting /\ overlaid' = overlaid
        /\ reused' = reused
    BY <1>1 DEF groupVars
  <2>2. GroupTypeOK' /\ \A r \in GroupRequest : SettingOK(r)'
    BY <2>1 DEF GroupIInv, GroupTypeOK, SettingOK
  <2>3. \A p \in GroupedPin : InTurn(p)'
    BY <2>1 DEF GroupIInv, InTurn, Commits, RowsOf
  <2>4. \A g \in PinGroup : Left(g)'
    BY <2>1 DEF GroupIInv, Left, Going, Using
  <2> QED BY <2>2, <2>3, <2>4 DEF GroupIInv
<1>2. ASSUME NEW g \in PinGroup, NEW n \in GroupName, CreatePinGroup(g, n) PROVE GroupIInv'
  BY <1>2, CreatePinGroupKeeps
<1>3. ASSUME NEW r \in GroupRequest, NEW g \in PinGroup, NEW step \in {"rename", "erase"},
             ReadGroup(r, g, step)
      PROVE  GroupIInv'
  BY <1>3, ReadGroupKeeps
<1>4. ASSUME NEW r \in GroupRequest, NEW n \in GroupName, UpdatePinGroup(r, n) PROVE GroupIInv'
  BY <1>4, UpdatePinGroupKeeps
<1>5. ASSUME NEW r \in GroupRequest, EraseAssignments(r) PROVE GroupIInv'
  BY <1>5, EraseAssignmentsKeeps
<1>6. ASSUME NEW r \in GroupRequest, RemoveGroup(r) PROVE GroupIInv'
  BY <1>6, RemoveGroupKeeps
<1>7. ASSUME NEW r \in GroupRequest, NEW p \in GroupedPin, NEW g \in PinGroup \cup {NoGroup},
             CheckAssignment(r, p, g)
      PROVE  GroupIInv'
  BY <1>7, CheckAssignmentKeeps
<1>8. ASSUME NEW r \in GroupRequest, ErasePinRows(r) PROVE GroupIInv'
  BY <1>8, ErasePinRowsKeeps
<1>9. ASSUME NEW r \in GroupRequest, CommitAssignment(r) PROVE GroupIInv'
  BY <1>9, CommitAssignmentKeeps
<1>10. ASSUME NEW r \in GroupRequest, GroupRequestFails(r) PROVE GroupIInv'
  BY <1>10, GroupRequestFailsKeeps
<1> QED BY <1>1, <1>2, <1>3, <1>4, <1>5, <1>6, <1>7, <1>8, <1>9, <1>10 DEF GroupNext

\* A pin with one row is shown once.
LEMMA OneSection ==
    ASSUME GroupIInv, NEW p \in GroupedPin \ overlaid
    PROVE  Cardinality({s \in Sections : p \in s.pins}) = 1
<1> DEFINE S == {s \in Sections : p \in s.pins}
           PinsOf(g) == {k \in GroupedPin : g \in GroupsOf(k)}
           Rest == {k \in GroupedPin : GroupsOf(k) = {}}
<1>1. \A g, h \in GroupsOf(p) : g = h
  <2> SUFFICES ASSUME NEW g \in GroupsOf(p), NEW h \in GroupsOf(p) PROVE g = h
    OBVIOUS
  <2>1. <<p, g>> \in assigned /\ <<p, h>> \in assigned
    BY DEF GroupsOf
  <2>2. <<p, g>> = <<p, h>>
    BY <2>1 DEF GroupIInv, InTurn
  <2> QED BY <2>2
<1>2. ASSUME NEW s \in Sections
      PROVE  \/ \E g \in PinGroup : s = [of |-> g, pins |-> PinsOf(g)]
             \/ s = [of |-> NoGroup, pins |-> Rest]
  BY DEF Sections
<1>3. [of |-> NoGroup, pins |-> Rest] \in Sections
  BY DEF Sections
<1>4. CASE GroupsOf(p) = {}
  <2>1. S = {[of |-> NoGroup, pins |-> Rest]}
    BY <1>2, <1>3, <1>4
  <2> QED BY <2>1, FS_Singleton
<1>5. CASE GroupsOf(p) # {}
  <2>1. PICK g \in PinGroup : g \in GroupsOf(p)
    BY <1>5 DEF GroupsOf
  <2>2. [of |-> g, pins |-> PinsOf(g)] \in Sections
    BY <2>1 DEF Sections
  <2>3. S = {[of |-> g, pins |-> PinsOf(g)]}
    <3>1. ASSUME NEW s \in S PROVE s = [of |-> g, pins |-> PinsOf(g)]
      <4>1. s \in Sections /\ p \in s.pins
        BY <3>1
      <4>2. CASE s = [of |-> NoGroup, pins |-> Rest]
        <5>1. p \in Rest
          BY <4>1, <4>2
        <5> QED BY <1>5, <5>1
      <4>3. ASSUME NEW h \in PinGroup, s = [of |-> h, pins |-> PinsOf(h)]
            PROVE  s = [of |-> g, pins |-> PinsOf(g)]
        <5>1. p \in PinsOf(h)
          BY <4>1, <4>3
        <5>2. h = g
          BY <1>1, <2>1, <5>1
        <5> QED BY <4>3, <5>2
      <4> QED BY <1>2, <4>1, <4>2, <4>3
    <3>2. [of |-> g, pins |-> PinsOf(g)] \in S
      BY <2>1, <2>2
    <3> QED BY <3>1, <3>2
  <2> QED BY <2>3, FS_Singleton
<1> QED BY <1>4, <1>5

\* In every state that is reached: types, what requests have in hand, and who
\* writes the assignment of a pin or takes a group away (pin_group.go).
THEOREM GroupInvariant == GroupSpec => []GroupIInv
  BY GroupInitial, GroupStepKeeps, PTL DEF GroupSpec

\* A pin is in one group at most, and a deleted group has no pins, as far as
\* requests did not overlap (AssignPinToGroup and RemovePinGroup).
THEOREM GroupsAgree == GroupSpec => []AssignmentsAgree
<1>1. GroupIInv => ShownOnce
  BY OneSection DEF ShownOnce
<1>2. GroupIInv => DeletedGroupHasNoPins
  BY DEF GroupIInv, Left, Going, DeletedGroupHasNoPins
<1> QED BY <1>1, <1>2, GroupInvariant, PTL DEF AssignmentsAgree

-----------------------------------------------------------------------------
(* Train stations                                                          *)

\* What train_station_lines may hold.
Catalogues == [LineId -> (StationMap \X LineName) \cup {NoLine}]

\* Tables of stations, lines and stops.
TablesOK ==
    /\ station \in [StationId -> StationRow]
    /\ line \in Catalogues
    /\ Distinct(line)
    /\ stops \subseteq StationId \X LineId
    /\ torn \subseteq StationId
    /\ \A s \in StationId : StationLive(s) => station[s].map \in StationMap

MapsOK ==
    /\ mapRow \in [StationMap -> {"absent", "live", "deleted"}]
    /\ stray \subseteq StationMap
    /\ NothingOfDeletedMap

\* What a request has in hand, overtaken or not.
Held(r) ==
    LET e == editing[r] IN
    /\ e.step # "idle" => e.map \in StationMap
    /\ e.step \in {"rename", "moved"} => e.held \in StationMap
    /\ e.step \in {"stopping", "derived", "save", "relines"} =>
          e.id \in StationId /\ e.row.status = "live" /\ e.row.map = e.map
    /\ e.step \in {"upsert", "lines", "save", "relines"} => DOMAIN e.lines = {}
    /\ e.step \in {"stopping", "derived"} =>
          e.rows \subseteq {e.id} /\ \A x \in e.erased : x[1] = e.id
    /\ e.step = "derived" => DOMAIN e.infos = {e.id}

\* What still holds of it while nobody has overtaken the request.
KnowsLines(r) ==
    LET e == editing[r] IN
    /\ e.step \in {"stopping", "derived"} =>
          /\ e.rows = {} => e.id \in LiveOf(e.map)
          /\ e.erased = StopsAt(e.id)
          /\ \A l \in DOMAIN e.lines : line[l] = <<e.map, e.lines[l]>> /\ e.lines[l] # NoLine
    /\ e.step = "derived" =>
          e.infos[e.id] = {e.lines[l] : l \in DOMAIN e.lines} \cup e.made

KnowsCatalog(r) ==
    LET e == editing[r] IN
    /\ e.step \in {"rows", "erased", "rebuilt"} => DOMAIN e.lines = LinesOf(line, e.map)
    /\ e.step \in {"erased", "rebuilt"} => e.erased = {x \in stops : x[2] \in Removed(r)}
    /\ e.step = "rebuilt" =>
          /\ DOMAIN e.infos = LiveOf(e.map)
          /\ \A s \in LiveOf(e.map) :
                (\A l \in LineId : <<s, l>> \in stops => l \in DOMAIN e.lines)
                => e.infos[s] = {e.lines[l] : l \in {k \in DOMAIN e.lines :
                                                  <<s, k>> \in stops /\ e.lines[k] # NoLine}}

KnowsMap(r) ==
    LET e == editing[r] IN
    /\ (\/ e.step \in {"upsert", "catalog", "rows", "erased", "rebuilt"}
        \/ e.step \in {"stopping", "derived"} /\ e.rows # {})
       => mapRow[e.map] = "live"
    /\ e.step = "moved" => e.rows = LiveOf(e.map)
    /\ e.step \in {"remove", "emptied"} => LiveOf(e.map) = {}
    /\ e.step = "emptied" => e.erased = {x \in stops : x[2] \in LinesOf(line, e.map)}
    /\ e.step = "save" => station[e.id] = e.row

RequestOK(r) ==
    /\ editing[r] \in Editing
    /\ Held(r)
    /\ ~editing[r].overtaken => KnowsLines(r) /\ KnowsCatalog(r) /\ KnowsMap(r)

RequestsOK ==
    /\ editing \in [StationRequest -> Editing]
    /\ \A r \in StationRequest : RequestOK(r)

\* The column and the stops of one station.
Agrees(s) ==
    s \notin torn /\ StationLive(s) =>
      /\ station[s].info = Derived(Names(line), stops, s)
      /\ \A l \in LineId : <<s, l>> \in stops => line[l] # NoLine /\ line[l][1] = station[s].map

StationIInv == TablesOK /\ MapsOK /\ RequestsOK /\ \A s \in StationId : Agrees(s)

-----------------------------------------------------------------------------
(* Requests                                                                *)

LEMMA EditingType ==
    ASSUME NEW e, e \in Editing
    PROVE  /\ e.step \in EditStep /\ e.map \in StationMap \cup {NoMap}
           /\ e.held \in StationMap \cup {NoMap} /\ e.id \in StationId \cup {NoMap}
           /\ e.row \in StationRow /\ e.rows \subseteq StationId /\ e.todo \subseteq LineName
           /\ DOMAIN e.lines \subseteq LineId
           /\ e.lines \in [DOMAIN e.lines -> LineName \cup {NoLine}]
           /\ e.made \subseteq LineName /\ e.erased \subseteq StationId \X LineId
           /\ DOMAIN e.infos \subseteq StationId
           /\ e.infos \in [DOMAIN e.infos -> SUBSET LineName]
           /\ e.overtaken \in BOOLEAN
<1>1. e.lines \in Partial(LineId, LineName \cup {NoLine}) /\ e.infos \in Partial(StationId, SUBSET LineName)
  BY DEF Editing
<1>2. PICK D \in SUBSET LineId : e.lines \in [D -> LineName \cup {NoLine}]
  BY <1>1 DEF Partial
<1>3. PICK E \in SUBSET StationId : e.infos \in [E -> SUBSET LineName]
  BY <1>1 DEF Partial
<1> QED BY <1>2, <1>3 DEF Editing

LEMMA PartialIs ==
    ASSUME NEW S, NEW T, NEW D \in SUBSET S, NEW f \in [D -> T]
    PROVE  f \in Partial(S, T)
  BY DEF Partial

LEMMA NothingEdited ==
    /\ NotEditing \in Editing /\ NotEditing.step = "idle"
    /\ DOMAIN NotEditing.lines = {} /\ NotEditing.overtaken = FALSE
<1>1. NoStation \in StationRow
  BY DEF NoStation, StationRow, LineInfo
<1>2. [l \in {} |-> NoLine] \in [{} -> LineName \cup {NoLine}] /\ [s \in {} |-> {}] \in [{} -> SUBSET LineName]
  OBVIOUS
<1>3. [l \in {} |-> NoLine] \in Partial(LineId, LineName \cup {NoLine})
  BY <1>2, PartialIs
<1>4. [s \in {} |-> {}] \in Partial(StationId, SUBSET LineName)
  BY <1>2, PartialIs
<1> QED BY <1>1, <1>3, <1>4 DEF NotEditing, Editing, EditStep

\* A request at rest holds nothing and knows nothing.
LEMMA IdleOK ==
    ASSUME NEW r \in StationRequest, editing[r] \in Editing, editing[r].step = "idle"
    PROVE  RequestOK(r)
  BY DEF RequestOK, Held, KnowsLines, KnowsCatalog, KnowsMap

\* A request goes on holding what it holds when another takes a step, and
\* knows what it knows unless it is overtaken.
LEMMA InHandStays ==
    ASSUME TablesOK, stops' \subseteq StationId \X LineId, NEW q \in StationRequest,
           RequestOK(q), InHandKept(q), ~editing[q].overtaken, NEW h,
           editing'[q] = [editing[q] EXCEPT !.held = h]
    PROVE  KnowsLines(q)' /\ KnowsCatalog(q)' /\ KnowsMap(q)'
<1> DEFINE e == editing[q]
<1>1. /\ e.step \in EditStep /\ e.lines \in [DOMAIN e.lines -> LineName \cup {NoLine}]
      /\ DOMAIN e.lines \subseteq LineId /\ e.rows \subseteq StationId
  BY EditingType DEF RequestOK
<1>2. /\ editing'[q].step = e.step /\ editing'[q].map = e.map /\ editing'[q].id = e.id
      /\ editing'[q].row = e.row /\ editing'[q].rows = e.rows /\ editing'[q].lines = e.lines
      /\ editing'[q].made = e.made /\ editing'[q].erased = e.erased /\ editing'[q].infos = e.infos
  BY DEF RequestOK, Editing
<1>3. /\ Held(q) /\ KnowsLines(q) /\ KnowsCatalog(q) /\ KnowsMap(q)
  BY DEF RequestOK
<1>4. /\ e.map \in StationMap => mapRow'[e.map] = mapRow[e.map]
      /\ e.id \in StationId => station'[e.id] = station[e.id] /\ StopsAt(e.id)' = StopsAt(e.id)
      /\ \A l \in DOMAIN e.lines : line'[l] = line[l]
      /\ e.step \in {"rows", "erased", "rebuilt", "moved", "remove", "emptied"} => MapKept(e.map)
  BY DEF InHandKept, StationKept, StopsAt
<1>5. ASSUME MapKept(e.map)
      PROVE  /\ LiveOf(e.map)' = LiveOf(e.map) /\ LinesOf(line', e.map) = LinesOf(line, e.map)
             /\ \A l \in LinesOf(line, e.map) : line'[l] = line[l]
             /\ \A s \in LiveOf(e.map), l \in LineId : <<s, l>> \in stops' <=> <<s, l>> \in stops
             /\ \A x \in StationId \X LinesOf(line, e.map) : x \in stops <=> x \in stops'
  <2>1. LiveAmong(station', e.map) = LiveAmong(station, e.map)
    BY <1>5 DEF MapKept, StationKept, LiveAmong, LiveOf
  <2>2. LinesOf(line', e.map) = LinesOf(line, e.map)
    BY <1>5 DEF MapKept, LinesOf
  <2>3. ASSUME NEW s \in LiveOf(e.map), NEW l \in LineId
        PROVE  <<s, l>> \in stops' <=> <<s, l>> \in stops
    <3>1. StopsAmong(stops', s) = StopsAmong(stops, s)
      BY <1>5 DEF MapKept, StationKept
    <3>2. <<s, l>> \in stops' <=> <<s, l>> \in StopsAmong(stops', s)
      BY DEF StopsAmong
    <3>3. <<s, l>> \in stops <=> <<s, l>> \in StopsAmong(stops, s)
      BY DEF StopsAmong
    <3> QED BY <3>1, <3>2, <3>3
  <2> QED BY <1>5, <2>1, <2>2, <2>3 DEF MapKept, LiveOf
<1> HIDE DEF e
<1>6. ASSUME e.id \in StationId PROVE \A m : e.id \in LiveOf(m)' <=> e.id \in LiveOf(m)
  BY <1>4, <1>6 DEF LiveOf, LiveAmong
<1>7. KnowsLines(q)'
  <2>1. e.step \in {"stopping", "derived"} => e.id \in StationId
    BY <1>3 DEF Held, e
  <2> QED BY <1>2, <1>3, <1>4, <1>6, <2>1 DEF KnowsLines, e
<1>8. KnowsMap(q)'
  <2>1. e.step # "idle" => e.map \in StationMap
    BY <1>3 DEF Held, e
  <2>2. e.step = "save" => e.id \in StationId
    BY <1>3 DEF Held, e
  <2>3. MapKept(e.map) => {x \in stops' : x[2] \in LinesOf(line', e.map)}
                            = {x \in stops : x[2] \in LinesOf(line, e.map)}
    BY <1>5 DEF TablesOK, LinesOf
  <2> QED BY <1>2, <1>3, <1>4, <1>5, <2>1, <2>2, <2>3 DEF KnowsMap, e
<1>9. KnowsCatalog(q)'
  <2>0. SUFFICES ASSUME e.step \in {"rows", "erased", "rebuilt"} PROVE KnowsCatalog(q)'
    BY <1>2 DEF KnowsCatalog, e
  <2>k. MapKept(e.map)
    BY <1>4, <2>0
  <2>1. DOMAIN e.lines = LinesOf(line, e.map) /\ DOMAIN e.lines = LinesOf(line', e.map)
    BY <1>3, <1>5, <2>0, <2>k DEF KnowsCatalog, e
  <2>2. Removed(q)' = Removed(q) /\ Removed(q) \subseteq LinesOf(line, e.map)
    BY <1>2, <2>1 DEF Removed, e
  <2>3. {x \in stops' : x[2] \in Removed(q)} = {x \in stops : x[2] \in Removed(q)}
    BY <1>1, <1>5, <2>1, <2>2, <2>k DEF TablesOK
  <2>4. ASSUME e.step = "rebuilt"
        PROVE  /\ DOMAIN e.infos = LiveOf(e.map)'
               /\ \A s \in LiveOf(e.map)' :
                    (\A l \in LineId : <<s, l>> \in stops' => l \in DOMAIN e.lines)
                    => e.infos[s] = {e.lines[l] : l \in {k \in DOMAIN e.lines :
                                                  <<s, k>> \in stops' /\ e.lines[k] # NoLine}}
    <3>1. /\ DOMAIN e.infos = LiveOf(e.map)
          /\ \A s \in LiveOf(e.map) :
                (\A l \in LineId : <<s, l>> \in stops => l \in DOMAIN e.lines)
                => e.infos[s] = {e.lines[l] : l \in {k \in DOMAIN e.lines :
                                              <<s, k>> \in stops /\ e.lines[k] # NoLine}}
      BY <1>3, <2>4 DEF KnowsCatalog, e
    <3>2. ASSUME NEW s \in LiveOf(e.map)
          PROVE  {k \in DOMAIN e.lines : <<s, k>> \in stops' /\ e.lines[k] # NoLine}
                   = {k \in DOMAIN e.lines : <<s, k>> \in stops /\ e.lines[k] # NoLine}
      BY <1>1, <1>5, <2>k
    <3> QED BY <1>5, <2>k, <3>1, <3>2
  <2>5. e.step \in {"erased", "rebuilt"} => e.erased = {x \in stops' : x[2] \in Removed(q)'}
    <3>1. e.step \in {"erased", "rebuilt"} => e.erased = {x \in stops : x[2] \in Removed(q)}
      BY <1>3 DEF KnowsCatalog, e
    <3> QED BY <2>2, <2>3, <3>1
  <2>6. \A l \in DOMAIN e.lines : l \in LinesOf(line', e.map)
    BY <2>1
  <2> HIDE DEF e
  <2>7. e.step \in {"rows", "erased", "rebuilt"} => DOMAIN e.lines = LinesOf(line', e.map)
    BY <2>1
  <2>8. /\ editing'[q].step \in {"rows", "erased", "rebuilt"}
                => DOMAIN editing'[q].lines = LinesOf(line', editing'[q].map)
        /\ editing'[q].step \in {"erased", "rebuilt"}
                => editing'[q].erased = {x \in stops' : x[2] \in Removed(q)'}
    BY <1>2, <2>5, <2>7
  <2>9. editing'[q].step = "rebuilt" =>
          /\ DOMAIN editing'[q].infos = LiveAmong(station', editing'[q].map)
          /\ \A s \in LiveAmong(station', editing'[q].map) :
                (\A l \in LineId : <<s, l>> \in stops' => l \in DOMAIN editing'[q].lines)
                => editing'[q].infos[s]
                     = {editing'[q].lines[l] : l \in {k \in DOMAIN editing'[q].lines :
                                    <<s, k>> \in stops' /\ editing'[q].lines[k] # NoLine}}
    <3>1. LiveOf(e.map)' = LiveAmong(station', e.map)
      BY DEF LiveOf, e
    <3>2. ASSUME NEW s
          PROVE  {editing'[q].lines[l] : l \in {k \in DOMAIN editing'[q].lines :
                                    <<s, k>> \in stops' /\ editing'[q].lines[k] # NoLine}}
                   = {e.lines[l] : l \in {k \in DOMAIN e.lines :
                                    <<s, k>> \in stops' /\ e.lines[k] # NoLine}}
      <4>1. editing'[q].lines = e.lines
        BY <1>2
      <4> HIDE DEF e
      <4> QED BY <4>1
    <3> QED BY <1>2, <2>4, <3>1, <3>2
  <2> QED BY <2>8, <2>9, Zenon DEF KnowsCatalog, LiveOf
<1> QED BY <1>7, <1>8, <1>9

LEMMA NoticedKeeps ==
    ASSUME TablesOK, stops' \subseteq StationId \X LineId, NEW q \in StationRequest, RequestOK(q),
           NEW h, h \in StationMap \/ h = editing[q].held,
           editing'[q] = [Noticed(q) EXCEPT !.held = h]
    PROVE  RequestOK(q)'
<1> DEFINE e == editing[q]
           over == e.overtaken \/ ~InHandKept(q)
<1>1. e \in Editing /\ over \in BOOLEAN
  BY DEF RequestOK
<1>2. editing'[q] = [e EXCEPT !.overtaken = over, !.held = h]
  BY <1>1 DEF Noticed, Editing
<1>h. h \in StationMap \cup {NoMap}
  BY <1>1, EditingType
<1> HIDE DEF over
<1>3. editing'[q] \in Editing
  BY <1>1, <1>2, <1>h DEF Editing
<1>4. /\ editing'[q].step = e.step /\ editing'[q].map = e.map /\ editing'[q].id = e.id
      /\ editing'[q].row = e.row /\ editing'[q].rows = e.rows /\ editing'[q].lines = e.lines
      /\ editing'[q].erased = e.erased /\ editing'[q].infos = e.infos
      /\ editing'[q].held = h /\ editing'[q].overtaken = over
  BY <1>1, <1>2 DEF Editing
<1>5. Held(q)'
  <2>1. Held(q)
    BY DEF RequestOK
  <2> QED BY <1>4, <2>1 DEF Held
<1>6. ASSUME ~over PROVE KnowsLines(q)' /\ KnowsCatalog(q)' /\ KnowsMap(q)'
  <2>1. ~e.overtaken /\ InHandKept(q)
    BY <1>6 DEF over
  <2>2. editing'[q] = [e EXCEPT !.held = h]
    BY <1>1, <1>2, <1>6, <2>1 DEF over, Editing
  <2> QED BY <2>1, <2>2, InHandStays
<1> QED BY <1>3, <1>4, <1>5, <1>6 DEF RequestOK

\* One request takes a step, the others notice.
LEMMA OneGoes ==
    ASSUME TablesOK, RequestsOK, stops' \subseteq StationId \X LineId, NEW r \in StationRequest,
           editing' = [q \in StationRequest |-> IF q = r THEN editing'[r] ELSE Noticed(q)],
           RequestOK(r)'
    PROVE  RequestsOK'
<1>1. ASSUME NEW q \in StationRequest PROVE RequestOK(q)'
  <2>1. CASE q = r
    BY <2>1
  <2>2. CASE q # r
    <3>1. RequestOK(q) /\ editing[q] \in Editing
      BY DEF RequestsOK, RequestOK
    <3>2. editing'[q] = Noticed(q)
      BY <2>2
    <3>3. Noticed(q) = [Noticed(q) EXCEPT !.held = editing[q].held]
      BY <3>1 DEF Noticed, Editing
    <3> QED BY <3>1, <3>2, <3>3, NoticedKeeps
  <2> QED BY <2>1, <2>2
<1>2. \A q \in StationRequest : editing'[q] \in Editing
  BY <1>1 DEF RequestOK
<1> QED BY <1>1, <1>2 DEF RequestsOK

LEMMA AnsweredKeeps ==
    ASSUME TablesOK, RequestsOK, stops' \subseteq StationId \X LineId, NEW r \in StationRequest,
           Answered(r)
    PROVE  RequestsOK'
<1>1. editing' = [q \in StationRequest |-> IF q = r THEN NotEditing ELSE Noticed(q)]
  BY DEF Answered, Goes
<1>2. editing'[r] = NotEditing
  BY <1>1
<1>3. RequestOK(r)'
  BY <1>2, NothingEdited DEF RequestOK, Held, KnowsLines, KnowsCatalog, KnowsMap
<1> QED BY <1>1, <1>2, <1>3, OneGoes

LEMMA PassesKeeps ==
    ASSUME TablesOK, RequestsOK, stops' \subseteq StationId \X LineId, Passes
    PROVE  RequestsOK'
<1>1. ASSUME NEW q \in StationRequest PROVE RequestOK(q)'
  <2>1. RequestOK(q) /\ editing[q] \in Editing
    BY DEF RequestsOK, RequestOK
  <2>2. editing'[q] = Noticed(q)
    BY DEF Passes
  <2>3. Noticed(q) = [Noticed(q) EXCEPT !.held = editing[q].held]
    BY <2>1 DEF Noticed, Editing
  <2> QED BY <2>1, <2>2, <2>3, NoticedKeeps
<1>2. \A q \in StationRequest : editing'[q] \in Editing
  BY <1>1 DEF RequestOK
<1>3. editing' = [q \in StationRequest |-> editing'[q]]
  BY DEF Passes
<1> QED BY <1>1, <1>2, <1>3 DEF RequestsOK

\* A step that reads and remembers.
LEMMA ReadOnly ==
    ASSUME StationIInv, UNCHANGED <<mapRow, station, line, stops, torn, stray>>,
           NEW r \in StationRequest,
           editing' = [q \in StationRequest |-> IF q = r THEN editing'[r] ELSE Noticed(q)],
           RequestOK(r)'
    PROVE  StationIInv'
<1>1. TablesOK'
  BY DEF StationIInv, TablesOK, StationLive
<1>2. MapsOK'
  BY DEF StationIInv, MapsOK, NothingOfDeletedMap, LiveOf
<1>3. RequestsOK'
  BY OneGoes DEF StationIInv, TablesOK
<1>4. \A s \in StationId : Agrees(s)'
  BY DEF StationIInv, Agrees, StationLive
<1> QED BY <1>1, <1>2, <1>3, <1>4 DEF StationIInv

\* The same, of a request that goes on.
LEMMA RequestGoesOn ==
    ASSUME StationIInv, UNCHANGED <<mapRow, station, line, stops, torn, stray>>,
           NEW r \in StationRequest, NEW next \in Editing, Goes(r, next),
           Held(r)', ~next.overtaken => KnowsLines(r)' /\ KnowsCatalog(r)' /\ KnowsMap(r)'
    PROVE  StationIInv'
<1>1. editing'[r] = next /\ editing' = [q \in StationRequest |-> IF q = r THEN editing'[r] ELSE Noticed(q)]
  BY DEF Goes
<1>2. RequestOK(r)'
  BY <1>1 DEF RequestOK
<1> QED BY <1>1, <1>2, ReadOnly

LEMMA EndRequestKeeps ==
    ASSUME StationIInv, NEW r \in StationRequest, EndRequest(r)
    PROVE  StationIInv'
<1>1. Goes(r, NotEditing) /\ UNCHANGED <<mapRow, station, line, stops, torn, stray>>
  BY DEF EndRequest, Answered
<1>2. editing'[r] = NotEditing
  BY <1>1 DEF Goes
<1> QED BY <1>1, <1>2, NothingEdited, RequestGoesOn DEF Held, KnowsLines, KnowsCatalog, KnowsMap

LEMMA ReadMapKeeps ==
    ASSUME StationIInv, NEW r \in StationRequest, NEW m \in StationMap, ReadMap(r, m)
    PROVE  StationIInv'
<1> DEFINE next == [NotEditing EXCEPT !.step = "rename", !.map = m, !.held = m]
<1>1. Goes(r, next) /\ UNCHANGED <<mapRow, station, line, stops, torn, stray>>
  BY DEF ReadMap
<1>2. /\ next \in Editing /\ next.step = "rename" /\ next.map = m /\ next.held = m
      /\ next.overtaken = FALSE
  BY NothingEdited DEF Editing, EditStep
<1>3. editing'[r] = next
  BY <1>1 DEF Goes
<1> HIDE DEF next
<1> QED BY <1>1, <1>2, <1>3, RequestGoesOn DEF Held, KnowsLines, KnowsCatalog, KnowsMap

LEMMA CountStationsKeeps ==
    ASSUME StationIInv, NEW r \in StationRequest, NEW m \in StationMap, CountStations(r, m)
    PROVE  StationIInv'
<1> DEFINE next == [NotEditing EXCEPT !.step = "remove", !.map = m]
<1>1. /\ Goes(r, next) /\ UNCHANGED <<mapRow, station, line, stops, torn, stray>>
      /\ LiveOf(m) = {}
  BY DEF CountStations
<1>2. /\ next \in Editing /\ next.step = "remove" /\ next.map = m /\ next.overtaken = FALSE
  BY NothingEdited DEF Editing, EditStep
<1>3. editing'[r] = next /\ LiveOf(m)' = {}
  BY <1>1 DEF Goes, LiveOf
<1> HIDE DEF next
<1> QED BY <1>1, <1>2, <1>3, RequestGoesOn DEF Held, KnowsLines, KnowsCatalog, KnowsMap

LEMMA ReadStationKeeps ==
    ASSUME StationIInv, NEW r \in StationRequest, NEW s \in StationId, ReadStation(r, s)
    PROVE  StationIInv'
<1> DEFINE next == [NotEditing EXCEPT !.step = "save", !.map = station[s].map,
                                      !.id = s, !.row = station[s]]
<1>1. /\ Goes(r, next) /\ UNCHANGED <<mapRow, station, line, stops, torn, stray>>
      /\ station[s].status = "live"
  BY DEF ReadStation
<1>2. station[s] \in StationRow /\ station[s].map \in StationMap
  BY <1>1 DEF StationIInv, TablesOK, StationLive
<1>3. /\ next \in Editing /\ next.step = "save" /\ next.map = station[s].map /\ next.id = s
      /\ next.row = station[s] /\ next.lines = NotEditing.lines /\ next.overtaken = FALSE
  BY <1>2, NothingEdited DEF Editing, EditStep
<1>4. editing'[r] = next
  BY <1>1 DEF Goes
<1> HIDE DEF next
<1>5. Held(r)'
  BY <1>1, <1>2, <1>3, <1>4, NothingEdited DEF Held
<1> QED BY <1>1, <1>3, <1>4, <1>5, RequestGoesOn DEF KnowsLines, KnowsCatalog, KnowsMap

LEMMA EnsureMapKeeps ==
    ASSUME StationIInv, NEW r \in StationRequest, NEW m \in StationMap,
           NEW step \in {"idle", "upsert", "lines", "catalog"}, EnsureMap(r, m, step)
    PROVE  StationIInv'
<1>1. PICK next : /\ next = IF step = "idle" THEN NotEditing
                            ELSE [NotEditing EXCEPT !.step = step, !.map = m]
                  /\ Goes(r, next)
  BY DEF EnsureMap
<1>2. /\ UNCHANGED <<station, line, stops, torn, stray>> /\ mapRow[m] # "deleted"
      /\ mapRow' = [mapRow EXCEPT ![m] = "live"]
  BY DEF EnsureMap, Ensured
<1>3. /\ next \in Editing /\ next.step = step /\ (step # "idle" => next.map = m)
      /\ DOMAIN next.lines = {}
  BY <1>1, NothingEdited DEF Editing, EditStep
<1>4. /\ editing'[r] = next
      /\ editing' = [q \in StationRequest |-> IF q = r THEN editing'[r] ELSE Noticed(q)]
  BY <1>1 DEF Goes
<1>5. mapRow'[m] = "live"
  BY <1>2 DEF StationIInv, MapsOK
<1>6. RequestOK(r)'
  BY <1>3, <1>4, <1>5 DEF RequestOK, Held, KnowsLines, KnowsCatalog, KnowsMap
<1>7. RequestsOK'
  BY <1>2, <1>4, <1>6, OneGoes DEF StationIInv, TablesOK
<1>8. TablesOK' /\ \A s \in StationId : Agrees(s)'
  BY <1>2 DEF StationIInv, TablesOK, StationLive, Agrees
<1>9. MapsOK'
  BY <1>2 DEF StationIInv, MapsOK, NothingOfDeletedMap, LiveOf
<1> QED BY <1>7, <1>8, <1>9 DEF StationIInv

LEMMA CreateTrainStationMapKeeps ==
    ASSUME StationIInv, NEW m \in StationMap, CreateTrainStationMap(m)
    PROVE  StationIInv'
<1>1. /\ UNCHANGED <<station, line, stops, torn, stray>> /\ mapRow[m] = "absent"
      /\ mapRow' = [mapRow EXCEPT ![m] = "live"] /\ Passes
  BY DEF CreateTrainStationMap
<1>2. RequestsOK'
  BY <1>1, PassesKeeps DEF StationIInv, TablesOK
<1>3. TablesOK' /\ \A s \in StationId : Agrees(s)'
  BY <1>1 DEF StationIInv, TablesOK, StationLive, Agrees
<1>4. MapsOK'
  BY <1>1 DEF StationIInv, MapsOK, NothingOfDeletedMap, LiveOf
<1> QED BY <1>2, <1>3, <1>4 DEF StationIInv

\* A request begins to give a station its lines.
LEMMA StartLinesKeeps ==
    ASSUME StationIInv, NEW r \in StationRequest, NEW s \in StationId, NEW row \in StationRow,
           NEW written \in SUBSET {s}, NEW names \in SUBSET LineName, StartLines(r, s, row, written, names),
           editing[r].step \in {"upsert", "lines", "relines"},
           row.status = "live", row.map = editing[r].map,
           written = {} => s \in LiveOf(editing[r].map),
           written # {} => editing[r].step = "upsert"
    PROVE  StationIInv'
<1> DEFINE e == editing[r]
           next == [e EXCEPT !.step = "stopping", !.id = s, !.row = [row EXCEPT !.info = {}],
                             !.rows = written, !.todo = names, !.erased = StopsAt(s)]
<1>1. Goes(r, next) /\ UNCHANGED <<mapRow, station, line, stops, torn, stray>>
  BY DEF StartLines
<1>2. e \in Editing /\ Held(r) /\ (~e.overtaken => KnowsMap(r))
  BY DEF StationIInv, RequestsOK, RequestOK
<1>3. StopsAt(s) \subseteq StationId \X LineId /\ \A x \in StopsAt(s) : x[1] = s
  BY DEF StationIInv, TablesOK, StopsAt, StopsAmong
<1>4. [row EXCEPT !.info = {}] \in StationRow
  BY DEF StationRow, LineInfo
<1>5. next \in Editing
  BY <1>2, <1>3, <1>4 DEF Editing, EditStep
<1>6. /\ next.step = "stopping" /\ next.id = s /\ next.row.status = "live" /\ next.row.map = e.map
      /\ next.rows = written /\ next.erased = StopsAt(s) /\ next.map = e.map
      /\ next.lines = e.lines /\ next.overtaken = e.overtaken
  BY <1>2 DEF Editing, StationRow
<1>7. editing'[r] = next
  BY <1>1 DEF Goes
<1>8. e.map \in StationMap /\ DOMAIN e.lines = {}
  BY <1>2 DEF Held
<1> HIDE DEF next
<1>9. Held(r)'
  BY <1>3, <1>6, <1>7, <1>8 DEF Held
<1>10. StopsAt(s)' = StopsAt(s) /\ \A m : LiveOf(m)' = LiveOf(m)
  BY <1>1 DEF StopsAt, LiveOf
<1>11. ~next.overtaken => KnowsLines(r)' /\ KnowsCatalog(r)' /\ KnowsMap(r)'
  <2>1. KnowsLines(r)'
    BY <1>6, <1>7, <1>8, <1>10 DEF KnowsLines
  <2>2. KnowsCatalog(r)'
    BY <1>6, <1>7 DEF KnowsCatalog
  <2>3. ~next.overtaken => KnowsMap(r)'
    BY <1>1, <1>2, <1>6, <1>7 DEF KnowsMap
  <2> QED BY <2>1, <2>2, <2>3
<1> QED BY <1>1, <1>5, <1>9, <1>11, RequestGoesOn

LEMMA UpsertTrainStationKeeps ==
    ASSUME StationIInv, NEW r \in StationRequest, NEW i \in Ident, NEW names \in SUBSET LineName,
           UpsertTrainStation(r, i, names)
    PROVE  StationIInv'
<1> DEFINE row == [status |-> "live", map |-> editing[r].map, ident |-> i, info |-> {}]
<1>1. PICK s \in StationId : StartLines(r, s, row, {s}, names)
  BY DEF UpsertTrainStation
<1>2. editing[r].step = "upsert" /\ editing[r].map \in StationMap
  BY DEF UpsertTrainStation, StationIInv, RequestsOK, RequestOK, Held
<1>3. row \in StationRow /\ row.status = "live" /\ row.map = editing[r].map
  BY <1>2 DEF StationRow, LineInfo
<1>4. {s} \in SUBSET {s} /\ {s} # {}
  OBVIOUS
<1> HIDE DEF row
<1> QED BY <1>1, <1>2, <1>3, <1>4, StartLinesKeeps

LEMMA UpdateTrainStationLinesKeeps ==
    ASSUME StationIInv, NEW r \in StationRequest, NEW s \in StationId, NEW names \in SUBSET LineName,
           UpdateTrainStationLines(r, s, names)
    PROVE  StationIInv'
<1>1. /\ StartLines(r, s, station[s], {}, names) /\ s \in LiveOf(editing[r].map)
      /\ editing[r].step = "lines"
  BY DEF UpdateTrainStationLines
<1>2. station[s] \in StationRow /\ station[s].status = "live" /\ station[s].map = editing[r].map
  BY <1>1 DEF StationIInv, TablesOK, LiveOf, LiveAmong
<1>3. {} \in SUBSET {s}
  OBVIOUS
<1> QED BY <1>1, <1>2, <1>3, StartLinesKeeps

LEMMA RelineStationKeeps ==
    ASSUME StationIInv, NEW r \in StationRequest, RelineStation(r)
    PROVE  StationIInv'
<1>1. PICK s \in Found(editing[r].map, editing[r].row.ident) :
        StartLines(r, s, station[s], {}, editing[r].row.info)
  BY DEF RelineStation
<1>2. s \in StationId /\ s \in LiveOf(editing[r].map)
  BY DEF Found, LiveOf, LiveAmong
<1>3. station[s] \in StationRow /\ station[s].status = "live" /\ station[s].map = editing[r].map
  BY <1>2 DEF StationIInv, TablesOK, LiveOf, LiveAmong
<1>4. editing[r].step = "relines" /\ editing[r].row.info \in SUBSET LineName
  <2>1. editing[r].row \in StationRow
    BY EditingType DEF StationIInv, RequestsOK
  <2> QED BY <2>1 DEF RelineStation, StationRow, LineInfo
<1>5. {} \in SUBSET {s}
  OBVIOUS
<1> QED BY <1>1, <1>2, <1>3, <1>4, <1>5, StartLinesKeeps

LEMMA EnsureLineKeeps ==
    ASSUME StationIInv, NEW r \in StationRequest, NEW n \in LineName, EnsureLine(r, n)
    PROVE  StationIInv'
<1> DEFINE e == editing[r]
<1>1. /\ e \in Editing /\ Held(r) /\ (~e.overtaken => KnowsMap(r) /\ KnowsLines(r))
      /\ e.step = "stopping" /\ UNCHANGED <<mapRow, station, line, stops, torn, stray>>
  BY DEF EnsureLine, StationIInv, RequestsOK, RequestOK
<1>2. /\ DOMAIN e.lines \subseteq LineId /\ e.lines \in [DOMAIN e.lines -> LineName \cup {NoLine}]
  BY <1>1, EditingType
<1>3. \A s : StopsAt(s)' = StopsAt(s) /\ \A m : LiveOf(m)' = LiveOf(m)
  BY <1>1 DEF StopsAt, LiveOf
<1>4. /\ e.id \in StationId /\ e.row.status = "live" /\ e.row.map = e.map /\ e.map \in StationMap
      /\ e.rows \subseteq {e.id} /\ \A x \in e.erased : x[1] = e.id
  BY <1>1 DEF Held
<1>5. ASSUME NEW next \in Editing, Goes(r, next), next.step = "stopping", next.map = e.map, next.id = e.id,
             next.row = e.row, next.rows = e.rows, next.erased = e.erased, next.overtaken = e.overtaken,
             ~e.overtaken => \A l \in DOMAIN next.lines :
                                line[l] = <<e.map, next.lines[l]>> /\ next.lines[l] # NoLine
      PROVE  StationIInv'
  <2>1. editing'[r] = next
    BY <1>5 DEF Goes
  <2>2. Held(r)'
    BY <1>4, <1>5, <2>1 DEF Held
  <2>3. ~next.overtaken => KnowsLines(r)'
    BY <1>1, <1>3, <1>5, <2>1 DEF KnowsLines
  <2>4. ~next.overtaken => KnowsMap(r)'
    BY <1>1, <1>5, <2>1 DEF KnowsMap
  <2>5. KnowsCatalog(r)'
    BY <1>5, <2>1 DEF KnowsCatalog
  <2> QED BY <1>1, <1>5, <2>2, <2>3, <2>4, <2>5, RequestGoesOn
<1>6. ASSUME NEW l \in LineId, l \notin DOMAIN e.lines, line[l] = <<e.row.map, n>>,
             Goes(r, [e EXCEPT !.todo = @ \ {n},
                               !.lines = [k \in (DOMAIN e.lines) \cup {l} |->
                                            IF k = l THEN n ELSE e.lines[k]]])
      PROVE  StationIInv'
  <2> DEFINE lines == [k \in (DOMAIN e.lines) \cup {l} |-> IF k = l THEN n ELSE e.lines[k]]
             next == [e EXCEPT !.todo = @ \ {n}, !.lines = lines]
  <2>1. /\ DOMAIN lines = (DOMAIN e.lines) \cup {l} /\ lines[l] = n
        /\ \A k \in DOMAIN e.lines : lines[k] = e.lines[k]
    BY <1>6
  <2>2. lines \in Partial(LineId, LineName \cup {NoLine})
    <3>1. (DOMAIN e.lines) \cup {l} \in SUBSET LineId
      BY <1>2
    <3>2. lines \in [(DOMAIN e.lines) \cup {l} -> LineName \cup {NoLine}]
      BY <1>2
    <3> QED BY <3>1, <3>2, PartialIs
  <2>3. ~e.overtaken => \A k \in DOMAIN lines : line[k] = <<e.map, lines[k]>> /\ lines[k] # NoLine
    BY <1>1, <1>4, <1>6, <2>1, StationAssumption DEF KnowsLines
  <2> HIDE DEF lines
  <2>4. next \in Editing
    BY <1>1, <2>2 DEF Editing
  <2>5. /\ next.step = e.step /\ next.map = e.map /\ next.id = e.id /\ next.row = e.row
        /\ next.rows = e.rows /\ next.erased = e.erased /\ next.overtaken = e.overtaken
        /\ next.lines = lines
    BY <1>1 DEF Editing
  <2>6. Goes(r, next)
    BY <1>6 DEF lines
  <2> HIDE DEF next
  <2> QED BY <1>1, <1>5, <2>3, <2>4, <2>5, <2>6
<1>7. ASSUME Goes(r, [e EXCEPT !.todo = @ \ {n}, !.made = @ \cup {n}])
      PROVE  StationIInv'
  <2> DEFINE next == [e EXCEPT !.todo = @ \ {n}, !.made = @ \cup {n}]
  <2>1. next \in Editing
    BY <1>1 DEF Editing
  <2>2. /\ next.step = e.step /\ next.map = e.map /\ next.id = e.id /\ next.row = e.row
        /\ next.rows = e.rows /\ next.erased = e.erased /\ next.overtaken = e.overtaken
        /\ next.lines = e.lines
    BY <1>1 DEF Editing
  <2>3. ~e.overtaken => \A l \in DOMAIN e.lines :
                           line[l] = <<e.map, e.lines[l]>> /\ e.lines[l] # NoLine
    BY <1>1 DEF KnowsLines
  <2>4. Goes(r, next)
    BY <1>7
  <2> HIDE DEF next
  <2> QED BY <1>1, <1>5, <2>1, <2>2, <2>3, <2>4
<1> QED BY <1>6, <1>7 DEF EnsureLine

\* What a column is that is derived from a relation.
LEMMA DerivedIs ==
    ASSUME NEW lines \in Catalogues,
           NEW relation, NEW s
    PROVE  Derived(Names(lines), relation, s)
             = {lines[l][2] : l \in {k \in LineId : <<s, k>> \in relation /\ lines[k] # NoLine}}
<1>1. ASSUME NEW l \in LineId
      PROVE  /\ Names(lines)[l] = IF lines[l] = NoLine THEN NoLine ELSE lines[l][2]
             /\ Names(lines)[l] # NoLine <=> lines[l] # NoLine
  <2>1. lines[l] # NoLine => lines[l][2] \in LineName
    BY DEF Catalogues
  <2> QED BY <2>1, StationAssumption DEF Names
<1> QED BY <1>1 DEF Derived

LEMMA DerivedType ==
    ASSUME NEW lines \in Catalogues, NEW relation, NEW s
    PROVE  Derived(Names(lines), relation, s) \in SUBSET LineName
<1>1. ASSUME NEW l \in LineId, lines[l] # NoLine PROVE lines[l][2] \in LineName
  BY <1>1 DEF Catalogues
<1>2. Derived(Names(lines), relation, s)
        = {lines[l][2] : l \in {k \in LineId : <<s, k>> \in relation /\ lines[k] # NoLine}}
  BY DerivedIs
<1> QED BY <1>1, <1>2

LEMMA DeriveColumnKeeps ==
    ASSUME StationIInv, NEW r \in StationRequest, DeriveColumn(r)
    PROVE  StationIInv'
<1> DEFINE e == editing[r]
           info == Derived(Names(line), OwnStops(r), e.id) \cup e.made
           infos == [s \in {e.id} |-> info]
           next == [e EXCEPT !.step = "derived", !.infos = infos]
<1>1. /\ e \in Editing /\ Held(r) /\ (~e.overtaken => KnowsMap(r) /\ KnowsLines(r))
      /\ e.step = "stopping" /\ UNCHANGED <<mapRow, station, line, stops, torn, stray>>
      /\ Goes(r, next)
  BY DEF DeriveColumn, StationIInv, RequestsOK, RequestOK
<1>2. /\ DOMAIN e.lines \subseteq LineId /\ e.lines \in [DOMAIN e.lines -> LineName \cup {NoLine}]
      /\ e.made \in SUBSET LineName
  BY <1>1, EditingType
<1>3. info \in SUBSET LineName
  BY <1>2, DerivedType DEF StationIInv, TablesOK
<1>4. /\ e.id \in StationId /\ e.row.status = "live" /\ e.row.map = e.map /\ e.map \in StationMap
      /\ e.rows \subseteq {e.id} /\ \A x \in e.erased : x[1] = e.id
  BY <1>1 DEF Held
<1>5. ASSUME ~e.overtaken PROVE info = {e.lines[l] : l \in DOMAIN e.lines} \cup e.made
  <2>1. ASSUME NEW l \in LineId PROVE <<e.id, l>> \in OwnStops(r) <=> l \in DOMAIN e.lines
    BY <1>1, <1>5 DEF OwnStops, KnowsLines, StopsAt, StopsAmong
  <2>2. ASSUME NEW l \in DOMAIN e.lines PROVE line[l] # NoLine /\ line[l][2] = e.lines[l] /\ l \in LineId
    <3>1. line[l] = <<e.map, e.lines[l]>> /\ l \in LineId /\ e.lines[l] \in LineName
      BY <1>1, <1>2, <1>5 DEF KnowsLines
    <3> QED BY <1>4, <3>1, StationAssumption
  <2>3. PICK lines, own, s : lines = line /\ own = OwnStops(r) /\ s = e.id
    OBVIOUS
  <2>4. lines \in Catalogues
    BY <2>3 DEF StationIInv, TablesOK
  <2>5. ASSUME NEW n PROVE n \in Derived(Names(lines), own, s) <=> n \in {e.lines[l] : l \in DOMAIN e.lines}
    <3>1. n \in Derived(Names(lines), own, s)
             <=> \E l \in LineId : <<s, l>> \in own /\ lines[l] # NoLine /\ lines[l][2] = n
      BY <2>4, DerivedIs
    <3> QED BY <2>1, <2>2, <2>3, <3>1
  <2>6. Derived(Names(line), OwnStops(r), e.id) = {e.lines[l] : l \in DOMAIN e.lines}
    BY <2>3, <2>5
  <2> QED BY <2>6
<1> HIDE DEF info
<1>6. infos \in Partial(StationId, SUBSET LineName) /\ DOMAIN infos = {e.id} /\ infos[e.id] = info
  <2>1. {e.id} \in SUBSET StationId /\ infos \in [{e.id} -> SUBSET LineName]
    BY <1>3, <1>4
  <2> QED BY <2>1, PartialIs
<1> HIDE DEF infos
<1>7. next \in Editing
  BY <1>1, <1>6 DEF Editing, EditStep
<1>8. /\ next.step = "derived" /\ next.map = e.map /\ next.id = e.id /\ next.row = e.row
      /\ next.rows = e.rows /\ next.erased = e.erased /\ next.overtaken = e.overtaken
      /\ next.lines = e.lines /\ next.made = e.made /\ next.infos = infos
  BY <1>1 DEF Editing
<1>9. editing'[r] = next
  BY <1>1 DEF Goes
<1>10. Goes(r, next)
  BY <1>1
<1> HIDE DEF next
<1>11. Held(r)'
  BY <1>4, <1>6, <1>8, <1>9 DEF Held
<1>12. ASSUME ~e.overtaken PROVE KnowsLines(r)' /\ KnowsCatalog(r)' /\ KnowsMap(r)'
  <2>1. \A s : StopsAt(s)' = StopsAt(s) /\ \A m : LiveOf(m)' = LiveOf(m)
    BY <1>1 DEF StopsAt, LiveOf
  <2>2. KnowsLines(r)'
    BY <1>1, <1>5, <1>6, <1>8, <1>9, <1>12, <2>1 DEF KnowsLines
  <2>3. KnowsCatalog(r)'
    BY <1>8, <1>9 DEF KnowsCatalog
  <2>4. KnowsMap(r)'
    BY <1>1, <1>8, <1>9, <1>12 DEF KnowsMap
  <2> QED BY <2>2, <2>3, <2>4
<1> QED BY <1>1, <1>7, <1>8, <1>10, <1>11, <1>12, RequestGoesOn

\* Requests that read the catalogue, one step after another.
LEMMA ReadCatalogKeeps ==
    ASSUME StationIInv, NEW r \in StationRequest, ReadCatalog(r)
    PROVE  StationIInv'
<1> DEFINE e == editing[r]
<1>1. PICK kept \in [LinesOf(line, e.map) -> LineName \cup {NoLine}], made \in SUBSET LineName :
        Goes(r, [e EXCEPT !.step = "rows", !.lines = kept, !.made = made])
  BY DEF ReadCatalog
<1> DEFINE next == [e EXCEPT !.step = "rows", !.lines = kept, !.made = made]
<1>2. /\ e \in Editing /\ Held(r) /\ (~e.overtaken => KnowsMap(r))
      /\ e.step = "catalog" /\ UNCHANGED <<mapRow, station, line, stops, torn, stray>>
  BY DEF ReadCatalog, StationIInv, RequestsOK, RequestOK
<1>3. kept \in Partial(LineId, LineName \cup {NoLine}) /\ DOMAIN kept = LinesOf(line, e.map)
  <2>1. LinesOf(line, e.map) \in SUBSET LineId
    BY DEF LinesOf
  <2> QED BY <2>1, PartialIs
<1>4. next \in Editing
  BY <1>2, <1>3 DEF Editing, EditStep
<1>5. /\ next.step = "rows" /\ next.map = e.map /\ next.lines = kept /\ next.overtaken = e.overtaken
  BY <1>2 DEF Editing
<1>6. editing'[r] = next /\ e.map \in StationMap
  BY <1>1, <1>2 DEF Goes, Held
<1>7. Goes(r, next)
  BY <1>1
<1> HIDE DEF next
<1>8. Held(r)'
  BY <1>5, <1>6 DEF Held
<1>9. ~next.overtaken => KnowsLines(r)' /\ KnowsCatalog(r)' /\ KnowsMap(r)'
  BY <1>2, <1>3, <1>5, <1>6 DEF KnowsLines, KnowsCatalog, KnowsMap
<1> QED BY <1>2, <1>4, <1>7, <1>8, <1>9, RequestGoesOn

LEMMA EraseStopsKeeps ==
    ASSUME StationIInv, NEW r \in StationRequest, EraseStops(r)
    PROVE  StationIInv'
<1> DEFINE e == editing[r]
           erased == {x \in stops : x[2] \in Removed(r)}
           next == [e EXCEPT !.step = "erased", !.erased = erased]
<1>1. /\ e \in Editing /\ Held(r) /\ (~e.overtaken => KnowsMap(r) /\ KnowsCatalog(r))
      /\ e.step = "rows" /\ UNCHANGED <<mapRow, station, line, stops, torn, stray>>
      /\ Goes(r, next)
  BY DEF EraseStops, StationIInv, RequestsOK, RequestOK
<1>2. erased \subseteq StationId \X LineId
  BY DEF StationIInv, TablesOK
<1> HIDE DEF erased
<1>3. next \in Editing
  BY <1>1, <1>2 DEF Editing, EditStep
<1>4. /\ next.step = "erased" /\ next.map = e.map /\ next.lines = e.lines
      /\ next.overtaken = e.overtaken /\ next.erased = erased
  BY <1>1 DEF Editing
<1>5. editing'[r] = next /\ e.map \in StationMap /\ Goes(r, next)
  BY <1>1 DEF Goes, Held
<1> HIDE DEF next
<1>6. Held(r)'
  BY <1>4, <1>5 DEF Held
<1>7. {x \in stops' : x[2] \in Removed(r)'} = erased
  BY <1>1, <1>4, <1>5 DEF Removed, erased
<1>8. ASSUME ~next.overtaken PROVE KnowsLines(r)' /\ KnowsCatalog(r)' /\ KnowsMap(r)'
  <2>1. DOMAIN e.lines = LinesOf(line', e.map)
    BY <1>1, <1>4, <1>8 DEF KnowsCatalog
  <2>2. KnowsCatalog(r)'
    BY <1>4, <1>5, <1>7, <2>1 DEF KnowsCatalog
  <2> QED BY <1>1, <1>4, <1>5, <1>8, <2>2 DEF KnowsLines, KnowsMap
<1> QED BY <1>1, <1>3, <1>5, <1>6, <1>8, RequestGoesOn

LEMMA RebuildLineInfoKeeps ==
    ASSUME StationIInv, NEW r \in StationRequest, RebuildLineInfo(r)
    PROVE  StationIInv'
<1> DEFINE e == editing[r]
           infos == [s \in LiveOf(e.map) |-> Derived(OwnNames(r), stops \ e.erased, s)]
           next == [e EXCEPT !.step = "rebuilt", !.infos = infos]
<1>1. /\ e \in Editing /\ Held(r) /\ (~e.overtaken => KnowsMap(r) /\ KnowsCatalog(r))
      /\ e.step = "erased" /\ UNCHANGED <<mapRow, station, line, stops, torn, stray>>
      /\ Goes(r, next)
  BY DEF RebuildLineInfo, StationIInv, RequestsOK, RequestOK
<1>2. /\ DOMAIN e.lines \subseteq LineId /\ e.lines \in [DOMAIN e.lines -> LineName \cup {NoLine}]
  BY <1>1, EditingType
<1>3. ASSUME NEW l \in LineId
      PROVE  /\ OwnNames(r)[l] \in LineName \cup {NoLine}
             /\ l \in DOMAIN e.lines => OwnNames(r)[l] = e.lines[l]
  <2>1. Names(line)[l] \in LineName \cup {NoLine}
    <3>1. line[l] # NoLine => line[l][2] \in LineName
      BY DEF StationIInv, TablesOK, Catalogues
    <3> QED BY <3>1 DEF Names
  <2> QED BY <1>2, <2>1 DEF OwnNames
<1>4. \A s : Derived(OwnNames(r), stops \ e.erased, s) \in SUBSET LineName
  BY <1>3 DEF Derived
<1>5. ASSUME ~e.overtaken, NEW s \in LiveOf(e.map), \A l \in LineId : <<s, l>> \in stops => l \in DOMAIN e.lines
      PROVE  infos[s] = {e.lines[l] : l \in {k \in DOMAIN e.lines : <<s, k>> \in stops /\ e.lines[k] # NoLine}}
  <2>1. e.erased = {x \in stops : x[2] \in Removed(r)}
    BY <1>1, <1>5 DEF KnowsCatalog
  <2>2. ASSUME NEW l \in LineId
        PROVE  (<<s, l>> \in stops \ e.erased /\ OwnNames(r)[l] # NoLine)
               <=> (l \in DOMAIN e.lines /\ <<s, l>> \in stops /\ e.lines[l] # NoLine)
    <3>1. <<s, l>> \in stops \ e.erased <=> <<s, l>> \in stops /\ l \notin Removed(r)
      BY <2>1
    <3> QED BY <1>3, <1>5, <3>1 DEF Removed
  <2>3. {k \in LineId : <<s, k>> \in stops \ e.erased /\ OwnNames(r)[k] # NoLine}
          = {k \in DOMAIN e.lines : <<s, k>> \in stops /\ e.lines[k] # NoLine}
    BY <1>2, <2>2
  <2>4. infos[s] = {OwnNames(r)[l] : l \in {k \in DOMAIN e.lines : <<s, k>> \in stops /\ e.lines[k] # NoLine}}
    BY <2>3 DEF Derived
  <2> QED BY <1>2, <1>3, <2>4
<1>6. infos \in Partial(StationId, SUBSET LineName) /\ DOMAIN infos = LiveOf(e.map)
  <2>1. LiveOf(e.map) \in SUBSET StationId /\ infos \in [LiveOf(e.map) -> SUBSET LineName]
    BY <1>4 DEF LiveOf, LiveAmong
  <2> QED BY <2>1, PartialIs
<1> HIDE DEF infos
<1>7. next \in Editing
  BY <1>1, <1>6 DEF Editing, EditStep
<1>8. /\ next.step = "rebuilt" /\ next.map = e.map /\ next.lines = e.lines /\ next.erased = e.erased
      /\ next.overtaken = e.overtaken /\ next.infos = infos
  BY <1>1 DEF Editing
<1>9. editing'[r] = next /\ e.map \in StationMap /\ Goes(r, next)
  BY <1>1 DEF Goes, Held
<1> HIDE DEF next
<1>10. Held(r)'
  BY <1>8, <1>9 DEF Held
<1>11. ASSUME ~next.overtaken PROVE KnowsLines(r)' /\ KnowsCatalog(r)' /\ KnowsMap(r)'
  <2>1. /\ DOMAIN e.lines = LinesOf(line, e.map) /\ e.erased = {x \in stops : x[2] \in Removed(r)}
    BY <1>1, <1>8, <1>11 DEF KnowsCatalog
  <2>2. Removed(r)' = Removed(r)
    BY <1>8, <1>9 DEF Removed
  <2>3. \A s \in LiveOf(e.map) :
          (\A l \in LineId : <<s, l>> \in stops => l \in DOMAIN e.lines)
          => infos[s] = {e.lines[l] : l \in {k \in DOMAIN e.lines : <<s, k>> \in stops /\ e.lines[k] # NoLine}}
    BY <1>5, <1>8, <1>11
  <2>4. KnowsCatalog(r)'
    <3>1. /\ editing'[r].step = "rebuilt" /\ editing'[r].map = e.map /\ editing'[r].lines = e.lines
          /\ editing'[r].erased = e.erased /\ editing'[r].infos = infos
      BY <1>8, <1>9
    <3>2. /\ stops' = stops /\ line' = line /\ LiveAmong(station', e.map) = LiveOf(e.map)
      BY <1>1 DEF LiveOf
    <3> HIDE DEF e
    <3>3. ASSUME NEW s
          PROVE  {editing'[r].lines[l] : l \in {k \in DOMAIN editing'[r].lines :
                                    <<s, k>> \in stops' /\ editing'[r].lines[k] # NoLine}}
                   = {e.lines[l] : l \in {k \in DOMAIN e.lines :
                                    <<s, k>> \in stops /\ e.lines[k] # NoLine}}
      <4>1. editing'[r].lines = e.lines
        BY <3>1
      <4> QED BY <3>2, <4>1
    <3>4. \A s \in LiveAmong(station', editing'[r].map) :
            (\A l \in LineId : <<s, l>> \in stops' => l \in DOMAIN editing'[r].lines)
            => editing'[r].infos[s]
                 = {editing'[r].lines[l] : l \in {k \in DOMAIN editing'[r].lines :
                                    <<s, k>> \in stops' /\ editing'[r].lines[k] # NoLine}}
      BY <2>3, <3>1, <3>2, <3>3
    <3>5. /\ DOMAIN editing'[r].lines = LinesOf(line', editing'[r].map)
          /\ editing'[r].erased = {x \in stops' : x[2] \in Removed(r)'}
          /\ DOMAIN editing'[r].infos = LiveAmong(station', editing'[r].map)
      BY <1>6, <2>1, <2>2, <3>1, <3>2
    <3> QED BY <3>4, <3>5, Zenon DEF KnowsCatalog, LiveOf
  <2> QED BY <1>1, <1>8, <1>9, <1>11, <2>4 DEF KnowsLines, KnowsMap
<1> QED BY <1>1, <1>7, <1>9, <1>10, <1>11, RequestGoesOn

LEMMA MoveStationsKeeps ==
    ASSUME StationIInv, NEW r \in StationRequest, MoveStations(r)
    PROVE  StationIInv'
<1> DEFINE e == editing[r]
           next == [e EXCEPT !.step = "moved", !.rows = LiveOf(e.map)]
<1>1. /\ e \in Editing /\ Held(r) /\ e.step = "rename"
      /\ UNCHANGED <<mapRow, station, line, stops, torn, stray>>
      /\ Goes(r, next)
  BY DEF MoveStations, StationIInv, RequestsOK, RequestOK
<1>2. LiveOf(e.map) \subseteq StationId /\ LiveAmong(station', e.map) = LiveOf(e.map)
  BY <1>1 DEF LiveOf, LiveAmong
<1>3. next \in Editing
  BY <1>1, <1>2 DEF Editing, EditStep
<1>4. next.step = "moved" /\ next.map = e.map /\ next.held = e.held /\ next.rows = LiveOf(e.map)
  BY <1>1 DEF Editing
<1>5. editing'[r] = next /\ e.map \in StationMap /\ e.held \in StationMap /\ Goes(r, next)
  BY <1>1 DEF Goes, Held
<1> HIDE DEF next
<1>6. Held(r)'
  BY <1>4, <1>5 DEF Held
<1> QED BY <1>1, <1>2, <1>3, <1>4, <1>5, <1>6, RequestGoesOn DEF KnowsLines, KnowsCatalog, KnowsMap, LiveOf

LEMMA EmptyMapKeeps ==
    ASSUME StationIInv, NEW r \in StationRequest, EmptyMap(r)
    PROVE  StationIInv'
<1> DEFINE e == editing[r]
           erased == {x \in stops : x[2] \in LinesOf(line, e.map)}
           next == [e EXCEPT !.step = "emptied", !.erased = erased]
<1>1. /\ e \in Editing /\ Held(r) /\ (~e.overtaken => KnowsMap(r)) /\ e.step = "remove"
      /\ UNCHANGED <<mapRow, station, line, stops, torn, stray>>
      /\ Goes(r, next)
  BY DEF EmptyMap, StationIInv, RequestsOK, RequestOK
<1>2. erased \subseteq StationId \X LineId /\ LiveAmong(station', e.map) = LiveOf(e.map)
  BY <1>1 DEF StationIInv, TablesOK, LiveOf
<1> HIDE DEF erased
<1>3. next \in Editing
  BY <1>1, <1>2 DEF Editing, EditStep
<1>4. /\ next.step = "emptied" /\ next.map = e.map /\ next.erased = erased
      /\ next.overtaken = e.overtaken
  BY <1>1 DEF Editing
<1>5. editing'[r] = next /\ e.map \in StationMap /\ Goes(r, next)
  BY <1>1 DEF Goes, Held
<1> HIDE DEF next
<1>6. Held(r)'
  BY <1>4, <1>5 DEF Held
<1>7. {x \in stops' : x[2] \in LinesOf(line', e.map)} = erased
  BY <1>1 DEF erased
<1>8. ~next.overtaken => KnowsMap(r)'
  BY <1>1, <1>2, <1>4, <1>5, <1>7 DEF KnowsMap, LiveOf
<1> QED BY <1>1, <1>3, <1>4, <1>5, <1>6, <1>8, RequestGoesOn DEF KnowsLines, KnowsCatalog

-----------------------------------------------------------------------------
(* Steps that write                                                        *)

LEMMA DerivedSame ==
    ASSUME NEW lines \in Catalogues,
           NEW new \in Catalogues,
           NEW relation, NEW other, NEW s, NEW t,
           \A l \in LineId : <<s, l>> \in relation /\ lines[l] # NoLine
                             <=> <<t, l>> \in other /\ new[l] # NoLine,
           \A l \in LineId : <<s, l>> \in relation /\ lines[l] # NoLine => new[l][2] = lines[l][2]
    PROVE  Derived(Names(lines), relation, s) = Derived(Names(new), other, t)
<1>1. ASSUME NEW n PROVE n \in Derived(Names(lines), relation, s) <=> n \in Derived(Names(new), other, t)
  <2>1. n \in Derived(Names(lines), relation, s) <=>
          \E l \in LineId : <<s, l>> \in relation /\ lines[l] # NoLine /\ lines[l][2] = n
    BY DerivedIs
  <2>2. n \in Derived(Names(new), other, t) <=>
          \E l \in LineId : <<t, l>> \in other /\ new[l] # NoLine /\ new[l][2] = n
    BY DerivedIs
  <2> QED BY <2>1, <2>2
<1> QED BY <1>1

\* A station stays as it is, and so do the lines that stop there.
LEMMA AgreesStill ==
    ASSUME TablesOK, TablesOK', NEW s \in StationId, Agrees(s), s \notin torn,
           station'[s] = station[s],
           \A l \in LineId : <<s, l>> \in stops' <=> <<s, l>> \in stops,
           \A l \in LineId : <<s, l>> \in stops /\ line[l] # NoLine /\ line[l][1] = station[s].map
                             => line'[l] = line[l]
    PROVE  Agrees(s)'
<1> SUFFICES ASSUME StationLive(s), StationLive(s)' PROVE Agrees(s)'
  BY DEF Agrees, StationLive
<1>1. /\ station[s].info = Derived(Names(line), stops, s)
      /\ \A l \in LineId : <<s, l>> \in stops =>
            line[l] # NoLine /\ line[l][1] = station[s].map /\ line'[l] = line[l]
  BY DEF Agrees
<1>2. PICK old, new, relation, other : old = line /\ new = line' /\ relation = stops /\ other = stops'
  OBVIOUS
<1>3. Derived(Names(old), relation, s) = Derived(Names(new), other, s)
  <2>1. /\ old \in Catalogues
        /\ new \in Catalogues
    BY <1>2 DEF TablesOK
  <2>2. \A l \in LineId : /\ <<s, l>> \in relation <=> <<s, l>> \in other
                          /\ <<s, l>> \in relation => old[l] # NoLine /\ new[l] = old[l]
    BY <1>1, <1>2
  <2> QED BY <2>1, <2>2, DerivedSame
<1>4. station'[s].info = Derived(Names(line'), stops', s)
  BY <1>1, <1>2, <1>3
<1> QED BY <1>1, <1>4 DEF Agrees

\* Maps other than m get nothing new, and m may have been removed only if
\* nothing is left of it.
LEMMA MapsStill ==
    ASSUME MapsOK, NEW m \in StationMap, stray \subseteq stray', stray' \subseteq stray \cup {m},
           mapRow' \in [StationMap -> {"absent", "live", "deleted"}],
           \A k \in StationMap \ {m} :
              /\ mapRow'[k] = "deleted" => mapRow[k] = "deleted"
              /\ LiveAmong(station', k) \subseteq LiveOf(k)
              /\ LinesOf(line', k) \subseteq LinesOf(line, k),
           m \in stray' \/ mapRow'[m] # "deleted"
             \/ (LiveAmong(station', m) = {} /\ LinesOf(line', m) = {})
    PROVE  MapsOK'
<1>1. ASSUME NEW k \in StationMap \ stray', mapRow'[k] = "deleted"
      PROVE  LiveAmong(station', k) = {} /\ LinesOf(line', k) = {}
  <2>1. CASE k = m
    BY <1>1, <2>1
  <2>2. CASE k # m
    <3>1. LiveOf(k) = {} /\ LinesOf(line, k) = {}
      BY <1>1, <2>2 DEF MapsOK, NothingOfDeletedMap
    <3> QED BY <1>1, <2>2, <3>1
  <2> QED BY <2>1, <2>2
<1> QED BY <1>1 DEF MapsOK, NothingOfDeletedMap, LiveOf

\* A catalogue with new lines.
LEMMA WithNewIs ==
    ASSUME NEW lines, NEW free, NEW m, NEW names, NEW new,
           lines \in Catalogues, free \subseteq LineId, \A l \in free : lines[l] = NoLine,
           m \in StationMap, names \subseteq LineName, new \in WithNew(lines, free, m, names)
    PROVE  /\ new \in Catalogues
           /\ \A l \in LineId : lines[l] # NoLine => new[l] = lines[l]
           /\ \A l \in LineId : new[l] # lines[l] =>
                /\ l \in free /\ lines[l] = NoLine /\ new[l] # NoLine
                /\ \E n \in names : new[l] = <<m, n>>
           /\ \A n \in names : \E l \in free : new[l] = <<m, n>> /\ new[l] # lines[l]
           /\ \A k, l \in LineId : new[k] = new[l] /\ new[k] # lines[k] /\ new[l] # lines[l] => k = l
<1>1. PICK f \in [free -> names \cup {NoLine}] :
        /\ \A n \in names : \E l \in free : \A k \in free : f[k] = n <=> k = l
        /\ new = [l \in LineId |-> IF l \in free /\ f[l] # NoLine THEN <<m, f[l]>> ELSE lines[l]]
  BY DEF WithNew
<1>2. ASSUME NEW n \in names PROVE <<m, n>> # NoLine /\ n # NoLine /\ <<m, n>> \in StationMap \X LineName
  BY <1>2, StationAssumption
<1>3. ASSUME NEW l \in LineId
      PROVE  /\ new[l] \in (StationMap \X LineName) \cup {NoLine}
             /\ lines[l] # NoLine => new[l] = lines[l]
             /\ new[l] # lines[l] => /\ l \in free /\ lines[l] = NoLine /\ new[l] # NoLine
                                    /\ \E n \in names : new[l] = <<m, n>>
  <2>1. CASE l \in free /\ f[l] # NoLine
    <3>1. f[l] \in names /\ new[l] = <<m, f[l]>>
      BY <1>1, <2>1
    <3> QED BY <1>2, <2>1, <3>1
  <2>2. CASE ~(l \in free /\ f[l] # NoLine)
    <3>1. new[l] = lines[l]
      BY <1>1, <2>2
    <3> QED BY <3>1 DEF Catalogues
  <2> QED BY <2>1, <2>2
<1>4. ASSUME NEW n \in names PROVE \E l \in free : new[l] = <<m, n>> /\ new[l] # lines[l]
  <2>1. PICK l \in free : f[l] = n
    BY <1>1
  <2>2. new[l] = <<m, n>>
    BY <1>1, <1>2, <2>1
  <2> QED BY <1>2, <2>1, <2>2
<1>5. ASSUME NEW k \in LineId, NEW l \in LineId, new[k] = new[l], new[k] # lines[k], new[l] # lines[l]
      PROVE  k = l
  <2>1. /\ k \in free /\ f[k] # NoLine /\ new[k] = <<m, f[k]>> /\ f[k] \in names
        /\ l \in free /\ f[l] # NoLine /\ new[l] = <<m, f[l]>>
    BY <1>1, <1>5
  <2>2. f[k] = f[l]
    <3>1. <<m, f[k]>> = <<m, f[l]>>
      BY <1>5, <2>1
    <3> QED BY <3>1
  <2>3. PICK j \in free : \A i \in free : f[i] = f[k] <=> i = j
    BY <1>1, <2>1
  <2> QED BY <2>1, <2>2, <2>3
<1> QED BY <1>1, <1>3, <1>4, <1>5 DEF Catalogues

\* The lines of a station are committed.
LEMMA CommitLinesKeeps ==
    ASSUME StationIInv, NEW r \in StationRequest, CommitLines(r)
    PROVE  StationIInv'
<1>0. PICK e, s, m : e = editing[r] /\ s = e.id /\ m = e.map
  OBVIOUS
<1>1. /\ e \in Editing /\ Held(r) /\ (~e.overtaken => KnowsMap(r) /\ KnowsLines(r)) /\ e.step = "derived"
      /\ TablesOK /\ MapsOK /\ RequestsOK
  BY <1>0 DEF CommitLines, StationIInv, RequestsOK, RequestOK
<1>2. /\ s \in StationId /\ e.row.status = "live" /\ e.row.map = m /\ m \in StationMap
      /\ e.rows \subseteq {s} /\ (\A x \in e.erased : x[1] = s) /\ DOMAIN e.infos = {s}
  BY <1>0, <1>1 DEF Held
<1>3. /\ e.row \in StationRow /\ e.made \in SUBSET LineName /\ e.infos[s] \in LineInfo
      /\ DOMAIN e.lines \subseteq LineId /\ e.lines \in [DOMAIN e.lines -> LineName \cup {NoLine}]
  <2>1. e.infos[s] \in SUBSET LineName
    BY <1>1, <1>2, EditingType
  <2> QED BY <1>1, <2>1, EditingType DEF LineInfo
<1>4. /\ mapRow' = mapRow /\ line' \in WithNew(line, Free, m, e.made) /\ Distinct(line')
      /\ stops' = OwnStops(r) \cup {<<s, l>> : l \in {k \in LineId : line'[k] # line[k]}}
      /\ station' = [station EXCEPT ![s] =
                       IF s \in e.rows THEN [e.row EXCEPT !.info = e.infos[s]]
                       ELSE IF @.status = "live" THEN [@ EXCEPT !.info = e.infos[s]]
                       ELSE @]
      /\ torn' = IF e.overtaken THEN torn \cup {s} ELSE torn \ {s}
      /\ stray' = IF e.overtaken THEN stray \cup {m} ELSE stray
      /\ \/ Answered(r)
         \/ e.rows # {} /\ Goes(r, [NotEditing EXCEPT !.step = "upsert", !.map = m,
                                                      !.overtaken = e.overtaken])
  BY <1>0, <1>2 DEF CommitLines
<1>5. /\ line' \in Catalogues
      /\ \A l \in LineId : line[l] # NoLine => line'[l] = line[l]
      /\ \A l \in LineId : line'[l] # line[l] =>
            line[l] = NoLine /\ line'[l] # NoLine /\ \E n \in e.made : line'[l] = <<m, n>>
      /\ \A n \in e.made : \E l \in LineId : line'[l] = <<m, n>> /\ line'[l] # line[l]
  <2>1. line \in Catalogues
    BY <1>1 DEF TablesOK
  <2>2. Free \in SUBSET LineId /\ \A l \in Free : line[l] = NoLine
    BY DEF Free
  <2>3. PICK old, new, free : old = line /\ new = line' /\ free = Free
    OBVIOUS
  <2>4. /\ old \in Catalogues /\ free \subseteq LineId /\ (\A l \in free : old[l] = NoLine)
        /\ new \in WithNew(old, free, m, e.made) /\ m \in StationMap /\ e.made \subseteq LineName
    BY <1>2, <1>3, <1>4, <2>1, <2>2, <2>3
  <2>5. /\ new \in Catalogues
        /\ \A l \in LineId : old[l] # NoLine => new[l] = old[l]
        /\ \A l \in LineId : new[l] # old[l] =>
              /\ l \in free /\ old[l] = NoLine /\ new[l] # NoLine
              /\ \E n \in e.made : new[l] = <<m, n>>
        /\ \A n \in e.made : \E l \in free : new[l] = <<m, n>> /\ new[l] # old[l]
    BY <2>4, WithNewIs
  <2> QED BY <2>2, <2>3, <2>5
<1>6. /\ \A t \in StationId : t # s => station'[t] = station[t]
      /\ s \in e.rows => /\ station'[s].status = "live" /\ station'[s].map = m
                         /\ station'[s].info = e.infos[s] /\ station'[s] \in StationRow
      /\ s \notin e.rows =>
            /\ station'[s].status = station[s].status /\ station'[s].map = station[s].map
            /\ station[s].status = "live" => station'[s].info = e.infos[s]
            /\ station'[s] \in StationRow
  <2>1. station \in [StationId -> StationRow]
    BY <1>1 DEF TablesOK
  <2>2. [e.row EXCEPT !.info = e.infos[s]] \in StationRow /\ [station[s] EXCEPT !.info = e.infos[s]] \in StationRow
    BY <1>2, <1>3, <2>1 DEF StationRow
  <2>3. station'[s] = IF s \in e.rows THEN [e.row EXCEPT !.info = e.infos[s]]
                      ELSE IF station[s].status = "live" THEN [station[s] EXCEPT !.info = e.infos[s]]
                      ELSE station[s]
    BY <1>2, <1>4, <2>1
  <2>4. \A t \in StationId : t # s => station'[t] = station[t]
    BY <1>4, <2>1
  <2>5. station[s] \in StationRow
    BY <1>2, <2>1
  <2>6. s \in e.rows => /\ station'[s].status = "live" /\ station'[s].map = m
                        /\ station'[s].info = e.infos[s] /\ station'[s] \in StationRow
    BY <1>2, <1>3, <2>2, <2>3 DEF StationRow
  <2>7. s \notin e.rows =>
            /\ station'[s].status = station[s].status /\ station'[s].map = station[s].map
            /\ station[s].status = "live" => station'[s].info = e.infos[s]
            /\ station'[s] \in StationRow
    BY <2>2, <2>3, <2>5 DEF StationRow
  <2> QED BY <2>4, <2>6, <2>7
<1>7. /\ \A l \in LineId : <<s, l>> \in stops' <=>
            <<s, l>> \in stops \ e.erased \/ l \in DOMAIN e.lines \/ line'[l] # line[l]
      /\ \A t \in StationId, l \in LineId : t # s => (<<t, l>> \in stops' <=> <<t, l>> \in stops)
      /\ stops' \subseteq StationId \X LineId
  <2>1. OwnStops(r) = (stops \ e.erased) \cup {<<s, l>> : l \in DOMAIN e.lines}
    BY <1>0 DEF OwnStops
  <2>2. stops \subseteq StationId \X LineId
    BY <1>1 DEF TablesOK
  <2> QED BY <1>2, <1>3, <1>4, <2>1, <2>2
<1>8. TablesOK'
  <2>1. station' \in [StationId -> StationRow]
    <3>1. \A t \in StationId : station'[t] \in StationRow
      BY <1>1, <1>6 DEF TablesOK
    <3> QED BY <1>1, <1>4, <3>1 DEF TablesOK
  <2>2. \A t \in StationId : StationLive(t)' => station'[t].map \in StationMap
    BY <1>1, <1>2, <1>6 DEF TablesOK, StationLive
  <2>3. torn' \subseteq StationId
    BY <1>1, <1>2, <1>4 DEF TablesOK
  <2> QED BY <1>4, <1>5, <1>7, <2>1, <2>2, <2>3 DEF TablesOK
<1>9. ASSUME NEW t \in StationId, t # s PROVE Agrees(t)'
  <2>1. CASE t \in torn
    BY <1>4, <1>9, <2>1 DEF Agrees
  <2>2. CASE t \notin torn
    <3>1. Agrees(t)
      BY DEF StationIInv
    <3> QED BY <1>1, <1>5, <1>6, <1>7, <1>8, <1>9, <2>2, <3>1, AgreesStill
  <2> QED BY <2>1, <2>2
<1>10. Agrees(s)'
  <2> SUFFICES ASSUME ~e.overtaken PROVE Agrees(s)'
    BY <1>2, <1>4 DEF Agrees
  <2>1. /\ e.rows = {} => s \in LiveOf(m)
        /\ e.erased = StopsAt(s)
        /\ \A l \in DOMAIN e.lines : line[l] = <<m, e.lines[l]>> /\ e.lines[l] # NoLine
        /\ e.infos[s] = {e.lines[l] : l \in DOMAIN e.lines} \cup e.made
    BY <1>0, <1>1 DEF KnowsLines
  <2>2. ASSUME NEW l \in DOMAIN e.lines
        PROVE  l \in LineId /\ e.lines[l] \in LineName /\ line'[l] = <<m, e.lines[l]>> /\ line'[l] # NoLine
    <3>1. l \in LineId /\ e.lines[l] \in LineName
      BY <1>3, <2>1
    <3>2. <<m, e.lines[l]>> # NoLine
      BY <1>2, <3>1, StationAssumption
    <3> QED BY <1>5, <2>1, <3>1, <3>2
  <2>3. ASSUME NEW l \in LineId
        PROVE  <<s, l>> \in stops' <=> l \in DOMAIN e.lines \/ line'[l] # line[l]
    <3>1. <<s, l>> \notin stops \ e.erased
      BY <2>1 DEF StopsAt, StopsAmong
    <3> QED BY <1>7, <3>1
  <2>4. ASSUME NEW l \in LineId, <<s, l>> \in stops'
        PROVE  line'[l] # NoLine /\ line'[l][1] = m /\ line'[l][2] \in e.infos[s]
    <3>1. CASE l \in DOMAIN e.lines
      BY <2>1, <2>2, <3>1
    <3>2. CASE line'[l] # line[l]
      <4>1. PICK n \in e.made : line'[l] = <<m, n>> /\ line'[l] # NoLine
        BY <1>5, <3>2
      <4> QED BY <2>1, <4>1
    <3> QED BY <2>3, <2>4, <3>1, <3>2
  <2>5. ASSUME NEW n \in e.infos[s]
        PROVE  \E l \in LineId : <<s, l>> \in stops' /\ line'[l] # NoLine /\ line'[l][2] = n
    <3>1. CASE \E l \in DOMAIN e.lines : n = e.lines[l]
      BY <2>2, <2>3, <3>1
    <3>2. CASE n \in e.made
      <4>1. PICK l \in LineId : line'[l] = <<m, n>> /\ line'[l] # line[l]
        BY <1>5, <3>2
      <4>2. <<s, l>> \in stops' /\ line'[l] # NoLine
        BY <1>5, <2>3, <4>1
      <4> QED BY <4>1, <4>2
    <3> QED BY <2>1, <2>5, <3>1, <3>2
  <2>6. e.infos[s] = Derived(Names(line'), stops', s)
    <3>1. PICK new, other : new = line' /\ other = stops'
      OBVIOUS
    <3>2. ASSUME NEW n PROVE n \in Derived(Names(new), other, s) <=> n \in e.infos[s]
      <4>1. n \in Derived(Names(new), other, s) <=>
              \E l \in LineId : <<s, l>> \in other /\ new[l] # NoLine /\ new[l][2] = n
        BY <1>5, <3>1, DerivedIs
      <4> QED BY <2>4, <2>5, <3>1, <4>1
    <3>3. Derived(Names(new), other, s) = e.infos[s]
      BY <3>2
    <3> QED BY <3>1, <3>3
  <2>7. station'[s].info = e.infos[s] /\ station'[s].map = m
    BY <1>2, <1>6, <2>1 DEF LiveOf, LiveAmong
  <2> QED BY <2>4, <2>6, <2>7 DEF Agrees
<1>11. MapsOK'
  <2>1. ASSUME NEW k \in StationMap, k # m
        PROVE  LiveAmong(station', k) \subseteq LiveOf(k) /\ LinesOf(line', k) \subseteq LinesOf(line, k)
    <3>1. LiveAmong(station', k) \subseteq LiveOf(k)
      <4> SUFFICES ASSUME NEW t \in StationId, station'[t].status = "live", station'[t].map = k
                   PROVE  station[t].status = "live" /\ station[t].map = k
        BY DEF LiveAmong, LiveOf
      <4> QED BY <1>6, <2>1
    <3>2. LinesOf(line', k) \subseteq LinesOf(line, k)
      <4> SUFFICES ASSUME NEW l \in LineId, line'[l] # NoLine, line'[l][1] = k PROVE line'[l] = line[l]
        BY DEF LinesOf
      <4> QED BY <1>5, <2>1
    <3> QED BY <3>1, <3>2
  <2>2. ASSUME ~e.overtaken, mapRow[m] = "deleted" PROVE m \in stray
    <3>1. s \in LiveOf(m)
      BY <1>0, <1>1, <2>2 DEF KnowsMap, KnowsLines
    <3> QED BY <1>1, <1>2, <2>2, <3>1 DEF MapsOK, NothingOfDeletedMap
  <2> QED BY <1>1, <1>2, <1>4, <2>1, <2>2, MapsStill DEF MapsOK
<1>12. RequestsOK'
  <2>1. CASE Answered(r)
    BY <1>1, <1>7, <2>1, AnsweredKeeps
  <2>2. CASE e.rows # {} /\ Goes(r, [NotEditing EXCEPT !.step = "upsert", !.map = m,
                                                      !.overtaken = e.overtaken])
    <3> DEFINE next == [NotEditing EXCEPT !.step = "upsert", !.map = m, !.overtaken = e.overtaken]
    <3>1. /\ next \in Editing /\ next.step = "upsert" /\ next.map = m /\ next.overtaken = e.overtaken
          /\ next.lines = NotEditing.lines
      <4>1. e.overtaken \in BOOLEAN
        BY <1>1, EditingType
      <4> QED BY <1>2, <4>1, NothingEdited DEF Editing, EditStep
    <3>2. /\ editing'[r] = next
          /\ editing' = [q \in StationRequest |-> IF q = r THEN editing'[r] ELSE Noticed(q)]
      BY <2>2 DEF Goes
    <3> HIDE DEF next
    <3>3. ~e.overtaken => mapRow'[m] = "live"
      BY <1>0, <1>1, <1>4, <2>2 DEF KnowsMap
    <3>4. RequestOK(r)'
      BY <1>2, <3>1, <3>2, <3>3, NothingEdited DEF RequestOK, Held, KnowsLines, KnowsCatalog, KnowsMap
    <3> QED BY <1>1, <1>7, <3>2, <3>4, OneGoes
  <2> QED BY <1>4, <2>1, <2>2
<1> QED BY <1>8, <1>9, <1>10, <1>11, <1>12 DEF StationIInv

LEMMA RemoveTrainStationKeeps ==
    ASSUME StationIInv, NEW s \in StationId, RemoveTrainStation(s)
    PROVE  StationIInv'
<1>1. /\ station' = [station EXCEPT ![s] = NoStation] /\ stops' = stops \ StopsAt(s)
      /\ UNCHANGED <<mapRow, line, torn, stray>> /\ Passes
      /\ TablesOK /\ MapsOK /\ RequestsOK
  BY DEF RemoveTrainStation, StationIInv
<1>2. /\ NoStation \in StationRow /\ NoStation.status = "gone"
      /\ \A t \in StationId : station'[t] = IF t = s THEN NoStation ELSE station[t]
  BY <1>1 DEF TablesOK, NoStation, StationRow, LineInfo
<1>3. stops' \subseteq StationId \X LineId
  BY <1>1 DEF TablesOK
<1>4. TablesOK'
  <2>1. \A t \in StationId : station'[t] \in StationRow /\ (StationLive(t)' => station'[t].map \in StationMap)
    BY <1>1, <1>2 DEF TablesOK, StationLive
  <2>2. station' \in [StationId -> StationRow]
    BY <1>1, <2>1 DEF TablesOK
  <2> QED BY <1>1, <1>3, <2>1, <2>2 DEF TablesOK
<1>5. ASSUME NEW t \in StationId PROVE Agrees(t)'
  <2>1. CASE t = s \/ t \in torn
    BY <1>1, <1>2, <2>1 DEF Agrees, StationLive
  <2>2. CASE t # s /\ t \notin torn
    <3>1. Agrees(t) /\ station'[t] = station[t]
      BY <1>2, <2>2 DEF StationIInv
    <3>2. \A l \in LineId : <<t, l>> \in stops' <=> <<t, l>> \in stops
      BY <1>1, <2>2 DEF StopsAt, StopsAmong
    <3> QED BY <1>1, <1>4, <2>2, <3>1, <3>2, AgreesStill
  <2> QED BY <2>1, <2>2
<1>6. MapsOK'
  <2>1. \A m : LiveAmong(station', m) \subseteq LiveOf(m)
    BY <1>2 DEF LiveAmong, LiveOf
  <2> QED BY <1>1, <2>1 DEF MapsOK, NothingOfDeletedMap, LiveOf
<1>7. RequestsOK'
  BY <1>1, <1>3, PassesKeeps
<1> QED BY <1>4, <1>5, <1>6, <1>7 DEF StationIInv

\* A station is saved as it was read.  Only one request at work goes on.
LEMMA SaveStationKeeps ==
    ASSUME StationIInv, NEW r \in StationRequest, SaveStation(r)
    PROVE  StationIInv'
<1>0. PICK e, s, m : e = editing[r] /\ s = e.id /\ m = e.map
  OBVIOUS
<1>1. /\ e \in Editing /\ Held(r) /\ (~e.overtaken => KnowsMap(r)) /\ e.step = "save"
      /\ TablesOK /\ MapsOK /\ RequestsOK
  BY <1>0 DEF SaveStation, StationIInv, RequestsOK, RequestOK
<1>2. /\ s \in StationId /\ e.row.status = "live" /\ e.row.map = m /\ m \in StationMap
      /\ e.row \in StationRow /\ DOMAIN e.lines = {}
  BY <1>0, <1>1, EditingType DEF Held
<1>3. /\ UNCHANGED <<mapRow, line, stops>>
      /\ stray' = IF e.overtaken THEN stray \cup {m} ELSE stray
  BY <1>0 DEF SaveStation
<1>4. PICK row \in StationRow :
        /\ row.status = "live" /\ row.map = m /\ station' = [station EXCEPT ![s] = row]
        /\ torn' \in {torn, torn \cup {s}}
        /\ s \in torn' \/ (~e.overtaken /\ row = e.row)
        /\ \/ Answered(r)
           \/ /\ editing'[r] = [e EXCEPT !.step = "relines", !.row = row]
              /\ editing' = [q \in StationRequest |-> IF q = r THEN editing'[r] ELSE Noticed(q)]
  <2>1. CASE /\ station' = [station EXCEPT ![s] = e.row]
             /\ torn' = IF e.overtaken THEN torn \cup {s} ELSE torn
             /\ Answered(r)
    BY <1>2, <2>1
  <2>2. ASSUME NEW info \in LineInfo, station' = [station EXCEPT ![s] = [e.row EXCEPT !.info = info]],
               torn' = torn \cup {s},
               Goes(r, [e EXCEPT !.step = "relines", !.row = station'[s]])
        PROVE  \E row \in StationRow :
                 /\ row.status = "live" /\ row.map = m /\ station' = [station EXCEPT ![s] = row]
                 /\ torn' \in {torn, torn \cup {s}}
                 /\ s \in torn' \/ (~e.overtaken /\ row = e.row)
                 /\ \/ Answered(r)
                    \/ /\ editing'[r] = [e EXCEPT !.step = "relines", !.row = row]
                       /\ editing' = [q \in StationRequest |->
                                       IF q = r THEN editing'[r] ELSE Noticed(q)]
    <3>1. PICK row : row = [e.row EXCEPT !.info = info]
      OBVIOUS
    <3>2. row \in StationRow /\ row.status = "live" /\ row.map = m
      BY <1>2, <2>2, <3>1 DEF StationRow
    <3>3. station'[s] = row
      BY <1>1, <1>2, <2>2, <3>1 DEF TablesOK
    <3>n. PICK next : next = [e EXCEPT !.step = "relines", !.row = station'[s]]
      OBVIOUS
    <3>g. Goes(r, next)
      BY <2>2, <3>n
    <3>4. /\ editing'[r] = [e EXCEPT !.step = "relines", !.row = row]
          /\ editing' = [q \in StationRequest |-> IF q = r THEN editing'[r] ELSE Noticed(q)]
      BY <3>3, <3>n, <3>g DEF Goes
    <3> QED BY <2>2, <3>1, <3>2, <3>4
  <2> QED BY <1>0, <2>1, <2>2 DEF SaveStation
<1>5. \A t \in StationId : station'[t] = IF t = s THEN row ELSE station[t]
  BY <1>1, <1>4 DEF TablesOK
<1>6. TablesOK'
  <2>1. \A t \in StationId : station'[t] \in StationRow /\ (StationLive(t)' => station'[t].map \in StationMap)
    BY <1>1, <1>2, <1>4, <1>5 DEF TablesOK, StationLive
  <2>2. station' \in [StationId -> StationRow]
    BY <1>1, <1>4, <2>1 DEF TablesOK
  <2>3. torn' \subseteq StationId
    BY <1>1, <1>2, <1>4 DEF TablesOK
  <2> QED BY <1>1, <1>3, <2>1, <2>2, <2>3 DEF TablesOK
<1>7. ~e.overtaken => station[s] = e.row
  BY <1>0, <1>1 DEF KnowsMap
<1>8. ASSUME NEW t \in StationId PROVE Agrees(t)'
  <2>1. CASE t \in torn'
    BY <2>1 DEF Agrees
  <2>2. CASE t \notin torn'
    <3>1. Agrees(t) /\ station'[t] = station[t] /\ t \notin torn
      BY <1>4, <1>5, <1>7, <2>2 DEF StationIInv
    <3> QED BY <1>1, <1>3, <1>6, <3>1, AgreesStill
  <2> QED BY <2>1, <2>2
<1>9. MapsOK'
  <2>1. ASSUME NEW k \in StationMap, k # m PROVE LiveAmong(station', k) \subseteq LiveOf(k)
    BY <1>4, <1>5, <2>1 DEF LiveAmong, LiveOf
  <2>2. ~e.overtaken => LiveAmong(station', m) \subseteq LiveOf(m)
    BY <1>2, <1>4, <1>5, <1>7 DEF LiveAmong, LiveOf
  <2>3. ASSUME NEW k \in StationMap \ stray', mapRow'[k] = "deleted"
        PROVE  LiveAmong(station', k) = {} /\ LinesOf(line', k) = {}
    <3>1. LiveOf(k) = {} /\ LinesOf(line, k) = {}
      BY <1>1, <1>3, <2>3 DEF MapsOK, NothingOfDeletedMap
    <3> QED BY <1>3, <2>1, <2>2, <2>3, <3>1
  <2> QED BY <1>1, <1>2, <1>3, <2>3 DEF MapsOK, NothingOfDeletedMap, LiveOf
<1>10. RequestsOK'
  <2>0. stops' \subseteq StationId \X LineId
    BY <1>1, <1>3 DEF TablesOK
  <2>1. CASE Answered(r)
    BY <1>1, <2>0, <2>1, AnsweredKeeps
  <2>2. CASE /\ editing'[r] = [e EXCEPT !.step = "relines", !.row = row]
             /\ editing' = [q \in StationRequest |-> IF q = r THEN editing'[r] ELSE Noticed(q)]
    <3> DEFINE next == [e EXCEPT !.step = "relines", !.row = row]
    <3>1. /\ next \in Editing /\ next.step = "relines" /\ next.map = m /\ next.row = row
          /\ next.id = s /\ next.lines = e.lines
      BY <1>0, <1>1, <1>4 DEF Editing, EditStep
    <3>2. /\ editing'[r] = next
          /\ editing' = [q \in StationRequest |-> IF q = r THEN editing'[r] ELSE Noticed(q)]
      BY <2>2
    <3> HIDE DEF next
    <3>3. RequestOK(r)'
      BY <1>2, <1>4, <3>1, <3>2 DEF RequestOK, Held, KnowsLines, KnowsCatalog, KnowsMap
    <3> QED BY <1>1, <2>0, <3>2, <3>3, OneGoes
  <2> QED BY <1>4, <2>1, <2>2
<1> QED BY <1>6, <1>8, <1>9, <1>10 DEF StationIInv

\* A catalogue is committed, with the columns that were computed for it.
LEMMA CommitCatalogKeeps ==
    ASSUME StationIInv, NEW r \in StationRequest, CommitCatalog(r)
    PROVE  StationIInv'
<1>0. PICK e, m, saved, free :
        /\ e = editing[r] /\ m = e.map /\ free = Free
        /\ saved = [l \in LineId |-> IF l \notin DOMAIN e.lines THEN line[l]
                                     ELSE IF e.lines[l] = NoLine THEN NoLine
                                     ELSE <<m, e.lines[l]>>]
  OBVIOUS
<1>1. /\ e \in Editing /\ Held(r) /\ (~e.overtaken => KnowsMap(r) /\ KnowsCatalog(r))
      /\ e.step = "rebuilt" /\ TablesOK /\ MapsOK /\ RequestsOK
  BY <1>0 DEF CommitCatalog, StationIInv, RequestsOK, RequestOK
<1>2. /\ m \in StationMap /\ DOMAIN e.lines \subseteq LineId
      /\ e.lines \in [DOMAIN e.lines -> LineName \cup {NoLine}]
      /\ e.made \subseteq LineName /\ DOMAIN e.infos \subseteq StationId
      /\ e.infos \in [DOMAIN e.infos -> SUBSET LineName]
  BY <1>0, <1>1, EditingType DEF Held
<1>3. /\ mapRow' = mapRow /\ line' \in WithNew(saved, free, m, e.made) /\ Distinct(line')
      /\ stops' = stops \ e.erased
      /\ station' = [s \in StationId |->
                       IF s \in DOMAIN e.infos /\ station[s].status = "live"
                       THEN [station[s] EXCEPT !.info = e.infos[s]] ELSE station[s]]
      /\ torn' = IF e.overtaken THEN torn \cup Doubtful(r, DOMAIN e.lines) ELSE torn
      /\ stray' = IF e.overtaken THEN stray \cup {m} ELSE stray
      /\ Answered(r)
  BY <1>0 DEF CommitCatalog
<1>4. ASSUME NEW l \in LineId
      PROVE  /\ saved[l] \in (StationMap \X LineName) \cup {NoLine}
             /\ l \notin DOMAIN e.lines => saved[l] = line[l]
             /\ l \in DOMAIN e.lines /\ e.lines[l] = NoLine => saved[l] = NoLine
             /\ l \in DOMAIN e.lines /\ e.lines[l] # NoLine =>
                  saved[l] = <<m, e.lines[l]>> /\ saved[l] # NoLine
  <2>1. l \in DOMAIN e.lines /\ e.lines[l] # NoLine =>
           <<m, e.lines[l]>> \in StationMap \X LineName /\ <<m, e.lines[l]>> # NoLine
    <3>1. l \in DOMAIN e.lines /\ e.lines[l] # NoLine => e.lines[l] \in LineName
      BY <1>2
    <3> QED BY <1>2, <3>1, StationAssumption
  <2>2. line[l] \in (StationMap \X LineName) \cup {NoLine}
    BY <1>1 DEF TablesOK, Catalogues
  <2> QED BY <1>0, <2>1, <2>2
<1>5. /\ line' \in Catalogues
      /\ \A l \in LineId : saved[l] # NoLine => line'[l] = saved[l]
      /\ \A l \in LineId : line'[l] # saved[l] =>
            /\ l \in free /\ line'[l] # NoLine
            /\ \E n \in e.made : line'[l] = <<m, n>>
  <2>1. saved \in Catalogues
    BY <1>0, <1>4 DEF Catalogues
  <2>2. free \subseteq LineId /\ \A l \in free : saved[l] = NoLine
    <3>1. \A l \in free : l \in LineId /\ line[l] = NoLine /\ l \notin DOMAIN e.lines
      BY <1>0 DEF Free
    <3> QED BY <1>4, <3>1
  <2>3. PICK new : new = line'
    OBVIOUS
  <2>4. /\ new \in Catalogues
        /\ \A l \in LineId : saved[l] # NoLine => new[l] = saved[l]
        /\ \A l \in LineId : new[l] # saved[l] =>
              /\ l \in free /\ saved[l] = NoLine /\ new[l] # NoLine
              /\ \E n \in e.made : new[l] = <<m, n>>
    BY <1>2, <1>3, <2>1, <2>2, <2>3, WithNewIs
  <2> QED BY <2>3, <2>4
<1>6. \A l \in free : \A s : <<s, l>> \notin stops
  BY <1>0, <1>1 DEF Free
<1>7. ASSUME NEW s \in StationId
      PROVE  /\ station'[s].status = station[s].status /\ station'[s].map = station[s].map
             /\ station'[s] \in StationRow
             /\ s \notin DOMAIN e.infos => station'[s] = station[s]
             /\ s \in DOMAIN e.infos /\ station[s].status = "live" => station'[s].info = e.infos[s]
  <2>1. station[s] \in StationRow /\ (s \in DOMAIN e.infos => e.infos[s] \in LineInfo)
    BY <1>1, <1>2 DEF TablesOK, LineInfo
  <2>2. station'[s] = IF s \in DOMAIN e.infos /\ station[s].status = "live"
                      THEN [station[s] EXCEPT !.info = e.infos[s]] ELSE station[s]
    BY <1>3
  <2> QED BY <2>1, <2>2 DEF StationRow
<1>8. TablesOK'
  <2>1. station' \in [StationId -> StationRow]
    BY <1>3, <1>7
  <2>2. torn' \subseteq StationId
    <3>1. Doubtful(r, DOMAIN e.lines) \subseteq StationId
      BY <1>0, <1>1, EditingType DEF Doubtful, LiveOf, LiveAmong
    <3> QED BY <1>1, <1>3, <3>1 DEF TablesOK
  <2> QED BY <1>1, <1>3, <1>5, <1>7, <2>1, <2>2 DEF TablesOK, StationLive
<1>9. ASSUME e.overtaken, NEW s \in StationId PROVE Agrees(s)'
  <2>1. CASE s \in torn'
    BY <2>1 DEF Agrees
  <2>2. CASE s \notin torn'
    <3>1. s \notin torn /\ s \notin Doubtful(r, DOMAIN e.lines)
      BY <1>3, <1>9, <2>2
    <3>2. /\ s \notin DOMAIN e.infos
          /\ \A l \in LineId : <<s, l>> \notin e.erased /\ (<<s, l>> \in stops => l \notin DOMAIN e.lines)
      BY <1>0, <3>1 DEF Doubtful
    <3>3. \A l \in LineId : <<s, l>> \in stops' <=> <<s, l>> \in stops
      BY <1>3, <3>2
    <3>4. \A l \in LineId : <<s, l>> \in stops /\ line[l] # NoLine => line'[l] = line[l]
      BY <1>4, <1>5, <3>2
    <3>5. Agrees(s) /\ station'[s] = station[s]
      BY <1>7, <3>2 DEF StationIInv
    <3> QED BY <1>1, <1>8, <3>1, <3>3, <3>4, <3>5, AgreesStill
  <2> QED BY <2>1, <2>2
<1>10. ASSUME ~e.overtaken, NEW s \in StationId PROVE Agrees(s)'
  <2>1. /\ DOMAIN e.lines = LinesOf(line, m) /\ DOMAIN e.infos = LiveOf(m)
        /\ e.erased = {x \in stops : x[2] \in Removed(r)}
        /\ \A t \in LiveOf(m) :
                (\A l \in LineId : <<t, l>> \in stops => l \in DOMAIN e.lines)
                => e.infos[t] = {e.lines[l] : l \in {k \in DOMAIN e.lines :
                                              <<t, k>> \in stops /\ e.lines[k] # NoLine}}
    BY <1>0, <1>1, <1>10 DEF KnowsCatalog
  <2>2. \A l \in LineId : <<s, l>> \in stops' <=> <<s, l>> \in stops /\ ~(l \in DOMAIN e.lines /\ e.lines[l] = NoLine)
    BY <1>0, <1>3, <2>1 DEF Removed
  <2>3. CASE s \in torn \/ ~StationLive(s)
    BY <1>3, <1>7, <1>10, <2>3 DEF Agrees, StationLive
  <2>4. CASE s \notin torn /\ StationLive(s) /\ s \notin LiveOf(m)
    <3>1. Agrees(s) /\ station'[s] = station[s] /\ station[s].map # m
      BY <1>7, <2>1, <2>4 DEF StationIInv, StationLive, LiveOf, LiveAmong
    <3>2. \A l \in LineId : <<s, l>> \in stops => l \notin DOMAIN e.lines
      BY <2>1, <2>4, <3>1 DEF Agrees, LinesOf
    <3>3. \A l \in LineId : <<s, l>> \in stops' <=> <<s, l>> \in stops
      BY <2>2, <3>2
    <3>4. \A l \in LineId : <<s, l>> \in stops /\ line[l] # NoLine => line'[l] = line[l]
      BY <1>4, <1>5, <3>2
    <3> QED BY <1>1, <1>8, <2>4, <3>1, <3>3, <3>4, AgreesStill
  <2>5. CASE s \notin torn /\ StationLive(s) /\ s \in LiveOf(m)
    <3>1. station[s].map = m
      BY <2>5 DEF LiveOf, LiveAmong
    <3>2. \A l \in LineId : <<s, l>> \in stops => l \in DOMAIN e.lines
      <4>1. \A l \in LineId : <<s, l>> \in stops => line[l] # NoLine /\ line[l][1] = m
        BY <2>5, <3>1 DEF StationIInv, Agrees
      <4> QED BY <2>1, <4>1 DEF LinesOf
    <3>3. \A l \in LineId : <<s, l>> \in stops' =>
             /\ l \in DOMAIN e.lines /\ e.lines[l] # NoLine /\ <<s, l>> \in stops
             /\ line'[l] = <<m, e.lines[l]>> /\ line'[l] # NoLine
      BY <1>4, <1>5, <2>2, <3>2
    <3>4. e.infos[s] = {e.lines[l] : l \in {k \in DOMAIN e.lines : <<s, k>> \in stops /\ e.lines[k] # NoLine}}
      BY <2>1, <2>5, <3>2
    <3>5. PICK new, other : new = line' /\ other = stops'
      OBVIOUS
    <3>6. Derived(Names(new), other, s)
            = {new[l][2] : l \in {k \in LineId : <<s, k>> \in other /\ new[k] # NoLine}}
      <4>1. new \in Catalogues
        BY <1>5, <3>5
      <4> QED BY <4>1, DerivedIs
    <3>7. {k \in LineId : <<s, k>> \in other /\ new[k] # NoLine}
            = {k \in DOMAIN e.lines : <<s, k>> \in stops /\ e.lines[k] # NoLine}
      BY <1>2, <2>2, <3>3, <3>5
    <3>8. \A k \in DOMAIN e.lines : <<s, k>> \in stops /\ e.lines[k] # NoLine => new[k][2] = e.lines[k]
      BY <1>2, <2>2, <3>3, <3>5
    <3>9. Derived(Names(new), other, s) = e.infos[s]
      <4>1. PICK A : A = {k \in DOMAIN e.lines : <<s, k>> \in stops /\ e.lines[k] # NoLine}
        OBVIOUS
      <4>2. {new[l][2] : l \in A} = {e.lines[l] : l \in A}
        BY <3>8, <4>1
      <4> QED BY <3>4, <3>6, <3>7, <4>1, <4>2
    <3>10. station'[s].info = e.infos[s] /\ station'[s].map = m
      BY <1>7, <2>1, <2>5, <3>1 DEF StationLive
    <3>11. station'[s].info = Derived(Names(line'), stops', s)
      BY <3>5, <3>9, <3>10
    <3>12. \A l \in LineId : <<s, l>> \in stops' => line'[l] # NoLine /\ line'[l][1] = station'[s].map
      BY <3>3, <3>10
    <3> QED BY <3>11, <3>12 DEF Agrees
  <2> QED BY <2>3, <2>4, <2>5
<1>11. MapsOK'
  <2>1. ASSUME NEW k \in StationMap, k # m
        PROVE  LiveAmong(station', k) \subseteq LiveOf(k) /\ LinesOf(line', k) \subseteq LinesOf(line, k)
    <3>1. LiveAmong(station', k) \subseteq LiveOf(k)
      BY <1>7 DEF LiveAmong, LiveOf
    <3>2. LinesOf(line', k) \subseteq LinesOf(line, k)
      <4> SUFFICES ASSUME NEW l \in LineId, line'[l] # NoLine, line'[l][1] = k PROVE line'[l] = line[l]
        BY DEF LinesOf
      <4>1. line'[l] = saved[l]
        BY <1>5, <2>1
      <4> QED BY <1>4, <2>1, <4>1
    <3> QED BY <3>1, <3>2
  <2>2. ~e.overtaken => mapRow[m] = "live"
    BY <1>0, <1>1 DEF KnowsMap
  <2> QED BY <1>1, <1>2, <1>3, <2>1, <2>2, MapsStill DEF MapsOK
<1>12. RequestsOK'
  <2>1. stops' \subseteq StationId \X LineId
    BY <1>1, <1>3 DEF TablesOK
  <2> QED BY <1>1, <1>3, <2>1, AnsweredKeeps
<1>13. \A s \in StationId : Agrees(s)'
  <2>1. e.overtaken \in BOOLEAN
    BY <1>1, EditingType
  <2> QED BY <1>9, <1>10, <2>1
<1> QED BY <1>8, <1>11, <1>12, <1>13 DEF StationIInv

LEMMA RenameTrainStationMapKeeps ==
    ASSUME StationIInv, NEW r \in StationRequest, NEW target \in StationMap,
           RenameTrainStationMap(r, target)
    PROVE  StationIInv'
<1>0. PICK e, m : e = editing[r] /\ m = e.map
  OBVIOUS
<1>1. /\ e \in Editing /\ Held(r) /\ (~e.overtaken => KnowsMap(r)) /\ e.step = "moved"
      /\ TablesOK /\ MapsOK /\ RequestsOK
  BY <1>0 DEF RenameTrainStationMap, StationIInv, RequestsOK, RequestOK
<1>2. m \in StationMap /\ e.held \in StationMap /\ e.rows \subseteq StationId
  BY <1>0, <1>1, EditingType DEF Held
<1>3. /\ mapRow[target] = "absent"
      /\ mapRow' = [mapRow EXCEPT ![e.held] = "absent", ![target] = "live"]
      /\ station' = [s \in StationId |-> IF s \in e.rows THEN [station[s] EXCEPT !.map = target]
                                         ELSE station[s]]
      /\ line' = RenamedLines(m, target) /\ Distinct(line')
      /\ stops' = stops /\ stray' = stray
      /\ torn' = IF e.overtaken THEN torn \cup Doubtful(r, LinesOf(line, m)) ELSE torn
      /\ editing' = [q \in StationRequest |->
                       IF q = r THEN NotEditing
                       ELSE IF editing[q].held = e.held THEN [Noticed(q) EXCEPT !.held = target]
                       ELSE Noticed(q)]
  BY <1>0 DEF RenameTrainStationMap
<1>4. ASSUME NEW s \in StationId
      PROVE  /\ station'[s] \in StationRow /\ station'[s].status = station[s].status
             /\ station'[s].info = station[s].info
             /\ s \in e.rows => station'[s].map = target
             /\ s \notin e.rows => station'[s] = station[s]
  <2>1. station[s] \in StationRow
    BY <1>1 DEF TablesOK
  <2>2. station'[s] = IF s \in e.rows THEN [station[s] EXCEPT !.map = target] ELSE station[s]
    BY <1>3
  <2> QED BY <2>1, <2>2 DEF StationRow
<1>5. ASSUME NEW l \in LineId
      PROVE  /\ line'[l] \in (StationMap \X LineName) \cup {NoLine}
             /\ line'[l] # NoLine <=> line[l] # NoLine
             /\ line[l] # NoLine => line'[l][2] = line[l][2]
             /\ l \in LinesOf(line, m) => line'[l][1] = target
             /\ l \notin LinesOf(line, m) => line'[l] = line[l]
  <2>1. line[l] \in (StationMap \X LineName) \cup {NoLine}
    BY <1>1 DEF TablesOK, Catalogues
  <2>2. line'[l] = IF l \in LinesOf(line, m) THEN <<target, line[l][2]>> ELSE line[l]
    BY <1>3 DEF RenamedLines
  <2>3. l \in LinesOf(line, m) => line[l] # NoLine
    BY DEF LinesOf
  <2>4. l \in LinesOf(line, m) => <<target, line[l][2]>> \in StationMap \X LineName
                                  /\ <<target, line[l][2]>> # NoLine
    BY <2>1, <2>3, StationAssumption
  <2> QED BY <2>1, <2>2, <2>3, <2>4
<1>6. TablesOK'
  <2>1. station' \in [StationId -> StationRow]
    BY <1>3, <1>4
  <2>2. line' \in Catalogues
    <3>1. line' = [l \in LineId |-> line'[l]]
      BY <1>3 DEF RenamedLines
    <3> QED BY <1>5, <3>1 DEF Catalogues
  <2>3. \A s \in StationId : StationLive(s)' => station'[s].map \in StationMap
    BY <1>1, <1>4 DEF TablesOK, StationLive
  <2>4. torn' \subseteq StationId
    <3>1. Doubtful(r, LinesOf(line, m)) \subseteq StationId
      BY <1>0, <1>1, EditingType DEF Doubtful, LiveOf, LiveAmong
    <3> QED BY <1>1, <1>3, <3>1 DEF TablesOK
  <2> QED BY <1>1, <1>3, <2>1, <2>2, <2>3, <2>4 DEF TablesOK
<1>7. ASSUME NEW s \in StationId, s \notin torn, s \notin e.rows,
             \A l \in LineId : <<s, l>> \in stops => l \notin LinesOf(line, m)
      PROVE  Agrees(s)'
  <2>1. Agrees(s) /\ station'[s] = station[s] /\ stops' = stops
    BY <1>3, <1>4, <1>7 DEF StationIInv
  <2>2. \A l \in LineId : <<s, l>> \in stops => line'[l] = line[l]
    BY <1>5, <1>7
  <2> QED BY <1>1, <1>6, <1>7, <2>1, <2>2, AgreesStill
<1>8. ASSUME e.overtaken, NEW s \in StationId PROVE Agrees(s)'
  <2>1. CASE s \in torn'
    BY <2>1 DEF Agrees
  <2>2. CASE s \notin torn'
    <3>1. s \notin torn /\ s \notin Doubtful(r, LinesOf(line, m))
      BY <1>3, <1>8, <2>2
    <3>2. s \notin e.rows /\ \A l \in LineId : <<s, l>> \in stops => l \notin LinesOf(line, m)
      BY <1>0, <3>1 DEF Doubtful
    <3> QED BY <1>7, <3>1, <3>2
  <2> QED BY <2>1, <2>2
<1>9. ASSUME ~e.overtaken, NEW s \in StationId PROVE Agrees(s)'
  <2>0. e.rows = LiveOf(m) /\ torn' = torn
    BY <1>0, <1>1, <1>3, <1>9 DEF KnowsMap
  <2>1. CASE s \in torn \/ ~StationLive(s)
    BY <1>4, <2>0, <2>1 DEF Agrees, StationLive
  <2>2. CASE s \notin torn /\ StationLive(s) /\ s \notin LiveOf(m)
    <3>1. \A l \in LineId : <<s, l>> \in stops => l \notin LinesOf(line, m)
      BY <2>2 DEF StationIInv, Agrees, LiveOf, LiveAmong, StationLive, LinesOf
    <3> QED BY <1>7, <2>0, <2>2, <3>1
  <2>3. CASE s \notin torn /\ StationLive(s) /\ s \in LiveOf(m)
    <3>1. /\ station[s].info = Derived(Names(line), stops, s)
          /\ \A l \in LineId : <<s, l>> \in stops => l \in LinesOf(line, m) /\ line[l] # NoLine
      BY <2>3 DEF StationIInv, Agrees, LiveOf, LiveAmong, LinesOf
    <3>2. PICK old, new, relation : old = line /\ new = line' /\ relation = stops
      OBVIOUS
    <3>3. Derived(Names(old), relation, s) = Derived(Names(new), relation, s)
      <4>1. old \in Catalogues /\ new \in Catalogues
        BY <1>1, <1>6, <3>2 DEF TablesOK
      <4>2. \A l \in LineId : /\ old[l] # NoLine <=> new[l] # NoLine
                              /\ old[l] # NoLine => new[l][2] = old[l][2]
        BY <1>5, <3>2
      <4> QED BY <4>1, <4>2, DerivedSame
    <3>4. station'[s].info = Derived(Names(line'), stops', s) /\ station'[s].map = target
      BY <1>3, <1>4, <2>0, <2>3, <3>1, <3>2, <3>3
    <3>5. \A l \in LineId : <<s, l>> \in stops' => line'[l] # NoLine /\ line'[l][1] = station'[s].map
      BY <1>3, <1>5, <3>1, <3>4
    <3> QED BY <3>4, <3>5 DEF Agrees
  <2> QED BY <2>1, <2>2, <2>3
<1>10. MapsOK'
  <2>1. /\ mapRow' \in [StationMap -> {"absent", "live", "deleted"}] /\ mapRow'[target] # "deleted"
        /\ \A k \in StationMap : mapRow'[k] = "deleted" => mapRow[k] = "deleted"
    BY <1>1, <1>2, <1>3 DEF MapsOK
  <2>2. ASSUME NEW k \in StationMap, k # target
        PROVE  LiveAmong(station', k) \subseteq LiveOf(k) /\ LinesOf(line', k) \subseteq LinesOf(line, k)
    <3>1. LiveAmong(station', k) \subseteq LiveOf(k)
      BY <1>4, <2>2 DEF LiveAmong, LiveOf
    <3>2. LinesOf(line', k) \subseteq LinesOf(line, k)
      <4> SUFFICES ASSUME NEW l \in LineId, line'[l] # NoLine, line'[l][1] = k PROVE line'[l] = line[l]
        BY DEF LinesOf
      <4> QED BY <1>5, <2>2
    <3> QED BY <3>1, <3>2
  <2> QED BY <1>1, <1>3, <2>1, <2>2, MapsStill DEF MapsOK
<1>11. RequestsOK'
  <2>0. stops' \subseteq StationId \X LineId
    BY <1>1, <1>3 DEF TablesOK
  <2>1. ASSUME NEW q \in StationRequest PROVE RequestOK(q)'
    <3>0. RequestOK(q) /\ editing[q] \in Editing
      BY <1>1 DEF RequestsOK, RequestOK
    <3>1. CASE q = r
      <4>1. editing'[r] = NotEditing
        BY <1>3
      <4> QED BY <3>1, <4>1, NothingEdited DEF RequestOK, Held, KnowsLines, KnowsCatalog, KnowsMap
    <3>2. CASE q # r /\ editing[q].held = e.held
      <4>1. editing'[q] = [Noticed(q) EXCEPT !.held = target]
        BY <1>3, <3>2
      <4> QED BY <1>1, <2>0, <3>0, <4>1, NoticedKeeps
    <3>3. CASE q # r /\ editing[q].held # e.held
      <4>1. editing'[q] = Noticed(q)
        BY <1>3, <3>3
      <4>2. Noticed(q) = [Noticed(q) EXCEPT !.held = editing[q].held]
        BY <3>0 DEF Noticed, Editing
      <4> QED BY <1>1, <2>0, <3>0, <4>1, <4>2, NoticedKeeps
    <3> QED BY <3>1, <3>2, <3>3
  <2>2. \A q \in StationRequest : editing'[q] \in Editing
    BY <2>1 DEF RequestOK
  <2>3. editing' = [q \in StationRequest |-> editing'[q]]
    BY <1>3
  <2> QED BY <2>1, <2>2, <2>3 DEF RequestsOK
<1>12. \A s \in StationId : Agrees(s)'
  <2>1. e.overtaken \in BOOLEAN
    BY <1>1, EditingType
  <2> QED BY <1>8, <1>9, <2>1
<1> QED BY <1>6, <1>10, <1>11, <1>12 DEF StationIInv

LEMMA RemoveTrainStationMapKeeps ==
    ASSUME StationIInv, NEW r \in StationRequest, RemoveTrainStationMap(r)
    PROVE  StationIInv'
<1>0. PICK e, m, gone : e = editing[r] /\ m = e.map /\ gone = LinesOf(line, m)
  OBVIOUS
<1>1. /\ e \in Editing /\ Held(r) /\ (~e.overtaken => KnowsMap(r)) /\ e.step = "emptied"
      /\ TablesOK /\ MapsOK /\ RequestsOK
  BY <1>0 DEF RemoveTrainStationMap, StationIInv, RequestsOK, RequestOK
<1>2. m \in StationMap
  BY <1>0, <1>1 DEF Held
<1>3. /\ line' = [l \in LineId |-> IF l \in gone THEN NoLine ELSE line[l]]
      /\ stops' = stops \ e.erased
      /\ mapRow' = [mapRow EXCEPT ![m] = IF @ = "live" THEN "deleted" ELSE @]
      /\ torn' = IF e.overtaken THEN torn \cup Doubtful(r, gone) ELSE torn
      /\ stray' = IF e.overtaken THEN stray \cup {m} ELSE stray
      /\ station' = station /\ Answered(r)
  BY <1>0 DEF RemoveTrainStationMap
<1>4. /\ \A l \in LineId : l \in gone <=> line[l] # NoLine /\ line[l][1] = m
      /\ \A l \in LineId : line'[l] = IF l \in gone THEN NoLine ELSE line[l]
  BY <1>0, <1>3 DEF LinesOf
<1>5. TablesOK'
  <2>1. line' \in Catalogues
    BY <1>1, <1>3 DEF TablesOK, Catalogues
  <2>2. Distinct(line')
    BY <1>1, <1>4 DEF TablesOK, Distinct
  <2>3. torn' \subseteq StationId
    <3>1. Doubtful(r, gone) \subseteq StationId
      BY <1>0, <1>1, EditingType DEF Doubtful, LiveOf, LiveAmong
    <3> QED BY <1>1, <1>3, <3>1 DEF TablesOK
  <2> QED BY <1>1, <1>3, <2>1, <2>2, <2>3 DEF TablesOK, StationLive
<1>6. ASSUME NEW s \in StationId, s \notin torn,
             \A l \in LineId : <<s, l>> \in stops => l \notin gone /\ <<s, l>> \notin e.erased
      PROVE  Agrees(s)'
  <2>1. Agrees(s) /\ station'[s] = station[s]
    BY <1>3 DEF StationIInv
  <2>2. \A l \in LineId : <<s, l>> \in stops' <=> <<s, l>> \in stops
    BY <1>3, <1>6
  <2>3. \A l \in LineId : <<s, l>> \in stops => line'[l] = line[l]
    BY <1>4, <1>6
  <2> QED BY <1>1, <1>5, <1>6, <2>1, <2>2, <2>3, AgreesStill
<1>7. ASSUME NEW s \in StationId PROVE Agrees(s)'
  <2>1. CASE s \in torn' \/ ~StationLive(s)
    BY <1>3, <2>1 DEF Agrees, StationLive
  <2>2. CASE s \notin torn' /\ e.overtaken
    <3>1. s \notin torn /\ s \notin Doubtful(r, gone)
      BY <1>3, <2>2
    <3>2. \A l \in LineId : <<s, l>> \in stops => l \notin gone /\ <<s, l>> \notin e.erased
      BY <1>0, <3>1 DEF Doubtful
    <3> QED BY <1>6, <3>1, <3>2
  <2>3. CASE s \notin torn' /\ ~e.overtaken /\ StationLive(s)
    <3>1. LiveOf(m) = {} /\ e.erased = {x \in stops : x[2] \in gone} /\ s \notin torn
      BY <1>0, <1>1, <1>3, <2>3 DEF KnowsMap
    <3>2. station[s].map # m
      BY <2>3, <3>1 DEF LiveOf, LiveAmong, StationLive
    <3>3. \A l \in LineId : <<s, l>> \in stops => line[l][1] # m
      BY <2>3, <3>1, <3>2 DEF StationIInv, Agrees
    <3>4. \A l \in LineId : <<s, l>> \in stops => l \notin gone /\ <<s, l>> \notin e.erased
      BY <1>4, <3>1, <3>3
    <3> QED BY <1>6, <3>1, <3>4
  <2>4. e.overtaken \in BOOLEAN
    BY <1>1, EditingType
  <2> QED BY <2>1, <2>2, <2>3, <2>4
<1>8. MapsOK'
  <2>1. \A k : LiveAmong(station', k) = LiveOf(k) /\ LinesOf(line', k) \subseteq LinesOf(line, k)
    BY <1>3, <1>4 DEF LiveOf, LinesOf
  <2>2. LinesOf(line', m) = {}
    BY <1>4 DEF LinesOf
  <2>3. ~e.overtaken => LiveOf(m) = {}
    BY <1>0, <1>1 DEF KnowsMap
  <2>4. /\ mapRow' \in [StationMap -> {"absent", "live", "deleted"}]
        /\ \A k \in StationMap : k # m => mapRow'[k] = mapRow[k]
    BY <1>1, <1>2, <1>3 DEF MapsOK
  <2>5. \A k \in StationMap \ {m} :
              /\ mapRow'[k] = "deleted" => mapRow[k] = "deleted"
              /\ LiveAmong(station', k) \subseteq LiveOf(k)
              /\ LinesOf(line', k) \subseteq LinesOf(line, k)
    BY <2>1, <2>4
  <2>6. m \in stray' \/ (LiveAmong(station', m) = {} /\ LinesOf(line', m) = {})
    BY <1>3, <2>1, <2>2, <2>3
  <2>7. stray \subseteq stray' /\ stray' \subseteq stray \cup {m}
    BY <1>3
  <2> QED BY <1>1, <1>2, <2>4, <2>5, <2>6, <2>7, MapsStill
<1>9. RequestsOK'
  <2>1. stops' \subseteq StationId \X LineId
    BY <1>1, <1>3 DEF TablesOK
  <2> QED BY <1>1, <1>3, <2>1, AnsweredKeeps
<1> QED BY <1>5, <1>7, <1>8, <1>9 DEF StationIInv

\* The lines of a map are erased, and those of a set of names created.
LEMMA SeededLines ==
    ASSUME TablesOK, NEW m, NEW names, NEW erased, NEW free, NEW new,
           m \in StationMap, names \subseteq LineName,
           erased \in Catalogues,
           \A l \in LineId : erased[l] = IF l \in LinesOf(line, m) THEN NoLine ELSE line[l],
           free \subseteq LineId, \A l \in free : erased[l] = NoLine,
           new \in WithNew(erased, free, m, names)
    PROVE  /\ new \in Catalogues /\ Distinct(new)
           /\ \A l \in LineId : line[l] # NoLine /\ line[l][1] # m => new[l] = line[l]
           /\ \A l \in LineId : new[l] # NoLine /\ new[l][1] # m => new[l] = line[l]
           /\ \A n \in names : \E l \in LineId : new[l] = <<m, n>>
<1>1. ASSUME NEW l \in LineId
      PROVE  /\ line[l] # NoLine /\ line[l][1] # m => erased[l] = line[l]
             /\ erased[l] # NoLine => erased[l] = line[l] /\ line[l][1] # m
  BY DEF LinesOf
<1>3. /\ new \in Catalogues
      /\ \A l \in LineId : erased[l] # NoLine => new[l] = erased[l]
      /\ \A l \in LineId : new[l] # erased[l] =>
            /\ l \in free /\ erased[l] = NoLine /\ new[l] # NoLine
            /\ \E n \in names : new[l] = <<m, n>>
      /\ \A n \in names : \E l \in free : new[l] = <<m, n>> /\ new[l] # erased[l]
      /\ \A k, l \in LineId : new[k] = new[l] /\ new[k] # erased[k] /\ new[l] # erased[l] => k = l
  BY WithNewIs
<1>4. ASSUME NEW k \in LineId, NEW l \in LineId, new[k] = new[l], new[k] # NoLine PROVE k = l
  <2>1. CASE new[k] # erased[k] /\ new[l] # erased[l]
    BY <1>3, <1>4, <2>1
  <2>2. CASE new[k] = erased[k] /\ new[l] # erased[l]
    <3>1. \E n \in names : new[l] = <<m, n>>
      BY <1>3, <2>2
    <3>2. new[k] = line[k] /\ line[k][1] # m
      BY <1>1, <1>4, <2>2
    <3>3. PICK n \in names : line[k] = <<m, n>>
      BY <1>4, <3>1, <3>2
    <3> QED BY <3>2, <3>3
  <2>3. CASE new[k] # erased[k] /\ new[l] = erased[l]
    <3>1. \E n \in names : new[k] = <<m, n>>
      BY <1>3, <2>3
    <3>2. new[l] = line[l] /\ line[l][1] # m
      BY <1>1, <1>4, <2>3
    <3>3. PICK n \in names : line[l] = <<m, n>>
      BY <1>4, <3>1, <3>2
    <3> QED BY <3>2, <3>3
  <2>4. CASE new[k] = erased[k] /\ new[l] = erased[l]
    <3>1. line[k] = line[l] /\ line[k] # NoLine
      BY <1>1, <1>4, <2>4
    <3> QED BY <3>1 DEF TablesOK, Distinct
  <2> QED BY <2>1, <2>2, <2>3, <2>4
<1>5. \A l \in LineId : new[l] # NoLine /\ new[l][1] # m => new[l] = line[l]
  BY <1>1, <1>3
<1> QED BY <1>1, <1>3, <1>4, <1>5 DEF Distinct

LEMMA SeedTrainStationDataKeeps ==
    ASSUME StationIInv, NEW m \in StationMap, NEW lines,
           DOMAIN lines \in SUBSET Ident, lines \in [DOMAIN lines -> SUBSET LineName],
           SeedTrainStationData(m, lines)
    PROVE  /\ TablesOK' /\ \A s \in StationId : Agrees(s)'
           /\ \A k \in StationMap \ {m} :
                 LiveAmong(station', k) \subseteq LiveOf(k) /\ LinesOf(line', k) \subseteq LinesOf(line, k)
<1> DEFINE seeded == DOMAIN lines
           erased == [l \in LineId |-> IF l \in LinesOf(line, m) THEN NoLine ELSE line[l]]
           kept == {e \in stops : e[1] \notin LiveOf(m)}
           free == {l \in LineId : erased[l] = NoLine /\ \A e \in kept : e[2] # l}
           names == UNION {lines[i] : i \in seeded}
<1>1. PICK row \in [seeded -> StationId] :
           /\ \A i, k \in seeded : row[i] = row[k] => i = k
           /\ \A i \in seeded : IF Found(m, i) = {}
                                 THEN station[row[i]].status # "live" /\ StopsAt(row[i]) = {}
                                 ELSE row[i] \in Found(m, i)
           /\ line' \in WithNew(erased, free, m, names)
           /\ stops' = kept \cup {e \in StationId \X LineId :
                                    \E i \in seeded : /\ row[i] = e[1]
                                                     /\ \E n \in lines[i] : line'[e[2]] = <<m, n>>}
           /\ station' = [s \in StationId |->
                            IF \E i \in seeded : row[i] = s
                            THEN LET i == CHOOSE k \in seeded : row[k] = s
                                 IN  [status |-> "live", map |-> m, ident |-> i,
                                      info |-> lines[i]]
                            ELSE station[s]]
           /\ torn' = (torn \cup LiveOf(m)) \ {row[i] : i \in seeded}
  BY Zenon DEF SeedTrainStationData
<1>0. /\ seeded = DOMAIN lines
      /\ kept = {e \in stops : e[1] \notin LiveOf(m)}
      /\ free \subseteq LineId /\ \A l \in free : erased[l] = NoLine
      /\ names = UNION {lines[i] : i \in seeded}
  OBVIOUS
<1> HIDE DEF seeded, erased, kept, free, names
<1>2. TablesOK /\ MapsOK
  BY DEF StationIInv
<1>3. /\ seeded \subseteq Ident /\ names \subseteq LineName
      /\ \A i \in seeded : row[i] \in StationId /\ lines[i] \subseteq LineName /\ lines[i] \subseteq names
  BY <1>0, <1>1
<1>4. /\ line' \in Catalogues /\ Distinct(line')
      /\ \A l \in LineId : line[l] # NoLine /\ line[l][1] # m => line'[l] = line[l]
      /\ \A l \in LineId : line'[l] # NoLine /\ line'[l][1] # m => line'[l] = line[l]
      /\ \A n \in names : \E l \in LineId : line'[l] = <<m, n>>
  <2>1. PICK new, old, unused : new = line' /\ old = erased /\ unused = free
    OBVIOUS
  <2>2. /\ old \in Catalogues
        /\ \A l \in LineId : old[l] = IF l \in LinesOf(line, m) THEN NoLine ELSE line[l]
        /\ unused \subseteq LineId /\ (\A l \in unused : old[l] = NoLine)
        /\ new \in WithNew(old, unused, m, names)
    BY <1>0, <1>1, <1>2, <2>1 DEF erased, TablesOK, Catalogues
  <2>3. /\ new \in Catalogues /\ Distinct(new)
        /\ \A l \in LineId : line[l] # NoLine /\ line[l][1] # m => new[l] = line[l]
        /\ \A l \in LineId : new[l] # NoLine /\ new[l][1] # m => new[l] = line[l]
        /\ \A n \in names : \E l \in LineId : new[l] = <<m, n>>
    BY <1>2, <1>3, <2>2, SeededLines
  <2> QED BY <2>1, <2>3
<1>5. ASSUME NEW i \in seeded
      PROVE  /\ station'[row[i]].status = "live" /\ station'[row[i]].map = m
             /\ station'[row[i]].info = lines[i] /\ station'[row[i]] \in StationRow
  <2>1. (CHOOSE k \in seeded : row[k] = row[i]) = i
    BY <1>1
  <2>2. station'[row[i]] = [status |-> "live", map |-> m, ident |-> i, info |-> lines[i]]
    BY <1>1, <1>3, <2>1
  <2>3. lines[i] \in LineInfo /\ i \in Ident
    BY <1>3 DEF LineInfo
  <2> QED BY <2>2, <2>3 DEF StationRow
<1>6. ASSUME NEW s \in StationId, \A i \in seeded : row[i] # s
      PROVE  station'[s] = station[s]
  BY <1>1, <1>6
<1>7. /\ stops' \subseteq StationId \X LineId
      /\ \A s \in StationId, l \in LineId :
            <<s, l>> \in stops' <=> \/ <<s, l>> \in stops /\ s \notin LiveOf(m)
                                    \/ \E i \in seeded : row[i] = s /\ \E n \in lines[i] : line'[l] = <<m, n>>
  <2>1. \A s \in StationId, l \in LineId : <<s, l>> \in kept <=> <<s, l>> \in stops /\ s \notin LiveOf(m)
    BY <1>0
  <2>2. kept \subseteq StationId \X LineId
    BY <1>0, <1>2 DEF TablesOK
  <2> QED BY <1>1, <2>1, <2>2
<1>8. TablesOK'
  <2>1. ASSUME NEW s \in StationId
        PROVE  station'[s] \in StationRow /\ (station'[s].status = "live" => station'[s].map \in StationMap)
    BY <1>2, <1>5, <1>6 DEF TablesOK, StationLive
  <2>2. station' \in [StationId -> StationRow]
    BY <1>1, <2>1
  <2>3. torn' \subseteq StationId
    BY <1>1, <1>2 DEF TablesOK, LiveOf, LiveAmong
  <2> QED BY <1>4, <1>7, <2>1, <2>2, <2>3 DEF TablesOK, StationLive
<1>9. ASSUME NEW i \in seeded, NEW s, s = row[i] PROVE Agrees(s)'
  <2>0. s \in StationId /\ station'[s].info = lines[i] /\ station'[s].map = m
    BY <1>3, <1>5, <1>9
  <2>1. ASSUME NEW l \in LineId
        PROVE  <<s, l>> \in stops' <=> \E n \in lines[i] : line'[l] = <<m, n>>
    <3>1. ~(<<s, l>> \in stops /\ s \notin LiveOf(m))
      BY <1>1, <1>9 DEF Found, StopsAt, StopsAmong
    <3>2. \A k \in seeded : row[k] = s => k = i
      BY <1>1, <1>9
    <3> QED BY <1>7, <1>9, <2>0, <3>1, <3>2
  <2>2. \A n \in lines[i] : <<m, n>> # NoLine /\ \E l \in LineId : line'[l] = <<m, n>>
    BY <1>3, <1>4, StationAssumption
  <2>3. PICK new, other : new = line' /\ other = stops'
    OBVIOUS
  <2>4. Derived(Names(new), other, s)
          = {new[l][2] : l \in {k \in LineId : <<s, k>> \in other /\ new[k] # NoLine}}
    BY <1>4, <2>3, DerivedIs
  <2>5. ASSUME NEW n
        PROVE  n \in lines[i] <=> \E l \in LineId : <<s, l>> \in other /\ new[l] # NoLine /\ new[l][2] = n
    <3>1. ASSUME n \in lines[i]
          PROVE  \E l \in LineId : <<s, l>> \in other /\ new[l] # NoLine /\ new[l][2] = n
      <4>1. PICK l \in LineId : new[l] = <<m, n>> /\ <<m, n>> # NoLine
        BY <2>2, <2>3, <3>1
      <4>2. <<s, l>> \in other
        BY <2>1, <2>3, <3>1, <4>1
      <4> QED BY <4>1, <4>2
    <3>2. ASSUME NEW l \in LineId, <<s, l>> \in other, new[l][2] = n PROVE n \in lines[i]
      <4>1. PICK k \in lines[i] : new[l] = <<m, k>>
        BY <2>1, <2>3, <3>2
      <4> QED BY <3>2, <4>1
    <3> QED BY <3>1, <3>2
  <2>6. Derived(Names(new), other, s) = lines[i]
    BY <2>4, <2>5
  <2>7. \A l \in LineId : <<s, l>> \in stops' => line'[l] # NoLine /\ line'[l][1] = m
    BY <2>1, <2>2
  <2>8. station'[s].info = Derived(Names(line'), stops', s)
    BY <2>0, <2>3, <2>6
  <2> QED BY <2>0, <2>7, <2>8 DEF Agrees
<1>10. ASSUME NEW s \in StationId, \A i \in seeded : row[i] # s PROVE Agrees(s)'
  <2>1. station'[s] = station[s]
    BY <1>6, <1>10
  <2>2. CASE s \in torn' \/ ~StationLive(s)
    BY <2>1, <2>2 DEF Agrees, StationLive
  <2>3. CASE s \notin torn' /\ StationLive(s)
    <3>1. s \notin torn /\ s \notin LiveOf(m) /\ station[s].map # m
      BY <1>1, <1>10, <2>3 DEF LiveOf, LiveAmong, StationLive
    <3>2. Agrees(s)
      BY DEF StationIInv
    <3>3. \A l \in LineId : <<s, l>> \in stops' <=> <<s, l>> \in stops
      BY <1>7, <1>10, <3>1
    <3>4. \A l \in LineId : <<s, l>> \in stops /\ line[l] # NoLine /\ line[l][1] = station[s].map
                            => line'[l] = line[l]
      BY <1>4, <3>1
    <3> QED BY <1>2, <1>8, <2>1, <3>1, <3>2, <3>3, <3>4, AgreesStill
  <2> QED BY <2>2, <2>3
<1>11. ASSUME NEW k \in StationMap \ {m}
       PROVE  LiveAmong(station', k) \subseteq LiveOf(k) /\ LinesOf(line', k) \subseteq LinesOf(line, k)
  <2>1. LiveAmong(station', k) \subseteq LiveOf(k)
    <3> SUFFICES ASSUME NEW s \in StationId, station'[s].status = "live", station'[s].map = k
                 PROVE  station[s].status = "live" /\ station[s].map = k
      BY DEF LiveAmong, LiveOf
    <3> QED BY <1>5, <1>6, <1>11
  <2>2. LinesOf(line', k) \subseteq LinesOf(line, k)
    BY <1>4, <1>11 DEF LinesOf
  <2> QED BY <2>1, <2>2
<1>12. \A s \in StationId : Agrees(s)'
  BY <1>9, <1>10
<1> QED BY <1>8, <1>11, <1>12

LEMMA RestartWithSeedKeeps ==
    ASSUME StationIInv, NEW m \in SeededMap, RestartWithSeed(m)
    PROVE  StationIInv'
<1>1. /\ mapRow' = mapRow /\ editing' = [r \in StationRequest |-> NotEditing]
      /\ stray' = IF mapRow[m] = "deleted" THEN stray \cup {m} ELSE stray
      /\ TablesOK /\ MapsOK
  BY DEF RestartWithSeed, StationIInv
<1>2. m \in StationMap
  BY StationAssumption
<1>3. /\ TablesOK' /\ \A s \in StationId : Agrees(s)'
      /\ \A k \in StationMap \ {m} :
            LiveAmong(station', k) \subseteq LiveOf(k) /\ LinesOf(line', k) \subseteq LinesOf(line, k)
  <2>1. CASE UNCHANGED <<station, line, stops, torn>>
    BY <2>1 DEF StationIInv, TablesOK, Agrees, StationLive, LiveOf
  <2>2. ASSUME NEW seeded \in SUBSET Ident, NEW lines \in [seeded -> SUBSET LineName],
               SeedTrainStationData(m, lines)
        PROVE  /\ TablesOK' /\ \A s \in StationId : Agrees(s)'
               /\ \A k \in StationMap \ {m} :
                     /\ LiveAmong(station', k) \subseteq LiveOf(k)
                     /\ LinesOf(line', k) \subseteq LinesOf(line, k)
    BY <1>2, <2>2, SeedTrainStationDataKeeps
  <2> QED BY <2>1, <2>2 DEF RestartWithSeed
<1>4. MapsOK'
  BY <1>1, <1>2, <1>3, MapsStill DEF MapsOK
<1>5. RequestsOK'
  BY <1>1, NothingEdited DEF RequestsOK, RequestOK, Held, KnowsLines, KnowsCatalog, KnowsMap
<1> QED BY <1>3, <1>4, <1>5 DEF StationIInv

-----------------------------------------------------------------------------
(* Theorems                                                                *)

LEMMA StationInitial == StationInit => StationIInv
<1> SUFFICES ASSUME StationInit PROVE StationIInv
  OBVIOUS
<1>1. NoStation \in StationRow /\ NoStation.status = "gone"
  BY DEF NoStation, StationRow, LineInfo
<1>2. TablesOK
  BY <1>1 DEF StationInit, TablesOK, Catalogues, Distinct, StationLive
<1>3. MapsOK
  BY DEF StationInit, MapsOK, NothingOfDeletedMap
<1>4. RequestsOK
  BY NothingEdited DEF StationInit, RequestsOK, RequestOK, Held, KnowsLines, KnowsCatalog, KnowsMap
<1>5. \A s \in StationId : Agrees(s)
  BY <1>1 DEF StationInit, Agrees, StationLive
<1> QED BY <1>2, <1>3, <1>4, <1>5 DEF StationIInv

LEMMA StationStepKeeps == StationIInv /\ [StationNext]_stationVars => StationIInv'
<1> SUFFICES ASSUME StationIInv, [StationNext]_stationVars PROVE StationIInv'
  OBVIOUS
<1>1. CASE UNCHANGED stationVars
  <2>1. TablesOK' /\ MapsOK' /\ \A s \in StationId : Agrees(s)'
    BY <1>1 DEF stationVars, StationIInv, TablesOK, MapsOK, NothingOfDeletedMap, Agrees,
               StationLive, LiveOf
  <2>2. ASSUME NEW r \in StationRequest PROVE RequestOK(r)'
    <3>1. RequestOK(r) /\ editing[r] \in Editing
      BY DEF StationIInv, RequestsOK, RequestOK
    <3>2. InHandKept(r)
      BY <1>1 DEF stationVars, InHandKept, StationKept, MapKept
    <3>3. editing'[r] = [Noticed(r) EXCEPT !.held = editing[r].held]
      <4>1. Noticed(r) = editing[r]
        BY <3>1, <3>2 DEF Noticed, Editing
      <4> QED BY <1>1, <3>1, <4>1 DEF stationVars, Editing
    <3>4. TablesOK /\ stops' \subseteq StationId \X LineId
      BY <1>1 DEF stationVars, StationIInv, TablesOK
    <3> QED BY <3>1, <3>3, <3>4, NoticedKeeps
  <2> QED BY <1>1, <2>1, <2>2 DEF stationVars, StationIInv, RequestsOK
<1>2. ASSUME NEW r \in StationRequest, NEW m \in StationMap,
             \/ \E step \in {"idle", "upsert", "lines", "catalog"} : EnsureMap(r, m, step)
             \/ ReadMap(r, m) \/ RenameTrainStationMap(r, m) \/ CountStations(r, m)
      PROVE  StationIInv'
  BY <1>2, EnsureMapKeeps, ReadMapKeeps, RenameTrainStationMapKeeps, CountStationsKeeps
<1>3. ASSUME NEW r \in StationRequest, NEW i \in Ident, NEW names \in SUBSET LineName,
             UpsertTrainStation(r, i, names)
      PROVE  StationIInv'
  BY <1>3, UpsertTrainStationKeeps
<1>4. ASSUME NEW r \in StationRequest, NEW s \in StationId,
             \/ \E names \in SUBSET LineName : UpdateTrainStationLines(r, s, names)
             \/ ReadStation(r, s)
      PROVE  StationIInv'
  BY <1>4, UpdateTrainStationLinesKeeps, ReadStationKeeps
<1>5. ASSUME NEW r \in StationRequest,
             \/ \E n \in LineName : EnsureLine(r, n)
             \/ DeriveColumn(r) \/ CommitLines(r)
             \/ ReadCatalog(r) \/ EraseStops(r) \/ RebuildLineInfo(r) \/ CommitCatalog(r)
      PROVE  StationIInv'
  BY <1>5, EnsureLineKeeps, DeriveColumnKeeps, CommitLinesKeeps, ReadCatalogKeeps, EraseStopsKeeps,
     RebuildLineInfoKeeps, CommitCatalogKeeps
<1>6. ASSUME NEW r \in StationRequest,
             \/ MoveStations(r) \/ EmptyMap(r) \/ RemoveTrainStationMap(r)
             \/ SaveStation(r) \/ RelineStation(r) \/ EndRequest(r)
      PROVE  StationIInv'
  BY <1>6, MoveStationsKeeps, EmptyMapKeeps, RemoveTrainStationMapKeeps, SaveStationKeeps,
     RelineStationKeeps, EndRequestKeeps
<1>7. ASSUME NEW s \in StationId, RemoveTrainStation(s) PROVE StationIInv'
  BY <1>7, RemoveTrainStationKeeps
<1>8. ASSUME NEW m \in StationMap, CreateTrainStationMap(m) PROVE StationIInv'
  BY <1>8, CreateTrainStationMapKeeps
<1>9. ASSUME NEW m \in SeededMap, RestartWithSeed(m) PROVE StationIInv'
  BY <1>9, RestartWithSeedKeeps
<1> QED BY <1>1, <1>2, <1>3, <1>4, <1>5, <1>6, <1>7, <1>8, <1>9 DEF StationNext

\* In every state that is reached, whatever statements of whatever transactions
\* came between one another: the tables are what they should be, and what a
\* request has read is still so, unless it has been overtaken.
THEOREM StationInvariant == StationSpec => []StationIInv
<1> QED BY StationInitial, StationStepKeeps, PTL DEF StationSpec

\* The types of the model's state.
THEOREM StationTypes == StationSpec => []StationTypeOK
<1>1. StationIInv => StationTypeOK
  BY DEF StationIInv, TablesOK, MapsOK, RequestsOK, StationTypeOK, Catalogues, Distinct
<1> QED BY <1>1, StationInvariant, PTL

\* The column of a station, the relation between stations and lines, and the
\* catalogue of its map agree, whatever is renamed, removed or seeded and
\* whatever happens between the statements of a transaction: except of stations
\* last written by a request that another has overtaken, or by a seed.
THEOREM StationLinesAgree == StationSpec => []LinesAgree
<1>1. StationIInv => LinesAgree
  BY DEF StationIInv, Agrees, LinesAgree, LineInfoDerived, LinesOfOwnMap
<1> QED BY <1>1, StationInvariant, PTL

\* A map that was removed leaves no station and no line behind, except where a
\* request that was overtaken, or a new seed, has brought some back.
THEOREM RemovedMapsAreEmpty == StationSpec => []NothingOfDeletedMap
<1>1. StationIInv => NothingOfDeletedMap
  BY DEF StationIInv, MapsOK
<1> QED BY <1>1, StationInvariant, PTL

-----------------------------------------------------------------------------
(* The run of markers, stations, pins and groups                           *)

\* Each behaviour of the run is one of every component, most of which rest: what
\* is proved of a component holds in the run.
LEMMA CatalogueRun ==
    CatalogueSpec => Spec /\ StationSpec /\ PinSpec /\ GroupSpec
<1>1. CatalogueInit => Init /\ StationInit /\ PinInit /\ GroupInit
  BY DEF CatalogueInit
<1>2. [CatalogueNext]_catalogueVars => [Next]_vars /\ [StationNext]_stationVars /\ [PinNext]_pinVars /\ [GroupNext]_groupVars
  BY DEF CatalogueNext, catalogueVars
<1> QED BY <1>1, <1>2, PTL DEF CatalogueSpec, Spec, StationSpec, PinSpec, GroupSpec

\* The types of markers, stations, pins and groups, together.
THEOREM CatalogueTypes == CatalogueSpec => []CatalogueTypesOK
<1>1. TypeOK /\ StationTypeOK /\ PinIInv /\ GroupIInv => CatalogueTypesOK
  BY DEF PinIInv, GroupIInv, CatalogueTypesOK
<1> QED BY <1>1, CatalogueRun, MarkerTypeCorrect, StationTypes, PinInvariant, GroupInvariant, PTL

=============================================================================
