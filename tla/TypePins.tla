------------------------------- MODULE TypePins -------------------------------
(***************************************************************************)
(* Pins, marker types and the images composed of them (service/pin.go,     *)
(* service/marker_type.go, service/type_pin.go).                           *)
(*                                                                         *)
(* A map shows a marker as the image of its type on the pin that the user  *)
(* has chosen; these images are drawn in advance, one for each pair of a   *)
(* pin and a type, when a pin or a type is created or edited.  The row is  *)
(* committed, then the rows of the other table are listed, then a row and  *)
(* an image are made for each: without a transaction, while other          *)
(* administrators do the same from the other side, and errors on the way   *)
(* are not reported.                                                       *)
(***************************************************************************)
EXTENDS Naturals, FiniteSets

CONSTANTS
    Pin,          \* rows of pins
    MarkerType,   \* rows of marker_types
    PinRequest,   \* requests of administrators that are served at the same time
    Upload,       \* uploaded images
    NoImage       \* no image

Drawable == Pin \cup MarkerType
Pair == MarkerType \X Pin

ASSUME PinAssumption ==
    /\ Pin \cap MarkerType = {}
    /\ NoImage \notin Drawable \cup Upload \cup (Upload \X Upload)

VARIABLES
    image,     \* ImagePath, IconPath of each row
    present,   \* rows that are there and not deleted
    drawn,     \* type_pins and their files: the images one is made of
    task,      \* local variables of each request
    failed,    \* pairs left out by a request that has failed (history)
    settled    \* pairs a request that was alone has drawn (history)

pinVars == <<image, present, drawn, task, failed, settled>>

TaskStep == {"idle", "save", "list", "draw"}

\* todo: the rows of the other table as they were listed.
Task == [step : TaskStep, row : Drawable \cup {NoImage}, copy : Upload \cup {NoImage},
         todo : SUBSET (Drawable \X (Upload \cup {NoImage})), alone : BOOLEAN]

NoTask == [step |-> "idle", row |-> NoImage, copy |-> NoImage,
           todo |-> {}, alone |-> FALSE]

PinTypeOK ==
    /\ image \in [Drawable -> Upload \cup {NoImage}]
    /\ present \subseteq Drawable
    /\ \A x \in MarkerType \cap present : image[x] # NoImage
    /\ drawn \in [Pair -> {NoImage} \cup (Upload \X Upload)]
    /\ task \in [PinRequest -> Task]
    /\ failed \subseteq Pair
    /\ settled \subseteq Pair

PinInit ==
    /\ image = [x \in Drawable |-> NoImage]
    /\ present = {}
    /\ drawn = [d \in Pair |-> NoImage]
    /\ task = [r \in PinRequest |-> NoTask]
    /\ failed = {}
    /\ settled = {}

-----------------------------------------------------------------------------

Others(x) == IF x \in Pin THEN MarkerType ELSE Pin

\* The pair of two rows, and the two versions in its order.
PairOf(x, y) == IF x \in Pin THEN <<y, x>> ELSE <<x, y>>

PairsOf(x) == {PairOf(x, y) : y \in Others(x)}

\* A request for x starts: no request is alone any more.
Begin(r, x, step, copy, todo) ==
    /\ task[r].step = "idle"
    /\ task' = [q \in PinRequest |->
                  IF q = r
                  THEN [step |-> step, row |-> x, copy |-> copy, todo |-> todo,
                        alone |-> \A p \in PinRequest \ {r} : task[p].step = "idle"]
                  ELSE [task[q] EXCEPT !.alone = FALSE]]

\* Images in use, and the file of an upload, whose name is always new: which
\* of the others it is makes no difference.
InUse ==
    {image[x] : x \in present} \cup {task[r].copy : r \in PinRequest}
      \cup {e[2] : e \in UNION {task[r].todo : r \in PinRequest}}
      \cup UNION {{drawn[d][1], drawn[d][2]} : d \in {d \in Pair : drawn[d] # NoImage}}

Uploaded(v) ==
    /\ v \in Upload \ InUse
    /\ v = CHOOSE u \in Upload \ InUse : TRUE

\* Nothing but images and failures remembers a row: it may stand for a new one.
Forgotten(x) ==
    /\ x \notin present
    /\ \A r \in PinRequest : task[r].row # x /\ \A e \in task[r].todo : e[1] # x

Listed(x) == {<<y, image[y]>> : y \in Others(x) \cap present}

\* Mistake: the other table is listed before the row is committed.
CreateListedEarly(r, x) ==
    \/ /\ Forgotten(x)
       /\ Begin(r, x, "save", NoImage, Listed(x))
       /\ drawn' = [d \in Pair |-> IF d \in PairsOf(x) THEN NoImage ELSE drawn[d]]
       /\ failed' = failed \ PairsOf(x)
       /\ settled' = settled \ PairsOf(x)
       /\ UNCHANGED <<image, present>>
    \/ /\ task[r].step = "save"
       /\ task[r].row = x
       /\ \E v \in Upload :
             /\ Uploaded(v)
             /\ image' = [image EXCEPT ![x] = v]
             /\ task' = [task EXCEPT ![r].step = "draw", ![r].copy = v]
       /\ present' = present \cup {x}
       /\ UNCHANGED <<drawn, failed, settled>>

\* Mistake: a type may be created without an image, too.
CreateWithoutImage(r, x) ==
    /\ Forgotten(x)
    /\ \E v \in Upload \cup {NoImage} :
          /\ Uploaded(v) \/ v = NoImage
          /\ image' = [image EXCEPT ![x] = v]
          /\ Begin(r, x, "list", v, {})
    /\ present' = present \cup {x}
    /\ drawn' = [d \in Pair |-> IF d \in PairsOf(x) THEN NoImage ELSE drawn[d]]
    /\ failed' = failed \ PairsOf(x)
    /\ settled' = settled \ PairsOf(x)

\* CreatePin, CreateMarkerType: the row of a new pin or type is committed.  A
\* type is refused without an image, a pin is not.
Create(r, x) ==
    /\ Forgotten(x)
    /\ \E v \in Upload \cup {NoImage} :
          /\ Uploaded(v) \/ (v = NoImage /\ x \in Pin)
          /\ image' = [image EXCEPT ![x] = v]
          /\ Begin(r, x, "list", v, {})
    /\ present' = present \cup {x}
    /\ drawn' = [d \in Pair |-> IF d \in PairsOf(x) THEN NoImage ELSE drawn[d]]
    /\ failed' = failed \ PairsOf(x)
    /\ settled' = settled \ PairsOf(x)

\* EditPin, EditMarkerType: the row is read.
ReadRow(r, x) ==
    /\ x \in present
    /\ Begin(r, x, "save", image[x], {})
    /\ UNCHANGED <<image, present, drawn, failed, settled>>

\* Mistake: an edit does not draw the images anew.
SaveOnly(r) ==
    LET x == task[r].row IN
    /\ task[r].step = "save"
    /\ \E v \in Upload :
          /\ Uploaded(v)
          /\ image' = [image EXCEPT ![x] = v]
          /\ task' = [task EXCEPT ![r].step = "draw", ![r].copy = v]
    /\ present' = present \cup {x}
    /\ settled' = settled \ PairsOf(x)
    /\ UNCHANGED <<drawn, failed>>

\* The whole row is saved, with a new image or the one of the copy.  The
\* database library decides what becomes of a row that was deleted meanwhile:
\* it is there again, or the request is refused.
SaveDrawable(r) ==
    LET x == task[r].row IN
    /\ task[r].step = "save"
    /\ \/ /\ \E v \in Upload :
                /\ v = task[r].copy \/ Uploaded(v)
                /\ image' = [image EXCEPT ![x] = v]
                /\ task' = [task EXCEPT ![r].step = "list", ![r].copy = v]
          /\ present' = present \cup {x}
          /\ settled' = settled \ PairsOf(x)
       \/ /\ x \notin present
          /\ task' = [task EXCEPT ![r] = NoTask]
          /\ UNCHANGED <<image, present, settled>>
    /\ UNCHANGED <<drawn, failed>>

\* RemovePin, RemoveMarkerType.  The images stay.
RemoveRow(x) ==
    /\ x \in present
    /\ present' = present \ {x}
    /\ UNCHANGED <<image, drawn, task, failed, settled>>

\* UpdateTypePinByPin, UpdateTypePinByType: the rows of the other table.
ListOthers(r) ==
    LET x == task[r].row IN
    /\ task[r].step = "list"
    /\ task' = [task EXCEPT ![r].step = "draw", ![r].todo = Listed(x)]
    /\ UNCHANGED <<image, present, drawn, failed, settled>>

\* The groups given for a pin are refused after the pin was committed.
GroupsRefused(r) ==
    LET x == task[r].row IN
    /\ task[r].step = "list"
    /\ x \in Pin
    /\ task' = [task EXCEPT ![r] = NoTask]
    /\ failed' = failed \cup PairsOf(x)
    /\ UNCHANGED <<image, present, drawn, settled>>

\* CreateTypePin, for one of the rows that were listed: the row is found or
\* created, the image is drawn over the one before.
CreateTypePin(r, y, v) ==
    LET x == task[r].row
        d == PairOf(x, y)
    IN  /\ task[r].step = "draw"
        /\ <<y, v>> \in task[r].todo
        /\ v # NoImage /\ task[r].copy # NoImage
        /\ drawn' = [drawn EXCEPT ![d] = IF x \in Pin THEN <<v, task[r].copy>>
                                                      ELSE <<task[r].copy, v>>]
        /\ failed' = failed \ {d}
        /\ task' = [task EXCEPT ![r].todo = @ \ {<<y, v>>}]
        /\ UNCHANGED <<image, present, settled>>

\* An image cannot be read or written, or a pin has none: the request stops
\* here, and its caller does not look at the error.
DrawingFails(r) ==
    LET x == task[r].row IN
    /\ task[r].step = "draw"
    /\ task[r].todo # {}
    /\ failed' = failed \cup {PairOf(x, e[1]) : e \in task[r].todo}
    /\ task' = [task EXCEPT ![r] = NoTask]
    /\ UNCHANGED <<image, present, drawn, settled>>

\* All that was listed has been drawn.
FinishDrawing(r) ==
    LET x == task[r].row IN
    /\ task[r].step = "draw"
    /\ task[r].todo = {}
    /\ settled' = IF task[r].alone
                  THEN settled \cup {PairOf(x, y) : y \in Others(x) \cap present}
                  ELSE settled
    /\ task' = [task EXCEPT ![r] = NoTask]
    /\ UNCHANGED <<image, present, drawn, failed>>

PinNext ==
    \/ \E x \in Drawable : RemoveRow(x)
    \/ \E r \in PinRequest, x \in Drawable : Create(r, x) \/ ReadRow(r, x)
    \/ \E r \in PinRequest :
          SaveDrawable(r) \/ ListOthers(r) \/ GroupsRefused(r) \/ DrawingFails(r) \/ FinishDrawing(r)
    \/ \E r \in PinRequest, y \in Drawable, v \in Upload : CreateTypePin(r, y, v)

PinSpec == PinInit /\ [][PinNext]_pinVars

-----------------------------------------------------------------------------
(* Properties                                                              *)

\* A request that is still going to draw this pair.
WillDraw(r, d) ==
    \/ task[r].step = "list" /\ d \in PairsOf(task[r].row)
    \/ task[r].step = "draw" /\ \E e \in task[r].todo : d = PairOf(task[r].row, e[1])

\* Every pin has an image for every type, unless a request is about to draw it or
\* has failed: of two administrators who create a pin and a type at the same
\* time, at least one sees the row of the other.  FetchAllTypePinByUserPreference
\* fails for every user of a pin with a pair left out.
PairsCovered ==
    \A d \in Pair :
       d[1] \in present /\ d[2] \in present
         => drawn[d] # NoImage \/ d \in failed \/ \E r \in PinRequest : WillDraw(r, d)

\* What a request has drawn while no other was served shows the pin and the type
\* as they are, until one of the two is edited: a later edit of another pin or
\* type never puts an old image back.
SettledIsCurrent ==
    \A d \in settled : drawn[d] = <<image[d[1]], image[d[2]]>>

\* Every pair has its image, and the image is that of the pair.
ImagesAgree == PairsCovered /\ SettledIsCurrent

==============================================================================
