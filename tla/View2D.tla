------------------------------- MODULE View2D -------------------------------
(***************************************************************************)
(* One two-dimensional viewport (graph/view2D): nine slots that may each   *)
(* hold a graph, the control panel, and the commands of the interpreter,   *)
(* which viewman forwards one at a time, each to be acknowledged.          *)
(*                                                                         *)
(* Pick, Drop and Query are requests of two clicks: the button leaves its  *)
(* name in doit, and the next click on a slot is what it is for.  The      *)
(* commands simulate such clicks.  The x and the y direction are treated   *)
(* alike by the code and are one here.                                     *)
(***************************************************************************)
EXTENDS Integers, FiniteSets

CONSTANTS
    MaxGraphs,     \* slots
    Keys,          \* graphs that the manager has
    Options2D,     \* of "points", "lines", "box", "axes", "units"
    MaxDelta,      \* how far a centre may be from the origin
    MaxScale,
    MaxEvents2D    \* X events and commands of a session

ASSUME View2DAssumption ==
    /\ MaxGraphs \in Nat \ {0} /\ MaxDelta \in Nat /\ MaxScale \in Nat \ {0}
    /\ Keys \subseteq Nat \ {0} /\ MaxEvents2D \in Nat
    /\ Options2D \subseteq {"points", "lines", "box", "axes", "units"}

Slots == 1 .. MaxGraphs
NoGraph == 0
Requests == {"none", "pick", "drop", "query"}
State2D == [showing : BOOLEAN, selected : BOOLEAN, on : SUBSET Options2D,
            center : -MaxDelta .. MaxDelta, scale : 1 .. MaxScale]

VARIABLES
    g2,        \* the viewport
    events2    \* how many events there have been
vars2 == <<g2, events2>>

\* The fields of a viewport.
Viewport2D ==
    [key : [Slots -> Keys \union {NoGraph}],
     state : [Slots -> State2D], backup : [Slots -> State2D],
     doit : Requests, on : SUBSET Options2D, transON : BOOLEAN,
     zoomON : BOOLEAN, queried : Slots, closing : BOOLEAN,
     haveControl : BOOLEAN, follow : BOOLEAN, spadDraw : BOOLEAN,
     alone : BOOLEAN, drawn : BOOLEAN,
     end : {"no", "exit", "out of step"},
     told : [Slots -> {"nothing", "show", "hide"}],
     reset : SUBSET Slots, kept : SUBSET Slots, asked : BOOLEAN,
     crossed : BOOLEAN, presses : 0 .. 2]

\* Every variable stays in its domain.
View2DTypeOK ==
    /\ g2 \in Viewport2D
    /\ events2 \in 0 .. MaxEvents2D

DefaultOn == {"points", "lines", "axes"} \intersect Options2D

\* The state of a slot before a graph comes.
InitialState ==
    [showing |-> FALSE, selected |-> FALSE, on |-> DefaultOn,
     center |-> 0, scale |-> 1]

\* freeGraph and getGraphFromViewman: the state sent is the one that a reset
\* restores, but the slot keeps its centre, and has the scale of the first.
GetGraph(g, i, k, sent) ==
    LET got == [sent EXCEPT !.selected = TRUE, !.center = g.state[i].center]
    IN [g EXCEPT !.key[i] = k, !.backup[i] = got,
                 !.state[i] = [got EXCEPT !.scale = IF i = 1 THEN got.scale
                                                    ELSE g.state[1].scale],
                 !.kept = IF got.center = 0 THEN @ \ {i} ELSE @ \union {i},
                 !.reset = @ \ {i}]

\* What viewman may send: a graph as it was made, or as it was picked up.
Sent == [showing : BOOLEAN, selected : {FALSE}, on : {DefaultOn}, center : {0},
         scale : 1 .. MaxScale]

\* main: the viewport comes with a graph in its first slot.
Init2D ==
    /\ \E k \in Keys, sent \in Sent, alone, showCP \in BOOLEAN :
         g2 = GetGraph([key |-> [i \in Slots |-> NoGraph],
                        state |-> [i \in Slots |-> InitialState],
                        backup |-> [i \in Slots |-> InitialState],
                        doit |-> "none", on |-> DefaultOn,
                        transON |-> TRUE, zoomON |-> TRUE, queried |-> 1,
                        closing |-> FALSE, haveControl |-> showCP,
                        follow |-> FALSE, spadDraw |-> FALSE,
                        alone |-> alone, drawn |-> TRUE, end |-> "no",
                        told |-> [i \in Slots |-> "nothing"], reset |-> {},
                        kept |-> {}, asked |-> FALSE, crossed |-> FALSE,
                        presses |-> 0], 1, k, sent)
    /\ events2 = 0

(***************************************************************************)
(* Clicks on a slot, by the user or simulated.  `busy' says that viewman   *)
(* waits for the acknowledgement of a command: what is written then is     *)
(* taken for it.                                                           *)
(***************************************************************************)
Drawn(g) == [g EXCEPT !.drawn = TRUE]
Changed(g, i) == [g EXCEPT !.drawn = @ /\ ~g.state[i].showing]

Told(g, i, show) == [g EXCEPT !.told[i] = IF show THEN "show" ELSE "hide"]
Untold(g, i) == [g EXCEPT !.told[i] = "nothing"]

OutOfStep(g) == [g EXCEPT !.end = "out of step"]

\* Mutant: the request is not forgotten.
DoPick_Again(g, i, busy) ==
    LET w == [g EXCEPT !.asked = FALSE]
    IN {IF busy /\ g.key[i] # NoGraph THEN OutOfStep(w) ELSE w}

\* doPick: an empty slot is only a message.
DoPick(g, i, busy) ==
    LET w == [g EXCEPT !.doit = "none", !.asked = FALSE]
    IN {IF busy /\ g.key[i] # NoGraph THEN OutOfStep(w) ELSE w}

\* clickedOnGraph without a request.
Flip(g, i) ==
    Drawn(Untold([g EXCEPT !.state[i].showing = ~@, !.reset = @ \ {i}], i))

\* clickedOnGraphSelect without a request.
FlipSelect(g, i) == [g EXCEPT !.state[i].selected = ~@]

\* A graph that has arrived is shown as it was sent, and selected, by two
\* simulated clicks.
Arrive(g, i, k, sent) ==
    LET w == GetGraph(g, i, k, sent)
        u == [w EXCEPT !.state[i].selected = FALSE, !.state[i].showing = ~@]
    IN Told(FlipSelect(Flip(u, i), i), i, sent.showing)

\* doDrop: viewman says whether there is a graph that was picked.
DoDrop(g, i, busy) ==
    LET w == [g EXCEPT !.doit = "none", !.asked = FALSE]
    IN IF busy THEN {OutOfStep(w)}
       ELSE {w} \union {Arrive(w, i, k, sent) : k \in Keys, sent \in Sent}

Query(g, i) == {[g EXCEPT !.doit = "none", !.asked = FALSE, !.queried = i]}

\* clickedOnGraph: the states that it may lead to.
ClickedOnGraph(g, i, busy) ==
    CASE g.doit = "pick" -> DoPick([g EXCEPT !.queried = i], i, busy)
      [] g.doit = "drop" -> DoDrop([g EXCEPT !.queried = i], i, busy)
      [] g.doit = "query" -> Query(g, i)
      [] g.doit = "none" -> {Flip(g, i)}

ClickedOnGraphSelect(g, i, busy) ==
    CASE g.doit = "pick" -> DoPick(g, i, busy)
      [] g.doit = "drop" -> DoDrop(g, i, busy)
      [] g.doit = "query" -> Query(g, i)
      [] g.doit = "none" -> {FlipSelect(g, i)}

(***************************************************************************)
(* The control panel.  Every press of a button but Close takes back a      *)
(* Close; no press takes back a request, as the test in processEvents can  *)
(* never hold.                                                             *)
(***************************************************************************)

Press(g, pot) == [g EXCEPT !.closing = FALSE, !.follow = pot, !.presses = 0]

Chosen(g) == {i \in Slots : g.state[i].showing /\ g.state[i].selected}

\* pick2D, drop2D and query2D.
RequestButton(r) ==
    /\ g2.haveControl
    /\ LET w == Press(g2, FALSE)
       IN g2' = IF r # "query" /\ g2.alone THEN w
                ELSE [w EXCEPT !.doit = r, !.asked = TRUE]

GraphButton(i) ==
    /\ g2.haveControl
    /\ g2' \in ClickedOnGraph(Press(g2, FALSE), i, FALSE)

GraphSelectButton(i) ==
    /\ g2.haveControl
    /\ g2' \in ClickedOnGraphSelect(Press(g2, FALSE), i, FALSE)

\* zoom2Dx, zoom2Dy, translate2Dx and translate2Dy.
AxisButton ==
    /\ g2.haveControl
    /\ \/ g2' = [Press(g2, FALSE) EXCEPT !.zoomON = ~@]
       \/ g2' = [Press(g2, FALSE) EXCEPT !.transON = ~@]

\* A graph takes the panel's setting of an option.
Follows(state, option, isOn) ==
    [state EXCEPT !.on = IF isOn THEN @ \union {option} ELSE @ \ {option}]

\* pointsOnOff, connectOnOff, spline2D, axesOnOff2D and unitsOnOff2D.
OptionButton(option) ==
    /\ g2.haveControl
    /\ LET isOn == option \notin g2.on
       IN g2' = Drawn([Press(g2, FALSE) EXCEPT
            !.on = IF isOn THEN @ \union {option} ELSE @ \ {option},
            !.state = [i \in Slots |-> IF i \in Chosen(g2)
                                       THEN Follows(g2.state[i], option, isOn)
                                       ELSE g2.state[i]]])

\* ps2D draws into a file, HideControl unmaps the panel.
PsButton2D == g2.haveControl /\ g2' = Press(g2, FALSE)

HideControl2D == g2.haveControl /\ g2' = [Press(g2, FALSE) EXCEPT !.haveControl = FALSE]

\* reset2D: the options are put back of what is shown and selected after the
\* backup is restored.
Reset2D(g) ==
    LET restored == [g EXCEPT !.state = [i \in Slots |->
                       IF i \in Chosen(g) THEN g.backup[i] ELSE g.state[i]]]
        back == {i \in Chosen(g) : g.backup[i].showing}
    IN Drawn([restored EXCEPT
         !.on = DefaultOn, !.reset = @ \union back,
         !.told = [i \in Slots |-> IF i \in Chosen(g) THEN "nothing" ELSE g.told[i]],
         !.state = [i \in Slots |-> IF i \in Chosen(restored)
                      THEN [restored.state[i] EXCEPT !.on = DefaultOn]
                      ELSE restored.state[i]]])

ResetButton2D == g2.haveControl /\ g2' = Reset2D(Press(g2, FALSE))

\* goodbye sends all keys to viewman and exits.
Goodbye2D(g) == [g EXCEPT !.end = "exit"]

\* closeAll2D asks for a second click.
CloseButton2D ==
    /\ g2.haveControl
    /\ LET w == [g2 EXCEPT !.follow = FALSE,
                           !.presses = IF @ = 2 THEN 2 ELSE @ + 1]
       IN g2' = IF g2.closing THEN Goodbye2D(w) ELSE [w EXCEPT !.closing = TRUE]

\* clear2D: every slot is selected and then clicked on, in order, so that a
\* request is spent on the first.
ClearButton2D ==
    /\ g2.haveControl
    /\ LET w == Press(g2, FALSE)
           all == [w EXCEPT !.state = [i \in Slots |-> [w.state[i] EXCEPT
                                                          !.selected = TRUE]]]
       IN \E first \in ClickedOnGraphSelect(all, 1, FALSE) :
            g2' = [first EXCEPT !.state = [i \in Slots |->
                     IF i = 1 THEN first.state[i]
                     ELSE [first.state[i] EXCEPT !.selected = FALSE]]]

\* A centre below the smallest is put at the largest.
ClampCenter(c) == IF c > MaxDelta \/ c < -MaxDelta THEN MaxDelta ELSE c
ClampScale(s) == IF s > MaxScale THEN MaxScale ELSE IF s < 1 THEN 1 ELSE s

\* The potentiometers move or scale what is shown and selected.
TranslatePot(d) ==
    /\ g2.haveControl
    /\ LET w == Press(g2, TRUE)
       IN g2' = Drawn([w EXCEPT !.reset = IF g2.transON THEN @ \ Chosen(w) ELSE @,
            !.state = [i \in Slots |->
              IF i \in Chosen(w) /\ g2.transON
              THEN [w.state[i] EXCEPT !.center = ClampCenter(@ - d)]
              ELSE w.state[i]]])

ScalePot(d) ==
    /\ g2.haveControl
    /\ LET w == Press(g2, TRUE)
       IN g2' = Drawn([w EXCEPT !.reset = IF g2.zoomON THEN @ \ Chosen(w) ELSE @,
            !.state = [i \in Slots |->
              IF i \in Chosen(w) /\ g2.zoomON
              THEN [w.state[i] EXCEPT !.scale = ClampScale(@ + d)]
              ELSE w.state[i]]])

ButtonRelease2D == g2.follow /\ g2' = Drawn([g2 EXCEPT !.follow = FALSE])

Expose2D == g2' = Drawn(g2)

\* Button 3 reports where the mouse is, the others bring the panel up.
PressView2D == g2' = g2 \/ g2' = [g2 EXCEPT !.haveControl = TRUE]

ClientMessage2D == g2' = Goodbye2D([g2 EXCEPT !.presses = 2])

(***************************************************************************)
(* spadAction: the commands.  Only a change of title stops the drawing     *)
(* that follows each command.                                              *)
(***************************************************************************)
\* Mutant: a command draws nothing.
CommandOn_Undrawn(g, i, state) ==
    Changed([g EXCEPT !.state[i] = state, !.reset = @ \ {i}], i)

\* What a command does to a slot is drawn if the slot is shown.
CommandOn(g, i, state) ==
    Changed([g EXCEPT !.state[i] = state,
                      !.spadDraw = @ \/ g.state[i].showing,
                      !.reset = @ \ {i}], i)

OptionCommand(g, i, option, isOn) ==
    CommandOn(g, i, Follows(g.state[i], option, isOn))

ScaleCommand(g, i, s) == CommandOn(g, i, [g.state[i] EXCEPT !.scale = ClampScale(s)])

TranslateCommand(g, i, c) ==
    CommandOn(g, i, [g.state[i] EXCEPT !.center = ClampCenter(c)])

\* A simulated click may meet a request.
Crossed(g) == [g EXCEPT !.crossed = @ \/ g.asked, !.drawn = FALSE]

\* showing2D simulates a click on the slot turned round.
ShowingCommand(g, i, show) ==
    {IF g.doit = "none" THEN Told(w, i, show) ELSE w :
       w \in ClickedOnGraph(Crossed(Untold([g EXCEPT !.state[i].showing = ~show], i)),
                            i, TRUE)}

\* putGraph: as a drop, but a request that is pending takes the first click.
PutGraph(g, i, k, sent) ==
    LET w == GetGraph(g, i, k, sent)
        u == Untold([w EXCEPT !.state[i].selected = FALSE,
                              !.state[i].on = @ \union ({"lines"} \intersect Options2D),
                              !.state[i].showing = ~@], i)
        second(v) == IF v.end # "no" THEN {v} ELSE ClickedOnGraphSelect(v, i, TRUE)
    IN {IF g.doit = "none" THEN Told(x, i, sent.showing) ELSE x :
          x \in UNION {second(v) : v \in ClickedOnGraph(Crossed(u), i, TRUE)}}

\* hideControl2D, and the commands that leave the state alone: changeTitle,
\* writeView, ps2D, moveViewport and resizeViewport.
PlainCommands(g) ==
    {[g EXCEPT !.haveControl = TRUE], [g EXCEPT !.haveControl = FALSE],
     [g EXCEPT !.spadDraw = FALSE], g,
     [g EXCEPT !.spadDraw = TRUE, !.drawn = FALSE]}

Commands2D(g) ==
    PlainCommands(g) \union {Reset2D(g)}
    \union {OptionCommand(g, i, o, isOn) : i \in Slots, o \in Options2D, isOn \in BOOLEAN}
    \union {ScaleCommand(g, i, s) : i \in Slots, s \in 0 .. MaxScale}
    \union {TranslateCommand(g, i, c) : i \in Slots, c \in {-MaxDelta, 0, MaxDelta + 1}}
    \union (UNION {ShowingCommand(g, i, show) : i \in Slots, show \in BOOLEAN})
    \union (UNION {PutGraph(g, i, k, sent) : i \in Slots, k \in Keys, sent \in Sent})

SpadAction2D ==
    /\ ~g2.alone
    /\ \E w \in Commands2D(g2) :
         g2' = IF w.spadDraw /\ w.end = "no" THEN Drawn(w) ELSE w

CloseCommand2D == ~g2.alone /\ g2' = Goodbye2D([g2 EXCEPT !.presses = 2])

Event2D ==
    \/ \E r \in Requests \ {"none"} : RequestButton(r)
    \/ \E i \in Slots : GraphButton(i) \/ GraphSelectButton(i)
    \/ \E option \in Options2D : OptionButton(option)
    \/ \E d \in {-1, 1} : TranslatePot(d) \/ ScalePot(d)
    \/ AxisButton \/ PsButton2D \/ HideControl2D \/ ResetButton2D
    \/ CloseButton2D \/ ClearButton2D
    \/ ButtonRelease2D \/ Expose2D \/ PressView2D \/ ClientMessage2D
    \/ SpadAction2D \/ CloseCommand2D

Next2D ==
    /\ g2.end = "no"
    /\ events2 < MaxEvents2D
    /\ events2' = events2 + 1
    /\ Event2D

Spec2D == Init2D /\ [][Next2D]_vars2
-----------------------------------------------------------------------------
\* The interpreter's commands decide what is shown: after showing2D, putGraph
\* or a drop a slot shows or hides its graph as it was told, until someone
\* clicks on it; the code misses this while a request of the user is pending.
ShowingAsTold ==
    \A i \in Slots : g2.told[i] # "nothing" =>
                       g2.state[i].showing = (g2.told[i] = "show")

\* What the window writes while viewman waits for an acknowledgement is the
\* acknowledgement, unless a Pick or Drop was pending when the command came:
\* the simulated click then sends the request in its place.
AcknowledgedInStep == g2.end = "out of step" => g2.crossed

\* The window ends by its own panel only when Close was pressed twice and no
\* other button in between.
ClosedOnPurpose == g2.end = "exit" => g2.presses = 2

\* Clicks of the user and commands of the interpreter, which are simulated
\* clicks, do not undo each other nor upset the exchange with viewman.
View2DAnswers == ShowingAsTold /\ AcknowledgedInStep /\ ClosedOnPurpose

\* What the window shows is the state of its graphs, also after a command of
\* the interpreter, unless a request took the place of the simulated click.
PictureIsCurrent == g2.drawn \/ g2.crossed

\* After a Reset a graph is where it was when it came, until it is moved,
\* unless it came into a slot whose last graph had been moved.
ResetIsInitial ==
    \A i \in g2.reset \ g2.kept :
      g2.state[i].center = 0 /\ g2.state[i].scale = g2.backup[i].scale

\* The window shows its graphs where they are and where Reset puts them.
PictureAgrees == View2DTypeOK /\ PictureIsCurrent /\ ResetIsInitial
=============================================================================
