--------------------------- MODULE ViewportProofs ----------------------------
(***************************************************************************)
(* Theorems about View2D and View3D, the window processes, for any number  *)
(* of events of any kind: in 2D the clicks of the user and the commands of *)
(* the interpreter do not undo each other, and the picture is that of the  *)
(* graphs; in 3D what the flags, the lists and the pixmap of a viewport    *)
(* promise each other, wherever X events stop its drawings.                *)
(*                                                                         *)
(* Everything is stated of a viewport, g in 2D and v in 3D, as commands,   *)
(* handlers and drawings are composed of operators that take one viewport  *)
(* to another.  A 3D drawing starts with a viewport that is Drawable and   *)
(* leaves one that is Settled; an event starts with one that is Ready,     *)
(* that is, Settled and not ended.                                         *)
(***************************************************************************)
EXTENDS View2D, View3D, TLAPS

(***************************************************************************)
(* View2D.                                                                 *)
(***************************************************************************)
\* Slot i shows what it was told.
AsTold(g, i) ==
    /\ g.told[i] = "show" => g.state[i].showing
    /\ g.told[i] = "hide" => ~g.state[i].showing

\* A slot that was reset is where its graph came.
AtHome(g, i) ==
    i \in g.reset \ g.kept =>
      g.state[i].center = 0 /\ g.state[i].scale = g.backup[i].scale

\* A request that is pending was asked for by the user; a Close that is
\* pending was pressed; a graph whose state is not that of another came
\* centred.
AskedFor(g) ==
    /\ g.doit # "none" => g.asked
    /\ g.closing => g.presses # 0
    /\ \A i \in Slots \ g.kept : g.backup[i].center = 0

\* Two viewports that differ in their graphs only.
SameProgress(w, g) ==
    /\ w.doit = g.doit /\ w.asked = g.asked /\ w.crossed = g.crossed
    /\ w.end = g.end /\ w.presses = g.presses /\ w.closing = g.closing
    /\ w.drawn = g.drawn /\ w.spadDraw = g.spadDraw

\* What every operator keeps.
Sound(g) ==
    /\ g \in Viewport2D
    /\ \A i \in Slots : AsTold(g, i) /\ AtHome(g, i)
    /\ AskedFor(g)
    /\ g.end = "out of step" => g.crossed
    /\ g.end = "exit" => g.presses = 2

-----------------------------------------------------------------------------
\* The states of a graph.

\* What the assumption on the constants gives.
LEMMA Constants2D ==
    /\ 1 \in Slots /\ MaxDelta \in Nat /\ MaxScale \in Nat \ {0}
    /\ NoGraph \notin Keys
    /\ DefaultOn \subseteq Options2D
BY View2DAssumption DEF Slots, NoGraph, DefaultOn

\* A slot without a graph has a state.
LEMMA InitialStateType == InitialState \in State2D
BY Constants2D DEF InitialState, State2D

\* What Lisp sends with a graph is a state, in the centre.
LEMMA SentTypes ==
    \A sent \in Sent : sent \in State2D /\ sent.center = 0
<1> SUFFICES ASSUME NEW sent \in Sent PROVE sent \in State2D /\ sent.center = 0
    OBVIOUS
<1>1. /\ sent.showing \in BOOLEAN /\ sent.selected = FALSE /\ sent.on = DefaultOn
      /\ sent.center = 0 /\ sent.scale \in 1 .. MaxScale
    BY DEF Sent
<1>2. sent = [showing |-> sent.showing, selected |-> sent.selected, on |-> sent.on,
              center |-> sent.center, scale |-> sent.scale]
    BY DEF Sent
<1>3. 0 \in -MaxDelta .. MaxDelta
    BY Constants2D
<1> QED BY <1>1, <1>2, <1>3, Constants2D DEF State2D

\* What is clamped is within its bounds.
LEMMA ClampTypes ==
    /\ \A c \in Int : ClampCenter(c) \in -MaxDelta .. MaxDelta
    /\ \A s \in Int : ClampScale(s) \in 1 .. MaxScale
BY Constants2D DEF ClampCenter, ClampScale

\* A state that follows the other graphs is a state that shows the same.
LEMMA FollowsType ==
    ASSUME NEW st \in State2D, NEW o \in Options2D, NEW isOn \in BOOLEAN
    PROVE  /\ Follows(st, o, isOn) \in State2D
           /\ Follows(st, o, isOn).showing = st.showing
BY DEF Follows, State2D

-----------------------------------------------------------------------------
\* What is said of a slot depends on nothing but the slot.
SameSlot(w, g, j) ==
    /\ w.state[j] = g.state[j] /\ w.backup[j] = g.backup[j]
    /\ w.told[j] = g.told[j] \/ w.told[j] = "nothing"
    /\ j \in w.reset => j \in g.reset
    /\ j \in g.kept => j \in w.kept

\* A slot left alone is as it was told and where it was reset to.
LEMMA SlotKept ==
    ASSUME NEW g, NEW w, NEW j, SameSlot(w, g, j), AsTold(g, j), AtHome(g, j)
    PROVE  AsTold(w, j) /\ AtHome(w, j)
<1>1. AsTold(w, j)
    BY Zenon DEF SameSlot, AsTold
<1>2. AtHome(w, j)
    BY DEF SameSlot, AtHome
<1> QED BY <1>1, <1>2

\* A graph comes into slot i.
LEMMA GetGraphSound ==
    ASSUME NEW g \in Viewport2D, NEW i \in Slots, NEW k \in Keys, NEW sent \in Sent,
           \A j \in Slots \ {i} : AsTold(g, j) /\ AtHome(g, j), AskedFor(g)
    PROVE  LET w == GetGraph(g, i, k, sent)
           IN  /\ w \in Viewport2D /\ AskedFor(w)
               /\ \A j \in Slots \ {i} : AsTold(w, j) /\ AtHome(w, j)
               /\ i \notin w.reset
               /\ w.state[i].showing = sent.showing
               /\ SameProgress(w, g)
<1> DEFINE got == [sent EXCEPT !.selected = TRUE, !.center = g.state[i].center]
           scaled == [got EXCEPT !.scale = IF i = 1 THEN got.scale ELSE g.state[1].scale]
           w == GetGraph(g, i, k, sent)
<1>1. g.state[i] \in State2D /\ g.state[1] \in State2D /\ sent \in State2D
    BY SentTypes, Constants2D DEF Viewport2D
<1>2. got \in State2D /\ got.center = g.state[i].center /\ got.showing = sent.showing
    BY <1>1 DEF State2D
<1>3. scaled \in State2D /\ scaled.showing = sent.showing
    BY <1>1, <1>2 DEF State2D
<1>4. w = [g EXCEPT !.key[i] = k, !.backup[i] = got, !.state[i] = scaled,
                    !.kept = IF got.center = 0 THEN @ \ {i} ELSE @ \union {i},
                    !.reset = @ \ {i}]
    BY DEF GetGraph
<1> HIDE DEF got, scaled, w
<1>5. w \in Viewport2D
    BY <1>2, <1>3, <1>4 DEF Viewport2D
<1>6. /\ w.doit = g.doit /\ w.asked = g.asked /\ w.crossed = g.crossed
      /\ w.end = g.end /\ w.presses = g.presses /\ w.closing = g.closing
      /\ w.drawn = g.drawn /\ w.spadDraw = g.spadDraw /\ w.told = g.told
    BY <1>4 DEF Viewport2D
<1>7. /\ w.state = [g.state EXCEPT ![i] = scaled]
      /\ w.backup = [g.backup EXCEPT ![i] = got]
      /\ w.reset = g.reset \ {i}
      /\ w.kept = IF got.center = 0 THEN g.kept \ {i} ELSE g.kept \union {i}
    BY <1>4 DEF Viewport2D
<1>8. i \notin w.reset /\ w.state[i].showing = sent.showing
    BY <1>3, <1>7 DEF Viewport2D
<1>9. \A j \in Slots \ {i} : AsTold(w, j) /\ AtHome(w, j)
    <2> SUFFICES ASSUME NEW j \in Slots \ {i} PROVE SameSlot(w, g, j)
        BY SlotKept
    <2> QED BY <1>6, <1>7 DEF Viewport2D, SameSlot
<1>10. AskedFor(w)
    <2>1. \A j \in Slots \ w.kept : w.backup[j].center = 0
        <3> SUFFICES ASSUME NEW j \in Slots, j \notin w.kept
                     PROVE  w.backup[j].center = 0
            OBVIOUS
        <3>1. CASE j = i
            <4>1. w.backup[j] = got
                BY <1>7, <3>1 DEF Viewport2D
            <4>2. got.center = 0
                BY <1>7, <3>1
            <4> QED BY <4>1, <4>2
        <3>2. CASE j # i
            <4>1. w.backup[j] = g.backup[j] /\ j \notin g.kept
                BY <1>7, <3>2 DEF Viewport2D
            <4> QED BY <4>1 DEF AskedFor
        <3> QED BY <3>1, <3>2
    <2> QED BY <1>6, <2>1, Zenon DEF AskedFor
<1> QED
    BY <1>5, <1>6, <1>8, <1>9, <1>10 DEF SameProgress, w

\* A change that leaves the graphs alone.
LEMMA GraphsAlone ==
    ASSUME NEW g, NEW w \in Viewport2D, Sound(g),
           w.state = g.state, w.backup = g.backup, w.kept = g.kept, w.reset = g.reset,
           \A j \in Slots : w.told[j] \in {g.told[j], "nothing"},
           w.doit # "none" => w.asked, w.closing => w.presses # 0,
           w.end = "out of step" => w.crossed, w.end = "exit" => w.presses = 2
    PROVE  Sound(w)
<1>1. \A j \in Slots : AsTold(w, j) /\ AtHome(w, j)
    <2> SUFFICES ASSUME NEW j \in Slots PROVE SameSlot(w, g, j)
        BY SlotKept DEF Sound
    <2> QED BY DEF SameSlot
<1>2. AskedFor(w)
    BY DEF Sound, AskedFor
<1> QED BY <1>1, <1>2 DEF Sound

\* A change of slots that sets what is said of each again, or keeps it.
LEMMA SlotsChanged ==
    ASSUME NEW g, NEW w \in Viewport2D, AskedFor(g),
           \A j \in Slots :
             (SameSlot(w, g, j) /\ AsTold(g, j) /\ AtHome(g, j)) \/ (AsTold(w, j) /\ AtHome(w, j)),
           w.backup = g.backup, w.kept = g.kept,
           w.doit # "none" => w.asked, w.closing => w.presses # 0,
           w.end = "out of step" => w.crossed, w.end = "exit" => w.presses = 2
    PROVE  Sound(w)
<1>1. \A j \in Slots : AsTold(w, j) /\ AtHome(w, j)
    BY SlotKept
<1>2. AskedFor(w)
    BY DEF AskedFor
<1> QED BY <1>1, <1>2 DEF Sound

-----------------------------------------------------------------------------
\* Clicks on a slot.

\* The window shows its graphs, or excuses itself.
Seen(g) == g.drawn \/ g.crossed

\* A viewport of which nothing is known in slot i.
SoundBut(g, i) ==
    /\ g \in Viewport2D
    /\ \A j \in Slots \ {i} : AsTold(g, j) /\ AtHome(g, j)
    /\ AskedFor(g)
    /\ g.end = "out of step" => g.crossed
    /\ g.end = "exit" => g.presses = 2

\* Showing or hiding a graph by a click.
LEMMA FlipSound ==
    ASSUME NEW g, NEW i \in Slots, SoundBut(g, i)
    PROVE  LET w == Flip(g, i)
           IN  /\ Sound(w) /\ w.drawn /\ w.state[i].showing = ~g.state[i].showing
               /\ w.doit = g.doit /\ w.end = g.end /\ w.crossed = g.crossed
               /\ w.spadDraw = g.spadDraw
<1> DEFINE new == [g.state[i] EXCEPT !.showing = ~@]
           w == Flip(g, i)
<1>1. g \in Viewport2D /\ g.state[i] \in State2D
    BY DEF SoundBut, Viewport2D
<1>2. new \in State2D /\ new.showing = ~g.state[i].showing
    BY <1>1 DEF State2D
<1>3. w = [g EXCEPT !.state[i].showing = ~@, !.reset = @ \ {i}, !.told[i] = "nothing",
                    !.drawn = TRUE]
    BY <1>1 DEF Flip, Drawn, Untold, Viewport2D
<1>4. w = [g EXCEPT !.state = [g.state EXCEPT ![i] = new], !.reset = @ \ {i},
                    !.told = [g.told EXCEPT ![i] = "nothing"], !.drawn = TRUE]
    BY <1>1, <1>3 DEF Viewport2D
<1> HIDE DEF new, w
<1>5. w \in Viewport2D
    BY <1>1, <1>2, <1>4 DEF Viewport2D
<1>6. /\ w.state = [g.state EXCEPT ![i] = new] /\ w.told = [g.told EXCEPT ![i] = "nothing"]
      /\ w.reset = g.reset \ {i} /\ w.drawn
      /\ w.backup = g.backup /\ w.kept = g.kept /\ w.doit = g.doit /\ w.asked = g.asked
      /\ w.closing = g.closing /\ w.presses = g.presses /\ w.end = g.end
      /\ w.crossed = g.crossed /\ w.spadDraw = g.spadDraw
    BY <1>1, <1>4 DEF Viewport2D
<1>7. ASSUME NEW j \in Slots
      PROVE  (SameSlot(w, g, j) /\ AsTold(g, j) /\ AtHome(g, j)) \/ (AsTold(w, j) /\ AtHome(w, j))
    <2>1. g.told \in [Slots -> {"nothing", "show", "hide"}] /\ g.state \in [Slots -> State2D]
        BY <1>1 DEF Viewport2D
    <2>2. CASE j = i
        <3>1. w.told[j] = "nothing"
            BY <1>6, <2>1, <2>2
        <3>2. j \notin w.reset
            BY <1>6, <2>2
        <3> QED BY <3>1, <3>2 DEF AsTold, AtHome
    <2>3. CASE j # i
        <3>1. w.told[j] = g.told[j]
            BY <1>6, <2>1, <2>3
        <3>2. w.state[j] = g.state[j]
            BY <1>6, <2>1, <2>3
        <3>3. j \in w.reset => j \in g.reset
            BY <1>6
        <3>4. SameSlot(w, g, j)
            BY <1>6, <3>1, <3>2, <3>3 DEF SameSlot
        <3>5. AsTold(g, j) /\ AtHome(g, j)
            BY <2>3 DEF SoundBut
        <3> QED BY <3>4, <3>5
    <2> QED BY <2>2, <2>3
<1>8. Sound(w)
    BY <1>5, <1>6, <1>7, SlotsChanged DEF SoundBut, AskedFor
<1>9. w.state[i].showing = ~g.state[i].showing
    BY <1>1, <1>2, <1>6 DEF Viewport2D
<1> QED BY <1>6, <1>8, <1>9 DEF w

\* Selecting a graph by a click.
LEMMA FlipSelectSound ==
    ASSUME NEW g, Sound(g), NEW i \in Slots
    PROVE  LET w == FlipSelect(g, i)
           IN  /\ Sound(w) /\ w.drawn = g.drawn
               /\ \A j \in Slots : w.state[j].showing = g.state[j].showing
               /\ w.doit = g.doit /\ w.end = g.end /\ w.crossed = g.crossed
               /\ w.spadDraw = g.spadDraw /\ w.told = g.told
<1> DEFINE new == [g.state[i] EXCEPT !.selected = ~@]
           w == FlipSelect(g, i)
<1>1. g \in Viewport2D /\ g.state[i] \in State2D
    BY DEF Sound, Viewport2D
<1>2. /\ new \in State2D /\ new.showing = g.state[i].showing
      /\ new.center = g.state[i].center /\ new.scale = g.state[i].scale
    BY <1>1 DEF State2D
<1>3. w = [g EXCEPT !.state = [g.state EXCEPT ![i] = new]]
    BY <1>1 DEF FlipSelect, Viewport2D
<1> HIDE DEF new, w
<1>4. w \in Viewport2D
    BY <1>1, <1>2, <1>3 DEF Viewport2D
<1>5. /\ w.state = [g.state EXCEPT ![i] = new] /\ w.told = g.told
      /\ w.reset = g.reset /\ w.drawn = g.drawn
      /\ w.backup = g.backup /\ w.kept = g.kept /\ w.doit = g.doit /\ w.asked = g.asked
      /\ w.closing = g.closing /\ w.presses = g.presses /\ w.end = g.end
      /\ w.crossed = g.crossed /\ w.spadDraw = g.spadDraw
    BY <1>1, <1>3 DEF Viewport2D
<1>6. \A j \in Slots : /\ w.state[j].showing = g.state[j].showing
                       /\ w.state[j].center = g.state[j].center
                       /\ w.state[j].scale = g.state[j].scale
    BY <1>1, <1>2, <1>5 DEF Viewport2D
<1>7. \A j \in Slots : AsTold(w, j) /\ AtHome(w, j)
    <2> SUFFICES ASSUME NEW j \in Slots PROVE AsTold(w, j) /\ AtHome(w, j)
        OBVIOUS
    <2>1. AsTold(g, j) /\ AtHome(g, j)
        BY DEF Sound
    <2>2. AsTold(w, j)
        BY <1>5, <1>6, <2>1 DEF AsTold
    <2>3. AtHome(w, j)
        BY <1>5, <1>6, <2>1 DEF AtHome
    <2> QED BY <2>2, <2>3
<1>8. Sound(w)
    BY <1>4, <1>5, <1>7, SlotsChanged DEF Sound, AskedFor
<1> QED BY <1>5, <1>6, <1>8 DEF w

\* The graph that is picked up.
LEMMA DoPickSound ==
    ASSUME NEW g, Sound(g), NEW i \in Slots, NEW busy \in BOOLEAN,
           busy => g.crossed, NEW w \in DoPick(g, i, busy)
    PROVE  /\ Sound(w) /\ w.drawn = g.drawn /\ w.crossed = g.crossed /\ w.doit = "none"
           /\ ~busy => w.end = g.end
<1> DEFINE u == [g EXCEPT !.doit = "none", !.asked = FALSE]
           v == [u EXCEPT !.end = "out of step"]
<1>1. w \in {u, v} /\ (~busy => w = u)
    BY DEF DoPick, OutOfStep
<1>2. g \in Viewport2D
    BY DEF Sound
<1>3. w \in Viewport2D
    <2>1. u \in Viewport2D
        BY <1>2 DEF Viewport2D, Requests
    <2>2. v \in Viewport2D
        BY <2>1 DEF Viewport2D
    <2> QED BY <1>1, <2>1, <2>2
<1>4. /\ w.state = g.state /\ w.backup = g.backup /\ w.kept = g.kept /\ w.reset = g.reset
      /\ w.told = g.told /\ w.doit = "none" /\ w.closing = g.closing /\ w.presses = g.presses
      /\ w.crossed = g.crossed /\ w.drawn = g.drawn /\ w.end \in {g.end, "out of step"}
      /\ ~busy => w.end = g.end
    BY <1>1, <1>2 DEF Viewport2D
<1>5. w.end = "out of step" => w.crossed
    <2>1. CASE busy
        BY <1>4, <2>1
    <2>2. CASE ~busy
        BY <1>4, <2>2 DEF Sound
    <2> QED BY <2>1, <2>2
<1>6. /\ w.closing => w.presses # 0
      /\ w.end = "exit" => w.presses = 2
    BY <1>4 DEF Sound, AskedFor
<1>7. Sound(w)
    BY <1>3, <1>4, <1>5, <1>6, GraphsAlone
<1> QED BY <1>4, <1>7

\* Asking for a graph ends the request that was open.
LEMMA QuerySound ==
    ASSUME NEW g, Sound(g), NEW i \in Slots, NEW w \in Query(g, i)
    PROVE  Sound(w) /\ w.drawn = g.drawn /\ w.crossed = g.crossed /\ w.doit = "none" /\ w.end = g.end
<1>1. w = [g EXCEPT !.doit = "none", !.asked = FALSE, !.queried = i]
    BY DEF Query
<1>2. g \in Viewport2D
    BY DEF Sound
<1>3. w \in Viewport2D
    BY <1>1, <1>2 DEF Viewport2D, Requests
<1>4. /\ w.state = g.state /\ w.backup = g.backup /\ w.kept = g.kept /\ w.reset = g.reset
      /\ w.told = g.told /\ w.doit = "none" /\ w.closing = g.closing /\ w.presses = g.presses
      /\ w.crossed = g.crossed /\ w.drawn = g.drawn /\ w.end = g.end
    BY <1>1, <1>2 DEF Viewport2D
<1>5. Sound(w)
    BY <1>3, <1>4, GraphsAlone DEF Sound, AskedFor
<1> QED BY <1>4, <1>5

\* A graph that shows what it was told to.
LEMMA ToldSound ==
    ASSUME NEW g, Sound(g), NEW i \in Slots, NEW show \in BOOLEAN, g.state[i].showing = show
    PROVE  LET w == Told(g, i, show)
           IN  /\ Sound(w) /\ w.drawn = g.drawn /\ w.doit = g.doit /\ w.end = g.end
               /\ w.crossed = g.crossed /\ w.spadDraw = g.spadDraw
<1> DEFINE new == IF show THEN "show" ELSE "hide"
           w == Told(g, i, show)
<1>1. g \in Viewport2D
    BY DEF Sound
<1>2. w = [g EXCEPT !.told = [g.told EXCEPT ![i] = new]]
    BY <1>1 DEF Told, Viewport2D
<1>3. new \in {"show", "hide"} /\ (new = "show" <=> show)
    OBVIOUS
<1> HIDE DEF new, w
<1>4. w \in Viewport2D
    BY <1>1, <1>2, <1>3 DEF Viewport2D
<1>5. /\ w.state = g.state /\ w.told = [g.told EXCEPT ![i] = new]
      /\ w.reset = g.reset /\ w.drawn = g.drawn
      /\ w.backup = g.backup /\ w.kept = g.kept /\ w.doit = g.doit /\ w.asked = g.asked
      /\ w.closing = g.closing /\ w.presses = g.presses /\ w.end = g.end
      /\ w.crossed = g.crossed /\ w.spadDraw = g.spadDraw
    BY <1>1, <1>2 DEF Viewport2D
<1>6. \A j \in Slots : AsTold(w, j) /\ AtHome(w, j)
    <2> SUFFICES ASSUME NEW j \in Slots PROVE AsTold(w, j) /\ AtHome(w, j)
        OBVIOUS
    <2>1. AsTold(g, j) /\ AtHome(g, j)
        BY DEF Sound
    <2>2. AtHome(w, j)
        BY <1>5, <2>1 DEF AtHome
    <2>3. CASE j = i
        <3>1. w.told[j] = new /\ w.state[j].showing = show
            BY <1>1, <1>5, <2>3 DEF Viewport2D
        <3> QED BY <1>3, <2>2, <3>1 DEF AsTold
    <2>4. CASE j # i
        <3>1. w.told[j] = g.told[j] /\ w.state[j] = g.state[j]
            BY <1>1, <1>5, <2>4 DEF Viewport2D
        <3> QED BY <2>1, <2>2, <3>1 DEF AsTold
    <2> QED BY <2>3, <2>4
<1>7. Sound(w)
    BY <1>4, <1>5, <1>6, SlotsChanged DEF Sound, AskedFor
<1> QED BY <1>5, <1>7 DEF w

\* A new state of slot i, of which nothing is known yet.
LEMMA SlotSet ==
    ASSUME NEW g, NEW i \in Slots, SoundBut(g, i), NEW new \in State2D
    PROVE  LET w == [g EXCEPT !.state = [g.state EXCEPT ![i] = new]]
           IN  /\ SoundBut(w, i) /\ w.state[i] = new /\ SameProgress(w, g)
               /\ w.reset = g.reset /\ w.told = g.told
<1> DEFINE w == [g EXCEPT !.state = [g.state EXCEPT ![i] = new]]
<1>1. g \in Viewport2D
    BY DEF SoundBut
<1>2. w \in Viewport2D
    BY <1>1 DEF Viewport2D
<1>3. /\ w.state = [g.state EXCEPT ![i] = new] /\ w.told = g.told
      /\ w.reset = g.reset /\ w.drawn = g.drawn
      /\ w.backup = g.backup /\ w.kept = g.kept /\ w.doit = g.doit /\ w.asked = g.asked
      /\ w.closing = g.closing /\ w.presses = g.presses /\ w.end = g.end
      /\ w.crossed = g.crossed /\ w.spadDraw = g.spadDraw
    BY <1>1 DEF Viewport2D
<1> HIDE DEF w
<1>4. w.state[i] = new /\ \A j \in Slots \ {i} : w.state[j] = g.state[j]
    BY <1>1, <1>3 DEF Viewport2D
<1>5. \A j \in Slots \ {i} : AsTold(w, j) /\ AtHome(w, j)
    BY <1>3, <1>4, SlotKept DEF SameSlot, SoundBut
<1>6. SoundBut(w, i)
    BY <1>2, <1>3, <1>5 DEF SoundBut, AskedFor
<1> QED BY <1>3, <1>4, <1>6 DEF SameProgress, w

\* Slot i forgets what it was told, and has not been reset.
LEMMA UntoldSound ==
    ASSUME NEW g, NEW i \in Slots, SoundBut(g, i), AtHome(g, i)
    PROVE  LET w == Untold(g, i)
           IN  Sound(w) /\ w.state = g.state /\ SameProgress(w, g)
<1> DEFINE w == Untold(g, i)
<1>1. g \in Viewport2D
    BY DEF SoundBut
<1>2. w = [g EXCEPT !.told = [g.told EXCEPT ![i] = "nothing"]]
    BY <1>1 DEF Untold, Viewport2D
<1> HIDE DEF w
<1>3. w \in Viewport2D
    BY <1>1, <1>2 DEF Viewport2D
<1>4. /\ w.state = g.state /\ w.told = [g.told EXCEPT ![i] = "nothing"]
      /\ w.reset = g.reset /\ w.drawn = g.drawn
      /\ w.backup = g.backup /\ w.kept = g.kept /\ w.doit = g.doit /\ w.asked = g.asked
      /\ w.closing = g.closing /\ w.presses = g.presses /\ w.end = g.end
      /\ w.crossed = g.crossed /\ w.spadDraw = g.spadDraw
    BY <1>1, <1>2 DEF Viewport2D
<1>5. w.told[i] = "nothing" /\ \A j \in Slots \ {i} : w.told[j] = g.told[j]
    BY <1>1, <1>4 DEF Viewport2D
<1>6. \A j \in Slots : AsTold(w, j) /\ AtHome(w, j)
    <2> SUFFICES ASSUME NEW j \in Slots PROVE AsTold(w, j) /\ AtHome(w, j)
        OBVIOUS
    <2>1. AtHome(w, j)
        BY <1>4, ZenonT(60) DEF AtHome, SoundBut
    <2>2. CASE j = i
        BY <1>5, <2>1, <2>2 DEF AsTold
    <2>3. CASE j # i
        BY <1>4, <1>5, <2>3, SlotKept DEF SoundBut, SameSlot
    <2> QED BY <2>2, <2>3
<1>7. Sound(w)
    <2>1. /\ AskedFor(g)
          /\ g.end = "out of step" => g.crossed
          /\ g.end = "exit" => g.presses = 2
        BY DEF SoundBut
    <2>2. /\ g.doit # "none" => g.asked
          /\ g.closing => g.presses # 0
        BY <2>1 DEF AskedFor
    <2> QED BY <1>3, <1>4, <1>6, <2>1, <2>2, SlotsChanged
<1> QED BY <1>4, <1>7 DEF SameProgress, w

\* A sound viewport is sound in all slots but one.
LEMMA SoundIsSoundBut ==
    ASSUME NEW g, Sound(g), NEW i
    PROVE  SoundBut(g, i)
BY DEF Sound, SoundBut

\* The graph that arrives is shown as it was sent.
LEMMA ArriveSound ==
    ASSUME NEW g, Sound(g), NEW i \in Slots, NEW k \in Keys, NEW sent \in Sent
    PROVE  LET z == Arrive(g, i, k, sent)
           IN  Sound(z) /\ z.drawn /\ z.crossed = g.crossed /\ z.doit = g.doit /\ z.end = g.end
<1> DEFINE w == GetGraph(g, i, k, sent)
           new == [w.state[i] EXCEPT !.selected = FALSE, !.showing = ~@]
           u == [w EXCEPT !.state = [w.state EXCEPT ![i] = new]]
           x == Flip(u, i)
           y == FlipSelect(x, i)
           z == Told(y, i, sent.showing)
<1>1. /\ w \in Viewport2D /\ SoundBut(w, i) /\ i \notin w.reset
      /\ w.state[i].showing = sent.showing /\ SameProgress(w, g)
    <2>1. g \in Viewport2D /\ AskedFor(g) /\ \A j \in Slots \ {i} : AsTold(g, j) /\ AtHome(g, j)
        BY DEF Sound
    <2>2. /\ w \in Viewport2D /\ AskedFor(w)
          /\ \A j \in Slots \ {i} : AsTold(w, j) /\ AtHome(w, j)
          /\ i \notin w.reset
          /\ w.state[i].showing = sent.showing
          /\ SameProgress(w, g)
        BY <2>1, GetGraphSound
    <2> HIDE DEF w
    <2> QED BY <2>2 DEF Sound, SoundBut, SameProgress
<1>2. sent.showing \in BOOLEAN
    BY SentTypes DEF State2D
<1>3. Arrive(g, i, k, sent) = z
    <2> HIDE DEF w
    <2>1. [w EXCEPT !.state[i].selected = FALSE, !.state[i].showing = ~@] = u
        BY <1>1 DEF Viewport2D, State2D
    <2> QED BY <2>1 DEF Arrive, w
<1> HIDE DEF w
<1>4. w.state[i] \in State2D
    BY <1>1 DEF Viewport2D
<1>5. new \in State2D /\ new.showing = ~sent.showing
    BY <1>1, <1>2, <1>4 DEF State2D
<1> HIDE DEF new
<1>6. SoundBut(u, i) /\ u.state[i] = new /\ SameProgress(u, w)
    BY <1>1, <1>5, SlotSet
<1> HIDE DEF u
<1>7. /\ Sound(x) /\ x.drawn /\ x.state[i].showing = ~u.state[i].showing
      /\ x.doit = u.doit /\ x.end = u.end /\ x.crossed = u.crossed
    BY <1>6, FlipSound
<1> HIDE DEF x
<1>8. /\ Sound(y) /\ y.drawn = x.drawn /\ y.state[i].showing = x.state[i].showing
      /\ y.doit = x.doit /\ y.end = x.end /\ y.crossed = x.crossed
    BY <1>7, FlipSelectSound
<1> HIDE DEF y
<1>9. y.state[i].showing = sent.showing
    BY <1>2, <1>5, <1>6, <1>7, <1>8
<1>10. Sound(z) /\ z.drawn = y.drawn /\ z.doit = y.doit /\ z.end = y.end /\ z.crossed = y.crossed
    BY <1>2, <1>8, <1>9, ToldSound
<1> HIDE DEF z
<1> QED BY <1>1, <1>3, <1>6, <1>7, <1>8, <1>10 DEF SameProgress

\* What a click leaves behind: a sound viewport, which shows its graphs if it
\* did before, and no request.
Clicked(g, busy, w) ==
    /\ Sound(w) /\ w.doit = "none" /\ (g.crossed => w.crossed) /\ (Seen(g) => Seen(w))
    /\ ~busy => w.end = g.end

\* Dropping a graph into a slot.
LEMMA DoDropSound ==
    ASSUME NEW g, Sound(g), NEW i \in Slots, NEW busy \in BOOLEAN,
           busy => g.crossed, NEW w \in DoDrop(g, i, busy)
    PROVE  Clicked(g, busy, w)
<1> DEFINE u == [g EXCEPT !.doit = "none", !.asked = FALSE]
           v == [u EXCEPT !.end = "out of step"]
<1>1. g \in Viewport2D
    BY DEF Sound
<1>2. u \in Viewport2D
    BY <1>1 DEF Viewport2D, Requests
<1>3. /\ u.state = g.state /\ u.backup = g.backup /\ u.kept = g.kept /\ u.reset = g.reset
      /\ u.told = g.told /\ u.doit = "none" /\ u.closing = g.closing /\ u.presses = g.presses
      /\ u.crossed = g.crossed /\ u.drawn = g.drawn /\ u.end = g.end
    BY <1>1 DEF Viewport2D
<1>4. v \in Viewport2D
    BY <1>2 DEF Viewport2D
<1>5. /\ v.state = g.state /\ v.backup = g.backup /\ v.kept = g.kept /\ v.reset = g.reset
      /\ v.told = g.told /\ v.doit = "none" /\ v.closing = g.closing /\ v.presses = g.presses
      /\ v.crossed = g.crossed /\ v.drawn = g.drawn /\ v.end = "out of step"
    BY <1>1 DEF Viewport2D
<1>6. IF busy THEN w = v
      ELSE w = u \/ \E k \in Keys, sent \in Sent : w = Arrive(u, i, k, sent)
    BY DEF DoDrop, OutOfStep
<1> HIDE DEF u, v
<1>7. Sound(u)
    BY <1>2, <1>3, GraphsAlone DEF Sound, AskedFor
<1>8. CASE busy
    <2>1. Sound(v)
        BY <1>4, <1>5, <1>8, GraphsAlone DEF Sound, AskedFor
    <2> QED BY <1>5, <1>6, <1>8, <2>1 DEF Clicked, Seen
<1>9. ASSUME ~busy, NEW k \in Keys, NEW sent \in Sent, w = Arrive(u, i, k, sent)
      PROVE  Clicked(g, busy, w)
    <2>1. Sound(w) /\ w.drawn /\ w.crossed = u.crossed /\ w.doit = u.doit /\ w.end = u.end
        BY <1>7, <1>9, ArriveSound
    <2> QED BY <1>3, <1>9, <2>1 DEF Clicked, Seen
<1>10. CASE ~busy /\ w = u
    BY <1>3, <1>7, <1>10 DEF Clicked, Seen
<1> QED BY <1>6, <1>8, <1>9, <1>10

\* The user's clicks come when nobody waits for the window; a simulated one
\* that meets a request is on record.
LEMMA ClickedOnGraphSound ==
    ASSUME NEW g, Sound(g), NEW i \in Slots, NEW busy \in BOOLEAN,
           busy /\ g.doit # "none" => g.crossed,
           NEW w \in ClickedOnGraph(g, i, busy)
    PROVE  /\ Clicked(g, busy, w)
           /\ g.doit = "none" =>
                /\ w.drawn /\ w.end = g.end
                /\ w.state[i].showing = ~g.state[i].showing /\ w.spadDraw = g.spadDraw
<1> DEFINE v == [g EXCEPT !.queried = i]
<1>1. g \in Viewport2D /\ g.doit \in {"none", "pick", "drop", "query"}
    BY DEF Sound, Viewport2D, Requests
<1>2. v \in Viewport2D
    BY <1>1 DEF Viewport2D
<1>3. /\ v.state = g.state /\ v.backup = g.backup /\ v.kept = g.kept /\ v.reset = g.reset
      /\ v.told = g.told /\ v.doit = g.doit /\ v.asked = g.asked
      /\ v.closing = g.closing /\ v.presses = g.presses
      /\ v.crossed = g.crossed /\ v.drawn = g.drawn /\ v.end = g.end
    BY <1>1 DEF Viewport2D
<1>4. /\ g.doit = "pick" => w \in DoPick(v, i, busy)
      /\ g.doit = "drop" => w \in DoDrop(v, i, busy)
      /\ g.doit = "query" => w \in Query(g, i)
      /\ g.doit = "none" => w = Flip(g, i)
    BY DEF ClickedOnGraph
<1> HIDE DEF v
<1>5. Sound(v)
    BY <1>2, <1>3, GraphsAlone DEF Sound, AskedFor
<1>6. CASE g.doit = "pick"
    <2>1. /\ Sound(w) /\ w.drawn = v.drawn /\ w.crossed = v.crossed /\ w.doit = "none"
          /\ ~busy => w.end = v.end
        BY <1>3, <1>4, <1>5, <1>6, DoPickSound
    <2> QED BY <1>3, <1>6, <2>1 DEF Clicked, Seen
<1>7. CASE g.doit = "drop"
    <2>1. Clicked(v, busy, w)
        BY <1>3, <1>4, <1>5, <1>7, DoDropSound
    <2> QED BY <1>3, <1>7, <2>1 DEF Clicked, Seen
<1>8. CASE g.doit = "query"
    BY <1>4, <1>8, QuerySound DEF Clicked, Seen
<1>9. CASE g.doit = "none"
    <2>1. SoundBut(g, i)
        BY SoundIsSoundBut
    <2>2. /\ Sound(w) /\ w.drawn /\ w.state[i].showing = ~g.state[i].showing
          /\ w.doit = g.doit /\ w.end = g.end /\ w.crossed = g.crossed
          /\ w.spadDraw = g.spadDraw
        BY <1>4, <1>9, <2>1, FlipSound
    <2> QED BY <1>9, <2>2 DEF Clicked, Seen
<1> QED BY <1>1, <1>6, <1>7, <1>8, <1>9

\* A click on a slot, with or without a request open.
LEMMA ClickedOnGraphSelectSound ==
    ASSUME NEW g, Sound(g), NEW i \in Slots, NEW busy \in BOOLEAN,
           busy /\ g.doit # "none" => g.crossed,
           NEW w \in ClickedOnGraphSelect(g, i, busy)
    PROVE  /\ Clicked(g, busy, w)
           /\ g.doit = "none" =>
                /\ w.drawn = g.drawn /\ w.end = g.end
                /\ w.state[i].showing = g.state[i].showing /\ w.spadDraw = g.spadDraw
<1>1. g.doit \in {"none", "pick", "drop", "query"}
    BY DEF Sound, Viewport2D, Requests
<1>2. /\ g.doit = "pick" => w \in DoPick(g, i, busy)
      /\ g.doit = "drop" => w \in DoDrop(g, i, busy)
      /\ g.doit = "query" => w \in Query(g, i)
      /\ g.doit = "none" => w = FlipSelect(g, i)
    BY DEF ClickedOnGraphSelect
<1>3. CASE g.doit = "pick"
    <2>1. /\ Sound(w) /\ w.drawn = g.drawn /\ w.crossed = g.crossed /\ w.doit = "none"
          /\ ~busy => w.end = g.end
        BY <1>2, <1>3, DoPickSound
    <2> QED BY <1>3, <2>1 DEF Clicked, Seen
<1>4. CASE g.doit = "drop"
    BY <1>2, <1>4, DoDropSound
<1>5. CASE g.doit = "query"
    BY <1>2, <1>5, QuerySound DEF Clicked, Seen
<1>6. CASE g.doit = "none"
    <2>1. /\ Sound(w) /\ w.drawn = g.drawn /\ w.state[i].showing = g.state[i].showing
          /\ w.doit = g.doit /\ w.end = g.end /\ w.crossed = g.crossed
          /\ w.spadDraw = g.spadDraw
        BY <1>2, <1>6, FlipSelectSound
    <2> QED BY <1>6, <2>1 DEF Clicked, Seen
<1> QED BY <1>1, <1>3, <1>4, <1>5, <1>6

-----------------------------------------------------------------------------
\* The control panel.

\* What every event keeps.
Good(g) == Sound(g) /\ Seen(g)

\* A change of what graphs look like, not of where they are or whether they
\* are shown.
LEMMA LooksChanged ==
    ASSUME NEW g, NEW w \in Viewport2D, Sound(g),
           \A j \in Slots : /\ w.state[j].showing = g.state[j].showing
                            /\ w.state[j].center = g.state[j].center
                            /\ w.state[j].scale = g.state[j].scale,
           w.backup = g.backup, w.kept = g.kept, w.reset = g.reset, w.told = g.told,
           w.doit # "none" => w.asked, w.closing => w.presses # 0,
           w.end = "out of step" => w.crossed, w.end = "exit" => w.presses = 2
    PROVE  Sound(w)
<1>1. \A j \in Slots : AsTold(w, j) /\ AtHome(w, j)
    <2> SUFFICES ASSUME NEW j \in Slots PROVE AsTold(w, j) /\ AtHome(w, j)
        OBVIOUS
    <2>1. AsTold(g, j) /\ AtHome(g, j)
        BY DEF Sound
    <2>2. AsTold(w, j)
        BY <2>1 DEF AsTold
    <2>3. AtHome(w, j)
        BY <2>1 DEF AtHome
    <2> QED BY <2>2, <2>3
<1> QED BY <1>1, SlotsChanged DEF Sound

\* A button that is pressed changes no graph.
LEMMA PressSound ==
    ASSUME NEW g, Sound(g), g.end = "no", NEW pot \in BOOLEAN
    PROVE  LET w == Press(g, pot)
           IN  /\ Sound(w) /\ w.state = g.state /\ w.told = g.told /\ w.reset = g.reset
               /\ w.backup = g.backup /\ w.kept = g.kept
               /\ w.doit = g.doit /\ w.asked = g.asked /\ w.crossed = g.crossed
               /\ w.end = "no" /\ w.drawn = g.drawn /\ ~w.closing
<1> DEFINE w == Press(g, pot)
<1>1. w = [g EXCEPT !.closing = FALSE, !.follow = pot, !.presses = 0] /\ g \in Viewport2D
    BY DEF Press, Sound
<1> HIDE DEF w
<1>2. w \in Viewport2D
    <2> DEFINE u == [g EXCEPT !.presses = 0]
               v == [u EXCEPT !.closing = FALSE]
    <2>1. u \in Viewport2D
        <3>1. 0 \in 0 .. 2
            OBVIOUS
        <3> QED BY <1>1, <3>1 DEF Viewport2D
    <2>2. w = [v EXCEPT !.follow = pot]
        BY <1>1 DEF Viewport2D
    <2> HIDE DEF u
    <2>3. v \in Viewport2D
        BY <2>1 DEF Viewport2D
    <2> HIDE DEF v
    <2> QED BY <2>2, <2>3 DEF Viewport2D
<1>3. /\ w.state = g.state /\ w.told = g.told /\ w.reset = g.reset
      /\ w.backup = g.backup /\ w.kept = g.kept
      /\ w.doit = g.doit /\ w.asked = g.asked /\ w.crossed = g.crossed
      /\ w.end = "no" /\ w.drawn = g.drawn /\ ~w.closing
    BY <1>1 DEF Viewport2D
<1>4. Sound(w)
    BY <1>2, <1>3, GraphsAlone DEF Sound, AskedFor
<1> QED BY <1>3, <1>4 DEF w

\* A viewport that was drawn shows what it should.
LEMMA DrawnGood ==
    ASSUME NEW g, Sound(g)
    PROVE  Good(Drawn(g))
<1> DEFINE w == Drawn(g)
<1>1. w = [g EXCEPT !.drawn = TRUE] /\ g \in Viewport2D
    BY DEF Drawn, Sound
<1> HIDE DEF w
<1>2. w \in Viewport2D
    BY <1>1 DEF Viewport2D
<1>3. /\ w.state = g.state /\ w.told = g.told /\ w.reset = g.reset
      /\ w.backup = g.backup /\ w.kept = g.kept
      /\ w.doit = g.doit /\ w.asked = g.asked /\ w.crossed = g.crossed
      /\ w.end = g.end /\ w.drawn /\ w.closing = g.closing /\ w.presses = g.presses
    BY <1>1 DEF Viewport2D
<1>4. Sound(w)
    <2>1. /\ g.doit # "none" => g.asked
          /\ g.closing => g.presses # 0
          /\ g.end = "out of step" => g.crossed
          /\ g.end = "exit" => g.presses = 2
        BY DEF Sound, AskedFor
    <2> QED BY <1>2, <1>3, <2>1, GraphsAlone
<1> QED BY <1>3, <1>4 DEF Good, Seen, w

\* The buttons that leave the graphs alone.
LEMMA PlainButtonsGood ==
    ASSUME Good(g2), g2.end = "no",
           \/ \E r \in Requests \ {"none"} : RequestButton(r)
           \/ AxisButton
           \/ PsButton2D
           \/ HideControl2D
    PROVE  Good(g2')
<1> DEFINE w == Press(g2, FALSE)
<1>1. /\ Sound(w) /\ w.state = g2.state /\ w.told = g2.told /\ w.reset = g2.reset
      /\ w.backup = g2.backup /\ w.kept = g2.kept
      /\ w.doit = g2.doit /\ w.asked = g2.asked /\ w.crossed = g2.crossed
      /\ w.end = "no" /\ w.drawn = g2.drawn /\ ~w.closing
    BY PressSound DEF Good
<1> HIDE DEF w
<1>2. w \in Viewport2D /\ Good(w)
    BY <1>1 DEF Sound, Good, Seen
<1>3. ASSUME NEW r \in Requests \ {"none"}, RequestButton(r) PROVE Good(g2')
    <2>1. g2' = w \/ g2' = [w EXCEPT !.doit = r, !.asked = TRUE]
        BY <1>3 DEF RequestButton, w
    <2>2. CASE g2' = [w EXCEPT !.doit = r, !.asked = TRUE]
        <3>1. g2' \in Viewport2D
            BY <1>2, <2>2 DEF Viewport2D
        <3>2. /\ g2'.state = w.state /\ g2'.backup = w.backup /\ g2'.kept = w.kept
              /\ g2'.reset = w.reset /\ g2'.told = w.told /\ g2'.asked
              /\ g2'.closing = w.closing /\ g2'.end = w.end /\ g2'.drawn = w.drawn
              /\ g2'.crossed = w.crossed
            BY <1>2, <2>2 DEF Viewport2D
        <3> QED BY <1>1, <1>2, <3>1, <3>2, GraphsAlone DEF Good, Seen
    <2> QED BY <1>2, <2>1, <2>2
<1>4. CASE AxisButton \/ PsButton2D \/ HideControl2D
    <2>1. \/ g2' = w
          \/ g2' = [w EXCEPT !.zoomON = ~@]
          \/ g2' = [w EXCEPT !.transON = ~@]
          \/ g2' = [w EXCEPT !.haveControl = FALSE]
        BY <1>4 DEF AxisButton, PsButton2D, HideControl2D, w
    <2>2. g2' \in Viewport2D
        <3>1. [w EXCEPT !.zoomON = ~@] \in Viewport2D
            BY <1>2 DEF Viewport2D
        <3>2. [w EXCEPT !.transON = ~@] \in Viewport2D
            BY <1>2 DEF Viewport2D
        <3>3. [w EXCEPT !.haveControl = FALSE] \in Viewport2D
            BY <1>2 DEF Viewport2D
        <3> QED BY <1>2, <2>1, <3>1, <3>2, <3>3
    <2>3. /\ g2'.state = w.state /\ g2'.backup = w.backup /\ g2'.kept = w.kept
          /\ g2'.reset = w.reset /\ g2'.told = w.told /\ g2'.asked = w.asked
          /\ g2'.doit = w.doit
          /\ g2'.closing = w.closing /\ g2'.end = w.end /\ g2'.drawn = w.drawn
          /\ g2'.crossed = w.crossed
        BY <1>2, <2>1 DEF Viewport2D
    <2> QED BY <1>1, <1>2, <2>2, <2>3, GraphsAlone, ZenonT(60) DEF Good, Seen, Sound, AskedFor
<1> QED BY <1>3, <1>4

\* The user's clicks.
LEMMA GraphButtonsGood ==
    ASSUME Good(g2), g2.end = "no", NEW i \in Slots, GraphButton(i) \/ GraphSelectButton(i)
    PROVE  Good(g2')
<1> DEFINE w == Press(g2, FALSE)
<1>1. Sound(w) /\ w.crossed = g2.crossed /\ w.drawn = g2.drawn
    BY PressSound DEF Good
<1>2. g2' \in ClickedOnGraph(w, i, FALSE) \/ g2' \in ClickedOnGraphSelect(w, i, FALSE)
    BY DEF GraphButton, GraphSelectButton
<1> HIDE DEF w
<1>3. Clicked(w, FALSE, g2')
    <2>1. CASE g2' \in ClickedOnGraph(w, i, FALSE)
        BY <1>1, <2>1, ClickedOnGraphSound
    <2>2. CASE g2' \in ClickedOnGraphSelect(w, i, FALSE)
        BY <1>1, <2>2, ClickedOnGraphSelectSound
    <2> QED BY <1>2, <2>1, <2>2
<1> QED BY <1>1, <1>3 DEF Clicked, Good, Seen

\* A setting of the panel is taken by the graphs that are chosen.
LEMMA OptionButtonGood ==
    ASSUME Good(g2), g2.end = "no", NEW option \in Options2D, OptionButton(option)
    PROVE  Good(g2')
<1> DEFINE w == Press(g2, FALSE)
           isOn == option \notin g2.on
           new == [i \in Slots |-> IF i \in Chosen(g2) THEN Follows(g2.state[i], option, isOn)
                                   ELSE g2.state[i]]
           u == [w EXCEPT !.on = IF isOn THEN @ \union {option} ELSE @ \ {option},
                          !.state = new]
<1>1. /\ Sound(w) /\ w.state = g2.state /\ w.told = g2.told /\ w.reset = g2.reset
      /\ w.backup = g2.backup /\ w.kept = g2.kept
      /\ w.doit = g2.doit /\ w.asked = g2.asked /\ w.crossed = g2.crossed
      /\ w.end = "no" /\ w.drawn = g2.drawn /\ ~w.closing
    BY PressSound DEF Good
<1>2. g2' = Drawn(u)
    BY DEF OptionButton
<1> HIDE DEF w
<1>3. w \in Viewport2D /\ g2 \in Viewport2D
    BY <1>1 DEF Sound, Good
<1>4. \A i \in Slots : /\ new[i] \in State2D
                       /\ new[i].showing = g2.state[i].showing
                       /\ new[i].center = g2.state[i].center
                       /\ new[i].scale = g2.state[i].scale
    <2> SUFFICES ASSUME NEW i \in Slots
                 PROVE  /\ new[i] \in State2D
                        /\ new[i].showing = g2.state[i].showing
                        /\ new[i].center = g2.state[i].center
                        /\ new[i].scale = g2.state[i].scale
        OBVIOUS
    <2>1. g2.state[i] \in State2D
        BY <1>3 DEF Viewport2D
    <2>2. new[i] \in {Follows(g2.state[i], option, isOn), g2.state[i]}
        OBVIOUS
    <2> HIDE DEF new, isOn
    <2>3. /\ Follows(g2.state[i], option, isOn) \in State2D
          /\ Follows(g2.state[i], option, isOn).showing = g2.state[i].showing
          /\ Follows(g2.state[i], option, isOn).center = g2.state[i].center
          /\ Follows(g2.state[i], option, isOn).scale = g2.state[i].scale
        BY <2>1 DEF Follows, State2D
    <2> QED BY <2>1, <2>2, <2>3
<1>5. new \in [Slots -> State2D]
    BY <1>4
<1> HIDE DEF new, isOn
<1>6. u \in Viewport2D
    BY <1>3, <1>5 DEF Viewport2D
<1>7. /\ u.state = new /\ u.told = w.told /\ u.reset = w.reset
      /\ u.backup = w.backup /\ u.kept = w.kept /\ u.doit = w.doit /\ u.asked = w.asked
      /\ u.crossed = w.crossed /\ u.end = w.end /\ u.closing = w.closing
    BY <1>3 DEF Viewport2D
<1> HIDE DEF u
<1>8. Sound(u)
    <2>1. /\ u.doit # "none" => u.asked
          /\ u.closing => u.presses # 0
          /\ u.end = "out of step" => u.crossed
          /\ u.end = "exit" => u.presses = 2
        BY <1>1, <1>7 DEF Sound, AskedFor
    <2>2. \A j \in Slots : /\ u.state[j].showing = w.state[j].showing
                           /\ u.state[j].center = w.state[j].center
                           /\ u.state[j].scale = w.state[j].scale
        BY <1>1, <1>4, <1>7
    <2> QED BY <1>1, <1>6, <1>7, <2>1, <2>2, LooksChanged
<1> QED BY <1>2, <1>8, DrawnGood

\* Reset puts the graphs that are chosen back, and forgets what was said of
\* them.
LEMMA Reset2DGood ==
    ASSUME NEW g, Sound(g)
    PROVE  Good(Reset2D(g)) /\ Reset2D(g).drawn
<1> DEFINE mid == [i \in Slots |-> IF i \in Chosen(g) THEN g.backup[i] ELSE g.state[i]]
           restored == [g EXCEPT !.state = mid]
           back == {i \in Chosen(g) : g.backup[i].showing}
           new == [i \in Slots |-> IF i \in Chosen(restored)
                                   THEN [mid[i] EXCEPT !.on = DefaultOn] ELSE mid[i]]
           told == [i \in Slots |-> IF i \in Chosen(g) THEN "nothing" ELSE g.told[i]]
           u == [g EXCEPT !.on = DefaultOn, !.reset = @ \union back, !.told = told,
                          !.state = new]
<1>1. g \in Viewport2D /\ AskedFor(g)
    BY DEF Sound
<1>2. restored.state = mid
    BY <1>1 DEF Viewport2D
<1>3. Reset2D(g) = Drawn(u)
    <2>1. [restored EXCEPT !.on = DefaultOn, !.reset = @ \union back, !.told = told,
                           !.state = [i \in Slots |-> IF i \in Chosen(restored)
                                        THEN [restored.state[i] EXCEPT !.on = DefaultOn]
                                        ELSE restored.state[i]]] = u
        <3>1. [i \in Slots |-> IF i \in Chosen(restored)
                               THEN [restored.state[i] EXCEPT !.on = DefaultOn]
                               ELSE restored.state[i]] = new
            BY <1>2
        <3> HIDE DEF new, told, back, mid
        <3> QED BY <1>1, <3>1 DEF Viewport2D
    <2> QED BY <2>1 DEF Reset2D
<1>4. \A i \in Slots : mid[i] \in State2D /\ g.state[i] \in State2D
    BY <1>1 DEF Viewport2D
<1>5. \A i \in Slots : i \notin Chosen(g) => mid[i] = g.state[i] /\ i \notin Chosen(restored)
    <2>1. \A i \in Slots : i \notin Chosen(g) => mid[i] = g.state[i]
        OBVIOUS
    <2>2. \A i \in Slots : i \in Chosen(restored) <=> mid[i].showing /\ mid[i].selected
        BY <1>2 DEF Chosen
    <2>3. \A i \in Slots : i \in Chosen(g) <=> g.state[i].showing /\ g.state[i].selected
        BY DEF Chosen
    <2> QED BY <2>1, <2>2, <2>3
<1>6. \A i \in Slots : i \in Chosen(g) => mid[i] = g.backup[i]
    OBVIOUS
<1> HIDE DEF mid
<1>7. \A i \in Slots : /\ new[i] \in State2D /\ new[i].center = mid[i].center
                       /\ new[i].scale = mid[i].scale
    <2> SUFFICES ASSUME NEW i \in Slots
                 PROVE  /\ new[i] \in State2D /\ new[i].center = mid[i].center
                        /\ new[i].scale = mid[i].scale
        OBVIOUS
    <2>1. new[i] \in {[mid[i] EXCEPT !.on = DefaultOn], mid[i]}
        OBVIOUS
    <2> HIDE DEF new
    <2> QED BY <1>4, <2>1, Constants2D DEF State2D
<1>8. \A i \in Slots : i \notin Chosen(restored) => new[i] = mid[i]
    OBVIOUS
<1>9. new \in [Slots -> State2D]
    BY <1>7
<1>10. told \in [Slots -> {"nothing", "show", "hide"}]
    BY <1>1 DEF Viewport2D
<1>11. \A i \in Slots : told[i] = IF i \in Chosen(g) THEN "nothing" ELSE g.told[i]
    OBVIOUS
<1>12. back \subseteq Chosen(g) /\ Chosen(g) \subseteq Slots
    BY DEF Chosen
<1> HIDE DEF new, told, back, restored
<1>13. u \in Viewport2D
    BY <1>1, <1>9, <1>10, <1>12, Constants2D DEF Viewport2D
<1>14. /\ u.state = new /\ u.told = told /\ u.reset = g.reset \union back
       /\ u.backup = g.backup /\ u.kept = g.kept /\ u.doit = g.doit /\ u.asked = g.asked
       /\ u.crossed = g.crossed /\ u.end = g.end /\ u.closing = g.closing
       /\ u.presses = g.presses
    BY <1>1 DEF Viewport2D
<1> HIDE DEF u
<1>15. ASSUME NEW j \in Slots
       PROVE  (SameSlot(u, g, j) /\ AsTold(g, j) /\ AtHome(g, j)) \/ (AsTold(u, j) /\ AtHome(u, j))
    <2>1. CASE j \in Chosen(g)
        <3>1. u.told[j] = "nothing"
            BY <1>11, <1>14, <2>1
        <3>2. u.state[j].center = g.backup[j].center /\ u.state[j].scale = g.backup[j].scale
            BY <1>6, <1>7, <1>14, <2>1
        <3>3. j \notin u.kept => g.backup[j].center = 0
            BY <1>1, <1>14 DEF AskedFor
        <3>4. AtHome(u, j)
            BY <1>14, <3>2, <3>3 DEF AtHome
        <3> QED BY <3>1, <3>4 DEF AsTold
    <2>2. CASE j \notin Chosen(g)
        <3>1. u.state[j] = g.state[j]
            BY <1>5, <1>8, <1>14, <2>2
        <3>2. u.told[j] = g.told[j]
            BY <1>11, <1>14, <2>2
        <3>3. j \in u.reset => j \in g.reset
            BY <1>12, <1>14, <2>2
        <3>4. SameSlot(u, g, j)
            BY <1>14, <3>1, <3>2, <3>3 DEF SameSlot
        <3>5. AsTold(g, j) /\ AtHome(g, j)
            BY DEF Sound
        <3> QED BY <3>4, <3>5
    <2> QED BY <2>1, <2>2
<1>16. /\ u.doit # "none" => u.asked
       /\ u.closing => u.presses # 0
       /\ u.end = "out of step" => u.crossed
       /\ u.end = "exit" => u.presses = 2
    BY <1>14 DEF Sound, AskedFor
<1>17. Sound(u)
    BY <1>1, <1>13, <1>14, <1>15, <1>16, SlotsChanged
<1>18. Good(Drawn(u))
    BY <1>17, DrawnGood
<1>19. Drawn(u).drawn
    BY <1>13 DEF Drawn, Viewport2D
<1> QED BY <1>3, <1>18, <1>19

\* Reset puts the selected graphs back where they came.
LEMMA ResetButton2DGood ==
    ASSUME Good(g2), g2.end = "no", ResetButton2D
    PROVE  Good(g2')
<1>1. Sound(Press(g2, FALSE))
    BY PressSound DEF Good
<1> QED BY <1>1, Reset2DGood DEF ResetButton2D

\* Close, which must have been pressed before.
LEMMA CloseButton2DGood ==
    ASSUME Good(g2), g2.end = "no", CloseButton2D
    PROVE  Good(g2')
<1> DEFINE w == [g2 EXCEPT !.follow = FALSE, !.presses = IF @ = 2 THEN 2 ELSE @ + 1]
           n == IF g2.presses = 2 THEN 2 ELSE g2.presses + 1
<1>1. g2 \in Viewport2D /\ g2.presses \in 0 .. 2
    BY DEF Good, Sound, Viewport2D
<1>2. n \in 0 .. 2 /\ n # 0 /\ (g2.presses # 0 => n = 2)
    BY <1>1
<1>3. w = [g2 EXCEPT !.follow = FALSE, !.presses = n]
    BY <1>1 DEF Viewport2D
<1>4. g2' = IF g2.closing THEN [w EXCEPT !.end = "exit"] ELSE [w EXCEPT !.closing = TRUE]
    BY DEF CloseButton2D, Goodbye2D
<1>5. g2.closing => g2.presses # 0
    BY DEF Good, Sound, AskedFor
<1> HIDE DEF n, w
<1>6. w \in Viewport2D
    BY <1>1, <1>2, <1>3 DEF Viewport2D
<1>7. /\ w.state = g2.state /\ w.told = g2.told /\ w.reset = g2.reset
      /\ w.backup = g2.backup /\ w.kept = g2.kept /\ w.doit = g2.doit /\ w.asked = g2.asked
      /\ w.crossed = g2.crossed /\ w.end = "no" /\ w.closing = g2.closing
      /\ w.presses = n /\ w.drawn = g2.drawn
    BY <1>1, <1>3 DEF Viewport2D
<1>8. CASE g2.closing
    <2>1. g2' = [w EXCEPT !.end = "exit"]
        BY <1>4, <1>8
    <2>2. g2' \in Viewport2D
        BY <1>6, <2>1 DEF Viewport2D
    <2>3. /\ g2'.state = w.state /\ g2'.told = w.told /\ g2'.reset = w.reset
          /\ g2'.backup = w.backup /\ g2'.kept = w.kept /\ g2'.doit = w.doit
          /\ g2'.asked = w.asked /\ g2'.crossed = w.crossed /\ g2'.end = "exit"
          /\ g2'.presses = n /\ g2'.drawn = w.drawn
        BY <1>6, <1>7, <2>1 DEF Viewport2D
    <2>4. n = 2
        BY <1>2, <1>5, <1>8
    <2>5. /\ g2'.doit # "none" => g2'.asked
          /\ g2'.closing => g2'.presses # 0
          /\ g2'.end = "out of step" => g2'.crossed
          /\ g2'.end = "exit" => g2'.presses = 2
        BY <1>7, <2>3, <2>4 DEF Good, Sound, AskedFor
    <2>6. Sound(g2)
        BY DEF Good
    <2>7. Sound(g2')
        BY <1>7, <2>2, <2>3, <2>5, <2>6, GraphsAlone
    <2> QED BY <1>7, <2>3, <2>7 DEF Good, Seen
<1>9. CASE ~g2.closing
    <2>1. g2' = [w EXCEPT !.closing = TRUE]
        BY <1>4, <1>9
    <2>2. g2' \in Viewport2D
        BY <1>6, <2>1 DEF Viewport2D
    <2>3. /\ g2'.state = w.state /\ g2'.told = w.told /\ g2'.reset = w.reset
          /\ g2'.backup = w.backup /\ g2'.kept = w.kept /\ g2'.doit = w.doit
          /\ g2'.asked = w.asked /\ g2'.crossed = w.crossed /\ g2'.end = "no"
          /\ g2'.presses = n /\ g2'.drawn = w.drawn
        BY <1>6, <1>7, <2>1 DEF Viewport2D
    <2>4. /\ g2'.doit # "none" => g2'.asked
          /\ g2'.closing => g2'.presses # 0
          /\ g2'.end = "out of step" => g2'.crossed
          /\ g2'.end = "exit" => g2'.presses = 2
        BY <1>2, <1>7, <2>3 DEF Good, Sound, AskedFor
    <2>5. Sound(g2)
        BY DEF Good
    <2>6. Sound(g2')
        BY <1>7, <2>2, <2>3, <2>4, <2>5, GraphsAlone
    <2> QED BY <1>7, <2>3, <2>6 DEF Good, Seen
<1> QED BY <1>8, <1>9

\* Selecting slots, or not.
LEMMA SelectionSound ==
    ASSUME NEW g, Sound(g), NEW new \in [Slots -> State2D],
           \A j \in Slots : /\ new[j].showing = g.state[j].showing
                            /\ new[j].center = g.state[j].center
                            /\ new[j].scale = g.state[j].scale
    PROVE  LET w == [g EXCEPT !.state = new]
           IN  /\ Sound(w) /\ w.doit = g.doit /\ w.crossed = g.crossed
               /\ w.drawn = g.drawn /\ w.end = g.end
<1> DEFINE w == [g EXCEPT !.state = new]
<1>1. g \in Viewport2D
    BY DEF Sound
<1>2. w \in Viewport2D
    BY <1>1 DEF Viewport2D
<1>3. /\ w.state = new /\ w.told = g.told /\ w.reset = g.reset
      /\ w.backup = g.backup /\ w.kept = g.kept /\ w.doit = g.doit /\ w.asked = g.asked
      /\ w.crossed = g.crossed /\ w.end = g.end /\ w.closing = g.closing
      /\ w.presses = g.presses /\ w.drawn = g.drawn
    BY <1>1 DEF Viewport2D
<1> HIDE DEF w
<1>4. /\ w.doit # "none" => w.asked
      /\ w.closing => w.presses # 0
      /\ w.end = "out of step" => w.crossed
      /\ w.end = "exit" => w.presses = 2
    BY <1>3 DEF Sound, AskedFor
<1>5. Sound(w)
    BY <1>2, <1>3, <1>4, LooksChanged
<1> QED BY <1>3, <1>5 DEF w

\* Clear, whose first click may serve a request.
LEMMA ClearButton2DGood ==
    ASSUME Good(g2), g2.end = "no", ClearButton2D
    PROVE  Good(g2')
<1> DEFINE w == Press(g2, FALSE)
           sel == [i \in Slots |-> [w.state[i] EXCEPT !.selected = TRUE]]
           all == [w EXCEPT !.state = sel]
<1>1. Sound(w) /\ w.crossed = g2.crossed /\ w.drawn = g2.drawn
    BY PressSound DEF Good
<1>2. PICK first \in ClickedOnGraphSelect(all, 1, FALSE) :
        g2' = [first EXCEPT !.state = [i \in Slots |->
                 IF i = 1 THEN first.state[i]
                 ELSE [first.state[i] EXCEPT !.selected = FALSE]]]
    BY DEF ClearButton2D
<1> DEFINE un == [i \in Slots |-> IF i = 1 THEN first.state[i]
                                  ELSE [first.state[i] EXCEPT !.selected = FALSE]]
<1>3. g2' = [first EXCEPT !.state = un]
    BY <1>2
<1> HIDE DEF w
<1>3a. \A j \in Slots : sel[j] = [w.state[j] EXCEPT !.selected = TRUE]
    OBVIOUS
<1>3b. sel = [j \in Slots |-> sel[j]]
    OBVIOUS
<1>3c. \A j \in Slots : w.state[j] \in State2D
    BY <1>1 DEF Sound, Viewport2D
<1> HIDE DEF sel
<1>4. \A j \in Slots : /\ sel[j] \in State2D
                       /\ sel[j].showing = w.state[j].showing
                       /\ sel[j].center = w.state[j].center
                       /\ sel[j].scale = w.state[j].scale
    BY <1>3a, <1>3c DEF State2D
<1>4a. sel \in [Slots -> State2D]
    BY <1>3b, <1>4
<1>5. /\ Sound(all) /\ all.crossed = w.crossed /\ all.drawn = w.drawn
    BY <1>1, <1>4, <1>4a, SelectionSound
<1> HIDE DEF all
<1>6. Clicked(all, FALSE, first)
    BY <1>2, <1>5, Constants2D, ClickedOnGraphSelectSound
<1>7. Sound(first) /\ Seen(first)
    BY <1>1, <1>5, <1>6 DEF Clicked, Good, Seen
<1>8. \A j \in Slots : first.state[j] \in State2D
    BY <1>7 DEF Sound, Viewport2D
<1>9. \A j \in Slots : un[j] \in {first.state[j], [first.state[j] EXCEPT !.selected = FALSE]}
    OBVIOUS
<1>10. un = [j \in Slots |-> un[j]]
    OBVIOUS
<1> HIDE DEF un
<1>11. \A j \in Slots : /\ un[j] \in State2D
                        /\ un[j].showing = first.state[j].showing
                        /\ un[j].center = first.state[j].center
                        /\ un[j].scale = first.state[j].scale
    <2> SUFFICES ASSUME NEW j \in Slots
                 PROVE  /\ un[j] \in State2D
                        /\ un[j].showing = first.state[j].showing
                        /\ un[j].center = first.state[j].center
                        /\ un[j].scale = first.state[j].scale
        OBVIOUS
    <2> DEFINE x == first.state[j]
    <2>1. x \in State2D /\ un[j] \in {x, [x EXCEPT !.selected = FALSE]}
        BY <1>8, <1>9
    <2> HIDE DEF x
    <2>2. LET y == [x EXCEPT !.selected = FALSE]
          IN  y \in State2D /\ y.showing = x.showing /\ y.center = x.center /\ y.scale = x.scale
        BY <2>1 DEF State2D
    <2>3. /\ un[j] \in State2D /\ un[j].showing = x.showing
          /\ un[j].center = x.center /\ un[j].scale = x.scale
        BY <2>1, <2>2
    <2> QED BY <2>3 DEF x
<1>12. un \in [Slots -> State2D]
    BY <1>10, <1>11
<1>13. Sound(g2') /\ g2'.crossed = first.crossed /\ g2'.drawn = first.drawn
    BY <1>3, <1>7, <1>11, <1>12, SelectionSound
<1> QED BY <1>7, <1>13 DEF Good, Seen

\* The potentiometers: what they move is not where Reset put it.
LEMMA PotSound ==
    ASSUME NEW g, Sound(g), NEW on \in BOOLEAN, NEW new \in [Slots -> State2D],
           \A j \in Slots : /\ new[j].showing = g.state[j].showing
                            /\ ~(on /\ j \in Chosen(g)) => new[j] = g.state[j]
    PROVE  Good(Drawn([g EXCEPT !.reset = IF on THEN @ \ Chosen(g) ELSE @, !.state = new]))
<1> DEFINE w == [g EXCEPT !.reset = IF on THEN @ \ Chosen(g) ELSE @, !.state = new]
           left == IF on THEN g.reset \ Chosen(g) ELSE g.reset
<1>1. g \in Viewport2D
    BY DEF Sound
<1>2. w = [g EXCEPT !.reset = left, !.state = new]
    BY <1>1 DEF Viewport2D
<1>3. left \subseteq g.reset /\ \A j \in left : ~(on /\ j \in Chosen(g))
    OBVIOUS
<1> HIDE DEF w, left
<1>4. w \in Viewport2D
    BY <1>1, <1>2, <1>3 DEF Viewport2D
<1>5. /\ w.state = new /\ w.told = g.told /\ w.reset = left
      /\ w.backup = g.backup /\ w.kept = g.kept /\ w.doit = g.doit /\ w.asked = g.asked
      /\ w.crossed = g.crossed /\ w.end = g.end /\ w.closing = g.closing
      /\ w.presses = g.presses
    BY <1>1, <1>2 DEF Viewport2D
<1>6. ASSUME NEW j \in Slots
      PROVE  AsTold(w, j) /\ AtHome(w, j)
    <2>1. AsTold(g, j) /\ AtHome(g, j)
        BY DEF Sound
    <2>2. AsTold(w, j)
        BY <1>5, <2>1 DEF AsTold
    <2>3. CASE j \in left
        <3>1. w.state[j] = g.state[j] /\ j \in g.reset
            BY <1>3, <1>5, <2>3
        <3>2. AtHome(w, j)
            BY <1>5, <2>1, <3>1 DEF AtHome
        <3> QED BY <2>2, <3>2
    <2>4. CASE j \notin left
        BY <1>5, <2>2, <2>4 DEF AtHome
    <2> QED BY <2>3, <2>4
<1>7. /\ w.doit # "none" => w.asked
      /\ w.closing => w.presses # 0
      /\ w.end = "out of step" => w.crossed
      /\ w.end = "exit" => w.presses = 2
    BY <1>5 DEF Sound, AskedFor
<1>8. Sound(w)
    BY <1>4, <1>5, <1>6, <1>7, SlotsChanged DEF Sound
<1> QED BY <1>8, DrawnGood DEF w

\* Translating moves the selected graphs.
LEMMA TranslatePotGood ==
    ASSUME Good(g2), g2.end = "no", NEW d \in {-1, 1}, TranslatePot(d)
    PROVE  Good(g2')
<1> DEFINE w == Press(g2, TRUE)
           new == [i \in Slots |-> IF i \in Chosen(w) /\ g2.transON
                                   THEN [w.state[i] EXCEPT !.center = ClampCenter(@ - d)]
                                   ELSE w.state[i]]
<1>1. Sound(w) /\ g2.transON \in BOOLEAN
    BY PressSound DEF Good, Sound, Viewport2D
<1>2. g2' = Drawn([w EXCEPT !.reset = IF g2.transON THEN @ \ Chosen(w) ELSE @, !.state = new])
    BY DEF TranslatePot
<1> HIDE DEF w
<1>3. \A j \in Slots : w.state[j] \in State2D
    BY <1>1 DEF Sound, Viewport2D
<1>4. \A j \in Slots :
        IF j \in Chosen(w) /\ g2.transON
        THEN new[j] = [w.state[j] EXCEPT !.center = ClampCenter(w.state[j].center - d)]
        ELSE new[j] = w.state[j]
    BY <1>3 DEF State2D
<1>5. new = [j \in Slots |-> new[j]]
    OBVIOUS
<1> HIDE DEF new
<1>6. ASSUME NEW j \in Slots
      PROVE  new[j] \in State2D /\ new[j].showing = w.state[j].showing
    <2>1. ClampCenter(w.state[j].center - d) \in -MaxDelta .. MaxDelta
        <3>1. w.state[j].center \in Int /\ d \in Int
            BY <1>3, Constants2D DEF State2D
        <3> QED BY <3>1, ClampTypes
    <2> QED BY <1>3, <1>4, <2>1 DEF State2D
<1>7. new \in [Slots -> State2D]
    BY <1>5, <1>6
<1> QED BY <1>1, <1>2, <1>4, <1>6, <1>7, PotSound

\* Scaling moves the selected graphs.
LEMMA ScalePotGood ==
    ASSUME Good(g2), g2.end = "no", NEW d \in {-1, 1}, ScalePot(d)
    PROVE  Good(g2')
<1> DEFINE w == Press(g2, TRUE)
           new == [i \in Slots |-> IF i \in Chosen(w) /\ g2.zoomON
                                   THEN [w.state[i] EXCEPT !.scale = ClampScale(@ + d)]
                                   ELSE w.state[i]]
<1>1. Sound(w) /\ g2.zoomON \in BOOLEAN
    BY PressSound DEF Good, Sound, Viewport2D
<1>2. g2' = Drawn([w EXCEPT !.reset = IF g2.zoomON THEN @ \ Chosen(w) ELSE @, !.state = new])
    BY DEF ScalePot
<1> HIDE DEF w
<1>3. \A j \in Slots : w.state[j] \in State2D
    BY <1>1 DEF Sound, Viewport2D
<1>4. \A j \in Slots :
        IF j \in Chosen(w) /\ g2.zoomON
        THEN new[j] = [w.state[j] EXCEPT !.scale = ClampScale(w.state[j].scale + d)]
        ELSE new[j] = w.state[j]
    BY <1>3 DEF State2D
<1>5. new = [j \in Slots |-> new[j]]
    OBVIOUS
<1> HIDE DEF new
<1>6. ASSUME NEW j \in Slots
      PROVE  new[j] \in State2D /\ new[j].showing = w.state[j].showing
    <2>1. ClampScale(w.state[j].scale + d) \in 1 .. MaxScale
        <3>1. w.state[j].scale \in Int /\ d \in Int
            BY <1>3, Constants2D DEF State2D
        <3> QED BY <3>1, ClampTypes
    <2> QED BY <1>3, <1>4, <2>1 DEF State2D
<1>7. new \in [Slots -> State2D]
    BY <1>5, <1>6
<1> QED BY <1>1, <1>2, <1>4, <1>6, <1>7, PotSound

\* Events that leave the graphs alone: what X and the window manager say, and
\* the end.
LEMMA WindowEventsGood ==
    ASSUME Good(g2), g2.end = "no",
           \/ ButtonRelease2D
           \/ Expose2D
           \/ PressView2D
           \/ ClientMessage2D
           \/ CloseCommand2D
    PROVE  Good(g2')
<1>1. g2 \in Viewport2D /\ Sound(g2) /\ Seen(g2)
    BY DEF Good, Sound
<1>2. CASE ButtonRelease2D
    <2> DEFINE w == [g2 EXCEPT !.follow = FALSE]
    <2>1. w \in Viewport2D
        BY <1>1 DEF Viewport2D
    <2>2. /\ w.state = g2.state /\ w.told = g2.told /\ w.reset = g2.reset
          /\ w.backup = g2.backup /\ w.kept = g2.kept /\ w.doit = g2.doit /\ w.asked = g2.asked
          /\ w.crossed = g2.crossed /\ w.end = g2.end /\ w.closing = g2.closing
          /\ w.presses = g2.presses
        BY <1>1 DEF Viewport2D
    <2>3. Sound(w)
        BY <1>1, <2>1, <2>2, GraphsAlone DEF Sound, AskedFor
    <2> QED BY <1>2, <2>3, DrawnGood DEF ButtonRelease2D
<1>3. CASE Expose2D
    BY <1>1, <1>3, DrawnGood DEF Expose2D
<1>4. CASE PressView2D
    <2> DEFINE w == [g2 EXCEPT !.haveControl = TRUE]
    <2>1. w \in Viewport2D
        BY <1>1 DEF Viewport2D
    <2>2. /\ w.state = g2.state /\ w.told = g2.told /\ w.reset = g2.reset
          /\ w.backup = g2.backup /\ w.kept = g2.kept /\ w.doit = g2.doit /\ w.asked = g2.asked
          /\ w.crossed = g2.crossed /\ w.end = g2.end /\ w.closing = g2.closing
          /\ w.presses = g2.presses /\ w.drawn = g2.drawn
        BY <1>1 DEF Viewport2D
    <2>3. Sound(w)
        BY <1>1, <2>1, <2>2, GraphsAlone DEF Sound, AskedFor
    <2> QED BY <1>1, <1>4, <2>2, <2>3 DEF PressView2D, Good, Seen
<1>5. CASE ClientMessage2D \/ CloseCommand2D
    <2> DEFINE u == [g2 EXCEPT !.presses = 2]
    <2>1. g2' = [u EXCEPT !.end = "exit"]
        BY <1>5 DEF ClientMessage2D, CloseCommand2D, Goodbye2D
    <2>2. u \in Viewport2D
        <3>1. 2 \in 0 .. 2
            OBVIOUS
        <3> QED BY <1>1, <3>1 DEF Viewport2D
    <2>3. /\ u.state = g2.state /\ u.told = g2.told /\ u.reset = g2.reset
          /\ u.backup = g2.backup /\ u.kept = g2.kept /\ u.doit = g2.doit /\ u.asked = g2.asked
          /\ u.crossed = g2.crossed /\ u.closing = g2.closing
          /\ u.presses = 2 /\ u.drawn = g2.drawn
        BY <1>1 DEF Viewport2D
    <2> HIDE DEF u
    <2>4. g2' \in Viewport2D
        BY <2>1, <2>2 DEF Viewport2D
    <2>5. /\ g2'.state = u.state /\ g2'.told = u.told /\ g2'.reset = u.reset
          /\ g2'.backup = u.backup /\ g2'.kept = u.kept /\ g2'.doit = u.doit
          /\ g2'.asked = u.asked /\ g2'.crossed = u.crossed /\ g2'.end = "exit"
          /\ g2'.closing = u.closing /\ g2'.presses = 2 /\ g2'.drawn = u.drawn
        BY <2>2, <2>3, <2>1 DEF Viewport2D
    <2>6. /\ g2'.doit # "none" => g2'.asked
          /\ g2'.closing => g2'.presses # 0
          /\ g2'.end = "out of step" => g2'.crossed
          /\ g2'.end = "exit" => g2'.presses = 2
        BY <1>1, <2>3, <2>5 DEF Sound, AskedFor
    <2>7. Sound(g2')
        BY <1>1, <2>3, <2>4, <2>5, <2>6, GraphsAlone
    <2> QED BY <1>1, <2>3, <2>5, <2>7 DEF Good, Seen
<1> QED BY <1>2, <1>3, <1>4, <1>5

-----------------------------------------------------------------------------
\* The commands.  What a command leaves is drawn unless it ended the exchange
\* or drawing is off.
After(w) == IF w.spadDraw /\ w.end = "no" THEN Drawn(w) ELSE w

\* A command is followed by a drawing once one was asked for.
LEMMA AfterGood ==
    ASSUME NEW w, Sound(w), Seen(w) \/ (w.spadDraw /\ w.end = "no")
    PROVE  Good(After(w))
BY DrawnGood DEF After, Good

\* The commands that ask nothing of the user.
LEMMA PlainCommandsGood ==
    ASSUME NEW g, Good(g), g.end = "no", NEW w \in PlainCommands(g)
    PROVE  Good(After(w))
<1>1. g \in Viewport2D /\ Sound(g)
    BY DEF Good, Sound
<1>2. w \in {[g EXCEPT !.haveControl = TRUE], [g EXCEPT !.haveControl = FALSE],
             [g EXCEPT !.spadDraw = FALSE], g,
             [g EXCEPT !.spadDraw = TRUE, !.drawn = FALSE]}
    BY DEF PlainCommands
<1>3. w \in Viewport2D
    <2>1. [g EXCEPT !.haveControl = TRUE] \in Viewport2D
        BY <1>1 DEF Viewport2D
    <2>2. [g EXCEPT !.haveControl = FALSE] \in Viewport2D
        BY <1>1 DEF Viewport2D
    <2>3. [g EXCEPT !.spadDraw = FALSE] \in Viewport2D
        BY <1>1 DEF Viewport2D
    <2>4. [g EXCEPT !.spadDraw = TRUE, !.drawn = FALSE] \in Viewport2D
        BY <1>1 DEF Viewport2D
    <2> QED BY <1>1, <1>2, <2>1, <2>2, <2>3, <2>4
<1>4. /\ w.state = g.state /\ w.told = g.told /\ w.reset = g.reset
      /\ w.backup = g.backup /\ w.kept = g.kept /\ w.doit = g.doit /\ w.asked = g.asked
      /\ w.crossed = g.crossed /\ w.closing = g.closing /\ w.presses = g.presses
      /\ w.end = "no" /\ (w.drawn = g.drawn \/ w.spadDraw)
    <2>1. CASE w = g
        BY <2>1
    <2>2. CASE \E c \in BOOLEAN : w = [g EXCEPT !.haveControl = c]
        BY <1>1, <2>2 DEF Viewport2D
    <2>3. CASE w = [g EXCEPT !.spadDraw = FALSE]
        BY <1>1, <2>3 DEF Viewport2D
    <2>4. CASE w = [g EXCEPT !.spadDraw = TRUE, !.drawn = FALSE]
        BY <1>1, <2>4 DEF Viewport2D
    <2> QED BY <1>2, <2>1, <2>2, <2>3, <2>4
<1>5. Sound(w)
    BY <1>1, <1>3, <1>4, GraphsAlone DEF Sound, AskedFor
<1> QED BY <1>4, <1>5, AfterGood DEF Good, Seen

\* A command that changes the looks or the place of one graph.
LEMMA CommandOnGood ==
    ASSUME NEW g, Good(g), g.end = "no", NEW i \in Slots, NEW new \in State2D,
           new.showing = g.state[i].showing
    PROVE  Good(After(CommandOn(g, i, new)))
<1> DEFINE showing == g.state[i].showing
           u == [g EXCEPT !.state[i] = new, !.spadDraw = @ \/ showing, !.reset = @ \ {i}]
           w == CommandOn(g, i, new)
<1>1. g \in Viewport2D /\ Sound(g) /\ g.state[i] \in State2D
    BY DEF Good, Sound, Viewport2D
<1>2. showing \in BOOLEAN
    BY <1>1 DEF State2D
<1>3. u.state[i].showing = showing
    BY <1>1 DEF Viewport2D
<1>4. w = [u EXCEPT !.drawn = @ /\ ~showing]
    BY <1>3 DEF CommandOn, Changed
<1> HIDE DEF showing, w
<1>5. u \in Viewport2D
    <2> DEFINE u1 == [g EXCEPT !.state[i] = new]
               u2 == [u1 EXCEPT !.reset = @ \ {i}]
               shown == g.spadDraw \/ showing
    <2>1. u1 \in Viewport2D /\ u1.spadDraw = g.spadDraw
        BY <1>1 DEF Viewport2D
    <2>2. u = [u2 EXCEPT !.spadDraw = shown]
        BY <1>1 DEF Viewport2D
    <2>3. shown \in BOOLEAN
        BY <1>1, <1>2 DEF Viewport2D
    <2> HIDE DEF u1, shown
    <2>4. u2 \in Viewport2D
        BY <2>1 DEF Viewport2D
    <2> HIDE DEF u2, u
    <2> QED BY <2>2, <2>3, <2>4 DEF Viewport2D
<1>6. /\ u.state = [g.state EXCEPT ![i] = new] /\ u.told = g.told /\ u.reset = g.reset \ {i}
      /\ u.backup = g.backup /\ u.kept = g.kept /\ u.doit = g.doit /\ u.asked = g.asked
      /\ u.crossed = g.crossed /\ u.closing = g.closing /\ u.presses = g.presses
      /\ u.end = "no" /\ u.drawn = g.drawn /\ u.spadDraw = (g.spadDraw \/ showing)
    BY <1>1 DEF Viewport2D
<1> HIDE DEF u
<1>7. w \in Viewport2D
    <2> DEFINE d == u.drawn /\ ~showing
    <2>1. d \in BOOLEAN /\ w = [u EXCEPT !.drawn = d]
        BY <1>4
    <2> HIDE DEF d
    <2> QED BY <1>5, <2>1 DEF Viewport2D
<1>8. /\ w.state = u.state /\ w.told = u.told /\ w.reset = u.reset
      /\ w.backup = u.backup /\ w.kept = u.kept /\ w.doit = u.doit /\ w.asked = u.asked
      /\ w.crossed = u.crossed /\ w.closing = u.closing /\ w.presses = u.presses
      /\ w.end = u.end /\ w.drawn = (u.drawn /\ ~showing) /\ w.spadDraw = u.spadDraw
    BY <1>4, <1>5 DEF Viewport2D
<1>9. ASSUME NEW j \in Slots
      PROVE  AsTold(w, j) /\ AtHome(w, j)
    <2>1. AsTold(g, j) /\ AtHome(g, j) /\ g.state \in [Slots -> State2D]
        BY <1>1 DEF Sound, Viewport2D
    <2>2. CASE j = i
        <3>1. w.state[j].showing = g.state[j].showing
            BY <1>6, <1>8, <2>1, <2>2
        <3>2. AsTold(w, j)
            BY <1>6, <1>8, <2>1, <3>1 DEF AsTold
        <3>3. j \notin w.reset
            BY <1>6, <1>8, <2>2
        <3> QED BY <3>2, <3>3 DEF AtHome
    <2>3. CASE j # i
        <3>1. w.state[j] = g.state[j]
            BY <1>6, <1>8, <2>1, <2>3
        <3>2. SameSlot(w, g, j)
            BY <1>6, <1>8, <3>1 DEF SameSlot
        <3> QED BY <2>1, <3>2, SlotKept
    <2> QED BY <2>2, <2>3
<1>10. /\ w.doit # "none" => w.asked
       /\ w.closing => w.presses # 0
       /\ w.end = "out of step" => w.crossed
       /\ w.end = "exit" => w.presses = 2
    BY <1>1, <1>6, <1>8 DEF Sound, AskedFor
<1>11. Sound(w)
    <2>1. AskedFor(g) /\ w.backup = g.backup /\ w.kept = g.kept
        BY <1>1, <1>6, <1>8 DEF Sound
    <2> QED BY <1>7, <1>9, <1>10, <2>1, SlotsChanged
<1>12. Seen(w) \/ (w.spadDraw /\ w.end = "no")
    <2>1. CASE showing
        BY <1>6, <1>8, <2>1
    <2>2. CASE ~showing
        BY <1>6, <1>8, <2>2 DEF Good, Seen
    <2> QED BY <2>1, <2>2
<1>13. Good(After(w))
    BY <1>11, <1>12, AfterGood
<1> QED BY <1>13 DEF w

\* The commands on one graph: its looks, its scale and its centre.
LEMMA GraphCommandsGood ==
    ASSUME NEW g, Good(g), g.end = "no", NEW i \in Slots
    PROVE  /\ \A o \in Options2D, isOn \in BOOLEAN : Good(After(OptionCommand(g, i, o, isOn)))
           /\ \A s \in 0 .. MaxScale : Good(After(ScaleCommand(g, i, s)))
           /\ \A c \in {-MaxDelta, 0, MaxDelta + 1} : Good(After(TranslateCommand(g, i, c)))
<1>1. g.state[i] \in State2D
    BY DEF Good, Sound, Viewport2D
<1>2. ASSUME NEW o \in Options2D, NEW isOn \in BOOLEAN
      PROVE  Good(After(OptionCommand(g, i, o, isOn)))
    <2>1. Follows(g.state[i], o, isOn) \in State2D
          /\ Follows(g.state[i], o, isOn).showing = g.state[i].showing
        BY <1>1, FollowsType
    <2> QED BY <2>1, CommandOnGood DEF OptionCommand
<1>3. ASSUME NEW s \in 0 .. MaxScale
      PROVE  Good(After(ScaleCommand(g, i, s)))
    <2> DEFINE new == [g.state[i] EXCEPT !.scale = ClampScale(s)]
    <2>1. s \in Int
        BY Constants2D
    <2>2. ClampScale(s) \in 1 .. MaxScale
        BY <2>1, ClampTypes
    <2>3. new \in State2D /\ new.showing = g.state[i].showing
        BY <1>1, <2>2 DEF State2D
    <2> HIDE DEF new
    <2>4. Good(After(CommandOn(g, i, new)))
        BY <2>3, CommandOnGood
    <2> QED BY <2>4 DEF ScaleCommand, new
<1>4. ASSUME NEW c \in {-MaxDelta, 0, MaxDelta + 1}
      PROVE  Good(After(TranslateCommand(g, i, c)))
    <2> DEFINE new == [g.state[i] EXCEPT !.center = ClampCenter(c)]
    <2>1. c \in Int
        BY Constants2D
    <2>2. ClampCenter(c) \in -MaxDelta .. MaxDelta
        BY <2>1, ClampTypes
    <2>3. new \in State2D /\ new.showing = g.state[i].showing
        BY <1>1, <2>2 DEF State2D
    <2> HIDE DEF new
    <2>4. Good(After(CommandOn(g, i, new)))
        BY <2>3, CommandOnGood
    <2> QED BY <2>4 DEF TranslateCommand, new
<1> QED BY <1>2, <1>3, <1>4

\* Before a simulated click: if it meets a request that is on record.
LEMMA CrossedSound ==
    ASSUME NEW g, Sound(g)
    PROVE  LET w == Crossed(g)
           IN  /\ Sound(w) /\ w.state = g.state /\ w.doit = g.doit /\ w.end = g.end
               /\ w.crossed \in BOOLEAN /\ (g.crossed => w.crossed)
               /\ w.doit # "none" => w.crossed
<1> DEFINE w == Crossed(g)
<1>1. g \in Viewport2D
    BY DEF Sound
<1>2. w = [g EXCEPT !.crossed = @ \/ g.asked, !.drawn = FALSE]
    BY DEF Crossed
<1> HIDE DEF w
<1>3. w \in Viewport2D
    <2> DEFINE c == g.crossed \/ g.asked
    <2>1. c \in BOOLEAN
        OBVIOUS
    <2>2. w = [g EXCEPT !.crossed = c, !.drawn = FALSE]
        BY <1>1, <1>2 DEF Viewport2D
    <2> HIDE DEF c
    <2> QED BY <1>1, <2>1, <2>2 DEF Viewport2D
<1>4. /\ w.state = g.state /\ w.told = g.told /\ w.reset = g.reset
      /\ w.backup = g.backup /\ w.kept = g.kept /\ w.doit = g.doit /\ w.asked = g.asked
      /\ w.crossed = (g.crossed \/ g.asked) /\ w.closing = g.closing /\ w.presses = g.presses
      /\ w.end = g.end
    BY <1>1, <1>2 DEF Viewport2D
<1>5. /\ w.doit # "none" => w.asked
      /\ w.closing => w.presses # 0
      /\ w.end = "out of step" => w.crossed
      /\ w.end = "exit" => w.presses = 2
    BY <1>4 DEF Sound, AskedFor
<1>6. Sound(w)
    BY <1>3, <1>4, <1>5, GraphsAlone
<1>7. w.doit # "none" => w.crossed
    BY <1>4, <1>5
<1> QED BY <1>4, <1>6, <1>7, <1>1, <1>3 DEF w, Viewport2D

\* showing2D turns the slot round and clicks on it.
LEMMA ShowingCommandGood ==
    ASSUME NEW g, Good(g), g.end = "no", NEW i \in Slots, NEW show \in BOOLEAN,
           NEW w \in ShowingCommand(g, i, show)
    PROVE  Good(After(w))
<1> DEFINE new == [g.state[i] EXCEPT !.showing = ~show]
           u == [g EXCEPT !.state = [g.state EXCEPT ![i] = new]]
           v == Untold(u, i)
           x == Crossed(v)
<1>1. g \in Viewport2D /\ Sound(g) /\ g.state[i] \in State2D
    BY DEF Good, Sound, Viewport2D
<1>2. u = [g EXCEPT !.state[i].showing = ~show]
    BY <1>1 DEF Viewport2D, State2D
<1>3. PICK c \in ClickedOnGraph(x, i, TRUE) : w = IF g.doit = "none" THEN Told(c, i, show) ELSE c
    BY <1>2 DEF ShowingCommand
<1>4. new \in State2D /\ new.showing = ~show
    BY <1>1 DEF State2D
<1>5. /\ new.center = g.state[i].center /\ new.scale = g.state[i].scale
    BY <1>1 DEF State2D
<1> HIDE DEF new
<1>6. SoundBut(u, i) /\ u.state[i] = new /\ SameProgress(u, g) /\ u.reset = g.reset
    BY <1>1, <1>4, SlotSet, SoundIsSoundBut
<1>7. AtHome(u, i)
    <2>1. u.kept = g.kept /\ u.backup = g.backup
        BY <1>1 DEF Viewport2D
    <2>2. AtHome(g, i)
        BY <1>1 DEF Sound
    <2> QED BY <1>5, <1>6, <2>1, <2>2 DEF AtHome
<1> HIDE DEF u
<1>8. Sound(v) /\ v.state = u.state /\ SameProgress(v, u)
    BY <1>6, <1>7, UntoldSound
<1> HIDE DEF v
<1>9. /\ Sound(x) /\ x.state = v.state /\ x.doit = v.doit /\ x.end = v.end
      /\ x.doit # "none" => x.crossed
    BY <1>8, CrossedSound
<1> HIDE DEF x
<1>10. x.doit = g.doit /\ x.end = "no" /\ x.state[i].showing = ~show
    BY <1>4, <1>6, <1>8, <1>9 DEF SameProgress
<1>11. /\ Clicked(x, TRUE, c)
       /\ x.doit = "none" => c.drawn /\ c.state[i].showing = ~x.state[i].showing
    <2> DEFINE busy == TRUE
    <2>1. busy \in BOOLEAN /\ c \in ClickedOnGraph(x, i, busy)
        BY <1>3
    <2> HIDE DEF busy
    <2>2. /\ Clicked(x, busy, c)
          /\ x.doit = "none" => c.drawn /\ c.state[i].showing = ~x.state[i].showing
        BY <1>9, <2>1, ClickedOnGraphSound
    <2> QED BY <2>2 DEF busy
<1>12. CASE g.doit = "none"
    <2>1. Sound(c) /\ c.drawn /\ c.state[i].showing = show
        BY <1>10, <1>11, <1>12 DEF Clicked
    <2>2. w = Told(c, i, show)
        BY <1>3, <1>12
    <2>3. Sound(w) /\ w.drawn
        BY <2>1, <2>2, ToldSound
    <2> QED BY <2>3, AfterGood DEF Seen
<1>13. CASE g.doit # "none"
    <2>1. w = c /\ Sound(c) /\ c.crossed
        BY <1>3, <1>9, <1>10, <1>11, <1>13 DEF Clicked
    <2> QED BY <2>1, AfterGood DEF Seen
<1> QED BY <1>12, <1>13

\* putGraph clicks twice, and a request that is pending takes the first.
LEMMA PutGraphGood ==
    ASSUME NEW g, Good(g), g.end = "no", NEW i \in Slots, NEW k \in Keys, NEW sent \in Sent,
           NEW w \in PutGraph(g, i, k, sent)
    PROVE  Good(After(w))
<1> DEFINE got == GetGraph(g, i, k, sent)
           new == [got.state[i] EXCEPT !.selected = FALSE,
                                       !.on = @ \union ({"lines"} \intersect Options2D),
                                       !.showing = ~@]
           u == [got EXCEPT !.state = [got.state EXCEPT ![i] = new]]
           v == Untold(u, i)
           x == Crossed(v)
           second(y) == IF y.end # "no" THEN {y} ELSE ClickedOnGraphSelect(y, i, TRUE)
<1>1. g \in Viewport2D /\ Sound(g)
    BY DEF Good, Sound
<1>2. /\ got \in Viewport2D /\ SoundBut(got, i) /\ i \notin got.reset
      /\ got.state[i].showing = sent.showing /\ SameProgress(got, g)
    <2>1. g \in Viewport2D /\ AskedFor(g) /\ \A j \in Slots \ {i} : AsTold(g, j) /\ AtHome(g, j)
        BY <1>1 DEF Sound
    <2>2. /\ got \in Viewport2D /\ AskedFor(got)
          /\ \A j \in Slots \ {i} : AsTold(got, j) /\ AtHome(got, j)
          /\ i \notin got.reset
          /\ got.state[i].showing = sent.showing
          /\ SameProgress(got, g)
        BY <2>1, GetGraphSound
    <2> HIDE DEF got
    <2> QED BY <1>1, <2>2 DEF Sound, SoundBut, SameProgress
<1>3. sent.showing \in BOOLEAN
    BY SentTypes DEF State2D
<1>4. u = [got EXCEPT !.state[i].selected = FALSE,
                      !.state[i].on = @ \union ({"lines"} \intersect Options2D),
                      !.state[i].showing = ~@]
    <2> HIDE DEF got
    <2> QED BY <1>2 DEF Viewport2D, State2D
<1>5. PICK c \in UNION {second(y) : y \in ClickedOnGraph(x, i, TRUE)} :
        w = IF g.doit = "none" THEN Told(c, i, sent.showing) ELSE c
    BY <1>4 DEF PutGraph
<1>6. PICK y \in ClickedOnGraph(x, i, TRUE) : c \in second(y)
    BY <1>5
<1> HIDE DEF got
<1>7. new \in State2D /\ new.showing = ~sent.showing
    <2>1. got.state[i] \in State2D
        BY <1>2 DEF Viewport2D
    <2> QED BY <1>2, <2>1 DEF State2D
<1> HIDE DEF new
<1>8. /\ SoundBut(u, i) /\ u.state[i] = new /\ SameProgress(u, got)
      /\ u.reset = got.reset
    BY <1>2, <1>7, SlotSet
<1>9. AtHome(u, i)
    BY <1>2, <1>8 DEF AtHome
<1> HIDE DEF u
<1>10. Sound(v) /\ v.state = u.state /\ SameProgress(v, u)
    BY <1>8, <1>9, UntoldSound
<1> HIDE DEF v
<1>11. /\ Sound(x) /\ x.state = v.state /\ x.doit = v.doit /\ x.end = v.end
       /\ x.doit # "none" => x.crossed
    BY <1>10, CrossedSound
<1> HIDE DEF x
<1>12. x.doit = g.doit /\ x.end = "no" /\ x.state[i].showing = ~sent.showing
    BY <1>2, <1>7, <1>8, <1>10, <1>11 DEF SameProgress
<1>13. /\ Clicked(x, TRUE, y)
       /\ x.doit = "none" => y.drawn /\ y.end = x.end /\ y.state[i].showing = ~x.state[i].showing
    <2> DEFINE busy == TRUE
    <2>1. busy \in BOOLEAN /\ y \in ClickedOnGraph(x, i, busy)
        BY <1>6
    <2> HIDE DEF busy
    <2>2. /\ Clicked(x, busy, y)
          /\ x.doit = "none" => y.drawn /\ y.end = x.end
                                /\ y.state[i].showing = ~x.state[i].showing
        BY <1>11, <2>1, ClickedOnGraphSound
    <2> QED BY <2>2 DEF busy
<1>14. CASE g.doit = "none"
    <2>1. /\ Sound(y) /\ y.drawn /\ y.end = "no" /\ y.state[i].showing = sent.showing
          /\ y.doit = "none"
        BY <1>3, <1>12, <1>13, <1>14 DEF Clicked
    <2>2. c \in ClickedOnGraphSelect(y, i, TRUE)
        BY <1>6, <2>1
    <2>3. Sound(c) /\ c.drawn /\ c.state[i].showing = sent.showing
        BY <2>1, <2>2, ClickedOnGraphSelectSound DEF Clicked
    <2>4. w = Told(c, i, sent.showing)
        BY <1>5, <1>14
    <2>5. Sound(w) /\ w.drawn
        BY <1>3, <2>3, <2>4, ToldSound
    <2> QED BY <2>5, AfterGood DEF Seen
<1>15. CASE g.doit # "none"
    <2>1. Sound(y) /\ y.doit = "none" /\ y.crossed
        BY <1>11, <1>12, <1>13, <1>15 DEF Clicked
    <2>2. Sound(c) /\ c.crossed
        <3>1. CASE y.end # "no"
            BY <1>6, <2>1, <3>1
        <3>2. CASE y.end = "no"
            <4>1. c \in ClickedOnGraphSelect(y, i, TRUE)
                BY <1>6, <3>2
            <4> QED BY <2>1, <4>1, ClickedOnGraphSelectSound DEF Clicked
        <3> QED BY <3>1, <3>2
    <2>3. w = c
        BY <1>5, <1>15
    <2> QED BY <2>2, <2>3, AfterGood DEF Seen
<1> QED BY <1>14, <1>15

\* A command of the interpreter keeps the invariant.
LEMMA SpadAction2DGood ==
    ASSUME Good(g2), g2.end = "no", SpadAction2D
    PROVE  Good(g2')
<1>1. PICK w \in Commands2D(g2) : g2' = After(w)
    BY DEF SpadAction2D, After
<1>2. CASE w \in PlainCommands(g2)
    BY <1>1, <1>2, PlainCommandsGood
<1>3. CASE w = Reset2D(g2)
    <2>1. Sound(w) /\ Seen(w)
        BY <1>3, Reset2DGood DEF Good
    <2> QED BY <1>1, <2>1, AfterGood
<1>4. CASE \E i \in Slots, o \in Options2D, isOn \in BOOLEAN : w = OptionCommand(g2, i, o, isOn)
    BY <1>1, <1>4, GraphCommandsGood
<1>5. CASE \E i \in Slots, s \in 0 .. MaxScale : w = ScaleCommand(g2, i, s)
    BY <1>1, <1>5, GraphCommandsGood
<1>6. CASE \E i \in Slots, c \in {-MaxDelta, 0, MaxDelta + 1} : w = TranslateCommand(g2, i, c)
    BY <1>1, <1>6, GraphCommandsGood
<1>7. CASE \E i \in Slots, show \in BOOLEAN : w \in ShowingCommand(g2, i, show)
    BY <1>1, <1>7, ShowingCommandGood
<1>8. CASE \E i \in Slots, k \in Keys, sent \in Sent : w \in PutGraph(g2, i, k, sent)
    BY <1>1, <1>8, PutGraphGood
<1> DEFINE A == {OptionCommand(g2, i, o, isOn) :
                   i \in Slots, o \in Options2D, isOn \in BOOLEAN}
           B == {ScaleCommand(g2, i, s) : i \in Slots, s \in 0 .. MaxScale}
           C == {TranslateCommand(g2, i, c) :
                   i \in Slots, c \in {-MaxDelta, 0, MaxDelta + 1}}
           D == UNION {ShowingCommand(g2, i, show) : i \in Slots, show \in BOOLEAN}
           E == UNION {PutGraph(g2, i, k, sent) : i \in Slots, k \in Keys, sent \in Sent}
<1>9. \/ w \in PlainCommands(g2)
      \/ w = Reset2D(g2)
      \/ w \in A
      \/ w \in B
      \/ w \in C
      \/ w \in D
      \/ w \in E
    <2>1. Commands2D(g2) =
            PlainCommands(g2) \union {Reset2D(g2)} \union A \union B \union C \union D \union E
        BY DEF Commands2D
    <2> HIDE DEF A, B, C, D, E
    <2> QED BY <1>1, <2>1
<1>10. CASE w \in D
    BY <1>7, <1>10
<1>11. CASE w \in E
    BY <1>8, <1>11
<1> QED BY <1>2, <1>3, <1>4, <1>5, <1>6, <1>9, <1>10, <1>11

-----------------------------------------------------------------------------
Inv2D == Good(g2) /\ events2 \in 0 .. MaxEvents2D

\* The viewport that a graph has just come to.
LEMMA Init2DGood ==
    ASSUME Init2D
    PROVE  Inv2D
<1>1. PICK k \in Keys, sent \in Sent, alone \in BOOLEAN, showCP \in BOOLEAN :
        g2 = GetGraph([key |-> [i \in Slots |-> NoGraph],
                       state |-> [i \in Slots |-> InitialState],
                       backup |-> [i \in Slots |-> InitialState],
                       doit |-> "none", on |-> DefaultOn,
                       transON |-> TRUE, zoomON |-> TRUE, queried |-> 1,
                       closing |-> FALSE, haveControl |-> showCP,
                       follow |-> FALSE, spadDraw |-> FALSE,
                       alone |-> alone, drawn |-> TRUE, end |-> "no",
                       told |-> [i \in Slots |-> "nothing"], reset |-> {},
                       kept |-> {}, asked |-> FALSE, crossed |-> FALSE,
                       presses |-> 0], 1, k, sent)
    BY DEF Init2D
<1> DEFINE g == [key |-> [i \in Slots |-> NoGraph],
                 state |-> [i \in Slots |-> InitialState],
                 backup |-> [i \in Slots |-> InitialState],
                 doit |-> "none", on |-> DefaultOn,
                 transON |-> TRUE, zoomON |-> TRUE, queried |-> 1,
                 closing |-> FALSE, haveControl |-> showCP,
                 follow |-> FALSE, spadDraw |-> FALSE,
                 alone |-> alone, drawn |-> TRUE, end |-> "no",
                 told |-> [i \in Slots |-> "nothing"], reset |-> {},
                 kept |-> {}, asked |-> FALSE, crossed |-> FALSE,
                 presses |-> 0]
<1>2. g \in Viewport2D
    BY Constants2D, InitialStateType DEF Viewport2D, Requests
<1>3. /\ g.told = [i \in Slots |-> "nothing"] /\ g.reset = {}
      /\ g.backup = [i \in Slots |-> InitialState]
      /\ g.doit = "none" /\ ~g.closing /\ g.end = "no" /\ g.drawn
    OBVIOUS
<1>4. g2 = GetGraph(g, 1, k, sent)
    BY <1>1
<1> HIDE DEF g
<1>5. SoundBut(g, 1)
    BY <1>2, <1>3 DEF SoundBut, AsTold, AtHome, AskedFor, InitialState
<1>6. Sound(g2) /\ g2.drawn
    <2>1. /\ g2 \in Viewport2D /\ AskedFor(g2)
          /\ \A j \in Slots \ {1} : AsTold(g2, j) /\ AtHome(g2, j)
          /\ 1 \notin g2.reset /\ SameProgress(g2, g)
        BY <1>2, <1>4, <1>5, Constants2D, GetGraphSound DEF SoundBut
    <2>2. g2.told = g.told
        BY <1>2, <1>4 DEF GetGraph, Viewport2D
    <2>3. AsTold(g2, 1) /\ AtHome(g2, 1)
        BY <1>3, <2>1, <2>2, Constants2D DEF AsTold, AtHome
    <2>4. \A j \in Slots : AsTold(g2, j) /\ AtHome(g2, j)
        BY <2>1, <2>3
    <2> QED BY <1>3, <2>1, <2>4 DEF Sound, SameProgress
<1> QED BY <1>6, View2DAssumption DEF Inv2D, Good, Seen, Init2D

\* Every step keeps the invariant.
LEMMA Next2DGood ==
    ASSUME Inv2D, [Next2D]_vars2
    PROVE  Inv2D'
<1>1. CASE Next2D
    <2>0. events2' \in 0 .. MaxEvents2D
        BY <1>1, View2DAssumption DEF Inv2D, Next2D
    <2> SUFFICES Good(g2')
        BY <2>0 DEF Inv2D
    <2>1. Good(g2) /\ g2.end = "no"
        BY <1>1 DEF Inv2D, Next2D
    <2>3. ASSUME NEW i \in Slots, GraphButton(i) \/ GraphSelectButton(i)
          PROVE  Good(g2')
        BY <2>1, <2>3, GraphButtonsGood
    <2>4. ASSUME NEW option \in Options2D, OptionButton(option)
          PROVE  Good(g2')
        BY <2>1, <2>4, OptionButtonGood
    <2>5. ASSUME NEW d \in {-1, 1}, TranslatePot(d) \/ ScalePot(d)
          PROVE  Good(g2')
        BY <2>1, <2>5, TranslatePotGood, ScalePotGood
    <2>6. CASE (\E r \in Requests \ {"none"} : RequestButton(r)) \/ AxisButton \/ PsButton2D
               \/ HideControl2D
        BY <2>1, <2>6, PlainButtonsGood
    <2>7. CASE ResetButton2D
        BY <2>1, <2>7, ResetButton2DGood
    <2>8. CASE CloseButton2D
        BY <2>1, <2>8, CloseButton2DGood
    <2>9. CASE ClearButton2D
        BY <2>1, <2>9, ClearButton2DGood
    <2>10. CASE ButtonRelease2D \/ Expose2D \/ PressView2D \/ ClientMessage2D \/ CloseCommand2D
        BY <2>1, <2>10, WindowEventsGood
    <2>11. CASE SpadAction2D
        BY <2>1, <2>11, SpadAction2DGood
    <2>12. Event2D
        BY <1>1 DEF Next2D
    <2> QED BY <2>3, <2>4, <2>5, <2>6, <2>7, <2>8, <2>9, <2>10, <2>11, <2>12 DEF Event2D
<1>2. CASE UNCHANGED vars2
    BY <1>2 DEF vars2, Inv2D, Good, Sound, Seen, AskedFor, AsTold, AtHome
<1> QED BY <1>1, <1>2

\* Inv2D always holds.
THEOREM Viewport2DInvariant == Spec2D => []Inv2D
<1>1. Init2D => Inv2D
    BY Init2DGood
<1>2. Inv2D /\ [Next2D]_vars2 => Inv2D'
    BY Next2DGood
<1> QED BY <1>1, <1>2, PTL DEF Spec2D

\* What the interpreter's commands show or hide stays shown or hidden until
\* someone clicks on it (showing2D, putGraph); the window writes to viewman out
\* of turn only if a command met a request of the user (clickedOnGraph); and it
\* ends by its panel only when Close was pressed twice (closeAll2D).
THEOREM Answers2D == Spec2D => []View2DAnswers
<1>1. Inv2D => View2DAnswers
    <2> SUFFICES ASSUME Inv2D PROVE View2DAnswers
        OBVIOUS
    <2>1. Sound(g2) /\ g2 \in Viewport2D
        BY DEF Inv2D, Good, Sound
    <2>2. ShowingAsTold
        <3> SUFFICES ASSUME NEW i \in Slots, g2.told[i] # "nothing"
                     PROVE  g2.state[i].showing = (g2.told[i] = "show")
            BY DEF ShowingAsTold
        <3>1. g2.told[i] \in {"show", "hide"} /\ g2.state[i].showing \in BOOLEAN
            BY <2>1 DEF Viewport2D, State2D
        <3>2. AsTold(g2, i)
            BY <2>1 DEF Sound
        <3> QED BY <3>1, <3>2 DEF AsTold
    <2>3. AcknowledgedInStep /\ ClosedOnPurpose
        BY <2>1 DEF Sound, AcknowledgedInStep, ClosedOnPurpose
    <2> QED BY <2>2, <2>3 DEF View2DAnswers
<1> QED BY <1>1, Viewport2DInvariant, PTL

\* The picture is that of the graphs, unless a command met a request of the
\* user (spadAction, drawViewport), and a graph that was reset is where it came
\* (reset2D).
THEOREM PictureAlwaysAgrees == Spec2D => []PictureAgrees
<1>1. Inv2D => PictureAgrees
    <2> SUFFICES ASSUME Inv2D PROVE PictureAgrees
        OBVIOUS
    <2>1. Sound(g2) /\ g2 \in Viewport2D /\ Seen(g2)
        BY DEF Inv2D, Good, Sound
    <2>2. View2DTypeOK
        BY <2>1 DEF View2DTypeOK, Viewport2D, Inv2D
    <2>3. PictureIsCurrent
        BY <2>1 DEF PictureIsCurrent, Seen
    <2>4. ResetIsInitial
        <3> SUFFICES ASSUME NEW i \in g2.reset \ g2.kept
                     PROVE  g2.state[i].center = 0 /\ g2.state[i].scale = g2.backup[i].scale
            BY DEF ResetIsInitial
        <3>1. i \in Slots
            BY <2>1 DEF Viewport2D
        <3>2. AtHome(g2, i)
            BY <2>1, <3>1 DEF Sound
        <3> QED BY <3>2 DEF AtHome
    <2> QED BY <2>2, <2>3, <2>4 DEF PictureAgrees
<1> QED BY <1>1, Viewport2DInvariant, PTL

(***************************************************************************)
(* View3D.                                                                 *)
(***************************************************************************)
\* What the next smooth drawing makes anew: everything, or what a scan of the
\* lists that are there draws.
Redone(v) == v.moved \/ ~v.finishedList \/ v.firstTime \/ v.redoSmooth
Rescanned(v) == v.stale \subseteq Buffered /\ (v.redoColor \/ v.redoDither)

\* The panel that takes the clicks is there.
PanelsGood(v) ==
    /\ v.panel = "VOLUME" => "volume" \in v.mapped
    /\ v.panel = "LIGHT" => "light" \in v.mapped
    /\ v.panel = "SAVE" => "save" \in v.mapped
    /\ v.panel = "QUIT" => "quit" \in v.mapped \/ "unarmed" \in v.strays

\* A list that was freed and still hangs there.
ListsGood(v) ==
    /\ v.quickList = "freed" => "torn" \in v.strays
    /\ v.scanList = "freed" => {"torn", "stopped"} \intersect v.strays # {} \/ Redone(v)

\* The order of the polygons.
OrderGood(v) ==
    /\ v.unsorted => "view" \in v.stale
    /\ v.unsorted => "stopped" \in v.strays \/ v.moved \/ ~v.finishedList \/ v.firstTime
    /\ v.style \in {"opaqueMesh", "render"} /\ v.shown /\ v.unsorted =>
         "stopped" \in v.strays

\* Shades are owned, or asked for by the next drawing.
ShadesGood(v) ==
    v.shades /\ v.oneHue /\ ~v.mono =>
      v.pixelSet \/ v.redoColor \/ "reset from BW" \in v.strays

\* As long as there is no pixmap nothing is fresh, and the next drawing makes one.
PixmapGood(v) ==
    /\ v.viewmap \/ v.stale = Aspects
    /\ v.viewmap \/ Redone(v) \/ "stopped" \in v.strays \/ v.fault # "no"

\* The pixmap is there when the style needs it.
Imaged(v) ==
    v.style = "smooth" =>
      v.viewmap \/ {"stopped", "unseen"} \intersect v.strays # {} \/ v.fault # "no"

\* A light chosen in the panel and not in the scene will be noticed.
LightGood(v) ==
    "light" \in v.mapped /\ v.light # v.temp =>
      v.movingLight \/ v.changedIntensity \/ "light" \in v.strays

Excused(v) ==
    v.strays \intersect {"stopped", "volume", "command", "axes", "light", "printed"} # {}

\* What is stale will be drawn, and what was drawn is not stale.
FreshGood(v) ==
    /\ v.stale = {} \/ Redone(v) \/ Rescanned(v) \/ Excused(v) \/ v.panel = "VOLUME"
    /\ v.style = "smooth" /\ v.shown /\ v.fault = "no" => v.stale = {} \/ Excused(v)

\* Why there is trouble.
FaultGood(v) ==
    /\ v.fault \in {"freed twice", "used after free"} =>
         \/ "torn" \in v.strays
         \/ "stopped" \in v.strays /\ v.scanList = "freed" /\ ~Redone(v)
    /\ v.fault = "no such shade" => "reset from BW" \in v.strays \/ ~v.shades

DrawableGood(v) ==
    v.fault = "bad drawable" => {"stopped", "writeView", "unseen"} \intersect v.strays # {}

FileGood(v) == v.ps = "empty" => "writeView" \in v.strays

Sound3D(v) ==
    /\ v \in Viewport3D
    /\ PanelsGood(v) /\ ListsGood(v) /\ OrderGood(v) /\ ShadesGood(v)
    /\ PixmapGood(v) /\ LightGood(v) /\ FreshGood(v) /\ FaultGood(v)

Inv3D ==
    /\ focus3 \in Focuses
    /\ events3 \in 0 .. MaxEvents3D[focus3]
    /\ Sound3D(v3) /\ DrawableGood(v3) /\ FileGood(v3)
    /\ v3.writeImage = FALSE
    /\ IF events3 = 0 THEN v3.panel = "CONTROL" /\ v3.firstTime /\ v3.fault = "no" ELSE Imaged(v3)

-----------------------------------------------------------------------------
\* An update of one field keeps the type of the record.
LEMMA FlagUpdates ==
    ASSUME NEW v \in Viewport3D, NEW b \in BOOLEAN
    PROVE  /\ [v EXCEPT !.mono = b] \in Viewport3D
           /\ [v EXCEPT !.outline = b] \in Viewport3D
           /\ [v EXCEPT !.oneHue = b] \in Viewport3D
           /\ [v EXCEPT !.clipbox = b] \in Viewport3D
           /\ [v EXCEPT !.haveControl = b] \in Viewport3D
           /\ [v EXCEPT !.saveFlag = b] \in Viewport3D
           /\ [v EXCEPT !.closing = b] \in Viewport3D
           /\ [v EXCEPT !.redrawView = b] \in Viewport3D
           /\ [v EXCEPT !.exposeView = b] \in Viewport3D
           /\ [v EXCEPT !.follow = b] \in Viewport3D
           /\ [v EXCEPT !.spadDraw = b] \in Viewport3D
           /\ [v EXCEPT !.moved = b] \in Viewport3D
           /\ [v EXCEPT !.redoSmooth = b] \in Viewport3D
           /\ [v EXCEPT !.redoColor = b] \in Viewport3D
           /\ [v EXCEPT !.redoDither = b] \in Viewport3D
           /\ [v EXCEPT !.movingLight = b] \in Viewport3D
           /\ [v EXCEPT !.changedIntensity = b] \in Viewport3D
           /\ [v EXCEPT !.firstTime = b] \in Viewport3D
           /\ [v EXCEPT !.finishedList = b] \in Viewport3D
           /\ [v EXCEPT !.scanning = b] \in Viewport3D
           /\ [v EXCEPT !.pixelSet = b] \in Viewport3D
           /\ [v EXCEPT !.multiColor = b] \in Viewport3D
           /\ [v EXCEPT !.smoothError = b] \in Viewport3D
           /\ [v EXCEPT !.viewmap = b] \in Viewport3D
           /\ [v EXCEPT !.writeImage = b] \in Viewport3D
           /\ [v EXCEPT !.unsorted = b] \in Viewport3D
           /\ [v EXCEPT !.shown = b] \in Viewport3D
<1>1. [v EXCEPT !.mono = b] \in Viewport3D BY DEF Viewport3D
<1>2. [v EXCEPT !.outline = b] \in Viewport3D BY DEF Viewport3D
<1>3. [v EXCEPT !.oneHue = b] \in Viewport3D BY DEF Viewport3D
<1>4. [v EXCEPT !.clipbox = b] \in Viewport3D BY DEF Viewport3D
<1>5. [v EXCEPT !.haveControl = b] \in Viewport3D BY DEF Viewport3D
<1>6. [v EXCEPT !.saveFlag = b] \in Viewport3D BY DEF Viewport3D
<1>7. [v EXCEPT !.closing = b] \in Viewport3D BY DEF Viewport3D
<1>8. [v EXCEPT !.redrawView = b] \in Viewport3D BY DEF Viewport3D
<1>9. [v EXCEPT !.exposeView = b] \in Viewport3D BY DEF Viewport3D
<1>10. [v EXCEPT !.follow = b] \in Viewport3D BY DEF Viewport3D
<1>11. [v EXCEPT !.spadDraw = b] \in Viewport3D BY DEF Viewport3D
<1>12. [v EXCEPT !.moved = b] \in Viewport3D BY DEF Viewport3D
<1>13. [v EXCEPT !.redoSmooth = b] \in Viewport3D BY DEF Viewport3D
<1>14. [v EXCEPT !.redoColor = b] \in Viewport3D BY DEF Viewport3D
<1>15. [v EXCEPT !.redoDither = b] \in Viewport3D BY DEF Viewport3D
<1>16. [v EXCEPT !.movingLight = b] \in Viewport3D BY DEF Viewport3D
<1>17. [v EXCEPT !.changedIntensity = b] \in Viewport3D BY DEF Viewport3D
<1>18. [v EXCEPT !.firstTime = b] \in Viewport3D BY DEF Viewport3D
<1>19. [v EXCEPT !.finishedList = b] \in Viewport3D BY DEF Viewport3D
<1>20. [v EXCEPT !.scanning = b] \in Viewport3D BY DEF Viewport3D
<1>21. [v EXCEPT !.pixelSet = b] \in Viewport3D BY DEF Viewport3D
<1>22. [v EXCEPT !.multiColor = b] \in Viewport3D BY DEF Viewport3D
<1>23. [v EXCEPT !.smoothError = b] \in Viewport3D BY DEF Viewport3D
<1>24. [v EXCEPT !.viewmap = b] \in Viewport3D BY DEF Viewport3D
<1>25. [v EXCEPT !.writeImage = b] \in Viewport3D BY DEF Viewport3D
<1>26. [v EXCEPT !.unsorted = b] \in Viewport3D BY DEF Viewport3D
<1>27. [v EXCEPT !.shown = b] \in Viewport3D BY DEF Viewport3D
<1> QED
    BY <1>1, <1>2, <1>3, <1>4, <1>5, <1>6, <1>7, <1>8, <1>9, <1>10, <1>11, <1>12, <1>13, <1>14, <1>15, <1>16, <1>17, <1>18, <1>19, <1>20, <1>21, <1>22, <1>23, <1>24, <1>25, <1>26, <1>27

\* The fields that are not flags.
LEMMA OtherUpdates ==
    ASSUME NEW v \in Viewport3D
    PROVE  /\ \A x \in Styles : [v EXCEPT !.style = x] \in Viewport3D
           /\ \A x \in Panels : [v EXCEPT !.panel = x] \in Viewport3D
           /\ \A x \in SUBSET PopUps : [v EXCEPT !.mapped = x] \in Viewport3D
           /\ \A x \in {"all", "some", "none"} : [v EXCEPT !.zoomOn = x] \in Viewport3D
           /\ \A x \in {"none", "live", "freed"} : [v EXCEPT !.quickList = x] \in Viewport3D
           /\ \A x \in {"none", "live", "freed"} : [v EXCEPT !.scanList = x] \in Viewport3D
           /\ \A x \in 0 .. 1 : [v EXCEPT !.light = x] \in Viewport3D
           /\ \A x \in 0 .. 1 : [v EXCEPT !.temp = x] \in Viewport3D
           /\ \A x \in SUBSET Aspects : [v EXCEPT !.stale = x] \in Viewport3D
           /\ \A x \in {"none", "picture", "part", "empty"} : [v EXCEPT !.ps = x] \in Viewport3D
           /\ \A x \in SUBSET Excuses : [v EXCEPT !.strays = x] \in Viewport3D
           /\ \A x \in Faults : [v EXCEPT !.fault = x] \in Viewport3D
<1>1. ASSUME NEW x \in Styles PROVE [v EXCEPT !.style = x] \in Viewport3D
    BY DEF Viewport3D
<1>2. ASSUME NEW x \in Panels PROVE [v EXCEPT !.panel = x] \in Viewport3D
    BY DEF Viewport3D
<1>3. ASSUME NEW x \in SUBSET PopUps PROVE [v EXCEPT !.mapped = x] \in Viewport3D
    BY DEF Viewport3D
<1>4. ASSUME NEW x \in {"all", "some", "none"} PROVE [v EXCEPT !.zoomOn = x] \in Viewport3D
    BY DEF Viewport3D
<1>5. ASSUME NEW x \in {"none", "live", "freed"} PROVE [v EXCEPT !.quickList = x] \in Viewport3D
    BY DEF Viewport3D
<1>6. ASSUME NEW x \in {"none", "live", "freed"} PROVE [v EXCEPT !.scanList = x] \in Viewport3D
    BY DEF Viewport3D
<1>7. ASSUME NEW x \in 0 .. 1 PROVE [v EXCEPT !.light = x] \in Viewport3D
    BY DEF Viewport3D
<1>8. ASSUME NEW x \in 0 .. 1 PROVE [v EXCEPT !.temp = x] \in Viewport3D
    BY DEF Viewport3D
<1>9. ASSUME NEW x \in SUBSET Aspects PROVE [v EXCEPT !.stale = x] \in Viewport3D
    BY DEF Viewport3D
<1>10. ASSUME NEW x \in {"none", "picture", "part", "empty"} PROVE [v EXCEPT !.ps = x] \in Viewport3D
    BY DEF Viewport3D
<1>11. ASSUME NEW x \in SUBSET Excuses PROVE [v EXCEPT !.strays = x] \in Viewport3D
    BY DEF Viewport3D
<1>12. ASSUME NEW x \in Faults PROVE [v EXCEPT !.fault = x] \in Viewport3D
    BY DEF Viewport3D
<1> QED
    BY <1>1, <1>2, <1>3, <1>4, <1>5, <1>6, <1>7, <1>8, <1>9, <1>10, <1>11, <1>12

\* The types of the fields.
LEMMA FieldTypes ==
    ASSUME NEW v \in Viewport3D
    PROVE  /\ {v.mono, v.outline, v.oneHue, v.clipbox} \subseteq BOOLEAN
           /\ {v.haveControl, v.saveFlag, v.closing, v.redrawView} \subseteq BOOLEAN
           /\ {v.exposeView, v.follow, v.spadDraw, v.moved} \subseteq BOOLEAN
           /\ {v.redoSmooth, v.redoColor, v.redoDither, v.movingLight} \subseteq BOOLEAN
           /\ {v.changedIntensity, v.firstTime, v.finishedList, v.scanning} \subseteq BOOLEAN
           /\ {v.pixelSet, v.multiColor, v.shades, v.smoothError} \subseteq BOOLEAN
           /\ {v.viewmap, v.writeImage, v.unsorted, v.shown} \subseteq BOOLEAN
           /\ v.style \in Styles
           /\ v.panel \in Panels
           /\ v.mapped \in SUBSET PopUps
           /\ v.zoomOn \in {"all", "some", "none"}
           /\ v.quickList \in {"none", "live", "freed"}
           /\ v.scanList \in {"none", "live", "freed"}
           /\ v.light \in 0 .. 1
           /\ v.temp \in 0 .. 1
           /\ v.stale \in SUBSET Aspects
           /\ v.ps \in {"none", "picture", "part", "empty"}
           /\ v.strays \in SUBSET Excuses
           /\ v.fault \in Faults
BY DEF Viewport3D

-----------------------------------------------------------------------------
\* Groups of fields that a step leaves alone.
SameScene(w, v) ==
    /\ w.style = v.style /\ w.mono = v.mono /\ w.oneHue = v.oneHue
    /\ w.panel = v.panel /\ w.mapped = v.mapped /\ w.shades = v.shades
    /\ w.light = v.light /\ w.temp = v.temp
    /\ w.changedIntensity = v.changedIntensity
    /\ w.writeImage = v.writeImage

SameFlags(w, v) ==
    /\ w.moved = v.moved /\ w.redoSmooth = v.redoSmooth
    /\ w.movingLight = v.movingLight /\ w.firstTime = v.firstTime
    /\ w.finishedList = v.finishedList /\ w.scanning = v.scanning

SameColour(w, v) ==
    /\ w.redoColor = v.redoColor /\ w.redoDither = v.redoDither
    /\ w.pixelSet = v.pixelSet /\ w.smoothError = v.smoothError

SameLists(w, v) == w.quickList = v.quickList /\ w.scanList = v.scanList

SamePicture(w, v) ==
    /\ w.viewmap = v.viewmap /\ w.stale = v.stale /\ w.unsorted = v.unsorted
    /\ w.shown = v.shown /\ w.ps = v.ps

\* The fault is the one there was, or f if c holds.
FaultIf(w, v, f, c) == w.fault = v.fault \/ (v.fault = "no" /\ w.fault = f /\ c)

\* What two steps leave alone, both together leave alone.
LEMMA SameTransitive ==
    ASSUME NEW u, NEW v, NEW w
    PROVE  /\ SameScene(w, u) /\ SameScene(u, v) => SameScene(w, v)
           /\ SameFlags(w, u) /\ SameFlags(u, v) => SameFlags(w, v)
           /\ SameColour(w, u) /\ SameColour(u, v) => SameColour(w, v)
           /\ SameLists(w, u) /\ SameLists(u, v) => SameLists(w, v)
           /\ SamePicture(w, u) /\ SamePicture(u, v) => SamePicture(w, v)
BY DEF SameScene, SameFlags, SameColour, SameLists, SamePicture

\* What stays as it is.
LEMMA SameReflexive ==
    ASSUME NEW v
    PROVE  /\ SameScene(v, v) /\ SameFlags(v, v) /\ SameColour(v, v)
           /\ SameLists(v, v) /\ SamePicture(v, v)
BY DEF SameScene, SameFlags, SameColour, SameLists, SamePicture

\* A fault changes nothing but that there is one; the first one counts.
LEMMA FaultFacts ==
    ASSUME NEW v \in Viewport3D, NEW f \in Faults
    PROVE  LET w == Fault(v, f)
           IN  /\ w \in Viewport3D
               /\ SameScene(w, v) /\ SameFlags(w, v) /\ SameColour(w, v)
               /\ SameLists(w, v) /\ SamePicture(w, v) /\ w.strays = v.strays
               /\ FaultIf(w, v, f, TRUE)
<1>1. Fault(v, f) \in Viewport3D
    BY DEF Fault, Viewport3D
<1>2. /\ SameScene(Fault(v, f), v) /\ SameFlags(Fault(v, f), v)
      /\ SameColour(Fault(v, f), v)
    BY DEF Fault, Viewport3D, SameScene, SameFlags, SameColour
<1>3. /\ SameLists(Fault(v, f), v) /\ SamePicture(Fault(v, f), v)
      /\ Fault(v, f).strays = v.strays /\ FaultIf(Fault(v, f), v, f, TRUE)
    BY DEF Fault, Viewport3D, SameLists, SamePicture, FaultIf
<1> QED BY <1>1, <1>2, <1>3

\* An excuse that is noted changes nothing else.
LEMMA StrayFacts ==
    ASSUME NEW v \in Viewport3D, NEW x \in Excuses
    PROVE  LET w == Stray(v, x)
           IN  /\ w \in Viewport3D
               /\ SameScene(w, v) /\ SameFlags(w, v) /\ SameColour(w, v)
               /\ SameLists(w, v) /\ SamePicture(w, v)
               /\ w.strays = v.strays \union {x} /\ w.fault = v.fault
<1>1. Stray(v, x) \in Viewport3D
    BY DEF Stray, Viewport3D
<1>2. /\ SameScene(Stray(v, x), v) /\ SameFlags(Stray(v, x), v)
      /\ SameColour(Stray(v, x), v)
    BY DEF Stray, Viewport3D, SameScene, SameFlags, SameColour
<1>3. /\ SameLists(Stray(v, x), v) /\ SamePicture(Stray(v, x), v)
      /\ Stray(v, x).strays = v.strays \union {x} /\ Stray(v, x).fault = v.fault
    BY DEF Stray, Viewport3D, SameLists, SamePicture
<1> QED BY <1>1, <1>2, <1>3

\* freeListOfPolygons frees both lists, and twice if they were freed.
LEMMA FreeFacts ==
    ASSUME NEW v \in Viewport3D
    PROVE  LET w == FreeListOfPolygons(v)
           IN  /\ w \in Viewport3D
               /\ SameScene(w, v) /\ SameFlags(w, v) /\ SameColour(w, v)
               /\ SamePicture(w, v) /\ w.strays = v.strays
               /\ FaultIf(w, v, "freed twice", v.quickList = "freed")
<1> DEFINE u == [v EXCEPT !.quickList = IF @ = "none" THEN "none" ELSE "freed",
                          !.scanList = IF @ = "none" THEN "none" ELSE "freed"]
<1>1. u \in Viewport3D /\ u.strays = v.strays /\ u.fault = v.fault
  <2> DEFINE q == IF v.quickList = "none" THEN "none" ELSE "freed"
             s == IF v.scanList = "none" THEN "none" ELSE "freed"
             u1 == [v EXCEPT !.quickList = q]
  <2>1. q \in {"none", "live", "freed"} /\ s \in {"none", "live", "freed"}
    OBVIOUS
  <2>2. u = [v EXCEPT !.quickList = q, !.scanList = s]
    BY DEF Viewport3D
  <2> HIDE DEF q, s, u
  <2>3. u \in Viewport3D
    <3>1. u1 \in Viewport3D
      BY <2>1 DEF Viewport3D
    <3>2. u = [u1 EXCEPT !.scanList = s]
      BY <2>2
    <3> HIDE DEF u1
    <3> QED BY <2>1, <3>1, <3>2 DEF Viewport3D
  <2> QED
    BY <2>2, <2>3 DEF Viewport3D
<1>2. SameScene(u, v) /\ SameFlags(u, v) /\ SameColour(u, v) /\ SamePicture(u, v)
    BY DEF Viewport3D, SameScene, SameFlags, SameColour, SamePicture
<1>3. CASE v.quickList = "freed"
  <2>1. FreeListOfPolygons(v) = Fault(u, "freed twice")
    BY <1>3 DEF FreeListOfPolygons
  <2> DEFINE w == Fault(u, "freed twice")
  <2> HIDE DEF u
  <2>2. /\ w \in Viewport3D /\ SameScene(w, u) /\ SameFlags(w, u)
        /\ SameColour(w, u) /\ SamePicture(w, u) /\ w.strays = u.strays
        /\ FaultIf(w, u, "freed twice", TRUE)
    BY <1>1, FaultFacts DEF Faults
  <2> HIDE DEF w
  <2>3. SameScene(w, v) /\ SameFlags(w, v) /\ SameColour(w, v) /\ SamePicture(w, v)
    BY <1>2, <2>2, SameTransitive
  <2> QED
    BY <1>1, <1>3, <2>1, <2>2, <2>3 DEF FaultIf, w
<1>4. CASE v.quickList # "freed"
  <2>1. FreeListOfPolygons(v) = u
    BY <1>4 DEF FreeListOfPolygons
  <2> HIDE DEF u
  <2> QED BY <1>1, <1>2, <2>1 DEF FaultIf
<1> QED BY <1>3, <1>4

\* copyPolygons makes quickList anew.
LEMMA CopyFacts ==
    ASSUME NEW v \in Viewport3D
    PROVE  LET w == CopyPolygons(v)
           IN  /\ w \in Viewport3D
               /\ SameScene(w, v) /\ SameFlags(w, v) /\ SameColour(w, v)
               /\ SamePicture(w, v) /\ w.strays = v.strays /\ w.fault = v.fault
               /\ w.quickList = "live" /\ w.scanList = v.scanList
<1>1. CopyPolygons(v) \in Viewport3D
    BY DEF CopyPolygons, Viewport3D
<1>2. /\ SameScene(CopyPolygons(v), v) /\ SameFlags(CopyPolygons(v), v)
      /\ SameColour(CopyPolygons(v), v)
    BY DEF CopyPolygons, Viewport3D, SameScene, SameFlags, SameColour
<1>3. /\ SamePicture(CopyPolygons(v), v) /\ CopyPolygons(v).strays = v.strays
      /\ CopyPolygons(v).fault = v.fault /\ CopyPolygons(v).quickList = "live"
      /\ CopyPolygons(v).scanList = v.scanList
    BY DEF CopyPolygons, Viewport3D, SamePicture
<1> QED BY <1>1, <1>2, <1>3

\* quickList is read, and changed in nothing.
LEMMA UseFacts ==
    ASSUME NEW v \in Viewport3D
    PROVE  LET w == UsesQuickList(v)
           IN  /\ w \in Viewport3D
               /\ SameScene(w, v) /\ SameFlags(w, v) /\ SameColour(w, v)
               /\ SameLists(w, v) /\ SamePicture(w, v) /\ w.strays = v.strays
               /\ FaultIf(w, v, "used after free", v.quickList = "freed")
<1>1. CASE v.quickList = "freed"
    BY <1>1, FaultFacts DEF UsesQuickList, FaultIf, Faults
<1>2. CASE v.quickList # "freed"
    BY <1>2 DEF UsesQuickList, FaultIf, SameScene, SameFlags, SameColour,
                SameLists, SamePicture
<1> QED BY <1>1, <1>2

\* XCopyArea shows the pixmap if there is one.
LEMMA CopyAreaFacts ==
    ASSUME NEW v \in Viewport3D
    PROVE  LET w == XCopyArea(v)
           IN  /\ w \in Viewport3D
               /\ SameScene(w, v) /\ SameFlags(w, v) /\ SameColour(w, v)
               /\ SameLists(w, v) /\ SamePicture(w, v) /\ w.strays = v.strays
               /\ FaultIf(w, v, "bad drawable", ~v.viewmap)
               /\ ~v.viewmap => w.fault # "no"
<1>1. CASE ~v.viewmap
  <2>1. XCopyArea(v) = Fault(v, "bad drawable")
    BY <1>1 DEF XCopyArea
  <2>2. Fault(v, "bad drawable").fault # "no"
    BY DEF Fault, Viewport3D
  <2>3. FaultIf(Fault(v, "bad drawable"), v, "bad drawable", ~v.viewmap)
    BY <1>1, FaultFacts DEF FaultIf, Faults
  <2>4. "bad drawable" \in Faults
    BY DEF Faults
  <2> QED
    BY <2>1, <2>2, <2>3, <2>4, FaultFacts
<1>2. CASE v.viewmap
    BY <1>2 DEF XCopyArea, FaultIf, SameScene, SameFlags, SameColour,
                SameLists, SamePicture
<1> QED BY <1>1, <1>2

\* Shades that are asked for are allocated before they are drawn with.
LEMMA ColourMapFacts ==
    ASSUME NEW v \in Viewport3D, ShadesGood(v)
    PROVE  LET w == ChangeColorMap(v)
           IN  /\ w \in Viewport3D /\ ShadesGood(w)
               /\ SameScene(w, v) /\ SameFlags(w, v)
               /\ SameLists(w, v) /\ SamePicture(w, v) /\ w.strays = v.strays
               /\ FaultIf(w, v, "used after free", v.quickList = "freed")
               /\ OneHue(w) /\ ~w.pixelSet =>
                    ~w.shades \/ "reset from BW" \in w.strays
<1>1. CASE OneHue(v) /\ ~v.redoColor
  <2>1. ChangeColorMap(v) = v
    BY <1>1 DEF ChangeColorMap
  <2>2. v.pixelSet \/ ~v.shades \/ "reset from BW" \in v.strays
    BY <1>1 DEF OneHue, ShadesGood
  <2> QED
    BY <2>1, <2>2, SameReflexive DEF FaultIf
<1>2. CASE OneHue(v) /\ v.redoColor
  <2> DEFINE w == [v EXCEPT !.redoColor = FALSE, !.pixelSet = v.shades,
                            !.smoothError = ~v.shades]
  <2>1. ChangeColorMap(v) = w
    BY <1>2 DEF ChangeColorMap
  <2>2. w \in Viewport3D /\ SameScene(w, v) /\ SameFlags(w, v)
    <3>1. w \in Viewport3D
      <4> DEFINE none == ~v.shades
      <4>1. v.shades \in BOOLEAN /\ none \in BOOLEAN
        BY DEF Viewport3D
      <4> HIDE DEF none
      <4> DEFINE y1 == [v EXCEPT !.redoColor = FALSE]
                 y2 == [y1 EXCEPT !.pixelSet = v.shades]
      <4>2. y1 \in Viewport3D
        BY FlagUpdates
      <4> HIDE DEF y1
      <4>3. y2 \in Viewport3D
        BY <4>1, <4>2, FlagUpdates
      <4> HIDE DEF y2
      <4>4. [y2 EXCEPT !.smoothError = none] \in Viewport3D
        BY <4>1, <4>3, FlagUpdates
      <4> QED BY <4>4 DEF none, y1, y2
    <3>2. SameScene(w, v)
      BY DEF Viewport3D, SameScene
    <3>3. SameFlags(w, v)
      BY DEF Viewport3D, SameFlags
    <3> QED BY <3>1, <3>2, <3>3
  <2>3. /\ SameLists(w, v) /\ SamePicture(w, v) /\ w.strays = v.strays
        /\ w.fault = v.fault /\ w.pixelSet = v.shades
    BY DEF Viewport3D, SameLists, SamePicture
  <2> HIDE DEF w
  <2> QED
    BY <1>2, <2>1, <2>2, <2>3 DEF OneHue, ShadesGood, SameScene, FaultIf
<1>3. CASE ~OneHue(v)
  <2> DEFINE u == IF v.pixelSet
                  THEN [v EXCEPT !.redoDither = FALSE, !.pixelSet = FALSE,
                                 !.redoColor = FALSE, !.multiColor = TRUE]
                  ELSE [v EXCEPT !.redoDither = FALSE]
  <2>1. ChangeColorMap(v) = IF v.mono THEN u ELSE UsesQuickList(u)
    BY <1>3 DEF ChangeColorMap
  <2>2. u \in Viewport3D /\ SameScene(u, v) /\ SameFlags(u, v)
    <3>1. u \in Viewport3D
      <4> DEFINE y1 == [v EXCEPT !.redoDither = FALSE]
                 y2 == [y1 EXCEPT !.pixelSet = FALSE]
                 y3 == [y2 EXCEPT !.redoColor = FALSE]
      <4>1. y1 \in Viewport3D
        BY FlagUpdates
      <4> HIDE DEF y1
      <4>2. y2 \in Viewport3D
        BY <4>1, FlagUpdates
      <4> HIDE DEF y2
      <4>3. y3 \in Viewport3D
        BY <4>2, FlagUpdates
      <4> HIDE DEF y3
      <4>4. [y3 EXCEPT !.multiColor = TRUE] \in Viewport3D
        BY <4>3, FlagUpdates
      <4> QED BY <4>1, <4>4 DEF y1, y2, y3
    <3>2. SameScene(u, v)
      BY DEF Viewport3D, SameScene
    <3>3. SameFlags(u, v)
      BY DEF Viewport3D, SameFlags
    <3> QED BY <3>1, <3>2, <3>3
  <2>3. /\ SameLists(u, v) /\ SamePicture(u, v) /\ u.strays = v.strays
        /\ u.fault = v.fault
    BY DEF Viewport3D, SameLists, SamePicture
  <2> HIDE DEF u
  <2>4. CASE v.mono
    BY <1>3, <2>1, <2>2, <2>3, <2>4
       DEF OneHue, ShadesGood, SameScene, FaultIf
  <2>5. CASE ~v.mono
    <3> DEFINE w == UsesQuickList(u)
    <3>1. /\ w \in Viewport3D /\ SameScene(w, u) /\ SameFlags(w, u)
          /\ SameLists(w, u) /\ SamePicture(w, u) /\ w.strays = u.strays
          /\ FaultIf(w, u, "used after free", u.quickList = "freed")
      BY <2>2, UseFacts
    <3> HIDE DEF w
    <3>2. /\ SameScene(w, v) /\ SameFlags(w, v) /\ SameLists(w, v)
          /\ SamePicture(w, v)
      BY <2>2, <2>3, <3>1, SameTransitive
    <3>3. w.strays = v.strays /\ FaultIf(w, v, "used after free", v.quickList = "freed")
      BY <2>3, <3>1 DEF FaultIf, SameLists
    <3>4. ~OneHue(w) /\ ShadesGood(w)
      BY <1>3, <3>2 DEF OneHue, ShadesGood, SameScene
    <3> QED BY <2>1, <2>5, <3>1, <3>2, <3>3, <3>4 DEF w
  <2> QED BY <2>4, <2>5 DEF Viewport3D
<1> QED BY <1>1, <1>2, <1>3

\* scanPhong needs the shades and scanList.
LEMMA PhongFacts ==
    ASSUME NEW v \in Viewport3D
    PROVE  LET w == ScanPhong(v)
           IN  /\ w \in Viewport3D
               /\ SameScene(w, v) /\ SameFlags(w, v) /\ SameColour(w, v)
               /\ SameLists(w, v) /\ SamePicture(w, v) /\ w.strays = v.strays
               /\ \/ FaultIf(w, v, "no such shade", OneHue(v) /\ ~v.pixelSet)
                  \/ FaultIf(w, v, "used after free", v.scanList = "freed")
<1> DEFINE u == IF OneHue(v) /\ ~v.smoothError /\ ~v.pixelSet
                THEN Fault(v, "no such shade") ELSE v
<1>1. /\ u \in Viewport3D
      /\ SameScene(u, v) /\ SameFlags(u, v) /\ SameColour(u, v)
      /\ SameLists(u, v) /\ SamePicture(u, v) /\ u.strays = v.strays
      /\ FaultIf(u, v, "no such shade", OneHue(v) /\ ~v.pixelSet)
  <2>1. CASE OneHue(v) /\ ~v.smoothError /\ ~v.pixelSet
    BY <2>1, FaultFacts DEF FaultIf, Faults
  <2>2. CASE ~(OneHue(v) /\ ~v.smoothError /\ ~v.pixelSet)
    BY <2>2 DEF FaultIf, SameScene, SameFlags, SameColour, SameLists, SamePicture
  <2> QED BY <2>1, <2>2
<1>2. ScanPhong(v) = IF v.scanList = "freed" THEN Fault(u, "used after free") ELSE u
    BY <1>1 DEF ScanPhong, SameLists
<1> HIDE DEF u
<1>3. CASE v.scanList = "freed"
  <2> DEFINE w == Fault(u, "used after free")
  <2>1. /\ w \in Viewport3D
        /\ SameScene(w, u) /\ SameFlags(w, u) /\ SameColour(w, u)
        /\ SameLists(w, u) /\ SamePicture(w, u) /\ w.strays = u.strays
        /\ FaultIf(w, u, "used after free", TRUE)
    BY <1>1, FaultFacts DEF Faults
  <2> HIDE DEF w
  <2>2. /\ SameScene(w, v) /\ SameFlags(w, v) /\ SameColour(w, v)
        /\ SameLists(w, v) /\ SamePicture(w, v)
    BY <1>1, <2>1, SameTransitive
  <2>3. \/ FaultIf(w, v, "no such shade", OneHue(v) /\ ~v.pixelSet)
        \/ FaultIf(w, v, "used after free", v.scanList = "freed")
    <3>1. /\ w.fault = u.fault \/ (u.fault = "no" /\ w.fault = "used after free")
          /\ \/ u.fault = v.fault
             \/ v.fault = "no" /\ u.fault = "no such shade" /\ OneHue(v) /\ ~v.pixelSet
      BY <1>1, <2>1, Zenon DEF FaultIf
    <3>2. CASE u.fault = v.fault
      BY <1>3, <3>1, <3>2 DEF FaultIf
    <3>3. CASE v.fault = "no" /\ u.fault = "no such shade" /\ OneHue(v) /\ ~v.pixelSet
      <4>1. w.fault = "no such shade"
        BY <3>1, <3>3
      <4> QED BY <3>3, <4>1, Zenon DEF FaultIf
    <3> QED BY <3>1, <3>2, <3>3
  <2> QED BY <1>1, <1>2, <1>3, <2>1, <2>2, <2>3 DEF w
<1>4. CASE v.scanList # "freed"
    BY <1>1, <1>2, <1>4
<1> QED BY <1>3, <1>4

-----------------------------------------------------------------------------
\* Excuses that are never taken back.
Lasting == {"torn", "unseen", "reset from BW", "unarmed", "writeView"}

\* What becomes of the excuses: they go only if nothing is stale any more.
ExcusesKept(w, v) ==
    /\ v.strays \intersect Lasting \subseteq w.strays
    /\ w.stale # {} \/ w.scanList # "live" => v.strays \subseteq w.strays
    /\ "light" \in v.strays /\ v.light # v.temp => "light" \in w.strays

\* Excuses that all stay are kept.
LEMMA ExcusesStay ==
    ASSUME NEW v, NEW w, v.strays \subseteq w.strays
    PROVE  ExcusesKept(w, v)
BY DEF ExcusesKept

\* What scanLines makes of a picture.
Scanned(w, v, stop, option, fresh) ==
    /\ SameScene(w, v) /\ SameColour(w, v) /\ SameLists(w, v)
    /\ w.moved = v.moved /\ w.redoSmooth = v.redoSmooth
    /\ w.movingLight = v.movingLight /\ w.firstTime = v.firstTime
    /\ w.finishedList = v.finishedList /\ w.unsorted = v.unsorted
    /\ w.scanning = (stop # "done")
    /\ w.viewmap = (v.viewmap \/ option = "X")
    /\ w.stale = IF option = "PS" THEN v.stale
                 ELSE IF stop = "done" THEN v.stale \ fresh ELSE Aspects
    /\ w.shown = (stop = "done")
    /\ w.ps = "empty" => v.ps = "empty"
    /\ ExcusesKept(w, v)
    /\ option = "PS" /\ w.stale # {} => "printed" \in w.strays

\* scanLines makes the pixmap, and excuses go only if all is fresh.
LEMMA ScanFacts ==
    ASSUME NEW v \in Viewport3D, NEW stop, NEW option \in {"X", "PS"},
           NEW fresh \in SUBSET Aspects
    PROVE  LET w == ScanLines(v, stop, option, fresh)
           IN  /\ w \in Viewport3D /\ Scanned(w, v, stop, option, fresh)
               /\ \/ FaultIf(w, v, "no such shade", OneHue(v) /\ ~v.pixelSet)
                  \/ FaultIf(w, v, "used after free", v.scanList = "freed")
<1> DEFINE scanning == stop # "done"
           viewmap == v.viewmap \/ option = "X"
           left == IF option = "PS" THEN v.stale
                   ELSE IF stop = "done" THEN v.stale \ fresh ELSE Aspects
           strays == IF left = {} /\ v.scanList = "live"
                     THEN v.strays \ ({"stopped", "volume", "command", "axes", "printed"}
                                        \union IF v.light = v.temp THEN {"light"} ELSE {})
                     ELSE IF option = "PS" THEN v.strays \union {"printed"} ELSE v.strays
           shown == stop = "done"
           ps == IF option = "X" THEN v.ps
                 ELSE IF stop = "done" THEN "picture" ELSE "part"
           u1 == [v EXCEPT !.scanning = scanning]
           u2 == [u1 EXCEPT !.viewmap = viewmap]
           u3 == [u2 EXCEPT !.stale = left]
           u4 == [u3 EXCEPT !.strays = strays]
           u5 == [u4 EXCEPT !.shown = shown]
           u == [u5 EXCEPT !.ps = ps]
<1>1. /\ {scanning, viewmap, shown} \subseteq BOOLEAN
      /\ left \in SUBSET Aspects
      /\ strays \in SUBSET Excuses
      /\ ps \in {"none", "picture", "part", "empty"}
  <2>1. {scanning, viewmap, shown} \subseteq BOOLEAN
    OBVIOUS
  <2>2. left \in SUBSET Aspects
    BY FieldTypes
  <2>3. strays \in SUBSET Excuses
    <3> HIDE DEF left
    <3> QED BY FieldTypes DEF Excuses
  <2>4. ps \in {"none", "picture", "part", "empty"}
    BY FieldTypes
  <2> QED BY <2>1, <2>2, <2>3, <2>4
<1>2. ScanLines(v, stop, option, fresh) = ScanPhong(u)
  <2> HIDE DEF left
  <2>1. u = [v EXCEPT !.scanning = scanning, !.viewmap = viewmap, !.stale = left,
                      !.strays = strays, !.shown = shown, !.ps = ps]
    BY Zenon
  <2>2. u = [v EXCEPT
         !.scanning = stop # "done",
         !.viewmap = @ \/ option = "X",
         !.stale = left,
         !.strays = IF left = {} /\ v.scanList = "live"
                    THEN @ \ ({"stopped", "volume", "command", "axes", "printed"}
                              \union IF v.light = v.temp THEN {"light"} ELSE {})
                    ELSE IF option = "PS" THEN @ \union {"printed"} ELSE @,
         !.shown = stop = "done",
         !.ps = IF option = "X" THEN @
                ELSE IF stop = "done" THEN "picture" ELSE "part"]
    BY <2>1 DEF Viewport3D
  <2> QED BY <2>2 DEF ScanLines, left
<1>3. u \in Viewport3D
  <2> HIDE DEF scanning, viewmap, left, strays, shown, ps
  <2>1. u1 \in Viewport3D
    BY <1>1, FlagUpdates
  <2> HIDE DEF u1
  <2>2. u2 \in Viewport3D
    BY <1>1, <2>1, FlagUpdates
  <2> HIDE DEF u2
  <2>3. u3 \in Viewport3D
    BY <1>1, <2>2, OtherUpdates
  <2> HIDE DEF u3
  <2>4. u4 \in Viewport3D
    BY <1>1, <2>3, OtherUpdates
  <2> HIDE DEF u4
  <2>5. u5 \in Viewport3D
    BY <1>1, <2>4, FlagUpdates
  <2> HIDE DEF u5
  <2> QED
    BY <1>1, <2>5, OtherUpdates
<1>4. /\ SameScene(u, v) /\ SameColour(u, v) /\ SameLists(u, v)
      /\ u.moved = v.moved /\ u.redoSmooth = v.redoSmooth
      /\ u.movingLight = v.movingLight /\ u.firstTime = v.firstTime
      /\ u.finishedList = v.finishedList /\ u.unsorted = v.unsorted
      /\ u.scanning = scanning /\ u.viewmap = viewmap /\ u.stale = left
      /\ u.strays = strays /\ u.shown = shown /\ u.ps = ps /\ u.fault = v.fault
  <2> HIDE DEF scanning, viewmap, left, strays, shown, ps
  <2>1. SameScene(u, v)
    BY DEF SameScene, Viewport3D
  <2>2. SameColour(u, v) /\ SameLists(u, v)
    BY DEF SameColour, SameLists, Viewport3D
  <2>3. /\ u.moved = v.moved /\ u.redoSmooth = v.redoSmooth
        /\ u.movingLight = v.movingLight /\ u.firstTime = v.firstTime
        /\ u.finishedList = v.finishedList /\ u.unsorted = v.unsorted
    BY DEF Viewport3D
  <2>4. /\ u.scanning = scanning /\ u.viewmap = viewmap /\ u.stale = left
        /\ u.strays = strays /\ u.shown = shown /\ u.ps = ps /\ u.fault = v.fault
    BY DEF Viewport3D
  <2> QED BY <2>1, <2>2, <2>3, <2>4
<1>5. /\ ExcusesKept(u, v)
      /\ option = "PS" /\ left # {} => "printed" \in strays
  <2> HIDE DEF left, u
  <2>1. v.strays \intersect Lasting \subseteq strays
    BY DEF Lasting
  <2>2. left # {} \/ v.scanList # "live" => v.strays \subseteq strays
    OBVIOUS
  <2>3. "light" \in v.strays /\ v.light # v.temp => "light" \in strays
    OBVIOUS
  <2>4. option = "PS" /\ left # {} => "printed" \in strays
    OBVIOUS
  <2> HIDE DEF strays
  <2> QED BY <1>4, <2>1, <2>2, <2>3, <2>4 DEF ExcusesKept, SameLists
<1>6. u.ps = "empty" => v.ps = "empty"
  <2> HIDE DEF u
  <2> QED BY <1>4
<1>7. Scanned(u, v, stop, option, fresh)
  <2> HIDE DEF u, strays
  <2> QED BY <1>4, <1>5, <1>6 DEF Scanned
<1>8. /\ ScanPhong(u) \in Viewport3D
      /\ SameScene(ScanPhong(u), u) /\ SameFlags(ScanPhong(u), u)
      /\ SameColour(ScanPhong(u), u) /\ SameLists(ScanPhong(u), u)
      /\ SamePicture(ScanPhong(u), u) /\ ScanPhong(u).strays = u.strays
      /\ \/ FaultIf(ScanPhong(u), u, "no such shade", OneHue(u) /\ ~u.pixelSet)
         \/ FaultIf(ScanPhong(u), u, "used after free", u.scanList = "freed")
  <2> HIDE DEF u
  <2> QED BY <1>3, PhongFacts
<1> HIDE DEF u, strays, left
<1> DEFINE w == ScanPhong(u)
<1> HIDE DEF w
<1>9. Scanned(w, v, stop, option, fresh)
  <2>1. SameScene(w, v) /\ SameColour(w, v) /\ SameLists(w, v)
    BY <1>4, <1>8, SameTransitive DEF w
  <2>2. ExcusesKept(w, v)
    BY <1>5, <1>8 DEF w, ExcusesKept, SameLists, SamePicture
  <2> QED BY <1>7, <1>8, <2>1, <2>2 DEF Scanned, w, SameFlags, SamePicture
<1>10. \/ FaultIf(w, v, "no such shade", OneHue(v) /\ ~v.pixelSet)
       \/ FaultIf(w, v, "used after free", v.scanList = "freed")
  <2>1. OneHue(u) = OneHue(v) /\ u.pixelSet = v.pixelSet /\ u.scanList = v.scanList
        /\ u.fault = v.fault
    BY <1>4 DEF OneHue, SameScene, SameColour, SameLists
  <2> QED BY <1>8, <2>1, Zenon DEF w, FaultIf
<1> QED BY <1>2, <1>8, <1>9, <1>10 DEF w

-----------------------------------------------------------------------------
\* Drawings of a smooth surface.
Torn(v) == v.fault \in {"freed twice", "used after free"} => "torn" \in v.strays

ShadeFault(v) ==
    v.fault = "no such shade" => "reset from BW" \in v.strays \/ ~v.shades

\* What making the picture anew needs.
Redoable(v) ==
    /\ v \in Viewport3D /\ ShadesGood(v) /\ Torn(v) /\ ShadeFault(v)
    /\ v.quickList = "freed" => "torn" \in v.strays
    /\ v.unsorted => "view" \in v.stale
    /\ v.viewmap \/ v.stale = Aspects

\* And what it gives.
Redrawn(w, v, option) ==
    /\ w \in Viewport3D /\ ShadesGood(w) /\ Torn(w) /\ ShadeFault(w)
    /\ SameScene(w, v) /\ w.movingLight = v.movingLight
    /\ ExcusesKept(w, v)
    /\ w.quickList = "freed" => "torn" \in w.strays
    /\ w.scanList = "freed" => {"torn", "stopped"} \intersect w.strays # {}
    /\ w.unsorted => "view" \in w.stale /\ "stopped" \in w.strays
    /\ w.viewmap \/ w.stale = Aspects
    /\ v.viewmap => w.viewmap
    /\ w.viewmap \/ "stopped" \in w.strays \/ (w.fault # "no" /\ option = "PS")
    /\ w.stale = {} \/ w.scanning \/ Excused(w)
    /\ w.shown /\ w.fault = "no" => w.stale = {} \/ Excused(w)
    /\ w.fault = "bad drawable" =>
         v.fault = "bad drawable" \/ (~w.viewmap /\ option = "PS")
    /\ w.ps = "empty" => v.ps = "empty"

\* The drawing that stops before or after the lists are made.
LEMMA StoppedRedo ==
    ASSUME NEW v, Redoable(v), NEW option \in {"X", "PS"},
           NEW d \in Viewport3D, SameScene(d, v), SameFlags(d, v), SameColour(d, v),
           SamePicture(d, v), FaultIf(d, v, "freed twice", v.quickList = "freed"),
           v.strays \subseteq d.strays, "stopped" \in d.strays,
           d.quickList = "freed" => "torn" \in d.strays
    PROVE  Redrawn(d, v, option)
<1>1. ShadesGood(d) /\ ExcusesKept(d, v)
    BY ExcusesStay DEF Redoable, ShadesGood, SameScene, SameColour
<1>2. Torn(d) /\ ShadeFault(d)
    BY DEF Redoable, Torn, ShadeFault, FaultIf, SameScene
<1>3. d.movingLight = v.movingLight
    BY DEF SameFlags
<1>4. /\ d.unsorted => "view" \in d.stale
      /\ d.viewmap \/ d.stale = Aspects
      /\ v.viewmap => d.viewmap
      /\ d.ps = "empty" => v.ps = "empty"
    BY DEF Redoable, SamePicture
<1>5. d.fault = "bad drawable" => v.fault = "bad drawable"
    BY DEF FaultIf
<1>6. Excused(d)
    BY DEF Excused
<1> QED BY <1>1, <1>2, <1>3, <1>4, <1>5, <1>6 DEF Redrawn

\* What drawPhong does to the old list.
FreedUnless(v, kept) == IF kept THEN v ELSE FreeListOfPolygons(v)

\* The list of the picture before is freed unless its scan was stopped.
LEMMA FreedFacts ==
    ASSUME NEW v, Redoable(v), NEW kept \in BOOLEAN
    PROVE  LET w == FreedUnless(v, kept)
           IN  /\ w \in Viewport3D
               /\ SameScene(w, v) /\ SameFlags(w, v) /\ SameColour(w, v)
               /\ SamePicture(w, v) /\ w.strays = v.strays
               /\ FaultIf(w, v, "freed twice", v.quickList = "freed")
<1>1. CASE kept
    BY <1>1, SameReflexive DEF FreedUnless, Redoable, FaultIf
<1>2. CASE ~kept
    BY <1>2, FreeFacts DEF FreedUnless, Redoable
<1> QED BY <1>1, <1>2

\* The lists that were made are scanned and the picture is shown.
LEMMA ScannedRedo ==
    ASSUME NEW v, Redoable(v), NEW option \in {"X", "PS"},
           NEW stop \in {"scan", "done"}, NEW made \in Viewport3D, ShadesGood(made),
           SameScene(made, v), SameFlags(made, v), SamePicture(made, v),
           made.strays = v.strays, made.quickList = "live", made.scanList = "live",
           Torn(made), ShadeFault(made),
           made.fault = "bad drawable" => v.fault = "bad drawable",
           OneHue(made) /\ ~made.pixelSet =>
             ~made.shades \/ "reset from BW" \in made.strays
    PROVE  Redrawn([XCopyArea(ScanLines(made, stop, option, Aspects))
                      EXCEPT !.unsorted = FALSE], v, option)
<1> DEFINE s == ScanLines(made, stop, option, Aspects)
           x == XCopyArea(s)
           w == [x EXCEPT !.unsorted = FALSE]
<1>1. /\ s \in Viewport3D /\ Scanned(s, made, stop, option, Aspects)
      /\ \/ FaultIf(s, made, "no such shade", OneHue(made) /\ ~made.pixelSet)
         \/ FaultIf(s, made, "used after free", made.scanList = "freed")
    BY ScanFacts
<1> HIDE DEF s
<1>2. /\ x \in Viewport3D
      /\ SameScene(x, s) /\ SameFlags(x, s) /\ SameColour(x, s)
      /\ SameLists(x, s) /\ SamePicture(x, s) /\ x.strays = s.strays
      /\ FaultIf(x, s, "bad drawable", ~s.viewmap)
      /\ ~s.viewmap => x.fault # "no"
    BY <1>1, CopyAreaFacts
<1> HIDE DEF x
<1>3. /\ w \in Viewport3D /\ w.unsorted = FALSE
      /\ w.strays = x.strays /\ w.fault = x.fault /\ w.viewmap = x.viewmap
      /\ w.stale = x.stale /\ w.shown = x.shown /\ w.ps = x.ps
  <2>1. w \in Viewport3D
    BY <1>2, FlagUpdates
  <2> QED BY <1>2, <2>1 DEF Viewport3D
<1>4. SameScene(w, x) /\ SameFlags(w, x) /\ SameColour(w, x) /\ SameLists(w, x)
  <2>1. SameScene(w, x) /\ SameFlags(w, x)
    <3>1. SameScene(w, x)
      BY <1>2 DEF SameScene, Viewport3D
    <3>2. SameFlags(w, x)
      BY <1>2 DEF SameFlags, Viewport3D
    <3> QED BY <3>1, <3>2
  <2>2. SameColour(w, x) /\ SameLists(w, x)
    BY <1>2 DEF SameColour, SameLists, Viewport3D
  <2> QED BY <2>1, <2>2
<1> HIDE DEF w
<1>5. SameScene(w, made) /\ SameScene(w, v)
    BY <1>1, <1>2, <1>4, SameTransitive DEF Scanned
<1>6. /\ SameColour(w, made)
      /\ w.quickList = "live" /\ w.scanList = "live"
      /\ w.movingLight = v.movingLight
  <2>1. SameColour(w, made) /\ SameLists(w, made)
    BY <1>1, <1>2, <1>4, SameTransitive DEF Scanned
  <2>2. w.movingLight = s.movingLight /\ s.movingLight = made.movingLight
    BY <1>1, <1>2, <1>4 DEF Scanned, SameFlags
  <2> QED BY <2>1, <2>2 DEF SameLists, SameFlags
<1>7. /\ w.scanning = (stop # "done")
      /\ w.viewmap = (v.viewmap \/ option = "X")
      /\ w.stale = IF option = "PS" THEN v.stale
                   ELSE IF stop = "done" THEN {} ELSE Aspects
      /\ w.ps = "empty" => v.ps = "empty"
      /\ option = "PS" /\ w.stale # {} => "printed" \in w.strays
  <2>1. /\ w.scanning = s.scanning /\ w.viewmap = s.viewmap /\ w.stale = s.stale
        /\ w.ps = s.ps /\ w.strays = s.strays
    BY <1>2, <1>3, <1>4 DEF SameFlags, SamePicture
  <2>2. made.viewmap = v.viewmap /\ made.stale = v.stale /\ made.ps = v.ps
    BY DEF SamePicture
  <2>3. v.stale \ Aspects = {}
    BY FieldTypes DEF Redoable
  <2> QED BY <1>1, <2>1, <2>2, <2>3 DEF Scanned
<1>8. ExcusesKept(w, v)
  <2>1. ExcusesKept(s, made)
    BY <1>1 DEF Scanned
  <2>2. made.light = v.light /\ made.temp = v.temp
    BY DEF SameScene
  <2>3. s.strays = w.strays /\ s.stale = w.stale /\ s.scanList = w.scanList
    BY <1>2, <1>3, <1>4 DEF SamePicture, SameLists
  <2> QED BY <2>1, <2>2, <2>3 DEF ExcusesKept
<1>9. Torn(w) /\ ShadeFault(w) /\ (w.fault = "bad drawable" =>
         v.fault = "bad drawable" \/ (~w.viewmap /\ option = "PS"))
  <2>1. "torn" \in v.strays => "torn" \in w.strays
    BY <1>8 DEF ExcusesKept, Lasting
  <2>2. "reset from BW" \in v.strays => "reset from BW" \in w.strays
    BY <1>8 DEF ExcusesKept, Lasting
  <2>3. w.fault = s.fault \/ (w.fault = "bad drawable" /\ ~w.viewmap)
    BY <1>2, <1>3 DEF FaultIf, SamePicture
  <2>4. s.fault = made.fault \/ (s.fault = "no such shade" /\ OneHue(made) /\ ~made.pixelSet)
    BY <1>1, Zenon DEF FaultIf
  <2>5. made.shades = w.shades
    BY <1>5 DEF SameScene
  <2>6. ~w.viewmap => option = "PS"
    BY <1>7
  <2>7. Torn(w)
    BY <2>1, <2>3, <2>4 DEF Torn
  <2>8. ShadeFault(w)
    BY <2>2, <2>3, <2>4, <2>5 DEF ShadeFault
  <2>9. w.fault = "bad drawable" =>
          v.fault = "bad drawable" \/ (~w.viewmap /\ option = "PS")
    BY <2>3, <2>4, <2>6
  <2> QED BY <2>7, <2>8, <2>9
<1>10. ShadesGood(w)
  <2>1. "reset from BW" \in v.strays => "reset from BW" \in w.strays
    BY <1>8 DEF ExcusesKept, Lasting
  <2> QED BY <1>5, <1>6, <2>1 DEF ShadesGood, SameScene, SameColour
<1>11. /\ w.viewmap \/ w.stale = Aspects
       /\ w.viewmap \/ (w.fault # "no" /\ option = "PS")
  <2>1. w.viewmap \/ w.fault # "no"
    BY <1>2, <1>3 DEF SamePicture
  <2> QED BY <1>7, <2>1 DEF Redoable
<1>12. /\ w.stale = {} \/ w.scanning \/ Excused(w)
       /\ w.shown => w.stale = {} \/ Excused(w)
  <2>1. w.shown = (stop = "done")
    BY <1>1, <1>2, <1>3 DEF Scanned, SamePicture
  <2>2. option = "PS" => w.stale = {} \/ Excused(w)
    BY <1>7 DEF Excused
  <2> QED BY <1>7, <2>1, <2>2
<1>13. Redrawn(w, v, option)
    BY <1>3, <1>5, <1>6, <1>7, <1>8, <1>9, <1>10, <1>11, <1>12 DEF Redrawn
<1> QED BY <1>13 DEF w, x, s

\* RedoPhong before it sets finishedList and firstTime.
RedoDrawn(v, stop, option) ==
    LET free == FreedUnless(v, v.firstTime \/ v.scanning)
        made == [ChangeColorMap(CopyPolygons(free)) EXCEPT !.scanList = "live"]
    IN CASE stop = "start" -> Stray(v, "stopped")
         [] stop = "freed" -> Stray(Stray(free, "stopped"), "torn")
         [] stop = "collected" -> Stray(CopyPolygons(free), "stopped")
         [] stop \in {"scan", "done"} ->
              [XCopyArea(ScanLines(made, stop, option, Aspects)) EXCEPT !.unsorted = FALSE]

Stops == StopPoints \union {"done"}

\* The redo of drawPhong, stopped anywhere.
LEMMA RedoDrawnFacts ==
    ASSUME NEW v, Redoable(v), NEW option \in {"X", "PS"}, NEW stop \in Stops
    PROVE  Redrawn(RedoDrawn(v, stop, option), v, option)
<1> DEFINE free == FreedUnless(v, v.firstTime \/ v.scanning)
<1>1. /\ free \in Viewport3D
      /\ SameScene(free, v) /\ SameFlags(free, v) /\ SameColour(free, v)
      /\ SamePicture(free, v) /\ free.strays = v.strays
      /\ FaultIf(free, v, "freed twice", v.quickList = "freed")
  <2>1. (v.firstTime \/ v.scanning) \in BOOLEAN
    OBVIOUS
  <2> QED BY <2>1, FreedFacts
<1> DEFINE copied == CopyPolygons(free)
<1> HIDE DEF free
<1>2. /\ copied \in Viewport3D
      /\ SameScene(copied, free) /\ SameFlags(copied, free)
      /\ SameColour(copied, free) /\ SamePicture(copied, free)
      /\ copied.strays = free.strays /\ copied.fault = free.fault
      /\ copied.quickList = "live"
    BY <1>1, CopyFacts
<1> HIDE DEF copied
<1>3. /\ SameScene(copied, v) /\ SameFlags(copied, v) /\ SameColour(copied, v)
      /\ SamePicture(copied, v) /\ copied.strays = v.strays
      /\ FaultIf(copied, v, "freed twice", v.quickList = "freed")
    BY <1>1, <1>2, SameTransitive DEF FaultIf
<1> DEFINE d == RedoDrawn(v, stop, option)
<1>4. CASE stop = "start"
  <2>1. d = Stray(v, "stopped")
    BY <1>4 DEF RedoDrawn
  <2>2. /\ d \in Viewport3D /\ SameScene(d, v) /\ SameFlags(d, v) /\ SameColour(d, v)
        /\ SameLists(d, v) /\ SamePicture(d, v)
        /\ d.strays = v.strays \union {"stopped"} /\ d.fault = v.fault
    <3>1. v \in Viewport3D /\ "stopped" \in Excuses
      BY DEF Redoable, Excuses
    <3> HIDE DEF d
    <3> QED BY <2>1, <3>1, StrayFacts
  <2> HIDE DEF d
  <2>3. /\ FaultIf(d, v, "freed twice", v.quickList = "freed")
        /\ d.quickList = "freed" => "torn" \in d.strays
    BY <2>2 DEF Redoable, FaultIf, SameLists
  <2> QED BY <2>2, <2>3, StoppedRedo DEF d
<1>5. CASE stop = "freed"
  <2> DEFINE e == Stray(free, "stopped")
  <2>1. d = Stray(e, "torn")
    BY <1>5 DEF RedoDrawn, free
  <2>2. /\ e \in Viewport3D
        /\ SameScene(e, free) /\ SameFlags(e, free) /\ SameColour(e, free)
        /\ SamePicture(e, free)
        /\ e.strays = free.strays \union {"stopped"} /\ e.fault = free.fault
    BY <1>1, StrayFacts DEF Excuses
  <2> HIDE DEF e
  <2>3. /\ d \in Viewport3D /\ SameScene(d, e) /\ SameFlags(d, e) /\ SameColour(d, e)
        /\ SamePicture(d, e)
        /\ d.strays = e.strays \union {"torn"} /\ d.fault = e.fault
    BY <2>1, <2>2, StrayFacts DEF Excuses
  <2> HIDE DEF d
  <2>4. /\ SameScene(d, v) /\ SameFlags(d, v) /\ SameColour(d, v) /\ SamePicture(d, v)
    BY <1>1, <2>2, <2>3, SameTransitive
  <2>5. FaultIf(d, v, "freed twice", v.quickList = "freed")
    BY <1>1, <2>2, <2>3 DEF FaultIf
  <2>6. v.strays \subseteq d.strays /\ "stopped" \in d.strays /\ "torn" \in d.strays
    BY <1>1, <2>2, <2>3
  <2> QED BY <2>3, <2>4, <2>5, <2>6, StoppedRedo DEF d
<1>6. CASE stop = "collected"
  <2>1. d = Stray(copied, "stopped")
    BY <1>6 DEF RedoDrawn, free, copied
  <2> HIDE DEF d
  <2>2. /\ d \in Viewport3D
        /\ SameScene(d, copied) /\ SameFlags(d, copied) /\ SameColour(d, copied)
        /\ SameLists(d, copied) /\ SamePicture(d, copied)
        /\ d.strays = copied.strays \union {"stopped"} /\ d.fault = copied.fault
    BY <1>2, <2>1, StrayFacts DEF Excuses
  <2>3. /\ SameScene(d, v) /\ SameFlags(d, v) /\ SameColour(d, v) /\ SamePicture(d, v)
    BY <1>3, <2>2, SameTransitive
  <2>4. /\ FaultIf(d, v, "freed twice", v.quickList = "freed")
        /\ v.strays \subseteq d.strays /\ "stopped" \in d.strays
        /\ d.quickList # "freed"
    BY <1>2, <1>3, <2>2 DEF FaultIf, SameLists
  <2> QED BY <2>2, <2>3, <2>4, StoppedRedo DEF d
<1>7. CASE stop \in {"scan", "done"}
  <2> DEFINE c == ChangeColorMap(copied)
             made == [c EXCEPT !.scanList = "live"]
  <2>1. d = [XCopyArea(ScanLines(made, stop, option, Aspects)) EXCEPT !.unsorted = FALSE]
    BY <1>7 DEF RedoDrawn, free, copied
  <2>2. ShadesGood(copied)
    BY <1>3 DEF Redoable, ShadesGood, SameScene, SameColour
  <2>3. /\ c \in Viewport3D /\ ShadesGood(c)
        /\ SameScene(c, copied) /\ SameFlags(c, copied)
        /\ SameLists(c, copied) /\ SamePicture(c, copied) /\ c.strays = copied.strays
        /\ FaultIf(c, copied, "used after free", copied.quickList = "freed")
        /\ OneHue(c) /\ ~c.pixelSet => ~c.shades \/ "reset from BW" \in c.strays
    BY <1>2, <2>2, ColourMapFacts
  <2> HIDE DEF c
  <2>4. /\ made \in Viewport3D /\ made.scanList = "live"
        /\ made.quickList = c.quickList /\ made.strays = c.strays
        /\ made.fault = c.fault /\ made.pixelSet = c.pixelSet
        /\ made.redoColor = c.redoColor
    <3>1. made \in Viewport3D
      BY <2>3, OtherUpdates
    <3> QED BY <2>3, <3>1 DEF Viewport3D
  <2>5. SameScene(made, c) /\ SameFlags(made, c) /\ SamePicture(made, c)
    <3>1. SameScene(made, c)
      BY <2>3 DEF SameScene, Viewport3D
    <3>2. SameFlags(made, c) /\ SamePicture(made, c)
      BY <2>3 DEF SameFlags, SamePicture, Viewport3D
    <3> QED BY <3>1, <3>2
  <2> HIDE DEF made
  <2>6. SameScene(made, v) /\ SameFlags(made, v) /\ SamePicture(made, v)
    BY <1>3, <2>3, <2>5, SameTransitive
  <2>7. /\ ShadesGood(made)
        /\ OneHue(made) /\ ~made.pixelSet =>
             ~made.shades \/ "reset from BW" \in made.strays
    BY <2>3, <2>4, <2>5 DEF ShadesGood, OneHue, SameScene
  <2>8. /\ made.strays = v.strays /\ made.quickList = "live"
        /\ made.fault = v.fault \/
             (made.fault = "freed twice" /\ v.quickList = "freed")
    BY <1>2, <1>3, <2>3, <2>4 DEF SameLists, FaultIf
  <2>9. /\ Torn(made) /\ ShadeFault(made)
        /\ made.fault = "bad drawable" => v.fault = "bad drawable"
    BY <2>6, <2>8 DEF Redoable, Torn, ShadeFault, SameScene
  <2>10. Redrawn([XCopyArea(ScanLines(made, stop, option, Aspects))
                   EXCEPT !.unsorted = FALSE], v, option)
    BY <1>7, <2>4, <2>6, <2>7, <2>8, <2>9, ScannedRedo
  <2> QED BY <2>1, <2>10 DEF d
<1> QED BY <1>4, <1>5, <1>6, <1>7 DEF Stops, StopPoints, d

\* What a drawing gives in any style, from a viewport v that is sound.
Drawn3D(w, v, option) ==
    /\ w \in Viewport3D /\ SameScene(w, v) /\ v.strays \intersect Lasting \subseteq w.strays
    /\ ListsGood(w) /\ OrderGood(w) /\ ShadesGood(w) /\ PixmapGood(w)
    /\ LightGood(w) /\ FreshGood(w) /\ FaultGood(w)
    /\ Redone(v) /\ Torn(v) => Torn(w)
    /\ w.fault = "bad drawable" =>
         \/ v.fault = "bad drawable"
         \/ ~w.viewmap /\ "stopped" \in w.strays /\ ~Redone(v)
         \/ ~w.viewmap /\ option = "PS" /\ v.style = "smooth" /\ Redone(v)
    /\ v.viewmap => w.viewmap
    /\ "stopped" \in v.strays /\ ~w.viewmap => "stopped" \in w.strays
    /\ Imaged(w)
    /\ w.ps = "empty" => v.ps = "empty" \/ (option = "PS" /\ ~Redone(v))

\* There is something that can be stale.
LEMMA AspectsExist == Aspects # {}
BY DEF Aspects

\* The redo of drawPhong, with the flag it sets at its end.
LEMMA RedoPhongFacts ==
    ASSUME NEW v, Redoable(v), NEW option \in {"X", "PS"}, NEW stop \in Stops
    PROVE  LET w == RedoPhong(v, stop, option)
           IN  /\ Redrawn(w, v, option) /\ w.finishedList = ~w.scanning
               /\ w.changedIntensity = v.changedIntensity
<1> DEFINE d == RedoDrawn(v, stop, option)
           f == ~d.scanning
           w1 == [d EXCEPT !.finishedList = f]
           w == [w1 EXCEPT !.firstTime = FALSE]
<1>1. Redrawn(d, v, option)
    BY RedoDrawnFacts
<1>2. RedoPhong(v, stop, option) = w
  <2>1. RedoPhong(v, stop, option) = [d EXCEPT !.finishedList = ~d.scanning, !.firstTime = FALSE]
    BY DEF RedoPhong, RedoDrawn, FreedUnless
  <2> HIDE DEF d
  <2> QED BY <2>1
<1> HIDE DEF d
<1>3. d \in Viewport3D /\ f \in BOOLEAN
    BY <1>1 DEF Redrawn
<1>4. w \in Viewport3D
  <2> HIDE DEF f
  <2>1. w1 \in Viewport3D
    BY <1>3, FlagUpdates
  <2> HIDE DEF w1
  <2> QED BY <2>1, FlagUpdates
<1>5. SameScene(w, d) /\ SameColour(w, d) /\ SameLists(w, d) /\ SamePicture(w, d)
  <2> HIDE DEF f
  <2>1. SameScene(w, d)
    BY <1>3 DEF SameScene, Viewport3D
  <2>2. SameColour(w, d) /\ SameLists(w, d) /\ SamePicture(w, d)
    BY <1>3 DEF SameColour, SameLists, SamePicture, Viewport3D
  <2> QED BY <2>1, <2>2
<1>6. /\ w.movingLight = d.movingLight /\ w.scanning = d.scanning
      /\ w.strays = d.strays /\ w.fault = d.fault /\ w.finishedList = ~w.scanning
    BY <1>3 DEF Viewport3D
<1> HIDE DEF w
<1>7. SameScene(w, v)
    BY <1>1, <1>5, SameTransitive DEF Redrawn
<1>8. ShadesGood(w) /\ Torn(w) /\ ShadeFault(w) /\ ExcusesKept(w, v)
  <2>1. ShadesGood(w)
    BY <1>1, <1>5, <1>6 DEF Redrawn, ShadesGood, SameScene, SameColour
  <2>2. Torn(w) /\ ShadeFault(w)
    BY <1>1, <1>5, <1>6 DEF Redrawn, Torn, ShadeFault, SameScene
  <2>3. ExcusesKept(w, v)
    BY <1>1, <1>5, <1>6 DEF Redrawn, ExcusesKept, SameLists, SamePicture
  <2> QED BY <2>1, <2>2, <2>3
<1>9. Redrawn(w, v, option)
    BY <1>1, <1>4, <1>5, <1>6, <1>7, <1>8 DEF Redrawn, SameLists, SamePicture, Excused
<1> QED BY <1>2, <1>6, <1>7, <1>9 DEF SameScene

\* drawPhong takes the flags.
Taking(v) ==
    LET s == IF v.movingLight /\ v.light # v.temp THEN Stray(v, "light") ELSE v
    IN [s EXCEPT !.moved = FALSE, !.redoSmooth = FALSE, !.movingLight = FALSE]

\* drawPhong takes its flags first.
LEMMA TakingFacts ==
    ASSUME NEW v \in Viewport3D
    PROVE  LET w == Taking(v)
           IN  /\ w \in Viewport3D
               /\ SameScene(w, v) /\ SameColour(w, v) /\ SameLists(w, v)
               /\ SamePicture(w, v)
               /\ ~w.moved /\ ~w.redoSmooth /\ ~w.movingLight
               /\ w.firstTime = v.firstTime /\ w.finishedList = v.finishedList
               /\ w.scanning = v.scanning
               /\ w.fault = v.fault /\ v.strays \subseteq w.strays
               /\ v.movingLight /\ v.light # v.temp => "light" \in w.strays
<1> DEFINE s == IF v.movingLight /\ v.light # v.temp THEN Stray(v, "light") ELSE v
           w1 == [s EXCEPT !.moved = FALSE]
           w2 == [w1 EXCEPT !.redoSmooth = FALSE]
           w == [w2 EXCEPT !.movingLight = FALSE]
<1>1. /\ s \in Viewport3D
      /\ SameScene(s, v) /\ SameFlags(s, v) /\ SameColour(s, v)
      /\ SameLists(s, v) /\ SamePicture(s, v) /\ s.fault = v.fault
      /\ v.strays \subseteq s.strays
      /\ v.movingLight /\ v.light # v.temp => "light" \in s.strays
    BY StrayFacts, SameReflexive DEF Excuses
<1>2. Taking(v) = w
    BY DEF Taking
<1> HIDE DEF s
<1>3. w \in Viewport3D
  <2>1. w1 \in Viewport3D
    BY <1>1, FlagUpdates
  <2> HIDE DEF w1
  <2>2. w2 \in Viewport3D
    BY <2>1, FlagUpdates
  <2> HIDE DEF w2
  <2> QED BY <2>2, FlagUpdates
<1>4. SameScene(w, s) /\ SameColour(w, s) /\ SameLists(w, s) /\ SamePicture(w, s)
  <2>1. SameScene(w, s)
    BY <1>1 DEF SameScene, Viewport3D
  <2>2. SameColour(w, s) /\ SameLists(w, s) /\ SamePicture(w, s)
    BY <1>1 DEF SameColour, SameLists, SamePicture, Viewport3D
  <2> QED BY <2>1, <2>2
<1>5. /\ ~w.moved /\ ~w.redoSmooth /\ ~w.movingLight
      /\ w.firstTime = s.firstTime /\ w.finishedList = s.finishedList
      /\ w.scanning = s.scanning
      /\ w.fault = s.fault /\ w.strays = s.strays
    BY <1>1 DEF Viewport3D
<1> HIDE DEF w
<1>6. SameScene(w, v) /\ SameColour(w, v) /\ SameLists(w, v) /\ SamePicture(w, v)
    BY <1>1, <1>4, SameTransitive
<1> QED BY <1>1, <1>2, <1>3, <1>5, <1>6 DEF SameFlags

\* A smooth picture made anew, from a sound viewport.
LEMMA SmoothRedo ==
    ASSUME NEW v, Sound3D(v), Redone(v), v.style = "smooth",
           NEW option \in {"X", "PS"}, NEW stop \in Stops
    PROVE  Drawn3D(RedoPhong(Taking(v), stop, option), v, option)
<1> DEFINE t == Taking(v)
<1>1. v \in Viewport3D
    BY DEF Sound3D
<1>2. /\ t \in Viewport3D
      /\ SameScene(t, v) /\ SameColour(t, v) /\ SameLists(t, v) /\ SamePicture(t, v)
      /\ ~t.movingLight
      /\ t.fault = v.fault /\ v.strays \subseteq t.strays
      /\ v.movingLight /\ v.light # v.temp => "light" \in t.strays
    BY <1>1, TakingFacts
<1> HIDE DEF t
<1>3. Redoable(t)
  <2>1. ShadesGood(t)
    BY <1>2 DEF Sound3D, ShadesGood, SameScene, SameColour
  <2>2. Torn(t) /\ ShadeFault(t)
    BY <1>2 DEF Sound3D, FaultGood, Torn, ShadeFault, SameScene
  <2>3. t.quickList = "freed" => "torn" \in t.strays
    BY <1>2 DEF Sound3D, ListsGood, SameLists
  <2>4. /\ t.unsorted => "view" \in t.stale
        /\ t.viewmap \/ t.stale = Aspects
    BY <1>2 DEF Sound3D, OrderGood, PixmapGood, SamePicture
  <2> QED BY <1>2, <2>1, <2>2, <2>3, <2>4 DEF Redoable
<1> DEFINE w == RedoPhong(t, stop, option)
<1>4. /\ Redrawn(w, t, option) /\ w.finishedList = ~w.scanning
      /\ w.changedIntensity = t.changedIntensity
    BY <1>3, RedoPhongFacts
<1> HIDE DEF w
<1>5. SameScene(w, v)
    BY <1>2, <1>4, SameTransitive DEF Redrawn
<1>6. /\ v.strays \intersect Lasting \subseteq w.strays
      /\ "stopped" \in v.strays /\ ~w.viewmap => "stopped" \in w.strays
      /\ "light" \in t.strays /\ v.light # v.temp => "light" \in w.strays
  <2>1. ~w.viewmap => w.stale # {}
    BY <1>4, AspectsExist DEF Redrawn
  <2> QED BY <1>2, <1>4, <2>1 DEF Redrawn, ExcusesKept, SameScene
<1>7. ListsGood(w) /\ OrderGood(w)
    BY <1>4 DEF Redrawn, ListsGood, OrderGood
<1>8. PixmapGood(w) /\ Imaged(w)
    BY <1>4 DEF Redrawn, PixmapGood, Imaged
<1>9. LightGood(w)
    BY <1>2, <1>5, <1>6 DEF Sound3D, LightGood, SameScene
<1>10. FreshGood(w)
    BY <1>4 DEF Redrawn, FreshGood, Redone
<1>11. FaultGood(w) /\ Torn(w)
    BY <1>4 DEF Redrawn, FaultGood, Torn, ShadeFault
<1>12. w.fault = "bad drawable" =>
         v.fault = "bad drawable" \/ (~w.viewmap /\ option = "PS")
    BY <1>2, <1>4 DEF Redrawn
<1>13. /\ w.ps = "empty" => v.ps = "empty"
       /\ v.viewmap => w.viewmap
    BY <1>2, <1>4 DEF Redrawn, SamePicture
<1> QED
    BY <1>4, <1>5, <1>6, <1>7, <1>8, <1>9, <1>10, <1>11, <1>12, <1>13
       DEF Redrawn, Drawn3D, t, w

\* A change of colour only.
LEMMA SmoothRecolor ==
    ASSUME NEW v, Sound3D(v), ~Redone(v), v.style = "smooth", v.panel # "VOLUME",
           NEW option \in {"X", "PS"}, NEW stop \in Stops
    PROVE  Drawn3D(RecolorPhong(Taking(v), stop, option), v, option)
<1> DEFINE t == Taking(v)
           end == IF stop = "done" THEN "done" ELSE "scan"
           u == IF stop = "done" THEN t ELSE Stray(t, "stopped")
           c == ChangeColorMap(u)
           s == ScanLines(c, end, option, Buffered)
           w == XCopyArea(s)
<1>1. v \in Viewport3D
    BY DEF Sound3D
<1>2. /\ t \in Viewport3D
      /\ SameScene(t, v) /\ SameColour(t, v) /\ SameLists(t, v) /\ SamePicture(t, v)
      /\ ~t.moved /\ ~t.redoSmooth /\ ~t.movingLight
      /\ t.firstTime = v.firstTime /\ t.finishedList = v.finishedList
      /\ t.fault = v.fault /\ v.strays \subseteq t.strays
      /\ v.movingLight /\ v.light # v.temp => "light" \in t.strays
    BY <1>1, TakingFacts
<1>3. RecolorPhong(t, stop, option) = w
    BY DEF RecolorPhong
<1> HIDE DEF t
<1>4. /\ u \in Viewport3D
      /\ SameScene(u, t) /\ SameColour(u, t) /\ SameLists(u, t) /\ SamePicture(u, t)
      /\ SameFlags(u, t) /\ u.fault = t.fault /\ t.strays \subseteq u.strays
      /\ stop # "done" => "stopped" \in u.strays
  <2>1. CASE stop = "done"
    <3>1. u = t
      BY <2>1
    <3> QED BY <1>2, <2>1, <3>1, SameReflexive
  <2>2. CASE stop # "done"
    <3>1. u = Stray(t, "stopped")
      BY <2>2
    <3>2. "stopped" \in Excuses
      BY DEF Excuses
    <3> HIDE DEF u
    <3> QED BY <1>2, <3>1, <3>2, StrayFacts
  <2> QED BY <2>1, <2>2
<1> HIDE DEF u
<1>5. /\ SameScene(u, v) /\ SameColour(u, v) /\ SameLists(u, v) /\ SamePicture(u, v)
      /\ v.strays \subseteq u.strays /\ u.fault = v.fault
      /\ ~u.moved /\ ~u.redoSmooth /\ ~u.movingLight
      /\ ~u.firstTime /\ u.finishedList
    BY <1>2, <1>4, SameTransitive DEF SameFlags, Redone
<1>6. ShadesGood(u)
    BY <1>5 DEF Sound3D, ShadesGood, SameScene, SameColour
<1>7. /\ c \in Viewport3D /\ ShadesGood(c)
      /\ SameScene(c, u) /\ SameFlags(c, u)
      /\ SameLists(c, u) /\ SamePicture(c, u) /\ c.strays = u.strays
      /\ FaultIf(c, u, "used after free", u.quickList = "freed")
      /\ OneHue(c) /\ ~c.pixelSet => ~c.shades \/ "reset from BW" \in c.strays
    BY <1>4, <1>6, ColourMapFacts
<1> HIDE DEF c
<1>8. /\ s \in Viewport3D /\ Scanned(s, c, end, option, Buffered)
      /\ \/ FaultIf(s, c, "no such shade", OneHue(c) /\ ~c.pixelSet)
         \/ FaultIf(s, c, "used after free", c.scanList = "freed")
  <2>1. Buffered \in SUBSET Aspects
    BY DEF Buffered, Aspects
  <2> QED BY <1>7, <2>1, ScanFacts
<1> HIDE DEF s
<1>9. /\ w \in Viewport3D
      /\ SameScene(w, s) /\ SameFlags(w, s) /\ SameColour(w, s)
      /\ SameLists(w, s) /\ SamePicture(w, s) /\ w.strays = s.strays
      /\ FaultIf(w, s, "bad drawable", ~s.viewmap)
      /\ ~s.viewmap => w.fault # "no"
    BY <1>8, CopyAreaFacts
<1> HIDE DEF w
<1>10. SameScene(w, v) /\ SameLists(w, v) /\ SameColour(w, c) /\ SameScene(w, c)
    BY <1>5, <1>7, <1>8, <1>9, SameTransitive DEF Scanned
<1>11. ~w.moved /\ ~w.redoSmooth /\ ~w.movingLight /\ ~w.firstTime /\ w.finishedList
    BY <1>5, <1>7, <1>8, <1>9 DEF Scanned, SameFlags
<1>12. /\ w.unsorted = v.unsorted /\ w.viewmap = (v.viewmap \/ option = "X")
       /\ w.stale = IF option = "PS" THEN v.stale
                    ELSE IF end = "done" THEN v.stale \ Buffered ELSE Aspects
       /\ w.ps = "empty" => v.ps = "empty"
       /\ option = "PS" /\ w.stale # {} => "printed" \in w.strays
  <2>1. /\ w.viewmap = s.viewmap /\ w.stale = s.stale /\ w.ps = s.ps
        /\ w.strays = s.strays /\ w.unsorted = s.unsorted
    BY <1>9 DEF SamePicture
  <2>2. /\ c.viewmap = v.viewmap /\ c.stale = v.stale /\ c.ps = v.ps
        /\ c.unsorted = v.unsorted
    BY <1>5, <1>7 DEF SamePicture
  <2> QED BY <1>8, <2>1, <2>2 DEF Scanned
<1>13. ExcusesKept(w, u)
  <2>1. ExcusesKept(s, c) /\ c.strays = u.strays /\ w.strays = s.strays
    BY <1>7, <1>8, <1>9 DEF Scanned
  <2>2. s.stale = w.stale /\ s.scanList = w.scanList /\ c.light = u.light /\ c.temp = u.temp
    BY <1>7, <1>9 DEF SamePicture, SameLists, SameScene
  <2> QED BY <2>1, <2>2 DEF ExcusesKept
<1>14. /\ u.strays \intersect Lasting \subseteq w.strays
       /\ w.stale # {} \/ w.scanList # "live" => u.strays \subseteq w.strays
       /\ ~w.viewmap => w.stale # {}
  <2>1. ~w.viewmap => w.stale = Aspects
    BY <1>12 DEF Sound3D, PixmapGood
  <2> QED BY <1>13, <2>1, AspectsExist DEF ExcusesKept
<1>15. /\ v.strays \intersect Lasting \subseteq w.strays
       /\ "stopped" \in v.strays /\ ~w.viewmap => "stopped" \in w.strays
    BY <1>5, <1>14
<1>16. ListsGood(w)
  <2>1. w.quickList = "freed" => "torn" \in w.strays
    BY <1>10, <1>15 DEF Sound3D, ListsGood, SameLists, Lasting
  <2>2. w.scanList = "freed" => {"torn", "stopped"} \intersect v.strays # {}
    BY <1>10 DEF Sound3D, ListsGood, SameLists
  <2>3. w.scanList = "freed" => {"torn", "stopped"} \intersect w.strays # {}
    BY <1>5, <1>14, <2>2
  <2> QED BY <2>1, <2>3 DEF ListsGood
<1>17. OrderGood(w)
  <2>1. w.unsorted => "view" \in w.stale
    BY <1>12 DEF Sound3D, OrderGood, Buffered, Aspects
  <2>2. w.unsorted => "stopped" \in w.strays
    <3>1. w.unsorted => "stopped" \in v.strays
      BY <1>12 DEF Sound3D, OrderGood, Redone
    <3> QED BY <1>5, <1>14, <2>1, <3>1
  <2> QED BY <2>1, <2>2 DEF OrderGood
<1>18. ShadesGood(w)
    BY <1>7, <1>10, <1>14 DEF ShadesGood, SameScene, SameColour, Lasting
<1>19. PixmapGood(w) /\ Imaged(w)
  <2>1. ~w.viewmap => w.fault # "no"
    BY <1>9 DEF SamePicture
  <2>2. w.viewmap \/ w.stale = Aspects
    BY <1>12 DEF Sound3D, PixmapGood
  <2> QED BY <2>1, <2>2 DEF PixmapGood, Imaged
<1>20. LightGood(w)
  <2>1. "light" \in u.strays /\ u.light # u.temp => "light" \in w.strays
    BY <1>13 DEF ExcusesKept
  <2>2. u.light = v.light /\ u.temp = v.temp
    BY <1>5 DEF SameScene
  <2> QED BY <1>2, <1>4, <1>10, <2>1, <2>2 DEF Sound3D, LightGood, SameScene
<1>21. FreshGood(w)
  <2>1. v.stale = {} \/ v.stale \subseteq Buffered \/ Excused(v)
    BY DEF Sound3D, FreshGood, Rescanned
  <2>2. w.stale # {} => u.strays \subseteq w.strays
    BY <1>14
  <2>3. CASE option = "PS"
    BY <1>12, <2>3 DEF FreshGood, Excused
  <2>4. CASE option = "X" /\ end = "done"
    BY <1>5, <1>12, <2>1, <2>2, <2>4 DEF FreshGood, Excused
  <2>5. CASE end # "done"
    BY <1>4, <2>2, <2>5 DEF FreshGood, Excused
  <2> QED BY <2>3, <2>4, <2>5
<1>22. /\ w.fault = s.fault \/ (s.fault = "no" /\ w.fault = "bad drawable" /\ ~w.viewmap)
       /\ \/ s.fault = c.fault
          \/ s.fault = "no such shade" /\ OneHue(c) /\ ~c.pixelSet
          \/ c.fault = "no" /\ s.fault = "used after free" /\ c.scanList = "freed"
       /\ \/ c.fault = v.fault
          \/ v.fault = "no" /\ c.fault = "used after free" /\ v.quickList = "freed"
  <2>1. w.fault = s.fault \/ (s.fault = "no" /\ w.fault = "bad drawable" /\ ~w.viewmap)
    BY <1>9 DEF FaultIf, SamePicture
  <2>2. \/ s.fault = c.fault
        \/ s.fault = "no such shade" /\ OneHue(c) /\ ~c.pixelSet
        \/ c.fault = "no" /\ s.fault = "used after free" /\ c.scanList = "freed"
    BY <1>8, Zenon DEF FaultIf
  <2>3. \/ c.fault = v.fault
        \/ v.fault = "no" /\ c.fault = "used after free" /\ v.quickList = "freed"
    BY <1>5, <1>7 DEF FaultIf, SameLists
  <2> QED BY <2>1, <2>2, <2>3
<1>23. FaultGood(w)
  <2>1. ~Redone(w)
    BY <1>11 DEF Redone
  <2>2. "torn" \in v.strays => "torn" \in w.strays
    BY <1>15 DEF Lasting
  <2>3. v.quickList = "freed" => "torn" \in v.strays
    BY DEF Sound3D, ListsGood
  <2>4. c.scanList = w.scanList /\ v.scanList = w.scanList
    BY <1>8, <1>9, <1>10 DEF Scanned, SameLists
  <2>5. w.scanList = "freed" /\ "stopped" \in v.strays => "stopped" \in w.strays
    BY <1>5, <1>14
  <2>6. w.scanList = "freed" => "torn" \in w.strays \/ "stopped" \in w.strays
    BY <1>16, <2>1 DEF ListsGood
  <2>7. v.fault \in {"freed twice", "used after free"} =>
          "torn" \in v.strays \/ ("stopped" \in v.strays /\ v.scanList = "freed")
    BY DEF Sound3D, FaultGood
  <2>8. w.fault \in {"freed twice", "used after free"} =>
          "torn" \in w.strays \/ ("stopped" \in w.strays /\ w.scanList = "freed")
    BY <1>22, <2>2, <2>3, <2>4, <2>5, <2>6, <2>7
  <2>9. w.fault = "no such shade" => "reset from BW" \in w.strays \/ ~w.shades
    <3>1. "reset from BW" \in v.strays => "reset from BW" \in w.strays
      BY <1>15 DEF Lasting
    <3>2. "reset from BW" \in c.strays => "reset from BW" \in w.strays
      BY <1>7, <1>14 DEF Lasting
    <3>3. c.shades = w.shades /\ v.shades = w.shades
      BY <1>10 DEF SameScene
    <3>4. v.fault = "no such shade" => "reset from BW" \in v.strays \/ ~v.shades
      BY DEF Sound3D, FaultGood
    <3> QED BY <1>7, <1>22, <3>1, <3>2, <3>3, <3>4
  <2> QED BY <2>1, <2>8, <2>9 DEF FaultGood
<1>24. w.fault = "bad drawable" =>
         v.fault = "bad drawable" \/ (~w.viewmap /\ "stopped" \in w.strays)
  <2>1. w.fault = "bad drawable" => v.fault = "bad drawable" \/ (~w.viewmap /\ v.fault = "no")
    BY <1>22
  <2>2. ~w.viewmap /\ v.fault = "no" => "stopped" \in v.strays
    BY <1>12 DEF Sound3D, PixmapGood
  <2> QED BY <1>15, <2>1, <2>2
<1> QED
    BY <1>3, <1>9, <1>10, <1>12, <1>15, <1>16, <1>17, <1>18, <1>19, <1>20, <1>21,
       <1>23, <1>24 DEF Drawn3D, t

\* No change: the pixmap again.
LEMMA SmoothAgain ==
    ASSUME NEW v, Sound3D(v), ~Redone(v), ~v.redoColor, ~v.redoDither,
           v.style = "smooth", v.panel # "VOLUME", NEW option \in {"X", "PS"}
    PROVE  Drawn3D([XCopyArea(v) EXCEPT
                      !.shown = TRUE, !.ps = IF option = "PS" THEN "empty" ELSE @],
                   v, option)
<1> DEFINE x == XCopyArea(v)
           ps == IF option = "PS" THEN "empty" ELSE x.ps
           w1 == [x EXCEPT !.shown = TRUE]
           w == [w1 EXCEPT !.ps = ps]
<1>1. v \in Viewport3D
    BY DEF Sound3D
<1>3. /\ x \in Viewport3D
      /\ SameScene(x, v) /\ SameFlags(x, v) /\ SameColour(x, v)
      /\ SameLists(x, v) /\ SamePicture(x, v) /\ x.strays = v.strays
      /\ FaultIf(x, v, "bad drawable", ~v.viewmap)
      /\ ~v.viewmap => x.fault # "no"
    BY <1>1, CopyAreaFacts
<1> HIDE DEF x
<1>4. [x EXCEPT !.shown = TRUE, !.ps = IF option = "PS" THEN "empty" ELSE @] = w
    BY <1>3 DEF Viewport3D
<1>5. w \in Viewport3D
  <2>1. ps \in {"none", "picture", "part", "empty"}
    BY <1>3, FieldTypes
  <2> HIDE DEF ps
  <2>2. w1 \in Viewport3D
    BY <1>3, FlagUpdates
  <2> HIDE DEF w1
  <2> QED BY <2>1, <2>2, OtherUpdates
<1>6. SameScene(w, x) /\ SameFlags(w, x) /\ SameColour(w, x) /\ SameLists(w, x)
  <2>1. SameScene(w, x) /\ SameFlags(w, x)
    BY <1>3 DEF SameScene, SameFlags, Viewport3D
  <2>2. SameColour(w, x) /\ SameLists(w, x)
    BY <1>3 DEF SameColour, SameLists, Viewport3D
  <2> QED BY <2>1, <2>2
<1>7. /\ w.strays = x.strays /\ w.fault = x.fault /\ w.viewmap = x.viewmap
      /\ w.stale = x.stale /\ w.unsorted = x.unsorted
      /\ w.ps = "empty" => x.ps = "empty" \/ option = "PS"
    BY <1>3 DEF Viewport3D
<1> HIDE DEF w
<1>8. SameScene(w, v) /\ SameFlags(w, v) /\ SameColour(w, v) /\ SameLists(w, v)
    BY <1>3, <1>6, SameTransitive
<1>9. /\ w.viewmap = v.viewmap /\ w.stale = v.stale /\ w.unsorted = v.unsorted
      /\ w.ps = "empty" => v.ps = "empty" \/ option = "PS"
      /\ v.strays \subseteq w.strays
      /\ ~w.viewmap => w.fault # "no"
      /\ w.fault = v.fault \/ (v.fault = "no" /\ w.fault = "bad drawable" /\ ~w.viewmap)
    BY <1>3, <1>7 DEF SamePicture, FaultIf
<1>10. ~Redone(w)
    BY <1>8 DEF SameFlags, Redone
<1>11. ListsGood(w) /\ ShadesGood(w)
    BY <1>8, <1>9 DEF Sound3D, ListsGood, ShadesGood, SameScene, SameColour, SameLists
<1>12. w.unsorted => "view" \in w.stale /\ "stopped" \in w.strays
    BY <1>9 DEF Sound3D, OrderGood, Redone
<1>13. OrderGood(w) /\ PixmapGood(w) /\ Imaged(w)
    BY <1>9, <1>12 DEF Sound3D, OrderGood, PixmapGood, Imaged
<1>14. LightGood(w)
    BY <1>8, <1>9 DEF Sound3D, LightGood, SameScene, SameFlags
<1>15. v.stale = {} \/ Excused(v)
    BY DEF Sound3D, FreshGood, Rescanned
<1>16. FreshGood(w)
    BY <1>9, <1>15 DEF FreshGood, Excused
<1>17. FaultGood(w)
  <2>1. w.scanList = v.scanList /\ w.shades = v.shades
    BY <1>8 DEF SameScene, SameLists
  <2> QED BY <1>9, <1>10, <2>1 DEF Sound3D, FaultGood
<1>18. w.fault = "bad drawable" =>
         v.fault = "bad drawable" \/ (~w.viewmap /\ "stopped" \in w.strays)
    BY <1>9 DEF Sound3D, PixmapGood
<1> QED
    BY <1>4, <1>5, <1>8, <1>9, <1>11, <1>13, <1>14, <1>16, <1>17, <1>18
       DEF Drawn3D, x

\* A smooth picture made anew, scanned again or only shown.
LEMMA DrawPhongFacts ==
    ASSUME NEW v, Sound3D(v), v.style = "smooth", v.panel # "VOLUME",
           NEW option \in {"X", "PS"}, NEW stop \in Stops
    PROVE  Drawn3D(DrawPhong(v, stop, option), v, option)
<1>1. Redone(v) <=> (Recalc(v) \/ v.redoSmooth)
    BY DEF Redone, Recalc
<1>2. CASE Redone(v)
  <2>1. DrawPhong(v, stop, option) = RedoPhong(Taking(v), stop, option)
    BY <1>1, <1>2 DEF DrawPhong, Taking
  <2> QED BY <1>2, <2>1, SmoothRedo
<1>3. CASE ~Redone(v) /\ (v.redoColor \/ v.redoDither)
  <2>1. DrawPhong(v, stop, option) = RecolorPhong(Taking(v), stop, option)
    BY <1>1, <1>3 DEF DrawPhong, Taking
  <2> QED BY <1>3, <2>1, SmoothRecolor
<1>4. CASE ~Redone(v) /\ ~v.redoColor /\ ~v.redoDither
  <2>1. DrawPhong(v, stop, option) =
          [XCopyArea(v) EXCEPT
             !.shown = TRUE, !.ps = IF option = "PS" THEN "empty" ELSE @]
    BY <1>1, <1>4, Zenon DEF DrawPhong
  <2> QED BY <1>4, <2>1, SmoothAgain
<1> QED BY <1>2, <1>3, <1>4

-----------------------------------------------------------------------------
\* Drawings of the other styles, which leave the pixmap alone.
Surfaced(w, v) ==
    /\ w \in Viewport3D /\ SameScene(w, v) /\ SameColour(w, v)
    /\ w.movingLight = v.movingLight
    /\ w.viewmap = v.viewmap /\ w.stale = v.stale
    /\ w.ps = "empty" => v.ps = "empty"
    /\ v.strays \subseteq w.strays
    /\ \/ w.fault = v.fault
       \/ w.fault \in {"freed twice", "used after free"} /\ "torn" \in w.strays
    /\ w.quickList = "freed" => "torn" \in w.strays
    /\ w.unsorted => v.unsorted
    /\ v.style # "transparent" /\ w.unsorted => "stopped" \in w.strays
    /\ \/ w.redoSmooth /\ Redone(v) /\ v.style # "transparent"
       \/ SameFlags(w, v) /\ w.scanList = v.scanList

\* What the opaque styles do to a viewport is what a drawing may do.
LEMMA SurfacedDrawn ==
    ASSUME NEW v, Sound3D(v), v.style # "smooth", NEW w, Surfaced(w, v),
           NEW option \in {"X", "PS"}
    PROVE  Drawn3D(w, v, option)
<1>1. (Redone(v) => Redone(w)) /\ (w.unsorted => "view" \in w.stale)
    BY DEF Surfaced, SameFlags, Redone, Sound3D, OrderGood
<1>2. ListsGood(w)
    BY DEF Surfaced, Sound3D, ListsGood, SameFlags, Redone
<1>3. OrderGood(w)
  <2>1. CASE v.style = "transparent"
    BY <1>1, <2>1 DEF Surfaced, Sound3D, OrderGood, SameFlags, SameScene
  <2>2. CASE v.style # "transparent"
    BY <1>1, <2>2 DEF Surfaced, OrderGood
  <2> QED BY <2>1, <2>2
<1>4. ShadesGood(w)
    BY DEF Surfaced, Sound3D, ShadesGood, SameScene, SameColour
<1>5. PixmapGood(w)
    BY <1>1 DEF Surfaced, Sound3D, PixmapGood
<1>6. LightGood(w)
    BY DEF Surfaced, Sound3D, LightGood, SameScene
<1>7. FreshGood(w)
  <2>1. Rescanned(v) => Rescanned(w)
    BY DEF Surfaced, Rescanned, SameColour
  <2>2. Excused(v) => Excused(w)
    BY DEF Surfaced, Excused
  <2>3. w.style # "smooth" /\ w.panel = v.panel
    BY DEF Surfaced, SameScene
  <2> QED BY <1>1, <2>1, <2>2, <2>3 DEF Surfaced, Sound3D, FreshGood
<1>8. FaultGood(w) /\ (Redone(v) /\ Torn(v) => Torn(w))
  <2>1. w.shades = v.shades
    BY DEF Surfaced, SameScene
  <2>2. CASE w.redoSmooth /\ Redone(v)
    BY <2>1, <2>2 DEF Surfaced, Sound3D, FaultGood, Torn
  <2>3. CASE SameFlags(w, v) /\ w.scanList = v.scanList
    <3>1. Redone(w) = Redone(v)
      BY <2>3 DEF SameFlags, Redone
    <3> QED BY <2>1, <2>3, <3>1 DEF Surfaced, Sound3D, FaultGood, Torn
  <2> QED BY <2>2, <2>3 DEF Surfaced
<1>9. w.fault = "bad drawable" => v.fault = "bad drawable"
    BY DEF Surfaced
<1>10. Imaged(w)
    BY DEF Imaged, Surfaced, SameScene
<1> QED
    BY <1>2, <1>3, <1>4, <1>5, <1>6, <1>7, <1>8, <1>9, <1>10 DEF Drawn3D, Surfaced

\* Opaque and rendered surfaces that are made anew.
LEMMA PolygonsAnew ==
    ASSUME NEW v, Sound3D(v), Recalc(v), v.style \in {"opaqueMesh", "render"},
           NEW stop \in Stops
    PROVE  Surfaced(DrawPolygons(v, stop), v)
<1> DEFINE w1 == [v EXCEPT !.moved = FALSE]
           w2 == [w1 EXCEPT !.redoSmooth = TRUE]
           w == [w2 EXCEPT !.firstTime = FALSE]
           f == IF v.firstTime THEN w ELSE FreeListOfPolygons(w)
           u == CopyPolygons(f)
           d == DrawPolygons(v, stop)
<1>1. v \in Viewport3D
    BY DEF Sound3D
<1>2. d = CASE stop = "start" -> Stray(w, "stopped")
            [] stop \in {"freed", "collected"} -> Stray(u, "stopped")
            [] stop = "scan" -> [u EXCEPT !.finishedList = FALSE, !.unsorted = FALSE]
            [] stop = "done" -> [u EXCEPT !.finishedList = TRUE, !.shown = TRUE,
                                          !.unsorted = FALSE]
    BY Zenon DEF DrawPolygons
<1>3. w \in Viewport3D
  <2>1. w1 \in Viewport3D
    BY <1>1, FlagUpdates
  <2> HIDE DEF w1
  <2>2. w2 \in Viewport3D
    BY <2>1, FlagUpdates
  <2> HIDE DEF w2
  <2> QED BY <2>2, FlagUpdates
<1>4. /\ SameColour(w, v) /\ SameLists(w, v) /\ SamePicture(w, v)
      /\ w.movingLight = v.movingLight /\ w.strays = v.strays /\ w.fault = v.fault
      /\ w.redoSmooth
  <2>1. SameColour(w, v) /\ SameLists(w, v) /\ SamePicture(w, v)
    BY <1>1 DEF SameColour, SameLists, SamePicture, Viewport3D
  <2> QED BY <1>1, <2>1 DEF Viewport3D
<1>5. SameScene(w, v)
    BY <1>1 DEF SameScene, Viewport3D
<1> HIDE DEF w, d
<1>6. /\ f \in Viewport3D
      /\ SameScene(f, w) /\ SameFlags(f, w) /\ SameColour(f, w)
      /\ SamePicture(f, w) /\ f.strays = w.strays
      /\ FaultIf(f, w, "freed twice", w.quickList = "freed")
    BY <1>3, FreeFacts, SameReflexive DEF FaultIf
<1> HIDE DEF f
<1>7. /\ u \in Viewport3D
      /\ SameScene(u, f) /\ SameFlags(u, f) /\ SameColour(u, f)
      /\ SamePicture(u, f) /\ u.strays = f.strays /\ u.fault = f.fault
      /\ u.quickList = "live"
    BY <1>6, CopyFacts
<1> HIDE DEF u
<1>8. /\ SameScene(u, v) /\ SameColour(u, v) /\ SamePicture(u, v)
      /\ u.movingLight = v.movingLight /\ u.redoSmooth /\ u.strays = v.strays
  <2>1. SameFlags(u, w)
    BY <1>6, <1>7, SameTransitive
  <2>2. SameScene(u, v) /\ SameColour(u, v) /\ SamePicture(u, v)
    BY <1>4, <1>5, <1>6, <1>7, SameTransitive
  <2> QED BY <1>4, <1>6, <1>7, <2>1, <2>2 DEF SameFlags
<1>9. u.fault = v.fault \/ (u.fault = "freed twice" /\ "torn" \in v.strays)
    BY <1>4, <1>6, <1>7 DEF FaultIf, SameLists, Sound3D, ListsGood
<1>10. Redone(v)
    BY DEF Recalc, Redone
<1>11. CASE stop = "start"
  <2>1. d = Stray(w, "stopped")
    BY <1>2, <1>11
  <2>2. /\ d \in Viewport3D /\ SameScene(d, w) /\ SameFlags(d, w) /\ SameColour(d, w)
        /\ SameLists(d, w) /\ SamePicture(d, w)
        /\ d.strays = w.strays \union {"stopped"} /\ d.fault = w.fault
    BY <1>3, <2>1, StrayFacts DEF Excuses
  <2>3. /\ SameScene(d, v) /\ SameColour(d, v) /\ SameLists(d, v) /\ SamePicture(d, v)
    BY <1>4, <1>5, <2>2, SameTransitive
  <2>4. d.quickList = "freed" => "torn" \in v.strays
    BY <2>3 DEF Sound3D, ListsGood, SameLists
  <2> QED
    BY <1>4, <1>10, <2>2, <2>3, <2>4 DEF Surfaced, SameFlags, SamePicture, d
<1>12. CASE stop \in {"freed", "collected"}
  <2>1. d = Stray(u, "stopped")
    BY <1>2, <1>12
  <2>2. /\ d \in Viewport3D /\ SameScene(d, u) /\ SameFlags(d, u) /\ SameColour(d, u)
        /\ SameLists(d, u) /\ SamePicture(d, u)
        /\ d.strays = u.strays \union {"stopped"} /\ d.fault = u.fault
    BY <1>7, <2>1, StrayFacts DEF Excuses
  <2>3. SameScene(d, v) /\ SameColour(d, v) /\ SamePicture(d, v)
    BY <1>8, <2>2, SameTransitive
  <2> QED
    BY <1>7, <1>8, <1>9, <1>10, <2>2, <2>3
       DEF Surfaced, SameFlags, SameLists, SamePicture, d
<1>13. CASE stop = "scan"
  <2> DEFINE e1 == [u EXCEPT !.finishedList = FALSE]
             e == [e1 EXCEPT !.unsorted = FALSE]
  <2>1. d = e
    BY <1>2, <1>13
  <2>2. e \in Viewport3D
    <3>1. e1 \in Viewport3D
      BY <1>7, FlagUpdates
    <3> HIDE DEF e1
    <3> QED BY <3>1, FlagUpdates
  <2>3. SameScene(e, u)
    BY <1>7 DEF SameScene, Viewport3D
  <2>4. /\ SameColour(e, u) /\ SameLists(e, u)
        /\ e.movingLight = u.movingLight /\ e.viewmap = u.viewmap /\ e.stale = u.stale
        /\ e.ps = u.ps /\ e.strays = u.strays /\ e.fault = u.fault /\ ~e.unsorted
        /\ e.redoSmooth = u.redoSmooth
    BY <1>7 DEF SameColour, SameLists, Viewport3D
  <2> HIDE DEF e
  <2>5. SameScene(e, v) /\ SameColour(e, v)
    BY <1>8, <2>3, <2>4, SameTransitive
  <2>6. Surfaced(e, v)
    BY <1>7, <1>8, <1>9, <1>10, <2>2, <2>4, <2>5
       DEF Surfaced, SameLists, SamePicture
  <2> QED BY <2>1, <2>6 DEF d
<1>14. CASE stop = "done"
  <2> DEFINE e1 == [u EXCEPT !.finishedList = TRUE]
             e2 == [e1 EXCEPT !.shown = TRUE]
             e == [e2 EXCEPT !.unsorted = FALSE]
  <2>1. d = e
    BY <1>2, <1>14
  <2>2. e \in Viewport3D
    <3>1. e1 \in Viewport3D
      BY <1>7, FlagUpdates
    <3> HIDE DEF e1
    <3>2. e2 \in Viewport3D
      BY <3>1, FlagUpdates
    <3> HIDE DEF e2
    <3> QED BY <3>2, FlagUpdates
  <2>3. SameScene(e, u)
    BY <1>7 DEF SameScene, Viewport3D
  <2>4. /\ SameColour(e, u) /\ SameLists(e, u)
        /\ e.movingLight = u.movingLight /\ e.viewmap = u.viewmap /\ e.stale = u.stale
        /\ e.ps = u.ps /\ e.strays = u.strays /\ e.fault = u.fault /\ ~e.unsorted
        /\ e.redoSmooth = u.redoSmooth
    BY <1>7 DEF SameColour, SameLists, Viewport3D
  <2> HIDE DEF e
  <2>5. SameScene(e, v) /\ SameColour(e, v)
    BY <1>8, <2>3, <2>4, SameTransitive
  <2>6. Surfaced(e, v)
    BY <1>7, <1>8, <1>9, <1>10, <2>2, <2>4, <2>5
       DEF Surfaced, SameLists, SamePicture
  <2> QED BY <2>1, <2>6 DEF d
<1> QED BY <1>11, <1>12, <1>13, <1>14 DEF Stops, StopPoints, d

\* What is left as it was.
LEMMA SurfacedSame ==
    ASSUME NEW v, Sound3D(v), NEW w \in Viewport3D,
           SameScene(w, v), SameFlags(w, v), SameColour(w, v), SameLists(w, v),
           w.viewmap = v.viewmap, w.stale = v.stale, w.unsorted = v.unsorted,
           w.ps = "empty" => v.ps = "empty",
           v.strays \subseteq w.strays,
           FaultIf(w, v, "used after free", v.quickList = "freed"),
           v.style = "transparent" \/ ~Recalc(v)
    PROVE  Surfaced(w, v)
<1>1. v.quickList = "freed" => "torn" \in w.strays
    BY DEF Sound3D, ListsGood
<1>2. v.style # "transparent" /\ w.unsorted => "stopped" \in w.strays
    BY DEF Sound3D, OrderGood, Recalc
<1> QED BY <1>1, <1>2 DEF Surfaced, SameFlags, SameLists, FaultIf

\* Opaque and rendered surfaces, stopped anywhere.
LEMMA PolygonsFacts ==
    ASSUME NEW v, Sound3D(v), v.style \in {"opaqueMesh", "render"}, NEW stop \in Stops
    PROVE  Surfaced(DrawPolygons(v, stop), v)
<1>1. v \in Viewport3D
    BY DEF Sound3D
<1>2. CASE Recalc(v)
    BY <1>2, PolygonsAnew
<1>3. CASE ~Recalc(v) /\ stop = "start"
  <2>1. DrawPolygons(v, stop) = v
    BY <1>3 DEF DrawPolygons
  <2> QED BY <1>1, <1>3, <2>1, SurfacedSame, SameReflexive DEF FaultIf
<1>4. CASE ~Recalc(v) /\ stop # "start"
  <2> DEFINE u == UsesQuickList(v)
             all == stop = "done"
             w == [u EXCEPT !.shown = all]
  <2>1. DrawPolygons(v, stop) = w
    BY <1>4 DEF DrawPolygons
  <2>2. /\ u \in Viewport3D
        /\ SameScene(u, v) /\ SameFlags(u, v) /\ SameColour(u, v)
        /\ SameLists(u, v) /\ SamePicture(u, v) /\ u.strays = v.strays
        /\ FaultIf(u, v, "used after free", v.quickList = "freed")
    BY <1>1, UseFacts
  <2>3. all \in BOOLEAN
    OBVIOUS
  <2> HIDE DEF u, all
  <2>4. w \in Viewport3D
    BY <2>2, <2>3, FlagUpdates
  <2>5. SameScene(w, u) /\ SameFlags(w, u)
    BY <2>2 DEF SameScene, SameFlags, Viewport3D
  <2>6. /\ SameColour(w, u) /\ SameLists(w, u)
        /\ w.viewmap = u.viewmap /\ w.stale = u.stale /\ w.unsorted = u.unsorted
        /\ w.ps = u.ps /\ w.strays = u.strays /\ w.fault = u.fault
    BY <2>2 DEF SameColour, SameLists, Viewport3D
  <2> HIDE DEF w
  <2>7. SameScene(w, v) /\ SameFlags(w, v) /\ SameColour(w, v) /\ SameLists(w, v)
    BY <2>2, <2>5, <2>6, SameTransitive
  <2>8. Surfaced(w, v)
    BY <1>4, <2>2, <2>4, <2>6, <2>7, SurfacedSame DEF SamePicture, FaultIf
  <2> QED BY <2>1, <2>8
<1> QED BY <1>2, <1>3, <1>4

\* The surface of any style.
SurfaceOf(v, stop, option) ==
    CASE v.style = "transparent" -> [v EXCEPT !.shown = stop = "done"]
      [] v.style \in {"opaqueMesh", "render"} -> DrawPolygons(v, stop)
      [] v.style = "smooth" -> DrawPhong(v, stop, option)

\* All the styles but the smooth one.
LEMMA MeshFacts ==
    ASSUME NEW v, Sound3D(v), v.style # "smooth", NEW stop \in Stops,
           NEW option \in {"X", "PS"}
    PROVE  Surfaced(SurfaceOf(v, stop, option), v)
<1>1. v \in Viewport3D
    BY DEF Sound3D
<1>2. v.style \in {"transparent", "opaqueMesh", "render"}
    BY <1>1, FieldTypes DEF Styles
<1>3. CASE v.style = "transparent"
  <2> DEFINE all == stop = "done"
             w == [v EXCEPT !.shown = all]
  <2>1. SurfaceOf(v, stop, option) = w
    BY <1>3 DEF SurfaceOf
  <2>2. all \in BOOLEAN
    OBVIOUS
  <2> HIDE DEF all
  <2>3. w \in Viewport3D
    BY <1>1, <2>2, FlagUpdates
  <2>4. SameScene(w, v) /\ SameFlags(w, v)
    BY <1>1 DEF SameScene, SameFlags, Viewport3D
  <2>5. /\ SameColour(w, v) /\ SameLists(w, v)
        /\ w.viewmap = v.viewmap /\ w.stale = v.stale /\ w.unsorted = v.unsorted
        /\ w.ps = v.ps /\ w.strays = v.strays /\ w.fault = v.fault
    BY <1>1 DEF SameColour, SameLists, Viewport3D
  <2> HIDE DEF w
  <2>6. Surfaced(w, v)
    BY <1>3, <2>3, <2>4, <2>5, SurfacedSame DEF FaultIf
  <2> QED BY <2>1, <2>6
<1>4. CASE v.style \in {"opaqueMesh", "render"}
  <2>1. SurfaceOf(v, stop, option) = DrawPolygons(v, stop)
    BY <1>4 DEF SurfaceOf
  <2> QED BY <1>4, <2>1, PolygonsFacts
<1> QED BY <1>2, <1>3, <1>4

\* A PostScript file changes nothing of what the window shows.
LEMMA PrintedFacts ==
    ASSUME NEW v, NEW w, Surfaced(w, v), NEW shown \in BOOLEAN,
           NEW ps \in {"picture", "part"}
    PROVE  Surfaced([w EXCEPT !.shown = shown, !.ps = ps], v)
<1> DEFINE w1 == [w EXCEPT !.shown = shown]
           d == [w1 EXCEPT !.ps = ps]
<1>1. w \in Viewport3D
    BY DEF Surfaced
<1>2. d \in Viewport3D
  <2>1. w1 \in Viewport3D
    BY <1>1, FlagUpdates
  <2> HIDE DEF w1
  <2> QED BY <2>1, OtherUpdates
<1>3. SameScene(d, w) /\ SameFlags(d, w)
    BY <1>1 DEF SameScene, SameFlags, Viewport3D
<1>4. /\ SameColour(d, w) /\ SameLists(d, w)
      /\ d.viewmap = w.viewmap /\ d.stale = w.stale /\ d.unsorted = w.unsorted
      /\ d.ps = ps /\ d.strays = w.strays /\ d.fault = w.fault
    BY <1>1 DEF SameColour, SameLists, Viewport3D
<1>5. d = [w EXCEPT !.shown = shown, !.ps = ps]
    BY Zenon
<1> HIDE DEF d
<1>6. SameScene(d, v) /\ SameColour(d, v) /\ (SameFlags(w, v) => SameFlags(d, v))
    BY <1>3, <1>4, SameTransitive DEF Surfaced
<1>7. /\ d.movingLight = w.movingLight /\ d.redoSmooth = w.redoSmooth
      /\ d.quickList = w.quickList /\ d.scanList = w.scanList
    BY <1>3, <1>4 DEF SameFlags, SameLists
<1>8. Surfaced(d, v)
  <2>1. /\ d.movingLight = v.movingLight
        /\ d.viewmap = v.viewmap /\ d.stale = v.stale
        /\ d.ps = "empty" => v.ps = "empty"
        /\ v.strays \subseteq d.strays
        /\ d.quickList = "freed" => "torn" \in d.strays
        /\ d.unsorted => v.unsorted
        /\ v.style # "transparent" /\ d.unsorted => "stopped" \in d.strays
    BY <1>4, <1>7 DEF Surfaced
  <2>2. /\ \/ d.fault = v.fault
           \/ d.fault \in {"freed twice", "used after free"} /\ "torn" \in d.strays
        /\ \/ d.redoSmooth /\ Redone(v) /\ v.style # "transparent"
           \/ SameFlags(d, v) /\ d.scanList = v.scanList
    BY <1>4, <1>6, <1>7 DEF Surfaced
  <2> QED BY <1>2, <1>6, <2>1, <2>2 DEF Surfaced
<1> QED BY <1>5, <1>8

\* draw3DComponents, in any style.
LEMMA ComponentsFacts ==
    ASSUME NEW v, Sound3D(v), v.panel # "VOLUME", NEW option \in {"X", "PS"},
           NEW stop \in Stops
    PROVE  Drawn3D(Draw3DComponents(v, stop, option), v, option)
<1> DEFINE s == SurfaceOf(v, stop, option)
           ps == IF stop = "done" THEN "picture" ELSE "part"
<1>1. Draw3DComponents(v, stop, option) =
        IF option = "PS" /\ v.style # "smooth"
        THEN [s EXCEPT !.shown = v.shown, !.ps = ps] ELSE s
    BY DEF Draw3DComponents, SurfaceOf
<1>2. CASE v.style = "smooth"
  <2>1. s = DrawPhong(v, stop, option)
    BY <1>2 DEF SurfaceOf
  <2> QED BY <1>1, <1>2, <2>1, DrawPhongFacts
<1>3. CASE v.style # "smooth" /\ option = "X"
  <2> HIDE DEF s
  <2>1. Surfaced(s, v)
    BY <1>3, MeshFacts DEF s
  <2> QED BY <1>1, <1>3, <2>1, SurfacedDrawn
<1>4. CASE v.style # "smooth" /\ option = "PS"
  <2>1. Surfaced(s, v)
    BY <1>4, MeshFacts
  <2>2. v.shown \in BOOLEAN /\ ps \in {"picture", "part"}
    BY FieldTypes DEF Sound3D
  <2> HIDE DEF s, ps
  <2>3. Surfaced([s EXCEPT !.shown = v.shown, !.ps = ps], v)
    BY <2>1, <2>2, PrintedFacts
  <2> QED BY <1>1, <1>4, <2>3, SurfacedDrawn
<1> QED BY <1>2, <1>3, <1>4

-----------------------------------------------------------------------------
\* Two viewports that the invariant does not tell apart.
Alike(w, v) ==
    /\ SameScene(w, v) /\ SameFlags(w, v) /\ SameLists(w, v)
    /\ w.redoColor = v.redoColor /\ w.redoDither = v.redoDither
    /\ w.pixelSet = v.pixelSet
    /\ w.viewmap = v.viewmap /\ w.stale = v.stale /\ w.unsorted = v.unsorted
    /\ w.shown => v.shown
    /\ w.ps = v.ps /\ w.strays = v.strays /\ w.fault = v.fault

\* Viewports that are alike are sound alike.
LEMMA AlikeSound ==
    ASSUME NEW v, NEW w \in Viewport3D, Alike(w, v)
    PROVE  /\ Sound3D(v) => Sound3D(w)
           /\ Redone(w) = Redone(v) /\ Torn(w) = Torn(v) /\ Imaged(w) = Imaged(v)
<1>1. Redone(w) = Redone(v) /\ Torn(w) = Torn(v) /\ Imaged(w) = Imaged(v)
  <2>1. Redone(w) = Redone(v)
    BY DEF Alike, SameFlags, Redone
  <2>2. Torn(w) = Torn(v) /\ Imaged(w) = Imaged(v)
    BY DEF Alike, SameScene, Torn, Imaged
  <2> QED BY <2>1, <2>2
<1> SUFFICES ASSUME Sound3D(v) PROVE Sound3D(w)
    BY <1>1
<1>2. PanelsGood(w) /\ ListsGood(w)
    BY <1>1 DEF Alike, Sound3D, PanelsGood, ListsGood, SameScene, SameLists
<1>3. OrderGood(w)
    BY DEF Alike, Sound3D, OrderGood, SameScene, SameFlags
<1>4. ShadesGood(w) /\ PixmapGood(w)
    BY <1>1 DEF Alike, Sound3D, ShadesGood, PixmapGood, SameScene
<1>5. LightGood(w)
    BY DEF Alike, Sound3D, LightGood, SameScene, SameFlags
<1>6. FreshGood(w)
  <2>1. Rescanned(w) = Rescanned(v) /\ Excused(w) = Excused(v)
    BY DEF Alike, Rescanned, Excused
  <2> QED BY <1>1, <2>1 DEF Alike, Sound3D, FreshGood, SameScene
<1>7. FaultGood(w)
    BY <1>1 DEF Alike, Sound3D, FaultGood, SameScene, SameLists
<1> QED BY <1>2, <1>3, <1>4, <1>5, <1>6, <1>7 DEF Sound3D

\* Being alike is transitive,
LEMMA AlikeTransitive ==
    ASSUME NEW u, NEW v, NEW w, Alike(w, u), Alike(u, v)
    PROVE  Alike(w, v)
<1>1. SameScene(w, v) /\ SameFlags(w, v) /\ SameLists(w, v)
    BY SameTransitive DEF Alike
<1> QED BY <1>1 DEF Alike

\* and reflexive.
LEMMA AlikeReflexive ==
    ASSUME NEW v PROVE Alike(v, v)
BY SameReflexive DEF Alike

\* Fields that the invariant does not depend on.
LEMMA AlikeUpdates ==
    ASSUME NEW v \in Viewport3D, NEW b \in BOOLEAN
    PROVE  /\ Alike([v EXCEPT !.outline = b], v)
           /\ Alike([v EXCEPT !.clipbox = b], v)
           /\ Alike([v EXCEPT !.haveControl = b], v)
           /\ Alike([v EXCEPT !.saveFlag = b], v)
           /\ Alike([v EXCEPT !.closing = b], v)
           /\ Alike([v EXCEPT !.redrawView = b], v)
           /\ Alike([v EXCEPT !.exposeView = b], v)
           /\ Alike([v EXCEPT !.follow = b], v)
           /\ Alike([v EXCEPT !.spadDraw = b], v)
           /\ Alike([v EXCEPT !.smoothError = b], v)
           /\ Alike([v EXCEPT !.shown = FALSE], v)
           /\ \A x \in {"all", "some", "none"} : Alike([v EXCEPT !.zoomOn = x], v)
<1>1. Alike([v EXCEPT !.outline = b], v)
    BY DEF Alike, SameScene, SameFlags, SameLists, Viewport3D
<1>2. Alike([v EXCEPT !.clipbox = b], v)
    BY DEF Alike, SameScene, SameFlags, SameLists, Viewport3D
<1>3. Alike([v EXCEPT !.haveControl = b], v)
    BY DEF Alike, SameScene, SameFlags, SameLists, Viewport3D
<1>4. Alike([v EXCEPT !.saveFlag = b], v)
    BY DEF Alike, SameScene, SameFlags, SameLists, Viewport3D
<1>5. Alike([v EXCEPT !.closing = b], v)
    BY DEF Alike, SameScene, SameFlags, SameLists, Viewport3D
<1>6. Alike([v EXCEPT !.redrawView = b], v)
    BY DEF Alike, SameScene, SameFlags, SameLists, Viewport3D
<1>7. Alike([v EXCEPT !.exposeView = b], v)
    BY DEF Alike, SameScene, SameFlags, SameLists, Viewport3D
<1>8. Alike([v EXCEPT !.follow = b], v)
    BY DEF Alike, SameScene, SameFlags, SameLists, Viewport3D
<1>9. Alike([v EXCEPT !.spadDraw = b], v)
    BY DEF Alike, SameScene, SameFlags, SameLists, Viewport3D
<1>10. Alike([v EXCEPT !.smoothError = b], v)
    BY DEF Alike, SameScene, SameFlags, SameLists, Viewport3D
<1>11. Alike([v EXCEPT !.shown = FALSE], v)
    BY DEF Alike, SameScene, SameFlags, SameLists, Viewport3D
<1>12. ASSUME NEW x \in {"all", "some", "none"} PROVE Alike([v EXCEPT !.zoomOn = x], v)
    BY DEF Alike, SameScene, SameFlags, SameLists, Viewport3D
<1> QED
    BY <1>1, <1>2, <1>3, <1>4, <1>5, <1>6, <1>7, <1>8, <1>9, <1>10, <1>11, <1>12

-----------------------------------------------------------------------------
\* What drawViewport gives.
Pictured(w, v, option) ==
    /\ Sound3D(w) /\ SameScene(w, v)
    /\ v.strays \intersect Lasting \subseteq w.strays
    /\ Redone(v) /\ Torn(v) => Torn(w)
    /\ w.fault = "bad drawable" =>
         \/ v.fault = "bad drawable"
         \/ ~w.viewmap /\ "stopped" \in w.strays /\ ~Redone(v)
         \/ ~w.viewmap /\ option = "PS" /\ v.style = "smooth" /\ Redone(v)
    /\ v.viewmap => w.viewmap
    /\ "stopped" \in v.strays /\ ~w.viewmap => "stopped" \in w.strays
    /\ v.panel # "VOLUME" \/ Imaged(v) => Imaged(w)
    /\ w.ps = "empty" => v.ps = "empty" \/ (option = "PS" /\ ~Redone(v))

\* Clearing the window and taking an event leave the viewport alike.
LEMMA TakenFacts ==
    ASSUME NEW v \in Viewport3D, NEW p, NEW option
    PROVE  LET w == Taken(DrawPreViewport(v, option), p)
           IN  w \in Viewport3D /\ Alike(w, v)
<1> DEFINE u == DrawPreViewport(v, option)
           w == Taken(u, p)
<1>1. u \in Viewport3D /\ Alike(u, v)
    BY FlagUpdates, AlikeUpdates, AlikeReflexive DEF DrawPreViewport
<1> HIDE DEF u
<1>2. w \in Viewport3D /\ Alike(w, u)
    BY <1>1, FlagUpdates, AlikeUpdates, AlikeReflexive DEF Taken
<1> HIDE DEF w
<1>3. w \in Viewport3D /\ Alike(w, v)
    BY <1>1, <1>2, AlikeTransitive
<1> QED BY <1>3 DEF w, u

\* A drawing stops at one of its points or is done.
LEMMA StopsFacts ==
    ASSUME NEW v, NEW at \in StopPoints, NEW p
    PROVE  StopsAt(v, at, p) \in Stops
BY DEF StopsAt, Stops, StopPoints

\* While a volume is chosen a drawing changes nothing that matters.
LEMMA AlikePictured ==
    ASSUME NEW v, Sound3D(v), NEW w \in Viewport3D, Alike(w, v), v.panel = "VOLUME",
           NEW option
    PROVE  Pictured(w, v, option)
<1>1. /\ Sound3D(w) /\ Redone(w) = Redone(v) /\ Torn(w) = Torn(v)
      /\ Imaged(w) = Imaged(v)
    BY AlikeSound
<1> QED BY <1>1 DEF Pictured, Alike

\* What the surface makes is what drawViewport gives.
LEMMA DrawnPictured ==
    ASSUME NEW v, Sound3D(v), NEW w, NEW option \in {"X", "PS"}, Drawn3D(w, v, option)
    PROVE  Pictured(w, v, option)
<1>1. PanelsGood(w)
    BY DEF Sound3D, Drawn3D, PanelsGood, SameScene, Lasting
<1> QED BY <1>1 DEF Pictured, Drawn3D, Sound3D

\* It does not matter which of two viewports alike is drawn,
LEMMA PicturedFrom ==
    ASSUME NEW u, NEW v, NEW w, NEW option, u \in Viewport3D, Alike(u, v),
           Pictured(w, u, option)
    PROVE  Pictured(w, v, option)
<1>1. Redone(u) = Redone(v) /\ Torn(u) = Torn(v) /\ Imaged(u) = Imaged(v)
    BY AlikeSound
<1>2. SameScene(w, v)
    BY SameTransitive DEF Pictured, Alike
<1> QED BY <1>1, <1>2 DEF Pictured, Alike, SameScene

\* nor which of two alike a drawing gives.
LEMMA PicturedTo ==
    ASSUME NEW u, NEW v, NEW w \in Viewport3D, NEW option, Pictured(u, v, option),
           Alike(w, u)
    PROVE  Pictured(w, v, option)
<1>1. /\ Sound3D(w) /\ Redone(w) = Redone(u) /\ Torn(w) = Torn(u)
      /\ Imaged(w) = Imaged(u)
    BY AlikeSound DEF Pictured
<1>2. SameScene(w, v)
    BY SameTransitive DEF Pictured, Alike
<1> QED BY <1>1, <1>2 DEF Pictured, Alike

\* A drawing of a sound viewport leaves it sound, wherever it is stopped.
LEMMA DrawViewportFacts ==
    ASSUME NEW v, Sound3D(v), NEW at \in StopPoints, NEW p, NEW option \in {"X", "PS"}
    PROVE  Pictured(DrawViewport(v, at, p, option), v, option)
<1> DEFINE q == Arrived(v, at, p)
           pre == DrawPreViewport(v, option)
           y == Taken(pre, q)
           stop == StopsAt(v, at, q)
           drawn == IF v.panel = "VOLUME" THEN pre ELSE Draw3DComponents(y, stop, option)
           w == [drawn EXCEPT !.smoothError = FALSE]
<1>1. DrawViewport(v, at, p, option) = w
    BY DEF DrawViewport
<1>2. v \in Viewport3D
    BY DEF Sound3D
<1>3. Pictured(drawn, v, option)
  <2>1. CASE v.panel = "VOLUME"
    <3>1. pre \in Viewport3D /\ Alike(pre, v)
      BY <1>2, FlagUpdates, AlikeUpdates, AlikeReflexive DEF DrawPreViewport
    <3> HIDE DEF pre
    <3>2. Pictured(pre, v, option)
      BY <2>1, <3>1, AlikePictured
    <3> QED BY <2>1, <3>2
  <2>2. CASE v.panel # "VOLUME"
    <3>1. y \in Viewport3D /\ Alike(y, v)
      BY <1>2, TakenFacts
    <3>2. stop \in Stops
      BY StopsFacts
    <3> HIDE DEF y, stop
    <3>3. Sound3D(y) /\ y.panel # "VOLUME"
      BY <2>2, <3>1, AlikeSound DEF Alike, SameScene
    <3> DEFINE d == Draw3DComponents(y, stop, option)
    <3>4. Drawn3D(d, y, option)
      BY <3>2, <3>3, ComponentsFacts
    <3> HIDE DEF d
    <3>5. Pictured(d, v, option)
      BY <3>1, <3>3, <3>4, DrawnPictured, PicturedFrom
    <3> QED BY <2>2, <3>5 DEF d
  <2> QED BY <2>1, <2>2
<1> HIDE DEF drawn
<1>4. w \in Viewport3D /\ Alike(w, drawn)
    BY <1>3, FlagUpdates, AlikeUpdates DEF Pictured, Sound3D
<1> HIDE DEF w
<1>5. Pictured(w, v, option)
    BY <1>3, <1>4, PicturedTo
<1> QED BY <1>1, <1>5

-----------------------------------------------------------------------------
\* What holds between the events, and before a drawing.
Settled(v) ==
    /\ Sound3D(v) /\ DrawableGood(v) /\ FileGood(v)
    /\ v.writeImage = FALSE /\ Imaged(v)

Drawable(v) ==
    /\ Sound3D(v) /\ FileGood(v) /\ v.writeImage = FALSE
    /\ v.fault = "bad drawable" => "writeView" \in v.strays
    /\ v.panel # "VOLUME" \/ Imaged(v)

\* The viewport that meets an event, and the one that an event made.
Ready(v) == Settled(v) /\ v.fault = "no"

\* A drawing in X settles a drawable viewport, wherever it is stopped.
LEMMA DrawingSettles ==
    ASSUME NEW v, Drawable(v), NEW at \in StopPoints, NEW p
    PROVE  Settled(DrawViewport(v, at, p, "X"))
<1> DEFINE w == DrawViewport(v, at, p, "X")
<1>1. Pictured(w, v, "X")
    BY DrawViewportFacts DEF Drawable
<1> HIDE DEF w
<1>2. Sound3D(w) /\ Imaged(w) /\ w.writeImage = FALSE
    BY <1>1 DEF Pictured, Drawable, SameScene
<1>3. DrawableGood(w) /\ FileGood(w)
    BY <1>1 DEF Pictured, Drawable, DrawableGood, FileGood, Lasting
<1> QED BY <1>2, <1>3 DEF Settled, w

\* What a drawing meets, it meets at one of its points.
LEMMA MeetsFacts ==
    ASSUME NEW m \in Meets PROVE m[1] \in StopPoints
BY DEF Meets, StopPoints

\* A drawing that may meet any event settles the viewport.
LEMMA RedrawSettles ==
    ASSUME NEW v, Drawable(v), Redraw(v, "X")
    PROVE  Settled(v3')
<1>1. PICK m \in Meets : v3' = DrawViewport(v, m[1], m[2], "X")
    BY DEF Redraw
<1> QED BY <1>1, MeetsFacts, DrawingSettles

\* A viewport between two events can be drawn.
LEMMA ReadyIsDrawable ==
    ASSUME NEW v, Ready(v) PROVE Drawable(v)
BY DEF Ready, Settled, Drawable

-----------------------------------------------------------------------------
\* What an event that draws nothing keeps.
KeptBut(w, v) ==
    /\ SameLists(w, v)
    /\ w.finishedList = v.finishedList /\ w.viewmap = v.viewmap /\ w.ps = v.ps
    /\ w.fault = v.fault /\ w.shades = v.shades
    /\ (v.moved => w.moved) /\ (v.firstTime => w.firstTime)
    /\ (v.redoSmooth => w.redoSmooth)
    /\ v.stale \subseteq w.stale /\ v.strays \subseteq w.strays
    /\ w.unsorted => v.unsorted \/ (w.moved /\ "view" \in w.stale)
    /\ w.shown => v.shown /\ w.stale = v.stale /\ w.style = v.style
                  /\ w.unsorted = v.unsorted

Kept(w, v) == KeptBut(w, v) /\ w.writeImage = v.writeImage

\* What is stale will be drawn.
Due(v) == v.stale = {} \/ Redone(v) \/ Rescanned(v) \/ Excused(v) \/ v.panel = "VOLUME"

\* What draws nothing keeps a viewport sound, if what is stale is due.
LEMMA KeptSound ==
    ASSUME NEW v, Sound3D(v), Torn(v), NEW w \in Viewport3D, KeptBut(w, v),
           PanelsGood(w), ShadesGood(w), LightGood(w), Due(w)
    PROVE  Sound3D(w)
<1>1. Redone(v) => Redone(w)
    BY DEF Kept, KeptBut, Redone
<1>2. ListsGood(w)
    BY <1>1 DEF Kept, KeptBut, Sound3D, ListsGood, SameLists
<1>3. OrderGood(w)
  <2>1. w.unsorted => "view" \in w.stale
    BY DEF Kept, KeptBut, Sound3D, OrderGood
  <2>2. w.unsorted => "stopped" \in w.strays \/ w.moved \/ ~w.finishedList \/ w.firstTime
    BY DEF Kept, KeptBut, Sound3D, OrderGood
  <2>3. w.style \in {"opaqueMesh", "render"} /\ w.shown /\ w.unsorted =>
          "stopped" \in w.strays
    BY DEF Kept, KeptBut, Sound3D, OrderGood
  <2> QED BY <2>1, <2>2, <2>3 DEF OrderGood
<1>4. PixmapGood(w)
  <2>1. w.viewmap \/ w.stale = Aspects
    BY FieldTypes DEF Kept, KeptBut, Sound3D, PixmapGood
  <2> QED BY <1>1, <2>1 DEF Kept, KeptBut, Sound3D, PixmapGood
<1>5. FreshGood(w)
    BY DEF Kept, KeptBut, Sound3D, FreshGood, Due, Excused
<1>6. FaultGood(w)
    BY DEF Kept, KeptBut, Torn, Sound3D, FaultGood
<1> QED BY <1>2, <1>3, <1>4, <1>5, <1>6 DEF Sound3D

\* An event in the same style.
LEMMA KeptReady ==
    ASSUME NEW v, Ready(v), NEW w \in Viewport3D, Kept(w, v),
           PanelsGood(w), ShadesGood(w), LightGood(w), Due(w),
           w.style = "smooth" => v.style = "smooth" \/ "unseen" \in w.strays
    PROVE  Ready(w)
<1>1. Sound3D(w)
  <2>1. Sound3D(v) /\ Torn(v) /\ KeptBut(w, v)
    BY DEF Ready, Settled, Torn, Kept, KeptBut
  <2> QED BY <2>1, KeptSound
<1>2. Imaged(w) /\ FileGood(w) /\ DrawableGood(w)
    BY DEF Ready, Settled, Kept, KeptBut, Imaged, FileGood, DrawableGood
<1> QED BY <1>1, <1>2 DEF Ready, Settled, Kept, KeptBut

\* What is alike to a viewport between two events is one.
LEMMA AlikeReady ==
    ASSUME NEW v, NEW w \in Viewport3D, Alike(w, v), Ready(v)
    PROVE  Ready(w)
BY AlikeSound DEF Ready, Settled, Alike, DrawableGood, FileGood, SameScene

\* What is due in v is due in w.
LEMMA StillDue ==
    ASSUME NEW v, Sound3D(v), NEW w, KeptBut(w, v), w.stale = v.stale,
           w.redoColor = v.redoColor, w.redoDither = v.redoDither,
           w.panel = v.panel \/ v.panel # "VOLUME"
    PROVE  Due(w)
<1>1. Redone(v) => Redone(w)
    BY DEF Kept, KeptBut, Redone
<1>2. (Rescanned(v) => Rescanned(w)) /\ (Excused(v) => Excused(w))
    BY DEF Kept, KeptBut, Rescanned, Excused
<1> QED BY <1>1, <1>2 DEF Sound3D, FreshGood, Due

-----------------------------------------------------------------------------
\* A click on a toggle,
LEMMA ToggleFacts ==
    ASSUME NEW v, Ready(v)
    PROVE  Ready(Toggle(v)) /\ Alike(Toggle(v), v)
<1> DEFINE v1 == [v EXCEPT !.closing = FALSE]
           v2 == [v1 EXCEPT !.exposeView = FALSE]
           w == [v2 EXCEPT !.follow = FALSE]
<1>1. Toggle(v) = w
    BY DEF Toggle
<1>2. v \in Viewport3D
    BY DEF Ready, Settled, Sound3D
<1>3. v1 \in Viewport3D /\ Alike(v1, v)
    BY <1>2, FlagUpdates, AlikeUpdates
<1> HIDE DEF v1
<1>4. v2 \in Viewport3D /\ Alike(v2, v)
    BY <1>3, FlagUpdates, AlikeUpdates, AlikeTransitive
<1> HIDE DEF v2
<1>5. w \in Viewport3D /\ Alike(w, v)
    BY <1>4, FlagUpdates, AlikeUpdates, AlikeTransitive
<1> QED BY <1>1, <1>5, AlikeReady

\* and on a potentiometer.
LEMMA PotFacts ==
    ASSUME NEW v, Ready(v)
    PROVE  Ready(Pot(v)) /\ Alike(Pot(v), v)
<1> DEFINE v1 == [v EXCEPT !.closing = FALSE]
           v2 == [v1 EXCEPT !.exposeView = FALSE]
           w == [v2 EXCEPT !.follow = TRUE]
<1>1. Pot(v) = w
    BY DEF Pot
<1>2. v \in Viewport3D
    BY DEF Ready, Settled, Sound3D
<1>3. v1 \in Viewport3D /\ Alike(v1, v)
    BY <1>2, FlagUpdates, AlikeUpdates
<1> HIDE DEF v1
<1>4. v2 \in Viewport3D /\ Alike(v2, v)
    BY <1>3, FlagUpdates, AlikeUpdates, AlikeTransitive
<1> HIDE DEF v2
<1>5. w \in Viewport3D /\ Alike(w, v)
    BY <1>4, FlagUpdates, AlikeUpdates, AlikeTransitive
<1> QED BY <1>1, <1>5, AlikeReady

\* A change of the scene that the next drawing will make anew.
LEMMA ChangeFacts ==
    ASSUME NEW v \in Viewport3D, NEW aspects \in SUBSET Aspects
    PROVE  LET w == Change(v, aspects)
           IN  /\ w \in Viewport3D /\ w.stale = v.stale \union aspects /\ ~w.shown
               /\ SameScene(w, v) /\ SameFlags(w, v) /\ SameColour(w, v)
               /\ SameLists(w, v) /\ w.viewmap = v.viewmap /\ w.ps = v.ps
               /\ w.unsorted = v.unsorted /\ w.strays = v.strays /\ w.fault = v.fault
               /\ w.multiColor = v.multiColor
<1> DEFINE left == v.stale \union aspects
           v1 == [v EXCEPT !.stale = left]
           w == [v1 EXCEPT !.shown = FALSE]
<1>1. Change(v, aspects) = w
    BY DEF Change
<1>2. left \in SUBSET Aspects
    BY FieldTypes
<1> HIDE DEF left
<1>3. w \in Viewport3D
  <2>1. v1 \in Viewport3D
    BY <1>2, OtherUpdates
  <2> HIDE DEF v1
  <2> QED BY <2>1, FlagUpdates
<1>4. SameScene(w, v) /\ SameFlags(w, v)
    BY DEF SameScene, SameFlags, Viewport3D
<1>5. SameColour(w, v) /\ SameLists(w, v)
    BY DEF SameColour, SameLists, Viewport3D
<1>6. /\ w.stale = left /\ ~w.shown /\ w.viewmap = v.viewmap /\ w.ps = v.ps
      /\ w.unsorted = v.unsorted /\ w.strays = v.strays /\ w.fault = v.fault
      /\ w.multiColor = v.multiColor
    BY DEF Viewport3D
<1> QED BY <1>1, <1>3, <1>4, <1>5, <1>6 DEF left

\* A change of the scene disturbs no panel, shade or light.
LEMMA ChangeKept ==
    ASSUME NEW v, Sound3D(v), NEW aspects \in SUBSET Aspects
    PROVE  LET w == Change(v, aspects)
           IN  Kept(w, v) /\ PanelsGood(w) /\ ShadesGood(w) /\ LightGood(w)
<1> DEFINE w == Change(v, aspects)
<1>1. /\ w \in Viewport3D /\ w.stale = v.stale \union aspects /\ ~w.shown
      /\ SameScene(w, v) /\ SameFlags(w, v) /\ SameColour(w, v)
      /\ SameLists(w, v) /\ w.viewmap = v.viewmap /\ w.ps = v.ps
      /\ w.unsorted = v.unsorted /\ w.strays = v.strays /\ w.fault = v.fault
    BY ChangeFacts DEF Sound3D
<1> HIDE DEF w
<1>2. Kept(w, v)
    BY <1>1 DEF Kept, KeptBut, SameFlags, SameScene
<1>3. PanelsGood(w)
    BY <1>1 DEF PanelsGood, SameScene, Sound3D
<1>4. ShadesGood(w)
    BY <1>1 DEF ShadesGood, SameScene, SameColour, Sound3D
<1>5. LightGood(w)
    BY <1>1 DEF LightGood, SameScene, SameFlags, Sound3D
<1> QED BY <1>2, <1>3, <1>4, <1>5 DEF w

-----------------------------------------------------------------------------
\* The events, each from a viewport v that is ready.
SamePanels(w, v) == w.panel = v.panel /\ w.mapped = v.mapped

SameHues(w, v) ==
    /\ w.shades = v.shades /\ w.oneHue = v.oneHue /\ w.mono = v.mono
    /\ w.pixelSet = v.pixelSet /\ w.redoColor = v.redoColor

SameLight(w, v) ==
    /\ w.light = v.light /\ w.temp = v.temp
    /\ w.movingLight = v.movingLight /\ w.changedIntensity = v.changedIntensity

\* Panels, shades and lights that stay as they are stay good.
LEMMA GoodKept ==
    ASSUME NEW v, Sound3D(v), NEW w, v.strays \subseteq w.strays
    PROVE  /\ SamePanels(w, v) => PanelsGood(w)
           /\ SameHues(w, v) => ShadesGood(w)
           /\ SameLight(w, v) /\ w.mapped = v.mapped => LightGood(w)
<1>1. SamePanels(w, v) => PanelsGood(w)
    BY DEF Sound3D, SamePanels, PanelsGood
<1>2. SameHues(w, v) => ShadesGood(w)
    BY DEF Sound3D, SameHues, ShadesGood
<1>3. SameLight(w, v) /\ w.mapped = v.mapped => LightGood(w)
    BY DEF Sound3D, SameLight, LightGood
<1> QED BY <1>1, <1>2, <1>3

\* What two steps keep, both together keep.
LEMMA KeptTransitive ==
    ASSUME NEW u, NEW v, NEW w, Kept(w, u), Kept(u, v)
    PROVE  Kept(w, v)
<1>1. SameLists(w, v)
    BY SameTransitive DEF Kept, KeptBut
<1> QED BY <1>1 DEF Kept, KeptBut

\* What is alike is kept.
LEMMA AlikeKept ==
    ASSUME NEW v, NEW w, Alike(w, v)
    PROVE  Kept(w, v)
BY DEF Alike, Kept, KeptBut, SameScene, SameFlags

\* What a change keeps besides.
LEMMA ChangeSame ==
    ASSUME NEW v, Ready(v), NEW aspects \in SUBSET Aspects
    PROVE  LET w == Change(v, aspects)
           IN  /\ w \in Viewport3D /\ Kept(w, v) /\ ~w.shown
               /\ w.stale = v.stale \union aspects
               /\ w.strays = v.strays /\ w.style = v.style
               /\ SamePanels(w, v) /\ SameHues(w, v) /\ SameLight(w, v)
               /\ w.redoDither = v.redoDither /\ w.unsorted = v.unsorted
               /\ w.multiColor = v.multiColor
<1> DEFINE w == Change(v, aspects)
<1>1. /\ w \in Viewport3D /\ w.stale = v.stale \union aspects /\ ~w.shown
      /\ SameScene(w, v) /\ SameFlags(w, v) /\ SameColour(w, v)
      /\ w.unsorted = v.unsorted /\ w.strays = v.strays
      /\ w.multiColor = v.multiColor
    BY ChangeFacts DEF Ready, Settled, Sound3D
<1>2. Kept(w, v)
    BY ChangeKept DEF Ready, Settled
<1> HIDE DEF w
<1>3. SamePanels(w, v) /\ SameHues(w, v) /\ SameLight(w, v)
    BY <1>1 DEF SamePanels, SameHues, SameLight, SameScene, SameFlags, SameColour
<1> QED BY <1>1, <1>2, <1>3 DEF w, SameScene, SameColour

\* A change of the scene with redoSmooth: Region3D, Resized and the commands.
LEMMA RemadeReady ==
    ASSUME NEW v, Ready(v), NEW aspects \in SUBSET Aspects
    PROVE  Ready([Change(v, aspects) EXCEPT !.redoSmooth = TRUE])
<1> DEFINE c == Change(v, aspects)
           w == [c EXCEPT !.redoSmooth = TRUE]
<1>1. /\ c \in Viewport3D /\ Kept(c, v) /\ c.strays = v.strays /\ c.style = v.style
      /\ SamePanels(c, v) /\ SameHues(c, v) /\ SameLight(c, v)
    BY ChangeSame
<1> HIDE DEF c
<1>2. w \in Viewport3D
    BY <1>1, FlagUpdates
<1>3. /\ Kept(w, c) /\ SamePanels(w, c) /\ w.strays = c.strays /\ w.style = c.style
      /\ w.redoSmooth
    BY <1>1 DEF Kept, KeptBut, SameLists, SamePanels, Viewport3D
<1>4. SameHues(w, c) /\ SameLight(w, c)
    BY <1>1 DEF SameHues, SameLight, Viewport3D
<1> HIDE DEF w
<1>5. Kept(w, v)
    BY <1>1, <1>3, KeptTransitive
<1>6. SamePanels(w, v) /\ SameHues(w, v) /\ SameLight(w, v)
    BY <1>1, <1>3, <1>4 DEF SamePanels, SameHues, SameLight
<1>7. PanelsGood(w) /\ ShadesGood(w) /\ LightGood(w)
    BY <1>5, <1>6, GoodKept DEF Kept, KeptBut, SamePanels, Ready, Settled
<1>8. Due(w)
    BY <1>3 DEF Due, Redone
<1> QED BY <1>1, <1>2, <1>3, <1>5, <1>7, <1>8, KeptReady DEF w, c

\* A view that changed: Rotate, Zoom, Translate, PlaneButton and the commands.
LEMMA MovedReady ==
    ASSUME NEW v, Ready(v)
    PROVE  Ready(Moved(v)) /\ SamePanels(Moved(v), v)
<1> DEFINE c == Change(v, {"view"})
           w1 == [c EXCEPT !.moved = TRUE]
           w == [w1 EXCEPT !.unsorted = TRUE]
<1>1. Moved(v) = w
    BY DEF Moved
<1>2. /\ c \in Viewport3D /\ Kept(c, v) /\ c.strays = v.strays /\ c.style = v.style
      /\ SamePanels(c, v) /\ SameHues(c, v) /\ SameLight(c, v)
      /\ c.stale = v.stale \union {"view"} /\ ~c.shown
  <2>1. {"view"} \in SUBSET Aspects
    BY DEF Aspects
  <2> QED BY <2>1, ChangeSame
<1> HIDE DEF c
<1>3. w \in Viewport3D
  <2>1. w1 \in Viewport3D
    BY <1>2, FlagUpdates
  <2> HIDE DEF w1
  <2> QED BY <2>1, FlagUpdates
<1>4. /\ Kept(w, c) /\ SamePanels(w, c) /\ w.strays = c.strays /\ w.style = c.style
      /\ w.moved
  <2>1. /\ SameLists(w, c) /\ w.finishedList = c.finishedList /\ w.viewmap = c.viewmap
        /\ w.ps = c.ps /\ w.fault = c.fault /\ w.shades = c.shades
    BY <1>2 DEF SameLists, Viewport3D
  <2>2. /\ w.moved /\ w.unsorted /\ w.firstTime = c.firstTime /\ w.redoSmooth = c.redoSmooth
        /\ w.stale = c.stale /\ w.strays = c.strays /\ w.writeImage = c.writeImage
    BY <1>2 DEF Viewport3D
  <2>3. SamePanels(w, c) /\ w.style = c.style /\ w.shown = c.shown
    BY <1>2 DEF SamePanels, Viewport3D
  <2>4. "view" \in w.stale
    BY <1>2, <2>2
  <2>5. ~w.shown /\ w.strays = c.strays
    BY <1>2, <2>2, <2>3
  <2> HIDE DEF w
  <2>6. /\ c.moved => w.moved
        /\ c.firstTime => w.firstTime
        /\ c.redoSmooth => w.redoSmooth
    BY <2>2
  <2>8. /\ c.stale \subseteq w.stale /\ c.strays \subseteq w.strays
        /\ w.unsorted => c.unsorted \/ (w.moved /\ "view" \in w.stale)
    BY <2>2, <2>4
  <2>7. KeptBut(w, c)
    BY <2>1, <2>5, <2>6, <2>8 DEF KeptBut
  <2> QED BY <2>2, <2>3, <2>5, <2>7 DEF Kept
<1>5. SameHues(w, c) /\ SameLight(w, c)
    BY <1>2 DEF SameHues, SameLight, Viewport3D
<1> HIDE DEF w
<1>6. Kept(w, v)
    BY <1>2, <1>4, KeptTransitive
<1>7. SamePanels(w, v) /\ SameHues(w, v) /\ SameLight(w, v)
    BY <1>2, <1>4, <1>5 DEF SamePanels, SameHues, SameLight
<1>8. PanelsGood(w) /\ ShadesGood(w) /\ LightGood(w)
    BY <1>6, <1>7, GoodKept DEF Kept, KeptBut, SamePanels, Ready, Settled
<1>9. Due(w)
    BY <1>4 DEF Due, Redone
<1> QED BY <1>1, <1>2, <1>3, <1>4, <1>6, <1>7, <1>8, <1>9, KeptReady

\* The flags of a drawing.
LEMMA FlaggedReady ==
    ASSUME NEW v, Ready(v)
    PROVE  Ready([v EXCEPT !.redoSmooth = TRUE]) /\ Ready([v EXCEPT !.moved = TRUE])
<1>1. v \in Viewport3D
    BY DEF Ready, Settled, Sound3D
<1> DEFINE r == [v EXCEPT !.redoSmooth = TRUE]
           m == [v EXCEPT !.moved = TRUE]
<1>2. r \in Viewport3D /\ m \in Viewport3D
    BY <1>1, FlagUpdates
<1>3. Kept(r, v) /\ SamePanels(r, v) /\ r.style = v.style /\ r.redoSmooth
    BY <1>1 DEF Kept, KeptBut, SameLists, SamePanels, Viewport3D
<1>4. SameHues(r, v) /\ SameLight(r, v)
    BY <1>1 DEF SameHues, SameLight, Viewport3D
<1>5. Kept(m, v) /\ SamePanels(m, v) /\ m.style = v.style /\ m.moved
    BY <1>1 DEF Kept, KeptBut, SameLists, SamePanels, Viewport3D
<1>6. SameHues(m, v) /\ SameLight(m, v)
    BY <1>1 DEF SameHues, SameLight, Viewport3D
<1> HIDE DEF r, m
<1>7. /\ PanelsGood(r) /\ ShadesGood(r) /\ LightGood(r)
      /\ PanelsGood(m) /\ ShadesGood(m) /\ LightGood(m)
    BY <1>3, <1>4, <1>5, <1>6, GoodKept DEF Kept, KeptBut, SamePanels, Ready, Settled
<1>8. Due(r) /\ Due(m)
    BY <1>3, <1>5 DEF Due, Redone
<1>9. Ready(r)
    BY <1>2, <1>3, <1>7, <1>8, KeptReady
<1>10. Ready(m)
    BY <1>2, <1>5, <1>7, <1>8, KeptReady
<1> QED BY <1>9, <1>10 DEF r, m

\* An excuse may be noted at any time.
LEMMA StrayReady ==
    ASSUME NEW v, Ready(v), NEW x \in Excuses
    PROVE  Ready(Stray(v, x)) /\ Stray(v, x).strays = v.strays \union {x}
           /\ SameScene(Stray(v, x), v)
<1> DEFINE w == Stray(v, x)
<1>1. /\ w \in Viewport3D
      /\ SameScene(w, v) /\ SameFlags(w, v) /\ SameColour(w, v)
      /\ SameLists(w, v) /\ SamePicture(w, v)
      /\ w.strays = v.strays \union {x} /\ w.fault = v.fault
    BY StrayFacts DEF Ready, Settled, Sound3D
<1> HIDE DEF w
<1>2. Kept(w, v)
    BY <1>1 DEF Kept, KeptBut, SameScene, SameFlags, SamePicture
<1>3. SamePanels(w, v) /\ SameHues(w, v) /\ SameLight(w, v)
    BY <1>1 DEF SamePanels, SameHues, SameLight, SameScene, SameFlags, SameColour
<1>4. PanelsGood(w) /\ ShadesGood(w) /\ LightGood(w)
    BY <1>2, <1>3, GoodKept DEF Kept, KeptBut, SamePanels, Ready, Settled
<1>5. Due(w)
    BY <1>1, <1>2, StillDue DEF Kept, Ready, Settled, SamePicture, SameColour, SameScene
<1>6. Ready(w)
    BY <1>1, <1>2, <1>4, <1>5, KeptReady DEF SameScene
<1> QED BY <1>1, <1>6 DEF w

\* BwColor.
LEMMA BwReady ==
    ASSUME NEW v, Ready(v)
    PROVE  Ready([Change(v, {"colour"}) EXCEPT
                    !.mono = ~@, !.redoSmooth = TRUE,
                    !.redoColor = @ \/ v.oneHue, !.redoDither = @ \/ ~v.oneHue])
<1> DEFINE c == Change(v, {"colour"})
           mono == ~c.mono
           color == c.redoColor \/ v.oneHue
           dither == c.redoDither \/ ~v.oneHue
           w1 == [c EXCEPT !.mono = mono]
           w2 == [w1 EXCEPT !.redoSmooth = TRUE]
           w3 == [w2 EXCEPT !.redoColor = color]
           w == [w3 EXCEPT !.redoDither = dither]
<1>1. /\ c \in Viewport3D /\ Kept(c, v) /\ c.strays = v.strays /\ c.style = v.style
      /\ SamePanels(c, v) /\ SameHues(c, v) /\ SameLight(c, v) /\ ~c.shown
  <2>1. {"colour"} \in SUBSET Aspects
    BY DEF Aspects
  <2> QED BY <2>1, ChangeSame
<1>2. {mono, color, dither} \subseteq BOOLEAN
    OBVIOUS
<1>3. [Change(v, {"colour"}) EXCEPT
         !.mono = ~@, !.redoSmooth = TRUE,
         !.redoColor = @ \/ v.oneHue, !.redoDither = @ \/ ~v.oneHue] = w
  <2> HIDE DEF c
  <2> QED BY <1>1 DEF Viewport3D, c
<1> HIDE DEF c, mono, color, dither
<1>4. w \in Viewport3D
  <2>1. w1 \in Viewport3D
    BY <1>1, <1>2, FlagUpdates
  <2> HIDE DEF w1
  <2>2. w2 \in Viewport3D
    BY <2>1, FlagUpdates
  <2> HIDE DEF w2
  <2>3. w3 \in Viewport3D
    BY <1>2, <2>2, FlagUpdates
  <2> HIDE DEF w3
  <2> QED BY <1>2, <2>3, FlagUpdates
<1>5. /\ Kept(w, c) /\ SamePanels(w, c) /\ w.strays = c.strays /\ w.style = c.style
      /\ w.redoSmooth
    BY <1>1 DEF Kept, KeptBut, SameLists, SamePanels, Viewport3D
<1>6. /\ SameLight(w, c) /\ w.shades = c.shades /\ w.oneHue = c.oneHue
      /\ w.redoColor = color
    BY <1>1 DEF SameLight, Viewport3D
<1> HIDE DEF w
<1>7. Kept(w, v)
    BY <1>1, <1>5, KeptTransitive
<1>8. SamePanels(w, v) /\ SameLight(w, v)
    BY <1>1, <1>5, <1>6 DEF SamePanels, SameLight
<1>9. PanelsGood(w) /\ LightGood(w)
    BY <1>7, <1>8, GoodKept DEF Kept, KeptBut, SamePanels, Ready, Settled
<1>10. ShadesGood(w)
    BY <1>1, <1>6 DEF ShadesGood, SameHues, color
<1>11. Due(w)
    BY <1>5 DEF Due, Redone
<1>12. Ready(w)
    BY <1>1, <1>4, <1>5, <1>7, <1>9, <1>10, <1>11, KeptReady
<1> QED BY <1>3, <1>12

\* A change that a scan of the lists shows.
LEMMA RescanDue ==
    ASSUME NEW v, Sound3D(v), NEW w, Kept(w, v), w.stale \subseteq v.stale \union Buffered,
           w.redoColor \/ w.redoDither, w.panel = v.panel
    PROVE  Due(w)
<1>1. Redone(v) => Redone(w)
    BY DEF Kept, KeptBut, Redone
<1>2. (Rescanned(v) \/ v.stale = {} => Rescanned(w)) /\ (Excused(v) => Excused(w))
    BY DEF Kept, KeptBut, Rescanned, Excused
<1> QED BY <1>1, <1>2 DEF Sound3D, FreshGood, Due

\* Axes turned on or off; scanned again in the smooth style, else excused.
LEMMA AxesReady ==
    ASSUME NEW v, Ready(v)
    PROVE  Ready(AxesChanged(v))
<1> DEFINE c == Change(v, {"axes"})
           dither == c.redoDither \/ v.multiColor
           color == c.redoColor \/ ~v.multiColor
           w1 == [c EXCEPT !.redoDither = dither]
           w == [w1 EXCEPT !.redoColor = color]
<1>1. /\ c \in Viewport3D /\ Kept(c, v) /\ c.strays = v.strays /\ c.style = v.style
      /\ SamePanels(c, v) /\ SameHues(c, v) /\ SameLight(c, v) /\ ~c.shown
      /\ c.stale = v.stale \union {"axes"}
  <2>1. {"axes"} \in SUBSET Aspects
    BY DEF Aspects
  <2> QED BY <2>1, ChangeSame
<1>2. AxesChanged(v) = IF v.style = "smooth" THEN w ELSE Stray(c, "axes")
  <2>1. [c EXCEPT !.redoDither = @ \/ v.multiColor, !.redoColor = @ \/ ~v.multiColor] = w
    <3> HIDE DEF c
    <3> QED BY <1>1 DEF Viewport3D
  <2> QED BY <2>1 DEF AxesChanged
<1>3. {dither, color} \subseteq BOOLEAN /\ (dither \/ color)
    OBVIOUS
<1> HIDE DEF c, dither
<1>4. CASE v.style = "smooth"
  <2>1. w \in Viewport3D
    <3> HIDE DEF color
    <3>1. w1 \in Viewport3D
      BY <1>1, <1>3, FlagUpdates
    <3> HIDE DEF w1
    <3> QED BY <1>3, <3>1, FlagUpdates
  <2>2. /\ Kept(w, c) /\ SamePanels(w, c) /\ w.strays = c.strays /\ w.style = c.style
        /\ w.redoColor = color /\ w.redoDither = dither /\ w.stale = c.stale
    <3> HIDE DEF color
    <3> QED BY <1>1 DEF Kept, KeptBut, SameLists, SamePanels, Viewport3D
  <2>3. /\ SameLight(w, c) /\ w.shades = c.shades /\ w.oneHue = c.oneHue
        /\ w.mono = c.mono /\ w.pixelSet = c.pixelSet
    <3> HIDE DEF color
    <3> QED BY <1>1 DEF SameLight, Viewport3D
  <2> HIDE DEF w
  <2>4. Kept(w, v)
    BY <1>1, <2>2, KeptTransitive
  <2>5. SamePanels(w, v) /\ SameLight(w, v)
    BY <1>1, <2>2, <2>3 DEF SamePanels, SameLight
  <2>6. PanelsGood(w) /\ LightGood(w)
    BY <2>4, <2>5, GoodKept DEF Kept, KeptBut, SamePanels, Ready, Settled
  <2>7. ShadesGood(w)
    BY <1>1, <2>2, <2>3 DEF ShadesGood, SameHues, color, Ready, Settled, Sound3D
  <2>8. Due(w)
    <3>1. w.stale \subseteq v.stale \union Buffered
      BY <1>1, <2>2 DEF Buffered
    <3> QED BY <1>3, <2>2, <2>4, <2>5, <3>1, RescanDue DEF SamePanels, Ready, Settled
  <2>9. Ready(w)
    BY <1>1, <2>1, <2>2, <2>4, <2>6, <2>7, <2>8, KeptReady
  <2> QED BY <1>2, <1>4, <2>9
<1>5. CASE v.style # "smooth"
  <2> DEFINE s == Stray(c, "axes")
  <2>1. /\ s \in Viewport3D
        /\ SameScene(s, c) /\ SameFlags(s, c) /\ SameColour(s, c)
        /\ SameLists(s, c) /\ SamePicture(s, c)
        /\ s.strays = c.strays \union {"axes"} /\ s.fault = c.fault
    BY <1>1, StrayFacts DEF Excuses
  <2> HIDE DEF s
  <2>2. Kept(s, c)
    BY <2>1 DEF Kept, KeptBut, SameScene, SameFlags, SamePicture
  <2>3. Kept(s, v)
    BY <1>1, <2>2, KeptTransitive
  <2>4. SamePanels(s, v) /\ SameHues(s, v) /\ SameLight(s, v) /\ s.style = v.style
    BY <1>1, <2>1 DEF SamePanels, SameHues, SameLight, SameScene, SameFlags, SameColour
  <2>5. PanelsGood(s) /\ ShadesGood(s) /\ LightGood(s)
    BY <2>3, <2>4, GoodKept DEF Kept, KeptBut, SamePanels, Ready, Settled
  <2>6. Due(s)
    BY <2>1 DEF Due, Excused
  <2>7. Ready(s)
    BY <2>1, <2>3, <2>4, <2>5, <2>6, KeptReady
  <2> QED BY <1>2, <1>5, <2>7 DEF s
<1> QED BY <1>4, <1>5

\* The colour map; d is what becomes of redoDither.
LEMMA HuesReady ==
    ASSUME NEW v, Ready(v), NEW oneHue \in BOOLEAN, NEW d \in BOOLEAN,
           ~(oneHue /\ ~v.mono) => d
    PROVE  Ready([Hues(v, oneHue) EXCEPT !.redoDither = d])
<1> DEFINE c == Change(v, {"colour"})
           one == oneHue /\ ~v.mono
           w1 == [c EXCEPT !.oneHue = oneHue]
           w2 == [w1 EXCEPT !.redoColor = one]
           w == [w2 EXCEPT !.redoDither = d]
<1>1. /\ c \in Viewport3D /\ Kept(c, v) /\ c.strays = v.strays /\ c.style = v.style
      /\ SamePanels(c, v) /\ SameHues(c, v) /\ SameLight(c, v) /\ ~c.shown
      /\ c.stale = v.stale \union {"colour"}
  <2>1. {"colour"} \in SUBSET Aspects
    BY DEF Aspects
  <2> QED BY <2>1, ChangeSame
<1>2. [Hues(v, oneHue) EXCEPT !.redoDither = d] = w
    BY DEF Hues
<1>3. one \in BOOLEAN
    OBVIOUS
<1> HIDE DEF c, one
<1>4. w \in Viewport3D
  <2>1. w1 \in Viewport3D
    BY <1>1, FlagUpdates
  <2> HIDE DEF w1
  <2>2. w2 \in Viewport3D
    BY <1>3, <2>1, FlagUpdates
  <2> HIDE DEF w2
  <2> QED BY <2>2, FlagUpdates
<1>5. /\ Kept(w, c) /\ SamePanels(w, c) /\ w.strays = c.strays /\ w.style = c.style
      /\ w.redoColor = one /\ w.redoDither = d /\ w.stale = c.stale
    BY <1>1 DEF Kept, KeptBut, SameLists, SamePanels, Viewport3D
<1>6. SameLight(w, c) /\ w.oneHue = oneHue /\ w.mono = c.mono
    BY <1>1 DEF SameLight, Viewport3D
<1> HIDE DEF w
<1>7. Kept(w, v)
    BY <1>1, <1>5, KeptTransitive
<1>8. SamePanels(w, v) /\ SameLight(w, v)
    BY <1>1, <1>5, <1>6 DEF SamePanels, SameLight
<1>9. PanelsGood(w) /\ LightGood(w)
    BY <1>7, <1>8, GoodKept DEF Kept, KeptBut, SamePanels, Ready, Settled
<1>10. ShadesGood(w)
    BY <1>1, <1>5, <1>6 DEF ShadesGood, SameHues, one
<1>11. Due(w)
  <2>1. w.stale \subseteq v.stale \union Buffered
    BY <1>1, <1>5 DEF Buffered
  <2>2. w.redoColor \/ w.redoDither
    BY <1>5 DEF one
  <2> QED BY <1>7, <1>8, <2>1, <2>2, RescanDue DEF SamePanels, Ready, Settled
<1>12. Ready(w)
    BY <1>1, <1>4, <1>5, <1>7, <1>9, <1>10, <1>11, KeptReady
<1> QED BY <1>2, <1>12

\* The colours chosen by a command.
LEMMA ColorDefReady ==
    ASSUME NEW v, Ready(v), NEW oneHue \in BOOLEAN
    PROVE  Ready(ColorDef(v, oneHue))
<1> DEFINE h == Hues(v, oneHue)
           d == h.redoDither \/ ~(oneHue /\ ~v.mono)
<1>1. ColorDef(v, oneHue) = [h EXCEPT !.redoDither = d]
    BY DEF ColorDef
<1>2. d \in BOOLEAN /\ (~(oneHue /\ ~v.mono) => d)
    OBVIOUS
<1> HIDE DEF d
<1>3. Ready([Hues(v, oneHue) EXCEPT !.redoDither = d])
    BY <1>2, HuesReady
<1> QED BY <1>1, <1>3

\* resetView.
LEMMA ResetReady ==
    ASSUME NEW v, Ready(v), NEW differ \in BOOLEAN,
           "light" \in v.mapped => "light" \in v.strays
    PROVE  /\ Ready(Reset(v, differ)) /\ Redone(Reset(v, differ))
           /\ SamePanels(Reset(v, differ), v)
<1> DEFINE c == Change(v, {"view", "axes", "box", "colour", "light"})
           moved == c.moved \/ differ
           unsorted == c.unsorted \/ differ
           w1 == [c EXCEPT !.outline = FALSE]
           w2 == [w1 EXCEPT !.mono = FALSE]
           w3 == [w2 EXCEPT !.zoomOn = "all"]
           w4 == [w3 EXCEPT !.light = 0]
           w5 == [w4 EXCEPT !.redoSmooth = TRUE]
           w6 == [w5 EXCEPT !.moved = moved]
           w == [w6 EXCEPT !.unsorted = unsorted]
           s == IF v.mono THEN Stray(w, "reset from BW") ELSE w
<1>1. /\ c \in Viewport3D /\ Kept(c, v) /\ c.strays = v.strays /\ c.style = v.style
      /\ SamePanels(c, v) /\ SameHues(c, v) /\ SameLight(c, v) /\ ~c.shown
      /\ c.stale = v.stale \union {"view", "axes", "box", "colour", "light"}
  <2>1. {"view", "axes", "box", "colour", "light"} \in SUBSET Aspects
    BY DEF Aspects
  <2> QED BY <2>1, ChangeSame
<1>2. Reset(v, differ) = s
  <2>1. [c EXCEPT !.outline = FALSE, !.mono = FALSE,
                  !.zoomOn = "all", !.light = 0, !.redoSmooth = TRUE,
                  !.moved = @ \/ differ, !.unsorted = @ \/ differ] = w
    <3> HIDE DEF c
    <3> QED BY <1>1 DEF Viewport3D
  <2> QED BY <2>1 DEF Reset
<1>3. {moved, unsorted} \subseteq BOOLEAN
    OBVIOUS
<1> HIDE DEF c
<1>4. w \in Viewport3D
  <2> HIDE DEF moved, unsorted
  <2>1. w1 \in Viewport3D
    BY <1>1, FlagUpdates
  <2> HIDE DEF w1
  <2>2. w2 \in Viewport3D
    BY <2>1, FlagUpdates
  <2> HIDE DEF w2
  <2>3. w3 \in Viewport3D
    BY <2>2, OtherUpdates
  <2> HIDE DEF w3
  <2>4. w4 \in Viewport3D
    <3>1. 0 \in 0 .. 1
      OBVIOUS
    <3> QED BY <2>3, <3>1, OtherUpdates, Zenon
  <2> HIDE DEF w4
  <2>5. w5 \in Viewport3D
    BY <2>4, FlagUpdates
  <2> HIDE DEF w5
  <2>6. w6 \in Viewport3D
    BY <1>3, <2>5, FlagUpdates
  <2> HIDE DEF w6
  <2> QED BY <1>3, <2>6, FlagUpdates
<1>5. Kept(w, c)
  <2>1. /\ SameLists(w, c)
        /\ w.finishedList = c.finishedList /\ w.viewmap = c.viewmap /\ w.ps = c.ps
        /\ w.fault = c.fault /\ w.writeImage = c.writeImage
        /\ w.firstTime = c.firstTime /\ w.redoSmooth
        /\ w.stale = c.stale /\ w.strays = c.strays
        /\ w.shown = c.shown
    BY <1>1 DEF SameLists, Viewport3D
  <2>2. (c.moved => w.moved) /\ (w.unsorted => c.unsorted \/ (w.moved /\ "view" \in w.stale))
    <3>1. w.moved = (c.moved \/ differ) /\ w.unsorted = (c.unsorted \/ differ)
      BY <1>1 DEF Viewport3D
    <3> QED BY <1>1, <2>1, <3>1
  <2> QED BY <1>1, <2>1, <2>2 DEF Kept, KeptBut
<1>6. /\ SamePanels(w, c) /\ w.strays = c.strays /\ w.style = c.style
      /\ w.redoSmooth /\ w.movingLight = c.movingLight
      /\ w.changedIntensity = c.changedIntensity
      /\ w.shades = c.shades /\ w.oneHue = c.oneHue /\ w.mono = FALSE
      /\ w.pixelSet = c.pixelSet /\ w.redoColor = c.redoColor
    BY <1>1 DEF SamePanels, Viewport3D
<1> HIDE DEF w
<1>7. /\ s \in Viewport3D /\ Kept(s, w) /\ w.strays \subseteq s.strays
      /\ SamePanels(s, w) /\ SameHues(s, w) /\ s.style = w.style
      /\ s.redoSmooth /\ (v.mono => "reset from BW" \in s.strays)
  <2>1. CASE ~v.mono
    <3>1. s = w
      BY <2>1
    <3>2. Kept(w, w)
      BY DEF Kept, KeptBut, SameLists
    <3> QED BY <1>4, <1>6, <2>1, <3>1, <3>2 DEF SamePanels, SameHues
  <2>2. CASE v.mono
    <3>1. s = Stray(w, "reset from BW")
      BY <2>2
    <3>2. /\ s \in Viewport3D
          /\ SameScene(s, w) /\ SameFlags(s, w) /\ SameColour(s, w)
          /\ SameLists(s, w) /\ SamePicture(s, w)
          /\ s.strays = w.strays \union {"reset from BW"} /\ s.fault = w.fault
      BY <1>4, <3>1, StrayFacts DEF Excuses
    <3> HIDE DEF s
    <3>3. Kept(s, w)
      BY <3>2 DEF Kept, KeptBut, SameScene, SameFlags, SamePicture
    <3> QED
      BY <1>6, <3>2, <3>3
         DEF SamePanels, SameHues, SameScene, SameFlags, SameColour
  <2> QED BY <2>1, <2>2
<1> HIDE DEF s
<1>8. Kept(s, v)
    BY <1>1, <1>5, <1>7, KeptTransitive
<1>9. SamePanels(s, v)
    BY <1>1, <1>6, <1>7 DEF SamePanels
<1>10. PanelsGood(s)
    BY <1>8, <1>9, GoodKept DEF Kept, KeptBut, Ready, Settled
<1>11. LightGood(s)
    BY <1>8, <1>9 DEF LightGood, SamePanels, Kept, KeptBut
<1>12. ShadesGood(s)
  <2>1. /\ s.shades = v.shades /\ s.oneHue = v.oneHue
        /\ s.pixelSet = v.pixelSet /\ s.redoColor = v.redoColor
    BY <1>1, <1>6, <1>7 DEF SameHues
  <2>2. v.strays \subseteq s.strays
    BY <1>8 DEF Kept, KeptBut
  <2> QED BY <1>7, <2>1, <2>2 DEF ShadesGood, Ready, Settled, Sound3D
<1>13. Redone(s) /\ Due(s)
    BY <1>7 DEF Due, Redone
<1>14. Ready(s)
    BY <1>1, <1>6, <1>7, <1>8, <1>10, <1>11, <1>12, <1>13, KeptReady
<1> QED BY <1>2, <1>9, <1>13, <1>14

-----------------------------------------------------------------------------
\* The panels.
SameElse(w, v) ==
    /\ Kept(w, v) /\ SameHues(w, v) /\ SameLight(w, v)
    /\ w.redoDither = v.redoDither /\ w.stale = v.stale /\ w.style = v.style
    /\ w.strays = v.strays

\* What two changes of panels leave alone, both together leave alone.
LEMMA SameElseTransitive ==
    ASSUME NEW u, NEW v, NEW w, SameElse(w, u), SameElse(u, v)
    PROVE  SameElse(w, v)
<1>1. Kept(w, v)
    BY KeptTransitive DEF SameElse
<1> QED BY <1>1 DEF SameElse, SameHues, SameLight

\* What is alike has the same panels and all else.
LEMMA AlikeElse ==
    ASSUME NEW v, NEW w, Alike(w, v)
    PROVE  SameElse(w, v) /\ SamePanels(w, v)
<1>1. Kept(w, v)
    BY AlikeKept
<1> QED
    BY <1>1 DEF SameElse, SamePanels, SameHues, SameLight, Alike, SameScene, SameFlags

\* The panel that is named,
LEMMA PanelUpdate ==
    ASSUME NEW v \in Viewport3D, NEW x \in Panels
    PROVE  LET w == [v EXCEPT !.panel = x]
           IN  w \in Viewport3D /\ SameElse(w, v) /\ w.panel = x /\ w.mapped = v.mapped
<1> DEFINE w == [v EXCEPT !.panel = x]
<1>1. Kept(w, v) /\ w.panel = x /\ w.mapped = v.mapped
    BY DEF Kept, KeptBut, SameLists, Viewport3D
<1>2. /\ SameHues(w, v) /\ SameLight(w, v)
      /\ w.redoDither = v.redoDither /\ w.stale = v.stale /\ w.style = v.style
      /\ w.strays = v.strays
    BY DEF SameHues, SameLight, Viewport3D
<1>3. w \in Viewport3D
    BY OtherUpdates
<1> QED BY <1>1, <1>2, <1>3 DEF SameElse

\* and those that are up.
LEMMA MappedUpdate ==
    ASSUME NEW v \in Viewport3D, NEW x \in SUBSET PopUps
    PROVE  LET w == [v EXCEPT !.mapped = x]
           IN  w \in Viewport3D /\ SameElse(w, v) /\ w.panel = v.panel /\ w.mapped = x
<1> DEFINE w == [v EXCEPT !.mapped = x]
<1>1. Kept(w, v) /\ w.panel = v.panel /\ w.mapped = x
    BY DEF Kept, KeptBut, SameLists, Viewport3D
<1>2. /\ SameHues(w, v) /\ SameLight(w, v)
      /\ w.redoDither = v.redoDither /\ w.stale = v.stale /\ w.style = v.style
      /\ w.strays = v.strays
    BY DEF SameHues, SameLight, Viewport3D
<1>3. w \in Viewport3D
    BY OtherUpdates
<1> QED BY <1>1, <1>2, <1>3 DEF SameElse

\* A flag that the invariant does not depend on.
LEMMA FlagElse ==
    ASSUME NEW v \in Viewport3D, NEW b \in BOOLEAN
    PROVE  /\ LET w == [v EXCEPT !.closing = b]
              IN  w \in Viewport3D /\ SameElse(w, v) /\ SamePanels(w, v)
           /\ LET w == [v EXCEPT !.saveFlag = b]
              IN  w \in Viewport3D /\ SameElse(w, v) /\ SamePanels(w, v)
           /\ LET w == [v EXCEPT !.redrawView = b]
              IN  w \in Viewport3D /\ SameElse(w, v) /\ SamePanels(w, v)
BY FlagUpdates, AlikeUpdates, AlikeElse

\* A panel that comes or goes.
LEMMA PanelReady ==
    ASSUME NEW v, Ready(v), NEW w \in Viewport3D, SameElse(w, v), PanelsGood(w),
           "light" \in w.mapped => "light" \in v.mapped,
           w.panel = v.panel \/ v.panel # "VOLUME" \/ w.panel = "VOLUME"
    PROVE  Ready(w)
<1>1. ShadesGood(w)
    BY GoodKept DEF SameElse, Ready, Settled
<1>2. LightGood(w)
    BY DEF SameElse, SameLight, LightGood, Ready, Settled, Sound3D
<1>3. Due(w)
    BY StillDue DEF Kept, SameElse, SameHues, Ready, Settled, Due
<1> QED BY <1>1, <1>2, <1>3, KeptReady DEF SameElse

\* The save panel may be put away.
LEMMA PutSaveAwayFacts ==
    ASSUME NEW v \in Viewport3D
    PROVE  LET w == PutSaveAway(v)
           IN  /\ w \in Viewport3D /\ SameElse(w, v) /\ w.panel = v.panel
               /\ w.mapped \in {v.mapped, v.mapped \ {"save"}}
<1> DEFINE x == v.mapped \ {"save"}
           w == [v EXCEPT !.mapped = x]
<1>1. PutSaveAway(v) = IF v.saveFlag THEN w ELSE v
    BY DEF PutSaveAway
<1>2. x \in SUBSET PopUps
    BY FieldTypes
<1> HIDE DEF x
<1>3. w \in Viewport3D /\ SameElse(w, v) /\ w.panel = v.panel /\ w.mapped = x
    BY <1>2, MappedUpdate
<1> HIDE DEF w
<1>4. SameElse(v, v)
    BY AlikeElse, AlikeReflexive
<1> QED BY <1>1, <1>3, <1>4 DEF x

\* Close puts the quit panel up and names it.
LEMMA CloseAllReady ==
    ASSUME NEW v, Ready(v), InCorner(v)
    PROVE  Ready([Toggle(v) EXCEPT !.panel = "QUIT", !.closing = TRUE,
                                   !.mapped = @ \union {"quit"}])
<1> DEFINE t == Toggle(v)
           w1 == [t EXCEPT !.panel = "QUIT"]
           w2 == [w1 EXCEPT !.closing = TRUE]
           x == w2.mapped \union {"quit"}
           w == [w2 EXCEPT !.mapped = x]
<1>1. Ready(t) /\ t.mapped = {}
    BY ToggleFacts DEF InCorner, Alike, SameScene
<1> HIDE DEF t
<1>2. w1 \in Viewport3D /\ SameElse(w1, t) /\ w1.panel = "QUIT" /\ w1.mapped = {}
    BY <1>1, PanelUpdate DEF Ready, Settled, Sound3D, Panels
<1> HIDE DEF w1
<1>3. w2 \in Viewport3D /\ SameElse(w2, t) /\ w2.panel = "QUIT" /\ w2.mapped = {}
    BY <1>2, FlagElse, SameElseTransitive DEF SamePanels
<1> HIDE DEF w2
<1>4. x = {"quit"} /\ x \in SUBSET PopUps
    BY <1>3 DEF PopUps
<1> HIDE DEF x
<1>5. w \in Viewport3D /\ SameElse(w, t) /\ w.panel = "QUIT" /\ w.mapped = {"quit"}
    BY <1>3, <1>4, MappedUpdate, SameElseTransitive
<1> HIDE DEF w
<1>6. PanelsGood(w)
    BY <1>5 DEF PanelsGood
<1>7. t.panel # "VOLUME"
    BY <1>1 DEF Ready, Settled, Sound3D, PanelsGood
<1>8. Ready(w)
    BY <1>1, <1>5, <1>6, <1>7, PanelReady
<1> QED BY <1>8 DEF w, x, w2, w1, t

\* Save puts the save panel up and names it.
LEMMA SaveItReady ==
    ASSUME NEW v, Ready(v), OnControl(v)
    PROVE  Ready([Toggle(v) EXCEPT !.saveFlag = TRUE, !.panel = "SAVE",
                                   !.mapped = @ \union {"save"}])
<1> DEFINE t == Toggle(v)
           w1 == [t EXCEPT !.saveFlag = TRUE]
           w2 == [w1 EXCEPT !.panel = "SAVE"]
           x == w2.mapped \union {"save"}
           w == [w2 EXCEPT !.mapped = x]
<1>1. /\ Ready(t) /\ t \in Viewport3D
      /\ "volume" \notin t.mapped /\ "light" \notin t.mapped
    BY ToggleFacts DEF OnControl, Covered, Alike, SameScene, Ready, Settled, Sound3D
<1> HIDE DEF t
<1>2. w1 \in Viewport3D /\ SameElse(w1, t) /\ SamePanels(w1, t)
    BY <1>1, FlagElse
<1> HIDE DEF w1
<1>3. w2 \in Viewport3D /\ SameElse(w2, t) /\ w2.panel = "SAVE" /\ w2.mapped = t.mapped
    BY <1>2, PanelUpdate, SameElseTransitive DEF Panels, SamePanels
<1> HIDE DEF w2
<1>4. x = t.mapped \union {"save"} /\ x \in SUBSET PopUps
    BY <1>3, FieldTypes DEF PopUps
<1> HIDE DEF x
<1>5. w \in Viewport3D /\ SameElse(w, t) /\ w.panel = "SAVE" /\ w.mapped = x
    BY <1>3, <1>4, MappedUpdate, SameElseTransitive
<1> HIDE DEF w
<1>6. PanelsGood(w)
    BY <1>4, <1>5 DEF PanelsGood
<1>7. t.panel # "VOLUME"
    BY <1>1 DEF Ready, Settled, Sound3D, PanelsGood
<1>8. Ready(w)
    BY <1>1, <1>4, <1>5, <1>6, <1>7, PanelReady
<1> QED BY <1>8 DEF w, x, w2, w1, t

\* A panel that was over the volume panel is left for the control panel.
LEMMA BackReady ==
    ASSUME NEW v, Ready(v)
    PROVE  Ready(BackToControl(v)) /\ BackToControl(v).panel = "CONTROL"
           /\ BackToControl(v).mapped = v.mapped
<1> DEFINE p == [v EXCEPT !.panel = "CONTROL"]
           w == BackToControl(v)
<1>1. w = IF "volume" \in v.mapped THEN Stray(p, "volume") ELSE p
    BY DEF BackToControl
<1>2. p \in Viewport3D /\ SameElse(p, v) /\ p.panel = "CONTROL" /\ p.mapped = v.mapped
    BY PanelUpdate DEF Ready, Settled, Sound3D, Panels
<1> HIDE DEF p, w
<1>3. CASE "volume" \notin v.mapped
  <2>1. v.panel # "VOLUME"
    BY <1>3 DEF Ready, Settled, Sound3D, PanelsGood
  <2>2. PanelsGood(p)
    BY <1>2 DEF PanelsGood
  <2>3. Ready(p)
    BY <1>2, <2>1, <2>2, PanelReady
  <2> QED BY <1>1, <1>2, <1>3, <2>3 DEF w
<1>4. CASE "volume" \in v.mapped
  <2>1. /\ w \in Viewport3D
        /\ SameScene(w, p) /\ SameFlags(w, p) /\ SameColour(w, p)
        /\ SameLists(w, p) /\ SamePicture(w, p)
        /\ w.strays = p.strays \union {"volume"} /\ w.fault = p.fault
    BY <1>1, <1>2, <1>4, StrayFacts DEF Excuses
  <2>2. Kept(w, p)
    BY <2>1 DEF Kept, KeptBut, SameScene, SameFlags, SamePicture
  <2>3. Kept(w, v)
    BY <1>2, <2>2, KeptTransitive DEF SameElse
  <2>4. /\ w.panel = "CONTROL" /\ w.mapped = v.mapped /\ w.style = v.style
        /\ SameHues(w, v) /\ SameLight(w, v)
    BY <1>2, <2>1
       DEF SameElse, SameHues, SameLight, SameScene, SameFlags, SameColour
  <2>5. PanelsGood(w) /\ ShadesGood(w) /\ LightGood(w)
    BY <2>3, <2>4, GoodKept DEF PanelsGood, Kept, KeptBut, Ready, Settled
  <2>6. Due(w)
    BY <2>1 DEF Due, Excused
  <2>7. Ready(w)
    BY <2>1, <2>3, <2>4, <2>5, <2>6, KeptReady
  <2> QED BY <2>4, <2>7 DEF w
<1> QED BY <1>3, <1>4

\* The save panel goes away, and the control panel is named.
LEMMA SaveExitReady ==
    ASSUME NEW v, Ready(v)
    PROVE  Ready([BackToControl(v) EXCEPT !.saveFlag = FALSE, !.mapped = @ \ {"save"}])
<1> DEFINE b == BackToControl(v)
           w1 == [b EXCEPT !.saveFlag = FALSE]
           x == w1.mapped \ {"save"}
           w == [w1 EXCEPT !.mapped = x]
<1>1. Ready(b) /\ b.panel = "CONTROL" /\ b \in Viewport3D
    BY BackReady DEF Ready, Settled, Sound3D
<1> HIDE DEF b
<1>2. w1 \in Viewport3D /\ SameElse(w1, b) /\ SamePanels(w1, b)
    BY <1>1, FlagElse
<1> HIDE DEF w1
<1>3. x \in SUBSET PopUps /\ x \subseteq b.mapped
    BY <1>2, FieldTypes DEF SamePanels
<1> HIDE DEF x
<1>4. w \in Viewport3D /\ SameElse(w, b) /\ w.panel = "CONTROL" /\ w.mapped = x
    BY <1>1, <1>2, <1>3, MappedUpdate, SameElseTransitive DEF SamePanels
<1> HIDE DEF w
<1>5. PanelsGood(w)
    BY <1>4 DEF PanelsGood
<1>6. Ready(w)
    BY <1>1, <1>3, <1>4, <1>5, PanelReady
<1> QED BY <1>6 DEF w, x, w1, b

\* The quit panel goes away, and the control panel is named.
LEMMA QuitAbortReady ==
    ASSUME NEW v, Ready(v)
    PROVE  Ready([BackToControl(v) EXCEPT !.mapped = @ \ {"quit"}])
<1> DEFINE b == BackToControl(v)
           x == b.mapped \ {"quit"}
           w == [b EXCEPT !.mapped = x]
<1>1. Ready(b) /\ b.panel = "CONTROL" /\ b \in Viewport3D
    BY BackReady DEF Ready, Settled, Sound3D
<1> HIDE DEF b
<1>2. x \in SUBSET PopUps /\ x \subseteq b.mapped
    BY <1>1, FieldTypes
<1> HIDE DEF x
<1>3. w \in Viewport3D /\ SameElse(w, b) /\ w.panel = "CONTROL" /\ w.mapped = x
    BY <1>1, <1>2, MappedUpdate
<1> HIDE DEF w
<1>4. PanelsGood(w)
    BY <1>3 DEF PanelsGood
<1>5. Ready(w)
    BY <1>1, <1>2, <1>3, <1>4, PanelReady
<1> QED BY <1>5 DEF w, x, b

\* The quit panel that goes away though it is still named.
LEMMA QuitReturnReady ==
    ASSUME NEW v, Ready(v)
    PROVE  Ready([Stray(v, "unarmed") EXCEPT !.mapped = @ \ {"quit"}])
<1> DEFINE s == Stray(v, "unarmed")
           x == s.mapped \ {"quit"}
           w == [s EXCEPT !.mapped = x]
<1>1. Ready(s) /\ "unarmed" \in s.strays /\ s \in Viewport3D
  <2>1. "unarmed" \in Excuses
    BY DEF Excuses
  <2>2. Ready(s) /\ s.strays = v.strays \union {"unarmed"}
    BY <2>1, StrayReady
  <2> HIDE DEF s
  <2> QED BY <2>2 DEF Ready, Settled, Sound3D
<1> HIDE DEF s
<1>2. x \in SUBSET PopUps /\ x = s.mapped \ {"quit"}
    BY <1>1, FieldTypes
<1> HIDE DEF x
<1>3. w \in Viewport3D /\ SameElse(w, s) /\ w.panel = s.panel /\ w.mapped = x
    BY <1>1, <1>2, MappedUpdate
<1> HIDE DEF w
<1>4. PanelsGood(w)
    BY <1>1, <1>2, <1>3 DEF PanelsGood, SameElse, Ready, Settled, Sound3D
<1>5. Ready(w)
    BY <1>1, <1>2, <1>3, <1>4, PanelReady
<1> QED BY <1>5 DEF w, x, s

\* A viewport that ended is settled.
LEMMA GoodbyeSettled ==
    ASSUME NEW v, Ready(v)
    PROVE  Settled(Goodbye(v))
<1> DEFINE w == [v EXCEPT !.fault = "exit"]
<1>1. v \in Viewport3D
    BY DEF Ready, Settled, Sound3D
<1>2. w \in Viewport3D
    BY <1>1, OtherUpdates DEF Faults
<1>3. SameScene(w, v) /\ SameFlags(w, v)
    BY <1>1 DEF SameScene, SameFlags, Viewport3D
<1>4. /\ SameColour(w, v) /\ SameLists(w, v) /\ SamePicture(w, v)
      /\ w.strays = v.strays /\ w.fault = "exit"
    BY <1>1 DEF SameColour, SameLists, SamePicture, Viewport3D
<1> HIDE DEF w
<1>5. PanelsGood(w) /\ ShadesGood(w) /\ LightGood(w)
    BY <1>3, <1>4
       DEF Ready, Settled, Sound3D, PanelsGood, ShadesGood, LightGood, SameScene,
           SameFlags, SameColour
<1>6. ListsGood(w) /\ OrderGood(w)
    BY <1>3, <1>4
       DEF Ready, Settled, Sound3D, ListsGood, OrderGood, Redone, SameScene,
           SameFlags, SameLists, SamePicture
<1>7. PixmapGood(w) /\ Imaged(w) /\ FaultGood(w) /\ DrawableGood(w)
    BY <1>3, <1>4
       DEF Ready, Settled, Sound3D, PixmapGood, Imaged, FaultGood, DrawableGood,
           SamePicture
<1>8. FreshGood(w)
  <2>1. Redone(w) = Redone(v) /\ Rescanned(w) = Rescanned(v) /\ Excused(w) = Excused(v)
    BY <1>3, <1>4 DEF Redone, Rescanned, Excused, SameFlags, SameColour, SamePicture
  <2> QED BY <1>3, <1>4, <2>1 DEF Ready, Settled, Sound3D, FreshGood, SameScene, SamePicture
<1>9. FileGood(w) /\ w.writeImage = FALSE
    BY <1>3, <1>4 DEF Ready, Settled, FileGood, SameScene, SamePicture
<1> QED BY <1>2, <1>5, <1>6, <1>7, <1>8, <1>9 DEF Settled, Sound3D, Goodbye, w

-----------------------------------------------------------------------------
\* The lighting panel.
SameButLight(w, v) ==
    /\ w \in Viewport3D /\ Kept(w, v) /\ SameHues(w, v) /\ SamePanels(w, v)
    /\ w.redoDither = v.redoDither /\ w.stale = v.stale /\ w.style = v.style
    /\ w.strays = v.strays

LightIs(w, light, temp, moving, changed) ==
    /\ w.light = light /\ w.temp = temp
    /\ w.movingLight = moving /\ w.changedIntensity = changed

\* The light of the scene and of the panel,
LEMMA LightUpdate ==
    ASSUME NEW v \in Viewport3D, NEW x \in 0 .. 1
    PROVE  /\ LET w == [v EXCEPT !.light = x]
              IN  /\ SameButLight(w, v)
                  /\ LightIs(w, x, v.temp, v.movingLight, v.changedIntensity)
           /\ LET w == [v EXCEPT !.temp = x]
              IN  /\ SameButLight(w, v)
                  /\ LightIs(w, v.light, x, v.movingLight, v.changedIntensity)
<1>1. LET w == [v EXCEPT !.light = x]
      IN  /\ SameButLight(w, v)
          /\ LightIs(w, x, v.temp, v.movingLight, v.changedIntensity)
  <2> DEFINE w == [v EXCEPT !.light = x]
  <2>1. w \in Viewport3D
    BY OtherUpdates, Zenon
  <2>2. Kept(w, v) /\ SameHues(w, v) /\ SamePanels(w, v)
    BY DEF Kept, KeptBut, SameLists, SameHues, SamePanels, Viewport3D
  <2> QED BY <2>1, <2>2 DEF SameButLight, LightIs, Viewport3D
<1>2. LET w == [v EXCEPT !.temp = x]
      IN  /\ SameButLight(w, v)
          /\ LightIs(w, v.light, x, v.movingLight, v.changedIntensity)
  <2> DEFINE w == [v EXCEPT !.temp = x]
  <2>1. w \in Viewport3D
    BY OtherUpdates, Zenon
  <2>2. Kept(w, v) /\ SameHues(w, v) /\ SamePanels(w, v)
    BY DEF Kept, KeptBut, SameLists, SameHues, SamePanels, Viewport3D
  <2> QED BY <2>1, <2>2 DEF SameButLight, LightIs, Viewport3D
<1> QED BY <1>1, <1>2

\* and the flags that say they differ.
LEMMA LightFlagUpdate ==
    ASSUME NEW v \in Viewport3D, NEW b \in BOOLEAN
    PROVE  /\ LET w == [v EXCEPT !.movingLight = b]
              IN  /\ SameButLight(w, v)
                  /\ LightIs(w, v.light, v.temp, b, v.changedIntensity)
           /\ LET w == [v EXCEPT !.changedIntensity = b]
              IN  /\ SameButLight(w, v)
                  /\ LightIs(w, v.light, v.temp, v.movingLight, b)
<1>1. LET w == [v EXCEPT !.movingLight = b]
      IN  /\ SameButLight(w, v)
          /\ LightIs(w, v.light, v.temp, b, v.changedIntensity)
  <2> DEFINE w == [v EXCEPT !.movingLight = b]
  <2>1. w \in Viewport3D
    BY FlagUpdates
  <2>2. Kept(w, v) /\ SameHues(w, v) /\ SamePanels(w, v)
    BY DEF Kept, KeptBut, SameLists, SameHues, SamePanels, Viewport3D
  <2> QED BY <2>1, <2>2 DEF SameButLight, LightIs, Viewport3D
<1>2. LET w == [v EXCEPT !.changedIntensity = b]
      IN  /\ SameButLight(w, v)
          /\ LightIs(w, v.light, v.temp, v.movingLight, b)
  <2> DEFINE w == [v EXCEPT !.changedIntensity = b]
  <2>1. w \in Viewport3D
    BY FlagUpdates
  <2>2. Kept(w, v) /\ SameHues(w, v) /\ SamePanels(w, v)
    BY DEF Kept, KeptBut, SameLists, SameHues, SamePanels, Viewport3D
  <2> QED BY <2>1, <2>2 DEF SameButLight, LightIs, Viewport3D
<1> QED BY <1>1, <1>2

\* What two changes of the light leave alone, both together leave alone.
LEMMA SameButLightTransitive ==
    ASSUME NEW u, NEW v, NEW w
    PROVE  /\ SameButLight(w, u) /\ SameButLight(u, v) => SameButLight(w, v)
           /\ SameElse(w, u) /\ SamePanels(w, u) /\ w \in Viewport3D
              /\ SameButLight(u, v) => SameButLight(w, v)
<1>1. Kept(w, u) /\ Kept(u, v) => Kept(w, v)
    BY KeptTransitive
<1> QED BY <1>1 DEF SameButLight, SameElse, SameHues, SamePanels

\* A change of the light in the panel.
LEMMA LightReady ==
    ASSUME NEW v, Ready(v), NEW w, SameButLight(w, v), LightGood(w)
    PROVE  Ready(w)
<1>1. PanelsGood(w) /\ ShadesGood(w)
    BY GoodKept DEF SameButLight, Ready, Settled
<1>2. Due(w)
    BY StillDue DEF Kept, SameButLight, SameHues, SamePanels, Ready, Settled
<1> QED BY <1>1, <1>2, KeptReady DEF SameButLight

\* There are two lights.
LEMMA OtherLight ==
    ASSUME NEW v \in Viewport3D
    PROVE  1 - v.light \in 0 .. 1
BY FieldTypes

\* A light or an intensity chosen in the panel is flagged.
LEMMA LightMoveReady ==
    ASSUME NEW v, Ready(v)
    PROVE  /\ Ready([Pot(v) EXCEPT !.temp = 1 - v.light, !.movingLight = TRUE])
           /\ Ready([Pot(v) EXCEPT !.temp = 1 - v.light, !.changedIntensity = TRUE])
<1> DEFINE p == Pot(v)
           x == 1 - v.light
           u == [p EXCEPT !.temp = x]
           m == [u EXCEPT !.movingLight = TRUE]
           c == [u EXCEPT !.changedIntensity = TRUE]
<1>1. Ready(p) /\ p \in Viewport3D
    BY PotFacts DEF Ready, Settled, Sound3D
<1>2. x \in 0 .. 1
    BY OtherLight DEF Ready, Settled, Sound3D
<1> HIDE DEF p, x
<1>3. SameButLight(u, p)
    BY <1>1, <1>2, LightUpdate, Zenon
<1> HIDE DEF u
<1>4. u \in Viewport3D
    BY <1>3 DEF SameButLight
<1>5. /\ SameButLight(m, u) /\ m.movingLight
      /\ SameButLight(c, u) /\ c.changedIntensity
    BY <1>4, LightFlagUpdate DEF LightIs
<1> HIDE DEF m, c
<1>6. SameButLight(m, p) /\ SameButLight(c, p)
    BY <1>3, <1>5, SameButLightTransitive
<1>7. LightGood(m) /\ LightGood(c)
    BY <1>5 DEF LightGood
<1>8. Ready(m) /\ Ready(c)
    BY <1>1, <1>6, <1>7, LightReady
<1> QED BY <1>8 DEF m, c, u, p, x

\* LightReturn and LightAbort leave the panel, with the light chosen or not.
LEMMA LeaveLightReady ==
    ASSUME NEW v, Ready(v), NEW c \in Viewport3D, Kept(c, v), c.style = v.style,
           SameHues(c, v), c.redoDither = v.redoDither, v.panel # "VOLUME",
           c.panel = "CONTROL", c.mapped = v.mapped, Due(c)
    PROVE  Ready([c EXCEPT !.mapped = @ \ {"light"}])
<1> DEFINE x == c.mapped \ {"light"}
           w == [c EXCEPT !.mapped = x]
<1>1. x \in SUBSET PopUps
    BY FieldTypes
<1>2. "light" \notin x
    OBVIOUS
<1> HIDE DEF x
<1>3. w \in Viewport3D /\ SameElse(w, c) /\ w.panel = c.panel /\ w.mapped = x
    BY <1>1, MappedUpdate
<1> HIDE DEF w
<1>4. Kept(w, v) /\ SameHues(w, v)
    BY <1>3, KeptTransitive DEF SameElse, SameHues
<1>5. PanelsGood(w) /\ LightGood(w)
    BY <1>2, <1>3 DEF PanelsGood, LightGood
<1>6. ShadesGood(w)
    BY <1>4, GoodKept DEF Kept, KeptBut, Ready, Settled
<1>7. Due(w)
  <2>1. Redone(c) => Redone(w)
    BY <1>3 DEF SameElse, Kept, KeptBut, Redone
  <2>2. Rescanned(c) = Rescanned(w) /\ Excused(c) = Excused(w)
    BY <1>3 DEF SameElse, SameHues, Rescanned, Excused
  <2> QED BY <1>3, <2>1, <2>2 DEF SameElse, Due
<1>8. Ready(w)
    BY <1>3, <1>4, <1>5, <1>6, <1>7, KeptReady DEF SameElse
<1> QED BY <1>8 DEF w, x

\* Abort in the lighting panel forgets the flags with the panel.
LEMMA LightAbortReady ==
    ASSUME NEW v, Ready(v), v.panel # "VOLUME"
    PROVE  Ready([v EXCEPT !.panel = "CONTROL", !.movingLight = FALSE,
                           !.changedIntensity = FALSE, !.mapped = @ \ {"light"}])
<1> DEFINE w1 == [v EXCEPT !.panel = "CONTROL"]
           w2 == [w1 EXCEPT !.movingLight = FALSE]
           c == [w2 EXCEPT !.changedIntensity = FALSE]
<1>1. w1 \in Viewport3D /\ SameElse(w1, v) /\ w1.panel = "CONTROL" /\ w1.mapped = v.mapped
    BY PanelUpdate DEF Ready, Settled, Sound3D, Panels
<1> HIDE DEF w1
<1>2. SameButLight(w2, w1)
    BY <1>1, LightFlagUpdate
<1> HIDE DEF w2
<1>3. SameButLight(c, w2)
    BY <1>2, LightFlagUpdate DEF SameButLight
<1> HIDE DEF c
<1>4. SameButLight(c, w1)
    BY <1>2, <1>3, SameButLightTransitive
<1>5. /\ c \in Viewport3D /\ Kept(c, v) /\ c.style = v.style /\ SameHues(c, v)
      /\ c.redoDither = v.redoDither /\ c.panel = "CONTROL" /\ c.mapped = v.mapped
      /\ c.stale = v.stale
    BY <1>1, <1>4, KeptTransitive DEF SameButLight, SameElse, SameHues, SamePanels
<1>6. Due(c)
    BY <1>5, StillDue DEF Kept, SameHues, Ready, Settled
<1>7. Ready([c EXCEPT !.mapped = @ \ {"light"}])
    BY <1>5, <1>6, LeaveLightReady
<1> QED BY <1>7 DEF c, w2, w1

\* A flag that asks for more may be set.
LEMMA RedoUpdate ==
    ASSUME NEW v \in Viewport3D, NEW b \in BOOLEAN, v.redoSmooth => b
    PROVE  LET w == [v EXCEPT !.redoSmooth = b]
           IN  /\ w \in Viewport3D /\ SameElse(w, v) /\ SamePanels(w, v)
               /\ w.redoSmooth = b
<1> DEFINE w == [v EXCEPT !.redoSmooth = b]
<1>1. w \in Viewport3D
    BY FlagUpdates
<1>2. Kept(w, v) /\ SamePanels(w, v) /\ w.redoSmooth = b
    BY DEF Kept, KeptBut, SameLists, SamePanels, Viewport3D
<1>3. /\ SameHues(w, v) /\ SameLight(w, v)
      /\ w.redoDither = v.redoDither /\ w.stale = v.stale /\ w.style = v.style
      /\ w.strays = v.strays
    BY DEF SameHues, SameLight, Viewport3D
<1> QED BY <1>1, <1>2, <1>3 DEF SameElse

\* Return in the lighting panel: the light chosen is the scene's, and a scene
\* that it changes is drawn again.
LEMMA LightReturnReady ==
    ASSUME NEW v, Ready(v), NEW t, Ready(t), Alike(t, v), OnLight(v)
    PROVE  LET u == IF v.light = v.temp THEN t ELSE Change(t, {"light"})
           IN  Ready([u EXCEPT
                 !.panel = "CONTROL", !.light = v.temp,
                 !.redrawView = v.style \in {"render", "smooth"},
                 !.redoSmooth = @ \/ v.movingLight \/ v.changedIntensity,
                 !.mapped = @ \ {"light"}])
<1> DEFINE u == IF v.light = v.temp THEN t ELSE Change(t, {"light"})
           draw == v.style \in {"render", "smooth"}
           redo == u.redoSmooth \/ v.movingLight \/ v.changedIntensity
           w1 == [u EXCEPT !.panel = "CONTROL"]
           w2 == [w1 EXCEPT !.light = v.temp]
           w3 == [w2 EXCEPT !.redrawView = draw]
           c == [w3 EXCEPT !.redoSmooth = redo]
<1>1. v.panel # "VOLUME"
    BY DEF OnLight, Ready, Settled, Sound3D, PanelsGood
<1>2. /\ u \in Viewport3D /\ Kept(u, t) /\ SameHues(u, t)
      /\ u.redoDither = t.redoDither /\ u.style = t.style /\ u.strays = t.strays
      /\ SamePanels(u, t)
      /\ u.stale = IF v.light = v.temp THEN t.stale ELSE t.stale \union {"light"}
  <2>1. CASE v.light = v.temp
    <3>1. Kept(t, t) /\ SameHues(t, t)
      BY DEF Kept, KeptBut, SameLists, SameHues
    <3> QED BY <2>1, <3>1 DEF SamePanels, Ready, Settled, Sound3D
  <2>2. CASE v.light # v.temp
    <3>1. {"light"} \in SUBSET Aspects
      BY DEF Aspects
    <3> QED BY <2>2, <3>1, ChangeSame
  <2> QED BY <2>1, <2>2
<1>3. draw \in BOOLEAN /\ redo \in BOOLEAN /\ (u.redoSmooth => redo)
  <2> HIDE DEF u
  <2>1. u.redoSmooth \in BOOLEAN
    BY <1>2, FieldTypes
  <2> QED BY <2>1
<1> HIDE DEF u, draw
<1>4. w1 \in Viewport3D /\ SameElse(w1, u) /\ w1.panel = "CONTROL" /\ w1.mapped = u.mapped
    BY <1>2, PanelUpdate DEF Panels
<1> HIDE DEF w1
<1>5. SameButLight(w2, w1)
  <2>1. v.temp \in 0 .. 1
    BY FieldTypes DEF Ready, Settled, Sound3D
  <2> QED BY <1>4, <2>1, LightUpdate, Zenon
<1> HIDE DEF w2
<1>6. SameButLight(w3, w1)
  <2>1. w2 \in Viewport3D
    BY <1>5 DEF SameButLight
  <2>2. w3 \in Viewport3D /\ SameElse(w3, w2) /\ SamePanels(w3, w2)
    BY <1>3, <2>1, FlagElse
  <2> HIDE DEF w3
  <2> QED BY <1>5, <2>2, SameButLightTransitive
<1> HIDE DEF w3
<1>7. /\ w3 \in Viewport3D /\ Kept(w3, u) /\ SameHues(w3, u)
      /\ w3.redoDither = u.redoDither /\ w3.style = u.style /\ w3.strays = u.strays
      /\ w3.stale = u.stale /\ w3.panel = "CONTROL" /\ w3.mapped = u.mapped
    BY <1>4, <1>6, KeptTransitive DEF SameButLight, SameElse, SameHues, SamePanels
<1>8. w3.redoSmooth = u.redoSmooth
  <2>1. w1.redoSmooth = u.redoSmooth
    BY <1>2 DEF w1, Viewport3D
  <2>2. w2.redoSmooth = w1.redoSmooth
    BY <1>4 DEF w2, Viewport3D
  <2>3. w3.redoSmooth = w2.redoSmooth
    BY <1>5 DEF w3, SameButLight, Viewport3D
  <2> QED BY <2>1, <2>2, <2>3
<1>9. [w3 EXCEPT !.redoSmooth = @ \/ v.movingLight \/ v.changedIntensity] = c
    BY <1>8
<1>10. c \in Viewport3D /\ SameElse(c, w3) /\ SamePanels(c, w3) /\ c.redoSmooth = redo
  <2> HIDE DEF redo
  <2> QED BY <1>3, <1>7, <1>8, RedoUpdate
<1> HIDE DEF c
<1>11. /\ Kept(c, t) /\ SameHues(c, t) /\ c.redoDither = t.redoDither
       /\ c.style = t.style /\ c.strays = t.strays /\ c.stale = u.stale
       /\ c.panel = "CONTROL" /\ c.mapped = t.mapped
  <2>1. Kept(c, t)
    BY <1>2, <1>7, <1>10, KeptTransitive DEF SameElse
  <2> QED BY <1>2, <1>7, <1>10, <2>1 DEF SameElse, SameHues, SamePanels
<1>12. t.panel # "VOLUME" /\ t.panel = v.panel
    BY <1>1 DEF Alike, SameScene
<1>13. Due(c)
  <2>1. CASE v.light = v.temp
    BY <1>2, <1>11, <1>12, <2>1, StillDue DEF Kept, SameHues, Ready, Settled
  <2>2. CASE v.light # v.temp
    <3>1. v.movingLight \/ v.changedIntensity \/ "light" \in v.strays
      BY <2>2 DEF OnLight, LightGood, Ready, Settled, Sound3D
    <3>2. t.strays = v.strays
      BY DEF Alike
    <3> QED BY <1>10, <1>11, <3>1, <3>2 DEF Due, Redone, Excused
  <2> QED BY <2>1, <2>2
<1>14. Ready([c EXCEPT !.mapped = @ \ {"light"}])
    BY <1>10, <1>11, <1>12, <1>13, LeaveLightReady
<1>15. [u EXCEPT
          !.panel = "CONTROL", !.light = v.temp,
          !.redrawView = v.style \in {"render", "smooth"},
          !.redoSmooth = @ \/ v.movingLight \/ v.changedIntensity,
          !.mapped = @ \ {"light"}] = [c EXCEPT !.mapped = @ \ {"light"}]
    BY <1>9 DEF c, w3, w2, w1, draw
<1> QED BY <1>14, <1>15 DEF u

\* The lighting panel comes up, with the light of the scene.
LEMMA LightingReady ==
    ASSUME NEW v, Ready(v), NEW t, Ready(t), Alike(t, v), OnControl(v)
    PROVE  Ready([PutSaveAway(t) EXCEPT
                    !.panel = "LIGHT", !.temp = v.light, !.mapped = @ \union {"light"}])
<1> DEFINE a == PutSaveAway(t)
           w1 == [a EXCEPT !.panel = "LIGHT"]
           w2 == [w1 EXCEPT !.temp = v.light]
           x == w2.mapped \union {"light"}
           w == [w2 EXCEPT !.mapped = x]
<1>1. t \in Viewport3D /\ t.panel # "VOLUME" /\ t.light = v.light
  <2>1. t \in Viewport3D
    BY DEF Ready, Settled, Sound3D
  <2>2. v.panel # "VOLUME"
    BY DEF OnControl, Covered, Ready, Settled, Sound3D, PanelsGood
  <2> QED BY <2>1, <2>2 DEF Alike, SameScene
<1>2. a \in Viewport3D /\ SameElse(a, t)
    BY <1>1, PutSaveAwayFacts
<1> HIDE DEF a
<1>3. w1 \in Viewport3D /\ SameElse(w1, a) /\ w1.panel = "LIGHT"
    BY <1>2, PanelUpdate DEF Panels
<1> HIDE DEF w1
<1>4. SameButLight(w2, w1) /\ w2.light = w1.light /\ w2.temp = v.light
  <2>1. v.light \in 0 .. 1
    BY FieldTypes DEF Ready, Settled, Sound3D
  <2>2. /\ SameButLight(w2, w1)
        /\ LightIs(w2, w1.light, v.light, w1.movingLight, w1.changedIntensity)
    BY <1>3, <2>1, LightUpdate, Zenon
  <2> QED BY <2>2 DEF LightIs
<1> HIDE DEF w2
<1>5. x \in SUBSET PopUps /\ "light" \in x /\ w2 \in Viewport3D
    BY <1>4, FieldTypes DEF SameButLight, PopUps
<1> HIDE DEF x
<1>6. w \in Viewport3D /\ SameElse(w, w2) /\ w.panel = w2.panel /\ w.mapped = x
    BY <1>5, MappedUpdate
<1> HIDE DEF w
<1>7. Kept(w, t) /\ SameHues(w, t) /\ w.redoDither = t.redoDither
      /\ w.stale = t.stale /\ w.style = t.style /\ w.strays = t.strays
      /\ w.panel = "LIGHT" /\ w.light = w.temp
  <2>1. w1.light = t.light
    BY <1>2, <1>3 DEF SameElse, SameLight
  <2>2. Kept(w2, a)
    BY <1>3, <1>4, KeptTransitive DEF SameElse, SameButLight
  <2>3. Kept(w, t)
    BY <1>2, <1>6, <2>2, KeptTransitive DEF SameElse
  <2> QED
    BY <1>1, <1>2, <1>3, <1>4, <1>6, <2>1, <2>3
       DEF SameElse, SameButLight, SameHues, SamePanels, SameLight
<1>8. PanelsGood(w) /\ LightGood(w)
    BY <1>5, <1>6, <1>7 DEF PanelsGood, LightGood
<1>9. ShadesGood(w)
    BY <1>7, GoodKept DEF Kept, KeptBut, Ready, Settled
<1>10. Due(w)
    BY <1>1, <1>7, StillDue DEF Kept, SameHues, Ready, Settled
<1>11. Ready(w)
    BY <1>6, <1>7, <1>8, <1>9, <1>10, KeptReady
<1> QED BY <1>11 DEF w, x, w2, w1, a

-----------------------------------------------------------------------------
\* The volume panel.
LEMMA ViewVolumeReady ==
    ASSUME NEW v, Ready(v)
    PROVE  Ready([PutSaveAway(v) EXCEPT
                    !.panel = "VOLUME", !.mapped = @ \union {"volume"},
                    !.redrawView = TRUE])
<1> DEFINE a == PutSaveAway(v)
           w1 == [a EXCEPT !.panel = "VOLUME"]
           x == w1.mapped \union {"volume"}
           w2 == [w1 EXCEPT !.mapped = x]
           w == [w2 EXCEPT !.redrawView = TRUE]
<1>1. a \in Viewport3D /\ SameElse(a, v) /\ a.mapped \subseteq v.mapped
    BY PutSaveAwayFacts DEF Ready, Settled, Sound3D
<1> HIDE DEF a
<1>2. w1 \in Viewport3D /\ SameElse(w1, v) /\ w1.panel = "VOLUME" /\ w1.mapped = a.mapped
    BY <1>1, PanelUpdate, SameElseTransitive DEF Panels
<1> HIDE DEF w1
<1>3. /\ x \in SUBSET PopUps /\ "volume" \in x /\ ("light" \in x => "light" \in v.mapped)
    BY <1>1, <1>2, FieldTypes DEF PopUps
<1> HIDE DEF x
<1>4. w2 \in Viewport3D /\ SameElse(w2, v) /\ w2.panel = "VOLUME" /\ w2.mapped = x
    BY <1>2, <1>3, MappedUpdate, SameElseTransitive
<1> HIDE DEF w2
<1>5. w \in Viewport3D /\ SameElse(w, v) /\ w.panel = "VOLUME" /\ w.mapped = x
    BY <1>4, FlagElse, SameElseTransitive DEF SamePanels
<1> HIDE DEF w
<1>6. PanelsGood(w)
    BY <1>3, <1>5 DEF PanelsGood
<1>7. Ready(w)
    BY <1>3, <1>5, <1>6, PanelReady
<1> QED BY <1>7 DEF w, w2, x, w1, a

\* The surface is drawn again when the volume panel is left; or not, by Abort.
LEMMA VolumeReturnReady ==
    ASSUME NEW v, Ready(v)
    PROVE  Ready([v EXCEPT !.panel = "CONTROL", !.redoSmooth = TRUE,
                           !.redrawView = TRUE, !.mapped = @ \ {"volume"}])
<1> DEFINE w1 == [v EXCEPT !.panel = "CONTROL"]
           w2 == [w1 EXCEPT !.redoSmooth = TRUE]
           w3 == [w2 EXCEPT !.redrawView = TRUE]
           x == w3.mapped \ {"volume"}
           w == [w3 EXCEPT !.mapped = x]
<1>1. w1 \in Viewport3D /\ SameElse(w1, v) /\ w1.panel = "CONTROL" /\ w1.mapped = v.mapped
    BY PanelUpdate DEF Ready, Settled, Sound3D, Panels
<1> HIDE DEF w1
<1>2. /\ w2 \in Viewport3D /\ SameElse(w2, v) /\ w2.panel = "CONTROL"
      /\ w2.mapped = v.mapped /\ w2.redoSmooth = TRUE
    BY <1>1, RedoUpdate, SameElseTransitive DEF SamePanels
<1> HIDE DEF w2
<1>3. /\ w3 \in Viewport3D /\ SameElse(w3, w2) /\ w3.panel = "CONTROL"
      /\ w3.mapped = v.mapped
    BY <1>2, FlagElse DEF SamePanels
<1> HIDE DEF w3
<1>4. x \in SUBSET PopUps /\ x \subseteq v.mapped
    BY <1>3, FieldTypes
<1> HIDE DEF x
<1>5. w \in Viewport3D /\ SameElse(w, w3) /\ w.panel = "CONTROL" /\ w.mapped = x
    BY <1>3, <1>4, MappedUpdate
<1> HIDE DEF w
<1>6. SameElse(w, v) /\ w.redoSmooth
    BY <1>2, <1>3, <1>5, SameElseTransitive DEF SameElse, Kept, KeptBut
<1>7. PanelsGood(w)
    BY <1>5 DEF PanelsGood
<1>8. ShadesGood(w)
    BY <1>6, GoodKept DEF SameElse, Ready, Settled
<1>9. LightGood(w)
    BY <1>4, <1>5, <1>6 DEF SameElse, SameLight, LightGood, Ready, Settled, Sound3D
<1>10. Due(w)
    BY <1>6 DEF Due, Redone
<1>11. Ready(w)
    BY <1>5, <1>6, <1>7, <1>8, <1>9, <1>10, KeptReady DEF SameElse
<1> QED BY <1>11 DEF w, x, w3, w2, w1

\* Abort in the volume panel is excused.
LEMMA VolumeAbortReady ==
    ASSUME NEW v, Ready(v)
    PROVE  Ready([Stray(v, "volume") EXCEPT
                    !.panel = "CONTROL", !.redrawView = TRUE, !.mapped = @ \ {"volume"}])
<1> DEFINE s == Stray(v, "volume")
           w1 == [s EXCEPT !.panel = "CONTROL"]
           w2 == [w1 EXCEPT !.redrawView = TRUE]
           x == w2.mapped \ {"volume"}
           w == [w2 EXCEPT !.mapped = x]
<1>1. Ready(s) /\ "volume" \in s.strays /\ s \in Viewport3D
  <2>1. "volume" \in Excuses
    BY DEF Excuses
  <2>2. Ready(s) /\ s.strays = v.strays \union {"volume"}
    BY <2>1, StrayReady
  <2> HIDE DEF s
  <2> QED BY <2>2 DEF Ready, Settled, Sound3D
<1> HIDE DEF s
<1>2. w1 \in Viewport3D /\ SameElse(w1, s) /\ w1.panel = "CONTROL" /\ w1.mapped = s.mapped
    BY <1>1, PanelUpdate DEF Panels
<1> HIDE DEF w1
<1>3. w2 \in Viewport3D /\ SameElse(w2, s) /\ w2.panel = "CONTROL" /\ w2.mapped = s.mapped
    BY <1>2, FlagElse, SameElseTransitive DEF SamePanels
<1> HIDE DEF w2
<1>4. x \in SUBSET PopUps /\ x \subseteq s.mapped
    BY <1>3, FieldTypes
<1> HIDE DEF x
<1>5. w \in Viewport3D /\ SameElse(w, s) /\ w.panel = "CONTROL" /\ w.mapped = x
    BY <1>3, <1>4, MappedUpdate, SameElseTransitive
<1> HIDE DEF w
<1>6. PanelsGood(w) /\ Due(w)
    BY <1>1, <1>5 DEF PanelsGood, SameElse, Due, Excused
<1>7. ShadesGood(w)
    BY <1>1, <1>5, GoodKept DEF SameElse, Ready, Settled
<1>8. LightGood(w)
    BY <1>1, <1>4, <1>5 DEF SameElse, SameLight, LightGood, Ready, Settled, Sound3D
<1>9. Ready(w)
    BY <1>1, <1>5, <1>6, <1>7, <1>8, KeptReady DEF SameElse
<1> QED BY <1>9 DEF w, x, w2, w1, s

\* A change that no flag tells of.
LEMMA UnflaggedReady ==
    ASSUME NEW v, Ready(v), NEW aspects \in SUBSET Aspects,
           NEW s \in {"volume", "command"}
    PROVE  /\ Ready(Stray(Change(v, aspects), s))
           /\ v.panel = "VOLUME" => Ready(Change(v, aspects))
<1> DEFINE c == Change(v, aspects)
           w == Stray(c, s)
<1>1. /\ c \in Viewport3D /\ Kept(c, v) /\ c.strays = v.strays /\ c.style = v.style
      /\ SamePanels(c, v) /\ SameHues(c, v) /\ SameLight(c, v)
    BY ChangeSame
<1> HIDE DEF c
<1>2. /\ w \in Viewport3D
      /\ SameScene(w, c) /\ SameFlags(w, c) /\ SameColour(w, c)
      /\ SameLists(w, c) /\ SamePicture(w, c)
      /\ w.strays = c.strays \union {s} /\ w.fault = c.fault
    BY <1>1, StrayFacts DEF Excuses
<1> HIDE DEF w
<1>3. Kept(w, c)
    BY <1>2 DEF Kept, KeptBut, SameScene, SameFlags, SamePicture
<1>4. Kept(w, v)
    BY <1>1, <1>3, KeptTransitive
<1>5. SamePanels(w, v) /\ SameHues(w, v) /\ SameLight(w, v) /\ w.style = v.style
    BY <1>1, <1>2 DEF SamePanels, SameHues, SameLight, SameScene, SameFlags, SameColour
<1>6. /\ PanelsGood(w) /\ ShadesGood(w) /\ LightGood(w)
      /\ PanelsGood(c) /\ ShadesGood(c) /\ LightGood(c)
    BY <1>1, <1>4, <1>5, GoodKept DEF Kept, KeptBut, SamePanels, Ready, Settled
<1>7. Due(w) /\ (v.panel = "VOLUME" => Due(c))
    BY <1>1, <1>2 DEF Due, Excused, SamePanels
<1>8. Ready(w)
    BY <1>2, <1>4, <1>5, <1>6, <1>7, KeptReady
<1>9. v.panel = "VOLUME" => Ready(c)
    BY <1>1, <1>6, <1>7, KeptReady
<1> QED BY <1>8, <1>9 DEF w, c

\* A change in the volume panel, drawn when the panel is left, or excused.
LEMMA VolumeChangeReady ==
    ASSUME NEW v, Ready(v), NEW aspect \in Aspects
    PROVE  Ready(VolumeChange(v, aspect))
<1>1. {aspect} \in SUBSET Aspects
    OBVIOUS
<1>2. /\ Ready(Stray(Change(v, {aspect}), "volume"))
      /\ v.panel = "VOLUME" => Ready(Change(v, {aspect}))
    BY <1>1, UnflaggedReady
<1>3. v.panel = "VOLUME" => Change(v, {aspect}).panel = "VOLUME"
    BY <1>1, ChangeFacts DEF SameScene, Ready, Settled, Sound3D
<1>4. v.panel # "VOLUME" => Change(v, {aspect}).panel # "VOLUME"
    BY <1>1, ChangeFacts DEF SameScene, Ready, Settled, Sound3D
<1> QED BY <1>2, <1>3, <1>4 DEF VolumeChange

\* A click on the frame of the volume panel names it.
LEMMA FrameReady ==
    ASSUME NEW v, Ready(v), OnVolume(v)
    PROVE  Ready([v EXCEPT !.panel = "VOLUME"])
<1> DEFINE w == [v EXCEPT !.panel = "VOLUME"]
<1>1. w \in Viewport3D /\ SameElse(w, v) /\ w.panel = "VOLUME" /\ w.mapped = v.mapped
    BY PanelUpdate DEF Ready, Settled, Sound3D, Panels
<1> HIDE DEF w
<1>2. PanelsGood(w)
    BY <1>1 DEF PanelsGood, OnVolume
<1>3. Ready(w)
    BY <1>1, <1>2, PanelReady
<1> QED BY <1>3 DEF w

-----------------------------------------------------------------------------
\* The commands of the interpreter, and the other choices of a style.
LEMMA SpadDrawReady ==
    ASSUME NEW v, Ready(v)
    PROVE  Ready(SpadDraw(v)) /\ SpadDraw(v).spadDraw
<1>1. v \in Viewport3D
    BY DEF Ready, Settled, Sound3D
<1> DEFINE w == [v EXCEPT !.spadDraw = TRUE]
<1>2. w \in Viewport3D /\ Alike(w, v) /\ w.spadDraw
  <2>1. w.spadDraw
    BY <1>1 DEF Viewport3D
  <2> QED BY <1>1, <2>1, FlagUpdates, AlikeUpdates
<1> HIDE DEF w
<1>3. Ready(w)
    BY <1>2, AlikeReady
<1> QED BY <1>2, <1>3 DEF SpadDraw, w

\* A style is chosen: all is as it was but for what the window shows.
Restyled(w, v) ==
    /\ w \in Viewport3D /\ Kept(w, v) /\ SamePanels(w, v) /\ SameHues(w, v)
    /\ SameLight(w, v) /\ w.redoDither = v.redoDither /\ w.stale = v.stale

\* A style chosen while no volume is can be drawn.
LEMMA RestyledDrawable ==
    ASSUME NEW v, Ready(v), NEW w, Restyled(w, v),
           w.panel # "VOLUME" \/ "unseen" \in w.strays
    PROVE  Drawable(w)
<1>1. PanelsGood(w) /\ ShadesGood(w) /\ LightGood(w)
    BY GoodKept DEF Restyled, Kept, KeptBut, SamePanels, Ready, Settled
<1>2. Due(w)
    BY StillDue DEF Restyled, Kept, SamePanels, SameHues, Ready, Settled
<1>3. Sound3D(w)
  <2>1. Sound3D(v) /\ Torn(v) /\ KeptBut(w, v) /\ w \in Viewport3D
    BY DEF Ready, Settled, Torn, Restyled, Kept
  <2> QED BY <1>1, <1>2, <2>1, KeptSound
<1> QED
    BY <1>3 DEF Drawable, Restyled, Kept, KeptBut, FileGood, Imaged, Ready, Settled

\* So it is by the button,
LEMMA StyleButtonDrawable ==
    ASSUME NEW v, Ready(v), v.panel # "VOLUME", NEW style \in Styles
    PROVE  Drawable([v EXCEPT !.style = style, !.shown = FALSE])
<1> DEFINE w1 == [v EXCEPT !.style = style]
           w == [w1 EXCEPT !.shown = FALSE]
<1>1. v \in Viewport3D
    BY DEF Ready, Settled, Sound3D
<1>2. w \in Viewport3D
  <2>1. w1 \in Viewport3D
    BY <1>1, OtherUpdates
  <2> HIDE DEF w1
  <2> QED BY <2>1, FlagUpdates
<1>3. Kept(w, v) /\ SamePanels(w, v)
    BY <1>1 DEF Kept, KeptBut, SameLists, SamePanels, Viewport3D
<1>4. /\ SameHues(w, v) /\ SameLight(w, v)
      /\ w.redoDither = v.redoDither /\ w.stale = v.stale
    BY <1>1 DEF SameHues, SameLight, Viewport3D
<1> HIDE DEF w
<1>5. Drawable(w)
    BY <1>2, <1>3, <1>4, RestyledDrawable DEF Restyled, SamePanels
<1> QED BY <1>5 DEF w, w1

\* and by the command, which is excused while a volume is chosen.
LEMMA StyleCommandDrawable ==
    ASSUME NEW v, Ready(v), NEW style \in Styles
    PROVE  Drawable(StyleCommand(v, style)) /\ StyleCommand(v, style).spadDraw
<1> DEFINE w1 == [v EXCEPT !.style = style]
           w2 == [w1 EXCEPT !.redoSmooth = TRUE]
           w3 == [w2 EXCEPT !.shown = FALSE]
           s == IF v.panel = "VOLUME" THEN Stray(w3, "unseen") ELSE w3
           w == [s EXCEPT !.spadDraw = TRUE]
<1>1. v \in Viewport3D
    BY DEF Ready, Settled, Sound3D
<1>2. StyleCommand(v, style) = w
    BY DEF StyleCommand, SpadDraw
<1>3. w3 \in Viewport3D
  <2>1. w1 \in Viewport3D
    BY <1>1, OtherUpdates
  <2> HIDE DEF w1
  <2>2. w2 \in Viewport3D
    BY <2>1, FlagUpdates
  <2> HIDE DEF w2
  <2> QED BY <2>2, FlagUpdates
<1>4. Restyled(w3, v)
  <2>1. Kept(w3, v) /\ SamePanels(w3, v)
    BY <1>1 DEF Kept, KeptBut, SameLists, SamePanels, Viewport3D
  <2>2. /\ SameHues(w3, v) /\ SameLight(w3, v)
        /\ w3.redoDither = v.redoDither /\ w3.stale = v.stale
    BY <1>1 DEF SameHues, SameLight, Viewport3D
  <2> QED BY <1>3, <2>1, <2>2 DEF Restyled
<1> HIDE DEF w3
<1>5. Restyled(s, v) /\ (v.panel = "VOLUME" => "unseen" \in s.strays)
  <2>1. CASE v.panel # "VOLUME"
    BY <1>4, <2>1
  <2>2. CASE v.panel = "VOLUME"
    <3>1. s = Stray(w3, "unseen")
      BY <2>2
    <3>2. /\ s \in Viewport3D
          /\ SameScene(s, w3) /\ SameFlags(s, w3) /\ SameColour(s, w3)
          /\ SameLists(s, w3) /\ SamePicture(s, w3)
          /\ s.strays = w3.strays \union {"unseen"} /\ s.fault = w3.fault
      BY <1>3, <3>1, StrayFacts DEF Excuses
    <3> HIDE DEF s
    <3>3. Kept(s, w3)
      BY <3>2 DEF Kept, KeptBut, SameScene, SameFlags, SamePicture
    <3>4. Kept(s, v)
      BY <1>4, <3>3, KeptTransitive DEF Restyled
    <3> QED
      BY <1>4, <3>2, <3>4
         DEF Restyled, SamePanels, SameHues, SameLight, SameScene, SameFlags,
             SameColour, SamePicture
  <2> QED BY <2>1, <2>2
<1> HIDE DEF s
<1>6. w \in Viewport3D /\ Alike(w, s) /\ w.spadDraw
  <2>1. s \in Viewport3D
    BY <1>5 DEF Restyled
  <2>2. w.spadDraw
    BY <2>1 DEF Viewport3D
  <2> QED BY <2>1, <2>2, FlagUpdates, AlikeUpdates
<1> HIDE DEF w
<1>7. Restyled(w, v) /\ w.panel = v.panel /\ (v.panel = "VOLUME" => "unseen" \in w.strays)
  <2>1. Kept(w, v)
    BY <1>5, <1>6, AlikeKept, KeptTransitive DEF Restyled
  <2> QED
    BY <1>5, <1>6, <2>1
       DEF Restyled, Alike, SamePanels, SameHues, SameLight, SameScene, SameFlags
<1>8. Drawable(w)
    BY <1>7, RestyledDrawable
<1> QED BY <1>2, <1>6, <1>8

\* lightDef and translucenceDef.
LEMMA NewLightReady ==
    ASSUME NEW v, Ready(v), NEW w, NEW c \in Viewport3D,
           Kept(c, v), c.strays = v.strays, c.style = v.style, SamePanels(c, v),
           SameHues(c, v), SameButLight(w, c),
           w.movingLight \/ w.light = w.temp
    PROVE  Ready(Stray(w, "command"))
<1> DEFINE s == Stray(w, "command")
<1>1. w \in Viewport3D
    BY DEF SameButLight
<1>2. /\ s \in Viewport3D
      /\ SameScene(s, w) /\ SameFlags(s, w) /\ SameColour(s, w)
      /\ SameLists(s, w) /\ SamePicture(s, w)
      /\ s.strays = w.strays \union {"command"} /\ s.fault = w.fault
    BY <1>1, StrayFacts DEF Excuses
<1> HIDE DEF s
<1>3. Kept(s, w)
    BY <1>2 DEF Kept, KeptBut, SameScene, SameFlags, SamePicture
<1>4. Kept(s, v)
    BY <1>3, KeptTransitive DEF SameButLight
<1>5. SamePanels(s, v) /\ SameHues(s, v) /\ s.style = v.style
    BY <1>2 DEF SameButLight, SamePanels, SameHues, SameScene, SameColour
<1>6. PanelsGood(s) /\ ShadesGood(s)
    BY <1>4, <1>5, GoodKept DEF Kept, KeptBut, Ready, Settled
<1>7. LightGood(s)
    BY <1>2 DEF LightGood, SameScene, SameFlags
<1>8. Due(s)
    BY <1>2 DEF Due, Excused
<1>9. Ready(s)
    BY <1>2, <1>4, <1>5, <1>6, <1>7, <1>8, KeptReady
<1> QED BY <1>9 DEF s

\* lightDef sets the flag of a light that moves,
LEMMA LightDefReady ==
    ASSUME NEW v, Ready(v)
    PROVE  Ready(LightDef(v))
<1> DEFINE c == Change(v, {"light"})
           x == 1 - c.light
           u == [c EXCEPT !.light = x]
           w == [u EXCEPT !.movingLight = TRUE]
<1>1. /\ c \in Viewport3D /\ Kept(c, v) /\ c.strays = v.strays /\ c.style = v.style
      /\ SamePanels(c, v) /\ SameHues(c, v)
  <2>1. {"light"} \in SUBSET Aspects
    BY DEF Aspects
  <2> QED BY <2>1, ChangeSame
<1>2. LightDef(v) = Stray(w, "command")
    BY DEF LightDef
<1> HIDE DEF c
<1>3. x \in 0 .. 1
    BY <1>1, OtherLight
<1> HIDE DEF x
<1>4. SameButLight(u, c)
    BY <1>1, <1>3, LightUpdate
<1> HIDE DEF u
<1>5. SameButLight(w, u) /\ w.movingLight
    BY <1>4, LightFlagUpdate DEF SameButLight, LightIs
<1> HIDE DEF w
<1>6. SameButLight(w, c)
    BY <1>4, <1>5, SameButLightTransitive
<1> QED BY <1>1, <1>2, <1>5, <1>6, NewLightReady

\* and translucenceDef the light of the panel; both are excused.
LEMMA TranslucenceDefReady ==
    ASSUME NEW v, Ready(v)
    PROVE  Ready(TranslucenceDef(v))
<1> DEFINE c == Change(v, {"light"})
           x == 1 - v.light
           u1 == [c EXCEPT !.light = 1 - @]
           u2 == [u1 EXCEPT !.temp = x]
           w == [u2 EXCEPT !.changedIntensity = TRUE]
<1>1. /\ c \in Viewport3D /\ Kept(c, v) /\ c.strays = v.strays /\ c.style = v.style
      /\ SamePanels(c, v) /\ SameHues(c, v) /\ SameLight(c, v)
  <2>1. {"light"} \in SUBSET Aspects
    BY DEF Aspects
  <2> QED BY <2>1, ChangeSame
<1>2. TranslucenceDef(v) = Stray(w, "command")
    BY DEF TranslucenceDef
<1>3. x \in 0 .. 1
    BY OtherLight DEF Ready, Settled, Sound3D
<1>4. u1 = [c EXCEPT !.light = x]
    BY <1>1 DEF SameLight
<1> HIDE DEF c, x, u1
<1>5. SameButLight(u1, c) /\ u1.light = x
    BY <1>1, <1>3, <1>4, LightUpdate DEF LightIs
<1>6. SameButLight(u2, u1) /\ u2.light = x /\ u2.temp = x
  <2>1. u1 \in Viewport3D
    BY <1>5 DEF SameButLight
  <2>2. /\ SameButLight(u2, u1)
        /\ LightIs(u2, u1.light, x, u1.movingLight, u1.changedIntensity)
    BY <1>3, <2>1, LightUpdate
  <2> QED BY <1>5, <2>2 DEF LightIs
<1> HIDE DEF u2
<1>7. SameButLight(w, u2) /\ w.light = x /\ w.temp = x
  <2>1. u2 \in Viewport3D
    BY <1>6 DEF SameButLight
  <2>2. /\ SameButLight(w, u2)
        /\ LightIs(w, u2.light, u2.temp, u2.movingLight, TRUE)
    BY <2>1, LightFlagUpdate
  <2> QED BY <1>6, <2>2 DEF LightIs
<1> HIDE DEF w
<1>8. SameButLight(w, c)
    BY <1>5, <1>6, <1>7, SameButLightTransitive
<1> QED BY <1>1, <1>2, <1>7, <1>8, NewLightReady

-----------------------------------------------------------------------------
\* Windows that are exposed.
LEMMA ResizedReady ==
    ASSUME NEW v, Ready(v), NEW size \in BOOLEAN
    PROVE  Ready([Resized(v, size) EXCEPT !.exposeView = TRUE, !.follow = FALSE])
<1> DEFINE r == Resized(v, size)
           w1 == [r EXCEPT !.exposeView = TRUE]
           w == [w1 EXCEPT !.follow = FALSE]
<1>1. Ready(r)
  <2>1. {"size"} \in SUBSET Aspects
    BY DEF Aspects
  <2> QED BY <2>1, RemadeReady DEF Resized
<1> HIDE DEF r
<1>2. w1 \in Viewport3D /\ Alike(w1, r)
    BY <1>1, FlagUpdates, AlikeUpdates DEF Ready, Settled, Sound3D
<1> HIDE DEF w1
<1>3. w \in Viewport3D /\ Alike(w, r)
    BY <1>2, FlagUpdates, AlikeUpdates, AlikeTransitive
<1> HIDE DEF w
<1>4. Ready(w)
    BY <1>1, <1>3, AlikeReady
<1> QED BY <1>4 DEF w, w1, r

\* What is alike to a settled viewport is settled.
LEMMA AlikeSettled ==
    ASSUME NEW v, NEW w \in Viewport3D, Alike(w, v), Settled(v)
    PROVE  Settled(w)
BY AlikeSound DEF Settled, Alike, DrawableGood, FileGood, SameScene

\* The control panel that is exposed draws the viewport if it was asked to.
LEMMA ExposureSettles ==
    ASSUME NEW v, Ready(v), NEW m \in Meets
    PROVE  LET w == [v EXCEPT !.follow = FALSE]
           IN  /\ Ready(w)
               /\ Settled([DrawViewport([w EXCEPT !.redrawView = FALSE], m[1], m[2], "X")
                             EXCEPT !.exposeView = FALSE])
<1> DEFINE w == [v EXCEPT !.follow = FALSE]
           u == [w EXCEPT !.redrawView = FALSE]
           d == DrawViewport(u, m[1], m[2], "X")
           e == [d EXCEPT !.exposeView = FALSE]
<1>1. w \in Viewport3D /\ Alike(w, v)
    BY FlagUpdates, AlikeUpdates DEF Ready, Settled, Sound3D
<1> HIDE DEF w
<1>2. Ready(w)
    BY <1>1, AlikeReady
<1>3. u \in Viewport3D /\ Alike(u, w)
    BY <1>1, FlagUpdates, AlikeUpdates
<1> HIDE DEF u
<1>4. Drawable(u)
    BY <1>2, <1>3, AlikeReady, ReadyIsDrawable
<1>5. Settled(d) /\ d \in Viewport3D
  <2>1. Settled(d)
    BY <1>4, MeetsFacts, DrawingSettles
  <2> HIDE DEF d
  <2> QED BY <2>1 DEF Settled, Sound3D
<1> HIDE DEF d
<1>6. e \in Viewport3D /\ Alike(e, d)
    BY <1>5, FlagUpdates, AlikeUpdates
<1> HIDE DEF e
<1>7. Settled(e)
    BY <1>5, <1>6, AlikeSettled
<1> QED BY <1>2, <1>7 DEF e, d, u, w

-----------------------------------------------------------------------------
\* The image is drawn twice, each time from nothing, and both times to the end.
LEMMA DrawnAnew ==
    ASSUME NEW v, Sound3D(v), Torn(v), v.firstTime, Imaged(v), FileGood(v),
           v.fault # "bad drawable"
    PROVE  LET w == DrawViewport(v, "start", "nothing", "X")
           IN  /\ Sound3D(w) /\ Torn(w) /\ Imaged(w) /\ FileGood(w)
               /\ w.fault # "bad drawable" /\ SameScene(w, v)
<1> DEFINE w == DrawViewport(v, "start", "nothing", "X")
<1>1. Pictured(w, v, "X")
    BY DrawViewportFacts DEF StopPoints
<1> HIDE DEF w
<1>2. Redone(v)
    BY DEF Redone
<1> QED BY <1>1, <1>2 DEF Pictured, FileGood, Lasting, w

\* Sound as before, but for the pictures that have to be made.
LEMMA RemadeSound ==
    ASSUME NEW v, Sound3D(v), Torn(v), Imaged(v), FileGood(v),
           v.fault # "bad drawable",
           NEW w \in Viewport3D, KeptBut(w, v), SamePanels(w, v), SameLight(w, v),
           w.firstTime, ~w.oneHue \/ w.mono,
           w.style = "smooth" => v.style = "smooth"
    PROVE  /\ Sound3D(w) /\ Torn(w) /\ Imaged(w) /\ FileGood(w)
           /\ w.fault # "bad drawable"
<1>1. PanelsGood(w) /\ LightGood(w)
    BY GoodKept DEF KeptBut, SamePanels
<1>2. ShadesGood(w) /\ Due(w)
    BY DEF ShadesGood, Due, Redone
<1>3. Sound3D(w)
    BY <1>1, <1>2, KeptSound
<1>4. Torn(w) /\ Imaged(w) /\ FileGood(w) /\ w.fault # "bad drawable"
    BY DEF KeptBut, Torn, Imaged, FileGood
<1> QED BY <1>3, <1>4

\* What writeViewport changes before it draws in colour, and then in grey.
Coloured(v) ==
    [Change(v, {"colour", "size"}) EXCEPT
       !.writeImage = TRUE, !.oneHue = FALSE, !.firstTime = TRUE,
       !.style = IF @ = "transparent" THEN "render" ELSE @,
       !.outline = @ \/ v.style \in {"transparent", "render"}]

Greyed(v) == [Change(v, {"colour"}) EXCEPT !.mono = TRUE, !.firstTime = TRUE]

\* Neither change disturbs the panels or the lights,
LEMMA ColouredFacts ==
    ASSUME NEW v \in Viewport3D, Sound3D(v)
    PROVE  LET w == Coloured(v)
           IN  /\ w \in Viewport3D /\ KeptBut(w, v) /\ SamePanels(w, v) /\ SameLight(w, v)
               /\ w.firstTime /\ ~w.oneHue /\ (w.style = "smooth" => v.style = "smooth")
<1> DEFINE c == Change(v, {"colour", "size"})
           style == IF c.style = "transparent" THEN "render" ELSE c.style
           outline == c.outline \/ v.style \in {"transparent", "render"}
           w1 == [c EXCEPT !.writeImage = TRUE]
           w2 == [w1 EXCEPT !.oneHue = FALSE]
           w3 == [w2 EXCEPT !.firstTime = TRUE]
           w4 == [w3 EXCEPT !.style = style]
           w == [w4 EXCEPT !.outline = outline]
<1>1. /\ c \in Viewport3D /\ Kept(c, v) /\ ~c.shown
      /\ SameScene(c, v) /\ SameFlags(c, v)
  <2>1. {"colour", "size"} \in SUBSET Aspects
    BY DEF Aspects
  <2> QED BY <2>1, ChangeFacts, ChangeKept
<1>2. Coloured(v) = w
  <2>1. [c EXCEPT !.writeImage = TRUE, !.oneHue = FALSE, !.firstTime = TRUE,
                  !.style = IF @ = "transparent" THEN "render" ELSE @,
                  !.outline = @ \/ v.style \in {"transparent", "render"}] = w
    <3> HIDE DEF c
    <3> QED BY <1>1 DEF Viewport3D
  <2> QED BY <2>1 DEF Coloured
<1>3. style \in Styles /\ outline \in BOOLEAN /\ (style = "smooth" => v.style = "smooth")
  <2> HIDE DEF c
  <2> QED BY <1>1, FieldTypes DEF Styles, SameScene
<1> HIDE DEF c, style, outline
<1>4. w \in Viewport3D
  <2>1. w1 \in Viewport3D
    BY <1>1, FlagUpdates
  <2> HIDE DEF w1
  <2>2. w2 \in Viewport3D
    BY <2>1, FlagUpdates
  <2> HIDE DEF w2
  <2>3. w3 \in Viewport3D
    BY <2>2, FlagUpdates
  <2> HIDE DEF w3
  <2>4. w4 \in Viewport3D
    BY <1>3, <2>3, OtherUpdates
  <2> HIDE DEF w4
  <2> QED BY <1>3, <2>4, FlagUpdates
<1>5. /\ SameLists(w, c)
      /\ w.finishedList = c.finishedList /\ w.viewmap = c.viewmap /\ w.ps = c.ps
      /\ w.fault = c.fault /\ w.shades = c.shades
      /\ w.moved = c.moved /\ w.redoSmooth = c.redoSmooth
      /\ w.stale = c.stale /\ w.strays = c.strays /\ w.unsorted = c.unsorted
      /\ w.shown = c.shown
    BY <1>1 DEF SameLists, Viewport3D
<1>6. /\ SamePanels(w, c) /\ SameLight(w, c)
      /\ w.firstTime /\ ~w.oneHue /\ w.style = style
    BY <1>1 DEF SamePanels, SameLight, Viewport3D
<1> HIDE DEF w
<1>7. KeptBut(w, v)
    BY <1>1, <1>5, <1>6, SameTransitive DEF Kept, KeptBut
<1>8. SamePanels(w, v) /\ SameLight(w, v)
    BY <1>1, <1>6 DEF SamePanels, SameLight, SameScene, SameFlags
<1> QED BY <1>2, <1>3, <1>4, <1>6, <1>7, <1>8

\* and both ask for the picture to be made anew.
LEMMA GreyedFacts ==
    ASSUME NEW v \in Viewport3D, Sound3D(v)
    PROVE  LET w == Greyed(v)
           IN  /\ w \in Viewport3D /\ KeptBut(w, v) /\ SamePanels(w, v) /\ SameLight(w, v)
               /\ w.firstTime /\ w.mono /\ w.style = v.style
<1> DEFINE c == Change(v, {"colour"})
           w1 == [c EXCEPT !.mono = TRUE]
           w == [w1 EXCEPT !.firstTime = TRUE]
<1>1. /\ c \in Viewport3D /\ Kept(c, v) /\ ~c.shown
      /\ SameScene(c, v) /\ SameFlags(c, v)
  <2>1. {"colour"} \in SUBSET Aspects
    BY DEF Aspects
  <2> QED BY <2>1, ChangeFacts, ChangeKept
<1>2. Greyed(v) = w
    BY DEF Greyed
<1> HIDE DEF c
<1>3. w \in Viewport3D
  <2>1. w1 \in Viewport3D
    BY <1>1, FlagUpdates
  <2> HIDE DEF w1
  <2> QED BY <2>1, FlagUpdates
<1>4. KeptBut(w, c) /\ w.firstTime /\ w.mono /\ w.style = c.style
    BY <1>1 DEF KeptBut, SameLists, Viewport3D
<1>5. SamePanels(w, c) /\ SameLight(w, c)
    BY <1>1 DEF SamePanels, SameLight, Viewport3D
<1> HIDE DEF w
<1>6. KeptBut(w, v)
    BY <1>1, <1>4, SameTransitive DEF Kept, KeptBut
<1>7. SamePanels(w, v) /\ SameLight(w, v)
    BY <1>1, <1>5 DEF SamePanels, SameLight, SameScene, SameFlags
<1> QED BY <1>1, <1>2, <1>3, <1>4, <1>6, <1>7 DEF SameScene

\* writeViewport leaves a viewport that is settled and can be drawn.
LEMMA WriteImageDrawable ==
    ASSUME NEW v, Ready(v)
    PROVE  Settled(WriteImage(v)) /\ Drawable(WriteImage(v))
<1> DEFINE colour == Coloured(v)
           first == DrawViewport(colour, "start", "nothing", "X")
           grey == Greyed(first)
           second == DrawViewport(grey, "start", "nothing", "X")
           w == [second EXCEPT !.writeImage = FALSE]
<1>1. WriteImage(v) = w
    BY DEF WriteImage, Coloured, Greyed
<1>2. /\ v \in Viewport3D /\ Sound3D(v) /\ Torn(v) /\ Imaged(v) /\ FileGood(v)
      /\ v.fault # "bad drawable"
    BY DEF Ready, Settled, Sound3D, Torn
<1>3. /\ Sound3D(colour) /\ Torn(colour) /\ Imaged(colour) /\ FileGood(colour)
      /\ colour.fault # "bad drawable" /\ colour.firstTime
  <2>1. /\ colour \in Viewport3D /\ KeptBut(colour, v) /\ SamePanels(colour, v)
        /\ SameLight(colour, v)
        /\ colour.firstTime /\ ~colour.oneHue
        /\ colour.style = "smooth" => v.style = "smooth"
    BY <1>2, ColouredFacts
  <2> HIDE DEF colour
  <2> QED BY <1>2, <2>1, RemadeSound
<1> HIDE DEF colour
<1>4. /\ Sound3D(first) /\ Torn(first) /\ Imaged(first) /\ FileGood(first)
      /\ first.fault # "bad drawable"
    BY <1>3, DrawnAnew
<1> HIDE DEF first
<1>5. /\ Sound3D(grey) /\ Torn(grey) /\ Imaged(grey) /\ FileGood(grey)
      /\ grey.fault # "bad drawable" /\ grey.firstTime
  <2>1. first \in Viewport3D
    BY <1>4 DEF Sound3D
  <2>2. /\ grey \in Viewport3D /\ KeptBut(grey, first) /\ SamePanels(grey, first)
        /\ SameLight(grey, first)
        /\ grey.firstTime /\ grey.mono /\ grey.style = first.style
    BY <1>4, <2>1, GreyedFacts
  <2> HIDE DEF grey
  <2> QED BY <1>4, <2>2, RemadeSound
<1> HIDE DEF grey
<1>6. /\ Sound3D(second) /\ Torn(second) /\ Imaged(second) /\ FileGood(second)
      /\ second.fault # "bad drawable"
    BY <1>5, DrawnAnew
<1> HIDE DEF second
<1>7. second \in Viewport3D
    BY <1>6 DEF Sound3D
<1>8. /\ w \in Viewport3D /\ w.writeImage = FALSE
  <2>1. w \in Viewport3D
    BY <1>7, FlagUpdates
  <2> QED BY <1>7, <2>1 DEF Viewport3D
<1>9. /\ KeptBut(w, second) /\ SamePanels(w, second) /\ w.style = second.style
      /\ w.strays = second.strays
    BY <1>7 DEF KeptBut, SameLists, SamePanels, Viewport3D
<1>10. /\ SameHues(w, second) /\ SameLight(w, second)
       /\ w.redoDither = second.redoDither /\ w.stale = second.stale
    BY <1>7 DEF SameHues, SameLight, Viewport3D
<1> HIDE DEF w
<1>11. Sound3D(w)
  <2>1. PanelsGood(w) /\ ShadesGood(w) /\ LightGood(w)
    BY <1>6, <1>9, <1>10, GoodKept DEF SamePanels
  <2>2. Due(w)
    BY <1>6, <1>9, <1>10, StillDue DEF SamePanels, SameHues
  <2> QED BY <1>6, <1>8, <1>9, <2>1, <2>2, KeptSound
<1>12. Imaged(w) /\ FileGood(w) /\ w.fault # "bad drawable"
    BY <1>6, <1>9 DEF KeptBut, Imaged, FileGood
<1> QED BY <1>1, <1>8, <1>11, <1>12 DEF Settled, Drawable, DrawableGood

-----------------------------------------------------------------------------
\* What each handler leaves, from a viewport that meets an event.
LEMMA ReadyRedraw ==
    ASSUME NEW v, Ready(v), Redraw(v, "X")
    PROVE  Settled(v3')
BY ReadyIsDrawable, RedrawSettles

\* A field that the invariant does not depend on.
LEMMA AlikeStep ==
    ASSUME NEW v, Ready(v), NEW b \in BOOLEAN
    PROVE  /\ Ready([v EXCEPT !.haveControl = b])
           /\ Ready([v EXCEPT !.outline = b])
           /\ Ready([v EXCEPT !.clipbox = b])
           /\ Ready([v EXCEPT !.exposeView = b])
           /\ Ready([v EXCEPT !.redrawView = b])
           /\ Ready([v EXCEPT !.follow = b])
           /\ \A x \in {"all", "some", "none"} : Ready([v EXCEPT !.zoomOn = x])
<1>1. v \in Viewport3D
    BY DEF Ready, Settled, Sound3D
<1>2. ASSUME NEW w \in Viewport3D, Alike(w, v) PROVE Ready(w)
    BY <1>2, AlikeReady
<1>3. /\ [v EXCEPT !.haveControl = b] \in Viewport3D
      /\ [v EXCEPT !.outline = b] \in Viewport3D
      /\ [v EXCEPT !.clipbox = b] \in Viewport3D
      /\ [v EXCEPT !.exposeView = b] \in Viewport3D
      /\ [v EXCEPT !.redrawView = b] \in Viewport3D
      /\ [v EXCEPT !.follow = b] \in Viewport3D
    BY <1>1, FlagUpdates
<1>4. \A x \in {"all", "some", "none"} : [v EXCEPT !.zoomOn = x] \in Viewport3D
    BY <1>1, OtherUpdates
<1>5. /\ Alike([v EXCEPT !.haveControl = b], v)
      /\ Alike([v EXCEPT !.outline = b], v)
      /\ Alike([v EXCEPT !.clipbox = b], v)
      /\ Alike([v EXCEPT !.exposeView = b], v)
      /\ Alike([v EXCEPT !.redrawView = b], v)
      /\ Alike([v EXCEPT !.follow = b], v)
      /\ \A x \in {"all", "some", "none"} : Alike([v EXCEPT !.zoomOn = x], v)
    BY <1>1, AlikeUpdates
<1> QED BY <1>2, <1>3, <1>4, <1>5, ZenonT(30)

\* A flag that is turned over is a flag.
LEMMA NotBoolean ==
    ASSUME NEW v
    PROVE  /\ (~v.outline) \in BOOLEAN /\ (~v.clipbox) \in BOOLEAN
           /\ (~v.haveControl) \in BOOLEAN
OBVIOUS

\* Neither the lighting nor the volume panel is up where a control is clicked.
LEMMA NoVolume ==
    ASSUME NEW v, Ready(v), OnControl(v) \/ OnLight(v)
    PROVE  v.panel # "VOLUME"
BY DEF Ready, Settled, Sound3D, PanelsGood, OnControl, OnLight, Covered

\* The buttons of the control panel.
LEMMA ControlSettles ==
    ASSUME Ready(v3), ControlEvent PROVE Settled(v3')
<1> DEFINE t == Toggle(v3)
           p == Pot(v3)
<1>1. Ready(t) /\ Alike(t, v3)
    BY ToggleFacts
<1>2. Ready(p) /\ Alike(p, v3)
    BY PotFacts
<1> HIDE DEF t, p
<1> USE <1>1, <1>2
<1>3. /\ t.oneHue = v3.oneHue /\ p.mono = v3.mono /\ t.panel = v3.panel
    BY DEF Alike, SameScene
<1>4. CASE HideControl
    BY <1>4, AlikeStep DEF HideControl, t, Ready
<1>5. CASE Region3D
  <2>1. {"box"} \in SUBSET Aspects
    BY DEF Aspects
  <2> QED BY <1>5, <2>1, RemadeReady, ReadyRedraw DEF Region3D, t
<1>6. CASE BwColor
  <2>1. Redraw([Change(t, {"colour"}) EXCEPT
                  !.mono = ~@, !.redoSmooth = TRUE,
                  !.redoColor = @ \/ t.oneHue, !.redoDither = @ \/ ~t.oneHue], "X")
    BY <1>6, <1>3 DEF BwColor, t
  <2> QED BY <2>1, BwReady, ReadyRedraw
<1>7. CASE OutlineOnOff
  <2> DEFINE w == [t EXCEPT !.outline = ~@]
  <2>1. Ready(w)
    BY NotBoolean, AlikeStep
  <2>2. IF v3.style = "render" THEN Redraw(w, "X") ELSE v3' = w
    BY <1>7 DEF OutlineOnOff, t
  <2> HIDE DEF w
  <2> QED BY <2>1, <2>2, ReadyRedraw DEF Ready
<1>8. CASE AxesOnOff
    BY <1>8, AxesReady, ReadyRedraw DEF AxesOnOff, t
<1>9. CASE CentreButton
    BY <1>9 DEF CentreButton, t, Ready
<1>10. CASE PlaneButton
    BY <1>10, MovedReady, ReadyRedraw DEF PlaneButton, t
<1>11. CASE ResetView
  <2>1. PICK differ \in BOOLEAN : Redraw(Reset(t, differ), "X")
    BY <1>11 DEF ResetView, t
  <2>2. "light" \notin t.mapped
    BY <1>11 DEF ResetView, InCorner, Alike, SameScene
  <2> QED BY <2>1, <2>2, ResetReady, ReadyRedraw
<1>12. CASE Rotate
    BY <1>12, MovedReady, ReadyRedraw DEF Rotate, p
<1>13. CASE Zoom
  <2>1. CASE v3' = [p EXCEPT !.moved = TRUE]
    BY <2>1, FlaggedReady DEF Ready
  <2>2. CASE Redraw(Moved(p), "X")
    BY <2>2, MovedReady, ReadyRedraw
  <2> QED BY <1>13, <2>1, <2>2 DEF Zoom, p
<1>14. CASE Translate
    BY <1>14, MovedReady, ReadyRedraw DEF Translate, p
<1>15. ASSUME NEW on \in {"all", "some", "none"}, ToggleZoom(on) PROVE Settled(v3')
    BY <1>15, AlikeStep DEF ToggleZoom, t, Ready
<1>16. ASSUME NEW style \in Styles, StyleButton(style) PROVE Settled(v3')
  <2>1. t.panel # "VOLUME"
    BY <1>16, <1>3, NoVolume DEF StyleButton
  <2>2. Redraw([t EXCEPT !.style = style, !.shown = FALSE], "X")
    BY <1>16 DEF StyleButton, t
  <2> QED BY <2>1, <2>2, StyleButtonDrawable, RedrawSettles
<1>17. ASSUME NEW oneHue \in BOOLEAN, MoveColorMap(oneHue) PROVE Settled(v3')
  <2> DEFINE d == ~(oneHue /\ ~v3.mono)
  <2>1. v3' = [Hues(p, oneHue) EXCEPT !.redoDither = d]
    BY <1>17 DEF MoveColorMap, p
  <2>2. d \in BOOLEAN /\ (~(oneHue /\ ~p.mono) => d)
    BY <1>3
  <2> HIDE DEF d
  <2> QED BY <2>1, <2>2, HuesReady DEF Ready
<1> QED
  BY <1>4, <1>5, <1>6, <1>7, <1>8, <1>9, <1>10, <1>11, <1>12, <1>13, <1>14,
     <1>15, <1>16, <1>17 DEF ControlEvent

\* The lighting panel.
LEMMA LightSettles ==
    ASSUME Ready(v3), LightEvent PROVE Settled(v3')
<1> DEFINE t == Toggle(v3)
<1>1. Ready(t) /\ Alike(t, v3)
    BY ToggleFacts
<1> HIDE DEF t
<1>2. CASE Lighting
  <2>1. v3' = [PutSaveAway(t) EXCEPT
                 !.panel = "LIGHT", !.temp = v3.light, !.mapped = @ \union {"light"}]
    BY <1>2 DEF Lighting, t
  <2>2. Ready([PutSaveAway(t) EXCEPT
                 !.panel = "LIGHT", !.temp = v3.light, !.mapped = @ \union {"light"}])
    <3>1. OnControl(v3)
      BY <1>2 DEF Lighting
    <3> QED BY <1>1, <3>1, LightingReady
  <2> QED BY <2>1, <2>2 DEF Ready
<1>3. CASE LightMove
  <2>1. v3' = [Pot(v3) EXCEPT !.temp = 1 - v3.light, !.movingLight = TRUE]
    BY <1>3 DEF LightMove
  <2> QED BY <2>1, LightMoveReady DEF Ready
<1>4. CASE LightTranslucent
  <2>1. v3' = [Pot(v3) EXCEPT !.temp = 1 - v3.light, !.changedIntensity = TRUE]
    BY <1>4 DEF LightTranslucent
  <2> QED BY <2>1, LightMoveReady DEF Ready
<1>5. CASE LightReturn
  <2> DEFINE u == IF v3.light = v3.temp THEN t ELSE Change(t, {"light"})
  <2>1. v3' = [u EXCEPT
                 !.panel = "CONTROL", !.light = v3.temp,
                 !.redrawView = v3.style \in {"render", "smooth"},
                 !.redoSmooth = @ \/ v3.movingLight \/ v3.changedIntensity,
                 !.mapped = @ \ {"light"}]
    BY <1>5 DEF LightReturn, t
  <2>2. OnLight(v3)
    BY <1>5 DEF LightReturn
  <2> QED BY <1>1, <2>1, <2>2, LightReturnReady DEF Ready
<1>6. CASE LightAbort
  <2>1. v3' = [t EXCEPT !.panel = "CONTROL", !.movingLight = FALSE,
                        !.changedIntensity = FALSE, !.mapped = @ \ {"light"}]
    BY <1>6 DEF LightAbort, t
  <2>2. t.panel # "VOLUME"
    BY <1>1, <1>6, NoVolume DEF LightAbort, Alike, SameScene
  <2> QED BY <1>1, <2>1, <2>2, LightAbortReady DEF Ready
<1> QED BY <1>2, <1>3, <1>4, <1>5, <1>6 DEF LightEvent

\* The volume panel.
LEMMA VolumeSettles ==
    ASSUME Ready(v3), VolumeEvent PROVE Settled(v3')
<1> DEFINE t == Toggle(v3)
           p == Pot(v3)
<1>1. Ready(t) /\ Alike(t, v3)
    BY ToggleFacts
<1>2. Ready(p) /\ Alike(p, v3)
    BY PotFacts
<1>3. "clip" \in Aspects /\ "view" \in Aspects
    BY DEF Aspects
<1>4. OnVolume(v3) => OnVolume(p)
    BY DEF OnVolume, Pot, Ready, Settled, Sound3D, Viewport3D
<1> HIDE DEF t, p
<1> USE <1>1, <1>2
<1>5. CASE ViewVolume
    BY <1>5, ViewVolumeReady, ReadyRedraw DEF ViewVolume, t
<1>6. CASE VolumeReturn
    BY <1>6, VolumeReturnReady DEF VolumeReturn, t, Ready
<1>7. CASE VolumeAbort
    BY <1>7, VolumeAbortReady DEF VolumeAbort, t, Ready
<1>8. ASSUME NEW part \in {"eye", "hither", "frame"}, Frustrum(part)
      PROVE  Settled(v3')
  <2>1. CASE Redraw(Moved(p), "X")
    BY <2>1, MovedReady, ReadyRedraw
  <2>2. CASE Redraw(VolumeChange(p, "clip"), "X")
    BY <1>3, <2>2, VolumeChangeReady, ReadyRedraw
  <2>3. CASE OnVolume(v3) /\ v3' = [p EXCEPT !.panel = "VOLUME"]
    BY <1>4, <2>3, FrameReady DEF Ready
  <2> QED BY <1>8, <2>1, <2>2, <2>3 DEF Frustrum, p
<1>9. CASE ClipBut
  <2> DEFINE w == VolumeChange(p, "clip")
  <2>1. Ready(w)
    BY <1>3, VolumeChangeReady
  <2>2. IF v3.clipbox THEN Redraw(w, "X") ELSE v3' = w
    BY <1>9 DEF ClipBut, p
  <2> HIDE DEF w
  <2> QED BY <2>1, <2>2, ReadyRedraw DEF Ready
<1>10. CASE ClipRegionBut
  <2> DEFINE w == VolumeChange(t, "clip")
  <2>1. Ready(w)
    BY <1>3, VolumeChangeReady
  <2>2. Redraw([w EXCEPT !.clipbox = ~@], "X")
    BY <1>10 DEF ClipRegionBut, t
  <2> HIDE DEF w
  <2>3. Ready([w EXCEPT !.clipbox = ~@])
    BY <2>1, NotBoolean, AlikeStep
  <2> QED BY <2>2, <2>3, ReadyRedraw
<1>11. CASE ClipSurfaceBut
    BY <1>3, <1>11, VolumeChangeReady DEF ClipSurfaceBut, t, Ready
<1>12. ASSUME NEW on \in BOOLEAN, PerspectiveBut(on) PROVE Settled(v3')
  <2>1. Redraw(IF on THEN Moved(t) ELSE VolumeChange(t, "view"), "X")
    BY <1>12 DEF PerspectiveBut, t
  <2>2. Ready(Moved(t)) /\ Ready(VolumeChange(t, "view"))
    BY <1>3, MovedReady, VolumeChangeReady
  <2> QED BY <2>1, <2>2, ReadyRedraw
<1> QED
  BY <1>5, <1>6, <1>7, <1>8, <1>9, <1>10, <1>11, <1>12 DEF VolumeEvent

\* The excuses only ever help.
LEMMA StraySound ==
    ASSUME NEW v, Sound3D(v), NEW x \in Excuses
    PROVE  LET w == Stray(v, x)
           IN  /\ Sound3D(w) /\ (Imaged(v) => Imaged(w))
               /\ w.strays = v.strays \union {x} /\ w.panel = v.panel
               /\ w.fault = v.fault /\ w.writeImage = v.writeImage
<1> DEFINE u == v.strays \union {x}
           w == [v EXCEPT !.strays = u]
<1>1. w = Stray(v, x)
    BY DEF Stray
<1>2. v \in Viewport3D
    BY DEF Sound3D
<1>3. w \in Viewport3D
  <2>1. u \in SUBSET Excuses
    BY <1>2, FieldTypes
  <2> HIDE DEF u
  <2> QED BY <1>2, <2>1, OtherUpdates
<1>4. SameScene(w, v) /\ SameFlags(w, v)
    BY <1>2 DEF SameScene, SameFlags, Viewport3D
<1>5. SameColour(w, v) /\ SameLists(w, v)
    BY <1>2 DEF SameColour, SameLists, Viewport3D
<1>6. /\ w.stale = v.stale /\ w.unsorted = v.unsorted /\ w.shown = v.shown
      /\ w.viewmap = v.viewmap /\ w.fault = v.fault
      /\ w.strays = v.strays \union {x}
    BY <1>2 DEF Viewport3D
<1> HIDE DEF w
<1>7. Redone(w) = Redone(v) /\ Rescanned(w) = Rescanned(v)
    BY <1>4, <1>5, <1>6 DEF Redone, Rescanned, SameFlags, SameColour, SameLists
<1>8. PanelsGood(w) /\ LightGood(w)
    BY <1>4, <1>6 DEF Sound3D, PanelsGood, LightGood, SameScene, SameFlags
<1>9. ListsGood(w) /\ PixmapGood(w)
    BY <1>5, <1>6, <1>7 DEF Sound3D, ListsGood, PixmapGood, SameLists
<1>10. OrderGood(w)
    BY <1>4, <1>5, <1>6 DEF Sound3D, OrderGood, SameScene, SameFlags, SameLists
<1>11. ShadesGood(w)
    BY <1>4, <1>5, <1>6 DEF Sound3D, ShadesGood, SameScene, SameColour
<1>12. FreshGood(w)
  <2>1. Excused(v) => Excused(w)
    BY <1>6 DEF Excused
  <2> QED BY <1>4, <1>6, <1>7, <2>1 DEF Sound3D, FreshGood, SameScene
<1>13. FaultGood(w)
    BY <1>4, <1>5, <1>6, <1>7 DEF Sound3D, FaultGood, SameScene, SameLists
<1>14. Imaged(v) => Imaged(w)
    BY <1>4, <1>6 DEF Imaged, SameScene
<1>15. Sound3D(w)
    BY <1>3, <1>8, <1>9, <1>10, <1>11, <1>12, <1>13 DEF Sound3D
<1> QED BY <1>1, <1>4, <1>6, <1>14, <1>15 DEF SameScene

\* A PostScript file that the save panel makes.
LEMMA PrintedSettles ==
    ASSUME NEW v, Ready(v), NEW m \in Meets
    PROVE  Settled(DrawViewport([v EXCEPT !.redoSmooth = TRUE], m[1], m[2], "PS"))
<1> DEFINE u == [v EXCEPT !.redoSmooth = TRUE]
           w == DrawViewport(u, m[1], m[2], "PS")
<1>1. Ready(u)
    BY FlaggedReady
<1>2. Redone(u)
    BY DEF Redone, Ready, Settled, Sound3D, Viewport3D
<1> HIDE DEF u
<1>3. Pictured(w, u, "PS")
    BY <1>1, MeetsFacts, DrawViewportFacts DEF Ready, Settled
<1> HIDE DEF w
<1>4. Sound3D(w) /\ Imaged(w) /\ w.writeImage = FALSE
    BY <1>1, <1>3 DEF Pictured, Ready, Settled, SameScene
<1>5. FileGood(w)
    BY <1>1, <1>2, <1>3 DEF Pictured, Ready, Settled, FileGood, Lasting
<1>6. DrawableGood(w)
  <2>1. CASE w.fault # "bad drawable"
    BY <2>1 DEF DrawableGood
  <2>2. CASE w.fault = "bad drawable"
    <3>1. ~w.viewmap /\ u.style = "smooth"
      BY <1>1, <1>2, <1>3, <2>2 DEF Pictured, Ready
    <3>2. ~u.viewmap
      BY <1>3, <3>1 DEF Pictured
    <3>3. {"stopped", "unseen"} \intersect u.strays # {}
      BY <1>1, <3>1, <3>2 DEF Ready, Settled, Imaged
    <3>4. {"stopped", "unseen"} \intersect w.strays # {}
      BY <1>3, <3>1, <3>3 DEF Pictured, Lasting
    <3> QED BY <3>4 DEF DrawableGood
  <2> QED BY <2>1, <2>2
<1> QED BY <1>4, <1>5, <1>6 DEF Settled, w, u

\* The quit and the save panel.
LEMMA PanelsSettle ==
    ASSUME Ready(v3), QuitEvent \/ SaveEvent PROVE Settled(v3')
<1> DEFINE t == Toggle(v3)
<1>1. Ready(t)
    BY ToggleFacts
<1>2. CASE CloseAll
    BY <1>2, CloseAllReady DEF CloseAll, Ready
<1>3. CASE QuitReturn
  <2>1. Settled(Goodbye(v3))
    BY GoodbyeSettled
  <2> HIDE DEF t
  <2>2. Ready([Stray(t, "unarmed") EXCEPT !.mapped = @ \ {"quit"}])
    BY <1>1, QuitReturnReady
  <2> QED BY <1>3, <2>1, <2>2 DEF QuitReturn, t, Ready
<1>4. CASE QuitAbort
  <2> HIDE DEF t
  <2> QED BY <1>1, <1>4, QuitAbortReady DEF QuitAbort, t, Ready
<1>5. CASE SaveIt
    BY <1>5, SaveItReady DEF SaveIt, Ready
<1>6. CASE SaveExit
  <2> HIDE DEF t
  <2> QED BY <1>1, <1>6, SaveExitReady DEF SaveExit, t, Ready
<1>7. CASE PsButton
  <2> HIDE DEF t
  <2>1. CASE v3' = t
    BY <1>1, <2>1 DEF Ready
  <2>2. CASE Redraw([t EXCEPT !.redoSmooth = TRUE], "PS")
    BY <1>1, <2>2, PrintedSettles DEF Redraw
  <2> QED BY <1>7, <2>1, <2>2 DEF PsButton, t
<1>8. CASE PixmapButton
    BY <1>1, <1>8 DEF PixmapButton, Ready
<1> QED BY <1>2, <1>3, <1>4, <1>5, <1>6, <1>7, <1>8 DEF QuitEvent, SaveEvent

\* Exposures and releases.
LEMMA WindowSettles ==
    ASSUME Ready(v3), WindowEvent PROVE Settled(v3')
<1>1. ASSUME NEW size \in BOOLEAN, ExposeTitle(size) PROVE Settled(v3')
    BY <1>1, ResizedReady DEF ExposeTitle, Ready
<1>2. ASSUME NEW size \in BOOLEAN, ExposeView(size) PROVE Settled(v3')
    BY <1>2, ResizedReady, ReadyRedraw DEF ExposeView
<1>3. CASE ExposeVolume
    BY <1>3, AlikeStep, ReadyRedraw DEF ExposeVolume
<1>4. CASE ExposeControl
  <2> DEFINE w == [v3 EXCEPT !.follow = FALSE]
  <2>1. CASE v3' = w
    BY <2>1, AlikeStep DEF Ready
  <2>2. CASE \E m \in Meets :
               v3' = [DrawViewport([w EXCEPT !.redrawView = FALSE], m[1], m[2], "X")
                        EXCEPT !.exposeView = FALSE]
    BY <2>2, ExposureSettles
  <2> QED BY <1>4, <2>1, <2>2 DEF ExposeControl
<1>5. CASE ButtonRelease
  <2> DEFINE w == [v3 EXCEPT !.follow = FALSE]
             u == [w EXCEPT !.exposeView = FALSE]
  <2>1. Ready(w)
    BY AlikeStep
  <2> HIDE DEF w
  <2>2. Ready(u)
    BY <2>1, AlikeStep
  <2>3. v3' = u
    BY <1>5 DEF ButtonRelease, w
  <2> QED BY <2>2, <2>3 DEF Ready
<1> QED BY <1>1, <1>2, <1>3, <1>4, <1>5 DEF WindowEvent

\* A click in the picture brings the control panel up.
LEMMA PressSettles ==
    ASSUME Ready(v3), PressView PROVE Settled(v3')
<1> DEFINE w == [v3 EXCEPT !.exposeView = FALSE]
           u == [w EXCEPT !.haveControl = TRUE]
<1>1. Ready(w)
    BY AlikeStep
<1> HIDE DEF w
<1>2. Ready(u)
    BY <1>1, AlikeStep
<1>3. v3' = u
    BY DEF PressView, w
<1> QED BY <1>2, <1>3 DEF Ready

-----------------------------------------------------------------------------
\* The commands of the interpreter: what they leave is ready, or is drawn.
LEMMA CommandsAreGood ==
    ASSUME NEW v, Ready(v), NEW w \in Commands(v)
    PROVE  Ready(w) \/ (Drawable(w) /\ w.spadDraw)
<1>1. /\ {"clip"} \in SUBSET Aspects /\ {"point"} \in SUBSET Aspects
      /\ {"box"} \in SUBSET Aspects /\ {"size"} \in SUBSET Aspects
    BY DEF Aspects
<1>2. CASE w = MoveCommand(v)
    BY <1>2, MovedReady, SpadDrawReady DEF MoveCommand
<1>3. CASE w \in {UnflaggedCommand(v, "clip"), UnflaggedCommand(v, "point")}
  <2>1. Ready(Stray(Change(v, {"clip"}), "command"))
        /\ Ready(Stray(Change(v, {"point"}), "command"))
    BY <1>1, UnflaggedReady
  <2> QED BY <1>3, <2>1, SpadDrawReady DEF UnflaggedCommand
<1>4. CASE w = SpadDraw(AxesChanged(v))
    BY <1>4, AxesReady, SpadDrawReady
<1>5. CASE w \in {RegionCommand(v), ResizeViewport(v)}
  <2>1. Ready([Change(v, {"box"}) EXCEPT !.redoSmooth = TRUE])
        /\ Ready([Change(v, {"size"}) EXCEPT !.redoSmooth = TRUE])
    BY <1>1, RemadeReady
  <2> QED BY <1>5, <2>1, SpadDrawReady DEF RegionCommand, ResizeViewport
<1>6. CASE w \in {ColorDef(v, TRUE), ColorDef(v, FALSE)}
    BY <1>6, ColorDefReady
<1>7. CASE w \in {LightDef(v), TranslucenceDef(v)}
    BY <1>7, LightDefReady, TranslucenceDefReady
<1>8. CASE w = OutlineCommand(v)
  <2>1. Ready([v EXCEPT !.outline = ~@])
    BY NotBoolean, AlikeStep
  <2> QED BY <1>8, <2>1, SpadDrawReady DEF OutlineCommand
<1>9. CASE w = DiagOnOff(v)
    BY <1>9, SpadDrawReady DEF DiagOnOff
<1>10. CASE w = ControlCommand(v)
  <2>1. Ready([v EXCEPT !.haveControl = ~@])
    BY NotBoolean, AlikeStep
  <2> QED BY <1>10, <2>1 DEF ControlCommand
<1>11. ASSUME NEW style \in Styles, w = StyleCommand(v, style)
       PROVE  Drawable(w) /\ w.spadDraw
    BY <1>11, StyleCommandDrawable
<1> QED
  BY <1>2, <1>3, <1>4, <1>5, <1>6, <1>7, <1>8, <1>9, <1>10, <1>11 DEF Commands

\* Once a command has asked for a drawing, every later one is followed by it.
LEMMA DrawnIfAsked ==
    ASSUME NEW w, IF w.spadDraw THEN Redraw(w, "X") ELSE v3' = w,
           Drawable(w), Settled(w) \/ w.spadDraw
    PROVE  Settled(v3')
BY RedrawSettles

\* A command of the interpreter, drawn if one asked for it.
LEMMA SpadActionSettles ==
    ASSUME Ready(v3), SpadAction PROVE Settled(v3')
<1>1. PICK w \in Commands(v3) : IF w.spadDraw THEN Redraw(w, "X") ELSE v3' = w
    BY DEF SpadAction
<1>2. Ready(w) \/ (Drawable(w) /\ w.spadDraw)
    BY CommandsAreGood
<1> QED BY <1>1, <1>2, ReadyIsDrawable, DrawnIfAsked DEF Ready

\* A viewport that is drawn anew can be drawn again.
LEMMA ResetDrawable ==
    ASSUME NEW v, Ready(v), NEW differ \in BOOLEAN, NEW m \in Meets,
           "light" \in v.mapped => "light" \in v.strays
    PROVE  LET w == DrawViewport(Reset(v, differ), m[1], m[2], "X")
           IN  Settled(w) /\ Drawable(w)
<1> DEFINE r == Reset(v, differ)
           w == DrawViewport(r, m[1], m[2], "X")
<1>1. Ready(r) /\ Redone(r)
    BY ResetReady
<1> HIDE DEF r
<1>2. Settled(w)
    BY <1>1, MeetsFacts, ReadyIsDrawable, DrawingSettles
<1>3. Pictured(w, r, "X")
    BY <1>1, MeetsFacts, DrawViewportFacts DEF Ready, Settled
<1> HIDE DEF w
<1>4. w.fault # "bad drawable"
    BY <1>1, <1>3 DEF Pictured, Ready
<1> QED BY <1>2, <1>4 DEF w, r, Settled, Drawable

\* Reset by the interpreter, which is drawn once or twice.
LEMMA SpadResetSettles ==
    ASSUME Ready(v3), SpadReset PROVE Settled(v3')
<1> DEFINE v == IF "light" \in v3.mapped THEN Stray(v3, "light") ELSE v3
<1>1. PICK differ \in BOOLEAN, m \in Meets :
         LET w == DrawViewport(Reset(v, differ), m[1], m[2], "X")
         IN  IF w.spadDraw THEN Redraw(w, "X") ELSE v3' = w
    BY DEF SpadReset
<1>2. Ready(v) /\ ("light" \in v.mapped => "light" \in v.strays)
  <2>1. "light" \in Excuses
    BY DEF Excuses
  <2>2. /\ Ready(Stray(v3, "light")) /\ "light" \in Stray(v3, "light").strays
    BY <2>1, StrayReady
  <2> QED BY <2>2
<1> HIDE DEF v
<1> DEFINE w == DrawViewport(Reset(v, differ), m[1], m[2], "X")
<1>3. Settled(w) /\ Drawable(w)
    BY <1>2, ResetDrawable
<1>4. IF w.spadDraw THEN Redraw(w, "X") ELSE v3' = w
    BY <1>1
<1> HIDE DEF w
<1> QED BY <1>3, <1>4, DrawnIfAsked

\* A PostScript file that a command asks for.
LEMMA WrittenDrawable ==
    ASSUME NEW v, Ready(v), NEW m \in Meets
    PROVE  LET w == Stray(DrawViewport(v, m[1], m[2], "PS"), "writeView")
           IN  Settled(w) /\ Drawable(w)
<1> DEFINE d == DrawViewport(v, m[1], m[2], "PS")
           w == Stray(d, "writeView")
<1>1. Pictured(d, v, "PS")
    BY MeetsFacts, DrawViewportFacts DEF Ready, Settled
<1>2. Sound3D(d) /\ Imaged(d) /\ d.writeImage = FALSE
    BY <1>1 DEF Pictured, Ready, Settled, SameScene
<1>3. "writeView" \in Excuses
    BY DEF Excuses
<1> HIDE DEF d
<1>4. Sound3D(w) /\ Imaged(w) /\ "writeView" \in w.strays /\ w.writeImage = FALSE
    BY <1>2, <1>3, StraySound
<1> HIDE DEF w
<1>5. FileGood(w) /\ DrawableGood(w)
    BY <1>4 DEF FileGood, DrawableGood
<1> QED BY <1>4, <1>5 DEF Settled, Drawable, w, d

\* A file that the interpreter asks for, an image or PostScript.
LEMMA WriteViewSettles ==
    ASSUME Ready(v3), WriteView PROVE Settled(v3')
<1>1. CASE LET w == WriteImage(v3)
           IN  IF w.spadDraw THEN Redraw(w, "X") ELSE v3' = w
    BY <1>1, WriteImageDrawable, DrawnIfAsked
<1>2. CASE \E m \in Meets :
             LET w == Stray(DrawViewport(v3, m[1], m[2], "PS"), "writeView")
             IN  IF w.spadDraw THEN Redraw(w, "X") ELSE v3' = w
    BY <1>2, WrittenDrawable, DrawnIfAsked
<1> QED BY <1>1, <1>2 DEF WriteView

\* Every event leaves a settled viewport.
LEMMA EventSettles ==
    ASSUME Ready(v3), Event3D PROVE Settled(v3')
<1>1. EndEvent => Settled(v3')
    BY GoodbyeSettled DEF EndEvent, ClientMessage, CloseCommand
<1>2. ASSUME NEW s \in Styles, StyleButton(s) PROVE Settled(v3')
    BY <1>2, ControlSettles DEF ControlEvent
<1> QED
  BY <1>1, <1>2, ControlSettles, LightSettles, VolumeSettles, PanelsSettle,
     SpadActionSettles, SpadResetSettles, WriteViewSettles, WindowSettles,
     PressSettles
  DEF Event3D, ViewmanEvent

-----------------------------------------------------------------------------
\* make3DComponents draws before there is any event.
LEMMA FirstDrawingSettles ==
    ASSUME Drawable(v3), v3.firstTime, v3.fault = "no", FirstDrawing
    PROVE  Settled(v3')
<1>1. PICK m \in Meets : v3' = [DrawViewport(v3, m[1], m[2], "X")
                                  EXCEPT !.firstTime = TRUE]
    BY DEF FirstDrawing
<1> DEFINE d == DrawViewport(v3, m[1], m[2], "X")
           w == [d EXCEPT !.firstTime = TRUE]
<1>2. Settled(d)
    BY MeetsFacts, DrawingSettles
<1>3. Torn(d)
  <2>1. Pictured(d, v3, "X")
    BY MeetsFacts, DrawViewportFacts DEF Drawable
  <2>2. Redone(v3) /\ Torn(v3)
    BY DEF Redone, Torn
  <2> QED BY <2>1, <2>2 DEF Pictured
<1> HIDE DEF d
<1>4. d \in Viewport3D
    BY <1>2 DEF Settled, Sound3D
<1>5. w \in Viewport3D
    BY <1>4, FlagUpdates
<1>6. SameScene(w, d) /\ SameLists(w, d) /\ SameColour(w, d)
    BY <1>4 DEF SameScene, SameLists, SameColour, Viewport3D
<1>7. /\ w.firstTime /\ w.finishedList = d.finishedList /\ w.viewmap = d.viewmap
      /\ w.ps = d.ps /\ w.fault = d.fault /\ w.moved = d.moved
      /\ w.redoSmooth = d.redoSmooth /\ w.stale = d.stale /\ w.strays = d.strays
      /\ w.unsorted = d.unsorted /\ w.shown = d.shown
      /\ w.movingLight = d.movingLight
    BY <1>4 DEF Viewport3D
<1> HIDE DEF w
<1>8. KeptBut(w, d)
    BY <1>6, <1>7 DEF KeptBut, SameScene
<1>9. PanelsGood(w) /\ ShadesGood(w) /\ LightGood(w)
    BY <1>2, <1>6, <1>7
    DEF Settled, Sound3D, PanelsGood, ShadesGood, LightGood, SameScene, SameColour
<1>10. Due(w)
    BY <1>7 DEF Due, Redone
<1>11. Sound3D(w)
    BY <1>2, <1>3, <1>5, <1>8, <1>9, <1>10, KeptSound DEF Settled
<1>12. DrawableGood(w) /\ FileGood(w) /\ Imaged(w) /\ w.writeImage = FALSE
    BY <1>2, <1>6, <1>7 DEF Settled, DrawableGood, FileGood, Imaged, SameScene
<1> QED BY <1>1, <1>11, <1>12 DEF Settled, w, d

\* The viewport that makeViewport makes.
LEMMA InitialViewport ==
    ASSUME Init3D
    PROVE  Sound3D(v3) /\ DrawableGood(v3) /\ FileGood(v3) /\ v3.writeImage = FALSE
           /\ v3.panel = "CONTROL" /\ v3.firstTime /\ v3.fault = "no"
<1>1. v3 \in Viewport3D
    BY DEF Init3D, Viewport3D, Styles, Panels, PopUps, Aspects, Excuses, Faults
<1>2. /\ v3.writeImage = FALSE /\ v3.panel = "CONTROL" /\ v3.firstTime
      /\ v3.fault = "no" /\ v3.ps = "none" /\ ~v3.shown /\ v3.mapped = {}
      /\ v3.quickList = "none" /\ v3.scanList = "none" /\ v3.stale = Aspects
      /\ (v3.oneHue => v3.redoColor)
    BY DEF Init3D
<1>3. Redone(v3)
    BY <1>2 DEF Redone
<1>4. PanelsGood(v3) /\ ListsGood(v3) /\ ShadesGood(v3) /\ LightGood(v3)
    BY <1>2 DEF PanelsGood, ListsGood, ShadesGood, LightGood
<1>5. OrderGood(v3) /\ PixmapGood(v3)
    BY <1>2, <1>3 DEF OrderGood, PixmapGood, Aspects
<1>6. FreshGood(v3) /\ FaultGood(v3) /\ DrawableGood(v3) /\ FileGood(v3)
    BY <1>2, <1>3 DEF FreshGood, FaultGood, DrawableGood, FileGood
<1> QED BY <1>1, <1>2, <1>4, <1>5, <1>6 DEF Sound3D

\* The invariant holds at the start.
LEMMA Inv3DInit ==
    ASSUME Init3D PROVE Inv3D
<1>1. focus3 \in Focuses /\ events3 = 0
    BY DEF Init3D
<1>2. MaxEvents3D[focus3] \in Nat
    BY <1>1, View3DAssumption
<1>3. events3 \in 0 .. MaxEvents3D[focus3]
    BY <1>1, <1>2
<1> QED BY <1>1, <1>3, InitialViewport DEF Inv3D

\* Every drawing and every event keeps the invariant.
LEMMA Inv3DStep ==
    ASSUME Inv3D, [Next3D]_vars3 PROVE Inv3D'
<1>1. CASE UNCHANGED vars3
  <2>1. v3' = v3 /\ focus3' = focus3 /\ events3' = events3
    BY <1>1 DEF vars3
  <2>2. (Sound3D(v3) /\ DrawableGood(v3) /\ FileGood(v3) /\ Imaged(v3))'
        = (Sound3D(v3) /\ DrawableGood(v3) /\ FileGood(v3) /\ Imaged(v3))
    BY <2>1
  <2> QED BY <2>1, <2>2 DEF Inv3D
<1>2. CASE Next3D
  <2>1. /\ v3.fault = "no" /\ events3 < MaxEvents3D[focus3] /\ events3' = events3 + 1
        /\ (IF events3 = 0 THEN FirstDrawing ELSE Event3D) /\ focus3' = focus3
    BY <1>2 DEF Next3D
  <2>2. Settled(v3')
    <3>1. CASE events3 = 0
      <4>1. Drawable(v3) /\ v3.firstTime /\ FirstDrawing
        BY <2>1, <3>1 DEF Inv3D, Drawable
      <4> QED BY <2>1, <4>1, FirstDrawingSettles
    <3>2. CASE events3 # 0
      <4>1. Ready(v3)
        BY <2>1, <3>2 DEF Inv3D, Ready, Settled
      <4> QED BY <2>1, <3>2, <4>1, EventSettles
    <3> QED BY <3>1, <3>2
  <2>3. focus3' \in Focuses /\ events3' \in 0 .. MaxEvents3D[focus3'] /\ events3' # 0
    <3>1. focus3 \in Focuses /\ MaxEvents3D[focus3] \in Nat /\ events3 \in Nat
      BY View3DAssumption DEF Inv3D
    <3> QED BY <2>1, <3>1
  <2>4. (Sound3D(v3) /\ DrawableGood(v3) /\ FileGood(v3) /\ v3.writeImage = FALSE
         /\ Imaged(v3))'
    BY <2>2 DEF Settled
  <2> QED BY <2>3, <2>4 DEF Inv3D
<1> QED BY <1>1, <1>2

\* The invariant: every stale aspect of the picture will be drawn by the next
\* drawing or is accounted for, the lists, shades and pixmap the flags rely on
\* are there, and the named panel can be clicked.
THEOREM Viewport3DInvariant == Spec3D => []Inv3D
<1>1. Init3D => Inv3D
    BY Inv3DInit
<1>2. Inv3D /\ [Next3D]_vars3 => Inv3D'
    BY Inv3DStep
<1> QED BY <1>1, <1>2, PTL DEF Spec3D

\* The invariant says that the picture is the scene,
LEMMA InvSurfaces ==
    ASSUME Inv3D PROVE SurfacesAgree
<1>1. Sound3D(v3)
    BY DEF Inv3D
<1>2. ListsAreLive
    BY <1>1 DEF Sound3D, FaultGood, ListsAreLive, Excused3D
<1>3. SmoothIsFresh
    BY <1>1 DEF Sound3D, FreshGood, Excused, SmoothIsFresh, Excused3D
<1>4. SurfacesInOrder
    BY <1>1 DEF Sound3D, OrderGood, SurfacesInOrder, Excused3D
<1> QED BY <1>2, <1>3, <1>4 DEF SurfacesAgree

\* and that panels and resources are there.
LEMMA InvPanels ==
    ASSUME Inv3D PROVE PanelsAndResourcesAgree
<1>1. Sound3D(v3) /\ DrawableGood(v3) /\ FileGood(v3)
    BY DEF Inv3D
<1>2. View3DTypeOK
    BY <1>1 DEF Inv3D, Sound3D, Viewport3D, View3DTypeOK
<1>3. HiddenForVolume /\ PanelCanBeLeft
    BY <1>1 DEF Sound3D, PanelsGood, HiddenForVolume, PanelCanBeLeft, Excused3D
<1>4. ShadesAreOwned
    BY <1>1 DEF Sound3D, FaultGood, ShadesAreOwned, Excused3D
<1>5. PixmapExists /\ PsHasPicture
    BY <1>1 DEF DrawableGood, FileGood, PixmapExists, PsHasPicture, Excused3D
<1> QED BY <1>2, <1>3, <1>4, <1>5 DEF PanelsAndResourcesAgree

\* However the user and the interpreter take turns, and wherever X events stop
\* the drawings: the polygon lists are freed once and never read afterwards, a
\* smooth picture shows the scene as it is and hidden surfaces are in order,
\* with the exceptions that the property names.
THEOREM SurfacesAlwaysAgree == Spec3D => []SurfacesAgree
<1>1. Inv3D => SurfacesAgree
    BY InvSurfaces
<1> QED BY <1>1, Viewport3DInvariant, PTL

\* The panel that takes the next click can be seen and left, and the shades,
\* the pixmap and the file that a drawing needs are there.
THEOREM PanelsAlwaysAgree == Spec3D => []PanelsAndResourcesAgree
<1>1. Inv3D => PanelsAndResourcesAgree
    BY InvPanels
<1> QED BY <1>1, Viewport3DInvariant, PTL
=============================================================================
