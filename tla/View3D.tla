------------------------------- MODULE View3D -------------------------------
(***************************************************************************)
(* One three-dimensional viewport (graph/view3D): the control panel and    *)
(* its pop-up panels, the commands of the interpreter and, behind them,    *)
(* the redrawing that any X event may stop.                                *)
(*                                                                         *)
(* The picture is remembered in three places: quickList (the polygons in   *)
(* drawing order), scanList (the polygons of each scan line) and viewmap   *)
(* (the smooth image).  Flags say what has to be made again.  What is      *)
(* drawn is abstracted to `stale', the aspects of the scene that the       *)
(* smooth image does not show yet, and `unsorted', which says that the     *)
(* view changed since quickList was sorted.                                *)
(***************************************************************************)
EXTENDS Naturals, FiniteSets

CONSTANT MaxEvents3D    \* the X events and commands of a session, by its focus

Focuses == {"any", "light", "volume", "commands"}

ASSUME View3DAssumption == MaxEvents3D \in [Focuses -> Nat]

Styles == {"transparent", "opaqueMesh", "render", "smooth"}
Panels == {"CONTROL", "LIGHT", "VOLUME", "SAVE", "QUIT"}
PopUps == {"light", "volume", "save", "quit"}
Aspects == {"view", "size", "colour", "box", "axes", "light", "clip", "point"}
Faults == {"no", "exit", "freed twice", "used after free", "bad drawable",
           "no such shade"}
\* What no test of the code notices and what the properties except.
Excuses == {"stopped", "torn", "volume", "command", "light", "axes",
            "unseen", "reset from BW", "unarmed", "writeView", "printed"}

VARIABLES
    v3,        \* the viewport
    focus3,    \* which events the session is about, fixed at its start
    events3    \* how many there have been
vars3 == <<v3, focus3, events3>>

\* The fields of a viewport.
Viewport3D ==
    [style : Styles, mono : BOOLEAN,
     outline : BOOLEAN, oneHue : BOOLEAN, clipbox : BOOLEAN,
     zoomOn : {"all", "some", "none"},
     haveControl : BOOLEAN, panel : Panels, mapped : SUBSET PopUps,
     saveFlag : BOOLEAN, closing : BOOLEAN, redrawView : BOOLEAN,
     exposeView : BOOLEAN, follow : BOOLEAN, spadDraw : BOOLEAN,
     moved : BOOLEAN, redoSmooth : BOOLEAN, redoColor : BOOLEAN,
     redoDither : BOOLEAN, movingLight : BOOLEAN,
     changedIntensity : BOOLEAN, firstTime : BOOLEAN,
     finishedList : BOOLEAN, scanning : BOOLEAN,
     pixelSet : BOOLEAN, multiColor : BOOLEAN, shades : BOOLEAN,
     smoothError : BOOLEAN, viewmap : BOOLEAN, writeImage : BOOLEAN,
     quickList : {"none", "live", "freed"},
     scanList : {"none", "live", "freed"},
     light : 0 .. 1, temp : 0 .. 1,
     stale : SUBSET Aspects, unsorted : BOOLEAN,
     shown : BOOLEAN,
     ps : {"none", "picture", "part", "empty"},
     strays : SUBSET Excuses, fault : Faults]

\* Every variable stays in its domain.
View3DTypeOK ==
    /\ v3 \in Viewport3D
    /\ focus3 \in Focuses
    /\ events3 \in 0 .. MaxEvents3D[focus3]

\* The globals of main3d.c, and makeViewport: one hue asks for its shades.
Init3D ==
    /\ \E oneHue, shades, showCP \in BOOLEAN, style \in {"opaqueMesh", "smooth"} :
         v3 = [style |-> style, mono |-> FALSE,
               outline |-> FALSE, oneHue |-> oneHue, clipbox |-> FALSE,
               zoomOn |-> "all",
               haveControl |-> showCP, panel |-> "CONTROL", mapped |-> {},
               saveFlag |-> FALSE, closing |-> FALSE, redrawView |-> FALSE,
               exposeView |-> FALSE, follow |-> FALSE, spadDraw |-> FALSE,
               moved |-> TRUE, redoSmooth |-> FALSE, redoColor |-> oneHue,
               redoDither |-> FALSE, movingLight |-> FALSE,
               changedIntensity |-> FALSE, firstTime |-> TRUE,
               finishedList |-> FALSE, scanning |-> FALSE,
               pixelSet |-> FALSE, multiColor |-> ~oneHue, shades |-> shades,
               smoothError |-> FALSE, viewmap |-> FALSE, writeImage |-> FALSE,
               quickList |-> "none", scanList |-> "none",
               light |-> 0, temp |-> 0,
               stale |-> Aspects, unsorted |-> TRUE,
               shown |-> FALSE, ps |-> "none", strays |-> {}, fault |-> "no"]
    /\ focus3 \in Focuses
    /\ events3 = 0

(***************************************************************************)
(* Drawing, and what stops it.  keepDrawingViewport looks at the first     *)
(* pending event: an Expose stops all drawings but the first one, a        *)
(* release is taken, a click on Hide hides the panel, anything else stops  *)
(* the drawing, as does a mouse button held down with nothing pending.     *)
(***************************************************************************)
Pending == {"nothing", "Expose", "ButtonRelease", "hideControl", "other"}
StopPoints == {"start", "freed", "collected", "scan"}

KeepDrawingViewport(v, p) ==
    CASE v.writeImage -> TRUE
      [] p = "nothing" -> ~v.follow
      [] p = "Expose" -> v.firstTime
      [] p \in {"ButtonRelease", "hideControl"} -> TRUE
      [] p = "other" -> FALSE

\* What looking at the event changes.
Taken(v, p) ==
    CASE p = "ButtonRelease" -> [v EXCEPT !.follow = FALSE]
      [] p = "hideControl" -> [v EXCEPT !.haveControl = FALSE]
      [] OTHER -> v

\* draw3DComponents throws away what is pending when a scan was stopped.
Arrived(v, at, p) == IF v.scanning /\ at = "start" THEN "nothing" ELSE p

\* Where the drawing ends that meets the event p at the point `at'.
StopsAt(v, at, p) ==
    IF v.writeImage THEN "done"
    ELSE IF v.follow /\ at # "start" THEN "start"
    ELSE IF KeepDrawingViewport(v, p) THEN "done" ELSE at

\* The situations of draw.h; the five of moved are tested and cleared together.
Recalc(v) == v.moved \/ ~v.finishedList \/ v.firstTime

Fault(v, f) == [v EXCEPT !.fault = IF @ = "no" THEN f ELSE @]
Stray(v, s) == [v EXCEPT !.strays = @ \union {s}]

\* freeListOfPolygons and freePointResevoir; scanList still points there.
FreeListOfPolygons(v) ==
    LET w == [v EXCEPT !.quickList = IF @ = "none" THEN "none" ELSE "freed",
                       !.scanList = IF @ = "none" THEN "none" ELSE "freed"]
    IN IF v.quickList = "freed" THEN Fault(w, "freed twice") ELSE w

\* copyPolygons, after which the list is projected, bounded and sorted.
CopyPolygons(v) == [v EXCEPT !.quickList = "live"]

UsesQuickList(v) ==
    IF v.quickList = "freed" THEN Fault(v, "used after free") ELSE v

\* Opaque and rendered surfaces.  finishedList is only set by a drawing that
\* gets as far as the polygons.
DrawPolygons(v, stop) ==
    IF Recalc(v)
    THEN LET w == [v EXCEPT !.moved = FALSE, !.redoSmooth = TRUE,
                            !.firstTime = FALSE]
             u == CopyPolygons(IF v.firstTime THEN w ELSE FreeListOfPolygons(w))
         IN CASE stop = "start" -> Stray(w, "stopped")
              [] stop \in {"freed", "collected"} -> Stray(u, "stopped")
              [] stop = "scan" -> [u EXCEPT !.finishedList = FALSE,
                                            !.unsorted = FALSE]
              [] stop = "done" -> [u EXCEPT !.finishedList = TRUE, !.shown = TRUE,
                                            !.unsorted = FALSE]
    ELSE IF stop = "start" THEN v
    ELSE [UsesQuickList(v) EXCEPT !.shown = stop = "done"]

OneHue(v) == v.oneHue /\ ~v.mono


\* changeColorMap: shades are allocated for one hue, and given back when
\* there are several.
ChangeColorMap(v) ==
    IF OneHue(v)
    THEN IF ~v.redoColor THEN v
         ELSE [v EXCEPT !.redoColor = FALSE, !.pixelSet = v.shades,
                        !.smoothError = ~v.shades]
    ELSE LET w == [v EXCEPT !.redoDither = FALSE]
             u == IF v.pixelSet
                  THEN [w EXCEPT !.pixelSet = FALSE, !.redoColor = FALSE,
                                 !.multiColor = TRUE]
                  ELSE w
         IN IF v.mono THEN u ELSE UsesQuickList(u)

\* scanPhong and drawPhongSpan: the polygons of scanList, in the shades of
\* the one hue or in dithered colours.
ScanPhong(v) ==
    LET u == IF OneHue(v) /\ ~v.smoothError /\ ~v.pixelSet
             THEN Fault(v, "no such shade") ELSE v
    IN IF v.scanList = "freed" THEN Fault(u, "used after free") ELSE u

\* scanLines makes a new pixmap and fills it line by line; it then shows the
\* aspects `fresh' as they are, if it was not stopped.
ScanLines(v, stop, option, fresh) ==
    LET left == IF option = "PS" THEN v.stale
                ELSE IF stop = "done" THEN v.stale \ fresh ELSE Aspects
    IN ScanPhong([v EXCEPT
         !.scanning = stop # "done",
         !.viewmap = @ \/ option = "X",
         !.stale = left,
         !.strays = IF left = {} /\ v.scanList = "live"
                    THEN @ \ ({"stopped", "volume", "command", "axes", "printed"}
                              \union IF v.light = v.temp THEN {"light"} ELSE {})
                    ELSE IF option = "PS" THEN @ \union {"printed"} ELSE @,
         !.shown = stop = "done",
         !.ps = IF option = "X" THEN @
                ELSE IF stop = "done" THEN "picture" ELSE "part"])

XCopyArea(v) == IF v.viewmap THEN v ELSE Fault(v, "bad drawable")

\* The redo of drawPhong.  The list of the picture before is freed unless its
\* scan was stopped; between that and the copy the drawing may stop.
RedoPhong(v, stop, option) ==
    LET free == IF v.firstTime \/ v.scanning THEN v ELSE FreeListOfPolygons(v)
        made == [ChangeColorMap(CopyPolygons(free)) EXCEPT !.scanList = "live"]
        drawn == CASE stop = "start" -> Stray(v, "stopped")
                   [] stop = "freed" -> Stray(Stray(free, "stopped"), "torn")
                   [] stop = "collected" -> Stray(CopyPolygons(free), "stopped")
                   [] stop \in {"scan", "done"} ->
                        [XCopyArea(ScanLines(made, stop, option, Aspects))
                           EXCEPT !.unsorted = FALSE]
    IN [drawn EXCEPT !.finishedList = ~drawn.scanning, !.firstTime = FALSE]

\* What every scan draws anew: boxTObuffer, clipboxTObuffer, axesTObuffer and
\* the colours; where things are is in the lists.
Buffered == {"colour", "box", "axes", "light"}

\* A change of colour only: the lists that are there are scanned again.
RecolorPhong(v, stop, option) ==
    LET all == stop = "done"
        w == IF all THEN v ELSE Stray(v, "stopped")
    IN XCopyArea(ScanLines(ChangeColorMap(w), IF all THEN "done" ELSE "scan",
                           option, Buffered))

\* drawPhong: all flags are taken first, that of a light still being moved
\* too.  No change at all shows the pixmap again, in X only.
DrawPhong(v, stop, option) ==
    LET s == IF v.movingLight /\ v.light # v.temp THEN Stray(v, "light") ELSE v
        w == [s EXCEPT !.moved = FALSE, !.redoSmooth = FALSE,
                       !.movingLight = FALSE]
    IN IF Recalc(v) \/ v.redoSmooth THEN RedoPhong(w, stop, option)
       ELSE IF v.redoColor \/ v.redoDither THEN RecolorPhong(w, stop, option)
       ELSE [XCopyArea(v) EXCEPT !.shown = TRUE,
                                 !.ps = IF option = "PS" THEN "empty" ELSE @]

\* draw3DComponents: a mesh is drawn from the components, and leaves all
\* flags as they are.
Draw3DComponents(v, stop, option) ==
    LET w == CASE v.style = "transparent" -> [v EXCEPT !.shown = stop = "done"]
               [] v.style \in {"opaqueMesh", "render"} -> DrawPolygons(v, stop)
               [] v.style = "smooth" -> DrawPhong(v, stop, option)
    IN IF option = "PS" /\ v.style # "smooth"
       THEN [w EXCEPT !.shown = v.shown,
                      !.ps = IF stop = "done" THEN "picture" ELSE "part"]
       ELSE w

\* drawPreViewport clears the window; the axes and the far sides of the
\* regions are drawn.
DrawPreViewport(v, option) == IF option = "X" THEN [v EXCEPT !.shown = FALSE] ELSE v

\* drawViewport: the surface is drawn over that, unless the viewing volume is being chosen.
DrawViewport(v, at, p, option) ==
    LET q == Arrived(v, at, p)
        w == DrawPreViewport(v, option)
        drawn == IF v.panel = "VOLUME" THEN w
                 ELSE Draw3DComponents(Taken(w, q), StopsAt(v, at, q), option)
    IN [drawn EXCEPT !.smoothError = FALSE]

\* What a drawing may meet, and where.
Meets == ({"start"} \X Pending) \union (StopPoints \X {"other"})

Redraw(v, option) == \E m \in Meets : v3' = DrawViewport(v, m[1], m[2], option)

\* A change of the scene; what the window shows is no longer all of it.
Change(v, aspects) == [v EXCEPT !.stale = @ \union aspects, !.shown = FALSE]

Moved(v) == [Change(v, {"view"}) EXCEPT !.moved = TRUE, !.unsorted = TRUE]

(***************************************************************************)
(* The control panel.  The lighting and volume panels cover it; the quit   *)
(* and save panels cover only its corner, with Reset, Hide and Close.      *)
(***************************************************************************)
Covered(v) == v.mapped \intersect {"light", "volume"} # {}
OnControl(v) == v.haveControl /\ ~Covered(v)
InCorner(v) == v.haveControl /\ v.mapped = {}
OnLight(v) == v.haveControl /\ "light" \in v.mapped /\ "volume" \notin v.mapped
OnVolume(v) == v.haveControl /\ "volume" \in v.mapped
OnSave(v) == v.haveControl /\ "save" \in v.mapped /\ "quit" \notin v.mapped
OnQuit(v) == v.haveControl /\ "quit" \in v.mapped

\* ButtonPress on a toggle, and on a potentiometer, which is then followed;
\* either disarms a Close that was asked for.
Toggle(v) == [v EXCEPT !.closing = FALSE, !.exposeView = FALSE, !.follow = FALSE]
Pot(v) == [v EXCEPT !.closing = FALSE, !.exposeView = FALSE, !.follow = TRUE]

HideControl ==
    /\ InCorner(v3)
    /\ v3' = [Toggle(v3) EXCEPT !.haveControl = FALSE]

\* Mutant: the smooth picture is not made again.
Region3D_NoRedo ==
    /\ OnControl(v3)
    /\ Redraw(Change(Toggle(v3), {"box"}), "X")

Region3D ==
    /\ OnControl(v3)
    /\ Redraw([Change(Toggle(v3), {"box"}) EXCEPT !.redoSmooth = TRUE], "X")

BwColor ==
    /\ OnControl(v3)
    /\ Redraw([Change(Toggle(v3), {"colour"}) EXCEPT
                 !.mono = ~@, !.redoSmooth = TRUE,
                 !.redoColor = @ \/ v3.oneHue,
                 !.redoDither = @ \/ ~v3.oneHue], "X")

OutlineOnOff ==
    /\ OnControl(v3)
    /\ LET w == [Toggle(v3) EXCEPT !.outline = ~@]
       IN IF v3.style = "render" THEN Redraw(w, "X") ELSE v3' = w

\* Axes are part of the smooth picture; the flag is only set in that style.
AxesChanged(v) ==
    LET w == Change(v, {"axes"})
    IN IF v.style = "smooth"
       THEN [w EXCEPT !.redoDither = @ \/ v.multiColor,
                      !.redoColor = @ \/ ~v.multiColor]
       ELSE Stray(w, "axes")

AxesOnOff ==
    /\ OnControl(v3)
    /\ Redraw(AxesChanged(Toggle(v3)), "X")

\* zoomx, zoomy and zoomz: one of three axes is turned on or off.
ToggleZoom(on) ==
    /\ OnControl(v3)
    /\ v3.zoomOn \in {"all", "none"} => on = "some"
    /\ v3' = [Toggle(v3) EXCEPT !.zoomOn = on]

\* The choice of a style is drawn with the flags as they are.
StyleButton(style) ==
    /\ OnControl(v3)
    /\ Redraw([Toggle(v3) EXCEPT !.style = style, !.shown = FALSE], "X")

\* originr and objectr: which centre is rotated about, which no flag depends on.
CentreButton ==
    /\ OnControl(v3)
    /\ v3' = Toggle(v3)

\* xy, xz and yz.
PlaneButton ==
    /\ OnControl(v3)
    /\ Redraw(Moved(Toggle(v3)), "X")

\* resetView; the shades of one hue are not asked for again.
Reset(v, differ) ==
    LET w == [Change(v, {"view", "axes", "box", "colour", "light"}) EXCEPT
                !.outline = FALSE, !.mono = FALSE,
                !.zoomOn = "all", !.light = 0, !.redoSmooth = TRUE,
                !.moved = @ \/ differ, !.unsorted = @ \/ differ]
    IN IF v.mono THEN Stray(w, "reset from BW") ELSE w

ResetView ==
    /\ InCorner(v3)
    /\ \E differ \in BOOLEAN : Redraw(Reset(Toggle(v3), differ), "X")

\* The colour map: the hues are clamped, one of the two flags is set.
Hues(v, oneHue) ==
    LET one == oneHue /\ ~v.mono
    IN [Change(v, {"colour"}) EXCEPT !.oneHue = oneHue, !.redoColor = one]

MoveColorMap(oneHue) ==
    /\ OnControl(v3)
    /\ v3' = [Hues(Pot(v3), oneHue) EXCEPT !.redoDither = ~(oneHue /\ ~v3.mono)]

Rotate ==
    /\ OnControl(v3)
    /\ Redraw(Moved(Pot(v3)), "X")

\* Zoom with no axis chosen changes nothing but the flag.
Zoom ==
    /\ OnControl(v3)
    /\ IF v3.zoomOn = "none" THEN v3' = [Pot(v3) EXCEPT !.moved = TRUE]
       ELSE Redraw(Moved(Pot(v3)), "X")

Translate ==
    /\ OnControl(v3)
    /\ Redraw(Moved(Pot(v3)), "X")

(***************************************************************************)
(* The lighting panel works on a copy of the light until Return.           *)
(***************************************************************************)
\* Lighting and volume first put the save panel away.
PutSaveAway(v) == IF v.saveFlag THEN [v EXCEPT !.mapped = @ \ {"save"}] ELSE v

Lighting ==
    /\ OnControl(v3)
    /\ v3' = [PutSaveAway(Toggle(v3)) EXCEPT
                !.panel = "LIGHT", !.temp = v3.light, !.mapped = @ \union {"light"}]

LightMove ==
    /\ OnLight(v3)
    /\ v3' = [Pot(v3) EXCEPT !.temp = 1 - v3.light, !.movingLight = TRUE]

\* The intensity is part of the light.
LightTranslucent ==
    /\ OnLight(v3)
    /\ v3' = [Pot(v3) EXCEPT !.temp = 1 - v3.light, !.changedIntensity = TRUE]

LightReturn ==
    /\ OnLight(v3)
    /\ LET w == IF v3.light = v3.temp THEN Toggle(v3)
                ELSE Change(Toggle(v3), {"light"})
       IN v3' = [w EXCEPT
            !.panel = "CONTROL", !.light = v3.temp,
            !.redrawView = v3.style \in {"render", "smooth"},
            !.redoSmooth = @ \/ v3.movingLight \/ v3.changedIntensity,
            !.mapped = @ \ {"light"}]

\* Mutant: the panel that goes away is still named.
LightAbort_NoPanel ==
    /\ OnLight(v3)
    /\ v3' = [Toggle(v3) EXCEPT !.movingLight = FALSE, !.changedIntensity = FALSE,
                                !.mapped = @ \ {"light"}]

LightAbort ==
    /\ OnLight(v3)
    /\ v3' = [Toggle(v3) EXCEPT !.panel = "CONTROL", !.movingLight = FALSE,
                                !.changedIntensity = FALSE,
                                !.mapped = @ \ {"light"}]

(***************************************************************************)
(* The volume panel works on the scene itself; Abort undoes nothing.       *)
(***************************************************************************)
ViewVolume ==
    /\ OnControl(v3)
    /\ Redraw([PutSaveAway(Toggle(v3)) EXCEPT
                 !.panel = "VOLUME", !.mapped = @ \union {"volume"},
                 !.redrawView = TRUE], "X")

VolumeReturn ==
    /\ OnVolume(v3)
    /\ v3' = [Toggle(v3) EXCEPT !.panel = "CONTROL", !.redoSmooth = TRUE,
                                !.redrawView = TRUE, !.mapped = @ \ {"volume"}]

VolumeAbort ==
    /\ OnVolume(v3)
    /\ v3' = [Stray(Toggle(v3), "volume") EXCEPT
                !.panel = "CONTROL", !.redrawView = TRUE,
                !.mapped = @ \ {"volume"}]

\* A change made while the quit panel was put over the volume panel and taken
\* away again, after which the surface is drawn as if no volume was chosen.
VolumeChange(v, aspect) ==
    LET w == Change(v, {aspect})
    IN IF v.panel = "VOLUME" THEN w ELSE Stray(w, "volume")

\* The eye, the hither plane or neither, on which the panel is the volume's
\* again.
Frustrum(part) ==
    /\ OnVolume(v3)
    /\ CASE part = "eye" -> Redraw(Moved(Pot(v3)), "X")
         [] part = "hither" -> Redraw(VolumeChange(Pot(v3), "clip"), "X")
         [] part = "frame" -> v3' = [Pot(v3) EXCEPT !.panel = "VOLUME"]

\* clipXBut, clipYBut and clipZBut.
ClipBut ==
    /\ OnVolume(v3)
    /\ LET w == VolumeChange(Pot(v3), "clip")
       IN IF v3.clipbox THEN Redraw(w, "X") ELSE v3' = w

\* Perspective is flagged only when it is turned on.
PerspectiveBut(on) ==
    /\ OnVolume(v3)
    /\ Redraw(IF on THEN Moved(Toggle(v3)) ELSE VolumeChange(Toggle(v3), "view"), "X")

ClipRegionBut ==
    /\ OnVolume(v3)
    /\ Redraw([VolumeChange(Toggle(v3), "clip") EXCEPT !.clipbox = ~@], "X")

ClipSurfaceBut ==
    /\ OnVolume(v3)
    /\ v3' = VolumeChange(Toggle(v3), "clip")

(***************************************************************************)
(* Close and Save.                                                         *)
(***************************************************************************)
\* The control panel is named, whatever panel is below.
BackToControl(v) ==
    LET w == [v EXCEPT !.panel = "CONTROL"]
    IN IF "volume" \in v.mapped THEN Stray(w, "volume") ELSE w

CloseAll ==
    /\ InCorner(v3)
    /\ v3' = [Toggle(v3) EXCEPT !.panel = "QUIT", !.closing = TRUE,
                                !.mapped = @ \union {"quit"}]

Goodbye(v) == [v EXCEPT !.fault = "exit"]

\* Return in the quit panel ends the viewport, unless another button was
\* pressed since: then only the panel goes away.
QuitReturn ==
    /\ OnQuit(v3)
    /\ v3' = IF v3.closing THEN Goodbye(v3)
             ELSE [Stray(Toggle(v3), "unarmed") EXCEPT !.mapped = @ \ {"quit"}]

QuitAbort ==
    /\ OnQuit(v3)
    /\ v3' = [BackToControl(Toggle(v3)) EXCEPT !.mapped = @ \ {"quit"}]

SaveIt ==
    /\ OnControl(v3)
    /\ v3' = [Toggle(v3) EXCEPT !.saveFlag = TRUE, !.panel = "SAVE",
                                !.mapped = @ \union {"save"}]

SaveExit ==
    /\ OnSave(v3)
    /\ v3' = [BackToControl(Toggle(v3)) EXCEPT !.saveFlag = FALSE,
                                               !.mapped = @ \ {"save"}]

\* ps: PSInit may fail, and then nothing is drawn.
PsButton ==
    /\ OnSave(v3)
    /\ \/ v3' = Toggle(v3)
       \/ Redraw([Toggle(v3) EXCEPT !.redoSmooth = TRUE], "PS")

\* pixmap writes what the window shows.
PixmapButton ==
    /\ OnSave(v3)
    /\ v3' = Toggle(v3)

(***************************************************************************)
(* Events of the windows.                                                  *)
(***************************************************************************)
\* A window that was resized has its smooth picture made again.
Resized(v, size) ==
    IF size THEN [Change(v, {"size"}) EXCEPT !.redoSmooth = TRUE] ELSE v

ExposeTitle(size) ==
    v3' = [Resized(v3, size) EXCEPT !.exposeView = TRUE, !.follow = FALSE]

ExposeView(size) ==
    Redraw([Resized(v3, size) EXCEPT !.exposeView = TRUE, !.follow = FALSE], "X")

\* The volume panel is drawn, and the viewport if it was asked for.
ExposeVolume ==
    /\ OnVolume(v3)
    /\ v3.redrawView
    /\ Redraw([v3 EXCEPT !.redrawView = FALSE], "X")

\* A panel that goes away exposes the control panel.
ExposeControl ==
    /\ v3.haveControl
    /\ LET w == [v3 EXCEPT !.follow = FALSE]
       IN IF v3.redrawView \/ v3.exposeView
          THEN \E m \in Meets :
                 v3' = [DrawViewport([w EXCEPT !.redrawView = FALSE],
                                     m[1], m[2], "X") EXCEPT !.exposeView = FALSE]
          ELSE v3' = w

\* ButtonRelease and LeaveNotify.
ButtonRelease ==
    /\ v3.follow
    /\ v3' = [v3 EXCEPT !.follow = FALSE, !.exposeView = FALSE]

\* A click in the picture brings the control panel up; putControlPanelSomewhere.
PressView == v3' = [v3 EXCEPT !.exposeView = FALSE, !.haveControl = TRUE]

ClientMessage == v3' = Goodbye(v3)

(***************************************************************************)
(* spadAction: the commands of the interpreter, each acknowledged.  Once a *)
(* command has asked for a drawing, every later one is followed by it.     *)
(***************************************************************************)
SpadDraw(v) == [v EXCEPT !.spadDraw = TRUE]

\* rotate, zoom, zoomx, translate, perspectiveOnOff, eyeDistanceData and
\* hitherPlaneData.
MoveCommand(v) == SpadDraw(Moved(v))

\* modifyPOINT, clipRegionOnOff and clipSurfaceOnOff set no flag.
UnflaggedCommand(v, aspect) == SpadDraw(Stray(Change(v, {aspect}), "command"))

RegionCommand(v) ==
    SpadDraw([Change(v, {"box"}) EXCEPT !.redoSmooth = TRUE])

ColorDef(v, oneHue) ==
    [Hues(v, oneHue) EXCEPT !.redoDither = @ \/ ~(oneHue /\ ~v.mono)]

ResizeViewport(v) == SpadDraw([Change(v, {"size"}) EXCEPT !.redoSmooth = TRUE])

\* Nothing is drawn in the new style while the volume is chosen.
StyleCommand(v, style) ==
    LET w == [v EXCEPT !.style = style, !.redoSmooth = TRUE, !.shown = FALSE]
    IN SpadDraw(IF v.panel = "VOLUME" THEN Stray(w, "unseen") ELSE w)

\* lightDef and translucenceDef change the light and draw nothing.
LightDef(v) ==
    Stray([Change(v, {"light"}) EXCEPT !.light = 1 - @, !.movingLight = TRUE],
          "command")

TranslucenceDef(v) ==
    Stray([Change(v, {"light"}) EXCEPT !.light = 1 - @, !.temp = 1 - v.light,
                                       !.changedIntensity = TRUE], "command")

OutlineCommand(v) ==
    IF v.style = "render" THEN SpadDraw([v EXCEPT !.outline = ~@]) ELSE v

DiagOnOff(v) == IF v.outline THEN SpadDraw(v) ELSE v

ControlCommand(v) == [v EXCEPT !.haveControl = ~@]

Commands(v) ==
    {MoveCommand(v), UnflaggedCommand(v, "clip"), UnflaggedCommand(v, "point"),
     SpadDraw(AxesChanged(v)), RegionCommand(v),
     ColorDef(v, TRUE), ColorDef(v, FALSE), ResizeViewport(v),
     LightDef(v), TranslucenceDef(v), OutlineCommand(v), DiagOnOff(v),
     ControlCommand(v)}
    \union {StyleCommand(v, style) : style \in Styles}

SpadAction ==
    \E w \in Commands(v3) : IF w.spadDraw THEN Redraw(w, "X") ELSE v3' = w

\* spadPressedAButton, which the interpreter sends with resetView, also while
\* the lighting panel is up, whose copy of the light stays as it is.
SpadReset ==
    \E differ \in BOOLEAN, m \in Meets :
      LET v == IF "light" \in v3.mapped THEN Stray(v3, "light") ELSE v3
          w == DrawViewport(Reset(v, differ), m[1], m[2], "X")
      IN IF w.spadDraw THEN Redraw(w, "X") ELSE v3' = w

\* writeViewport with the Image: in colour and then in black and white, both
\* drawn to the end; the viewport stays in black and white.
WriteImage(v) ==
    LET colour == [Change(v, {"colour", "size"}) EXCEPT
                     !.writeImage = TRUE, !.oneHue = FALSE, !.firstTime = TRUE,
                     !.style = IF @ = "transparent" THEN "render" ELSE @,
                     !.outline = @ \/ v.style \in {"transparent", "render"}]
        first == DrawViewport(colour, "start", "nothing", "X")
        grey == [Change(first, {"colour"}) EXCEPT !.mono = TRUE, !.firstTime = TRUE]
    IN [DrawViewport(grey, "start", "nothing", "X") EXCEPT !.writeImage = FALSE]

\* writeView with the Image or with the PostScript file, whose drawing has
\* the flags as they are.
WriteView ==
    \/ LET w == WriteImage(v3)
       IN IF w.spadDraw THEN Redraw(w, "X") ELSE v3' = w
    \/ \E m \in Meets :
         LET w == Stray(DrawViewport(v3, m[1], m[2], "PS"), "writeView")
         IN IF w.spadDraw THEN Redraw(w, "X") ELSE v3' = w

CloseCommand == v3' = Goodbye(v3)

(***************************************************************************)
(* processEvents.                                                          *)
(***************************************************************************)
ControlEvent ==
    \/ HideControl \/ Region3D \/ BwColor \/ OutlineOnOff \/ AxesOnOff
    \/ CentreButton \/ PlaneButton \/ ResetView \/ Rotate \/ Zoom \/ Translate
    \/ \E on \in {"all", "some", "none"} : ToggleZoom(on)
    \/ \E style \in Styles : StyleButton(style)
    \/ \E oneHue \in BOOLEAN : MoveColorMap(oneHue)

LightEvent == Lighting \/ LightMove \/ LightTranslucent \/ LightReturn \/ LightAbort

VolumeEvent ==
    \/ ViewVolume \/ VolumeReturn \/ VolumeAbort
    \/ \E part \in {"eye", "hither", "frame"} : Frustrum(part)
    \/ ClipBut \/ ClipRegionBut \/ ClipSurfaceBut
    \/ \E on \in BOOLEAN : PerspectiveBut(on)

QuitEvent == CloseAll \/ QuitReturn \/ QuitAbort

SaveEvent == SaveIt \/ SaveExit \/ PsButton \/ PixmapButton

WindowEvent ==
    \/ \E size \in BOOLEAN : ExposeTitle(size) \/ ExposeView(size)
    \/ ExposeVolume \/ ExposeControl \/ ButtonRelease

ViewmanEvent == SpadAction \/ SpadReset \/ WriteView

EndEvent == ClientMessage \/ CloseCommand

Event3D ==
    \/ focus3 = "any" /\ (ControlEvent \/ LightEvent \/ VolumeEvent \/ QuitEvent
                          \/ SaveEvent \/ ViewmanEvent \/ EndEvent \/ PressView)
    \/ focus3 = "light" /\ (LightEvent \/ QuitEvent \/ SaveEvent)
    \/ focus3 = "volume" /\ (VolumeEvent \/ QuitEvent \/ SaveEvent)
    \/ focus3 = "commands" /\ (SpadAction \/ \E s \in Styles : StyleButton(s))
    \/ WindowEvent

\* make3DComponents draws once before there is any event.
FirstDrawing ==
    \E m \in Meets : v3' = [DrawViewport(v3, m[1], m[2], "X")
                              EXCEPT !.firstTime = TRUE]

Next3D ==
    /\ v3.fault = "no"
    /\ events3 < MaxEvents3D[focus3]
    /\ events3' = events3 + 1
    /\ IF events3 = 0 THEN FirstDrawing ELSE Event3D
    /\ UNCHANGED focus3

Spec3D == Init3D /\ [][Next3D]_vars3
-----------------------------------------------------------------------------
Excused3D(reasons) == v3.strays \intersect reasons # {}

\* The polygons of the picture are freed once and never read afterwards,
\* whatever the user does while they are drawn, unless a smooth drawing was
\* stopped just between freeing the old list and copying the new one, or a
\* stopped drawing was followed by a change of colour.
ListsAreLive ==
    v3.fault \in {"freed twice", "used after free"} => Excused3D({"torn", "stopped"})

\* What a smooth viewport shows after a drawing that ended is the scene as it
\* is, with the light, colours, axes and regions chosen; the code leaves out
\* clips that Abort keeps, commands without a flag, axes switched in another
\* style, a light that was drawn or reset while its panel was up, stopped
\* drawings, and a PostScript file made of a picture that was not finished.
SmoothIsFresh ==
    v3.style = "smooth" /\ v3.shown /\ v3.fault = "no" =>
      v3.stale = {} \/ Excused3D({"stopped", "volume", "command", "axes", "light",
                                   "printed"})

\* Hidden surfaces are drawn in the order of the view as it is, unless the
\* drawing that had to sort them was stopped.
SurfacesInOrder ==
    v3.style \in {"opaqueMesh", "render"} /\ v3.shown /\ v3.unsorted =>
      Excused3D({"stopped"})

\* The picture a finished drawing leaves is the scene as it is, and is made
\* of polygons that are still there.
SurfacesAgree == ListsAreLive /\ SmoothIsFresh /\ SurfacesInOrder

\* A viewport that asked for shades draws with none it does not own, unless
\* the display had too few, or a reset left black and white.
ShadesAreOwned ==
    v3.fault = "no such shade" => Excused3D({"reset from BW"}) \/ ~v3.shades

\* No pixmap is shown that was never made, unless the first drawings were
\* stopped, or the first smooth one is to a file, because the style was chosen
\* while a volume was.
PixmapExists ==
    v3.fault = "bad drawable" => Excused3D({"stopped", "writeView", "unseen"})

\* The surface is left out of the picture only while its volume panel is up.
HiddenForVolume == v3.panel = "VOLUME" => "volume" \in v3.mapped

\* Every panel that is being worked in can be seen, so that it can be left;
\* the quit panel is the exception, once another button has disarmed it.
PanelCanBeLeft ==
    /\ v3.panel = "LIGHT" => "light" \in v3.mapped
    /\ v3.panel = "SAVE" => "save" \in v3.mapped
    /\ v3.panel = "QUIT" => "quit" \in v3.mapped \/ Excused3D({"unarmed"})

\* A PostScript file that the save panel makes has the surface in it.
PsHasPicture == v3.ps = "empty" => Excused3D({"writeView"})

\* The panel that takes the next click is one the user can see and leave, and
\* the shades, the pixmap and the file a drawing needs are there.
PanelsAndResourcesAgree ==
    /\ View3DTypeOK
    /\ HiddenForVolume /\ PanelCanBeLeft
    /\ ShadesAreOwned /\ PixmapExists /\ PsHasPicture
=============================================================================
