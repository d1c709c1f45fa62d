---------------------------- MODULE ClefProcess ----------------------------
(***************************************************************************)
(* clef as a process (edible.c, and the editor key of fnct_key.c): it      *)
(* runs a program on a pseudo terminal, and five signals end it or are     *)
(* passed on.  stage is where main stands: "caught" after catch_signals,   *)
(* "forked" after the fork, "loop" after init_parent, "waiting" for the    *)
(* editor, "gone".  A signal is handled whenever it is pending.            *)
(***************************************************************************)
EXTENDS FiniteSets

VARIABLES stage, child, parent, editor, term, file, onChld, armed, pending, fault
processVars == <<stage, child, parent, editor, term, file, onChld, armed, pending, fault>>

Signals == {"HUP", "CHLD", "TERM", "INT"}
ProcessTroubles == {"no settings", "whole group", "no cleanup"}

ProcessInit ==
    /\ stage = "caught" /\ child = "none" /\ parent = "up" /\ editor = "none"
    /\ term = "found" /\ file = FALSE /\ onChld = "exit" /\ armed = TRUE
    /\ pending = {} /\ fault = {}

Fork ==
    /\ stage = "caught" /\ stage' = "forked" /\ child' = "up"
    /\ UNCHANGED <<parent, editor, term, file, onChld, armed, pending, fault>>

\* init_parent: the settings of the terminal are kept, and changed.
InitParent ==
    /\ stage = "forked" /\ stage' = "loop" /\ term' = "canon"
    /\ UNCHANGED <<child, parent, editor, file, onChld, armed, pending, fault>>

(***************************************************************************)
(* What others do.                                                         *)
(***************************************************************************)
Raise(sig) ==
    /\ stage # "gone" /\ sig \in {"HUP", "TERM", "INT"} \ pending
    /\ pending' = pending \union {sig}
    /\ UNCHANGED <<stage, child, parent, editor, term, file, onChld, armed, fault>>

ChildDies ==
    /\ child \in {"up", "told"} /\ child' = "dead"
    /\ pending' = IF stage = "gone" THEN pending ELSE pending \union {"CHLD"}
    /\ UNCHANGED <<stage, parent, editor, term, file, onChld, armed, fault>>

ParentDies ==
    /\ parent = "up" /\ parent' = "dead"
    /\ UNCHANGED <<stage, child, editor, term, file, onChld, armed, pending, fault>>

EditorEnds ==
    /\ editor = "up" /\ editor' = "dead"
    /\ pending' = IF stage = "gone" THEN pending ELSE pending \union {"CHLD"}
    /\ UNCHANGED <<stage, child, parent, term, file, onChld, armed, fault>>

(***************************************************************************)
(* The handlers.                                                           *)
(***************************************************************************)
Settings == IF stage = "loop" \/ stage = "waiting" THEN "found" ELSE "unset"
NoSettings == IF Settings = "unset" THEN {"no settings"} ELSE {}
Handle(sig) == stage # "gone" /\ sig \in pending /\ pending' = pending \ {sig}

\* tcsetattr to the settings that were kept, unlink, exit.
EndClef(restore) ==
    /\ stage' = "gone" /\ file' = FALSE
    /\ term' = IF restore THEN Settings ELSE term
    /\ UNCHANGED <<parent, editor, onChld, armed>>

\* kill(child_pid, sig): before the fork child_pid is 0, the process group.
Tell == child' = IF child = "up" THEN "told" ELSE child
Group == IF stage = "caught" THEN {"whole group"} ELSE {}

\* The test is the wrong way round: a child that is there is left alone.
HangupHandler ==
    /\ Handle("HUP") /\ EndClef(parent = "up") /\ UNCHANGED child
    /\ fault' = fault \union NoSettings

\* Mutant: the temporary file stays, and so do the settings.
TerminateHandler_Exit ==
    /\ Handle("TERM") /\ Tell /\ stage' = "gone"
    /\ fault' = fault \union NoSettings \union Group
    /\ UNCHANGED <<file, term, parent, editor, onChld, armed>>

TerminateHandler ==
    /\ Handle("TERM") /\ EndClef(TRUE) /\ Tell
    /\ fault' = fault \union NoSettings \union Group

InterruptHandler ==
    /\ Handle("INT") /\ Tell
    /\ fault' = fault \union Group
    /\ UNCHANGED <<stage, parent, editor, term, file, onChld, armed>>

\* child_handler, or null_fnct once the editor key has been used.
ChildHandler ==
    /\ Handle("CHLD") /\ UNCHANGED child
    /\ IF onChld = "exit"
       THEN EndClef(parent = "up") /\ fault' = fault \union NoSettings
       ELSE UNCHANGED <<stage, parent, editor, term, file, onChld, armed, fault>>

\* Mutant: the alarm is not set again.
AlarmHandler_Once ==
    /\ stage \in {"loop", "waiting"} /\ armed
    /\ IF parent = "up"
       THEN armed' = FALSE
            /\ UNCHANGED <<stage, child, parent, editor, term, file, onChld, pending, fault>>
       ELSE EndClef(TRUE) /\ UNCHANGED <<child, pending, fault>>

\* alarm_handler: every minute; it ends clef when the parent has changed.
AlarmHandler ==
    /\ stage \in {"loop", "waiting"} /\ armed
    /\ IF parent = "up" THEN UNCHANGED processVars
       ELSE EndClef(TRUE) /\ UNCHANGED <<child, pending, fault>>

(***************************************************************************)
(* The loop.                                                               *)
(***************************************************************************)
\* handle_function_key, SPECIAL: the line goes to a file and an editor is
\* started on it; fork may fail.
EditorKey ==
    /\ stage = "loop" /\ editor # "up" /\ ~(child = "dead" /\ onChld = "null")
    /\ stage' = "waiting" /\ file' = TRUE /\ onChld' = "null"
    /\ editor' \in {"up", "none"}
    /\ UNCHANGED <<child, parent, term, armed, pending, fault>>

\* while (wait(0) < 0): any child that has ended will do; with none it spins.
EditorWaited ==
    /\ stage = "waiting" /\ "dead" \in {child, editor}
    /\ IF editor = "dead" THEN editor' = "none" /\ UNCHANGED child
       ELSE child' = "reaped" /\ UNCHANGED editor
    /\ stage' = "loop"
    /\ UNCHANGED <<parent, term, file, onChld, armed, pending, fault>>

\* wct.c fatal: a word file that cannot be read again ends clef as it is.
CompletionFatal ==
    /\ stage = "loop" /\ stage' = "gone" /\ fault' = fault \union {"no cleanup"}
    /\ UNCHANGED <<child, parent, editor, term, file, onChld, armed, pending>>

ProcessNext ==
    \/ Fork \/ InitParent
    \/ \E sig \in Signals : Raise(sig)
    \/ ChildDies \/ ParentDies \/ EditorEnds
    \/ HangupHandler \/ TerminateHandler \/ InterruptHandler \/ ChildHandler
    \/ AlarmHandler \/ EditorKey \/ EditorWaited \/ CompletionFatal

\* main goes on, a pending signal is handled, the alarm comes every minute.
ProcessFairness ==
    /\ WF_processVars(Fork) /\ WF_processVars(InitParent)
    /\ WF_processVars(ChildHandler) /\ WF_processVars(AlarmHandler)

(***************************************************************************)
(* Properties.                                                             *)
(***************************************************************************)
ProcessTypeOK ==
    /\ stage \in {"caught", "forked", "loop", "waiting", "gone"}
    /\ child \in {"none", "up", "told", "dead", "reaped"} /\ parent \in {"up", "dead"}
    /\ editor \in {"none", "up", "dead"} /\ term \in {"found", "canon", "unset"}
    /\ file \in BOOLEAN /\ onChld \in {"exit", "null"} /\ armed \in BOOLEAN
    /\ pending \subseteq Signals /\ fault \subseteq ProcessTroubles

\* However clef ends, the terminal is as it was found and the file of the
\* editor is gone, unless it ended before it had read the settings, without a
\* handler, or with nobody left at the terminal (edible.c handlers).
LeavesNothingBehind ==
    /\ ProcessTypeOK
    /\ stage = "gone" /\ fault = {} =>
         ~file /\ (term = "found" \/ parent = "dead")

\* When the program ends clef ends, unless the editor key was ever used: its
\* null_fnct stays installed (edible.c child_handler; fnct_key.c:313).
ChildDeathEndsClef == child = "dead" ~> (stage = "gone" \/ onChld = "null")

\* clef does not outlive its parent by more than an alarm.
OrphanEnds == parent = "dead" ~> stage = "gone"

\* clef outlives neither the program it runs nor the terminal it runs in.
ClefEnds == ChildDeathEndsClef /\ OrphanEnds
=============================================================================
