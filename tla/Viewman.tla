------------------------------- MODULE Viewman -------------------------------
(***************************************************************************)
(* The viewport manager, src/graph/viewman: a process between Lisp, which  *)
(* asks and waits, and one child process per graphics window (view2D or    *)
(* view3D), with a pipe in each direction.  The same pipe carries what the *)
(* user does in a window and the answers to Lisp's commands.               *)
(***************************************************************************)
EXTENDS Integers, Sequences, SequencesExt, FiniteSetsExt

CONSTANTS
  Viewport,    \* windows; a window is the pid of its process, used once
  Flat,        \* the windows that run view2D; the others run view3D
  Slot,        \* graph slots of a view2D window (maxGraphs, nine in the code)
  Null,
  Command,     \* the commands Lisp sends to an existing window
  MayCrash,    \* windows that may die without a word (an X error, kill -9)
  Lapse,       \* the sets of accidents that may befall one run
  MaxRequests, \* bounds: requests of Lisp,
  MaxKey,      \* graphs made,
  MaxClicks,   \* picks and drops,
  MaxLinks     \* records of one graph in one window that ends of file add to

(* What may go wrong from outside.  "hasty": a user touches a window that Lisp
   has a command for.  "early": select reports a signal although a pipe is
   readable.  "colour": Lisp sends a form of axes that nobody takes the
   arguments of.  "fork": a fork fails.  "crash": a window dies.           *)
Accident == {"hasty", "early", "colour", "fork", "crash"}

(* "scale": scale2D and zoom have the number of viewportClosing, 1. *)
ASSUME ViewmanAssumption ==
  /\ IsFiniteSet(Viewport) /\ IsFiniteSet(Slot)
  /\ Flat \subseteq Viewport /\ MayCrash \subseteq Viewport
  /\ Null \notin Viewport
  /\ Command \subseteq {"plain", "scale", "putGraph", "closeAll", "axesColor2D"}
  /\ Lapse \subseteq SUBSET Accident
  /\ {MaxRequests, MaxKey, MaxClicks, MaxLinks} \subseteq Nat

VARIABLES
  viewports,        \* list of windows, newest first
  graphList,        \* keys of the graphs in the list
  links,            \* views of each graph: how often each window is in it
  wild,             \* graphs whose views, never initialised, do not end in NULL
  graphKey,         \* key of the next graph
  picked,
  currentGraph,
  viewCommand,      \* last command read from anywhere
  checkClosedChild,
  interrupted,      \* a SIGCHLD has arrived during the present select
  errno,            \* "EINTR" or anything else
  pc,               \* "select"; "ready", "window", "ack": waiting for cur;
                    \* "wait": in closeChildViewport; "goodbye"; final states
                    \* "exited", "quit", "spin", "desync"
  cur,              \* window being waited for
  rest,             \* in goodbye: windows not dealt with yet
  child,            \* life cycle of each process
  slots,            \* in each view2D process, the key in each slot, or 0
  in, out,          \* pipes from and to each process
  spad,             \* the request Lisp is waiting on, or Null
  requests, clicks, \* counters for the bounds
  lapses            \* the kinds of accidents this run has seen

graphVars == <<graphList, links, wild, graphKey>>
pickVars == <<picked, currentGraph>>
signalVars == <<checkClosedChild, interrupted, errno>>
managerVars == <<viewports, graphVars, pickVars, viewCommand, signalVars, pc, cur,
                 rest>>
childVars == <<child, slots, in, out>>
boundVars == <<requests, clicks, lapses>>
viewmanVars == <<managerVars, childVars, spad, boundVars>>

Key == 1..MaxKey
NoKeys == [s \in Slot |-> 0]
Final == {"exited", "quit", "spin", "desync"}
Dead == {"zombie", "reaped"}
Listed == Range(viewports)

Request ==
  [req : {"makeGraph", "makeView3D"}]
    \cup [req : {"makeView2D"}, keys : [Slot -> Key \cup {0}]]
    \cup [req : {"fun"}, cmd : Command \ {"putGraph"}, view : Viewport]
    \cup [req : {"fun"}, cmd : {"putGraph"}, view : Viewport, key : Key, slot : Slot]

FromChild ==
  [msg : {"ready", "window", "ack", "drop2D"}]
    \cup [msg : {"pick2D"}, key : Key]
    \cup [msg : {"viewportClosing"}, keys : [Slot -> Key \cup {0}]]
ToChild ==
  [msg : {"plain", "closeAll", "axesColor2D", "viewError"}]
    \cup [msg : {"make"}, keys : [Slot -> Key \cup {0}]]
    \cup [msg : {"viewOkay"}, key : Key]
    \cup [msg : {"putGraph"}, key : Key, slot : Slot]

ViewmanTypeOK ==
  /\ viewports \in Seq(Viewport) /\ rest \in Seq(Viewport)
  /\ graphList \subseteq Key /\ wild \subseteq Key
  /\ links \in [Key -> [Viewport -> Nat]]
  /\ graphKey \in 1..(MaxKey + 1)
  /\ {picked, checkClosedChild, interrupted} \subseteq BOOLEAN
  /\ currentGraph \in Key \cup {0}
  /\ viewCommand \in {"pick2D", "drop2D", "viewportClosing", "other"}
  /\ errno \in {"EINTR", "other"}
  /\ pc \in {"select", "ready", "window", "ack", "wait", "goodbye"} \cup Final
  /\ cur \in Viewport \cup {Null}
  /\ child \in [Viewport -> Dead \cup {"none", "new", "starting", "idle",
                                       "dropping", "stuck", "exiting", "termed"}]
  /\ slots \in [Viewport -> [Slot -> Key \cup {0}]]
  /\ in \in [Viewport -> Seq(FromChild)] /\ out \in [Viewport -> Seq(ToChild)]
  /\ spad \in Request \cup {Null}
  /\ requests \in 0..MaxRequests /\ clicks \in 0..MaxClicks
  /\ lapses \in SUBSET Accident

ViewmanInit ==
  /\ viewports = <<>> /\ rest = <<>>
  /\ graphList = {} /\ wild = {} /\ graphKey = 1
  /\ links = [k \in Key |-> [v \in Viewport |-> 0]]
  /\ picked = FALSE /\ checkClosedChild = FALSE /\ interrupted = FALSE
  /\ currentGraph = 0 /\ viewCommand = "other" /\ errno = "other"
  /\ pc = "select" /\ cur = Null
  /\ child = [v \in Viewport |-> "none"]
  /\ slots = [v \in Viewport |-> NoKeys]
  /\ in = [v \in Viewport |-> <<>>] /\ out = [v \in Viewport |-> <<>>]
  /\ spad = Null /\ requests = 0 /\ clicks = 0 /\ lapses = {}

(***************************************************************************)
(* Pipes.  Writing to a dead child fails with EPIPE, which nobody looks at *)
(* but errno.  Reading one is at the end of file behind its last message.  *)
(***************************************************************************)
Write(v, m) ==
  IF child[v] \in Dead THEN out' = out /\ errno' = "other"
  ELSE out' = [out EXCEPT ![v] = Append(@, m)] /\ errno' = errno

Says(v, m) == in[v] # <<>> /\ Head(in[v]).msg = m
Take(v) == in' = [in EXCEPT ![v] = Tail(@)]
AtEof(v) == in[v] = <<>> /\ child[v] \in Dead

(* readViewport does not reset errno, so that an end of file met after an
   interrupted call is read again and again.                               *)
Spins == errno = "EINTR"

(* An accident of kind k happens, or, if it is not one, nothing does. *)
Lapses(k, happens) ==
  /\ happens => \E l \in Lapse : lapses \cup {k} \subseteq l
  /\ lapses' = IF happens THEN lapses \cup {k} ELSE lapses

(***************************************************************************)
(* Select.  The windows come before Lisp, and one event is served a round. *)
(***************************************************************************)
Ready(v) == in[v] # <<>> \/ child[v] \in Dead
Turn(v) ==
  /\ pc = "select"
  /\ \E i \in DOMAIN viewports :
       /\ viewports[i] = v /\ Ready(v)
       /\ \A j \in 1..(i - 1) : ~Ready(viewports[j])
SpadTurn(r) ==
  /\ pc = "select" /\ spad # Null /\ spad.req = r
  /\ \A v \in Listed : ~Ready(v)

(* superSelect: select was interrupted by the death of a child. *)
superSelect ==
  /\ pc = "select" /\ interrupted /\ checkClosedChild
  /\ Lapses("early", \E v \in Listed : Ready(v))
  /\ \E v \in Viewport :
       /\ child[v] = "zombie"
       /\ child' = [child EXCEPT ![v] = "reaped"]
       /\ checkClosedChild' = (v \notin Listed)
  /\ interrupted' = FALSE
  /\ errno' = "EINTR"
  /\ UNCHANGED <<viewports, graphVars, pickVars, viewCommand, pc, cur, rest,
                 slots, in, out, spad, requests, clicks>>

(***************************************************************************)
(* Graphs.  A graph counts the windows it was sent to (sendGraphToView2D)  *)
(* and is discarded with the last of them (rmViewMgr).                     *)
(***************************************************************************)
Occurrences(k, ks) == Cardinality({s \in Slot : ks[s] = k})

Linked(v, k) == [links EXCEPT ![k][v] = @ + 1]
AllLinked(v, ks) == [k \in Key |-> [links[k] EXCEPT ![v] = @ + Occurrences(k, ks)]]

(* The window's records, one for each key it reports, are taken out. *)
Unlinked(v, ks) ==
  [k \in Key |-> [links[k] EXCEPT ![v] = Max({0, @ - Occurrences(k, ks)})]]

Kept(v, ks) ==
  {k \in graphList : \/ Occurrences(k, ks) = 0 \/ k \in wild
                     \/ \E w \in Viewport : Unlinked(v, ks)[k][w] > 0}

(* closeChildViewport: rmViewMgr, then wait for some child. *)
CloseChild(v, ks, next) ==
  /\ viewports' = RemoveAt(viewports, CHOOSE i \in DOMAIN viewports : viewports[i] = v)
  /\ links' = Unlinked(v, ks)
  /\ graphList' = Kept(v, ks)
  /\ pc' = next

closeChildViewportNoWait(v, ks) == CloseChild(v, ks, "select")       \* mutant
closeChildViewport(v, ks) == CloseChild(v, ks, "wait")

Waited ==
  /\ pc = "wait"
  /\ \E v \in Viewport : /\ child[v] = "zombie"
                         /\ child' = [child EXCEPT ![v] = "reaped"]
  /\ pc' = "select"
  /\ UNCHANGED <<viewports, graphVars, pickVars, viewCommand, signalVars, cur,
                 rest, slots, in, out, spad, boundVars>>

(***************************************************************************)
(* What a window sends by itself.                                          *)
(***************************************************************************)
ReadPick(v) ==
  /\ Turn(v) /\ Says(v, "pick2D")
  /\ Take(v)
  /\ viewCommand' = "pick2D"
  /\ picked' = TRUE
  /\ currentGraph' = Head(in[v]).key
  /\ interrupted' = FALSE
  /\ UNCHANGED <<viewports, graphVars, checkClosedChild, errno, pc, cur, rest,
                 child, slots, out, spad, boundVars>>

(* drop2D.  A graph that is picked and no longer listed makes the manager
   exit.                                                                   *)
DropPicked(v) ==
  /\ Write(v, [msg |-> "viewOkay", key |-> currentGraph])
  /\ links' = IF currentGraph \in graphList THEN Linked(v, currentGraph) ELSE links
  /\ pc' = IF currentGraph \in graphList THEN pc ELSE "quit"

DropTo(v) ==
  \/ ~picked /\ Write(v, [msg |-> "viewError"]) /\ UNCHANGED <<links, pc>>
  \/ picked /\ DropPicked(v)

ReadDrop(v) ==
  /\ Turn(v) /\ Says(v, "drop2D")
  /\ Take(v)
  /\ viewCommand' = "drop2D"
  /\ DropTo(v)
  /\ interrupted' = FALSE
  /\ UNCHANGED <<viewports, graphList, wild, graphKey, pickVars,
                 checkClosedChild, cur, rest, child, slots, spad, boundVars>>

ReadClosing(v) ==
  /\ Turn(v) /\ Says(v, "viewportClosing")
  /\ Take(v)
  /\ viewCommand' = "viewportClosing"
  /\ closeChildViewport(v, Head(in[v]).keys)
  /\ interrupted' = FALSE
  /\ UNCHANGED <<wild, graphKey, pickVars, checkClosedChild, errno, cur, rest,
                 child, slots, out, spad, boundVars>>

(* The result of the read is not looked at: the last command is done again,
   whoever it came from, once a round: MaxLinks bounds the rounds.         *)
ReadEof(v) ==
  /\ Turn(v) /\ AtEof(v) /\ ~Spins
  /\ \/ /\ viewCommand = "pick2D"
        /\ picked' = TRUE
        /\ UNCHANGED <<viewports, graphList, links, errno, out, pc>>
     \/ /\ viewCommand = "drop2D"
        /\ picked => links[currentGraph][v] < MaxLinks
        /\ DropTo(v)
        /\ UNCHANGED <<viewports, graphList, picked>>
     \/ /\ viewCommand = "viewportClosing"
        /\ closeChildViewport(v, NoKeys)
        /\ UNCHANGED <<picked, errno, out>>
     \/ /\ viewCommand = "other"
        /\ UNCHANGED <<viewports, graphList, links, picked, errno, out, pc>>
  /\ interrupted' = FALSE
  /\ UNCHANGED <<wild, graphKey, currentGraph, viewCommand, checkClosedChild,
                 cur, rest, child, slots, in, spad, boundVars>>

(* The read at the end of file that never returns. *)
ReadSpins ==
  /\ Spins
  /\ \/ \E v \in Viewport : Turn(v) /\ AtEof(v)
     \/ pc \in {"ready", "window", "ack"} /\ AtEof(cur)
  /\ pc' = "spin"
  /\ UNCHANGED <<viewports, graphVars, pickVars, viewCommand, signalVars, cur,
                 rest, childVars, spad, boundVars>>

(***************************************************************************)
(* What Lisp asks.                                                         *)
(***************************************************************************)
Answered == spad' = Null

(* makeGraphFromSpadData; malloc need not return zeros, and views is unset. *)
makeGraph ==
  /\ SpadTurn("makeGraph") /\ graphKey <= MaxKey
  /\ graphList' = graphList \cup {graphKey}
  /\ wild' \in {wild, wild \cup {graphKey}}
  /\ graphKey' = graphKey + 1
  /\ viewCommand' = "other"
  /\ Answered
  /\ interrupted' = FALSE
  /\ UNCHANGED <<viewports, links, pickVars, checkClosedChild, errno, pc, cur,
                 rest, childVars, boundVars>>

(* The pid is one not used before; which of them makes no difference. *)
Fresh(kind) == CHOOSE v \in kind : child[v] = "none"

forkView(v) ==
  /\ child[v] = "none"
  /\ v = Fresh(IF v \in Flat THEN Flat ELSE Viewport \ Flat)
  /\ SpadTurn(IF v \in Flat THEN "makeView2D" ELSE "makeView3D")
  /\ child' = [child EXCEPT ![v] = "new"]
  /\ viewports' = <<v>> \o viewports
  /\ viewCommand' = "other"
  /\ pc' = "ready" /\ cur' = v
  /\ interrupted' = FALSE
  /\ UNCHANGED <<graphVars, pickVars, checkClosedChild, errno, rest, slots, in,
                 out, spad, boundVars>>

(* What Lisp has sent of the window is left in the socket. *)
Abandon ==
  /\ pc' = "desync"
  /\ UNCHANGED <<viewports, graphVars, pickVars, viewCommand, signalVars, cur,
                 rest, childVars, spad, requests, clicks>>

forkFails ==
  /\ Lapses("fork", TRUE) /\ \E r \in {"makeView2D", "makeView3D"} : SpadTurn(r)
  /\ Abandon

ReadReadyFails == pc = "ready" /\ AtEof(cur) /\ ~Spins /\ Abandon /\ UNCHANGED lapses

Keys == IF spad.req = "makeView2D" THEN spad.keys ELSE NoKeys
Unknown(ks) == \E s \in Slot : ks[s] \notin graphList \cup {0}

ReadReady ==
  /\ pc = "ready" /\ Says(cur, "ready")
  /\ Take(cur)
  /\ Write(cur, [msg |-> "make", keys |-> Keys])
  /\ links' = IF Unknown(Keys) THEN links ELSE AllLinked(cur, Keys)
  /\ pc' = IF Unknown(Keys) THEN "quit" ELSE "window"
  /\ UNCHANGED <<viewports, graphList, wild, graphKey, pickVars, viewCommand,
                 checkClosedChild, interrupted, cur, rest, child, slots, spad,
                 boundVars>>

(* The window id, or its absence, is not looked at: Lisp is sent the pid. *)
ReadWindow ==
  /\ pc = "window"
  /\ \/ Says(cur, "window") /\ Take(cur)
     \/ AtEof(cur) /\ ~Spins /\ UNCHANGED in
  /\ Answered
  /\ pc' = "select" /\ cur' = Null
  /\ UNCHANGED <<viewports, graphVars, pickVars, viewCommand, signalVars, rest,
                 child, slots, out, boundVars>>

UnknownView(reply) ==
  /\ SpadTurn("fun") /\ spad.view \notin Listed
  /\ viewCommand' = IF spad.cmd = "scale" THEN "viewportClosing" ELSE "other"
  /\ spad' = reply
  /\ interrupted' = FALSE
  /\ UNCHANGED <<viewports, graphVars, pickVars, checkClosedChild, errno, pc,
                 cur, rest, childVars, boundVars>>

funViewUnknownSilent == UnknownView(spad)               \* mutant: no -1 is sent
funViewUnknown == UnknownView(Null)

(* The command goes to the window, with its arguments if the switch has a
   case for it; it has none for axesColor2D.                               *)
ToWindow(r) ==
  CASE r.cmd = "putGraph"           -> [msg |-> r.cmd, key |-> r.key, slot |-> r.slot]
    [] r.cmd \in {"plain", "scale"} -> [msg |-> "plain"]
    [] OTHER                        -> [msg |-> r.cmd]

PutNotLinked == links                            \* mutant: not recorded
PutLinked == IF spad.cmd = "putGraph" THEN Linked(spad.view, spad.key) ELSE links

funView ==
  /\ SpadTurn("fun") /\ spad.view \in Listed
  /\ Write(spad.view, ToWindow(spad))
  /\ viewCommand' = IF spad.cmd = "scale" THEN "viewportClosing" ELSE "other"
  /\ links' = PutLinked
  /\ pc' = IF spad.cmd = "putGraph" /\ spad.key \notin graphList THEN "quit" ELSE "ack"
  /\ cur' = spad.view
  /\ interrupted' = FALSE
  /\ UNCHANGED <<viewports, graphList, wild, graphKey, pickVars,
                 checkClosedChild, rest, child, slots, in, spad, boundVars>>

ReadAck ==
  /\ pc = "ack"
  /\ \/ Says(cur, "ack") /\ Take(cur)
     \/ AtEof(cur) /\ ~Spins /\ UNCHANGED in
  /\ Answered
  /\ pc' = "select" /\ cur' = Null
  /\ UNCHANGED <<viewports, graphVars, pickVars, viewCommand, signalVars, rest,
                 child, slots, out, boundVars>>

(* Anything else in the pipe is taken for the acknowledgement, and what
   belongs to it for commands: the model stops here.                       *)
AckMisread ==
  /\ pc = "ack" /\ in[cur] # <<>> /\ ~Says(cur, "ack")
  /\ Abandon /\ UNCHANGED lapses

(***************************************************************************)
(* goodbye, on SIGTERM at any moment or when Lisp's socket is closed: for  *)
(* each window of the list, a signal and a wait for any child.             *)
(***************************************************************************)
TerminatedNot(left) == child                            \* mutant: no signal
Terminated(left) ==
  [v \in Viewport |-> IF left # <<>> /\ v = Head(left) /\ child[v] \notin Dead
                      THEN "termed" ELSE child[v]]

GoodbyeTo(list) ==
  /\ pc \notin Final \cup {"goodbye"}
  /\ rest' = list
  /\ child' = Terminated(list)
  /\ pc' = IF list = <<>> THEN "exited" ELSE "goodbye"
  /\ UNCHANGED <<viewports, graphVars, pickVars, viewCommand, signalVars, cur,
                 slots, in, out, spad, boundVars>>

goodbye == GoodbyeTo(viewports)

goodbyeWaited ==
  /\ pc = "goodbye"
  /\ \E z \in Viewport :
       /\ child[z] = "zombie"
       /\ child' = [Terminated(Tail(rest)) EXCEPT ![z] = "reaped"]
  /\ rest' = Tail(rest)
  /\ pc' = IF Tail(rest) = <<>> THEN "exited" ELSE "goodbye"
  /\ UNCHANGED <<viewports, graphVars, pickVars, viewCommand, signalVars, cur,
                 slots, in, out, spad, boundVars>>

(***************************************************************************)
(* The window processes.  X events come before what the manager sends.     *)
(***************************************************************************)
Send(v, ms) == in' = [in EXCEPT ![v] = @ \o ms]
Becomes(v, state) == child' = [child EXCEPT ![v] = state]
Receives(v, m) == out[v] # <<>> /\ Head(out[v]).msg = m
Received(v) == out' = [out EXCEPT ![v] = Tail(@)]
Closing(v) == [msg |-> "viewportClosing", keys |-> slots[v]]

ChildReady(v) ==
  /\ child[v] = "new"
  /\ Send(v, <<[msg |-> "ready"]>>) /\ Becomes(v, "starting")
  /\ UNCHANGED <<slots, out, clicks>>

ChildMake(v) ==
  /\ child[v] = "starting" /\ Receives(v, "make")
  /\ Received(v)
  /\ slots' = [slots EXCEPT ![v] = Head(out[v]).keys]
  /\ Send(v, <<[msg |-> "window"]>>) /\ Becomes(v, "idle")
  /\ UNCHANGED clicks

(* spadAction, of view3D and view2D: a command is done and acknowledged.
   Most of them change nothing but the picture.                            *)
ChildPlain(v) ==
  /\ Receives(v, "plain")
  /\ Send(v, <<[msg |-> "ack"]>>)
  /\ UNCHANGED <<child, slots>>

ChildPut(v) ==
  /\ Receives(v, "putGraph")
  /\ slots' = [slots EXCEPT ![v][Head(out[v]).slot] = Head(out[v]).key]
  /\ Send(v, <<[msg |-> "ack"]>>)
  /\ UNCHANGED child

ChildCloseAll(v) ==
  /\ Receives(v, "closeAll")
  /\ Send(v, <<[msg |-> "ack"], Closing(v)>>)
  /\ Becomes(v, "exiting")
  /\ UNCHANGED slots

ChildStuck(v) ==                           \* reads arguments that nobody sent
  /\ Receives(v, "axesColor2D")
  /\ Becomes(v, "stuck")
  /\ UNCHANGED <<slots, in>>

ChildCommand(v) ==
  /\ child[v] = "idle" /\ out[v] # <<>>
  /\ Received(v)
  /\ ChildPlain(v) \/ ChildPut(v) \/ ChildCloseAll(v) \/ ChildStuck(v)
  /\ UNCHANGED clicks

(* A command that arrives instead of an answer is met by AckMisread. *)
ChildDrop(v) ==
  /\ child[v] = "dropping"
  /\ \/ Receives(v, "viewError") /\ UNCHANGED slots
     \/ /\ Receives(v, "viewOkay")
        /\ \E s \in Slot : slots' = [slots EXCEPT ![v][s] = Head(out[v]).key]
  /\ Received(v) /\ Becomes(v, "idle")
  /\ UNCHANGED <<in, clicks>>

(* Users. *)
Awaited(v) == spad # Null /\ spad.req = "fun" /\ spad.view = v

Pick(v) ==
  /\ v \in Flat /\ child[v] = "idle" /\ clicks < MaxClicks
  /\ \E s \in Slot : /\ slots[v][s] # 0
                     /\ Send(v, <<[msg |-> "pick2D", key |-> slots[v][s]]>>)
  /\ clicks' = clicks + 1
  /\ UNCHANGED <<child, slots, out>>

Drop(v) ==
  /\ v \in Flat /\ child[v] = "idle" /\ clicks < MaxClicks
  /\ Send(v, <<[msg |-> "drop2D"]>>) /\ Becomes(v, "dropping")
  /\ clicks' = clicks + 1
  /\ UNCHANGED <<slots, out>>

CloseWindow(v) ==
  /\ child[v] = "idle"
  /\ Send(v, <<Closing(v)>>) /\ Becomes(v, "exiting")
  /\ UNCHANGED <<slots, out, clicks>>

ChildStep(v) ==
  /\ ChildReady(v) \/ ChildMake(v) \/ ChildCommand(v) \/ ChildDrop(v)
  /\ UNCHANGED <<managerVars, spad, requests, lapses>>

UserStep(v) ==
  /\ Lapses("hasty", Awaited(v))
  /\ Pick(v) \/ Drop(v) \/ CloseWindow(v)
  /\ UNCHANGED <<managerVars, spad, requests>>

(* The end of a process, and endChild, the SIGCHLD handler. *)
Dies(v) ==
  /\ Becomes(v, "zombie")
  /\ checkClosedChild' = TRUE
  /\ interrupted' = (pc = "select")
  /\ UNCHANGED <<viewports, graphVars, pickVars, viewCommand, errno, pc, cur,
                 rest, slots, in, out, spad, requests, clicks>>

ChildExit(v) == child[v] \in {"exiting", "termed"} /\ Dies(v) /\ UNCHANGED lapses
Crash(v) == /\ v \in MayCrash
            /\ child[v] \notin Dead \cup {"none", "exiting", "termed"}
            /\ Lapses("crash", TRUE)
            /\ Dies(v)

(***************************************************************************)
(* Lisp: one request at a time.  It may name any graph and any window that *)
(* it was ever given the key of.                                           *)
(***************************************************************************)
Made == 1..(graphKey - 1)

Ask ==
  /\ spad = Null /\ requests < MaxRequests /\ pc \notin Final
  /\ \/ spad' = [req |-> "makeGraph"] /\ graphKey <= MaxKey
     \/ /\ \E v \in Flat : child[v] = "none"
        /\ \E ks \in [Slot -> Made \cup {0}] : spad' = [req |-> "makeView2D", keys |-> ks]
     \/ /\ \E v \in Viewport \ Flat : child[v] = "none"
        /\ spad' = [req |-> "makeView3D"]
     \/ \E v \in {v \in Viewport : child[v] # "none"}, c \in Command \ {"putGraph"} :
          /\ c = "axesColor2D" => v \in Flat
          /\ spad' = [req |-> "fun", cmd |-> c, view |-> v]
     \/ /\ "putGraph" \in Command
        /\ \E v \in {v \in Flat : child[v] # "none"}, k \in Made, s \in Slot :
             spad' = [req |-> "fun", cmd |-> "putGraph", view |-> v, key |-> k, slot |-> s]
  /\ Lapses("colour", spad'.req = "fun" /\ spad'.cmd = "axesColor2D")
  /\ requests' = requests + 1
  /\ UNCHANGED <<managerVars, childVars, clicks>>

(***************************************************************************)
(* The specification.                                                      *)
(***************************************************************************)
ManagerStep ==
  \/ superSelect \/ Waited \/ ReadSpins
  \/ \E v \in Viewport : \/ ReadPick(v) \/ ReadDrop(v) \/ ReadClosing(v)
                         \/ ReadEof(v) \/ forkView(v)
  \/ makeGraph \/ ReadReady \/ ReadReadyFails \/ ReadWindow
  \/ funViewUnknown \/ funView \/ ReadAck \/ AckMisread
  \/ goodbyeWaited

(* Everything is served, or the manager is gone. *)
AtRest == pc \in Final \/ (pc = "select" /\ spad = Null)

ViewmanNext ==
  \/ ManagerStep \/ forkFails \/ goodbye \/ Ask
  \/ \E v \in Viewport : ChildStep(v) \/ UserStep(v) \/ ChildExit(v) \/ Crash(v)
  \/ AtRest /\ UNCHANGED viewmanVars

ViewmanSpec == ViewmanInit /\ [][ViewmanNext]_viewmanVars

(* The manager and the windows are scheduled, and a process that has decided
   to exit does; users, Lisp and accidents owe nothing.                    *)
ViewmanFairSpec ==
  /\ ViewmanSpec
  /\ WF_viewmanVars(ManagerStep)
  /\ \A v \in Viewport : WF_viewmanVars(ChildStep(v)) /\ WF_viewmanVars(ChildExit(v))

(***************************************************************************)
(* Properties                                                              *)
(***************************************************************************)

(* rmViewMgr finds each graph a closing window reports, and the window's
   record in it: "should always be true".  A graph that a window shows, or
   has reported, is in the list, and has a record of the window for each
   slot that shows it, whatever was picked, dropped, replaced or closed.   *)
Recorded(v, ks) ==
  \A k \in Key : Occurrences(k, ks) > 0 =>
                   k \in graphList /\ links[k][v] >= Occurrences(k, ks)
ShownAreRecorded ==
  /\ ViewmanTypeOK
  /\ pc \notin Final => \A v \in Listed : Recorded(v, slots[v])

(* wait in closeChildViewport and in goodbye always has a child to wait for:
   of the processes not reaped there are as many as listed windows, and one
   more while a closed window is waited for, although wait takes any child;
   unless superSelect has taken one that was still to be read.             *)
Unreaped == {v \in Viewport : child[v] \notin {"none", "reaped"}}
ReapingBalanced ==
  "early" \notin lapses =>
    /\ pc \in {"select", "ready", "window", "ack"} => Cardinality(Unreaped) = Len(viewports)
    /\ pc = "wait" => Cardinality(Unreaped) = Len(viewports) + 1
    /\ pc = "goodbye" => Cardinality(Unreaped) >= Len(rest)

(* Every window is accounted for: there is one to wait for whenever the
   manager waits, and a manager that has exited leaves no window that was
   not told to go.                                                         *)
NoneForgotten ==
  /\ ReapingBalanced
  /\ pc = "exited" =>
       \A v \in Viewport : child[v] \in Dead \cup {"none", "exiting", "termed"}

(* "kill all children and then kill self": goodbye never waits for a child
   that is not coming, whatever windows were closing or dead when it began. *)
GoodbyeEnds == pc = "goodbye" ~> (pc = "exited" \/ "early" \in lapses)

(* Each request of Lisp, which waits for it, is answered, and a window that
   has asked for the picked graph, and blocks, is told: in particular no
   answer of a window is taken for another, and nobody waits for nobody.
   It takes that no accident befalls the run and the manager is not ended. *)
Excused == pc \in {"exited", "quit", "goodbye"} \/ lapses # {}
LispIsServed ==
  /\ spad # Null ~> (spad = Null \/ Excused)
  /\ \A v \in Viewport : child[v] = "dropping" ~> (child[v] # "dropping" \/ Excused)
=============================================================================
