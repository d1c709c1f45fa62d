---------------------------- MODULE AxiomSession -----------------------------
(***************************************************************************)
(* A running OpenAxiom: the session manager, the Lisp core, sman's relay   *)
(* between them (manage_spad_io, src/sman/sman.c), the interpreter windows *)
(* (src/sman/spadclient.c) and HyperDoc (src/hyper/spadint.c), composed.   *)
(* What users do is bounded and disciplined by constants, so that a        *)
(* property can be checked under the weakest use for which it holds.       *)
(***************************************************************************)
EXTENDS SessionManager, LispServer

CONSTANTS
  MaxLines,    \* lines a user types in one window
  Discipline,  \* when a user types the next line.  "free": at once;
               \* "prompted": after the answer to the last one;
               \* "paced": after the manager knows of the end of that answer;
               \* "turns": when no window has anything under way
  LateConnect, \* may a window connect while a line is being worked on, and
               \* may lines be typed while a connection waits to be accepted?
  Closing,     \* may users type )close?
  Mortal,      \* the windows that may be killed; Menu, if HyperDoc may be left;
               \* Killer, if the system may be shut down by KillSpad
  MenuMoves    \* number of requests HyperDoc makes; 0 leaves it out

ASSUME UseAssumption ==
  /\ MaxLines \in Nat /\ MenuMoves \in Nat
  /\ Discipline \in {"free", "prompted", "paced", "turns"}
  /\ {LateConnect, Closing} \subseteq BOOLEAN
  /\ Mortal \subseteq Peer

VARIABLES
  sent,        \* lines typed so far in each window
  moves,       \* requests HyperDoc has made
  overlapped   \* a line was typed while something was under way

useVars == <<sent, moves, overlapped>>
vars == <<channels, sessionVars, lispVars, useVars>>

(***************************************************************************)
(* sman's relay: read_from_manager and read_from_spad_io of sman.c.        *)
(***************************************************************************)
read_from_manager ==
  /\ ioIn # <<>>
  /\ ttyIn' = Append(ttyIn, Head(ioIn))
  /\ ioIn' = Tail(ioIn)
  /\ UNCHANGED <<lispSocket, ttyOut, ioOut, windows, menuSocket>>

relay_spad_io ==
  /\ ttyOut # <<>>
  /\ ioOut' = Append(ioOut, Head(ttyOut))
  /\ ttyOut' = Tail(ttyOut)
  /\ UNCHANGED <<lispSocket, ioIn, ttyIn, windows, menuSocket>>

RelayNext == read_from_manager \/ relay_spad_io

(***************************************************************************)
(* The users.                                                              *)
(***************************************************************************)
InTransit(w) ==
  \/ typed[w] # <<>>
  \/ \E q \in {ioIn, ttyIn} : \E i \in DOMAIN q : q[i].from = w
  \/ lispPc \in {"eval", "count"} /\ curLine.from = w
  \/ \E q \in {ttyOut, ioOut} : \E i \in DOMAIN q : q[i] = w

Quiet == /\ \A w \in Window : ~InTransit(w)
         /\ toLisp = <<>> /\ fromLisp = <<>> /\ ~needSignal

(* The EndOfOutput for w's line has not reached the session manager. *)
Unacknowledged(w) ==
  /\ curLine # Null /\ curLine.from = w
  /\ needSignal \/ \E i \in DOMAIN fromLisp : fromLisp[i].cmd = "EndOfOutput"

MayType(w) == CASE Discipline = "free"     -> TRUE
                [] Discipline = "prompted" -> ~InTransit(w)
                [] Discipline = "paced"    -> ~InTransit(w) /\ ~Unacknowledged(w)
                [] Discipline = "turns"    -> Quiet

Connect(p) ==
  /\ peer[p] = "absent"
  /\ LateConnect \/ Quiet
  /\ p = Menu => MenuMoves > 0
  /\ p = Killer => Killer \in Mortal
  /\ peer' = [peer EXCEPT ![p] = "connecting"]
  /\ UNCHANGED <<lispSocket, ioPipes, typed, shown, menuSocket, useVars>>

Type(w) ==
  /\ peer[w] = "open" /\ sent[w] < MaxLines /\ MayType(w)
  /\ LateConnect \/ \A p \in Peer : peer[p] # "connecting"
  /\ \E k \in IF Closing THEN {"eval", "close"} ELSE {"eval"} :
       typed' = [typed EXCEPT ![w] = Append(@, [from |-> w, kind |-> k])]
  /\ sent' = [sent EXCEPT ![w] = @ + 1]
  /\ overlapped' = (overlapped \/ ~Quiet)
  /\ UNCHANGED <<lispSocket, ioPipes, peer, shown, menuSocket, moves>>

(* The user closes a window, or HyperDoc is left. *)
PeerDies(p) ==
  /\ p \in Mortal \ {Killer} /\ peer[p] = "open"
  /\ peer' = [peer EXCEPT ![p] = "dead"]
  /\ UNCHANGED <<lispSocket, ioPipes, typed, shown, menuSocket, useVars>>

UserNext == \/ \E p \in Peer : Connect(p) \/ PeerDies(p)
            \/ \E w \in Window : Type(w)

(***************************************************************************)
(* HyperDoc: spad_busy, and issue_server_command, which names the frame to *)
(* the session manager (switch_frames) and hands the command to Lisp.      *)
(***************************************************************************)
spad_busy ==
  /\ peer[Menu] = "open" /\ moves < MenuMoves
  /\ menuReq' = Append(menuReq, [cmd |-> "QuerySpad"])
  /\ moves' = moves + 1
  /\ UNCHANGED <<menuIn, menuCmd>>

(* A HyperDoc window belongs to frame 0 or to the frame Lisp was in when it
   opened the window, whether or not that frame's client is still there.   *)
issue_server_command ==
  /\ peer[Menu] = "open" /\ moves < MenuMoves
  /\ \E f \in {0} \cup 0..(frameNumber - 1) :
       /\ menuReq' = Append(menuReq, [cmd |-> "SwitchFrames", frame |-> f])
       /\ menuCmd' = Append(menuCmd, f)
  /\ moves' = moves + 1
  /\ UNCHANGED menuIn

MenuNext ==
  /\ spad_busy \/ issue_server_command
  /\ UNCHANGED <<lispSocket, ioPipes, windows, sent, overlapped>>
  /\ UNCHANGED <<lispPc, curLine, needSignal, frameNumber, currentFrameNum,
                 frameRing, ran, menuRan>>

(***************************************************************************)
(* The composition.  A final state of the manager or of Lisp ends the      *)
(* system: both have the death action Die in sman.                         *)
(***************************************************************************)
Final == pc \in {"exited", "crashed", "desync"} \/ lispPc \in {"quit", "desync"}

Init == /\ ChannelsInit /\ SessionInit /\ LispInit
        /\ sent = [w \in Window |-> 0]
        /\ moves = 0
        /\ overlapped = FALSE

SystemNext ==
  \/ SessionNext /\ UNCHANGED <<lispVars, useVars>>
  \/ LispNext    /\ UNCHANGED <<sessionVars, useVars>>
  \/ RelayNext   /\ UNCHANGED <<sessionVars, lispVars, useVars>>

EnvNext ==
  \/ UserNext    /\ UNCHANGED <<sessionVars, lispVars>>
  \/ MenuNext    /\ UNCHANGED sessionVars

(* Nothing left to do: the only way for a run that is not final to stop. *)
Idle ==
  /\ pc = "run" /\ rd = {} /\ ReadyFds = {} /\ session_socket_mask \cap closedFd = {}
  /\ ioIn = <<>> /\ ttyIn = <<>> /\ ttyOut = <<>> /\ toLisp = <<>> /\ menuCmd = <<>>
  /\ lispPc = "read" /\ ~needSignal

Next == \/ ~Final /\ (SystemNext \/ EnvNext)
        \/ (Final \/ Idle) /\ UNCHANGED vars

Spec == Init /\ [][Next]_vars

(* The operating system keeps running the three processes; users and
   HyperDoc owe nothing.                                                   *)
SessionStep == ~Final /\ SessionNext /\ UNCHANGED <<lispVars, useVars>>
LispStep    == ~Final /\ LispNext    /\ UNCHANGED <<sessionVars, useVars>>
RelayStep   == ~Final /\ RelayNext   /\ UNCHANGED <<sessionVars, lispVars, useVars>>

FairSpec == /\ Spec
            /\ WF_vars(SessionStep)
            /\ WF_vars(LispStep)
            /\ WF_vars(read_from_manager /\ RelayStep)
            /\ WF_vars(relay_spad_io /\ RelayStep)

(***************************************************************************)
(* Properties                                                              *)
(***************************************************************************)

(* Every variable of the composed system stays in its domain. *)
TypeOK ==
  /\ ChannelsTypeOK /\ SessionTypeOK /\ LispTypeOK
  /\ sent \in [Window -> Nat] /\ moves \in Nat /\ overlapped \in BOOLEAN

(* active_session never points to a list node that close_client has freed. *)
ActiveIsListed == active_session \in Listed \cup {Null}

(* The mask that select waits on and the list that the loop serves hold the
   same windows, save those whose descriptor is gone: an open window in one
   only is never heard, or spins the loop.                                 *)
MaskIsList ==
  /\ session_socket_mask \ {Menu} \subseteq Listed
  /\ Listed \ closedFd \subseteq session_socket_mask

(* The manager's three views of its windows, plSock, active_session and
   session_socket_mask, never contradict each other.                       *)
ListsAgree == ActiveIsListed /\ MaskIsList

(* num_active_clients, which )close consults through QueryClients, is the
   length of plSock whenever the manager can serve a command, unless a closed
   descriptor is in the mask, in which case the manager is about to leave. *)
CountAgrees ==
  /\ pc = "run" /\ session_socket_mask \cap closedFd = {} =>
       num_active_clients = Len(plSock)
  /\ pc = "frame" => num_active_clients = Len(plSock) - 1

(* kill_spad leaves no accepted window alive when the manager exits: it walks
   the list by num_active_clients, which must be its length.               *)
KillReachesEveryWindow ==
  /\ CountAgrees
  /\ pc = "exited" /\ peer[Killer] = "open" => \A w \in Listed : peer[w] = "dead"

(* No two listed windows have one frame number, so that CloseClient and
   SwitchFrames, which search by frame, find the window that was meant.    *)
FramesDistinct ==
  pc = "run" => \A i, j \in DOMAIN plSock :
                   frame[plSock[i]] = frame[plSock[j]] => i = j

(* The frame Lisp will be in once it has served the commands sent to it. *)
WillBeIn(f) ==
  \/ /\ \A i \in DOMAIN toLisp : toLisp[i].cmd # "SwitchFrames"
     /\ currentFrameNum = f
  \/ \E i \in DOMAIN toLisp :
       /\ toLisp[i].cmd = "SwitchFrames" /\ toLisp[i].frame = f
       /\ \A j \in DOMAIN toLisp : j > i => toLisp[j].cmd # "SwitchFrames"

(* read_from_session sends no SwitchFrames for the active session, trusting
   that Lisp is in its frame, or will be before it reads another line.     *)
FrameFollowsActive ==
  pc = "run" /\ active_session # Null => WillBeIn(frame[active_session])

(* The manager and Lisp, which number frames each on its own side of the
   socket, mean the same frame by the same window.                         *)
FramesAgree == FramesDistinct /\ FrameFollowsActive

(* menu_client points to HyperDoc exactly while it is in the select mask. *)
MenuIsSelected == menu_client = Menu <=> Menu \in session_socket_mask

(* A request of HyperDoc, which blocks on the answer to QuerySpad, is taken even
   while output is awaited, and the manager hears it while it knows of it. *)
MenuServed ==
  /\ []MenuIsSelected
  /\ menuReq # <<>> ~> (menuReq = <<>> \/ peer[Menu] = "dead" \/ Final)

(* Neither side takes a command on the SpadServer socket for the answer it
   is waiting for, and, while users take turns, close_client never walks an
   empty list.                                                             *)
InStep ==
  /\ pc # "desync" /\ lispPc # "desync"
  /\ pc = "crashed" => overlapped

(* Every line is run in the interpreter frame of the window it was typed in,
   though the line and the command that selects the frame travel on
   different channels.                                                     *)
LineRunsInItsFrame == \A r \in ran : frame[r[1]] = r[2]

(* A window displays the output of its own lines only, though output is sent
   to whichever session is active when it arrives; it takes that no line is
   typed while another is under way.                                       *)
OutputToOwner == overlapped \/ \A w \in Window : shown[w] \subseteq {w}

(* A window that read_from_session puts off because output is awaited is
   not put off for ever: reading_output is cleared again, and every line
   typed is run, unless its window is closed or the system ends.           *)
LinesAreRun ==
  /\ reading_output ~> (~reading_output \/ Final)
  /\ \A w \in Window :
       typed[w] # <<>> ~> (typed[w] = <<>> \/ peer[w] = "dead" \/ Final)

(***************************************************************************)
(* What comments in the code say and the code does not do.                 *)
(***************************************************************************)

(* The death action of a window is NadaDelShitsky, "When a process dies, do
   nothing": only kill_spad makes the manager leave.                       *)
WindowDeathHarmless == pc = "exited" => peer[Killer] = "open"
=============================================================================
