--------------------------- MODULE SessionChannels ---------------------------
(***************************************************************************)
(* The sockets and pipes that join the processes of an OpenAxiom session:  *)
(* interpreter windows (spadclient, spadbuf), HyperDoc, the session        *)
(* manager (src/sman/session.c), the I/O relay of sman (src/sman/sman.c)   *)
(* and the Lisp core (src/interp/server.boot).  Every channel is a FIFO    *)
(* sequence; what is written in one process becomes readable in the other  *)
(* at once, the delay being the reader's.                                  *)
(***************************************************************************)
EXTENDS Integers, Sequences, SequencesExt

CONSTANTS Window,     \* the InterpWindow processes; a window is its own pid
          Menu,       \* the HyperDoc process, purpose MenuServer
          Killer,     \* a process that connects with purpose KillSpad
          Null        \* the null pointer

ASSUME NamesDistinct ==
  /\ {Menu, Killer, Null} \cap Window = {}
  /\ Menu # Killer /\ Menu # Null /\ Killer # Null
  /\ (Window \cup {Menu, Killer, Null}) \cap {"io", "server", "spad"} = {}

VARIABLES
  toLisp,     \* session manager -> Lisp, on the SpadServer socket
  fromLisp,   \* Lisp -> session manager, on the same socket
  ioIn,       \* lines, session manager -> sman, on the SessionIO socket
  ttyIn,      \* lines, sman -> Lisp's standard input, through the pty
  ttyOut,     \* Lisp's standard output -> sman, through the pty
  ioOut,      \* output, sman -> session manager, on the SessionIO socket
  peer,       \* life cycle of each window, of HyperDoc and of the killer
  typed,      \* lines in the socket from a window to the session manager
  shown,      \* per window, the windows whose output it has displayed
  menuReq,    \* HyperDoc -> session manager
  menuIn      \* session manager -> HyperDoc

lispSocket == <<toLisp, fromLisp>>
ioPipes    == <<ioIn, ttyIn, ttyOut, ioOut>>
windows    == <<peer, typed, shown>>
menuSocket == <<menuReq, menuIn>>
channels   == <<lispSocket, ioPipes, windows, menuSocket>>

(* Everyone who can ask the session manager's server socket for a connection. *)
Peer == Window \cup {Menu, Killer}
PeerState == {"absent", "connecting", "open", "dead"}

(* A frame number; also any other int read where one was expected. *)
Frame == Nat

(* What a window sends: an expression or the system command )close.  A line
   remembers who typed it; an output chunk, whose line produced it.        *)
Line == [from : Window, kind : {"eval", "close"}]

ASSUME NoLineIsNull == Null \notin Line

(* Commands of src/include/com.h on the SpadServer socket, one record for a
   command and its int argument, which are always written together.        *)
ToLisp == [cmd : {"CreateFrame"}]
     \cup [cmd : {"SwitchFrames"}, frame : Frame]
     \cup [cmd : {"NumClients"}, num : Int]
FromLisp == [cmd : {"EndOfOutput", "QueryClients"}]
       \cup [cmd : {"NewFrame", "CloseClient"}, frame : Frame]

(* HyperDoc's requests, and the ints it is sent. *)
MenuReq == [cmd : {"QuerySpad"}] \cup [cmd : {"SwitchFrames"}, frame : Frame]
MenuIn  == [cmd : {"Busy"}, busy : BOOLEAN]
      \cup [cmd : {"CloseClient"}, pid : Window]

ChannelsTypeOK ==
  /\ toLisp \in Seq(ToLisp)
  /\ fromLisp \in Seq(FromLisp)
  /\ ioIn \in Seq(Line)
  /\ ttyIn \in Seq(Line)
  /\ ttyOut \in Seq(Window \cup {Menu})
  /\ ioOut \in Seq(Window \cup {Menu})
  /\ peer \in [Peer -> PeerState]
  /\ typed \in [Window -> Seq(Line)]
  /\ shown \in [Window -> SUBSET (Window \cup {Menu})]
  /\ menuReq \in Seq(MenuReq)
  /\ menuIn \in Seq(MenuIn)

ChannelsInit ==
  /\ toLisp = <<>> /\ fromLisp = <<>>
  /\ ioIn = <<>> /\ ttyIn = <<>> /\ ttyOut = <<>> /\ ioOut = <<>>
  /\ peer = [p \in Peer |-> "absent"]
  /\ typed = [w \in Window |-> <<>>]
  /\ shown = [w \in Window |-> {}]
  /\ menuReq = <<>> /\ menuIn = <<>>
=============================================================================
