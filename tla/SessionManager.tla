--------------------------- MODULE SessionManager ----------------------------
(***************************************************************************)
(* The session manager, src/sman/session.c: a single-threaded server that  *)
(* multiplexes the interpreter windows and HyperDoc onto one Lisp core.    *)
(* A round of manage_sessions takes a snapshot rd of the descriptors that  *)
(* are readable and serves them in the order in which the code tests them; *)
(* other processes run between any two handlers.                           *)
(***************************************************************************)
EXTENDS SessionChannels

VARIABLES
  plSock,               \* list of accepted windows, newest first
  frame,                \* Socket.frame of each window ever accepted
  active_session,       \* window that gets Lisp's output, or Null
  num_active_clients,
  reading_output,
  menu_client,          \* Menu once HyperDoc has connected, else Null
  session_socket_mask,  \* the part of the mask that varies: windows and Menu
  closedFd,             \* owners of the descriptors the manager has closed
  rd,                   \* descriptors of the snapshot not served yet
  pc                    \* "run", or "frame": in accept, waiting for Lisp, or
                        \* a final state: "exited", "crashed", "desync"

sessionVars == <<plSock, frame, active_session, num_active_clients,
                 reading_output, menu_client, session_socket_mask, closedFd,
                 rd, pc>>

Listed == Range(plSock)

SessionTypeOK ==
  /\ plSock \in Seq(Window)
  /\ frame \in [Window -> Frame]
  /\ active_session \in Window \cup {Null}
  /\ num_active_clients \in Int
  /\ reading_output \in BOOLEAN
  /\ menu_client \in {Menu, Null}
  /\ session_socket_mask \in SUBSET (Window \cup {Menu})
  /\ closedFd \in SUBSET (Window \cup {Menu})
  /\ rd \in SUBSET (Window \cup {Menu, "io", "server", "spad"})
  /\ pc \in {"run", "frame", "exited", "crashed", "desync"}

SessionInit ==
  /\ plSock = <<>>
  /\ frame = [w \in Window |-> 0]
  /\ active_session = Null
  /\ num_active_clients = 0
  /\ reading_output = FALSE
  /\ menu_client = Null
  /\ session_socket_mask = {}
  /\ closedFd = {}
  /\ rd = {}
  /\ pc = "run"

(***************************************************************************)
(* select.  Lisp, the relay and the listening socket are always in the     *)
(* mask; the comment over the mask says otherwise of the listening socket, *)
(* but both branches assign the same set.                                  *)
(***************************************************************************)
Readable(p) ==
  \/ peer[p] = "dead"
  \/ p \in Window /\ typed[p] # <<>>
  \/ p = Menu /\ menuReq # <<>>

ReadyFds ==
  {p \in session_socket_mask : Readable(p)}
    \cup {fd \in {"io"} : ioOut # <<>>}
    \cup {fd \in {"server"} : \E p \in Peer : peer[p] = "connecting"}
    \cup {fd \in {"spad"} : fromLisp # <<>>}

Select ==
  /\ pc = "run" /\ rd = {}
  /\ session_socket_mask \cap closedFd = {}
  /\ ReadyFds # {}
  /\ rd' = ReadyFds
  /\ UNCHANGED <<plSock, frame, active_session, num_active_clients,
                 reading_output, menu_client, session_socket_mask, closedFd, pc>>
  /\ UNCHANGED channels

(* A closed descriptor left in the mask makes select fail with EBADF; the
   loop breaks and main returns.                                           *)
SelectFails ==
  /\ pc = "run" /\ rd = {}
  /\ session_socket_mask \cap closedFd # {}
  /\ pc' = "exited"
  /\ UNCHANGED <<plSock, frame, active_session, num_active_clients,
                 reading_output, menu_client, session_socket_mask, closedFd, rd>>
  /\ UNCHANGED channels

(***************************************************************************)
(* The order of the tests in one round.  A read of a descriptor in rd      *)
(* blocks when what made it readable has been taken meanwhile.             *)
(***************************************************************************)
Served(fd) == rd' = rd \ {fd}

MenuTurnWhenIdle ==                                                \* mutant
  pc = "run" /\ Menu \in rd /\ ~reading_output
MenuTurn   == pc = "run" /\ Menu \in rd
IoTurn     == pc = "run" /\ "io" \in rd /\ Menu \notin rd /\ ioOut # <<>>
ServerTurn == pc = "run" /\ "server" \in rd /\ rd \cap {Menu, "io"} = {}
WindowTurn(w) ==
  /\ pc = "run" /\ w \in rd /\ rd \cap {Menu, "io", "server"} = {}
  /\ \E i \in DOMAIN plSock :
       plSock[i] = w /\ \A j \in 1..(i - 1) : plSock[j] \notin rd
SpadTurn   == pc = "run" /\ rd = {"spad"} /\ fromLisp # <<>>

(***************************************************************************)
(* read_menu_client_command.  A dead HyperDoc is found by the probe signal *)
(* or, while it is a zombie, by the end of file behind its last requests.  *)
(***************************************************************************)
MenuCloses(mask) ==
  /\ MenuTurn /\ peer[Menu] = "dead"
  /\ session_socket_mask' = mask
  /\ menu_client' = Null
  /\ reading_output' = FALSE
  /\ Served(Menu)
  /\ UNCHANGED <<plSock, frame, active_session, num_active_clients, closedFd, pc>>
  /\ UNCHANGED channels

MenuClosed == MenuCloses(session_socket_mask \ {Menu})

MenuSwitchFrames ==
  /\ MenuTurn /\ menuReq # <<>> /\ Head(menuReq).cmd = "SwitchFrames"
  /\ menuReq' = Tail(menuReq)
  /\ toLisp' = Append(toLisp, Head(menuReq))
  /\ LET found == {i \in DOMAIN plSock : frame[plSock[i]] = Head(menuReq).frame}
     IN  \/ /\ found = {}
            /\ UNCHANGED <<active_session, reading_output>>
         \/ \E i \in found :
              /\ \A j \in found : i <= j
              /\ active_session' = plSock[i]
              /\ reading_output' = TRUE
  /\ Served(Menu)
  /\ UNCHANGED <<plSock, frame, num_active_clients, menu_client,
                 session_socket_mask, closedFd, pc>>
  /\ UNCHANGED <<fromLisp, ioPipes, windows, menuIn>>

MenuQuerySpad ==
  /\ MenuTurn /\ menuReq # <<>> /\ Head(menuReq).cmd = "QuerySpad"
  /\ menuReq' = Tail(menuReq)
  /\ menuIn' = Append(menuIn, [cmd |-> "Busy", busy |-> reading_output])
  /\ Served(Menu)
  /\ UNCHANGED <<plSock, frame, active_session, num_active_clients,
                 reading_output, menu_client, session_socket_mask, closedFd, pc>>
  /\ UNCHANGED <<lispSocket, ioPipes, windows>>

(***************************************************************************)
(* read_from_spad_io: the output goes to whichever session is active now.  *)
(* Writing to a window that has died closes the manager's descriptor.      *)
(***************************************************************************)
read_from_spad_io ==
  /\ IoTurn
  /\ ioOut' = Tail(ioOut)
  /\ \/ /\ active_session = Null
        /\ UNCHANGED <<shown, closedFd>>
     \/ /\ active_session # Null /\ peer[active_session] # "dead"
        /\ shown' = [shown EXCEPT ![active_session] = @ \cup {Head(ioOut)}]
        /\ UNCHANGED closedFd
     \/ /\ active_session # Null /\ peer[active_session] = "dead"
        /\ closedFd' = closedFd \cup {active_session}
        /\ UNCHANGED shown
  /\ Served("io")
  /\ UNCHANGED <<plSock, frame, active_session, num_active_clients,
                 reading_output, menu_client, session_socket_mask, pc>>
  /\ UNCHANGED <<lispSocket, ioIn, ttyIn, ttyOut, peer, typed, menuSocket>>

(***************************************************************************)
(* accept_session_connection.  A descriptor that read_from_spad_io closed  *)
(* earlier in the round is the one accept returns: its bits in the mask    *)
(* and in rd now stand for the new connection.                             *)
(***************************************************************************)
Reused == session_socket_mask \cap closedFd

AcceptMenu ==
  /\ ServerTurn /\ peer[Menu] = "connecting"
  /\ peer' = [peer EXCEPT ![Menu] = "open"]
  /\ menu_client' = Menu
  /\ session_socket_mask' = (session_socket_mask \ Reused) \cup {Menu}
  /\ rd' = rd \ ({"server"} \cup Reused)
  /\ UNCHANGED <<plSock, frame, active_session, num_active_clients,
                 reading_output, closedFd, pc>>
  /\ UNCHANGED <<lispSocket, ioPipes, typed, shown, menuSocket>>

(* kill_spad: SIGTERM for Lisp, for the first num_active_clients windows of
   the list whose descriptor is open, and for HyperDoc; then exit.         *)
KillSpad(first) ==
  /\ ServerTurn /\ peer[Killer] = "connecting"
  /\ LET killed == {plSock[i] : i \in {i \in DOMAIN plSock :
                       i <= first /\ plSock[i] \notin closedFd}}
                   \cup ({menu_client} \ {Null})
     IN  peer' = [p \in Peer |-> CASE p \in killed -> "dead"
                                   [] p = Killer   -> "open"
                                   [] OTHER        -> peer[p]]
  /\ pc' = "exited"
  /\ Served("server")
  /\ UNCHANGED <<plSock, frame, active_session, num_active_clients,
                 reading_output, menu_client, session_socket_mask, closedFd>>
  /\ UNCHANGED <<lispSocket, ioPipes, typed, shown, menuSocket>>

AcceptKillSpadButLast == KillSpad(num_active_clients - 1)           \* mutant
AcceptKillSpad == KillSpad(num_active_clients)

(* A window is listed and asks Lisp for a frame, then the manager blocks
   reading the SpadServer socket until two replies have come.              *)
AcceptWindow(w, mask) ==
  /\ ServerTurn /\ peer[w] = "connecting"
  /\ peer' = [peer EXCEPT ![w] = "open"]
  /\ plSock' = <<w>> \o plSock
  /\ session_socket_mask' = mask
  /\ rd' = (rd \ Reused) \cup {v \in {w} : rd \cap Reused # {}}
  /\ toLisp' = Append(toLisp, [cmd |-> "CreateFrame"])
  /\ pc' = "frame"
  /\ UNCHANGED <<frame, active_session, num_active_clients, reading_output,
                 menu_client, closedFd>>
  /\ UNCHANGED <<fromLisp, ioPipes, typed, shown, menuSocket>>

AcceptInterpWindow(w) ==
  AcceptWindow(w, (session_socket_mask \ Reused) \cup {w})

(* The awaited frame number and prompt; the prompt is written to the window,
   which is not counted if it has died in the meantime.                    *)
AcceptFrameReply ==
  /\ pc = "frame" /\ fromLisp # <<>> /\ Head(fromLisp).cmd = "NewFrame"
  /\ fromLisp' = Tail(fromLisp)
  /\ LET w == plSock[1]
     IN  /\ frame' = [frame EXCEPT ![w] = Head(fromLisp).frame]
         /\ active_session' = w
         /\ \/ /\ peer[w] # "dead"
               /\ num_active_clients' = num_active_clients + 1
               /\ UNCHANGED closedFd
            \/ /\ peer[w] = "dead"
               /\ closedFd' = closedFd \cup {w}
               /\ UNCHANGED num_active_clients
  /\ pc' = "run"
  /\ Served("server")
  /\ UNCHANGED <<plSock, reading_output, menu_client, session_socket_mask>>
  /\ UNCHANGED <<toLisp, ioPipes, windows, menuSocket>>

(* Any other command of Lisp is taken for the frame number, and the number
   and prompt that follow it for a string and for commands: from here on the
   byte stream is out of step, and the model stops.                        *)
AcceptMisread ==
  /\ pc = "frame" /\ fromLisp # <<>> /\ Head(fromLisp).cmd # "NewFrame"
  /\ pc' = "desync"
  /\ UNCHANGED <<plSock, frame, active_session, num_active_clients,
                 reading_output, menu_client, session_socket_mask, closedFd, rd>>
  /\ UNCHANGED channels

(***************************************************************************)
(* The loop over plSock and read_from_session, which waits for input if    *)
(* the window's bit in rd was its predecessor's.                           *)
(***************************************************************************)
MayReadAnyTime(w) == w \notin closedFd    \* mutant: output is not waited for
MayRead(w) == (active_session = w \/ ~reading_output) /\ w \notin closedFd

SkipWindow(w) ==
  /\ WindowTurn(w) /\ ~MayRead(w)
  /\ Served(w)
  /\ UNCHANGED <<plSock, frame, active_session, num_active_clients,
                 reading_output, menu_client, session_socket_mask, closedFd, pc>>
  /\ UNCHANGED channels

SwitchTo(w) ==
  IF w = active_session THEN toLisp
  ELSE Append(toLisp, [cmd |-> "SwitchFrames", frame |-> frame[w]])

ReadFromSession(w, active) ==
  /\ WindowTurn(w) /\ MayRead(w) /\ typed[w] # <<>>
  /\ toLisp' = SwitchTo(w)
  /\ active_session' = active
  /\ typed' = [typed EXCEPT ![w] = Tail(@)]
  /\ ioIn' = Append(ioIn, Head(typed[w]))
  /\ reading_output' = TRUE
  /\ Served(w)
  /\ UNCHANGED <<plSock, frame, num_active_clients, menu_client,
                 session_socket_mask, closedFd, pc>>
  /\ UNCHANGED <<fromLisp, ttyIn, ttyOut, ioOut, peer, shown, menuSocket>>

read_from_session_inactive(w) == ReadFromSession(w, active_session)  \* mutant
read_from_session(w) == ReadFromSession(w, w)

(* End of file: sread closes the descriptor; the mask and the list keep it. *)
SessionEof(w) ==
  /\ WindowTurn(w) /\ MayRead(w) /\ typed[w] = <<>> /\ peer[w] = "dead"
  /\ toLisp' = SwitchTo(w)
  /\ active_session' = Null
  /\ closedFd' = closedFd \cup {w}
  /\ reading_output' = FALSE
  /\ Served(w)
  /\ UNCHANGED <<plSock, frame, num_active_clients, menu_client,
                 session_socket_mask, pc>>
  /\ UNCHANGED <<fromLisp, ioPipes, windows, menuSocket>>

(***************************************************************************)
(* read_SpadServer_command and close_client.                               *)
(***************************************************************************)
EndOfOutputThen(reading) ==
  /\ SpadTurn /\ Head(fromLisp).cmd = "EndOfOutput"
  /\ fromLisp' = Tail(fromLisp)
  /\ closedFd' = closedFd \cup {p \in {menu_client} \ {Null} : peer[p] = "dead"}
  /\ reading_output' = reading
  /\ Served("spad")
  /\ UNCHANGED <<plSock, frame, active_session, num_active_clients,
                 menu_client, session_socket_mask, pc>>
  /\ UNCHANGED <<toLisp, ioPipes, windows, menuSocket>>

EndOfOutputIgnored == EndOfOutputThen(reading_output)               \* mutant
EndOfOutput == EndOfOutputThen(FALSE)

QueryClients ==
  /\ SpadTurn /\ Head(fromLisp).cmd = "QueryClients"
  /\ fromLisp' = Tail(fromLisp)
  /\ toLisp' = Append(toLisp, [cmd |-> "NumClients", num |-> num_active_clients])
  /\ Served("spad")
  /\ UNCHANGED <<plSock, frame, active_session, num_active_clients,
                 reading_output, menu_client, session_socket_mask, closedFd, pc>>
  /\ UNCHANGED <<ioPipes, windows, menuSocket>>

(* The client that is killed and unlinked is the first with the frame; the
   pid sent to HyperDoc is, in both branches of the code, the list head's. *)
CloseFoundWith(i, mask, active, num) ==
  /\ peer' = [peer EXCEPT ![plSock[i]] = "dead"]
  /\ menuIn' = IF menu_client = Null THEN menuIn
               ELSE Append(menuIn, [cmd |-> "CloseClient", pid |-> plSock[1]])
  /\ session_socket_mask' = mask
  /\ plSock' = RemoveAt(plSock, i)
  /\ active_session' = active
  /\ num_active_clients' = num
  /\ UNCHANGED pc

CloseFoundNoFdClr(i) ==                                             \* mutant
  CloseFoundWith(i, session_socket_mask, Null, num_active_clients - 1)
CloseFound(i) ==
  CloseFoundWith(i, session_socket_mask \ {plSock[i]}, Null, num_active_clients - 1)

close_client ==
  /\ SpadTurn /\ Head(fromLisp).cmd = "CloseClient"
  /\ fromLisp' = Tail(fromLisp)
  /\ LET found == {i \in DOMAIN plSock : frame[plSock[i]] = Head(fromLisp).frame}
     IN  \/ \E i \in found : (\A j \in found : i <= j) /\ CloseFound(i)
         \/ /\ found = {}    \* with an empty list the search follows NULL
            /\ pc' = IF plSock = <<>> THEN "crashed" ELSE pc
            /\ UNCHANGED <<peer, menuIn, session_socket_mask, plSock,
                           active_session, num_active_clients>>
  /\ Served("spad")
  /\ UNCHANGED <<frame, reading_output, menu_client, closedFd>>
  /\ UNCHANGED <<toLisp, ioPipes, typed, shown, menuReq>>

SessionNext ==
  \/ Select \/ SelectFails
  \/ MenuClosed \/ MenuSwitchFrames \/ MenuQuerySpad
  \/ read_from_spad_io
  \/ AcceptMenu \/ AcceptKillSpad \/ AcceptFrameReply \/ AcceptMisread
  \/ \E w \in Window : \/ AcceptInterpWindow(w) \/ SkipWindow(w)
                       \/ read_from_session(w) \/ SessionEof(w)
  \/ EndOfOutput \/ QueryClients \/ close_client
=============================================================================
