------------------------- MODULE AxiomSessionProofs --------------------------
(***************************************************************************)
(* Theorems about AxiomSession, for every set of windows: first for every  *)
(* use, and then for a polite one.                                         *)
(***************************************************************************)
EXTENDS AxiomSession, ListLemmas, SequenceTheorems, TLAPS

(***************************************************************************)
(* Type correctness                                                        *)
(***************************************************************************)

(* While the manager waits for the number of a frame, the window it is for
   heads the list.                                                         *)
FrameAwaited == pc = "frame" => plSock # <<>>

(* Lisp always has a frame to run a line in, and holds the line it is
   running.                                                                *)
LispInv ==
  /\ frameRing # <<>>
  /\ lispPc \in {"eval", "count"} => curLine \in Line

(* The initial state is well typed. *)
LEMMA InitTypeOK == Init => TypeOK
<1>1. Init => ChannelsTypeOK
  <2>1. ChannelsInit => peer \in [Peer -> PeerState]
    BY DEF ChannelsInit, PeerState
  <2> QED
    BY <2>1 DEF Init, ChannelsInit, ChannelsTypeOK
<1>2. Init => SessionTypeOK
  <2>1. SessionInit => frame \in [Window -> Frame]
    BY DEF SessionInit, Frame
  <2>2. SessionInit => reading_output \in BOOLEAN
    BY DEF SessionInit
  <2> QED
    BY <2>1, <2>2 DEF Init, SessionInit, SessionTypeOK
<1>3. Init => LispTypeOK
  <2>1. LispInit => frameRing \in Seq(RingFrame)
    BY DEF LispInit, RingFrame
  <2>2. LispInit => frameNumber \in Frame /\ currentFrameNum \in Frame
    BY DEF LispInit, Frame
  <2>3. LispInit => needSignal \in BOOLEAN
    BY DEF LispInit
  <2> QED
    BY <2>1, <2>2, <2>3 DEF Init, LispInit, LispTypeOK
<1>4. Init => sent \in [Window -> Nat] /\ moves \in Nat /\ overlapped \in BOOLEAN
  <2>1. Init => sent \in [Window -> Nat]
    BY DEF Init
  <2>2. Init => moves \in Nat
    BY DEF Init
  <2>3. Init => overlapped \in BOOLEAN
    BY DEF Init
  <2> QED
    BY <2>1, <2>2, <2>3
<1> QED
  BY <1>1, <1>2, <1>3, <1>4 DEF TypeOK

(* HyperDoc's SwitchFrames is forwarded as it came. *)
LEMMA SwitchIsForwardable ==
  ASSUME NEW m \in MenuReq, m.cmd = "SwitchFrames"
  PROVE  m \in ToLisp
BY DEF MenuReq, ToLisp

(* A reply to CreateFrame carries a frame number. *)
LEMMA NewFrameHasFrame ==
  ASSUME NEW m \in FromLisp, m.cmd = "NewFrame"
  PROVE  m.frame \in Frame
BY DEF FromLisp

(* Every handler of the session manager keeps the types. *)
LEMMA SessionNextTypeOK ==
  ASSUME TypeOK, FrameAwaited, SessionNext, UNCHANGED <<lispVars, useVars>>
  PROVE  TypeOK'
<1> USE DEF channels, lispSocket, ioPipes, windows, menuSocket, Served
<1>1. LispTypeOK' /\ sent' \in [Window -> Nat] /\ moves' \in Nat /\ overlapped' \in BOOLEAN
  BY DEF TypeOK, LispTypeOK, lispVars, useVars
<1> SUFFICES ChannelsTypeOK' /\ SessionTypeOK'
  BY <1>1 DEF TypeOK
<1> USE DEF TypeOK, ChannelsTypeOK, SessionTypeOK
<1>2. CASE Select
  BY <1>2 DEF Select, ReadyFds
<1>3. CASE SelectFails
  BY <1>3 DEF SelectFails
<1>4. CASE MenuClosed
  BY <1>4 DEF MenuClosed, MenuCloses
<1>5. CASE MenuSwitchFrames
  <2>1. Head(menuReq) \in ToLisp /\ menuReq' \in Seq(MenuReq)
    BY <1>5, SwitchIsForwardable DEF MenuSwitchFrames
  <2>2. ChannelsTypeOK'
    <3>1. Append(toLisp, Head(menuReq)) \in Seq(ToLisp)
      BY <2>1 DEF ChannelsTypeOK, TypeOK
    <3>2. toLisp' \in Seq(ToLisp)
      BY <1>5, <3>1 DEF MenuSwitchFrames
    <3>3. UNCHANGED <<fromLisp, ioPipes, windows, menuIn>>
      BY <1>5 DEF MenuSwitchFrames
    <3> QED BY <2>1, <3>2, <3>3, SMTT(30)
  <2>3. reading_output' \in BOOLEAN
    BY <1>5 DEF MenuSwitchFrames
  <2>4. active_session' \in Window \cup {Null}
    BY <1>5 DEF MenuSwitchFrames
  <2>5. SessionTypeOK'
    BY <1>5, <2>3, <2>4 DEF MenuSwitchFrames
  <2> QED BY <2>2, <2>5
<1>6. CASE MenuQuerySpad
  BY <1>6 DEF MenuQuerySpad, MenuIn
<1>7. CASE read_from_spad_io
  <2>1. Head(ioOut) \in Window \cup {Menu} /\ ioOut' \in Seq(Window \cup {Menu})
    BY <1>7 DEF read_from_spad_io, IoTurn
  <2>2. shown' \in [Window -> SUBSET (Window \cup {Menu})]
    <3>1. CASE UNCHANGED shown
      BY <3>1
    <3>2. CASE shown' = [shown EXCEPT ![active_session] = @ \cup {Head(ioOut)}]
      <4>1. ASSUME NEW w \in Window
            PROVE  shown[w] \cup {Head(ioOut)} \in SUBSET (Window \cup {Menu})
        BY <2>1
      <4> QED BY <3>2, <4>1
    <3> QED BY <1>7, <3>1, <3>2 DEF read_from_spad_io
  <2>3. ChannelsTypeOK'
    BY <1>7, <2>1, <2>2 DEF read_from_spad_io
  <2>4. SessionTypeOK'
    BY <1>7 DEF read_from_spad_io
  <2> QED BY <2>3, <2>4
<1>8. CASE AcceptMenu
  BY <1>8 DEF AcceptMenu, Peer, PeerState
<1>9. CASE AcceptKillSpad
  BY <1>9 DEF AcceptKillSpad, KillSpad, PeerState
<1>10. ASSUME NEW w \in Window, AcceptInterpWindow(w)
       PROVE  ChannelsTypeOK' /\ SessionTypeOK'
  BY <1>10, SMTT(30) DEF AcceptInterpWindow, AcceptWindow, Peer, PeerState, ToLisp
<1>11. CASE AcceptFrameReply
  <2>1. plSock[1] \in Window
    BY <1>11 DEF AcceptFrameReply, FrameAwaited
  <2>2. Head(fromLisp).frame \in Frame /\ fromLisp' \in Seq(FromLisp)
    BY <1>11, NewFrameHasFrame DEF AcceptFrameReply
  <2>3. ChannelsTypeOK'
    BY <1>11, <2>2, SMTT(30) DEF AcceptFrameReply
  <2>4. frame' \in [Window -> Frame]
    BY <1>11, <2>1, <2>2 DEF AcceptFrameReply
  <2>5. closedFd' \in SUBSET (Window \cup {Menu}) /\ num_active_clients' \in Int
    <3>1. \/ closedFd' = closedFd /\ num_active_clients' = num_active_clients + 1
          \/ /\ closedFd' = closedFd \cup {plSock[1]}
             /\ num_active_clients' = num_active_clients
      BY <1>11 DEF AcceptFrameReply
    <3> QED BY <2>1, <3>1, SMTT(30)
  <2>6. SessionTypeOK'
    BY <1>11, <2>1, <2>4, <2>5, SMTT(30) DEF AcceptFrameReply
  <2> QED BY <2>3, <2>6
<1>12. CASE AcceptMisread
  BY <1>12 DEF AcceptMisread
<1>13. ASSUME NEW w \in Window, SkipWindow(w)
       PROVE  ChannelsTypeOK' /\ SessionTypeOK'
  BY <1>13 DEF SkipWindow
<1>14. ASSUME NEW w \in Window, read_from_session(w)
       PROVE  ChannelsTypeOK' /\ SessionTypeOK'
  BY <1>14, SMTT(30) DEF read_from_session, ReadFromSession, SwitchTo, ToLisp
<1>15. ASSUME NEW w \in Window, SessionEof(w)
       PROVE  ChannelsTypeOK' /\ SessionTypeOK'
  <2>1. ChannelsTypeOK'
    BY <1>15, SMTT(30) DEF SessionEof, SwitchTo, ToLisp
  <2>2. reading_output' \in BOOLEAN
    BY <1>15 DEF SessionEof
  <2>3. SessionTypeOK'
    BY <1>15, <2>2 DEF SessionEof
  <2> QED BY <2>1, <2>3
<1>16. CASE EndOfOutput
  <2>1. ChannelsTypeOK'
    BY <1>16 DEF EndOfOutput, EndOfOutputThen, SpadTurn
  <2>2. reading_output' \in BOOLEAN
    BY <1>16 DEF EndOfOutput, EndOfOutputThen
  <2>3. SessionTypeOK'
    BY <1>16, <2>2 DEF EndOfOutput, EndOfOutputThen
  <2> QED BY <2>1, <2>3
<1>17. CASE QueryClients
  BY <1>17, SMTT(30) DEF QueryClients, ToLisp, SpadTurn
<1>18. CASE close_client
  <2>1. fromLisp' \in Seq(FromLisp)
    BY <1>18 DEF close_client, SpadTurn
  <2>2. \/ UNCHANGED <<peer, menuIn, session_socket_mask, plSock,
                       active_session, num_active_clients>>
           /\ pc' \in {pc, "crashed"}
        \/ \E i \in DOMAIN plSock : CloseFound(i)
    BY <1>18 DEF close_client
  <2>3. ASSUME NEW i \in DOMAIN plSock, CloseFound(i)
        PROVE  /\ plSock' \in Seq(Window) /\ peer' \in [Peer -> PeerState]
               /\ menuIn' \in Seq(MenuIn)
    <3>1. plSock[i] \in Window /\ plSock[1] \in Window
      OBVIOUS
    <3>2. plSock' \in Seq(Window)
      BY <2>3, RemoveAtType DEF CloseFound, CloseFoundWith
    <3>3. peer' \in [Peer -> PeerState]
      BY <2>3 DEF CloseFound, CloseFoundWith, PeerState
    <3>4. menuIn' \in Seq(MenuIn)
      <4>1. [cmd |-> "CloseClient", pid |-> plSock[1]] \in MenuIn
        BY <3>1 DEF MenuIn
      <4> QED BY <2>3, <4>1 DEF CloseFound, CloseFoundWith
    <3> QED BY <3>2, <3>3, <3>4
  <2>4. ChannelsTypeOK'
    BY <1>18, <2>1, <2>2, <2>3 DEF close_client
  <2>5. /\ plSock' \in Seq(Window) /\ active_session' \in Window \cup {Null}
        /\ num_active_clients' \in Int
        /\ session_socket_mask' \in SUBSET (Window \cup {Menu})
        /\ pc' \in {pc, "crashed"}
    <3>1. ASSUME NEW i \in DOMAIN plSock, CloseFound(i)
          PROVE  /\ active_session' = Null
                 /\ num_active_clients' = num_active_clients - 1
                 /\ session_socket_mask' = session_socket_mask \ {plSock[i]}
                 /\ pc' = pc
      BY <3>1 DEF CloseFound, CloseFoundWith
    <3>2. CASE UNCHANGED <<session_socket_mask, plSock, active_session,
                           num_active_clients>> /\ pc' \in {pc, "crashed"}
      BY <3>2
    <3>3. CASE \E i \in DOMAIN plSock : CloseFound(i)
      <4>1. PICK i \in DOMAIN plSock : CloseFound(i)
        BY <3>3
      <4>2. plSock' \in Seq(Window)
        BY <2>3, <4>1
      <4>3. /\ active_session' = Null
            /\ num_active_clients' = num_active_clients - 1
            /\ session_socket_mask' = session_socket_mask \ {plSock[i]}
            /\ pc' = pc
        BY <3>1, <4>1
      <4> QED BY <4>2, <4>3
    <3> QED BY <2>2, <3>2, <3>3
  <2>6. SessionTypeOK'
    BY <1>18, <2>5 DEF close_client
  <2> QED BY <2>4, <2>6
<1> QED
  BY <1>2, <1>3, <1>4, <1>5, <1>6, <1>7, <1>8, <1>9, <1>10, <1>11, <1>12,
     <1>13, <1>14, <1>15, <1>16, <1>17, <1>18 DEF SessionNext

(* Every step of the Lisp core keeps the types. *)
LEMMA LispNextTypeOK ==
  ASSUME TypeOK, LispInv, LispNext, UNCHANGED <<sessionVars, useVars>>
  PROVE  TypeOK'
<1> USE DEF channels, lispSocket, ioPipes, windows, menuSocket
<1>1. SessionTypeOK' /\ sent' \in [Window -> Nat] /\ moves' \in Nat /\ overlapped' \in BOOLEAN
  BY DEF TypeOK, SessionTypeOK, sessionVars, useVars
<1> SUFFICES ChannelsTypeOK' /\ LispTypeOK'
  BY <1>1 DEF TypeOK
<1> USE DEF TypeOK, ChannelsTypeOK, LispTypeOK
<1>2. CASE SignalEndOfOutput
  <2>1. [cmd |-> "EndOfOutput"] \in FromLisp
    BY DEF FromLisp
  <2>2. ChannelsTypeOK'
    BY <1>2, <2>1 DEF SignalEndOfOutput
  <2>3. needSignal' \in BOOLEAN
    BY <1>2 DEF SignalEndOfOutput
  <2>4. LispTypeOK'
    BY <1>2, <2>3 DEF SignalEndOfOutput
  <2> QED BY <2>2, <2>4
<1>3. CASE CreateFrame
  <2>1. [cmd |-> "NewFrame", frame |-> frameNumber] \in FromLisp
    BY DEF FromLisp
  <2>2. frameNumber \in RingFrame
    BY DEF RingFrame
  <2>3. frameNumber' \in Frame
    BY <1>3 DEF CreateFrame, CreateFrameAs, Frame
  <2>4. ChannelsTypeOK'
    <3>1. toLisp' \in Seq(ToLisp)
      BY <1>3 DEF CreateFrame, CreateFrameAs
    <3>2. Append(fromLisp, [cmd |-> "NewFrame", frame |-> frameNumber]) \in Seq(FromLisp)
      BY <2>1 DEF ChannelsTypeOK, TypeOK
    <3>3. fromLisp' \in Seq(FromLisp)
      BY <1>3, <3>2 DEF CreateFrame, CreateFrameAs
    <3>4. UNCHANGED <<ioPipes, windows, menuSocket>>
      BY <1>3 DEF CreateFrame, CreateFrameAs
    <3> QED BY <3>1, <3>3, <3>4, SMTT(30)
  <2>5. LispTypeOK'
    BY <1>3, <2>2, <2>3 DEF CreateFrame, CreateFrameAs
  <2> QED BY <2>4, <2>5
<1>4. CASE SwitchFrames
  <2>1. Head(toLisp) \in ToLisp /\ toLisp' \in Seq(ToLisp)
    BY <1>4 DEF SwitchFrames
  <2>2. Head(toLisp).frame \in Frame
    BY <1>4, <2>1 DEF SwitchFrames, ToLisp
  <2>3. frameRing' \in Seq(RingFrame)
    <3> DEFINE at == {i \in DOMAIN frameRing : frameRing[i] = Head(toLisp).frame}
    <3>1. CASE at = {}
      BY <1>4, <3>1 DEF SwitchFrames, changeToNamedInterpreterFrame
    <3>2. CASE at # {}
      <4>1. (CHOOSE i \in at : TRUE) \in DOMAIN frameRing
        BY <3>2
      <4>2. RemoveAt(frameRing, CHOOSE i \in at : TRUE) \in Seq(RingFrame)
        BY <4>1, RemoveAtType
      <4>3. <<Head(toLisp).frame>> \in Seq(RingFrame)
        BY <2>2 DEF RingFrame
      <4>4. frameRing' = <<Head(toLisp).frame>>
                           \o RemoveAt(frameRing, CHOOSE i \in at : TRUE)
        BY <1>4, <3>2 DEF SwitchFrames, changeToNamedInterpreterFrame
      <4> HIDE DEF at
      <4> QED BY <4>2, <4>3, <4>4
    <3> QED BY <3>1, <3>2
  <2>4. ChannelsTypeOK'
    BY <1>4, <2>1 DEF SwitchFrames
  <2>5. LispTypeOK'
    BY <1>4, <2>2, <2>3 DEF SwitchFrames
  <2> QED BY <2>4, <2>5
<1>5. CASE CallInterp
  <2>1. Head(ttyIn) \in Line /\ ttyIn' \in Seq(Line)
    BY <1>5 DEF CallInterp
  <2>2. ChannelsTypeOK'
    BY <1>5, <2>1 DEF CallInterp
  <2>3. needSignal' \in BOOLEAN
    BY <1>5 DEF CallInterp
  <2>4. ran' \subseteq Window \X RingFrame
    <3>1. <<Head(ttyIn).from, Head(frameRing)>> \in Window \X RingFrame
      BY <2>1, SMTT(30) DEF Line, LispInv
    <3> QED BY <1>5, <3>1 DEF CallInterp
  <2>5. LispTypeOK'
    BY <1>5, <2>1, <2>3, <2>4 DEF CallInterp
  <2> QED BY <2>2, <2>5
<1>6. CASE MenuCommand
  <2>1. Head(menuCmd) \in Frame /\ menuCmd' \in Seq(Frame)
    BY <1>6 DEF MenuCommand
  <2>2. ttyOut' \in Seq(Window \cup {Menu})
    <3>1. Append(ttyOut, Menu) \in Seq(Window \cup {Menu})
      OBVIOUS
    <3>2. ttyOut' = ttyOut \/ ttyOut' = Append(ttyOut, Menu)
      BY <1>6 DEF MenuCommand
    <3> QED BY <3>1, <3>2, Zenon
  <2>3. ChannelsTypeOK'
    BY <1>6, <2>2 DEF MenuCommand
  <2>4. needSignal' \in BOOLEAN
    BY <1>6 DEF MenuCommand
  <2>5. menuRan' \subseteq Frame \X RingFrame
    <3>1. <<Head(menuCmd), Head(frameRing)>> \in Frame \X RingFrame
      BY <2>1 DEF LispInv
    <3> QED BY <1>6, <3>1 DEF MenuCommand
  <2>6. LispTypeOK'
    BY <1>6, <2>1, <2>4, <2>5 DEF MenuCommand
  <2> QED BY <2>3, <2>6
<1>7. CASE Evaluate
  <2>1. curLine.from \in Window
    BY <1>7 DEF Evaluate, LispInv, Line
  <2> QED BY <1>7, <2>1, SMTT(30) DEF Evaluate, Printed
<1>8. CASE queryClients
  <2>1. [cmd |-> "QueryClients"] \in FromLisp
    BY DEF FromLisp
  <2> QED BY <1>8, <2>1, SMTT(30) DEF queryClients
<1>9. CASE Close
  <2>1. curLine.from \in Window
    BY <1>9 DEF Close, CloseSending, LispInv, Line
  <2>2. CloseMsg \in FromLisp
    BY DEF CloseMsg, FromLisp
  <2>3. toLisp' \in Seq(ToLisp)
    BY <1>9 DEF Close, CloseSending
  <2>4. fromLisp' \in Seq(FromLisp)
    <3>1. fromLisp \o <<CloseMsg>> \in Seq(FromLisp)
      BY <2>2
    <3>2. fromLisp' = fromLisp \/ fromLisp' = fromLisp \o <<CloseMsg>>
      BY <1>9 DEF Close, CloseSending
    <3> QED BY <3>1, <3>2, Zenon
  <2>5. ttyOut' \in Seq(Window \cup {Menu})
    <3>1. Append(ttyOut, curLine.from) \in Seq(Window \cup {Menu})
      BY <2>1
    <3>2. ttyOut' = ttyOut \/ ttyOut' = Append(ttyOut, curLine.from)
      BY <1>9 DEF Close, CloseSending, Printed
    <3> QED BY <3>1, <3>2, Zenon
  <2>6. frameRing' \in Seq(RingFrame)
    <3>1. Tail(frameRing) \in Seq(RingFrame)
      BY DEF LispInv
    <3>2. frameRing' = frameRing \/ frameRing' = Tail(frameRing)
      BY <1>9 DEF Close, CloseSending, closeInterpreterFrame
    <3> QED BY <3>1, <3>2, Zenon
  <2>7. ChannelsTypeOK'
    BY <1>9, <2>3, <2>4, <2>5 DEF Close, CloseSending
  <2>8. LispTypeOK'
    BY <1>9, <2>6 DEF Close, CloseSending
  <2> QED BY <2>7, <2>8
<1>10. CASE CountMisread
  BY <1>10 DEF CountMisread
<1> QED
  BY <1>2, <1>3, <1>4, <1>5, <1>6, <1>7, <1>8, <1>9, <1>10 DEF LispNext

(* sman's relay, the users and HyperDoc keep the types. *)
LEMMA OthersTypeOK ==
  ASSUME TypeOK, UNCHANGED sessionVars,
         \/ RelayNext /\ UNCHANGED <<lispVars, useVars>>
         \/ UserNext  /\ UNCHANGED lispVars
         \/ MenuNext
  PROVE  TypeOK'
<1> USE DEF channels, lispSocket, ioPipes, windows, menuSocket, useVars
<1>1. SessionTypeOK'
  BY DEF TypeOK, SessionTypeOK, sessionVars
<1>2. CASE RelayNext /\ UNCHANGED <<lispVars, useVars>>
  <2>1. LispTypeOK' /\ sent' \in [Window -> Nat] /\ moves' \in Nat /\ overlapped' \in BOOLEAN
    BY <1>2 DEF TypeOK, LispTypeOK, lispVars
  <2>2. CASE read_from_manager
    BY <1>1, <2>1, <2>2 DEF TypeOK, ChannelsTypeOK, read_from_manager
  <2>3. CASE relay_spad_io
    BY <1>1, <2>1, <2>3 DEF TypeOK, ChannelsTypeOK, relay_spad_io
  <2> QED BY <1>2, <2>2, <2>3 DEF RelayNext
<1>3. CASE UserNext /\ UNCHANGED lispVars
  <2>1. LispTypeOK'
    BY <1>3 DEF TypeOK, LispTypeOK, lispVars
  <2>2. ASSUME NEW p \in Peer, Connect(p) \/ PeerDies(p)
        PROVE  ChannelsTypeOK' /\ sent' \in [Window -> Nat] /\ moves' \in Nat /\ overlapped' \in BOOLEAN
    BY <2>2 DEF TypeOK, ChannelsTypeOK, Connect, PeerDies, PeerState
  <2>3. ASSUME NEW w \in Window, Type(w)
        PROVE  ChannelsTypeOK' /\ sent' \in [Window -> Nat] /\ moves' \in Nat /\ overlapped' \in BOOLEAN
    <3>1. PICK k \in {"eval", "close"} :
            typed' = [typed EXCEPT ![w] = Append(@, [from |-> w, kind |-> k])]
      BY <2>3 DEF Type
    <3>2. [from |-> w, kind |-> k] \in Line
      BY DEF Line
    <3>3. typed' \in [Window -> Seq(Line)]
      BY <3>1, <3>2 DEF TypeOK, ChannelsTypeOK
    <3> QED BY <2>3, <3>3 DEF TypeOK, ChannelsTypeOK, Type
  <2> QED BY <1>1, <1>3, <2>1, <2>2, <2>3 DEF TypeOK, UserNext
<1>4. CASE MenuNext
  <2>1. CASE spad_busy
    <3>1. [cmd |-> "QuerySpad"] \in MenuReq
      BY DEF MenuReq
    <3> QED
      BY <1>1, <1>4, <2>1, <3>1
      DEF TypeOK, ChannelsTypeOK, LispTypeOK, MenuNext, spad_busy
  <2>2. CASE issue_server_command
    <3>1. PICK f \in {0} \cup 0..(frameNumber - 1) :
            /\ menuReq' = Append(menuReq, [cmd |-> "SwitchFrames", frame |-> f])
            /\ menuCmd' = Append(menuCmd, f)
      BY <2>2 DEF issue_server_command
    <3>2. f \in Frame
      BY DEF Frame, TypeOK, LispTypeOK
    <3>3. [cmd |-> "SwitchFrames", frame |-> f] \in MenuReq
      BY <3>2 DEF MenuReq
    <3>4. ChannelsTypeOK'
      BY <1>4, <2>2, <3>1, <3>3
      DEF TypeOK, ChannelsTypeOK, MenuNext, issue_server_command
    <3>5. LispTypeOK'
      BY <1>4, <2>2, <3>1, <3>2 DEF TypeOK, LispTypeOK, MenuNext
    <3>6. sent' \in [Window -> Nat] /\ moves' \in Nat /\ overlapped' \in BOOLEAN
      BY <1>4, <2>2 DEF TypeOK, MenuNext, issue_server_command
    <3> QED BY <1>1, <3>4, <3>5, <3>6 DEF TypeOK
  <2> QED BY <1>4, <2>1, <2>2 DEF MenuNext
<1> QED BY <1>2, <1>3, <1>4

(* The manager enters accept with a window at the head of the list, and
   leaves it before anything is unlinked.                                  *)
LEMMA FrameAwaitedKept ==
  ASSUME TypeOK, FrameAwaited, ~Final, SystemNext \/ EnvNext
  PROVE  FrameAwaited'
<1> USE DEF FrameAwaited
<1>1. CASE UNCHANGED sessionVars
  BY <1>1 DEF sessionVars
<1>2. CASE SessionNext
  <2>1. ASSUME NEW w \in Window, AcceptInterpWindow(w)
        PROVE  FrameAwaited'
    BY <2>1 DEF AcceptInterpWindow, AcceptWindow, TypeOK, SessionTypeOK
  <2>2. ASSUME NEW w \in Window,
               SkipWindow(w) \/ read_from_session(w) \/ SessionEof(w)
        PROVE  FrameAwaited'
    BY <2>2 DEF SkipWindow, read_from_session, ReadFromSession, SessionEof
  <2>3. CASE Select \/ SelectFails \/ MenuClosed \/ MenuSwitchFrames
             \/ MenuQuerySpad \/ read_from_spad_io
    BY <2>3 DEF Select, SelectFails, MenuClosed, MenuCloses, MenuSwitchFrames,
                MenuQuerySpad, read_from_spad_io
  <2>4. CASE AcceptMenu \/ AcceptKillSpad \/ AcceptFrameReply \/ AcceptMisread
    BY <2>4 DEF AcceptMenu, AcceptKillSpad, KillSpad, AcceptFrameReply,
                AcceptMisread
  <2>5. CASE EndOfOutput \/ QueryClients
    BY <2>5 DEF EndOfOutput, EndOfOutputThen, QueryClients
  <2>6. CASE close_client
    BY <2>6 DEF close_client, CloseFound, CloseFoundWith, SpadTurn
  <2> QED
    BY <1>2, <2>1, <2>2, <2>3, <2>4, <2>5, <2>6 DEF SessionNext
<1> QED BY <1>1, <1>2 DEF SystemNext, EnvNext

(* closeInterpreterFrame keeps the last frame, and only a line that has been
   read is run.                                                            *)
LEMMA LispInvKept ==
  ASSUME TypeOK, LispInv, ~Final, SystemNext \/ EnvNext
  PROVE  LispInv'
<1>1. CASE UNCHANGED <<lispPc, curLine, frameRing>>
  BY <1>1 DEF LispInv
<1>2. CASE LispNext
  <2>1. CASE SignalEndOfOutput \/ MenuCommand \/ Evaluate \/ queryClients
             \/ CountMisread
    BY <2>1 DEF LispInv, SignalEndOfOutput, MenuCommand, Evaluate, queryClients,
                CountMisread
  <2>2. CASE CreateFrame
    BY <2>2 DEF LispInv, CreateFrame, CreateFrameAs, TypeOK, LispTypeOK, RingFrame
  <2>3. CASE SwitchFrames
    <3> DEFINE f == Head(toLisp).frame
               at == {i \in DOMAIN frameRing : frameRing[i] = f}
    <3>1. frameRing' = frameRing
          \/ \E i \in DOMAIN frameRing : frameRing' = <<f>> \o RemoveAt(frameRing, i)
      BY <2>3 DEF SwitchFrames, changeToNamedInterpreterFrame
    <3>2. ASSUME NEW i \in DOMAIN frameRing,
                 frameRing' = <<f>> \o RemoveAt(frameRing, i)
          PROVE  frameRing' # <<>>
      <4>1. RemoveAt(frameRing, i) \in Seq(RingFrame)
        BY RemoveAtType DEF TypeOK, LispTypeOK
      <4> QED BY <3>2, <4>1
    <3>3. frameRing' # <<>>
      BY <3>1, <3>2 DEF LispInv
    <3> QED BY <2>3, <3>3 DEF LispInv, SwitchFrames
  <2>4. CASE CallInterp
    BY <2>4 DEF LispInv, CallInterp, TypeOK, ChannelsTypeOK
  <2>5. CASE Close
    <3>1. closeInterpreterFrame # <<>>
      <4>1. frameRing \in Seq(RingFrame) /\ frameRing # <<>>
        BY DEF LispInv, TypeOK, LispTypeOK
      <4>2. CASE Len(frameRing) = 1
        BY <4>1, <4>2 DEF closeInterpreterFrame
      <4>3. CASE Len(frameRing) # 1
        <5>1. Len(frameRing) \in Nat /\ Len(frameRing) > 1
          BY <4>1, <4>3
        <5>2. Len(Tail(frameRing)) > 0
          BY <4>1, <5>1
        <5>3. Tail(frameRing) # <<>>
          <6>1. Len(<<>>) = 0
            OBVIOUS
          <6>2. ~(0 > 0)
            OBVIOUS
          <6> QED BY <5>2, <6>1, <6>2, Zenon
        <5> QED BY <4>3, <5>3 DEF closeInterpreterFrame
      <4> QED BY <4>2, <4>3
    <3> QED BY <2>5, <3>1 DEF LispInv, Close, CloseSending
  <2> QED BY <1>2, <2>1, <2>2, <2>3, <2>4, <2>5 DEF LispNext
<1> QED BY <1>1, <1>2 DEF SystemNext, EnvNext, MenuNext, lispVars

(* TypeOK alone is not inductive: the window a frame number is stored in is
   the head of the list, and the frame a line is run in the head of the ring,
   which must exist.                                                       *)
TypeInv == TypeOK /\ FrameAwaited /\ LispInv

(* The strengthened type invariant is kept by every step of the system. *)
LEMMA TypeInvInductive == TypeInv /\ [Next]_vars => TypeInv'
<1> SUFFICES ASSUME TypeInv, [Next]_vars PROVE TypeInv'
  OBVIOUS
<1>1. CASE UNCHANGED vars
  <2> USE <1>1 DEF vars, channels, lispSocket, ioPipes, windows, menuSocket
  <2>1. ChannelsTypeOK'
    BY DEF TypeInv, TypeOK, ChannelsTypeOK
  <2>2. SessionTypeOK' /\ FrameAwaited'
    BY DEF TypeInv, TypeOK, SessionTypeOK, FrameAwaited, sessionVars
  <2>3. LispTypeOK' /\ LispInv'
    BY DEF TypeInv, TypeOK, LispTypeOK, LispInv, lispVars
  <2>4. sent' \in [Window -> Nat] /\ moves' \in Nat /\ overlapped' \in BOOLEAN
    BY DEF TypeInv, TypeOK, useVars
  <2> QED BY <2>1, <2>2, <2>3, <2>4 DEF TypeInv, TypeOK
<1>2. CASE ~Final /\ (SystemNext \/ EnvNext)
  <2>1. TypeOK'
    BY <1>2, SessionNextTypeOK, LispNextTypeOK, OthersTypeOK
    DEF TypeInv, SystemNext, EnvNext
  <2>2. FrameAwaited' /\ LispInv'
    BY <1>2, FrameAwaitedKept, LispInvKept DEF TypeInv
  <2> QED BY <2>1, <2>2 DEF TypeInv
<1> QED BY <1>1, <1>2 DEF Next

(* The strengthened type invariant holds in every reachable state. *)
THEOREM TypeInvariant == Spec => []TypeInv
<1>1. Init => TypeInv
  <2>1. Init => FrameAwaited
    BY DEF Init, SessionInit, FrameAwaited
  <2>2. Init => LispInv
    BY DEF Init, LispInit, LispInv
  <2> QED BY <2>1, <2>2, InitTypeOK DEF TypeInv
<1> QED BY <1>1, TypeInvInductive, PTL DEF Spec

(* In every behaviour of the composed system, whatever the users and HyperDoc
   do, every variable of every process and channel stays in its domain.    *)
THEOREM TypeCorrect == Spec => []TypeOK
<1>1. TypeInv => TypeOK
  BY DEF TypeInv
<1> QED BY <1>1, TypeInvariant, PTL

(***************************************************************************)
(* The client list, the active session and the select mask                 *)
(***************************************************************************)

(* A window is in the list once, and only after it has been accepted. *)
ListWellFormed ==
  /\ \A i, j \in DOMAIN plSock : plSock[i] = plSock[j] => i = j
  /\ \A w \in Listed : peer[w] \in {"open", "dead"}

ListInv == ListWellFormed /\ ActiveIsListed /\ MaskIsList

(* The handlers of the session manager keep the list, the active session and
   the mask in agreement.                                                  *)
LEMMA SessionNextListInv ==
  ASSUME TypeInv, ListInv, SessionNext
  PROVE  ListInv'
<1> USE DEF ListInv, ListWellFormed, ActiveIsListed, MaskIsList, Listed
<1>1. /\ plSock \in Seq(Window) /\ peer \in [Peer -> PeerState]
      /\ session_socket_mask \in SUBSET (Window \cup {Menu})
      /\ menu_client \in {Menu, Null}
  BY DEF TypeInv, TypeOK, ChannelsTypeOK, SessionTypeOK
<1>2. Menu \notin Window /\ Null \notin Window /\ Killer \notin Window /\ Menu # Killer
  BY NamesDistinct
<1>3. Listed \subseteq Window
  BY <1>1 DEF Range
<1>4. CASE UNCHANGED <<plSock, peer, active_session, session_socket_mask>>
           /\ closedFd \subseteq closedFd'
  BY <1>4
<1>5. CASE MenuClosed
  BY <1>5, <1>1, <1>2, <1>3 DEF MenuClosed, MenuCloses, channels, windows
<1>6. CASE MenuSwitchFrames
  BY <1>6 DEF MenuSwitchFrames, windows, Range
<1>7. CASE AcceptMenu
  <2>1. \A w \in Listed : peer'[w] = peer[w]
    BY <1>1, <1>2, <1>3, <1>7 DEF AcceptMenu
  <2>2. MaskIsList'
    BY <1>2, <1>3, <1>7 DEF AcceptMenu, Reused
  <2> QED BY <1>7, <2>1, <2>2 DEF AcceptMenu
<1>8. CASE AcceptKillSpad
  <2>1. \A w \in Listed : peer'[w] \in {peer[w], "dead"}
    BY <1>2, <1>3, <1>8 DEF AcceptKillSpad, KillSpad, Peer
  <2> QED BY <1>8, <2>1 DEF AcceptKillSpad, KillSpad
<1>9. ASSUME NEW w \in Window, AcceptInterpWindow(w)
      PROVE  ListInv'
  <2>1. w \notin Listed
    BY <1>9 DEF AcceptInterpWindow, AcceptWindow
  <2>2. /\ DOMAIN plSock' = 1..(Len(plSock) + 1) /\ DOMAIN plSock = 1..Len(plSock)
        /\ Len(plSock) \in Nat
        /\ \A i \in DOMAIN plSock' : plSock'[i] = IF i = 1 THEN w ELSE plSock[i - 1]
    <3>1. plSock' = <<w>> \o plSock
      BY <1>9 DEF AcceptInterpWindow, AcceptWindow
    <3>2. Len(plSock) \in Nat /\ DOMAIN plSock = 1..Len(plSock)
      BY <1>1
    <3>3. <<w>> \in Seq(Window) /\ Len(<<w>>) = 1 /\ <<w>>[1] = w
      OBVIOUS
    <3>4. /\ plSock' \in Seq(Window) /\ Len(plSock') = 1 + Len(plSock)
          /\ \A i \in 1..(1 + Len(plSock)) :
               plSock'[i] = IF i <= 1 THEN <<w>>[i] ELSE plSock[i - 1]
      BY <1>1, <3>1, <3>3, ConcatProperties
    <3>5. DOMAIN plSock' = 1..(Len(plSock) + 1)
      BY <3>2, <3>4
    <3>6. ASSUME NEW i \in DOMAIN plSock'
          PROVE  plSock'[i] = IF i = 1 THEN w ELSE plSock[i - 1]
      <4>1. i \in 1..(1 + Len(plSock)) /\ (i <= 1 <=> i = 1)
        BY <3>2, <3>5
      <4> QED BY <3>3, <3>4, <4>1
    <3> QED BY <3>2, <3>5, <3>6
  <2>3. Range(plSock') = Range(plSock) \cup {w}
    <3>1. ASSUME NEW i \in DOMAIN plSock'
          PROVE  plSock'[i] \in Range(plSock) \cup {w}
      BY <2>2 DEF Range
    <3>2. ASSUME NEW i \in DOMAIN plSock
          PROVE  i + 1 \in DOMAIN plSock' /\ plSock'[i + 1] = plSock[i]
      BY <2>2
    <3>3. 1 \in DOMAIN plSock' /\ plSock'[1] = w
      BY <2>2
    <3> QED BY <3>1, <3>2, <3>3 DEF Range
  <2>4. ASSUME NEW i \in DOMAIN plSock', NEW j \in DOMAIN plSock',
               plSock'[i] = plSock'[j]
        PROVE  i = j
    BY <2>1, <2>2, <2>4 DEF Range
  <2>5. \A v \in Window : peer'[v] = IF v = w THEN "open" ELSE peer[v]
    BY <1>1, <1>9 DEF AcceptInterpWindow, AcceptWindow, Peer
  <2>6. ListWellFormed'
    BY <1>3, <2>3, <2>4, <2>5
  <2>7. MaskIsList'
    <3>1. /\ session_socket_mask' = (session_socket_mask \ Reused) \cup {w}
          /\ closedFd' = closedFd
      BY <1>9 DEF AcceptInterpWindow, AcceptWindow
    <3> QED BY <1>2, <2>3, <3>1 DEF Reused
  <2>8. ActiveIsListed'
    BY <1>9, <2>3 DEF AcceptInterpWindow, AcceptWindow
  <2> QED BY <2>6, <2>7, <2>8
<1>10. CASE AcceptFrameReply
  <2>1. plSock[1] \in Listed
    BY <1>1, <1>10 DEF AcceptFrameReply, TypeInv, FrameAwaited, Range
  <2> QED BY <1>10, <2>1 DEF AcceptFrameReply, windows
<1>11. ASSUME NEW w \in Window, read_from_session(w) \/ SessionEof(w)
       PROVE  ListInv'
  BY <1>11 DEF read_from_session, ReadFromSession, SessionEof, WindowTurn,
               windows, Range
<1>12. ASSUME NEW i \in DOMAIN plSock, CloseFound(i), UNCHANGED closedFd
       PROVE  ListInv'
  <2>1. /\ Range(plSock') = Range(plSock) \ {plSock[i]}
        /\ \A j, k \in DOMAIN plSock' : plSock'[j] = plSock'[k] => j = k
    BY <1>1, <1>12, RemoveAtInjective DEF CloseFound, CloseFoundWith
  <2>2. \A w \in Window : peer'[w] \in {peer[w], "dead"}
    BY <1>1, <1>12 DEF CloseFound, CloseFoundWith, Peer
  <2>3. ListWellFormed'
    BY <1>3, <2>1, <2>2
  <2>4. plSock[i] \in Window
    BY <1>1
  <2>5. session_socket_mask' = session_socket_mask \ {plSock[i]} /\ active_session' = Null
    BY <1>12 DEF CloseFound, CloseFoundWith
  <2> QED BY <1>2, <1>12, <2>1, <2>3, <2>4, <2>5
<1>13. CASE Select \/ SelectFails \/ MenuQuerySpad \/ read_from_spad_io
            \/ AcceptMisread \/ EndOfOutput \/ QueryClients
            \/ \E w \in Window : SkipWindow(w)
  BY <1>4, <1>13
  DEF Select, SelectFails, MenuQuerySpad, read_from_spad_io, AcceptMisread,
      EndOfOutput, EndOfOutputThen, QueryClients, SkipWindow, channels, windows
<1>14. CASE close_client
  BY <1>4, <1>12, <1>14 DEF close_client
<1> QED
  BY <1>5, <1>6, <1>7, <1>8, <1>9, <1>10, <1>11, <1>13, <1>14 DEF SessionNext

(* Users come and go, but a window that is not listed is never taken for one
   that is; nobody else touches the manager's tables.                      *)
LEMMA ListInvInductive == TypeInv /\ ListInv /\ [Next]_vars => ListInv'
<1> SUFFICES ASSUME TypeInv, ListInv, [Next]_vars PROVE ListInv'
  OBVIOUS
<1> USE DEF channels, windows
<1>1. CASE UNCHANGED <<sessionVars, peer>>
  BY <1>1 DEF sessionVars, ListInv, ListWellFormed, ActiveIsListed, MaskIsList, Listed
<1>2. CASE UNCHANGED sessionVars /\ \E p \in Peer : Connect(p) \/ PeerDies(p)
  <2>1. PICK p \in Peer : Connect(p) \/ PeerDies(p)
    BY <1>2
  <2>2. peer \in [Peer -> PeerState] /\ plSock \in Seq(Window)
    BY DEF TypeInv, TypeOK, ChannelsTypeOK, SessionTypeOK
  <2>3. Listed \subseteq Peer
    BY <2>2 DEF Listed, Range, Peer
  <2>4. \A w \in Listed : peer'[w] \in {peer[w], "dead"}
    BY <2>1, <2>2, <2>3 DEF Connect, PeerDies, ListInv, ListWellFormed
  <2>5. ListWellFormed'
    BY <1>2, <2>4 DEF sessionVars, ListInv, ListWellFormed, Listed
  <2> QED
    BY <1>2, <2>5 DEF sessionVars, ListInv, ActiveIsListed, MaskIsList, Listed
<1>3. CASE SessionNext
  BY <1>3, SessionNextListInv
<1>4. CASE LispNext /\ UNCHANGED <<sessionVars, useVars>>
  BY <1>1, <1>4
  DEF LispNext, SignalEndOfOutput, CreateFrame, CreateFrameAs, SwitchFrames,
      CallInterp, MenuCommand, Evaluate, queryClients, Close, CloseSending,
      CountMisread
<1>5. CASE RelayNext /\ UNCHANGED <<sessionVars, lispVars, useVars>>
  BY <1>1, <1>5 DEF RelayNext, read_from_manager, relay_spad_io
<1>6. CASE UserNext /\ UNCHANGED <<sessionVars, lispVars>>
  BY <1>1, <1>2, <1>6 DEF UserNext, Type
<1>7. CASE MenuNext /\ UNCHANGED sessionVars
  BY <1>1, <1>7 DEF MenuNext
<1>8. CASE UNCHANGED vars
  BY <1>1, <1>8 DEF vars
<1> QED
  BY <1>3, <1>4, <1>5, <1>6, <1>7, <1>8 DEF Next, SystemNext, EnvNext

(* In every reachable state the client list has no repetition, holds only
   accepted windows, and agrees with active_session and the select mask.   *)
THEOREM ListInvariant == Spec => []ListInv
<1>1. Init => ListInv
  BY NamesDistinct
  DEF Init, ChannelsInit, SessionInit, ListInv, ListWellFormed, ActiveIsListed,
      MaskIsList, Listed, Range
<1> QED BY <1>1, TypeInvariant, ListInvInductive, PTL DEF Spec

(* The active session, to which read_from_spad_io writes and which decides
   whether SwitchFrames is sent, is never a window close_client has freed,
   and select waits on exactly the windows that the loop over the list serves. *)
THEOREM ListsAlwaysAgree == Spec => []ListsAgree
<1>1. ListInv => ListsAgree
  BY DEF ListInv, ListsAgree
<1> QED BY <1>1, ListInvariant, PTL

(***************************************************************************)
(* Queues of commands                                                      *)
(***************************************************************************)

(* A command of some kind is on its way. *)
Has(q, c) == \E i \in DOMAIN q : q[i].cmd = c

(* What is appended to a queue, and what is left when its head is taken. *)
LEMMA QueueItems ==
  ASSUME NEW S, NEW q \in Seq(S), NEW m \in S
  PROVE  /\ Len(q) \in Nat /\ DOMAIN q = 1..Len(q)
         /\ Append(q, m) \in Seq(S) /\ DOMAIN Append(q, m) = 1..(Len(q) + 1)
         /\ Len(Append(q, m)) = Len(q) + 1
         /\ \A i \in 1..(Len(q) + 1) : Append(q, m)[i] = IF i = Len(q) + 1 THEN m ELSE q[i]
<1>1. /\ Len(q) \in Nat /\ DOMAIN q = 1..Len(q)
      /\ Append(q, m) \in Seq(S) /\ Len(Append(q, m)) = Len(q) + 1
      /\ \A i \in 1..Len(q) : Append(q, m)[i] = q[i]
      /\ Append(q, m)[Len(q) + 1] = m
  BY AppendProperties
<1>2. DOMAIN Append(q, m) = 1..(Len(q) + 1)
  BY <1>1
<1>3. \A i \in 1..(Len(q) + 1) : i = Len(q) + 1 \/ i \in 1..Len(q)
  BY <1>1
<1> QED BY <1>1, <1>2, <1>3

(* The items of a queue, its head and its tail. *)
LEMMA HeadTailItems ==
  ASSUME NEW S, NEW q \in Seq(S), q # <<>>
  PROVE  /\ Len(q) \in Nat /\ Len(q) >= 1 /\ DOMAIN q = 1..Len(q)
         /\ Head(q) = q[1] /\ Head(q) \in S
         /\ Tail(q) \in Seq(S) /\ DOMAIN Tail(q) = 1..(Len(q) - 1)
         /\ Len(Tail(q)) = Len(q) - 1
         /\ \A i \in 1..(Len(q) - 1) : Tail(q)[i] = q[i + 1]
<1>1. Len(q) \in Nat /\ Len(q) >= 1 /\ DOMAIN q = 1..Len(q)
  OBVIOUS
<1>2. /\ Head(q) = q[1] /\ Head(q) \in S
      /\ Tail(q) \in Seq(S) /\ Len(Tail(q)) = Len(q) - 1
      /\ \A i \in 1..Len(Tail(q)) : Tail(q)[i] = q[i + 1]
  BY HeadTailProperties
<1> QED BY <1>1, <1>2

(* A queue that a message was appended to holds that message besides. *)
LEMMA HasAppend ==
  ASSUME NEW S, NEW q \in Seq(S), NEW m \in S, NEW c
  PROVE  Has(Append(q, m), c) <=> Has(q, c) \/ m.cmd = c
<1>1. /\ Len(q) \in Nat /\ DOMAIN q = 1..Len(q) /\ DOMAIN Append(q, m) = 1..(Len(q) + 1)
      /\ \A i \in 1..(Len(q) + 1) : Append(q, m)[i] = IF i = Len(q) + 1 THEN m ELSE q[i]
  BY QueueItems
<1> DEFINE p == Append(q, m)
<1> HIDE DEF p
<1>2. \A i \in DOMAIN q : i \in DOMAIN p /\ p[i] = q[i]
  BY <1>1 DEF p
<1>3. Len(q) + 1 \in DOMAIN p /\ p[Len(q) + 1] = m
  BY <1>1 DEF p
<1>4. \A i \in DOMAIN p : p[i] = m \/ (i \in DOMAIN q /\ p[i] = q[i])
  BY <1>1 DEF p
<1> QED BY <1>2, <1>3, <1>4 DEF Has, p

(* A tail holds nothing that the queue did not. *)
LEMMA HasTail ==
  ASSUME NEW S, NEW q \in Seq(S), q # <<>>, NEW c
  PROVE  Has(Tail(q), c) => Has(q, c)
<1>1. /\ Len(q) \in Nat /\ Len(q) >= 1 /\ DOMAIN q = 1..Len(q)
      /\ DOMAIN Tail(q) = 1..(Len(q) - 1)
      /\ \A i \in 1..(Len(q) - 1) : Tail(q)[i] = q[i + 1]
  BY HeadTailItems
<1>2. \A i \in DOMAIN Tail(q) : i + 1 \in DOMAIN q /\ Tail(q)[i] = q[i + 1]
  BY <1>1
<1> QED BY <1>2 DEF Has

(* A queue holds its head. *)
LEMMA HasHead ==
  ASSUME NEW S, NEW q \in Seq(S), q # <<>>
  PROVE  Has(q, Head(q).cmd)
<1>1. 1 \in DOMAIN q /\ Head(q) = q[1]
  OBVIOUS
<1> QED BY <1>1 DEF Has

(* The last command of a queue, and no other, is CreateFrame. *)
AskedLast(q) ==
  q # <<>> /\ \A i \in DOMAIN q : q[i].cmd = "CreateFrame" <=> i = Len(q)

(* The first CreateFrame of a queue that is appended is the last message. *)
LEMMA AskedLastAppend ==
  ASSUME NEW S, NEW q \in Seq(S), ~Has(q, "CreateFrame"), NEW m \in S, m.cmd = "CreateFrame"
  PROVE  AskedLast(Append(q, m))
<1>1. /\ Len(q) \in Nat /\ DOMAIN q = 1..Len(q) /\ DOMAIN Append(q, m) = 1..(Len(q) + 1)
      /\ Append(q, m) \in Seq(S) /\ Len(Append(q, m)) = Len(q) + 1
      /\ \A i \in 1..(Len(q) + 1) : Append(q, m)[i] = IF i = Len(q) + 1 THEN m ELSE q[i]
  BY QueueItems
<1> DEFINE p == Append(q, m)
<1> HIDE DEF p
<1>2. p # <<>>
  BY <1>1 DEF p
<1>3. \A i \in DOMAIN p : i = Len(q) + 1 \/ (i # Len(q) + 1 /\ i \in DOMAIN q)
  BY <1>1 DEF p
<1>4. \A i \in DOMAIN q : q[i].cmd # "CreateFrame"
  BY DEF Has
<1>5. \A i \in DOMAIN p : p[i].cmd = "CreateFrame" <=> i = Len(p)
  BY <1>1, <1>3, <1>4 DEF p
<1> QED BY <1>2, <1>5 DEF AskedLast, p

(* A CreateFrame that is last and is taken leaves nothing behind it. *)
LEMMA AskedLastTail ==
  ASSUME NEW S, NEW q \in Seq(S), AskedLast(q)
  PROVE  /\ Head(q).cmd = "CreateFrame" => Tail(q) = <<>>
         /\ Head(q).cmd # "CreateFrame" => AskedLast(Tail(q))
<1>1. q # <<>> /\ \A i \in DOMAIN q : q[i].cmd = "CreateFrame" <=> i = Len(q)
  BY DEF AskedLast
<1>2. /\ Len(q) \in Nat /\ Len(q) >= 1 /\ DOMAIN q = 1..Len(q) /\ Head(q) = q[1]
      /\ DOMAIN Tail(q) = 1..(Len(q) - 1) /\ Len(Tail(q)) = Len(q) - 1
      /\ Tail(q) \in Seq(S)
      /\ \A i \in 1..(Len(q) - 1) : Tail(q)[i] = q[i + 1]
  BY <1>1, HeadTailItems
<1>3. Head(q).cmd = "CreateFrame" <=> Len(q) = 1
  BY <1>1, <1>2
<1>4. Len(q) = 1 => Tail(q) = <<>>
  BY <1>2
<1>5. ASSUME Len(q) # 1 PROVE AskedLast(Tail(q))
  <2>1. Tail(q) # <<>>
    BY <1>2, <1>5
  <2>2. \A i \in DOMAIN Tail(q) : i + 1 \in DOMAIN q /\ (i + 1 = Len(q) <=> i = Len(Tail(q)))
    BY <1>2
  <2> QED BY <1>1, <1>2, <2>1, <2>2 DEF AskedLast
<1> QED BY <1>3, <1>4, <1>5

(* The number of frame f is on its way, once, and nothing behind it closes a
   client.                                                                 *)
GivenIn(q, f) ==
  \E i \in DOMAIN q :
    /\ q[i].cmd = "NewFrame" /\ q[i].frame = f
    /\ \A j \in DOMAIN q : /\ q[j].cmd = "NewFrame" => j = i
                           /\ q[j].cmd = "CloseClient" => j < i

(* The frame given by a NewFrame that is appended. *)
LEMMA GivenStart ==
  ASSUME NEW S, NEW q \in Seq(S), ~Has(q, "NewFrame"), NEW m \in S, m.cmd = "NewFrame"
  PROVE  GivenIn(Append(q, m), m.frame)
<1>1. /\ Len(q) \in Nat /\ DOMAIN q = 1..Len(q) /\ DOMAIN Append(q, m) = 1..(Len(q) + 1)
      /\ \A i \in 1..(Len(q) + 1) : Append(q, m)[i] = IF i = Len(q) + 1 THEN m ELSE q[i]
  BY QueueItems
<1> DEFINE p == Append(q, m)
<1> HIDE DEF p
<1>2. Len(q) + 1 \in DOMAIN p /\ p[Len(q) + 1] = m
  BY <1>1 DEF p
<1>3. \A j \in DOMAIN p : j = Len(q) + 1 \/ (j < Len(q) + 1 /\ j \in DOMAIN q /\ p[j] = q[j])
  BY <1>1 DEF p
<1>4. \A j \in DOMAIN q : q[j].cmd # "NewFrame"
  BY DEF Has
<1>5. \A j \in DOMAIN p : /\ p[j].cmd = "NewFrame" => j = Len(q) + 1
                          /\ p[j].cmd = "CloseClient" => j < Len(q) + 1
  BY <1>2, <1>3, <1>4
<1> QED BY <1>2, <1>5 DEF GivenIn, p

(* Messages behind a NewFrame do not change the frame it gives. *)
LEMMA GivenAppend ==
  ASSUME NEW S, NEW q \in Seq(S), NEW f, GivenIn(q, f), NEW m \in S,
         m.cmd \notin {"NewFrame", "CloseClient"}
  PROVE  GivenIn(Append(q, m), f)
<1>1. /\ Len(q) \in Nat /\ DOMAIN q = 1..Len(q) /\ DOMAIN Append(q, m) = 1..(Len(q) + 1)
      /\ \A i \in 1..(Len(q) + 1) : Append(q, m)[i] = IF i = Len(q) + 1 THEN m ELSE q[i]
  BY QueueItems
<1> DEFINE p == Append(q, m)
<1> HIDE DEF p
<1>2. \A i \in DOMAIN q : i \in DOMAIN p /\ p[i] = q[i]
  BY <1>1 DEF p
<1>3. \A j \in DOMAIN p : p[j] = m \/ (j \in DOMAIN q /\ p[j] = q[j])
  BY <1>1 DEF p
<1> QED BY <1>2, <1>3 DEF GivenIn, p

(* The NewFrame that is taken gives the frame that was on its way. *)
LEMMA GivenTaken ==
  ASSUME NEW S, NEW q \in Seq(S), NEW f, GivenIn(q, f), Head(q).cmd = "NewFrame"
  PROVE  Head(q).frame = f /\ ~Has(Tail(q), "NewFrame") /\ ~Has(Tail(q), "CloseClient")
<1>1. PICK i \in DOMAIN q :
        /\ q[i].cmd = "NewFrame" /\ q[i].frame = f
        /\ \A j \in DOMAIN q : /\ q[j].cmd = "NewFrame" => j = i
                               /\ q[j].cmd = "CloseClient" => j < i
  BY DEF GivenIn
<1>2. q # <<>>
  BY <1>1
<1>3. /\ Len(q) \in Nat /\ Len(q) >= 1 /\ DOMAIN q = 1..Len(q) /\ Head(q) = q[1]
      /\ DOMAIN Tail(q) = 1..(Len(q) - 1)
      /\ \A j \in 1..(Len(q) - 1) : Tail(q)[j] = q[j + 1]
  BY <1>2, HeadTailItems
<1>4. i = 1
  BY <1>1, <1>3
<1>5. \A j \in DOMAIN Tail(q) : /\ j + 1 \in DOMAIN q /\ j + 1 # i /\ ~(j + 1 < i)
                                /\ Tail(q)[j] = q[j + 1]
  BY <1>3, <1>4
<1>6. \A j \in DOMAIN Tail(q) : Tail(q)[j].cmd \notin {"NewFrame", "CloseClient"}
  BY <1>1, <1>5
<1> QED BY <1>1, <1>3, <1>4, <1>6 DEF Has

(***************************************************************************)
(* The frames of the windows                                               *)
(***************************************************************************)

(* The listed windows that have been given a frame. *)
Framed == IF pc = "frame" THEN Listed \ {plSock[1]} ELSE Listed

(* While accept waits for the number of a frame, the request for it is the
   last thing Lisp was sent, or else Lisp has answered, is still in that
   frame, and has closed no client since.                                  *)
FrameAsked == AskedLast(toLisp) /\ ~Has(fromLisp, "NewFrame")

FrameGiven ==
  /\ toLisp = <<>>
  /\ GivenIn(fromLisp, currentFrameNum)
  /\ currentFrameNum < frameNumber
  /\ \A w \in Framed : frame[w] # currentFrameNum

FrameProtocol ==
  /\ pc = "run" => ~Has(toLisp, "CreateFrame") /\ ~Has(fromLisp, "NewFrame")
  /\ pc = "frame" => FrameAsked \/ FrameGiven

(* Frames of different windows differ, and are frames that Lisp has made. *)
FramesOnce ==
  pc \in {"run", "frame"} =>
    /\ \A w \in Framed : frame[w] < frameNumber
    /\ \A v, w \in Framed : frame[v] = frame[w] => v = w

FrameInv == FrameProtocol /\ FramesOnce

(* The types that the proofs below need. *)
LEMMA FrameTypes ==
  ASSUME TypeInv
  PROVE  /\ toLisp \in Seq(ToLisp) /\ fromLisp \in Seq(FromLisp)
         /\ plSock \in Seq(Window) /\ frame \in [Window -> Nat]
         /\ frameNumber \in Nat /\ currentFrameNum \in Nat
         /\ Listed \subseteq Window
         /\ pc = "frame" => plSock # <<>>
<1>1. toLisp \in Seq(ToLisp) /\ fromLisp \in Seq(FromLisp)
  BY DEF TypeInv, TypeOK, ChannelsTypeOK
<1>2. plSock \in Seq(Window) /\ frame \in [Window -> Nat]
  BY DEF TypeInv, TypeOK, SessionTypeOK, Frame
<1>3. frameNumber \in Nat /\ currentFrameNum \in Nat
  BY DEF TypeInv, TypeOK, LispTypeOK, Frame
<1>4. pc = "frame" => plSock # <<>>
  BY DEF TypeInv, FrameAwaited
<1>5. Listed \subseteq Window
  BY <1>2 DEF Listed, Range
<1> QED BY <1>1, <1>2, <1>3, <1>4, <1>5

(* A step that leaves the frames and the protocol alone. *)
LEMMA FramesUntouched ==
  ASSUME FrameInv,
         UNCHANGED <<toLisp, fromLisp, plSock, frame, frameNumber, currentFrameNum, pc>>
  PROVE  FrameInv'
BY DEF FrameInv, FrameProtocol, FramesOnce, FrameAsked, FrameGiven, Framed, Listed

(* A step after which the manager has stopped. *)
LEMMA FramesOver ==
  ASSUME pc' \notin {"run", "frame"}
  PROVE  FrameInv'
BY DEF FrameInv, FrameProtocol, FramesOnce

(* A step of the manager outside accept. *)
LEMMA FramesWhileRunning ==
  ASSUME FrameInv, pc = "run", pc' = "run", Listed' \subseteq Listed,
         UNCHANGED <<frame, frameNumber>>,
         ~Has(toLisp', "CreateFrame"), ~Has(fromLisp', "NewFrame")
  PROVE  FrameInv'
BY DEF FrameInv, FrameProtocol, FramesOnce, Framed

(* accept_session_connection: a window is listed and a frame is asked for. *)
LEMMA FrameIsAsked ==
  ASSUME TypeInv, ListInv, FrameInv, UNCHANGED lispVars, NEW w \in Window, AcceptInterpWindow(w)
  PROVE  FrameInv'
<1>1. /\ pc = "run" /\ pc' = "frame" /\ plSock' = <<w>> \o plSock /\ w \notin Listed
      /\ toLisp' = Append(toLisp, [cmd |-> "CreateFrame"]) /\ UNCHANGED <<fromLisp, frame>>
  <2>1. peer[w] = "connecting"
    BY DEF AcceptInterpWindow, AcceptWindow
  <2>2. w \notin Listed
    BY <2>1 DEF ListInv, ListWellFormed
  <2> QED BY <2>2 DEF AcceptInterpWindow, AcceptWindow, ServerTurn
<1>2. toLisp \in Seq(ToLisp) /\ [cmd |-> "CreateFrame"] \in ToLisp /\ plSock \in Seq(Window)
  BY FrameTypes DEF ToLisp
<1>3. AskedLast(toLisp') /\ ~Has(fromLisp', "NewFrame")
  BY <1>1, <1>2, AskedLastAppend DEF FrameInv, FrameProtocol
<1>4. /\ DOMAIN plSock' = 1..(Len(plSock) + 1) /\ DOMAIN plSock = 1..Len(plSock)
      /\ Len(plSock) \in Nat
      /\ \A i \in 1..(Len(plSock) + 1) : plSock'[i] = IF i = 1 THEN w ELSE plSock[i - 1]
  BY <1>1, <1>2, FrontItems
<1>5. Framed' \subseteq Listed
  <2>1. ASSUME NEW i \in DOMAIN plSock', plSock'[i] # plSock'[1]
        PROVE  i - 1 \in DOMAIN plSock /\ plSock'[i] = plSock[i - 1]
    BY <1>4, <2>1
  <2> QED BY <1>1, <2>1 DEF Framed, Listed, Range
<1>6. FramesOnce'
  BY <1>1, <1>5 DEF FrameInv, FramesOnce, Framed, lispVars
<1> QED BY <1>1, <1>3, <1>6 DEF FrameInv, FrameProtocol, FrameAsked

(* The number of the frame comes, and it is a new one. *)
LEMMA FrameIsTaken ==
  ASSUME TypeInv, FrameInv, UNCHANGED lispVars, AcceptFrameReply
  PROVE  /\ FrameInv'
         /\ pc = "frame" /\ pc' = "run" /\ active_session' = plSock[1]
         /\ frame' = [frame EXCEPT ![plSock[1]] = currentFrameNum]
         /\ toLisp' = <<>> /\ ~Has(fromLisp', "CloseClient")
<1>1. /\ pc = "frame" /\ pc' = "run" /\ fromLisp # <<>> /\ Head(fromLisp).cmd = "NewFrame"
      /\ fromLisp' = Tail(fromLisp) /\ UNCHANGED <<toLisp, plSock>>
      /\ active_session' = plSock[1]
      /\ frame' = [frame EXCEPT ![plSock[1]] = Head(fromLisp).frame]
  BY DEF AcceptFrameReply
<1>2. /\ fromLisp \in Seq(FromLisp) /\ plSock # <<>> /\ plSock \in Seq(Window)
      /\ frame \in [Window -> Nat]
  BY <1>1, FrameTypes
<1>3. Has(fromLisp, "NewFrame")
  BY <1>1, <1>2, HasHead
<1>4. FrameGiven
  BY <1>1, <1>3 DEF FrameInv, FrameProtocol, FrameAsked
<1>5. /\ Head(fromLisp).frame = currentFrameNum
      /\ ~Has(Tail(fromLisp), "NewFrame") /\ ~Has(Tail(fromLisp), "CloseClient")
  BY <1>1, <1>2, <1>4, GivenTaken DEF FrameGiven
<1>6. toLisp' = <<>> /\ ~Has(toLisp', "CreateFrame")
  BY <1>1, <1>4 DEF FrameGiven, Has
<1>7. /\ plSock[1] \in Window
      /\ \A v \in Window : frame'[v] = IF v = plSock[1] THEN currentFrameNum ELSE frame[v]
  BY <1>1, <1>2, <1>5
<1>8. Framed' = Listed /\ Listed \subseteq Window /\ Framed = Listed \ {plSock[1]}
  BY <1>1, FrameTypes DEF Framed, Listed
<1>9. UNCHANGED <<frameNumber, currentFrameNum>>
  BY DEF lispVars
<1>10. FramesOnce'
  <2>1. /\ \A v \in Framed : frame[v] < frameNumber /\ frame[v] # currentFrameNum
        /\ \A u, v \in Framed : frame[u] = frame[v] => u = v
        /\ currentFrameNum < frameNumber
    BY <1>1, <1>4 DEF FrameInv, FramesOnce, FrameGiven
  <2>2. \A v \in Listed : frame'[v] < frameNumber
    BY <1>7, <1>8, <2>1
  <2>3. \A u, v \in Listed : frame'[u] = frame'[v] => u = v
    BY <1>7, <1>8, <2>1
  <2> QED BY <1>8, <1>9, <2>2, <2>3 DEF FramesOnce
<1> QED BY <1>1, <1>5, <1>6, <1>10 DEF FrameInv, FrameProtocol

(* The other handlers of the manager ask for no frame. *)
LEMMA SessionNextFrameInv ==
  ASSUME TypeInv, ListInv, FrameInv, UNCHANGED lispVars, SessionNext
  PROVE  FrameInv'
<1>1. /\ toLisp \in Seq(ToLisp) /\ fromLisp \in Seq(FromLisp) /\ plSock \in Seq(Window)
      /\ frame \in [Window -> Nat] /\ Listed \subseteq Window
  BY FrameTypes
<1>2. UNCHANGED <<frameNumber, currentFrameNum>>
  BY DEF lispVars
<1>3. CASE UNCHANGED <<toLisp, fromLisp, plSock, frame, pc>>
  BY <1>2, <1>3, FramesUntouched
<1>4. ASSUME pc = "run", pc' = "run", UNCHANGED <<fromLisp, plSock, frame>>,
             NEW m \in ToLisp, m.cmd # "CreateFrame", toLisp' \in {toLisp, Append(toLisp, m)}
      PROVE  FrameInv'
  <2>1. ~Has(toLisp', "CreateFrame") /\ ~Has(fromLisp', "NewFrame")
    BY <1>1, <1>4, HasAppend DEF FrameInv, FrameProtocol
  <2> QED BY <1>2, <1>4, <2>1, FramesWhileRunning DEF Listed
<1>5. ASSUME pc = "run", pc' = "run", UNCHANGED frame, Listed' \subseteq Listed,
             fromLisp # <<>>, fromLisp' = Tail(fromLisp),
             NEW m \in ToLisp, m.cmd # "CreateFrame", toLisp' \in {toLisp, Append(toLisp, m)}
      PROVE  FrameInv'
  <2>1. ~Has(toLisp', "CreateFrame")
    BY <1>1, <1>5, HasAppend DEF FrameInv, FrameProtocol
  <2>2. ~Has(fromLisp', "NewFrame")
    BY <1>1, <1>5, HasTail DEF FrameInv, FrameProtocol
  <2> QED BY <1>2, <1>5, <2>1, <2>2, FramesWhileRunning
<1>6. CASE MenuSwitchFrames
  <2>1. Head(menuReq) \in MenuReq /\ Head(menuReq).cmd = "SwitchFrames"
    BY <1>6 DEF MenuSwitchFrames, TypeInv, TypeOK, ChannelsTypeOK
  <2>2. Head(menuReq) \in ToLisp
    BY <2>1, SwitchIsForwardable
  <2>3. /\ pc = "run" /\ pc' = "run" /\ UNCHANGED <<fromLisp, plSock, frame>>
        /\ toLisp' = Append(toLisp, Head(menuReq))
    BY <1>6 DEF MenuSwitchFrames, MenuTurn
  <2> QED BY <1>4, <2>1, <2>2, <2>3
<1>7. ASSUME NEW w \in Window, read_from_session(w) \/ SessionEof(w)
      PROVE  FrameInv'
  <2>1. [cmd |-> "SwitchFrames", frame |-> frame[w]] \in ToLisp
    BY <1>1 DEF ToLisp, Frame
  <2>2. /\ pc = "run" /\ pc' = "run" /\ UNCHANGED <<fromLisp, plSock, frame>>
        /\ toLisp' \in {toLisp, Append(toLisp, [cmd |-> "SwitchFrames", frame |-> frame[w]])}
    BY <1>7 DEF read_from_session, ReadFromSession, SessionEof, WindowTurn, SwitchTo
  <2> QED BY <1>4, <2>1, <2>2
<1>8. CASE EndOfOutput
  <2>1. [cmd |-> "SwitchFrames", frame |-> 0] \in ToLisp
    BY DEF ToLisp, Frame
  <2>2. /\ pc = "run" /\ pc' = "run" /\ UNCHANGED <<toLisp, plSock, frame>>
        /\ fromLisp # <<>> /\ fromLisp' = Tail(fromLisp)
    BY <1>8 DEF EndOfOutput, EndOfOutputThen, SpadTurn
  <2> QED BY <1>5, <2>1, <2>2 DEF Listed
<1>9. CASE QueryClients
  <2>1. [cmd |-> "NumClients", num |-> num_active_clients] \in ToLisp
    BY DEF ToLisp, TypeInv, TypeOK, SessionTypeOK
  <2>2. /\ pc = "run" /\ pc' = "run" /\ UNCHANGED <<plSock, frame>>
        /\ fromLisp # <<>> /\ fromLisp' = Tail(fromLisp)
        /\ toLisp' = Append(toLisp, [cmd |-> "NumClients", num |-> num_active_clients])
    BY <1>9 DEF QueryClients, SpadTurn
  <2> QED BY <1>5, <2>1, <2>2 DEF Listed
<1>10. CASE close_client
  <2>1. /\ pc = "run" /\ UNCHANGED <<frame, toLisp>>
        /\ fromLisp # <<>> /\ fromLisp' = Tail(fromLisp)
    BY <1>10 DEF close_client, SpadTurn
  <2>2. CASE pc' = "crashed"
    BY <2>2, FramesOver
  <2>3. Listed' \subseteq Listed
    <3>1. CASE UNCHANGED plSock
      BY <3>1 DEF Listed
    <3>2. ASSUME NEW i \in DOMAIN plSock, CloseFound(i) PROVE Listed' \subseteq Listed
      <4>1. Range(plSock') = Range(plSock) \ {plSock[i]}
        BY <1>1, <3>2, RemoveAtInjective DEF CloseFound, CloseFoundWith, ListInv, ListWellFormed
      <4> QED BY <4>1 DEF Listed
    <3> QED BY <1>10, <3>1, <3>2 DEF close_client
  <2>4. pc' \in {"run", "crashed"}
    BY <1>10, <2>1 DEF close_client, CloseFound, CloseFoundWith
  <2>5. [cmd |-> "SwitchFrames", frame |-> 0] \in ToLisp
    BY DEF ToLisp, Frame
  <2> QED BY <1>5, <2>1, <2>2, <2>3, <2>4, <2>5
<1>11. CASE SelectFails \/ AcceptKillSpad \/ AcceptMisread
  BY <1>11, FramesOver DEF SelectFails, AcceptKillSpad, KillSpad, AcceptMisread
<1>12. CASE Select \/ MenuClosed \/ MenuQuerySpad \/ read_from_spad_io \/ AcceptMenu
             \/ \E w \in Window : SkipWindow(w)
  BY <1>3, <1>12
  DEF Select, MenuClosed, MenuCloses, MenuQuerySpad, read_from_spad_io, AcceptMenu, SkipWindow,
      channels, lispSocket
<1> QED
  BY <1>6, <1>7, <1>8, <1>9, <1>10, <1>11, <1>12, FrameIsAsked, FrameIsTaken DEF SessionNext

(* Lisp makes the frame that is asked for, and sends its number. *)
LEMMA FrameIsMade ==
  ASSUME TypeInv, FrameInv, UNCHANGED sessionVars, CreateFrame, ~Final
  PROVE  FrameInv'
<1>1. /\ toLisp # <<>> /\ Head(toLisp).cmd = "CreateFrame" /\ toLisp' = Tail(toLisp)
      /\ currentFrameNum' = frameNumber /\ frameNumber' = frameNumber + 1
      /\ fromLisp' = Append(fromLisp, [cmd |-> "NewFrame", frame |-> frameNumber])
  BY DEF CreateFrame, CreateFrameAs
<1>2. /\ toLisp \in Seq(ToLisp) /\ fromLisp \in Seq(FromLisp) /\ frameNumber \in Nat
      /\ frame \in [Window -> Nat] /\ Listed \subseteq Window
      /\ [cmd |-> "NewFrame", frame |-> frameNumber] \in FromLisp
  BY FrameTypes DEF FromLisp, Frame
<1>3. Has(toLisp, "CreateFrame")
  BY <1>1, <1>2, HasHead
<1>4. pc \in {"run", "frame"}
  BY DEF Final, TypeInv, TypeOK, SessionTypeOK
<1>5. pc = "frame" /\ FrameAsked
  BY <1>1, <1>3, <1>4 DEF FrameInv, FrameProtocol, FrameGiven
<1>6. toLisp' = <<>>
  BY <1>1, <1>2, <1>5, AskedLastTail DEF FrameAsked
<1>7. GivenIn(fromLisp', currentFrameNum')
  BY <1>1, <1>2, <1>5, GivenStart, SMTT(30) DEF FrameAsked
<1>8. UNCHANGED <<pc, frame>> /\ Framed' = Framed /\ Framed \subseteq Window
  BY <1>2 DEF sessionVars, Framed, Listed
<1>9. \A w \in Framed : frame[w] < frameNumber /\ frame[w] \in Nat
  BY <1>2, <1>4, <1>8 DEF FrameInv, FramesOnce
<1>10. FrameGiven'
  BY <1>1, <1>2, <1>6, <1>7, <1>8, <1>9 DEF FrameGiven
<1>11. FramesOnce'
  BY <1>1, <1>2, <1>5, <1>8, <1>9 DEF FrameInv, FramesOnce
<1> QED BY <1>5, <1>8, <1>10, <1>11 DEF FrameInv, FrameProtocol

(* Lisp takes another command, or sends one. *)
LEMMA LispNextFrameInv ==
  ASSUME TypeInv, FrameInv, UNCHANGED sessionVars, LispNext, ~Final
  PROVE  FrameInv'
<1>1. /\ toLisp \in Seq(ToLisp) /\ fromLisp \in Seq(FromLisp)
      /\ currentFrameNum \in Nat /\ frameNumber \in Nat
  BY FrameTypes
<1>2. UNCHANGED <<pc, frame, plSock>> /\ Framed' = Framed
  BY DEF sessionVars, Framed, Listed
<1>3. pc \in {"run", "frame"}
  BY DEF Final, TypeInv, TypeOK, SessionTypeOK
<1>4. CASE UNCHANGED <<toLisp, fromLisp, frameNumber, currentFrameNum>>
  BY <1>2, <1>4, FramesUntouched
<1>5. ASSUME UNCHANGED frameNumber
      PROVE  FramesOnce'
  BY <1>2, <1>5 DEF FrameInv, FramesOnce
<1>6. ASSUME NEW m \in FromLisp, m.cmd \notin {"NewFrame", "CloseClient"},
             fromLisp' = Append(fromLisp, m),
             UNCHANGED <<toLisp, frameNumber, currentFrameNum>>
      PROVE  FrameInv'
  <2>1. Has(fromLisp', "NewFrame") <=> Has(fromLisp, "NewFrame")
    BY <1>1, <1>6, HasAppend
  <2>2. FrameAsked => FrameAsked'
    BY <1>6, <2>1 DEF FrameAsked
  <2>3. FrameGiven => FrameGiven'
    BY <1>1, <1>2, <1>6, GivenAppend DEF FrameGiven
  <2> QED BY <1>2, <1>5, <1>6, <2>1, <2>2, <2>3 DEF FrameInv, FrameProtocol
<1>7. ASSUME NEW m \in FromLisp, m.cmd # "NewFrame",
             fromLisp' \in {fromLisp, Append(fromLisp, m)},
             toLisp # <<>>, Head(toLisp).cmd # "CreateFrame", toLisp' = Tail(toLisp),
             UNCHANGED frameNumber
      PROVE  FrameInv'
  <2>1. Has(fromLisp', "NewFrame") <=> Has(fromLisp, "NewFrame")
    <3>1. Has(Append(fromLisp, m), "NewFrame") <=> Has(fromLisp, "NewFrame")
      BY <1>1, <1>7, HasAppend
    <3> QED BY <1>7, <3>1
  <2>2. Has(toLisp', "CreateFrame") => Has(toLisp, "CreateFrame")
    BY <1>1, <1>7, HasTail
  <2>3. FrameAsked => FrameAsked'
    BY <1>1, <1>7, <2>1, AskedLastTail DEF FrameAsked
  <2>4. ~FrameGiven
    BY <1>7 DEF FrameGiven
  <2> QED BY <1>2, <1>5, <1>7, <2>1, <2>2, <2>3, <2>4 DEF FrameInv, FrameProtocol
<1>8. /\ [cmd |-> "EndOfOutput"] \in FromLisp /\ [cmd |-> "QueryClients"] \in FromLisp
      /\ CloseMsg \in FromLisp
  BY <1>1 DEF FromLisp, CloseMsg, Frame
<1>9. CASE SignalEndOfOutput
  BY <1>6, <1>8, <1>9 DEF SignalEndOfOutput
<1>10. CASE queryClients
  BY <1>6, <1>8, <1>10 DEF queryClients
<1>11. CASE SwitchFrames
  BY <1>7, <1>8, <1>11 DEF SwitchFrames
<1>12. CASE Close
  <2>1. fromLisp \o <<CloseMsg>> = Append(fromLisp, CloseMsg)
    BY <1>1, <1>8
  <2>2. CloseMsg.cmd = "CloseClient"
    BY DEF CloseMsg
  <2> QED BY <1>7, <1>8, <1>12, <2>1, <2>2 DEF Close, CloseSending
<1>13. CASE CallInterp \/ MenuCommand \/ Evaluate \/ CountMisread
  BY <1>4, <1>13
  DEF CallInterp, MenuCommand, Evaluate, CountMisread, channels, lispSocket
<1> QED
  BY <1>9, <1>10, <1>11, <1>12, <1>13, FrameIsMade DEF LispNext

(* Every step keeps the agreement of frames, given that of the list. *)
LEMMA FrameInvInductive == TypeInv /\ ListInv /\ FrameInv /\ [Next]_vars => FrameInv'
<1> SUFFICES ASSUME TypeInv, ListInv, FrameInv, [Next]_vars PROVE FrameInv'
  OBVIOUS
<1>1. CASE UNCHANGED <<lispSocket, plSock, frame, frameNumber, currentFrameNum, pc>>
  BY <1>1, FramesUntouched DEF lispSocket
<1>2. CASE ~Final /\ SessionNext /\ UNCHANGED <<lispVars, useVars>>
  BY <1>2, SessionNextFrameInv
<1>3. CASE ~Final /\ LispNext /\ UNCHANGED <<sessionVars, useVars>>
  BY <1>3, LispNextFrameInv
<1>4. CASE RelayNext /\ UNCHANGED <<sessionVars, lispVars, useVars>>
  BY <1>1, <1>4 DEF RelayNext, read_from_manager, relay_spad_io, sessionVars, lispVars
<1>5. CASE UserNext /\ UNCHANGED <<sessionVars, lispVars>>
  BY <1>1, <1>5 DEF UserNext, Connect, PeerDies, Type, sessionVars, lispVars
<1>6. CASE MenuNext /\ UNCHANGED sessionVars
  BY <1>1, <1>6 DEF MenuNext, sessionVars
<1>7. CASE UNCHANGED vars
  BY <1>1, <1>7 DEF vars, channels, sessionVars, lispVars
<1> QED BY <1>2, <1>3, <1>4, <1>5, <1>6, <1>7 DEF Next, SystemNext, EnvNext

(* No two windows the manager serves have one frame number, whatever comes
   between the request for a frame and its answer, and whoever dies: the
   manager's searches by frame (close_client, read_menu_client_command) find
   the window that was meant.                                              *)
THEOREM FrameInvariant == Spec => []FrameInv
<1>1. Init => FrameInv
  <2> SUFFICES ASSUME Init PROVE FrameInv
    OBVIOUS
  <2>1. toLisp = <<>> /\ fromLisp = <<>> /\ pc = "run" /\ Framed = {}
    BY DEF Init, ChannelsInit, SessionInit, Framed, Listed, Range
  <2> QED BY <2>1 DEF FrameInv, FrameProtocol, FramesOnce, Has
<1> QED BY <1>1, TypeInvariant, ListInvariant, FrameInvInductive, PTL DEF Spec

(***************************************************************************)
(* Lisp follows the active session                                         *)
(***************************************************************************)

(* Without HyperDoc there are no requests of it. *)
NoRequests == MenuMoves = 0 => menuReq = <<>>

(* HyperDoc names frames whose windows have gone, and then Lisp is told to go
   to a frame that no window has.                                          *)
Deserted(f) == \A w \in Listed : frame[w] # f
Astray == MenuMoves # 0 /\ \E f \in Frame : WillBeIn(f) /\ Deserted(f)

Follows ==
  pc = "run" /\ active_session # Null => WillBeIn(frame[active_session]) \/ Astray

FollowInv == NoRequests /\ Follows

(* WillBeIn of any queue and any frame. *)
Becomes(q, cur, f) ==
  \/ /\ \A i \in DOMAIN q : q[i].cmd # "SwitchFrames"
     /\ cur = f
  \/ \E i \in DOMAIN q :
       /\ q[i].cmd = "SwitchFrames" /\ q[i].frame = f
       /\ \A j \in DOMAIN q : j > i => q[j].cmd # "SwitchFrames"

(* What the current frame becomes when a message is appended. *)
LEMMA BecomesAppended ==
  ASSUME NEW S, NEW q \in Seq(S), NEW m \in S, NEW cur, NEW f
  PROVE  /\ m.cmd = "SwitchFrames" => Becomes(Append(q, m), cur, m.frame)
         /\ m.cmd # "SwitchFrames" /\ Becomes(q, cur, f) => Becomes(Append(q, m), cur, f)
<1> DEFINE p == Append(q, m)
<1>1. /\ Len(q) \in Nat /\ DOMAIN q = 1..Len(q) /\ DOMAIN p = 1..(Len(q) + 1)
      /\ \A i \in 1..(Len(q) + 1) : p[i] = IF i = Len(q) + 1 THEN m ELSE q[i]
  BY QueueItems
<1> HIDE DEF p
<1>2. Len(q) + 1 \in DOMAIN p /\ p[Len(q) + 1] = m /\ \A j \in DOMAIN p : ~(j > Len(q) + 1)
  BY <1>1
<1>3. \A i \in DOMAIN q : i \in DOMAIN p /\ p[i] = q[i]
  BY <1>1
<1>4. \A j \in DOMAIN p : p[j] = m \/ (j \in DOMAIN q /\ p[j] = q[j])
  BY <1>1
<1>5. m.cmd = "SwitchFrames" => Becomes(p, cur, m.frame)
  BY <1>2 DEF Becomes
<1>6. m.cmd # "SwitchFrames" /\ Becomes(q, cur, f) => Becomes(p, cur, f)
  BY <1>3, <1>4 DEF Becomes
<1> QED BY <1>5, <1>6 DEF p

(* What the current frame becomes when the first message is taken. *)
LEMMA BecomesTaken ==
  ASSUME NEW S, NEW q \in Seq(S), q # <<>>, NEW cur, NEW f, Becomes(q, cur, f)
  PROVE  /\ Head(q).cmd = "SwitchFrames" => Becomes(Tail(q), Head(q).frame, f)
         /\ Head(q).cmd # "SwitchFrames" => Becomes(Tail(q), cur, f)
<1> DEFINE p == Tail(q)
           h == Head(q)
<1>1. /\ Len(q) \in Nat /\ DOMAIN q = 1..Len(q) /\ DOMAIN p = 1..(Len(q) - 1) /\ h = q[1]
      /\ \A i \in 1..(Len(q) - 1) : p[i] = q[i + 1]
  BY HeadTailItems
<1> HIDE DEF p, h
<1>2. \A j \in DOMAIN p : j + 1 \in DOMAIN q /\ p[j] = q[j + 1] /\ j + 1 > 1
  BY <1>1
<1>3. CASE \A i \in DOMAIN q : q[i].cmd # "SwitchFrames"
  <2>1. cur = f /\ \A i \in DOMAIN p : p[i].cmd # "SwitchFrames"
    BY <1>2, <1>3 DEF Becomes
  <2>2. h.cmd # "SwitchFrames"
    BY <1>1, <1>3, 1 \in DOMAIN q
  <2> QED BY <2>1, <2>2 DEF Becomes, p, h
<1>4. ASSUME NEW i \in DOMAIN q, q[i].cmd = "SwitchFrames", q[i].frame = f,
             \A j \in DOMAIN q : j > i => q[j].cmd # "SwitchFrames"
      PROVE  /\ h.cmd = "SwitchFrames" => Becomes(p, h.frame, f)
             /\ h.cmd # "SwitchFrames" => Becomes(p, cur, f)
  <2>1. CASE i = 1
    <3>1. h.cmd = "SwitchFrames" /\ h.frame = f
      BY <1>1, <1>4, <2>1
    <3>2. \A j \in DOMAIN p : p[j].cmd # "SwitchFrames"
      BY <1>2, <1>4, <2>1
    <3> QED BY <3>1, <3>2 DEF Becomes
  <2>2. CASE i # 1
    <3>1. i - 1 \in DOMAIN p /\ p[i - 1] = q[i]
      BY <1>1, <2>2
    <3>2. \A j \in DOMAIN p : j > i - 1 => j + 1 > i
      BY <1>1
    <3>3. \A j \in DOMAIN p : j > i - 1 => p[j].cmd # "SwitchFrames"
      BY <1>2, <1>4, <3>2
    <3> QED BY <1>4, <3>1, <3>3 DEF Becomes
  <2> QED BY <2>1, <2>2
<1> QED BY <1>3, <1>4 DEF Becomes, p, h

(* The manager sends SwitchFrames whenever it changes the active session, and
   what HyperDoc names is the active window's frame afterwards, or nobody's. *)
LEMMA SessionNextFollowInv ==
  ASSUME TypeInv, ListInv, FrameInv, FollowInv, UNCHANGED lispVars, SessionNext
  PROVE  FollowInv'
<1>1. /\ toLisp \in Seq(ToLisp) /\ fromLisp \in Seq(FromLisp)
      /\ frame \in [Window -> Nat] /\ Listed \subseteq Window /\ plSock \in Seq(Window)
  BY FrameTypes
<1>2. NoRequests
  BY DEF FollowInv
<1>3. NoRequests'
  BY <1>2
  DEF NoRequests, SessionNext, Select, SelectFails, MenuClosed, MenuCloses, MenuSwitchFrames, MenuQuerySpad,
      read_from_spad_io, AcceptMenu, AcceptKillSpad, KillSpad, AcceptFrameReply, AcceptMisread,
      AcceptInterpWindow, AcceptWindow, SkipWindow, read_from_session, ReadFromSession,
      SessionEof, EndOfOutput, EndOfOutputThen, QueryClients, close_client, channels, menuSocket
<1>4. SUFFICES Follows'
  BY <1>3 DEF FollowInv
<1>5. \A f : WillBeIn(f) <=> Becomes(toLisp, currentFrameNum, f)
  BY DEF WillBeIn, Becomes
<1>6. \A f : WillBeIn(f)' <=> Becomes(toLisp', currentFrameNum, f)
  BY DEF WillBeIn, Becomes, lispVars
<1>7. CASE pc' # "run" \/ active_session' = Null
  BY <1>7 DEF Follows
<1>8. ASSUME pc = "run", UNCHANGED <<active_session, plSock, frame>>,
             \A f \in Frame : Becomes(toLisp, currentFrameNum, f)
                              => Becomes(toLisp', currentFrameNum, f)
      PROVE  Follows'
  <2> SUFFICES ASSUME pc' = "run", active_session' # Null
               PROVE  (WillBeIn(frame[active_session]) \/ Astray)'
    BY DEF Follows
  <2>1. active_session \in Window /\ frame[active_session] \in Frame
    BY <1>1, <1>8 DEF TypeInv, TypeOK, SessionTypeOK, Frame
  <2>2. \A f : Deserted(f)' <=> Deserted(f)
    BY <1>8 DEF Deserted, Listed
  <2>3. CASE WillBeIn(frame[active_session])
    BY <1>5, <1>6, <1>8, <2>1, <2>3
  <2>4. CASE Astray
    BY <1>5, <1>6, <1>8, <2>2, <2>4 DEF Astray
  <2> QED BY <1>8, <2>3, <2>4 DEF FollowInv, Follows
<1>9. ASSUME NEW w \in Window, read_from_session(w)
      PROVE  Follows'
  <2>1. pc = "run" /\ UNCHANGED <<plSock, frame>> /\ active_session' = w /\ toLisp' = SwitchTo(w)
    BY <1>9 DEF read_from_session, ReadFromSession, WindowTurn
  <2>2. CASE w = active_session
    BY <1>8, <2>1, <2>2 DEF SwitchTo
  <2>3. CASE w # active_session
    <3>1. [cmd |-> "SwitchFrames", frame |-> frame[w]] \in ToLisp
      BY <1>1 DEF ToLisp, Frame
    <3>2. Becomes(toLisp', currentFrameNum, frame[w])
      BY <1>1, <2>1, <2>3, <3>1, BecomesAppended DEF SwitchTo
    <3> QED BY <1>6, <2>1, <3>2 DEF Follows
  <2> QED BY <2>2, <2>3
<1>10. CASE QueryClients
  <2>1. [cmd |-> "NumClients", num |-> num_active_clients] \in ToLisp
    BY DEF ToLisp, TypeInv, TypeOK, SessionTypeOK
  <2>2. /\ pc = "run" /\ UNCHANGED <<active_session, frame>>
        /\ toLisp' = Append(toLisp, [cmd |-> "NumClients", num |-> num_active_clients])
        /\ UNCHANGED plSock
    BY <1>10 DEF QueryClients, SpadTurn
  <2>3. \A f : Becomes(toLisp, currentFrameNum, f) => Becomes(toLisp', currentFrameNum, f)
    BY <1>1, <2>1, <2>2, BecomesAppended
  <2> QED BY <1>8, <2>2, <2>3
<1>11. CASE AcceptFrameReply
  <2>1. /\ pc = "frame" /\ active_session' = plSock[1] /\ toLisp' = <<>>
        /\ frame' = [frame EXCEPT ![plSock[1]] = currentFrameNum]
    BY <1>11, FrameIsTaken
  <2>2. plSock[1] \in Window
    BY <1>1, <2>1, FrameTypes
  <2>3. frame'[active_session'] = currentFrameNum
    BY <1>1, <2>1, <2>2
  <2>4. Becomes(toLisp', currentFrameNum, currentFrameNum)
    BY <2>1 DEF Becomes
  <2> QED BY <1>6, <2>3, <2>4 DEF Follows
<1>12. CASE close_client
  BY <1>7, <1>8, <1>12 DEF close_client, SpadTurn, CloseFound, CloseFoundWith
<1>13. CASE SelectFails \/ AcceptKillSpad \/ AcceptMisread
            \/ \E w \in Window : AcceptInterpWindow(w) \/ SessionEof(w)
  BY <1>7, <1>13
  DEF SelectFails, AcceptKillSpad, KillSpad, AcceptMisread, AcceptInterpWindow, AcceptWindow,
      SessionEof
<1>14. CASE MenuSwitchFrames
  <2>1. PICK m \in MenuReq :
          /\ pc = "run" /\ menuReq # <<>> /\ m.cmd = "SwitchFrames"
          /\ toLisp' = Append(toLisp, m) /\ UNCHANGED <<plSock, frame>>
          /\ \/ \A i \in DOMAIN plSock : frame[plSock[i]] # m.frame
             \/ \E i \in DOMAIN plSock : /\ frame[plSock[i]] = m.frame
                                         /\ active_session' = plSock[i]
    <3>1. menuReq \in Seq(MenuReq) /\ menuReq # <<>>
      BY <1>14 DEF TypeInv, TypeOK, ChannelsTypeOK, MenuSwitchFrames
    <3>2. Head(menuReq) \in MenuReq
      BY <3>1
    <3> QED BY <1>14, <3>2 DEF MenuSwitchFrames, MenuTurn
  <2>2. m \in ToLisp /\ m.frame \in Frame
    BY <2>1 DEF MenuReq, ToLisp
  <2>3. Becomes(toLisp', currentFrameNum, m.frame)
    BY <1>1, <2>1, <2>2, BecomesAppended
  <2>4. CASE \A i \in DOMAIN plSock : frame[plSock[i]] # m.frame
    <3>1. Deserted(m.frame)'
      BY <2>1, <2>4 DEF Deserted, Listed, Range
    <3>2. MenuMoves # 0 /\ WillBeIn(m.frame)'
      BY <1>2, <1>6, <2>1, <2>3 DEF NoRequests
    <3>3. Astray'
      BY <2>2, <3>1, <3>2 DEF Astray
    <3> QED BY <3>3 DEF Follows
  <2>5. ASSUME NEW i \in DOMAIN plSock, frame[plSock[i]] = m.frame, active_session' = plSock[i]
        PROVE  Follows'
    BY <1>6, <2>1, <2>3, <2>5 DEF Follows
  <2> QED BY <2>1, <2>4, <2>5
<1>15. CASE Select \/ MenuClosed \/ MenuQuerySpad \/ read_from_spad_io
             \/ AcceptMenu \/ EndOfOutput \/ \E w \in Window : SkipWindow(w)
  BY <1>8, <1>15
  DEF Select, MenuClosed, MenuCloses, MenuQuerySpad, MenuTurn,
      read_from_spad_io, IoTurn, AcceptMenu, ServerTurn, EndOfOutput, EndOfOutputThen, SpadTurn,
      SkipWindow, WindowTurn, channels, lispSocket
<1> QED BY <1>9, <1>10, <1>11, <1>12, <1>13, <1>14, <1>15 DEF SessionNext

(* Lisp goes to the frame it is told, and no other way. *)
LEMMA FollowInvInductive ==
  TypeInv /\ ListInv /\ FrameInv /\ FollowInv /\ [Next]_vars => FollowInv'
<1> SUFFICES ASSUME TypeInv, ListInv, FrameInv, FollowInv, [Next]_vars
             PROVE  FollowInv'
  OBVIOUS
<1>1. \A f : WillBeIn(f) <=> Becomes(toLisp, currentFrameNum, f)
  BY DEF WillBeIn, Becomes
<1>2. \A f : WillBeIn(f)' <=> Becomes(toLisp', currentFrameNum', f)
  BY DEF WillBeIn, Becomes
<1>3. ASSUME UNCHANGED <<pc, active_session, plSock, frame>>, NoRequests',
             \A f : Becomes(toLisp, currentFrameNum, f)
                   => Becomes(toLisp', currentFrameNum', f)
      PROVE  FollowInv'
  <2>1. \A f : Deserted(f)' <=> Deserted(f)
    BY <1>3 DEF Deserted, Listed
  <2>2. Astray => Astray'
    BY <1>1, <1>2, <1>3, <2>1 DEF Astray
  <2> QED BY <1>1, <1>2, <1>3, <2>2 DEF FollowInv, Follows
<1>4. CASE ~Final /\ SessionNext /\ UNCHANGED <<lispVars, useVars>>
  BY <1>4, SessionNextFollowInv
<1>5. ASSUME UNCHANGED <<toLisp, currentFrameNum>>
      PROVE  \A f : Becomes(toLisp, currentFrameNum, f)
                      => Becomes(toLisp', currentFrameNum', f)
  BY <1>5
<1>6. UNCHANGED menuReq => NoRequests'
  BY DEF FollowInv, NoRequests
<1>7. ASSUME ~Final, LispNext, UNCHANGED sessionVars
      PROVE  FollowInv'
  <2>1. UNCHANGED <<pc, active_session, plSock, frame>>
    BY <1>7 DEF sessionVars
  <2>2. NoRequests'
    BY <1>6, <1>7
    DEF LispNext, SignalEndOfOutput, CreateFrame, CreateFrameAs, SwitchFrames, CallInterp,
        MenuCommand, Evaluate, queryClients, Close, CloseSending, CountMisread, channels, menuSocket
  <2>3. toLisp \in Seq(ToLisp)
    BY FrameTypes
  <2>4. CASE pc # "run"
    BY <2>1, <2>2, <2>4 DEF FollowInv, Follows
  <2>5. ASSUME pc = "run", CreateFrame
        PROVE  FALSE
    BY <2>3, <2>5, HasHead DEF CreateFrame, CreateFrameAs, FrameInv, FrameProtocol
  <2>6. ASSUME toLisp # <<>>, toLisp' = Tail(toLisp),
               currentFrameNum' = IF Head(toLisp).cmd = "SwitchFrames" THEN Head(toLisp).frame
                                  ELSE currentFrameNum
        PROVE  FollowInv'
    <3>1. \A f : Becomes(toLisp, currentFrameNum, f) => Becomes(toLisp', currentFrameNum', f)
      BY <2>3, <2>6, BecomesTaken
    <3> QED BY <1>3, <2>1, <2>2, <3>1
  <2>7. CASE SwitchFrames
    BY <2>6, <2>7 DEF SwitchFrames
  <2>8. CASE Close
    BY <2>6, <2>8 DEF Close, CloseSending
  <2>9. CASE SignalEndOfOutput \/ CallInterp \/ MenuCommand \/ Evaluate \/ queryClients
             \/ CountMisread
    <3>1. UNCHANGED <<toLisp, currentFrameNum>>
      BY <2>9
      DEF SignalEndOfOutput, CallInterp, MenuCommand, Evaluate, queryClients, CountMisread,
          channels, lispSocket
    <3> QED BY <1>3, <1>5, <2>1, <2>2, <3>1
  <2> QED BY <1>7, <2>4, <2>5, <2>7, <2>8, <2>9 DEF LispNext
<1>8. CASE UNCHANGED <<toLisp, currentFrameNum, pc, active_session, plSock, frame, menuReq>>
  BY <1>3, <1>5, <1>6, <1>8
<1>9. CASE RelayNext /\ UNCHANGED <<sessionVars, lispVars, useVars>>
  BY <1>8, <1>9 DEF RelayNext, read_from_manager, relay_spad_io, sessionVars, lispVars, lispSocket,
                    menuSocket
<1>10. CASE UserNext /\ UNCHANGED <<sessionVars, lispVars>>
  BY <1>8, <1>10 DEF UserNext, Connect, PeerDies, Type, sessionVars, lispVars, lispSocket, menuSocket
<1>11. CASE MenuNext /\ UNCHANGED sessionVars
  <2>1. UNCHANGED <<toLisp, currentFrameNum, pc, active_session, plSock, frame>>
    BY <1>11 DEF MenuNext, sessionVars, lispSocket
  <2>2. MenuMoves # 0
    <3>1. moves \in Nat
      BY DEF TypeInv, TypeOK
    <3> QED BY <1>11, <3>1 DEF MenuNext, spad_busy, issue_server_command
  <2> QED BY <1>3, <1>5, <2>1, <2>2 DEF NoRequests
<1>12. CASE UNCHANGED vars
  BY <1>8, <1>12 DEF vars, channels, lispSocket, menuSocket, sessionVars, lispVars
<1> QED BY <1>4, <1>7, <1>9, <1>10, <1>11, <1>12 DEF Next, SystemNext, EnvNext

(* HyperDoc has made no requests at the start, and no window is active. *)
LEMMA InitFollows == Init => FollowInv
BY DEF Init, ChannelsInit, SessionInit, FollowInv, NoRequests, Follows

(* Where the session manager sends no SwitchFrames with a line, because the line
   is the active window's (read_from_session), Lisp is in the frame of that
   window, or will be before it reads on; or HyperDoc named a frame
   (read_menu_client_command) that no window has.  Never is it the frame of
   another window, whatever users do and whichever frames HyperDoc names.  *)
NeverAnothers ==
  pc = "run" /\ active_session # Null =>
    \E f \in Frame : /\ WillBeIn(f)
                     /\ f = frame[active_session] \/ \A w \in Listed : frame[w] # f
THEOREM FrameOfNobodyElse == Spec => []NeverAnothers
<1>1. TypeInv /\ FollowInv => NeverAnothers
  <2> SUFFICES ASSUME TypeInv, FollowInv, pc = "run", active_session # Null
               PROVE  NeverAnothers
    BY DEF NeverAnothers
  <2>1. frame[active_session] \in Frame
    BY DEF TypeInv, TypeOK, SessionTypeOK, Frame
  <2> QED BY <2>1 DEF FollowInv, Follows, Astray, Deserted, NeverAnothers
<1> QED BY <1>1, InitFollows, FollowInvInductive, TypeInvariant, ListInvariant, FrameInvariant, PTL
        DEF Spec

(* Lisp is in the frame of the active session, or will be before it reads
   another line, so that a line needs no SwitchFrames of its own
   (read_from_session), and no two windows share a frame.  HyperDoc is left
   out: with it, FrameOfNobodyElse is what remains.                        *)
THEOREM FramesAlwaysAgree == MenuMoves = 0 => (Spec => []FramesAgree)
<1> SUFFICES ASSUME MenuMoves = 0 PROVE Spec => []FramesAgree
  OBVIOUS
<1>1. Init => FollowInv
  BY InitFollows
<1>2. FrameInv /\ TypeInv /\ ListInv => FramesDistinct
  <2> SUFFICES ASSUME FrameInv, TypeInv, ListInv, pc = "run",
                      NEW i \in DOMAIN plSock, NEW j \in DOMAIN plSock,
                      frame[plSock[i]] = frame[plSock[j]]
               PROVE  i = j
    BY DEF FramesDistinct
  <2>1. plSock[i] \in Framed /\ plSock[j] \in Framed
    BY DEF Framed, Listed, Range
  <2> QED BY <2>1 DEF FrameInv, FramesOnce, ListInv, ListWellFormed
<1>3. FrameInv /\ TypeInv /\ ListInv /\ FollowInv => FramesAgree
  BY <1>2 DEF FramesAgree, FrameFollowsActive, FollowInv, Follows, Astray
<1>4. TypeInv /\ ListInv /\ FrameInv /\ FollowInv /\ [Next]_vars => FollowInv'
  BY FollowInvInductive
<1> QED
  BY <1>1, <1>3, <1>4, TypeInvariant, ListInvariant, FrameInvariant, PTL DEF Spec

(***************************************************************************)
(* The number of clients, and the end by KillSpad                          *)
(***************************************************************************)

(* A window that died before its frame came is listed but not counted.  Its
   descriptor is closed and still in the mask, so that the manager leaves at
   the end of the round; until then it accepts nobody and closes no client. *)
Uncounted ==
  /\ num_active_clients = Len(plSock) - 1
  /\ session_socket_mask \cap closedFd \cap Window # {}
  /\ "server" \notin rd
  /\ "spad" \in rd => ~Has(toLisp, "NumClients") /\ ~Has(fromLisp, "CloseClient")

CountInv ==
  /\ pc = "run" => num_active_clients = Len(plSock) \/ Uncounted
  /\ pc = "frame" => /\ num_active_clients = Len(plSock) - 1
                     /\ plSock[1] \in session_socket_mask

(* The types that the proofs about the count of windows use. *)
LEMMA CountTypes ==
  ASSUME TypeInv
  PROVE  /\ toLisp \in Seq(ToLisp) /\ fromLisp \in Seq(FromLisp) /\ plSock \in Seq(Window)
         /\ num_active_clients \in Int /\ Len(plSock) \in Nat
         /\ session_socket_mask \subseteq Window \cup {Menu} /\ Menu \notin Window
         /\ menu_client \in {Menu, Null} /\ Listed \subseteq Window
         /\ active_session \in Window \cup {Null} /\ peer \in [Peer -> PeerState]
         /\ pc = "frame" => plSock[1] \in Window
BY FrameTypes, NamesDistinct, SMTT(30) DEF TypeInv, TypeOK, ChannelsTypeOK, SessionTypeOK

(* A step within a round that neither accepts nor closes a client. *)
LEMMA CountUntouched ==
  ASSUME TypeInv, CountInv, UNCHANGED <<num_active_clients, plSock, pc>>,
         session_socket_mask \cap Window \subseteq session_socket_mask',
         closedFd \subseteq closedFd', rd' \subseteq rd,
         Uncounted /\ "spad" \in rd' =>
           ~Has(toLisp', "NumClients") /\ ~Has(fromLisp', "CloseClient")
  PROVE  CountInv'
<1>1. CASE pc = "run" /\ Uncounted
  BY <1>1 DEF CountInv, Uncounted
<1>2. CASE pc = "run" /\ num_active_clients = Len(plSock)
  BY <1>2 DEF CountInv
<1>3. CASE pc = "frame"
  <2>1. plSock[1] \in Window
    BY <1>3, CountTypes
  <2> QED BY <1>3, <2>1 DEF CountInv
<1>4. CASE pc \notin {"run", "frame"}
  BY <1>4 DEF CountInv
<1> QED BY <1>1, <1>2, <1>3, <1>4 DEF CountInv

(* The manager counts a window when its frame comes, and discounts it when
   it is closed.                                                           *)
LEMMA SessionNextCountInv ==
  ASSUME TypeInv, ListInv, FrameInv, CountInv, UNCHANGED lispVars, SessionNext
  PROVE  CountInv'
<1>1. /\ toLisp \in Seq(ToLisp) /\ fromLisp \in Seq(FromLisp) /\ plSock \in Seq(Window)
      /\ num_active_clients \in Int /\ Len(plSock) \in Nat
      /\ session_socket_mask \subseteq Window \cup {Menu} /\ Menu \notin Window
      /\ frame \in [Window -> Nat]
  BY CountTypes, FrameTypes
<1>2. ASSUME UNCHANGED <<toLisp, num_active_clients, plSock, pc>>, rd' \subseteq rd,
             session_socket_mask \cap Window \subseteq session_socket_mask',
             closedFd \subseteq closedFd',
             fromLisp' = fromLisp \/ "spad" \notin rd'
      PROVE  CountInv'
  <2>1. Uncounted /\ "spad" \in rd' => ~Has(toLisp', "NumClients") /\ ~Has(fromLisp', "CloseClient")
    BY <1>2 DEF Uncounted
  <2> QED BY <1>2, <2>1, CountUntouched
<1>3. CASE Select
  <2>1. pc = "run" /\ ~Uncounted /\ UNCHANGED <<num_active_clients, plSock, pc>>
    BY <1>3 DEF Select, Uncounted
  <2> QED BY <2>1 DEF CountInv
<1>4. CASE SelectFails \/ AcceptKillSpad \/ AcceptMisread
  BY <1>4 DEF SelectFails, AcceptKillSpad, KillSpad, AcceptMisread, CountInv
<1>5. ASSUME NEW m \in ToLisp, m.cmd = "SwitchFrames", toLisp' \in {toLisp, Append(toLisp, m)},
             UNCHANGED <<fromLisp, num_active_clients, plSock, pc, session_socket_mask>>,
             closedFd \subseteq closedFd', rd' \subseteq rd
      PROVE  CountInv'
  <2>1. Has(Append(toLisp, m), "NumClients") <=> Has(toLisp, "NumClients")
    BY <1>1, <1>5, HasAppend
  <2>2. Has(toLisp', "NumClients") => Has(toLisp, "NumClients")
    BY <1>5, <2>1
  <2>3. session_socket_mask \cap Window \subseteq session_socket_mask'
    BY <1>5
  <2>4. Uncounted /\ "spad" \in rd' => ~Has(toLisp', "NumClients") /\ ~Has(fromLisp', "CloseClient")
    BY <1>5, <2>2 DEF Uncounted
  <2> QED BY <1>5, <2>3, <2>4, CountUntouched
<1>6. CASE MenuSwitchFrames
  <2>1. Head(menuReq) \in MenuReq /\ Head(menuReq).cmd = "SwitchFrames"
    BY <1>6 DEF MenuSwitchFrames, TypeInv, TypeOK, ChannelsTypeOK
  <2>2. Head(menuReq) \in ToLisp
    BY <2>1, SwitchIsForwardable
  <2> QED BY <1>5, <1>6, <2>1, <2>2 DEF MenuSwitchFrames, Served
<1>7. ASSUME NEW w \in Window, read_from_session(w) \/ SessionEof(w)
      PROVE  CountInv'
  <2>1. [cmd |-> "SwitchFrames", frame |-> frame[w]] \in ToLisp
    BY <1>1 DEF ToLisp, Frame
  <2> QED
    BY <1>5, <1>7, <2>1
    DEF read_from_session, ReadFromSession, SessionEof, SwitchTo, Served
<1>8. CASE AcceptMenu
  <2>1. pc = "run" /\ ~Uncounted /\ UNCHANGED <<num_active_clients, plSock, pc>>
    BY <1>8 DEF AcceptMenu, ServerTurn, Uncounted
  <2> QED BY <2>1 DEF CountInv
<1>9. ASSUME NEW w \in Window, AcceptInterpWindow(w)
      PROVE  CountInv'
  <2>1. /\ pc = "run" /\ ~Uncounted /\ pc' = "frame" /\ plSock' = <<w>> \o plSock
        /\ w \in session_socket_mask' /\ num_active_clients' = num_active_clients
    BY <1>9 DEF AcceptInterpWindow, AcceptWindow, ServerTurn, Uncounted
  <2>2. Len(plSock') = Len(plSock) + 1 /\ plSock'[1] = w
    BY <1>1, <2>1
  <2> QED BY <1>1, <2>1, <2>2 DEF CountInv
<1>10. CASE AcceptFrameReply
  <2>1. /\ pc = "frame" /\ pc' = "run" /\ toLisp' = <<>> /\ ~Has(fromLisp', "CloseClient")
    BY <1>10, FrameIsTaken
  <2>2. /\ num_active_clients = Len(plSock) - 1 /\ plSock[1] \in session_socket_mask
        /\ plSock[1] \in Window
    BY <2>1, CountTypes DEF CountInv
  <2>3. /\ UNCHANGED <<plSock, session_socket_mask>> /\ rd' = rd \ {"server"}
        /\ \/ num_active_clients' = num_active_clients + 1
           \/ /\ closedFd' = closedFd \cup {plSock[1]}
              /\ num_active_clients' = num_active_clients
    BY <1>10 DEF AcceptFrameReply, Served
  <2>4. ~Has(toLisp', "NumClients")
    BY <2>1 DEF Has
  <2>5. CASE num_active_clients' = num_active_clients + 1
    BY <1>1, <2>1, <2>2, <2>3, <2>5 DEF CountInv
  <2>6. CASE closedFd' = closedFd \cup {plSock[1]} /\ num_active_clients' = num_active_clients
    <3>1. plSock[1] \in session_socket_mask' \cap closedFd' \cap Window
      BY <2>2, <2>3, <2>6
    <3>2. Uncounted'
      BY <2>1, <2>2, <2>3, <2>4, <2>6, <3>1 DEF Uncounted
    <3> QED BY <2>1, <3>2 DEF CountInv
  <2> QED BY <2>3, <2>5, <2>6
<1>11. CASE QueryClients
  <2>1. /\ UNCHANGED <<num_active_clients, plSock, pc, session_socket_mask, closedFd>>
        /\ rd' \subseteq rd /\ "spad" \notin rd'
    BY <1>11 DEF QueryClients, Served
  <2> QED BY <2>1, CountUntouched
<1>12. CASE close_client
  <2>1. /\ pc = "run" /\ "spad" \in rd /\ fromLisp # <<>> /\ Head(fromLisp).cmd = "CloseClient"
    BY <1>12 DEF close_client, SpadTurn
  <2>2. num_active_clients = Len(plSock)
    <3>1. Has(fromLisp, "CloseClient")
      BY <1>1, <2>1, HasHead
    <3> QED BY <2>1, <3>1 DEF CountInv, Uncounted
  <2>3. CASE UNCHANGED <<num_active_clients, plSock>> /\ pc' \in {pc, "crashed"}
    BY <2>1, <2>2, <2>3 DEF CountInv
  <2>4. ASSUME NEW i \in DOMAIN plSock, CloseFound(i)
        PROVE  CountInv'
    <3>1. /\ plSock' = RemoveAt(plSock, i) /\ num_active_clients' = num_active_clients - 1
          /\ pc' = pc
      BY <2>4 DEF CloseFound, CloseFoundWith
    <3>2. /\ plSock' \in Seq(Window) /\ DOMAIN plSock' = 1..(Len(plSock) - 1)
          /\ Len(plSock) - 1 \in Nat
      BY <1>1, <3>1, RemoveAtItems
    <3>3. Len(plSock') = Len(plSock) - 1
      BY <3>2, LenProperties
    <3> QED BY <2>1, <2>2, <3>1, <3>3 DEF CountInv
  <2> QED BY <1>12, <2>3, <2>4 DEF close_client
<1>13. CASE MenuClosed \/ MenuQuerySpad \/ read_from_spad_io \/ EndOfOutput
             \/ \E w \in Window : SkipWindow(w)
  BY <1>1, <1>2, <1>13
  DEF MenuClosed, MenuCloses, MenuQuerySpad, read_from_spad_io, EndOfOutput, EndOfOutputThen,
      SkipWindow, Served, channels, lispSocket
<1> QED
  BY <1>3, <1>4, <1>6, <1>7, <1>8, <1>9, <1>10, <1>11, <1>12, <1>13 DEF SessionNext

(* Lisp asks for a client to be closed only when it has been told the count,
   and no other process has to do with either.                             *)
LEMMA CountInvInductive ==
  TypeInv /\ ListInv /\ FrameInv /\ CountInv /\ [Next]_vars => CountInv'
<1> SUFFICES ASSUME TypeInv, ListInv, FrameInv, CountInv, [Next]_vars PROVE CountInv'
  OBVIOUS
<1>1. CASE UNCHANGED <<sessionVars, lispSocket>>
  BY <1>1 DEF sessionVars, lispSocket, CountInv, Uncounted
<1>2. CASE ~Final /\ SessionNext /\ UNCHANGED <<lispVars, useVars>>
  BY <1>2, SessionNextCountInv
<1>3. ASSUME LispNext, UNCHANGED sessionVars
      PROVE  CountInv'
  <2>1. toLisp \in Seq(ToLisp) /\ fromLisp \in Seq(FromLisp) /\ CloseMsg \in FromLisp
    BY FrameTypes DEF CloseMsg, FromLisp, Frame
  <2>2. ASSUME ~Has(toLisp, "NumClients"), ~Has(fromLisp, "CloseClient")
        PROVE  ~Has(toLisp', "NumClients") /\ ~Has(fromLisp', "CloseClient")
    <3>1. ASSUME NEW m \in FromLisp, m.cmd # "CloseClient",
                 fromLisp' \in {fromLisp, Append(fromLisp, m)},
                 toLisp' = toLisp \/ (toLisp # <<>> /\ toLisp' = Tail(toLisp))
          PROVE  ~Has(toLisp', "NumClients") /\ ~Has(fromLisp', "CloseClient")
      <4>1. ~Has(fromLisp', "CloseClient")
        <5>1. CASE fromLisp' = fromLisp
          BY <2>2, <5>1
        <5>2. CASE fromLisp' = Append(fromLisp, m)
          <6>1. Has(Append(fromLisp, m), "CloseClient") <=>
                  Has(fromLisp, "CloseClient") \/ m.cmd = "CloseClient"
            BY <2>1, HasAppend
          <6> QED BY <2>2, <3>1, <5>2, <6>1
        <5> QED BY <3>1, <5>1, <5>2
      <4>2. ~Has(toLisp', "NumClients")
        BY <2>1, <2>2, <3>1, HasTail
      <4> QED BY <4>1, <4>2
    <3>2. /\ [cmd |-> "EndOfOutput"] \in FromLisp /\ [cmd |-> "QueryClients"] \in FromLisp
          /\ [cmd |-> "NewFrame", frame |-> frameNumber] \in FromLisp
      BY FrameTypes DEF FromLisp, Frame
    <3>3. CASE SignalEndOfOutput
      BY <3>1, <3>2, <3>3 DEF SignalEndOfOutput
    <3>4. CASE queryClients
      BY <3>1, <3>2, <3>4 DEF queryClients
    <3>5. CASE CreateFrame
      BY <3>1, <3>2, <3>5 DEF CreateFrame, CreateFrameAs
    <3>6. CASE SwitchFrames
      BY <3>1, <3>2, <3>6 DEF SwitchFrames
    <3>7. CASE Close
      BY <2>1, <2>2, <3>7, HasHead DEF Close, CloseSending
    <3>8. CASE CallInterp \/ MenuCommand \/ Evaluate \/ CountMisread
      BY <2>2, <3>8 DEF CallInterp, MenuCommand, Evaluate, CountMisread, channels, lispSocket
    <3> QED BY <1>3, <3>3, <3>4, <3>5, <3>6, <3>7, <3>8 DEF LispNext
  <2> QED BY <1>3, <2>2, CountUntouched DEF sessionVars, Uncounted
<1>4. CASE RelayNext /\ UNCHANGED <<sessionVars, lispVars, useVars>>
  BY <1>1, <1>4 DEF RelayNext, read_from_manager, relay_spad_io
<1>5. CASE UserNext /\ UNCHANGED <<sessionVars, lispVars>>
  BY <1>1, <1>5 DEF UserNext, Connect, PeerDies, Type
<1>6. CASE MenuNext /\ UNCHANGED sessionVars
  BY <1>1, <1>6 DEF MenuNext
<1>7. CASE UNCHANGED vars
  BY <1>1, <1>7 DEF vars, channels
<1> QED BY <1>2, <1>3, <1>4, <1>5, <1>6, <1>7 DEF Next, SystemNext, EnvNext

(* num_active_clients is the length of the list whenever a command is served,
   but for a window that died before its frame came, in which case the
   manager leaves before the count is used.                                *)
THEOREM CountInvariant == Spec => []CountInv
<1>1. Init => CountInv
  BY DEF Init, SessionInit, CountInv
<1> QED
  BY <1>1, TypeInvariant, ListInvariant, FrameInvariant, CountInvInductive, PTL DEF Spec

(* A closed descriptor is a dead window's, and once the killer has been heard
   nobody is left.                                                         *)
KillInv ==
  /\ \A w \in closedFd \cap Window : peer[w] = "dead"
  /\ peer[Killer] = "open" => pc = "exited" /\ \A w \in Listed : peer[w] = "dead"

(* kill_spad reaches the whole list, as num_active_clients is its length. *)
LEMMA KillReaches ==
  ASSUME TypeInv, CountInv, KillInv, AcceptKillSpad
  PROVE  KillInv'
<1>1. /\ plSock \in Seq(Window) /\ Len(plSock) \in Nat /\ Listed \subseteq Window
      /\ Killer \notin Window /\ DOMAIN plSock = 1..Len(plSock)
  BY CountTypes, NamesDistinct
<1>2. /\ pc = "run" /\ "server" \in rd /\ pc' = "exited" /\ UNCHANGED <<plSock, closedFd>>
  BY DEF AcceptKillSpad, KillSpad, ServerTurn
<1>3. num_active_clients = Len(plSock)
  BY <1>2 DEF CountInv, Uncounted
<1> DEFINE killed == {plSock[i] : i \in {i \in DOMAIN plSock :
                        i <= num_active_clients /\ plSock[i] \notin closedFd}}
                     \cup ({menu_client} \ {Null})
<1>4. peer' = [p \in Peer |-> CASE p \in killed -> "dead"
                                [] p = Killer   -> "open"
                                [] OTHER        -> peer[p]]
  BY DEF AcceptKillSpad, KillSpad
<1>5. \A w \in Listed : w \in killed \/ w \in closedFd
  BY <1>1, <1>3 DEF Listed, Range
<1> HIDE DEF killed
<1>6. \A w \in Window : peer'[w] = IF w \in killed THEN "dead" ELSE peer[w]
  BY <1>1, <1>4 DEF Peer
<1>7. \A w \in closedFd \cap Window : peer'[w] = "dead"
  BY <1>6 DEF KillInv
<1>8. \A w \in Listed : peer'[w] = "dead"
  BY <1>1, <1>5, <1>6, <1>7
<1> QED BY <1>2, <1>7, <1>8 DEF KillInv, Listed

(* Other handlers close the descriptors of windows found dead, revive nobody
   and do not answer the killer.                                           *)
LEMMA SessionNextKillInv ==
  ASSUME TypeInv, ListInv, CountInv, KillInv, ~Final, SessionNext
  PROVE  KillInv'
<1>1. /\ plSock \in Seq(Window) /\ peer \in [Peer -> PeerState]
      /\ active_session \in Window \cup {Null} /\ menu_client \in {Menu, Null}
      /\ pc = "frame" => plSock[1] \in Window
  BY CountTypes
<1>2. Menu \notin Window /\ Null \notin Window /\ Killer \notin Window /\ Menu # Killer
  BY NamesDistinct
<1>3. peer[Killer] # "open"
  BY DEF KillInv, Final
<1>4. ASSUME \A w \in Window : peer[w] = "dead" => peer'[w] = "dead",
             peer'[Killer] # "open",
             \A w \in closedFd' \cap Window : w \in closedFd \/ peer'[w] = "dead"
      PROVE  KillInv'
  BY <1>4 DEF KillInv
<1>5. ASSUME UNCHANGED peer,
             \A w \in closedFd' \cap Window : w \in closedFd \/ peer[w] = "dead"
      PROVE  KillInv'
  BY <1>3, <1>4, <1>5
<1>6. CASE AcceptMenu
  BY <1>1, <1>2, <1>3, <1>4, <1>6 DEF AcceptMenu
<1>7. ASSUME NEW w \in Window, AcceptInterpWindow(w)
      PROVE  KillInv'
  <2>1. peer[w] = "connecting" /\ peer' = [peer EXCEPT ![w] = "open"] /\ UNCHANGED closedFd
    BY <1>7 DEF AcceptInterpWindow, AcceptWindow
  <2> QED BY <1>1, <1>2, <1>3, <1>4, <2>1
<1>8. CASE read_from_spad_io
  BY <1>1, <1>2, <1>5, <1>8 DEF read_from_spad_io
<1>9. CASE AcceptFrameReply
  BY <1>1, <1>5, <1>9 DEF AcceptFrameReply, windows
<1>10. ASSUME NEW w \in Window, SessionEof(w)
       PROVE  KillInv'
  BY <1>5, <1>10 DEF SessionEof, windows
<1>11. CASE EndOfOutput
  BY <1>2, <1>1, <1>5, <1>11 DEF EndOfOutput, EndOfOutputThen, windows
<1>12. CASE close_client
  <2>1. ASSUME NEW i \in DOMAIN plSock, CloseFound(i), UNCHANGED closedFd
        PROVE  KillInv'
    <3>1. plSock[i] \in Window /\ peer' = [peer EXCEPT ![plSock[i]] = "dead"]
      BY <1>1, <2>1 DEF CloseFound, CloseFoundWith
    <3> QED BY <1>1, <1>2, <1>3, <1>4, <2>1, <3>1
  <2>2. CASE UNCHANGED <<peer, closedFd>>
    BY <1>5, <2>2
  <2> QED BY <1>12, <2>1, <2>2 DEF close_client
<1>13. CASE Select \/ SelectFails \/ MenuClosed \/ MenuSwitchFrames \/ MenuQuerySpad
             \/ AcceptMisread \/ QueryClients
             \/ \E w \in Window : SkipWindow(w) \/ read_from_session(w)
  <2>1. UNCHANGED <<peer, closedFd>>
    BY <1>13
    DEF Select, SelectFails, MenuClosed, MenuCloses, MenuSwitchFrames, MenuQuerySpad,
        AcceptMisread, QueryClients, SkipWindow, read_from_session, ReadFromSession,
        channels, windows
  <2> QED BY <1>5, <2>1
<1> QED
  BY <1>6, <1>7, <1>8, <1>9, <1>10, <1>11, <1>12, <1>13, KillReaches DEF SessionNext

(* Every step keeps what a kill needs to reach the windows. *)
LEMMA KillInvInductive ==
  TypeInv /\ ListInv /\ CountInv /\ KillInv /\ [Next]_vars => KillInv'
<1> SUFFICES ASSUME TypeInv, ListInv, CountInv, KillInv, [Next]_vars PROVE KillInv'
  OBVIOUS
<1>1. CASE UNCHANGED <<sessionVars, peer>>
  BY <1>1 DEF sessionVars, KillInv, Listed
<1>2. CASE ~Final /\ SessionNext
  BY <1>2, SessionNextKillInv
<1>3. ASSUME ~Final, UNCHANGED sessionVars, NEW p \in Peer, Connect(p) \/ PeerDies(p)
      PROVE  KillInv'
  <2>1. peer[Killer] # "open"
    BY <1>3 DEF KillInv, Final
  <2>2. peer \in [Peer -> PeerState] /\ Window \subseteq Peer /\ Killer \in Peer
    BY CountTypes DEF Peer
  <2>3. /\ \A w \in Window : peer[w] = "dead" => peer'[w] = "dead"
        /\ peer'[Killer] # "open"
    BY <1>3, <2>1, <2>2 DEF Connect, PeerDies
  <2> QED BY <1>3, <2>3 DEF sessionVars, KillInv
<1>4. CASE LispNext /\ UNCHANGED <<sessionVars, useVars>>
  <2>1. UNCHANGED peer
    BY <1>4
    DEF LispNext, SignalEndOfOutput, CreateFrame, CreateFrameAs, SwitchFrames, CallInterp,
        MenuCommand, Evaluate, queryClients, Close, CloseSending, CountMisread, channels, windows
  <2> QED BY <1>1, <1>4, <2>1
<1>5. CASE RelayNext /\ UNCHANGED <<sessionVars, lispVars, useVars>>
  BY <1>1, <1>5 DEF RelayNext, read_from_manager, relay_spad_io, windows
<1>6. CASE ~Final /\ UserNext /\ UNCHANGED <<sessionVars, lispVars>>
  BY <1>1, <1>3, <1>6 DEF UserNext, Type
<1>7. CASE MenuNext /\ UNCHANGED sessionVars
  BY <1>1, <1>7 DEF MenuNext, windows
<1>8. CASE UNCHANGED vars
  BY <1>1, <1>8 DEF vars, channels, windows
<1> QED BY <1>2, <1>3, <1>4, <1>5, <1>6, <1>7, <1>8 DEF Next, SystemNext, EnvNext

(* kill_spad, which walks as much of the list as num_active_clients says,
   leaves no accepted window alive, whatever windows came, died and were
   closed before it.                                                       *)
THEOREM KillAlwaysReaches == Spec => []KillReachesEveryWindow
<1>1. Init => KillInv
  <2> SUFFICES ASSUME Init PROVE KillInv
    OBVIOUS
  <2>1. closedFd = {} /\ peer[Killer] = "absent"
    BY DEF Init, ChannelsInit, SessionInit, Peer
  <2> QED BY <2>1 DEF KillInv
<1>2. TypeInv /\ CountInv /\ KillInv => KillReachesEveryWindow
  BY DEF CountInv, Uncounted, KillInv, KillReachesEveryWindow, CountAgrees
<1> QED
  BY <1>1, <1>2, TypeInvariant, ListInvariant, CountInvariant, KillInvInductive, PTL DEF Spec

-----------------------------------------------------------------------------
(***************************************************************************)
(* HyperDoc in the select mask                                             *)
(***************************************************************************)

(* A descriptor of HyperDoc that was closed, which EndOfOutput does last in a
   round, is still in the mask, so that the next select fails.             *)
MenuInv ==
  /\ MenuIsSelected
  /\ Menu \in closedFd => Menu \in session_socket_mask /\ rd = {}

(* Only the manager changes what it knows of HyperDoc. *)
LEMMA MenuInvInductive == TypeInv /\ MenuInv /\ [Next]_vars => MenuInv'
<1> SUFFICES ASSUME TypeInv, MenuInv, [Next]_vars PROVE MenuInv'
  OBVIOUS
<1> USE NamesDistinct DEF MenuInv, MenuIsSelected
<1>1. /\ active_session \in Window \cup {Null} /\ menu_client \in {Menu, Null}
      /\ plSock \in Seq(Window)
      /\ \A i \in DOMAIN plSock : plSock[i] \in Window
      /\ pc = "frame" => plSock # <<>>
  BY DEF TypeInv, TypeOK, SessionTypeOK, FrameAwaited
<1>2. CASE UNCHANGED sessionVars
  BY <1>2 DEF sessionVars
<1>3. CASE SessionNext
  <2>1. CASE Select
    BY <2>1 DEF Select
  <2>2. CASE MenuClosed
    BY <2>2 DEF MenuClosed, MenuCloses, MenuTurn
  <2>3. CASE read_from_spad_io
    BY <1>1, <2>3 DEF read_from_spad_io, IoTurn
  <2>4. CASE AcceptMenu
    BY <2>4 DEF AcceptMenu, ServerTurn, Reused
  <2>5. ASSUME NEW w \in Window, AcceptInterpWindow(w)
        PROVE  MenuInv'
    BY <2>5 DEF AcceptInterpWindow, AcceptWindow, ServerTurn, Reused
  <2>6. CASE AcceptFrameReply
    <3>1. plSock[1] \in Window
      BY <1>1, <2>6 DEF AcceptFrameReply
    <3>2. /\ closedFd' \in {closedFd, closedFd \cup {plSock[1]}}
          /\ rd' = rd \ {"server"} /\ UNCHANGED <<menu_client, session_socket_mask>>
      BY <2>6 DEF AcceptFrameReply, Served
    <3> QED BY <3>1, <3>2
  <2>7. ASSUME NEW w \in Window, read_from_session(w) \/ SessionEof(w) \/ SkipWindow(w)
        PROVE  MenuInv'
    BY <2>7 DEF read_from_session, ReadFromSession, SessionEof, SkipWindow, WindowTurn
  <2>8. CASE EndOfOutput
    BY <1>1, <2>8 DEF EndOfOutput, EndOfOutputThen, SpadTurn, Served
  <2>9. CASE close_client
    <3>1. /\ Menu \notin closedFd /\ UNCHANGED <<menu_client, closedFd>>
          /\ \/ UNCHANGED session_socket_mask
             \/ \E i \in DOMAIN plSock : session_socket_mask' = session_socket_mask \ {plSock[i]}
      BY <2>9 DEF close_client, SpadTurn, CloseFound, CloseFoundWith
    <3> QED BY <1>1, <3>1
  <2>10. CASE SelectFails \/ MenuSwitchFrames \/ MenuQuerySpad \/ AcceptKillSpad \/ AcceptMisread
              \/ QueryClients
    BY <2>10 DEF SelectFails, MenuSwitchFrames, MenuQuerySpad, AcceptKillSpad, KillSpad,
                 AcceptMisread, QueryClients, Served
  <2> QED BY <1>3, <2>1, <2>2, <2>3, <2>4, <2>5, <2>6, <2>7, <2>8, <2>9, <2>10 DEF SessionNext
<1> QED BY <1>2, <1>3 DEF Next, SystemNext, EnvNext, vars

(* menu_client points to HyperDoc exactly while select waits on it: its requests
   are heard as long as the manager knows of it, also when it died or when its
   descriptor was closed behind the manager's back (EndOfOutput).          *)
THEOREM MenuAlwaysSelected == Spec => []MenuIsSelected
<1>1. Init => MenuInv
  BY NamesDistinct DEF Init, SessionInit, MenuInv, MenuIsSelected
<1>2. MenuInv => MenuIsSelected
  BY DEF MenuInv
<1> QED BY <1>1, <1>2, MenuInvInductive, TypeInvariant, PTL DEF Spec

(***************************************************************************)
(* A polite use of the session, for every number of windows: there is      *)
(* never more than one line between the session manager and Lisp, and from *)
(* that everything else follows.                                           *)
(***************************************************************************)

(***************************************************************************)
(* The use that the theorems are about                                     *)
(***************************************************************************)

(* A user types the next line when the manager knows of the end of the last
   answer, windows come when nothing is under way and are not killed, and
   HyperDoc is left out.  )close may be typed, and the system shut down.   *)
Polite ==
  /\ Discipline \in {"paced", "turns"} /\ ~LateConnect
  /\ MenuMoves = 0 /\ Mortal \cap Window = {}

(***************************************************************************)
(* Where the line is that is past the manager                              *)
(***************************************************************************)
CreateMsg   == [cmd |-> "CreateFrame"]
QueryMsg    == [cmd |-> "QueryClients"]
EndMsg      == [cmd |-> "EndOfOutput"]
GivenMsg(f) == [cmd |-> "NewFrame", frame |-> f]
SwitchMsg(f) == [cmd |-> "SwitchFrames", frame |-> f]
CountMsg(n) == [cmd |-> "NumClients", num |-> n]
LeaveMsg(f) == [cmd |-> "CloseClient", frame |-> f]

NoLine   == ioIn = <<>> /\ ttyIn = <<>>
NoOutput == ttyOut = <<>> /\ ioOut = <<>>

(* It is nowhere, though a window may be waiting for its frame; ... *)
Resting ==
  /\ NoLine /\ lispPc = "read" /\ ~needSignal /\ ~reading_output
  /\ \/ pc = "run" /\ toLisp = <<>> /\ fromLisp = <<>>
     \/ pc = "frame" /\ toLisp = <<CreateMsg>> /\ fromLisp = <<>>
     \/ /\ pc = "frame" /\ toLisp = <<>> /\ fromLisp = <<GivenMsg(currentFrameNum)>>
        /\ Head(frameRing) = currentFrameNum

(* ... or on its way from w to Lisp, behind the command that selects the
   frame, if there is one; ...                                             *)
Travelling(w) ==
  /\ lispPc = "read" /\ ~needSignal /\ fromLisp = <<>> /\ active_session = w
  /\ toLisp = <<>> \/ toLisp = <<SwitchMsg(frame[w])>>
  /\ \E line \in Line :
       /\ line.from = w
       /\ \/ ioIn = <<line>> /\ ttyIn = <<>>
          \/ ioIn = <<>> /\ ttyIn = <<line>>

(* ... or being run, perhaps waiting for the number of clients; ... *)
Running(w) ==
  /\ NoLine /\ needSignal /\ curLine.from = w /\ active_session = w
  /\ \/ lispPc = "eval" /\ toLisp = <<>> /\ fromLisp = <<>>
     \/ lispPc = "count" /\ toLisp = <<>> /\ fromLisp = <<QueryMsg>>
     \/ lispPc = "count" /\ toLisp = <<CountMsg(num_active_clients)>> /\ fromLisp = <<>>

(* ... or run, and the manager has not heard of the end of its output, nor
   perhaps of the client to be closed.                                     *)
Answered(w) ==
  /\ NoLine /\ lispPc = "read" /\ curLine # Null /\ curLine.from = w /\ toLisp = <<>>
  /\ \/ active_session \in {w, Null} /\ needSignal /\ fromLisp = <<>>
     \/ active_session \in {w, Null} /\ ~needSignal /\ fromLisp = <<EndMsg>>
     \/ active_session = w /\ needSignal /\ fromLisp = <<LeaveMsg(frame[w])>>
     \/ active_session = w /\ ~needSignal /\ fromLisp = <<LeaveMsg(frame[w]), EndMsg>>

(* Its window types no other. *)
UnderWay(w) ==
  /\ pc = "run" /\ reading_output /\ typed[w] = <<>>
  /\ Travelling(w) \/ Running(w) \/ Answered(w)

OneLine == Resting \/ \E w \in Window : UnderWay(w)

(***************************************************************************)
(* The inductive invariant                                                 *)
(***************************************************************************)

(* The manager is asked for a connection only while nothing is under way. *)
Asking == \E p \in Peer : peer[p] = "connecting"
AskedAtRest ==
  /\ Asking => ~reading_output /\ \A w \in Window : typed[w] = <<>>
  /\ Asking \/ pc = "frame" => NoOutput

TypedOnce ==
  \A w \in Window : typed[w] # <<>> =>
    \E line \in Line : line.from = w /\ typed[w] = <<line>>

(* Nobody but kill_spad and close_client ends a window, and there is no
   HyperDoc.                                                               *)
GuestsLive ==
  /\ \A w \in Window : w \in Listed <=> peer[w] = "open"
  /\ closedFd = {} /\ menu_client = Null /\ menuCmd = <<>> /\ peer[Menu] = "absent"
  /\ ttyOut \in Seq(Window) /\ ioOut \in Seq(Window)

(* The frames of the windows are in the ring, and that of the active session
   in front of it, unless it is about to change.                           *)
InRing ==
  \A w \in Framed : \/ frame[w] \in Range(frameRing)
                    \/ \E i \in DOMAIN fromLisp : /\ fromLisp[i].cmd = "CloseClient"
                                                  /\ fromLisp[i].frame = frame[w]
InFront ==
  pc = "run" /\ active_session # Null
    /\ ~Has(toLisp, "SwitchFrames") /\ ~Has(fromLisp, "CloseClient")
  => Head(frameRing) = frame[active_session]

RanAtHome ==
  \A r \in ran : /\ frame[r[1]] = r[2] /\ peer[r[1]] \in {"open", "dead"}
                 /\ pc = "frame" => r[1] # plSock[1]

(* While users take turns there is one line in the whole system, and its
   output comes while its window is active.                                *)
OneAlone ==
  ~overlapped =>
    /\ \A w \in Window : shown[w] \subseteq {w}
    /\ \A v, w \in Window : typed[v] # <<>> /\ typed[w] # <<>> => v = w
    /\ (\E w \in Window : typed[w] # <<>>) => NoOutput /\ pc = "run" /\ ~reading_output
    /\ ~NoLine \/ lispPc # "read" => NoOutput
    /\ \A i \in DOMAIN ttyOut : active_session \in {ttyOut[i], Null}
    /\ \A i \in DOMAIN ioOut : active_session \in {ioOut[i], Null}

PoliteInv ==
  OneLine /\ AskedAtRest /\ TypedOnce /\ GuestsLive /\ InRing /\ InFront /\ RanAtHome /\ OneAlone

(* What is left of it when the system has ended. *)
PoliteEnd ==
  /\ pc \notin {"crashed", "desync"} /\ lispPc # "desync"
  /\ LineRunsInItsFrame /\ OutputToOwner

PoliteUse == PoliteEnd /\ (~Final => PoliteInv)

(***************************************************************************)
(* Lemmas                                                                  *)
(***************************************************************************)

(* A queue of one message. *)
LEMMA OneMessage ==
  ASSUME NEW m
  PROVE  /\ <<m>> # <<>> /\ Head(<<m>>) = m /\ Tail(<<m>>) = <<>>
         /\ Append(<<>>, m) = <<m>> /\ <<>> \o <<m>> = <<m>>
         /\ DOMAIN <<m>> = {1} /\ <<m>>[1] = m
OBVIOUS

(* A queue of two messages, and what taking the first leaves. *)
LEMMA TwoMessages ==
  ASSUME NEW m, NEW n
  PROVE  /\ <<m, n>> # <<>> /\ Head(<<m, n>>) = m /\ Tail(<<m, n>>) = <<n>>
         /\ Append(<<m>>, n) = <<m, n>>
         /\ DOMAIN <<m, n>> = {1, 2} /\ <<m, n>>[1] = m /\ <<m, n>>[2] = n
<1>1. Head(<<m, n>>) = m /\ DOMAIN <<m, n>> = {1, 2} /\ <<m, n>>[1] = m /\ <<m, n>>[2] = n
  OBVIOUS
<1>2. Tail(<<m, n>>) = <<n>> /\ <<m, n>> # <<>>
  OBVIOUS
<1>3. Append(<<m>>, n) = <<m, n>>
  <2> DEFINE S == {m, n}
             p == Append(<<m>>, n)
             q == <<m, n>>
  <2>1. <<m>> \in Seq(S) /\ n \in S /\ Len(<<m>>) = 1 /\ <<m>>[1] = m
    OBVIOUS
  <2>2. q \in Seq(S) /\ Len(q) = 2 /\ q[1] = m /\ q[2] = n
    OBVIOUS
  <2> HIDE DEF S, q
  <2>3. p \in Seq(S) /\ Len(p) = 2 /\ p[1] = m /\ p[2] = n
    BY <2>1, AppendProperties
  <2> HIDE DEF p
  <2>4. \A i \in 1..Len(p) : p[i] = q[i]
    BY <2>2, <2>3
  <2>5. p = q
    BY <2>2, <2>3, <2>4, SeqEqual
  <2> QED BY <2>5 DEF p, q
<1> QED BY <1>1, <1>2, <1>3

(* What a queue of one message holds, and an empty one. *)
LEMMA HasOne ==
  ASSUME NEW m, NEW c
  PROVE  /\ Has(<<m>>, c) <=> m.cmd = c
         /\ ~Has(<<>>, c)
<1>1. DOMAIN <<m>> = {1} /\ <<m>>[1] = m
  OBVIOUS
<1>2. \A i : i \notin DOMAIN <<>>
  OBVIOUS
<1> QED BY <1>1, <1>2 DEF Has

(* The commands tell themselves apart. *)
LEMMA Commands ==
  /\ CreateMsg.cmd = "CreateFrame" /\ QueryMsg.cmd = "QueryClients" /\ EndMsg.cmd = "EndOfOutput"
  /\ \A f : GivenMsg(f).cmd = "NewFrame" /\ GivenMsg(f).frame = f
  /\ \A f : SwitchMsg(f).cmd = "SwitchFrames" /\ SwitchMsg(f).frame = f
  /\ \A n : CountMsg(n).cmd = "NumClients" /\ CountMsg(n).num = n
  /\ \A f : LeaveMsg(f).cmd = "CloseClient" /\ LeaveMsg(f).frame = f
BY DEF CreateMsg, QueryMsg, EndMsg, GivenMsg, SwitchMsg, CountMsg, LeaveMsg

(* changeToNamedInterpreterFrame brings the frame to the front and loses none. *)
LEMMA FrontOfRing ==
  ASSUME NEW S, NEW s \in Seq(S), NEW i \in DOMAIN s
  PROVE  LET r == <<s[i]>> \o RemoveAt(s, i)
         IN  Head(r) = s[i] /\ \A j \in DOMAIN s : s[j] \in Range(r)
<1> DEFINE t == RemoveAt(s, i)
           r == <<s[i]>> \o t
<1>1. /\ t \in Seq(S) /\ Len(s) \in Nat /\ i \in 1..Len(s) /\ DOMAIN s = 1..Len(s)
      /\ DOMAIN t = 1..(Len(s) - 1)
      /\ \A j \in 1..(Len(s) - 1) : t[j] = IF j < i THEN s[j] ELSE s[j + 1]
  BY RemoveAtItems
<1>2. s[i] \in S
  OBVIOUS
<1> HIDE DEF t
<1>3. t \in Seq(S)
  BY <1>1
<1>4. /\ r \in Seq(S) /\ DOMAIN t = 1..Len(t) /\ Len(t) \in Nat
      /\ DOMAIN r = 1..(Len(t) + 1)
      /\ \A j \in 1..(Len(t) + 1) : r[j] = IF j = 1 THEN s[i] ELSE t[j - 1]
  BY <1>2, <1>3, FrontItems
<1> HIDE DEF r
<1>5. r # <<>> /\ Head(r) = s[i]
  BY <1>4
<1>6. ASSUME NEW j \in DOMAIN s
      PROVE  s[j] \in Range(r)
  <2>1. CASE j = i
    BY <1>4, <2>1 DEF Range
  <2>2. CASE j < i
    <3>1. j \in DOMAIN t /\ t[j] = s[j]
      BY <1>1, <2>2
    <3>2. j + 1 \in DOMAIN r /\ r[j + 1] = t[j]
      BY <1>4, <3>1
    <3> QED BY <3>1, <3>2 DEF Range
  <2>3. CASE j > i
    <3>1. j - 1 \in DOMAIN t /\ t[j - 1] = s[j]
      BY <1>1, <2>3
    <3>2. j \in DOMAIN r /\ r[j] = t[j - 1]
      BY <1>4, <3>1
    <3> QED BY <3>1, <3>2 DEF Range
  <2> QED BY <1>1, <2>1, <2>2, <2>3
<1> QED BY <1>5, <1>6 DEF r, t

(* What the steps are proved from. *)
Context ==
  TypeInv /\ ListInv /\ FrameInv /\ FollowInv /\ PoliteInv /\ ~Final

(* The types that the proofs about polite use need. *)
LEMMA ContextFacts ==
  ASSUME Context
  PROVE  /\ toLisp \in Seq(ToLisp) /\ fromLisp \in Seq(FromLisp)
         /\ ioIn \in Seq(Line) /\ ttyIn \in Seq(Line)
         /\ plSock \in Seq(Window) /\ Listed \subseteq Window
         /\ peer \in [Peer -> PeerState] /\ typed \in [Window -> Seq(Line)]
         /\ frame \in [Window -> Nat] /\ frameNumber \in Nat /\ currentFrameNum \in Nat
         /\ frameRing \in Seq(RingFrame) /\ frameRing # <<>>
         /\ active_session \in Listed \cup {Null}
         /\ pc \in {"run", "frame"} /\ lispPc \in {"read", "eval", "count"}
         /\ pc = "frame" => plSock # <<>> /\ plSock[1] \in Listed
         /\ Window \subseteq Peer /\ {Menu, Killer} \subseteq Peer
         /\ Null \notin Window /\ Menu \notin Window /\ Killer \notin Window /\ Menu # Killer
<1>1. TypeInv /\ ListInv /\ ~Final
  BY DEF Context
<1>2. /\ toLisp \in Seq(ToLisp) /\ fromLisp \in Seq(FromLisp) /\ plSock \in Seq(Window)
      /\ frame \in [Window -> Nat] /\ Listed \subseteq Window
      /\ frameNumber \in Nat /\ currentFrameNum \in Nat /\ (pc = "frame" => plSock # <<>>)
  BY <1>1, FrameTypes
<1>3. /\ ioIn \in Seq(Line) /\ ttyIn \in Seq(Line) /\ peer \in [Peer -> PeerState]
      /\ typed \in [Window -> Seq(Line)]
  BY <1>1 DEF TypeInv, TypeOK, ChannelsTypeOK
<1>4. /\ frameRing \in Seq(RingFrame) /\ frameRing # <<>>
      /\ lispPc \in {"read", "eval", "count", "quit", "desync"}
  BY <1>1 DEF TypeInv, TypeOK, LispTypeOK, LispInv
<1>7. pc \in {"run", "frame"} /\ lispPc \in {"read", "eval", "count"}
  BY <1>1, <1>4 DEF TypeInv, TypeOK, SessionTypeOK, Final
<1>6. pc = "frame" => plSock[1] \in Listed
  BY <1>2 DEF Listed, Range
<1>5. active_session \in Listed \cup {Null}
  BY <1>1 DEF ListInv, ActiveIsListed
<1> QED BY <1>2, <1>3, <1>4, <1>5, <1>6, <1>7, NamesDistinct DEF Peer

(* What the parts of the system show of where the line is. *)
LEMMA WhereTheLineIs ==
  ASSUME Context
  PROVE  /\ ~reading_output => Resting
         /\ pc = "frame" => Resting
         /\ ~NoLine => \E w \in Window : UnderWay(w) /\ Travelling(w)
         /\ lispPc # "read" => \E w \in Window : UnderWay(w) /\ Running(w)
         /\ lispPc = "read" /\ needSignal => \E w \in Window : UnderWay(w) /\ Answered(w)
         /\ Resting => ~reading_output
<1>1. OneLine
  BY DEF Context, PoliteInv
<1>2. \A w : Travelling(w) => ~NoLine /\ lispPc = "read" /\ ~needSignal
  BY DEF Travelling, NoLine
<1>3. \A w : Running(w) => NoLine /\ lispPc # "read" /\ needSignal
  BY DEF Running
<1>4. \A w : Answered(w) => NoLine /\ lispPc = "read"
  BY DEF Answered
<1>5. \A w : UnderWay(w) => pc = "run" /\ reading_output /\ (Travelling(w) \/ Running(w) \/ Answered(w))
  BY DEF UnderWay
<1>6. Resting => NoLine /\ lispPc = "read" /\ ~needSignal /\ ~reading_output
  BY DEF Resting
<1> QED BY <1>1, <1>2, <1>3, <1>4, <1>5, <1>6, Zenon DEF OneLine

(* What shows who has sent what. *)
LEMMA WhoSent ==
  ASSUME Context
  PROVE  /\ toLisp # <<>> /\ Head(toLisp).cmd = "CreateFrame" =>
              Resting /\ pc = "frame" /\ toLisp = <<CreateMsg>> /\ fromLisp = <<>>
         /\ toLisp # <<>> /\ Head(toLisp).cmd = "SwitchFrames" =>
              \E w \in Window : UnderWay(w) /\ Travelling(w) /\ toLisp = <<SwitchMsg(frame[w])>>
         /\ fromLisp # <<>> /\ Head(fromLisp).cmd = "NewFrame" =>
              /\ Resting /\ pc = "frame" /\ toLisp = <<>> /\ fromLisp = <<GivenMsg(currentFrameNum)>>
              /\ Head(frameRing) = currentFrameNum
         /\ fromLisp # <<>> /\ Head(fromLisp).cmd = "QueryClients" =>
              \E w \in Window : /\ UnderWay(w) /\ Running(w) /\ lispPc = "count"
                                /\ toLisp = <<>> /\ fromLisp = <<QueryMsg>>
         /\ fromLisp # <<>> /\ Head(fromLisp).cmd = "EndOfOutput" =>
              \E w \in Window : /\ UnderWay(w) /\ Answered(w) /\ ~needSignal
                                /\ fromLisp = <<EndMsg>>
         /\ fromLisp # <<>> /\ Head(fromLisp).cmd = "CloseClient" =>
              \E w \in Window : /\ UnderWay(w) /\ Answered(w) /\ active_session = w
                                /\ \/ needSignal /\ fromLisp = <<LeaveMsg(frame[w])>>
                                   \/ ~needSignal /\ fromLisp = <<LeaveMsg(frame[w]), EndMsg>>
         /\ lispPc = "count" /\ toLisp # <<>> =>
              \E w \in Window : /\ UnderWay(w) /\ Running(w) /\ fromLisp = <<>>
                                /\ toLisp = <<CountMsg(num_active_clients)>>
         /\ pc = "frame" /\ fromLisp # <<>> => Head(fromLisp).cmd = "NewFrame"
<1> DEFINE Rest1 == Resting /\ pc = "run" /\ toLisp = <<>> /\ fromLisp = <<>>
           Rest2 == Resting /\ pc = "frame" /\ toLisp = <<CreateMsg>> /\ fromLisp = <<>>
           Rest3 == /\ Resting /\ pc = "frame" /\ toLisp = <<>>
                    /\ fromLisp = <<GivenMsg(currentFrameNum)>> /\ Head(frameRing) = currentFrameNum
<1>1. Resting => Rest1 \/ Rest2 \/ Rest3
  BY DEF Resting
<1>2. OneLine
  BY DEF Context, PoliteInv
<1>3. \A w : Travelling(w) => /\ lispPc = "read" /\ fromLisp = <<>>
                              /\ toLisp = <<>> \/ toLisp = <<SwitchMsg(frame[w])>>
  BY DEF Travelling
<1>4. \A w : Running(w) =>
        \/ toLisp = <<>> /\ fromLisp = <<>>
        \/ lispPc = "count" /\ toLisp = <<>> /\ fromLisp = <<QueryMsg>>
        \/ lispPc = "count" /\ toLisp = <<CountMsg(num_active_clients)>> /\ fromLisp = <<>>
  BY DEF Running
<1>5. \A w : Answered(w) =>
        /\ lispPc = "read" /\ toLisp = <<>>
        /\ \/ fromLisp = <<>>
           \/ ~needSignal /\ fromLisp = <<EndMsg>>
           \/ active_session = w /\ needSignal /\ fromLisp = <<LeaveMsg(frame[w])>>
           \/ active_session = w /\ ~needSignal /\ fromLisp = <<LeaveMsg(frame[w]), EndMsg>>
  BY DEF Answered
<1>6. \A w : UnderWay(w) => pc = "run" /\ (Travelling(w) \/ Running(w) \/ Answered(w))
  BY DEF UnderWay
<1>7. /\ \A m : Head(<<m>>) = m /\ <<m>> # <<>>
      /\ \A m, n : Head(<<m, n>>) = m
  BY OneMessage, TwoMessages
<1>8. lispPc # "read" => ~Resting
  BY DEF Resting
<1>9. CASE Resting
  BY <1>1, <1>7, <1>8, <1>9, Commands
<1>10. ASSUME NEW w \in Window, UnderWay(w)
       PROVE  \/ /\ Travelling(w) /\ fromLisp = <<>> /\ lispPc = "read" /\ pc = "run"
                 /\ toLisp = <<>> \/ toLisp = <<SwitchMsg(frame[w])>>
              \/ Running(w) /\ toLisp = <<>> /\ fromLisp = <<>> /\ pc = "run"
              \/ /\ Running(w) /\ lispPc = "count" /\ toLisp = <<>> /\ fromLisp = <<QueryMsg>>
                 /\ pc = "run"
              \/ /\ Running(w) /\ lispPc = "count" /\ toLisp = <<CountMsg(num_active_clients)>>
                 /\ fromLisp = <<>> /\ pc = "run"
              \/ /\ Answered(w) /\ lispPc = "read" /\ toLisp = <<>> /\ pc = "run"
                 /\ \/ fromLisp = <<>>
                    \/ ~needSignal /\ fromLisp = <<EndMsg>>
                    \/ active_session = w /\ needSignal /\ fromLisp = <<LeaveMsg(frame[w])>>
                    \/ active_session = w /\ ~needSignal /\ fromLisp = <<LeaveMsg(frame[w]), EndMsg>>
  BY <1>3, <1>4, <1>5, <1>6, <1>10, Zenon
<1>11. CASE \E w \in Window : UnderWay(w)
  <2>1. PICK w \in Window : UnderWay(w)
    BY <1>11
  <2> QED BY <1>7, <1>10, <2>1, Commands
<1> QED BY <1>2, <1>9, <1>11 DEF OneLine

(* The parts of the invariant that a step leaves alone. *)
LEMMA GuestsKept ==
  ASSUME GuestsLive, UNCHANGED <<plSock, peer, closedFd, menu_client, menuCmd, ttyOut, ioOut>>
  PROVE  GuestsLive'
BY DEF GuestsLive, Listed

(* A line that was run stays in the frame it ran in. *)
LEMMA RanKept ==
  ASSUME RanAtHome, UNCHANGED <<ran, frame, peer>>, pc' = "run" \/ UNCHANGED <<pc, plSock>>
  PROVE  RanAtHome'
BY DEF RanAtHome

(* While nothing is typed, every line that was typed is so once. *)
LEMMA TypedKept ==
  ASSUME TypedOnce, UNCHANGED typed
  PROVE  TypedOnce'
BY DEF TypedOnce

(* What was typed at rest stays so while nothing is typed or displayed. *)
LEMMA AskedKept ==
  ASSUME AskedAtRest, UNCHANGED <<peer, typed, ttyOut, ioOut>>,
         reading_output' => reading_output, pc' = "frame" => pc = "frame"
  PROVE  AskedAtRest'
BY DEF AskedAtRest, Asking, NoOutput

(* All frames are in the ring while no client is to be closed. *)
LEMMA RingWhole ==
  ASSUME InRing, ~Has(fromLisp, "CloseClient")
  PROVE  \A w \in Framed : frame[w] \in Range(frameRing)
BY DEF InRing, Has

(* Frames that nobody closes stay in the ring. *)
LEMMA RingKept ==
  ASSUME InRing, ~Has(fromLisp, "CloseClient"), UNCHANGED <<frame, frameRing, plSock, pc>>
  PROVE  InRing'
<1>1. Framed' = Framed
  BY DEF Framed, Listed
<1>2. \A w \in Framed : frame[w] \in Range(frameRing)
  BY RingWhole
<1> QED BY <1>1, <1>2 DEF InRing

(* The manager reads a line, which is the only one past it from now on. *)
LEMMA LineIsRead ==
  ASSUME Context, NEW w \in Window, read_from_session(w), UNCHANGED <<lispVars, useVars>>
  PROVE  PoliteInv'
<1>1. /\ pc = "run" /\ pc' = "run" /\ (active_session = w \/ ~reading_output) /\ typed[w] # <<>>
      /\ toLisp' = SwitchTo(w) /\ active_session' = w
      /\ typed' = [typed EXCEPT ![w] = Tail(@)]
      /\ ioIn' = Append(ioIn, Head(typed[w])) /\ reading_output' = TRUE
      /\ UNCHANGED <<plSock, frame, num_active_clients, menu_client, closedFd, fromLisp, ttyIn,
                     ttyOut, ioOut, peer, shown, pc>>
      /\ UNCHANGED <<lispPc, curLine, needSignal, currentFrameNum, frameRing, menuCmd, ran, overlapped>>
  BY DEF read_from_session, ReadFromSession, WindowTurn, MayRead, lispVars, useVars
<1>2. PoliteInv /\ OneLine /\ TypedOnce
  BY DEF Context, PoliteInv
<1>3. w # Null /\ typed \in [Window -> Seq(Line)]
  BY ContextFacts
<1>4. ~reading_output
  <2> SUFFICES ASSUME reading_output PROVE FALSE
    OBVIOUS
  <2>1. PICK v \in Window : UnderWay(v)
    BY <1>2, WhereTheLineIs DEF OneLine
  <2>2. active_session \in {v, Null}
    BY <2>1 DEF UnderWay, Travelling, Running, Answered
  <2>3. v = w
    BY <1>1, <1>3, <2>2
  <2> QED BY <1>1, <2>1, <2>3 DEF UnderWay
<1>5. Resting /\ toLisp = <<>> /\ fromLisp = <<>> /\ NoLine /\ lispPc = "read" /\ ~needSignal
  BY <1>1, <1>4, WhereTheLineIs DEF Resting
<1>6. ~Asking
  BY <1>1, <1>2 DEF PoliteInv, AskedAtRest
<1>7. PICK line \in Line : line.from = w /\ typed[w] = <<line>>
  BY <1>1, <1>2 DEF TypedOnce
<1>8. Head(typed[w]) = line /\ Tail(typed[w]) = <<>>
  BY <1>7, OneMessage
<1>9. /\ ioIn' = <<line>> /\ ttyIn' = <<>>
      /\ typed'[w] = <<>> /\ \A v \in Window \ {w} : typed'[v] = typed[v]
  BY <1>1, <1>3, <1>5, <1>8, OneMessage DEF NoLine
<1>10. toLisp' = <<>> \/ toLisp' = <<SwitchMsg(frame[w])>>
  <2>1. CASE w = active_session
    BY <1>1, <1>5, <2>1 DEF SwitchTo
  <2>2. CASE w # active_session
    <3>1. toLisp' = Append(<<>>, SwitchMsg(frame[w]))
      BY <1>1, <1>5, <2>2 DEF SwitchTo, SwitchMsg
    <3> QED BY <3>1, OneMessage
  <2> QED BY <2>1, <2>2
<1>11. Travelling(w)'
  BY <1>1, <1>5, <1>7, <1>9, <1>10 DEF Travelling
<1>12. UnderWay(w)'
  BY <1>1, <1>9, <1>11 DEF UnderWay
<1>13. OneLine'
  BY <1>12 DEF OneLine
<1>14. AskedAtRest'
  BY <1>1, <1>6 DEF AskedAtRest, Asking
<1>15. TypedOnce'
  BY <1>2, <1>9 DEF TypedOnce
<1>16. GuestsLive' /\ RanAtHome'
  BY <1>1, <1>2, GuestsKept, RanKept DEF PoliteInv
<1>17. ~Has(fromLisp, "CloseClient") /\ ~Has(fromLisp', "CloseClient")
  BY <1>1, <1>5, HasOne
<1>18. InRing'
  BY <1>1, <1>2, <1>17, RingKept DEF PoliteInv
<1>19. InFront'
  <2>1. CASE w = active_session
    <3>1. InFront /\ ~Has(toLisp, "SwitchFrames")
      BY <1>2, <1>5, HasOne DEF PoliteInv
    <3> QED BY <1>1, <1>3, <1>17, <2>1, <3>1 DEF InFront
  <2>2. CASE w # active_session
    <3>1. toLisp' = Append(<<>>, SwitchMsg(frame[w]))
      BY <1>1, <1>5, <2>2 DEF SwitchTo, SwitchMsg
    <3>2. Has(toLisp', "SwitchFrames")
      BY <3>1, OneMessage, HasOne, Commands
    <3> QED BY <3>2 DEF InFront
  <2> QED BY <2>1, <2>2
<1>20. OneAlone'
  <2> SUFFICES ASSUME ~overlapped PROVE OneAlone'
    BY <1>1 DEF OneAlone
  <2>1. OneAlone
    BY <1>2 DEF PoliteInv
  <2>2. NoOutput /\ NoOutput'
    BY <1>1, <2>1 DEF OneAlone, NoOutput
  <2>3. \A v \in Window : typed'[v] = <<>>
    BY <1>1, <1>9, <2>1 DEF OneAlone
  <2>4. DOMAIN ttyOut' = {} /\ DOMAIN ioOut' = {}
    BY <2>2 DEF NoOutput
  <2>5. \A v \in Window : shown'[v] \subseteq {v}
    BY <1>1, <2>1 DEF OneAlone
  <2> QED BY <2>2, <2>3, <2>4, <2>5 DEF OneAlone
<1> QED BY <1>13, <1>14, <1>15, <1>16, <1>18, <1>19, <1>20 DEF PoliteInv

(* Nothing that the invariant is about changes. *)
LEMMA LineKept ==
  ASSUME OneLine,
         UNCHANGED <<ioIn, ttyIn, lispPc, curLine, needSignal, currentFrameNum, frameRing, toLisp,
                     fromLisp, pc, reading_output, active_session, num_active_clients, frame, typed>>
  PROVE  OneLine'
<1>1. \A w \in Window : UnderWay(w) => UnderWay(w)'
  BY DEF UnderWay, Travelling, Running, Answered, NoLine
<1>2. Resting => Resting'
  BY DEF Resting, NoLine
<1> QED BY <1>1, <1>2 DEF OneLine

(* A step that leaves all of these alone keeps the invariant. *)
LEMMA AllKept ==
  ASSUME PoliteInv,
         UNCHANGED <<toLisp, fromLisp, ioPipes, windows, lispVars, useVars, plSock, frame,
                     active_session, num_active_clients, reading_output, menu_client, closedFd, pc>>
  PROVE  PoliteInv'
<1>1. /\ UNCHANGED <<ioIn, ttyIn, ttyOut, ioOut, peer, typed, shown>>
      /\ UNCHANGED <<lispPc, curLine, needSignal, currentFrameNum, frameRing, menuCmd, ran, overlapped>>
  BY DEF ioPipes, windows, lispVars, useVars
<1>2. OneLine'
  BY <1>1, LineKept DEF PoliteInv
<1>3. AskedAtRest' /\ TypedOnce' /\ GuestsLive' /\ RanAtHome'
  BY <1>1, AskedKept, TypedKept, GuestsKept, RanKept DEF PoliteInv
<1>4. InRing' /\ InFront'
  BY <1>1 DEF PoliteInv, InRing, InFront, Framed, Listed
<1>5. OneAlone'
  BY <1>1 DEF PoliteInv, OneAlone, NoOutput, NoLine
<1> QED BY <1>2, <1>3, <1>4, <1>5 DEF PoliteInv

(* The manager hands a chunk of output to the active session. *)
LEMMA OutputArrives ==
  ASSUME Context, read_from_spad_io, UNCHANGED <<lispVars, useVars>>
  PROVE  PoliteInv'
<1>1. /\ pc = "run" /\ ioOut # <<>> /\ ioOut' = Tail(ioOut)
      /\ UNCHANGED <<toLisp, fromLisp, ioIn, ttyIn, ttyOut, peer, typed, plSock, frame, active_session,
                     num_active_clients, reading_output, menu_client, pc>>
      /\ UNCHANGED <<lispPc, curLine, needSignal, currentFrameNum, frameRing, menuCmd, ran, overlapped>>
  BY DEF read_from_spad_io, IoTurn, lispSocket, lispVars, useVars
<1>2. /\ active_session = Null => UNCHANGED <<shown, closedFd>>
      /\ active_session # Null /\ peer[active_session] # "dead" =>
           /\ shown' = [shown EXCEPT ![active_session] = @ \cup {Head(ioOut)}]
           /\ UNCHANGED closedFd
  BY DEF read_from_spad_io
<1>3. PoliteInv /\ GuestsLive /\ AskedAtRest /\ OneAlone /\ TypedOnce /\ OneLine
  BY DEF Context, PoliteInv
<1>4. active_session \in Listed \cup {Null} /\ Listed \subseteq Window
  BY ContextFacts
<1>5. active_session # Null => peer[active_session] = "open" /\ active_session \in Window
  BY <1>3, <1>4 DEF GuestsLive
<1>6. UNCHANGED closedFd
  BY <1>2, <1>5
<1>7. ioOut \in Seq(Window)
  BY <1>3 DEF GuestsLive
<1>8. /\ ioOut' \in Seq(Window) /\ Head(ioOut) = ioOut[1] /\ 1 \in DOMAIN ioOut
      /\ \A i \in DOMAIN ioOut' : i + 1 \in DOMAIN ioOut /\ ioOut'[i] = ioOut[i + 1]
  BY <1>1, <1>7, HeadTailItems
<1>9. ~NoOutput
  BY <1>1 DEF NoOutput
<1>10. OneLine'
  BY <1>1, <1>3, LineKept
<1>11. AskedAtRest'
  BY <1>1, <1>3, <1>9 DEF AskedAtRest, Asking
<1>12. TypedOnce' /\ RanAtHome'
  BY <1>1, <1>3, TypedKept, RanKept DEF PoliteInv
<1>13. GuestsLive'
  BY <1>1, <1>3, <1>6, <1>8 DEF GuestsLive, Listed
<1>14. InRing' /\ InFront'
  BY <1>1, <1>3 DEF PoliteInv, InRing, InFront, Framed, Listed
<1>15. OneAlone'
  <2> SUFFICES ASSUME ~overlapped PROVE OneAlone'
    BY <1>1 DEF OneAlone
  <2>1. \A w \in Window : typed'[w] = <<>>
    BY <1>1, <1>3, <1>9 DEF OneAlone
  <2>2. NoLine' /\ lispPc' = "read"
    BY <1>1, <1>3, <1>9 DEF OneAlone, NoLine
  <2>3. \A i \in DOMAIN ioOut' : active_session' \in {ioOut'[i], Null}
    BY <1>1, <1>3, <1>8 DEF OneAlone
  <2>4. \A i \in DOMAIN ttyOut' : active_session' \in {ttyOut'[i], Null}
    BY <1>1, <1>3 DEF OneAlone
  <2>5. \A w \in Window : shown'[w] \subseteq {w}
    <3>1. shown \in [Window -> SUBSET (Window \cup {Menu})]
      BY DEF Context, TypeInv, TypeOK, ChannelsTypeOK
    <3>2. \A w \in Window : shown[w] \subseteq {w}
      BY <1>3 DEF OneAlone
    <3>3. CASE active_session = Null
      BY <1>2, <3>2, <3>3
    <3>4. CASE active_session # Null
      <4>1. shown' = [shown EXCEPT ![active_session] = @ \cup {Head(ioOut)}]
        BY <1>2, <1>5, <3>4
      <4>2. Head(ioOut) = active_session
        BY <1>3, <1>8, <3>4 DEF OneAlone
      <4> QED BY <3>1, <3>2, <4>1, <4>2
    <3> QED BY <3>3, <3>4
  <2> QED BY <2>1, <2>2, <2>3, <2>4, <2>5 DEF OneAlone
<1> QED BY <1>10, <1>11, <1>12, <1>13, <1>14, <1>15 DEF PoliteInv

(* The manager learns that the line is done. *)
LEMMA EndIsHeard ==
  ASSUME Context, EndOfOutput, UNCHANGED <<lispVars, useVars>>
  PROVE  PoliteInv'
<1>1. /\ pc = "run" /\ pc' = "run" /\ fromLisp # <<>> /\ Head(fromLisp).cmd = "EndOfOutput"
      /\ fromLisp' = Tail(fromLisp) /\ reading_output' = FALSE
      /\ closedFd' = closedFd \cup {p \in {menu_client} \ {Null} : peer[p] = "dead"}
      /\ UNCHANGED <<toLisp, ioIn, ttyIn, ttyOut, ioOut, peer, typed, shown, plSock, frame,
                     active_session, num_active_clients, menu_client, pc>>
      /\ UNCHANGED <<lispPc, curLine, needSignal, currentFrameNum, frameRing, menuCmd, ran, overlapped>>
  BY DEF EndOfOutput, EndOfOutputThen, SpadTurn, ioPipes, windows, lispVars, useVars
<1>2. PoliteInv /\ GuestsLive /\ AskedAtRest /\ OneAlone /\ InRing /\ InFront
  BY DEF Context, PoliteInv
<1>3. PICK w \in Window : UnderWay(w) /\ Answered(w) /\ ~needSignal /\ fromLisp = <<EndMsg>>
  BY <1>1, WhoSent
<1>4. fromLisp' = <<>> /\ toLisp = <<>> /\ NoLine /\ lispPc = "read" /\ reading_output
  BY <1>1, <1>3, OneMessage DEF Answered, UnderWay
<1>5. OneLine'
  BY <1>1, <1>3, <1>4 DEF OneLine, Resting, NoLine
<1>6. UNCHANGED closedFd
  BY <1>1, <1>2 DEF GuestsLive
<1>7. AskedAtRest' /\ TypedOnce' /\ GuestsLive' /\ RanAtHome'
  BY <1>1, <1>2, <1>6, AskedKept, TypedKept, GuestsKept, RanKept DEF PoliteInv
<1>8. ~Has(fromLisp, "CloseClient") /\ ~Has(fromLisp', "CloseClient")
  BY <1>3, <1>4, HasOne, Commands
<1>9. InRing' /\ InFront'
  BY <1>1, <1>2, <1>8, RingKept DEF InFront
<1>10. OneAlone'
  BY <1>1, <1>2 DEF OneAlone, NoOutput, NoLine
<1> QED BY <1>5, <1>7, <1>9, <1>10 DEF PoliteInv

(* The manager tells Lisp how many clients it has. *)
LEMMA CountIsTold ==
  ASSUME Context, QueryClients, UNCHANGED <<lispVars, useVars>>
  PROVE  PoliteInv'
<1>1. /\ pc = "run" /\ pc' = "run" /\ fromLisp # <<>> /\ Head(fromLisp).cmd = "QueryClients"
      /\ fromLisp' = Tail(fromLisp) /\ toLisp' = Append(toLisp, CountMsg(num_active_clients))
      /\ UNCHANGED <<ioIn, ttyIn, ttyOut, ioOut, peer, typed, shown, plSock, frame, reading_output,
                     active_session, num_active_clients, menu_client, closedFd, pc>>
      /\ UNCHANGED <<lispPc, curLine, needSignal, currentFrameNum, frameRing, menuCmd, ran, overlapped>>
  BY DEF QueryClients, SpadTurn, ioPipes, windows, lispVars, useVars, CountMsg
<1>2. PoliteInv /\ OneAlone /\ InFront
  BY DEF Context, PoliteInv
<1>3. PICK w \in Window : /\ UnderWay(w) /\ Running(w) /\ lispPc = "count"
                          /\ toLisp = <<>> /\ fromLisp = <<QueryMsg>>
  BY <1>1, WhoSent
<1>4. fromLisp' = <<>> /\ toLisp' = <<CountMsg(num_active_clients)>>
  BY <1>1, <1>3, OneMessage
<1>5. Running(w)'
  BY <1>1, <1>3, <1>4 DEF Running, NoLine, CountMsg
<1>6. OneLine'
  BY <1>1, <1>3, <1>5 DEF OneLine, UnderWay
<1>7. AskedAtRest' /\ TypedOnce' /\ GuestsLive' /\ RanAtHome'
  BY <1>1, <1>2, AskedKept, TypedKept, GuestsKept, RanKept DEF PoliteInv
<1>8. /\ ~Has(fromLisp, "CloseClient") /\ ~Has(fromLisp', "CloseClient")
      /\ ~Has(toLisp, "SwitchFrames")
  BY <1>3, <1>4, HasOne, Commands
<1>9. InRing' /\ InFront'
  BY <1>1, <1>2, <1>8, RingKept DEF PoliteInv, InFront
<1>10. OneAlone'
  BY <1>1, <1>2 DEF OneAlone, NoOutput, NoLine
<1> QED BY <1>6, <1>7, <1>9, <1>10 DEF PoliteInv

(* close_client kills the window whose line closed its frame, and no other
   window loses its frame by it.                                           *)
LEMMA ClientIsClosed ==
  ASSUME Context, close_client, UNCHANGED <<lispVars, useVars>>
  PROVE  PoliteInv'
<1>1. /\ pc = "run" /\ fromLisp # <<>> /\ Head(fromLisp).cmd = "CloseClient"
      /\ fromLisp' = Tail(fromLisp)
      /\ UNCHANGED <<toLisp, ioIn, ttyIn, ttyOut, ioOut, typed, shown, frame, reading_output,
                     menu_client, closedFd>>
      /\ UNCHANGED <<lispPc, curLine, needSignal, currentFrameNum, frameRing, menuCmd, ran, overlapped>>
  BY DEF close_client, SpadTurn, ioPipes, lispVars, useVars
<1>2. /\ PoliteInv /\ OneAlone /\ InFront /\ GuestsLive /\ RanAtHome /\ InRing /\ AskedAtRest
      /\ TypedOnce
  BY DEF Context, PoliteInv
<1>3. PICK w \in Window : /\ UnderWay(w) /\ Answered(w) /\ active_session = w
                          /\ \/ needSignal /\ fromLisp = <<LeaveMsg(frame[w])>>
                             \/ ~needSignal /\ fromLisp = <<LeaveMsg(frame[w]), EndMsg>>
  BY <1>1, WhoSent
<1>4. Head(fromLisp).frame = frame[w]
  BY <1>3, OneMessage, TwoMessages, Commands
<1>5. \/ fromLisp' = <<>> /\ needSignal
      \/ fromLisp' = <<EndMsg>> /\ ~needSignal
  <2>1. ASSUME needSignal, fromLisp = <<LeaveMsg(frame[w])>>
        PROVE  fromLisp' = <<>>
    BY <1>1, <2>1, OneMessage
  <2>2. ASSUME ~needSignal, fromLisp = <<LeaveMsg(frame[w]), EndMsg>>
        PROVE  fromLisp' = <<EndMsg>>
    BY <1>1, <2>2, TwoMessages
  <2> QED BY <1>3, <2>1, <2>2
<1>6. /\ w \in Listed /\ w # Null /\ plSock \in Seq(Window) /\ Listed \subseteq Window
      /\ peer \in [Peer -> PeerState] /\ Window \subseteq Peer /\ Menu \notin Window
  BY <1>3, ContextFacts
<1>7. \A u, v \in Listed : frame[u] = frame[v] => u = v
  BY <1>1 DEF Context, FrameInv, FramesOnce, Framed
<1>8. PICK k \in DOMAIN plSock : plSock[k] = w
  BY <1>6 DEF Listed, Range
<1>9. {i \in DOMAIN plSock : frame[plSock[i]] = Head(fromLisp).frame} = {i \in DOMAIN plSock : plSock[i] = w}
  BY <1>4, <1>6, <1>7 DEF Listed, Range
<1>10. PICK i \in DOMAIN plSock : plSock[i] = w /\ CloseFound(i)
  BY <1>8, <1>9 DEF close_client
<1>11. /\ peer' = [peer EXCEPT ![w] = "dead"] /\ plSock' = RemoveAt(plSock, i)
       /\ active_session' = Null /\ pc' = "run"
  BY <1>1, <1>10 DEF CloseFound, CloseFoundWith
<1>12. Listed' = Listed \ {w}
  BY <1>6, <1>10, <1>11, RemoveAtInjective DEF Context, ListInv, ListWellFormed, Listed
<1>13. \A p \in Peer : peer'[p] = IF p = w THEN "dead" ELSE peer[p]
  BY <1>6, <1>11
<1>14. NoLine' /\ lispPc' = "read" /\ curLine' # Null /\ curLine'.from = w /\ toLisp' = <<>>
  BY <1>1, <1>3 DEF Answered, NoLine
<1>15. Answered(w)'
  BY <1>1, <1>5, <1>11, <1>14 DEF Answered, EndMsg
<1>16. reading_output /\ typed[w] = <<>>
  BY <1>3 DEF UnderWay
<1>17. OneLine'
  BY <1>1, <1>11, <1>15, <1>16 DEF OneLine, UnderWay
<1>18. AskedAtRest'
  BY <1>1, <1>2, <1>11, <1>13, <1>16 DEF AskedAtRest, Asking
<1>19. TypedOnce'
  BY <1>1, <1>2, TypedKept
<1>20. GuestsLive'
  <2>1. \A v \in Window : v \in Listed' <=> peer'[v] = "open"
    BY <1>2, <1>6, <1>12, <1>13 DEF GuestsLive
  <2>2. peer'[Menu] = peer[Menu]
    BY <1>6, <1>13 DEF Peer
  <2> QED BY <1>1, <1>2, <2>1, <2>2 DEF GuestsLive
<1>21. InRing'
  <2> SUFFICES ASSUME NEW v \in Framed' PROVE frame[v] \in Range(frameRing)
    BY <1>1 DEF InRing
  <2>1. v \in Listed /\ v # w /\ v \in Framed
    BY <1>1, <1>11, <1>12 DEF Framed
  <2>2. frame[v] # frame[w]
    BY <1>6, <1>7, <2>1
  <2>3. \A j \in DOMAIN fromLisp :
           fromLisp[j].cmd = "CloseClient" => fromLisp[j].frame = frame[w]
    BY <1>3, OneMessage, TwoMessages, Commands
  <2> QED BY <1>2, <2>1, <2>2, <2>3 DEF InRing
<1>22. InFront'
  BY <1>11 DEF InFront
<1>23. RanAtHome'
  <2>1. \A r \in ran : r[1] \in Window
    BY DEF Context, TypeInv, TypeOK, LispTypeOK
  <2> QED BY <1>1, <1>2, <1>6, <1>11, <1>13, <2>1 DEF RanAtHome
<1>24. OneAlone'
  BY <1>1, <1>2, <1>11, <1>16 DEF OneAlone, NoOutput, NoLine
<1> QED BY <1>17, <1>18, <1>19, <1>20, <1>21, <1>22, <1>23, <1>24 DEF PoliteInv

(* A window is accepted, and a frame asked for, while nothing is under way. *)
LEMMA WindowIsAccepted ==
  ASSUME Context, NEW w \in Window, AcceptInterpWindow(w), UNCHANGED <<lispVars, useVars>>
  PROVE  PoliteInv'
<1>1. /\ pc = "run" /\ pc' = "frame" /\ peer[w] = "connecting"
      /\ peer' = [peer EXCEPT ![w] = "open"] /\ plSock' = <<w>> \o plSock
      /\ toLisp' = Append(toLisp, CreateMsg)
      /\ UNCHANGED <<fromLisp, ioIn, ttyIn, ttyOut, ioOut, typed, shown, frame, reading_output,
                     active_session, num_active_clients, menu_client, closedFd>>
      /\ UNCHANGED <<lispPc, curLine, needSignal, currentFrameNum, frameRing, menuCmd, ran, overlapped>>
  BY DEF AcceptInterpWindow, AcceptWindow, ServerTurn, ioPipes, lispVars, useVars, CreateMsg
<1>2. /\ PoliteInv /\ OneAlone /\ GuestsLive /\ RanAtHome /\ InRing /\ AskedAtRest /\ TypedOnce
  BY DEF Context, PoliteInv
<1>3. /\ plSock \in Seq(Window) /\ Listed \subseteq Window
      /\ peer \in [Peer -> PeerState] /\ Window \subseteq Peer /\ Menu \notin Window
  BY ContextFacts
<1>4. Asking
  BY <1>1, <1>3 DEF Asking
<1>5. ~reading_output /\ NoOutput /\ \A v \in Window : typed[v] = <<>>
  BY <1>2, <1>4 DEF AskedAtRest
<1>6. Resting /\ toLisp = <<>> /\ fromLisp = <<>> /\ NoLine /\ lispPc = "read" /\ ~needSignal
  BY <1>1, <1>5, WhereTheLineIs DEF Resting
<1>7. toLisp' = <<CreateMsg>>
  BY <1>1, <1>6, OneMessage
<1>8. Resting'
  BY <1>1, <1>5, <1>6, <1>7 DEF Resting, NoLine, CreateMsg
<1>9. /\ DOMAIN plSock' = 1..(Len(plSock) + 1) /\ DOMAIN plSock = 1..Len(plSock)
      /\ Len(plSock) \in Nat
      /\ \A i \in 1..(Len(plSock) + 1) : plSock'[i] = IF i = 1 THEN w ELSE plSock[i - 1]
  BY <1>1, <1>3, FrontItems
<1>10. plSock'[1] = w /\ Listed' = Listed \cup {w}
  <2>1. plSock'[1] = w /\ w \in Listed'
    BY <1>9 DEF Listed, Range
  <2>2. Listed' \subseteq Listed \cup {w}
    <3>1. ASSUME NEW i \in DOMAIN plSock', plSock'[i] # w
          PROVE  i - 1 \in DOMAIN plSock /\ plSock'[i] = plSock[i - 1]
      BY <1>9, <3>1
    <3> QED BY <3>1 DEF Listed, Range
  <2>3. Listed \subseteq Listed'
    <3>1. ASSUME NEW i \in DOMAIN plSock
          PROVE  i + 1 \in DOMAIN plSock' /\ plSock'[i + 1] = plSock[i]
      BY <1>9
    <3> QED BY <3>1 DEF Listed, Range
  <2> QED BY <2>1, <2>2, <2>3
<1>11. \A p \in Peer : peer'[p] = IF p = w THEN "open" ELSE peer[p]
  BY <1>1, <1>3
<1>12. Framed' \subseteq Framed
  BY <1>1, <1>10 DEF Framed
<1>13. AskedAtRest'
  BY <1>1, <1>5 DEF AskedAtRest, NoOutput
<1>14. TypedOnce' /\ InRing'
  BY <1>1, <1>2, <1>12, TypedKept DEF InRing
<1>15. InFront'
  BY <1>1 DEF InFront
<1>16. GuestsLive'
  <2>1. \A v \in Window : v \in Listed' <=> peer'[v] = "open"
    BY <1>2, <1>3, <1>10, <1>11 DEF GuestsLive
  <2>2. peer'[Menu] = peer[Menu]
    BY <1>3, <1>11 DEF Peer
  <2> QED BY <1>1, <1>2, <2>1, <2>2 DEF GuestsLive
<1>17. RanAtHome'
  <2>1. \A r \in ran : r[1] \in Peer /\ r[1] # w
    BY <1>1, <1>2, <1>3 DEF Context, TypeInv, TypeOK, LispTypeOK, RanAtHome
  <2> QED BY <1>1, <1>2, <1>10, <1>11, <2>1 DEF RanAtHome
<1>18. OneAlone'
  <2>1. DOMAIN ttyOut = {} /\ DOMAIN ioOut = {}
    BY <1>5 DEF NoOutput
  <2> QED BY <1>1, <1>2, <1>5, <2>1 DEF OneAlone, NoOutput
<1> QED BY <1>8, <1>13, <1>14, <1>15, <1>16, <1>17, <1>18 DEF PoliteInv, OneLine

(* The number of its frame comes; Lisp is in that frame. *)
LEMMA FrameIsGiven ==
  ASSUME Context, AcceptFrameReply, UNCHANGED <<lispVars, useVars>>
  PROVE  PoliteInv'
<1> DEFINE w == plSock[1]
<1>1. /\ pc = "frame" /\ pc' = "run" /\ fromLisp # <<>> /\ Head(fromLisp).cmd = "NewFrame"
      /\ fromLisp' = Tail(fromLisp) /\ frame' = [frame EXCEPT ![w] = Head(fromLisp).frame]
      /\ active_session' = w /\ (peer[w] # "dead" => UNCHANGED closedFd)
      /\ UNCHANGED <<toLisp, ioIn, ttyIn, ttyOut, ioOut, peer, typed, shown, plSock,
                     reading_output, menu_client>>
      /\ UNCHANGED <<lispPc, curLine, needSignal, currentFrameNum, frameRing, menuCmd, ran, overlapped>>
  BY DEF AcceptFrameReply, ioPipes, windows, lispVars, useVars
<1>2. /\ PoliteInv /\ OneAlone /\ GuestsLive /\ RanAtHome /\ InRing /\ AskedAtRest /\ TypedOnce
  BY DEF Context, PoliteInv
<1>3. /\ w \in Listed /\ Listed \subseteq Window /\ frame \in [Window -> Nat]
      /\ frameRing \in Seq(RingFrame) /\ frameRing # <<>>
  BY <1>1, ContextFacts
<1>4. /\ Resting /\ toLisp = <<>> /\ fromLisp = <<GivenMsg(currentFrameNum)>>
      /\ Head(frameRing) = currentFrameNum
  BY <1>1, WhoSent
<1>5. Head(fromLisp).frame = currentFrameNum /\ fromLisp' = <<>>
  BY <1>1, <1>4, OneMessage, Commands
<1> HIDE DEF w
<1>6. UNCHANGED closedFd
  BY <1>1, <1>2, <1>3 DEF GuestsLive
<1>7. NoLine /\ lispPc = "read" /\ ~needSignal /\ ~reading_output
  BY <1>4 DEF Resting
<1>8. Resting'
  BY <1>1, <1>4, <1>5, <1>7 DEF Resting, NoLine
<1>9. NoOutput
  BY <1>1, <1>2 DEF AskedAtRest
<1>10. AskedAtRest' /\ TypedOnce' /\ GuestsLive'
  BY <1>1, <1>2, <1>6, AskedKept, TypedKept, GuestsKept
<1>11. \A v \in Window : frame'[v] = IF v = w THEN currentFrameNum ELSE frame[v]
  BY <1>1, <1>3, <1>5
<1>12. InRing'
  <2> SUFFICES ASSUME NEW v \in Framed' PROVE frame'[v] \in Range(frameRing)
    BY <1>1 DEF InRing
  <2>1. v \in Listed
    BY <1>1 DEF Framed, Listed
  <2>2. CASE v = w
    BY <1>3, <1>4, <1>11, <2>2, TailRange
  <2>3. CASE v # w
    <3>1. v \in Framed
      BY <1>1, <2>1, <2>3 DEF Framed, w
    <3>2. ~Has(fromLisp, "CloseClient")
      BY <1>4, HasOne, Commands
    <3>3. frame[v] \in Range(frameRing)
      BY <1>2, <3>1, <3>2, RingWhole
    <3> QED BY <1>3, <1>11, <2>1, <2>3, <3>3
  <2> QED BY <2>2, <2>3
<1>13. InFront'
  BY <1>1, <1>3, <1>4, <1>11 DEF InFront
<1>14. RanAtHome'
  <2>1. \A r \in ran : r[1] \in Window /\ r[1] # w
    BY <1>1, <1>2 DEF Context, TypeInv, TypeOK, LispTypeOK, RanAtHome, w
  <2> QED BY <1>1, <1>2, <1>11, <2>1 DEF RanAtHome
<1>15. OneAlone'
  <2>1. DOMAIN ttyOut = {} /\ DOMAIN ioOut = {}
    BY <1>9 DEF NoOutput
  <2> QED BY <1>1, <1>2, <1>7, <1>9, <2>1 DEF OneAlone, NoOutput, NoLine
<1> QED BY <1>8, <1>10, <1>12, <1>13, <1>14, <1>15 DEF PoliteInv, OneLine

(* Lisp signals the end of the output of the line it has run. *)
LEMMA EndIsSignalled ==
  ASSUME Context, SignalEndOfOutput, UNCHANGED <<sessionVars, useVars>>
  PROVE  PoliteInv'
<1>1. /\ lispPc = "read" /\ needSignal /\ needSignal' = FALSE
      /\ fromLisp' = Append(fromLisp, EndMsg)
      /\ UNCHANGED <<toLisp, ioIn, ttyIn, ttyOut, ioOut, peer, typed, shown, plSock, frame, reading_output,
                     active_session, num_active_clients, menu_client, closedFd, pc>>
      /\ UNCHANGED <<lispPc, curLine, currentFrameNum, frameRing, menuCmd, ran, overlapped>>
  BY DEF SignalEndOfOutput, sessionVars, useVars, ioPipes, windows, EndMsg
<1>2. PoliteInv /\ OneAlone /\ InFront /\ InRing
  BY DEF Context, PoliteInv
<1>3. PICK w \in Window : UnderWay(w) /\ Answered(w)
  BY <1>1, WhereTheLineIs
<1>4. \/ fromLisp = <<>> /\ fromLisp' = <<EndMsg>> /\ active_session \in {w, Null}
      \/ /\ fromLisp = <<LeaveMsg(frame[w])>> /\ fromLisp' = <<LeaveMsg(frame[w]), EndMsg>>
         /\ active_session = w
  <2>1. ASSUME fromLisp = <<>>
        PROVE  fromLisp' = <<EndMsg>>
    BY <1>1, <2>1, OneMessage
  <2>2. ASSUME fromLisp = <<LeaveMsg(frame[w])>>
        PROVE  fromLisp' = <<LeaveMsg(frame[w]), EndMsg>>
    BY <1>1, <2>2, TwoMessages
  <2> QED BY <1>1, <1>3, <2>1, <2>2 DEF Answered
<1>5. Answered(w)'
  BY <1>1, <1>3, <1>4 DEF Answered, NoLine, EndMsg, LeaveMsg
<1>6. OneLine'
  BY <1>1, <1>3, <1>5 DEF OneLine, UnderWay
<1>7. AskedAtRest' /\ TypedOnce' /\ GuestsLive' /\ RanAtHome'
  BY <1>1, <1>2, AskedKept, TypedKept, GuestsKept, RanKept DEF PoliteInv
<1>8. /\ \A i \in DOMAIN fromLisp : i \in DOMAIN fromLisp' /\ fromLisp'[i] = fromLisp[i]
      /\ Has(fromLisp, "CloseClient") => Has(fromLisp', "CloseClient")
  <2>1. CASE fromLisp = <<>>
    BY <2>1 DEF Has
  <2>2. CASE fromLisp = <<LeaveMsg(frame[w])>> /\ fromLisp' = <<LeaveMsg(frame[w]), EndMsg>>
    BY <2>2, OneMessage, TwoMessages DEF Has
  <2> QED BY <1>4, <2>1, <2>2
<1>9. Framed' = Framed
  BY <1>1 DEF Framed, Listed
<1>10. InRing' /\ InFront'
  BY <1>1, <1>2, <1>8, <1>9 DEF InRing, InFront
<1>11. OneAlone'
  BY <1>1, <1>2 DEF OneAlone, NoOutput, NoLine
<1> QED BY <1>6, <1>7, <1>10, <1>11 DEF PoliteInv

(* Lisp makes a frame and goes there. *)
LEMMA FrameIsCreated ==
  ASSUME Context, CreateFrame, UNCHANGED <<sessionVars, useVars>>
  PROVE  PoliteInv'
<1>1. /\ toLisp # <<>> /\ Head(toLisp).cmd = "CreateFrame" /\ toLisp' = Tail(toLisp)
      /\ frameRing' = <<frameNumber>> \o frameRing /\ currentFrameNum' = frameNumber
      /\ fromLisp' = Append(fromLisp, GivenMsg(frameNumber))
      /\ UNCHANGED <<ioIn, ttyIn, ttyOut, ioOut, peer, typed, shown, plSock, frame, reading_output,
                     active_session, num_active_clients, menu_client, closedFd, pc>>
      /\ UNCHANGED <<lispPc, curLine, needSignal, menuCmd, ran, overlapped>>
  BY DEF CreateFrame, CreateFrameAs, sessionVars, useVars, ioPipes, windows, GivenMsg
<1>2. PoliteInv /\ OneAlone /\ InRing
  BY DEF Context, PoliteInv
<1>3. Resting /\ pc = "frame" /\ toLisp = <<CreateMsg>> /\ fromLisp = <<>>
  BY <1>1, WhoSent
<1>4. toLisp' = <<>> /\ fromLisp' = <<GivenMsg(currentFrameNum')>>
  BY <1>1, <1>3, OneMessage
<1>5. /\ DOMAIN frameRing' = 1..(Len(frameRing) + 1) /\ DOMAIN frameRing = 1..Len(frameRing)
      /\ Len(frameRing) \in Nat /\ frameRing' \in Seq(RingFrame)
      /\ \A i \in 1..(Len(frameRing) + 1) :
           frameRing'[i] = IF i = 1 THEN frameNumber ELSE frameRing[i - 1]
  <2>1. frameRing \in Seq(RingFrame) /\ frameNumber \in RingFrame
    BY ContextFacts DEF RingFrame, Frame
  <2> QED BY <1>1, <2>1, FrontItems
<1>6. Head(frameRing') = currentFrameNum'
  BY <1>1, <1>5
<1>7. Range(frameRing) \subseteq Range(frameRing')
  <2>1. ASSUME NEW i \in DOMAIN frameRing
        PROVE  i + 1 \in DOMAIN frameRing' /\ frameRing'[i + 1] = frameRing[i]
    BY <1>5
  <2> QED BY <2>1 DEF Range
<1>8. NoLine /\ lispPc = "read" /\ ~needSignal /\ ~reading_output
  BY <1>3 DEF Resting
<1>9. Resting'
  BY <1>1, <1>3, <1>4, <1>6, <1>8 DEF Resting, NoLine, GivenMsg
<1>10. AskedAtRest' /\ TypedOnce' /\ GuestsLive' /\ RanAtHome'
  BY <1>1, <1>2, AskedKept, TypedKept, GuestsKept, RanKept DEF PoliteInv
<1>11. InRing'
  <2>1. \A w \in Framed : frame[w] \in Range(frameRing)
    BY <1>2, <1>3, HasOne, RingWhole
  <2>2. Framed' = Framed
    BY <1>1 DEF Framed, Listed
  <2> QED BY <1>1, <1>7, <2>1, <2>2 DEF InRing
<1>12. InFront'
  BY <1>1, <1>3 DEF InFront
<1>13. OneAlone'
  BY <1>1, <1>2 DEF OneAlone, NoOutput, NoLine
<1> QED BY <1>9, <1>10, <1>11, <1>12, <1>13 DEF PoliteInv, OneLine

(* Lisp goes to the frame of the line that follows. *)
LEMMA FrameIsSwitched ==
  ASSUME Context, SwitchFrames, UNCHANGED <<sessionVars, useVars>>
  PROVE  PoliteInv'
<1>1. /\ toLisp # <<>> /\ Head(toLisp).cmd = "SwitchFrames" /\ toLisp' = Tail(toLisp)
      /\ frameRing' = changeToNamedInterpreterFrame(Head(toLisp).frame)
      /\ UNCHANGED <<fromLisp, ioIn, ttyIn, ttyOut, ioOut, peer, typed, shown, plSock, frame,
                     reading_output, active_session, num_active_clients, menu_client, closedFd, pc>>
      /\ UNCHANGED <<lispPc, curLine, needSignal, menuCmd, ran, overlapped>>
  BY DEF SwitchFrames, sessionVars, useVars, ioPipes, windows
<1>2. PoliteInv /\ OneAlone /\ InRing
  BY DEF Context, PoliteInv
<1>3. PICK w \in Window : UnderWay(w) /\ Travelling(w) /\ toLisp = <<SwitchMsg(frame[w])>>
  BY <1>1, WhoSent
<1>4. toLisp' = <<>> /\ Head(toLisp).frame = frame[w]
  BY <1>1, <1>3, OneMessage, Commands
<1>5. fromLisp = <<>> /\ active_session = w /\ pc = "run" /\ w # Null
  BY <1>3, ContextFacts DEF Travelling, UnderWay
<1>6. w \in Framed
  BY <1>5, ContextFacts DEF Framed
<1>7. \A v \in Framed : frame[v] \in Range(frameRing)
  BY <1>2, <1>5, HasOne, RingWhole
<1>8. Head(frameRing') = frame[w] /\ Range(frameRing) \subseteq Range(frameRing')
  <2> DEFINE at == {i \in DOMAIN frameRing : frameRing[i] = frame[w]}
             i == CHOOSE i \in at : TRUE
  <2>1. at # {}
    BY <1>6, <1>7 DEF Range
  <2>2. i \in DOMAIN frameRing /\ frameRing[i] = frame[w]
    BY <2>1
  <2>3. frameRing' = <<frame[w]>> \o RemoveAt(frameRing, i)
    BY <1>1, <1>4, <2>1 DEF changeToNamedInterpreterFrame
  <2>4. frameRing \in Seq(RingFrame)
    BY ContextFacts
  <2> HIDE DEF i, at
  <2>5. /\ Head(<<frameRing[i]>> \o RemoveAt(frameRing, i)) = frameRing[i]
        /\ \A j \in DOMAIN frameRing :
             frameRing[j] \in Range(<<frameRing[i]>> \o RemoveAt(frameRing, i))
    BY <2>2, <2>4, FrontOfRing
  <2>6. Head(frameRing') = frame[w] /\ \A j \in DOMAIN frameRing : frameRing[j] \in Range(frameRing')
    BY <2>2, <2>3, <2>5
  <2>7. \A x \in Range(frameRing) : \E j \in DOMAIN frameRing : x = frameRing[j]
    BY DEF Range
  <2> QED BY <2>6, <2>7
<1>9. Travelling(w)'
  BY <1>1, <1>3, <1>4 DEF Travelling
<1>10. OneLine'
  BY <1>1, <1>3, <1>9 DEF OneLine, UnderWay
<1>11. AskedAtRest' /\ TypedOnce' /\ GuestsLive' /\ RanAtHome'
  BY <1>1, <1>2, AskedKept, TypedKept, GuestsKept, RanKept DEF PoliteInv
<1>12. InRing'
  <2>1. Framed' = Framed
    BY <1>1 DEF Framed, Listed
  <2> QED BY <1>1, <1>7, <1>8, <2>1 DEF InRing
<1>13. InFront'
  BY <1>1, <1>5, <1>8 DEF InFront
<1>14. OneAlone'
  BY <1>1, <1>2 DEF OneAlone, NoOutput, NoLine
<1> QED BY <1>10, <1>11, <1>12, <1>13, <1>14 DEF PoliteInv

(* Lisp reads the line, in the frame of the window it was typed in. *)
LEMMA LineIsCalled ==
  ASSUME Context, CallInterp, UNCHANGED <<sessionVars, useVars>>
  PROVE  PoliteInv'
<1>1. /\ toLisp = <<>> /\ ttyIn # <<>> /\ ttyIn' = Tail(ttyIn) /\ curLine' = Head(ttyIn)
      /\ needSignal' = TRUE /\ lispPc' = "eval"
      /\ ran' = ran \cup {<<Head(ttyIn).from, Head(frameRing)>>}
      /\ UNCHANGED <<toLisp, fromLisp, ioIn, ttyOut, ioOut, peer, typed, shown, plSock, frame,
                     reading_output, active_session, num_active_clients, menu_client, closedFd, pc>>
      /\ UNCHANGED <<currentFrameNum, frameRing, menuCmd, overlapped>>
  BY DEF CallInterp, sessionVars, useVars, ioPipes, windows, lispSocket
<1>2. PoliteInv /\ OneAlone /\ InRing /\ InFront /\ RanAtHome /\ GuestsLive
  BY DEF Context, PoliteInv
<1>3. ~NoLine
  BY <1>1 DEF NoLine
<1>4. PICK w \in Window : UnderWay(w) /\ Travelling(w)
  BY <1>3, WhereTheLineIs
<1>5. PICK line \in Line : line.from = w /\ ioIn = <<>> /\ ttyIn = <<line>>
  BY <1>1, <1>4 DEF Travelling
<1>6. /\ fromLisp = <<>> /\ active_session = w /\ pc = "run" /\ w # Null /\ w \in Listed
      /\ reading_output
  BY <1>4, ContextFacts DEF Travelling, UnderWay
<1>7. Head(ttyIn) = line /\ ttyIn' = <<>>
  BY <1>1, <1>5, OneMessage
<1>8. Head(frameRing) = frame[w]
  BY <1>1, <1>2, <1>6, HasOne DEF InFront
<1>9. Running(w)'
  BY <1>1, <1>5, <1>6, <1>7 DEF Running, NoLine
<1>10. OneLine'
  BY <1>1, <1>4, <1>9 DEF OneLine, UnderWay
<1>11. AskedAtRest' /\ TypedOnce' /\ GuestsLive'
  BY <1>1, <1>2, AskedKept, TypedKept, GuestsKept DEF PoliteInv
<1>12. InRing' /\ InFront'
  <2>1. Framed' = Framed
    BY <1>1 DEF Framed, Listed
  <2> QED BY <1>1, <1>2, <2>1 DEF InRing, InFront
<1>13. RanAtHome'
  <2>1. peer[w] = "open"
    BY <1>2, <1>6 DEF GuestsLive
  <2>2. ran' = ran \cup {<<w, frame[w]>>}
    BY <1>1, <1>5, <1>7, <1>8
  <2> QED BY <1>1, <1>2, <1>6, <2>1, <2>2 DEF RanAtHome
<1>14. OneAlone'
  BY <1>1, <1>2, <1>3, <1>6 DEF OneAlone, NoOutput
<1> QED BY <1>10, <1>11, <1>12, <1>13, <1>14 DEF PoliteInv

(* Lisp prints for a line while its window is active. *)
LEMMA LinePrints ==
  ASSUME Context, NEW w \in Window, UnderWay(w), Running(w),
         ttyOut' = Append(ttyOut, curLine.from), lispPc' = "read",
         UNCHANGED <<ioIn, ttyIn, ioOut, peer, typed, shown, plSock, reading_output,
                     active_session, menu_client, closedFd, pc, menuCmd, overlapped>>
  PROVE  AskedAtRest' /\ TypedOnce' /\ GuestsLive' /\ OneAlone'
<1>1. /\ pc = "run" /\ reading_output /\ NoLine /\ curLine.from = w /\ active_session = w
      /\ lispPc # "read"
  BY DEF UnderWay, Running
<1>2. GuestsLive /\ OneAlone /\ AskedAtRest /\ TypedOnce
  BY DEF Context, PoliteInv
<1>3. ttyOut \in Seq(Window) /\ ttyOut' \in Seq(Window)
  BY <1>1, <1>2 DEF GuestsLive
<1>4. AskedAtRest' /\ TypedOnce' /\ GuestsLive'
  BY <1>1, <1>2, <1>3 DEF AskedAtRest, Asking, TypedOnce, GuestsLive, Listed
<1>5. OneAlone'
  <2> SUFFICES ASSUME ~overlapped PROVE OneAlone'
    BY DEF OneAlone
  <2>1. ttyOut = <<>> /\ ioOut = <<>>
    BY <1>1, <1>2 DEF OneAlone, NoOutput
  <2>2. ttyOut' = <<w>> /\ DOMAIN ioOut' = {}
    BY <1>1, <2>1, OneMessage
  <2>3. \A i \in DOMAIN ttyOut' : ttyOut'[i] = w
    BY <2>2, OneMessage
  <2> QED BY <1>1, <1>2, <2>2, <2>3 DEF OneAlone, NoLine
<1> QED BY <1>4, <1>5

(* Evaluating the line that Lisp holds keeps the invariant. *)
LEMMA LineIsEvaluated ==
  ASSUME Context, Evaluate, UNCHANGED <<sessionVars, useVars>>
  PROVE  PoliteInv'
<1>1. /\ lispPc = "eval" /\ lispPc' = "read" /\ ttyOut' = Append(ttyOut, curLine.from)
      /\ UNCHANGED <<toLisp, fromLisp, ioIn, ttyIn, ioOut, peer, typed, shown, plSock, frame,
                     reading_output, active_session, num_active_clients, menu_client, closedFd, pc>>
      /\ UNCHANGED <<curLine, needSignal, currentFrameNum, frameRing, menuCmd, ran, overlapped>>
  BY DEF Evaluate, Printed, sessionVars, useVars, windows, lispSocket
<1>2. PoliteInv /\ InRing /\ InFront /\ RanAtHome
  BY DEF Context, PoliteInv
<1>3. PICK w \in Window : UnderWay(w) /\ Running(w)
  BY <1>1, WhereTheLineIs
<1>4. curLine # Null
  <2>1. curLine \in Line
    BY <1>1 DEF Context, TypeInv, LispInv
  <2>2. curLine.from = w /\ w \in Window /\ Null \notin Window
    BY <1>3, ContextFacts DEF Running
  <2> QED BY <2>1, NoLineIsNull
<1>5. toLisp = <<>> /\ fromLisp = <<>>
  BY <1>1, <1>3 DEF Running
<1>6. Answered(w)'
  BY <1>1, <1>3, <1>4, <1>5 DEF Running, Answered, NoLine
<1>7. OneLine'
  BY <1>1, <1>3, <1>6 DEF OneLine, UnderWay
<1>8. AskedAtRest' /\ TypedOnce' /\ GuestsLive' /\ OneAlone'
  BY <1>1, <1>3, LinePrints
<1>9. RanAtHome'
  BY <1>1, <1>2, RanKept
<1>10. InRing' /\ InFront'
  <2>1. Framed' = Framed
    BY <1>1 DEF Framed, Listed
  <2> QED BY <1>1, <1>2, <2>1 DEF InRing, InFront
<1> QED BY <1>7, <1>8, <1>9, <1>10 DEF PoliteInv

(* The line is )close; Lisp asks for the number of clients. *)
LEMMA CountIsAsked ==
  ASSUME Context, queryClients, UNCHANGED <<sessionVars, useVars>>
  PROVE  PoliteInv'
<1>1. /\ lispPc = "eval" /\ lispPc' = "count" /\ fromLisp' = Append(fromLisp, QueryMsg)
      /\ UNCHANGED <<toLisp, ioIn, ttyIn, ttyOut, ioOut, peer, typed, shown, plSock, frame,
                     reading_output, active_session, num_active_clients, menu_client, closedFd, pc>>
      /\ UNCHANGED <<curLine, needSignal, currentFrameNum, frameRing, menuCmd, ran, overlapped>>
  BY DEF queryClients, sessionVars, useVars, ioPipes, windows, QueryMsg
<1>2. PoliteInv /\ InRing /\ InFront /\ OneAlone
  BY DEF Context, PoliteInv
<1>3. PICK w \in Window : UnderWay(w) /\ Running(w)
  BY <1>1, WhereTheLineIs
<1>4. toLisp = <<>> /\ fromLisp = <<>> /\ fromLisp' = <<QueryMsg>>
  BY <1>1, <1>3, OneMessage DEF Running
<1>5. Running(w)'
  BY <1>1, <1>3, <1>4 DEF Running, NoLine, QueryMsg
<1>6. OneLine'
  BY <1>1, <1>3, <1>5 DEF OneLine, UnderWay
<1>7. AskedAtRest' /\ TypedOnce' /\ GuestsLive' /\ RanAtHome'
  BY <1>1, <1>2, AskedKept, TypedKept, GuestsKept, RanKept DEF PoliteInv
<1>8. ~Has(fromLisp, "CloseClient")
  BY <1>4, HasOne
<1>9. InRing' /\ InFront'
  BY <1>1, <1>2, <1>8, RingKept DEF InFront
<1>10. OneAlone'
  BY <1>1, <1>2 DEF OneAlone, NoOutput
<1> QED BY <1>6, <1>7, <1>9, <1>10 DEF PoliteInv

(* )close: the frame it closes is that of the window it was typed in. *)
LEMMA LineCloses ==
  ASSUME Polite, Context, Close, lispPc' # "quit", UNCHANGED <<sessionVars, useVars>>
  PROVE  PoliteInv'
<1>1. /\ lispPc = "count" /\ toLisp # <<>> /\ toLisp' = Tail(toLisp)
      /\ lispPc' = "read" /\ ttyOut' = Append(ttyOut, curLine.from)
      /\ \/ /\ fromLisp' = fromLisp \o <<LeaveMsg(currentFrameNum)>>
            /\ frameRing' = closeInterpreterFrame
         \/ UNCHANGED <<fromLisp, frameRing>>
      /\ UNCHANGED <<ioIn, ttyIn, ioOut, peer, typed, shown, plSock, frame,
                     reading_output, active_session, num_active_clients, menu_client, closedFd, pc>>
      /\ UNCHANGED <<curLine, needSignal, currentFrameNum, menuCmd, ran, overlapped>>
  BY DEF Close, CloseSending, CloseMsg, Printed, sessionVars, useVars, windows, LeaveMsg
<1>2. PoliteInv /\ InRing /\ InFront /\ RanAtHome
  BY DEF Context, PoliteInv
<1>3. PICK w \in Window : /\ UnderWay(w) /\ Running(w) /\ fromLisp = <<>>
                          /\ toLisp = <<CountMsg(num_active_clients)>>
  BY <1>1, WhoSent
<1>4. /\ pc = "run" /\ active_session = w /\ w # Null /\ curLine.from = w /\ needSignal
      /\ NoLine /\ w \in Listed
  BY <1>3, ContextFacts DEF UnderWay, Running
<1>5. toLisp' = <<>> /\ ~Has(toLisp, "SwitchFrames") /\ ~Has(fromLisp, "CloseClient")
  BY <1>1, <1>3, OneMessage, HasOne, Commands
<1>6. currentFrameNum = frame[w]
  <2>1. WillBeIn(frame[w])
    BY <1>4 DEF Context, FollowInv, Follows, Astray, Polite
  <2> QED BY <1>5, <2>1 DEF WillBeIn, Has
<1>7. Head(frameRing) = frame[w]
  BY <1>2, <1>4, <1>5 DEF InFront
<1>8. \A v \in Framed : frame[v] \in Range(frameRing)
  BY <1>2, <1>5, RingWhole
<1>9. curLine # Null
  <2>1. curLine \in Line
    BY <1>1 DEF Context, TypeInv, LispInv
  <2> QED BY <1>4, <2>1, NoLineIsNull
<1>10. Framed' = Framed
  BY <1>1 DEF Framed, Listed
<1>11. AskedAtRest' /\ TypedOnce' /\ GuestsLive' /\ OneAlone' /\ RanAtHome'
  BY <1>1, <1>2, <1>3, LinePrints, RanKept
<1>12. CASE fromLisp' = fromLisp \o <<LeaveMsg(currentFrameNum)>> /\ frameRing' = closeInterpreterFrame
  <2>1. fromLisp' = <<LeaveMsg(frame[w])>>
    BY <1>3, <1>6, <1>12, OneMessage
  <2>2. Answered(w)'
    BY <1>1, <1>4, <1>5, <1>9, <2>1 DEF Answered, NoLine, LeaveMsg
  <2>3. OneLine'
    BY <1>1, <1>3, <2>2 DEF OneLine, UnderWay
  <2>4. Has(fromLisp', "CloseClient")
    BY <2>1, HasOne, Commands
  <2>5. InFront'
    BY <2>4 DEF InFront
  <2>6. \A x \in Range(frameRing) : x = Head(frameRing) \/ x \in Range(frameRing')
    <3>1. frameRing \in Seq(RingFrame) /\ frameRing # <<>>
      BY ContextFacts
    <3>2. Range(frameRing) = Range(Tail(frameRing)) \cup {Head(frameRing)}
      BY <3>1, TailRange
    <3>3. frameRing' \in {frameRing, Tail(frameRing)}
      BY <1>12 DEF closeInterpreterFrame
    <3> QED BY <3>2, <3>3
  <2>7. /\ 1 \in DOMAIN fromLisp'
        /\ fromLisp'[1].cmd = "CloseClient" /\ fromLisp'[1].frame = frame[w]
    BY <2>1, OneMessage, Commands
  <2>8. ASSUME NEW v \in Framed'
        PROVE  \/ frame'[v] \in Range(frameRing')
               \/ \E i \in DOMAIN fromLisp' : /\ fromLisp'[i].cmd = "CloseClient"
                                              /\ fromLisp'[i].frame = frame'[v]
    <3>1. frame[v] \in Range(frameRing) /\ frame'[v] = frame[v]
      BY <1>1, <1>8, <1>10
    <3>2. CASE frame[v] = frame[w]
      BY <2>7, <3>1, <3>2
    <3>3. CASE frame[v] # frame[w]
      BY <1>7, <2>6, <3>1, <3>3
    <3> QED BY <3>2, <3>3
  <2>9. InRing'
    BY <2>8 DEF InRing
  <2> QED BY <1>11, <2>3, <2>5, <2>9 DEF PoliteInv
<1>13. CASE UNCHANGED <<fromLisp, frameRing>>
  <2>1. Answered(w)'
    BY <1>1, <1>3, <1>4, <1>5, <1>9, <1>13 DEF Answered, NoLine
  <2>2. OneLine'
    BY <1>1, <1>3, <2>1 DEF OneLine, UnderWay
  <2>3. InRing'
    BY <1>1, <1>2, <1>10, <1>13 DEF InRing
  <2>4. InFront'
    BY <1>1, <1>2, <1>5, <1>13 DEF InFront
  <2> QED BY <1>11, <2>2, <2>3, <2>4 DEF PoliteInv
<1> QED BY <1>1, <1>12, <1>13

(* sman's relay hands the line on, ... *)
LEMMA LineIsRelayed ==
  ASSUME Context, read_from_manager, UNCHANGED <<sessionVars, lispVars, useVars>>
  PROVE  PoliteInv'
<1>1. /\ ioIn # <<>> /\ ttyIn' = Append(ttyIn, Head(ioIn)) /\ ioIn' = Tail(ioIn)
      /\ UNCHANGED <<toLisp, fromLisp, ttyOut, ioOut, peer, typed, shown, plSock, frame,
                     reading_output, active_session, num_active_clients, menu_client, closedFd, pc>>
      /\ UNCHANGED <<lispPc, curLine, needSignal, currentFrameNum, frameRing, menuCmd, ran, overlapped>>
  BY DEF read_from_manager, sessionVars, lispVars, useVars, lispSocket, windows
<1>2. PoliteInv /\ InRing /\ InFront /\ OneAlone
  BY DEF Context, PoliteInv
<1>3. ~NoLine
  BY <1>1 DEF NoLine
<1>4. PICK w \in Window : UnderWay(w) /\ Travelling(w)
  BY <1>3, WhereTheLineIs
<1>5. PICK line \in Line : line.from = w /\ ioIn = <<line>> /\ ttyIn = <<>>
  BY <1>1, <1>4 DEF Travelling
<1>6. ttyIn' = <<line>> /\ ioIn' = <<>>
  BY <1>1, <1>5, OneMessage
<1>7. Travelling(w)'
  BY <1>1, <1>4, <1>5, <1>6 DEF Travelling
<1>8. OneLine'
  BY <1>1, <1>4, <1>7 DEF OneLine, UnderWay
<1>9. AskedAtRest' /\ TypedOnce' /\ GuestsLive' /\ RanAtHome'
  BY <1>1, <1>2, AskedKept, TypedKept, GuestsKept, RanKept DEF PoliteInv
<1>10. InRing' /\ InFront'
  <2>1. Framed' = Framed
    BY <1>1 DEF Framed, Listed
  <2> QED BY <1>1, <1>2, <2>1 DEF InRing, InFront
<1>11. OneAlone'
  BY <1>1, <1>2, <1>3 DEF OneAlone, NoOutput
<1> QED BY <1>8, <1>9, <1>10, <1>11 DEF PoliteInv

(* ... and the output. *)
LEMMA OutputIsRelayed ==
  ASSUME Context, relay_spad_io, UNCHANGED <<sessionVars, lispVars, useVars>>
  PROVE  PoliteInv'
<1>1. /\ ttyOut # <<>> /\ ioOut' = Append(ioOut, Head(ttyOut)) /\ ttyOut' = Tail(ttyOut)
      /\ UNCHANGED <<toLisp, fromLisp, ioIn, ttyIn, peer, typed, shown, plSock, frame,
                     reading_output, active_session, num_active_clients, menu_client, closedFd, pc>>
      /\ UNCHANGED <<lispPc, curLine, needSignal, currentFrameNum, frameRing, menuCmd, ran, overlapped>>
  BY DEF relay_spad_io, sessionVars, lispVars, useVars, lispSocket, windows
<1>2. PoliteInv /\ OneLine /\ AskedAtRest /\ GuestsLive /\ InRing /\ InFront /\ OneAlone
  BY DEF Context, PoliteInv
<1>3. ~NoOutput
  BY <1>1 DEF NoOutput
<1>4. ttyOut \in Seq(Window) /\ ioOut \in Seq(Window)
  BY <1>2 DEF GuestsLive
<1>5. /\ ttyOut' \in Seq(Window) /\ Head(ttyOut) = ttyOut[1] /\ 1 \in DOMAIN ttyOut
      /\ Head(ttyOut) \in Window
      /\ \A i \in DOMAIN ttyOut' : i + 1 \in DOMAIN ttyOut /\ ttyOut'[i] = ttyOut[i + 1]
  BY <1>1, <1>4, HeadTailItems
<1>6. /\ ioOut' \in Seq(Window)
      /\ \A i \in DOMAIN ioOut' : \/ ioOut'[i] = Head(ttyOut)
                                  \/ i \in DOMAIN ioOut /\ ioOut'[i] = ioOut[i]
  BY <1>1, <1>4, <1>5, QueueItems
<1>7. OneLine'
  BY <1>1, <1>2, LineKept
<1>8. AskedAtRest'
  BY <1>1, <1>2, <1>3 DEF AskedAtRest, Asking
<1>9. TypedOnce' /\ RanAtHome'
  BY <1>1, <1>2, TypedKept, RanKept DEF PoliteInv
<1>10. GuestsLive'
  BY <1>1, <1>2, <1>5, <1>6 DEF GuestsLive, Listed
<1>11. InRing' /\ InFront'
  <2>1. Framed' = Framed
    BY <1>1 DEF Framed, Listed
  <2> QED BY <1>1, <1>2, <2>1 DEF InRing, InFront
<1>12. OneAlone'
  <2> SUFFICES ASSUME ~overlapped PROVE OneAlone'
    BY <1>1 DEF OneAlone
  <2>1. \A w \in Window : typed'[w] = <<>>
    BY <1>1, <1>2, <1>3 DEF OneAlone
  <2>2. NoLine' /\ lispPc' = "read"
    BY <1>1, <1>2, <1>3 DEF OneAlone, NoLine
  <2>3. \A i \in DOMAIN ttyOut' : active_session' \in {ttyOut'[i], Null}
    BY <1>1, <1>2, <1>5 DEF OneAlone
  <2>4. \A i \in DOMAIN ioOut' : active_session' \in {ioOut'[i], Null}
    BY <1>1, <1>2, <1>5, <1>6 DEF OneAlone
  <2> QED BY <1>1, <1>2, <2>1, <2>2, <2>3, <2>4 DEF OneAlone
<1> QED BY <1>7, <1>8, <1>9, <1>10, <1>11, <1>12 DEF PoliteInv

(* Nothing is under way while the system is quiet. *)
LEMMA QuietIsRest ==
  ASSUME Context, Quiet
  PROVE  /\ Resting /\ pc = "run" /\ NoOutput /\ ~reading_output
         /\ \A w \in Window : typed[w] = <<>> /\ ~UnderWay(w)
<1>1. OneLine /\ GuestsLive
  BY DEF Context, PoliteInv
<1>2. \A w \in Window : typed[w] = <<>>
  BY DEF Quiet, InTransit
<1>3. \A w \in Window : ~UnderWay(w)
  <2> SUFFICES ASSUME NEW w \in Window, UnderWay(w) PROVE FALSE
    OBVIOUS
  <2>1. toLisp = <<>> /\ fromLisp = <<>> /\ ~needSignal
    BY DEF Quiet
  <2>2. Travelling(w)
    <3>1. ~Running(w)
      BY <2>1 DEF Running
    <3>2. <<EndMsg>> # <<>> /\ <<LeaveMsg(frame[w]), EndMsg>> # <<>>
      BY OneMessage, TwoMessages
    <3>3. ~Answered(w)
      BY <2>1, <3>2 DEF Answered
    <3> QED BY <3>1, <3>3 DEF UnderWay
  <2>3. PICK line \in Line : line.from = w /\ (ioIn = <<line>> \/ ttyIn = <<line>>)
    BY <2>2 DEF Travelling
  <2>4. InTransit(w)
    BY <2>3, OneMessage DEF InTransit
  <2> QED BY <2>4 DEF Quiet
<1>4. Resting
  BY <1>1, <1>3 DEF OneLine
<1>5. pc = "run" /\ ~reading_output
  <2>1. toLisp = <<>> /\ fromLisp = <<>>
    BY DEF Quiet
  <2>2. <<CreateMsg>> # <<>> /\ <<GivenMsg(currentFrameNum)>> # <<>>
    BY OneMessage
  <2> QED BY <1>4, <2>1, <2>2 DEF Resting
<1>6. NoOutput
  <2>1. ASSUME NEW q \in {ttyOut, ioOut}, q # <<>>
        PROVE  FALSE
    <3>1. q \in Seq(Window)
      BY <1>1 DEF GuestsLive
    <3>2. 1 \in DOMAIN q /\ q[1] \in Window
      BY <2>1, <3>1
    <3>3. InTransit(q[1])
      BY <3>2 DEF InTransit
    <3> QED BY <3>2, <3>3 DEF Quiet
  <2> QED BY <2>1 DEF NoOutput
<1> QED BY <1>2, <1>3, <1>4, <1>5, <1>6

(* A window, or the killer, comes. *)
LEMMA GuestComes ==
  ASSUME Polite, Context, NEW p \in Peer, Connect(p), UNCHANGED <<sessionVars, lispVars>>
  PROVE  PoliteInv'
<1>1. /\ peer[p] = "absent" /\ Quiet /\ p # Menu /\ peer' = [peer EXCEPT ![p] = "connecting"]
      /\ UNCHANGED <<toLisp, fromLisp, ioIn, ttyIn, ttyOut, ioOut, typed, shown, plSock, frame,
                     reading_output, active_session, num_active_clients, menu_client, closedFd, pc>>
      /\ UNCHANGED <<lispPc, curLine, needSignal, currentFrameNum, frameRing, menuCmd, ran, overlapped>>
  BY DEF Connect, Polite, sessionVars, lispVars, useVars, lispSocket, ioPipes
<1>2. PoliteInv /\ OneLine /\ TypedOnce /\ GuestsLive /\ InRing /\ InFront /\ RanAtHome /\ OneAlone
  BY DEF Context, PoliteInv
<1>3. NoOutput /\ ~reading_output /\ \A w \in Window : typed[w] = <<>>
  BY <1>1, QuietIsRest
<1>4. \A q \in Peer : peer'[q] = IF q = p THEN "connecting" ELSE peer[q]
  BY <1>1, ContextFacts
<1>5. Window \subseteq Peer /\ Menu \in Peer
  BY DEF Peer
<1>6. OneLine'
  BY <1>1, <1>2, LineKept
<1>7. AskedAtRest' /\ TypedOnce'
  BY <1>1, <1>2, <1>3, TypedKept DEF AskedAtRest, NoOutput
<1>8. GuestsLive'
  <2>1. \A w \in Window : w \in Listed' <=> peer'[w] = "open"
    BY <1>1, <1>2, <1>4, <1>5 DEF GuestsLive, Listed
  <2> QED BY <1>1, <1>2, <1>4, <1>5, <2>1 DEF GuestsLive
<1>9. InRing' /\ InFront'
  <2>1. Framed' = Framed
    BY <1>1 DEF Framed, Listed
  <2> QED BY <1>1, <1>2, <2>1 DEF InRing, InFront
<1>10. RanAtHome'
  <2>1. \A r \in ran : r[1] \in Peer /\ r[1] # p
    BY <1>1, <1>2, <1>5 DEF Context, TypeInv, TypeOK, LispTypeOK, RanAtHome
  <2> QED BY <1>1, <1>2, <1>4, <2>1 DEF RanAtHome
<1>11. OneAlone'
  BY <1>1, <1>2 DEF OneAlone, NoOutput, NoLine
<1> QED BY <1>6, <1>7, <1>8, <1>9, <1>10, <1>11 DEF PoliteInv

(* A user types the next line. *)
LEMMA LineIsTyped ==
  ASSUME Polite, Context, NEW w \in Window, Type(w), UNCHANGED <<sessionVars, lispVars>>
  PROVE  PoliteInv'
<1>1. /\ MayType(w) /\ ~Asking /\ overlapped' = (overlapped \/ ~Quiet)
      /\ UNCHANGED <<toLisp, fromLisp, ioIn, ttyIn, ttyOut, ioOut, peer, shown, plSock, frame,
                     reading_output, active_session, num_active_clients, menu_client, closedFd, pc>>
      /\ UNCHANGED <<lispPc, curLine, needSignal, currentFrameNum, frameRing, menuCmd, ran>>
  BY DEF Type, Polite, Asking, sessionVars, lispVars, lispSocket, ioPipes
<1>2. PICK line \in Line : line.from = w /\ typed' = [typed EXCEPT ![w] = Append(@, line)]
  <2>1. PICK k \in {"eval", "close"} :
          typed' = [typed EXCEPT ![w] = Append(@, [from |-> w, kind |-> k])]
    BY DEF Type
  <2>2. [from |-> w, kind |-> k] \in Line
    BY <2>1 DEF Line
  <2> QED BY <2>1, <2>2
<1>3. /\ PoliteInv /\ OneLine /\ AskedAtRest /\ TypedOnce /\ GuestsLive /\ InRing /\ InFront
      /\ RanAtHome /\ OneAlone
  BY DEF Context, PoliteInv
<1>4. Quiet => Resting /\ pc = "run" /\ NoOutput /\ ~reading_output
                /\ \A v \in Window : typed[v] = <<>> /\ ~UnderWay(v)
  BY QuietIsRest
<1>5. ~Quiet => ~InTransit(w) /\ ~Unacknowledged(w)
  BY <1>1 DEF MayType, Polite
<1>6. typed[w] = <<>>
  BY <1>4, <1>5 DEF InTransit
<1>7. ~UnderWay(w)
  <2> SUFFICES ASSUME UnderWay(w), ~InTransit(w), ~Unacknowledged(w) PROVE FALSE
    BY <1>4, <1>5
  <2>1. ~Travelling(w)
    <3> SUFFICES ASSUME Travelling(w) PROVE FALSE
      OBVIOUS
    <3>1. PICK l \in Line : l.from = w /\ (ioIn = <<l>> \/ ttyIn = <<l>>)
      BY DEF Travelling
    <3> QED BY <3>1, OneMessage DEF InTransit
  <2>2. ~Running(w)
    BY DEF Running, InTransit
  <2>3. ~Answered(w)
    <3> SUFFICES ASSUME Answered(w) PROVE FALSE
      OBVIOUS
    <3>1. curLine # Null /\ curLine.from = w /\ ~needSignal
      BY DEF Answered, Unacknowledged
    <3>2. fromLisp = <<EndMsg>> \/ fromLisp = <<LeaveMsg(frame[w]), EndMsg>>
      BY <3>1 DEF Answered
    <3>3. \E i \in DOMAIN fromLisp : fromLisp[i].cmd = "EndOfOutput"
      BY <3>2, OneMessage, TwoMessages, Commands
    <3> QED BY <3>1, <3>3 DEF Unacknowledged
  <2> QED BY <2>1, <2>2, <2>3 DEF UnderWay
<1>8. typed \in [Window -> Seq(Line)]
  BY ContextFacts
<1>9. \A v \in Window : typed'[v] = IF v = w THEN <<line>> ELSE typed[v]
  BY <1>2, <1>6, <1>8, OneMessage
<1>10. OneLine'
  <2>1. Resting => Resting'
    BY <1>1 DEF Resting, NoLine
  <2>2. ASSUME NEW v \in Window, UnderWay(v)
        PROVE  UnderWay(v)'
    <3>1. typed'[v] = <<>>
      BY <1>7, <1>9, <2>2 DEF UnderWay
    <3>2. /\ Travelling(v) => Travelling(v)'
          /\ Running(v) => Running(v)'
          /\ Answered(v) => Answered(v)'
      BY <1>1 DEF Travelling, Running, Answered, NoLine
    <3> QED BY <1>1, <2>2, <3>1, <3>2 DEF UnderWay
  <2> QED BY <1>3, <2>1, <2>2 DEF OneLine
<1>11. AskedAtRest'
  BY <1>1, <1>3 DEF AskedAtRest, Asking, NoOutput
<1>12. TypedOnce'
  <2> SUFFICES ASSUME NEW v \in Window, typed'[v] # <<>>
               PROVE  \E l \in Line : l.from = v /\ typed'[v] = <<l>>
    BY DEF TypedOnce
  <2>1. CASE v = w
    BY <1>2, <1>9, <2>1
  <2>2. CASE v # w
    <3>1. typed'[v] = typed[v]
      BY <1>9, <2>2
    <3> QED BY <1>3, <3>1 DEF TypedOnce
  <2> QED BY <2>1, <2>2
<1>13. GuestsLive' /\ RanAtHome'
  BY <1>1, <1>3, GuestsKept, RanKept
<1>14. InRing' /\ InFront'
  <2>1. Framed' = Framed
    BY <1>1 DEF Framed, Listed
  <2> QED BY <1>1, <1>3, <2>1 DEF InRing, InFront
<1>15. OneAlone'
  <2> SUFFICES ASSUME ~overlapped, Quiet PROVE OneAlone'
    BY <1>1 DEF OneAlone
  <2>1. NoOutput' /\ pc' = "run" /\ ~reading_output'
    BY <1>1, <1>4 DEF NoOutput
  <2>2. DOMAIN ttyOut' = {} /\ DOMAIN ioOut' = {}
    BY <2>1 DEF NoOutput
  <2>3. \A u, v \in Window : typed'[u] # <<>> /\ typed'[v] # <<>> => u = v
    BY <1>4, <1>9
  <2> QED BY <1>1, <1>3, <2>1, <2>2, <2>3 DEF OneAlone
<1> QED BY <1>10, <1>11, <1>12, <1>13, <1>14, <1>15 DEF PoliteInv

(* What polite use excludes, and what the protocol excludes. *)
LEMMA CannotHappen ==
  ASSUME Polite, Context
  PROVE  /\ ~SelectFails /\ ~MenuClosed /\ ~MenuSwitchFrames /\ ~MenuQuerySpad /\ ~AcceptMenu
         /\ ~AcceptMisread /\ ~MenuCommand /\ ~CountMisread /\ ~MenuNext
         /\ \A w \in Window : ~SessionEof(w)
         /\ \A p \in Peer : ~PeerDies(p)
<1>1. GuestsLive /\ menuReq = <<>>
  BY DEF Context, PoliteInv, FollowInv, NoRequests, Polite
<1>2. ~SelectFails /\ ~MenuClosed /\ ~AcceptMenu /\ ~MenuCommand
  BY <1>1 DEF GuestsLive, SelectFails, MenuClosed, MenuCloses, AcceptMenu, MenuCommand
<1>3. ~MenuSwitchFrames /\ ~MenuQuerySpad
  BY <1>1 DEF MenuSwitchFrames, MenuQuerySpad
<1>4. ~AcceptMisread
  BY WhoSent DEF AcceptMisread
<1>5. ~CountMisread
  <2> SUFFICES ASSUME CountMisread PROVE FALSE
    OBVIOUS
  <2>1. lispPc = "count" /\ toLisp # <<>> /\ Head(toLisp).cmd # "NumClients"
    BY DEF CountMisread
  <2>2. toLisp = <<CountMsg(num_active_clients)>>
    BY <2>1, WhoSent
  <2> QED BY <2>1, <2>2, OneMessage, Commands
<1>6. ~MenuNext
  <2>1. moves \in Nat
    BY DEF Context, TypeInv, TypeOK
  <2> QED BY <2>1 DEF Polite, MenuNext, spad_busy, issue_server_command
<1>7. ASSUME NEW w \in Window, SessionEof(w)
      PROVE  FALSE
  <2>1. peer[w] = "dead" /\ w \in Listed
    BY <1>7 DEF SessionEof, WindowTurn, Listed, Range
  <2> QED BY <1>1, <2>1 DEF GuestsLive
<1>8. ASSUME NEW p \in Peer, PeerDies(p)
      PROVE  FALSE
  <2>1. p \in Mortal /\ p # Killer /\ peer[p] = "open"
    BY <1>8 DEF PeerDies
  <2>2. p \notin Window
    BY <2>1 DEF Polite
  <2>3. p = Menu
    BY <2>1, <2>2 DEF Peer
  <2> QED BY <1>1, <2>1, <2>3 DEF GuestsLive
<1> QED BY <1>2, <1>3, <1>4, <1>5, <1>6, <1>7, <1>8

(* The manager leaves, or the user leaves Lisp. *)
Leaves ==
  /\ \/ pc' = "exited" /\ UNCHANGED lispPc
     \/ lispPc' = "quit" /\ UNCHANGED pc
  /\ UNCHANGED <<ran, frame, shown, overlapped>>

(* Every step of a polite use keeps the invariant, or someone leaves. *)
LEMMA PoliteSteps ==
  ASSUME Polite, Context, [Next]_vars
  PROVE  PoliteInv' \/ Leaves
<1>1. ASSUME SessionNext, UNCHANGED <<lispVars, useVars>>
      PROVE  PoliteInv' \/ Leaves
  <2>1. CASE Select \/ \E w \in Window : SkipWindow(w)
    <3>1. UNCHANGED <<channels, plSock, frame, active_session, num_active_clients, reading_output,
                      menu_client, closedFd, pc>>
      BY <2>1 DEF Select, SkipWindow
    <3>2. UNCHANGED <<toLisp, fromLisp, ioPipes, windows>>
      BY <3>1 DEF channels, lispSocket
    <3> QED BY <1>1, <3>1, <3>2, AllKept DEF Context
  <2>2. CASE AcceptKillSpad
    BY <1>1, <2>2 DEF AcceptKillSpad, KillSpad, Leaves, lispVars, useVars
  <2>3. CASE \E w \in Window : read_from_session(w) \/ AcceptInterpWindow(w)
    BY <1>1, <2>3, LineIsRead, WindowIsAccepted
  <2>4. CASE read_from_spad_io \/ EndOfOutput \/ QueryClients \/ close_client \/ AcceptFrameReply
    BY <1>1, <2>4, OutputArrives, EndIsHeard, CountIsTold, ClientIsClosed, FrameIsGiven
  <2> QED BY <1>1, <2>1, <2>2, <2>3, <2>4, CannotHappen DEF SessionNext
<1>2. ASSUME LispNext, UNCHANGED <<sessionVars, useVars>>
      PROVE  PoliteInv' \/ Leaves
  <2>1. CASE SignalEndOfOutput \/ CreateFrame \/ SwitchFrames \/ CallInterp \/ Evaluate \/ queryClients
    BY <1>2, <2>1, EndIsSignalled, FrameIsCreated, FrameIsSwitched, LineIsCalled, LineIsEvaluated,
       CountIsAsked
  <2>2. CASE Close
    <3>1. UNCHANGED <<ran, shown, pc, frame, overlapped>>
      BY <1>2, <2>2 DEF Close, CloseSending, windows, sessionVars, useVars
    <3>2. CASE lispPc' = "quit"
      BY <3>1, <3>2 DEF Leaves
    <3>3. CASE lispPc' # "quit"
      BY <1>2, <2>2, <3>3, LineCloses
    <3> QED BY <3>2, <3>3
  <2> QED BY <1>2, <2>1, <2>2, CannotHappen DEF LispNext
<1>3. CASE RelayNext /\ UNCHANGED <<sessionVars, lispVars, useVars>>
  BY <1>3, LineIsRelayed, OutputIsRelayed DEF RelayNext
<1>4. CASE UserNext /\ UNCHANGED <<sessionVars, lispVars>>
  BY <1>4, GuestComes, LineIsTyped, CannotHappen DEF UserNext
<1>5. CASE UNCHANGED vars
  <2>1. UNCHANGED <<channels, sessionVars, lispVars, useVars>>
    BY <1>5 DEF vars
  <2>2. UNCHANGED <<toLisp, fromLisp, ioPipes, windows>>
    BY <2>1 DEF channels, lispSocket
  <2>3. UNCHANGED <<plSock, frame, active_session, num_active_clients, reading_output, menu_client,
                    closedFd, pc>>
    BY <2>1 DEF sessionVars
  <2> QED BY <2>1, <2>2, <2>3, AllKept DEF Context
<1> QED BY <1>1, <1>2, <1>3, <1>4, <1>5, CannotHappen DEF Next, SystemNext, EnvNext

(* The use stays polite: the invariant holds until someone leaves. *)
LEMMA PoliteUseInductive ==
  ASSUME Polite, TypeInv, ListInv, FrameInv, FollowInv, PoliteUse, [Next]_vars
  PROVE  PoliteUse'
<1>1. RanAtHome => LineRunsInItsFrame
  BY DEF RanAtHome, LineRunsInItsFrame
<1>2. OneAlone => OutputToOwner
  BY DEF OneAlone, OutputToOwner
<1>3. PoliteInv' => PoliteUse'
  <2> SUFFICES ASSUME PoliteInv' PROVE PoliteUse'
    OBVIOUS
  <2>1. pc' \in {"run", "frame"} /\ lispPc' \in {"read", "eval", "count"}
    <3>1. Resting' => pc' \in {"run", "frame"} /\ lispPc' = "read"
      BY DEF Resting
    <3>2. \A w \in Window : UnderWay(w)' => pc' = "run" /\ lispPc' \in {"read", "eval", "count"}
      BY DEF UnderWay, Travelling, Running, Answered
    <3> QED BY <3>1, <3>2 DEF PoliteInv, OneLine
  <2>2. LineRunsInItsFrame' /\ OutputToOwner'
    BY DEF PoliteInv, RanAtHome, LineRunsInItsFrame, OneAlone, OutputToOwner
  <2> QED BY <2>1, <2>2 DEF PoliteUse, PoliteEnd
<1>4. CASE Final
  <2>1. UNCHANGED vars
    BY <1>4 DEF Next
  <2>2. UNCHANGED <<pc, lispPc, ran, frame, shown, overlapped>>
    BY <2>1 DEF vars, channels, windows, sessionVars, lispVars, useVars
  <2>3. Final'
    BY <1>4, <2>2 DEF Final
  <2> QED BY <2>2, <2>3 DEF PoliteUse, PoliteEnd, LineRunsInItsFrame, OutputToOwner
<1>5. CASE ~Final
  <2>1. Context
    BY <1>5 DEF Context, PoliteUse
  <2>2. CASE Leaves
    <3>1. Final'
      BY <2>2 DEF Leaves, Final
    <3>2. pc' \notin {"crashed", "desync"} /\ lispPc' # "desync"
      BY <2>2 DEF PoliteUse, PoliteEnd, Leaves
    <3>3. PoliteEnd'
      BY <2>2, <3>2 DEF PoliteUse, PoliteEnd, Leaves, LineRunsInItsFrame, OutputToOwner
    <3> QED BY <3>1, <3>3 DEF PoliteUse
  <2> QED BY <1>3, <2>1, <2>2, PoliteSteps
<1> QED BY <1>4, <1>5

(* The use is polite at the start. *)
LEMMA PoliteUseAtFirst == Init => PoliteUse
<1> SUFFICES ASSUME Init PROVE PoliteUse
  OBVIOUS
<1>1. ChannelsInit /\ SessionInit /\ LispInit /\ overlapped = FALSE
  BY DEF Init
<1>2. Listed = {} /\ Framed = {}
  BY <1>1 DEF SessionInit, Listed, Framed, Range
<1>3. \A w \in Window : w \in Peer /\ typed[w] = <<>> /\ peer[w] = "absent" /\ shown[w] = {}
  BY <1>1 DEF ChannelsInit, Peer
<1>4. OneLine
  BY <1>1 DEF OneLine, Resting, NoLine, ChannelsInit, SessionInit, LispInit
<1>5. AskedAtRest /\ TypedOnce
  BY <1>1, <1>3 DEF AskedAtRest, NoOutput, TypedOnce, ChannelsInit, SessionInit
<1>6. GuestsLive
  <2>1. Menu \in Peer /\ <<>> \in Seq(Window)
    BY DEF Peer
  <2> QED BY <1>1, <1>2, <1>3, <2>1 DEF GuestsLive, ChannelsInit, SessionInit, LispInit
<1>7. InRing /\ InFront /\ RanAtHome
  BY <1>1, <1>2 DEF InRing, InFront, RanAtHome, SessionInit, LispInit
<1>8. OneAlone
  BY <1>1, <1>3 DEF OneAlone, NoOutput, NoLine, ChannelsInit, LispInit, SessionInit
<1>9. PoliteEnd
  BY <1>1, <1>3 DEF PoliteEnd, LineRunsInItsFrame, OutputToOwner, SessionInit, LispInit
<1> QED BY <1>4, <1>5, <1>6, <1>7, <1>8, <1>9 DEF PoliteUse, PoliteInv

(***************************************************************************)
(* Theorems                                                                *)
(***************************************************************************)

(* Under polite use there is one line at a time past the session manager. *)
THEOREM PoliteInvariant == Polite => (Spec => []PoliteUse)
<1> SUFFICES ASSUME Polite PROVE Spec => []PoliteUse
  OBVIOUS
<1>1. Init => PoliteUse
  BY PoliteUseAtFirst
<1>2. TypeInv /\ ListInv /\ FrameInv /\ FollowInv /\ PoliteUse /\ [Next]_vars => PoliteUse'
  BY PoliteUseInductive
<1>3. Init => FollowInv
  BY InitFollows
<1>4. TypeInv /\ ListInv /\ FrameInv /\ FollowInv /\ [Next]_vars => FollowInv'
  BY FollowInvInductive
<1> QED BY <1>1, <1>2, <1>3, <1>4, TypeInvariant, ListInvariant, FrameInvariant, PTL DEF Spec

(* Neither the session manager nor Lisp takes a command on the socket that
   joins them for the answer it waits for (accept_session_connection,
   queryClients), and close_client never walks an empty list.              *)
THEOREM AlwaysInStep == Polite => (Spec => []InStep)
<1> SUFFICES ASSUME Polite PROVE Spec => []InStep
  OBVIOUS
<1>1. PoliteUse => InStep
  BY DEF PoliteUse, PoliteEnd, InStep
<1> QED BY <1>1, PoliteInvariant, PTL

(* Lisp runs every line in the frame of the window it was typed in, though
   the line and the command that selects the frame come on two channels.   *)
THEOREM LinesRunInTheirFrames == Polite => (Spec => []LineRunsInItsFrame)
<1> SUFFICES ASSUME Polite PROVE Spec => []LineRunsInItsFrame
  OBVIOUS
<1>1. PoliteUse => LineRunsInItsFrame
  BY DEF PoliteUse, PoliteEnd
<1> QED BY <1>1, PoliteInvariant, PTL

(* While users take turns, a window displays the output of its own lines
   only, though read_from_spad_io sends it to the active session.          *)
THEOREM OutputGoesToItsOwner == Polite => (Spec => []OutputToOwner)
<1> SUFFICES ASSUME Polite PROVE Spec => []OutputToOwner
  OBVIOUS
<1>1. PoliteUse => OutputToOwner
  BY DEF PoliteUse, PoliteEnd
<1> QED BY <1>1, PoliteInvariant, PTL
=============================================================================
