----------------------------- MODULE LispServer ------------------------------
(***************************************************************************)
(* The Lisp core as the session manager sees it: serverReadLine            *)
(* (src/interp/server.boot) over server_switch (src/lib/sockio-c.cxx), the *)
(* ring of interpreter frames and the )close command                       *)
(* (src/interp/i-syscmd.boot).  What an expression evaluates to is left    *)
(* out: evaluation produces one chunk of output.                           *)
(***************************************************************************)
EXTENDS SessionChannels

VARIABLES
  lispPc,           \* "read": in serverReadLine; "eval": interpreting curLine;
                    \* "count": in queryClients; "quit" and "desync" are final
  curLine,          \* the line serverReadLine returned last, or Null
  needSignal,       \* $NeedToSignalSessionManager
  frameNumber,      \* $frameNumber, the number of the next frame
  currentFrameNum,  \* $currentFrameNum
  frameRing,        \* $interpreterFrameRing, as frame numbers
  menuCmd,          \* HyperDoc -> Lisp: the frames its commands are meant for
  ran,              \* history: which window's lines were run in which frame
  menuRan           \* history: <<frame meant, frame used>> of HyperDoc's commands

lispVars == <<lispPc, curLine, needSignal, frameNumber, currentFrameNum,
              frameRing, menuCmd, ran, menuRan>>

(* The frame called 'initial, which has no number of its own. *)
Initial == -1
RingFrame == Frame \cup {Initial}

LispTypeOK ==
  /\ lispPc \in {"read", "eval", "count", "quit", "desync"}
  /\ curLine \in Line \cup {Null}
  /\ needSignal \in BOOLEAN
  /\ frameNumber \in Frame
  /\ currentFrameNum \in Frame
  /\ frameRing \in Seq(RingFrame)
  /\ menuCmd \in Seq(Frame)
  /\ ran \subseteq Window \X RingFrame
  /\ menuRan \subseteq Frame \X RingFrame

LispInit ==
  /\ lispPc = "read"
  /\ curLine = Null
  /\ needSignal = FALSE
  /\ frameNumber = 0
  /\ currentFrameNum = 0
  /\ frameRing = <<Initial>>
  /\ menuCmd = <<>>
  /\ ran = {}
  /\ menuRan = {}

(* changeToNamedInterpreterFrame: the frame, if there is one of that name,
   comes to the front.  Numbers occur once in the ring.                    *)
changeToNamedInterpreterFrame(f) ==
  LET at == {i \in DOMAIN frameRing : frameRing[i] = f}
  IN  IF at = {} THEN frameRing
      ELSE <<f>> \o RemoveAt(frameRing, CHOOSE i \in at : TRUE)

(* closeInterpreterFrame(nil): the last frame cannot be closed. *)
closeInterpreterFrame ==
  IF Len(frameRing) = 1 THEN frameRing ELSE Tail(frameRing)

(***************************************************************************)
(* serverReadLine                                                          *)
(***************************************************************************)
SignalEndOfOutput ==
  /\ lispPc = "read" /\ needSignal
  /\ fromLisp' = Append(fromLisp, [cmd |-> "EndOfOutput"])
  /\ needSignal' = FALSE
  /\ UNCHANGED <<lispPc, curLine, frameNumber, currentFrameNum, frameRing,
                 menuCmd, ran, menuRan>>
  /\ UNCHANGED <<toLisp, ioPipes, windows, menuSocket>>

(* server_switch serves the session manager first, then the terminal, then
   HyperDoc.                                                               *)
Switching == lispPc = "read" /\ ~needSignal

CreateFrameAs(reply, next) ==
  /\ Switching /\ toLisp # <<>> /\ Head(toLisp).cmd = "CreateFrame"
  /\ toLisp' = Tail(toLisp)
  /\ frameRing' = <<frameNumber>> \o frameRing
  /\ currentFrameNum' = frameNumber
  /\ fromLisp' = Append(fromLisp, [cmd |-> "NewFrame", frame |-> reply])
  /\ frameNumber' = next
  /\ UNCHANGED <<lispPc, curLine, needSignal, menuCmd, ran, menuRan>>
  /\ UNCHANGED <<ioPipes, windows, menuSocket>>

CreateFrameOffByOne == CreateFrameAs(frameNumber - 1, frameNumber + 1)  \* mutant
CreateFrameSameNumber == CreateFrameAs(frameNumber, frameNumber)        \* mutant
CreateFrame == CreateFrameAs(frameNumber, frameNumber + 1)

SwitchFrames ==
  /\ Switching /\ toLisp # <<>> /\ Head(toLisp).cmd = "SwitchFrames"
  /\ toLisp' = Tail(toLisp)
  /\ currentFrameNum' = Head(toLisp).frame
  /\ frameRing' = changeToNamedInterpreterFrame(Head(toLisp).frame)
  /\ UNCHANGED <<lispPc, curLine, needSignal, frameNumber, menuCmd, ran, menuRan>>
  /\ UNCHANGED <<fromLisp, ioPipes, windows, menuSocket>>

CallInterp ==
  /\ Switching /\ toLisp = <<>> /\ ttyIn # <<>>
  /\ ttyIn' = Tail(ttyIn)
  /\ curLine' = Head(ttyIn)
  /\ needSignal' = TRUE
  /\ lispPc' = "eval"
  /\ ran' = ran \cup {<<Head(ttyIn).from, Head(frameRing)>>}
  /\ UNCHANGED <<frameNumber, currentFrameNum, frameRing, menuCmd, menuRan>>
  /\ UNCHANGED <<lispSocket, ioIn, ttyOut, ioOut, windows, menuSocket>>

(* LispCommand, QuietSpadCommand and SpadCommand; only the last one prints. *)
MenuCommand ==
  /\ Switching /\ toLisp = <<>> /\ ttyIn = <<>> /\ menuCmd # <<>>
  /\ menuCmd' = Tail(menuCmd)
  /\ needSignal' = TRUE
  /\ menuRan' = menuRan \cup {<<Head(menuCmd), Head(frameRing)>>}
  /\ ttyOut' \in {ttyOut, Append(ttyOut, Menu)}
  /\ UNCHANGED <<lispPc, curLine, frameNumber, currentFrameNum, frameRing, ran>>
  /\ UNCHANGED <<lispSocket, ioIn, ttyIn, ioOut, windows, menuSocket>>

(***************************************************************************)
(* Running the line.                                                       *)
(***************************************************************************)
Printed == ttyOut' = Append(ttyOut, curLine.from)

Evaluate ==
  /\ lispPc = "eval" /\ curLine.kind = "eval"
  /\ Printed
  /\ lispPc' = "read"
  /\ UNCHANGED <<curLine, needSignal, frameNumber, currentFrameNum, frameRing,
                 menuCmd, ran, menuRan>>
  /\ UNCHANGED <<lispSocket, ioIn, ttyIn, ioOut, windows, menuSocket>>

queryClients ==
  /\ lispPc = "eval" /\ curLine.kind = "close"
  /\ fromLisp' = Append(fromLisp, [cmd |-> "QueryClients"])
  /\ lispPc' = "count"
  /\ UNCHANGED <<curLine, needSignal, frameNumber, currentFrameNum, frameRing,
                 menuCmd, ran, menuRan>>
  /\ UNCHANGED <<toLisp, ioPipes, windows, menuSocket>>

(* The rest of close, once the count has come.  With several clients, or
   with the option )quiet, the client is closed; otherwise the user is asked
   whether to leave the system, and may say no.                            *)
CloseSending(msgs) ==
  /\ lispPc = "count" /\ toLisp # <<>> /\ Head(toLisp).cmd = "NumClients"
  /\ toLisp' = Tail(toLisp)
  /\ \/ /\ fromLisp' = fromLisp \o msgs
        /\ frameRing' = closeInterpreterFrame
        /\ Printed
        /\ lispPc' = "read"
     \/ /\ Head(toLisp).num <= 1
        /\ Printed
        /\ lispPc' = "read"
        /\ UNCHANGED <<fromLisp, frameRing>>
     \/ /\ Head(toLisp).num <= 1
        /\ lispPc' = "quit"
        /\ UNCHANGED <<fromLisp, frameRing, ttyOut>>
  /\ UNCHANGED <<curLine, needSignal, frameNumber, currentFrameNum, menuCmd,
                 ran, menuRan>>
  /\ UNCHANGED <<ioIn, ttyIn, ioOut, windows, menuSocket>>

CloseMsg == [cmd |-> "CloseClient", frame |-> currentFrameNum]
CloseTwice == CloseSending(<<CloseMsg, CloseMsg>>)   \* mutant: falls through
Close == CloseSending(<<CloseMsg>>)

(* The next int on the socket need not be the count: a command the session
   manager sent meanwhile is taken for it, and the stream is out of step.  *)
CountMisread ==
  /\ lispPc = "count" /\ toLisp # <<>> /\ Head(toLisp).cmd # "NumClients"
  /\ lispPc' = "desync"
  /\ UNCHANGED <<curLine, needSignal, frameNumber, currentFrameNum, frameRing,
                 menuCmd, ran, menuRan>>
  /\ UNCHANGED channels

LispNext ==
  \/ SignalEndOfOutput \/ CreateFrame \/ SwitchFrames \/ CallInterp
  \/ MenuCommand \/ Evaluate \/ queryClients \/ Close \/ CountMisread
=============================================================================
