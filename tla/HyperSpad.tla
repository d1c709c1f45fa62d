----------------------------- MODULE HyperSpad -----------------------------
(***************************************************************************)
(* HyperDoc running the Spad commands of its pages (hyper/spadint.c) in    *)
(* terminal windows of their own, one spadbuf process (hyper/spadbuf.c)    *)
(* per page.                                                               *)
(*                                                                         *)
(* HyperDoc is one thread: a click runs issue_spadcommand to its end       *)
(* before the event loop is entered again.  issue_spadcommand recurses     *)
(* through issue_dependent_commands, which first runs the commands that    *)
(* bind the free labels of the clicked one and waits, in pause(), for the  *)
(* SIGUSR2 that reports the end of their output.  What interleaves with it *)
(* are the spadbuf processes, which may be closed at any                   *)
(* moment, the interpreter, which evaluates one line at a time, and the    *)
(* signal itself.                                                          *)
(***************************************************************************)
EXTENDS Naturals, Sequences, FiniteSets, SequencesExt

CONSTANTS
    Pages,        \* HyperDoc pages with commands on them
    Commands,     \* their commands; command c binds the label c
    Frees,        \* Frees[c]: the sequence of the free labels of c
    Sources,      \* the \spadsrc commands, sent through a file
    Undefined,    \* a label that no command of a page binds
    Buffers,      \* spadbuf processes that may be started, by process number
    None,         \* the null socket
    Clicks,       \* how often the user clicks on a command
    Others,       \* end-of-output reports of windows outside HyperDoc
    Deaths,       \* how many buffers the user may close
    Reuse         \* whether the allocator hands out freed list nodes again

ASSUME SpadAssumption ==
    /\ Buffers \subseteq Nat /\ None \notin Buffers
    /\ Sources \subseteq Commands
    /\ Undefined \notin Commands
    /\ Frees \in [Commands -> Seq(Commands \union {Undefined})]
    /\ Clicks \in Nat /\ Others \in Nat /\ Deaths \in Nat /\ Reuse \in BOOLEAN

Nodes == Buffers  \* one Sock_List node can be allocated for each buffer

VARIABLES
    stack,     \* the activations of issue_spadcommand, innermost last
    sock,      \* page -> the Sock_List node its sock field points to
    node,      \* Sock_List node -> the buffer its descriptor leads to
    plSock,    \* the list of nodes
    executed,  \* page -> the labels marked as executed
    ended,     \* gIsEndOfOutput
    signal,    \* SIGUSR2 is pending
    buf,       \* buffer -> its life: unborn, launched, connecting, open, dead
    title,     \* buffer -> the page it was started for
    lines,     \* buffer -> lines typed into it, not yet evaluated
    ran,       \* buffer -> what was evaluated in its frame: the command the
               \* line was sent for and the one its text came from
    pile,      \* what /tmp/hyper$SPADNUM.input holds
    lisp,      \* the buffer whose line is being evaluated
    closing,   \* CloseClient reports on their way to HyperDoc
    patient,   \* the user waits for the end of a command before a click
    clicks, others, deaths

hyper == <<stack, sock, plSock, executed>>
server == <<lines, ran, lisp>>
counts == <<clicks, others, deaths, patient>>
spadVars == <<stack, sock, node, plSock, executed, ended, signal, buf, title,
          lines, ran, pile, lisp, closing, patient, clicks, others, deaths>>

Places == {"test", "accept", "depend", "check", "pausing", "paused", "send",
           "reset"}
Label == Commands \union {Undefined}
Frame == [page : Pages, cmd : Commands, at : Places, todo : Seq(Label)]
Line == [cmd : Commands, src : BOOLEAN]

HyperSpadTypeOK ==
    /\ stack \in Seq(Frame)
    /\ sock \in [Pages -> Nodes \union {None}]
    /\ node \in [Nodes -> Buffers \union {None}]
    /\ plSock \in Seq(Nodes)
    /\ executed \in [Pages -> SUBSET Commands]
    /\ ended \in BOOLEAN /\ signal \in BOOLEAN /\ patient \in BOOLEAN
    /\ buf \in [Buffers -> {"unborn", "launched", "connecting", "open",
                            "dead"}]
    /\ title \in [Buffers -> Pages \union {None}]
    /\ lines \in [Buffers -> Seq(Line)]
    /\ ran \in [Buffers -> Seq([sent : Commands, got : Commands])]
    /\ pile \in Commands \union {None}
    /\ lisp \in Buffers \union {None}
    /\ closing \in Seq(Buffers)
    /\ clicks \in 0..Clicks /\ others \in 0..Others /\ deaths \in 0..Deaths

\* gIsEndOfOutput starts as 1; no page has a buffer.
SpadInit ==
    /\ stack = <<>>
    /\ sock = [p \in Pages |-> None]
    /\ node = [n \in Nodes |-> None]
    /\ plSock = <<>>
    /\ executed = [p \in Pages |-> {}]
    /\ ended = TRUE
    /\ signal = FALSE
    /\ buf = [b \in Buffers |-> "unborn"]
    /\ title = [b \in Buffers |-> None]
    /\ lines = [b \in Buffers |-> <<>>]
    /\ ran = [b \in Buffers |-> <<>>]
    /\ pile = None
    /\ lisp = None
    /\ closing = <<>>
    /\ patient \in BOOLEAN
    /\ clicks = 0 /\ others = 0 /\ deaths = 0

(***************************************************************************)
(* HyperDoc.                                                               *)
(***************************************************************************)
Top == Last(stack)
At(place) == stack # <<>> /\ Top.at = place
Goto(place) == stack' = [stack EXCEPT ![Len(stack)].at = place]
Call(p, c) == [page |-> p, cmd |-> c, at |-> "test", todo |-> <<>>]

\* The descriptor of the page's socket leads to a live spadbuf.  A freed node
\* holds the allocator's link where the descriptor was: writing to it fails.
Reaches(p) == sock[p] # None /\ node[sock[p]] # None /\ buf[node[sock[p]]] = "open"
Target(p) == node[sock[p]]

Quiet ==
    /\ lisp = None /\ ~signal
    /\ \A b \in Buffers : lines[b] = <<>> /\ buf[b] \notin {"launched", "connecting"}

\* A button press on a command, once the event loop is back: connect_spad
\* succeeds and issue_spadcommand starts.
Click(p, c) ==
    /\ stack = <<>>
    /\ clicks < Clicks
    /\ patient => Quiet
    /\ clicks' = clicks + 1
    /\ stack' = <<Call(p, c)>>
    /\ UNCHANGED <<sock, node, plSock, executed, ended, signal, buf, title,
                   server, pile, closing, others, deaths, patient>>

\* start_user_buffer: an xterm running spadbuf with the page's name.
StartUserBuffer ==
    /\ At("test")
    /\ sock[Top.page] = None
    /\ \E b \in Buffers :
          /\ buf[b] = "unborn" /\ \A d \in Buffers : buf[d] = "unborn" => b <= d
          /\ buf' = [buf EXCEPT ![b] = "launched"]
          /\ title' = [title EXCEPT ![b] = Top.page]
    /\ Goto("accept")
    /\ UNCHANGED <<sock, node, plSock, executed, ended, signal, server, pile,
                   closing, counts>>

Free == {n \in Nodes : node[n] = None /\ ~Contains(plSock, n)}
Used == {n \in Nodes : \E p \in Pages : sock[p] = n}
Allocated ==
    IF Reuse THEN Free
    ELSE {n \in Free \ Used : \A m \in Free \ Used : n <= m}

\* accept_menu_server_connection: the connecting spadbuf names its page; the
\* socket goes to that page and to the page that waits, and the wait ends
\* when both are the same.  The list node is fresh, or one freed before.
AcceptMenuServerConnection ==
    /\ At("accept")
    /\ \E b \in Buffers, n \in Allocated :
         /\ buf[b] = "connecting"
         /\ buf' = [buf EXCEPT ![b] = "open"]
         /\ node' = [node EXCEPT ![n] = b]
         /\ plSock' = <<n>> \o plSock
         /\ sock' = [sock EXCEPT ![title[b]] = n, ![Top.page] = n]
         /\ IF title[b] = Top.page THEN Goto("test") ELSE UNCHANGED stack
    /\ UNCHANGED <<executed, ended, signal, title, server, pile, closing,
                   counts>>

\* send_int(page->sock, TestLine) went through.
TestLineSent ==
    /\ At("test")
    /\ Reaches(Top.page)
    /\ stack' = [stack EXCEPT ![Len(stack)] =
                   [@ EXCEPT !.at = "depend", !.todo = Frees[Top.cmd]]]
    /\ UNCHANGED <<sock, node, plSock, executed, ended, signal, buf, title,
                   server, pile, closing, counts>>

\* Mutant: the dead buffer's marks stay.
TestLineFailed_KeepMarks ==
    /\ At("test")
    /\ sock[Top.page] # None /\ ~Reaches(Top.page)
    /\ sock' = [sock EXCEPT ![Top.page] = None]
    /\ UNCHANGED <<stack, node, plSock, executed, ended, signal, buf, title,
                   server, pile, closing, counts>>

\* Mutant: the page keeps the dead socket.
TestLineFailed_KeepSock ==
    /\ At("test")
    /\ sock[Top.page] # None /\ ~Reaches(Top.page)
    /\ executed' = [executed EXCEPT ![Top.page] = {}]
    /\ UNCHANGED <<stack, sock, node, plSock, ended, signal, buf, title,
                   server, pile, closing, counts>>

\* It failed: the buffer is gone, its marks are cleared, and the command is
\* issued again, which starts a new buffer.
TestLineFailed ==
    /\ At("test")
    /\ sock[Top.page] # None /\ ~Reaches(Top.page)
    /\ sock' = [sock EXCEPT ![Top.page] = None]
    /\ executed' = [executed EXCEPT ![Top.page] = {}]
    /\ UNCHANGED <<stack, node, plSock, ended, signal, buf, title, server,
                   pile, closing, counts>>

Skipped(l) == l \notin Commands \/ l \in executed[Top.page]

\* issue_dependent_commands: the next free label.  An undefined one is
\* reported and skipped, an executed one is skipped, any other is issued.
DependNext ==
    /\ At("depend")
    /\ Top.todo # <<>>
    /\ LET l == Head(Top.todo)
       IN IF Skipped(l)
          THEN stack' = [stack EXCEPT ![Len(stack)].todo = Tail(@)]
          ELSE stack' = Append([stack EXCEPT ![Len(stack)].at = "check"],
                               Call(Top.page, l))
    /\ UNCHANGED <<sock, node, plSock, executed, ended, signal, buf, title,
                   server, pile, closing, counts>>

DependDone ==
    /\ At("depend")
    /\ Top.todo = <<>>
    /\ Goto("send")
    /\ UNCHANGED <<sock, node, plSock, executed, ended, signal, buf, title,
                   server, pile, closing, counts>>

\* while (!gIsEndOfOutput) pause(): the test and the pause are two steps.
CheckEnded ==
    /\ At("check")
    /\ IF ended
       THEN stack' = [stack EXCEPT ![Len(stack)] =
                        [Top EXCEPT !.at = "depend", !.todo = Tail(Top.todo)]]
       ELSE Goto("pausing")
    /\ UNCHANGED <<sock, node, plSock, executed, ended, signal, buf, title,
                   server, pile, closing, counts>>

Pause ==
    /\ At("pausing")
    /\ Goto("paused")
    /\ UNCHANGED <<sock, node, plSock, executed, ended, signal, buf, title,
                   server, pile, closing, counts>>

\* sigusr2_handler; pause() returns after a handler has run.
Sigusr2Handler ==
    /\ signal
    /\ signal' = FALSE
    /\ ended' = TRUE
    /\ IF At("paused") THEN Goto("check") ELSE UNCHANGED stack
    /\ UNCHANGED <<sock, node, plSock, executed, buf, title, server, pile,
                   closing, counts>>

\* The line itself and mark_as_executed.  Nobody looks at the result of the
\* send.  A source command is written to the one file every page uses, and
\* what is sent is a )read of that file.
SendCommand ==
    /\ At("send")
    /\ LET c == Top.cmd
           p == Top.page
       IN /\ IF Reaches(p)
             THEN lines' = [lines EXCEPT ![Target(p)] =
                              Append(@, [cmd |-> c, src |-> c \in Sources])]
             ELSE UNCHANGED lines
          /\ pile' = IF c \in Sources THEN c ELSE pile
          /\ executed' = [executed EXCEPT ![p] = @ \union {c}]
    /\ Goto("reset")
    /\ UNCHANGED <<sock, node, plSock, ended, signal, buf, title, ran, lisp,
                   closing, counts>>

\* Mutant: gIsEndOfOutput is not reset.
ResetEnded_Not ==
    /\ At("reset")
    /\ stack' = Front(stack)
    /\ UNCHANGED <<sock, node, plSock, executed, ended, signal, buf, title,
                   server, pile, closing, counts>>

\* gIsEndOfOutput = 0, after the send; the activation returns.
ResetEnded ==
    /\ At("reset")
    /\ ended' = FALSE
    /\ stack' = Front(stack)
    /\ UNCHANGED <<sock, node, plSock, executed, signal, buf, title, server,
                   pile, closing, counts>>

\* service_session_socket and close_client, from the event loop: the first
\* node of the dead buffer leaves the list and is freed.  No page is told.
CloseClient ==
    /\ stack = <<>>
    /\ closing # <<>>
    /\ LET b == Head(closing)
           found == {i \in DOMAIN plSock : node[plSock[i]] = b}
       IN \/ found = {} /\ UNCHANGED <<plSock, node>>
          \/ \E i \in found :
               /\ \A j \in found : i <= j
               /\ plSock' = RemoveAt(plSock, i)
               /\ node' = [node EXCEPT ![plSock[i]] = None]
    /\ closing' = Tail(closing)
    /\ UNCHANGED <<stack, sock, executed, ended, signal, buf, title, server,
                   pile, counts>>

(***************************************************************************)
(* The spadbuf processes, the interpreter and the session manager.         *)
(***************************************************************************)
\* spadbuf's main: connected to the session manager, then to HyperDoc.
SpadbufConnects(b) ==
    /\ buf[b] = "launched"
    /\ buf' = [buf EXCEPT ![b] = "connecting"]
    /\ UNCHANGED <<hyper, node, ended, signal, title, server, pile, closing,
                   counts>>

\* A terminal dies before its spadbuf has connected, or the user types )close
\* in an open one: the session manager then ends the process and reports its
\* death to HyperDoc.
SpadbufDies(b) ==
    /\ buf[b] = "launched" \/ (buf[b] = "open" /\ lisp = None)
    /\ deaths < Deaths
    /\ deaths' = deaths + 1
    /\ buf' = [buf EXCEPT ![b] = "dead"]
    /\ lines' = [lines EXCEPT ![b] = <<>>]
    /\ closing' = IF buf[b] = "launched" THEN closing ELSE Append(closing, b)
    /\ UNCHANGED <<hyper, node, ended, signal, title, ran, pile, lisp, clicks,
                   others, patient>>

\* The interpreter takes a line; a )read evaluates what the file holds now.
LispTakesLine(b) ==
    /\ lisp = None
    /\ lines[b] # <<>>
    /\ LET line == Head(lines[b])
       IN ran' = [ran EXCEPT ![b] =
                    Append(@, [sent |-> line.cmd,
                               got |-> IF line.src THEN pile ELSE line.cmd])]
    /\ lines' = [lines EXCEPT ![b] = Tail(@)]
    /\ lisp' = b
    /\ UNCHANGED <<hyper, node, ended, signal, buf, title, pile, closing,
                   counts>>

\* EndOfOutput: the session manager signals HyperDoc, whichever window the
\* output was for.
LispEndsOutput ==
    /\ lisp # None
    /\ lisp' = None
    /\ signal' = TRUE
    /\ UNCHANGED <<hyper, node, ended, buf, title, lines, ran, pile, closing,
                   counts>>

OtherOutput ==
    /\ others < Others
    /\ ~patient
    /\ others' = others + 1
    /\ signal' = TRUE
    /\ UNCHANGED <<hyper, node, ended, buf, title, server, pile, closing,
                   clicks, deaths, patient>>

HyperStep ==
    \/ StartUserBuffer \/ AcceptMenuServerConnection \/ TestLineSent
    \/ TestLineFailed \/ DependNext \/ DependDone \/ CheckEnded \/ Pause
    \/ SendCommand \/ ResetEnded \/ CloseClient

Environment ==
    \/ Sigusr2Handler \/ LispEndsOutput
    \/ \E b \in Buffers : SpadbufConnects(b) \/ LispTakesLine(b)

SpadNext ==
    \/ \E p \in Pages, c \in Commands : Click(p, c)
    \/ HyperStep
    \/ Environment
    \/ OtherOutput
    \/ \E b \in Buffers : SpadbufDies(b)

(***************************************************************************)
(* Properties.                                                             *)
(***************************************************************************)
Received(b) == {lines[b][i].cmd : i \in DOMAIN lines[b]}
               \union {ran[b][i].sent : i \in DOMAIN ran[b]}

\* A label marked as executed was sent to the buffer the page's next command
\* will go to: after a buffer was closed and replaced, whenever HyperDoc found
\* out, no mark of the old one survives ("Clears the execution marks ... when
\* a buffer has been killed").
MarksBelongToBuffer ==
    /\ HyperSpadTypeOK
    /\ \A p \in Pages : Reaches(p) => executed[p] \subseteq Received(Target(p))

\* issue_dependent_commands goes on after a dependency only when that
\* command's output has ended: gIsEndOfOutput is "set to true when spad has
\* finished output" (hyper.c).
EndedMeansFinished ==
    At("check") /\ ended =>
      /\ lisp = None
      /\ \E i \in DOMAIN ran[Target(Top.page)] :
           ran[Target(Top.page)][i].sent = Head(Top.todo)

\* When a command is evaluated in a buffer that nobody closed, the commands
\* its free labels depend on were evaluated there before it, and a source
\* command is the text that was meant, although all of them share one file:
\* what issue_dependent_commands waits for.  For users who wait: the end of
\* another window's output is taken for the end of the dependency's.
DependenciesRunFirst ==
    patient /\ deaths = 0 =>
      /\ EndedMeansFinished
      /\ \A b \in Buffers : \A i \in DOMAIN ran[b] :
          LET r == ran[b][i]
          IN /\ r.got = r.sent
             /\ \A l \in Range(Frees[r.sent]) \intersect Commands :
                  \E j \in 1 .. i - 1 : ran[b][j].got = l

\* Nobody is going to connect, and nobody is going to signal.
HungOnBuffer ==
    /\ At("accept") /\ deaths > 0
    /\ \A b \in Buffers : buf[b] \notin {"launched", "connecting"}
HungOnSignal == At("paused") /\ Quiet

\* A click returns to the event loop; it hangs only for a terminal closed
\* before it connected, or for an end of output that was reported before
\* HyperDoc paused for it (or whose buffer is dead), never in retrying a dead
\* buffer or in the dependencies.
ClickReturns == (stack # <<>>) ~> (stack = <<>> \/ HungOnBuffer \/ HungOnSignal)

\* HyperDoc runs while it can, signals are delivered, xterm starts and the
\* interpreter evaluates every line; clicks and deaths are up to the user.
SpadFairness == WF_spadVars(HyperStep) /\ WF_spadVars(Environment)

SpadSpec == SpadInit /\ [][SpadNext]_spadVars /\ SpadFairness
=============================================================================
