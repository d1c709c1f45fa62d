------------------------------ MODULE HyperNav ------------------------------
(***************************************************************************)
(* HyperDoc's windows and the pages they show (hyper/event.c, initx.c,     *)
(* mem.c, parse.c): every window keeps the page it shows, a stack of pages *)
(* to go up to, a stack of pages to return to and its own table of pages.  *)
(*                                                                         *)
(* Pages that the interpreter generates are freed when they are left by    *)
(* Up or Return, or with their window; all others stay.  Events of users   *)
(* and requests of the interpreter arrive in any order, also for windows   *)
(* that are gone.                                                          *)
(***************************************************************************)
EXTENDS Naturals, Sequences, FiniteSets, SequencesExt

CONSTANTS
    Static,        \* pages of the database: "Root" and others
    Bad,           \* the page of the database that does not parse
    MaxWindow,     \* windows opened in a session; window 1 is the first
    Generated,     \* pages the interpreter generates in a session, in order
    MaxDown,       \* MaxDownlinkDepth
    MaxMemo,       \* MaxMemoDepth
    MaxEvents      \* events and requests in a session

ASSUME NavAssumption ==
    /\ "Root" \in Static /\ Bad \in Static \ {"Root"}
    /\ MaxWindow \in Nat \ {0}
    /\ Generated \in Seq(STRING) /\ IsInjective(Generated)
    /\ Range(Generated) \intersect Static = {}
    /\ Range(Generated) \intersect {"ErrorPage", "UnknownPage", "ProtectedQuitPage",
                                 "UpPage", "ReturnPage", "QuitPage"} = {}
    /\ MaxDown \in Nat \ {0} /\ MaxMemo \in Nat \ {0}
    /\ MaxEvents \in Nat

Null == "null"
Fixed == {"ErrorPage", "UnknownPage", "ProtectedQuitPage"}
Special == {"UpPage", "ReturnPage", "QuitPage"}
Gen == Range(Generated)
MaxGen == Len(Generated)
Windows == 1 .. MaxWindow
Main == 1
PageIds == Static \union Fixed \union Gen

VARIABLES
    win,       \* window -> its HDWindow, where it was opened
    open,      \* gSessionHashTable
    gWindow,   \* the current window, 0 for NULL
    made,      \* how many windows were opened
    gens,      \* how many pages were generated
    saved,     \* gSavedInputAreaLink: the page whose input area waits
    freed,     \* generated pages that were freed
    connected, \* HyperDoc has a connection to the interpreter
    crash,     \* how HyperDoc ended, if it did
    strays,    \* what happened that the code does not survive
    events

navVars == <<win, open, gWindow, made, gens, saved, freed, connected, crash,
          strays, events>>

HDWindow == [page : PageIds, links : PageIds,
             slots : [1 .. MaxDown -> PageIds \union {Null}],
             index : 0 .. MaxDown,
             memo : Seq(PageIds), tops : Seq(0 .. MaxDown),
             table : SUBSET Gen]

NavTypeOK ==
    /\ \A w \in Windows : win[w] \in HDWindow
    /\ open \subseteq 1 .. made
    /\ gWindow \in 0 .. MaxWindow
    /\ made \in Windows /\ gens \in 0 .. MaxGen
    /\ saved \in PageIds \union {Null}
    /\ freed \subseteq Gen
    /\ connected \in BOOLEAN /\ events \in 0 .. MaxEvents
    /\ crash \in {"no", "exit", "null page", "null window", "freed twice",
                  "reset", "freed write"}
    /\ strays \subseteq {"offline", "top", "unparsable", "bridge", "paste",
                      "below"}

\* alloc_hd_window and init_page_structs: empty stacks, and the page table of
\* the database with the special pages in it.
NewWindow(p) ==
    [page |-> p, links |-> p, slots |-> [i \in 1 .. MaxDown |-> Null],
     index |-> 0, memo |-> <<>>, tops |-> <<>>, table |-> {}]

NavInit ==
    /\ win = [w \in Windows |-> NewWindow("Root")]
    /\ open = {Main}
    /\ gWindow = Main
    /\ made = 1
    /\ gens = 0
    /\ saved = Null
    /\ freed = {}
    /\ connected \in BOOLEAN
    /\ crash = "no"
    /\ strays = {}
    /\ events = 0

Running == crash = "no"

\* set_window: events of a window that is gone go to the first one.
SetWindow(w) == IF w \in open THEN w ELSE Main

(***************************************************************************)
(* The two stacks.                                                         *)
(***************************************************************************)
Downlink(r) ==
    IF r.index = MaxDown THEN r
    ELSE [r EXCEPT !.slots[r.index + 1] = r.page, !.index = @ + 1]

Memolink(r) ==
    IF Len(r.memo) = MaxMemo THEN r
    ELSE [r EXCEPT !.memo = Append(@, r.page),
                   !.tops = Append(@, r.index)]

\* What going back leaves: the window, the page to show, the pages killed.
Back(r, page, killed) ==
    [win |-> [r EXCEPT !.table = @ \ Range(killed)], page |-> page,
     killed |-> killed]

Above(r, top) == SubSeq(r.slots, top + 1, r.index)

\* returnlink: kills the page and everything the memo'd page was left for.
Returnlink(r) ==
    IF r.memo = <<>> THEN Back(r, Null, <<>>)
    ELSE LET top == Last(r.tops)
         IN Back([r EXCEPT !.memo = Front(@), !.tops = Front(@),
                           !.index = top],
                 Last(r.memo),
                 <<r.page>> \o Above(r, top))

Uplink(r) ==
    IF r.index = 0 THEN Returnlink(r)
    ELSE Back([r EXCEPT !.index = @ - 1], r.slots[r.index], <<r.page>>)

(***************************************************************************)
(* Showing a page.                                                         *)
(***************************************************************************)
\* Mutant: the table of links stays that of the page before.
Display_StaleLinks(r, p) == [r EXCEPT !.page = IF p = Bad THEN "ErrorPage" ELSE p]

\* display_page: a page that does not parse is replaced by the error page;
\* then the window takes the links of what it shows.
Display(r, p) ==
    LET shown == IF p = Bad THEN "ErrorPage" ELSE p
    IN [r EXCEPT !.page = shown, !.links = shown]

\* reset_connection, after a page failed to parse, sets spad_socket to NULL
\* and then assigns through it.
Resets(p) == p = Bad /\ connected

\* A generated page among those killed has been freed, or is there twice; the
\* others are not freed.
Twice(killed) ==
    \E i \in DOMAIN killed :
      killed[i] \in Gen /\ (killed[i] \in freed
                             \/ \E j \in DOMAIN killed \ {i} : killed[j] = killed[i])

\* Up went back to a page that was left before the memo'd one.
Below(r) == r.tops # <<>> /\ r.index < Last(r.tops)

\* The window w shows p after its stacks became those of r.
ShowIn(w, r, p, killed) ==
    /\ win' = [win EXCEPT ![w] = Display(r, p)]
    /\ gWindow' = w
    /\ freed' = freed \union (Range(killed) \intersect Gen)
    /\ crash' = IF Twice(killed) THEN "freed twice"
                ELSE IF Resets(p) THEN "reset" ELSE crash
    /\ strays' = strays \union (IF Resets(p) THEN {"unparsable"} ELSE {})
                         \union (IF Below(r) THEN {"below"} ELSE {})
    /\ UNCHANGED <<open, made, connected>>

\* Following a null page.
NullPage(w) ==
    /\ crash' = "null page"
    /\ strays' = strays \union {"top"}
    /\ gWindow' = w
    /\ UNCHANGED <<win, open, made, freed, connected>>

Leave(w) ==
    /\ gWindow' = w
    /\ UNCHANGED <<win, open, made, freed, connected, crash, strays>>

\* exitHyperDoc: the first window, or the last, takes the process with it;
\* any other is removed with the pages of its table.
\* Every page that is in the window's table is freed with it.
FreeHdWindow(w) ==
    /\ freed' = freed \union win[w].table
    /\ crash' = IF win[w].table \intersect freed # {} THEN "freed twice" ELSE crash

ExitHyperDoc(w) ==
    IF w = Main \/ open = {w}
    THEN /\ crash' = "exit"
         /\ UNCHANGED <<win, open, gWindow, made, freed, connected, strays>>
    ELSE /\ open' = open \ {w}
         /\ gWindow' = 0
         /\ FreeHdWindow(w)
         /\ UNCHANGED <<win, made, connected, strays>>

\* The end of handle_button: special pages act, others are shown.
Settle(w, r, p, killed) ==
    \/ /\ p = Null
       /\ Leave(w)
    \/ /\ p = "QuitPage"
       /\ ExitHyperDoc(w)
    \/ /\ p \in {"UpPage", "ReturnPage"}
       /\ LET back == IF p = "UpPage" THEN Uplink(r) ELSE Returnlink(r)
          IN IF back.page = Null THEN NullPage(w)
             ELSE ShowIn(w, back.win, back.page, back.killed)
    \/ /\ p = "UnknownPage"
       /\ ShowIn(w, Downlink(r), p, killed)
    \/ /\ p \in PageIds \ {"UnknownPage"}
       /\ ShowIn(w, r, p, killed)

NotSpecial(p) == p \notin Special \union {"UnknownPage", Null}

(***************************************************************************)
(* Buttons.  A page of the database is named; a name nobody knows gives    *)
(* the unknown page, or for a plain link nothing.                          *)
(***************************************************************************)
Targets == Static \union Special \union {"UnknownPage"}

Link(w, p) ==
    /\ Running /\ w \in open
    /\ p \in Static
    /\ Settle(w, win[w], p, <<>>)
    /\ UNCHANGED <<gens, saved>>

PressDownlink(w, p) ==
    /\ Running /\ w \in open
    /\ p \in Special => win[w].page \in Gen
    /\ Settle(w, IF NotSpecial(p) THEN Downlink(win[w]) ELSE win[w], p, <<>>)
    /\ UNCHANGED <<gens, saved>>

PressMemolink(w, p) ==
    /\ Running /\ w \in open
    /\ p \in Static \union {"UnknownPage"}
    /\ Settle(w, IF NotSpecial(p) THEN Memolink(win[w]) ELSE win[w], p, <<>>)
    /\ UNCHANGED <<gens, saved>>

\* Mutant: the top is not noticed.
PressBack_NoCheck(w, up) ==
    /\ Running /\ w \in open
    /\ LET back == IF up THEN Uplink(win[w]) ELSE Returnlink(win[w])
       IN IF back.page = Null
          THEN /\ crash' = "null page"
               /\ gWindow' = w
               /\ UNCHANGED <<win, open, made, freed, connected, strays>>
          ELSE ShowIn(w, back.win, back.page, back.killed)
    /\ UNCHANGED <<gens, saved>>

\* The up and return buttons: at the top nothing is shown.
PressBack(w, up) ==
    /\ Running /\ w \in open
    /\ LET back == IF up THEN Uplink(win[w]) ELSE Returnlink(win[w])
       IN IF back.page = Null THEN Leave(w)
          ELSE ShowIn(w, back.win, back.page, back.killed)
    /\ UNCHANGED <<gens, saved>>

\* init_top_window on a page; the new window becomes the current one.
OpenWindow(p, table) ==
    /\ made < MaxWindow
    /\ made' = made + 1
    /\ win' = [win EXCEPT ![made + 1] = [NewWindow(p) EXCEPT !.table = table]]
    /\ open' = open \union {made + 1}
    /\ gWindow' = made + 1
    /\ UNCHANGED <<freed, connected, crash, strays>>

\* make_window_link: a page of the database in a window of its own.
MakeWindowLink(p) == p \in Static \ {Bad} /\ OpenWindow(p, {})

\* A button, or the help key: helpForHyperDoc takes the help page of the page,
\* or the one that says there is no more help.
PressWindowlink(w, p) ==
    /\ Running /\ w \in open
    /\ MakeWindowLink(p)
    /\ UNCHANGED <<gens, saved>>

\* quitHyperDoc: the first window asks first, on a page of its own; a quit
\* there, or in any other window, closes the window.
Quit(w) ==
    /\ Running /\ w \in 1 .. made
    /\ LET v == SetWindow(w)
       IN IF v = Main /\ win[v].page # "ProtectedQuitPage"
          THEN ShowIn(v, Downlink(win[v]), "ProtectedQuitPage", <<>>)
          ELSE ExitHyperDoc(v)
    /\ UNCHANGED <<gens, saved>>

\* The second button in an input area asks for the selection, which comes
\* later, when the page may have been freed.
AskSelection(w) ==
    /\ Running /\ w \in open
    /\ win[w].page \in Gen
    /\ saved' = win[w].page
    /\ gWindow' = w
    /\ UNCHANGED <<win, open, made, gens, freed, connected, crash, strays>>

SelectionNotify ==
    /\ Running /\ saved # Null
    /\ saved' = Null
    /\ crash' = IF saved \in freed THEN "freed write" ELSE crash
    /\ strays' = IF saved \in freed THEN strays \union {"paste"} ELSE strays
    /\ UNCHANGED <<win, open, gWindow, made, gens, freed, connected>>

(***************************************************************************)
(* The interpreter.                                                        *)
(***************************************************************************)
\* What a link of each kind does to the stacks of its window.
Push(r, kind) == CASE kind = "link" -> r
                   [] kind = "down" -> Downlink(r)
                   [] kind = "memo" -> Memolink(r)

\* parse_page_from_socket: a generated page enters the window's table.
\* A "Bridge" page holds \replacepage: it is freed, not taken out of the
\* table, and the page it names is shown instead.
ServerPage(w, kind) ==
    /\ gens < MaxGen
    /\ gens' = gens + 1
    /\ LET g == Generated[gens + 1]
           r == [win[w] EXCEPT !.table = @ \union {g}]
       IN \/ ShowIn(w, Push(r, kind), g, <<>>)
          \/ \E p \in Static \ {Bad} :
               /\ win' = [win EXCEPT ![w] = Display(Push(r, kind), p)]
               /\ freed' = freed \union {g}
               /\ strays' = strays \union {"bridge"}
               /\ gWindow' = w
               /\ UNCHANGED <<open, made, connected, crash>>

\* issue_server_command for a link: without a connection the page that says
\* so is shown, as any page of the database.
PressServerLink(w, kind) ==
    /\ Running /\ w \in open
    /\ kind \in {"link", "down", "memo"}
    /\ IF connected THEN ServerPage(w, kind)
       ELSE ShowIn(w, Push(win[w], kind), "Root", <<>>) /\ UNCHANGED gens
    /\ UNCHANGED saved

\* The quitting commands: the command is sent, the window closed, and then a
\* page shown if there was no connection, in a window that is gone.
PressCommandQuit(w) ==
    /\ Running /\ w \in open
    /\ IF connected \/ w = Main THEN ExitHyperDoc(w)
       ELSE /\ open' = open \ {w}
            /\ gWindow' = 0
            /\ crash' = "null window"
            /\ strays' = strays \union {"offline"}
            /\ UNCHANGED <<win, made, freed, connected>>
    /\ UNCHANGED <<gens, saved>>

\* lispwindowlink, StartPage and PopUpPage: a window with a generated page.
OpenGenerated ==
    /\ Running /\ connected
    /\ gens < MaxGen
    /\ gens' = gens + 1
    /\ OpenWindow(Generated[gens + 1], {Generated[gens + 1]})
    /\ UNCHANGED saved

\* LinkToPage and PopUpNamedPage.
OpenNamed(p) ==
    /\ Running /\ connected
    /\ MakeWindowLink(p)
    /\ UNCHANGED <<gens, saved>>

\* get_new_window: the requests that open a window.
GetNewWindow == OpenGenerated \/ \E p \in Static : OpenNamed(p)

\* ReplacePage for a window that may be gone by now.
ReplacePage(w) ==
    /\ Running /\ connected
    /\ w \in 1 .. made
    /\ ServerPage(SetWindow(w), "link")
    /\ UNCHANGED saved

\* ReplaceNamedPage: only if the window is still there.
ReplaceNamedPage(w, p) ==
    /\ Running /\ connected
    /\ w \in open
    /\ p \in Static \ {Bad}
    /\ ShowIn(w, win[w], p, <<>>)
    /\ UNCHANGED <<gens, saved>>

KillPage(w) ==
    /\ Running /\ connected
    /\ w \in open
    /\ ExitHyperDoc(w)
    /\ UNCHANGED <<gens, saved>>

Event ==
    \/ \E w \in Windows, p \in Targets :
         Link(w, p) \/ PressDownlink(w, p) \/ PressMemolink(w, p)
         \/ PressWindowlink(w, p) \/ ReplaceNamedPage(w, p)
    \/ \E w \in Windows, up \in BOOLEAN : PressBack(w, up)
    \/ \E w \in Windows : Quit(w) \/ PressCommandQuit(w) \/ ReplacePage(w)
                          \/ KillPage(w) \/ AskSelection(w)
    \/ SelectionNotify
    \/ \E w \in Windows, kind \in {"link", "down", "memo"} :
         PressServerLink(w, kind)
    \/ GetNewWindow

\* mainEventLoop takes one event at a time.
NavNext ==
    /\ events < MaxEvents
    /\ events' = events + 1
    /\ Event

NavSpec == NavInit /\ [][NavNext]_navVars
-----------------------------------------------------------------------------
Held(r) == {r.page} \union {r.slots[i] : i \in 1 .. r.index} \union Range(r.memo)

\* No window shows, or can go back to, a generated page that was freed,
\* whatever was killed on the way by Up, Return and closing windows.
NothingFreedIsHeld ==
    Running => \A w \in open : Held(win[w]) \intersect freed = {}

\* The same as long as no Up went back beyond a page that was memo'd.
NothingFreedIsHeldAboveMark == "below" \notin strays => NothingFreedIsHeld

\* A generated page is freed once; the bridge pages, which parse_page_from_
\* socket frees and leaves in the table, and an Up beyond a memo'd page are the exceptions.
FreedOnce == crash = "freed twice" => strays \intersect {"bridge", "below"} # {}

\* The mark of a memo'd page never lies above the downlink stack, so that
\* Return kills pages that were opened after it and no others.
MarksWithinStack ==
    "below" \notin strays => \A w \in open :
      /\ Len(win[w].tops) = Len(win[w].memo)
      /\ \A i \in DOMAIN win[w].tops :
           /\ win[w].tops[i] <= win[w].index
           /\ i > 1 => win[w].tops[i - 1] <= win[w].tops[i]

\* A click is looked up among the links of the page that is shown.
LinksOfShown == Running => \A w \in open : win[w].links = win[w].page

\* HyperDoc follows no null pointer, except where a page with a link to the
\* UpPage is the first of its window, a quitting command is given without a
\* connection, a page does not parse, or a pasted selection comes too late.
NoNullFollowed == crash \in {"null page", "null window", "reset", "freed write"}
                  => strays # {}

\* No page is freed twice and no null pointer is followed, outside the ways
\* there that `strays' names.
PointersAreGood == NavTypeOK /\ FreedOnce /\ NoNullFollowed

\* Generated pages die with their window, once it is closed.
ClosedIsFreed ==
    Running => \A w \in 1 .. made \ open : win[w].table \subseteq freed

\* What a window shows, and what Up and Return will bring back in it, are
\* pages that exist, with the links of the page shown; a page lives as long as
\* it can be reached and no longer.
WindowsHoldLivePages ==
    NothingFreedIsHeldAboveMark /\ MarksWithinStack /\ LinksOfShown /\ ClosedIsFreed
=============================================================================
