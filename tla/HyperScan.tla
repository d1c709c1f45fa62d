------------------------------ MODULE HyperScan ------------------------------
(***************************************************************************)
(* The scanner of HyperDoc pages (src/src/hyper/lex.c): a page comes token *)
(* by token from a file or from the socket of Axiom, and the text of a     *)
(* macro or of a parameter is read in between, from a string.  What the    *)
(* page says is chosen while it is read.                                   *)
(***************************************************************************)
EXTENDS Integers, Sequences, FiniteSets, SequencesExt

CONSTANTS Subjects,     \* what pages are about, see below
          Macros        \* the macros of the window: [takes, text, whole]

\* The words a page is written with and how many of them, between the ones it
\* opens and closes with; the region it begins in (an empty title is left out),
\* where it comes from, and how many pages are read one after the other.
ASSUME ScanAssumption ==
    /\ \A a \in Subjects : /\ {a.length, a.count} \subseteq Nat \ {0}
                           /\ a.first \in {"Title", "Header"}
                           /\ a.where \in {"file", "socket"}
    /\ \A m \in DOMAIN Macros : Macros[m].takes \in {0, 1}

NoToken == ""

\* \begin{...} and \end{...} of an environment, and \end{page}.
Begins == [beginitems |-> "items", beginscroll |-> "scroll"]
Ends == [enditems |-> "items", endscroll |-> "scroll", endpage |-> "page"]

\* init_scanner at the top of a page, which \begin{page} has opened.
\*   strings   the strings that are read, the innermost last
\*   ungot     the token given back
\*   read      the page so far
\*   coming    what it goes on with, where that is settled
\*   held      the end of the text has been read ahead and given back
\*   heard     the end of the page is known to be the last thing heard
\*   be        the environments that are open
InitScanner(subject) ==
    [subject |-> subject, coming |-> subject.opening, strings |-> <<>>, ungot |-> NoToken, read |-> <<>>,
     held |-> FALSE, heard |-> TRUE, be |-> <<"page">>]

AtString(s) == s.strings # <<>>
TextEnded(s) == s.read # <<>> /\ Last(s.read) = "eof"

\* restore_scanner_state: what enclosed the string goes on where it was.
RestoreScannerState(s) == [s EXCEPT !.strings = Front(@), !.ungot = NoToken]

\* save_scanner_state and the beginning of parse_from_string.
ParseFromString(s, text) == [s EXCEPT !.strings = Append(@, text), !.ungot = NoToken]

UngetToken(s, tok) == [s EXCEPT !.ungot = tok]

\* The next character: of the string, then of the page.
GetChar1(s) ==
    IF AtString(s)
    THEN IF Last(s.strings) = <<>> THEN {[tok |-> "eof", scan |-> s]}
         ELSE {[tok |-> Head(Last(s.strings)),
                scan |-> [s EXCEPT !.strings = Append(Front(@), Tail(Last(@)))]]}
    ELSE IF s.held THEN {[tok |-> "eof", scan |-> [s EXCEPT !.held = FALSE]]}
    ELSE IF TextEnded(s) THEN IF s.heard THEN {[tok |-> "eof", scan |-> s]} ELSE {}
    ELSE IF s.coming # <<>>
    THEN {[tok |-> Head(s.coming),
           scan |-> [s EXCEPT !.read = Append(@, Head(s.coming)), !.coming = Tail(@),
                              !.heard = TRUE]]}
    ELSE LET last == Append(s.subject.closing, "eof")
         IN {[tok |-> Head(last),
              scan |-> [s EXCEPT !.read = Append(@, Head(last)), !.coming = Tail(last),
                                 !.heard = TRUE]]}
           \union (IF Len(s.read) >= Len(s.subject.opening) + s.subject.length THEN {}
                   ELSE {[tok |-> w, scan |-> [s EXCEPT !.read = Append(@, w)]] : w \in s.subject.words}
                          \* A keyword is known to end when the end of the page is read.
                          \union {[tok |-> w, scan |-> [s EXCEPT !.read = @ \o <<w, "eof">>,
                                                                  !.held = TRUE, !.heard = TRUE]] :
                                    w \in s.subject.words \intersect DOMAIN Macros})

\* Axiom is asked for more of a page it has ended.
AsksAgain(s) ==
    s.ungot = NoToken /\ ~AtString(s) /\ ~s.held /\ TextEnded(s) /\ ~s.heard

CheckAndPopBeStack(be, env) ==
    IF be = <<>> \/ Last(be) # env THEN [bad |-> TRUE, be |-> be]
    ELSE [bad |-> FALSE, be |-> Front(be)]

\* keyword_type, begin_type and end_type.
KeywordType(r) ==
    IF r.tok \in DOMAIN Begins
    THEN [tok |-> r.tok, bad |-> FALSE,
          scan |-> [r.scan EXCEPT !.be = Append(@, Begins[r.tok])]]
    ELSE IF r.tok \in DOMAIN Ends
    THEN LET c == CheckAndPopBeStack(r.scan.be, Ends[r.tok])
         IN [tok |-> r.tok, bad |-> c.bad, scan |-> [r.scan EXCEPT !.be = c.be]]
    ELSE [tok |-> r.tok, bad |-> FALSE, scan |-> r.scan]

\* get_token: the token given back has been looked at before.
GetToken(s) ==
    IF s.ungot # NoToken
    THEN {[tok |-> s.ungot, bad |-> FALSE, scan |-> [s EXCEPT !.ungot = NoToken]]}
    ELSE {KeywordType(r) : r \in GetChar1(s)}

\* load_macro: the file of the macro is read with a scanner of its own, and
\* the last command heard from Axiom is forgotten.
LoadMacro(s) == [s EXCEPT !.heard = s.subject.where = "file"]

ScanOK(s) ==
    /\ s.subject \in Subjects
    /\ s.strings \in Seq(Seq(STRING)) /\ s.ungot \in STRING
    /\ s.read \in Seq(STRING) /\ {s.held, s.heard} \subseteq BOOLEAN
    /\ s.be \in Seq({"items", "scroll", "page"})
=============================================================================
