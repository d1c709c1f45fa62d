------------------------------ MODULE HyperParse ------------------------------
(***************************************************************************)
(* The parser of HyperDoc pages (src/src/hyper/parse.c, parse-types.c,     *)
(* macro.c, cond.c): parse_HyperDoc calls itself for whatever encloses     *)
(* text and comes back at the first token that could end it, whoever is    *)
(* waiting.  A call is a frame here, and the nodes made so far are lists   *)
(* of types whose last node is curr_node.                                  *)
(*                                                                         *)
(* A node is the name of its type; "" is a node without one.  The branches *)
(* of an \if are kept in line: Ifcond ... Fi [Else ... Fi] Endif.          *)
(***************************************************************************)
EXTENDS HyperScan

CONSTANT Deepest   \* strings read inside each other before the stack is full

ASSUME ParseAssumption == Deepest \in Nat

VARIABLES scan, p

parseVars == <<scan, p>>

Lists == {"Title", "Header", "Scrolling", "Footer", "side"}

(***************************************************************************)
(* Nodes and frames.                                                       *)
(***************************************************************************)
SetType(q, n) == [q EXCEPT !.lists[q.cur] = Append(Front(@), n)]
NewNode(q) == [q EXCEPT !.lists[q.cur] = Append(@, "")]
Emit(q, n) == NewNode(SetType(q, n))
CurType(q) == Last(q.lists[q.cur])

\* The end of the loop of parse_HyperDoc.
Again(q) ==
    IF q.ended THEN [q EXCEPT !.returning = TRUE]
    ELSE IF CurType(q) = "Noop" THEN q ELSE NewNode(q)

\* A call of parse_HyperDoc; awaits: get_expected_token(Lbrace) comes first.
Call(q, kind, awaits) ==
    [q EXCEPT !.frames = Append(@, [kind |-> kind, awaits |-> awaits, depth |-> 0,
                                    back |-> q.cur, side |-> q.lists.side, buf |-> <<>>])]

\* The same for text that is kept apart: an argument.
CallAside(q, kind, awaits) ==
    [Call(q, kind, awaits) EXCEPT !.cur = "side", !.lists.side = <<"">>]

Fails(q, why) == [q EXCEPT !.status = why]

Top == Last(p.frames)
Active == p.status = "parsing"
Waiting == {"table?", "cells", "items?", "item?", "cond?", "macro?", "collect"}

\* In the loop of parse_HyperDoc, which reads r.
Reads(r) ==
    /\ Active /\ ~p.returning /\ ~Top.awaits /\ Top.kind \notin Waiting
    /\ ~r.bad /\ scan' = r.scan

\* Waiting for what must or may come next, with a call of get_token of its own.
Expects(r, kind) ==
    Active /\ ~p.returning /\ ~Top.awaits /\ Top.kind = kind /\ ~r.bad

Token(q, r) == [q EXCEPT !.token = r.tok]
Drop(q) == [q EXCEPT !.frames = Front(@)]

(***************************************************************************)
(* parse_HyperDoc, token by token.                                         *)
(***************************************************************************)
NodeOf == [word |-> "Word", glued |-> "Glued", bf |-> "BoldFace", em |-> "Emphasize", it |-> "It",
           tt |-> "Tt", par |-> "Par", bs |-> "Word", escaped |-> "Word", num |-> "Num"]

\* Words, fonts and the end of a paragraph; a bracket is a word, unless one is awaited.
ParseSimple ==
    \E r \in GetToken(scan) :
      /\ r.tok \in DOMAIN NodeOf \union {"[", "]"}
      /\ r.tok = "]" => ~p.inOptional
      /\ Reads(r)
      /\ p' = Again(SetType(Token(p, r),
                            IF r.tok \in DOMAIN NodeOf THEN NodeOf[r.tok] ELSE "Word"))

\* Tokens at which the call that reads them comes back, whatever it was for.
ParseEnder ==
    \E r \in GetToken(scan) :
      /\ \/ r.tok \in {"eof", "}"}
         \/ r.tok = "]" /\ p.inOptional
         \/ r.tok \in {"fi", "else"} /\ p.inIf
      /\ Reads(r)
      /\ p' = [Token(p, r) EXCEPT !.returning = TRUE]

ParseGroup ==
    \E r \in GetToken(scan) :
      /\ r.tok = "{" /\ Reads(r)
      /\ p' = Call([Emit(Token(p, r), "Group") EXCEPT !.groups = @ + 1], "group", FALSE)

\* \centerline, \fbox, \mbox: their text is part of the page.
Enclosing == [centerline |-> "Center", fbox |-> "Box", mbox |-> "Mbox"]

ParseEnclosing ==
    \E r \in GetToken(scan) :
      /\ r.tok \in DOMAIN Enclosing /\ Reads(r)
      /\ p' = Call(Emit(Token(p, r), Enclosing[r.tok]),
                   IF r.tok = "centerline" THEN "center" ELSE "box", TRUE)

\* parse_button and parse_command; the argument of a command may ask for what
\* the reader has typed.
ParseButton ==
    \E r \in GetToken(scan) :
      /\ r.tok \in {"link", "lispcommand"} /\ Reads(r)
      /\ p' = Call([Emit(Token(p, r), "Link") EXCEPT !.valueOk = @ \/ r.tok = "lispcommand"],
                   IF r.tok = "link" THEN "label" ELSE "clabel", TRUE)

\* \stringvalue{...}: anywhere else parser_error ends HyperDoc.
ParseValue ==
    \E r \in GetToken(scan) :
      /\ r.tok = "stringvalue" /\ Reads(r)
      /\ p' = IF p.valueOk THEN Again(SetType(Token(p, r), "Word")) ELSE Fails(p, "exit")

ParseSpadcommand ==
    \E r \in GetToken(scan) :
      /\ r.tok = "spadcommand" /\ Reads(r)
      /\ p' = Call([Emit(Token(p, r), "Spadcommand") EXCEPT !.spadcom = TRUE], "spad", TRUE)

\* \free{...} and \bound{...}, which must be inside a \spadcommand.
ParseFree ==
    \E r \in GetToken(scan) :
      /\ r.tok \in {"free", "bound"} /\ Reads(r)
      /\ p' = IF r.tok = "bound" /\ ~p.spadcom THEN Fails(p, "exit")
              ELSE CallAside(SetType(Token(p, r), "Free"), "aside", TRUE)

\* parse_value1, parse_value2: \indent{n}, \space{n}.
ParseNumber ==
    \E r \in GetToken(scan) :
      /\ r.tok = "indent" /\ Reads(r)
      /\ p' = CallAside(SetType(Token(p, r), "Indent"), "value", TRUE)

\* parse_help: \helppage{name}.
ParseHelp ==
    \E r \in GetToken(scan) :
      /\ r.tok = "helppage" /\ Reads(r)
      /\ p' = CallAside(SetType(Token(p, r), "Noop"), "help", TRUE)

\* \newcond{\c}, \setcond{\c}{1}: the conditions belong to the window.
ParseNewcond ==
    \E r \in GetToken(scan) :
      /\ r.tok \in {"newcond", "setcond"} /\ Reads(r)
      /\ p' = IF (r.tok = "newcond") = p.cond THEN Fails(p, "error")
              ELSE Again(SetType([Token(p, r) EXCEPT !.cond = TRUE], "Noop"))

\* \begin{verbatim}...\end{verbatim}.
ParseVerbatim ==
    \E r \in GetToken(scan) :
      /\ r.tok = "verbatim" /\ Reads(r)
      /\ p' = Again(SetType(Emit(Token(p, r), "Verbatim"), "Endverbatim"))

(***************************************************************************)
(* Items.                                                                  *)
(***************************************************************************)
ParseBeginItems ==
    \E r \in GetToken(scan) :
      /\ r.tok = "beginitems" /\ Reads(r)
      /\ p' = Call(SetType(Token(p, r), "Beginitems"), "items?", FALSE)

ParseItem ==
    \E r \in GetToken(scan) :
      /\ r.tok = "item" /\ Reads(r)
      /\ p' = IF p.inItems THEN Call(SetType(Token(p, r), "Item"), "item?", FALSE)
              ELSE Fails(p, "error")

\* What follows \begin{items} is its optional argument, or is given back.
ItemsOption ==
    \E r \in GetToken(scan) :
      /\ Expects(r, "items?")
      /\ IF r.tok = "["
         THEN /\ scan' = r.scan
              /\ p' = CallAside([SetType(Drop(Token(p, r)), "Beginitems[")
                                   EXCEPT !.inOptional = TRUE], "iopt", FALSE)
         ELSE /\ scan' = UngetToken(r.scan, r.tok)
              /\ p' = Again([Drop(Token(p, r)) EXCEPT !.inItems = TRUE])

ItemOption ==
    \E r \in GetToken(scan) :
      /\ Expects(r, "item?")
      /\ IF r.tok = "["
         THEN /\ scan' = r.scan
              /\ p' = Call([Emit(NewNode(Drop(Token(p, r))), "Description")
                              EXCEPT !.inOptional = TRUE], "desc", FALSE)
         ELSE /\ scan' = UngetToken(r.scan, r.tok)
              /\ p' = Again(Drop(Token(p, r)))

EndItems(q) == [q EXCEPT !.inItems = FALSE]

ParseEndItems ==
    \E r \in GetToken(scan) :
      /\ r.tok = "enditems" /\ Reads(r)
      /\ p' = Again(SetType(EndItems(Token(p, r)), "Enditems"))

(***************************************************************************)
(* Conditionals and tables.                                                *)
(***************************************************************************)
ParseIfcond ==
    \E r \in GetToken(scan) :
      /\ r.tok = "ifcond" /\ Reads(r)
      /\ p' = IF p.inIf THEN Fails(p, "error")
              ELSE Call([Emit(Token(p, r), "Ifcond") EXCEPT !.inIf = TRUE], "cond?", FALSE)

\* parse_condnode: what is no condition is reported, and the ten tokens after
\* it are printed and so lost; a page is shorter here.
CondNode ==
    \E r \in GetToken(scan) :
      /\ Expects(r, "cond?") /\ scan' = r.scan
      /\ p' = IF r.tok = "hasreturn" \/ (r.tok = "cond" /\ p.cond)
              THEN Call(Drop(Token(p, r)), "then", FALSE)
              ELSE Fails(p, "error")

\* An \else or a \fi nobody is waiting for.
StrayFi ==
    \E r \in GetToken(scan) :
      r.tok \in {"fi", "else"} /\ ~p.inIf /\ Reads(r) /\ p' = Fails(p, "error")

ParseTable ==
    \E r \in GetToken(scan) :
      /\ r.tok = "table" /\ Reads(r)
      /\ p' = Call(Emit(Token(p, r), "Table"), "table?", TRUE)

\* A table without entries is no node at all.
FirstCell ==
    \E r \in GetToken(scan) :
      /\ Expects(r, "table?") /\ scan' = r.scan
      /\ p' = CASE r.tok = "{" -> Call(Emit(Call(Drop(Token(p, r)), "cells", FALSE),
                                            "Tableitem"), "cell", FALSE)
                [] r.tok = "}" -> LET q == Drop(Token(p, r))
                                  IN Again(SetType([q EXCEPT !.lists[q.cur] = Front(@)], "Noop"))
                [] OTHER -> Fails(p, "error")

\* Whatever is not the end of the table is taken for the brace of an entry;
\* at the end of the text there is no end of entries.
NextCell ==
    \E r \in GetToken(scan) :
      /\ Expects(r, "cells") /\ scan' = r.scan
      /\ p' = CASE r.tok = "}" -> Again(SetType(Drop(Token(p, r)), "Endtable"))
                [] r.tok = "eof" -> Fails(p, "endless")
                [] OTHER -> Call(Emit(Token(p, r), "Tableitem"), "cell", FALSE)

(***************************************************************************)
(* Macros.  The arguments are read character by character, the parameters  *)
(* of the macro that is being read in place of their numbers.              *)
(***************************************************************************)
\* scan_HyperDoc looks for the end of the macro without a window, and an error
\* that comes back without one finds none.
ParseMacro ==
    \E r \in GetToken(scan) :
      /\ r.tok \in DOMAIN Macros
      /\ Active /\ ~p.returning /\ ~Top.awaits /\ Top.kind \notin Waiting
      /\ scan' = IF r.tok \in p.loaded THEN r.scan ELSE LoadMacro(r.scan)
      /\ p' = IF ~Macros[r.tok].whole THEN Fails(p, "crash")
              ELSE Call([Emit(Token(p, r), "Macro") EXCEPT
                           !.loaded = @ \union {r.tok}, !.macro = r.tok], "macro?", FALSE)

\* parse_macro, once the parameters are known.
Expand(q, s, args) ==
    /\ scan' = ParseFromString(s, Macros[q.macro].text)
    /\ p' = IF Len(s.strings) = Deepest THEN Fails(p, "endless")
            ELSE Call([q EXCEPT !.params = Append(@, args)], "macro", FALSE)

NoArguments ==
    /\ Active /\ ~p.returning /\ Top.kind = "macro?" /\ Macros[p.macro].takes = 0
    /\ Expand(Drop(p), scan, <<>>)

FirstBrace ==
    \E r \in GetToken(scan) :
      /\ Expects(r, "macro?") /\ Macros[p.macro].takes = 1 /\ scan' = r.scan
      /\ p' = IF r.tok # "{" THEN Fails(p, "error")
              ELSE [Call(Drop(Token(p, r)), "collect", FALSE) EXCEPT
                      !.frames[Len(p.frames)].depth = 1]

Collects(q, text) == [q EXCEPT !.frames[Len(q.frames)].buf = @ \o text]
Nests(q, n) == [q EXCEPT !.frames[Len(q.frames)].depth = @ + n]

\* What #1 stands for inside an argument.
Argument(q) == IF q.params = <<>> THEN <<"#">> ELSE Last(q.params)[1]

\* get_parameter_strings: a brace counts even after a backslash.
GetParameterStrings ==
    \E r \in GetChar1(scan) :
      /\ Active /\ ~p.returning /\ Top.kind = "collect"
      /\ CASE r.tok \in {"}", "escaped"} /\ Top.depth = 1 ->
                Expand(Drop(p), r.scan,
                       <<Top.buf \o IF r.tok = "}" THEN <<>> ELSE <<"bs">> >>)
           [] r.tok = "eof" -> scan' = r.scan /\ p' = Fails(p, "error")
           [] r.tok = "#" -> /\ scan' = r.scan
                             /\ p' = IF p.params # <<>> /\ Last(p.params) = <<>>
                                     THEN Fails(p, "crash") ELSE Collects(p, Argument(p))
           [] r.tok = "escaped" -> scan' = r.scan /\ p' = Nests(Collects(p, <<"bs", "}">>), -1)
           [] OTHER -> /\ scan' = r.scan
                       /\ p' = Nests(Collects(p, <<r.tok>>),
                                     CASE r.tok = "{" -> 1 [] r.tok = "}" -> -1 [] OTHER -> 0)

\* parse_parameters: the text of the parameter is read in its place.  There is
\* no list of them outside a macro.
ParseParameters ==
    \E r \in GetToken(scan) :
      /\ r.tok = "#"
      /\ Active /\ ~p.returning /\ ~Top.awaits /\ Top.kind \notin Waiting
      /\ IF p.params = <<>> THEN scan' = r.scan /\ p' = Fails(p, "crash")
         ELSE IF Last(p.params) = <<>> THEN scan' = r.scan /\ p' = Fails(p, "error")
         ELSE IF Len(scan.strings) = Deepest THEN scan' = r.scan /\ p' = Fails(p, "endless")
         ELSE /\ scan' = ParseFromString(r.scan, Last(p.params)[1])
              /\ p' = Call(Emit(Token(p, r), "Pound"), "param", FALSE)

(***************************************************************************)
(* Regions.                                                                *)
(***************************************************************************)
PushMR(q, region) == [q EXCEPT !.mr = Append(@, q.region), !.region = region]
PopMR(q) == [q EXCEPT !.region = Last(q.mr), !.mr = Front(@)]
NewList(q, l, n) == [q EXCEPT !.cur = l, !.lists[l] = <<n>>]

\* Inside a group, or any other call, the lists are tied together across the
\* regions; that is not followed any further.
Outermost == Len(p.frames) = 1

StartScrolling ==
    \E r \in GetToken(scan) :
      /\ r.tok = "beginscroll" /\ Reads(r)
      /\ p' = IF p.region # "Header" THEN Fails(p, "error")
              ELSE IF ~Outermost THEN Fails(p, "tangled")
              ELSE Again(NewList(PushMR(PopMR(SetType(Token(p, r), "Endheader")), "Scrolling"),
                                 "Scrolling", "Scrollingnode"))

StartFooter ==
    \E r \in GetToken(scan) :
      /\ r.tok = "endscroll" /\ Reads(r)
      /\ p' = IF p.region # "Scrolling" THEN Fails(p, "error")
              ELSE IF ~Outermost THEN Fails(p, "tangled")
              ELSE Again(NewList(PushMR(PopMR(SetType(Token(p, r), "Endscrolling")), "Footer"),
                                 "Footer", "Footernode"))

\* end_a_page, at \end{page}, \begin{page} or \newcommand.
EndAPage ==
    \E r \in GetToken(scan) :
      /\ r.tok \in {"endpage", "newcommand"} /\ Reads(r)
      /\ LET q == [Token(p, r) EXCEPT !.ended = TRUE, !.returning = TRUE]
         IN p' = CASE p.region = "Scrolling" -> Fails(p, "error")
                   [] p.region = "Footer" -> PopMR(SetType(q, "Endscrolling"))
                   [] p.region = "Header" -> PopMR(SetType(q, "Endheader"))
                   [] OTHER -> q

(***************************************************************************)
(* What ends the parse: a missing brace, an \end that ends something else, *)
(* or Axiom, asked for more of a page that it has ended.                   *)
(***************************************************************************)
GetExpectedToken ==
    \E r \in GetToken(scan) :
      /\ Active /\ ~p.returning /\ Top.awaits /\ ~r.bad /\ scan' = r.scan
      /\ p' = IF r.tok # "{" THEN Fails(p, "error")
              ELSE [Token(p, r) EXCEPT !.frames[Len(p.frames)].awaits = FALSE]

BadEnd ==
    \E r \in GetToken(scan) :
      /\ Active /\ ~p.returning /\ Top.kind # "collect" /\ r.bad
      /\ Top.kind = "macro?" => Macros[p.macro].takes = 1
      /\ scan' = r.scan /\ p' = Fails(p, "error")

Hangs ==
    /\ Active /\ ~p.returning /\ AsksAgain(scan)
    /\ Top.kind = "macro?" => Macros[p.macro].takes = 1
    /\ p' = Fails(p, "hung") /\ UNCHANGED scan

(***************************************************************************)
(* parse_HyperDoc comes back: what its caller does.                        *)
(***************************************************************************)
Back(kind) == Active /\ p.returning /\ Top.kind = kind
Popped == [Drop(p) EXCEPT !.returning = FALSE]

\* The list the caller goes on with.
Rejoin(q) == [q EXCEPT !.cur = Top.back, !.lists.side = Top.side]

BackInGroup ==
    /\ Back("group") /\ UNCHANGED scan
    /\ p' = Again(SetType([Popped EXCEPT !.groups = @ - 1], "Endgroup"))

BackInCenter ==
    /\ Back("center") /\ UNCHANGED scan
    /\ p' = IF p.token # "}" THEN Fails(p, "error") ELSE Again(SetType(Popped, "Endcenter"))

BackInBox ==
    /\ Back("box") /\ UNCHANGED scan
    /\ p' = Again(SetType(Popped, "Endbox"))

BackInLabel ==
    \E kind \in {"label", "clabel"} :
      /\ Back(kind) /\ UNCHANGED scan
      /\ p' = CallAside(SetType(Popped, "Endbutton"),
                        IF kind = "label" THEN "arg" ELSE "carg", TRUE)

BackInArgument ==
    \E kind \in {"arg", "carg"} :
      /\ Back(kind) /\ UNCHANGED scan
      /\ p' = Again([Rejoin(Popped) EXCEPT !.valueOk = @ /\ kind = "arg"])

BackInSpadcommand ==
    /\ Back("spad") /\ UNCHANGED scan
    /\ p' = Again(SetType([Popped EXCEPT !.spadcom = FALSE], "Endspadcommand"))

BackAside ==
    /\ Back("aside") /\ UNCHANGED scan
    /\ p' = Again(Rejoin(Popped))

\* What is not a number is replaced by one, in a text that was never made.
BackInValue ==
    /\ Back("value") /\ UNCHANGED scan
    /\ p' = IF \A i \in DOMAIN p.lists.side : p.lists.side[i] \in {"Num", "", "Noop"}
            THEN Again(Rejoin(Popped)) ELSE Fails(p, "crash")

BackInHelp ==
    /\ Back("help") /\ UNCHANGED scan
    /\ p' = IF p.token # "}" THEN Fails(p, "error") ELSE Again(Rejoin(Popped))

\* The then part ends at \fi or \else, the else part at \fi.
BackInThen ==
    /\ Back("then") /\ UNCHANGED scan
    /\ p' = CASE p.token = "fi" ->
                   Again(SetType([Emit(Popped, "Fi") EXCEPT !.inIf = FALSE], "Endif"))
              [] p.token = "else" -> Call(Emit(Emit(Popped, "Fi"), "Else"), "else", FALSE)
              [] OTHER -> Fails(p, "error")

BackInElse ==
    /\ Back("else") /\ UNCHANGED scan
    /\ p' = IF p.token # "fi" THEN Fails(p, "error")
            ELSE Again(SetType([Emit(Popped, "Fi") EXCEPT !.inIf = FALSE], "Endif"))

\* Optional arguments must end with ].
BackInOption ==
    \E kind \in {"iopt", "desc"} :
      /\ Back(kind) /\ UNCHANGED scan
      /\ LET q == [Popped EXCEPT !.inOptional = FALSE]
         IN p' = IF p.token # "]" THEN Fails(p, "error")
                 ELSE IF kind = "desc" THEN Again(SetType(q, "Enddescription"))
                 ELSE Again([Rejoin(q) EXCEPT !.inItems = TRUE])

BackInCell ==
    /\ Back("cell") /\ UNCHANGED scan
    /\ p' = Emit(Popped, "Endtableitem")

\* Mutant: the parameters of the macro stay.
PopParameters_Kept(q) == q

PopParameters(q) == [q EXCEPT !.params = Front(@)]

\* The rest of the macro is not read if something else has ended the call.
BackInMacro ==
    /\ Back("macro") /\ scan' = RestoreScannerState(scan)
    /\ p' = LET q == PopParameters(Popped)
            IN Again(IF q.ended THEN SetType(Emit(q, "Endmacro"), CurType(q))
                     ELSE SetType(q, "Endmacro"))

\* Mutant: the end of the parameter is not marked.
BackInParameter_Unmarked ==
    /\ Back("param") /\ scan' = RestoreScannerState(scan)
    /\ p' = Again(SetType(Popped, "Noop"))

BackInParameter ==
    /\ Back("param") /\ scan' = RestoreScannerState(scan)
    /\ p' = Again(SetType(Popped, "Endparameter"))

\* parse_header.
ParseHeader(q) == NewNode(NewList(PushMR(q, "Header"), "Header", "Headernode"))

BackInTitle ==
    /\ Back("title") /\ UNCHANGED scan
    /\ p' = IF p.token # "}" THEN Fails(p, "error")
            ELSE Call(ParseHeader(PopMR(SetType(Emit(Popped, "Endcenter"), "Endtitle"))),
                      "page", FALSE)

\* The outermost call: the page is read, or what there is of it.
BackInPage ==
    /\ Back("page") /\ UNCHANGED scan
    /\ p' = [Popped EXCEPT !.status = "parsed"]

(***************************************************************************)
(* A page after the other, in the same window.                             *)
(***************************************************************************)
\* parse_title.
ParseTitle(q) ==
    Call(Emit(NewNode(NewList(PushMR(q, "Title"), "Title", "Titlenode")), "Center"),
         "title", FALSE)

\* init_parse_page: the flags, the group and the begin-end stacks.  The lists
\* belong to the page, and the calls are gone with the jump; parameters that
\* a failed page had pushed are still there (under counts them).
InitParsePage(q) ==
    [q EXCEPT !.ended = FALSE, !.inIf = FALSE, !.inItems = FALSE, !.inOptional = FALSE,
              !.valueOk = FALSE, !.spadcom = FALSE, !.groups = 0, !.under = Len(q.params),
              !.status = "parsing", !.returning = FALSE, !.frames = <<>>,
              !.lists = [l \in Lists |-> <<>>], !.token = NoToken]

\* parse_page.
ParsePage(q, subject) ==
    IF subject.first = "Title" THEN ParseTitle(InitParsePage(q))
    ELSE Call(ParseHeader(InitParsePage(q)), "page", FALSE)

Window ==
    [status |-> "idle", token |-> NoToken, returning |-> FALSE, frames |-> <<>>,
     lists |-> [l \in Lists |-> <<>>], cur |-> "Header", region |-> "none", mr |-> <<>>,
     ended |-> FALSE, inIf |-> FALSE, inItems |-> FALSE, inOptional |-> FALSE,
     valueOk |-> FALSE, spadcom |-> FALSE, groups |-> 0, under |-> 0,
     params |-> <<>>, macro |-> NoToken, cond |-> FALSE, loaded |-> {}, pages |-> 1]

ParseInit ==
    /\ scan \in {InitScanner(subject) : subject \in Subjects}
    /\ p = ParsePage(Window, scan.subject)

NextPage ==
    /\ p.status \in {"parsed", "error"} /\ p.pages < scan.subject.count
    /\ scan' = InitScanner(scan.subject)
    /\ p' = ParsePage([p EXCEPT !.pages = @ + 1], scan.subject)

ParseNext ==
    \/ ParseSimple \/ ParseEnder \/ ParseGroup \/ ParseEnclosing \/ ParseButton
    \/ ParseValue \/ ParseSpadcommand \/ ParseFree \/ ParseNumber \/ ParseHelp
    \/ ParseNewcond \/ ParseVerbatim \/ ParseBeginItems \/ ParseItem \/ ItemsOption
    \/ ItemOption \/ ParseEndItems \/ ParseIfcond \/ CondNode \/ StrayFi
    \/ ParseTable \/ FirstCell \/ NextCell
    \/ ParseMacro \/ NoArguments \/ FirstBrace \/ GetParameterStrings \/ ParseParameters
    \/ StartScrolling \/ StartFooter \/ EndAPage
    \/ GetExpectedToken \/ BadEnd \/ Hangs
    \/ BackInGroup \/ BackInCenter \/ BackInBox \/ BackInLabel \/ BackInArgument
    \/ BackInSpadcommand \/ BackAside \/ BackInValue \/ BackInHelp \/ BackInThen
    \/ BackInElse \/ BackInOption \/ BackInCell \/ BackInMacro \/ BackInParameter
    \/ BackInTitle \/ BackInPage
    \/ NextPage

ParseSpec == ParseInit /\ [][ParseNext]_parseVars

(***************************************************************************)
(* Properties.                                                             *)
(***************************************************************************)
Kinds == {"group", "center", "box", "label", "clabel", "arg", "carg", "spad", "aside",
          "value", "help", "then", "else", "iopt", "desc", "cell", "macro", "param",
          "title", "page"} \union Waiting

\* The parser and the scanner are always in one of their states.
ParseTypeOK ==
    /\ ScanOK(scan)
    /\ p.status \in {"parsing", "parsed", "error", "crash", "exit", "endless", "hung", "tangled"}
    /\ \A i \in DOMAIN p.frames : p.frames[i].kind \in Kinds /\ p.frames[i].depth \in Nat
    /\ p.cur \in Lists /\ p.lists \in [Lists -> Seq(STRING)]
    /\ p.region \in {"none", "Title", "Header", "Scrolling", "Footer"}
    /\ p.groups \in Nat /\ p.loaded \subseteq DOMAIN Macros
    /\ Active => p.frames # <<>> /\ p.lists[p.cur] # <<>>

Opener == [Endgroup |-> {"Group"}, Endmacro |-> {"Macro"}, Endparameter |-> {"Pound"},
           Endcenter |-> {"Center"}, Endbutton |-> {"Link"}, Endbox |-> {"Box", "Mbox"},
           Endspadcommand |-> {"Spadcommand"}, Endif |-> {"Ifcond"},
           Endtable |-> {"Table"}, Endtableitem |-> {"Tableitem"},
           Enddescription |-> {"Description"}, Endverbatim |-> {"Verbatim"}]

\* The marks of a list nest: what is open after it, or "bad".
Opened(list) ==
    FoldLeft(LAMBDA st, n :
               IF st = <<"bad">> THEN st
               ELSE IF n \in DOMAIN Opener
               THEN IF st # <<>> /\ Last(st) \in Opener[n] THEN Front(st) ELSE <<"bad">>
               ELSE IF \E e \in DOMAIN Opener : n \in Opener[e] THEN Append(st, n) ELSE st,
             <<>>, list)

\* Whatever closes what on the page, every mark in the lists of a page that has
\* been read is closed by its own end mark, by which the passes over the lists
\* push and pop; unless the page ended inside something, whose end mark is then
\* written over that of the region.
MarksMatch ==
    (p.status = "parsed" /\ (p.ended => CurType(p) \in {"Endheader", "Endscrolling"})) =>
      \A l \in {"Header", "Scrolling", "Footer"} : Opened(p.lists[l]) = <<>>

\* What a page that has been read leaves behind: nothing on the stacks of the
\* parser, no flag of an enclosing command, and the same parameters.
LeavesNothing ==
    p.status = "parsed" =>
      /\ scan.strings = <<>> /\ p.groups = 0 /\ Len(p.params) = p.under
      /\ ~p.inIf /\ ~p.inOptional /\ ~p.valueOk /\ ~p.spadcom

\* A page that got to its end has a footer if and only if it has a scrolling
\* region: show_page takes the one for granted where it finds the other.
CanBeShown ==
    (p.status = "parsed" /\ p.ended) =>
      ((p.lists.Scrolling # <<>>) <=> (p.lists.Footer # <<>>))

Inside(kinds) == \E i \in DOMAIN p.frames : p.frames[i].kind \in kinds
Twice(w) == \E i, j \in DOMAIN scan.read : i < j /\ scan.read[i] = w /\ scan.read[j] = w

\* What the reader has typed is asked for inside a command, and \bound is used
\* inside a \spadcommand: nothing else ends HyperDoc there, unless one command
\* was inside another.
ValuesOnlyInCommands ==
    /\ (Active /\ p.valueOk) => Inside({"clabel", "carg"})
    /\ (Active /\ p.spadcom) => Inside({"spad"})
    /\ p.status = "exit" =>
         \/ p.token # "stringvalue" /\ ~Inside({"spad"})
         \/ ~Inside({"clabel", "carg"})
         \/ Twice("lispcommand") \/ Twice("spadcommand")

\* The environment has ended in its own option.
EndsInOption ==
    \E i, j \in DOMAIN scan.read : i < j /\ scan.read[i] = "[" /\ scan.read[j] = "enditems"

\* An \item is allowed where an environment of items is open, unless one was
\* inside another: then it is refused after the inner one.  It is allowed nowhere
\* else, unless the environment has ended in its own option.
ItemsAgree ==
    (/\ Active /\ ~p.returning /\ Top.kind \notin Waiting /\ ~Inside({"iopt"})
     /\ scan.ungot = NoToken /\ ~Twice("beginitems")) =>
      /\ "items" \in ToSet(scan.be) => p.inItems
      /\ p.inItems => "items" \in ToSet(scan.be) \/ EndsInOption

\* Axiom is not asked for more of a page it has ended, unless the last word of
\* the page is a macro that had not been loaded.
EndIsHeard ==
    p.status = "hung" => Len(scan.read) > 1 /\ scan.read[Len(scan.read) - 1] \in DOMAIN Macros

(***************************************************************************)
(* What a page of words, groups and macros says.  The reference takes the  *)
(* argument of a macro for a text with the parameters it was written with. *)
(***************************************************************************)
RECURSIVE ArgumentEnd(_, _, _), Written(_, _)

\* The place of the brace that closes.
ArgumentEnd(text, i, depth) ==
    IF text[i] = "}" /\ depth = 1 THEN i
    ELSE ArgumentEnd(text, i + 1, depth + (CASE text[i] = "{" -> 1 [] text[i] = "}" -> -1
                                             [] OTHER -> 0))

Written(text, env) ==
    IF text = <<>> THEN <<>>
    ELSE LET t == Head(text) rest == Tail(text) IN
         CASE t = "#" -> Written(env[1].text, env[1].env) \o Written(rest, env)
           [] t \in DOMAIN Macros /\ Macros[t].takes = 0 ->
                <<"Macro">> \o Written(Macros[t].text, <<>>) \o <<"Endmacro">>
                  \o Written(rest, env)
           [] t \in DOMAIN Macros /\ Macros[t].takes = 1 ->
                LET e == ArgumentEnd(rest, 2, 1)
                IN <<"Macro">>
                     \o Written(Macros[t].text, <<[text |-> SubSeq(rest, 2, e - 1), env |-> env]>>)
                     \o <<"Endmacro">> \o Written(SubSeq(rest, e + 1, Len(rest)), env)
           [] OTHER -> <<CASE t = "word" -> "Word" [] t = "{" -> "Group" [] t = "}" -> "Endgroup">>
                         \o Written(rest, env)

Text == LET ends == {i \in DOMAIN scan.read : scan.read[i] \in {"eof", "endpage"}}
        IN IF ends = {} THEN scan.read
           ELSE SubSeq(scan.read, 1, (CHOOSE i \in ends : \A j \in ends : i <= j) - 1)

Depth(text, i) ==
    Cardinality({j \in 1..i : text[j] = "{"}) - Cardinality({j \in 1..i : text[j] = "}"})

\* Balanced text; a macro with a parameter has its argument.
Plain(text) ==
    /\ \A i \in DOMAIN text :
         /\ text[i] \in {"word", "{", "}"} \union {m \in DOMAIN Macros : Macros[m].whole}
         /\ Depth(text, i) >= 0
         /\ (text[i] \in DOMAIN Macros /\ Macros[text[i]].takes = 1) =>
              i < Len(text) /\ text[i + 1] = "{"
    /\ Depth(text, Len(text)) = 0

\* A page of balanced text is read, and means what is written: macros and
\* parameters stand for their text, however they are nested, and the page goes on
\* after each of them where it was.
ReadAsWritten ==
    (/\ p.status \notin {"parsing", "hung"} /\ scan.subject.first = "Header"
     /\ Plain(Text) /\ scan.read # Text) =>
      /\ p.status = "parsed"
      /\ SelectSeq(p.lists.Header, LAMBDA n : n \notin {"Pound", "Endparameter"})
           = <<"Headernode">> \o Written(Text, <<>>) \o <<IF p.ended THEN "Endheader" ELSE "">>

\* The marks and the items of a page that is read match, and a page of words,
\* groups and macros means what is written.
PageIsMarked == ParseTypeOK /\ MarksMatch /\ ItemsAgree /\ ReadAsWritten

\* A page leaves the parser as it found it, and can be shown; what is allowed
\* in a command only ends with it, and so does what Axiom is asked for.
ParserIsReset == LeavesNothing /\ CanBeShown /\ ValuesOnlyInCommands /\ EndIsHeard
=============================================================================
