----------------------------- MODULE MCHyperPages -----------------------------
EXTENDS HyperLayout

About(words, length) ==
    [words |-> words, length |-> length, first |-> "Header", where |-> "file", count |-> 1,
     opening |-> <<>>, closing |-> <<>>]

InScroll(words, length) ==
    [About(words, length) EXCEPT !.opening = <<"beginscroll">>, !.closing = <<"endscroll", "endpage">>]

MCSubjects ==
    {About({"word", "{", "}", "m", "n"}, 4),
     About({"word", "{", "}", "m", "n", "b", "#", "escaped"}, 4),
     About({"word", "beginitems", "item", "[", "]", "enditems", "{", "}"}, 5),
     About({"word", "beginitems", "item", "enditems", "beginscroll", "endscroll", "endpage"}, 5),
     About({"word", "ifcond", "cond", "hasreturn", "else", "fi", "newcond", "{", "}"}, 5),
     [InScroll({"word", "else", "fi", "centerline", "{", "}"}, 6)
        EXCEPT !.opening = <<"beginscroll", "ifcond", "hasreturn">>],
     [InScroll({"word", "else", "fi", "bf", "glued"}, 5)
        EXCEPT !.opening = <<"beginscroll", "word", "ifcond", "hasreturn">>],
     InScroll({"ifcond", "hasreturn", "else", "fi", "beginitems", "enditems", "word"}, 6),
     About({"lispcommand", "stringvalue", "link", "word", "{", "}"}, 6),
     InScroll({"link", "bf", "word", "{", "}"}, 6),
     [InScroll({"bf", "word", "{", "}"}, 6)
        EXCEPT !.opening = <<"beginscroll", "word", "{", "link", "{">>],
     About({"link", "{", "}"}, 8),
     [About({"centerline", "{", "}", "word"}, 4) EXCEPT !.opening = <<"table", "{", "{", "word", "}", "{", "word", "}", "}">>],
     About({"spadcommand", "free", "bound", "{", "}", "word"}, 6),
     About({"indent", "num", "helppage", "{", "}", "word", "verbatim", "par"}, 4),
     [About({"{", "}", "word"}, 7) EXCEPT !.opening = <<"indent", "{", "num", "}", "table", "{">>],
     [About({"{", "}", "word"}, 6) EXCEPT !.opening = <<"table", "{", "{", "table", "{">>],
     About({"word", "glued", "{", "}", "bf", "par"}, 4),
     About({"word", "beginscroll", "endscroll", "endpage", "newcommand", "{", "}"}, 5),
     About({"centerline", "fbox", "mbox", "{", "}", "bf", "em", "word"}, 5),
     About({"centerline", "{", "}", "bf", "em", "it", "tt", "word"}, 4),
     [About({"word", "{", "}", "beginscroll", "endscroll", "endpage"}, 5) EXCEPT !.first = "Title"],
     [About({"m", "n", "{", "}"}, 4) EXCEPT !.where = "socket"],
     [About({"newcond", "setcond", "m", "n", "{", "}"}, 3) EXCEPT !.count = 2]}

MCMacros == [m |-> [takes |-> 1, text |-> <<"#", "{", "k", "{", "#", "word", "}", "}", "#">>, whole |-> TRUE],
             k |-> [takes |-> 1, text |-> <<"word", "#">>, whole |-> TRUE],
             n |-> [takes |-> 0, text |-> <<"m", "{", "word", "}", "{", "word", "}">>, whole |-> TRUE],
             b |-> [takes |-> 0, text |-> <<>>, whole |-> FALSE]]
=============================================================================
