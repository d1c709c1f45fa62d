----------------------------- MODULE Completion -----------------------------
(***************************************************************************)
(* Word completion (wct.c): a list of tables, each the words of one file.  *)
(* The first Tab scans for the first word that starts with what was typed, *)
(* each further Tab goes on from there.  A table is read again when its    *)
(* file is newer; wordc then still counts the words that it had, and the   *)
(* extra entries of wordv are empty strings.                               *)
(***************************************************************************)
EXTENDS Integers, Sequences, FiniteSets, SequencesExt

CONSTANTS Files,      \* what the files hold at the start: a word list for each
          Revisions   \* word lists that a file may be given later

VARIABLES wcts, wix

Word(t, i) == IF i <= Len(t.wordv) THEN t.wordv[i] ELSE <<>>

\* read1Wct, intern1Wct: a new table has counted no words yet.
Intern1Wct(words) == [wordc |-> Len(words), wordv |-> words, file |-> words, newer |-> FALSE]

\* reread1Wct, burst1Wct: wordc goes on from its old value.
Burst1Wct(t) ==
    [t EXCEPT !.wordc = @ + Len(t.file), !.wordv = t.file, !.newer = FALSE]

Strneql(t, i, prefix) == IsPrefix(prefix, Word(t, i))

\* The hits of one table from word i on, the first of them.
HitsFrom(t, i, j, prefix) == {k \in i .. j : Strneql(t, k, prefix)}
First(S) == CHOOSE k \in S : \A m \in S : k <= m

\* scanWct: a table that it comes to is read again if its file is newer.
Fresh(t) == IF t.newer THEN Burst1Wct(t) ELSE t
Reread(tables, prefix) ==
    [t \in DOMAIN tables |->
        IF \A u \in 1 .. t - 1 :
              HitsFrom(Fresh(tables[u]), 1, Fresh(tables[u]).wordc, prefix) = {}
        THEN Fresh(tables[t]) ELSE tables[t]]

\* scanWct, in the tables as reread: the first hit of the first table with one.
ScanWct(tables, prefix) ==
    LET n == Len(tables)
        hits == {t \in 1 .. n : HitsFrom(tables[t], 1, tables[t].wordc, prefix) # {}}
    IN  IF n = 0 THEN [pwct |-> 0, word |-> 0, prefix |-> prefix, found |-> FALSE]
        ELSE IF hits = {}
        THEN [pwct |-> n, word |-> tables[n].wordc, prefix |-> prefix, found |-> FALSE]
        ELSE [pwct |-> First(hits), prefix |-> prefix, found |-> TRUE,
              word |-> First(HitsFrom(tables[First(hits)], 1,
                                      tables[First(hits)].wordc, prefix))]

\* rescanWct: the rest of this table, the tables after it, the tables before
\* it, and this table up to where it started.
RescanWct(tables, x) ==
    LET here(i, j) == HitsFrom(tables[x.pwct], i, j, x.prefix)
        whole(t) == HitsFrom(tables[t], 1, tables[t].wordc, x.prefix)
        later == {t \in x.pwct + 1 .. Len(tables) : whole(t) # {}}
        sooner == {t \in 1 .. x.pwct - 1 : whole(t) # {}}
        At(t, S) == [x EXCEPT !.pwct = t, !.word = First(S), !.found = TRUE]
        after == here(x.word + 1, tables[x.pwct].wordc)
    IN  IF x.pwct = 0 THEN [x EXCEPT !.found = FALSE]
        ELSE IF after # {} THEN At(x.pwct, after)
        ELSE IF later # {} THEN At(First(later), whole(First(later)))
        ELSE IF sooner # {} THEN At(First(sooner), whole(First(sooner)))
        ELSE IF here(1, x.word) # {} THEN At(x.pwct, here(1, x.word))
        ELSE [x EXCEPT !.found = FALSE]

NoWix == [pwct |-> 0, word |-> 0, prefix |-> <<>>, found |-> FALSE]

\* load_wct_file: the last file that is named comes first.
CompletionInit ==
    /\ wcts = [i \in DOMAIN Files |-> Intern1Wct(Reverse(Files)[i])]
    /\ wix = NoWix

\* Somebody writes a file.
ReviseFile(t) ==
    \E words \in Revisions :
        /\ wcts[t].file = wcts[t].wordv /\ words # wcts[t].file
        /\ wcts' = [wcts EXCEPT ![t].file = words, ![t].newer = TRUE]
        /\ UNCHANGED wix

(***************************************************************************)
(* The reference: all the places where the prefix is found, in order.      *)
(***************************************************************************)
Places(tables, prefix) ==
    {p \in UNION {{t} \X (1 .. tables[t].wordc) : t \in DOMAIN tables} :
        Strneql(tables[p[1]], p[2], prefix)}
=============================================================================
