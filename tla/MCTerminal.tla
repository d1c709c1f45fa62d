----------------------------- MODULE MCTerminal -----------------------------
(***************************************************************************)
(* clef: somebody edits a line with every key, or uses the history with a  *)
(* few keys for longer, or the process is started, signalled and ended.    *)
(***************************************************************************)
EXTENDS Clef, ClefProcess

CONSTANTS LineKeys,      \* keys pressed when every key is there
          HistoryKeys    \* and when only the keys of the history are

VARIABLE part

MCFiles == << << <<"a", "b">>, <<"b">> >>, << <<"a">>, <<"a", "b", "a">> >> >>
MCRevisions == {<< <<"a", "a">> >>}
MCTyped == {"a", " ", "bell"}
MCRecalled == {"^", "G", "bell"}
MCPfKey == <<"a">>

terminalVars == <<part, clefVars, processVars>>

MCInit ==
    /\ part \in {"line", "history", "process"}
    /\ ClefInit /\ ProcessInit

MCNext ==
    \/ part = "line" /\ keys < LineKeys /\ ClefNext /\ UNCHANGED <<part, processVars>>
    \/ /\ part = "history" /\ keys < HistoryKeys /\ HistoryNext
       /\ UNCHANGED <<part, processVars>>
    \/ part = "process" /\ ProcessNext /\ UNCHANGED <<part, clefVars>>

MCSpec == MCInit /\ [][MCNext]_terminalVars /\ (part = "process" => ProcessFairness)
=============================================================================
