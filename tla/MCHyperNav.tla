----------------------------- MODULE MCHyperNav -----------------------------
(***************************************************************************)
(* Three parts of HyperDoc that share no state, one of which is chosen at  *)
(* the start: two windows that go from page to page, with stacks that fill *)
(* up, the databases of two directories, with two runs of htadd, and two   *)
(* hash tables, with a name in a character set of 8 bits.                  *)
(***************************************************************************)
EXTENDS HyperNav, HyperDatabase, HashTable

CONSTANTS a1, a2

VARIABLE part

MCStatic == {"Root", "Bad"}
MCGenerated == <<"g1", "g2">>

Def(kind, name) == [kind |-> kind, name |-> name]

MCPath == <<"d1", "d2">>
Whole == <<Def("page", "p"), Def("newcommand", "m")>>
Other == <<Def("page", "q"), Def("page", "p")>>
Broken == <<Def("page", "p"), Def("broken", "broken")>>
MCTexts == {Whole, Other}
On(f1, g1, f2, g2) ==
    (<<"d1", "f">> :> f1) @@ (<<"d1", "g">> :> g1) @@ (<<"d2", "f">> :> f2) @@ (<<"d2", "g">> :> g2)
MCDisks == {On(Whole, Other, Other, Whole), On(Whole, Broken, Whole, <<>>)}
MCEdited == {<<"d1", "f">>}
Plain(f) == [dir |-> Nowhere, file |-> f]
MCUses ==
    {[dir |-> "d1", op |-> "add", names |-> <<Plain("f")>>],
     [dir |-> "d1", op |-> "delete", names |-> <<Plain("f"), [dir |-> "d1", file |-> "g"]>>],
     [dir |-> "d2", op |-> "add", names |-> <<[dir |-> "d2", file |-> "f"]>>],
     [dir |-> "d2", op |-> "fresh", names |-> <<[dir |-> "d2", file |-> "g"], Plain("f")>>]}

\* Two keys that share a chain, and one whose code is negative.
MCCode == ("x" :> 1) @@ ("y" :> 3) @@ ("z" :> -1)

Symmetry == Permutations(Adders)

MCInit ==
    /\ part \in {"pages", "databases", "tables"}
    /\ NavInit /\ DatabaseInit /\ HashInit
    /\ part # "pages" => connected
    /\ part # "databases" => store = <<<<>>>> /\ dbInode["d1"] = 1 /\ disk[<<"d2", "g">>].time = 0

MCNext ==
    \/ part = "pages" /\ NavNext /\ UNCHANGED <<part, databaseVars, hashVars>>
    \/ part = "databases" /\ DatabaseNext /\ UNCHANGED <<part, navVars, hashVars>>
    \/ part = "tables" /\ HashNext /\ UNCHANGED <<part, navVars, databaseVars>>

MCSpec == MCInit /\ [][MCNext]_<<part, navVars, databaseVars, hashVars>>
=============================================================================
