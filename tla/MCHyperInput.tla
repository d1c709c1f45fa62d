---------------------------- MODULE MCHyperInput ----------------------------
(***************************************************************************)
(* The reader of a page either types into an input area, or uses the page. *)
(***************************************************************************)
EXTENDS HyperInput, HyperForm

VARIABLE part

Nd(k, n) == [k |-> k, n |-> n, on |-> FALSE]
On(k, n) == [k |-> k, n |-> n, on |-> TRUE]
PasteArea(p, in) == <<Nd("paste", p)>> \o in \o <<Nd("button", p), Nd("endpaste", p)>>

MCDefaults == {<<>>, <<"a">>, <<"a", "b">>, <<"a", "b", "a">>, <<"a", "b", "a", "b">>}

MCPages ==
    { <<>>,
      <<Nd("input", "x")>> \o PasteArea("full", <<Nd("input", "y")>>) \o <<Nd("input", "z")>>,
      <<Nd("input", "x")>> \o PasteArea("full", <<>>),
      PasteArea("full", <<>>) \o <<Nd("button", "empty")>>,
      <<On("radio", "r1"), Nd("radio", "r2"), Nd("simple", "s")>>
        \o PasteArea("full", <<>>) \o <<Nd("input", "x")>>,
      <<Nd("input", "x"), Nd("input", "y")>> \o PasteArea("empty", <<>>),
      PasteArea("empty", <<Nd("button", "empty")>>),
      PasteArea("boxed", <<Nd("radio", "r1"), Nd("input", "x")>>),
      <<Nd("input", "x"), Nd("button", "empty")>>
        \o PasteArea("boxed", <<Nd("paste", "empty"), Nd("endpaste", "empty")>>),
      <<Nd("input", "x")>> \o PasteArea("full", <<Nd("input", "y")>>) \o PasteArea("boxed", <<>>),
      <<Nd("input", "x")>> \o PasteArea("empty", <<>>) \o PasteArea("boxed", <<>>),
      <<Nd("radio", "r1")>> \o PasteArea("boxed", <<>>) }

MCPatches ==
    [full |-> PasteArea("empty", <<>>),
     empty |-> PasteArea("full", <<Nd("input", "y"), Nd("input", "z")>>),
     boxed |-> PasteArea("full", <<On("radio", "r1"), Nd("input", "w")>>)]

MCInit ==
    /\ part \in {"keys", "page"}
    /\ InitInput /\ (part = "page" => ed.lines = InitializeDefault(<<>>))
    /\ FormInit /\ (part = "keys" => form.text = <<>> /\ scroll.room = 9)

MCNext ==
    \/ part = "keys" /\ NextInput /\ UNCHANGED <<part, form, scroll, pastes>>
    \/ part = "page" /\ FormNext /\ UNCHANGED <<part, ed, keys>>

MCSpec == MCInit /\ [][MCNext]_<<part, ed, keys, form, scroll, pastes>>
=============================================================================
