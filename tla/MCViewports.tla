---------------------------- MODULE MCViewports ----------------------------
(***************************************************************************)
(* A viewport of either kind, which is chosen at the start.                *)
(***************************************************************************)
EXTENDS View3D, View2D

VARIABLE kind

MCMaxEvents3D == [any |-> 3, light |-> 7, volume |-> 6, commands |-> 4]

MCInit ==
    /\ kind \in {"2D", "3D"}
    /\ Init3D /\ Init2D
    /\ kind = "2D" => /\ focus3 = "any" /\ v3.style = "smooth"
                      /\ ~v3.oneHue /\ ~v3.shades /\ ~v3.haveControl
    /\ kind = "3D" => g2.alone /\ ~g2.haveControl /\ g2.state[1] = g2.backup[1]
                      /\ g2.state[1].scale = 1 /\ ~g2.state[1].showing

MCNext ==
    \/ kind = "3D" /\ Next3D /\ UNCHANGED <<vars2, kind>>
    \/ kind = "2D" /\ Next2D /\ UNCHANGED <<vars3, kind>>

MCSpec == MCInit /\ [][MCNext]_<<vars3, vars2, kind>>
============================================================================
