----------------------------- MODULE MCFrontend -----------------------------
(***************************************************************************)
(* Pages that upload a few times, whose polls are answered before the next *)
(* one (one slot) or may overlap (two).                                    *)
(***************************************************************************)
EXTENDS Frontend

CONSTANTS j1, j2, s1, s2

TwoUploads == {j1, j2}
OneSlot == {s1}
TwoSlots == {s1, s2}

=============================================================================
