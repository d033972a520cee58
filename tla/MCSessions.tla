----------------------------- MODULE MCSessions -----------------------------
(***************************************************************************)
(* Two addresses for TLC.                                                  *)
(***************************************************************************)
EXTENDS Sessions

CONSTANTS a1, a2

TwoAddresses == {a1, a2}

=============================================================================
