--------------------------- MODULE MCCryptoStream ---------------------------
(***************************************************************************)
(* Files of up to three chunks for TLC.                                    *)
(***************************************************************************)
EXTENDS CryptoStream

CONSTANTS a, b

TwoUnits == {a, b}

=============================================================================
