------------------------------- MODULE MCDemo -------------------------------
(* The values the .cfg file gives to Demo. *)
EXTENDS Demo

CONSTANTS b1, b2, b3

\* b1 and b2 are one transaction stored twice.  That of b3 ends in the same six
\* characters.
MCUtr     == [b \in BankRows |-> IF b = b3 THEN "u2" ELSE "u1"]
MCLastSix == [u \in Utrs |-> "123456"]
=============================================================================
