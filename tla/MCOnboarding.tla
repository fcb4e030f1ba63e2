---------------------------- MODULE MCOnboarding ----------------------------
(* The values the .cfg file gives to Onboarding. *)
EXTENDS Onboarding, Sequences

\* p2 repeats p1 with the PAN corrected, p3 is another merchant.
MCPhone  == [q \in PanReqs |-> IF q = "p3" THEN "9003" ELSE "9001"]
MCPan    == [q \in PanReqs |-> "PAN" \o q]

\* Two merchants give the same GSTIN.
MCGstin  == [q \in GstReqs |-> "GST1"]
MCTarget == [q \in GstReqs \cup BankReqs |-> IF q = "g2" THEN "p3" ELSE "p1"]
=============================================================================
