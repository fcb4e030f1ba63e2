---------------------------- MODULE MCScheduler ----------------------------
(* The values the .cfg files give to Scheduler. *)
EXTENDS Scheduler

\* Days of 24, 25, 24, 23 and 24 hours.  On the second 2:00 comes twice and Go takes
\* the first, on the fourth it is missing and Go takes 3:00.
MCMidnight  == [d \in 0..5 |-> HOUR * <<0, 24, 49, 73, 96, 120>>[d + 1]]
MCTwoOClock == [d \in 0..4 |-> HOUR * <<2, 26, 51, 75, 98>>[d + 1]]

\* The consent begins in the second day and ends in the third.
MCConsentFrom  == [m \in Merchants |-> 30 * HOUR]
MCConsentUntil == [m \in Merchants |-> 55 * HOUR + 1]
=============================================================================
