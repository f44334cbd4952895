-------------------------- MODULE MCScheduledProcessing --------------------------
(***************************************************************************)
(* Instances of ScheduledProcessing for TLC.  A day has four units.  The   *)
(* zone half a day behind UTC, a window that ends on the last unit of the  *)
(* next date and a lag of a whole day make dates due as late as they can   *)
(* be: at StartTime, a midnight, the latest due date is four days ago.     *)
(***************************************************************************)
EXTENDS ScheduledProcessing
CONSTANTS ann, bob, west, east

MCOffset(z, d) == IF z = west THEN -2 ELSE 1
MCWindows == {[start |-> 1, end |-> 3], [start |-> 3, end |-> 3]}
\* Dates 3 and 4 are due at the start; one month ends with date 3.
MCMonthOf(d) == IF d <= 3 THEN 1 ELSE 2
MCEligibleOn(d) == CASE d = 2 -> {} [] d = 4 -> {ann, bob} [] OTHER -> {bob}
MCFailing == {[employee |-> ann, date |-> 4]}
=============================================================================
