--------------------------- MODULE MC_ActivityIndex ---------------------------
(* ActivityIndex on short histories: pages of two signatures. *)
EXTENDS ActivityIndex

\* At most three events.  Past a row saved over a changed one the properties
\* claim no more than the types.
Bounded == Reported(1..Len(chain)) <= 3 /\ ~overwritten
=============================================================================
