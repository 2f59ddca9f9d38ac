----------------------------- MODULE MCRecurrence -----------------------------
\* An instance of Recurrence for TLC: the first six months of a common year, a
\* Monday first, morning and evening.  Three months pass; the calendar goes on so
\* that the next run is in it.  The clock stops at the ends of months and a few days
\* between.
EXTENDS Recurrence, TLC

Instants == {60, 62, 117, 118, 178, 180}

Calendar == <<31, 28, 31, 30, 31, 30>>

Of(d, m, w, o, r) == [days |-> d, months |-> m, dow |-> w, dom |-> o, rt |-> r]

Cadences ==
  {Of(2, 0, 0, 0, 1), Of(7, 0, 3, 0, 1), Of(14, 0, 3, 0, Unset),
   Of(0, 1, 0, 31, 1), Of(0, 1, 0, 0, Unset), Of(0, 2, 0, 30, 0)}

\* To days, to weeks, to months, another day of the month or the week, another time.
Patches ==
  {Of(2, 0, Unset, Unset, Unset), Of(7, Unset, 5, Unset, Unset),
   Of(0, 1, Unset, Unset, Unset), Of(0, 1, Unset, 31, 0), Of(Unset, Unset, Unset, 0, Unset),
   Of(Unset, Unset, Unset, Unset, 0)}
Interchangeable == Permutations(Update)
=============================================================================
