---------------------------- MODULE WindowCounter ----------------------------
(***************************************************************************)
(* The rolling counter of apps/pool-core/activity_engine.py: a ring of one *)
(* bucket per second, and what an event and a reading make of it.  Events  *)
(* may come out of order: a replayed log gives them so.                    *)
(***************************************************************************)
EXTENDS Integers

CONSTANT WindowSeconds

Slot == 0 .. WindowSeconds - 1
None == -1       \* no second yet

\* The buckets, their stamps, the total and the last seen second.
Empty(second) ==
  [buckets |-> [i \in Slot |-> 0], stamps |-> [i \in Slot |-> None],
   total |-> 0, last |-> second]

\* _prepare_bucket
Prepare(r, second) ==
  LET i == second % WindowSeconds IN
  IF r.stamps[i] = second THEN r
  ELSE [r EXCEPT !.total = @ - r.buckets[i], !.buckets[i] = 0, !.stamps[i] = second]

\* The buckets of the next n seconds, one after the other.
Prepared(r, n) ==
  LET after[k \in 0 .. n] == IF k = 0 THEN r ELSE Prepare(after[k - 1], r.last + k)
  IN after[n]

\* Changed for the mutants: the new second itself is not prepared.
AdvanceShort(r, second) ==
  IF r.last = None THEN Prepare([r EXCEPT !.last = second], second)
  ELSE IF second <= r.last THEN r
  ELSE IF second - r.last >= WindowSeconds THEN Prepare(Empty(second), second)
  ELSE [Prepared(r, second - r.last - 1) EXCEPT !.last = second]

\* _advance
Advance(r, second) ==
  IF r.last = None THEN Prepare([r EXCEPT !.last = second], second)
  ELSE IF second <= r.last THEN r
  ELSE IF second - r.last >= WindowSeconds THEN Prepare(Empty(second), second)
  ELSE [Prepared(r, second - r.last) EXCEPT !.last = second]

\* Put count into the bucket of second.
Put(r, second, count) ==
  LET i == second % WindowSeconds
      kept == IF r.stamps[i] = second THEN r.buckets[i] ELSE 0
  IN [r EXCEPT !.stamps[i] = second, !.buckets[i] = kept + count, !.total = @ + count]

\* An event the window has passed already.
Late(r, second) == r.last # None /\ second <= r.last - WindowSeconds

\* increment: an event of that second counts, unless it is late.
Increment(r, second) ==
  IF Late(r, second) THEN r ELSE Put(Advance(r, second), second, 1)

\* total, which moves the ring to the second asked for.
ReadAt(r, second) == Advance(r, second)
=============================================================================
