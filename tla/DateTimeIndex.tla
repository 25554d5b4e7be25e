--------------------------- MODULE DateTimeIndex ---------------------------
(***************************************************************************)
(* Operators for the time index of the stock quotes: the key a CSV stamp   *)
(* is filed under (get_date_time) and the lookup of a bar (find_idx).      *)
(***************************************************************************)
EXTENDS Integers, FiniteSetsExt

\* YYYYMMDDhhmmss, with two more digits when has_ms, reduced to hhmmss.
DateTimeKey(t, has_ms) == (IF has_ms THEN t \div 100 ELSE t) % 1000000

\* Mutated forms of find_idx: a tick must be at most 15 seconds old, and a tick
\* of the bar's own second is taken.
find_idx_recent(m, value) ==
  LET earlier == {k \in DOMAIN m : value - 15 <= k /\ k < value}
  IN  IF earlier = {} THEN -1 ELSE m[Max(earlier)]

find_idx_at(m, value) ==
  LET earlier == {k \in DOMAIN m : k <= value}
  IN  IF earlier = {} THEN -1 ELSE m[Max(earlier)]

\* find_idx walks the ordered map from its end and returns the index stored
\* under the first key below value, or -1.
find_idx(m, value) ==
  LET earlier == {k \in DOMAIN m : k < value}
  IN  IF earlier = {} THEN -1 ELSE m[Max(earlier)]
=============================================================================
