------------------------- MODULE MeasurementStore --------------------------
(***************************************************************************)
(* What a storage backend of metricd promises for the measurements of one *)
(* metric: the durable state is a table of the last value of every        *)
(* instance and a history of measurements with at most one per           *)
(* timestamp, and it changes only by storing one whole measurement at a  *)
(* time, which sets the instance's last value and adds the measurement to *)
(* the history together.  SQLiteBackend is shown to implement it.        *)
(***************************************************************************)
EXTENDS Naturals

CONSTANTS Instances, Times, Vals, NoRow

VARIABLES last, hist

Measurement == [time : Times, inst : Instances, value : Vals]

Init ==
  /\ last = [i \in Instances |-> NoRow]
  /\ hist = {}

\* Store measurement m, unless the history already has its timestamp.
Store(m) ==
  /\ \A r \in hist : r.time /= m.time
  /\ hist' = hist \cup {m}
  /\ last' = [last EXCEPT ![m.inst] = m.value]

Next == \E m \in Measurement : Store(m)

Spec == Init /\ [][Next]_<<last, hist>>

=============================================================================
