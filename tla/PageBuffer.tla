----------------------------- MODULE PageBuffer -----------------------------
(***************************************************************************)
(* The decoded page of core/page_buffer.h: parallel sequences of           *)
(* timestamps and fixed-size values, here one sequence of samples.  The   *)
(* implementation file of PageBuffer is not part of the repository, so    *)
(* its operations are modelled from spec section 4.1.  Positions are      *)
(* 0-based, as the size_t pos arguments of the class are.                 *)
(***************************************************************************)
EXTENDS Naturals, Sequences

LOCAL SeqExt == INSTANCE SequencesExt

\* One (timestamp, value) sample of a page.
Sample(time, value) == [time |-> time, value |-> value]

\* PageBuffer::getSize
GetSize(buf) == Len(buf)

\* PageBuffer::getTimestamp: the timestamp of the sample at pos < size.
GetTimestamp(buf, pos) == buf[pos + 1].time

\* PageBuffer::update: replace the value at pos, keep its timestamp.  The
\* precondition pos < size is the caller's; a call outside it (reachable only
\* when a cursor's copy has diverged from the page map) changes nothing here.
UpdateAt(buf, pos, value) ==
  IF pos < Len(buf) THEN [buf EXCEPT ![pos + 1].value = value] ELSE buf

\* PageBuffer::insert: insert before the sample at pos, pos \in 0..size.
InsertAtPos(buf, pos, time, value) ==
  IF pos <= Len(buf) THEN SeqExt!InsertAt(buf, pos + 1, Sample(time, value))
                     ELSE buf

\* PageBuffer::append: push to the end.
AppendSample(buf, time, value) == Append(buf, Sample(time, value))

\* The modify_fn lambdas of Cursor::update, insert and append, given as a
\* record [kind, pos, time, value]: the page mutation modifyPage applies to
\* the map's page and the cursor then applies to its own copy.
ModifyFn(buf, m) ==
  CASE m.kind = "update" -> UpdateAt(buf, m.pos, m.value)
    [] m.kind = "insert" -> InsertAtPos(buf, m.pos, m.time, m.value)
    [] m.kind = "append" -> AppendSample(buf, m.time, m.value)

=============================================================================
