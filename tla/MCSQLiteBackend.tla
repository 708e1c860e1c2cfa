-------------------------- MODULE MCSQLiteBackend --------------------------
(* Two instances, two timestamps, two values; batches of one and two      *)
(* measurements, including two instances sampled at the same time and a   *)
(* resubmission of a batch.  The backend URI is any string of up to four  *)
(* characters, or a scheme, an optional authority (with userinfo, ports   *)
(* of one digit, 99999, 9999999999 and 0, and stray '@' and ':'), a path, *)
(* a query and a fragment, each chosen from a few shapes.                 *)
EXTENDS SQLiteBackend, TLC

CONSTANTS i1, i2, v1, v2

M(t, i, v) == [time |-> t, inst |-> i, value |-> v]

MCBatches ==
  { <<M(1, i1, v1)>>,
    <<M(1, i2, v2)>>,
    <<M(1, i1, v1), M(2, i1, v2)>> }

Alphabet == {":", "/", "?", "#", "@", "h", "9", "D"}

ShortURIs == UNION {[1..n -> Alphabet] : n \in 0..4}

Schemes == {<<"h", ":">>, <<":">>, <<"?", ":">>}
Authorities ==
  {<<"h">>, <<"@", "h">>, <<"h", "@", "h">>, <<"h", ":">>, <<"h", ":", "9">>,
   <<":", "9">>, <<"h", ":", "9", "h">>, <<"h", ":", "D">>,
   <<"h", ":", "D", "D">>, <<"h", ":", "0">>, <<"h", "@", "h", "@", "h">>,
   <<"h", ":", "9", ":", "9">>, <<"h", ":", "9", "@", "h", ":", "D">>}
Paths == {<<>>, <<"/">>, <<"/", "h">>, <<"/", "/", "h">>, <<"h">>}
Queries == {<<>>, <<"?">>, <<"?", "h">>, <<"?", "h", "?">>}
Fragments == {<<>>, <<"#">>, <<"#", "h">>, <<"#", "?", "#">>}

ComposedURIs ==
  {sc \o au \o p \o q \o f :
     sc \in Schemes,
     au \in {<<>>, <<"/", "/">>} \cup {<<"/", "/">> \o a : a \in Authorities},
     p \in Paths, q \in Queries, f \in Fragments}

MCBackendURIs == ShortURIs \cup ComposedURIs

\* A backend URI naming the database file /h.
MCFileURI == {<<"h", ":", "/", "h">>}
====
