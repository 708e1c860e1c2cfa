--------------------------- MODULE MCConfigParser ---------------------------
(* Config files for checking ConfigParser, written as chunks of items.    *)
(* "x" stands for any name or value no converter accepts; each other data *)
(* word is accepted by exactly one converter.  Words with quotes, a       *)
(* backslash, a blank or "(" are written quoted, so the file text also    *)
(* exercises the tokenizer's quoted-string loop.                          *)
EXTENDS ConfigParser

S(w) == [type |-> "STRING", spell |-> <<w>>]
Q(sp) == [type |-> "STRING", spell |-> sp]
P(ch) == [type |-> PunctType(ch), spell |-> <<ch>>]
B(ch) == [type |-> "BLANK", spell |-> <<ch>>]

MCDurations == {"1m"}
MCNumbers == {"10"}
MCGroupMethods == {"sum"}
MCGrossMethods == {"max"}
MCRegexes == {"re"}

\* Definition openers and closers, every stanza well-formed, a few stanzas
\* malformed (invalid type, truncated type argument, missing unit_name
\* arguments, invalid regex), and a newline.
MCChunks ==
  { <<S("metric"), S("x"), P("{")>>, <<S("unit"), S("x"), P("{")>>,
    <<S("sensor_http"), S("x"), B("\t"), P("{")>>, <<P("}")>>, <<P("\n")>>,
    <<S("type"), Q(<<"sample", "(", "uint64", ")">>)>>,
    <<S("type"), S("sample"), P("("), S("int64"), P(")")>>,
    <<S("type"), S("sample"), P("("), S("x")>>,
    <<S("type"), S("x")>>,
    <<S("summarize_gross"), S("max")>>, <<P(","), S("max")>>,
    <<S("unit"), S("x")>>,
    <<S("unit_desc"), Q(<<"a", " ", "\"">>)>>,
    <<S("unit_name"), S("x"), S("10"), S("x"), S("x"), S("x")>>,
    <<S("unit_name"), S("x"), S("x")>>,
    <<S("http_url"), Q(<<"\\", "'">>)>>,
    <<S("metric_id_rewrite"), S("re"), Q(<<>>)>>,
    <<S("series_id_rewrite"), Q(<<"x", "\\">>), S("x")>> }
====
