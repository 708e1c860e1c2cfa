--------------------------- MODULE ConfigParser ---------------------------
(***************************************************************************)
(* fnordmetric::ConfigParser of src/metricd/src/metricd/config_parser.cc: *)
(* a recursive-descent parser over the tokens of a metricd config file.   *)
(*                                                                        *)
(* The parser state is a record [pos, err, cfg]: pos is the index of the  *)
(* next token (getToken peeks at it, has_token_ being the peek,           *)
(* consumeToken moves past it), err is has_error_, and cfg the sequence   *)
(* of ConfigList::add*Config calls made.  A definition is recorded by its *)
(* kind and id; the stanza values a definition collects are not: no       *)
(* property here distinguishes them, only whether a stanza is accepted.   *)
(* Each parse function returns [ok |-> its bool result, st |-> state].    *)
(*                                                                        *)
(* The string checks made by code outside this file (parseDuration,       *)
(* tval_parsenumber, getGroup/GrossSummaryFromName, std::regex) are the   *)
(* sets of words they accept.  A token is [type, text]; end of input is   *)
(* the token EOF (getToken returning false).                              *)
(***************************************************************************)
EXTENDS Naturals, Sequences, ConfigTokenizer

CONSTANTS
  Durations,     \* words parseDuration accepts
  Numbers,       \* words tval_parsenumber accepts
  GroupMethods,  \* words getGroupSummaryFromName accepts
  GrossMethods,  \* words getGrossSummaryFromName accepts
  Regexes,       \* words std::regex compiles
  Chunks,        \* pieces of config text, as sequences of written items
  MaxItems       \* bound on the number of items in a config file

VARIABLES
  items,   \* the config file, as the items a writer put in it
  input,   \* the tokens getToken reads from its text
  result   \* what parse() returns on them: [ok, cfg, pos]

vars == <<items, input, result>>

EOF == [type |-> "EOF", text |-> ""]

\* type_map of parseMetricDefinitionTypeStanza.
TypeMap ==
  { k \o "(" \o a \o ")" :
      k \in {"sample", "counter", "monotonic", "min", "max", "average"},
      a \in {"uint64", "int64", "float64"} }

\* The top-level definitions parse() dispatches on, and the stanzas each
\* definition's loop dispatches on.
DefKinds == {"metric", "unit", "sensor_http"}
Stanzas ==
  [metric      |-> {"type", "granularity", "unit", "unit_scale",
                    "summarize_group", "summarize_gross"},
   unit        |-> {"unit_desc", "unit_name"},
   sensor_http |-> {"http_url", "metric_id_rewrite", "series_id_rewrite"}]

Init0 == [pos |-> 1, err |-> FALSE, cfg |-> <<>>]

Ret(ok, p) == [ok |-> ok, st |-> p]

-----------------------------------------------------------------------------
(* Token access                                                            *)

\* getToken: the buffered or next token; EOF when the input is exhausted.
GetToken(s, p) == IF p.pos <= Len(s) THEN s[p.pos] ELSE EOF

\* consumeToken: drop the buffered token.
ConsumeToken(p) == [p EXCEPT !.pos = @ + 1]

\* setError: has_error_ is set (the message and position are not kept).
SetError(p) == [p EXCEPT !.err = TRUE]

IsString(s, p) == GetToken(s, p).type = "STRING"

\* expectAndConsumeToken: at end of input it returns false WITHOUT
\* setError; a token of another type is an error.
ExpectAndConsumeToken(s, p, ty) ==
  LET t == GetToken(s, p) IN
  CASE t.type = "EOF" -> Ret(FALSE, p)
    [] t.type /= ty   -> Ret(FALSE, SetError(p))
    [] OTHER          -> Ret(TRUE, ConsumeToken(p))

\* expectAndConsumeString: the same for a STRING.
ExpectAndConsumeString(s, p) == ExpectAndConsumeToken(s, p, "STRING")

-----------------------------------------------------------------------------
(* Stanzas                                                                 *)

\* The one-argument stanzas (granularity, unit, unit_scale,
\* summarize_group): a STRING must follow (a missing one, EOF included, is
\* an error), and the converter must accept it.
OneArgStanza(s, p, valid) ==
  IF IsString(s, p) /\ GetToken(s, p).text \in valid
    THEN Ret(TRUE, ConsumeToken(p))
    ELSE Ret(FALSE, SetError(p))

\* granularity <duration>.
GranularityStanza(s, p) == OneArgStanza(s, p, Durations)

\* unit_scale <factor>.
UnitScaleStanza(s, p) == OneArgStanza(s, p, Numbers)

\* summarize_group <method>.
SummarizeGroupStanza(s, p) == OneArgStanza(s, p, GroupMethods)

\* unit <unit_id> inside a metric definition.
MetricUnitStanza(s, p) == OneArgStanza(s, p, {GetToken(s, p).text})

\* unit_desc <text>.
UnitDescStanza(s, p) == OneArgStanza(s, p, {GetToken(s, p).text})

\* http_url <url>.
HttpUrlStanza(s, p) == OneArgStanza(s, p, {GetToken(s, p).text})

\* The type name looked up in type_map.
LookupType(type, p) ==
  IF type \in TypeMap THEN Ret(TRUE, p) ELSE Ret(FALSE, SetError(p))

\* Mutant of TypeStanza: the "(arg)" is read but not appended to the name.
TypeStanzaNameOnly(s, p) ==
  IF ~IsString(s, p) THEN Ret(FALSE, SetError(p))
  ELSE
    LET p1 == ConsumeToken(p) IN
    IF GetToken(s, p1).type /= "LPAREN" THEN LookupType(GetToken(s, p).text, p1)
    ELSE LET p2 == ConsumeToken(p1) IN
         IF ~IsString(s, p2) THEN Ret(FALSE, SetError(p2))
         ELSE LET r == ExpectAndConsumeToken(s, ConsumeToken(p2), "RPAREN") IN
              IF r.ok THEN LookupType(GetToken(s, p).text, r.st) ELSE r

\* type <name> [ ( <arg> ) ]: the name and arg are joined as "name(arg)".
\* A missing ")" at end of input returns false without an error.
TypeStanza(s, p) ==
  IF ~IsString(s, p) THEN Ret(FALSE, SetError(p))
  ELSE
    LET name == GetToken(s, p).text
        p1   == ConsumeToken(p)
    IN  IF GetToken(s, p1).type /= "LPAREN" THEN LookupType(name, p1)
        ELSE
          LET p2 == ConsumeToken(p1) IN
          IF ~IsString(s, p2) THEN Ret(FALSE, SetError(p2))
          ELSE
            LET r == ExpectAndConsumeToken(s, ConsumeToken(p2), "RPAREN") IN
            IF r.ok
              THEN LookupType(name \o "(" \o GetToken(s, p2).text \o ")", r.st)
              ELSE r

\* Mutant of SummarizeGrossStanza: the token after a method is consumed
\* whether or not it is a COMMA (and whether or not there is one).
RECURSIVE GrossConsumeAny(_, _)
GrossConsumeAny(s, p) ==
  IF ~(IsString(s, p) /\ GetToken(s, p).text \in GrossMethods)
    THEN Ret(FALSE, SetError(p))
    ELSE LET p1 == ConsumeToken(p) IN
         IF GetToken(s, p1).type = "COMMA"
           THEN GrossConsumeAny(s, ConsumeToken(p1))
           ELSE Ret(TRUE, ConsumeToken(p1))

\* summarize_gross <m> [, <m>]*: after each method a COMMA continues the
\* list; anything else, end of input included, ends it successfully.
RECURSIVE SummarizeGrossStanza(_, _)
SummarizeGrossStanza(s, p) ==
  IF ~(IsString(s, p) /\ GetToken(s, p).text \in GrossMethods)
    THEN Ret(FALSE, SetError(p))
    ELSE LET p1 == ConsumeToken(p) IN
         IF GetToken(s, p1).type = "COMMA"
           THEN SummarizeGrossStanza(s, ConsumeToken(p1))
           ELSE Ret(TRUE, p1)

\* unit_name <name> <factor> <singular> <plural> <symbol>: five STRINGs,
\* the factor a number.
UnitNameStanza(s, p) ==
  LET arg(i) == GetToken(s, [p EXCEPT !.pos = @ + i]) IN
  IF /\ \A i \in 0..4 : arg(i).type = "STRING"
     /\ arg(1).text \in Numbers
    THEN Ret(TRUE, [p EXCEPT !.pos = @ + 5])
    ELSE Ret(FALSE, SetError(p))

\* metric_id_rewrite <regex> <replace>: two STRINGs, the first a regex.
MetricIDRewriteStanza(s, p) ==
  LET q == ConsumeToken(p) IN
  IF /\ IsString(s, p) /\ IsString(s, q)
     /\ GetToken(s, p).text \in Regexes
    THEN Ret(TRUE, ConsumeToken(q))
    ELSE Ret(FALSE, SetError(p))

\* series_id_rewrite <regex> <replace>: the same checks.
SeriesIDRewriteStanza(s, p) == MetricIDRewriteStanza(s, p)

\* The stanza parser a definition's loop calls for keyword kw.
Stanza(s, p, kw) ==
  CASE kw = "type"              -> TypeStanza(s, p)
    [] kw = "granularity"       -> GranularityStanza(s, p)
    [] kw = "unit"              -> MetricUnitStanza(s, p)
    [] kw = "unit_scale"        -> UnitScaleStanza(s, p)
    [] kw = "summarize_group"   -> SummarizeGroupStanza(s, p)
    [] kw = "summarize_gross"   -> SummarizeGrossStanza(s, p)
    [] kw = "unit_desc"         -> UnitDescStanza(s, p)
    [] kw = "unit_name"         -> UnitNameStanza(s, p)
    [] kw = "http_url"          -> HttpUrlStanza(s, p)
    [] kw = "metric_id_rewrite" -> MetricIDRewriteStanza(s, p)
    [] kw = "series_id_rewrite" -> SeriesIDRewriteStanza(s, p)

-----------------------------------------------------------------------------
(* Definitions and the file                                                *)

\* Mutant of DefinitionBody: an unknown token is skipped, not an error.
RECURSIVE BodySkipUnknown(_, _, _), SkipUnknownNext(_, _, _)
SkipUnknownNext(s, r, kind) ==
  IF r.ok THEN BodySkipUnknown(s, r.st, kind) ELSE r
BodySkipUnknown(s, p, kind) ==
  LET t == GetToken(s, p) IN
  CASE t.type \in {"EOF", "RCBRACE"} -> Ret(TRUE, p)
    [] t.type = "STRING" /\ t.text \in Stanzas[kind] ->
         SkipUnknownNext(s, Stanza(s, ConsumeToken(p), t.text), kind)
    [] OTHER -> BodySkipUnknown(s, ConsumeToken(p), kind)

\* The stanza loop of a definition of the given kind: it stops at "}" or
\* at end of input; a newline is skipped; an unknown token is an error.
\* AfterStanza is the `if (!parse...Stanza(...)) return false; continue;`.
RECURSIVE DefinitionBody(_, _, _), AfterStanza(_, _, _)
AfterStanza(s, r, kind) == IF r.ok THEN DefinitionBody(s, r.st, kind) ELSE r
DefinitionBody(s, p, kind) ==
  LET t == GetToken(s, p) IN
  CASE t.type \in {"EOF", "RCBRACE"} -> Ret(TRUE, p)
    [] t.type = "ENDLINE" -> DefinitionBody(s, ConsumeToken(p), kind)
    [] t.type = "STRING" /\ t.text \in Stanzas[kind] ->
         AfterStanza(s, Stanza(s, ConsumeToken(p), t.text), kind)
    [] OTHER -> Ret(FALSE, SetError(p))

\* parse{Metric,Unit,SensorHTTP}Definition: <id> "{" stanzas "}", then
\* config->add*Config(id).  Each step runs on the result of the one
\* before; every early `return false` keeps the state reached, with or
\* without has_error_ set.
DefinitionEnd(s, e, kind, id) ==
  IF e.ok
    THEN Ret(TRUE, [e.st EXCEPT !.cfg = Append(@, [kind |-> kind, id |-> id])])
    ELSE e

AfterBody(s, l, kind, id) ==
  IF l.ok THEN DefinitionEnd(s, ExpectAndConsumeToken(s, l.st, "RCBRACE"), kind, id)
          ELSE l

AfterBrace(s, b, kind, id) ==
  IF b.ok THEN AfterBody(s, DefinitionBody(s, b.st, kind), kind, id) ELSE b

AfterName(s, n, kind, id) ==
  IF n.ok THEN AfterBrace(s, ExpectAndConsumeToken(s, n.st, "LCBRACE"), kind, id)
          ELSE n

ParseDefinition(s, p, kind) ==
  AfterName(s, ExpectAndConsumeString(s, p), kind, GetToken(s, p).text)

ParseMetricDefinition(s, p) == ParseDefinition(s, p, "metric")
ParseUnitDefinition(s, p) == ParseDefinition(s, p, "unit")
ParseSensorHTTPDefinition(s, p) == ParseDefinition(s, p, "sensor_http")

\* The definition parser parse() calls for keyword kind.
ParseDefinitionOf(s, p, kind) ==
  CASE kind = "metric"      -> ParseMetricDefinition(s, p)
    [] kind = "unit"        -> ParseUnitDefinition(s, p)
    [] kind = "sensor_http" -> ParseSensorHTTPDefinition(s, p)

\* The loop of parse(): definitions and newlines until end of input; any
\* other token is an error; a definition returning false ends the loop.
RECURSIVE ParseLoop(_, _), AfterDefinition(_, _)
AfterDefinition(s, r) == IF r.ok THEN ParseLoop(s, r.st) ELSE r.st

\* Mutant of ParseLoop: `break` instead of `continue` after a newline, so
\* parse() stops at the first top-level newline with success.
ParseLoopNewlineBreak(s, p) ==
  LET t == GetToken(s, p) IN
  CASE t.type = "EOF" -> p
    [] t.type = "STRING" /\ t.text \in DefKinds ->
         AfterDefinition(s, ParseDefinitionOf(s, ConsumeToken(p), t.text))
    [] t.type = "ENDLINE" -> ConsumeToken(p)
    [] OTHER -> SetError(p)

ParseLoop(s, p) ==
  LET t == GetToken(s, p) IN
  CASE t.type = "EOF" -> p
    [] t.type = "STRING" /\ t.text \in DefKinds ->
         AfterDefinition(s, ParseDefinitionOf(s, ConsumeToken(p), t.text))
    [] t.type = "ENDLINE" -> ParseLoop(s, ConsumeToken(p))
    [] OTHER -> SetError(p)

\* ConfigParser::parse: success iff has_error_ is not set.
Parse(s) ==
  LET q == ParseLoop(s, Init0) IN [ok |-> ~q.err, cfg |-> q.cfg, pos |-> q.pos]

-----------------------------------------------------------------------------
(* Reference grammar: what a config file is, stated by splitting the      *)
(* input instead of reading it token by token.  RefFile(s) is the set of  *)
(* definition lists s can be read as; it is empty when s is malformed.    *)

Tk(ty) == [type |-> ty, text |-> ""]
Word(x, i) == x[i].type = "STRING"
Kw(x, w) == Len(x) >= 1 /\ Word(x, 1) /\ x[1].text = w

RefStanza(kind, x) ==
  CASE kind = "metric" ->
         \/ Kw(x, "type") /\ Len(x) = 2 /\ Word(x, 2) /\ x[2].text \in TypeMap
         \/ /\ Kw(x, "type") /\ Len(x) = 5 /\ Word(x, 2) /\ Word(x, 4)
            /\ x[3] = Tk("LPAREN") /\ x[5] = Tk("RPAREN")
            /\ x[2].text \o "(" \o x[4].text \o ")" \in TypeMap
         \/ \E <<w, ok>> \in {<<"granularity", Durations>>,
                              <<"unit_scale", Numbers>>,
                              <<"summarize_group", GroupMethods>>} :
              Kw(x, w) /\ Len(x) = 2 /\ Word(x, 2) /\ x[2].text \in ok
         \/ Kw(x, "unit") /\ Len(x) = 2 /\ Word(x, 2)
         \/ /\ Kw(x, "summarize_gross") /\ Len(x) % 2 = 0
            /\ \A i \in 2..Len(x) :
                 IF i % 2 = 0 THEN Word(x, i) /\ x[i].text \in GrossMethods
                              ELSE x[i] = Tk("COMMA")
    [] kind = "unit" ->
         \/ Kw(x, "unit_desc") /\ Len(x) = 2 /\ Word(x, 2)
         \/ /\ Kw(x, "unit_name") /\ Len(x) = 6
            /\ \A i \in 2..6 : Word(x, i)
            /\ x[3].text \in Numbers
    [] kind = "sensor_http" ->
         \/ Kw(x, "http_url") /\ Len(x) = 2 /\ Word(x, 2)
         \/ /\ Kw(x, "metric_id_rewrite") \/ Kw(x, "series_id_rewrite")
            /\ Len(x) = 3 /\ Word(x, 2) /\ Word(x, 3)
            /\ x[2].text \in Regexes

Drop(s, k) == SubSeq(s, k + 1, Len(s))

RECURSIVE RefBody(_, _)
RefBody(kind, b) ==
  \/ b = <<>>
  \/ b[1] = Tk("ENDLINE") /\ RefBody(kind, Tail(b))
  \/ \E k \in 1..Len(b) :
       RefStanza(kind, SubSeq(b, 1, k)) /\ RefBody(kind, Drop(b, k))

RefDef(d) ==
  IF /\ Len(d) >= 4 /\ Word(d, 1) /\ d[1].text \in DefKinds /\ Word(d, 2)
     /\ d[3] = Tk("LCBRACE") /\ d[Len(d)] = Tk("RCBRACE")
     /\ RefBody(d[1].text, SubSeq(d, 4, Len(d) - 1))
    THEN {[kind |-> d[1].text, id |-> d[2].text]}
    ELSE {}

\* The lengths of the prefixes of s that may be well-formed files: empty,
\* or ending with a "}" (trailing newlines do not change the definitions).
Ends(s) == {0} \cup {k \in 1..Len(s) : s[k] = Tk("RCBRACE")}

RECURSIVE RefFile(_)
RefFile(s) ==
  IF s = <<>> THEN {<<>>}
  ELSE (IF s[1] = Tk("ENDLINE") THEN RefFile(Tail(s)) ELSE {})
       \cup UNION { { <<d>> \o rest : d \in RefDef(SubSeq(s, 1, k)),
                                      rest \in RefFile(Drop(s, k)) } :
                    k \in Ends(s) \ {0} }

-----------------------------------------------------------------------------
(* The config file: any sequence of chunks up to MaxItems items.  The    *)
(* program reads its text with getToken; the parser is a pure function of *)
(* the tokens, evaluated in every state.                                  *)

\* The program reads the file: getToken's tokens, and parse()'s result.
ReadFile(its) ==
  /\ input' = Tokenize(Render(its))
  /\ result' = Parse(input')

Init ==
  /\ items = <<>>
  /\ input = <<>>
  /\ result = Parse(<<>>)

WriteChunk(c) ==
  /\ Len(items) + Len(c) <= MaxItems
  /\ items' = items \o c
  /\ ReadFile(items')

Next == \E c \in Chunks : WriteChunk(c)

Spec == Init /\ [][Next]_vars

-----------------------------------------------------------------------------
(* Properties                                                              *)

\* Type invariant: parse() returns a result, the definitions it added, and
\* its cursor never moves past the end of the input.
TypeOK ==
  LET r == result IN
  /\ r.ok \in BOOLEAN
  /\ r.pos \in 1..Len(input) + 1
  /\ \A i \in DOMAIN r.cfg : r.cfg[i].kind \in DefKinds

(***************************************************************************)
(* Whatever a config writer puts in a file (quoted strings with escaped   *)
(* quotes and backslashes, the other quote character inside a string,     *)
(* punctuation with or without blanks around it, empty strings), getToken *)
(* reads back exactly the tokens written: the escape flag, the quote      *)
(* matching and the delimiter set of the two string loops agree with one  *)
(* another.                                                               *)
(***************************************************************************)
TokenRoundTrip == input = Meant(items)

(***************************************************************************)
(* Every well-formed config file is accepted by parse(), and exactly its   *)
(* definitions are added to the ConfigList, in order: the token-by-token  *)
(* recursive descent (getToken/consumeToken, the stanza loops, the        *)
(* optional "(arg)" of type, the comma list of summarize_gross) reads the *)
(* grammar the way the reference reads it.                                *)
(***************************************************************************)
AcceptsWellFormed ==
  RefFile(input) /= {} =>
    /\ result.ok
    /\ result.cfg \in RefFile(input)

(***************************************************************************)
(* Whatever parse() accepts, the definitions it added are those of the    *)
(* longest well-formed prefix of the file that ends a definition: no      *)
(* malformed stanza or definition is let through, and no complete         *)
(* definition before the point where parse() stopped is dropped.  (What   *)
(* follows that prefix is an unfinished definition; RejectsMalformed is   *)
(* about that part.)                                                      *)
(***************************************************************************)
AcceptedPrefix ==
  result.ok =>
    \E k \in Ends(input) :
      /\ result.cfg \in RefFile(SubSeq(input, 1, k))
      /\ \A j \in Ends(input) : j > k => RefFile(SubSeq(input, 1, j)) = {}

(***************************************************************************)
(* parse() rejects every malformed config file (a file ending inside a     *)
(* definition included): a caller that gets success has the whole file.   *)
(***************************************************************************)
RejectsMalformed ==
  result.ok => RefFile(input) /= {}

====
