-------------------------- MODULE ConfigTokenizer --------------------------
(***************************************************************************)
(* The tokenizer of fnordmetric::ConfigParser (getToken, config_parser.cc *)
(* lines 651-794) over config text given as a sequence of one-character   *)
(* strings.  The parser only ever peeks one token ahead and token_buf_ is *)
(* empty whenever a new token is read (consumeToken clears it), so        *)
(* reading tokens on demand equals tokenizing the whole text first:       *)
(* Tokenize(text) is the token sequence ConfigParser's Parse reads.  An   *)
(* element of the text is one character, or a run of ordinary characters *)
(* (no blank, punctuation, quote or backslash) the loops treat alike.     *)
(***************************************************************************)
EXTENDS Naturals, Sequences

\* Whitespace skipped before a token (lines 662-670).
Blank == {" ", "\t", "\r"}

\* The single-character tokens (lines 677-713).
Punct == {"\n", ",", "(", ")", "{", "}"}
PunctType(ch) ==
  CASE ch = "\n" -> "ENDLINE" [] ch = "," -> "COMMA"
    [] ch = "("  -> "LPAREN"  [] ch = ")" -> "RPAREN"
    [] ch = "{"  -> "LCBRACE" [] ch = "}" -> "RCBRACE"

Quotes == {"\"", "'"}

\* The characters that end an unquoted string (lines 768-779).
Delimiters == Blank \cup Punct \cup Quotes

RECURSIVE SkipBlank(_, _)
SkipBlank(c, i) ==
  IF i <= Len(c) /\ c[i] \in Blank THEN SkipBlank(c, i + 1) ELSE i

\* Mutant of QuotedLoop: the escape flag is not reset after the escaped
\* character (line 762 missing).
RECURSIVE QuotedLoopNoReset(_, _, _, _, _)
QuotedLoopNoReset(c, i, q, escaped, buf) ==
  IF i > Len(c) THEN [text |-> buf, next |-> i]
  ELSE CASE c[i] = q /\ ~escaped  -> [text |-> buf, next |-> i + 1]
         [] c[i] = "\\" /\ ~escaped -> QuotedLoopNoReset(c, i + 1, q, TRUE, buf)
         [] OTHER -> QuotedLoopNoReset(c, i + 1, q, escaped, buf \o c[i])

\* The quoted-string loop (lines 730-766), started after the opening quote
\* q.  A backslash escapes the next character (and is dropped); the
\* matching unescaped quote ends the string; end of input also ends it, so
\* an unterminated string is a token like any other.
RECURSIVE QuotedLoop(_, _, _, _, _)
QuotedLoop(c, i, q, escaped, buf) ==
  IF i > Len(c) THEN [text |-> buf, next |-> i]
  ELSE CASE c[i] = q /\ ~escaped  -> [text |-> buf, next |-> i + 1]
         [] c[i] = "\\" /\ ~escaped -> QuotedLoop(c, i + 1, q, TRUE, buf)
         [] OTHER -> QuotedLoop(c, i + 1, q, FALSE, buf \o c[i])

\* The unquoted-string loop (lines 767-786).  Its condition reads
\* *input_cur_ before testing input_cur_ < input_end_, so at the end it
\* reads one byte past the text; whatever that byte is, the loop stops.
RECURSIVE UnquotedLoop(_, _, _)
UnquotedLoop(c, i, buf) ==
  IF i <= Len(c) /\ c[i] \notin Delimiters
    THEN UnquotedLoop(c, i + 1, buf \o c[i])
    ELSE [text |-> buf, next |-> i]

\* One call of getToken with no token buffered: the token read from
\* position i and the position after it; ok is FALSE at end of input.
NextToken(c, i) ==
  LET j == SkipBlank(c, i)
      str(r) == [ok |-> TRUE, next |-> r.next,
                 tok |-> [type |-> "STRING", text |-> r.text]]
  IN
  CASE j > Len(c) ->
         [ok |-> FALSE, next |-> j, tok |-> [type |-> "EOF", text |-> ""]]
    [] c[j] \in Punct ->
         [ok |-> TRUE, next |-> j + 1,
          tok |-> [type |-> PunctType(c[j]), text |-> ""]]
    [] c[j] \in Quotes -> str(QuotedLoop(c, j + 1, c[j], FALSE, ""))
    [] OTHER -> str(UnquotedLoop(c, j, ""))

\* Repeated getToken/consumeToken until getToken returns false.
RECURSIVE TokensFrom(_, _)
TokensFrom(c, i) ==
  LET r == NextToken(c, i) IN
  IF r.ok THEN <<r.tok>> \o TokensFrom(c, r.next) ELSE <<>>

Tokenize(c) == TokensFrom(c, 1)

-----------------------------------------------------------------------------
(* Reference: a writer of config text.  A STRING is written bare when it  *)
(* is non-empty and has no delimiter, else in double quotes with '"' and  *)
(* '\' escaped by a backslash; two bare STRINGs in a row are separated by *)
(* a space; blank items are whitespace the writer may put anywhere.  An   *)
(* item is [type, spell]: a token type or "BLANK", and its characters.    *)

RECURSIVE Join(_)
Join(cs) == IF cs = <<>> THEN "" ELSE Head(cs) \o Join(Tail(cs))

RECURSIVE Escape(_)
Escape(w) ==
  IF w = <<>> THEN <<>>
  ELSE (IF Head(w) \in {"\"", "\\"} THEN <<"\\", Head(w)>> ELSE <<Head(w)>>)
       \o Escape(Tail(w))

IsBare(it) ==
  it.type = "STRING" /\ it.spell /= <<>>
  /\ \A k \in DOMAIN it.spell : it.spell[k] \notin Delimiters

Lexeme(it) ==
  IF it.type = "STRING" /\ ~IsBare(it)
    THEN <<"\"">> \o Escape(it.spell) \o <<"\"">>
    ELSE it.spell

RECURSIVE Render(_)
Render(its) ==
  IF its = <<>> THEN <<>>
  ELSE Lexeme(Head(its))
       \o (IF Len(its) > 1 /\ IsBare(its[1]) /\ IsBare(its[2])
             THEN <<" ">> ELSE <<>>)
       \o Render(Tail(its))

\* The tokens the writer meant: its items without the blanks.
RECURSIVE Meant(_)
Meant(its) ==
  IF its = <<>> THEN <<>>
  ELSE (CASE Head(its).type = "BLANK"  -> <<>>
          [] Head(its).type = "STRING" ->
               <<[type |-> "STRING", text |-> Join(Head(its).spell)]>>
          [] OTHER -> <<[type |-> Head(its).type, text |-> ""]>>)
       \o Meant(Tail(its))

====
