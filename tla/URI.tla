--------------------------------- MODULE URI ---------------------------------
(***************************************************************************)
(* fnordmetric::util::URI of src/src/util/uri.cc: parseURI splits a URI   *)
(* string into scheme, userinfo, host, port, path, query and fragment,    *)
(* and toString writes the components back.  SQLiteBackend::connect opens *)
(* the database file named by the parsed URI's path.                      *)
(*                                                                        *)
(* Text is a sequence of one-character strings.  The element "D" stands   *)
(* for the digit run "99999": the loops treat its characters alike, and   *)
(* it lets short inputs carry ports past 65535 and past INT_MAX.  A       *)
(* position is a 1-based index; e = Len(s) + 1 plays the role of `end`.   *)
(* parseURI only assigns a component when the code finds one; the others  *)
(* keep the value the URI constructor gave them (empty, port_(0)).        *)
(***************************************************************************)
EXTENDS Naturals, Sequences

LOCAL INSTANCE FiniteSetsExt
LOCAL INSTANCE SequencesExt

DigitChars == {"0", "1", "2", "3", "4", "5", "6", "7", "8", "9", "D"}
Decimals == <<"0", "1", "2", "3", "4", "5", "6", "7", "8", "9">>

\* The width and value of a digit element.
Width(d) == IF d = "D" THEN 5 ELSE 1
DigitVal(d) ==
  IF d = "D" THEN 99999 ELSE CHOOSE k \in 0..9 : Decimals[k + 1] = d

\* INT_MAX of the 32-bit int std::stoi returns, and the marker of a value
\* past it (std::stoi then throws std::out_of_range).
IntMax == 2147483647
OutOfRange == -1

\* std::stoi of a string of digits.
Stoi(ds) ==
  FoldLeft(LAMBDA acc, d :
             IF acc = OutOfRange
                \/ acc > (IntMax - DigitVal(d)) \div 10^Width(d)
               THEN OutOfRange
               ELSE acc * 10^Width(d) + DigitVal(d),
           0, ds)

\* std::to_string of an unsigned value.
RECURSIVE Decimal(_)
Decimal(n) ==
  IF n < 10 THEN <<Decimals[n + 1]>>
  ELSE Decimal(n \div 10) \o <<Decimals[(n % 10) + 1]>>

\* The first position in from..to-1 whose character is in (or, for
\* FirstNotOf, not in) set, or `to`: the scanning for-loops of parseURI.
FirstOf(s, from, to, set) ==
  LET C == {i \in from..(to - 1) : s[i] \in set}
  IN IF C = {} THEN to ELSE Min(C)
FirstNotOf(s, from, to, set) ==
  LET C == {i \in from..(to - 1) : s[i] \notin set}
  IN IF C = {} THEN to ELSE Min(C)

Slice(s, from, to) == SubSeq(s, from, to - 1)

Components(sch, ui, h, p, pa, q, f) ==
  [ok |-> TRUE, err |-> "none", scheme |-> sch, userinfo |-> ui, host |-> h,
   port |-> p, path |-> pa, query |-> q, fragment |-> f]

\* A RAISE, or an exception thrown by std::stoi, out of parseURI.
Raise(ex) ==
  [Components(<<>>, <<>>, <<>>, 0, <<>>, <<>>, <<>>) EXCEPT !.ok = FALSE,
                                                            !.err = ex]

\* Mutant of HostEnd: the host loop does not stop at ':' (line 161).
HostEndNoColon(s, hb, aend) == FirstOf(s, hb, aend, {"/", "?", "#"})

\* The host loop (lines 156-161).
HostEnd(s, hb, aend) == FirstOf(s, hb, aend, {"/", "?", "#", ":"})

\* URI::parseURI.
ParseURI(s) ==
  LET e      == Len(s) + 1
      colon  == FirstOf(s, 1, e, {":"})                        \* 120-127
      b0     == colon + 1
      hasAuth == b0 < e - 2 /\ s[b0] = "/" /\ s[b0 + 1] = "/" \* 134
      a      == b0 + 2
      aend   == IF hasAuth THEN FirstOf(s, a, e, {"/", "?", "#"}) ELSE b0
      inAuth == hasAuth /\ aend > a                            \* 138
      at     == FirstOf(s, a, aend, {"@"})                     \* 143-153
      hasUser == inAuth /\ at < aend
      hb     == IF hasUser THEN at + 1 ELSE a
      hend   == HostEnd(s, hb, aend)
      \* 165-171: the digit loop is not bounded by aend, but the character
      \* at aend is '/', '?', '#' or the terminating NUL.
      hasSep == inAuth /\ hend < aend - 1 /\ s[hend] = ":"
      dend   == FirstNotOf(s, hend + 1, aend, DigitChars)
      hasPort == hasSep /\ dend > hend + 1
      port   == Stoi(Slice(s, hend + 1, dend))
      b1     == aend                                           \* 173
      pend   == FirstOf(s, b1, e, {"?", "#"})                  \* 177-184
      hasQ   == pend < e /\ s[pend] = "?"                      \* 187-194
      qend   == IF hasQ THEN FirstOf(s, pend + 1, e, {"#"}) ELSE pend
      hasF   == qend < e - 1 /\ s[qend] = "#"                  \* 197-199
  IN CASE colon = e              -> Raise("RuntimeException")
       [] hasPort /\ port = OutOfRange -> Raise("out_of_range")
       [] OTHER ->
            Components(Slice(s, 1, colon),
                       IF hasUser THEN Slice(s, a, at) ELSE <<>>,
                       IF inAuth THEN Slice(s, hb, hend) ELSE <<>>,
                       IF hasPort THEN port ELSE 0,
                       Slice(s, b1, pend),
                       IF hasQ THEN Slice(s, pend + 1, qend) ELSE <<>>,
                       IF hasF THEN Slice(s, qend + 1, e) ELSE <<>>)

\* Mutant of URIToString: the '@' after the userinfo is not written.
URIToStringNoAt(u) ==
  u.scheme \o <<":">>
  \o (IF u.host /= <<>>
        THEN <<"/", "/">> \o u.userinfo \o u.host
             \o (IF u.port > 0 THEN <<":">> \o Decimal(u.port) ELSE <<>>)
        ELSE <<>>)
  \o u.path
  \o (IF u.query /= <<>> THEN <<"?">> \o u.query ELSE <<>>)
  \o (IF u.fragment /= <<>> THEN <<"#">> \o u.fragment ELSE <<>>)

\* URI::toString (lines 69-104).
URIToString(u) ==
  u.scheme \o <<":">>
  \o (IF u.host /= <<>>
        THEN <<"/", "/">>
             \o (IF u.userinfo /= <<>> THEN u.userinfo \o <<"@">> ELSE <<>>)
             \o u.host
             \o (IF u.port > 0 THEN <<":">> \o Decimal(u.port) ELSE <<>>)
        ELSE <<>>)
  \o u.path
  \o (IF u.query /= <<>> THEN <<"?">> \o u.query ELSE <<>>)
  \o (IF u.fragment /= <<>> THEN <<"#">> \o u.fragment ELSE <<>>)

-----------------------------------------------------------------------------
(* Reference: RFC 3986.  Appendix B's regular expression splits a URI    *)
(* reference into an optional scheme (no ':', '/', '?', '#') with its     *)
(* ':', an optional "//" authority up to the next '/', '?' or '#', the    *)
(* path up to the next '?' or '#', an optional '?' query up to the next   *)
(* '#', and an optional '#' fragment; section 3.2 splits the authority    *)
(* into                                                                    *)
(* userinfo "@" host ":" port, where neither userinfo nor a registered    *)
(* name contains '@' and the port is a run of digits.                     *)

RFCSplit(s) ==
  LET e     == Len(s) + 1
      sc    == FirstOf(s, 1, e, {":", "/", "?", "#"})
      hasSc == sc > 1 /\ sc < e /\ s[sc] = ":"
      p0    == IF hasSc THEN sc + 1 ELSE 1
      hasAu == p0 + 1 < e /\ s[p0] = "/" /\ s[p0 + 1] = "/"
      aend  == IF hasAu THEN FirstOf(s, p0 + 2, e, {"/", "?", "#"}) ELSE p0
      pend  == FirstOf(s, aend, e, {"?", "#"})
      hasQ  == pend < e /\ s[pend] = "?"
      qend  == IF hasQ THEN FirstOf(s, pend + 1, e, {"#"}) ELSE pend
  IN [hasScheme |-> hasSc, scheme |-> IF hasSc THEN Slice(s, 1, sc) ELSE <<>>,
      hasAuthority |-> hasAu,
      authority |-> IF hasAu THEN Slice(s, p0 + 2, aend) ELSE <<>>,
      path |-> Slice(s, aend, pend),
      query |-> IF hasQ THEN Slice(s, pend + 1, qend) ELSE <<>>,
      fragment |-> IF qend < e THEN Slice(s, qend + 1, e) ELSE <<>>]

Count(s, c) == Cardinality({i \in DOMAIN s : s[i] = c})

\* Section 3.2 on an authority with at most one '@' and one ':'.
RFCAuthority(au) ==
  LET at == FirstOf(au, 1, Len(au) + 1, {"@"})
      hp == IF at <= Len(au) THEN Slice(au, at + 1, Len(au) + 1) ELSE au
      c  == FirstOf(hp, 1, Len(hp) + 1, {":"})
  IN [userinfo |-> IF at <= Len(au) THEN Slice(au, 1, at) ELSE <<>>,
      hostport |-> hp,
      host |-> Slice(hp, 1, c),
      port |-> Slice(hp, c + 1, Len(hp) + 1)]

\* A URI with a scheme and a non-empty, well-formed authority whose port
\* (if any) is at most 65535: the network URIs a backend URI names.
NetworkURI(s) ==
  LET r == RFCSplit(s)
      a == RFCAuthority(r.authority)
  IN /\ r.hasScheme /\ r.hasAuthority /\ r.authority /= <<>>
     /\ Count(r.authority, "@") <= 1
     /\ Count(a.hostport, ":") <= 1
     /\ \A i \in DOMAIN a.port : a.port[i] \in DigitChars
     /\ Stoi(a.port) \in 0..65535

\* The components RFC 3986 gives a network URI, as parseURI reports them.
RFCComponents(s) ==
  LET r == RFCSplit(s)
      a == RFCAuthority(r.authority)
  IN Components(r.scheme, a.userinfo, a.host, Stoi(a.port),
                r.path, r.query, r.fragment)

-----------------------------------------------------------------------------
(* What parseURI and toString promise of one input string s; the modules   *)
(* that hold a URI string check these as invariants.                       *)

\* parseURI finds the components RFC 3986 gives a network URI.
AgreesWithRFC3986(s) == NetworkURI(s) => ParseURI(s) = RFCComponents(s)

\* toString writes a parsed URI with a host so that parseURI reads it back.
RoundTrips(s) ==
  LET u == ParseURI(s)
  IN u.ok /\ u.host /= <<>> => ParseURI(URIToString(u)) = u

=============================================================================
