---------------------------- MODULE MCRequestLine ----------------------------
(***************************************************************************)
(* Request lines with every short URI over the characters the parser tells *)
(* apart, with longer queries and paths full of escapes, and connections   *)
(* with two requests.                                                      *)
(***************************************************************************)
EXTENDS RequestLine

Get == MethodWord(2)
Http11 == VersionWord(2)
Dash == 45
x == 120
two == 50

Words(chars, length) == UNION {[1..k -> chars] : k \in 0..length}

Ends == {<<Space>> \o Http11 \o <<CR, LF>>}

\* A later question mark, no version, another word as version, no end of line, a
\* line without a second space with a space or more in the next.
OddEnds ==
  { <<Space>> \o Http11 \o <<CR, LF, x, Question, x>>,
    <<Space, CR, LF>>, <<Space, x, CR, LF>>, <<Space>> \o Http11,
    <<CR, LF, x, Space, x>>, <<CR, LF, Question, Equals, x, Space>> }

Lines(uris, ends) ==
  {Get \o <<Space>> \o u \o e : u \in uris, e \in ends}

Value == Words({x, two, Percent, Equals, Ampersand}, 4)

Texts ==
  Lines(Words({x, two, Percent, Equals, Ampersand, Question, Dash}, 4), Ends)
    \cup Lines(Words({x, Percent, Question, Equals}, 2), OddEnds)
    \cup Lines(Words({x, two, Percent}, 6), Ends)
    \cup Lines({<<Question, x, Equals>> \o v : v \in Value}, Ends)
    \cup {<<x, Space, x, Space>> \o Http11 \o <<CR, LF>>, Get \o <<CR, LF>>}

\* A header in two spellings, one with a colon in its value, one without a value
\* and a line behind it, a line whose colon belongs to the next, and one without an
\* end.
Headers ==
  { <<72, Colon, 49, CR, LF>>, <<104, Colon, 50, LF>>,
    <<101, Colon, 72, Colon, 51, CR, LF>>, <<101, Colon, CR, LF, 72, Colon, 51, CR, LF>>,
    <<104, CR, LF, 72, Colon, 51, CR, LF>>, <<104, Colon, 51>> }

Single == {<<[text |-> t, headers |-> <<>>]>> : t \in Texts}

Query(key, value) ==
  Get \o <<Space, Question, key, Equals, value, Space>> \o Http11 \o <<CR, LF>>

Some == {Query(x, x), Query(x, two), Query(two, x),
         Get \o <<Space, x, Space>> \o Http11 \o <<CR, LF>>}

Double ==
  {<<[text |-> s, headers |-> f], [text |-> t, headers |-> g]>> :
     s \in Some, t \in Some, f \in [1..2 -> Headers], g \in [1..1 -> Headers]}

MCInputs == Single \cup Double
=============================================================================
