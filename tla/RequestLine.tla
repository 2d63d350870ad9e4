----------------------------- MODULE RequestLine -----------------------------
(***************************************************************************)
(* What RequestParser makes of the text of a request line, character by    *)
(* character, and of the header lines after it: parseRequestLine, decode,  *)
(* parseHeaderLine.  The requests of one connection are parsed into one    *)
(* HttpRequest.                                                            *)
(*                                                                         *)
(* RequestParser says when a line is parsed; here it is always there, with *)
(* whatever the client lets follow it in the buffer.  Positions count from *)
(* 1.                                                                      *)
(***************************************************************************)
EXTENDS HttpRequest, SequencesExt

CONSTANT Inputs \* what clients send: for each request the text of its request line
                \* and those of its header lines, each with what follows it

Characters == 0..255 \cup {256 + m : m \in Methods} \cup {512 + v : v \in Versions}

ASSUME InputsAssumption ==
  Inputs \subseteq Seq([text : Seq(Characters),
                        headers : Seq(Seq(Characters))])

CR == 13
LF == 10
Space == 32
Percent == 37
Colon == 58
Ampersand == 38
Equals == 61
Question == 63
Digits == 48..57
Alnum == Digits \cup 65..90 \cup 97..122

VARIABLES
  input,   \* the requests of this connection
  n,       \* the one being parsed
  h,       \* how many of its header lines have been parsed
  pc,
  i,       \* the loop variable of the query loop
  request, \* _request
  added,   \* history: the headers added, in order
  thrown   \* the exception that has ended the program

vars == <<input, n, h, pc, i, request, added, thrown>>

Text == input[n].text
None == 0

\* The position of the first of chars in text, from position p on; None if none.
FindFrom(text, chars, p) ==
  IF \E q \in p..Len(text) : text[q] \in chars
  THEN CHOOSE q \in p..Len(text) : /\ text[q] \in chars
                                   /\ \A l \in p..(q - 1) : text[l] \notin chars
  ELSE None

LineEnd(text) == FindFrom(text, {CR, LF}, 1)
MethodEnd(text) == FindFrom(text, {Space}, 1)
UriStart(text) == MethodEnd(text) + 1
QueryEnd(text) == FindFrom(text, {Space}, UriStart(text))
QueryStart(text) == FindFrom(text, {Question}, UriStart(text))
UriEnd(text) ==
  IF QueryStart(text) = None THEN QueryEnd(text) ELSE QueryStart(text)

TypeOK ==
  /\ input \in Inputs
  /\ n \in 1..Len(input)
  /\ h \in 0..Len(input[n].headers)
  /\ pc \in {"line", "scan", "headers", "failed", "thrown"}
  /\ i \in Nat
  /\ DOMAIN request = DOMAIN NewRequest
  /\ request.method \in Methods \cup {eUNKNOWN}
  /\ request.version \in Versions \cup {eUNKNOWN}
  /\ added \in Seq(Seq(Characters) \X Seq(Characters))
  /\ thrown \in {"nothing", "out_of_range", "invalid_argument", "length_error"}

Init ==
  /\ input \in Inputs \ {<<>>}
  /\ n = 1 /\ h = 0
  /\ pc = "line"
  /\ i = 0
  /\ request = NewRequest
  /\ added = <<>>
  /\ thrown = "nothing"
-----------------------------------------------------------------------------
(* decode                                                                  *)

HexValue(c) == CASE c \in Digits -> c - 48
                 [] c \in 65..70 -> c - 55
                 [] c \in 97..102 -> c - 87
                 [] OTHER -> -1

\* char(stol) of two characters in base 16.  stol skips white space, takes a sign,
\* stops at what is no digit, and throws when that leaves nothing (Bad).
Bad == -1

Byte(a, b) ==
  IF HexValue(a) >= 0
  THEN IF HexValue(b) >= 0 THEN 16 * HexValue(a) + HexValue(b) ELSE HexValue(a)
  ELSE IF HexValue(b) = -1 THEN Bad
  ELSE IF a \in 9..13 \cup {Space, 43} THEN HexValue(b)
  ELSE IF a = 45 THEN (256 - HexValue(b)) % 256
  ELSE Bad

\* The last two characters are copied as they are.
LastTwo(s) == IF Len(s) <= 2 THEN s ELSE SubSeq(s, Len(s) - 1, Len(s))

\* Fault: only one digit of an escape is skipped.
DecodeSkippingOne(s) ==
  LET from[j \in 1..(Len(s) + 1)] ==
        IF j > Len(s) - 2 THEN <<>>
        ELSE IF s[j] = Percent THEN <<Byte(s[j + 1], s[j + 2])>> \o from[j + 2]
        ELSE <<s[j]>> \o from[j + 1]
  IN from[1] \o LastTwo(s)

\* Fault: the percent sign is taken for a digit.
DecodeFromPercent(s) ==
  LET from[j \in 1..(Len(s) + 1)] ==
        IF j > Len(s) - 2 THEN <<>>
        ELSE IF s[j] = Percent THEN <<Byte(s[j], s[j + 1])>> \o from[j + 3]
        ELSE <<s[j]>> \o from[j + 1]
  IN from[1] \o LastTwo(s)

Decode(s) ==
  LET from[j \in 1..(Len(s) + 1)] ==
        IF j > Len(s) - 2 THEN <<>>
        ELSE IF s[j] = Percent THEN <<Byte(s[j + 1], s[j + 2])>> \o from[j + 3]
        ELSE <<s[j]>> \o from[j + 1]
  IN from[1] \o LastTwo(s)

DecodeThrows(s) == \E j \in DOMAIN Decode(s) : Decode(s)[j] = Bad
-----------------------------------------------------------------------------
(* parseRequestLine                                                        *)

Throw(exception) ==
  /\ pc' = "thrown"
  /\ thrown' = exception
  /\ UNCHANGED <<input, n, h, i, request, added>>

\* Return -1: partialParse returns false.
Fail == pc' = "failed" /\ UNCHANGED <<input, n, h, i, added, thrown>>

\* Up to the query loop.
ParseMethod ==
  /\ pc = "line"
  /\ LET word == SubSeq(Text, 1, MethodEnd(Text) - 1)
     IN IF LineEnd(Text) = None \/ MethodEnd(Text) = None \/ MethodOf(word) = eUNKNOWN
        THEN Fail /\ UNCHANGED request
        ELSE /\ request' = SetMethod(request, word)
             /\ \/ QueryEnd(Text) = None /\ Fail
                \/ /\ QueryEnd(Text) # None
                   /\ pc' = "scan"
                   /\ i' = IF QueryStart(Text) = None THEN QueryEnd(Text) ELSE QueryStart(Text) + 1
                   /\ UNCHANGED <<input, n, h, added, thrown>>

\* Fault: whatever does not separate belongs to a key or value.
AnythingElse(c) == c \notin {Ampersand, Equals}

KeyChar(c) == c \in Alnum \/ c = Percent

\* The first position from p on, and before limit, at which there is no KeyChar;
\* limit if there is none.
KeyCharsUntil(p, limit) ==
  IF \E q \in p..(limit - 1) : ~KeyChar(Text[q])
  THEN CHOOSE q \in p..(limit - 1) : /\ ~KeyChar(Text[q])
                                     /\ \A l \in p..(q - 1) : KeyChar(Text[l])
  ELSE IF p <= limit THEN limit ELSE p

\* Fault: the ampersand after a value is left where it is.
KeepAmpersand(p) == p

SkipAmpersand(p) == IF Text[p] = Ampersand THEN p + 1 ELSE p

\* Fault: a character that fits nowhere is skipped.
SkipUnexpected(p) == i' = p + 1 /\ UNCHANGED <<input, n, h, pc, request, added, thrown>>

\* A character that fits nowhere is not skipped: the loop is where it was.
Unexpected(p) == i' = p /\ UNCHANGED <<input, n, h, pc, request, added, thrown>>

\* One turn of the query loop.
ScanQuery ==
  /\ pc = "scan" /\ i < QueryEnd(Text)
  /\ LET keyEnd == KeyCharsUntil(i, LineEnd(Text))
         valueEnd == KeyCharsUntil(keyEnd + 1, Len(Text) + 1)
         key == SubSeq(Text, i, keyEnd - 1)
         value == SubSeq(Text, keyEnd + 1, valueEnd - 1)
     IN \/ /\ Text[keyEnd] = Equals
           /\ IF valueEnd > Len(Text) THEN Throw("out_of_range")
              ELSE IF DecodeThrows(key) \/ DecodeThrows(value)
              THEN Throw("invalid_argument")
              ELSE /\ request' = AddQuery(request, Decode(key), Decode(value))
                   /\ i' = SkipAmpersand(valueEnd)
                   /\ UNCHANGED <<input, n, h, pc, added, thrown>>
        \/ /\ Text[keyEnd] = Space
           /\ request' = AddQuery(request, key, <<>>)
           /\ i' = keyEnd
           /\ UNCHANGED <<input, n, h, pc, added, thrown>>
        \/ Text[keyEnd] \notin {Equals, Space} /\ Unexpected(keyEnd)

\* Whatever follows the version, from the second space of the buffer on.
ParseUriAndVersion ==
  /\ pc = "scan" /\ i >= QueryEnd(Text)
  /\ LET uri == SubSeq(Text, UriStart(Text), UriEnd(Text) - 1)
         word == SubSeq(Text, QueryEnd(Text) + 1, LineEnd(Text) - 1)
         r == SetURI(request, Decode(uri))
     IN IF DecodeThrows(uri) THEN Throw("invalid_argument")
        ELSE IF LineEnd(Text) < QueryEnd(Text) + 1 THEN Throw("length_error")
        ELSE IF VersionOf(word) = eUNKNOWN THEN Fail /\ request' = r
        ELSE /\ request' = SetVersion(r, word)
             /\ pc' = "headers"
             /\ UNCHANGED <<input, n, h, i, added, thrown>>
-----------------------------------------------------------------------------
ColonAt(text) == FindFrom(text, {Colon}, 1)

\* Name and value, with the white space before it.
HeaderOf(text) == <<SubSeq(text, 1, ColonAt(text) - 1),
                    SubSeq(text, ColonAt(text) + 1, LineEnd(text) - 1)>>

\* parseHeaderLine returns -1 for a line without a colon and for one without an end.
ParseHeaderLine ==
  /\ pc = "headers" /\ h < Len(input[n].headers)
  /\ LET text == input[n].headers[h + 1]
     IN IF ColonAt(text) = None \/ ColonAt(text) > LineEnd(text)
        THEN Fail /\ UNCHANGED request
        ELSE /\ h' = h + 1
             /\ request' = AddHeader(request, HeaderOf(text)[1], HeaderOf(text)[2])
             /\ added' = Append(added, HeaderOf(text))
             /\ UNCHANGED <<input, n, pc, i, thrown>>

\* The next request of the connection; the object is the same.
NextRequest ==
  /\ pc = "headers" /\ h = Len(input[n].headers)
  /\ n < Len(input)
  /\ n' = n + 1 /\ h' = 0
  /\ pc' = "line"
  /\ UNCHANGED <<input, i, request, added, thrown>>

Next == ParseMethod \/ ScanQuery \/ ParseUriAndVersion \/ ParseHeaderLine
          \/ NextRequest

Spec == Init /\ [][Next]_vars

\* The ParserThread runs.
FairSpec == Spec /\ WF_vars(Next)
-----------------------------------------------------------------------------
(* What a request line says, independently of the parser.                  *)

Escapes(s) == {j \in 1..(Len(s) - 2) : /\ s[j] = Percent
                                       /\ HexValue(s[j + 1]) >= 0
                                       /\ HexValue(s[j + 2]) >= 0}

Unescaped(s) ==
  FlattenSeq([j \in DOMAIN s |->
    IF j \in Escapes(s) THEN <<16 * HexValue(s[j + 1]) + HexValue(s[j + 2])>>
    ELSE IF {j - 1, j - 2} \cap Escapes(s) # {} THEN <<>> ELSE <<s[j]>>])

WellEscaped(s) == \A j \in DOMAIN s : s[j] = Percent => j \in Escapes(s)

\* A digit of an escape is among the last two characters, which decode copies.
EndsWithEscape(s) == {Len(s) - 3, Len(s) - 2} \cap Escapes(s) # {}

Decodable(s) == WellEscaped(s) /\ ~EndsWithEscape(s)

\* Between its two spaces: up to the question mark, and from there on.
HasQuery(text) == QueryStart(text) # None /\ QueryStart(text) < QueryEnd(text)

Path(text) ==
  SubSeq(text, UriStart(text),
         (IF HasQuery(text) THEN QueryStart(text) ELSE QueryEnd(text)) - 1)

QueryRange(text) ==
  IF HasQuery(text) THEN (QueryStart(text) + 1)..(QueryEnd(text) - 1) ELSE {}

\* Parameters start at the beginning and after every ampersand.
Parameters(text) ==
  {p \in QueryRange(text) : p - 1 = QueryStart(text) \/ text[p - 1] = Ampersand}

ParameterEnd(text, p) == FindFrom(text, {Ampersand, Space}, p)
NameEnd(text, p) == FindFrom(text, {Equals, Ampersand, Space}, p)
RawName(text, p) == SubSeq(text, p, NameEnd(text, p) - 1)
RawValue(text, p) == SubSeq(text, NameEnd(text, p) + 1, ParameterEnd(text, p) - 1)

\* Of two parameters with one name the later one counts.
QueryOf(text) ==
  [key \in {Unescaped(RawName(text, p)) : p \in Parameters(text)} |->
     LET q == CHOOSE q \in Parameters(text) :
                /\ Unescaped(RawName(text, q)) = key
                /\ \A p \in Parameters(text) :
                     Unescaped(RawName(text, p)) = key => p <= q
     IN Unescaped(RawValue(text, q))]

\* Names and values are letters, digits and percent signs, and only the last
\* parameter may be without a value.
Orderly(text) ==
  \A p \in QueryRange(text) :
    /\ KeyChar(text[p]) \/ text[p] \in {Equals, Ampersand}
    /\ text[p] = Ampersand =>
         \E q \in QueryRange(text) :
           /\ q < p /\ text[q] = Equals
           /\ \A l \in (q + 1)..(p - 1) : KeyChar(text[l])

\* What the parser makes of it as it should: names without a value are not
\* decoded, and a second equals sign starts a parameter without a name.
Plain(text) ==
  \A p \in Parameters(text) :
    /\ Decodable(RawName(text, p)) /\ Decodable(RawValue(text, p))
    /\ NameEnd(text, p) = QueryEnd(text) => Escapes(RawName(text, p)) = {}
    /\ Equals \notin {RawValue(text, p)[l] : l \in DOMAIN RawValue(text, p)}

OneLine(text) == QueryEnd(text) < LineEnd(text)
-----------------------------------------------------------------------------
(* Properties.                                                             *)

\* For every text the query loop stays within the buffer, so at() never throws,
\* and a version of negative length is made only from a line without a second
\* space.
ScanInRange ==
  /\ pc = "scan" /\ HasQuery(Text) => i <= QueryEnd(Text)
  /\ thrown # "out_of_range"
  /\ thrown = "length_error" => ~OneLine(Text)

\* stol throws on the ParserThread only for a percent sign without two digits.
ThrowsOnlyIfMalformed ==
  thrown = "invalid_argument" =>
    \E p \in UriStart(Text)..Len(Text) :
      Text[p] = Percent /\ (p + 2 <= Len(Text) => p \notin Escapes(Text))

\* The request has the path of its line, decoded, unless its last escape is too
\* close to the end, or a question mark after the line's URI is taken for the
\* start of its query.
UriRight ==
  pc = "headers" /\ Decodable(Path(Text))
    /\ (QueryStart(Text) = None \/ HasQuery(Text))
    => request.uri = Unescaped(Path(Text))

\* Its parameters are those of its line, all of them, and beyond them only what
\* earlier requests of the connection have left in the object.
QueryRight ==
  pc = "headers" /\ (\A m \in 1..n : Plain(input[m].text)) =>
    /\ DOMAIN QueryOf(Text) \subseteq DOMAIN request.query
    /\ \A key \in DOMAIN request.query :
        \E m \in 1..n :
          /\ key \in DOMAIN QueryOf(input[m].text)
          /\ GetQuery(request, key) = QueryOf(input[m].text)[key]
          /\ \A l \in (m + 1)..n : key \notin DOMAIN QueryOf(input[l].text)

\* A line is parsed to its end only if its query is orderly ...
OnlyOrderlyPasses == pc = "headers" => Orderly(Text)

\* ... and an orderly one is: the loop ends.
OrderlyEnds == (pc = "scan" /\ OneLine(Text) /\ Orderly(Text)) ~> pc # "scan"

\* A header is found under any spelling of its name, with the value that came
\* first on the connection, and looking for it never throws.
FirstWithName(name) ==
  CHOOSE j \in DOMAIN added :
    /\ Lower(added[j][1]) = name
    /\ \A l \in 1..(j - 1) : Lower(added[l][1]) # name

HeaderFound ==
  \A j \in DOMAIN added :
    LET name == Lower(added[j][1])
    IN /\ name \in DOMAIN request.headerKeyMap
       /\ request.headerKeyMap[name] \in DOMAIN request.headers
       /\ GetHeader(request, added[j][1]) = added[FirstWithName(name)][2]
=============================================================================
