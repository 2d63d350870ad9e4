------------------------- MODULE RequestLineProofs -------------------------
(***************************************************************************)
(* Proofs about RequestLine for any requests of a connection.  A text is   *)
(* any sequence of characters: nothing is asked of it.                     *)
(***************************************************************************)
EXTENDS RequestLine, SequenceLemmas

(***************************************************************************)
(* The operators that look for a character.                                *)
(***************************************************************************)

LEMMA FindFromIsFirst ==
  ASSUME NEW text \in Seq(Characters), NEW chars, NEW p \in Nat \ {0}
  PROVE  /\ FindFrom(text, chars, p) \in Nat
         /\ FindFrom(text, chars, p) # None =>
              /\ FindFrom(text, chars, p) \in p..Len(text)
              /\ text[FindFrom(text, chars, p)] \in chars
<1>1. CASE \E q \in p..Len(text) : text[q] \in chars
  <2>1. PICK q \in p..Len(text) : text[q] \in chars
    BY <1>1
  <2>2. p \in Nat /\ Len(text) \in Int
    OBVIOUS
  <2>3. \E k \in p..Len(text) :
          text[k] \in chars /\ \A l \in p..(k - 1) : text[l] \notin chars
    BY ONLY <2>1, <2>2, FirstExists
  <2>4. /\ FindFrom(text, chars, p) \in p..Len(text)
        /\ text[FindFrom(text, chars, p)] \in chars
    BY <1>1, <2>3 DEF FindFrom
  <2> QED
    BY <2>4
<1>2. CASE ~\E q \in p..Len(text) : text[q] \in chars
  BY <1>2 DEF FindFrom, None
<1> QED
  BY <1>1, <1>2

LEMMA KeyCharsEnd ==
  ASSUME NEW p \in Nat, NEW limit \in Nat
  PROVE  /\ KeyCharsUntil(p, limit) \in Nat
         /\ KeyCharsUntil(p, limit) >= p
         /\ \A l \in p..(KeyCharsUntil(p, limit) - 1) : KeyChar(Text[l])
<1> DEFINE C == {c \in {Text[q] : q \in p..(limit - 1)} : ~KeyChar(c)}
<1>1. CASE \E q \in p..(limit - 1) : ~KeyChar(Text[q])
  <2>1. PICK q \in p..(limit - 1) : Text[q] \in C
    BY <1>1
  <2>2. PICK k \in p..(limit - 1) :
          Text[k] \in C /\ \A l \in p..(k - 1) : Text[l] \notin C
    <3>1. limit - 1 \in Int
      OBVIOUS
    <3> HIDE DEF C
    <3> QED
      BY <2>1, <3>1, FirstExists
  <2>3. ~KeyChar(Text[k]) /\ \A l \in p..(k - 1) : KeyChar(Text[l])
    BY <2>2
  <2>4. /\ KeyCharsUntil(p, limit) \in p..(limit - 1)
        /\ \A l \in p..(KeyCharsUntil(p, limit) - 1) : KeyChar(Text[l])
    BY <1>1, <2>3 DEF KeyCharsUntil
  <2> QED
    BY <2>4
<1>2. CASE \A q \in p..(limit - 1) : KeyChar(Text[q])
  BY <1>2 DEF KeyCharsUntil
<1> QED
  BY <1>1, <1>2

\* A scan that starts before a character that is no KeyChar ends there at the
\* latest.
LEMMA ScanStops ==
  ASSUME NEW p \in Nat, NEW limit \in Nat, NEW e \in Nat, p <= e,
         ~KeyChar(Text[e])
  PROVE  KeyCharsUntil(p, limit) \in p..e
<1>1. ASSUME KeyCharsUntil(p, limit) > e PROVE FALSE
  <2>1. e \in p..(KeyCharsUntil(p, limit) - 1)
    BY <1>1, KeyCharsEnd
  <2> QED
    BY <2>1, KeyCharsEnd
<1> QED
  BY <1>1, KeyCharsEnd

LEMMA SpaceIsNoKeyChar == ~KeyChar(Space)
BY DEF KeyChar, Alnum, Digits, Space, Percent

(***************************************************************************)
(* The query loop.                                                         *)
(***************************************************************************)

LEMMA TextIsText ==
  ASSUME TypeOK
  PROVE  /\ Text \in Seq(Characters)
         /\ input[n].headers \in Seq(Seq(Characters))
<1> DEFINE C == Seq(Characters)
           H == Seq(C)
           R == [text : C, headers : H]
<1>1. input \in Seq(R) /\ n \in 1..Len(input)
  BY InputsAssumption DEF TypeOK
<1>2. input[n] \in R
  <2> HIDE DEF R
  <2> QED
    BY <1>1
<1>3. input[n].text \in C /\ input[n].headers \in H
  <2> HIDE DEF C, H
  <2> QED
    BY <1>2
<1> QED
  BY <1>3 DEF Text

\* The loop is entered only with a second space to stop it, and the program does
\* nothing after an exception.
LoopInv ==
  /\ pc = "scan" => /\ MethodEnd(Text) # None
                    /\ QueryEnd(Text) # None
                    /\ i # 0
  /\ thrown # "nothing" => pc = "thrown"

LineInv == TypeOK /\ LoopInv /\ ScanInRange

\* The line's second space lies within the buffer and belongs to no key or value.
LEMMA SecondSpace ==
  ASSUME TypeOK, MethodEnd(Text) # None
  PROVE  /\ MethodEnd(Text) \in Nat
         /\ QueryEnd(Text) \in Nat
         /\ QueryStart(Text) \in Nat
         /\ LineEnd(Text) \in Nat
         /\ QueryEnd(Text) # None => /\ QueryEnd(Text) \in UriStart(Text)..Len(Text)
                                     /\ Text[QueryEnd(Text)] = Space
<1>1. Text \in Seq(Characters)
  BY TextIsText
<1>2. LineEnd(Text) \in Nat
  BY <1>1, FindFromIsFirst DEF LineEnd
<1>3. MethodEnd(Text) \in Nat
  BY <1>1, FindFromIsFirst DEF MethodEnd
<1>4. UriStart(Text) \in Nat \ {0}
  BY <1>3 DEF UriStart
<1>5. QueryStart(Text) \in Nat
  BY <1>1, <1>4, FindFromIsFirst DEF QueryStart
<1>6. QueryEnd(Text) \in Nat
  BY <1>1, <1>4, FindFromIsFirst DEF QueryEnd
<1>7. QueryEnd(Text) # None => /\ QueryEnd(Text) \in UriStart(Text)..Len(Text)
                               /\ Text[QueryEnd(Text)] \in {Space}
  BY <1>1, <1>4, FindFromIsFirst DEF QueryEnd
<1> QED
  BY <1>2, <1>3, <1>5, <1>6, <1>7

\* One turn of the loop ends at the second space at the latest.
LEMMA TurnStops ==
  ASSUME TypeOK, LoopInv, pc = "scan", i < QueryEnd(Text)
  PROVE  LET keyEnd == KeyCharsUntil(i, LineEnd(Text))
             valueEnd == KeyCharsUntil(keyEnd + 1, Len(Text) + 1)
         IN /\ keyEnd \in i..QueryEnd(Text)
            /\ Text[keyEnd] = Equals =>
                 /\ valueEnd \in (keyEnd + 1)..QueryEnd(Text)
                 /\ SkipAmpersand(valueEnd) \in valueEnd..QueryEnd(Text)
<1> DEFINE keyEnd == KeyCharsUntil(i, LineEnd(Text))
           valueEnd == KeyCharsUntil(keyEnd + 1, Len(Text) + 1)
<1>1. MethodEnd(Text) # None /\ QueryEnd(Text) # None
  BY DEF LoopInv
<1>2. /\ i \in Nat
      /\ QueryEnd(Text) \in Nat
      /\ LineEnd(Text) \in Nat
      /\ Text[QueryEnd(Text)] = Space
      /\ Len(Text) \in Nat
  BY <1>1, SecondSpace, TextIsText DEF TypeOK
<1>3. ~KeyChar(Text[QueryEnd(Text)])
  BY <1>2, SpaceIsNoKeyChar
<1>4. keyEnd \in i..QueryEnd(Text)
  BY <1>2, <1>3, ScanStops
<1>5. ASSUME Text[keyEnd] = Equals
      PROVE  /\ valueEnd \in (keyEnd + 1)..QueryEnd(Text)
             /\ SkipAmpersand(valueEnd) \in valueEnd..QueryEnd(Text)
  <2>1. keyEnd + 1 <= QueryEnd(Text)
    BY <1>2, <1>4, <1>5 DEF Equals, Space
  <2>2. keyEnd + 1 \in Nat /\ Len(Text) + 1 \in Nat
    BY <1>2, <1>4
  <2> HIDE DEF keyEnd
  <2>3. valueEnd \in (keyEnd + 1)..QueryEnd(Text)
    BY <1>2, <1>3, <2>1, <2>2, ScanStops
  <2> HIDE DEF valueEnd
  <2>4. SkipAmpersand(valueEnd) \in valueEnd..QueryEnd(Text)
    BY <1>2, <2>2, <2>3 DEF SkipAmpersand, Ampersand, Space
  <2> QED
    BY <2>3, <2>4
<1> QED
  BY <1>4, <1>5

\* Setting anything of the request keeps what it is.
RequestOK(r) ==
  /\ DOMAIN r = DOMAIN NewRequest
  /\ r.method \in Methods \cup {eUNKNOWN}
  /\ r.version \in Versions \cup {eUNKNOWN}

LEMMA WordsAreKnown ==
  ASSUME NEW word
  PROVE  /\ MethodOf(word) \in Methods \cup {eUNKNOWN}
         /\ VersionOf(word) \in Versions \cup {eUNKNOWN}
BY DEF MethodOf, VersionOf

LEMMA SettersKeepType ==
  ASSUME NEW r, RequestOK(r), NEW a, NEW b
  PROVE  /\ RequestOK(SetMethod(r, a))
         /\ RequestOK(SetVersion(r, a))
         /\ RequestOK(SetURI(r, a))
         /\ RequestOK(AddQuery(r, a, b))
         /\ RequestOK(AddHeader(r, a, b))
<1>1. RequestOK(SetMethod(r, a))
  BY WordsAreKnown DEF RequestOK, SetMethod, NewRequest
<1>2. RequestOK(SetVersion(r, a))
  BY WordsAreKnown DEF RequestOK, SetVersion, NewRequest
<1>3. RequestOK(SetURI(r, a))
  BY DEF RequestOK, SetURI, NewRequest
<1>4. RequestOK(AddQuery(r, a, b))
  BY DEF RequestOK, AddQuery, NewRequest
<1>5. RequestOK(AddHeader(r, a, b))
  BY DEF RequestOK, AddHeader, NewRequest
<1> QED
  BY <1>1, <1>2, <1>3, <1>4, <1>5

\* Each action keeps the types, what the loop relies on, and where it is.
LEMMA InitLine == Init => LineInv
<1> SUFFICES ASSUME Init PROVE LineInv
  OBVIOUS
<1>1. /\ input \in Inputs /\ input # <<>>
      /\ n = 1 /\ h = 0 /\ pc = "line" /\ i = 0
      /\ request = NewRequest
      /\ added = <<>>
      /\ thrown = "nothing"
  BY DEF Init
<1>2. 1 \in 1..Len(input)
  BY <1>1, InputsAssumption
<1>3. RequestOK(request)
  BY <1>1 DEF RequestOK, NewRequest
<1>4. input \in Inputs /\ n \in 1..Len(input)
  BY <1>1, <1>2
<1>5. input[n].headers \in Seq(Seq(Characters))
  <2> DEFINE R == [text : Seq(Characters), headers : Seq(Seq(Characters))]
  <2>1. input \in Seq(R)
    BY <1>4, InputsAssumption
  <2>2. input[n] \in R
    <3> HIDE DEF R
    <3> QED
      BY <1>4, <2>1
  <2> QED
    BY <2>2
<1>6. h \in 0..Len(input[n].headers)
  BY <1>1, <1>5
<1>7. added \in Seq(Seq(Characters) \X Seq(Characters))
  BY <1>1
<1>8. TypeOK
  BY <1>1, <1>3, <1>4, <1>6, <1>7 DEF TypeOK, RequestOK
<1>9. LoopInv /\ ScanInRange
  BY <1>1 DEF LoopInv, ScanInRange
<1> QED
  BY <1>8, <1>9 DEF LineInv

\* The parts of TypeOK the actions change only through the setters.
LEMMA TypeParts ==
  ASSUME TypeOK, RequestOK(request'), UNCHANGED <<input, n, h, added>>,
         pc' \in {"line", "scan", "headers", "failed", "thrown"},
         i' \in Nat,
         thrown' \in {"nothing", "out_of_range", "invalid_argument", "length_error"}
  PROVE  TypeOK'
<1>1. /\ input' \in Inputs
      /\ n' \in 1..Len(input')
      /\ h' \in 0..Len(input'[n'].headers)
      /\ added' \in Seq(Seq(Characters) \X Seq(Characters))
  BY DEF TypeOK
<1> QED
  BY <1>1 DEF TypeOK, RequestOK

LEMMA ThrowKeeps ==
  ASSUME LineInv, NEW exception \in {"invalid_argument", "length_error"},
         Throw(exception), exception = "length_error" => ~OneLine(Text)
  PROVE  LineInv'
<1>1. RequestOK(request')
  BY DEF Throw, RequestOK, LineInv, TypeOK
<1>2. TypeOK'
  BY <1>1, TypeParts DEF Throw, LineInv, TypeOK
<1>3. LoopInv' /\ ScanInRange'
  BY DEF Throw, LoopInv, ScanInRange, OneLine, Text
<1> QED
  BY <1>2, <1>3 DEF LineInv

LEMMA FailKeeps ==
  ASSUME LineInv, pc \in {"line", "scan"}, Fail, RequestOK(request')
  PROVE  LineInv'
<1>1. TypeOK'
  BY TypeParts DEF Fail, LineInv, TypeOK
<1>2. LoopInv' /\ ScanInRange'
  BY DEF Fail, LineInv, LoopInv, ScanInRange
<1> QED
  BY <1>1, <1>2 DEF LineInv

LEMMA MethodKeeps == LineInv /\ ParseMethod => LineInv'
<1> SUFFICES ASSUME LineInv, ParseMethod PROVE LineInv'
  OBVIOUS
<1> DEFINE word == SubSeq(Text, 1, MethodEnd(Text) - 1)
<1>1. TypeOK /\ RequestOK(request) /\ pc = "line" /\ thrown = "nothing"
  BY DEF LineInv, TypeOK, RequestOK, LoopInv, ParseMethod
<1>2. CASE Fail /\ UNCHANGED request
  BY <1>1, <1>2, FailKeeps DEF RequestOK
<1>3. CASE Fail /\ request' = SetMethod(request, word)
  BY <1>1, <1>3, SettersKeepType, FailKeeps
<1>4. CASE /\ ~(LineEnd(Text) = None \/ MethodEnd(Text) = None
                   \/ MethodOf(word) = eUNKNOWN)
           /\ request' = SetMethod(request, word)
           /\ QueryEnd(Text) # None
           /\ pc' = "scan"
           /\ i' = IF QueryStart(Text) = None THEN QueryEnd(Text) ELSE QueryStart(Text) + 1
           /\ UNCHANGED <<input, n, h, added, thrown>>
  <2>1. RequestOK(request')
    BY <1>1, <1>4, SettersKeepType
  <2>2. /\ QueryEnd(Text) \in Nat /\ QueryStart(Text) \in Nat
        /\ MethodEnd(Text) # None
    BY <1>1, <1>4, SecondSpace
  <2>3. i' \in Nat /\ i' # 0
    BY <1>4, <2>2 DEF None
  <2>4. TypeOK'
    BY <1>1, <1>4, <2>1, <2>3, TypeParts
  <2>5. Text' = Text
    BY <1>4 DEF Text
  <2>6. LoopInv'
    BY <1>1, <1>4, <2>2, <2>3, <2>5 DEF LoopInv
  <2>7. HasQuery(Text) => i' <= QueryEnd(Text)
    BY <1>4, <2>2 DEF HasQuery, None
  <2>8. ScanInRange'
    BY <1>1, <1>4, <2>5, <2>7 DEF ScanInRange
  <2> QED
    BY <2>4, <2>6, <2>8 DEF LineInv
<1> QED
  BY <1>2, <1>3, <1>4 DEF ParseMethod

LEMMA ScanKeeps == LineInv /\ ScanQuery => LineInv'
<1> SUFFICES ASSUME LineInv, ScanQuery PROVE LineInv'
  OBVIOUS
<1> DEFINE keyEnd == KeyCharsUntil(i, LineEnd(Text))
           valueEnd == KeyCharsUntil(keyEnd + 1, Len(Text) + 1)
           key == SubSeq(Text, i, keyEnd - 1)
           value == SubSeq(Text, keyEnd + 1, valueEnd - 1)
<1>1. /\ TypeOK /\ LoopInv /\ RequestOK(request)
      /\ pc = "scan" /\ i < QueryEnd(Text)
      /\ thrown = "nothing"
  BY DEF LineInv, TypeOK, RequestOK, LoopInv, ScanQuery
<1>2. /\ keyEnd \in i..QueryEnd(Text)
      /\ Text[keyEnd] = Equals =>
           /\ valueEnd \in (keyEnd + 1)..QueryEnd(Text)
           /\ SkipAmpersand(valueEnd) \in valueEnd..QueryEnd(Text)
  BY <1>1, TurnStops
<1>3. /\ i \in Nat /\ i # 0
      /\ QueryEnd(Text) \in Nat
      /\ QueryEnd(Text) <= Len(Text)
      /\ Len(Text) \in Nat
  BY <1>1, SecondSpace, TextIsText DEF TypeOK, LoopInv
\* The loop goes on from p.
<1>4. ASSUME NEW p \in i..QueryEnd(Text), i' = p, RequestOK(request'),
             UNCHANGED <<input, n, h, pc, added, thrown>>
      PROVE  LineInv'
  <2>1. i' \in Nat /\ i' # 0 /\ i' <= QueryEnd(Text)
    BY <1>3, <1>4
  <2>2. TypeOK'
    BY <1>1, <1>4, <2>1, TypeParts DEF TypeOK
  <2>3. Text' = Text
    BY <1>4 DEF Text
  <2>4. LoopInv' /\ ScanInRange'
    BY <1>1, <1>4, <2>1, <2>3 DEF LoopInv, ScanInRange
  <2> QED
    BY <2>2, <2>4 DEF LineInv
<1>5. CASE /\ Text[keyEnd] = Equals
           /\ IF valueEnd > Len(Text) THEN Throw("out_of_range")
              ELSE IF DecodeThrows(key) \/ DecodeThrows(value)
              THEN Throw("invalid_argument")
              ELSE /\ request' = AddQuery(request, Decode(key), Decode(value))
                   /\ i' = SkipAmpersand(valueEnd)
                   /\ UNCHANGED <<input, n, h, pc, added, thrown>>
  <2> HIDE DEF keyEnd, valueEnd, key, value
  <2>1. ~(valueEnd > Len(Text))
    BY <1>2, <1>3, <1>5
  <2>2. CASE DecodeThrows(key) \/ DecodeThrows(value)
    BY <1>5, <2>1, <2>2, ThrowKeeps
  <2>3. CASE ~(DecodeThrows(key) \/ DecodeThrows(value))
    <3>1. /\ request' = AddQuery(request, Decode(key), Decode(value))
          /\ i' = SkipAmpersand(valueEnd)
          /\ UNCHANGED <<input, n, h, pc, added, thrown>>
      BY <1>5, <2>1, <2>3
    <3>2. RequestOK(request')
      BY <1>1, <3>1, SettersKeepType
    <3>3. SkipAmpersand(valueEnd) \in i..QueryEnd(Text)
      BY <1>2, <1>3, <1>5
    <3> QED
      BY <1>4, <3>1, <3>2, <3>3
  <2> QED
    BY <2>2, <2>3
<1>6. CASE /\ request' = AddQuery(request, key, <<>>)
           /\ i' = keyEnd
           /\ UNCHANGED <<input, n, h, pc, added, thrown>>
  <2>1. RequestOK(request')
    BY <1>1, <1>6, SettersKeepType
  <2> HIDE DEF keyEnd
  <2> QED
    BY <1>2, <1>4, <1>6, <2>1
<1>7. CASE Unexpected(keyEnd)
  <2>1. RequestOK(request')
    BY <1>1, <1>7 DEF Unexpected
  <2> HIDE DEF keyEnd
  <2> QED
    BY <1>2, <1>4, <1>7, <2>1 DEF Unexpected
<1> QED
  BY <1>5, <1>6, <1>7 DEF ScanQuery

LEMMA UriKeeps == LineInv /\ ParseUriAndVersion => LineInv'
<1> SUFFICES ASSUME LineInv, ParseUriAndVersion PROVE LineInv'
  OBVIOUS
<1> DEFINE uri == SubSeq(Text, UriStart(Text), UriEnd(Text) - 1)
           word == SubSeq(Text, QueryEnd(Text) + 1, LineEnd(Text) - 1)
           r == SetURI(request, Decode(uri))
<1>1. TypeOK /\ RequestOK(request) /\ pc = "scan" /\ thrown = "nothing"
  BY DEF LineInv, TypeOK, RequestOK, LoopInv, ParseUriAndVersion
<1>2. QueryEnd(Text) \in Nat /\ LineEnd(Text) \in Nat
  BY <1>1, SecondSpace DEF LineInv, LoopInv
<1>3. RequestOK(r)
  BY <1>1, SettersKeepType
<1> HIDE DEF uri, word, r
<1>4. CASE DecodeThrows(uri)
  BY <1>4, ThrowKeeps DEF ParseUriAndVersion, uri
<1>5. CASE ~DecodeThrows(uri) /\ LineEnd(Text) < QueryEnd(Text) + 1
  <2>1. Throw("length_error")
    BY <1>5 DEF ParseUriAndVersion, uri
  <2>2. ~OneLine(Text)
    BY <1>2, <1>5 DEF OneLine
  <2> QED
    BY <2>1, <2>2, ThrowKeeps
<1>6. CASE Fail /\ request' = r
  BY <1>1, <1>3, <1>6, FailKeeps
<1>7. CASE /\ request' = SetVersion(r, word)
           /\ pc' = "headers"
           /\ UNCHANGED <<input, n, h, i, added, thrown>>
  <2>1. RequestOK(request')
    BY <1>3, <1>7, SettersKeepType
  <2>2. TypeOK'
    BY <1>1, <1>7, <2>1, TypeParts DEF TypeOK
  <2>3. LoopInv' /\ ScanInRange'
    BY <1>1, <1>7 DEF LoopInv, ScanInRange
  <2> QED
    BY <2>2, <2>3 DEF LineInv
<1> QED
  BY <1>4, <1>5, <1>6, <1>7 DEF ParseUriAndVersion, uri, word, r

\* A header line is cut into a name and a value, or nothing is made of it.
LEMMA HeaderIsHeader ==
  ASSUME NEW text \in Seq(Characters)
  PROVE  HeaderOf(text) \in Seq(Characters) \X Seq(Characters)
<1>1. ASSUME NEW chars
      PROVE  /\ FindFrom(text, chars, 1) \in Nat
             /\ FindFrom(text, chars, 1) - 1 <= Len(text)
  <2> PICK c : c = FindFrom(text, chars, 1)
    OBVIOUS
  <2>1. c \in Nat /\ (c # None => c \in 1..Len(text))
    BY FindFromIsFirst
  <2>2. Len(text) \in Nat
    OBVIOUS
  <2>3. c \in Nat /\ c - 1 <= Len(text)
    BY <2>1, <2>2 DEF None
  <2> QED
    BY <2>3
<1>2. ASSUME NEW a \in Nat \ {0}, NEW b \in Int, b <= Len(text)
      PROVE  SubSeq(text, a, b) \in Seq(Characters)
  <2>1. \A l \in a..b : text[l] \in Characters
    BY <1>2
  <2> QED
    BY <2>1, SubSeqProperties
<1>3. /\ ColonAt(text) - 1 \in Int /\ ColonAt(text) - 1 <= Len(text)
      /\ LineEnd(text) - 1 \in Int /\ LineEnd(text) - 1 <= Len(text)
      /\ ColonAt(text) + 1 \in Nat \ {0}
  BY <1>1 DEF ColonAt, LineEnd
<1>4. /\ SubSeq(text, 1, ColonAt(text) - 1) \in Seq(Characters)
      /\ SubSeq(text, ColonAt(text) + 1, LineEnd(text) - 1) \in Seq(Characters)
  BY <1>1, <1>2, <1>3
<1> QED
  BY <1>4 DEF HeaderOf

LEMMA HeaderSteps ==
  ASSUME TypeOK, ParseHeaderLine
  PROVE  \/ Fail /\ UNCHANGED request
         \/ \E header \in Seq(Characters) \X Seq(Characters) :
              /\ h' = h + 1
              /\ request' = AddHeader(request, header[1], header[2])
              /\ added' = Append(added, header)
              /\ UNCHANGED <<input, n, pc, i, thrown>>
<1> PICK text : text = input[n].headers[h + 1]
  OBVIOUS
<1>1. text \in Seq(Characters)
  <2>1. input[n].headers \in Seq(Seq(Characters))
    BY TextIsText
  <2>2. h + 1 \in 1..Len(input[n].headers)
    BY <2>1 DEF ParseHeaderLine, TypeOK
  <2> QED
    BY <2>1, <2>2
<1>2. HeaderOf(text) \in Seq(Characters) \X Seq(Characters)
  BY <1>1, HeaderIsHeader
<1> QED
  BY <1>2, Zenon DEF ParseHeaderLine

LEMMA HeaderLineKeeps == LineInv /\ ParseHeaderLine => LineInv'
<1> SUFFICES ASSUME LineInv, ParseHeaderLine PROVE LineInv'
  OBVIOUS
<1> DEFINE Header == Seq(Characters) \X Seq(Characters)
<1>1. /\ TypeOK /\ RequestOK(request)
      /\ pc = "headers" /\ h < Len(input[n].headers)
  BY DEF LineInv, TypeOK, RequestOK, ParseHeaderLine
<1>2. CASE Fail /\ UNCHANGED request
  <2>1. TypeOK'
    BY <1>1, <1>2, TypeParts DEF Fail, LineInv, TypeOK
  <2>2. LoopInv' /\ ScanInRange'
    BY <1>1, <1>2 DEF Fail, LineInv, LoopInv, ScanInRange
  <2> QED
    BY <2>1, <2>2 DEF LineInv
<1>3. ASSUME NEW header \in Header,
             h' = h + 1,
             request' = AddHeader(request, header[1], header[2]),
             added' = Append(added, header),
             UNCHANGED <<input, n, pc, i, thrown>>
      PROVE  LineInv'
  <2>1. RequestOK(request')
    BY <1>1, <1>3, SettersKeepType
  <2>2. input[n].headers \in Seq(Seq(Characters))
    BY <1>1, TextIsText
  <2>3. h + 1 \in 1..Len(input[n].headers)
    BY <1>1, <2>2 DEF TypeOK
  <2>4. added' \in Seq(Header)
    <3>1. added \in Seq(Header)
      BY <1>1 DEF TypeOK
    <3> HIDE DEF Header
    <3> QED
      BY <1>3, <3>1
  <2>5. h' \in 0..Len(input'[n'].headers)
    BY <1>3, <2>3
  <2>6. TypeOK'
    BY <1>1, <1>3, <2>1, <2>4, <2>5 DEF TypeOK, RequestOK
  <2>7. LoopInv' /\ ScanInRange'
    BY <1>1, <1>3 DEF LineInv, LoopInv, ScanInRange
  <2> QED
    BY <2>6, <2>7 DEF LineInv
<1> QED
  BY <1>1, <1>2, <1>3, HeaderSteps

LEMMA NextRequestKeeps == LineInv /\ NextRequest => LineInv'
<1> SUFFICES ASSUME LineInv, NextRequest PROVE LineInv'
  OBVIOUS
<1> DEFINE R == [text : Seq(Characters),
                 headers : Seq(Seq(Characters))]
<1>1. /\ TypeOK /\ RequestOK(request)
      /\ pc = "headers" /\ n < Len(input)
      /\ n' = n + 1 /\ h' = 0 /\ pc' = "line"
      /\ UNCHANGED <<input, i, request, added, thrown>>
  BY DEF LineInv, TypeOK, RequestOK, NextRequest
<1>2. input \in Seq(R)
  BY <1>1, InputsAssumption DEF TypeOK
<1>3. n' \in 1..Len(input)
  <2> HIDE DEF R
  <2> QED
    BY <1>1, <1>2 DEF TypeOK
<1>4. input[n'] \in R
  <2> HIDE DEF R
  <2> QED
    BY <1>2, <1>3
<1>5. input[n'].headers \in Seq(Seq(Characters))
  BY <1>4
<1>6. 0 \in 0..Len(input[n'].headers)
  BY <1>5
<1>7. TypeOK'
  BY <1>1, <1>3, <1>6 DEF TypeOK, RequestOK
<1>8. LoopInv' /\ ScanInRange'
  BY <1>1 DEF LineInv, LoopInv, ScanInRange
<1> QED
  BY <1>7, <1>8 DEF LineInv

LEMMA LineInvariant == Spec => []LineInv
<1>1. LineInv /\ [Next]_vars => LineInv'
  <2> SUFFICES ASSUME LineInv, [Next]_vars PROVE LineInv'
    OBVIOUS
  <2>1. CASE ParseMethod
    BY <2>1, MethodKeeps
  <2>2. CASE ScanQuery
    BY <2>2, ScanKeeps
  <2>3. CASE ParseUriAndVersion
    BY <2>3, UriKeeps
  <2>4. CASE ParseHeaderLine
    BY <2>4, HeaderLineKeeps
  <2>5. CASE NextRequest
    BY <2>5, NextRequestKeeps
  <2>6. CASE UNCHANGED vars
    <3>1. Text' = Text
      BY <2>6 DEF vars, Text
    <3>2. TypeOK'
      BY <2>6 DEF vars, TypeOK, LineInv
    <3>3. LoopInv' /\ ScanInRange'
      BY <2>6, <3>1 DEF vars, LineInv, LoopInv, ScanInRange
    <3> QED
      BY <3>2, <3>3 DEF LineInv
  <2> QED
    BY <2>1, <2>2, <2>3, <2>4, <2>5, <2>6 DEF Next
<1> QED
  BY <1>1, InitLine, PTL DEF Spec

\* Types, for every connection: in particular that what the request says of its
\* method and version is in the tables.
THEOREM LineTypes == Spec => []TypeOK
BY LineInvariant, PTL DEF LineInv

\* at() never throws in the query loop, whatever the client sends: the second space
\* of the line stops every turn of it.
THEOREM LoopStaysInBuffer == Spec => []ScanInRange
BY LineInvariant, PTL DEF LineInv

(***************************************************************************)
(* What has passed the loop.                                               *)
(***************************************************************************)

\* A character that may be where it is in a query that starts at s.
Fits(text, s, p) ==
  /\ KeyChar(text[p]) \/ text[p] \in {Equals, Ampersand}
  /\ text[p] = Ampersand =>
       \E q \in s..(p - 1) :
         /\ text[q] = Equals
         /\ \A l \in (q + 1)..(p - 1) : KeyChar(text[l])

\* The loop has behind it only what fits.
Behind ==
  pc = "scan" /\ HasQuery(Text) =>
    /\ QueryStart(Text) < i
    /\ \A p \in (QueryStart(Text) + 1)..(i - 1) : Fits(Text, QueryStart(Text) + 1, p)

PassedInv == LineInv /\ Behind /\ OnlyOrderlyPasses

LEMMA OrderlyIsFit ==
  ASSUME TypeOK, MethodEnd(Text) # None,
         HasQuery(Text) =>
           \A p \in (QueryStart(Text) + 1)..(QueryEnd(Text) - 1) :
             Fits(Text, QueryStart(Text) + 1, p)
  PROVE  Orderly(Text)
<1>1. CASE ~HasQuery(Text)
  BY <1>1 DEF Orderly, QueryRange
<1>2. CASE HasQuery(Text)
  <2>1. QueryRange(Text) = (QueryStart(Text) + 1)..(QueryEnd(Text) - 1)
    BY <1>2 DEF QueryRange
  <2>2. QueryStart(Text) \in Nat /\ QueryEnd(Text) \in Nat
    BY SecondSpace
  <2>3. ASSUME NEW p \in QueryRange(Text)
        PROVE  /\ KeyChar(Text[p]) \/ Text[p] \in {Equals, Ampersand}
               /\ Text[p] = Ampersand =>
                    \E q \in QueryRange(Text) :
                      /\ q < p /\ Text[q] = Equals
                      /\ \A l \in (q + 1)..(p - 1) : KeyChar(Text[l])
    <3>1. Fits(Text, QueryStart(Text) + 1, p)
      BY <1>2, <2>1, <2>3
    <3>2. (QueryStart(Text) + 1)..(p - 1) \subseteq QueryRange(Text)
      BY <2>1, <2>2, <2>3
    <3>3. \A q \in (QueryStart(Text) + 1)..(p - 1) : q < p
      BY <2>1, <2>2, <2>3
    <3> QED
      BY <3>1, <3>2, <3>3 DEF Fits
  <2> QED
    BY <2>3 DEF Orderly
<1> QED
  BY <1>1, <1>2

LEMMA UpperPart ==
  ASSUME NEW a \in Nat, NEW b \in Nat, NEW e \in Nat, NEW p \in a..(e - 1), p >= b
  PROVE  p \in b..(e - 1)
OBVIOUS

LEMMA TurnAdvances ==
  ASSUME LineInv, ScanQuery, pc' = "scan"
  PROVE  i' \in Nat /\ i <= i'
<1> DEFINE keyEnd == KeyCharsUntil(i, LineEnd(Text))
           valueEnd == KeyCharsUntil(keyEnd + 1, Len(Text) + 1)
<1>1. TypeOK /\ LoopInv /\ pc = "scan" /\ i < QueryEnd(Text)
  BY DEF LineInv, ScanQuery
<1>2. i \in Nat /\ QueryEnd(Text) \in Nat
  BY <1>1, SecondSpace DEF TypeOK, LoopInv
<1>3. /\ keyEnd \in i..QueryEnd(Text)
      /\ Text[keyEnd] = Equals =>
           /\ valueEnd \in (keyEnd + 1)..QueryEnd(Text)
           /\ SkipAmpersand(valueEnd) \in valueEnd..QueryEnd(Text)
  BY <1>1, TurnStops
<1>4. i' = keyEnd \/ (Text[keyEnd] = Equals /\ i' = SkipAmpersand(valueEnd))
  BY DEF ScanQuery, Throw, Unexpected
<1> HIDE DEF keyEnd, valueEnd
<1> QED
  BY <1>2, <1>3, <1>4

\* What one turn of the loop leaves behind it fits.
LEMMA TurnFits ==
  ASSUME LineInv, pc = "scan", ScanQuery, pc' = "scan",
         NEW p \in i..(i' - 1), NEW s \in Nat, s <= i
  PROVE  Fits(Text, s, p)
<1> DEFINE keyEnd == KeyCharsUntil(i, LineEnd(Text))
           valueEnd == KeyCharsUntil(keyEnd + 1, Len(Text) + 1)
<1>1. TypeOK /\ LoopInv /\ i < QueryEnd(Text)
  BY DEF LineInv, ScanQuery
<1>2. /\ i \in Nat
      /\ QueryEnd(Text) \in Nat
      /\ LineEnd(Text) \in Nat
      /\ Len(Text) \in Nat
  BY <1>1, SecondSpace, TextIsText DEF TypeOK, LoopInv
<1>3. /\ keyEnd \in i..QueryEnd(Text)
      /\ Text[keyEnd] = Equals =>
           /\ valueEnd \in (keyEnd + 1)..QueryEnd(Text)
           /\ SkipAmpersand(valueEnd) \in valueEnd..QueryEnd(Text)
  BY <1>1, TurnStops
<1>4. keyEnd \in Nat /\ \A l \in i..(keyEnd - 1) : KeyChar(Text[l])
  BY <1>2, KeyCharsEnd
<1>5. \A l \in (keyEnd + 1)..(valueEnd - 1) : KeyChar(Text[l])
  <2> HIDE DEF keyEnd
  <2> QED
    BY <1>2, <1>4, KeyCharsEnd
<1>6. ASSUME NEW c, KeyChar(c) PROVE c # Ampersand
  BY <1>6 DEF KeyChar, Alnum, Digits, Ampersand, Percent
<1>7. ASSUME KeyChar(Text[p]) PROVE Fits(Text, s, p)
  BY <1>6, <1>7 DEF Fits
<1>8. CASE i' = keyEnd
  <2> HIDE DEF keyEnd
  <2> QED
    BY <1>4, <1>7, <1>8
<1>9. CASE Text[keyEnd] = Equals /\ i' = SkipAmpersand(valueEnd)
  <2> HIDE DEF keyEnd, valueEnd
  <2>1. CASE p < keyEnd
    BY <1>2, <1>4, <1>7, <2>1
  <2>2. CASE p = keyEnd
    BY <1>9, <2>2 DEF Fits, Equals, Ampersand
  <2>3. CASE p > keyEnd /\ p < valueEnd
    BY <1>3, <1>4, <1>5, <1>7, <1>9, <2>3
  <2>4. CASE p > keyEnd /\ p >= valueEnd
    <3>1. i' <= valueEnd + 1 /\ valueEnd \in Nat
      BY <1>2, <1>3, <1>4, <1>9 DEF SkipAmpersand
    <3>2. p = valueEnd /\ i' = valueEnd + 1
      BY <1>2, <1>3, <1>4, <1>9, <2>4, <3>1
    <3>3. Text[p] = Ampersand
      BY <1>9, <3>1, <3>2 DEF SkipAmpersand
    <3>4. keyEnd \in s..(p - 1)
      BY <1>2, <1>3, <1>4, <2>4
    <3> QED
      BY <1>5, <1>9, <3>2, <3>3, <3>4 DEF Fits
  <2> QED
    BY <1>2, <1>3, <1>4, <1>9, <2>1, <2>2, <2>3, <2>4
<1>10. i' = keyEnd \/ (Text[keyEnd] = Equals /\ i' = SkipAmpersand(valueEnd))
  BY DEF ScanQuery, Throw, Unexpected
<1> QED
  BY <1>8, <1>9, <1>10

LEMMA PassedNext == PassedInv /\ [Next]_vars => Behind' /\ OnlyOrderlyPasses'
<1> SUFFICES ASSUME PassedInv, [Next]_vars PROVE Behind' /\ OnlyOrderlyPasses'
  OBVIOUS
<1>1. LineInv /\ TypeOK /\ LoopInv /\ ScanInRange /\ Behind /\ OnlyOrderlyPasses
  BY DEF PassedInv, LineInv
<1>2. ASSUME ParseMethod PROVE Behind' /\ OnlyOrderlyPasses'
  <2>1. Text' = Text
    BY <1>2 DEF ParseMethod, Fail, Text
  <2>2. OnlyOrderlyPasses'
    BY <1>2 DEF ParseMethod, Fail, OnlyOrderlyPasses
  <2>3. CASE pc' = "failed"
    BY <2>2, <2>3 DEF Behind
  <2>4. CASE pc' = "scan" /\ HasQuery(Text)
    <3>1. QueryStart(Text) \in Nat /\ i' = QueryStart(Text) + 1
      <4>1. MethodEnd(Text) # None
        BY <1>2, <2>4 DEF ParseMethod, Fail
      <4> QED
        BY <1>1, <1>2, <2>4, <4>1, SecondSpace DEF ParseMethod, Fail, HasQuery
    <3> QED
      BY <2>1, <2>2, <3>1 DEF Behind
  <2> QED
    BY <1>2, <2>1, <2>2, <2>3, <2>4 DEF ParseMethod, Fail, Behind
\* Within the loop what is behind it grows by one turn.
<1>3. ASSUME ScanQuery PROVE Behind' /\ OnlyOrderlyPasses'
  <2>1. Text' = Text /\ pc = "scan" /\ pc' \in {"scan", "thrown"}
    BY <1>3 DEF ScanQuery, Throw, Unexpected, Text
  <2>2. OnlyOrderlyPasses'
    BY <2>1 DEF OnlyOrderlyPasses
  <2>3. CASE pc' = "scan" /\ HasQuery(Text)
    <3> DEFINE s == QueryStart(Text) + 1
    <3>1. i' \in Nat /\ i <= i'
      BY <1>1, <1>3, <2>3, TurnAdvances
    <3>2. i \in Nat /\ s \in Nat /\ QueryStart(Text) \in Nat
      BY <1>1, <2>1, SecondSpace DEF LoopInv, TypeOK
    <3>3. QueryStart(Text) < i /\ \A p \in s..(i - 1) : Fits(Text, s, p)
      BY <1>1, <2>1, <2>3 DEF Behind
    <3>4. s <= i /\ QueryStart(Text) < i'
      BY <3>1, <3>2, <3>3
    <3>5. \A p \in s..(i' - 1) : Fits(Text, s, p)
      <4> HIDE DEF s
      <4> TAKE p \in s..(i' - 1)
      <4>1. CASE p < i
        BY <3>1, <3>2, <3>3, <4>1
      <4>2. CASE p >= i
        <5>1. p \in i..(i' - 1)
          BY <3>1, <3>2, <4>2, UpperPart
        <5> QED
          BY <1>1, <1>3, <2>1, <2>3, <3>2, <3>4, <5>1, TurnFits
      <4> QED
        BY <3>1, <3>2, <4>1, <4>2
    <3> QED
      BY <2>1, <2>2, <3>4, <3>5 DEF Behind
  <2> QED
    BY <2>1, <2>2, <2>3 DEF Behind
<1>4. ASSUME ParseUriAndVersion PROVE Behind' /\ OnlyOrderlyPasses'
  <2>1. Text' = Text /\ pc = "scan" /\ i >= QueryEnd(Text) /\ pc' # "scan"
    BY <1>4 DEF ParseUriAndVersion, Throw, Fail, Text
  <2>2. MethodEnd(Text) # None
    BY <1>1, <2>1 DEF LoopInv
  <2>3. HasQuery(Text) => i = QueryEnd(Text)
    BY <1>1, <2>1, <2>2, SecondSpace DEF ScanInRange, TypeOK
  <2>4. Orderly(Text)
    BY <1>1, <2>1, <2>2, <2>3, OrderlyIsFit DEF Behind
  <2> QED
    BY <2>1, <2>4 DEF Behind, OnlyOrderlyPasses
<1>5. ASSUME ParseHeaderLine \/ UNCHANGED vars PROVE Behind' /\ OnlyOrderlyPasses'
  <2>1. Text' = Text /\ i' = i /\ (pc' = pc \/ pc' = "failed")
    BY <1>5 DEF ParseHeaderLine, Fail, vars, Text
  <2> QED
    BY <1>1, <2>1 DEF Behind, OnlyOrderlyPasses
<1>6. ASSUME NextRequest PROVE Behind' /\ OnlyOrderlyPasses'
  BY <1>6 DEF NextRequest, Behind, OnlyOrderlyPasses
<1> QED
  BY <1>2, <1>3, <1>4, <1>5, <1>6 DEF Next

\* A request line is accepted only if the query in it is orderly: any other makes the
\* loop stay where it is, or is refused.
THEOREM QueriesAcceptedAreOrderly == Spec => []OnlyOrderlyPasses
<1>1. Init => Behind /\ OnlyOrderlyPasses
  BY DEF Init, Behind, OnlyOrderlyPasses
<1>2. LineInv /\ Behind /\ OnlyOrderlyPasses /\ [Next]_vars
        => Behind' /\ OnlyOrderlyPasses'
  BY PassedNext DEF PassedInv
<1> QED
  BY <1>1, <1>2, LineInvariant, PTL DEF Spec

(***************************************************************************)
(* The headers of the connection.                                          *)
(***************************************************************************)

\* The first header of hs with a name, in any spelling.
IsFirst(hs, name, j) ==
  /\ j \in DOMAIN hs
  /\ Lower(hs[j][1]) = name
  /\ \A l \in 1..(j - 1) : Lower(hs[l][1]) # name

\* headerKeyMap leads from each name to the spelling that came first, and headers
\* from there to its value.
HeadersInv(r, hs) ==
  /\ DOMAIN r.headers \subseteq {hs[j][1] : j \in DOMAIN hs}
  /\ DOMAIN r.headerKeyMap = {Lower(hs[j][1]) : j \in DOMAIN hs}
  /\ \A name \in DOMAIN r.headerKeyMap :
       \E j \in DOMAIN hs :
         /\ IsFirst(hs, name, j)
         /\ r.headerKeyMap[name] = hs[j][1]
         /\ hs[j][1] \in DOMAIN r.headers
         /\ r.headers[hs[j][1]] = hs[j][2]

LEMMA FirstIsUnique ==
  ASSUME NEW hs \in Seq(Seq(Characters) \X Seq(Characters)), NEW name,
         NEW j, IsFirst(hs, name, j), NEW k, IsFirst(hs, name, k)
  PROVE  j = k
<1>1. j \in 1..Len(hs) /\ k \in 1..Len(hs)
  BY DEF IsFirst
<1>2. Lower(hs[j][1]) = name /\ Lower(hs[k][1]) = name
  BY DEF IsFirst
<1>3. ASSUME j < k PROVE FALSE
  <2>1. j \in 1..(k - 1)
    BY <1>1, <1>3
  <2> QED
    BY <1>2, <2>1 DEF IsFirst
<1>4. ASSUME k < j PROVE FALSE
  <2>1. k \in 1..(j - 1)
    BY <1>1, <1>4
  <2> QED
    BY <1>2, <2>1 DEF IsFirst
<1> QED
  BY <1>1, <1>3, <1>4

\* Adding a header keeps the first of each name.
LEMMA AddKeepsHeaders ==
  ASSUME NEW r, DOMAIN r = DOMAIN NewRequest,
         NEW hs \in Seq(Seq(Characters) \X Seq(Characters)), HeadersInv(r, hs),
         NEW header \in Seq(Characters) \X Seq(Characters)
  PROVE  HeadersInv(AddHeader(r, header[1], header[2]), Append(hs, header))
<1> DEFINE key == header[1]
           low == Lower(key)
           new == AddHeader(r, key, header[2])
           more == Append(hs, header)
           last == Len(hs) + 1
<1>1. /\ new.headers = Insert(r.headers, key, header[2])
      /\ new.headerKeyMap = Insert(r.headerKeyMap, low, key)
  BY DEF AddHeader, NewRequest
<1>2. /\ DOMAIN hs = 1..Len(hs)
      /\ DOMAIN more = 1..last
      /\ Len(hs) \in Nat
      /\ more[last] = header
      /\ \A j \in DOMAIN hs : more[j] = hs[j]
  OBVIOUS
<1> HIDE DEF new, more, low, key
<1>3. /\ DOMAIN new.headers = DOMAIN r.headers \cup {key}
      /\ DOMAIN new.headerKeyMap = DOMAIN r.headerKeyMap \cup {low}
      /\ \A k \in DOMAIN r.headers : new.headers[k] = r.headers[k]
      /\ \A k \in DOMAIN r.headerKeyMap : new.headerKeyMap[k] = r.headerKeyMap[k]
      /\ key \notin DOMAIN r.headers => new.headers[key] = header[2]
      /\ low \notin DOMAIN r.headerKeyMap => new.headerKeyMap[low] = key
  BY <1>1 DEF Insert
<1>4. DOMAIN new.headers \subseteq {more[j][1] : j \in DOMAIN more}
  <2>1. ASSUME NEW k \in DOMAIN new.headers PROVE \E j \in DOMAIN more : k = more[j][1]
    <3>1. CASE k = key
      <4>1. last \in DOMAIN more /\ more[last][1] = key
        BY <1>2 DEF key
      <4> QED
        BY <3>1, <4>1
    <3>2. CASE k \in DOMAIN r.headers
      BY <1>2, <3>2 DEF HeadersInv
    <3> QED
      BY <1>3, <3>1, <3>2
  <2> QED
    BY <2>1
<1>5. DOMAIN new.headerKeyMap = {Lower(more[j][1]) : j \in DOMAIN more}
  <2>1. DOMAIN more = DOMAIN hs \cup {last}
    BY <1>2
  <2>2. {Lower(more[j][1]) : j \in DOMAIN more}
          = {Lower(hs[j][1]) : j \in DOMAIN hs} \cup {Lower(more[last][1])}
    <3>1. \A j \in DOMAIN hs : Lower(more[j][1]) = Lower(hs[j][1])
      BY <1>2
    <3> HIDE DEF last
    <3> QED
      BY <2>1, <3>1
  <2>3. Lower(more[last][1]) = low
    BY <1>2 DEF low, key
  <2> QED
    BY <1>3, <2>2, <2>3 DEF HeadersInv
<1>6. ASSUME NEW name \in DOMAIN r.headerKeyMap
      PROVE  \E j \in DOMAIN more :
               /\ IsFirst(more, name, j)
               /\ new.headerKeyMap[name] = more[j][1]
               /\ more[j][1] \in DOMAIN new.headers
               /\ new.headers[more[j][1]] = more[j][2]
  <2>1. PICK j \in DOMAIN hs :
          /\ IsFirst(hs, name, j)
          /\ r.headerKeyMap[name] = hs[j][1]
          /\ hs[j][1] \in DOMAIN r.headers
          /\ r.headers[hs[j][1]] = hs[j][2]
    BY DEF HeadersInv
  <2>2. j \in DOMAIN more /\ more[j] = hs[j]
    BY <1>2
  <2>3. ASSUME NEW l \in 1..(j - 1) PROVE Lower(more[l][1]) # name
    <3>1. l \in DOMAIN hs
      BY <1>2
    <3>2. more[l] = hs[l] /\ Lower(hs[l][1]) # name
      BY <1>2, <2>1, <3>1 DEF IsFirst
    <3> QED
      BY <3>2
  <2>4. IsFirst(more, name, j)
    BY <2>1, <2>2, <2>3 DEF IsFirst
  <2>5. /\ new.headerKeyMap[name] = more[j][1]
        /\ more[j][1] \in DOMAIN new.headers
        /\ new.headers[more[j][1]] = more[j][2]
    BY <1>3, <2>1, <2>2
  <2> QED
    BY <2>2, <2>4, <2>5
<1>7. ASSUME low \notin DOMAIN r.headerKeyMap
      PROVE  \E j \in DOMAIN more :
               /\ IsFirst(more, low, j)
               /\ new.headerKeyMap[low] = more[j][1]
               /\ more[j][1] \in DOMAIN new.headers
               /\ new.headers[more[j][1]] = more[j][2]
  <2>1. \A l \in DOMAIN hs : Lower(hs[l][1]) # low
    BY <1>7 DEF HeadersInv
  <2>2. key \notin DOMAIN r.headers
    BY <2>1 DEF HeadersInv, low
  <2>3. IsFirst(more, low, last)
    <3>1. Lower(more[last][1]) = low
      BY <1>2 DEF low, key
    <3>2. ASSUME NEW l \in 1..(last - 1) PROVE Lower(more[l][1]) # low
      <4>1. l \in DOMAIN hs
        BY <1>2
      <4>2. more[l] = hs[l] /\ Lower(hs[l][1]) # low
        BY <1>2, <2>1, <4>1
      <4> QED
        BY <4>2
    <3>3. last \in DOMAIN more
      BY <1>2
    <3> QED
      BY <3>1, <3>2, <3>3 DEF IsFirst
  <2>4. more[last][1] = key /\ more[last][2] = header[2]
    BY <1>2 DEF key
  <2> QED
    BY <1>2, <1>3, <1>7, <2>2, <2>3, <2>4
<1>8. \A name \in DOMAIN new.headerKeyMap :
        \E j \in DOMAIN more :
          /\ IsFirst(more, name, j)
          /\ new.headerKeyMap[name] = more[j][1]
          /\ more[j][1] \in DOMAIN new.headers
          /\ new.headers[more[j][1]] = more[j][2]
  BY <1>3, <1>6, <1>7
<1> QED
  BY <1>4, <1>5, <1>8 DEF HeadersInv, new, more, key

LEMMA OthersKeepHeaders ==
  ASSUME NEW r, DOMAIN r = DOMAIN NewRequest, NEW hs, HeadersInv(r, hs), NEW a, NEW b
  PROVE  /\ HeadersInv(SetMethod(r, a), hs)
         /\ HeadersInv(SetVersion(SetURI(r, b), a), hs)
         /\ HeadersInv(SetURI(r, b), hs)
         /\ HeadersInv(AddQuery(r, a, b), hs)
<1>1. ASSUME NEW t, t.headers = r.headers, t.headerKeyMap = r.headerKeyMap
      PROVE  HeadersInv(t, hs)
  BY <1>1 DEF HeadersInv
<1>2. /\ SetMethod(r, a).headers = r.headers
      /\ SetMethod(r, a).headerKeyMap = r.headerKeyMap
  BY DEF SetMethod, NewRequest
<1>3. /\ SetVersion(SetURI(r, b), a).headers = r.headers
      /\ SetVersion(SetURI(r, b), a).headerKeyMap = r.headerKeyMap
  BY DEF SetVersion, SetURI, NewRequest
<1>4. /\ SetURI(r, b).headers = r.headers
      /\ SetURI(r, b).headerKeyMap = r.headerKeyMap
  BY DEF SetURI, NewRequest
<1>5. /\ AddQuery(r, a, b).headers = r.headers
      /\ AddQuery(r, a, b).headerKeyMap = r.headerKeyMap
  BY DEF AddQuery, NewRequest
<1> QED
  BY <1>1, <1>2, <1>3, <1>4, <1>5

LEMMA HeadersNext ==
  LineInv /\ HeadersInv(request, added) /\ [Next]_vars => HeadersInv(request, added)'
<1> SUFFICES ASSUME LineInv, HeadersInv(request, added), [Next]_vars
             PROVE  HeadersInv(request', added')
  BY DEF HeadersInv, IsFirst
<1>1. /\ TypeOK
      /\ DOMAIN request = DOMAIN NewRequest
      /\ added \in Seq(Seq(Characters) \X Seq(Characters))
  BY DEF LineInv, TypeOK
<1>2. CASE UNCHANGED <<request, added>>
  BY <1>2
<1>3. CASE ParseMethod
  BY <1>1, <1>2, <1>3, OthersKeepHeaders DEF ParseMethod, Fail
<1>4. CASE ScanQuery
  BY <1>1, <1>2, <1>4, OthersKeepHeaders DEF ScanQuery, Throw, Unexpected
<1>5. CASE ParseUriAndVersion
  BY <1>1, <1>2, <1>5, OthersKeepHeaders DEF ParseUriAndVersion, Throw, Fail
<1>6. CASE ParseHeaderLine
  <2>1. CASE Fail /\ UNCHANGED request
    BY <1>2, <2>1 DEF Fail
  <2>2. ASSUME NEW header \in Seq(Characters) \X Seq(Characters),
               request' = AddHeader(request, header[1], header[2]),
               added' = Append(added, header)
        PROVE  HeadersInv(request', added')
    BY <1>1, <2>2, AddKeepsHeaders
  <2> QED
    BY <1>1, <1>6, <2>1, <2>2, HeaderSteps
<1>7. CASE NextRequest \/ UNCHANGED vars
  BY <1>2, <1>7 DEF NextRequest, vars
<1> QED
  BY <1>3, <1>4, <1>5, <1>6, <1>7 DEF Next

LEMMA HeadersAreFound ==
  ASSUME TypeOK, HeadersInv(request, added)
  PROVE  HeaderFound
<1>1. ASSUME NEW j \in DOMAIN added, NEW name, name = Lower(added[j][1])
      PROVE  /\ name \in DOMAIN request.headerKeyMap
             /\ request.headerKeyMap[name] \in DOMAIN request.headers
             /\ GetHeader(request, added[j][1]) = added[FirstWithName(name)][2]
  <2>1. name \in DOMAIN request.headerKeyMap
    BY <1>1 DEF HeadersInv
  <2>2. PICK k \in DOMAIN added :
          /\ IsFirst(added, name, k)
          /\ request.headerKeyMap[name] = added[k][1]
          /\ added[k][1] \in DOMAIN request.headers
          /\ request.headers[added[k][1]] = added[k][2]
    BY <2>1 DEF HeadersInv
  <2>3. IsFirst(added, name, FirstWithName(name))
    BY <2>2 DEF IsFirst, FirstWithName
  <2>4. FirstWithName(name) = k
    BY <2>2, <2>3, FirstIsUnique DEF TypeOK
  <2>5. GetHeader(request, added[j][1]) = added[k][2]
    BY <1>1, <2>1, <2>2 DEF GetHeader
  <2> QED
    BY <2>1, <2>2, <2>4, <2>5
<1> QED
  BY <1>1 DEF HeaderFound

\* A header is found under any spelling of its name, with the value that came first on
\* the connection, and looking for it never throws.
THEOREM HeadersFound == Spec => []HeaderFound
<1>1. Init => HeadersInv(request, added)
  BY DEF Init, HeadersInv, NewRequest
<1>2. LineInv /\ HeadersInv(request, added) => HeaderFound
  BY HeadersAreFound DEF LineInv
<1> QED
  BY <1>1, <1>2, HeadersNext, LineInvariant, PTL DEF Spec

(***************************************************************************)
(* decode.                                                                 *)
(***************************************************************************)

\* What decode makes of s from position j on, given what it makes of the rest.
DecodesFrom(s, f, j) ==
  f[j] = IF j > Len(s) - 2 THEN <<>>
         ELSE IF s[j] = Percent THEN <<Byte(s[j + 1], s[j + 2])>> \o f[j + 3]
         ELSE <<s[j]>> \o f[j + 1]

\* The recursion is well-founded: there is such a function, built from the end.
LEMMA DecodingExists ==
  ASSUME NEW C, NEW s \in Seq(C)
  PROVE  \E f : /\ DOMAIN f = 1..(Len(s) + 1)
                /\ f = [j \in DOMAIN f |-> f[j]]
                /\ \A j \in 1..(Len(s) + 1) : DecodesFrom(s, f, j)
<1> DEFINE N == Len(s) + 1
           Built(f, m) == /\ DOMAIN f = 1..N
                          /\ f = [j \in DOMAIN f |-> f[j]]
                          /\ \A j \in (N + 1 - m)..N : DecodesFrom(s, f, j)
           G == {m \in 1..N : \E f : Built(f, m)}
<1>1. N \in Nat \ {0} /\ Len(s) = N - 1
  OBVIOUS
<1> HIDE DEF N
<1>2. 1 \in G
  <2> DEFINE f == [j \in 1..N |-> <<>>]
  <2>1. DOMAIN f = 1..N /\ f = [j \in DOMAIN f |-> f[j]]
    OBVIOUS
  <2>2. \A j \in (N + 1 - 1)..N : f[j] = <<>> /\ j > Len(s) - 2
    BY <1>1
  <2>3. \A j \in (N + 1 - 1)..N : DecodesFrom(s, f, j)
    BY <2>2 DEF DecodesFrom
  <2>4. Built(f, 1)
    BY <2>1, <2>3
  <2> HIDE DEF Built
  <2> QED
    BY <1>1, <2>4
<1>3. ASSUME NEW m \in 1..(N - 1), m \in G PROVE m + 1 \in G
  <2>1. PICK f : Built(f, m)
    BY <1>3
  <2> DEFINE k == N - m
             e == IF k > Len(s) - 2 THEN <<>>
                  ELSE IF s[k] = Percent THEN <<Byte(s[k + 1], s[k + 2])>> \o f[k + 3]
                  ELSE <<s[k]>> \o f[k + 1]
             g == [j \in 1..N |-> IF j = k THEN e ELSE f[j]]
  <2>2. k \in 1..N /\ N + 1 - (m + 1) = k /\ N + 1 - m = k + 1
    BY <1>1
  <2>3. DOMAIN g = 1..N /\ g = [j \in DOMAIN g |-> g[j]]
    OBVIOUS
  <2>4. g[k] = e /\ \A j \in (k + 1)..N : g[j] = f[j]
    BY <2>2
  <2> HIDE DEF g
  <2>5. DecodesFrom(s, g, k)
    <3>1. CASE k > Len(s) - 2
      BY <2>4, <3>1 DEF DecodesFrom
    <3>2. CASE ~(k > Len(s) - 2)
      <4>1. k + 1 \in (k + 1)..N /\ k + 3 \in (k + 1)..N
        BY <1>1, <2>2, <3>2
      <4>2. g[k + 1] = f[k + 1] /\ g[k + 3] = f[k + 3]
        BY <2>4, <4>1
      <4>3. g[k] = IF s[k] = Percent THEN <<Byte(s[k + 1], s[k + 2])>> \o g[k + 3]
                   ELSE <<s[k]>> \o g[k + 1]
        BY <2>4, <3>2, <4>2
      <4> HIDE DEF k
      <4> QED
        BY <3>2, <4>3, Zenon DEF DecodesFrom
    <3> QED
      BY <3>1, <3>2
  <2>6. ASSUME NEW j \in (k + 1)..N PROVE DecodesFrom(s, g, j)
    <3>1. DecodesFrom(s, f, j) /\ g[j] = f[j]
      BY <2>1, <2>2, <2>4, <2>6
    <3>2. CASE j > Len(s) - 2
      BY <3>1, <3>2 DEF DecodesFrom
    <3>3. CASE ~(j > Len(s) - 2)
      <4>1. j + 1 \in (k + 1)..N /\ j + 3 \in (k + 1)..N
        BY <1>1, <2>2, <3>3
      <4>2. g[j + 1] = f[j + 1] /\ g[j + 3] = f[j + 3]
        BY <2>4, <4>1
      <4> QED
        BY <3>1, <4>2, Zenon DEF DecodesFrom
    <3> QED
      BY <3>2, <3>3
  <2>7. \A j \in (N + 1 - (m + 1))..N : DecodesFrom(s, g, j)
    <3> SUFFICES ASSUME NEW j \in k..N PROVE DecodesFrom(s, g, j)
      BY <2>2
    <3>1. j = k \/ j \in (k + 1)..N
      BY <2>2
    <3> HIDE DEF k
    <3> QED
      BY <2>5, <2>6, <3>1
  <2>8. Built(g, m + 1)
    BY <2>3, <2>7
  <2> HIDE DEF Built, k
  <2> QED
    BY <1>1, <2>8
<1>4. 1..N \subseteq G
  <2> HIDE DEF G
  <2> QED
    BY <1>1, <1>2, <1>3, UpTo
<1>5. PICK f : Built(f, N)
  BY <1>1, <1>4
<1>6. N + 1 - N = 1
  BY <1>1
<1> QED
  BY <1>5, <1>6 DEF N

LEMMA DecodeSteps ==
  ASSUME NEW C, NEW s \in Seq(C)
  PROVE  \E f : /\ \A j \in 1..(Len(s) + 1) : DecodesFrom(s, f, j)
                /\ Decode(s) = f[1] \o LastTwo(s)
<1> DEFINE from == CHOOSE from :
                     from = [j \in 1..(Len(s) + 1) |->
                       IF j > Len(s) - 2 THEN <<>>
                       ELSE IF s[j] = Percent THEN <<Byte(s[j + 1], s[j + 2])>> \o from[j + 3]
                       ELSE <<s[j]>> \o from[j + 1]]
<1>1. Decode(s) = from[1] \o LastTwo(s)
  BY DEF Decode
<1>2. PICK f : /\ DOMAIN f = 1..(Len(s) + 1)
               /\ f = [j \in DOMAIN f |-> f[j]]
               /\ \A j \in 1..(Len(s) + 1) : DecodesFrom(s, f, j)
  BY DecodingExists
<1>3. f = [j \in 1..(Len(s) + 1) |->
             IF j > Len(s) - 2 THEN <<>>
             ELSE IF s[j] = Percent THEN <<Byte(s[j + 1], s[j + 2])>> \o f[j + 3]
             ELSE <<s[j]>> \o f[j + 1]]
  BY <1>2, Zenon DEF DecodesFrom
<1>4. from = [j \in 1..(Len(s) + 1) |->
                IF j > Len(s) - 2 THEN <<>>
                ELSE IF s[j] = Percent THEN <<Byte(s[j + 1], s[j + 2])>> \o from[j + 3]
                ELSE <<s[j]>> \o from[j + 1]]
  BY <1>3, Zenon
<1> HIDE DEF from
<1>5. \A j \in 1..(Len(s) + 1) : DecodesFrom(s, from, j)
  BY <1>4, Zenon DEF DecodesFrom
<1> QED
  BY <1>1, <1>5

LEMMA HexDigits ==
  ASSUME NEW c \in Int
  PROVE  HexValue(c) \in (-1)..15 /\ HexValue(Percent) = -1
BY DEF HexValue, Digits, Percent

LEMMA HexIsNumber == \A c \in Int : HexValue(c) \in Int
<1> SUFFICES ASSUME NEW c \in Int PROVE HexValue(c) \in Int
  OBVIOUS
<1>1. HexValue(c) \in (-1)..15
  BY HexDigits
<1> QED
  BY <1>1

\* Two digits are a number; a byte of anything else may be none.
LEMMA BytesOfDigits ==
  ASSUME NEW a \in Int, NEW b \in Int, HexValue(a) >= 0, HexValue(b) >= 0
  PROVE  Byte(a, b) = 16 * HexValue(a) + HexValue(b) /\ Byte(a, b) \in Nat
<1>1. HexValue(a) \in 0..15 /\ HexValue(b) \in 0..15
  BY HexDigits
<1>2. Byte(a, b) = 16 * HexValue(a) + HexValue(b)
  BY DEF Byte
<1> HIDE DEF HexValue, Byte
<1> QED
  BY <1>1, <1>2

LEMMA CharactersAreNumbers == Characters \subseteq Nat
BY DEF Characters, Methods, Versions

LEMMA LastTwoIsSeq ==
  ASSUME NEW C, NEW s \in Seq(C)
  PROVE  LastTwo(s) \in Seq(C)
<1>1. CASE Len(s) <= 2
  BY <1>1 DEF LastTwo
<1>2. CASE ~(Len(s) <= 2)
  <2>1. LastTwo(s) = SubSeq(s, Len(s) - 1, Len(s))
    BY <1>2 DEF LastTwo
  <2>2. \A l \in (Len(s) - 1)..Len(s) : s[l] \in C
    BY <1>2
  <2> QED
    BY <2>1, <2>2, SubSeqProperties
<1> QED
  BY <1>1, <1>2

LEMMA RestIsSeq ==
  ASSUME NEW S, NEW s \in Seq(S), NEW f,
         \A j \in 1..(Len(s) + 1) : DecodesFrom(s, f, j),
         \A j \in 1..(Len(s) - 2) : s[j] = Percent => Byte(s[j + 1], s[j + 2]) \in S
  PROVE  \A j \in 1..(Len(s) + 1) : f[j] \in Seq(S)
<1> DEFINE N == Len(s) + 1
<1>1. N \in Nat \ {0} /\ Len(s) = N - 1
  OBVIOUS
<1> HIDE DEF N
<1> DEFINE G == {m \in 1..N : \A j \in (N + 1 - m)..N : f[j] \in Seq(S)}
<1>2. ASSUME NEW j \in 1..N, \A l \in (j + 1)..N : f[l] \in Seq(S)
      PROVE  f[j] \in Seq(S)
  <2>1. DecodesFrom(s, f, j)
    BY DEF N
  <2>2. CASE j > Len(s) - 2
    <3>1. f[j] = <<>>
      BY <2>1, <2>2 DEF DecodesFrom
    <3> QED
      BY <3>1
  <2>3. CASE ~(j > Len(s) - 2)
    <3>1. /\ j \in 1..(Len(s) - 2)
          /\ j + 1 \in (j + 1)..N /\ j + 3 \in (j + 1)..N
          /\ j \in 1..Len(s)
      BY <1>1, <2>3
    <3>2. f[j + 1] \in Seq(S) /\ f[j + 3] \in Seq(S) /\ s[j] \in S
      BY <1>2, <3>1
    <3>3. CASE s[j] = Percent
      <4>1. Byte(s[j + 1], s[j + 2]) \in S
        BY <3>1, <3>3
      <4>2. f[j] = <<Byte(s[j + 1], s[j + 2])>> \o f[j + 3]
        BY <2>1, <2>3, <3>3, Zenon DEF DecodesFrom
      <4> QED
        BY <3>2, <4>1, <4>2
    <3>4. CASE s[j] # Percent
      <4>1. f[j] = <<s[j]>> \o f[j + 1]
        BY <2>1, <2>3, <3>4, Zenon DEF DecodesFrom
      <4> QED
        BY <3>2, <4>1
    <3> QED
      BY <3>3, <3>4
  <2> QED
    BY <2>2, <2>3
<1>3. 1 \in G
  <2>1. \A l \in (N + 1)..N : f[l] \in Seq(S)
    BY <1>1
  <2>2. f[N] \in Seq(S)
    BY <1>1, <1>2, <2>1
  <2>3. \A j \in (N + 1 - 1)..N : j = N
    BY <1>1
  <2> QED
    BY <1>1, <2>2, <2>3
<1>4. ASSUME NEW m \in 1..(N - 1), m \in G PROVE m + 1 \in G
  <2> DEFINE k == N - m
  <2>1. k \in 1..N /\ N + 1 - (m + 1) = k /\ N + 1 - m = k + 1 /\ m + 1 \in 1..N
    BY <1>1
  <2>2. \A l \in (k + 1)..N : f[l] \in Seq(S)
    BY <1>4, <2>1
  <2>3. f[k] \in Seq(S)
    BY <1>2, <2>1, <2>2
  <2>4. \A j \in k..N : j = k \/ j \in (k + 1)..N
    BY <2>1
  <2>5. \A j \in k..N : f[j] \in Seq(S)
    BY <2>2, <2>3, <2>4
  <2> QED
    BY <2>1, <2>5
<1>5. 1..N \subseteq G
  <2> HIDE DEF G
  <2> QED
    BY <1>1, <1>3, <1>4, UpTo
<1>6. N \in G /\ N + 1 - N = 1
  BY <1>1, <1>5
<1> QED
  BY <1>6 DEF N

\* stol throws only where a percent sign is not followed by two digits.
LEMMA ThrowsAtMalformed ==
  ASSUME NEW s \in Seq(Characters), DecodeThrows(s)
  PROVE  \E j \in 1..(Len(s) - 2) : s[j] = Percent /\ j \notin Escapes(s)
<1> SUFFICES ASSUME \A j \in 1..(Len(s) - 2) : s[j] = Percent => j \in Escapes(s)
             PROVE  FALSE
  OBVIOUS
<1>1. PICK f : /\ \A j \in 1..(Len(s) + 1) : DecodesFrom(s, f, j)
               /\ Decode(s) = f[1] \o LastTwo(s)
  BY DecodeSteps
<1>2. s \in Seq(Nat)
  BY CharactersAreNumbers, SeqMonotonic
<1>3. ASSUME NEW j \in 1..(Len(s) - 2), s[j] = Percent
      PROVE  Byte(s[j + 1], s[j + 2]) \in Nat
  <2>1. s[j + 1] \in Int /\ s[j + 2] \in Int
    BY <1>2
  <2>2. HexValue(s[j + 1]) >= 0 /\ HexValue(s[j + 2]) >= 0
    BY <1>3 DEF Escapes
  <2> QED
    BY <2>1, <2>2, BytesOfDigits
<1>4. f[1] \in Seq(Nat)
  BY <1>1, <1>2, <1>3, RestIsSeq
<1>5. LastTwo(s) \in Seq(Nat)
  BY <1>2, LastTwoIsSeq
<1>6. Decode(s) \in Seq(Nat)
  BY <1>1, <1>4, <1>5
<1>7. \A j \in DOMAIN Decode(s) : Decode(s)[j] # Bad
  BY <1>6 DEF Bad
<1> QED
  BY <1>7 DEF DecodeThrows

\* A part of the text that cannot be decoded has a malformed escape in it.
LEMMA ThrowsInText ==
  ASSUME TypeOK, NEW a \in Nat \ {0}, NEW b \in Nat, b <= Len(Text), a <= b + 1,
         DecodeThrows(SubSeq(Text, a, b))
  PROVE  \E p \in a..Len(Text) : Text[p] = Percent /\ p \notin Escapes(Text)
<1> DEFINE s == SubSeq(Text, a, b)
<1>1. Text \in Seq(Characters) /\ IsSequence(Text) /\ Len(Text) \in Nat
  BY TextIsText DEF IsSequence
<1>2. Len(s) = b + 1 - a /\ \A j \in 1..(b + 1 - a) : s[j] = Text[a - 1 + j]
  BY <1>1, SubSeqElements
<1>3. s \in Seq(Characters)
  <2>1. \A l \in a..b : Text[l] \in Characters
    BY <1>1
  <2> QED
    BY <2>1, SubSeqProperties
<1> HIDE DEF s
<1>4. PICK j \in 1..(Len(s) - 2) : s[j] = Percent /\ j \notin Escapes(s)
  BY <1>3, ThrowsAtMalformed DEF s
<1> DEFINE p == a - 1 + j
<1>5. /\ j \in 1..(b + 1 - a) /\ j + 1 \in 1..(b + 1 - a) /\ j + 2 \in 1..(b + 1 - a)
      /\ a - 1 + (j + 1) = p + 1 /\ a - 1 + (j + 2) = p + 2
  BY <1>2
<1>6. s[j] = Text[p] /\ s[j + 1] = Text[p + 1] /\ s[j + 2] = Text[p + 2]
  <2>1. s[j] = Text[a - 1 + j] /\ s[j + 1] = Text[a - 1 + (j + 1)]
          /\ s[j + 2] = Text[a - 1 + (j + 2)]
    BY <1>2, <1>5
  <2> QED
    BY <1>5, <2>1
<1>7. p \in a..Len(Text)
  BY <1>1, <1>5
<1> HIDE DEF p
<1>8. p \notin Escapes(Text)
  BY <1>4, <1>6 DEF Escapes
<1> QED
  BY <1>4, <1>6, <1>7, <1>8

\* The loop never comes before the URI, and an exception of stol has its reason.
UriInv ==
  /\ pc = "scan" => i >= UriStart(Text)
  /\ ThrowsOnlyIfMalformed

LEMMA UriAndQueryStart ==
  ASSUME TypeOK, MethodEnd(Text) # None
  PROVE  /\ UriStart(Text) \in Nat \ {0}
         /\ QueryStart(Text) # None => QueryStart(Text) \in UriStart(Text)..Len(Text)
         /\ QueryEnd(Text) # None => QueryEnd(Text) \in UriStart(Text)..Len(Text)
<1>1. Text \in Seq(Characters)
  BY TextIsText
<1>2. MethodEnd(Text) \in Nat
  BY <1>1, FindFromIsFirst DEF MethodEnd
<1>3. UriStart(Text) \in Nat \ {0}
  BY <1>2 DEF UriStart
<1> QED
  BY <1>1, <1>3, FindFromIsFirst DEF QueryStart, QueryEnd

\* What is malformed in a part of the text that begins in the URI or after it.
LEMMA MalformedThrows ==
  ASSUME TypeOK, MethodEnd(Text) # None,
         NEW a \in Nat \ {0}, NEW b \in Nat, b <= Len(Text), a <= b + 1,
         a >= UriStart(Text), DecodeThrows(SubSeq(Text, a, b)),
         Throw("invalid_argument")
  PROVE  UriInv'
<1>1. PICK p \in a..Len(Text) : Text[p] = Percent /\ p \notin Escapes(Text)
  BY ThrowsInText
<1>2. p \in UriStart(Text)..Len(Text)
  BY UriAndQueryStart, TextIsText
<1>3. ThrowsOnlyIfMalformed
  BY <1>1, <1>2 DEF ThrowsOnlyIfMalformed
<1>4. \E q \in UriStart(Text)..Len(Text) :
        Text[q] = Percent /\ (q + 2 <= Len(Text) => q \notin Escapes(Text))
  BY <1>1, <1>2
<1>5. Text' = Text /\ pc' = "thrown"
  BY DEF Throw, Text
<1> QED
  BY <1>4, <1>5 DEF UriInv, ThrowsOnlyIfMalformed

LEMMA UriNext == LineInv /\ UriInv /\ [Next]_vars => UriInv'
<1> SUFFICES ASSUME LineInv, UriInv, [Next]_vars PROVE UriInv'
  OBVIOUS
<1>1. TypeOK /\ LoopInv
  BY DEF LineInv
\* While no exception is thrown only the first part is at stake.
<1>2. ASSUME thrown = "nothing", UNCHANGED thrown,
             pc' = "scan" => i' >= UriStart(Text)'
      PROVE  UriInv'
  BY <1>2 DEF UriInv, ThrowsOnlyIfMalformed
<1>3. CASE ParseMethod
  <2>1. pc = "line" /\ thrown = "nothing" /\ UNCHANGED <<input, n, thrown>>
    BY <1>1, <1>3 DEF ParseMethod, LoopInv, Fail
  <2>2. Text' = Text
    BY <2>1 DEF Text
  <2>3. CASE pc' = "failed"
    BY <1>2, <2>1, <2>3
  <2>4. CASE pc' # "failed"
    <3>1. /\ MethodEnd(Text) # None /\ QueryEnd(Text) # None
          /\ i' = IF QueryStart(Text) = None THEN QueryEnd(Text) ELSE QueryStart(Text) + 1
      BY <1>3, <2>4 DEF ParseMethod, Fail
    <3>2. i' >= UriStart(Text)
      BY <1>1, <3>1, UriAndQueryStart
    <3> QED
      BY <1>2, <2>1, <2>2, <3>2
  <2> QED
    BY <2>3, <2>4
<1>4. CASE ScanQuery
  <2> DEFINE keyEnd == KeyCharsUntil(i, LineEnd(Text))
             valueEnd == KeyCharsUntil(keyEnd + 1, Len(Text) + 1)
             key == SubSeq(Text, i, keyEnd - 1)
             value == SubSeq(Text, keyEnd + 1, valueEnd - 1)
  <2>1. /\ pc = "scan" /\ i < QueryEnd(Text) /\ thrown = "nothing"
        /\ MethodEnd(Text) # None /\ QueryEnd(Text) # None /\ i # 0
        /\ i >= UriStart(Text)
    BY <1>1, <1>4 DEF ScanQuery, LoopInv, UriInv
  <2>2. /\ keyEnd \in i..QueryEnd(Text)
        /\ Text[keyEnd] = Equals =>
             /\ valueEnd \in (keyEnd + 1)..QueryEnd(Text)
             /\ SkipAmpersand(valueEnd) \in valueEnd..QueryEnd(Text)
    BY <1>1, <2>1, TurnStops
  <2>3. /\ i \in Nat \ {0} /\ QueryEnd(Text) \in Nat /\ UriStart(Text) \in Nat
        /\ QueryEnd(Text) <= Len(Text) /\ Len(Text) \in Nat
    BY <1>1, <2>1, SecondSpace, UriAndQueryStart, TextIsText DEF TypeOK, None
  <2> HIDE DEF keyEnd, valueEnd
  <2>4. CASE /\ Text[keyEnd] = Equals
             /\ Throw("invalid_argument")
             /\ DecodeThrows(key) \/ DecodeThrows(value)
    <3>1. CASE DecodeThrows(key)
      <4>1. keyEnd - 1 \in Nat /\ keyEnd - 1 <= Len(Text) /\ i <= (keyEnd - 1) + 1
        BY <2>2, <2>3
      <4> QED
        BY <1>1, <2>1, <2>3, <2>4, <3>1, <4>1, MalformedThrows
    <3>2. CASE DecodeThrows(value)
      <4>1. /\ keyEnd + 1 \in Nat \ {0} /\ keyEnd + 1 >= UriStart(Text)
            /\ valueEnd - 1 \in Nat /\ valueEnd - 1 <= Len(Text)
            /\ keyEnd + 1 <= (valueEnd - 1) + 1
        BY <2>1, <2>2, <2>3, <2>4
      <4> QED
        BY <1>1, <2>1, <2>3, <2>4, <3>2, <4>1, MalformedThrows
    <3> QED
      BY <2>4, <3>1, <3>2
  <2>5. CASE /\ UNCHANGED <<input, n, h, pc, added, thrown>>
             /\ \/ i' = keyEnd
                \/ Text[keyEnd] = Equals /\ i' = SkipAmpersand(valueEnd)
    <3>1. i' >= UriStart(Text)
      BY <2>1, <2>2, <2>3, <2>5
    <3>2. Text' = Text
      BY <2>5 DEF Text
    <3> QED
      BY <1>2, <2>1, <2>5, <3>1, <3>2
  <2>6. Text[keyEnd] = Equals => ~(valueEnd > Len(Text))
    BY <2>2, <2>3
  <2> QED
    BY <1>4, <2>4, <2>5, <2>6 DEF ScanQuery, Unexpected, keyEnd, valueEnd
<1>5. CASE ParseUriAndVersion
  <2> DEFINE uri == SubSeq(Text, UriStart(Text), UriEnd(Text) - 1)
  <2>1. /\ pc = "scan" /\ thrown = "nothing"
        /\ MethodEnd(Text) # None /\ QueryEnd(Text) # None
    BY <1>1, <1>5 DEF ParseUriAndVersion, LoopInv
  <2>2. CASE DecodeThrows(uri) /\ Throw("invalid_argument")
    <3>1. UriStart(Text) \in Nat \ {0} /\ UriEnd(Text) \in UriStart(Text)..Len(Text)
      BY <1>1, <2>1, UriAndQueryStart DEF UriEnd
    <3>2. /\ UriEnd(Text) - 1 \in Nat /\ UriEnd(Text) - 1 <= Len(Text)
          /\ UriStart(Text) <= (UriEnd(Text) - 1) + 1
          /\ UriStart(Text) >= UriStart(Text)
      BY <1>1, <3>1, TextIsText
    <3> QED
      BY <1>1, <2>1, <2>2, <3>1, <3>2, MalformedThrows
  <2>3. CASE Throw("length_error")
    BY <2>3 DEF Throw, UriInv, ThrowsOnlyIfMalformed
  <2>4. CASE pc' # "scan" /\ UNCHANGED thrown
    BY <1>2, <2>1, <2>4
  <2> QED
    BY <1>5, <2>2, <2>3, <2>4 DEF ParseUriAndVersion, Fail
<1>6. CASE ParseHeaderLine \/ NextRequest
  <2>1. pc = "headers" /\ thrown = "nothing" /\ UNCHANGED thrown /\ pc' # "scan"
    BY <1>1, <1>6 DEF ParseHeaderLine, Fail, NextRequest, LoopInv
  <2> QED
    BY <1>2, <2>1
<1>7. CASE UNCHANGED vars
  BY <1>7 DEF UriInv, ThrowsOnlyIfMalformed, Text, vars
<1> QED
  BY <1>3, <1>4, <1>5, <1>6, <1>7 DEF Next

\* stol throws on the ParserThread only for a percent sign without two digits, however
\* long the line and wherever the escape.
THEOREM OnlyMalformedThrow == Spec => []ThrowsOnlyIfMalformed
<1>1. Init => UriInv
  BY DEF Init, UriInv, ThrowsOnlyIfMalformed
<1>2. UriInv => ThrowsOnlyIfMalformed
  BY DEF UriInv
<1> QED
  BY <1>1, <1>2, UriNext, LineInvariant, PTL DEF Spec

(***************************************************************************)
(* decode against what a text says.                                        *)
(***************************************************************************)

\* What Unescaped makes of each character.
Pieces(s) ==
  [j \in DOMAIN s |->
    IF j \in Escapes(s) THEN <<16 * HexValue(s[j + 1]) + HexValue(s[j + 2])>>
    ELSE IF {j - 1, j - 2} \cap Escapes(s) # {} THEN <<>> ELSE <<s[j]>>]

\* No escape begins within another.
LEMMA EscapesApart ==
  ASSUME NEW s \in Seq(Int), NEW j \in Escapes(s)
  PROVE  /\ j \in 1..(Len(s) - 2)
         /\ j - 1 \notin Escapes(s) /\ j - 2 \notin Escapes(s)
         /\ j + 1 \notin Escapes(s) /\ j + 2 \notin Escapes(s)
<1>1. HexValue(Percent) = -1
  BY HexDigits
<1>2. \A k \in Escapes(s) :
        /\ k \in 1..(Len(s) - 2)
        /\ s[k] = Percent /\ s[k + 1] # Percent /\ s[k + 2] # Percent
  <2> SUFFICES ASSUME NEW k \in Escapes(s)
               PROVE  /\ k \in 1..(Len(s) - 2)
                      /\ s[k] = Percent /\ s[k + 1] # Percent /\ s[k + 2] # Percent
    OBVIOUS
  <2>1. /\ k \in 1..(Len(s) - 2) /\ s[k] = Percent
        /\ HexValue(s[k + 1]) >= 0 /\ HexValue(s[k + 2]) >= 0
    BY DEF Escapes
  <2>2. ~(HexValue(Percent) >= 0)
    BY ONLY <1>1
  <2> QED
    BY <2>1, <2>2, Zenon
<1>3. (j - 1) + 1 = j /\ (j - 2) + 2 = j
  BY <1>2
<1>4. ASSUME j - 1 \in Escapes(s) \/ j - 2 \in Escapes(s) PROVE FALSE
  <2>1. s[(j - 1) + 1] # Percent \/ s[(j - 2) + 2] # Percent
    BY <1>2, <1>4
  <2> QED
    BY <1>2, <1>3, <2>1
<1>5. ASSUME j + 1 \in Escapes(s) \/ j + 2 \in Escapes(s) PROVE FALSE
  BY <1>2, <1>5
<1> QED
  BY <1>2, <1>4, <1>5

LEMMA PieceOf ==
  ASSUME NEW s \in Seq(Int)
  PROVE  /\ Pieces(s) \in Seq(Seq(Int)) /\ Len(Pieces(s)) = Len(s)
         /\ \A j \in 1..Len(s) :
              Pieces(s)[j] =
                IF j \in Escapes(s) THEN <<16 * HexValue(s[j + 1]) + HexValue(s[j + 2])>>
                ELSE IF {j - 1, j - 2} \cap Escapes(s) # {} THEN <<>> ELSE <<s[j]>>
         /\ Unescaped(s) = FlattenSeq(Pieces(s))
<1>1. Unescaped(s) = FlattenSeq(Pieces(s))
  BY Zenon DEF Unescaped, Pieces
<1>2. DOMAIN s = 1..Len(s) /\ Len(s) \in Nat
  OBVIOUS
<1>3. \A j \in 1..Len(s) :
        Pieces(s)[j] =
          IF j \in Escapes(s) THEN <<16 * HexValue(s[j + 1]) + HexValue(s[j + 2])>>
          ELSE IF {j - 1, j - 2} \cap Escapes(s) # {} THEN <<>> ELSE <<s[j]>>
  BY <1>2, Zenon DEF Pieces
<1>4. ASSUME NEW j \in 1..Len(s) PROVE Pieces(s)[j] \in Seq(Int)
  <2>1. CASE j \in Escapes(s)
    <3>1. j \in 1..(Len(s) - 2)
      BY <2>1, EscapesApart
    <3>2. s[j + 1] \in Int /\ s[j + 2] \in Int
      BY <3>1
    <3>3. HexValue(s[j + 1]) \in Int /\ HexValue(s[j + 2]) \in Int
      BY <3>2, HexIsNumber
    <3>4. Pieces(s)[j] = <<16 * HexValue(s[j + 1]) + HexValue(s[j + 2])>>
      BY <1>3, <2>1
    <3> QED
      BY <3>3, <3>4
  <2>2. CASE j \notin Escapes(s)
    <3>1. Pieces(s)[j] = <<>> \/ Pieces(s)[j] = <<s[j]>>
      BY <1>3, <2>2, Zenon
    <3>2. s[j] \in Int
      OBVIOUS
    <3>3. <<>> \in Seq(Int) /\ <<s[j]>> \in Seq(Int)
      BY ONLY <3>2
    <3> QED
      BY ONLY <3>1, <3>3, Zenon
  <2> QED
    BY <2>1, <2>2
<1>5. Pieces(s) = [j \in 1..Len(s) |-> Pieces(s)[j]]
  BY <1>2, Zenon DEF Pieces
<1>6. Pieces(s) \in Seq(Seq(Int)) /\ Len(Pieces(s)) = Len(s)
  <2> DEFINE t == Pieces(s)
  <2>1. t = [j \in 1..Len(s) |-> t[j]] /\ \A j \in 1..Len(s) : t[j] \in Seq(Int)
    BY <1>4, <1>5
  <2> HIDE DEF t
  <2>2. t \in [1..Len(s) -> Seq(Int)]
    BY <2>1
  <2>3. t \in Seq(Seq(Int)) /\ Len(t) = Len(s)
    BY <1>2, <2>2
  <2> QED
    BY <2>3 DEF t
<1> QED
  BY <1>1, <1>3, <1>6

Groups(U, d) ==
  \A a, b, c \in U : a \o ((b \o c) \o d) = (a \o b) \o (c \o d)

LEMMA Regroup ==
  ASSUME NEW S, NEW d \in Seq(S)
  PROVE  Groups(Seq(S), d)
<1> SUFFICES ASSUME NEW a \in Seq(S), NEW b \in Seq(S), NEW c \in Seq(S)
             PROVE  a \o ((b \o c) \o d) = (a \o b) \o (c \o d)
  BY DEF Groups
<1>1. (b \o c) \o d = b \o (c \o d)
  OBVIOUS
<1>2. PICK e \in Seq(S) : e = c \o d
  <2>1. c \o d \in Seq(S)
    OBVIOUS
  <2> QED
    BY <2>1, Zenon
<1>3. (a \o b) \o e = a \o (b \o e)
  OBVIOUS
<1> QED
  BY <1>1, <1>2, <1>3, Zenon

\* decode does what it should, unless an escape is too close to the end.
LEMMA DecodeIsRight ==
  ASSUME NEW s \in Seq(Characters), Decodable(s)
  PROVE  Decode(s) = Unescaped(s)
<1> DEFINE E == Escapes(s)
           ss == Pieces(s)
<1>0. PICK L \in Nat : L = Len(s)
  OBVIOUS
<1>1. s \in Seq(Int) /\ L \in Nat
  <2>1. Characters \subseteq Int
    BY CharactersAreNumbers
  <2> QED
    BY <2>1, SeqMonotonic
<1>7. PICK T \in Seq(Int) : T = LastTwo(s)
  BY <1>1, LastTwoIsSeq
<1>2. PICK f : /\ \A j \in 1..(L + 1) : DecodesFrom(s, f, j)
               /\ Decode(s) = f[1] \o T
  BY <1>0, <1>7, DecodeSteps
<1>3. PICK P : /\ P[0] = <<>>
               /\ \A j \in 1..L : P[j] = P[j - 1] \o ss[j]
               /\ Unescaped(s) = P[L]
  <2>1. ss \in Seq(Seq(Int)) /\ Len(ss) = L /\ Unescaped(s) = FlattenSeq(ss)
    BY <1>0, <1>1, PieceOf
  <2> HIDE DEF ss
  <2> QED
    BY <2>1, FlattenParts
<1>4. \A j \in 1..L :
        ss[j] = IF j \in E THEN <<16 * HexValue(s[j + 1]) + HexValue(s[j + 2])>>
                ELSE IF {j - 1, j - 2} \cap E # {} THEN <<>> ELSE <<s[j]>>
  BY <1>0, <1>1, PieceOf
<1>5. \A j \in E : /\ j \in 1..(L - 2)
                   /\ s[j] = Percent
                   /\ Byte(s[j + 1], s[j + 2]) = 16 * HexValue(s[j + 1]) + HexValue(s[j + 2])
                   /\ Byte(s[j + 1], s[j + 2]) \in Int
  <2> SUFFICES ASSUME NEW j \in E
               PROVE  /\ j \in 1..(L - 2)
                      /\ s[j] = Percent
                      /\ Byte(s[j + 1], s[j + 2]) = 16 * HexValue(s[j + 1]) + HexValue(s[j + 2])
                      /\ Byte(s[j + 1], s[j + 2]) \in Int
    OBVIOUS
  <2>1. /\ j \in 1..(L - 2) /\ s[j] = Percent
        /\ HexValue(s[j + 1]) >= 0 /\ HexValue(s[j + 2]) >= 0
    BY <1>0 DEF Escapes
  <2>2. s[j + 1] \in Int /\ s[j + 2] \in Int
    BY <1>0, <1>1, <2>1
  <2> HIDE DEF E
  <2> QED
    BY <2>1, <2>2, BytesOfDigits
<1>6. \A j \in 1..L : ss[j] \in Seq(Int) /\ s[j] \in Int
  BY <1>0, <1>1, PieceOf
<1>17. \A x, y, z \in Seq(Int) : x \o ((y \o z) \o T) = (x \o y) \o (z \o T)
  <2>1. Groups(Seq(Int), T)
    BY <1>7, Regroup
  <2> QED
    BY <2>1, Zenon DEF Groups
\* The parts are sequences, from the front and from the end.
<1>8. \A j \in 0..L : P[j] \in Seq(Int)
  <2> DEFINE G == {m \in 1..(L + 1) : P[m - 1] \in Seq(Int)}
  <2>1. 1 \in G
    <3>1. 1 - 1 = 0 /\ 1 \in 1..(L + 1)
      BY ONLY <1>1
    <3>2. P[1 - 1] = <<>>
      BY <1>3, <3>1, Zenon
    <3>3. P[1 - 1] \in Seq(Int)
      <4>1. <<>> \in Seq(Int)
        OBVIOUS
      <4> QED
        BY <3>2, <4>1, Zenon
    <3> QED
      BY <3>1, <3>3
  <2>2. ASSUME NEW m \in 1..((L + 1) - 1), m \in G PROVE m + 1 \in G
    <3>1. m \in 1..L /\ (m + 1) - 1 = m /\ m + 1 \in 1..(L + 1)
      BY <1>1
    <3>2. P[m] = P[m - 1] \o ss[m] /\ P[m - 1] \in Seq(Int) /\ ss[m] \in Seq(Int)
      BY <1>3, <1>6, <2>2, <3>1
    <3>3. P[m] \in Seq(Int)
      BY <3>2
    <3> QED
      BY <3>1, <3>3
  <2>3. L + 1 \in Nat
    BY <1>1
  <2> HIDE DEF G
  <2>4. 1..(L + 1) \subseteq G
    BY <2>1, <2>2, <2>3, UpTo
  <2>5. ASSUME NEW j \in 0..L PROVE P[j] \in Seq(Int)
    <3>1. j + 1 \in G /\ (j + 1) - 1 = j
      BY <1>1, <2>4
    <3> QED
      BY <3>1 DEF G
  <2> QED
    BY <2>5
<1>10. \A j \in 1..L : s[j] = Percent => j \in E
  BY <1>0 DEF Decodable, WellEscaped
<1>9. \A j \in 1..(L + 1) : f[j] \in Seq(Int)
  <2>1. \A j \in 1..(L - 2) : s[j] = Percent => Byte(s[j + 1], s[j + 2]) \in Int
    <3>1. \A j \in 1..(L - 2) : j \in 1..L
      BY <1>1
    <3> HIDE DEF E
    <3> QED
      BY <1>5, <1>10, <3>1, Zenon
  <2> QED
    BY <1>0, <1>1, <1>2, <2>1, RestIsSeq
<1>11. L - 2 \notin E /\ L - 3 \notin E
  BY <1>0 DEF Decodable, EndsWithEscape
<1>12. \A j \in E : {j - 1, j - 2, j + 1, j + 2} \cap E = {}
  BY <1>1, EscapesApart
<1>13. CASE L = 0
  <2>1. T = <<>> /\ f[1] = <<>>
    <3>1. DecodesFrom(s, f, 1)
      BY <1>2, <1>13
    <3>2. s = <<>>
      <4>1. Len(s) = 0
        BY <1>0, <1>13
      <4> QED
        BY <4>1, EmptySeq
    <3> QED
      BY <1>0, <1>7, <1>13, <3>1, <3>2 DEF LastTwo, DecodesFrom
  <2> QED
    BY <1>2, <1>3, <1>13, <2>1
<1>14. CASE L = 1
  <2>1. T = s /\ f[1] = <<>>
    <3>1. DecodesFrom(s, f, 1)
      BY <1>2, <1>14
    <3>2. Len(s) = 1 /\ Len(s) <= 2 /\ 1 > Len(s) - 2
      BY <1>0, <1>14
    <3> QED
      BY <1>7, <3>1, <3>2, Zenon DEF LastTwo, DecodesFrom
  <2>2. E = {}
    BY <1>5, <1>14
  <2>3. P[1] = P[0] \o ss[1] /\ ss[1] = <<s[1]>>
    <3>1. 1 \in 1..L /\ 1 - 1 = 0
      BY ONLY <1>14
    <3>2. ss[1] = <<s[1]>>
      BY <1>4, <2>2, <3>1
    <3>3. P[1] = P[1 - 1] \o ss[1]
      BY <1>3, <3>1
    <3> QED
      BY <3>1, <3>2, <3>3
  <2>4. s = <<s[1]>>
    <3>1. Len(s) = 1
      BY <1>0, <1>14
    <3> QED
      BY <1>1, <3>1
  <2>5. Decode(s) = <<>> \o s /\ Unescaped(s) = <<>> \o s
    BY <1>2, <1>3, <1>14, <2>1, <2>3, <2>4
  <2> QED
    BY <2>5
<1>15. CASE L >= 2
  <2>1. T = <<s[L - 1]>> \o <<s[L]>>
    <3>1. CASE L = 2
      <4>1. T = s /\ L - 1 = 1
        BY <1>0, <1>7, <3>1 DEF LastTwo
      <4>2. s = <<s[1], s[2]>>
        <5>1. Len(s) = 2
          BY <1>0, <3>1
        <5> QED
          BY <1>1, <5>1
      <4> QED
        BY <1>1, <3>1, <4>1, <4>2
    <3>2. CASE L # 2
      <4>1. T = SubSeq(s, L - 1, L)
        BY <1>0, <1>7, <1>15, <3>2 DEF LastTwo
      <4>2. /\ Len(T) = 2 /\ T \in Seq(Int)
            /\ \A j \in 1..2 : T[j] = s[(L - 1) - 1 + j]
        <5>1. L - 1 \in Nat \ {0} /\ L - 1 <= L + 1 /\ L + 1 - (L - 1) = 2
          BY ONLY <1>1, <1>15
        <5>2. IsSequence(s)
          BY DEF IsSequence
        <5>3. L \in Nat /\ L <= Len(s)
          BY <1>0, <1>1
        <5> QED
          BY <4>1, <5>1, <5>2, <5>3, SubSeqElements
      <4>3. T[1] = s[L - 1] /\ T[2] = s[L]
        <5>1. (L - 1) - 1 + 1 = L - 1 /\ (L - 1) - 1 + 2 = L
          BY <1>1
        <5> QED
          BY <4>2, <5>1
      <4>4. T = <<T[1], T[2]>>
        BY <4>2
      <4> QED
        BY <4>2, <4>3, <4>4
    <3> QED
      BY <3>1, <3>2
  <2> DEFINE Starts(j) == j - 1 \notin E /\ j - 2 \notin E
             Right(j) == Starts(j) => Decode(s) = P[j - 1] \o (f[j] \o T)
             G == {j \in 1..(L - 1) : \A k \in 1..j : Right(k)}
  <2>2. 1 \in G
    <3>1. 1 \in 1..(L - 1) /\ 1 - 1 = 0 /\ \A k \in 1..1 : k = 1
      BY <1>1, <1>15
    <3>2. f[1] \o T \in Seq(Int)
      BY <1>1, <1>7, <1>9
    <3>3. <<>> \o (f[1] \o T) = f[1] \o T
      BY <3>2
    <3>4. Decode(s) = P[1 - 1] \o (f[1] \o T)
      BY <1>2, <1>3, <3>1, <3>3
    <3> QED
      BY <3>1, <3>4
  <2>3. ASSUME NEW j \in 1..((L - 1) - 1), j \in G PROVE j + 1 \in G
    <3>1. /\ j \in 1..(L - 2) /\ j + 1 \in 1..(L - 1)
          /\ (j + 1) - 1 = j /\ (j + 1) - 2 = j - 1
          /\ \A k \in 1..(j + 1) : k \in 1..j \/ k = j + 1
          /\ j \in 1..L /\ j - 1 \in 0..L /\ j \in 1..(L + 1) /\ j + 1 \in 1..(L + 1)
          /\ ~(j > L - 2)
      BY <1>1
    <3>2. \A k \in 1..j : Right(k)
      BY <2>3
    <3>3. ASSUME Starts(j + 1) PROVE Decode(s) = P[(j + 1) - 1] \o (f[j + 1] \o T)
      <4>1. j \notin E /\ j - 1 \notin E
        BY <3>1, <3>3
      <4>2. CASE j - 2 \notin E
        <5>1. Decode(s) = P[j - 1] \o (f[j] \o T)
          <6>1. Right(j)
            <7> HIDE DEF Right
            <7>1. j \in 1..j
              BY <3>1
            <7> QED
              BY <3>2, <7>1
          <6> QED
            BY <4>1, <4>2, <6>1
        <5>2. f[j] = <<s[j]>> \o f[j + 1]
          <6>1. DecodesFrom(s, f, j) /\ s[j] # Percent
            BY <1>2, <1>10, <3>1, <4>1
          <6> QED
            BY <1>0, <3>1, <6>1, Zenon DEF DecodesFrom
        <5>3. P[j] = P[j - 1] \o <<s[j]>>
          BY <1>3, <1>4, <3>1, <4>1, <4>2
        <5>4. /\ P[j - 1] \in Seq(Int) /\ <<s[j]>> \in Seq(Int)
              /\ f[j + 1] \in Seq(Int)
          BY <1>6, <1>8, <1>9, <3>1
        <5>5. P[j - 1] \o ((<<s[j]>> \o f[j + 1]) \o T)
                = (P[j - 1] \o <<s[j]>>) \o (f[j + 1] \o T)
          BY <1>17, <5>4, Zenon
        <5> QED
          BY <3>1, <5>1, <5>2, <5>3, <5>5
      <4>3. CASE j - 2 \in E
        <5> DEFINE k == j - 2
                   b == Byte(s[k + 1], s[k + 2])
        <5>1. /\ k \in 1..(L - 2) /\ k + 1 = j - 1 /\ k + 2 = j /\ k + 3 = j + 1
              /\ k \in 1..j /\ k \in 1..L /\ k + 1 \in 1..L /\ k + 2 \in 1..L
              /\ (k + 1) - 1 = k /\ (k + 2) - 1 = k + 1 /\ (k + 2) - 2 = k
              /\ ~(k > L - 2)
              /\ k - 1 \in 0..L /\ k + 3 \in 1..(L + 1) /\ k \in 1..(L + 1)
          BY <1>1, <1>5, <3>1, <4>3
        <5>2. k \in E
          BY <4>3
        <5> HIDE DEF k
        <5>3. /\ k - 1 \notin E /\ k - 2 \notin E
              /\ k + 1 \notin E /\ k + 2 \notin E
          BY <1>12, <5>2
        <5>4. Decode(s) = P[k - 1] \o (f[k] \o T)
          <6>1. Right(k)
            <7> HIDE DEF Right
            <7> QED
              BY <3>2, <5>1
          <6> QED
            BY <5>3, <6>1
        <5>5. f[k] = <<b>> \o f[k + 3]
          <6>1. DecodesFrom(s, f, k) /\ s[k] = Percent
            BY <1>2, <1>5, <5>1, <5>2
          <6> QED
            BY <1>0, <5>1, <6>1, Zenon DEF DecodesFrom
        <5>6. /\ b \in Int
              /\ b = 16 * HexValue(s[k + 1]) + HexValue(s[k + 2])
          BY <1>5, <5>2
        <5> HIDE DEF b
        <5>7. ss[k] = <<b>> /\ ss[k + 1] = <<>> /\ ss[k + 2] = <<>>
          <6>1. ss[k] = <<16 * HexValue(s[k + 1]) + HexValue(s[k + 2])>>
            BY <1>4, <5>1, <5>2
          <6>2. ss[k + 1] = <<>>
            <7>1. {(k + 1) - 1, (k + 1) - 2} \cap E # {}
              BY <5>1, <5>2
            <7> QED
              BY <1>4, <5>1, <5>3, <7>1
          <6>3. ss[k + 2] = <<>>
            <7>1. {(k + 2) - 1, (k + 2) - 2} \cap E # {}
              BY <5>1, <5>2
            <7> QED
              BY <1>4, <5>1, <5>3, <7>1
          <6> QED
            BY <5>6, <6>1, <6>2, <6>3
        <5>8. P[k - 1] \in Seq(Int) /\ f[k + 3] \in Seq(Int) /\ <<b>> \in Seq(Int)
          BY <1>8, <1>9, <5>1, <5>6
        <5>9. P[k + 2] = P[k - 1] \o <<b>>
          <6>1. P[k] = P[k - 1] \o <<b>>
            BY <1>3, <5>1, <5>7
          <6>2. P[k + 1] = P[k] \o <<>> /\ P[k + 2] = P[k + 1] \o <<>>
            BY <1>3, <5>1, <5>7
          <6>3. P[k] \in Seq(Int)
            BY <5>8, <6>1
          <6> QED
            BY <6>1, <6>2, <6>3
        <5>10. P[k - 1] \o ((<<b>> \o f[k + 3]) \o T)
                 = (P[k - 1] \o <<b>>) \o (f[k + 3] \o T)
          BY <1>17, <5>8, Zenon
        <5> QED
          BY <3>1, <5>1, <5>4, <5>5, <5>9, <5>10
      <4> QED
        BY <4>2, <4>3
    <3>4. \A k \in 1..(j + 1) : Right(k)
      <4> HIDE DEF Starts
      <4>1. Right(j + 1)
        BY <3>3
      <4> HIDE DEF Right
      <4> QED
        BY <3>1, <3>2, <4>1
    <3> HIDE DEF Right
    <3> QED
      BY <3>1, <3>4
  <2>4. 1..(L - 1) \subseteq G
    <3>1. L - 1 \in Nat
      BY <1>1, <1>15
    <3> HIDE DEF G
    <3> QED
      BY <2>2, <2>3, <3>1, UpTo
  <2>5. Decode(s) = P[L - 2] \o (f[L - 1] \o T)
    <3>1. L - 1 \in G /\ L - 1 \in 1..(L - 1) /\ (L - 1) - 1 = L - 2 /\ (L - 1) - 2 = L - 3
      <4>1. L - 1 \in 1..(L - 1) /\ (L - 1) - 1 = L - 2 /\ (L - 1) - 2 = L - 3
        BY ONLY <1>1, <1>15
      <4> HIDE DEF G
      <4> QED
        BY <2>4, <4>1
    <3>2. Right(L - 1)
      <4> HIDE DEF Right
      <4> QED
        BY <3>1
    <3>3. Starts(L - 1)
      BY <1>11, <3>1
    <3> QED
      BY <3>1, <3>2, <3>3
  <2>6. f[L - 1] = <<>>
    <3>1. DecodesFrom(s, f, L - 1) /\ L - 1 > L - 2
      BY <1>1, <1>2, <1>15
    <3> QED
      BY <1>0, <3>1 DEF DecodesFrom
  <2>7. P[L] = (P[L - 2] \o <<s[L - 1]>>) \o <<s[L]>>
    <3>1. /\ L \in 1..L /\ L - 1 \in 1..L /\ (L - 1) - 1 = L - 2 /\ (L - 1) - 2 = L - 3
          /\ L - 1 \notin E /\ L \notin E
      BY <1>1, <1>5, <1>15
    <3>2. ss[L] = <<s[L]>> /\ ss[L - 1] = <<s[L - 1]>>
      <4>1. {L - 1, L - 2} \cap E = {} /\ {(L - 1) - 1, (L - 1) - 2} \cap E = {}
        BY <1>11, <3>1
      <4> QED
        BY <1>4, <3>1, <4>1
    <3> QED
      BY <1>3, <3>1, <3>2
  <2>8. /\ P[L - 2] \in Seq(Int)
        /\ <<s[L - 1]>> \in Seq(Int) /\ <<s[L]>> \in Seq(Int)
    <3>1. L - 2 \in 0..L /\ L - 1 \in 1..L /\ L \in 1..L
      BY <1>1, <1>15
    <3> QED
      BY <1>6, <1>8, <3>1
  <2>9. (P[L - 2] \o <<s[L - 1]>>) \o <<s[L]>> = P[L - 2] \o T
    BY <2>1, <2>8, ConcatAssociative
  <2>10. <<>> \o T = T
    BY <1>7
  <2> QED
    BY <1>3, <2>5, <2>6, <2>7, <2>9, <2>10
<1>16. L = 0 \/ L = 1 \/ L >= 2
  BY ONLY <1>1
<1> QED
  BY <1>13, <1>14, <1>15, <1>16

\* When a line has been parsed the request has its path, decoded.
PathInv ==
  pc = "headers" =>
    /\ MethodEnd(Text) # None /\ QueryEnd(Text) # None
    /\ request.uri = Decode(SubSeq(Text, UriStart(Text), UriEnd(Text) - 1))

LEMMA PathNext == LineInv /\ PathInv /\ [Next]_vars => PathInv'
<1> SUFFICES ASSUME LineInv, PathInv, [Next]_vars, pc' = "headers" PROVE PathInv'
  BY DEF PathInv
<1>1. TypeOK /\ LoopInv
  BY DEF LineInv
<1>2. CASE ParseMethod
  BY <1>2 DEF ParseMethod, Fail
<1>3. CASE ScanQuery
  BY <1>3 DEF ScanQuery, Throw, Unexpected
<1>4. CASE ParseUriAndVersion
  <2> DEFINE uri == SubSeq(Text, UriStart(Text), UriEnd(Text) - 1)
             word == SubSeq(Text, QueryEnd(Text) + 1, LineEnd(Text) - 1)
  <2>1. /\ pc = "scan"
        /\ request' = SetVersion(SetURI(request, Decode(uri)), word)
        /\ UNCHANGED <<input, n>>
    BY <1>4 DEF ParseUriAndVersion, Throw, Fail
  <2>2. MethodEnd(Text) # None /\ QueryEnd(Text) # None
    BY <1>1, <2>1 DEF LoopInv
  <2>3. DOMAIN request = DOMAIN NewRequest
    BY <1>1 DEF TypeOK
  <2>4. request'.uri = Decode(uri)
    <3> HIDE DEF uri, word
    <3> QED
      BY <2>1, <2>3 DEF SetVersion, SetURI, NewRequest
  <2>5. Text' = Text
    BY <2>1 DEF Text
  <2> QED
    BY <2>2, <2>4, <2>5 DEF PathInv
<1>5. CASE ParseHeaderLine
  <2>1. /\ pc = "headers" /\ UNCHANGED <<input, n>>
        /\ request' = request \/ \E a, b : request' = AddHeader(request, a, b)
    BY <1>5, Zenon DEF ParseHeaderLine, Fail
  <2>2. request'.uri = request.uri
    BY <1>1, <2>1 DEF AddHeader, TypeOK, NewRequest
  <2>3. Text' = Text
    BY <2>1 DEF Text
  <2> QED
    BY <2>1, <2>2, <2>3 DEF PathInv
<1>6. CASE NextRequest
  BY <1>6 DEF NextRequest
<1>7. CASE UNCHANGED vars
  BY <1>7 DEF vars, PathInv, Text
<1> QED
  BY <1>2, <1>3, <1>4, <1>5, <1>6, <1>7 DEF Next

\* A part of the text is text.
LEMMA PartsAreText ==
  ASSUME TypeOK, NEW a \in Nat \ {0}, NEW b \in Nat, b <= Len(Text)
  PROVE  SubSeq(Text, a, b) \in Seq(Characters)
<1>1. Text \in Seq(Characters)
  BY TextIsText
<1>2. \A l \in a..b : Text[l] \in Characters
  BY <1>1
<1> QED
  BY <1>2, SubSeqProperties

\* The request has the path of its line, decoded, unless its last escape is too close
\* to the end, or a question mark after the line's URI is taken for the start of its
\* query: for any line, not only those of the run.
THEOREM PathIsRight == Spec => []UriRight
<1>1. Init => PathInv
  BY DEF Init, PathInv
<1>2. LineInv /\ PathInv => UriRight
  <2> SUFFICES ASSUME TypeOK, PathInv, pc = "headers", Decodable(Path(Text)),
                      QueryStart(Text) = None \/ HasQuery(Text)
               PROVE  request.uri = Unescaped(Path(Text))
    BY DEF LineInv, UriRight
  <2>1. /\ MethodEnd(Text) # None /\ QueryEnd(Text) # None
        /\ request.uri = Decode(SubSeq(Text, UriStart(Text), UriEnd(Text) - 1))
    BY DEF PathInv
  <2>2. Path(Text) = SubSeq(Text, UriStart(Text), UriEnd(Text) - 1)
    <3>1. UriEnd(Text) = IF HasQuery(Text) THEN QueryStart(Text) ELSE QueryEnd(Text)
      BY Zenon DEF UriEnd, HasQuery
    <3> QED
      BY <3>1, Zenon DEF Path
  <2>3. UriStart(Text) \in Nat \ {0} /\ UriEnd(Text) \in UriStart(Text)..Len(Text)
    BY <2>1, UriAndQueryStart DEF UriEnd
  <2>4. UriEnd(Text) - 1 \in Nat /\ UriEnd(Text) - 1 <= Len(Text)
    BY <2>3, TextIsText
  <2>5. Path(Text) \in Seq(Characters)
    BY <2>2, <2>3, <2>4, PartsAreText
  <2> QED
    BY <2>1, <2>2, <2>5, DecodeIsRight
<1> QED
  BY <1>1, <1>2, PathNext, LineInvariant, PTL DEF Spec

(***************************************************************************)
(* The parameters of the connection.                                       *)
(***************************************************************************)

LEMMA FindFromLeast ==
  ASSUME NEW text \in Seq(Characters), NEW chars, NEW p \in Nat \ {0},
         NEW k \in p..Len(text), text[k] \in chars
  PROVE  /\ FindFrom(text, chars, p) \in p..Len(text)
         /\ text[FindFrom(text, chars, p)] \in chars
         /\ \A l \in p..(FindFrom(text, chars, p) - 1) : text[l] \notin chars
<1>1. \E q \in p..Len(text) :
        text[q] \in chars /\ \A l \in p..(q - 1) : text[l] \notin chars
  <2>1. p \in Nat /\ Len(text) \in Int
    OBVIOUS
  <2> QED
    BY ONLY <2>1, k \in p..Len(text), text[k] \in chars, FirstExists
<1> QED
  BY <1>1, Zenon DEF FindFrom

LEMMA FoundFirst ==
  ASSUME NEW text \in Seq(Characters), NEW chars, NEW p \in Nat \ {0},
         NEW k \in p..Len(text), text[k] \in chars,
         \A l \in p..(k - 1) : text[l] \notin chars
  PROVE  FindFrom(text, chars, p) = k
<1> DEFINE c == FindFrom(text, chars, p)
<1>1. /\ c \in p..Len(text) /\ text[c] \in chars
      /\ \A l \in p..(c - 1) : text[l] \notin chars
  BY FindFromLeast
<1> HIDE DEF c
<1>2. ~(c < k)
  <2>1. c < k => c \in p..(k - 1)
    BY <1>1
  <2> QED
    BY <1>1, <2>1
<1>3. ~(k < c)
  <2>1. k < c => k \in p..(c - 1)
    BY <1>1
  <2> QED
    BY <1>1, <2>1
<1>4. c = k
  BY <1>1, <1>2, <1>3
<1> QED
  BY <1>4 DEF c

\* The second space is the only one of the query.
LEMMA SpaceIsLast ==
  ASSUME TypeOK, MethodEnd(Text) # None, QueryEnd(Text) # None,
         NEW k \in UriStart(Text)..QueryEnd(Text), Text[k] = Space
  PROVE  k = QueryEnd(Text)
<1>1. Text \in Seq(Characters) /\ Len(Text) \in Nat
  BY TextIsText
<1>2. /\ UriStart(Text) \in Nat \ {0}
      /\ QueryEnd(Text) \in UriStart(Text)..Len(Text)
  BY UriAndQueryStart
<1>3. k \in UriStart(Text)..Len(Text) /\ Text[k] \in {Space}
  BY <1>1, <1>2
<1>4. \A l \in UriStart(Text)..(QueryEnd(Text) - 1) : Text[l] \notin {Space}
  BY <1>1, <1>2, <1>3, FindFromLeast DEF QueryEnd
<1>5. ~(k < QueryEnd(Text))
  <2>1. k < QueryEnd(Text) => k \in UriStart(Text)..(QueryEnd(Text) - 1)
    BY <1>2
  <2> QED
    BY <1>4, <2>1
<1> QED
  BY <1>2, <1>5

LEMMA ScanRests ==
  ASSUME NEW p \in Nat, NEW limit \in Nat, ~KeyChar(Text[p])
  PROVE  KeyCharsUntil(p, limit) = p
<1>1. KeyCharsUntil(p, limit) \in p..p
  BY ScanStops
<1> QED
  BY <1>1

\* A scan that has something to stop it stops there.
LEMMA ScanEnds ==
  ASSUME NEW p \in Nat, NEW limit \in Nat, NEW e \in p..(limit - 1), ~KeyChar(Text[e])
  PROVE  ~KeyChar(Text[KeyCharsUntil(p, limit)])
<1> DEFINE C == {c \in {Text[q] : q \in p..(limit - 1)} : ~KeyChar(c)}
<1>1. \E k \in p..(limit - 1) :
        Text[k] \in C /\ \A l \in p..(k - 1) : Text[l] \notin C
  <2>1. Text[e] \in C
    OBVIOUS
  <2>2. limit - 1 \in Int
    OBVIOUS
  <2> HIDE DEF C
  <2> QED
    BY <2>1, <2>2, FirstExists
<1>2. \E k \in p..(limit - 1) : /\ ~KeyChar(Text[k])
                                /\ \A l \in p..(k - 1) : KeyChar(Text[l])
  BY <1>1
<1>3. \E q \in p..(limit - 1) : ~KeyChar(Text[q])
  OBVIOUS
<1> QED
  BY <1>2, <1>3, Zenon DEF KeyCharsUntil

LEMMA ScanAgain ==
  ASSUME NEW p \in Nat, NEW limit \in Nat
  PROVE  KeyCharsUntil(KeyCharsUntil(p, limit), limit) = KeyCharsUntil(p, limit)
<1>1. PICK k \in Nat : k = KeyCharsUntil(p, limit)
  BY KeyCharsEnd
<1>2. CASE \E q \in p..(limit - 1) : ~KeyChar(Text[q])
  <2>1. ~KeyChar(Text[k])
    BY <1>1, <1>2, ScanEnds
  <2>2. KeyCharsUntil(k, limit) = k
    BY <2>1, ScanRests
  <2> QED
    BY <1>1, <2>2, Zenon
<1>3. CASE ~\E q \in p..(limit - 1) : ~KeyChar(Text[q])
  <2>1. k = p \/ k = limit
    BY <1>1, <1>3, Zenon DEF KeyCharsUntil
  <2>2. CASE k = p
    BY <1>1, <2>2, Zenon
  <2>3. CASE k = limit
    <3>1. ~\E q \in limit..(limit - 1) : ~KeyChar(Text[q])
      OBVIOUS
    <3>2. KeyCharsUntil(limit, limit) = limit
      BY <3>1 DEF KeyCharsUntil
    <3> QED
      BY <1>1, <2>3, <3>2, Zenon
  <2> QED
    BY <2>1, <2>2, <2>3
<1> QED
  BY <1>2, <1>3

LEMMA KeyCharsSeparateNothing ==
  ASSUME NEW c, KeyChar(c)
  PROVE  c \notin {Equals, Ampersand, Space}
BY DEF KeyChar, Alnum, Digits, Equals, Ampersand, Space, Percent

LEMMA UnescapedPlain ==
  ASSUME NEW s \in Seq(Characters), Escapes(s) = {}
  PROVE  Unescaped(s) = s
<1>1. s \in Seq(Int) /\ Len(s) \in Nat
  <2>1. Characters \subseteq Int
    BY CharactersAreNumbers
  <2>2. s \in Seq(Int)
    BY <2>1, SeqMonotonic
  <2> QED
    BY <2>2
<1> DEFINE ss == Pieces(s)
<1>2. /\ ss \in Seq(Seq(Int)) /\ Len(ss) = Len(s)
      /\ Unescaped(s) = FlattenSeq(ss)
      /\ \A j \in 1..Len(s) : ss[j] = <<s[j]>>
  BY <1>1, PieceOf
<1> HIDE DEF ss
<1>3. PICK f : /\ f[0] = <<>>
               /\ \A j \in 1..Len(ss) : f[j] = f[j - 1] \o ss[j]
               /\ FlattenSeq(ss) = f[Len(ss)]
  BY <1>2, FlattenParts
<1> DEFINE Same(j) == IsSequence(f[j]) /\ Len(f[j]) = j /\ \A k \in 1..j : f[j][k] = s[k]
           G == {m \in 1..(Len(s) + 1) : Same(m - 1)}
<1>4. 1 \in G
  <2>1. 1 - 1 = 0 /\ 1 \in 1..(Len(s) + 1) /\ ~\E k \in 1..0 : TRUE
    BY <1>1
  <2>2. IsSequence(<<>>) /\ Len(<<>>) = 0
    BY DEF IsSequence
  <2>3. Same(0)
    BY <1>3, <2>1, <2>2
  <2> HIDE DEF Same
  <2> QED
    BY <2>1, <2>3
<1>5. ASSUME NEW m \in 1..((Len(s) + 1) - 1), m \in G PROVE m + 1 \in G
  <2>1. m \in 1..Len(s) /\ (m + 1) - 1 = m /\ m + 1 \in 1..(Len(s) + 1)
    BY <1>1
  <2>2. IsSequence(f[m - 1]) /\ Len(f[m - 1]) = m - 1 /\ \A k \in 1..(m - 1) : f[m - 1][k] = s[k]
    BY <1>5
  <2>3. f[m] = f[m - 1] \o <<s[m]>>
    BY <1>2, <1>3, <2>1
  <2>4. Longer(f[m - 1], s[m], f[m])
    BY <2>2, <2>3, OneMore, Zenon
  <2>5. IsSequence(f[m]) /\ Len(f[m]) = m
        /\ (\A k \in 1..(m - 1) : f[m][k] = f[m - 1][k]) /\ f[m][m] = s[m]
    <3>1. (m - 1) + 1 = m
      BY <2>1
    <3> QED
      BY <2>2, <2>4, <3>1, Zenon DEF Longer
  <2>6. \A k \in 1..m : k \in 1..(m - 1) \/ k = m
    BY <2>1
  <2>7. Same(m)
    BY <2>2, <2>5, <2>6
  <2> HIDE DEF Same
  <2> QED
    BY <2>1, <2>7
<1>6. Len(s) + 1 \in G
  <2>0. Len(s) + 1 \in Nat
    BY <1>1
  <2> HIDE DEF G
  <2>1. 1..(Len(s) + 1) \subseteq G
    BY <2>0, <1>4, <1>5, UpTo
  <2> QED
    BY <1>1, <2>1
<1>7. Same(Len(s))
  <2>1. (Len(s) + 1) - 1 = Len(s)
    BY <1>1
  <2> HIDE DEF Same
  <2> QED
    BY <1>6, <2>1
<1>8. f[Len(s)] = s
  BY <1>1, <1>7, EqualElements DEF IsSequence
<1> QED
  BY <1>2, <1>3, <1>8

\* The names of the parameters at P of a line.
Names(t, P) == {Unescaped(RawName(t, p)) : p \in P}

\* The last of them with a name.
IsLast(t, P, key, q) ==
  /\ q \in P /\ Unescaped(RawName(t, q)) = key
  /\ \A p \in P : Unescaped(RawName(t, p)) = key => p <= q

\* What the first k of the requests have left in the object.
LeftBy(requests, k, key, value) ==
  \E m \in 1..k :
    /\ key \in DOMAIN QueryOf(requests[m].text)
    /\ value = QueryOf(requests[m].text)[key]
    /\ \A l \in (m + 1)..k : key \notin DOMAIN QueryOf(requests[l].text)

\* query is what those before request k have left, and the parameters at P of it.
Collects(requests, k, query, P) ==
  /\ Names(requests[k].text, P) \subseteq DOMAIN query
  /\ \A key \in DOMAIN query :
       \/ \E q \in P : /\ IsLast(requests[k].text, P, key, q)
                       /\ query[key] = Unescaped(RawValue(requests[k].text, q))
       \/ /\ key \notin Names(requests[k].text, P)
          /\ LeftBy(requests, k - 1, key, query[key])

LEMMA CollectsOneMore ==
  ASSUME NEW requests, NEW k, NEW query, NEW P, P \subseteq Nat,
         Collects(requests, k, query, P), NEW p \in Nat, \A q \in P : q < p
  PROVE  LET t == requests[k].text
         IN Collects(requests, k,
                     Assign(query, Unescaped(RawName(t, p)), Unescaped(RawValue(t, p))),
                     P \cup {p})
<1>1. PICK t : t = requests[k].text
  OBVIOUS
<1>2. PICK name, value : name = Unescaped(RawName(t, p)) /\ value = Unescaped(RawValue(t, p))
  OBVIOUS
<1>3. PICK new : new = Assign(query, name, value)
  OBVIOUS
<1>4. /\ DOMAIN new = DOMAIN query \cup {name} /\ new[name] = value
      /\ \A key \in DOMAIN query : key # name => new[key] = query[key]
  BY <1>3 DEF Assign
<1>5. Names(t, P \cup {p}) = Names(t, P) \cup {name}
  BY <1>2 DEF Names
<1>6. Names(t, P) \subseteq DOMAIN query
  BY <1>1 DEF Collects
<1>7. IsLast(t, P \cup {p}, name, p)
  <2>1. \A q \in P \cup {p} : q <= p
    OBVIOUS
  <2> QED
    BY <1>2, <2>1 DEF IsLast
<1>8. ASSUME NEW key \in DOMAIN new
      PROVE  \/ \E q \in P \cup {p} : /\ IsLast(t, P \cup {p}, key, q)
                                       /\ new[key] = Unescaped(RawValue(t, q))
             \/ /\ key \notin Names(t, P \cup {p})
                /\ LeftBy(requests, k - 1, key, new[key])
  <2>1. CASE key = name
    BY <1>2, <1>4, <1>7, <2>1, Zenon
  <2>2. CASE key # name
    <3>1. key \in DOMAIN query /\ new[key] = query[key]
      BY <1>4, <1>8, <2>2
    <3>2. \/ \E q \in P : /\ IsLast(t, P, key, q)
                         /\ query[key] = Unescaped(RawValue(t, q))
          \/ key \notin Names(t, P) /\ LeftBy(requests, k - 1, key, query[key])
      BY <1>1, <3>1 DEF Collects
    <3>3. ASSUME NEW q \in P, IsLast(t, P, key, q) PROVE IsLast(t, P \cup {p}, key, q)
      BY <1>2, <2>2, <3>3 DEF IsLast
    <3> QED
      BY <1>5, <2>2, <3>1, <3>2, <3>3
  <2> QED
    BY <2>1, <2>2
<1>9. Collects(requests, k, new, P \cup {p})
  BY <1>1, <1>4, <1>5, <1>6, <1>8 DEF Collects
<1> QED
  BY <1>1, <1>2, <1>3, <1>9, Zenon

\* QueryOf in terms of the last of each name.
LEMMA QueryOfLast ==
  ASSUME NEW t, Parameters(t) \subseteq Nat, NEW key, NEW q \in Parameters(t),
         IsLast(t, Parameters(t), key, q)
  PROVE  key \in DOMAIN QueryOf(t) /\ QueryOf(t)[key] = Unescaped(RawValue(t, q))
<1> DEFINE P == Parameters(t)
           c == CHOOSE c \in P : /\ Unescaped(RawName(t, c)) = key
                                 /\ \A p \in P : Unescaped(RawName(t, p)) = key => p <= c
<1>1. key \in Names(t, P)
  BY DEF IsLast, Names
<1>2. key \in DOMAIN QueryOf(t) /\ QueryOf(t)[key] = Unescaped(RawValue(t, c))
  BY <1>1, Zenon DEF QueryOf, Names
<1>3. /\ c \in P /\ Unescaped(RawName(t, c)) = key
      /\ \A p \in P : Unescaped(RawName(t, p)) = key => p <= c
  BY Zenon DEF IsLast
<1> HIDE DEF c
<1>4. c <= q /\ q <= c /\ c \in Nat /\ q \in Nat
  BY <1>3 DEF IsLast
<1>5. c = q
  BY ONLY <1>4
<1> QED
  BY <1>2, <1>5, Zenon

\* Those of the parameters that begin before p.
Before(p) == {q \in Parameters(Text) : q < p}

LEMMA ParametersAreNumbers ==
  ASSUME TypeOK
  PROVE  /\ UriStart(Text) \in Nat \ {0}
         /\ QueryStart(Text) \in Nat /\ QueryEnd(Text) \in Nat
         /\ Parameters(Text) \subseteq Nat
<1>1. Text \in Seq(Characters)
  BY TextIsText
<1>2. MethodEnd(Text) \in Nat
  BY <1>1, FindFromIsFirst DEF MethodEnd
<1>3. UriStart(Text) \in Nat \ {0}
  BY <1>2 DEF UriStart
<1>4. QueryStart(Text) \in Nat /\ QueryEnd(Text) \in Nat
  BY <1>1, <1>3, FindFromIsFirst DEF QueryStart, QueryEnd
<1>5. QueryRange(Text) \subseteq Nat
  BY <1>4 DEF QueryRange
<1> QED
  BY <1>3, <1>4, <1>5 DEF Parameters

\* Behind a parameter the next one begins behind an ampersand.
LEMMA ParametersGrow ==
  ASSUME TypeOK, NEW p \in Parameters(Text), NEW e \in Nat, p < e,
         \A l \in p..(e - 2) : Text[l] # Ampersand
  PROVE  Before(e) = Before(p) \cup {p}
<1>1. p \in Nat /\ QueryStart(Text) \in Nat /\ Parameters(Text) \subseteq Nat
  BY ParametersAreNumbers
<1>2. p > QueryStart(Text)
  BY <1>1, ParametersAreNumbers DEF Parameters, QueryRange
<1>3. ASSUME NEW q \in Parameters(Text), q < e, p < q PROVE FALSE
  <2>1. q \in Nat /\ q - 1 \in p..(e - 2) /\ q - 1 # QueryStart(Text)
    BY <1>1, <1>2, <1>3
  <2>2. Text[q - 1] = Ampersand
    BY <2>1 DEF Parameters
  <2> QED
    BY <2>1, <2>2
<1>4. \A q \in Parameters(Text) : q < e => q < p \/ q = p
  BY <1>1, <1>3
<1>5. \A q \in Parameters(Text) : q < p => q < e
  BY <1>1
<1> QED
  BY <1>4, <1>5 DEF Before

\* What a turn of the loop takes for a key and a value, is the name of the parameter
\* that begins there and, unless another equals sign stopped it, its value.
LEMMA PartsOfParameter ==
  ASSUME TypeOK, NEW p \in Nat \ {0}, NEW k \in p..Len(Text), Text[k] = Equals,
         \A l \in p..(k - 1) : KeyChar(Text[l]),
         NEW v \in (k + 1)..Len(Text),
         \A l \in (k + 1)..(v - 1) : KeyChar(Text[l])
  PROVE  /\ NameEnd(Text, p) = k
         /\ \A l \in p..(v - 1) : Text[l] \notin {Ampersand, Space}
         /\ Text[v] \in {Ampersand, Space} => ParameterEnd(Text, p) = v
<1>1. Text \in Seq(Characters) /\ Len(Text) \in Nat
  BY TextIsText
<1>2. \A l \in p..(k - 1) : Text[l] \notin {Equals, Ampersand, Space}
  BY KeyCharsSeparateNothing
<1>3. NameEnd(Text, p) = k
  <2>1. Text[k] \in {Equals, Ampersand, Space}
    OBVIOUS
  <2> QED
    BY <1>1, <1>2, <2>1, FoundFirst DEF NameEnd
<1>4. \A l \in p..(v - 1) : Text[l] \notin {Ampersand, Space}
  <2> SUFFICES ASSUME NEW l \in p..(v - 1) PROVE Text[l] \notin {Ampersand, Space}
    OBVIOUS
  <2>1. l \in p..(k - 1) \/ l = k \/ l \in (k + 1)..(v - 1)
    BY <1>1
  <2>2. Equals \notin {Ampersand, Space}
    BY DEF Equals, Ampersand, Space
  <2>3. ASSUME KeyChar(Text[l]) PROVE Text[l] \notin {Ampersand, Space}
    BY <2>3, KeyCharsSeparateNothing
  <2> QED
    BY <2>1, <2>2, <2>3
<1>5. ASSUME Text[v] \in {Ampersand, Space} PROVE ParameterEnd(Text, p) = v
  <2>1. v \in p..Len(Text)
    BY <1>1
  <2> QED
    BY <1>1, <1>4, <1>5, <2>1, FoundFirst DEF ParameterEnd
<1> QED
  BY <1>3, <1>4, <1>5

\* A second equals sign belongs to the value.
LEMMA EqualsInValue ==
  ASSUME TypeOK, MethodEnd(Text) # None, QueryEnd(Text) # None,
         NEW p \in Nat \ {0}, NEW v \in Nat, p <= NameEnd(Text, p),
         NameEnd(Text, p) \in Nat, NameEnd(Text, p) < v, v < QueryEnd(Text),
         \A l \in p..(v - 1) : Text[l] \notin {Ampersand, Space}, Text[v] = Equals
  PROVE  \E l \in DOMAIN RawValue(Text, p) : RawValue(Text, p)[l] = Equals
<1>1. Text \in Seq(Characters) /\ Len(Text) \in Nat
  BY TextIsText
<1>2. QueryEnd(Text) \in p..Len(Text) /\ Text[QueryEnd(Text)] \in {Ampersand, Space}
  BY <1>1, SecondSpace
<1> DEFINE e == ParameterEnd(Text, p)
           s == NameEnd(Text, p)
<1>3. e \in p..Len(Text) /\ Text[e] \in {Ampersand, Space}
  BY <1>1, <1>2, FindFromLeast DEF ParameterEnd
<1> HIDE DEF e, s
<1>4. e > v
  <2>1. e # v
    BY <1>3 DEF Equals, Ampersand, Space
  <2>2. ~(e < v)
    <3>1. e < v => e \in p..(v - 1)
      BY <1>3
    <3> QED
      BY <1>3, <3>1
  <2> QED
    BY <1>3, <2>1, <2>2
<1>5. s \in Nat /\ s < v
  BY DEF s
<1>6. /\ s + 1 \in Nat \ {0} /\ e - 1 \in Nat /\ e - 1 <= Len(Text)
      /\ s + 1 <= (e - 1) + 1
      /\ v - s \in 1..((e - 1) + 1 - (s + 1))
      /\ (s + 1) - 1 + (v - s) = v
  BY <1>1, <1>3, <1>4, <1>5
<1>7. IsSequence(Text)
  BY <1>1 DEF IsSequence
<1>8. /\ DOMAIN SubSeq(Text, s + 1, e - 1) = 1..((e - 1) + 1 - (s + 1))
      /\ SubSeq(Text, s + 1, e - 1)[v - s] = Text[(s + 1) - 1 + (v - s)]
  BY <1>6, <1>7, SubSeqElements
<1>9. /\ v - s \in DOMAIN SubSeq(Text, s + 1, e - 1)
      /\ SubSeq(Text, s + 1, e - 1)[v - s] = Equals
  BY <1>6, <1>8
<1> QED
  BY <1>9, Zenon DEF RawValue, e, s

\* A character that fits nowhere holds the loop for good.
Stuck ==
  /\ KeyCharsUntil(i, LineEnd(Text)) = i
  /\ i < QueryEnd(Text)
  /\ Text[i] \notin {Equals, Space}

AllPlain == \A m \in 1..n : Plain(input[m].text)

\* Between two turns the request has the parameters the loop has passed, and of
\* those before it what this line has not overwritten so far.
QueryInv ==
  /\ pc = "scan" => IF HasQuery(Text) THEN QueryStart(Text) < i ELSE i >= QueryEnd(Text)
  /\ AllPlain =>
       /\ pc = "line" => Collects(input, n, request.query, {})
       /\ pc = "scan" /\ ~Stuck =>
            /\ i \in QueryRange(Text) => i \in Parameters(Text)
            /\ Collects(input, n, request.query, Before(i))
       /\ pc = "headers" => Collects(input, n, request.query, Parameters(Text))

LEMMA AddedQuery ==
  ASSUME TypeOK, NEW a, NEW b
  PROVE  AddQuery(request, a, b).query = Assign(request.query, a, b)
<1>1. "query" \in DOMAIN request
  BY DEF TypeOK, NewRequest
<1> QED
  BY <1>1 DEF AddQuery

\* The parameter at i, whole.
TurnCollects(e) ==
  /\ i \in Parameters(Text)
  /\ request'.query = Assign(request.query, Unescaped(RawName(Text, i)),
                             Unescaped(RawValue(Text, i)))
  /\ e \in Nat /\ i < e /\ \A l \in i..(e - 2) : Text[l] # Ampersand
  /\ i' = e
  /\ e < QueryEnd(Text) => Text[e - 1] = Ampersand
  /\ UNCHANGED <<input, n, pc>>

LEMMA TurnKeepsQuery ==
  ASSUME TypeOK, QueryInv, pc = "scan", ~Stuck, NEW e, TurnCollects(e)
  PROVE  QueryInv'
<1>1. Text' = Text /\ input' = input /\ n' = n /\ pc' = "scan" /\ i' = e
  BY DEF TurnCollects, Text
<1>2. /\ i \in Parameters(Text) /\ i \in Nat /\ e \in Nat /\ i < e
      /\ QueryStart(Text) \in Nat /\ QueryEnd(Text) \in Nat
      /\ Parameters(Text) \subseteq Nat
  BY ParametersAreNumbers DEF TurnCollects
<1>3. HasQuery(Text) /\ QueryStart(Text) < i
  BY <1>2 DEF Parameters, QueryRange
<1>4. QueryStart(Text) < e
  BY <1>2, <1>3
<1>5. ASSUME AllPlain
      PROVE  Collects(input, n, request'.query, Before(e))
  <2>1. Collects(input, n, request.query, Before(i))
    BY <1>5 DEF QueryInv
  <2>2. Before(i) \subseteq Nat /\ \A q \in Before(i) : q < i
    BY <1>2 DEF Before
  <2>3. Before(e) = Before(i) \cup {i}
    BY ParametersGrow DEF TurnCollects
  <2>4. PICK P : P = Before(i)
    OBVIOUS
  <2>5. Collects(input, n, Assign(request.query, Unescaped(RawName(Text, i)),
                                  Unescaped(RawValue(Text, i))), P \cup {i})
    BY <1>2, <2>1, <2>2, <2>4, CollectsOneMore, Zenon DEF Text
  <2> QED
    BY <2>3, <2>4, <2>5, Zenon DEF TurnCollects
<1>6. ASSUME e \in QueryRange(Text) PROVE e \in Parameters(Text)
  <2>1. e < QueryEnd(Text)
    BY <1>2, <1>6 DEF QueryRange
  <2>2. Text[e - 1] = Ampersand
    BY <2>1 DEF TurnCollects
  <2> QED
    BY <1>6, <2>2 DEF Parameters
<1>7. AllPlain' = AllPlain
  BY <1>1 DEF AllPlain
<1>8. Before(i)' = Before(e)
  BY <1>1 DEF Before
<1> QED
  BY <1>1, <1>3, <1>4, <1>5, <1>6, <1>7, <1>8 DEF QueryInv

LEMMA StuckKeepsQuery ==
  ASSUME TypeOK, QueryInv, pc = "scan", i' \in Nat, i \in Nat, i <= i', Stuck',
         UNCHANGED <<input, n, pc>>
  PROVE  QueryInv'
<1>1. Text' = Text
  BY DEF Text
<1>2. QueryStart(Text) \in Nat /\ QueryEnd(Text) \in Nat
  BY ParametersAreNumbers
<1>3. IF HasQuery(Text) THEN QueryStart(Text) < i' ELSE i' >= QueryEnd(Text)
  BY <1>2 DEF QueryInv
<1> QED
  BY <1>1, <1>3 DEF QueryInv

LEMMA ScanQueryKeepsQuery ==
  ASSUME LineInv, QueryInv, ScanQuery, pc' = "scan", AllPlain
  PROVE  QueryInv'
<1> DEFINE keyEnd == KeyCharsUntil(i, LineEnd(Text))
           valueEnd == KeyCharsUntil(keyEnd + 1, Len(Text) + 1)
           key == SubSeq(Text, i, keyEnd - 1)
           value == SubSeq(Text, keyEnd + 1, valueEnd - 1)
<1>1. /\ TypeOK /\ LoopInv /\ pc = "scan" /\ i < QueryEnd(Text)
      /\ MethodEnd(Text) # None /\ QueryEnd(Text) # None /\ i # 0
  BY DEF LineInv, ScanQuery, LoopInv
<1>2. PICK q \in Nat : q = QueryEnd(Text) /\ q <= Len(Text) /\ Text[q] = Space
  BY <1>1, SecondSpace, TextIsText
<1>3. /\ i \in Nat /\ i # 0 /\ i < q /\ Len(Text) \in Nat /\ LineEnd(Text) \in Nat
      /\ Text \in Seq(Characters) /\ UriStart(Text) \in Nat \ {0}
      /\ QueryStart(Text) \in Nat
  BY <1>1, <1>2, SecondSpace, TextIsText, ParametersAreNumbers DEF TypeOK
<1>4. HasQuery(Text) /\ QueryStart(Text) < i
  BY <1>1, <1>2, <1>3 DEF QueryInv
<1>5. UriStart(Text) <= i
  <2>1. QueryStart(Text) # None
    BY <1>4 DEF HasQuery
  <2> QED
    BY <1>1, <1>3, <1>4, <2>1, UriAndQueryStart
<1>6. PICK k : k = keyEnd
  OBVIOUS
<1>7. k \in i..q
  BY <1>1, <1>2, <1>6, TurnStops
<1>8. \A l \in i..(k - 1) : KeyChar(Text[l])
  BY <1>3, <1>6, KeyCharsEnd
<1>9. KeyCharsUntil(k, LineEnd(Text)) = k
  BY <1>3, <1>6, ScanAgain
\* The turn is over at p, where the loop stays.
<1>10. ASSUME NEW p \in i..(q - 1), i' = p, KeyCharsUntil(p, LineEnd(Text)) = p,
              Text[p] \notin {Equals, Space}, UNCHANGED <<input, n, pc>>
       PROVE  QueryInv'
  <2>1. Text' = Text
    BY <1>10 DEF Text
  <2>2. KeyCharsUntil(i, LineEnd(Text))' = KeyCharsUntil(i', LineEnd(Text))
    BY <2>1 DEF KeyCharsUntil
  <2>3. i' < QueryEnd(Text) /\ KeyCharsUntil(i', LineEnd(Text)) = i'
    BY <1>2, <1>10
  <2>4. Stuck'
    BY <1>10, <2>1, <2>2, <2>3 DEF Stuck
  <2> QED
    BY <1>1, <1>3, <1>10, <2>4, StuckKeepsQuery
<1>11. CASE Text[k] \notin {Equals, Space}
  <2>1. i' = k /\ UNCHANGED <<input, n, pc>>
    BY <1>6, <1>11 DEF ScanQuery, Unexpected
  <2>2. k \in i..(q - 1)
    BY <1>2, <1>7, <1>11
  <2> QED
    BY <1>9, <1>10, <1>11, <2>1, <2>2
<1>12. ASSUME Text[k] \in {Equals, Space}
       PROVE  /\ ~Stuck /\ i \in Parameters(Text) /\ Plain(Text)
  <2>1. ~Stuck
    BY <1>6, <1>12 DEF Stuck
  <2>2. i \in QueryRange(Text)
    BY <1>2, <1>3, <1>4 DEF QueryRange
  <2>3. Plain(Text)
    BY <1>1 DEF AllPlain, TypeOK, Text
  <2> QED
    BY <1>1, <2>1, <2>2, <2>3 DEF QueryInv
<1>13. CASE Text[k] = Space
  <2>1. /\ request' = AddQuery(request, key, <<>>)
        /\ i' = k /\ UNCHANGED <<input, n, pc>>
    BY <1>6, <1>13 DEF ScanQuery, Equals, Space
  <2>2. k = q
    <3>1. k \in UriStart(Text)..QueryEnd(Text)
      BY <1>2, <1>3, <1>5, <1>7
    <3> QED
      BY <1>1, <1>2, <1>13, <3>1, SpaceIsLast
  <2>3. /\ i \in Nat \ {0} /\ k \in i..Len(Text) /\ k - 1 \in Nat /\ k - 1 <= Len(Text)
        /\ (k + 1) \in Nat \ {0}
    BY <1>2, <1>3, <1>7, <2>2
  <2>4. NameEnd(Text, i) = k /\ ParameterEnd(Text, i) = k
    <3>1. \A l \in i..(k - 1) : Text[l] \notin {Equals, Ampersand, Space}
      BY <1>8, KeyCharsSeparateNothing
    <3>2. \A l \in i..(k - 1) : Text[l] \notin {Ampersand, Space}
      BY <3>1
    <3>3. Text[k] \in {Equals, Ampersand, Space} /\ Text[k] \in {Ampersand, Space}
      BY <1>13
    <3>4. NameEnd(Text, i) = k
      BY <1>3, <2>3, <3>1, <3>3, FoundFirst DEF NameEnd
    <3>5. ParameterEnd(Text, i) = k
      BY <1>3, <2>3, <3>2, <3>3, FoundFirst DEF ParameterEnd
    <3> QED
      BY <3>4, <3>5
  <2>5. RawName(Text, i) = key /\ key \in Seq(Characters)
    <3>1. RawName(Text, i) = SubSeq(Text, i, k - 1)
      BY <2>4, Zenon DEF RawName
    <3>2. SubSeq(Text, i, k - 1) \in Seq(Characters)
      BY <1>1, <2>3, PartsAreText
    <3> QED
      BY <1>6, <3>1, <3>2
  <2>6. Unescaped(RawName(Text, i)) = key
    <3>1. Escapes(RawName(Text, i)) = {}
      BY <1>2, <1>12, <1>13, <2>2, <2>4 DEF Plain
    <3> QED
      BY <2>5, <3>1, UnescapedPlain
  <2>7. Unescaped(RawValue(Text, i)) = <<>>
    <3>1. RawValue(Text, i) = SubSeq(Text, k + 1, k - 1)
      BY <2>4, Zenon DEF RawValue
    <3>2. SubSeq(Text, k + 1, k - 1) = <<>>
      BY <1>3, <2>3
    <3>3. <<>> \in Seq(Characters) /\ Escapes(<<>>) = {}
      BY DEF Escapes
    <3>4. Unescaped(<<>>) = <<>>
      BY <3>3, UnescapedPlain
    <3> QED
      BY <3>1, <3>2, <3>4
  <2> HIDE DEF key
  <2>8. request'.query = Assign(request.query, Unescaped(RawName(Text, i)),
                                Unescaped(RawValue(Text, i)))
    BY <1>1, <2>1, <2>6, <2>7, AddedQuery
  <2>9. \A l \in i..(k - 2) : Text[l] # Ampersand
    <3>1. \A l \in i..(k - 2) : KeyChar(Text[l])
      BY <1>7, <1>8
    <3> QED
      BY <3>1, KeyCharsSeparateNothing
  <2>10. k \in Nat /\ i < k /\ ~(k < QueryEnd(Text))
    BY <1>2, <1>3, <2>2
  <2>11. TurnCollects(k)
    BY <1>12, <1>13, <2>1, <2>8, <2>9, <2>10 DEF TurnCollects
  <2> QED
    BY <1>1, <1>12, <1>13, <2>11, TurnKeepsQuery
<1>14. CASE Text[k] = Equals
  <2>1. PICK v : v = valueEnd
    OBVIOUS
  <2>2. v \in (k + 1)..q /\ SkipAmpersand(v) \in v..q
    BY <1>1, <1>2, <1>6, <1>14, <2>1, TurnStops
  <2>3. /\ i \in Nat \ {0} /\ k \in i..Len(Text) /\ k - 1 \in Nat /\ k - 1 <= Len(Text)
        /\ k + 1 \in Nat \ {0} /\ v \in (k + 1)..Len(Text) /\ v \in Nat
        /\ v - 1 \in Nat /\ v - 1 <= Len(Text) /\ ~(v > Len(Text))
    BY <1>2, <1>3, <1>7, <2>2
  <2>4. \A l \in (k + 1)..(v - 1) : KeyChar(Text[l])
    <3>1. k + 1 \in Nat /\ Len(Text) + 1 \in Nat
      BY <1>3, <2>3
    <3>2. v = KeyCharsUntil(k + 1, Len(Text) + 1)
      BY <1>6, <2>1
    <3> QED
      BY <3>1, <3>2, KeyCharsEnd
  <2>5. ~KeyChar(Text[v])
    <3>1. k + 1 \in Nat /\ Len(Text) + 1 \in Nat /\ q \in (k + 1)..((Len(Text) + 1) - 1)
      BY <1>2, <1>3, <2>2, <2>3
    <3>2. ~KeyChar(Text[q])
      BY <1>2, SpaceIsNoKeyChar
    <3>3. ~KeyChar(Text[KeyCharsUntil(k + 1, Len(Text) + 1)])
      BY <3>1, <3>2, ScanEnds
    <3> QED
      BY <1>6, <2>1, <3>3, Zenon
  <2>6. /\ request' = AddQuery(request, Decode(key), Decode(value))
        /\ i' = SkipAmpersand(v)
        /\ UNCHANGED <<input, n, pc>>
    <3> HIDE DEF key, value
    <3>1. ~Throw("invalid_argument")
      BY DEF Throw
    <3> QED
      BY <1>6, <1>14, <2>1, <2>3, <3>1 DEF ScanQuery, Unexpected, Equals, Space, key, value
  <2>7. /\ NameEnd(Text, i) = k
        /\ \A l \in i..(v - 1) : Text[l] \notin {Ampersand, Space}
        /\ Text[v] \in {Ampersand, Space} => ParameterEnd(Text, i) = v
    BY <1>1, <1>8, <1>14, <2>3, <2>4, PartsOfParameter
  <2>8. CASE Text[v] \in {Ampersand, Space}
    <3>1. RawName(Text, i) = key /\ key \in Seq(Characters)
      <4>1. RawName(Text, i) = SubSeq(Text, i, k - 1)
        BY <2>7, Zenon DEF RawName
      <4>2. SubSeq(Text, i, k - 1) \in Seq(Characters)
        BY <1>1, <2>3, PartsAreText
      <4> QED
        BY <1>6, <4>1, <4>2
    <3>2. RawValue(Text, i) = value /\ value \in Seq(Characters)
      <4>1. RawValue(Text, i) = SubSeq(Text, k + 1, v - 1)
        BY <2>7, <2>8, Zenon DEF RawValue
      <4>2. SubSeq(Text, k + 1, v - 1) \in Seq(Characters)
        BY <1>1, <2>3, PartsAreText
      <4> QED
        BY <1>6, <2>1, <4>1, <4>2
    <3> HIDE DEF key, value
    <3>3. Decodable(key) /\ Decodable(value)
      BY <1>12, <1>14, <3>1, <3>2 DEF Plain
    <3>4. /\ Decode(key) = Unescaped(RawName(Text, i))
          /\ Decode(value) = Unescaped(RawValue(Text, i))
      BY <3>1, <3>2, <3>3, DecodeIsRight
    <3>5. request'.query = Assign(request.query, Unescaped(RawName(Text, i)),
                                  Unescaped(RawValue(Text, i)))
      BY <1>1, <2>6, <3>4, AddedQuery
    <3>6. PICK e : e = SkipAmpersand(v)
      OBVIOUS
    <3>7. CASE Text[v] = Ampersand
      <4>1. /\ e = v + 1 /\ e \in Nat /\ i < e /\ Text[e - 1] = Ampersand
            /\ e - 2 = v - 1
        BY <1>3, <1>7, <2>3, <3>6, <3>7 DEF SkipAmpersand
      <4>2. \A l \in i..(e - 2) : Text[l] # Ampersand
        BY <2>7, <4>1
      <4> QED
        BY <1>1, <1>12, <1>14, <2>6, <3>5, <3>6, <4>1, <4>2, TurnKeepsQuery DEF TurnCollects
    <3>8. CASE Text[v] = Space
      <4>1. e = v
        BY <3>6, <3>8 DEF SkipAmpersand, Ampersand, Space
      <4>2. v = q
        <5>1. v \in UriStart(Text)..QueryEnd(Text)
          BY <1>2, <1>3, <1>5, <1>7, <2>2
        <5> QED
          BY <1>1, <1>2, <3>8, <5>1, SpaceIsLast
      <4>3. e \in Nat /\ i < e /\ ~(e < QueryEnd(Text))
        BY <1>2, <1>3, <4>1, <4>2
      <4>4. \A l \in i..(e - 2) : Text[l] # Ampersand
        <5>1. \A l \in i..(e - 2) : l \in i..(v - 1)
          BY <1>3, <2>3, <4>1
        <5> QED
          BY <2>7, <5>1
      <4> QED
        BY <1>1, <1>12, <1>14, <2>6, <3>5, <3>6, <4>3, <4>4, TurnKeepsQuery DEF TurnCollects
    <3> QED
      BY <2>8, <3>7, <3>8
  <2>9. CASE Text[v] \notin {Ampersand, Space}
    <3>1. v < q
      BY <1>2, <2>2, <2>9
    <3>2. Text[v] # Equals
      <4>1. Equals \notin {RawValue(Text, i)[l] : l \in DOMAIN RawValue(Text, i)}
        BY <1>12, <1>14 DEF Plain
      <4>2. /\ i <= NameEnd(Text, i) /\ NameEnd(Text, i) \in Nat
            /\ NameEnd(Text, i) < v /\ v < QueryEnd(Text)
        BY <1>2, <1>3, <1>7, <2>2, <2>7, <3>1
      <4>3. Text[v] = Equals =>
              \E l \in DOMAIN RawValue(Text, i) : RawValue(Text, i)[l] = Equals
        BY <1>1, <2>3, <2>7, <4>2, EqualsInValue
      <4> QED
        BY <4>1, <4>3
    <3>3. i' = v
      BY <2>6, <2>9 DEF SkipAmpersand
    <3>4. v \in i..(q - 1) /\ KeyCharsUntil(v, LineEnd(Text)) = v
      BY <1>3, <1>7, <2>2, <2>3, <2>5, <3>1, ScanRests
    <3> QED
      BY <1>10, <2>6, <2>9, <3>2, <3>3, <3>4
  <2> QED
    BY <2>8, <2>9
<1> QED
  BY <1>11, <1>13, <1>14

\* Behind the line every parameter is as the last line with its name has it.
LEMMA CollectedIsLeft ==
  ASSUME NEW requests, NEW k \in Nat \ {0}, NEW query,
         Parameters(requests[k].text) \subseteq Nat,
         Collects(requests, k, query, Parameters(requests[k].text)),
         NEW key \in DOMAIN query
  PROVE  LeftBy(requests, k, key, query[key])
<1>1. PICK t : t = requests[k].text
  OBVIOUS
<1>2. \/ \E q \in Parameters(t) : /\ IsLast(t, Parameters(t), key, q)
                                  /\ query[key] = Unescaped(RawValue(t, q))
      \/ key \notin Names(t, Parameters(t)) /\ LeftBy(requests, k - 1, key, query[key])
  BY <1>1 DEF Collects
<1>3. k \in 1..k /\ \A l \in (k + 1)..k : FALSE
  OBVIOUS
<1>4. CASE \E q \in Parameters(t) : /\ IsLast(t, Parameters(t), key, q)
                                    /\ query[key] = Unescaped(RawValue(t, q))
  <2>1. key \in DOMAIN QueryOf(t) /\ query[key] = QueryOf(t)[key]
    BY <1>1, <1>4, QueryOfLast
  <2> QED
    BY <1>1, <1>3, <2>1 DEF LeftBy
<1>5. CASE key \notin Names(t, Parameters(t)) /\ LeftBy(requests, k - 1, key, query[key])
  <2>1. PICK m \in 1..(k - 1) :
          /\ key \in DOMAIN QueryOf(requests[m].text)
          /\ query[key] = QueryOf(requests[m].text)[key]
          /\ \A l \in (m + 1)..(k - 1) : key \notin DOMAIN QueryOf(requests[l].text)
    BY <1>5, Zenon DEF LeftBy
  <2>2. DOMAIN QueryOf(t) = Names(t, Parameters(t))
    BY Zenon DEF QueryOf, Names
  <2>3. \A l \in (m + 1)..k : l \in (m + 1)..(k - 1) \/ l = k
    OBVIOUS
  <2>4. m \in 1..k
    OBVIOUS
  <2>5. \A l \in (m + 1)..k : key \notin DOMAIN QueryOf(requests[l].text)
    BY <1>1, <1>5, <2>1, <2>2, <2>3
  <2> QED
    BY <2>1, <2>4, <2>5, Zenon DEF LeftBy
<1> QED
  BY <1>2, <1>4, <1>5

LEMMA QueryNext == LineInv /\ QueryInv /\ [Next]_vars => QueryInv'
<1> SUFFICES ASSUME LineInv, QueryInv, [Next]_vars PROVE QueryInv'
  OBVIOUS
<1>1. /\ TypeOK /\ LoopInv
      /\ QueryStart(Text) \in Nat /\ QueryEnd(Text) \in Nat
      /\ Parameters(Text) \subseteq Nat
      /\ DOMAIN request = DOMAIN NewRequest
  BY ParametersAreNumbers DEF LineInv, TypeOK
\* Of the three places only those the step leads to matter.
<1>2. CASE pc' \notin {"line", "scan", "headers"}
  BY <1>2 DEF QueryInv
<1>3. CASE ParseMethod /\ pc' = "scan"
  <2>1. /\ pc = "line" /\ UNCHANGED <<input, n>>
        /\ \E word : request' = SetMethod(request, word)
        /\ i' = IF QueryStart(Text) = None THEN QueryEnd(Text) ELSE QueryStart(Text) + 1
    BY <1>3 DEF ParseMethod, Fail
  <2>2. Text' = Text /\ AllPlain' = AllPlain /\ Before(i)' = Before(i')
    BY <2>1 DEF Text, AllPlain, Before
  <2>3. request'.query = request.query
    BY <1>1, <2>1 DEF SetMethod, NewRequest
  <2>4. IF HasQuery(Text) THEN QueryStart(Text) < i' ELSE i' >= QueryEnd(Text)
    BY <1>1, <2>1 DEF HasQuery
  <2>5. Before(i') = {}
    BY <1>1, <2>1 DEF Before, Parameters, QueryRange, HasQuery
  <2>6. i' \in QueryRange(Text) => i' \in Parameters(Text)
    BY <1>1, <2>1 DEF Parameters, QueryRange, HasQuery
  <2>7. AllPlain => Collects(input, n, request'.query, {})
    BY <2>1, <2>3 DEF QueryInv
  <2> QED
    BY <1>3, <2>1, <2>2, <2>4, <2>5, <2>6, <2>7 DEF QueryInv
<1>4. CASE ScanQuery /\ pc' = "scan"
  <2>1. CASE AllPlain
    BY <1>4, <2>1, ScanQueryKeepsQuery
  <2>2. CASE ~AllPlain
    <3>1. UNCHANGED <<input, n>> /\ pc = "scan"
      BY <1>4 DEF ScanQuery, Unexpected, Throw
    <3>2. Text' = Text /\ AllPlain' = AllPlain
      BY <3>1 DEF Text, AllPlain
    <3>3. i \in Nat /\ i' \in Nat /\ i <= i'
      BY <1>1, <1>4, TurnAdvances DEF TypeOK
    <3>4. IF HasQuery(Text) THEN QueryStart(Text) < i' ELSE i' >= QueryEnd(Text)
      BY <1>1, <3>1, <3>3 DEF QueryInv
    <3> QED
      BY <2>2, <3>2, <3>4, <1>4 DEF QueryInv
  <2> QED
    BY <2>1, <2>2
<1>5. CASE ParseUriAndVersion /\ pc' = "headers"
  <2>1. /\ pc = "scan" /\ i >= QueryEnd(Text) /\ UNCHANGED <<input, n>>
        /\ \E uri, word : request' = SetVersion(SetURI(request, uri), word)
    BY <1>5 DEF ParseUriAndVersion, Throw, Fail
  <2>2. Text' = Text /\ AllPlain' = AllPlain
    BY <2>1 DEF Text, AllPlain
  <2>3. request'.query = request.query
    BY <1>1, <2>1 DEF SetURI, SetVersion, NewRequest
  <2>4. i \in Nat /\ ~Stuck
    BY <1>1, <2>1 DEF Stuck, TypeOK
  <2>5. Before(i) = Parameters(Text)
    BY <1>1, <2>1, <2>4 DEF Before, Parameters, QueryRange
  <2>6. AllPlain => Collects(input, n, request'.query, Parameters(Text))
    BY <2>1, <2>3, <2>4, <2>5 DEF QueryInv
  <2> QED
    BY <1>5, <2>1, <2>2, <2>6 DEF QueryInv
<1>6. CASE ParseHeaderLine
  <2>1. /\ pc = "headers" /\ UNCHANGED <<input, n>> /\ pc' \in {pc, "failed"}
        /\ request' = request \/ \E a, b : request' = AddHeader(request, a, b)
    BY <1>6, Zenon DEF ParseHeaderLine, Fail
  <2>2. Text' = Text /\ AllPlain' = AllPlain
    BY <2>1 DEF Text, AllPlain
  <2>3. request'.query = request.query
    BY <1>1, <2>1 DEF AddHeader, NewRequest
  <2> QED
    BY <2>1, <2>2, <2>3 DEF QueryInv
<1>7. CASE NextRequest
  <2>1. /\ pc = "headers" /\ pc' = "line" /\ n' = n + 1 /\ n \in Nat \ {0}
        /\ UNCHANGED <<input, request>>
    BY <1>1, <1>7 DEF NextRequest, TypeOK
  <2>2. AllPlain' => AllPlain
    BY <2>1 DEF AllPlain
  <2>3. ASSUME AllPlain PROVE Collects(input, n + 1, request.query, {})
    <3>1. Collects(input, n, request.query, Parameters(input[n].text))
      BY <2>1, <2>3 DEF QueryInv, Text
    <3>2. Parameters(input[n].text) \subseteq Nat
      BY <1>1 DEF Text
    <3>3. \A key \in DOMAIN request.query : LeftBy(input, n, key, request.query[key])
      BY <2>1, <3>1, <3>2, CollectedIsLeft
    <3>4. (n + 1) - 1 = n
      BY <2>1
    <3>5. Names(input[n + 1].text, {}) = {}
      BY DEF Names
    <3> QED
      BY <3>3, <3>4, <3>5 DEF Collects
  <2> QED
    BY <2>1, <2>2, <2>3 DEF QueryInv
<1>8. CASE UNCHANGED vars
  <2>1. /\ UNCHANGED <<input, n, pc, i, request>>
    BY <1>8 DEF vars
  <2>2. Text' = Text /\ AllPlain' = AllPlain
    BY <2>1 DEF Text, AllPlain
  <2>3. Before(i)' = Before(i)
    BY <2>1, <2>2 DEF Before
  <2>4. KeyCharsUntil(i, LineEnd(Text))' = KeyCharsUntil(i, LineEnd(Text))
    BY <2>1, <2>2 DEF KeyCharsUntil
  <2>5. Stuck' = Stuck
    BY <2>1, <2>2, <2>4 DEF Stuck
  <2> QED
    BY <2>1, <2>2, <2>3, <2>5 DEF QueryInv
<1>9. /\ ParseMethod => pc' \in {"scan", "failed"}
      /\ ScanQuery => pc' \in {"scan", "thrown"}
      /\ ParseUriAndVersion => pc' \in {"headers", "failed", "thrown"}
  BY DEF ParseMethod, ScanQuery, ParseUriAndVersion, Fail, Throw, Unexpected
<1> QED
  BY <1>2, <1>3, <1>4, <1>5, <1>6, <1>7, <1>8, <1>9 DEF Next

\* While every line of the connection has been plain, the parameters of the request are
\* those of its line, all of them, and beyond them only what earlier requests of the
\* connection have left in the object: for any number of lines, whatever their length.
THEOREM QueryIsRight == Spec => []QueryRight
<1>1. Init => QueryInv
  <2> SUFFICES ASSUME Init PROVE QueryInv
    OBVIOUS
  <2>1. pc = "line" /\ request.query = <<>>
    BY DEF Init, NewRequest
  <2>2. Names(input[n].text, {}) = {} /\ DOMAIN <<>> = {}
    BY DEF Names
  <2> QED
    BY <2>1, <2>2 DEF QueryInv, Collects
<1>2. LineInv /\ QueryInv => QueryRight
  <2> SUFFICES ASSUME TypeOK, QueryInv, pc = "headers", AllPlain
               PROVE  /\ DOMAIN QueryOf(Text) \subseteq DOMAIN request.query
                      /\ \A key \in DOMAIN request.query :
                           LeftBy(input, n, key, GetQuery(request, key))
    BY DEF LineInv, QueryRight, AllPlain, LeftBy
  <2>1. Collects(input, n, request.query, Parameters(Text))
    BY DEF QueryInv
  <2>2. DOMAIN QueryOf(Text) = Names(Text, Parameters(Text))
    BY Zenon DEF QueryOf, Names
  <2>3. DOMAIN QueryOf(Text) \subseteq DOMAIN request.query
    BY <2>1, <2>2 DEF Collects, Text
  <2>4. n \in Nat \ {0} /\ Parameters(input[n].text) \subseteq Nat
    BY ParametersAreNumbers DEF TypeOK, Text
  <2>5. \A key \in DOMAIN request.query : LeftBy(input, n, key, request.query[key])
    BY <2>1, <2>4, CollectedIsLeft DEF Text
  <2>6. \A key \in DOMAIN request.query : GetQuery(request, key) = request.query[key]
    BY DEF GetQuery
  <2> QED
    BY <2>3, <2>5, <2>6
<1> QED
  BY <1>1, <1>2, QueryNext, LineInvariant, PTL DEF Spec
=============================================================================
