------------------------- MODULE RequestParserProofs -------------------------
(***************************************************************************)
(* Proofs about RequestParser for any requests, cut anywhere, and any      *)
(* number of reads that append other than the bytes received.              *)
(***************************************************************************)
EXTENDS RequestParser, SequenceLemmas

\* The slot is connected as long as there is a parser, and its maker looks for
\* data after that.
SignalInv ==
  /\ pending \in Nat
  /\ connected \in BOOLEAN
  /\ ~connected => pc = "unborn"
  /\ NoDataForgotten

\* Whatever the parser does with data it has taken leaves the socket alone.
LEMMA ParsingKeepsSignals ==
  ASSUME SignalInv, pc = "parse", UNCHANGED socketVars, pc' \in {"parse", "idle"}
  PROVE  SignalInv'
BY DEF SignalInv, NoDataForgotten, socketVars

LEMMA SignalInvariant == Spec => []SignalInv
<1>1. Init => SignalInv
  <2> SUFFICES ASSUME Init PROVE SignalInv
    OBVIOUS
  <2>1. pending \in Nat /\ received = <<>> /\ pc = "unborn"
    BY DEF Init
  <2>2. connected \in BOOLEAN
    BY Zenon DEF Init
  <2> QED
    BY <2>1, <2>2, Zenon DEF SignalInv, NoDataForgotten
<1>2. SignalInv /\ [Next]_vars => SignalInv'
  <2> SUFFICES ASSUME SignalInv, [Next]_vars PROVE SignalInv'
    OBVIOUS
  <2>1. CASE ReadFromSocket
    BY <2>1 DEF ReadFromSocket, SignalInv, NoDataForgotten
  <2>2. CASE NewConnection
    BY <2>2 DEF NewConnection, SignalInv, NoDataForgotten
  <2>3. CASE CheckIncomingData
    BY <2>3 DEF CheckIncomingData, BeginParse, SignalInv, NoDataForgotten
  <2>4. CASE DataReady
    BY <2>4 DEF DataReady, BeginParse, SignalInv, NoDataForgotten
  <2>5. CASE EndOfData
    BY <2>5, ParsingKeepsSignals DEF EndOfData
  <2>6. CASE ParseRequestLine
    BY <2>6, ParsingKeepsSignals DEF ParseRequestLine, ReturnFalse
  <2>7. CASE BlankLine
    BY <2>7, ParsingKeepsSignals DEF BlankLine
  <2>8. CASE ParseHeaderLine
    BY <2>8, ParsingKeepsSignals DEF ParseHeaderLine, ReturnFalse
  <2>9. CASE ParseBody
    BY <2>9, ParsingKeepsSignals DEF ParseBody, ReturnFalse, ReturnTrue
  <2>10. CASE Finished
    BY <2>10, ParsingKeepsSignals DEF Finished, ReturnTrue
  <2>11. CASE UNCHANGED vars
    BY <2>11 DEF vars, socketVars, SignalInv, NoDataForgotten
  <2> QED
    BY <2>1, <2>2, <2>3, <2>4, <2>5, <2>6, <2>7, <2>8, <2>9, <2>10, <2>11
    DEF Next, Parser
<1> QED
  BY <1>1, <1>2, PTL DEF Spec

\* However the first bytes of a connection and the making of its parser fall,
\* received bytes are either still to be looked for or have a signal queued.
THEOREM BytesAreLookedFor == Spec => []NoDataForgotten
<1>1. SignalInv => NoDataForgotten
  BY DEF SignalInv
<1> QED
  BY <1>1, SignalInvariant, PTL
-----------------------------------------------------------------------------
(* What the client sends.                                                  *)

\* The tokens of s behind the line at p are the rest of its header section, and
\* what comes later of the same request is body.
HeaderAt(s, p) ==
  /\ p + 7 <= Len(s)
  /\ s[p + 1].kind = "cr" /\ s[p + 2].kind = "lf"
  /\ s[p + 3].kind = "field" /\ s[p + 4].kind = "cr" /\ s[p + 5].kind = "lf"
  /\ s[p + 6].kind = "cr" /\ s[p + 7].kind = "lf"
  /\ \A q \in (p + 8)..Len(s) : s[q].of = s[p].of => s[q].kind = "byte"

\* The last token of the request whose line is at p.
End(s, p) == p + Len(Message(s[p].of)) - 1

\* Requests one after the other, none of them later than the n-th.
Orderly(s, n) ==
  /\ s \in Seq(Tokens)
  /\ \A p \in 1..Len(s) : s[p].of \in 1..n
  /\ \A p, q \in 1..Len(s) : p <= q => s[p].of <= s[q].of
  /\ \A p \in 1..Len(s) : s[p].kind = "line" => HeaderAt(s, p)
  /\ \A p, q \in 1..Len(s) :
       s[p].kind = "line" /\ s[q].of = s[p].of => q \in p..End(s, p)

LEMMA NumbersAre == Len(Requests) \in Nat /\ Numbers = 1..Len(Requests)
BY RequestsAssumption DEF Numbers

LEMMA BodyElements ==
  ASSUME NEW k \in Numbers
  PROVE  /\ Body(k) \in Seq({Token("byte", k)})
         /\ Len(Body(k)) = IF HasBody(k) THEN Requests[k] ELSE 0
         /\ Len(Body(k)) \in Nat
<1> DEFINE n == IF HasBody(k) THEN Requests[k] ELSE 0
<1>1. n \in Nat
  BY RequestsAssumption DEF Numbers, HasBody
<1> HIDE DEF n
<1>2. Body(k) = [j \in 1..n |-> Token("byte", k)]
  BY DEF Body, n
<1>3. /\ [j \in 1..n |-> Token("byte", k)] \in Seq({Token("byte", k)})
      /\ Len([j \in 1..n |-> Token("byte", k)]) = n
  BY <1>1
<1> QED
  BY <1>1, <1>2, <1>3 DEF n

\* A message is a header section of eight tokens and then its body.
LEMMA MessageElements ==
  ASSUME NEW k \in Numbers
  PROVE  /\ Message(k) \in Seq(Tokens)
         /\ Len(Message(k)) = 8 + Len(Body(k))
         /\ LET m == Message(k)
            IN /\ m[1].kind = "line" /\ m[2].kind = "cr" /\ m[3].kind = "lf"
               /\ m[4].kind = "field" /\ m[5].kind = "cr" /\ m[6].kind = "lf"
               /\ m[7].kind = "cr" /\ m[8].kind = "lf"
         /\ \A j \in 1..Len(Body(k)) : Message(k)[8 + j] = Body(k)[j]
         /\ \A j \in 9..Len(Message(k)) : Message(k)[j].kind = "byte"
         /\ \A j \in 1..Len(Message(k)) : Message(k)[j].of = k
<1> DEFINE a == Token("line", k)
           b == Token("cr", k)
           c == Token("lf", k)
           d == Token("field", k)
           e == Token("byte", k)
           S == {a, b, c, d, e}
           H == <<a>> \o <<b, c>> \o <<d>> \o <<b, c>> \o <<b, c>>
<1>1. /\ \A x \in S : x.of = k /\ x \in Tokens
      /\ a.kind = "line" /\ b.kind = "cr" /\ c.kind = "lf" /\ d.kind = "field"
      /\ e.kind = "byte"
  BY DEF Token, Tokens
<1>2. Message(k) = H \o Body(k)
  BY DEF Message, LineEnd
<1>3. Body(k) \in Seq({e}) /\ Len(Body(k)) \in Nat
  BY BodyElements
<1> HIDE DEF a, b, c, d, e
<1> DEFINE H1 == <<a>>
           H3 == H1 \o <<b, c>>
           H4 == H3 \o <<d>>
           H6 == H4 \o <<b, c>>
<1>4. /\ <<a>> \in Seq(S) /\ <<b, c>> \in Seq(S) /\ <<d>> \in Seq(S)
      /\ Len(<<a>>) = 1 /\ Len(<<b, c>>) = 2 /\ Len(<<d>>) = 1
      /\ <<a>>[1] = a /\ <<b, c>>[1] = b /\ <<b, c>>[2] = c /\ <<d>>[1] = d
      /\ b \in S /\ c \in S
  OBVIOUS
<1> HIDE DEF S
<1>5. /\ H \in Seq(S) /\ Len(H) = 8 /\ Body(k) \in Seq(S)
      /\ H[1] = a /\ H[4] = d
      /\ H[2] = b /\ H[5] = b /\ H[7] = b
      /\ H[3] = c /\ H[6] = c /\ H[8] = c
  <2>1. /\ H3 \in Seq(S) /\ Len(H3) = 3
        /\ H3[1] = a /\ H3[2] = b /\ H3[3] = c
    BY <1>4, TwoMore
  <2> HIDE DEF H3
  <2>2. /\ H4 \in Seq(S) /\ Len(H4) = 4
        /\ H4[1] = a /\ H4[2] = b /\ H4[3] = c /\ H4[4] = d
    <3>1. Longer(H3, d, H4)
      BY <2>1, OneMore DEF IsSequence
    <3>2. H4 \in Seq(S)
      BY <1>4, <2>1
    <3> QED
      BY <2>1, <3>1, <3>2 DEF Longer
  <2> HIDE DEF H4
  <2>3. /\ H6 \in Seq(S) /\ Len(H6) = 6
        /\ H6[1] = a /\ H6[2] = b /\ H6[3] = c /\ H6[4] = d
        /\ H6[5] = b /\ H6[6] = c
    <3>1. /\ H6 \in Seq(S) /\ Len(H6) = 4 + 2
          /\ \A j \in 1..4 : H6[j] = H4[j]
          /\ H6[4 + 1] = b /\ H6[4 + 2] = c
      <4>1. /\ H6 \in Seq(S) /\ Len(H6) = Len(H4) + 2
            /\ \A j \in 1..Len(H4) : H6[j] = H4[j]
            /\ H6[Len(H4) + 1] = b /\ H6[Len(H4) + 2] = c
        <5>1. b \in S /\ c \in S /\ H4 \in Seq(S)
          BY <1>4, <2>2
        <5> QED
          BY <5>1, TwoMore
      <4> QED
        BY <2>2, <4>1, Zenon
    <3> QED
      BY <2>2, <3>1
  <2>4. /\ H \in Seq(S) /\ Len(H) = 8
        /\ H[1] = a /\ H[2] = b /\ H[3] = c /\ H[4] = d
        /\ H[5] = b /\ H[6] = c /\ H[7] = b /\ H[8] = c
    <3>1. H = H6 \o <<b, c>>
      BY DEF H4, H3
    <3> HIDE DEF H6, H
    <3>2. /\ H \in Seq(S) /\ Len(H) = Len(H6) + 2
          /\ \A j \in 1..Len(H6) : H[j] = H6[j]
          /\ H[Len(H6) + 1] = b /\ H[Len(H6) + 2] = c
      <4>1. b \in S /\ c \in S /\ H6 \in Seq(S)
        BY <1>4, <2>3
      <4> QED
        BY <3>1, <4>1, TwoMore
    <3>3. /\ H \in Seq(S) /\ Len(H) = 6 + 2
          /\ \A j \in 1..6 : H[j] = H6[j]
          /\ H[6 + 1] = b /\ H[6 + 2] = c
      BY <2>3, <3>2, Zenon
    <3> QED
      BY <2>3, <3>3
  <2>5. Body(k) \in Seq(S)
    BY <1>3 DEF S
  <2> QED
    BY <2>4, <2>5
<1> HIDE DEF H
<1>7. H \o Body(k) \in Seq(S)
  BY <1>5
<1>8. /\ Len(H \o Body(k)) = 8 + Len(Body(k))
      /\ \A j \in 1..8 : (H \o Body(k))[j] = H[j]
      /\ \A j \in 1..Len(Body(k)) : (H \o Body(k))[8 + j] = Body(k)[j]
  <2>1. IsSequence(H) /\ IsSequence(Body(k))
    BY <1>5 DEF IsSequence
  <2>2. /\ Len(H \o Body(k)) = Len(H) + Len(Body(k))
        /\ \A j \in 1..Len(H) : (H \o Body(k))[j] = H[j]
        /\ \A j \in 1..Len(Body(k)) : (H \o Body(k))[Len(H) + j] = Body(k)[j]
    BY <2>1, ConcatElements
  <2> QED
    BY <1>5, <2>2, Zenon
<1>9. \A j \in 9..Len(H \o Body(k)) : (H \o Body(k))[j] = e
  <2> SUFFICES ASSUME NEW j \in 9..Len(H \o Body(k)) PROVE (H \o Body(k))[j] = e
    OBVIOUS
  <2>1. j - 8 \in 1..Len(Body(k)) /\ 8 + (j - 8) = j
    BY <1>3, <1>8
  <2>2. (H \o Body(k))[8 + (j - 8)] = Body(k)[j - 8] /\ Body(k)[j - 8] = e
    BY <1>3, <1>8, <2>1
  <2> QED
    BY <2>1, <2>2
<1>10. \A j \in 1..Len(H \o Body(k)) : (H \o Body(k))[j] \in S
  BY <1>7
<1>11. H \o Body(k) \in Seq(Tokens)
  BY <1>1, <1>7, <1>10 DEF S
<1>12. \A j \in 1..Len(H \o Body(k)) : (H \o Body(k))[j].of = k
  BY <1>1, <1>10 DEF S
<1>13. LET m == H \o Body(k)
       IN /\ m[1].kind = "line" /\ m[2].kind = "cr" /\ m[3].kind = "lf"
          /\ m[4].kind = "field" /\ m[5].kind = "cr" /\ m[6].kind = "lf"
          /\ m[7].kind = "cr" /\ m[8].kind = "lf"
  BY <1>1, <1>5, <1>8
<1>14. \A j \in 9..Len(H \o Body(k)) : (H \o Body(k))[j].kind = "byte"
  BY <1>1, <1>9
<1> QED
  BY <1>2, <1>8, <1>11, <1>12, <1>13, <1>14, Zenon

\* A later request behind orderly ones.
LEMMA OneMoreRequest ==
  ASSUME NEW n \in Nat, n + 1 \in Numbers, NEW s, Orderly(s, n)
  PROVE  Orderly(s \o Message(n + 1), n + 1)
<1> DEFINE k == n + 1
           m == Message(k)
           t == s \o m
<1>1. /\ m \in Seq(Tokens) /\ Len(m) \in Nat /\ Len(m) >= 8
      /\ m[1].kind = "line" /\ m[2].kind = "cr" /\ m[3].kind = "lf"
      /\ m[4].kind = "field" /\ m[5].kind = "cr" /\ m[6].kind = "lf"
      /\ m[7].kind = "cr" /\ m[8].kind = "lf"
      /\ \A j \in 9..Len(m) : m[j].kind = "byte"
      /\ \A j \in 1..Len(m) : m[j].of = k
  <2>1. k \in Numbers
    OBVIOUS
  <2> HIDE DEF k
  <2>2. Len(Body(k)) \in Nat /\ Len(m) = 8 + Len(Body(k))
    BY <2>1, MessageElements, BodyElements
  <2>3. Len(m) \in Nat /\ Len(m) >= 8
    BY <2>2
  <2> QED
    BY <2>1, <2>3, MessageElements
<1>2. s \in Seq(Tokens) /\ Len(s) \in Nat
  BY DEF Orderly
<1> HIDE DEF k, m
<1>3. /\ t \in Seq(Tokens) /\ Len(t) = Len(s) + Len(m)
      /\ \A j \in 1..Len(s) : t[j] = s[j]
      /\ \A j \in 1..Len(m) : t[Len(s) + j] = m[j]
  <2>1. t \in Seq(Tokens)
    BY <1>1, <1>2
  <2>2. IsSequence(s) /\ IsSequence(m)
    BY <1>1, <1>2 DEF IsSequence
  <2> QED
    BY <2>1, <2>2, ConcatElements
<1> HIDE DEF t
<1>0. Len(s) \in Nat /\ Len(m) \in Nat /\ Len(m) >= 8 /\ Len(t) = Len(s) + Len(m)
  BY <1>1, <1>2, <1>3
<1>4. /\ \A p \in 1..Len(s) : t[p].of \in 1..n /\ t[p].of < k
      /\ k = n + 1
  BY <1>3 DEF Orderly, k
<1>5. \A p \in (Len(s) + 1)..Len(t) :
        /\ p - Len(s) \in 1..Len(m)
        /\ t[p] = m[p - Len(s)]
        /\ t[p].of = k
  <2> SUFFICES ASSUME NEW p \in (Len(s) + 1)..Len(t)
               PROVE  /\ p - Len(s) \in 1..Len(m)
                      /\ t[p] = m[p - Len(s)]
                      /\ t[p].of = k
    OBVIOUS
  <2>1. p - Len(s) \in 1..Len(m) /\ Len(s) + (p - Len(s)) = p
    BY <1>0
  <2>2. t[Len(s) + (p - Len(s))] = m[p - Len(s)]
    BY <1>3, <2>1
  <2>3. t[p] = m[p - Len(s)] /\ m[p - Len(s)].of = k
    BY <1>1, <2>1, <2>2
  <2> QED
    BY <2>1, <2>3
<1>6. \A p \in 1..Len(t) : p \in 1..Len(s) \/ p \in (Len(s) + 1)..Len(t)
  BY <1>2, <1>3
<1>7. \A p \in 1..Len(t) : t[p].of \in 1..k
  BY <1>4, <1>5, <1>6
<1>8. \A p, q \in 1..Len(t) : p <= q => t[p].of <= t[q].of
  <2> SUFFICES ASSUME NEW p \in 1..Len(t), NEW q \in 1..Len(t), p <= q
               PROVE  t[p].of <= t[q].of
    OBVIOUS
  <2>1. CASE q \in 1..Len(s)
    <3>1. p \in 1..Len(s)
      BY <1>2, <2>1
    <3> QED
      BY <1>3, <2>1, <3>1 DEF Orderly
  <2>2. CASE q \in (Len(s) + 1)..Len(t)
    <3>1. t[q].of = k /\ t[p].of \in 1..k
      BY <1>5, <1>7, <2>2
    <3> QED
      BY <1>4, <3>1
  <2> QED
    BY <1>6, <2>1, <2>2
<1>11. ASSUME NEW p \in (Len(s) + 1)..Len(t), t[p].kind = "line"
       PROVE  p - Len(s) = 1 /\ p = Len(s) + 1
  <2>1. m[p - Len(s)].kind = "line" /\ p - Len(s) \in 1..Len(m)
    BY <1>5, <1>11
  <2>2. \A j \in 2..8 : m[j].kind # "line"
    <3>1. \A j \in 2..8 : j \in {2, 3, 4, 5, 6, 7, 8}
      OBVIOUS
    <3> QED
      BY <1>1, <3>1
  <2>3. p - Len(s) \notin 9..Len(m)
    BY <1>1, <2>1
  <2>4. \A j \in 1..Len(m) : j = 1 \/ j \in 2..8 \/ j \in 9..Len(m)
    BY <1>0
  <2>5. p - Len(s) = 1
    BY <2>1, <2>2, <2>3, <2>4
  <2> QED
    BY <1>0, <2>5
<1>9. ASSUME NEW p \in 1..Len(t), t[p].kind = "line"
      PROVE  HeaderAt(t, p)
  <2>1. CASE p \in 1..Len(s)
    <3>1. HeaderAt(s, p)
      BY <1>3, <1>9, <2>1 DEF Orderly
    <3>2. p + 7 <= Len(s) /\ p + 7 <= Len(t)
      BY <1>1, <1>2, <1>3, <3>1 DEF HeaderAt
    <3>3. \A d \in {1, 2, 3, 4, 5, 6, 7} : t[p + d] = s[p + d]
      <4> SUFFICES ASSUME NEW d \in {1, 2, 3, 4, 5, 6, 7} PROVE t[p + d] = s[p + d]
        OBVIOUS
      <4>1. p + d \in 1..Len(s)
        BY <1>2, <3>2
      <4> QED
        BY <1>3, <4>1
    <3>4. ASSUME NEW q \in (p + 8)..Len(t), t[q].of = t[p].of
          PROVE  t[q].kind = "byte"
      <4>1. q \in 1..Len(t) /\ q \notin (Len(s) + 1)..Len(t)
        BY <1>3, <1>4, <1>5, <2>1, <3>4
      <4>2. q \in 1..Len(s) /\ q \in (p + 8)..Len(s)
        BY <1>6, <2>1, <4>1
      <4> QED
        BY <1>3, <2>1, <3>1, <3>4, <4>2 DEF HeaderAt
    <3> QED
      BY <3>1, <3>2, <3>3, <3>4 DEF HeaderAt
  <2>2. CASE p \in (Len(s) + 1)..Len(t)
    <3>1. p - Len(s) = 1
      BY <1>9, <1>11, <2>2
    <3>2. p = Len(s) + 1 /\ p + 7 <= Len(t)
      BY <1>1, <1>2, <1>3, <2>2, <3>1
    <3>3. \A d \in {1, 2, 3, 4, 5, 6, 7} : t[p + d] = m[1 + d]
      <4> SUFFICES ASSUME NEW d \in {1, 2, 3, 4, 5, 6, 7} PROVE t[p + d] = m[1 + d]
        OBVIOUS
      <4>1. d \in 1..7
        OBVIOUS
      <4>2. Len(m) \in Nat /\ Len(m) >= 8 /\ Len(s) \in Nat /\ p = Len(s) + 1
        BY <1>0, <1>1, <3>2
      <4>3. 1 + d \in 1..Len(m) /\ p + d = Len(s) + (1 + d)
        BY ONLY <4>1, <4>2
      <4> QED
        BY <1>3, <4>3
    <3>4. ASSUME NEW q \in (p + 8)..Len(t) PROVE t[q].kind = "byte"
      <4>1. q \in (Len(s) + 1)..Len(t) /\ q - Len(s) \in 9..Len(m)
        BY <1>1, <1>2, <1>3, <3>2
      <4> QED
        BY <1>1, <1>5, <4>1
    <3>5. /\ t[p + 1] = m[2] /\ t[p + 2] = m[3] /\ t[p + 3] = m[4] /\ t[p + 4] = m[5]
          /\ t[p + 5] = m[6] /\ t[p + 6] = m[7] /\ t[p + 7] = m[8]
      BY <3>3
    <3> QED
      BY <1>1, <3>2, <3>4, <3>5 DEF HeaderAt
  <2> QED
    BY <1>6, <2>1, <2>2
<1>12. ASSUME NEW p \in 1..Len(t), NEW q \in 1..Len(t),
              t[p].kind = "line", t[q].of = t[p].of
       PROVE  q \in p..End(t, p)
  <2>1. CASE p \in 1..Len(s)
    <3>1. q \in 1..Len(s)
      BY <1>4, <1>5, <1>6, <1>12, <2>1
    <3>2. t[p] = s[p] /\ t[q] = s[q]
      BY <1>3, <2>1, <3>1
    <3>3. q \in p..End(s, p)
      BY <1>12, <2>1, <3>1, <3>2 DEF Orderly
    <3> QED
      BY <3>2, <3>3 DEF End
  <2>2. CASE p \in (Len(s) + 1)..Len(t)
    <3>1. p = Len(s) + 1 /\ t[p].of = k
      BY <1>5, <1>11, <1>12, <2>2
    <3>2. q \in (Len(s) + 1)..Len(t)
      BY <1>4, <1>6, <1>12, <3>1
    <3>3. End(t, p) = Len(s) + 1 + Len(m) - 1
      BY <3>1, Zenon DEF End, m
    <3> QED
      BY <1>0, <3>1, <3>2, <3>3
  <2> QED
    BY <1>6, <2>1, <2>2
<1>10. Orderly(t, k)
  BY <1>3, <1>7, <1>8, <1>9, <1>12 DEF Orderly
<1> QED
  BY <1>10 DEF t, m, k

\* What the client will send is its requests in order.
LEMMA StreamIsOrderly == Orderly(Stream, Len(Requests))
<1> DEFINE ss == [k \in Numbers |-> Message(k)]
           N == Len(Requests)
<1>1. N \in Nat /\ Numbers = 1..N
  BY NumbersAre
<1>2. ss \in Seq(Seq(Tokens)) /\ Len(ss) = N /\ \A k \in Numbers : ss[k] = Message(k)
  <2>1. \A k \in Numbers : Message(k) \in Seq(Tokens)
    BY MessageElements
  <2> QED
    BY <1>1, <2>1
<1>3. Orderly(<<>>, 0)
  BY DEF Orderly
<1> HIDE DEF ss
<1>4. CASE N = 0
  <2>1. ss = <<>>
    BY <1>2, <1>4, EmptySeq
  <2>2. FlattenSeq(ss) = <<>>
    BY <2>1 DEF FlattenSeq
  <2> QED
    BY <1>3, <1>4, <2>2 DEF Stream, ss
<1>5. CASE N # 0
  <2>1. IsSequence(ss) /\ ss # <<>>
    BY <1>1, <1>2, <1>5 DEF IsSequence
  <2>2. PICK f : /\ f[1] = ss[1]
                 /\ \A i \in 2..Len(ss) : f[i] = f[i - 1] \o ss[i]
                 /\ FlattenSeq(ss) = f[Len(ss)]
    BY <2>1, FlattenSteps
  <2> DEFINE G == {i \in 1..N : Orderly(f[i], i)}
  <2>3. 1 \in G
    <3>1. Orderly(<<>> \o Message(0 + 1), 0 + 1)
      <4>1. 0 \in Nat /\ 0 + 1 \in Numbers
        BY <1>1, <1>5
      <4> QED
        BY <1>3, <4>1, OneMoreRequest
    <3>2. <<>> \o Message(1) = Message(1) /\ 1 \in Numbers
      BY <1>1, <1>5, MessageElements
    <3> QED
      BY <1>1, <1>2, <1>5, <2>2, <3>1, <3>2
  <2>4. ASSUME NEW i \in 1..(N - 1), i \in G PROVE i + 1 \in G
    <3>1. i + 1 \in Numbers /\ i + 1 \in 2..N /\ (i + 1) - 1 = i /\ i \in Nat
      BY <1>1
    <3>2. f[i + 1] = f[i] \o Message(i + 1)
      BY <1>2, <2>2, <3>1
    <3>3. Orderly(f[i] \o Message(i + 1), i + 1)
      BY <2>4, <3>1, OneMoreRequest
    <3> QED
      BY <1>1, <3>1, <3>2, <3>3
  <2>5. N \in G
    <3> HIDE DEF G
    <3>1. 1..N \subseteq G
      BY <1>1, <2>3, <2>4, UpTo
    <3> QED
      BY <1>1, <1>5, <3>1
  <2> QED
    BY <1>2, <2>2, <2>5 DEF Stream, ss
<1> QED
  BY <1>4, <1>5
-----------------------------------------------------------------------------
(* What the parser has before it.                                          *)

Position == buffer \in Seq(Tokens) /\ pos \in 0..Len(buffer)

LEMMA RestElements ==
  ASSUME NEW b \in Seq(Tokens), NEW p \in 0..Len(b)
  PROVE  LET rest == SubSeq(b, p + 1, Len(b))
         IN /\ rest \in Seq(Tokens) /\ Len(b) \in Nat
            /\ Len(rest) = Len(b) - p /\ Len(rest) \in Nat
            /\ \A j \in 1..Len(rest) : rest[j] = b[p + j] /\ rest[j] \in Tokens
            /\ rest = <<>> <=> p = Len(b)
<1> DEFINE n == Len(b)
           rest == SubSeq(b, p + 1, n)
<1>1. IsSequence(b) /\ n \in Nat /\ p + 1 \in Nat \ {0} /\ p + 1 <= n + 1
  BY DEF IsSequence
<1>2. /\ Len(rest) = n + 1 - (p + 1)
      /\ \A j \in 1..(n + 1 - (p + 1)) : rest[j] = b[p + 1 - 1 + j]
  BY <1>1, SubSeqElements
<1>3. rest \in Seq(Tokens)
  <2>1. \A i \in (p + 1)..n : b[i] \in Tokens
    BY <1>1
  <2> QED
    BY <1>1, <2>1, SubSeqProperties
<1>4. n + 1 - (p + 1) = n - p /\ n - p \in Nat
  BY <1>1
<1>5. \A j \in 1..(n - p) : p + 1 - 1 + j = p + j
  BY <1>1
<1> HIDE DEF rest
<1>6. Len(rest) = n - p /\ \A j \in 1..(n - p) : rest[j] = b[p + j]
  BY <1>2, <1>4, <1>5
<1>7. \A j \in 1..Len(rest) : rest[j] \in Tokens
  BY <1>3
<1>8. rest = <<>> <=> Len(rest) = 0
  BY <1>3, EmptySeq
<1>9. Len(rest) = 0 <=> p = n
  BY <1>1, <1>6
<1>10. Len(rest) \in Nat
  BY <1>4, <1>6
<1> QED
  BY <1>1, <1>3, <1>6, <1>7, <1>8, <1>9, <1>10, Zenon DEF rest

LEMMA DataElements ==
  ASSUME Position
  PROVE  /\ Data \in Seq(Tokens) /\ Len(buffer) \in Nat
         /\ Len(Data) = Len(buffer) - pos /\ Len(Data) \in Nat
         /\ \A j \in 1..Len(Data) : Data[j] = buffer[pos + j] /\ Data[j] \in Tokens
         /\ Data = <<>> <=> pos = Len(buffer)
BY RestElements, Zenon DEF Data, Position

\* The first of the places found, with nothing found before it.
LEMMA FirstIs ==
  ASSUME NEW n \in Nat, NEW found \in SUBSET (1..n)
  PROVE  /\ First(found) \in 0..n
         /\ First(found) # None =>
              First(found) \in found /\ \A l \in 1..(First(found) - 1) : l \notin found
         /\ First(found) = None => found = {}
<1>1. found \in SUBSET Nat
  OBVIOUS
<1>2. CASE found = {}
  BY <1>2 DEF First, None
<1>3. CASE found # {}
  <2> DEFINE Least(j) == \A l \in found : j <= l
             q == CHOOSE j \in found : Least(j)
  <2>1. \E j \in found : Least(j)
    BY <1>1, <1>3, LeastExists
  <2>2. q \in found /\ Least(q)
    <3> HIDE DEF Least
    <3> QED
      BY <2>1
  <2>3. First(found) = q
    BY <1>3 DEF First
  <2> HIDE DEF q
  <2>4. q \in 1..n
    BY <2>2
  <2>5. ASSUME NEW l \in 1..(q - 1) PROVE l \notin found
    <3>1. ~(q <= l)
      BY <2>4
    <3> QED
      BY <2>2, <3>1
  <2>6. q # None /\ q \in 0..n
    BY <2>4 DEF None
  <2> QED
    BY <2>2, <2>3, <2>5, <2>6
<1> QED
  BY <1>2, <1>3

\* Where the first is known to be.
LEMMA FirstAt ==
  ASSUME NEW n \in Nat, NEW found \in SUBSET (1..n), NEW m \in found,
         \A l \in 1..(m - 1) : l \notin found
  PROVE  First(found) = m
<1>1. m \in 1..n
  OBVIOUS
<1>2. First(found) \in found /\ First(found) \in 1..n
  BY FirstIs
<1>3. ~(First(found) < m)
  <2>1. First(found) < m => First(found) \in 1..(m - 1)
    BY <1>1, <1>2
  <2> QED
    BY <1>2, <2>1
<1>4. ~(m < First(found))
  <2>1. m < First(found) => m \in 1..(First(found) - 1) /\ First(found) # None
    BY <1>1, <1>2 DEF None
  <2> QED
    BY <2>1, FirstIs
<1> QED
  BY <1>1, <1>2, <1>3, <1>4

LineEnds == {"cr", "lf"}

LEMMA EndOfLineIs ==
  ASSUME Position
  PROVE  /\ EndOfLine \in 0..Len(Data)
         /\ EndOfLine # None =>
              /\ Data[EndOfLine].kind \in LineEnds
              /\ \A l \in 1..(EndOfLine - 1) : Data[l].kind \notin LineEnds
         /\ EndOfLine = None => \A l \in 1..Len(Data) : Data[l].kind \notin LineEnds
<1> DEFINE found == {j \in 1..Len(Data) : Data[j].kind \in LineEnds}
<1>1. Len(Data) \in Nat /\ EndOfLine = First(found)
  BY DataElements DEF EndOfLine, LineEnds
<1>2. found \in SUBSET (1..Len(Data))
  OBVIOUS
<1>3. \A l \in 1..Len(Data) : l \in found <=> Data[l].kind \in LineEnds
  OBVIOUS
<1> HIDE DEF found
<1>4. \A m \in 0..Len(Data) : \A l \in 1..(m - 1) : l \in 1..Len(Data)
  BY <1>1
<1> QED
  BY <1>1, <1>2, <1>3, <1>4, FirstIs

LEMMA EndOfLineAt ==
  ASSUME Position, NEW m \in 1..Len(Data), Data[m].kind \in LineEnds,
         \A l \in 1..(m - 1) : Data[l].kind \notin LineEnds
  PROVE  EndOfLine = m
<1> DEFINE found == {j \in 1..Len(Data) : Data[j].kind \in LineEnds}
<1>1. Len(Data) \in Nat /\ EndOfLine = First(found)
  BY DataElements DEF EndOfLine, LineEnds
<1>2. m \in found /\ \A l \in 1..(m - 1) : l \notin found
  OBVIOUS
<1>3. found \in SUBSET (1..Len(Data))
  OBVIOUS
<1> HIDE DEF found
<1> QED
  BY <1>1, <1>2, <1>3, FirstAt

LEMMA ColonIs ==
  ASSUME Position
  PROVE  /\ Colon \in 0..Len(Data)
         /\ Colon # None =>
              /\ HasColon(Data[Colon])
              /\ \A l \in 1..(Colon - 1) : ~HasColon(Data[l])
<1> DEFINE found == {j \in 1..Len(Data) : HasColon(Data[j])}
<1>1. Len(Data) \in Nat /\ Colon = First(found)
  BY DataElements DEF Colon
<1>2. found \in SUBSET (1..Len(Data))
  OBVIOUS
<1>3. \A l \in 1..Len(Data) : l \in found <=> HasColon(Data[l])
  OBVIOUS
<1> HIDE DEF found
<1>4. \A m \in 0..Len(Data) : \A l \in 1..(m - 1) : l \in 1..Len(Data)
  BY <1>1
<1> QED
  BY <1>1, <1>2, <1>3, <1>4, FirstIs

\* Data that begin with a field have their first colon there.
LEMMA ColonFirst ==
  ASSUME Position, Len(Data) >= 1, Data[1].kind = "field"
  PROVE  Colon = 1
<1> DEFINE found == {j \in 1..Len(Data) : HasColon(Data[j])}
<1>1. Len(Data) \in Nat /\ Colon = First(found)
  BY DataElements DEF Colon
<1>2. 1 \in found /\ \A l \in 1..(1 - 1) : l \notin found
  BY <1>1 DEF HasColon
<1>3. found \in SUBSET (1..Len(Data))
  OBVIOUS
<1> HIDE DEF found
<1> QED
  BY <1>1, <1>2, <1>3, FirstAt

\* The text of a line that is one token is the first token of the data.
LEMMA LineBefore ==
  ASSUME Position, EndOfLine # None, Len(LineText) = 1
  PROVE  /\ EndOfLine = 2 /\ 1 \in 1..Len(Data) /\ LineText[1] = Data[1]
         /\ Data[1].kind = "line" => Data[1].of \in Numbers
<1>1. Data \in Seq(Tokens) /\ Len(Data) \in Nat /\ EndOfLine \in 1..Len(Data)
  BY DataElements, EndOfLineIs DEF None
<1> DEFINE m == EndOfLine - 1
<1>2. m \in Nat /\ m <= Len(Data) /\ m + 1 - 1 = m
  BY <1>1
<1>3. IsSequence(Data) /\ 1 \in Nat \ {0} /\ 1 <= m + 1
  BY <1>1, <1>2 DEF IsSequence
<1> HIDE DEF m
<1>4. /\ Len(SubSeq(Data, 1, m)) = m + 1 - 1
      /\ \A j \in 1..(m + 1 - 1) : SubSeq(Data, 1, m)[j] = Data[1 - 1 + j]
  BY <1>2, <1>3, SubSeqElements
<1>5. LineText = SubSeq(Data, 1, m)
  BY DEF LineText, m
<1>6. m = 1
  BY <1>2, <1>4, <1>5
<1>7. LineText[1] = Data[1 - 1 + 1]
  BY <1>4, <1>5, <1>6
<1>8. EndOfLine = 2 /\ 1 \in 1..Len(Data)
  BY <1>1, <1>6 DEF m
<1>9. Data[1] \in Tokens
  BY <1>1, <1>8
<1> QED
  BY <1>7, <1>8, <1>9 DEF Tokens

\* What the parser moves past a prefix of.
LEMMA Removed ==
  ASSUME Position, NEW n \in Nat, RemovePrefix(n), buffer' = buffer
  PROVE  /\ Position'
         /\ alive' = alive \/ alive' = FALSE
         /\ alive' => pos' = pos + n
         /\ n <= Len(Data) =>
              /\ pos' = pos + n /\ alive' = alive
              /\ Len(Data') = Len(Data) - n
              /\ \A j \in 1..Len(Data') : Data'[j] = Data[n + j]
<1>1. /\ Len(buffer) \in Nat /\ Len(Data) = Len(buffer) - pos /\ Len(Data) \in Nat
      /\ \A j \in 1..Len(Data) : Data[j] = buffer[pos + j]
  BY DataElements
<1>2. CASE n <= Len(Data)
  <2>1. pos' = pos + n /\ alive' = alive
    BY <1>2 DEF RemovePrefix
  <2>2. Position'
    BY <1>1, <1>2, <2>1 DEF Position
  <2>3. /\ Len(Data') = Len(buffer') - pos'
        /\ \A j \in 1..Len(Data') : Data'[j] = buffer'[pos' + j]
    BY <2>2, RestElements, Zenon DEF Data, Position
  <2>4. Len(Data') = Len(Data) - n
    BY <1>1, <2>1, <2>3 DEF Position
  <2>5. ASSUME NEW j \in 1..Len(Data') PROVE Data'[j] = Data[n + j]
    <3>1. n + j \in 1..Len(Data) /\ pos + (n + j) = (pos + n) + j
      BY <1>1, <1>2, <2>4 DEF Position
    <3> QED
      BY <1>1, <2>1, <2>3, <2>5, <3>1
  <2> QED
    BY <2>1, <2>2, <2>4, <2>5, Zenon
<1>3. CASE ~(n <= Len(Data))
  BY <1>1, <1>3 DEF RemovePrefix, Position
<1> QED
  BY <1>2, <1>3
-----------------------------------------------------------------------------
(* Types.                                                                  *)

Socket ==
  /\ stream \in Seq(Tokens) /\ received \in Seq(Tokens)
  /\ connected \in BOOLEAN
  /\ pending \in Nat
  /\ garbled \in 0..MaxGarbled

Line == [line : Numbers \cup {None}, length : Numbers \cup {None}, body : Seq(Tokens)]

Emission == [line : Numbers, length : Numbers \cup {None}, body : Seq(Tokens),
             whole : BOOLEAN]

\* The Content-Length the request object has is that of a request with a body, and
\* without one it has no body.
RequestInv ==
  /\ request \in Line
  /\ status # "REQUEST_LINE" => request.line # None
  /\ request.length # None => HasBody(request.length)
  /\ request.length = None => request.body = <<>>

TInv ==
  /\ Socket
  /\ Position
  /\ RequestInv
  /\ emitted \in Seq(Emission)
  /\ pc \in {"unborn", "born", "idle", "parse"}
  /\ parsed \in Nat /\ (alive => parsed <= pos)
  /\ status \in {"REQUEST_LINE", "HEADER_LINES", "BODY", "FINISHED"}
  /\ whole \in BOOLEAN
  /\ alive \in BOOLEAN

LEMMA LengthIsNat ==
  ASSUME RequestInv, request.length # None
  PROVE  request.length \in Numbers /\ Requests[request.length] \in Nat
<1>1. request.length \in Numbers /\ HasBody(request.length)
  BY DEF RequestInv, Line
<1> QED
  BY <1>1, RequestsAssumption DEF Numbers, HasBody

LEMMA EmittedType ==
  ASSUME TInv, NEW r \in Line, r.line # None, EmitRequest(r)
  PROVE  emitted' \in Seq(Emission)
<1> DEFINE e == [line |-> r.line, length |-> r.length, body |-> r.body, whole |-> whole]
<1>1. e \in Emission
  <2>1. whole \in BOOLEAN
    BY DEF TInv
  <2>2. r.line \in Numbers /\ r.length \in Numbers \cup {None} /\ r.body \in Seq(Tokens)
    BY DEF Line
  <2> QED
    BY <2>1, <2>2, Zenon DEF Emission
<1> HIDE DEF e
<1>2. emitted' = Append(emitted, e) /\ emitted \in Seq(Emission)
  BY DEF EmitRequest, TInv, e
<1> QED
  BY <1>1, <1>2

LEMMA SliceElements ==
  ASSUME NEW s \in Seq(Tokens), NEW m \in 0..Len(s), NEW k \in 0..m
  PROVE  LET slice == SubSeq(s, k + 1, m)
         IN /\ slice \in Seq(Tokens) /\ Len(slice) = m - k
            /\ \A j \in 1..(m - k) : slice[j] = s[k + j]
<1>1. /\ Len(s) \in Nat /\ m \in Nat /\ k \in Nat /\ k <= m /\ m <= Len(s)
      /\ k + 1 <= m + 1 /\ IsSequence(s) /\ k + 1 \in Nat \ {0} /\ m + 1 - (k + 1) = m - k
      /\ \A j \in 1..(m - k) : k + 1 - 1 + j = k + j
  BY DEF IsSequence
<1>2. /\ Len(SubSeq(s, k + 1, m)) = m + 1 - (k + 1)
      /\ \A j \in 1..(m + 1 - (k + 1)) : SubSeq(s, k + 1, m)[j] = s[k + 1 - 1 + j]
  BY <1>1, SubSeqElements
<1>3. SubSeq(s, k + 1, m) \in Seq(Tokens)
  <2>1. \A i \in (k + 1)..m : s[i] \in Tokens
    BY <1>1
  <2> QED
    BY <1>1, <2>1, SubSeqProperties
<1>4. \A j \in 1..(m - k) : SubSeq(s, k + 1, m)[j] = s[k + j]
  BY <1>1, <1>2
<1> QED
  BY <1>1, <1>2, <1>3, <1>4

\* Two sequences, one behind the other.
HeldParts(b, r) ==
  /\ b \o r \in Seq(Tokens) /\ Len(b \o r) = Len(b) + Len(r)
  /\ \A i \in 1..Len(b) : i \in 1..Len(b \o r) /\ (b \o r)[i] = b[i]
  /\ \A i \in 1..Len(r) : /\ Len(b) + i \in 1..Len(b \o r)
                          /\ (b \o r)[Len(b) + i] = r[i]
  /\ \A i \in 1..Len(b \o r) :
       i \in 1..Len(b) \/ (i > Len(b) /\ i - Len(b) \in 1..Len(r))

LEMMA HeldElementsOf ==
  ASSUME NEW b \in Seq(Tokens), NEW r \in Seq(Tokens)
  PROVE  HeldParts(b, r)
<1>1. /\ Len(b) \in Nat /\ Len(r) \in Nat
      /\ b \o r \in Seq(Tokens) /\ Len(b \o r) = Len(b) + Len(r)
      /\ \A i \in 1..Len(b) : (b \o r)[i] = b[i]
      /\ \A i \in 1..Len(r) : (b \o r)[Len(b) + i] = r[i]
  OBVIOUS
<1>2. \A i \in 1..Len(b) : i \in 1..Len(b \o r)
  BY <1>1
<1>3. \A i \in 1..Len(r) : Len(b) + i \in 1..Len(b \o r)
  BY <1>1
<1>4. \A i \in 1..Len(b \o r) :
        i \in 1..Len(b) \/ (i > Len(b) /\ i - Len(b) \in 1..Len(r))
  BY <1>1
<1> QED
  BY <1>1, <1>2, <1>3, <1>4 DEF HeldParts

LEMMA Regrouped ==
  ASSUME NEW x \in Seq(Tokens), NEW y \in Seq(Tokens), NEW w \in Seq(Tokens)
  PROVE  (x \o y) \o w = x \o (y \o w)
BY ConcatAssociative

\* The tokens of c are of the next n, in their order and as h says, or leftovers,
\* with none of those in front.
Chunk(c, h, n) ==
  /\ c \in Seq(Tokens)
  /\ h \in [1..Len(c) -> 0..n]
  /\ \A j \in 1..Len(c) : IF h[j] = 0 THEN c[j] \in Leftovers ELSE c[j] = stream[h[j]]
  /\ \A i, j \in 1..Len(c) : i < j /\ h[i] # 0 /\ h[j] # 0 => h[i] < h[j]
  /\ 1 \in 1..Len(c) => h[1] # 0

LEMMA LeftoverElements ==
  ASSUME NEW t \in Leftovers
  PROVE  t \in Tokens /\ t.of = None /\ t.of = 0 /\ t.kind # "line"
BY DEF Leftovers, Token, Tokens, None

\* The next a tokens, leftovers, and those from behind the m-th to the n-th.
LEMMA Pieces ==
  ASSUME stream \in Seq(Tokens), NEW n \in 1..Len(stream), NEW m \in 1..n,
         NEW a \in 0..m, NEW s \in Seq(Leftovers), a = 0 => s = <<>>
  PROVE  \E h : Chunk((SubSeq(stream, 1, a) \o s) \o SubSeq(stream, m + 1, n), h, n)
<1> DEFINE x == SubSeq(stream, 1, a)
           y == SubSeq(stream, m + 1, n)
           c == (x \o s) \o y
           z == Len(s)
           h == [j \in 1..Len(c) |-> IF j <= a THEN j
                                     ELSE IF j <= a + z THEN 0 ELSE m + (j - a - z)]
<1>1. /\ Len(stream) \in Nat /\ n \in Nat /\ m \in Nat /\ a \in Nat /\ z \in Nat
      /\ a <= m /\ m <= n /\ n <= Len(stream)
  OBVIOUS
<1>2. /\ x \in Seq(Tokens) /\ Len(x) = a /\ \A j \in 1..a : x[j] = stream[j]
  <2>1. a \in 0..Len(stream) /\ 0 \in 0..a
    BY <1>1
  <2> QED
    BY <2>1, SliceElements
<1>3. /\ y \in Seq(Tokens) /\ Len(y) = n - m
      /\ \A j \in 1..(n - m) : y[j] = stream[m + j]
  <2>1. n \in 0..Len(stream) /\ m \in 0..n
    BY <1>1
  <2> QED
    BY <2>1, SliceElements
<1>4. s \in Seq(Tokens) /\ \A j \in 1..z : s[j] \in Leftovers
  <2>1. \A j \in 1..z : s[j] \in Leftovers /\ s[j] \in Tokens
    BY LeftoverElements
  <2> QED
    BY <2>1
<1> HIDE DEF x, y
<1>5. /\ c \in Seq(Tokens) /\ Len(c) = a + z + (n - m)
      /\ \A j \in 1..a : c[j] = stream[j]
      /\ \A j \in 1..z : c[a + j] \in Leftovers
      /\ \A j \in 1..(n - m) : c[a + z + j] = stream[m + j]
  <2>1. PICK w : w = x \o s
    OBVIOUS
  <2>2. /\ w \in Seq(Tokens) /\ Len(w) = a + z
        /\ \A j \in 1..a : w[j] = x[j]
        /\ \A j \in 1..z : w[a + j] = s[j]
    BY <1>2, <1>4, <2>1
  <2>3. c = w \o y
    BY <2>1
  <2> HIDE DEF c, z
  <2>4. PICK u : u = a + z
    OBVIOUS
  <2>5. /\ c \in Seq(Tokens) /\ Len(c) = u + (n - m)
        /\ \A j \in 1..u : c[j] = w[j]
        /\ \A j \in 1..(n - m) : c[u + j] = y[j]
    <3>1. /\ HeldParts(w, y) /\ Len(w) = u /\ Len(y) = n - m
          /\ u \in Nat /\ n - m \in Nat
      BY <1>1, <1>3, <2>2, <2>4, HeldElementsOf
    <3>2. /\ c \in Seq(Tokens) /\ Len(c) = Len(w) + Len(y)
          /\ \A j \in 1..Len(w) : c[j] = w[j]
          /\ \A j \in 1..Len(y) : c[Len(w) + j] = y[j]
      BY ONLY <2>3, <3>1, Zenon DEF HeldParts
    <3> QED
      BY <3>1, <3>2
  <2>6. ASSUME NEW j \in 1..a PROVE c[j] = stream[j]
    <3>1. j \in 1..u
      BY <1>1, <2>4
    <3> QED
      BY <1>2, <2>2, <2>5, <3>1
  <2>7. ASSUME NEW j \in 1..z PROVE c[a + j] \in Leftovers
    <3>1. a + j \in 1..u
      BY <1>1, <2>4
    <3> QED
      BY <1>4, <2>2, <2>5, <3>1
  <2>8. \A j \in 1..(n - m) : c[a + z + j] = stream[m + j]
    BY <1>3, <2>4, <2>5
  <2> QED
    BY <2>4, <2>5, <2>6, <2>7, <2>8
<1> HIDE DEF c, z
<1>6. ASSUME NEW j \in 1..Len(c)
      PROVE  \/ j \in 1..a /\ h[j] = j
             \/ \E i \in 1..z : j = a + i /\ h[j] = 0
             \/ \E i \in 1..(n - m) : j = a + z + i /\ h[j] = m + i
  <2>1. CASE j <= a
    BY <1>1, <1>5, <2>1
  <2>2. CASE ~(j <= a) /\ j <= a + z
    <3>1. j - a \in 1..z /\ j = a + (j - a) /\ h[j] = 0
      BY <1>1, <1>5, <2>2
    <3> QED
      BY <3>1
  <2>3. CASE ~(j <= a) /\ ~(j <= a + z)
    <3>1. j - a - z \in 1..(n - m) /\ j = a + z + (j - a - z) /\ h[j] = m + (j - a - z)
      BY <1>1, <1>5, <2>3
    <3> QED
      BY <3>1
  <2> QED
    BY <2>1, <2>2, <2>3
<1>7. DOMAIN h = 1..Len(c) /\ h = [j \in 1..Len(c) |-> h[j]]
  OBVIOUS
<1> HIDE DEF h
<1>8. h \in [1..Len(c) -> 0..n]
  <2>1. ASSUME NEW j \in 1..Len(c) PROVE h[j] \in 0..n
    BY <1>1, <1>6
  <2> QED
    BY <1>7, <2>1
<1>9. ASSUME NEW j \in 1..Len(c)
      PROVE  IF h[j] = 0 THEN c[j] \in Leftovers ELSE c[j] = stream[h[j]]
  <2>1. CASE j \in 1..a /\ h[j] = j
    BY <1>1, <1>5, <2>1
  <2>2. ASSUME NEW i \in 1..z, j = a + i, h[j] = 0 PROVE c[j] \in Leftovers
    BY <1>5, <2>2
  <2>3. ASSUME NEW i \in 1..(n - m), j = a + z + i, h[j] = m + i
        PROVE  c[j] = stream[h[j]] /\ h[j] # 0
    BY <1>1, <1>5, <2>3
  <2> QED
    BY <1>6, <2>1, <2>2, <2>3
<1>10. ASSUME NEW i \in 1..Len(c), NEW j \in 1..Len(c), i < j, h[i] # 0, h[j] # 0
       PROVE  h[i] < h[j]
  <2>1. i \in Nat /\ j \in Nat
    OBVIOUS
  <2>2. (i \in 1..a /\ h[i] = i) \/ (h[i] = m + (i - a - z) /\ i > a + z)
    BY <1>1, <1>6, <1>10
  <2>3. (j \in 1..a /\ h[j] = j) \/ (h[j] = m + (j - a - z) /\ j > a + z)
    BY <1>1, <1>6, <1>10
  <2>4. PICK u, v : u = h[i] /\ v = h[j]
    OBVIOUS
  <2>5. /\ (i \in 1..a /\ u = i) \/ (u = m + (i - a - z) /\ i > a + z)
        /\ (j \in 1..a /\ v = j) \/ (v = m + (j - a - z) /\ j > a + z)
    BY <2>2, <2>3, <2>4
  <2>6. u < v
    BY ONLY <1>1, <1>10, <2>1, <2>5
  <2> QED
    BY <2>4, <2>6
<1>11. ASSUME 1 \in 1..Len(c) PROVE h[1] # 0
  <2>1. a = 0 => z = 0
    BY DEF z
  <2> QED
    BY <1>1, <1>6, <1>11, <2>1
<1>12. Chunk(c, h, n)
  BY <1>5, <1>8, <1>9, <1>10, <1>11 DEF Chunk
<1> QED
  BY <1>12 DEF c, x, y

\* What readFromSocket appends: what it has received, as long as nothing is garbled.
LEMMA ReadAppends ==
  ASSUME Socket, ReadFromSocket
  PROVE  \E n, c, h :
           /\ n \in 1..Len(stream) /\ Chunk(c, h, n)
           /\ received' = received \o c
           /\ stream' = SubSeq(stream, n + 1, Len(stream))
<1>1. PICK n \in 1..Len(stream) :
        /\ \/ received' = received \o SubSeq(stream, 1, n)
           \/ \E m \in 1..n, a \in 0..n, s \in {<<>>} \cup {<<t>> : t \in Leftovers} :
                /\ (a = m /\ s # <<>>) \/ (a < m /\ s = <<>>)
                /\ received' = received \o SubSeq(stream, 1, a) \o s
                                        \o SubSeq(stream, m + 1, n)
        /\ stream' = SubSeq(stream, n + 1, Len(stream))
  <2>1. PICK n \in 1..Len(stream) :
          /\ \/ received' = received \o SubSeq(stream, 1, n)
             \/ \E m \in 1..n : \E a \in 0..m, s \in {<<>>} \cup {<<t>> : t \in Leftovers} :
                  /\ \/ a = m /\ s # <<>>
                     \/ a < m /\ s = <<>> /\ stream[a + 1].kind = "byte"
                  /\ received' = received \o SubSeq(stream, 1, a) \o s
                                          \o SubSeq(stream, m + 1, n)
          /\ stream' = SubSeq(stream, n + 1, Len(stream))
    BY DEF ReadFromSocket
  <2>2. \A m \in 1..n : \A a \in 0..m : a \in 0..n
    OBVIOUS
  <2> QED
    BY <2>1, <2>2, Zenon
<1>2. stream \in Seq(Tokens) /\ received \in Seq(Tokens) /\ Len(stream) \in Nat
  BY DEF Socket
<1>3. CASE received' = received \o SubSeq(stream, 1, n)
  <2>1. n \in 1..n /\ n \in 0..n /\ n # 0 /\ <<>> \in Seq(Leftovers)
    OBVIOUS
  <2>2. PICK h : Chunk((SubSeq(stream, 1, n) \o <<>>) \o SubSeq(stream, n + 1, n), h, n)
    BY <1>2, <2>1, Pieces
  <2>3. SubSeq(stream, 1, n) \in Seq(Tokens)
    <3>1. n \in 0..Len(stream) /\ 0 \in 0..n
      BY <1>2
    <3> QED
      BY <1>2, <3>1, SliceElements
  <2>4. SubSeq(stream, n + 1, n) = <<>>
    <3>1. n \in 0..Len(stream) /\ n \in 0..n /\ n - n = 0
      BY <1>2
    <3>2. SubSeq(stream, n + 1, n) \in Seq(Tokens) /\ Len(SubSeq(stream, n + 1, n)) = 0
      BY <1>2, <3>1, SliceElements
    <3> QED
      BY <3>2, EmptySeq
  <2>5. \A w \in Seq(Tokens) : (w \o <<>>) \o <<>> = w
    OBVIOUS
  <2>6. Chunk(SubSeq(stream, 1, n), h, n)
    BY <2>2, <2>3, <2>4, <2>5
  <2> QED
    BY <1>1, <1>3, <2>6
<1>4. ASSUME NEW m \in 1..n, NEW a \in 0..n,
             NEW s \in {<<>>} \cup {<<t>> : t \in Leftovers},
             (a = m /\ s # <<>>) \/ (a < m /\ s = <<>>),
             received' = received \o SubSeq(stream, 1, a) \o s \o SubSeq(stream, m + 1, n)
      PROVE  \E c, h : Chunk(c, h, n) /\ received' = received \o c
  <2>1. a \in 0..m /\ (a = 0 => s = <<>>)
    BY <1>4
  <2>2. s \in Seq(Leftovers)
    <3>1. CASE s = <<>>
      BY <3>1
    <3>2. ASSUME NEW t \in Leftovers, s = <<t>> PROVE s \in Seq(Leftovers)
      BY <3>2
    <3> QED
      BY <3>1, <3>2
  <2>3. PICK x, y : x = SubSeq(stream, 1, a) /\ y = SubSeq(stream, m + 1, n)
    OBVIOUS
  <2>4. PICK h : Chunk((x \o s) \o y, h, n)
    BY <1>2, <2>1, <2>2, <2>3, Pieces
  <2>5. x \in Seq(Tokens) /\ y \in Seq(Tokens)
    <3>1. /\ a \in 0..Len(stream) /\ 0 \in 0..a
          /\ n \in 0..Len(stream) /\ m \in 0..n
      BY <1>2
    <3> QED
      BY <1>2, <2>3, <3>1, SliceElements
  <2>6. s \in Seq(Tokens)
    <3>1. CASE s = <<>>
      BY <3>1
    <3>2. ASSUME NEW t \in Leftovers, s = <<t>> PROVE s \in Seq(Tokens)
      BY <3>2, LeftoverElements
    <3> QED
      BY <3>1, <3>2
  <2>7. x \o s \in Seq(Tokens)
    BY ONLY <2>5, <2>6
  <2>8. ((received \o x) \o s) \o y = received \o ((x \o s) \o y)
    <3>1. (received \o x) \o s = received \o (x \o s)
      BY <1>2, <2>5, <2>6, Regrouped
    <3>2. (received \o (x \o s)) \o y = received \o ((x \o s) \o y)
      BY <1>2, <2>5, <2>7, Regrouped
    <3> QED
      BY <3>1, <3>2
  <2>9. received' = received \o ((x \o s) \o y)
    BY <1>4, <2>3, <2>8
  <2> QED
    BY <2>4, <2>9
<1> QED
  BY <1>1, <1>3, <1>4

LEMMA SocketNext ==
  ASSUME Socket, ReadFromSocket
  PROVE  Socket'
<1>1. PICK n, c, h :
        /\ n \in 1..Len(stream) /\ Chunk(c, h, n)
        /\ received' = received \o c
        /\ stream' = SubSeq(stream, n + 1, Len(stream))
  BY ReadAppends
<1>2. stream \in Seq(Tokens) /\ Len(stream) \in Nat /\ received \in Seq(Tokens)
  BY DEF Socket
<1>3. stream' \in Seq(Tokens)
  BY <1>1, <1>2, RestElements
<1>4. received' \in Seq(Tokens)
  <2>1. c \in Seq(Tokens)
    BY <1>1 DEF Chunk
  <2> QED
    BY <1>1, <1>2, <2>1
<1>5. garbled' \in 0..MaxGarbled
  <2>1. garbled' = garbled \/ (garbled < MaxGarbled /\ garbled' = garbled + 1)
    BY DEF ReadFromSocket
  <2> QED
    BY <2>1, MaxGarbledAssumption DEF Socket
<1>6. connected' = connected /\ pending' \in {pending, pending + 1}
  BY DEF ReadFromSocket
<1>7. pending' \in Nat
  BY <1>6 DEF Socket
<1> QED
  BY <1>3, <1>4, <1>5, <1>6, <1>7, Zenon DEF Socket

\* A call of partialParse that ends without a request.
LEMMA ReturnFalseTypes == TInv /\ ReturnFalse => TInv'
<1> SUFFICES ASSUME TInv, ReturnFalse PROVE TInv'
  OBVIOUS
<1>1. /\ pc' = "idle" /\ pos' = 0 /\ parsed' = 0
      /\ UNCHANGED <<stream, received, connected, pending, garbled, buffer, status,
                     request, emitted, whole, alive>>
  BY DEF ReturnFalse, socketVars
<1>2. Position' /\ 0 <= 0 /\ 0 \in Nat
  BY <1>1 DEF TInv, Position
<1> QED
  BY <1>1, <1>2, Zenon DEF TInv, Socket, RequestInv

\* One that ends with one.
LEMMA ReturnTrueTypes ==
  ASSUME TInv, ReturnTrue, NEW r \in Line, EmitRequest(r), r.line # None,
         request' = r, r.length # None => HasBody(r.length),
         r.length = None => r.body = <<>>,
         status' \in {"REQUEST_LINE", "FINISHED"},
         UNCHANGED <<socketVars, whole, alive>>
  PROVE  TInv'
<1>1. /\ pc' = "idle" /\ pos' = 0 /\ parsed' = 0 /\ buffer' = <<>>
      /\ UNCHANGED <<stream, received, connected, pending, garbled, whole, alive>>
  BY DEF ReturnTrue, socketVars
<1>2. Position' /\ 0 <= 0 /\ 0 \in Nat
  BY <1>1 DEF Position
<1>3. emitted' \in Seq(Emission)
  BY EmittedType
<1> QED
  BY <1>1, <1>2, <1>3, Zenon DEF TInv, Socket, RequestInv

\* A step that moves past n bytes and counts c of them.
LEMMA RemoveTypes ==
  ASSUME TInv, pc = "parse", NEW n \in Nat, RemovePrefix(n), buffer' = buffer,
         NEW c \in 0..n, parsed' = parsed + c, RequestInv',
         status' \in {"HEADER_LINES", "BODY"}, whole' \in BOOLEAN,
         UNCHANGED <<socketVars, pc, emitted>>
  PROVE  TInv'
<1>1. Position' /\ (alive' = alive \/ alive' = FALSE) /\ (alive' => pos' = pos + n)
  BY Removed DEF TInv
<1>2. alive' \in BOOLEAN /\ (alive' => alive)
  <2>1. CASE alive' = alive
    BY <2>1, Zenon DEF TInv
  <2>2. CASE alive' = FALSE
    BY <2>2, Zenon
  <2> QED
    BY <1>1, <2>1, <2>2
<1>3. parsed' \in Nat /\ (alive' => parsed' <= pos')
  BY <1>1, <1>2 DEF TInv, Position
<1>4. UNCHANGED <<stream, received, connected, pending, garbled>>
  BY DEF socketVars
<1> QED
  BY <1>1, <1>2, <1>3, <1>4, Zenon DEF TInv, Socket

LEMMA RequestLineTypes == TInv /\ ParseRequestLine => TInv'
<1> SUFFICES ASSUME TInv, ParseRequestLine PROVE TInv'
  OBVIOUS
<1>1. CASE EndOfLine # None /\ Len(LineText) = 1 /\ LineText[1].kind = "line"
  <2> DEFINE k == LineText[1].of
  <2>1. /\ RemovePrefix(EndOfLine + 1) /\ parsed' = parsed + EndOfLine + 1
        /\ request' = [request EXCEPT !.line = k]
        /\ whole' = IsPrefix(Message(k), Data)
        /\ status' = "HEADER_LINES" /\ pc = "parse"
        /\ UNCHANGED <<socketVars, pc, buffer, emitted>>
    BY <1>1 DEF ParseRequestLine
  <2>2. EndOfLine \in Nat
    BY DataElements, EndOfLineIs DEF TInv
  <2>3. k \in Numbers
    BY <1>1, LineBefore DEF TInv
  <2>4. RequestInv'
    <3> HIDE DEF k
    <3>1. /\ request' \in Line /\ request'.line = k
          /\ request'.length = request.length /\ request'.body = request.body
      BY <2>1, <2>3 DEF TInv, RequestInv, Line
    <3>2. k # None
      BY <2>3, NumbersAre DEF None
    <3> QED
      BY <3>1, <3>2 DEF TInv, RequestInv
  <2>5. whole' \in BOOLEAN
    BY <2>1 DEF IsPrefix
  <2>6. EndOfLine + 1 \in Nat /\ EndOfLine + 1 \in 0..(EndOfLine + 1)
        /\ parsed' = parsed + (EndOfLine + 1)
    BY <2>1, <2>2 DEF TInv
  <2> HIDE DEF k
  <2> QED
    BY <2>1, <2>4, <2>5, <2>6, RemoveTypes
<1>2. CASE ~(EndOfLine # None /\ Len(LineText) = 1 /\ LineText[1].kind = "line")
  BY <1>2, ReturnFalseTypes DEF ParseRequestLine
<1> QED
  BY <1>1, <1>2

LEMMA BlankLineTypes == TInv /\ BlankLine => TInv'
<1> SUFFICES ASSUME TInv, BlankLine PROVE TInv'
  OBVIOUS
<1>1. /\ RemovePrefix(2) /\ status' = "BODY" /\ pc = "parse" /\ status = "HEADER_LINES"
      /\ UNCHANGED <<socketVars, pc, buffer, parsed, request, emitted, whole>>
  BY DEF BlankLine, BlankLineSize
<1>2. RequestInv' /\ whole' \in BOOLEAN
  BY <1>1, Zenon DEF TInv, RequestInv
<1>3. 0 \in 0..2 /\ 2 \in Nat /\ parsed' = parsed + 0
  BY <1>1 DEF TInv
<1> QED
  BY <1>1, <1>2, <1>3, RemoveTypes

LEMMA HeaderLineTypes == TInv /\ ParseHeaderLine => TInv'
<1> SUFFICES ASSUME TInv, ParseHeaderLine PROVE TInv'
  OBVIOUS
<1> DEFINE k == Data[Colon].of
           first == Colon = 1 /\ Data[1].kind = "field" /\ HasBody(k)
                      /\ request.length = None
<1>1. CASE Colon = None \/ Colon > EndOfLine
  BY <1>1, ReturnFalseTypes DEF ParseHeaderLine
<1>2. CASE ~(Colon = None \/ Colon > EndOfLine)
  <2>1. /\ RemovePrefix(EndOfLine + 1) /\ parsed' = parsed + EndOfLine + 1
        /\ request' = IF first THEN [request EXCEPT !.length = k] ELSE request
        /\ pc = "parse" /\ status = "HEADER_LINES"
        /\ UNCHANGED <<socketVars, pc, buffer, status, emitted, whole>>
    BY <1>2 DEF ParseHeaderLine
  <2>2. EndOfLine \in Nat
    BY DataElements, EndOfLineIs DEF TInv
  <2>3. first => k \in Numbers /\ HasBody(k) /\ request.length = None
    <3>1. Colon \in 1..Len(Data)
      BY <1>2, DataElements, ColonIs DEF TInv, None
    <3>2. Data[Colon] \in Tokens
      BY <3>1, DataElements DEF TInv
    <3> QED
      BY <3>1, <3>2 DEF Tokens
  <2>4. RequestInv'
    <3> HIDE DEF k, first
    <3>1. CASE first
      <4>1. /\ request' \in Line /\ request'.line = request.line
            /\ request'.length = k /\ k # None
        BY <2>1, <2>3, <3>1, NumbersAre DEF TInv, RequestInv, Line, None
      <4> QED
        BY <2>1, <2>3, <3>1, <4>1 DEF TInv, RequestInv
    <3>2. CASE ~first
      <4>1. request' = request /\ status' = status
        BY <2>1, <3>2
      <4> QED
        BY <4>1 DEF TInv, RequestInv
    <3> QED
      BY <3>1, <3>2
  <2>5. EndOfLine + 1 \in Nat /\ EndOfLine + 1 \in 0..(EndOfLine + 1)
        /\ parsed' = parsed + (EndOfLine + 1)
    BY <2>1, <2>2 DEF TInv
  <2>6. whole' \in BOOLEAN /\ status' \in {"HEADER_LINES", "BODY"}
    BY <2>1, Zenon DEF TInv
  <2> HIDE DEF k, first
  <2> QED
    BY <2>1, <2>4, <2>5, <2>6, RemoveTypes
<1> QED
  BY <1>1, <1>2

LEMMA BodyTypes == TInv /\ ParseBody => TInv'
<1> SUFFICES ASSUME TInv, ParseBody PROVE TInv'
  OBVIOUS
<1> DEFINE n == Requests[request.length]
           r == IF request.length = None THEN request
                ELSE [request EXCEPT !.body = SubSeq(Data, 1, n)]
<1>1. CASE request.length # None /\ BodyIncomplete(n)
  BY <1>1, ReturnFalseTypes DEF ParseBody
<1>2. CASE ~(request.length # None /\ BodyIncomplete(n))
  <2>1. /\ request' = r /\ status' = "FINISHED" /\ ReturnTrue /\ EmitRequest(r)
        /\ UNCHANGED <<socketVars, whole, alive>> /\ status = "BODY"
    BY <1>2 DEF ParseBody
  <2>2. /\ r \in Line /\ r.line = request.line /\ r.length = request.length
        /\ r.length = None => r.body = <<>>
    <3>1. CASE request.length = None
      BY <3>1 DEF TInv, RequestInv
    <3>2. CASE request.length # None
      <4>1. n \in Nat /\ n <= Len(Data) /\ Data \in Seq(Tokens) /\ Len(Data) \in Nat
        BY <1>2, <3>2, LengthIsNat, DataElements DEF TInv, BodyIncomplete
      <4>2. SubSeq(Data, 1, n) \in Seq(Tokens)
        <5>1. \A i \in 1..n : Data[i] \in Tokens
          BY <4>1
        <5> QED
          BY <4>1, <5>1, SubSeqProperties
      <4> HIDE DEF n
      <4> QED
        BY <3>2, <4>2 DEF TInv, RequestInv, Line
    <3> QED
      BY <3>1, <3>2
  <2>3. r.line # None /\ (r.length # None => HasBody(r.length))
    BY <2>1, <2>2 DEF TInv, RequestInv
  <2>4. status' \in {"REQUEST_LINE", "FINISHED"}
    BY <2>1
  <2> HIDE DEF r
  <2> QED
    BY <2>1, <2>2, <2>3, <2>4, ReturnTrueTypes
<1> QED
  BY <1>1, <1>2

LEMMA FinishedTypes == TInv /\ Finished => TInv'
<1> SUFFICES ASSUME TInv, Finished PROVE TInv'
  OBVIOUS
<1>1. /\ status = "FINISHED" /\ status' = "REQUEST_LINE" /\ ReturnTrue
      /\ EmitRequest(request) /\ request' = request
      /\ UNCHANGED <<socketVars, whole, alive>>
  BY DEF Finished
<1>2. /\ request \in Line /\ request.line # None
      /\ request.length # None => HasBody(request.length)
      /\ request.length = None => request.body = <<>>
  BY <1>1 DEF TInv, RequestInv
<1> QED
  BY <1>1, <1>2, ReturnTrueTypes

LEMMA EndOfDataTypes == TInv /\ alive /\ EndOfData => TInv'
<1> SUFFICES ASSUME TInv, alive, EndOfData PROVE TInv'
  OBVIOUS
<1>1. /\ buffer' = SubSeq(buffer, parsed + 1, Len(buffer))
      /\ pos' = 0 /\ parsed' = 0 /\ pc' = "idle"
      /\ UNCHANGED <<stream, received, connected, pending, garbled, status, request,
                     emitted, whole, alive>>
  BY DEF EndOfData, socketVars
<1>2. parsed \in 0..Len(buffer) /\ buffer \in Seq(Tokens)
  BY DEF TInv, Position
<1>3. buffer' \in Seq(Tokens)
  BY <1>1, <1>2, RestElements
<1>4. Position' /\ 0 <= 0 /\ 0 \in Nat
  BY <1>1, <1>3 DEF Position
<1> QED
  BY <1>1, <1>4, Zenon DEF TInv, Socket, RequestInv

LEMMA TypesNext == TInv /\ [Next]_vars => TInv'
<1> SUFFICES ASSUME TInv, [Next]_vars PROVE TInv'
  OBVIOUS
<1>1. CASE ReadFromSocket
  <2>1. UNCHANGED <<pc, buffer, pos, parsed, status, request, emitted, whole, alive>>
    BY <1>1 DEF ReadFromSocket
  <2>2. Socket'
    BY <1>1, SocketNext DEF TInv
  <2> QED
    BY <2>1, <2>2, Zenon DEF TInv, Position, RequestInv
<1>2. CASE NewConnection
  <2>1. /\ connected' = TRUE /\ pc' = "born"
        /\ UNCHANGED <<stream, received, pending, garbled, buffer, pos, parsed, status,
                       request, emitted, whole, alive>>
    BY <1>2 DEF NewConnection
  <2> QED
    BY <2>1, Zenon DEF TInv, Socket, Position, RequestInv
<1>3. ASSUME BeginParse, pending' \in Nat PROVE TInv'
  <2>1. /\ buffer' = buffer \o received /\ received' = <<>> /\ pc' = "parse"
        /\ UNCHANGED <<stream, connected, garbled, pos, parsed, status, request,
                       emitted, whole, alive>>
    BY <1>3 DEF BeginParse
  <2>2. Position'
    <3>1. buffer \in Seq(Tokens) /\ received \in Seq(Tokens)
      BY DEF TInv, Position, Socket
    <3>2. buffer' \in Seq(Tokens) /\ Len(buffer') = Len(buffer) + Len(received)
          /\ Len(buffer) \in Nat /\ Len(received) \in Nat
      BY <2>1, <3>1
    <3> QED
      BY <2>1, <3>2 DEF TInv, Position
  <2>3. <<>> \in Seq(Tokens)
    OBVIOUS
  <2> QED
    BY <1>3, <2>1, <2>2, <2>3, Zenon DEF TInv, Socket, RequestInv
<1>4. CASE CheckIncomingData \/ DataReady
  <2>1. pending' \in Nat
    BY <1>4 DEF CheckIncomingData, DataReady, TInv, Socket
  <2> QED
    BY <1>3, <1>4, <2>1 DEF CheckIncomingData, DataReady
<1>5. CASE alive /\ EndOfData
  BY <1>5, EndOfDataTypes
<1>6. CASE ParseRequestLine \/ BlankLine \/ ParseHeaderLine \/ ParseBody \/ Finished
  BY <1>6, RequestLineTypes, BlankLineTypes, HeaderLineTypes, BodyTypes, FinishedTypes
<1>7. CASE UNCHANGED vars
  <2>1. UNCHANGED <<stream, received, connected, pending, garbled, pc, buffer, pos,
                    parsed, status, request, emitted, whole, alive>>
    BY <1>7 DEF vars, socketVars
  <2> QED
    BY <2>1, Zenon DEF TInv, Socket, Position, RequestInv
<1> QED
  BY <1>1, <1>2, <1>4, <1>5, <1>6, <1>7 DEF Next, Parser

LEMMA TypesInit == Init => TInv
<1> SUFFICES ASSUME Init PROVE TInv
  OBVIOUS
<1>1. stream \in Seq(Tokens)
  BY StreamIsOrderly DEF Init, Orderly
<1>2. <<>> \in Seq(Tokens) /\ <<>> \in Seq(Emission) /\ Len(<<>>) = 0
  OBVIOUS
<1>3. connected \in BOOLEAN /\ whole \in BOOLEAN /\ alive \in BOOLEAN
  BY Zenon DEF Init
<1>4. Socket /\ Position
  BY <1>1, <1>2, <1>3, MaxGarbledAssumption DEF Init, Socket, Position
<1>5. RequestInv
  BY <1>2 DEF Init, RequestInv, Line
<1> QED
  BY <1>2, <1>3, <1>4, <1>5 DEF Init, TInv

LEMMA SpecTInv == Spec => []TInv
BY TypesInit, TypesNext, PTL DEF Spec

\* However the client's bytes are cut and whatever is appended to them, the parser
\* has the types it should have: a request is emitted only with a request line, its
\* Content-Length is one that was sent, and the parsed bytes of the buffer are never
\* more than the view has passed.
THEOREM ParserTypes == Spec => []TypeOK
<1>1. TInv => TypeOK
  BY DEF TInv, TypeOK, Socket, Position, RequestInv, Line, Emission
<1> QED
  BY <1>1, SpecTInv, PTL
-----------------------------------------------------------------------------
(* A request that is parsed from a buffer that holds all of it.            *)

\* Data begins with what is left of request k behind its first n tokens.
Holds(k, n) ==
  /\ Len(Data) >= Len(Message(k)) - n
  /\ \A j \in 1..(Len(Message(k)) - n) : Data[j] = Message(k)[n + j]

\* The request has the Content-Length that was sent for it.
OwnLength(r) == IF HasBody(r.line) THEN r.length = r.line ELSE r.length = None

Right(e) == e.whole /\ OwnLength(e) => e.body = Body(e.line)

\* The parser does not return before it has seen such a request through, but for
\* one without a body; and what it keeps for the next call has the body it should.
WholeInv ==
  /\ whole /\ status = "HEADER_LINES" =>
       pc = "parse" /\ (Holds(request.line, 3) \/ Holds(request.line, 6))
  /\ whole /\ status = "BODY" /\ OwnLength(request) =>
       Body(request.line) = <<>> \/ (pc = "parse" /\ Holds(request.line, 8))
  /\ whole /\ status = "FINISHED" /\ OwnLength(request) =>
       request.body = Body(request.line)
  /\ \A j \in DOMAIN emitted : Right(emitted[j])

LEMMA HeldElements ==
  ASSUME NEW k \in Numbers
  PROVE  /\ Len(Message(k)) \in Nat /\ Len(Message(k)) >= 8
         /\ Len(Message(k)) - 8 = Len(Body(k)) /\ Len(Body(k)) \in Nat
<1>1. Len(Message(k)) = 8 + Len(Body(k)) /\ Len(Body(k)) \in Nat
  BY MessageElements, BodyElements
<1> QED
  BY <1>1

\* Nothing is left of a request that has no body, and of no other.
LEMMA NoBodyLeft ==
  ASSUME NEW k \in Numbers
  PROVE  Body(k) = <<>> <=> Len(Body(k)) = 0
BY BodyElements, EmptySeq

\* A step that moves past m tokens of a request that is held.
LEMMA HeldMoves ==
  ASSUME TInv, NEW k \in Numbers, NEW n \in {0, 3, 6}, NEW m \in {2, 3}, n + m <= 8,
         Holds(k, n), RemovePrefix(m), buffer' = buffer
  PROVE  Holds(k, n + m)'
<1> DEFINE L == Len(Message(k))
<1>1. L \in Nat /\ L >= 8 /\ Len(Data) \in Nat
  BY HeldElements, DataElements DEF TInv
<1>2. Len(Data) >= L - n /\ \A j \in 1..(L - n) : Data[j] = Message(k)[n + j]
  BY DEF Holds
<1> HIDE DEF L
<1>3. m \in Nat /\ m <= Len(Data)
  BY <1>1, <1>2
<1>4. /\ Len(Data') = Len(Data) - m
      /\ \A j \in 1..Len(Data') : Data'[j] = Data[m + j]
  BY <1>3, Removed DEF TInv
<1>5. Len(Data') >= L - (n + m)
  BY <1>1, <1>2, <1>4
<1>6. ASSUME NEW j \in 1..(L - (n + m)) PROVE Data'[j] = Message(k)[(n + m) + j]
  <2>1. m + j \in 1..(L - n) /\ j \in 1..Len(Data') /\ n + (m + j) = (n + m) + j
    BY <1>1, <1>4, <1>5
  <2> QED
    BY <1>2, <1>4, <2>1
<1>7. Message(k)' = Message(k)
  BY DEF Message
<1>8. Len(Data') >= Len(Message(k)) - (n + m)
      /\ \A j \in 1..(Len(Message(k)) - (n + m)) : Data'[j] = Message(k)[(n + m) + j]
  BY <1>5, <1>6 DEF L
<1> QED
  BY <1>7, <1>8 DEF Holds

\* Where the ends of the lines of a request that is held are.
LEMMA HeldLines ==
  ASSUME TInv, NEW k \in Numbers
  PROVE  /\ Holds(k, 0) => EndOfLine = 2
         /\ Holds(k, 3) => EndOfLine = 2 /\ Colon = 1 /\ Data[1].kind = "field"
         /\ Holds(k, 6) => EndOfLine = 1
         /\ Holds(k, 0) \/ Holds(k, 3) \/ Holds(k, 6) => Data # <<>>
<1> DEFINE L == Len(Message(k))
           M == Message(k)
<1>1. L \in Nat /\ L >= 8 /\ Len(Data) \in Nat /\ Position
  BY HeldElements, DataElements DEF TInv
<1>2. /\ M[1].kind = "line" /\ M[2].kind = "cr" /\ M[4].kind = "field"
      /\ M[5].kind = "cr" /\ M[7].kind = "cr"
  BY MessageElements
<1>3. ASSUME NEW n \in {0, 3, 6}, Holds(k, n)
      PROVE  /\ Len(Data) >= 2 /\ Data # <<>>
             /\ Data[1] = M[n + 1] /\ Data[2] = M[n + 2]
  <2>1. Len(Data) >= L - n /\ \A j \in 1..(L - n) : Data[j] = M[n + j]
    BY <1>3 DEF Holds
  <2> HIDE DEF L, M
  <2>2. Len(Data) >= 2 /\ 1 \in 1..(L - n) /\ 2 \in 1..(L - n)
    BY <1>1, <2>1
  <2>3. Data # <<>>
    BY <1>1, <2>2, EmptySeq, DataElements
  <2> QED
    BY <2>1, <2>2, <2>3
<1> HIDE DEF L, M
<1>4. ASSUME NEW n \in {0, 3}, Holds(k, n) PROVE EndOfLine = 2
  <2>1. /\ Data[1] = M[n + 1] /\ Data[2] = M[n + 2] /\ 2 \in 1..Len(Data)
    BY <1>1, <1>3, <1>4
  <2>2. Data[2].kind \in LineEnds /\ Data[1].kind \notin LineEnds
    BY <1>2, <2>1 DEF LineEnds
  <2>3. \A l \in 1..(2 - 1) : Data[l].kind \notin LineEnds
    BY <2>2
  <2> QED
    BY <1>1, <2>1, <2>2, <2>3, EndOfLineAt
<1>5. Holds(k, 3) => Colon = 1 /\ Data[1].kind = "field"
  <2> SUFFICES ASSUME Holds(k, 3) PROVE Colon = 1 /\ Data[1].kind = "field"
    OBVIOUS
  <2>1. Data[1].kind = "field" /\ Len(Data) >= 1
    BY <1>1, <1>2, <1>3
  <2> QED
    BY <1>1, <2>1, ColonFirst
<1>6. Holds(k, 6) => EndOfLine = 1
  <2> SUFFICES ASSUME Holds(k, 6) PROVE EndOfLine = 1
    OBVIOUS
  <2>1. Data[1].kind \in LineEnds /\ 1 \in 1..Len(Data)
    BY <1>1, <1>2, <1>3 DEF LineEnds
  <2>2. \A l \in 1..(1 - 1) : Data[l].kind \notin LineEnds
    OBVIOUS
  <2> QED
    BY <1>1, <2>1, <2>2, EndOfLineAt
<1> QED
  BY <1>3, <1>4, <1>5, <1>6

\* What has been emitted is not touched.
LEMMA OneMoreEmitted ==
  ASSUME TInv, NEW r, EmitRequest(r),
         \A j \in DOMAIN emitted : Right(emitted[j]),
         whole /\ OwnLength(r) => r.body = Body(r.line)
  PROVE  \A j \in DOMAIN emitted' : Right(emitted'[j])
<1> DEFINE e == [line |-> r.line, length |-> r.length, body |-> r.body, whole |-> whole]
<1>1. Right(e)
  BY DEF Right, OwnLength
<1> HIDE DEF e
<1>2. IsSequence(emitted) /\ emitted' = Append(emitted, e)
  BY DEF TInv, IsSequence, EmitRequest, e
<1>3. \A j \in DOMAIN emitted' : (j \in DOMAIN emitted /\ emitted'[j] = emitted[j])
                                  \/ emitted'[j] = e
  BY <1>2, AppendElements
<1> QED
  BY <1>1, <1>3

\* A step that leaves the parser where it is.
LEMMA WholeKept ==
  ASSUME WholeInv, UNCHANGED <<status, request, emitted, whole>>,
         whole => \/ status \notin {"HEADER_LINES", "BODY"}
                  \/ UNCHANGED <<pc, buffer, pos>>
                  \/ status = "HEADER_LINES" /\ pc # "parse"
                  \/ status = "BODY" /\ (OwnLength(request) => Body(request.line) = <<>>)
  PROVE  WholeInv'
<1>1. /\ OwnLength(request)' = OwnLength(request)
      /\ Body(request.line)' = Body(request.line)
  BY DEF OwnLength, Body
<1>2. ASSUME NEW j \in DOMAIN emitted' PROVE Right(emitted[j])'
  BY <1>2 DEF Right, OwnLength, WholeInv
<1>3. ASSUME UNCHANGED <<pc, buffer, pos>>
      PROVE  /\ Holds(request.line, 3)' = Holds(request.line, 3)
             /\ Holds(request.line, 6)' = Holds(request.line, 6)
             /\ Holds(request.line, 8)' = Holds(request.line, 8)
  BY <1>3 DEF Holds, Data, Message
<1>4. whole' /\ status' = "HEADER_LINES" =>
        pc' = "parse" /\ (Holds(request.line, 3)' \/ Holds(request.line, 6)')
  BY <1>3 DEF WholeInv
<1>5. whole' /\ status' = "BODY" /\ OwnLength(request)' =>
        \/ Body(request.line)' = <<>>
        \/ pc' = "parse" /\ Holds(request.line, 8)'
  BY <1>1, <1>3 DEF WholeInv
<1>6. whole' /\ status' = "FINISHED" /\ OwnLength(request)' =>
        request'.body = Body(request.line)'
  BY <1>1 DEF WholeInv
<1> QED
  BY <1>2, <1>4, <1>5, <1>6, Zenon DEF WholeInv

LEMMA WholeRequestLine == TInv /\ WholeInv /\ ParseRequestLine => WholeInv'
<1> SUFFICES ASSUME TInv, WholeInv, ParseRequestLine PROVE WholeInv'
  OBVIOUS
<1>1. CASE EndOfLine # None /\ Len(LineText) = 1 /\ LineText[1].kind = "line"
  <2>1. /\ RemovePrefix(EndOfLine + 1)
        /\ request' = [request EXCEPT !.line = LineText[1].of]
        /\ whole' = IsPrefix(Message(LineText[1].of), Data)
        /\ status' = "HEADER_LINES" /\ pc = "parse"
        /\ UNCHANGED <<pc, buffer, emitted>>
    BY <1>1 DEF ParseRequestLine
  <2>2. PICK k : k = LineText[1].of
    OBVIOUS
  <2>3. request'.line = k
    BY <2>1, <2>2 DEF TInv, RequestInv, Line
  <2>4. k \in Numbers
    <3>1. RequestInv' /\ status' = "HEADER_LINES"
      BY <2>1, RequestLineTypes DEF TInv
    <3> QED
      BY <2>3, <3>1 DEF RequestInv, Line
  <2>5. ASSUME whole' PROVE Holds(k, 3)'
    <3>1. IsPrefix(Message(k), Data)
      BY <2>1, <2>2, <2>5
    <3>2. IsSequence(Message(k)) /\ IsSequence(Data) /\ Len(Message(k)) \in Nat
      BY <2>4, MessageElements, HeldElements, DataElements DEF TInv, IsSequence
    <3>3. Len(Message(k)) <= Len(Data)
          /\ \A j \in 1..Len(Message(k)) : Message(k)[j] = Data[j]
      BY <3>1, <3>2, PrefixElements
    <3>4. Holds(k, 0)
      <4> DEFINE L == Len(Message(k))
      <4>1. L - 0 = L /\ \A j \in 1..L : 0 + j = j
        BY <3>2
      <4>2. L <= Len(Data) /\ Len(Data) \in Nat
        BY <3>3, DataElements DEF TInv
      <4> HIDE DEF L
      <4> QED
        BY <3>2, <3>3, <4>1, <4>2 DEF Holds, L
    <3>5. EndOfLine + 1 = 3
      BY <2>4, <3>4, HeldLines
    <3>6. RemovePrefix(3) /\ buffer' = buffer
      BY <2>1, <3>5, Zenon
    <3>7. Holds(k, 0 + 3)'
      BY <2>4, <3>4, <3>6, HeldMoves
    <3> QED
      BY <3>7
  <2>6. \A j \in DOMAIN emitted' : Right(emitted[j])'
    BY <2>1 DEF Right, OwnLength, WholeInv
  <2>7. whole' => Holds(request.line, 3)'
    BY <2>3, <2>5 DEF Holds
  <2> QED
    BY <2>1, <2>6, <2>7 DEF WholeInv
<1>2. CASE ~(EndOfLine # None /\ Len(LineText) = 1 /\ LineText[1].kind = "line")
  <2>1. UNCHANGED <<status, request, emitted, whole>> /\ status = "REQUEST_LINE"
    BY <1>2 DEF ParseRequestLine, ReturnFalse
  <2> QED
    BY <2>1, WholeKept
<1> QED
  BY <1>1, <1>2

LEMMA WholeBlankLine == TInv /\ WholeInv /\ BlankLine => WholeInv'
<1> SUFFICES ASSUME TInv, WholeInv, BlankLine PROVE WholeInv'
  OBVIOUS
<1>1. /\ RemovePrefix(2) /\ status' = "BODY" /\ status = "HEADER_LINES"
      /\ EndOfLine = 1 /\ UNCHANGED <<pc, buffer, request, emitted, whole>>
  BY DEF BlankLine, BlankLineSize, Blank
<1>2. PICK k : k = request.line
  OBVIOUS
<1>3. k \in Numbers
  BY <1>1, <1>2 DEF TInv, RequestInv, Line
<1>4. ASSUME whole PROVE pc = "parse" /\ Holds(k, 8)'
  <2>1. pc = "parse" /\ (Holds(k, 3) \/ Holds(k, 6))
    BY <1>1, <1>2, <1>4 DEF WholeInv
  <2>2. Holds(k, 6)
    BY <1>1, <1>3, <2>1, HeldLines
  <2>3. Holds(k, 6 + 2)'
    BY <1>1, <1>3, <2>2, HeldMoves
  <2> QED
    BY <2>1, <2>3
<1>5. whole' => pc' = "parse" /\ Holds(request.line, 8)'
  BY <1>1, <1>2, <1>4 DEF Holds
<1>6. \A j \in DOMAIN emitted' : Right(emitted[j])'
  BY <1>1 DEF Right, OwnLength, WholeInv
<1> QED
  BY <1>1, <1>5, <1>6 DEF WholeInv

LEMMA WholeHeaderLine == TInv /\ WholeInv /\ ParseHeaderLine => WholeInv'
<1> SUFFICES ASSUME TInv, WholeInv, ParseHeaderLine PROVE WholeInv'
  OBVIOUS
<1> DEFINE f == Data[Colon].of
<1>1. status = "HEADER_LINES" /\ EndOfLine # 1
  BY DEF ParseHeaderLine, Blank
<1>2. PICK k : k = request.line
  OBVIOUS
<1>3. k \in Numbers
  BY <1>1, <1>2 DEF TInv, RequestInv, Line
<1>4. whole => /\ pc = "parse" /\ Holds(k, 3) /\ EndOfLine = 2 /\ Colon = 1
  <2> SUFFICES ASSUME whole
               PROVE  pc = "parse" /\ Holds(k, 3) /\ EndOfLine = 2 /\ Colon = 1
    OBVIOUS
  <2>1. pc = "parse" /\ (Holds(k, 3) \/ Holds(k, 6))
    BY <1>1, <1>2 DEF WholeInv
  <2> QED
    BY <1>1, <1>3, <2>1, HeldLines
<1>5. CASE Colon = None \/ Colon > EndOfLine
  <2>1. ~whole
    BY <1>4, <1>5 DEF None
  <2>2. UNCHANGED <<status, request, emitted, whole>>
    BY <1>5 DEF ParseHeaderLine, ReturnFalse
  <2> QED
    BY <2>1, <2>2, WholeKept
<1>6. CASE ~(Colon = None \/ Colon > EndOfLine)
  <2>1. /\ RemovePrefix(EndOfLine + 1)
        /\ request' = IF Colon = 1 /\ Data[1].kind = "field" /\ HasBody(f)
                         /\ request.length = None
                      THEN [request EXCEPT !.length = f] ELSE request
        /\ UNCHANGED <<pc, buffer, status, emitted, whole>>
    BY <1>6 DEF ParseHeaderLine
  <2>2. request'.line = k
    BY <1>2, <2>1 DEF TInv, RequestInv, Line
  <2>3. ASSUME whole PROVE Holds(k, 6)'
    <3>1. RemovePrefix(3)
      <4>1. EndOfLine + 1 = 3
        BY <1>4, <2>3
      <4> QED
        BY <2>1, <4>1, Zenon
    <3>2. Holds(k, 3 + 3)'
      BY <1>3, <1>4, <2>1, <2>3, <3>1, HeldMoves
    <3> QED
      BY <3>2
  <2>4. whole' => pc' = "parse" /\ Holds(request.line, 6)'
    BY <1>4, <2>1, <2>2, <2>3 DEF Holds
  <2>5. \A j \in DOMAIN emitted' : Right(emitted[j])'
    BY <2>1 DEF Right, OwnLength, WholeInv
  <2> QED
    BY <1>1, <2>1, <2>4, <2>5 DEF WholeInv
<1> QED
  BY <1>5, <1>6

LEMMA WholeBody == TInv /\ WholeInv /\ ParseBody => WholeInv'
<1> SUFFICES ASSUME TInv, WholeInv, ParseBody PROVE WholeInv'
  OBVIOUS
<1> DEFINE n == Requests[request.length]
           r == IF request.length = None THEN request
                ELSE [request EXCEPT !.body = SubSeq(Data, 1, n)]
<1>1. PICK k : k = request.line
  OBVIOUS
<1>2. status = "BODY" /\ k \in Numbers
  BY <1>1 DEF ParseBody, TInv, RequestInv, Line
<1>3. ASSUME whole, OwnLength(request), request.length # None
      PROVE  /\ HasBody(k) /\ request.length = k
             /\ n = Len(Body(k)) /\ n \in Nat
             /\ Body(k) = <<>> \/ Holds(k, 8)
  <2>1. HasBody(k) /\ request.length = k
    BY <1>1, <1>3 DEF OwnLength
  <2>2. n = Len(Body(k)) /\ n \in Nat
    BY <1>2, <2>1, BodyElements
  <2> QED
    BY <1>1, <1>2, <1>3, <2>1, <2>2 DEF WholeInv
<1>4. CASE request.length # None /\ BodyIncomplete(n)
  <2>1. UNCHANGED <<status, request, emitted, whole>>
    BY <1>4 DEF ParseBody, ReturnFalse
  <2>2. ASSUME whole, OwnLength(request) PROVE Body(k) = <<>>
    <3>1. n = Len(Body(k)) /\ (Body(k) = <<>> \/ Holds(k, 8)) /\ n \in Nat
      BY <1>3, <1>4, <2>2
    <3>2. ~Holds(k, 8)
      <4>1. Len(Data) < n /\ Len(Data) \in Nat
        BY <1>4, DataElements DEF BodyIncomplete, TInv
      <4>2. Len(Message(k)) - 8 = n
        BY <1>2, <3>1, HeldElements
      <4>3. Holds(k, 8) => Len(Data) >= n
        BY <4>2 DEF Holds
      <4> HIDE DEF n
      <4> QED
        BY <3>1, <4>1, <4>3
    <3> QED
      BY <3>1, <3>2
  <2> HIDE DEF n
  <2> QED
    BY <1>1, <1>2, <2>1, <2>2, WholeKept
<1>5. CASE ~(request.length # None /\ BodyIncomplete(n))
  <2>1. /\ request' = r /\ status' = "FINISHED" /\ EmitRequest(r)
        /\ UNCHANGED whole
    BY <1>5 DEF ParseBody
  <2>2. r.line = k /\ r.length = request.length
    BY <1>1 DEF TInv, RequestInv, Line
  <2>3. ASSUME whole, OwnLength(r) PROVE r.body = Body(k)
    <3>1. OwnLength(request)
      BY <1>1, <2>2, <2>3 DEF OwnLength
    <3>2. CASE request.length = None
      <4>1. r.body = <<>> /\ ~HasBody(k)
        <5>1. ~HasBody(k)
          BY <1>1, <1>2, <3>1, <3>2, NumbersAre DEF OwnLength, None
        <5> QED
          BY <3>2, <5>1 DEF TInv, RequestInv
      <4>2. Body(k) = <<>>
        BY <1>2, <4>1, BodyElements, NoBodyLeft
      <4> QED
        BY <4>1, <4>2
    <3>3. CASE request.length # None
      <4>1. /\ n = Len(Body(k)) /\ n \in Nat
            /\ Body(k) = <<>> \/ Holds(k, 8)
        BY <1>3, <2>3, <3>1, <3>3
      <4>2. r.body = SubSeq(Data, 1, n)
        BY <3>3 DEF TInv, RequestInv, Line
      <4>3. n <= Len(Data) /\ Len(Data) \in Nat /\ IsSequence(Data)
        BY <1>5, <3>3, <4>1, DataElements DEF BodyIncomplete, TInv, IsSequence
      <4> HIDE DEF n
      <4>4. IsSequence(SubSeq(Data, 1, n)) /\ Len(SubSeq(Data, 1, n)) = n
            /\ \A j \in 1..n : SubSeq(Data, 1, n)[j] = Data[j]
        <5>1. n + 1 - 1 = n /\ 1 <= n + 1 /\ \A j \in 1..n : 1 - 1 + j = j
          BY <4>1
        <5>2. /\ IsSequence(SubSeq(Data, 1, n))
              /\ Len(SubSeq(Data, 1, n)) = n + 1 - 1
              /\ \A j \in 1..(n + 1 - 1) : SubSeq(Data, 1, n)[j] = Data[1 - 1 + j]
          BY <4>1, <4>3, <5>1, SubSeqElements
        <5> QED
          BY <5>1, <5>2
      <4>5. ASSUME NEW j \in 1..n PROVE Data[j] = Body(k)[j]
        <5>1. Holds(k, 8)
          BY <1>2, <4>1, NoBodyLeft
        <5>2. Len(Message(k)) - 8 = n
          BY <1>2, <4>1, HeldElements
        <5>3. Data[j] = Message(k)[8 + j]
          BY <5>1, <5>2 DEF Holds
        <5> QED
          BY <1>2, <4>1, <5>3, MessageElements
      <4>6. IsSequence(Body(k))
        BY <1>2, BodyElements DEF IsSequence
      <4> QED
        BY <4>1, <4>2, <4>4, <4>5, <4>6, EqualElements
    <3> QED
      BY <3>2, <3>3
  <2> HIDE DEF r
  <2>4. \A j \in DOMAIN emitted' : Right(emitted'[j])
    BY <2>1, <2>2, <2>3, OneMoreEmitted DEF WholeInv
  <2>5. whole' /\ OwnLength(request)' => request'.body = Body(request.line)'
    BY <2>1, <2>2, <2>3 DEF OwnLength
  <2>6. \A j \in DOMAIN emitted' : Right(emitted[j])'
    BY <2>4 DEF Right, OwnLength
  <2> QED
    BY <2>1, <2>5, <2>6 DEF WholeInv
<1> QED
  BY <1>4, <1>5

LEMMA WholeNext == TInv /\ WholeInv /\ [Next]_vars => WholeInv'
<1> SUFFICES ASSUME TInv, WholeInv, [Next]_vars PROVE WholeInv'
  OBVIOUS
<1>1. CASE ReadFromSocket \/ UNCHANGED vars
  <2>1. UNCHANGED <<status, request, emitted, whole, pc, buffer, pos>>
    BY <1>1 DEF ReadFromSocket, vars
  <2> QED
    BY <2>1, WholeKept
<1>2. CASE NewConnection \/ CheckIncomingData \/ DataReady
  <2>1. UNCHANGED <<status, request, emitted, whole>> /\ pc # "parse"
    BY <1>2 DEF NewConnection, CheckIncomingData, DataReady, BeginParse
  <2>2. whole => status # "HEADER_LINES"
    BY <2>1 DEF WholeInv
  <2>3. whole /\ status = "BODY" /\ OwnLength(request) => Body(request.line) = <<>>
    BY <2>1 DEF WholeInv
  <2> QED
    BY <2>1, <2>2, <2>3, WholeKept
<1>3. CASE EndOfData
  <2>1. UNCHANGED <<status, request, emitted, whole>> /\ Data = <<>>
    BY <1>3 DEF EndOfData
  <2>2. PICK k : k = request.line
    OBVIOUS
  <2>3. status # "REQUEST_LINE" => k \in Numbers
    BY <2>2 DEF TInv, RequestInv, Line
  <2>4. whole => status # "HEADER_LINES"
    BY <2>1, <2>2, <2>3, HeldLines DEF WholeInv
  <2>5. whole /\ status = "BODY" /\ OwnLength(request) => Body(k) = <<>>
    <3> SUFFICES ASSUME whole, status = "BODY", OwnLength(request), Body(k) # <<>>
                 PROVE  FALSE
      OBVIOUS
    <3>1. Holds(k, 8) /\ k \in Numbers
      BY <2>2, <2>3 DEF WholeInv
    <3>2. Len(Body(k)) \in Nat \ {0} /\ Len(Message(k)) - 8 = Len(Body(k))
      BY <3>1, HeldElements, NoBodyLeft
    <3>3. Len(Data) = 0
      BY <2>1
    <3> QED
      BY <3>1, <3>2, <3>3 DEF Holds
  <2> QED
    BY <2>1, <2>2, <2>4, <2>5, WholeKept
<1>4. CASE Finished
  <2>1. /\ status = "FINISHED" /\ status' = "REQUEST_LINE" /\ EmitRequest(request)
    BY <1>4 DEF Finished
  <2>2. whole /\ OwnLength(request) => request.body = Body(request.line)
    BY <2>1 DEF WholeInv
  <2>3. \A j \in DOMAIN emitted' : Right(emitted'[j])
    BY <2>1, <2>2, OneMoreEmitted DEF WholeInv
  <2>4. \A j \in DOMAIN emitted' : Right(emitted[j])'
    BY <2>3 DEF Right, OwnLength
  <2> QED
    BY <2>1, <2>4 DEF WholeInv
<1> QED
  BY <1>1, <1>2, <1>3, <1>4, WholeRequestLine, WholeBlankLine, WholeHeaderLine, WholeBody
  DEF Next, Parser

\* Whatever the requests, however they are cut and whatever the reads leave out or
\* leave behind them: a request that was in the buffer as a whole when its line was parsed
\* keeps its own body, and its re-emission has it too.
THEOREM WholeRequestsRight == Spec => []WholeRequestRight
<1>1. Init => WholeInv
  <2> SUFFICES ASSUME Init PROVE WholeInv
    OBVIOUS
  <2>1. emitted = <<>> /\ DOMAIN <<>> = {} /\ status = "REQUEST_LINE"
    BY DEF Init
  <2> QED
    BY <2>1 DEF WholeInv
<1>2. WholeInv => WholeRequestRight
  BY DEF WholeInv, Right, OwnLength, WholeRequestRight
<1> QED
  BY <1>1, <1>2, WholeNext, SpecTInv, PTL DEF Spec
-----------------------------------------------------------------------------
(* In which order requests are emitted, while reads append what they       *)
(* received.                                                               *)

\* How many of the client's tokens the socket has received, how many of those the
\* parser has taken, and how many of those are not in the buffer any more.
Arrived == Len(Stream) - Len(stream)
Taken == Arrived - Len(received)
Gone == Taken - Len(buffer)

\* What is in the buffer, in the socket and under way is the end of the stream.
Contiguous ==
  /\ Len(stream) <= Len(Stream) /\ Gone >= 0
  /\ \A j \in 1..Len(stream) : stream[j] = Stream[Arrived + j]
  /\ \A j \in 1..Len(received) : received[j] = Stream[Taken + j]
  /\ \A j \in 1..Len(buffer) : buffer[j] = Stream[Gone + j]

\* The request's line is the p-th token: it is not behind the buffer's front, its
\* header section is parsed line by line, and its body behind it.
LineAt(p) ==
  /\ Stream[p].kind = "line" /\ Stream[p].of = request.line
  /\ p <= Gone + 1
  /\ status = "HEADER_LINES" =>
       Gone \in {p - 1, p + 2, p + 5} /\ Gone + pos \in {p - 1, p + 2, p + 5}
  /\ status \in {"BODY", "FINISHED"} => p + 7 <= Arrived

Place ==
  /\ pc # "parse" \/ status = "REQUEST_LINE" => pos = 0 /\ parsed = 0
  /\ status = "HEADER_LINES" => parsed = pos
  /\ request.line # None => \E p \in 1..Len(Stream) : LineAt(p)

Emitted ==
  /\ EmittedInOrder
  /\ \A j \in DOMAIN emitted : emitted[j].line <= request.line

OrderInv ==
  garbled = 0 => Emitted /\ (alive => Contiguous /\ Place)

\* The stream, and what is known of it.
LEMMA StreamFacts ==
  /\ Stream \in Seq(Tokens) /\ Len(Stream) \in Nat
  /\ \A p \in 1..Len(Stream) : Stream[p].of \in Numbers /\ Stream[p].of \in Nat
  /\ \A p, q \in 1..Len(Stream) : p <= q => Stream[p].of <= Stream[q].of
  /\ \A p \in 1..Len(Stream) : Stream[p].kind = "line" => HeaderAt(Stream, p)
  /\ \A p, q \in 1..Len(Stream) :
       Stream[p].kind = "line" /\ Stream[q].of = Stream[p].of
         => q \in p..End(Stream, p)
<1>1. Numbers = 1..Len(Requests) /\ Len(Requests) \in Nat
  BY NumbersAre
<1> QED
  BY <1>1, StreamIsOrderly DEF Orderly

LEMMA PlacesAreNat ==
  ASSUME TInv, Contiguous
  PROVE  /\ Len(stream) \in Nat /\ Len(received) \in Nat /\ Len(buffer) \in Nat
         /\ Arrived \in Nat /\ Taken \in Nat /\ Gone \in Nat
         /\ Gone + Len(buffer) = Taken /\ Taken + Len(received) = Arrived
         /\ Arrived + Len(stream) = Len(Stream)
<1>1. Len(stream) \in Nat /\ Len(received) \in Nat /\ Len(buffer) \in Nat
  BY DEF TInv, Socket, Position
<1>2. Len(Stream) \in Nat
  BY StreamFacts
<1> QED
  BY <1>1, <1>2 DEF Contiguous, Arrived, Taken, Gone

\* What the parser sees is the stream from some place on.
LEMMA SeenInStream ==
  ASSUME TInv, Contiguous
  PROVE  \A j \in 1..Len(Data) : /\ Gone + pos + j \in 1..Len(Stream)
                                 /\ Data[j] = Stream[Gone + pos + j]
<1>1. /\ Len(Data) = Len(buffer) - pos /\ pos \in 0..Len(buffer)
      /\ \A j \in 1..Len(Data) : Data[j] = buffer[pos + j]
  BY DataElements DEF TInv, Position
<1> SUFFICES ASSUME NEW j \in 1..Len(Data)
             PROVE  /\ Gone + pos + j \in 1..Len(Stream)
                    /\ Data[j] = Stream[Gone + pos + j]
  OBVIOUS
<1>2. pos + j \in 1..Len(buffer) /\ Gone + (pos + j) = Gone + pos + j
      /\ Gone + pos + j \in 1..Len(Stream)
  <2>1. pos \in Nat /\ pos + j \in 1..Len(buffer)
    BY <1>1, PlacesAreNat
  <2>2. /\ Gone \in Nat /\ Len(stream) \in Nat /\ Len(received) \in Nat
        /\ Gone + Len(buffer) + Len(received) + Len(stream) = Len(Stream)
        /\ Len(buffer) \in Nat
    BY PlacesAreNat
  <2> QED
    BY <2>1, <2>2
<1>3. buffer[pos + j] = Stream[Gone + (pos + j)]
  BY <1>2 DEF Contiguous
<1> QED
  BY <1>1, <1>2, <1>3

\* A request whose header section is parsed has been received so far.
LEMMA ReceivedSoFar ==
  ASSUME TInv, Contiguous, NEW p \in 1..Len(Stream), LineAt(p), p + 7 <= Arrived
  PROVE  HeaderReceived(request.line)
<1> SUFFICES ASSUME NEW j \in DOMAIN stream, stream[j].of = request.line
             PROVE  stream[j].kind = "byte"
  BY DEF HeaderReceived
<1>1. j \in 1..Len(stream)
  BY DEF TInv, Socket
<1>2. Arrived + j \in (p + 8)..Len(Stream) /\ stream[j] = Stream[Arrived + j]
  <2>1. Arrived \in Nat /\ Len(stream) \in Nat /\ Arrived + Len(stream) = Len(Stream)
    BY PlacesAreNat
  <2>2. stream[j] = Stream[Arrived + j]
    BY <1>1 DEF Contiguous
  <2> QED
    BY <1>1, <2>1, <2>2
<1>3. HeaderAt(Stream, p) /\ Stream[p].of = request.line
  BY StreamFacts DEF LineAt
<1> QED
  BY <1>2, <1>3 DEF HeaderAt

\* A step of the parser that emits nothing and does not touch the stream.
LEMMA EmittedKept ==
  ASSUME Emitted, UNCHANGED <<stream, emitted>>, TInv, TInv',
         garbled' = garbled, garbled = 0,
         \/ request'.line = request.line
         \/ /\ request.line # None => request.line <= request'.line
            /\ emitted # <<>> => request.line # None
  PROVE  Emitted'
<1>1. \A j \in DOMAIN emitted : emitted[j].line \in Nat /\ emitted # <<>>
  <2>1. \A j \in DOMAIN emitted : emitted[j] \in Emission /\ emitted # <<>>
    BY DEF TInv
  <2> QED
    BY <2>1, NumbersAre DEF Emission
<1>2. request.line \in Nat /\ request'.line \in Nat
  BY NumbersAre DEF TInv, RequestInv, Line, None
<1>3. \A j \in DOMAIN emitted' : emitted'[j].line <= request'.line
  BY <1>1, <1>2 DEF Emitted
<1>4. EmittedInOrder'
  BY DEF Emitted, EmittedInOrder, HeaderReceived
<1> QED
  BY <1>3, <1>4 DEF Emitted

\* A request is emitted behind those that were.
LEMMA EmittedOneMore ==
  ASSUME TInv, TInv', Emitted, garbled = 0, stream' = stream, garbled' = garbled,
         NEW r \in Line, r.line = request.line, r.line # None, EmitRequest(r),
         request'.line = request.line, HeaderReceived(request.line)
  PROVE  Emitted'
<1> DEFINE e == [line |-> r.line, length |-> r.length, body |-> r.body, whole |-> whole]
<1>1. e.line = request.line
  OBVIOUS
<1> HIDE DEF e
<1>2. Longer(emitted, e, emitted')
  <2>1. IsSequence(emitted) /\ emitted' = Append(emitted, e)
    BY DEF TInv, IsSequence, EmitRequest, e
  <2> QED
    BY <2>1, OneMore
<1>3. request.line \in Nat
  BY NumbersAre DEF TInv, RequestInv, Line, None
<1> DEFINE n == Len(emitted)
<1>4. /\ n \in Nat /\ DOMAIN emitted = 1..n /\ DOMAIN emitted' = 1..(n + 1)
      /\ \A j \in 1..n : emitted'[j] = emitted[j]
      /\ emitted'[n + 1].line = request.line
  BY <1>1, <1>2 DEF Longer
<1> HIDE DEF n
<1>5. \A j \in 1..(n + 1) : j \in 1..n \/ j = n + 1
  BY <1>4
<1>6. /\ \A j \in 1..n : HeaderReceived(emitted[j].line)
      /\ \A j \in 1..n : emitted[j].line <= request.line
      /\ \A j \in 1..n : \A l \in 1..(j - 1) : emitted[l].line <= emitted[j].line
  BY <1>4 DEF Emitted, EmittedInOrder
<1>7. \A k : HeaderReceived(k) => HeaderReceived(k)'
  BY DEF HeaderReceived
<1>8. \A j \in 1..(n + 1) : emitted'[j].line <= request'.line
  BY <1>3, <1>4, <1>5, <1>6
<1>9. ASSUME NEW j \in 1..(n + 1)
      PROVE  /\ HeaderReceived(emitted[j].line)'
             /\ \A l \in 1..(j - 1) : emitted'[l].line <= emitted'[j].line
  <2>1. HeaderReceived(emitted[j].line)'
    BY <1>4, <1>5, <1>6 DEF HeaderReceived
  <2>2. ASSUME NEW l \in 1..(j - 1) PROVE emitted'[l].line <= emitted'[j].line
    <3>1. l \in 1..n
      BY <1>4
    <3>2. CASE j \in 1..n
      BY <1>4, <1>6, <3>1, <3>2
    <3>3. CASE j = n + 1
      BY <1>4, <1>6, <3>1, <3>3
    <3> QED
      BY <1>5, <3>2, <3>3
  <2> QED
    BY <2>1, <2>2
<1>10. EmittedInOrder'
  BY <1>4, <1>9 DEF EmittedInOrder
<1> QED
  BY <1>4, <1>8, <1>10 DEF Emitted

\* A step that takes nothing out of the stream, the socket or the buffer.
LEMMA ContiguousKept ==
  ASSUME Contiguous, UNCHANGED <<stream, received, buffer>>
  PROVE  Contiguous' /\ Arrived' = Arrived /\ Taken' = Taken /\ Gone' = Gone
BY DEF Contiguous, Arrived, Taken, Gone

\* A step that takes the first tokens out of the buffer.
LEMMA ContiguousErased ==
  ASSUME TInv, Contiguous, NEW n \in 0..Len(buffer),
         UNCHANGED <<stream, received>>,
         buffer' = SubSeq(buffer, n + 1, Len(buffer))
  PROVE  Contiguous' /\ Arrived' = Arrived /\ Taken' = Taken /\ Gone' = Gone + n
<1>0. /\ Len(stream) \in Nat /\ Len(received) \in Nat /\ Len(buffer) \in Nat
      /\ Len(Stream) \in Nat
      /\ Arrived = Len(Stream) - Len(stream) /\ Taken = Arrived - Len(received)
      /\ Gone = Taken - Len(buffer)
      /\ Arrived \in Nat /\ Taken \in Nat /\ Gone \in Nat
  BY PlacesAreNat, StreamFacts DEF Arrived, Taken, Gone
<1>1. buffer \in Seq(Tokens)
  BY DEF TInv, Position
<1>2. /\ Len(buffer') = Len(buffer) - n
      /\ \A j \in 1..Len(buffer') : buffer'[j] = buffer[n + j]
  BY <1>1, RestElements
<1>3. Arrived' = Arrived /\ Taken' = Taken /\ Gone' = Gone + n
  <2>1. Len(buffer') = Len(buffer) - n
    BY <1>2
  <2>2. Gone' = Len(Stream) - Len(stream) - Len(received) - (Len(buffer) - n)
    BY <2>1 DEF Gone, Taken, Arrived
  <2>3. Arrived' = Arrived /\ Taken' = Taken
    BY DEF Taken, Arrived
  <2> QED
    BY <1>0, <2>2, <2>3
<1>4. ASSUME NEW j \in 1..Len(buffer') PROVE buffer'[j] = Stream[Gone' + j]
  <2>1. n + j \in 1..Len(buffer) /\ Gone + (n + j) = Gone' + j
    <3>1. j \in 1..(Len(buffer) - n) /\ Gone' = Gone + n
      BY <1>2, <1>3
    <3> QED
      BY <1>0, <3>1
  <2>2. buffer[n + j] = Stream[Gone + (n + j)]
    BY <2>1 DEF Contiguous
  <2> QED
    BY <1>2, <2>1, <2>2
<1>5. Gone' >= 0
  BY <1>3, PlacesAreNat
<1> QED
  BY <1>3, <1>4, <1>5 DEF Contiguous

\* The parser takes what the socket has received.
LEMMA ContiguousTaken ==
  ASSUME TInv, Contiguous, stream' = stream, buffer' = buffer \o received,
         received' = <<>>
  PROVE  Contiguous' /\ Arrived' = Arrived /\ Gone' = Gone
<1>1. buffer \in Seq(Tokens) /\ received \in Seq(Tokens)
  BY DEF TInv, Position, Socket
<1>2. /\ Len(buffer') = Len(buffer) + Len(received)
      /\ \A j \in 1..Len(buffer) : buffer'[j] = buffer[j]
      /\ \A j \in 1..Len(received) : buffer'[Len(buffer) + j] = received[j]
  BY <1>1
<1>3. Len(received') = 0 /\ Arrived' = Arrived /\ Taken' = Arrived' /\ Gone' = Gone
  BY <1>2, PlacesAreNat DEF Arrived, Taken, Gone
<1>4. ASSUME NEW j \in 1..Len(buffer') PROVE buffer'[j] = Stream[Gone' + j]
  <2>1. CASE j \in 1..Len(buffer)
    BY <1>2, <1>3, <2>1 DEF Contiguous
  <2>2. CASE j \notin 1..Len(buffer)
    <3> DEFINE i == j - Len(buffer)
    <3>1. /\ i \in 1..Len(received) /\ Len(buffer) + i = j
          /\ Taken + i = Gone + j
      <4>1. Len(buffer') = Len(buffer) + Len(received)
        BY <1>2
      <4>2. /\ Taken = Gone + Len(buffer) /\ Gone \in Nat
            /\ Len(buffer) \in Nat /\ Len(received) \in Nat
        BY PlacesAreNat
      <4>3. j \in 1..Len(buffer')
        OBVIOUS
      <4> QED
        BY ONLY <2>2, <4>1, <4>2, <4>3
    <3> HIDE DEF i
    <3>2. received[i] = Stream[Taken + i]
      BY <3>1 DEF Contiguous
    <3>3. buffer'[Len(buffer) + i] = received[i]
      BY <1>2, <3>1
    <3> QED
      BY <1>3, <3>1, <3>2, <3>3
  <2> QED
    BY <2>1, <2>2
<1>5. Gone' >= 0
  BY <1>3, PlacesAreNat
<1> QED
  BY <1>3, <1>4, <1>5 DEF Contiguous

\* The socket receives the next tokens of the stream.
LEMMA ContiguousReceived ==
  ASSUME TInv, Contiguous, NEW n \in 1..Len(stream), buffer' = buffer,
         received' = received \o SubSeq(stream, 1, n),
         stream' = SubSeq(stream, n + 1, Len(stream))
  PROVE  /\ Contiguous' /\ Arrived' = Arrived + n /\ Gone' = Gone
         /\ \A j \in 1..Len(stream') : n + j \in 1..Len(stream)
                                        /\ stream'[j] = stream[n + j]
<1>0. /\ Len(stream) \in Nat /\ Len(received) \in Nat /\ Len(buffer) \in Nat
      /\ Len(Stream) \in Nat
      /\ Arrived = Len(Stream) - Len(stream) /\ Taken = Arrived - Len(received)
      /\ Gone = Taken - Len(buffer)
      /\ Arrived \in Nat /\ Taken \in Nat /\ Gone \in Nat
  BY PlacesAreNat, StreamFacts DEF Arrived, Taken, Gone
<1>1. stream \in Seq(Tokens) /\ received \in Seq(Tokens)
  BY DEF TInv, Socket
<1>2. /\ Len(stream') = Len(stream) - n
      /\ \A j \in 1..Len(stream') : stream'[j] = stream[n + j]
  BY <1>1, RestElements
<1> DEFINE a == SubSeq(stream, 1, n)
<1>3. /\ a \in Seq(Tokens) /\ Len(a) = n /\ \A j \in 1..n : a[j] = stream[j]
  <2>1. n \in 0..Len(stream) /\ 0 \in 0..n /\ n - 0 = n /\ \A j \in 1..n : 0 + j = j
    BY <1>0
  <2>2. /\ a \in Seq(Tokens) /\ Len(a) = n - 0
        /\ \A j \in 1..(n - 0) : a[j] = stream[0 + j]
    BY <1>1, <2>1, SliceElements
  <2> HIDE DEF a
  <2> QED
    BY <2>1, <2>2
<1>4. received' = received \o a
  OBVIOUS
<1> HIDE DEF a
<1>5. /\ Len(received') = Len(received) + n
      /\ \A j \in 1..Len(received) : received'[j] = received[j]
      /\ \A j \in 1..n : received'[Len(received) + j] = stream[j]
  BY <1>1, <1>3, <1>4
<1>6. Arrived' = Arrived + n /\ Taken' = Taken /\ Gone' = Gone
  <2>1. Len(stream') = Len(stream) - n /\ Len(received') = Len(received) + n
    BY <1>2, <1>5
  <2>2. Arrived' = Len(Stream) - (Len(stream) - n)
    BY <2>1 DEF Arrived
  <2>3. Arrived' = Arrived + n
    BY <1>0, <2>2
  <2>4. Taken' = Arrived' - (Len(received) + n)
    BY <2>1 DEF Taken
  <2>5. Taken' = Taken
    BY <1>0, <2>3, <2>4
  <2>6. Gone' = Gone
    BY <2>5 DEF Gone
  <2> QED
    BY <2>3, <2>5, <2>6
<1>7. ASSUME NEW j \in 1..Len(stream')
      PROVE  /\ n + j \in 1..Len(stream) /\ stream'[j] = stream[n + j]
             /\ stream'[j] = Stream[Arrived' + j]
  <2>1. n + j \in 1..Len(stream) /\ Arrived + (n + j) = Arrived' + j
    <3>1. Len(stream') = Len(stream) - n /\ Arrived' = Arrived + n
      BY <1>2, <1>6
    <3> QED
      BY <1>0, <3>1
  <2>2. stream[n + j] = Stream[Arrived + (n + j)]
    BY <2>1 DEF Contiguous
  <2> QED
    BY <1>2, <2>1, <2>2
<1>8. ASSUME NEW j \in 1..Len(received') PROVE received'[j] = Stream[Taken' + j]
  <2>1. CASE j \in 1..Len(received)
    BY <1>5, <1>6, <2>1 DEF Contiguous
  <2>2. CASE j \notin 1..Len(received)
    <3> DEFINE i == j - Len(received)
    <3>1. /\ i \in 1..n /\ i \in 1..Len(stream) /\ Len(received) + i = j
          /\ Arrived + i = Taken + j
      <4>1. Len(received') = Len(received) + n
        BY <1>5
      <4> QED
        BY <1>0, <2>2, <4>1
    <3> HIDE DEF i
    <3>2. stream[i] = Stream[Arrived + i]
      BY <3>1 DEF Contiguous
    <3>3. received'[Len(received) + i] = stream[i]
      BY <1>5, <3>1
    <3> QED
      BY <1>6, <3>1, <3>2, <3>3
  <2> QED
    BY <2>1, <2>2
<1>9. Len(stream') <= Len(Stream) /\ Gone' >= 0
  <2>1. Len(stream') = Len(stream) - n /\ Gone' = Gone
    BY <1>2, <1>6
  <2> QED
    BY <1>0, <2>1
<1>10. \A j \in 1..Len(buffer') : buffer'[j] = Stream[Gone' + j]
  BY <1>6 DEF Contiguous
<1>11. Contiguous'
  BY <1>7, <1>8, <1>9, <1>10 DEF Contiguous
<1> QED
  BY <1>6, <1>7, <1>11
\* What a step starts from.
Ordered == TInv /\ Emitted /\ Contiguous /\ Place /\ garbled = 0

\* The line of the request is still where it was.
LEMMA PlaceKept ==
  ASSUME TInv, Contiguous, Place, UNCHANGED <<status, pos, parsed>>,
         request'.line = request.line, Gone' = Gone, Arrived <= Arrived',
         Arrived' \in Nat,
         pc' # "parse" => pc # "parse" \/ status = "REQUEST_LINE"
  PROVE  Place'
<1>1. ASSUME NEW p \in 1..Len(Stream), LineAt(p) PROVE LineAt(p)'
  <2>1. p + 7 <= Arrived => p + 7 <= Arrived'
    BY StreamFacts, PlacesAreNat
  <2>2. Gone' + pos' = Gone + pos
    OBVIOUS
  <2> QED
    BY <1>1, <2>1, <2>2 DEF LineAt
<1> QED
  BY <1>1 DEF Place

LEMMA OrderReceived ==
  ASSUME Ordered, TInv', ReadFromSocket, garbled' = 0
  PROVE  Emitted' /\ Contiguous' /\ Place'
<1>1. PICK n \in 1..Len(stream) :
        /\ received' = received \o SubSeq(stream, 1, n)
        /\ stream' = SubSeq(stream, n + 1, Len(stream))
  <2>1. garbled = 0 /\ garbled' # garbled + 1
    BY DEF Ordered
  <2> QED
    BY <2>1 DEF ReadFromSocket
<1>2. UNCHANGED <<pc, buffer, pos, parsed, status, request, emitted>>
  BY DEF ReadFromSocket
<1>4. /\ Contiguous' /\ Arrived' = Arrived + n /\ Gone' = Gone
      /\ \A j \in 1..Len(stream') : n + j \in 1..Len(stream)
                                     /\ stream'[j] = stream[n + j]
  BY <1>1, <1>2, ContiguousReceived DEF Ordered
<1>5. Arrived <= Arrived' /\ Arrived' \in Nat
  <2>1. n \in Nat /\ Arrived \in Nat
    BY PlacesAreNat DEF Ordered
  <2> QED
    BY <1>4, <2>1
<1>6. Place'
  BY <1>2, <1>4, <1>5, PlaceKept DEF Ordered
<1>7. ASSUME NEW k, HeaderReceived(k) PROVE HeaderReceived(k)'
  <2>1. DOMAIN stream = 1..Len(stream) /\ DOMAIN stream' = 1..Len(stream')
    BY DEF Ordered, TInv, Socket
  <2> QED
    BY <1>4, <1>7, <2>1 DEF HeaderReceived
<1>8. Emitted'
  <2>1. ASSUME NEW j \in DOMAIN emitted' PROVE HeaderReceived(emitted[j].line)'
    <3>1. PICK k : k = emitted[j].line
      OBVIOUS
    <3>2. HeaderReceived(k) /\ emitted'[j].line = k
      BY <1>2, <2>1, <3>1 DEF Ordered, Emitted, EmittedInOrder
    <3>3. HeaderReceived(k)'
      BY <1>7, <3>2
    <3> QED
      BY <3>2, <3>3 DEF HeaderReceived
  <2>2. \A j \in DOMAIN emitted' : \A l \in 1..(j - 1) :
          emitted'[l].line <= emitted'[j].line
    BY <1>2 DEF Ordered, Emitted, EmittedInOrder
  <2>3. \A j \in DOMAIN emitted' : emitted'[j].line <= request'.line
    BY <1>2 DEF Ordered, Emitted
  <2>4. EmittedInOrder'
    BY <2>1, <2>2 DEF EmittedInOrder
  <2> QED
    BY <2>3, <2>4 DEF Emitted
<1> QED
  BY <1>4, <1>6, <1>8

LEMMA OrderNewConnection ==
  ASSUME Ordered, TInv', NewConnection
  PROVE  Emitted' /\ Contiguous' /\ Place'
<1>1. /\ UNCHANGED <<stream, received, garbled, buffer, pos, parsed, status, request,
                     emitted>>
      /\ pc = "unborn"
  BY DEF NewConnection
<1>2. Contiguous' /\ Arrived' = Arrived /\ Gone' = Gone
  BY <1>1, ContiguousKept DEF Ordered
<1>3. Arrived <= Arrived' /\ Arrived' \in Nat
  BY <1>2, PlacesAreNat DEF Ordered
<1>4. Place'
  BY <1>1, <1>2, <1>3, PlaceKept DEF Ordered
<1>5. Emitted'
  BY <1>1, EmittedKept DEF Ordered
<1> QED
  BY <1>2, <1>4, <1>5

LEMMA OrderBeginParse ==
  ASSUME Ordered, TInv', BeginParse, pc # "parse"
  PROVE  Emitted' /\ Contiguous' /\ Place'
<1>1. /\ UNCHANGED <<stream, garbled, pos, parsed, status, request, emitted>>
      /\ buffer' = buffer \o received /\ received' = <<>> /\ pc' = "parse"
  BY DEF BeginParse
<1>2. Contiguous' /\ Arrived' = Arrived /\ Gone' = Gone
  BY <1>1, ContiguousTaken DEF Ordered
<1>3. Arrived <= Arrived' /\ Arrived' \in Nat
  BY <1>2, PlacesAreNat DEF Ordered
<1>4. Place'
  BY <1>1, <1>2, <1>3, PlaceKept DEF Ordered
<1>5. Emitted'
  BY <1>1, EmittedKept DEF Ordered
<1> QED
  BY <1>2, <1>4, <1>5

\* partialParse gives up: what it has moved past is still in the buffer.
LEMMA OrderReturnFalse ==
  ASSUME Ordered, TInv', ReturnFalse
  PROVE  Emitted' /\ Contiguous' /\ Place'
<1>1. /\ UNCHANGED <<stream, received, garbled, buffer, status, request, emitted>>
      /\ pos' = 0 /\ parsed' = 0
  BY DEF ReturnFalse, socketVars
<1>2. Contiguous' /\ Arrived' = Arrived /\ Gone' = Gone
  BY <1>1, ContiguousKept DEF Ordered
<1>3. ASSUME NEW p \in 1..Len(Stream), LineAt(p) PROVE LineAt(p)'
  <2>1. Gone' + pos' = Gone
    BY <1>1, <1>2, PlacesAreNat DEF Ordered
  <2> QED
    BY <1>1, <1>2, <1>3, <2>1 DEF LineAt
<1>4. Place'
  BY <1>1, <1>3 DEF Place, Ordered
<1>5. Emitted'
  BY <1>1, EmittedKept DEF Ordered
<1> QED
  BY <1>2, <1>4, <1>5

\* The end of the data: what has been counted as parsed leaves the buffer.
LEMMA OrderEndOfData ==
  ASSUME Ordered, TInv', alive, EndOfData
  PROVE  Emitted' /\ Contiguous' /\ Place'
<1>1. /\ UNCHANGED <<stream, received, garbled, status, request, emitted>>
      /\ buffer' = SubSeq(buffer, parsed + 1, Len(buffer))
      /\ pos' = 0 /\ parsed' = 0
  BY DEF EndOfData, socketVars
<1>2. parsed \in 0..Len(buffer) /\ parsed \in Nat
  BY PlacesAreNat DEF Ordered, TInv, Position
<1>3. Contiguous' /\ Arrived' = Arrived /\ Gone' = Gone + parsed
  BY <1>1, <1>2, ContiguousErased DEF Ordered
<1>4. ASSUME NEW p \in 1..Len(Stream), LineAt(p) PROVE LineAt(p)'
  <2>1. Gone \in Nat /\ p \in Nat
    BY PlacesAreNat, StreamFacts DEF Ordered
  <2>2. p <= Gone' + 1
    BY <1>2, <1>3, <1>4, <2>1 DEF LineAt
  <2>3. Gone' + pos' = Gone'
    BY <1>1, <1>2, <1>3, <2>1
  <2>4. status' = "HEADER_LINES" => Gone' \in {p - 1, p + 2, p + 5}
    BY <1>1, <1>3, <1>4 DEF LineAt, Ordered, Place
  <2> QED
    BY <1>1, <1>3, <1>4, <2>2, <2>3, <2>4 DEF LineAt
<1>5. Place'
  BY <1>1, <1>4 DEF Place, Ordered
<1>6. Emitted'
  BY <1>1, EmittedKept DEF Ordered
<1> QED
  BY <1>3, <1>5, <1>6
\* The line before the parser ends where the first line end is.
LEMMA OrderRequestLine ==
  ASSUME Ordered, TInv', ParseRequestLine
  PROVE  Emitted' /\ (alive' => Contiguous' /\ Place')
<1> DEFINE Whole == EndOfLine # None /\ Len(LineText) = 1 /\ LineText[1].kind = "line"
<1>1. CASE ~Whole
  <2>1. ReturnFalse
    BY <1>1 DEF ParseRequestLine
  <2> QED
    BY <2>1, OrderReturnFalse
<1>2. CASE Whole
  <2>1. PICK k : k = LineText[1].of
    OBVIOUS
  <2>2. /\ RemovePrefix(EndOfLine + 1) /\ parsed' = parsed + EndOfLine + 1
        /\ request' = [request EXCEPT !.line = k]
        /\ status' = "HEADER_LINES" /\ status = "REQUEST_LINE" /\ pc = "parse"
        /\ UNCHANGED <<stream, received, garbled, pc, buffer, emitted>>
    BY <1>2, <2>1 DEF ParseRequestLine, socketVars
  <2>3. pos = 0 /\ parsed = 0
    BY <2>2 DEF Ordered, Place
  <2>4. Data \in Seq(Tokens) /\ Len(Data) \in Nat /\ 1 \in 1..Len(Data)
    BY <1>2, DataElements, LineBefore DEF Ordered, TInv
  <2>5. EndOfLine = 2 /\ LineText[1] = Data[1]
    BY <1>2, LineBefore DEF Ordered, TInv
  <2>6. PICK p : p = Gone + 1
    OBVIOUS
  <2>7. p \in 1..Len(Stream) /\ Stream[p].kind = "line" /\ Stream[p].of = k
    <3>1. 1 \in 1..Len(Data) /\ Gone + pos + 1 = p
      BY <2>3, <2>4, <2>6, PlacesAreNat DEF Ordered
    <3>2. p \in 1..Len(Stream) /\ Data[1] = Stream[p]
      BY <3>1, SeenInStream DEF Ordered
    <3> QED
      BY <1>2, <2>1, <2>5, <3>2
  <2>8. request'.line = k
    BY <2>2 DEF Ordered, TInv, RequestInv, Line
  <2>9. request.line # None => request.line <= k
    <3> SUFFICES ASSUME request.line # None PROVE request.line <= k
      OBVIOUS
    <3>1. PICK q \in 1..Len(Stream) : LineAt(q)
      BY DEF Ordered, Place
    <3>2. q <= p /\ Stream[q].of = request.line
      BY <2>6, <3>1 DEF LineAt
    <3> QED
      BY <2>7, <3>2, StreamFacts
  <2>10. emitted # <<>> => request.line # None
    <3> SUFFICES ASSUME emitted # <<>> PROVE request.line # None
      OBVIOUS
    <3>1. emitted \in Seq(Emission) /\ Len(emitted) \in Nat /\ Len(emitted) # 0
      BY EmptySeq DEF Ordered, TInv
    <3>2. 1 \in DOMAIN emitted /\ emitted[1] \in Emission
      BY <3>1
    <3>3. emitted[1].line \in Numbers /\ emitted[1].line <= request.line
      BY <3>2 DEF Emission, Ordered, Emitted
    <3> QED
      BY <3>3, NumbersAre DEF None
  <2>11. Emitted'
    BY <2>2, <2>8, <2>9, <2>10, EmittedKept DEF Ordered
  <2>12. Contiguous' /\ Arrived' = Arrived /\ Gone' = Gone
    BY <2>2, ContiguousKept DEF Ordered
  <2>13. ASSUME alive' PROVE Place'
    <3>1. RemovePrefix(3) /\ parsed' = 3
      BY <2>2, <2>3, <2>5
    <3>2. pos' = 3
      <4>1. alive' => pos' = pos + 3
        BY <2>2, <3>1, Removed DEF Ordered, TInv
      <4> QED
        BY <2>3, <2>13, <4>1
    <3>3. LineAt(p)'
      <4>1. Gone \in Nat
        BY PlacesAreNat DEF Ordered
      <4>2. Gone' = p - 1 /\ Gone' + pos' = p + 2 /\ p <= Gone' + 1
        BY <2>12, <2>6, <3>2, <4>1
      <4> QED
        BY <2>2, <2>7, <2>8, <4>2 DEF LineAt
    <3> QED
      BY <2>2, <2>7, <3>1, <3>2, <3>3 DEF Place
  <2> QED
    BY <2>11, <2>12, <2>13
<1> QED
  BY <1>1, <1>2

\* A step of the header lines knows where it is: at the line, the field or the
\* blank line.
LEMMA AtHeader ==
  ASSUME Ordered, status = "HEADER_LINES", pc = "parse"
  PROVE  /\ parsed = pos
         /\ \E p \in 1..Len(Stream) :
              /\ LineAt(p) /\ HeaderAt(Stream, p) /\ Stream[p].kind = "line"
              /\ Gone + pos \in {p - 1, p + 2, p + 5}
<1>1. request.line # None /\ parsed = pos
  BY DEF Ordered, TInv, RequestInv, Place
<1>2. PICK p \in 1..Len(Stream) : LineAt(p)
  BY <1>1 DEF Ordered, Place
<1>3. Stream[p].kind = "line" /\ Gone + pos \in {p - 1, p + 2, p + 5}
  BY <1>2 DEF LineAt
<1> QED
  BY <1>1, <1>2, <1>3, StreamFacts

\* Only the two line ends after the field are taken for the blank line.
LEMMA OrderBlankLine ==
  ASSUME Ordered, TInv', alive, BlankLine
  PROVE  Emitted' /\ (alive' => Contiguous' /\ Place')
<1>1. /\ status = "HEADER_LINES" /\ pc = "parse" /\ EndOfLine = 1
      /\ RemovePrefix(2) /\ status' = "BODY"
      /\ UNCHANGED <<stream, received, garbled, pc, buffer, parsed, request, emitted>>
  BY DEF BlankLine, Blank, BlankLineSize, socketVars
<1>2. PICK p \in 1..Len(Stream) :
        /\ LineAt(p) /\ HeaderAt(Stream, p) /\ Stream[p].kind = "line"
        /\ Gone + pos \in {p - 1, p + 2, p + 5}
  BY <1>1, AtHeader
<1>3. /\ Len(Data) \in Nat /\ 1 \in 1..Len(Data) /\ Data[1].kind \in {"cr", "lf"}
      /\ Len(Data) = Len(buffer) - pos /\ pos \in 0..Len(buffer)
  BY <1>1, DataElements, EndOfLineIs DEF Ordered, TInv, None, Position, LineEnds
<1>4. Gone + pos = p + 5
  <2>1. Stream[Gone + pos + 1].kind \in {"cr", "lf"}
    BY <1>3, SeenInStream DEF Ordered
  <2>2. p \in Nat
    BY StreamFacts
  <2>3. CASE Gone + pos = p - 1
    <3>1. Gone + pos + 1 = p
      BY <2>2, <2>3
    <3> QED
      BY <1>2, <2>1, <3>1
  <2>4. CASE Gone + pos = p + 2
    <3>1. Gone + pos + 1 = p + 3
      BY <2>2, <2>4
    <3> QED
      BY <1>2, <2>1, <3>1 DEF HeaderAt
  <2> QED
    BY <1>2, <2>3, <2>4
<1>5. Emitted'
  BY <1>1, EmittedKept DEF Ordered
<1>6. Contiguous' /\ Arrived' = Arrived /\ Gone' = Gone
  BY <1>1, ContiguousKept DEF Ordered
<1>7. ASSUME alive' PROVE Place'
  <2>1. 2 <= Len(Data)
    BY <1>1, <1>7 DEF RemovePrefix
  <2>2. /\ Gone \in Nat /\ Len(received) \in Nat /\ Len(buffer) \in Nat
        /\ Gone + Len(buffer) + Len(received) = Arrived /\ Arrived \in Nat /\ pos \in Nat
    BY <1>3, PlacesAreNat DEF Ordered
  <2>3. p + 7 <= Arrived
    BY <1>3, <1>4, <2>1, <2>2, StreamFacts
  <2>4. LineAt(p)'
    BY <1>1, <1>2, <1>6, <2>3 DEF LineAt
  <2> QED
    BY <1>1, <2>4 DEF Place
<1> QED
  BY <1>5, <1>6, <1>7

\* Only the line of the field, and a request line that was left over, are taken for
\* a header line.
LEMMA OrderHeaderLine ==
  ASSUME Ordered, TInv', ParseHeaderLine
  PROVE  Emitted' /\ (alive' => Contiguous' /\ Place')
<1>1. CASE Colon = None \/ Colon > EndOfLine
  <2>1. ReturnFalse
    BY <1>1 DEF ParseHeaderLine
  <2> QED
    BY <2>1, OrderReturnFalse
<1>2. CASE ~(Colon = None \/ Colon > EndOfLine)
  <2>1. /\ status = "HEADER_LINES" /\ pc = "parse" /\ EndOfLine # 1
        /\ RemovePrefix(EndOfLine + 1) /\ parsed' = parsed + EndOfLine + 1
        /\ request' = request \/ \E k : request' = [request EXCEPT !.length = k]
        /\ UNCHANGED <<stream, received, garbled, pc, buffer, status, emitted>>
    BY <1>2 DEF ParseHeaderLine, Blank, socketVars
  <2>2. PICK p \in 1..Len(Stream) :
          /\ LineAt(p) /\ HeaderAt(Stream, p) /\ Stream[p].kind = "line"
          /\ Gone + pos \in {p - 1, p + 2, p + 5}
    BY <2>1, AtHeader
  <2>3. Position /\ Len(Data) \in Nat
    BY DataElements DEF Ordered, TInv
  <2>4. /\ EndOfLine \in 1..Len(Data)
        /\ Data[EndOfLine].kind \in {"cr", "lf"}
        /\ \A l \in 1..(EndOfLine - 1) : Data[l].kind \notin {"cr", "lf"}
    <3>1. Colon \in 0..Len(Data)
      BY <2>3, ColonIs
    <3>2. /\ EndOfLine \in 0..Len(Data)
          /\ EndOfLine # None =>
               /\ Data[EndOfLine].kind \in {"cr", "lf"}
               /\ \A l \in 1..(EndOfLine - 1) : Data[l].kind \notin {"cr", "lf"}
      BY <2>3, EndOfLineIs DEF LineEnds
    <3>3. EndOfLine # 0
      BY <1>2, <2>3, <3>1, <3>2 DEF None
    <3> QED
      BY <2>3, <3>2, <3>3 DEF None
  <2>5. /\ p \in Nat /\ 1 \in 1..Len(Data)
        /\ Data[1] = Stream[Gone + pos + 1]
        /\ 2 \in 1..Len(Data) => Data[2] = Stream[Gone + pos + 2]
    <3>1. 1 \in 1..Len(Data) /\ p \in Nat
      BY <2>3, <2>4, StreamFacts
    <3> QED
      BY <3>1, SeenInStream DEF Ordered
  <2>7. EndOfLine >= 2 /\ 2 \in 1..Len(Data)
    BY <2>1, <2>3, <2>4
  <2>8. Data[2].kind \in {"cr", "lf"} => EndOfLine = 2
    <3>1. EndOfLine # 2 => 2 \in 1..(EndOfLine - 1)
      BY <2>3, <2>4, <2>7
    <3> QED
      BY <2>4, <3>1
  <2>10. Gone + pos # p + 5
    <3> SUFFICES ASSUME Gone + pos = p + 5 PROVE FALSE
      OBVIOUS
    <3>1. Gone + pos + 1 = p + 6
      BY <2>5
    <3>2. Data[1].kind = "cr"
      BY <2>2, <2>5, <3>1 DEF HeaderAt
    <3>3. 1 \in 1..(EndOfLine - 1)
      BY <2>3, <2>4, <2>7
    <3> QED
      BY <2>4, <3>2, <3>3
  <2>11. Gone + pos \in {p - 1, p + 2}
    BY <2>2, <2>10
  <2>12. EndOfLine = 2
    <3>1. Gone + pos + 2 \in {p + 1, p + 4}
      BY <2>5, <2>11
    <3>2. Data[2].kind = "cr"
      BY <2>2, <2>5, <2>7, <3>1 DEF HeaderAt
    <3> QED
      BY <2>8, <3>2
  <2>13. request'.line = request.line
    BY <2>1 DEF Ordered, TInv, RequestInv, Line
  <2>14. Emitted'
    BY <2>1, <2>13, EmittedKept DEF Ordered
  <2>15. Contiguous' /\ Arrived' = Arrived /\ Gone' = Gone
    BY <2>1, ContiguousKept DEF Ordered
  <2>16. ASSUME alive' PROVE Place'
    <3>1. RemovePrefix(3) /\ parsed' = pos + 3 /\ pos \in Nat /\ Gone \in Nat
      <4>1. parsed = pos /\ pos \in Nat /\ Gone \in Nat
        BY <2>1, AtHeader, PlacesAreNat DEF Ordered, TInv, Position
      <4>2. 2 + 1 = 3 /\ pos + 2 + 1 = pos + 3
        BY <4>1
      <4> QED
        BY <2>1, <2>12, <4>1, <4>2
    <3>2. pos' = pos + 3
      BY <2>1, <2>3, <2>16, <3>1, Removed
    <3>3. Gone' + pos' \in {p + 2, p + 5}
      BY <2>5, <2>11, <2>15, <3>1, <3>2
    <3>4. LineAt(p)'
      BY <2>1, <2>2, <2>13, <2>15, <3>3 DEF LineAt
    <3> QED
      BY <2>1, <3>1, <3>2, <3>4 DEF Place
  <2> QED
    BY <2>14, <2>15, <2>16
<1> QED
  BY <1>1, <1>2

\* The buffer is cleared: whatever it held has gone.
LEMMA ContiguousCleared ==
  ASSUME TInv, Contiguous, UNCHANGED <<stream, received>>, buffer' = <<>>
  PROVE  Contiguous' /\ Arrived' = Arrived /\ Gone' = Taken
<1> DEFINE n == Len(buffer)
<1>1. n \in Nat /\ n \in 0..n /\ buffer \in Seq(Tokens)
  BY DEF TInv, Position
<1>2. SubSeq(buffer, n + 1, n) = <<>>
  BY <1>1, RestElements
<1>3. Contiguous' /\ Arrived' = Arrived /\ Gone' = Gone + n
  BY <1>1, <1>2, ContiguousErased
<1>4. Gone + n = Taken
  BY PlacesAreNat
<1> QED
  BY <1>3, <1>4

\* A request is emitted, and the parser starts over with an empty buffer.
LEMMA OrderReturnTrue ==
  ASSUME Ordered, TInv', status \in {"BODY", "FINISHED"},
         NEW r \in Line, r.line = request.line, EmitRequest(r),
         request'.line = request.line, ReturnTrue,
         UNCHANGED <<stream, received, garbled>>,
         status' \in {"FINISHED", "REQUEST_LINE"}
  PROVE  Emitted' /\ Contiguous' /\ Place'
<1>1. buffer' = <<>> /\ pos' = 0 /\ parsed' = 0
  BY DEF ReturnTrue
<1>2. Contiguous' /\ Arrived' = Arrived /\ Gone' = Taken
  BY <1>1, ContiguousCleared DEF Ordered
<1>3. request.line # None
  BY DEF Ordered, TInv, RequestInv
<1>4. PICK p \in 1..Len(Stream) : LineAt(p)
  BY <1>3 DEF Ordered, Place
<1>5. p + 7 <= Arrived
  BY <1>4 DEF LineAt
<1>6. Emitted'
  <2>1. HeaderReceived(request.line)
    BY <1>4, <1>5, ReceivedSoFar DEF Ordered
  <2> QED
    BY <1>3, <2>1, EmittedOneMore DEF Ordered
<1>7. LineAt(p)'
  <2>1. p <= Gone' + 1
    <3>1. Gone \in Nat /\ Len(buffer) \in Nat /\ Gone + Len(buffer) = Taken /\ p \in Nat
      BY PlacesAreNat, StreamFacts DEF Ordered
    <3>2. p <= Gone + 1
      BY <1>4 DEF LineAt
    <3> QED
      BY <1>2, <3>1, <3>2
  <2> QED
    BY <1>2, <1>4, <1>5, <2>1 DEF LineAt
<1>8. Place'
  BY <1>1, <1>7 DEF Place
<1> QED
  BY <1>2, <1>6, <1>8

LEMMA OrderBody ==
  ASSUME Ordered, TInv', ParseBody
  PROVE  Emitted' /\ Contiguous' /\ Place'
<1> DEFINE n == Requests[request.length]
           r == IF request.length = None THEN request
                ELSE [request EXCEPT !.body = SubSeq(Data, 1, n)]
<1>1. CASE request.length # None /\ BodyIncomplete(n)
  BY <1>1, OrderReturnFalse DEF ParseBody
<1>2. CASE ~(request.length # None /\ BodyIncomplete(n))
  <2>1. /\ request' = r /\ status' = "FINISHED" /\ ReturnTrue /\ EmitRequest(r)
        /\ UNCHANGED <<stream, received, garbled>> /\ status = "BODY"
    BY <1>2 DEF ParseBody, socketVars
  <2>2. r.line = request.line
    BY DEF Ordered, TInv, RequestInv, Line
  <2> HIDE DEF r
  <2>3. r \in Line
    BY <2>1 DEF TInv, RequestInv
  <2> QED
    BY <2>1, <2>2, <2>3, OrderReturnTrue
<1> QED
  BY <1>1, <1>2

LEMMA OrderFinished ==
  ASSUME Ordered, TInv', Finished
  PROVE  Emitted' /\ Contiguous' /\ Place'
<1>1. /\ status = "FINISHED" /\ status' = "REQUEST_LINE" /\ ReturnTrue
      /\ EmitRequest(request) /\ request' = request
      /\ UNCHANGED <<stream, received, garbled>>
  BY DEF Finished, socketVars
<1>2. request \in Line
  BY DEF Ordered, TInv, RequestInv
<1> QED
  BY <1>1, <1>2, OrderReturnTrue

LEMMA OrderNext == TInv /\ OrderInv /\ [Next]_vars => OrderInv'
<1> SUFFICES ASSUME TInv, OrderInv, [Next]_vars PROVE OrderInv'
  OBVIOUS
<1>1. TInv'
  BY TypesNext
<1>2. CASE UNCHANGED vars
  BY <1>2 DEF vars, socketVars, OrderInv, Emitted, EmittedInOrder, HeaderReceived,
              Contiguous, Place, LineAt, Arrived, Taken, Gone
<1>3. CASE Next
  <2> SUFFICES ASSUME garbled' = 0 PROVE Emitted' /\ (alive' => Contiguous' /\ Place')
    BY DEF OrderInv
  <2>1. alive
    BY <1>3 DEF Next, Parser
  <2>2. garbled = 0
    <3>1. CASE Parser
      BY <3>1 DEF Parser, NewConnection, CheckIncomingData, DataReady, BeginParse,
                  EndOfData, ParseRequestLine, BlankLine, ParseHeaderLine, ParseBody,
                  Finished, ReturnFalse, socketVars
    <3>2. CASE ReadFromSocket
      <4>1. garbled' = garbled \/ garbled' = garbled + 1
        BY <3>2 DEF ReadFromSocket
      <4>2. garbled \in Nat
        BY MaxGarbledAssumption DEF TInv, Socket
      <4> QED
        BY <4>1, <4>2
    <3> QED
      BY <1>3, <3>1, <3>2 DEF Next
  <2>3. Ordered
    BY <2>1, <2>2 DEF Ordered, OrderInv
  <2>4. CASE ReadFromSocket
    BY <1>1, <2>3, <2>4, OrderReceived
  <2>5. CASE NewConnection
    BY <1>1, <2>3, <2>5, OrderNewConnection
  <2>6. CASE CheckIncomingData \/ DataReady
    <3>1. BeginParse /\ pc # "parse"
      BY <2>6 DEF CheckIncomingData, DataReady
    <3> QED
      BY <1>1, <2>3, <3>1, OrderBeginParse
  <2>7. CASE EndOfData
    BY <1>1, <2>1, <2>3, <2>7, OrderEndOfData
  <2>8. CASE ParseRequestLine
    BY <1>1, <2>3, <2>8, OrderRequestLine
  <2>9. CASE BlankLine
    BY <1>1, <2>1, <2>3, <2>9, OrderBlankLine
  <2>10. CASE ParseHeaderLine
    BY <1>1, <2>3, <2>10, OrderHeaderLine
  <2>11. CASE ParseBody
    BY <1>1, <2>3, <2>11, OrderBody
  <2>12. CASE Finished
    BY <1>1, <2>3, <2>12, OrderFinished
  <2> QED
    BY <1>3, <2>4, <2>5, <2>6, <2>7, <2>8, <2>9, <2>10, <2>11, <2>12 DEF Next, Parser
<1> QED
  BY <1>2, <1>3

LEMMA OrderInit == Init => OrderInv
<1> SUFFICES ASSUME Init PROVE OrderInv
  OBVIOUS
<1>1. /\ stream = Stream /\ received = <<>> /\ buffer = <<>> /\ pos = 0 /\ parsed = 0
      /\ status = "REQUEST_LINE" /\ emitted = <<>> /\ request.line = None
  BY DEF Init
<1>2. DOMAIN emitted = {} /\ Len(received) = 0 /\ Len(buffer) = 0
  BY <1>1
<1>3. Arrived = 0 /\ Taken = 0 /\ Gone = 0
  <2>1. Len(Stream) \in Nat
    BY StreamFacts
  <2>2. Arrived = 0
    BY <1>1, <2>1 DEF Arrived
  <2>3. Taken = 0
    BY <1>2, <2>2 DEF Taken
  <2> QED
    BY <1>2, <2>2, <2>3 DEF Gone
<1>4. Contiguous
  <2>1. Len(stream) <= Len(Stream) /\ Gone >= 0
    BY <1>1, <1>3, StreamFacts
  <2>2. \A j \in 1..Len(stream) : stream[j] = Stream[Arrived + j]
    BY <1>1, <1>3, StreamFacts
  <2> QED
    BY <1>2, <2>1, <2>2 DEF Contiguous
<1>5. Place
  BY <1>1 DEF Place
<1>6. Emitted
  BY <1>2 DEF Emitted, EmittedInOrder
<1> QED
  BY <1>4, <1>5, <1>6 DEF OrderInv

\* As long as reads append what they have received and nothing else, however they
\* cut the bytes, a request is emitted after its header section has been received
\* and never after a later one.
THEOREM RequestsInOrder == Spec => []EmittedInOrder
<1>1. OrderInv => EmittedInOrder
  BY DEF OrderInv, Emitted, EmittedInOrder
<1> QED
  BY <1>1, OrderInit, OrderNext, SpecTInv, PTL DEF Spec
-----------------------------------------------------------------------------
(* Where the tokens come from, received ones or not.                       *)

Held == buffer \o received

\* The i-th token of s is the g[i]-th of the stream, a leftover that of none, and
\* the stream's order is kept.
From(g, s, n) ==
  /\ g \in [1..Len(s) -> 0..n]
  /\ \A i \in 1..Len(s) : IF g[i] = 0 THEN s[i] \in Leftovers ELSE s[i] = Stream[g[i]]
  /\ \A i, l \in 1..Len(s) : i < l /\ g[i] # 0 /\ g[l] # 0 => g[i] < g[l]

\* What parser and socket hold has been received in the order of the stream, and
\* what is under way is the rest of it.
Placed ==
  /\ Len(stream) <= Len(Stream)
  /\ \A j \in 1..Len(stream) : stream[j] = Stream[Arrived + j]
  /\ \E g : From(g, Held, Arrived)

\* Later tokens are of no earlier request, and a line is the first of its request.
LEMMA StreamOrder ==
  ASSUME NEW p \in 1..Len(Stream), NEW q \in 1..Len(Stream), p < q
  PROVE  /\ Stream[p].of <= Stream[q].of
         /\ Stream[q].kind = "line" => Stream[p].of < Stream[q].of
<1>1. Stream[p].of <= Stream[q].of /\ Stream[p].of \in Nat /\ Stream[q].of \in Nat
      /\ p \in Nat /\ q \in Nat
  BY StreamFacts
<1>2. Stream[q].kind = "line" => Stream[p].of # Stream[q].of
  <2> SUFFICES ASSUME Stream[q].kind = "line", Stream[p].of = Stream[q].of
               PROVE  FALSE
    OBVIOUS
  <2>1. p \in q..End(Stream, q)
    BY StreamFacts
  <2> QED
    BY <1>1, <2>1
<1> QED
  BY <1>1, <1>2

LEMMA ArrivedIsNat ==
  ASSUME TInv, Placed
  PROVE  /\ Arrived \in Nat /\ Len(stream) \in Nat /\ Len(Stream) \in Nat
         /\ Arrived + Len(stream) = Len(Stream)
         /\ \A j \in 1..Len(stream) :
              Arrived + j \in 1..Len(Stream) /\ Arrived + j > Arrived
<1>1. Len(stream) \in Nat /\ Len(Stream) \in Nat
  BY StreamFacts DEF TInv, Socket
<1>2. Arrived \in Nat /\ Arrived + Len(stream) = Len(Stream)
  BY <1>1 DEF Placed, Arrived
<1> QED
  BY <1>1, <1>2

\* What is held is of no later request than what is under way.
LEMMA HeldBeforeStream ==
  ASSUME TInv, Placed, NEW i \in 1..Len(Held), NEW j \in 1..Len(stream)
  PROVE  /\ Held[i].of <= stream[j].of
         /\ stream[j].kind = "line" => Held[i].of < stream[j].of
<1>1. PICK g : From(g, Held, Arrived)
  BY DEF Placed
<1>2. /\ Arrived + j \in 1..Len(Stream) /\ stream[j] = Stream[Arrived + j]
      /\ Arrived + j > Arrived /\ Arrived \in Nat /\ Arrived + j \in Nat
      /\ Arrived <= Len(Stream) /\ Len(Stream) \in Nat
  BY ArrivedIsNat DEF Placed
<1>3. stream[j].of \in Nat /\ stream[j].of > 0
  BY <1>2, StreamFacts, NumbersAre
<1>4. CASE g[i] = 0
  <2>1. Held[i].of = 0
    BY <1>1, <1>4, LeftoverElements DEF From
  <2> QED
    BY <1>3, <2>1
<1>5. CASE g[i] # 0
  <2>1. g[i] \in 1..Arrived /\ Held[i] = Stream[g[i]]
    BY <1>1, <1>2, <1>5 DEF From
  <2>2. g[i] \in 1..Len(Stream) /\ g[i] < Arrived + j
    BY <1>2, <2>1
  <2> QED
    BY <1>2, <2>1, <2>2, StreamOrder
<1> QED
  BY <1>4, <1>5

\* ... nor than what is held behind it, but for leftovers.
LEMMA HeldInOrder ==
  ASSUME TInv, Placed, NEW i \in 1..Len(Held), NEW l \in 1..Len(Held), i < l
  PROVE  /\ Held[l].of # None => Held[i].of <= Held[l].of
         /\ Held[l].kind = "line" => Held[i].of < Held[l].of
<1>1. PICK g : From(g, Held, Arrived)
  BY DEF Placed
<1>2. Arrived \in Nat /\ Arrived <= Len(Stream) /\ Len(Stream) \in Nat
  BY ArrivedIsNat
<1>3. CASE g[l] = 0
  <2>1. Held[l].of = None /\ Held[l].kind # "line"
    BY <1>1, <1>3, LeftoverElements DEF From
  <2> QED
    BY <2>1
<1>4. CASE g[l] # 0
  <2>1. g[l] \in 1..Len(Stream) /\ Held[l] = Stream[g[l]]
    BY <1>1, <1>2, <1>4 DEF From
  <2>2. CASE g[i] = 0
    <3>1. Held[i].of = 0
      BY <1>1, <2>2, LeftoverElements DEF From
    <3>2. Held[l].of \in Nat /\ Held[l].of > 0
      BY <2>1, StreamFacts, NumbersAre
    <3> QED
      BY <3>1, <3>2
  <2>3. CASE g[i] # 0
    <3>1. g[i] \in 1..Len(Stream) /\ Held[i] = Stream[g[i]] /\ g[i] < g[l]
      BY <1>1, <1>2, <1>4, <2>3 DEF From
    <3> QED
      BY <2>1, <3>1, StreamOrder
  <2> QED
    BY <2>2, <2>3
<1> QED
  BY <1>3, <1>4

LEMMA FromErased ==
  ASSUME NEW N \in Nat, NEW s \in Seq(Tokens), NEW g, From(g, s, N),
         NEW n \in 0..Len(s), NEW t \in Seq(Tokens), Len(t) = Len(s) - n,
         \A i \in 1..Len(t) : t[i] = s[n + i]
  PROVE  \E h : From(h, t, N)
<1> DEFINE h == [i \in 1..Len(t) |-> g[n + i]]
<1>1. Len(s) \in Nat /\ \A i \in 1..Len(t) : n + i \in 1..Len(s)
  OBVIOUS
<1>2. h \in [1..Len(t) -> 0..N]
  BY <1>1 DEF From
<1>3. \A i \in 1..Len(t) : IF h[i] = 0 THEN t[i] \in Leftovers ELSE t[i] = Stream[h[i]]
  BY <1>1 DEF From
<1>4. ASSUME NEW i \in 1..Len(t), NEW l \in 1..Len(t), i < l, h[i] # 0, h[l] # 0
      PROVE  h[i] < h[l]
  <2>1. n + i \in 1..Len(s) /\ n + l \in 1..Len(s) /\ n + i < n + l
    BY <1>1, <1>4
  <2>2. g[n + i] # 0 /\ g[n + l] # 0
    BY <1>4
  <2>3. g[n + i] < g[n + l]
    BY <2>1, <2>2 DEF From
  <2> QED
    BY <2>3
<1> HIDE DEF h
<1>5. From(h, t, N)
  BY <1>2, <1>3, <1>4 DEF From
<1> QED
  BY <1>5

LEMMA FromMore ==
  ASSUME NEW N \in Nat, NEW s \in Seq(Tokens), NEW g, From(g, s, N),
         NEW n \in Nat, NEW c, NEW h, Chunk(c, h, n),
         \A i \in 1..n : stream[i] = Stream[N + i]
  PROVE  \E f : From(f, s \o c, N + n)
<1> DEFINE a == Len(s)
           t == s \o c
           f == [i \in 1..Len(t) |->
                   IF i <= a THEN g[i] ELSE IF h[i - a] = 0 THEN 0 ELSE N + h[i - a]]
<1>1. /\ c \in Seq(Tokens) /\ h \in [1..Len(c) -> 0..n]
      /\ \A j \in 1..Len(c) : IF h[j] = 0 THEN c[j] \in Leftovers ELSE c[j] = stream[h[j]]
      /\ \A i, j \in 1..Len(c) : i < j /\ h[i] # 0 /\ h[j] # 0 => h[i] < h[j]
  BY DEF Chunk
<1>2. /\ g \in [1..a -> 0..N]
      /\ \A i \in 1..a : IF g[i] = 0 THEN s[i] \in Leftovers ELSE s[i] = Stream[g[i]]
      /\ \A i, l \in 1..a : i < l /\ g[i] # 0 /\ g[l] # 0 => g[i] < g[l]
  BY DEF From
<1>3. /\ a \in Nat /\ Len(c) \in Nat /\ N \in Nat /\ n \in Nat
      /\ Len(t) = a + Len(c)
      /\ \A i \in 1..a : t[i] = s[i]
      /\ \A i \in 1..Len(c) : t[a + i] = c[i]
  BY <1>1, HeldElementsOf DEF HeldParts
<1> HIDE DEF a, t
<1>4. ASSUME NEW i \in 1..Len(t)
      PROVE  \/ i \in 1..a /\ f[i] = g[i]
             \/ /\ i > a /\ i - a \in 1..Len(c) /\ i = a + (i - a)
                /\ f[i] = IF h[i - a] = 0 THEN 0 ELSE N + h[i - a]
  BY <1>3
<1>5. DOMAIN f = 1..Len(t) /\ f = [i \in 1..Len(t) |-> f[i]]
  OBVIOUS
<1> HIDE DEF f
<1>6. ASSUME NEW i \in 1..Len(t)
      PROVE  /\ f[i] \in 0..(N + n)
             /\ IF f[i] = 0 THEN t[i] \in Leftovers ELSE t[i] = Stream[f[i]]
  <2>1. CASE i \in 1..a /\ f[i] = g[i]
    <3>1. g[i] \in 0..N
      BY <1>2, <2>1
    <3> QED
      BY <1>2, <1>3, <2>1, <3>1
  <2>2. ASSUME NEW j \in 1..Len(c), i = a + j, f[i] = IF h[j] = 0 THEN 0 ELSE N + h[j]
        PROVE  /\ f[i] \in 0..(N + n)
               /\ IF f[i] = 0 THEN t[i] \in Leftovers ELSE t[i] = Stream[f[i]]
    <3>1. h[j] \in 0..n /\ t[i] = c[j]
      BY <1>1, <1>3, <2>2
    <3>2. CASE h[j] = 0
      BY <1>1, <1>3, <2>2, <3>1, <3>2
    <3>3. CASE h[j] # 0
      <4>1. h[j] \in 1..n /\ f[i] = N + h[j]
        BY <2>2, <3>1, <3>3
      <4>2. f[i] \in 0..(N + n) /\ f[i] # 0
        BY <1>3, <4>1
      <4>3. t[i] = Stream[N + h[j]]
        BY <1>1, <3>1, <3>3, <4>1
      <4> QED
        BY <4>1, <4>2, <4>3
    <3> QED
      BY <3>2, <3>3
  <2> QED
    BY <1>4, <2>1, <2>2
<1>7. ASSUME NEW i \in 1..Len(t), NEW l \in 1..Len(t), i < l, f[i] # 0, f[l] # 0
      PROVE  f[i] < f[l]
  <2>1. CASE l \in 1..a /\ f[l] = g[l]
    <3>1. i \in 1..a /\ f[i] = g[i]
      BY <1>3, <1>4, <1>7, <2>1
    <3> QED
      BY <1>2, <1>7, <2>1, <3>1
  <2>2. ASSUME NEW j \in 1..Len(c), l = a + j, f[l] = IF h[j] = 0 THEN 0 ELSE N + h[j]
        PROVE  f[i] < f[l]
    <3>1. h[j] \in 1..n /\ f[l] = N + h[j]
      <4>1. h[j] \in 0..n
        BY <1>1
      <4>2. h[j] # 0 /\ f[l] = N + h[j]
        BY <1>7, <2>2
      <4> QED
        BY <4>1, <4>2
    <3>2. CASE i \in 1..a /\ f[i] = g[i]
      <4>1. g[i] \in 0..N
        BY <1>2, <3>2
      <4> QED
        BY <1>3, <3>1, <3>2, <4>1
    <3>3. ASSUME NEW k \in 1..Len(c), i = a + k, f[i] = IF h[k] = 0 THEN 0 ELSE N + h[k]
          PROVE  f[i] < f[l]
      <4>1. h[k] \in 1..n /\ f[i] = N + h[k] /\ h[k] # 0 /\ h[j] # 0
        <5>1. h[k] \in 0..n
          BY <1>1
        <5>2. h[k] # 0 /\ f[i] = N + h[k]
          BY <1>7, <3>3
        <5>3. h[j] # 0
          BY <3>1
        <5> QED
          BY <5>1, <5>2, <5>3
      <4>2. k < j
        BY <1>3, <1>7, <2>2, <3>3
      <4>3. h[k] < h[j]
        BY <1>1, <4>1, <4>2
      <4> QED
        BY <1>3, <3>1, <4>1, <4>3
    <3> QED
      BY <1>4, <3>2, <3>3
  <2> QED
    BY <1>4, <2>1, <2>2
<1>8. f \in [1..Len(t) -> 0..(N + n)]
  BY <1>5, <1>6
<1>9. From(f, t, N + n)
  BY <1>6, <1>7, <1>8 DEF From
<1> QED
  BY <1>9 DEF t

\* A step that takes nothing out of the stream, the socket or the buffer.
LEMMA PlacedKept ==
  ASSUME Placed, UNCHANGED <<stream, received, buffer>>
  PROVE  Placed'
BY DEF Placed, Held, Arrived

LEMMA PlacedTaken ==
  ASSUME TInv, Placed, stream' = stream, buffer' = buffer \o received,
         received' = <<>>
  PROVE  Placed'
<1>1. buffer \o received \in Seq(Tokens)
  BY DEF TInv, Position, Socket
<1>2. \A t \in Seq(Tokens) : t \o <<>> = t
  OBVIOUS
<1>3. Held' = Held
  BY <1>1, <1>2 DEF Held
<1> QED
  BY <1>3 DEF Placed, Arrived

LEMMA PlacedErased ==
  ASSUME TInv, Placed, NEW n \in 0..Len(buffer), UNCHANGED <<stream, received>>,
         buffer' = SubSeq(buffer, n + 1, Len(buffer))
  PROVE  Placed'
<1>1. PICK g : From(g, Held, Arrived)
  BY DEF Placed
<1>2. /\ buffer \in Seq(Tokens) /\ received \in Seq(Tokens)
      /\ Len(buffer) \in Nat /\ Len(received) \in Nat
  BY DEF TInv, Position, Socket
<1>3. /\ buffer' \in Seq(Tokens) /\ Len(buffer') = Len(buffer) - n
      /\ \A j \in 1..Len(buffer') : buffer'[j] = buffer[n + j]
  BY <1>2, RestElements
<1>4. HeldParts(buffer, received) /\ HeldParts(buffer', received)
  BY <1>2, <1>3, HeldElementsOf
<1> DEFINE s == buffer \o received
           t == buffer' \o received
<1>5. /\ s \in Seq(Tokens) /\ t \in Seq(Tokens)
      /\ Len(s) = Len(buffer) + Len(received)
      /\ Len(t) = Len(buffer') + Len(received)
  BY <1>4 DEF HeldParts
<1>6. Len(t) = Len(s) - n /\ n \in 0..Len(s)
  BY <1>2, <1>3, <1>5
<1>7. ASSUME NEW i \in 1..Len(t) PROVE t[i] = s[n + i]
  <2>1. CASE i \in 1..Len(buffer')
    <3>1. n + i \in 1..Len(buffer)
      BY <1>2, <1>3, <2>1
    <3> QED
      BY <1>3, <1>4, <2>1, <3>1 DEF HeldParts
  <2>2. CASE i \notin 1..Len(buffer')
    <3>1. PICK j : j = i - Len(buffer')
      OBVIOUS
    <3>0. /\ Len(buffer') \in Nat /\ Len(received) \in Nat
          /\ Len(t) = Len(buffer') + Len(received)
      BY <1>2, <1>3, <1>5
    <3>2. j \in 1..Len(received) /\ i = Len(buffer') + j
      BY <2>2, <3>0, <3>1
    <3>3. n + i = Len(buffer) + j
      BY <1>2, <1>3, <3>2
    <3>4. t[i] = received[j] /\ s[Len(buffer) + j] = received[j]
      BY <1>4, <3>2 DEF HeldParts
    <3> QED
      BY <3>3, <3>4
  <2> QED
    BY <2>1, <2>2
<1> HIDE DEF s, t
<1>8. From(g, s, Arrived) /\ Arrived \in Nat
  BY <1>1, ArrivedIsNat DEF Held, s
<1>9. \E h : From(h, t, Arrived)
  BY <1>5, <1>6, <1>7, <1>8, FromErased
<1>10. Held' = t /\ Arrived' = Arrived
  BY DEF Held, t, Arrived
<1> QED
  BY <1>9, <1>10 DEF Placed

LEMMA PlacedCleared ==
  ASSUME TInv, Placed, UNCHANGED <<stream, received>>, buffer' = <<>>
  PROVE  Placed'
<1> DEFINE n == Len(buffer)
<1>1. n \in Nat /\ n \in 0..n /\ buffer \in Seq(Tokens)
  BY DEF TInv, Position
<1>2. SubSeq(buffer, n + 1, n) = <<>>
  BY <1>1, RestElements
<1> QED
  BY <1>1, <1>2, PlacedErased

LEMMA PlacedReceived ==
  ASSUME TInv, Placed, NEW n \in 1..Len(stream), NEW c, NEW h, Chunk(c, h, n),
         buffer' = buffer, received' = received \o c,
         stream' = SubSeq(stream, n + 1, Len(stream))
  PROVE  /\ Placed' /\ Arrived' = Arrived + n
         /\ HeldParts(received, c)
         /\ Len(stream') = Len(stream) - n
         /\ \A j \in 1..Len(stream') : n + j \in 1..Len(stream)
                                        /\ stream'[j] = stream[n + j]
<1>0. /\ stream \in Seq(Tokens) /\ received \in Seq(Tokens) /\ buffer \in Seq(Tokens)
      /\ c \in Seq(Tokens) /\ Len(stream) \in Nat /\ n \in Nat
  <2>1. stream \in Seq(Tokens) /\ received \in Seq(Tokens) /\ buffer \in Seq(Tokens)
    BY Zenon DEF TInv, Socket, Position
  <2>2. Len(stream) \in Nat
    BY ONLY <2>1, LenProperties
  <2>3. n \in Nat
    BY ONLY <2>2, n \in 1..Len(stream)
  <2> QED
    BY <2>1, <2>2, <2>3 DEF Chunk
<1>1. /\ Arrived \in Nat /\ Len(Stream) \in Nat /\ Arrived + Len(stream) = Len(Stream)
      /\ \A j \in 1..Len(stream) : stream[j] = Stream[Arrived + j]
  BY ArrivedIsNat DEF Placed
<1>2. HeldParts(received, c)
  BY <1>0, HeldElementsOf
<1>3. /\ Len(stream') = Len(stream) - n
      /\ \A j \in 1..Len(stream') : stream'[j] = stream[n + j]
  <2> DEFINE rest == SubSeq(stream, n + 1, Len(stream))
  <2>1. n \in 0..Len(stream)
    BY <1>0
  <2>2. /\ Len(rest) = Len(stream) - n
        /\ \A j \in 1..Len(rest) : rest[j] = stream[n + j]
    BY <1>0, <2>1, RestElements, Zenon
  <2> QED
    BY <2>2, Zenon
<1>4. \A j \in 1..Len(stream') : n + j \in 1..Len(stream)
  BY <1>0, <1>3
<1>5. Arrived' = Arrived + n
  <2>1. Arrived' = Len(Stream) - (Len(stream) - n)
    BY <1>3 DEF Arrived
  <2>2. Arrived = Len(Stream) - Len(stream)
    BY DEF Arrived
  <2>3. Len(Stream) \in Nat /\ Len(stream) \in Nat /\ n \in Nat
    BY <1>0, <1>1
  <2> QED
    BY <2>1, <2>2, <2>3
<1>6. \A j \in 1..Len(stream') : stream'[j] = Stream[Arrived' + j]
  <2> SUFFICES ASSUME NEW j \in 1..Len(stream')
               PROVE  stream'[j] = Stream[Arrived' + j]
    OBVIOUS
  <2>1. stream'[j] = Stream[Arrived + (n + j)]
    BY <1>1, <1>3, <1>4
  <2>2. Arrived + (n + j) = Arrived' + j
    BY <1>0, <1>1, <1>3, <1>5
  <2> QED
    BY <2>1, <2>2
<1>7. Len(stream') <= Len(Stream)
  BY <1>0, <1>1, <1>3
<1>8. \E g : From(g, Held, Arrived)'
  <2>1. PICK g : From(g, Held, Arrived)
    BY DEF Placed
  <2>2. Held \in Seq(Tokens)
    BY <1>0 DEF Held
  <2>3. Held' = Held \o c
    BY <1>0, Regrouped DEF Held
  <2>4. \A i \in 1..n : stream[i] = Stream[Arrived + i]
    BY <1>0, <1>1
  <2>5. \E f : From(f, Held \o c, Arrived + n)
    BY <1>0, <1>1, <2>1, <2>2, <2>4, FromMore
  <2> QED
    BY <1>5, <2>3, <2>5 DEF From
<1>9. Placed'
  BY <1>6, <1>7, <1>8 DEF Placed
<1> QED
  BY <1>2, <1>3, <1>4, <1>5, <1>9

\* Tokens of s, but for leftovers, are of later requests than the n-th; and lines.
Later(s, n) == \A j \in 1..Len(s) : s[j].of # None => s[j].of > n
LinesLater(s, n) == \A j \in 1..Len(s) : s[j].kind = "line" => s[j].of > n

\* Nothing of a request is behind a buffer that holds it as a whole.
LEMMA BehindWhole ==
  ASSUME TInv, Placed, NEW k \in Numbers, NEW f \in Nat,
         f + Len(Message(k)) <= Len(buffer),
         \A i \in 1..Len(Message(k)) : buffer[f + i] = Message(k)[i]
  PROVE  Later(received, k) /\ Later(stream, k)
<1>1. PICK g : From(g, Held, Arrived)
  BY DEF Placed
<1>2. PICK L : L = Len(Message(k))
  OBVIOUS
<1>3. /\ L \in Nat /\ L >= 8 /\ Message(k)[1].kind = "line"
      /\ \A i \in 1..L : Message(k)[i].of = k
  <2>1. L = 8 + Len(Body(k)) /\ Len(Body(k)) \in Nat
    BY <1>2, MessageElements, BodyElements
  <2>2. L \in Nat /\ L >= 8
    BY <2>1
  <2> QED
    BY <1>2, <2>2, MessageElements
<1>4. /\ Arrived \in Nat /\ Len(Stream) \in Nat /\ Arrived <= Len(Stream)
      /\ \A j \in 1..Len(stream) : /\ Arrived + j \in 1..Len(Stream)
                                    /\ Arrived + j > Arrived
                                    /\ stream[j] = Stream[Arrived + j]
  BY ArrivedIsNat DEF Placed
<1>5. HeldParts(buffer, received) /\ Len(buffer) \in Nat /\ k \in Nat /\ k # 0
  BY HeldElementsOf, NumbersAre DEF TInv, Position, Socket
<1>6. ASSUME NEW i \in 1..L
      PROVE  /\ f + i \in 1..Len(buffer) /\ f + i \in 1..Len(Held)
             /\ g[f + i] \in 1..Arrived /\ g[f + i] \in 1..Len(Stream)
             /\ Stream[g[f + i]] = Message(k)[i]
  <2>1. f + i \in 1..Len(buffer)
    BY <1>2, <1>3, <1>5
  <2>2. f + i \in 1..Len(Held) /\ Held[f + i] = Message(k)[i]
    BY <1>2, <1>5, <2>1 DEF HeldParts, Held
  <2>3. Message(k)[i].of # None
    BY <1>3, <1>5 DEF None
  <2>4. g[f + i] # 0 /\ g[f + i] \in 0..Arrived /\ Held[f + i] = Stream[g[f + i]]
    BY <1>1, <2>2, <2>3, LeftoverElements DEF From
  <2> QED
    BY <1>4, <2>1, <2>2, <2>4
<1>7. PICK P : P = g[f + 1]
  OBVIOUS
<1>8. P \in 1..Len(Stream) /\ Stream[P].kind = "line" /\ Stream[P].of = k
  <2>1. 1 \in 1..L
    BY <1>3
  <2> QED
    BY <1>3, <1>6, <1>7, <2>1
<1>9. g[f + L] >= P + L - 1
  <2> DEFINE G == {i \in 1..L : g[f + i] >= P + i - 1}
  <2>1. 1 \in G
    BY <1>3, <1>7, <1>8
  <2>2. ASSUME NEW i \in 1..(L - 1), i \in G PROVE i + 1 \in G
    <3>1. i \in 1..L /\ i + 1 \in 1..L /\ f + i < f + (i + 1)
      BY <1>3
    <3>2. /\ g[f + i] \in Nat /\ g[f + i] # 0
          /\ g[f + (i + 1)] \in Nat /\ g[f + (i + 1)] # 0
          /\ f + i \in 1..Len(Held) /\ f + (i + 1) \in 1..Len(Held)
      BY <1>6, <3>1
    <3>3. g[f + i] < g[f + (i + 1)]
      BY <1>1, <3>1, <3>2 DEF From
    <3>4. g[f + i] >= P + i - 1
      BY <2>2
    <3>5. g[f + (i + 1)] >= P + (i + 1) - 1
      <4>1. P \in Nat /\ i \in Nat
        BY <1>8, <3>1
      <4>2. PICK a, b : a = g[f + i] /\ b = g[f + (i + 1)]
        OBVIOUS
      <4>3. a \in Nat /\ b \in Nat /\ a < b /\ a >= P + i - 1
        BY <3>2, <3>3, <3>4, <4>2, Zenon
      <4>4. b >= P + (i + 1) - 1
        BY <4>1, <4>3
      <4> QED
        BY <4>2, <4>4
    <3> QED
      BY <3>1, <3>5
  <2>3. 1..L \subseteq G
    <3> HIDE DEF G
    <3> QED
      BY <1>3, <2>1, <2>2, UpTo
  <2>4. L \in G
    BY <1>3, <2>3
  <2> QED
    BY <2>4
<1>10. /\ L \in 1..L /\ f + L \in 1..Len(Held) /\ f + L <= Len(buffer)
       /\ g[f + L] \in 1..Arrived /\ g[f + L] # 0 /\ g[f + L] \in 1..Len(Stream)
       /\ Stream[g[f + L]].of = k
  <2>1. L \in 1..L /\ Message(k)[L].of = k
    BY <1>3
  <2>2. /\ f + L \in 1..Len(buffer) /\ f + L \in 1..Len(Held)
        /\ g[f + L] \in 1..Arrived /\ g[f + L] \in 1..Len(Stream)
        /\ Stream[g[f + L]] = Message(k)[L]
    BY <1>6, <2>1
  <2>3. f + L <= Len(buffer)
    BY <1>5, <2>2
  <2>4. g[f + L] # 0
    BY <2>2
  <2> QED
    BY <2>1, <2>2, <2>3, <2>4, Zenon
<1>11. ASSUME NEW q \in 1..Len(Stream), q > g[f + L] PROVE Stream[q].of > k
  <2>1. Stream[q].of >= k /\ Stream[q].of \in Nat
    <3>1. PICK r : r = g[f + L]
      OBVIOUS
    <3>2. r \in 1..Len(Stream) /\ r <= q /\ Stream[r].of = k
      BY <1>4, <1>10, <1>11, <3>1
    <3> QED
      BY <3>2, StreamFacts
  <2>2. Stream[q].of # k
    <3> SUFFICES ASSUME Stream[q].of = k PROVE FALSE
      OBVIOUS
    <3>1. q \in P..End(Stream, P)
      BY <1>8, StreamFacts
    <3>2. End(Stream, P) = P + L - 1
      BY <1>2, <1>8 DEF End
    <3> QED
      BY <1>3, <1>8, <1>9, <1>10, <1>11, <3>1, <3>2
  <2> QED
    BY <1>5, <2>1, <2>2
<1>12. Later(stream, k)
  <2>1. \A j \in 1..Len(stream) : Arrived + j > g[f + L]
    BY <1>4, <1>10
  <2> QED
    BY <1>4, <1>11, <2>1 DEF Later
<1>13. ASSUME NEW j \in 1..Len(received), received[j].of # None
       PROVE  received[j].of > k
  <2>1. PICK l : l = Len(buffer) + j
    OBVIOUS
  <2>2. l \in 1..Len(Held) /\ Held[l] = received[j]
    BY <1>5, <2>1 DEF HeldParts, Held
  <2>3. g[l] # 0 /\ g[l] \in 0..Arrived /\ Held[l] = Stream[g[l]]
    BY <1>1, <1>13, <2>2, LeftoverElements DEF From
  <2>4. f + L < l
    BY <1>3, <1>5, <1>10, <2>1
  <2>5. g[f + L] < g[l]
    BY <1>1, <1>10, <2>2, <2>3, <2>4 DEF From
  <2>6. g[l] \in 1..Len(Stream)
    BY <1>4, <2>3
  <2> QED
    BY <1>11, <2>2, <2>3, <2>5, <2>6
<1>14. Later(received, k)
  BY <1>13 DEF Later
<1> QED
  BY <1>12, <1>14
LEMMA LaterThanLess ==
  ASSUME NEW s \in Seq(Tokens), NEW q \in Nat, NEW n \in Nat, q >= n, Later(s, q)
  PROVE  Later(s, n)
<1>1. \A j \in 1..Len(s) : s[j].of \in Nat
  BY NumbersAre DEF Tokens, None
<1> QED
  BY <1>1 DEF Later

LEMMA LinesAreReal ==
  ASSUME NEW s \in Seq(Tokens), NEW n, Later(s, n)
  PROVE  LinesLater(s, n)
<1>1. \A j \in 1..Len(s) : s[j].kind = "line" => s[j].of # None
  BY NumbersAre DEF Tokens, None
<1> QED
  BY <1>1 DEF Later, LinesLater
-----------------------------------------------------------------------------
(* What an emission uses up, as long as each request was in the buffer as  *)
(* a whole.                                                                *)

AllWhole == \A j \in DOMAIN emitted : emitted[j].whole

Reading == status \in {"HEADER_LINES", "BODY"}

\* The n-th emission leaves no line of the first n requests in parser, socket or
\* stream, and what is read after it is of a later request.
Used ==
  LET n == Len(emitted) IN
  /\ LinesLater(buffer, n) /\ LinesLater(received, n) /\ LinesLater(stream, n)
  /\ Reading => request.line > n
  /\ status = "FINISHED" => Later(received, n) /\ Later(stream, n)
                            /\ (buffer # <<>> => buffer[1].of > n)

\* The request object is as it was emitted.
AsEmitted ==
  LET e == emitted[Len(emitted)] IN e.line = request.line /\ e.body = request.body

UsedInv ==
  /\ Placed
  /\ received # <<>> => received[1].of # None
  /\ Reading /\ whole => Later(received, request.line) /\ Later(stream, request.line)
  /\ emitted # <<>> /\ ~Reading => AsEmitted
  /\ status = "FINISHED" => pos = 0 /\ (pc # "parse" => buffer = <<>>)
  /\ AllWhole => Used

\* A step that emits nothing and adds no token to what the parser holds.
LEMMA UsedKept ==
  ASSUME TInv, UsedInv, Placed', UNCHANGED <<stream, received, emitted, whole>>,
         request'.line = request.line, request'.body = request.body,
         \A j \in 1..Len(buffer') : \E i \in 1..Len(buffer) : buffer'[j] = buffer[i],
         Reading' => Reading, status' = status \/ (Reading /\ status' # "FINISHED"),
         ~Reading' => ~Reading,
         status' = "FINISHED" =>
           /\ pos' = 0 /\ (pc' # "parse" => buffer' = <<>>)
           /\ (buffer' = buffer \/ buffer' = <<>>)
  PROVE  UsedInv'
<1>1. AllWhole' => AllWhole
  BY DEF AllWhole
<1>2. \A n : LinesLater(buffer, n) => LinesLater(buffer, n)'
  BY DEF LinesLater
<1>3. AllWhole' => Used'
  <2> SUFFICES ASSUME AllWhole' PROVE Used'
    OBVIOUS
  <2>1. Used
    BY <1>1 DEF UsedInv
  <2>2. PICK n : n = Len(emitted)
    OBVIOUS
  <2>3. /\ LinesLater(buffer, n) /\ LinesLater(received, n) /\ LinesLater(stream, n)
        /\ Reading => request.line > n
        /\ status = "FINISHED" => Later(received, n) /\ Later(stream, n)
                                  /\ (buffer # <<>> => buffer[1].of > n)
    BY <2>1, <2>2 DEF Used
  <2>4. LinesLater(buffer, n)' /\ LinesLater(received, n)' /\ LinesLater(stream, n)'
    BY <1>2, <2>3 DEF LinesLater
  <2>5. Reading' => request'.line > n
    BY <2>3
  <2>6. status' = "FINISHED" =>
          /\ Later(received, n)' /\ Later(stream, n)'
          /\ (buffer' # <<>> => buffer'[1].of > n)
    BY <2>3 DEF Reading, Later
  <2>7. n = Len(emitted')
    BY <2>2
  <2> QED
    BY <2>4, <2>5, <2>6, <2>7 DEF Used, LinesLater, Later
<1>4. Reading' /\ whole' => Later(received, request.line)' /\ Later(stream, request.line)'
  BY DEF UsedInv, Later
<1>5. emitted' # <<>> /\ ~Reading' => AsEmitted'
  BY DEF UsedInv, AsEmitted
<1> QED
  BY <1>3, <1>4, <1>5 DEF UsedInv

LEMMA UsedReceived == TInv /\ UsedInv /\ ReadFromSocket => UsedInv'
<1> SUFFICES ASSUME TInv, UsedInv, ReadFromSocket PROVE UsedInv'
  OBVIOUS
<1>1. PICK n, c, h :
        /\ n \in 1..Len(stream) /\ Chunk(c, h, n)
        /\ received' = received \o c
        /\ stream' = SubSeq(stream, n + 1, Len(stream))
  BY ReadAppends DEF TInv
<1>2. UNCHANGED <<pc, buffer, pos, parsed, status, request, emitted, whole>>
  BY DEF ReadFromSocket
<1>3. /\ Placed' /\ HeldParts(received, c)
      /\ \A j \in 1..Len(stream') : n + j \in 1..Len(stream)
                                     /\ stream'[j] = stream[n + j]
  BY <1>1, <1>2, PlacedReceived DEF UsedInv
<1>4. /\ Len(received) \in Nat /\ Len(stream) \in Nat /\ received \in Seq(Tokens)
      /\ received' \in Seq(Tokens) /\ c \in Seq(Tokens) /\ Len(c) \in Nat
  BY <1>1, <1>3 DEF TInv, Socket, HeldParts, Chunk
<1>5. ASSUME NEW j \in 1..Len(c)
      PROVE  \/ h[j] # 0 /\ h[j] \in 1..Len(stream) /\ c[j] = stream[h[j]]
             \/ h[j] = 0 /\ c[j] \in Leftovers
  <2>1. h[j] \in 0..n
    BY <1>1 DEF Chunk
  <2>2. h[j] # 0 => h[j] \in 1..Len(stream)
    BY <1>1, <1>4, <2>1
  <2> QED
    BY <1>1, <2>2 DEF Chunk
<1>6. ASSUME NEW j \in 1..Len(received')
      PROVE  \/ \E i \in 1..Len(received) : received'[j] = received[i]
             \/ \E i \in 1..Len(stream) : received'[j] = stream[i]
             \/ received'[j].of = None /\ received'[j].kind # "line"
  <2>1. j \in 1..Len(received) \/ \E i \in 1..Len(c) : received'[j] = c[i]
    BY <1>1, <1>3 DEF HeldParts
  <2>2. CASE j \in 1..Len(received)
    BY <1>1, <1>3, <2>2 DEF HeldParts
  <2>3. ASSUME NEW i \in 1..Len(c), received'[j] = c[i]
        PROVE  \/ \E l \in 1..Len(stream) : received'[j] = stream[l]
               \/ received'[j].of = None /\ received'[j].kind # "line"
    BY <1>5, <2>3, LeftoverElements
  <2> QED
    BY <2>1, <2>2, <2>3
<1>7. ASSUME NEW m
      PROVE  /\ Later(received, m) /\ Later(stream, m)
                  => Later(received, m)' /\ Later(stream, m)'
             /\ LinesLater(received, m) /\ LinesLater(stream, m)
                  => LinesLater(received, m)' /\ LinesLater(stream, m)'
  <2>1. Later(stream, m) => Later(stream, m)'
    BY <1>3 DEF Later
  <2>2. LinesLater(stream, m) => LinesLater(stream, m)'
    BY <1>3 DEF LinesLater
  <2>3. ASSUME Later(received, m), Later(stream, m) PROVE Later(received, m)'
    <3> SUFFICES ASSUME NEW j \in 1..Len(received'), received'[j].of # None
                 PROVE  received'[j].of > m
      BY DEF Later
    <3> QED
      BY <1>6, <2>3 DEF Later
  <2>4. ASSUME LinesLater(received, m), LinesLater(stream, m)
        PROVE  LinesLater(received, m)'
    <3> SUFFICES ASSUME NEW j \in 1..Len(received'), received'[j].kind = "line"
                 PROVE  received'[j].of > m
      BY DEF LinesLater
    <3> QED
      BY <1>6, <2>4 DEF LinesLater
  <2> QED
    BY <2>1, <2>2, <2>3, <2>4
<1>8. received' # <<>> => received'[1].of # None
  <2>1. CASE received # <<>>
    <3>1. 1 \in 1..Len(received)
      BY <1>4, <2>1, EmptySeq
    <3>2. received'[1] = received[1]
      BY <1>1, <1>3, <3>1 DEF HeldParts
    <3> QED
      BY <2>1, <3>2 DEF UsedInv
  <2>2. CASE received = <<>> /\ received' # <<>>
    <3>1. Len(received) = 0 /\ Len(received') = Len(c) /\ Len(received') # 0
      BY <1>1, <1>3, <1>4, <2>2, EmptySeq DEF HeldParts
    <3>2. 1 \in 1..Len(c) /\ Len(received) + 1 = 1
      BY <1>4, <3>1
    <3>3. received'[1] = c[1] /\ h[1] # 0
      BY <1>1, <1>3, <3>2 DEF HeldParts, Chunk
    <3>4. h[1] \in 1..Len(stream) /\ c[1] = stream[h[1]]
      BY <1>5, <3>2, <3>3
    <3>5. Arrived + h[1] \in 1..Len(Stream) /\ stream[h[1]] = Stream[Arrived + h[1]]
      BY <3>4, ArrivedIsNat DEF UsedInv, Placed
    <3> QED
      BY <3>3, <3>4, <3>5, StreamFacts, NumbersAre DEF None
  <2> QED
    BY <2>1, <2>2
<1>9. AllWhole' => Used'
  <2> SUFFICES ASSUME AllWhole' PROVE Used'
    OBVIOUS
  <2>1. Used
    BY <1>2 DEF UsedInv, AllWhole
  <2>2. PICK m : m = Len(emitted)
    OBVIOUS
  <2>3. /\ LinesLater(buffer, m) /\ LinesLater(received, m) /\ LinesLater(stream, m)
        /\ Reading => request.line > m
        /\ status = "FINISHED" => Later(received, m) /\ Later(stream, m)
                                  /\ (buffer # <<>> => buffer[1].of > m)
    BY <2>1, <2>2 DEF Used
  <2>4. LinesLater(received, m)' /\ LinesLater(stream, m)'
    BY <1>7, <2>3
  <2>5. status' = "FINISHED" => Later(received, m)' /\ Later(stream, m)'
    BY <1>2, <1>7, <2>3
  <2>6. LinesLater(buffer, m)'
    BY <1>2, <2>3 DEF LinesLater
  <2>7. Reading' => request'.line > m
    BY <1>2, <2>3 DEF Reading
  <2>8. status' = "FINISHED" => (buffer' # <<>> => buffer'[1].of > m)
    BY <1>2, <2>3
  <2>9. m = Len(emitted')
    BY <1>2, <2>2
  <2> QED
    BY <2>4, <2>5, <2>6, <2>7, <2>8, <2>9 DEF Used, LinesLater, Later
<1>10. Reading' /\ whole' => Later(received, request.line)' /\ Later(stream, request.line)'
  <2>1. PICK m : m = request.line
    OBVIOUS
  <2>2. Reading' /\ whole' => Later(received, m)' /\ Later(stream, m)'
    BY <1>2, <1>7, <2>1 DEF UsedInv, Reading
  <2>3. request'.line = m
    BY <1>2, <2>1
  <2> QED
    BY <2>2, <2>3 DEF Later
<1>11. emitted' # <<>> /\ ~Reading' => AsEmitted'
  BY <1>2 DEF UsedInv, AsEmitted, Reading
<1>12. status' = "FINISHED" => pos' = 0 /\ (pc' # "parse" => buffer' = <<>>)
  BY <1>2 DEF UsedInv
<1> QED
  BY <1>3, <1>8, <1>9, <1>10, <1>11, <1>12 DEF UsedInv

LEMMA UsedBeginParse == TInv /\ UsedInv /\ pc # "parse" /\ BeginParse => UsedInv'
<1> SUFFICES ASSUME TInv, UsedInv, pc # "parse", BeginParse PROVE UsedInv'
  OBVIOUS
<1>1. /\ UNCHANGED <<stream, pos, parsed, status, request, emitted, whole>>
      /\ buffer' = buffer \o received /\ received' = <<>> /\ pc' = "parse"
  BY DEF BeginParse
<1>2. Placed'
  BY <1>1, PlacedTaken DEF UsedInv
<1>3. /\ received \in Seq(Tokens) /\ buffer \in Seq(Tokens) /\ Len(received) \in Nat
      /\ HeldParts(buffer, received)
  BY HeldElementsOf DEF TInv, Socket, Position
<1>4. ASSUME NEW j \in 1..Len(buffer')
      PROVE  \/ \E i \in 1..Len(buffer) : buffer'[j] = buffer[i]
             \/ \E i \in 1..Len(received) : buffer'[j] = received[i]
  <2>1. CASE j \in 1..Len(buffer)
    BY <1>1, <1>3, <2>1 DEF HeldParts
  <2>2. CASE j \notin 1..Len(buffer)
    <3>1. PICK i : i = j - Len(buffer)
      OBVIOUS
    <3>2. i \in 1..Len(received) /\ j > Len(buffer)
      BY <1>1, <1>3, <2>2, <3>1 DEF HeldParts
    <3>3. j = Len(buffer) + i
      BY <1>3, <3>1, <3>2
    <3> QED
      BY <1>1, <1>3, <3>2, <3>3 DEF HeldParts
  <2> QED
    BY <2>1, <2>2
<1>5. 1..Len(received') = {}
  BY <1>1
<1>6. status = "FINISHED" => buffer' = received
  <2>1. \A t \in Seq(Tokens) : <<>> \o t = t
    OBVIOUS
  <2> QED
    BY <1>1, <1>3, <2>1 DEF UsedInv
<1>7. AllWhole' => Used'
  <2> SUFFICES ASSUME AllWhole' PROVE Used'
    OBVIOUS
  <2>1. Used
    BY <1>1 DEF UsedInv, AllWhole
  <2>2. PICK m : m = Len(emitted)
    OBVIOUS
  <2>3. /\ LinesLater(buffer, m) /\ LinesLater(received, m) /\ LinesLater(stream, m)
        /\ Reading => request.line > m
        /\ status = "FINISHED" => Later(received, m) /\ Later(stream, m)
    BY <2>1, <2>2 DEF Used
  <2>4. LinesLater(buffer, m)'
    BY <1>4, <2>3 DEF LinesLater
  <2>5. LinesLater(received, m)' /\ LinesLater(stream, m)' /\ Later(received, m)'
    BY <1>1, <1>5, <2>3 DEF LinesLater, Later
  <2>6. status' = "FINISHED" => Later(stream, m)'
    BY <1>1, <2>3 DEF Later
  <2>7. Reading' => request'.line > m
    BY <1>1, <2>3 DEF Reading
  <2>8. status' = "FINISHED" => (buffer' # <<>> => buffer'[1].of > m)
    <3> SUFFICES ASSUME status = "FINISHED", received # <<>> PROVE received[1].of > m
      BY <1>1, <1>6
    <3>1. 1 \in 1..Len(received)
      BY <1>3, EmptySeq
    <3> QED
      BY <2>3, <3>1 DEF UsedInv, Later
  <2>9. m = Len(emitted')
    BY <1>1, <2>2
  <2> QED
    BY <2>4, <2>5, <2>6, <2>7, <2>8, <2>9 DEF Used, LinesLater, Later
<1>8. Reading' /\ whole' => Later(received, request.line)' /\ Later(stream, request.line)'
  BY <1>1, <1>5 DEF UsedInv, Reading, Later
<1>9. emitted' # <<>> /\ ~Reading' => AsEmitted'
  BY <1>1 DEF UsedInv, AsEmitted, Reading
<1>10. status' = "FINISHED" => pos' = 0 /\ (pc' # "parse" => buffer' = <<>>)
  BY <1>1 DEF UsedInv
<1> QED
  BY <1>1, <1>2, <1>7, <1>8, <1>9, <1>10 DEF UsedInv

LEMMA UsedReturnFalse ==
  ASSUME TInv, UsedInv, ReturnFalse, status # "FINISHED"
  PROVE  UsedInv'
<1>1. UNCHANGED <<stream, received, buffer, emitted, request, whole, status>>
  BY DEF ReturnFalse, socketVars
<1>2. Placed'
  BY <1>1, PlacedKept DEF UsedInv
<1>3. Reading' <=> Reading
  BY <1>1 DEF Reading
<1> QED
  BY <1>1, <1>2, <1>3, UsedKept

LEMMA UsedEndOfData == TInv /\ UsedInv /\ alive /\ EndOfData => UsedInv'
<1> SUFFICES ASSUME TInv, UsedInv, alive, EndOfData PROVE UsedInv'
  OBVIOUS
<1>1. /\ UNCHANGED <<stream, received, emitted, request, whole, status>>
      /\ buffer' = SubSeq(buffer, parsed + 1, Len(buffer)) /\ pos' = 0
      /\ Data = <<>>
  BY DEF EndOfData, socketVars
<1>2. parsed \in 0..Len(buffer) /\ buffer \in Seq(Tokens) /\ Len(buffer) \in Nat
  BY DEF TInv, Position
<1>3. Placed'
  BY <1>1, <1>2, PlacedErased DEF UsedInv
<1>4. /\ buffer' \in Seq(Tokens) /\ Len(buffer') = Len(buffer) - parsed
      /\ \A j \in 1..Len(buffer') : buffer'[j] = buffer[parsed + j]
  BY <1>1, <1>2, RestElements
<1>5. \A j \in 1..Len(buffer') : \E i \in 1..Len(buffer) : buffer'[j] = buffer[i]
  <2>1. \A j \in 1..Len(buffer') : parsed + j \in 1..Len(buffer)
    BY <1>2, <1>4
  <2> QED
    BY <1>4, <2>1
<1>6. status' = "FINISHED" => buffer' = <<>>
  <2> SUFFICES ASSUME status = "FINISHED" PROVE buffer' = <<>>
    BY <1>1
  <2>1. pos = 0 /\ pos = Len(buffer)
    BY <1>1, DataElements DEF UsedInv, TInv
  <2>2. Len(buffer') = 0
    BY <1>2, <1>4, <2>1
  <2> QED
    BY <1>4, <2>2, EmptySeq
<1>7. Reading' <=> Reading
  BY <1>1 DEF Reading
<1> QED
  BY <1>1, <1>3, <1>5, <1>6, <1>7, UsedKept

LEMMA UsedRequestLine == TInv /\ UsedInv /\ ParseRequestLine => UsedInv'
<1> SUFFICES ASSUME TInv, UsedInv, ParseRequestLine PROVE UsedInv'
  OBVIOUS
<1>1. CASE ~(EndOfLine # None /\ Len(LineText) = 1 /\ LineText[1].kind = "line")
  <2>1. ReturnFalse /\ status = "REQUEST_LINE"
    BY <1>1 DEF ParseRequestLine
  <2> QED
    BY <2>1, UsedReturnFalse
<1>2. CASE EndOfLine # None /\ Len(LineText) = 1 /\ LineText[1].kind = "line"
  <2>1. PICK k : k = LineText[1].of
    OBVIOUS
  <2>2. /\ request' = [request EXCEPT !.line = k]
        /\ whole' = IsPrefix(Message(k), Data)
        /\ status' = "HEADER_LINES" /\ UNCHANGED <<stream, received, buffer, emitted>>
    BY <1>2, <2>1 DEF ParseRequestLine, socketVars
  <2>3. request'.line = k
    BY <2>2 DEF TInv, RequestInv, Line
  <2>4. /\ 1 \in 1..Len(Data) /\ Data[1].kind = "line" /\ Data[1].of = k
        /\ k \in Numbers
    BY <1>2, <2>1, LineBefore DEF TInv
  <2>5. Placed'
    BY <2>2, PlacedKept DEF UsedInv
  <2>6. /\ Len(buffer) \in Nat /\ pos \in Nat /\ Len(Data) = Len(buffer) - pos
        /\ \A j \in 1..Len(Data) : Data[j] = buffer[pos + j] /\ pos + j \in 1..Len(buffer)
        /\ Data \in Seq(Tokens) /\ Len(Data) \in Nat
    <3>1. Position
      BY DEF TInv
    <3>2. /\ Data \in Seq(Tokens) /\ Len(buffer) \in Nat
          /\ Len(Data) = Len(buffer) - pos /\ Len(Data) \in Nat
          /\ \A j \in 1..Len(Data) : Data[j] = buffer[pos + j]
      BY <3>1, DataElements
    <3>3. pos \in Nat
      BY <3>1, <3>2 DEF Position
    <3>4. \A j \in 1..Len(Data) : pos + j \in 1..Len(buffer)
      BY <3>2, <3>3
    <3> QED
      BY <3>2, <3>3, <3>4
  <2>7. whole' => Later(received, k) /\ Later(stream, k)
    <3> SUFFICES ASSUME IsPrefix(Message(k), Data)
                 PROVE  Later(received, k) /\ Later(stream, k)
      BY <2>2
    <3>1. IsSequence(Message(k)) /\ IsSequence(Data) /\ Len(Message(k)) \in Nat
      BY <2>4, <2>6, MessageElements, HeldElements DEF IsSequence
    <3>2. /\ Len(Message(k)) <= Len(Data)
          /\ \A j \in 1..Len(Message(k)) : Message(k)[j] = Data[j]
      BY <3>1, PrefixElements
    <3>3. pos + Len(Message(k)) <= Len(buffer)
      BY <2>6, <3>1, <3>2
    <3>4. \A i \in 1..Len(Message(k)) : i \in 1..Len(Data)
      BY <2>6, <3>1, <3>2
    <3>5. \A i \in 1..Len(Message(k)) : buffer[pos + i] = Message(k)[i]
      BY <2>6, <3>2, <3>4
    <3> QED
      BY <2>4, <2>6, <3>3, <3>5, BehindWhole DEF UsedInv
  <2>8. AllWhole' => Used'
    <3> SUFFICES ASSUME AllWhole' PROVE Used'
      OBVIOUS
    <3>1. Used
      BY <2>2 DEF UsedInv, AllWhole
    <3>2. k > Len(emitted)
      BY <2>4, <2>6, <3>1 DEF Used, LinesLater
    <3> QED
      BY <2>2, <2>3, <3>1, <3>2 DEF Used, LinesLater
  <2>9. Reading' /\ whole' => Later(received, request.line)' /\ Later(stream, request.line)'
    BY <2>2, <2>3, <2>7 DEF Later
  <2>10. Reading' /\ status' # "FINISHED"
    BY <2>2 DEF Reading
  <2>11. received' # <<>> => received'[1].of # None
    BY <2>2 DEF UsedInv
  <2> QED
    BY <2>5, <2>8, <2>9, <2>10, <2>11 DEF UsedInv
<1> QED
  BY <1>1, <1>2

LEMMA UsedBlankLine == TInv /\ UsedInv /\ BlankLine => UsedInv'
<1> SUFFICES ASSUME TInv, UsedInv, BlankLine PROVE UsedInv'
  OBVIOUS
<1>1. /\ UNCHANGED <<stream, received, buffer, emitted, request, whole>>
      /\ status = "HEADER_LINES" /\ status' = "BODY"
  BY DEF BlankLine, socketVars
<1>2. Placed'
  BY <1>1, PlacedKept DEF UsedInv
<1>3. Reading' /\ Reading
  BY <1>1 DEF Reading
<1> QED
  BY <1>1, <1>2, <1>3, UsedKept

LEMMA UsedHeaderLine == TInv /\ UsedInv /\ ParseHeaderLine => UsedInv'
<1> SUFFICES ASSUME TInv, UsedInv, ParseHeaderLine PROVE UsedInv'
  OBVIOUS
<1>1. CASE Colon = None \/ Colon > EndOfLine
  <2>1. ReturnFalse /\ status # "FINISHED"
    BY <1>1 DEF ParseHeaderLine
  <2> QED
    BY <2>1, UsedReturnFalse
<1>2. CASE ~(Colon = None \/ Colon > EndOfLine)
  <2>1. /\ UNCHANGED <<stream, received, buffer, emitted, status, whole>>
        /\ status = "HEADER_LINES"
        /\ request' = request \/ \E k : request' = [request EXCEPT !.length = k]
    BY <1>2 DEF ParseHeaderLine, socketVars
  <2>2. request'.line = request.line /\ request'.body = request.body
    BY <2>1 DEF TInv, RequestInv, Line
  <2>3. Placed'
    BY <2>1, PlacedKept DEF UsedInv
  <2>4. Reading' /\ Reading
    BY <2>1 DEF Reading
  <2> QED
    BY <2>1, <2>2, <2>3, <2>4, UsedKept
<1> QED
  BY <1>1, <1>2

\* What both emissions do.
LEMMA UsedEmission ==
  ASSUME TInv, UsedInv, NEW r \in Line, r.line # None, EmitRequest(r), ReturnTrue,
         request' = r, UNCHANGED <<stream, received>>
  PROVE  /\ Placed' /\ AsEmitted' /\ pos' = 0 /\ buffer' = <<>>
         /\ received' # <<>> => received'[1].of # None
         /\ Len(emitted) \in Nat /\ Len(emitted') = Len(emitted) + 1
         /\ AllWhole' => AllWhole /\ whole
<1> DEFINE e == [line |-> r.line, length |-> r.length, body |-> r.body, whole |-> whole]
<1>1. buffer' = <<>> /\ pos' = 0
  BY DEF ReturnTrue
<1>2. Placed'
  BY <1>1, PlacedCleared DEF UsedInv
<1>3. e.line = r.line /\ e.body = r.body /\ e.whole = whole
  OBVIOUS
<1> HIDE DEF e
<1>4. Longer(emitted, e, emitted')
  <2>1. IsSequence(emitted) /\ emitted' = Append(emitted, e)
    BY DEF TInv, IsSequence, EmitRequest, e
  <2> QED
    BY <2>1, OneMore
<1>5. /\ Len(emitted) \in Nat /\ Len(emitted') = Len(emitted) + 1
      /\ emitted'[Len(emitted) + 1] = e
      /\ DOMAIN emitted = 1..Len(emitted) /\ DOMAIN emitted' = 1..(Len(emitted) + 1)
      /\ \A j \in DOMAIN emitted : emitted'[j] = emitted[j]
  BY <1>4 DEF Longer
<1>6. AsEmitted'
  BY <1>3, <1>5 DEF AsEmitted
<1>7. AllWhole' => AllWhole /\ whole
  <2>1. Len(emitted) + 1 \in DOMAIN emitted' /\ \A j \in DOMAIN emitted : j \in DOMAIN emitted'
    BY <1>5
  <2> QED
    BY <1>3, <1>5, <2>1 DEF AllWhole
<1>8. received' # <<>> => received'[1].of # None
  BY DEF UsedInv
<1> QED
  BY <1>1, <1>2, <1>5, <1>6, <1>7, <1>8

LEMMA UsedBody == TInv /\ UsedInv /\ ParseBody => UsedInv'
<1> SUFFICES ASSUME TInv, UsedInv, ParseBody PROVE UsedInv'
  OBVIOUS
<1> DEFINE n == Requests[request.length]
           r == IF request.length = None THEN request
                ELSE [request EXCEPT !.body = SubSeq(Data, 1, n)]
<1>1. CASE request.length # None /\ BodyIncomplete(n)
  BY <1>1, UsedReturnFalse DEF ParseBody
<1>2. CASE ~(request.length # None /\ BodyIncomplete(n))
  <2>1. /\ request' = r /\ status' = "FINISHED" /\ ReturnTrue /\ EmitRequest(r)
        /\ UNCHANGED <<stream, received, whole>> /\ status = "BODY"
    BY <1>2 DEF ParseBody, socketVars
  <2>2. r.line = request.line
    BY DEF TInv, RequestInv, Line
  <2> HIDE DEF r
  <2>3. r \in Line
    BY <2>1, BodyTypes DEF TInv, RequestInv
  <2>4. r.line # None /\ Reading
    BY <2>1, <2>2 DEF TInv, RequestInv, Reading
  <2>5. /\ Placed' /\ AsEmitted' /\ pos' = 0 /\ buffer' = <<>>
        /\ received' # <<>> => received'[1].of # None
        /\ Len(emitted) \in Nat /\ Len(emitted') = Len(emitted) + 1
        /\ AllWhole' => AllWhole /\ whole
    BY <2>1, <2>3, <2>4, UsedEmission
  <2>6. AllWhole' => Used'
    <3> SUFFICES ASSUME AllWhole' PROVE Used'
      OBVIOUS
    <3>1. PICK m, q : m = Len(emitted) /\ q = request.line
      OBVIOUS
    <3>2. q > m /\ Later(received, q) /\ Later(stream, q)
      BY <2>4, <2>5, <3>1 DEF UsedInv, Used
    <3>3. m \in Nat /\ q \in Nat /\ q >= m + 1 /\ Len(emitted') = m + 1
      BY <2>5, <3>1, <3>2, NumbersAre DEF TInv, RequestInv, Line, None
    <3>4. Later(received, m + 1) /\ Later(stream, m + 1)
      BY <3>2, <3>3, LaterThanLess DEF TInv, Socket
    <3>5. LinesLater(received, m + 1) /\ LinesLater(stream, m + 1)
      BY <3>4, LinesAreReal DEF TInv, Socket
    <3>6. LinesLater(buffer, m + 1)' /\ ~Reading'
      BY <2>1, <2>5 DEF LinesLater, Reading
    <3> QED
      BY <2>1, <2>5, <3>3, <3>4, <3>5, <3>6 DEF Used, Later, LinesLater
  <2> QED
    BY <2>1, <2>5, <2>6 DEF UsedInv, Reading
<1> QED
  BY <1>1, <1>2

LEMMA UsedFinished == TInv /\ UsedInv /\ Finished => UsedInv'
<1> SUFFICES ASSUME TInv, UsedInv, Finished PROVE UsedInv'
  OBVIOUS
<1>1. /\ status = "FINISHED" /\ status' = "REQUEST_LINE" /\ ReturnTrue
      /\ EmitRequest(request) /\ request' = request /\ Data # <<>>
      /\ UNCHANGED <<stream, received, whole>>
  BY DEF Finished, socketVars
<1>2. request \in Line /\ request.line # None
  BY <1>1 DEF TInv, RequestInv
<1>3. /\ Placed' /\ AsEmitted' /\ pos' = 0 /\ buffer' = <<>>
      /\ received' # <<>> => received'[1].of # None
      /\ Len(emitted) \in Nat /\ Len(emitted') = Len(emitted) + 1
      /\ AllWhole' => AllWhole /\ whole
  BY <1>1, <1>2, UsedEmission
<1>4. AllWhole' => Used'
  <2> SUFFICES ASSUME AllWhole' PROVE Used'
    OBVIOUS
  <2>1. buffer # <<>> /\ 1 \in 1..Len(buffer)
    <3>1. Len(Data) \in Nat /\ Len(Data) # 0
      BY <1>1, DataElements, EmptySeq DEF TInv
    <3>2. Len(buffer) \in Nat /\ Len(Data) = Len(buffer) - pos /\ pos \in Nat
      BY DataElements DEF TInv, Position
    <3>3. Len(buffer) # 0 /\ Len(buffer) \in Nat
      BY <3>1, <3>2
    <3> QED
      BY <3>3
  <2>2. PICK m, q : m = Len(emitted) /\ q = buffer[1].of
    OBVIOUS
  <2>3. q > m /\ m \in Nat
    BY <1>1, <1>3, <2>1, <2>2 DEF UsedInv, Used
  <2>4. q \in Nat
    BY <2>1, <2>2, NumbersAre DEF TInv, Position, Tokens, None
  <2>5. HeldParts(buffer, received) /\ Len(buffer) \in Nat
    BY HeldElementsOf DEF TInv, Position, Socket
  <2>6. 1 \in 1..Len(Held) /\ Held[1] = buffer[1]
    BY <2>1, <2>5 DEF HeldParts, Held
  <2>7. ASSUME NEW j \in 1..Len(received), received[j].kind = "line"
        PROVE  received[j].of > m + 1
    <3>1. PICK l : l = Len(buffer) + j
      OBVIOUS
    <3>2. l \in 1..Len(Held) /\ Held[l] = received[j]
      BY <2>5, <3>1 DEF HeldParts, Held
    <3>3. 1 < l
      BY <2>1, <2>5, <3>1
    <3>4. q < received[j].of
      BY <2>2, <2>6, <2>7, <3>2, <3>3, HeldInOrder DEF UsedInv
    <3>5. received[j].of \in Nat
      BY NumbersAre DEF TInv, Socket, Tokens, None
    <3> QED
      BY <2>3, <2>4, <3>4, <3>5
  <2>8. ASSUME NEW j \in 1..Len(stream), stream[j].kind = "line"
        PROVE  stream[j].of > m + 1
    <3>1. q < stream[j].of
      BY <2>2, <2>6, <2>8, HeldBeforeStream DEF UsedInv
    <3>2. stream[j].of \in Nat
      BY NumbersAre DEF TInv, Socket, Tokens, None
    <3> QED
      BY <2>3, <2>4, <3>1, <3>2
  <2>9. LinesLater(buffer, m + 1)' /\ ~Reading'
    BY <1>1, <1>3 DEF LinesLater, Reading
  <2>10. LinesLater(received, m + 1)' /\ LinesLater(stream, m + 1)'
    BY <1>1, <2>7, <2>8 DEF LinesLater
  <2> QED
    BY <1>1, <1>3, <2>2, <2>9, <2>10 DEF Used, LinesLater
<1> QED
  BY <1>1, <1>3, <1>4 DEF UsedInv, Reading

LEMMA UsedNext == TInv /\ UsedInv /\ [Next]_vars => UsedInv'
<1> SUFFICES ASSUME TInv, UsedInv, [Next]_vars PROVE UsedInv'
  OBVIOUS
<1>1. CASE UNCHANGED vars \/ NewConnection
  <2>1. /\ UNCHANGED <<stream, received, buffer, pos, status, emitted, request, whole>>
        /\ pc' = pc \/ pc # "parse"
    BY <1>1 DEF vars, socketVars, NewConnection
  <2>2. Placed'
    BY <2>1, PlacedKept DEF UsedInv
  <2>3. Reading' <=> Reading
    BY <2>1 DEF Reading
  <2>4. status' = "FINISHED" => pos' = 0 /\ (pc' # "parse" => buffer' = <<>>)
    BY <2>1 DEF UsedInv
  <2> QED
    BY <2>1, <2>2, <2>3, <2>4, UsedKept
<1>2. CASE ReadFromSocket
  BY <1>2, UsedReceived
<1>3. CASE CheckIncomingData \/ DataReady
  BY <1>3, UsedBeginParse DEF CheckIncomingData, DataReady
<1>4. CASE alive /\ EndOfData
  BY <1>4, UsedEndOfData
<1>5. CASE ParseRequestLine
  BY <1>5, UsedRequestLine
<1>6. CASE BlankLine
  BY <1>6, UsedBlankLine
<1>7. CASE ParseHeaderLine
  BY <1>7, UsedHeaderLine
<1>8. CASE ParseBody
  BY <1>8, UsedBody
<1>9. CASE Finished
  BY <1>9, UsedFinished
<1> QED
  BY <1>1, <1>2, <1>3, <1>4, <1>5, <1>6, <1>7, <1>8, <1>9 DEF Next, Parser

LEMMA UsedInit == Init => UsedInv
<1> SUFFICES ASSUME Init PROVE UsedInv
  OBVIOUS
<1>1. /\ stream = Stream /\ received = <<>> /\ buffer = <<>> /\ pos = 0
      /\ status = "REQUEST_LINE" /\ emitted = <<>>
  BY DEF Init
<1>2. Len(Stream) \in Nat /\ Stream \in Seq(Tokens)
  BY StreamFacts
<1>3. Arrived = 0
  BY <1>1, <1>2 DEF Arrived
<1>4. Placed
  <2>1. Held = <<>>
    BY <1>1 DEF Held
  <2>2. Len(<<>>) = 0 /\ 1..0 = {}
    OBVIOUS
  <2> DEFINE g == [i \in 1..0 |-> 0]
  <2>3. g \in [1..0 -> 0..0]
    OBVIOUS
  <2> HIDE DEF g
  <2>4. From(g, <<>>, 0)
    BY <2>2, <2>3 DEF From
  <2>5. \A j \in 1..Len(stream) : stream[j] = Stream[Arrived + j]
    BY <1>1, <1>2, <1>3
  <2> QED
    BY <1>1, <1>2, <1>3, <2>1, <2>4, <2>5 DEF Placed
<1>5. LinesLater(buffer, 0) /\ LinesLater(received, 0) /\ LinesLater(stream, 0)
  <2>1. LinesLater(stream, 0)
    BY <1>1, StreamFacts, NumbersAre DEF LinesLater
  <2> QED
    BY <1>1, <2>1 DEF LinesLater
<1>6. Used
  BY <1>1, <1>5 DEF Used, Reading
<1> QED
  BY <1>1, <1>4, <1>6 DEF UsedInv, Reading

\* What the parser changes of the request object, and what it emits, takes a token
\* of a request that is later than the number of emissions.
LEMMA OnlyForLater ==
  ASSUME TInv, UsedInv, Used, Parser,
         ~UNCHANGED <<request.line, request.body, emitted>>
  PROVE  \/ \E j \in 1..Len(buffer) : buffer[j].of > Len(emitted)
         \/ Reading /\ request.line > Len(emitted)
<1>1. CASE NewConnection \/ CheckIncomingData \/ DataReady \/ EndOfData \/ BlankLine
  BY <1>1 DEF NewConnection, CheckIncomingData, DataReady, BeginParse, EndOfData,
              BlankLine
<1>2. CASE ParseRequestLine
  <2>1. EndOfLine # None /\ Len(LineText) = 1 /\ LineText[1].kind = "line"
    BY <1>2 DEF ParseRequestLine, ReturnFalse
  <2>2. 1 \in 1..Len(Data) /\ Data[1].kind = "line"
    BY <2>1, LineBefore DEF TInv
  <2>3. pos + 1 \in 1..Len(buffer) /\ Data[1] = buffer[pos + 1]
    <3>1. /\ Len(buffer) \in Nat /\ Len(Data) = Len(buffer) - pos
          /\ pos \in 0..Len(buffer) /\ Data[1] = buffer[pos + 1]
      BY <2>2, DataElements DEF TInv, Position
    <3> QED
      BY <2>2, <3>1
  <2> QED
    BY <2>2, <2>3 DEF Used, LinesLater
<1>3. CASE ParseHeaderLine
  <2>1. emitted' = emitted
    BY <1>3 DEF ParseHeaderLine, ReturnFalse
  <2>2. \E x : request' = [request EXCEPT !.length = x] \/ request' = request
    BY <1>3 DEF ParseHeaderLine, ReturnFalse
  <2>3. request'.line = request.line /\ request'.body = request.body
    BY <2>2 DEF TInv, RequestInv, Line
  <2> QED
    BY <2>1, <2>3
<1>4. CASE ParseBody
  BY <1>4 DEF ParseBody, Reading, Used
<1>5. CASE Finished
  <2>1. status = "FINISHED" /\ Data # <<>>
    BY <1>5 DEF Finished
  <2>2. 1 \in 1..Len(buffer) /\ buffer # <<>>
    <3>1. Len(Data) \in Nat /\ Len(Data) # 0
      BY <2>1, DataElements, EmptySeq DEF TInv
    <3>2. Len(buffer) \in Nat /\ Len(Data) = Len(buffer) - pos /\ pos \in Nat
      BY DataElements DEF TInv, Position
    <3>3. Len(buffer) # 0 /\ Len(buffer) \in Nat
      BY <3>1, <3>2
    <3> QED
      BY <3>3
  <2> QED
    BY <2>1, <2>2 DEF Used
<1> QED
  BY <1>1, <1>2, <1>3, <1>4, <1>5 DEF Parser

LEMMA SpecUsedInv == Spec => []UsedInv
BY UsedInit, UsedNext, SpecTInv, PTL DEF Spec

\* What the parser holds after a step, and what is read, it held before.
LEMMA ParserTakes ==
  ASSUME TInv, Parser
  PROVE  /\ \A j \in 1..Len(buffer') :
              \/ \E i \in 1..Len(buffer) : buffer'[j] = buffer[i]
              \/ \E i \in 1..Len(received) : buffer'[j] = received[i]
         /\ received' = received \/ received' = <<>>
         /\ Reading' => \/ Reading /\ request'.line = request.line
                        \/ \E i \in 1..Len(buffer) : request'.line = buffer[i].of
<1>1. CASE NewConnection
  BY <1>1 DEF NewConnection, Reading
<1>2. CASE CheckIncomingData \/ DataReady
  <2>1. /\ buffer' = buffer \o received /\ received' = <<>>
        /\ status' = status /\ request' = request
    BY <1>2 DEF CheckIncomingData, DataReady, BeginParse
  <2>2. HeldParts(buffer, received) /\ Len(buffer) \in Nat
    BY HeldElementsOf DEF TInv, Socket, Position
  <2>3. ASSUME NEW j \in 1..Len(buffer')
        PROVE  \/ \E i \in 1..Len(buffer) : buffer'[j] = buffer[i]
               \/ \E i \in 1..Len(received) : buffer'[j] = received[i]
    <3>1. CASE j \in 1..Len(buffer)
      BY <2>1, <2>2, <3>1 DEF HeldParts
    <3>2. CASE j \notin 1..Len(buffer)
      <4>1. PICK i : i = j - Len(buffer)
        OBVIOUS
      <4>2. i \in 1..Len(received) /\ j > Len(buffer)
        BY <2>1, <2>2, <3>2, <4>1 DEF HeldParts
      <4>3. j = Len(buffer) + i
        BY <2>2, <4>1, <4>2
      <4> QED
        BY <2>1, <2>2, <4>2, <4>3 DEF HeldParts
    <3> QED
      BY <3>1, <3>2
  <2> QED
    BY <2>1, <2>3 DEF Reading
<1>3. CASE EndOfData
  <2>1. /\ buffer' = SubSeq(buffer, parsed + 1, Len(buffer)) /\ received' = received
        /\ status' = status /\ request' = request
    BY <1>3 DEF EndOfData, socketVars
  <2>2. parsed \in 0..Len(buffer) /\ buffer \in Seq(Tokens) /\ Len(buffer) \in Nat
    BY DEF Parser, TInv, Position
  <2>3. /\ Len(buffer') = Len(buffer) - parsed
        /\ \A j \in 1..Len(buffer') : buffer'[j] = buffer[parsed + j]
    BY <2>1, <2>2, RestElements
  <2>4. \A j \in 1..Len(buffer') : parsed + j \in 1..Len(buffer)
    BY <2>2, <2>3
  <2> QED
    BY <2>1, <2>3, <2>4 DEF Reading
<1>4. CASE ParseRequestLine
  <2>1. CASE EndOfLine # None /\ Len(LineText) = 1 /\ LineText[1].kind = "line"
    <3>1. /\ request' = [request EXCEPT !.line = LineText[1].of]
          /\ buffer' = buffer /\ received' = received
      BY <1>4, <2>1 DEF ParseRequestLine, socketVars
    <3>2. request'.line = Data[1].of
      BY <2>1, <3>1, LineBefore DEF TInv, RequestInv, Line
    <3>3. pos + 1 \in 1..Len(buffer) /\ Data[1] = buffer[pos + 1]
      <4>1. 1 \in 1..Len(Data)
        BY <2>1, LineBefore DEF TInv
      <4>2. /\ Len(buffer) \in Nat /\ Len(Data) = Len(buffer) - pos
            /\ pos \in 0..Len(buffer) /\ Data[1] = buffer[pos + 1]
        BY <4>1, DataElements DEF TInv, Position
      <4> QED
        BY <4>1, <4>2
    <3> QED
      BY <3>1, <3>2, <3>3
  <2>2. CASE ~(EndOfLine # None /\ Len(LineText) = 1 /\ LineText[1].kind = "line")
    BY <1>4, <2>2 DEF ParseRequestLine, ReturnFalse, socketVars, Reading
  <2> QED
    BY <2>1, <2>2
<1>5. CASE BlankLine
  BY <1>5 DEF BlankLine, socketVars, Reading
<1>6. CASE ParseHeaderLine
  <2>1. UNCHANGED <<buffer, received, status>>
    BY <1>6 DEF ParseHeaderLine, ReturnFalse, socketVars
  <2>2. \E x : request' = [request EXCEPT !.length = x] \/ request' = request
    BY <1>6 DEF ParseHeaderLine, ReturnFalse
  <2>3. request'.line = request.line
    BY <2>2 DEF TInv, RequestInv, Line
  <2> QED
    BY <2>1, <2>3 DEF Reading
<1>7. CASE ParseBody \/ Finished
  <2>1. received' = received
    BY <1>7 DEF ParseBody, Finished, ReturnFalse, socketVars
  <2>2. buffer' = buffer \/ buffer' = <<>>
    BY <1>7 DEF ParseBody, Finished, ReturnFalse, ReturnTrue
  <2>3. Reading' => Reading /\ request' = request
    BY <1>7 DEF ParseBody, Finished, ReturnFalse, Reading
  <2> QED
    BY <2>1, <2>2, <2>3
<1> QED
  BY <1>1, <1>2, <1>3, <1>4, <1>5, <1>6, <1>7 DEF Parser

\* An emission is added to those before it.
LEMMA ParserEmits ==
  ASSUME TInv, Parser
  PROVE  \/ emitted' = emitted
         \/ /\ Len(emitted') = Len(emitted) + 1
            /\ \A j \in 1..Len(emitted) : emitted'[j] = emitted[j]
<1>1. ASSUME NEW r, EmitRequest(r)
      PROVE  /\ Len(emitted') = Len(emitted) + 1
             /\ \A j \in 1..Len(emitted) : emitted'[j] = emitted[j]
  <2>1. PICK e : emitted' = Append(emitted, e)
    BY <1>1 DEF EmitRequest
  <2>2. Longer(emitted, e, emitted')
    BY <2>1, OneMore DEF TInv, IsSequence
  <2> QED
    BY <2>2 DEF Longer
<1>2. emitted' = emitted \/ \E r : EmitRequest(r)
  BY DEF Parser, NewConnection, CheckIncomingData, DataReady, BeginParse, EndOfData,
         ParseRequestLine, BlankLine, ParseHeaderLine, ParseBody, Finished, ReturnFalse
<1> QED
  BY <1>1, <1>2
=============================================================================
