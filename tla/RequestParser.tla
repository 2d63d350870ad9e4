---------------------------- MODULE RequestParser ----------------------------
(***************************************************************************)
(* One connection's way from the bytes its client sends to the requests    *)
(* the ParserThread emits: TcpSocket::readFromSocket and read,             *)
(* ParserThread::newConnectionReceived and RequestParser.                  *)
(*                                                                         *)
(* The client's bytes are tokens: the text of a request line, the text of  *)
(* a header field, CR, LF and the bytes of a body.  Reads cut the stream   *)
(* anywhere between them.  A cut inside a text is one before its CR, for   *)
(* the parser makes nothing of a line that has no end.                     *)
(*                                                                         *)
(* readFromSocket appends its buffer as a C string that it has not         *)
(* terminated: what earlier reads have left behind the received bytes may  *)
(* be appended too, and what follows a zero byte is lost.                  *)
(***************************************************************************)
EXTENDS Integers, Sequences, SequencesExt

CONSTANTS Requests,  \* what the client sends: the Content-Length of each, or
          NoLength,  \* this, for a request without Content-Length and body
          Colons,    \* requests whose line, or body, has a colon
          Cuts,      \* bound: where in the stream a recv may end
          MaxGarbled \* bound: how many reads append other than the bytes received

ASSUME RequestsAssumption == Requests \in Seq(Nat \cup {NoLength})
ASSUME NoLengthAssumption == NoLength \notin Nat
ASSUME CutsAssumption == Cuts \subseteq Nat
ASSUME MaxGarbledAssumption == MaxGarbled \in Nat

Numbers == DOMAIN Requests
None == 0

Token(kind, k) == [kind |-> kind, of |-> k]
LineEnd(k) == <<Token("cr", k), Token("lf", k)>>
HasBody(k) == Requests[k] # NoLength
Body(k) == [j \in 1..(IF HasBody(k) THEN Requests[k] ELSE 0) |-> Token("byte", k)]

\* A request has one header field: its Content-Length, or some other.
Message(k) == <<Token("line", k)>> \o LineEnd(k) \o <<Token("field", k)>>
                \o LineEnd(k) \o LineEnd(k) \o Body(k)

Stream == FlattenSeq([k \in Numbers |-> Message(k)])

VARIABLES
  stream,    \* bytes sent and not yet received, of all the client will send
  \* TcpSocket
  received,  \* _dataBuffer
  connected, \* dataReady is connected to the parser's slot
  pending,   \* dataReady signals queued for the ParserThread
  \* RequestParser
  pc,
  buffer,    \* _buffer
  pos,       \* how much of the buffer the view `data' has moved past
  parsed,    \* totalParsedSize
  status,    \* _parsingStatus
  request,   \* _request: whose line, whose Content-Length, its body
  emitted,   \* requests given to the HttpServer
  \* history
  garbled,   \* how many reads have appended other than the bytes received
  whole,     \* the buffer held all of the request when its line was parsed
  alive      \* FALSE once `data' has been moved past the end of the buffer

socketVars == <<stream, received, connected, pending, garbled>>
vars == <<socketVars, pc, buffer, pos, parsed, status, request, emitted, whole,
          alive>>

\* A leftover is of no request.
Tokens == [kind : {"line", "field"}, of : Numbers]
            \cup [kind : {"byte", "cr", "lf"}, of : Numbers \cup {None}]

TypeOK ==
  /\ stream \in Seq(Tokens) /\ received \in Seq(Tokens)
  /\ connected \in BOOLEAN
  /\ pending \in Nat
  /\ pc \in {"unborn", "born", "idle", "parse"}
  /\ buffer \in Seq(Tokens)
  /\ pos \in 0..Len(buffer)
  /\ parsed \in Nat /\ (alive => parsed <= pos)
  /\ status \in {"REQUEST_LINE", "HEADER_LINES", "BODY", "FINISHED"}
  /\ request \in [line : Numbers \cup {None}, length : Numbers \cup {None},
                  body : Seq(Tokens)]
  /\ emitted \in Seq([line : Numbers, length : Numbers \cup {None},
                      body : Seq(Tokens), whole : BOOLEAN])
  /\ garbled \in 0..MaxGarbled
  /\ whole \in BOOLEAN
  /\ alive \in BOOLEAN

Init ==
  /\ stream = Stream
  /\ received = <<>>
  /\ connected = FALSE
  /\ pending = 0
  /\ pc = "unborn"
  /\ buffer = <<>>
  /\ pos = 0
  /\ parsed = 0
  /\ status = "REQUEST_LINE"
  /\ request = [line |-> None, length |-> None, body |-> <<>>]
  /\ emitted = <<>>
  /\ garbled = 0
  /\ whole = FALSE
  /\ alive = TRUE
-----------------------------------------------------------------------------
(* The TcpServer thread.                                                   *)

\* A recv may end after the next n tokens.
MayEnd(n) == Len(Stream) - Len(stream) + n \in Cuts

\* What an earlier read may have left behind the bytes received: bytes, or the end
\* of a line, but nothing that a request is still waiting for.
Leftovers == {Token(kind, None) : kind \in {"byte", "cr", "lf"}}

\* readFromSocket: the next n tokens, in one recv or, where the buffer was full, in
\* several.  Of those up to c, the end of one recv, only the first a may be appended,
\* because a zero byte follows; or all of them and a leftover.  The append and the
\* signal are under the mutex of read; the signal reaches the parser if its slot is
\* connected by then.
ReadFromSocket ==
  /\ \E n \in 1..Len(stream) :
       /\ MayEnd(n)
       /\ \/ /\ received' = received \o SubSeq(stream, 1, n)
             /\ UNCHANGED garbled
          \/ /\ garbled < MaxGarbled
             /\ garbled' = garbled + 1
             /\ \E c \in 1..n :
                  /\ MayEnd(c)
                  /\ \E a \in 0..c, s \in {<<>>} \cup {<<t>> : t \in Leftovers} :
                       /\ \/ a = c /\ s # <<>>
                          \/ a < c /\ s = <<>> /\ stream[a + 1].kind = "byte"
                       /\ received' = received \o SubSeq(stream, 1, a) \o s
                                               \o SubSeq(stream, c + 1, n)
       /\ stream' = SubSeq(stream, n + 1, Len(stream))
  /\ pending' = IF connected THEN pending + 1 ELSE pending
  /\ UNCHANGED <<connected, pc, buffer, pos, parsed, status, request, emitted,
                 whole, alive>>
-----------------------------------------------------------------------------
(* The ParserThread.                                                       *)

\* Fault: nothing is read on behalf of signals that came too early.
NewConnectionUnchecked ==
  /\ pc = "unborn"
  /\ connected' = TRUE
  /\ pc' = "idle"
  /\ UNCHANGED <<stream, received, pending, garbled, buffer, pos, parsed, status,
                 request, emitted, whole, alive>>

\* newConnectionReceived makes the parser, whose constructor connects ...
NewConnection ==
  /\ pc = "unborn"
  /\ connected' = TRUE
  /\ pc' = "born"
  /\ UNCHANGED <<stream, received, pending, garbled, buffer, pos, parsed, status,
                 request, emitted, whole, alive>>

\* dataReady: whatever the socket has received is parsed.
BeginParse ==
  /\ buffer' = buffer \o received
  /\ received' = <<>>
  /\ pc' = "parse"
  /\ UNCHANGED <<stream, connected, garbled, pos, parsed, status, request, emitted,
                 whole, alive>>

\* ... and checks for data that came before.
CheckIncomingData == pc = "born" /\ BeginParse /\ UNCHANGED pending

DataReady == pc = "idle" /\ pending > 0 /\ BeginParse /\ pending' = pending - 1

Data == SubSeq(buffer, pos + 1, Len(buffer))

\* The first of the places found, None if nothing is found.
First(found) ==
  IF found = {} THEN None ELSE CHOOSE j \in found : \A l \in found : j <= l

EndOfLine == First({j \in 1..Len(Data) : Data[j].kind \in {"cr", "lf"}})

\* A field has a colon; a line, a leftover of an earlier call, or a body may.
HasColon(t) == t.kind = "field" \/ (t.kind \in {"line", "byte"} /\ t.of \in Colons)

Colon == First({j \in 1..Len(Data) : HasColon(Data[j])})

LineText == SubSeq(Data, 1, EndOfLine - 1)

\* data.remove_prefix(n): undefined when fewer than n bytes are left.
RemovePrefix(n) ==
  IF n <= Len(Data) THEN pos' = pos + n /\ UNCHANGED alive
                    ELSE pos' = Len(buffer) /\ alive' = FALSE

\* Fault: the count of parsed bytes is carried into the next call.
ReturnFalseCounting ==
  /\ pc' = "idle"
  /\ pos' = 0
  /\ UNCHANGED <<socketVars, parsed, buffer, status, request, emitted, whole,
                 alive>>

\* partialParse returns false where it is; what it has consumed is not erased.
ReturnFalse ==
  /\ pc' = "idle"
  /\ pos' = 0 /\ parsed' = 0
  /\ UNCHANGED <<socketVars, buffer, status, request, emitted, whole, alive>>

\* partialParse returns true; parse clears the buffer and dataReady emits.
ReturnTrue ==
  /\ pc' = "idle"
  /\ pos' = 0 /\ parsed' = 0
  /\ buffer' = <<>>

EmitRequest(r) ==
  emitted' = Append(emitted, [line |-> r.line, length |-> r.length,
                              body |-> r.body, whole |-> whole])

\* The end of the data.  The blank line has not been counted as parsed.
EndOfData ==
  /\ pc = "parse" /\ Data = <<>>
  /\ buffer' = SubSeq(buffer, parsed + 1, Len(buffer))
  /\ pos' = 0 /\ parsed' = 0
  /\ pc' = "idle"
  /\ UNCHANGED <<socketVars, status, request, emitted, whole, alive>>

ParseRequestLine ==
  /\ pc = "parse" /\ Data # <<>> /\ status = "REQUEST_LINE"
  /\ IF EndOfLine # None /\ Len(LineText) = 1 /\ LineText[1].kind = "line"
     THEN LET k == LineText[1].of IN
          /\ RemovePrefix(EndOfLine + 1)
          /\ parsed' = parsed + EndOfLine + 1
          /\ request' = [request EXCEPT !.line = k]
          /\ whole' = IsPrefix(Message(k), Data)
          /\ status' = "HEADER_LINES"
          /\ UNCHANGED <<socketVars, pc, buffer, emitted>>
     ELSE ReturnFalse

\* Fault: the end of any line is taken for the blank line.
BlankAnywhere == EndOfLine # None

Blank == EndOfLine = 1

\* Fault: a line ends with one character.
OneCharacter == 1

BlankLineSize == 2

BlankLine ==
  /\ pc = "parse" /\ Data # <<>> /\ status = "HEADER_LINES"
  /\ Blank
  /\ RemovePrefix(BlankLineSize)
  /\ status' = "BODY"
  /\ UNCHANGED <<socketVars, pc, buffer, parsed, request, emitted, whole>>

\* Whatever is before a colon is a header.  std::map::insert keeps the first
\* Content-Length.
ParseHeaderLine ==
  /\ pc = "parse" /\ Data # <<>> /\ status = "HEADER_LINES"
  /\ ~Blank
  /\ LET k == Data[Colon].of
     IN IF Colon = None \/ Colon > EndOfLine
        THEN ReturnFalse
        ELSE /\ RemovePrefix(EndOfLine + 1)
             /\ parsed' = parsed + EndOfLine + 1
             /\ request' =
                  IF /\ Colon = 1 /\ Data[1].kind = "field" /\ HasBody(k)
                     /\ request.length = None
                  THEN [request EXCEPT !.length = k] ELSE request
             /\ UNCHANGED <<socketVars, pc, buffer, status, emitted, whole>>

\* Fault: a body that is just complete is waited for.
BodyIncompleteYet(n) == Len(Data) <= n

BodyIncomplete(n) == Len(Data) < n

ParseBody ==
  /\ pc = "parse" /\ Data # <<>> /\ status = "BODY"
  /\ LET n == Requests[request.length]
         r == IF request.length = None THEN request
              ELSE [request EXCEPT !.body = SubSeq(Data, 1, n)]
     IN IF request.length # None /\ BodyIncomplete(n)
        THEN ReturnFalse
        ELSE /\ request' = r
             /\ status' = "FINISHED"
             /\ ReturnTrue
             /\ EmitRequest(r)
             /\ UNCHANGED <<socketVars, whole, alive>>

\* Whatever comes after a request makes the parser return it again.
Finished ==
  /\ pc = "parse" /\ Data # <<>> /\ status = "FINISHED"
  /\ status' = "REQUEST_LINE"
  /\ ReturnTrue
  /\ EmitRequest(request)
  /\ UNCHANGED <<socketVars, request, whole, alive>>
-----------------------------------------------------------------------------
Parser ==
  /\ alive
  /\ \/ NewConnection \/ CheckIncomingData \/ DataReady \/ EndOfData
     \/ ParseRequestLine \/ BlankLine \/ ParseHeaderLine \/ ParseBody \/ Finished

Next == Parser \/ (alive /\ ReadFromSocket)

Spec == Init /\ [][Next]_vars

\* The ParserThread runs.  The client need not send all it could.
FairSpec == Spec /\ WF_vars(Parser)
-----------------------------------------------------------------------------
(* Properties.                                                             *)

\* Bytes that have been received are not forgotten: the parser is still to look
\* for them, or a signal for them is queued, however the connection's first
\* bytes and the making of its parser fall.
NoDataForgotten ==
  received # <<>> => pending > 0 \/ pc \in {"unborn", "born"}

\* The header section of request k has left the client.
HeaderReceived(k) ==
  \A j \in DOMAIN stream : stream[j].of = k => stream[j].kind = "byte"

\* However the bytes are cut, a request is not emitted before its header section
\* has been received, and never after a later one, as long as reads append what
\* they have received.
EmittedInOrder ==
  garbled = 0 => \A j \in DOMAIN emitted :
    /\ HeaderReceived(emitted[j].line)
    /\ \A l \in 1..(j - 1) : emitted[l].line <= emitted[j].line

\* A request that was in the buffer as a whole when its line was parsed is
\* emitted with its own body, unless an earlier request of the connection has
\* left it another Content-Length.
WholeRequestRight ==
  \A j \in DOMAIN emitted :
    LET e == emitted[j] IN
    e.whole /\ (IF HasBody(e.line) THEN e.length = e.line ELSE e.length = None)
      => e.body = Body(e.line)

\* A request with a body that has been received as a whole before anything of it
\* was parsed is emitted.
FirstRequestWaiting ==
  /\ Requests[1] \notin {NoLength, 0}
  /\ emitted = <<>>
  /\ buffer = <<>> /\ pc # "parse"
  /\ IsPrefix(Message(1), received)

FirstRequestEmitted ==
  FirstRequestWaiting ~> (emitted # <<>> /\ emitted[1].line = 1)
=============================================================================
