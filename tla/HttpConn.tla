------------------------------ MODULE HttpConn ------------------------------
(***************************************************************************)
(* One connection serving static files: HttpConn, its parser HttpRequest   *)
(* and its HttpResponse (Sources/protocol/http), driven as HttpServer's    *)
(* OnRead, OnWrite and OnProcessStatic drive them.  HttpServer (the        *)
(* module) has the interleavings of many connections and pieces for bytes; *)
(* here is one connection between two close()s, and what is in the bytes.  *)
(*                                                                         *)
(* A message is a sequence of tokens.  A line is a text and its CR LF; the *)
(* texts are request lines, header lines and lines that are neither, and a *)
(* body is a sequence of "x".  The network may cut a message anywhere,     *)
(* also between CR and LF.                                                 *)
(***************************************************************************)
EXTENDS Integers, Sequences, FiniteSets

CONSTANTS
  Kinds,       \* the requests the client sends: some of DOMAIN Message
  Pipelined,   \* the client may send a request before the last is answered
  MaxAsked,    \* bound: how many requests it sends
  Outcomes,    \* what may become of a request for a file
  Bytes,       \* what files consist of
  Files,       \* what the files it asks for may hold
  StaleLens    \* what may be in iov_[1].iov_len of a new connection

Line(text) == <<text, "cr", "lf">>
Blank == <<"cr", "lf">>

Message ==
  [get     |-> Line("GET") \o Line("other") \o Blank,
   close   |-> Line("GET") \o Line("close") \o Blank,
   post    |-> Line("GET") \o Line("length2") \o Blank \o <<"x", "x">>,
   empty   |-> Line("GET") \o Line("length0") \o Blank,
   bad     |-> Line("word") \o Line("other") \o Blank,
   badhead |-> Line("GET") \o Line("word") \o Blank,
   barelf  |-> <<"GET", "lf", "lf">>]

WellFormed == {"get", "close", "post", "empty"}

RequestLines == {"GET"}
HeaderLines == {"other", "close", "length0", "length2"}
LengthOf(text) == IF text = "length2" THEN 2 ELSE 0

ASSUME ConnAssumption ==
  /\ Kinds \subseteq DOMAIN Message
  /\ Pipelined \in BOOLEAN
  /\ MaxAsked \in Nat
  /\ Files \subseteq Seq(Bytes) \ {<<>>}
  /\ Outcomes \subseteq {"file", "index", "missing", "forbidden", "unmapped"}
  /\ StaleLens \subseteq Nat

VARIABLES
  coming,    \* sent by the client, not read yet
  readBuff,  \* read_buff_
  request,   \* request_: state_, and what header_ says of length and keep-alive
  writeBuff, \* write_buff_
  file,      \* the mapped file, <<>> for none
  iov,       \* lengths in iov_[0] and iov_[1], and where iov_[1] starts
  iovCnt,    \* iov_cnt_
  pc,        \* where the worker is, or which event it has armed
  asked,     \* history: the requests the client began to send, and whether
             \* it did so before the last one was answered
  answers,   \* history: the status of each response made
  made,      \* history: the bytes of all responses made
  out        \* what the client has received

vars == <<coming, readBuff, request, writeBuff, file, iov, iovCnt, pc,
          asked, answers, made, out>>

wire == <<coming, asked>>
response == <<writeBuff, file, iov, iovCnt, answers, made, out>>

NewRequest == [state |-> "REQUEST_LINE", length |-> -1, keep |-> TRUE]

IsFinish == request.state = "FINISH"
IsKeepAlive == request.keep
PendingWriteBytes == iov.len0 + iov.len1

----------------------------------------------------------------------------
(***************************************************************************)
(* HttpRequest                                                             *)
(***************************************************************************)
(* Where the first CR LF begins in b, unless an LF of its own comes first  *)
(* (LINE_BAD) or there is none yet (LINE_OPEN): then 0.                    *)
LineEnd(b) ==
  LET ends == {i \in 1..Len(b) - 1 :
                 /\ b[i] = "cr" /\ b[i + 1] = "lf"
                 /\ \A j \in 1..i - 1 : b[j] # "lf"}
  IN  IF ends = {} THEN 0 ELSE CHOOSE i \in ends : \A j \in ends : i <= j

(* Faulty: a CR at the end is taken for the end of the line.               *)
ParseLine_NoLookAhead(b) ==
  IF request.state = "BODY" THEN Len(b)
  ELSE IF LineEnd(b) # 0 THEN LineEnd(b) + 1
  ELSE IF b # <<>> /\ b[Len(b)] = "cr" THEN Len(b) ELSE 0

(* The length of the line to parse, 0 if there is none.                    *)
ParseLine(b) ==
  IF request.state = "BODY" THEN Len(b)
  ELSE IF LineEnd(b) = 0 THEN 0 ELSE LineEnd(b) + 1

(* The tokens of the line up to the first byte that is zero.               *)
Text(b) ==
  LET cut == {i \in 1..Len(b) : b[i] \in {"cr", "nul"}}
  IN  SubSeq(b, 1, (CHOOSE i \in cut : \A j \in cut : i <= j) - 1)

ParseRequestLine(b) == Len(Text(b)) = 1 /\ Text(b)[1] \in RequestLines

(* A header needs a separator: a colon or white space.                     *)
ParseHeader(b) ==
  \E i \in DOMAIN Text(b) : Text(b)[i] \in RequestLines \cup HeaderLines

(* The state after a line that parses; BODY is entered if a length is set. *)
AfterLine(b) ==
  CASE request.state = "REQUEST_LINE" -> [request EXCEPT !.state = "HEADERS"]
    [] request.state = "HEADERS" /\ Text(b) = <<>> ->
         [request EXCEPT !.state = IF request.length >= 0 THEN "BODY" ELSE "FINISH"]
    [] request.state = "HEADERS" /\ Text(b) = <<"close">> -> [request EXCEPT !.keep = FALSE]
    [] request.state = "HEADERS" /\ Text(b) \in {<<"length0">>, <<"length2">>} ->
         [request EXCEPT !.length = LengthOf(Text(b)[1])]
    [] request.state = "BODY" -> [request EXCEPT !.state = "FINISH"]
    [] OTHER -> request

LineParses(b) ==
  CASE request.state = "REQUEST_LINE" -> ParseRequestLine(b)
    [] request.state = "HEADERS" -> Text(b) = <<>> \/ ParseHeader(b)
    [] OTHER -> TRUE

----------------------------------------------------------------------------
(***************************************************************************)
(* The client and the network                                              *)
(***************************************************************************)
Answered == Len(answers) = Len(asked) /\ out = made

Ask(k) ==
  /\ Len(asked) < MaxAsked
  /\ Pipelined \/ Answered
  /\ pc # "closed"
  /\ asked' = Append(asked, [kind |-> k, early |-> ~Answered])
  /\ coming' = coming \o Message[k]
  /\ UNCHANGED <<readBuff, request, response, pc>>

(* EPOLLIN: OnRead drains the socket, which has any part of what was sent. *)
Receive(n) ==
  /\ pc = "in"
  /\ n \in 1..Len(coming)
  /\ readBuff' = readBuff \o SubSeq(coming, 1, n)
  /\ coming' = SubSeq(coming, n + 1, Len(coming))
  /\ pc' = "process"
  /\ UNCHANGED <<request, response, asked>>

----------------------------------------------------------------------------
(***************************************************************************)
(* HttpConn::Process, with the loop of HttpRequest::Parse line by line     *)
(***************************************************************************)
(* Faulty: the parser starts afresh at every call.                         *)
Process_AlwaysInit ==
  /\ pc = "process"
  /\ request' = NewRequest
  /\ pc' = "parse"
  /\ UNCHANGED <<wire, readBuff, response>>

(* What was answered before is forgotten.                                  *)
Process ==
  /\ pc = "process"
  /\ request' = IF IsFinish THEN NewRequest ELSE request
  /\ pc' = IF readBuff = <<>> THEN "in" ELSE "parse"
  /\ UNCHANGED <<wire, readBuff, response>>

(* Faulty: any body will do.                                               *)
NeedsMore_AnyBody == ParseLine(readBuff) = 0

(* NO_REQUEST: the line is not complete, or the body is not.               *)
NeedsMore ==
  \/ ParseLine(readBuff) = 0
  \/ request.state = "BODY" /\ Len(readBuff) < request.length

ParseIncomplete ==
  /\ pc = "parse" /\ readBuff # <<>>
  /\ NeedsMore
  /\ pc' = "in"
  /\ UNCHANGED <<wire, readBuff, request, response>>

(* A line that parses is taken out; in FINISH any line is, unseen.         *)
ParseOneLine ==
  /\ pc = "parse" /\ readBuff # <<>>
  /\ ~NeedsMore /\ LineParses(readBuff)
  /\ request' = AfterLine(readBuff)
  /\ readBuff' = SubSeq(readBuff, ParseLine(readBuff) + 1, Len(readBuff))
  /\ UNCHANGED <<wire, response, pc>>

(* BAD_REQUEST: the line stays in the buffer, its CR LF overwritten.       *)
ParseBadLine ==
  /\ pc = "parse" /\ readBuff # <<>>
  /\ ~NeedsMore /\ ~LineParses(readBuff)
  /\ request' = [request EXCEPT !.state = "FINISH"]
  /\ readBuff' = [readBuff EXCEPT ![LineEnd(readBuff)] = "nul",
                                  ![LineEnd(readBuff) + 1] = "nul"]
  /\ pc' = "bad"
  /\ UNCHANGED <<wire, response>>

ParseEnd ==
  /\ pc = "parse" /\ readBuff = <<>>
  /\ pc' = IF IsFinish THEN "good" ELSE "in"
  /\ UNCHANGED <<wire, readBuff, request, response>>

----------------------------------------------------------------------------
(***************************************************************************)
(* HttpResponse and the vector for writev                                  *)
(***************************************************************************)
Header(code) == <<code, "header">>
ErrorPage(code) == Header(code) \o <<"page">>

(* MakeResponse puts `text' in write_buff_ and has mapped f.               *)
Respond(code, text, f) ==
  /\ writeBuff' = writeBuff \o text
  /\ file' = f
  /\ iov' = [len0 |-> Len(writeBuff'),
             len1 |-> IF f = <<>> THEN iov.len1 ELSE Len(f),
             base1 |-> IF f = <<>> THEN iov.base1 ELSE 0]
  /\ iovCnt' = IF f = <<>> THEN 1 ELSE 2
  /\ answers' = Append(answers, code)
  /\ made' = made \o text \o f
  /\ pc' = "out"
  /\ UNCHANGED <<wire, readBuff, request, out>>

BadRequest == pc = "bad" /\ Respond("400", ErrorPage("400"), <<>>)

(* The file system decides; "unmapped" is a file that cannot be opened any *)
(* more or is empty, when the head already says 200.                       *)
MakeResponse(o) ==
  /\ pc = "good"
  /\ \/ o = "missing" /\ Respond("404", ErrorPage("404"), <<>>)
     \/ o = "forbidden" /\ Respond("403", ErrorPage("403"), <<>>)
     \/ o = "unmapped" /\ Respond("200", ErrorPage("200"), <<>>)
     \/ o = "file" /\ \E f \in Files : Respond("200", Header("200"), f)
     \/ o = "index" /\ \E f \in Files : Respond("301", Header("301"), f)

----------------------------------------------------------------------------
(***************************************************************************)
(* HttpConn::WriteToFd and what OnWrite does after it                      *)
(***************************************************************************)
(* EPOLLOUT.                                                               *)
Writable ==
  /\ pc = "out"
  /\ pc' = "write"
  /\ UNCHANGED <<wire, readBuff, request, response>>

Vector ==
  SubSeq(writeBuff, 1, iov.len0) \o
  (IF iovCnt = 2 THEN SubSeq(file, iov.base1 + 1, iov.base1 + iov.len1) ELSE <<>>)

(* Faulty: the length of iov_[1] shrinks, but it starts where it did.      *)
Advance_SameBase(n) ==
  IF n > iov.len0
    THEN /\ iov' = [len0 |-> 0, len1 |-> iov.len1 + iov.len0 - n, base1 |-> iov.base1]
         /\ writeBuff' = IF iov.len0 > 0 THEN <<>> ELSE writeBuff
    ELSE /\ iov' = [iov EXCEPT !.len0 = @ - n]
         /\ writeBuff' = SubSeq(writeBuff, n + 1, Len(writeBuff))

(* Faulty: the length of iov_[0] is not reset with write_buff_.            *)
Advance_KeepLength(n) ==
  IF n > iov.len0
    THEN /\ iov' = [iov EXCEPT !.len1 = @ + iov.len0 - n, !.base1 = @ + n - iov.len0]
         /\ writeBuff' = IF iov.len0 > 0 THEN <<>> ELSE writeBuff
    ELSE /\ iov' = [iov EXCEPT !.len0 = @ - n]
         /\ writeBuff' = SubSeq(writeBuff, n + 1, Len(writeBuff))

(* writev wrote n bytes: into the file, or only of the response.           *)
Advance(n) ==
  IF n > iov.len0
    THEN /\ iov' = [len0 |-> 0, len1 |-> iov.len1 + iov.len0 - n,
                    base1 |-> iov.base1 + n - iov.len0]
         /\ writeBuff' = IF iov.len0 > 0 THEN <<>> ELSE writeBuff
    ELSE /\ iov' = [iov EXCEPT !.len0 = @ - n]
         /\ writeBuff' = SubSeq(writeBuff, n + 1, Len(writeBuff))

Writev(n) ==
  /\ pc = "write"
  /\ n \in 1..Len(Vector)
  /\ out' = out \o SubSeq(Vector, 1, n)
  /\ Advance(n)
  /\ UNCHANGED <<wire, readBuff, request, file, iovCnt, pc, answers, made>>

(* EAGAIN: the rest when the socket has room again.                        *)
WouldBlock ==
  /\ pc = "write"
  /\ Vector # <<>>
  /\ pc' = "out"
  /\ UNCHANGED <<wire, readBuff, request, response>>

(* Any other error.                                                        *)
WriteError ==
  /\ pc = "write"
  /\ Vector # <<>>
  /\ pc' = "closed"
  /\ UNCHANGED <<wire, readBuff, request, response>>

(* Faulty: what writev returned is looked at first.                        *)
WriteDone_ReturnFirst ==
  /\ pc = "write"
  /\ Vector = <<>>
  /\ pc' = "closed"
  /\ UNCHANGED <<wire, readBuff, request, response>>

(* writev has nothing left to write and returns 0.                         *)
WriteDone ==
  /\ pc = "write"
  /\ Vector = <<>>
  /\ pc' = IF PendingWriteBytes = 0 /\ IsKeepAlive THEN "in" ELSE "closed"
  /\ UNCHANGED <<wire, readBuff, request, response>>

----------------------------------------------------------------------------
Init ==
  /\ coming = <<>> /\ readBuff = <<>> /\ request = NewRequest
  /\ writeBuff = <<>> /\ file = <<>> /\ iovCnt = 1
  /\ \E n \in StaleLens : iov = [len0 |-> 0, len1 |-> n, base1 |-> 0]
  /\ pc = "in"
  /\ asked = <<>> /\ answers = <<>> /\ made = <<>> /\ out = <<>>

Read == \E n \in 1..Len(coming) : Receive(n)
Parse == Process \/ ParseIncomplete \/ ParseOneLine \/ ParseBadLine \/ ParseEnd
Answer == BadRequest \/ \E o \in Outcomes : MakeResponse(o)
Write == \E n \in 1..Len(Vector) : Writev(n)

Next ==
  \/ \E k \in Kinds : Ask(k)
  \/ Read \/ Parse \/ Answer
  \/ Writable \/ Write \/ WouldBlock \/ WriteError \/ WriteDone

Spec == Init /\ [][Next]_vars

(* Events are delivered, workers run, and a client that goes on reading    *)
(* makes room again and again.                                             *)
FairSpec ==
  /\ Spec
  /\ WF_vars(Read) /\ WF_vars(Parse) /\ WF_vars(Answer)
  /\ WF_vars(Writable) /\ WF_vars(WriteDone) /\ SF_vars(Write)

----------------------------------------------------------------------------
(***************************************************************************)
(* Properties                                                              *)
(***************************************************************************)

States == {"REQUEST_LINE", "HEADERS", "BODY", "FINISH"}

(* The variables keep to their types; the vector for writev stays within   *)
(* what write_buff_ and the mapped file hold.                              *)
TypeOK ==
  /\ request.state \in States /\ request.length \in -1..2 /\ request.keep \in BOOLEAN
  /\ iov.len0 \in 0..Len(writeBuff)
  /\ iov.len1 \in Nat /\ iov.base1 \in Nat
  /\ iovCnt = 2 => iov.base1 + iov.len1 <= Len(file)
  /\ pc \in {"in", "process", "parse", "good", "bad", "out", "write", "closed"}

(* However writev cuts the responses, the client receives their bytes in   *)
(* order, each once: what has been sent and what the vector still points   *)
(* to is what was made.                                                    *)
WrittenInOrder == out \o Vector = made

(* The client waited for every answer, and sent only well-formed requests. *)
(* (A request sent early may be discarded, and after a malformed line the  *)
(* rest of what the client sends is refused piece by piece.)               *)
Patient == \A j \in DOMAIN asked : ~asked[j].early
WellFormedUpTo(i) == \A j \in 1..i : asked[j].kind \in WellFormed
Orderly == Patient /\ WellFormedUpTo(Len(asked))

(* What the client has sent of the request it is waiting for, as far as    *)
(* it was read.                                                            *)
Received ==
  LET m == Message[asked[Len(asked)].kind]
  IN  SubSeq(m, 1, Len(m) - Len(coming))

(* The state the parser should be in after these tokens, however cut.      *)
StateAfter(b) ==
  LET ends == {i \in 1..Len(b) - 1 : b[i] = "cr" /\ b[i + 1] = "lf"}
      blank == {i \in ends : (i + 2) \in ends}
  IN  IF ends = {} THEN "REQUEST_LINE" ELSE IF blank = {} THEN "HEADERS" ELSE "BODY"

(* While a worker waits for the rest of a well-formed request, the parser  *)
(* is where one that had got all of it in one piece would be.              *)
CutsDoNotMatter ==
  pc = "in" /\ ~IsFinish /\ Len(answers) < Len(asked) /\ Orderly =>
    request.state = StateAfter(Received)

(* No request of an orderly client is answered before all of it has        *)
(* arrived, or twice, and the status says whether it was well-formed.      *)
AnsweredOnce ==
  /\ Orderly => /\ Len(answers) <= Len(asked)
                /\ Len(answers) = Len(asked) => coming = <<>>
  /\ \A i \in DOMAIN answers \cap DOMAIN asked :
       Patient /\ WellFormedUpTo(i - 1) =>
         ((answers[i] = "400") <=> (asked[i].kind \notin WellFormed))

(* What an orderly client asks for is answered, or the connection closed.  *)
RequestIsAnswered ==
  \A i \in 1..MaxAsked :
    (Len(asked) >= i /\ Orderly) ~>
      ((Len(answers) >= i /\ out = made) \/ pc = "closed" \/ ~Orderly)

(* The connection is kept after a response, unless the client has asked    *)
(* for it to be closed or writing has failed with bytes left to write.     *)
KeepAliveKept ==
  [][pc = "write" /\ pc' = "closed" => ~IsKeepAlive \/ Vector # <<>>]_vars

=============================================================================
