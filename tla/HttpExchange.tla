---------------------------- MODULE HttpExchange ----------------------------
(***************************************************************************)
(* One connection between the client of HW3/client.c, or another one, and  *)
(* a worker in requestHandle (HW3/request.c), at the level of the bytes    *)
(* that Rio (HW3/segel.c) reads and writes.                                *)
(*                                                                         *)
(* A byte is a token: the line ends "\r" and "\n" count, other text does   *)
(* not, and the start of a request, its method and uri, is one byte.  The  *)
(* kernel and the network (external) move bytes in order, in pieces of any *)
(* size.  An end that closes with unread bytes resets the connection, and  *)
(* the bytes on their way to the other end may then be lost.  A system     *)
(* call that a signal interrupts (EINTR) changes nothing and is made again *)
(* (rio_cnt stays <= 0, nleft as it was): a stuttering step.               *)
(*                                                                         *)
(* A request is long if its method or, of a GET, the name of the file does *)
(* not fit in the arrays of the server with the text that goes around it.  *)
(***************************************************************************)
EXTENDS Integers, Sequences, SequencesExt, FiniteSetsExt

CONSTANTS
  MAXLINE,     \* size of the arrays that lines are read into
  RIO_BUFSIZE, \* size of rio_t.rio_buf
  Texts,       \* bytes that mean nothing to the server and the client
  Requests,    \* what clients send: [uri, bytes, long]
  Files        \* Files[name]: what stat says of the files there are

Ends == {"server", "client"}
Peer(e) == IF e = "server" THEN "client" ELSE "server"
EmptyLine == <<"\r", "\n">>
FileKinds == {"file", "empty", "program", "unreadable"}

Byte == Texts \union {"\r", "\n", "GET", "text", "200", "error", "Content-Length",
                     "Content-length", "Stat-Thread-Id", "<p>", "content"}
Bytes == Seq(Byte)

ASSUME HttpAssumption ==
  /\ MAXLINE \in Nat \ {0, 1, 2}
  /\ RIO_BUFSIZE \in Nat \ {0}
  /\ \A r \in Requests : r.bytes \in Bytes /\ r.bytes # <<>> /\ r.long \in BOOLEAN
  /\ \A name \in DOMAIN Files : Files[name] \in FileKinds

VARIABLES
  request,  \* what this client sends
  pc,       \* pc[e]: where the code of this end is
  wire,     \* wire[e]: the bytes sent to e that it has not read
  ended,    \* ended[e]: "open", or how the way to e ended: "closed", "reset"
  rio,      \* rio[e]: the unread bytes of its rio_t (rio_bufptr, rio_cnt)
  line,     \* line[e]: what the rio_readlineb under way has copied to usrbuf
  buf,      \* buf[e]: the string in usrbuf when the last one returned
  left,     \* left[e]: what the rio_writen under way has yet to write
  said,     \* history: said[e] is all that e has written
  heard     \* history: heard[e] is the lines that rio_readlineb gave to e

connection == <<wire, ended>>
history == <<said, heard>>
vars == <<request, pc, connection, rio, line, buf, left, history>>

Reading == {"request line", "headers", "header", "body"}
Failures == {"exited", "Open failed", "Fork failed", "overrun"}
Gone(e) == pc[e] \in Failures \union {"closed", "vanished"}

Init ==
  /\ request \in Requests
  /\ pc = [e \in Ends |-> IF e = "server" THEN "no connection" ELSE "connecting"]
  /\ wire = [e \in Ends |-> <<>>]
  /\ ended = [e \in Ends |-> "open"]
  /\ rio = [e \in Ends |-> <<>>]   \* rio_readinitb
  /\ line = [e \in Ends |-> <<>>]
  \* An automatic array: what a call before has left on the stack.
  /\ \E garbage \in {<<"GET">>, <<"text">>} :
       buf = [e \in Ends |-> IF e = "server" THEN garbage ELSE <<"text">>]
  /\ left = [e \in Ends |-> IF e = "client" THEN request.bytes ELSE <<>>]
  /\ said = [e \in Ends |-> <<>>]
  /\ heard = [e \in Ends |-> <<>>]

-----------------------------------------------------------------------------
(* The ends of an end.                                                     *)

(* Close, or the end of the process, which closes the descriptor as well.  *)
Leave(e, how) ==
  /\ pc' = [pc EXCEPT ![e] = how]
  /\ ended' = [ended EXCEPT ![Peer(e)] =
                 IF @ # "open" THEN @
                 ELSE IF wire[e] # <<>> THEN "reset" ELSE "closed"]
  /\ UNCHANGED wire

(* unix_error, and SIGPIPE, which the programs do not handle. *)
Exit(e) == Leave(e, "exited")

(* The ends of the server that are told apart from that. *)
ServerFails(how) == Leave("server", how) /\ UNCHANGED left

-----------------------------------------------------------------------------
(* The response of the server.                                             *)

Lines(texts) == FlattenSeq([i \in DOMAIN texts |-> <<texts[i], "\r", "\n">>])

requestError == Lines(<<"error", "Content-Length">>) \o EmptyLine \o Lines(<<"<p>">>)

StaticHead == Lines(<<"200", "Content-Length">>) \o EmptyLine
DynamicHead == Lines(<<"200", "Stat-Thread-Id">>)
CgiOutput == Lines(<<"Content-length">>) \o EmptyLine \o Lines(<<"<p>">>)

(* The file that an uri names, and whether it is static. *)
requestParseURI(uri) ==
  IF ".." \in ToSet(uri) THEN [is_static |-> TRUE, filename |-> <<"home.html">>]
  ELSE IF "cgi" \notin ToSet(uri)
    THEN [is_static |-> TRUE,
          filename |-> IF Last(uri) = "/" THEN Append(uri, "home.html") ELSE uri]
  ELSE [is_static |-> FALSE,
        filename |-> LET q == SelectInSeq(uri, LAMBDA part : part = "?")
                     IN IF q = 0 THEN uri ELSE SubSeq(uri, 1, q - 1)]

ASSUME LongNamesAssumption == \A r \in Requests :
  r.long /\ Head(r.bytes) = "GET" => requestParseURI(r.uri).filename \notin DOMAIN Files

(* Slip: the result of stat is not tested, and sbuf holds zeros. *)
BugStatUntested(name) == IF name \in DOMAIN Files THEN Files[name] ELSE "empty"

stat(name) == IF name \in DOMAIN Files THEN Files[name] ELSE "missing"

Respond(bytes, next) ==
  /\ left' = [left EXCEPT !["server"] = bytes]
  /\ pc' = [pc EXCEPT !["server"] = next]
  /\ UNCHANGED ended

(* sprintf and strcat do not look at the sizes of body[MAXBUF], to which   *)
(* every error adds the method or the name, and of filename[MAXLINE].  A   *)
(* name that is too long for them is too long for stat as well.  Writing   *)
(* past an array may end the server.                                       *)
RequestFails ==
  \/ Respond(requestError, "writing")
  \/ request.long /\ ServerFails("overrun")

(* Open may fail for a file that stat has found (no descriptor is left, it *)
(* is gone, or it is not for this process to read), and so may mmap, which *)
(* refuses an empty file (EINVAL).  Their wrappers make that the end.      *)
requestServeStatic(kind) ==
  \/ kind # "empty" /\ Respond(StaticHead \o <<"content">>, "writing")
  \/ kind = "empty" /\ Exit("server") /\ UNCHANGED left
  \/ ServerFails("Open failed")

(* The rest of requestHandle. *)
ServeRequest ==
  LET target == requestParseURI(request.uri)
      kind == stat(target.filename)
  IN CASE target.is_static /\ kind \in {"file", "program", "empty"} ->
            requestServeStatic(kind)
       [] ~target.is_static /\ kind = "program" -> Respond(DynamicHead, "forking")
       [] OTHER -> RequestFails

(* requestHandle after its first Rio_readlineb, whose result is not tested. *)
StartRequest(text) ==
  IF Head(text) = "GET"
    THEN /\ pc' = [pc EXCEPT !["server"] = "headers"]
         /\ UNCHANGED <<left, ended>>
    ELSE RequestFails

(* Slip: an if where requestReadhdrs has a while. *)
BugOneHeader(text) == TRUE

IsEmptyLine(text) == text = EmptyLine

(* The loop of requestReadhdrs, which ends only with an empty line in buf. *)
requestReadhdrs(text) ==
  IF IsEmptyLine(text) THEN ServeRequest ELSE UNCHANGED <<pc, left, ended>>

ServerGot(text) ==
  IF pc["server"] = "request line" THEN StartRequest(text) ELSE requestReadhdrs(text)

-----------------------------------------------------------------------------
(* clientPrint, after each Rio_readlineb.                                  *)

(* Slip: the count is not looked at in the headers. *)
BugHeaderIgnoresEnd(text, n) ==
  /\ pc' = [pc EXCEPT !["client"] =
              CASE @ = "header" -> IF text # EmptyLine THEN "header" ELSE "body"
                [] @ = "body" -> IF n > 0 THEN "body" ELSE "closing"]
  /\ UNCHANGED <<left, ended>>

ClientGot(text, n) ==
  /\ pc' = [pc EXCEPT !["client"] =
              CASE @ = "header" -> IF text # EmptyLine /\ n > 0 THEN "header" ELSE "body"
                [] @ = "body" -> IF n > 0 THEN "body" ELSE "closing"]
  /\ UNCHANGED <<left, ended>>

-----------------------------------------------------------------------------
(* rio_readlineb.                                                          *)

(* rio_readlineb returns n and leaves text in usrbuf. *)
Returns(e, text, n) ==
  \* requestReadhdrs has an array of its own, with garbage of its own.
  /\ \E garbage \in {EmptyLine, <<"text">>} :
       buf' = [buf EXCEPT ![e] = IF pc[e] = "request line" THEN garbage ELSE text]
  /\ line' = [line EXCEPT ![e] = <<>>]
  /\ heard' = IF n > 0 THEN [heard EXCEPT ![e] = Append(@, text)] ELSE heard
  /\ IF e = "server" THEN ServerGot(text) ELSE ClientGot(text, n)

(* Slip: read is called with the size of another, larger array. *)
BugReadWithoutBound(e, k) ==
  /\ wire[e] # <<>>
  /\ rio' = [rio EXCEPT ![e] = wire[e]]
  /\ wire' = [wire EXCEPT ![e] = <<>>]

(* read gives the first k bytes that are there, which fill rio_buf anew. *)
Refill(e, k) ==
  /\ k <= Len(wire[e])
  /\ rio' = [rio EXCEPT ![e] = SubSeq(wire[e], 1, k)]
  /\ wire' = [wire EXCEPT ![e] = SubSeq(@, k + 1, Len(@))]

(* rio_read finds its buffer empty and refills it. *)
rio_read(e) ==
  /\ pc[e] \in Reading
  /\ rio[e] = <<>>
  /\ \E k \in 1 .. RIO_BUFSIZE : Refill(e, k)
  /\ UNCHANGED <<request, pc, ended, line, buf, left, history>>

(* One byte: a line is over with "\n" or when maxlen - 1 bytes are copied. *)
ReadByte(e) ==
  /\ pc[e] \in Reading
  /\ rio[e] # <<>>
  /\ LET text == Append(line[e], Head(rio[e])) IN
       IF Last(text) = "\n" THEN Returns(e, text, Len(text))
       ELSE IF Len(text) = MAXLINE - 1 THEN Returns(e, text, MAXLINE)
       ELSE line' = [line EXCEPT ![e] = text] /\ UNCHANGED <<pc, ended, buf, left, heard>>
  /\ rio' = [rio EXCEPT ![e] = Tail(@)]
  /\ UNCHANGED <<request, wire, said>>

(* Slip: the end of the stream in the middle of a line counts as no data. *)
BugEndDropsLine(e) == Returns(e, buf[e], 0)

(* At the end of the stream the bytes of an unfinished line are returned   *)
(* (and counted one too many); without any, usrbuf stays as it was.        *)
EndOfLine(e) ==
  IF line[e] = <<>> THEN Returns(e, buf[e], 0)
  ELSE Returns(e, line[e], Len(line[e]) + 1)

ReadEnd(e) ==
  /\ pc[e] \in Reading
  /\ rio[e] = <<>>
  /\ wire[e] = <<>>
  /\ ended[e] = "closed"
  /\ EndOfLine(e)
  /\ UNCHANGED <<request, wire, rio, said>>

ReadFails(e) ==
  /\ pc[e] \in Reading
  /\ rio[e] = <<>>
  /\ ended[e] = "reset"
  /\ Exit(e)
  /\ UNCHANGED <<request, rio, line, buf, left, history>>

-----------------------------------------------------------------------------
(* rio_writen.                                                             *)

(* Slip: nleft goes down by all that was asked for, whatever write returned. *)
BugWriteOnce(e, k) == left' = [left EXCEPT ![e] = <<>>]

Advance(e, k) == left' = [left EXCEPT ![e] = SubSeq(@, k + 1, Len(@))]

(* One write, of some of the bytes.  The first one after the other end has *)
(* gone is answered by a reset, and later ones fail.                       *)
Write(e) == \E k \in 1 .. Len(left[e]) :
  /\ ~Gone(e) /\ pc[e] # "connecting"
  /\ ended[e] # "reset"
  /\ Advance(e, k)
  /\ LET sent == SubSeq(left[e], 1, k) IN
       IF Gone(Peer(e))
         THEN ended' = [ended EXCEPT ![e] = "reset"] /\ UNCHANGED <<wire, said>>
         ELSE /\ wire' = [wire EXCEPT ![Peer(e)] = @ \o sent]
              /\ said' = [said EXCEPT ![e] = @ \o sent]
              /\ UNCHANGED ended
  /\ UNCHANGED <<request, pc, rio, line, buf, heard>>

(* The child of a dynamic request is a process of its own: only it ends. *)
WriteFails(e) ==
  /\ ~Gone(e)
  /\ left[e] # <<>>
  /\ ended[e] = "reset"
  /\ IF pc[e] = "waiting"
       THEN left' = [left EXCEPT ![e] = <<>>] /\ UNCHANGED <<pc, connection>>
       ELSE Exit(e) /\ UNCHANGED left
  /\ UNCHANGED <<request, rio, line, buf, history>>

-----------------------------------------------------------------------------
(* The rest of the server and of the client.                               *)

(* Fork, Dup2 and Execve: the program writes to the connection.  It may    *)
(* fail to start or end early, and then writes less or nothing.            *)
CgiStarts ==
  /\ pc' = [pc EXCEPT !["server"] = "waiting"]
  /\ \E k \in {0, Len(CgiOutput)} :
       left' = [left EXCEPT !["server"] = SubSeq(CgiOutput, 1, k)]
  /\ UNCHANGED connection

(* A fork that fails is the end of the server, by its wrapper. *)
requestServeDynamic ==
  /\ pc["server"] = "forking"
  /\ left["server"] = <<>>
  /\ CgiStarts \/ ServerFails("Fork failed")
  /\ UNCHANGED <<request, rio, line, buf, history>>

(* Close(fd) in workerThreadJob, after WaitPid for a dynamic request. *)
CloseConnection ==
  /\ pc["server"] \in {"writing", "waiting"}
  /\ left["server"] = <<>>
  /\ Leave("server", "closed")
  /\ UNCHANGED <<request, rio, line, buf, left, history>>

(* The client finds its server and connects, and a worker gets to it. *)
open_clientfd ==
  /\ pc["client"] = "connecting"
  /\ pc' = [e \in Ends |-> IF e = "server" THEN "request line" ELSE "sending"]
  /\ UNCHANGED <<request, connection, rio, line, buf, left, history>>

(* Its wrapper makes any failure the end of the client. *)
Open_clientfd ==
  /\ pc["client"] = "connecting"
  /\ pc' = [pc EXCEPT !["client"] = "exited"]
  /\ UNCHANGED <<request, connection, rio, line, buf, left, history>>

(* clientSend has written all of the request and clientPrint begins. *)
clientPrint ==
  /\ pc["client"] = "sending"
  /\ left["client"] = <<>>
  /\ pc' = [pc EXCEPT !["client"] = "header"]
  /\ UNCHANGED <<request, connection, rio, line, buf, left, history>>

ClientCloses ==
  /\ pc["client"] = "closing"
  /\ Leave("client", "closed")
  /\ UNCHANGED <<request, rio, line, buf, left, history>>

(* Any client may end at any time, by Ctrl-C say. *)
ClientVanishes ==
  /\ pc["client"] # "connecting" /\ ~Gone("client")
  /\ Leave("client", "vanished")
  /\ UNCHANGED <<request, rio, line, buf, left, history>>

Step(e) == rio_read(e) \/ ReadByte(e) \/ ReadEnd(e) \/ ReadFails(e)
             \/ Write(e) \/ WriteFails(e)

Next ==
  \/ \E e \in Ends : Step(e)
  \/ requestServeDynamic
  \/ CloseConnection
  \/ open_clientfd
  \/ Open_clientfd
  \/ clientPrint
  \/ ClientCloses
  \/ ClientVanishes

(* The network delivers and both programs go on; nobody has to vanish. *)
Fairness ==
  /\ \A e \in Ends : WF_vars(Step(e))
  /\ WF_vars(requestServeDynamic) /\ WF_vars(CloseConnection)
  /\ WF_vars(clientPrint) /\ WF_vars(ClientCloses)

Spec == Init /\ [][Next]_vars /\ Fairness

-----------------------------------------------------------------------------
(* Properties.                                                             *)

TypeOK ==
  /\ request \in Requests
  /\ pc["server"] \in {"no connection", "request line", "headers", "writing", "forking", "waiting",
                       "closed"} \union Failures
  /\ pc["client"] \in {"connecting", "sending", "header", "body", "closing", "closed", "exited",
                       "vanished"}
  /\ DOMAIN pc = Ends
  /\ ended \in [Ends -> {"open", "closed", "reset"}]
  /\ \A f \in {wire, rio, line, buf, left, said} : f \in [Ends -> Bytes]
  /\ heard \in [Ends -> Seq(Bytes)]
  /\ \A e \in Ends : Len(rio[e]) <= RIO_BUFSIZE /\ Len(line[e]) < MAXLINE - 1

(* In whatever pieces the bytes arrive, the lines that Rio_readlineb has   *)
(* returned, with what is in its buffers and on the way, are what the      *)
(* other end has written; and only the last line can be cut short.         *)
StreamsIntact == \A e \in Ends :
  /\ FlattenSeq(heard[e]) \o line[e] \o rio[e] \o wire[e] = said[Peer(e)]
  /\ \A i \in 1 .. Len(heard[e]) - 1 :
       Last(heard[e][i]) = "\n" \/ Len(heard[e][i]) = MAXLINE - 1

(* The lines of a request, and those that an array of MAXLINE holds whole. *)
WellFormed(r) ==
  LET starts == {1} \union {i + 1 : i \in {j \in DOMAIN r.bytes : r.bytes[j] = "\n"}}
  IN /\ Head(r.bytes) = "GET"
     /\ \A i, j \in starts :
          i < j /\ (\A k \in starts : ~(i < k /\ k < j)) => j - i < MAXLINE
     /\ IsSuffix(<<"\n", "\r", "\n">>, r.bytes)
     /\ \A i \in starts : i + 1 < Len(r.bytes) => SubSeq(r.bytes, i, i + 1) # EmptyLine

(* A GET whose lines fit is read to its last byte before it is answered,   *)
(* so that the Close after the response is no reset that destroys it.      *)
ReadBeforeAnswered ==
  /\ WellFormed(request)
  /\ pc["server"] \in {"writing", "forking", "waiting", "closed"}
  /\ pc["client"] # "vanished"
  => FlattenSeq(heard["server"]) = request.bytes

(* client.c ends in order only with a whole response printed, and an       *)
(* error ends it only if it found no server, the server ended or its       *)
(* request was not a GET whose lines fit.                                  *)
ClientHasResponse ==
  /\ pc["client"] = "closed" =>
       \/ pc["server"] \in Failures
       \/ FlattenSeq(heard["client"]) \in
            {requestError, StaticHead \o <<"content">>, DynamicHead,
             DynamicHead \o CgiOutput}
  /\ pc["client"] = "exited" =>
       pc["server"] \in Failures \union {"no connection"} \/ ~WellFormed(request)

(* What a client sends ends the server only in four ways: the client goes  *)
(* away or asks for an empty file; Open or Mmap fails, for a file that may *)
(* be read; Fork fails, for a program that may be run; or a long method or *)
(* name overruns an array.  A file that is missing or may not be read or   *)
(* run never does, and nor does any cut of the bytes.                      *)
ServerSurvives ==
  LET target == requestParseURI(request.uri)
      Found(kinds) ==
        target.filename \in DOMAIN Files /\ Files[target.filename] \in kinds
  IN /\ pc["server"] = "exited" => Gone("client") \/ (target.is_static /\ Found({"empty"}))
     /\ pc["server"] = "Open failed" =>
          target.is_static /\ Found({"file", "program", "empty"})
     /\ pc["server"] = "Fork failed" => ~target.is_static /\ Found({"program"})
     /\ pc["server"] = "overrun" => request.long

(* A client that has sent a GET whose lines fit is done in the end, and so *)
(* is the worker that serves it, even when the client vanishes.            *)
ExchangeEnds ==
  (pc["client"] = "header" /\ WellFormed(request)) ~> (Gone("client") /\ Gone("server"))
=============================================================================
