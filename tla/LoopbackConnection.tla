------------------------- MODULE LoopbackConnection -------------------------
(***************************************************************************)
(* One HTTPConnection of the loopback server (OIDLoopbackHTTPServer.m): a  *)
(* browser sends requests, in one go or in pieces, and reads the responses *)
(* as slowly as it likes; the connection splits and joins, queues the      *)
(* requests for the main thread, and writes the responses out in order.    *)
(*                                                                         *)
(* Bytes come in pieces.  A request is RequestLength pieces, and what is   *)
(* read is known by its number; pieces of responses are told apart.        *)
(* Requests are numbered as they come.  Everything on this side is events  *)
(* and blocks of the main thread.                                          *)
(*                                                                         *)
(* Left out: response body streams, which nothing sets, and the headers.   *)
(***************************************************************************)
EXTENDS Naturals, Sequences

CONSTANTS
  MaxRequests,     \* bound: requests the browser sends on the connection
  RequestLength,   \* pieces of a request
  ResponseLength,  \* pieces of a serialized response
  StreamSpace      \* pieces the output stream takes before the browser reads

ASSUME SizesAssumption ==
  /\ MaxRequests \in Nat
  /\ RequestLength \in Nat \ {0}
  /\ ResponseLength \in Nat \ {0}
  /\ StreamSpace \in Nat \ {0}

VARIABLES
  conn,        \* the members of the HTTPConnection, see Connections
  output,      \* its output stream
  browser,     \* what the browser has sent, and how much is yet to be read
  processing,  \* the loop around processIncomingBytes is running
  queue,       \* blocks dispatched to the main queue, by their request
  server,      \* the HTTPServer still holds the connection
  delegate,    \* the connection's delegate, held weakly, is there
  finished     \* history: requests removed as answered

vars == <<conn, output, browser, processing, queue, server, delegate, finished>>

RequestIds == 1 .. MaxRequests
Pieces == RequestIds \X (1 .. ResponseLength)
Response(r) == [k \in 1 .. ResponseLength |-> <<r, k>>]

\* The members that change.  parsed counts the requests read; answered are
\* those whose HTTPServerRequest has a response; atEnd is the istream's status.
Connections ==
  [isValid : BOOLEAN, firstResponseDone : BOOLEAN,
   ibuffer : Nat, obuffer : Seq(Pieces),
   requests : Seq(RequestIds), parsed : 0 .. MaxRequests,
   answered : SUBSET RequestIds, atEnd : BOOLEAN]

\* hasSpace stands for an event that is yet to be delivered: there is one when
\* the stream opens, and one after each write.
OutputStreams ==
  [status : {"open", "reset", "error"}, space : 0 .. StreamSpace,
   hasSpace : BOOLEAN, wire : Seq(Pieces)]

Init ==
  /\ conn = [isValid |-> TRUE, firstResponseDone |-> FALSE, ibuffer |-> 0,
             obuffer |-> <<>>, requests |-> <<>>, parsed |-> 0,
             answered |-> {}, atEnd |-> FALSE]
  /\ output = [status |-> "open", space |-> StreamSpace, hasSpace |-> TRUE,
               wire |-> <<>>]
  /\ browser = [sent |-> 0, unread |-> 0, ended |-> FALSE]
  /\ processing = FALSE
  /\ queue = <<>>
  /\ server = TRUE /\ delegate = TRUE
  /\ finished = 0
-----------------------------------------------------------------------------
(* Writing.  A sending is a connection with its stream and what it removed. *)

Sending == [c |-> conn, out |-> output, finished |-> finished]

Invalidated(c) ==
  [c EXCEPT !.isValid = FALSE, !.ibuffer = 0, !.obuffer = <<>>, !.requests = <<>>]

HasSpaceAvailable(x) ==
  /\ x.c.isValid
  /\ \/ x.out.status = "open" /\ x.out.space > 0
     \/ x.out.status = "reset"

Least(m, n) == IF m < n THEN m ELSE n

\* What write:maxLength: is taken to have written.  A full stream waits for the
\* browser to read a piece; a broken one returns -1, which as an unsigned number
\* is not less than any length (lines 209, 211, 234, 235).
Written(x, bytes) ==
  IF x.out.status # "open" THEN Len(bytes)
  ELSE Least(Len(bytes), IF x.out.space = 0 THEN 1 ELSE x.out.space)

\* Mutant: the unwritten rest is not kept.
LosingWrite(x, bytes) ==
  LET n == Written(x, bytes) IN
  IF x.out.status # "open"
  THEN [x EXCEPT !.c.obuffer = <<>>, !.out.status = "error"]
  ELSE [x EXCEPT !.c.obuffer = <<>>,
                 !.out.wire = @ \o SubSeq(bytes, 1, n),
                 !.out.space = IF @ < n THEN 0 ELSE @ - n,
                 !.out.hasSpace = TRUE]

\* The unwritten rest is kept in obuffer.
Write(x, bytes) ==
  LET n == Written(x, bytes) IN
  IF x.out.status # "open"
  THEN [x EXCEPT !.c.obuffer = <<>>, !.out.status = "error"]
  ELSE [x EXCEPT !.c.obuffer = SubSeq(bytes, n + 1, Len(bytes)),
                 !.out.wire = @ \o SubSeq(bytes, 1, n),
                 !.out.space = IF @ < n THEN 0 ELSE @ - n,
                 !.out.hasSpace = TRUE]

\* The first request has its response.
Ready(x) ==
  x.c.requests # <<>> /\ Head(x.c.requests) \in x.c.answered

Drain(x) == IF x.c.obuffer = <<>> THEN x ELSE Write(x, x.c.obuffer)

\* Mutant: a response is serialized again when the stream has space again.
RepeatingSerialize(x) ==
  Write([x EXCEPT !.c.firstResponseDone = TRUE], Response(Head(x.c.requests)))

Serialize(x) ==
  IF x.c.firstResponseDone THEN x
  ELSE Write([x EXCEPT !.c.firstResponseDone = TRUE],
             Response(Head(x.c.requests)))

\* Mutant: a response that is out stays first in line.
LeavingRemove(x) ==
  [x EXCEPT !.c.firstResponseDone = FALSE, !.finished = @ + 1]

\* The response is out.  At the end of the input that was all.
Remove(x) ==
  LET removed == [x EXCEPT !.c.requests = Tail(@),
                           !.c.firstResponseDone = FALSE,
                           !.finished = @ + 1] IN
  IF x.c.atEnd /\ removed.c.requests = <<>>
  THEN [removed EXCEPT !.c = Invalidated(@)]
  ELSE removed

\* processOutgoingBytes: what was left, then the first request's response if it
\* has one, and no more than that.
ProcessOutgoing(x) ==
  IF ~ HasSpaceAvailable(x) THEN x
  ELSE IF Drain(x).c.obuffer # <<>> \/ ~ Ready(Drain(x)) THEN Drain(x)
  ELSE IF Serialize(Drain(x)).c.obuffer # <<>> THEN Serialize(Drain(x))
  ELSE Remove(Serialize(Drain(x)))

\* setResponse:
Respond(x, r) == ProcessOutgoing([x EXCEPT !.c.answered = @ \cup {r}])
-----------------------------------------------------------------------------
(* A connection that neither the server nor one of its requests, listed or   *)
(* queued, holds is deallocated, which invalidates it.                       *)
Settled(c, held, blocks) ==
  IF held \/ c.requests # <<>> \/ blocks # <<>> THEN c ELSE Invalidated(c)

Becomes(x, held, blocks) ==
  /\ conn' = Settled(x.c, held, blocks)
  /\ output' = x.out
  /\ finished' = x.finished

\* The main thread is not inside the loop around processIncomingBytes.
MainIdle == ~ processing
-----------------------------------------------------------------------------
(* The browser. *)

BrowserSends ==
  /\ browser.sent < MaxRequests * RequestLength
  /\ ~ browser.ended
  /\ browser' = [browser EXCEPT !.sent = @ + 1, !.unread = @ + 1]
  /\ UNCHANGED <<conn, output, processing, queue, server, delegate, finished>>

BrowserEnds ==
  /\ ~ browser.ended
  /\ browser' = [browser EXCEPT !.ended = TRUE]
  /\ UNCHANGED <<conn, output, processing, queue, server, delegate, finished>>

BrowserReads ==
  /\ output.status = "open" /\ output.space < StreamSpace
  /\ output' = [output EXCEPT !.space = @ + 1]
  /\ UNCHANGED <<conn, browser, processing, queue, server, delegate, finished>>

\* The browser goes away: what the stream is given no longer arrives.
BrowserResets ==
  /\ output.status = "open"
  /\ output' = [output EXCEPT !.status = "reset"]
  /\ browser' = [browser EXCEPT !.ended = TRUE]
  /\ UNCHANGED <<conn, processing, queue, server, delegate, finished>>
-----------------------------------------------------------------------------
(* stream:handleEvent: *)

HasBytesAvailable ==
  /\ MainIdle /\ conn.isValid /\ browser.unread > 0
  /\ conn' = [conn EXCEPT !.ibuffer = @ + browser.unread]
  /\ browser' = [browser EXCEPT !.unread = 0]
  /\ processing' = TRUE
  /\ UNCHANGED <<output, queue, server, delegate, finished>>

\* Mutant: without a delegate the request is listed and left there.
SilentProcessIncomingBytes ==
  LET r == conn.parsed + 1
      x == [Sending EXCEPT !.c.ibuffer = @ - RequestLength,
                           !.c.requests = Append(@, r),
                           !.c.parsed = r] IN
  /\ processing
  /\ conn.isValid /\ conn.ibuffer >= RequestLength /\ conn.parsed < MaxRequests
  /\ queue' = IF delegate THEN Append(queue, r) ELSE queue
  /\ Becomes(x, server, queue')
  /\ UNCHANGED <<browser, processing, server, delegate>>

\* processIncomingBytes returns YES.  The delegate is called later on the main
\* thread; without one the request is answered at once with an error.
ProcessIncomingBytes ==
  LET r == conn.parsed + 1
      x == [Sending EXCEPT !.c.ibuffer = @ - RequestLength,
                           !.c.requests = Append(@, r),
                           !.c.parsed = r] IN
  /\ processing
  /\ conn.isValid /\ conn.ibuffer >= RequestLength /\ conn.parsed < MaxRequests
  /\ \/ /\ delegate
        /\ queue' = Append(queue, r)
        /\ Becomes(x, server, queue')
     \/ /\ ~ delegate
        /\ Becomes(Respond(x, r), server, queue)
        /\ UNCHANGED queue
  /\ UNCHANGED <<browser, processing, server, delegate>>

\* It returns NO, and the handler of the event ends.
IncomingBytesProcessed ==
  /\ processing
  /\ ~ conn.isValid \/ conn.ibuffer < RequestLength
  /\ processing' = FALSE
  /\ UNCHANGED <<conn, output, browser, queue, server, delegate, finished>>

\* Mutant: the event of free space is not acted on.
DeafHasSpace ==
  /\ MainIdle /\ conn.isValid
  /\ output.hasSpace /\ output.status = "open" /\ output.space > 0
  /\ output' = [output EXCEPT !.hasSpace = FALSE]
  /\ UNCHANGED <<conn, browser, processing, queue, server, delegate, finished>>

HasSpace ==
  /\ MainIdle /\ conn.isValid
  /\ output.hasSpace /\ output.status = "open" /\ output.space > 0
  /\ Becomes(ProcessOutgoing([Sending EXCEPT !.out.hasSpace = FALSE]), server, queue)
  /\ UNCHANGED <<browser, processing, queue, server, delegate>>

\* The end of the input.  No complete request is left in ibuffer.
InputEnds ==
  /\ MainIdle /\ conn.isValid /\ ~ conn.atEnd
  /\ browser.ended /\ browser.unread = 0
  /\ conn' = [conn EXCEPT !.atEnd = TRUE]
  /\ UNCHANGED <<output, browser, processing, queue, server, delegate, finished>>

\* The end of the output abandons the connection ...
OutputEnds ==
  /\ MainIdle /\ conn.isValid /\ output.status = "reset"
  /\ conn' = Invalidated(conn)
  /\ UNCHANGED <<output, browser, processing, queue, server, delegate, finished>>

\* ... while an error is only logged.
OutputError ==
  /\ MainIdle /\ conn.isValid /\ output.status = "reset"
  /\ output' = [output EXCEPT !.status = "error"]
  /\ UNCHANGED <<conn, browser, processing, queue, server, delegate, finished>>
-----------------------------------------------------------------------------
(* The delegate and the server, OIDRedirectHTTPHandler's. *)

\* HTTPConnection:didReceiveRequest: answers the request, and may stop the
\* server, which releases the connection.
DidReceiveRequest ==
  /\ MainIdle /\ queue # <<>>
  /\ server' \in {server, FALSE}
  /\ queue' = Tail(queue)
  /\ Becomes(Respond(Sending, Head(queue)), server', queue')
  /\ UNCHANGED <<browser, processing, delegate>>

ServerStops ==
  /\ MainIdle /\ server
  /\ server' = FALSE
  /\ Becomes(Sending, FALSE, queue)
  /\ UNCHANGED <<browser, processing, queue, delegate>>

\* The handler is deallocated, after its server; a queued block would hold it.
DelegateGoes ==
  /\ MainIdle /\ delegate /\ ~ server /\ queue = <<>>
  /\ delegate' = FALSE
  /\ UNCHANGED <<conn, output, browser, processing, queue, server, finished>>
-----------------------------------------------------------------------------
Browser == BrowserSends \/ BrowserEnds \/ BrowserReads \/ BrowserResets
Events ==
  \/ HasBytesAvailable \/ ProcessIncomingBytes \/ IncomingBytesProcessed
  \/ HasSpace \/ InputEnds \/ OutputEnds \/ OutputError
  \/ DidReceiveRequest
Next == Browser \/ Events \/ ServerStops \/ DelegateGoes

\* The run loop delivers events and blocks; the browser reads what it asked for.
Spec == Init /\ [][Next]_vars
FairSpec == Spec /\ WF_vars(Events) /\ WF_vars(BrowserReads)
-----------------------------------------------------------------------------
TypeOK ==
  /\ conn \in Connections
  /\ output \in OutputStreams
  /\ browser \in [sent : Nat, unread : Nat, ended : BOOLEAN]
  /\ processing \in BOOLEAN
  /\ queue \in Seq(RequestIds)
  /\ server \in BOOLEAN /\ delegate \in BOOLEAN
  /\ finished \in 0 .. MaxRequests

\* What is written out and what is buffered are the responses of the requests
\* finished and of the one in progress, from the first byte to the last: no
\* partial write loses, repeats or cuts one (memmove and setLength of lines
\* 207-278).  Only a write on a broken stream counts as one without being one.
ResponsesWhole ==
  output.status # "error" /\ conn.isValid =>
    Len(output.wire) + Len(conn.obuffer)
      = ResponseLength * (finished + IF conn.firstResponseDone THEN 1 ELSE 0)

\* The connection keeps what HTTPExchange promises the browser.
Exchange ==
  INSTANCE HTTPExchange WITH asked <- conn.parsed, answered <- conn.answered,
                             received <- output.wire, open <- conn.isValid
ExchangeKept == Exchange!ExchangeSpec

\* A request that was answered is sent out whole, however slowly the browser
\* reads and however many are set at once, if the browser stays: each write
\* leaves an event behind that sends the next.
AnswersArrive ==
  \A r \in RequestIds :
    r \in conn.answered ~> finished >= r \/ ~ conn.isValid \/ output.status = "error"

\* A connection the stopped server no longer holds is closed once its requests
\* are answered, and does not keep itself alive (each listed request holds its
\* connection, which holds its list).
ReleasedCloses == ~ server ~> ~ conn.isValid \/ output.status = "error"
=============================================================================
