-------------------------- MODULE LoopbackRedirect --------------------------
(***************************************************************************)
(* OIDRedirectHTTPHandler on its loopback server (macOS): the app starts a *)
(* listener, presents a session with the listener's address as redirect    *)
(* and hands the session to the handler; a request of the browser is       *)
(* queued for the main thread and resumes that session.                    *)
(*                                                                         *)
(* Two things make this hard.  Requests outlive the listener they reached, *)
(* in the main queue and on connections that are not yet closed.  And the  *)
(* session calls the app back from inside the handler's methods, which go  *)
(* on after the app has used the handler again.                            *)
(*                                                                         *)
(* Connections are those of LoopbackConnection, of which only the requests *)
(* they deliver matter here; sessions are those of AuthorizationSession    *)
(* with the Mac agent, whose dismissal is immediate.                       *)
(***************************************************************************)
EXTENDS Naturals, Sequences

CONSTANTS
  Nil,
  Sessions,      \* the sessions the app presents
  MaxListeners,  \* bound: listeners started
  MaxQueue,      \* bound: requests in the main queue
  MaxDepth       \* bound: callbacks inside callbacks

ASSUME BoundsAssumption == MaxListeners \in Nat /\ MaxQueue \in Nat /\ MaxDepth \in Nat

\* The port the app asks for by number.  A random port is known by the number
\* of its listener, which no other has.
FixedPort == 0
Families == {4, 6}

VARIABLES
  started,    \* listeners started so far
  listener,   \* the listening _httpServ, or Nil
  flow,       \* _currentAuthorizationFlow
  pending,    \* session: is its callback still to be called?
  redirect,   \* session: the listener it was presented for, with its address
  told,       \* session: what its callback was called with
  stack,      \* methods of the handler that a callback has interrupted
  queue,      \* requests dispatched to the main queue
  lingering,  \* stopped listeners with a connection that is still open
  lastSet,    \* history: the session the app handed over last
  reentered,  \* history: the app used the handler from inside a callback
  elsewhere,  \* history: sessions that ended by their agent or the app
  raised      \* an exception ended the process

vars == <<started, listener, flow, pending, redirect, told, stack, queue,
          lingering, lastSet, reentered, elsewhere, raised>>
history == <<lastSet, reentered, elsewhere>>

\* The members of a listening TCPServer: which of its two sockets is bound.
Listeners == [id : 1 .. MaxListeners, port : 0 .. MaxListeners,
              sockets : (SUBSET Families) \ {{}}]
Redirects == [id : 1 .. MaxListeners, port : 0 .. MaxListeners, host : Families]

ASSUME NilAssumption == Nil \notin Sessions \cup Redirects

\* A request for the redirect of a session, or (of Nil) for some other page.
Requests == [of : Sessions \cup {Nil}, error : BOOLEAN]
Outcomes == [kind : {"response", "oauthError", "stateMismatch", "ended"},
             of : Sessions \cup {Nil}]
Frames == [kind : {"cancel", "start", "receive"}, fixed : BOOLEAN]

Ended == [kind |-> "ended", of |-> Nil]

Init ==
  /\ started = 0 /\ listener = Nil /\ flow = Nil
  /\ pending = [s \in Sessions |-> FALSE]
  /\ redirect = [s \in Sessions |-> Nil]
  /\ told = [s \in Sessions |-> Nil]
  /\ stack = <<>> /\ queue = <<>> /\ lingering = {}
  /\ lastSet = Nil /\ reentered = FALSE /\ elsewhere = {}
  /\ raised = FALSE

\* The session's callback is called, at once.
Tell(s, outcome) ==
  /\ told' = [told EXCEPT ![s] = outcome]
  /\ pending' = [pending EXCEPT ![s] = FALSE]

Waiting == flow # Nil /\ pending[flow]

\* The app acts between blocks, or from the callback that interrupts a method.
Reenters == reentered' = (reentered \/ stack # <<>>)

Interrupted(frame) == stack' = Append(stack, frame)
-----------------------------------------------------------------------------
(* The server. *)

\* stop, with the release of the server: a connection with requests that are
\* not yet answered stays, others are closed.
Released ==
  IF listener = Nil THEN UNCHANGED lingering
  ELSE lingering' \in {lingering, lingering \cup {listener.id}}

StopListening == listener' = Nil /\ Released

\* Mutant: the server goes on without the IPv4 socket under its address.
MislabelledAddress(l) == [id |-> l.id, port |-> l.port, host |-> 4]

\* Mutant: no address for a server that has the IPv6 socket only.
HostlessAddress(l) ==
  [id |-> l.id, port |-> l.port, host |-> IF 4 \in l.sockets THEN 4 ELSE Nil]

\* startHTTPListener: returns the IPv4 address if it can.
Address(l) ==
  [id |-> l.id, port |-> l.port, host |-> IF 4 \in l.sockets THEN 4 ELSE 6]

\* start:, on a random or the fixed port.  Either socket may fail to bind, and
\* the server goes on with the other one; with neither it is no listener.
StartListening(fixed) ==
  /\ started < MaxListeners
  /\ started' = started + 1
  /\ \E sockets \in SUBSET Families :
       listener' = IF sockets = {} THEN Nil
                   ELSE [id |-> started + 1, sockets |-> sockets,
                         port |-> IF fixed THEN FixedPort ELSE started + 1]
-----------------------------------------------------------------------------
(* The handler, called by the app. *)

\* cancelHTTPListener stops, fails the flow and forgets it.  A flow that waits
\* for its redirect calls the app before the method goes on.
FailFlow(frame) ==
  /\ Waiting /\ Len(stack) < MaxDepth
  /\ StopListening
  /\ Tell(flow, Ended)
  /\ Interrupted(frame)
  /\ UNCHANGED <<started, flow>>

CancelHTTPListener ==
  /\ \/ FailFlow([kind |-> "cancel", fixed |-> FALSE])
     \/ /\ ~ Waiting
        /\ StopListening
        /\ flow' = Nil
        /\ UNCHANGED <<started, pending, told, stack>>
  /\ Reenters
  /\ UNCHANGED <<redirect, queue, lastSet, elsewhere, raised>>

\* startHTTPListener:withPort: cancels first.
StartHTTPListener(fixed) ==
  /\ started + Len(stack) < MaxListeners
  /\ \/ FailFlow([kind |-> "start", fixed |-> fixed])
     \/ /\ ~ Waiting
        /\ Released
        /\ flow' = Nil
        /\ StartListening(fixed)
        /\ UNCHANGED <<pending, told, stack>>
  /\ Reenters
  /\ UNCHANGED <<redirect, queue, lastSet, elsewhere, raised>>

\* The app presents a session for the listener, and hands it over.
Present(s) ==
  /\ redirect[s] = Nil /\ listener # Nil
  /\ pending' = [pending EXCEPT ![s] = TRUE]
  /\ redirect' = [redirect EXCEPT ![s] = Address(listener)]
  /\ UNCHANGED <<started, listener, flow, told, stack, queue, lingering, history,
                 raised>>

\* The session may be over by then, if its presentation failed at once.
SetCurrentAuthorizationFlow(s) ==
  /\ redirect[s] # Nil /\ listener # Nil /\ redirect[s].id = listener.id
  /\ flow' = s /\ lastSet' = s
  /\ Reenters
  /\ UNCHANGED <<started, listener, pending, redirect, told, stack, queue,
                 lingering, elsewhere, raised>>

\* The app cancels the session, or the user closes its window: the handler is
\* not told.
EndsElsewhere(s) ==
  /\ pending[s]
  /\ Tell(s, Ended)
  /\ elsewhere' = elsewhere \cup {s}
  /\ UNCHANGED <<started, listener, flow, redirect, stack, queue, lingering,
                 lastSet, reentered, raised>>
-----------------------------------------------------------------------------
(* The browser. *)

\* An address leads to the listening server, or on a connection that is still
\* open to one that has stopped.
Reachable(port, host) ==
  \/ listener # Nil /\ listener.port = port /\ host \in listener.sockets
  \/ \E id \in lingering : port \in {FixedPort, id}

\* A redirect of a session that was presented, in time, late or once more.
BrowserRedirects(s) ==
  /\ Len(queue) < MaxQueue
  /\ redirect[s] # Nil /\ Reachable(redirect[s].port, redirect[s].host)
  /\ \E error \in BOOLEAN : queue' = Append(queue, [of |-> s, error |-> error])
  /\ UNCHANGED <<started, listener, flow, pending, redirect, told, stack,
                 lingering, history, raised>>

\* A request for a page that is not the redirect's.
BrowserRequests ==
  /\ Len(queue) < MaxQueue
  /\ listener # Nil \/ lingering # {}
  /\ queue' = Append(queue, [of |-> Nil, error |-> FALSE])
  /\ UNCHANGED <<started, listener, flow, pending, redirect, told, stack,
                 lingering, history, raised>>

ConnectionCloses(id) ==
  /\ id \in lingering
  /\ lingering' = lingering \ {id}
  /\ UNCHANGED <<started, listener, flow, pending, redirect, told, stack, queue,
                 history, raised>>
-----------------------------------------------------------------------------
(* The handler, called by a connection, on the main queue. *)

\* Mutant: any port will do.
PortlessMatches(s, q) == q.of # Nil

\* Mutant: the redirect to the IPv6 address is not recognised.
IPv4Matches(s, q) ==
  q.of # Nil /\ redirect[q.of].port = redirect[s].port /\ redirect[s].host = 4

\* The session's URL:matchesRedirectionURL:.
Matches(s, q) ==
  /\ q.of # Nil
  /\ redirect[q.of].port = redirect[s].port
  /\ redirect[q.of].host = redirect[s].host

Outcome(s, q) ==
  [kind |-> IF q.error THEN "oauthError"
            ELSE IF q.of = s THEN "response" ELSE "stateMismatch", of |-> q.of]

\* HTTPConnection:didReceiveRequest: answers a request that is not the flow's
\* redirect with an error page; a flow that is over raises; a flow that waits is
\* resumed and calls the app before the method goes on.
DidReceiveRequest ==
  LET q == Head(queue)
      handles == IF flow = Nil THEN FALSE ELSE Matches(flow, q) IN
  /\ queue # <<>> /\ stack = <<>>
  /\ queue' = Tail(queue)
  /\ \/ /\ ~ handles
        /\ UNCHANGED <<pending, told, stack, raised>>
     \/ /\ handles /\ ~ pending[flow]
        /\ raised' = TRUE
        /\ UNCHANGED <<pending, told, stack>>
     \/ /\ handles /\ pending[flow]
        /\ Tell(flow, Outcome(flow, q))
        /\ Interrupted([kind |-> "receive", fixed |-> FALSE])
        /\ UNCHANGED raised
  /\ UNCHANGED <<started, listener, flow, redirect, lingering, history>>
-----------------------------------------------------------------------------
(* The callback returns, and the interrupted method goes on: it forgets the  *)
(* flow and, after a request, stops the listener, whichever they now are.    *)

Top == stack[Len(stack)]

\* Mutant: the flow is not forgotten.
RememberingReturn ==
  /\ stack # <<>>
  /\ stack' = SubSeq(stack, 1, Len(stack) - 1)
  /\ UNCHANGED flow
  /\ \/ Top.kind = "cancel" /\ UNCHANGED <<started, listener, lingering>>
     \/ Top.kind = "receive" /\ StopListening /\ UNCHANGED started
     \/ Top.kind = "start" /\ StartListening(Top.fixed) /\ Released
  /\ UNCHANGED <<pending, redirect, told, queue, history, raised>>

CallbackReturns ==
  /\ stack # <<>>
  /\ stack' = SubSeq(stack, 1, Len(stack) - 1)
  /\ flow' = Nil
  /\ \/ Top.kind = "cancel" /\ UNCHANGED <<started, listener, lingering>>
     \/ Top.kind = "receive" /\ StopListening /\ UNCHANGED started
     \/ Top.kind = "start" /\ StartListening(Top.fixed) /\ Released
  /\ UNCHANGED <<pending, redirect, told, queue, history, raised>>
-----------------------------------------------------------------------------
App ==
  \/ CancelHTTPListener
  \/ \E fixed \in BOOLEAN : StartHTTPListener(fixed)
  \/ \E s \in Sessions : Present(s) \/ SetCurrentAuthorizationFlow(s)
                         \/ EndsElsewhere(s)
Browser ==
  \/ \E s \in Sessions : BrowserRedirects(s)
  \/ BrowserRequests
  \/ \E id \in 1 .. MaxListeners : ConnectionCloses(id)
Handler == DidReceiveRequest \/ CallbackReturns

Next == ~ raised /\ (App \/ Browser \/ Handler)

\* The main queue runs, and callbacks return.
Spec == Init /\ [][Next]_vars
FairSpec == Spec /\ WF_vars(~ raised /\ Handler)
-----------------------------------------------------------------------------
TypeOK ==
  /\ started \in 0 .. MaxListeners
  /\ listener \in Listeners \cup {Nil}
  /\ flow \in Sessions \cup {Nil} /\ lastSet \in Sessions \cup {Nil}
  /\ pending \in [Sessions -> BOOLEAN]
  /\ redirect \in [Sessions -> Redirects \cup {Nil}]
  /\ told \in [Sessions -> Outcomes \cup {Nil}]
  /\ stack \in Seq(Frames) /\ queue \in Seq(Requests)
  /\ lingering \subseteq 1 .. MaxListeners
  /\ reentered \in BOOLEAN /\ raised \in BOOLEAN
  /\ elsewhere \subseteq Sessions

\* While the session the app handed over waits, the handler has it and listens at
\* the address its redirect leads to, whatever requests of earlier listeners run
\* in between, as long as the app does not use the handler from inside a callback.
FlowServed ==
  ~ reentered =>
    \A s \in Sessions : lastSet = s /\ pending[s] =>
      /\ flow = s
      /\ listener # Nil /\ listener.id = redirect[s].id
      /\ redirect[s].host \in listener.sockets

\* The redirect of another session ends a session only if the two were presented
\* for one listener, or the app asked for a fixed port, and never as a response:
\* late requests and connections do not reach the next flow.
OtherRedirectsStayOut ==
  \A s \in Sessions :
    told[s] # Nil /\ told[s].of \notin {s, Nil} =>
      /\ told[s].kind # "response"
      /\ \/ redirect[s].id = redirect[told[s].of].id
         \/ redirect[s].port = FixedPort

\* The exception of resumeExternalUserAgentFlowWithURL: meets only a flow that
\* ended by its agent or the app: what the handler ends, it forgets in time.
RaisesOnlyIfEndedElsewhere == raised => flow \in elsewhere

\* The redirect of the flow, once queued, ends it.
RedirectEndsFlow ==
  \A s \in Sessions :
    (flow = s /\ \E i \in DOMAIN queue : queue[i].of = s)
      ~> (~ pending[s] \/ lastSet # s \/ reentered)
=============================================================================
