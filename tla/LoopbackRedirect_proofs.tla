----------------------- MODULE LoopbackRedirect_proofs -----------------------
(***************************************************************************)
(* Proofs about LoopbackRedirect, for any number of sessions, listeners,   *)
(* queued requests and callbacks inside callbacks.                         *)
(***************************************************************************)
EXTENDS LoopbackRedirect, SequenceTheorems, TLAPS

-----------------------------------------------------------------------------
(* Type correctness. *)

LEMMA AddressTyped ==
  ASSUME NEW l \in Listeners
  PROVE  Address(l) \in Redirects /\ Address(l).host \in l.sockets
<1>1. /\ l.id \in 1 .. MaxListeners /\ l.port \in 0 .. MaxListeners
      /\ l.sockets \in SUBSET Families /\ l.sockets # {}
  BY DEF Listeners
<1>2. PICK f \in Families : f \in l.sockets
  BY <1>1
<1>3. 4 \in l.sockets \/ 6 \in l.sockets
  BY <1>2 DEF Families
<1> QED BY <1>1, <1>3 DEF Address, Redirects, Families

LEMMA StartTyped ==
  ASSUME TypeOK, NEW fixed \in BOOLEAN, StartListening(fixed)
  PROVE  /\ started' \in 0 .. MaxListeners /\ started' = started + 1
         /\ listener' \in Listeners \cup {Nil}
         /\ listener' # Nil => /\ listener'.id = started'
                               /\ listener'.port \in {FixedPort, listener'.id}
<1>1. started \in 0 .. MaxListeners /\ started < MaxListeners /\ started' = started + 1
  BY DEF TypeOK, StartListening
<1>2. started' \in 1 .. MaxListeners
  BY <1>1, BoundsAssumption
<1>3. PICK sockets \in SUBSET Families :
        listener' = IF sockets = {} THEN Nil
                    ELSE [id |-> started + 1, sockets |-> sockets,
                          port |-> IF fixed THEN FixedPort ELSE started + 1]
  BY DEF StartListening
<1>4. CASE sockets # {}
  <2>1. /\ listener' = [id |-> started', sockets |-> sockets, port |-> listener'.port]
        /\ listener'.port \in {0, started'} /\ listener'.id = started'
    BY <1>1, <1>3, <1>4 DEF FixedPort
  <2>2. sockets \in (SUBSET Families) \ {{}} /\ listener'.port \in 0 .. MaxListeners
    BY <1>2, <1>4, <2>1, BoundsAssumption
  <2>3. listener' \in Listeners
    BY <1>2, <2>1, <2>2 DEF Listeners
  <2> QED BY <1>1, <1>2, <2>1, <2>3, BoundsAssumption DEF FixedPort
<1> QED BY <1>1, <1>2, <1>3, <1>4, BoundsAssumption

LEMMA ReleasedTyped ==
  ASSUME TypeOK, Released
  PROVE  lingering' \subseteq 1 .. MaxListeners
  BY DEF Released, TypeOK, Listeners

LEMMA TellTyped ==
  ASSUME TypeOK, NEW s \in Sessions, NEW o \in Outcomes, Tell(s, o)
  PROVE  pending' \in [Sessions -> BOOLEAN] /\ told' \in [Sessions -> Outcomes \cup {Nil}]
  BY DEF Tell, TypeOK

LEMMA OutcomeTyped ==
  ASSUME NEW s, NEW q \in Requests
  PROVE  Outcome(s, q) \in Outcomes /\ Ended \in Outcomes
  BY DEF Outcome, Outcomes, Requests, Ended

\* Failing the flow, for a cancel or a start.
LEMMA FailFlowTyped ==
  ASSUME TypeOK, NEW frame \in Frames, FailFlow(frame)
  PROVE  /\ pending' \in [Sessions -> BOOLEAN] /\ told' \in [Sessions -> Outcomes \cup {Nil}]
         /\ stack' \in Seq(Frames) /\ listener' = Nil
         /\ lingering' \subseteq 1 .. MaxListeners
         /\ UNCHANGED <<started, flow>>
<1>1. flow \in Sessions /\ Ended \in Outcomes
  BY DEF FailFlow, Waiting, TypeOK, Ended, Outcomes
<1>2. stack' \in Seq(Frames)
  BY DEF FailFlow, Interrupted, TypeOK
<1> QED BY <1>1, <1>2, ReleasedTyped, TellTyped DEF FailFlow, StopListening

LEMMA InitTyped == Init => TypeOK
<1> SUFFICES ASSUME Init PROVE TypeOK
  OBVIOUS
<1>1. stack \in Seq(Frames) /\ queue \in Seq(Requests)
  BY DEF Init
<1>2. started \in 0 .. MaxListeners
  BY BoundsAssumption DEF Init
<1>3. /\ pending \in [Sessions -> BOOLEAN] /\ redirect \in [Sessions -> Redirects \cup {Nil}]
      /\ told \in [Sessions -> Outcomes \cup {Nil}]
  BY DEF Init
<1> QED BY <1>1, <1>2, <1>3 DEF Init, TypeOK

LEMMA HeadAndTail ==
  ASSUME TypeOK, queue # <<>>
  PROVE  Head(queue) \in Requests /\ Tail(queue) \in Seq(Requests)
  BY DEF TypeOK

LEMMA TopTyped ==
  ASSUME TypeOK, stack # <<>>
  PROVE  Top \in Frames /\ SubSeq(stack, 1, Len(stack) - 1) \in Seq(Frames)
  BY DEF TypeOK, Top

LEMMA FramesTyped ==
  \A fixed \in BOOLEAN, kind \in {"cancel", "start", "receive"} :
    [kind |-> kind, fixed |-> fixed] \in Frames
  BY DEF Frames

LEMMA StepTyped == TypeOK /\ [Next]_vars => TypeOK'
<1> SUFFICES ASSUME TypeOK, [Next]_vars PROVE TypeOK'
  OBVIOUS
<1>1. CASE CancelHTTPListener
  <2>1. CASE FailFlow([kind |-> "cancel", fixed |-> FALSE])
    <3>1. [kind |-> "cancel", fixed |-> FALSE] \in Frames
      BY FramesTyped
    <3> QED BY <1>1, <2>1, <3>1, FailFlowTyped DEF CancelHTTPListener, Reenters, TypeOK
  <2>2. CASE StopListening /\ flow' = Nil /\ UNCHANGED <<started, pending, told, stack>>
    BY <1>1, <2>2, ReleasedTyped DEF CancelHTTPListener, StopListening, Reenters, TypeOK
  <2> QED BY <1>1, <2>1, <2>2 DEF CancelHTTPListener
<1>2. ASSUME NEW fixed \in BOOLEAN, StartHTTPListener(fixed) PROVE TypeOK'
  <2>1. CASE FailFlow([kind |-> "start", fixed |-> fixed])
    <3>1. [kind |-> "start", fixed |-> fixed] \in Frames
      BY FramesTyped
    <3> QED BY <1>2, <2>1, <3>1, FailFlowTyped DEF StartHTTPListener, Reenters, TypeOK
  <2>2. CASE /\ Released /\ flow' = Nil /\ StartListening(fixed)
             /\ UNCHANGED <<pending, told, stack>>
    BY <1>2, <2>2, ReleasedTyped, StartTyped DEF StartHTTPListener, Reenters, TypeOK
  <2> QED BY <1>2, <2>1, <2>2 DEF StartHTTPListener
<1>3. ASSUME NEW s \in Sessions, Present(s) PROVE TypeOK'
  <2>1. Address(listener) \in Redirects
    BY <1>3, AddressTyped DEF Present, TypeOK
  <2> QED BY <1>3, <2>1 DEF Present, history, TypeOK
<1>4. ASSUME NEW s \in Sessions, SetCurrentAuthorizationFlow(s) PROVE TypeOK'
  BY <1>4 DEF SetCurrentAuthorizationFlow, Reenters, TypeOK
<1>5. ASSUME NEW s \in Sessions, EndsElsewhere(s) PROVE TypeOK'
  <2>1. Ended \in Outcomes
    BY DEF Ended, Outcomes
  <2> QED BY <1>5, <2>1, TellTyped DEF EndsElsewhere, TypeOK
<1>6. ASSUME NEW q \in Requests, queue' = Append(queue, q),
             UNCHANGED <<started, listener, flow, pending, redirect, told, stack,
                         lingering, history, raised>>
      PROVE  TypeOK'
  <2>1. queue' \in Seq(Requests)
    BY <1>6 DEF TypeOK
  <2> QED BY <1>6, <2>1 DEF history, TypeOK
<1>7. ASSUME NEW s \in Sessions, BrowserRedirects(s) PROVE TypeOK'
  BY <1>6, <1>7 DEF BrowserRedirects, Requests
<1>8. CASE BrowserRequests
  BY <1>6, <1>8 DEF BrowserRequests, Requests
<1>9. ASSUME NEW id \in 1 .. MaxListeners, ConnectionCloses(id) PROVE TypeOK'
  BY <1>9 DEF ConnectionCloses, history, TypeOK
<1>10. CASE DidReceiveRequest
  <2> DEFINE q == Head(queue)
  <2>1. q \in Requests /\ queue' \in Seq(Requests)
    BY <1>10, HeadAndTail DEF DidReceiveRequest
  <2>2. /\ UNCHANGED <<started, listener, flow, redirect, lingering, history>>
        /\ raised' \in BOOLEAN
        /\ \/ UNCHANGED <<pending, told, stack>>
           \/ /\ flow # Nil /\ Tell(flow, Outcome(flow, q))
              /\ stack' = Append(stack, [kind |-> "receive", fixed |-> FALSE])
    BY <1>10 DEF DidReceiveRequest, Interrupted, TypeOK
  <2> HIDE DEF q
  <2>3. CASE /\ flow # Nil /\ Tell(flow, Outcome(flow, q))
             /\ stack' = Append(stack, [kind |-> "receive", fixed |-> FALSE])
    <3>1. [kind |-> "receive", fixed |-> FALSE] \in Frames /\ stack \in Seq(Frames)
      BY FramesTyped DEF TypeOK
    <3>2. stack' \in Seq(Frames)
      BY <2>3, <3>1
    <3>3. flow \in Sessions /\ Outcome(flow, q) \in Outcomes
      BY <2>1, <2>3, OutcomeTyped DEF TypeOK
    <3> QED BY <2>1, <2>2, <2>3, <3>2, <3>3, TellTyped DEF history, TypeOK
  <2> QED BY <2>1, <2>2, <2>3 DEF history, TypeOK
<1>11. CASE CallbackReturns
  <2>1. stack' \in Seq(Frames) /\ flow' = Nil
    BY <1>11, TopTyped DEF CallbackReturns
  <2>2. /\ started' \in 0 .. MaxListeners /\ listener' \in Listeners \cup {Nil}
        /\ lingering' \subseteq 1 .. MaxListeners
    <3>1. CASE UNCHANGED <<started, listener, lingering>>
      BY <3>1 DEF TypeOK
    <3>2. CASE StopListening /\ UNCHANGED started
      BY <3>2, ReleasedTyped DEF StopListening, TypeOK
    <3>3. CASE StartListening(Top.fixed) /\ Released
      <4>1. Top.fixed \in BOOLEAN
        BY <1>11, TopTyped DEF CallbackReturns, Frames
      <4> QED BY <3>3, <4>1, ReleasedTyped, StartTyped
    <3> QED BY <1>11, <3>1, <3>2, <3>3 DEF CallbackReturns
  <2> QED BY <1>11, <2>1, <2>2 DEF CallbackReturns, history, TypeOK
<1>12. CASE UNCHANGED vars
  BY <1>12 DEF vars, TypeOK
<1> QED BY <1>1, <1>2, <1>3, <1>4, <1>5, <1>7, <1>8, <1>9, <1>10, <1>11, <1>12
        DEF Next, App, Browser, Handler

\* Every reachable state of handler, listeners and sessions is well-typed.
THEOREM TypeCorrect == Spec => []TypeOK
  BY InitTyped, StepTyped, PTL DEF Spec

-----------------------------------------------------------------------------
(* Addresses. *)

\* Listeners are numbered in the order they start, a redirect is that of the
\* listener it was made for, and a listener that still listens is bound at it.
AddressInv ==
  /\ listener # Nil => /\ listener.id <= started
                       /\ listener.port \in {FixedPort, listener.id}
  /\ \A s \in Sessions : redirect[s] # Nil =>
       /\ redirect[s].id <= started
       /\ redirect[s].port \in {FixedPort, redirect[s].id}
       /\ listener # Nil /\ listener.id = redirect[s].id =>
            redirect[s].host \in listener.sockets
  /\ \A s \in Sessions : pending[s] => redirect[s] # Nil
  /\ flow # Nil => redirect[flow] # Nil
  /\ lastSet # Nil => redirect[lastSet] # Nil
  /\ \A i \in DOMAIN queue : queue[i].of # Nil => redirect[queue[i].of] # Nil

\* The listener stays, goes, or is new.
ListenerStep ==
  \/ UNCHANGED <<started, listener>>
  \/ UNCHANGED started /\ listener' = Nil
  \/ \E fixed \in BOOLEAN : StartListening(fixed)

\* A step that presents nothing and queues nothing.
LEMMA AddressesStay ==
  ASSUME TypeOK, AddressInv, ListenerStep, UNCHANGED redirect,
         \A s \in Sessions : pending'[s] => pending[s],
         flow' \in {flow, Nil} \/ (flow' # Nil /\ redirect[flow'] # Nil),
         lastSet' = lastSet \/ (lastSet' # Nil /\ redirect[lastSet'] # Nil),
         \A i \in DOMAIN queue' : \E j \in DOMAIN queue : queue'[i] = queue[j]
  PROVE  AddressInv'
<1>1. /\ listener' # Nil => /\ listener'.id <= started'
                            /\ listener'.port \in {FixedPort, listener'.id}
      /\ \A s \in Sessions : redirect[s] # Nil =>
           /\ redirect[s].id <= started'
           /\ redirect[s].port \in {FixedPort, redirect[s].id}
           /\ listener' # Nil /\ listener'.id = redirect[s].id =>
                redirect[s].host \in listener'.sockets
  <2>1. CASE UNCHANGED <<started, listener>>
    BY <2>1 DEF AddressInv
  <2>2. CASE UNCHANGED started /\ listener' = Nil
    BY <2>2 DEF AddressInv
  <2>3. ASSUME NEW fixed \in BOOLEAN, StartListening(fixed)
        PROVE  /\ listener' # Nil => /\ listener'.id <= started'
                                     /\ listener'.port \in {FixedPort, listener'.id}
               /\ \A s \in Sessions : redirect[s] # Nil =>
                    /\ redirect[s].id <= started'
                    /\ redirect[s].port \in {FixedPort, redirect[s].id}
                    /\ listener' # Nil => listener'.id # redirect[s].id
    <3>1. /\ started \in Nat /\ started' = started + 1
          /\ \A s \in Sessions : redirect[s] # Nil => redirect[s].id \in Nat
      BY <2>3, StartTyped, BoundsAssumption DEF TypeOK, Redirects
    <3> QED BY <2>3, <3>1, StartTyped DEF AddressInv
  <2> QED BY <2>1, <2>2, <2>3 DEF ListenerStep
<1>2. \A s \in Sessions : pending'[s] => redirect[s] # Nil
  BY DEF AddressInv
<1>3. flow' # Nil => redirect[flow'] # Nil
  BY DEF AddressInv
<1>4. lastSet' # Nil => redirect[lastSet'] # Nil
  BY DEF AddressInv
<1>5. \A i \in DOMAIN queue' : queue'[i].of # Nil => redirect[queue'[i].of] # Nil
  BY DEF AddressInv
<1> QED BY <1>1, <1>2, <1>3, <1>4, <1>5 DEF AddressInv

LEMMA TellEnds ==
  ASSUME TypeOK, NEW s \in Sessions, NEW o, Tell(s, o)
  PROVE  /\ ~ pending'[s] /\ told'[s] = o
         /\ \A r \in Sessions \ {s} : pending'[r] = pending[r] /\ told'[r] = told[r]
         /\ \A r \in Sessions : pending'[r] => pending[r]
  BY DEF Tell, TypeOK

LEMMA StepKeepsAddresses == TypeOK /\ AddressInv /\ [Next]_vars => AddressInv'
<1> SUFFICES ASSUME TypeOK, AddressInv, [Next]_vars PROVE AddressInv'
  OBVIOUS
<1>0. \A i \in DOMAIN queue : \E j \in DOMAIN queue : queue[i] = queue[j]
  OBVIOUS
<1>1. CASE CancelHTTPListener
  <2>1. /\ ListenerStep /\ flow' \in {flow, Nil}
        /\ UNCHANGED <<redirect, queue, lastSet>>
    BY <1>1 DEF CancelHTTPListener, FailFlow, StopListening, ListenerStep
  <2>2. \A s \in Sessions : pending'[s] => pending[s]
    BY <1>1, TellEnds DEF CancelHTTPListener, FailFlow, Waiting, TypeOK
  <2> QED BY <1>0, <2>1, <2>2, AddressesStay
<1>2. ASSUME NEW fixed \in BOOLEAN, StartHTTPListener(fixed) PROVE AddressInv'
  <2>1. /\ ListenerStep /\ flow' \in {flow, Nil}
        /\ UNCHANGED <<redirect, queue, lastSet>>
    BY <1>2 DEF StartHTTPListener, FailFlow, StopListening, ListenerStep
  <2>2. \A s \in Sessions : pending'[s] => pending[s]
    BY <1>2, TellEnds DEF StartHTTPListener, FailFlow, Waiting, TypeOK
  <2> QED BY <1>0, <2>1, <2>2, AddressesStay
<1>3. ASSUME NEW s \in Sessions, Present(s) PROVE AddressInv'
  <2>1. listener \in Listeners /\ Address(listener).host \in listener.sockets
    BY <1>3, AddressTyped DEF Present, TypeOK
  <2>2. /\ Address(listener).id = listener.id /\ Address(listener).port = listener.port
        /\ Address(listener) \in Redirects
    BY <2>1, AddressTyped DEF Address
  <2>3. Address(listener) # Nil
    BY <2>2, NilAssumption
  <2> QED BY <1>3, <2>1, <2>2, <2>3 DEF Present, history, AddressInv, TypeOK
<1>4. ASSUME NEW s \in Sessions, SetCurrentAuthorizationFlow(s) PROVE AddressInv'
  <2>1. redirect[s] # Nil /\ flow' = s /\ lastSet' = s
    BY <1>4 DEF SetCurrentAuthorizationFlow
  <2>2. UNCHANGED <<started, listener, pending, redirect, queue>>
    BY <1>4 DEF SetCurrentAuthorizationFlow
  <2> QED BY <2>1, <2>2 DEF AddressInv
<1>5. ASSUME NEW s \in Sessions, EndsElsewhere(s) PROVE AddressInv'
  BY <1>0, <1>5, TellEnds, AddressesStay DEF EndsElsewhere, ListenerStep
<1>6. ASSUME NEW q \in Requests, queue' = Append(queue, q),
             q.of # Nil => redirect[q.of] # Nil,
             UNCHANGED <<started, listener, flow, pending, redirect, lastSet>>
      PROVE  AddressInv'
  <2>1. \A i \in DOMAIN queue' : queue'[i] = q \/ (i \in DOMAIN queue /\ queue'[i] = queue[i])
    BY <1>6 DEF TypeOK
  <2> QED BY <1>6, <2>1 DEF AddressInv
<1>7. ASSUME NEW s \in Sessions, BrowserRedirects(s) PROVE AddressInv'
  BY <1>6, <1>7 DEF BrowserRedirects, Requests, history
<1>8. CASE BrowserRequests
  BY <1>6, <1>8 DEF BrowserRequests, Requests, history
<1>9. ASSUME NEW id \in 1 .. MaxListeners, ConnectionCloses(id) PROVE AddressInv'
  BY <1>9 DEF ConnectionCloses, history, AddressInv
<1>10. CASE DidReceiveRequest
  <2>1. UNCHANGED <<started, listener, flow, redirect, lastSet>>
    BY <1>10 DEF DidReceiveRequest, history
  <2>2. \A s \in Sessions : pending'[s] => pending[s]
    BY <1>10, TellEnds DEF DidReceiveRequest, TypeOK
  <2>3. \A i \in DOMAIN queue' : \E j \in DOMAIN queue : queue'[i] = queue[j]
    <3>1. queue \in Seq(Requests) /\ queue # <<>> /\ queue' = Tail(queue)
      BY <1>10 DEF DidReceiveRequest, TypeOK
    <3>2. \A i \in DOMAIN queue' : i + 1 \in DOMAIN queue /\ queue'[i] = queue[i + 1]
      BY <3>1
    <3> QED BY <3>2
  <2> QED BY <2>1, <2>2, <2>3, AddressesStay DEF ListenerStep
<1>11. CASE CallbackReturns
  <2>1. flow' = Nil /\ UNCHANGED <<redirect, queue, lastSet, pending>>
    BY <1>11 DEF CallbackReturns, history
  <2>2. ListenerStep
    <3>1. Top.fixed \in BOOLEAN
      BY <1>11, TopTyped DEF CallbackReturns, Frames
    <3> QED BY <1>11, <3>1 DEF CallbackReturns, StopListening, ListenerStep
  <2> QED BY <1>0, <2>1, <2>2, AddressesStay
<1>12. CASE UNCHANGED vars
  BY <1>12 DEF vars, AddressInv
<1> QED BY <1>1, <1>2, <1>3, <1>4, <1>5, <1>7, <1>8, <1>9, <1>10, <1>11, <1>12
        DEF Next, App, Browser, Handler

LEMMA AddressInvHolds == Spec => [](TypeOK /\ AddressInv)
<1>1. Init => AddressInv
  BY DEF Init, AddressInv
<1> QED BY <1>1, InitTyped, StepTyped, StepKeepsAddresses, PTL DEF Spec
-----------------------------------------------------------------------------
(* Requests that come late. *)

\* What a session was told of was presented, and so was the session.
ToldInv ==
  /\ OtherRedirectsStayOut
  /\ \A s \in Sessions : told[s] # Nil /\ told[s].of # Nil =>
       redirect[s] # Nil /\ redirect[told[s].of] # Nil

\* Nothing is told, or an end without a redirect, or what a redirect for the
\* session's address says.
TellStep(s) ==
  \/ told'[s] = told[s]
  \/ told'[s] = Ended
  \/ /\ redirect[s] # Nil
     /\ \E q \in Requests :
          /\ q.of # Nil /\ redirect[q.of] # Nil
          /\ Matches(s, q) /\ told'[s] = Outcome(s, q)

LEMMA TellsKeepOut ==
  ASSUME TypeOK, AddressInv, ToldInv, NEW s \in Sessions, TellStep(s),
         \A r \in Sessions : redirect[r] # Nil => redirect'[r] = redirect[r],
         redirect' \in [Sessions -> Redirects \cup {Nil}],
         told'[s] # Nil
  PROVE  /\ told'[s].of # Nil => redirect'[s] # Nil /\ redirect'[told'[s].of] # Nil
         /\ told'[s].of \notin {s, Nil} =>
              /\ told'[s].kind # "response"
              /\ \/ redirect'[s].id = redirect'[told'[s].of].id
                 \/ redirect'[s].port = FixedPort
<1>1. CASE told'[s] = told[s]
  <2>1. told[s] # Nil /\ told[s].of \in Sessions \cup {Nil}
    BY <1>1 DEF TypeOK, Outcomes
  <2> QED BY <1>1, <2>1 DEF ToldInv, OtherRedirectsStayOut
<1>2. CASE told'[s] = Ended
  BY <1>2 DEF Ended
<1>3. ASSUME redirect[s] # Nil, NEW q \in Requests, q.of # Nil, redirect[q.of] # Nil,
             Matches(s, q), told'[s] = Outcome(s, q)
      PROVE  /\ told'[s].of # Nil => redirect'[s] # Nil /\ redirect'[told'[s].of] # Nil
             /\ told'[s].of \notin {s, Nil} =>
                  /\ told'[s].kind # "response"
                  /\ \/ redirect'[s].id = redirect'[told'[s].of].id
                     \/ redirect'[s].port = FixedPort
  <2>1. q.of \in Sessions /\ told'[s].of = q.of
        /\ (told'[s].kind = "response" => q.of = s)
    BY <1>3 DEF Requests, Outcome
  <2>2. /\ redirect[q.of].port \in {FixedPort, redirect[q.of].id}
        /\ redirect[s].port \in {FixedPort, redirect[s].id}
        /\ redirect[q.of].port = redirect[s].port
    BY <1>3, <2>1 DEF AddressInv, Matches
  <2>3. redirect'[s] = redirect[s] /\ redirect'[q.of] = redirect[q.of]
    BY <1>3, <2>1
  <2> QED BY <1>3, <2>1, <2>2, <2>3
<1> QED BY <1>1, <1>2, <1>3 DEF TellStep

LEMMA EveryStepTells ==
  ASSUME TypeOK, AddressInv, [Next]_vars
  PROVE  /\ \A s \in Sessions : TellStep(s)
         /\ \A s \in Sessions : redirect[s] # Nil => redirect'[s] = redirect[s]
<1>1. ASSUME UNCHANGED told PROVE \A s \in Sessions : TellStep(s)
  BY <1>1 DEF TellStep
<1>2. ASSUME NEW r \in Sessions, Tell(r, Ended) PROVE \A s \in Sessions : TellStep(s)
  BY <1>2, TellEnds DEF TellStep
<1>3. ASSUME NEW r \in Sessions, Present(r)
      PROVE  \A s \in Sessions : redirect[s] # Nil => redirect'[s] = redirect[s]
  BY <1>3 DEF Present, TypeOK
<1>4. CASE CancelHTTPListener
  BY <1>1, <1>2, <1>4 DEF CancelHTTPListener, FailFlow, Waiting, TypeOK
<1>5. ASSUME NEW fixed \in BOOLEAN, StartHTTPListener(fixed)
      PROVE  UNCHANGED redirect /\ \A s \in Sessions : TellStep(s)
  BY <1>1, <1>2, <1>5 DEF StartHTTPListener, FailFlow, Waiting, TypeOK
<1>6. ASSUME NEW s \in Sessions, SetCurrentAuthorizationFlow(s) \/ BrowserRedirects(s)
      PROVE  UNCHANGED <<told, redirect>>
  BY <1>6 DEF SetCurrentAuthorizationFlow, BrowserRedirects
<1>7. ASSUME NEW s \in Sessions, EndsElsewhere(s)
      PROVE  UNCHANGED redirect /\ Tell(s, Ended)
  BY <1>7 DEF EndsElsewhere
<1>8. CASE DidReceiveRequest
  <2> DEFINE q == Head(queue)
  <2>1. q \in Requests /\ UNCHANGED redirect
    BY <1>8, HeadAndTail DEF DidReceiveRequest
  <2>2. q.of # Nil => redirect[q.of] # Nil
    <3>1. 1 \in DOMAIN queue /\ q = queue[1]
      BY <1>8 DEF DidReceiveRequest, TypeOK
    <3> QED BY <3>1 DEF AddressInv
  <2>3. \/ UNCHANGED told
        \/ flow # Nil /\ Matches(flow, q) /\ Tell(flow, Outcome(flow, q))
    BY <1>8 DEF DidReceiveRequest
  <2> HIDE DEF q
  <2>4. CASE flow # Nil /\ Matches(flow, q) /\ Tell(flow, Outcome(flow, q))
    <3>1. flow \in Sessions /\ redirect[flow] # Nil /\ q.of # Nil
      BY <2>4 DEF TypeOK, AddressInv, Matches
    <3>2. \A s \in Sessions \ {flow} : told'[s] = told[s]
      BY <2>4, <3>1, TellEnds
    <3>3. told'[flow] = Outcome(flow, q)
      BY <2>4, <3>1, TellEnds
    <3> QED BY <2>1, <2>2, <2>4, <3>1, <3>2, <3>3 DEF TellStep
  <2> QED BY <1>1, <2>1, <2>3, <2>4
<1>9. ASSUME \/ BrowserRequests \/ CallbackReturns \/ UNCHANGED vars
             \/ \E id \in 1 .. MaxListeners : ConnectionCloses(id)
      PROVE  UNCHANGED <<told, redirect>>
  BY <1>9 DEF BrowserRequests, CallbackReturns, ConnectionCloses, vars
<1>10. ASSUME NEW s \in Sessions, Present(s) PROVE UNCHANGED told
  BY <1>10 DEF Present
<1>11. CancelHTTPListener => UNCHANGED redirect
  BY DEF CancelHTTPListener
<1> QED BY <1>1, <1>2, <1>3, <1>4, <1>5, <1>6, <1>7, <1>8, <1>9, <1>10, <1>11
        DEF Next, App, Browser, Handler, DidReceiveRequest

\* Whatever redirects come late, none reaches a flow of another listener, but on
\* a port the app fixed, and none as a response to another session's request.
THEOREM RedirectsStayOut == Spec => []OtherRedirectsStayOut
<1>1. Init => ToldInv
  BY DEF Init, ToldInv, OtherRedirectsStayOut
<1>2. TypeOK /\ AddressInv /\ ToldInv /\ [Next]_vars => ToldInv'
  <2> SUFFICES ASSUME TypeOK, AddressInv, ToldInv, [Next]_vars PROVE ToldInv'
    OBVIOUS
  <2>1. redirect' \in [Sessions -> Redirects \cup {Nil}]
    BY StepTyped DEF TypeOK
  <2> QED BY <2>1, EveryStepTells, TellsKeepOut DEF ToldInv, OtherRedirectsStayOut
<1>3. ToldInv => OtherRedirectsStayOut
  BY DEF ToldInv
<1> QED BY <1>1, <1>2, <1>3, AddressInvHolds, PTL DEF Spec
-----------------------------------------------------------------------------
(* The flow and its listener. *)

\* A session of the listener that is over ended elsewhere, or the handler is to stop
\* that listener when the callback returns that it is in.
OverOfListener ==
  \A s \in Sessions :
    redirect[s] # Nil /\ listener # Nil /\ redirect[s].id = listener.id /\ ~ pending[s] =>
      s \in elsewhere \/ (stack # <<>> /\ stack[1].kind = "receive")

\* The listener stays or goes, nothing is told that did not end elsewhere or in a
\* callback of a request, and the outermost method interrupted goes on last.
LEMMA ListenerKeepsOver ==
  ASSUME TypeOK, AddressInv, OverOfListener, ListenerStep, UNCHANGED redirect,
         elsewhere \subseteq elsewhere',
         \A s \in Sessions : pending[s] /\ ~ pending'[s] =>
           \/ s \in elsewhere' \/ listener' = Nil
           \/ stack' # <<>> /\ stack'[1].kind = "receive",
         stack # <<>> => \/ stack' # <<>> /\ stack'[1] = stack[1]
                         \/ listener' = Nil \/ stack[1].kind # "receive"
  PROVE  OverOfListener'
<1>1. CASE UNCHANGED <<started, listener>>
  BY <1>1 DEF OverOfListener
<1>2. CASE listener' = Nil
  BY <1>2 DEF OverOfListener
<1>3. ASSUME NEW fixed \in BOOLEAN, StartListening(fixed) PROVE OverOfListener'
  <2>1. /\ started \in Nat /\ started' = started + 1
        /\ \A s \in Sessions : redirect[s] # Nil => redirect[s].id \in Nat
    BY <1>3, StartTyped, BoundsAssumption DEF TypeOK, Redirects
  <2>2. \A s \in Sessions : redirect[s] # Nil /\ listener' # Nil => redirect[s].id # listener'.id
    BY <1>3, <2>1, StartTyped DEF AddressInv
  <2> QED BY <2>2 DEF OverOfListener
<1> QED BY <1>1, <1>2, <1>3 DEF ListenerStep

\* A method that is interrupted leaves the one below it as it was.
LEMMA Appended ==
  ASSUME TypeOK, NEW frame, stack' = Append(stack, frame)
  PROVE  /\ stack' # <<>>
         /\ stack # <<>> => stack'[1] = stack[1]
         /\ stack = <<>> => stack'[1] = frame
  BY DEF TypeOK

LEMMA StepKeepsOverOfListener ==
  TypeOK /\ AddressInv /\ OverOfListener /\ [Next]_vars => OverOfListener'
<1> SUFFICES ASSUME TypeOK, AddressInv, OverOfListener, [Next]_vars PROVE OverOfListener'
  OBVIOUS
<1>1. ASSUME NEW frame, FailFlow(frame), UNCHANGED <<redirect, elsewhere>>
      PROVE  OverOfListener'
  BY <1>1 DEF FailFlow, StopListening, OverOfListener
<1>2. CASE CancelHTTPListener
  <2>1. CASE FailFlow([kind |-> "cancel", fixed |-> FALSE])
    BY <1>1, <1>2, <2>1 DEF CancelHTTPListener
  <2>2. CASE StopListening
    BY <2>2 DEF StopListening, OverOfListener
  <2> QED BY <1>2, <2>1, <2>2 DEF CancelHTTPListener
<1>3. ASSUME NEW fixed \in BOOLEAN, StartHTTPListener(fixed) PROVE OverOfListener'
  <2>1. CASE FailFlow([kind |-> "start", fixed |-> fixed])
    BY <1>1, <1>3, <2>1 DEF StartHTTPListener
  <2>2. CASE StartListening(fixed) /\ UNCHANGED <<pending, told, stack>>
    BY <1>3, <2>2, ListenerKeepsOver DEF StartHTTPListener, ListenerStep
  <2> QED BY <1>3, <2>1, <2>2 DEF StartHTTPListener
<1>4. ASSUME NEW s \in Sessions, Present(s) PROVE OverOfListener'
  <2>1. /\ pending'[s] /\ UNCHANGED <<listener, stack, elsewhere>>
        /\ \A r \in Sessions \ {s} : redirect'[r] = redirect[r] /\ pending'[r] = pending[r]
    BY <1>4 DEF Present, history, TypeOK
  <2> QED BY <2>1 DEF OverOfListener
<1>5. ASSUME NEW s \in Sessions, EndsElsewhere(s) PROVE OverOfListener'
  <2>1. /\ elsewhere' = elsewhere \cup {s} /\ UNCHANGED <<listener, redirect, stack>>
        /\ \A r \in Sessions \ {s} : pending'[r] = pending[r]
    BY <1>5 DEF EndsElsewhere, Tell, TypeOK
  <2> QED BY <2>1 DEF OverOfListener
<1>6. CASE DidReceiveRequest
  <2>1. /\ stack = <<>> /\ UNCHANGED <<started, listener, redirect, elsewhere>>
        /\ \/ UNCHANGED <<pending, stack>>
           \/ stack' = Append(stack, [kind |-> "receive", fixed |-> FALSE])
    BY <1>6 DEF DidReceiveRequest, Interrupted, history
  <2>2. CASE UNCHANGED <<pending, stack>>
    BY <2>1, <2>2 DEF OverOfListener
  <2>3. CASE stack' = Append(stack, [kind |-> "receive", fixed |-> FALSE])
    BY <2>1, <2>3, Appended DEF OverOfListener
  <2> QED BY <2>1, <2>2, <2>3
<1>7. CASE CallbackReturns
  <2>1. /\ stack # <<>> /\ stack' = SubSeq(stack, 1, Len(stack) - 1)
        /\ UNCHANGED <<pending, redirect, elsewhere>>
    BY <1>7 DEF CallbackReturns, history
  <2>2. ListenerStep
    <3>1. Top.fixed \in BOOLEAN
      BY <2>1, TopTyped DEF Frames
    <3> QED BY <1>7, <3>1 DEF CallbackReturns, StopListening, ListenerStep
  <2>3. stack \in Seq(Frames) /\ Len(stack) \in Nat \ {0}
    BY <2>1 DEF TypeOK
  <2>4. CASE Len(stack) = 1
    <3>1. Top = stack[1] /\ (stack[1].kind = "receive" => listener' = Nil)
      BY <1>7, <2>4 DEF CallbackReturns, Top, StopListening
    <3> QED BY <2>1, <2>2, <3>1, ListenerKeepsOver
  <2>5. CASE Len(stack) > 1
    <3>1. \A i \in 1 .. Len(stack) - 1 : stack[i] \in Frames
      BY <2>3
    <3>2. /\ Len(stack') = Len(stack) - 1
          /\ \A i \in 1 .. Len(stack) - 1 : stack'[i] = stack[i]
      BY <2>1, <2>3, <2>5, <3>1, SubSeqProperties
    <3>3. stack' # <<>> /\ stack'[1] = stack[1]
      BY <2>3, <2>5, <3>2
    <3> QED BY <2>1, <2>2, <3>3, ListenerKeepsOver
  <2>6. Len(stack) = 1 \/ Len(stack) > 1
    BY <2>3
  <2> QED BY <2>4, <2>5, <2>6
<1>8. CASE \/ \E s \in Sessions : SetCurrentAuthorizationFlow(s) \/ BrowserRedirects(s)
           \/ BrowserRequests \/ UNCHANGED vars
           \/ \E id \in 1 .. MaxListeners : ConnectionCloses(id)
  <2>1. UNCHANGED <<listener, redirect, pending, stack, elsewhere>>
    BY <1>8 DEF SetCurrentAuthorizationFlow, BrowserRedirects, BrowserRequests,
                ConnectionCloses, history, vars
  <2> QED BY <2>1 DEF OverOfListener
<1> QED BY <1>2, <1>3, <1>4, <1>5, <1>6, <1>7, <1>8 DEF Next, App, Browser, Handler

LEMMA OverOfListenerHolds == Spec => []OverOfListener
<1>1. Init => OverOfListener
  BY DEF Init, OverOfListener
<1> QED BY <1>1, AddressInvHolds, StepKeepsOverOfListener, PTL DEF Spec

\* Between the handler's methods a flow that is over ended elsewhere; and unless
\* the app uses the handler from inside a callback, the flow is the session that
\* was handed over last, which is over whenever a method is interrupted.
FlowInv ==
  /\ stack = <<>> /\ flow # Nil /\ ~ pending[flow] => flow \in elsewhere
  /\ RaisesOnlyIfEndedElsewhere
  /\ ~ reentered =>
       /\ flow # Nil => flow = lastSet
       /\ stack # <<>> /\ lastSet # Nil => ~ pending[lastSet]
  /\ FlowServed

\* The handler is interrupted when it ends the flow, ...
LEMMA InterruptionKeepsFlow ==
  ASSUME TypeOK, FlowInv, NEW o, NEW frame, flow # Nil, Tell(flow, o),
         Interrupted(frame), reentered => reentered',
         UNCHANGED <<flow, lastSet, elsewhere, raised>>
  PROVE  FlowInv'
<1>1. flow \in Sessions /\ ~ pending'[flow] /\ \A s \in Sessions : pending'[s] => pending[s]
  BY TellEnds DEF TypeOK
<1>2. stack' # <<>>
  BY DEF Interrupted, TypeOK
<1>3. ~ reentered' => flow = lastSet
  BY DEF FlowInv
<1> QED BY <1>1, <1>2, <1>3 DEF FlowInv, FlowServed, RaisesOnlyIfEndedElsewhere

\* ... forgets a flow that does not wait, ...
LEMMA ForgettingKeepsFlow ==
  ASSUME TypeOK, FlowInv, ~ raised, flow' = Nil, reentered => reentered',
         UNCHANGED <<pending, lastSet, elsewhere, raised>>,
         stack' # <<>> => stack # <<>>,
         \A s \in Sessions : lastSet = s /\ pending[s] => reentered'
  PROVE  FlowInv'
  BY NilAssumption DEF FlowInv, FlowServed, RaisesOnlyIfEndedElsewhere, TypeOK

\* ... or leaves flow and listener alone.
LEMMA RestKeepsFlow ==
  ASSUME TypeOK, FlowInv,
         UNCHANGED <<listener, flow, pending, redirect, stack, lastSet, reentered,
                     elsewhere, raised>>
  PROVE  FlowInv'
  BY DEF FlowInv, FlowServed, RaisesOnlyIfEndedElsewhere

LEMMA StepKeepsFlow ==
  TypeOK /\ AddressInv /\ OverOfListener /\ FlowInv /\ [Next]_vars => FlowInv'
<1> SUFFICES ASSUME TypeOK, AddressInv, OverOfListener, FlowInv, [Next]_vars PROVE FlowInv'
  OBVIOUS
<1>1. ASSUME ~ Waiting, NEW s \in Sessions, lastSet = s, pending[s] PROVE reentered
  BY <1>1, NilAssumption DEF FlowInv, FlowServed, Waiting, TypeOK
<1>2. CASE ~ raised /\ CancelHTTPListener
  <2>1. /\ UNCHANGED <<lastSet, elsewhere, raised>> /\ (reentered => reentered')
        /\ \/ /\ flow # Nil /\ Tell(flow, Ended) /\ UNCHANGED flow
              /\ Interrupted([kind |-> "cancel", fixed |-> FALSE])
           \/ ~ Waiting /\ flow' = Nil /\ UNCHANGED <<pending, stack>>
    BY <1>2 DEF CancelHTTPListener, FailFlow, Waiting, Reenters
  <2> QED BY <1>1, <1>2, <2>1, InterruptionKeepsFlow, ForgettingKeepsFlow
<1>3. ASSUME ~ raised, NEW fixed \in BOOLEAN, StartHTTPListener(fixed) PROVE FlowInv'
  <2>1. /\ UNCHANGED <<lastSet, elsewhere, raised>> /\ (reentered => reentered')
        /\ \/ /\ flow # Nil /\ Tell(flow, Ended) /\ UNCHANGED flow
              /\ Interrupted([kind |-> "start", fixed |-> fixed])
           \/ ~ Waiting /\ flow' = Nil /\ UNCHANGED <<pending, stack>>
    BY <1>3 DEF StartHTTPListener, FailFlow, Waiting, Reenters
  <2> QED BY <1>1, <1>3, <2>1, InterruptionKeepsFlow, ForgettingKeepsFlow
<1>4. ASSUME NEW s \in Sessions, Present(s) PROVE FlowInv'
  <2>1. s # flow /\ s # lastSet
    BY <1>4, NilAssumption DEF Present, AddressInv
  <2>2. \A r \in Sessions \ {s} : pending'[r] = pending[r] /\ redirect'[r] = redirect[r]
    BY <1>4 DEF Present, TypeOK
  <2>3. UNCHANGED <<listener, flow, stack, lastSet, reentered, elsewhere, raised>>
    BY <1>4 DEF Present, history
  <2> QED BY <2>1, <2>2, <2>3 DEF FlowInv, FlowServed, RaisesOnlyIfEndedElsewhere, TypeOK
<1>5. ASSUME ~ raised, NEW s \in Sessions, SetCurrentAuthorizationFlow(s) PROVE FlowInv'
  <2>1. /\ redirect[s] # Nil /\ listener # Nil /\ listener.id = redirect[s].id
        /\ flow' = s /\ lastSet' = s /\ reentered' = (reentered \/ stack # <<>>)
        /\ UNCHANGED <<listener, pending, redirect, stack, elsewhere, raised>>
    BY <1>5 DEF SetCurrentAuthorizationFlow, Reenters
  <2>2. redirect[s].host \in listener.sockets
    BY <2>1 DEF AddressInv
  <2>3. stack = <<>> /\ ~ pending[s] => s \in elsewhere
    BY <2>1 DEF OverOfListener
  <2> QED BY <1>5, <2>1, <2>2, <2>3 DEF FlowInv, FlowServed, RaisesOnlyIfEndedElsewhere
<1>6. ASSUME NEW s \in Sessions, EndsElsewhere(s) PROVE FlowInv'
  <2>1. /\ elsewhere' = elsewhere \cup {s} /\ Tell(s, Ended)
        /\ UNCHANGED <<listener, flow, redirect, stack, lastSet, reentered, raised>>
    BY <1>6 DEF EndsElsewhere
  <2>2. /\ \A r \in Sessions : pending'[r] => pending[r]
        /\ \A r \in Sessions \ {s} : pending'[r] = pending[r]
    BY <2>1, TellEnds
  <2> QED BY <2>1, <2>2 DEF FlowInv, FlowServed, RaisesOnlyIfEndedElsewhere, TypeOK
<1>7. CASE \/ \E s \in Sessions : BrowserRedirects(s)
           \/ \E id \in 1 .. MaxListeners : ConnectionCloses(id)
           \/ BrowserRequests
  BY <1>7, RestKeepsFlow DEF BrowserRedirects, BrowserRequests, ConnectionCloses, history
<1>8. CASE DidReceiveRequest
  <2>1. /\ stack = <<>> /\ UNCHANGED <<listener, flow, redirect, lastSet, reentered, elsewhere>>
        /\ \/ UNCHANGED <<pending, stack, raised>>
           \/ /\ flow # Nil /\ ~ pending[flow] /\ raised' = TRUE
              /\ UNCHANGED <<pending, stack>>
           \/ /\ flow # Nil /\ Tell(flow, Outcome(flow, Head(queue)))
              /\ Interrupted([kind |-> "receive", fixed |-> FALSE])
              /\ UNCHANGED raised
    BY <1>8 DEF DidReceiveRequest, history
  <2>2. CASE UNCHANGED <<pending, stack, raised>>
    BY <2>1, <2>2, RestKeepsFlow
  <2>3. CASE flow # Nil /\ ~ pending[flow] /\ raised' = TRUE /\ UNCHANGED <<pending, stack>>
    BY <2>1, <2>3 DEF FlowInv, FlowServed, RaisesOnlyIfEndedElsewhere
  <2>4. CASE /\ flow # Nil /\ Tell(flow, Outcome(flow, Head(queue)))
             /\ Interrupted([kind |-> "receive", fixed |-> FALSE])
             /\ UNCHANGED raised
    BY <2>1, <2>4, InterruptionKeepsFlow
  <2> QED BY <2>1, <2>2, <2>3, <2>4
<1>9. CASE ~ raised /\ CallbackReturns
  <2>1. /\ stack # <<>> /\ flow' = Nil
        /\ UNCHANGED <<pending, lastSet, reentered, elsewhere, raised>>
    BY <1>9 DEF CallbackReturns, history
  <2>2. ASSUME NEW s \in Sessions, lastSet = s, pending[s] PROVE reentered
    BY <2>1, <2>2, NilAssumption DEF FlowInv
  <2> QED BY <1>9, <2>1, <2>2, ForgettingKeepsFlow
<1>10. CASE UNCHANGED vars
  BY <1>10, RestKeepsFlow DEF vars
<1> QED BY <1>2, <1>3, <1>4, <1>5, <1>6, <1>7, <1>8, <1>9, <1>10
        DEF Next, App, Browser, Handler

LEMMA FlowInvHolds == Spec => []FlowInv
<1>1. Init => FlowInv
  BY NilAssumption DEF Init, FlowInv, FlowServed, RaisesOnlyIfEndedElsewhere
<1> QED BY <1>1, AddressInvHolds, OverOfListenerHolds, StepKeepsFlow, PTL DEF Spec

\* While the session that was handed over waits, the handler has it, and listens
\* where its redirect leads.
THEOREM FlowIsServed == Spec => []FlowServed
<1>1. FlowInv => FlowServed
  BY DEF FlowInv
<1> QED BY <1>1, FlowInvHolds, PTL

\* A redirect raises the exception only for a flow that ended behind the
\* handler's back, also if the app uses the handler from inside its callbacks.
THEOREM RaisesForEndedElsewhere == Spec => []RaisesOnlyIfEndedElsewhere
<1>1. FlowInv => RaisesOnlyIfEndedElsewhere
  BY DEF FlowInv
<1> QED BY <1>1, FlowInvHolds, PTL
-----------------------------------------------------------------------------
(* Nothing is told twice, and no redirect of the flow is lost. *)

\* A session that was told is over, and one that is over was presented.
OverInv ==
  \A s \in Sessions :
    /\ told[s] # Nil => ~ pending[s]
    /\ told[s] # Nil \/ pending[s] => redirect[s] # Nil

\* At most one session is told, and it waited until then.
OneTold(s, outcome) == pending[s] /\ Tell(s, outcome)

LEMMA StepTellsOne ==
  ASSUME TypeOK, [Next]_vars
  PROVE  \/ UNCHANGED <<told, pending, redirect>>
         \/ \E s \in Sessions : Present(s)
         \/ /\ UNCHANGED redirect
            /\ \E s \in Sessions, outcome \in Outcomes : OneTold(s, outcome)
<1> DEFINE Goal == \/ UNCHANGED <<told, pending, redirect>>
                   \/ \E s \in Sessions : Present(s)
                   \/ /\ UNCHANGED redirect
                      /\ \E s \in Sessions, outcome \in Outcomes : OneTold(s, outcome)
<1>0. Ended \in Outcomes
  BY DEF Ended, Outcomes
<1>1. CASE CancelHTTPListener \/ \E fixed \in BOOLEAN : StartHTTPListener(fixed)
  <2>1. /\ UNCHANGED redirect
        /\ \/ UNCHANGED <<told, pending>>
           \/ Waiting /\ Tell(flow, Ended)
    BY <1>1 DEF CancelHTTPListener, StartHTTPListener, FailFlow
  <2>2. Waiting => flow \in Sessions /\ pending[flow]
    BY DEF Waiting, TypeOK
  <2> QED BY <1>0, <2>1, <2>2 DEF OneTold
<1>2. ASSUME NEW s \in Sessions, EndsElsewhere(s) PROVE Goal
  BY <1>0, <1>2 DEF EndsElsewhere, OneTold
<1>3. CASE DidReceiveRequest
  <2> DEFINE q == Head(queue)
  <2>1. /\ q \in Requests /\ UNCHANGED redirect
        /\ \/ UNCHANGED <<told, pending>>
           \/ flow # Nil /\ pending[flow] /\ Tell(flow, Outcome(flow, q))
    BY <1>3, HeadAndTail DEF DidReceiveRequest
  <2>2. flow # Nil => flow \in Sessions
    BY DEF TypeOK
  <2> HIDE DEF q
  <2>3. flow # Nil => Outcome(flow, q) \in Outcomes
    BY <2>1, <2>2, OutcomeTyped
  <2> QED BY <2>1, <2>2, <2>3 DEF OneTold
<1>4. CASE \/ \E s \in Sessions : SetCurrentAuthorizationFlow(s) \/ BrowserRedirects(s)
           \/ BrowserRequests \/ CallbackReturns \/ UNCHANGED vars
           \/ \E id \in 1 .. MaxListeners : ConnectionCloses(id)
  BY <1>4 DEF SetCurrentAuthorizationFlow, BrowserRedirects, BrowserRequests,
              CallbackReturns, ConnectionCloses, vars
<1> QED BY <1>1, <1>2, <1>3, <1>4 DEF Next, App, Browser, Handler

LEMMA StepKeepsOver ==
  ASSUME TypeOK, OverInv, [Next]_vars
  PROVE  /\ OverInv'
         /\ \A s \in Sessions : told[s] # Nil => told'[s] = told[s]
<1>1. ASSUME NEW s \in Sessions, Present(s)
      PROVE  OverInv' /\ UNCHANGED told
  <2>1. /\ redirect[s] = Nil /\ redirect'[s] # Nil /\ UNCHANGED told
        /\ \A r \in Sessions \ {s} : redirect'[r] = redirect[r] /\ pending'[r] = pending[r]
    <3>1. Address(listener) # Nil
      BY <1>1, AddressTyped, NilAssumption DEF Present, TypeOK
    <3> QED BY <1>1, <3>1 DEF Present, TypeOK
  <2> QED BY <2>1 DEF OverInv
<1>2. ASSUME NEW s \in Sessions, NEW outcome \in Outcomes, OneTold(s, outcome),
             UNCHANGED redirect
      PROVE  OverInv' /\ \A r \in Sessions : told[r] # Nil => told'[r] = told[r]
  <2>1. /\ pending[s] /\ ~ pending'[s] /\ told[s] = Nil
        /\ \A r \in Sessions \ {s} : told'[r] = told[r] /\ pending'[r] = pending[r]
    BY <1>2 DEF OneTold, Tell, TypeOK, OverInv
  <2> QED BY <1>2, <2>1 DEF OverInv
<1>3. ASSUME UNCHANGED <<told, pending, redirect>> PROVE OverInv'
  BY <1>3 DEF OverInv
<1> QED BY <1>1, <1>2, <1>3, StepTellsOne

LEMMA OverInvHolds == Spec => []OverInv
<1>1. Init => OverInv
  BY DEF Init, OverInv
<1> QED BY <1>1, StepKeepsOver, TypeCorrect, PTL DEF Spec

\* Whoever ends a session, the listener, the browser, its agent or the app, inside
\* a callback or not, ends it for good: its callback is called once.
THEOREM ToldOnce ==
  Spec => [][\A s \in Sessions : told[s] # Nil => told'[s] = told[s]]_vars
<1>1. TypeOK /\ OverInv /\ [Next]_vars
        => \A s \in Sessions : told[s] # Nil => told'[s] = told[s]
  BY StepKeepsOver
<1> QED BY <1>1, TypeCorrect, OverInvHolds, PTL DEF Spec

\* A redirect of session s is in the main queue.
QueuedFor(s) == \E i \in 1 .. Len(queue) : queue[i].of = s

\* The redirect of the session handed over stays in the queue until the session is
\* over, whatever redirects and pages come before it: the safety half of
\* RedirectEndsFlow, of which the other is that the main queue runs.
THEOREM RedirectIsNotLost ==
  Spec => [][\A s \in Sessions :
               lastSet = s /\ pending[s] /\ ~ reentered /\ QueuedFor(s)
                 => QueuedFor(s)' \/ ~ pending'[s]]_vars
<1>1. TypeOK /\ FlowInv /\ [Next]_vars =>
        \A s \in Sessions :
          lastSet = s /\ pending[s] /\ ~ reentered /\ QueuedFor(s)
            => QueuedFor(s)' \/ ~ pending'[s]
  <2> SUFFICES ASSUME TypeOK, FlowInv, [Next]_vars,
                      NEW s \in Sessions, lastSet = s, pending[s], ~ reentered, QueuedFor(s)
               PROVE  QueuedFor(s)' \/ ~ pending'[s]
    OBVIOUS
  <2>1. flow = s /\ s # Nil
    BY NilAssumption DEF FlowInv, FlowServed
  <2>2. queue \in Seq(Requests)
    BY DEF TypeOK
  <2>3. ASSUME NEW q, queue' = Append(queue, q) PROVE QueuedFor(s)'
    <3>1. /\ Len(queue') = Len(queue) + 1 /\ Len(queue) \in Nat
          /\ \A i \in 1 .. Len(queue) : queue'[i] = queue[i]
      BY <2>2, <2>3
    <3>2. 1 .. Len(queue) \subseteq 1 .. Len(queue')
      BY <3>1
    <3> QED BY <3>1, <3>2 DEF QueuedFor
  <2>4. CASE DidReceiveRequest
    <3>1. queue # <<>> /\ queue' = Tail(queue)
      BY <2>4 DEF DidReceiveRequest
    <3>2. CASE Head(queue).of = s
      <4>1. Matches(flow, Head(queue))
        BY <2>1, <3>2 DEF Matches
      <4>2. Tell(flow, Outcome(flow, Head(queue)))
        BY <2>1, <2>4, <4>1 DEF DidReceiveRequest
      <4> QED BY <2>1, <4>2 DEF Tell, TypeOK
    <3>3. CASE Head(queue).of # s
      <4>1. PICK i \in 1 .. Len(queue) : queue[i].of = s
        BY DEF QueuedFor
      <4>2. i # 1
        BY <2>2, <3>1, <3>3, <4>1
      <4>3. i - 1 \in 1 .. Len(queue') /\ queue'[i - 1] = queue[i]
        BY <2>2, <3>1, <4>1, <4>2
      <4> QED BY <4>1, <4>3 DEF QueuedFor
    <3> QED BY <3>2, <3>3
  <2>5. CASE \/ CancelHTTPListener \/ \E fixed \in BOOLEAN : StartHTTPListener(fixed)
             \/ \E r \in Sessions : Present(r) \/ SetCurrentAuthorizationFlow(r)
                                    \/ EndsElsewhere(r)
             \/ CallbackReturns \/ UNCHANGED vars
             \/ \E id \in 1 .. MaxListeners : ConnectionCloses(id)
    <3>1. queue' = queue
      BY <2>5 DEF CancelHTTPListener, StartHTTPListener, Present,
                  SetCurrentAuthorizationFlow, EndsElsewhere, CallbackReturns,
                  ConnectionCloses, vars
    <3> QED BY <3>1 DEF QueuedFor
  <2>6. CASE BrowserRequests \/ \E r \in Sessions : BrowserRedirects(r)
    BY <2>3, <2>6 DEF BrowserRequests, BrowserRedirects
  <2> QED BY <2>4, <2>5, <2>6 DEF Next, App, Browser, Handler
<1> QED BY <1>1, TypeCorrect, FlowInvHolds, PTL DEF Spec
=============================================================================
