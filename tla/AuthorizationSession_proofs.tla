-------------------- MODULE AuthorizationSession_proofs --------------------
(***************************************************************************)
(* Proofs about AuthorizationSession, for any number of sessions of either *)
(* kind and any number of user agents.                                     *)
(***************************************************************************)
EXTENDS AuthorizationSession, TLAPS

-----------------------------------------------------------------------------
(* Type correctness, with what keeps the sessions' names from being Nil. *)

AgentStates ==
  [inProgress : BOOLEAN, session : Sessions \cup {Nil},
   web : Sessions \cup {Nil}, safari : Sessions \cup {Nil}]

\* An agent in progress refers to its session, and to one that was presented.
Serve(agents) ==
  \A a \in Agents : /\ agents[a].inProgress => agents[a].session # Nil
                    /\ agents[a].session # Nil => Presented(agents[a].session)

BusyAgentsServe == Serve(agent)

\* What is on the screen or calls back later belongs to a session that was
\* presented, and so to an agent.
OnlyPresented ==
  /\ \A x \in shown : Presented(x.for)
  /\ \A e \in events : Presented(e.for)

Typed == TypeOK /\ BusyAgentsServe /\ OnlyPresented

\* What a redirect makes of a session.
LEMMA OutcomesTyped ==
  ASSUME NEW s \in Sessions, NEW url \in URLs
  PROVE  OutcomeOf(s, url) \in OutcomeSet
<1>1. url.of \in Sessions
  BY DEF URLs
<1> QED BY <1>1 DEF OutcomeOf, EndSessionOutcome, AuthorizationOutcome, Outcome, OutcomeSet

\* The outcomes that do not come from a redirect.
LEMMA FixedOutcomes ==
  \A kind \in {"stateMismatch", "cancelled", "userCancelled", "openError"} :
    Outcome(kind, Nil) \in OutcomeSet
  BY DEF Outcome, OutcomeSet

\* An event is of a session, and carries what its kind says.
LEMMA EventsTyped ==
  ASSUME NEW e \in EventSet
  PROVE  /\ e.for \in Sessions
         /\ e.kind = "webHandler" => e.url \in URLs \cup {Nil}
         /\ e.kind = "openURL" => e.url \in URLs
         /\ e.kind = "dismissed" => e.outcome \in OutcomeSet
  BY DEF EventSet

\* A session that finishes stays well-typed.
LEMMA FinishTyped ==
  ASSUME TypeOK, NEW s \in Sessions, NEW o \in OutcomeSet, DidFinish(s, o)
  PROVE  /\ pending' \in [Sessions -> BOOLEAN]
         /\ agentOf' \in [Sessions -> Agents \cup {Nil}]
         /\ told' \in [Sessions -> Seq(OutcomeSet)]
<1>1. told[s] \in Seq(OutcomeSet)
  BY DEF TypeOK
<1>2. Append(told[s], o) \in Seq(OutcomeSet)
  BY <1>1
<1>3. told' \in [Sessions -> Seq(OutcomeSet)]
  BY <1>2 DEF DidFinish, TypeOK
<1> QED BY <1>3 DEF DidFinish, TypeOK

LEMMA CleanUpTyped ==
  ASSUME NEW agents \in [Agents -> AgentStates], NEW a \in Agents
  PROVE  CleanUp(agents, a) \in [Agents -> AgentStates]
  BY DEF CleanUp, Clean, AgentStates

\* What a dismissal leaves behind.
LEMMA DismissTyped ==
  ASSUME TypeOK, NEW s \in Sessions, NEW o \in OutcomeSet,
         NEW agents \in [Agents -> AgentStates], NEW rest \in SUBSET events,
         Dismiss(agents, s, o, rest)
  PROVE  /\ pending' \in [Sessions -> BOOLEAN]
         /\ agentOf' \in [Sessions -> Agents \cup {Nil}]
         /\ told' \in [Sessions -> Seq(OutcomeSet)]
         /\ agent' \in [Agents -> AgentStates]
         /\ \/ agent' = agents
            \/ \E a \in Agents : agent' = CleanUp(agents, a)
         /\ shown' \subseteq shown
         /\ \/ events' = rest
            \/ events' = rest \cup {[kind |-> "dismissed", for |-> s, outcome |-> o]}
<1>1. CASE DismissNil(agents, s, rest)
  BY <1>1 DEF DismissNil, sessionVars, TypeOK
<1>2. CASE DismissIdle(agents, s, o, rest)
  BY <1>2, FinishTyped DEF DismissIdle
<1>3. CASE DismissInProgress(agents, s, o, rest)
  <2>1. agentOf[s] \in Agents
    BY <1>3 DEF DismissInProgress, TypeOK
  <2>2. agent' = CleanUp(agents, agentOf[s]) /\ agent' \in [Agents -> AgentStates]
    BY <1>3, <2>1, CleanUpTyped DEF DismissInProgress
  <2>3. /\ shown' \subseteq shown
        /\ DidFinish(s, o) \/ UNCHANGED sessionVars
        /\ \/ events' = rest
           \/ events' = rest \cup {[kind |-> "dismissed", for |-> s, outcome |-> o]}
    BY <1>3 DEF DismissInProgress, DismissWeb, DismissSafari, DismissNothing
  <2>4. /\ pending' \in [Sessions -> BOOLEAN]
        /\ agentOf' \in [Sessions -> Agents \cup {Nil}]
        /\ told' \in [Sessions -> Seq(OutcomeSet)]
    BY <2>3, FinishTyped DEF sessionVars, TypeOK
  <2> QED BY <2>1, <2>2, <2>3, <2>4
<1> QED BY <1>1, <1>2, <1>3 DEF Dismiss

LEMMA InitTyped == Init => Typed
<1> SUFFICES ASSUME Init PROVE Typed
  OBVIOUS
<1>1. told \in [Sessions -> Seq(OutcomeSet)]
  BY DEF Init
<1>2. agent \in [Agents -> AgentStates] /\ BusyAgentsServe
  BY DEF Init, Clean, AgentStates, BusyAgentsServe, Serve
<1>3. /\ pending \in [Sessions -> BOOLEAN]
      /\ agentOf \in [Sessions -> Agents \cup {Nil}]
      /\ decided \in [Sessions -> OutcomeSet \cup {Nil}]
      /\ presenter \in [Sessions -> Agents \cup {Nil}]
  BY DEF Init
<1>4. shown = {} /\ events = {} /\ fallback = {}
  BY DEF Init
<1>5. careless \in BOOLEAN /\ raised \in BOOLEAN
  BY Zenon DEF Init
<1> QED BY <1>1, <1>2, <1>3, <1>4, <1>5 DEF Typed, TypeOK, AgentStates, OnlyPresented

\* A step of the session that changes nothing but what these lemmas speak of.
LEMMA TypedAfter ==
  ASSUME Typed,
         pending' \in [Sessions -> BOOLEAN],
         agentOf' \in [Sessions -> Agents \cup {Nil}],
         told' \in [Sessions -> Seq(OutcomeSet)],
         agent' \in [Agents -> AgentStates], BusyAgentsServe',
         decided' \in [Sessions -> OutcomeSet \cup {Nil}],
         shown' \subseteq shown,
         \A e \in events' : e \in events \/ (e \in EventSet /\ Presented(e.for)),
         careless' \in BOOLEAN, raised' \in BOOLEAN, UNCHANGED <<presenter, fallback>>
  PROVE  Typed'
<1>1. TypeOK'
  BY DEF Typed, TypeOK, AgentStates
<1>2. OnlyPresented'
  BY DEF Typed, OnlyPresented, Presented
<1> QED BY <1>1, <1>2 DEF Typed

\* Agents whose web sessions may have been forgotten serve on, and so do those
\* that have been cleaned up.
LEMMA AgentsServe ==
  ASSUME NEW agents \in [Agents -> AgentStates], Serve(agents),
         \/ agent' = agents
         \/ \E a \in Agents : agent' = CleanUp(agents, a),
         UNCHANGED presenter
  PROVE  BusyAgentsServe'
  BY DEF CleanUp, Clean, AgentStates, BusyAgentsServe, Serve, Presented

LEMMA DecidesTyped ==
  ASSUME TypeOK, NEW s \in Sessions, NEW o \in OutcomeSet, Decides(s, o)
  PROVE  decided' \in [Sessions -> OutcomeSet \cup {Nil}]
  BY DEF Decides, TypeOK

\* A message that dismisses the agent of a session keeps everything well-typed.
LEMMA DismissKeepsTyped ==
  ASSUME Typed, NEW s \in Sessions, Presented(s), NEW o \in OutcomeSet,
         NEW agents \in [Agents -> AgentStates],
         Serve(agents),
         NEW rest \in SUBSET events,
         Decides(s, o), Dismiss(agents, s, o, rest),
         careless' \in BOOLEAN, raised' \in BOOLEAN, UNCHANGED <<presenter, fallback>>
  PROVE  Typed'
<1>1. /\ pending' \in [Sessions -> BOOLEAN]
      /\ agentOf' \in [Sessions -> Agents \cup {Nil}]
      /\ told' \in [Sessions -> Seq(OutcomeSet)]
      /\ agent' \in [Agents -> AgentStates]
      /\ \/ agent' = agents
         \/ \E a \in Agents : agent' = CleanUp(agents, a)
      /\ shown' \subseteq shown
      /\ \/ events' = rest
         \/ events' = rest \cup {[kind |-> "dismissed", for |-> s, outcome |-> o]}
  BY DismissTyped DEF Typed
<1>2. BusyAgentsServe'
  BY <1>1, AgentsServe
<1>3. [kind |-> "dismissed", for |-> s, outcome |-> o] \in EventSet
  BY DEF EventSet
<1>4. decided' \in [Sessions -> OutcomeSet \cup {Nil}]
  BY DecidesTyped DEF Typed
<1>5. \A e \in events' : e \in events \/ (e \in EventSet /\ Presented(e.for))
  <2> DEFINE d == [kind |-> "dismissed", for |-> s, outcome |-> o]
  <2>1. d \in EventSet /\ Presented(d.for)
    BY <1>3
  <2>2. events' \subseteq events \cup {d}
    BY <1>1
  <2> HIDE DEF d
  <2> QED BY <2>1, <2>2
<1> QED BY <1>1, <1>2, <1>4, <1>5, TypedAfter

\* A session that finishes at once, with an agent cleaned up or left alone.
LEMMA FinishKeepsTyped ==
  ASSUME Typed, NEW s \in Sessions, NEW o \in OutcomeSet, DidFinish(s, o),
         Decides(s, o) \/ UNCHANGED decided,
         NEW agents \in [Agents -> AgentStates],
         Serve(agents),
         \/ agent' = agents
         \/ \E a \in Agents : agent' = CleanUp(agents, a),
         shown' \subseteq shown, events' \subseteq events,
         careless' \in BOOLEAN, raised' \in BOOLEAN, UNCHANGED <<presenter, fallback>>
  PROVE  Typed'
<1>1. /\ pending' \in [Sessions -> BOOLEAN]
      /\ agentOf' \in [Sessions -> Agents \cup {Nil}]
      /\ told' \in [Sessions -> Seq(OutcomeSet)]
  BY FinishTyped DEF Typed
<1>2. agent' \in [Agents -> AgentStates]
  BY CleanUpTyped
<1>3. decided' \in [Sessions -> OutcomeSet \cup {Nil}]
  BY DecidesTyped DEF Typed, TypeOK
<1>4. BusyAgentsServe'
  BY AgentsServe
<1>5. \A e \in events' : e \in events \/ (e \in EventSet /\ Presented(e.for))
  OBVIOUS
<1> QED BY <1>1, <1>2, <1>3, <1>4, <1>5, TypedAfter

LEMMA ResumeKeepsTyped ==
  ASSUME Typed, NEW s \in Sessions, Presented(s), NEW url \in URLs,
         NEW agents \in [Agents -> AgentStates],
         Serve(agents),
         NEW rest \in SUBSET events,
         Resume(agents, s, url, rest),
         careless' \in BOOLEAN, UNCHANGED <<presenter, fallback>>
  PROVE  Typed'
<1>1. CASE ResumeAccepts(agents, s, url, rest)
  <2>1. raised' \in BOOLEAN
    BY <1>1 DEF ResumeAccepts, Typed, TypeOK
  <2> QED BY <1>1, <2>1, OutcomesTyped, DismissKeepsTyped DEF ResumeAccepts
<1>2. CASE ResumeIgnores(agents, url, rest) \/ ResumeRaises(agents, s, url, rest)
  <2>1. /\ agent' = agents /\ events' \subseteq events
        /\ UNCHANGED <<sessionVars, shown, decided>> /\ raised' \in BOOLEAN
    BY <1>2 DEF ResumeIgnores, ResumeRaises, Typed, TypeOK
  <2>2. BusyAgentsServe'
    BY <2>1, AgentsServe
  <2>3. /\ pending' \in [Sessions -> BOOLEAN]
        /\ agentOf' \in [Sessions -> Agents \cup {Nil}]
        /\ told' \in [Sessions -> Seq(OutcomeSet)]
        /\ decided' \in [Sessions -> OutcomeSet \cup {Nil}]
        /\ agent' \in [Agents -> AgentStates] /\ shown' \subseteq shown
    BY <2>1 DEF sessionVars, Typed, TypeOK
  <2>4. \A e \in events' : e \in events \/ (e \in EventSet /\ Presented(e.for))
    BY <2>1
  <2> QED BY <2>1, <2>2, <2>3, <2>4, TypedAfter
<1> QED BY <1>1, <1>2 DEF Resume

\* A presented session has an agent.
LEMMA PresenterTyped ==
  ASSUME TypeOK, NEW s \in Sessions, Presented(s)
  PROVE  presenter[s] \in Agents
  BY DEF TypeOK, Presented

LEMMA PresentKeepsTyped ==
  ASSUME Typed, NEW s \in Sessions, NEW a \in Agents, Present(s, a)
  PROVE  Typed'
<1>1. agent \in [Agents -> AgentStates]
  BY DEF Typed, TypeOK, AgentStates
<1>2. presenter' = [presenter EXCEPT ![s] = a] /\ events' = events
      /\ UNCHANGED <<careless, raised>>
  BY DEF Present, PresentRefused, PresentFails, PresentUnstarted, PresentWeb,
         PresentSafari, PresentBrowser, PresentCustomBrowser, Shows,
         OpensInterface, CannotOpen, Keeps
<1>3. presenter' \in [Sessions -> Agents \cup {Nil}]
      /\ \A t \in Sessions : Presented(t) => Presented(t)'
  BY <1>2, NilAssumption DEF Typed, TypeOK, Presented
<1>4. Presented(s)'
  BY <1>2, NilAssumption DEF Typed, TypeOK, Presented
<1>. DEFINE Set(web, safari) == [agent EXCEPT ![a] = InProgress(s, web, safari)]
<1>0. ASSUME \/ agent' = agent \/ agent' = CleanUp(agent, a)
             \/ \E web, safari \in {s, Nil} : agent' = Set(web, safari)
      PROVE  agent' \in [Agents -> AgentStates] /\ BusyAgentsServe'
  <2>1. agent' \in [Agents -> AgentStates]
    <3>1. \A web, safari \in {s, Nil} : InProgress(s, web, safari) \in AgentStates
      BY DEF InProgress, AgentStates
    <3>2. \A web, safari \in {s, Nil} : Set(web, safari) \in [Agents -> AgentStates]
      BY <1>1, <3>1
    <3> HIDE DEF Set
    <3> QED BY <1>0, <1>1, <3>2, CleanUpTyped
  <2>2. Serve(agent)
    BY DEF Typed, BusyAgentsServe
  <2>3. s # Nil
    BY NilAssumption
  <2>4. CASE agent' = agent \/ agent' = CleanUp(agent, a)
    BY <1>1, <1>3, <2>1, <2>2, <2>4
       DEF BusyAgentsServe, Serve, CleanUp, Clean, AgentStates
  <2>5. CASE \E web, safari \in {s, Nil} : agent' = Set(web, safari)
    BY <1>1, <1>3, <1>4, <2>1, <2>2, <2>3, <2>5
       DEF BusyAgentsServe, Serve, AgentStates, InProgress
  <2> QED BY <1>0, <2>1, <2>4, <2>5
<1> HIDE DEF Set
<1>5. ASSUME CannotOpen(s, a),
             \/ agent' = agent \/ agent' = CleanUp(agent, a) \/ agent' = Set(s, Nil)
      PROVE  Typed'
  <2>1. agent' \in [Agents -> AgentStates] /\ BusyAgentsServe'
    BY <1>0, <1>5
  <2>2. told' \in [Sessions -> Seq(OutcomeSet)]
    <3>1. told[s] \in Seq(OutcomeSet) /\ Outcome("openError", Nil) \in OutcomeSet
      BY FixedOutcomes DEF Typed, TypeOK
    <3>2. Append(told[s], Outcome("openError", Nil)) \in Seq(OutcomeSet)
      BY <3>1
    <3> QED BY <1>5, <3>2 DEF CannotOpen, Typed, TypeOK
  <2>3. decided' \in [Sessions -> OutcomeSet \cup {Nil}]
    BY <1>5, FixedOutcomes DEF CannotOpen, Typed, TypeOK
  <2>4. UNCHANGED <<pending, agentOf, shown, fallback>>
    BY <1>5 DEF CannotOpen
  <2>5. OnlyPresented'
    <3>1. \A x \in shown : x.for \in Sessions
      BY DEF Typed, TypeOK, Interfaces
    <3>2. \A e \in events : e.for \in Sessions
      BY EventsTyped DEF Typed, TypeOK
    <3> QED BY <1>2, <1>3, <2>4, <3>1, <3>2 DEF OnlyPresented, Typed
  <2> QED BY <1>2, <1>3, <2>1, <2>2, <2>3, <2>4, <2>5 DEF Typed, TypeOK, AgentStates
<1>6. ASSUME NEW kind \in {"web", "safari", "browser"}, NEW web \in {s, Nil},
             OpensInterface(s, a, kind, web),
             agent' = agent \/ \E safari \in {s, Nil} : agent' = Set(web, safari)
      PROVE  Typed'
  <2>1. agent' \in [Agents -> AgentStates] /\ BusyAgentsServe'
    BY <1>0, <1>6
  <2>2. shown' = shown \cup {[kind |-> kind, for |-> s]} /\ shown' \subseteq Interfaces
    BY <1>6 DEF OpensInterface, Typed, TypeOK, Interfaces
  <2>3. fallback' \subseteq Sessions
    BY <1>6 DEF OpensInterface, Typed, TypeOK
  <2>4. /\ pending' \in [Sessions -> BOOLEAN]
        /\ agentOf' \in [Sessions -> Agents \cup {Nil}]
        /\ UNCHANGED <<told, decided>>
    BY <1>6 DEF OpensInterface, Keeps, Typed, TypeOK
  <2>5. OnlyPresented'
    <3>1. \A x \in shown : x.for \in Sessions
      BY DEF Typed, TypeOK, Interfaces
    <3>2. \A e \in events : e.for \in Sessions
      BY EventsTyped DEF Typed, TypeOK
    <3>3. [kind |-> kind, for |-> s].for = s
      OBVIOUS
    <3> QED BY <1>2, <1>3, <1>4, <2>2, <3>1, <3>2, <3>3 DEF OnlyPresented, Typed
  <2> QED BY <1>2, <1>3, <2>1, <2>2, <2>3, <2>4, <2>5 DEF Typed, TypeOK, AgentStates
<1>7. CASE PresentRefused(s, a) \/ PresentFails(s, a) \/ PresentUnstarted(s, a)
  BY <1>5, <1>7 DEF PresentRefused, PresentFails, PresentUnstarted, Set
<1>8. ASSUME NEW kind \in {"web", "safari", "browser"}, NEW web \in {s, Nil},
             NEW safari \in {s, Nil}, Shows(s, a, kind, web, safari)
      PROVE  Typed'
  BY <1>6, <1>8 DEF Shows, Set
<1>9. CASE PresentWeb(s, a) \/ PresentSafari(s, a) \/ PresentBrowser(s, a)
  BY <1>8, <1>9 DEF PresentWeb, PresentSafari, PresentBrowser
<1>10. CASE PresentCustomBrowser(s, a)
  BY <1>6, <1>10 DEF PresentCustomBrowser
<1> QED BY <1>7, <1>9, <1>10 DEF Present

LEMMA AppKeepsTyped ==
  ASSUME Typed, NEW s \in Sessions, App(s)
  PROVE  Typed'
<1>1. /\ agent \in [Agents -> AgentStates] /\ careless \in BOOLEAN /\ raised \in BOOLEAN
      /\ Serve(agent)
  BY DEF Typed, TypeOK, AgentStates, BusyAgentsServe
<1>2. CASE Cancel(s)
  BY <1>1, <1>2, FixedOutcomes, DismissKeepsTyped DEF Cancel
<1>3. CASE AppFails(s)
  <2>1. /\ DidFinish(s, Outcome("userCancelled", Nil))
        /\ Decides(s, Outcome("userCancelled", Nil))
        /\ careless' \in BOOLEAN /\ raised' = raised
        /\ UNCHANGED <<agent, shown, events, presenter, fallback>>
    BY <1>3 DEF AppFails, Fail, agentVars
  <2> QED BY <1>1, <2>1, FixedOutcomes, FinishKeepsTyped
<1> QED BY <1>2, <1>3, PresentKeepsTyped DEF App

LEMMA UserKeepsTyped ==
  ASSUME Typed, NEW s \in Sessions, User(s)
  PROVE  Typed'
<1>1. PICK d \in EventSet : d.for = s /\ Presented(s) /\ events' = events \cup {d}
  <2>1. PICK kind \in {"web", "safari", "browser"} : [kind |-> kind, for |-> s] \in shown
    BY DEF User, WebEnds, SafariRedirects, SafariCloses
  <2>2. Presented(s)
    BY <2>1 DEF Typed, OnlyPresented
  <2>3. \A url \in URLs \cup {Nil} :
          [kind |-> "webHandler", for |-> s, url |-> url] \in EventSet
    BY DEF EventSet
  <2>4. \A url \in URLs : [kind |-> "openURL", for |-> s, url |-> url] \in EventSet
    BY DEF EventSet
  <2>5. [kind |-> "safariDidFinish", for |-> s] \in EventSet
    BY DEF EventSet
  <2>6. CASE WebEnds(s)
    BY <2>2, <2>3, <2>6 DEF WebEnds
  <2>7. CASE SafariRedirects(s)
    BY <2>2, <2>4, <2>7 DEF SafariRedirects
  <2>8. CASE SafariCloses(s)
    BY <2>2, <2>5, <2>8 DEF SafariCloses
  <2> QED BY <2>6, <2>7, <2>8 DEF User
<1>2. /\ shown' \subseteq shown
      /\ UNCHANGED <<pending, agentOf, told, agent, decided, presenter, fallback,
                     careless, raised>>
  BY DEF User, WebEnds, SafariRedirects, SafariCloses, sessionVars, agentVars
<1>3. /\ agent \in [Agents -> AgentStates] /\ BusyAgentsServe'
  BY <1>2, AgentsServe DEF Typed, TypeOK, AgentStates, BusyAgentsServe
<1>4. \A e \in events' : e \in events \/ (e \in EventSet /\ Presented(e.for))
  BY <1>1
<1> QED BY <1>2, <1>3, <1>4, TypedAfter DEF Typed, TypeOK

LEMMA EventKeepsTyped ==
  ASSUME Typed, NEW e \in events,
         \/ WebHandler(e) \/ SafariDidFinish(e) \/ Dismissed(e)
         \/ \E s \in Sessions : OpenURL(e, s)
  PROVE  Typed'
<1>1. /\ agent \in [Agents -> AgentStates] /\ careless \in BOOLEAN /\ raised \in BOOLEAN
      /\ Serve(agent)
      /\ pending \in [Sessions -> BOOLEAN]
      /\ agentOf \in [Sessions -> Agents \cup {Nil}]
      /\ told \in [Sessions -> Seq(OutcomeSet)]
      /\ decided \in [Sessions -> OutcomeSet \cup {Nil}]
  BY DEF Typed, TypeOK, AgentStates, BusyAgentsServe
<1>2. e \in EventSet /\ e.for \in Sessions /\ Presented(e.for)
  BY EventsTyped DEF Typed, TypeOK, OnlyPresented
<1>3. CASE WebHandler(e)
  <2> DEFINE a == presenter[e.for]
             t == agent[a].session
             agents == [agent EXCEPT ![a].web = Nil]
             rest == events \ {e}
  <2>1. /\ a \in Agents /\ t \in Sessions \cup {Nil} /\ rest \in SUBSET events
        /\ agents \in [Agents -> AgentStates]
        /\ Serve(agents)
    <3>1. a \in Agents
      BY <1>2, PresenterTyped DEF Typed
    <3>2. agents \in [Agents -> AgentStates] /\ t \in Sessions \cup {Nil}
      BY <1>1, <3>1 DEF AgentStates
    <3>3. \A b \in Agents : /\ agents[b].inProgress = agent[b].inProgress
                            /\ agents[b].session = agent[b].session
      BY <1>1 DEF AgentStates
    <3>4. Serve(agents)
      BY <1>1, <3>3 DEF Serve
    <3> QED BY <3>1, <3>2, <3>4
  <2>2. \/ /\ agent' = agents \/ agent' = agent
           /\ UNCHANGED <<sessionVars, shown, decided, raised>>
           /\ events' = rest
        \/ /\ t # Nil /\ e.url # Nil
           /\ Resume(agents, t, e.url, rest)
        \/ /\ t # Nil
           /\ Fail(t, Outcome("userCancelled", Nil))
           /\ agent' = agents /\ events' = rest
           /\ UNCHANGED <<shown, raised>>
    BY <1>3 DEF WebHandler, agentVars
  <2>3. UNCHANGED <<presenter, fallback, careless>> /\ e.kind = "webHandler"
    BY <1>3 DEF WebHandler
  <2>4. t # Nil => t \in Sessions /\ Presented(t)
    BY <1>1, <2>1 DEF Serve
  <2>5. e.url # Nil => e.url \in URLs
    BY <1>2, <2>3, EventsTyped
  <2> HIDE DEF a, t, agents, rest
  <2>6. CASE Resume(agents, t, e.url, rest) /\ t # Nil /\ e.url # Nil
    BY <1>1, <2>1, <2>3, <2>4, <2>5, <2>6, ResumeKeepsTyped
  <2>7. CASE /\ t # Nil /\ Fail(t, Outcome("userCancelled", Nil))
             /\ agent' = agents /\ events' = rest /\ UNCHANGED <<shown, raised>>
    BY <1>1, <2>1, <2>3, <2>4, <2>7, FixedOutcomes, FinishKeepsTyped DEF Fail
  <2>8. CASE /\ agent' = agents \/ agent' = agent
             /\ UNCHANGED <<sessionVars, shown, decided, raised>>
             /\ events' = rest
    <3>1. /\ agent' \in [Agents -> AgentStates] /\ shown' \subseteq shown
          /\ UNCHANGED <<pending, agentOf, told, decided, raised, careless>>
      BY <1>1, <2>1, <2>3, <2>8 DEF sessionVars
    <3>2. BusyAgentsServe'
      BY <1>1, <2>1, <2>3, <2>8, AgentsServe
    <3>3. \A d \in events' : d \in events \/ (d \in EventSet /\ Presented(d.for))
      BY <2>1, <2>8
    <3> QED BY <1>1, <2>3, <3>1, <3>2, <3>3, TypedAfter
  <2> QED BY <2>2, <2>6, <2>7, <2>8
<1>4. CASE SafariDidFinish(e)
  <2> DEFINE a == presenter[e.for]
  <2>1. a \in Agents
    BY <1>2, PresenterTyped DEF Typed
  <2>2. /\ events' \subseteq events /\ UNCHANGED <<shown, presenter, fallback, careless, raised>>
        /\ \/ /\ agent[a].inProgress
              /\ Fail(agent[a].session, Outcome("userCancelled", Nil))
              /\ agent' = CleanUp(agent, a)
           \/ UNCHANGED <<pending, agentOf, told, agent, decided>>
    BY <1>4 DEF SafariDidFinish, sessionVars
  <2>3. agent[a].inProgress => agent[a].session \in Sessions
    BY <1>1, <2>1 DEF AgentStates, Serve
  <2> HIDE DEF a
  <2>4. CASE /\ agent[a].inProgress
             /\ Fail(agent[a].session, Outcome("userCancelled", Nil))
             /\ agent' = CleanUp(agent, a)
    BY <1>1, <2>1, <2>2, <2>3, <2>4, FixedOutcomes, FinishKeepsTyped DEF Fail
  <2>5. CASE UNCHANGED <<pending, agentOf, told, agent, decided>>
    <3>1. BusyAgentsServe' /\ shown' \subseteq shown
      BY <1>1, <2>2, <2>5, AgentsServe
    <3>2. \A d \in events' : d \in events \/ (d \in EventSet /\ Presented(d.for))
      BY <2>2
    <3> QED BY <1>1, <2>2, <2>5, <3>1, <3>2, TypedAfter
  <2> QED BY <2>2, <2>4, <2>5
<1>5. CASE Dismissed(e)
  <2>1. e.outcome \in OutcomeSet
    BY <1>2, <1>5, EventsTyped DEF Dismissed
  <2> QED BY <1>1, <1>2, <1>5, <2>1, FinishKeepsTyped DEF Dismissed, agentVars
<1>6. ASSUME NEW s \in Sessions, OpenURL(e, s) PROVE Typed'
  <2>1. e.url \in URLs /\ Presented(s) /\ Resume(agent, s, e.url, events \ {e})
    BY <1>2, <1>6, EventsTyped DEF OpenURL
  <2>2. careless' \in BOOLEAN /\ UNCHANGED <<presenter, fallback>>
    BY <1>1, <1>6 DEF OpenURL
  <2>3. events \ {e} \in SUBSET events
    OBVIOUS
  <2> QED BY <1>1, <2>1, <2>2, <2>3, ResumeKeepsTyped
<1> QED BY <1>3, <1>4, <1>5, <1>6

LEMMA StepTyped == Typed /\ [Next]_vars => Typed'
<1> SUFFICES ASSUME Typed, [Next]_vars PROVE Typed'
  OBVIOUS
<1>1. CASE UNCHANGED vars
  BY <1>1 DEF vars, Typed, TypeOK, BusyAgentsServe, Serve, OnlyPresented, Presented
<1>2. CASE \E s \in Sessions : App(s) \/ User(s)
  BY <1>2, AppKeepsTyped, UserKeepsTyped
<1>3. CASE \E e \in events : \/ WebHandler(e) \/ SafariDidFinish(e) \/ Dismissed(e)
                             \/ \E s \in Sessions : OpenURL(e, s)
  BY <1>3, EventKeepsTyped
<1> QED BY <1>1, <1>2, <1>3 DEF Next

LEMMA TypedHolds == Spec => []Typed
  BY InitTyped, StepTyped, PTL DEF Spec

\* Every reachable state of the sessions and their agents is well-typed.
THEOREM TypeCorrect == Spec => []TypeOK
<1>1. Typed => TypeOK
  BY DEF Typed
<1> QED BY <1>1, TypedHolds, PTL

-----------------------------------------------------------------------------
(* What a step does to a session: a case for the invariants to be checked on. *)

\* Nothing, ...
Untouched(s) == UNCHANGED <<pending[s], agentOf[s], told[s], presenter[s]>>

\* ... the session finishes, and calls its callback if it still has it, ...
Finishes(s, o) ==
  /\ told'[s] = IF pending[s] THEN Append(told[s], o) ELSE told[s]
  /\ pending'[s] = FALSE /\ agentOf'[s] = Nil
  /\ presenter'[s] = presenter[s]

\* ... or it is presented: an agent shows it or the callback is called at once.
Opens(s) ==
  /\ ~ Presented(s) /\ Presented(s)'
  /\ pending'[s] /\ agentOf'[s] # Nil /\ told'[s] = told[s]

OpensNot(s) ==
  /\ ~ Presented(s) /\ Presented(s)'
  /\ told'[s] = Append(told[s], Outcome("openError", Nil))
  /\ UNCHANGED <<pending[s], agentOf[s]>>

\* What may be told to a session: a response only to its own request.
MayBeTold(s, o) == o \in OutcomeSet /\ (o.kind = "response" => o.of = s)

\* A dismissal under way tells what may be told.
DismissalsTell ==
  \A e \in events : e.kind = "dismissed" => MayBeTold(e.for, e.outcome)

SessionStep(s) ==
  Untouched(s) \/ Opens(s) \/ OpensNot(s) \/ \E o : MayBeTold(s, o) /\ Finishes(s, o)

LEMMA FinishIsStep ==
  ASSUME Typed, NEW s \in Sessions, NEW o, MayBeTold(s, o), DidFinish(s, o),
         UNCHANGED presenter
  PROVE  \A r \in Sessions : SessionStep(r)
<1>1. /\ pending \in [Sessions -> BOOLEAN] /\ DOMAIN agentOf = Sessions
      /\ DOMAIN told = Sessions
  BY DEF Typed, TypeOK
<1>2. Finishes(s, o)
  BY <1>1 DEF DidFinish, Finishes
<1>3. \A r \in Sessions \ {s} : Untouched(r)
  BY <1>1 DEF DidFinish, Untouched
<1> QED BY <1>2, <1>3 DEF SessionStep

\* A redirect gives a session no response but its own.
LEMMA RedirectsTell ==
  ASSUME NEW s \in Sessions, NEW url \in URLs
  PROVE  MayBeTold(s, OutcomeOf(s, url))
  BY OutcomesTyped DEF MayBeTold, OutcomeOf, EndSessionOutcome, AuthorizationOutcome, Outcome

LEMMA FixedTell ==
  \A s \in Sessions, kind \in {"cancelled", "userCancelled"} : MayBeTold(s, Outcome(kind, Nil))
  BY FixedOutcomes DEF MayBeTold, Outcome

LEMMA DismissIsStep ==
  ASSUME Typed, DismissalsTell, NEW s \in Sessions, NEW o, MayBeTold(s, o),
         NEW agents, NEW rest \in SUBSET events, Dismiss(agents, s, o, rest),
         UNCHANGED presenter
  PROVE  (\A r \in Sessions : SessionStep(r)) /\ DismissalsTell'
<1>1. DidFinish(s, o) \/ UNCHANGED sessionVars
  BY DEF Dismiss, DismissNil, DismissIdle, DismissInProgress, DismissWeb,
         DismissSafari, DismissNothing
<1>2. \/ events' = rest
      \/ events' = rest \cup {[kind |-> "dismissed", for |-> s, outcome |-> o]}
  BY DEF Dismiss, DismissNil, DismissIdle, DismissInProgress, DismissWeb,
         DismissSafari, DismissNothing
<1>3. \A r \in Sessions : SessionStep(r)
  BY <1>1, FinishIsStep DEF sessionVars, SessionStep, Untouched
<1>4. DismissalsTell'
  <2> DEFINE d == [kind |-> "dismissed", for |-> s, outcome |-> o]
  <2>1. MayBeTold(d.for, d.outcome)
    OBVIOUS
  <2>2. events' \subseteq events \cup {d}
    BY <1>2
  <2> HIDE DEF d
  <2> QED BY <2>1, <2>2 DEF DismissalsTell, MayBeTold
<1> QED BY <1>3, <1>4

LEMMA ResumeIsStep ==
  ASSUME Typed, DismissalsTell, NEW s \in Sessions, NEW url \in URLs, NEW agents,
         NEW rest \in SUBSET events, Resume(agents, s, url, rest), UNCHANGED presenter
  PROVE  (\A r \in Sessions : SessionStep(r)) /\ DismissalsTell'
<1>1. CASE ResumeAccepts(agents, s, url, rest)
  BY <1>1, RedirectsTell, DismissIsStep DEF ResumeAccepts
<1>2. CASE ResumeIgnores(agents, url, rest) \/ ResumeRaises(agents, s, url, rest)
  <2>1. events' \subseteq events /\ UNCHANGED <<pending, agentOf, told>>
    BY <1>2 DEF ResumeIgnores, ResumeRaises, sessionVars
  <2> QED BY <2>1 DEF SessionStep, Untouched, DismissalsTell, MayBeTold
<1> QED BY <1>1, <1>2 DEF Resume

\* Every step is such a case for every session, and dismissals stay honest.
LEMMA EveryStepIs ==
  ASSUME Typed, DismissalsTell, [Next]_vars
  PROVE  (\A r \in Sessions : SessionStep(r)) /\ DismissalsTell'
<1> DEFINE Goal == (\A r \in Sessions : SessionStep(r)) /\ DismissalsTell'
<1>1. ASSUME UNCHANGED <<pending, agentOf, told, presenter>>,
             \A e \in events' : e \in events \/ e.kind # "dismissed"
      PROVE  Goal
  BY <1>1 DEF SessionStep, Untouched, DismissalsTell, MayBeTold
<1>2. ASSUME NEW s \in Sessions, NEW o, MayBeTold(s, o), DidFinish(s, o),
             UNCHANGED presenter, events' \subseteq events
      PROVE  Goal
  BY <1>2, FinishIsStep DEF DismissalsTell, MayBeTold
<1>3. ASSUME NEW s \in Sessions, NEW a \in Agents, Present(s, a) PROVE Goal
  <2>1. ~ Presented(s) /\ events' = events /\ presenter' = [presenter EXCEPT ![s] = a]
    BY <1>3 DEF Present, PresentRefused, PresentFails, PresentUnstarted, PresentWeb,
                PresentSafari, PresentBrowser, PresentCustomBrowser, Shows,
                OpensInterface, CannotOpen, Keeps
  <2>2. \/ /\ pending' = [pending EXCEPT ![s] = TRUE]
           /\ agentOf' = [agentOf EXCEPT ![s] = a] /\ told' = told
        \/ /\ told' = [told EXCEPT ![s] = Append(told[s], Outcome("openError", Nil))]
           /\ UNCHANGED <<pending, agentOf>>
    BY <1>3 DEF Present, PresentRefused, PresentFails, PresentUnstarted, PresentWeb,
                PresentSafari, PresentBrowser, PresentCustomBrowser, Shows,
                OpensInterface, CannotOpen, Keeps
  <2>3. /\ DOMAIN pending = Sessions /\ DOMAIN agentOf = Sessions
        /\ DOMAIN told = Sessions /\ DOMAIN presenter = Sessions /\ a # Nil
    BY NilAssumption DEF Typed, TypeOK
  <2>4. Opens(s) \/ OpensNot(s)
    BY <2>1, <2>2, <2>3 DEF Opens, OpensNot, Presented
  <2>5. \A r \in Sessions \ {s} : Untouched(r)
    BY <2>1, <2>2, <2>3 DEF Untouched
  <2>6. DismissalsTell'
    BY <2>1 DEF DismissalsTell, MayBeTold
  <2> QED BY <2>4, <2>5, <2>6 DEF SessionStep
<1>4. ASSUME NEW s \in Sessions, Cancel(s) PROVE Goal
  BY <1>4, FixedTell, DismissIsStep DEF Cancel
<1>5. ASSUME NEW s \in Sessions, AppFails(s) PROVE Goal
  BY <1>2, <1>5, FixedTell DEF AppFails, Fail
<1>6. ASSUME NEW s \in Sessions, User(s) PROVE Goal
  BY <1>1, <1>6 DEF User, WebEnds, SafariRedirects, SafariCloses, sessionVars
<1>7. ASSUME NEW e \in events, WebHandler(e) PROVE Goal
  <2>1. e \in EventSet /\ Presented(e.for) /\ e.kind = "webHandler"
    BY <1>7 DEF WebHandler, Typed, TypeOK, OnlyPresented
  <2>2. presenter[e.for] \in Agents /\ (e.url # Nil => e.url \in URLs)
    BY <2>1, EventsTyped, PresenterTyped DEF Typed
  <2>3. agent[presenter[e.for]].session \in Sessions \cup {Nil}
    BY <2>2 DEF Typed, TypeOK
  <2>4. CASE UNCHANGED sessionVars /\ events' \subseteq events
    BY <1>1, <1>7, <2>4 DEF sessionVars, WebHandler
  <2>5. ASSUME NEW t \in Sessions, NEW agents, e.url # Nil,
               Resume(agents, t, e.url, events \ {e})
        PROVE  Goal
    BY <1>7, <2>2, <2>5, ResumeIsStep DEF WebHandler
  <2>6. ASSUME NEW t \in Sessions, Fail(t, Outcome("userCancelled", Nil)),
               events' \subseteq events
        PROVE  Goal
    BY <1>2, <1>7, <2>6, FixedTell DEF WebHandler, Fail
  <2> HIDE DEF Goal
  <2> QED BY <1>7, <2>3, <2>4, <2>5, <2>6 DEF WebHandler
<1>8. ASSUME NEW e \in events, SafariDidFinish(e) PROVE Goal
  <2>1. presenter[e.for] \in Agents
    BY EventsTyped, PresenterTyped DEF Typed, TypeOK, OnlyPresented
  <2>2. agent[presenter[e.for]].inProgress => agent[presenter[e.for]].session \in Sessions
    BY <2>1 DEF Typed, TypeOK, BusyAgentsServe, Serve
  <2> HIDE DEF Goal
  <2> QED BY <1>1, <1>2, <1>8, <2>2, FixedTell DEF SafariDidFinish, Fail, sessionVars
<1>9. ASSUME NEW e \in events, Dismissed(e) PROVE Goal
  <2>1. e.for \in Sessions /\ MayBeTold(e.for, e.outcome)
    BY <1>9, EventsTyped DEF Dismissed, DismissalsTell, Typed, TypeOK
  <2> QED BY <1>2, <1>9, <2>1 DEF Dismissed
<1>10. ASSUME NEW e \in events, NEW s \in Sessions, OpenURL(e, s) PROVE Goal
  <2>1. e.url \in URLs
    BY <1>10, EventsTyped DEF OpenURL, Typed, TypeOK
  <2> QED BY <1>10, <2>1, ResumeIsStep DEF OpenURL
<1>11. ASSUME UNCHANGED vars PROVE Goal
  BY <1>1, <1>11 DEF vars
<1> HIDE DEF Goal
<1>12. ASSUME \E s \in Sessions : App(s) \/ User(s) PROVE Goal
  BY <1>3, <1>4, <1>5, <1>6, <1>12 DEF App
<1>13. ASSUME \E e \in events : \/ WebHandler(e) \/ SafariDidFinish(e) \/ Dismissed(e)
                                \/ \E s \in Sessions : OpenURL(e, s)
       PROVE  Goal
  BY <1>7, <1>8, <1>9, <1>10, <1>13
<1>14. Goal
  BY <1>11, <1>12, <1>13 DEF Next
<1> QED BY <1>14 DEF Goal

-----------------------------------------------------------------------------
(* Callbacks. *)

\* CallbackKeptUntilTold says nothing of a session before it is presented; that
\* it has no callback, no agent and no answer then makes it inductive.
CallbackInv ==
  /\ CallbackKeptUntilTold
  /\ \A s \in Sessions : ~ Presented(s) => ~ pending[s] /\ told[s] = <<>>
  /\ DismissalsTell
  /\ ResponseIsOwn

LEMMA InitCallbackInv == Init => CallbackInv
<1> SUFFICES ASSUME Init PROVE CallbackInv
  OBVIOUS
<1>1. /\ \A s \in Sessions : told[s] = <<>> /\ ~ pending[s] /\ agentOf[s] = Nil
      /\ \A s \in Sessions : ~ Presented(s)
      /\ events = {}
  BY DEF Init, Presented
<1>2. Len(<<>>) = 0 /\ DOMAIN <<>> = {}
  OBVIOUS
<1> QED BY <1>1, <1>2
        DEF CallbackInv, CallbackKeptUntilTold, DismissalsTell, ResponseIsOwn

LEMMA StepKeepsCallbackInv == Typed /\ Typed' /\ CallbackInv /\ [Next]_vars => CallbackInv'
<1> SUFFICES ASSUME Typed, Typed', CallbackInv, [Next]_vars PROVE CallbackInv'
  OBVIOUS
<1>1. (\A s \in Sessions : SessionStep(s)) /\ DismissalsTell'
  BY EveryStepIs DEF CallbackInv
<1>2. \A s \in Sessions : /\ Len(told'[s]) <= 1
                          /\ Presented(s)' => (pending'[s] <=> told'[s] = <<>>)
                          /\ pending'[s] <=> agentOf'[s] # Nil
                          /\ ~ Presented(s)' => ~ pending'[s] /\ told'[s] = <<>>
                          /\ \A i \in DOMAIN told'[s] :
                               told'[s][i].kind = "response" => told'[s][i].of = s
  <2> SUFFICES ASSUME NEW s \in Sessions
               PROVE  /\ Len(told'[s]) <= 1
                      /\ Presented(s)' => (pending'[s] <=> told'[s] = <<>>)
                      /\ pending'[s] <=> agentOf'[s] # Nil
                      /\ ~ Presented(s)' => ~ pending'[s] /\ told'[s] = <<>>
                      /\ \A i \in DOMAIN told'[s] :
                           told'[s][i].kind = "response" => told'[s][i].of = s
    OBVIOUS
  <2>0. /\ told[s] \in Seq(OutcomeSet) /\ Len(told[s]) <= 1
        /\ pending[s] \in BOOLEAN /\ pending'[s] \in BOOLEAN
        /\ Presented(s) => (pending[s] <=> told[s] = <<>>)
        /\ pending[s] <=> agentOf[s] # Nil
        /\ ~ Presented(s) => ~ pending[s] /\ told[s] = <<>>
        /\ \A i \in DOMAIN told[s] : told[s][i].kind = "response" => told[s][i].of = s
    BY DEF CallbackInv, CallbackKeptUntilTold, ResponseIsOwn, Typed, TypeOK
  <2>1. CASE Untouched(s)
    BY <2>0, <2>1 DEF Untouched, Presented
  <2>2. ASSUME NEW o, MayBeTold(s, o), told[s] = <<>>, told'[s] = Append(told[s], o)
        PROVE  /\ Len(told'[s]) = 1 /\ told'[s] # <<>>
               /\ \A i \in DOMAIN told'[s] :
                    told'[s][i].kind = "response" => told'[s][i].of = s
    BY <2>2 DEF MayBeTold
  <2>3. CASE Opens(s)
    BY <2>0, <2>3 DEF Opens
  <2>4. CASE OpensNot(s)
    <3>1. MayBeTold(s, Outcome("openError", Nil))
      BY FixedOutcomes DEF MayBeTold, Outcome
    <3> QED BY <2>0, <2>2, <2>4, <3>1 DEF OpensNot
  <2>5. ASSUME NEW o, MayBeTold(s, o), Finishes(s, o)
        PROVE  /\ Len(told'[s]) <= 1
               /\ Presented(s)' => (pending'[s] <=> told'[s] = <<>>)
               /\ pending'[s] <=> agentOf'[s] # Nil
               /\ ~ Presented(s)' => ~ pending'[s] /\ told'[s] = <<>>
               /\ \A i \in DOMAIN told'[s] :
                    told'[s][i].kind = "response" => told'[s][i].of = s
    <3>1. Presented(s)' <=> Presented(s)
      BY <2>5 DEF Finishes, Presented
    <3>2. CASE pending[s]
      BY <2>0, <2>2, <2>5, <3>1, <3>2 DEF Finishes
    <3>3. CASE ~ pending[s]
      BY <2>0, <2>5, <3>1, <3>3 DEF Finishes
    <3> QED BY <3>2, <3>3
  <2> QED BY <1>1, <2>1, <2>3, <2>4, <2>5 DEF SessionStep
<1> QED BY <1>1, <1>2 DEF CallbackInv, CallbackKeptUntilTold, ResponseIsOwn

LEMMA CallbackInvHolds == Spec => []CallbackInv
  BY InitCallbackInv, StepKeepsCallbackInv, TypedHolds, PTL DEF Spec

\* No order of app calls and user interface callbacks loses a session's callback
\* or calls it twice.
THEOREM CallbackIsKept == Spec => []CallbackKeptUntilTold
<1>1. CallbackInv => CallbackKeptUntilTold
  BY DEF CallbackInv
<1> QED BY <1>1, CallbackInvHolds, PTL

\* No session is told the response to another's request.
THEOREM ResponseBelongs == Spec => []ResponseIsOwn
<1>1. CallbackInv => ResponseIsOwn
  BY DEF CallbackInv
<1> QED BY <1>1, CallbackInvHolds, PTL

-----------------------------------------------------------------------------
(* Agents in progress. *)

\* No agent in progress serves the session.
Left(s) == \A a \in Agents : agent[a].inProgress => agent[a].session # s

\* AgentFreeAfterSession is kept by every way out of a session only if the agent
\* a session dismisses is the one it was presented with, and if an agent that
\* waits for Safari to go has been cleaned up.
BusyInv ==
  /\ AgentFreeAfterSession
  /\ \A s \in Sessions : agentOf[s] # Nil => agentOf[s] = presenter[s]
  /\ \A e \in events : e.kind = "dismissed" => Left(e.for)

\* Agents that are in progress, as they are after a step or inside of one, go on
\* with the session they had.
GoesOn(agents) ==
  \A a \in Agents :
    agents[a].inProgress => agent[a].inProgress /\ agents[a].session = agent[a].session

\* A session keeps callback and answers, or is left by its agent, or fails.
EndsFree(s) ==
  \/ pending'[s] = pending[s] /\ told'[s] = told[s]
  \/ pending[s] /\ (Left(s)' \/ told'[s][1].kind = "userCancelled")

\* A step in which nothing is presented.
FreeingStep ==
  /\ UNCHANGED presenter
  /\ GoesOn(agent')
  /\ \A s \in Sessions : agentOf'[s] \in {agentOf[s], Nil} /\ EndsFree(s)
  /\ \A e \in events' : e.kind = "dismissed" => e \in events \/ Left(e.for)'

LEMMA FreeingKeepsBusy ==
  ASSUME Typed, BusyInv, FreeingStep
  PROVE  BusyInv'
<1>1. ASSUME NEW a \in Agents, agent'[a].inProgress
      PROVE  LET s == agent'[a].session IN
             /\ s # Nil /\ presenter'[s] = a
             /\ \/ pending'[s]
                \/ told'[s][1].kind = "userCancelled"
                \/ told'[s][1].kind = "openError" /\ a \in MacAgents
  <2> DEFINE s == agent[a].session
  <2>1. agent[a].inProgress /\ agent'[a].session = s
    BY <1>1 DEF FreeingStep, GoesOn
  <2>2. /\ s # Nil /\ presenter[s] = a
        /\ \/ pending[s]
           \/ told[s][1].kind = "userCancelled"
           \/ told[s][1].kind = "openError" /\ a \in MacAgents
    BY <2>1 DEF BusyInv, AgentFreeAfterSession
  <2>3. s \in Sessions
    BY <2>2 DEF Typed, TypeOK
  <2>4. EndsFree(s) /\ presenter' = presenter
    BY <2>3 DEF FreeingStep
  <2>5. ~ Left(s)'
    BY <1>1, <2>1 DEF Left
  <2> HIDE DEF s
  <2> QED BY <2>1, <2>2, <2>4, <2>5 DEF EndsFree
<1>2. \A s \in Sessions : agentOf'[s] # Nil => agentOf'[s] = presenter'[s]
  BY DEF BusyInv, FreeingStep
<1>3. \A e \in events' : e.kind = "dismissed" => Left(e.for)'
  <2> SUFFICES ASSUME NEW e \in events', e.kind = "dismissed", e \in events
               PROVE  Left(e.for)'
    BY DEF FreeingStep
  <2>1. Left(e.for)
    BY DEF BusyInv
  <2> QED BY <2>1 DEF Left, FreeingStep, GoesOn
<1> QED BY <1>1, <1>2, <1>3 DEF BusyInv, AgentFreeAfterSession

\* A session finishes without leaving its agent behind, or fails.
LEMMA FinishFrees ==
  ASSUME Typed, CallbackInv, NEW s \in Sessions, NEW o, DidFinish(s, o),
         UNCHANGED presenter, GoesOn(agent'), events' \subseteq events,
         Left(s)' \/ o.kind = "userCancelled"
  PROVE  FreeingStep
<1>1. /\ pending \in [Sessions -> BOOLEAN] /\ DOMAIN agentOf = Sessions
      /\ DOMAIN told = Sessions
  BY DEF Typed, TypeOK
<1>2. \A r \in Sessions : agentOf'[r] \in {agentOf[r], Nil}
  BY <1>1 DEF DidFinish
<1>3. \A r \in Sessions \ {s} : EndsFree(r)
  BY <1>1 DEF DidFinish, EndsFree
<1>4. CASE ~ pending[s]
  <2>1. EndsFree(s)
    BY <1>1, <1>4 DEF DidFinish, EndsFree
  <2> QED BY <1>2, <1>3, <2>1 DEF FreeingStep
<1>5. CASE pending[s]
  <2>1. told[s] = <<>>
    BY <1>5 DEF CallbackInv, CallbackKeptUntilTold
  <2>2. told'[s] = Append(<<>>, o)
    BY <1>1, <1>5, <2>1 DEF DidFinish
  <2>3. told'[s][1] = o
    BY <2>2
  <2>4. EndsFree(s)
    BY <1>5, <2>3 DEF EndsFree
  <2> QED BY <1>2, <1>3, <2>4 DEF FreeingStep
<1> QED BY <1>4, <1>5

LEMMA DismissFrees ==
  ASSUME Typed, CallbackInv, BusyInv, NEW s \in Sessions, NEW o,
         NEW agents \in [Agents -> AgentStates], GoesOn(agents),
         NEW rest \in SUBSET events, Dismiss(agents, s, o, rest), UNCHANGED presenter
  PROVE  FreeingStep
<1>1. agentOf[s] # Nil => agentOf[s] \in Agents /\ agentOf[s] = presenter[s]
  BY DEF BusyInv, Typed, TypeOK
<1>2. ASSUME agentOf[s] # Nil, ~ agents[agentOf[s]].inProgress, NEW a \in Agents,
             agents[a].inProgress
      PROVE  agents[a].session # s
  <2>1. agent[a].inProgress /\ agents[a].session = agent[a].session
    BY <1>2 DEF GoesOn
  <2> QED BY <1>1, <1>2, <2>1 DEF BusyInv, AgentFreeAfterSession
<1>3. CASE DismissNil(agents, s, rest)
  BY <1>3 DEF DismissNil, sessionVars, FreeingStep, EndsFree
<1>4. CASE DismissIdle(agents, s, o, rest)
  <2>1. Left(s)'
    BY <1>2, <1>4 DEF DismissIdle, Left
  <2> QED BY <1>4, <2>1, FinishFrees DEF DismissIdle
<1>5. CASE DismissInProgress(agents, s, o, rest)
  <2>1. agentOf[s] # Nil /\ agent' = CleanUp(agents, agentOf[s])
    BY <1>5 DEF DismissInProgress
  <2>2. \A a \in Agents : agent'[a].inProgress =>
          a # agentOf[s] /\ agents[a].inProgress /\ agent'[a].session = agents[a].session
    BY <1>1, <2>1 DEF CleanUp, Clean
  <2>3. GoesOn(agent')
    BY <2>2 DEF GoesOn
  <2>4. Left(s)'
    <3> SUFFICES ASSUME NEW a \in Agents, agent'[a].inProgress, agent'[a].session = s
                 PROVE  FALSE
      BY DEF Left
    <3>1. agent[a].inProgress /\ agent[a].session = s
      BY <2>3 DEF GoesOn
    <3>2. presenter[s] = a
      BY <3>1 DEF BusyInv, AgentFreeAfterSession
    <3> QED BY <1>1, <2>1, <2>2, <3>2
  <2>5. CASE DidFinish(s, o) /\ events' = rest
    BY <2>3, <2>4, <2>5, FinishFrees
  <2>6. CASE /\ UNCHANGED sessionVars
             /\ events' = rest \cup {[kind |-> "dismissed", for |-> s, outcome |-> o]}
    <3> DEFINE d == [kind |-> "dismissed", for |-> s, outcome |-> o]
    <3>1. d.for = s /\ events' \subseteq events \cup {d}
      BY <2>6
    <3> HIDE DEF d
    <3>2. \A e \in events' : e.kind = "dismissed" => e \in events \/ Left(e.for)'
      BY <2>4, <3>1
    <3> QED BY <2>3, <2>6, <3>2 DEF FreeingStep, EndsFree, sessionVars
  <2> QED BY <1>5, <2>5, <2>6
      DEF DismissInProgress, DismissWeb, DismissSafari, DismissNothing
<1> QED BY <1>3, <1>4, <1>5 DEF Dismiss

LEMMA ResumeFrees ==
  ASSUME Typed, CallbackInv, BusyInv, NEW s \in Sessions, NEW url \in URLs,
         NEW agents \in [Agents -> AgentStates], GoesOn(agents),
         NEW rest \in SUBSET events, Resume(agents, s, url, rest), UNCHANGED presenter
  PROVE  FreeingStep
<1>1. CASE ResumeAccepts(agents, s, url, rest)
  BY <1>1, DismissFrees DEF ResumeAccepts
<1>2. CASE ResumeIgnores(agents, url, rest) \/ ResumeRaises(agents, s, url, rest)
  BY <1>2 DEF ResumeIgnores, ResumeRaises, sessionVars, FreeingStep, EndsFree
<1> QED BY <1>1, <1>2 DEF Resume

\* An agent that is presented with takes on a session nobody had.
LEMMA PresentKeepsBusy ==
  ASSUME Typed, CallbackInv, BusyInv, NEW s \in Sessions, NEW a \in Agents, Present(s, a)
  PROVE  BusyInv'
<1>1. ~ Presented(s) /\ events' = events /\ presenter' = [presenter EXCEPT ![s] = a]
  BY DEF Present, PresentRefused, PresentFails, PresentUnstarted, PresentWeb,
         PresentSafari, PresentBrowser, PresentCustomBrowser, Shows,
         OpensInterface, CannotOpen, Keeps
<1>2. /\ agent' = agent \/ ~ agent[a].inProgress
      /\ \/ /\ pending' = [pending EXCEPT ![s] = TRUE]
            /\ agentOf' = [agentOf EXCEPT ![s] = a] /\ told' = told
            /\ \/ agent' = agent
               \/ \E web, safari : agent' = [agent EXCEPT ![a] = InProgress(s, web, safari)]
         \/ /\ told' = [told EXCEPT ![s] = Append(told[s], Outcome("openError", Nil))]
            /\ UNCHANGED <<pending, agentOf>>
            /\ \/ agent' = agent
               \/ agent' = CleanUp(agent, a)
               \/ a \in MacAgents /\ agent' = [agent EXCEPT ![a] = InProgress(s, s, Nil)]
  BY DEF Present, PresentRefused, PresentFails, PresentUnstarted, PresentWeb,
         PresentSafari, PresentBrowser, PresentCustomBrowser, Shows,
         OpensInterface, CannotOpen, Keeps
<1>3. /\ DOMAIN pending = Sessions /\ DOMAIN agentOf = Sessions
      /\ DOMAIN told = Sessions /\ DOMAIN presenter = Sessions
      /\ DOMAIN agent = Agents /\ s # Nil
  BY NilAssumption DEF Typed, TypeOK
<1>4. ~ pending[s] /\ told[s] = <<>> /\ agentOf[s] = Nil
  BY <1>1 DEF CallbackInv, CallbackKeptUntilTold
<1>5. \A b \in Agents : agent'[b].inProgress =>
        \/ agent[b].inProgress /\ agent'[b].session = agent[b].session
        \/ b = a /\ agent'[b].session = s
  BY <1>2, <1>3 DEF CleanUp, Clean, InProgress
<1>6. \A b \in Agents : agent[b].inProgress =>
        agent[b].session \in Sessions /\ agent[b].session # s
  BY <1>1 DEF Typed, TypeOK, BusyAgentsServe, Serve
<1>7. ASSUME NEW b \in Agents, agent'[b].inProgress
      PROVE  LET r == agent'[b].session IN
             /\ r # Nil /\ presenter'[r] = b
             /\ \/ pending'[r]
                \/ told'[r][1].kind = "userCancelled"
                \/ told'[r][1].kind = "openError" /\ b \in MacAgents
  <2>1. CASE agent[b].inProgress /\ agent'[b].session = agent[b].session
    <3> DEFINE r == agent[b].session
    <3>1. r \in Sessions /\ r # s
      BY <1>6, <2>1
    <3>2. /\ r # Nil /\ presenter[r] = b
          /\ \/ pending[r]
             \/ told[r][1].kind = "userCancelled"
             \/ told[r][1].kind = "openError" /\ b \in MacAgents
      BY <2>1 DEF BusyInv, AgentFreeAfterSession
    <3>3. presenter'[r] = presenter[r] /\ pending'[r] = pending[r] /\ told'[r] = told[r]
      BY <1>1, <1>2, <1>3, <3>1
    <3> HIDE DEF r
    <3> QED BY <2>1, <3>2, <3>3 DEF r
  <2>2. CASE b = a /\ agent'[b].session = s /\ ~ agent[b].inProgress
    <3>1. presenter'[s] = a
      BY <1>1, <1>3
    <3>2. CASE pending' = [pending EXCEPT ![s] = TRUE]
      BY <1>3, <2>2, <3>1, <3>2
    <3>3. CASE /\ a \in MacAgents
               /\ told' = [told EXCEPT ![s] = Append(told[s], Outcome("openError", Nil))]
      <4>1. told'[s] = Append(<<>>, Outcome("openError", Nil))
        BY <1>3, <1>4, <3>3
      <4>2. told'[s][1] = Outcome("openError", Nil)
        BY <4>1
      <4> QED BY <1>3, <2>2, <3>1, <3>3, <4>2 DEF Outcome
    <3> QED BY <1>2, <1>3, <1>7, <2>2, <3>2, <3>3 DEF CleanUp, Clean
  <2>3. CASE b = a /\ agent'[b].session = s /\ agent[b].inProgress
    BY <1>2, <1>6, <2>3
  <2> QED BY <1>5, <1>7, <2>1, <2>2, <2>3
<1>8. \A r \in Sessions : agentOf'[r] # Nil => agentOf'[r] = presenter'[r]
  BY <1>1, <1>2, <1>3, <1>4 DEF BusyInv
<1>9. \A e \in events' : e.kind = "dismissed" => Left(e.for)'
  <2> SUFFICES ASSUME NEW e \in events, e.kind = "dismissed" PROVE Left(e.for)'
    BY <1>1
  <2>1. Left(e.for) /\ e.for # s
    BY <1>1 DEF BusyInv, Typed, OnlyPresented
  <2> QED BY <1>5, <2>1 DEF Left
<1> QED BY <1>7, <1>8, <1>9 DEF BusyInv, AgentFreeAfterSession

LEMMA StepKeepsBusy ==
  ASSUME Typed, CallbackInv, BusyInv, [Next]_vars
  PROVE  BusyInv'
<1>1. \A e \in events : e \in EventSet /\ Presented(e.for)
  BY DEF Typed, TypeOK, OnlyPresented
<1>2. agent \in [Agents -> AgentStates] /\ GoesOn(agent)
  BY DEF Typed, TypeOK, AgentStates, GoesOn
<1>3. ASSUME UNCHANGED <<pending, agentOf, told, presenter>>, GoesOn(agent'),
             \A e \in events' : e \in events \/ e.kind # "dismissed"
      PROVE  BusyInv'
  BY <1>3, FreeingKeepsBusy DEF FreeingStep, EndsFree
<1>4. ASSUME NEW s \in Sessions, DidFinish(s, Outcome("userCancelled", Nil)),
             UNCHANGED presenter, GoesOn(agent'), events' \subseteq events
      PROVE  BusyInv'
  <2>1. Outcome("userCancelled", Nil).kind = "userCancelled"
    BY DEF Outcome
  <2> QED BY <1>4, <2>1, FinishFrees, FreeingKeepsBusy
<1>5. ASSUME NEW s \in Sessions, App(s) PROVE BusyInv'
  <2>1. CASE Cancel(s)
    BY <1>2, <2>1, DismissFrees, FreeingKeepsBusy DEF Cancel
  <2>2. CASE AppFails(s)
    BY <1>2, <1>4, <2>2 DEF AppFails, Fail, agentVars
  <2> QED BY <1>5, <2>1, <2>2, PresentKeepsBusy DEF App
<1>6. ASSUME NEW s \in Sessions, User(s) PROVE BusyInv'
  BY <1>2, <1>3, <1>6
     DEF User, WebEnds, SafariRedirects, SafariCloses, sessionVars, agentVars
<1>7. ASSUME NEW e \in events, WebHandler(e) PROVE BusyInv'
  <2> DEFINE a == presenter[e.for]
             t == agent[a].session
             agents == [agent EXCEPT ![a].web = Nil]
  <2>1. e \in EventSet /\ e.kind = "webHandler" /\ UNCHANGED presenter
    BY <1>1, <1>7 DEF WebHandler
  <2>2. a \in Agents /\ (e.url # Nil => e.url \in URLs)
    BY <1>1, <2>1, EventsTyped, PresenterTyped DEF Typed
  <2>3. t \in Sessions \cup {Nil}
    BY <1>2, <2>2 DEF AgentStates
  <2>4. agents \in [Agents -> AgentStates] /\ GoesOn(agents)
    BY <1>2, <2>2 DEF AgentStates, GoesOn
  <2>5. \/ UNCHANGED <<sessionVars, agent>> /\ events' \subseteq events
        \/ agent' = agents /\ events' \subseteq events /\ UNCHANGED sessionVars
        \/ t # Nil /\ e.url # Nil /\ Resume(agents, t, e.url, events \ {e})
        \/ /\ t # Nil /\ DidFinish(t, Outcome("userCancelled", Nil))
           /\ agent' = agents /\ events' \subseteq events
    BY <1>7 DEF WebHandler, Fail, agentVars
  <2> HIDE DEF a, t, agents
  <2>6. CASE UNCHANGED sessionVars /\ agent' \in {agent, agents} /\ events' \subseteq events
    BY <1>2, <1>3, <2>1, <2>4, <2>6 DEF sessionVars
  <2>7. CASE t # Nil /\ e.url # Nil /\ Resume(agents, t, e.url, events \ {e})
    <3>1. events \ {e} \in SUBSET events /\ t \in Sessions /\ e.url \in URLs
      BY <2>2, <2>3, <2>7
    <3> QED BY <2>1, <2>4, <2>7, <3>1, ResumeFrees, FreeingKeepsBusy
  <2>8. CASE /\ t # Nil /\ DidFinish(t, Outcome("userCancelled", Nil))
             /\ agent' = agents /\ events' \subseteq events
    BY <1>4, <2>1, <2>3, <2>4, <2>8
  <2> QED BY <2>5, <2>6, <2>7, <2>8
<1>8. ASSUME NEW e \in events, SafariDidFinish(e) PROVE BusyInv'
  <2> DEFINE a == presenter[e.for]
  <2>1. a \in Agents
    BY <1>1, EventsTyped, PresenterTyped DEF Typed
  <2>2. /\ events' \subseteq events /\ UNCHANGED presenter
        /\ \/ /\ agent[a].inProgress
              /\ DidFinish(agent[a].session, Outcome("userCancelled", Nil))
              /\ agent' = CleanUp(agent, a)
           \/ UNCHANGED <<pending, agentOf, told, agent>>
    BY <1>8 DEF SafariDidFinish, Fail, sessionVars
  <2>3. agent[a].inProgress => agent[a].session \in Sessions
    BY <1>2, <2>1 DEF AgentStates, Typed, BusyAgentsServe, Serve
  <2>4. GoesOn(CleanUp(agent, a))
    BY <1>2, <2>1 DEF GoesOn, CleanUp, Clean
  <2> HIDE DEF a
  <2> QED BY <1>2, <1>3, <1>4, <2>2, <2>3, <2>4
<1>9. ASSUME NEW e \in events, Dismissed(e) PROVE BusyInv'
  <2>1. e.for \in Sessions /\ Left(e.for)
    BY <1>1, <1>9, EventsTyped DEF Dismissed, BusyInv
  <2>2. Left(e.for)' /\ GoesOn(agent')
    BY <1>2, <1>9, <2>1 DEF Dismissed, agentVars, Left, GoesOn
  <2> QED BY <1>9, <2>1, <2>2, FinishFrees, FreeingKeepsBusy DEF Dismissed
<1>10. ASSUME NEW e \in events, NEW s \in Sessions, OpenURL(e, s) PROVE BusyInv'
  <2>1. e.url \in URLs /\ events \ {e} \in SUBSET events
    BY <1>1, <1>10, EventsTyped DEF OpenURL
  <2> QED BY <1>2, <1>10, <2>1, ResumeFrees, FreeingKeepsBusy DEF OpenURL
<1>11. CASE UNCHANGED vars
  BY <1>2, <1>3, <1>11 DEF vars
<1> QED BY <1>5, <1>6, <1>7, <1>8, <1>9, <1>10, <1>11 DEF Next

LEMMA BusyInvHolds == Spec => []BusyInv
<1>1. Init => BusyInv
  BY DEF Init, BusyInv, AgentFreeAfterSession, Clean
<1>2. Typed /\ CallbackInv /\ BusyInv /\ [Next]_vars => BusyInv'
  BY StepKeepsBusy
<1> QED BY <1>1, <1>2, TypedHolds, CallbackInvHolds, PTL DEF Spec

\* An agent that refuses a request serves a session that waits, but for the ways
\* out of a session that are known to leave it behind.
THEOREM AgentIsFree == Spec => []AgentFreeAfterSession
<1>1. BusyInv => AgentFreeAfterSession
  BY DEF BusyInv
<1> QED BY <1>1, BusyInvHolds, PTL

-----------------------------------------------------------------------------
(* The exception, and what is left on the screen. *)

\* An agent refers to a session only while it is in progress.
InUse(agents) == \A a \in Agents : agents[a].session # Nil => agents[a].inProgress

\* No interface of s that is its agent's to close is on the screen.
Closed(s) ==
  /\ [kind |-> "web", for |-> s] \notin shown
  /\ [kind |-> "safari", for |-> s] \in shown => s \in fallback

\* Its agent knows the interface that shows s.
InHand(s) ==
  LET a == agent[presenter[s]] IN
  /\ Presented(s) /\ pending[s]
  /\ a.inProgress /\ a.session = s
  /\ \/ a.web = s /\ [kind |-> "safari", for |-> s] \notin shown
     \/ a.web = Nil /\ a.safari = s /\ [kind |-> "web", for |-> s] \notin shown

\* What interfaces of s that have gone call back.
Handlers(s) == {e \in events : e.for = s /\ e.kind = "webHandler"}
Callbacks(s) == {e \in events : e.for = s /\ e.kind \in {"webHandler", "safariDidFinish"}}

\* An interface is in the hands of its agent or has gone; one web session calls
\* back once, and finds that its agent serves a session that waits, if any.
Accounted(s) ==
  /\ Closed(s) \/ InHand(s)
  /\ Callbacks(s) # {} => Closed(s)
  /\ Handlers(s) # {} => agent[presenter[s]].session # s \/ pending[s]
  /\ \A d, e \in Handlers(s) : d = e

Careful == ~ AgentReused /\ ~ careless

CarefulInv == InUse(agent) /\ (Careful => \A s \in Sessions : Accounted(s))

\* What a step of others does not touch stays accounted for.
LEMMA OthersStayAccounted ==
  ASSUME Typed, NEW r \in Sessions, Accounted(r),
         presenter'[r] = presenter[r], pending'[r] = pending[r],
         Presented(r) => agent'[presenter[r]] = agent[presenter[r]],
         r \in fallback => r \in fallback',
         \A kind \in {"web", "safari"} :
           [kind |-> kind, for |-> r] \in shown' => [kind |-> kind, for |-> r] \in shown,
         Callbacks(r)' \subseteq Callbacks(r)
  PROVE  Accounted(r)'
<1>1. Handlers(r)' \subseteq Handlers(r)
  BY DEF Handlers, Callbacks
<1>2. Closed(r) => Closed(r)'
  BY DEF Closed
<1>3. Handlers(r)' # {} => Presented(r)
  BY <1>1 DEF Handlers, Typed, OnlyPresented
<1>4. Closed(r)' \/ InHand(r)'
  <2>1. CASE InHand(r)
    BY <2>1 DEF InHand, Presented
  <2> QED BY <1>2, <2>1 DEF Accounted
<1>5. Callbacks(r)' # {} => Closed(r)'
  BY <1>2 DEF Accounted
<1>6. Handlers(r)' # {} => (agent[presenter[r]].session # r \/ pending[r])'
  BY <1>1, <1>3 DEF Accounted
<1>7. \A d, e \in Handlers(r)' : d = e
  BY <1>1 DEF Accounted
<1> QED BY <1>4, <1>5, <1>6, <1>7 DEF Accounted

\* So does a session whose interface has gone.
LEMMA ClosedStaysAccounted ==
  ASSUME NEW s \in Sessions, Accounted(s), Closed(s)',
         presenter'[s] = presenter[s], Callbacks(s)' \subseteq Callbacks(s),
         \/ Handlers(s)' = {}
         \/ agent'[presenter[s]].session # s
         \/ pending'[s] = pending[s] /\ agent'[presenter[s]].session = agent[presenter[s]].session
  PROVE  Accounted(s)'
<1>1. Handlers(s)' \subseteq Handlers(s)
  BY DEF Handlers, Callbacks
<1> QED BY <1>1 DEF Accounted

\* The effect of a message to s, whose agent may be used for nothing else.
LEMMA FinishKeepsAccounted ==
  ASSUME Typed, ~ AgentReused, \A r \in Sessions : Accounted(r),
         NEW s \in Sessions, Presented(s), Closed(s)',
         DOMAIN pending' = Sessions,
         \A r \in Sessions \ {s} : pending'[r] = pending[r],
         UNCHANGED <<presenter, fallback>>,
         \A b \in Agents \ {presenter[s]} : agent'[b] = agent[b],
         shown' \subseteq shown,
         \A e \in events' : e \in events \/ e.kind \notin {"webHandler", "safariDidFinish"},
         \/ Handlers(s)' = {}
         \/ agent'[presenter[s]].session # s
         \/ pending'[s] = pending[s] /\ agent'[presenter[s]].session = agent[presenter[s]].session
  PROVE  \A r \in Sessions : Accounted(r)'
<1> SUFFICES ASSUME NEW r \in Sessions PROVE Accounted(r)'
  OBVIOUS
<1>1. Callbacks(r)' \subseteq Callbacks(r)
  BY DEF Callbacks
<1>2. CASE r = s
  BY <1>1, <1>2, ClosedStaysAccounted
<1>3. CASE r # s
  <2>1. Presented(r) => presenter[r] \in Agents \ {presenter[s]}
    BY <1>3, PresenterTyped DEF AgentReused, Presented, Typed
  <2> QED BY <1>1, <1>3, <2>1, OthersStayAccounted
<1> QED BY <1>2, <1>3

\* Agents in which at most the web session of s is forgotten, one that has gone.
Forgotten(agents, s) ==
  \/ agents = agent
  \/ /\ Closed(s)
     /\ \A b \in Agents : /\ b # presenter[s] => agents[b] = agent[b]
                          /\ agents[b].session = agent[b].session
                          /\ agents[b].inProgress = agent[b].inProgress

LEMMA DismissKeepsAccounted ==
  ASSUME Typed, CallbackInv, BusyInv, InUse(agent),
         ~ AgentReused, \A r \in Sessions : Accounted(r),
         NEW s \in Sessions, Presented(s), NEW o, NEW agents \in [Agents -> AgentStates],
         Forgotten(agents, s), NEW rest \in SUBSET events,
         Dismiss(agents, s, o, rest), UNCHANGED <<presenter, fallback>>
  PROVE  \A r \in Sessions : Accounted(r)'
<1> DEFINE a == presenter[s]
<1>1. a \in Agents /\ (pending[s] <=> agentOf[s] # Nil) /\ (agentOf[s] # Nil => agentOf[s] = a)
  BY PresenterTyped DEF CallbackInv, CallbackKeptUntilTold, BusyInv, Typed
<1>2. /\ \A b \in Agents : b # a => agents[b] = agent[b]
      /\ agents[a].session = agent[a].session /\ agents[a].inProgress = agent[a].inProgress
  BY <1>1 DEF Forgotten
<1>3. pending \in [Sessions -> BOOLEAN] /\ Accounted(s)
  BY DEF Typed, TypeOK
<1> HIDE DEF a
<1>4. ASSUME Closed(s)',
             DOMAIN pending' = Sessions, \A r \in Sessions \ {s} : pending'[r] = pending[r],
             \A b \in Agents \ {a} : agent'[b] = agent[b], shown' \subseteq shown,
             \A e \in events' : e \in events \/ e.kind = "dismissed",
             \/ agent'[a].session # s
             \/ pending'[s] = pending[s] /\ agent'[a].session = agent[a].session
      PROVE  \A r \in Sessions : Accounted(r)'
  BY <1>4, FinishKeepsAccounted DEF a
<1>5. CASE DismissNil(agents, s, rest)
  <2>1. ~ InHand(s)
    BY <1>1, <1>5 DEF DismissNil, InHand
  <2>2. Closed(s)'
    BY <1>3, <1>5, <2>1 DEF Accounted, DismissNil, Closed
  <2> QED BY <1>2, <1>3, <1>4, <1>5, <2>2 DEF DismissNil, sessionVars
<1>6. CASE DismissIdle(agents, s, o, rest)
  <2>1. ~ agent[a].inProgress
    BY <1>1, <1>2, <1>6 DEF DismissIdle
  <2>2. ~ InHand(s) /\ agent[a].session # s
    BY <1>1, <2>1, NilAssumption DEF InHand, InUse, a
  <2>3. Closed(s)'
    BY <1>3, <1>6, <2>2 DEF Accounted, DismissIdle, Closed
  <2> QED BY <1>2, <1>3, <1>4, <1>6, <2>2, <2>3 DEF DismissIdle, DidFinish
<1>7. CASE DismissInProgress(agents, s, o, rest)
  <2>1. agentOf[s] = a /\ agent' = CleanUp(agents, a) /\ shown' \subseteq shown
    BY <1>1, <1>7 DEF DismissInProgress, DismissWeb, DismissSafari, DismissNothing
  <2>2. agent'[a].session # s /\ \A b \in Agents \ {a} : agent'[b] = agent[b]
    BY <1>1, <1>2, <2>1, NilAssumption DEF CleanUp, Clean
  <2>3. /\ DOMAIN pending' = Sessions
        /\ \A r \in Sessions \ {s} : pending'[r] = pending[r]
        /\ \A e \in events' : e \in events \/ e.kind = "dismissed"
    BY <1>3, <1>7
       DEF DismissInProgress, DismissWeb, DismissSafari, DismissNothing, DidFinish, sessionVars
  <2>4. CASE Closed(s)
    <3>1. Closed(s)'
      BY <2>1, <2>4 DEF Closed
    <3> QED BY <1>4, <2>1, <2>2, <2>3, <3>1
  <2>5. CASE ~ Closed(s)
    <3>1. agents = agent /\ InHand(s)
      BY <1>3, <2>5 DEF Forgotten, Accounted
    <3>2. CASE agent[a].web = s /\ [kind |-> "safari", for |-> s] \notin shown
      <4>1. DismissWeb(s, s, o, rest)
        BY <1>7, <2>1, <3>1, <3>2, NilAssumption DEF DismissInProgress
      <4>2. Closed(s)'
        BY <2>1, <3>2, <4>1 DEF DismissWeb, Closed
      <4> QED BY <1>4, <2>1, <2>2, <2>3, <4>2
    <3>3. CASE /\ agent[a].web = Nil /\ agent[a].safari = s
               /\ [kind |-> "web", for |-> s] \notin shown
      <4>1. DismissSafari(s, s, o, rest)
        BY <1>7, <2>1, <3>1, <3>3, NilAssumption DEF DismissInProgress, DismissWeb
      <4>2. Closed(s)'
        BY <2>1, <3>3, <4>1 DEF DismissSafari, Closed
      <4> QED BY <1>4, <2>1, <2>2, <2>3, <4>2
    <3> QED BY <3>1, <3>2, <3>3 DEF InHand, a
  <2> QED BY <2>4, <2>5
<1> QED BY <1>5, <1>6, <1>7 DEF Dismiss

LEMMA ResumeKeepsAccounted ==
  ASSUME Typed, CallbackInv, BusyInv, InUse(agent),
         ~ AgentReused, \A r \in Sessions : Accounted(r),
         NEW s \in Sessions, Presented(s), NEW url \in URLs,
         NEW agents \in [Agents -> AgentStates],
         Forgotten(agents, s), NEW rest \in SUBSET events,
         Resume(agents, s, url, rest), UNCHANGED <<presenter, fallback>>
  PROVE  \A r \in Sessions : Accounted(r)'
<1>1. CASE ResumeAccepts(agents, s, url, rest)
  BY <1>1, DismissKeepsAccounted DEF ResumeAccepts
<1>2. CASE ResumeIgnores(agents, url, rest) \/ ResumeRaises(agents, s, url, rest)
  <2>1. agent' = agents /\ events' = rest /\ UNCHANGED <<sessionVars, shown>>
    BY <1>2 DEF ResumeIgnores, ResumeRaises
  <2>2. CASE agents = agent
    <3> SUFFICES ASSUME NEW r \in Sessions PROVE Accounted(r)'
      OBVIOUS
    <3>1. Callbacks(r)' \subseteq Callbacks(r)
      BY <2>1 DEF Callbacks
    <3> QED BY <2>1, <2>2, <3>1, OthersStayAccounted DEF sessionVars
  <2>3. CASE agents # agent
    <3>1. Closed(s)'
      BY <2>1, <2>3 DEF Forgotten, Closed
    <3>2. presenter[s] \in Agents /\ DOMAIN pending = Sessions
      BY PresenterTyped DEF Typed, TypeOK
    <3>3. /\ \A b \in Agents \ {presenter[s]} : agent'[b] = agent[b]
          /\ agent'[presenter[s]].session = agent[presenter[s]].session
      BY <2>1, <2>3, <3>2 DEF Forgotten
    <3> QED BY <2>1, <3>1, <3>2, <3>3, FinishKeepsAccounted DEF sessionVars
  <2> QED BY <2>2, <2>3
<1> QED BY <1>1, <1>2 DEF Resume

LEMMA PresentKeepsAccounted ==
  ASSUME Typed, CallbackInv, \A r \in Sessions : Accounted(r),
         NEW s \in Sessions, NEW a \in Agents, Present(s, a), ~ AgentReused'
  PROVE  \A r \in Sessions : Accounted(r)'
<1>1. /\ ~ Presented(s) /\ events' = events /\ presenter' = [presenter EXCEPT ![s] = a]
      /\ \/ agent' = agent \/ agent' = CleanUp(agent, a)
         \/ \E web, safari : agent' = [agent EXCEPT ![a] = InProgress(s, web, safari)]
      /\ pending' = pending \/ pending' = [pending EXCEPT ![s] = TRUE]
      /\ fallback \subseteq fallback'
      /\ \/ shown' = shown
         \/ \E kind : shown' = shown \cup {[kind |-> kind, for |-> s]}
  BY DEF Present, PresentRefused, PresentFails, PresentUnstarted, PresentWeb,
         PresentSafari, PresentBrowser, PresentCustomBrowser, Shows,
         OpensInterface, CannotOpen, Keeps
<1>2. /\ DOMAIN pending = Sessions /\ DOMAIN presenter = Sessions
      /\ DOMAIN agent = Agents /\ s # Nil /\ a # Nil
  BY NilAssumption DEF Typed, TypeOK
<1>3. presenter'[s] = a
  BY <1>1, <1>2
<1>4. /\ \A kind : [kind |-> kind, for |-> s] \notin shown
      /\ Callbacks(s)' = {} /\ Handlers(s)' = {}
  <2>1. \A x \in shown : x.for # s
    BY <1>1 DEF Typed, OnlyPresented
  <2>2. \A e \in events : e.for # s
    BY <1>1 DEF Typed, OnlyPresented
  <2> QED BY <1>1, <2>1, <2>2 DEF Callbacks, Handlers
<1>5. ASSUME NEW r \in Sessions, r # s PROVE Accounted(r)'
  <2>1. Presented(r) => presenter[r] \in Agents /\ presenter[r] # a
    BY <1>1, <1>2, <1>3, <1>5, PresenterTyped DEF AgentReused, Presented, Typed
  <2>2. \A b \in Agents : b # a => agent'[b] = agent[b]
    BY <1>1, <1>2 DEF CleanUp
  <2>3. presenter'[r] = presenter[r] /\ pending'[r] = pending[r]
    BY <1>1, <1>2, <1>5
  <2>4. Callbacks(r)' \subseteq Callbacks(r)
    BY <1>1 DEF Callbacks
  <2>5. \A kind : [kind |-> kind, for |-> r] \in shown' => [kind |-> kind, for |-> r] \in shown
    BY <1>1, <1>5
  <2> QED BY <1>1, <2>1, <2>2, <2>3, <2>4, <2>5, OthersStayAccounted
<1>6. Closed(s)' \/ InHand(s)'
  <2>1. CASE shown' = shown
    BY <1>4, <2>1 DEF Closed
  <2>2. ASSUME NEW kind \in {"web", "safari", "browser"}, NEW web \in {s, Nil},
               NEW safari \in {s, Nil}, Shows(s, a, kind, web, safari),
               \/ kind = "browser"
               \/ kind = "web" /\ web = s
               \/ kind = "safari" /\ safari = s
        PROVE  Closed(s)' \/ InHand(s)'
    <3>1. /\ shown' = shown \cup {[kind |-> kind, for |-> s]}
          /\ agent' = [agent EXCEPT ![a] = InProgress(s, web, safari)]
          /\ pending' = [pending EXCEPT ![s] = TRUE]
          /\ kind = "safari" /\ web = s => s \in fallback'
      BY <2>2 DEF Shows, OpensInterface, Keeps
    <3>2. \A k : [kind |-> k, for |-> s] \in shown' => k = kind
      BY <1>4, <3>1
    <3>3. CASE kind = "browser" \/ (kind = "safari" /\ web = s)
      BY <3>1, <3>2, <3>3 DEF Closed
    <3>4. CASE (kind = "web" /\ web = s) \/ (kind = "safari" /\ web = Nil /\ safari = s)
      BY <1>2, <1>3, <3>1, <3>2, <3>4 DEF InHand, Presented, InProgress
    <3> QED BY <2>2, <3>3, <3>4
  <2>3. CASE PresentWeb(s, a) \/ PresentSafari(s, a) \/ PresentBrowser(s, a)
    BY <2>2, <2>3 DEF PresentWeb, PresentSafari, PresentBrowser
  <2>4. CASE PresentCustomBrowser(s, a)
    BY <1>4, <2>4 DEF PresentCustomBrowser, OpensInterface, Closed
  <2> QED BY <2>1, <2>3, <2>4
      DEF Present, PresentRefused, PresentFails, PresentUnstarted, CannotOpen
<1>7. Accounted(s)'
  BY <1>4, <1>6 DEF Accounted
<1> QED BY <1>5, <1>7

LEMMA ResumeKeepsInUse ==
  ASSUME Typed, NEW s \in Sessions, NEW url \in URLs,
         NEW agents \in [Agents -> AgentStates], InUse(agents),
         NEW rest \in SUBSET events, Resume(agents, s, url, rest)
  PROVE  InUse(agent')
<1>1. agent' = agents \/ \E a \in Agents : agent' = CleanUp(agents, a)
  BY OutcomesTyped, DismissTyped
     DEF Resume, ResumeIgnores, ResumeRaises, ResumeAccepts, Typed
<1> QED BY <1>1 DEF InUse, CleanUp, Clean, AgentStates

LEMMA StepKeepsInUse ==
  ASSUME Typed, InUse(agent), [Next]_vars
  PROVE  InUse(agent')
<1>1. \A e \in events : e \in EventSet /\ Presented(e.for)
  BY DEF Typed, TypeOK, OnlyPresented
<1>2. agent \in [Agents -> AgentStates]
  BY DEF Typed, TypeOK, AgentStates
<1>3. \A a \in Agents : InUse(CleanUp(agent, a))
  BY <1>2 DEF InUse, CleanUp, Clean, AgentStates
<1>4. ASSUME NEW s \in Sessions, NEW a \in Agents, Present(s, a) PROVE InUse(agent')
  <2>1. \/ agent' = agent \/ agent' = CleanUp(agent, a)
        \/ \E web, safari : agent' = [agent EXCEPT ![a] = InProgress(s, web, safari)]
    BY <1>4 DEF Present, PresentRefused, PresentFails, PresentUnstarted, PresentWeb,
       PresentSafari, PresentBrowser, PresentCustomBrowser, Shows, OpensInterface, CannotOpen
  <2> QED BY <1>2, <1>3, <2>1 DEF InUse, InProgress
<1>5. ASSUME NEW s \in Sessions, Cancel(s) PROVE InUse(agent')
  <2>1. agent' = agent \/ \E a \in Agents : agent' = CleanUp(agent, a)
    BY <1>2, <1>5, FixedOutcomes, DismissTyped DEF Cancel, Typed
  <2> QED BY <1>3, <2>1
<1>6. ASSUME NEW e \in events, WebHandler(e) PROVE InUse(agent')
  <2> DEFINE a == presenter[e.for]
             t == agent[a].session
             agents == [agent EXCEPT ![a].web = Nil]
  <2>1. e \in EventSet /\ e.kind = "webHandler"
    BY <1>1, <1>6 DEF WebHandler
  <2>2. a \in Agents /\ (e.url # Nil => e.url \in URLs)
    BY <1>1, <2>1, EventsTyped, PresenterTyped DEF Typed
  <2>3. t \in Sessions \cup {Nil}
    BY <1>2, <2>2 DEF AgentStates
  <2>4. agents \in [Agents -> AgentStates] /\ InUse(agents)
    BY <1>2, <2>2 DEF AgentStates, InUse
  <2>5. \/ agent' \in {agent, agents}
        \/ t # Nil /\ e.url # Nil /\ Resume(agents, t, e.url, events \ {e})
    BY <1>6 DEF WebHandler, Fail, agentVars
  <2>6. events \ {e} \in SUBSET events
    OBVIOUS
  <2> HIDE DEF a, t, agents
  <2> QED BY <2>2, <2>3, <2>4, <2>5, <2>6, ResumeKeepsInUse
<1>7. ASSUME NEW e \in events, SafariDidFinish(e) PROVE InUse(agent')
  BY <1>1, <1>3, <1>7, EventsTyped, PresenterTyped DEF SafariDidFinish, Typed
<1>8. ASSUME NEW e \in events, NEW s \in Sessions, OpenURL(e, s) PROVE InUse(agent')
  <2>1. e.url \in URLs /\ events \ {e} \in SUBSET events
    BY <1>1, <1>8, EventsTyped DEF OpenURL
  <2> QED BY <1>2, <1>8, <2>1, ResumeKeepsInUse DEF OpenURL
<1>9. ASSUME agent' = agent PROVE InUse(agent')
  BY <1>9
<1> QED BY <1>4, <1>5, <1>6, <1>7, <1>8, <1>9
        DEF Next, App, User, AppFails, WebEnds, SafariRedirects, SafariCloses,
            Dismissed, agentVars, vars

\* Presenting a session is the only step that gives it an agent.
LEMMA PresentPresents ==
  ASSUME NEW s \in Sessions, NEW a \in Agents, Present(s, a)
  PROVE  /\ ~ Presented(s) /\ presenter' = [presenter EXCEPT ![s] = a]
         /\ UNCHANGED <<careless, raised>>
  BY DEF Present, PresentRefused, PresentWeb, PresentSafari, PresentBrowser, PresentFails,
         PresentCustomBrowser, PresentUnstarted, Shows, OpensInterface, CannotOpen, Keeps

\* Carelessness is not forgotten.
LEMMA CarefulBefore ==
  ASSUME Typed, [Next]_vars, Careful'
  PROVE  Careful
<1>1. (careless => careless') /\ \A s \in Sessions : Presented(s) => presenter'[s] = presenter[s]
  <2>1. ASSUME NEW s \in Sessions, NEW a \in Agents, Present(s, a)
        PROVE  /\ careless' = careless
               /\ \A r \in Sessions : Presented(r) => presenter'[r] = presenter[r]
    BY <2>1, PresentPresents DEF Presented, Typed, TypeOK
  <2>2. ASSUME NEW s \in Sessions, Cancel(s) \/ AppFails(s) \/ User(s)
        PROVE  presenter' = presenter /\ (careless => careless')
    BY <2>2 DEF Cancel, AppFails, User, WebEnds, SafariRedirects, SafariCloses
  <2>3. ASSUME NEW e \in events, NEW s \in Sessions, OpenURL(e, s)
        PROVE  presenter' = presenter /\ (careless => careless')
    BY <2>3, Zenon DEF OpenURL
  <2>4. CASE UNCHANGED vars
    BY <2>4 DEF vars
  <2>5. ASSUME NEW e \in events, WebHandler(e) \/ SafariDidFinish(e) \/ Dismissed(e)
        PROVE  presenter' = presenter /\ (careless => careless')
    BY <2>5 DEF WebHandler, SafariDidFinish, Dismissed
  <2> QED BY <2>1, <2>2, <2>3, <2>4, <2>5 DEF Next, App
<1> QED BY <1>1 DEF Careful, AgentReused, Presented

\* With an agent for each session the web session's handler finds its own, or none.
LEMMA HandlerFindsOwn ==
  ASSUME Typed, BusyInv, InUse(agent), ~ AgentReused,
         NEW s \in Sessions, Presented(s), agent[presenter[s]].session # Nil
  PROVE  agent[presenter[s]].session = s
<1>1. presenter[s] \in Agents
  BY PresenterTyped DEF Typed
<1>2. agent[presenter[s]].session \in Sessions
  BY <1>1 DEF Typed, TypeOK
<1>3. presenter[agent[presenter[s]].session] = presenter[s]
  BY <1>1 DEF InUse, BusyInv, AgentFreeAfterSession
<1> QED BY <1>1, <1>2, <1>3, NilAssumption DEF AgentReused

LEMMA StepKeepsAccounted ==
  ASSUME Typed, CallbackInv, BusyInv, CarefulInv, Next, Careful'
  PROVE  \A r \in Sessions : Accounted(r)'
<1>1. ~ AgentReused /\ InUse(agent) /\ \A r \in Sessions : Accounted(r)
  BY CarefulBefore DEF CarefulInv, Careful
<1>2. \A e \in events : e \in EventSet /\ e.for \in Sessions /\ Presented(e.for)
  BY EventsTyped DEF Typed, TypeOK, OnlyPresented
<1>3. agent \in [Agents -> AgentStates] /\ DOMAIN pending = Sessions
  BY DEF Typed, TypeOK, AgentStates
<1>4. \A s \in Sessions : Forgotten(agent, s)
  BY DEF Forgotten
<1>5. ASSUME NEW s \in Sessions, App(s) PROVE \A r \in Sessions : Accounted(r)'
  <2>1. CASE Cancel(s)
    BY <1>1, <1>3, <1>4, <2>1, DismissKeepsAccounted DEF Cancel
  <2>2. ~ AppFails(s)
    BY DEF AppFails, Careful
  <2>3. ASSUME NEW a \in Agents, Present(s, a) PROVE \A r \in Sessions : Accounted(r)'
    BY <1>1, <2>3, PresentKeepsAccounted DEF Careful
  <2> QED BY <1>5, <2>1, <2>2, <2>3 DEF App
<1>6. ASSUME NEW s \in Sessions, User(s) PROVE \A r \in Sessions : Accounted(r)'
  <2>1. /\ UNCHANGED <<pending, agent, presenter, fallback>> /\ shown' \subseteq shown
        /\ Accounted(s)
    BY <1>1, <1>6 DEF User, WebEnds, SafariRedirects, SafariCloses, sessionVars, agentVars
  <2>2. ASSUME NEW r \in Sessions, Callbacks(r)' \subseteq Callbacks(r) PROVE Accounted(r)'
    BY <1>1, <2>1, <2>2, OthersStayAccounted
  <2>3. CASE SafariRedirects(s)
    <3>1. \A e \in events' : e \in events \/ e.kind = "openURL"
      BY <2>3 DEF SafariRedirects
    <3>2. \A r \in Sessions : Callbacks(r)' \subseteq Callbacks(r)
      BY <3>1 DEF Callbacks
    <3> QED BY <2>2, <3>2
  <2>4. CASE WebEnds(s)
    <3>0. PICK url \in URLs \cup {Nil} :
            events' = events \cup {[kind |-> "webHandler", for |-> s, url |-> url]}
      BY <2>4 DEF WebEnds
    <3> DEFINE d == [kind |-> "webHandler", for |-> s, url |-> url]
    <3>1. /\ events' = events \cup {d}
          /\ d.for = s /\ d.kind = "webHandler"
      BY <3>0
    <3> HIDE DEF d
    <3>2. \A r \in Sessions \ {s} : Callbacks(r)' \subseteq Callbacks(r)
      BY <3>1 DEF Callbacks
    <3>3. ~ Closed(s) /\ shown' = shown \ {[kind |-> "web", for |-> s]}
      BY <2>4 DEF WebEnds, Closed
    <3>4. InHand(s) /\ Callbacks(s) = {}
      BY <2>1, <3>3 DEF Accounted
    <3>5. Closed(s)'
      BY <2>4, <3>3, <3>4 DEF InHand, Closed, WebEnds
    <3>6. Handlers(s)' = {d} /\ pending'[s]
      BY <2>1, <3>1, <3>4 DEF Handlers, Callbacks, InHand
    <3>7. Accounted(s)'
      BY <3>5, <3>6 DEF Accounted
    <3> QED BY <2>2, <3>2, <3>7
  <2>5. CASE SafariCloses(s)
    <3> DEFINE d == [kind |-> "safariDidFinish", for |-> s]
    <3>1. events' = events \cup {d} /\ d.for = s /\ d.kind = "safariDidFinish"
      BY <2>5 DEF SafariCloses
    <3> HIDE DEF d
    <3>2. \A r \in Sessions \ {s} : Callbacks(r)' \subseteq Callbacks(r)
      BY <3>1 DEF Callbacks
    <3>3. /\ [kind |-> "safari", for |-> s] \in shown
          /\ shown' = shown \ {[kind |-> "safari", for |-> s]}
      BY <2>5 DEF SafariCloses
    <3>4. Closed(s)'
      BY <2>1, <3>3 DEF Accounted, InHand, Closed
    <3>5. Handlers(s)' = Handlers(s)
      BY <3>1 DEF Handlers
    <3>6. Accounted(s)'
      BY <2>1, <3>4, <3>5 DEF Accounted
    <3> QED BY <2>2, <3>2, <3>6
  <2> QED BY <1>6, <2>3, <2>4, <2>5 DEF User
<1>7. ASSUME NEW e \in events, WebHandler(e) PROVE \A r \in Sessions : Accounted(r)'
  <2> DEFINE s == e.for
             a == presenter[s]
             agents == [agent EXCEPT ![a].web = Nil]
  <2>1. /\ e \in EventSet /\ e.kind = "webHandler" /\ s \in Sessions /\ Presented(s)
        /\ UNCHANGED <<presenter, fallback>>
    BY <1>2, <1>7 DEF WebHandler
  <2>2. a \in Agents /\ (e.url # Nil => e.url \in URLs)
    BY <2>1, EventsTyped, PresenterTyped DEF Typed
  <2>3. agents \in [Agents -> AgentStates]
    BY <1>3, <2>2 DEF AgentStates
  <2>4. e \in Handlers(s) /\ Closed(s)
    BY <1>1, <2>1 DEF Accounted, Handlers, Callbacks
  <2>5. \A b \in Agents : /\ b # a => agents[b] = agent[b]
                          /\ agents[b].session = agent[b].session
                          /\ agents[b].inProgress = agent[b].inProgress
    BY <1>3, <2>2 DEF AgentStates
  <2>6. Forgotten(agents, s)
    BY <2>4, <2>5 DEF Forgotten
  <2>7. agent[a].session = Nil \/ agent[a].session = s
    BY <1>1, <2>1, HandlerFindsOwn
  <2>8. \/ UNCHANGED <<pending, shown>> /\ agent' \in {agent, agents} /\ events' = events \ {e}
        \/ e.url # Nil /\ Resume(agents, s, e.url, events \ {e})
        \/ /\ DidFinish(s, Outcome("userCancelled", Nil))
           /\ shown' = shown /\ agent' = agents /\ events' = events \ {e}
    BY <1>7, <2>7 DEF WebHandler, Fail, agentVars, sessionVars
  <2> HIDE DEF s, a, agents
  <2>9. CASE e.url # Nil /\ Resume(agents, s, e.url, events \ {e})
    <3>1. events \ {e} \in SUBSET events
      OBVIOUS
    <3> QED BY <1>1, <2>1, <2>2, <2>3, <2>6, <2>9, <3>1, ResumeKeepsAccounted
  <2>10. CASE events' = events \ {e} /\ shown' = shown /\ agent' \in {agent, agents}
              /\ (pending' = pending \/ DidFinish(s, Outcome("userCancelled", Nil)))
    <3>1. Closed(s)'
      BY <2>1, <2>4, <2>10 DEF Closed
    <3>2. Handlers(s)' = {}
      BY <1>1, <2>1, <2>4, <2>10 DEF Accounted, Handlers
    <3>3. /\ DOMAIN pending' = Sessions
          /\ \A r \in Sessions \ {s} : pending'[r] = pending[r]
          /\ \A b \in Agents \ {presenter[s]} : agent'[b] = agent[b]
      BY <1>3, <2>5, <2>10 DEF DidFinish, a
    <3> QED BY <1>1, <2>1, <2>10, <3>1, <3>2, <3>3, FinishKeepsAccounted
  <2> QED BY <2>8, <2>9, <2>10
<1>8. ASSUME NEW e \in events, SafariDidFinish(e) PROVE \A r \in Sessions : Accounted(r)'
  <2> DEFINE s == e.for
             a == presenter[s]
  <2>1. /\ e.kind = "safariDidFinish" /\ s \in Sessions /\ Presented(s)
        /\ UNCHANGED <<presenter, fallback, shown>> /\ events' = events \ {e}
    BY <1>2, <1>8 DEF SafariDidFinish, SafariDidFinish
  <2>2. a \in Agents
    BY <2>1, PresenterTyped DEF Typed
  <2>3. e \in Callbacks(s) /\ Closed(s)
    BY <1>1, <2>1 DEF Accounted, Callbacks
  <2>4. agent[a].inProgress => agent[a].session = s
    BY <1>1, <2>1, <2>2, HandlerFindsOwn DEF Typed, BusyAgentsServe, Serve
  <2>5. \/ UNCHANGED <<pending, agent>>
        \/ DidFinish(s, Outcome("userCancelled", Nil)) /\ agent' = CleanUp(agent, a)
    BY <1>8, <2>4 DEF SafariDidFinish, Fail, sessionVars
  <2> HIDE DEF s, a
  <2>6. Closed(s)'
    BY <2>1, <2>3 DEF Closed
  <2>7. /\ DOMAIN pending' = Sessions
        /\ \A r \in Sessions \ {s} : pending'[r] = pending[r]
        /\ \A b \in Agents \ {a} : agent'[b] = agent[b]
        /\ \/ agent'[a].session # s
           \/ pending'[s] = pending[s] /\ agent'[a].session = agent[a].session
    BY <1>3, <2>1, <2>2, <2>5, NilAssumption DEF DidFinish, CleanUp, Clean
  <2> QED BY <1>1, <2>1, <2>6, <2>7, FinishKeepsAccounted DEF a
<1>9. ASSUME NEW e \in events, Dismissed(e) PROVE \A r \in Sessions : Accounted(r)'
  <2> DEFINE s == e.for
             a == presenter[s]
  <2>1. /\ s \in Sessions /\ Presented(s) /\ Left(s) /\ DidFinish(s, e.outcome)
        /\ UNCHANGED <<presenter, fallback, shown, agent>> /\ events' = events \ {e}
    BY <1>2, <1>9 DEF Dismissed, agentVars, BusyInv
  <2>2. a \in Agents
    BY <2>1, PresenterTyped DEF Typed
  <2> HIDE DEF s, a
  <2>3. ~ InHand(s) /\ agent[a].session # s
    BY <1>1, <2>1, <2>2, NilAssumption DEF InHand, Left, InUse, a
  <2>4. Closed(s)'
    BY <1>1, <2>1, <2>3 DEF Accounted, Closed
  <2>5. /\ DOMAIN pending' = Sessions
        /\ \A r \in Sessions \ {s} : pending'[r] = pending[r]
    BY <1>3, <2>1 DEF DidFinish
  <2> QED BY <1>1, <2>1, <2>3, <2>4, <2>5, FinishKeepsAccounted DEF a
<1>10. ASSUME NEW e \in events, NEW s \in Sessions, OpenURL(e, s)
       PROVE  \A r \in Sessions : Accounted(r)'
  <2>1. e.url \in URLs /\ events \ {e} \in SUBSET events
    BY <1>2, <1>10, EventsTyped DEF OpenURL
  <2> QED BY <1>1, <1>3, <1>4, <1>10, <2>1, ResumeKeepsAccounted DEF OpenURL
<1> QED BY <1>5, <1>6, <1>7, <1>8, <1>9, <1>10 DEF Next

LEMMA CarefulInvHolds == Spec => []CarefulInv
<1>1. Init => CarefulInv
  BY DEF Init, CarefulInv, InUse, Clean, Accounted, Closed, Callbacks, Handlers
<1>2. Typed /\ CallbackInv /\ BusyInv /\ CarefulInv /\ [Next]_vars => CarefulInv'
  <2> SUFFICES ASSUME Typed, CallbackInv, BusyInv, CarefulInv, [Next]_vars
               PROVE  CarefulInv'
    OBVIOUS
  <2>1. InUse(agent)'
    BY StepKeepsInUse DEF CarefulInv
  <2>2. ASSUME Careful', UNCHANGED vars PROVE \A s \in Sessions : Accounted(s)'
    <3>1. \A s \in Sessions : Accounted(s)
      BY <2>2, CarefulBefore DEF CarefulInv
    <3>2. \A s \in Sessions : Callbacks(s)' = Callbacks(s)
      BY <2>2 DEF vars, Callbacks
    <3> QED BY <2>2, <3>1, <3>2, OthersStayAccounted DEF vars
  <2> QED BY <2>1, <2>2, StepKeepsAccounted DEF CarefulInv
<1> QED BY <1>1, <1>2, TypedHolds, CallbackInvHolds, BusyInvHolds, PTL DEF Spec

\* What is over has left the screen: InterfaceClosed, for careful apps.
THEOREM InterfaceIsClosed == Spec => []InterfaceClosed
<1>1. CallbackInv /\ CarefulInv => InterfaceClosed
  <2> SUFFICES ASSUME CallbackInv, CarefulInv, Careful, NEW s \in Sessions, told[s] # <<>>
               PROVE  Closed(s)
    BY DEF InterfaceClosed, Careful, Closed
  <2>1. ~ InHand(s)
    BY DEF CallbackInv, CallbackKeptUntilTold, InHand
  <2> QED BY <2>1 DEF CarefulInv, Accounted
<1> QED BY <1>1, CallbackInvHolds, CarefulInvHolds, PTL

\* The exception is met by careless apps only: RaisesOnlyIfMisused.
THEOREM RaisesForMisuse == Spec => []RaisesOnlyIfMisused
<1>1. Init => RaisesOnlyIfMisused
  BY DEF Init, RaisesOnlyIfMisused
<1>2. Typed /\ BusyInv /\ CarefulInv /\ RaisesOnlyIfMisused /\ [Next]_vars
        => RaisesOnlyIfMisused'
  <2> SUFFICES ASSUME Typed, BusyInv, CarefulInv, RaisesOnlyIfMisused, [Next]_vars,
                      Careful', raised'
               PROVE  FALSE
    BY DEF RaisesOnlyIfMisused, Careful
  <2>1. Careful /\ ~ raised
    BY CarefulBefore DEF RaisesOnlyIfMisused, Careful
  <2>2. Next
    BY <2>1 DEF vars
  <2>3. ASSUME NEW e \in events, WebHandler(e) PROVE FALSE
    <3> DEFINE t == agent[presenter[e.for]].session
    <3>1. e.kind = "webHandler" /\ e.for \in Sessions /\ Presented(e.for)
      BY <2>3, EventsTyped DEF WebHandler, Typed, TypeOK, OnlyPresented
    <3>2. t # Nil /\ ~ pending[t]
      BY <2>1, <2>3 DEF WebHandler, Resume, ResumeIgnores, ResumeAccepts, ResumeRaises, Fail
    <3>3. t = e.for
      BY <2>1, <3>1, <3>2, HandlerFindsOwn DEF CarefulInv, Careful
    <3>4. Handlers(e.for) # {} /\ Accounted(e.for)
      BY <2>1, <3>1 DEF Handlers, CarefulInv
    <3> QED BY <3>2, <3>3, <3>4 DEF Accounted
  <2>4. ASSUME NEW e \in events, NEW s \in Sessions, OpenURL(e, s) PROVE FALSE
    BY <2>1, <2>4
       DEF OpenURL, Resume, ResumeIgnores, ResumeAccepts, ResumeRaises, Careful
  <2>5. ASSUME NEW s \in Sessions, App(s) \/ User(s) PROVE raised' = raised
    BY <2>5, PresentPresents
       DEF App, User, Cancel, AppFails, WebEnds, SafariRedirects, SafariCloses
  <2>6. ASSUME NEW e \in events, SafariDidFinish(e) \/ Dismissed(e) PROVE raised' = raised
    BY <2>6 DEF SafariDidFinish, Dismissed
  <2> QED BY <2>1, <2>2, <2>3, <2>4, <2>5, <2>6 DEF Next
<1> QED BY <1>1, <1>2, TypedHolds, BusyInvHolds, CarefulInvHolds, PTL DEF Spec

-----------------------------------------------------------------------------
(* The first message, and the contract of SessionContract. *)

Dismissals == {e \in events : e.kind = "dismissed"}

SafariOnIOS(agents) == \A a \in Agents : agents[a].safari # Nil => a \in IOSAgents

AgentsArePresenters == \A s \in Sessions : agentOf[s] # Nil => agentOf[s] = presenter[s]

\* A dismissal under way finishes a session with an accepted message, ...
DismissalsFollow ==
  \A e \in Dismissals : /\ e.for \in Sessions /\ presenter[e.for] \in IOSAgents
                        /\ decided[e.for] # Nil /\ e.outcome \in Answers(e.for)

\* ... one is under way as long as a session has not told the message it accepted, ...
AcceptedIsOnItsWay ==
  \A s \in Sessions :
    decided[s] # Nil /\ told[s] = <<>> => \E e \in Dismissals : e.for = s

\* ... and no session waits for one without Safari on the screen.
FirmAgentsDecide ==
  \A s \in Sessions :
    presenter[s] \notin IOSAgents =>
      IF told[s] = <<>> THEN decided[s] = Nil ELSE told[s][1] = decided[s]

WaitInv ==
  SafariOnIOS(agent) /\ AgentsArePresenters /\ DismissalsFollow
    /\ AcceptedIsOnItsWay /\ FirmAgentsDecide

\* A step moves no session, ...
Still ==
  UNCHANGED <<pending, agentOf, told, decided, presenter>> /\ Dismissals' = Dismissals

\* ... presents one, ...
Opened(s, a) ==
  /\ ~ Presented(s)
  /\ pending' = [pending EXCEPT ![s] = TRUE]
  /\ agentOf' = [agentOf EXCEPT ![s] = a]
  /\ presenter' = [presenter EXCEPT ![s] = a]
  /\ UNCHANGED <<told, decided>> /\ Dismissals' = Dismissals

Refused(s, a) ==
  /\ ~ Presented(s)
  /\ told' = [told EXCEPT ![s] = Append(told[s], Outcome("openError", Nil))]
  /\ decided' = [decided EXCEPT ![s] = Outcome("openError", Nil)]
  /\ presenter' = [presenter EXCEPT ![s] = a]
  /\ UNCHANGED <<pending, agentOf>> /\ Dismissals' = Dismissals

\* ... finishes one, with a message or the dismissal that an earlier one began, ...
Finished(s, o) ==
  /\ o \in Answers(s) /\ DidFinish(s, o)
  /\ \/ Decides(s, o)
     \/ UNCHANGED decided /\ (pending[s] => decided[s] # Nil /\ presenter[s] \in IOSAgents)
  /\ UNCHANGED presenter
  /\ Dismissals' \subseteq Dismissals
  /\ \A e \in Dismissals \ Dismissals' : e.for = s

\* ... or has one accept a message, and Safari dismissed.
Accepted(s, o) ==
  /\ o \in Answers(s) /\ pending[s] /\ presenter[s] \in IOSAgents
  /\ Decides(s, o)
  /\ UNCHANGED <<pending, agentOf, told, presenter>>
  /\ Dismissals' = Dismissals \cup {[kind |-> "dismissed", for |-> s, outcome |-> o]}

OneMoves ==
  \/ Still
  \/ \E s \in Sessions, a \in Agents : Opened(s, a) \/ Refused(s, a)
  \/ \E s \in Sessions, o \in OutcomeSet : Finished(s, o) \/ Accepted(s, o)

\* Cleaning up and forgetting a web session show no Safari.
LEMMA CleanUpOnIOS ==
  ASSUME NEW agents \in [Agents -> AgentStates], SafariOnIOS(agents), NEW a
  PROVE  SafariOnIOS(CleanUp(agents, a))
  BY DEF SafariOnIOS, CleanUp, Clean

LEMMA RedirectsAnswer ==
  ASSUME NEW s \in Sessions, NEW url \in URLs
  PROVE  OutcomeOf(s, url) \in Answers(s)
  BY OutcomesTyped DEF Answers, OutcomeOf, EndSessionOutcome, AuthorizationOutcome, Outcome

LEMMA FixedAnswers ==
  \A s \in Sessions, kind \in {"cancelled", "userCancelled"} : Outcome(kind, Nil) \in Answers(s)
  BY FixedOutcomes DEF Answers, Outcome

LEMMA DismissMoves ==
  ASSUME Typed, CallbackInv, WaitInv, NEW s \in Sessions, NEW o \in Answers(s),
         NEW agents \in [Agents -> AgentStates], SafariOnIOS(agents),
         NEW rest \in SUBSET events, Dismissals \subseteq rest,
         Decides(s, o), Dismiss(agents, s, o, rest), UNCHANGED presenter
  PROVE  OneMoves /\ SafariOnIOS(agent)'
<1>0. o \in OutcomeSet
  BY DEF Answers
<1>1. CASE DismissNil(agents, s, rest)
  <2>1. ~ pending[s]
    BY <1>1 DEF DismissNil, CallbackInv, CallbackKeptUntilTold
  <2>2. Still
    BY <1>1, <2>1 DEF DismissNil, Decides, Still, sessionVars, Dismissals
  <2> QED BY <1>1, <2>2 DEF OneMoves, DismissNil, SafariOnIOS
<1>2. CASE DismissIdle(agents, s, o, rest)
  <2>1. Finished(s, o)
    BY <1>2 DEF DismissIdle, Finished, Dismissals
  <2> QED BY <1>0, <1>2, <2>1 DEF OneMoves, DismissIdle, SafariOnIOS
<1>3. CASE DismissInProgress(agents, s, o, rest)
  <2> DEFINE a == agentOf[s]
             d == [kind |-> "dismissed", for |-> s, outcome |-> o]
  <2>1. a \in Agents /\ a = presenter[s] /\ agent' = CleanUp(agents, a)
    BY <1>3 DEF DismissInProgress, Typed, TypeOK, WaitInv, AgentsArePresenters
  <2>2. SafariOnIOS(agent)'
    BY <2>1, CleanUpOnIOS DEF SafariOnIOS
  <2>3. CASE DidFinish(s, o) /\ events' = rest
    <3>1. Finished(s, o)
      BY <2>3 DEF Finished, Dismissals
    <3> QED BY <1>0, <2>2, <3>1 DEF OneMoves
  <2>4. CASE DismissSafari(s, agents[a].safari, o, rest)
    <3>1. presenter[s] \in IOSAgents /\ UNCHANGED sessionVars /\ events' = rest \cup {d}
      BY <2>1, <2>4 DEF DismissSafari, SafariOnIOS
    <3>2. pending[s]
      BY <1>3 DEF DismissInProgress, CallbackInv, CallbackKeptUntilTold
    <3>3. Dismissals' = Dismissals \cup {d}
      <4>1. d.kind = "dismissed"
        OBVIOUS
      <4> HIDE DEF d
      <4> QED BY <3>1, <4>1 DEF Dismissals
    <3>4. Accepted(s, o)
      BY <3>1, <3>2, <3>3 DEF Accepted, sessionVars
    <3> QED BY <1>0, <2>2, <3>4 DEF OneMoves
  <2> QED BY <1>3, <2>3, <2>4
          DEF DismissInProgress, DismissWeb, DismissNothing
<1> QED BY <1>1, <1>2, <1>3 DEF Dismiss

LEMMA ResumeMoves ==
  ASSUME Typed, CallbackInv, WaitInv, NEW s \in Sessions, NEW url \in URLs,
         NEW agents \in [Agents -> AgentStates], SafariOnIOS(agents),
         NEW rest \in SUBSET events, Dismissals \subseteq rest,
         Resume(agents, s, url, rest), UNCHANGED presenter
  PROVE  OneMoves /\ SafariOnIOS(agent)'
<1>1. CASE ResumeAccepts(agents, s, url, rest)
  BY <1>1, RedirectsAnswer, DismissMoves DEF ResumeAccepts
<1>2. CASE ResumeIgnores(agents, url, rest) \/ ResumeRaises(agents, s, url, rest)
  <2>1. /\ agent' = agents /\ events' = rest
        /\ UNCHANGED <<pending, agentOf, told, decided>>
    BY <1>2 DEF ResumeIgnores, ResumeRaises, sessionVars
  <2>2. Still
    BY <2>1 DEF Still, Dismissals
  <2> QED BY <2>1, <2>2 DEF OneMoves, SafariOnIOS
<1> QED BY <1>1, <1>2 DEF Resume

LEMMA FailMoves ==
  ASSUME NEW s \in Sessions, Fail(s, Outcome("userCancelled", Nil)),
         UNCHANGED presenter, Dismissals' = Dismissals
  PROVE  OneMoves
<1>1. Outcome("userCancelled", Nil) \in Answers(s) \cap OutcomeSet
  BY FixedAnswers DEF Answers
<1>2. Finished(s, Outcome("userCancelled", Nil))
  BY <1>1 DEF Fail, Finished
<1> QED BY <1>1, <1>2 DEF OneMoves

LEMMA PresentMoves ==
  ASSUME Typed, WaitInv, NEW s \in Sessions, NEW a \in Agents, Present(s, a)
  PROVE  OneMoves /\ SafariOnIOS(agent)'
<1>1. Opened(s, a) \/ Refused(s, a)
  BY DEF Present, PresentRefused, PresentWeb, PresentSafari, PresentBrowser, PresentFails,
         PresentCustomBrowser, PresentUnstarted, Shows, OpensInterface, CannotOpen, Keeps,
         Opened, Refused, Dismissals
<1>2. agent \in [Agents -> AgentStates] /\ SafariOnIOS(agent)
  BY DEF Typed, TypeOK, AgentStates, WaitInv
<1>3. ASSUME NEW web, NEW safari, safari # Nil => a \in IOSAgents,
             agent' = [agent EXCEPT ![a] = InProgress(s, web, safari)]
      PROVE  SafariOnIOS(agent)'
  <2>1. /\ agent'[a].safari = safari
        /\ \A b \in Agents \ {a} : agent'[b] = agent[b]
    BY <1>2, <1>3 DEF InProgress
  <2> QED BY <1>2, <1>3, <2>1 DEF SafariOnIOS
<1>4. agent' \in {agent, CleanUp(agent, a)} => SafariOnIOS(agent)'
  BY <1>2, CleanUpOnIOS DEF SafariOnIOS
<1>5. SafariOnIOS(agent)'
  BY <1>3, <1>4
     DEF Present, PresentRefused, PresentWeb, PresentSafari, PresentBrowser, PresentFails,
         PresentCustomBrowser, PresentUnstarted, Shows
<1> QED BY <1>1, <1>5 DEF OneMoves

\* Every step is such a move.
LEMMA EveryStepMoves ==
  ASSUME Typed, CallbackInv, WaitInv, [Next]_vars
  PROVE  OneMoves /\ SafariOnIOS(agent)'
<1>0. /\ agent \in [Agents -> AgentStates] /\ SafariOnIOS(agent)
      /\ \A e \in events : e \in EventSet /\ e.for \in Sessions /\ Presented(e.for)
  BY EventsTyped DEF Typed, TypeOK, AgentStates, WaitInv, OnlyPresented
<1>1. UNCHANGED agent => SafariOnIOS(agent)'
  BY <1>0 DEF SafariOnIOS
<1>2. Still => OneMoves
  BY DEF OneMoves
<1>3. ASSUME NEW e \in events, e.kind # "dismissed", events' = events \ {e}
      PROVE  Dismissals' = Dismissals /\ Dismissals \subseteq events \ {e}
  BY <1>3 DEF Dismissals
<1>4. CASE UNCHANGED vars
  BY <1>1, <1>2, <1>4 DEF vars, Still, Dismissals
<1>5. ASSUME NEW s \in Sessions, Cancel(s) PROVE OneMoves /\ SafariOnIOS(agent)'
  <2>1. Dismissals \subseteq events /\ Outcome("cancelled", Nil) \in Answers(s)
    BY FixedAnswers DEF Dismissals
  <2> QED BY <1>0, <1>5, <2>1, DismissMoves DEF Cancel
<1>6. ASSUME NEW s \in Sessions, AppFails(s) PROVE OneMoves /\ SafariOnIOS(agent)'
  BY <1>1, <1>6, FailMoves DEF AppFails, agentVars, Dismissals
<1>7. ASSUME NEW s \in Sessions, User(s) PROVE OneMoves /\ SafariOnIOS(agent)'
  <2>1. /\ UNCHANGED <<sessionVars, agent, decided, presenter>>
        /\ \E d : d.kind # "dismissed" /\ events' = events \cup {d}
    <3>1. UNCHANGED <<sessionVars, agent, decided, presenter>>
      BY <1>7 DEF User, WebEnds, SafariRedirects, SafariCloses, agentVars
    <3>2. ASSUME NEW url, events' = events \cup {[kind |-> "webHandler", for |-> s, url |-> url]}
          PROVE  \E d : d.kind # "dismissed" /\ events' = events \cup {d}
      <4> WITNESS [kind |-> "webHandler", for |-> s, url |-> url]
      <4> QED BY <3>2
    <3>3. ASSUME NEW url, events' = events \cup {[kind |-> "openURL", for |-> s, url |-> url]}
          PROVE  \E d : d.kind # "dismissed" /\ events' = events \cup {d}
      <4> WITNESS [kind |-> "openURL", for |-> s, url |-> url]
      <4> QED BY <3>3
    <3>4. ASSUME events' = events \cup {[kind |-> "safariDidFinish", for |-> s]}
          PROVE  \E d : d.kind # "dismissed" /\ events' = events \cup {d}
      <4> WITNESS [kind |-> "safariDidFinish", for |-> s]
      <4> QED BY <3>4
    <3> QED BY <1>7, <3>1, <3>2, <3>3, <3>4 DEF User, WebEnds, SafariRedirects, SafariCloses
  <2>2. Still
    BY <2>1 DEF Still, sessionVars, Dismissals
  <2> QED BY <1>1, <1>2, <2>1, <2>2
<1>8. ASSUME NEW e \in events, WebHandler(e) PROVE OneMoves /\ SafariOnIOS(agent)'
  <2> DEFINE a == presenter[e.for]
             t == agent[a].session
             agents == [agent EXCEPT ![a].web = Nil]
  <2>1. e.kind = "webHandler" /\ UNCHANGED presenter /\ (e.url # Nil => e.url \in URLs)
    BY <1>0, <1>8, EventsTyped DEF WebHandler
  <2>2. a \in Agents /\ t \in Sessions \cup {Nil}
    BY <1>0, PresenterTyped DEF Typed, AgentStates
  <2>3. agents \in [Agents -> AgentStates] /\ SafariOnIOS(agents)
    BY <1>0, <2>2 DEF AgentStates, SafariOnIOS
  <2>4. \/ /\ UNCHANGED <<sessionVars, decided>> /\ agent' \in {agent, agents}
           /\ events' = events \ {e}
        \/ t # Nil /\ e.url # Nil /\ Resume(agents, t, e.url, events \ {e})
        \/ /\ t # Nil /\ Fail(t, Outcome("userCancelled", Nil))
           /\ agent' = agents /\ events' = events \ {e}
    BY <1>8 DEF WebHandler, agentVars
  <2> HIDE DEF a, t, agents
  <2>5. agent' \in {agent, agents} => SafariOnIOS(agent)'
    BY <1>0, <2>3 DEF SafariOnIOS
  <2>6. CASE /\ UNCHANGED <<sessionVars, decided>> /\ agent' \in {agent, agents}
             /\ events' = events \ {e}
    BY <1>2, <1>3, <2>1, <2>5, <2>6 DEF Still, sessionVars
  <2>7. CASE t # Nil /\ e.url # Nil /\ Resume(agents, t, e.url, events \ {e})
    <3>1. Dismissals \subseteq events \ {e}
      BY <2>1 DEF Dismissals
    <3> QED BY <2>1, <2>2, <2>3, <2>7, <3>1, ResumeMoves
  <2>8. CASE /\ t # Nil /\ Fail(t, Outcome("userCancelled", Nil))
             /\ agent' = agents /\ events' = events \ {e}
    BY <1>3, <2>1, <2>2, <2>5, <2>8, FailMoves
  <2> QED BY <2>4, <2>6, <2>7, <2>8
<1>9. ASSUME NEW e \in events, SafariDidFinish(e) PROVE OneMoves /\ SafariOnIOS(agent)'
  <2> DEFINE a == presenter[e.for]
             t == agent[a].session
  <2>1. /\ e.kind = "safariDidFinish" /\ events' = events \ {e} /\ UNCHANGED presenter
        /\ \/ /\ agent[a].inProgress /\ Fail(t, Outcome("userCancelled", Nil))
              /\ agent' = CleanUp(agent, a)
           \/ UNCHANGED <<sessionVars, agent, decided>>
    BY <1>9 DEF SafariDidFinish
  <2>2. agent[a].inProgress => t \in Sessions
    <3>1. a \in Agents
      BY <1>0, PresenterTyped DEF Typed
    <3> QED BY <1>0, <3>1 DEF AgentStates, Typed, BusyAgentsServe, Serve
  <2> HIDE DEF a, t
  <2>3. Dismissals' = Dismissals
    BY <1>3, <2>1
  <2>4. CASE UNCHANGED <<sessionVars, agent, decided>>
    BY <1>1, <1>2, <2>1, <2>3, <2>4 DEF Still, sessionVars
  <2>5. CASE /\ agent[a].inProgress /\ Fail(t, Outcome("userCancelled", Nil))
             /\ agent' = CleanUp(agent, a)
    <3>1. SafariOnIOS(agent)'
      BY <1>0, <2>5, CleanUpOnIOS DEF SafariOnIOS
    <3> QED BY <2>1, <2>2, <2>3, <2>5, <3>1, FailMoves
  <2> QED BY <2>1, <2>4, <2>5
<1>10. ASSUME NEW e \in events, Dismissed(e) PROVE OneMoves /\ SafariOnIOS(agent)'
  <2>1. e \in Dismissals
    BY <1>10 DEF Dismissed, Dismissals
  <2>2. /\ e.for \in Sessions /\ presenter[e.for] \in IOSAgents /\ decided[e.for] # Nil
        /\ e.outcome \in Answers(e.for) /\ e.outcome \in OutcomeSet
    BY <2>1 DEF WaitInv, DismissalsFollow, Answers
  <2>3. Finished(e.for, e.outcome)
    BY <1>10, <2>2 DEF Finished, Dismissed, Dismissals
  <2>4. UNCHANGED agent
    BY <1>10 DEF Dismissed, agentVars
  <2> QED BY <1>1, <2>2, <2>3, <2>4 DEF OneMoves
<1>11. ASSUME NEW e \in events, NEW s \in Sessions, OpenURL(e, s)
       PROVE  OneMoves /\ SafariOnIOS(agent)'
  <2>1. e.url \in URLs /\ e.kind = "openURL" /\ Resume(agent, s, e.url, events \ {e})
        /\ UNCHANGED presenter
    BY <1>0, <1>11, EventsTyped DEF OpenURL
  <2>2. Dismissals \subseteq events \ {e}
    BY <2>1 DEF Dismissals
  <2> QED BY <1>0, <2>1, <2>2, ResumeMoves
<1> QED BY <1>4, <1>5, <1>6, <1>7, <1>8, <1>9, <1>10, <1>11, PresentMoves DEF Next, App

LEMMA MovesKeepWaitInv ==
  ASSUME Typed, CallbackInv, WaitInv, OneMoves, SafariOnIOS(agent)'
  PROVE  WaitInv'
<1>0. /\ pending \in [Sessions -> BOOLEAN] /\ DOMAIN agentOf = Sessions
      /\ DOMAIN told = Sessions /\ DOMAIN decided = Sessions /\ DOMAIN presenter = Sessions
      /\ \A s \in Sessions : told[s] \in Seq(OutcomeSet)
      /\ \A o \in OutcomeSet : o # Nil
  BY NilIsNoOutcome DEF Typed, TypeOK
<1>1. /\ \A s \in Sessions : pending[s] <=> agentOf[s] # Nil
      /\ \A s \in Sessions : Presented(s) => (pending[s] <=> told[s] = <<>>)
      /\ \A s \in Sessions : ~ Presented(s) => ~ pending[s] /\ told[s] = <<>>
  BY DEF CallbackInv, CallbackKeptUntilTold
<1>2. Nil \notin IOSAgents
  BY NilAssumption DEF IOSAgents
<1>3. ASSUME NEW s \in Sessions, NEW o \in OutcomeSet, told[s] = <<>>
      PROVE  Append(told[s], o) # <<>> /\ Append(told[s], o)[1] = o
  BY <1>3
<1> USE DEF WaitInv, AgentsArePresenters, DismissalsFollow, AcceptedIsOnItsWay, FirmAgentsDecide
<1>4. CASE Still
  BY <1>4 DEF Still
<1>5. ASSUME NEW s \in Sessions, NEW a \in Agents, Opened(s, a) PROVE WaitInv'
  <2>1. /\ ~ Presented(s) /\ told[s] = <<>> /\ presenter'[s] = a /\ agentOf'[s] = a
        /\ decided[s] = Nil
        /\ \A r \in Sessions \ {s} : presenter'[r] = presenter[r] /\ agentOf'[r] = agentOf[r]
        /\ UNCHANGED <<told, decided>> /\ Dismissals' = Dismissals
    BY <1>0, <1>1, <1>2, <1>5 DEF Opened, Presented
  <2>2. \A e \in Dismissals : e.for # s
    BY <1>2, <2>1 DEF Presented
  <2> QED BY <2>1, <2>2
<1>6. ASSUME NEW s \in Sessions, NEW a \in Agents, Refused(s, a) PROVE WaitInv'
  <2> DEFINE o == Outcome("openError", Nil)
  <2>1. /\ ~ Presented(s) /\ told[s] = <<>> /\ presenter'[s] = a /\ agentOf[s] = Nil
        /\ told'[s] = Append(told[s], o) /\ decided'[s] = o
        /\ \A r \in Sessions \ {s} :
             presenter'[r] = presenter[r] /\ told'[r] = told[r] /\ decided'[r] = decided[r]
        /\ UNCHANGED agentOf /\ Dismissals' = Dismissals
    BY <1>0, <1>1, <1>2, <1>6 DEF Refused
  <2>2. \A e \in Dismissals : e.for # s
    BY <1>2, <2>1 DEF Presented
  <2>3. told'[s] # <<>> /\ told'[s][1] = o
    BY <1>3, <2>1, FixedOutcomes
  <2> HIDE DEF o
  <2> QED BY <2>1, <2>2, <2>3
<1>7. ASSUME NEW s \in Sessions, NEW o \in OutcomeSet, Finished(s, o) PROVE WaitInv'
  <2>1. /\ agentOf'[s] = Nil /\ UNCHANGED presenter
        /\ told'[s] = IF pending[s] THEN Append(told[s], o) ELSE told[s]
        /\ \A r \in Sessions \ {s} :
             agentOf'[r] = agentOf[r] /\ told'[r] = told[r] /\ decided'[r] = decided[r]
        /\ Dismissals' \subseteq Dismissals
        /\ \A e \in Dismissals \ Dismissals' : e.for = s
        /\ decided'[s] = IF pending[s] /\ decided[s] = Nil THEN o ELSE decided[s]
    BY <1>0, <1>7 DEF Finished, DidFinish, Decides
  <2>2. pending[s] => told[s] = <<>> /\ Presented(s) /\ told'[s] # <<>> /\ told'[s][1] = o
    BY <1>1, <1>3, <2>1
  <2>3. pending[s] /\ presenter[s] \notin IOSAgents => decided[s] = Nil
    BY <2>2
  <2>4. DismissalsFollow'
    BY <1>0, <2>1
  <2>5. AcceptedIsOnItsWay'
    <3>1. ~ pending[s] /\ told[s] = <<>> => decided[s] = Nil
      <4>1. ~ pending[s] /\ told[s] = <<>> => presenter[s] = Nil
        BY <1>1 DEF Presented
      <4> QED BY <1>2, <4>1
    <3> QED BY <2>1, <2>2, <3>1, ZenonT(40)
  <2>6. FirmAgentsDecide'
    <3>1. CASE pending[s]
      BY <2>1, <2>2, <2>3, <3>1
    <3>2. CASE ~ pending[s]
      BY <2>1, <3>2
    <3> QED BY <3>1, <3>2
  <2>7. AgentsArePresenters'
    BY <2>1
  <2> QED BY <2>4, <2>5, <2>6, <2>7
<1>8. ASSUME NEW s \in Sessions, NEW o \in OutcomeSet, Accepted(s, o) PROVE WaitInv'
  <2> DEFINE d == [kind |-> "dismissed", for |-> s, outcome |-> o]
  <2>1. /\ UNCHANGED <<agentOf, told, presenter>> /\ Dismissals' = Dismissals \cup {d}
        /\ d.for = s /\ d.outcome = o /\ o \in Answers(s) /\ presenter[s] \in IOSAgents
        /\ decided'[s] # Nil
        /\ \A r \in Sessions \ {s} : decided'[r] = decided[r]
    BY <1>0, <1>8 DEF Accepted, Decides
  <2> HIDE DEF d
  <2>2. DismissalsFollow'
    <3>1. \A r \in Sessions : decided[r] # Nil => decided'[r] # Nil
      BY <2>1
    <3>2. ASSUME NEW e \in Dismissals' PROVE /\ e.for \in Sessions /\ presenter'[e.for] \in IOSAgents
                        /\ decided'[e.for] # Nil /\ e.outcome \in Answers(e.for)
      BY <2>1, <3>1, <3>2
    <3> QED BY <3>2 DEF Answers
  <2> QED BY <2>1, <2>2
<1> QED BY <1>4, <1>5, <1>6, <1>7, <1>8 DEF OneMoves

LEMMA InitWaitInv == Init => WaitInv
<1> SUFFICES ASSUME Init PROVE WaitInv
  OBVIOUS
<1>1. Dismissals = {}
  BY DEF Init, Dismissals
<1>2. \A a \in Agents : agent[a].safari = Nil
  BY DEF Init, Clean
<1>3. \A s \in Sessions : agentOf[s] = Nil /\ decided[s] = Nil /\ told[s] = <<>>
  BY DEF Init
<1> QED BY <1>1, <1>2, <1>3
        DEF WaitInv, SafariOnIOS, AgentsArePresenters, DismissalsFollow, AcceptedIsOnItsWay,
            FirmAgentsDecide

LEMMA WaitInvHolds == Spec => []WaitInv
  BY InitWaitInv, EveryStepMoves, MovesKeepWaitInv, TypedHolds, CallbackInvHolds, PTL DEF Spec

\* A session that has accepted a message calls its callback or has Safari's
\* dismissal under way, which is to call it: the safety half of AcceptedIsAnswered.
THEOREM AcceptedIsWaited == Spec => []AcceptedIsOnItsWay
<1>1. WaitInv => AcceptedIsOnItsWay
  BY DEF WaitInv
<1> QED BY <1>1, WaitInvHolds, PTL

\* Cancel and resume have no effect after one another for sessions of the Mac, the
\* Catalyst and the custom browser's agent, whatever else the app does: what
\* OIDExternalUserAgentSession.h:31-32 and 60 say fails only with Safari.
THEOREM FirstDecidesWithoutSafari ==
  Spec => [](\A s \in Sessions :
               told[s] # <<>> /\ presenter[s] \notin IOSAgents => told[s][1] = decided[s])
<1>1. WaitInv => \A s \in Sessions :
        told[s] # <<>> /\ presenter[s] \notin IOSAgents => told[s][1] = decided[s]
  BY DEF WaitInv, FirmAgentsDecide
<1> QED BY <1>1, WaitInvHolds, PTL

LEMMA InitContract == Init => Contract!Init
<1> SUFFICES ASSUME Init PROVE Contract!Init
  OBVIOUS
<1>1. \A s \in Sessions : Stage(s) = "none"
  BY DEF Init, Stage, Presented
<1> QED BY <1>1 DEF Init, Contract!Init

\* A move is the step of the contract that its name says, or none.
LEMMA MovesKeepContract ==
  ASSUME Typed, CallbackInv, WaitInv, OneMoves
  PROVE  Contract!Next \/ UNCHANGED Contract!vars
<1> DEFINE stage == [s \in Sessions |-> Stage(s)]
           AnswersTo == [s \in Sessions |-> Answers(s)]
<1>0. /\ pending \in [Sessions -> BOOLEAN] /\ DOMAIN agentOf = Sessions
      /\ told \in [Sessions -> Seq(OutcomeSet)] /\ DOMAIN decided = Sessions
      /\ DOMAIN presenter = Sessions
      /\ \A o \in OutcomeSet : o # Nil
  BY NilIsNoOutcome DEF Typed, TypeOK
<1>1. /\ \A s \in Sessions : pending[s] <=> agentOf[s] # Nil
      /\ \A s \in Sessions : Presented(s) => (pending[s] <=> told[s] = <<>>)
      /\ \A s \in Sessions : ~ Presented(s) => ~ pending[s] /\ told[s] = <<>>
  BY DEF CallbackInv, CallbackKeptUntilTold
<1>2. Nil \notin Agents
  BY NilAssumption
<1>3. \A s \in Sessions : ~ Presented(s) => decided[s] = Nil
  <2>1. \A s \in Sessions : ~ Presented(s) => presenter[s] \notin IOSAgents /\ told[s] = <<>>
    BY <1>1, <1>2 DEF Presented, IOSAgents
  <2> QED BY <2>1 DEF WaitInv, FirmAgentsDecide
<1>4. ASSUME NEW s \in Sessions, NEW to, Stage(s)' = to,
             \A r \in Sessions \ {s} : Stage(r)' = Stage(r)
      PROVE  stage' = [stage EXCEPT ![s] = to]
  BY <1>4
<1>5. ASSUME NEW s \in Sessions, NEW o \in OutcomeSet, told[s] = <<>>
      PROVE  Append(told[s], o) = <<o>>
  BY <1>5
<1>6. CASE Still
  <2>1. \A s \in Sessions : Stage(s)' = Stage(s)
    BY <1>6 DEF Still, Stage, Presented
  <2> QED BY <1>6, <2>1 DEF Still, Contract!vars
<1>7. ASSUME NEW s \in Sessions, NEW a \in Agents, Opened(s, a)
      PROVE  Contract!Open(s)
  <2>1. Stage(s) = "none" /\ Stage(s)' \in {"patient", "firm"}
    BY <1>0, <1>2, <1>7 DEF Opened, Stage, Presented
  <2>2. \A r \in Sessions \ {s} : Stage(r)' = Stage(r)
    BY <1>0, <1>7 DEF Opened, Stage, Presented
  <2>3. stage[s] = "none" /\ stage' = [stage EXCEPT ![s] = Stage(s)']
    BY <1>4, <2>1, <2>2
  <2> HIDE DEF stage
  <2> QED BY <1>7, <2>1, <2>3 DEF Opened, Contract!Open, Contract!Move, stage
<1>8. ASSUME NEW s \in Sessions, NEW a \in Agents, Refused(s, a)
      PROVE  Contract!Refuse(s)
  <2> DEFINE o == Outcome("openError", Nil)
  <2>0. o \in OutcomeSet
    BY FixedOutcomes
  <2>1. Stage(s) = "none" /\ Stage(s)' = "over"
    BY <1>0, <1>1, <1>2, <1>8 DEF Refused, Stage, Presented
  <2>2. \A r \in Sessions \ {s} : Stage(r)' = Stage(r)
    BY <1>0, <1>8 DEF Refused, Stage, Presented
  <2>3. stage[s] = "none" /\ stage' = [stage EXCEPT ![s] = "over"]
    BY <1>4, <2>1, <2>2
  <2>4. /\ told' = [told EXCEPT ![s] = <<o>>] /\ decided[s] = Nil
        /\ decided' = [decided EXCEPT ![s] = o]
    BY <1>1, <1>3, <1>5, <1>8, <2>0 DEF Refused
  <2> HIDE DEF stage, o
  <2> QED BY <2>3, <2>4
          DEF Contract!Refuse, Contract!Move, Contract!Tell, Contract!Decide, stage, o
<1>9. ASSUME NEW s \in Sessions, NEW o \in OutcomeSet, Accepted(s, o)
      PROVE  Contract!Accept(s, o) \/ UNCHANGED Contract!vars
  <2>1. Stage(s) = "patient"
    BY <1>1, <1>9 DEF Accepted, Stage
  <2>2. \A r \in Sessions : Stage(r)' = Stage(r)
    BY <1>9 DEF Accepted, Stage, Presented
  <2>3. stage[s] = "patient" /\ UNCHANGED <<stage, told>>
    BY <1>9, <2>1, <2>2 DEF Accepted
  <2>4. \/ decided[s] = Nil /\ decided' = [decided EXCEPT ![s] = o]
        \/ UNCHANGED decided
    BY <1>9 DEF Accepted, Decides
  <2> HIDE DEF stage
  <2> QED BY <2>3, <2>4 DEF Contract!Accept, Contract!Decide, Contract!vars, stage
<1>10. ASSUME NEW s \in Sessions, NEW o \in OutcomeSet, Finished(s, o)
       PROVE  Contract!Settle(s, o) \/ Contract!SettleLater(s, o) \/ UNCHANGED Contract!vars
  <2>1. \A r \in Sessions \ {s} : Stage(r)' = Stage(r)
    BY <1>0, <1>10 DEF Finished, DidFinish, Stage, Presented
  <2>2. CASE ~ pending[s]
    <3>1. UNCHANGED <<told, decided>>
      BY <1>10, <2>2 DEF Finished, DidFinish, Decides
    <3>2. Stage(s)' = Stage(s)
      BY <1>0, <1>10, <2>2 DEF Finished, DidFinish, Stage, Presented
    <3>3. UNCHANGED stage
      BY <2>1, <3>2
    <3> HIDE DEF stage
    <3> QED BY <3>1, <3>3 DEF Contract!vars, stage
  <2>3. CASE pending[s]
    <3>1. /\ Presented(s) /\ told[s] = <<>> /\ agentOf[s] # Nil
          /\ Stage(s)' = "over"
          /\ Stage(s) = IF presenter[s] \in IOSAgents THEN "patient" ELSE "firm"
      BY <1>0, <1>1, <1>10, <2>3 DEF Finished, DidFinish, Stage, Presented
    <3>2. /\ stage[s] = IF presenter[s] \in IOSAgents THEN "patient" ELSE "firm"
          /\ stage' = [stage EXCEPT ![s] = "over"]
      BY <1>4, <2>1, <3>1
    <3>3. told' = [told EXCEPT ![s] = <<o>>]
      BY <1>5, <1>10, <2>3, <3>1 DEF Finished, DidFinish
    <3>4. CASE decided[s] = Nil
      <4>1. decided' = [decided EXCEPT ![s] = o]
        BY <1>10, <2>3, <3>4 DEF Finished, Decides
      <4> HIDE DEF stage
      <4> QED BY <3>2, <3>3, <3>4, <4>1
              DEF Contract!Settle, Contract!Move, Contract!Tell, Contract!Decide, stage
    <3>5. CASE decided[s] # Nil
      <4>1. UNCHANGED decided
        BY <1>10, <3>5 DEF Finished, Decides
      <4>2. presenter[s] \in IOSAgents
        BY <3>1, <3>5 DEF WaitInv, FirmAgentsDecide
      <4> HIDE DEF stage
      <4> QED BY <3>2, <3>3, <3>5, <4>1, <4>2
              DEF Contract!SettleLater, Contract!Move, Contract!Tell, stage
    <3> QED BY <3>4, <3>5
  <2> QED BY <2>2, <2>3
<1>11. \A s \in Sessions, o \in OutcomeSet :
         Finished(s, o) \/ Accepted(s, o) => o \in AnswersTo[s]
  BY DEF Finished, Accepted
<1> QED BY <1>6, <1>7, <1>8, <1>9, <1>10, <1>11 DEF OneMoves, Contract!Next

\* The sessions implement SessionContract: each step is one of its steps or none.
THEOREM SessionsKeepContract == Spec => ContractKept
<1>1. Typed /\ CallbackInv /\ WaitInv /\ [Next]_vars => [Contract!Next]_(Contract!vars)
  BY EveryStepMoves, MovesKeepContract
<1> QED BY <1>1, InitContract, TypedHolds, CallbackInvHolds, WaitInvHolds, PTL
        DEF Spec, ContractKept, Contract!Spec
=============================================================================
