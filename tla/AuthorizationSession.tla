------------------------ MODULE AuthorizationSession ------------------------
(***************************************************************************)
(* OIDAuthorizationSession and OIDEndSessionImplementation                 *)
(* (OIDAuthorizationService.m), the sessions of an authorization or end    *)
(* session request, with the user agents that show the request to the      *)
(* user: OIDExternalUserAgentIOS, Catalyst, Mac and IOSCustomBrowser.  All *)
(* of it runs on the main thread; what interleaves are calls of the app,   *)
(* callbacks of the user interface, and the dismissal of a Safari view     *)
(* controller, which ends later than it begins.                            *)
(*                                                                         *)
(* ASWebAuthenticationSession and its predecessor SFAuthenticationSession, *)
(* handled alike, are the one "web" interface.                             *)
(***************************************************************************)
EXTENDS Integers, Sequences

CONSTANTS
  Nil,
  Sessions,       \* the sessions the app creates
  EndSessions,    \* those of end session requests
  Agents,         \* user agents: those of OIDExternalUserAgentIOS, but for
  CatalystAgents, \* those of OIDExternalUserAgentCatalyst,
  MacAgents,      \* of OIDExternalUserAgentMac
  CustomBrowsers  \* and of OIDExternalUserAgentIOSCustomBrowser

ASSUME EndSessionsAssumption == EndSessions \subseteq Sessions
ASSUME AgentsAssumption ==
  /\ CatalystAgents \cup MacAgents \cup CustomBrowsers \subseteq Agents
  /\ CatalystAgents \cap MacAgents = {} /\ CatalystAgents \cap CustomBrowsers = {}
  /\ MacAgents \cap CustomBrowsers = {}
ASSUME NilAssumption == Nil \notin Sessions \cup Agents

VARIABLES
  pending,    \* session: is the callback still to be called?
  agentOf,    \* session: _externalUserAgent
  agent,      \* agent: the members of the user agent
  shown,      \* user interfaces on the screen, known by the session they show
  events,     \* callbacks of the user interface under way to the main thread
  told,       \* what each session's callback was called with
  decided,    \* history: what the first message to each session called for
  presenter,  \* history: the agent each session was presented with
  fallback,   \* history: sessions shown by Safari after a web session did not start
  careless,   \* history: the app failed a session, or resumed one that was over
  raised      \* an exception ended the process

vars == <<pending, agentOf, agent, shown, events, told, decided, presenter,
          fallback, careless, raised>>
sessionVars == <<pending, agentOf, told>>
agentVars == <<agent, shown>>

\* A redirect: does its address match that of the requests, whose state does it
\* carry, is it an OAuth error?  (One that does not match is not looked into.)
URLs == {u \in [matches : BOOLEAN, of : Sessions, error : BOOLEAN] : u.matches \/ ~ u.error}

Outcome(kind, of) == [kind |-> kind, of |-> of]
OutcomeSet ==
  [kind : {"response", "oauthError"}, of : Sessions]
    \cup [kind : {"stateMismatch", "cancelled", "userCancelled", "openError"}, of : {Nil}]
ASSUME NilIsNoOutcome == Nil \notin OutcomeSet

Interfaces == [kind : {"web", "safari", "browser"}, for : Sessions]
EventSet ==
  [kind : {"webHandler"}, url : URLs \cup {Nil}, for : Sessions]
    \cup [kind : {"safariDidFinish"}, for : Sessions]
    \cup [kind : {"openURL"}, url : URLs, for : Sessions]
    \cup [kind : {"dismissed"}, for : Sessions, outcome : OutcomeSet]

IOSAgents == Agents \ (CatalystAgents \cup MacAgents \cup CustomBrowsers)

\* The members after cleanUp, and initially, and while a request is shown.  The
\* Catalyst and Mac agents have no safari, and a custom browser has no members.
InProgress(s, web, safari) ==
  [inProgress |-> TRUE, session |-> s, web |-> web, safari |-> safari]
Clean == [inProgress |-> FALSE, session |-> Nil, web |-> Nil, safari |-> Nil]

BoundCleanUp(agents, a) ==
  [agents EXCEPT ![a] = [Clean EXCEPT !.session = agents[a].session]]
CleanUp(agents, a) == [agents EXCEPT ![a] = Clean]

Init ==
  /\ pending = [s \in Sessions |-> FALSE]
  /\ agentOf = [s \in Sessions |-> Nil]
  /\ agent = [a \in Agents |-> Clean]
  /\ shown = {} /\ events = {}
  /\ told = [s \in Sessions |-> <<>>]
  /\ decided = [s \in Sessions |-> Nil]
  /\ presenter = [s \in Sessions |-> Nil] /\ fallback = {} /\ careless = FALSE
  /\ raised = FALSE

Presented(s) == presenter[s] # Nil
-----------------------------------------------------------------------------
(* The session. *)

\* The first message to a session that waits for one.
Decides(s, outcome) ==
  decided' = IF pending[s] /\ decided[s] = Nil THEN [decided EXCEPT ![s] = outcome]
             ELSE decided

RepeatingDidFinish(s, outcome) ==
  /\ told' = IF pending[s] THEN [told EXCEPT ![s] = Append(told[s], outcome)] ELSE told
  /\ agentOf' = [agentOf EXCEPT ![s] = Nil]
  /\ UNCHANGED pending

DidFinish(s, outcome) ==
  /\ told' = IF pending[s] THEN [told EXCEPT ![s] = Append(told[s], outcome)] ELSE told
  /\ pending' = [pending EXCEPT ![s] = FALSE]
  /\ agentOf' = [agentOf EXCEPT ![s] = Nil]

\* dismissExternalUserAgentAnimated:completion: of the session's agent, with a
\* completion that finishes the session.  A message to nil does nothing.
DismissNil(agents, s, rest) ==
  /\ agentOf[s] = Nil
  /\ agent' = agents /\ events' = rest
  /\ UNCHANGED <<sessionVars, shown>>

DismissIdle(agents, s, outcome, rest) ==
  /\ agentOf[s] # Nil /\ ~ agents[agentOf[s]].inProgress
  /\ DidFinish(s, outcome)
  /\ agent' = agents /\ events' = rest
  /\ UNCHANGED shown

UncancelledDismissWeb(s, web, outcome, rest) ==
  /\ web # Nil
  /\ DidFinish(s, outcome)
  /\ events' = rest
  /\ UNCHANGED shown

DismissWeb(s, web, outcome, rest) ==
  /\ web # Nil
  /\ shown' = shown \ {[kind |-> "web", for |-> web]}
  /\ DidFinish(s, outcome)
  /\ events' = rest

\* Safari finishes the session only when it has gone from the screen.
DismissSafari(s, safari, outcome, rest) ==
  /\ safari # Nil
  /\ shown' = shown \ {[kind |-> "safari", for |-> safari]}
  /\ events' = rest \cup {[kind |-> "dismissed", for |-> s, outcome |-> outcome]}
  /\ UNCHANGED sessionVars

SilentDismissNothing(s, outcome, rest) ==
  /\ events' = rest
  /\ UNCHANGED <<sessionVars, shown>>

DismissNothing(s, outcome, rest) ==
  /\ DidFinish(s, outcome)
  /\ events' = rest
  /\ UNCHANGED shown

\* The references are taken before cleanUp.
DismissInProgress(agents, s, outcome, rest) ==
  LET ag == agents[agentOf[s]] IN
  /\ agentOf[s] # Nil /\ ag.inProgress
  /\ agent' = CleanUp(agents, agentOf[s])
  /\ \/ DismissWeb(s, ag.web, outcome, rest)
     \/ ag.web = Nil /\ DismissSafari(s, ag.safari, outcome, rest)
     \/ ag.web = Nil /\ ag.safari = Nil /\ DismissNothing(s, outcome, rest)

Dismiss(agents, s, outcome, rest) ==
  \/ DismissNil(agents, s, rest)
  \/ DismissIdle(agents, s, outcome, rest)
  \/ DismissInProgress(agents, s, outcome, rest)

UncheckedAuthorizationOutcome(s, url) ==
  Outcome(IF url.error THEN "oauthError" ELSE "response", url.of)

\* An OAuth error is looked for before the state is compared ...
AuthorizationOutcome(s, url) ==
  IF url.error THEN Outcome("oauthError", url.of)
  ELSE IF url.of = s THEN Outcome("response", url.of)
  ELSE Outcome("stateMismatch", Nil)

NilEndSessionOutcome(s, url) == Outcome("response", IF url.of = s THEN s ELSE Nil)

\* ... and not at all in the answer to an end session request.
EndSessionOutcome(s, url) ==
  IF url.of = s THEN Outcome("response", url.of) ELSE Outcome("stateMismatch", Nil)

OutcomeOf(s, url) ==
  IF s \in EndSessions THEN EndSessionOutcome(s, url) ELSE AuthorizationOutcome(s, url)

\* resumeExternalUserAgentFlowWithURL:
ResumeIgnores(agents, url, rest) ==
  /\ ~ url.matches
  /\ agent' = agents /\ events' = rest
  /\ UNCHANGED <<sessionVars, shown, decided, raised>>

ResumeRaises(agents, s, url, rest) ==
  /\ url.matches /\ ~ pending[s]
  /\ raised' = TRUE
  /\ agent' = agents /\ events' = rest
  /\ UNCHANGED <<sessionVars, shown, decided>>

ResumeAccepts(agents, s, url, rest) ==
  /\ url.matches /\ pending[s]
  /\ Decides(s, OutcomeOf(s, url))
  /\ Dismiss(agents, s, OutcomeOf(s, url), rest)
  /\ UNCHANGED raised

Resume(agents, s, url, rest) ==
  \/ ResumeIgnores(agents, url, rest)
  \/ ResumeRaises(agents, s, url, rest)
  \/ ResumeAccepts(agents, s, url, rest)

\* failExternalUserAgentFlowWithError: leaves the agent as it is.
Fail(s, outcome) ==
  /\ Decides(s, outcome)
  /\ DidFinish(s, outcome)

Cancel(s) ==
  /\ Presented(s)
  /\ Decides(s, Outcome("cancelled", Nil))
  /\ Dismiss(agent, s, Outcome("cancelled", Nil), events)
  /\ UNCHANGED <<presenter, fallback, careless, raised>>

\* The app may fail a session, too.
AppFails(s) ==
  /\ Presented(s)
  /\ Fail(s, Outcome("userCancelled", Nil))
  /\ careless' = TRUE
  /\ UNCHANGED <<agentVars, events, presenter, fallback, raised>>
-----------------------------------------------------------------------------
(* Presenting a session with an agent. *)

\* The session keeps callback and agent, unless the agent fails at once.
Keeps(s, a) ==
  /\ pending' = [pending EXCEPT ![s] = TRUE]
  /\ agentOf' = [agentOf EXCEPT ![s] = a]
  /\ presenter' = [presenter EXCEPT ![s] = a]
  /\ UNCHANGED <<told, decided, events, careless, raised>>

\* The callback is called with "Unable to open Safari".
CannotOpen(s, a) ==
  /\ told' = [told EXCEPT ![s] = Append(told[s], Outcome("openError", Nil))]
  /\ decided' = [decided EXCEPT ![s] = Outcome("openError", Nil)]
  /\ presenter' = [presenter EXCEPT ![s] = a]
  /\ UNCHANGED <<pending, agentOf, events, shown, fallback, careless, raised>>

\* The agent takes itself to be showing another request.
PresentRefused(s, a) ==
  /\ ~ Presented(s) /\ agent[a].inProgress
  /\ CannotOpen(s, a)
  /\ UNCHANGED agent

\* One interface after the other is tried until one opens.  A web session that
\* was made, which guided access prevents, is referred to even if it did not start.
OpensInterface(s, a, kind, web) ==
  /\ shown' = shown \cup {[kind |-> kind, for |-> s]}
  /\ fallback' = IF kind = "safari" /\ web = s THEN fallback \cup {s} ELSE fallback
  /\ Keeps(s, a)

Shows(s, a, kind, web, safari) ==
  /\ ~ Presented(s) /\ ~ agent[a].inProgress
  /\ agent' = [agent EXCEPT ![a] = InProgress(s, web, safari)]
  /\ OpensInterface(s, a, kind, web)

PresentWeb(s, a) == a \notin CustomBrowsers /\ Shows(s, a, "web", s, Nil)

PresentSafari(s, a) ==
  a \in IOSAgents /\ \E web \in {s, Nil} : Shows(s, a, "safari", web, s)

\* On a Mac a browser is opened without trying a web session first.
PresentBrowser(s, a) ==
  \/ a \in IOSAgents /\ Shows(s, a, "browser", s, Nil)
  \/ a \in IOSAgents \cup MacAgents /\ Shows(s, a, "browser", Nil, Nil)

\* A custom browser keeps no account of what it opens.
PresentCustomBrowser(s, a) ==
  /\ a \in CustomBrowsers
  /\ ~ Presented(s)
  /\ OpensInterface(s, a, "browser", Nil)
  /\ UNCHANGED agent

\* Mutant: the agent is not cleaned up when nothing opened.
UncleanPresentFails(s, a) ==
  /\ ~ Presented(s) /\ ~ agent[a].inProgress
  /\ CannotOpen(s, a)
  /\ agent' = [agent EXCEPT ![a] = InProgress(s, Nil, Nil)]

\* Nothing opened: the agent fails the session, whose callback is then gone when
\* the session itself finishes for the same reason.
PresentFails(s, a) ==
  /\ ~ Presented(s) /\ ~ agent[a].inProgress
  /\ CannotOpen(s, a)
  /\ agent' = CleanUp(agent, a)

\* On a Mac a web session that does not start fails the session, too, but the
\* agent is not cleaned up.
PresentUnstarted(s, a) ==
  /\ a \in MacAgents
  /\ ~ Presented(s) /\ ~ agent[a].inProgress
  /\ CannotOpen(s, a)
  /\ agent' = [agent EXCEPT ![a] = InProgress(s, s, Nil)]

Present(s, a) ==
  \/ PresentRefused(s, a)
  \/ PresentWeb(s, a) \/ PresentSafari(s, a) \/ PresentBrowser(s, a)
  \/ PresentCustomBrowser(s, a)
  \/ PresentFails(s, a) \/ PresentUnstarted(s, a)
-----------------------------------------------------------------------------
(* The user, and what the user interface calls. *)

\* A redirect, or the user, ends a web session; its handler is called later.
WebEnds(s) ==
  /\ [kind |-> "web", for |-> s] \in shown
  /\ shown' = shown \ {[kind |-> "web", for |-> s]}
  /\ \E url \in {u \in URLs : u.of = s} \cup {Nil} :
       events' = events \cup {[kind |-> "webHandler", for |-> s, url |-> url]}
  /\ UNCHANGED <<sessionVars, agent, decided, presenter, fallback, careless, raised>>

\* A redirect in Safari is opened by the app; one at a time is on its way.
SafariRedirects(s) ==
  /\ \E kind \in {"safari", "browser"} : [kind |-> kind, for |-> s] \in shown
  /\ \A e \in events : e.kind = "openURL" => e.for # s
  /\ \E url \in {u \in URLs : u.of = s} :
       events' = events \cup {[kind |-> "openURL", for |-> s, url |-> url]}
  /\ UNCHANGED <<sessionVars, agentVars, decided, presenter, fallback, careless, raised>>

SafariCloses(s) ==
  /\ [kind |-> "safari", for |-> s] \in shown
  /\ shown' = shown \ {[kind |-> "safari", for |-> s]}
  /\ events' = events \cup {[kind |-> "safariDidFinish", for |-> s]}
  /\ UNCHANGED <<sessionVars, agent, decided, presenter, fallback, careless, raised>>

\* The handler refers to its agent weakly: an agent no session holds may be gone.
\* Otherwise it looks at the agent's session as it is now, and forgets whatever
\* web session the agent refers to.
WebHandler(e) ==
  LET a == presenter[e.for]
      t == agent[a].session
      agents == [agent EXCEPT ![a].web = Nil]
      rest == events \ {e} IN
  /\ e.kind = "webHandler"
  /\ UNCHANGED <<presenter, fallback, careless>>
  /\ \/ /\ \A s \in Sessions : agentOf[s] # a
        /\ events' = rest
        /\ UNCHANGED <<sessionVars, agentVars, decided, raised>>
     \/ /\ t = Nil
        /\ agent' = agents /\ events' = rest
        /\ UNCHANGED <<sessionVars, shown, decided, raised>>
     \/ /\ t # Nil /\ e.url # Nil
        /\ Resume(agents, t, e.url, rest)
     \/ /\ t # Nil /\ e.url = Nil
        /\ Fail(t, Outcome("userCancelled", Nil))
        /\ agent' = agents /\ events' = rest
        /\ UNCHANGED <<shown, raised>>

\* safariViewControllerDidFinish: looks at the agent's Safari and cleans up.
SafariDidFinish(e) ==
  LET a == presenter[e.for] IN
  /\ e.kind = "safariDidFinish"
  /\ events' = events \ {e}
  /\ \/ /\ agent[a].safari = e.for /\ agent[a].inProgress
        /\ Fail(agent[a].session, Outcome("userCancelled", Nil))
        /\ agent' = CleanUp(agent, a)
     \/ /\ agent[a].safari # e.for \/ ~ agent[a].inProgress
        /\ UNCHANGED <<sessionVars, agent, decided>>
  /\ UNCHANGED <<shown, presenter, fallback, careless, raised>>

\* The app resumes a session with a URL that it was opened with, or keeps it.
OpenURL(e, s) ==
  /\ e.kind = "openURL"
  /\ Presented(s)
  /\ Resume(agent, s, e.url, events \ {e})
  /\ careless' = (careless \/ ~ pending[s])
  /\ UNCHANGED <<presenter, fallback>>

\* Safari has gone from the screen.
Dismissed(e) ==
  /\ e.kind = "dismissed"
  /\ DidFinish(e.for, e.outcome)
  /\ events' = events \ {e}
  /\ UNCHANGED <<agentVars, decided, presenter, fallback, careless, raised>>
-----------------------------------------------------------------------------
App(s) == (\E a \in Agents : Present(s, a)) \/ Cancel(s) \/ AppFails(s)
User(s) == WebEnds(s) \/ SafariRedirects(s) \/ SafariCloses(s)

Next ==
  /\ ~ raised
  /\ \/ \E s \in Sessions : App(s) \/ User(s)
     \/ \E e \in events :
          \/ WebHandler(e) \/ SafariDidFinish(e) \/ Dismissed(e)
          \/ \E s \in Sessions : OpenURL(e, s)

\* UIKit calls the completion of a dismissal.  Nobody else has to act.
Spec == Init /\ [][Next]_vars
FairSpec == Spec /\ WF_vars(~ raised /\ \E e \in events : Dismissed(e))
-----------------------------------------------------------------------------
TypeOK ==
  /\ pending \in [Sessions -> BOOLEAN]
  /\ agentOf \in [Sessions -> Agents \cup {Nil}]
  /\ agent \in [Agents -> [inProgress : BOOLEAN, session : Sessions \cup {Nil},
                           web : Sessions \cup {Nil}, safari : Sessions \cup {Nil}]]
  /\ shown \subseteq Interfaces
  /\ events \subseteq EventSet
  /\ told \in [Sessions -> Seq(OutcomeSet)]
  /\ decided \in [Sessions -> OutcomeSet \cup {Nil}]
  /\ presenter \in [Sessions -> Agents \cup {Nil}]
  /\ fallback \subseteq Sessions /\ careless \in BOOLEAN
  /\ raised \in BOOLEAN

\* The callback of a session is called once, and kept, with the agent to
\* dismiss, until then: no order of app calls and interface callbacks loses it.
CallbackKeptUntilTold ==
  \A s \in Sessions :
    /\ Len(told[s]) <= 1
    /\ Presented(s) => (pending[s] <=> told[s] = <<>>)
    /\ pending[s] <=> agentOf[s] # Nil

\* A session answered with a response got the response to its own request,
\* whatever URLs the app resumes it with and whatever handlers run late.
ResponseIsOwn ==
  \A s \in Sessions : \A i \in DOMAIN told[s] :
    told[s][i].kind = "response" => told[s][i].of = s

\* Two sessions were presented with one agent.
AgentReused ==
  \E s, t \in Sessions : s # t /\ presenter[s] = presenter[t] /\ presenter[s] # Nil

\* An app that leaves a session that is over alone, and uses an agent once, is
\* never met by the exception of resumeExternalUserAgentFlowWithURL:.
RaisesOnlyIfMisused == raised => AgentReused \/ careless

\* "clean up any left-over UI state [...] closing the SFSafariViewController"
\* (OIDExternalUserAgentSession.h:56-58): a session that is over leaves no
\* interface of its agent to such an app, but for the browser, which is an app
\* of its own, and for Safari that was opened after a web session did not start.
InterfaceClosed ==
  ~ AgentReused /\ ~ careless =>
    \A s \in Sessions : told[s] # <<>> =>
      /\ [kind |-> "web", for |-> s] \notin shown
      /\ [kind |-> "safari", for |-> s] \in shown => s \in fallback

\* An agent that takes itself to be in progress, and so refuses the next request,
\* serves a session that waits.  Two ways out of a session leave their agent
\* behind: the session is failed, by the user who closes a web session or by the
\* app, or a Mac's web session does not start.  No other does, in any order of
\* presenting, late handlers, dismissals and cancels.
AgentFreeAfterSession ==
  \A a \in Agents : agent[a].inProgress =>
    LET s == agent[a].session IN
    /\ s # Nil /\ presenter[s] = a
    /\ \/ pending[s]
       \/ told[s][1].kind = "userCancelled"
       \/ told[s][1].kind = "openError" /\ a \in MacAgents

\* Every message a session accepts leads to its callback, Safari's dismissal and
\* other sessions notwithstanding.
AcceptedIsAnswered ==
  \A s \in Sessions : (decided[s] # Nil) ~> (told[s] # <<>> \/ raised)
-----------------------------------------------------------------------------
(* The sessions keep the contract of SessionContract. *)

\* A response is to the session's own request, an OAuth error is not looked for
\* in the answer to an end session request, and "Unable to open Safari" is said
\* only of a session that was never shown.
Answers(s) ==
  {o \in OutcomeSet : /\ o.kind # "openError"
                      /\ o.kind = "response" => o.of = s
                      /\ o.kind = "oauthError" => s \notin EndSessions}

\* A session waits as long as it has callback and agent.  Only an agent of
\* OIDExternalUserAgentIOS finishes it later than it accepts a message.
Stage(s) ==
  IF ~ Presented(s) THEN "none"
  ELSE IF ~ pending[s] \/ agentOf[s] = Nil THEN "over"
  ELSE IF presenter[s] \in IOSAgents THEN "patient" ELSE "firm"

Contract == INSTANCE SessionContract WITH
  stage <- [s \in Sessions |-> Stage(s)],
  Refusal <- Outcome("openError", Nil),
  AnswersTo <- [s \in Sessions |-> Answers(s)]

\* In any order of messages, callbacks of the user interface and dismissals, and
\* with agents shared between sessions, every session calls its callback once,
\* with an answer to its own request, and is over with the first message it
\* accepts unless it was presented with OIDExternalUserAgentIOS.
ContractKept == Contract!Spec
-----------------------------------------------------------------------------
(* What the code's documentation says and the code does not do. *)

\* cancel and resumeExternalUserAgentFlowWithURL: have no effect after the other
\* (OIDExternalUserAgentSession.h:31-32, 60): the first message decides, also
\* without an app that fails sessions itself.
FirstMessageDecides ==
  ~ careless => \A s \in Sessions : told[s] # <<>> => told[s][1] = decided[s]
=============================================================================
