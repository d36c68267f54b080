# AppAuth for iOS, macOS and tvOS: a TLA+ model

This directory models the parts of AppAuth (`Source/`) that keep state and are
called from several sides: the authorization state object and its token
refresh, its archive, the TV device flow, the authorization sessions with the
user agents that show them, the loopback server that takes redirects on a Mac,
and the flow that composes discovery, registration, session and token endpoint.
Every module is translated from the Objective-C source; `PROJECT.json` maps
each definition to its lines.

    tlasany M.tla                     parse a module
    tlc -config X.cfg M               check it on the instance X.cfg
    tlapm AuthState_proofs.tla        check the proofs

1. [Inventory](#1-inventory)
2. [Modules](#2-modules)
3. [Runs](#3-runs)
4. [Assumptions, bounds and fairness](#4-assumptions-bounds-and-fairness)
5. [Proofs](#5-proofs)
6. [Where the code and its documentation differ](#6-where-the-code-and-its-documentation-differ)
7. [Not modelled](#7-not-modelled)

## 1. Inventory

AppAuth has two halves. One obtains an authorization: the app builds a
request, `OIDAuthorizationService` makes a session of it, an external user
agent shows it, and a redirect, a cancel or a failure comes back to the session
and ends in one callback. The other keeps it: `OIDAuthState` takes the
responses over, hands out fresh tokens, and is archived by the app. Between
them is the token endpoint, which `OIDAuthState` also calls to refresh.
On tvOS the device flow replaces the session: it asks for a code and polls the
token endpoint.

    app ──► OIDAuthorizationService ──► session ◄──► external user agent ◄──► UI, loopback server
     │              │                      │
     │              └─► token endpoint ◄── │ ──── OIDTVAuthorizationService
     │                       ▲             ▼
     └──► OIDAuthState ──────┘   callbacks, on the main thread
              └──► archive, state change and error delegates

### OIDAuthState: data (`OIDAuthState.m`)

State: the last authorization, token and registration responses, the refresh
token, the scope, the authorization error, and the flag of a forced refresh.
Operations: four `updateWith…` methods, `setNeedsTokenRefresh`, the getters,
`isTokenFresh`. Each update replaces what the new response supersedes; the
getters read the token response first, the authorization response if there is
none, and nothing in an error state. Correct if what the object holds always
descends from one authorization of the user. Modelled: `AuthStateData`.

### OIDAuthState: fresh tokens (`performActionWithFreshTokens:`)

State: `_pendingActions` under a lock, the refresh under way. Any thread may
call; the answer of the refresh comes on the main thread; each action is
called back on a queue of the caller's choice. Hard: the two checks at the
head (fresh? refresh token?) are made outside the lock and repeated later;
the callback updates the object and takes the pending list in two steps,
with delegate calls in between; an action reads the tokens only when it runs;
the app may update the object at any time. Correct if one refresh runs at a
time, each action is called exactly once, nobody waits for a refresh that does
not run, and an action gets tokens of the current authorization. Modelled:
`AuthState` (with the promise to callers, `FreshTokens`, and the memory of what
the app did meanwhile, `AuthStateHistory`).

### OIDAuthState: archive and delegates

State: what the app last archived. The object announces a state change to its
delegate and the app saves it then. Hard: the process may die at any moment;
the initializer that `initWithCoder:` runs derives scope and error from the
responses before the stored ones are put in their place; not every path of an
update announces itself. Correct if the archive always restores the object in
memory. Modelled: `AuthStateStorage`.

### OIDTVAuthorizationService: device flow (`AppAuthTV`)

State: the block variable `pollRunning`, shared by the cancel block, the
polling thread and the blocks on the main queue; the interval; the
expiration date of the code. Hard: polls are not waited for, so they overlap
and their answers arrive in any order; the flag is read in one block and acted
on in the next; the cancel block may run on any thread, without a lock.
Correct if the app is told once, polling is paced as the server asked, and
polling ends. Modelled:
`DeviceFlow`.

### Sessions and their user agents

`OIDAuthorizationSession`, `OIDEndSessionImplementation`
(`OIDAuthorizationService.m`) and the agents `OIDExternalUserAgentIOS`,
`…Catalyst`, `…Mac` and `…IOSCustomBrowser`. State: the session keeps its
callback and its agent until it is over; an agent keeps the session and
references to the web session or the Safari view controller it shows (the
custom browser keeps nothing). Operations: present, resume with a URL, fail,
cancel; the handlers of the user interfaces; dismissal. Hard: the outcome is
computed before the dismissal and delivered after it, and a Safari view
controller takes its time; the handler of a web session runs later, against
whatever the agent then refers to; interfaces fall back on one another. Correct
if a callback is called once, with a response of its own request, the screen is
left clean and the agent is free again. Modelled: `AuthorizationSession`.

### OIDRedirectHTTPHandler (macOS)

State: the listening server, the current flow. Operations: start a listener
(which cancels the previous one), cancel it, take a request of the browser.
Hard: requests queued for the main thread, and connections not yet closed,
outlive the listener they reached; the flow's callback runs inside the
handler's methods, before they forget the flow. Correct if a flow has its
listener as long as it waits, and late redirects of earlier flows never reach
it. Modelled: `LoopbackRedirect`.

### OIDLoopbackHTTPServer

State: two sockets; per connection two buffers, the requests in order, the
flag of a response in progress. Operations: the events of two streams, a
response set by the delegate, stop. Hard: requests in pieces or pipelined;
streams that take part of a buffer, or none; requests that hold their
connection while it holds them; a server or a delegate that goes first.
Correct if answers leave in the order of the requests, whole and once, and a
connection nobody needs closes. Modelled: `LoopbackConnection` with its promise
`HTTPExchange`; the sockets' part of `TCPServer` in `LoopbackRedirect`.

### Discovery, registration, token endpoint and ID token

`OIDServiceDiscovery`, `OIDServiceConfiguration`, `OIDRegistrationResponse`,
`OIDIDToken`, `OIDErrorUtilities` and the completion handlers of
`OIDAuthorizationService`. No state: one HTTP request, one callback on the main
queue each. Hard: which of error, status, body, JSON and content decides; which
error of which domain it becomes, since an OAuth error makes an `OIDAuthState`
give its authorization up; the 600 s around `iat`; a nonce that is compared only
for the code grant and only if the original response was passed on. Correct if
each reply is classified once, refusals and nothing else are OAuth errors, and
an ID token is accepted only for the right issuer, client, time and request.
Modelled: the operators of `OAuthErrors`, `OAuthMessages` and `Endpoints`.

### Convenience flow (`authStateByPresentingAuthorizationRequest:…`)

State: what the blocks capture. Composes session, token endpoint and a new
`OIDAuthState`, and in the example app discovery and registration before it.
Correct if the app is called back with a state of this very flow or told why
not. Modelled: `AuthorizationFlow`.

The parts that are left are in section 7.

## 2. Modules

| Module | Models | Extends / instantiates |
|---|---|---|
| `AuthStateData` | the data of an `OIDAuthState`, its getters and updates, as operators on one record | |
| `FreshTokens` | what `performActionWithFreshTokens:` promises, without tokens, lock or network | |
| `AuthState` | one object shared by callers, main thread and network | `AuthStateData`; `FreshTokens` by refinement |
| `AuthStateHistory` | `AuthState` with the memory that a refresh was forced, and that an authorization was replaced under a request or a caller | `AuthState` |
| `AuthStateStorage` | the object, its archive, and a process that dies | `AuthStateData` |
| `DeviceFlow` | one call of `authorizeTVRequest:` | |
| `SessionContract` | what a session promises the app, without agents and windows | |
| `AuthorizationSession` | sessions of either kind with the four kinds of user agents | `SessionContract` by refinement |
| `HTTPExchange` | what browser and server expect of a connection | |
| `LoopbackConnection` | one connection of the loopback server | `HTTPExchange` by refinement |
| `LoopbackRedirect` | the redirect handler, its listeners and the flows it resumes | |
| `OAuthErrors` | the library's errors, and what it makes of a server's | |
| `OAuthMessages` | documents, requests, responses and ID tokens, and which are accepted | `OAuthErrors` |
| `Endpoints` | from a reply to what the callback is called with | `OAuthMessages` |
| `AuthorizationFlow` | flows from the issuer's address to an `OIDAuthState` | `Endpoints` |
| `…_proofs` | theorems of `AuthState` with `AuthStateHistory`, `AuthStateStorage`, `DeviceFlow`, `AuthorizationSession`, `LoopbackConnection`, `LoopbackRedirect` and `AuthorizationFlow`; lemmas on the operators of `AuthStateData` | the module and TLAPS |
| `MC…` | response shapes and replies for small instances | the module |

**AuthStateData and AuthState.** A *grant* stands for one authorization of the
user. Responses, requests and tokens carry the grant they descend from instead
of a string, so that mixing two of them is visible. Errors are their domain,
the only part the code tests. The record `st` holds the instance variables;
each `UpdateWith…` returns the record the method leaves, trailing effects
included. `pc[c]` is where a caller is in the method:

| `pc` | Code | Actions from there |
|---|---|---|
| `idle` | before the call | `PerformFresh` (475-481), `PerformStale` |
| `stale` | line 483 | `NoRefreshToken` (483-493), `HasRefreshToken` |
| `refreshable` | line 499 | `JoinRefresh`, `OwnRefresh` (the critical section 499-508) |
| `owner` | line 432 | `CheckRefreshToken`, to `sending` or `raised` |
| `sending` | line 435 | `SendRefresh` (435-445, 513) |
| `returned` | after the call | `RunAction` of its block |

`pending` is `_pendingActions` ({} for nil), `requests` the refresh requests
out, `callback` whether the main thread is between the update of lines 517-531
and the dispatch of 533-543, `blocks` the action blocks on the callers' queues.
The delegates called from the update may call the object, so main-thread calls
are allowed there. A background caller may be interrupted between any two
steps; a main-thread caller only by background ones. The refresh callback is a
block of the main queue (`MainQueueTakesCallback`), so that neither it nor an
update comes while a main-thread caller is inside the method; both come between
any two steps of a background caller.

`AuthStateHistory` adds three variables the object does not look at: `owed` (a
refresh was forced and not yet requested), `crossed` (the authorization was
replaced while a request was out) and `intruded` (the callers that were inside
the method when it was). With them the properties can say where the object's
promises end instead of excluding those cases.

`FreshTokens` says the same of each request in four words: none, deciding,
awaiting, answered. `AuthState!Status` maps the object to it, and `PromiseKept`
and `PromiseFulfilled` say that the object implements it, without and with
progress.

**AuthStateStorage.** One action per update; `archive` is rewritten exactly when
the update reaches `didChangeState`. `Decode` runs the initializer and then
overwrites, as `initWithCoder:` does.

**DeviceFlow.** `loop` is where the polling thread is (`asleep`, `polling`,
`testing` the loop condition, `ended`); `mainQueue` the blocks dispatched, in
order, with the answer they were made with; `polls` the requests in flight. An
answer passes through two main queue blocks, `callback` (reads the flag) and
`inspect` (acts on it), as in the code. A cancel on another thread is the two
steps read-and-report, clear. `sleepLeft` and `lifeLeft` count down instead of
comparing dates. Times are in ticks, `Second` of them a second, so that an
interval can be a fraction of one; it can be negative too, and then there is no
pause. `asked` and `rest` are history: the pause asked for, and what is left of
it.

**AuthorizationSession.** `pending` and `agentOf` are the two members of a
session that change, `agent` the members of each agent. `Dismiss` is
`dismissExternalUserAgentAnimated:completion:` with the completion that
finishes the session: at once for an idle agent, a web session or none, in a
later `Dismissed` event for Safari. Handlers of interfaces are events that run
later, against the agent as it then is. Which interface opens (a web session,
Safari, the browser, none) is a choice of the action `Present`, since OS
version and guided access decide. The kinds of agents differ in the interfaces
they have and in what a failed start leaves behind (the Mac agent stays in
progress); the Catalyst agent is an iOS agent that has web sessions only, the
custom browser has no members.
`decided`, `presenter`, `fallback` and `careless` are history.

`SessionContract` has three variables: the stage of a session, what the first
message to it called for, what its callback was called with. `Stage` maps a
session to it: it waits as long as it has callback and agent, and is *patient*
if its agent is an `OIDExternalUserAgentIOS`, which may have a Safari view
controller to close first, and *firm* with the other three kinds, which finish
it in the same step. A firm session is over with the
first message it accepts; a patient one may accept one message and be settled
by a later one. `ContractKept` says that sessions, sharing agents or not, keep
this.

**LoopbackConnection.** `conn` holds the members of an `HTTPConnection`,
`output` its stream with the space it has. Bytes come in pieces: a request is
`RequestLength` of them, and pieces of responses are told apart, so that a
byte lost, doubled or out of order shows. `ProcessOutgoing` is
`processOutgoingBytes` as a function of connection, stream and removed requests
(`Drain`, `Serialize`, `Remove` are its three parts), since three events and
`setResponse:` end in it. `Settled` is reference counting: a connection that
neither the server nor a request holds is gone. `processing` says that the main
thread is inside the loop around `processIncomingBytes`. `HTTPExchange` says
the same without buffers: requests, answers in any order, and the pieces the
browser receives, which are those of the responses, one after the other.

**LoopbackRedirect.** `listener` is `_httpServ` with the sockets that are bound
and its port, `flow` is `_currentAuthorizationFlow`, `queue` the requests
dispatched to the main queue. A callback of a session interrupts a method of
the handler: the frame is pushed on `stack`, the app does what it likes, and
`CallbackReturns` is the rest of the method, with the flow and the listener as
they then are. `lingering` are stopped listeners whose connections are open.
`lastSet`, `reentered` and `elsewhere` are history.

**OAuthErrors, OAuthMessages, Endpoints.** Operators only. A message keeps the
members that a check depends on; a state or nonce is named by the authorization
it was generated for. `DiscoveryResult`, `RegistrationResult` and `TokenResult`
are the three completion handlers, branch by branch, in the code's order.

**AuthorizationFlow.** `stage[f]` is what a flow waits for; `…Replied` runs on
`NSURLSession`'s queue and leaves its result in `block[f]`, whose main queue
block is one of `RequestFails`, `Register`, `PresentDiscovered`,
`PresentRegistered`, `AuthStateDelivered`. The session is present by its
outcomes (`SessionFails`, `SessionRefused`, `SessionRedeems`,
`SessionDelivers`, and `SessionRaises` for an address that is nil): how it comes
to them is the subject of `AuthorizationSession`.

## 3. Runs

| Run | Instance | Question and answer |
|---|---|---|
| `auth_state` | 3 callers, one on the main thread, two on threads of their own; updates and forces at any time; 580 000 states up to symmetry | refreshes are single-flight (`SingleRefresh`), actions are neither lost nor doubled (`ActionInOnePlace`), the promise is kept (`PromiseKept`), nobody waits in vain unless the exception stopped a caller (`PendingActionsAwaitRefresh`), which only a background caller meets, under whom the authorization was replaced (`RaisesOnlyIntruded`); tokens of two authorizations meet only if one was replaced under a request (`MixedOnlyByCrossing`); a main-thread caller never refreshes fresh tokens, whatever the others do (`MainRefreshesOnlyWhenStale`); a refresh forced while no request is out is not forgotten (`ForcedRefreshOwed`), and until a refresh is answered no update ends a forced one and no action is handed tokens (`ForceEndsWithRefresh`) |
| `main_thread` | 2 callers on the main thread, updates at any time; 29 000 states | every request is answered in the end (`PromiseFulfilled`) |
| `storage` | 2 grants, 2 scopes, responses of 3 shapes; 960 states | the archive is current after every step (`ArchiveCurrent`) and decoding is faithful (`DecodeFaithful`) |
| `device_flow` | two cancels on two threads; intervals none, 0, half a second, -1 second; lifetimes none, 1 second; 1 190 000 states | the flag tells whether the flow has concluded (`FlagTellsConclusion`), the code is shown first (`CodeShownBeforeGrant`), server and app each complete the flow at most once, whatever the other does (`CompletedOncePerSide`), each poll is preceded by the pause asked for, which a negative interval makes none (`PollsArePaced`), polling ends (`PollingEnds`) |
| `session` | an authorization and an end session request, an agent of each kind; 217 000 states | each session calls its callback once, with an answer to its own request, and with the first message it accepts unless the iOS agent shows it (`ContractKept`), the exception meets only an app that misuses sessions, the screen is left clean, agents are free again but in known cases (`AgentFreeAfterSession`), accepted messages are answered |
| `connection` | 3 requests of 2 pieces, responses of 3, space for 2; 8 300 states | nothing is lost, cut or repeated by partial writes (`ResponsesWhole`), the exchange is kept (`ExchangeKept`), answered requests are sent (`AnswersArrive`), a released connection closes (`ReleasedCloses`) |
| `loopback` | 2 sessions, 2 listeners, 2 requests queued, 2 nested callbacks; 805 000 states | a waiting flow keeps its listener (`FlowServed`), late redirects stay out (`OtherRedirectsStayOut`), the handler's own exception is earned (`RaisesOnlyIfEndedElsewhere`), the redirect ends the flow (`RedirectEndsFlow`) |
| `flow` | one flow among strangers; for each check a reply that fails just that; 5 300 states | the state is of this flow alone (`StateIsOfThisFlow`), a refusal and nothing else is told as one, with the code of its name (`RefusalIsTold`), requests end in a page or a callback (`FlowSettles`) |
| `stale_grant`, `device_twice`, `session_first`, `registration_codes` | the same or smaller instances | one finding each, see section 6 |

`main_thread` asks for liveness, which symmetry would spoil and which the
exception would end, and so has callers on the main thread and the smallest
response shapes. `auth_state` asks for safety only: its grants, and its two
background callers, are symmetric.

## 4. Assumptions, bounds and fairness

Assumptions about what is outside the code:

- reading or writing one instance variable is atomic; the ivars are
  `nonatomic`, and a torn read is outside the model;
- the app updates an `OIDAuthState` on the main thread, where the library
  delivers all callbacks;
- the dispatch queues callers choose for their actions are unordered; the main
  queue of the device flow is first in, first out;
- a server answers a refresh with tokens of the grant of its request, and
  redeems a device code once;
- `ASWebAuthenticationSession` and `SFAuthenticationSession` are one interface,
  and either may run its handler after a cancel if the handler was already on
  its way;
- an agent is kept by the session it works for, so one no session holds may be
  gone when a handler runs (`WebHandler`);
- a connection of the loopback server that is released by its own method lives
  to the end of that method (`LoopbackConnection`);
- a random port is not reused by a later listener, and an address on it reaches
  that listener only; a fixed port is reused;
- a JSON body is an object, as the code takes it to be without a check, and
  `redirectURL` is not nil;
- flows share nothing but the clock and the servers.

Bounds, each a named constant or a set in a `.cfg`:

- `MaxTime` (1) with `ExpiryTimeTolerance` 1 and lifetimes 2 or none: a
  token can be fresh when it arrives, turn stale, and be refreshed;
- 2 grants: an old and a new authorization, which is all that a mix needs;
  authorizing returns to the first after the second;
- 2 or 3 callers: one that owns the refresh, one that joins it, and one that
  meets its end;
- `MaxOutstanding` 2 in the device flow (3 in `device_twice`): two polls overlap;
  a `Second` of 2 ticks and `MaxInterval` 12 let `slow_down` raise any interval to
  10, the minimum of 5 seconds, and 10 to 12;
- a lifetime of 2 ticks with intervals of 1 tick (half a second), 2 (a second,
  for 0), 10 (5 seconds, for none) and -2: a code that expires before, at and
  after a poll, and polls without a pause;
- 2 sessions and 2 agents: a session that ends while the other is shown by the
  same agent, or by another.

- an agent of each kind: sessions are shown by the same agent only if one of
  them is presented after the other ended, or the agent refuses;
- `MaxRequests` 3, `RequestLength` 2, `ResponseLength` 3, `StreamSpace` 2: a
  request in two pieces, three requests in one read, a response that needs two
  writes, and a rest that meets the next response;
- `MaxListeners` 2 and `MaxQueue` 2: the request of an old flow in the queue
  before that of the new one; `MaxDepth` 2: a callback inside a callback. Both
  sessions may use one listener, or one each;
- `MaxTime` 2, ID tokens from 0 to 3 and a skew of 1: issued too early, just not
  too early, just not too late, too late; expired and not. One flow is enough
  for TLC, because flows are independent: strangers stand for all others. The
  theorems hold for any number.

The numbers of the actions that repeat (calls, updates, forces and crashes) are
not bounded in `AuthState`, `AuthStateHistory` and `AuthStateStorage`.

Fairness, used only for `PromiseFulfilled`, `PollingEnds`, `AcceptedIsAnswered`,
`AnswersArrive`, `ReleasedCloses`, `RedirectEndsFlow` and `FlowSettles`:

- weak for a thread inside a method, a dispatched block, a timer, and the
  completion UIKit calls after a dismissal: nothing disables them for good
  but themselves;
- weak for URL requests in the device flow, strong for the refresh answer and
  its dispatch: `NSURLSession` times out, and the answer is a block of the
  serial main queue, which others occupy again and again but never overtake;
- weak for the events of a connection's streams, the blocks of the redirect
  handler, and the replies and blocks of a flow, for the same reasons; and for
  a browser that reads what it has asked for, or resets the connection;
- none for people: nobody has to approve, cancel, redirect or close anything.

Deadlock is checked in the three `AuthState` modules and the storage. A device
flow that has ended, sessions that are over, a closed connection, a handler
that has used up its listeners and flows that have ended really stop, so the
other runs do not check it.

## 5. Proofs

All theorems hold for every value of the constants under the named assumptions
of the modules (which TLC evaluates on its instances): what Nil is not, and
that bounds are numbers.

**AuthStateData_proofs** holds what the two modules about the object share: each
update method and the initializer makes a well-typed record
(`RefreshedStateTyped`, `InitialStateTyped`, ...), keeps the forced refresh
(`UpdatesKeepForce`) and takes its responses over (`InitialStateTakes`).

**AuthState_proofs**

- `TypeCorrect`; every case of it but the responses' is by type.
- `RefreshIsSingle`, `ActionIsInOnePlace`, from `RefreshInv`. Neither property
  is inductive. A second refresh could start only if `pending` were empty
  while one runs, so `RequestersWait` and `CallbackHasWaiters` say that a
  request out or a callback running has someone in `pending`. After the
  exception `pending` stays filled and no refresh runs (`RaisedStops`), which
  excludes a further start. The two properties support each other: an action
  is moved once because it is in one place, and it is in one place because
  one callback moves it.
- `ObjectKeepsPromise`: initial states map to initial states of `FreshTokens`,
  and each step to a step or a stutter, given `RefreshInv`. An end of the
  object's refresh is the promise's `EndRefresh`, for all who wait at once.
- `PendingAreServed`: a caller that has put itself on an empty list is under way to
  its request, has it out, or is stopped by the exception; whoever joins finds
  one of them.
- `MainThreadRefreshesStale`: tokens a main-thread caller found stale stay so
  while it is inside the method (`StaleForMain`), whatever callers do on other
  threads: time makes nothing fresh (`StaleStays`), and updates and answers are
  blocks of the main queue.
- `ObjectWithHistoryIsObject`: `HistorySpec` implies `Spec`, so that what is proved
  of the object holds of it with its history. The theorems that follow are of
  `HistorySpec`, for callers on any threads and updates at any time.
- `TokensMixByCrossing`: as long as no authorization was replaced under a request,
  the request out is of the object's authorization, and so are its tokens. An
  update between a caller's check and its request does no harm, since the request
  takes the token the object then has.
- `RaisesWhereIntruded`: what a caller read of the refresh token stays true while it
  is inside the method unless the authorization is replaced under it: an answer
  takes a token away from nobody, and main-thread callers are never inside when
  the app updates.
- `ForcedIsOwed`: what is owed is still noted, and no answer is on its way that
  could take the note for its own.
- `ForceLasts`: each update of the app keeps the forced refresh
  (`UpdatesKeepForce`), and tokens are not fresh under it.

**AuthStateStorage_proofs**

- `TypeCorrect`, `DecodingIsFaithful`: of the record that decoding makes,
  member by member (`DecodeRestores`).
- `ArchiveIsCurrent`: assumes `RespectsErrorState`. The archive has the five
  members of the object (`Kept`), which is inductive: an update is announced,
  and archived, or changes none of them (`UpdateKeeps`).

**DeviceFlow_proofs**

- `TypeCorrect`, with the finiteness of the set of polls.
- `FlagIsTrue`: `FlagTellsConclusion` needs that a cancel block about to clear
  the flag has seen to a conclusion (`ClearingFollowsReport`). Lemmas say what
  appending to and taking from the main queue do to its completion blocks.
- `CodeIsShown`: in the queue every answer, and every block made of one, is
  behind the block that shows the code, or the code has been shown
  (`CodeOrder`); before the device code request is answered there are none.
- `CompletedOnceBySide`, from an invariant for each side. Where polls do not
  overlap, one poll or one block with its answer is on its way (`PollInv`), and a
  verdict of the server ends the polling, so that a second one has no block to
  come from (`VerdictInv`); the flag may fall at any time, for all that a cancel
  does. A cancel on the main thread tells the app and clears the flag in one
  step, so that the next one finds it down (`CancelInv`). `Never` and `Once`
  count over the queue and the calls together; their `Keeps` lemmas say what
  appending to either and taking from the queue do to the count.
- `CompletionsBounded`: hence a flow without overlap and with main-thread
  cancels is completed at most twice, and once if it is not cancelled.
- `PollsHavePauses`, for any interval, negative ones included: the interval is
  never below what was asked for, a sleep begins with the interval to go, and the
  thread polls only after a sleep (`Paced`). It does not say that there is a
  pause: for an interval of 0.1 there is hardly one, for -1 none (section 6).
- `PollingWindsDown`, for an interval that is positive: `StepsLeft` bounds what the
  polling thread still does by the code's life, three steps a tick. Every step of
  the thread lowers it, and no answer, cancel or tick raises it, however
  `slow_down` moves the interval (`Paced` says that a sleep costs a tick). A code
  is polled for once in a tick of its life at most, and a code without a life
  once. With a negative interval no such number exists: the code is polled for
  without a pause until it expires.

**AuthorizationSession_proofs**

- `TypeCorrect`, with `BusyAgentsServe` and `OnlyPresented`: an agent in
  progress has a session, and sessions, interfaces and events are of sessions
  that were presented, so that no handler follows Nil.
- `CallbackIsKept`, `ResponseBelongs`: every step is one of four cases for each
  session (`SessionStep`: untouched, opened, refused, finished), and a dismissal
  under way carries only what the session may be told (`DismissalsTell`).
  With that the invariant `CallbackInv` is checked on four cases, not on twenty
  actions.
- `SessionsKeepContract`, the refinement, from `WaitInv` on top of `CallbackInv`.
  A session that has accepted a message and waits is shown by an agent of
  `OIDExternalUserAgentIOS`, and a dismissal that will finish it is under way
  (`AcceptedIsOnItsWay`, the safety half of `AcceptedIsAnswered`, and the theorem
  `AcceptedIsWaited`); with the other agents what is told is what was decided
  (`FirmAgentsDecide`, and `FirstDecidesWithoutSafari`). Each action moves one
  session at most, in one of the contract's ways (`OneMoves`), so that the
  refinement is proved from five cases instead of twenty actions.
  `CallbackIsKept` and `ResponseBelongs` state two consequences by themselves.
- `AgentIsFree`, from `BusyInv`: an agent in progress has a session that knows
  it as its presenter, and while that session waits the agent is its own.
- `InterfaceIsClosed`, `RaisesForMisuse`, from `CarefulInv`: to a careful app
  every interface is `Accounted` for, in the hands of its agent or gone; a web
  session calls back once, and its handler finds its own session, still
  waiting, or none (`HandlerFindsOwn`).

**LoopbackRedirect_proofs**

- `TypeCorrect`.
- `RedirectsStayOut`, from `ToldInv` and `AddressInv`: the port of a redirect is
  that of its listener or the fixed one, so that equal ports mean one listener;
  a request is for a redirect that was presented.
- `OverOfListenerHolds` (a lemma): the app may hand over a session that is over
  already, because its presentation failed at once. A session of the listener
  that is over ended elsewhere, or the handler is about to stop that listener.
- `FlowIsServed`, `RaisesForEndedElsewhere`, from `FlowInv` and that lemma: outside callbacks
  a flow that is over ended elsewhere, and a flow is the session handed over
  last; a frame on the stack means that this session has been told.
- `ToldOnce`: a session that has told its app is over (`OverInv`), and a step tells one
  session at most, one that is not over, inside a callback or outside.
- `RedirectIsNotLost`: from `FlowInv`, a redirect queued for the session handed
  over leaves the queue only by ending it, because the handler has that session
  when the block runs.

**AuthorizationFlow_proofs**

- `FlowTyped`; lemmas say that each completion handler yields a result of its
  request, with a declared code.
- `StatesKeepToTheirFlow`, `RefusalsAreTold`, from an invariant of a single flow
  (`FlowInv`, with `Own`, `Redeems`, `Brings` and `TellsRefusal`): the request
  presented is of this flow's configuration and client, the response answers
  it, and the result on its way to the main queue, if it is a token response,
  has passed every check at `checkedAt`; if it is an error, it is the refusal, with
  the code `OAuthErrorCodeFromString` has for its name. The theorem does not claim
  that this is the code the header declares, which is false (`HeaderCodesAreKept`,
  section 6).
  Every action touches one flow (`OneFlow`), so the rest are left as they were.
- `FlowsAdvance`: `Place` orders the stages of a flow and, within a stage, whether
  its result is there. A reply brings a result (`NetworkHears`), a block takes its
  result to a later stage (`MainQueueProceeds`), an outcome of a session ends it,
  redeems it or raises (`SessionProceeds`), and other flows stay where they are.
  No request is sent twice, and what the app was told stands.

**LoopbackConnection_proofs**

- `TypeCorrect`, `ResponsesAreWhole`, `ExchangeIsKept`, from `Inv`. Its main part,
  `Sound`, says of a connection with its stream that the requests listed are
  those not finished, in order, and that what was written and what is buffered
  are the responses of the finished ones and of the one in progress.
  `Sends(x, y)` says that from x to y the browser gets the next pieces only, and
  those of answered requests only. Each part of `processOutgoingBytes` (`Drain`,
  `Serialize`, `Remove`) keeps `Sound` and `Sends` what is next; `Sends` composes
  (`SendsOn`), and so does the whole, and every event that ends in it. The
  refinement is then one lemma (`ExchangeAdvances`) for all events.
- `EventsAreAsked`, from `AliveInv`: no wakeup is lost. Each `write:` asks for the
  event of free space, and `processOutgoingBytes` ends without having asked only
  if it had space and found nothing to send (`ProcessOutgoingRouses`). Every
  request read has its response or a block that brings one (`SeenTo`), and a
  connection that a stopped server let go of is held by a request (`Held`).

Every invariant, action property and refinement of a passing run that asks for
no fairness is a theorem. Only model-checked is what rests on fairness, which is
out of the prover's reach. Of each of these properties the part that does not is
proved: that what is waited for stays under way, or that each step comes nearer
to it. What TLC alone shows is that under the fairness of section 4 the step is
taken.

| Model-checked | What of it is proved |
| --- | --- |
| `PromiseFulfilled` | `PendingAreServed`, `ActionIsInOnePlace` |
| `PollingEnds` | `PollingWindsDown` |
| `AcceptedIsAnswered` | `AcceptedIsWaited` |
| `AnswersArrive`, `ReleasedCloses` | `EventsAreAsked` |
| `RedirectEndsFlow` | `RedirectIsNotLost` |
| `FlowSettles` | `FlowsAdvance` |

## 6. Where the code and its documentation differ

Four have a run that finds them:

1. `stale_grant`: the answer of a refresh sent for an old authorization is taken
   over after `updateWithAuthorizationResponse:` has replaced it
   (`OIDAuthState.m:520`; the comment at 360-361 says that what relates to an
   old authorization is cleared).
2. `device_twice`: a cancel between the two blocks of an answer completes the
   flow twice (`OIDTVAuthorizationService.m:239`; `.h:54-56`).
3. `session_first`: while Safari is being dismissed for a cancel, a redirect
   gets in first and the cancellation is lost
   (`OIDAuthorizationService.m:170`; `OIDExternalUserAgentSession.h:31-32, 60`).
   With the agents that never show Safari the first message decides: theorem
   `FirstDecidesWithoutSafari`.
4. `registration_codes`: a registration endpoint that answers
   `invalid_redirect_uri` or `invalid_client_metadata` is reported with the code
   `Other`, because the table of `OIDErrorUtilities.m:143-161` lacks both, though
   `OIDError.h:359-367` declares their codes.

Six more can be seen in the same models, without a run of their own:

5. An action dispatched while the tokens were fresh runs after a refresh has
   failed, and is called with no token and no error (`OIDAuthState.m:478`;
   `OIDAuthState.h:214-215`).
6. A refresh forced while one is in flight is forgotten when that one is
   answered (`OIDAuthState.m:519`; `OIDAuthState.h:245-246`). `Forces` does not
   set `owed` then.
7. If the authorization is replaced while a background caller is between lines 483
   and 432, the caller raises an exception and leaves its action in the pending
   list: every later caller joins it and waits for ever (`OIDAuthState.m:432,
   507`). `RaisesOnlyIntruded` and `PendingActionsAwaitRefresh` show that this is
   the only way.
8. A background caller that found the tokens stale at line 475 sends a second
   refresh if the first is answered before it gets to line 499. A main-thread
   caller cannot (`MainRefreshesOnlyWhenStale`).
9. A code that expires unused ends the polling, and the completion block is
   never called (`OIDTVAuthorizationService.m:278`; `.h:98`).
10. The polling interval is what `doubleValue` makes of any JSON number
    (`OIDTVAuthorizationResponse.m:100-101`) and only 0 is raised to a second, "to
    prevent infinite polling" (`OIDTVAuthorizationService.m:215, 218`): with 0.1
    the code is polled for with almost no pause, with -1 without any, until it
    expires or a `slow_down` is handled. `PollsArePaced` holds of these intervals
    too, because it asks for no more than they do.

The passing runs do not exclude 5 to 10, whose states they reach; their
properties say where the promise ends. Preconditions there are: no overlap of
polls and no cancel off the main thread (`CompletedOncePerSide`), an app that
keeps to the rules of `OIDAuthState`'s own log message (`RespectsErrorState` in
`storage`), an app that leaves finished sessions alone and uses an agent once
(`RaisesOnlyIfMisused`, `InterfaceClosed`), no use of the handler from inside its
callbacks (`FlowServed`). What happens outside them is in the list that follows.

Smaller ones, seen while modelling. The authorization state:

- A forced refresh that cannot be made, for want of a refresh token, stays
  forced under a later authorization and refuses its actions
  (`OIDAuthState.m:483, 553`; `ForceEndsWithRefresh`).
- The additional refresh parameters of a caller that joins a refresh are
  dropped (`OIDAuthState.m:502`).
- A token response with a transient error, given to an object in an error
  state, clears the error without `didChangeState` (`OIDAuthState.m:385`;
  `OIDAuthState.h:184-185`); `setNeedsTokenRefresh` changes an archived member
  without it.
- `lastRegistrationResponse` is not archived (`OIDAuthState.m:281`).
- `expires_in` of a redirect is a string, so that the access token of an
  implicit flow has no expiration date (`OIDAuthorizationResponse.m:94-99`).

The device flow:

- Two polls that overlap, or two cancels on two threads, complete the flow twice,
  as in 2 (`OIDTVAuthorizationService.m:100, 236`).
- A cancel block called after the device code request has failed still finds
  the flag up and calls the completion block again
  (`OIDTVAuthorizationService.m:101`).

Sessions and user agents:

- `cancel` reports `OIDErrorCodeUserCanceledAuthorizationFlow`; its documentation
  names `OIDErrorCodeProgramCanceledAuthorizationFlow`. Cancelling a session
  that is over never calls the completion block. Resuming one raises an
  exception, where the documentation says it has no effect.
- After the user closes a web session the iOS agent is not cleaned up and
  refuses to present again (`OIDExternalUserAgentIOS.m:124`); so does the Mac
  agent after a web session that did not start (`OIDExternalUserAgentMac.m:114`):
  the two exceptions of `AgentFreeAfterSession`. A Safari that was
  the fallback for a web session stays on the screen
  (`OIDExternalUserAgentIOS.m:133`).
- The handler of a web session that was cancelled runs against the agent as it
  then is: if that presents another session by then, the handler resumes or fails
  that one and forgets its web session (`OIDExternalUserAgentIOS.m:118`).
- A redirect whose path does not match ends the web session but calls no
  callback; an OAuth error is reported without comparing its state.

The loopback server:

- `cancelHTTPListener` forgets the flow after the flow's callback: an app that
  sets the next flow inside it has that one forgotten
  (`OIDRedirectHTTPHandler.m:113`); `reentered` excludes this from `FlowServed`.
- A redirect for a flow that the app cancelled, or the user closed, without the
  handler knowing, or whose presentation had failed before it was handed over,
  raises an exception (`OIDRedirectHTTPHandler.m:129`;
  `RaisesOnlyIfEndedElsewhere`).
- A `write:maxLength:` of -1 is compared as an unsigned number and passes for a
  complete write (`OIDLoopbackHTTPServer.m:209-211, 234-235`); after an error of
  the stream the connection is only logged and kept.
- A connection whose browser ends its input after all responses are out is kept
  until the server stops (`OIDLoopbackHTTPServer.m:303-311`).

Endpoints and the flow:

- A name has one code at every endpoint: `access_denied` from the token endpoint
  has a code that `OIDErrorCodeOAuthToken` lacks (`OIDError.h:303-348`).
- Any status from 400 to 499 of the token endpoint may be an OAuth error, where
  `OIDError.h:38` speaks of HTTP 400.
- A state mismatch is reported in the OAuth authorization error domain, as if
  the server had refused.
- Discovery does not check that `authorization_endpoint` is a URL, though the
  header has it nonnull, nor that the issuer discovered is the one asked for.
- A registration response without `client_id` is accepted.
- A redirect without a code raises an exception in the code flow
  (`OIDAuthorizationResponse.m:194`), and so does a body that is JSON but no
  object.
- Cancelling the session while its code is redeemed has no effect.

## 7. Not modelled

| Part | Why |
|---|---|
| `OIDTVServiceConfiguration`'s device discovery | one call of discovery with one more check of its result |
| `OIDFieldMapping`, `NSCoding` and `NSCopying` of requests and responses | conversions between dictionaries and members of immutable values; character by character or by type, without state or order |
| `OIDURLQueryComponent`, `OIDScopeUtilities`, `OIDTokenUtilities` | string processing, base64, hashes and random numbers |
| `OIDURLSessionProvider` | one shared reference |
| JSON parsing and serialization | `JSONSerializationError` of a registration request cannot be told from any other failure to send it |
| `CFSocket`, Bonjour, HTTP headers and the pages of the loopback server | system calls and wording; a response is so many pieces |
| The transformation of addresses by the custom browser, App Store pages | wording |
| The completion block of `cancelWithCompletion:` | changes no state; see section 6 |
| `OIDScopes`, `OIDGrantTypes`, `OIDResponseTypes`, `OIDClientMetadataParameters`, `OIDDefines` | constants and macros |
| Examples, tests, build files | read as evidence of how the library is used. The example app's logging of a failed discovery or registration, after which it drops its state, is `Tell` with a failure |
