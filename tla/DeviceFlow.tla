----------------------------- MODULE DeviceFlow -----------------------------
(***************************************************************************)
(* OIDTVAuthorizationService authorizeTVRequest:initialization:completion: *)
(* the device flow (RFC 8628).  One request asks for a device code, then a *)
(* loop on a background thread polls the token endpoint, never waiting for *)
(* an answer, until the flag pollRunning is cleared or the code expires.   *)
(* Answers are handled on the main queue; the cancel block that the caller *)
(* is given may be run on any thread, at any time.                         *)
(*                                                                         *)
(* Times are whole ticks, of which a second has as many as one likes.  The *)
(* server may ask for any interval, a fraction of a second or less than    *)
(* none; what is below a tick is dropped when the interval grows.          *)
(***************************************************************************)
EXTENDS Integers, Sequences, FiniteSets

CONSTANTS
  Nil,
  Cancellers,        \* calls of the cancel block
  MainCancellers,    \* those made on the main thread
  Second,            \* ticks in a second
  Intervals,         \* "interval" of the device code response in ticks, Nil if absent
  Lifetimes,         \* its "expires_in" in ticks, Nil if absent
  MaxInterval,       \* bound on the growth of the interval
  MaxOutstanding     \* bound on polls in flight and blocks in the main queue

ASSUME CancellersAssumption == MainCancellers \subseteq Cancellers
ASSUME ResponsesAssumption ==
  /\ Nil \notin Int
  /\ Intervals \subseteq Int \cup {Nil}
  /\ Lifetimes \subseteq Int \cup {Nil}
ASSUME SecondAssumption == Second \in Nat \ {0}
ASSUME BoundsAssumption == MaxInterval \in Nat /\ MaxOutstanding \in Nat

VARIABLES
  pollRunning,   \* the __block flag
  cancel,        \* progress of each call of the cancel block
  initial,       \* the device code request: "sent", "failed" or "answered"
  loop,          \* the polling thread
  interval,      \* ticks to sleep before a poll
  sleepLeft,     \* ticks until the polling thread wakes up
  lifeLeft,      \* ticks until the device code expires, Nil if unknown
  polls,         \* polls in flight, with the server's answer once there is one
  code,          \* what the server knows of the device code
  mainQueue,     \* blocks dispatched to the main queue, in order
  initialized,   \* what the initialization block was called with
  called,        \* what the completion block was called with, in order
  asked,         \* history: the pause the server has asked for, in ticks
  rest,          \* history: ticks to the end of the pause that was asked for last
  overlapped     \* history: a poll was sent before the last one was handled

vars == <<pollRunning, cancel, initial, loop, interval, sleepLeft, lifeLeft,
          polls, code, mainQueue, initialized, called, asked, rest, overlapped>>
flow == <<initial, loop, interval, sleepLeft, lifeLeft, asked, rest, overlapped>>
app == <<initialized, called>>

Answers == {"granted", "authorization_pending", "slow_down", "refused", "network"}
Outcomes == {"authorized", "failed", "cancelled"}
Blocks ==
  [kind : {"initialization"}, with : {"response", "error"}]
    \cup [kind : {"callback", "inspect"}, with : Answers]
    \cup [kind : {"completion"}, with : Outcomes]

Max2(a, b) == IF a > b THEN a ELSE b

Dispatch(kind, with) == mainQueue' = Append(mainQueue, [kind |-> kind, with |-> with])

Init ==
  /\ pollRunning = TRUE
  /\ cancel = [c \in Cancellers |-> "ready"]
  /\ initial = "sent"
  /\ loop = "absent"
  /\ interval = 0 /\ sleepLeft = 0 /\ lifeLeft = Nil
  /\ polls = {} /\ code = "pending"
  /\ mainQueue = <<>>
  /\ initialized = Nil /\ called = <<>>
  /\ asked = 0 /\ rest = 0 /\ overlapped = FALSE
-----------------------------------------------------------------------------
(* The cancel block. *)

\* The flag is read, and the completion block dispatched if it is set ...
ReportCancel ==
  IF pollRunning THEN Dispatch("completion", "cancelled") ELSE UNCHANGED mainQueue

\* ... and then it is cleared: a step of its own off the main thread.
CancelChecks(c) ==
  /\ c \notin MainCancellers
  /\ cancel[c] = "ready"
  /\ cancel' = [cancel EXCEPT ![c] = "clearing"]
  /\ ReportCancel
  /\ UNCHANGED <<pollRunning, polls, code, flow, app>>

CancelClears(c) ==
  /\ cancel[c] = "clearing"
  /\ cancel' = [cancel EXCEPT ![c] = "done"]
  /\ pollRunning' = FALSE
  /\ UNCHANGED <<polls, code, mainQueue, flow, app>>

CancelOnMain(c) ==
  /\ c \in MainCancellers
  /\ cancel[c] = "ready"
  /\ cancel' = [cancel EXCEPT ![c] = "done"]
  /\ ReportCancel
  /\ pollRunning' = FALSE
  /\ UNCHANGED <<polls, code, flow, app>>
-----------------------------------------------------------------------------
(* The device code request. *)

\* A network error, a status that is not 200, an answer that is not JSON or
\* that no response can be made of: only the initialization block is told.
InitializationFails ==
  /\ initial = "sent"
  /\ initial' = "failed"
  /\ Dispatch("initialization", "error")
  /\ UNCHANGED <<pollRunning, cancel, loop, interval, sleepLeft, lifeLeft,
                 polls, code, app, asked, rest, overlapped>>

\* No interval means 5 seconds, and 0 is raised to one: 0 alone, not a fraction
\* of a second and nothing below it.
InitialInterval(i) ==
  IF i = Nil THEN 5 * Second ELSE IF i = 0 THEN Second ELSE i

\* History: what the response asks for, or stands for if it asks for nothing.
NoteAsked(i) ==
  /\ asked' = CASE i = Nil -> 5 * Second
               [] i = 0 -> Second
               [] OTHER -> Max2(i, 0)
  /\ rest' = asked'

SilentInitializationSucceeds(i, life) ==
  /\ initial = "sent"
  /\ initial' = "answered"
  /\ interval' = InitialInterval(i)
  /\ sleepLeft' = Max2(interval', 0)
  /\ lifeLeft' = IF life = Nil THEN Nil ELSE Max2(life, 0)
  /\ loop' = "asleep"
  /\ NoteAsked(i)
  /\ UNCHANGED <<pollRunning, cancel, polls, code, mainQueue, app, overlapped>>

InitializationSucceeds(i, life) ==
  /\ initial = "sent"
  /\ initial' = "answered"
  /\ Dispatch("initialization", "response")
  /\ interval' = InitialInterval(i)
  /\ sleepLeft' = Max2(interval', 0)
  /\ lifeLeft' = IF life = Nil THEN Nil ELSE Max2(life, 0)
  /\ loop' = "asleep"
  /\ NoteAsked(i)
  /\ UNCHANGED <<pollRunning, cancel, polls, code, app, overlapped>>

-----------------------------------------------------------------------------
(* The polling thread. *)

Wake ==
  /\ loop = "asleep" /\ sleepLeft = 0
  /\ loop' = IF pollRunning THEN "polling" ELSE "ended"
  /\ UNCHANGED <<pollRunning, cancel, initial, interval, sleepLeft, lifeLeft,
                 polls, code, mainQueue, app, asked, rest, overlapped>>

PollUnhandled ==
  \/ polls # {}
  \/ \E i \in DOMAIN mainQueue : mainQueue[i].kind \in {"callback", "inspect"}

Poll ==
  /\ loop = "polling"
  /\ Cardinality(polls) + Len(mainQueue) < MaxOutstanding
  /\ loop' = "testing"
  /\ \E n \in 0 .. Cardinality(polls) :
       /\ \A p \in polls : p.n # n
       /\ \A k \in 0 .. n - 1 : \E p \in polls : p.n = k
       /\ polls' = polls \cup {[n |-> n, answer |-> Nil]}
  /\ rest' = asked
  /\ overlapped' = (overlapped \/ PollUnhandled)
  /\ UNCHANGED <<pollRunning, cancel, initial, interval, sleepLeft, lifeLeft, code,
                 mainQueue, app, asked>>

ImmortalCodeLives == lifeLeft # Nil => lifeLeft > 0

\* A device code without an expiration date counts as expired: its date is nil,
\* which is 0 seconds from now.
CodeLives == lifeLeft # Nil /\ lifeLeft > 0

PollsAgain ==
  /\ loop = "testing" /\ CodeLives /\ pollRunning
  /\ loop' = "asleep"
  /\ sleepLeft' = Max2(interval, 0)
  /\ UNCHANGED <<pollRunning, cancel, initial, interval, lifeLeft, polls,
                 code, mainQueue, app, asked, rest, overlapped>>

PollsNoMore ==
  /\ loop = "testing" /\ ~ (CodeLives /\ pollRunning)
  /\ loop' = "ended"
  /\ UNCHANGED <<pollRunning, cancel, initial, interval, sleepLeft, lifeLeft,
                 polls, code, mainQueue, app, asked, rest, overlapped>>
-----------------------------------------------------------------------------
(* The server and the network. *)

UserDecides ==
  /\ code = "pending" /\ initial = "answered"
  /\ code' \in {"approved", "denied"}
  /\ UNCHANGED <<pollRunning, cancel, polls, mainQueue, flow, app>>

\* A code is good for one grant; a redeemed, denied or expired one is refused.
ServerAnswers(p) ==
  /\ p.answer = Nil
  /\ \E a \in Answers \ {"network"} :
       /\ a = "granted" <=> code = "approved"
       /\ a \in {"authorization_pending", "slow_down"} => code = "pending"
       /\ a = "refused" => code \in {"denied", "redeemed"} \/ ~ CodeLives
       /\ polls' = (polls \ {p}) \cup {[p EXCEPT !.answer = a]}
  /\ code' = IF code = "approved" THEN "redeemed" ELSE code
  /\ UNCHANGED <<pollRunning, cancel, mainQueue, flow, app>>

\* Mutant: a request that failed is called back with no answer and no error.
HollowAnswerArrives(p) ==
  /\ polls' = polls \ {p}
  /\ Dispatch("callback", p.answer)
  /\ UNCHANGED <<pollRunning, cancel, code, flow, app>>

\* performTokenRequest: ends in a callback on the main queue, with the answer or
\* with the error of a request that timed out.
AnswerArrives(p) ==
  /\ polls' = polls \ {p}
  /\ \/ p.answer # Nil /\ Dispatch("callback", p.answer)
     \/ Dispatch("callback", "network")
  /\ UNCHANGED <<pollRunning, cancel, code, flow, app>>

\* NSThread sleepForTimeInterval: and timeIntervalSinceNow count down together.
Tick ==
  /\ sleepLeft > 0 \/ CodeLives
  /\ sleepLeft' = Max2(sleepLeft - 1, 0)
  /\ lifeLeft' = IF lifeLeft = Nil THEN Nil ELSE Max2(lifeLeft - 1, 0)
  /\ rest' = Max2(rest - 1, 0)
  /\ UNCHANGED <<pollRunning, cancel, initial, loop, interval, polls, code,
                 mainQueue, app, asked, overlapped>>
-----------------------------------------------------------------------------
(* The main queue runs one block at a time, in the order of their dispatch. *)

IsNext(kind) == mainQueue # <<>> /\ Head(mainQueue).kind = kind
Given == Head(mainQueue).with

CallsInitialization ==
  /\ IsNext("initialization")
  /\ initialized' = Given
  /\ mainQueue' = Tail(mainQueue)
  /\ UNCHANGED <<pollRunning, cancel, polls, code, flow, called>>

CallsCompletion ==
  /\ IsNext("completion")
  /\ called' = Append(called, Given)
  /\ mainQueue' = Tail(mainQueue)
  /\ UNCHANGED <<pollRunning, cancel, polls, code, flow, initialized>>

\* The flag is looked at here, and the answer in a block dispatched from here.
PollCallback ==
  /\ IsNext("callback")
  /\ mainQueue' = IF pollRunning
                  THEN Append(Tail(mainQueue), [kind |-> "inspect", with |-> Given])
                  ELSE Tail(mainQueue)
  /\ UNCHANGED <<pollRunning, cancel, polls, code, flow, app>>

SilentConclude(outcome) ==
  /\ pollRunning' = FALSE
  /\ mainQueue' = IF outcome = "authorized"
                  THEN Append(Tail(mainQueue), [kind |-> "completion", with |-> outcome])
                  ELSE Tail(mainQueue)

OpenConclude(outcome) ==
  /\ UNCHANGED pollRunning
  /\ mainQueue' = Append(Tail(mainQueue), [kind |-> "completion", with |-> outcome])

Conclude(outcome) ==
  /\ pollRunning' = FALSE
  /\ mainQueue' = Append(Tail(mainQueue), [kind |-> "completion", with |-> outcome])

InspectGrant ==
  /\ IsNext("inspect") /\ Given = "granted"
  /\ Conclude("authorized")
  /\ UNCHANGED <<cancel, polls, code, flow, app>>

InspectPending ==
  /\ IsNext("inspect") /\ Given = "authorization_pending"
  /\ mainQueue' = Tail(mainQueue)
  /\ UNCHANGED <<pollRunning, cancel, polls, code, flow, app>>

\* 20% more.
Longer(i) == IF i < MaxInterval THEN (i * 6) \div 5 ELSE i

\* Mutant: slow_down takes the smaller of the two.
HastyInspectSlowDown ==
  /\ IsNext("inspect") /\ Given = "slow_down"
  /\ interval' = IF Longer(interval) < 5 * Second THEN Longer(interval) ELSE 5 * Second
  /\ asked' = Max2(5 * Second, asked)
  /\ mainQueue' = Tail(mainQueue)
  /\ UNCHANGED <<pollRunning, cancel, initial, loop, sleepLeft, lifeLeft, polls,
                 code, app, rest, overlapped>>

\* 20% more, and at least 5 seconds.
InspectSlowDown ==
  /\ IsNext("inspect") /\ Given = "slow_down"
  /\ interval' = Max2(5 * Second, Longer(interval))
  /\ asked' = Max2(5 * Second, asked)
  /\ mainQueue' = Tail(mainQueue)
  /\ UNCHANGED <<pollRunning, cancel, initial, loop, sleepLeft, lifeLeft, polls,
                 code, app, rest, overlapped>>

InspectFatal ==
  /\ IsNext("inspect") /\ Given \in {"refused", "network"}
  /\ Conclude("failed")
  /\ UNCHANGED <<cancel, polls, code, flow, app>>

MainQueueRuns ==
  \/ CallsInitialization \/ CallsCompletion
  \/ PollCallback
  \/ InspectGrant \/ InspectPending \/ InspectSlowDown \/ InspectFatal
-----------------------------------------------------------------------------
Cancel(c) == CancelChecks(c) \/ CancelClears(c) \/ CancelOnMain(c)

Initialize ==
  \/ InitializationFails
  \/ \E i \in Intervals, life \in Lifetimes : InitializationSucceeds(i, life)

LoopRuns == Wake \/ Poll \/ PollsAgain \/ PollsNoMore

Next ==
  \/ \E c \in Cancellers : Cancel(c)
  \/ Initialize
  \/ LoopRuns
  \/ UserDecides
  \/ \E p \in polls : ServerAnswers(p) \/ AnswerArrives(p)
  \/ Tick
  \/ MainQueueRuns

\* Threads and queues run, URL requests end (they time out), time passes; a
\* cancel block that was entered returns.  Nobody has to cancel or approve.
Fairness ==
  /\ WF_vars(MainQueueRuns)
  /\ WF_vars(Initialize)
  /\ WF_vars(LoopRuns)
  /\ WF_vars(Tick)
  /\ WF_vars(\E p \in polls : AnswerArrives(p))
  /\ \A c \in Cancellers : WF_vars(CancelClears(c))

Spec == Init /\ [][Next]_vars
FairSpec == Spec /\ Fairness
-----------------------------------------------------------------------------
TypeOK ==
  /\ pollRunning \in BOOLEAN
  /\ cancel \in [Cancellers -> {"ready", "clearing", "done"}]
  /\ initial \in {"sent", "failed", "answered"}
  /\ loop \in {"absent", "asleep", "polling", "testing", "ended"}
  /\ interval \in Int /\ sleepLeft \in Nat /\ lifeLeft \in Nat \cup {Nil}
  /\ polls \subseteq [n : Nat, answer : (Answers \ {"network"}) \cup {Nil}]
  /\ code \in {"pending", "approved", "redeemed", "denied"}
  /\ mainQueue \in Seq(Blocks)
  /\ initialized \in {Nil, "response", "error"}
  /\ called \in Seq(Outcomes)
  /\ asked \in Nat /\ rest \in Nat /\ overlapped \in BOOLEAN

\* The completion block was called or will be.
Concluded ==
  called # <<>> \/ \E i \in DOMAIN mainQueue : mainQueue[i].kind = "completion"

\* The flow has concluded exactly if the flag is down; in between is only a
\* cancel block on another thread, which reports before it clears the flag.
FlagTellsConclusion ==
  /\ ~ pollRunning => Concluded
  /\ Concluded /\ pollRunning => \E c \in Cancellers : cancel[c] = "clearing"

\* The app that asks the user to enter a code is told the code before it is told
\* that the user did.
CodeShownBeforeGrant ==
  \A i \in DOMAIN called : called[i] = "authorized" => initialized = "response"

\* The calls of the completion block with such an outcome.
Told(outcomes) == {i \in DOMAIN called : called[i] \in outcomes}
AtMostOne(S) == \A i, j \in S : i = j

\* Each side concludes the flow at most once: the server if every poll is
\* answered and handled before the next one, whoever cancels and when; the app if
\* it cancels on the main thread only, and never if it does not cancel.
CompletedOncePerSide ==
  /\ ~ overlapped => AtMostOne(Told({"authorized", "failed"}))
  /\ (\A c \in Cancellers \ MainCancellers : cancel[c] = "ready")
       => AtMostOne(Told({"cancelled"}))
  /\ (\A c \in Cancellers : cancel[c] = "ready") => Told({"cancelled"}) = {}

\* A poll is preceded by a pause of at least what the server asked for before the
\* last one: the interval of its response (5 seconds if it names none, one if it
\* names 0: OIDTVAuthorizationService.m:215-216), and 5 seconds once slow_down has
\* been handled (257), however the interval is moved while the thread sleeps,
\* polls and tests.  An interval of a tenth of a second is a tenth of a second
\* here too, and one below 0 no pause at all: the code raises only 0.
PollsArePaced == [][loop = "polling" /\ loop' = "testing" => rest = 0]_vars

\* The polling thread ends for good, whatever the server answers: also if it
\* leaves the user's decision pending for ever or names no expiration.
PollingEnds == <>[](loop \in {"absent", "ended"})
-----------------------------------------------------------------------------
(* What the code's documentation says and the code does not do. *)

\* "Has no effect if called twice or after the authorization concluded"
\* (OIDTVAuthorizationService.h:54-56): one flow is completed once.
CompletedAtMostOnce == Len(called) <= 1
=============================================================================
