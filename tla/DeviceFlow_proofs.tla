------------------------- MODULE DeviceFlow_proofs -------------------------
(***************************************************************************)
(* Proofs about DeviceFlow, for any intervals and lifetimes, any number of *)
(* cancels and any bounds.                                                 *)
(***************************************************************************)
EXTENDS DeviceFlow, SequenceTheorems, FiniteSetTheorems, TLAPS

-----------------------------------------------------------------------------
(* The main queue: dispatching appends, running takes the head off. *)

\* A dispatched block comes last, and those before it stay where they were.
LEMMA Dispatched ==
  ASSUME NEW q \in Seq(Blocks), NEW b \in Blocks
  PROVE  /\ Append(q, b) \in Seq(Blocks)
         /\ Len(q) \in Nat /\ Len(Append(q, b)) = Len(q) + 1
         /\ \A i \in 1 .. Len(q) : Append(q, b)[i] = q[i]
         /\ Append(q, b)[Len(q) + 1] = b
  BY LenProperties

\* A block that is run leaves the others, each one place further to the front.
LEMMA Run ==
  ASSUME NEW q \in Seq(Blocks), q # <<>>
  PROVE  /\ Tail(q) \in Seq(Blocks)
         /\ Len(q) \in Nat \ {0} /\ Len(Tail(q)) = Len(q) - 1
         /\ Head(q) = q[1] /\ Head(q) \in Blocks
         /\ \A i \in 1 .. Len(Tail(q)) : Tail(q)[i] = q[i + 1]
         /\ \A i \in 2 .. Len(q) : q[i] = Tail(q)[i - 1]
<1>1. Len(q) \in Nat \ {0}
  BY EmptySeq
<1>2. /\ Tail(q) \in Seq(Blocks)
      /\ Head(q) \in Blocks
      /\ Len(Tail(q)) = Len(q) - 1
      /\ \A i \in 1 .. Len(Tail(q)) : Tail(q)[i] = q[i + 1]
  BY HeadTailProperties
<1>3. Head(q) = q[1]
  OBVIOUS
<1>4. \A i \in 2 .. Len(q) : q[i] = Tail(q)[i - 1]
  BY <1>1, <1>2
<1> QED BY <1>1, <1>2, <1>3, <1>4

-----------------------------------------------------------------------------
(* Type correctness. *)

\* The numbers of the polls come from the cardinality of their set.
FinitePolls == IsFiniteSet(polls)

\* What keeps the queue well-typed.
LEMMA QueueTyped ==
  ASSUME mainQueue \in Seq(Blocks)
  PROVE  /\ \A b \in Blocks : Append(mainQueue, b) \in Seq(Blocks)
         /\ mainQueue # <<>> =>
              /\ Tail(mainQueue) \in Seq(Blocks)
              /\ Head(mainQueue) \in Blocks
              /\ \A b \in Blocks : Append(Tail(mainQueue), b) \in Seq(Blocks)
  BY Run, Dispatched

LEMMA InitTyped == Init => TypeOK /\ FinitePolls
<1> SUFFICES ASSUME Init PROVE TypeOK /\ FinitePolls
  OBVIOUS
<1>1. mainQueue \in Seq(Blocks) /\ called \in Seq(Outcomes)
  BY EmptySeq DEF Init
<1>2. polls = {} /\ IsFiniteSet(polls)
  BY FS_EmptySet DEF Init
<1>3. cancel \in [Cancellers -> {"ready", "clearing", "done"}]
  BY DEF Init
<1>4. pollRunning = TRUE /\ initial = "sent" /\ loop = "absent" /\ code = "pending"
  BY DEF Init
<1>5. interval \in Int /\ sleepLeft \in Nat /\ lifeLeft \in Nat \cup {Nil}
  BY DEF Init
<1>6. initialized \in {Nil, "response", "error"}
  BY DEF Init
<1>7. asked \in Nat /\ rest \in Nat
  BY DEF Init
<1>8. overlapped \in BOOLEAN
  BY Zenon DEF Init
<1> QED BY <1>1, <1>2, <1>3, <1>4, <1>5, <1>6, <1>7, <1>8 DEF TypeOK, FinitePolls

LEMMA CancelTyped ==
  ASSUME TypeOK, FinitePolls, NEW c \in Cancellers, Cancel(c)
  PROVE  TypeOK' /\ FinitePolls'
<1>1. [kind |-> "completion", with |-> "cancelled"] \in Blocks
  BY DEF Blocks, Outcomes
<1>2. mainQueue' \in Seq(Blocks)
  BY <1>1, QueueTyped DEF Cancel, CancelChecks, CancelClears, CancelOnMain,
                          ReportCancel, Dispatch, TypeOK
<1>3. cancel' \in [Cancellers -> {"ready", "clearing", "done"}]
  BY DEF Cancel, CancelChecks, CancelClears, CancelOnMain, TypeOK
<1>4. pollRunning' \in BOOLEAN /\ UNCHANGED <<polls, code, flow, app>>
  BY DEF Cancel, CancelChecks, CancelClears, CancelOnMain, TypeOK
<1> QED BY <1>2, <1>3, <1>4 DEF TypeOK, FinitePolls, flow, app

\* What a response is noted to ask for is no more than the interval it sets.
LEMMA NotedPause ==
  ASSUME NEW i \in Intervals, NoteAsked(i)
  PROVE  /\ asked' \in Nat /\ rest' = asked'
         /\ asked' = Max2(InitialInterval(i), 0)
  BY ResponsesAssumption, SecondAssumption DEF NoteAsked, InitialInterval, Max2

LEMMA InitializeTyped ==
  ASSUME TypeOK, FinitePolls, Initialize
  PROVE  TypeOK' /\ FinitePolls'
<1>1. CASE InitializationFails
  <2>1. [kind |-> "initialization", with |-> "error"] \in Blocks
    BY DEF Blocks
  <2>2. mainQueue' \in Seq(Blocks)
    BY <1>1, <2>1, QueueTyped DEF InitializationFails, Dispatch, TypeOK
  <2> QED BY <1>1, <2>2 DEF InitializationFails, TypeOK, FinitePolls, app
<1>2. ASSUME NEW i \in Intervals, NEW life \in Lifetimes,
             InitializationSucceeds(i, life)
      PROVE  TypeOK' /\ FinitePolls'
  <2>1. [kind |-> "initialization", with |-> "response"] \in Blocks
    BY DEF Blocks
  <2>2. mainQueue' \in Seq(Blocks)
    BY <1>2, <2>1, QueueTyped DEF InitializationSucceeds, Dispatch, TypeOK
  <2>3. /\ interval' \in Int /\ sleepLeft' \in Nat /\ lifeLeft' \in Nat \cup {Nil}
        /\ asked' \in Nat /\ rest' \in Nat
    <3>1. InitialInterval(i) \in Int
      BY ResponsesAssumption, SecondAssumption DEF InitialInterval
    <3>2. interval' \in Int /\ sleepLeft' \in Nat
      BY <1>2, <3>1 DEF InitializationSucceeds, Max2
    <3>3. lifeLeft' \in Nat \cup {Nil}
      BY <1>2, ResponsesAssumption DEF InitializationSucceeds, Max2
    <3>4. asked' \in Nat /\ rest' \in Nat
      BY <1>2, NotedPause DEF InitializationSucceeds
    <3> QED BY <3>2, <3>3, <3>4
  <2> QED BY <1>2, <2>2, <2>3 DEF InitializationSucceeds, TypeOK, FinitePolls, app
<1> QED BY <1>1, <1>2 DEF Initialize

LEMMA LoopTyped ==
  ASSUME TypeOK, FinitePolls, LoopRuns
  PROVE  TypeOK' /\ FinitePolls'
<1>1. CASE Wake \/ PollsAgain \/ PollsNoMore
  <2>1. sleepLeft' \in Nat
    BY <1>1 DEF Wake, PollsAgain, PollsNoMore, TypeOK, Max2
  <2> QED BY <1>1, <2>1 DEF Wake, PollsAgain, PollsNoMore, TypeOK, FinitePolls, app
<1>2. CASE Poll
  <2>1. Cardinality(polls) \in Nat
    BY FS_CardinalityType DEF FinitePolls
  <2>2. PICK n \in 0 .. Cardinality(polls) :
          polls' = polls \cup {[n |-> n, answer |-> Nil]}
    BY <1>2 DEF Poll
  <2>3. polls' \subseteq [n : Nat, answer : (Answers \ {"network"}) \cup {Nil}]
    BY <2>1, <2>2 DEF TypeOK
  <2>4. IsFiniteSet(polls')
    BY <2>2, FS_AddElement DEF FinitePolls
  <2>5. /\ loop' = "testing" /\ rest' = asked /\ overlapped' \in BOOLEAN
        /\ UNCHANGED <<pollRunning, cancel, initial, interval, sleepLeft, lifeLeft,
                       code, mainQueue, app, asked>>
    BY <1>2 DEF Poll, TypeOK, PollUnhandled
  <2> QED BY <2>3, <2>4, <2>5 DEF TypeOK, FinitePolls, app
<1> QED BY <1>1, <1>2 DEF LoopRuns

\* What arrives is an answer of the server or a network error.
LEMMA AnswerDispatched ==
  ASSUME TypeOK, NEW p \in polls, AnswerArrives(p)
  PROVE  \E a \in Answers :
           mainQueue' = Append(mainQueue, [kind |-> "callback", with |-> a])
<1>1. "network" \in Answers /\ (p.answer # Nil => p.answer \in Answers)
  BY DEF TypeOK, Answers
<1>2. \/ mainQueue' = Append(mainQueue, [kind |-> "callback", with |-> "network"])
      \/ /\ p.answer # Nil
         /\ mainQueue' = Append(mainQueue, [kind |-> "callback", with |-> p.answer])
  BY DEF AnswerArrives, Dispatch
<1> QED BY <1>1, <1>2

LEMMA OutsideTyped ==
  ASSUME TypeOK, FinitePolls,
         UserDecides \/ Tick \/ \E p \in polls : ServerAnswers(p) \/ AnswerArrives(p)
  PROVE  TypeOK' /\ FinitePolls'
<1>1. CASE UserDecides
  BY <1>1 DEF UserDecides, TypeOK, FinitePolls, flow, app
<1>2. CASE Tick
  <2>1. sleepLeft' \in Nat /\ lifeLeft' \in Nat \cup {Nil} /\ rest' \in Nat
    BY <1>2 DEF Tick, TypeOK, Max2
  <2> QED BY <1>2, <2>1 DEF Tick, TypeOK, FinitePolls, app
<1>3. ASSUME NEW p \in polls, ServerAnswers(p) PROVE TypeOK' /\ FinitePolls'
  <2>1. PICK a \in Answers \ {"network"} :
          polls' = (polls \ {p}) \cup {[p EXCEPT !.answer = a]}
    BY <1>3 DEF ServerAnswers
  <2>2. polls' \subseteq [n : Nat, answer : (Answers \ {"network"}) \cup {Nil}]
    BY <2>1 DEF TypeOK
  <2>3. IsFiniteSet(polls')
    BY <2>1, FS_RemoveElement, FS_AddElement DEF FinitePolls
  <2> QED BY <1>3, <2>2, <2>3 DEF ServerAnswers, TypeOK, FinitePolls, flow, app
<1>4. ASSUME NEW p \in polls, AnswerArrives(p) PROVE TypeOK' /\ FinitePolls'
  <2>1. PICK with \in Answers :
          mainQueue' = Append(mainQueue, [kind |-> "callback", with |-> with])
    BY <1>4, AnswerDispatched
  <2>2. [kind |-> "callback", with |-> with] \in Blocks /\ mainQueue \in Seq(Blocks)
    BY DEF Blocks, TypeOK
  <2>3. mainQueue' \in Seq(Blocks)
    BY <2>1, <2>2, Dispatched
  <2>4. IsFiniteSet(polls')
    BY <1>4, FS_RemoveElement DEF AnswerArrives, FinitePolls
  <2> QED BY <1>4, <2>3, <2>4 DEF AnswerArrives, TypeOK, FinitePolls, flow, app
<1> QED BY <1>1, <1>2, <1>3, <1>4

\* 20% more is no less, unless it is 20% of a negative interval.
LEMMA LongerIsLonger ==
  ASSUME NEW i \in Int
  PROVE  Longer(i) \in Int /\ (i >= 0 => Longer(i) >= i)
<1>1. (i * 6) \div 5 \in Int /\ (i >= 0 => (i * 6) \div 5 >= i)
  OBVIOUS
<1> QED BY <1>1 DEF Longer

\* slow_down never makes the pauses shorter, and asks for 5 seconds at least.
LEMMA SlowedDown ==
  ASSUME TypeOK, InspectSlowDown
  PROVE  /\ interval' \in Int /\ interval' >= interval /\ interval' >= 5 * Second
         /\ asked' \in Nat /\ asked' = Max2(5 * Second, asked)
<1>1. interval' = Max2(5 * Second, Longer(interval)) /\ asked' = Max2(5 * Second, asked)
  BY DEF InspectSlowDown
<1>2. 5 * Second \in Nat /\ interval \in Int /\ asked \in Nat
  BY SecondAssumption DEF TypeOK
<1>3. Longer(interval) \in Int /\ (interval >= 0 => Longer(interval) >= interval)
  BY <1>2, LongerIsLonger
<1> QED BY <1>1, <1>2, <1>3 DEF Max2

LEMMA MainQueueTyped ==
  ASSUME TypeOK, FinitePolls, MainQueueRuns
  PROVE  TypeOK' /\ FinitePolls'
<1>1. mainQueue # <<>> /\ mainQueue \in Seq(Blocks)
  BY DEF MainQueueRuns, IsNext, CallsInitialization, CallsCompletion, PollCallback,
         InspectGrant, InspectPending, InspectSlowDown, InspectFatal, TypeOK
<1>2. Head(mainQueue) \in Blocks
  BY <1>1, QueueTyped
<1>3. CASE CallsInitialization
  <2>1. Given \in {"response", "error"}
    BY <1>2, <1>3 DEF CallsInitialization, IsNext, Given, Blocks
  <2> QED BY <1>1, <1>3, <2>1, QueueTyped
          DEF CallsInitialization, TypeOK, FinitePolls, flow
<1>4. CASE CallsCompletion
  <2>1. Given \in Outcomes
    BY <1>2, <1>4 DEF CallsCompletion, IsNext, Given, Blocks
  <2>2. called' \in Seq(Outcomes)
    BY <1>4, <2>1 DEF CallsCompletion, TypeOK
  <2> QED BY <1>1, <1>4, <2>2, QueueTyped
          DEF CallsCompletion, TypeOK, FinitePolls, flow
<1>5. CASE PollCallback
  <2>1. [kind |-> "inspect", with |-> Given] \in Blocks
    BY <1>2, <1>5 DEF PollCallback, IsNext, Given, Blocks
  <2> QED BY <1>1, <1>5, <2>1, QueueTyped
          DEF PollCallback, TypeOK, FinitePolls, flow, app
<1>6. CASE InspectGrant \/ InspectFatal
  <2>1. \A o \in Outcomes : [kind |-> "completion", with |-> o] \in Blocks
    BY DEF Blocks
  <2>2. mainQueue' \in Seq(Blocks) /\ pollRunning' = FALSE
    BY <1>1, <1>6, <2>1, QueueTyped
       DEF InspectGrant, InspectFatal, Conclude, Outcomes
  <2> QED BY <1>6, <2>2
          DEF InspectGrant, InspectFatal, TypeOK, FinitePolls, flow, app
<1>7. CASE InspectPending
  BY <1>1, <1>7, QueueTyped DEF InspectPending, TypeOK, FinitePolls, flow, app
<1>8. CASE InspectSlowDown
  <2>1. interval' \in Int /\ asked' \in Nat
    BY <1>8, SlowedDown
  <2> QED BY <1>1, <1>8, <2>1, QueueTyped DEF InspectSlowDown, TypeOK, FinitePolls, app
<1> QED BY <1>3, <1>4, <1>5, <1>6, <1>7, <1>8 DEF MainQueueRuns

LEMMA StepTyped == TypeOK /\ FinitePolls /\ [Next]_vars => TypeOK' /\ FinitePolls'
<1> SUFFICES ASSUME TypeOK, FinitePolls, [Next]_vars PROVE TypeOK' /\ FinitePolls'
  OBVIOUS
<1>1. CASE UNCHANGED vars
  BY <1>1 DEF TypeOK, FinitePolls, vars
<1> QED BY <1>1, CancelTyped, InitializeTyped, LoopTyped, OutsideTyped, MainQueueTyped
        DEF Next

\* Every reachable state of the device flow is well-typed.
THEOREM TypeCorrect == Spec => []TypeOK
  BY InitTyped, StepTyped, PTL DEF Spec

-----------------------------------------------------------------------------
(* The flag tells whether the flow has concluded. *)

\* A cancel block clears the flag only after it has seen to a conclusion, which
\* no later step takes back: this is what makes FlagTellsConclusion inductive.
ClearingFollowsReport == (\E c \in Cancellers : cancel[c] = "clearing") => Concluded

FlagInv == FlagTellsConclusion /\ ClearingFollowsReport

HasCompletion(q) == \E i \in 1 .. Len(q) : q[i].kind = "completion"

LEMMA ConcludedMeans ==
  ASSUME TypeOK, TypeOK'
  PROVE  /\ Concluded <=> called # <<>> \/ HasCompletion(mainQueue)
         /\ Concluded' <=> called' # <<>> \/ HasCompletion(mainQueue')
<1>1. ASSUME NEW q \in Seq(Blocks)
      PROVE  HasCompletion(q) <=> \E i \in DOMAIN q : q[i].kind = "completion"
  BY LenProperties DEF HasCompletion
<1> QED BY <1>1 DEF Concluded, TypeOK

\* A dispatch adds what it dispatches, and takes nothing back.
LEMMA DispatchedCompletion ==
  ASSUME NEW q \in Seq(Blocks), NEW b \in Blocks
  PROVE  HasCompletion(Append(q, b)) <=> HasCompletion(q) \/ b.kind = "completion"
  BY Dispatched DEF HasCompletion

\* Running a block takes nothing but the block.
LEMMA RunCompletion ==
  ASSUME NEW q \in Seq(Blocks), q # <<>>, Head(q).kind # "completion"
  PROVE  HasCompletion(Tail(q)) <=> HasCompletion(q)
<1>1. ASSUME NEW i \in 1 .. Len(q), q[i].kind = "completion"
      PROVE  HasCompletion(Tail(q))
  <2>1. i \in 2 .. Len(q)
    BY <1>1, Run
  <2>2. i - 1 \in 1 .. Len(Tail(q)) /\ Tail(q)[i - 1] = q[i]
    BY <2>1, Run
  <2> QED BY <1>1, <2>2 DEF HasCompletion
<1>2. ASSUME NEW i \in 1 .. Len(Tail(q)), Tail(q)[i].kind = "completion"
      PROVE  HasCompletion(q)
  <2>1. i + 1 \in 1 .. Len(q) /\ Tail(q)[i] = q[i + 1]
    BY Run
  <2> QED BY <1>2, <2>1 DEF HasCompletion
<1> QED BY <1>1, <1>2 DEF HasCompletion

LEMMA InitFlagInv == Init => FlagInv
<1> SUFFICES ASSUME Init PROVE FlagInv
  OBVIOUS
<1>1. pollRunning /\ called = <<>> /\ \A c \in Cancellers : cancel[c] # "clearing"
  BY DEF Init
<1>2. ~ Concluded
  BY DEF Init, Concluded
<1> QED BY <1>1, <1>2 DEF FlagInv, FlagTellsConclusion, ClearingFollowsReport

LEMMA CancelKeepsFlagInv ==
  ASSUME TypeOK, TypeOK', FlagInv, NEW c \in Cancellers, Cancel(c)
  PROVE  FlagInv'
<1> USE DEF FlagInv, FlagTellsConclusion, ClearingFollowsReport
<1>1. cancel \in [Cancellers -> {"ready", "clearing", "done"}]
  BY DEF TypeOK
<1>2. (Concluded <=> called # <<>> \/ HasCompletion(mainQueue))
      /\ (Concluded' <=> called' # <<>> \/ HasCompletion(mainQueue'))
  BY ConcludedMeans
<1>3. CASE CancelClears(c)
  <2>1. Concluded' /\ ~ pollRunning'
    BY <1>2, <1>3 DEF CancelClears, app
  <2> QED BY <2>1
<1>4. CASE CancelChecks(c) \/ CancelOnMain(c)
  <2>1. pollRunning => HasCompletion(mainQueue')
    <3>1. [kind |-> "completion", with |-> "cancelled"] \in Blocks
      BY DEF Blocks, Outcomes
    <3>2. mainQueue \in Seq(Blocks)
      BY DEF TypeOK
    <3> QED BY <1>4, <3>1, <3>2, DispatchedCompletion
            DEF CancelChecks, CancelOnMain, ReportCancel, Dispatch
  <2>2. ~ pollRunning => Concluded'
    BY <1>2, <1>4 DEF CancelChecks, CancelOnMain, ReportCancel, app
  <2>3. Concluded'
    BY <1>2, <2>1, <2>2
  <2>4. pollRunning' => cancel'[c] = "clearing"
    BY <1>1, <1>4 DEF CancelChecks, CancelOnMain
  <2> QED BY <2>3, <2>4
<1> QED BY <1>3, <1>4 DEF Cancel

\* A step that leaves the flag, the cancel blocks and the conclusion alone.
LEMMA UntouchedFlagInv ==
  ASSUME FlagInv, UNCHANGED <<pollRunning, cancel>>, Concluded' <=> Concluded
  PROVE  FlagInv'
  BY DEF FlagInv, FlagTellsConclusion, ClearingFollowsReport

LEMMA MainQueueKeepsFlagInv ==
  ASSUME TypeOK, TypeOK', FlagInv, MainQueueRuns
  PROVE  FlagInv'
<1>1. (Concluded <=> called # <<>> \/ HasCompletion(mainQueue))
      /\ (Concluded' <=> called' # <<>> \/ HasCompletion(mainQueue'))
  BY ConcludedMeans
<1>2. mainQueue \in Seq(Blocks) /\ mainQueue # <<>> /\ Head(mainQueue) \in Blocks
      /\ Tail(mainQueue) \in Seq(Blocks)
  <2>1. mainQueue # <<>> /\ mainQueue \in Seq(Blocks)
    BY DEF MainQueueRuns, IsNext, CallsInitialization, CallsCompletion, PollCallback,
           InspectGrant, InspectPending, InspectSlowDown, InspectFatal, TypeOK
  <2> QED BY <2>1, Run
<1>3. CASE CallsCompletion
  <2>1. called' = Append(called, Given) /\ called \in Seq(Outcomes)
    BY <1>3 DEF CallsCompletion, TypeOK
  <2>2. called' # <<>>
    BY <2>1, <1>2, <1>3 DEF CallsCompletion, IsNext, Given, Blocks
  <2>3. Concluded /\ Concluded'
    BY <1>1, <1>2, <1>3, <2>2, Run DEF CallsCompletion, IsNext, HasCompletion
  <2> QED BY <1>3, <2>3, UntouchedFlagInv DEF CallsCompletion
<1>4. CASE CallsInitialization \/ InspectPending \/ InspectSlowDown
  <2>1. Head(mainQueue).kind # "completion" /\ mainQueue' = Tail(mainQueue)
        /\ called' = called /\ UNCHANGED <<pollRunning, cancel>>
    BY <1>4 DEF CallsInitialization, InspectPending, InspectSlowDown, IsNext, app
  <2>2. Concluded' <=> Concluded
    BY <1>1, <1>2, <2>1, RunCompletion
  <2> QED BY <2>1, <2>2, UntouchedFlagInv
<1>5. CASE PollCallback
  <2>1. [kind |-> "inspect", with |-> Given] \in Blocks
    BY <1>2, <1>5 DEF PollCallback, IsNext, Given, Blocks
  <2>2. Head(mainQueue).kind # "completion" /\ called' = called
        /\ UNCHANGED <<pollRunning, cancel>>
    BY <1>5 DEF PollCallback, IsNext, app
  <2>3. HasCompletion(mainQueue') <=> HasCompletion(mainQueue)
    BY <1>2, <1>5, <2>1, <2>2, RunCompletion, DispatchedCompletion DEF PollCallback
  <2> QED BY <1>1, <2>2, <2>3, UntouchedFlagInv
<1>6. CASE InspectGrant \/ InspectFatal
  <2>1. PICK o \in Outcomes : Conclude(o)
    BY <1>6 DEF InspectGrant, InspectFatal, Outcomes
  <2>2. [kind |-> "completion", with |-> o] \in Blocks
    BY DEF Blocks
  <2>3. Concluded' /\ ~ pollRunning'
    BY <1>1, <1>2, <2>1, <2>2, DispatchedCompletion DEF Conclude
  <2> QED BY <2>3 DEF FlagInv, FlagTellsConclusion, ClearingFollowsReport
<1> QED BY <1>3, <1>4, <1>5, <1>6 DEF MainQueueRuns

\* The other steps dispatch no completion block.
LEMMA OthersKeepFlagInv ==
  ASSUME TypeOK, TypeOK', FlagInv,
         \/ Initialize \/ LoopRuns \/ UserDecides \/ Tick \/ UNCHANGED vars
         \/ \E p \in polls : ServerAnswers(p) \/ AnswerArrives(p)
  PROVE  FlagInv'
<1>1. UNCHANGED <<pollRunning, cancel, called>>
  BY DEF Initialize, InitializationFails, InitializationSucceeds, LoopRuns, Wake, Poll,
         PollsAgain, PollsNoMore, UserDecides, Tick, ServerAnswers, AnswerArrives,
         vars, app
<1>2. CASE UNCHANGED mainQueue
  BY <1>1, <1>2, UntouchedFlagInv DEF Concluded
<1>3. ASSUME NEW b \in Blocks, b.kind # "completion",
             mainQueue' = Append(mainQueue, b)
      PROVE  FlagInv'
  <2>1. mainQueue \in Seq(Blocks)
    BY DEF TypeOK
  <2>2. Concluded' <=> Concluded
    BY <1>1, <1>3, <2>1, ConcludedMeans, DispatchedCompletion
  <2> QED BY <1>1, <2>2, UntouchedFlagInv
<1>4. CASE LoopRuns \/ UserDecides \/ Tick \/ UNCHANGED vars
             \/ \E p \in polls : ServerAnswers(p)
  <2>1. UNCHANGED mainQueue
    BY <1>4 DEF LoopRuns, Wake, Poll, PollsAgain, PollsNoMore, UserDecides, Tick,
                ServerAnswers, vars
  <2> QED BY <1>2, <2>1
<1>5. CASE Initialize
  <2>1. PICK with \in {"response", "error"} :
          mainQueue' = Append(mainQueue, [kind |-> "initialization", with |-> with])
    BY <1>5 DEF Initialize, InitializationFails, InitializationSucceeds, Dispatch
  <2>2. [kind |-> "initialization", with |-> with] \in Blocks
    BY DEF Blocks
  <2> QED BY <1>3, <2>1, <2>2
<1>6. ASSUME NEW p \in polls, AnswerArrives(p) PROVE FlagInv'
  <2>1. PICK with \in Answers :
          mainQueue' = Append(mainQueue, [kind |-> "callback", with |-> with])
    BY <1>6, AnswerDispatched
  <2>2. [kind |-> "callback", with |-> with] \in Blocks
    BY DEF Blocks
  <2> QED BY <1>3, <2>1, <2>2
<1> QED BY <1>4, <1>5, <1>6

LEMMA FlagInvHolds == Spec => []FlagInv
<1>1. TypeOK /\ TypeOK' /\ FlagInv /\ [Next]_vars => FlagInv'
  BY CancelKeepsFlagInv, MainQueueKeepsFlagInv, OthersKeepFlagInv DEF Next
<1> QED BY <1>1, InitFlagInv, TypeCorrect, PTL DEF Spec

\* The flag is down exactly if the completion block was called or will be, but
\* for a cancel block that another thread is about to leave.
THEOREM FlagIsTrue == Spec => []FlagTellsConclusion
<1>1. FlagInv => FlagTellsConclusion
  BY DEF FlagInv
<1> QED BY <1>1, FlagInvHolds, PTL

-----------------------------------------------------------------------------
(* The code is shown before the grant is told. *)

\* What the queue may hold only behind the initialization block: an answer, and
\* the grant that is made of one.
NeedsCode(b) ==
  \/ b.kind \in {"callback", "inspect"}
  \/ b.kind = "completion" /\ b.with = "authorized"

\* The code has been shown or will be, by a block of queue q no later than i.
CodeShownBy(q, i, told) ==
  told = "response" \/ \E j \in 1 .. i : q[j].kind = "initialization"

InOrder(q, told) ==
  \A i \in 1 .. Len(q) : NeedsCode(q[i]) => CodeShownBy(q, i, told)

\* A block that needs the code may be dispatched behind the one that shows it.
LEMMA DispatchedInOrder ==
  ASSUME NEW q \in Seq(Blocks), NEW b \in Blocks, NEW told, InOrder(q, told),
         NeedsCode(b) => CodeShownBy(q, Len(q), told)
  PROVE  /\ InOrder(Append(q, b), told)
         /\ CodeShownBy(q, Len(q), told) \/ b.kind = "initialization"
              => CodeShownBy(Append(q, b), Len(Append(q, b)), told)
<1>1. \A i \in 1 .. Len(q) : CodeShownBy(q, i, told) => CodeShownBy(Append(q, b), i, told)
  BY Dispatched DEF CodeShownBy
<1>2. CodeShownBy(q, Len(q), told) \/ b.kind = "initialization"
        => CodeShownBy(Append(q, b), Len(q) + 1, told)
  BY Dispatched DEF CodeShownBy
<1>3. InOrder(Append(q, b), told)
  <2> SUFFICES ASSUME NEW i \in 1 .. Len(q) + 1, NeedsCode(Append(q, b)[i])
               PROVE  CodeShownBy(Append(q, b), i, told)
    BY Dispatched DEF InOrder
  <2>1. CASE i \in 1 .. Len(q)
    BY <1>1, <2>1, Dispatched DEF InOrder
  <2>2. CASE i = Len(q) + 1
    BY <1>2, <2>2, Dispatched
  <2> QED BY <2>1, <2>2, Dispatched
<1> QED BY <1>2, <1>3, Dispatched

\* Running a block keeps the order, if running the one that shows the code does.
LEMMA RunInOrder ==
  ASSUME NEW q \in Seq(Blocks), q # <<>>, NEW told, NEW told2, InOrder(q, told),
         told = "response" => told2 = "response",
         Head(q).kind = "initialization" => told2 = "response"
  PROVE  /\ InOrder(Tail(q), told2)
         /\ CodeShownBy(q, Len(q), told) => CodeShownBy(Tail(q), Len(Tail(q)), told2)
<1>1. ASSUME NEW i \in 1 .. Len(q), CodeShownBy(q, i, told)
      PROVE  CodeShownBy(Tail(q), i - 1, told2)
  <2>1. CASE told = "response" \/ Head(q).kind = "initialization"
    BY <2>1 DEF CodeShownBy
  <2>2. ASSUME NEW j \in 1 .. i, q[j].kind = "initialization",
               Head(q).kind # "initialization"
        PROVE  CodeShownBy(Tail(q), i - 1, told2)
    <3>1. j \in 2 .. Len(q) /\ j - 1 \in 1 .. i - 1
      BY <2>2, Run
    <3>2. Tail(q)[j - 1].kind = "initialization"
      BY <2>2, <3>1, Run
    <3> QED BY <3>1, <3>2 DEF CodeShownBy
  <2> QED BY <1>1, <2>1, <2>2 DEF CodeShownBy
<1>2. InOrder(Tail(q), told2)
  <2> SUFFICES ASSUME NEW i \in 1 .. Len(Tail(q)), NeedsCode(Tail(q)[i])
               PROVE  CodeShownBy(Tail(q), i, told2)
    BY DEF InOrder
  <2>1. i + 1 \in 1 .. Len(q) /\ Tail(q)[i] = q[i + 1] /\ (i + 1) - 1 = i
    BY Run
  <2>2. CodeShownBy(q, i + 1, told)
    BY <2>1 DEF InOrder
  <2> QED BY <1>1, <2>1, <2>2
<1>3. Len(q) \in 1 .. Len(q) /\ Len(Tail(q)) = Len(q) - 1
  BY Run
<1> QED BY <1>1, <1>2, <1>3

\* Until the device code request is answered nothing needs the code, and then
\* the block that shows it is in the queue before anything that does.
CodeOrder ==
  /\ InOrder(mainQueue, initialized)
  /\ initial = "answered" =>
       /\ CodeShownBy(mainQueue, Len(mainQueue), initialized)
       /\ \A i \in 1 .. Len(mainQueue) :
            mainQueue[i].kind = "initialization" => mainQueue[i].with = "response"
  /\ initial # "answered" =>
       /\ loop = "absent" /\ polls = {}
       /\ \A i \in 1 .. Len(mainQueue) : ~ NeedsCode(mainQueue[i])
       /\ \A i \in DOMAIN called : called[i] # "authorized"
  /\ initial = "sent" =>
       \A i \in 1 .. Len(mainQueue) : mainQueue[i].kind # "initialization"
  /\ CodeShownBeforeGrant

LEMMA InitCodeOrder == Init => CodeOrder
<1> SUFFICES ASSUME Init PROVE CodeOrder
  OBVIOUS
<1>1. /\ Len(mainQueue) = 0 /\ DOMAIN called = {} /\ polls = {}
      /\ initial = "sent" /\ loop = "absent"
  BY EmptySeq DEF Init
<1> QED BY <1>1 DEF CodeOrder, InOrder, CodeShownBeforeGrant

\* A dispatch of a block that may be dispatched, by a step that sends no poll.
LEMMA DispatchKeepsCodeOrder ==
  ASSUME TypeOK, CodeOrder, NEW b \in Blocks, mainQueue' = Append(mainQueue, b),
         b.kind # "initialization", NeedsCode(b) => initial = "answered",
         UNCHANGED <<initial, loop, called, initialized>>, polls' \subseteq polls
  PROVE  CodeOrder'
<1>1. mainQueue \in Seq(Blocks)
  BY DEF TypeOK
<1>2. /\ InOrder(mainQueue', initialized)
      /\ initial = "answered" => CodeShownBy(mainQueue', Len(mainQueue'), initialized)
  BY <1>1, DispatchedInOrder DEF CodeOrder
<1>3. \A i \in 1 .. Len(mainQueue') :
        \/ i \in 1 .. Len(mainQueue) /\ mainQueue'[i] = mainQueue[i]
        \/ mainQueue'[i] = b
  BY <1>1, Dispatched
<1> QED BY <1>2, <1>3 DEF CodeOrder, CodeShownBeforeGrant

\* The device code request is answered.
LEMMA InitializeKeepsCodeOrder ==
  ASSUME TypeOK, CodeOrder, Initialize
  PROVE  CodeOrder'
<1>1. mainQueue \in Seq(Blocks)
  BY DEF TypeOK
<1>2. initial = "sent" /\ UNCHANGED <<called, initialized, polls>>
  BY DEF Initialize, InitializationFails, InitializationSucceeds, app
<1>3. \/ /\ initial' = "failed" /\ loop' = loop
         /\ mainQueue' = Append(mainQueue, [kind |-> "initialization", with |-> "error"])
      \/ /\ initial' = "answered"
         /\ mainQueue' = Append(mainQueue, [kind |-> "initialization", with |-> "response"])
  BY DEF Initialize, InitializationFails, InitializationSucceeds, Dispatch
<1>4. ASSUME NEW with \in {"error", "response"},
             mainQueue' = Append(mainQueue, [kind |-> "initialization", with |-> with])
      PROVE  /\ InOrder(mainQueue', initialized)
             /\ CodeShownBy(mainQueue', Len(mainQueue'), initialized)
             /\ \A i \in 1 .. Len(mainQueue') :
                  \/ i \in 1 .. Len(mainQueue) /\ mainQueue'[i] = mainQueue[i]
                  \/ mainQueue'[i] = [kind |-> "initialization", with |-> with]
  <2> DEFINE b == [kind |-> "initialization", with |-> with]
  <2>1. b \in Blocks /\ b.kind = "initialization" /\ ~ NeedsCode(b)
    BY DEF Blocks, NeedsCode
  <2> HIDE DEF b
  <2>2. mainQueue' = Append(mainQueue, b)
    BY <1>4 DEF b
  <2>3. /\ InOrder(mainQueue', initialized)
        /\ CodeShownBy(mainQueue', Len(mainQueue'), initialized)
    BY <1>1, <2>1, <2>2, DispatchedInOrder DEF CodeOrder
  <2>4. \A i \in 1 .. Len(mainQueue') :
          \/ i \in 1 .. Len(mainQueue) /\ mainQueue'[i] = mainQueue[i]
          \/ mainQueue'[i] = b
    BY <1>1, <2>1, <2>2, Dispatched
  <2> QED BY <2>3, <2>4 DEF b
<1>5. CASE initial' = "failed"
  BY <1>2, <1>3, <1>4, <1>5 DEF CodeOrder, CodeShownBeforeGrant, NeedsCode
<1>6. CASE initial' = "answered"
  BY <1>2, <1>3, <1>4, <1>6 DEF CodeOrder, CodeShownBeforeGrant
<1> QED BY <1>3, <1>5, <1>6

\* A block of the main queue runs, and may dispatch another.
LEMMA RunKeepsCodeOrder ==
  ASSUME TypeOK, CodeOrder, MainQueueRuns
  PROVE  CodeOrder'
<1> DEFINE q == mainQueue
           told2 == IF q[1].kind = "initialization" THEN q[1].with ELSE initialized
<1>1. q \in Seq(Blocks) /\ q # <<>> /\ Head(q) = q[1] /\ q[1] \in Blocks
      /\ Len(q) \in Nat \ {0} /\ UNCHANGED <<initial, loop, polls>>
  <2>1. q \in Seq(Blocks) /\ q # <<>>
    BY DEF MainQueueRuns, IsNext, CallsInitialization, CallsCompletion, PollCallback,
           InspectGrant, InspectPending, InspectSlowDown, InspectFatal, TypeOK
  <2>2. UNCHANGED <<initial, loop, polls>>
    BY DEF MainQueueRuns, CallsInitialization, CallsCompletion, PollCallback,
           InspectGrant, InspectPending, InspectSlowDown, InspectFatal, flow
  <2> QED BY <2>1, <2>2, Run
<1>2. initialized' = told2
  BY <1>1 DEF MainQueueRuns, CallsInitialization, CallsCompletion, PollCallback,
              InspectGrant, InspectPending, InspectSlowDown, InspectFatal, IsNext,
              Given, app
<1>3. /\ InOrder(Tail(q), told2)
      /\ initial = "answered" => CodeShownBy(Tail(q), Len(Tail(q)), told2)
  <2>1. CASE initial = "answered"
    <3>1. q[1].kind = "initialization" => q[1].with = "response"
      BY <1>1, <2>1 DEF CodeOrder
    <3> QED BY <1>1, <2>1, <3>1, RunInOrder DEF CodeOrder
  <2>2. CASE initial # "answered"
    BY <1>1, <2>2, Run DEF CodeOrder, InOrder
  <2> QED BY <2>1, <2>2
<1>4. \A i \in 1 .. Len(Tail(q)) : i + 1 \in 1 .. Len(q) /\ Tail(q)[i] = q[i + 1]
  BY <1>1, Run
<1>5. NeedsCode(q[1]) => initial = "answered" /\ told2 = "response"
  BY <1>1 DEF CodeOrder, InOrder, CodeShownBy, NeedsCode
<1>6. \A i \in DOMAIN called' :
        called'[i] = "authorized" => initial = "answered" /\ told2 = "response"
  <2>1. \A i \in DOMAIN called :
          called[i] = "authorized" => initial = "answered" /\ told2 = "response"
    BY <1>1 DEF CodeOrder, CodeShownBeforeGrant
  <2>2. CASE CallsCompletion
    <3>1. q[1].kind = "completion" /\ called' = Append(called, q[1].with)
      BY <1>1, <2>2 DEF CallsCompletion, IsNext, Given
    <3>2. called \in Seq(Outcomes) /\ q[1].with \in Outcomes
      BY <1>1, <3>1 DEF TypeOK, Blocks
    <3>3. q[1].with = "authorized" => initial = "answered" /\ told2 = "response"
      BY <1>5, <3>1 DEF NeedsCode
    <3> HIDE DEF told2
    <3> QED BY <2>1, <3>1, <3>2, <3>3
  <2>3. CASE ~ CallsCompletion
    BY <2>1, <2>3 DEF MainQueueRuns, CallsInitialization, PollCallback, InspectGrant,
                      InspectPending, InspectSlowDown, InspectFatal, app
  <2> QED BY <2>2, <2>3
<1>7. CASE mainQueue' = Tail(q)
  BY <1>1, <1>2, <1>3, <1>4, <1>6, <1>7 DEF CodeOrder, CodeShownBeforeGrant
<1>8. ASSUME NEW b \in Blocks, b.kind # "initialization",
             NeedsCode(b) => NeedsCode(q[1]), mainQueue' = Append(Tail(q), b)
      PROVE  CodeOrder'
  <2>1. Tail(q) \in Seq(Blocks)
    BY <1>1, Run
  <2>2. NeedsCode(b) => CodeShownBy(Tail(q), Len(Tail(q)), told2)
    BY <1>3, <1>5, <1>8
  <2> HIDE DEF told2
  <2>3. /\ InOrder(mainQueue', told2)
        /\ initial = "answered" => CodeShownBy(mainQueue', Len(mainQueue'), told2)
    BY <1>3, <1>8, <2>1, <2>2, DispatchedInOrder
  <2>4. \A i \in 1 .. Len(mainQueue') :
          \/ i + 1 \in 1 .. Len(q) /\ mainQueue'[i] = q[i + 1]
          \/ mainQueue'[i] = b
    BY <1>4, <1>8, <2>1, Dispatched
  <2> QED BY <1>1, <1>2, <1>5, <1>6, <1>8, <2>3, <2>4 DEF CodeOrder, CodeShownBeforeGrant
<1>9. CASE CallsInitialization \/ CallsCompletion \/ InspectPending \/ InspectSlowDown
  BY <1>7, <1>9 DEF CallsInitialization, CallsCompletion, InspectPending, InspectSlowDown
<1>10. CASE PollCallback
  <2>1. NeedsCode(q[1]) /\ q[1].with \in Answers
    BY <1>1, <1>10 DEF PollCallback, IsNext, NeedsCode, Blocks
  <2>2. [kind |-> "inspect", with |-> q[1].with] \in Blocks
    BY <2>1 DEF Blocks
  <2> QED BY <1>1, <1>7, <1>8, <1>10, <2>1, <2>2 DEF PollCallback, Given
<1>11. CASE InspectGrant \/ InspectFatal
  <2>1. PICK o \in Outcomes : Conclude(o)
    BY <1>11 DEF InspectGrant, InspectFatal, Outcomes
  <2>2. [kind |-> "completion", with |-> o] \in Blocks /\ NeedsCode(q[1])
    BY <1>1, <1>11 DEF InspectGrant, InspectFatal, IsNext, NeedsCode, Blocks
  <2> QED BY <1>8, <2>1, <2>2 DEF Conclude
<1> QED BY <1>9, <1>10, <1>11 DEF MainQueueRuns

LEMMA StepKeepsCodeOrder == TypeOK /\ CodeOrder /\ [Next]_vars => CodeOrder'
<1> SUFFICES ASSUME TypeOK, CodeOrder, [Next]_vars PROVE CodeOrder'
  OBVIOUS
<1>1. ASSUME UNCHANGED <<initial, mainQueue, called, initialized>>,
             \/ UNCHANGED <<loop, polls>>
             \/ initial = "answered"
      PROVE  CodeOrder'
  BY <1>1 DEF CodeOrder, CodeShownBeforeGrant
<1>2. ASSUME NEW c \in Cancellers, Cancel(c) PROVE CodeOrder'
  <2>1. UNCHANGED <<initial, loop, polls, called, initialized>>
    BY <1>2 DEF Cancel, CancelChecks, CancelClears, CancelOnMain, flow, app
  <2>2. [kind |-> "completion", with |-> "cancelled"] \in Blocks
        /\ ~ NeedsCode([kind |-> "completion", with |-> "cancelled"])
    BY DEF Blocks, Outcomes, NeedsCode
  <2>3. \/ mainQueue' = Append(mainQueue, [kind |-> "completion", with |-> "cancelled"])
        \/ UNCHANGED mainQueue
    BY <1>2 DEF Cancel, CancelChecks, CancelClears, CancelOnMain, ReportCancel, Dispatch
  <2> QED BY <1>1, <2>1, <2>2, <2>3, DispatchKeepsCodeOrder
<1>3. CASE LoopRuns
  <2>1. initial = "answered"
    BY <1>3 DEF CodeOrder, LoopRuns, Wake, Poll, PollsAgain, PollsNoMore, TypeOK
  <2> QED BY <1>1, <1>3, <2>1
          DEF LoopRuns, Wake, Poll, PollsAgain, PollsNoMore, app
<1>4. CASE UserDecides \/ Tick \/ UNCHANGED vars
  BY <1>1, <1>4 DEF UserDecides, Tick, vars, flow, app
<1>5. ASSUME NEW p \in polls, ServerAnswers(p) PROVE CodeOrder'
  <2>1. initial = "answered"
    BY <1>5 DEF CodeOrder
  <2> QED BY <1>1, <1>5, <2>1 DEF ServerAnswers, flow, app
<1>6. ASSUME NEW p \in polls, AnswerArrives(p) PROVE CodeOrder'
  <2>1. initial = "answered"
    BY <1>6 DEF CodeOrder
  <2>2. PICK with \in Answers :
          mainQueue' = Append(mainQueue, [kind |-> "callback", with |-> with])
    BY <1>6, AnswerDispatched
  <2>3. [kind |-> "callback", with |-> with] \in Blocks
    BY DEF Blocks
  <2>4. UNCHANGED <<initial, loop, called, initialized>> /\ polls' \subseteq polls
    BY <1>6 DEF AnswerArrives, flow, app
  <2> QED BY <2>1, <2>2, <2>3, <2>4, DispatchKeepsCodeOrder
<1> QED BY <1>2, <1>3, <1>4, <1>5, <1>6, InitializeKeepsCodeOrder, RunKeepsCodeOrder
        DEF Next

\* Whatever order answers, cancels and blocks come in, an app that is told of a
\* grant has been told the code before.
THEOREM CodeIsShown == Spec => []CodeShownBeforeGrant
<1>1. CodeOrder => CodeShownBeforeGrant
  BY DEF CodeOrder
<1> QED BY <1>1, InitCodeOrder, StepKeepsCodeOrder, TypeCorrect, PTL DEF Spec

-----------------------------------------------------------------------------
(* Polls are paced. *)

\* The interval is never less than what was asked for.  A sleep begins with at
\* least the rest of the pause to go, both count down together, and only a sleep
\* that is over leads to a poll: this makes PollsArePaced inductive.
Paced ==
  /\ initial = "answered" => asked <= Max2(interval, 0)
  /\ initial # "answered" => loop = "absent"
  /\ loop = "asleep" => rest <= sleepLeft
  /\ loop = "polling" => rest = 0
  /\ loop = "testing" => rest <= asked

LEMMA InitPaced == Init => Paced
  BY DEF Init, Paced

LEMMA StepPaced == TypeOK /\ Paced /\ [Next]_vars => Paced'
<1> SUFFICES ASSUME TypeOK, Paced, [Next]_vars PROVE Paced'
  OBVIOUS
<1> USE DEF Paced
<1>0. asked \in Nat /\ rest \in Nat /\ interval \in Int /\ sleepLeft \in Nat
  BY DEF TypeOK
<1>1. ASSUME NEW c \in Cancellers, Cancel(c) PROVE Paced'
  BY <1>1 DEF Cancel, CancelChecks, CancelClears, CancelOnMain, flow
<1>2. CASE InitializationFails
  BY <1>2 DEF InitializationFails
<1>3. ASSUME NEW i \in Intervals, NEW life \in Lifetimes, InitializationSucceeds(i, life)
      PROVE  Paced'
  <2>1. /\ interval' = InitialInterval(i) /\ sleepLeft' = Max2(interval', 0)
        /\ loop' = "asleep" /\ initial' = "answered" /\ NoteAsked(i)
    BY <1>3 DEF InitializationSucceeds
  <2>2. asked' = Max2(interval', 0) /\ rest' = asked' /\ asked' \in Nat
    BY <2>1, NotedPause
  <2> QED BY <2>1, <2>2
<1>4. CASE Wake \/ Poll \/ PollsNoMore
  BY <1>0, <1>4 DEF Wake, Poll, PollsNoMore, TypeOK
<1>5. CASE PollsAgain
  <2>1. /\ loop = "testing" /\ loop' = "asleep" /\ sleepLeft' = Max2(interval, 0)
        /\ UNCHANGED <<initial, interval, asked, rest>>
    BY <1>5 DEF PollsAgain
  <2>2. initial = "answered"
    BY <2>1
  <2> QED BY <1>0, <2>1, <2>2 DEF Max2
<1>6. CASE UserDecides \/ UNCHANGED vars \/ \E p \in polls : ServerAnswers(p) \/ AnswerArrives(p)
  BY <1>6 DEF UserDecides, ServerAnswers, AnswerArrives, vars, flow
<1>7. CASE Tick
  <2>1. /\ rest' = Max2(rest - 1, 0) /\ sleepLeft' = Max2(sleepLeft - 1, 0)
        /\ UNCHANGED <<initial, loop, interval, asked>>
    BY <1>7 DEF Tick
  <2> QED BY <1>0, <2>1 DEF Max2
<1>8. CASE InspectSlowDown
  <2>1. /\ interval' \in Int /\ interval' >= interval /\ interval' >= 5 * Second
        /\ asked' = Max2(5 * Second, asked)
    BY <1>8, SlowedDown
  <2>2. UNCHANGED <<initial, loop, sleepLeft, rest>>
    BY <1>8 DEF InspectSlowDown
  <2>3. 5 * Second \in Nat
    BY SecondAssumption
  <2>4. asked <= asked' /\ (initial = "answered" => asked' <= Max2(interval', 0))
    BY <1>0, <2>1, <2>3 DEF Max2
  <2>5. asked' \in Nat
    BY <1>8, SlowedDown
  <2> QED BY <1>0, <2>2, <2>4, <2>5
<1>9. CASE MainQueueRuns /\ ~ InspectSlowDown
  BY <1>9 DEF MainQueueRuns, CallsInitialization, CallsCompletion, PollCallback,
              InspectGrant, InspectPending, InspectFatal, flow
<1> QED BY <1>1, <1>2, <1>3, <1>4, <1>5, <1>6, <1>7, <1>8, <1>9 DEF Next, Initialize, LoopRuns

\* Whatever interval the server names, a fraction of a second or a negative one
\* included, and whenever its answers slow the loop down, a poll is preceded by
\* the pause that was asked for.
THEOREM PollsHavePauses == Spec => PollsArePaced
<1>1. Paced /\ [Next]_vars => [loop = "polling" /\ loop' = "testing" => rest = 0]_vars
  BY DEF Paced
<1> QED BY <1>1, InitPaced, StepPaced, TypeCorrect, PTL DEF Spec, PollsArePaced

\* The steps the polling thread takes at most before it ends: a poll is three of
\* them and, the sleep before it counted, a tick of the code's life.
Life == IF lifeLeft = Nil THEN 0 ELSE lifeLeft
StepsLeft ==
  CASE loop = "asleep" /\ sleepLeft > 0 -> 3 * Max2(Life, 1)
    [] loop = "asleep" /\ sleepLeft = 0 -> 3 * Life + 3
    [] loop = "polling" -> 3 * Life + 2
    [] loop = "testing" -> 3 * Life + 1
    [] OTHER -> 0

LEMMA ThriceIsMonotone ==
  ASSUME NEW m \in Nat, NEW n \in Nat, NEW k \in Nat, m <= n
  PROVE  3 * m + k <= 3 * n + k
  OBVIOUS

LEMMA StepsLeftTyped == TypeOK => Life \in Nat /\ StepsLeft \in Nat
<1> SUFFICES ASSUME TypeOK PROVE Life \in Nat /\ StepsLeft \in Nat
  OBVIOUS
<1>1. Life \in Nat /\ sleepLeft \in Nat
  BY ResponsesAssumption DEF Life, TypeOK
<1> QED BY <1>1 DEF StepsLeft, Max2

\* The thread winds down as long as it sleeps between its polls, whatever the
\* answers are and however the interval grows: each of its steps leaves fewer, no
\* other step adds one, and an interval that is positive stays so.  So a code is
\* polled for at most once in a tick of its life, and once if it has none: the
\* safety half of PollingEnds, of which the other is that threads run and time
\* passes.  An interval below 0 is no sleep, and then there is no such number: the
\* loop polls as fast as it can until the code expires.
THEOREM PollingWindsDown ==
  Spec => [][initial = "answered" /\ interval > 0 =>
               /\ StepsLeft \in Nat /\ StepsLeft' <= StepsLeft
               /\ LoopRuns => StepsLeft' < StepsLeft
               /\ interval' > 0]_vars
<1>1. TypeOK /\ TypeOK' /\ Paced /\ [Next]_vars =>
        (initial = "answered" /\ interval > 0 =>
           /\ StepsLeft \in Nat /\ StepsLeft' <= StepsLeft
           /\ LoopRuns => StepsLeft' < StepsLeft
           /\ interval' > 0)
  <2> SUFFICES ASSUME TypeOK, TypeOK', Paced, [Next]_vars, initial = "answered", interval > 0
               PROVE  /\ StepsLeft \in Nat /\ StepsLeft' <= StepsLeft
                      /\ LoopRuns => StepsLeft' < StepsLeft
                      /\ interval' > 0
    OBVIOUS
  <2>0. interval' > 0
    <3>1. CASE InspectSlowDown
      BY <3>1, SlowedDown DEF TypeOK
    <3>2. CASE ~ InspectSlowDown
      BY <3>2 DEF Next, Cancel, CancelChecks, CancelClears, CancelOnMain, Initialize,
         InitializationFails, InitializationSucceeds, LoopRuns, Wake, Poll, PollsAgain,
         PollsNoMore, UserDecides, Tick, ServerAnswers, AnswerArrives, MainQueueRuns,
         CallsInitialization, CallsCompletion, PollCallback, InspectGrant, InspectFatal,
         InspectPending, flow, vars
    <3> QED BY <3>1, <3>2
  <2>1. /\ Life \in Nat /\ sleepLeft \in Nat /\ StepsLeft \in Nat
        /\ Life' \in Nat /\ sleepLeft' \in Nat /\ interval \in Int
    <3>1. TypeOK' => Life' \in Nat /\ sleepLeft' \in Nat
      BY ResponsesAssumption DEF Life, TypeOK
    <3> QED BY <3>1, StepsLeftTyped DEF TypeOK
  <2>2. CASE LoopRuns
    <3>1. Life' = Life
      BY <2>2 DEF LoopRuns, Wake, Poll, PollsAgain, PollsNoMore, Life
    <3>2. CASE Wake
      BY <2>1, <3>1, <3>2 DEF Wake, StepsLeft, Max2
    <3>3. CASE Poll
      BY <2>1, <3>1, <3>3 DEF Poll, StepsLeft, Max2
    <3>4. CASE PollsAgain
      <4>1. /\ loop = "testing" /\ loop' = "asleep" /\ sleepLeft' > 0 /\ Life > 0
        <5>1. sleepLeft' = Max2(interval, 0) /\ lifeLeft # Nil /\ lifeLeft > 0
          BY <3>4 DEF PollsAgain, CodeLives
        <5>2. sleepLeft' > 0 /\ Life > 0
          BY <2>1, <5>1 DEF Life, Max2
        <5> QED BY <3>4, <5>2 DEF PollsAgain
      <4>2. Max2(Life', 1) = Life
        BY <2>1, <3>1, <4>1 DEF Max2
      <4>3. StepsLeft' = 3 * Life /\ StepsLeft = 3 * Life + 1
        BY <4>1, <4>2 DEF StepsLeft
      <4> QED BY <2>0, <2>1, <4>3
    <3>5. CASE PollsNoMore
      BY <2>1, <3>1, <3>5 DEF PollsNoMore, StepsLeft, Max2
    <3>6. StepsLeft' < StepsLeft
      BY <2>2, <3>2, <3>3, <3>4, <3>5 DEF LoopRuns
    <3>7. StepsLeft' \in Nat
      BY <2>1 DEF StepsLeft, Max2
    <3> QED BY <2>0, <2>1, <3>6, <3>7
  <2>3. CASE Tick
    <3>1. /\ sleepLeft' = (IF sleepLeft - 1 > 0 THEN sleepLeft - 1 ELSE 0)
          /\ Life' = (IF Life - 1 > 0 THEN Life - 1 ELSE 0)
          /\ loop' = loop
      <4>1. loop' = loop /\ sleepLeft' = (IF sleepLeft - 1 > 0 THEN sleepLeft - 1 ELSE 0)
        BY <2>3 DEF Tick, Max2
      <4>2. CASE lifeLeft = Nil
        BY <2>3, <4>1, <4>2 DEF Tick, Life
      <4>3. CASE lifeLeft # Nil
        <5>1. lifeLeft' = IF lifeLeft - 1 > 0 THEN lifeLeft - 1 ELSE 0
          BY <2>3, <4>3 DEF Tick, Max2
        <5>2. lifeLeft' \in Nat /\ Life = lifeLeft
          BY <2>1, <4>3, <5>1 DEF Life
        <5>3. Life' = lifeLeft'
          BY <5>2, ResponsesAssumption DEF Life
        <5> QED BY <4>1, <5>1, <5>2, <5>3
      <4> QED BY <4>2, <4>3
    <3>2. Life' <= Life /\ Life <= Life' + 1
      BY <2>1, <3>1
    <3>3. StepsLeft' <= StepsLeft
      <4>1. CASE loop = "asleep" /\ sleepLeft = 0
        <5>1. loop' = "asleep" /\ sleepLeft' = 0
          BY <3>1, <4>1
        <5>2. StepsLeft = 3 * Life + 3 /\ StepsLeft' = 3 * Life' + 3
          BY <4>1, <5>1 DEF StepsLeft
        <5> QED BY <2>1, <3>2, <5>2, ThriceIsMonotone
      <4>2. CASE loop = "asleep" /\ sleepLeft > 0 /\ sleepLeft' = 0
        <5>1. loop' = "asleep" /\ ~ sleepLeft' > 0
          BY <3>1, <4>2
        <5>2. StepsLeft = 3 * Max2(Life, 1) /\ StepsLeft' = 3 * Life' + 3
          BY <4>2, <5>1 DEF StepsLeft
        <5>3. Max2(Life, 1) \in Nat /\ Life' + 1 <= Max2(Life, 1)
          BY <2>1, <3>1 DEF Max2
        <5> QED BY <2>1, <5>2, <5>3
      <4>3. CASE loop = "asleep" /\ sleepLeft > 0 /\ sleepLeft' > 0
        <5>1. StepsLeft = 3 * Max2(Life, 1) /\ StepsLeft' = 3 * Max2(Life', 1)
          BY <3>1, <4>3 DEF StepsLeft
        <5>2. /\ Max2(Life, 1) \in Nat /\ Max2(Life', 1) \in Nat
              /\ Max2(Life', 1) <= Max2(Life, 1)
          BY <2>1, <3>2 DEF Max2
        <5> QED BY <5>1, <5>2
      <4>4. CASE loop = "polling"
        <5>1. StepsLeft = 3 * Life + 2 /\ StepsLeft' = 3 * Life' + 2
          BY <3>1, <4>4 DEF StepsLeft
        <5> QED BY <2>1, <3>2, <5>1, ThriceIsMonotone
      <4>5. CASE loop = "testing"
        <5>1. StepsLeft = 3 * Life + 1 /\ StepsLeft' = 3 * Life' + 1
          BY <3>1, <4>5 DEF StepsLeft
        <5> QED BY <2>1, <3>2, <5>1, ThriceIsMonotone
      <4>6. CASE loop \notin {"asleep", "polling", "testing"}
        <5>1. StepsLeft = 0 /\ StepsLeft' = 0
          BY <3>1, <4>6 DEF StepsLeft
        <5> QED BY <5>1
      <4> QED BY <2>1, <4>1, <4>2, <4>3, <4>4, <4>5, <4>6
    <3>4. ~ LoopRuns
      BY <2>3, <3>1 DEF LoopRuns, Wake, Poll, PollsAgain, PollsNoMore
    <3> QED BY <2>0, <2>1, <3>3, <3>4
  <2>4. CASE /\ \/ \E c \in Cancellers : Cancel(c)
                \/ UserDecides \/ MainQueueRuns \/ UNCHANGED vars
                \/ \E p \in polls : ServerAnswers(p) \/ AnswerArrives(p)
             /\ ~ LoopRuns
    <3>1. UNCHANGED <<loop, sleepLeft, lifeLeft>>
      BY <2>4 DEF Cancel, CancelChecks, CancelClears, CancelOnMain, UserDecides,
                  MainQueueRuns, CallsInitialization, CallsCompletion, PollCallback,
                  InspectGrant, InspectPending, InspectSlowDown, InspectFatal,
                  ServerAnswers, AnswerArrives, vars, flow
    <3> QED BY <2>0, <2>1, <2>4, <3>1 DEF StepsLeft, Life
  <2>5. ~ Initialize
    BY DEF Initialize, InitializationFails, InitializationSucceeds
  <2> QED BY <2>0, <2>2, <2>3, <2>4, <2>5 DEF Next
<1>2. Spec => []Paced
  BY InitPaced, StepPaced, TypeCorrect, PTL DEF Spec
<1> QED BY <1>1, <1>2, TypeCorrect, PTL DEF Spec

-----------------------------------------------------------------------------
(* Each side completes the flow once. *)

NoneOf(q, S) == \A i \in 1 .. Len(q) : q[i] \notin S
OneOf(q, S) == \A i, j \in 1 .. Len(q) : q[i] \in S /\ q[j] \in S => i = j

LEMMA AppendsOne ==
  ASSUME NEW T, NEW q \in Seq(T), NEW b \in T, NEW S
  PROVE  /\ NoneOf(Append(q, b), S) <=> NoneOf(q, S) /\ b \notin S
         /\ OneOf(q, S) /\ (NoneOf(q, S) \/ b \notin S) => OneOf(Append(q, b), S)
<1>1. /\ Len(q) \in Nat /\ Len(Append(q, b)) = Len(q) + 1
      /\ \A i \in 1 .. Len(q) : Append(q, b)[i] = q[i]
      /\ Append(q, b)[Len(q) + 1] = b
  BY LenProperties
<1> QED BY <1>1 DEF NoneOf, OneOf

LEMMA TakesOne ==
  ASSUME NEW q \in Seq(Blocks), q # <<>>, NEW S
  PROVE  /\ NoneOf(q, S) => NoneOf(Tail(q), S) /\ Head(q) \notin S
         /\ OneOf(q, S) => OneOf(Tail(q), S)
         /\ OneOf(q, S) /\ Head(q) \in S => NoneOf(Tail(q), S)
<1>1. /\ Len(q) \in Nat \ {0} /\ Len(Tail(q)) = Len(q) - 1 /\ Head(q) = q[1]
      /\ \A i \in 1 .. Len(Tail(q)) : i + 1 \in 1 .. Len(q) /\ Tail(q)[i] = q[i + 1]
  BY Run
<1>2. 1 \in 1 .. Len(q)
  BY <1>1
<1> QED BY <1>1, <1>2 DEF NoneOf, OneOf

\* The app has been told such an outcome, or will be: never, or once.
Completions(outcomes) == {b \in Blocks : b.kind = "completion" /\ b.with \in outcomes}

Never(q, tellings, outcomes) == NoneOf(q, Completions(outcomes)) /\ NoneOf(tellings, outcomes)
Once(q, tellings, outcomes) ==
  /\ OneOf(q, Completions(outcomes)) /\ OneOf(tellings, outcomes)
  /\ NoneOf(q, Completions(outcomes)) \/ NoneOf(tellings, outcomes)

\* A step of the queue and the calls that adds no such completion.
Keeps(q, tellings, q2, tellings2, outcomes) ==
  /\ Never(q, tellings, outcomes) => Never(q2, tellings2, outcomes)
  /\ Once(q, tellings, outcomes) => Once(q2, tellings2, outcomes)

\* Appending another block, running one that completes nothing, doing both, and
\* running one that completes.
LEMMA AppendKeeps ==
  ASSUME NEW q \in Seq(Blocks), NEW tellings, NEW outcomes,
         NEW b \in Blocks \ Completions(outcomes)
  PROVE  Keeps(q, tellings, Append(q, b), tellings, outcomes)
  BY AppendsOne DEF Keeps, Never, Once

LEMMA RunKeeps ==
  ASSUME NEW q \in Seq(Blocks), q # <<>>, NEW tellings, NEW outcomes
  PROVE  Keeps(q, tellings, Tail(q), tellings, outcomes)
  BY TakesOne DEF Keeps, Never, Once

LEMMA RunAppendKeeps ==
  ASSUME NEW q \in Seq(Blocks), q # <<>>, NEW tellings, NEW outcomes,
         NEW b \in Blocks \ Completions(outcomes)
  PROVE  Keeps(q, tellings, Append(Tail(q), b), tellings, outcomes)
<1>1. Tail(q) \in Seq(Blocks)
  BY Run
<1>2. Keeps(q, tellings, Tail(q), tellings, outcomes)
  BY RunKeeps
<1>3. Keeps(Tail(q), tellings, Append(Tail(q), b), tellings, outcomes)
  BY <1>1, AppendKeeps
<1> QED BY <1>2, <1>3 DEF Keeps

LEMMA CompletingKeeps ==
  ASSUME NEW q \in Seq(Blocks), q # <<>>, Head(q).kind = "completion",
         NEW tellings \in Seq(Outcomes), NEW outcomes
  PROVE  Keeps(q, tellings, Tail(q), Append(tellings, Head(q).with), outcomes)
<1>1. Head(q) \in Blocks /\ Head(q).with \in Outcomes
  BY Run DEF Blocks
<1>2. Head(q) \in Completions(outcomes) <=> Head(q).with \in outcomes
  BY <1>1 DEF Completions
<1> DEFINE tellings2 == Append(tellings, Head(q).with)
           S == Completions(outcomes)
<1>3. /\ NoneOf(tellings2, outcomes)
           <=> NoneOf(tellings, outcomes) /\ Head(q).with \notin outcomes
      /\ OneOf(tellings, outcomes)
           /\ (NoneOf(tellings, outcomes) \/ Head(q).with \notin outcomes)
           => OneOf(tellings2, outcomes)
  BY <1>1, AppendsOne
<1>4. /\ NoneOf(q, S) => NoneOf(Tail(q), S) /\ Head(q) \notin S
      /\ OneOf(q, S) => OneOf(Tail(q), S)
      /\ OneOf(q, S) /\ Head(q) \in S => NoneOf(Tail(q), S)
  BY TakesOne
<1> HIDE DEF tellings2, S
<1>5. Never(q, tellings, outcomes) => Never(Tail(q), tellings2, outcomes)
  BY <1>2, <1>3, <1>4 DEF Never, S
<1>6. Once(q, tellings, outcomes) => Once(Tail(q), tellings2, outcomes)
  BY <1>2, <1>3, <1>4 DEF Once, S
<1> QED BY <1>5, <1>6 DEF Keeps, tellings2

\* After a block that may complete, what was never told is told once at most.
LEMMA AppendMakesOnce ==
  ASSUME NEW q \in Seq(Blocks), NEW b \in Blocks, NEW tellings, NEW outcomes,
         Never(q, tellings, outcomes)
  PROVE  Once(Append(q, b), tellings, outcomes)
<1>1. OneOf(q, Completions(outcomes)) /\ OneOf(tellings, outcomes)
  BY DEF NoneOf, OneOf, Never
<1> QED BY <1>1, AppendsOne DEF Never, Once

NeverTold(outcomes) == Never(mainQueue, called, outcomes)
OnceTold(outcomes) == Once(mainQueue, called, outcomes)

Verdicts == {"authorized", "failed"}

\* A verdict of the server is dispatched by a block that looked at an answer, a
\* cancellation by a cancel block that found the flag up.
Judges == InspectGrant \/ InspectFatal
Reports == pollRunning /\ \E c \in Cancellers : CancelChecks(c) \/ CancelOnMain(c)

LEMMA JudgesConclude ==
  ASSUME TypeOK, Judges
  PROVE  \E b \in Completions(Verdicts) :
           /\ mainQueue # <<>> /\ Head(mainQueue).kind = "inspect"
           /\ mainQueue' = Append(Tail(mainQueue), b)
           /\ ~ pollRunning' /\ UNCHANGED <<called, cancel, polls, overlapped>>
  BY DEF Judges, InspectGrant, InspectFatal, IsNext, Conclude, Completions, Verdicts,
         Blocks, Outcomes, app, flow

LEMMA ReportsCancel ==
  ASSUME TypeOK, Reports
  PROVE  \E b \in Completions({"cancelled"}) :
           /\ mainQueue' = Append(mainQueue, b)
           /\ UNCHANGED <<called, polls, overlapped>>
  BY DEF Reports, CancelChecks, CancelOnMain, ReportCancel, Dispatch, Completions,
         Blocks, Outcomes, app, flow

\* What is told never, or once, stays so in every step that does not report it.
LEMMA OthersKeepTold ==
  ASSUME TypeOK, [Next]_vars, NEW outcomes,
         Judges => outcomes \cap Verdicts = {},
         Reports => "cancelled" \notin outcomes
  PROVE  Keeps(mainQueue, called, mainQueue', called', outcomes)
<1> DEFINE Goal == Keeps(mainQueue, called, mainQueue', called', outcomes)
<1>0. mainQueue \in Seq(Blocks) /\ called \in Seq(Outcomes)
  BY DEF TypeOK
<1>1. UNCHANGED <<mainQueue, called>> => Goal
  BY DEF Keeps
<1>2. ASSUME NEW b \in Blocks \ Completions(outcomes), mainQueue' = Append(mainQueue, b),
             UNCHANGED called
      PROVE  Goal
  BY <1>0, <1>2, AppendKeeps
<1>3. mainQueue # <<>> /\ mainQueue' = Tail(mainQueue) /\ UNCHANGED called => Goal
  BY <1>0, RunKeeps
<1>4. ASSUME NEW b \in Blocks \ Completions(outcomes), mainQueue # <<>>,
             mainQueue' = Append(Tail(mainQueue), b), UNCHANGED called
      PROVE  Goal
  BY <1>0, <1>4, RunAppendKeeps
<1> SUFFICES Goal
  OBVIOUS
<1> HIDE DEF Goal
<1>5. ASSUME NEW c \in Cancellers, Cancel(c) PROVE Goal
  <2>1. CASE Reports
    <3>1. PICK b \in Completions({"cancelled"}) :
            mainQueue' = Append(mainQueue, b) /\ UNCHANGED called
      BY <2>1, ReportsCancel
    <3>2. b \in Blocks \ Completions(outcomes)
      BY <2>1, <3>1 DEF Completions
    <3> QED BY <1>2, <3>1, <3>2
  <2>2. CASE ~ Reports
    <3>1. UNCHANGED <<mainQueue, called>>
      BY <1>5, <2>2 DEF Reports, Cancel, CancelChecks, CancelClears, CancelOnMain,
                        ReportCancel, app
    <3> QED BY <1>1, <3>1
  <2> QED BY <2>1, <2>2
<1>6. CASE Initialize
  <2>1. PICK with \in {"response", "error"} :
          mainQueue' = Append(mainQueue, [kind |-> "initialization", with |-> with])
    BY <1>6 DEF Initialize, InitializationFails, InitializationSucceeds, Dispatch
  <2> DEFINE b == [kind |-> "initialization", with |-> with]
  <2>2. b \in Blocks \ Completions(outcomes) /\ mainQueue' = Append(mainQueue, b)
    BY <2>1 DEF Blocks, Completions
  <2>3. UNCHANGED called
    BY <1>6 DEF Initialize, InitializationFails, InitializationSucceeds, app
  <2> HIDE DEF b
  <2> QED BY <1>2, <2>2, <2>3
<1>7. CASE LoopRuns \/ UserDecides \/ Tick \/ (\E p \in polls : ServerAnswers(p)) \/ UNCHANGED vars
  <2>1. UNCHANGED <<mainQueue, called>>
    BY <1>7 DEF LoopRuns, Wake, Poll, PollsAgain, PollsNoMore, UserDecides, Tick,
                ServerAnswers, app, vars
  <2> QED BY <1>1, <2>1
<1>8. ASSUME NEW p \in polls, AnswerArrives(p) PROVE Goal
  <2>1. PICK a \in Answers : mainQueue' = Append(mainQueue, [kind |-> "callback", with |-> a])
    BY <1>8, AnswerDispatched
  <2> DEFINE b == [kind |-> "callback", with |-> a]
  <2>2. b \in Blocks \ Completions(outcomes) /\ mainQueue' = Append(mainQueue, b)
    BY <2>1 DEF Blocks, Completions
  <2>3. UNCHANGED called
    BY <1>8 DEF AnswerArrives, app
  <2> HIDE DEF b
  <2> QED BY <1>2, <2>2, <2>3
<1>9. CASE CallsInitialization \/ InspectPending \/ InspectSlowDown
  <2>1. mainQueue # <<>> /\ mainQueue' = Tail(mainQueue) /\ UNCHANGED called
    BY <1>9 DEF CallsInitialization, InspectPending, InspectSlowDown, IsNext, app
  <2> QED BY <1>3, <2>1
<1>10. CASE CallsCompletion
  <2>1. /\ mainQueue # <<>> /\ Head(mainQueue).kind = "completion"
        /\ mainQueue' = Tail(mainQueue) /\ called' = Append(called, Head(mainQueue).with)
    BY <1>10 DEF CallsCompletion, IsNext, Given
  <2> QED BY <1>0, <2>1, CompletingKeeps DEF Goal
<1>11. CASE PollCallback
  <2>1. mainQueue # <<>> /\ Head(mainQueue) \in Blocks /\ Head(mainQueue).kind = "callback"
    BY <1>0, <1>11, Run DEF PollCallback, IsNext
  <2> DEFINE b == [kind |-> "inspect", with |-> Given]
  <2>2. b \in Blocks \ Completions(outcomes)
    BY <2>1 DEF Given, Blocks, Completions
  <2>3. /\ mainQueue' = Append(Tail(mainQueue), b) \/ mainQueue' = Tail(mainQueue)
        /\ UNCHANGED called
    BY <1>11 DEF PollCallback, app
  <2> HIDE DEF b
  <2> QED BY <1>3, <1>4, <2>1, <2>2, <2>3
<1>12. CASE Judges
  <2>1. PICK b \in Completions(Verdicts) :
          mainQueue # <<>> /\ mainQueue' = Append(Tail(mainQueue), b) /\ UNCHANGED called
    BY <1>12, JudgesConclude
  <2>2. b \in Blocks \ Completions(outcomes)
    BY <1>12, <2>1 DEF Completions
  <2> QED BY <1>4, <2>1, <2>2
<1>13. Goal
  BY <1>5, <1>6, <1>7, <1>8, <1>9, <1>10, <1>11, <1>12 DEF Next, MainQueueRuns, Judges
<1> QED BY <1>13

\* What was never told is told once after the step that reports it.
LEMMA FirstIsOnce ==
  ASSUME TypeOK, Judges \/ Reports, NEW outcomes, NeverTold(outcomes)
  PROVE  OnceTold(outcomes)'
<1>0. mainQueue \in Seq(Blocks)
  BY DEF TypeOK
<1>1. CASE Judges
  <2>1. PICK b \in Blocks :
          mainQueue # <<>> /\ mainQueue' = Append(Tail(mainQueue), b) /\ UNCHANGED called
    BY <1>1, JudgesConclude DEF Completions
  <2>2. Tail(mainQueue) \in Seq(Blocks) /\ Never(Tail(mainQueue), called, outcomes)
    BY <1>0, <2>1, Run, RunKeeps DEF NeverTold, Keeps
  <2> QED BY <2>1, <2>2, AppendMakesOnce DEF OnceTold
<1>2. CASE Reports
  <2>1. PICK b \in Blocks : mainQueue' = Append(mainQueue, b) /\ UNCHANGED called
    BY <1>2, ReportsCancel DEF Completions
  <2> QED BY <1>0, <2>1, AppendMakesOnce DEF NeverTold, OnceTold
<1> QED BY <1>1, <1>2

LEMMA InitTold == Init => \A outcomes : NeverTold(outcomes)
<1> SUFFICES ASSUME Init PROVE \A outcomes : NeverTold(outcomes)
  OBVIOUS
<1>1. Len(mainQueue) = 0 /\ Len(called) = 0
  BY EmptySeq DEF Init
<1> QED BY <1>1 DEF NeverTold, Never, NoneOf

LEMMA NeverIsOnce == ASSUME NEW outcomes, NeverTold(outcomes) PROVE OnceTold(outcomes)
<1>1. ASSUME NEW q, NEW S, NoneOf(q, S) PROVE OneOf(q, S)
  BY <1>1 DEF NoneOf, OneOf
<1> QED BY <1>1 DEF NeverTold, OnceTold, Never, Once

Polled == {b \in Blocks : b.kind \in {"callback", "inspect"}}
Inspects == {b \in Blocks : b.kind = "inspect"}

\* Unless polls overlap, one poll, or one block that handles its answer, is on
\* its way; a verdict is dispatched by the block that looks at the answer, which
\* was dispatched with the flag up, and puts the flag down.
PollInv ==
  ~ overlapped =>
    /\ OneOf(mainQueue, Polled)
    /\ polls # {} => NoneOf(mainQueue, Polled)
    /\ \A p, r \in polls : p = r

VerdictInv ==
  ~ overlapped =>
    /\ pollRunning \/ ~ NoneOf(mainQueue, Inspects) => NeverTold(Verdicts)
    /\ OnceTold(Verdicts)

\* A cancel block on the main thread puts the flag down as it reports.
CancelInv ==
  /\ (\A c \in Cancellers \ MainCancellers : cancel[c] = "ready") =>
       /\ pollRunning => NeverTold({"cancelled"})
       /\ OnceTold({"cancelled"})
  /\ (\A c \in Cancellers : cancel[c] = "ready") => NeverTold({"cancelled"})

\* The flag is never put up, and without it no block comes to look at an answer.
LEMMA FlagStaysDown ==
  ASSUME TypeOK, [Next]_vars
  PROVE  /\ pollRunning' => pollRunning
         /\ NoneOf(mainQueue, Inspects) /\ ~ pollRunning => NoneOf(mainQueue', Inspects)
<1>0. mainQueue \in Seq(Blocks)
  BY DEF TypeOK
<1> DEFINE Goal == NoneOf(mainQueue, Inspects) /\ ~ pollRunning => NoneOf(mainQueue', Inspects)
<1>1. UNCHANGED mainQueue => Goal
  OBVIOUS
<1>2. ASSUME NEW b \in Blocks \ Inspects, mainQueue' = Append(mainQueue, b) PROVE Goal
  BY <1>0, <1>2, AppendsOne
<1>3. mainQueue # <<>> /\ mainQueue' = Tail(mainQueue) => Goal
  BY <1>0, TakesOne
<1>4. ASSUME NEW b \in Blocks \ Inspects, mainQueue # <<>>,
             mainQueue' = Append(Tail(mainQueue), b)
      PROVE  Goal
  <2>1. Tail(mainQueue) \in Seq(Blocks)
    BY <1>0, <1>4, Run
  <2> QED BY <1>0, <1>4, <2>1, TakesOne, AppendsOne
<1> SUFFICES (pollRunning' => pollRunning) /\ Goal
  OBVIOUS
<1> HIDE DEF Goal
<1>5. ASSUME NEW c \in Cancellers, Cancel(c) PROVE (pollRunning' => pollRunning) /\ Goal
  <2>1. pollRunning' => pollRunning
    BY <1>5 DEF Cancel, CancelChecks, CancelClears, CancelOnMain
  <2> DEFINE b == [kind |-> "completion", with |-> "cancelled"]
  <2>2. b \in Blocks \ Inspects
    BY DEF Blocks, Outcomes, Inspects
  <2>3. UNCHANGED mainQueue \/ mainQueue' = Append(mainQueue, b)
    BY <1>5 DEF Cancel, CancelChecks, CancelClears, CancelOnMain, ReportCancel, Dispatch
  <2> HIDE DEF b
  <2> QED BY <1>1, <1>2, <2>1, <2>2, <2>3
<1>6. CASE Initialize
  <2>1. PICK with \in {"response", "error"} :
          mainQueue' = Append(mainQueue, [kind |-> "initialization", with |-> with])
    BY <1>6 DEF Initialize, InitializationFails, InitializationSucceeds, Dispatch
  <2> DEFINE b == [kind |-> "initialization", with |-> with]
  <2>2. b \in Blocks \ Inspects /\ mainQueue' = Append(mainQueue, b)
    BY <2>1 DEF Blocks, Inspects
  <2>3. UNCHANGED pollRunning
    BY <1>6 DEF Initialize, InitializationFails, InitializationSucceeds
  <2> HIDE DEF b
  <2> QED BY <1>2, <2>2, <2>3
<1>7. CASE LoopRuns \/ UserDecides \/ Tick \/ (\E p \in polls : ServerAnswers(p)) \/ UNCHANGED vars
  <2>1. UNCHANGED <<mainQueue, pollRunning>>
    BY <1>7 DEF LoopRuns, Wake, Poll, PollsAgain, PollsNoMore, UserDecides, Tick,
                ServerAnswers, vars
  <2> QED BY <1>1, <2>1
<1>8. ASSUME NEW p \in polls, AnswerArrives(p) PROVE (pollRunning' => pollRunning) /\ Goal
  <2>1. PICK a \in Answers : mainQueue' = Append(mainQueue, [kind |-> "callback", with |-> a])
    BY <1>8, AnswerDispatched
  <2> DEFINE b == [kind |-> "callback", with |-> a]
  <2>2. b \in Blocks \ Inspects /\ mainQueue' = Append(mainQueue, b)
    BY <2>1 DEF Blocks, Inspects
  <2>3. UNCHANGED pollRunning
    BY <1>8 DEF AnswerArrives
  <2> HIDE DEF b
  <2> QED BY <1>2, <2>2, <2>3
<1>9. CASE CallsInitialization \/ CallsCompletion \/ InspectPending \/ InspectSlowDown
  <2>1. mainQueue # <<>> /\ mainQueue' = Tail(mainQueue) /\ UNCHANGED pollRunning
    BY <1>9 DEF CallsInitialization, CallsCompletion, InspectPending, InspectSlowDown, IsNext
  <2> QED BY <1>3, <2>1
<1>10. CASE PollCallback
  <2>1. mainQueue # <<>> /\ UNCHANGED pollRunning
        /\ (~ pollRunning => mainQueue' = Tail(mainQueue))
    BY <1>10 DEF PollCallback, IsNext
  <2> QED BY <1>3, <2>1 DEF Goal
<1>11. CASE Judges
  <2>1. PICK b \in Completions(Verdicts) :
          mainQueue # <<>> /\ mainQueue' = Append(Tail(mainQueue), b) /\ ~ pollRunning'
    BY <1>11, JudgesConclude
  <2>2. b \in Blocks \ Inspects
    BY <2>1 DEF Completions, Inspects
  <2> QED BY <1>4, <2>1, <2>2
<1> QED BY <1>5, <1>6, <1>7, <1>8, <1>9, <1>10, <1>11 DEF Next, MainQueueRuns, Judges

\* Appending and running blocks that handle no poll leaves the polls alone.
LEMMA StepKeepsPollInv == TypeOK /\ PollInv /\ [Next]_vars => PollInv'
<1> SUFFICES ASSUME TypeOK, PollInv, [Next]_vars, ~ overlapped' PROVE PollInv'
  BY DEF PollInv
<1>0. mainQueue \in Seq(Blocks)
  BY DEF TypeOK
<1>1. UNCHANGED <<mainQueue, polls, overlapped>> => PollInv'
  BY DEF PollInv
<1>2. ASSUME NEW b \in Blocks \ Polled, mainQueue' = Append(mainQueue, b),
             UNCHANGED <<polls, overlapped>>
      PROVE  PollInv'
  <2>1. /\ NoneOf(mainQueue', Polled) <=> NoneOf(mainQueue, Polled)
        /\ OneOf(mainQueue, Polled) => OneOf(mainQueue', Polled)
    BY <1>0, <1>2, AppendsOne
  <2> QED BY <1>2, <2>1 DEF PollInv
<1>3. ASSUME mainQueue # <<>>, mainQueue' = Tail(mainQueue), UNCHANGED <<polls, overlapped>>
      PROVE  PollInv'
  <2>1. /\ NoneOf(mainQueue, Polled) => NoneOf(mainQueue', Polled)
        /\ OneOf(mainQueue, Polled) => OneOf(mainQueue', Polled)
    BY <1>0, <1>3, TakesOne
  <2> QED BY <1>3, <2>1 DEF PollInv
<1>4. ASSUME NEW b \in Blocks, mainQueue # <<>>, Head(mainQueue) \in Polled,
             mainQueue' = Append(Tail(mainQueue), b), UNCHANGED <<polls, overlapped>>
      PROVE  PollInv'
  <2>1. ~ overlapped /\ OneOf(mainQueue, Polled) /\ polls' = {}
    BY <1>0, <1>4, TakesOne DEF PollInv
  <2>2. Tail(mainQueue) \in Seq(Blocks) /\ NoneOf(Tail(mainQueue), Polled)
        /\ OneOf(Tail(mainQueue), Polled)
    BY <1>0, <1>4, <2>1, Run, TakesOne
  <2>3. OneOf(mainQueue', Polled)
    BY <1>4, <2>2, AppendsOne
  <2> QED BY <2>1, <2>3 DEF PollInv
<1>5. ASSUME NEW c \in Cancellers, Cancel(c) PROVE PollInv'
  <2> DEFINE b == [kind |-> "completion", with |-> "cancelled"]
  <2>1. b \in Blocks \ Polled
    BY DEF Blocks, Outcomes, Polled
  <2>2. /\ UNCHANGED mainQueue \/ mainQueue' = Append(mainQueue, b)
        /\ UNCHANGED <<polls, overlapped>>
    BY <1>5 DEF Cancel, CancelChecks, CancelClears, CancelOnMain, ReportCancel, Dispatch, flow
  <2> HIDE DEF b
  <2> QED BY <1>1, <1>2, <2>1, <2>2
<1>6. CASE Initialize
  <2>1. PICK with \in {"response", "error"} :
          mainQueue' = Append(mainQueue, [kind |-> "initialization", with |-> with])
    BY <1>6 DEF Initialize, InitializationFails, InitializationSucceeds, Dispatch
  <2> DEFINE b == [kind |-> "initialization", with |-> with]
  <2>2. b \in Blocks \ Polled /\ mainQueue' = Append(mainQueue, b)
    BY <2>1 DEF Blocks, Polled
  <2>3. UNCHANGED <<polls, overlapped>>
    BY <1>6 DEF Initialize, InitializationFails, InitializationSucceeds
  <2> HIDE DEF b
  <2> QED BY <1>2, <2>2, <2>3
<1>7. CASE Wake \/ PollsAgain \/ PollsNoMore \/ UserDecides \/ Tick \/ UNCHANGED vars
  BY <1>1, <1>7 DEF Wake, PollsAgain, PollsNoMore, UserDecides, Tick, vars, flow
<1>8. CASE Poll
  <2>1. ~ overlapped /\ ~ PollUnhandled /\ UNCHANGED mainQueue
    BY <1>8 DEF Poll
  <2>2. polls = {} /\ NoneOf(mainQueue, Polled)
    BY <1>0, <2>1, LenProperties DEF PollUnhandled, NoneOf, Polled
  <2>3. \E x : polls' = polls \cup {x}
    BY <1>8 DEF Poll
  <2> QED BY <2>1, <2>2, <2>3 DEF PollInv
<1>9. ASSUME NEW p \in polls, ServerAnswers(p) PROVE PollInv'
  <2>1. PICK x : polls' = (polls \ {p}) \cup {x}
    BY <1>9 DEF ServerAnswers
  <2>2. UNCHANGED <<mainQueue, overlapped>>
    BY <1>9 DEF ServerAnswers, flow
  <2> QED BY <2>1, <2>2 DEF PollInv
<1>10. ASSUME NEW p \in polls, AnswerArrives(p) PROVE PollInv'
  <2>1. PICK a \in Answers : mainQueue' = Append(mainQueue, [kind |-> "callback", with |-> a])
    BY <1>10, AnswerDispatched
  <2> DEFINE b == [kind |-> "callback", with |-> a]
  <2>2. b \in Blocks /\ mainQueue' = Append(mainQueue, b)
    BY <2>1 DEF Blocks
  <2> HIDE DEF b
  <2>3. polls' = polls \ {p} /\ UNCHANGED overlapped
    BY <1>10 DEF AnswerArrives, flow
  <2>4. polls' = {} /\ NoneOf(mainQueue, Polled) /\ OneOf(mainQueue, Polled)
    BY <2>3 DEF PollInv
  <2>5. OneOf(mainQueue', Polled)
    BY <1>0, <2>2, <2>4, AppendsOne
  <2> QED BY <2>4, <2>5 DEF PollInv
<1>11. CASE CallsInitialization \/ CallsCompletion \/ InspectPending \/ InspectSlowDown
  BY <1>3, <1>11
     DEF CallsInitialization, CallsCompletion, InspectPending, InspectSlowDown, IsNext, flow
<1>12. CASE PollCallback
  <2>1. mainQueue # <<>> /\ Head(mainQueue) \in Blocks /\ Head(mainQueue).kind = "callback"
    BY <1>0, <1>12, Run DEF PollCallback, IsNext
  <2> DEFINE b == [kind |-> "inspect", with |-> Given]
  <2>2. b \in Blocks /\ Head(mainQueue) \in Polled
    BY <2>1 DEF Given, Blocks, Polled
  <2>3. /\ mainQueue' = Append(Tail(mainQueue), b) \/ mainQueue' = Tail(mainQueue)
        /\ UNCHANGED <<polls, overlapped>>
    BY <1>12 DEF PollCallback, flow
  <2> HIDE DEF b
  <2> QED BY <1>3, <1>4, <2>1, <2>2, <2>3
<1>13. CASE Judges
  <2>1. PICK b \in Completions(Verdicts) :
          /\ mainQueue # <<>> /\ Head(mainQueue).kind = "inspect"
          /\ mainQueue' = Append(Tail(mainQueue), b) /\ UNCHANGED <<polls, overlapped>>
    BY <1>13, JudgesConclude
  <2>2. b \in Blocks /\ Head(mainQueue) \in Polled
    BY <1>0, <2>1, Run DEF Completions, Polled
  <2> QED BY <1>4, <2>1, <2>2
<1> QED BY <1>5, <1>6, <1>7, <1>8, <1>9, <1>10, <1>11, <1>12, <1>13
        DEF Next, LoopRuns, MainQueueRuns, Judges

LEMMA StepKeepsVerdictInv ==
  TypeOK /\ PollInv /\ VerdictInv /\ [Next]_vars => VerdictInv'
<1> SUFFICES ASSUME TypeOK, PollInv, VerdictInv, [Next]_vars, ~ overlapped' PROVE VerdictInv'
  BY DEF VerdictInv
<1>0. mainQueue \in Seq(Blocks)
  BY DEF TypeOK
<1>1. ~ overlapped
  BY DEF Next, Cancel, CancelChecks, CancelClears, CancelOnMain, Initialize,
         InitializationFails, InitializationSucceeds, LoopRuns, Wake, Poll, PollsAgain,
         PollsNoMore, UserDecides, Tick, ServerAnswers, AnswerArrives, MainQueueRuns,
         CallsInitialization, CallsCompletion, PollCallback, InspectGrant, InspectFatal,
         InspectPending, InspectSlowDown, flow, vars
<1>2. CASE Judges
  <2>1. PICK b \in Completions(Verdicts) :
          /\ mainQueue # <<>> /\ Head(mainQueue).kind = "inspect"
          /\ mainQueue' = Append(Tail(mainQueue), b) /\ ~ pollRunning'
    BY <1>2, JudgesConclude
  <2>2. Head(mainQueue) \in Inspects /\ Head(mainQueue) \in Polled
    BY <1>0, <2>1, Run DEF Inspects, Polled
  <2>3. NeverTold(Verdicts)
    BY <1>0, <1>1, <2>1, <2>2, TakesOne DEF VerdictInv
  <2>4. OnceTold(Verdicts)'
    BY <1>2, <2>3, FirstIsOnce
  <2>5. Tail(mainQueue) \in Seq(Blocks) /\ NoneOf(Tail(mainQueue), Polled)
    BY <1>0, <1>1, <2>1, <2>2, Run, TakesOne DEF PollInv
  <2>6. NoneOf(Tail(mainQueue), Inspects)
    BY <2>5 DEF NoneOf, Polled, Inspects
  <2>7. b \in Blocks /\ b \notin Inspects
    BY <2>1 DEF Completions, Inspects
  <2>8. NoneOf(mainQueue', Inspects)
    BY <2>1, <2>5, <2>6, <2>7, AppendsOne
  <2> QED BY <2>1, <2>4, <2>8 DEF VerdictInv
<1>3. CASE ~ Judges
  <2>1. Keeps(mainQueue, called, mainQueue', called', Verdicts)
    BY <1>3, OthersKeepTold DEF Verdicts
  <2>2. /\ NeverTold(Verdicts) => NeverTold(Verdicts)'
        /\ OnceTold(Verdicts) => OnceTold(Verdicts)'
    BY <2>1 DEF Keeps, NeverTold, OnceTold
  <2>3. pollRunning' \/ ~ NoneOf(mainQueue', Inspects)
          => pollRunning \/ ~ NoneOf(mainQueue, Inspects)
    BY FlagStaysDown
  <2> QED BY <1>1, <2>2, <2>3 DEF VerdictInv
<1> QED BY <1>2, <1>3

LEMMA StepKeepsCancelInv == TypeOK /\ CancelInv /\ [Next]_vars => CancelInv'
<1> SUFFICES ASSUME TypeOK, CancelInv, [Next]_vars PROVE CancelInv'
  OBVIOUS
<1> DEFINE R == {"cancelled"}
<1>1. cancel \in [Cancellers -> {"ready", "clearing", "done"}]
  BY DEF TypeOK
<1>2. CASE Reports
  <2>1. PICK c \in Cancellers : CancelChecks(c) \/ CancelOnMain(c)
    BY <1>2 DEF Reports
  <2>2. cancel'[c] # "ready"
    BY <1>1, <2>1 DEF CancelChecks, CancelOnMain
  <2>3. CASE CancelChecks(c)
    BY <2>2, <2>3 DEF CancelInv, CancelChecks
  <2>4. CASE CancelOnMain(c)
    <3>1. ASSUME \A d \in Cancellers \ MainCancellers : cancel'[d] = "ready"
          PROVE  OnceTold(R)' /\ ~ pollRunning'
      <4>1. \A d \in Cancellers \ MainCancellers : cancel[d] = "ready"
        BY <1>1, <2>4, <3>1 DEF CancelOnMain
      <4>2. NeverTold(R)
        BY <1>2, <4>1 DEF CancelInv, Reports
      <4> QED BY <1>2, <2>4, <4>2, FirstIsOnce DEF CancelOnMain
    <3> QED BY <2>2, <3>1 DEF CancelInv
  <2> QED BY <2>1, <2>3, <2>4
<1>3. CASE ~ Reports
  <2>1. Keeps(mainQueue, called, mainQueue', called', R)
    BY <1>3, OthersKeepTold DEF Verdicts
  <2>2. (NeverTold(R) => NeverTold(R)') /\ (OnceTold(R) => OnceTold(R)')
    BY <2>1 DEF Keeps, NeverTold, OnceTold
  <2>3. \A c \in Cancellers : cancel'[c] = "ready" => cancel[c] = "ready"
    BY <1>1 DEF Next, Cancel, CancelChecks, CancelClears, CancelOnMain, Initialize,
         InitializationFails, InitializationSucceeds, LoopRuns, Wake, Poll, PollsAgain,
         PollsNoMore, UserDecides, Tick, ServerAnswers, AnswerArrives, MainQueueRuns,
         CallsInitialization, CallsCompletion, PollCallback, InspectGrant, InspectFatal,
         InspectPending, InspectSlowDown, vars
  <2>4. pollRunning' => pollRunning
    BY FlagStaysDown
  <2> HIDE DEF R
  <2> QED BY <2>2, <2>3, <2>4 DEF CancelInv, R
<1> QED BY <1>2, <1>3

LEMMA InitSides == Init => PollInv /\ VerdictInv /\ CancelInv
<1> SUFFICES ASSUME Init PROVE PollInv /\ VerdictInv /\ CancelInv
  OBVIOUS
<1>1. Len(mainQueue) = 0 /\ polls = {}
  BY EmptySeq DEF Init
<1>2. PollInv
  BY <1>1 DEF PollInv, OneOf, NoneOf
<1>3. \A outcomes : NeverTold(outcomes) /\ OnceTold(outcomes)
  BY InitTold, NeverIsOnce
<1> QED BY <1>2, <1>3 DEF VerdictInv, CancelInv

\* In every behavior the server concludes the flow at most once unless polls
\* overlap, and the app at most once unless it cancels off the main thread.
THEOREM CompletedOnceBySide == Spec => []CompletedOncePerSide
<1>1. TypeOK /\ VerdictInv /\ CancelInv => CompletedOncePerSide
  <2> SUFFICES ASSUME TypeOK, VerdictInv, CancelInv PROVE CompletedOncePerSide
    OBVIOUS
  <2>1. DOMAIN called = 1 .. Len(called)
    BY DEF TypeOK
  <2>2. \A outcomes : /\ OnceTold(outcomes) => AtMostOne(Told(outcomes))
                      /\ NeverTold(outcomes) => Told(outcomes) = {}
    BY <2>1 DEF OnceTold, Once, OneOf, NeverTold, Never, NoneOf, AtMostOne, Told
  <2> QED BY <2>2 DEF CompletedOncePerSide, VerdictInv, CancelInv, Verdicts
<1> QED BY <1>1, InitSides, StepKeepsPollInv, StepKeepsVerdictInv, StepKeepsCancelInv,
           TypeCorrect, PTL DEF Spec

\* Hence, where polls do not overlap, a flow whose cancel blocks are run on the
\* main thread is completed at most twice, and one that is never cancelled at
\* most once: what OIDTVAuthorizationService.h:54-56 promises of every flow holds
\* of these.
THEOREM CompletionsBounded ==
  Spec => [](~ overlapped =>
    /\ (\A c \in Cancellers \ MainCancellers : cancel[c] = "ready") => Len(called) <= 2
    /\ (\A c \in Cancellers : cancel[c] = "ready") => CompletedAtMostOnce)
<1> DEFINE Mains == \A c \in Cancellers \ MainCancellers : cancel[c] = "ready"
           Nones == \A c \in Cancellers : cancel[c] = "ready"
<1>1. TypeOK /\ CompletedOncePerSide /\ ~ overlapped =>
        (Mains => Len(called) <= 2) /\ (Nones => CompletedAtMostOnce)
  <2> SUFFICES ASSUME TypeOK, CompletedOncePerSide, ~ overlapped
               PROVE  (Mains => Len(called) <= 2) /\ (Nones => CompletedAtMostOnce)
    OBVIOUS
  <2>1. /\ Len(called) \in Nat /\ DOMAIN called = 1 .. Len(called)
        /\ \A i \in 1 .. Len(called) : called[i] \in Outcomes
    BY LenProperties DEF TypeOK
  <2>2. \A i, j \in 1 .. Len(called) : /\ called[i] \in Verdicts /\ called[j] \in Verdicts
                                       => i = j
    BY <2>1 DEF CompletedOncePerSide, Told, AtMostOne, Verdicts
  <2>3. ASSUME Mains PROVE Len(called) <= 2
    <3>1. \A i, j \in 1 .. Len(called) : /\ called[i] = "cancelled" /\ called[j] = "cancelled"
                                         => i = j
      BY <2>1, <2>3 DEF CompletedOncePerSide, Told, AtMostOne
    <3>2. \A i \in 1 .. Len(called) : called[i] \in Verdicts \/ called[i] = "cancelled"
      BY <2>1 DEF Outcomes, Verdicts
    <3>3. ASSUME Len(called) > 2 PROVE FALSE
      <4>1. 1 \in 1 .. Len(called) /\ 2 \in 1 .. Len(called) /\ 3 \in 1 .. Len(called)
        BY <2>1, <3>3
      <4> QED BY <2>2, <3>1, <3>2, <4>1
    <3> QED BY <2>1, <3>3
  <2>4. ASSUME Nones PROVE Len(called) <= 1
    <3>1. \A i \in 1 .. Len(called) : called[i] \in Verdicts
      BY <2>1, <2>4 DEF CompletedOncePerSide, Told, Outcomes, Verdicts
    <3>2. ASSUME Len(called) > 1 PROVE FALSE
      <4>1. 1 \in 1 .. Len(called) /\ 2 \in 1 .. Len(called)
        BY <2>1, <3>2
      <4> QED BY <2>2, <3>1, <4>1
    <3> QED BY <2>1, <3>2
  <2> QED BY <2>3, <2>4 DEF CompletedAtMostOnce
<1> QED BY <1>1, TypeCorrect, CompletedOnceBySide, PTL
=============================================================================
