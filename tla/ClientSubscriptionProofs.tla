---------------------- MODULE ClientSubscriptionProofs ----------------------
(***************************************************************************)
(* Proofs about ClientSubscription, for any finite set of calls.  What is  *)
(* proved of the reader in StreamReaderProofs carries over, since every    *)
(* step of the calls is a step of the reader or leaves it alone.           *)
(***************************************************************************)
EXTENDS ClientSubscription, StreamReaderProofs, FiniteSetTheorems

Registered == {"count", "select", "close", "closing", "wait", "uncount",
               "unregister"}
Listed == {"select", "close", "closing", "wait", "uncount"}

InState(places) == {s \in Subs : rpc[s] \in places}

CallTypes ==
  /\ rpc \in [Subs -> Registered \union {"new", "subscribe", "returned"}]
  /\ cancelled \in [Subs -> BOOLEAN]
  /\ outcome \in [Subs -> Errs \union {"none"}]
  /\ finished \in [Subs -> BOOLEAN]
  /\ errChan \in [Subs -> Errs \union {"empty"}]
  /\ errChanClosed \in [Subs -> BOOLEAN]
  /\ got \in [Subs -> Errs]
  /\ status \in [Subs -> {"none", "OK", "Internal", "PermissionDenied"}]

\* Where a handler is, and where that puts its subscription.
PlaceInv ==
  \A s \in Subs :
    /\ rpc[s] = "new" => sub[s] = "new"
    /\ rpc[s] = "subscribe" => sub[s] \in {"subReq", "subResp", "open", "failed"}
    /\ rpc[s] \in {"count", "select", "close"} => sub[s] = "open"
    /\ rpc[s] = "closing" => sub[s] \in {"unsubReq", "unsubResp", "unsubbed"}
    /\ rpc[s] \in {"wait", "uncount", "unregister"} => sub[s] = "closed"
    /\ rpc[s] = "returned" => sub[s] \in {"new", "closed"}

\* The goroutine's outcome is there once it stops reading; what is passed on
\* and taken is that outcome.
OutcomeInv ==
  \A s \in Subs :
    /\ outcome[s] = "none" <=> reading[s]
    /\ outcome[s] # "none" => Started(s)
    /\ finished[s] => outcome[s] # "none"
    /\ errChan[s] \in {"empty", outcome[s]}
    /\ got[s] \in {"nil", outcome[s]}

\* What a handler has seen when it gets past its select and its barrier.
EndInv ==
  \A s \in Subs :
    /\ rpc[s] \in {"close", "closing", "wait", "uncount", "unregister"} =>
         cancelled[s] \/ outcome[s] = got[s]
    /\ rpc[s] \in {"uncount", "unregister"} => finished[s]
    /\ errChanClosed[s] => finished[s]
    /\ status[s] = "OK" => finished[s]
    /\ status[s] # "none" => rpc[s] = "returned"
    /\ rpc[s] = "returned" /\ ~finished[s] => outcome[s] = "none"
    /\ ~finished[s] => errChan[s] = "empty"

CountInv ==
  /\ subscribers = Cardinality(InState(Registered))
  /\ info = Cardinality(InState(Listed))

PlacesInv == CallTypes /\ PlaceInv /\ OutcomeInv /\ EndInv /\ FailureReported

CInv == IInv /\ PlacesInv /\ CountInv

-----------------------------------------------------------------------------
LEMMA CallsInitInv == ASSUME CallsInit PROVE CInv
<1>1. IInv
  BY InitInv DEF CallsInit
<1>2. PlacesInv
  BY DEF CallsInit, Init, PlacesInv, CallTypes, Registered, Errs, PlaceInv,
         OutcomeInv, EndInv, FailureReported
<1>3. InState(Registered) = {} /\ InState(Listed) = {}
  BY DEF CallsInit, InState, Registered, Listed
<1>4. CountInv
  BY <1>3, FS_EmptySet DEF CallsInit, CountInv
<1> QED  BY <1>1, <1>2, <1>4 DEF CInv

\* Finish sends on an open channel: the handler closes it only afterwards.
LEMMA FinishKeepsReader ==
  ASSUME OutcomeInv, EndInv, CallTypes, IInv, NEW s \in Subs, Finish(s)
  PROVE  UNCHANGED vars
<1>1. errChanClosed[s] = FALSE /\ panic = FALSE /\ panic' = errChanClosed[s]
  BY DEF Finish, CanFinish, EndInv, CallTypes, IInv, TypeOK, CallersType
<1> QED  BY <1>1 DEF Finish, vars

\* Every step of the calls is a step of the reader or leaves it alone.
LEMMA CallsStepReader ==
  ASSUME CInv, [CallsNext]_allVars
  PROVE  [Next]_vars
<1>1. ASSUME ReaderStep PROVE Next
  BY <1>1 DEF ReaderStep, Next, CallerNext
<1>2. ASSUME NEW s \in Subs, Handler(s) PROVE [Next]_vars
  BY <1>2 DEF Handler, Deny, Subscribe, SubscribeFails, Register, CountIn,
              Cancel, Wake, BeginClose, EndClose, PassBarrier, CountOut,
              Unregister, Next, CallerNext
<1>3. ASSUME NEW s \in Subs, Forward(s) \/ End(s) PROVE Next
  BY <1>3 DEF Forward, End, Next, ReadingNext
<1>4. ASSUME NEW s \in Subs, Finish(s) PROVE UNCHANGED vars
  BY <1>4, FinishKeepsReader DEF CInv, PlacesInv
<1>5. CASE UNCHANGED allVars
  BY <1>5 DEF allVars
<1> QED  BY <1>1, <1>2, <1>3, <1>4, <1>5 DEF CallsNext

-----------------------------------------------------------------------------
\* What a step of the reader may do to the subscription of a call and to the
\* goroutine that reads it.
Moves(s) ==
  \/ sub'[s] = sub[s]
  \/ /\ sub[s] \in {"subReq", "subResp"}
     /\ sub'[s] \in {"subResp", "open", "failed"}
  \/ /\ sub[s] \in {"unsubReq", "unsubResp"}
     /\ sub'[s] \in {"unsubResp", "unsubbed"}

Notified(s) ==
  /\ reading[s] /\ ~reading'[s] /\ errGot'[s] \in Errs
  /\ s \in subscriptions /\ Started(s) /\ sub'[s] = sub[s]

LEMMA ReaderMoves ==
  ASSUME IInv, ReaderStep, NEW s \in Subs
  PROVE  Moves(s) /\ (Notified(s) \/ reading'[s] = reading[s])
<1> USE DEF Moves, callerVars, serveVars, groupVars, topicVars, chanVars,
            Running
<1>1. CASE ServeClose \/ StopConsumer \/ StopDone \/ ServeMessage \/ ServeErr
  BY <1>1 DEF ServeClose, StopConsumer, StopDone, ServeMessage, ServeErr
<1>2. CASE CloseReader \/ CloseChannels
  BY <1>2 DEF CloseReader, CloseChannels
<1>3. ASSUME NEW t \in Subs, RequestPanics(t)
      PROVE  sub' = sub /\ reading' = reading
  BY <1>3 DEF RequestPanics
<1>4. ASSUME NEW n \in Session, Fetch(n) \/ Push(n) \/ ConsumeAgain(n)
                                 \/ ConsumeReturn(n) \/ Report(n) \/ ErrorsEnd(n)
      PROVE  sub' = sub /\ reading' = reading
  BY <1>4 DEF Fetch, Push, ConsumeAgain, ConsumeReturn, Report, ErrorsEnd
<1>5. ASSUME NEW t \in Subs, ServeSubscribe(t) \/ ServeUnsubscribe(t)
      PROVE  Moves(s) /\ reading' = reading
  BY <1>5 DEF ServeSubscribe, ServeUnsubscribe, IInv, TypeOK, CallersType
<1>6. ASSUME NEW t \in Subs, Handle(t)
      PROVE  sub' = sub /\ reading' = reading
  BY <1>6 DEF Handle
<1>7. ASSUME NEW t \in Subs, Notify(t)
      PROVE  Moves(s) /\ (Notified(s) \/ reading'[s] = reading[s])
  <2>1. sub' = sub /\ reading' = [reading EXCEPT ![t] = FALSE]
        /\ errGot' = [errGot EXCEPT ![t] = err]
    BY <1>7 DEF Notify
  <2>2. CASE s # t
    BY <2>1, <2>2 DEF IInv, TypeOK, ChannelsType
  <2>3. CASE s = t
    <3>1. s \in subscriptions
      BY <1>7, <2>3 DEF Notify, IInv, TypeOK, ServeType
    <3>2. errClosed[s] = FALSE
      BY <3>1 DEF IInv, MapInv, ClosedInv, TypeOK, ChannelsType
    <3>3. Started(s) /\ reading[s]
      BY <1>7, <2>3, <3>2 DEF Notify
    <3>4. err \in Errs /\ errGot'[s] = err /\ reading'[s] = FALSE
      BY <2>1, <2>3 DEF IInv, TypeOK, ServeType, ChannelsType
    <3> QED  BY <2>1, <3>1, <3>3, <3>4 DEF Notified
  <2> QED  BY <2>2, <2>3
<1>8. ASSUME NEW c \in Subs \union {Nil}, Respond(c)
      PROVE  Moves(s) /\ reading' = reading
  BY <1>8, NilAssumption DEF Respond, Answered, Awaiting, IInv, TypeOK,
     CallersType
<1> QED  BY <1>1, <1>2, <1>3, <1>4, <1>5, <1>6, <1>7, <1>8
         DEF ReaderStep, ServeNext, GroupNext

\* A step of the reader keeps what is known of the calls.
LEMMA ReaderKeepsPlaces ==
  ASSUME IInv, PlacesInv, IInv', ReaderStep
  PROVE  PlacesInv'
<1> USE DEF PlacesInv
<1>1. /\ UNCHANGED <<rpc, cancelled, finished, errChan, errChanClosed, got,
                     status>>
      /\ outcome' = [s \in Subs |-> IF reading[s] /\ ~reading'[s]
                                    THEN errGot'[s] ELSE outcome[s]]
  BY DEF ReaderStep, readingVars
<1>2. \A s \in Subs : Moves(s) /\ (Notified(s) \/ reading'[s] = reading[s])
  BY ReaderMoves
<1>3. \A s \in Subs :
        \/ outcome'[s] = outcome[s] /\ reading'[s] = reading[s]
        \/ /\ Notified(s) /\ outcome[s] = "none" /\ outcome'[s] \in Errs
           /\ rpc[s] # "returned"
  <2> SUFFICES ASSUME NEW s \in Subs
               PROVE  \/ outcome'[s] = outcome[s] /\ reading'[s] = reading[s]
                      \/ /\ Notified(s) /\ outcome[s] = "none"
                         /\ outcome'[s] \in Errs /\ rpc[s] # "returned"
    OBVIOUS
  <2>1. CASE Notified(s)
    <3>1. outcome[s] = "none" /\ outcome'[s] \in Errs
      BY <1>1, <2>1 DEF Notified, OutcomeInv
    <3>2. rpc[s] # "returned"
      BY <2>1 DEF Notified, PlaceInv, IInv, MapInv
    <3> QED  BY <2>1, <3>1, <3>2
  <2>2. CASE reading'[s] = reading[s]
    BY <1>1, <2>2
  <2> QED  BY <1>2, <2>1, <2>2
<1>4. CallTypes'
  <2>1. outcome' \in [Subs -> Errs \union {"none"}]
    <3>1. \A s \in Subs : outcome'[s] \in Errs \union {"none"}
      BY <1>3 DEF CallTypes
    <3> QED  BY <1>1, <3>1
  <2> QED  BY <1>1, <2>1 DEF CallTypes
<1>5. PlaceInv'
  BY <1>1, <1>2 DEF PlaceInv, Moves
<1>6. OutcomeInv'
  <2> SUFFICES ASSUME NEW s \in Subs
               PROVE  /\ outcome'[s] = "none" <=> reading'[s]
                      /\ outcome'[s] # "none" => Started(s)'
                      /\ finished[s] => outcome'[s] # "none"
                      /\ errChan[s] \in {"empty", outcome'[s]}
                      /\ got[s] \in {"nil", outcome'[s]}
    BY <1>1 DEF OutcomeInv
  <2>1. CASE outcome'[s] = outcome[s] /\ reading'[s] = reading[s]
    BY <1>2, <2>1 DEF OutcomeInv, Moves, Started
  <2>2. CASE Notified(s) /\ outcome[s] = "none" /\ outcome'[s] \in Errs
    BY <2>2 DEF OutcomeInv, CallTypes, Notified, Started, Errs
  <2> QED  BY <1>3, <2>1, <2>2
<1>7. EndInv'
  BY <1>1, <1>3 DEF EndInv, CallTypes, Errs
<1>8. FailureReported'
  BY <1>1, <1>3 DEF FailureReported, EndInv
<1> QED  BY <1>4, <1>5, <1>6, <1>7, <1>8

-----------------------------------------------------------------------------
\* A step of a handler keeps what is known of the calls.
LEMMA HandlerKeepsPlaces ==
  ASSUME IInv, PlacesInv, NEW s \in Subs, Handler(s)
  PROVE  PlacesInv'
<1> USE DEF PlacesInv, CallTypes, PlaceInv, OutcomeInv, EndInv, FailureReported,
            Registered, Errs
<1> USE DEF Goes, Returns, readingVars, countVars, vars, callerVars, serveVars,
            groupVars, topicVars, chanVars, Running, Started
<1>0. sub \in [Subs -> {"new", "subReq", "subResp", "open", "failed",
                        "unsubReq", "unsubResp", "unsubbed", "closed"}]
      /\ reading \in [Subs -> BOOLEAN]
  BY DEF IInv, TypeOK, CallersType, ChannelsType
<1>1. CASE Deny(s)
  BY <1>0, <1>1 DEF Deny
<1>2. CASE Subscribe(s)
  BY <1>0, <1>2 DEF Subscribe, NewSubscription
<1>3. CASE SubscribeFails(s)
  BY <1>0, <1>3 DEF SubscribeFails, FinishClose
<1>4. CASE Register(s)
  BY <1>0, <1>4 DEF Register
<1>5. CASE CountIn(s)
  BY <1>0, <1>5 DEF CountIn
<1>6. CASE Cancel(s)
  BY <1>0, <1>6 DEF Cancel
<1>7. CASE Wake(s)
  BY <1>0, <1>7 DEF Wake
<1>8. CASE BeginClose(s)
  BY <1>0, <1>8 DEF BeginClose, CloseSubscription
<1>9. CASE EndClose(s)
  BY <1>0, <1>9 DEF EndClose, FinishClose
<1>10. CASE PassBarrier(s)
  BY <1>0, <1>10 DEF PassBarrier
<1>11. CASE CountOut(s)
  BY <1>0, <1>11 DEF CountOut
<1>12. CASE Unregister(s)
  BY <1>0, <1>12 DEF Unregister
<1> QED  BY <1>1, <1>2, <1>3, <1>4, <1>5, <1>6, <1>7, <1>8, <1>9, <1>10, <1>11,
            <1>12 DEF Handler

\* So does a step of a reading goroutine.
LEMMA GoroutineKeepsPlaces ==
  ASSUME IInv, PlacesInv, NEW s \in Subs, Forward(s) \/ End(s) \/ Finish(s)
  PROVE  PlacesInv'
<1> USE DEF PlacesInv, CallTypes, PlaceInv, OutcomeInv, EndInv, FailureReported,
            Registered, Errs, Runs
<1> USE DEF countVars, callerVars, serveVars, groupVars, topicVars, chanVars,
            Running, Started
<1>0. sub \in [Subs -> {"new", "subReq", "subResp", "open", "failed",
                        "unsubReq", "unsubResp", "unsubbed", "closed"}]
      /\ reading \in [Subs -> BOOLEAN]
  BY DEF IInv, TypeOK, CallersType, ChannelsType
<1>1. CASE Forward(s)
  BY <1>0, <1>1 DEF Forward, TakeRecord
<1>2. CASE End(s)
  BY <1>0, <1>2 DEF End, SeeClosed, SeesClosed
<1>3. CASE Finish(s)
  BY <1>0, <1>3 DEF Finish, CanFinish
<1> QED  BY <1>1, <1>2, <1>3

-----------------------------------------------------------------------------
\* A handler that enters or leaves a set of places changes the number of those
\* in it by one.
LEMMA Enters ==
  ASSUME CallTypes, NEW places, NEW s \in Subs, NEW to,
         rpc[s] \notin places, to \in places, rpc' = [rpc EXCEPT ![s] = to]
  PROVE  Cardinality(InState(places)') = Cardinality(InState(places)) + 1
<1>1. InState(places)' = InState(places) \union {s}
  BY DEF InState, CallTypes
<1>2. IsFiniteSet(InState(places)) /\ s \notin InState(places)
  BY SubsAssumption, FS_Subset DEF InState
<1> QED  BY <1>1, <1>2, FS_AddElement

LEMMA Leaves ==
  ASSUME CallTypes, NEW places, NEW s \in Subs, NEW to,
         rpc[s] \in places, to \notin places, rpc' = [rpc EXCEPT ![s] = to]
  PROVE  Cardinality(InState(places)') = Cardinality(InState(places)) - 1
<1>1. InState(places)' = InState(places) \ {s}
  BY DEF InState, CallTypes
<1>2. IsFiniteSet(InState(places)) /\ s \in InState(places)
  BY SubsAssumption, FS_Subset DEF InState
<1> QED  BY <1>1, <1>2, FS_RemoveElement

LEMMA Remains ==
  ASSUME CallTypes, NEW places, NEW s \in Subs, NEW to,
         rpc[s] \in places <=> to \in places, rpc' = [rpc EXCEPT ![s] = to]
  PROVE  InState(places)' = InState(places)
  BY DEF InState, CallTypes

\* The counters follow the handlers.
LEMMA HandlerKeepsCounts ==
  ASSUME CallTypes, CountInv, NEW s \in Subs, Handler(s)
  PROVE  CountInv'
<1> USE DEF CountInv, Goes, countVars
<1>1. CASE Register(s)
  <2>1. /\ rpc[s] = "subscribe" /\ rpc' = [rpc EXCEPT ![s] = "count"]
        /\ subscribers' = subscribers + 1 /\ info' = info
    BY <1>1 DEF Register
  <2>2. Cardinality(InState(Registered)') = Cardinality(InState(Registered)) + 1
    BY <2>1, Enters DEF Registered
  <2>3. InState(Listed)' = InState(Listed)
    BY <2>1, Remains DEF Listed
  <2> QED  BY <2>1, <2>2, <2>3
<1>2. CASE CountIn(s)
  <2>1. /\ rpc[s] = "count" /\ rpc' = [rpc EXCEPT ![s] = "select"]
        /\ subscribers' = subscribers /\ info' = info + 1
    BY <1>2 DEF CountIn
  <2>2. InState(Registered)' = InState(Registered)
    BY <2>1, Remains DEF Registered
  <2>3. Cardinality(InState(Listed)') = Cardinality(InState(Listed)) + 1
    BY <2>1, Enters DEF Listed
  <2> QED  BY <2>1, <2>2, <2>3
<1>3. CASE CountOut(s)
  <2>1. /\ rpc[s] = "uncount" /\ rpc' = [rpc EXCEPT ![s] = "unregister"]
        /\ subscribers' = subscribers /\ info' = info - 1
    BY <1>3 DEF CountOut
  <2>2. InState(Registered)' = InState(Registered)
    BY <2>1, Remains DEF Registered
  <2>3. Cardinality(InState(Listed)') = Cardinality(InState(Listed)) - 1
    <3>1. rpc[s] \in Listed /\ "unregister" \notin Listed
      BY <2>1 DEF Listed
    <3> QED  BY <2>1, <3>1, Leaves
  <2> QED  BY <2>1, <2>2, <2>3
<1>4. CASE Unregister(s)
  <2>1. /\ rpc[s] = "unregister" /\ rpc' = [rpc EXCEPT ![s] = "returned"]
        /\ subscribers' = subscribers - 1 /\ info' = info
    BY <1>4 DEF Unregister
  <2>2. Cardinality(InState(Registered)') = Cardinality(InState(Registered)) - 1
    <3>1. rpc[s] \in Registered /\ "returned" \notin Registered
      BY <2>1 DEF Registered
    <3> QED  BY <2>1, <3>1, Leaves
  <2>3. InState(Listed)' = InState(Listed)
    BY <2>1, Remains DEF Listed
  <2> QED  BY <2>1, <2>2, <2>3
<1>5. CASE Deny(s) \/ Subscribe(s) \/ SubscribeFails(s) \/ Cancel(s) \/ Wake(s)
             \/ BeginClose(s) \/ EndClose(s) \/ PassBarrier(s)
  <2>1. subscribers' = subscribers /\ info' = info
    BY <1>5 DEF Deny, Subscribe, SubscribeFails, Cancel, Wake, BeginClose,
                EndClose, PassBarrier
  <2>2. CASE rpc' = rpc
    BY <2>1, <2>2 DEF InState
  <2>3. CASE \E to \in {"subscribe", "returned", "close", "closing", "wait",
                        "uncount"} :
               /\ rpc' = [rpc EXCEPT ![s] = to]
               /\ rpc[s] \in Registered <=> to \in Registered
               /\ rpc[s] \in Listed <=> to \in Listed
    <3>1. /\ InState(Registered)' = InState(Registered)
          /\ InState(Listed)' = InState(Listed)
      BY <2>3, Remains
    <3> QED  BY <2>1, <3>1
  <2> QED  BY <1>5, <2>2, <2>3
           DEF Deny, Subscribe, SubscribeFails, Cancel, Wake, BeginClose,
               EndClose, PassBarrier, Registered, Listed
<1> QED  BY <1>1, <1>2, <1>3, <1>4, <1>5 DEF Handler

-----------------------------------------------------------------------------
LEMMA CallsStepInv ==
  ASSUME CInv, [CallsNext]_allVars
  PROVE  CInv'
<1> USE DEF CInv
<1>1. IInv'
  BY CallsStepReader, InvStep
<1>2. PlacesInv'
  <2>1. CASE UNCHANGED allVars
    BY <2>1 DEF allVars, callVars, readingVars, countVars, vars, callerVars,
       chanVars, PlacesInv, CallTypes, PlaceInv, OutcomeInv, Started, EndInv,
       FailureReported
  <2> QED  BY <1>1, <2>1, ReaderKeepsPlaces, HandlerKeepsPlaces,
              GoroutineKeepsPlaces DEF CallsNext
<1>3. CountInv'
  <2>1. CASE UNCHANGED <<rpc, countVars>>
    BY <2>1 DEF CountInv, InState, countVars
  <2>2. ASSUME ReaderStep PROVE UNCHANGED <<rpc, countVars>>
    BY <2>2 DEF ReaderStep
  <2>3. ASSUME NEW s \in Subs, Forward(s) \/ End(s) \/ Finish(s)
        PROVE  UNCHANGED <<rpc, countVars>>
    BY <2>3 DEF Forward, End, Finish
  <2>4. ASSUME UNCHANGED allVars PROVE UNCHANGED <<rpc, countVars>>
    BY <2>4 DEF allVars, callVars
  <2> QED  BY <2>1, <2>2, <2>3, <2>4, HandlerKeepsCounts
           DEF CallsNext, PlacesInv
<1> QED  BY <1>1, <1>2, <1>3

LEMMA CallsInvariance == CallsSpec => []CInv
<1>1. CallsInit => CInv
  BY CallsInitInv
<1>2. CInv /\ [CallsNext]_allVars => CInv'
  BY CallsStepInv
<1> QED  BY <1>1, <1>2, PTL DEF CallsSpec

\* The handlers and goroutines of the streaming calls use the reader as its
\* specification allows (clientsubscription.go around streamreader.go), so
\* that whatever is proved of the reader holds beneath them.
THEOREM CallsUseReader == CallsSpec => Spec
<1>1. CallsInit => Init
  BY DEF CallsInit
<1>2. CInv /\ [CallsNext]_allVars => [Next]_vars
  BY CallsStepReader
<1> QED  BY <1>1, <1>2, CallsInvariance, PTL DEF CallsSpec, Spec

\* The two counters never go below zero or above the number of calls, and what
\* is read never counts more of them than the service does
\* (clientsubscription.go:runSubscription).
THEOREM CallsTypeCorrect == CallsSpec => []CallsTypeOK
<1>1. CInv => CallsTypeOK
  <2> SUFFICES ASSUME CInv PROVE CallsTypeOK
    OBVIOUS
  <2>1. InState(Listed) \subseteq InState(Registered)
        /\ InState(Registered) \subseteq Subs
    BY DEF InState, Listed, Registered
  <2>2. IsFiniteSet(InState(Registered))
        /\ Cardinality(InState(Registered)) <= Cardinality(Subs)
    BY <2>1, SubsAssumption, FS_Subset
  <2>3. IsFiniteSet(InState(Listed))
        /\ Cardinality(InState(Listed)) <= Cardinality(InState(Registered))
    BY <2>1, <2>2, FS_Subset
  <2>4. /\ Cardinality(InState(Listed)) \in Nat
        /\ Cardinality(InState(Registered)) \in Nat
        /\ Cardinality(Subs) \in Nat
    BY <2>2, <2>3, SubsAssumption, FS_CardinalityType
  <2>5. subscribers \in 0..Cardinality(Subs) /\ info \in 0..subscribers
    BY <2>2, <2>3, <2>4 DEF CInv, CountInv
  <2> QED  BY <2>5 DEF CInv, IInv, PlacesInv, CallTypes, CallsTypeOK, Registered
<1> QED  BY <1>1, CallsInvariance, PTL

\* However a call ends, it leaves no subscription, no goroutine and, with the
\* last of them, no count behind (clientsubscription.go:runSubscription).
THEOREM CallsLeaveNothing == CallsSpec => []NothingLeft
<1>1. CInv => NothingLeft
  <2> SUFFICES ASSUME CInv PROVE NothingLeft
    OBVIOUS
  <2>1. ASSUME NEW s \in Subs, rpc[s] \in {"new", "returned"}
        PROVE  s \notin subscriptions
    BY <2>1 DEF CInv, IInv, MapInv, PlacesInv, PlaceInv
  <2>2. ASSUME NEW s \in Subs, status[s] = "OK" PROVE finished[s]
    BY <2>2 DEF CInv, PlacesInv, EndInv
  <2>3. ASSUME \A s \in Subs : rpc[s] \in {"new", "returned"}
        PROVE  subscribers = 0 /\ info = 0 /\ subscriptions = {}
    <3>1. subscriptions \subseteq Subs
      BY DEF CInv, IInv, TypeOK, ServeType
    <3>2. subscriptions = {}
      BY <2>1, <2>3, <3>1
    <3>3. InState(Registered) = {} /\ InState(Listed) = {}
      BY <2>3 DEF InState, Registered, Listed
    <3> QED  BY <3>2, <3>3, FS_EmptySet DEF CInv, CountInv
  <2> QED  BY <2>1, <2>2, <2>3 DEF NothingLeft
<1> QED  BY <1>1, CallsInvariance, PTL

\* A call reports a failure and only a failure, whichever of a cancel, an error
\* of the stream, a failed send and a closed channel comes first
\* (clientsubscription.go:runSubscription).
THEOREM CallsReportFailure == CallsSpec => []FailureReported
<1>1. CInv => FailureReported
  BY DEF CInv, PlacesInv
<1> QED  BY <1>1, CallsInvariance, PTL

\* A call never closes the channel its goroutine sends the outcome on before
\* that has been sent, nor does closing its subscription crash the process
\* (clientsubscription.go:157-158, posts.go).
THEOREM CallsNeverPanic == CallsSpec => []PanicOnlyAfterClose
<1>1. CInv => PanicOnlyAfterClose
  BY DEF CInv, IInv
<1> QED  BY <1>1, CallsInvariance, PTL

-----------------------------------------------------------------------------
\* The channels of a closed subscription are closed.
EndedInv == \A s \in Subs : sub[s] = "closed" => errClosed[s]

\* A step of the reader closes no subscription and opens no channel again.
LEMMA EndedStep ==
  ASSUME IInv, EndedInv, [Next]_vars
  PROVE  EndedInv'
<1> USE DEF EndedInv, callerVars, chanVars, Running
<1>0. /\ sub \in [Subs -> {"new", "subReq", "subResp", "open", "failed",
                           "unsubReq", "unsubResp", "unsubbed", "closed"}]
      /\ errClosed \in [Subs -> BOOLEAN]
  BY DEF IInv, TypeOK, CallersType, ChannelsType
<1>1. ASSUME NEW s \in Subs, FinishClose(s) PROVE EndedInv'
  BY <1>0, <1>1 DEF FinishClose
<1>2. ASSUME NEW s \in Subs, NewSubscription(s) \/ CloseSubscription(s)
                               \/ ServeSubscribe(s) \/ ServeUnsubscribe(s)
      PROVE  EndedInv'
  BY <1>0, <1>2 DEF NewSubscription, CloseSubscription, ServeSubscribe,
                    ServeUnsubscribe
<1>3. ASSUME NEW c \in Subs \union {Nil}, Respond(c) PROVE EndedInv'
  BY <1>0, <1>3, NilAssumption DEF Respond, Answered, Awaiting
<1>4. CASE UNCHANGED <<sub, errClosed>>
  BY <1>4
<1>5. ASSUME NEW s \in Subs, RequestPanics(s) \/ TakeRecord(s) \/ SeeClosed(s)
                               \/ Handle(s) \/ Notify(s)
      PROVE  UNCHANGED <<sub, errClosed>>
  BY <1>5 DEF RequestPanics, TakeRecord, SeeClosed, Handle, Notify
<1>6. ASSUME NEW n \in Session, Fetch(n) \/ Push(n) \/ ConsumeAgain(n)
                                 \/ ConsumeReturn(n) \/ Report(n) \/ ErrorsEnd(n)
      PROVE  UNCHANGED <<sub, errClosed>>
  BY <1>6 DEF Fetch, Push, ConsumeAgain, ConsumeReturn, Report, ErrorsEnd
<1>7. ASSUME CloseReader \/ CloseChannels \/ ServeClose \/ StopConsumer
               \/ StopDone \/ ServeMessage \/ ServeErr
      PROVE  UNCHANGED <<sub, errClosed>>
  BY <1>7 DEF CloseReader, CloseChannels, ServeClose, StopConsumer, StopDone,
              ServeMessage, ServeErr
<1>8. ASSUME UNCHANGED vars PROVE UNCHANGED <<sub, errClosed>>
  BY <1>8 DEF vars
<1> QED  BY <1>1, <1>2, <1>3, <1>4, <1>5, <1>6, <1>7, <1>8
         DEF Next, CallerNext, ReadingNext, ServeNext, GroupNext

\* A handler that waits for its goroutine has closed the subscription, so that
\* the goroutine, wherever the cancel found it, can end
\* (clientsubscription.go:156-157).
THEOREM CallsWaitEnds == CallsSpec => []WaitEnds
<1>1. CallsInit => EndedInv
  BY DEF CallsInit, Init, EndedInv
<1>2. CInv /\ EndedInv /\ [CallsNext]_allVars => EndedInv'
  BY CallsStepReader, EndedStep DEF CInv
<1>3. CInv /\ EndedInv => WaitEnds
  <2> SUFFICES ASSUME CInv, EndedInv, NEW s \in Subs, rpc[s] = "wait",
                      ~finished[s]
               PROVE  SeesClosed(s) \/ CanFinish(s)
    BY DEF WaitEnds
  <2> USE DEF CInv, PlacesInv
  <2>1. errClosed[s]
    BY DEF PlaceInv, EndedInv
  <2>2. CASE reading[s]
    BY <2>1, <2>2 DEF SeesClosed
  <2>3. CASE ~reading[s]
    <3>1. outcome[s] # "none"
      BY <2>3 DEF OutcomeInv
    <3>2. errChan[s] = "empty"
      BY DEF EndInv
    <3> QED  BY <3>1, <3>2 DEF CanFinish
  <2> QED  BY <2>2, <2>3
<1> QED  BY <1>1, <1>2, <1>3, CallsInvariance, PTL DEF CallsSpec

-----------------------------------------------------------------------------
\* What may not move once the call has returned.
StandsStill(s) ==
  /\ rpc'[s] = rpc[s] /\ status'[s] = status[s]
  /\ records'[s] = records[s] /\ last'[s] = last[s]
  /\ outcome'[s] = outcome[s] /\ finished'[s] = finished[s]

\* The reader has forgotten a call that has returned.
LEMMA ReaderLeavesReturned ==
  ASSUME CInv, ReaderStep, NEW s \in Subs, rpc[s] = "returned"
  PROVE  StandsStill(s)
<1> USE DEF CInv
<1>1. s \notin subscriptions /\ s \notin todo
  BY DEF PlacesInv, PlaceInv, IInv, MapInv, TypeOK, ServeType
<1>2. UNCHANGED <<rpc, status, finished>>
  BY DEF ReaderStep
<1>3. outcome'[s] = outcome[s]
  <2>1. ~Notified(s)
    BY <1>1 DEF Notified
  <2>2. reading'[s] = reading[s]
    BY <2>1, ReaderMoves
  <2> QED  BY <2>2 DEF ReaderStep
<1>4. records'[s] = records[s] /\ last'[s] = last[s]
  <2>1. ASSUME NEW t \in Subs, Handle(t)
        PROVE  records'[s] = records[s] /\ last'[s] = last[s]
    BY <1>1, <2>1 DEF Handle, IInv, TypeOK, ChannelsType
  <2>2. ASSUME NEW t \in Subs, ServeSubscribe(t) \/ ServeUnsubscribe(t)
                                 \/ Notify(t) \/ RequestPanics(t)
        PROVE  UNCHANGED <<records, last>>
    BY <2>2 DEF ServeSubscribe, ServeUnsubscribe, Notify, RequestPanics,
                chanVars
  <2>3. ASSUME NEW c \in Subs \union {Nil}, Respond(c)
        PROVE  UNCHANGED <<records, last>>
    BY <2>3 DEF Respond, chanVars
  <2>4. ASSUME NEW n \in Session, Fetch(n) \/ Push(n) \/ ConsumeAgain(n)
                                  \/ ConsumeReturn(n) \/ Report(n) \/ ErrorsEnd(n)
        PROVE  UNCHANGED <<records, last>>
    BY <2>4 DEF Fetch, Push, ConsumeAgain, ConsumeReturn, Report, ErrorsEnd,
                chanVars
  <2>5. ASSUME CloseReader \/ CloseChannels \/ ServeClose \/ StopConsumer
                 \/ StopDone \/ ServeMessage \/ ServeErr
        PROVE  UNCHANGED <<records, last>>
    BY <2>5 DEF CloseReader, CloseChannels, ServeClose, StopConsumer, StopDone,
                ServeMessage, ServeErr, chanVars
  <2> QED  BY <2>1, <2>2, <2>3, <2>4, <2>5 DEF ReaderStep, ServeNext, GroupNext
<1> QED  BY <1>2, <1>3, <1>4 DEF StandsStill

\* So have its handler and its goroutine, and those of the other calls.
LEMMA OthersLeaveReturned ==
  ASSUME CInv, NEW s \in Subs, rpc[s] = "returned", NEW t \in Subs,
         Handler(t) \/ Forward(t) \/ End(t) \/ Finish(t)
  PROVE  StandsStill(s)
<1> USE DEF CInv, PlacesInv, StandsStill
<1>0. /\ rpc \in [Subs -> Registered \union {"new", "subscribe", "returned"}]
      /\ outcome \in [Subs -> Errs \union {"none"}]
      /\ finished \in [Subs -> BOOLEAN] /\ reading \in [Subs -> BOOLEAN]
      /\ records \in [Subs -> Seq(1..MaxMsg)]
      /\ status \in [Subs -> {"none", "OK", "Internal", "PermissionDenied"}]
  BY DEF CallTypes, IInv, TypeOK, ChannelsType
<1>1. reading[s] => ~Runs(s)
  <2>1. reading[s] => ~finished[s]
    BY DEF OutcomeInv
  <2>2. ~finished[s] => ~errChanClosed[s]
    BY DEF EndInv
  <2> QED  BY <2>1, <2>2 DEF Runs
<1>2. ~CanFinish(s)
  BY DEF CanFinish, EndInv
<1>3. CASE Handler(t)
  <2>1. UNCHANGED <<records, last, outcome, finished>>
    BY <1>3 DEF Handler, Deny, Subscribe, SubscribeFails, Register, CountIn,
       Cancel, Wake, BeginClose, EndClose, PassBarrier, CountOut, Unregister,
       NewSubscription, CloseSubscription, FinishClose, vars, chanVars,
       readingVars
  <2>2. CASE rpc' = rpc /\ status' = status
    BY <2>1, <2>2
  <2>3. CASE t # s /\ (\E to : rpc' = [rpc EXCEPT ![t] = to])
             /\ (status' = status \/ \E st : status' = [status EXCEPT ![t] = st])
    BY <1>0, <2>1, <2>3
  <2>4. rpc[t] # "returned"
    BY <1>3 DEF Handler, Deny, Subscribe, SubscribeFails, Register, CountIn,
       Cancel, Wake, BeginClose, EndClose, PassBarrier, CountOut, Unregister,
       Goes
  <2>5. t # s
    BY <2>4
  <2> QED  BY <1>3, <2>2, <2>3, <2>5
           DEF Handler, Deny, Subscribe, SubscribeFails, Register, CountIn,
       Cancel, Wake, BeginClose, EndClose, PassBarrier, CountOut, Unregister,
       Goes, Returns
<1>4. CASE Forward(t) \/ End(t)
  <2>1. t # s
    BY <1>1, <1>4 DEF Forward, End, TakeRecord, SeeClosed, SeesClosed
  <2>2. /\ UNCHANGED <<rpc, status, finished, last>>
        /\ records' = records \/ records' = [records EXCEPT ![t] = Tail(@)]
        /\ outcome' = outcome \/ \E o : outcome' = [outcome EXCEPT ![t] = o]
    BY <1>4 DEF Forward, End, TakeRecord, SeeClosed
  <2> QED  BY <1>0, <2>1, <2>2
<1>5. CASE Finish(t)
  <2>1. t # s
    BY <1>2, <1>5 DEF Finish
  <2> QED  BY <1>0, <1>5, <2>1 DEF Finish, chanVars
<1> QED  BY <1>3, <1>4, <1>5

\* When a call has returned, nothing of it is left to move
\* (clientsubscription.go:runSubscription): no record reaches it, and its stream
\* is not used again.
THEOREM CallsReturnForGood == CallsSpec => ReturnedIsFinal
<1>1. ASSUME CInv, [CallsNext]_allVars, NEW s \in Subs, rpc[s] = "returned"
      PROVE  StandsStill(s)
  <2>1. CASE UNCHANGED allVars
    BY <2>1 DEF allVars, vars, chanVars, callVars, readingVars, StandsStill
  <2> QED  BY <1>1, <2>1, ReaderLeavesReturned, OthersLeaveReturned
           DEF CallsNext
<1>2. CInv /\ [CallsNext]_allVars =>
        [\A s \in Subs : rpc[s] = "returned" =>
           /\ rpc'[s] = "returned" /\ status'[s] = status[s]
           /\ records'[s] = records[s] /\ last'[s] = last[s]
           /\ outcome'[s] = outcome[s] /\ finished'[s] = finished[s]]_allVars
  BY <1>1 DEF StandsStill
<1> QED  BY <1>2, CallsInvariance, PTL DEF CallsSpec, ReturnedIsFinal

\* What is promised of the reader holds beneath the calls: every call gets the
\* messages in order with no gap and none after its Close, a response reaches
\* the call that asked, sessions do not overlap, a consumer dies of an error
\* only, and none passes over a message that cannot be converted (streamreader.go, clientsubscription.go).
THEOREM CallsInheritReader ==
  CallsSpec => /\ ImplementsFeed /\ []RequestResponse /\ []OneSession
               /\ []ClosedQuiet /\ []NothingSkipped /\ []DiesOfError
               /\ ImplementsQueues
BY CallsUseReader, FeedImplemented, ResponsesMatch, SessionsDoNotOverlap,
   QuietAfterClose, StopsAtUnconvertible, DeadOnlyByError, QueuesImplemented
=============================================================================
