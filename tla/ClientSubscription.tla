------------------------- MODULE ClientSubscription -------------------------
(***************************************************************************)
(* accesspoint/lib/clientsubscription.go around au10/streamreader.go: the  *)
(* streaming calls ReadLog and ReadPosts of the access point, one for each *)
(* member of Subs.  The handler of a call is the caller of the reader's    *)
(* NewSubscription and Close; its goroutine is the one that reads the      *)
(* subscription.  What StreamReader leaves open about both is fixed here:  *)
(* every step is a step of StreamReader or leaves its variables alone.     *)
(***************************************************************************)
EXTENDS StreamReader, FiniteSets

ASSUME SubsAssumption == IsFiniteSet(Subs)

VARIABLES
  rpc,          \* where the handler of each call is
  cancelled,    \* has the client cancelled the call?
  outcome,      \* what ended the reading goroutine, "none" until then
  finished,     \* has that goroutine passed its outcome on and ended?
  errChan,      \* the channel it passes it on: "empty" or an outcome
  errChanClosed,
  got,          \* the outcome the handler took from it
  status,       \* the status the call returned
  subscribers,  \* numberOfSubscribers of the service
  info          \* NumberOfSubscribers of what is read

readingVars == <<outcome, finished, errChan>>
countVars == <<subscribers, info>>
callVars == <<rpc, cancelled, readingVars, errChanClosed, got, status, countVars>>
allVars == <<vars, callVars>>

CallsInit ==
  /\ Init
  /\ rpc = [s \in Subs |-> "new"]
  /\ cancelled = [s \in Subs |-> FALSE]
  /\ outcome = [s \in Subs |-> "none"]
  /\ finished = [s \in Subs |-> FALSE]
  /\ errChan = [s \in Subs |-> "empty"]
  /\ errChanClosed = [s \in Subs |-> FALSE]
  /\ got = [s \in Subs |-> "nil"]
  /\ status = [s \in Subs |-> "none"]
  /\ subscribers = 0 /\ info = 0

\* The handler of a running process goes from one place to another.
Goes(s, from, to) == /\ rpc[s] = from /\ rpc' = [rpc EXCEPT ![s] = to]
                     /\ ~panic

Returns(s, st) == status' = [status EXCEPT ![s] = st]

-----------------------------------------------------------------------------
(* The handler of a call.                                                  *)

\* checkRights refuses a call whose user has no rights to what it reads.
Deny(s) ==
  /\ Goes(s, "new", "returned")
  /\ Returns(s, "PermissionDenied")
  /\ UNCHANGED <<vars, cancelled, readingVars, errChanClosed, got, countVars>>

Subscribe(s) ==
  /\ Goes(s, "new", "subscribe")
  /\ NewSubscription(s)
  /\ UNCHANGED <<cancelled, readingVars, errChanClosed, got, status, countVars>>

\* Subscribe closes the subscription it made and returns the error.
SubscribeFails(s) ==
  /\ Goes(s, "subscribe", "returned") /\ sub[s] = "failed"
  /\ FinishClose(s)
  /\ Returns(s, "Internal")
  /\ UNCHANGED <<cancelled, readingVars, errChanClosed, got, countVars>>

\* The reading goroutine is started, and the subscriber is registered.
Register(s) ==
  /\ Goes(s, "subscribe", "count") /\ sub[s] = "open"
  /\ subscribers' = subscribers + 1
  /\ UNCHANGED <<vars, cancelled, readingVars, errChanClosed, got, status, info>>

CountIn(s) ==
  /\ Goes(s, "count", "select")
  /\ info' = info + 1
  /\ UNCHANGED <<vars, cancelled, readingVars, errChanClosed, got, status,
                 subscribers>>

\* The client goes away.
Cancel(s) ==
  /\ ~panic /\ ~cancelled[s] /\ rpc[s] \notin {"new", "returned"}
  /\ cancelled' = [cancelled EXCEPT ![s] = TRUE]
  /\ UNCHANGED <<vars, rpc, readingVars, errChanClosed, got, status, countVars>>

\* Mutant: an error returns without closing the subscription.
WakeNoClose(s) ==
  /\ \/ /\ Goes(s, "select", "uncount")
        /\ errChan[s] # "empty"
        /\ got' = [got EXCEPT ![s] = errChan[s]]
        /\ errChan' = [errChan EXCEPT ![s] = "empty"]
     \/ /\ Goes(s, "select", "close")
        /\ cancelled[s] /\ UNCHANGED <<got, errChan>>
  /\ UNCHANGED <<vars, cancelled, outcome, finished, errChanClosed, status,
                 countVars>>

\* The select of the handler: the goroutine's outcome, or the cancel.
Wake(s) ==
  /\ Goes(s, "select", "close")
  /\ \/ /\ errChan[s] # "empty"
        /\ got' = [got EXCEPT ![s] = errChan[s]]
        /\ errChan' = [errChan EXCEPT ![s] = "empty"]
     \/ cancelled[s] /\ UNCHANGED <<got, errChan>>
  /\ UNCHANGED <<vars, cancelled, outcome, finished, errChanClosed, status,
                 countVars>>

BeginClose(s) ==
  /\ Goes(s, "close", "closing")
  /\ CloseSubscription(s)
  /\ UNCHANGED <<cancelled, readingVars, errChanClosed, got, status, countVars>>

EndClose(s) ==
  /\ Goes(s, "closing", "wait")
  /\ FinishClose(s)
  /\ UNCHANGED <<cancelled, readingVars, errChanClosed, got, status, countVars>>

\* Mutant: the handler does not wait for the goroutine.
PassBarrierEarly(s) ==
  /\ Goes(s, "wait", "uncount")
  /\ errChanClosed' = [errChanClosed EXCEPT ![s] = TRUE]
  /\ UNCHANGED <<vars, cancelled, readingVars, got, status, countVars>>

\* stopBarrier, then errChan is closed.
PassBarrier(s) ==
  /\ Goes(s, "wait", "uncount") /\ finished[s]
  /\ errChanClosed' = [errChanClosed EXCEPT ![s] = TRUE]
  /\ UNCHANGED <<vars, cancelled, readingVars, got, status, countVars>>

\* Mutant: the subscriber is unregistered twice.
CountOutTwice(s) ==
  /\ Goes(s, "uncount", "unregister")
  /\ subscribers' = subscribers - 1
  /\ UNCHANGED <<vars, cancelled, readingVars, errChanClosed, got, status, info>>

CountOut(s) ==
  /\ Goes(s, "uncount", "unregister")
  /\ info' = info - 1
  /\ UNCHANGED <<vars, cancelled, readingVars, errChanClosed, got, status,
                 subscribers>>

\* Mutant: every call that was subscribed returns no error.
UnregisterOK(s) ==
  /\ Goes(s, "unregister", "returned")
  /\ subscribers' = subscribers - 1
  /\ Returns(s, "OK")
  /\ UNCHANGED <<vars, cancelled, readingVars, errChanClosed, got, info>>

Unregister(s) ==
  /\ Goes(s, "unregister", "returned")
  /\ subscribers' = subscribers - 1
  /\ Returns(s, IF got[s] = "error" THEN "Internal" ELSE "OK")
  /\ UNCHANGED <<vars, cancelled, readingVars, errChanClosed, got, info>>

-----------------------------------------------------------------------------
(* The reading goroutine, from Register on.                                *)

\* It was started, and its handler may have returned without it.
Runs(s) == rpc[s] \notin {"new", "subscribe", "returned"} \/ errChanClosed[s]

\* sendNext passes a record to the client; if that fails it is the outcome.
Forward(s) ==
  /\ Runs(s) /\ TakeRecord(s)
  /\ outcome' = IF reading'[s] THEN outcome ELSE [outcome EXCEPT ![s] = "error"]
  /\ UNCHANGED <<rpc, cancelled, finished, errChan, errChanClosed, got, status,
                 countVars>>

\* sendNext finds a channel of the subscription closed: no error.
End(s) ==
  /\ Runs(s) /\ SeeClosed(s)
  /\ outcome' = [outcome EXCEPT ![s] = "nil"]
  /\ UNCHANGED <<rpc, cancelled, finished, errChan, errChanClosed, got, status,
                 countVars>>

\* Mutant: errChan has no capacity.
CanFinishUnbuffered(s) ==
  outcome[s] # "none" /\ ~finished[s] /\ rpc[s] = "select"

\* It has an outcome to pass on, and errChan has room for one.
CanFinish(s) ==
  outcome[s] # "none" /\ ~finished[s] /\ errChan[s] = "empty"

\* The outcome goes to errChan.
Finish(s) ==
  /\ ~panic /\ CanFinish(s)
  /\ panic' = errChanClosed[s]
  /\ errChan' = [errChan EXCEPT ![s] = outcome[s]]
  /\ finished' = [finished EXCEPT ![s] = TRUE]
  /\ UNCHANGED <<callerVars, serveVars, groupVars, messages, errs, topicVars,
                 chanVars, rpc, cancelled, outcome, errChanClosed, got, status,
                 countVars>>

-----------------------------------------------------------------------------
\* The reader.  An error serve sends to a subscription is the outcome of the
\* goroutine that receives it.
ReaderStep ==
  /\ \/ ServeNext \/ GroupNext \/ CloseReader \/ CloseChannels
     \/ \E s \in Subs : RequestPanics(s)
  /\ outcome' = [s \in Subs |-> IF reading[s] /\ ~reading'[s] THEN errGot'[s]
                                                              ELSE outcome[s]]
  /\ UNCHANGED <<rpc, cancelled, finished, errChan, errChanClosed, got, status,
                 countVars>>

Handler(s) ==
  \/ Deny(s) \/ Subscribe(s) \/ SubscribeFails(s) \/ Register(s) \/ CountIn(s)
  \/ Cancel(s) \/ Wake(s) \/ BeginClose(s) \/ EndClose(s) \/ PassBarrier(s)
  \/ CountOut(s) \/ Unregister(s)

CallsNext ==
  \/ ReaderStep
  \/ \E s \in Subs : Handler(s) \/ Forward(s) \/ End(s) \/ Finish(s)

CallsSpec == CallsInit /\ [][CallsNext]_allVars

-----------------------------------------------------------------------------
CallsTypeOK ==
  /\ TypeOK
  /\ rpc \in [Subs -> {"new", "subscribe", "count", "select", "close",
                       "closing", "wait", "uncount", "unregister", "returned"}]
  /\ cancelled \in [Subs -> BOOLEAN]
  /\ outcome \in [Subs -> Errs \union {"none"}]
  /\ finished \in [Subs -> BOOLEAN]
  /\ errChan \in [Subs -> Errs \union {"empty"}]
  /\ errChanClosed \in [Subs -> BOOLEAN]
  /\ got \in [Subs -> Errs]
  /\ status \in [Subs -> {"none", "OK", "Internal", "PermissionDenied"}]
  /\ subscribers \in 0..Cardinality(Subs) /\ info \in 0..subscribers

\* A call that has returned leaves nothing behind: not its subscription in the
\* reader's map, nor its goroutine, nor, when no call is left, a subscriber in
\* the counters.
NothingLeft ==
  /\ \A s \in Subs : rpc[s] = "returned" =>
       s \notin subscriptions /\ (status[s] = "OK" => finished[s])
  /\ (\A s \in Subs : rpc[s] \in {"new", "returned"}) =>
       subscribers = 0 /\ info = 0 /\ subscriptions = {}

\* A call returns OK only if its client cancelled it or its subscription was
\* ended without an error, and Internal only if something failed.
FailureReported ==
  \A s \in Subs :
    /\ status[s] = "OK" => cancelled[s] \/ outcome[s] = "nil"
    /\ status[s] = "Internal" => outcome[s] \in {"none", "error"}

\* The handler never waits for a goroutine that cannot move: whatever that was
\* doing when the call was cancelled, it has ended, it can see that its
\* subscription is closed, or its outcome has room.
WaitEnds ==
  \A s \in Subs :
    rpc[s] = "wait" => finished[s] \/ SeesClosed(s) \/ CanFinish(s)

\* Once a call has returned nothing of it moves any more: no record is handed
\* to it or passed on to its client, and no goroutine of it ends later.
ReturnedIsFinal ==
  [][\A s \in Subs : rpc[s] = "returned" =>
       /\ rpc'[s] = "returned" /\ status'[s] = status[s]
       /\ records'[s] = records[s] /\ last'[s] = last[s]
       /\ outcome'[s] = outcome[s] /\ finished'[s] = finished[s]]_allVars
=============================================================================
