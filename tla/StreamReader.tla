---------------------------- MODULE StreamReader ----------------------------
(***************************************************************************)
(* au10/streamreader.go: one Kafka reader fanned out to subscriptions.     *)
(*                                                                         *)
(* Goroutines: the callers of NewSubscription and of a subscription's      *)
(* Close (one per member of Subs), the caller of the reader's Close (the   *)
(* owner), the serve loop, and for every opened Sarama consumer (a         *)
(* session) the consuming goroutine and the goroutine that logs consumer   *)
(* errors.  The subscriptions' own channels (au10/subscription.go, log.go, *)
(* posts.go, publisher.go) and the goroutine that reads them belong to the *)
(* model, because serve blocks on them.  The Sarama consumer group and the *)
(* broker are external: a topic is the sequence of offsets 1..MaxMsg.      *)
(***************************************************************************)
EXTENDS Naturals, Sequences

CONSTANTS
  Subs,           \* subscription objects; each is opened and closed once
  CloseFirst,     \* those that close their records channel before they
                  \* unsubscribe (log.go, publisher.go; posts.go does not)
  MayQuit,        \* those whose reading goroutine may stop before Close
  ConsumeMayFail, \* may Consume return an error that is not a cancel?
  Unconvertible,  \* offsets of messages that convertMessage refuses
  Nil,            \* the nil request, by which the owner closes the reader
  MaxMsg,         \* bound: messages in the topic
  MaxSession      \* bound: how many times a consumer is opened

ASSUME NilAssumption == Nil \notin Subs
ASSUME EnvAssumption ==
  /\ CloseFirst \subseteq Subs /\ MayQuit \subseteq Subs
  /\ ConsumeMayFail \in BOOLEAN
ASSUME UnconvertibleAssumption == Unconvertible \subseteq Nat \ {0}
ASSUME BoundAssumption == MaxMsg \in Nat /\ MaxSession \in Nat

Session == 1..MaxSession
Errs == {"nil", "error"}

MessagesCap == 1  \* capacity of messagesChan
ErrCap == 1       \* capacity of the reader's errChan
RecordsCap == 1   \* capacity of a subscription's records channel

VARIABLES
  sub,           \* where the user of each subscription is
  owner,         \* where the owner of the reader is
  servePc,       \* where the serve goroutine is
  cur,           \* the request serve is handling
  resp,          \* the response it is about to send
  item,          \* the last message serve took from messagesChan
  err,           \* the last error serve took from errChan
  todo,          \* subscriptions serve has still to hand it to
  subscriptions, \* the map of live subscriptions
  consumer,      \* session of the open consumer, 0 for nil
  session,       \* consumers opened so far
  ctxDone,       \* sessions whose context is cancelled
  consumePc,     \* where each consuming goroutine is
  report,        \* what it is about to put in errChan
  errorsPc,      \* where each consumer error logging goroutine is
  messages,      \* messagesChan
  errs,          \* errChan
  marked,        \* last offset marked in the running group session
  committed,     \* last offset committed to the broker, newest while none is
  newest,        \* where a session last began at the end of the topic
  records,       \* records channel of each subscription
  recordsClosed, \* has it been closed?
  errClosed,     \* has the error channel of a subscription been closed?
  reading,       \* does the goroutine reading the subscription still run?
  errGot,        \* the error it took from the error channel
  last,          \* history: last offset handed to the subscription
  panic          \* the process has panicked

callerVars == <<sub, owner>>
serveVars == <<servePc, cur, resp, item, err, todo, subscriptions>>
groupVars == <<consumer, session, ctxDone, consumePc, report, errorsPc>>
topicVars == <<marked, committed, newest>>
chanVars == <<records, recordsClosed, errClosed, reading, errGot, last>>
vars == <<callerVars, serveVars, groupVars, messages, errs, topicVars,
          chanVars, panic>>

Init ==
  /\ sub = [s \in Subs |-> "new"]
  /\ owner = "open"
  /\ servePc = "select" /\ cur = Nil /\ resp = "nil"
  /\ item = 0 /\ err = "nil" /\ todo = {} /\ subscriptions = {}
  /\ consumer = 0 /\ session = 0 /\ ctxDone = {}
  /\ consumePc = [n \in Session |-> "none"]
  /\ report = [n \in Session |-> "nil"]
  /\ errorsPc = [n \in Session |-> "none"]
  /\ messages = <<>> /\ errs = <<>>
  /\ marked = 0 /\ committed = 0 /\ newest = 0
  /\ records = [s \in Subs |-> <<>>]
  /\ recordsClosed = [s \in Subs |-> FALSE]
  /\ errClosed = [s \in Subs |-> FALSE]
  /\ reading = [s \in Subs |-> TRUE]
  /\ errGot = [s \in Subs |-> "none"]
  /\ last = [s \in Subs |-> 0]
  /\ panic = FALSE

\* A panic in any goroutine ends the process.
Running == ~panic /\ UNCHANGED panic

-----------------------------------------------------------------------------
(* Callers.  A caller sends its request on the unbuffered requestsChan (a  *)
(* state ending in Req), then waits on the unbuffered responsesChan (Resp). *)

\* Subscribe of a log or posts reader calls NewSubscription.
NewSubscription(s) ==
  /\ Running
  /\ sub[s] = "new"
  /\ sub' = [sub EXCEPT ![s] = "subReq"]
  /\ UNCHANGED <<owner, serveVars, groupVars, messages, errs, topicVars,
                 chanVars>>

\* Mutant: every kind of subscription closes its records channel first.
CloseSubscriptionChannelFirst(s) ==
  /\ Running
  /\ sub[s] = "open"
  /\ sub' = [sub EXCEPT ![s] = "unsubReq"]
  /\ recordsClosed' = [recordsClosed EXCEPT ![s] = TRUE]
  /\ UNCHANGED <<owner, serveVars, groupVars, messages, errs, topicVars,
                 records, errClosed, reading, errGot, last>>

\* Close of an open subscription, up to the request that unsubscribes it.
CloseSubscription(s) ==
  /\ Running
  /\ sub[s] = "open"
  /\ sub' = [sub EXCEPT ![s] = "unsubReq"]
  /\ recordsClosed' = [recordsClosed EXCEPT ![s] = s \in CloseFirst]
  /\ UNCHANGED <<owner, serveVars, groupVars, messages, errs, topicVars,
                 records, errClosed, reading, errGot, last>>

\* The rest of that Close, and all of the Close that follows a refused
\* subscribe: the channels of the subscription are closed.
FinishClose(s) ==
  /\ Running
  /\ sub[s] \in {"unsubbed", "failed"}
  /\ sub' = [sub EXCEPT ![s] = "closed"]
  /\ recordsClosed' = [recordsClosed EXCEPT ![s] = TRUE]
  /\ errClosed' = [errClosed EXCEPT ![s] = TRUE]
  /\ UNCHANGED <<owner, serveVars, groupVars, messages, errs, topicVars,
                 records, reading, errGot, last>>

\* The owner calls the reader's Close.
CloseReader ==
  /\ Running
  /\ owner = "open"
  /\ owner' = "closeReq"
  /\ UNCHANGED <<sub, serveVars, groupVars, messages, errs, topicVars,
                 chanVars>>

\* The rest of it: the reader's channels are closed.
CloseChannels ==
  /\ Running
  /\ owner = "closing"
  /\ owner' = "closed"
  /\ UNCHANGED <<sub, serveVars, groupVars, messages, errs, topicVars,
                 chanVars>>

\* A request sent on, or blocked on, the closed requestsChan panics.
RequestPanics(s) ==
  /\ ~panic
  /\ owner = "closed"
  /\ sub[s] \in {"subReq", "unsubReq"}
  /\ panic' = TRUE
  /\ UNCHANGED <<callerVars, serveVars, groupVars, messages, errs, topicVars,
                 chanVars>>

-----------------------------------------------------------------------------
(* The goroutine that reads a subscription: sendNext in the access point,  *)
(* the select loop of main in the publisher.                               *)

Started(s) == sub[s] \in {"open", "unsubReq", "unsubResp", "unsubbed", "closed"}

\* It takes a record; if it cannot pass it on it stops reading.
TakeRecord(s) ==
  /\ Running
  /\ Started(s) /\ reading[s] /\ records[s] # <<>>
  /\ records' = [records EXCEPT ![s] = Tail(@)]
  /\ reading' \in {reading, [reading EXCEPT ![s] = s \notin MayQuit]}
  /\ UNCHANGED <<callerVars, serveVars, groupVars, messages, errs, topicVars,
                 recordsClosed, errClosed, errGot, last>>

\* It can see that the subscription has ended: one of its two channels is
\* closed and has nothing left to receive.
SeesClosed(s) ==
  reading[s] /\ (errClosed[s] \/ (recordsClosed[s] /\ records[s] = <<>>))

\* It does, and ends.
SeeClosed(s) ==
  /\ Running
  /\ SeesClosed(s)
  /\ reading' = [reading EXCEPT ![s] = FALSE]
  /\ UNCHANGED <<callerVars, serveVars, groupVars, messages, errs, topicVars,
                 records, recordsClosed, errClosed, errGot, last>>

-----------------------------------------------------------------------------
(* The serve loop.                                                         *)

\* stop(): cancel the consumer's context, then wait at the two barriers.
BeginStop ==
  /\ ctxDone' = ctxDone \union {consumer}
  /\ servePc' = "waitConsume"

\* Mutant: Close does not stop the consumer.
ServeCloseNoStop ==
  /\ Running
  /\ servePc = "select" /\ owner = "closeReq"
  /\ owner' = "closeResp" /\ cur' = Nil /\ resp' = "nil"
  /\ servePc' = "respond"
  /\ UNCHANGED <<sub, item, err, todo, subscriptions, groupVars, messages,
                 errs, topicVars, chanVars>>

\* A nil request: close().
ServeClose ==
  /\ Running
  /\ servePc = "select" /\ owner = "closeReq"
  /\ owner' = "closeResp" /\ cur' = Nil /\ resp' = "nil"
  /\ \/ consumer = 0 /\ servePc' = "respond" /\ UNCHANGED ctxDone
     \/ consumer # 0 /\ BeginStop
  /\ UNCHANGED <<sub, item, err, todo, subscriptions, consumer, session,
                 consumePc, report, errorsPc, messages, errs, topicVars,
                 chanVars>>

HasCommitted == committed > newest

\* NewSaramaConsumer leaves Offsets.Initial at OffsetNewest: while the group
\* has committed nothing its sessions begin at the end of the topic, wherever
\* that is by now.
BeginAtEnd ==
  /\ ~HasCommitted
  /\ marked' \in marked..MaxMsg
  /\ committed' = marked' /\ newest' = marked'

\* start(): a consumer is opened and its two goroutines run.
Start ==
  /\ BeginAtEnd \/ (HasCommitted /\ UNCHANGED topicVars)
  /\ session < MaxSession
  /\ session' = session + 1 /\ consumer' = session + 1
  /\ consumePc' = [consumePc EXCEPT ![session + 1] = "consume"]
  /\ errorsPc' = [errorsPc EXCEPT ![session + 1] = "range"]

\* A subscribe request: the first subscription opens the consumer, which
\* may fail.
ServeSubscribe(s) ==
  /\ Running
  /\ servePc = "select" /\ sub[s] = "subReq"
  /\ sub' = [sub EXCEPT ![s] = "subResp"]
  /\ servePc' = "respond" /\ cur' = s
  /\ \/ /\ consumer # 0
        /\ resp' = "nil" /\ subscriptions' = subscriptions \union {s}
        /\ UNCHANGED <<session, consumer, consumePc, errorsPc, topicVars>>
     \/ /\ consumer = 0 /\ Start
        /\ resp' = "nil" /\ subscriptions' = subscriptions \union {s}
     \/ /\ consumer = 0
        /\ resp' = "error"
        /\ UNCHANGED <<subscriptions, session, consumer, consumePc, errorsPc,
                       topicVars>>
  /\ UNCHANGED <<owner, item, err, todo, ctxDone, report, messages, errs,
                 chanVars>>

\* Mutant: the caller does not wait for the response of its unsubscribe.
ServeUnsubscribeNoWait(s) ==
  /\ Running
  /\ servePc = "select" /\ sub[s] = "unsubReq"
  /\ sub' = [sub EXCEPT ![s] = "unsubbed"]
  /\ cur' = s /\ resp' = "nil"
  /\ subscriptions' = subscriptions \ {s}
  /\ \/ subscriptions' # {} /\ servePc' = "respond" /\ UNCHANGED ctxDone
     \/ subscriptions' = {} /\ BeginStop
  /\ UNCHANGED <<owner, item, err, todo, consumer, session, consumePc, report,
                 errorsPc, messages, errs, topicVars, chanVars>>

\* Mutant: the last unsubscribe leaves the consumer running.
ServeUnsubscribeNoStop(s) ==
  /\ Running
  /\ servePc = "select" /\ sub[s] = "unsubReq"
  /\ sub' = [sub EXCEPT ![s] = "unsubResp"]
  /\ cur' = s /\ resp' = "nil" /\ servePc' = "respond"
  /\ subscriptions' = subscriptions \ {s}
  /\ UNCHANGED <<owner, item, err, todo, groupVars, messages, errs, topicVars,
                 chanVars>>

\* An unsubscribe request: the last subscription stops the consumer.
ServeUnsubscribe(s) ==
  /\ Running
  /\ servePc = "select" /\ sub[s] = "unsubReq"
  /\ sub' = [sub EXCEPT ![s] = "unsubResp"]
  /\ cur' = s /\ resp' = "nil"
  /\ subscriptions' = subscriptions \ {s}
  /\ \/ subscriptions' # {} /\ servePc' = "respond" /\ UNCHANGED ctxDone
     \/ subscriptions' = {} /\ BeginStop
  /\ UNCHANGED <<owner, item, err, todo, consumer, session, consumePc, report,
                 errorsPc, messages, errs, topicVars, chanVars>>

\* Mutant: stop() does not wait for the consuming goroutine.
StopConsumerNoBarrier ==
  /\ Running
  /\ servePc = "waitConsume"
  /\ servePc' = "waitErrors"
  /\ errorsPc' = [errorsPc EXCEPT ![consumer] = "closed"]
  /\ UNCHANGED <<callerVars, cur, resp, item, err, todo, subscriptions,
                 consumer, session, ctxDone, consumePc, report, messages, errs,
                 topicVars, chanVars>>

\* stop() passes consumingStopBarrier and closes the consumer, which closes
\* the channel of consumer errors.
StopConsumer ==
  /\ Running
  /\ servePc = "waitConsume" /\ consumePc[consumer] = "done"
  /\ servePc' = "waitErrors"
  /\ errorsPc' = [errorsPc EXCEPT ![consumer] = "closed"]
  /\ UNCHANGED <<callerVars, cur, resp, item, err, todo, subscriptions,
                 consumer, session, ctxDone, consumePc, report, messages, errs,
                 topicVars, chanVars>>

\* Mutant: stop() does not reset the consumer.
StopDoneKeeps ==
  /\ Running
  /\ servePc = "waitErrors" /\ errorsPc[consumer] = "done"
  /\ servePc' = "respond"
  /\ UNCHANGED <<callerVars, cur, resp, item, err, todo, subscriptions,
                 groupVars, messages, errs, topicVars, chanVars>>

\* stop() passes consumerStopBarrier.
StopDone ==
  /\ Running
  /\ servePc = "waitErrors" /\ errorsPc[consumer] = "done"
  /\ servePc' = "respond" /\ consumer' = 0
  /\ UNCHANGED <<callerVars, cur, resp, item, err, todo, subscriptions,
                 session, ctxDone, consumePc, report, errorsPc, messages, errs,
                 topicVars, chanVars>>

\* Callers blocked on responsesChan; any of them may get the response.
Awaiting ==
  {s \in Subs : sub[s] \in {"subResp", "unsubResp"}}
    \union (IF owner = "closeResp" THEN {Nil} ELSE {})

\* What a caller does next when it gets the response r.
Answered(s, r) ==
  CASE sub[s] = "unsubResp" -> "unsubbed"
    [] sub[s] = "subResp" /\ r = "nil" -> "open"
    [] OTHER -> "failed"

\* The response meets a waiting caller; after a nil request serve returns.
Respond(c) ==
  /\ Running
  /\ servePc = "respond" /\ c \in Awaiting
  /\ servePc' = IF cur = Nil THEN "done" ELSE "select"
  /\ IF c = Nil THEN owner' = "closing" /\ UNCHANGED sub
                ELSE /\ sub' = [sub EXCEPT ![c] = Answered(c, resp)]
                     /\ UNCHANGED owner
  /\ UNCHANGED <<cur, resp, item, err, todo, subscriptions, groupVars,
                 messages, errs, topicVars, chanVars>>

\* Mutant: an unsubscribed subscription stays in the map.
ServeMessageToAll ==
  /\ Running
  /\ servePc = "select" /\ messages # <<>>
  /\ item' = Head(messages) /\ messages' = Tail(messages)
  /\ todo' = {s \in Subs : sub[s] \in {"open", "unsubReq", "unsubResp",
                                        "unsubbed"}}
  /\ servePc' = IF todo' = {} THEN "select" ELSE "dispatch"
  /\ UNCHANGED <<callerVars, cur, resp, err, subscriptions, groupVars, errs,
                 topicVars, chanVars>>

\* serve takes a message and starts to hand it to every subscription.
ServeMessage ==
  /\ Running
  /\ servePc = "select" /\ messages # <<>>
  /\ item' = Head(messages) /\ messages' = Tail(messages)
  /\ todo' = subscriptions
  /\ servePc' = IF subscriptions = {} THEN "select" ELSE "dispatch"
  /\ UNCHANGED <<callerVars, cur, resp, err, subscriptions, groupVars, errs,
                 topicVars, chanVars>>

\* serve takes an error and starts to send it to every subscription.
ServeErr ==
  /\ Running
  /\ servePc = "select" /\ errs # <<>>
  /\ err' = Head(errs) /\ errs' = Tail(errs)
  /\ todo' = subscriptions
  /\ servePc' = IF subscriptions = {} THEN "select" ELSE "notify"
  /\ UNCHANGED <<callerVars, cur, resp, item, subscriptions, groupVars,
                 messages, topicVars, chanVars>>

\* Mutant: the loop over the subscriptions ends after the first one.
HandedBreak(s) == s \in todo /\ todo' = {} /\ servePc' = "select"

\* The loop over the subscriptions goes on with the next one, or ends.
Handed(s) ==
  /\ todo' = todo \ {s}
  /\ servePc' = IF todo = {s} THEN "select" ELSE servePc

\* subscription.handle: a send on the records channel, which blocks while it
\* is full and panics once it is closed.
Handle(s) ==
  /\ ~panic
  /\ servePc = "dispatch" /\ s \in todo
  /\ recordsClosed[s] \/ Len(records[s]) < RecordsCap
  /\ panic' = recordsClosed[s]
  /\ records' = IF recordsClosed[s] THEN records
                ELSE [records EXCEPT ![s] = Append(@, item)]
  /\ last' = IF recordsClosed[s] THEN last ELSE [last EXCEPT ![s] = item]
  /\ Handed(s)
  /\ UNCHANGED <<callerVars, cur, resp, item, err, subscriptions, groupVars,
                 messages, errs, topicVars, recordsClosed, errClosed, reading,
                 errGot>>

\* A send on the unbuffered error channel of a subscription, which meets the
\* reading goroutine; that goroutine ends.
Notify(s) ==
  /\ ~panic
  /\ servePc = "notify" /\ s \in todo
  /\ errClosed[s] \/ (Started(s) /\ reading[s])
  /\ panic' = errClosed[s]
  /\ errGot' = [errGot EXCEPT ![s] = err]
  /\ reading' = [reading EXCEPT ![s] = FALSE]
  /\ Handed(s)
  /\ UNCHANGED <<callerVars, cur, resp, item, err, subscriptions, groupVars,
                 messages, errs, topicVars, records, recordsClosed, errClosed,
                 last>>

-----------------------------------------------------------------------------
(* The goroutines of a session and the consumer group.                     *)

\* Mutant: a message that cannot be converted is passed on all the same.
FetchAny(n) ==
  /\ Running
  /\ consumePc[n] = "consume" /\ marked < MaxMsg
  /\ consumePc' = [consumePc EXCEPT ![n] = "push"]
  /\ UNCHANGED <<callerVars, serveVars, consumer, session, ctxDone, report,
                 errorsPc, messages, errs, topicVars, chanVars>>

\* Consume hands ConsumeClaim the next message of the claim.  One that cannot
\* be converted ends the claim unmarked, which is ConsumeAgain.
Fetch(n) ==
  /\ Running
  /\ consumePc[n] = "consume" /\ marked < MaxMsg
  /\ marked + 1 \notin Unconvertible
  /\ consumePc' = [consumePc EXCEPT ![n] = "push"]
  /\ UNCHANGED <<callerVars, serveVars, consumer, session, ctxDone, report,
                 errorsPc, messages, errs, topicVars, chanVars>>

\* Mutant: messagesChan never makes ConsumeClaim wait.
PushUnbounded(n) ==
  /\ Running
  /\ consumePc[n] = "push"
  /\ messages' = Append(messages, marked + 1)
  /\ marked' = marked + 1
  /\ consumePc' = [consumePc EXCEPT ![n] = "consume"]
  /\ UNCHANGED <<callerVars, serveVars, consumer, session, ctxDone, report,
                 errorsPc, errs, committed, newest, chanVars>>

\* ConsumeClaim puts it in messagesChan and marks it.
Push(n) ==
  /\ Running
  /\ consumePc[n] = "push" /\ Len(messages) < MessagesCap
  /\ messages' = Append(messages, marked + 1)
  /\ marked' = marked + 1
  /\ consumePc' = [consumePc EXCEPT ![n] = "consume"]
  /\ UNCHANGED <<callerVars, serveVars, consumer, session, ctxDone, report,
                 errorsPc, errs, committed, newest, chanVars>>

\* When a group session ends some of its marks may be left uncommitted; the
\* next one resumes after the committed offset, if there is one.
EndGroupSession ==
  /\ committed' \in committed..marked /\ UNCHANGED newest
  /\ marked' = IF HasCommitted' THEN committed' ELSE marked

\* Consume returns nil with the context alive (a rebalance, or a message that
\* could not be converted and was not marked): the loop consumes again.
ConsumeAgain(n) ==
  /\ Running
  /\ consumePc[n] = "consume" /\ n \notin ctxDone
  /\ BeginAtEnd \/ (EndGroupSession /\ HasCommitted')
  /\ UNCHANGED <<callerVars, serveVars, groupVars, messages, errs, chanVars>>

\* Consume returns for good: cancelled, or with an error.
ConsumeReturn(n) ==
  /\ Running
  /\ consumePc[n] = "consume"
  /\ EndGroupSession
  /\ consumePc' = [consumePc EXCEPT ![n] = "report"]
  /\ \E e \in Errs :
       /\ e = "nil" => n \in ctxDone
       /\ e = "error" => ConsumeMayFail
       /\ report' = [report EXCEPT ![n] = e]
  /\ UNCHANGED <<callerVars, serveVars, consumer, session, ctxDone, errorsPc,
                 messages, errs, chanVars>>

\* The consuming goroutine puts the outcome in errChan and ends.
Report(n) ==
  /\ Running
  /\ consumePc[n] = "report" /\ Len(errs) < ErrCap
  /\ errs' = Append(errs, report[n])
  /\ consumePc' = [consumePc EXCEPT ![n] = "done"]
  /\ UNCHANGED <<callerVars, serveVars, consumer, session, ctxDone, report,
                 errorsPc, messages, topicVars, chanVars>>

\* The goroutine that logs consumer errors ends when their channel is closed.
ErrorsEnd(n) ==
  /\ Running
  /\ errorsPc[n] = "closed"
  /\ errorsPc' = [errorsPc EXCEPT ![n] = "done"]
  /\ UNCHANGED <<callerVars, serveVars, consumer, session, ctxDone, consumePc,
                 report, messages, errs, topicVars, chanVars>>

-----------------------------------------------------------------------------
CallerNext ==
  \/ \E s \in Subs : NewSubscription(s) \/ CloseSubscription(s)
                       \/ FinishClose(s) \/ RequestPanics(s)
  \/ CloseReader \/ CloseChannels

ReadingNext == \E s \in Subs : TakeRecord(s) \/ SeeClosed(s)

ServeNext ==
  \/ ServeClose \/ StopConsumer \/ StopDone \/ ServeMessage \/ ServeErr
  \/ \E s \in Subs : ServeSubscribe(s) \/ ServeUnsubscribe(s)
                       \/ Handle(s) \/ Notify(s)
  \/ \E c \in Subs \union {Nil} : Respond(c)

GroupNext ==
  \E n \in Session : Fetch(n) \/ Push(n) \/ ConsumeAgain(n) \/ ConsumeReturn(n)
                       \/ Report(n) \/ ErrorsEnd(n)

Next == CallerNext \/ ReadingNext \/ ServeNext \/ GroupNext

Spec == Init /\ [][Next]_vars

\* Every goroutine that can run does; select chooses among ready cases at
\* random, so a case that is ready again and again is taken; Consume returns
\* once its context is cancelled; the user of a subscription closes it once
\* its reading goroutine has ended.
Fairness ==
  /\ \A s \in Subs :
       /\ WF_vars(FinishClose(s)) /\ WF_vars(TakeRecord(s))
       /\ WF_vars(SeeClosed(s)) /\ WF_vars(Handle(s)) /\ WF_vars(Notify(s))
       /\ WF_vars(~reading[s] /\ CloseSubscription(s))
       /\ SF_vars(ServeSubscribe(s)) /\ SF_vars(ServeUnsubscribe(s))
       /\ WF_vars(Respond(s))
  /\ \A n \in Session :
       /\ WF_vars(Fetch(n)) /\ WF_vars(Push(n)) /\ WF_vars(Report(n))
       /\ WF_vars(ErrorsEnd(n)) /\ WF_vars(n \in ctxDone /\ ConsumeReturn(n))
  /\ SF_vars(ServeClose) /\ SF_vars(ServeMessage) /\ SF_vars(ServeErr)
  /\ WF_vars(StopConsumer) /\ WF_vars(StopDone)
  /\ WF_vars(Respond(Nil)) /\ WF_vars(CloseChannels)

FairSpec == Spec /\ Fairness

-----------------------------------------------------------------------------
CallersType ==
  /\ sub \in [Subs -> {"new", "subReq", "subResp", "open", "failed",
                       "unsubReq", "unsubResp", "unsubbed", "closed"}]
  /\ owner \in {"open", "closeReq", "closeResp", "closing", "closed"}
  /\ panic \in BOOLEAN

ServeType ==
  /\ servePc \in {"select", "dispatch", "notify", "waitConsume",
                  "waitErrors", "respond", "done"}
  /\ cur \in Subs \union {Nil} /\ resp \in Errs
  /\ item \in 0..MaxMsg /\ err \in Errs
  /\ todo \subseteq subscriptions /\ subscriptions \subseteq Subs

GroupType ==
  /\ session \in 0..MaxSession /\ consumer \in {0, session}
  /\ ctxDone \subseteq 1..session
  /\ consumePc \in [Session -> {"none", "consume", "push", "report", "done"}]
  /\ report \in [Session -> Errs]
  /\ errorsPc \in [Session -> {"none", "range", "closed", "done"}]

StreamType ==
  /\ messages \in Seq(1..MaxMsg) /\ Len(messages) <= MessagesCap
  /\ errs \in Seq(Errs) /\ Len(errs) <= ErrCap
  /\ marked \in 0..MaxMsg /\ committed \in 0..marked /\ newest \in 0..committed

ChannelsType ==
  /\ records \in [Subs -> Seq(1..MaxMsg)]
  /\ \A s \in Subs : Len(records[s]) <= RecordsCap
  /\ recordsClosed \in [Subs -> BOOLEAN] /\ errClosed \in [Subs -> BOOLEAN]
  /\ reading \in [Subs -> BOOLEAN]
  /\ errGot \in [Subs -> Errs \union {"none"}]
  /\ last \in [Subs -> 0..MaxMsg]

\* Types and capacities: none of the three buffered channels ever holds more
\* than its capacity, serve only iterates over live subscriptions, and marks
\* and cancelled contexts are of messages and sessions that exist.
TypeOK ==
  CallersType /\ ServeType /\ GroupType /\ StreamType /\ ChannelsType

\* requestsChan and responsesChan are shared by all callers and a response
\* does not say whose it is: exactly one caller waits on responsesChan while
\* serve works on a request, the one whose request it is, and none otherwise.
RequestResponse ==
  Awaiting = IF servePc \in {"waitConsume", "waitErrors", "respond"}
             THEN {cur} ELSE {}

\* Between requests the consumer is open exactly while somebody subscribes,
\* so stop() never runs on a nil consumer and start() never on an open one.
ConsumerIffSubscribed ==
  servePc \in {"select", "dispatch", "notify"}
    => (consumer # 0 <=> subscriptions # {})

\* Nothing but an error of Consume leaves subscribers with a consumer that does
\* not consume: a cancelled one is never still there between requests.
DiesOfError ==
  servePc \in {"select", "dispatch", "notify"} /\ consumer # 0
    => consumePc[consumer] \in {"consume", "push"} \/ report[consumer] = "error"

\* stop() waits for both goroutines of the session: none of an older session
\* runs beside the open one, or after the consumer is nil.
OneSession ==
  \A n \in Session :
    consumePc[n] \in {"consume", "push", "report"}
      \/ errorsPc[n] \in {"range", "closed"} => n = consumer

\* Once Close goes on to close the reader's channels, no goroutine is left
\* that could send on them, though subscriptions may be left in the map.
ClosedQuiet ==
  owner \in {"closing", "closed"} =>
    /\ servePc = "done" /\ consumer = 0
    /\ \A n \in Session : consumePc[n] \in {"none", "done"}

\* A subscription that unsubscribes before it closes its channels (posts.go)
\* never has serve send on a closed channel: the process panics only by a
\* request to a reader that its owner has already closed.
PanicOnlyAfterClose == panic /\ CloseFirst = {} => owner = "closed"

\* Where offset o may be, if the message at u cannot be converted.
MayReach(o, u) == o # u /\ (newest < u => o < u)

\* A message that cannot be converted is handed to nobody, and a session that
\* begins at the end of the topic, before anything was committed, is all that
\* passes it over.  Unless one has, no offset from it on is marked or handed to
\* a subscription of any session, whatever is consumed again.
NothingSkipped ==
  \A u \in Unconvertible :
    /\ newest < u => marked < u
    /\ \A s \in Subs : MayReach(last[s], u)

\* With a healthy broker and readers that keep reading, a message serve can
\* take reaches every subscription that stays open.
Delivered ==
  \A s \in Subs, o \in 1..MaxMsg :
    sub[s] = "open" /\ messages = <<o>>
      ~> last[s] = o \/ sub[s] # "open" \/ owner # "open"

\* Closing a subscription completes (subscription.go: Close), unless the
\* reader is closed under it.
CloseReturns ==
  \A s \in Subs : sub[s] = "unsubReq" ~> sub[s] = "closed" \/ owner # "open"


\* Closing a subscription does not crash the process (subscription.go:
\* Close), while the reader itself is open.
CloseNeverPanics == panic => owner = "closed"

-----------------------------------------------------------------------------
(* What a subscriber is promised.                                          *)

FeedState ==
  [s \in Subs |-> CASE s \in subscriptions -> "on"
                   [] sub[s] \in {"unsubResp", "unsubbed", "closed"} -> "ended"
                   [] OTHER -> "off"]

Feed == INSTANCE StreamFeed WITH state <- FeedState, settled <- HasCommitted

\* Every subscription gets the messages of the stream in order (some may
\* repeat), from its subscribe to its unsubscribe and never after, without a
\* gap but for sessions that begin at the end before anything is committed.
ImplementsFeed == Feed!Spec

\* The record serve has in hand for a subscription.
InHand(s) == IF servePc = "dispatch" /\ s \in todo THEN <<item>> ELSE <<>>

\* Records on their way to it: in its channel, in hand, and in messagesChan.
OnTheWay(s) ==
  IF s \notin subscriptions \/ panic THEN <<>>
  ELSE records[s] \o InHand(s) \o messages

Queues == INSTANCE RecordQueue WITH
  Keys <- Subs,
  on <- [s \in Subs |-> s \in subscriptions /\ ~panic],
  queue <- [s \in Subs |-> OnTheWay(s)],
  next <- [s \in Subs |-> marked + 1],
  committed <- [s \in Subs |-> committed + 1],
  newest <- [s \in Subs |-> newest + 1]

\* On their way to a subscription records keep their order and none gets lost,
\* whoever else subscribes, unsubscribes or gets the same records, and whatever
\* is read again; they are as few as Publisher.tla assumes of its readers.
ImplementsQueues == Queues!Spec
=============================================================================
