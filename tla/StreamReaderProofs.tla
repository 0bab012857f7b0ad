------------------------- MODULE StreamReaderProofs -------------------------
(***************************************************************************)
(* Proofs about StreamReader, for any set of subscriptions, any topic      *)
(* length and any number of sessions.                                      *)
(***************************************************************************)
EXTENDS StreamReader, SequenceTheorems, TLAPS

Waiting == servePc \in {"waitConsume", "waitErrors"}

\* serve's loop variables are live only inside the loops over subscriptions.
LoopInv ==
  /\ todo # {} => servePc \in {"dispatch", "notify"}
  /\ servePc = "dispatch" => item >= 1

\* The map of subscriptions against the state of their users.
MapInv ==
  \A s \in Subs :
    /\ sub[s] \in {"open", "unsubReq"} => s \in subscriptions
    /\ s \in subscriptions => sub[s] \in {"subResp", "open", "unsubReq"}
    /\ sub[s] = "subResp" => (resp = "nil" <=> s \in subscriptions)

\* The consumer against the map, in the middle of a request too.
ConsumerInv ==
  /\ ConsumerIffSubscribed
  /\ servePc = "respond" =>
       IF cur = Nil THEN consumer = 0 ELSE consumer # 0 <=> subscriptions # {}
  /\ Waiting => consumer # 0 /\ (cur # Nil => subscriptions = {})
  /\ servePc = "done" => consumer = 0

\* The goroutines of the sessions.
SessionInv ==
  /\ OneSession
  /\ \A n \in Session :
       /\ n > session => consumePc[n] = "none" /\ errorsPc[n] = "none"
       /\ consumePc[n] = "push" => marked < MaxMsg
       /\ servePc = "waitErrors" /\ n = consumer => consumePc[n] = "done"

OwnerInv == servePc = "done" <=> owner \in {"closing", "closed"}

\* Which subscriptions may have closed channels.
ClosedInv ==
  \A s \in Subs :
    /\ errClosed[s] => sub[s] = "closed"
    /\ recordsClosed[s] =>
         \/ sub[s] = "closed"
         \/ s \in CloseFirst /\ sub[s] \in {"unsubReq", "unsubResp", "unsubbed"}

IInv ==
  /\ TypeOK /\ RequestResponse
  /\ LoopInv /\ MapInv /\ ConsumerInv /\ SessionInv /\ OwnerInv
  /\ ClosedInv /\ PanicOnlyAfterClose

\* Offset o is no gap behind offset p, but for one that reading began behind.
NoGap(p, o) == o <= p \/ o <= newest

\* Where the stream is: the mark, messagesChan, serve and each subscription
\* are never further apart than one message in the direction of a gap.
FeedInv ==
  /\ messages = <<>> => NoGap(item, marked)
  /\ messages # <<>> =>
       NoGap(messages[1], marked) /\ NoGap(item, messages[1] - 1)
  /\ \A s \in Subs :
       /\ sub[s] \in {"new", "subReq"} => last[s] = 0
       /\ ~panic /\ s \in subscriptions /\ last[s] # 0 =>
            IF servePc = "dispatch" /\ s \in todo THEN NoGap(last[s], item - 1)
                                                  ELSE item = last[s]

\* The stream up to the first message that cannot be converted and is not
\* passed over: only offsets before it are on their way to anybody.
BeforeInv ==
  /\ NothingSkipped
  /\ \A n \in Session : consumePc[n] = "push" => marked + 1 \notin Unconvertible
  /\ \A u \in Unconvertible :
       MayReach(item, u) /\ \A i \in 1..Len(messages) : MayReach(messages[i], u)

-----------------------------------------------------------------------------
\* The initial state satisfies the invariant.
LEMMA InitInv == ASSUME Init PROVE IInv
<1> USE NilAssumption, EnvAssumption, BoundAssumption
    DEF Session, Errs, MessagesCap, ErrCap, RecordsCap
<1> USE DEF IInv, TypeOK, CallersType, ServeType, GroupType, StreamType,
            ChannelsType, RequestResponse, Awaiting, LoopInv, MapInv,
            ConsumerInv, ConsumerIffSubscribed, Waiting, SessionInv, OneSession,
            OwnerInv, ClosedInv, PanicOnlyAfterClose
<1> USE DEF callerVars, serveVars, groupVars, topicVars, chanVars, Running,
           HasCommitted
<1>1. CallersType
  BY DEF Init
<1>6. ServeType
  BY DEF Init
<1>7. StreamType
  BY DEF Init
<1>5. GroupType
  BY DEF Init
<1>2. RequestResponse /\ LoopInv /\ MapInv /\ ConsumerInv
  BY DEF Init
<1>3. SessionInv /\ OwnerInv /\ ClosedInv /\ PanicOnlyAfterClose
  BY DEF Init
<1>4. ChannelsType
  BY DEF Init
<1> QED BY <1>1, <1>2, <1>3, <1>4, <1>5, <1>6, <1>7

\* Every step keeps the invariant: the callers and the reading goroutines.
LEMMA CallerStep ==
  ASSUME IInv, CallerNext \/ ReadingNext
  PROVE  IInv'
<1> USE NilAssumption, EnvAssumption, BoundAssumption
    DEF Session, Errs, MessagesCap, ErrCap, RecordsCap
<1> USE DEF IInv, TypeOK, CallersType, ServeType, GroupType, StreamType,
            ChannelsType, RequestResponse, Awaiting, LoopInv, MapInv,
            ConsumerInv, ConsumerIffSubscribed, Waiting, SessionInv, OneSession,
            OwnerInv, ClosedInv, PanicOnlyAfterClose
<1> USE DEF callerVars, serveVars, groupVars, topicVars, chanVars, Running,
           HasCommitted
<1>1. ASSUME NEW s \in Subs, NewSubscription(s) PROVE IInv'
  <2>1. (CallersType /\ ServeType /\ GroupType /\ StreamType /\ ChannelsType)'
    BY <1>1 DEF NewSubscription
  <2>2. (RequestResponse /\ LoopInv /\ MapInv /\ ConsumerInv)'
    BY <1>1 DEF NewSubscription
  <2>3. (SessionInv /\ OwnerInv /\ ClosedInv /\ PanicOnlyAfterClose)'
    BY <1>1 DEF NewSubscription
  <2> QED BY <2>1, <2>2, <2>3
<1>2. ASSUME NEW s \in Subs, CloseSubscription(s) PROVE IInv'
  <2>1. (CallersType /\ ServeType /\ GroupType /\ StreamType /\ ChannelsType)'
    BY <1>2 DEF CloseSubscription
  <2>2. (RequestResponse /\ LoopInv /\ MapInv /\ ConsumerInv)'
    BY <1>2 DEF CloseSubscription
  <2>3. (SessionInv /\ OwnerInv /\ ClosedInv /\ PanicOnlyAfterClose)'
    BY <1>2 DEF CloseSubscription
  <2> QED BY <2>1, <2>2, <2>3
<1>3. ASSUME NEW s \in Subs, FinishClose(s) PROVE IInv'
  <2>1. (CallersType /\ ServeType /\ GroupType /\ StreamType /\ ChannelsType)'
    BY <1>3 DEF FinishClose
  <2>2. (RequestResponse /\ LoopInv /\ MapInv /\ ConsumerInv)'
    BY <1>3 DEF FinishClose
  <2>3. (SessionInv /\ OwnerInv /\ ClosedInv /\ PanicOnlyAfterClose)'
    BY <1>3 DEF FinishClose
  <2> QED BY <2>1, <2>2, <2>3
<1>4. ASSUME NEW s \in Subs, RequestPanics(s) PROVE IInv'
  BY <1>4 DEF RequestPanics
<1>5. ASSUME CloseReader PROVE IInv'
  BY <1>5 DEF CloseReader
<1>6. ASSUME CloseChannels PROVE IInv'
  BY <1>6 DEF CloseChannels
<1>7. ASSUME NEW s \in Subs, TakeRecord(s) PROVE IInv'
  <2>1. (CallersType /\ ServeType /\ GroupType /\ StreamType)'
    BY <1>7 DEF TakeRecord
  <2>2. ChannelsType'
    <3>1. records[s] \in Seq(1..MaxMsg)
      OBVIOUS
    <3>2. Len(records[s]) <= 1 /\ records[s] # <<>>
      BY <1>7 DEF TakeRecord
    <3>3. Tail(records[s]) \in Seq(1..MaxMsg) /\ Len(Tail(records[s])) <= 1
      BY <3>1, <3>2
    <3>4. records' = [records EXCEPT ![s] = Tail(records[s])]
      BY <1>7 DEF TakeRecord
    <3>5. records' \in [Subs -> Seq(1..MaxMsg)]
      BY <3>3, <3>4
    <3>6. \A t \in Subs : Len(records'[t]) <= 1
      BY <3>3, <3>4
    <3>7. reading' \in [Subs -> BOOLEAN]
      <4>1. /\ reading \in [Subs -> BOOLEAN]
            /\ reading' \in {reading, [reading EXCEPT ![s] = s \notin MayQuit]}
        BY <1>7 DEF TakeRecord
      <4>2. (s \notin MayQuit) \in BOOLEAN
        OBVIOUS
      <4>3. [reading EXCEPT ![s] = s \notin MayQuit] \in [Subs -> BOOLEAN]
        BY <4>1, <4>2, Zenon
      <4> QED BY <4>1, <4>3
    <3> QED BY <1>7, <3>5, <3>6, <3>7 DEF TakeRecord
  <2>3. (RequestResponse /\ LoopInv /\ MapInv)'
    BY <1>7 DEF TakeRecord
  <2>4. ConsumerInv' BY <1>7 DEF TakeRecord
  <2>5. (SessionInv /\ OwnerInv /\ ClosedInv /\ PanicOnlyAfterClose)'
    BY <1>7 DEF TakeRecord
  <2> QED BY <2>1, <2>2, <2>3, <2>4, <2>5
<1>8. ASSUME NEW s \in Subs, SeeClosed(s) PROVE IInv'
  BY <1>8 DEF SeeClosed
<1> QED BY <1>1, <1>2, <1>3, <1>4, <1>5, <1>6, <1>7, <1>8 DEF CallerNext, ReadingNext

\* The serve loop.
LEMMA ServeStep ==
  ASSUME IInv, ServeNext
  PROVE  IInv'
<1> USE NilAssumption, EnvAssumption, BoundAssumption
    DEF Session, Errs, MessagesCap, ErrCap, RecordsCap
<1> USE DEF IInv, TypeOK, CallersType, ServeType, GroupType, StreamType,
            ChannelsType, RequestResponse, Awaiting, LoopInv, MapInv,
            ConsumerInv, ConsumerIffSubscribed, Waiting, SessionInv, OneSession,
            OwnerInv, ClosedInv, PanicOnlyAfterClose
<1> USE DEF callerVars, serveVars, groupVars, topicVars, chanVars, Running,
           HasCommitted
<1>1. ASSUME ServeClose PROVE IInv'
  <2>1. (CallersType /\ ServeType /\ StreamType /\ ChannelsType)'
    BY <1>1 DEF ServeClose, BeginStop
  <2>2. GroupType'
    <3>1. CASE consumer = 0
      BY <1>1, <3>1 DEF ServeClose, BeginStop
    <3>2. CASE consumer # 0
      <4>1. consumer \in 1..session
        BY <3>2
      <4>2. ctxDone' = ctxDone \union {consumer}
        BY <1>1, <3>2 DEF ServeClose, BeginStop
      <4> QED BY <1>1, <4>1, <4>2 DEF ServeClose
    <3> QED BY <3>1, <3>2
  <2>3. (RequestResponse /\ LoopInv /\ MapInv /\ ConsumerInv)'
    BY <1>1 DEF ServeClose, BeginStop
  <2>4. (SessionInv /\ OwnerInv /\ ClosedInv /\ PanicOnlyAfterClose)'
    BY <1>1 DEF ServeClose, BeginStop
  <2> QED BY <2>1, <2>2, <2>3, <2>4
<1>2. ASSUME StopConsumer PROVE IInv'
  BY <1>2 DEF StopConsumer
<1>3. ASSUME StopDone PROVE IInv'
  BY <1>3 DEF StopDone
<1>4. ASSUME ServeMessage PROVE IInv'
  <2>1. CallersType' BY <1>4 DEF ServeMessage
  <2>2. ServeType' BY <1>4 DEF ServeMessage
  <2>3. GroupType' BY <1>4 DEF ServeMessage
  <2>4. StreamType' BY <1>4 DEF ServeMessage
  <2>5. ChannelsType' BY <1>4 DEF ServeMessage
  <2>6. (RequestResponse /\ LoopInv /\ MapInv /\ ConsumerInv)'
    <3>1. messages \in Seq(1..MaxMsg) /\ messages # <<>>
      BY <1>4 DEF ServeMessage
    <3>2. Head(messages) >= 1
      BY <3>1
    <3> QED BY <1>4, <3>2 DEF ServeMessage
  <2>7. (SessionInv /\ OwnerInv /\ ClosedInv /\ PanicOnlyAfterClose)'
    BY <1>4 DEF ServeMessage
  <2> QED BY <2>1, <2>2, <2>3, <2>4, <2>5, <2>6, <2>7
<1>5. ASSUME ServeErr PROVE IInv'
  <2>1. CallersType' BY <1>5 DEF ServeErr
  <2>2. ServeType' BY <1>5 DEF ServeErr
  <2>3. GroupType' BY <1>5 DEF ServeErr
  <2>4. StreamType' BY <1>5 DEF ServeErr
  <2>5. ChannelsType' BY <1>5 DEF ServeErr
  <2>6. (RequestResponse /\ LoopInv /\ MapInv /\ ConsumerInv)'
    BY <1>5 DEF ServeErr
  <2>7. (SessionInv /\ OwnerInv /\ ClosedInv /\ PanicOnlyAfterClose)'
    BY <1>5 DEF ServeErr
  <2> QED BY <2>1, <2>2, <2>3, <2>4, <2>5, <2>6, <2>7
<1>6. ASSUME NEW s \in Subs, ServeSubscribe(s) PROVE IInv'
  <2>0. StreamType'
    <3>1. UNCHANGED <<messages, errs>> /\ (UNCHANGED topicVars \/ BeginAtEnd)
      BY <1>6 DEF ServeSubscribe, Start
    <3> QED BY <3>1 DEF BeginAtEnd
  <2>1. (CallersType /\ ServeType /\ ChannelsType)'
    BY <1>6 DEF ServeSubscribe
  <2>2. GroupType'
    <3>1. CASE consumer # 0 \/ resp' = "error"
      BY <1>6, <3>1 DEF ServeSubscribe, Start, BeginAtEnd
    <3>2. CASE consumer = 0 /\ resp' = "nil"
      <4>1. Start
        BY <1>6, <3>2 DEF ServeSubscribe
      <4>2. /\ session + 1 \in Session
            /\ session' = session + 1 /\ consumer' = session + 1
        BY <4>1 DEF Start
      <4>3. /\ consumePc' \in [Session -> {"none", "consume", "push", "report",
                                      "done"}]
            /\ errorsPc' \in [Session -> {"none", "range", "closed", "done"}]
        BY <4>1, <4>2 DEF Start
      <4>4. ctxDone' = ctxDone /\ report' = report
        BY <1>6 DEF ServeSubscribe
      <4> QED BY <4>2, <4>3, <4>4
    <3> QED BY <1>6, <3>1, <3>2 DEF ServeSubscribe
  <2>3. RequestResponse' BY <1>6 DEF ServeSubscribe, Start, BeginAtEnd
  <2>4. LoopInv' BY <1>6 DEF ServeSubscribe, Start, BeginAtEnd
  <2>5. MapInv' BY <1>6 DEF ServeSubscribe, Start, BeginAtEnd
  <2>6. ConsumerInv'
    <3>1. CASE consumer # 0
      BY <1>6, <3>1 DEF ServeSubscribe, Start, BeginAtEnd
    <3>2. CASE consumer = 0 /\ resp' = "nil"
      <4>1. Start /\ subscriptions' = subscriptions \union {s}
        BY <1>6, <3>2 DEF ServeSubscribe
      <4> QED BY <1>6, <3>2, <4>1 DEF ServeSubscribe, Start, BeginAtEnd
    <3>3. CASE consumer = 0 /\ resp' = "error"
      BY <1>6, <3>3 DEF ServeSubscribe, Start, BeginAtEnd
    <3> QED BY <1>6, <3>1, <3>2, <3>3 DEF ServeSubscribe
  <2>7. SessionInv'
    <3>1. CASE UNCHANGED <<session, consumer, consumePc, errorsPc, marked>>
      BY <1>6, <3>1 DEF ServeSubscribe
    <3>2. CASE consumer = 0 /\ Start
      <4>1. \A n \in Session :
              /\ consumePc[n] \notin {"consume", "push", "report"}
              /\ errorsPc[n] \notin {"range", "closed"}
        BY <3>2
      <4>2. /\ session' = session + 1 /\ consumer' = session + 1
            /\ consumePc' = [consumePc EXCEPT ![session + 1] = "consume"]
            /\ errorsPc' = [errorsPc EXCEPT ![session + 1] = "range"]
        BY <3>2 DEF Start
      <4>3. servePc' = "respond"
        BY <1>6 DEF ServeSubscribe
      <4>4. /\ consumePc \in [Session -> {"none", "consume", "push", "report",
                                          "done"}]
            /\ errorsPc \in [Session -> {"none", "range", "closed", "done"}]
            /\ session \in Nat
        OBVIOUS
      <4>5. \A n \in Session :
              IF n = session + 1
              THEN consumePc'[n] = "consume" /\ errorsPc'[n] = "range"
              ELSE consumePc'[n] = consumePc[n] /\ errorsPc'[n] = errorsPc[n]
        BY <4>2, <4>4
      <4>6. \A n \in Session :
              n > session + 1 => consumePc[n] = "none" /\ errorsPc[n] = "none"
        BY <4>4
      <4> HIDE DEF IInv
      <4>7. \A n \in Session :
              consumePc'[n] \in {"consume", "push", "report"}
                \/ errorsPc'[n] \in {"range", "closed"} => n = session + 1
        BY <4>1, <4>5
      <4>8. \A n \in Session :
              /\ n > session + 1 =>
                   consumePc'[n] = "none" /\ errorsPc'[n] = "none"
              /\ consumePc'[n] # "push"
        BY <4>1, <4>4, <4>5, <4>6
      <4> QED BY <4>2, <4>3, <4>7, <4>8
    <3> QED BY <1>6, <3>1, <3>2 DEF ServeSubscribe
  <2>8. (OwnerInv /\ PanicOnlyAfterClose)'
    BY <1>6 DEF ServeSubscribe
  <2>9. ClosedInv'
    <3>1. /\ sub[s] = "subReq" /\ sub' = [sub EXCEPT ![s] = "subResp"]
          /\ UNCHANGED <<errClosed, recordsClosed>>
      BY <1>6 DEF ServeSubscribe
    <3>2. \A t \in Subs : t # s => sub'[t] = sub[t]
      BY <3>1
    <3>3. ~errClosed[s] /\ ~recordsClosed[s]
      BY <3>1
    <3> QED BY <3>1, <3>2, <3>3
  <2> QED BY <2>0, <2>1, <2>2, <2>3, <2>4, <2>5, <2>6, <2>7, <2>8, <2>9
<1>7. ASSUME NEW s \in Subs, ServeUnsubscribe(s) PROVE IInv'
  <2>1. (CallersType /\ ServeType /\ StreamType /\ ChannelsType)'
    BY <1>7 DEF ServeUnsubscribe, BeginStop
  <2>2. GroupType'
    <3>1. consumer \in 1..session
      BY <1>7 DEF ServeUnsubscribe
    <3>2. ctxDone' \subseteq ctxDone \union {consumer}
      BY <1>7 DEF ServeUnsubscribe, BeginStop
    <3> QED BY <1>7, <3>1, <3>2 DEF ServeUnsubscribe
  <2>3. (RequestResponse /\ LoopInv)'
    BY <1>7 DEF ServeUnsubscribe, BeginStop
  <2>5. (MapInv /\ ConsumerInv)'
    BY <1>7 DEF ServeUnsubscribe, BeginStop
  <2>4. (SessionInv /\ OwnerInv /\ ClosedInv /\ PanicOnlyAfterClose)'
    BY <1>7 DEF ServeUnsubscribe, BeginStop
  <2> QED BY <2>1, <2>2, <2>3, <2>4, <2>5
<1>8. ASSUME NEW s \in Subs, Handle(s) PROVE IInv'
  <2>1. (CallersType /\ ServeType /\ GroupType /\ StreamType)'
    BY <1>8 DEF Handle, Handed
  <2>2. ChannelsType'
    <3>1. CASE recordsClosed[s]
      BY <1>8, <3>1 DEF Handle, Handed
    <3>2. CASE ~recordsClosed[s]
      <4>1. records[s] \in Seq(1..MaxMsg) /\ Len(records[s]) = 0
        BY <1>8, <3>2 DEF Handle, Handed
      <4>2. item \in 1..MaxMsg
        BY <1>8 DEF Handle
      <4>3. /\ Append(records[s], item) \in Seq(1..MaxMsg)
            /\ Len(Append(records[s], item)) = 1
        BY <4>1, <4>2
      <4>4. records' = [records EXCEPT ![s] = Append(records[s], item)]
        BY <1>8, <3>2 DEF Handle
      <4>5. /\ records' \in [Subs -> Seq(1..MaxMsg)]
            /\ \A t \in Subs : Len(records'[t]) <= 1
        BY <4>3, <4>4
      <4>6. last' \in [Subs -> 0..MaxMsg]
        BY <1>8, <4>2 DEF Handle
      <4> QED BY <1>8, <4>5, <4>6 DEF Handle
    <3> QED BY <3>1, <3>2
  <2>3. (RequestResponse /\ LoopInv /\ MapInv /\ ConsumerInv)'
    BY <1>8 DEF Handle, Handed
  <2>4. (SessionInv /\ OwnerInv /\ ClosedInv /\ PanicOnlyAfterClose)'
    BY <1>8 DEF Handle, Handed
  <2> QED BY <2>1, <2>2, <2>3, <2>4
<1>9. ASSUME NEW s \in Subs, Notify(s) PROVE IInv'
  <2>1. (CallersType /\ ServeType /\ GroupType /\ StreamType /\ ChannelsType)'
    BY <1>9 DEF Notify, Handed, Started
  <2>2. (RequestResponse /\ LoopInv /\ MapInv /\ ConsumerInv)'
    BY <1>9 DEF Notify, Handed, Started
  <2>3. (SessionInv /\ OwnerInv /\ ClosedInv /\ PanicOnlyAfterClose)'
    BY <1>9 DEF Notify, Handed, Started
  <2> QED BY <2>1, <2>2, <2>3
<1>10. ASSUME NEW c \in Subs \union {Nil}, Respond(c) PROVE IInv'
  <2>1. CallersType'
    <3>1. Answered(c, resp) \in {"unsubbed", "open", "failed"}
      BY DEF Answered
    <3>2. CASE c = Nil
      BY <1>10, <3>2 DEF Respond
    <3>3. CASE c # Nil
      <4>1. c \in Subs /\ sub' = [sub EXCEPT ![c] = Answered(c, resp)]
        BY <1>10, <3>3 DEF Respond
      <4> QED BY <1>10, <3>1, <4>1 DEF Respond
    <3> QED BY <3>2, <3>3
  <2>2. (ServeType /\ GroupType /\ StreamType /\ ChannelsType)'
    BY <1>10 DEF Respond, Answered
  <2>3. RequestResponse'
    <3>1. CASE c = Nil
      BY <1>10, <3>1 DEF Respond
    <3>2. CASE c # Nil
      <4>1. c = cur /\ c \in Subs /\ owner # "closeResp"
        BY <1>10, <3>2 DEF Respond
      <4>2. \A t \in Subs \ {c} : sub[t] \notin {"subResp", "unsubResp"}
        BY <1>10, <4>1 DEF Respond
      <4>3. Answered(c, resp) \notin {"subResp", "unsubResp"}
        BY DEF Answered
      <4>4. sub' = [sub EXCEPT ![c] = Answered(c, resp)] /\ owner' = owner
        BY <1>10, <3>2 DEF Respond
      <4>5. Awaiting' = {}
        BY <4>1, <4>2, <4>3, <4>4
      <4>6. servePc' \in {"select", "done"}
        BY <1>10 DEF Respond
      <4> QED BY <4>5, <4>6
    <3> QED BY <3>1, <3>2
  <2>4. LoopInv' BY <1>10 DEF Respond, Answered
  <2>5. MapInv' BY <1>10 DEF Respond, Answered
  <2>6. ConsumerInv' BY <1>10 DEF Respond, Answered
  <2>7. SessionInv' BY <1>10 DEF Respond, Answered
  <2>8. OwnerInv' BY <1>10 DEF Respond, Answered
  <2>9. ClosedInv' BY <1>10 DEF Respond, Answered
  <2>10. PanicOnlyAfterClose' BY <1>10 DEF Respond, Answered
  <2> QED BY <2>1, <2>2, <2>3, <2>4, <2>5, <2>6, <2>7, <2>8, <2>9, <2>10
<1> QED BY <1>1, <1>2, <1>3, <1>4, <1>5, <1>6, <1>7, <1>8, <1>9, <1>10 DEF ServeNext

\* The goroutines of a session and the consumer group.
LEMMA GroupStep ==
  ASSUME IInv, GroupNext
  PROVE  IInv'
<1> USE NilAssumption, EnvAssumption, BoundAssumption
    DEF Session, Errs, MessagesCap, ErrCap, RecordsCap
<1> USE DEF IInv, TypeOK, CallersType, ServeType, GroupType, StreamType,
            ChannelsType, RequestResponse, Awaiting, LoopInv, MapInv,
            ConsumerInv, ConsumerIffSubscribed, Waiting, SessionInv, OneSession,
            OwnerInv, ClosedInv, PanicOnlyAfterClose
<1> USE DEF callerVars, serveVars, groupVars, topicVars, chanVars, Running,
           HasCommitted
<1>1. ASSUME NEW n \in Session, Fetch(n) PROVE IInv'
  <2>1. (CallersType /\ ServeType /\ GroupType /\ StreamType /\ ChannelsType)'
    BY <1>1 DEF Fetch
  <2>2. (RequestResponse /\ LoopInv /\ MapInv /\ ConsumerInv)'
    BY <1>1 DEF Fetch
  <2>3. (SessionInv /\ OwnerInv /\ ClosedInv /\ PanicOnlyAfterClose)'
    BY <1>1 DEF Fetch
  <2> QED BY <2>1, <2>2, <2>3
<1>2. ASSUME NEW n \in Session, Push(n) PROVE IInv'
  <2>1. (CallersType /\ ServeType /\ GroupType /\ ChannelsType)'
    BY <1>2 DEF Push
  <2>2. StreamType' BY <1>2 DEF Push
  <2>3. (RequestResponse /\ LoopInv /\ MapInv /\ ConsumerInv)'
    BY <1>2 DEF Push
  <2>4. SessionInv'
    <3>1. /\ consumePc[n] = "push" /\ n = consumer
          /\ consumePc' = [consumePc EXCEPT ![n] = "consume"]
          /\ UNCHANGED <<servePc, consumer, session, errorsPc>>
      BY <1>2 DEF Push
    <3>2. consumePc'[n] = "consume"
          /\ \A k \in Session \ {n} : consumePc'[k] = consumePc[k]
      BY <3>1
    <3>3. \A k \in Session \ {n} : consumePc[k] # "push"
      BY <3>1
    <3> QED BY <3>1, <3>2, <3>3
  <2>5. (OwnerInv /\ ClosedInv /\ PanicOnlyAfterClose)'
    BY <1>2 DEF Push
  <2> QED BY <2>1, <2>2, <2>3, <2>4, <2>5
<1>3. ASSUME NEW n \in Session, ConsumeAgain(n) PROVE IInv'
  <2>1. (CallersType /\ ServeType /\ GroupType /\ ChannelsType)'
    BY <1>3 DEF ConsumeAgain
  <2>2. StreamType'
    BY <1>3 DEF ConsumeAgain, EndGroupSession, BeginAtEnd
  <2>3. (RequestResponse /\ LoopInv /\ MapInv /\ ConsumerInv)'
    BY <1>3 DEF ConsumeAgain
  <2>4. SessionInv'
    <3>1. /\ UNCHANGED <<servePc, groupVars>> /\ consumePc[n] = "consume"
          /\ n = consumer
      BY <1>3 DEF ConsumeAgain
    <3> QED BY <3>1
  <2>5. (OwnerInv /\ ClosedInv /\ PanicOnlyAfterClose)'
    BY <1>3 DEF ConsumeAgain
  <2> QED BY <2>1, <2>2, <2>3, <2>4, <2>5
<1>4. ASSUME NEW n \in Session, ConsumeReturn(n) PROVE IInv'
  <2>1. (CallersType /\ ServeType /\ ChannelsType)'
    BY <1>4 DEF ConsumeReturn, EndGroupSession
  <2>2. GroupType' BY <1>4 DEF ConsumeReturn, EndGroupSession
  <2>3. StreamType' BY <1>4 DEF ConsumeReturn, EndGroupSession
  <2>4. (RequestResponse /\ LoopInv /\ MapInv /\ ConsumerInv)'
    BY <1>4 DEF ConsumeReturn, EndGroupSession
  <2>5. (SessionInv /\ OwnerInv /\ ClosedInv /\ PanicOnlyAfterClose)'
    BY <1>4 DEF ConsumeReturn, EndGroupSession
  <2> QED BY <2>1, <2>2, <2>3, <2>4, <2>5
<1>5. ASSUME NEW n \in Session, Report(n) PROVE IInv'
  <2>1. (CallersType /\ ServeType /\ GroupType /\ ChannelsType)'
    BY <1>5 DEF Report
  <2>2. StreamType' BY <1>5 DEF Report
  <2>3. (RequestResponse /\ LoopInv /\ MapInv /\ ConsumerInv)'
    BY <1>5 DEF Report
  <2>4. (SessionInv /\ OwnerInv /\ ClosedInv /\ PanicOnlyAfterClose)'
    BY <1>5 DEF Report
  <2> QED BY <2>1, <2>2, <2>3, <2>4
<1>6. ASSUME NEW n \in Session, ErrorsEnd(n) PROVE IInv'
  <2>1. (CallersType /\ ServeType /\ GroupType /\ StreamType /\ ChannelsType)'
    BY <1>6 DEF ErrorsEnd
  <2>2. (RequestResponse /\ LoopInv /\ MapInv /\ ConsumerInv)'
    BY <1>6 DEF ErrorsEnd
  <2>3. (SessionInv /\ OwnerInv /\ ClosedInv /\ PanicOnlyAfterClose)'
    BY <1>6 DEF ErrorsEnd
  <2> QED BY <2>1, <2>2, <2>3
<1> QED BY <1>1, <1>2, <1>3, <1>4, <1>5, <1>6 DEF GroupNext

\* Every step of the reader keeps the invariant.
LEMMA InvStep == ASSUME IInv, [Next]_vars PROVE IInv'
<1>1. ASSUME UNCHANGED vars PROVE IInv'
  <2> USE <1>1 DEF vars, callerVars, serveVars, groupVars, topicVars, chanVars
  <2>1. TypeOK'
    BY DEF IInv, TypeOK, CallersType, ServeType, GroupType, StreamType,
           ChannelsType
  <2>2. (RequestResponse /\ LoopInv /\ MapInv /\ ConsumerInv)'
    BY DEF IInv, RequestResponse, Awaiting, LoopInv, MapInv, ConsumerInv,
           ConsumerIffSubscribed, Waiting
  <2>3. (SessionInv /\ OwnerInv /\ ClosedInv /\ PanicOnlyAfterClose)'
    BY DEF IInv, SessionInv, OneSession, OwnerInv, ClosedInv,
           PanicOnlyAfterClose
  <2> QED BY <2>1, <2>2, <2>3 DEF IInv
<1> QED BY <1>1, CallerStep, ServeStep, GroupStep DEF Next

\* The invariant holds in every state.
LEMMA Invariance == Spec => []IInv
<1>1. Init => IInv
  BY InitInv
<1>2. IInv /\ [Next]_vars => IInv'
  BY InvStep
<1> QED BY <1>1, <1>2, PTL DEF Spec

\* The types and capacities of the reader's state hold in every state.
THEOREM TypeCorrect == Spec => []TypeOK
<1>1. IInv => TypeOK
  BY DEF IInv
<1> QED BY <1>1, Invariance, PTL

\* A response always goes to the caller whose request it answers.
THEOREM ResponsesMatch == Spec => []RequestResponse
<1>1. IInv => RequestResponse
  BY DEF IInv
<1> QED BY <1>1, Invariance, PTL

\* The consumer is open exactly while somebody subscribes.
THEOREM ConsumerOpen == Spec => []ConsumerIffSubscribed
<1>1. IInv => ConsumerIffSubscribed
  BY DEF IInv, ConsumerInv
<1> QED BY <1>1, Invariance, PTL

\* No goroutine of an older session runs beside the open one.
THEOREM SessionsDoNotOverlap == Spec => []OneSession
<1>1. IInv => OneSession
  BY DEF IInv, SessionInv
<1> QED BY <1>1, Invariance, PTL

\* After Close nothing is left that could send on the closed channels.
THEOREM QuietAfterClose == Spec => []ClosedQuiet
<1>1. IInv => ClosedQuiet
  <2> SUFFICES ASSUME IInv, owner \in {"closing", "closed"}
               PROVE  /\ servePc = "done" /\ consumer = 0
                      /\ \A n \in Session : consumePc[n] \in {"none", "done"}
    BY DEF ClosedQuiet
  <2>1. servePc = "done" /\ consumer = 0
    BY DEF IInv, OwnerInv, ConsumerInv
  <2>2. ASSUME NEW n \in Session PROVE consumePc[n] \in {"none", "done"}
    BY <2>1 DEF IInv, TypeOK, GroupType, SessionInv, OneSession, Session
  <2> QED BY <2>1, <2>2
<1> QED BY <1>1, Invariance, PTL

\* Where a subscription unsubscribes before it closes its channels, only a
\* request to a closed reader panics.
THEOREM NoPanicWhileOpen == Spec => []PanicOnlyAfterClose
<1>1. IInv => PanicOnlyAfterClose
  BY DEF IInv
<1> QED BY <1>1, Invariance, PTL

-----------------------------------------------------------------------------
(* The feed: what is handed to a subscriber.                               *)

\* Nothing has been handed to anybody at first.
LEMMA FeedInit == ASSUME Init PROVE FeedInv
  BY BoundAssumption DEF Init, FeedInv, NoGap

\* Every step keeps what relates the last message handed to a subscription
\* to the messages on their way to it.
LEMMA FeedStep == ASSUME IInv, FeedInv, [Next]_vars PROVE FeedInv'
<1> USE NilAssumption, EnvAssumption, BoundAssumption
    DEF Session, Errs, MessagesCap, ErrCap, RecordsCap
<1> USE DEF callerVars, serveVars, groupVars, topicVars, chanVars, Running,
           HasCommitted
<1> USE DEF FeedInv, NoGap, IInv, TypeOK, CallersType, ServeType, StreamType,
            ChannelsType, LoopInv, MapInv
<1>1. ASSUME NEW s \in Subs, NewSubscription(s) PROVE FeedInv'
  BY <1>1 DEF NewSubscription
<1>2. ASSUME NEW s \in Subs, CloseSubscription(s) PROVE FeedInv'
  BY <1>2 DEF CloseSubscription
<1>3. ASSUME NEW s \in Subs, FinishClose(s) PROVE FeedInv'
  BY <1>3 DEF FinishClose
<1>4. ASSUME NEW s \in Subs, RequestPanics(s) PROVE FeedInv'
  BY <1>4 DEF RequestPanics
<1>5. ASSUME NEW s \in Subs, TakeRecord(s) PROVE FeedInv'
  BY <1>5 DEF TakeRecord
<1>6. ASSUME NEW s \in Subs, SeeClosed(s) PROVE FeedInv'
  BY <1>6 DEF SeeClosed
<1>7. ASSUME NEW s \in Subs, ServeSubscribe(s) PROVE FeedInv'
  BY <1>7 DEF ServeSubscribe, Start, BeginAtEnd
<1>8. ASSUME NEW s \in Subs, ServeUnsubscribe(s) PROVE FeedInv'
  BY <1>8 DEF ServeUnsubscribe, BeginStop
<1>9. ASSUME NEW s \in Subs, Handle(s) PROVE FeedInv'
  BY <1>9 DEF Handle, Handed
<1>10. ASSUME NEW s \in Subs, Notify(s) PROVE FeedInv'
  BY <1>10 DEF Notify, Handed
<1>11. ASSUME CloseReader PROVE FeedInv'
  BY <1>11 DEF CloseReader
<1>12. ASSUME CloseChannels PROVE FeedInv'
  BY <1>12 DEF CloseChannels
<1>13. ASSUME ServeClose PROVE FeedInv'
  BY <1>13 DEF ServeClose, BeginStop
<1>14. ASSUME StopConsumer PROVE FeedInv'
  BY <1>14 DEF StopConsumer
<1>15. ASSUME StopDone PROVE FeedInv'
  BY <1>15 DEF StopDone
<1>16. ASSUME ServeMessage PROVE FeedInv'
  BY <1>16 DEF ServeMessage
<1>17. ASSUME ServeErr PROVE FeedInv'
  BY <1>17 DEF ServeErr
<1>18. ASSUME NEW c \in Subs \union {Nil}, Respond(c) PROVE FeedInv'
  BY <1>18 DEF Respond, Answered
<1>19. ASSUME NEW n \in Session, Fetch(n) PROVE FeedInv'
  BY <1>19 DEF Fetch
<1>20. ASSUME NEW n \in Session, Push(n) PROVE FeedInv'
  BY <1>20 DEF Push
<1>21. ASSUME NEW n \in Session, ConsumeAgain(n) PROVE FeedInv'
  BY <1>21 DEF ConsumeAgain, EndGroupSession, BeginAtEnd
<1>22. ASSUME NEW n \in Session, ConsumeReturn(n) PROVE FeedInv'
  BY <1>22 DEF ConsumeReturn, EndGroupSession
<1>23. ASSUME NEW n \in Session, Report(n) PROVE FeedInv'
  BY <1>23 DEF Report
<1>24. ASSUME NEW n \in Session, ErrorsEnd(n) PROVE FeedInv'
  BY <1>24 DEF ErrorsEnd
<1>25. CASE UNCHANGED vars
  BY <1>25 DEF vars
<1> QED BY <1>1, <1>2, <1>3, <1>4, <1>5, <1>6, <1>7, <1>8, <1>9, <1>10, <1>11,
       <1>12, <1>13, <1>14, <1>15, <1>16, <1>17, <1>18, <1>19, <1>20, <1>21,
       <1>22, <1>23, <1>24, <1>25 DEF Next, CallerNext, ReadingNext,
       ServeNext, GroupNext

\* Both invariants hold in every state.
LEMMA FeedInvariance == Spec => [](IInv /\ FeedInv)
<1>1. Init => FeedInv
  BY FeedInit
<1>2. IInv /\ FeedInv /\ [Next]_vars => FeedInv'
  BY FeedStep
<1> QED BY <1>1, <1>2, Invariance, PTL DEF Spec

\* No step passes over a message that cannot be converted.
LEMMA BeforeStep == ASSUME IInv, BeforeInv, [Next]_vars PROVE BeforeInv'
<1> USE NilAssumption, EnvAssumption, BoundAssumption, UnconvertibleAssumption
    DEF Session, Errs, MessagesCap, ErrCap, RecordsCap
<1> USE DEF callerVars, serveVars, groupVars, topicVars, chanVars, Running,
           HasCommitted
<1> USE DEF BeforeInv, NothingSkipped, MayReach, IInv, TypeOK, CallersType, ServeType, StreamType,
            ChannelsType, LoopInv, SessionInv, OneSession
<1>1. ASSUME NEW s \in Subs, NewSubscription(s) PROVE BeforeInv'
  BY <1>1 DEF NewSubscription
<1>2. ASSUME NEW s \in Subs, CloseSubscription(s) PROVE BeforeInv'
  BY <1>2 DEF CloseSubscription
<1>3. ASSUME NEW s \in Subs, FinishClose(s) PROVE BeforeInv'
  BY <1>3 DEF FinishClose
<1>4. ASSUME NEW s \in Subs, RequestPanics(s) PROVE BeforeInv'
  BY <1>4 DEF RequestPanics
<1>5. ASSUME NEW s \in Subs, TakeRecord(s) PROVE BeforeInv'
  BY <1>5 DEF TakeRecord
<1>6. ASSUME NEW s \in Subs, SeeClosed(s) PROVE BeforeInv'
  BY <1>6 DEF SeeClosed
<1>7. ASSUME NEW s \in Subs, ServeSubscribe(s) PROVE BeforeInv'
  <2>1. UNCHANGED <<item, messages, last>>
    BY <1>7 DEF ServeSubscribe
  <2>2. CASE UNCHANGED <<topicVars, consumePc>>
    BY <2>1, <2>2
  <2>3. CASE consumer = 0 /\ Start
    <3>1. consumePc \in [Session -> {"none", "consume", "push", "report",
                                    "done"}]
      BY DEF GroupType
    <3>2. \A n \in Session : consumePc[n] # "push"
      BY <2>3
    <3>3. \A n \in Session : consumePc'[n] # "push"
      BY <2>3, <3>1, <3>2 DEF Start
    <3>4. UNCHANGED topicVars \/ BeginAtEnd
      BY <2>3 DEF Start
    <3>5. CASE UNCHANGED topicVars
      BY <2>1, <3>3, <3>5
    <3>6. CASE BeginAtEnd
      BY <2>1, <3>3, <3>6 DEF BeginAtEnd
    <3> QED BY <3>4, <3>5, <3>6
  <2> QED BY <1>7, <2>2, <2>3 DEF ServeSubscribe
<1>8. ASSUME NEW s \in Subs, ServeUnsubscribe(s) PROVE BeforeInv'
  BY <1>8 DEF ServeUnsubscribe, BeginStop
<1>9. ASSUME NEW s \in Subs, Handle(s) PROVE BeforeInv'
  BY <1>9 DEF Handle, Handed
<1>10. ASSUME NEW s \in Subs, Notify(s) PROVE BeforeInv'
  BY <1>10 DEF Notify, Handed
<1>11. ASSUME CloseReader PROVE BeforeInv'
  BY <1>11 DEF CloseReader
<1>12. ASSUME CloseChannels PROVE BeforeInv'
  BY <1>12 DEF CloseChannels
<1>13. ASSUME ServeClose PROVE BeforeInv'
  BY <1>13 DEF ServeClose, BeginStop
<1>14. ASSUME StopConsumer PROVE BeforeInv'
  BY <1>14 DEF StopConsumer
<1>15. ASSUME StopDone PROVE BeforeInv'
  BY <1>15 DEF StopDone
<1>16. ASSUME ServeMessage PROVE BeforeInv'
  BY <1>16 DEF ServeMessage
<1>17. ASSUME ServeErr PROVE BeforeInv'
  BY <1>17 DEF ServeErr
<1>18. ASSUME NEW c \in Subs \union {Nil}, Respond(c) PROVE BeforeInv'
  BY <1>18 DEF Respond, Answered
<1>19. ASSUME NEW n \in Session, Fetch(n) PROVE BeforeInv'
  BY <1>19 DEF Fetch
<1>20. ASSUME NEW n \in Session, Push(n) PROVE BeforeInv'
  <2>1. messages = <<>> /\ messages' = <<marked + 1>> /\ marked' = marked + 1
    <3>1. messages \in Seq(1..MaxMsg) /\ Len(messages) = 0
      BY <1>20 DEF Push
    <3>2. messages = <<>>
      BY <3>1
    <3> QED BY <1>20, <3>2 DEF Push
  <2>2. \A u \in Unconvertible : MayReach(marked + 1, u)
    BY <1>20 DEF Push
  <2>3. n = consumer /\ consumePc' = [consumePc EXCEPT ![n] = "consume"]
    BY <1>20 DEF Push
  <2>4. \A k \in Session : consumePc'[k] # "push"
    <3>1. consumePc \in [Session -> {"none", "consume", "push", "report",
                                    "done"}]
      BY DEF GroupType
    <3> QED BY <2>3, <3>1
  <2>5. UNCHANGED <<item, last, newest>>
    BY <1>20 DEF Push
  <2> QED BY <2>1, <2>2, <2>4, <2>5
<1>21. ASSUME NEW n \in Session, ConsumeAgain(n) PROVE BeforeInv'
  BY <1>21 DEF ConsumeAgain, EndGroupSession, BeginAtEnd
<1>22. ASSUME NEW n \in Session, ConsumeReturn(n) PROVE BeforeInv'
  BY <1>22 DEF ConsumeReturn, EndGroupSession
<1>23. ASSUME NEW n \in Session, Report(n) PROVE BeforeInv'
  BY <1>23 DEF Report
<1>24. ASSUME NEW n \in Session, ErrorsEnd(n) PROVE BeforeInv'
  BY <1>24 DEF ErrorsEnd
<1>25. CASE UNCHANGED vars
  BY <1>25 DEF vars
<1> QED BY <1>1, <1>2, <1>3, <1>4, <1>5, <1>6, <1>7, <1>8, <1>9, <1>10, <1>11,
       <1>12, <1>13, <1>14, <1>15, <1>16, <1>17, <1>18, <1>19, <1>20, <1>21,
       <1>22, <1>23, <1>24, <1>25 DEF Next, CallerNext, ReadingNext,
       ServeNext, GroupNext

\* A message that cannot be converted stops the stream where it is, through any
\* number of rebalances and sessions (streamreader.go: ConsumeClaim).
THEOREM StopsAtUnconvertible == Spec => []NothingSkipped
<1>1. Init => BeforeInv
  BY UnconvertibleAssumption DEF Init, BeforeInv, NothingSkipped, MayReach
<1>2. IInv /\ BeforeInv /\ [Next]_vars => BeforeInv'
  BY BeforeStep
<1>3. BeforeInv => NothingSkipped
  BY DEF BeforeInv
<1> QED BY <1>1, <1>2, <1>3, Invariance, PTL DEF Spec

-----------------------------------------------------------------------------
(* The refinement of StreamFeed.                                           *)

\* An initial state of the reader is one of the feed.
LEMMA FeedRefInit == ASSUME Init PROVE Feed!Init
<1>1. newest = 0 /\ HasCommitted = FALSE
  BY DEF Init, HasCommitted
<1> QED BY <1>1 DEF Init, Feed!Init, FeedState

\* What a step may do to the offsets: reading goes on, a session ends, or one
\* begins at the end of the topic.
LEMMA OffsetStep ==
  ASSUME IInv, [Next]_vars
  PROVE  \/ committed' = committed /\ newest' = newest
         \/ EndGroupSession
         \/ BeginAtEnd
<1> USE DEF callerVars, serveVars, groupVars, topicVars, chanVars
<1>1. ASSUME NEW n \in Session, Fetch(n) \/ Push(n) \/ Report(n) \/ ErrorsEnd(n)
      PROVE  committed' = committed /\ newest' = newest
  BY <1>1 DEF Fetch, Push, Report, ErrorsEnd
<1>2. ASSUME NEW s \in Subs, ServeSubscribe(s)
      PROVE  (committed' = committed /\ newest' = newest) \/ BeginAtEnd
  BY <1>2 DEF ServeSubscribe, Start
<1>3. ASSUME NEW n \in Session, ConsumeAgain(n) \/ ConsumeReturn(n)
      PROVE  EndGroupSession \/ BeginAtEnd
  BY <1>3 DEF ConsumeAgain, ConsumeReturn
<1>4. CASE CallerNext \/ ReadingNext \/ UNCHANGED vars
  BY <1>4 DEF CallerNext, ReadingNext, vars, NewSubscription, FinishClose,
     CloseSubscription, RequestPanics, CloseReader, CloseChannels, TakeRecord,
     SeeClosed
<1>5. ASSUME \/ ServeClose \/ StopConsumer \/ StopDone \/ ServeMessage \/ ServeErr
             \/ \E c \in Subs \union {Nil} : Respond(c)
             \/ \E s \in Subs : ServeUnsubscribe(s) \/ Handle(s) \/ Notify(s)
      PROVE  committed' = committed /\ newest' = newest
  BY <1>5 DEF ServeClose, StopConsumer, StopDone, ServeMessage, ServeErr,
     Respond, ServeUnsubscribe, Handle, Notify
<1> QED BY <1>1, <1>2, <1>3, <1>4, <1>5 DEF Next, ServeNext, GroupNext

\* The offsets move as they do for the feed.
LEMMA FeedGroupStep == ASSUME IInv, [Next]_vars PROVE Feed!Group
<1>1. /\ MaxMsg \in Nat /\ marked \in 0..MaxMsg /\ committed \in 0..marked
      /\ newest \in 0..committed
  BY BoundAssumption DEF IInv, TypeOK, StreamType
<1> USE DEF HasCommitted
<1>2. CASE committed' = committed /\ newest' = newest
  BY <1>1, <1>2 DEF Feed!Group
<1>3. CASE EndGroupSession
  <2>1. newest' = newest /\ committed' \in committed..marked
    BY <1>3 DEF EndGroupSession
  <2> QED BY <1>1, <2>1 DEF Feed!Group
<1>4. CASE BeginAtEnd
  <2>1. ~HasCommitted /\ ~HasCommitted' /\ newest' \in newest..MaxMsg
    BY <1>1, <1>4 DEF BeginAtEnd
  <2>2. HasCommitted' = HasCommitted
    BY <2>1
  <2> HIDE DEF HasCommitted
  <2> QED BY <2>1, <2>2 DEF Feed!Group
<1> QED BY <1>2, <1>3, <1>4, OffsetStep

\* A step of the reader is a step of a subscription of the feed or leaves them
\* alone.
LEMMA FeedRefStep ==
  ASSUME IInv, FeedInv, [Next]_vars
  PROVE  Feed!Subscription \/ UNCHANGED <<FeedState, last>>
<1> USE NilAssumption, EnvAssumption, BoundAssumption
    DEF Session, Errs, MessagesCap, ErrCap, RecordsCap
<1> USE DEF callerVars, serveVars, groupVars, topicVars, chanVars, Running,
           HasCommitted
<1> USE DEF IInv, TypeOK, CallersType, ServeType, StreamType, ChannelsType,
            LoopInv, MapInv, FeedState
<1>1. ASSUME NEW s \in Subs, NewSubscription(s)
      PROVE  UNCHANGED <<FeedState, last>>
  BY <1>1 DEF NewSubscription
<1>2. ASSUME NEW s \in Subs, CloseSubscription(s)
      PROVE  UNCHANGED <<FeedState, last>>
  BY <1>2 DEF CloseSubscription
<1>3. ASSUME NEW s \in Subs, FinishClose(s)
      PROVE  Feed!End(s) \/ UNCHANGED <<FeedState, last>>
  BY <1>3 DEF FinishClose, Feed!End
<1>4. ASSUME NEW s \in Subs, RequestPanics(s)
      PROVE  UNCHANGED <<FeedState, last>>
  BY <1>4 DEF RequestPanics
<1>5. ASSUME NEW s \in Subs, TakeRecord(s) PROVE UNCHANGED <<FeedState, last>>
  BY <1>5 DEF TakeRecord
<1>6. ASSUME NEW s \in Subs, SeeClosed(s) PROVE UNCHANGED <<FeedState, last>>
  BY <1>6 DEF SeeClosed
<1>7. ASSUME NEW s \in Subs, ServeSubscribe(s)
      PROVE  Feed!Open(s) \/ UNCHANGED <<FeedState, last>>
  BY <1>7 DEF ServeSubscribe, Start, BeginAtEnd, Feed!Open
<1>8. ASSUME NEW s \in Subs, ServeUnsubscribe(s)
      PROVE  Feed!End(s) \/ UNCHANGED <<FeedState, last>>
  <2>1. FeedState[s] = "on"
    BY <1>8 DEF ServeUnsubscribe
  <2>2. FeedState'[s] = "ended"
    BY <1>8 DEF ServeUnsubscribe
  <2>3. \A t \in Subs \ {s} : FeedState'[t] = FeedState[t]
    BY <1>8 DEF ServeUnsubscribe
  <2>4. /\ FeedState = [t \in Subs |-> FeedState[t]]
        /\ FeedState' = [t \in Subs |-> FeedState'[t]]
    OBVIOUS
  <2> HIDE DEF FeedState
  <2>5. FeedState' = [FeedState EXCEPT ![s] = "ended"]
    BY <2>2, <2>3, <2>4
  <2> QED BY <1>8, <2>1, <2>5 DEF ServeUnsubscribe, Feed!End
<1>9. ASSUME NEW s \in Subs, Handle(s)
      PROVE  Feed!Deliver(s, item) \/ UNCHANGED <<FeedState, last>>
  <2>1. s \in subscriptions /\ servePc = "dispatch" /\ s \in todo /\ item >= 1
    BY <1>9 DEF Handle
  <2>2. last[s] # 0 => item <= last[s] + 1 \/ item <= newest + 1
    <3>1. last[s] # 0 => item - 1 <= last[s] \/ item - 1 <= newest
      BY <1>9, <2>1 DEF Handle, FeedInv, NoGap
    <3>2. item \in Nat /\ last[s] \in Nat /\ newest \in Nat
      OBVIOUS
    <3> QED BY <3>1, <3>2
  <2>3. last' = last \/ last' = [last EXCEPT ![s] = item]
    BY <1>9 DEF Handle
  <2>4. FeedState' = FeedState
    BY <1>9 DEF Handle
  <2>5. FeedState[s] = "on"
    BY <2>1
  <2> QED BY <2>2, <2>3, <2>4, <2>5 DEF Feed!Deliver
<1>10. ASSUME NEW s \in Subs, Notify(s) PROVE UNCHANGED <<FeedState, last>>
  BY <1>10 DEF Notify, Handed
<1>11. ASSUME CloseReader PROVE UNCHANGED <<FeedState, last>>
  BY <1>11 DEF CloseReader
<1>12. ASSUME CloseChannels PROVE UNCHANGED <<FeedState, last>>
  BY <1>12 DEF CloseChannels
<1>13. ASSUME ServeClose PROVE UNCHANGED <<FeedState, last>>
  BY <1>13 DEF ServeClose, BeginStop
<1>14. ASSUME StopConsumer PROVE UNCHANGED <<FeedState, last>>
  BY <1>14 DEF StopConsumer
<1>15. ASSUME StopDone PROVE UNCHANGED <<FeedState, last>>
  BY <1>15 DEF StopDone
<1>16. ASSUME ServeMessage PROVE UNCHANGED <<FeedState, last>>
  BY <1>16 DEF ServeMessage
<1>17. ASSUME ServeErr PROVE UNCHANGED <<FeedState, last>>
  BY <1>17 DEF ServeErr
<1>18. ASSUME NEW c \in Subs \union {Nil}, Respond(c)
      PROVE  UNCHANGED <<FeedState, last>>
  BY <1>18 DEF Respond, Answered
<1>19. ASSUME NEW n \in Session, Fetch(n) PROVE UNCHANGED <<FeedState, last>>
  BY <1>19 DEF Fetch
<1>20. ASSUME NEW n \in Session, Push(n) PROVE UNCHANGED <<FeedState, last>>
  BY <1>20 DEF Push
<1>21. ASSUME NEW n \in Session, ConsumeAgain(n)
      PROVE  UNCHANGED <<FeedState, last>>
  BY <1>21 DEF ConsumeAgain, EndGroupSession, BeginAtEnd
<1>22. ASSUME NEW n \in Session, ConsumeReturn(n)
      PROVE  UNCHANGED <<FeedState, last>>
  BY <1>22 DEF ConsumeReturn, EndGroupSession
<1>23. ASSUME NEW n \in Session, Report(n) PROVE UNCHANGED <<FeedState, last>>
  BY <1>23 DEF Report
<1>24. ASSUME NEW n \in Session, ErrorsEnd(n)
      PROVE  UNCHANGED <<FeedState, last>>
  BY <1>24 DEF ErrorsEnd
<1>25. CASE UNCHANGED vars
  BY <1>25 DEF vars
<1>26. \A s \in Subs : Handle(s) => item \in 1..MaxMsg
  BY DEF Handle
<1> QED BY <1>1, <1>2, <1>3, <1>4, <1>5, <1>6, <1>7, <1>8, <1>9, <1>10, <1>11,
       <1>12, <1>13, <1>14, <1>15, <1>16, <1>17, <1>18, <1>19, <1>20, <1>21,
       <1>22, <1>23, <1>24, <1>25, <1>26 DEF Next, CallerNext, ReadingNext,
       ServeNext, GroupNext, Feed!Subscription

\* The reader gives every subscriber what StreamFeed promises: the messages
\* of the stream in order from subscribe to unsubscribe, with no gap that a
\* session did not begin behind when nothing had been committed.
THEOREM FeedImplemented == Spec => ImplementsFeed
<1>1. Init => Feed!Init
  BY FeedRefInit
<1>2. IInv /\ FeedInv /\ [Next]_vars => Feed!Next
  BY FeedRefStep, FeedGroupStep DEF Feed!Next
<1> QED BY <1>1, <1>2, FeedInvariance, PTL DEF Spec, ImplementsFeed, Feed!Spec

-----------------------------------------------------------------------------
\* The consumer that is open is not cancelled, and has failed if its goroutine
\* is not consuming.
LiveInv ==
  consumer # 0 /\ ~Waiting =>
    /\ consumer \notin ctxDone
    /\ consumePc[consumer] \in {"consume", "push"} \/ report[consumer] = "error"

\* Every step keeps it so.
LEMMA LiveStep == ASSUME IInv, LiveInv, [Next]_vars PROVE LiveInv'
<1> USE DEF LiveInv, Waiting, callerVars, serveVars, groupVars, topicVars,
            chanVars, Running
<1>0. /\ consumer \in 0..session /\ ctxDone \subseteq 1..session
      /\ session \in 0..MaxSession
      /\ consumePc \in [Session -> {"none", "consume", "push", "report", "done"}]
      /\ report \in [Session -> Errs]
  BY DEF IInv, TypeOK, GroupType
<1>1. ASSUME UNCHANGED groupVars,
             servePc' \in {"waitConsume", "waitErrors"}
               \/ servePc \notin {"waitConsume", "waitErrors"}
      PROVE  LiveInv'
  BY <1>1
<1>2. CASE CallerNext \/ ReadingNext \/ UNCHANGED vars
  <2>1. UNCHANGED groupVars /\ servePc' = servePc
    BY <1>2 DEF CallerNext, ReadingNext, vars, NewSubscription, FinishClose,
       CloseSubscription, RequestPanics, CloseReader, CloseChannels, TakeRecord,
       SeeClosed
  <2> QED  BY <2>1
<1>3. ASSUME NEW s \in Subs, ServeSubscribe(s) PROVE LiveInv'
  <2>1. servePc = "select" /\ ctxDone' = ctxDone /\ report' = report
    BY <1>3 DEF ServeSubscribe
  <2>2. CASE UNCHANGED <<consumer, consumePc>>
    BY <2>1, <2>2
  <2>3. CASE Start
    <3>1. session + 1 \in Session /\ session + 1 \notin ctxDone
      BY <1>0, <2>3, BoundAssumption DEF Start, Session
    <3>2. consumer' = session + 1 /\ consumePc'[session + 1] = "consume"
      BY <1>0, <2>3, <3>1 DEF Start
    <3> QED  BY <2>1, <3>1, <3>2
  <2> QED  BY <1>3, <2>2, <2>3 DEF ServeSubscribe
<1>4. ASSUME NEW s \in Subs, ServeUnsubscribe(s) PROVE LiveInv'
  BY <1>4 DEF ServeUnsubscribe, BeginStop
<1>5. CASE ServeClose \/ StopConsumer \/ StopDone
  <2>1. consumer' = 0 \/ servePc' \in {"waitConsume", "waitErrors"}
    BY <1>5 DEF ServeClose, BeginStop, StopConsumer, StopDone
  <2> QED  BY <2>1
<1>6. ASSUME \/ ServeMessage \/ ServeErr
             \/ \E c \in Subs \union {Nil} : Respond(c)
             \/ \E s \in Subs : Handle(s) \/ Notify(s)
      PROVE  LiveInv'
  <2>1. UNCHANGED groupVars /\ servePc \notin {"waitConsume", "waitErrors"}
    BY <1>6 DEF ServeMessage, ServeErr, Respond, Handle, Notify
  <2> QED  BY <1>1, <2>1
<1>a. consumer # 0 => consumer \in Session
  BY <1>0, BoundAssumption DEF Session
<1>7. ASSUME NEW n \in Session, Fetch(n) \/ Push(n) \/ ConsumeAgain(n)
      PROVE  LiveInv'
  <2>1. /\ UNCHANGED <<servePc, consumer, ctxDone, report>>
        /\ consumePc' \in {consumePc, [consumePc EXCEPT ![n] = "push"],
                           [consumePc EXCEPT ![n] = "consume"]}
    BY <1>7 DEF Fetch, Push, ConsumeAgain
  <2> QED  BY <1>0, <1>a, <2>1
<1>8. ASSUME NEW n \in Session, ConsumeReturn(n) PROVE LiveInv'
  BY <1>0, <1>a, <1>8 DEF ConsumeReturn, Errs
<1>9. ASSUME NEW n \in Session, Report(n) \/ ErrorsEnd(n) PROVE LiveInv'
  <2>1. /\ UNCHANGED <<servePc, consumer, ctxDone, report>>
        /\ \/ consumePc' = consumePc
           \/ /\ consumePc[n] = "report"
              /\ consumePc' = [consumePc EXCEPT ![n] = "done"]
    BY <1>9 DEF Report, ErrorsEnd
  <2> QED  BY <1>0, <1>a, <2>1
<1> QED
  BY <1>2, <1>3, <1>4, <1>5, <1>6, <1>7, <1>8, <1>9 DEF Next, ServeNext, GroupNext

\* A session that was cancelled is gone before the next request, and one that
\* is there consumes until Consume fails: an error is the only way to a consumer
\* that is open and dead (streamreader.go: start, stop, subscribe).
THEOREM DeadOnlyByError == Spec => []DiesOfError
<1>1. Init => LiveInv
  BY DEF Init, LiveInv
<1>2. IInv /\ LiveInv /\ [Next]_vars => LiveInv'
  BY LiveStep
<1>3. LiveInv => DiesOfError
  BY DEF LiveInv, DiesOfError, Waiting
<1> QED  BY <1>1, <1>2, <1>3, Invariance, PTL DEF Spec

-----------------------------------------------------------------------------
(* The refinement of RecordQueue.                                          *)

\* Nothing is sent to a subscription before it is in the map.
FreshInv == \A s \in Subs : sub[s] \in {"new", "subReq"} => records[s] = <<>>

On(s) == s \in subscriptions /\ ~panic

OffsetsStay == marked' = marked /\ committed' = committed /\ newest' = newest

\* The way to subscription s and the offsets stay as they are.
WayStays(s) == OnTheWay(s)' = OnTheWay(s) /\ OffsetsStay

\* The next record is put behind what is on the way, if there is room.
WayGets(s) ==
  /\ IF On(s) THEN /\ Len(OnTheWay(s)) < Queues!QueueCap
                   /\ OnTheWay(s)' = Append(OnTheWay(s), marked + 1)
              ELSE OnTheWay(s)' = OnTheWay(s)
  /\ marked' = marked + 1 /\ committed' = committed /\ newest' = newest
  /\ On(s)' <=> On(s)

WayGives(s) ==
  /\ OnTheWay(s) # <<>> /\ OnTheWay(s)' = Tail(OnTheWay(s))
  /\ OffsetsStay /\ (On(s)' <=> On(s))

WayBegins(s) ==
  /\ ~On(s) /\ On(s)' /\ Len(OnTheWay(s)') <= 1
  /\ OffsetsStay \/ BeginAtEnd

WayEnds(s) ==
  /\ On(s) /\ ~On(s)' /\ OnTheWay(s)' = <<>>
  /\ OffsetsStay

WayMoves(s) ==
  \/ WayStays(s) /\ (On(s)' <=> On(s))
  \/ WayGets(s) \/ WayGives(s) \/ WayBegins(s) \/ WayEnds(s)
  \/ /\ OnTheWay(s)' = OnTheWay(s) /\ (On(s)' <=> On(s))
     /\ EndGroupSession \/ BeginAtEnd

\* A record put at the end of a way in three parts.
LEMMA PutOnWay ==
  ASSUME NEW S, NEW a \in Seq(S), NEW b \in Seq(S), NEW c \in Seq(S), NEW x \in S
  PROVE  a \o b \o Append(c, x) = Append(a \o b \o c, x)
<1>1. a \o b \in Seq(S) /\ a \o b \o c \in Seq(S) /\ <<x>> \in Seq(S)
  BY ConcatProperties
<1>2. Append(c, x) = c \o <<x>>
  BY AppendIsConcat
<1>3. Append(a \o b \o c, x) = a \o b \o c \o <<x>>
  BY <1>1, AppendIsConcat
<1>4. a \o b \o (c \o <<x>>) = a \o b \o c \o <<x>>
  BY <1>1, ConcatAssociative
<1> QED  BY <1>2, <1>3, <1>4

\* A record taken from its beginning.
LEMMA TakenFromPair ==
  ASSUME NEW S, NEW a \in Seq(S), NEW b \in Seq(S), a # <<>>
  PROVE  a \o b # <<>> /\ Tail(a) \o b = Tail(a \o b)
<1> DEFINE t == a \o b
<1>1. /\ Tail(a) \in Seq(S) /\ Len(Tail(a)) = Len(a) - 1 /\ Len(a) \in Nat
      /\ Len(a) > 0 /\ Len(b) \in Nat
      /\ \A i \in 1..(Len(a) - 1) : Tail(a)[i] = a[i + 1]
  OBVIOUS
<1>2. /\ t \in Seq(S) /\ Len(t) = Len(a) + Len(b)
      /\ \A i \in 1..(Len(a) + Len(b)) :
           t[i] = IF i <= Len(a) THEN a[i] ELSE b[i - Len(a)]
  BY ConcatProperties
<1>3. t # <<>>
  BY <1>1, <1>2
<1>4. /\ Tail(a) \o b \in Seq(S) /\ Len(Tail(a) \o b) = Len(a) - 1 + Len(b)
      /\ \A i \in 1..(Len(a) - 1 + Len(b)) :
           (Tail(a) \o b)[i] = IF i <= Len(a) - 1 THEN Tail(a)[i]
                                                  ELSE b[i - (Len(a) - 1)]
  BY <1>1, ConcatProperties
<1> HIDE DEF t
<1>5. /\ Tail(t) \in Seq(S) /\ Len(Tail(t)) = Len(a) - 1 + Len(b)
      /\ \A i \in 1..(Len(a) - 1 + Len(b)) : Tail(t)[i] = t[i + 1]
  BY <1>1, <1>2, <1>3
<1>6. \A i \in 1..(Len(a) - 1 + Len(b)) : (Tail(a) \o b)[i] = Tail(t)[i]
  BY <1>1, <1>2, <1>4, <1>5
<1>7. Tail(a) \o b = Tail(t)
  BY <1>1, <1>4, <1>5, <1>6, SeqEqual
<1> QED  BY <1>3, <1>7 DEF t

\* The same of a way in three parts.
LEMMA TakenFromWay ==
  ASSUME NEW S, NEW a \in Seq(S), NEW b \in Seq(S), NEW c \in Seq(S), a # <<>>
  PROVE  /\ a \o b \o c # <<>>
         /\ Tail(a) \o b \o c = Tail(a \o b \o c)
<1>1. b \o c \in Seq(S) /\ Tail(a) \in Seq(S)
  BY ConcatProperties
<1>2. a \o b \o c = a \o (b \o c)
  BY ConcatAssociative
<1>3. Tail(a) \o b \o c = Tail(a) \o (b \o c)
  BY <1>1, ConcatAssociative
<1>4. PICK d \in Seq(S) : d = b \o c
  BY <1>1
<1>5. a \o d # <<>> /\ Tail(a) \o d = Tail(a \o d)
  BY TakenFromPair
<1> QED  BY <1>2, <1>3, <1>4, <1>5

\* A record goes from one part of it to the next.
LEMMA MovedOnWay ==
  ASSUME NEW S, NEW a \in Seq(S), NEW c \in Seq(S), NEW x \in S
  PROVE  /\ Append(a, x) \o <<>> \o c = a \o <<x>> \o c
         /\ c # <<>> => a \o <<Head(c)>> \o Tail(c) = a \o <<>> \o c
<1>1. <<x>> \in Seq(S) /\ Append(a, x) = a \o <<x>>
  BY AppendIsConcat
<1>2. Append(a, x) \o <<>> = Append(a, x) /\ a \o <<>> = a
  BY <1>1, ConcatProperties, ConcatEmptySeq
<1>3. ASSUME c # <<>> PROVE a \o <<Head(c)>> \o Tail(c) = a \o c
  <2>1. /\ Head(c) \in S /\ Tail(c) \in Seq(S) /\ <<Head(c)>> \in Seq(S)
        /\ <<Head(c)>> \o Tail(c) = c
    BY <1>3
  <2> QED  BY <2>1, ConcatAssociative
<1> QED  BY <1>1, <1>2, <1>3

\* The offsets as the queues see them, counted from the next one, when a
\* session ends or begins.
LEMMA OffsetsAreSteps ==
  ASSUME IInv, IInv', NEW s \in Subs
  PROVE  /\ EndGroupSession =>
              /\ committed' + 1 \in (committed + 1)..(marked + 1)
              /\ newest' + 1 = newest + 1
              /\ \/ marked' + 1 = marked + 1
                 \/ committed' + 1 > newest' + 1 /\ marked' + 1 = committed' + 1
         /\ BeginAtEnd =>
              /\ committed + 1 = newest + 1
              /\ marked' + 1 >= marked + 1
              /\ committed' + 1 = marked' + 1 /\ newest' + 1 = marked' + 1
<1>1. /\ marked \in Nat /\ committed \in 0..marked /\ newest \in 0..committed
      /\ marked' \in Nat /\ committed' \in 0..marked' /\ newest' \in 0..committed'
  BY BoundAssumption DEF IInv, TypeOK, StreamType
<1>5. /\ marked \in Nat /\ committed \in Nat /\ newest \in Nat
      /\ marked' \in Nat /\ committed' \in Nat /\ newest' \in Nat
  BY <1>1
<1>2. ASSUME EndGroupSession
      PROVE  /\ committed <= committed' /\ committed' <= marked
             /\ newest' = newest
             /\ marked' = marked \/ (committed' > newest' /\ marked' = committed')
  <2>1. newest' = newest /\ committed' \in committed..marked
    BY <1>2 DEF EndGroupSession
  <2>2. marked' = IF committed' > newest' THEN committed' ELSE marked
    BY <1>2 DEF EndGroupSession, HasCommitted
  <2>3. committed <= committed' /\ committed' <= marked
    BY <1>5, <2>1
  <2> QED BY <2>1, <2>2, <2>3
<1>3. ASSUME BeginAtEnd
      PROVE  /\ committed = newest /\ marked <= marked'
             /\ committed' = marked' /\ newest' = marked'
  <2>1. committed = newest
    <3>1. ~(committed > newest) /\ newest <= committed
      BY <1>1, <1>3 DEF BeginAtEnd, HasCommitted
    <3> QED BY <1>5, <3>1
  <2>2. /\ marked' \in marked..MaxMsg /\ MaxMsg \in Nat
        /\ committed' = marked' /\ newest' = marked'
    BY <1>3, BoundAssumption DEF BeginAtEnd
  <2> QED BY <1>5, <2>1, <2>2
<1>4. /\ \A a, b, c \in Nat : a <= b /\ b <= c => b + 1 \in (a + 1)..(c + 1)
      /\ \A a, b \in Nat : a > b => a + 1 > b + 1
      /\ \A a, b \in Nat : a <= b => b + 1 >= a + 1
  OBVIOUS
<1>6. ASSUME EndGroupSession
      PROVE  /\ committed' + 1 \in (committed + 1)..(marked + 1)
             /\ newest' + 1 = newest + 1
             /\ \/ marked' + 1 = marked + 1
                \/ committed' + 1 > newest' + 1 /\ marked' + 1 = committed' + 1
  <2>0. /\ committed <= committed' /\ committed' <= marked
        /\ newest' = newest
        /\ marked' = marked \/ (committed' > newest' /\ marked' = committed')
    BY <1>2, <1>6
  <2>1. committed' + 1 \in (committed + 1)..(marked + 1)
    BY <1>4, <1>5, <2>0
  <2>2. CASE marked' = marked
    BY <2>0, <2>1, <2>2
  <2>3. CASE committed' > newest' /\ marked' = committed'
    <3>1. committed' + 1 > newest' + 1
      BY <1>4, <1>5, <2>3
    <3> QED BY <2>0, <2>1, <2>3, <3>1
  <2> QED BY <2>0, <2>2, <2>3
<1>7. ASSUME BeginAtEnd
      PROVE  /\ committed + 1 = newest + 1
             /\ marked' + 1 >= marked + 1
             /\ committed' + 1 = marked' + 1 /\ newest' + 1 = marked' + 1
  <2>1. /\ committed = newest /\ marked <= marked'
        /\ committed' = marked' /\ newest' = marked'
    BY <1>3, <1>7
  <2>2. marked' + 1 >= marked + 1
    BY <1>4, <1>5, <2>1
  <2> QED BY <2>1, <2>2
<1> QED BY <1>6, <1>7

\* When every way moves so, that is a step of the queues.
LEMMA WaysAreSteps ==
  ASSUME IInv, IInv', \A s \in Subs : WayMoves(s)
  PROVE  Queues!Next
<1> SUFFICES ASSUME NEW s \in Subs PROVE Queues!Step(s)
  BY DEF Queues!Next
<1>1. marked \in Nat /\ committed \in 0..marked
      /\ marked' \in Nat /\ committed' \in 0..marked'
  BY BoundAssumption DEF IInv, TypeOK, StreamType
<1> USE DEF Queues!Step, Queues!Keeps, Queues!MayPut, Queues!QueueCap, On,
            Queues!SameOffsets, Queues!Stays, OffsetsStay
<1>2. CASE WayStays(s) /\ (On(s)' <=> On(s))
  BY <1>2 DEF Queues!Stutter, WayStays
<1>3. CASE WayGets(s)
  BY <1>1, <1>3 DEF Queues!Put, Queues!Skip, WayGets
<1>4. CASE WayGives(s)
  BY <1>4 DEF Queues!Take, WayGives
<1>5. CASE OnTheWay(s)' = OnTheWay(s) /\ EndGroupSession /\ (On(s)' <=> On(s))
  <2>1. /\ committed' + 1 \in (committed + 1)..(marked + 1)
        /\ newest' + 1 = newest + 1
        /\ \/ marked' + 1 = marked + 1
           \/ committed' + 1 > newest' + 1 /\ marked' + 1 = committed' + 1
    BY <1>5, OffsetsAreSteps
  <2> QED  BY <1>5, <2>1 DEF Queues!Commit, Queues!GoesBack
<1>6. CASE OnTheWay(s)' = OnTheWay(s) /\ BeginAtEnd /\ (On(s)' <=> On(s))
  <2>1. /\ committed + 1 = newest + 1
        /\ marked' + 1 >= marked + 1
        /\ committed' + 1 = marked' + 1 /\ newest' + 1 = marked' + 1
    BY <1>6, OffsetsAreSteps
  <2> QED  BY <1>6, <2>1 DEF Queues!PassOver, Queues!Begins
<1>7. CASE WayBegins(s)
  <2>1. CASE OffsetsStay
    BY <1>7, <2>1 DEF Queues!Join, WayBegins
  <2>2. CASE BeginAtEnd
    <3>1. /\ committed + 1 = newest + 1
          /\ marked' + 1 >= marked + 1
          /\ committed' + 1 = marked' + 1 /\ newest' + 1 = marked' + 1
      BY <2>2, OffsetsAreSteps
    <3> QED  BY <1>7, <3>1 DEF Queues!Join, Queues!Begins, WayBegins
  <2> QED  BY <1>7, <2>1, <2>2 DEF WayBegins
<1>8. CASE WayEnds(s)
  BY <1>8 DEF Queues!Leave, WayEnds
<1> QED  BY <1>2, <1>3, <1>4, <1>5, <1>6, <1>7, <1>8 DEF WayMoves

\* A subscription that has not been in the map has been sent nothing.
LEMMA FreshStep == ASSUME IInv, FreshInv, [Next]_vars PROVE FreshInv'
<1> USE DEF callerVars, serveVars, groupVars, topicVars, chanVars, Running,
           HasCommitted
<1> SUFFICES ASSUME NEW t \in Subs, (sub[t] \in {"new", "subReq"})'
             PROVE  records'[t] = <<>>
  BY DEF FreshInv
<1>0. /\ sub \in [Subs -> {"new", "subReq", "subResp", "open", "failed",
                           "unsubReq", "unsubResp", "unsubbed", "closed"}]
      /\ t \in subscriptions => sub[t] \notin {"new", "subReq"}
      /\ todo \subseteq subscriptions
      /\ sub[t] \in {"new", "subReq"} => records[t] = <<>>
      /\ records \in [Subs -> Seq(1..MaxMsg)]
  BY DEF IInv, TypeOK, CallersType, ServeType, ChannelsType, MapInv, FreshInv
<1>1. CASE UNCHANGED records
  <2>1. sub[t] \in {"new", "subReq"}
    <3>1. CASE UNCHANGED sub
      BY <3>1
    <3>2. ASSUME NEW s \in Subs, CloseSubscription(s) \/ FinishClose(s)
                                 \/ NewSubscription(s)
          PROVE  sub[t] \in {"new", "subReq"}
      BY <1>0, <3>2 DEF CloseSubscription, FinishClose, NewSubscription
    <3>3. ASSUME NEW s \in Subs, ServeSubscribe(s) \/ ServeUnsubscribe(s)
          PROVE  sub[t] \in {"new", "subReq"}
      BY <1>0, <3>3 DEF ServeSubscribe, ServeUnsubscribe
    <3>4. ASSUME NEW c \in Subs \union {Nil}, Respond(c)
          PROVE  sub[t] \in {"new", "subReq"}
      BY <1>0, <3>4 DEF Respond, Answered
    <3> QED
      BY <3>1, <3>2, <3>3, <3>4
         DEF Next, CallerNext, ReadingNext, ServeNext, GroupNext, vars,
             RequestPanics, CloseReader, CloseChannels, TakeRecord, SeeClosed,
             ServeClose, StopConsumer, StopDone, ServeMessage, ServeErr, Handle,
             Notify, Fetch, Push, ConsumeAgain, ConsumeReturn, Report, ErrorsEnd
  <2> QED  BY <1>0, <1>1, <2>1
<1>2. ASSUME NEW s \in Subs, TakeRecord(s) \/ Handle(s)
      PROVE  records'[t] = <<>>
  BY <1>0, <1>2 DEF TakeRecord, Handle
<1>3. UNCHANGED records \/ \E s \in Subs : TakeRecord(s) \/ Handle(s)
  BY DEF Next, CallerNext, ReadingNext, ServeNext, GroupNext, vars,
         NewSubscription, CloseSubscription, FinishClose, RequestPanics,
         CloseReader, CloseChannels, SeeClosed, ServeSubscribe,
         ServeUnsubscribe, ServeClose, StopConsumer, StopDone, Respond,
         ServeMessage, ServeErr, Notify, Fetch, Push, ConsumeAgain,
         ConsumeReturn, Report, ErrorsEnd
<1> QED  BY <1>1, <1>2, <1>3

\* Every step moves the way to every subscription as the queues may.
LEMMA WayStep ==
  ASSUME IInv, FreshInv, [Next]_vars, NEW t \in Subs
  PROVE  WayMoves(t)
<1> USE DEF callerVars, serveVars, groupVars, topicVars, chanVars, Running,
           OffsetsStay
<1> DEFINE same == WayStays(t) /\ (On(t)' <=> On(t))
<1>0. /\ records \in [Subs -> Seq(1..MaxMsg)] /\ Len(records[t]) <= 1
      /\ messages \in Seq(1..MaxMsg) /\ Len(messages) <= 1
      /\ item \in 0..MaxMsg /\ marked \in 0..MaxMsg
      /\ todo \subseteq subscriptions
      /\ todo # {} => servePc \in {"dispatch", "notify"}
      /\ sub[t] = "subReq" => records[t] = <<>> /\ t \notin subscriptions
  BY DEF IInv, TypeOK, ServeType, StreamType, ChannelsType, LoopInv, MapInv,
         FreshInv, MessagesCap, RecordsCap
<1>n. PICK N : N = Nat
  OBVIOUS
<1>a. /\ records[t] \in Seq(N) /\ messages \in Seq(N) /\ item \in N
      /\ marked + 1 \in N /\ InHand(t) \in Seq(N) /\ Len(InHand(t)) <= 1
  BY <1>0, <1>n, BoundAssumption DEF InHand
<1>b. OnTheWay(t) = IF On(t) THEN records[t] \o InHand(t) \o messages ELSE <<>>
  BY DEF OnTheWay, InHand, On
<1>1. ASSUME UNCHANGED <<subscriptions, messages, marked, committed, newest>>,
             panic' <=> panic, UNCHANGED records[t], InHand(t)' = InHand(t)
      PROVE  same
  BY <1>1 DEF WayStays, OnTheWay, InHand, On
<1>2. ASSUME panic', UNCHANGED <<marked, committed, newest>>
      PROVE  same \/ WayEnds(t)
  BY <1>2 DEF WayStays, OnTheWay, InHand, On, WayEnds
<1>3. ASSUME NEW s \in Subs,
             NewSubscription(s) \/ CloseSubscription(s) \/ FinishClose(s)
               \/ SeeClosed(s)
      PROVE  same
  BY <1>1, <1>3 DEF NewSubscription, CloseSubscription, FinishClose, SeeClosed,
                    InHand
<1>4. ASSUME NEW s \in Subs, RequestPanics(s) PROVE WayMoves(t)
  BY <1>2, <1>4 DEF RequestPanics, WayMoves
<1>5. ASSUME NEW s \in Subs, TakeRecord(s) PROVE WayMoves(t)
  <2>1. /\ UNCHANGED <<subscriptions, panic, messages, marked, committed, newest>>
        /\ InHand(t)' = InHand(t) /\ records' = [records EXCEPT ![s] = Tail(@)]
        /\ records[s] # <<>>
    BY <1>5 DEF TakeRecord, InHand
  <2>2. CASE t # s
    BY <1>0, <1>1, <2>1, <2>2 DEF WayMoves
  <2>3. CASE t = s /\ ~On(t)
    BY <1>b, <2>1, <2>3 DEF WayMoves, WayStays, OnTheWay, InHand, On
  <2>4. CASE t = s /\ On(t)
    <3>1. /\ OnTheWay(t)' = Tail(records[t]) \o InHand(t) \o messages
          /\ On(t)' /\ OnTheWay(t) = records[t] \o InHand(t) \o messages
      BY <1>0, <1>b, <2>1, <2>4 DEF OnTheWay, InHand, On
    <3>2. PICK a \in Seq(N), b \in Seq(N), c \in Seq(N) :
            a = records[t] /\ b = InHand(t) /\ c = messages
      BY <1>a
    <3>3. a # <<>>
      BY <2>1, <2>4, <3>2
    <3>4. a \o b \o c # <<>> /\ Tail(a) \o b \o c = Tail(a \o b \o c)
      BY <3>3, TakenFromWay
    <3>5. OnTheWay(t) # <<>> /\ OnTheWay(t)' = Tail(OnTheWay(t))
      BY <3>1, <3>2, <3>4
    <3> QED  BY <2>1, <2>4, <3>1, <3>5 DEF WayMoves, WayGives
  <2> QED  BY <2>2, <2>3, <2>4
<1>6. ASSUME NEW s \in Subs, ServeSubscribe(s) PROVE WayMoves(t)
  <2>1. /\ UNCHANGED <<panic, messages, records, todo>>
        /\ OffsetsStay \/ BeginAtEnd
        /\ servePc = "select" /\ servePc' = "respond" /\ sub[s] = "subReq"
        /\ subscriptions' \in {subscriptions, subscriptions \union {s}}
        /\ ~panic
    BY <1>6 DEF ServeSubscribe, Start
  <2>2. CASE UNCHANGED subscriptions \/ t # s
    <3>1. (t \in subscriptions)' <=> t \in subscriptions
      BY <2>1, <2>2
    <3>2. OnTheWay(t)' = OnTheWay(t) /\ (On(t)' <=> On(t))
      BY <1>0, <2>1, <3>1 DEF OnTheWay, InHand, On
    <3> QED  BY <2>1, <3>2 DEF WayMoves, WayStays
  <2>3. CASE subscriptions' = subscriptions \union {s} /\ t = s
    <3>1. OnTheWay(t)' = <<>> \o <<>> \o messages /\ On(t)' /\ ~On(t)
      BY <1>0, <2>1, <2>3 DEF OnTheWay, InHand, On
    <3>2. OnTheWay(t)' = messages
      BY <1>a, <3>1, ConcatEmptySeq
    <3> QED  BY <1>0, <2>1, <3>1, <3>2 DEF WayMoves, WayBegins
  <2> QED  BY <2>1, <2>2, <2>3
<1>7. ASSUME NEW s \in Subs, ServeUnsubscribe(s) PROVE WayMoves(t)
  <2>1. /\ UNCHANGED <<panic, messages, records, topicVars, todo>>
        /\ servePc = "select" /\ servePc' \in {"respond", "waitConsume"}
        /\ subscriptions' = subscriptions \ {s} /\ ~panic
    BY <1>7 DEF ServeUnsubscribe, BeginStop
  <2>2. CASE t # s
    BY <1>0, <2>1, <2>2 DEF WayMoves, WayStays, OnTheWay, InHand, On
  <2>3. CASE t = s
    BY <1>b, <2>1, <2>3 DEF WayMoves, WayStays, WayEnds, OnTheWay, InHand, On
  <2> QED  BY <2>2, <2>3
<1>8. ASSUME NEW s \in Subs, Handle(s) PROVE WayMoves(t)
  <2>1. /\ UNCHANGED <<messages, topicVars, subscriptions, item>>
        /\ servePc = "dispatch" /\ s \in todo /\ todo' = todo \ {s}
        /\ servePc' = IF todo = {s} THEN "select" ELSE "dispatch"
        /\ panic' = recordsClosed[s] /\ ~panic
        /\ ~recordsClosed[s] => /\ records' = [records EXCEPT ![s] = Append(@, item)]
    BY <1>8 DEF Handle, Handed
  <2>2. CASE recordsClosed[s]
    BY <1>2, <2>1, <2>2 DEF WayMoves
  <2>3. CASE ~recordsClosed[s] /\ t # s
    <3>1. records'[t] = records[t] /\ ~panic'
      BY <1>0, <2>1, <2>3
    <3>2. InHand(t)' = InHand(t)
      BY <2>1, <2>3 DEF InHand
    <3> QED  BY <1>1, <2>1, <3>1, <3>2 DEF WayMoves
  <2>4. CASE ~recordsClosed[s] /\ t = s
    <3>1. /\ OnTheWay(t) = records[t] \o <<item>> \o messages
          /\ OnTheWay(t)' = Append(records[t], item) \o <<>> \o messages
          /\ On(t) /\ On(t)'
      BY <1>0, <2>1, <2>4 DEF OnTheWay, InHand, On
    <3>2. OnTheWay(t)' = OnTheWay(t)
      BY <1>a, <3>1, MovedOnWay
    <3> QED  BY <2>1, <3>1, <3>2 DEF WayMoves, WayStays
  <2> QED  BY <2>2, <2>3, <2>4
<1>9. ASSUME NEW s \in Subs, Notify(s) PROVE WayMoves(t)
  <2>1. /\ UNCHANGED <<messages, topicVars, subscriptions, item, records>>
        /\ servePc = "notify" /\ servePc' \in {"select", "notify"}
        /\ panic' \in BOOLEAN /\ ~panic
    BY <1>9 DEF Notify, Handed, IInv, TypeOK, ChannelsType
  <2>2. CASE panic'
    BY <1>2, <2>1, <2>2 DEF WayMoves
  <2>3. CASE ~panic'
    <3>1. InHand(t)' = InHand(t)
      BY <2>1 DEF InHand
    <3> QED  BY <1>1, <2>1, <2>3, <3>1 DEF WayMoves
  <2> QED  BY <2>2, <2>3
<1>10. CASE ServeMessage
  <2>1. /\ UNCHANGED <<panic, topicVars, subscriptions, records>>
        /\ servePc = "select" /\ messages # <<>> /\ item' = Head(messages)
        /\ messages' = Tail(messages) /\ todo' = subscriptions
        /\ subscriptions # {} => servePc' = "dispatch"
    BY <1>10 DEF ServeMessage
  <2>2. CASE ~On(t)
    BY <1>b, <2>1, <2>2 DEF WayMoves, WayStays, OnTheWay, InHand, On
  <2>3. CASE On(t)
    <3>1. /\ OnTheWay(t) = records[t] \o <<>> \o messages
          /\ OnTheWay(t)' = records[t] \o <<Head(messages)>> \o Tail(messages)
          /\ On(t)'
      BY <1>0, <2>1, <2>3 DEF OnTheWay, InHand, On
    <3>2. OnTheWay(t)' = OnTheWay(t)
      <4>1. Head(messages) \in N
        BY <1>a, <2>1
      <4> QED  BY <1>a, <2>1, <3>1, <4>1, MovedOnWay
    <3> QED  BY <2>1, <2>3, <3>1, <3>2 DEF WayMoves, WayStays
  <2> QED  BY <2>2, <2>3
<1>11. ASSUME NEW n \in Session, Push(n) PROVE WayMoves(t)
  <2>1. /\ UNCHANGED <<panic, committed, newest, subscriptions, records, item, todo,
                       servePc>>
        /\ messages' = Append(messages, marked + 1) /\ marked' = marked + 1
        /\ Len(messages) < 1
    BY <1>11 DEF Push, MessagesCap
  <2>2. CASE ~On(t)
    BY <1>b, <2>1, <2>2 DEF WayMoves, WayGets, OnTheWay, InHand, On
  <2>3. CASE On(t)
    <3>1. OnTheWay(t)' = records[t] \o InHand(t) \o Append(messages, marked + 1)
          /\ On(t)'
      BY <2>1, <2>3 DEF OnTheWay, InHand, On
    <3>2. OnTheWay(t)' = Append(OnTheWay(t), marked + 1)
      <4>1. PICK a \in Seq(N), b \in Seq(N), c \in Seq(N), x \in N :
              /\ a = records[t] /\ b = InHand(t) /\ c = messages
              /\ x = marked + 1
        BY <1>a
      <4>2. a \o b \o Append(c, x) = Append(a \o b \o c, x)
        BY PutOnWay
      <4> QED  BY <1>b, <2>3, <3>1, <4>1, <4>2
    <3>3. Len(OnTheWay(t)) < 3
      <4>1. /\ records[t] \o InHand(t) \in Seq(N)
            /\ Len(records[t] \o InHand(t)) = Len(records[t]) + Len(InHand(t))
        BY <1>a, ConcatProperties
      <4>2. Len(OnTheWay(t)) = Len(records[t] \o InHand(t)) + Len(messages)
        BY <1>a, <1>b, <2>3, <4>1, ConcatProperties
      <4> QED  BY <1>0, <1>a, <2>1, <4>1, <4>2
    <3> QED  BY <2>1, <2>3, <3>1, <3>2, <3>3 DEF WayMoves, WayGets, Queues!QueueCap
  <2> QED  BY <2>2, <2>3
<1>12. ASSUME NEW n \in Session, ConsumeAgain(n) \/ ConsumeReturn(n)
       PROVE  WayMoves(t)
  <2>1. /\ UNCHANGED <<callerVars, servePc, item, todo, subscriptions, panic,
                       messages, records>>
        /\ EndGroupSession \/ BeginAtEnd
    BY <1>12 DEF ConsumeAgain, ConsumeReturn
  <2> QED  BY <2>1 DEF WayMoves, OnTheWay, InHand, On
<1>13. ASSUME NEW n \in Session, Fetch(n) \/ Report(n) \/ ErrorsEnd(n)
       PROVE  same
  BY <1>1, <1>13 DEF Fetch, Report, ErrorsEnd, InHand
<1>14. CASE ServeClose \/ StopConsumer \/ StopDone \/ ServeErr
            \/ \E c \in Subs \union {Nil} : Respond(c)
  <2>1. /\ UNCHANGED <<subscriptions, panic, messages, records, marked,
                       committed, newest, item>>
        /\ servePc # "dispatch" /\ servePc' # "dispatch"
    BY <1>14 DEF ServeClose, BeginStop, StopConsumer, StopDone, ServeErr, Respond
  <2> QED  BY <1>1, <2>1 DEF WayMoves, InHand
<1>15. CASE CloseReader \/ CloseChannels \/ UNCHANGED vars
  BY <1>1, <1>15 DEF CloseReader, CloseChannels, vars, WayMoves, InHand
<1>16. same => WayMoves(t)
  BY DEF WayMoves
<1> HIDE DEF same
<1> QED
  BY <1>3, <1>4, <1>5, <1>6, <1>7, <1>8, <1>9, <1>10, <1>11, <1>12, <1>13,
     <1>14, <1>15, <1>16
     DEF Next, CallerNext, ReadingNext, ServeNext, GroupNext

\* What is on its way to a subscription reaches it in order and without a gap
\* while it stays subscribed, whoever else subscribes, and is at most three
\* records: the reader is what Publisher.tla takes it for (streamreader.go:
\* serve, ConsumeClaim).
THEOREM QueuesImplemented == Spec => ImplementsQueues
<1>1. Init => FreshInv
  BY DEF Init, FreshInv
<1>2. Init => Queues!Init
  BY DEF Init, Queues!Init, OnTheWay
<1>3. IInv /\ FreshInv /\ [Next]_vars => FreshInv'
  BY FreshStep
<1>4. IInv /\ IInv' /\ FreshInv /\ [Next]_vars => Queues!Next
  BY WayStep, WaysAreSteps
<1> QED  BY <1>1, <1>2, <1>3, <1>4, Invariance, PTL
         DEF Spec, ImplementsQueues, Queues!Spec
=============================================================================
