--------------------------- MODULE ProcessProofs ----------------------------
(***************************************************************************)
(* Proofs about Process: what Close promises, what is left behind, and     *)
(* who may still log, wherever startup fails or serving ends.              *)
(***************************************************************************)
EXTENDS Process, TLAPS

Closes == {"closing", "report", "wait"}

\* Where main is, and what it has opened by then.
StageInv ==
  /\ main \in {"dial", "stopped"} => opened = 0
  /\ main \in {"started", "serve"} => opened = All
  /\ fatal => main \in Closes /\ opened > 0

\* main may log: the log is open.
LogUsed ==
  \/ main \in {"start", "started", "serve", "unwind", "stopped"}
  \/ main \in Closes /\ opened > 0

LogInv ==
  /\ drainer["log"] # "log"
  /\ main = "dial" => writer["log"] = "none" /\ drainer["log"] = "none"
  /\ LogUsed => writer["log"] = "open"

\* What main has opened is open, up to what it is closing.
OpenInv ==
  \A n \in 1..opened :
    Resource(n) \in Writers /\ ~(main \in Closes /\ n = opened) =>
      writer[Resource(n)] = "open"

ClosingInv ==
  Closing \in Writers =>
    /\ main = "closing" => writer[Closing] = "closing"
    /\ main \in {"report", "wait"} => writer[Closing] = "closed"

\* A writer, and its drainer, that is not to be closed any more.
Over(w) == writer[w] \in {"none", "closed"} /\ drainer[w] \in {"none", "done"}

HeldInv ==
  main # "ended" =>
    \A w \in Writers \ {"log", "notifier"} :
      Over(w) \/ \E n \in 1..opened : Resource(n) = w

EndInv == main = "ended" => \A w \in Writers \ {"notifier"} : Over(w)

EmptyInv ==
  \A w \in Writers :
    writer[w] \in {"none", "closed"} => pending[w] = 0 /\ errors[w] = 0

NotifierInv ==
  "notifier" \in Writers => writer["notifier"] \in {"none", "open"}

IInv ==
  /\ TypeOK /\ StageInv /\ LogInv /\ OpenInv /\ ClosingInv /\ HeldInv
  /\ EndInv /\ EmptyInv /\ NotifierInv /\ LogOutlives

-----------------------------------------------------------------------------
\* What the two lists of resources have in common.
LEMMA ResourceFacts ==
  ASSUME process \in DOMAIN Resources
  PROVE  /\ All = 4
         /\ \A n \in 1..4 : Resource(n) # "log"
         /\ \A n \in 1..4, k \in 1..4 : Resource(n) = Resource(k) => n = k
         /\ process = "publisher" => Resource(4) = "notifier"
         /\ \A n \in 0..3 : Resource(n + 1) = "messages" =>
              n > 0 /\ Resource(n) = "posts"
<1>1. CASE process = "accesspoint"
  <2>1. Resources[process] = <<"db", "posts", "messages", "listener">>
    BY <1>1 DEF Resources
  <2> QED  BY <1>1, <2>1 DEF All, Resource
<1>2. CASE process = "publisher"
  <2>1. Resources[process]
          = <<"db", "postsStream", "messagesStream", "notifier">>
    BY <1>2 DEF Resources
  <2> QED  BY <1>2, <2>1 DEF All, Resource
<1> QED  BY <1>1, <1>2 DEF Resources

\* What main is closing.
LEMMA ClosingFacts ==
  ASSUME TypeOK
  PROVE  /\ opened \in 0..4 /\ All = 4
         /\ Closing = "log" <=> opened = 0
         /\ opened > 0 => Closing = Resource(opened)
         /\ "log" \in Writers /\ Async \subseteq Writers
         /\ HasClose("log")
<1>1. process \in DOMAIN Resources /\ opened \in 0..All
  BY DEF TypeOK
<1>2. opened \in 0..4
  BY <1>1, ResourceFacts
<1> QED
  BY <1>1, <1>2, ResourceFacts, WritersAssumption DEF Closing, HasClose

\* A record that is sent to a writer.
LEMMA SentFacts ==
  ASSUME TypeOK, EmptyInv, NEW w \in Writers, NEW who, Sent(w, who),
         writer' = writer
  PROVE  /\ pending' \in [Writers -> Nat] /\ errors' \in [Writers -> Nat]
         /\ EmptyInv'
         /\ writer[w] = "open" => panic' = panic
         /\ writer[w] # "closed" => panic' = panic
         /\ panic' = panic \/ panic' = who
<1>1. /\ pending \in [Writers -> Nat] /\ errors \in [Writers -> Nat]
      /\ writer \in [Writers -> {"none", "open", "closing", "closed"}]
  BY DEF TypeOK, WriterTypeOK
<1>2. CASE /\ writer[w] = "open"
           /\ pending' = [pending EXCEPT ![w] = @ + 1]
           /\ UNCHANGED <<errors, panic>>
  <2>1. EmptyInv'
    BY <1>1, <1>2 DEF EmptyInv
  <2> QED  BY <1>1, <1>2, <2>1
<1>3. CASE /\ writer[w] = "closing"
           /\ errors' = [errors EXCEPT ![w] = @ + 1]
           /\ UNCHANGED <<pending, panic>>
  <2>1. EmptyInv'
    BY <1>1, <1>3 DEF EmptyInv
  <2> QED  BY <1>1, <1>3, <2>1
<1>4. CASE /\ writer[w] = "closed" /\ panic' = who
           /\ UNCHANGED <<pending, errors>>
  BY <1>1, <1>4 DEF EmptyInv
<1> QED  BY <1>2, <1>3, <1>4 DEF Sent

\* main logs where it may: no panic.
LEMMA LogsFacts ==
  ASSUME IInv, LogUsed, Logs, writer' = writer
  PROVE  /\ pending' \in [Writers -> Nat] /\ errors' \in [Writers -> Nat]
         /\ EmptyInv' /\ panic' = panic
<1>1. TypeOK /\ EmptyInv /\ writer["log"] = "open" /\ "log" \in Writers
  BY ClosingFacts DEF IInv, LogInv
<1> QED  BY <1>1, SentFacts DEF Logs

-----------------------------------------------------------------------------
LEMMA InitIInv == Init => IInv
<1> SUFFICES ASSUME Init PROVE IInv
  OBVIOUS
<1>1. TypeOK
  <2>1. All = 4
    BY ResourceFacts DEF Init
  <2>2. WriterTypeOK /\ panic = "none"
    BY DEF Init, WriterInit, WriterTypeOK
  <2>3. pushes \in [Handlers \union {"main"} -> 0..MaxPush]
    BY PushAssumption DEF Init
  <2>4. /\ main \in Mains /\ attempt \in 1..MaxDial /\ opened \in 0..All
        /\ handler \in [Handlers -> {"idle"} \union Async]
    BY <2>1 DEF Init, Mains, MaxDial
  <2> QED  BY <2>2, <2>3, <2>4 DEF Init, TypeOK
<1>2. StageInv /\ OpenInv
  BY DEF Init, StageInv, OpenInv
<1>3. \A w \in Writers : Over(w)
  BY DEF Init, WriterInit, Over
<1>4. LogInv
  BY WritersAssumption DEF Init, WriterInit, LogInv, LogUsed, Closes
<1>5. ClosingInv /\ HeldInv /\ EndInv /\ EmptyInv /\ NotifierInv /\ LogOutlives
  BY <1>3 DEF Init, WriterInit, ClosingInv, HeldInv, EndInv, EmptyInv,
              NotifierInv, LogOutlives
<1> QED  BY <1>1, <1>2, <1>4, <1>5 DEF IInv

-----------------------------------------------------------------------------
\* A step that leaves main and the states of the writers alone.
LEMMA SameStage ==
  ASSUME IInv, main # "ended", TypeOK', EmptyInv', LogOutlives',
         UNCHANGED <<process, main, opened, fatal, writer>>,
         drainer'["log"] # "log",
         \A w \in Writers :
           drainer'[w] = drainer[w] \/ drainer[w] \in {"range", "log"}
  PROVE  IInv'
<1>1. StageInv' /\ OpenInv' /\ ClosingInv' /\ NotifierInv'
  BY DEF IInv, StageInv, OpenInv, ClosingInv, NotifierInv, Closing, Resource,
         All
<1>2. \A w \in Writers : Over(w) => Over(w)'
  BY DEF Over
<1>3. HeldInv'
  BY <1>2 DEF IInv, HeldInv, Resource
<1>4. LogInv'
  BY WritersAssumption DEF IInv, LogInv, LogUsed
<1>5. EndInv'
  BY DEF EndInv
<1> QED  BY <1>1, <1>3, <1>4, <1>5 DEF IInv

\* Main moves, with a record to the log if it may, and nothing else happens.
LEMMA MainLogs ==
  ASSUME IInv, NEW to \in Mains, main' = to, LogUsed,
         Logs \/ UNCHANGED <<pending, errors, panic>>,
         UNCHANGED <<writer, drainer, collected, process, named, attempt,
                     opened, fatal, handlerVars>>
  PROVE  TypeOK' /\ EmptyInv' /\ LogOutlives'
<1>1. /\ pending' \in [Writers -> Nat] /\ errors' \in [Writers -> Nat]
      /\ EmptyInv' /\ panic' = panic
  <2>1. CASE Logs
    BY <2>1, LogsFacts
  <2>2. CASE UNCHANGED <<pending, errors, panic>>
    BY <2>2 DEF IInv, TypeOK, WriterTypeOK, EmptyInv
  <2> QED  BY <2>1, <2>2
<1>2. TypeOK'
  BY <1>1 DEF IInv, TypeOK, WriterTypeOK, handlerVars, All
<1> QED  BY <1>1, <1>2 DEF IInv, LogOutlives

\* The steps of startup.
LEMMA StartupStep == IInv /\ Startup => IInv'
<1> SUFFICES ASSUME IInv, Startup PROVE IInv'
  OBVIOUS
<1> USE DEF IInv
<1>0. /\ opened \in 0..4 /\ All = 4 /\ "log" \in Writers
      /\ (Closing = "log" <=> opened = 0)
      /\ process \in DOMAIN Resources
  BY ClosingFacts DEF TypeOK
<1>1. CASE DialAgain
  <2>1. /\ main = "dial" /\ main' = "dial" /\ attempt' = attempt + 1
        /\ attempt < MaxDial
        /\ UNCHANGED <<writerVars, opened, fatal, process, named, handlerVars>>
    BY <1>1 DEF DialAgain, Main, Running
  <2>2. TypeOK'
    BY <2>1 DEF TypeOK, WriterTypeOK, writerVars, handlerVars, MaxDial, All
  <2>3. EmptyInv' /\ LogOutlives'
    BY <2>1 DEF EmptyInv, LogOutlives, writerVars
  <2> QED  BY <2>1, <2>2, <2>3, SameStage DEF LogInv, writerVars
<1>2. CASE DialPanics
  <2>1. /\ main = "dial" /\ main' = "ended"
        /\ UNCHANGED <<writerVars, attempt, opened, fatal, process, named,
                       handlerVars>>
    BY <1>2 DEF DialPanics, Main, Running
  <2>2. TypeOK' /\ EmptyInv' /\ LogOutlives' /\ NotifierInv' /\ StageInv'
    BY <2>1 DEF TypeOK, WriterTypeOK, writerVars, handlerVars, Mains, All,
                EmptyInv, LogOutlives, NotifierInv, StageInv, Closes
  <2>3. LogInv' /\ OpenInv' /\ ClosingInv' /\ HeldInv'
    BY <2>1 DEF LogInv, LogUsed, Closes, OpenInv, StageInv, ClosingInv, HeldInv,
                writerVars
  <2>4. EndInv'
    <3>1. \A w \in Writers \ {"log", "notifier"} : Over(w)
      BY <2>1 DEF HeldInv, StageInv
    <3>2. Over("log")
      BY <2>1 DEF LogInv, Over
    <3> QED  BY <2>1, <3>1, <3>2 DEF EndInv, Over, writerVars
  <2> QED  BY <2>2, <2>3, <2>4
<1>3. CASE DialSucceeds
  <2>1. /\ main = "dial" /\ main' = "start" /\ opened = 0
        /\ writer' = [writer EXCEPT !["log"] = "open"]
        /\ drainer' = [drainer EXCEPT !["log"] = "range"]
        /\ pending' = [pending EXCEPT !["log"] = 1]
        /\ UNCHANGED <<errors, collected, panic, attempt, opened, fatal,
                       process, named, handlerVars>>
    BY <1>3, WritersAssumption DEF DialSucceeds, Main, Running, Opened, StageInv
  <2>2. TypeOK'
    BY <2>1 DEF TypeOK, WriterTypeOK, handlerVars, Mains, All
  <2>3. EmptyInv' /\ LogOutlives' /\ NotifierInv' /\ StageInv'
    BY <1>0, <2>1 DEF TypeOK, WriterTypeOK, EmptyInv, LogOutlives, NotifierInv,
                      StageInv, Closes
  <2>4. LogInv'
    BY <1>0, <2>1 DEF TypeOK, WriterTypeOK, LogInv
  <2>5. OpenInv' /\ ClosingInv' /\ EndInv'
    BY <2>1 DEF OpenInv, ClosingInv, EndInv, StageInv, Closes
  <2>6. HeldInv'
    BY <1>0, <2>1 DEF HeldInv, Over, TypeOK, WriterTypeOK
  <2> QED  BY <2>2, <2>3, <2>4, <2>5, <2>6
<1>4. CASE Open
  <2> DEFINE r == Resource(opened + 1)
  <2>1. /\ opened < 4 /\ main = "start" /\ opened' = opened + 1
        /\ main' = (IF opened + 1 < 4 THEN "start" ELSE "started")
        /\ UNCHANGED <<pending, errors, collected, panic, attempt, fatal,
                       process, named, handlerVars>>
    BY <1>0, <1>4 DEF Open, Main, Running
  <2>2. r # "log" /\ \A n \in 1..opened : Resource(n) # r
    BY <1>0, <2>1, ResourceFacts
  <2>3. \A n \in 1..4 : Resource(n)' = Resource(n)
    BY <2>1 DEF Resource
  <2>4. /\ r \in Writers => writer'[r] = "open"
        /\ \A w \in Writers \ {r} :
             writer'[w] = writer[w] /\ drainer'[w] = drainer[w]
        /\ writer' \in [Writers -> {"none", "open", "closing", "closed"}]
        /\ drainer' \in [Writers -> {"none", "range", "log", "done"}]
    BY <1>4 DEF Open, Opened, TypeOK, WriterTypeOK
  <2> HIDE DEF r
  <2>5. TypeOK'
    <3>1. All' = 4 /\ opened' \in 0..4 /\ main' \in Mains
      BY <1>0, <2>1 DEF All, Mains
    <3>2. WriterTypeOK'
      BY <2>1, <2>4 DEF TypeOK, WriterTypeOK
    <3> QED  BY <2>1, <3>1, <3>2 DEF TypeOK, handlerVars
  <2>6. EmptyInv'
    BY <2>1, <2>4 DEF EmptyInv
  <2>7. LogOutlives' /\ EndInv' /\ ClosingInv'
    BY <2>1 DEF LogOutlives, EndInv, ClosingInv
  <2>8. StageInv' /\ LogInv'
    <3>1. All' = All
      BY <2>1 DEF All
    <3> QED
      BY <1>0, <2>1, <2>2, <2>4, <3>1 DEF StageInv, LogInv, LogUsed, Closes
  <2>9. OpenInv'
    <3>1. \A n \in 1..(opened + 1) : n = opened + 1 \/ n \in 1..opened
      BY <1>0
    <3> QED  BY <1>0, <2>1, <2>2, <2>3, <2>4, <3>1 DEF OpenInv, Closes, r
  <2>10. HeldInv'
    <3>1. \A w \in Writers \ {r} : Over(w) => Over(w)'
      BY <2>4 DEF Over
    <3>2. \A n \in 1..opened : n \in 1..opened' /\ Resource(n)' = Resource(n)
      BY <1>0, <2>1, <2>3
    <3>3. PICK m \in 1..opened' : m = opened + 1
      BY <1>0, <2>1
    <3>4. Resource(m)' = r
      BY <1>0, <2>1, <2>3, <3>3 DEF r
    <3> QED  BY <2>1, <3>1, <3>2, <3>4 DEF HeldInv
  <2>11. NotifierInv'
    BY <2>4 DEF NotifierInv
  <2> QED
    BY <2>5, <2>6, <2>7, <2>8, <2>9, <2>10, <2>11
<1>5. CASE OpenFails /\ main' = "unwind"
  <2>1. /\ main = "start" /\ Logs
        /\ UNCHANGED <<writer, drainer, collected, fatal, attempt, opened,
                       process, named, handlerVars>>
    BY <1>5 DEF OpenFails, Main, Running
  <2>2. TypeOK' /\ EmptyInv' /\ LogOutlives'
    BY <1>5, <2>1, MainLogs DEF Mains, LogUsed
  <2>3. StageInv' /\ LogInv' /\ NotifierInv' /\ EndInv' /\ ClosingInv'
    BY <1>5, <2>1 DEF StageInv, LogInv, LogUsed, NotifierInv, EndInv,
                      ClosingInv, Closes
  <2>4. OpenInv' /\ HeldInv'
    BY <1>5, <2>1 DEF OpenInv, HeldInv, Over, Resource, Closes
  <2> QED  BY <2>2, <2>3, <2>4
<1>6. CASE OpenFails /\ main' # "unwind"
  <2>1. /\ main = "start" /\ main' = "closing" /\ fatal' = TRUE /\ opened < 4
        /\ Resource(opened + 1) = "messages"
        /\ writer' = [writer EXCEPT !["posts"] = "closing"]
        /\ UNCHANGED <<pending, errors, drainer, collected, panic, attempt,
                       opened, process, named, handlerVars>>
    BY <1>0, <1>6 DEF OpenFails, Main, Running, BeginClose
  <2>2. opened > 0 /\ Resource(opened) = "posts" /\ Closing = "posts"
    BY <1>0, <2>1, ResourceFacts DEF Closing
  <2>3. TypeOK'
    BY <2>1 DEF TypeOK, WriterTypeOK, handlerVars, Mains, All
  <2>4. EmptyInv' /\ LogOutlives' /\ EndInv' /\ NotifierInv'
    BY <2>1 DEF EmptyInv, LogOutlives, EndInv, NotifierInv, TypeOK, WriterTypeOK
  <2>5. StageInv' /\ LogInv'
    BY <2>1, <2>2 DEF StageInv, LogInv, LogUsed, Closes, TypeOK, WriterTypeOK
  <2>6. Closing' = "posts" /\ \A n \in 1..4 : Resource(n)' = Resource(n)
    BY <2>1, <2>2 DEF Closing, Resource
  <2>7. ClosingInv'
    BY <2>1, <2>6 DEF ClosingInv, TypeOK, WriterTypeOK
  <2>8. OpenInv'
    <3>1. \A n \in 1..opened : n # opened => Resource(n) # "posts"
      BY <1>0, <2>2, ResourceFacts
    <3> QED  BY <1>0, <2>1, <2>6, <3>1 DEF OpenInv, Closes, TypeOK, WriterTypeOK
  <2>9. HeldInv'
    <3>1. \A w \in Writers : w # "posts" /\ Over(w) => Over(w)'
      BY <2>1 DEF Over, TypeOK, WriterTypeOK
    <3>2. opened \in 1..opened' /\ Resource(opened)' = "posts"
      BY <1>0, <2>1, <2>2 DEF Resource
    <3>3. \A n \in 1..opened : n \in 1..opened' /\ Resource(n)' = Resource(n)
      BY <2>1 DEF Resource
    <3> QED  BY <2>1, <3>1, <3>2, <3>3 DEF HeldInv
  <2> QED  BY <2>3, <2>4, <2>5, <2>7, <2>8, <2>9
<1>7. CASE Started
  <2>1. /\ main = "started" /\ main' = "serve" /\ Logs
        /\ UNCHANGED <<writer, drainer, collected, fatal, attempt, opened,
                       process, named, handlerVars>>
    BY <1>7 DEF Started, Main, Running
  <2>2. TypeOK' /\ EmptyInv' /\ LogOutlives'
    BY <2>1, MainLogs DEF Mains, LogUsed
  <2>3. StageInv' /\ LogInv' /\ NotifierInv' /\ EndInv' /\ ClosingInv'
    BY <2>1 DEF StageInv, LogInv, LogUsed, NotifierInv, EndInv, ClosingInv,
                Closes, All
  <2>4. OpenInv' /\ HeldInv'
    BY <2>1 DEF OpenInv, HeldInv, Over, Resource, Closes
  <2> QED  BY <2>2, <2>3, <2>4
<1> QED
  BY <1>1, <1>2, <1>3, <1>4, <1>5, <1>6, <1>7 DEF Startup

\* The steps of the drainers and producers.
LEMMA WriterStep == IInv /\ (\E w \in Async : WriterNext(w)) => IInv'
<1> SUFFICES ASSUME IInv, NEW w \in Async, WriterNext(w) PROVE IInv'
  OBVIOUS
<1> USE DEF IInv
<1>0. /\ main # "ended" /\ w \in Writers /\ "log" \in Writers
      /\ UNCHANGED <<process, named, mainVars, handlerVars>>
  BY WritersAssumption DEF WriterNext, Running
<1>1. ASSUME WriterTypeOK',
             panic' \in {"none", "main"} \union Handlers \union Writers
      PROVE  TypeOK'
  BY <1>0, <1>1 DEF TypeOK, mainVars, handlerVars, All
<1>2. CASE Store(w) \/ Fail(w)
  <2>1. WriterTypeOK' /\ panic' = panic
    BY <1>0, <1>2 DEF Store, Fail, TypeOK, WriterTypeOK
  <2>2. EmptyInv'
    BY <1>0, <1>2 DEF Store, Fail, EmptyInv, TypeOK, WriterTypeOK
  <2>3. TypeOK' /\ LogOutlives'
    BY <1>1, <2>1 DEF LogOutlives, TypeOK
  <2>4. writer' = writer /\ drainer' = drainer
    BY <1>2 DEF Store, Fail
  <2> QED
    BY <1>0, <2>2, <2>3, <2>4, SameStage DEF mainVars, LogInv
<1>3. CASE TakeError(w) \/ DrainerEnds(w)
  <2>1. WriterTypeOK' /\ panic' = panic
    BY <1>0, <1>3 DEF TakeError, DrainerEnds, TypeOK, WriterTypeOK
  <2>2. EmptyInv'
    BY <1>0, <1>3 DEF TakeError, DrainerEnds, EmptyInv, TypeOK, WriterTypeOK
  <2>3. TypeOK' /\ LogOutlives'
    BY <1>1, <2>1 DEF LogOutlives, TypeOK
  <2>4. /\ writer' = writer /\ drainer'["log"] # "log"
        /\ \A v \in Writers :
             drainer'[v] = drainer[v] \/ drainer[v] \in {"range", "log"}
    BY <1>0, <1>3 DEF TakeError, DrainerEnds, TypeOK, WriterTypeOK, LogInv
  <2> QED
    BY <1>0, <2>2, <2>3, <2>4, SameStage DEF mainVars
<1>4. CASE LogError(w)
  <2>1. /\ drainer[w] = "log" /\ Sent("log", w)
        /\ drainer' = [drainer EXCEPT ![w] = "range"]
        /\ writer' = writer /\ collected' = collected
    BY <1>4 DEF LogError
  <2>2. w # "log" /\ ~Over(w)
    BY <2>1 DEF LogInv, Over
  <2>3. w # "notifier" => panic' = panic
    <3>1. SUFFICES ASSUME w # "notifier" PROVE writer["log"] = "open"
      BY <1>0, <2>1, SentFacts
    <3>2. \E n \in 1..opened : Resource(n) = w
      BY <1>0, <2>2, <3>1 DEF HeldInv
    <3>3. opened \in 0..4 /\ opened > 0
      BY <3>2, ClosingFacts
    <3>4. LogUsed
      BY <1>0, <3>3 DEF LogUsed, Closes, StageInv, TypeOK, Mains
    <3> QED  BY <3>4 DEF LogInv
  <2>4. /\ pending' \in [Writers -> Nat] /\ errors' \in [Writers -> Nat]
        /\ EmptyInv' /\ (panic' = panic \/ panic' = w)
    BY <1>0, <2>1, SentFacts
  <2>5. TypeOK'
    BY <1>0, <1>1, <2>1, <2>4 DEF TypeOK, WriterTypeOK
  <2>6. LogOutlives'
    BY <2>3, <2>4 DEF LogOutlives
  <2>7. /\ drainer'["log"] # "log"
        /\ \A v \in Writers :
             drainer'[v] = drainer[v] \/ drainer[v] \in {"range", "log"}
    BY <1>0, <2>1 DEF TypeOK, WriterTypeOK, LogInv
  <2> QED
    BY <1>0, <2>1, <2>4, <2>5, <2>6, <2>7, SameStage DEF mainVars
<1> QED  BY <1>2, <1>3, <1>4 DEF WriterNext

\* The steps of the publisher's loop and of handlers.
LEMMA ServingStep ==
  ASSUME IInv,
         \/ ServeEnds \/ \E w \in Async : LoopPushes(w)
         \/ \E h \in Handlers :
              HandlerPushes(h) \/ \E w \in Async : HandlerCalls(h, w)
  PROVE  IInv'
<1> USE DEF IInv
<1>0. "log" \in Writers /\ Async \subseteq Writers
  BY ClosingFacts
<1>1. CASE ServeEnds
  <2>1. /\ main = "serve" /\ main' = "unwind" /\ Logs
        /\ UNCHANGED <<writer, drainer, collected, fatal, attempt, opened,
                       process, named, handlerVars>>
    BY <1>1 DEF ServeEnds, Main, Running
  <2>2. TypeOK' /\ EmptyInv' /\ LogOutlives'
    BY <2>1, MainLogs DEF Mains, LogUsed
  <2>3. StageInv' /\ LogInv' /\ NotifierInv' /\ EndInv' /\ ClosingInv'
    BY <2>1 DEF StageInv, LogInv, LogUsed, NotifierInv, EndInv, ClosingInv,
                Closes
  <2>4. OpenInv' /\ HeldInv'
    BY <2>1 DEF OpenInv, HeldInv, Over, Resource, Closes
  <2> QED  BY <2>2, <2>3, <2>4
<1>2. ASSUME NEW w \in Async, LoopPushes(w) PROVE IInv'
  <2>1. /\ process = "publisher" /\ main = "serve" /\ w \in {"log", Target}
        /\ pushes["main"] < MaxPush /\ Sent(w, "main")
        /\ pushes' = [pushes EXCEPT !["main"] = @ + 1]
        /\ UNCHANGED <<writer, drainer, collected, mainVars, handler, process,
                       named>>
    BY <1>2 DEF LoopPushes, Running
  <2>2. writer[w] = "open"
    <3>1. CASE w = "log"
      BY <2>1, <3>1 DEF LogInv, LogUsed
    <3>2. CASE w = "notifier"
      <4>1. opened = 4 /\ Resource(4) = "notifier"
        BY <2>1, ResourceFacts DEF StageInv, TypeOK
      <4> QED  BY <1>0, <2>1, <3>2, <4>1 DEF OpenInv, Closes
    <3> QED  BY <2>1, <3>1, <3>2 DEF Target
  <2>3. /\ pending' \in [Writers -> Nat] /\ errors' \in [Writers -> Nat]
        /\ EmptyInv' /\ panic' = panic
    BY <1>0, <2>1, <2>2, SentFacts
  <2>4. pushes' \in [Handlers \union {"main"} -> 0..MaxPush]
    BY <2>1, PushAssumption DEF TypeOK
  <2>5. TypeOK' /\ LogOutlives'
    BY <2>1, <2>3, <2>4 DEF TypeOK, WriterTypeOK, LogOutlives, mainVars, All
  <2> QED  BY <2>1, <2>3, <2>5, SameStage DEF mainVars, LogInv
<1>3. ASSUME NEW h \in Handlers, NEW w \in Async, HandlerCalls(h, w) PROVE IInv'
  <2>1. /\ main = "serve" /\ pushes[h] < MaxPush
        /\ handler' = [handler EXCEPT ![h] = w]
        /\ pushes' = [pushes EXCEPT ![h] = @ + 1]
        /\ UNCHANGED <<writerVars, mainVars, process, named>>
    BY <1>3 DEF HandlerCalls, Running
  <2>2. pushes' \in [Handlers \union {"main"} -> 0..MaxPush]
    BY <2>1, PushAssumption DEF TypeOK
  <2>3. TypeOK'
    BY <2>1, <2>2 DEF TypeOK, WriterTypeOK, mainVars, writerVars, All
  <2>4. EmptyInv' /\ LogOutlives'
    BY <2>1 DEF EmptyInv, LogOutlives, writerVars
  <2> QED  BY <2>1, <2>3, <2>4, SameStage DEF mainVars, writerVars, LogInv
<1>4. ASSUME NEW h \in Handlers, HandlerPushes(h) PROVE IInv'
  <2>1. /\ main # "ended" /\ handler[h] # "idle" /\ Sent(handler[h], h)
        /\ handler' = [handler EXCEPT
                         ![h] = IF @ = "log" THEN "idle" ELSE "log"]
        /\ UNCHANGED <<writer, drainer, collected, mainVars, pushes, process,
                       named>>
    BY <1>4 DEF HandlerPushes, Running
  <2>2. handler[h] \in Writers
    BY <1>0, <2>1 DEF TypeOK
  <2>3. /\ pending' \in [Writers -> Nat] /\ errors' \in [Writers -> Nat]
        /\ EmptyInv' /\ (panic' = panic \/ panic' = h)
    BY <2>1, <2>2, SentFacts
  <2>4. TypeOK' /\ LogOutlives'
    BY <2>1, <2>3, WritersAssumption
       DEF TypeOK, WriterTypeOK, LogOutlives, mainVars, All
  <2> QED  BY <2>1, <2>3, <2>4, SameStage DEF mainVars, LogInv
<1> QED  BY <1>1, <1>2, <1>3, <1>4

\* The deferred calls: main takes the next one.
LEMMA UnwindStep ==
  ASSUME IInv, Release \/ CloseWriter \/ LogStopped \/ CloseLog
  PROVE  IInv'
<1> USE DEF IInv
<1>0. /\ opened \in 0..4 /\ All = 4 /\ "log" \in Writers
      /\ (Closing = "log" <=> opened = 0) /\ HasClose("log")
      /\ (opened > 0 => Closing = Resource(opened))
      /\ process \in DOMAIN Resources
  BY ClosingFacts DEF TypeOK
<1>1. CASE Release
  <2>1. /\ main = "unwind" /\ main' = "unwind" /\ opened' = opened - 1
        /\ ~HasClose(Closing)
        /\ UNCHANGED <<writerVars, attempt, fatal, process, named, handlerVars>>
    BY <1>1 DEF Release, Main, Running
  <2>2. opened > 0 /\ ~HasClose(Resource(opened))
    BY <1>0, <2>1
  <2>3. TypeOK'
    <3>1. opened' \in 0..4 /\ All' = 4
      BY <1>0, <2>1, <2>2 DEF All
    <3> QED  BY <2>1, <3>1 DEF TypeOK, WriterTypeOK, writerVars, handlerVars
  <2>4. StageInv' /\ LogInv' /\ NotifierInv' /\ EndInv' /\ ClosingInv'
    BY <2>1 DEF StageInv, LogInv, LogUsed, NotifierInv, EndInv, ClosingInv,
                Closes, writerVars
  <2>5. EmptyInv' /\ LogOutlives'
    BY <2>1 DEF EmptyInv, LogOutlives, writerVars
  <2>6. \A n \in 1..4 : Resource(n)' = Resource(n)
    BY <2>1 DEF Resource
  <2>7. \A n \in 1..opened' : n \in 1..opened /\ n \in 1..4
    BY <1>0, <2>1
  <2>8. OpenInv'
    BY <2>1, <2>6, <2>7 DEF OpenInv, Closes, writerVars
  <2>9. HeldInv'
    <3>1. \A n \in 1..opened : n \in 1..opened' \/ n = opened
      BY <1>0, <2>1
    <3>2. \A w \in Writers \ {"log", "notifier"} : Resource(opened) # w
      BY <2>2 DEF HasClose
    <3> QED
      BY <2>1, <2>6, <2>7, <3>1, <3>2 DEF HeldInv, Over, writerVars
  <2> QED  BY <2>3, <2>4, <2>5, <2>8, <2>9
<1>2. CASE CloseWriter
  <2> DEFINE r == Resource(opened)
  <2>0. Closing # "log" /\ opened > 0 /\ Closing = r /\ HasClose(Closing)
    BY <1>0, <1>2 DEF CloseWriter
  <2>1. /\ main = "unwind" /\ main' = "closing" /\ opened > 0 /\ Closing = r
        /\ r \in Writers /\ r # "notifier" /\ r # "log"
        /\ writer' = [writer EXCEPT ![r] = "closing"]
        /\ UNCHANGED <<pending, errors, drainer, collected, panic, attempt,
                       opened, fatal, process, named, handlerVars>>
    <3> HIDE DEF r
    <3> QED
      BY <1>2, <2>0 DEF CloseWriter, Main, Running, BeginClose, HasClose
  <2>2. \A n \in 1..opened : n # opened => Resource(n) # r
    BY <1>0, <2>1, ResourceFacts
  <2>3. Closing' = r /\ \A n \in 1..4 : Resource(n)' = Resource(n)
    BY <2>1 DEF Closing, Resource
  <2>4. \A n \in 1..opened : n \in 1..4
    BY <1>0
  <2> HIDE DEF r
  <2>5. TypeOK'
    BY <2>1 DEF TypeOK, WriterTypeOK, handlerVars, Mains, All
  <2>6. EmptyInv' /\ LogOutlives' /\ EndInv' /\ NotifierInv'
    BY <2>1 DEF EmptyInv, LogOutlives, EndInv, NotifierInv, TypeOK, WriterTypeOK
  <2>7. StageInv' /\ LogInv'
    BY <2>1 DEF StageInv, LogInv, LogUsed, Closes, TypeOK, WriterTypeOK
  <2>8. ClosingInv'
    BY <2>1, <2>3 DEF ClosingInv, TypeOK, WriterTypeOK
  <2>9. OpenInv'
    BY <2>1, <2>2, <2>3, <2>4 DEF OpenInv, Closes, TypeOK, WriterTypeOK
  <2>10. HeldInv'
    <3>1. \A w \in Writers : w # r /\ Over(w) => Over(w)'
      BY <2>1 DEF Over, TypeOK, WriterTypeOK
    <3>2. \E n \in 1..opened : Resource(n) = r
      BY <1>0, <2>1 DEF r
    <3> QED  BY <2>1, <2>3, <2>4, <3>1, <3>2 DEF HeldInv
  <2> QED  BY <2>5, <2>6, <2>7, <2>8, <2>9, <2>10
<1>3. CASE LogStopped
  <2>1. /\ main = "unwind" /\ main' = "stopped" /\ Logs /\ opened = 0
        /\ UNCHANGED <<writer, drainer, collected, attempt, opened, fatal,
                       process, named, handlerVars>>
    BY <1>0, <1>3 DEF LogStopped, Main, Running
  <2>2. TypeOK' /\ EmptyInv' /\ LogOutlives'
    BY <2>1, MainLogs DEF Mains, LogUsed
  <2>3. StageInv' /\ LogInv' /\ NotifierInv' /\ EndInv' /\ ClosingInv'
    BY <2>1 DEF StageInv, LogInv, LogUsed, NotifierInv, EndInv, ClosingInv,
                Closes
  <2>4. OpenInv' /\ HeldInv'
    BY <2>1 DEF OpenInv, HeldInv, Over, Resource, Closes
  <2> QED  BY <2>2, <2>3, <2>4
<1>4. CASE CloseLog
  <2>1. /\ main = "stopped" /\ main' = "closing" /\ opened = 0 /\ fatal = FALSE
        /\ writer' = [writer EXCEPT !["log"] = "closing"]
        /\ UNCHANGED <<pending, errors, drainer, collected, panic, attempt,
                       opened, fatal, process, named, handlerVars>>
    BY <1>4 DEF CloseLog, Main, Running, BeginClose, StageInv, Closes, TypeOK
  <2>2. Closing' = "log"
    BY <1>0, <2>1 DEF Closing
  <2>3. TypeOK'
    BY <2>1 DEF TypeOK, WriterTypeOK, handlerVars, Mains, All
  <2>4. EmptyInv' /\ LogOutlives' /\ EndInv' /\ NotifierInv'
    BY <2>1 DEF EmptyInv, LogOutlives, EndInv, NotifierInv, TypeOK, WriterTypeOK
  <2>5. StageInv' /\ LogInv' /\ OpenInv'
    BY <2>1 DEF StageInv, LogInv, LogUsed, OpenInv, Closes
  <2>6. ClosingInv'
    BY <1>0, <2>1, <2>2 DEF ClosingInv, TypeOK, WriterTypeOK
  <2>7. HeldInv'
    BY <2>1 DEF HeldInv, Over, Resource, TypeOK, WriterTypeOK
  <2> QED  BY <2>3, <2>4, <2>5, <2>6, <2>7
<1> QED  BY <1>1, <1>2, <1>3, <1>4

\* The parts of Close, and its return.
LEMMA CloseStep ==
  ASSUME IInv, CollectErrors \/ ProducerClosed \/ Report \/ CloseReturns
  PROVE  IInv'
<1> USE DEF IInv
<1>0. /\ opened \in 0..4 /\ All = 4 /\ "log" \in Writers
      /\ (Closing = "log" <=> opened = 0)
      /\ (opened > 0 => Closing = Resource(opened))
      /\ process \in DOMAIN Resources
  BY ClosingFacts DEF TypeOK
<1>1. CASE CollectErrors
  <2>1. /\ main = "closing" /\ main' = "closing"
        /\ writer[Closing] = "closing"
        /\ errors[Closing] > 0
        /\ errors' = [errors EXCEPT ![Closing] = @ - 1] /\ collected' = TRUE
        /\ UNCHANGED <<writer, pending, drainer, panic, attempt, opened, fatal,
                       process, named, handlerVars>>
    BY <1>1 DEF CollectErrors, Main, Running, Collect
  <2>2. errors' \in [Writers -> Nat]
    <3> DEFINE c == Closing
    <3>1. errors' = [errors EXCEPT ![c] = @ - 1] /\ errors[c] > 0
      BY <2>1
    <3> HIDE DEF c
    <3>2. errors \in [Writers -> Nat]
      BY DEF TypeOK, WriterTypeOK
    <3>3. c \in Writers => errors[c] - 1 \in Nat
      BY <3>1, <3>2
    <3> QED  BY <3>1, <3>2, <3>3
  <2>3. TypeOK'
    BY <2>1, <2>2 DEF TypeOK, WriterTypeOK, handlerVars, All
  <2>4. EmptyInv' /\ LogOutlives'
    BY <2>1 DEF EmptyInv, LogOutlives, TypeOK, WriterTypeOK
  <2> QED  BY <2>1, <2>3, <2>4, SameStage DEF LogInv
<1>2. CASE ProducerClosed
  <2> DEFINE r == Closing
  <2>1. /\ main = "closing" /\ main' = "report" /\ writer[r] = "closing"
        /\ pending[r] = 0 /\ errors[r] = 0
        /\ writer' = [writer EXCEPT ![r] = "closed"]
        /\ UNCHANGED <<pending, errors, drainer, collected, panic, attempt,
                       opened, fatal, process, named, handlerVars>>
    BY <1>2 DEF ProducerClosed, Main, Running, ProducerCloses
  <2>2. Closing' = r /\ \A n \in 1..4 : Resource(n)' = Resource(n)
    BY <2>1 DEF Closing, Resource
  <2>3. \A n \in 1..opened : n \in 1..4 /\ (n # opened => Resource(n) # r)
    BY <1>0, ResourceFacts
  <2>4. r = "log" <=> opened = 0
    BY <1>0
  <2> HIDE DEF r
  <2>5. TypeOK'
    BY <2>1 DEF TypeOK, WriterTypeOK, handlerVars, Mains, All
  <2>6. EmptyInv' /\ LogOutlives' /\ EndInv' /\ NotifierInv'
    BY <2>1 DEF EmptyInv, LogOutlives, EndInv, NotifierInv, TypeOK, WriterTypeOK
  <2>7. StageInv' /\ LogInv'
    BY <1>0, <2>1, <2>4 DEF StageInv, LogInv, LogUsed, Closes, TypeOK,
                            WriterTypeOK
  <2>8. ClosingInv'
    BY <2>1, <2>2 DEF ClosingInv, TypeOK, WriterTypeOK
  <2>9. OpenInv'
    BY <2>1, <2>2, <2>3 DEF OpenInv, Closes, TypeOK, WriterTypeOK
  <2>10. HeldInv'
    <3>1. \A w \in Writers : Over(w) => Over(w)'
      BY <2>1 DEF Over, TypeOK, WriterTypeOK
    <3> QED  BY <2>1, <2>2, <2>3, <3>1 DEF HeldInv
  <2> QED  BY <2>5, <2>6, <2>7, <2>8, <2>9, <2>10
<1>3. CASE Report
  <2>1. /\ main = "report" /\ main' = "wait" /\ collected' = FALSE
        /\ (Closing # "log" /\ Logs) \/ UNCHANGED <<pending, errors, panic>>
        /\ UNCHANGED <<writer, drainer, attempt, opened, fatal, process, named,
                       handlerVars>>
    BY <1>3 DEF Report, Main, Running, ReportCollected, Logs
  <2>2. /\ pending' \in [Writers -> Nat] /\ errors' \in [Writers -> Nat]
        /\ EmptyInv' /\ panic' = panic
    <3>1. CASE Closing # "log" /\ Logs
      BY <1>0, <2>1, <3>1, LogsFacts DEF LogUsed, Closes
    <3>2. CASE UNCHANGED <<pending, errors, panic>>
      BY <2>1, <3>2 DEF TypeOK, WriterTypeOK, EmptyInv
    <3> QED  BY <2>1, <3>1, <3>2
  <2>3. TypeOK' /\ LogOutlives'
    BY <2>1, <2>2 DEF TypeOK, WriterTypeOK, handlerVars, Mains, All, LogOutlives
  <2>4. StageInv' /\ LogInv' /\ NotifierInv' /\ EndInv'
    BY <2>1 DEF StageInv, LogInv, LogUsed, NotifierInv, EndInv, Closes
  <2>5. Closing' = Closing
    BY <2>1 DEF Closing, Resource
  <2>6. ClosingInv'
    BY <2>1, <2>5 DEF ClosingInv
  <2>7. OpenInv' /\ HeldInv'
    BY <2>1 DEF OpenInv, HeldInv, Over, Resource, Closes
  <2> QED  BY <2>2, <2>3, <2>4, <2>6, <2>7
<1>4. CASE CloseReturns /\ opened = 0
  <2>1. /\ main = "wait" /\ main' = "ended" /\ opened' = 0 /\ fatal' = FALSE
        /\ drainer["log"] \in {"none", "done"} /\ writer["log"] = "closed"
        /\ ~fatal
        /\ UNCHANGED <<writer, drainer, collected, attempt, process, named,
                       handlerVars>>
    BY <1>0, <1>4 DEF CloseReturns, Main, Running, BarrierPassed, ClosingInv,
                      StageInv
  <2>2. UNCHANGED <<pending, errors, panic>>
    BY <1>4, <2>1 DEF CloseReturns
  <2>3. TypeOK'
    <3>1. opened' \in 0..4 /\ All' = 4 /\ main' \in Mains
      BY <1>0, <2>1 DEF All, Mains
    <3> QED  BY <2>1, <2>2, <3>1 DEF TypeOK, WriterTypeOK, handlerVars
  <2>4. EmptyInv' /\ LogOutlives' /\ NotifierInv' /\ OpenInv'
    BY <2>1, <2>2 DEF EmptyInv, LogOutlives, NotifierInv, OpenInv
  <2>5. StageInv' /\ LogInv' /\ ClosingInv' /\ HeldInv'
    BY <2>1 DEF StageInv, LogInv, LogUsed, Closes, ClosingInv, HeldInv
  <2>6. EndInv'
    <3>1. \A w \in Writers \ {"log", "notifier"} : Over(w)
      BY <1>4, <2>1 DEF HeldInv
    <3> QED  BY <2>1, <3>1 DEF EndInv, Over
  <2> QED  BY <2>3, <2>4, <2>5, <2>6
<1>5. CASE CloseReturns /\ opened > 0
  <2> DEFINE r == Resource(opened)
  <2>1. /\ main = "wait" /\ main' = "unwind" /\ opened' = opened - 1
        /\ fatal' = FALSE /\ Closing = r
        /\ drainer[r] \in {"none", "done"}
        /\ r \in Writers => writer[r] = "closed"
        /\ Logs \/ UNCHANGED <<pending, errors, panic>>
        /\ UNCHANGED <<writer, drainer, collected, attempt, process, named,
                       handlerVars>>
    BY <1>0, <1>5 DEF CloseReturns, Main, Running, BarrierPassed, ClosingInv
  <2>2. LogUsed
    BY <1>5, <2>1 DEF LogUsed, Closes
  <2>3. /\ pending' \in [Writers -> Nat] /\ errors' \in [Writers -> Nat]
        /\ EmptyInv' /\ panic' = panic
    <3>1. CASE Logs
      BY <2>1, <2>2, <3>1, LogsFacts
    <3>2. CASE UNCHANGED <<pending, errors, panic>>
      BY <2>1, <3>2 DEF TypeOK, WriterTypeOK, EmptyInv
    <3> QED  BY <2>1, <3>1, <3>2
  <2>4. opened' \in 0..4 /\ All' = 4
    BY <1>0, <1>5, <2>1 DEF All
  <2>5. TypeOK' /\ LogOutlives'
    BY <2>1, <2>3, <2>4
       DEF TypeOK, WriterTypeOK, handlerVars, Mains, LogOutlives
  <2>6. StageInv' /\ LogInv' /\ NotifierInv' /\ EndInv' /\ ClosingInv'
    BY <2>1, <2>2 DEF StageInv, LogInv, LogUsed, NotifierInv, EndInv,
                      ClosingInv, Closes
  <2>7. /\ \A n \in 1..4 : Resource(n)' = Resource(n)
        /\ \A n \in 1..opened' : n \in 1..4 /\ n \in 1..opened /\ n # opened
        /\ \A n \in 1..opened : n \in 1..opened' \/ n = opened
    BY <1>0, <1>5, <2>1 DEF Resource
  <2>8. OpenInv'
    BY <2>1, <2>7 DEF OpenInv, Closes
  <2>9. HeldInv'
    <3>1. r \in Writers => Over(r)
      BY <2>1 DEF Over
    <3>2. \A w \in Writers : Over(w) => Over(w)'
      BY <2>1 DEF Over
    <3>3. \A w \in Writers, n \in 1..opened :
            Resource(n) = w => Over(w) \/ n \in 1..opened'
      BY <2>7, <3>1
    <3> QED  BY <2>1, <2>7, <3>2, <3>3 DEF HeldInv
  <2> QED  BY <2>3, <2>5, <2>6, <2>8, <2>9
<1> QED  BY <1>0, <1>1, <1>2, <1>3, <1>4, <1>5

-----------------------------------------------------------------------------
LEMMA NextIInv == IInv /\ [Next]_vars => IInv'
<1>1. ASSUME IInv, UNCHANGED vars PROVE IInv'
  <2>1. UNCHANGED <<writer, pending, errors, drainer, collected, panic, process,
                    named, main, attempt, opened, fatal, handler, pushes>>
    BY <1>1 DEF vars, writerVars, mainVars, handlerVars
  <2>2. TypeOK' /\ StageInv' /\ LogInv' /\ OpenInv' /\ ClosingInv'
    BY <1>1, <2>1 DEF IInv, TypeOK, WriterTypeOK, StageInv, LogInv, LogUsed,
                      OpenInv, ClosingInv, Closing, Resource, All
  <2>3. HeldInv' /\ EndInv' /\ EmptyInv' /\ NotifierInv' /\ LogOutlives'
    BY <1>1, <2>1 DEF IInv, HeldInv, EndInv, Over, Resource, EmptyInv,
                      NotifierInv, LogOutlives
  <2> QED  BY <2>2, <2>3 DEF IInv
<1> QED
  BY <1>1, StartupStep, WriterStep, ServingStep, UnwindStep, CloseStep
     DEF Next, Shutdown

\* Whatever fails while a process starts or serves, its state is well typed;
\* in particular it never dials more often than it may (au10/service.go:
\* DialOrPanic).
THEOREM TypeCorrect == Spec => []TypeOK
<1>1. IInv => TypeOK
  BY DEF IInv
<1> QED  BY <1>1, InitIInv, NextIInv, PTL DEF Spec

\* When Close of a writer has returned, nothing it has accepted is left in it
\* or with its drainer (au10/streamwriter.go: Close).
THEOREM CloseHoldsNothing == Spec => []NothingHeld
<1>1. IInv => NothingHeld
  <2> SUFFICES ASSUME IInv, NEW w \in Writers, HasClosed(w)
               PROVE  /\ pending[w] = 0 /\ errors[w] = 0
                      /\ drainer[w] \in {"none", "done"}
    BY DEF NothingHeld
  <2>1. writer[w] = "closed" /\ w # "notifier"
    BY DEF HasClosed, IInv, NotifierInv
  <2>2. pending[w] = 0 /\ errors[w] = 0
    BY <2>1 DEF IInv, EmptyInv
  <2>3. opened \in 0..4 /\ (Closing = "log" <=> opened = 0)
        /\ (opened > 0 => Closing = Resource(opened))
    BY ClosingFacts DEF IInv
  <2>4. Over(w)
    <3>1. CASE main = "ended"
      BY <2>1, <3>1 DEF IInv, EndInv
    <3>2. CASE main # "ended" /\ w = "log"
      <4>1. ~LogUsed /\ main # "dial"
        BY <2>1, <3>2 DEF IInv, LogInv
      <4>2. main = "closing" /\ Closing = "log"
        BY <2>3, <3>2, <4>1 DEF LogUsed, Closes, IInv, TypeOK, Mains, HasClosed
      <4> QED  BY <2>1, <3>2, <4>2 DEF IInv, ClosingInv
    <3>3. CASE main # "ended" /\ w # "log" /\ ~Over(w)
      <4>1. PICK n \in 1..opened : Resource(n) = w
        BY <2>1, <3>3 DEF IInv, HeldInv
      <4>2. main \in Closes /\ n = opened
        BY <2>1, <4>1 DEF IInv, OpenInv
      <4>3. Closing = w /\ main = "closing"
        BY <2>3, <4>1, <4>2 DEF HasClosed, Closes
      <4> QED  BY <2>1, <4>3 DEF IInv, ClosingInv
    <3> QED  BY <3>1, <3>2, <3>3
  <2> QED  BY <2>2, <2>4 DEF Over
<1> QED  BY <1>1, InitIInv, NextIInv, PTL DEF Spec

\* Wherever startup fails or serving ends, all writers but the notifier are
\* closed in the end (accesspoint/main.go, publisher/main.go).
THEOREM AllReleased == Spec => []Released
<1>1. IInv => Released
  BY DEF IInv, EndInv, Over, Released
<1> QED  BY <1>1, InitIInv, NextIInv, PTL DEF Spec

\* Neither main nor the drainer of a writer it closes ever sends to a closed
\* writer, the log included (au10/log.go: publish).
THEOREM LogClosedLast == Spec => []LogOutlives
<1>1. IInv => LogOutlives
  BY DEF IInv
<1> QED  BY <1>1, InitIInv, NextIInv, PTL DEF Spec

\* The log is open for every report of an error, by the drainer of a writer
\* that main closes or by main when Close has collected errors: Close waits
\* for the drainer, and the log is closed last (au10/streamwriter.go: Close,
\* accesspoint/main.go, publisher/main.go).
THEOREM NoReportRefused == Spec => []ReportsAccepted
<1>1. IInv => ReportsAccepted
  <2> SUFFICES ASSUME IInv PROVE ReportsAccepted
    OBVIOUS
  <2>1. opened \in 0..4 /\ (Closing = "log" <=> opened = 0)
    BY ClosingFacts DEF IInv
  <2>2. ASSUME NEW w \in Writers \ {"notifier"}, drainer[w] = "log"
        PROVE  writer["log"] = "open"
    <3>1. w # "log" /\ ~Over(w)
      BY <2>2 DEF IInv, LogInv, Over
    <3>2. main # "ended"
      BY <3>1 DEF IInv, EndInv
    <3>3. \E n \in 1..opened : Resource(n) = w
      BY <3>1, <3>2 DEF IInv, HeldInv
    <3>4. opened > 0
      BY <2>1, <3>3
    <3>5. LogUsed
      BY <3>2, <3>4 DEF LogUsed, IInv, StageInv, TypeOK, Mains, Closes
    <3> QED  BY <3>5 DEF IInv, LogInv
  <2>3. ASSUME main = "report", Closing # "log" PROVE writer["log"] = "open"
    BY <2>1, <2>3 DEF LogUsed, Closes, IInv, LogInv
  <2> QED  BY <2>2, <2>3 DEF ReportsAccepted
<1> QED  BY <1>1, InitIInv, NextIInv, PTL DEF Spec
=============================================================================
