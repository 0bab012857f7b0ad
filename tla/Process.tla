------------------------------ MODULE Process -------------------------------
(***************************************************************************)
(* The life of a process, accesspoint/main.go or publisher/main.go, with   *)
(* au10/service.go: it dials, opens what it needs, serves, and on any      *)
(* failure calls Fatal, whose panic runs the deferred calls of main in     *)
(* reverse.  The asynchronous writers and the log run beside it, and so do *)
(* the handlers of the access point's calls, which stopping the server     *)
(* cancels but does not wait for.                                          *)
(*                                                                         *)
(* The synchronous writer of posts is opened and closed here; what is      *)
(* pushed through it is StreamWriter.  How a stream reader closes is       *)
(* StreamReader; all that is said of it here is that it may never return.  *)
(* A panic that a reader's goroutine or its users cause ends the process   *)
(* like any other and is left to StreamReader as well.                     *)
(***************************************************************************)
EXTENDS AsyncWriter, Sequences

CONSTANTS
  Handlers,  \* goroutines of the access point that log and write chunks
  MaxPush    \* bound: records each of them, or the publisher's loop, pushes

ASSUME HandlersAssumption == Handlers \intersect (Writers \union {"none"}) = {}
ASSUME PushAssumption == MaxPush \in Nat

MaxDial == 5

VARIABLES
  process,   \* which of the two this is
  named,     \* has it been given a node name?
  main,      \* where main is
  attempt,   \* the attempt to dial in progress
  opened,    \* how many of the resources main has opened
  fatal,     \* will Fatal be called when the Close in progress returns?
  handler,   \* "idle", or the writer a handler is pushing to
  pushes     \* records pushed by each handler, and by main while it serves

mainVars == <<main, attempt, opened, fatal>>
handlerVars == <<handler, pushes>>
vars == <<writerVars, process, named, mainVars, handlerVars>>

\* What main opens after the log, in this order, and may fail to.  The access
\* point's posts and log reader, which cannot fail to open and are closed just
\* before, are part of "db" and "listener".
Resources ==
  [accesspoint |-> <<"db", "posts", "messages", "listener">>,
   publisher |-> <<"db", "postsStream", "messagesStream", "notifier">>]

\* Releasing these closes a stream reader that may have subscribers.
WithReader ==
  [accesspoint |-> {"db", "listener"},
   publisher |-> {"postsStream", "messagesStream"}]

Resource(n) == Resources[process][n]
All == Len(Resources[process])

\* What a process pushes to besides the log.
Target == IF process = "accesspoint" THEN "messages" ELSE "notifier"

Init ==
  /\ WriterInit
  /\ process \in DOMAIN Resources /\ named \in BOOLEAN
  /\ main = "dial" /\ attempt = 1 /\ opened = 0 /\ fatal = FALSE
  /\ handler = [h \in Handlers |-> "idle"]
  /\ pushes = [h \in Handlers \union {"main"} |-> 0]

\* A panic in any goroutine, or the end of main, ends the process.
Running ==
  /\ panic = "none" /\ main # "ended"
  /\ UNCHANGED <<process, named>>

\* main logs a record.
Logs == Sent("log", "main")

Main(from, to) == Running /\ main = from /\ main' = to /\ UNCHANGED handlerVars

-----------------------------------------------------------------------------
(* Startup.                                                                *)

\* Mutant: off by one, as if the attempts were counted from zero.
DialAgainOnceMore ==
  /\ named /\ attempt <= MaxDial /\ Main("dial", "dial")
  /\ attempt' = attempt + 1
  /\ UNCHANGED <<writerVars, opened, fatal>>

\* The log cannot be opened: DialOrPanic sleeps and tries again.
DialAgain ==
  /\ named /\ attempt < MaxDial /\ Main("dial", "dial")
  /\ attempt' = attempt + 1
  /\ UNCHANGED <<writerVars, opened, fatal>>

\* It panics after the last attempt, or at once if there is no node name.
DialPanics ==
  /\ ~named \/ attempt = MaxDial
  /\ Main("dial", "ended")
  /\ UNCHANGED <<writerVars, attempt, opened, fatal>>

\* The log is opened, and the first record is logged.
DialSucceeds ==
  /\ named /\ Main("dial", "start")
  /\ Opened("log")
  /\ pending' = [pending EXCEPT !["log"] = 1]
  /\ UNCHANGED <<errors, collected, panic, attempt, opened, fatal>>

Open ==
  /\ opened < All
  /\ Main("start", IF opened + 1 < All THEN "start" ELSE "started")
  /\ opened' = opened + 1
  /\ IF Resource(opened + 1) \in Writers THEN Opened(Resource(opened + 1))
     ELSE UNCHANGED <<writer, drainer>>
  /\ UNCHANGED <<pending, errors, collected, panic, attempt, fatal>>

\* Mutant: NewPublisher leaves its first writer open when the second fails.
OpenFailsLeaving ==
  /\ opened < All /\ Main("start", "unwind")
  /\ Logs
  /\ opened' = IF Resource(opened + 1) = "messages" THEN opened - 1 ELSE opened
  /\ UNCHANGED <<writer, drainer, collected, attempt, fatal>>

\* A resource cannot be opened, which is fatal.  NewPublisher, whose second
\* writer this is, closes its first one before it returns the error.
OpenFails ==
  /\ opened < All
  /\ \/ /\ Resource(opened + 1) # "messages"
        /\ Main("start", "unwind")
        /\ Logs /\ UNCHANGED <<writer, drainer, collected, fatal>>
     \/ /\ Resource(opened + 1) = "messages"
        /\ Main("start", "closing")
        /\ BeginClose("posts") /\ fatal' = TRUE
  /\ UNCHANGED <<attempt, opened>>

Started ==
  /\ Main("started", "serve") /\ Logs
  /\ UNCHANGED <<writer, drainer, collected, attempt, opened, fatal>>

-----------------------------------------------------------------------------
(* Serving.                                                                *)

\* The main loop of the publisher logs, and pushes notifications.
LoopPushes(w) ==
  /\ process = "publisher" /\ Running /\ main = "serve"
  /\ w \in {"log", Target} /\ pushes["main"] < MaxPush
  /\ pushes' = [pushes EXCEPT !["main"] = @ + 1]
  /\ Sent(w, "main")
  /\ UNCHANGED <<writer, drainer, collected, mainVars, handler>>

\* Serve fails or the publisher cannot roll back, which is fatal; or its loop
\* ends, with a record.
ServeEnds ==
  /\ Main("serve", "unwind") /\ Logs
  /\ UNCHANGED <<writer, drainer, collected, attempt, opened, fatal>>

\* A handler calls PushAsync, of its own accord or to log; calls come while
\* the server is running.
HandlerCalls(h, w) ==
  /\ process = "accesspoint" /\ Running /\ main = "serve"
  /\ handler[h] = "idle" /\ w \in {"log", Target} /\ pushes[h] < MaxPush
  /\ handler' = [handler EXCEPT ![h] = w]
  /\ pushes' = [pushes EXCEPT ![h] = @ + 1]
  /\ UNCHANGED <<writerVars, mainVars>>

\* The producer takes its record; a chunk is followed by a record to the log.
HandlerPushes(h) ==
  /\ Running /\ handler[h] # "idle"
  /\ Sent(handler[h], h)
  /\ handler' = [handler EXCEPT ![h] = IF @ = "log" THEN "idle" ELSE "log"]
  /\ UNCHANGED <<writer, drainer, collected, mainVars, pushes>>

-----------------------------------------------------------------------------
(* The deferred calls.                                                     *)

\* What main is closing: the resource it opened last, in the end the log.
Closing == IF opened = 0 THEN "log" ELSE Resource(opened)

\* Only writers take steps to close; the notifier is never closed.
HasClose(w) == w \in Writers \ {"notifier"}

\* main is in the Close of a stream reader.
ReaderClosing == main = "unwind" /\ Closing \in WithReader[process]

\* The deferred call of a resource that is no writer returns.
Release ==
  /\ ~HasClose(Closing)
  /\ Main("unwind", "unwind")
  /\ opened' = opened - 1
  /\ UNCHANGED <<writerVars, attempt, fatal>>

CloseWriter ==
  /\ HasClose(Closing) /\ Closing # "log"
  /\ Main("unwind", "closing")
  /\ BeginClose(Closing)
  /\ UNCHANGED <<attempt, opened, fatal>>

\* The last record is logged before the log is closed.
LogStopped ==
  /\ Closing = "log"
  /\ Main("unwind", "stopped") /\ Logs
  /\ UNCHANGED <<writer, drainer, collected, attempt, opened, fatal>>

CloseLog ==
  /\ Main("stopped", "closing")
  /\ BeginClose("log")
  /\ UNCHANGED <<attempt, opened, fatal>>

CollectErrors ==
  /\ Main("closing", "closing")
  /\ Collect(Closing)
  /\ UNCHANGED <<attempt, opened, fatal>>

ProducerClosed ==
  /\ Main("closing", "report")
  /\ ProducerCloses(Closing)
  /\ UNCHANGED <<attempt, opened, fatal>>

Report ==
  /\ Main("report", "wait")
  /\ ReportCollected(Closing, "main")
  /\ UNCHANGED <<attempt, opened, fatal>>

\* Close has returned; Fatal, if it is due, is called now.
CloseReturns ==
  /\ Main("wait", IF Closing = "log" THEN "ended" ELSE "unwind")
  /\ BarrierPassed(Closing)
  /\ opened' = IF Closing = "log" THEN 0 ELSE opened - 1
  /\ fatal' = FALSE
  /\ IF fatal THEN Logs ELSE UNCHANGED <<pending, errors, panic>>
  /\ UNCHANGED <<writer, drainer, collected, attempt>>

-----------------------------------------------------------------------------
Startup ==
  DialAgain \/ DialPanics \/ DialSucceeds \/ Open \/ OpenFails \/ Started

Shutdown ==
  \/ Release \/ CloseWriter \/ LogStopped \/ CloseLog
  \/ CollectErrors \/ ProducerClosed \/ Report \/ CloseReturns

WriterNext(w) ==
  /\ Running /\ UNCHANGED <<mainVars, handlerVars>>
  /\ Store(w) \/ Fail(w) \/ TakeError(w) \/ LogError(w) \/ DrainerEnds(w)

Next ==
  \/ Startup \/ ServeEnds \/ Shutdown
  \/ \E w \in Async : LoopPushes(w) \/ WriterNext(w)
  \/ \E h \in Handlers : HandlerPushes(h) \/ \E w \in Async : HandlerCalls(h, w)

Spec == Init /\ [][Next]_vars

Step(A) == Running /\ UNCHANGED <<mainVars, handlerVars>> /\ A

\* Every goroutine that can run does, and the producer settles what it has
\* accepted.  Nothing makes a process stop serving, no handler has to call, and
\* the Close of a stream reader need not return: it waits for goroutines that
\* may be waiting for it.
Fairness ==
  /\ WF_vars(Startup) /\ WF_vars(Shutdown /\ ~ReaderClosing)
  /\ \A h \in Handlers : WF_vars(HandlerPushes(h))
  /\ \A w \in Async :
       /\ WF_vars(Step(Store(w) \/ Fail(w)))
       /\ WF_vars(Step(TakeError(w) \/ LogError(w) \/ DrainerEnds(w)))

FairSpec == Spec /\ Fairness

-----------------------------------------------------------------------------
Mains == {"dial", "start", "started", "serve", "unwind", "stopped", "closing",
          "report", "wait", "ended"}

TypeOK ==
  /\ WriterTypeOK
  /\ panic \in {"none", "main"} \union Handlers \union Writers
  /\ process \in DOMAIN Resources /\ named \in BOOLEAN
  /\ main \in Mains /\ attempt \in 1..MaxDial /\ opened \in 0..All
  /\ fatal \in BOOLEAN
  /\ handler \in [Handlers -> {"idle"} \union Async]
  /\ pushes \in [Handlers \union {"main"} -> 0..MaxPush]

\* Close of this writer has returned.
HasClosed(w) ==
  writer[w] = "closed" /\ ~(main \in {"report", "wait"} /\ Closing = w)

\* When Close of a writer has returned, every record it accepted is stored or
\* its error has been passed on: none is in flight, on offer, or in the hands
\* of the drainer.
NothingHeld ==
  \A w \in Writers : HasClosed(w) =>
    pending[w] = 0 /\ errors[w] = 0 /\ drainer[w] \in {"none", "done"}

\* Wherever startup fails or serving ends, a process ends with its writers
\* closed, all but the publisher's notifier, which main never closes.
Released ==
  main = "ended" =>
    \A w \in Writers \ {"notifier"} : writer[w] \in {"none", "closed"}

\* The log outlives whatever main closes: no deferred call and no drainer of a
\* writer that is closed writes to the log after it.  Only handlers, which
\* nobody waits for, and the notifier's drainer can.
LogOutlives == panic \in {"none", "notifier"} \union Handlers

\* A drainer that has an error to report, and main when it logs what Close of
\* a writer has collected, find the log open: no such report is refused.
ReportsAccepted ==
  /\ \A w \in Writers \ {"notifier"} :
       drainer[w] = "log" => writer["log"] = "open"
  /\ main = "report" /\ collected /\ Closing # "log" => writer["log"] = "open"

\* A process does not hang while it starts: it gets to serve, or gives up and
\* begins to stop.  One that stops ends, unless it waits for ever for one of its
\* stream readers to close; closing the writers never keeps it.
Settles ==
  /\ main = "dial" ~> main \in {"serve", "unwind", "ended"} \/ panic # "none"
  /\ []<>~ReaderClosing =>
       (main = "unwind" ~> main = "ended" \/ panic # "none")

Quiet == \A w \in Async : pending[w] = 0 /\ errors[w] = 0

\* However often writing fails, also to the log itself, reports of failures
\* do not cause each other without end: in the end there is nothing to write.
FallsQuiet == <>[](Quiet \/ main = "ended" \/ panic # "none")
=============================================================================
