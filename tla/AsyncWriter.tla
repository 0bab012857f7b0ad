---------------------------- MODULE AsyncWriter -----------------------------
(***************************************************************************)
(* au10/streamwriter.go, the asynchronous writers of a process, and        *)
(* au10/log.go, whose records one of them writes: PushAsync by any         *)
(* goroutine, the goroutine that reports the errors of a writer (its       *)
(* drainer here), and the three parts of Close.                            *)
(*                                                                         *)
(* The Sarama producer is external: see StreamWriter.tla.  Records are     *)
(* counted, not told apart.                                                *)
(***************************************************************************)
EXTENDS Naturals

CONSTANTS
  Writers,  \* the writers of a process; "log" is that of the log
  Async     \* those that have a drainer: all but the synchronous ones

ASSUME WritersAssumption == "log" \in Async /\ Async \subseteq Writers

VARIABLES
  writer,    \* "none", "open", "closing", "closed"
  pending,   \* records a producer has accepted
  errors,    \* errors it offers
  drainer,   \* "none", "range", "log" (it logs an error) or "done"
  collected, \* has the Close in progress been given an error?
  panic      \* who has sent on a closed channel, "none" until then

writerVars == <<writer, pending, errors, drainer, collected, panic>>

WriterInit ==
  /\ writer = [w \in Writers |-> "none"]
  /\ pending = [w \in Writers |-> 0] /\ errors = [w \in Writers |-> 0]
  /\ drainer = [w \in Writers |-> "none"]
  /\ collected = FALSE /\ panic = "none"

\* NewStreamAsyncWriter and NewStreamSyncWriter, when they succeed.
Opened(w) ==
  /\ writer' = [writer EXCEPT ![w] = "open"]
  /\ drainer' = [drainer EXCEPT ![w] = IF w \in Async THEN "range" ELSE "none"]

\* A record sent to the input of a producer: it is accepted, while the
\* producer closes refused, and afterwards the input is closed.
Sent(w, who) ==
  \/ /\ writer[w] = "open"
     /\ pending' = [pending EXCEPT ![w] = @ + 1]
     /\ UNCHANGED <<errors, panic>>
  \/ /\ writer[w] = "closing"
     /\ errors' = [errors EXCEPT ![w] = @ + 1]
     /\ UNCHANGED <<pending, panic>>
  \/ /\ writer[w] = "closed"
     /\ panic' = who
     /\ UNCHANGED <<pending, errors>>

-----------------------------------------------------------------------------
(* The producer.                                                           *)

Store(w) ==
  /\ pending[w] > 0
  /\ pending' = [pending EXCEPT ![w] = @ - 1]
  /\ UNCHANGED <<writer, errors, drainer, collected, panic>>

Fail(w) ==
  /\ pending[w] > 0
  /\ pending' = [pending EXCEPT ![w] = @ - 1]
  /\ errors' = [errors EXCEPT ![w] = @ + 1]
  /\ UNCHANGED <<writer, drainer, collected, panic>>

-----------------------------------------------------------------------------
(* The drainer.                                                            *)

\* Mutant: the errors of the log are logged as well.
TakeErrorAlways(w) ==
  /\ drainer[w] = "range" /\ errors[w] > 0
  /\ errors' = [errors EXCEPT ![w] = @ - 1]
  /\ drainer' = [drainer EXCEPT ![w] = "log"]
  /\ UNCHANGED <<writer, pending, collected, panic>>

\* An error of the log goes to the standard logger only.
TakeError(w) ==
  /\ drainer[w] = "range" /\ errors[w] > 0
  /\ errors' = [errors EXCEPT ![w] = @ - 1]
  /\ drainer' = [drainer EXCEPT ![w] = IF w = "log" THEN "range" ELSE "log"]
  /\ UNCHANGED <<writer, pending, collected, panic>>

LogError(w) ==
  /\ drainer[w] = "log"
  /\ Sent("log", w)
  /\ drainer' = [drainer EXCEPT ![w] = "range"]
  /\ UNCHANGED <<writer, collected>>

\* Mutant: the drainer does not tell the barrier that it has ended.
DrainerEndsSilently(w) ==
  /\ drainer[w] = "range" /\ writer[w] = "closed"
  /\ UNCHANGED writerVars

\* The channel of errors is closed: stopBarrier.Done.
DrainerEnds(w) ==
  /\ drainer[w] = "range" /\ writer[w] = "closed"
  /\ drainer' = [drainer EXCEPT ![w] = "done"]
  /\ UNCHANGED <<writer, pending, errors, collected, panic>>

-----------------------------------------------------------------------------
(* Close.                                                                  *)

\* The producer begins to close and refuses records.
BeginClose(w) ==
  /\ writer' = [writer EXCEPT ![w] = "closing"]
  /\ UNCHANGED <<pending, errors, drainer, collected, panic>>

\* It collects errors, in competition with the drainer.
Collect(w) ==
  /\ writer[w] = "closing" /\ errors[w] > 0
  /\ errors' = [errors EXCEPT ![w] = @ - 1]
  /\ collected' = TRUE
  /\ UNCHANGED <<writer, pending, drainer, panic>>

\* Nothing is in flight: its channels are closed, and it returns.
ProducerCloses(w) ==
  /\ writer[w] = "closing" /\ pending[w] = 0 /\ errors[w] = 0
  /\ writer' = [writer EXCEPT ![w] = "closed"]
  /\ UNCHANGED <<pending, errors, drainer, collected, panic>>

\* The errors it collected are logged; those of the log are not.
ReportCollected(w, who) ==
  /\ collected' = FALSE
  /\ IF collected /\ w # "log" THEN Sent("log", who)
     ELSE UNCHANGED <<pending, errors, panic>>
  /\ UNCHANGED <<writer, drainer>>

\* Mutant: Close does not wait for the drainer.
BarrierOpen(w) == writer[w] = "closed"

\* stopBarrier.
BarrierPassed(w) == drainer[w] \in {"none", "done"}

-----------------------------------------------------------------------------
WriterTypeOK ==
  /\ writer \in [Writers -> {"none", "open", "closing", "closed"}]
  /\ pending \in [Writers -> Nat] /\ errors \in [Writers -> Nat]
  /\ drainer \in [Writers -> {"none", "range", "log", "done"}]
  /\ collected \in BOOLEAN
=============================================================================
