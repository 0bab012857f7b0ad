---------------------------- MODULE StreamWriter ----------------------------
(***************************************************************************)
(* au10/streamwriter.go, the synchronous writer: every caller of Push puts *)
(* its message on the one producer and takes a result from the producer's  *)
(* two result channels, which all callers share.  Close runs beside them.  *)
(*                                                                         *)
(* The Sarama producer is external.  Its input and result channels are     *)
(* unbuffered; Close makes it refuse further messages, drains the results  *)
(* and closes the channels once nothing is in flight.                      *)
(***************************************************************************)
EXTENDS Naturals, Sequences, FiniteSets

CONSTANTS
  Callers,  \* goroutines that call Push
  MaxCall,  \* bound: calls each of them makes
  IdRange   \* how many values an id has: 2^32 in the code

ASSUME CallersAssumption == IsFiniteSet(Callers)
ASSUME BoundAssumption == MaxCall \in Nat /\ IdRange \in Nat \ {0}

\* The message of a call: who pushed it and in which of its calls.
Message == Callers \X (1..MaxCall)
NoId == IdRange  \* a result that carries no id

VARIABLES
  pc,        \* "idle", "input" (on producer.Input) or "wait" (in the select)
  calls,     \* calls made by each caller
  pending,   \* messages the producer has accepted
  results,   \* results it offers: [message, id], NoId for an error
  log,       \* the topic: messages in the order of their offsets
  returned,  \* history: what calls returned, [message, id]
  shared,    \* history: calls during which another call was in progress
  producer,  \* "open", "closing" or "closed"
  panic      \* a send on the closed input

vars == <<pc, calls, pending, results, log, returned, shared,
          producer, panic>>

Init ==
  /\ pc = [c \in Callers |-> "idle"]
  /\ calls = [c \in Callers |-> 0]
  /\ pending = {} /\ results = {} /\ log = <<>> /\ returned = {}
  /\ shared = {}
  /\ producer = "open" /\ panic = FALSE

\* A panic in any goroutine ends the process.
Running == ~panic /\ UNCHANGED panic

Current(c) == <<c, calls[c]>>
Result(m, i) == [message |-> m, id |-> i]

\* Mutant: the offset of the next message.
NextId(l) == Len(l) % IdRange

\* The offset of the last stored message, cut to the width of an id.
LastId(l) == (Len(l) - 1) % IdRange

-----------------------------------------------------------------------------
(* Push.                                                                   *)

\* The value is serialized; if that fails Push returns the error at once.
Call(c) ==
  /\ Running
  /\ pc[c] = "idle" /\ calls[c] < MaxCall
  /\ calls' = [calls EXCEPT ![c] = @ + 1]
  /\ \/ /\ pc' = [pc EXCEPT ![c] = "input"] /\ UNCHANGED returned
        /\ LET busy == {d \in Callers : pc[d] # "idle"} IN
           shared' = shared \union {Current(d) : d \in busy}
                       \union {<<c, calls[c] + 1>> : d \in busy}
     \/ /\ returned' = returned \union {Result(<<c, calls[c] + 1>>, NoId)}
        /\ UNCHANGED <<pc, shared>>
  /\ UNCHANGED <<pending, results, log, producer>>

\* The producer takes the message; while it closes it refuses it.
Input(c) ==
  /\ Running
  /\ pc[c] = "input" /\ producer # "closed"
  /\ pc' = [pc EXCEPT ![c] = "wait"]
  /\ \/ /\ producer = "open"
        /\ pending' = pending \union {Current(c)} /\ UNCHANGED results
     \/ /\ producer = "closing"
        /\ results' = results \union {Result(Current(c), NoId)}
        /\ UNCHANGED pending
  /\ UNCHANGED <<calls, log, returned, shared, producer>>

\* The input channel is closed.
InputPanics(c) ==
  /\ ~panic /\ pc[c] = "input" /\ producer = "closed"
  /\ panic' = TRUE
  /\ UNCHANGED <<pc, calls, pending, results, log, returned, shared, producer>>

\* Mutant: the caller returns an error when the first result is not its own.
ReceiveOwnOnly(c) ==
  /\ Running
  /\ pc[c] = "wait"
  /\ \E r \in results :
       /\ returned' = returned \union
                        {Result(Current(c),
                                IF r.message = Current(c) THEN r.id ELSE NoId)}
       /\ results' = IF r.message = Current(c) THEN results \ {r} ELSE results
  /\ pc' = [pc EXCEPT ![c] = "idle"]
  /\ UNCHANGED <<calls, pending, log, shared, producer>>

\* The select takes a result of either channel, whoever's it is.
Receive(c) ==
  /\ Running
  /\ pc[c] = "wait"
  /\ \E r \in results :
       /\ returned' = returned \union {Result(Current(c), r.id)}
       /\ results' = results \ {r}
  /\ pc' = [pc EXCEPT ![c] = "idle"]
  /\ UNCHANGED <<calls, pending, log, shared, producer>>

\* Mutant: a closed result channel does not end the wait.
ReceiveClosedAgain(c) ==
  /\ Running
  /\ pc[c] = "wait" /\ producer = "closed"
  /\ UNCHANGED <<pc, calls, pending, results, log, returned, shared, producer>>

\* The select finds a result channel closed: "stream closed".
ReceiveClosed(c) ==
  /\ Running
  /\ pc[c] = "wait" /\ producer = "closed"
  /\ returned' = returned \union {Result(Current(c), NoId)}
  /\ pc' = [pc EXCEPT ![c] = "idle"]
  /\ UNCHANGED <<calls, pending, results, log, shared, producer>>

-----------------------------------------------------------------------------
(* The producer and Close.                                                 *)

\* A message is stored at the next offset.
Store(m) ==
  /\ Running
  /\ m \in pending
  /\ pending' = pending \ {m}
  /\ log' = Append(log, m)
  /\ results' = results \union {Result(m, LastId(log'))}
  /\ UNCHANGED <<pc, calls, returned, shared, producer>>

\* Mutant: an error is reported as a success.
FailAsStored(m) ==
  /\ Running
  /\ m \in pending
  /\ pending' = pending \ {m}
  /\ log' \in {log, Append(log, m)}
  /\ results' = results \union {Result(m, LastId(log'))}
  /\ UNCHANGED <<pc, calls, returned, shared, producer>>

\* The producer gives up on a message; it may be in the topic all the same.
Fail(m) ==
  /\ Running
  /\ m \in pending
  /\ pending' = pending \ {m}
  /\ log' \in {log, Append(log, m)}
  /\ results' = results \union {Result(m, NoId)}
  /\ UNCHANGED <<pc, calls, returned, shared, producer>>

Close ==
  /\ Running
  /\ producer = "open" /\ producer' = "closing"
  /\ UNCHANGED <<pc, calls, pending, results, log, returned, shared>>

\* Close drains the results, in competition with the callers of Push.
Drain ==
  /\ Running
  /\ producer = "closing"
  /\ \E r \in results : results' = results \ {r}
  /\ UNCHANGED <<pc, calls, pending, log, returned, shared, producer>>

\* Nothing is in flight: the channels are closed and Close returns.
Closed ==
  /\ Running
  /\ producer = "closing" /\ pending = {} /\ results = {}
  /\ producer' = "closed"
  /\ UNCHANGED <<pc, calls, pending, results, log, returned, shared>>

-----------------------------------------------------------------------------
CallNext == \E c \in Callers : Call(c)

\* The calls in progress go on.
PushNext ==
  \E c \in Callers :
    Input(c) \/ InputPanics(c) \/ Receive(c) \/ ReceiveClosed(c)

ProducerNext == \E m \in Message : Store(m) \/ Fail(m)

WriterNext == PushNext \/ ProducerNext \/ Close \/ Drain \/ Closed

Next == CallNext \/ WriterNext

Spec == Init /\ [][Next]_vars

\* Callers run, and the producer settles every message it accepted.
Fairness ==
  /\ \A c \in Callers :
       WF_vars(Input(c)) /\ WF_vars(Receive(c)) /\ WF_vars(ReceiveClosed(c))
  /\ \A m \in Message : WF_vars(Store(m) \/ Fail(m))
  /\ WF_vars(Drain) /\ WF_vars(Closed)

FairSpec == Spec /\ Fairness

-----------------------------------------------------------------------------
Settled == [message : Message, id : 0..IdRange]

TypeOK ==
  /\ pc \in [Callers -> {"idle", "input", "wait"}]
  /\ calls \in [Callers -> 0..MaxCall]
  /\ pending \subseteq Message
  /\ results \subseteq Settled /\ returned \subseteq Settled
  /\ log \in Seq(Message) /\ shared \subseteq Message
  /\ producer \in {"open", "closing", "closed"} /\ panic \in BOOLEAN

Waiting == {c \in Callers : pc[c] = "wait"}

\* Until Close, there are as many results to come as callers in the select:
\* none waits for a result that never comes, and none is left behind for a
\* later call to take as its own.
ResultPerCaller ==
  producer = "open" =>
    Cardinality(Waiting) = Cardinality(pending) + Cardinality(results)

\* An id returned by Push is that of a stored message, and no two calls get
\* the same id, as long as the offsets fit an id.
UniqueIds ==
  Len(log) <= IdRange =>
    \A r, q \in returned :
      r.id # NoId => r.id < Len(log) /\ (q.id = r.id => q = r)

Own(r) == r.id # NoId => r.id < Len(log) /\ log[r.id + 1] = r.message

\* A call during which no other was in progress gets the offset of its own
\* message, whatever the calls before it and Close left behind, as long as the
\* offsets fit an id.
OwnResultAlone ==
  Len(log) <= IdRange => \A r \in returned : r.message \notin shared => Own(r)

\* An id returned by Push is the offset of the message that was pushed
\* (streamwriter.go: StreamSyncWriter).
OwnResult == \A r \in returned : Own(r)

\* Every Push returns, even when Close takes its result.
PushReturns ==
  \A c \in Callers : pc[c] = "wait" ~> pc[c] = "idle" \/ panic
=============================================================================
