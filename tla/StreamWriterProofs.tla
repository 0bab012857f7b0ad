------------------------- MODULE StreamWriterProofs -------------------------
(***************************************************************************)
(* Proofs about StreamWriter: its types, a result for every caller, unique *)
(* ids, and the own result of a caller that is alone.                      *)
(***************************************************************************)
EXTENDS StreamWriter, FiniteSetTheorems, TLAPS

\* Messages in flight were pushed in a call that has begun, and has got past
\* the input; none is pending and settled.
Pushed(m) ==
  m[2] <= calls[m[1]] /\ (pc[m[1]] = "input" => m[2] # calls[m[1]])

FlightInv ==
  /\ \A c \in Callers : pc[c] # "idle" => calls[c] # 0
  /\ \A m \in pending : Pushed(m)
  /\ \A r \in results : Pushed(r.message) /\ r.message \notin pending

\* No more messages are in flight than callers wait, as many until Close, and
\* none once the producer is closed.
CountInv ==
  /\ IsFiniteSet(pending) /\ IsFiniteSet(results)
  /\ Cardinality(pending) + Cardinality(results) <= Cardinality(Waiting)
  /\ producer = "closed" => pending = {} /\ results = {}
  /\ ResultPerCaller

\* Every result offered is that of its message, and its id is nobody else's.
IdInv ==
  Len(log) <= IdRange =>
    /\ \A r \in results : Own(r)
    /\ \A r \in returned : r.id # NoId => r.id < Len(log)
    /\ \A r, q \in results : r.id # NoId /\ q.id = r.id => q = r
    /\ \A r \in results : \A q \in returned : r.id # NoId => q.id # r.id
    /\ \A r, q \in returned : r.id # NoId /\ q.id = r.id => q = r

\* While a caller is alone nothing but its own message is in flight.
AloneInv ==
  /\ \A c \in Callers : pc[c] # "idle" /\ Current(c) \notin shared =>
       /\ \A d \in Callers : d # c => pc[d] = "idle"
       /\ \A m \in pending : m = Current(c)
       /\ \A r \in results : r.message = Current(c)
  /\ OwnResultAlone

WInv == TypeOK /\ FlightInv /\ CountInv /\ IdInv /\ AloneInv
-----------------------------------------------------------------------------
\* An offset that fits an id is its own id.
LEMMA LastIdType ==
  ASSUME NEW l, Len(l) \in Nat \ {0}
  PROVE  /\ LastId(l) \in 0..(IdRange - 1)
         /\ Len(l) <= IdRange => LastId(l) = Len(l) - 1
  BY BoundAssumption DEF LastId

\* The message of a call in progress.
LEMMA CurrentType ==
  ASSUME WInv, NEW c \in Callers, pc[c] # "idle"
  PROVE  Current(c) \in Message
  BY DEF WInv, TypeOK, FlightInv, Current, Message

\* With nobody in the select nothing is in flight.
LEMMA NothingInFlight ==
  ASSUME WInv, Waiting = {}
  PROVE  pending = {} /\ results = {}
<1>1. /\ IsFiniteSet(pending) /\ IsFiniteSet(results)
      /\ Cardinality(pending) + Cardinality(results) <= Cardinality(Waiting)
  BY DEF WInv, CountInv
<1>2. /\ Cardinality(pending) \in Nat /\ Cardinality(results) \in Nat
      /\ Cardinality(Waiting) = 0
  BY <1>1, FS_CardinalityType, FS_EmptySet
<1>3. Cardinality(pending) = 0 /\ Cardinality(results) = 0
  BY <1>1, <1>2
<1> QED  BY <1>1, <1>3, FS_EmptySet

\* The invariant holds initially.
LEMMA InitInv == Init => WInv
<1> SUFFICES ASSUME Init PROVE WInv
  OBVIOUS
<1>1. TypeOK
  <2>1. panic \in BOOLEAN
    BY DEF Init
  <2> QED  BY <2>1, BoundAssumption DEF Init, TypeOK
<1>2. FlightInv /\ IdInv /\ AloneInv
  BY DEF Init, FlightInv, IdInv, AloneInv, OwnResultAlone
<1>3. CountInv
  <2>1. Waiting = {} /\ pending = {} /\ results = {}
    BY DEF Init, Waiting
  <2> QED  BY <2>1, FS_EmptySet DEF CountInv, ResultPerCaller
<1> QED  BY <1>1, <1>2, <1>3 DEF WInv

-----------------------------------------------------------------------------
\* A caller enters Push.
LEMMA CallStep ==
  ASSUME WInv, NEW c \in Callers, Call(c)
  PROVE  WInv'
<1> USE BoundAssumption
<1> USE DEF WInv
<1> DEFINE busy == {d \in Callers : pc[d] # "idle"}
           m == <<c, calls[c] + 1>>
<1>1. /\ pc[c] = "idle" /\ calls[c] < MaxCall
      /\ calls' = [calls EXCEPT ![c] = @ + 1]
      /\ UNCHANGED <<pending, results, log, producer, panic>>
  BY DEF Call, Running
<1>2. \/ /\ pc' = [pc EXCEPT ![c] = "input"] /\ returned' = returned
         /\ shared' = shared \union {Current(d) : d \in busy}
                       \union {m : d \in busy}
      \/ /\ returned' = returned \union {Result(m, NoId)}
         /\ pc' = pc /\ shared' = shared
  BY DEF Call
<1>3. /\ m \in Message
      /\ \A d \in Callers : d # c => Current(d)' = Current(d)
      /\ Current(c)' = m
      /\ pc \in [Callers -> {"idle", "input", "wait"}]
      /\ pc' \in [Callers -> {"idle", "input", "wait"}]
      /\ \A d \in Callers : d # c => pc'[d] = pc[d]
      /\ shared \subseteq shared'
  <2>1. calls[c] \in 0..MaxCall /\ calls \in [Callers -> 0..MaxCall]
        /\ pc \in [Callers -> {"idle", "input", "wait"}]
    BY DEF TypeOK
  <2>2. m \in Message
    BY <1>1, <2>1 DEF Message
  <2>3. (\A d \in Callers : d # c => Current(d)' = Current(d)) /\ Current(c)' = m
    BY <1>1, <2>1 DEF Current
  <2>4. /\ pc' \in [Callers -> {"idle", "input", "wait"}]
        /\ \A d \in Callers : d # c => pc'[d] = pc[d]
    BY <1>2, <2>1
  <2>5. shared \subseteq shared'
    BY <1>2
  <2> QED  BY <2>1, <2>2, <2>3, <2>4, <2>5
<1>4. TypeOK'
  <2>1. shared' \subseteq Message
    <3>1. \A d \in busy : Current(d) \in Message
      BY CurrentType
    <3>2. {Current(d) : d \in busy} \union {m : d \in busy} \subseteq Message
      BY <1>3, <3>1
    <3>3. shared \subseteq Message
      BY DEF TypeOK
    <3> QED  BY <1>2, <3>2, <3>3
  <2>2. returned' \subseteq Settled
    <3>1. Result(m, NoId) \in Settled
      BY <1>3 DEF Settled, Result, NoId
    <3>2. returned \subseteq Settled
      BY DEF TypeOK
    <3>3. returned' \subseteq returned \union {Result(m, NoId)}
      BY <1>2
    <3> QED  BY <3>1, <3>2, <3>3
  <2>3. calls' \in [Callers -> 0..MaxCall]
    BY <1>1 DEF TypeOK
  <2> QED  BY <1>1, <1>3, <2>1, <2>2, <2>3 DEF TypeOK
<1>5. FlightInv'
  <2>1. ASSUME NEW k \in Message, Pushed(k) PROVE Pushed(k)'
    BY <1>1, <1>3, <2>1 DEF Pushed, Message, TypeOK
  <2>2. \A d \in Callers : pc'[d] # "idle" => calls'[d] # 0
    BY <1>1, <1>3 DEF FlightInv, TypeOK
  <2>3. \A k \in pending : k \in Message
    BY DEF TypeOK
  <2>4. \A r \in results : r.message \in Message
    BY DEF TypeOK, Settled
  <2> QED  BY <1>1, <2>1, <2>2, <2>3, <2>4 DEF FlightInv
<1>6. Waiting' = Waiting
  BY <1>1, <1>2, <1>3 DEF Waiting, TypeOK
<1>7. CountInv'
  BY <1>1, <1>6 DEF CountInv, ResultPerCaller
<1>8. IdInv'
  <2>1. \A r \in returned' : r \in returned \/ r.id = NoId
    BY <1>2 DEF Result
  <2> QED  BY <1>1, <2>1 DEF IdInv, Own
<1>9. AloneInv'
  <2>1. ASSUME NEW d \in Callers, pc'[d] # "idle", Current(d)' \notin shared'
        PROVE  /\ \A e \in Callers : e # d => pc'[e] = "idle"
               /\ \A k \in pending : k = Current(d)'
               /\ \A r \in results : r.message = Current(d)'
    <3>1. CASE pc' = pc
      <4>1. d # c /\ Current(d) \notin shared
        BY <1>1, <1>3, <2>1, <3>1
      <4> QED  BY <1>3, <2>1, <3>1, <4>1 DEF AloneInv
    <3>2. CASE pc' # pc
      <4>1. \A e \in busy : Current(e) \in shared' /\ m \in shared'
        BY <1>2, <3>2
      <4>2. d = c
        BY <1>3, <2>1, <4>1
      <4>3. busy = {}
        BY <1>3, <2>1, <4>1, <4>2
      <4>4. Waiting = {}
        BY <4>3 DEF Waiting
      <4> QED  BY <1>3, <4>2, <4>3, <4>4, NothingInFlight
    <3> QED  BY <3>1, <3>2
  <2>2. OwnResultAlone'
    <3>1. \A r \in returned' : r \in returned \/ r.id = NoId
      BY <1>2 DEF Result
    <3> QED  BY <1>1, <1>3, <3>1 DEF AloneInv, OwnResultAlone, Own
  <2> QED  BY <1>1, <2>1, <2>2 DEF AloneInv
<1> QED  BY <1>4, <1>5, <1>7, <1>8, <1>9

-----------------------------------------------------------------------------
\* What is in flight is counted in natural numbers.
LEMMA CountTypes ==
  ASSUME WInv
  PROVE  /\ IsFiniteSet(pending) /\ Cardinality(pending) \in Nat
         /\ IsFiniteSet(results) /\ Cardinality(results) \in Nat
         /\ IsFiniteSet(Waiting) /\ Cardinality(Waiting) \in Nat
<1>1. IsFiniteSet(pending) /\ IsFiniteSet(results)
  BY DEF WInv, CountInv
<1>2. Waiting \in SUBSET Callers
  BY DEF Waiting
<1>3. IsFiniteSet(Waiting)
  BY <1>2, CallersAssumption, FS_Subset
<1> QED  BY <1>1, <1>3, FS_CardinalityType

\* The producer takes a message, or refuses it.
LEMMA InputStep ==
  ASSUME WInv, NEW c \in Callers, Input(c)
  PROVE  WInv'
<1> USE BoundAssumption
<1> USE DEF WInv
<1> DEFINE m == Current(c)
<1>1. /\ pc[c] = "input" /\ pc' = [pc EXCEPT ![c] = "wait"]
      /\ UNCHANGED <<calls, log, returned, shared, producer, panic>>
  BY DEF Input, Running
<1>2. \/ /\ producer = "open" /\ results' = results
         /\ pending' = pending \union {m}
      \/ /\ producer = "closing" /\ pending' = pending
         /\ results' = results \union {Result(m, NoId)}
  BY DEF Input
<1>3. /\ m \in Message /\ m[1] = c /\ m[2] = calls[c]
      /\ pc \in [Callers -> {"idle", "input", "wait"}]
      /\ pc' \in [Callers -> {"idle", "input", "wait"}]
      /\ \A d \in Callers : d # c => pc'[d] = pc[d]
      /\ pc'[c] = "wait"
      /\ \A d \in Callers : Current(d)' = Current(d)
      /\ pending \subseteq Message
      /\ results \subseteq Settled
  BY <1>1, CurrentType DEF Current, TypeOK
<1>4. /\ Result(m, NoId) \in Settled
      /\ Result(m, NoId).message = m /\ Result(m, NoId).id = NoId
  BY <1>3 DEF Settled, Result, NoId
<1> HIDE DEF m
<1>5. TypeOK'
  <2>1. pending' \subseteq Message /\ results' \subseteq Settled
    BY <1>2, <1>3, <1>4
  <2> QED  BY <1>1, <1>3, <2>1 DEF TypeOK
<1>6. ~Pushed(m)
  BY <1>1, <1>3 DEF Pushed
<1>7. FlightInv'
  <2>1. ASSUME NEW k \in Message, Pushed(k) PROVE Pushed(k)'
    BY <1>1, <1>3, <2>1 DEF Pushed, Message, TypeOK
  <2>2. ASSUME NEW k, k = m PROVE Pushed(k)'
    BY <1>1, <1>3, <2>2 DEF Pushed, TypeOK
  <2>3. \A d \in Callers : pc'[d] # "idle" => calls'[d] # 0
    BY <1>1, <1>3 DEF FlightInv
  <2>4. \A r \in results : r.message \in Message
    BY <1>3 DEF Settled
  <2>5. \A k \in pending' : Pushed(k)'
    BY <1>2, <1>3, <2>1, <2>2 DEF FlightInv
  <2>6. \A r \in results' : Pushed(r.message)'
    BY <1>2, <1>4, <2>1, <2>2, <2>4 DEF FlightInv
  <2>7. \A r \in results' : r.message \notin pending'
    BY <1>2, <1>4, <1>6 DEF FlightInv
  <2> QED  BY <2>3, <2>5, <2>6, <2>7 DEF FlightInv
<1>8. CountInv'
  <2>1. Waiting' = Waiting \union {c} /\ c \notin Waiting
    BY <1>1, <1>3 DEF Waiting
  <2>2. Cardinality(Waiting') = Cardinality(Waiting) + 1
    BY <2>1, CountTypes, FS_AddElement
  <2>3. CASE producer = "open"
    <3>1. m \notin pending
      BY <1>6 DEF FlightInv
    <3>2. /\ IsFiniteSet(pending') /\ results' = results
          /\ Cardinality(pending') = Cardinality(pending) + 1
      BY <1>2, <2>3, <3>1, CountTypes, FS_AddElement
    <3> QED  BY <1>1, <2>2, <2>3, <3>2, CountTypes DEF CountInv, ResultPerCaller
  <2>4. CASE producer = "closing"
    <3>1. Result(m, NoId) \notin results
      BY <1>4, <1>6 DEF FlightInv
    <3>2. /\ IsFiniteSet(results') /\ pending' = pending
          /\ Cardinality(results') = Cardinality(results) + 1
      BY <1>2, <2>4, <3>1, CountTypes, FS_AddElement
    <3> QED  BY <1>1, <2>2, <2>4, <3>2, CountTypes DEF CountInv, ResultPerCaller
  <2> QED  BY <1>2, <2>3, <2>4
<1>9. IdInv'
  <2>1. \A r \in results' : r \in results \/ r.id = NoId
    BY <1>2, <1>4
  <2> QED  BY <1>1, <2>1 DEF IdInv, Own
<1>10. AloneInv'
  <2>1. ASSUME NEW d \in Callers, pc'[d] # "idle", Current(d)' \notin shared'
        PROVE  /\ \A e \in Callers : e # d => pc'[e] = "idle"
               /\ \A k \in pending' : k = Current(d)'
               /\ \A r \in results' : r.message = Current(d)'
    <3>1. Current(d) \notin shared /\ pc[d] # "idle"
      BY <1>1, <1>3, <2>1
    <3>2. d = c
      BY <1>1, <3>1 DEF AloneInv
    <3>3. /\ \A e \in Callers : e # d => pc[e] = "idle"
          /\ \A k \in pending : k = Current(d)
          /\ \A r \in results : r.message = Current(d)
      BY <3>1 DEF AloneInv
    <3>4. m = Current(d)
      BY <3>2 DEF m
    <3> QED  BY <1>2, <1>3, <1>4, <3>2, <3>3, <3>4
  <2>2. OwnResultAlone'
    BY <1>1 DEF AloneInv, OwnResultAlone, Own
  <2> QED  BY <2>1, <2>2 DEF AloneInv
<1> QED  BY <1>5, <1>7, <1>8, <1>9, <1>10

\* A caller takes the result that comes first.
LEMMA ReceiveStep ==
  ASSUME WInv, NEW c \in Callers, Receive(c)
  PROVE  WInv'
<1> USE BoundAssumption
<1> USE DEF WInv
<1>1. /\ pc[c] = "wait" /\ pc' = [pc EXCEPT ![c] = "idle"]
      /\ UNCHANGED <<calls, pending, log, shared, producer, panic>>
  BY DEF Receive, Running
<1>2. PICK r \in results :
        /\ returned' = returned \union {Result(Current(c), r.id)}
        /\ results' = results \ {r}
  BY DEF Receive
<1> DEFINE a == Result(Current(c), r.id)
<1>3. /\ Current(c) \in Message
      /\ pc \in [Callers -> {"idle", "input", "wait"}]
      /\ pc' \in [Callers -> {"idle", "input", "wait"}]
      /\ \A d \in Callers : d # c => pc'[d] = pc[d]
      /\ pc'[c] = "idle"
      /\ \A d \in Callers : Current(d)' = Current(d)
      /\ results \subseteq Settled /\ returned \subseteq Settled
  BY <1>1, CurrentType DEF Current, TypeOK
<1>4. /\ a \in Settled /\ a.message = Current(c) /\ a.id = r.id
  BY <1>2, <1>3 DEF Settled, Result
<1>5. /\ returned' = returned \union {a} /\ results' \subseteq results
      /\ r \notin results'
  BY <1>2
<1> HIDE DEF a
<1>6. TypeOK'
  <2>1. returned' \subseteq Settled /\ results' \subseteq Settled
    BY <1>3, <1>4, <1>5
  <2> QED  BY <1>1, <1>3, <2>1 DEF TypeOK
<1>7. FlightInv'
  <2>1. ASSUME NEW k \in Message, Pushed(k) PROVE Pushed(k)'
    BY <1>1, <1>3, <2>1 DEF Pushed, Message, TypeOK
  <2>2. \A d \in Callers : pc'[d] # "idle" => calls'[d] # 0
    BY <1>1, <1>3 DEF FlightInv
  <2>3. (\A k \in pending : k \in Message) /\ \A q \in results : q.message \in Message
    BY <1>3 DEF Settled, TypeOK
  <2> QED  BY <1>1, <1>5, <2>1, <2>2, <2>3 DEF FlightInv
<1>8. CountInv'
  <2>1. Waiting' = Waiting \ {c} /\ c \in Waiting
    BY <1>1, <1>3 DEF Waiting
  <2>2. Cardinality(Waiting') = Cardinality(Waiting) - 1
    BY <2>1, CountTypes, FS_RemoveElement
  <2>3. /\ IsFiniteSet(results')
        /\ Cardinality(results') = Cardinality(results) - 1
    BY <1>2, CountTypes, FS_RemoveElement
  <2> QED  BY <1>1, <2>2, <2>3, CountTypes DEF CountInv, ResultPerCaller
<1>9. IdInv'
  <2> SUFFICES ASSUME Len(log) <= IdRange
               PROVE  /\ \A q \in results' : Own(q)'
                      /\ \A q \in returned' : q.id # NoId => q.id < Len(log')
                      /\ \A q, p \in results' : q.id # NoId /\ p.id = q.id => p = q
                      /\ \A q \in results' : \A p \in returned' :
                           q.id # NoId => p.id # q.id
                      /\ \A q, p \in returned' : q.id # NoId /\ p.id = q.id => p = q
    BY <1>1 DEF IdInv
  <2>1. /\ \A q \in results : Own(q)
        /\ \A q \in returned : q.id # NoId => q.id < Len(log)
        /\ \A q, p \in results : q.id # NoId /\ p.id = q.id => p = q
        /\ \A q \in results : \A p \in returned : q.id # NoId => p.id # q.id
        /\ \A q, p \in returned : q.id # NoId /\ p.id = q.id => p = q
    BY DEF IdInv
  <2>2. \A q \in results' : Own(q)'
    BY <1>1, <1>5, <2>1 DEF Own
  <2>3. a.id # NoId => a.id < Len(log)
    BY <1>2, <1>4, <2>1 DEF Own
  <2>4. \A q \in results' : q.id # NoId => a.id # q.id
    BY <1>2, <1>4, <1>5, <2>1
  <2>5. \A q \in returned : a.id # NoId => q.id # a.id
    BY <1>2, <1>4, <2>1
  <2> QED  BY <1>1, <1>5, <2>1, <2>2, <2>3, <2>4, <2>5
<1>10. AloneInv'
  <2>1. ASSUME NEW d \in Callers, pc'[d] # "idle", Current(d)' \notin shared'
        PROVE  FALSE
    <3>1. Current(d) \notin shared /\ pc[d] # "idle" /\ d # c
      BY <1>1, <1>3, <2>1
    <3> QED  BY <1>1, <3>1 DEF AloneInv
  <2>2. ASSUME Len(log) <= IdRange, Current(c) \notin shared PROVE Own(a)
    <3>1. r.message = Current(c)
      BY <1>1, <1>2, <2>2 DEF AloneInv
    <3>2. Own(r)
      BY <1>2, <2>2 DEF IdInv
    <3> QED  BY <1>4, <3>1, <3>2 DEF Own
  <2>3. OwnResultAlone'
    BY <1>1, <1>4, <1>5, <2>2 DEF AloneInv, OwnResultAlone, Own
  <2> QED  BY <2>1, <2>3 DEF AloneInv
<1> QED  BY <1>6, <1>7, <1>8, <1>9, <1>10

\* A caller finds the result channels closed.
LEMMA ReceiveClosedStep ==
  ASSUME WInv, NEW c \in Callers, ReceiveClosed(c)
  PROVE  WInv'
<1> USE BoundAssumption
<1> USE DEF WInv
<1> DEFINE a == Result(Current(c), NoId)
<1>1. /\ pc[c] = "wait" /\ pc' = [pc EXCEPT ![c] = "idle"]
      /\ producer = "closed" /\ returned' = returned \union {a}
      /\ UNCHANGED <<calls, pending, results, log, shared, producer, panic>>
  BY DEF ReceiveClosed, Running
<1>2. /\ Current(c) \in Message
      /\ pc \in [Callers -> {"idle", "input", "wait"}]
      /\ pc' \in [Callers -> {"idle", "input", "wait"}]
      /\ \A d \in Callers : d # c => pc'[d] = pc[d]
      /\ pc'[c] = "idle"
      /\ \A d \in Callers : Current(d)' = Current(d)
      /\ results \subseteq Settled /\ returned \subseteq Settled
  BY <1>1, CurrentType DEF Current, TypeOK
<1>3. a \in Settled /\ a.id = NoId
  BY <1>2 DEF Settled, Result, NoId
<1> HIDE DEF a
<1>4. TypeOK'
  <2>1. returned' \subseteq Settled
    BY <1>1, <1>2, <1>3
  <2> QED  BY <1>1, <1>2, <2>1 DEF TypeOK
<1>5. FlightInv'
  <2>1. ASSUME NEW k \in Message, Pushed(k) PROVE Pushed(k)'
    BY <1>1, <1>2, <2>1 DEF Pushed, Message, TypeOK
  <2>2. \A d \in Callers : pc'[d] # "idle" => calls'[d] # 0
    BY <1>1, <1>2 DEF FlightInv
  <2>3. (\A k \in pending : k \in Message) /\ \A q \in results : q.message \in Message
    BY <1>2 DEF Settled, TypeOK
  <2> QED  BY <1>1, <2>1, <2>2, <2>3 DEF FlightInv
<1>6. CountInv'
  <2>1. pending' = {} /\ results' = {}
    BY <1>1 DEF CountInv
  <2>2. IsFiniteSet(Waiting') /\ Cardinality(Waiting') \in Nat
    <3>1. Waiting' = Waiting \ {c}
      BY <1>1, <1>2 DEF Waiting
    <3>2. IsFiniteSet(Waiting')
      BY <3>1, CountTypes, FS_RemoveElement
    <3> QED  BY <3>2, FS_CardinalityType
  <2>3. Cardinality(pending') = 0 /\ Cardinality(results') = 0
    BY <2>1, FS_EmptySet
  <2>4. IsFiniteSet(pending') /\ IsFiniteSet(results')
    BY <2>1, FS_EmptySet
  <2> QED  BY <1>1, <2>1, <2>2, <2>3, <2>4 DEF CountInv, ResultPerCaller
<1>7. IdInv'
  <2>1. \A r \in returned' : r \in returned \/ r.id = NoId
    BY <1>1, <1>3
  <2> QED  BY <1>1, <2>1 DEF IdInv, Own
<1>8. AloneInv'
  <2>1. ASSUME NEW d \in Callers, pc'[d] # "idle", Current(d)' \notin shared'
        PROVE  FALSE
    <3>1. Current(d) \notin shared /\ pc[d] # "idle" /\ d # c
      BY <1>1, <1>2, <2>1
    <3> QED  BY <1>1, <3>1 DEF AloneInv
  <2>2. OwnResultAlone'
    BY <1>1, <1>3 DEF AloneInv, OwnResultAlone, Own
  <2> QED  BY <2>1, <2>2 DEF AloneInv
<1> QED  BY <1>4, <1>5, <1>6, <1>7, <1>8

-----------------------------------------------------------------------------
\* The producer settles a message: with the id of its offset, or with none.
LEMMA SettleStep ==
  ASSUME WInv, NEW m \in pending, NEW i \in 0..IdRange,
         pending' = pending \ {m}, results' = results \union {Result(m, i)},
         UNCHANGED <<pc, calls, returned, shared, producer, panic>>,
         log' \in {log, Append(log, m)},
         i = NoId \/ (log' = Append(log, m) /\ i = LastId(log'))
  PROVE  WInv'
<1> USE BoundAssumption
<1> USE DEF WInv
<1> DEFINE q == Result(m, i)
<1>1. /\ pc' = pc /\ calls' = calls /\ returned' = returned
      /\ shared' = shared /\ producer' = producer /\ panic' = panic
  OBVIOUS
<1>2. /\ m \in Message /\ pending \subseteq Message /\ results \subseteq Settled
      /\ log \in Seq(Message)
  BY DEF TypeOK
<1>3. /\ q \in Settled /\ q.message = m /\ q.id = i
      /\ q \notin results
  BY <1>2 DEF Settled, Result, FlightInv
<1>4. results' = results \union {q} /\ pending' = pending \ {m}
  OBVIOUS
<1>5. /\ log' \in Seq(Message) /\ Len(log) <= Len(log')
      /\ \A k \in 1..Len(log) : log'[k] = log[k]
  BY <1>2
<1>6. i # NoId /\ Len(log') <= IdRange => i = Len(log) /\ Own(q)'
  <2>1. SUFFICES ASSUME i # NoId, Len(log') <= IdRange
                 PROVE  i = Len(log) /\ i < Len(log') /\ log'[i + 1] = m
    BY <1>3 DEF Own
  <2>2. log' = Append(log, m) /\ i = LastId(log') /\ Len(log) \in Nat
    BY <1>2, <2>1
  <2>3. Len(log') = Len(log) + 1 /\ log'[Len(log) + 1] = m
    BY <1>2, <2>2
  <2>4. Len(log') \in Nat \ {0}
    BY <2>2, <2>3
  <2>5. LastId(log') = Len(log') - 1
    BY <2>1, <2>4, LastIdType
  <2> QED  BY <2>2, <2>3, <2>5
<1> HIDE DEF q
<1>7. TypeOK'
  <2>1. pending' \subseteq Message /\ results' \subseteq Settled
    BY <1>2, <1>3, <1>4
  <2> QED  BY <1>1, <1>5, <2>1 DEF TypeOK
<1>8. FlightInv'
  <2>1. \A k : Pushed(k)' = Pushed(k)
    BY <1>1 DEF Pushed
  <2>2. Pushed(m)
    BY DEF FlightInv
  <2> QED  BY <1>1, <1>3, <1>4, <2>1, <2>2 DEF FlightInv
<1>9. CountInv'
  <2>1. Waiting' = Waiting
    BY <1>1 DEF Waiting
  <2>2. /\ IsFiniteSet(pending') /\ IsFiniteSet(results')
        /\ Cardinality(pending') = Cardinality(pending) - 1
        /\ Cardinality(results') = Cardinality(results) + 1
    BY <1>3, <1>4, CountTypes, FS_AddElement, FS_RemoveElement
  <2>3. producer # "closed"
    BY DEF CountInv
  <2> QED  BY <1>1, <2>1, <2>2, <2>3, CountTypes DEF CountInv, ResultPerCaller
<1>10. IdInv'
  <2> SUFFICES ASSUME Len(log') <= IdRange
               PROVE  /\ \A r \in results' : Own(r)'
                      /\ \A r \in returned' : r.id # NoId => r.id < Len(log')
                      /\ \A r, p \in results' : r.id # NoId /\ p.id = r.id => p = r
                      /\ \A r \in results' : \A p \in returned' :
                           r.id # NoId => p.id # r.id
                      /\ \A r, p \in returned' : r.id # NoId /\ p.id = r.id => p = r
    BY DEF IdInv
  <2>1. Len(log) \in Nat /\ Len(log') \in Nat /\ Len(log) <= IdRange
    BY <1>2, <1>5
  <2>2. /\ \A r \in results : Own(r)
        /\ \A r \in returned : r.id # NoId => r.id < Len(log)
        /\ \A r, p \in results : r.id # NoId /\ p.id = r.id => p = r
        /\ \A r \in results : \A p \in returned : r.id # NoId => p.id # r.id
        /\ \A r, p \in returned : r.id # NoId /\ p.id = r.id => p = r
    BY <2>1 DEF IdInv
  <2>3. /\ \A r \in results : r.id \in 0..IdRange
        /\ \A r \in returned : r.id \in 0..IdRange
    BY <1>2 DEF TypeOK, Settled
  <2>4. \A r \in results : Own(r)'
    BY <1>5, <2>1, <2>2, <2>3 DEF Own
  <2>5. q.id = NoId \/ (q.id = Len(log) /\ Own(q)')
    BY <1>3, <1>6
  <2>6. ASSUME NEW r \in results' PROVE Own(r)'
    <3>1. CASE r \in results
      BY <2>4, <3>1
    <3>2. CASE r = q
      BY <2>5, <3>2 DEF Own
    <3> QED  BY <1>4, <3>1, <3>2
  <2>7. \A r \in returned' : r.id # NoId => r.id < Len(log')
    BY <1>1, <1>5, <2>1, <2>2, <2>3
  <2>8. \A r \in results : r.id # NoId => r.id < Len(log)
    BY <2>2 DEF Own
  <2>9. \A r \in results : q.id # NoId => r.id # q.id
    BY <2>1, <2>3, <2>5, <2>8
  <2>10. \A r \in returned : q.id # NoId => r.id # q.id
    BY <2>1, <2>2, <2>3, <2>5
  <2> QED  BY <1>1, <1>4, <2>2, <2>6, <2>7, <2>9, <2>10
<1>11. AloneInv'
  <2>1. ASSUME NEW d \in Callers, pc'[d] # "idle", Current(d)' \notin shared'
        PROVE  /\ \A e \in Callers : e # d => pc'[e] = "idle"
               /\ \A k \in pending' : k = Current(d)'
               /\ \A r \in results' : r.message = Current(d)'
    <3>1. Current(d)' = Current(d)
      BY <1>1 DEF Current
    <3>2. /\ \A e \in Callers : e # d => pc[e] = "idle"
          /\ \A k \in pending : k = Current(d)
          /\ \A r \in results : r.message = Current(d)
      BY <1>1, <2>1, <3>1 DEF AloneInv
    <3> QED  BY <1>1, <1>3, <1>4, <3>1, <3>2
  <2>2. OwnResultAlone'
    <3> SUFFICES ASSUME Len(log') <= IdRange, NEW r \in returned,
                        r.message \notin shared
                 PROVE  Own(r)'
      BY <1>1 DEF OwnResultAlone
    <3>1. Own(r) /\ r.id \in 0..IdRange /\ Len(log) \in Nat /\ Len(log') \in Nat
      BY <1>2, <1>5 DEF AloneInv, OwnResultAlone, TypeOK, Settled
    <3> QED  BY <1>5, <3>1 DEF Own
  <2> QED  BY <2>1, <2>2 DEF AloneInv
<1> QED  BY <1>7, <1>8, <1>9, <1>10, <1>11

\* The producer stores a message or gives up on it.
LEMMA ProducerStep ==
  ASSUME WInv, NEW m \in Message, Store(m) \/ Fail(m)
  PROVE  WInv'
<1>1. CASE Store(m)
  <2>1. /\ m \in pending /\ log' = Append(log, m)
        /\ results' = results \union {Result(m, LastId(log'))}
        /\ pending' = pending \ {m}
        /\ UNCHANGED <<pc, calls, returned, shared, producer, panic>>
    BY <1>1 DEF Store, Running
  <2>2. Len(log') \in Nat \ {0}
    BY <2>1 DEF WInv, TypeOK
  <2>3. LastId(log') \in 0..IdRange
    BY <2>2, LastIdType, BoundAssumption
  <2> QED  BY <2>1, <2>3, SettleStep
<1>2. CASE Fail(m)
  <2>1. /\ m \in pending /\ log' \in {log, Append(log, m)}
        /\ results' = results \union {Result(m, NoId)}
        /\ pending' = pending \ {m}
        /\ UNCHANGED <<pc, calls, returned, shared, producer, panic>>
    BY <1>2 DEF Fail, Running
  <2>2. NoId \in 0..IdRange
    BY BoundAssumption DEF NoId
  <2> QED  BY <2>1, <2>2, SettleStep
<1> QED  BY <1>1, <1>2

\* Close takes a result that no caller has taken.
LEMMA DrainStep ==
  ASSUME WInv, Drain
  PROVE  WInv'
<1> USE DEF WInv
<1>1. /\ producer = "closing" /\ pc' = pc /\ calls' = calls
      /\ pending' = pending /\ log' = log /\ returned' = returned
      /\ shared' = shared /\ producer' = producer /\ panic' = panic
  BY DEF Drain, Running
<1>2. PICK r \in results : results' = results \ {r}
  BY DEF Drain
<1>3. results' \subseteq results
  BY <1>2
<1>4. TypeOK'
  BY <1>1, <1>3 DEF TypeOK
<1>5. FlightInv'
  BY <1>1, <1>3 DEF FlightInv, Pushed
<1>6. CountInv'
  <2>1. Waiting' = Waiting
    BY <1>1 DEF Waiting
  <2>2. /\ IsFiniteSet(results')
        /\ Cardinality(results') = Cardinality(results) - 1
    BY <1>2, CountTypes, FS_RemoveElement
  <2> QED  BY <1>1, <2>1, <2>2, CountTypes DEF CountInv, ResultPerCaller
<1>7. IdInv'
  BY <1>1, <1>3 DEF IdInv, Own
<1>8. AloneInv'
  BY <1>1, <1>3 DEF AloneInv, OwnResultAlone, Own, Current
<1> QED  BY <1>4, <1>5, <1>6, <1>7, <1>8

\* Close begins or ends, the input panics, or nothing happens.
LEMMA ProducerStateStep ==
  ASSUME WInv, Close \/ Closed \/ (\E c \in Callers : InputPanics(c))
                 \/ UNCHANGED vars
  PROVE  WInv'
<1> USE DEF WInv
<1>1. /\ pc' = pc /\ calls' = calls /\ pending' = pending
      /\ results' = results /\ log' = log /\ returned' = returned
      /\ shared' = shared
  BY DEF Close, Closed, InputPanics, vars
<1>2. panic' \in BOOLEAN
  BY DEF Close, Closed, InputPanics, Running, vars, TypeOK
<1>3. \/ producer' = producer
      \/ producer' = "closing"
      \/ producer' = "closed" /\ pending = {} /\ results = {}
  BY DEF Close, Closed, InputPanics, vars
<1>4. TypeOK'
  BY <1>1, <1>2, <1>3 DEF TypeOK
<1>5. FlightInv'
  BY <1>1 DEF FlightInv, Pushed
<1>6. CountInv'
  <2>1. Waiting' = Waiting
    BY <1>1 DEF Waiting
  <2> QED  BY <1>1, <1>3, <2>1 DEF CountInv, ResultPerCaller
<1>7. IdInv'
  BY <1>1 DEF IdInv, Own
<1>8. AloneInv'
  BY <1>1 DEF AloneInv, OwnResultAlone, Own, Current
<1> QED  BY <1>4, <1>5, <1>6, <1>7, <1>8

-----------------------------------------------------------------------------
\* Every step preserves the invariant.
LEMMA NextStep == WInv /\ [Next]_vars => WInv'
<1> SUFFICES ASSUME WInv, [Next]_vars PROVE WInv'
  OBVIOUS
<1>1. CASE CallNext \/ PushNext
  BY <1>1, CallStep, InputStep, ReceiveStep, ReceiveClosedStep,
     ProducerStateStep DEF CallNext, PushNext
<1>2. CASE ProducerNext
  BY <1>2, ProducerStep DEF ProducerNext
<1>3. CASE Drain
  BY <1>3, DrainStep
<1>4. CASE Close \/ Closed \/ UNCHANGED vars
  BY <1>4, ProducerStateStep
<1> QED  BY <1>1, <1>2, <1>3, <1>4 DEF Next, WriterNext

\* The invariant the theorems rest on holds in every reachable state.
THEOREM Invariant == Spec => []WInv
  BY InitInv, NextStep, PTL DEF Spec

\* The variables of the writer keep their types.
THEOREM TypeCorrect == Spec => []TypeOK
<1>1. WInv => TypeOK
  BY DEF WInv
<1> QED  BY <1>1, Invariant, PTL

\* Until Close there are as many results to come as callers in the select of
\* Push: however many goroutines share the producer, none waits in vain.
THEOREM ResultsMatch == Spec => []ResultPerCaller
<1>1. WInv => ResultPerCaller
  BY DEF WInv, CountInv
<1> QED  BY <1>1, Invariant, PTL

\* Two calls of Push never return the same id, though each may return the
\* other's, until the offsets outgrow an id.
THEOREM IdsUnique == Spec => []UniqueIds
<1>1. WInv => UniqueIds
  BY DEF WInv, IdInv, UniqueIds
<1> QED  BY <1>1, Invariant, PTL

\* A call of Push that no other call overlaps returns the offset of its own
\* message or an error, whatever failed or was drained before it.
THEOREM AloneOwn == Spec => []OwnResultAlone
<1>1. WInv => OwnResultAlone
  BY DEF WInv, AloneInv
<1> QED  BY <1>1, Invariant, PTL
=============================================================================
