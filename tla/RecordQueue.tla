----------------------------- MODULE RecordQueue -----------------------------
(***************************************************************************)
(* What a process may rely on that reads topics through                    *)
(* au10/streamreader.go: the records on their way to each of its           *)
(* subscriptions keep the order they are read in, they are few, and none   *)
(* of them gets lost while the process lives and stays subscribed.  They   *)
(* have been marked as consumed, but the group may go back behind them to  *)
(* what is committed, and read them again.  As long as nothing is, it goes *)
(* on at the end of the topic instead, and passes over what is before it.  *)
(***************************************************************************)
EXTENDS Naturals, Sequences

CONSTANT Keys  \* the subscriptions

\* One in messagesChan, one in the hands of serve, one in the records channel.
QueueCap == 3

VARIABLES
  on,         \* is the subscription open, and does the process live?
  queue,      \* offsets of the records on their way to it
  next,       \* the offset of the record to read next
  committed,  \* the offset to go back to, newest if nothing is committed
  newest      \* where reading last began at the end of the topic

Init ==
  \A k \in Keys :
    queue[k] = <<>> /\ next[k] = committed[k] /\ committed[k] = newest[k]

SameOffsets(k) == committed'[k] = committed[k] /\ newest'[k] = newest[k]

Keeps(k) == on'[k] = on[k] /\ SameOffsets(k)

MayPut(k) == Len(queue[k]) < QueueCap

Put(k) ==
  /\ on[k] /\ MayPut(k)
  /\ queue'[k] = Append(queue[k], next[k]) /\ next'[k] = next[k] + 1
  /\ Keeps(k)

\* It is read for another subscription to the same topic.
Skip(k) ==
  /\ ~on[k]
  /\ queue'[k] = queue[k] /\ next'[k] = next[k] + 1
  /\ Keeps(k)

Take(k) ==
  /\ queue[k] # <<>>
  /\ queue'[k] = Tail(queue[k]) /\ next'[k] = next[k]
  /\ Keeps(k)

Stays(k) == next'[k] = next[k] /\ SameOffsets(k)

\* Reading goes on from what is committed, if anything is.
GoesBack(k) == committed'[k] > newest'[k] /\ next'[k] = committed'[k]

\* If nothing is, it begins at the end of the topic.
Begins(k) ==
  /\ committed[k] = newest[k]
  /\ next'[k] >= next[k]
  /\ committed'[k] = next'[k] /\ newest'[k] = next'[k]

\* Some of what is read is committed; the group goes on, or back.
Commit(k) ==
  /\ committed'[k] \in committed[k]..next[k] /\ newest'[k] = newest[k]
  /\ next'[k] = next[k] \/ GoesBack(k)
  /\ on'[k] = on[k] /\ queue'[k] = queue[k]

PassOver(k) == Begins(k) /\ on'[k] = on[k] /\ queue'[k] = queue[k]

\* A subscription may begin with a record that was read before it.
Join(k) ==
  /\ ~on[k] /\ on'[k]
  /\ Len(queue'[k]) <= 1
  /\ Stays(k) \/ Begins(k)

Leave(k) ==
  /\ on[k] /\ ~on'[k] /\ queue'[k] = <<>>
  /\ Stays(k) \/ (GoesBack(k) /\ SameOffsets(k))

Stutter(k) == queue'[k] = queue[k] /\ on'[k] = on[k] /\ Stays(k)

Step(k) ==
  \/ Put(k) \/ Skip(k) \/ Take(k) \/ Commit(k) \/ PassOver(k)
  \/ Join(k) \/ Leave(k) \/ Stutter(k)

\* Subscriptions share a reader, which reads for all of them at once.
Next == \A k \in Keys : Step(k)

Spec == Init /\ [][Next]_<<on, queue, next, committed, newest>>
=============================================================================
