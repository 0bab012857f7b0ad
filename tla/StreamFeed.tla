----------------------------- MODULE StreamFeed -----------------------------
(***************************************************************************)
(* What au10/streamreader.go promises one subscriber (StreamSubscription): *)
(* it starts somewhere in the stream, then never misses a message, once    *)
(* the group has committed an offset; after a rebalance messages may come  *)
(* again; nothing comes after it ends.                                     *)
(***************************************************************************)
EXTENDS Naturals

CONSTANTS Subs, MaxMsg

VARIABLES
  state,    \* "off", "on" or "ended", for every subscription
  last,     \* last offset handed to it, 0 for none
  newest,   \* where reading last began at the end of the stream
  settled   \* has an offset been committed?

Init ==
  /\ state = [s \in Subs |-> "off"]
  /\ last = [s \in Subs |-> 0]
  /\ newest = 0 /\ settled = FALSE

Open(s) ==
  /\ state[s] = "off"
  /\ state' = [state EXCEPT ![s] = "on"]
  /\ UNCHANGED last

\* The next message, or an earlier one again; a gap is never behind the place
\* where reading last began at the end.
Deliver(s, o) ==
  /\ state[s] = "on"
  /\ last[s] # 0 => o <= last[s] + 1 \/ o <= newest + 1
  /\ last' = [last EXCEPT ![s] = o]
  /\ UNCHANGED state

\* Unsubscribed, or never subscribed because the consumer did not open.
End(s) ==
  /\ state[s] # "ended"
  /\ state' = [state EXCEPT ![s] = "ended"]
  /\ UNCHANGED last

\* Reading begins at the end only as long as nothing is committed.
Group ==
  \/ ~settled /\ newest' \in newest..MaxMsg /\ UNCHANGED settled
  \/ UNCHANGED newest /\ (settled => settled')

Subscription ==
  \E s \in Subs :
    Open(s) \/ End(s) \/ \E o \in 1..MaxMsg : Deliver(s, o)

Next == Group /\ (Subscription \/ UNCHANGED <<state, last>>)

Spec == Init /\ [][Next]_<<state, last, newest, settled>>
=============================================================================
