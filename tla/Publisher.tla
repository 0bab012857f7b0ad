----------------------------- MODULE Publisher ------------------------------
(***************************************************************************)
(* publisher/main.go with postdb/db.go: the one publisher process takes    *)
(* declarations and message chunks from their two topics, stores them in   *)
(* the database and notifies the access points of posts.                   *)
(*                                                                         *)
(* Post IDs are offsets in the posts topic and message IDs are indexes in  *)
(* the declaration, both from 0.  On its way from a topic to the main loop *)
(* a record is in the queue of a stream reader (StreamReader.tla), already *)
(* marked as consumed.  The database and the broker are external.          *)
(***************************************************************************)
EXTENDS Integers, Sequences, Access

CONSTANTS
  Tokens,       \* the tokens of the requests of the access points' clients
  MayFail,      \* may the database or the notification fail?
  Null,         \* the SQL NULL
  MaxPost,      \* bound: declarations
  MaxDecl,      \* bound: messages in one declaration
  MaxChunk,     \* bound: chunks
  MaxCrash,     \* bound: times the process dies
  MaxRebalance  \* bound: times a reader leaves its group and joins it again

ASSUME FailAssumption == MayFail \in BOOLEAN
ASSUME BoundAssumption ==
  /\ MaxPost \in Nat /\ MaxDecl \in Nat /\ MaxChunk \in Nat
  /\ MaxCrash \in Nat /\ MaxRebalance \in Nat

Topics == {"posts", "messages"}
PostID == 0..(MaxPost - 1)
MessageID == 0..(MaxDecl - 1)
Chunk == [post : PostID, id : MessageID,
          author : {RequestUser(token) : token \in Tokens}]

VARIABLES
  posts,        \* the topic of declarations: how many messages each has
  chunks,       \* the topic of chunks
  joined,       \* topics whose reader is in a session of its group
  marked,       \* next offset of each topic to read
  committed,    \* the offset to read each topic from when the group joins
                \* again; newest if the group has committed none
  newest,       \* where reading of it last began at the end of the topic
  passed,       \* history: posts that were before that and never read
  queue,        \* offsets of records on their way to the main loop
  pc,           \* where the main loop is
  cur,          \* offset of the record it handles
  inserted,     \* message rows inserted in the open transaction
  postRows,     \* IDs in the post table
  data,         \* the message table: the data column of every row
  notified,     \* the posts topic, read by access points
  updated,      \* history: [chunk, row] of the updates that hit a row
  failed,       \* history: posts a failed step or the death of the process lost
  crashes,      \* times the process died
  rebalances    \* times a reader left its group

topicVars == <<posts, chunks>>
groupVars == <<joined, marked, committed, newest, passed>>
readVars == <<groupVars, queue>>
loopVars == <<pc, cur, inserted>>
dbVars == <<postRows, data>>
faultVars == <<failed, crashes, rebalances>>
vars == <<topicVars, readVars, loopVars, dbVars, notified, updated, faultVars>>

Init ==
  /\ posts = <<>> /\ chunks = <<>>
  /\ joined = {} /\ passed = {}
  /\ marked = [t \in Topics |-> 0] /\ committed = [t \in Topics |-> 0]
  /\ newest = [t \in Topics |-> 0]
  /\ queue = [t \in Topics |-> <<>>]
  /\ pc = "down" /\ cur = 0 /\ inserted = 0
  /\ postRows = {} /\ data = [r \in {} |-> Null]
  /\ notified = <<>>
  /\ updated = {} /\ failed = {}
  /\ crashes = 0 /\ rebalances = 0

-----------------------------------------------------------------------------
(* The access points write to the two topics, as Topics.tla says, which    *)
(* AccessPoint.tla is shown to implement.                                  *)

AddVocal(user, n) ==
  /\ Len(posts) < MaxPost
  /\ MayPublish(user)
  /\ posts' = Append(posts, n)
  /\ UNCHANGED <<chunks, readVars, loopVars, dbVars, notified, updated,
                 faultVars>>

\* A client appends to any post, declared or not.
WriteMessageChunk(c) ==
  /\ Len(chunks) < MaxChunk
  /\ MayPublish(c.author)
  /\ chunks' = Append(chunks, c)
  /\ UNCHANGED <<posts, readVars, loopVars, dbVars, notified, updated,
                 faultVars>>

-----------------------------------------------------------------------------
(* The stream readers, with the queues StreamReader.tla is shown to have.  *)

TopicLen(t) == IF t = "posts" THEN Len(posts) ELSE Len(chunks)

Queues == INSTANCE RecordQueue WITH
  Keys <- Topics, on <- [t \in Topics |-> pc # "down"], next <- marked

HasCommitted(t) == committed[t] > newest[t]

BeginAtEnd(t) ==
  /\ marked' = [marked EXCEPT ![t] = TopicLen(t)]
  /\ committed' = [committed EXCEPT ![t] = TopicLen(t)]
  /\ newest' = [newest EXCEPT ![t] = TopicLen(t)]
  /\ passed' = passed \union
                 (IF t = "posts" THEN marked[t]..(TopicLen(t) - 1) ELSE {})

\* A session of the group begins, where EndOfSession has left it, or at the
\* end of the topic if nothing was ever committed.
JoinGroup(t) ==
  /\ pc # "down" /\ t \notin joined
  /\ joined' = joined \union {t}
  /\ IF HasCommitted(t) THEN UNCHANGED <<marked, committed, newest, passed>>
                        ELSE BeginAtEnd(t)
  /\ UNCHANGED <<topicVars, queue, loopVars, dbVars, notified, updated,
                 faultVars>>

\* Mutant: the record behind the one that is read is marked too.
FetchMarksNext(t) ==
  /\ t \in joined /\ marked[t] < TopicLen(t) /\ Queues!MayPut(t)
  /\ queue' = [queue EXCEPT ![t] = Append(@, marked[t])]
  /\ marked' = [marked EXCEPT ![t] = @ + 2]
  /\ UNCHANGED <<topicVars, joined, committed, newest, passed, loopVars,
                 dbVars, notified, updated, faultVars>>

\* A record is read and marked, though the main loop has not handled it yet.
Fetch(t) ==
  /\ t \in joined /\ marked[t] < TopicLen(t) /\ Queues!MayPut(t)
  /\ queue' = [queue EXCEPT ![t] = Append(@, marked[t])]
  /\ marked' = [marked EXCEPT ![t] = @ + 1]
  /\ UNCHANGED <<topicVars, joined, committed, newest, passed, loopVars,
                 dbVars, notified, updated, faultVars>>

\* Marked offsets are committed from time to time.
CommitOffset(t) ==
  /\ t \in joined /\ committed[t] < marked[t]
  /\ committed' = [committed EXCEPT ![t] = marked[t]]
  /\ UNCHANGED <<topicVars, joined, marked, newest, passed, queue, loopVars,
                 dbVars, notified, updated, faultVars>>

\* Where the next session goes on, as far as that is known.
EndOfSession(t) == IF HasCommitted(t) THEN committed[t] ELSE marked[t]

\* Mutant: the records on their way are thrown away with the session.
RebalanceDrops(t) ==
  /\ t \in joined /\ rebalances < MaxRebalance
  /\ joined' = joined \ {t}
  /\ marked' = [marked EXCEPT ![t] = EndOfSession(t)]
  /\ queue' = [queue EXCEPT ![t] = <<>>]
  /\ rebalances' = rebalances + 1
  /\ UNCHANGED <<topicVars, committed, newest, passed, loopVars, dbVars,
                 notified, updated, failed, crashes>>

\* A group session ends, with what is not committed unmarked; the process
\* goes on with what is on its way.
Rebalance(t) ==
  /\ t \in joined /\ rebalances < MaxRebalance
  /\ joined' = joined \ {t}
  /\ marked' = [marked EXCEPT ![t] = EndOfSession(t)]
  /\ rebalances' = rebalances + 1
  /\ UNCHANGED <<topicVars, committed, newest, passed, queue, loopVars, dbVars,
                 notified, updated, failed, crashes>>

-----------------------------------------------------------------------------
(* The process dies: killed, ended by a stream error, or by Fatal.         *)

Declared(p) == posts[p + 1]

Notified(p) == \E n \in 1..Len(notified) : notified[n] = p

\* Posts whose declaration is read and whose handling is not over.
OnTheWay ==
  {queue["posts"][i] : i \in 1..Len(queue["posts"])} \union
  (IF pc \in {"insertPost", "insertMessages", "notify"} THEN {cur} ELSE {})

\* Of those, the ones the process takes with it: not stored and not delivered
\* again, or stored and never to be notified, for storing it again fails.
Doomed ==
  {p \in OnTheWay : IF p \in postRows'
                    THEN Declared(p) = 0 /\ ~Notified(p)
                    ELSE HasCommitted("posts") => p < committed["posts"]}

Dies ==
  /\ crashes < MaxCrash /\ crashes' = crashes + 1
  /\ pc' = "down" /\ inserted' = 0
  /\ joined' = {} /\ queue' = [t \in Topics |-> <<>>]
  /\ failed' = failed \union Doomed
  /\ UNCHANGED <<cur, committed, newest, passed>>

\* Mutant: a restart goes on behind what was marked, committed or not.
DieMarked == Dies /\ UNCHANGED marked

Die == Dies /\ marked' = [t \in Topics |-> EndOfSession(t)]

Crash ==
  /\ pc # "down"
  /\ UNCHANGED <<topicVars, dbVars, notified, updated, rebalances>>
  /\ Die

\* Somebody starts the process, the first time or again.
Start ==
  /\ pc = "down" /\ pc' = "select"
  /\ UNCHANGED <<topicVars, readVars, cur, inserted, dbVars, notified,
                 updated, faultVars>>

-----------------------------------------------------------------------------
(* The main loop.                                                          *)

Take(t, next) ==
  /\ pc = "select" /\ queue[t] # <<>>
  /\ cur' = Head(queue[t]) /\ queue' = [queue EXCEPT ![t] = Tail(@)]
  /\ pc' = next

\* A declaration: storePost begins a transaction.
TakePost ==
  /\ Take("posts", "insertPost")
  /\ UNCHANGED <<topicVars, groupVars, inserted, dbVars, notified,
                 updated, faultVars>>

\* Mutant: the post table has no primary key.
InsertPostAgain ==
  /\ pc = "insertPost" /\ pc' = "insertMessages"
  /\ UNCHANGED <<topicVars, readVars, cur, inserted, dbVars, notified,
                 updated, faultVars>>

\* The ID is the primary key of the post table: a post that comes again is
\* refused and the transaction rolled back.
InsertPost ==
  /\ pc = "insertPost"
  /\ pc' = IF cur \in postRows THEN "select" ELSE "insertMessages"
  /\ UNCHANGED <<topicVars, readVars, cur, inserted, dbVars, notified,
                 updated, faultVars>>

InsertMessage ==
  /\ pc = "insertMessages" /\ inserted < Declared(cur)
  /\ inserted' = inserted + 1
  /\ UNCHANGED <<topicVars, readVars, pc, cur, dbVars, notified, updated,
                 faultVars>>

\* Message rows of the post that the open transaction has inserted.
InsertedRows == {<<i, cur>> : i \in 0..(inserted - 1)}

\* Their data column has no default.
StoredByCommit ==
  /\ postRows' = postRows \union {cur}
  /\ data' = [r \in DOMAIN data \union InsertedRows |->
                IF r \in DOMAIN data THEN data[r] ELSE Null]

\* Mutant: the transaction is committed before its last insert.
CommitPostEarly ==
  /\ pc = "insertMessages"
  /\ StoredByCommit
  /\ inserted' = 0
  /\ pc' = IF Declared(cur) = 0 THEN "notify" ELSE "select"
  /\ UNCHANGED <<topicVars, readVars, cur, notified, updated, faultVars>>

\* Mutant: the condition on the number of messages is inverted.
CommitPostInverted ==
  /\ pc = "insertMessages" /\ inserted = Declared(cur)
  /\ StoredByCommit
  /\ inserted' = 0
  /\ pc' = IF Declared(cur) # 0 THEN "notify" ELSE "select"
  /\ UNCHANGED <<topicVars, readVars, cur, notified, updated, faultVars>>

\* A post without messages is notified next.
CommitPost ==
  /\ pc = "insertMessages" /\ inserted = Declared(cur)
  /\ StoredByCommit
  /\ inserted' = 0
  /\ pc' = IF Declared(cur) = 0 THEN "notify" ELSE "select"
  /\ UNCHANGED <<topicVars, readVars, cur, notified, updated, faultVars>>

PushVocal ==
  /\ pc = "notify" /\ pc' = "select"
  /\ \/ notified' = Append(notified, cur) /\ UNCHANGED failed
     \/ MayFail /\ failed' = failed \union {cur} /\ UNCHANGED notified
  /\ UNCHANGED <<topicVars, readVars, cur, inserted, dbVars, updated,
                 crashes, rebalances>>

\* checkMessage: the author is known and has rights, the post is stored.
Checked(c) == MayAppend(c.author) /\ c.post \in postRows

\* A chunk that passes checkMessage: storeMessage begins a transaction.
TakeChunk ==
  /\ Take("messages", "append") /\ Checked(chunks[Head(queue["messages"]) + 1])
  /\ UNCHANGED <<topicVars, groupVars, inserted, dbVars, notified,
                 updated, faultVars>>

\* A chunk that does not, or whose post could not be read.
DropChunk ==
  /\ Take("messages", "select")
  /\ MayFail \/ ~Checked(chunks[Head(queue["messages"]) + 1])
  /\ UNCHANGED <<topicVars, groupVars, inserted, dbVars, notified,
                 updated, faultVars>>

\* The row AppendMessage(id, post, data) updates when storeMessage calls it
\* with the post for id and the message for post.
TargetRow(c) == <<c.post, c.id>>

\* data || $3 in SQL.
Concat(d, k) == IF d = Null THEN Null ELSE Append(d, k)

UpdatedByCommit ==
  LET row == TargetRow(chunks[cur + 1]) IN
  IF row \in DOMAIN data
  THEN /\ data' = [data EXCEPT ![row] = Concat(@, cur)]
       /\ updated' = updated \union {<<cur, row>>}
       /\ UNCHANGED postRows
  ELSE UNCHANGED <<dbVars, updated>>

CommitChunk ==
  /\ pc = "append" /\ pc' = "select"
  /\ UpdatedByCommit
  /\ UNCHANGED <<topicVars, readVars, cur, inserted, notified, faultVars>>

\* A transaction cannot begin, or a statement of it fails and it is rolled
\* back.
StatementFails ==
  /\ MayFail /\ pc \in {"insertPost", "insertMessages", "append"}
  /\ pc' = "select" /\ inserted' = 0
  /\ failed' = failed \union (IF pc = "append" THEN {} ELSE {cur})
  /\ UNCHANGED <<topicVars, readVars, cur, dbVars, notified, updated,
                 crashes, rebalances>>

\* A commit fails, with or without effect; the rollback that follows finds
\* the transaction closed, which is fatal.
CommitFails ==
  /\ MayFail
  /\ \/ /\ pc = "insertMessages" /\ inserted = Declared(cur)
        /\ StoredByCommit \/ UNCHANGED dbVars
        /\ UNCHANGED updated
     \/ /\ pc = "append"
        /\ UpdatedByCommit \/ UNCHANGED <<dbVars, updated>>
  /\ Die
  /\ UNCHANGED <<topicVars, notified, rebalances>>

-----------------------------------------------------------------------------
StreamNext ==
  \/ \E token \in Tokens, n \in 0..MaxDecl : AddVocal(RequestUser(token), n)
  \/ \E c \in Chunk : WriteMessageChunk(c)
  \/ \E t \in Topics :
       JoinGroup(t) \/ Fetch(t) \/ CommitOffset(t) \/ Rebalance(t)

LoopNext ==
  \/ TakePost \/ InsertPost \/ InsertMessage \/ CommitPost \/ PushVocal
  \/ TakeChunk \/ DropChunk \/ CommitChunk
  \/ StatementFails \/ CommitFails

Next == StreamNext \/ LoopNext \/ Crash \/ Start

Spec == Init /\ [][Next]_vars

\* The goroutines run, a reader joins its group, and select chooses among ready
\* cases at random.  Nothing starts a process that is down.
Fairness ==
  /\ \A t \in Topics : WF_vars(JoinGroup(t)) /\ WF_vars(Fetch(t))
  /\ SF_vars(TakePost) /\ SF_vars(TakeChunk \/ DropChunk)
  /\ WF_vars(InsertPost) /\ WF_vars(InsertMessage) /\ WF_vars(CommitPost)
  /\ WF_vars(PushVocal) /\ WF_vars(CommitChunk)

FairSpec == Spec /\ Fairness

-----------------------------------------------------------------------------
TopicsOK ==
  /\ posts \in Seq(0..MaxDecl) /\ Len(posts) <= MaxPost
  /\ chunks \in Seq(Chunk) /\ Len(chunks) <= MaxChunk

ReadersOK ==
  /\ joined \subseteq Topics /\ (pc = "down" => joined = {})
  /\ marked \in [Topics -> Nat] /\ committed \in [Topics -> Nat]
  /\ newest \in [Topics -> Nat] /\ passed \subseteq PostID
  /\ queue \in [Topics -> Seq(Nat)]
  /\ \A t \in Topics :
       /\ newest[t] <= committed[t] /\ committed[t] <= marked[t]
       /\ marked[t] <= TopicLen(t)
       /\ Len(queue[t]) <= Queues!QueueCap

LoopOK ==
  /\ pc \in {"select", "insertPost", "insertMessages", "notify", "append",
             "down"}
  /\ cur \in Nat /\ inserted \in 0..MaxDecl
  /\ failed \subseteq PostID
  /\ crashes \in 0..MaxCrash /\ rebalances \in 0..MaxRebalance

TablesOK ==
  /\ postRows \subseteq PostID
  /\ data \in [DOMAIN data -> Seq(Nat) \union {Null}]
  /\ notified \in Seq(PostID)
  /\ updated \subseteq (Nat \X (PostID \X MessageID))

\* Types, queue capacities, and the order of the offsets of each reader.
TypeOK == TopicsOK /\ ReadersOK /\ LoopOK /\ TablesOK

DeclaredRows(p) == {<<i, p>> : i \in 0..(Declared(p) - 1)}

\* Through redelivery, failed statements and crashes the tables hold exactly
\* the stored posts with all their declared messages: never a post with part
\* of them, nor a message without its post.
StoredAsDeclared ==
  /\ \A p \in postRows : p < Len(posts)
  /\ DOMAIN data = UNION {DeclaredRows(p) : p \in postRows}

Store == INSTANCE PostStore WITH stored <- postRows

\* Of what its readers hold for the main loop the process loses nothing while
\* it lives, whatever fails or is rebalanced, and it takes it in order.
ImplementsQueues == Queues!Spec

\* A post is stored once; one without messages is notified at most once and
\* only after it was stored, though its declaration may be read many times.
ImplementsPostStore == Store!Spec

\* Whatever is redelivered, skipped or fails, and however often the process
\* dies: a declaration up to the last one read is stored, is on its way, is
\* lost to a failure that struck it in hand, or was passed over, and those are
\* posts from before the group committed anything (publisher/main.go: main,
\* storePost; au10/stream.go: NewSaramaConsumer).
NothingLost ==
  /\ \A p \in 0..(marked["posts"] - 1) :
       p \in postRows \union failed \union OnTheWay \union passed
  /\ \A p \in passed : p < newest["posts"] /\ p \notin postRows

\* A stored post without messages that is not notified is about to be, or a
\* failure has struck between its commit and its notification.
NotificationOwed ==
  \A p \in postRows :
    Declared(p) = 0 =>
      Notified(p) \/ p \in failed \/ (pc = "notify" /\ cur = p)

\* Nothing went wrong with this post: what fails for other posts and for
\* chunks is no excuse, nor is a death of the process that does not doom it.
Spared(p) == p \notin failed \union passed

\* A post without messages is published (au10/publisher.go: Publisher), unless
\* a statement or the notification of that very post fails, the process dies
\* with it in hand, it is passed over before anything was committed, or the
\* process is down for good.
VocalPublished ==
  \A p \in PostID :
    p < Len(posts) /\ Declared(p) = 0
      ~> Notified(p) \/ ~Spared(p) \/ [](pc = "down")

\* Every accepted post is stored, with the same exceptions.
PostStored ==
  \A p \in PostID :
    p < Len(posts) ~> p \in postRows \/ ~Spared(p) \/ [](pc = "down")

\* The row of the message a chunk belongs to.
OwnTarget(c) == <<c.id, c.post>>

\* Storing a chunk touches no message but its own (postdb/db.go:
\* AppendMessage).
OwnRow == \A u \in updated : u[2] = OwnTarget(chunks[u[1] + 1])

\* The chunk at offset k is part of a declared message.
Acceptable(k) ==
  /\ k < Len(chunks)
  /\ chunks[k + 1].post < Len(posts)
  /\ chunks[k + 1].id < Declared(chunks[k + 1].post)

InData(k) ==
  /\ k < Len(chunks)
  /\ \E r \in DOMAIN data :
       /\ r = OwnTarget(chunks[k + 1]) /\ data[r] # Null
       /\ \E i \in 1..Len(data[r]) : data[r][i] = k

\* An acceptable chunk the publisher takes ends up in the data of its message
\* (au10/publisher.go: AppendMessage).
ChunkStored ==
  \A k \in 0..(MaxChunk - 1) :
    Acceptable(k) /\ pc = "append" /\ cur = k ~> InData(k)
=============================================================================
