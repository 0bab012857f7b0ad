--------------------------- MODULE PublisherProofs ---------------------------
(***************************************************************************)
(* Proofs about Publisher: its types, that the tables hold exactly the     *)
(* stored posts with all their messages, what may become of a declaration  *)
(* and of a notification, and the refinements of PostStore and RecordQueue.*)
(***************************************************************************)
EXTENDS Publisher, TLAPS

\* What is on its way to the main loop is in its topic.
QueueInv ==
  \A t \in Topics : \A i \in 1..Len(queue[t]) : queue[t][i] < TopicLen(t)

\* What the main loop has in hand: a record of the topic; while a post is being
\* inserted, it is not stored; when it is to be notified, it has not been.
LoopInv ==
  /\ pc \in {"insertPost", "insertMessages", "notify"} => cur < Len(posts)
  /\ pc = "append" => cur < Len(chunks)
  /\ pc = "insertMessages" => cur \notin postRows /\ inserted <= Declared(cur)
  /\ pc # "insertMessages" => inserted = 0
  /\ pc = "notify" => cur \in postRows /\ Declared(cur) = 0 /\ ~Notified(cur)

NotifiedInv == \A n \in 1..Len(notified) : notified[n] \in postRows

PInv == TypeOK /\ QueueInv /\ LoopInv /\ NotifiedInv /\ StoredAsDeclared
-----------------------------------------------------------------------------
\* The invariant holds initially.
LEMMA InitInv == Init => PInv
<1> SUFFICES ASSUME Init PROVE PInv
  OBVIOUS
<1>1. TypeOK
  BY BoundAssumption DEF Init, TypeOK, TopicsOK, ReadersOK, LoopOK, TablesOK,
                         Topics, TopicLen, Queues!QueueCap
<1>2. QueueInv /\ LoopInv /\ NotifiedInv
  BY DEF Init, QueueInv, LoopInv, NotifiedInv, Topics
<1>3. StoredAsDeclared
  BY DEF Init, StoredAsDeclared
<1> QED  BY <1>1, <1>2, <1>3 DEF PInv

-----------------------------------------------------------------------------
\* A queue with its first record taken.
LEMMA QueueTail ==
  ASSUME NEW q \in Seq(Nat), q # <<>>, NEW n \in Nat,
         \A i \in 1..Len(q) : q[i] < n
  PROVE  /\ Tail(q) \in Seq(Nat) /\ Len(Tail(q)) = Len(q) - 1
         /\ Head(q) \in Nat /\ Head(q) < n
         /\ \A i \in 1..Len(Tail(q)) : Tail(q)[i] < n
  OBVIOUS

\* A queue with a record put into it.
LEMMA QueueAppend ==
  ASSUME NEW q \in Seq(Nat), NEW n \in Nat, NEW k \in Nat, k < n,
         \A i \in 1..Len(q) : q[i] < n
  PROVE  /\ Append(q, k) \in Seq(Nat) /\ Len(Append(q, k)) = Len(q) + 1
         /\ \A i \in 1..Len(Append(q, k)) : Append(q, k)[i] < n
  OBVIOUS

\* Steps that leave the tables alone.
LEMMA TablesSame ==
  ASSUME NotifiedInv, StoredAsDeclared,
         posts' = posts, postRows' = postRows, DOMAIN data' = DOMAIN data,
         notified' = notified
  PROVE  NotifiedInv' /\ StoredAsDeclared'
<1>1. NotifiedInv'
  BY DEF NotifiedInv
<1>2. StoredAsDeclared'
  BY DEF StoredAsDeclared, DeclaredRows, Declared
<1> QED  BY <1>1, <1>2

\* Steps that leave what the main loop looks at alone.
LEMMA LoopSame ==
  ASSUME LoopInv, UNCHANGED <<pc, cur, inserted, posts, postRows, notified>>,
         Len(chunks) \in Nat, Len(chunks') \in Nat, cur \in Nat,
         Len(chunks) <= Len(chunks')
  PROVE  LoopInv'
<1>1. (pc = "append" => cur < Len(chunks))'
  BY DEF LoopInv
<1>2. Declared(cur)' = Declared(cur) /\ (Notified(cur)' <=> Notified(cur))
  BY DEF Declared, Notified
<1> QED  BY <1>1, <1>2 DEF LoopInv

\* The access points only make the topics longer.
LEMMA WriteStep ==
  ASSUME PInv,
         \/ \E token \in Tokens, n \in 0..MaxDecl :
              AddVocal(RequestUser(token), n)
         \/ \E c \in Chunk : WriteMessageChunk(c)
  PROVE  PInv'
<1> USE BoundAssumption
<1> USE DEF PInv, TypeOK
<1>1. ASSUME NEW token \in Tokens, NEW n \in 0..MaxDecl,
             AddVocal(RequestUser(token), n)
      PROVE  PInv'
  <2>1. /\ posts' \in Seq(0..MaxDecl) /\ Len(posts') = Len(posts) + 1
        /\ \A p \in Nat : p < Len(posts) => posts'[p + 1] = posts[p + 1]
    BY <1>1 DEF AddVocal, TopicsOK
  <2>2. TypeOK'
    <3>1. UNCHANGED <<chunks, joined, marked, committed, newest, passed, queue,
                      pc, cur, inserted, postRows, data, notified, updated,
                      failed, crashes, rebalances>>
      BY <1>1 DEF AddVocal, readVars, groupVars, loopVars, dbVars, faultVars
    <3>2. Len(posts') <= MaxPost
      BY <1>1, <2>1 DEF AddVocal, TopicsOK
    <3>3. TopicsOK'
      BY <2>1, <3>1, <3>2 DEF TopicsOK
    <3>4. LoopOK' /\ TablesOK'
      BY <3>1 DEF LoopOK, TablesOK
    <3>5. /\ \A t \in Topics : /\ TopicLen(t) \in Nat /\ TopicLen(t)' \in Nat
                              /\ TopicLen(t) <= TopicLen(t)'
          /\ \A i, j, k \in Nat : i <= j /\ j <= k => i <= k
      BY <2>1, <3>1 DEF TopicLen, TopicsOK
    <3>6. \A t \in Topics : marked[t] \in Nat /\ marked[t] <= TopicLen(t)
      BY DEF ReadersOK
    <3>7. \A t \in Topics : marked[t] <= TopicLen(t)'
      BY <3>5, <3>6
    <3>8. ReadersOK'
      BY <3>1, <3>7 DEF ReadersOK
    <3> QED  BY <3>3, <3>4, <3>8
  <2>3. QueueInv'
    <3>1. queue' = queue /\ chunks' = chunks
      BY <1>1 DEF AddVocal, readVars, groupVars
    <3>2. /\ \A t \in Topics : TopicLen(t) \in Nat /\ TopicLen(t)' \in Nat
                               /\ TopicLen(t) <= TopicLen(t)'
          /\ queue \in [Topics -> Seq(Nat)]
      BY <2>1, <3>1 DEF TopicLen, TopicsOK, ReadersOK
    <3> QED  BY <3>1, <3>2 DEF QueueInv
  <2>4. UNCHANGED <<pc, cur, inserted, chunks, postRows, data, notified>>
    BY <1>1 DEF AddVocal, loopVars, dbVars
  <2>5. \A p \in Nat : p < Len(posts) =>
          Declared(p)' = Declared(p) /\ DeclaredRows(p)' = DeclaredRows(p)
    BY <2>1 DEF Declared, DeclaredRows
  <2>6. cur \in Nat /\ postRows \subseteq Nat /\ Len(posts) \in Nat
    BY DEF LoopOK, TablesOK, PostID, TopicsOK
  <2>7. LoopInv'
    <3>1. Notified(cur)' <=> Notified(cur)
      BY <2>4 DEF Notified
    <3>0. cur < Len(posts) => cur < Len(posts) + 1
      BY <2>6
    <3>2. cur < Len(posts) => Declared(cur)' = Declared(cur) /\ cur < Len(posts')
      <4> HIDE DEF PInv, TypeOK
      <4> QED  BY <2>1, <2>4, <2>5, <2>6, <3>0
    <3> QED  BY <2>4, <3>1, <3>2 DEF LoopInv
  <2>8. NotifiedInv'
    BY <2>4 DEF NotifiedInv
  <2>9. StoredAsDeclared'
    <3>1. \A p \in postRows : p < Len(posts) /\ p < Len(posts')
      <4>1. \A p \in postRows : p \in Nat /\ p < Len(posts)
        BY <2>6 DEF StoredAsDeclared
      <4>2. Len(posts') = Len(posts) + 1
        BY <2>1
      <4> QED  BY <2>6, <4>1, <4>2
    <3>2. \A p \in postRows : DeclaredRows(p)' = DeclaredRows(p)
      BY <2>5, <2>6, <3>1
    <3>3. {DeclaredRows(p)' : p \in postRows}
            = {DeclaredRows(p) : p \in postRows}
      BY <3>2
    <3> QED  BY <2>4, <3>1, <3>3 DEF StoredAsDeclared
  <2> QED  BY <2>2, <2>3, <2>7, <2>8, <2>9
<1>2. ASSUME NEW c \in Chunk, WriteMessageChunk(c)
      PROVE  PInv'
  <2>1. chunks' \in Seq(Chunk) /\ Len(chunks') = Len(chunks) + 1
    BY <1>2 DEF WriteMessageChunk, TopicsOK
  <2>2. TypeOK'
    <3>1. UNCHANGED <<posts, joined, marked, committed, newest, passed, queue,
                      pc, cur, inserted, postRows, data, notified, updated,
                      failed, crashes, rebalances>>
      BY <1>2 DEF WriteMessageChunk, readVars, groupVars, loopVars, dbVars, faultVars
    <3>2. Len(chunks') <= MaxChunk
      BY <1>2, <2>1 DEF WriteMessageChunk, TopicsOK
    <3>3. TopicsOK'
      BY <2>1, <3>1, <3>2 DEF TopicsOK
    <3>4. LoopOK' /\ TablesOK'
      BY <3>1 DEF LoopOK, TablesOK
    <3>5. /\ \A t \in Topics : /\ TopicLen(t) \in Nat /\ TopicLen(t)' \in Nat
                              /\ TopicLen(t) <= TopicLen(t)'
          /\ \A i, j, k \in Nat : i <= j /\ j <= k => i <= k
      BY <2>1, <3>1 DEF TopicLen, TopicsOK
    <3>6. \A t \in Topics : marked[t] \in Nat /\ marked[t] <= TopicLen(t)
      BY DEF ReadersOK
    <3>7. \A t \in Topics : marked[t] <= TopicLen(t)'
      BY <3>5, <3>6
    <3>8. ReadersOK'
      BY <3>1, <3>7 DEF ReadersOK
    <3> QED  BY <3>3, <3>4, <3>8
  <2>3. QueueInv'
    <3>1. queue' = queue /\ posts' = posts
      BY <1>2 DEF WriteMessageChunk, readVars, groupVars
    <3>2. /\ \A t \in Topics : TopicLen(t) \in Nat /\ TopicLen(t)' \in Nat
                               /\ TopicLen(t) <= TopicLen(t)'
          /\ queue \in [Topics -> Seq(Nat)]
      BY <2>1, <3>1 DEF TopicLen, TopicsOK, ReadersOK
    <3> QED  BY <3>1, <3>2 DEF QueueInv
  <2>4. LoopInv' /\ NotifiedInv' /\ StoredAsDeclared'
    <3>1. UNCHANGED <<pc, cur, inserted, posts, postRows, data, notified>>
      BY <1>2 DEF WriteMessageChunk, loopVars, dbVars
    <3>2. cur \in Nat /\ Len(chunks) \in Nat
      BY DEF LoopOK, TopicsOK
    <3> QED  BY <2>1, <3>1, <3>2, TablesSame, LoopSame
  <2> QED  BY <2>2, <2>3, <2>4
<1> QED  BY <1>1, <1>2

\* The stream readers move records between a topic and its queue.
LEMMA ReadStep ==
  ASSUME PInv, NEW t \in Topics,
         JoinGroup(t) \/ Fetch(t) \/ CommitOffset(t) \/ Rebalance(t)
  PROVE  PInv'
<1> USE BoundAssumption
<1> USE DEF PInv, TypeOK
<1>0. UNCHANGED <<pc, cur, inserted, posts, chunks, postRows, data, notified,
                  updated, failed, crashes>>
  BY DEF JoinGroup, Fetch, CommitOffset, Rebalance, topicVars, loopVars, dbVars,
         faultVars
<1>1. LoopInv' /\ NotifiedInv' /\ StoredAsDeclared'
  <2>1. cur \in Nat /\ Len(chunks) \in Nat
    BY DEF LoopOK, TopicsOK
  <2> QED  BY <1>0, <2>1, TablesSame, LoopSame
<1>2. TopicsOK' /\ TablesOK'
  BY <1>0 DEF TopicsOK, TablesOK
<1>3. LoopOK'
  <2>1. rebalances' = rebalances \/ (rebalances' = rebalances + 1
                                      /\ rebalances < MaxRebalance)
    BY DEF JoinGroup, Fetch, CommitOffset, Rebalance, faultVars
  <2> QED  BY <1>0, <2>1 DEF LoopOK
<1>4. \A u \in Topics : TopicLen(u)' = TopicLen(u) /\ TopicLen(u) \in Nat
  BY <1>0 DEF TopicLen, TopicsOK
<1>5. CASE Fetch(t)
  <2> DEFINE q == Append(queue[t], marked[t])
  <2>1. /\ q \in Seq(Nat) /\ Len(q) <= Queues!QueueCap
        /\ \A i \in 1..Len(q) : q[i] < TopicLen(t)
    <3>1. /\ queue[t] \in Seq(Nat) /\ marked[t] \in Nat
          /\ \A i \in 1..Len(queue[t]) : queue[t][i] < TopicLen(t)
      BY DEF ReadersOK, QueueInv
    <3>2. marked[t] < TopicLen(t) /\ Len(queue[t]) < Queues!QueueCap
      BY <1>5 DEF Fetch, Queues!MayPut
    <3> QED  BY <1>4, <3>1, <3>2, QueueAppend DEF Queues!QueueCap
  <2>2. /\ queue' = [queue EXCEPT ![t] = q]
        /\ marked' = [marked EXCEPT ![t] = @ + 1]
        /\ marked[t] < TopicLen(t)
        /\ UNCHANGED <<joined, committed, newest, passed>>
    BY <1>5 DEF Fetch
  <2>3. ReadersOK'
    BY <1>0, <1>4, <2>1, <2>2 DEF ReadersOK
  <2>4. QueueInv'
    BY <1>4, <2>1, <2>2 DEF QueueInv, ReadersOK
  <2> QED  BY <1>1, <1>2, <1>3, <2>3, <2>4
<1>6. CASE JoinGroup(t) \/ CommitOffset(t) \/ Rebalance(t)
  <2>1. queue' = queue
    BY <1>6 DEF JoinGroup, CommitOffset, Rebalance
  <2>2. ReadersOK'
    <3>1. CASE CommitOffset(t)
      <4>1. /\ committed' = [committed EXCEPT ![t] = marked[t]]
            /\ committed[t] < marked[t]
            /\ UNCHANGED <<joined, marked, newest, passed>>
        BY <3>1 DEF CommitOffset
      <4>2. newest[t] <= marked[t]
        BY <4>1 DEF ReadersOK
      <4> QED  BY <1>0, <1>4, <2>1, <4>1, <4>2 DEF ReadersOK
    <3>2. CASE Rebalance(t)
      <4>1. /\ joined' = joined \ {t} /\ t \in joined
            /\ marked' = [marked EXCEPT ![t] = EndOfSession(t)]
            /\ UNCHANGED <<committed, newest, passed>>
        BY <3>2 DEF Rebalance
      <4>2. EndOfSession(t) \in {marked[t], committed[t]}
        BY DEF EndOfSession
      <4> QED  BY <1>0, <1>4, <2>1, <4>1, <4>2 DEF ReadersOK
    <3>3. CASE JoinGroup(t)
      <4>1. joined' = joined \union {t} /\ pc # "down"
        BY <3>3 DEF JoinGroup
      <4>2. CASE UNCHANGED <<marked, committed, newest, passed>>
        BY <1>0, <1>4, <2>1, <4>1, <4>2 DEF ReadersOK
      <4>3. CASE BeginAtEnd(t)
        <5>1. passed' \subseteq PostID
          <6>1. ASSUME t = "posts" PROVE marked[t]..(TopicLen(t) - 1) \subseteq PostID
            BY <6>1 DEF ReadersOK, TopicLen, TopicsOK, PostID
          <6> QED  BY <4>3, <6>1 DEF BeginAtEnd, ReadersOK
        <5>2. /\ marked' = [marked EXCEPT ![t] = TopicLen(t)]
              /\ committed' = [committed EXCEPT ![t] = TopicLen(t)]
              /\ newest' = [newest EXCEPT ![t] = TopicLen(t)]
          BY <4>3 DEF BeginAtEnd
        <5> QED  BY <1>0, <1>4, <2>1, <4>1, <5>1, <5>2 DEF ReadersOK
      <4> QED  BY <3>3, <4>2, <4>3 DEF JoinGroup
    <3> QED  BY <1>6, <3>1, <3>2, <3>3
  <2>3. QueueInv'
    BY <1>4, <2>1 DEF QueueInv
  <2> QED  BY <1>1, <1>2, <1>3, <2>2, <2>3
<1> QED  BY <1>5, <1>6

-----------------------------------------------------------------------------
\* What a commit does to the tables.
LEMMA StoreRows ==
  ASSUME PInv, pc = "insertMessages", inserted = Declared(cur), StoredByCommit,
         UNCHANGED <<posts, notified, updated>>
  PROVE  TablesOK' /\ NotifiedInv' /\ StoredAsDeclared'
<1> USE DEF PInv, TypeOK
<1>1. /\ postRows' = postRows \union {cur}
      /\ DOMAIN data' = DOMAIN data \union DeclaredRows(cur)
  BY DEF StoredByCommit, InsertedRows, DeclaredRows
<1>2. cur \in Nat /\ cur < Len(posts) /\ Len(posts) <= MaxPost
  BY DEF LoopOK, LoopInv, TopicsOK
<1>3. TablesOK'
  <2>1. postRows' \subseteq PostID
    BY <1>1, <1>2, BoundAssumption DEF TablesOK, PostID, TopicsOK
  <2>2. data' \in [DOMAIN data' -> Seq(Nat) \union {Null}]
    BY DEF StoredByCommit, TablesOK
  <2> QED  BY <2>1, <2>2 DEF TablesOK
<1>4. NotifiedInv'
  BY <1>1 DEF NotifiedInv
<1>5. StoredAsDeclared'
  <2>1. \A p : DeclaredRows(p)' = DeclaredRows(p)
    BY DEF DeclaredRows, Declared
  <2>2. {DeclaredRows(p)' : p \in postRows'}
          = {DeclaredRows(p) : p \in postRows} \union {DeclaredRows(cur)}
    BY <1>1, <2>1
  <2>3. DOMAIN data' = UNION {DeclaredRows(p)' : p \in postRows'}
    BY <1>1, <2>2 DEF StoredAsDeclared
  <2>4. \A p \in postRows' : p < Len(posts)
    BY <1>1, <1>2 DEF StoredAsDeclared
  <2> QED  BY <2>3, <2>4 DEF StoredAsDeclared
<1> QED  BY <1>3, <1>4, <1>5

\* An append changes one row and adds none.
LEMMA UpdateRow ==
  ASSUME PInv, pc = "append", UpdatedByCommit, UNCHANGED <<posts, notified>>
  PROVE  TablesOK' /\ NotifiedInv' /\ StoredAsDeclared'
<1> USE DEF PInv, TypeOK
<1> DEFINE c == chunks[cur + 1]
<1>1. c \in Chunk /\ cur \in Nat
  BY DEF LoopOK, LoopInv, TopicsOK
<1>2. TargetRow(c) \in PostID \X MessageID
  BY <1>1 DEF TargetRow, Chunk
<1>3. DOMAIN data' = DOMAIN data /\ postRows' = postRows
  BY DEF UpdatedByCommit, dbVars
<1>4. TablesOK'
  <2>1. CASE TargetRow(c) \in DOMAIN data
    <3>1. /\ data' = [data EXCEPT ![TargetRow(c)] = Concat(@, cur)]
          /\ updated' = updated \union {<<cur, TargetRow(c)>>}
      BY <2>1 DEF UpdatedByCommit
    <3>2. Concat(data[TargetRow(c)], cur) \in Seq(Nat) \union {Null}
      BY <1>1, <2>1 DEF Concat, TablesOK
    <3> QED  BY <1>1, <1>2, <1>3, <2>1, <3>1, <3>2 DEF TablesOK
  <2>2. CASE TargetRow(c) \notin DOMAIN data
    BY <2>2 DEF UpdatedByCommit, TablesOK, dbVars
  <2> QED  BY <2>1, <2>2
<1> QED  BY <1>3, <1>4, TablesSame

-----------------------------------------------------------------------------
\* The main loop takes a record.
LEMMA TakeStep ==
  ASSUME PInv, NEW t \in Topics, NEW next \in {"insertPost", "append", "select"},
         Take(t, next), next = "insertPost" => t = "posts",
         next = "append" => t = "messages",
         UNCHANGED <<topicVars, groupVars, inserted, dbVars, notified,
                     updated, faultVars>>
  PROVE  PInv'
<1> USE DEF PInv, TypeOK
<1>1. /\ pc = "select" /\ queue[t] # <<>> /\ pc' = next
      /\ cur' = Head(queue[t]) /\ queue' = [queue EXCEPT ![t] = Tail(@)]
  BY DEF Take
<1>2. UNCHANGED <<posts, chunks, joined, marked, committed, newest, passed,
                  inserted, postRows, data, notified, updated, failed, crashes,
                  rebalances>>
  BY DEF topicVars, groupVars, dbVars, faultVars
<1>3. \A u \in Topics : TopicLen(u)' = TopicLen(u) /\ TopicLen(u) \in Nat
  BY <1>2 DEF TopicLen, TopicsOK
<1> DEFINE q == Tail(queue[t])
<1>4. /\ q \in Seq(Nat) /\ Len(q) = Len(queue[t]) - 1 /\ Len(q) <= Queues!QueueCap
      /\ cur' \in Nat /\ cur' < TopicLen(t)
      /\ \A i \in 1..Len(q) : q[i] < TopicLen(t)
  <2>1. /\ queue[t] \in Seq(Nat) /\ Len(queue[t]) <= Queues!QueueCap
        /\ \A i \in 1..Len(queue[t]) : queue[t][i] < TopicLen(t)
    BY DEF QueueInv, ReadersOK
  <2>2. /\ q \in Seq(Nat) /\ Len(q) = Len(queue[t]) - 1
        /\ Head(queue[t]) \in Nat /\ Head(queue[t]) < TopicLen(t)
        /\ \A i \in 1..Len(q) : q[i] < TopicLen(t)
    BY <1>1, <1>3, <2>1, QueueTail
  <2> QED  BY <1>1, <2>1, <2>2 DEF Queues!QueueCap
<1>5. ReadersOK' /\ QueueInv'
  <2>1. queue' = [queue EXCEPT ![t] = q]
    BY <1>1
  <2> HIDE DEF q
  <2>2. ReadersOK'
    <3>1. pc # "down" /\ (pc' = "down" <=> next = "down") /\ next # "down"
      BY <1>1
    <3> QED  BY <1>2, <1>3, <1>4, <2>1, <3>1 DEF ReadersOK
  <2>3. QueueInv'
    BY <1>3, <1>4, <2>1 DEF QueueInv, ReadersOK
  <2> QED  BY <2>2, <2>3
<1>6. TopicsOK' /\ LoopOK' /\ TablesOK'
  BY <1>1, <1>2, <1>4 DEF TopicsOK, LoopOK, TablesOK
<1>7. LoopInv'
  BY <1>1, <1>2, <1>4 DEF LoopInv, TopicLen
<1>8. NotifiedInv' /\ StoredAsDeclared'
  BY <1>2, TablesSame
<1> QED  BY <1>5, <1>6, <1>7, <1>8

\* The main loop goes on, the topics and the readers being left alone.
LEMMA OnStep ==
  ASSUME PInv, InsertPost \/ InsertMessage \/ CommitPost \/ PushVocal
               \/ CommitChunk \/ StatementFails
  PROVE  PInv'
<1> USE BoundAssumption
<1> USE DEF PInv, TypeOK
<1>1. /\ UNCHANGED <<posts, chunks, joined, marked, committed, newest, passed,
                     queue, cur, crashes, rebalances>>
      /\ pc # "down" /\ pc' # "down"
  BY DEF InsertPost, InsertMessage, CommitPost, PushVocal, CommitChunk,
         StatementFails, topicVars, readVars, groupVars, faultVars
<1>2. TopicsOK' /\ ReadersOK' /\ QueueInv'
  BY <1>1 DEF TopicsOK, ReadersOK, QueueInv, TopicLen
<1>3. /\ Declared(cur)' = Declared(cur)
      /\ pc \in {"insertPost", "insertMessages", "notify"} =>
           Declared(cur) \in 0..MaxDecl
  BY <1>1 DEF Declared, LoopInv, LoopOK, TopicsOK
<1>8. failed' \subseteq PostID
  <2>1. failed' \subseteq failed \union {cur} /\ failed \subseteq PostID
    BY DEF InsertPost, InsertMessage, CommitPost, PushVocal, CommitChunk,
           StatementFails, faultVars, LoopOK
  <2>2. CASE pc \in {"insertPost", "insertMessages", "notify"}
    <3>1. cur \in PostID
      BY <2>2 DEF LoopInv, LoopOK, TopicsOK, PostID
    <3> QED  BY <2>1, <3>1
  <2>3. CASE pc = "append"
    BY <2>1, <2>3 DEF InsertPost, InsertMessage, CommitPost, PushVocal,
                      CommitChunk, StatementFails, faultVars
  <2> QED  BY <2>2, <2>3 DEF InsertPost, InsertMessage, CommitPost, PushVocal,
                             CommitChunk, StatementFails
<1>4. CASE InsertPost \/ InsertMessage \/ StatementFails
  <2>1. UNCHANGED <<postRows, data, notified, updated>>
    BY <1>4 DEF InsertPost, InsertMessage, StatementFails, dbVars
  <2>2. TablesOK' /\ NotifiedInv' /\ StoredAsDeclared'
    BY <1>1, <2>1, TablesSame DEF TablesOK
  <2>3. LoopOK' /\ LoopInv'
    BY <1>1, <1>3, <1>4, <1>8, <2>1 DEF InsertPost, InsertMessage, StatementFails,
                                 LoopOK, LoopInv
  <2> QED  BY <1>2, <2>2, <2>3
<1>5. CASE CommitPost
  <2>1. /\ pc = "insertMessages" /\ inserted = Declared(cur)
        /\ StoredByCommit /\ inserted' = 0
        /\ UNCHANGED <<notified, updated>>
        /\ pc' = IF Declared(cur) = 0 THEN "notify" ELSE "select"
    BY <1>5 DEF CommitPost
  <2>2. TablesOK' /\ NotifiedInv' /\ StoredAsDeclared'
    BY <1>1, <2>1, StoreRows
  <2>3. cur \in postRows' /\ ~Notified(cur)'
    <3>1. ~Notified(cur)
      BY <2>1 DEF Notified, NotifiedInv, LoopInv
    <3> QED  BY <1>1, <2>1, <3>1 DEF StoredByCommit, Notified
  <2>4. LoopOK' /\ LoopInv'
    BY <1>1, <1>3, <1>8, <2>1, <2>3 DEF LoopOK, LoopInv, Notified
  <2> QED  BY <1>2, <2>2, <2>4
<1>6. CASE PushVocal
  <2>1. /\ pc = "notify" /\ pc' = "select" /\ UNCHANGED <<inserted, updated>>
        /\ postRows' = postRows /\ data' = data
        /\ notified' = Append(notified, cur) \/ notified' = notified
    BY <1>6 DEF PushVocal, dbVars
  <2>2. TablesOK' /\ NotifiedInv'
    <3>1. cur \in postRows /\ cur \in PostID /\ notified \in Seq(PostID)
      BY <2>1 DEF LoopInv, TablesOK
    <3>2. notified' \in Seq(PostID)
      BY <2>1, <3>1
    <3>3. \A n \in 1..Len(notified') : notified'[n] \in postRows
      BY <2>1, <3>1 DEF NotifiedInv
    <3> QED  BY <2>1, <3>2, <3>3 DEF TablesOK, NotifiedInv
  <2>3. StoredAsDeclared'
    BY <1>1, <2>1 DEF StoredAsDeclared, DeclaredRows, Declared
  <2>4. LoopOK' /\ LoopInv'
    BY <1>1, <1>8, <2>1 DEF LoopOK, LoopInv
  <2> QED  BY <1>2, <2>2, <2>3, <2>4
<1>7. CASE CommitChunk
  <2>1. /\ pc = "append" /\ pc' = "select" /\ inserted' = inserted
        /\ UpdatedByCommit /\ notified' = notified
    BY <1>7 DEF CommitChunk
  <2>2. TablesOK' /\ NotifiedInv' /\ StoredAsDeclared'
    BY <1>1, <2>1, UpdateRow
  <2>3. LoopOK' /\ LoopInv'
    BY <1>1, <1>8, <2>1 DEF LoopOK, LoopInv
  <2> QED  BY <1>2, <2>2, <2>3
<1> QED  BY <1>4, <1>5, <1>6, <1>7

\* What is on its way is declared.
LEMMA OnTheWayDeclared ==
  ASSUME PInv, NEW p \in OnTheWay
  PROVE  p \in PostID /\ p < Len(posts)
<1> USE DEF PInv, TypeOK
<1>1. posts \in Seq(0..MaxDecl) /\ Len(posts) <= MaxPost /\ MaxPost \in Nat
  BY BoundAssumption DEF TopicsOK
<1>2. CASE \E i \in 1..Len(queue["posts"]) : p = queue["posts"][i]
  <2>1. queue["posts"] \in Seq(Nat)
    BY DEF ReadersOK, Topics
  <2>2. PICK i \in 1..Len(queue["posts"]) : p = queue["posts"][i]
    BY <1>2
  <2>3. queue["posts"][i] < Len(posts)
    BY <2>2 DEF QueueInv, TopicLen, Topics
  <2> HIDE DEF PInv, TypeOK
  <2>4. p \in Nat /\ p < Len(posts)
    BY <2>1, <2>2, <2>3
  <2> QED  BY <1>1, <2>4 DEF PostID
<1>3. CASE pc \in {"insertPost", "insertMessages", "notify"} /\ p = cur
  BY <1>1, <1>3 DEF LoopInv, LoopOK, PostID
<1> QED  BY <1>2, <1>3 DEF OnTheWay

\* The process dies, with a transaction committed or not, and starts again.
LEMMA DieStep ==
  ASSUME PInv, CommitFails \/ Crash \/ Start
  PROVE  PInv'
<1> USE BoundAssumption
<1> USE DEF PInv, TypeOK
<1>1. UNCHANGED <<posts, chunks, cur, committed, newest, passed, notified,
                  rebalances>>
  BY DEF CommitFails, Crash, Start, Die, Dies, topicVars, readVars, groupVars,
         faultVars
<1>5. failed' \subseteq PostID
  <2>1. CASE Die
    BY <2>1, OnTheWayDeclared DEF Die, Dies, Doomed, LoopOK
  <2>2. CASE Start
    BY <2>2 DEF Start, faultVars, LoopOK
  <2> QED  BY <2>1, <2>2 DEF CommitFails, Crash
<1>2. TopicsOK'
  BY <1>1 DEF TopicsOK
<1>3. TablesOK' /\ NotifiedInv' /\ StoredAsDeclared'
  <2>1. CASE UNCHANGED <<dbVars, updated>>
    BY <1>1, <2>1, TablesSame DEF TablesOK, dbVars
  <2>2. CASE CommitFails /\ ~UNCHANGED <<dbVars, updated>>
    <3>1. \/ /\ pc = "insertMessages" /\ inserted = Declared(cur)
             /\ StoredByCommit /\ updated' = updated
          \/ pc = "append" /\ UpdatedByCommit
      BY <2>2 DEF CommitFails
    <3> QED  BY <1>1, <3>1, StoreRows, UpdateRow
  <2> QED  BY <2>1, <2>2 DEF Crash, Start
<1>4. LoopOK' /\ LoopInv' /\ ReadersOK' /\ QueueInv'
  <2>1. CASE Die
    <3>1. /\ pc' = "down" /\ inserted' = 0 /\ joined' = {}
          /\ marked' = [u \in Topics |-> EndOfSession(u)]
          /\ queue' = [u \in Topics |-> <<>>]
          /\ crashes < MaxCrash /\ crashes' = crashes + 1
      BY <2>1 DEF Die, Dies
    <3>2. LoopOK' /\ LoopInv'
      BY <1>1, <1>5, <3>1 DEF LoopOK, LoopInv
    <3>3. ReadersOK' /\ QueueInv'
      <4>1. \A u \in Topics : EndOfSession(u) \in {marked[u], committed[u]}
        BY DEF EndOfSession
      <4>2. \A u \in Topics : TopicLen(u)' = TopicLen(u) /\ TopicLen(u) \in Nat
        BY <1>1 DEF TopicLen, TopicsOK
      <4>3. /\ marked' \in [Topics -> Nat]
            /\ \A u \in Topics : /\ committed[u] <= marked'[u]
                                /\ marked'[u] <= TopicLen(u)
        <5>1. /\ marked \in [Topics -> Nat] /\ committed \in [Topics -> Nat]
              /\ \A u \in Topics : committed[u] <= marked[u] /\ marked[u] <= TopicLen(u)
          BY DEF ReadersOK
        <5>2. \A u \in Topics : marked'[u] \in {marked[u], committed[u]}
          BY <3>1, <4>1
        <5> HIDE DEF PInv, TypeOK
        <5>3. \A u \in Topics : marked'[u] \in Nat /\ committed[u] <= marked'[u]
          BY <5>1, <5>2
        <5>4. \A u \in Topics : marked'[u] <= TopicLen(u)
          BY <4>2, <5>1, <5>2
        <5> QED  BY <3>1, <5>3, <5>4
      <4>4. \A u \in Topics : queue'[u] = <<>>
        BY <3>1
      <4> QED  BY <1>1, <3>1, <4>2, <4>3, <4>4
               DEF ReadersOK, QueueInv, Queues!QueueCap
    <3> QED  BY <3>2, <3>3
  <2>2. CASE Start
    BY <1>1, <2>2 DEF Start, readVars, groupVars, faultVars, LoopOK, LoopInv, ReadersOK,
                      QueueInv, TopicLen
  <2> QED  BY <2>1, <2>2 DEF CommitFails, Crash
<1> QED  BY <1>2, <1>3, <1>4

\* Every step preserves the invariant.
LEMMA NextStep == PInv /\ [Next]_vars => PInv'
<1> SUFFICES ASSUME PInv, [Next]_vars PROVE PInv'
  OBVIOUS
<1>1. CASE StreamNext
  BY <1>1, WriteStep, ReadStep DEF StreamNext
<1>2. CASE LoopNext
  <2>1. CASE TakePost
    BY <2>1, TakeStep DEF TakePost, Topics
  <2>2. CASE TakeChunk \/ DropChunk
    BY <2>2, TakeStep DEF TakeChunk, DropChunk, Topics
  <2> QED  BY <1>2, <2>1, <2>2, OnStep, DieStep DEF LoopNext
<1>3. CASE Crash \/ Start
  BY <1>3, DieStep
<1>4. CASE UNCHANGED vars
  <2>1. UNCHANGED <<posts, chunks, joined, marked, committed, newest, passed,
                    queue, pc, cur, inserted, postRows, data, notified, updated, failed, crashes,
                    rebalances>>
    BY <1>4 DEF vars, topicVars, readVars, groupVars, loopVars, dbVars, faultVars
  <2>2. TypeOK' /\ QueueInv'
    BY <2>1 DEF PInv, TypeOK, TopicsOK, ReadersOK, LoopOK, TablesOK, QueueInv,
                TopicLen
  <2>3. LoopInv' /\ NotifiedInv' /\ StoredAsDeclared'
    BY <2>1, LoopSame, TablesSame DEF PInv, TypeOK, LoopOK, TopicsOK
  <2> QED  BY <2>2, <2>3 DEF PInv
<1> QED  BY <1>1, <1>2, <1>3, <1>4 DEF Next

\* Types hold, no queue exceeds its capacity and no offset is read before it is
\* written (publisher/main.go, au10/publisher.go).
THEOREM TypeCorrect == Spec => []TypeOK
<1>1. PInv => TypeOK
  BY DEF PInv
<1> QED  BY <1>1, InitInv, NextStep, PTL DEF Spec

\* The tables hold exactly the stored posts with all their declared messages,
\* whatever fails and whenever the process dies (publisher/main.go: storePost).
THEOREM PostsWhole == Spec => []StoredAsDeclared
<1>1. PInv => StoredAsDeclared
  BY DEF PInv
<1> QED  BY <1>1, InitInv, NextStep, PTL DEF Spec

-----------------------------------------------------------------------------
\* The data column of every row is NULL.
NoData == \A r \in DOMAIN data : data[r] = Null

\* No chunk ever gets into the data of its message or of any other one, whatever
\* is written and however it is delivered (postdb/db.go: InsertMessage,
\* AppendMessage).
THEOREM DataStaysNull == Spec => []NoData
<1> USE DEF NoData
<1>1. Init => NoData
  BY DEF Init
<1>2. ASSUME NoData, [Next]_vars PROVE NoData'
  <2>1. StoredByCommit => NoData'
    BY <1>2 DEF StoredByCommit
  <2>2. UpdatedByCommit => NoData'
    BY <1>2 DEF UpdatedByCommit, Concat, dbVars
  <2>3. data' = data => NoData'
    BY <1>2
  <2>4. CASE StreamNext
    BY <2>3, <2>4 DEF StreamNext, AddVocal, WriteMessageChunk, JoinGroup,
                      Fetch, CommitOffset, Rebalance, dbVars
  <2>5. CASE LoopNext
    BY <2>1, <2>2, <2>3, <2>5
       DEF LoopNext, TakePost, InsertPost, InsertMessage, CommitPost, PushVocal,
           TakeChunk, DropChunk, CommitChunk, StatementFails, CommitFails, dbVars
  <2>6. CASE Crash \/ Start \/ UNCHANGED vars
    BY <2>3, <2>6 DEF Crash, Start, vars, dbVars
  <2> QED  BY <1>2, <2>4, <2>5, <2>6 DEF Next
<1> QED  BY <1>1, <1>2, PTL DEF Spec

-----------------------------------------------------------------------------
\* What a record put into a queue, or taken from it, does to its elements.
LEMMA ElementsAppend ==
  ASSUME NEW q \in Seq(Nat), NEW k \in Nat
  PROVE  {Append(q, k)[i] : i \in 1..Len(Append(q, k))}
           = {k} \union {q[i] : i \in 1..Len(q)}
<1> DEFINE a == Append(q, k)
<1>1. /\ Len(a) = Len(q) + 1 /\ a[Len(q) + 1] = k
      /\ \A i \in 1..Len(q) : a[i] = q[i]
      /\ Len(q) \in Nat
  OBVIOUS
<1> HIDE DEF a
<1>2. \A i \in 1..Len(a) : i \in 1..Len(q) \/ i = Len(q) + 1
  BY <1>1
<1>3. /\ Len(q) + 1 \in 1..Len(a)
      /\ \A i \in 1..Len(q) : i \in 1..Len(a)
  BY <1>1
<1>4. {a[i] : i \in 1..Len(a)} = {k} \union {q[i] : i \in 1..Len(q)}
  BY <1>1, <1>2, <1>3
<1> QED  BY <1>4 DEF a

LEMMA ElementsTail ==
  ASSUME NEW q \in Seq(Nat), q # <<>>
  PROVE  {q[i] : i \in 1..Len(q)}
           = {Head(q)} \union {Tail(q)[i] : i \in 1..Len(Tail(q))}
<1> DEFINE t == Tail(q)
<1>1. /\ Len(q) \in Nat /\ Len(q) >= 1 /\ Len(t) = Len(q) - 1
      /\ Head(q) = q[1] /\ \A i \in 1..Len(t) : t[i] = q[i + 1]
  OBVIOUS
<1> HIDE DEF t
<1>2. \A i \in 1..Len(q) : i = 1 \/ (i - 1 \in 1..Len(t) /\ (i - 1) + 1 = i)
  BY <1>1
<1>3. 1 \in 1..Len(q) /\ \A i \in 1..Len(t) : i + 1 \in 1..Len(q)
  BY <1>1
<1>4. \A i \in 1..Len(q) : q[i] = Head(q) \/ \E j \in 1..Len(t) : q[i] = t[j]
  BY <1>1, <1>2
<1>5. \A i \in 1..Len(t) : \E j \in 1..Len(q) : t[i] = q[j]
  BY <1>1, <1>3
<1>6. \E j \in 1..Len(q) : Head(q) = q[j]
  BY <1>1, <1>3
<1> DEFINE Q == {q[i] : i \in 1..Len(q)}
           T == {t[i] : i \in 1..Len(t)}
<1>7. Q \subseteq {Head(q)} \union T
  BY <1>4, Zenon
<1>8. T \subseteq Q /\ Head(q) \in Q
  BY <1>5, <1>6, Zenon
<1> QED  BY <1>7, <1>8 DEF t

\* What was read was not passed over; and while nothing was ever committed,
\* reading has not gone back behind it.
PassedInv ==
  /\ OnTheWay \intersect passed = {}
  /\ ~HasCommitted("posts") =>
       \A p \in postRows \union OnTheWay : p < marked["posts"]

LossInv == NothingLost /\ PassedInv

\* The offsets of the declarations.
LEMMA PostOffsets ==
  ASSUME PInv
  PROVE  /\ marked["posts"] \in Nat /\ committed["posts"] \in Nat
         /\ newest["posts"] \in Nat /\ newest["posts"] <= committed["posts"]
         /\ committed["posts"] <= marked["posts"]
         /\ queue["posts"] \in Seq(Nat) /\ postRows \subseteq Nat
         /\ passed \subseteq Nat /\ OnTheWay \subseteq Nat
<1>1. \A p \in PostID : p \in Nat
  BY BoundAssumption DEF PostID
<1>2. OnTheWay \subseteq PostID
  BY OnTheWayDeclared
<1> QED  BY <1>1, <1>2 DEF PInv, TypeOK, ReadersOK, TablesOK, Topics

\* A step that reads no declaration, and after which every one that was in hand
\* is still accounted for, loses none.
LEMMA LossKept ==
  ASSUME PInv, PInv', LossInv,
         marked'["posts"] <= marked["posts"],
         ~HasCommitted("posts")' =>
           ~HasCommitted("posts") /\ marked'["posts"] = marked["posts"],
         UNCHANGED <<newest["posts"], passed>>,
         postRows \subseteq postRows', failed \subseteq failed',
         postRows' \subseteq postRows \union OnTheWay,
         OnTheWay' \subseteq OnTheWay,
         \A p \in OnTheWay : p \in postRows' \union failed' \union OnTheWay'
  PROVE  LossInv'
<1>1. marked["posts"] \in Nat /\ marked'["posts"] \in Nat
  BY DEF PInv, TypeOK, ReadersOK, Topics
<1>2. ASSUME NEW p \in 0..(marked'["posts"] - 1)
      PROVE  p \in postRows' \union failed' \union OnTheWay' \union passed'
  <2>1. p \in 0..(marked["posts"] - 1)
    BY <1>1, <1>2
  <2> QED  BY <2>1 DEF LossInv, NothingLost
<1>3. \A p \in passed : p \notin postRows'
  BY DEF LossInv, NothingLost, PassedInv
<1>4. NothingLost'
  BY <1>2, <1>3 DEF LossInv, NothingLost
<1>5. PassedInv'
  BY DEF LossInv, PassedInv
<1> QED  BY <1>4, <1>5 DEF LossInv

\* A step that stores and notifies nothing owes no more notifications.
LEMMA OwedKept ==
  ASSUME PInv, NotificationOwed, postRows' = postRows, notified' = notified,
         failed \subseteq failed',
         \A p \in Nat : p < Len(posts) => posts'[p + 1] = posts[p + 1],
         pc = "notify" => pc' = "notify" /\ cur' = cur
  PROVE  NotificationOwed'
<1>1. SUFFICES ASSUME NEW p \in postRows, Declared(p)' = 0
               PROVE  \/ Notified(p)' \/ p \in failed'
                      \/ (pc' = "notify" /\ cur' = p)
  BY DEF NotificationOwed
<1>2. p \in Nat /\ p < Len(posts)
  BY DEF PInv, StoredAsDeclared, TypeOK, TablesOK, PostID
<1>3. Declared(p) = 0
  BY <1>1, <1>2 DEF Declared
<1>4. Notified(p) \/ p \in failed \/ (pc = "notify" /\ cur = p)
  BY <1>3 DEF NotificationOwed
<1> QED  BY <1>4 DEF Notified

\* A step that leaves what is in hand, the tables and the history alone, and
\* reads no declaration, keeps both.
LEMMA LossSame ==
  ASSUME PInv, PInv', LossInv, NotificationOwed,
         UNCHANGED <<postRows, failed, notified, newest["posts"], passed>>,
         queue'["posts"] = queue["posts"], marked'["posts"] <= marked["posts"],
         ~HasCommitted("posts")' =>
           ~HasCommitted("posts") /\ marked'["posts"] = marked["posts"],
         \A p \in Nat : p < Len(posts) => posts'[p + 1] = posts[p + 1],
         \/ UNCHANGED <<pc, cur>>
         \/ /\ pc \notin {"insertPost", "insertMessages", "notify"}
            /\ pc' \notin {"insertPost", "insertMessages", "notify"}
         \/ /\ pc \in {"insertPost", "insertMessages"} /\ cur' = cur
            /\ pc' \in {"insertPost", "insertMessages"}
  PROVE  LossInv' /\ NotificationOwed'
<1>1. OnTheWay' = OnTheWay
  <2> DEFINE elements == {queue["posts"][i] : i \in 1..Len(queue["posts"])}
             hand == IF pc \in {"insertPost", "insertMessages", "notify"}
                     THEN {cur} ELSE {}
  <2>1. elements' = elements
    OBVIOUS
  <2>2. hand' = hand
    OBVIOUS
  <2> QED  BY <2>1, <2>2 DEF OnTheWay
<1>2. LossInv'
  BY <1>1, LossKept
<1>3. NotificationOwed'
  BY OwedKept
<1> QED  BY <1>2, <1>3

\* A step of the main loop that leaves the readers' offsets alone.
LEMMA GroupSame ==
  ASSUME PInv, UNCHANGED groupVars
  PROVE  /\ UNCHANGED <<marked, newest, passed>>
         /\ marked'["posts"] <= marked["posts"]
         /\ ~HasCommitted("posts")' =>
              ~HasCommitted("posts") /\ marked'["posts"] = marked["posts"]
BY PostOffsets DEF groupVars, HasCommitted

\* A death of the process: what was in hand is stored, delivered again, or
\* counted as lost.
LEMMA LossDie ==
  ASSUME PInv, PInv', LossInv, NotificationOwed, Die,
         \/ postRows' = postRows
         \/ pc = "insertMessages" /\ postRows' = postRows \union {cur},
         UNCHANGED <<posts, notified>>
  PROVE  LossInv' /\ NotificationOwed'
<1>1. /\ failed' = failed \union Doomed /\ postRows \subseteq postRows'
      /\ marked'["posts"] = EndOfSession("posts")
      /\ queue'["posts"] = <<>> /\ pc' = "down"
      /\ UNCHANGED <<committed, newest, passed>>
  BY DEF Die, Dies, Topics
<1>2. /\ marked["posts"] \in Nat /\ committed["posts"] \in Nat
      /\ committed["posts"] <= marked["posts"]
  BY PostOffsets
<1>3. /\ EndOfSession("posts") \in Nat
      /\ EndOfSession("posts") <= marked["posts"]
      /\ HasCommitted("posts") => EndOfSession("posts") = committed["posts"]
      /\ ~HasCommitted("posts") => EndOfSession("posts") = marked["posts"]
  BY <1>2 DEF EndOfSession
<1>4. postRows' \subseteq postRows \union OnTheWay
  BY DEF OnTheWay
<1>5. OnTheWay' = {}
  BY <1>1 DEF OnTheWay
<1>6. NothingLost'
  <2>1. ASSUME NEW p \in 0..(EndOfSession("posts") - 1)
        PROVE  p \in postRows' \union failed' \union passed
    <3>1. /\ p \in 0..(marked["posts"] - 1)
          /\ HasCommitted("posts") => p < committed["posts"]
      BY <1>2, <1>3, <2>1
    <3>2. p \in postRows \union failed \union OnTheWay \union passed
      BY <3>1 DEF LossInv, NothingLost
    <3>3. p \in OnTheWay /\ p \notin postRows' => p \in Doomed
      BY <3>1 DEF Doomed
    <3> QED  BY <1>1, <3>2, <3>3
  <2>2. \A p \in passed : p < newest["posts"] /\ p \notin postRows'
    BY <1>4 DEF LossInv, NothingLost, PassedInv
  <2> QED  BY <1>1, <2>1, <2>2 DEF NothingLost
<1>7. PassedInv'
  <2>1. HasCommitted("posts")' <=> HasCommitted("posts")
    BY <1>1 DEF HasCommitted
  <2>2. ~HasCommitted("posts") => \A p \in postRows' : p < marked["posts"]
    BY <1>4 DEF LossInv, PassedInv
  <2> QED  BY <1>1, <1>3, <1>5, <2>1, <2>2 DEF PassedInv
<1>8. NotificationOwed'
  <2>1. SUFFICES ASSUME NEW p \in postRows', Declared(p)' = 0
                 PROVE  Notified(p)' \/ p \in failed'
    BY DEF NotificationOwed
  <2>2. Declared(p) = 0 /\ (Notified(p)' <=> Notified(p))
    BY <2>1 DEF Declared, Notified
  <2>3. p \in postRows => Notified(p) \/ p \in failed \/ (pc = "notify" /\ cur = p)
    BY <2>2 DEF NotificationOwed
  <2>4. pc \in {"insertMessages", "notify"} /\ cur = p => p \in OnTheWay
    BY DEF OnTheWay
  <2>5. p \in OnTheWay => Notified(p) \/ p \in Doomed
    BY <2>1, <2>2 DEF Doomed
  <2> QED  BY <1>1, <2>2, <2>3, <2>4, <2>5
<1> QED  BY <1>6, <1>7, <1>8 DEF LossInv

\* A declaration is read.
LEMMA LossFetch ==
  ASSUME PInv, PInv', LossInv, NotificationOwed, Fetch("posts")
  PROVE  LossInv' /\ NotificationOwed'
<1>0. /\ marked \in [Topics -> Nat] /\ marked["posts"] \in Nat
      /\ queue \in [Topics -> Seq(Nat)] /\ queue["posts"] \in Seq(Nat)
      /\ "posts" \in Topics
  BY DEF PInv, TypeOK, ReadersOK, Topics
<1>1. /\ marked' = [marked EXCEPT !["posts"] = @ + 1]
      /\ queue' = [queue EXCEPT !["posts"] = Append(@, marked["posts"])]
      /\ UNCHANGED <<posts, pc, cur, postRows, notified, failed, committed,
                     newest, passed>>
  BY DEF Fetch, topicVars, loopVars, dbVars, faultVars
<1>2. /\ marked'["posts"] = marked["posts"] + 1
      /\ queue'["posts"] = Append(queue["posts"], marked["posts"])
  BY <1>0, <1>1
<1>3. OnTheWay \union {marked["posts"]} = OnTheWay'
  <2> DEFINE q == Append(queue["posts"], marked["posts"])
             hand == IF pc \in {"insertPost", "insertMessages", "notify"}
                     THEN {cur} ELSE {}
  <2>1. {q[i] : i \in 1..Len(q)} = {marked["posts"]} \union
          {queue["posts"][i] : i \in 1..Len(queue["posts"])}
    BY <1>0, ElementsAppend
  <2>2. queue'["posts"] = q /\ hand' = hand
    BY <1>1, <1>2
  <2>3. OnTheWay' = {queue'["posts"][i] : i \in 1..Len(queue'["posts"])}
                      \union hand'
    BY DEF OnTheWay
  <2>4. OnTheWay = {queue["posts"][i] : i \in 1..Len(queue["posts"])} \union hand
    BY DEF OnTheWay
  <2> HIDE DEF q, hand
  <2> QED  BY <2>1, <2>2, <2>3, <2>4
<1>4. NothingLost'
  <2>1. ASSUME NEW p \in 0..(marked'["posts"] - 1)
        PROVE  p \in postRows' \union failed' \union OnTheWay' \union passed'
    <3>1. p = marked["posts"] \/ p \in 0..(marked["posts"] - 1)
      BY <1>0, <1>2, <2>1
    <3> QED  BY <1>1, <1>3, <3>1 DEF LossInv, NothingLost
  <2> QED  BY <1>1, <2>1 DEF LossInv, NothingLost
<1>5. PassedInv'
  <2>1. \A p \in passed : p # marked["posts"]
    <3>1. /\ \A p \in passed : p \in Nat /\ p < newest["posts"]
          /\ newest["posts"] \in Nat /\ newest["posts"] <= committed["posts"]
          /\ committed["posts"] \in Nat /\ committed["posts"] <= marked["posts"]
      BY PostOffsets DEF LossInv, NothingLost
    <3> QED  BY <1>0, <3>1
  <2>2. \A p \in postRows \union OnTheWay : p \in Nat
    BY PostOffsets
  <2>3. \A p \in Nat : p < marked["posts"] => p < marked["posts"] + 1
    BY <1>0
  <2>4. HasCommitted("posts")' <=> HasCommitted("posts")
    BY <1>1 DEF HasCommitted
  <2>5. marked["posts"] < marked["posts"] + 1
    BY <1>0
  <2> QED  BY <1>1, <1>2, <1>3, <2>1, <2>2, <2>3, <2>4, <2>5
           DEF LossInv, PassedInv
<1>6. NotificationOwed'
  BY <1>1, OwedKept
<1> QED  BY <1>4, <1>5, <1>6 DEF LossInv

\* Reading of the declarations begins, at the end of the topic if none was ever
\* committed.
LEMMA LossBegin ==
  ASSUME PInv, PInv', LossInv, NotificationOwed, JoinGroup("posts"),
         ~HasCommitted("posts")
  PROVE  LossInv' /\ NotificationOwed'
<1> DEFINE end == TopicLen("posts")
           gap == marked["posts"]..(end - 1)
<1>1. /\ marked'["posts"] = end /\ newest'["posts"] = end
      /\ passed' = passed \union gap
      /\ UNCHANGED <<posts, queue, pc, cur, postRows, notified, failed>>
  BY DEF JoinGroup, BeginAtEnd, Topics, topicVars, loopVars, dbVars, faultVars,
         PInv, TypeOK, ReadersOK
<1>2. /\ end \in Nat /\ marked["posts"] \in Nat /\ marked["posts"] <= end
      /\ newest["posts"] \in Nat /\ newest["posts"] <= end
  <2>1. end \in Nat /\ marked["posts"] <= end
    BY DEF PInv, TypeOK, ReadersOK, TopicsOK, TopicLen, Topics
  <2> HIDE DEF end
  <2>2. \A i, j, k, l \in Nat : i <= j /\ j <= k /\ k <= l => i <= l
    OBVIOUS
  <2> QED  BY <2>1, <2>2, PostOffsets
<1>3. /\ \A p \in passed : p \in Nat /\ p < newest["posts"] /\ p \notin postRows
      /\ \A p \in postRows \union OnTheWay : p \in Nat /\ p < marked["posts"]
      /\ OnTheWay \intersect passed = {}
  BY PostOffsets DEF LossInv, NothingLost, PassedInv
<1>4. OnTheWay' = OnTheWay
  BY <1>1 DEF OnTheWay
<1> HIDE DEF end
<1>5. NothingLost'
  <2>1. ASSUME NEW p \in 0..(end - 1)
        PROVE  p \in postRows \union failed \union OnTheWay \union passed'
    <3>1. p \in 0..(marked["posts"] - 1) \/ p \in gap
      BY <1>2, <2>1
    <3> QED  BY <1>1, <3>1 DEF LossInv, NothingLost
  <2>2. \A p \in gap : p < end /\ p \notin postRows
    BY <1>2, <1>3
  <2>3. \A p \in passed : p < end
    BY <1>2, <1>3
  <2> QED  BY <1>1, <1>3, <1>4, <2>1, <2>2, <2>3 DEF NothingLost
<1>6. PassedInv'
  <2>1. \A p \in gap : p \notin OnTheWay
    BY <1>2, <1>3
  <2>2. \A p \in postRows \union OnTheWay : p < end
    BY <1>2, <1>3
  <2> QED  BY <1>1, <1>3, <1>4, <2>1, <2>2 DEF PassedInv
<1>7. NotificationOwed'
  BY <1>1, OwedKept
<1> QED  BY <1>5, <1>6, <1>7 DEF LossInv

LEMMA LossStream ==
  ASSUME PInv, PInv', LossInv, NotificationOwed, StreamNext
  PROVE  LossInv' /\ NotificationOwed'
<1>1. ASSUME NEW token \in Tokens, NEW n \in 0..MaxDecl,
             AddVocal(RequestUser(token), n)
      PROVE  LossInv' /\ NotificationOwed'
  <2>1. \A p \in Nat : p < Len(posts) => posts'[p + 1] = posts[p + 1]
    BY <1>1 DEF AddVocal, PInv, TypeOK, TopicsOK
  <2>2. UNCHANGED <<groupVars, queue, pc, cur, postRows, notified, failed>>
    BY <1>1 DEF AddVocal, readVars, loopVars, dbVars, faultVars
  <2> QED  BY <2>1, <2>2, GroupSame, LossSame
<1>2. ASSUME NEW c \in Chunk, WriteMessageChunk(c)
      PROVE  LossInv' /\ NotificationOwed'
  <2>1. UNCHANGED <<posts, groupVars, queue, pc, cur, postRows, notified, failed>>
    BY <1>2 DEF WriteMessageChunk, readVars, loopVars, dbVars, faultVars
  <2> QED  BY <2>1, GroupSame, LossSame
<1>3. CASE Fetch("posts")
  BY <1>3, LossFetch
<1>4. CASE JoinGroup("posts") /\ ~HasCommitted("posts")
  BY <1>4, LossBegin
<1>5. CASE \/ Fetch("messages") \/ JoinGroup("messages")
           \/ (JoinGroup("posts") /\ HasCommitted("posts"))
           \/ \E t \in Topics : CommitOffset(t) \/ Rebalance(t)
  <2>0. /\ marked \in [Topics -> Nat] /\ committed \in [Topics -> Nat]
        /\ newest \in [Topics -> Nat] /\ queue \in [Topics -> Seq(Nat)]
        /\ "posts" \in Topics /\ Topics = {"posts", "messages"}
    BY DEF PInv, TypeOK, ReadersOK, Topics
  <2>1. UNCHANGED <<posts, pc, cur, postRows, notified, failed>>
    BY <1>5 DEF Fetch, JoinGroup, CommitOffset, Rebalance, topicVars, loopVars,
                dbVars, faultVars
  <2>2. CASE \/ Fetch("messages") \/ JoinGroup("messages")
             \/ (JoinGroup("posts") /\ HasCommitted("posts"))
    <3>1. /\ queue'["posts"] = queue["posts"]
          /\ marked'["posts"] = marked["posts"] /\ passed' = passed
          /\ committed'["posts"] = committed["posts"]
          /\ newest'["posts"] = newest["posts"]
      BY <2>0, <2>2 DEF Fetch, JoinGroup, BeginAtEnd
    <3>2. HasCommitted("posts")' <=> HasCommitted("posts")
      BY <3>1 DEF HasCommitted
    <3>3. marked'["posts"] <= marked["posts"]
      BY <3>1, PostOffsets
    <3> QED  BY <2>1, <3>1, <3>2, <3>3, LossSame
  <2>3. ASSUME NEW t \in Topics, CommitOffset(t)
        PROVE  LossInv' /\ NotificationOwed'
    <3>1. /\ UNCHANGED <<queue, marked, newest, passed>>
          /\ committed' = [committed EXCEPT ![t] = marked[t]]
          /\ committed[t] < marked[t]
      BY <2>3 DEF CommitOffset
    <3>2. HasCommitted("posts") => HasCommitted("posts")'
      BY <2>0, <3>1 DEF HasCommitted
    <3> QED  BY <2>1, <3>1, <3>2, PostOffsets, LossSame
  <2>4. ASSUME NEW t \in Topics, Rebalance(t)
        PROVE  LossInv' /\ NotificationOwed'
    <3>1. /\ UNCHANGED <<queue, committed, newest, passed>>
          /\ marked' = [marked EXCEPT ![t] = EndOfSession(t)]
      BY <2>4 DEF Rebalance
    <3>2. /\ marked'["posts"] \in {marked["posts"], EndOfSession("posts")}
          /\ EndOfSession("posts") \in {marked["posts"], committed["posts"]}
          /\ ~HasCommitted("posts") => marked'["posts"] = marked["posts"]
      BY <2>0, <3>1 DEF EndOfSession
    <3>3. marked'["posts"] <= marked["posts"]
      BY <3>2, PostOffsets
    <3> QED  BY <2>1, <3>1, <3>2, <3>3, LossSame DEF HasCommitted
  <2> QED  BY <1>5, <2>2, <2>3, <2>4
<1> QED  BY <1>1, <1>2, <1>3, <1>4, <1>5 DEF StreamNext, Topics

LEMMA LossLoop ==
  ASSUME PInv, PInv', LossInv, NotificationOwed, LoopNext
  PROVE  LossInv' /\ NotificationOwed'
<1>1. /\ marked["posts"] \in Nat
      /\ queue \in [Topics -> Seq(Nat)] /\ queue["posts"] \in Seq(Nat)
  BY DEF PInv, TypeOK, ReadersOK, Topics
<1>11. ~CommitFails => UNCHANGED groupVars
  BY DEF LoopNext, TakePost, InsertPost, InsertMessage, CommitPost, PushVocal,
         TakeChunk, DropChunk, CommitChunk, StatementFails, readVars
<1> DEFINE Same == /\ UNCHANGED <<marked, newest["posts"], passed>>
                   /\ marked'["posts"] <= marked["posts"]
                   /\ ~HasCommitted("posts")' =>
                        /\ ~HasCommitted("posts")
                        /\ marked'["posts"] = marked["posts"]
<1>12. UNCHANGED groupVars => Same
  BY GroupSame
<1>2. CASE TakePost
  <2>1. /\ queue["posts"] # <<>> /\ cur' = Head(queue["posts"])
        /\ queue'["posts"] = Tail(queue["posts"])
        /\ pc = "select" /\ pc' = "insertPost"
        /\ UNCHANGED <<posts, groupVars, postRows, notified, failed>>
    BY <1>1, <1>2 DEF TakePost, Take, Topics, topicVars, dbVars, faultVars
  <2>2. OnTheWay' = OnTheWay
    <3>1. {queue["posts"][i] : i \in 1..Len(queue["posts"])}
            = {cur'} \union
              {Tail(queue["posts"])[i] : i \in 1..Len(Tail(queue["posts"]))}
      BY <1>1, <2>1, ElementsTail
    <3>2. {Tail(queue["posts"])[i] : i \in 1..Len(Tail(queue["posts"]))}
            = {queue'["posts"][i] : i \in 1..Len(queue'["posts"])}
      BY <2>1
    <3> QED  BY <2>1, <3>1, <3>2 DEF OnTheWay
  <2> QED  BY <1>1, <2>1, <2>2, <1>12, LossKept, OwedKept
<1>3. CASE TakeChunk \/ DropChunk
  <2>1. /\ queue'["posts"] = queue["posts"]
        /\ pc = "select" /\ pc' \in {"append", "select"}
        /\ UNCHANGED <<posts, groupVars, postRows, notified, failed>>
    BY <1>1, <1>3
       DEF TakeChunk, DropChunk, Take, Topics, topicVars, dbVars, faultVars
  <2> QED  BY <1>1, <2>1, <1>12, LossSame
<1>4. CASE InsertPost
  <2>1. /\ pc = "insertPost"
        /\ pc' = IF cur \in postRows THEN "select" ELSE "insertMessages"
        /\ UNCHANGED <<posts, groupVars, queue, cur, postRows, notified, failed>>
    BY <1>4 DEF InsertPost, topicVars, readVars, dbVars, faultVars
  <2>2. /\ \A p \in OnTheWay : p \in postRows \union OnTheWay'
        /\ OnTheWay' \subseteq OnTheWay
    BY <2>1 DEF OnTheWay
  <2> QED  BY <1>1, <2>1, <2>2, <1>12, LossKept, OwedKept
<1>5. CASE InsertMessage
  BY <1>1, <1>5, <1>12, LossSame
     DEF InsertMessage, topicVars, readVars, dbVars, faultVars
<1>6. CASE CommitPost
  <2>1. /\ pc = "insertMessages" /\ postRows' = postRows \union {cur}
        /\ pc' = IF Declared(cur) = 0 THEN "notify" ELSE "select"
        /\ UNCHANGED <<posts, groupVars, queue, cur, notified, failed>>
    BY <1>6 DEF CommitPost, StoredByCommit, topicVars, readVars, faultVars
  <2>2. /\ \A p \in OnTheWay : p \in postRows' \union OnTheWay'
        /\ OnTheWay' \subseteq OnTheWay
        /\ postRows' \subseteq postRows \union OnTheWay
    BY <2>1 DEF OnTheWay
  <2>3. NotificationOwed'
    <3>1. /\ \A p : Declared(p)' = Declared(p)
          /\ \A p : Notified(p)' = Notified(p)
      BY <2>1 DEF Declared, Notified
    <3> QED  BY <2>1, <3>1 DEF NotificationOwed
  <2> QED  BY <1>1, <2>1, <2>2, <2>3, <1>12, LossKept
<1>7. CASE PushVocal
  <2>1. /\ pc = "notify" /\ pc' = "select"
        /\ \/ notified' = Append(notified, cur) /\ failed' = failed
           \/ failed' = failed \union {cur} /\ notified' = notified
        /\ UNCHANGED <<posts, groupVars, queue, cur, postRows>>
    BY <1>7 DEF PushVocal, topicVars, readVars, dbVars
  <2>2. /\ \A p \in OnTheWay : p \in postRows \union OnTheWay'
        /\ OnTheWay' \subseteq OnTheWay
    BY <2>1 DEF OnTheWay, PInv, LoopInv
  <2>3. NotificationOwed'
    <3>1. SUFFICES ASSUME NEW p \in postRows, Declared(p) = 0
                   PROVE  Notified(p)' \/ p \in failed'
      BY <2>1 DEF NotificationOwed, Declared
    <3>2. Notified(p) \/ p \in failed \/ cur = p
      BY <3>1 DEF NotificationOwed
    <3>3. notified \in Seq(PostID) /\ cur \in PostID
      <4>1. cur \in OnTheWay
        BY <2>1 DEF OnTheWay
      <4> QED  BY <4>1, OnTheWayDeclared DEF PInv, TypeOK, TablesOK
    <3>4. Notified(p) => Notified(p)'
      BY <2>1, <3>3 DEF Notified
    <3>5. notified' = Append(notified, cur) => Notified(cur)'
      <4>1. SUFFICES ASSUME notified' = Append(notified, cur)
                     PROVE  Notified(cur)'
        OBVIOUS
      <4>2. /\ Len(notified) + 1 \in 1..Len(notified')
            /\ notified'[Len(notified) + 1] = cur
        BY <3>3, <4>1
      <4> QED  BY <2>1, <4>2 DEF Notified
    <3> QED  BY <2>1, <3>2, <3>4, <3>5
  <2> QED  BY <1>1, <2>1, <2>2, <2>3, <1>12, LossKept
<1>8. CASE CommitChunk
  BY <1>1, <1>8, <1>12, LossSame
     DEF CommitChunk, UpdatedByCommit, topicVars, readVars, dbVars, faultVars
<1>9. CASE StatementFails
  <2>1. /\ pc \in {"insertPost", "insertMessages", "append"} /\ pc' = "select"
        /\ failed' = failed \union (IF pc = "append" THEN {} ELSE {cur})
        /\ UNCHANGED <<posts, groupVars, queue, cur, postRows, notified>>
    BY <1>9 DEF StatementFails, topicVars, readVars, dbVars
  <2>2. /\ \A p \in OnTheWay : p \in failed' \union OnTheWay'
        /\ OnTheWay' \subseteq OnTheWay
    BY <2>1 DEF OnTheWay
  <2> QED  BY <1>1, <2>1, <2>2, <1>12, LossKept, OwedKept
<1>10. CASE CommitFails
  BY <1>10, LossDie
     DEF CommitFails, StoredByCommit, UpdatedByCommit, topicVars, dbVars
<1> QED  BY <1>2, <1>3, <1>4, <1>5, <1>6, <1>7, <1>8, <1>9, <1>10 DEF LoopNext

LEMMA LossStep ==
  PInv /\ PInv' /\ LossInv /\ NotificationOwed /\ [Next]_vars =>
    LossInv' /\ NotificationOwed'
<1> SUFFICES ASSUME PInv, PInv', LossInv, NotificationOwed, [Next]_vars
             PROVE  LossInv' /\ NotificationOwed'
  OBVIOUS
<1>1. marked["posts"] \in Nat
  BY DEF PInv, TypeOK, ReadersOK, Topics
<1>2. CASE Crash
  BY <1>2, LossDie DEF Crash, topicVars, dbVars
<1>3. CASE Start
  BY <1>1, <1>3, GroupSame, LossSame DEF Start, topicVars, readVars, dbVars, faultVars
<1>4. CASE UNCHANGED vars
  BY <1>1, <1>4, GroupSame, LossSame
     DEF vars, topicVars, readVars, loopVars, dbVars, faultVars
<1> QED  BY <1>2, <1>3, <1>4, LossStream, LossLoop DEF Next

LEMMA LossInit == Init => LossInv /\ NotificationOwed
BY DEF Init, LossInv, NothingLost, PassedInv, OnTheWay, NotificationOwed, Topics

\* A declaration that was read is stored, on its way, or lost to a failure that
\* struck it in hand: redelivery, skips, crashes and restarts lose no other one.
\* Those that were never read were written before the group first committed
\* anything (publisher/main.go: main, storePost; au10/stream.go:
\* NewSaramaConsumer).
THEOREM DeclarationsKept == Spec => []NothingLost
<1>1. LossInv => NothingLost
  BY DEF LossInv
<1> QED  BY <1>1, InitInv, NextStep, LossInit, LossStep, PTL DEF Spec

\* A stored post without messages is notified, about to be notified, or a
\* failure struck between its commit and its notification (publisher/main.go:
\* main).
THEOREM NotificationsKept == Spec => []NotificationOwed
BY InitInv, NextStep, LossInit, LossStep, PTL DEF Spec

-----------------------------------------------------------------------------
\* Every step stores a post, notifies one, accepts one, or is none to PostStore.
LEMMA StoreStep == PInv /\ PInv' /\ [Next]_vars =>
                     [Store!Next]_<<posts, postRows, notified>>
<1> SUFFICES ASSUME PInv, [Next]_vars,
                    ~UNCHANGED <<posts, postRows, notified>>
             PROVE  Store!Next
  OBVIOUS
<1> USE DEF PInv, TypeOK
<1>1. ASSUME StoredByCommit, pc = "insertMessages", UNCHANGED <<posts, notified>>
      PROVE  Store!Next
  <2>1. cur \in 0..(Len(posts) - 1)
    BY <1>1 DEF LoopInv, LoopOK, TopicsOK
  <2>2. Store!Store(cur)
    BY <1>1 DEF StoredByCommit, LoopInv, Store!Store
  <2> QED  BY <2>1, <2>2 DEF Store!Next
<1>2. CASE StreamNext
  <2>1. PICK token \in Tokens, n \in 0..MaxDecl : AddVocal(RequestUser(token), n)
    BY <1>2 DEF StreamNext, WriteMessageChunk, JoinGroup, Fetch, CommitOffset,
                Rebalance, dbVars, topicVars
  <2> QED  BY <2>1 DEF AddVocal, Store!Next, Store!Accept, dbVars
<1>3. CASE LoopNext
  <2>1. CASE CommitPost
    BY <1>1, <2>1 DEF CommitPost, topicVars
  <2>2. CASE CommitFails
    BY <1>1, <2>2 DEF CommitFails, UpdatedByCommit, topicVars, dbVars
  <2>3. CASE PushVocal
    <3>1. cur \in 0..(Len(posts) - 1)
      BY <2>3 DEF PushVocal, LoopInv, LoopOK, TopicsOK
    <3>2. Store!Notify(cur)
      BY <2>3 DEF PushVocal, LoopInv, Store!Notify, Declared, Notified,
                  topicVars, dbVars
    <3> QED  BY <3>1, <3>2 DEF Store!Next
  <2> QED  BY <1>3, <2>1, <2>2, <2>3 DEF LoopNext, TakePost, TakeChunk,
              DropChunk, InsertPost, InsertMessage, CommitChunk, UpdatedByCommit,
              StatementFails, topicVars, dbVars
<1> QED  BY <1>2, <1>3 DEF Next, Crash, Start, vars, topicVars, dbVars

\* A post is stored once, under its offset, and notified at most once, after it
\* was stored (publisher/main.go: main, storePost).
THEOREM StoreImplemented == Spec => ImplementsPostStore
<1>1. Init => Store!Init
  BY DEF Init, Store!Init
<1> QED  BY <1>1, InitInv, NextStep, StoreStep, PTL
         DEF Spec, ImplementsPostStore, Store!Spec

-----------------------------------------------------------------------------
\* A process that is down holds nothing.
DownInv == pc = "down" => \A t \in Topics : queue[t] = <<>>

LEMMA DownStep == ASSUME PInv, DownInv, [Next]_vars PROVE DownInv'
<1> USE DEF DownInv, topicVars, readVars, groupVars, loopVars, dbVars, faultVars
<1>1. CASE StreamNext
  BY <1>1 DEF StreamNext, AddVocal, WriteMessageChunk, JoinGroup, Fetch,
              CommitOffset, Rebalance, PInv, TypeOK, ReadersOK
<1>2. CASE Crash \/ CommitFails
  BY <1>2 DEF Crash, CommitFails, Die, Dies
<1>3. CASE LoopNext /\ ~CommitFails
  BY <1>3 DEF LoopNext, TakePost, Take, InsertPost, InsertMessage, CommitPost,
              PushVocal, TakeChunk, DropChunk, CommitChunk, StatementFails
<1> QED  BY <1>1, <1>2, <1>3 DEF Next, Start, vars

\* Every step is one of the queue of topic t.
LEMMA ReaderStep ==
  ASSUME PInv, DownInv, [Next]_vars, NEW t \in Topics
  PROVE  Queues!Step(t)
<1> USE DEF Queues!Keeps, Queues!SameOffsets, Queues!Stays
<1>1. /\ queue \in [Topics -> Seq(Nat)] /\ marked \in [Topics -> Nat]
      /\ committed \in [Topics -> Nat] /\ newest \in [Topics -> Nat]
      /\ newest[t] <= committed[t] /\ committed[t] <= marked[t]
      /\ marked[t] <= TopicLen(t) /\ TopicLen(t) \in Nat
  BY DEF PInv, TypeOK, ReadersOK, TopicsOK, TopicLen
<1>2. ASSUME UNCHANGED <<queue[t], marked[t], committed[t], newest[t]>>,
             (pc = "down") <=> (pc' = "down")
      PROVE  Queues!Step(t)
  BY <1>2 DEF Queues!Step, Queues!Stutter
<1>3. ASSUME NEW u \in Topics, Fetch(u) PROVE Queues!Step(t)
  <2>1. /\ pc' = pc /\ committed' = committed /\ newest' = newest
        /\ queue' = [queue EXCEPT ![u] = Append(@, marked[u])]
        /\ marked' = [marked EXCEPT ![u] = @ + 1]
        /\ Queues!MayPut(u) /\ pc # "down"
    BY <1>3 DEF Fetch, loopVars, PInv, TypeOK, ReadersOK
  <2>2. CASE u = t
    BY <1>1, <2>1, <2>2 DEF Queues!Step, Queues!Put
  <2>3. CASE u # t
    BY <1>1, <1>2, <2>1, <2>3
  <2> QED  BY <2>2, <2>3
<1>4. ASSUME NEW u \in Topics, CommitOffset(u)
      PROVE  Queues!Step(t)
  <2>1. /\ pc' = pc /\ queue' = queue /\ marked' = marked /\ newest' = newest
        /\ committed' = [committed EXCEPT ![u] = marked[u]]
    BY <1>4 DEF CommitOffset, loopVars
  <2>2. CASE u = t
    BY <1>1, <2>1, <2>2 DEF Queues!Step, Queues!Commit
  <2>3. CASE u # t
    BY <1>1, <1>2, <2>1, <2>3
  <2> QED  BY <2>2, <2>3
<1>5. ASSUME NEW u \in Topics, Rebalance(u)
      PROVE  Queues!Step(t)
  <2>1. /\ pc' = pc /\ queue' = queue /\ committed' = committed
        /\ newest' = newest
        /\ marked' = [marked EXCEPT ![u] = EndOfSession(u)]
    BY <1>5 DEF Rebalance, loopVars
  <2>2. CASE u = t
    <3>1. marked'[t] = marked[t] \/ Queues!GoesBack(t)
      BY <1>1, <2>1, <2>2 DEF EndOfSession, HasCommitted, Queues!GoesBack
    <3> QED  BY <1>1, <2>1, <3>1 DEF Queues!Step, Queues!Commit
  <2>3. CASE u # t
    BY <1>1, <1>2, <2>1, <2>3
  <2> QED  BY <2>2, <2>3
<1>6. ASSUME NEW u \in Topics, JoinGroup(u)
      PROVE  Queues!Step(t)
  <2>1. pc' = pc /\ queue' = queue
    BY <1>6 DEF JoinGroup, loopVars
  <2>2. CASE HasCommitted(u)
    BY <1>2, <1>6, <2>1, <2>2 DEF JoinGroup
  <2>3. CASE ~HasCommitted(u)
    <3>1. /\ marked' = [marked EXCEPT ![u] = TopicLen(u)]
          /\ committed' = [committed EXCEPT ![u] = TopicLen(u)]
          /\ newest' = [newest EXCEPT ![u] = TopicLen(u)]
      BY <1>6, <2>3 DEF JoinGroup, BeginAtEnd
    <3>2. CASE u = t
      <4>1. committed[t] = newest[t]
        BY <1>1, <2>3, <3>2 DEF HasCommitted
      <4>2. Queues!Begins(t)
        BY <1>1, <3>1, <3>2, <4>1 DEF Queues!Begins
      <4> QED  BY <2>1, <4>2 DEF Queues!Step, Queues!PassOver
    <3>3. CASE u # t
      BY <1>1, <1>2, <2>1, <3>1, <3>3
    <3> QED  BY <3>2, <3>3
  <2> QED  BY <2>2, <2>3
<1>7. ASSUME NEW u \in Topics, NEW next \in {"insertPost", "append", "select"},
             Take(u, next), UNCHANGED groupVars
      PROVE  Queues!Step(t)
  <2>1. /\ pc = "select" /\ pc' = next /\ queue[u] # <<>>
        /\ queue' = [queue EXCEPT ![u] = Tail(@)]
        /\ UNCHANGED <<marked, committed, newest>>
    BY <1>7 DEF Take, groupVars
  <2>2. CASE u = t
    BY <1>1, <2>1, <2>2 DEF Queues!Step, Queues!Take
  <2>3. CASE u # t
    BY <1>1, <1>2, <2>1, <2>3
  <2> QED  BY <2>2, <2>3
<1>8. CASE TakePost \/ TakeChunk \/ DropChunk
  BY <1>7, <1>8 DEF TakePost, TakeChunk, DropChunk, Topics
<1>9. CASE Crash \/ CommitFails
  <2>1. /\ pc # "down" /\ pc' = "down"
        /\ marked' = [u \in Topics |-> EndOfSession(u)]
        /\ queue' = [u \in Topics |-> <<>>]
        /\ committed' = committed /\ newest' = newest
    BY <1>9 DEF Crash, CommitFails, Die, Dies
  <2>2. marked'[t] = marked[t] \/ Queues!GoesBack(t)
    BY <1>1, <2>1 DEF EndOfSession, HasCommitted, Queues!GoesBack
  <2>3. Queues!Leave(t)
    BY <2>1, <2>2 DEF Queues!Leave
  <2> QED  BY <2>3 DEF Queues!Step
<1>10. CASE Start
  <2>1. /\ pc = "down" /\ pc' # "down" /\ marked' = marked
        /\ queue'[t] = <<>> /\ committed' = committed /\ newest' = newest
    BY <1>10 DEF Start, DownInv, readVars, groupVars
  <2>2. Len(queue'[t]) <= 1
    BY <2>1
  <2>3. Queues!Join(t)
    BY <2>1, <2>2 DEF Queues!Join
  <2> QED  BY <2>3 DEF Queues!Step
<1>11. CASE InsertPost \/ InsertMessage \/ CommitPost \/ PushVocal
            \/ CommitChunk \/ StatementFails \/ UNCHANGED vars
  BY <1>2, <1>11 DEF InsertPost, InsertMessage, CommitPost, PushVocal,
                     CommitChunk, StatementFails, vars, readVars, groupVars,
                     loopVars
<1>12. ASSUME \/ \E token \in Tokens, n \in 0..MaxDecl :
                    AddVocal(RequestUser(token), n)
              \/ \E c \in Chunk : WriteMessageChunk(c)
       PROVE  Queues!Step(t)
  BY <1>2, <1>12 DEF AddVocal, WriteMessageChunk, readVars, groupVars, loopVars
<1> QED
  BY <1>3, <1>4, <1>5, <1>6, <1>8, <1>9, <1>10, <1>11, <1>12
     DEF Next, StreamNext, LoopNext

\* Of what its readers hold for it the main loop misses nothing: a record goes
\* from a queue in order, and into its hands, or with the whole process.  Reading
\* goes back to what is committed and, before anything is, on to the end of the
\* topic (publisher/main.go: main; au10/stream.go: NewSaramaConsumer).
THEOREM ReadersAsPromised == Spec => ImplementsQueues
<1>1. Init => DownInv
  BY DEF Init, DownInv
<1>2. Init => Queues!Init
  BY DEF Init, Queues!Init, Topics
<1>3. PInv /\ DownInv /\ [Next]_vars => DownInv'
  BY DownStep
<1>4. PInv /\ DownInv /\ [Next]_vars => Queues!Next
  BY ReaderStep DEF Queues!Next
<1> QED  BY <1>1, <1>2, <1>3, <1>4, InitInv, NextStep, PTL
         DEF Spec, ImplementsQueues, Queues!Spec
=============================================================================
