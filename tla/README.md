# Verification of au10.service

TLA+ models of au10.service, checked with TLC and proved with TLAPS.  `PROJECT.json` lists the components, the runs,
the lines every definition models, the findings and the hazards.

## The system

Clients call the **access point** over gRPC. It authenticates them, publishes
posts ("vocals") and message chunks to two Kafka topics, and streams the log
and the published posts back to them. The **publisher** reads the two topics,
stores posts and chunks in a Postgres database and writes a notification to a
third topic, `posts`, which the access points read. Every process logs to a
fourth topic, `log`.

| Part | Code | State | Operations |
|---|---|---|---|
| stream reader | `au10/streamreader.go` | map of subscriptions, the Sarama consumer, four channels | subscribe, unsubscribe, Close, the serve loop, start/stop of a consumer |
| subscriptions | `au10/subscription.go`, `log.go`, `posts.go`, `publisher.go` | a records channel and an error channel | Subscribe, Close |
| client subscription | `accesspoint/lib/clientsubscription.go` | a goroutine per RPC, counters of subscribers | sendNext, runSubscription |
| stream writers | `au10/streamwriter.go` | the Sarama producer | Push, PushAsync, Close |
| publisher | `publisher/main.go`, `au10/publisher.go` | the record the main loop handles | storePost, checkMessage, storeMessage, PushVocal |
| database client | `postdb/db.go`, `init.sql` | the open transaction, two tables | Begin, InsertPost, InsertMessage, AppendMessage, Commit, Rollback, GetPost |
| access point | `accesspoint/lib/service.go`, `client.go` | user of a request, request and subscriber counters | Auth, ReadLog, ReadPosts, ReadMessage, AddVocal, WriteMessageChunk |
| users and groups | `au10/users.go`, `user.go`, `group.go` | a fixed table | Auth, FindSession, GetUser, IsAllowed |
| log | `au10/log.go` | its asynchronous writer | publish, Fatal |
| service | `au10/service.go` | the log | Dial, DialOrPanic, Close |
| convertor | `accesspoint/lib/convertor.go` | none | protobuf to and from the internal types |
| cli | `cli/*.go` | the auth header | a test client |

How they interact: goroutines rendezvous on channels (`requestsChan`,
`responsesChan`, the records and error channels); processes only through Kafka
topics and, for queries, the database.

What makes each part correct:

* *stream reader*: a response goes to the caller it is for; the consumer is
  open exactly while somebody subscribes; sessions do not overlap; a subscriber
  gets the stream in order without a gap and nothing after it ends; Close
  returns; closing never crashes the process.
* *stream writer*: every Push returns, with the offset of its own message.
* *asynchronous writer, log, process*: what a writer accepted is stored or
  reported before its Close returns; the log outlives whatever logs; reports of
  failures do not cause each other without end; a process that cannot start, or
  stops, closes what it opened.
* *publisher*: posts are stored whole and once, whatever is redelivered or
  fails; posts are published; chunks reach their message.
* *client subscription*: a call that ends leaves nothing behind (subscription,
  goroutine, counters), reports a failure and only a failure, and never waits
  for a goroutine that cannot move.
* *access point*: a request runs with the user of its session, and only with
  rights; what it lists as allowed is allowed; the chunks a client sends go to
  the vocal it has added, and to no other.
* *convertor*: an id survives its text; the first error is the one reported; a
  vocal that was accepted can be answered.

Hard behaviour: the reader is served by a goroutine that also waits for the
goroutines it serves; channels with capacity one; subscriptions closed in two
different orders; result channels shared by callers; a log that is one of the writers
whose failures it reports, and that is closed beside handlers nobody waits for;
records marked as consumed before they are handled; consumer groups that begin
at the end of their topic until they have committed an offset; two topics with
no order between them.

## Modules

| Module | Models | Built on |
|---|---|---|
| `StreamReader` | `au10/streamreader.go` and the subscriptions to it | |
| `StreamFeed` | what a subscriber is promised (abstract) | |
| `RecordQueue` | what a process may rely on that reads topics (abstract) | |
| `StreamReaderProofs` | proofs about `StreamReader` | `StreamReader` |
| `ClientSubscription` | the streaming calls of the access point | `StreamReader` |
| `ClientSubscriptionProofs` | proofs about `ClientSubscription` | both above |
| `StreamWriter` | `Push` of `au10/streamwriter.go` | |
| `StreamWriterProofs` | proofs about `StreamWriter` | `StreamWriter` |
| `Access` | groups, users, rights; with its proofs | |
| `Convertor` | `accesspoint/lib/convertor.go`; with its proofs | |
| `AccessPoint` | the unary calls of the access point | `StreamWriter`, `Access`, `Convertor` |
| `Topics` | what the access points write to the publisher's topics (abstract) | `Access` |
| `AccessPointProofs` | proofs about `AccessPoint` | `StreamWriterProofs` |
| `AsyncWriter` | `PushAsync`, errors and `Close` of `au10/streamwriter.go`, the log | |
| `Process` | both `main.go`, `au10/service.go` | `AsyncWriter` |
| `ProcessProofs` | proofs about `Process` | `Process` |
| `Publisher` | `publisher/main.go` with `postdb/db.go` | `Access`, `RecordQueue` |
| `PostStore` | what the publisher promises of posts (abstract) | |
| `PublisherProofs` | proofs about `Publisher` | `Publisher` |
| `MC*` | instances for TLC (model values, symmetry) | |

### StreamReader

One reader with all its goroutines. `sub`, `owner` and `servePc` are the
control points of the callers, of the owner of the reader and of the serve loop;
`consumePc` and `errorsPc` those of the two goroutines of every session.
Channels of capacity one (`messages`, `errs`, `records`) are sequences with the
capacity as a guard; a rendezvous on an unbuffered channel is one action of both
sides (`ServeSubscribe`, `Respond`, `Notify`). A caller between sending a
request and getting its response is in a state ending in `Req` or `Resp`.
`ServeClose`, `ServeUnsubscribe` and `StopConsumer`/`StopDone` cut `stop()` at
its two waits. A message is its offset. `BeginStop` and the two barriers
follow `streamreader.go:250-261`; the Sarama session enters through `Fetch`,
`ConsumeAgain` and `ConsumeReturn`, where marks not yet committed may be lost.

`NewSaramaConsumer` (`stream.go:22-28`) leaves Sarama's `Offsets.Initial` at its
default, `OffsetNewest`. So a session goes on from `committed` only once the
group has committed an offset (`HasCommitted`); until then each one begins
wherever the topic ends by then (`BeginAtEnd`), and `newest` is where that was
last. What is before it is passed over. While nothing is committed, `committed`
equals `newest`; the properties name the exception through `newest`.

The two orders in which subscriptions close are a constant: members of
`CloseFirst` close their records channel before they unsubscribe (`log.go`,
`publisher.go`), the others after it (`posts.go`). Members of `MayQuit` have a
reading goroutine that may stop reading without having been told to.
`Unconvertible` are the offsets of messages that `convertMessage` refuses:
`ConsumeClaim` then returns without a mark and the group session ends, which is
`ConsumeAgain`, so that the reader meets the message again, for ever if the
group has committed; before that, a session that begins behind it passes it over.

`ImplementsFeed` is the refinement of `StreamFeed`: every subscriber sees
consecutive offsets from where it joined, and nothing after the end; a gap is
possible only where reading began at the end of the topic (`Deliver` of
`StreamFeed` with its `newest` and `settled`).
`ImplementsQueues` is that of `RecordQueue`, the reader as the publisher knows
it: what is on its way to a subscription (`OnTheWay`: in its channel, in serve's
hands, in `messagesChan`) is at most three records, in the order they were read,
and while the subscription stays none of them is lost, whoever else subscribes,
unsubscribes or is handed the same records. A record read before a
subscription is in the map may still be handed to it, which is why `Join` may
begin with one. The next offset to read goes back to what is committed
(`GoesBack`) or, as long as nothing is, on to the end of the topic (`Begins`).

### ClientSubscription

The handlers of `ReadLog` and `ReadPosts`, one for each member of `Subs`, and
the goroutine each starts in `runSubscription`. It composes with the reader by
extension: the handler's `Subscribe`, `BeginClose` and `EndClose` are the
reader's `NewSubscription`, `CloseSubscription` and `FinishClose`, and the
goroutine's `Forward` and `End` its `TakeRecord` and `SeeClosed`, so that all
the reader's interleavings are there. `rpc` is where a handler is; `outcome`,
`errChan` and `finished` follow the goroutine; `subscribers` and `info` are the
two atomic counters. The client cancels at any time.

### StreamWriter

`Push` by a set of callers and `Close`. A call is *idle*, about to send
(*input*) or in the select (*wait*); the producer moves an accepted message from
`pending` to `results` and maybe to the topic `log`. `LastId` keeps the
truncation `uint32(message.Offset)` with a small `IdRange`. `shared` remembers
which calls overlapped with another one.

### Access

`IsAllowed` and the built-in users are translated as operators, and so is every
place that checks rights: `Auth`, the access point's calls,
`GetAllowedMethods`, and `checkMessage` of the publisher. A token is the login
it contains. None of it has state, so its results are theorems; it runs as part
of `AccessPoint` and `Publisher`.

### Convertor

The conversions between protobuf and the internal types, each with the error it
is given and the one it returns, as the code threads `*error` through them:
`First` keeps an earlier error. An id is a number below `IdRange` or its text;
`Texts` are the texts `strconv.ParseUint` accepts or refuses, those of numbers
too large among them (leading zeros are not told apart). No state; times,
locations and the fields copied unchanged are left out.

### AccessPoint

`AddVocal`, `WriteMessageChunk` and `ReadMessage` as clients call them, one call
at a time each. `AddVocal` converts the declaration, checks the rights and calls
`Push` of the writer its handlers share, which is `StreamWriter` with all its
actions. A client makes its next calls for the ids it was answered, or for any
two texts of `Ids`; either are parsed again, and `client.go:203-257` checks no
more than that they parse and that the user has rights. `chunks` is the topic
the asynchronous writer fills; its field `call` is history: the `AddVocal` whose
answer the ids came from, or `NoCall`. `ChunksApart` and `OwnMessage` are about
the chunks of clients that keep to the ids in their answers, whatever chunks
others send beside them: the code leaves it to the client which ids it sends,
but which ids it is answered is the server's business, and `StreamWriterSwapped`
shows that the answer may be another call's. A refused
call changes only the log (see `Process`). `ImplementsTopics` is the refinement
of `Topics`: declarations and chunks of users who may publish, and nothing else.
That a chunk is for a declared post is not promised, since nothing checks it
before the publisher does. `ReadMessage` ends the process once
all its checks pass, since `getMessage` (`client.go:259-273`) returns no message
and no error.

### AsyncWriter and Process

`AsyncWriter` has the actions of one asynchronous writer and its producer:
records and errors are counted, not told apart. Its *drainer* is the goroutine
of `NewStreamAsyncWriter` that logs errors (`streamwriter.go:29-42`), which for
the log's own writer goes to the standard logger instead. `Close` is in three
parts: the producer's close, in which it refuses records and collects errors in
competition with the drainer; the report of what it collected; and the barrier
for the drainer.

`Process` runs `main` of either program around them: `DialOrPanic` with its five
attempts, each resource with its failure, serving, and the deferred calls in
reverse. The deferred call of a resource that is no writer is one step
(`Release`). What happens in a reader's Close is `StreamReader`, and
`StreamReaderStopBlocked` shows that it may hang; so where `main` closes a
reader that may have subscribers (`WithReader`, `ReaderClosing`), `Release` may
never happen, and `Settles` says which processes end all the same. `Fatal` logs and
panics, so it goes to *unwind* like the end of serving. The handlers of the
access point push chunks and log while the server runs; `server.Stop` cancels
them and `main` goes on without waiting for them, so they may still push while
`main` unwinds. The publisher's notifier is the one writer `main` never closes.

### Publisher

The main loop of the one publisher process with the topics it reads, the tables
it writes and the notifications. It does not
contain its neighbours but what is promised of them, in the guards of its
environment, and each promise is proved where it is kept:

    AccessPoint  --ImplementsTopics-->  Topics       guards of AddVocal and
                                                     WriteMessageChunk (MayPublish)
    StreamReader --ImplementsQueues-->  RecordQueue  guard and capacity of Fetch,
                                                     JoinGroup, Rebalance
    Publisher    --ImplementsPostStore-->  PostStore

The requests carry tokens and are admitted by the rights of `Access`. `queue`
holds offsets that the stream reader has marked and that the loop has not yet
taken. A reader joins its group (`JoinGroup`) and reads on from what is
committed, or, as long as the group has committed nothing, from the end of its
topic (`BeginAtEnd`): posts from before that which were never read are then in
the history variable `passed`. That the rest of the publisher treats this queue as `RecordQueue` allows,
that is, that it takes records in order and drops none but with the whole
process, is its own `ImplementsQueues`. `pc` cuts the
loop wherever the process can die. A transaction is invisible until its commit.
`data` maps the primary key of a message row to `Null` or the sequence of the
chunks appended. `failed` is history: the
posts a failed step had in hand, or a death of the process took with it
(`Doomed`: not stored, and not delivered again because it is committed or because
nothing is; or stored and not yet notified, for storing it again fails). A death spares every other
one.

Here startup and shutdown of the process are `Start` and `Crash`; how they go
is `Process`, and how its readers close `StreamReader`. Nothing in the
repository starts the publisher again (`docker-compose.yml` has no service for
it and no restart policy): `Start` may happen and need not.

## Runs

Every run has `CHECK_DEADLOCK FALSE`: callers make a bounded number of calls,
so the model stops when they are done (and, for the reader, where the code
itself blocks for ever: that is what the violation runs show).

| Run | Question | Result |
|---|---|---|
| `StreamReaderPosts` | are requests answered to their callers, consumers open exactly when needed and dead only of an error, sessions disjoint, closing safe, the feed in order, records on their way kept, and nothing that cannot be converted passed over, but by a session that begins at the end before the first commit? | holds |
| `StreamReaderLive` | does a message reach every subscription that stays open? | holds |
| `ClientSubscription` | does a streaming call clean up, report failures, never wait for a stuck goroutine, and stay ended? | holds |
| `AccessPoint` | does every `Push` return, with a result, unique ids, and its own result when it is alone; do chunks of clients that keep to their answers go to the vocal that was added, and do the topics get only what the publisher is modelled with, whatever ids clients make up? | holds |
| `Publisher` | are the tables whole, posts stored and notified once, under failures, redelivery and a crash; is every declaration up to the last one read stored, in hand, struck by a failure, or passed over before the first commit; is every other one stored and published unless the process stays down? | holds |
| `Process` | does what a writer accepted leave it before its Close returns, does the log outlive main and its drainers and take all their reports, is everything closed in the end, does a process whose readers close end, do failures stop causing failures? | holds |
| `StreamReaderStopBlocked` | does `Close` of a subscription return? | violated |
| `StreamReaderDeadConsumer` | does a new subscriber get a live consumer? | violated |
| `StreamReaderLogClose` | can closing a subscription never crash the process? | violated |
| `StreamWriterSwapped` | does every `Push` return its own result? | violated |
| `PublisherSwapped` | does a chunk touch only its own message? | violated |
| `PublisherChunkLost` | does an accepted chunk end up in its message? | violated |

The findings in `PROJECT.json` say what the violated runs show and quote what
the repository says instead. Other disagreements were met on the way; each has
the same property as one of the runs or none that the repository states, and no
run of its own:

* `CloseReturns` also fails without any message: the nil a cancelled session
  leaves in `errChan` (`streamreader.go:239`) fills it, so that the consuming
  goroutine of the next session blocks and `stop()` waits for it; that nil may
  also be handed to a subscriber of the next session, which then ends without
  having been closed. And it fails when a reading goroutine has quit while
  serve sends an error to its unbuffered channel (`streamreader.go:151`).
  (`StreamReaderStopBlocked.cfg` with two subscriptions, `MaxMsg = 0` and
  `MaxSession = 2`; or with `MaxMsg = 1`, `MayQuit = {s1}` and
  `ConsumeMayFail = TRUE`: its client gone, a goroutine fails to send its record
  while its handler is in `Close`, and serve has an error to report.)
* `VocalPublished` and `PostStored` hold, unless the process is down for good, for
  a post that is *spared*: none of its own statements or its notification failed,
  no death of the process doomed it, and it was not passed over. For other posts
  neither holds: records are marked before they are handled, and a post is
  committed before it is notified. `NothingLost` and `NotificationOwed` say the
  same without liveness: these are the only ways a post or its notification gets
  lost.
* A post that is accepted, and answered with an id, before the publisher has ever
  joined its group is never read: the group begins at the end of the topic
  (`OffsetNewest`). The same happens to posts accepted while a reader that has
  committed nothing is out of its group, or while the process is down: they are
  the `passed` of `NothingLost`. A post that was read, and is not stored when the
  process dies, is not delivered again either (it counts as `failed`). After the
  first commit no post is passed over.
* Nothing keeps out chunks for posts or messages that do not exist, or that
  others declared: whoever may publish may send a chunk for any id that parses
  (`client.go:203-257`). The publisher drops those of posts it has not stored
  (`checkMessage`); of messages that are not in a stored post, the update hits no
  row and succeeds. `StoredAsDeclared` shows that neither creates anything.
* A process may never end: a deferred Close of a reader may hang, as
  `StreamReaderStopBlocked` shows of a subscription (for the publisher,
  `publisher.go:144-151` into `streamreader.go:250-260`).
* Posts with messages are never published: nothing in the code does it when
  their last chunk arrives, and nothing could, as no chunk is ever stored.
* A chunk read before its declaration is refused by `checkMessage` and lost.
* `accesspoint.proto:45-46` says that methods not listed in `AllowedMethods`
  are always allowed; `ReadMessage` and `WriteMessageChunk` are not listed and
  check rights.
* `log.go:19-20` says `Fatal` exits with `os.Exit(1)`; it panics, so that
  deferred calls run.
* `ReadMessage` by a user with rights, for ids that parse, panics the access
  point: `client.go:155` uses the nil that `getMessage` returned.
* A handler of the access point that pushes or logs after the deferred calls
  have closed the writer sends on a closed channel and panics, and so may the
  notifier's drainer once the publisher has closed its log. `LogOutlives` says
  who else cannot.

### Bounds

Two subscriptions are enough for a request to meet another request, a delivery
in progress and a last unsubscribe; two messages fill `messagesChan` and a
records channel, the third cannot be converted, and the fourth shows whether it
was passed over; two sessions are needed for what a session leaves behind.
`ClientSubscription` has one message and one session: what it adds to the reader
is about the end of calls, and a goroutine holding one record, one in its
channel, or an error, is in every state it can be cancelled in. In
`AccessPoint` two clients share the writer's results and make up to two calls
each, three in all (`MaxAdd`): with `IdRange = 2` the ids wrap, and the ids of
messages are at the edge of their width too. Two chunks (`MaxChunk`) are what
`ChunksApart` compares. `Ids` has a text that is no number, every id, and the
first number that is too large; only these can be told apart by parsing. Its tokens are a user with rights, one without and
no user; the lengths of a chunk are zero, the largest allowed and one more; its
declarations are one that is accepted and one of an unknown kind.

In `Publisher` two posts with at most one message and one chunk give a
transaction a middle and let failures, a crash and a rebalance meet any of its
steps; one crash and one rebalance redeliver every record, also together, and
pass over a post before and between sessions. Two posts do not fill a queue of
three; that its capacity is kept is proved (`TypeCorrect`) for any number. With
two messages to a post its liveness takes many times as long and has no new
case: the second insert is a step like the first. `PublisherSwapped` has posts
of two messages, which distinguish a post ID from a message ID.

In `Process` each handler pushes twice, to the log and to the topic of chunks in
any order, which suffices for a record to be accepted, to fail, and its error
to be logged, while every other writer is in each of its states; one handler is
enough because handlers meet only in the counts of a writer. There are as many
attempts to dial as in the code.

`MaxMsg`, `MaxSession`, `MaxCall`, `MaxAdd`, `MaxPost`, `MaxDecl`, `MaxChunk`,
`MaxCrash`, `MaxRebalance` and `MaxPush` only bound the environment. The subscriptions are
interchangeable where `CloseFirst` and `MayQuit` treat them alike, which is
where symmetry is used, and never with a liveness property.

### Fairness

Every goroutine that can run does (WF). A `select` takes a ready case at random,
so a case that is ready again and again is taken in the end (SF on the cases of
the serve loop and of the main loop). `Consume` returns once its context is
cancelled. The user of a subscription closes it when its reading goroutine has
ended (`clientsubscription.go:148-157`). The producer settles every message it
has accepted. A reader of a running publisher joins its group and reads on, but
nothing starts a publisher that is down, and nothing makes a group commit. Of a
process it is assumed that `main`, its drainers and handlers go on when they
can: an attempt to dial or to open ends one way or the other, and so does a
push; but the Close of a stream reader need not return. `Settles` therefore
promises the end only of a process that does not stay in one for ever
(`[]<>~ReaderClosing`); startup and the writers give it no other place to hang.
Nothing is assumed of callers: they may never subscribe, close or push, and
nothing makes a process stop serving.

`WaitEnds` says without fairness, by the guards of the goroutine's actions, that
a handler in `stopBarrier.Wait()` waits for a goroutine that has a step to take;
that `Close` before it returns is what `CloseReturns` refutes.

## Proofs

`StreamReaderProofs` proves for any set of subscriptions, any number of
messages and sessions: `TypeOK`, `RequestResponse`, `ConsumerIffSubscribed`,
`DiesOfError`, `OneSession`, `ClosedQuiet`, `PanicOnlyAfterClose`,
`NothingSkipped` and the refinements `ImplementsFeed` and `ImplementsQueues`.
The assumptions are those named in `StreamReader`: `Nil` is not a subscription,
`CloseFirst` and `MayQuit` are sets of subscriptions, `Unconvertible` are
offsets, the bounds are natural numbers. `PanicOnlyAfterClose` holds where no
subscription closes its channel first; `StreamReaderLogClose` shows why. In the
same way `DiesOfError` bounds what `StreamReaderDeadConsumer` shows: an error
of `Consume` is the only way to a consumer that is open and dead. Its inductive
form (`LiveInv`) adds that an open consumer is not cancelled outside of
`stop()`.

`NothingSkipped` follows from `BeforeInv`, which says that also what is on its
way is from before the first message that cannot be converted, as long as
reading has not begun behind that one; and that needs a group that has not
committed anything.

`IInv` strengthens the safety properties: who waits for a response while serve
is in a request, which sessions have running goroutines and with which control
points, what the owner's position says about serve, and that a subscription in
the map has open channels. `FeedInv` adds, for the refinement, that a message
on its way to a subscriber is at most one ahead of the last one handed to it,
or of where reading last began at the end.
Three lemmas (`CallerStep`, `ServeStep`, `GroupStep`) prove `IInv` inductive,
one step per action; `FeedStep` and `FeedRefStep` do the same for the feed.

For `ImplementsQueues` (`QueuesImplemented`) the way to a subscription is the
concatenation of three sequences. `WayStep` shows how each action may move it
(`WayMoves`): a record enters at the end, leaves at the beginning, or goes from
one part to the next, which leaves the sequence as it is; the way begins or
ends with the subscription; or only the offsets move. The lemmas `PutOnWay`,
`TakenFromWay` and `MovedOnWay` are the facts of sequences behind it.
`WaysAreSteps` maps each to a step of `RecordQueue`. The refinement needs
`FreshInv`, that nothing was sent to a subscription before it is in the map,
for what it joins with, and the capacities of `TypeOK` for the bound.

`ClientSubscriptionProofs` proves for any finite set of calls that every step
of the calls is a step of the reader or leaves it alone (`CallsUseReader`), so
that all that is proved of the reader holds beneath them, and on top of that
`CallsTypeOK`, `NothingLeft`, `FailureReported`, `PanicOnlyAfterClose`,
`WaitEnds` and `ReturnedIsFinal`; `CallsInheritReader` collects what the calls
have from the reader, both refinements included. `CInv` adds to the reader's
`IInv` where each handler's position puts its subscription (`PlaceInv`), that
an outcome is there once the goroutine has stopped reading, and that what is
passed on and taken is that outcome (`OutcomeInv`), what the handler has seen
past its select and its barrier (`EndInv`), and that each counter is the number
of handlers in the places between its two updates (`CountInv`). `WaitEnds`
follows from `EndInv`, `OutcomeInv` and `EndedInv` (a closed subscription has a
closed error channel): past its Close either the goroutine still reads and can
see that, or it has an outcome for which `errChan` has room. `ReturnedIsFinal`
is an action property: a returned call has a closed subscription that is not in
the map and a goroutine that has finished, so each action of the reader and of
the calls is shown to leave it alone.

`Access` proves, of any groups and rights, that rights only accumulate and that
domains are separate; of the built-in users, that only root may do anything
(all services are of the group `("", "")`, which no other user's rights fit);
that the publisher's second check of an author agrees with the access point's;
and that the methods `Auth` lists are those allowed in later requests with the
token it leaves the client with, also when the login is wrong. `Convertor`
proves for any width that an id survives its text (`IdRoundTrip`), that one
that is accepted fits (`IdAccepted`), that an error is never lost to a later
conversion (`FirstErrorKept`), and that an accepted vocal converts back
(`AnswerConverts`).

`StreamWriterProofs` proves for any finite set of callers, any number of calls
and any width of ids: `TypeOK`, `ResultPerCaller`, `UniqueIds` and
`OwnResultAlone`. None of the last three is inductive. `WInv` adds that a
message in flight is that of a call past its send and is either pending or
settled, never both (`FlightInv`); that no more messages are in flight than
callers wait, also while `Close` takes results, and none once the producer is
closed (`CountInv`); that an id on offer is the offset of its message and
nobody else's (`IdInv`); and that a caller which is alone has nothing in flight
but its own message (`AloneInv`). A call that starts while nobody is in `Push`
finds nothing in flight because of the count: that is the step which joins the
parts.

`AccessPointProofs` proves for any clients, declarations, tokens and widths of
ids `ServerTypeOK` (with it `TypeOK` of the writer), `ChunksApart` and
`OwnMessage`. `SInv` adds to `WInv` that what was returned was called, and
declared by the only user who may (`CallInv`), and that a chunk sent for an
answer has the ids of that answer, that of a message within the declaration
(`ChunkInv`); of a chunk for other ids nothing but its author is known.
`ChunksApart` then follows from `UniqueIds`, and `OwnMessage` from
`OwnResultAlone`, both of the writer, whose safety holds here too
(`ServerResults`). `TopicsImplemented` is the refinement of `Topics`: a
declaration enters the log of the writer with a pending message of a call that
was made by a user who may publish, and keeps its author and its messages
whatever is declared later, for which `LoggedInv` adds that a logged message is
of a call that was made; a chunk has an author who may publish, whatever its
ids.

`ProcessProofs` proves for any handlers, any set of writers with the log among
them and any number of records: `TypeOK`, `NothingHeld`, `Released`,
`LogOutlives` and `ReportsAccepted`. `IInv` says what main has opened by each
of its places (`StageInv`), that the log is open wherever main may log
(`LogInv`), that what was opened is open up to the writer being closed
(`OpenInv`, `ClosingInv`) and every other one is over with its drainer
(`HeldInv`, `EndInv`), that a closed writer is empty (`EmptyInv`), and that
nobody closes the notifier (`NotifierInv`). `LogOutlives` needs `HeldInv`: once
main reaches the log, no drainer of a writer it closes is left. So does
`ReportsAccepted`, for the reports of the drainers, and `LogInv` for those main
makes of what a Close has collected.

`PublisherProofs` proves for any posts, declarations and chunks and any number
of crashes and rebalances: `TypeOK`, `StoredAsDeclared`, `NothingLost`,
`NotificationOwed` and the refinements `ImplementsPostStore` and
`ImplementsQueues`. `PInv` adds to `TypeOK` and `StoredAsDeclared` that
whatever is on its way to the main loop is in its topic (`QueueInv`), what the
loop has in hand at each point: a record of the topic, not stored while it is
being inserted, not notified when it is about to be (`LoopInv`), and that a
notified post is stored (`NotifiedInv`). `StoredAsDeclared` needs `LoopInv`
since a commit writes what earlier steps put into the transaction; the
refinement needs `NotifiedInv` to know that a post which is being committed has
not been notified before.

`NothingLost` and `NotificationOwed` are inductive beside `PInv`. Two lemmas
say when a step keeps them: `LossKept`, when what was on its way still is, or
is stored or failed; `OwedKept`, when tables and notifications stay and the
record in hand is not being notified. `LossStream`, `LossLoop` and `LossDie`
show it of every action; a death is where `Doomed` is needed, and that another
start goes on from what is committed. Where nothing is committed, a group begins
at the end and whatever was neither read nor stored is `passed`: for that
`PassedInv` adds that what is on its way was not passed over, and that before
the first commit reading never goes back behind what is stored or on its way.
`ReadersAsPromised` needs one more fact, that a process which is down holds nothing (`DownInv`). `DataStaysNull`
is the general form of what `PublisherChunkLost` finds: the data column of
every row stays NULL.

Only model-checked: every liveness property (liveness under fairness is out of
the prover's reach), that is, `Delivered`, `PushReturns`, `VocalPublished`,
`PostStored`, `Settles` and `FallsQuiet`. Every invariant, action property and
refinement a passing run checks is proved. The runs that are violated need no
proof; for some of them it is proved when the property does hold
(`PanicOnlyAfterClose`, `DiesOfError`, `OwnResultAlone`) or that it never does
(`DataStaysNull`).

## Not modelled

* gRPC, envoy, docker and the build; JSON; what Sarama, Kafka, pgx and Postgres
  do inside. The producer, the consumer group and the calls' contexts are
  modelled as the code uses them and marked external in `PROJECT.json`.
* Payloads, times, locations and the wording of log records.
* The cli, a sequential test client without state beyond its auth header.
* `Message.Load` and the loop of `ReadMessage` that would send chunks
  (`client.go:156-167`): neither is ever reached. `GetPost`'s columns.
* Publishing a post when its last chunk arrives: the code does not do it yet.
* The effect of a chunk that is delivered twice on a message: no chunk is ever
  stored (`PublisherChunkLost`), so it cannot show.

## Plan

1. Done: all components of the services; their composition by extension
   (`ClientSubscription`, `AccessPoint`, `Process`) and by promise (`Topics`,
   `RecordQueue`); the proofs of their safety and of the four abstract
   specifications.
2. An abstract specification of an asynchronous writer for `AsyncWriter`, and
   what of it `AccessPoint` and `Publisher` rely on.
3. What a client of `ReadPosts` may rely on, from `PostStore` and `StreamFeed`
   together.
