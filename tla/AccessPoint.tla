---------------------------- MODULE AccessPoint -----------------------------
(***************************************************************************)
(* The unary calls of accesspoint/lib/service.go and client.go with        *)
(* au10/publisher.go: clients of the access point add vocals through the   *)
(* synchronous writer their handlers share (StreamWriter.tla), and send    *)
(* chunks of messages, for the ids they are answered or for any others.    *)
(*                                                                         *)
(* Each client makes one call at a time, with any of the tokens.  A call   *)
(* that is refused changes nothing but the log, which Process.tla writes.  *)
(***************************************************************************)
EXTENDS StreamWriter, Access

CONSTANTS
  Tokens,       \* tokens of requests
  Requests,     \* declarations of messages that clients send to AddVocal
  Lengths,      \* lengths of chunks they send
  Ids,          \* texts they make up for ids
  MaxChunkSize,
  MaxChunk,     \* bound: chunks in the topic
  MaxAdd        \* bound: calls of AddVocal, of all clients

Convert == INSTANCE Convertor

ASSUME RequestsAssumption == Requests \subseteq Convert!Declarations
ASSUME IdsAssumption == Ids \subseteq Convert!Texts
ASSUME ChunksAssumption == MaxChunk \in Nat /\ MaxAdd \in Nat

VARIABLES
  declared,  \* the declaration each call of AddVocal pushed
  chunks     \* the topic of chunks: post, id, author; history: the call
             \* of AddVocal whose answer the ids were taken from, or NoCall

serverVars == <<declared, chunks>>

NoCall == <<>>  \* the ids were made up

NoDeclaration == [author |-> DefaultUser, messages |-> <<>>]

ServerInit ==
  /\ Init
  /\ declared = [m \in Message |-> NoDeclaration] /\ chunks = {}

Calls == {m \in Message : m[2] <= calls[m[1]]}

\* The declaration is converted, the rights are checked, and it is pushed.
AddVocal(c, token, request) ==
  LET user == RequestUser(token)
      decl == Convert!VocalDeclarationFromProto(request, user, Convert!NoError)
  IN /\ Cardinality(Calls) < MaxAdd
     /\ decl.err = Convert!NoError
     /\ MayPublish(user)
     /\ Call(c)
     /\ declared' = [declared EXCEPT ![<<c, calls[c] + 1>>] = decl.value]
     /\ UNCHANGED chunks

\* What a client is answered when its Push has returned an id.
Answered(c) == {r \in returned : r.message[1] = c /\ r.id # NoId}

Answer(r) ==
  Convert!VocalToProto(Convert!newNewVocal(r.id, declared[r.message]),
                       Convert!NoError)

Messages(r) == Answer(r).value.messages

\* What a client asks a message by: the texts in an answer, or any others.
AskedByAnswer(c) ==
  UNION {{[post |-> Answer(r).value.id, message |-> Messages(r)[i].id,
           call |-> r.message] : i \in DOMAIN Messages(r)} : r \in Answered(c)}
Asked(c) ==
  AskedByAnswer(c) \union [post : Ids, message : Ids, call : {NoCall}]

\* parseMessageID.
ParsedPost(a) == Convert!PostIDFromProto(a.post, Convert!NoError)
ParsedMessage(a) == Convert!MessageIDFromProto(a.message, ParsedPost(a).err)

\* Mutant: the rights are not checked.
WriteMessageChunkUnchecked(token, length, a) ==
  /\ length <= MaxChunkSize /\ length # 0
  /\ ParsedMessage(a).err = Convert!NoError
  /\ chunks' = chunks \union {[post |-> ParsedPost(a).value,
                               id |-> ParsedMessage(a).value,
                               author |-> RequestUser(token),
                               call |-> a.call]}

\* A chunk is accepted, and stored in the topic or lost by the asynchronous
\* writer, whether or not there is such a message, and whoever declared it.
WriteMessageChunk(token, length, a) ==
  /\ length <= MaxChunkSize /\ length # 0
  /\ MayPublish(RequestUser(token))
  /\ ParsedMessage(a).err = Convert!NoError
  /\ chunks' = chunks \union {[post |-> ParsedPost(a).value,
                               id |-> ParsedMessage(a).value,
                               author |-> RequestUser(token),
                               call |-> a.call]}

\* When all checks pass getMessage returns no message, and ReadMessage uses it.
ReadMessage(token, a) ==
  /\ ParsedMessage(a).err = Convert!NoError
  /\ MayReadPosts(RequestUser(token))
  /\ panic' = TRUE

AddNext ==
  \E c \in Callers, token \in Tokens, request \in Requests :
    AddVocal(c, token, request)

MessageNext ==
  \E c \in Callers :
    /\ ~panic /\ pc[c] = "idle"
    /\ \E a \in Asked(c), token \in Tokens :
         \/ /\ Cardinality(chunks) < MaxChunk
            /\ \E length \in Lengths : WriteMessageChunk(token, length, a)
            /\ UNCHANGED <<vars, declared>>
         \/ /\ ReadMessage(token, a)
            /\ UNCHANGED <<pc, calls, pending, results, log, returned, shared,
                           producer, serverVars>>

ServerNext ==
  \/ AddNext
  \/ MessageNext
  \/ WriterNext /\ UNCHANGED serverVars

ServerSpec == ServerInit /\ [][ServerNext]_<<vars, serverVars>>

ServerFairSpec == ServerSpec /\ Fairness

-----------------------------------------------------------------------------
Declaration ==
  [author : Users \union {DefaultUser},
   messages : Seq([kind : {Convert!MessageKindText}, size : Nat])]

TopicTypes ==
  /\ declared \in [Message -> Declaration]
  /\ chunks \subseteq [post : 0..(IdRange - 1), id : 0..(IdRange - 1),
                       author : Users, call : Message \union {NoCall}]

\* Types of the writer too, whose callers are the handlers.
ServerTypeOK == TypeOK /\ TopicTypes

\* Chunks whose ids come from an answer.
OfAnswers == {k \in chunks : k.call \in Message}

\* Of chunks sent for the ids in answers, those of vocals that were added by
\* different calls never meet in one post, even if the calls got each other's
\* id; and the post exists (accesspoint/lib/client.go: AddVocal,
\* WriteMessageChunk).
ChunksApart ==
  Len(log) <= IdRange =>
    \A j \in OfAnswers :
      /\ j.post < Len(log)
      /\ \A k \in OfAnswers : k.post = j.post => k.call = j.call

\* A chunk sent for the ids in the answer to a call that was made while no
\* other was goes, as the publisher reads its ids, to the post of that call, to
\* a message declared for it, and has its author.
OwnMessage ==
  Len(log) <= IdRange =>
    \A k \in OfAnswers :
      k.call \notin shared =>
        LET post == declared[log[k.post + 1]] IN
        /\ k.post < Len(log) /\ log[k.post + 1] = k.call
        /\ k.id < Len(post.messages) /\ k.author = post.author

-----------------------------------------------------------------------------
Topic == INSTANCE Topics WITH
  posts <- [i \in 1..Len(log) |-> Len(declared[log[i]].messages)],
  authors <- [i \in 1..Len(log) |-> declared[log[i]].author],
  sent <- {[post |-> k.post, id |-> k.id, author |-> k.author] : k \in chunks}

\* Whatever clients send, and in whatever order their calls meet: the topics
\* get declarations and chunks of users who may publish and nothing else, and a
\* declaration stays as it is while others get or take its id.  Nothing keeps
\* out a chunk for a post that is not declared (client.go: WriteMessageChunk).
\* That is what the publisher is modelled with (Publisher.tla).
ImplementsTopics == Topic!Spec
=============================================================================
