-------------------------- MODULE AccessPointProofs --------------------------
(***************************************************************************)
(* Proofs about AccessPoint, from those about the writer its handlers      *)
(* share, the users and the conversions: where the chunks of clients go.   *)
(***************************************************************************)
EXTENDS AccessPoint, StreamWriterProofs

\* Whatever was returned was called, and whatever was called was declared by
\* the only user who may.
CallInv ==
  /\ \A r \in returned : r.message[2] <= calls[r.message[1]]
  /\ \A m \in Message : m[2] <= calls[m[1]] => declared[m].author = "root"

\* A chunk is from the only user who may send one; if its ids come from an
\* answer, they are those in it.
ChunkInv ==
  /\ \A k \in chunks : k.author = "root"
  /\ \A k \in OfAnswers :
       /\ \E r \in returned : r.message = k.call /\ r.id = k.post /\ r.id # NoId
       /\ k.id < Len(declared[k.call].messages)

SInv == WInv /\ TopicTypes /\ CallInv /\ ChunkInv
-----------------------------------------------------------------------------
\* The server starts with nothing declared.
LEMMA ServerInitInv == ServerInit => SInv
<1> SUFFICES ASSUME ServerInit PROVE SInv
  OBVIOUS
<1>1. WInv
  BY InitInv DEF ServerInit
<1>2. TopicTypes
  BY DEF ServerInit, TopicTypes, Declaration, NoDeclaration
<1>3. CallInv
  <2>1. returned = {} /\ calls = [c \in Callers |-> 0]
    BY DEF ServerInit, Init
  <2>2. \A m \in Message : m[1] \in Callers /\ m[2] \in 1..MaxCall
    BY DEF Message
  <2> QED  BY <2>1, <2>2 DEF CallInv
<1>4. ChunkInv
  BY DEF ServerInit, ChunkInv, OfAnswers
<1> QED  BY <1>1, <1>2, <1>3, <1>4 DEF SInv

\* The writer only adds to what it has returned, for calls that were made.
LEMMA WriterKeeps ==
  ASSUME WriterNext
  PROVE  /\ calls' = calls /\ returned \subseteq returned'
         /\ \A r \in returned' :
              r \in returned \/ \E c \in Callers : r.message = Current(c)
<1>1. ASSUME NEW c \in Callers, Receive(c) \/ ReceiveClosed(c)
      PROVE  /\ calls' = calls
             /\ \E i : returned' = returned \union {Result(Current(c), i)}
  BY <1>1 DEF Receive, ReceiveClosed
<1>2. CASE PushNext
  <2>1. CASE \E c \in Callers : Receive(c) \/ ReceiveClosed(c)
    <3>1. PICK c \in Callers : Receive(c) \/ ReceiveClosed(c)
      BY <2>1
    <3>2. PICK i : returned' = returned \union {Result(Current(c), i)}
      BY <1>1, <3>1
    <3>3. calls' = calls
      BY <1>1, <3>1
    <3> QED  BY <3>2, <3>3 DEF Result
  <2>2. CASE \E c \in Callers : Input(c) \/ InputPanics(c)
    BY <2>2 DEF Input, InputPanics
  <2> QED  BY <1>2, <2>1, <2>2 DEF PushNext
<1>3. CASE ProducerNext \/ Close \/ Drain \/ Closed
  BY <1>3 DEF ProducerNext, Store, Fail, Close, Drain, Closed
<1> QED  BY <1>2, <1>3 DEF WriterNext

\* The process dies of a panic elsewhere.
LEMMA PanicStep ==
  ASSUME WInv, panic' = TRUE,
         UNCHANGED <<pc, calls, pending, results, log, returned, shared,
                     producer>>
  PROVE  WInv'
<1>1. TypeOK'
  BY DEF WInv, TypeOK
<1>2. FlightInv'
  BY DEF WInv, FlightInv, Pushed
<1>3. CountInv'
  BY DEF WInv, CountInv, ResultPerCaller, Waiting
<1>4. IdInv'
  BY DEF WInv, IdInv, Own
<1>5. AloneInv'
  BY DEF WInv, AloneInv, OwnResultAlone, Own, Current
<1> QED  BY <1>1, <1>2, <1>3, <1>4, <1>5 DEF WInv

-----------------------------------------------------------------------------
\* A declaration that is accepted is that of root, of messages of known kinds.
LEMMA AcceptedDeclaration ==
  ASSUME NEW request \in Requests, NEW token, MayPublish(RequestUser(token)),
         NEW decl,
         decl = Convert!VocalDeclarationFromProto(request, RequestUser(token),
                                                  Convert!NoError)
  PROVE  decl.value \in Declaration /\ decl.value.author = "root"
<1>1. RequestUser(token) = "root"
  BY OnlyRoot DEF RequestUser, Users
<1>2. request \in Convert!Declarations
  BY RequestsAssumption
<1> DEFINE M == Convert!MessagesDeclarationFromProto(request, Convert!NoError)
<1>3. M.value \in Seq([kind : {Convert!MessageKindText}, size : Nat])
  <2> DEFINE Item == [kind : {Convert!ProtoText, "other"}, size : Nat]
  <2>1. request \in Seq(Item)
    BY <1>2 DEF Convert!Declarations
  <2>2. Len(request) \in Nat /\ DOMAIN request = 1..Len(request)
    BY <2>1
  <2>3. \A j \in 1..Len(request) : request[j] \in Item
    <3> HIDE DEF Item
    <3> QED  BY <2>1
  <2>4. \A j \in 1..Len(request) : request[j].size \in Nat
    BY <2>3
  <2> DEFINE T == [kind : {Convert!MessageKindText}, size : Nat]
             N == Len(request)
             item(j) == [kind |-> Convert!MessageKindText,
                         size |-> request[j].size]
  <2>5. \A j \in 1..N : item(j) \in T
    BY <2>4
  <2>6. M.value = [j \in 1..N |-> item(j)] \/ M.value = <<>>
    BY <2>2 DEF Convert!MessagesDeclarationFromProto,
                Convert!MessageKindFromProto, Convert!Converted
  <2>7. [j \in 1..N |-> item(j)] \in Seq(T)
    <3> HIDE DEF T, item
    <3>1. N \in Nat
      BY <2>2
    <3> HIDE DEF N
    <3> QED  BY <2>5, <3>1
  <2>8. <<>> \in Seq(T)
    OBVIOUS
  <2> QED  BY <2>6, <2>7, <2>8
<1>4. decl.value = [author |-> "root", messages |-> M.value]
  BY <1>1 DEF Convert!VocalDeclarationFromProto, Convert!Converted
<1> HIDE DEF M
<1> QED  BY <1>3, <1>4 DEF Declaration, Users

\* A call is made: nothing that was returned or sent before is touched.
LEMMA AddStep ==
  ASSUME SInv, SInv => WInv', NEW c \in Callers, NEW token,
         NEW request \in Requests,
         AddVocal(c, token, request)
  PROVE  SInv'
<1> DEFINE new == <<c, calls[c] + 1>>
           decl == Convert!VocalDeclarationFromProto(request,
                     RequestUser(token), Convert!NoError)
<1>1. /\ MayPublish(RequestUser(token)) /\ Call(c)
      /\ declared' = [declared EXCEPT ![new] = decl.value] /\ chunks' = chunks
  BY DEF AddVocal
<1>2. decl.value \in Declaration /\ decl.value.author = "root"
  BY <1>1, AcceptedDeclaration
<1> HIDE DEF decl
<1>3. /\ calls[c] \in Nat /\ calls[c] < MaxCall /\ new \in Message
      /\ calls \in [Callers -> 0..MaxCall]
  BY <1>1, BoundAssumption DEF Call, SInv, WInv, TypeOK, Message
<1>4. /\ calls' = [calls EXCEPT ![c] = @ + 1]
      /\ returned' = returned \/ returned' = returned \union {Result(new, NoId)}
  BY <1>1 DEF Call
<1>5. TopicTypes'
  BY <1>1, <1>2, <1>3 DEF SInv, TopicTypes
<1>6. \A r \in returned : r.message \in Message /\ r.message # new
  <2>1. \A r \in returned : r.message \in Message
    BY DEF SInv, WInv, TypeOK, Settled
  <2>2. \A r \in returned : r.message[2] <= calls[r.message[1]]
    BY DEF SInv, CallInv
  <2> QED  BY <1>3, <2>1, <2>2
<1>7. CallInv'
  <2>1. \A m \in Message :
          m[1] \in Callers /\ m[2] \in Nat /\ m = <<m[1], m[2]>>
    BY DEF Message
  <2>2. ASSUME NEW m \in Message, m # new
        PROVE  m[2] <= calls'[m[1]] => m[2] <= calls[m[1]]
    BY <1>3, <1>4, <2>1, <2>2
  <2>3. ASSUME NEW m \in Message
        PROVE  m[2] <= calls[m[1]] => m[2] <= calls'[m[1]]
    BY <1>3, <1>4, <2>1
  <2>4. new[2] <= calls'[new[1]]
    BY <1>3, <1>4
  <2>5. \A r \in returned' : r.message[2] <= calls'[r.message[1]]
    BY <1>3, <1>4, <1>6, <2>3, <2>4 DEF SInv, CallInv, Result
  <2>6. \A m \in Message : m[2] <= calls'[m[1]] => declared'[m].author = "root"
    BY <1>1, <1>2, <1>3, <2>2 DEF SInv, CallInv, TopicTypes
  <2> QED  BY <2>5, <2>6 DEF CallInv
<1>8. ChunkInv'
  <2>1. \A k \in OfAnswers : declared'[k.call] = declared[k.call]
    BY <1>1, <1>3, <1>6 DEF SInv, ChunkInv, TopicTypes
  <2>2. returned \subseteq returned' /\ OfAnswers' = OfAnswers
    BY <1>1, <1>4 DEF OfAnswers
  <2> QED  BY <1>1, <2>1, <2>2 DEF SInv, ChunkInv
<1> QED  BY <1>5, <1>7, <1>8 DEF SInv

\* An id that is accepted is one.
LEMMA IdInRange ==
  ASSUME NEW text \in Convert!Texts, NEW err,
         Convert!idFromProto(text, err).err = Convert!NoError
  PROVE  /\ Convert!idFromProto(text, err).value \in 0..(IdRange - 1)
         /\ err = Convert!NoError
<1>1. text = Convert!OtherText \/ \E n \in Nat : text = <<"decimal", n>>
  BY DEF Convert!Texts
<1>2. CASE text = Convert!OtherText
  BY <1>2 DEF Convert!idFromProto, Convert!OtherText, Convert!Converted,
              Convert!First, Convert!NoError
<1>3. ASSUME NEW n \in Nat, text = <<"decimal", n>>
      PROVE  n < IdRange /\ Convert!idFromProto(text, err)
                              = Convert!Converted(n, err)
  BY <1>3 DEF Convert!idFromProto, Convert!Converted, Convert!First,
              Convert!NoError
<1> QED  BY <1>1, <1>2, <1>3, BoundAssumption DEF Convert!Converted

\* What was returned with an id, and how many messages its call declared.
LEMMA AnswerIds ==
  ASSUME SInv, NEW r \in returned, r.id # NoId, NEW i \in DOMAIN Messages(r)
  PROVE  /\ r.id \in 0..(IdRange - 1) /\ r.message \in Message
         /\ Answer(r).value.id = <<"decimal", r.id>>
         /\ Messages(r)[i].id = <<"decimal", i - 1>>
         /\ i - 1 \in Nat /\ i - 1 < Len(declared[r.message].messages)
<1>1. /\ r.id \in 0..(IdRange - 1) /\ IdRange \in Nat \ {0}
      /\ r.message \in Message
  BY BoundAssumption DEF SInv, WInv, TypeOK, Settled, NoId
<1> DEFINE messages == declared[r.message].messages
<1>2. PICK n \in Nat : n = Len(messages) /\ DOMAIN messages = 1..n
  <2>1. messages \in Seq([kind : {Convert!MessageKindText}, size : Nat])
    BY <1>1 DEF SInv, TopicTypes, Declaration
  <2> QED  BY <2>1
<1> DEFINE vocal == Convert!newNewVocal(r.id, declared[r.message])
<1>3. /\ DOMAIN vocal.messages = DOMAIN messages /\ vocal.id = r.id
      /\ \A j \in DOMAIN messages : vocal.messages[j].id = j - 1
  BY DEF Convert!newNewVocal
<1> HIDE DEF vocal
<1>4. /\ Answer(r).value.id = <<"decimal", r.id>>
      /\ Messages(r) = [j \in DOMAIN vocal.messages |->
                          Convert!MessageToProto(vocal.messages[j])]
  BY <1>3 DEF vocal, Answer, Messages, Convert!VocalToProto,
              Convert!Converted, Convert!idToProto, Convert!Decimal
<1>5. i \in 1..n
  BY <1>2, <1>3, <1>4
<1>6. Messages(r)[i].id = <<"decimal", i - 1>>
  <2>1. i \in DOMAIN vocal.messages /\ vocal.messages[i].id = i - 1
    BY <1>2, <1>3, <1>5
  <2>2. Messages(r)[i] = Convert!MessageToProto(vocal.messages[i])
    BY <1>4, <2>1
  <2>3. Convert!MessageToProto(vocal.messages[i]).id
          = <<"decimal", vocal.messages[i].id>>
    BY DEF Convert!MessageToProto, Convert!idToProto, Convert!Decimal
  <2> QED  BY <2>1, <2>2, <2>3
<1>7. i - 1 \in Nat /\ i - 1 < n
  BY <1>2, <1>5
<1> QED  BY <1>1, <1>2, <1>4, <1>6, <1>7

\* Clients ask by texts.
LEMMA AskedTexts ==
  ASSUME SInv, NEW c \in Callers, NEW a \in Asked(c)
  PROVE  a.post \in Convert!Texts /\ a.message \in Convert!Texts
<1>1. CASE a \in [post : Ids, message : Ids, call : {NoCall}]
  BY <1>1, IdsAssumption
<1>2. CASE a \in AskedByAnswer(c)
  <2>1. PICK r \in Answered(c) : \E i \in DOMAIN Messages(r) :
          a = [post |-> Answer(r).value.id, message |-> Messages(r)[i].id,
               call |-> r.message]
    BY <1>2 DEF AskedByAnswer
  <2>2. PICK i \in DOMAIN Messages(r) :
          a = [post |-> Answer(r).value.id, message |-> Messages(r)[i].id,
               call |-> r.message]
    BY <2>1
  <2>3. r \in returned /\ r.id # NoId
    BY DEF Answered
  <2>4. /\ a.post = <<"decimal", r.id>> /\ r.id \in Nat
        /\ a.message = <<"decimal", i - 1>> /\ i - 1 \in Nat
    BY <2>2, <2>3, AnswerIds
  <2> QED  BY <2>4 DEF Convert!Texts
<1> QED  BY <1>1, <1>2 DEF Asked

\* What is accepted of the texts is an id; those in an answer are read back as
\* they were.
LEMMA AskedParsed ==
  ASSUME SInv, NEW c \in Callers, NEW a \in Asked(c),
         ParsedMessage(a).err = Convert!NoError
  PROVE  /\ ParsedPost(a).value \in 0..(IdRange - 1)
         /\ ParsedMessage(a).value \in 0..(IdRange - 1)
         /\ a.call \in Message \union {NoCall}
         /\ a.call \in Message =>
              /\ \E r \in returned : /\ r.message = a.call /\ r.id # NoId
                                     /\ r.id = ParsedPost(a).value
              /\ ParsedMessage(a).value < Len(declared[a.call].messages)
<1>1. /\ ParsedPost(a).value \in 0..(IdRange - 1)
      /\ ParsedMessage(a).value \in 0..(IdRange - 1)
      /\ ParsedPost(a).err = Convert!NoError
  <2>1. /\ ParsedPost(a) = Convert!idFromProto(a.post, Convert!NoError)
        /\ ParsedMessage(a) = Convert!idFromProto(a.message, ParsedPost(a).err)
    BY DEF ParsedPost, ParsedMessage, Convert!PostIDFromProto,
           Convert!MessageIDFromProto
  <2>2. a.post \in Convert!Texts /\ a.message \in Convert!Texts
    BY AskedTexts
  <2>3. /\ ParsedMessage(a).value \in 0..(IdRange - 1)
        /\ ParsedPost(a).err = Convert!NoError
    BY <2>1, <2>2, IdInRange
  <2> QED  BY <2>1, <2>2, <2>3, IdInRange
<1>2. CASE a \in [post : Ids, message : Ids, call : {NoCall}]
  <2>1. NoCall \notin Message
    BY DEF NoCall, Message
  <2> QED  BY <1>1, <1>2, <2>1
<1>3. CASE a \in AskedByAnswer(c)
  <2>1. PICK r \in Answered(c) : \E i \in DOMAIN Messages(r) :
          a = [post |-> Answer(r).value.id, message |-> Messages(r)[i].id,
               call |-> r.message]
    BY <1>3 DEF AskedByAnswer
  <2>2. PICK i \in DOMAIN Messages(r) :
          a = [post |-> Answer(r).value.id, message |-> Messages(r)[i].id,
               call |-> r.message]
    BY <2>1
  <2>3. r \in returned /\ r.id # NoId
    BY DEF Answered
  <2>4. /\ r.id \in 0..(IdRange - 1) /\ a.call = r.message
        /\ r.message \in Message
        /\ a.post = <<"decimal", r.id>> /\ a.message = <<"decimal", i - 1>>
        /\ i - 1 \in Nat /\ i - 1 < Len(declared[r.message].messages)
    BY <2>2, <2>3, AnswerIds
  <2>5. ParsedPost(a).value = r.id
    BY <2>4, BoundAssumption DEF ParsedPost, Convert!PostIDFromProto,
       Convert!idFromProto, Convert!Converted
  <2>6. ParsedMessage(a).value = i - 1
    <3>1. ParsedMessage(a) = Convert!idFromProto(a.message, Convert!NoError)
      BY <1>1 DEF ParsedMessage, Convert!MessageIDFromProto
    <3>2. i - 1 < IdRange
      BY <2>4, <3>1 DEF Convert!idFromProto, Convert!Converted, Convert!First,
                        Convert!NoError
    <3> QED  BY <2>4, <3>1, <3>2 DEF Convert!idFromProto, Convert!Converted
  <2> QED  BY <1>1, <2>3, <2>4, <2>5, <2>6
<1> QED  BY <1>2, <1>3 DEF Asked

\* A chunk is sent.
LEMMA ChunkStep ==
  ASSUME SInv, NEW c \in Callers, NEW token, NEW length, NEW a \in Asked(c),
         WriteMessageChunk(token, length, a), UNCHANGED <<vars, declared>>
  PROVE  TopicTypes' /\ CallInv' /\ ChunkInv'
<1> DEFINE new == [post |-> ParsedPost(a).value,
                   id |-> ParsedMessage(a).value,
                   author |-> RequestUser(token), call |-> a.call]
<1>1. /\ MayPublish(RequestUser(token))
      /\ ParsedMessage(a).err = Convert!NoError
      /\ chunks' = chunks \union {new}
      /\ calls' = calls /\ returned' = returned /\ declared' = declared
  BY DEF WriteMessageChunk, vars
<1>2. RequestUser(token) = "root" /\ "root" \in Users
  BY <1>1, OnlyRoot DEF RequestUser, Users
<1>3. /\ new \in [post : 0..(IdRange - 1), id : 0..(IdRange - 1),
                  author : Users, call : Message \union {NoCall}]
      /\ new.author = "root"
      /\ new.call \in Message =>
           /\ \E r \in returned : /\ r.message = new.call /\ r.id # NoId
                                  /\ r.id = new.post
           /\ new.id < Len(declared[new.call].messages)
  <2>1. /\ new.post = ParsedPost(a).value /\ new.id = ParsedMessage(a).value
        /\ new.author = RequestUser(token) /\ new.call = a.call
    OBVIOUS
  <2>2. /\ ParsedPost(a).value \in 0..(IdRange - 1)
        /\ ParsedMessage(a).value \in 0..(IdRange - 1)
        /\ a.call \in Message \union {NoCall}
        /\ a.call \in Message =>
             /\ \E r \in returned : /\ r.message = a.call /\ r.id # NoId
                                    /\ r.id = ParsedPost(a).value
             /\ ParsedMessage(a).value < Len(declared[a.call].messages)
    BY <1>1, AskedParsed
  <2>3. new \in [post : 0..(IdRange - 1), id : 0..(IdRange - 1),
                 author : Users, call : Message \union {NoCall}]
    BY <1>2, <2>2
  <2> HIDE DEF new
  <2> QED  BY <1>2, <2>1, <2>2, <2>3
<1> HIDE DEF new
<1>4. TopicTypes' /\ CallInv'
  BY <1>1, <1>3 DEF SInv, TopicTypes, CallInv
<1>5. OfAnswers' \subseteq OfAnswers \union {new}
  BY <1>1 DEF OfAnswers
<1>6. new \in OfAnswers' => new.call \in Message
  BY DEF OfAnswers
<1>7. ChunkInv'
  BY <1>1, <1>3, <1>5, <1>6 DEF SInv, ChunkInv
<1> QED  BY <1>4, <1>7

\* Every step of the server preserves the invariant.
LEMMA ServerStep == SInv /\ [ServerNext]_<<vars, serverVars>> => SInv'
<1> SUFFICES ASSUME SInv, [ServerNext]_<<vars, serverVars>> PROVE SInv'
  OBVIOUS
<1>1. CASE AddNext
  <2>1. PICK c \in Callers, token \in Tokens, request \in Requests :
          AddVocal(c, token, request)
    BY <1>1 DEF AddNext
  <2>2. WInv'
    BY <2>1, NextStep DEF AddVocal, CallNext, Next, SInv
  <2> QED  BY <2>1, <2>2, AddStep
<1>2. CASE MessageNext
  <2>1. PICK c \in Callers : \E a \in Asked(c), token \in Tokens :
          \/ /\ \E length \in Lengths : WriteMessageChunk(token, length, a)
             /\ UNCHANGED <<vars, declared>>
          \/ /\ ReadMessage(token, a)
             /\ UNCHANGED <<pc, calls, pending, results, log, returned, shared,
                            producer, serverVars>>
    BY <1>2 DEF MessageNext
  <2>2. CASE \E a, token : /\ ReadMessage(token, a)
                           /\ UNCHANGED <<pc, calls, pending, results, log,
                                returned, shared, producer, serverVars>>
    <3>1. WInv'
      BY <2>2, PanicStep DEF ReadMessage, SInv
    <3>2. UNCHANGED <<calls, returned, declared, chunks>>
      BY <2>2 DEF serverVars
    <3> QED  BY <3>1, <3>2
             DEF SInv, TopicTypes, CallInv, ChunkInv, OfAnswers
  <2>3. ASSUME NEW a \in Asked(c), NEW token, NEW length,
               WriteMessageChunk(token, length, a), UNCHANGED <<vars, declared>>
        PROVE  SInv'
    <3>1. WInv'
      BY <2>3, NextStep DEF SInv
    <3> QED  BY <2>3, <3>1, ChunkStep DEF SInv
  <2> QED  BY <2>1, <2>2, <2>3
<1>3. CASE WriterNext /\ UNCHANGED serverVars
  <2>1. WInv'
    BY <1>3, NextStep DEF Next, SInv
  <2>2. declared' = declared /\ chunks' = chunks
    BY <1>3 DEF serverVars
  <2>3. /\ calls' = calls /\ returned \subseteq returned'
        /\ \A r \in returned' :
             r \in returned \/ \E c \in Callers : r.message = Current(c)
    BY <1>3, WriterKeeps
  <2>4. CallInv'
    <3>1. \A c \in Callers : Current(c)[2] <= calls[Current(c)[1]]
      BY DEF Current, SInv, WInv, TypeOK
    <3> QED  BY <2>2, <2>3, <3>1 DEF SInv, CallInv
  <2>5. TopicTypes' /\ ChunkInv'
    BY <2>2, <2>3 DEF SInv, TopicTypes, ChunkInv, OfAnswers
  <2> QED  BY <2>1, <2>4, <2>5 DEF SInv
<1>4. CASE UNCHANGED <<vars, serverVars>>
  <2>1. WInv'
    BY <1>4, NextStep DEF SInv
  <2>2. UNCHANGED <<calls, returned, declared, chunks>>
    BY <1>4 DEF vars, serverVars
  <2> QED  BY <2>1, <2>2 DEF SInv, TopicTypes, CallInv, ChunkInv, OfAnswers
<1> QED  BY <1>1, <1>2, <1>3, <1>4 DEF ServerNext

-----------------------------------------------------------------------------
\* Chunks sent for the ids in answers about different vocals never meet in one
\* post, for any number of clients and whatever other chunks they send (au10/publisher.go: AddVocal, AppendMessage).
THEOREM Apart == ServerSpec => []ChunksApart
<1>1. SInv => ChunksApart
  <2> SUFFICES ASSUME SInv, Len(log) <= IdRange, NEW j \in OfAnswers
               PROVE  /\ j.post < Len(log)
                      /\ \A k \in OfAnswers : k.post = j.post => k.call = j.call
    BY DEF ChunksApart
  <2>1. PICK r \in returned : r.message = j.call /\ r.id = j.post /\ r.id # NoId
    BY DEF SInv, ChunkInv
  <2>2. r.id < Len(log) /\ \A q \in returned : q.id = r.id => q = r
    BY <2>1 DEF SInv, WInv, IdInv
  <2>3. ASSUME NEW k \in OfAnswers, k.post = j.post PROVE k.call = j.call
    <3>1. PICK q \in returned : q.message = k.call /\ q.id = k.post
      BY DEF SInv, ChunkInv
    <3> QED  BY <2>1, <2>2, <2>3, <3>1
  <2> QED  BY <2>1, <2>2, <2>3
<1> QED  BY <1>1, ServerInitInv, ServerStep, PTL DEF ServerSpec

\* A chunk sent for the ids in the answer about a vocal that was added alone
\* goes to a message of that vocal and has its author (au10/publisher.go: AddVocal, AppendMessage).
THEOREM OwnMessageAlone == ServerSpec => []OwnMessage
<1>1. SInv => OwnMessage
  <2> SUFFICES ASSUME SInv, Len(log) <= IdRange,
                      NEW k \in OfAnswers, k.call \notin shared
               PROVE  /\ k.post < Len(log) /\ log[k.post + 1] = k.call
                      /\ k.id < Len(declared[k.call].messages)
                      /\ k.author = declared[k.call].author
    BY DEF OwnMessage
  <2>1. PICK r \in returned : r.message = k.call /\ r.id = k.post /\ r.id # NoId
    BY DEF SInv, ChunkInv
  <2>2. Own(r)
    BY <2>1 DEF SInv, WInv, AloneInv, OwnResultAlone
  <2>3. declared[k.call].author = "root"
    <3>1. r.message \in Message /\ r.message[2] <= calls[r.message[1]]
      BY DEF SInv, WInv, TypeOK, Settled, CallInv
    <3> QED  BY <2>1, <3>1 DEF SInv, CallInv
  <2>4. k.author = "root"
    BY DEF SInv, ChunkInv, OfAnswers
  <2> QED  BY <2>1, <2>2, <2>3, <2>4 DEF Own, SInv, ChunkInv
<1> QED  BY <1>1, ServerInitInv, ServerStep, PTL DEF ServerSpec

\* The topics and histories of the server keep their types, and what the
\* writer promises it keeps to handlers.
THEOREM ServerTypes == ServerSpec => []ServerTypeOK
<1>1. SInv => ServerTypeOK
  BY DEF SInv, WInv, ServerTypeOK
<1> QED  BY <1>1, ServerInitInv, ServerStep, PTL DEF ServerSpec

\* With the calls of the server around it the writer still has a result for
\* every caller that waits, and gives no id twice; what a call made alone is
\* answered is its own (au10/streamwriter.go, accesspoint/lib/service.go).
THEOREM ServerResults ==
  ServerSpec => [](ResultPerCaller /\ UniqueIds /\ OwnResultAlone)
<1>1. SInv => ResultPerCaller /\ UniqueIds /\ OwnResultAlone
  <2> SUFFICES ASSUME SInv PROVE UniqueIds
    BY DEF SInv, WInv, CountInv, AloneInv
  <2> QED  BY DEF SInv, WInv, IdInv, UniqueIds
<1> QED  BY <1>1, ServerInitInv, ServerStep, PTL DEF ServerSpec

-----------------------------------------------------------------------------
(* The refinement of Topics.                                               *)

\* What is in the topic of declarations was called.
LoggedInv == \A i \in 1..Len(log) : log[i][2] <= calls[log[i][1]]

TopicPosts == [i \in 1..Len(log) |-> Len(declared[log[i]].messages)]
TopicAuthors == [i \in 1..Len(log) |-> declared[log[i]].author]
TopicSent ==
  {[post |-> k.post, id |-> k.id, author |-> k.author] : k \in chunks}

\* The log grows by one pending message or not at all.
LEMMA LogStep ==
  ASSUME SInv, WriterNext
  PROVE  \/ log' = log
         \/ \E m \in pending : log' = Append(log, m)
<1>1. CASE PushNext
  BY <1>1 DEF PushNext, Input, InputPanics, Receive, ReceiveClosed
<1>2. CASE ProducerNext \/ Close \/ Drain \/ Closed
  BY <1>2 DEF ProducerNext, Store, Fail, Close, Drain, Closed
<1> QED  BY <1>1, <1>2 DEF WriterNext

LEMMA LoggedStep ==
  ASSUME SInv, LoggedInv, [ServerNext]_<<vars, serverVars>>
  PROVE  LoggedInv'
<1>0. /\ log \in Seq(Message) /\ calls \in [Callers -> 0..MaxCall]
      /\ pending \subseteq Message
  BY DEF SInv, WInv, TypeOK
<1>1. \A i \in 1..Len(log) : log[i][1] \in Callers
  BY <1>0 DEF Message
<1>2. CASE AddNext
  <2>1. PICK c \in Callers : Call(c)
    BY <1>2 DEF AddNext, AddVocal
  <2>2. /\ log' = log /\ calls' = [calls EXCEPT ![c] = @ + 1]
    BY <2>1 DEF Call
  <2>3. \A d \in Callers : calls[d] <= calls'[d] /\ calls[d] \in Nat
                           /\ calls'[d] \in Nat
    BY <1>0, <2>2, BoundAssumption
  <2>4. \A i \in 1..Len(log) : log[i][2] \in Nat
    BY <1>0 DEF Message
  <2> QED  BY <1>1, <2>2, <2>3, <2>4 DEF LoggedInv
<1>3. CASE WriterNext
  <2>1. calls' = calls
    BY <1>3, WriterKeeps
  <2>2. CASE log' = log
    BY <2>1, <2>2 DEF LoggedInv
  <2>3. ASSUME NEW m \in pending, log' = Append(log, m) PROVE LoggedInv'
    <3>1. m[2] <= calls[m[1]]
      BY DEF SInv, WInv, FlightInv, Pushed
    <3>2. /\ Len(log') = Len(log) + 1 /\ Len(log) \in Nat
          /\ \A i \in 1..Len(log) : log'[i] = log[i]
          /\ log'[Len(log) + 1] = m
      BY <1>0, <2>3
    <3>3. \A i \in 1..Len(log') : i \in 1..Len(log) \/ i = Len(log) + 1
      BY <3>2
    <3> QED  BY <2>1, <3>1, <3>2, <3>3 DEF LoggedInv
  <2> QED  BY <1>3, <2>2, <2>3, LogStep
<1>4. CASE MessageNext \/ UNCHANGED <<vars, serverVars>>
  <2>1. log' = log /\ calls' = calls
    BY <1>4 DEF MessageNext, vars
  <2> QED  BY <2>1 DEF LoggedInv
<1> QED  BY <1>2, <1>3, <1>4 DEF ServerNext

\* The topics know the same users and rights as the server.
LEMMA SameRights ==
  ASSUME NEW user
  PROVE  (Topic!MayPublish(user) <=> MayPublish(user)) /\ Topic!Users = Users
<1>1. Topic!GetRights(user) = GetRights(user)
  BY DEF Topic!GetRights, GetRights, Topic!NewUsers, NewUsers,
         Topic!Everything, Everything, Topic!Group, Group
<1>2. Topic!PublisherGroup = PublisherGroup /\ Topic!Everything = Everything
  BY DEF Topic!PublisherGroup, PublisherGroup, Topic!Everything, Everything,
         Topic!Group, Group
<1>3. \A group, rights :
        Topic!IsAllowed(group, rights) <=> IsAllowed(group, rights)
  BY <1>2 DEF Topic!IsAllowed, IsAllowed, Topic!isItemAvailable,
              isItemAvailable
<1>4. Topic!Users = Users
  BY DEF Topic!Users, Users
<1> QED  BY <1>1, <1>2, <1>3, <1>4 DEF Topic!MayPublish, MayPublish

\* A step of the server adds to one of the topics as the publisher expects, or
\* to none.
LEMMA TopicStep ==
  ASSUME SInv, LoggedInv, [ServerNext]_<<vars, serverVars>>
  PROVE  [Topic!Next]_<<TopicPosts, TopicAuthors, TopicSent>>
<1>0. /\ log \in Seq(Message) /\ Len(log) \in Nat
      /\ calls \in [Callers -> 0..MaxCall] /\ pending \subseteq Message
      /\ declared \in [Message -> Declaration]
  BY DEF SInv, WInv, TypeOK, TopicTypes
<1>1. ASSUME NEW c \in Callers, NEW token, NEW request,
             AddVocal(c, token, request)
      PROVE  UNCHANGED <<TopicPosts, TopicAuthors, TopicSent>>
  <2>1. \E d : declared' = [declared EXCEPT ![<<c, calls[c] + 1>>] = d]
    BY <1>1 DEF AddVocal
  <2>2. chunks' = chunks /\ log' = log
    BY <1>1 DEF AddVocal, Call
  <2>3. \A i \in 1..Len(log) : log[i] \in Message /\ log[i] # <<c, calls[c] + 1>>
    BY <1>0 DEF LoggedInv
  <2>4. \A i \in 1..Len(log) : declared'[log[i]] = declared[log[i]]
    BY <1>0, <2>1, <2>3
  <2> QED  BY <2>2, <2>4 DEF TopicPosts, TopicAuthors, TopicSent
<1>2. ASSUME NEW token, NEW length, NEW a,
             WriteMessageChunk(token, length, a), UNCHANGED <<vars, declared>>
      PROVE  Topic!Next
  <2> DEFINE new == [post |-> ParsedPost(a).value,
                     id |-> ParsedMessage(a).value,
                     author |-> RequestUser(token)]
             chunk == [post |-> ParsedPost(a).value,
                       id |-> ParsedMessage(a).value,
                       author |-> RequestUser(token), call |-> a.call]
             Sent(k) == [post |-> k.post, id |-> k.id, author |-> k.author]
  <2>1. /\ MayPublish(new.author) /\ log' = log /\ declared' = declared
        /\ chunks' = chunks \union {chunk}
    BY <1>2 DEF WriteMessageChunk, vars
  <2>2. TopicPosts' = TopicPosts /\ TopicAuthors' = TopicAuthors
    BY <2>1 DEF TopicPosts, TopicAuthors
  <2>3. TopicSent' = TopicSent \union {new}
    <3>1. Sent(chunk) = new
      OBVIOUS
    <3>2. /\ TopicSent = {Sent(k) : k \in chunks}
          /\ TopicSent' = {Sent(k) : k \in chunks'}
      BY DEF TopicSent
    <3> HIDE DEF chunk, Sent, new
    <3> QED  BY <2>1, <3>1, <3>2
  <2> HIDE DEF new
  <2>4. PICK sent : sent = new
    OBVIOUS
  <2>5. Topic!Send(sent)
    BY <2>1, <2>2, <2>3, <2>4, SameRights
       DEF Topic!Send, TopicSent, TopicPosts, TopicAuthors
  <2>6. sent \in TopicSent'
    BY <2>3, <2>4
  <2> QED  BY <2>5, <2>6 DEF Topic!Next, TopicSent
<1>3. ASSUME WriterNext, UNCHANGED serverVars
      PROVE  Topic!Next \/ UNCHANGED <<TopicPosts, TopicAuthors, TopicSent>>
  <2>1. declared' = declared /\ chunks' = chunks
    BY <1>3 DEF serverVars
  <2>2. CASE log' = log
    BY <2>1, <2>2 DEF TopicPosts, TopicAuthors, TopicSent
  <2>3. ASSUME NEW m \in pending, log' = Append(log, m) PROVE Topic!Next
    <3>1. m \in Message /\ declared[m].author = "root"
      BY <1>0 DEF SInv, WInv, FlightInv, Pushed, CallInv
    <3>2. /\ Len(log') = Len(log) + 1
          /\ \A i \in 1..Len(log) : log'[i] = log[i]
          /\ log'[Len(log) + 1] = m
      BY <1>0, <2>3
    <3>3. /\ Len(TopicPosts') = Len(TopicPosts) + 1
          /\ \A i \in 1..Len(TopicPosts) : TopicPosts'[i] = TopicPosts[i]
          /\ TopicSent' = TopicSent
      BY <1>0, <2>1, <3>2 DEF TopicPosts, TopicSent
    <3>4. TopicAuthors' = Append(TopicAuthors, "root")
      BY <1>0, <2>1, <3>1, <3>2 DEF TopicAuthors
    <3>5. "root" \in Users /\ RequestUser("root") = "root"
      BY DEF Users, RequestUser
    <3>6. Topic!MayPublish("root")
      BY <3>5, OnlyRoot, SameRights
    <3>7. Topic!Accept("root")
      BY <3>3, <3>4, <3>6 DEF Topic!Accept, TopicPosts, TopicAuthors, TopicSent
    <3> QED  BY <3>5, <3>7, SameRights DEF Topic!Next
  <2> QED  BY <1>3, <2>2, <2>3, LogStep
<1>4. CASE UNCHANGED <<pc, calls, pending, results, log, returned, shared,
                       producer, serverVars>>
  BY <1>4 DEF serverVars, TopicPosts, TopicAuthors, TopicSent
<1>5. CASE UNCHANGED <<vars, serverVars>>
  BY <1>5 DEF vars, serverVars, TopicPosts, TopicAuthors, TopicSent
<1>6. CASE MessageNext
  <2>1. PICK a, token :
          \/ /\ \E length \in Lengths : WriteMessageChunk(token, length, a)
             /\ UNCHANGED <<vars, declared>>
          \/ UNCHANGED <<pc, calls, pending, results, log, returned, shared,
                         producer, serverVars>>
    BY <1>6 DEF MessageNext
  <2> QED  BY <1>2, <1>4, <2>1
<1> QED  BY <1>1, <1>3, <1>5, <1>6
         DEF ServerNext, AddNext, TopicPosts, TopicAuthors, TopicSent

\* The topics get only what the publisher is modelled with: declarations and
\* chunks of users who may publish, one at a time and for good, for any number
\* of clients, whatever ids they send and however wide ids are (accesspoint/lib,
\* au10/publisher.go).
THEOREM TopicsImplemented == ServerSpec => ImplementsTopics
<1>1. ServerInit => LoggedInv
  BY DEF ServerInit, Init, LoggedInv
<1>2. SInv /\ LoggedInv /\ [ServerNext]_<<vars, serverVars>> => LoggedInv'
  BY LoggedStep
<1>3. ServerInit => Topic!Init
  BY DEF ServerInit, Init, Topic!Init
<1> QED  BY <1>1, <1>2, <1>3, TopicStep, ServerInitInv, ServerStep, PTL
         DEF ServerSpec, ImplementsTopics, Topic!Spec, TopicPosts, TopicAuthors,
             TopicSent
=============================================================================
