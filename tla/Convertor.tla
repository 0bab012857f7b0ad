----------------------------- MODULE Convertor ------------------------------
(***************************************************************************)
(* accesspoint/lib/convertor.go: how requests and answers are converted,   *)
(* and newNewVocal of au10/post.go, which is between the two.              *)
(*                                                                         *)
(* A conversion has a result and the error, if any, of the conversions     *)
(* before it: the first error is kept.  A text is a number in decimal      *)
(* digits, however many zeros it starts with, or something else.  Times    *)
(* and locations, which are copied field by field, are left out.           *)
(***************************************************************************)
EXTENDS Naturals, Sequences

CONSTANT IdRange  \* how many values an id has: 2^32 in the code

NoError == "none"
First(err, next) == IF err = NoError THEN next ELSE err
Converted(value, err) == [value |-> value, err |-> err]

Decimal(n) == <<"decimal", n>>
OtherText == <<"text", 0>>
Texts == {OtherText} \union ({"decimal"} \X Nat)

\* strconv.ParseUint: what is out of range becomes the largest id.
idFromProto(text, err) ==
  CASE text[1] # "decimal" -> Converted(0, First(err, "syntax"))
    [] text[1] = "decimal" /\ text[2] < IdRange -> Converted(text[2], err)
    [] OTHER -> Converted(IdRange - 1, First(err, "range"))

idToProto(id) == Decimal(id)

PostIDFromProto(text, err) == idFromProto(text, err)
MessageIDFromProto(text, err) == idFromProto(text, err)

\* Kinds in the protocol, where clients may send any number, and inside.
ProtoText == "TEXT"
MessageKindText == 0

MessageKindFromProto(kind, err) ==
  Converted(MessageKindText,
            IF kind = ProtoText THEN err ELSE First(err, "kind"))

MessageKindToProto(kind, err) ==
  Converted(ProtoText,
            IF kind = MessageKindText THEN err ELSE First(err, "kind"))

\* A declaration of messages: stops at the first error, with nothing.
MessagesDeclarationFromProto(source, err) ==
  IF \A i \in DOMAIN source :
       MessageKindFromProto(source[i].kind, err).err = NoError
  THEN Converted([i \in DOMAIN source |->
                 [kind |-> MessageKindFromProto(source[i].kind, err).value,
                  size |-> source[i].size]],
              err)
  ELSE Converted(<<>>, First(err, "kind"))

VocalDeclarationFromProto(source, user, err) ==
  LET messages == MessagesDeclarationFromProto(source, err) IN
  Converted([author |-> user, messages |-> messages.value], messages.err)

\* Mutant: messages are numbered from 1.
newNewVocalFromOne(id, decl) ==
  [id |-> id, author |-> decl.author,
   messages |-> [i \in DOMAIN decl.messages |->
                   [id |-> i, kind |-> decl.messages[i].kind,
                    size |-> decl.messages[i].size]]]

\* Messages are numbered from 0 in the order of the declaration.
newNewVocal(id, decl) ==
  [id |-> id, author |-> decl.author,
   messages |-> [i \in DOMAIN decl.messages |->
                   [id |-> i - 1, kind |-> decl.messages[i].kind,
                    size |-> decl.messages[i].size]]]

MessageToProto(message) ==
  [id |-> idToProto(message.id),
   kind |-> MessageKindToProto(message.kind, NoError).value,
   size |-> message.size]

\* All messages are converted, whatever fails.
VocalToProto(vocal, err) ==
  LET messages == vocal.messages IN
  Converted([id |-> idToProto(vocal.id),
          messages |-> [i \in DOMAIN messages |-> MessageToProto(messages[i])]],
         IF \E i \in DOMAIN messages : messages[i].kind # MessageKindText
         THEN First(err, "kind") ELSE err)

-----------------------------------------------------------------------------
Declarations == Seq([kind : {ProtoText, "other"}, size : Nat])

\* The id a client is given is the one the server reads back from it
\* (convertor.go: idToProto, idFromProto).
THEOREM IdRoundTrip ==
  ASSUME NEW id \in 0..(IdRange - 1), IdRange \in Nat, NEW err
  PROVE  idFromProto(idToProto(id), err) = Converted(id, err)
  BY DEF idFromProto, idToProto, Decimal, Converted

\* An id that is accepted fits its width, and is the one in the text: nothing
\* is cut off (convertor.go: idFromProto).
THEOREM IdAccepted ==
  ASSUME NEW text \in Texts, IdRange \in Nat \ {0},
         idFromProto(text, NoError).err = NoError
  PROVE  /\ idFromProto(text, NoError).value \in 0..(IdRange - 1)
         /\ text = idToProto(idFromProto(text, NoError).value)
<1>1. "decimal" # "text" /\ "syntax" # "none" /\ "range" # "none"
  OBVIOUS
<1>2. text # OtherText
  BY <1>1 DEF idFromProto, OtherText, Converted, First, NoError
<1>3. PICK n \in Nat : text = Decimal(n)
  BY <1>2 DEF Texts, Decimal
<1>4. n < IdRange
  BY <1>1, <1>3 DEF idFromProto, Decimal, Converted, First, NoError
<1>5. idFromProto(text, NoError) = Converted(n, NoError)
  BY <1>3, <1>4 DEF idFromProto, Decimal
<1> QED  BY <1>3, <1>4, <1>5 DEF Converted, idToProto

\* An error is never lost to a later conversion or replaced by its error.
THEOREM FirstErrorKept ==
  ASSUME NEW err, err # NoError, NEW text, NEW source, NEW user, NEW vocal
  PROVE  /\ idFromProto(text, err).err = err
         /\ VocalDeclarationFromProto(source, user, err).err = err
         /\ VocalToProto(vocal, err).err = err
<1>1. idFromProto(text, err).err = err
  BY DEF idFromProto, Converted, First
<1>2. MessagesDeclarationFromProto(source, err).err = err
  BY DEF MessagesDeclarationFromProto, Converted, First
<1> QED
  BY <1>1, <1>2 DEF VocalDeclarationFromProto, VocalToProto, Converted, First

\* A vocal that was accepted can always be answered: once its declaration has
\* been converted, so can the vocal made of it, and the messages in the answer
\* are those in the request, with ids that are read back as their numbers.  So
\* AddVocal never answers that a vocal it has published failed to convert
\* (client.go: AddVocal).
THEOREM AnswerConverts ==
  ASSUME NEW source \in Declarations, NEW user, NEW id,
         VocalDeclarationFromProto(source, user, NoError).err = NoError
  PROVE  LET decl == VocalDeclarationFromProto(source, user, NoError).value
             answer == VocalToProto(newNewVocal(id, decl), NoError)
         IN  /\ answer.err = NoError
             /\ DOMAIN answer.value.messages = DOMAIN source
             /\ \A i \in DOMAIN source :
                  answer.value.messages[i] = [id |-> idToProto(i - 1),
                                              kind |-> source[i].kind,
                                              size |-> source[i].size]
<1> DEFINE M == MessagesDeclarationFromProto(source, NoError)
           decl == VocalDeclarationFromProto(source, user, NoError).value
           vocal == newNewVocal(id, decl)
           answer == VocalToProto(vocal, NoError)
<1>1. \A i \in DOMAIN source : source[i].kind = ProtoText
  BY DEF VocalDeclarationFromProto, MessagesDeclarationFromProto,
         MessageKindFromProto, Converted, First, NoError
<1>2. decl.messages = [i \in DOMAIN source |->
                         [kind |-> MessageKindText, size |-> source[i].size]]
  BY <1>1 DEF VocalDeclarationFromProto, MessagesDeclarationFromProto,
              MessageKindFromProto, Converted
<1>3. vocal.messages = [i \in DOMAIN source |->
                          [id |-> i - 1, kind |-> MessageKindText,
                           size |-> source[i].size]]
  BY <1>2 DEF newNewVocal
<1> HIDE DEF vocal
<1>4. answer.err = NoError
  <2>1. \A i \in DOMAIN vocal.messages :
          vocal.messages[i].kind = MessageKindText
    BY <1>3
  <2> QED  BY <2>1 DEF VocalToProto, Converted
<1>5. answer.value.messages = [i \in DOMAIN source |->
                                 MessageToProto(vocal.messages[i])]
  BY <1>3 DEF VocalToProto, Converted
<1>6. \A i \in DOMAIN source :
        MessageToProto(vocal.messages[i]) = [id |-> idToProto(i - 1),
                                             kind |-> source[i].kind,
                                             size |-> source[i].size]
  BY <1>1, <1>3 DEF MessageToProto, MessageKindToProto, Converted
<1>7. DOMAIN answer.value.messages = DOMAIN source
  BY <1>5
<1>8. \A i \in DOMAIN source :
        answer.value.messages[i] = [id |-> idToProto(i - 1),
                                    kind |-> source[i].kind,
                                    size |-> source[i].size]
  BY <1>5, <1>6
<1> HIDE DEF answer
<1> SUFFICES /\ answer.err = NoError
             /\ DOMAIN answer.value.messages = DOMAIN source
             /\ \A i \in DOMAIN source :
                  answer.value.messages[i] = [id |-> idToProto(i - 1),
                                              kind |-> source[i].kind,
                                              size |-> source[i].size]
  BY DEF answer, vocal
<1> QED  BY <1>4, <1>7, <1>8
=============================================================================
