------------------------------- MODULE Topics --------------------------------
(***************************************************************************)
(* What the access points write to the two topics of au10/publisher.go and *)
(* the publisher may rely on when it reads them.                           *)
(***************************************************************************)
EXTENDS Naturals, Sequences, Access

VARIABLES
  posts,    \* the topic of declarations: how many messages each post has
  authors,  \* and who declared it
  sent      \* what has been sent to the topic of chunks: [post, id, author]

Init == posts = <<>> /\ authors = <<>> /\ sent = {}

Accept(user) ==
  /\ MayPublish(user)
  /\ Len(posts') = Len(posts) + 1
  /\ \A i \in 1..Len(posts) : posts'[i] = posts[i]
  /\ authors' = Append(authors, user)
  /\ UNCHANGED sent

\* A chunk is sent for any post, whether or not it is declared.
Send(c) ==
  /\ MayPublish(c.author)
  /\ sent' = sent \union {c}
  /\ UNCHANGED <<posts, authors>>

Next ==
  \/ \E user \in Users : Accept(user)
  \/ \E c \in sent' : Send(c)

Spec == Init /\ [][Next]_<<posts, authors, sent>>
=============================================================================
