----------------------------- MODULE PostStore ------------------------------
(***************************************************************************)
(* What publisher/main.go promises of posts: an accepted post is stored at *)
(* most once, under the offset of its declaration, and one without         *)
(* messages is notified at most once, after it has been stored.            *)
(***************************************************************************)
EXTENDS Naturals, Sequences

CONSTANT MaxDecl  \* bound: messages a declaration has

VARIABLES
  posts,    \* accepted declarations: how many messages each post has
  stored,   \* the stored posts
  notified  \* the notifications, in order

Init == posts = <<>> /\ stored = {} /\ notified = <<>>

Accept(n) ==
  /\ posts' = Append(posts, n)
  /\ UNCHANGED <<stored, notified>>

Store(p) ==
  /\ p \notin stored
  /\ stored' = stored \union {p}
  /\ UNCHANGED <<posts, notified>>

Notify(p) ==
  /\ p \in stored /\ posts[p + 1] = 0
  /\ \A i \in 1..Len(notified) : notified[i] # p
  /\ notified' = Append(notified, p)
  /\ UNCHANGED <<posts, stored>>

Next ==
  \/ \E n \in 0..MaxDecl : Accept(n)
  \/ \E p \in 0..(Len(posts) - 1) : Store(p) \/ Notify(p)

Spec == Init /\ [][Next]_<<posts, stored, notified>>
=============================================================================
