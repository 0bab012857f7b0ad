------------------------------- MODULE Access -------------------------------
(***************************************************************************)
(* Who may do what: the groups of au10/group.go, the users of              *)
(* au10/users.go, and how the access point finds the user of a request and *)
(* checks his rights.  A user is named by his login, a token is the login  *)
(* in it.                                                                  *)
(***************************************************************************)

Group(domain, name) == [domain |-> domain, name |-> name]

Everything == Group("*", "*")

isItemAvailable(membership, rights) ==
  membership = "*" \/ rights = "*" \/ membership = rights

IsAllowed(group, rights) ==
  \/ group = Everything
  \/ \E r \in rights : /\ isItemAvailable(group.name, r.name)
                       /\ isItemAvailable(group.domain, r.domain)

Users == {"root", "domain_root", "domain_admin", "user1", "user2"}

DefaultUser == ""

\* Who was given which rights.
NewUsers ==
  {<<"root", Everything>>, <<"domain_root", Group("x-company", "*")>>,
   <<"domain_admin", Group("x-company", "users")>>,
   <<"domain_admin", Group("x-company", "admins")>>,
   <<"user1", Group("x-company", "users")>>,
   <<"user2", Group("x-company", "users")>>}

GetRights(user) ==
  {n[2] : n \in {given \in NewUsers : given[1] = user}}

\* The groups of what the checks are about.
LogGroup == Group("", "")
LogReaderGroup == Group("", "")
PostsGroup == Group("", "")
PublisherGroup == Group("", "")
VocalGroup == Group("", "")

\* The user of a request: of the session its token names, or the default one.
RequestUser(token) == IF token \in Users THEN token ELSE DefaultUser

MayReadLog(user) == IsAllowed(LogReaderGroup, GetRights(user))
MayReadPosts(user) == IsAllowed(PostsGroup, GetRights(user))

\* Mutant: the rights are not checked.
MayPublishAlways(user) == TRUE

MayPublish(user) == IsAllowed(PublisherGroup, GetRights(user))

\* What the publisher asks again of the author of a chunk.
MayAppend(user) ==
  /\ user \in Users
  /\ IsAllowed(PostsGroup, GetRights(user))
  /\ IsAllowed(VocalGroup, GetRights(user))

\* The methods of the access point a user may call, as it tells him.
GetAllowedMethods(user) ==
  [ReadLog |-> IsAllowed(LogGroup, GetRights(user)),
   ReadPosts |-> IsAllowed(PostsGroup, GetRights(user)),
   AddVocal |-> IsAllowed(PublisherGroup, GetRights(user))]

\* Auth, called by a user: the client of the request becomes the one who logs
\* in, if there is such a login, and the answer lists his methods.
Auth(login, user) ==
  IF login \in Users
  THEN [isSuccess |-> TRUE, token |-> login,
        allowedMethods |-> GetAllowedMethods(login)]
  ELSE [isSuccess |-> FALSE, token |-> DefaultUser,
        allowedMethods |-> GetAllowedMethods(user)]

-----------------------------------------------------------------------------
\* More rights never take a permission away (group.go: IsAllowed returns at
\* the first of them that fits).
THEOREM RightsAccumulate ==
  ASSUME NEW group, NEW rights, NEW more
  PROVE  IsAllowed(group, rights) => IsAllowed(group, rights \union more)
  BY DEF IsAllowed

\* All the rights of a user being to one domain, he gets at nothing of another
\* one, wherever a group says which domain it is of (group.go: IsAllowed).
THEOREM DomainsSeparate ==
  ASSUME NEW group, NEW rights, NEW domain, domain # "*",
         \A r \in rights : r.domain = domain,
         group.domain \notin {"*", domain}
  PROVE  ~IsAllowed(group, rights)
  BY DEF IsAllowed, isItemAvailable, Everything, Group

\* The methods the answer to Auth lists as allowed are those the access point
\* then allows, though ReadLog is listed by the rights to the log and checked
\* by those to its reader (client.go: GetAllowedMethods, ReadLog).
THEOREM MethodsAsListed ==
  ASSUME NEW user
  PROVE  GetAllowedMethods(user) = [ReadLog |-> MayReadLog(user),
                                    ReadPosts |-> MayReadPosts(user),
                                    AddVocal |-> MayPublish(user)]
  BY DEF GetAllowedMethods, MayReadLog, MayReadPosts, MayPublish,
         LogGroup, LogReaderGroup

\* The methods Auth lists are those the access point allows in later requests
\* with the token to use from then on: the one it sends, or, when the login is
\* wrong, the one the client had (service.go: Auth, newRequestClient).
THEOREM AuthAsListed ==
  ASSUME NEW login, NEW token
  PROVE  LET answer == Auth(login, RequestUser(token))
             next == IF answer.isSuccess THEN answer.token ELSE token
         IN  /\ answer.isSuccess <=> login \in Users
             /\ answer.allowedMethods = GetAllowedMethods(RequestUser(next))
  BY DEF Auth, RequestUser

\* Of the users there are only root has any rights: neither the others nor a
\* request without a session may read or publish (users.go: NewUsers).
THEOREM OnlyRoot ==
  ASSUME NEW token
  PROVE  /\ MayPublish(RequestUser(token)) <=> token = "root"
         /\ MayReadPosts(RequestUser(token)) <=> token = "root"
         /\ MayReadLog(RequestUser(token)) <=> token = "root"
<1> DEFINE G == Group("", "")
           u == RequestUser(token)
<1>1. ASSUME NEW rights, Everything \in rights
      PROVE  IsAllowed(G, rights)
  BY <1>1 DEF IsAllowed, isItemAvailable, Everything, Group
<1>2. ASSUME NEW rights, \A r \in rights : r.domain = "x-company"
      PROVE  ~IsAllowed(G, rights)
  BY <1>2, DomainsSeparate DEF Group
<1>3. token = "root" => Everything \in GetRights(u)
  <2>1. <<"root", Everything>> \in {given \in NewUsers : given[1] = "root"}
    BY DEF NewUsers
  <2>2. Everything \in GetRights("root")
    BY <2>1 DEF GetRights
  <2> QED  BY <2>2 DEF RequestUser, Users
<1>4. token # "root" => \A r \in GetRights(u) : r.domain = "x-company"
  <2>1. token # "root" => u # "root"
    BY DEF RequestUser, DefaultUser
  <2>2. u # "root" => \A r \in GetRights(u) : r.domain = "x-company"
    BY DEF GetRights, NewUsers, Everything, Group
  <2> QED  BY <2>1, <2>2
<1>5. IsAllowed(G, GetRights(u)) <=> token = "root"
  BY <1>1, <1>2, <1>3, <1>4
<1> QED
  BY <1>5 DEF MayPublish, MayReadPosts, MayReadLog, PublisherGroup, PostsGroup,
              LogReaderGroup

\* What a user may publish the publisher accepts: it never refuses a chunk of
\* the access point for its author (publisher/main.go: checkMessage).
THEOREM AuthorsAccepted ==
  ASSUME NEW token, MayPublish(RequestUser(token))
  PROVE  MayAppend(RequestUser(token))
<1>1. token = "root" /\ RequestUser(token) = "root"
  BY OnlyRoot DEF RequestUser, Users
<1>2. MayReadPosts("root")
  BY <1>1, OnlyRoot
<1> QED
  BY <1>1, <1>2 DEF MayAppend, MayReadPosts, PostsGroup, VocalGroup, Users
=============================================================================
