-------------------------- MODULE HttpServerProofs --------------------------
(***************************************************************************)
(* Theorems about HttpServer, for any tasks, names and connections.  The    *)
(* handlers and the manager change different variables, so that each has an *)
(* invariant of its own:                                                   *)
(*   FormInv     what a handler carries from one query to the next          *)
(*   TokenInv    the table of tokens and those that are on their way to it  *)
(*   UserInv     the table of users and what register found in it           *)
(*   HoldInv     who has a token, is about to get one, or is excused         *)
(*   ClientInv   which clients exist, and which of them are cached          *)
(*   MadeInv     what the cache contained when a client was ordered         *)
(*   PickedInv   the clients that queries wait for exist                     *)
(*   PoolInv     which pools are open                                       *)
(***************************************************************************)
EXTENDS HttpServer, TLAPS

Fields == [kind : {"register", "login", "logout"}, name : Usernames \cup {None},
           email : Emails \cup {None}]

FormInv ==
  /\ now \in 0..MaxTime /\ zone \in Zones
  /\ answer \in {200, 400, 401, 404, 500}
  /\ pc \in [Tasks -> {"idle", "exists", "create_user", "find", "count", "create_token",
                       "delete", "decode", "guard"}]
  /\ DOMAIN form = Tasks /\ DOMAIN memo = Tasks
  /\ \A t \in Tasks :
       /\ pc[t] \in {"exists", "create_user", "find"} => form[t] \in Fields
       /\ pc[t] \in {"exists", "create_user"} =>
            form[t].kind = "register" /\ form[t].email \in Emails
       /\ pc[t] = "guard" => memo[t] \in 0..now

\* What a handler carries to the queries about tokens.
Carries(t) ==
  /\ pc[t] = "delete" => memo[t] \in DOMAIN users
  /\ pc[t] = "count" =>
       /\ memo[t].user \in DOMAIN users
       /\ memo[t].until \in Int /\ memo[t].until <= now + Lifetime
  /\ pc[t] = "create_token" =>
       /\ memo[t].user \in DOMAIN users
       /\ memo[t].until \in Int /\ memo[t].expires \in Int /\ memo[t].until <= memo[t].expires

TokenInv ==
  /\ IsABag(tokens)
  /\ \A r \in DOMAIN tokens :
       r.user \in DOMAIN users /\ r.until \in Int /\ r.expires \in Int /\ r.until <= r.expires
  /\ \A t \in Tasks : Carries(t)

User == [name : Usernames, email : Emails, saw : Nat]

\* None of the users whom register has looked at has the address that it is to enter.
UserInv ==
  /\ users \in Seq(User)
  /\ \A i, j \in 1..Len(users) : i < j /\ users[i].email = users[j].email => users[j].saw < i
  /\ \A t \in Tasks : pc[t] = "create_user" =>
       /\ memo[t] \in 0..Len(users)
       /\ \A i \in 1..memo[t] : users[i].email # form[t].email

HoldInv == excused \subseteq DOMAIN users /\ TokenlessOnlyByFailure

AuthInv == FormInv /\ TokenInv /\ UserInv /\ HoldInv

AuthNext ==
  \/ Tick
  \/ \E t \in Tasks : Arrives(t) \/ Queried(t) \/ Decode(t) \/ QueryFails(t)

LEMMA AuthPart == ASSUME [HttpNext]_httpVars PROVE [AuthNext]_auth
  BY DEF HttpNext, httpVars, Clock, Arrival, Opens, Query, NoQuery, ManagerCall, ManagerGoesOn,
         AuthNext

-----------------------------------------------------------------------------
(* Handlers.                                                               *)

LEMMA FormStep == ASSUME FormInv, [AuthNext]_auth PROVE FormInv'
<1> USE AuthAssumption DEF FormInv, Answer, GoOn, Request, Fields
<1>1. CASE UNCHANGED auth
  BY <1>1 DEF auth
<1>2. CASE Tick
  BY <1>2 DEF Tick
<1>3. ASSUME NEW t \in Tasks, Arrives(t) PROVE FormInv'
  <2>1. ASSUME NEW email \in Emails, NEW name \in Usernames \cup {None},
               RegisterRequest(t, name, email)
        PROVE  FormInv'
    BY <2>1 DEF RegisterRequest
  <2>2. ASSUME NEW kind \in {"login", "logout"}, NEW name \in Usernames \cup {None},
               NEW email \in Emails \cup {None}, LoginRequest(t, kind, name, email)
        PROVE  FormInv'
    BY <2>2 DEF LoginRequest
  <2>3. ASSUME NEW r \in DOMAIN tokens, GuardedRequest(t, Credentials(r)) PROVE FormInv'
    BY <2>3 DEF GuardedRequest
  <2> QED BY <1>3, <2>1, <2>2, <2>3 DEF Arrives
<1>4. ASSUME NEW t \in Tasks, Exists(t) PROVE FormInv'
  BY <1>4 DEF Exists
<1>5. ASSUME NEW t \in Tasks, CreateUser(t) PROVE FormInv'
  BY <1>5 DEF CreateUser
<1>6. ASSUME NEW t \in Tasks, Count(t) PROVE FormInv'
  BY <1>6 DEF Count
<1>7. ASSUME NEW t \in Tasks, CreateToken(t) PROVE FormInv'
  BY <1>7 DEF CreateToken
<1>8. ASSUME NEW t \in Tasks, Delete(t) PROVE FormInv'
  BY <1>8 DEF Delete
<1>9. ASSUME NEW t \in Tasks, Guard(t) PROVE FormInv'
  BY <1>9 DEF Guard
<1>10. ASSUME NEW t \in Tasks, NEW rightPassword \in BOOLEAN, Find(t, rightPassword) PROVE FormInv'
  BY <1>10 DEF Find
<1>11. ASSUME NEW t \in Tasks, Decode(t) PROVE FormInv'
  BY <1>11 DEF Decode
<1>12. ASSUME NEW t \in Tasks, QueryFails(t) PROVE FormInv'
  BY <1>12 DEF QueryFails
<1> QED
  BY <1>1, <1>2, <1>3, <1>4, <1>5, <1>6, <1>7, <1>8, <1>9, <1>10, <1>11, <1>12
  DEF AuthNext, Queried

LEMMA ArrivesRequest ==
  ASSUME NEW t \in Tasks, Arrives(t)
  PROVE  \E query, content : query \in {"exists", "find", "decode"} /\ Request(t, query, content)
<1>1. CASE \E content : Request(t, "exists", content)
  BY <1>1
<1>2. CASE \E content : Request(t, "find", content)
  BY <1>2
<1>3. CASE \E content : Request(t, "decode", content)
  BY <1>3
<1> QED
  BY <1>1, <1>2, <1>3 DEF Arrives, RegisterRequest, LoginRequest, GuardedRequest

\* What (+) and SetToBag do to a bag when a row is added.
LEMMA AddRow ==
  ASSUME NEW B, IsABag(B), NEW r
  PROVE  IsABag(B (+) SetToBag({r})) /\ DOMAIN (B (+) SetToBag({r})) = DOMAIN B \cup {r}
  BY DEF IsABag, SetToBag, (+)

\* A step that leaves the rows alone.
LEMMA TokenSame ==
  ASSUME FormInv, TokenInv, UNCHANGED tokens, DOMAIN users \subseteq DOMAIN users',
         now' \in Nat, now <= now',
         \A t \in Tasks : (pc'[t] = pc[t] /\ memo'[t] = memo[t]) \/ Carries(t)'
  PROVE  TokenInv'
<1>1. ASSUME NEW t \in Tasks, pc'[t] = pc[t], memo'[t] = memo[t] PROVE Carries(t)'
  <2>1. now \in Int /\ now' \in Int /\ Lifetime \in Int /\ Carries(t)
    BY AuthAssumption DEF FormInv, TokenInv
  <2> QED BY <1>1, <2>1 DEF Carries
<1> QED BY <1>1 DEF TokenInv

\* A step that leaves rows, users and time alone, and after which its handler waits for nothing
\* or for a query that is not about tokens.
LEMMA OtherQuery ==
  ASSUME FormInv, TokenInv, UNCHANGED <<now, users, tokens>>,
         NEW t \in Tasks, NEW query, NEW content,
         query \notin {"delete", "count", "create_token"},
         pc' = [pc EXCEPT ![t] = query],
         memo' = memo \/ memo' = [memo EXCEPT ![t] = content]
  PROVE  TokenInv'
<1>1. now \in Nat
  BY AuthAssumption DEF FormInv
<1>2. \A s \in Tasks : (pc'[s] = pc[s] /\ memo'[s] = memo[s]) \/ Carries(s)'
  BY DEF FormInv, Carries
<1> QED BY <1>1, <1>2, TokenSame

LEMMA TokenStep == ASSUME FormInv, TokenInv, UserInv, [AuthNext]_auth PROVE TokenInv'
<1>1. /\ now \in Int /\ now \in Nat /\ Lifetime \in Int /\ now + Lifetime \in Int
      /\ DOMAIN pc = Tasks /\ DOMAIN memo = Tasks
  BY AuthAssumption DEF FormInv
<1>2. CASE UNCHANGED auth \/ Tick
  <2>1. UNCHANGED <<users, tokens, pc, memo>> /\ now' \in {now, now + 1}
    BY <1>2 DEF auth, Tick
  <2> QED BY <1>1, <2>1, TokenSame
<1>3. ASSUME NEW t \in Tasks, Arrives(t) PROVE TokenInv'
  <2>1. PICK query, content : query \in {"exists", "find", "decode"} /\ Request(t, query, content)
    BY <1>3, ArrivesRequest
  <2> QED BY <2>1, OtherQuery DEF Request
<1>4. ASSUME NEW t \in Tasks, Exists(t) PROVE TokenInv'
  BY <1>4, OtherQuery DEF Exists, Answer, GoOn
<1>5. ASSUME NEW t \in Tasks, CreateUser(t) PROVE TokenInv'
  <2>1. CASE UNCHANGED users /\ Answer(t, 500)
    <3>1. UNCHANGED <<now, tokens>>
      BY <1>5 DEF CreateUser
    <3> QED BY <2>1, <3>1, OtherQuery DEF Answer
  <2>2. CASE GoOn(t, "count", TokenFor(Len(users) + 1)) /\ \E user : users' = Append(users, user)
    <3>1. DOMAIN users \subseteq DOMAIN users' /\ Len(users) + 1 \in DOMAIN users'
      BY <2>2 DEF UserInv
    <3>2. UNCHANGED <<now, tokens>>
      BY <1>5 DEF CreateUser
    <3>3. /\ TokenFor(Len(users) + 1).user = Len(users) + 1
          /\ TokenFor(Len(users) + 1).until = now + Lifetime
      BY DEF TokenFor
    <3>4. Carries(t)'
      BY <1>1, <2>2, <3>1, <3>2, <3>3 DEF GoOn, Carries
    <3> QED BY <1>1, <2>2, <3>1, <3>2, <3>4, TokenSame DEF GoOn
  <2> QED BY <1>5, <2>1, <2>2 DEF CreateUser
<1>6. ASSUME NEW t \in Tasks, Count(t) PROVE TokenInv'
  <2>1. /\ UNCHANGED <<now, users, tokens>> /\ pc[t] = "count"
        /\ GoOn(t, "create_token", Row(memo[t].user, memo[t].until, now + Lifetime))
    BY <1>6 DEF Count
  <2>2. Carries(t)'
    BY <1>1, <2>1 DEF GoOn, Row, Carries, TokenInv
  <2> QED BY <1>1, <2>1, <2>2, TokenSame DEF GoOn
<1>7. ASSUME NEW t \in Tasks, CreateToken(t) PROVE TokenInv'
  <2>1. IsABag(tokens') /\ DOMAIN tokens' = DOMAIN tokens \cup {memo[t]}
    <3>1. tokens' = tokens (+) SetToBag({memo[t]}) /\ IsABag(tokens)
      BY <1>7 DEF CreateToken, TokenInv
    <3> QED BY ONLY <3>1, AddRow
  <2>2. pc[t] = "create_token" /\ Answer(t, 200) /\ UNCHANGED <<now, zone, users>>
    BY <1>7 DEF CreateToken
  <2>3. \A s \in Tasks : Carries(s)'
    BY <1>1, <2>2 DEF Answer, Carries, TokenInv
  <2> QED BY <2>1, <2>2, <2>3 DEF Carries, TokenInv
<1>8. ASSUME NEW t \in Tasks, Delete(t) PROVE TokenInv'
  <2>1. /\ UNCHANGED <<now, users>> /\ Answer(t, 200)
        /\ tokens' = [r \in {r \in DOMAIN tokens : r.user # memo[t]} |-> tokens[r]]
    BY <1>8 DEF Delete
  <2>2. \A s \in Tasks : Carries(s)'
    BY <1>1, <2>1 DEF Answer, Carries, TokenInv
  <2> QED BY <2>1, <2>2 DEF TokenInv, IsABag
<1>9. ASSUME NEW t \in Tasks, Guard(t) PROVE TokenInv'
  BY <1>9, OtherQuery DEF Guard, Answer
<1>10. ASSUME NEW t \in Tasks, NEW rightPassword \in BOOLEAN, Find(t, rightPassword)
       PROVE  TokenInv'
  <2>1. UNCHANGED <<now, users, tokens>>
    BY <1>10 DEF Find
  <2>2. CASE \E code : Answer(t, code)
    BY <2>1, <2>2, OtherQuery DEF Answer
  <2>3. CASE \E user \in Matches(form[t]) : GoOn(t, "delete", user)
    <3>1. Carries(t)'
      BY <1>1, <2>1, <2>3 DEF Matches, GoOn, Carries
    <3> QED BY <1>1, <2>1, <2>3, <3>1, TokenSame DEF GoOn
  <2>4. CASE \E user \in Matches(form[t]) : GoOn(t, "count", TokenFor(user))
    <3>1. PICK user \in Matches(form[t]) : GoOn(t, "count", TokenFor(user))
      BY <2>4
    <3>2. /\ TokenFor(user).user = user /\ TokenFor(user).until = now + Lifetime
          /\ user \in DOMAIN users
      BY DEF TokenFor, Matches
    <3>3. Carries(t)'
      BY <1>1, <2>1, <3>1, <3>2 DEF GoOn, Carries
    <3> QED BY <1>1, <2>1, <3>1, <3>3, TokenSame DEF GoOn
  <2> QED BY <1>10, <2>2, <2>3, <2>4 DEF Find
<1>11. ASSUME NEW t \in Tasks, Decode(t) PROVE TokenInv'
  BY <1>11, OtherQuery DEF Decode, Answer, GoOn
<1>12. ASSUME NEW t \in Tasks, QueryFails(t) PROVE TokenInv'
  BY <1>12, OtherQuery DEF QueryFails, Answer
<1> QED
  BY <1>2, <1>3, <1>4, <1>5, <1>6, <1>7, <1>8, <1>9, <1>10, <1>11, <1>12 DEF AuthNext, Queried

\* A step that leaves the users alone, and no handler before create_user that was not there.
LEMMA UserSame ==
  ASSUME UserInv, UNCHANGED users,
         \A t \in Tasks : pc'[t] = "create_user" =>
           pc[t] = "create_user" /\ memo'[t] = memo[t] /\ form'[t] = form[t]
  PROVE  UserInv'
  BY DEF UserInv

LEMMA UserStep == ASSUME FormInv, UserInv, [AuthNext]_auth PROVE UserInv'
<1> USE AuthAssumption DEF FormInv, Answer, GoOn, Request
<1>1. CASE UNCHANGED auth
  BY <1>1, UserSame DEF auth
<1>2. CASE Tick
  BY <1>2, UserSame DEF Tick
<1>3. ASSUME NEW t \in Tasks, Arrives(t) PROVE UserInv'
  <2>1. PICK query, content : query \in {"exists", "find", "decode"} /\ Request(t, query, content)
    BY <1>3, ArrivesRequest
  <2> QED BY <2>1, UserSame
<1>4. ASSUME NEW t \in Tasks, Exists(t) PROVE UserInv'
  <2>1. CASE \E code : Answer(t, code)
    BY <1>4, <2>1, UserSame DEF Exists
  <2>2. CASE /\ GoOn(t, "create_user", Len(users))
             /\ ~\E i \in DOMAIN users : Has(users[i].email, form[t].email)
    <3>1. form[t].email # None /\ Len(users) \in Nat /\ UNCHANGED <<users, form>>
      BY <1>4, <2>2 DEF UserInv, Exists
    <3>2. \A i \in 1..Len(users) : users[i].email # form[t].email
      BY <2>2, <3>1 DEF Has, UserInv
    <3> QED BY <2>2, <3>1, <3>2 DEF UserInv
  <2> QED BY <1>4, <2>1, <2>2 DEF Exists
<1>5. ASSUME NEW t \in Tasks, CreateUser(t) PROVE UserInv'
  <2> USE DEF UserInv
  <2>1. PICK name \in IF form[t].name = None THEN Usernames ELSE {form[t].name} :
          IF Insertable(name)
            THEN /\ users' = Append(users, [name  |-> name, email |-> form[t].email,
                                            saw   |-> memo[t]])
                 /\ GoOn(t, "count", TokenFor(Len(users) + 1))
            ELSE Answer(t, 500) /\ UNCHANGED users
    BY <1>5 DEF CreateUser
  <2>2. CASE ~Insertable(name)
    BY <2>1, <2>2, UserSame
  <2>3. CASE Insertable(name)
    <3> DEFINE user == [name |-> name, email |-> form[t].email, saw |-> memo[t]]
    <3>1. user \in User /\ users' = Append(users, user)
      BY <1>5, <2>1, <2>3 DEF CreateUser, User, Fields
    <3>2. /\ users' \in Seq(User) /\ Len(users') = Len(users) + 1
          /\ \A i \in 1..Len(users) : users'[i] = users[i]
          /\ users'[Len(users) + 1] = user
      BY <3>1
    <3>3. /\ user.name = name /\ user.email = form[t].email /\ user.saw = memo[t]
          /\ pc' = [pc EXCEPT ![t] = "count"] /\ form' = form
          /\ \A s \in Tasks \ {t} : memo'[s] = memo[s]
      BY <2>1, <2>3
    <3> HIDE DEF user
    <3>4. \A i, j \in 1..Len(users') :
            i < j /\ users'[i].email = users'[j].email => users'[j].saw < i
      <4>1. /\ Len(users) \in Nat /\ memo[t] \in 0..Len(users)
            /\ \A i \in 1..memo[t] : users[i].email # form[t].email
        BY <1>5 DEF CreateUser
      <4>2. ASSUME NEW i \in 1..Len(users), users[i].email = user.email PROVE user.saw < i
        BY <3>3, <4>1, <4>2
      <4>3. ASSUME NEW i \in 1..Len(users'), NEW j \in 1..Len(users'), i < j,
                   users'[i].email = users'[j].email
            PROVE  users'[j].saw < i
        <5>1. CASE j = Len(users) + 1
          BY <3>2, <4>1, <4>2, <4>3, <5>1
        <5>2. CASE j # Len(users) + 1
          <6>1. i \in 1..Len(users) /\ j \in 1..Len(users)
            BY <3>2, <4>1, <4>3, <5>2
          <6>2. users[i].email = users[j].email => users[j].saw < i
            BY <4>3, <6>1
          <6> QED BY <3>2, <4>3, <6>1, <6>2
        <5> QED BY <5>1, <5>2
      <4> QED BY <4>3
    <3>5. ASSUME NEW s \in Tasks, pc'[s] = "create_user"
          PROVE  /\ memo'[s] \in 0..Len(users')
                 /\ \A i \in 1..memo'[s] : users'[i].email # form'[s].email
      <4>1. s # t /\ pc[s] = "create_user" /\ memo'[s] = memo[s] /\ form' = form
        BY <3>3, <3>5
      <4>2. /\ Len(users) \in Nat /\ memo[s] \in 0..Len(users)
            /\ \A i \in 1..memo[s] : users[i].email # form[s].email
        BY <4>1
      <4> QED BY <3>2, <4>1, <4>2
    <3> HIDE DEF FormInv, Answer, GoOn, Request
    <3> QED BY <3>2, <3>4, <3>5
  <2> QED BY <2>2, <2>3
<1>6. ASSUME NEW t \in Tasks, Count(t) PROVE UserInv'
  BY <1>6, UserSame DEF Count
<1>7. ASSUME NEW t \in Tasks, CreateToken(t) PROVE UserInv'
  BY <1>7, UserSame DEF CreateToken
<1>8. ASSUME NEW t \in Tasks, Delete(t) PROVE UserInv'
  BY <1>8, UserSame DEF Delete
<1>9. ASSUME NEW t \in Tasks, Guard(t) PROVE UserInv'
  BY <1>9, UserSame DEF Guard
<1>10. ASSUME NEW t \in Tasks, NEW rightPassword \in BOOLEAN, Find(t, rightPassword)
       PROVE  UserInv'
  BY <1>10, UserSame DEF Find
<1>11. ASSUME NEW t \in Tasks, Decode(t) PROVE UserInv'
  BY <1>11, UserSame DEF Decode
<1>12. ASSUME NEW t \in Tasks, QueryFails(t) PROVE UserInv'
  BY <1>12, UserSame DEF QueryFails
<1> HIDE DEF FormInv, Answer, GoOn, Request
<1> QED
  BY <1>1, <1>2, <1>3, <1>4, <1>5, <1>6, <1>7, <1>8, <1>9, <1>10, <1>11, <1>12
  DEF AuthNext, Queried

\* A step of a handler that was not about to make a token for a user it has created.
LEMMA HoldSame ==
  ASSUME HoldInv, UNCHANGED <<users, excused>>, DOMAIN tokens \subseteq DOMAIN tokens',
         NEW t, pc[t] \notin {"count", "create_token"},
         \A s \in Tasks \ {t} : pc'[s] = pc[s] /\ form'[s] = form[s] /\ memo'[s] = memo[s]
  PROVE  HoldInv'
  BY DEF HoldInv, TokenlessOnlyByFailure, Registering

LEMMA HoldStep ==
  ASSUME FormInv, TokenInv, UserInv, HoldInv, [AuthNext]_auth PROVE HoldInv'
<1>1. DOMAIN pc = Tasks /\ DOMAIN memo = Tasks /\ DOMAIN form = Tasks
  BY DEF FormInv
<1>2. CASE UNCHANGED auth \/ Tick
  <2>1. UNCHANGED <<users, tokens, excused, pc, form, memo>>
    BY <1>2 DEF auth, Tick
  <2> QED BY <2>1 DEF HoldInv, TokenlessOnlyByFailure, Registering
<1>3. ASSUME NEW t \in Tasks, Arrives(t) PROVE HoldInv'
  <2>1. PICK query, content : query \in {"exists", "find", "decode"} /\ Request(t, query, content)
    BY <1>3, ArrivesRequest
  <2> QED BY <1>1, <2>1, HoldSame DEF Request
<1>4. ASSUME NEW t \in Tasks, Exists(t) PROVE HoldInv'
  BY <1>1, <1>4, HoldSame DEF Exists, Answer, GoOn
<1>5. ASSUME NEW t \in Tasks, CreateUser(t) PROVE HoldInv'
  <2>1. CASE UNCHANGED users /\ Answer(t, 500)
    BY <1>1, <1>5, <2>1, HoldSame DEF CreateUser, Answer
  <2>2. CASE GoOn(t, "count", TokenFor(Len(users) + 1)) /\ \E user : users' = Append(users, user)
    <3>1. PICK new : new = Len(users) + 1
      OBVIOUS
    <3>2. /\ DOMAIN users' = DOMAIN users \cup {new} /\ UNCHANGED <<tokens, excused>>
          /\ pc[t] = "create_user" /\ form' = form
      BY <1>5, <2>2, <3>1 DEF CreateUser, GoOn, UserInv
    <3>3. \A s \in Tasks \ {t} : pc'[s] = pc[s] /\ memo'[s] = memo[s]
      BY <1>1, <2>2 DEF GoOn
    <3>4. Registering(t, new)'
      <4>1. pc'[t] = "count" /\ memo'[t].user = new
        BY <1>1, <2>2, <3>1 DEF GoOn, TokenFor
      <4>2. form'[t].kind = "register"
        BY <3>2 DEF FormInv
      <4> QED BY <4>1, <4>2 DEF Registering
    <3>5. \A i : \A s \in Tasks : Registering(s, i) => Registering(s, i)'
      BY <3>2, <3>3 DEF Registering
    <3> QED BY <3>2, <3>4, <3>5 DEF HoldInv, TokenlessOnlyByFailure
  <2> QED BY <1>5, <2>1, <2>2 DEF CreateUser
<1>6. ASSUME NEW t \in Tasks, Count(t) PROVE HoldInv'
  <2>1. UNCHANGED <<users, tokens, excused, form>> /\ pc[t] = "count"
    BY <1>6 DEF Count, GoOn
  <2>2. /\ pc'[t] = "create_token" /\ memo'[t].user = memo[t].user
        /\ \A s \in Tasks \ {t} : pc'[s] = pc[s] /\ memo'[s] = memo[s]
    BY <1>1, <1>6 DEF Count, GoOn, Row
  <2>3. \A i : \A s \in Tasks : Registering(s, i) => Registering(s, i)'
    BY <2>1, <2>2 DEF Registering
  <2> QED BY <2>1, <2>3 DEF HoldInv, TokenlessOnlyByFailure
<1>7. ASSUME NEW t \in Tasks, CreateToken(t) PROVE HoldInv'
  <2>1. DOMAIN tokens' = DOMAIN tokens \cup {memo[t]}
    <3>1. tokens' = tokens (+) SetToBag({memo[t]}) /\ IsABag(tokens)
      BY <1>7 DEF CreateToken, TokenInv
    <3> QED BY ONLY <3>1, AddRow
  <2>2. UNCHANGED <<users, excused>>
    BY <1>7 DEF CreateToken
  <2>3. \A s \in Tasks \ {t} : pc'[s] = pc[s] /\ form'[s] = form[s] /\ memo'[s] = memo[s]
    BY <1>1, <1>7 DEF CreateToken, Answer
  <2>4. \A i : \A s \in Tasks \ {t} : Registering(s, i) => Registering(s, i)'
    BY <2>3 DEF Registering
  <2>5. \A i : Registering(t, i) => memo[t].user = i
    BY DEF Registering
  <2> QED BY <2>1, <2>2, <2>4, <2>5 DEF HoldInv, TokenlessOnlyByFailure
<1>8. ASSUME NEW t \in Tasks, Delete(t) PROVE HoldInv'
  <2>1. /\ UNCHANGED users /\ excused' = excused \cup {memo[t]} /\ pc[t] = "delete"
        /\ DOMAIN tokens' = {r \in DOMAIN tokens : r.user # memo[t]}
    BY <1>8 DEF Delete
  <2>2. \A s \in Tasks \ {t} : pc'[s] = pc[s] /\ form'[s] = form[s] /\ memo'[s] = memo[s]
    BY <1>1, <1>8 DEF Delete, Answer
  <2>3. \A i : \A s \in Tasks : Registering(s, i) => Registering(s, i)'
    BY <2>1, <2>2 DEF Registering
  <2>4. memo[t] \in DOMAIN users
    BY <2>1 DEF TokenInv, Carries
  <2> QED BY <2>1, <2>3, <2>4 DEF HoldInv, TokenlessOnlyByFailure
<1>9. ASSUME NEW t \in Tasks, Guard(t) PROVE HoldInv'
  BY <1>1, <1>9, HoldSame DEF Guard, Answer
<1>10. ASSUME NEW t \in Tasks, NEW rightPassword \in BOOLEAN, Find(t, rightPassword) PROVE HoldInv'
  BY <1>1, <1>10, HoldSame DEF Find, Answer, GoOn
<1>11. ASSUME NEW t \in Tasks, Decode(t) PROVE HoldInv'
  BY <1>1, <1>11, HoldSame DEF Decode, Answer, GoOn
<1>12. ASSUME NEW t \in Tasks, QueryFails(t) PROVE HoldInv'
  <2>1. /\ UNCHANGED <<users, tokens>>
        /\ excused' = excused \cup {i \in DOMAIN users : Registering(t, i)}
    BY <1>12 DEF QueryFails
  <2>2. \A s \in Tasks \ {t} : pc'[s] = pc[s] /\ form'[s] = form[s] /\ memo'[s] = memo[s]
    BY <1>1, <1>12 DEF QueryFails, Answer
  <2>3. \A i : \A s \in Tasks \ {t} : Registering(s, i) => Registering(s, i)'
    BY <2>2 DEF Registering
  <2> QED BY <2>1, <2>3 DEF HoldInv, TokenlessOnlyByFailure
<1> QED
  BY <1>2, <1>3, <1>4, <1>5, <1>6, <1>7, <1>8, <1>9, <1>10, <1>11, <1>12 DEF AuthNext, Queried

LEMMA AuthInitInv == ASSUME AuthInit PROVE AuthInv
<1> USE AuthAssumption DEF AuthInit
<1>1. FormInv
  BY DEF FormInv
<1>2. IsABag(tokens) /\ DOMAIN tokens = {}
  BY DEF IsABag, EmptyBag, SetToBag
<1>3. TokenInv
  BY <1>2 DEF TokenInv, Carries
<1>4. UserInv
  BY DEF UserInv
<1>5. HoldInv
  BY DEF HoldInv, TokenlessOnlyByFailure
<1> QED BY <1>1, <1>3, <1>4, <1>5 DEF AuthInv

\* What the handlers rely on holds whatever the manager does between their queries.
THEOREM AuthInvariance == HttpSpec => []AuthInv
<1>1. HttpInit => AuthInv
  BY AuthInitInv DEF HttpInit
<1>2. AuthInv /\ [HttpNext]_httpVars => AuthInv'
  BY AuthPart, FormStep, TokenStep, UserStep, HoldStep DEF AuthInv
<1> QED BY <1>1, <1>2, PTL DEF HttpSpec

\* AuthTypeOK: tables and handlers are of the form the queries expect, and no row of a token
\* expires before its web token.
THEOREM AuthTypeCorrect == HttpSpec => []AuthTypeOK
<1>1. AuthInv => AuthTypeOK
  BY DEF AuthInv, FormInv, TokenInv, HoldInv, Carries, AuthTypeOK
<1> QED BY <1>1, AuthInvariance, PTL

\* TokenlessOnlyByFailure: for any number of overlapping requests, register leaves a user
\* without a token only if a query of it failed after the user was created.
THEOREM RegisteredHoldTokens == HttpSpec => []TokenlessOnlyByFailure
<1>1. AuthInv => TokenlessOnlyByFailure
  BY DEF AuthInv, HoldInv
<1> QED BY <1>1, AuthInvariance, PTL

\* EmailTwiceOnlyByRace: register lets an address in twice only if the second registration
\* looked for it before the first had created its user.
THEOREM EmailsOnce == HttpSpec => []EmailTwiceOnlyByRace
<1>1. AuthInv => EmailTwiceOnlyByRace
  BY DEF AuthInv, UserInv, EmailTwiceOnlyByRace
<1> QED BY <1>1, AuthInvariance, PTL

-----------------------------------------------------------------------------
(* The guard.                                                              *)

\* jwt.decode does not refuse a token that is fresh.
LEMMA FreshNotExpired ==
  ASSUME AuthInv, NEW r \in DOMAIN tokens, Fresh(r, now)
  PROVE  ~Expired(Credentials(r))
<1>1. now \in Int /\ zone \in Int /\ r.until \in Int
  BY AuthAssumption DEF AuthInv, FormInv, TokenInv
<1>2. ~(r.until \div 2 < (now \div 2) - zone)
  BY <1>1 DEF Fresh
<1> QED BY <1>2 DEF Expired, Credentials, Seconds

\* The query of the guard finds the one row of a token that was fresh when it was built.
LEMMA FreshFound ==
  ASSUME AuthInv, NEW r \in DOMAIN tokens, NEW at \in Int, Fresh(r, at),
         \A s \in DOMAIN tokens \ {r} : Credentials(s) # Credentials(r)
  PROVE  Actual(Credentials(r), at) = {r}
<1>1. r.expires > at
  BY DEF AuthInv, TokenInv, Fresh
<1> QED BY <1>1 DEF Actual

\* TokenServesItsLifetime: whatever other requests do in between, the guard lets a token in
\* for its lifetime, as long as it has exactly one row.
THEOREM TokenServes == HttpSpec => TokenServesItsLifetime
<1> DEFINE Served == \A t \in Tasks : \A r \in DOMAIN tokens :
       /\ pc[t] \in {"decode", "guard"} /\ pc'[t] = "idle"
       /\ Credentials(r) = form[t]
       /\ Fresh(r, IF pc[t] = "guard" THEN memo[t] ELSE now)
       /\ tokens[r] = 1 /\ \A s \in DOMAIN tokens \ {r} : Credentials(s) # form[t]
       => answer' \in {200, 500}
<1>1. ASSUME AuthInv, [AuthNext]_auth PROVE [Served]_auth
  <2> SUFFICES ASSUME AuthNext,
                      NEW t \in Tasks, NEW r \in DOMAIN tokens,
                      pc[t] \in {"decode", "guard"}, pc'[t] = "idle",
                      Credentials(r) = form[t],
                      Fresh(r, IF pc[t] = "guard" THEN memo[t] ELSE now),
                      tokens[r] = 1,
                      \A s \in DOMAIN tokens \ {r} : Credentials(s) # form[t]
               PROVE  answer' \in {200, 500}
    BY <1>1
  <2>1. DOMAIN pc = Tasks /\ (pc[t] = "guard" => memo[t] \in Int)
    <3>1. now \in Nat /\ \A i \in 0..now : i \in Int
      BY <1>1, AuthAssumption DEF AuthInv, FormInv
    <3> QED BY <1>1, <3>1 DEF AuthInv, FormInv
  <2>2. (Decode(t) /\ pc[t] = "decode") \/ (Guard(t) /\ pc[t] = "guard") \/ answer' = 500
    <3>1. PICK u \in Tasks : Arrives(u) \/ Queried(u) \/ Decode(u) \/ QueryFails(u)
      BY DEF AuthNext, Tick
    <3>2. \E query : pc' = [pc EXCEPT ![u] = query]
      <4>1. CASE Arrives(u)
        BY <4>1 DEF Arrives, RegisterRequest, LoginRequest, GuardedRequest, Request
      <4>2. CASE Exists(u)
        BY <4>2 DEF Exists, GoOn, Answer
      <4>3. CASE CreateUser(u)
        BY <4>3 DEF CreateUser, GoOn, Answer
      <4>4. CASE \E right \in BOOLEAN : Find(u, right)
        BY <4>4 DEF Find, GoOn, Answer
      <4>5. CASE Count(u) \/ CreateToken(u) \/ Delete(u) \/ Guard(u) \/ Decode(u) \/ QueryFails(u)
        BY <4>5 DEF Count, CreateToken, Delete, Guard, Decode, QueryFails, GoOn, Answer
      <4> QED BY <3>1, <4>1, <4>2, <4>3, <4>4, <4>5 DEF Queried
    <3>3. u = t
      BY <2>1, <3>2
    <3>4. Guard(t) \/ Decode(t) \/ QueryFails(t)
      BY <3>1, <3>3 DEF Arrives, RegisterRequest, LoginRequest, GuardedRequest, Request, Queried,
                        Exists, CreateUser, Find, Count, CreateToken, Delete
    <3> QED BY <3>4 DEF Guard, Decode, QueryFails, Answer
  <2>3. CASE Decode(t) /\ pc[t] = "decode"
    <3>1. ~Expired(form[t])
      BY <1>1, <2>3, FreshNotExpired
    <3> QED BY <2>1, <2>3, <3>1 DEF Decode, GoOn
  <2>4. CASE Guard(t) /\ pc[t] = "guard"
    <3>1. Actual(Credentials(r), memo[t]) = {r}
      <4>1. /\ memo[t] \in Int /\ Fresh(r, memo[t])
            /\ \A s \in DOMAIN tokens \ {r} : Credentials(s) # Credentials(r)
        BY <2>1, <2>4
      <4> QED BY <1>1, <4>1, FreshFound
    <3> DEFINE rows == Actual(form[t], memo[t])
    <3>2. rows # {} /\ \E s \in rows : rows = {s} /\ tokens[s] = 1
      BY <3>1
    <3>3. answer' = CASE rows = {}                                  -> 404
                      [] \E s \in rows : rows = {s} /\ tokens[s] = 1 -> 200
                      [] OTHER                                      -> 500
      BY <2>4 DEF Guard, Answer
    <3> HIDE DEF rows
    <3> QED BY <3>2, <3>3
  <2> QED BY <2>2, <2>3, <2>4
<1>2. AuthInv /\ [HttpNext]_httpVars => [Served]_auth
  BY <1>1, AuthPart
<1> QED BY <1>2, AuthInvariance, PTL DEF HttpSpec, TokenServesItsLifetime

-----------------------------------------------------------------------------
(* The manager.                                                            *)

Pending == [step : {"closing", "closed"}, name : Names, old : Nat, stores : BOOLEAN, saw : Nat]

Made == [client : Nat, name : Names, saw : Nat]

ClientInv ==
  /\ target \in Names /\ base \in Seq(Names) /\ registered \in 0..Len(base)
  /\ refreshed \subseteq Names
  /\ opening \in [Tasks -> {Manager!Idle} \cup Pending]
  /\ cached \in [Names -> 0..Len(base)]
  /\ \A n \in Names : cached[n] # 0 => base[cached[n]] = n

\* A name for which connection has made a client is in the cache, so that who orders another
\* one had looked into it earlier.
MadeInv ==
  /\ made \subseteq Made
  /\ \A m \in made : m.client \in 1..Len(base) /\ Manager!InCache(m.name)
  /\ \A t \in Tasks : opening[t] # Manager!Idle =>
       /\ opening[t].saw <= Len(base)
       /\ opening[t].stores =>
            \A m \in made : m.name = opening[t].name => opening[t].saw < m.client
  /\ \A m1, m2 \in made : m1.name = m2.name /\ m1.client < m2.client => m2.saw < m1.client

Closing(c) == \E t \in Tasks : opening[t].step = "closing" /\ opening[t].old = c

\* While a task is in configure, the registered client will be discarded: an open pool of it
\* will be closed by somebody, or was opened late.
PoolInv ==
  /\ live \subseteq 1..Len(base)
  /\ \A c \in live : c = registered \/ c \in late \/ Closing(c)
  /\ (\E t \in Tasks : opening[t] # Manager!Idle) /\ registered \in live =>
       registered \in late \/ Closing(registered)

\* A client that a query waits for is one that was made.
PickedInv ==
  /\ picked \in [Tasks -> [client : Nat, open : BOOLEAN]]
  /\ \A t \in Tasks : picked[t].client <= Len(base)

ManagerInv == ClientInv /\ MadeInv /\ PickedInv /\ PoolInv

\* What a handler does to clients and pools on its way from one query to the next.
PickStep(t) == Picks(t) /\ UNCHANGED <<manager, late>>

ManagerNext ==
  \/ \E t \in Tasks : PickStep(t) \/ Opens(t)
  \/ \E t \in Tasks : (Manager!Calls(t) \/ Manager!GoesOn(t)) /\ UNCHANGED <<picked, late>>

managerVars == <<database, manager, picked, late>>

LEMMA ManagerPart == ASSUME [HttpNext]_httpVars PROVE [ManagerNext]_managerVars
  BY DEF HttpNext, httpVars, managerVars, Clock, Arrival, Query, NoQuery, ManagerCall,
         ManagerGoesOn, ManagerNext, PickStep

\* A handler takes the registered client, which it makes first if there is none, or no client.
LEMMA PickCases ==
  ASSUME NEW t \in Tasks, PickStep(t)
  PROVE  /\ UNCHANGED <<live, leaked, target, manager, late>>
         /\ \/ /\ picked' = [picked EXCEPT ![t] = NoClient]
               /\ UNCHANGED <<registered, base>>
            \/ /\ registered # 0 /\ UNCHANGED <<registered, base>>
               /\ \E open \in BOOLEAN :
                    picked' = [picked EXCEPT ![t] = [client |-> registered, open |-> open]]
            \/ /\ registered = 0 /\ base' = Append(base, target) /\ registered' = Len(base) + 1
               /\ \E open \in BOOLEAN :
                    picked' = [picked EXCEPT ![t] = [client |-> Len(base) + 1, open |-> open]]
<1>1. CASE pc'[t] \in {"idle", "decode"}
  BY <1>1 DEF PickStep, Picks, database
<1>2. CASE pc'[t] \notin {"idle", "decode"}
  <2>1. PICK n : n = Manager!Current
    OBVIOUS
  <2> DEFINE open == n \in live
  <2>2. /\ UNCHANGED <<live, leaked, target, manager, late>>
        /\ base' = (IF registered = 0 THEN Append(base, target) ELSE base)
        /\ registered' = n
        /\ picked' = [picked EXCEPT ![t] = [client |-> n, open |-> open]]
    BY <1>2, <2>1 DEF PickStep, Picks, Manager!Take
  <2>3. n = IF registered = 0 THEN Len(base) + 1 ELSE registered
    BY <2>1 DEF Manager!Current
  <2>4. open \in BOOLEAN
    OBVIOUS
  <2> HIDE DEF open
  <2>5. CASE registered = 0
    BY <2>2, <2>3, <2>4, <2>5
  <2>6. CASE registered # 0
    BY <2>2, <2>3, <2>4, <2>6
  <2> QED BY <2>5, <2>6
<1> QED BY <1>1, <1>2

\* What a handler does in one go when it calls the manager or goes on in configure.
LEMMA ManagerCases ==
  ASSUME NEW t \in Tasks, Manager!Calls(t) \/ Manager!GoesOn(t)
  PROVE  \/ \E n \in Names : Manager!Connection(t, n)
         \/ \E n \in Names, awaits \in BOOLEAN : Manager!Reconnect(t, n, awaits)
         \/ Manager!Closed(t)
         \/ Manager!Configured(t)
  BY DEF Manager!Calls, Manager!GoesOn

Grown == \/ UNCHANGED base
         \/ \E n \in Names : base' = Append(base, n)

LEMMA EndsGrow ==
  ASSUME ClientInv, NEW n \in Names, Manager!ConfigureEnds(n)
  PROVE  Grown /\ target' \in Names /\ registered' \in {0, Len(base')} /\ live' = live
<1>1. CASE n \in Misnamed
  BY <1>1 DEF ClientInv, Grown, Manager!ConfigureEnds
<1>2. CASE n \notin Misnamed
  <2>1. base' = Append(base, n) /\ registered' = Len(base) + 1 /\ target' = n /\ live' = live
    BY <1>2 DEF Manager!ConfigureEnds, Manager!Configure
  <2> QED BY <2>1 DEF Grown, ClientInv
<1> QED BY <1>1, <1>2

\* No client is ever forgotten or changes its database.
LEMMA RegistryGrows ==
  ASSUME ClientInv, [ManagerNext]_managerVars
  PROVE  /\ target' \in Names /\ base' \in Seq(Names) /\ registered' \in 0..Len(base')
         /\ Len(base') \in Len(base)..Len(base) + 1
         /\ \A c \in 1..Len(base) : base'[c] = base[c]
<1> DEFINE Goal == Grown /\ target' \in Names /\ registered' \in {0, registered, Len(base')}
<1>1. Goal
  <2>1. CASE UNCHANGED managerVars
    BY <2>1 DEF ClientInv, Grown, managerVars, database
  <2>2. ASSUME NEW t \in Tasks, PickStep(t) \/ Opens(t) PROVE Goal
    <3>1. CASE PickStep(t)
      BY <3>1, PickCases DEF ClientInv, Grown
    <3>2. CASE Opens(t)
      BY <3>2 DEF Opens, Manager!CreateConnection, database, ClientInv, Grown
    <3> QED BY <2>2, <3>1, <3>2
  <2>3. ASSUME NEW t \in Tasks, NEW n \in Names, Manager!Connection(t, n) PROVE Goal
    BY <2>3, EndsGrow DEF ClientInv, Grown, Manager!Connection, Manager!ConnectionMissing,
                          Manager!ConfigureBegins, Manager!registry
  <2>4. ASSUME NEW t \in Tasks, NEW n \in Names, NEW awaits \in BOOLEAN,
               Manager!Reconnect(t, n, awaits)
        PROVE  Goal
    BY <2>4, EndsGrow DEF ClientInv, Grown, Manager!Reconnect, Manager!ConfigureBegins,
                          Manager!registry
  <2>5. ASSUME NEW t \in Tasks, Manager!Closed(t) PROVE Goal
    BY <2>5 DEF ClientInv, Grown, Manager!Closed, Manager!Close
  <2>6. ASSUME NEW t \in Tasks, Manager!Configured(t) PROVE Goal
    <3>1. opening[t].name \in Names
      BY <2>6 DEF ClientInv, Manager!Configured, Manager!Idle, Pending
    <3> QED BY <2>6, <3>1, EndsGrow DEF Manager!Configured
  <2>7. ASSUME NEW t \in Tasks, Manager!Calls(t) \/ Manager!GoesOn(t) PROVE Goal
    BY <2>3, <2>4, <2>5, <2>6, <2>7, ManagerCases
  <2> HIDE DEF Goal
  <2> QED BY <2>1, <2>2, <2>7 DEF ManagerNext
<1>2. Len(base) \in Nat /\ registered \in 0..Len(base) /\ base \in Seq(Names)
  BY DEF ClientInv
<1>3. CASE UNCHANGED base
  BY <1>1, <1>2, <1>3
<1>4. ASSUME NEW n \in Names, base' = Append(base, n)
      PROVE  /\ base' \in Seq(Names) /\ Len(base') = Len(base) + 1
             /\ \A c \in 1..Len(base) : base'[c] = base[c]
  BY <1>2, <1>4
<1> QED BY <1>1, <1>2, <1>3, <1>4 DEF Grown

\* What becomes of the cache and of the tasks in configure.
LEMMA BeginsOpening ==
  ASSUME ClientInv, NEW t \in Tasks, NEW n \in Names, NEW stores \in BOOLEAN,
         opening[t] = Manager!Idle, Manager!ConfigureBegins(t, n, stores)
  PROVE  /\ opening' \in [Tasks -> {Manager!Idle} \cup Pending]
         /\ \/ registered = 0 /\ UNCHANGED opening
            \/ /\ registered # 0 /\ UNCHANGED <<target, registered, base, live>>
               /\ opening' = [opening EXCEPT ![t] =
                    [step |-> "closing", name |-> n, old |-> registered,
                     stores |-> stores, saw |-> Len(base)]]
<1>1. Len(base) \in Nat /\ registered \in Nat
  BY DEF ClientInv
<1>2. [step |-> "closing", name |-> n, old |-> registered, stores |-> stores,
       saw |-> Len(base)] \in Pending
  BY <1>1 DEF Pending
<1> QED
  BY <1>2 DEF ClientInv, Manager!ConfigureBegins, Manager!registry

LEMMA StoreCases ==
  ASSUME ClientInv, NEW n \in Names, NEW saw, Manager!ConfigureEnds(n), Manager!Store(n, saw)
  PROVE  \/ UNCHANGED <<cached, refreshed, made>>
         \/ /\ base' = Append(base, n) /\ registered' = Len(base) + 1
            /\ cached' = [cached EXCEPT ![n] = Len(base) + 1]
            /\ refreshed' = refreshed \ {n}
            /\ made' = made \cup {[client |-> Len(base) + 1, name |-> n, saw |-> saw]}
  BY DEF Manager!Store, Manager!ConfigureEnds, Manager!Configure

\* A task that goes on in configure.
LEMMA ConfiguredCases ==
  ASSUME ClientInv, NEW t \in Tasks, Manager!Configured(t)
  PROVE  /\ opening[t] \in Pending /\ opening[t].step = "closed"
         /\ Manager!ConfigureEnds(opening[t].name)
         /\ opening' = [opening EXCEPT ![t] = Manager!Idle]
         /\ \/ opening[t].stores /\ Manager!Store(opening[t].name, opening[t].saw)
            \/ UNCHANGED <<cached, refreshed, made>>
  BY DEF ClientInv, Manager!Configured, Manager!Idle, Pending

LEMMA ClosedCases ==
  ASSUME ClientInv, NEW t \in Tasks, Manager!Closed(t)
  PROVE  /\ opening[t] \in Pending /\ opening[t].step = "closing"
         /\ opening' = [opening EXCEPT ![t].step = "closed"]
         /\ opening' \in [Tasks -> {Manager!Idle} \cup Pending]
         /\ live' = live \ {opening[t].old}
         /\ UNCHANGED <<target, registered, base, cached, refreshed, made>>
<1>1. opening[t] \in Pending /\ opening[t].step = "closing"
  BY DEF ClientInv, Manager!Closed, Manager!Idle, Pending
<1>2. [opening[t] EXCEPT !.step = "closed"] \in Pending
  BY <1>1 DEF Pending
<1> QED BY <1>1, <1>2 DEF ClientInv, Manager!Closed, Manager!Close

LEMMA ClientStep == ASSUME ClientInv, [ManagerNext]_managerVars PROVE ClientInv'
<1> DEFINE Kept ==
      /\ refreshed' \subseteq Names /\ opening' \in [Tasks -> {Manager!Idle} \cup Pending]
      /\ \/ UNCHANGED cached
         \/ \E n \in Names : cached' = [cached EXCEPT ![n] = 0]
         \/ \E n \in Names : /\ base' = Append(base, n)
                             /\ cached' = [cached EXCEPT ![n] = Len(base) + 1]
<1>1. Kept
  <2> USE DEF ClientInv
  <2>1. CASE UNCHANGED managerVars
    BY <2>1 DEF managerVars, manager
  <2>2. ASSUME NEW t \in Tasks, PickStep(t) \/ Opens(t) PROVE Kept
    BY <2>2 DEF PickStep, Opens, manager
  <2>3. ASSUME NEW t \in Tasks, NEW n \in Names, Manager!Connection(t, n) PROVE Kept
    <3>1. CASE Manager!InCache(n)
      BY <2>3, <3>1 DEF Manager!Connection, Manager!manager
    <3>2. CASE ~Manager!InCache(n)
      <4>1. opening[t] = Manager!Idle /\ Manager!ConfigureBegins(t, n, TRUE)
        BY <2>3, <3>2 DEF Manager!Connection, Manager!ConnectionMissing
      <4>2. CASE registered = 0
        <5>1. Manager!ConfigureEnds(n) /\ Manager!Store(n, Len(base))
          BY <2>3, <3>2, <4>1, <4>2
          DEF Manager!Connection, Manager!ConnectionMissing, Manager!ConfigureBegins
        <5> QED BY <4>1, <5>1, BeginsOpening, StoreCases
      <4>3. CASE registered # 0
        BY <2>3, <3>2, <4>1, <4>3, BeginsOpening DEF Manager!Connection, Manager!ConnectionMissing
      <4> QED BY <4>2, <4>3
    <3> QED BY <3>1, <3>2
  <2>4. ASSUME NEW t \in Tasks, NEW n \in Names, NEW awaits \in BOOLEAN,
               Manager!Reconnect(t, n, awaits)
        PROVE  Kept
    <3>1. cached' = [cached EXCEPT ![n] = 0] /\ refreshed' = refreshed \cup {n}
      BY <2>4 DEF Manager!Reconnect
    <3>2. opening' \in [Tasks -> {Manager!Idle} \cup Pending]
      BY <2>4, BeginsOpening DEF Manager!Reconnect
    <3> QED BY <3>1, <3>2
  <2>5. ASSUME NEW t \in Tasks, Manager!Closed(t) PROVE Kept
    BY <2>5, ClosedCases
  <2>6. ASSUME NEW t \in Tasks, Manager!Configured(t) PROVE Kept
    <3>1. opening[t].name \in Names
      BY <2>6, ConfiguredCases DEF Pending
    <3>2. opening' \in [Tasks -> {Manager!Idle} \cup Pending]
      BY <2>6, ConfiguredCases
    <3> QED BY <2>6, <3>1, <3>2, ConfiguredCases, StoreCases
  <2>7. ASSUME NEW t \in Tasks, Manager!Calls(t) \/ Manager!GoesOn(t) PROVE Kept
    BY <2>3, <2>4, <2>5, <2>6, <2>7, ManagerCases
  <2> HIDE DEF Kept
  <2> QED BY <2>1, <2>2, <2>7 DEF ManagerNext
<1>2. Len(base) \in Nat /\ Len(base') \in Nat
  BY RegistryGrows DEF ClientInv
<1> DEFINE CacheKept == /\ cached' \in [Names -> 0..Len(base')]
                        /\ \A n \in Names : cached'[n] # 0 => base'[cached'[n]] = n
<1>3. CacheKept
  <2>1. ASSUME NEW m \in Names
        PROVE  cached'[m] \in 0..Len(base') /\ (cached'[m] # 0 => base'[cached'[m]] = m)
    <3>1. cached[m] \in 0..Len(base) /\ (cached[m] # 0 => base[cached[m]] = m)
      BY DEF ClientInv
    <3>2. CASE cached'[m] \in {0, cached[m]}
      BY <1>2, <3>1, <3>2, RegistryGrows
    <3>3. CASE base' = Append(base, m) /\ cached'[m] = Len(base) + 1
      BY <1>2, <3>3 DEF ClientInv
    <3> QED BY <1>1, <3>2, <3>3 DEF ClientInv
  <2>2. cached' = [m \in Names |-> cached'[m]]
    BY <1>1 DEF ClientInv
  <2> QED BY <2>1, <2>2
<1> QED BY <1>1, <1>3, RegistryGrows DEF ClientInv

\* Whoever still waits in configure has ordered before, or orders now what is not in the cache.
Orders(t) ==
  \/ opening'[t] = Manager!Idle
  \/ /\ opening[t] # Manager!Idle /\ opening'[t].saw = opening[t].saw
     /\ opening'[t].stores = opening[t].stores /\ opening'[t].name = opening[t].name
  \/ opening'[t].saw = Len(base) /\ (opening'[t].stores => ~Manager!InCache(opening'[t].name))

LEMMA MadeSame ==
  ASSUME ClientInv, MadeInv, [ManagerNext]_managerVars, UNCHANGED made,
         \A n \in Names : Manager!InCache(n) => Manager!InCache(n)',
         \A t \in Tasks : Orders(t)
  PROVE  MadeInv'
<1>1. Len(base) \in Nat /\ Len(base') \in Nat /\ Len(base) <= Len(base')
  BY RegistryGrows DEF ClientInv
<1>2. \A m \in made : m \in Made /\ m.client \in 1..Len(base) /\ Manager!InCache(m.name)
  BY DEF MadeInv
<1>3. \A m \in made' : m.client \in 1..Len(base') /\ Manager!InCache(m.name)'
  BY <1>1, <1>2 DEF Made
<1>4. ASSUME NEW t \in Tasks, opening'[t] # Manager!Idle
      PROVE  /\ opening'[t].saw <= Len(base')
             /\ opening'[t].stores =>
                  \A m \in made' : m.name = opening'[t].name => opening'[t].saw < m.client
  <2>1. CASE /\ opening[t] # Manager!Idle /\ opening'[t].saw = opening[t].saw
             /\ opening'[t].stores = opening[t].stores /\ opening'[t].name = opening[t].name
    <3>1. opening[t].saw \in Nat
      BY <2>1 DEF ClientInv, Pending
    <3> QED BY <1>1, <2>1, <3>1 DEF MadeInv
  <2>2. CASE /\ opening'[t].saw = Len(base)
             /\ opening'[t].stores => ~Manager!InCache(opening'[t].name)
    BY <1>1, <1>2, <2>2
  <2> QED BY <1>4, <2>1, <2>2 DEF Orders
<1> QED BY <1>3, <1>4 DEF MadeInv, Manager!Idle

LEMMA MadeMore ==
  ASSUME ClientInv, MadeInv, NEW n \in Names, NEW saw \in 0..Len(base),
         \A m \in made : m.name = n => saw < m.client,
         base' = Append(base, n),
         cached' = [cached EXCEPT ![n] = Len(base) + 1], refreshed' = refreshed \ {n},
         made' = made \cup {[client |-> Len(base) + 1, name |-> n, saw |-> saw]},
         \A t \in Tasks : opening'[t] \in {Manager!Idle, opening[t]}
  PROVE  MadeInv'
<1> DEFINE new == [client |-> Len(base) + 1, name |-> n, saw |-> saw]
<1>1. Len(base) \in Nat /\ Len(base') = Len(base) + 1
  BY DEF ClientInv
<1>2. \A m \in made : m \in Made /\ m.client \in 1..Len(base) /\ Manager!InCache(m.name)
  BY DEF MadeInv
<1>3. new \in Made /\ new.client = Len(base) + 1 /\ new.name = n /\ new.saw = saw
  BY <1>1 DEF Made
<1> HIDE DEF new
<1>4. \A o \in Names : Manager!InCache(o) \/ o = n => Manager!InCache(o)'
  BY <1>1 DEF ClientInv, Manager!InCache
<1>5. \A m \in made' : m \in Made /\ m.client \in 1..Len(base') /\ Manager!InCache(m.name)'
  BY <1>1, <1>2, <1>3, <1>4 DEF new, Made
<1>6. ASSUME NEW t \in Tasks, opening'[t] # Manager!Idle
      PROVE  /\ opening'[t].saw <= Len(base')
             /\ opening'[t].stores =>
                  \A m \in made' : m.name = opening'[t].name => opening'[t].saw < m.client
  <2>1. opening'[t] = opening[t] /\ opening[t].saw \in Nat /\ opening[t].saw <= Len(base)
    BY <1>6 DEF ClientInv, Pending, MadeInv
  <2> QED BY <1>1, <1>3, <1>6, <2>1 DEF MadeInv, new
<1>7. ASSUME NEW m1 \in made', NEW m2 \in made', m1.name = m2.name, m1.client < m2.client
      PROVE  m2.saw < m1.client
  <2>1. CASE m1 \in made /\ m2 \in made
    BY <1>7, <2>1 DEF MadeInv
  <2>2. CASE m1 \in made /\ m2 = new
    BY <1>3, <1>7, <2>2
  <2>3. CASE m1 = new
    <3>1. m2.client <= m1.client /\ m1.client \in Nat /\ m2.client \in Nat
      BY <1>1, <1>2, <1>3, <2>3 DEF new
    <3> QED BY <1>7, <3>1
  <2> QED BY <2>1, <2>2, <2>3 DEF new
<1> QED BY <1>5, <1>6, <1>7 DEF MadeInv, Manager!Idle

LEMMA MadeStep == ASSUME ClientInv, MadeInv, [ManagerNext]_managerVars PROVE MadeInv'
<1>1. CASE UNCHANGED managerVars
  <2>1. UNCHANGED <<made, opening, cached, refreshed>>
    BY <1>1 DEF managerVars, manager
  <2> QED BY <2>1, MadeSame DEF Orders, Manager!InCache
<1>2. ASSUME NEW t \in Tasks, PickStep(t) \/ Opens(t) PROVE MadeInv'
  <2>1. UNCHANGED <<made, opening, cached, refreshed>>
    BY <1>2 DEF PickStep, Opens, manager
  <2> QED BY <2>1, MadeSame DEF Orders, Manager!InCache
<1>3. ASSUME NEW t \in Tasks, NEW n \in Names, Manager!Connection(t, n) PROVE MadeInv'
  <2>1. CASE Manager!InCache(n)
    <3>1. UNCHANGED <<made, opening, cached, refreshed>>
      BY <1>3, <2>1 DEF Manager!Connection, Manager!manager
    <3> QED BY <3>1, MadeSame DEF Orders, Manager!InCache
  <2>2. CASE ~Manager!InCache(n)
    <3>1. opening[t] = Manager!Idle /\ Manager!ConfigureBegins(t, n, TRUE)
      BY <1>3, <2>2 DEF Manager!Connection, Manager!ConnectionMissing
    <3>2. CASE registered = 0
      <4>1. /\ Manager!ConfigureEnds(n) /\ Manager!Store(n, Len(base))
            /\ UNCHANGED opening
        BY <1>3, <2>2, <3>1, <3>2
        DEF Manager!Connection, Manager!ConnectionMissing, Manager!ConfigureBegins
      <4>2. CASE UNCHANGED <<cached, refreshed, made>>
        BY <4>1, <4>2, MadeSame DEF Orders, Manager!InCache
      <4>3. CASE ~UNCHANGED <<cached, refreshed, made>>
        <5>1. /\ Len(base) \in 0..Len(base)
              /\ \A m \in made : m.name = n => Len(base) < m.client
          BY <2>2 DEF ClientInv, MadeInv
        <5>2. \A u \in Tasks : opening'[u] \in {Manager!Idle, opening[u]}
          BY <4>1
        <5> QED BY <4>1, <4>3, <5>1, <5>2, StoreCases, MadeMore
      <4> QED BY <4>2, <4>3
    <3>3. CASE registered # 0
      <4>1. UNCHANGED <<cached, refreshed, made>>
        BY <1>3, <2>2, <3>3 DEF Manager!Connection, Manager!ConnectionMissing
      <4>2. opening' = [opening EXCEPT ![t] = [step |-> "closing", name |-> n,
                          old |-> registered, stores |-> TRUE, saw |-> Len(base)]]
        BY <3>1, <3>3, BeginsOpening
      <4>3. \A u \in Tasks : Orders(u)
        BY <2>2, <4>2 DEF Orders, ClientInv
      <4> QED BY <4>1, <4>3, MadeSame DEF Manager!InCache
    <3> QED BY <3>2, <3>3
  <2> QED BY <2>1, <2>2
<1>4. ASSUME NEW t \in Tasks, NEW n \in Names, NEW awaits \in BOOLEAN,
             Manager!Reconnect(t, n, awaits)
      PROVE  MadeInv'
  <2>1. /\ opening[t] = Manager!Idle /\ UNCHANGED made
        /\ cached' = [cached EXCEPT ![n] = 0] /\ refreshed' = refreshed \cup {n}
        /\ Manager!ConfigureBegins(t, n, FALSE) \/ UNCHANGED opening
    BY <1>4 DEF Manager!Reconnect
  <2>2. \A m \in Names : Manager!InCache(m) => Manager!InCache(m)'
    BY <2>1 DEF ClientInv, Manager!InCache
  <2>3. \A u \in Tasks : Orders(u)
    <3>1. \/ UNCHANGED opening
          \/ opening' = [opening EXCEPT ![t] = [step |-> "closing", name |-> n,
                           old |-> registered, stores |-> FALSE, saw |-> Len(base)]]
      BY <2>1, BeginsOpening
    <3> QED BY <3>1 DEF Orders, ClientInv
  <2> QED BY <2>1, <2>2, <2>3, MadeSame
<1>5. ASSUME NEW t \in Tasks, Manager!Closed(t) PROVE MadeInv'
  <2>1. \A u \in Tasks : Orders(u)
    <3>1. /\ opening[t] \in Pending /\ opening[t] # Manager!Idle
          /\ opening' = [opening EXCEPT ![t] = [opening[t] EXCEPT !.step = "closed"]]
      <4>1. opening[t] # [step |-> "idle"]
        BY <1>5, ClosedCases
      <4> QED BY <1>5, <4>1, ClosedCases DEF Manager!Closed, Manager!Idle
    <3>2. /\ [opening[t] EXCEPT !.step = "closed"].saw = opening[t].saw
          /\ [opening[t] EXCEPT !.step = "closed"].stores = opening[t].stores
          /\ [opening[t] EXCEPT !.step = "closed"].name = opening[t].name
      BY <3>1 DEF Pending
    <3> QED BY <3>1, <3>2 DEF Orders, ClientInv
  <2>2. UNCHANGED <<cached, refreshed, made>>
    BY <1>5, ClosedCases
  <2> QED BY <2>1, <2>2, MadeSame DEF Manager!InCache
<1>6. ASSUME NEW t \in Tasks, Manager!Configured(t) PROVE MadeInv'
  <2> DEFINE n == opening[t].name
             saw == opening[t].saw
  <2>1. \A u \in Tasks : opening'[u] \in {Manager!Idle, opening[u]}
    BY <1>6, ConfiguredCases DEF ClientInv
  <2>2. opening[t] # Manager!Idle /\ n \in Names /\ saw \in Nat /\ Manager!ConfigureEnds(n)
    BY <1>6, ConfiguredCases DEF Pending, Manager!Idle
  <2>3. CASE UNCHANGED <<cached, refreshed, made>>
    <3>1. \A u \in Tasks : Orders(u)
      BY <2>1 DEF Orders
    <3> QED BY <2>3, <3>1, MadeSame DEF Manager!InCache
  <2>4. CASE opening[t].stores /\ Manager!Store(n, saw) /\ ~UNCHANGED <<cached, refreshed, made>>
    <3>1. saw \in 0..Len(base) /\ \A m \in made : m.name = n => saw < m.client
      BY <2>2, <2>4 DEF MadeInv, ClientInv
    <3> HIDE DEF n, saw
    <3> QED BY <2>1, <2>2, <2>4, <3>1, StoreCases, MadeMore
  <2> QED BY <1>6, <2>3, <2>4, ConfiguredCases
<1>7. ASSUME NEW t \in Tasks, Manager!Calls(t) \/ Manager!GoesOn(t) PROVE MadeInv'
  BY <1>3, <1>4, <1>5, <1>6, <1>7, ManagerCases
<1> QED BY <1>1, <1>2, <1>7 DEF ManagerNext

LEMMA PickedStep ==
  ASSUME ClientInv, PickedInv, [ManagerNext]_managerVars PROVE PickedInv'
<1> DEFINE Entries == [client : Nat, open : BOOLEAN]
<1>1. Len(base) \in Nat /\ Len(base') \in Nat /\ Len(base) <= Len(base')
  BY RegistryGrows DEF ClientInv
<1>2. \A t \in Tasks : picked[t] \in Entries /\ picked[t].client <= Len(base)
  BY DEF PickedInv
<1>3. ASSUME NEW t \in Tasks, NEW entry \in Entries, entry.client <= Len(base'),
             picked' = [picked EXCEPT ![t] = entry]
      PROVE  PickedInv'
  BY <1>1, <1>2, <1>3 DEF PickedInv
<1>4. CASE UNCHANGED picked
  BY <1>1, <1>2, <1>4 DEF PickedInv
<1>5. ASSUME NEW t \in Tasks, PickStep(t) PROVE PickedInv'
  <2>1. registered \in Nat /\ registered <= Len(base) /\ 0 \in Nat /\ 0 <= Len(base')
    BY <1>1 DEF ClientInv
  <2>2. base' = Append(base, target) => Len(base) + 1 \in Nat /\ Len(base) + 1 <= Len(base')
    BY DEF ClientInv
  <2>3. \E n \in Nat, open \in BOOLEAN :
          n <= Len(base') /\ picked' = [picked EXCEPT ![t] = [client |-> n, open |-> open]]
    <3>1. CASE picked' = [picked EXCEPT ![t] = NoClient]
      BY <2>1, <3>1 DEF NoClient
    <3>2. CASE UNCHANGED base /\ \E open \in BOOLEAN :
                 picked' = [picked EXCEPT ![t] = [client |-> registered, open |-> open]]
      BY <2>1, <3>2
    <3>3. CASE base' = Append(base, target) /\ \E open \in BOOLEAN :
                 picked' = [picked EXCEPT ![t] = [client |-> Len(base) + 1, open |-> open]]
      BY <2>2, <3>3
    <3> QED BY <1>5, <3>1, <3>2, <3>3, PickCases
  <2>4. PICK n \in Nat, open \in BOOLEAN :
          n <= Len(base') /\ picked' = [picked EXCEPT ![t] = [client |-> n, open |-> open]]
    BY <2>3
  <2>5. /\ [client |-> n, open |-> open] \in Entries
        /\ [client |-> n, open |-> open].client <= Len(base')
    BY <2>4
  <2> HIDE DEF Entries
  <2> QED BY <1>3, <2>4, <2>5
<1>6. ASSUME NEW t \in Tasks, Opens(t) PROVE PickedInv'
  <2>1. [picked[t] EXCEPT !.open = TRUE] \in Entries
        /\ [picked[t] EXCEPT !.open = TRUE].client = picked[t].client
    BY <1>2
  <2> QED BY <1>1, <1>2, <1>3, <1>6, <2>1 DEF Opens, PickedInv
<1> QED BY <1>4, <1>5, <1>6 DEF ManagerNext, managerVars

\* A handler that goes through configure without waiting opens and closes no pool, and leaves
\* a new client without a pool or none.
LEMMA PoolEnds ==
  ASSUME ClientInv, PoolInv, UNCHANGED late, NEW n \in Names, Manager!ConfigureEnds(n),
         \A t \in Tasks : opening[t] = opening'[t] \/ opening[t].step # "closing",
         registered \in live => registered \in late \/ Closing(registered)
  PROVE  PoolInv'
<1>1. Grown /\ registered' \in {0, Len(base')} /\ live' = live
  BY EndsGrow
<1>2. Len(base) \in Nat /\ (base' = base \/ Len(base') = Len(base) + 1)
  BY <1>1 DEF Grown, ClientInv
<1>3. registered' \notin live'
  <2>1. CASE n \in Misnamed
    BY <1>2, <2>1 DEF PoolInv, Manager!ConfigureEnds
  <2>2. CASE n \notin Misnamed
    <3>1. registered' = Len(base) + 1 /\ live' = live
      BY <2>2 DEF Manager!ConfigureEnds, Manager!Configure
    <3> QED BY <1>2, <3>1 DEF PoolInv
  <2> QED BY <2>1, <2>2
<1>4. \A c : Closing(c) => Closing(c)'
  BY DEF Closing
<1>5. \A c \in live' : c \in late' \/ Closing(c)'
  BY <1>1, <1>4 DEF PoolInv
<1> QED BY <1>1, <1>2, <1>3, <1>5 DEF PoolInv

\* A handler that begins to wait in configure is about to close the registered client.
LEMMA PoolBegins ==
  ASSUME ClientInv, PoolInv, UNCHANGED <<late, registered, base, live>>, NEW t \in Tasks,
         NEW entry, entry.step = "closing", entry.old = registered,
         opening[t] = Manager!Idle, opening' = [opening EXCEPT ![t] = entry]
  PROVE  PoolInv'
<1>1. Closing(registered)'
  BY DEF Closing, ClientInv
<1>2. \A c : Closing(c) => Closing(c)'
  BY DEF Closing, ClientInv, Manager!Idle
<1> QED BY <1>1, <1>2 DEF PoolInv

LEMMA PoolStep ==
  ASSUME ClientInv, PickedInv, PoolInv, [ManagerNext]_managerVars PROVE PoolInv'
<1>1. CASE UNCHANGED managerVars
  <2>1. UNCHANGED <<registered, base, live, late, opening>>
    BY <1>1 DEF managerVars, manager, database
  <2> QED BY <2>1 DEF PoolInv, Closing, Manager!Idle
<1>2. ASSUME NEW t \in Tasks, PickStep(t) PROVE PoolInv'
  <2>1. /\ UNCHANGED <<live, late, opening>>
        /\ \/ UNCHANGED <<registered, base>>
           \/ registered = 0 /\ base' = Append(base, target) /\ registered' = Len(base) + 1
    BY <1>2, PickCases DEF manager
  <2>2. \A c : Closing(c)' <=> Closing(c)
    BY <2>1 DEF Closing
  <2>3. CASE UNCHANGED <<registered, base>>
    BY <2>1, <2>2, <2>3 DEF PoolInv, Manager!Idle
  <2>4. CASE registered = 0 /\ base' = Append(base, target) /\ registered' = Len(base) + 1
    <3>1. Len(base) \in Nat /\ Len(base') = Len(base) + 1
      BY <2>4 DEF ClientInv
    <3>2. 0 \notin live /\ registered' \notin live' /\ live' \subseteq 1..Len(base')
      BY <2>1, <2>4, <3>1 DEF PoolInv
    <3> QED BY <2>1, <2>2, <2>4, <3>2 DEF PoolInv, Manager!Idle
  <2> QED BY <2>1, <2>3, <2>4
<1>10. ASSUME NEW t \in Tasks, Opens(t) PROVE PoolInv'
  <2> DEFINE c == picked[t].client
  <2>1. c \in 1..Len(base) /\ UNCHANGED <<registered, base, opening>>
    BY <1>10 DEF Opens, PickedInv, Manager!CreateConnection, database, manager
  <2>2. \/ UNCHANGED <<live, late>>
        \/ live' = live \cup {c} /\ late' = late \cup {c}
        \/ live' = live \cup {c} /\ late' = late /\ c = registered /\ NobodyConfigures
    BY <1>10 DEF Opens, Manager!CreateConnection, database
  <2> HIDE DEF c
  <2>3. \A d : Closing(d)' <=> Closing(d)
    BY <2>1 DEF Closing
  <2> QED BY <2>1, <2>2, <2>3 DEF PoolInv, NobodyConfigures, Manager!Idle
<1>3. ASSUME NEW t \in Tasks, NEW n \in Names, NEW stores \in BOOLEAN, UNCHANGED late,
             opening[t] = Manager!Idle, Manager!ConfigureBegins(t, n, stores)
      PROVE  PoolInv'
  <2>1. CASE registered = 0
    <3>1. Manager!ConfigureEnds(n) /\ UNCHANGED opening
      BY <1>3, <2>1 DEF Manager!ConfigureBegins
    <3>2. registered \notin live
      BY <2>1 DEF ClientInv, PoolInv
    <3> QED BY <1>3, <3>1, <3>2, PoolEnds
  <2>2. CASE registered # 0
    <3> DEFINE entry == [step |-> "closing", name |-> n, old |-> registered,
                         stores |-> stores, saw |-> Len(base)]
    <3>1. UNCHANGED <<registered, base, live>> /\ opening' = [opening EXCEPT ![t] = entry]
      BY <1>3, <2>2 DEF Manager!ConfigureBegins, Manager!registry
    <3>2. entry.step = "closing" /\ entry.old = registered
      OBVIOUS
    <3> HIDE DEF entry
    <3> QED BY <1>3, <3>1, <3>2, PoolBegins
  <2> QED BY <2>1, <2>2
<1>4. ASSUME UNCHANGED <<registered, base, live, late, opening>> PROVE PoolInv'
  BY <1>4 DEF PoolInv, Closing, Manager!Idle
<1>5. ASSUME NEW t \in Tasks, NEW n \in Names, UNCHANGED late, Manager!Connection(t, n)
      PROVE  PoolInv'
  <2>1. CASE Manager!InCache(n)
    BY <1>4, <1>5, <2>1 DEF Manager!Connection, Manager!registry, Manager!manager
  <2>2. CASE ~Manager!InCache(n)
    BY <1>3, <1>5, <2>2 DEF Manager!Connection, Manager!ConnectionMissing
  <2> QED BY <2>1, <2>2
<1>6. ASSUME NEW t \in Tasks, NEW n \in Names, NEW awaits \in BOOLEAN, UNCHANGED late,
             Manager!Reconnect(t, n, awaits)
      PROVE  PoolInv'
  <2>1. CASE awaits
    BY <1>3, <1>6, <2>1 DEF Manager!Reconnect
  <2>2. CASE ~awaits
    BY <1>4, <1>6, <2>2 DEF Manager!Reconnect, Manager!registry
  <2> QED BY <2>1, <2>2
<1>7. ASSUME NEW t \in Tasks, UNCHANGED late, Manager!Closed(t) PROVE PoolInv'
  <2> DEFINE old == opening[t].old
  <2>1. /\ UNCHANGED <<registered, base, late>> /\ live' = live \ {old}
        /\ opening' = [opening EXCEPT ![t].step = "closed"]
    BY <1>7, ClosedCases
  <2>2. opening[t] # Manager!Idle
    <3>1. opening[t] # [step |-> "idle"]
      BY <1>7, ClosedCases
    <3> QED BY <3>1 DEF Manager!Idle
  <2> HIDE DEF old
  <2>3. \A c \in live' : Closing(c) => Closing(c)'
    BY <2>1 DEF Closing, old, ClientInv
  <2> QED BY <2>1, <2>2, <2>3 DEF PoolInv
<1>8. ASSUME NEW t \in Tasks, UNCHANGED late, Manager!Configured(t) PROVE PoolInv'
  <2>1. /\ opening[t] \in Pending /\ opening[t].step = "closed" /\ opening[t] # [step |-> "idle"]
        /\ Manager!ConfigureEnds(opening[t].name)
        /\ opening' = [opening EXCEPT ![t] = Manager!Idle]
    BY <1>8, ConfiguredCases
  <2>2. \A u \in Tasks : opening[u] = opening'[u] \/ opening[u].step # "closing"
    BY <2>1 DEF ClientInv
  <2>3. registered \in live => registered \in late \/ Closing(registered)
    BY <2>1 DEF PoolInv, Manager!Idle
  <2>4. opening[t].name \in Names
    BY <2>1 DEF Pending
  <2> QED BY <1>8, <2>1, <2>2, <2>3, <2>4, PoolEnds
<1>9. ASSUME NEW t \in Tasks, UNCHANGED late, Manager!Calls(t) \/ Manager!GoesOn(t) PROVE PoolInv'
  BY <1>5, <1>6, <1>7, <1>8, <1>9, ManagerCases
<1> QED BY <1>1, <1>2, <1>9, <1>10 DEF ManagerNext

LEMMA ManagerInitInv ==
  ASSUME Manager!BootedManager, picked = [t \in Tasks |-> NoClient], late = {} PROVE ManagerInv
<1> USE HttpAssumption DEF Manager!BootedManager
<1>1. base \in Seq(Names) /\ Len(base) = 1 /\ base[1] = Default
  OBVIOUS
<1>2. ClientInv
  BY <1>1 DEF ClientInv
<1>3. MadeInv
  BY <1>1 DEF MadeInv, Made, Manager!InCache
<1>4. PoolInv
  BY <1>1 DEF PoolInv
<1>5. PickedInv
  BY <1>1 DEF PickedInv, NoClient
<1> QED BY <1>2, <1>3, <1>4, <1>5 DEF ManagerInv

\* What the manager relies on holds whatever the tasks query and call in which order.
THEOREM ManagerInvariance == HttpSpec => []ManagerInv
<1>1. HttpInit => ManagerInv
  BY ManagerInitInv DEF HttpInit
<1>2. ManagerInv /\ [HttpNext]_httpVars => ManagerInv'
  BY ManagerPart, ClientStep, MadeStep, PickedStep, PoolStep DEF ManagerInv
<1> QED BY <1>1, <1>2, PTL DEF HttpSpec

\* NamesKept: for any tasks, connections and queries in between, what connection returns from
\* the cache is a client of the database it was asked for.
THEOREM CacheKeepsNames == HttpSpec => []NamesKept
<1>1. ManagerInv => NamesKept
  BY DEF ManagerInv, ClientInv, NamesKept, Manager!NamesKept
<1> QED BY <1>1, ManagerInvariance, PTL

\* OnePerName: connection makes a second client for a name only for a call that had looked into
\* the cache before the first was made.
THEOREM SecondOnlyByRace == HttpSpec => []OnePerName
<1>1. ManagerInv => OnePerName
  BY DEF ManagerInv, MadeInv, OnePerName, Manager!OnePerName
<1> QED BY <1>1, ManagerInvariance, PTL

\* OnlyLatePoolsStray: of the clients, init leaves only those with an open pool behind whose
\* pool a query opened while a task was in configure, or after they were replaced.
THEOREM PoolsClosed == HttpSpec => []OnlyLatePoolsStray
<1>1. ManagerInv => OnlyLatePoolsStray
  BY DEF ManagerInv, PoolInv, Closing, OnlyLatePoolsStray
<1> QED BY <1>1, ManagerInvariance, PTL
=============================================================================
