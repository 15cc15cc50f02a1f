----------------------------- MODULE AuthTokens -----------------------------
(***************************************************************************)
(* Registration, login, logout and the guard of a route, as request         *)
(* handlers on one event loop.  A handler runs from one query to the next   *)
(* without a break: pc names the query it waits for, and one action is the  *)
(* answer of that query with all that follows it.  Any query may fail.      *)
(*                                                                         *)
(* A token is a JSON web token and a row.  The first carries the expiry     *)
(* computed before a query, in whole seconds and as if local time were UTC; *)
(* the second the one computed after it.  Time passes in ticks, two in a    *)
(* second, by the local clock.                                              *)
(***************************************************************************)
EXTENDS Integers, Sequences, Bags

CONSTANTS
  Tasks,      \* the tasks of the event loop that handle requests
  Usernames,  \* the names users choose and register makes up
  Emails,
  None,       \* a form field that is left empty
  Lifetime,   \* token_expire_minutes, in ticks
  Zones,      \* seconds that local time may be ahead of UTC
  MaxTime     \* bound: the last tick

ASSUME AuthAssumption ==
  /\ Lifetime \in Nat /\ MaxTime \in Nat /\ Zones \subseteq Int
  /\ None \notin Usernames \cup Emails

VARIABLES
  now, zone,
  users,    \* the table of users, in the order of their ids
  tokens,   \* the table of tokens, a bag
  excused,  \* history: the users who logged out, or whose registration failed after it had
            \* created them
  pc,       \* the query each task waits for
  form,     \* the form or the token of its request
  memo,     \* what its handler has read or computed so far
  answer    \* the code of the last answer

auth == <<now, zone, users, tokens, excused, pc, form, memo, answer>>

Seconds(ticks) == ticks \div 2

Row(user, until, expires) == [user |-> user, until |-> until, expires |-> expires]

\* What a client holds, and the column credentials: two tokens of a user are the same
\* text if they expire in the same second.
Credentials(row) == <<row.user, Seconds(row.until)>>

AuthInit ==
  /\ now = 0 /\ zone \in Zones
  /\ users = <<>> /\ tokens = EmptyBag /\ excused = {}
  /\ pc = [t \in Tasks |-> "idle"]
  /\ form = [t \in Tasks |-> None]
  /\ memo = [t \in Tasks |-> 0]
  /\ answer = 200

\* Bound: time stops at MaxTime.
Tick ==
  /\ now < MaxTime
  /\ now' = now + 1
  /\ UNCHANGED <<zone, users, tokens, excused, pc, form, memo, answer>>

-----------------------------------------------------------------------------
(* Steps of a handler.                                                     *)

Answer(t, code) ==
  /\ pc' = [pc EXCEPT ![t] = "idle"]
  /\ form' = [form EXCEPT ![t] = None]
  /\ memo' = [memo EXCEPT ![t] = 0]
  /\ answer' = code

GoOn(t, query, result) ==
  /\ pc' = [pc EXCEPT ![t] = query]
  /\ memo' = [memo EXCEPT ![t] = result]
  /\ UNCHANGED <<form, answer>>

Request(t, query, content) ==
  /\ pc[t] = "idle"
  /\ pc' = [pc EXCEPT ![t] = query]
  /\ form' = [form EXCEPT ![t] = content]
  /\ UNCHANGED <<now, zone, users, tokens, excused, memo, answer>>

\* The forms require an email of who registers, and one of both fields of who logs in.
RegisterRequest(t, name, email) ==
  Request(t, "exists", [kind |-> "register", name |-> name, email |-> email])

LoginRequest(t, kind, name, email) ==
  Request(t, "find", [kind |-> kind, name |-> name, email |-> email])

GuardedRequest(t, credentials) == Request(t, "decode", credentials)

\* A handler that has created the user of its registration, and not yet a token.
Registering(t, user) ==
  /\ pc[t] \in {"count", "create_token"}
  /\ form[t].kind = "register" /\ memo[t].user = user

\* A query of a handler raises, and nothing has been written.
QueryFails(t) ==
  /\ pc[t] \notin {"idle", "decode"}
  /\ Answer(t, 500)
  /\ excused' = excused \cup {i \in DOMAIN users : Registering(t, i)}
  /\ UNCHANGED <<now, zone, users, tokens>>

-----------------------------------------------------------------------------
(* AuthenticationController.register and login.                            *)

\* A column without a value equals nothing.
Has(value, wanted) == wanted # None /\ value = wanted

\* Mutant: register looks for the username only.
ExistsByName(t) ==
  /\ pc[t] = "exists"
  /\ IF \E i \in DOMAIN users : Has(users[i].name, form[t].name)
       THEN Answer(t, 400)
       ELSE GoOn(t, "create_user", Len(users))
  /\ UNCHANGED <<now, zone, users, tokens, excused>>

Exists(t) ==
  /\ pc[t] = "exists"
  /\ IF \E i \in DOMAIN users : \/ Has(users[i].name, form[t].name)
                                \/ Has(users[i].email, form[t].email)
       THEN Answer(t, 400)
       ELSE GoOn(t, "create_user", Len(users))
  /\ UNCHANGED <<now, zone, users, tokens, excused>>

\* User.username is unique.
Insertable(name) == \A i \in DOMAIN users : users[i].name # name

\* The start of create_access_token: the expiry of the web token.
TokenFor(user) == [user |-> user, until |-> now + Lifetime]

\* register makes up a name for who gives none.  saw is history: the size of the table
\* when the handler looked for name and email.
CreateUser(t) ==
  /\ pc[t] = "create_user"
  /\ \E name \in IF form[t].name = None THEN Usernames ELSE {form[t].name} :
       IF Insertable(name)
         THEN /\ users' = Append(users, [name |-> name, email |-> form[t].email, saw |-> memo[t]])
              /\ GoOn(t, "count", TokenFor(Len(users) + 1))
         ELSE Answer(t, 500) /\ UNCHANGED users
  /\ UNCHANGED <<now, zone, tokens, excused>>

\* authenticate_user: by name if there is one, else by email; two matches are an error.
Matches(f) ==
  {i \in DOMAIN users : IF f.name # None THEN users[i].name = f.name ELSE users[i].email = f.email}

Find(t, rightPassword) ==
  /\ pc[t] = "find"
  /\ IF \E i, j \in Matches(form[t]) : i # j THEN Answer(t, 500)
     ELSE IF Matches(form[t]) = {} \/ ~rightPassword THEN Answer(t, 404)
     ELSE LET user == CHOOSE i \in Matches(form[t]) : TRUE
          IN IF form[t].kind = "logout" THEN GoOn(t, "delete", user)
             ELSE GoOn(t, "count", TokenFor(user))
  /\ UNCHANGED <<now, zone, users, tokens, excused>>

\* Mutant: the expiry of the row is computed first, that of the web token after the query.
CountSwapped(t) ==
  /\ pc[t] = "count"
  /\ GoOn(t, "create_token", Row(memo[t].user, now + Lifetime, memo[t].until))
  /\ UNCHANGED <<now, zone, users, tokens, excused>>

\* The count is for the name of the token.  The expiry of the row is computed after it.
Count(t) ==
  /\ pc[t] = "count"
  /\ GoOn(t, "create_token", Row(memo[t].user, memo[t].until, now + Lifetime))
  /\ UNCHANGED <<now, zone, users, tokens, excused>>

CreateToken(t) ==
  /\ pc[t] = "create_token"
  /\ tokens' = tokens (+) SetToBag({memo[t]})
  /\ Answer(t, 200)
  /\ UNCHANGED <<now, zone, users, excused>>

\* Mutant: logout deletes the tokens of all users.
DeleteEverybodys(t) ==
  /\ pc[t] = "delete"
  /\ tokens' = EmptyBag
  /\ excused' = excused \cup {memo[t]}
  /\ Answer(t, 200)
  /\ UNCHANGED <<now, zone, users>>

\* logout deletes all tokens of the user.
Delete(t) ==
  /\ pc[t] = "delete"
  /\ tokens' = [r \in {r \in DOMAIN tokens : r.user # memo[t]} |-> tokens[r]]
  /\ excused' = excused \cup {memo[t]}
  /\ Answer(t, 200)
  /\ UNCHANGED <<now, zone, users>>

-----------------------------------------------------------------------------
(* JWTAuthentication.handle: the guard of a route.                         *)

\* Mutant: a token is expired from its last second on.
ExpiredInLastSecond(credentials) == credentials[2] <= Seconds(now) - zone

\* jwt.decode compares whole seconds of UTC.
Expired(credentials) == credentials[2] < Seconds(now) - zone

\* The web token is decoded and the query is built, with the time of that moment.
Decode(t) ==
  /\ pc[t] = "decode"
  /\ IF Expired(form[t]) THEN Answer(t, 401) ELSE GoOn(t, "guard", now)
  /\ UNCHANGED <<now, zone, users, tokens, excused>>

\* where_actual_token: rows of these credentials that had not expired at that time.
Actual(credentials, at) ==
  {r \in DOMAIN tokens : Credentials(r) = credentials /\ r.expires > at}

\* Two rows are more than get_or_none accepts.
Guard(t) ==
  /\ pc[t] = "guard"
  /\ LET rows == Actual(form[t], memo[t])
     IN Answer(t, CASE rows = {}                                  -> 404
                    [] \E r \in rows : rows = {r} /\ tokens[r] = 1 -> 200
                    [] OTHER                                      -> 500)
  /\ UNCHANGED <<now, zone, users, tokens, excused>>

-----------------------------------------------------------------------------
\* A request arrives.
Arrives(t) ==
  \/ \E email \in Emails, name \in Usernames \cup {None} : RegisterRequest(t, name, email)
  \/ \E kind \in {"login", "logout"} :
       \/ \E name \in Usernames : LoginRequest(t, kind, name, None)
       \/ \E email \in Emails : LoginRequest(t, kind, None, email)
  \/ \E r \in DOMAIN tokens : GuardedRequest(t, Credentials(r))

\* A query is answered.
Queried(t) ==
  \/ Exists(t) \/ CreateUser(t) \/ Count(t) \/ CreateToken(t) \/ Delete(t) \/ Guard(t)
  \/ \E rightPassword \in BOOLEAN : Find(t, rightPassword)

-----------------------------------------------------------------------------
(* Correctness properties.                                                 *)

\* The tables, and what each handler has read, are of the form their queries expect.
AuthTypeOK ==
  /\ now \in 0..MaxTime /\ zone \in Zones
  /\ answer \in {200, 400, 401, 404, 500}
  /\ IsABag(tokens) /\ excused \subseteq DOMAIN users
  /\ \A r \in DOMAIN tokens : r.user \in DOMAIN users /\ r.until <= r.expires
  /\ \A t \in Tasks :
       /\ pc[t] \in {"count", "create_token"} => memo[t].user \in DOMAIN users
       /\ pc[t] \in {"create_token"} => memo[t].until <= memo[t].expires
       /\ pc[t] = "delete" => memo[t] \in DOMAIN users
       /\ pc[t] = "guard" => memo[t] <= now

\* Registration: user and token are two writes with a query in between.  However requests
\* overlap, a user without a token is one who is just being registered, who logged out, or
\* whose registration failed between the two: that one exists, and cannot register again.
TokenlessOnlyByFailure ==
  \A i \in DOMAIN users :
    \/ \E r \in DOMAIN tokens : r.user = i
    \/ i \in excused \/ \E t \in Tasks : Registering(t, i)

\* Registration: two users have one email, and login by email fails for both, only if the
\* second had looked for it before the first was created.
EmailTwiceOnlyByRace ==
  \A i, j \in DOMAIN users : i < j /\ users[i].email = users[j].email => users[j].saw < i

\* The lifetime of a token is not over, and not for a server that takes local time for UTC.
Fresh(r, at) == at < r.until /\ at - 2 * zone < r.until

\* The guard: a token that has one row, as long as it is in the table, is accepted for its
\* lifetime, cut short only where local time is behind UTC, unless the query itself fails.
TokenServesItsLifetime ==
  [][\A t \in Tasks : \A r \in DOMAIN tokens :
       /\ pc[t] \in {"decode", "guard"} /\ pc'[t] = "idle"
       /\ Credentials(r) = form[t]
       /\ Fresh(r, IF pc[t] = "guard" THEN memo[t] ELSE now)
       /\ tokens[r] = 1 /\ \A s \in DOMAIN tokens \ {r} : Credentials(s) # form[t]
       => answer' \in {200, 500}]_auth
=============================================================================
