---------------------------- MODULE AccessProofs ----------------------------
(***************************************************************************)
(* One sign-in per attempt, rights as fresh as the request, and a profile  *)
(* for every account, for any number of users, attempts, callbacks and     *)
(* requests.                                                               *)
(***************************************************************************)
EXTENDS Access, TLAPS

Session == [user : Users, expires : Nat]

Types ==
    /\ now \in Nat
    /\ users \in [Users -> Account \cup {Unused}]
    /\ pending \in [Attempts -> Nat \cup {Unused}]
    /\ sessions \in [Callbacks -> Session \cup {Unused}]
    /\ login \in [Callbacks -> Login \cup {Unused}]
    /\ request \in [Requests -> Request \cup {Unused}]

\* An attempt somebody has answered is not pending any more.
Answered == {c \in Callbacks : login[c] # Unused}
AttemptsOnce ==
    /\ \A c \in Answered : pending[login[c].attempt] = Unused
    /\ OneCallbackPerAttempt

\* Whoever is past register_login's INSERT, or signed in, has an account.
AccountsThere ==
    /\ \A c \in Callbacks : sessions[c] # Unused => users[sessions[c].user] \in Account
    /\ \A c \in Callbacks :
          At(c, "guest") \/ At(c, "bootstrap") \/ At(c, "session") =>
              users[login[c].user] \in Account

\* What a request has loaded, and whatever it may still load, its user was
\* and had since it arrived.
Fresh(q) ==
    request[q] # Unused =>
        /\ request[q].active => q \in active
        /\ \A p \in request[q].profiles : <<q, p>> \in granted
        /\ q \in InFlight =>
              /\ users[request[q].user] \in Account
              /\ users[request[q].user].active => q \in active
              /\ \A p \in users[request[q].user].profiles : <<q, p>> \in granted
              /\ ~Dispatched(request[q].cmd) =>
                    request[q].cmd.user \in Users /\ users[request[q].cmd.user] \in Account

AllFresh == \A q \in Requests : Fresh(q)

\* The task that still has to grant an account its first profile.
Grants(c, u) ==
    /\ login[c] # Unused /\ login[c].user = u
    /\ At(c, "guest") \/ (At(c, "bootstrap") /\ u = Bootstrap)

HasProfile(u) == users[u].profiles \cap {"guest", "admin"} # {}

Registered ==
    \A u \in Users : users[u] # Unused /\ u \notin touched =>
        HasProfile(u) \/ \E c \in Callbacks : Grants(c, u)

IInv == Types /\ AttemptsOnce /\ AccountsThere /\ AllFresh /\ Registered

USE AccessAssumption, UnusedAssumption

---------------------------------------------------------------------------
\* Lemmas about the state functions.

Stages == {"refused", "find", "insert", "guest", "bootstrap", "session", "done"}

LEMMA GoesMoves ==
    ASSUME Types, NEW c \in Callbacks, login[c] # Unused, NEW s \in Stages, Goes(c, s)
    PROVE  /\ login' \in [Callbacks -> Login \cup {Unused}]
           /\ login'[c] \in Login /\ login'[c].stage = s
           /\ login'[c].attempt = login[c].attempt /\ login'[c].user = login[c].user
           /\ \A d \in Callbacks \ {c} : login'[d] = login[d]
           /\ login[c] \in Login
  <1>1. login[c] \in Login
    BY DEF Types
  <1>2. [login[c] EXCEPT !.stage = s] \in Login
    BY <1>1 DEF Login, Stages
  <1>3. login' = [login EXCEPT ![c] = [login[c] EXCEPT !.stage = s]]
    BY <1>1 DEF Goes, Types
  <1>4. login'[c] = [login[c] EXCEPT !.stage = s]
    BY <1>3 DEF Types
  <1>5. login' \in [Callbacks -> Login \cup {Unused}]
    BY <1>2, <1>3 DEF Types
  <1>6. /\ login'[c].stage = s
        /\ login'[c].attempt = login[c].attempt /\ login'[c].user = login[c].user
    BY <1>1, <1>4 DEF Login
  <1> QED BY <1>1, <1>2, <1>3, <1>4, <1>5, <1>6 DEF Types

\* A task of callback that goes on answers the attempt it had answered.
LEMMA AttemptsCarry ==
    ASSUME IInv, UNCHANGED pending,
           \A c \in Callbacks : login'[c] # Unused =>
               login[c] # Unused /\ login'[c].attempt = login[c].attempt
    PROVE  AttemptsOnce'
  BY DEF IInv, AttemptsOnce, Answered, OneCallbackPerAttempt

\* Accounts come and change, and never go.
Grows(new) ==
    /\ new \in [Users -> Account \cup {Unused}]
    /\ \A u \in Users : users[u] \in Account => new[u] \in Account

Accounts == IF users' = users /\ active' = active /\ granted' = granted THEN TRUE
            ELSE Grows(users') /\ SetUsers(users')

\* A request that is answered, dropped or moved on keeps what it loaded.
Carries(q) ==
    request'[q] # Unused =>
        /\ request[q] # Unused
        /\ request'[q].active = request[q].active
        /\ request'[q].profiles = request[q].profiles
        /\ request'[q].user = request[q].user /\ request'[q].cmd = request[q].cmd
        /\ q \in InFlight' => q \in InFlight

LEMMA FreshCarries ==
    ASSUME IInv, Accounts, NEW q \in Requests, Carries(q)
    PROVE  Fresh(q)'
  <1>1. Fresh(q)
    BY DEF IInv, AllFresh
  <1>2. CASE users' = users /\ active' = active /\ granted' = granted
    BY <1>1, <1>2 DEF Fresh, Carries
  <1>3. CASE Grows(users') /\ SetUsers(users')
    <2>1. active \subseteq active' /\ granted \subseteq granted'
      BY <1>3 DEF SetUsers
    <2> SUFFICES ASSUME request'[q] # Unused PROVE Fresh(q)'
      BY DEF Fresh
    <2>2. /\ request'[q].active => q \in active'
          /\ \A p \in request'[q].profiles : <<q, p>> \in granted'
      BY <1>1, <2>1 DEF Fresh, Carries
    <2>3. ASSUME q \in InFlight'
          PROVE  /\ users'[request'[q].user] \in Account
                 /\ users'[request'[q].user].active => q \in active'
                 /\ \A p \in users'[request'[q].user].profiles : <<q, p>> \in granted'
                 /\ ~Dispatched(request'[q].cmd) =>
                       /\ request'[q].cmd.user \in Users
                       /\ users'[request'[q].cmd.user] \in Account
      <3>1. q \in InFlight /\ request'[q].user = request[q].user
            /\ request'[q].cmd = request[q].cmd /\ request[q] \in Request
        BY <2>3 DEF Carries, IInv, Types
      <3>2. users[request[q].user] \in Account /\ request[q].user \in Users
        BY <1>1, <3>1 DEF Fresh, Carries, Request
      <3>3. users'[request[q].user] \in Account
        BY <1>3, <3>2 DEF Grows
      <3>4. users'[request[q].user].active => q \in active'
        BY <1>3, <3>1 DEF SetUsers
      <3>5. \A p \in users'[request[q].user].profiles : <<q, p>> \in granted'
        <4> TAKE p \in users'[request[q].user].profiles
        <4>1. p \in Profiles
          BY <3>3 DEF Account
        <4> QED BY <1>3, <3>1, <4>1 DEF SetUsers
      <3>6. ~Dispatched(request[q].cmd) =>
               request[q].cmd.user \in Users /\ users'[request[q].cmd.user] \in Account
        BY <1>1, <1>3, <3>1 DEF Fresh, Carries, Grows
      <3> QED BY <3>1, <3>3, <3>4, <3>5, <3>6
    <2> QED BY <2>2, <2>3 DEF Fresh
  <1> QED BY <1>2, <1>3 DEF Accounts

LEMMA RegisteredCarries ==
    ASSUME IInv, UNCHANGED users, touched \subseteq touched',
           \A c \in Callbacks, u \in Users : Grants(c, u) => Grants(c, u)' \/ u \in touched'
    PROVE  Registered'
  BY DEF IInv, Registered, HasProfile

---------------------------------------------------------------------------
\* Signing in.

LEMMA StartLoginKeeps ==
    ASSUME IInv, NEW a \in Attempts, StartLogin(a)
    PROVE  IInv'
  <1> USE DEF IInv
  <1>1. /\ pending' = [b \in Attempts |->
              IF b = a THEN now
              ELSE IF pending[b] # Unused /\ now - pending[b] < LoginTTL
                     THEN pending[b] ELSE Unused]
        /\ \A c \in Callbacks : login[c] # Unused => login[c].attempt # a
        /\ UNCHANGED <<now, users, sessions, login, request, active, granted, touched>>
    BY DEF StartLogin, history
  <1>2. \A b \in Attempts : pending[b] \in Nat \cup {Unused}
    BY DEF Types
  <1>3. pending' \in [Attempts -> Nat \cup {Unused}]
    BY <1>1, <1>2 DEF Types
  <1>4. Types'
    BY <1>1, <1>3 DEF Types
  <1>5. \A c \in Answered : login[c].attempt \in Attempts
    BY DEF Types, Answered, Login
  <1>6. AttemptsOnce'
    BY <1>1, <1>5 DEF AttemptsOnce, Answered, OneCallbackPerAttempt
  <1>7. AccountsThere' /\ AllFresh' /\ Registered'
    BY <1>1 DEF AccountsThere, At, AllFresh, Fresh, InFlight, Registered, HasProfile, Grants
  <1> QED BY <1>4, <1>6, <1>7

LEMMA CallbackKeeps ==
    ASSUME IInv, NEW c \in Callbacks, NEW a \in Attempts, NEW u \in Users, Callback(c, a, u)
    PROVE  IInv'
  <1> USE DEF IInv
  <1> DEFINE new == [attempt |-> a, user |-> u,
                     stage |-> IF now - pending[a] > LoginTTL THEN "refused" ELSE "find"]
  <1>1. /\ login[c] = Unused /\ pending[a] # Unused
        /\ pending' = [pending EXCEPT ![a] = Unused]
        /\ login' = [login EXCEPT ![c] = new]
        /\ UNCHANGED <<now, users, sessions, request, active, granted, touched>>
    BY DEF Callback, Consumed, history
  <1>2. new \in Login /\ new.attempt = a /\ new.stage \in {"refused", "find"}
    BY DEF Login
  <1> HIDE DEF new
  <1>3. Types'
    BY <1>1, <1>2 DEF Types
  <1>4. login'[c] = new /\ \A d \in Callbacks \ {c} : login'[d] = login[d]
    BY <1>1 DEF Types
  <1>5. \A d \in Answered : login[d].attempt # a /\ d # c
    BY <1>1 DEF AttemptsOnce, Answered
  <1>6. \A d \in Answered' : login'[d].attempt \in Attempts /\ pending'[login'[d].attempt] = Unused
    <2> TAKE d \in Answered'
    <2>1. CASE d = c
      BY <1>1, <1>2, <1>4, <2>1 DEF Types
    <2>2. CASE d # c
      <3>1. d \in Answered /\ login'[d] = login[d] /\ login[d] \in Login
        BY <1>4, <2>2 DEF Answered, Types
      <3>2. pending[login[d].attempt] = Unused /\ login[d].attempt \in Attempts
        BY <3>1 DEF AttemptsOnce, Login
      <3> QED BY <1>1, <3>1, <3>2 DEF Types
    <2> QED BY <2>1, <2>2
  <1>7. OneCallbackPerAttempt'
    BY <1>2, <1>4, <1>5 DEF OneCallbackPerAttempt, AttemptsOnce, Answered
  <1>8. AttemptsOnce'
    BY <1>6, <1>7 DEF AttemptsOnce
  <1>9. AccountsThere'
    BY <1>1, <1>2, <1>4 DEF AccountsThere, At
  <1>10. AllFresh'
    BY <1>1 DEF AllFresh, Fresh, InFlight
  <1>11. Registered'
    BY <1>1, <1>4, RegisteredCarries DEF Grants, At
  <1> QED BY <1>3, <1>8, <1>9, <1>10, <1>11

\* A step of register_login, or of callback behind it.
LEMMA LoginMoves ==
    ASSUME IInv, NEW c \in Callbacks, login[c] # Unused, NEW s \in Stages, Goes(c, s),
           UNCHANGED <<now, pending, request>>, Accounts,
           sessions' \in [Callbacks -> Session \cup {Unused}],
           \A d \in Callbacks : sessions'[d] # Unused => users'[sessions'[d].user] \in Account,
           s \in {"guest", "bootstrap", "session"} => users'[login[c].user] \in Account,
           Registered'
    PROVE  IInv'
  <1> USE DEF IInv
  <1>1. /\ login' \in [Callbacks -> Login \cup {Unused}]
        /\ login'[c].stage = s /\ login'[c].user = login[c].user
        /\ login'[c].attempt = login[c].attempt
        /\ \A d \in Callbacks \ {c} : login'[d] = login[d]
    BY GoesMoves
  <1>2. users' \in [Users -> Account \cup {Unused}]
        /\ \A u \in Users : users[u] \in Account => users'[u] \in Account
    BY DEF Accounts, Grows, Types
  <1>3. Types'
    BY <1>1, <1>2 DEF Types
  <1>4. AttemptsOnce'
    BY <1>1, AttemptsCarry
  <1>5. \A d \in Callbacks : login[d] # Unused => login[d].user \in Users
    BY DEF Types, Login
  <1>6. AccountsThere'
    BY <1>1, <1>2, <1>5 DEF AccountsThere, At
  <1>7. AllFresh'
    BY FreshCarries DEF AllFresh, Carries, InFlight
  <1> QED BY <1>3, <1>4, <1>6, <1>7

LEMMA SessionsGood ==
    IInv => /\ sessions \in [Callbacks -> Session \cup {Unused}]
            /\ \A d \in Callbacks :
                  sessions[d] # Unused =>
                      sessions[d].user \in Users /\ users[sessions[d].user] \in Account
  BY DEF IInv, Types, AccountsThere, Session

LEMMA FindAccountKeeps ==
    ASSUME IInv, NEW c \in Callbacks, FindAccount(c)
    PROVE  IInv'
  <1> DEFINE u == users[login[c].user]
             s == IF u = Unused THEN "insert"
                  ELSE IF ~u.active THEN "refused" ELSE "bootstrap"
  <1>1. /\ login[c] # Unused /\ login[c].stage = "find" /\ Goes(c, s)
        /\ UNCHANGED <<now, users, pending, sessions, request, active, granted, touched>>
    BY DEF FindAccount, At, history
  <1>2. s \in Stages
    BY DEF Stages
  <1>3. login[c].user \in Users
    BY <1>1 DEF IInv, Types, Login
  <1>4. s \in {"guest", "bootstrap", "session"} => u \in Account
    BY <1>3 DEF IInv, Types
  <1> HIDE DEF s
  <1>5. \A d \in Callbacks \ {c} : login'[d] = login[d]
    BY <1>1, <1>2, GoesMoves DEF IInv
  <1>6. Registered'
    BY <1>1, <1>5, RegisteredCarries DEF Grants, At
  <1> QED BY <1>1, <1>2, <1>4, <1>6, SessionsGood, LoginMoves DEF Accounts

\* What a grant or an INSERT does to the accounts.
LEMMA AccountSet ==
    ASSUME IInv, NEW u \in Users, NEW acc \in Account,
           SetUsers([users EXCEPT ![u] = acc])
    PROVE  /\ Grows(users') /\ Accounts
           /\ users'[u] = acc /\ \A v \in Users \ {u} : users'[v] = users[v]
  <1>1. users' = [users EXCEPT ![u] = acc]
    BY DEF SetUsers
  <1>2. Grows(users')
    BY <1>1 DEF Grows, IInv, Types
  <1>3. SetUsers(users')
    BY <1>1
  <1> QED BY <1>1, <1>2, <1>3 DEF Accounts, IInv, Types

\* A profile more for an account that is there.
LEMMA ProfileGranted ==
    ASSUME IInv, NEW u \in Users, users[u] \in Account, NEW p \in Profiles,
           SetUsers(WithProfile(u, p))
    PROVE  /\ Grows(users') /\ Accounts
           /\ users'[u].profiles = users[u].profiles \cup {p}
           /\ \A v \in Users \ {u} : users'[v] = users[v]
  <1> DEFINE acc == [active |-> users[u].active, profiles |-> users[u].profiles \cup {p}]
  <1>1. acc \in Account /\ acc.profiles = users[u].profiles \cup {p}
    BY DEF Account
  <1>2. [users[u] EXCEPT !.profiles = users[u].profiles \cup {p}] = acc
    BY DEF Account
  <1>3. WithProfile(u, p) =
            [users EXCEPT ![u] = [users[u] EXCEPT !.profiles = users[u].profiles \cup {p}]]
    BY DEF WithProfile, IInv, Types
  <1>4. SetUsers([users EXCEPT ![u] = acc])
    BY <1>2, <1>3
  <1> HIDE DEF acc
  <1> QED BY <1>1, <1>4, AccountSet

\* A session stays good while accounts only come and change.
LEMMA SessionsStay ==
    ASSUME IInv, Grows(users'), UNCHANGED sessions
    PROVE  /\ sessions' \in [Callbacks -> Session \cup {Unused}]
           /\ \A d \in Callbacks : sessions'[d] # Unused => users'[sessions'[d].user] \in Account
  BY SessionsGood DEF Grows

LEMMA InsertAccountKeeps ==
    ASSUME IInv, NEW c \in Callbacks, InsertAccount(c)
    PROVE  IInv'
  <1>0. PICK u \in Users : u = login[c].user /\ login[c] # Unused
    BY DEF InsertAccount, At, IInv, Types, Login
  <1> DEFINE s == IF u = Bootstrap THEN "bootstrap" ELSE "guest"
             acc == [active |-> TRUE, profiles |-> {}]
  <1>1. /\ login[c].stage = "insert" /\ u = login[c].user /\ login[c] # Unused
        /\ UNCHANGED <<now, pending, sessions, request, touched>>
    BY <1>0 DEF InsertAccount, At
  <1>2. CASE users[u] # Unused
    <2>1. Goes(c, "refused") /\ UNCHANGED <<users, active, granted>>
      BY <1>1, <1>2 DEF InsertAccount
    <2>2. \A d \in Callbacks \ {c} : login'[d] = login[d]
      BY <1>1, <2>1, GoesMoves DEF IInv, Stages
    <2>3. Registered'
      BY <1>1, <2>1, <2>2, RegisteredCarries DEF Grants, At
    <2> QED BY <1>1, <2>1, <2>3, SessionsGood, LoginMoves DEF Accounts, Stages
  <1>3. CASE users[u] = Unused
    <2>1. SetUsers([users EXCEPT ![u] = acc]) /\ Goes(c, s)
      BY <1>1, <1>3 DEF InsertAccount
    <2>2. acc \in Account /\ s \in Stages
      BY DEF Account, Stages
    <2>3. /\ Grows(users') /\ Accounts
          /\ users'[u] = acc /\ \A v \in Users \ {u} : users'[v] = users[v]
      BY <1>1, <2>1, <2>2, AccountSet
    <2>4. /\ login'[c] \in Login /\ login'[c].stage = s /\ login'[c].user = u
          /\ \A d \in Callbacks \ {c} : login'[d] = login[d]
      BY <1>1, <2>1, <2>2, GoesMoves DEF IInv
    <2>5. users'[u] # Unused /\ u \notin touched' => \E d \in Callbacks : Grants(d, u)'
      <3>1. login'[c] # Unused
        BY <2>4
      <3>2. Grants(c, u)'
        BY <2>4, <3>1 DEF Grants, At
      <3> QED BY <3>2
    <2>6. \A v \in Users \ {u} : \A d \in Callbacks : Grants(d, v) => Grants(d, v)'
      BY <1>1, <2>4 DEF Grants, At
    <2>7. \A v \in Users \ {u} : users'[v] # Unused /\ v \notin touched' =>
              HasProfile(v)' \/ \E d \in Callbacks : Grants(d, v)'
      BY <1>1, <2>3, <2>6 DEF IInv, Registered, HasProfile
    <2>8. Registered'
      BY <2>5, <2>7 DEF Registered
    <2> QED BY <1>1, <2>1, <2>2, <2>3, <2>8, SessionsStay, LoginMoves
  <1> QED BY <1>2, <1>3

LEMMA GrantGuestKeeps ==
    ASSUME IInv, NEW c \in Callbacks, GrantGuest(c)
    PROVE  IInv'
  <1>0. PICK u \in Users : u = login[c].user /\ login[c] # Unused
    BY DEF GrantGuest, At, IInv, Types, Login
  <1>1. /\ At(c, "guest") /\ users[u] \in Account
        /\ SetUsers(WithProfile(u, "guest")) /\ Goes(c, "session")
        /\ UNCHANGED <<now, pending, sessions, request, touched>>
    BY <1>0 DEF GrantGuest, IInv, AccountsThere
  <1>2. /\ Grows(users') /\ Accounts
        /\ users'[u].profiles = users[u].profiles \cup {"guest"}
        /\ \A v \in Users \ {u} : users'[v] = users[v]
    BY <1>1, ProfileGranted DEF Profiles
  <1>3. \A d \in Callbacks \ {c} : login'[d] = login[d]
    BY <1>0, <1>1, GoesMoves DEF IInv, Stages
  <1>4. HasProfile(u)'
    BY <1>2 DEF HasProfile
  <1>5. \A v \in Users \ {u} : \A d \in Callbacks : Grants(d, v) => Grants(d, v)'
    BY <1>0, <1>3 DEF Grants, At
  <1>6. \A v \in Users \ {u} : users'[v] # Unused /\ v \notin touched' =>
            HasProfile(v)' \/ \E d \in Callbacks : Grants(d, v)'
    BY <1>1, <1>2, <1>5 DEF IInv, Registered, HasProfile
  <1>7. Registered'
    BY <1>4, <1>6 DEF Registered
  <1>8. users'[login[c].user] \in Account
    BY <1>0, <1>1, <1>2 DEF Grows
  <1> QED BY <1>0, <1>1, <1>2, <1>7, <1>8, SessionsStay, LoginMoves DEF Stages

LEMMA GrantBootstrapKeeps ==
    ASSUME IInv, NEW c \in Callbacks, GrantBootstrap(c)
    PROVE  IInv'
  <1>0. PICK u \in Users : u = login[c].user /\ login[c] # Unused
    BY DEF GrantBootstrap, At, IInv, Types, Login
  <1>1. /\ At(c, "bootstrap") /\ users[u] \in Account /\ Goes(c, "session")
        /\ UNCHANGED <<now, pending, sessions, request, touched>>
    BY <1>0 DEF GrantBootstrap, IInv, AccountsThere
  <1>2. \A d \in Callbacks \ {c} : login'[d] = login[d]
    BY <1>0, <1>1, GoesMoves DEF IInv, Stages
  <1>3. CASE u # Bootstrap
    <2>1. UNCHANGED <<users, active, granted>>
      BY <1>0, <1>3 DEF GrantBootstrap
    <2>2. Registered'
      BY <1>0, <1>1, <1>2, <1>3, <2>1, RegisteredCarries DEF Grants, At
    <2> QED BY <1>0, <1>1, <2>1, <2>2, SessionsGood, LoginMoves DEF Accounts, Stages
  <1>4. CASE u = Bootstrap
    <2>1. SetUsers(WithProfile(u, "admin"))
      BY <1>0, <1>4 DEF GrantBootstrap
    <2>2. /\ Grows(users') /\ Accounts
          /\ users'[u].profiles = users[u].profiles \cup {"admin"}
          /\ \A v \in Users \ {u} : users'[v] = users[v]
      BY <1>1, <2>1, ProfileGranted DEF Profiles
    <2>3. HasProfile(u)'
      BY <2>2 DEF HasProfile
    <2>4. \A v \in Users \ {u} : \A d \in Callbacks : Grants(d, v) => Grants(d, v)'
      BY <1>0, <1>2 DEF Grants, At
    <2>5. \A v \in Users \ {u} : users'[v] # Unused /\ v \notin touched' =>
              HasProfile(v)' \/ \E d \in Callbacks : Grants(d, v)'
      BY <1>1, <2>2, <2>4 DEF IInv, Registered, HasProfile
    <2>6. Registered'
      BY <2>3, <2>5 DEF Registered
    <2>7. users'[login[c].user] \in Account
      BY <1>0, <1>1, <2>2 DEF Grows
    <2> QED BY <1>0, <1>1, <2>2, <2>6, <2>7, SessionsStay, LoginMoves DEF Stages
  <1> QED BY <1>3, <1>4

LEMMA OpenSessionKeeps ==
    ASSUME IInv, NEW c \in Callbacks, OpenSession(c)
    PROVE  IInv'
  <1>0. PICK u \in Users : u = login[c].user /\ login[c] # Unused
    BY DEF OpenSession, At, IInv, Types, Login
  <1>1. /\ At(c, "session") /\ users[u] \in Account /\ Goes(c, "done")
        /\ UNCHANGED <<now, users, pending, request, active, granted, touched>>
    BY <1>0 DEF OpenSession, IInv, AccountsThere, history
  <1>2. sessions' = [d \in Callbacks |->
            IF d = c THEN [user |-> u, expires |-> now + SessionTTL]
            ELSE IF sessions[d] # Unused /\ sessions[d].expires > now
                   THEN sessions[d] ELSE Unused]
    BY <1>0 DEF OpenSession
  <1>3. [user |-> u, expires |-> now + SessionTTL] \in Session
    BY DEF Session, IInv, Types
  <1>4. sessions' \in [Callbacks -> Session \cup {Unused}]
    BY <1>2, <1>3, SessionsGood
  <1>5. \A d \in Callbacks : sessions'[d] # Unused => users'[sessions'[d].user] \in Account
    BY <1>1, <1>2, SessionsGood
  <1>6. \A d \in Callbacks \ {c} : login'[d] = login[d]
    BY <1>0, <1>1, GoesMoves DEF IInv, Stages
  <1>7. Registered'
    BY <1>0, <1>1, <1>6, RegisteredCarries DEF Grants, At
  <1> QED BY <1>0, <1>1, <1>4, <1>5, <1>7, LoginMoves DEF Accounts, Stages

LEMMA LoginBreaksKeeps ==
    ASSUME IInv, NEW c \in Callbacks, LoginBreaks(c)
    PROVE  IInv'
  <1>1. /\ login[c] # Unused /\ Goes(c, "refused")
        /\ touched' = touched \cup Unfinished(c)
        /\ UNCHANGED <<now, users, pending, sessions, request, active, granted>>
    BY DEF LoginBreaks
  <1>2. \A d \in Callbacks \ {c} : login'[d] = login[d]
    BY <1>1, GoesMoves DEF IInv, Stages
  <1>3. Registered'
    BY <1>1, <1>2, RegisteredCarries DEF Grants, At, Unfinished
  <1> QED BY <1>1, <1>3, SessionsGood, LoginMoves DEF Accounts, Stages

\* A session that ends, by its user or by its time.
LEMMA SessionEnds ==
    ASSUME IInv, NEW c \in Callbacks, Logout(c) \/ Expire(c)
    PROVE  IInv'
  <1>1. /\ sessions' = [sessions EXCEPT ![c] = Unused]
        /\ UNCHANGED <<now, users, pending, login, request, active, granted, touched>>
    BY DEF Logout, Expire, history
  <1>2. Types'
    BY <1>1 DEF IInv, Types
  <1>3. AttemptsOnce' /\ AccountsThere'
    BY <1>1 DEF IInv, Types, AttemptsOnce, Answered, OneCallbackPerAttempt, AccountsThere, At
  <1>4. AllFresh' /\ Registered'
    BY <1>1 DEF IInv, AllFresh, Fresh, InFlight, Registered, HasProfile, Grants, At
  <1> QED BY <1>2, <1>3, <1>4 DEF IInv

---------------------------------------------------------------------------
\* Commands.

Phases == {"load", "profiles", "gate", "run", "await", "answered", "gone"}

LEMMA MovesMoves ==
    ASSUME Types, NEW q \in Requests, request[q] # Unused, NEW s \in Phases, Moves(q, s),
           s \in {"load", "profiles", "gate", "run"} => q \in InFlight
    PROVE  /\ request' \in [Requests -> Request \cup {Unused}]
           /\ \A r \in Requests : Carries(r)
  <1>1. request[q] \in Request
    BY DEF Types
  <1>2. [request[q] EXCEPT !.stage = s] \in Request
    BY <1>1 DEF Request, Phases
  <1>3. request' = [request EXCEPT ![q] = [request[q] EXCEPT !.stage = s]]
    BY <1>1 DEF Moves, Types
  <1>4. request' \in [Requests -> Request \cup {Unused}]
    BY <1>2, <1>3 DEF Types
  <1>5. request'[q] = [request[q] EXCEPT !.stage = s]
    BY <1>3 DEF Types
  <1>6. /\ request'[q].stage = s /\ request'[q].active = request[q].active
        /\ request'[q].profiles = request[q].profiles
        /\ request'[q].user = request[q].user /\ request'[q].cmd = request[q].cmd
    BY <1>1, <1>5 DEF Request
  <1>7. Carries(q)
    BY <1>6 DEF Carries, InFlight
  <1>8. \A r \in Requests \ {q} : Carries(r)
    BY <1>3 DEF Carries, InFlight, Types
  <1> QED BY <1>4, <1>7, <1>8

\* A step of invoke that loads nothing.
LEMMA RequestMoves ==
    ASSUME IInv, UNCHANGED <<now, pending, sessions, login>>, Accounts,
           request' \in [Requests -> Request \cup {Unused}],
           \A q \in Requests : Carries(q), Registered'
    PROVE  IInv'
  <1> USE DEF IInv
  <1>1. users' \in [Users -> Account \cup {Unused}]
        /\ \A u \in Users : users[u] \in Account => users'[u] \in Account
    BY DEF Accounts, Grows, Types
  <1>2. Types'
    BY <1>1 DEF Types
  <1>3. AttemptsOnce'
    BY AttemptsCarry
  <1>4. \A d \in Callbacks : login[d] # Unused => login[d].user \in Users
    BY DEF Types, Login
  <1>5. AccountsThere'
    BY <1>1, <1>4, SessionsGood DEF AccountsThere, At
  <1>6. AllFresh'
    BY FreshCarries DEF AllFresh
  <1> QED BY <1>2, <1>3, <1>5, <1>6

LEMMA GateKeeps ==
    ASSUME IInv, NEW q \in Requests,
           Deny(q) \/ Admit(q) \/ TakeEffect(q) \/ Record(q) \/ HangUp(q)
    PROVE  IInv'
  <1>1. /\ request[q] # Unused
        /\ UNCHANGED <<now, pending, sessions, login, users, active, granted, touched>>
    BY DEF Deny, Admit, TakeEffect, Record, HangUp, Is, history
  <1>2. PICK s \in {"answered", "run", "await", "gone"} :
            Moves(q, s) /\ (s = "run" => Is(q, "gate"))
    BY DEF Deny, Admit, TakeEffect, Record, HangUp
  <1>3. s \in {"load", "profiles", "gate", "run"} => q \in InFlight
    BY <1>1, <1>2 DEF InFlight, Is
  <1>4. /\ request' \in [Requests -> Request \cup {Unused}]
        /\ \A r \in Requests : Carries(r)
    BY <1>1, <1>2, <1>3, MovesMoves DEF IInv, Phases
  <1>5. Registered'
    BY <1>1, RegisteredCarries DEF Grants, At
  <1> QED BY <1>1, <1>4, <1>5, RequestMoves DEF Accounts

LEMMA ArriveKeeps ==
    ASSUME IInv, NEW q \in Requests, NEW c \in Callbacks, NEW cmd \in Commands,
           Arrive(q, c, cmd)
    PROVE  IInv'
  <1> DEFINE new == [stage |-> "load", user |-> sessions[c].user, cmd |-> cmd,
                     active |-> FALSE, profiles |-> {}]
  <1>1. /\ request[q] = Unused /\ sessions[c] # Unused
        /\ ~Dispatched(cmd) => users[cmd.user] # Unused
        /\ sessions' = [sessions EXCEPT ![c].expires = now + SessionTTL]
        /\ request' = [request EXCEPT ![q] = new]
        /\ active' = IF users[sessions[c].user].active THEN active \cup {q} ELSE active
        /\ granted' = granted \cup ({q} \X users[sessions[c].user].profiles)
        /\ UNCHANGED <<now, users, pending, login, touched>>
    BY DEF Arrive
  <1>2. sessions[c] \in Session /\ sessions[c].user \in Users
        /\ users[sessions[c].user] \in Account
    BY <1>1, SessionsGood
  <1>3. new \in Request
    BY <1>2 DEF Request
  <1>4. ~Dispatched(cmd) => cmd.user \in Users /\ users[cmd.user] \in Account
    BY <1>1 DEF Commands, Dispatched, IInv, Types
  <1>5. [sessions[c] EXCEPT !.expires = now + SessionTTL] \in Session
        /\ [sessions[c] EXCEPT !.expires = now + SessionTTL].user = sessions[c].user
    BY <1>2 DEF Session, IInv, Types
  <1>6. sessions' = [sessions EXCEPT ![c] =
                        [sessions[c] EXCEPT !.expires = now + SessionTTL]]
    BY <1>1, SessionsGood
  <1>7. Types'
    BY <1>1, <1>3, <1>5, <1>6 DEF IInv, Types
  <1>8. AttemptsOnce'
    BY <1>1, AttemptsCarry
  <1>9. AccountsThere'
    BY <1>1, <1>5, <1>6, SessionsGood DEF IInv, AccountsThere, At
  <1>10. Fresh(q)'
    <2>1. request'[q] = new
      BY <1>1 DEF IInv, Types
    <2>2. /\ request'[q].user = sessions[c].user /\ request'[q].cmd = cmd
          /\ request'[q].active = FALSE /\ request'[q].profiles = {}
      BY <2>1
    <2>3. users[sessions[c].user].active => q \in active'
      BY <1>1
    <2>4. \A p \in users[sessions[c].user].profiles : <<q, p>> \in granted'
      BY <1>1
    <2> HIDE DEF new
    <2> QED BY <1>1, <1>2, <1>4, <2>2, <2>3, <2>4 DEF Fresh
  <1>11. \A r \in Requests \ {q} : Fresh(r)'
    <2> TAKE r \in Requests \ {q}
    <2>1. request'[r] = request[r] /\ Fresh(r)
      BY <1>1 DEF IInv, Types, AllFresh
    <2>2. active \subseteq active' /\ granted \subseteq granted'
      BY <1>1
    <2> QED BY <1>1, <2>1, <2>2 DEF Fresh, InFlight
  <1>12. Registered'
    BY <1>1, RegisteredCarries DEF Grants, At
  <1> QED BY <1>7, <1>8, <1>9, <1>10, <1>11, <1>12 DEF IInv, AllFresh

\* load_user reads what its user is, or has, right now.
LEMMA LoadKeeps ==
    ASSUME IInv, NEW q \in Requests, LoadAccount(q) \/ LoadProfiles(q)
    PROVE  IInv'
  <1> DEFINE u == users[request[q].user]
  <1>1. /\ request[q] # Unused /\ q \in InFlight /\ request[q] \in Request
        /\ UNCHANGED <<now, users, pending, sessions, login, active, granted, touched>>
    BY DEF LoadAccount, LoadProfiles, Is, InFlight, IInv, Types, history
  <1>2. /\ u \in Account /\ (u.active => q \in active)
        /\ \A p \in u.profiles : <<q, p>> \in granted
        /\ request[q].active => q \in active
        /\ \A p \in request[q].profiles : <<q, p>> \in granted
        /\ ~Dispatched(request[q].cmd) =>
              request[q].cmd.user \in Users /\ users[request[q].cmd.user] \in Account
    BY <1>1 DEF IInv, AllFresh, Fresh
  <1>3. PICK new \in Request :
          /\ request' = [request EXCEPT ![q] = new]
          /\ new.user = request[q].user /\ new.cmd = request[q].cmd
          /\ new.active \in {request[q].active, u.active}
          /\ new.profiles \in {request[q].profiles, u.profiles}
    <2>1. CASE LoadAccount(q)
      <3> DEFINE new == [request[q] EXCEPT !.active = u.active, !.stage = "profiles"]
      <3>1. request' = [request EXCEPT ![q].active = u.active, ![q].stage = "profiles"]
        BY <2>1 DEF LoadAccount
      <3>2. request' = [request EXCEPT ![q] = new]
        BY <3>1 DEF IInv, Types
      <3>3. u.active \in BOOLEAN
        BY <1>2 DEF Account
      <3>4. new \in Request
        BY <1>1, <3>3 DEF Request
      <3>5. /\ new.user = request[q].user /\ new.cmd = request[q].cmd
            /\ new.active = u.active /\ new.profiles = request[q].profiles
        BY <1>1 DEF Request
      <3> HIDE DEF new
      <3> QED BY <3>2, <3>4, <3>5
    <2>2. CASE LoadProfiles(q)
      <3> DEFINE new == [request[q] EXCEPT !.profiles = u.profiles, !.stage = "gate"]
      <3>1. request' = [request EXCEPT ![q].profiles = u.profiles, ![q].stage = "gate"]
        BY <2>2 DEF LoadProfiles
      <3>2. request' = [request EXCEPT ![q] = new]
        BY <3>1 DEF IInv, Types
      <3>3. u.profiles \in SUBSET Profiles
        BY <1>2 DEF Account
      <3>4. new \in Request
        BY <1>1, <3>3 DEF Request
      <3>5. /\ new.user = request[q].user /\ new.cmd = request[q].cmd
            /\ new.active = request[q].active /\ new.profiles = u.profiles
        BY <1>1 DEF Request
      <3> HIDE DEF new
      <3> QED BY <3>2, <3>4, <3>5
    <2> QED BY <2>1, <2>2
  <1>4. Types' /\ request'[q] = new
    BY <1>1, <1>3 DEF IInv, Types
  <1>5. AttemptsOnce' /\ AccountsThere'
    BY <1>1, AttemptsCarry DEF IInv, AccountsThere, At
  <1>6. Fresh(q)'
    BY <1>1, <1>2, <1>3, <1>4 DEF Fresh
  <1>7. \A r \in Requests \ {q} : Fresh(r)'
    BY <1>1, <1>3 DEF IInv, Types, AllFresh, Fresh, InFlight
  <1>8. Registered'
    BY <1>1, RegisteredCarries DEF Grants, At
  <1> QED BY <1>4, <1>5, <1>6, <1>7, <1>8 DEF IInv, AllFresh

\* An administration command sets one account that is there.
LEMMA Administering ==
    ASSUME IInv, NEW cmd \in Commands, ~Dispatched(cmd), NEW v \in Users, v = cmd.user,
           users[v] \in Account
    PROVE  \E acc \in Account :
              /\ Administered(cmd) = [users EXCEPT ![v] = acc]
              /\ cmd.op = "admin_revoke_profile" \/ users[v].profiles \subseteq acc.profiles
  <1>0. \/ cmd.op = "admin_grant_profile" /\ cmd.profile \in Profiles
        \/ cmd.op = "admin_revoke_profile"
        \/ cmd.op = "admin_set_user_active" /\ cmd.active \in BOOLEAN
    BY DEF Commands, Dispatched, Profiles
  <1>1. CASE cmd.op = "admin_grant_profile" /\ cmd.profile \in Profiles
    <2> DEFINE acc == [users[v] EXCEPT !.profiles = users[v].profiles \cup {cmd.profile}]
    <2>1. acc \in Account /\ acc.profiles = users[v].profiles \cup {cmd.profile}
      BY <1>1 DEF Account
    <2>2. Administered(cmd) =
              [users EXCEPT ![v].profiles = users[v].profiles \cup {cmd.profile}]
      BY <1>1 DEF Administered, WithProfile
    <2>3. Administered(cmd) = [users EXCEPT ![v] = acc]
      BY <2>2 DEF IInv, Types
    <2> HIDE DEF acc
    <2> QED BY <2>1, <2>3
  <1>2. CASE cmd.op = "admin_revoke_profile"
    <2> DEFINE acc == [users[v] EXCEPT !.profiles = users[v].profiles \ {cmd.profile}]
    <2>1. acc \in Account
      BY DEF Account
    <2>2. Administered(cmd) =
              [users EXCEPT ![v].profiles = users[v].profiles \ {cmd.profile}]
      BY <1>2 DEF Administered
    <2>3. Administered(cmd) = [users EXCEPT ![v] = acc]
      BY <2>2 DEF IInv, Types
    <2> HIDE DEF acc
    <2> QED BY <1>2, <2>1, <2>3
  <1>3. CASE cmd.op = "admin_set_user_active" /\ cmd.active \in BOOLEAN
    <2> DEFINE acc == [users[v] EXCEPT !.active = cmd.active]
    <2>1. acc \in Account /\ acc.profiles = users[v].profiles
      BY <1>3 DEF Account
    <2>2. Administered(cmd) = [users EXCEPT ![v].active = cmd.active]
      BY <1>3 DEF Administered
    <2>3. Administered(cmd) = [users EXCEPT ![v] = acc]
      BY <2>2 DEF IInv, Types
    <2> HIDE DEF acc
    <2> QED BY <2>1, <2>3
  <1> QED BY <1>0, <1>1, <1>2, <1>3

LEMMA AdministerKeeps ==
    ASSUME IInv, NEW q \in Requests, Administer(q)
    PROVE  IInv'
  <1>1. /\ request[q] # Unused /\ q \in InFlight /\ request[q] \in Request
        /\ ~Dispatched(request[q].cmd) /\ Moves(q, "answered")
        /\ UNCHANGED <<now, pending, sessions, login>>
    BY DEF Administer, Is, InFlight, IInv, Types
  <1>2. PICK cmd \in Commands : cmd = request[q].cmd
    BY <1>1 DEF Request
  <1>3. PICK v \in Users : v = cmd.user /\ users[v] \in Account
    BY <1>1, <1>2 DEF IInv, AllFresh, Fresh
  <1>4. /\ request' \in [Requests -> Request \cup {Unused}]
        /\ \A r \in Requests : Carries(r)
    BY <1>1, MovesMoves DEF IInv, Phases
  <1>5. CASE Refuses(q)
    <2>1. UNCHANGED <<users, active, granted, touched>>
      BY <1>5 DEF Administer
    <2>2. Registered'
      BY <1>1, <2>1, RegisteredCarries DEF Grants, At
    <2> QED BY <1>1, <1>4, <2>1, <2>2, RequestMoves DEF Accounts
  <1>6. CASE ~Refuses(q)
    <2>1. /\ SetUsers(Administered(cmd))
          /\ touched' = IF cmd.op = "admin_revoke_profile" THEN touched \cup {v} ELSE touched
      BY <1>2, <1>3, <1>6 DEF Administer
    <2>3. PICK acc \in Account :
            /\ Administered(cmd) = [users EXCEPT ![v] = acc]
            /\ cmd.op = "admin_revoke_profile" \/ users[v].profiles \subseteq acc.profiles
      <3>1. ~Dispatched(cmd) /\ v = cmd.user /\ users[v] \in Account
        BY <1>1, <1>2, <1>3
      <3> QED BY <3>1, Administering
    <2>4. /\ Accounts /\ users'[v] = acc
          /\ \A w \in Users \ {v} : users'[w] = users[w]
      BY <2>1, <2>3, AccountSet
    <2>5. \A c \in Callbacks, w \in Users : Grants(c, w) => Grants(c, w)'
      BY <1>1 DEF Grants, At
    <2>6. \A w \in Users : users'[w] # Unused /\ w \notin touched' =>
              users[w] # Unused /\ w \notin touched /\ (HasProfile(w) => HasProfile(w)')
      BY <1>3, <2>1, <2>3, <2>4 DEF HasProfile, Account
    <2>7. Registered'
      BY <2>5, <2>6 DEF IInv, Registered
    <2> QED BY <1>1, <1>4, <2>4, <2>7, RequestMoves
  <1> QED BY <1>5, <1>6

---------------------------------------------------------------------------
LEMMA RestartKeeps == IInv /\ Restart => IInv'
  <1> SUFFICES ASSUME IInv, Restart PROVE IInv'
    OBVIOUS
  <1> USE DEF IInv
  <1>1. /\ pending' = [a \in Attempts |-> Unused]
        /\ sessions' = [c \in Callbacks |-> Unused]
        /\ touched' = touched \cup UNION {Unfinished(c) : c \in Callbacks}
        /\ login' = [c \in Callbacks |-> IF login[c] = Unused THEN Unused
              ELSE IF login[c].stage = "done" THEN login[c]
              ELSE [login[c] EXCEPT !.stage = "refused"]]
        /\ request' = [q \in Requests |-> IF request[q] = Unused THEN Unused
              ELSE IF request[q].stage = "answered" THEN request[q]
              ELSE [request[q] EXCEPT !.stage = "gone"]]
        /\ UNCHANGED <<now, users, active, granted>>
    BY DEF Restart
  <1>2. ASSUME NEW c \in Callbacks
        PROVE  /\ login'[c] \in Login \cup {Unused}
               /\ login'[c] # Unused =>
                     /\ login[c] # Unused /\ login'[c].attempt = login[c].attempt
                     /\ login'[c].attempt \in Attempts
                     /\ login'[c].stage \in {"done", "refused"}
    <2>1. login[c] \in Login \cup {Unused}
      BY DEF Types
    <2>2. CASE login[c] # Unused /\ login[c].stage # "done"
      <3>1. login'[c] = [login[c] EXCEPT !.stage = "refused"]
        BY <1>1, <2>2
      <3> QED BY <2>1, <2>2, <3>1 DEF Login
    <2>3. CASE login[c] # Unused /\ login[c].stage = "done"
      BY <1>1, <2>1, <2>3 DEF Login
    <2>4. CASE login[c] = Unused
      BY <1>1, <2>4
    <2> QED BY <2>2, <2>3, <2>4
  <1>3. ASSUME NEW q \in Requests
        PROVE  request'[q] \in Request \cup {Unused} /\ Carries(q)
    <2>1. request[q] \in Request \cup {Unused}
      BY DEF Types
    <2>2. CASE request[q] # Unused /\ request[q].stage # "answered"
      <3>1. request'[q] = [request[q] EXCEPT !.stage = "gone"]
        BY <1>1, <2>2
      <3> QED BY <2>1, <2>2, <3>1 DEF Request, Carries, InFlight
    <2>3. CASE request[q] # Unused /\ request[q].stage = "answered"
      BY <1>1, <2>1, <2>3 DEF Request, Carries, InFlight
    <2>4. CASE request[q] = Unused
      BY <1>1, <2>4 DEF Carries
    <2> QED BY <2>2, <2>3, <2>4
  <1>4. login' \in [Callbacks -> Login \cup {Unused}]
        /\ request' \in [Requests -> Request \cup {Unused}]
    BY <1>1, <1>2, <1>3
  <1>5. Types'
    BY <1>1, <1>4 DEF Types
  <1>6. AttemptsOnce'
    <2>1. \A c \in Answered' : pending'[login'[c].attempt] = Unused
      BY <1>1, <1>2 DEF Answered
    <2>2. \A c, d \in Callbacks : c # d /\ login'[c] # Unused /\ login'[d] # Unused
              => login'[c].attempt # login'[d].attempt
      BY <1>2 DEF AttemptsOnce, OneCallbackPerAttempt
    <2> QED BY <2>1, <2>2 DEF AttemptsOnce, OneCallbackPerAttempt
  <1>7. AccountsThere'
    BY <1>1, <1>2 DEF AccountsThere, At
  <1>8. AllFresh'
    BY <1>1, <1>3, FreshCarries DEF AllFresh, Accounts
  <1>9. Registered'
    <2>1. \A c \in Callbacks, u \in Users : Grants(c, u) => u \in touched'
      BY <1>1 DEF Grants, Unfinished
    <2> QED BY <1>1, <2>1, RegisteredCarries
  <1> QED BY <1>5, <1>6, <1>7, <1>8, <1>9

LEMMA AccessStarts == Init => IInv
  <1> SUFFICES ASSUME Init PROVE IInv
    OBVIOUS
  <1> DEFINE admin == [active |-> TRUE, profiles |-> {"admin"}]
  <1>1. admin \in Account /\ admin.profiles = {"admin"}
    BY DEF Account, Profiles
  <1>2. /\ users = [u \in Users |-> Unused]
              \/ users = [u \in Users |-> IF u = Bootstrap THEN admin ELSE Unused]
        /\ pending = [a \in Attempts |-> Unused]
        /\ sessions = [c \in Callbacks |-> Unused] /\ login = [c \in Callbacks |-> Unused]
        /\ request = [q \in Requests |-> Unused] /\ now = 0
    BY DEF Init
  <1> HIDE DEF admin
  <1>3. Types
    BY <1>1, <1>2 DEF Types
  <1>4. AttemptsOnce /\ AccountsThere /\ AllFresh
    BY <1>2 DEF AttemptsOnce, Answered, OneCallbackPerAttempt, AccountsThere, At, AllFresh, Fresh
  <1>5. Registered
    BY <1>1, <1>2 DEF Registered, HasProfile
  <1> QED BY <1>3, <1>4, <1>5 DEF IInv

LEMMA NothingMoves ==
    ASSUME IInv, now' \in Nat,
           UNCHANGED <<users, pending, sessions, login, request, active, granted, touched>>
    PROVE  IInv'
  <1>1. Types'
    BY DEF IInv, Types
  <1>2. AttemptsOnce' /\ AccountsThere'
    BY DEF IInv, AttemptsOnce, Answered, OneCallbackPerAttempt, AccountsThere, At
  <1>3. AllFresh' /\ Registered'
    BY DEF IInv, AllFresh, Fresh, InFlight, Registered, HasProfile, Grants, At
  <1> QED BY <1>1, <1>2, <1>3 DEF IInv

LEMMA LoginStepKeeps ==
    ASSUME IInv, NEW c \in Callbacks, LoginStep(c)
    PROVE  IInv'
  BY CallbackKeeps, FindAccountKeeps, InsertAccountKeeps, GrantGuestKeeps,
     GrantBootstrapKeeps, OpenSessionKeeps, LoginBreaksKeeps, SessionEnds DEF LoginStep

LEMMA RequestStepKeeps ==
    ASSUME IInv, NEW q \in Requests, RequestStep(q)
    PROVE  IInv'
  BY ArriveKeeps, LoadKeeps, GateKeeps, AdministerKeeps DEF RequestStep

THEOREM AccessInvariant == Spec => []IInv
  <1>1. IInv /\ UNCHANGED vars => IInv'
    BY NothingMoves DEF vars, history, IInv, Types
  <1>2. IInv /\ Next => IInv'
    <2> SUFFICES ASSUME IInv, Next PROVE IInv'
      OBVIOUS
    <2>1. CASE Tick
      BY <2>1, NothingMoves DEF Tick, history, IInv, Types
    <2> QED BY <2>1, StartLoginKeeps, LoginStepKeeps, RequestStepKeeps, RestartKeeps DEF Next
  <1> QED BY <1>1, <1>2, AccessStarts, PTL DEF Spec

---------------------------------------------------------------------------
\* Of the callbacks that carry one csrf token, one signs somebody in, however
\* they race and however often /auth/login forgets and mints attempts.
THEOREM OneSignIn == Spec => []OneCallbackPerAttempt
  <1> QED BY AccessInvariant, PTL DEF IInv, AttemptsOnce

\* load_user gives the gate no right that its user did not have at some
\* moment since the request arrived.
THEOREM NoStaleRights == Spec => []RightsAreFresh
  <1>1. IInv => RightsAreFresh
    BY DEF IInv, AllFresh, Fresh, RightsAreFresh
  <1> QED BY <1>1, AccessInvariant, PTL

\* register_login leaves no account without a profile, also when first
\* logins of one mailbox race.
THEOREM NobodyWithoutProfile == Spec => []RegisteredHasProfile
  <1>1. \A c \in Callbacks, u \in Users : Grants(c, u) => u \in Unfinished(c)
    BY DEF Grants, Unfinished
  <1>2. IInv => RegisteredHasProfile
    BY <1>1 DEF IInv, Registered, HasProfile, RegisteredHasProfile
  <1> QED BY <1>2, AccessInvariant, PTL

---------------------------------------------------------------------------
\* The bounds and the history, which rest on the invariant above.

Timed == [user : Users, expires : 0 .. MaxNow + SessionTTL]

Ranges ==
    /\ now \in 0 .. MaxNow /\ faults \in 0 .. MaxFaults
    /\ pending \in [Attempts -> 0 .. MaxNow \cup {Unused}]
    /\ sessions \in [Callbacks -> Timed \cup {Unused}]

Histories ==
    /\ effects \subseteq Requests /\ audit \subseteq Requests /\ active \subseteq Requests
    /\ granted \subseteq Requests \X Profiles /\ touched \subseteq Users

\* A session belongs to a callback that is through, of somebody with an account.
SignedIn ==
    \A c \in Callbacks : sessions[c] # Unused =>
        At(c, "done") /\ users[login[c].user] # Unused

Around == Ranges /\ Histories /\ SignedIn

\* No account is ever taken back.
LEMMA AccountsStay ==
    ASSUME IInv, Next
    PROVE  \A u \in Users : users[u] \in Account => users'[u] \in Account
  <1>1. ASSUME NEW c \in Callbacks, InsertAccount(c)
        PROVE  \A u \in Users : users[u] \in Account => users'[u] \in Account
    <2>1. PICK u \in Users : u = login[c].user
      BY <1>1 DEF InsertAccount, At, IInv, Types, Login
    <2>2. [active |-> TRUE, profiles |-> {}] \in Account
      BY DEF Account
    <2>3. CASE users[u] = Unused
      <3>1. SetUsers([users EXCEPT ![u] = [active |-> TRUE, profiles |-> {}]])
        BY <1>1, <2>1, <2>3 DEF InsertAccount
      <3> QED BY <2>2, <3>1, AccountSet DEF Grows
    <2>4. CASE users[u] # Unused
      BY <1>1, <2>1, <2>4 DEF InsertAccount
    <2> QED BY <2>3, <2>4
  <1>2. ASSUME NEW c \in Callbacks, GrantGuest(c) \/ GrantBootstrap(c)
        PROVE  \A u \in Users : users[u] \in Account => users'[u] \in Account
    <2>1. PICK u \in Users : u = login[c].user /\ users[u] \in Account
      BY <1>2 DEF GrantGuest, GrantBootstrap, At, IInv, Types, Login, AccountsThere
    <2>2. UNCHANGED users \/ \E p \in Profiles : SetUsers(WithProfile(u, p))
      BY <1>2, <2>1 DEF GrantGuest, GrantBootstrap, Profiles
    <2> QED BY <2>1, <2>2, ProfileGranted DEF Grows
  <1>3. ASSUME NEW q \in Requests, Administer(q)
        PROVE  \A u \in Users : users[u] \in Account => users'[u] \in Account
    <2>1. /\ request[q] # Unused /\ q \in InFlight /\ request[q] \in Request
          /\ ~Dispatched(request[q].cmd)
      BY <1>3 DEF Administer, Is, InFlight, IInv, Types
    <2>2. PICK cmd \in Commands : cmd = request[q].cmd
      BY <2>1 DEF Request
    <2>3. PICK v \in Users : v = cmd.user /\ users[v] \in Account
      BY <2>1, <2>2 DEF IInv, AllFresh, Fresh
    <2>4. CASE Refuses(q)
      BY <1>3, <2>4 DEF Administer
    <2>5. CASE ~Refuses(q)
      <3>1. SetUsers(Administered(cmd))
        BY <1>3, <2>2, <2>5 DEF Administer
      <3>2. ~Dispatched(cmd)
        BY <2>1, <2>2
      <3>3. PICK acc \in Account : Administered(cmd) = [users EXCEPT ![v] = acc]
        BY <2>3, <3>2, Administering
      <3> QED BY <3>1, <3>3, AccountSet DEF Grows
    <2> QED BY <2>4, <2>5
  <1>4. \/ UNCHANGED users
        \/ \E c \in Callbacks : InsertAccount(c) \/ GrantGuest(c) \/ GrantBootstrap(c)
        \/ \E q \in Requests : Administer(q)
    BY DEF Next, Tick, StartLogin, LoginStep, Callback, FindAccount, OpenSession,
           LoginBreaks, Logout, Expire, RequestStep, Arrive, LoadAccount, LoadProfiles,
           Deny, Admit, TakeEffect, Record, HangUp, Restart
  <1> QED BY <1>1, <1>2, <1>3, <1>4

LEMMA RangesKeep ==
    ASSUME IInv, Ranges, Next
    PROVE  Ranges'
  <1>1. CASE Tick
    <2>1. now' = now + 1 /\ now < MaxNow /\ UNCHANGED <<pending, sessions, faults>>
      BY <1>1 DEF Tick
    <2>2. now + 1 \in 0 .. MaxNow
      BY <2>1 DEF Ranges
    <2> QED BY <2>1, <2>2 DEF Ranges
  <1>2. ASSUME NEW a \in Attempts, StartLogin(a) PROVE Ranges'
    BY <1>2 DEF StartLogin, Ranges
  <1>3. ASSUME NEW c \in Callbacks, NEW a \in Attempts, NEW u \in Users, Callback(c, a, u)
        PROVE  Ranges'
    BY <1>3 DEF Callback, Consumed, Ranges
  <1>4. now + SessionTTL \in 0 .. MaxNow + SessionTTL
    BY DEF Ranges
  <1>5. ASSUME NEW c \in Callbacks, OpenSession(c) PROVE Ranges'
    <2>1. PICK u \in Users : u = login[c].user
      BY <1>5 DEF OpenSession, At, IInv, Types, Login
    <2>2. PICK s \in Timed : s = [user |-> u, expires |-> now + SessionTTL]
      BY <1>4 DEF Timed
    <2>3. sessions' = [d \in Callbacks |->
              IF d = c THEN s
              ELSE IF sessions[d] # Unused /\ sessions[d].expires > now
                     THEN sessions[d] ELSE Unused]
      BY <1>5, <2>1, <2>2 DEF OpenSession
    <2>4. sessions' \in [Callbacks -> Timed \cup {Unused}]
      BY <2>3 DEF Ranges
    <2> QED BY <1>5, <2>4 DEF OpenSession, Ranges
  <1>6. ASSUME NEW c \in Callbacks, Logout(c) \/ Expire(c) PROVE Ranges'
    BY <1>6 DEF Logout, Expire, Ranges
  <1>7. ASSUME NEW q \in Requests, NEW c \in Callbacks, NEW cmd \in Commands, Arrive(q, c, cmd)
        PROVE  Ranges'
    <2>1. sessions[c] \in Timed
      BY <1>7 DEF Arrive, Ranges
    <2>2. PICK e \in 0 .. MaxNow + SessionTTL : e = now + SessionTTL
      BY <1>4
    <2>3. [sessions[c] EXCEPT !.expires = e] \in Timed
      BY <2>1 DEF Timed
    <2>4. sessions' = [sessions EXCEPT ![c] = [sessions[c] EXCEPT !.expires = e]]
      BY <1>7, <2>2 DEF Arrive, Ranges
    <2>5. sessions' \in [Callbacks -> Timed \cup {Unused}]
      BY <2>3, <2>4 DEF Ranges
    <2> QED BY <1>7, <2>5 DEF Arrive, Ranges
  <1>8. Fault => faults' \in 0 .. MaxFaults
    BY DEF Fault, Ranges
  <1>9. CASE Restart
    <2>1. /\ pending' \in [Attempts -> 0 .. MaxNow \cup {Unused}]
          /\ sessions' \in [Callbacks -> Timed \cup {Unused}]
      BY <1>9 DEF Restart
    <2> QED BY <1>8, <1>9, <2>1 DEF Restart, Ranges
  <1>10. CASE UNCHANGED <<now, pending, sessions>> /\ (UNCHANGED faults \/ Fault)
    BY <1>8, <1>10 DEF Ranges
  <1>11. ASSUME NEW c \in Callbacks, LoginStep(c)
         PROVE  \/ \E a \in Attempts, u \in Users : Callback(c, a, u)
                \/ OpenSession(c) \/ Logout(c) \/ Expire(c)
                \/ UNCHANGED <<now, pending, sessions>> /\ (UNCHANGED faults \/ Fault)
    BY <1>11 DEF LoginStep, FindAccount, InsertAccount, GrantGuest, GrantBootstrap, LoginBreaks
  <1>12. ASSUME NEW q \in Requests, RequestStep(q)
         PROVE  \/ \E c \in Callbacks, cmd \in Commands : Arrive(q, c, cmd)
                \/ UNCHANGED <<now, pending, sessions>> /\ (UNCHANGED faults \/ Fault)
    BY <1>12 DEF RequestStep, LoadAccount, LoadProfiles, Deny, Admit, Administer, TakeEffect,
                 Record, HangUp
  <1> QED BY <1>1, <1>2, <1>3, <1>5, <1>6, <1>7, <1>9, <1>10, <1>11, <1>12 DEF Next

\* What a change of the accounts notes down of the requests under way.
LEMMA SetHistories ==
    ASSUME IInv, Histories, SetUsers(users'), users' \in [Users -> Account \cup {Unused}],
           \A u \in Users : users[u] \in Account => users'[u] \in Account
    PROVE  active' \subseteq Requests /\ granted' \subseteq Requests \X Profiles
  <1>1. active' \subseteq Requests
    BY DEF SetUsers, Histories, InFlight
  <1>2. ASSUME NEW q \in InFlight
        PROVE  {q} \X users'[request[q].user].profiles \subseteq Requests \X Profiles
    <2>1. q \in Requests /\ request[q] # Unused
      BY DEF InFlight
    <2>2. request[q].user \in Users /\ users[request[q].user] \in Account
      BY <2>1 DEF IInv, AllFresh, Fresh, Types, Request
    <2>3. users'[request[q].user].profiles \subseteq Profiles
      BY <2>2 DEF Account
    <2> QED BY <2>1, <2>3
  <1>3. granted' = granted \cup
            UNION {{q} \X users'[request[q].user].profiles : q \in InFlight}
    BY DEF SetUsers
  <1> QED BY <1>1, <1>2, <1>3 DEF Histories

LEMMA HistoriesKeep ==
    ASSUME IInv, IInv', Histories, Next
    PROVE  Histories'
  <1>1. (\E new : users' = new /\ SetUsers(new)) =>
            active' \subseteq Requests /\ granted' \subseteq Requests \X Profiles
    <2> SUFFICES ASSUME NEW new, users' = new, SetUsers(new)
                 PROVE  active' \subseteq Requests /\ granted' \subseteq Requests \X Profiles
      OBVIOUS
    <2>1. SetUsers(users')
      BY Zenon
    <2> QED BY <2>1, AccountsStay, SetHistories DEF IInv, Types
  <1>2. ASSUME NEW c \in Callbacks
        PROVE  /\ Unfinished(c) \subseteq Users
               /\ login[c] # Unused => login[c].user \in Users
    BY DEF Unfinished, At, IInv, Types, Login
  <1>3. ASSUME NEW c \in Callbacks, InsertAccount(c) \/ GrantGuest(c) \/ GrantBootstrap(c)
        PROVE  Histories'
    <2>1. /\ UNCHANGED <<effects, audit, touched>>
          /\ UNCHANGED <<active, granted>> \/ \E new : SetUsers(new)
      BY <1>3 DEF InsertAccount, GrantGuest, GrantBootstrap
    <2>2. (\E new : SetUsers(new)) => \E new : users' = new /\ SetUsers(new)
      BY DEF SetUsers
    <2> QED BY <1>1, <2>1, <2>2 DEF Histories
  <1>4. ASSUME NEW q \in Requests, Administer(q) PROVE Histories'
    <2>1. /\ request[q] \in Request /\ ~Dispatched(request[q].cmd)
      BY <1>4 DEF Administer, Is, IInv, Types
    <2>2. request[q].cmd \in Commands
      BY <2>1 DEF Request
    <2>3. request[q].cmd.user \in Users
      BY <2>1, <2>2 DEF Commands, Dispatched
    <2>4. /\ audit' = audit \cup {q} /\ effects' \subseteq effects \cup {q}
          /\ touched' \subseteq touched \cup {request[q].cmd.user}
          /\ \/ UNCHANGED <<active, granted>>
             \/ \E new : users' = new /\ SetUsers(new)
      BY <1>4 DEF Administer, SetUsers
    <2> QED BY <1>1, <2>3, <2>4 DEF Histories
  <1>5. ASSUME NEW q \in Requests, NEW c \in Callbacks, NEW cmd \in Commands, Arrive(q, c, cmd)
        PROVE  Histories'
    <2>1. users[sessions[c].user] \in Account
      BY <1>5, SessionsGood DEF Arrive
    <2>2. users[sessions[c].user].profiles \subseteq Profiles
      BY <2>1 DEF Account
    <2>3. /\ active' \subseteq active \cup {q}
          /\ granted' = granted \cup ({q} \X users[sessions[c].user].profiles)
          /\ UNCHANGED <<effects, audit, touched>>
      BY <1>5 DEF Arrive
    <2> QED BY <2>2, <2>3 DEF Histories
  <1>6. ASSUME NEW c \in Callbacks, LoginBreaks(c) PROVE Histories'
    BY <1>2, <1>6 DEF LoginBreaks, Histories
  <1>7. ASSUME NEW q \in Requests, Deny(q) \/ TakeEffect(q) \/ Record(q) PROVE Histories'
    BY <1>7 DEF Deny, TakeEffect, Record, Histories, history
  <1>8. CASE Restart
    BY <1>2, <1>8 DEF Restart, Histories
  <1>9. CASE UNCHANGED <<effects, audit, active, granted, touched>>
    BY <1>9 DEF Histories
  <1>10. \/ UNCHANGED <<effects, audit, active, granted, touched>>
         \/ Restart
         \/ \E c \in Callbacks : \/ InsertAccount(c) \/ GrantGuest(c) \/ GrantBootstrap(c)
                                 \/ LoginBreaks(c)
         \/ \E q \in Requests : \/ Administer(q) \/ Deny(q) \/ TakeEffect(q) \/ Record(q)
                                \/ \E c \in Callbacks, cmd \in Commands : Arrive(q, c, cmd)
    BY DEF Next, Tick, StartLogin, LoginStep, Callback, FindAccount, OpenSession, Logout,
           Expire, RequestStep, LoadAccount, LoadProfiles, Admit, HangUp, history
  <1> QED BY <1>3, <1>4, <1>5, <1>6, <1>7, <1>8, <1>9, <1>10

LEMMA SignedInKeep ==
    ASSUME IInv, SignedIn, Next
    PROVE  SignedIn'
  <1>1. \A u \in Users : users[u] \in Account => users'[u] \in Account /\ users'[u] # Unused
    BY AccountsStay
  <1>2. ASSUME NEW c \in Callbacks, sessions[c] # Unused, login'[c] = login[c]
        PROVE  (At(c, "done"))' /\ users'[login'[c].user] # Unused
    <2>1. At(c, "done") /\ users[login[c].user] # Unused
      BY <1>2 DEF SignedIn
    <2>2. login[c].user \in Users /\ users[login[c].user] \in Account
      BY <2>1 DEF At, IInv, Types, Login
    <2> QED BY <1>1, <1>2, <2>1, <2>2 DEF At
  <1>3. ASSUME UNCHANGED login,
               \A c \in Callbacks : sessions'[c] # Unused => sessions[c] # Unused
        PROVE  SignedIn'
    BY <1>2, <1>3 DEF SignedIn
  <1>4. ASSUME NEW c \in Callbacks, NEW s \in Stages, Goes(c, s), login[c] # Unused,
               sessions[c] = Unused, UNCHANGED sessions
        PROVE  SignedIn'
    <2>1. \A d \in Callbacks \ {c} : login'[d] = login[d]
      BY <1>4, GoesMoves DEF IInv
    <2> QED BY <1>2, <1>4, <2>1 DEF SignedIn
  <1>5. ASSUME NEW c \in Callbacks, login[c] # Unused, login[c].stage # "done"
        PROVE  sessions[c] = Unused
    BY <1>5 DEF SignedIn, At
  <1>6. ASSUME NEW c \in Callbacks,
               \/ FindAccount(c) \/ InsertAccount(c) \/ GrantGuest(c) \/ GrantBootstrap(c)
               \/ LoginBreaks(c)
        PROVE  SignedIn'
    <2>1. /\ login[c] # Unused /\ login[c].stage # "done" /\ UNCHANGED sessions
          /\ \E s \in Stages : Goes(c, s)
      BY <1>6 DEF FindAccount, InsertAccount, GrantGuest, GrantBootstrap, LoginBreaks, At, Stages
    <2> QED BY <1>4, <1>5, <2>1
  <1>7. ASSUME NEW c \in Callbacks, OpenSession(c) PROVE SignedIn'
    <2>1. /\ login[c] # Unused /\ login[c].stage = "session" /\ Goes(c, "done")
          /\ \A d \in Callbacks \ {c} : sessions'[d] # Unused => sessions[d] # Unused
      BY <1>7 DEF OpenSession, At
    <2>2. /\ \A d \in Callbacks \ {c} : login'[d] = login[d]
          /\ login'[c] \in Login /\ login'[c].stage = "done" /\ login'[c].user = login[c].user
          /\ login[c] \in Login
      BY <2>1, GoesMoves DEF IInv, Stages
    <2>3. users[login[c].user] \in Account /\ login[c].user \in Users
      BY <2>1, <2>2 DEF IInv, AccountsThere, At, Login
    <2>4. (At(c, "done"))' /\ users'[login'[c].user] # Unused
      BY <1>1, <2>2, <2>3 DEF At
    <2> QED BY <1>2, <2>1, <2>2, <2>4 DEF SignedIn
  <1>8. ASSUME NEW c \in Callbacks, NEW a \in Attempts, NEW u \in Users, Callback(c, a, u)
        PROVE  SignedIn'
    <2>1. login[c] = Unused /\ UNCHANGED sessions
          /\ \A d \in Callbacks \ {c} : login'[d] = login[d]
      BY <1>8 DEF Callback, IInv, Types
    <2>2. sessions[c] = Unused
      BY <2>1 DEF SignedIn, At
    <2> QED BY <1>2, <2>1, <2>2 DEF SignedIn
  <1>9. ASSUME NEW c \in Callbacks, Logout(c) \/ Expire(c) PROVE SignedIn'
    <2>1. UNCHANGED login /\ \A d \in Callbacks : sessions'[d] # Unused => sessions[d] # Unused
      BY <1>9 DEF Logout, Expire, IInv, Types
    <2> QED BY <1>3, <2>1
  <1>10. ASSUME NEW q \in Requests, NEW c \in Callbacks, NEW cmd \in Commands,
                Arrive(q, c, cmd)
         PROVE  SignedIn'
    <2>1. UNCHANGED login /\ \A d \in Callbacks : sessions'[d] # Unused => sessions[d] # Unused
      BY <1>10 DEF Arrive, IInv, Types
    <2> QED BY <1>3, <2>1
  <1>11. CASE Restart
    BY <1>11 DEF Restart, SignedIn
  <1>12. CASE UNCHANGED <<login, sessions>>
    BY <1>3, <1>12
  <1>13. ASSUME NEW q \in Requests, RequestStep(q)
         PROVE  \/ \E c \in Callbacks, cmd \in Commands : Arrive(q, c, cmd)
                \/ UNCHANGED <<login, sessions>>
    BY <1>13 DEF RequestStep, LoadAccount, LoadProfiles, Deny, Admit, Administer, TakeEffect,
                 Record, HangUp
  <1>14. Tick \/ (\E a \in Attempts : StartLogin(a)) => UNCHANGED <<login, sessions>>
    BY DEF Tick, StartLogin
  <1> QED BY <1>6, <1>7, <1>8, <1>9, <1>10, <1>11, <1>12, <1>13, <1>14 DEF Next, LoginStep

\* Accounts, sessions, tasks and clocks keep their shape (auth.rs, web.rs), and
\* who is signed in came through a callback and has an account.
THEOREM TypeCorrect == Spec => []TypeOK
  <1>1. Init => Around
    <2> SUFFICES ASSUME Init PROVE Around
      OBVIOUS
    <2>1. Ranges
      BY DEF Init, Ranges
    <2>2. Histories /\ SignedIn
      BY DEF Init, Histories, SignedIn
    <2> QED BY <2>1, <2>2 DEF Around
  <1>2. IInv /\ IInv' /\ Around /\ [Next]_vars => Around'
    <2> SUFFICES ASSUME IInv, IInv', Around, [Next]_vars PROVE Around'
      OBVIOUS
    <2>1. CASE Next
      BY <2>1, RangesKeep, HistoriesKeep, SignedInKeep DEF Around
    <2>2. CASE UNCHANGED vars
      BY <2>2 DEF vars, history, Around, Ranges, Histories, SignedIn, At
    <2> QED BY <2>1, <2>2
  <1>3. IInv /\ Around => TypeOK
    BY DEF IInv, Types, Around, Ranges, Timed, Histories, SignedIn, TypeOK
  <1> QED BY <1>1, <1>2, <1>3, AccessInvariant, PTL DEF Spec
=============================================================================
