------------------------------- MODULE Access -------------------------------
(***************************************************************************)
(* Who may do what (src-tauri/src/auth.rs) and the request path around it  *)
(* (src-tauri/src/web.rs: login, callback, current_user, decide, invoke).  *)
(*                                                                         *)
(* Every callback and every command is a task of its own.  A statement on  *)
(* the database is atomic; between two statements of a task any other task *)
(* may run, and a task that awaits the cluster is dropped when its client  *)
(* hangs up.                                                               *)
(***************************************************************************)
EXTENDS Naturals, FiniteSets

CONSTANTS
    Users,       \* mailboxes, folded
    Bootstrap,   \* the one TMJLENS_BOOTSTRAP_ADMIN names
    Environment, \* TMJLENS_ENVIRONMENT
    Attempts,    \* csrf tokens, minted once each
    Callbacks,   \* bound: answers of the identity provider
    Requests,    \* bound: commands
    Offered,     \* bound: profiles the commands name
    Dispatches,  \* bound: commands that reach the cluster
    Unused,      \* a session, attempt, callback or request not there
    LoginTTL, SessionTTL,
    MaxNow, MaxFaults \* bounds

ASSUME AccessAssumption ==
    /\ Bootstrap \in Users
    /\ Offered \subseteq {"admin", "developer", "guest"}
    /\ Dispatches \subseteq {"restart_workload", "reveal_secret_key"}
    /\ Environment \in {"production", "staging", "development"}
    /\ {LoginTTL, SessionTTL} \subseteq Nat \ {0}
    /\ {MaxNow, MaxFaults} \subseteq Nat

VARIABLES
    now,
    users,    \* app_users joined with user_profiles
    pending,  \* WebState.pending: when each attempt was started
    sessions, \* WebState.sessions; a token is named after its callback
    login,    \* the tasks in callback
    request,  \* the tasks in invoke
    effects,  \* history: requests whose command took effect
    audit,    \* the requests audit_log has a row of
    active, granted, \* history: what a request's user was since it arrived
    touched,  \* history: users whose registration broke off, or whose
              \* profiles an administrator took
    faults    \* counter behind MaxFaults

vars == <<now, users, pending, sessions, login, request, effects, audit,
          active, granted, touched, faults>>
history == <<active, granted, touched>>

Profiles == {"admin", "developer", "guest"}
Account  == [active : BOOLEAN, profiles : SUBSET Profiles]

\* The canonical permissions of the fixed profiles, as far as commands here
\* ask for them; admin holds all of them.
Permissions == {"overview", "view-secrets", "restart-workloads", "admin"}
PermissionsOf(profiles) ==
    (IF "guest" \in profiles THEN {"overview"} ELSE {})
    \cup (IF "developer" \in profiles THEN {"overview", "restart-workloads"}
          ELSE {})
    \cup (IF "admin" \in profiles THEN Permissions ELSE {})

Allows(u, permission) ==
    /\ u.active
    /\ \/ "admin" \in PermissionsOf(u.profiles)
       \/ permission \in PermissionsOf(u.profiles)

\* decide: what a developer may do follows the environment.
Decide(u, permission) ==
    LET developer == "developer" \in u.profiles
                     /\ "admin" \notin PermissionsOf(u.profiles)
    IN \/ /\ Allows(u, permission)
          /\ ~(developer /\ permission = "restart-workloads"
               /\ Environment = "production")
       \/ /\ developer /\ u.active
          /\ permission = "view-secrets" /\ Environment = "development"

Commands ==
    [op : Dispatches]
    \cup [op : {"admin_grant_profile", "admin_revoke_profile"},
          user : Users, profile : Offered]
    \cup [op : {"admin_set_user_active"}, user : Users, active : BOOLEAN]

\* required_permission
Required(cmd) ==
    CASE cmd.op = "restart_workload"  -> "restart-workloads"
      [] cmd.op = "reveal_secret_key" -> "view-secrets"
      [] OTHER                        -> "admin"

\* dispatch awaits the cluster; the other commands are shell_command's.
Dispatched(cmd) == cmd.op \in Dispatches

---------------------------------------------------------------------------
\* Every change of the accounts, with what the requests under way could see.

InFlight == {q \in Requests : request[q] # Unused
                /\ request[q].stage \in {"load", "profiles", "gate", "run"}}

SetUsers(new) ==
    /\ users' = new
    /\ active' = active \cup
         {q \in InFlight : new[request[q].user].active}
    /\ granted' = granted \cup
         UNION {{q} \X new[request[q].user].profiles : q \in InFlight}

Init ==
    /\ now = 0
    /\ users \in {[u \in Users |-> Unused],
                  [u \in Users |-> IF u = Bootstrap
                     THEN [active |-> TRUE, profiles |-> {"admin"}]
                     ELSE Unused]}
    /\ pending = [a \in Attempts |-> Unused]
    /\ sessions = [c \in Callbacks |-> Unused]
    /\ login = [c \in Callbacks |-> Unused]
    /\ request = [q \in Requests |-> Unused]
    /\ effects = {} /\ audit = {}
    /\ active = {} /\ granted = {} /\ touched = {}
    /\ faults = 0

Tick ==
    /\ now < MaxNow
    /\ now' = now + 1
    /\ UNCHANGED <<users, pending, sessions, login, request, effects, audit,
                   history, faults>>

Fault == faults < MaxFaults /\ faults' = faults + 1

---------------------------------------------------------------------------
\* Signing in.

\* /auth/login forgets stale attempts and mints a new one.
StartLogin(a) ==
    /\ pending[a] = Unused
    /\ \A c \in Callbacks : login[c] # Unused => login[c].attempt # a
    /\ pending' = [b \in Attempts |->
          IF b = a THEN now
          ELSE IF pending[b] # Unused /\ now - pending[b] < LoginTTL
                 THEN pending[b] ELSE Unused]
    /\ UNCHANGED <<now, users, sessions, login, request, effects, audit,
                   history, faults>>

Consumed_Faulty(a) == UNCHANGED pending

\* The callback takes the attempt out of the map.
Consumed(a) == pending' = [pending EXCEPT ![a] = Unused]

\* /auth/callback: the attempt is known, fresh, and taken; then the code is
\* exchanged, which says who signed in.
Callback(c, a, u) ==
    /\ login[c] = Unused /\ pending[a] # Unused
    /\ Consumed(a)
    /\ login' = [login EXCEPT ![c] =
          [attempt |-> a, user |-> u,
           stage |-> IF now - pending[a] > LoginTTL THEN "refused"
                     ELSE "find"]]
    /\ UNCHANGED <<now, users, sessions, request, effects, audit, history,
                   faults>>

Goes(c, stage) == login' = [login EXCEPT ![c].stage = stage]
At(c, stage)   == login[c] # Unused /\ login[c].stage = stage

\* An unknown mailbox passes for a known one.
FindAccount_Faulty(c) ==
    /\ At(c, "find")
    /\ LET u == users[login[c].user]
       IN Goes(c, IF u = Unused THEN "session"
                  ELSE IF ~u.active THEN "refused" ELSE "bootstrap")
    /\ UNCHANGED <<now, users, pending, sessions, request, effects, audit,
                   history, faults>>

\* register_login's SELECT: a known account is refreshed or refused.
FindAccount(c) ==
    /\ At(c, "find")
    /\ LET u == users[login[c].user]
       IN Goes(c, IF u = Unused THEN "insert"
                  ELSE IF ~u.active THEN "refused" ELSE "bootstrap")
    /\ UNCHANGED <<now, users, pending, sessions, request, effects, audit,
                   history, faults>>

\* The INSERT, which a second first login loses to the unique email.
InsertAccount(c) ==
    /\ At(c, "insert")
    /\ IF users[login[c].user] = Unused
         THEN /\ SetUsers([users EXCEPT ![login[c].user] =
                             [active |-> TRUE, profiles |-> {}]])
              /\ Goes(c, IF login[c].user = Bootstrap THEN "bootstrap"
                         ELSE "guest")
         ELSE Goes(c, "refused") /\ UNCHANGED <<users, active, granted>>
    /\ UNCHANGED <<now, pending, sessions, request, effects, audit, touched,
                   faults>>

WithProfile(u, p) == [users EXCEPT ![u].profiles = @ \cup {p}]

GrantGuest_Faulty(c) ==
    /\ At(c, "guest")
    /\ Goes(c, "session")
    /\ UNCHANGED <<now, users, pending, sessions, request, effects, audit,
                   history, faults>>

GrantGuest(c) ==
    /\ At(c, "guest")
    /\ SetUsers(WithProfile(login[c].user, "guest"))
    /\ Goes(c, "session")
    /\ UNCHANGED <<now, pending, sessions, request, effects, audit, touched,
                   faults>>

GrantBootstrap(c) ==
    /\ At(c, "bootstrap")
    /\ IF login[c].user = Bootstrap
         THEN SetUsers(WithProfile(Bootstrap, "admin"))
         ELSE UNCHANGED <<users, active, granted>>
    /\ Goes(c, "session")
    /\ UNCHANGED <<now, pending, sessions, request, effects, audit, touched,
                   faults>>

OpenSession(c) ==
    /\ At(c, "session")
    /\ sessions' = [d \in Callbacks |->
          IF d = c THEN [user |-> login[c].user, expires |-> now + SessionTTL]
          ELSE IF sessions[d] # Unused /\ sessions[d].expires > now
                 THEN sessions[d] ELSE Unused]
    /\ Goes(c, "done")
    /\ UNCHANGED <<now, users, pending, request, effects, audit, history,
                   faults>>

\* The account is there and its first profile is still to come.
Unfinished(c) == IF At(c, "guest") \/ At(c, "bootstrap") THEN {login[c].user}
                 ELSE {}

\* A statement of register_login fails: 403, and what was written stays.
LoginBreaks(c) ==
    /\ login[c] # Unused
    /\ login[c].stage \in {"find", "insert", "guest", "bootstrap"}
    /\ Fault
    /\ Goes(c, "refused")
    /\ touched' = touched \cup Unfinished(c)
    /\ UNCHANGED <<now, users, pending, sessions, request, effects, audit,
                   active, granted>>

Logout(c) ==
    /\ sessions[c] # Unused
    /\ sessions' = [sessions EXCEPT ![c] = Unused]
    /\ UNCHANGED <<now, users, pending, login, request, effects, audit,
                   history, faults>>

---------------------------------------------------------------------------
\* A command.

Moves(q, stage) == request' = [request EXCEPT ![q].stage = stage]
Is(q, stage)    == request[q] # Unused /\ request[q].stage = stage

\* current_user under the sessions lock: a live session slides.
Arrive(q, c, cmd) ==
    /\ request[q] = Unused
    /\ ~Dispatched(cmd) => users[cmd.user] # Unused
    /\ sessions[c] # Unused /\ sessions[c].expires > now
    /\ sessions' = [sessions EXCEPT ![c].expires = now + SessionTTL]
    /\ request' = [request EXCEPT ![q] =
          [stage |-> "load", user |-> sessions[c].user, cmd |-> cmd,
           active |-> FALSE, profiles |-> {}]]
    /\ active' = IF users[sessions[c].user].active THEN active \cup {q}
                 ELSE active
    /\ granted' = granted \cup
                    ({q} \X users[sessions[c].user].profiles)
    /\ UNCHANGED <<now, users, pending, login, effects, audit, touched,
                   faults>>

\* The same of a session past its TTL: it is removed, and 401.
Expire(c) ==
    /\ sessions[c] # Unused /\ sessions[c].expires <= now
    /\ sessions' = [sessions EXCEPT ![c] = Unused]
    /\ UNCHANGED <<now, users, pending, login, request, effects, audit,
                   history, faults>>

\* load_user: the account row first, its profiles after.
LoadAccount(q) ==
    /\ Is(q, "load")
    /\ request' = [request EXCEPT ![q].active = users[request[q].user].active,
                                  ![q].stage = "profiles"]
    /\ UNCHANGED <<now, users, pending, sessions, login, effects, audit,
                   history, faults>>

\* Profiles cached from an earlier request of the user.
LoadProfiles_Faulty(q) ==
    /\ Is(q, "profiles")
    /\ request' = [request EXCEPT
          ![q].profiles = {p \in Profiles : \E r \in Requests :
                              request[r] # Unused
                              /\ request[r].user = request[q].user
                              /\ p \in request[r].profiles}
                          \cup users[request[q].user].profiles,
          ![q].stage = "gate"]
    /\ UNCHANGED <<now, users, pending, sessions, login, effects, audit,
                   history, faults>>

LoadProfiles(q) ==
    /\ Is(q, "profiles")
    /\ request' = [request EXCEPT
          ![q].profiles = users[request[q].user].profiles,
          ![q].stage = "gate"]
    /\ UNCHANGED <<now, users, pending, sessions, login, effects, audit,
                   history, faults>>

Loaded(q) == [active |-> request[q].active, profiles |-> request[q].profiles]

\* The gate: a denied command is audited and answered 403.
Deny(q) ==
    /\ Is(q, "gate") /\ ~Decide(Loaded(q), Required(request[q].cmd))
    /\ audit' = audit \cup {q}
    /\ Moves(q, "answered")
    /\ UNCHANGED <<now, users, pending, sessions, login, effects, history,
                   faults>>

Admit(q) ==
    /\ Is(q, "gate") /\ Decide(Loaded(q), Required(request[q].cmd))
    /\ Moves(q, "run")
    /\ UNCHANGED <<now, users, pending, sessions, login, effects, audit,
                   history, faults>>

\* What shell_command makes of an administration command.
Administered(cmd) ==
    CASE cmd.op = "admin_grant_profile"  -> WithProfile(cmd.user, cmd.profile)
      [] cmd.op = "admin_revoke_profile" ->
            [users EXCEPT ![cmd.user].profiles = @ \ {cmd.profile}]
      [] cmd.op = "admin_set_user_active" ->
            [users EXCEPT ![cmd.user].active = cmd.active]

\* "you cannot deactivate your own account"
Refuses(q) == LET cmd == request[q].cmd IN
    /\ cmd.op = "admin_set_user_active"
    /\ cmd.user = request[q].user /\ ~cmd.active

\* An administration command and its audit row; nothing awaits in between.
Administer(q) ==
    /\ Is(q, "run") /\ ~Dispatched(request[q].cmd)
    /\ LET cmd == request[q].cmd
       IN IF Refuses(q)
            THEN UNCHANGED <<users, active, granted, touched, effects>>
            ELSE /\ SetUsers(Administered(cmd))
                 /\ touched' = IF cmd.op = "admin_revoke_profile"
                               THEN touched \cup {cmd.user} ELSE touched
                 /\ effects' = effects \cup {q}
    /\ audit' = audit \cup {q}
    /\ Moves(q, "answered")
    /\ UNCHANGED <<now, pending, sessions, login, faults>>

\* The command reaches the cluster; its answer is awaited.
TakeEffect(q) ==
    /\ Is(q, "run") /\ Dispatched(request[q].cmd)
    /\ effects' = effects \cup {q}
    /\ Moves(q, "await")
    /\ UNCHANGED <<now, users, pending, sessions, login, audit, history,
                   faults>>

\* The cluster answered: the command is audited and answered.
Record(q) ==
    /\ Is(q, "await")
    /\ audit' = audit \cup {q}
    /\ Moves(q, "answered")
    /\ UNCHANGED <<now, users, pending, sessions, login, effects, history,
                   faults>>

\* The client hangs up while dispatch awaits: the handler is dropped.
HangUp(q) ==
    /\ request[q] # Unused
    /\ \/ Is(q, "await")
       \/ Is(q, "run") /\ Dispatched(request[q].cmd)
    /\ Fault
    /\ Moves(q, "gone")
    /\ UNCHANGED <<now, users, pending, sessions, login, effects, audit,
                   history>>

\* The process restarts: maps and tasks are gone, the database stays.
Restart ==
    /\ Fault
    /\ pending' = [a \in Attempts |-> Unused]
    /\ sessions' = [c \in Callbacks |-> Unused]
    /\ touched' = touched \cup UNION {Unfinished(c) : c \in Callbacks}
    /\ login' = [c \in Callbacks |-> IF login[c] = Unused THEN Unused
          ELSE IF login[c].stage = "done" THEN login[c]
          ELSE [login[c] EXCEPT !.stage = "refused"]]
    /\ request' = [q \in Requests |-> IF request[q] = Unused THEN Unused
          ELSE IF request[q].stage = "answered" THEN request[q]
          ELSE [request[q] EXCEPT !.stage = "gone"]]
    /\ UNCHANGED <<now, users, effects, audit, active, granted>>

---------------------------------------------------------------------------
LoginStep(c) ==
    \/ \E a \in Attempts, u \in Users : Callback(c, a, u)
    \/ FindAccount(c)
    \/ InsertAccount(c)
    \/ GrantGuest(c)
    \/ GrantBootstrap(c)
    \/ OpenSession(c)
    \/ LoginBreaks(c)
    \/ Logout(c)
    \/ Expire(c)

RequestStep(q) ==
    \/ \E c \in Callbacks, cmd \in Commands : Arrive(q, c, cmd)
    \/ LoadAccount(q)
    \/ LoadProfiles(q)
    \/ Deny(q)
    \/ Admit(q)
    \/ Administer(q)
    \/ TakeEffect(q)
    \/ Record(q)
    \/ HangUp(q)

Next ==
    \/ Tick
    \/ \E a \in Attempts : StartLogin(a)
    \/ \E c \in Callbacks : LoginStep(c)
    \/ \E q \in Requests : RequestStep(q)
    \/ Restart

Spec == Init /\ [][Next]_vars

---------------------------------------------------------------------------
Login == [attempt : Attempts, user : Users,
          stage : {"refused", "find", "insert", "guest", "bootstrap",
                   "session", "done"}]
Request == [stage : {"load", "profiles", "gate", "run", "await", "answered",
                     "gone"},
            user : Users, cmd : Commands, active : BOOLEAN,
            profiles : SUBSET Profiles]

ASSUME UnusedAssumption == Unused \notin Account \cup Login

TypeOK ==
    /\ now \in 0 .. MaxNow
    /\ users \in [Users -> Account \cup {Unused}]
    /\ pending \in [Attempts -> 0 .. MaxNow \cup {Unused}]
    /\ sessions \in [Callbacks -> [user : Users,
                      expires : 0 .. MaxNow + SessionTTL] \cup {Unused}]
    /\ \A c \in Callbacks : login[c] = Unused \/ login[c] \in Login
    /\ \A q \in Requests : request[q] = Unused \/ request[q] \in Request
    /\ {effects, audit, active} \subseteq SUBSET Requests
    /\ granted \subseteq Requests \X Profiles
    /\ touched \subseteq Users
    /\ faults \in 0 .. MaxFaults
    /\ \A c \in Callbacks : sessions[c] # Unused =>
          At(c, "done") /\ users[login[c].user] # Unused

\* The login attempt of a csrf token answers one callback: of two that race,
\* one finds the map empty and signs nobody in.
OneCallbackPerAttempt ==
    \A c, d \in Callbacks :
        (c # d /\ login[c] # Unused /\ login[d] # Unused)
            => login[c].attempt # login[d].attempt

\* "Permissions are re-read from the database on every request, so a revoke
\* applies immediately, not at next login."  A request is decided on an
\* activity and on profiles its user had at some moment since it arrived,
\* whatever administrators, logins and sign-ins did meanwhile.
RightsAreFresh ==
    \A q \in Requests : request[q] # Unused =>
        /\ request[q].active => q \in active
        /\ \A p \in request[q].profiles : <<q, p>> \in granted

\* "First SSO login grants guest", the bootstrap mailbox admin: an account
\* has its first profile once its registration is through, also when two
\* first logins of it race.
RegisteredHasProfile ==
    \A u \in Users : (users[u] # Unused /\ u \notin touched) =>
        \/ users[u].profiles \cap {"guest", "admin"} # {}
        \/ \E c \in Callbacks : u \in Unfinished(c)

\* "Every action -- allowed or denied -- is recorded under the person's own
\* name": when a request is over, what it did is in audit_log.
ActionsRecorded ==
    \A q \in effects : request[q].stage \in {"answered", "gone"}
                          => q \in audit
=============================================================================
