------------------------------ MODULE Accounts ------------------------------
(***************************************************************************)
(* Accounts, their tokens and API keys, and the rate limiters in front of   *)
(* the routes that handle them: gl_web/src/auth.rs, middleware/, the log-in *)
(* and setup handlers of routes/auth.rs and frontend.rs, the user and key   *)
(* handlers of routes/admin.rs, `glimpser bootstrap`, and the repositories  *)
(* of users and keys.                                                       *)
(*                                                                          *)
(* An e-mail stands for the pair of e-mail and user name, each of which is  *)
(* UNIQUE in the table.  Tokens are not stored: an account's access is how  *)
(* much longer the youngest token issued for it will be accepted.  A        *)
(* limiter keeps one entry per client address; the model has one client.    *)
(***************************************************************************)
EXTENDS Naturals, FiniteSets

CONSTANTS
    Users,          \* the ids Id::new gives to new accounts
    Emails,
    KeyIds,
    Callers,        \* log-ins, set-ups and bootstrap commands under way
    OpenLimiters,   \* of the /auth scope, one for every worker
    GuardedLimiters,\* of the scopes behind RequireAuth, one for every worker
    MaxAdmitted,    \* requests_per_minute
    Window,         \* window_duration
    Life            \* 24 hours, and the leeway of jsonwebtoken

Limiters == OpenLimiters \cup GuardedLimiters

ASSUME AccountsAssumption ==
    /\ MaxAdmitted \in Nat \ {0} /\ Window \in Nat \ {0} /\ Life \in Nat \ {0}
    /\ OpenLimiters \cap GuardedLimiters = {}
    /\ "none" \notin Emails

VARIABLES
    accounts,   \* the users table
    access,     \* how long a token of the account is still accepted
    keys,       \* the api_keys table
    caller,     \* where each request without a token stands
    limit,      \* SimpleRateLimiter::entries
    recent      \* history: the requests admitted in the last Window ticks,
                \* each known by its age and its number in its tick

accountVars == <<accounts, access, keys, caller, limit, recent>>

NoRecord == [email |-> "none", active |-> FALSE]
Records == [email : Emails, active : BOOLEAN]
Outside == [at |-> "outside"]
Stages ==
    {Outside} \cup [at : {"issue"}, user : Users] \cup [at : {"setup", "bootstrap"}, email : Emails]

NoLimit == [count |-> 0, age |-> Window]
Quiet == [l \in Limiters |-> {}]

AccountsInit ==
    /\ accounts = [u \in Users |-> NoRecord]
    /\ access = [u \in Users |-> 0]
    /\ keys = {}
    /\ caller = [c \in Callers |-> Outside]
    /\ limit = [l \in Limiters |-> NoLimit]
    /\ recent = Quiet

-----------------------------------------------------------------------------
Known == {u \in Users : accounts[u] # NoRecord}
Active == {u \in Known : accounts[u].active}
Taken == {accounts[u].email : u \in Known}

Admits(l) ==
    LET now == {r \in recent[l] : r.age = 0}
    IN  recent' = [recent EXCEPT ![l] = @ \cup {[age |-> 0, number |-> Cardinality(now) + 1]}]

\* Faulty: a window that is over gets a new count and keeps its start.
AdmitWithOldStart(l) ==
    LET over  == limit[l].age >= Window
        count == IF over THEN 0 ELSE limit[l].count
    IN  /\ count < MaxAdmitted
        /\ limit' = [limit EXCEPT ![l].count = count + 1]
        /\ Admits(l)

(* check_rate_limit: a window that is over starts afresh.  A request it     *)
(* refuses changes nothing.                                                 *)
Admit(l) ==
    LET over  == limit[l].age >= Window
        count == IF over THEN 0 ELSE limit[l].count
    IN  /\ count < MaxAdmitted
        /\ limit' = [limit EXCEPT ![l] =
                        [count |-> count + 1, age |-> IF over THEN 0 ELSE @.age]]
        /\ Admits(l)

(* A handler of the /auth scope is behind its limiter; the pages' router    *)
(* has log-in and set-up too, and no limiter.                               *)
AuthScope == \E l \in OpenLimiters : Admit(l)
PageRoute == UNCHANGED <<limit, recent>>

(* RequireAuth is outside the limiter: what it refuses is not counted.  It  *)
(* looks at the token and not at the table.                                 *)
Accepted(u) == access[u] > 0
RequireAuth(u) == Accepted(u) /\ \E l \in GuardedLimiters : Admit(l)

Goes(c, stage) == caller' = [caller EXCEPT ![c] = stage]

-----------------------------------------------------------------------------
\* Faulty: is_active is not looked at.
VerifiedOnly(c) ==
    /\ caller[c] = Outside
    /\ \E u \in Known : Goes(c, [at |-> "issue", user |-> u])
    /\ UNCHANGED <<accounts, access, keys>>

(* The row was read, the account is active and the password verified; the   *)
(* token comes next.                                                        *)
Verified(c) ==
    /\ caller[c] = Outside
    /\ \E u \in Active : Goes(c, [at |-> "issue", user |-> u])
    /\ UNCHANGED <<accounts, access, keys>>

LogIn(c) == AuthScope /\ Verified(c)
PageLogIn(c) == PageRoute /\ Verified(c)

(* A log-in or set-up that is refused by its handler has still been counted *)
(* by the limiter.                                                          *)
Refused ==
    /\ AuthScope
    /\ UNCHANGED <<accounts, access, keys, caller>>

(* create_token, in the handlers of log-in and set-up.                      *)
Issue(c) ==
    /\ caller[c].at = "issue"
    /\ access' = [access EXCEPT ![caller[c].user] = Life]
    /\ Goes(c, Outside)
    /\ UNCHANGED <<accounts, keys, limit, recent>>

(* has_any_users counts the active accounts.                                *)
LookForUsers(c) ==
    /\ caller[c] = Outside
    /\ Active = {}
    /\ \E e \in Emails : Goes(c, [at |-> "setup", email |-> e])
    /\ UNCHANGED <<accounts, access, keys>>

SetUp(c) == AuthScope /\ LookForUsers(c)
PageSetUp(c) == PageRoute /\ LookForUsers(c)

(* The command looks for the e-mail, whether its account is active or not.  *)
Bootstrap(c) ==
    /\ caller[c] = Outside
    /\ \E e \in Emails \ Taken : Goes(c, [at |-> "bootstrap", email |-> e])
    /\ UNCHANGED <<accounts, access, keys, limit, recent>>

NewAccount(u, e) ==
    /\ u \notin Known /\ e \notin Taken
    /\ accounts' = [accounts EXCEPT ![u] = [email |-> e, active |-> TRUE]]

InsertSetUp(c) ==
    /\ caller[c].at = "setup"
    /\ \E u \in Users : Goes(c, [at |-> "issue", user |-> u]) /\ NewAccount(u, caller[c].email)
    /\ UNCHANGED <<access, keys, limit, recent>>

InsertBootstrap(c) ==
    /\ caller[c].at = "bootstrap"
    /\ Goes(c, Outside)
    /\ \E u \in Users : NewAccount(u, caller[c].email)
    /\ UNCHANGED <<access, keys, limit, recent>>

(* The UNIQUE constraint, any other error, or a client that is gone.        *)
GivesUp(c) ==
    /\ caller[c] # Outside
    /\ Goes(c, Outside)
    /\ UNCHANGED <<accounts, access, keys, limit, recent>>

-----------------------------------------------------------------------------
(* The handlers behind RequireAuth, for a client with a token of u.         *)
CreateUser(u) ==
    /\ RequireAuth(u)
    /\ UNCHANGED <<access, keys, caller>>
    /\ \E v \in Users, e \in Emails : NewAccount(v, e)

(* A soft delete; the tokens of the account stay what they are.             *)
DeleteUser(u) ==
    /\ RequireAuth(u)
    /\ \E v \in Known : accounts' = [accounts EXCEPT ![v].active = FALSE]
    /\ UNCHANGED <<access, keys, caller>>

(* The key belongs to the subject of the token.                             *)
CreateKey(u) ==
    /\ RequireAuth(u)
    /\ \E k \in KeyIds :
        /\ \A key \in keys : key.id # k
        /\ keys' = keys \cup {[id |-> k, owner |-> u, active |-> TRUE]}
    /\ UNCHANGED <<accounts, access, caller>>

DeleteKey(u) ==
    /\ RequireAuth(u)
    /\ \E key \in keys : keys' = (keys \ {key}) \cup {[key EXCEPT !.active = FALSE]}
    /\ UNCHANGED <<accounts, access, caller>>

-----------------------------------------------------------------------------
Younger(l) == {r \in recent[l] : r.age + 1 < Window}

TimePasses ==
    /\ access' = [u \in Users |-> IF access[u] = 0 THEN 0 ELSE access[u] - 1]
    /\ limit' = [l \in Limiters |->
                    [limit[l] EXCEPT !.age = IF @ < Window THEN @ + 1 ELSE Window]]
    /\ recent' = [l \in Limiters |-> {[r EXCEPT !.age = @ + 1] : r \in Younger(l)}]
    /\ UNCHANGED <<accounts, keys, caller>>

(* The limiters are in memory; the key that signs tokens is configured.     *)
ServerRestarts ==
    /\ limit' = [l \in Limiters |-> NoLimit]
    /\ recent' = Quiet
    /\ caller' = [c \in Callers |-> IF caller[c].at = "bootstrap" THEN caller[c] ELSE Outside]
    /\ UNCHANGED <<accounts, access, keys>>

CallerStep(c) ==
    \/ LogIn(c) \/ PageLogIn(c) \/ SetUp(c) \/ PageSetUp(c) \/ Bootstrap(c)
    \/ Issue(c) \/ InsertSetUp(c) \/ InsertBootstrap(c) \/ GivesUp(c)

ManagerStep(u) == CreateUser(u) \/ DeleteUser(u) \/ CreateKey(u) \/ DeleteKey(u)

AccountsNext ==
    \/ \E c \in Callers : CallerStep(c)
    \/ \E u \in Users : ManagerStep(u)
    \/ Refused
    \/ TimePasses
    \/ ServerRestarts

(* Time passes, and a handler that has verified a password ends.            *)
AccountsFairness ==
    /\ WF_accountVars(TimePasses)
    /\ \A c \in Callers : WF_accountVars(Issue(c) \/ (caller[c].at = "issue" /\ GivesUp(c)))

AccountsSpec == AccountsInit /\ [][AccountsNext]_accountVars /\ AccountsFairness

-----------------------------------------------------------------------------
(* Properties *)

(* The types; no two accounts have one e-mail, and a key's owner exists.    *)
AccountsTypeOK ==
    /\ accounts \in [Users -> Records \cup {NoRecord}]
    /\ \A u, v \in Known : accounts[u].email = accounts[v].email => u = v
    /\ access \in [Users -> 0 .. Life]
    /\ \A u \in Users : access[u] > 0 => u \in Known
    /\ \A k \in keys : k \in [id : KeyIds, owner : Known, active : BOOLEAN]
    /\ \A j, k \in keys : j.id = k.id => j = k
    /\ caller \in [Callers -> Stages]
    /\ limit \in [Limiters -> [count : 0 .. MaxAdmitted, age : 0 .. Window]]

(* A client gets fewer than twice MaxAdmitted requests through one limiter  *)
(* in any span as long as a window, wherever the windows begin: the request *)
(* that opened a window has left the span when the next window is full.     *)
BurstBounded ==
    \A l \in Limiters : Cardinality(recent[l]) <= 2 * MaxAdmitted - 1

(* "Maximum requests per IP per window", with "a sliding window"            *)
(* (middleware/ratelimit.rs).                                               *)
LimitHolds ==
    \A l \in Limiters : Cardinality(recent[l]) <= MaxAdmitted

(* "Only works when no users exist": set-up makes no account beside another *)
(* (setup_signup in routes/auth.rs and frontend.rs).                        *)
SetUpIsFirst ==
    [][\A c \in Callers : InsertSetUp(c) => Active = {}]_accountVars

(* The tokens of the deleted accounts come to an end, and no log-in that    *)
(* was under way, nor any later one, gives them new ones for ever.          *)
AccessEnds ==
    <>[](\A u \in Known \ Active : access[u] = 0)
=============================================================================
