---------------------------- MODULE AuthSessions ----------------------------
(***************************************************************************)
(* Sign-in sessions: the rows of auth_sessions, the handlers of            *)
(* api/auth.py and of the user administration that open, rotate and revoke *)
(* them, and the browser's side in api/client.js and AuthProvider.jsx.     *)
(*                                                                         *)
(* A handler is split where another may come between: what it checks when  *)
(* it begins, the sessions it lists, the commit of its writes (one step:   *)
(* SQLAlchemy flushes there), and the response, which reaches the browser  *)
(* later or never and sets the cookies of all its tabs.                    *)
(*                                                                         *)
(* Left out: the CSRF token, whose check may refuse a request (one fetched *)
(* for a request outdates another's): a refresh or a logout may fail for   *)
(* it here, any other request is as if it were not sent; the age of the    *)
(* access cookie: any request may be answered 401; passwords mistyped; the *)
(* deletion of users; event and audit rows, which record only.             *)
(***************************************************************************)
EXTENDS Integers, FiniteSets, SequencesExt

CONSTANTS
    Users,
    Admins,           \* users with is_admin
    Browsers,
    Owner,            \* the user of each browser
    Tabs,
    BrowserOf,
    None,
    MaxActive,        \* AUTH_MAX_ACTIVE_SESSIONS
    MaxRequests,      \* bound: requests that are sent
    MaxResets,        \* bound: rows of password_reset_requests
    MaxLost,          \* bound: responses that are lost
    DisablesOverlap   \* FALSE: two administrators never disable accounts at once

ASSUME AuthAssumption ==
    /\ Admins \subseteq Users /\ None \notin Users
    /\ Owner \in [Browsers -> Users]
    /\ BrowserOf \in [Tabs -> Browsers]
    /\ IsFiniteSet(Browsers) /\ IsFiniteSet(Users)
    /\ MaxActive \in Nat \ {0}
    /\ {MaxRequests, MaxResets, MaxLost} \subseteq Nat
    /\ DisablesOverlap \in BOOLEAN

VARIABLES
    users,      \* rows of users
    sessions,   \* rows of auth_sessions in the order of their creation
    resets,     \* rows of password_reset_requests
    jar,        \* the refresh token each browser's cookies hold
    signedIn,   \* AuthProvider's currentUser is set, by tab
    h,          \* the requests in flight
    sent, lost

vars == <<users, sessions, resets, jar, signedIn, h, sent, lost>>

Resets == 1..MaxResets

\* A refresh token names its session; generation 0 stands for no token.
Token == [sid : Nat, gen : Nat]
NoToken == [sid |-> 0, gen |-> 0]

User == [active : BOOLEAN,
         must : BOOLEAN,      \* must_change_password
         expired : BOOLEAN,   \* temporary_password_expires_at has passed
         epoch : Nat]         \* times the password was set or the account disabled

Row == [user : Users, live : BOOLEAN, gen : Nat,
        epoch : Nat,          \* of the user when the login was verified
        used : SUBSET Nat,    \* history: the generations of its token exchanged
        late : BOOLEAN]       \* history: inserted while sessions were revoked

Reset == [user : Users \union {None}, status : {"none", "pending", "approved", "rejected"}]

PublicOps == {"login", "askReset"}
UserOps == {"logoutAll", "changePassword", "changeTemporary"}
AccountOps == {"disable", "enable", "resetUser"}
DecisionOps == {"approve", "reject"}
CallOps == PublicOps \union {"logout"} \union UserOps \union AccountOps \union DecisionOps

\* Each tab has at most one refresh (refreshPromise) and one other request.
Procs == Tabs \X {"refresh", "call"}

Handler == [pc : {"idle", "begin", "list", "rotate", "commit", "reply"},
            op : CallOps \union {"refresh", None},
            token : Token,                 \* the cookie the request carries
            of : Users \union {None},      \* the user whose row is changed
            item : Resets \union {0},
            seen : User \union {None},     \* the copy of that row
            list : SUBSET Nat,             \* the sessions to revoke
            ok : BOOLEAN,
            grant : Token]                 \* the token of the response

Idle == [pc |-> "idle", op |-> None, token |-> NoToken, of |-> None, item |-> 0,
         seen |-> None, list |-> {}, ok |-> FALSE, grant |-> NoToken]

Become(p, l) == h' = [h EXCEPT ![p] = l]
Answer(p, ok, grant) == Become(p, [h[p] EXCEPT !.pc = "reply", !.ok = ok, !.grant = grant])
Fail(p) == Answer(p, FALSE, NoToken)

Exists(s) == s \in DOMAIN sessions
Live(s) == Exists(s) /\ sessions[s].live
LiveOf(u) == {s \in DOMAIN sessions : sessions[s].user = u /\ sessions[s].live}
ActiveAdmins == {a \in Admins : users[a].active}

InHand(op) == {p \in Procs : h[p].op \in op /\ h[p].pc = "commit"}

\* Rows locked by SELECT ... FOR UPDATE while a decision is prepared.
ItemFree(i) == \A p \in InHand(DecisionOps) : h[p].item # i
UserFree(u) == \A p \in InHand({"approve"}) : h[p].of # u

-----------------------------------------------------------------------------
(* The browser sends.                                                      *)

Send(t, kind, op, of, item) ==
    /\ sent < MaxRequests
    /\ h[<<t, kind>>].pc = "idle"
    /\ Become(<<t, kind>>, [Idle EXCEPT !.pc = "begin", !.op = op, !.of = of, !.item = item,
                                        !.token = jar[BrowserOf[t]]])
    /\ sent' = sent + 1
    /\ UNCHANGED <<users, sessions, resets, jar, signedIn, lost>>

\* A request of the tab was answered 401: refreshSession shares one promise
\* among all that are.  A page that loads with cookies gets there as well.
Refused(t) ==
    /\ signedIn[t] \/ jar[BrowserOf[t]] # NoToken
    /\ Send(t, "refresh", "refresh", None, 0)

\* The pages that send them; the administrator names another user or a row.
Call(t) ==
    \/ /\ ~signedIn[t]
       /\ \E op \in PublicOps : Send(t, "call", op, Owner[BrowserOf[t]], 0)
    \/ /\ signedIn[t]
       /\ \E op \in {"logout"} \union UserOps : Send(t, "call", op, Owner[BrowserOf[t]], 0)
    \/ /\ signedIn[t] /\ Owner[BrowserOf[t]] \in Admins
       /\ \/ \E op \in AccountOps, u \in Users : Send(t, "call", op, u, 0)
          \/ \E op \in DecisionOps, i \in Resets : Send(t, "call", op, None, i)

\* restoreSession: GET /auth/me succeeds.
Load(t) ==
    LET k == jar[BrowserOf[t]]
    IN  /\ ~signedIn[t]
        /\ Live(k.sid) /\ users[sessions[k.sid].user].active
        /\ signedIn' = [signedIn EXCEPT ![t] = TRUE]
        /\ UNCHANGED <<users, sessions, resets, jar, h, sent, lost>>

-----------------------------------------------------------------------------
(* POST /auth/refresh.                                                     *)

Current(k) == Live(k.sid) /\ sessions[k.sid].gen = k.gen

\* get_refresh_session and the checks on the copy, or a CSRF refusal.
LookUp(p) ==
    /\ h[p].pc = "begin" /\ h[p].op = "refresh"
    /\ \/ /\ Current(h[p].token)
          /\ users[sessions[h[p].token.sid].user].active
          /\ Become(p, [h[p] EXCEPT !.pc = "rotate"])
       \/ Fail(p)
    /\ UNCHANGED <<users, sessions, resets, jar, signedIn, sent, lost>>

\* rotate_refresh_token: UPDATE ... WHERE refresh_token_hash = :presented
\* AND revoked_at IS NULL, and the commit.
RotatableIfLive(k) == Live(k.sid)                          \* mutant of Rotatable
RotatableIfSame(k) == Exists(k.sid) /\ sessions[k.sid].gen = k.gen \* mutant of Rotatable
Rotatable(k) == Current(k)

Rotate(p) ==
    LET k == h[p].token
    IN  /\ h[p].pc = "rotate"
        /\ IF Rotatable(k)
           THEN /\ sessions' = [sessions EXCEPT ![k.sid].gen = @ + 1,
                                               ![k.sid].used = @ \union {k.gen}]
                /\ Answer(p, TRUE, [sid |-> k.sid, gen |-> sessions[k.sid].gen + 1])
           ELSE Fail(p) /\ UNCHANGED sessions
        /\ UNCHANGED <<users, resets, jar, signedIn, sent, lost>>

-----------------------------------------------------------------------------
(* POST /auth/login.                                                       *)

\* While the browser's own session is live, GET /auth/csrf binds the CSRF
\* token to it and the login is refused.
Login(p) ==
    LET u == h[p].of
    IN  /\ h[p].pc = "begin" /\ h[p].op = "login"
        /\ IF ~Current(h[p].token) /\ users[u].active /\ ~(users[u].must /\ users[u].expired)
           THEN Become(p, [h[p] EXCEPT !.pc = "list", !.seen = users[u]])
           ELSE Fail(p)
        /\ UNCHANGED <<users, sessions, resets, jar, signedIn, sent, lost>>

\* create_session revokes the oldest of the sessions it finds.
OldestButOne(S) == \* mutant of Excess
    {s \in S : Cardinality({r \in S : r <= s}) <= Cardinality(S) - MaxActive}
Excess(S) ==
    {s \in S : Cardinality({r \in S : r <= s}) <= Cardinality(S) - MaxActive + 1}

ListExcess(p) ==
    /\ h[p].pc = "list" /\ h[p].op = "login"
    /\ Become(p, [h[p] EXCEPT !.pc = "commit", !.list = Excess(LiveOf(h[p].of))])
    /\ UNCHANGED <<users, sessions, resets, jar, signedIn, sent, lost>>

Revoked(S) == [s \in DOMAIN sessions |->
                  IF s \in S THEN [sessions[s] EXCEPT !.live = FALSE] ELSE sessions[s]]

\* The handlers that end all sessions of u.
Ending(u) == {p \in InHand(CallOps \ {"login"}) : h[p].of = u}

\* The INSERT needs a key lock on the user's row.
OpenSession(p) ==
    LET u == h[p].of
        s == Len(sessions) + 1
    IN  /\ h[p].pc = "commit" /\ h[p].op = "login"
        /\ UserFree(u)
        /\ sessions' = Append(Revoked(h[p].list),
                 [user |-> u, live |-> TRUE, gen |-> 1, epoch |-> h[p].seen.epoch,
                  used |-> {}, late |-> h[p].seen.epoch # users[u].epoch \/ Ending(u) # {}])
        /\ Answer(p, TRUE, [sid |-> s, gen |-> 1])
        /\ UNCHANGED <<users, resets, jar, signedIn, sent, lost>>

-----------------------------------------------------------------------------
(* Signing out, passwords and accounts.                                    *)

\* The session is found by the token's first part; a token that has been
\* rotated since ends nothing.
Logout(p) ==
    LET k == h[p].token
    IN  /\ h[p].pc = "begin" /\ h[p].op = "logout"
        /\ \/ /\ Become(p, IF Exists(k.sid) /\ sessions[k.sid].gen = k.gen
                           THEN [h[p] EXCEPT !.pc = "commit", !.list = {k.sid}]
                           ELSE [h[p] EXCEPT !.pc = "reply", !.ok = TRUE])
           \/ Fail(p)
        /\ UNCHANGED <<users, sessions, resets, jar, signedIn, sent, lost>>

\* get_session_user; all but logout_all and change_temporary_password go on
\* to get_current_user, the administration to get_current_admin.
Authorized(k, op) ==
    /\ Live(k.sid)
    /\ LET u == sessions[k.sid].user
       IN  /\ users[u].active
           /\ op \notin {"logoutAll", "changeTemporary"} => ~users[u].must
           /\ op = "changeTemporary" => users[u].must /\ ~users[u].expired
           /\ op \in AccountOps \union DecisionOps => u \in Admins

\* The handler's checks and its copy of the row it will change.
Begin(p) ==
    /\ h[p].pc = "begin" /\ h[p].op \in UserOps \union AccountOps
    /\ IF Authorized(h[p].token, h[p].op)
       THEN Become(p, [h[p] EXCEPT !.pc = "list", !.seen = users[h[p].of]])
       ELSE Fail(p)
    /\ UNCHANGED <<users, sessions, resets, jar, signedIn, sent, lost>>

\* revoke_all_sessions queries what the commit will revoke.  The count of
\* administrators is taken here as well.
ListNone(u) == {}                                           \* mutant of ToRevoke
ToRevoke(u) == LiveOf(u)
NotEvenTheLast(l) == FALSE                                  \* mutant of LastAdmin
LastAdmin(l) == l.of \in Admins /\ l.seen.active /\ Cardinality(ActiveAdmins) <= 1

ListAll(p) ==
    LET l == h[p]
    IN  /\ l.pc = "list" /\ l.op \in UserOps \union AccountOps
        /\ l.op = "disable" /\ ~DisablesOverlap => InHand({"disable"}) = {}
        /\ IF l.op = "disable" /\ LastAdmin(l) THEN Fail(p)
           ELSE Become(p, [l EXCEPT !.pc = "commit",
                             !.list = IF l.op = "enable" THEN {} ELSE ToRevoke(l.of)])
        /\ UNCHANGED <<users, sessions, resets, jar, signedIn, sent, lost>>

\* The commit writes the columns whose new value differs from the copy's.
Written(l) ==
    LET now == users[l.of]
        again == [now EXCEPT !.epoch = @ + 1]
    IN  CASE l.op = "changePassword" -> again
          [] l.op = "changeTemporary" -> [again EXCEPT !.must = FALSE, !.expired = FALSE]
          [] l.op = "resetUser" -> [again EXCEPT !.must = now.must \/ ~l.seen.must,
                                                 !.expired = FALSE]
          [] l.op = "disable" -> [again EXCEPT !.active = now.active /\ ~l.seen.active]
          [] l.op = "enable" -> [now EXCEPT !.active = now.active \/ ~l.seen.active]
          [] l.op \in {"logout", "logoutAll"} -> now

Commit(p) ==
    /\ h[p].pc = "commit" /\ h[p].op \in {"logout"} \union UserOps \union AccountOps
    /\ UserFree(h[p].of)
    /\ users' = [users EXCEPT ![h[p].of] = Written(h[p])]
    /\ sessions' = Revoked(h[p].list)
    /\ Answer(p, TRUE, NoToken)
    /\ UNCHANGED <<resets, jar, signedIn, sent, lost>>

-----------------------------------------------------------------------------
(* Password reset requests.                                                *)

Pending(u) == {i \in Resets : resets[i].user = u /\ resets[i].status = "pending"}
Unused == {i \in Resets : resets[i].status = "none"}

\* create_password_reset_request looks for a pending one and commits a new
\* one; the partial unique index refuses the second of two at once.
AskReset(p) ==
    LET u == h[p].of
    IN  /\ h[p].pc = "begin" /\ h[p].op = "askReset"
        /\ IF Pending(u) # {} THEN UNCHANGED resets
           ELSE /\ Unused # {}
                /\ resets' = [resets EXCEPT ![CHOOSE i \in Unused : \A j \in Unused : i <= j] =
                                 [user |-> u, status |-> "pending"]]
        /\ Answer(p, TRUE, NoToken)
        /\ UNCHANGED <<users, sessions, jar, signedIn, sent, lost>>

\* The request and, to approve, the user are read under their locks.
Decidable(i) == resets[i].status = "pending"

Lock(p) ==
    LET l == h[p]
        u == resets[l.item].user
    IN  /\ l.pc = "begin" /\ l.op \in DecisionOps
        /\ ItemFree(l.item)
        /\ l.op = "approve" => UserFree(u)
        /\ IF Authorized(l.token, l.op) /\ Decidable(l.item)
           THEN Become(p, [l EXCEPT !.pc = "commit", !.of = u,
                             !.list = IF l.op = "approve" THEN ToRevoke(u) ELSE {}])
           ELSE Fail(p)
        /\ UNCHANGED <<users, sessions, resets, jar, signedIn, sent, lost>>

Decide(p) ==
    LET l == h[p]
    IN  /\ l.pc = "commit" /\ l.op \in DecisionOps
        /\ resets' = [resets EXCEPT ![l.item].status =
                         IF l.op = "approve" THEN "approved" ELSE "rejected"]
        /\ users' = IF l.op = "reject" THEN users
                    ELSE [users EXCEPT ![l.of].must = TRUE, ![l.of].expired = FALSE,
                                       ![l.of].epoch = @ + 1]
        /\ sessions' = Revoked(l.list)
        /\ Answer(p, TRUE, NoToken)
        /\ UNCHANGED <<jar, signedIn, sent, lost>>

-----------------------------------------------------------------------------
(* The response arrives, or is lost.                                       *)

\* refresh_failed clears the cookies, a CSRF refusal does not.
ClearsJar(l) == \/ l.ok /\ l.op \in {"logout", "logoutAll", "changePassword", "changeTemporary"}
                \/ ~l.ok /\ l.op = "refresh"
SignsOut(l) == \/ l.op \in {"logout", "logoutAll"}
               \/ l.ok /\ l.op = "changeTemporary"
               \/ ~l.ok /\ l.op = "refresh"

KeepsOld(b, l) == IF ClearsJar(l) THEN NoToken ELSE jar[b]  \* mutant of Cookies
Cookies(b, l) == IF ClearsJar(l) THEN NoToken
                 ELSE IF l.grant # NoToken THEN l.grant ELSE jar[b]

Receive(t, kind) ==
    LET l == h[<<t, kind>>]
        b == BrowserOf[t]
    IN  /\ l.pc = "reply"
        /\ \/ jar' = [jar EXCEPT ![b] = Cookies(b, l)]
           \/ ~l.ok /\ l.op = "refresh" /\ jar' = jar
        /\ signedIn' = [signedIn EXCEPT ![t] =
                           IF SignsOut(l) THEN FALSE ELSE @ \/ (l.op = "login" /\ l.ok)]
        /\ Become(<<t, kind>>, Idle)
        /\ UNCHANGED <<users, sessions, resets, sent, lost>>

Lose(t, kind) ==
    LET l == h[<<t, kind>>]
    IN  /\ lost < MaxLost
        /\ l.pc = "reply"
        /\ lost' = lost + 1
        /\ signedIn' = [signedIn EXCEPT ![t] = @ /\ l.op \notin {"refresh", "logout", "logoutAll"}]
        /\ Become(<<t, kind>>, Idle)
        /\ UNCHANGED <<users, sessions, resets, jar, sent>>

\* A temporary password reaches the end of its time.
Lapse(u) ==
    /\ users[u].must /\ ~users[u].expired
    /\ users' = [users EXCEPT ![u].expired = TRUE]
    /\ UNCHANGED <<sessions, resets, jar, signedIn, h, sent, lost>>

-----------------------------------------------------------------------------
\* The administrators' browsers are signed in and any of the others may be,
\* each with its own session.
Init ==
    /\ users = [u \in Users |-> [active |-> TRUE, must |-> FALSE, expired |-> FALSE, epoch |-> 0]]
    /\ \E S \in SUBSET Browsers :
          /\ \A b \in Browsers : Owner[b] \in Admins => b \in S
          /\ sessions = [i \in 1..Cardinality(S) |->
                 [user |-> Owner[SetToSeq(S)[i]], live |-> TRUE, gen |-> 1,
                  epoch |-> 0, used |-> {}, late |-> FALSE]]
          /\ jar = [b \in Browsers |->
                 IF b \in S THEN [sid |-> CHOOSE i \in 1..Cardinality(S) : SetToSeq(S)[i] = b,
                                 gen |-> 1]
                 ELSE NoToken]
          /\ signedIn = [t \in Tabs |-> BrowserOf[t] \in S]
    /\ resets = [i \in Resets |-> [user |-> None, status |-> "none"]]
    /\ h = [p \in Procs |-> Idle]
    /\ sent = 0
    /\ lost = 0

Serve(p) ==
    \/ LookUp(p) \/ Rotate(p) \/ Login(p) \/ ListExcess(p) \/ OpenSession(p)
    \/ Logout(p) \/ Begin(p) \/ ListAll(p) \/ Commit(p)
    \/ AskReset(p) \/ Lock(p) \/ Decide(p)

Next ==
    \/ \E t \in Tabs : \/ Refused(t) \/ Call(t) \/ Load(t)
                       \/ \E kind \in {"refresh", "call"} : Receive(t, kind) \/ Lose(t, kind)
    \/ \E p \in Procs : Serve(p)
    \/ \E u \in Users : Lapse(u)

Spec == Init /\ [][Next]_vars

-----------------------------------------------------------------------------
(* Properties.                                                             *)

TypeOK ==
    /\ users \in [Users -> User]
    /\ sessions \in Seq(Row)
    /\ resets \in [Resets -> Reset]
    /\ jar \in [Browsers -> Token]
    /\ signedIn \in [Tabs -> BOOLEAN]
    /\ h \in [Procs -> Handler]
    /\ sent \in 0..MaxRequests /\ lost \in 0..MaxLost

\* A session that has been revoked stays so and its token is never exchanged
\* again, although a refresh may have read it before it was revoked.
RevokedIsFinal ==
    [][\A s \in DOMAIN sessions : ~sessions[s].live =>
          ~sessions'[s].live /\ sessions'[s].gen = sessions[s].gen]_vars

\* Every exchange of a refresh token consumed a token of its own: of two
\* tabs that present the same one, one gets a successor.
RefreshedOnce == \A s \in DOMAIN sessions : sessions[s].used = 1..(sessions[s].gen - 1)

\* When nothing of a browser with a single tab is in flight and no response
\* was lost, its cookies hold the current token of their session: the shared
\* promise keeps a tab from refreshing itself out of a live session.
Quiet(b) == \A t \in Tabs : BrowserOf[t] = b =>
                h[<<t, "refresh">>].pc = "idle" /\ h[<<t, "call">>].pc = "idle"
SingleTab(b) == Cardinality({t \in Tabs : BrowserOf[t] = b}) = 1
JarInStep ==
    \A b \in Browsers : SingleTab(b) /\ Quiet(b) /\ lost = 0 /\ jar[b] # NoToken =>
        jar[b].gen = sessions[jar[b].sid].gen

\* Logins that overlap may each keep a session of their own, no more: the
\* limit is exceeded by at most the logins that can run at once, less one.
SessionsBounded ==
    \A u \in Users : Cardinality(LiveOf(u)) <=
        MaxActive + Cardinality({t \in Tabs : Owner[BrowserOf[t]] = u}) - 1

\* A new password, a reset and a disabled account end every session opened
\* before, for good; only a login that was under way may outlast them.
OldSessionsEnd ==
    \A s \in DOMAIN sessions :
        sessions[s].live /\ sessions[s].epoch # users[sessions[s].user].epoch =>
            sessions[s].late

\* As long as disablings do not overlap, an administrator remains.
AdminRemains == ~DisablesOverlap /\ Admins # {} => ActiveAdmins # {}

=============================================================================
