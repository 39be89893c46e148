------------------------- MODULE AuthSessionsProofs -------------------------
(***************************************************************************)
(* Proofs about AuthSessions for every finite set of users and browsers,   *)
(* every number of tabs, requests and lost responses: a revoked session    *)
(* stays revoked, a refresh token is exchanged once, a changed password    *)
(* ends the older sessions, an administrator remains, a user's sessions    *)
(* are bounded, and the cookies of a single tab stay in step.              *)
(***************************************************************************)
EXTENDS AuthSessions, FiniteSetTheorems, TLAPS

\* The operations after whose commit the sessions opened before must be over.
Bumping == {"changePassword", "changeTemporary", "resetUser", "disable", "approve"}

\* What the fields of a handler mean where it stands.
HandlerOK(l) ==
    /\ l.pc # "idle" /\ l.op \in CallOps \ DecisionOps => l.of \in Users
    /\ l.pc # "idle" /\ l.op \in DecisionOps => l.item \in Resets
    /\ l.pc = "list" => l.op \in {"login"} \union UserOps \union AccountOps
    /\ l.pc = "commit" => l.op \in CallOps /\ l.of \in Users
    /\ l.pc \in {"list", "commit"} /\ l.op \in {"login"} \union UserOps \union AccountOps =>
          l.seen \in User

HandlersOK == \A p \in Procs : HandlerOK(h[p])

PendingNamed == \A i \in Resets : resets[i].status = "pending" => resets[i].user \in Users

Consumed == \A s \in DOMAIN sessions :
               sessions[s].gen >= 1 /\ sessions[s].used = 1..(sessions[s].gen - 1)

\* A handler about to end the sessions of a user has listed all but those that
\* were inserted since.
Listed(l) == l.pc = "commit" /\ l.op \in Bumping =>
                \A s \in LiveOf(l.of) : s \in l.list \/ sessions[s].late
EndingListed == \A p \in Procs : Listed(h[p])

Disabling(l) == l.op = "disable" /\ l.pc = "commit"

\* While an administrator is being disabled there is another one.
AnotherRemains(l) == l.of \in Admins /\ l.seen.active => \E a \in ActiveAdmins : a # l.of
OneDisabling ==
    ~DisablesOverlap =>
        \A p \in Procs : Disabling(h[p]) =>
            /\ AnotherRemains(h[p])
            /\ \A q \in Procs : Disabling(h[q]) => q = p

IInv == /\ TypeOK /\ HandlersOK /\ PendingNamed /\ Consumed /\ OldSessionsEnd
        /\ EndingListed /\ OneDisabling /\ AdminRemains

-----------------------------------------------------------------------------
\* The parts of the operations' names.
LEMMA OpNames ==
    /\ "login" \in CallOps \ DecisionOps /\ "askReset" \in CallOps \ DecisionOps
    /\ "logout" \in CallOps \ DecisionOps
    /\ UserOps \subseteq CallOps \ DecisionOps /\ AccountOps \subseteq CallOps \ DecisionOps
    /\ DecisionOps \subseteq CallOps /\ "refresh" \notin CallOps
  BY DEF CallOps, PublicOps, UserOps, AccountOps, DecisionOps

LEMMA NoTokenTyped == NoToken \in Token
  BY DEF NoToken, Token

LEMMA IdleTyped == Idle \in Handler /\ HandlerOK(Idle) /\ Idle.pc = "idle"
  BY NoTokenTyped DEF Idle, Handler, HandlerOK

\* Handler l when it has answered.
LEMMA Answered ==
    ASSUME NEW l \in Handler, HandlerOK(l), l.pc # "idle", NEW ok \in BOOLEAN, NEW g \in Token,
           NEW m, m = [l EXCEPT !.pc = "reply", !.ok = ok, !.grant = g]
    PROVE  m \in Handler /\ HandlerOK(m) /\ m.pc = "reply"
  <1>1. m \in Handler
    BY DEF Handler
  <1>2. m.pc = "reply" /\ m.op = l.op /\ m.of = l.of /\ m.item = l.item
    BY DEF Handler
  <1>. QED
    BY <1>1, <1>2 DEF HandlerOK

\* A step of p that leaves users and sessions as they are.
LEMMA MoveKeeps ==
    ASSUME IInv, NEW p \in Procs, NEW l \in Handler, HandlerOK(l), Become(p, l),
           UNCHANGED <<users, sessions>>,
           resets' \in [Resets -> Reset], PendingNamed',
           jar' \in [Browsers -> Token], signedIn' \in [Tabs -> BOOLEAN],
           sent' \in 0..MaxRequests, lost' \in 0..MaxLost,
           Listed(l),
           ~DisablesOverlap /\ Disabling(l) =>
               AnotherRemains(l) /\ \A q \in Procs \ {p} : ~Disabling(h[q])
    PROVE  IInv'
  <1>1. /\ h' \in [Procs -> Handler] /\ h'[p] = l
        /\ \A q \in Procs \ {p} : h'[q] = h[q]
    BY DEF IInv, TypeOK, Become
  <1>2. TypeOK' /\ HandlersOK'
    BY <1>1 DEF IInv, TypeOK, HandlersOK
  <1>3. Consumed' /\ OldSessionsEnd' /\ AdminRemains'
    BY DEF IInv, Consumed, OldSessionsEnd, AdminRemains, ActiveAdmins
  <1>4. EndingListed'
    BY <1>1 DEF IInv, EndingListed, Listed, LiveOf
  <1>5. OneDisabling'
    BY <1>1 DEF IInv, OneDisabling, Disabling, AnotherRemains, ActiveAdmins
  <1>. QED
    BY <1>2, <1>3, <1>4, <1>5 DEF IInv

\* A step of p that writes and answers.  No session revives, and one that is
\* new is late if a handler is about to end its user's sessions.
LEMMA WriteKeeps ==
    ASSUME IInv, NEW p \in Procs, NEW l \in Handler, HandlerOK(l), l.pc = "reply", Become(p, l),
           UNCHANGED <<jar, signedIn, sent, lost>>,
           users' \in [Users -> User], sessions' \in Seq(Row),
           resets' \in [Resets -> Reset], PendingNamed', Consumed', OldSessionsEnd',
           \A s \in DOMAIN sessions' : sessions'[s].live =>
               \/ /\ s \in DOMAIN sessions /\ sessions[s].live
                  /\ sessions'[s].user = sessions[s].user /\ sessions'[s].late = sessions[s].late
               \/ sessions'[s].late
               \/ \A q \in Procs : h[q].pc = "commit" /\ h[q].op \in Bumping =>
                      h[q].of # sessions'[s].user,
           \/ \A a \in Users : users[a].active => users'[a].active
           \/ /\ Disabling(h[p])
              /\ \A a \in Users \ {h[p].of} : users'[a].active = users[a].active
              /\ ~h[p].seen.active => users'[h[p].of].active = users[h[p].of].active
    PROVE  IInv'
  <1>1. /\ h' \in [Procs -> Handler] /\ h'[p] = l
        /\ \A q \in Procs \ {p} : h'[q] = h[q]
    BY DEF IInv, TypeOK, Become
  <1>2. TypeOK' /\ HandlersOK'
    BY <1>1 DEF IInv, TypeOK, HandlersOK
  <1>3. EndingListed'
    <2>. SUFFICES ASSUME NEW q \in Procs \ {p}, h[q].pc = "commit", h[q].op \in Bumping,
                         NEW s \in DOMAIN sessions', sessions'[s].user = h[q].of, sessions'[s].live
                  PROVE  s \in h[q].list \/ sessions'[s].late
      BY <1>1 DEF EndingListed, Listed, LiveOf
    <2>. QED
      BY DEF IInv, EndingListed, Listed, LiveOf
  <1>4. CASE \A a \in Users : users[a].active => users'[a].active
    <2>1. ActiveAdmins \subseteq ActiveAdmins'
      BY <1>4, AuthAssumption DEF ActiveAdmins
    <2>2. OneDisabling'
      BY <1>1, <2>1 DEF IInv, OneDisabling, Disabling, AnotherRemains
    <2>3. AdminRemains'
      BY <2>1 DEF IInv, AdminRemains
    <2>. QED
      BY <1>2, <1>3, <2>2, <2>3 DEF IInv
  <1>5. CASE /\ Disabling(h[p])
             /\ \A a \in Users \ {h[p].of} : users'[a].active = users[a].active
             /\ ~h[p].seen.active => users'[h[p].of].active = users[h[p].of].active
    <2>1. OneDisabling'
      BY <1>1, <1>5 DEF IInv, OneDisabling, Disabling
    <2>2. ASSUME ~DisablesOverlap, Admins # {} PROVE ActiveAdmins' # {}
      <3>1. AnotherRemains(h[p]) /\ ActiveAdmins # {}
        BY <1>5, <2>2 DEF IInv, OneDisabling, AdminRemains
      <3>2. CASE h[p].of \in Admins /\ h[p].seen.active
        BY <1>5, <3>1, <3>2, AuthAssumption DEF AnotherRemains, ActiveAdmins
      <3>3. CASE ~(h[p].of \in Admins /\ h[p].seen.active)
        BY <1>5, <3>1, <3>3, AuthAssumption DEF ActiveAdmins
      <3>. QED
        BY <3>2, <3>3
    <2>3. AdminRemains'
      BY <2>2 DEF AdminRemains
    <2>. QED
      BY <1>2, <1>3, <2>1, <2>3 DEF IInv
  <1>. QED
    BY <1>4, <1>5

-----------------------------------------------------------------------------
(* The browsers' steps.                                                    *)

LEMMA SendKeeps ==
    ASSUME IInv, NEW t \in Tabs, NEW kind \in {"refresh", "call"},
           NEW op \in CallOps \union {"refresh"}, NEW of \in Users \union {None},
           NEW item \in Resets \union {0},
           op \in CallOps \ DecisionOps => of \in Users, op \in DecisionOps => item \in Resets,
           Send(t, kind, op, of, item)
    PROVE  IInv'
  <1>. DEFINE p == <<t, kind>>
              k == jar[BrowserOf[t]]
              m == [Idle EXCEPT !.pc = "begin", !.op = op, !.of = of, !.item = item, !.token = k]
  <1>1. p \in Procs /\ k \in Token
    BY AuthAssumption DEF Procs, IInv, TypeOK
  <1>2. m \in Handler
    BY <1>1, IdleTyped DEF Handler
  <1>3. m.pc = "begin" /\ m.op = op /\ m.of = of /\ m.item = item
    BY DEF Idle
  <1>4. /\ Become(p, m) /\ UNCHANGED <<users, sessions, resets, jar, signedIn, lost>>
        /\ sent' \in 0..MaxRequests
    BY AuthAssumption DEF Send, IInv, TypeOK
  <1>. HIDE DEF p, m
  <1>5. HandlerOK(m) /\ Listed(m) /\ ~Disabling(m)
    BY <1>3 DEF HandlerOK, Listed, Disabling
  <1>. QED
    BY <1>1, <1>2, <1>4, <1>5, MoveKeeps DEF IInv, TypeOK, PendingNamed

LEMMA RefusedKeeps ==
    ASSUME IInv, NEW t \in Tabs, Refused(t)
    PROVE  IInv'
  BY SendKeeps, OpNames DEF Refused

LEMMA CallKeeps ==
    ASSUME IInv, NEW t \in Tabs, Call(t)
    PROVE  IInv'
  <1>1. Owner[BrowserOf[t]] \in Users
    BY AuthAssumption
  <1>2. PublicOps \subseteq CallOps \ DecisionOps
    BY DEF PublicOps, CallOps, DecisionOps
  <1>3. CASE \E op \in PublicOps \union ({"logout"} \union UserOps) :
                Send(t, "call", op, Owner[BrowserOf[t]], 0)
    BY <1>1, <1>2, <1>3, SendKeeps, OpNames
  <1>4. CASE \E op \in AccountOps, u \in Users : Send(t, "call", op, u, 0)
    BY <1>4, SendKeeps, OpNames
  <1>5. CASE \E op \in DecisionOps, i \in Resets : Send(t, "call", op, None, i)
    BY <1>5, SendKeeps, OpNames
  <1>. QED
    BY <1>3, <1>4, <1>5 DEF Call

LEMMA LoadKeeps ==
    ASSUME IInv, NEW t \in Tabs, Load(t)
    PROVE  IInv'
  <1>1. signedIn' \in [Tabs -> BOOLEAN] /\ UNCHANGED <<users, sessions, resets, jar, h, sent, lost>>
    BY DEF Load, IInv, TypeOK
  <1>. QED
    BY <1>1 DEF IInv, TypeOK, HandlersOK, PendingNamed, Consumed, OldSessionsEnd, EndingListed,
                Listed, LiveOf, OneDisabling, Disabling, AnotherRemains, ActiveAdmins, AdminRemains

\* A handler whose response has arrived, or is lost.
LEMMA IdlesKeeps ==
    ASSUME IInv, NEW p \in Procs, Become(p, Idle), UNCHANGED <<users, sessions, resets, sent>>,
           jar' \in [Browsers -> Token], signedIn' \in [Tabs -> BOOLEAN], lost' \in 0..MaxLost
    PROVE  IInv'
  <1>1. Listed(Idle) /\ ~Disabling(Idle)
    BY IdleTyped DEF Listed, Disabling
  <1>. QED
    BY <1>1, IdleTyped, MoveKeeps DEF IInv, TypeOK, PendingNamed

LEMMA ReceiveKeeps ==
    ASSUME IInv, NEW t \in Tabs, NEW kind \in {"refresh", "call"}, Receive(t, kind)
    PROVE  IInv'
  <1>. DEFINE p == <<t, kind>>
  <1>1. p \in Procs /\ BrowserOf[t] \in Browsers
    BY AuthAssumption DEF Procs
  <1>2. Become(p, Idle) /\ UNCHANGED <<users, sessions, resets, sent, lost>>
    BY DEF Receive
  <1>3. h[p] \in Handler /\ h[p].grant \in Token
    BY <1>1 DEF IInv, TypeOK, Handler
  <1>4. Cookies(BrowserOf[t], h[p]) \in Token
    BY <1>1, <1>3, NoTokenTyped DEF Cookies, IInv, TypeOK
  <1>5. jar' \in [Browsers -> Token]
    BY <1>4 DEF Receive, IInv, TypeOK
  <1>6. signedIn' \in [Tabs -> BOOLEAN]
    BY DEF Receive, IInv, TypeOK
  <1>. HIDE DEF p
  <1>. QED
    BY <1>1, <1>2, <1>5, <1>6, IdlesKeeps DEF IInv, TypeOK

LEMMA LoseKeeps ==
    ASSUME IInv, NEW t \in Tabs, NEW kind \in {"refresh", "call"}, Lose(t, kind)
    PROVE  IInv'
  <1>. DEFINE p == <<t, kind>>
  <1>1. p \in Procs
    BY DEF Procs
  <1>2. Become(p, Idle) /\ UNCHANGED <<users, sessions, resets, jar, sent>>
    BY DEF Lose
  <1>3. lost' \in 0..MaxLost
    BY AuthAssumption DEF Lose, IInv, TypeOK
  <1>4. signedIn' \in [Tabs -> BOOLEAN]
    BY DEF Lose, IInv, TypeOK
  <1>. HIDE DEF p
  <1>. QED
    BY <1>1, <1>2, <1>3, <1>4, IdlesKeeps DEF IInv, TypeOK

LEMMA RowsTyped ==
    ASSUME TypeOK
    PROVE  /\ DOMAIN sessions = 1..Len(sessions) /\ Len(sessions) \in Nat
           /\ \A s \in DOMAIN sessions :
                 /\ sessions[s] \in Row
                 /\ sessions[s].user \in Users /\ sessions[s].gen \in Nat
                 /\ sessions[s].live \in BOOLEAN
  <1>1. sessions \in Seq(Row)
    BY DEF TypeOK
  <1>2. \A s \in DOMAIN sessions : sessions[s] \in Row
    BY <1>1
  <1>. QED
    BY <1>1, <1>2 DEF Row

LEMMA LapseKeeps ==
    ASSUME IInv, NEW u \in Users, Lapse(u)
    PROVE  IInv'
  <1>1. /\ users' \in [Users -> User]
        /\ \A a \in Users : users'[a].active = users[a].active /\ users'[a].epoch = users[a].epoch
    BY DEF Lapse, IInv, TypeOK, User
  <1>2. UNCHANGED <<sessions, resets, jar, signedIn, h, sent, lost>>
    BY DEF Lapse
  <1>3. TypeOK' /\ HandlersOK' /\ PendingNamed' /\ Consumed'
    BY <1>1, <1>2 DEF IInv, TypeOK, HandlersOK, PendingNamed, Consumed
  <1>4. OldSessionsEnd'
    <2>1. \A s \in DOMAIN sessions : sessions[s].user \in Users
      BY RowsTyped DEF IInv
    <2>. QED
      BY <1>1, <1>2, <2>1 DEF IInv, OldSessionsEnd
  <1>5. EndingListed'
    BY <1>2 DEF IInv, EndingListed, Listed, LiveOf
  <1>6. ActiveAdmins' = ActiveAdmins
    BY <1>1, AuthAssumption DEF ActiveAdmins
  <1>7. OneDisabling' /\ AdminRemains'
    BY <1>2, <1>6 DEF IInv, OneDisabling, Disabling, AnotherRemains, AdminRemains
  <1>. QED
    BY <1>3, <1>4, <1>5, <1>7 DEF IInv

-----------------------------------------------------------------------------
(* The handlers' steps that do not write users or sessions.                *)

LEMMA HandlerTyped ==
    ASSUME IInv, NEW p \in Procs
    PROVE  /\ h[p] \in Handler /\ HandlerOK(h[p])
           /\ h[p].token \in Token /\ h[p].of \in Users \union {None}
           /\ h[p].item \in Resets \union {0} /\ h[p].op \in CallOps \union {"refresh", None}
  <1>1. h[p] \in Handler /\ HandlerOK(h[p])
    BY DEF IInv, TypeOK, HandlersOK
  <1>. QED
    BY <1>1 DEF Handler

LEMMA AnswerKeeps ==
    ASSUME IInv, NEW p \in Procs, h[p].pc # "idle", NEW ok \in BOOLEAN, NEW g \in Token,
           Answer(p, ok, g), UNCHANGED <<users, sessions, jar, signedIn, sent, lost>>,
           resets' \in [Resets -> Reset], PendingNamed'
    PROVE  IInv'
  <1>. DEFINE m == [h[p] EXCEPT !.pc = "reply", !.ok = ok, !.grant = g]
  <1>1. Become(p, m)
    BY DEF Answer
  <1>. HIDE DEF m
  <1>2. m \in Handler /\ HandlerOK(m) /\ m.pc = "reply"
    BY HandlerTyped, Answered DEF m
  <1>3. Listed(m) /\ ~Disabling(m)
    BY <1>2 DEF Listed, Disabling
  <1>. QED
    BY <1>1, <1>2, <1>3, MoveKeeps DEF IInv, TypeOK

LEMMA FailKeeps ==
    ASSUME IInv, NEW p \in Procs, h[p].pc # "idle", Fail(p),
           UNCHANGED <<users, sessions, resets, jar, signedIn, sent, lost>>
    PROVE  IInv'
  BY AnswerKeeps, NoTokenTyped DEF Fail, IInv, TypeOK, PendingNamed

LEMMA LookUpKeeps ==
    ASSUME IInv, NEW p \in Procs, LookUp(p)
    PROVE  IInv'
  <1>1. h[p].pc = "begin" /\ UNCHANGED <<users, sessions, resets, jar, signedIn, sent, lost>>
    BY DEF LookUp
  <1>. DEFINE m == [h[p] EXCEPT !.pc = "rotate"]
  <1>2. CASE Become(p, m)
    <2>1. m \in Handler
      BY HandlerTyped DEF Handler
    <2>2. m.pc = "rotate" /\ m.op = h[p].op /\ m.of = h[p].of /\ m.item = h[p].item
      BY HandlerTyped DEF Handler
    <2>. HIDE DEF m
    <2>3. HandlerOK(m) /\ Listed(m) /\ ~Disabling(m)
      BY <1>1, <2>2, HandlerTyped DEF HandlerOK, Listed, Disabling
    <2>. QED
      BY <1>1, <1>2, <2>1, <2>3, MoveKeeps DEF IInv, TypeOK, PendingNamed
  <1>3. CASE Fail(p)
    BY <1>1, <1>3, FailKeeps
  <1>. QED
    BY <1>2, <1>3 DEF LookUp

\* A handler that has copied the user's row.
LEMMA CopiedKeeps ==
    ASSUME IInv, NEW p \in Procs, h[p].pc = "begin",
           h[p].op \in {"login"} \union UserOps \union AccountOps,
           Become(p, [h[p] EXCEPT !.pc = "list", !.seen = users[h[p].of]]),
           UNCHANGED <<users, sessions, resets, jar, signedIn, sent, lost>>
    PROVE  IInv'
  <1>. DEFINE u == users[h[p].of]
              m == [h[p] EXCEPT !.pc = "list", !.seen = u]
  <1>1. h[p].of \in Users /\ u \in User
    BY HandlerTyped, OpNames DEF HandlerOK, IInv, TypeOK
  <1>. HIDE DEF u
  <1>2. m \in Handler
    BY <1>1, HandlerTyped DEF Handler
  <1>3. m.pc = "list" /\ m.op = h[p].op /\ m.of = h[p].of /\ m.item = h[p].item /\ m.seen = u
    BY HandlerTyped DEF Handler
  <1>4. Become(p, m)
    BY DEF u
  <1>. HIDE DEF m
  <1>5. HandlerOK(m) /\ Listed(m) /\ ~Disabling(m)
    BY <1>1, <1>3, HandlerTyped DEF HandlerOK, Listed, Disabling
  <1>. QED
    BY <1>2, <1>4, <1>5, MoveKeeps DEF IInv, TypeOK, PendingNamed

LEMMA LoginKeeps ==
    ASSUME IInv, NEW p \in Procs, Login(p)
    PROVE  IInv'
  <1>1. h[p].pc = "begin" /\ UNCHANGED <<users, sessions, resets, jar, signedIn, sent, lost>>
        /\ h[p].op = "login"
    BY DEF Login
  <1>2. Fail(p) \/ Become(p, [h[p] EXCEPT !.pc = "list", !.seen = users[h[p].of]])
    BY DEF Login
  <1>. QED
    BY <1>1, <1>2, CopiedKeeps, FailKeeps

LEMMA BeginKeeps ==
    ASSUME IInv, NEW p \in Procs, Begin(p)
    PROVE  IInv'
  <1>1. h[p].pc = "begin" /\ UNCHANGED <<users, sessions, resets, jar, signedIn, sent, lost>>
        /\ h[p].op \in UserOps \union AccountOps
    BY DEF Begin
  <1>2. Fail(p) \/ Become(p, [h[p] EXCEPT !.pc = "list", !.seen = users[h[p].of]])
    BY DEF Begin
  <1>. QED
    BY <1>1, <1>2, CopiedKeeps, FailKeeps

\* A handler that has listed the sessions it will revoke.
LEMMA ListsKeeps ==
    ASSUME IInv, NEW p \in Procs, h[p].pc = "list", NEW list \in SUBSET (DOMAIN sessions),
           Become(p, [h[p] EXCEPT !.pc = "commit", !.list = list]),
           UNCHANGED <<users, sessions, resets, jar, signedIn, sent, lost>>,
           h[p].op \in Bumping => LiveOf(h[p].of) \subseteq list,
           h[p].op = "disable" /\ ~DisablesOverlap => InHand({"disable"}) = {} /\ ~LastAdmin(h[p])
    PROVE  IInv'
  <1>. DEFINE m == [h[p] EXCEPT !.pc = "commit", !.list = list]
  <1>1. list \in SUBSET Nat
    BY RowsTyped DEF IInv
  <1>2. m \in Handler
    BY <1>1, HandlerTyped DEF Handler
  <1>3. /\ m.pc = "commit" /\ m.op = h[p].op /\ m.of = h[p].of /\ m.item = h[p].item
        /\ m.seen = h[p].seen /\ m.list = list
    BY HandlerTyped DEF Handler
  <1>. HIDE DEF m
  <1>4. Become(p, m)
    BY DEF m
  <1>5. HandlerOK(m)
    BY <1>3, HandlerTyped, OpNames DEF HandlerOK
  <1>6. Listed(m)
    BY <1>3 DEF Listed
  <1>7. ASSUME ~DisablesOverlap, Disabling(m)
        PROVE  AnotherRemains(m) /\ \A q \in Procs \ {p} : ~Disabling(h[q])
    <2>1. InHand({"disable"}) = {} /\ ~LastAdmin(h[p])
      BY <1>3, <1>7 DEF Disabling
    <2>2. \A q \in Procs \ {p} : ~Disabling(h[q])
      BY <2>1 DEF InHand, Disabling
    <2>3. IsFiniteSet(ActiveAdmins) /\ Cardinality(ActiveAdmins) \in Nat
      BY AuthAssumption, FS_Subset, FS_CardinalityType DEF ActiveAdmins
    <2>4. ASSUME ActiveAdmins \subseteq {m.of} PROVE Cardinality(ActiveAdmins) <= 1
      <3>1. IsFiniteSet({m.of}) /\ Cardinality({m.of}) = 1
        BY FS_Singleton
      <3>. QED
        BY <2>4, <3>1, FS_Subset
    <2>. QED
      BY <1>3, <2>1, <2>2, <2>3, <2>4 DEF LastAdmin, AnotherRemains
  <1>. QED
    BY <1>2, <1>4, <1>5, <1>6, <1>7, MoveKeeps DEF IInv, TypeOK, PendingNamed

LEMMA ListExcessKeeps ==
    ASSUME IInv, NEW p \in Procs, ListExcess(p)
    PROVE  IInv'
  BY ListsKeeps DEF ListExcess, Excess, LiveOf, Bumping

LEMMA ListAllKeeps ==
    ASSUME IInv, NEW p \in Procs, ListAll(p)
    PROVE  IInv'
  <1>. DEFINE list == IF h[p].op = "enable" THEN {} ELSE ToRevoke(h[p].of)
  <1>1. h[p].pc = "list" /\ UNCHANGED <<users, sessions, resets, jar, signedIn, sent, lost>>
        /\ (h[p].op = "disable" /\ ~DisablesOverlap => InHand({"disable"}) = {})
    BY DEF ListAll
  <1>2. CASE h[p].op = "disable" /\ LastAdmin(h[p])
    BY <1>1, <1>2, FailKeeps DEF ListAll
  <1>3. CASE ~(h[p].op = "disable" /\ LastAdmin(h[p]))
    <2>1. Become(p, [h[p] EXCEPT !.pc = "commit", !.list = list])
      BY <1>3 DEF ListAll
    <2>2. list \in SUBSET (DOMAIN sessions) /\ (h[p].op \in Bumping => LiveOf(h[p].of) \subseteq list)
      BY DEF ToRevoke, LiveOf, Bumping
    <2>. HIDE DEF list
    <2>. QED
      BY <1>1, <1>3, <2>1, <2>2, ListsKeeps
  <1>. QED
    BY <1>2, <1>3

LEMMA LogoutKeeps ==
    ASSUME IInv, NEW p \in Procs, Logout(p)
    PROVE  IInv'
  <1>1. /\ h[p].pc = "begin" /\ h[p].op = "logout"
        /\ UNCHANGED <<users, sessions, resets, jar, signedIn, sent, lost>>
    BY DEF Logout
  <1>. DEFINE sid == h[p].token.sid
              m == [h[p] EXCEPT !.pc = "commit", !.list = {sid}]
              r == [h[p] EXCEPT !.pc = "reply", !.ok = TRUE]
  <1>2. sid \in Nat /\ h[p].of \in Users
    BY <1>1, HandlerTyped, OpNames DEF Token, HandlerOK
  <1>3. CASE Become(p, m)
    <2>. HIDE DEF sid
    <2>1. m \in Handler
      BY <1>2, HandlerTyped DEF Handler
    <2>2. m.pc = "commit" /\ m.op = h[p].op /\ m.of = h[p].of /\ m.item = h[p].item
      BY HandlerTyped DEF Handler
    <2>. HIDE DEF m
    <2>3. HandlerOK(m) /\ Listed(m) /\ ~Disabling(m)
      BY <1>1, <1>2, <2>2, HandlerTyped, OpNames
         DEF HandlerOK, Listed, Disabling, Bumping, UserOps, AccountOps
    <2>. QED
      BY <1>1, <1>3, <2>1, <2>3, MoveKeeps DEF IInv, TypeOK, PendingNamed
  <1>4. CASE Become(p, r)
    <2>1. r \in Handler
      BY HandlerTyped DEF Handler
    <2>2. r.pc = "reply" /\ r.op = h[p].op /\ r.of = h[p].of /\ r.item = h[p].item
      BY HandlerTyped DEF Handler
    <2>. HIDE DEF r
    <2>3. HandlerOK(r) /\ Listed(r) /\ ~Disabling(r)
      BY <1>1, <2>2, HandlerTyped DEF HandlerOK, Listed, Disabling
    <2>. QED
      BY <1>1, <1>4, <2>1, <2>3, MoveKeeps DEF IInv, TypeOK, PendingNamed
  <1>5. CASE Fail(p)
    BY <1>1, <1>5, FailKeeps
  <1>. QED
    BY <1>3, <1>4, <1>5 DEF Logout

LEMMA AskResetKeeps ==
    ASSUME IInv, NEW p \in Procs, AskReset(p)
    PROVE  IInv'
  <1>1. /\ h[p].pc = "begin" /\ h[p].op = "askReset" /\ Answer(p, TRUE, NoToken)
        /\ UNCHANGED <<users, sessions, jar, signedIn, sent, lost>>
    BY DEF AskReset
  <1>2. h[p].of \in Users
    BY <1>1, HandlerTyped, OpNames DEF HandlerOK
  <1>. DEFINE new == [user |-> h[p].of, status |-> "pending"]
  <1>3. resets' = resets \/ \E i \in Nat : resets' = [resets EXCEPT ![i] = new]
    <2>. DEFINE i == CHOOSE i \in Unused : \A j \in Unused : i <= j
    <2>1. resets' = resets \/ resets' = [resets EXCEPT ![i] = new]
      BY DEF AskReset
    <2>. HIDE DEF i
    <2>2. resets \in [Resets -> Reset]
      BY DEF IInv, TypeOK
    <2>3. i \notin Resets => [resets EXCEPT ![i] = new] = resets
      BY <2>2
    <2>4. Resets \subseteq Nat
      BY AuthAssumption DEF Resets
    <2>. QED
      BY <2>1, <2>3, <2>4
  <1>4. new \in Reset /\ new.user \in Users
    BY <1>2 DEF Reset
  <1>. HIDE DEF new
  <1>5. resets' \in [Resets -> Reset] /\ PendingNamed'
    BY <1>3, <1>4 DEF IInv, TypeOK, PendingNamed
  <1>. QED
    BY <1>1, <1>5, AnswerKeeps, NoTokenTyped

LEMMA LockKeeps ==
    ASSUME IInv, NEW p \in Procs, Lock(p)
    PROVE  IInv'
  <1>. DEFINE u == resets[h[p].item].user
              list == IF h[p].op = "approve" THEN ToRevoke(u) ELSE {}
              m == [h[p] EXCEPT !.pc = "commit", !.of = u, !.list = list]
  <1>1. /\ h[p].pc = "begin" /\ h[p].op \in DecisionOps /\ h[p].item \in Resets
        /\ UNCHANGED <<users, sessions, resets, jar, signedIn, sent, lost>>
    BY HandlerTyped DEF Lock, HandlerOK
  <1>2. CASE Fail(p)
    BY <1>1, <1>2, FailKeeps
  <1>3. CASE Become(p, m) /\ Decidable(h[p].item)
    <2>1. u \in Users
      BY <1>1, <1>3 DEF Decidable, IInv, PendingNamed
    <2>2. list \in SUBSET Nat /\ (h[p].op = "approve" => LiveOf(u) \subseteq list)
      BY RowsTyped DEF ToRevoke, LiveOf, IInv
    <2>. HIDE DEF u, list
    <2>3. m \in Handler
      BY <2>1, <2>2, HandlerTyped DEF Handler
    <2>4. m.pc = "commit" /\ m.op = h[p].op /\ m.of = u /\ m.item = h[p].item /\ m.list = list
      BY HandlerTyped DEF Handler
    <2>. HIDE DEF m
    <2>5. HandlerOK(m)
      BY <1>1, <2>1, <2>4, OpNames DEF HandlerOK, UserOps, AccountOps, DecisionOps
    <2>6. Listed(m) /\ ~Disabling(m)
      BY <1>1, <2>2, <2>4 DEF Listed, Disabling, Bumping, DecisionOps
    <2>. QED
      BY <1>1, <1>3, <2>3, <2>5, <2>6, MoveKeeps DEF IInv, TypeOK, PendingNamed
  <1>. QED
    BY <1>2, <1>3 DEF Lock

-----------------------------------------------------------------------------
(* The handlers' writes.                                                   *)

SameButLive(r, o) == /\ r \in Row /\ r.user = o.user /\ r.gen = o.gen /\ r.epoch = o.epoch
                     /\ r.used = o.used /\ r.late = o.late

\* What revoking a set of sessions changes.
LEMMA RevokedRows ==
    ASSUME TypeOK, NEW S
    PROVE  /\ Revoked(S) \in Seq(Row) /\ Len(Revoked(S)) = Len(sessions)
           /\ DOMAIN Revoked(S) = DOMAIN sessions
           /\ \A s \in DOMAIN sessions :
                 /\ SameButLive(Revoked(S)[s], sessions[s])
                 /\ Revoked(S)[s].live => sessions[s].live /\ s \notin S
  <1>1. \A s \in DOMAIN sessions :
            /\ SameButLive(Revoked(S)[s], sessions[s])
            /\ Revoked(S)[s].live => sessions[s].live /\ s \notin S
    <2>. SUFFICES ASSUME NEW s \in DOMAIN sessions
                  PROVE  /\ SameButLive(Revoked(S)[s], sessions[s])
                         /\ Revoked(S)[s].live => sessions[s].live /\ s \notin S
      OBVIOUS
    <2>1. sessions[s] \in Row
      BY RowsTyped
    <2>2. CASE s \in S
      <3>1. Revoked(S)[s] = [sessions[s] EXCEPT !.live = FALSE]
        BY <2>2 DEF Revoked
      <3>. QED
        BY <2>1, <3>1 DEF SameButLive, Row
    <2>3. CASE s \notin S
      <3>1. Revoked(S)[s] = sessions[s]
        BY <2>3 DEF Revoked
      <3>. QED
        BY <2>1, <2>3, <3>1 DEF SameButLive
    <2>. QED
      BY <2>2, <2>3
  <1>2. DOMAIN Revoked(S) = 1..Len(sessions) /\ Len(sessions) \in Nat
    BY RowsTyped DEF Revoked
  <1>3. Revoked(S) \in [1..Len(sessions) -> Row]
    BY <1>1, <1>2, RowsTyped DEF SameButLive, Revoked
  <1>4. Revoked(S) \in Seq(Row)
    BY <1>2, <1>3
  <1>5. Len(Revoked(S)) = Len(sessions)
    BY <1>2, <1>4
  <1>. QED
    BY <1>1, <1>2, <1>4, <1>5, RowsTyped

\* What the exchange of a token changes.
LEMMA RotatedRows ==
    ASSUME TypeOK, NEW k \in Token, Rotatable(k),
           sessions' = [sessions EXCEPT ![k.sid].gen = @ + 1, ![k.sid].used = @ \union {k.gen}]
    PROVE  /\ sessions' \in Seq(Row) /\ DOMAIN sessions' = DOMAIN sessions
           /\ \A s \in DOMAIN sessions :
                 /\ sessions'[s].user = sessions[s].user /\ sessions'[s].live = sessions[s].live
                 /\ sessions'[s].late = sessions[s].late /\ sessions'[s].epoch = sessions[s].epoch
           /\ \A s \in DOMAIN sessions \ {k.sid} : sessions'[s] = sessions[s]
           /\ k.sid \in DOMAIN sessions /\ sessions[k.sid].live
           /\ sessions'[k.sid].gen = sessions[k.sid].gen + 1
           /\ sessions'[k.sid].used = sessions[k.sid].used \union {sessions[k.sid].gen}
  <1>1. k.sid \in DOMAIN sessions /\ sessions[k.sid].live /\ k.gen = sessions[k.sid].gen
    BY DEF Rotatable, Current, Live, Exists
  <1>. DEFINE o == sessions[k.sid]
              n == o.gen + 1
              v == o.used \union {k.gen}
              r == [o EXCEPT !.gen = n, !.used = v]
  <1>2. o \in Row /\ o.gen \in Nat /\ o.used \in SUBSET Nat /\ k.gen = o.gen
    BY <1>1, RowsTyped DEF Row
  <1>3. sessions' = [sessions EXCEPT ![k.sid] = r]
    OBVIOUS
  <1>. HIDE DEF o
  <1>8. n \in Nat /\ v \in SUBSET Nat
    BY <1>2
  <1>. HIDE DEF n, v
  <1>4. r \in Row
    BY <1>2, <1>8 DEF Row
  <1>5. /\ r.user = o.user /\ r.live = o.live /\ r.late = o.late /\ r.epoch = o.epoch
        /\ r.gen = n /\ r.used = v
    BY <1>2 DEF Row
  <1>. HIDE DEF r
  <1>6. sessions' \in Seq(Row) /\ DOMAIN sessions' = DOMAIN sessions
    BY <1>1, <1>3, <1>4 DEF TypeOK
  <1>7. sessions'[k.sid] = r /\ \A s \in DOMAIN sessions \ {k.sid} : sessions'[s] = sessions[s]
    BY <1>1, <1>3
  <1>. QED
    BY <1>1, <1>2, <1>5, <1>6, <1>7 DEF o, n, v

LEMMA RotateKeeps ==
    ASSUME IInv, NEW p \in Procs, Rotate(p)
    PROVE  IInv'
  <1>. DEFINE k == h[p].token
              g == [sid |-> k.sid, gen |-> sessions[k.sid].gen + 1]
              l == [h[p] EXCEPT !.pc = "reply", !.ok = TRUE, !.grant = g]
  <1>1. /\ h[p].pc = "rotate" /\ UNCHANGED <<users, resets, jar, signedIn, sent, lost>>
        /\ k \in Token
    BY HandlerTyped DEF Rotate
  <1>2. CASE ~Rotatable(k)
    BY <1>1, <1>2, FailKeeps DEF Rotate
  <1>3. CASE Rotatable(k)
    <2>1. /\ sessions' = [sessions EXCEPT ![k.sid].gen = @ + 1, ![k.sid].used = @ \union {k.gen}]
          /\ Become(p, l)
      BY <1>3 DEF Rotate, Answer
    <2>. HIDE DEF k
    <2>2. /\ sessions' \in Seq(Row) /\ DOMAIN sessions' = DOMAIN sessions
          /\ \A s \in DOMAIN sessions :
                 /\ sessions'[s].user = sessions[s].user /\ sessions'[s].live = sessions[s].live
                 /\ sessions'[s].late = sessions[s].late /\ sessions'[s].epoch = sessions[s].epoch
          /\ \A s \in DOMAIN sessions \ {k.sid} : sessions'[s] = sessions[s]
          /\ k.sid \in DOMAIN sessions
          /\ sessions'[k.sid].gen = sessions[k.sid].gen + 1
          /\ sessions'[k.sid].used = sessions[k.sid].used \union {sessions[k.sid].gen}
      BY <1>1, <1>3, <2>1, RotatedRows DEF IInv
    <2>3. g \in Token
      BY <1>1, <2>2, RowsTyped DEF Token, IInv
    <2>. HIDE DEF g, l
    <2>4. l \in Handler /\ HandlerOK(l) /\ l.pc = "reply"
      <3>1. h[p] \in Handler /\ HandlerOK(h[p]) /\ h[p].pc # "idle" /\ TRUE \in BOOLEAN
        BY <1>1, HandlerTyped
      <3>. QED
        BY <2>3, <3>1, Answered DEF l
    <2>5. Consumed'
      <3>1. sessions[k.sid].gen \in Nat /\ sessions[k.sid].gen >= 1
            /\ sessions[k.sid].used = 1..(sessions[k.sid].gen - 1)
        BY <2>2, RowsTyped DEF IInv, Consumed
      <3>. DEFINE n == sessions[k.sid].gen
      <3>2. n \in Nat /\ n >= 1 => (1..(n - 1)) \union {n} = 1..((n + 1) - 1)
        OBVIOUS
      <3>3. sessions'[k.sid].gen >= 1
            /\ sessions'[k.sid].used = 1..(sessions'[k.sid].gen - 1)
        BY <2>2, <3>1, <3>2
      <3>. QED
        BY <2>2, <3>3 DEF IInv, Consumed
    <2>6. OldSessionsEnd'
      BY <1>1, <2>2 DEF IInv, OldSessionsEnd
    <2>. QED
      BY <1>1, <2>1, <2>2, <2>4, <2>5, <2>6, WriteKeeps DEF IInv, TypeOK, PendingNamed
  <1>. QED
    BY <1>2, <1>3

\* A session that is opened: its row is the last.
LEMMA OpenSessionKeeps ==
    ASSUME IInv, NEW p \in Procs, OpenSession(p)
    PROVE  IInv'
  <1>. DEFINE u == h[p].of
              R == Revoked(h[p].list)
              n == Len(sessions) + 1
              late == h[p].seen.epoch # users[u].epoch \/ Ending(u) # {}
              new == [user |-> u, live |-> TRUE, gen |-> 1, epoch |-> h[p].seen.epoch,
                      used |-> {}, late |-> late]
              g == [sid |-> n, gen |-> 1]
              l == [h[p] EXCEPT !.pc = "reply", !.ok = TRUE, !.grant = g]
  <1>1. /\ h[p].pc = "commit" /\ h[p].op = "login" /\ sessions' = Append(R, new)
        /\ Become(p, l) /\ UNCHANGED <<users, resets, jar, signedIn, sent, lost>>
    BY DEF OpenSession, Answer
  <1>2. u \in Users /\ h[p].seen.epoch \in Nat
    BY <1>1, HandlerTyped DEF HandlerOK, User
  <1>3. late \in BOOLEAN
    OBVIOUS
  <1>4. /\ ~late => h[p].seen.epoch = users[u].epoch
        /\ ~late => \A q \in Procs : h[q].pc = "commit" /\ h[q].op \in Bumping => h[q].of # u
    BY DEF Ending, InHand, Bumping, CallOps, UserOps, AccountOps, DecisionOps
  <1>5. /\ R \in Seq(Row) /\ Len(R) = Len(sessions) /\ DOMAIN R = DOMAIN sessions
        /\ \A s \in DOMAIN sessions :
              SameButLive(R[s], sessions[s]) /\ (R[s].live => sessions[s].live)
    BY RevokedRows DEF IInv
  <1>6. /\ Len(sessions) \in Nat /\ DOMAIN sessions = 1..Len(sessions)
    BY RowsTyped DEF IInv
  <1>. HIDE DEF late, R
  <1>7. new \in Row
    BY <1>2, <1>3 DEF Row
  <1>8. /\ new.user = u /\ new.gen = 1 /\ new.used = {} /\ new.epoch = h[p].seen.epoch
        /\ new.late = late
    OBVIOUS
  <1>9. g \in Token
    BY <1>6 DEF Token
  <1>. HIDE DEF new, g, l, u
  <1>10. l \in Handler /\ HandlerOK(l) /\ l.pc = "reply"
    <2>1. h[p] \in Handler /\ HandlerOK(h[p]) /\ h[p].pc # "idle" /\ TRUE \in BOOLEAN
      BY <1>1, HandlerTyped
    <2>. QED
      BY <1>9, <2>1, Answered DEF l
  <1>11. /\ sessions' \in Seq(Row) /\ DOMAIN sessions' = DOMAIN sessions \union {n}
         /\ n \notin DOMAIN sessions /\ sessions'[n] = new
         /\ \A s \in DOMAIN sessions : sessions'[s] = R[s]
    <2>1. Append(R, new) \in Seq(Row) /\ Len(Append(R, new)) = Len(R) + 1
      BY <1>5, <1>7
    <2>2. \A s \in 1..Len(R) : Append(R, new)[s] = R[s]
      BY <1>5, <1>7
    <2>3. Append(R, new)[Len(R) + 1] = new
      BY <1>5, <1>7
    <2>. QED
      BY <1>1, <1>5, <1>6, <2>1, <2>2, <2>3
  <1>. HIDE DEF n
  <1>12. Consumed'
    <2>1. sessions'[n].gen >= 1 /\ sessions'[n].used = 1..(sessions'[n].gen - 1)
      <3>1. sessions'[n].gen = 1 /\ sessions'[n].used = {}
        BY <1>8, <1>11
      <3>2. 1..(1 - 1) = {}
        OBVIOUS
      <3>. QED
        BY <3>1, <3>2
    <2>2. \A s \in DOMAIN sessions :
             sessions'[s].gen >= 1 /\ sessions'[s].used = 1..(sessions'[s].gen - 1)
      BY <1>5, <1>11 DEF IInv, Consumed, SameButLive
    <2>. QED
      BY <1>11, <2>1, <2>2 DEF Consumed
  <1>13. OldSessionsEnd'
    <2>. SUFFICES ASSUME NEW s \in DOMAIN sessions', sessions'[s].live,
                         sessions'[s].epoch # users[sessions'[s].user].epoch
                  PROVE  sessions'[s].late
      BY <1>1 DEF OldSessionsEnd
    <2>1. CASE s = n
      BY <1>3, <1>4, <1>8, <1>11, <2>1
    <2>2. CASE s # n
      BY <1>5, <1>11, <2>2 DEF IInv, OldSessionsEnd, SameButLive
    <2>. QED
      BY <2>1, <2>2
  <1>14. ASSUME NEW s \in DOMAIN sessions', sessions'[s].live
         PROVE  \/ /\ s \in DOMAIN sessions /\ sessions[s].live
                   /\ sessions'[s].user = sessions[s].user /\ sessions'[s].late = sessions[s].late
                \/ sessions'[s].late
                \/ \A q \in Procs : h[q].pc = "commit" /\ h[q].op \in Bumping =>
                       h[q].of # sessions'[s].user
    <2>1. CASE s = n
      BY <1>3, <1>4, <1>8, <1>11, <2>1
    <2>2. CASE s # n
      BY <1>5, <1>11, <1>14, <2>2 DEF SameButLive
    <2>. QED
      BY <2>1, <2>2
  <1>. QED
    BY <1>1, <1>10, <1>11, <1>12, <1>13, <1>14, WriteKeeps DEF IInv, TypeOK, PendingNamed

\* A commit that gives the user's row w and revokes the listed sessions.
LEMMA EndsKeeps ==
    ASSUME IInv, NEW p \in Procs, h[p].pc = "commit", NEW w \in User,
           users' = [users EXCEPT ![h[p].of] = w], sessions' = Revoked(h[p].list),
           Answer(p, TRUE, NoToken), UNCHANGED <<jar, signedIn, sent, lost>>,
           resets' \in [Resets -> Reset], PendingNamed',
           h[p].op \notin Bumping => w.epoch = users[h[p].of].epoch,
           h[p].op # "disable" => (users[h[p].of].active => w.active),
           h[p].op = "disable" /\ ~h[p].seen.active => w.active = users[h[p].of].active
    PROVE  IInv'
  <1>. DEFINE l == [h[p] EXCEPT !.pc = "reply", !.ok = TRUE, !.grant = NoToken]
  <1>1. h[p].of \in Users /\ h[p] \in Handler /\ HandlerOK(h[p]) /\ h[p].pc # "idle"
        /\ TRUE \in BOOLEAN /\ Become(p, l)
    BY HandlerTyped DEF HandlerOK, Answer
  <1>2. l \in Handler /\ HandlerOK(l) /\ l.pc = "reply"
    BY <1>1, NoTokenTyped, Answered, ZenonT(30)
  <1>. HIDE DEF l
  <1>3. /\ users' \in [Users -> User] /\ users'[h[p].of] = w
        /\ \A u \in Users \ {h[p].of} : users'[u] = users[u]
    BY <1>1 DEF IInv, TypeOK
  <1>4. /\ sessions' \in Seq(Row) /\ DOMAIN sessions' = DOMAIN sessions
        /\ \A s \in DOMAIN sessions :
              /\ SameButLive(sessions'[s], sessions[s])
              /\ sessions'[s].live => sessions[s].live /\ s \notin h[p].list
    BY RevokedRows DEF IInv
  <1>5. Consumed'
    BY <1>4 DEF IInv, Consumed, SameButLive
  <1>6. OldSessionsEnd'
    <2>. SUFFICES ASSUME NEW s \in DOMAIN sessions, sessions'[s].live,
                         sessions[s].epoch # users'[sessions[s].user].epoch
                  PROVE  sessions[s].late
      BY <1>4 DEF OldSessionsEnd, SameButLive
    <2>1. sessions[s].user \in Users /\ sessions[s].live /\ s \notin h[p].list
      BY <1>4, RowsTyped DEF IInv
    <2>2. CASE sessions[s].user = h[p].of /\ h[p].op \in Bumping
      BY <2>1, <2>2 DEF IInv, EndingListed, Listed, LiveOf
    <2>3. CASE ~(sessions[s].user = h[p].of /\ h[p].op \in Bumping)
      BY <1>1, <1>3, <2>1, <2>3 DEF IInv, OldSessionsEnd
    <2>. QED
      BY <2>2, <2>3
  <1>7. \A s \in DOMAIN sessions' : sessions'[s].live =>
            /\ s \in DOMAIN sessions /\ sessions[s].live
            /\ sessions'[s].user = sessions[s].user /\ sessions'[s].late = sessions[s].late
    BY <1>4 DEF SameButLive
  <1>8. \/ \A a \in Users : users[a].active => users'[a].active
        \/ /\ Disabling(h[p])
           /\ \A a \in Users \ {h[p].of} : users'[a].active = users[a].active
           /\ ~h[p].seen.active => users'[h[p].of].active = users[h[p].of].active
    BY <1>1, <1>3 DEF Disabling
  <1>. QED
    BY <1>1, <1>2, <1>3, <1>4, <1>5, <1>6, <1>7, <1>8, WriteKeeps

\* The new row of a user is a row; no change but a disabling deactivates, and
\* that none but an account its copy shows active.
LEMMA WrittenRow ==
    ASSUME NEW l \in Handler, l.op \in {"logout"} \union UserOps \union AccountOps,
           users \in [Users -> User], l.of \in Users
    PROVE  /\ Written(l) \in User
           /\ l.op \notin Bumping => Written(l).epoch = users[l.of].epoch
           /\ l.op # "disable" => (users[l.of].active => Written(l).active)
           /\ l.op = "disable" /\ ~l.seen.active => Written(l).active = users[l.of].active
  <1>. DEFINE now == users[l.of]
              must == now.must \/ ~l.seen.must
              off == now.active /\ ~l.seen.active
              on == now.active \/ ~l.seen.active
              e == now.epoch + 1
  <1>1. /\ now \in User /\ e \in Nat /\ must \in BOOLEAN /\ off \in BOOLEAN /\ on \in BOOLEAN
        /\ now.active \in BOOLEAN
    BY DEF User
  <1>2. /\ ~l.seen.active => off = now.active
        /\ now.active => on
    BY <1>1
  <1>3. Written(l) =
          CASE l.op = "changePassword" -> [now EXCEPT !.epoch = e]
            [] l.op = "changeTemporary" -> [now EXCEPT !.epoch = e, !.must = FALSE, !.expired = FALSE]
            [] l.op = "resetUser" -> [now EXCEPT !.epoch = e, !.must = must, !.expired = FALSE]
            [] l.op = "disable" -> [now EXCEPT !.epoch = e, !.active = off]
            [] l.op = "enable" -> [now EXCEPT !.active = on]
            [] l.op \in {"logout", "logoutAll"} -> now
    BY DEF Written
  <1>. HIDE DEF now, must, off, on, e
  <1>4. CASE l.op = "changePassword"
    <2>1. Written(l) = [now EXCEPT !.epoch = e]
      BY <1>3, <1>4
    <2>. QED
      BY <1>1, <1>4, <2>1 DEF User, Bumping, now
  <1>5. CASE l.op = "changeTemporary"
    <2>1. Written(l) = [now EXCEPT !.epoch = e, !.must = FALSE, !.expired = FALSE]
      BY <1>3, <1>5
    <2>. QED
      BY <1>1, <1>5, <2>1 DEF User, Bumping, now
  <1>6. CASE l.op = "resetUser"
    <2>1. Written(l) = [now EXCEPT !.epoch = e, !.must = must, !.expired = FALSE]
      BY <1>3, <1>6
    <2>. QED
      BY <1>1, <1>6, <2>1 DEF User, Bumping, now
  <1>7. CASE l.op = "disable"
    <2>1. Written(l) = [now EXCEPT !.epoch = e, !.active = off]
      BY <1>3, <1>7
    <2>2. Written(l) \in User /\ Written(l).active = off
      BY <1>1, <2>1 DEF User
    <2>. QED
      BY <1>2, <1>7, <2>2 DEF Bumping, now
  <1>8. CASE l.op = "enable"
    <2>1. Written(l) = [now EXCEPT !.active = on]
      BY <1>3, <1>8
    <2>2. Written(l) \in User /\ Written(l).active = on /\ Written(l).epoch = now.epoch
      BY <1>1, <2>1 DEF User
    <2>. QED
      BY <1>2, <1>8, <2>2 DEF now
  <1>9. CASE l.op \in {"logout", "logoutAll"}
    <2>1. Written(l) = now
      BY <1>3, <1>9
    <2>. QED
      BY <1>1, <1>9, <2>1 DEF now
  <1>. QED
    BY <1>4, <1>5, <1>6, <1>7, <1>8, <1>9 DEF UserOps, AccountOps

LEMMA CommitKeeps ==
    ASSUME IInv, NEW p \in Procs, Commit(p)
    PROVE  IInv'
  <1>1. /\ h[p].pc = "commit" /\ h[p].op \in {"logout"} \union UserOps \union AccountOps
        /\ users' = [users EXCEPT ![h[p].of] = Written(h[p])]
        /\ sessions' = Revoked(h[p].list) /\ Answer(p, TRUE, NoToken)
        /\ UNCHANGED <<resets, jar, signedIn, sent, lost>>
    BY DEF Commit
  <1>2. h[p] \in Handler /\ h[p].of \in Users /\ users \in [Users -> User]
    BY <1>1, HandlerTyped DEF HandlerOK, IInv, TypeOK
  <1>. QED
    BY <1>1, <1>2, WrittenRow, EndsKeeps DEF IInv, TypeOK, PendingNamed

LEMMA DecideKeeps ==
    ASSUME IInv, NEW p \in Procs, Decide(p)
    PROVE  IInv'
  <1>. DEFINE u == h[p].of
              i == h[p].item
              status == IF h[p].op = "approve" THEN "approved" ELSE "rejected"
              o == users[u]
              e == o.epoch + 1
              w == [o EXCEPT !.must = TRUE, !.expired = FALSE, !.epoch = e]
  <1>1. /\ h[p].pc = "commit" /\ h[p].op \in DecisionOps
        /\ resets' = [resets EXCEPT ![i].status = status]
        /\ users' = IF h[p].op = "reject" THEN users ELSE [users EXCEPT ![u] = w]
        /\ sessions' = Revoked(h[p].list) /\ Answer(p, TRUE, NoToken)
        /\ UNCHANGED <<jar, signedIn, sent, lost>>
    BY DEF Decide
  <1>2. u \in Users /\ i \in Resets /\ users \in [Users -> User] /\ resets \in [Resets -> Reset]
    BY <1>1, HandlerTyped DEF HandlerOK, IInv, TypeOK
  <1>3. status \in {"approved", "rejected"}
    OBVIOUS
  <1>. HIDE DEF status
  <1>4. resets' \in [Resets -> Reset] /\ PendingNamed'
    <2>1. /\ resets' \in [Resets -> Reset] /\ resets'[i].status = status
          /\ \A j \in Resets \ {i} : resets'[j] = resets[j]
      BY <1>1, <1>2, <1>3 DEF Reset
    <2>. QED
      BY <1>3, <2>1 DEF IInv, PendingNamed
  <1>. HIDE DEF i
  <1>5. CASE h[p].op = "reject"
    <2>1. users[u] \in User /\ users' = [users EXCEPT ![u] = users[u]]
      BY <1>1, <1>2, <1>5
    <2>. QED
      BY <1>1, <1>4, <1>5, <2>1, EndsKeeps
  <1>6. CASE h[p].op = "approve"
    <2>1. o \in User /\ e \in Nat
      BY <1>2 DEF User
    <2>2. users' = [users EXCEPT ![u] = w]
      BY <1>1, <1>6
    <2>. HIDE DEF o, e
    <2>3. w \in User /\ w.active = o.active
      BY <2>1 DEF User
    <2>. HIDE DEF w
    <2>. QED
      BY <1>1, <1>4, <1>6, <2>2, <2>3, EndsKeeps DEF Bumping, o
  <1>. QED
    BY <1>1, <1>5, <1>6 DEF DecisionOps

-----------------------------------------------------------------------------
(* The invariant and what follows from it.                                 *)

\* A finite set has an enumeration, which misses no element and repeats none.
LEMMA Enumerates ==
    ASSUME NEW S, IsFiniteSet(S)
    PROVE  /\ Cardinality(S) \in Nat
           /\ \A i \in 1..Cardinality(S) : SetToSeq(S)[i] \in S
           /\ \A b \in S : \E i \in 1..Cardinality(S) : SetToSeq(S)[i] = b
           /\ \A i, j \in 1..Cardinality(S) : SetToSeq(S)[i] = SetToSeq(S)[j] => i = j
  <1>. DEFINE n == Cardinality(S)
  <1>1. n \in Nat /\ ExistsBijection(1..n, S)
    BY FS_CardinalityType
  <1>2. \E f \in [1..n -> S] : IsInjective(f)
    BY <1>1 DEF ExistsBijection, Bijection, Injection
  <1>3. SetToSeq(S) \in [1..n -> S] /\ IsInjective(SetToSeq(S))
    BY <1>2 DEF SetToSeq
  <1>4. SetToSeq(S) \in Injection(1..n, S)
    BY <1>3 DEF Injection
  <1>5. IsFiniteSet(1..n) /\ Cardinality(1..n) = n
    BY <1>1, FS_Interval
  <1>6. SetToSeq(S) \in Surjection(1..n, S)
    BY <1>4, <1>5, FS_Injection
  <1>7. \A i, j \in 1..n : SetToSeq(S)[i] = SetToSeq(S)[j] => i = j
    BY <1>3 DEF IsInjective
  <1>. QED
    BY <1>1, <1>3, <1>6, <1>7 DEF Surjection

LEMMA InitIInv == Init => IInv
  <1>. SUFFICES ASSUME Init PROVE IInv
    OBVIOUS
  <1>1. PICK S \in SUBSET Browsers :
          /\ sessions = [i \in 1..Cardinality(S) |->
                 [user |-> Owner[SetToSeq(S)[i]], live |-> TRUE, gen |-> 1,
                  epoch |-> 0, used |-> {}, late |-> FALSE]]
          /\ jar = [b \in Browsers |->
                 IF b \in S THEN [sid |-> CHOOSE i \in 1..Cardinality(S) : SetToSeq(S)[i] = b,
                                 gen |-> 1]
                 ELSE NoToken]
          /\ signedIn = [t \in Tabs |-> BrowserOf[t] \in S]
    BY DEF Init
  <1>2. /\ Cardinality(S) \in Nat
        /\ \A i \in 1..Cardinality(S) : SetToSeq(S)[i] \in S
        /\ \A b \in S : \E i \in 1..Cardinality(S) : SetToSeq(S)[i] = b
    BY AuthAssumption, FS_Subset, Enumerates
  <1>3. users \in [Users -> User] /\ \A u \in Users : users[u].active /\ users[u].epoch = 0
    BY DEF Init, User
  <1>. DEFINE n == Cardinality(S)
  <1>4. \A i \in 1..n : Owner[SetToSeq(S)[i]] \in Users
    BY <1>2, AuthAssumption
  <1>5. /\ DOMAIN sessions = 1..n
        /\ \A i \in 1..n : sessions[i] \in Row /\ sessions[i].gen = 1 /\ sessions[i].used = {}
                           /\ sessions[i].epoch = 0
    BY <1>1, <1>4 DEF Row
  <1>6. sessions \in Seq(Row)
    <2>1. sessions \in [1..n -> Row]
      BY <1>1, <1>5
    <2>. QED
      BY <1>2, <2>1
  <1>7. jar \in [Browsers -> Token]
    <2>1. \A b \in S : (CHOOSE i \in 1..n : SetToSeq(S)[i] = b) \in 1..n
      BY <1>2
    <2>2. \A b \in Browsers : jar[b] \in Token
      BY <1>1, <1>2, <2>1, NoTokenTyped DEF Token
    <2>. QED
      BY <1>1, <2>2
  <1>8. signedIn \in [Tabs -> BOOLEAN]
    BY <1>1
  <1>9. /\ resets \in [Resets -> Reset] /\ PendingNamed
        /\ h \in [Procs -> Handler] /\ \A p \in Procs : h[p] = Idle
        /\ sent \in 0..MaxRequests /\ lost \in 0..MaxLost
    BY AuthAssumption, IdleTyped DEF Init, Reset, PendingNamed
  <1>10. TypeOK
    BY <1>3, <1>6, <1>7, <1>8, <1>9 DEF TypeOK
  <1>11. HandlersOK /\ EndingListed /\ OneDisabling
    BY <1>9, IdleTyped DEF HandlersOK, EndingListed, Listed, OneDisabling, Disabling
  <1>12. Consumed
    <2>1. 1..(1 - 1) = {}
      OBVIOUS
    <2>2. ASSUME NEW s \in DOMAIN sessions
          PROVE  sessions[s].gen >= 1 /\ sessions[s].used = 1..(sessions[s].gen - 1)
      <3>1. sessions[s].gen = 1 /\ sessions[s].used = {}
        BY <1>5
      <3>. QED
        BY <2>1, <3>1
    <2>. QED
      BY <2>2 DEF Consumed
  <1>13. OldSessionsEnd
    <2>1. \A i \in DOMAIN sessions : sessions[i].user \in Users /\ sessions[i].epoch = 0
      BY <1>5 DEF Row
    <2>. QED
      BY <1>3, <2>1 DEF OldSessionsEnd
  <1>14. AdminRemains
    BY <1>3, AuthAssumption DEF AdminRemains, ActiveAdmins
  <1>. QED
    BY <1>9, <1>10, <1>11, <1>12, <1>13, <1>14 DEF IInv

LEMMA NextKeeps == IInv /\ [Next]_vars => IInv'
  <1>. SUFFICES ASSUME IInv, [Next]_vars PROVE IInv'
    OBVIOUS
  <1>1. ASSUME NEW t \in Tabs, Refused(t) PROVE IInv'
    BY <1>1, RefusedKeeps
  <1>2. ASSUME NEW t \in Tabs, Call(t) PROVE IInv'
    BY <1>2, CallKeeps
  <1>3. ASSUME NEW t \in Tabs, Load(t) PROVE IInv'
    BY <1>3, LoadKeeps
  <1>4. ASSUME NEW t \in Tabs, NEW kind \in {"refresh", "call"}, Receive(t, kind) PROVE IInv'
    BY <1>4, ReceiveKeeps
  <1>5. ASSUME NEW t \in Tabs, NEW kind \in {"refresh", "call"}, Lose(t, kind) PROVE IInv'
    BY <1>5, LoseKeeps
  <1>6. ASSUME NEW p \in Procs, Serve(p) PROVE IInv'
    <2>1. CASE LookUp(p) \/ Rotate(p)
      BY <2>1, LookUpKeeps, RotateKeeps
    <2>2. CASE Login(p) \/ ListExcess(p) \/ OpenSession(p)
      BY <2>2, LoginKeeps, ListExcessKeeps, OpenSessionKeeps
    <2>3. CASE Logout(p) \/ Begin(p) \/ ListAll(p) \/ Commit(p)
      BY <2>3, LogoutKeeps, BeginKeeps, ListAllKeeps, CommitKeeps
    <2>4. CASE AskReset(p) \/ Lock(p) \/ Decide(p)
      BY <2>4, AskResetKeeps, LockKeeps, DecideKeeps
    <2>. QED
      BY <1>6, <2>1, <2>2, <2>3, <2>4 DEF Serve
  <1>7. ASSUME NEW u \in Users, Lapse(u) PROVE IInv'
    BY <1>7, LapseKeeps
  <1>8. CASE UNCHANGED vars
    BY <1>8 DEF vars, IInv, TypeOK, HandlersOK, PendingNamed, Consumed, OldSessionsEnd, EndingListed,
                Listed, LiveOf, OneDisabling, Disabling, AnotherRemains, ActiveAdmins, AdminRemains
  <1>. QED
    BY <1>1, <1>2, <1>3, <1>4, <1>5, <1>6, <1>7, <1>8 DEF Next

\* In every state of the sign-in sessions the types hold, handlers about to end
\* sessions have listed them and another administrator remains beside one who
\* is being disabled.
THEOREM Invariance == Spec => []IInv
  BY InitIInv, NextKeeps, PTL DEF Spec

\* Of requests that present one refresh token, one exchanges it
\* (rotate_refresh_token).
THEOREM TokensAreConsumed == Spec => []RefreshedOnce
  <1>1. IInv => RefreshedOnce
    BY DEF IInv, Consumed, RefreshedOnce
  <1>. QED
    BY <1>1, Invariance, PTL

\* A new password, a reset or a disabled account leaves no older session, except
\* that of a login under way (revoke_all_sessions).
THEOREM OldSessionsAreOver == Spec => []OldSessionsEnd
  <1>1. IInv => OldSessionsEnd
    BY DEF IInv
  <1>. QED
    BY <1>1, Invariance, PTL

\* Unless disablings overlap, the last administrator is not disabled
\* (disable_user).
THEOREM AnAdminRemains == Spec => []AdminRemains
  <1>1. IInv => AdminRemains
    BY DEF IInv
  <1>. QED
    BY <1>1, Invariance, PTL

-----------------------------------------------------------------------------
(* Revocation.                                                             *)

StayRevoked == \A s \in DOMAIN sessions : ~sessions[s].live =>
                   ~sessions'[s].live /\ sessions'[s].gen = sessions[s].gen

LEMMA SessionsKeptStay == UNCHANGED sessions => StayRevoked
  BY DEF StayRevoked

LEMMA RotateStays ==
    ASSUME IInv, NEW p \in Procs, Rotate(p)
    PROVE  StayRevoked
  <1>1. h[p].token \in Token
    BY HandlerTyped
  <1>2. CASE Rotatable(h[p].token)
    <2>. DEFINE k == h[p].token
    <2>1. sessions' = [sessions EXCEPT ![k.sid].gen = @ + 1, ![k.sid].used = @ \union {k.gen}]
      BY <1>2 DEF Rotate
    <2>. HIDE DEF k
    <2>2. /\ sessions[k.sid].live
          /\ \A s \in DOMAIN sessions \ {k.sid} : sessions'[s] = sessions[s]
      BY <1>1, <1>2, <2>1, RotatedRows DEF IInv, k
    <2>. QED
      BY <2>2 DEF StayRevoked
  <1>3. CASE ~Rotatable(h[p].token)
    BY <1>3, SessionsKeptStay DEF Rotate
  <1>. QED
    BY <1>2, <1>3

LEMMA OpenSessionStays ==
    ASSUME IInv, NEW p \in Procs, OpenSession(p)
    PROVE  StayRevoked
  <1>. DEFINE R == Revoked(h[p].list)
  <1>1. PICK new : sessions' = Append(R, new)
    BY DEF OpenSession
  <1>2. /\ R \in Seq(Row) /\ Len(R) = Len(sessions)
        /\ \A s \in DOMAIN sessions :
              SameButLive(R[s], sessions[s]) /\ (R[s].live => sessions[s].live)
    BY RevokedRows DEF IInv
  <1>3. DOMAIN sessions = 1..Len(sessions) /\ Len(sessions) \in Nat
    BY RowsTyped DEF IInv
  <1>. HIDE DEF R
  <1>4. \A s \in 1..Len(sessions) : Append(R, new)[s] = R[s]
    BY <1>2, <1>3
  <1>. QED
    BY <1>1, <1>2, <1>3, <1>4 DEF StayRevoked, SameButLive

LEMMA RevokingStays ==
    ASSUME IInv, NEW p \in Procs, Commit(p) \/ Decide(p)
    PROVE  StayRevoked
  <1>1. sessions' = Revoked(h[p].list)
    BY DEF Commit, Decide
  <1>2. \A s \in DOMAIN sessions :
           SameButLive(sessions'[s], sessions[s]) /\ (sessions'[s].live => sessions[s].live)
    BY <1>1, RevokedRows DEF IInv
  <1>. QED
    BY <1>2 DEF StayRevoked, SameButLive

LEMMA NextStays == IInv /\ [Next]_vars => StayRevoked
  <1>. SUFFICES ASSUME IInv, [Next]_vars PROVE StayRevoked
    OBVIOUS
  <1>1. CASE \E t \in Tabs : \/ Refused(t) \/ Call(t) \/ Load(t)
                             \/ \E kind \in {"refresh", "call"} : Receive(t, kind) \/ Lose(t, kind)
    BY <1>1, SessionsKeptStay DEF Refused, Call, Send, Load, Receive, Lose
  <1>2. ASSUME NEW p \in Procs, Serve(p) PROVE StayRevoked
    <2>1. CASE LookUp(p) \/ Login(p) \/ ListExcess(p) \/ Logout(p) \/ Begin(p) \/ ListAll(p)
               \/ AskReset(p) \/ Lock(p)
      <3>1. UNCHANGED sessions
        BY <2>1 DEF LookUp, Login, ListExcess, Logout, Begin, ListAll, AskReset, Lock
      <3>. QED
        BY <3>1, SessionsKeptStay
    <2>2. CASE Rotate(p) \/ OpenSession(p) \/ Commit(p) \/ Decide(p)
      BY <2>2, RotateStays, OpenSessionStays, RevokingStays
    <2>. QED
      BY <1>2, <2>1, <2>2 DEF Serve
  <1>3. CASE \E u \in Users : Lapse(u)
    BY <1>3, SessionsKeptStay DEF Lapse
  <1>4. CASE UNCHANGED vars
    BY <1>4, SessionsKeptStay DEF vars
  <1>. QED
    BY <1>1, <1>2, <1>3, <1>4 DEF Next

\* No step brings a revoked session back or exchanges its token, although
\* the refresh may have read it before it was revoked (revoke_session).
THEOREM RevocationIsFinal == Spec => RevokedIsFinal
  <1>1. IInv /\ [Next]_vars =>
          [\A s \in DOMAIN sessions : ~sessions[s].live =>
              ~sessions'[s].live /\ sessions'[s].gen = sessions[s].gen]_vars
    BY NextStays DEF StayRevoked
  <1>. QED
    BY <1>1, Invariance, PTL DEF Spec, RevokedIsFinal

-----------------------------------------------------------------------------
(* Who holds the tokens of a session.                                      *)

Names(k, s) == k # NoToken /\ k.sid = s

\* Browser b has a token of session s: in its cookies, in a request or in a
\* response on its way.
Holds(b, s) ==
    \/ Names(jar[b], s)
    \/ \E p \in Procs : BrowserOf[p[1]] = b /\ (Names(h[p].token, s) \/ Names(h[p].grant, s))

\* No two browsers share a session.
Apart == \A b, c \in Browsers, s \in Nat :
            Holds(b, s) => s \in DOMAIN sessions /\ (Holds(c, s) => b = c)

\* Refreshes and the other requests of a tab do not mix, a login is for the
\* browser's user, and only a response has a token to give.
Kinds == \A p \in Procs :
            /\ h[p].pc # "idle" =>
                  /\ h[p].op = "refresh" => p[2] = "refresh"
                  /\ h[p].op = "login" => p[2] = "call" /\ h[p].of = Owner[BrowserOf[p[1]]]
            /\ h[p].pc = "rotate" => h[p].op = "refresh"
            /\ h[p].pc # "reply" => h[p].grant = NoToken

\* What the one tab of a browser has in flight carries the session's current
\* token when its cookies do not.
InStep(b, t) ==
    LET R == h[<<t, "refresh">>]
        L == h[<<t, "call">>]
    IN  /\ jar[b] # NoToken =>
              jar[b].gen = sessions[jar[b].sid].gen \/ Names(R.grant, jar[b].sid)
        /\ R.grant # NoToken => R.ok /\ R.grant.gen = sessions[R.grant.sid].gen
        /\ L.grant # NoToken => /\ L.grant.gen = sessions[L.grant.sid].gen
                                /\ L.grant.sid \notin {jar[b].sid, R.token.sid, R.grant.sid}
SingleInStep ==
    lost = 0 => \A b \in Browsers, t \in Tabs : SingleTab(b) /\ BrowserOf[t] = b => InStep(b, t)

-----------------------------------------------------------------------------
(* The kinds of steps.                                                     *)

\* No row is added or exchanged, none comes back.
OnlyRevokes ==
    /\ DOMAIN sessions' = DOMAIN sessions
    /\ \A s \in DOMAIN sessions :
          /\ sessions'[s].user = sessions[s].user /\ sessions'[s].gen = sessions[s].gen
          /\ sessions'[s].live => sessions[s].live

OnlyOf(p) == \A q \in Procs \ {p} : h'[q] = h[q]

\* p goes on, or answers without a token.
Plain(p) ==
    /\ OnlyOf(p)
    /\ h'[p].token = h[p].token /\ h'[p].op = h[p].op /\ h'[p].grant \in {NoToken, h[p].grant}
    /\ h[p].op = "login" => h'[p].of = h[p].of
    /\ h'[p].pc = "rotate" => h[p].op = "refresh"
    /\ h[p].pc \notin {"idle", "reply"}
    /\ OnlyRevokes
    /\ \/ h'[p].pc # "commit" \/ h'[p].op # "login"
       \/ UNCHANGED sessions /\ h[p].of \in Users /\ h'[p].list = Excess(LiveOf(h[p].of))
    /\ UNCHANGED <<jar, lost>>

LEMMA Becomes ==
    ASSUME IInv, NEW p \in Procs, NEW l, Become(p, l)
    PROVE  h'[p] = l /\ OnlyOf(p)
  BY DEF IInv, TypeOK, Become, OnlyOf

LEMMA KeptOnlyRevokes == UNCHANGED sessions => OnlyRevokes
  BY DEF OnlyRevokes

LEMMA RevokedOnlyRevokes ==
    ASSUME IInv, NEW S, sessions' = Revoked(S)
    PROVE  OnlyRevokes
  BY RevokedRows DEF IInv, OnlyRevokes, SameButLive

\* A handler that fails, answers or waits for its commit.
LEMMA AnswerIsPlain ==
    ASSUME IInv, NEW p \in Procs, NEW ok \in BOOLEAN, Answer(p, ok, NoToken),
           h[p].pc \notin {"idle", "reply"}, OnlyRevokes, UNCHANGED <<jar, lost>>
    PROVE  Plain(p)
  <1>. DEFINE l == [h[p] EXCEPT !.pc = "reply", !.ok = ok, !.grant = NoToken]
  <1>1. h'[p] = l /\ OnlyOf(p)
    BY Becomes DEF Answer
  <1>2. /\ l.token = h[p].token /\ l.op = h[p].op /\ l.grant = NoToken /\ l.pc = "reply"
        /\ l.of = h[p].of
    BY HandlerTyped DEF Handler
  <1>. HIDE DEF l
  <1>. QED
    BY <1>1, <1>2 DEF Plain

LEMMA FailIsPlain ==
    ASSUME IInv, NEW p \in Procs, Fail(p), h[p].pc \notin {"idle", "reply"},
           UNCHANGED sessions, UNCHANGED <<jar, lost>>
    PROVE  Plain(p)
  BY AnswerIsPlain, KeptOnlyRevokes DEF Fail

LEMMA CopiedIsPlain ==
    ASSUME IInv, NEW p \in Procs, h[p].pc = "begin", NEW r,
           Become(p, [h[p] EXCEPT !.pc = "list", !.seen = r]),
           UNCHANGED sessions, UNCHANGED <<jar, lost>>
    PROVE  Plain(p)
  <1>. DEFINE l == [h[p] EXCEPT !.pc = "list", !.seen = r]
  <1>1. h'[p] = l /\ OnlyOf(p)
    BY Becomes
  <1>2. /\ l.token = h[p].token /\ l.op = h[p].op /\ l.grant = h[p].grant /\ l.pc = "list"
        /\ l.of = h[p].of
    BY HandlerTyped DEF Handler
  <1>. HIDE DEF l
  <1>. QED
    BY <1>1, <1>2, KeptOnlyRevokes DEF Plain

LEMMA ListsIsPlain ==
    ASSUME IInv, NEW p \in Procs, h[p].pc \in {"begin", "list"}, NEW list,
           \/ Become(p, [h[p] EXCEPT !.pc = "commit", !.list = list])
           \/ \E u : Become(p, [h[p] EXCEPT !.pc = "commit", !.of = u, !.list = list])
                     /\ h[p].op # "login",
           h[p].op = "login" => h[p].of \in Users /\ list = Excess(LiveOf(h[p].of)),
           UNCHANGED sessions, UNCHANGED <<jar, lost>>
    PROVE  Plain(p)
  <1>0. h[p] \in Handler
    BY HandlerTyped
  <1>1. CASE Become(p, [h[p] EXCEPT !.pc = "commit", !.list = list])
    <2>. DEFINE l == [h[p] EXCEPT !.pc = "commit", !.list = list]
    <2>1. h'[p] = l /\ OnlyOf(p)
      BY <1>1, Becomes
    <2>2. /\ l.token = h[p].token /\ l.op = h[p].op /\ l.grant = h[p].grant /\ l.pc = "commit"
          /\ l.of = h[p].of /\ l.list = list
      BY <1>0 DEF Handler
    <2>. HIDE DEF l
    <2>. QED
      BY <2>1, <2>2, KeptOnlyRevokes DEF Plain
  <1>2. ASSUME NEW u, Become(p, [h[p] EXCEPT !.pc = "commit", !.of = u, !.list = list]),
               h[p].op # "login"
        PROVE  Plain(p)
    <2>. DEFINE l == [h[p] EXCEPT !.pc = "commit", !.of = u, !.list = list]
    <2>1. h'[p] = l /\ OnlyOf(p)
      BY <1>2, Becomes
    <2>2. /\ l.token = h[p].token /\ l.op = h[p].op /\ l.grant = h[p].grant /\ l.pc = "commit"
      BY <1>0 DEF Handler
    <2>. HIDE DEF l
    <2>. QED
      BY <1>2, <2>1, <2>2, KeptOnlyRevokes DEF Plain
  <1>. QED
    BY <1>1, <1>2

LEMMA ServeIsPlain ==
    ASSUME IInv, NEW p \in Procs, Serve(p), ~OpenSession(p),
           ~(Rotate(p) /\ Rotatable(h[p].token))
    PROVE  Plain(p)
  <1>0. h[p] \in Handler /\ HandlerOK(h[p])
    BY HandlerTyped
  <1>1. CASE LookUp(p)
    <2>1. h[p].pc = "begin" /\ h[p].op = "refresh" /\ UNCHANGED sessions /\ UNCHANGED <<jar, lost>>
      BY <1>1 DEF LookUp
    <2>2. CASE Become(p, [h[p] EXCEPT !.pc = "rotate"])
      <3>. DEFINE l == [h[p] EXCEPT !.pc = "rotate"]
      <3>1. h'[p] = l /\ OnlyOf(p)
        BY <2>2, Becomes
      <3>2. /\ l.token = h[p].token /\ l.op = h[p].op /\ l.grant = h[p].grant /\ l.pc = "rotate"
            /\ l.of = h[p].of
        BY <1>0 DEF Handler
      <3>. HIDE DEF l
      <3>. QED
        BY <2>1, <3>1, <3>2, KeptOnlyRevokes DEF Plain
    <2>3. CASE Fail(p)
      BY <2>1, <2>3, FailIsPlain
    <2>. QED
      BY <1>1, <2>2, <2>3 DEF LookUp
  <1>2. CASE Rotate(p)
    BY <1>2, FailIsPlain DEF Rotate
  <1>3. CASE Login(p)
    <2>1. h[p].pc = "begin" /\ UNCHANGED sessions /\ UNCHANGED <<jar, lost>>
      BY <1>3 DEF Login
    <2>2. Fail(p) \/ Become(p, [h[p] EXCEPT !.pc = "list", !.seen = users[h[p].of]])
      BY <1>3 DEF Login
    <2>. QED
      BY <2>1, <2>2, CopiedIsPlain, FailIsPlain
  <1>4. CASE ListExcess(p)
    <2>1. h[p].of \in Users
      BY <1>0, <1>4, OpNames DEF ListExcess, HandlerOK
    <2>. QED
      BY <1>4, <2>1, ListsIsPlain DEF ListExcess
  <1>5. CASE Logout(p)
    <2>1. h[p].pc = "begin" /\ h[p].op = "logout" /\ UNCHANGED sessions /\ UNCHANGED <<jar, lost>>
      BY <1>5 DEF Logout
    <2>2. CASE Become(p, [h[p] EXCEPT !.pc = "commit", !.list = {h[p].token.sid}])
      BY <2>1, <2>2, ListsIsPlain
    <2>3. CASE Become(p, [h[p] EXCEPT !.pc = "reply", !.ok = TRUE])
      <3>. DEFINE l == [h[p] EXCEPT !.pc = "reply", !.ok = TRUE]
      <3>1. h'[p] = l /\ OnlyOf(p)
        BY <2>3, Becomes
      <3>2. /\ l.token = h[p].token /\ l.op = h[p].op /\ l.grant = h[p].grant /\ l.pc = "reply"
        BY <1>0 DEF Handler
      <3>. HIDE DEF l
      <3>. QED
        BY <2>1, <3>1, <3>2, KeptOnlyRevokes DEF Plain
    <2>4. CASE Fail(p)
      BY <2>1, <2>4, FailIsPlain
    <2>. QED
      BY <1>5, <2>2, <2>3, <2>4 DEF Logout
  <1>6. CASE Begin(p)
    <2>1. h[p].pc = "begin" /\ UNCHANGED sessions /\ UNCHANGED <<jar, lost>>
      BY <1>6 DEF Begin
    <2>2. Fail(p) \/ Become(p, [h[p] EXCEPT !.pc = "list", !.seen = users[h[p].of]])
      BY <1>6 DEF Begin
    <2>. QED
      BY <2>1, <2>2, CopiedIsPlain, FailIsPlain
  <1>7. CASE ListAll(p)
    <2>. DEFINE list == IF h[p].op = "enable" THEN {} ELSE ToRevoke(h[p].of)
    <2>1. h[p].pc = "list" /\ h[p].op # "login" /\ UNCHANGED sessions /\ UNCHANGED <<jar, lost>>
      BY <1>7 DEF ListAll, UserOps, AccountOps
    <2>2. Fail(p) \/ Become(p, [h[p] EXCEPT !.pc = "commit", !.list = list])
      BY <1>7 DEF ListAll
    <2>. HIDE DEF list
    <2>. QED
      BY <2>1, <2>2, ListsIsPlain, FailIsPlain
  <1>8. CASE Commit(p) \/ Decide(p)
    <2>1. sessions' = Revoked(h[p].list) /\ h[p].pc = "commit" /\ Answer(p, TRUE, NoToken)
          /\ UNCHANGED <<jar, lost>>
      BY <1>8 DEF Commit, Decide
    <2>. QED
      BY <2>1, RevokedOnlyRevokes, AnswerIsPlain
  <1>9. CASE AskReset(p)
    BY <1>9, KeptOnlyRevokes, AnswerIsPlain DEF AskReset
  <1>10. CASE Lock(p)
    <2>. DEFINE u == resets[h[p].item].user
                list == IF h[p].op = "approve" THEN ToRevoke(u) ELSE {}
    <2>1. h[p].pc = "begin" /\ h[p].op # "login" /\ UNCHANGED sessions /\ UNCHANGED <<jar, lost>>
      BY <1>10 DEF Lock, DecisionOps
    <2>2. Fail(p) \/ Become(p, [h[p] EXCEPT !.pc = "commit", !.of = u, !.list = list])
      BY <1>10 DEF Lock
    <2>. HIDE DEF list, u
    <2>. QED
      BY <2>1, <2>2, ListsIsPlain, FailIsPlain
  <1>. QED
    BY <1>1, <1>2, <1>3, <1>4, <1>5, <1>6, <1>7, <1>8, <1>9, <1>10 DEF Serve

\* p exchanges the token of its request.
Exchanges(p) ==
    LET k == h[p].token
    IN  /\ OnlyOf(p) /\ h[p].pc = "rotate" /\ k # NoToken /\ k.sid \in DOMAIN sessions
        /\ h'[p].token = k /\ h'[p].op = h[p].op /\ h'[p].of = h[p].of /\ h'[p].pc = "reply"
        /\ h'[p].ok /\ h'[p].grant = [sid |-> k.sid, gen |-> sessions'[k.sid].gen]
        /\ DOMAIN sessions' = DOMAIN sessions
        /\ \A s \in DOMAIN sessions : /\ sessions'[s].user = sessions[s].user
                                      /\ sessions'[s].live = sessions[s].live
                                      /\ s # k.sid => sessions'[s].gen = sessions[s].gen
        /\ UNCHANGED <<jar, lost>>

LEMMA RotateExchanges ==
    ASSUME IInv, NEW p \in Procs, Rotate(p), Rotatable(h[p].token)
    PROVE  Exchanges(p)
  <1>. DEFINE k == h[p].token
              g == [sid |-> k.sid, gen |-> sessions[k.sid].gen + 1]
              l == [h[p] EXCEPT !.pc = "reply", !.ok = TRUE, !.grant = g]
  <1>1. /\ h[p].pc = "rotate" /\ UNCHANGED <<jar, lost>> /\ k \in Token /\ Become(p, l)
        /\ sessions' = [sessions EXCEPT ![k.sid].gen = @ + 1, ![k.sid].used = @ \union {k.gen}]
    BY HandlerTyped DEF Rotate, Answer
  <1>2. h'[p] = l /\ OnlyOf(p)
    BY <1>1, Becomes
  <1>3. /\ l.token = h[p].token /\ l.op = h[p].op /\ l.of = h[p].of /\ l.pc = "reply" /\ l.ok
        /\ l.grant = g
    BY HandlerTyped DEF Handler
  <1>. HIDE DEF k, l
  <1>4. /\ DOMAIN sessions' = DOMAIN sessions
        /\ \A s \in DOMAIN sessions :
              sessions'[s].user = sessions[s].user /\ sessions'[s].live = sessions[s].live
        /\ \A s \in DOMAIN sessions \ {k.sid} : sessions'[s] = sessions[s]
        /\ k.sid \in DOMAIN sessions /\ sessions'[k.sid].gen = sessions[k.sid].gen + 1
    BY <1>1, RotatedRows DEF IInv, k
  <1>5. k.sid # 0
    BY <1>4, RowsTyped DEF IInv
  <1>6. k # NoToken
    BY <1>5 DEF NoToken
  <1>. QED
    BY <1>1, <1>2, <1>3, <1>4, <1>6 DEF Exchanges, k

\* p opens a session: a row of its own, the last.
Opens(p) ==
    LET n == Len(sessions) + 1
    IN  /\ OnlyOf(p) /\ h[p].pc = "commit" /\ h[p].op = "login" /\ h[p].of \in Users
        /\ h'[p].token = h[p].token /\ h'[p].op = h[p].op /\ h'[p].of = h[p].of
        /\ h'[p].pc = "reply" /\ h'[p].ok /\ h'[p].grant = [sid |-> n, gen |-> 1]
        /\ n \notin DOMAIN sessions /\ n \in Nat \ {0}
        /\ DOMAIN sessions' = DOMAIN sessions \union {n}
        /\ \A s \in DOMAIN sessions :
              /\ sessions'[s].user = sessions[s].user /\ sessions'[s].gen = sessions[s].gen
              /\ sessions'[s].live => sessions[s].live /\ s \notin h[p].list
        /\ sessions'[n].user = h[p].of /\ sessions'[n].gen = 1
        /\ UNCHANGED <<jar, lost>>

LEMMA OpenSessionOpens ==
    ASSUME IInv, NEW p \in Procs, OpenSession(p)
    PROVE  Opens(p)
  <1>. DEFINE R == Revoked(h[p].list)
              n == Len(sessions) + 1
              new == [user |-> h[p].of, live |-> TRUE, gen |-> 1, epoch |-> h[p].seen.epoch,
                      used |-> {}, late |-> h[p].seen.epoch # users[h[p].of].epoch
                                            \/ Ending(h[p].of) # {}]
              g == [sid |-> n, gen |-> 1]
              l == [h[p] EXCEPT !.pc = "reply", !.ok = TRUE, !.grant = g]
  <1>1. /\ h[p].pc = "commit" /\ h[p].op = "login" /\ sessions' = Append(R, new)
        /\ Become(p, l) /\ UNCHANGED <<jar, lost>>
    BY DEF OpenSession, Answer
  <1>2. h'[p] = l /\ OnlyOf(p) /\ h[p].of \in Users
    BY <1>1, Becomes, HandlerTyped DEF HandlerOK
  <1>3. /\ l.token = h[p].token /\ l.op = h[p].op /\ l.of = h[p].of /\ l.pc = "reply" /\ l.ok
        /\ l.grant = g
    BY HandlerTyped DEF Handler
  <1>4. new.user = h[p].of /\ new.gen = 1
    OBVIOUS
  <1>5. /\ R \in Seq(Row) /\ Len(R) = Len(sessions)
        /\ \A s \in DOMAIN sessions :
              SameButLive(R[s], sessions[s])
              /\ (R[s].live => sessions[s].live /\ s \notin h[p].list)
    BY RevokedRows DEF IInv
  <1>6. DOMAIN sessions = 1..Len(sessions) /\ Len(sessions) \in Nat
    BY RowsTyped DEF IInv
  <1>. HIDE DEF l, new, R
  <1>7. /\ DOMAIN Append(R, new) = 1..n /\ Append(R, new)[n] = new
        /\ \A s \in 1..Len(sessions) : Append(R, new)[s] = R[s]
    BY <1>5, <1>6
  <1>8. /\ DOMAIN sessions' = DOMAIN sessions \union {n} /\ n \notin DOMAIN sessions
        /\ n \in Nat \ {0}
    BY <1>1, <1>6, <1>7
  <1>. QED
    BY <1>1, <1>2, <1>3, <1>4, <1>5, <1>6, <1>7, <1>8 DEF Opens, SameButLive

\* A tab sends a request, with the browser's token.
Sends(p) ==
    /\ OnlyOf(p) /\ h[p].pc = "idle" /\ h'[p].pc = "begin"
    /\ h'[p].token = jar[BrowserOf[p[1]]] /\ h'[p].grant = NoToken
    /\ h'[p].op = "refresh" => p[2] = "refresh"
    /\ h'[p].op = "login" => p[2] = "call" /\ h'[p].of = Owner[BrowserOf[p[1]]]
    /\ UNCHANGED <<sessions, jar, lost>>

LEMMA SendSends ==
    ASSUME IInv, NEW t \in Tabs, NEW kind \in {"refresh", "call"}, NEW op, NEW of, NEW item,
           Send(t, kind, op, of, item), op = "refresh" => kind = "refresh",
           op = "login" => kind = "call" /\ of = Owner[BrowserOf[t]]
    PROVE  <<t, kind>> \in Procs /\ Sends(<<t, kind>>)
  <1>. DEFINE p == <<t, kind>>
              l == [Idle EXCEPT !.pc = "begin", !.op = op, !.of = of, !.item = item,
                                !.token = jar[BrowserOf[t]]]
  <1>1. /\ p \in Procs /\ h[p].pc = "idle" /\ Become(p, l) /\ UNCHANGED <<sessions, jar, lost>>
        /\ p[1] = t /\ p[2] = kind
    BY DEF Send, Procs
  <1>2. h'[p] = l /\ OnlyOf(p)
    BY <1>1, Becomes
  <1>3. l.pc = "begin" /\ l.token = jar[BrowserOf[t]] /\ l.grant = NoToken /\ l.op = op /\ l.of = of
    BY DEF Idle
  <1>. HIDE DEF p, l
  <1>4. Sends(p)
    BY <1>1, <1>2, <1>3 DEF Sends
  <1>. QED
    BY <1>1, <1>4 DEF p

LEMMA BrowserSends ==
    ASSUME IInv, NEW t \in Tabs, Refused(t) \/ Call(t)
    PROVE  \E p \in Procs : Sends(p)
  <1>1. CASE Refused(t)
    <2>1. Send(t, "refresh", "refresh", None, 0)
      BY <1>1 DEF Refused
    <2>. QED
      BY <2>1, SendSends
  <1>2. CASE Call(t)
    <2>1. CASE \E op \in PublicOps \union {"logout"} \union UserOps :
                  Send(t, "call", op, Owner[BrowserOf[t]], 0)
      <3>1. "refresh" \notin PublicOps \union {"logout"} \union UserOps
        BY DEF PublicOps, UserOps
      <3>. QED
        BY <2>1, <3>1, SendSends
    <2>2. CASE \E op \in AccountOps, u \in Users : Send(t, "call", op, u, 0)
      BY <2>2, SendSends DEF AccountOps
    <2>3. CASE \E op \in DecisionOps, i \in Resets : Send(t, "call", op, None, i)
      BY <2>3, SendSends DEF DecisionOps
    <2>. QED
      BY <1>2, <2>1, <2>2, <2>3 DEF Call
  <1>. QED
    BY <1>1, <1>2

\* The response of p arrives or is lost.
Returns(p) ==
    LET b == BrowserOf[p[1]]
    IN  /\ OnlyOf(p) /\ h[p].pc = "reply" /\ h'[p] = Idle
        /\ \/ \A c \in Browsers : jar'[c] = IF c = b THEN Cookies(b, h[p]) ELSE jar[c]
           \/ ~h[p].ok /\ jar' = jar
           \/ jar' = jar /\ lost' # 0
        /\ UNCHANGED sessions
        /\ lost' # 0 \/ lost' = lost

LEMMA ResponseReturns ==
    ASSUME IInv, NEW t \in Tabs, NEW kind \in {"refresh", "call"},
           Receive(t, kind) \/ Lose(t, kind)
    PROVE  \E p \in Procs : Returns(p)
  <1>. DEFINE p == <<t, kind>>
  <1>1. /\ p \in Procs /\ h[p].pc = "reply" /\ Become(p, Idle) /\ UNCHANGED sessions
        /\ p[1] = t
    BY DEF Receive, Lose, Procs
  <1>2. h'[p] = Idle /\ OnlyOf(p)
    BY <1>1, Becomes
  <1>3. CASE Receive(t, kind)
    <2>1. jar \in [Browsers -> Token]
      BY DEF IInv, TypeOK
    <2>2. /\ \/ jar' = [jar EXCEPT ![BrowserOf[t]] = Cookies(BrowserOf[t], h[p])]
             \/ ~h[p].ok /\ jar' = jar
          /\ lost' = lost
      BY <1>3 DEF Receive
    <2>. HIDE DEF p
    <2>. QED
      BY <1>1, <1>2, <2>1, <2>2 DEF Returns
  <1>4. CASE Lose(t, kind)
    <2>1. lost \in Nat /\ lost' = lost + 1 /\ jar' = jar
      BY <1>4, AuthAssumption DEF Lose, IInv, TypeOK
    <2>. HIDE DEF p
    <2>. QED
      BY <1>1, <1>2, <2>1 DEF Returns
  <1>. QED
    BY <1>3, <1>4

\* Every step is of one of these kinds, or touches neither sessions nor tokens.
LEMMA StepKinds ==
    ASSUME IInv, [Next]_vars
    PROVE  \/ \E p \in Procs : \/ Plain(p) \/ Exchanges(p) \/ Opens(p)
                               \/ Sends(p) \/ Returns(p)
           \/ UNCHANGED <<sessions, jar, h, lost>>
  <1>1. ASSUME NEW t \in Tabs, Refused(t) \/ Call(t) PROVE \E p \in Procs : Sends(p)
    BY <1>1, BrowserSends
  <1>2. ASSUME NEW t \in Tabs, NEW kind \in {"refresh", "call"}, Receive(t, kind) \/ Lose(t, kind)
        PROVE  \E p \in Procs : Returns(p)
    BY <1>2, ResponseReturns
  <1>3. ASSUME NEW p \in Procs, Serve(p) PROVE Plain(p) \/ Exchanges(p) \/ Opens(p)
    BY <1>3, ServeIsPlain, RotateExchanges, OpenSessionOpens
  <1>4. ASSUME \/ \E t \in Tabs : Load(t)
               \/ \E u \in Users : Lapse(u)
               \/ UNCHANGED vars
        PROVE  UNCHANGED <<sessions, jar, h, lost>>
    BY <1>4 DEF Load, Lapse, vars
  <1>. QED
    BY <1>1, <1>2, <1>3, <1>4 DEF Next

-----------------------------------------------------------------------------
(* Browsers stay apart.                                                    *)

LEMMA IdleFields ==
    Idle.pc = "idle" /\ Idle.op = None /\ Idle.token = NoToken /\ Idle.grant = NoToken
  BY DEF Idle

LEMMA KindsKept ==
    ASSUME IInv, Kinds, [Next]_vars
    PROVE  Kinds'
  <1>1. ASSUME NEW p \in Procs, Plain(p) \/ Exchanges(p) \/ Opens(p)
        PROVE  Kinds'
    <2>1. /\ OnlyOf(p) /\ h'[p].op = h[p].op /\ (h[p].op = "login" => h'[p].of = h[p].of)
          /\ h'[p].pc = "rotate" => h[p].op = "refresh"
          /\ h[p].pc \notin {"idle", "reply"}
          /\ h'[p].pc # "reply" => h'[p].grant \in {NoToken, h[p].grant}
      BY <1>1 DEF Plain, Exchanges, Opens
    <2>. QED
      BY <2>1 DEF Kinds, OnlyOf
  <1>2. ASSUME NEW p \in Procs, Sends(p)
        PROVE  Kinds'
    BY <1>2 DEF Sends, Kinds, OnlyOf
  <1>3. ASSUME NEW p \in Procs, Returns(p)
        PROVE  Kinds'
    BY <1>3, IdleFields DEF Returns, Kinds, OnlyOf
  <1>4. CASE UNCHANGED <<sessions, jar, h, lost>>
    BY <1>4 DEF Kinds
  <1>. QED
    BY <1>1, <1>2, <1>3, <1>4, StepKinds

LEMMA ApartKept ==
    ASSUME IInv, Apart, [Next]_vars
    PROVE  Apart'
  <1>0. \A p \in Procs : BrowserOf[p[1]] \in Browsers
    BY AuthAssumption DEF Procs
  <1>1. ASSUME NEW p \in Procs, Plain(p) \/ Exchanges(p) \/ Sends(p) \/ Returns(p)
        PROVE  Apart'
    <2>. DEFINE b == BrowserOf[p[1]]
    <2>1. OnlyOf(p) /\ DOMAIN sessions' = DOMAIN sessions
      BY <1>1 DEF Plain, OnlyRevokes, Exchanges, Sends, Returns
    <2>2. ASSUME NEW s, Names(h'[p].token, s) \/ Names(h'[p].grant, s)
          PROVE  Holds(b, s)
      BY <1>1, <2>2, IdleFields
         DEF Plain, Exchanges, Sends, Returns, Names, Holds
    <2>3. ASSUME NEW c \in Browsers, NEW s, Names(jar'[c], s)
          PROVE  Holds(c, s)
      <3>1. jar'[c] = jar[c] \/ (c = b /\ jar'[c] \in {NoToken, jar[c], h[p].grant})
        BY <1>0, <1>1 DEF Plain, Exchanges, Sends, Returns, Cookies
      <3>. QED
        BY <2>3, <3>1 DEF Names, Holds
    <2>4. ASSUME NEW c \in Browsers, NEW s, Holds(c, s)'
          PROVE  Holds(c, s)
      <3>1. CASE Names(jar'[c], s)
        BY <2>3, <3>1
      <3>2. ASSUME NEW q \in Procs, BrowserOf[q[1]] = c,
                   Names(h'[q].token, s) \/ Names(h'[q].grant, s)
            PROVE  Holds(c, s)
        <4>1. CASE q = p
          BY <2>2, <3>2, <4>1
        <4>2. CASE q # p
          BY <2>1, <3>2, <4>2 DEF OnlyOf, Holds
        <4>. QED
          BY <4>1, <4>2
      <3>. QED
        BY <2>4, <3>1, <3>2 DEF Holds, Names
    <2>. QED
      BY <2>1, <2>4 DEF Apart
  <1>2. ASSUME NEW p \in Procs, Opens(p)
        PROVE  Apart'
    <2>. DEFINE b == BrowserOf[p[1]]
                n == Len(sessions) + 1
    <2>1. /\ OnlyOf(p) /\ n \notin DOMAIN sessions /\ n \in Nat
          /\ DOMAIN sessions' = DOMAIN sessions \union {n} /\ jar' = jar
          /\ h'[p].token = h[p].token /\ h'[p].grant = [sid |-> n, gen |-> 1]
      BY <1>2 DEF Opens
    <2>. HIDE DEF n
    <2>2. ASSUME NEW c \in Browsers, NEW s, Holds(c, s)'
          PROVE  Holds(c, s) \/ (c = b /\ s = n)
      BY <2>1, <2>2 DEF Holds, Names, OnlyOf
    <2>3. \A c \in Browsers : ~Holds(c, n)
      BY <2>1 DEF Apart
    <2>. HIDE DEF b
    <2>. QED
      BY <2>1, <2>2, <2>3 DEF Apart
  <1>3. CASE UNCHANGED <<sessions, jar, h, lost>>
    BY <1>3 DEF Apart, Holds, Names
  <1>. QED
    BY <1>1, <1>2, <1>3, StepKinds

-----------------------------------------------------------------------------
(* A single tab stays in step.                                             *)

JInv == IInv /\ Kinds /\ Apart /\ SingleInStep

\* A process of a browser with one tab is that tab's.
LEMMA OfTheTab ==
    ASSUME IsFiniteSet(Tabs), NEW b \in Browsers, NEW t \in Tabs, SingleTab(b), BrowserOf[t] = b,
           NEW p \in Procs, BrowserOf[p[1]] = b
    PROVE  p \in {<<t, "refresh">>, <<t, "call">>}
  <1>. DEFINE T == {u \in Tabs : BrowserOf[u] = b}
  <1>1. IsFiniteSet(T) /\ Cardinality(T) = 1
    BY FS_Subset DEF SingleTab
  <1>2. PICK u : T = {u}
    BY <1>1, FS_Singleton
  <1>3. p[1] = t /\ p \in Tabs \X {"refresh", "call"}
    BY <1>2 DEF Procs
  <1>. QED
    BY <1>3

\* What a browser holds is the token of a session that exists.
LEMMA HeldExists ==
    ASSUME IInv, Apart, NEW b \in Browsers, NEW k \in Token, k # NoToken, Holds(b, k.sid)
    PROVE  k.sid \in DOMAIN sessions /\ k.sid # 0
  <1>1. k.sid \in DOMAIN sessions
    BY DEF Apart, Token
  <1>. QED
    BY <1>1, RowsTyped DEF IInv

\* The tokens of a tab's browser are of sessions that exist and that no handler
\* of another browser may exchange.
LEMMA TabTokens ==
    ASSUME JInv, NEW b \in Browsers, NEW t \in Tabs, BrowserOf[t] = b,
           NEW k \in {jar[b]} \union {h[<<t, kind>>].token : kind \in {"refresh", "call"}}
                     \union {h[<<t, kind>>].grant : kind \in {"refresh", "call"}},
           k # NoToken
    PROVE  /\ k.sid \in DOMAIN sessions /\ k.sid # 0
           /\ \A p \in Procs : BrowserOf[p[1]] # b => ~Names(h[p].token, k.sid)
  <1>1. \A kind \in {"refresh", "call"} : <<t, kind>> \in Procs /\ <<t, kind>>[1] = t
    BY DEF Procs
  <1>2. k \in Token
    BY <1>1 DEF JInv, IInv, TypeOK, Handler
  <1>3. Holds(b, k.sid)
    BY <1>1 DEF Holds, Names
  <1>4. ASSUME NEW p \in Procs, BrowserOf[p[1]] # b PROVE ~Names(h[p].token, k.sid)
    <2>1. BrowserOf[p[1]] \in Browsers
      BY AuthAssumption DEF Procs
    <2>2. SUFFICES ASSUME Holds(BrowserOf[p[1]], k.sid) PROVE FALSE
      BY DEF Holds
    <2>. QED
      BY <1>2, <1>3, <1>4, <2>1, <2>2 DEF JInv, Apart, Token
  <1>. QED
    BY <1>2, <1>3, <1>4, HeldExists DEF JInv

LEMMA InStepKept ==
    ASSUME JInv, [Next]_vars, lost' = 0, IsFiniteSet(Tabs),
           NEW b \in Browsers, NEW t \in Tabs, SingleTab(b), BrowserOf[t] = b
    PROVE  InStep(b, t)'
  <1>. DEFINE r == <<t, "refresh">>
              c == <<t, "call">>
  <1>1. r \in Procs /\ c \in Procs /\ r # c /\ r[2] = "refresh" /\ c[2] = "call"
        /\ r[1] = t /\ c[1] = t
    BY DEF Procs
  <1>2. \A p \in Procs : BrowserOf[p[1]] = b => p \in {r, c}
    BY OfTheTab
  <1>3. ASSUME NEW k \in {jar[b], h[r].token, h[r].grant, h[c].grant}, k # NoToken
        PROVE  /\ k.sid \in DOMAIN sessions /\ k.sid # 0
               /\ \A p \in Procs : BrowserOf[p[1]] # b => ~Names(h[p].token, k.sid)
    BY <1>3, TabTokens
  <1>4. lost = 0 => InStep(b, t)
    BY DEF JInv, SingleInStep
  <1>. DEFINE In(j, R, C, S) ==
                /\ j # NoToken => j.gen = S[j.sid].gen \/ Names(R.grant, j.sid)
                /\ R.grant # NoToken => R.ok /\ R.grant.gen = S[R.grant.sid].gen
                /\ C.grant # NoToken => /\ C.grant.gen = S[C.grant.sid].gen
                                        /\ C.grant.sid \notin {j.sid, R.token.sid, R.grant.sid}
  <1>5. /\ InStep(b, t) = In(jar[b], h[r], h[c], sessions)
        /\ InStep(b, t)' = In(jar'[b], h'[r], h'[c], sessions')
    BY DEF InStep
  <1>6. NoToken.sid = 0
    BY DEF NoToken
  <1>. HIDE DEF r, c
  <1>7. ASSUME NEW p \in Procs, Plain(p) PROVE InStep(b, t)'
    <2>1. /\ \A s \in DOMAIN sessions : sessions'[s].gen = sessions[s].gen
          /\ jar' = jar /\ lost' = lost /\ \A q \in Procs \ {p} : h'[q] = h[q]
          /\ h'[p].token = h[p].token /\ h'[p].grant = NoToken /\ h[p].grant = NoToken
      BY <1>7 DEF Plain, OnlyRevokes, OnlyOf, JInv, Kinds
    <2>2. In(jar[b], h[r], h[c], sessions)
      BY <1>4, <1>5, <2>1
    <2>3. CASE p \notin {r, c}
      <3>1. h'[r] = h[r] /\ h'[c] = h[c] /\ jar'[b] = jar[b]
        BY <1>1, <2>1, <2>3
      <3>2. ASSUME NEW x \in {jar[b], h[r].grant, h[c].grant}, x # NoToken
            PROVE  sessions'[x.sid].gen = sessions[x.sid].gen
        <4>1. x.sid \in DOMAIN sessions
          BY <1>3, <3>2
        <4>. QED
          BY <2>1, <4>1
      <3>3. In(jar[b], h[r], h[c], sessions')
        BY <2>2, <3>2
      <3>. QED
        BY <1>5, <3>1, <3>3
    <2>4. CASE p = r
      <3>1. /\ h'[c] = h[c] /\ jar'[b] = jar[b]
            /\ h'[r].token = h[r].token /\ h'[r].grant = NoToken
        BY <1>1, <2>1, <2>4
      <3>2. jar[b] # NoToken => jar[b].gen = sessions'[jar[b].sid].gen
        <4>1. ASSUME jar[b] # NoToken PROVE jar[b].sid \in DOMAIN sessions
          BY <1>3, <4>1
        <4>. QED
          BY <2>1, <2>2, <2>4, <4>1 DEF Names
      <3>3. h[c].grant # NoToken =>
              /\ h[c].grant.gen = sessions'[h[c].grant.sid].gen
              /\ h[c].grant.sid \notin {jar[b].sid, h[r].token.sid, 0}
        <4>1. ASSUME h[c].grant # NoToken
              PROVE  h[c].grant.sid \in DOMAIN sessions /\ h[c].grant.sid # 0
          BY <1>3, <4>1
        <4>. QED
          BY <2>1, <2>2, <4>1
      <3>. QED
        BY <1>5, <1>6, <3>1, <3>2, <3>3
    <2>5. CASE p = c
      <3>1. /\ h'[r] = h[r] /\ jar'[b] = jar[b] /\ h'[c].grant = NoToken
        BY <1>1, <2>1, <2>5
      <3>2. ASSUME NEW x \in {jar[b], h[r].grant}, x # NoToken
            PROVE  sessions'[x.sid].gen = sessions[x.sid].gen
        <4>1. x.sid \in DOMAIN sessions
          BY <1>3, <3>2
        <4>. QED
          BY <2>1, <4>1
      <3>. QED
        BY <1>5, <2>2, <3>1, <3>2
    <2>. QED
      BY <2>3, <2>4, <2>5
  <1>8. ASSUME NEW p \in Procs, Exchanges(p) PROVE InStep(b, t)'
    <2>. DEFINE k == h[p].token
    <2>1. /\ \A s \in DOMAIN sessions \ {k.sid} : sessions'[s].gen = sessions[s].gen
          /\ jar' = jar /\ lost' = lost /\ \A q \in Procs \ {p} : h'[q] = h[q]
          /\ k # NoToken /\ k.sid \in DOMAIN sessions
          /\ h'[p].token = k /\ h'[p].ok /\ h'[p].grant.sid = k.sid
          /\ h'[p].grant.gen = sessions'[k.sid].gen
          /\ h[p].grant = NoToken /\ p[2] = "refresh"
      BY <1>8 DEF Exchanges, OnlyOf, JInv, Kinds
    <2>2. In(jar[b], h[r], h[c], sessions)
      BY <1>4, <1>5, <2>1
    <2>3. k.sid # 0
      BY <2>1, RowsTyped DEF JInv, IInv
    <2>. HIDE DEF k
    <2>4. CASE BrowserOf[p[1]] # b
      <3>1. ASSUME NEW x \in {jar[b], h[r].grant, h[c].grant}, x # NoToken
            PROVE  sessions'[x.sid].gen = sessions[x.sid].gen
        <4>1. x.sid \in DOMAIN sessions /\ ~Names(k, x.sid)
          BY <1>3, <2>4, <3>1 DEF k
        <4>. QED
          BY <2>1, <4>1 DEF Names
      <3>2. p \notin {r, c}
        BY <1>1, <2>4
      <3>3. h'[r] = h[r] /\ h'[c] = h[c] /\ jar'[b] = jar[b]
        BY <1>1, <2>1, <3>2
      <3>4. In(jar[b], h[r], h[c], sessions')
        BY <2>2, <3>1
      <3>. QED
        BY <1>5, <3>3, <3>4
    <2>5. CASE p = r
      <3>1. h'[r].grant # NoToken
        BY <1>6, <2>1, <2>3, <2>5
      <3>2. ASSUME jar[b] # NoToken
            PROVE  jar[b].gen = sessions'[jar[b].sid].gen \/ Names(h'[r].grant, jar[b].sid)
        <4>1. jar[b].sid \in DOMAIN sessions /\ jar[b].gen = sessions[jar[b].sid].gen
          BY <1>3, <2>1, <2>2, <2>5, <3>2 DEF Names
        <4>. QED
          BY <2>1, <2>5, <3>1, <4>1 DEF Names
      <3>3. ASSUME h[c].grant # NoToken
            PROVE  /\ h[c].grant.gen = sessions'[h[c].grant.sid].gen
                   /\ h[c].grant.sid \notin {jar[b].sid, k.sid}
        <4>1. /\ h[c].grant.sid \in DOMAIN sessions
              /\ h[c].grant.gen = sessions[h[c].grant.sid].gen
              /\ h[c].grant.sid \notin {jar[b].sid, k.sid}
          BY <1>3, <2>2, <2>5, <3>3 DEF k
        <4>. QED
          BY <2>1, <4>1
      <3>4. h'[c] = h[c]
        BY <1>1, <2>1, <2>5
      <3>. QED
        BY <1>5, <2>1, <2>5, <3>1, <3>2, <3>3, <3>4
    <2>. QED
      BY <1>1, <1>2, <2>1, <2>4, <2>5
  <1>9. ASSUME NEW p \in Procs, Opens(p) PROVE InStep(b, t)'
    <2>. DEFINE n == Len(sessions) + 1
    <2>1. /\ \A s \in DOMAIN sessions : sessions'[s].gen = sessions[s].gen
          /\ jar' = jar /\ lost' = lost /\ \A q \in Procs \ {p} : h'[q] = h[q]
          /\ h'[p].token = h[p].token /\ h'[p].grant.sid = n /\ h'[p].grant.gen = 1
          /\ n \notin DOMAIN sessions /\ n # 0 /\ sessions'[n].gen = 1
          /\ h[p].grant = NoToken /\ p[2] = "call"
      BY <1>9 DEF Opens, OnlyOf, JInv, Kinds
    <2>. HIDE DEF n
    <2>2. In(jar[b], h[r], h[c], sessions)
      BY <1>4, <1>5, <2>1
    <2>3. CASE p \notin {r, c}
      <3>1. h'[r] = h[r] /\ h'[c] = h[c] /\ jar'[b] = jar[b]
        BY <1>1, <2>1, <2>3
      <3>2. ASSUME NEW x \in {jar[b], h[r].grant, h[c].grant}, x # NoToken
            PROVE  sessions'[x.sid].gen = sessions[x.sid].gen
        <4>1. x.sid \in DOMAIN sessions
          BY <1>3, <3>2
        <4>. QED
          BY <2>1, <4>1
      <3>3. In(jar[b], h[r], h[c], sessions')
        BY <2>2, <3>2
      <3>. QED
        BY <1>5, <3>1, <3>3
    <2>4. CASE p = c
      <3>1. n \notin {jar[b].sid, h[r].token.sid, h[r].grant.sid}
        BY <1>3, <1>6, <2>1
      <3>2. h'[r] = h[r]
        BY <1>1, <2>1, <2>4
      <3>. QED
        BY <1>3, <1>5, <2>1, <2>2, <2>4, <3>1, <3>2, ZenonT(30)
    <2>. QED
      BY <1>1, <1>2, <2>1, <2>3, <2>4
  <1>10. ASSUME NEW p \in Procs, Sends(p) PROVE InStep(b, t)'
    <2>1. /\ sessions' = sessions
          /\ jar' = jar /\ lost' = lost /\ \A q \in Procs \ {p} : h'[q] = h[q]
          /\ h'[p].token = jar[BrowserOf[p[1]]] /\ h'[p].grant = NoToken /\ h[p].grant = NoToken
      BY <1>10 DEF Sends, OnlyOf, JInv, Kinds
    <2>2. In(jar[b], h[r], h[c], sessions)
      BY <1>4, <1>5, <2>1
    <2>3. CASE p \notin {r, c}
      BY <1>1, <1>5, <2>1, <2>2, <2>3
    <2>4. CASE p = r
      <3>1. h'[c] = h[c] /\ h'[r].token = jar[b] /\ h'[r].grant = NoToken
        BY <1>1, <2>1, <2>4
      <3>2. jar[b] # NoToken => jar[b].gen = sessions[jar[b].sid].gen
        BY <2>1, <2>2, <2>4 DEF Names
      <3>3. h[c].grant # NoToken => h[c].grant.sid \notin {jar[b].sid, 0}
        BY <1>3, <2>2
      <3>. QED
        BY <1>5, <1>6, <2>1, <2>2, <3>1, <3>2, <3>3
    <2>5. CASE p = c
      BY <1>1, <1>5, <2>1, <2>2, <2>5
    <2>. QED
      BY <2>3, <2>4, <2>5
  <1>11. ASSUME NEW p \in Procs, Returns(p) PROVE InStep(b, t)'
    <2>1. /\ sessions' = sessions /\ lost' = lost
          /\ \A q \in Procs \ {p} : h'[q] = h[q]
          /\ h'[p] = Idle /\ Idle.token = NoToken /\ Idle.grant = NoToken
      BY <1>11, IdleFields DEF Returns, OnlyOf
    <2>2. In(jar[b], h[r], h[c], sessions)
      BY <1>4, <1>5, <2>1
    <2>3. \/ jar'[b] = jar[b] /\ (~h[p].ok \/ BrowserOf[p[1]] # b)
          \/ BrowserOf[p[1]] = b /\ jar'[b] = Cookies(b, h[p])
      BY <1>11 DEF Returns
    <2>4. CASE BrowserOf[p[1]] # b
      <3>1. h'[r] = h[r] /\ h'[c] = h[c] /\ jar'[b] = jar[b]
        BY <1>1, <2>1, <2>3, <2>4
      <3>. QED
        BY <1>5, <2>1, <2>2, <3>1
    <2>5. jar'[b] \in {NoToken, h[p].grant} \/ (jar'[b] = jar[b] /\ h[p].grant = NoToken)
          \/ (jar'[b] = jar[b] /\ ~h[p].ok) \/ BrowserOf[p[1]] # b
      BY <2>3 DEF Cookies
    <2>6. CASE p = r
      <3>1. h'[c] = h[c] /\ BrowserOf[p[1]] = b
        BY <1>1, <2>1, <2>6
      <3>2. jar'[b] \in {NoToken, h[r].grant} \/ (jar'[b] = jar[b] /\ h[r].grant = NoToken)
        BY <2>2, <2>5, <2>6, <3>1
      <3>3. jar'[b] # NoToken => jar'[b].gen = sessions[jar'[b].sid].gen
        BY <2>2, <3>2 DEF Names
      <3>4. h[c].grant # NoToken => h[c].grant.sid \notin {jar'[b].sid, 0}
        BY <1>3, <1>6, <2>2, <3>2
      <3>. QED
        BY <1>5, <1>6, <2>1, <2>2, <2>6, <3>1, <3>3, <3>4
    <2>7. CASE p = c
      <3>1. h'[r] = h[r] /\ BrowserOf[p[1]] = b
        BY <1>1, <2>1, <2>7
      <3>2. jar'[b] \in {NoToken, h[c].grant, jar[b]}
        BY <2>5, <2>7, <3>1
      <3>3. jar'[b] # NoToken =>
                jar'[b].gen = sessions[jar'[b].sid].gen \/ Names(h[r].grant, jar'[b].sid)
        BY <2>2, <3>2
      <3>. QED
        BY <1>5, <2>1, <2>2, <2>7, <3>1, <3>3
    <2>. QED
      BY <1>2, <2>4, <2>6, <2>7
  <1>12. CASE UNCHANGED <<sessions, jar, h, lost>>
    BY <1>4, <1>5, <1>12
  <1>. QED
    BY <1>7, <1>8, <1>9, <1>10, <1>11, <1>12, StepKinds DEF JInv

\* The sessions there are at first, one for each browser that is signed in.
LEMMA InitSessions ==
    ASSUME Init
    PROVE  /\ \A b \in Browsers : jar[b] # NoToken =>
                 jar[b].sid \in DOMAIN sessions /\ jar[b].gen = 1
           /\ \A b, c \in Browsers : jar[b] # NoToken /\ jar[c] # NoToken /\ jar[b].sid = jar[c].sid
                 => b = c
           /\ \A s \in DOMAIN sessions : sessions[s].gen = 1
           /\ \E own \in [DOMAIN sessions -> Browsers] :
                 /\ \A s \in DOMAIN sessions : sessions[s].user = Owner[own[s]]
                 /\ \A s, r \in DOMAIN sessions : own[s] = own[r] => s = r
  <1>1. PICK S \in SUBSET Browsers :
          /\ sessions = [i \in 1..Cardinality(S) |->
                 [user |-> Owner[SetToSeq(S)[i]], live |-> TRUE, gen |-> 1,
                  epoch |-> 0, used |-> {}, late |-> FALSE]]
          /\ jar = [b \in Browsers |->
                 IF b \in S THEN [sid |-> CHOOSE i \in 1..Cardinality(S) : SetToSeq(S)[i] = b,
                                 gen |-> 1]
                 ELSE NoToken]
    BY DEF Init
  <1>. DEFINE n == Cardinality(S)
              seq == SetToSeq(S)
              At(b) == CHOOSE i \in 1..n : seq[i] = b
  <1>2. /\ \A i \in 1..n : seq[i] \in S
        /\ \A b \in S : \E i \in 1..n : seq[i] = b
        /\ \A i, j \in 1..n : seq[i] = seq[j] => i = j
    BY AuthAssumption, FS_Subset, Enumerates
  <1>3. \A b \in Browsers : jar[b] # NoToken => b \in S /\ jar[b].sid = At(b) /\ jar[b].gen = 1
    BY <1>1
  <1>4. \A b \in S : At(b) \in 1..n /\ seq[At(b)] = b
    BY <1>2
  <1>. HIDE DEF At
  <1>5. /\ DOMAIN sessions = 1..n
        /\ \A s \in 1..n : sessions[s].gen = 1 /\ sessions[s].user = Owner[seq[s]]
    BY <1>1
  <1>6. /\ [s \in 1..n |-> seq[s]] \in [1..n -> Browsers]
        /\ \A s \in 1..n : [i \in 1..n |-> seq[i]][s] = seq[s]
    BY <1>2
  <1>. DEFINE own == [s \in 1..n |-> seq[s]]
  <1>. HIDE DEF n, seq
  <1>7. /\ own \in [DOMAIN sessions -> Browsers]
        /\ \A s \in DOMAIN sessions : sessions[s].user = Owner[own[s]]
        /\ \A s, r \in DOMAIN sessions : own[s] = own[r] => s = r
    BY <1>2, <1>5, <1>6
  <1>8. \A b \in Browsers : jar[b] # NoToken => jar[b].sid \in DOMAIN sessions /\ jar[b].gen = 1
    BY <1>3, <1>4, <1>5
  <1>9. \A b, c \in Browsers : jar[b] # NoToken /\ jar[c] # NoToken /\ jar[b].sid = jar[c].sid
           => b = c
    <2>. SUFFICES ASSUME NEW b \in Browsers, NEW c \in Browsers, jar[b] # NoToken,
                         jar[c] # NoToken, jar[b].sid = jar[c].sid
                  PROVE  b = c
      OBVIOUS
    <2>1. b \in S /\ c \in S /\ At(b) = At(c)
      BY <1>3
    <2>2. seq[At(b)] = b /\ seq[At(c)] = c
      BY <1>4, <2>1
    <2>. QED
      BY <2>1, <2>2
  <1>. QED
    BY <1>5, <1>7, <1>8, <1>9

LEMMA InitJInv == Init => JInv
  <1>. SUFFICES ASSUME Init PROVE JInv
    OBVIOUS
  <1>1. IInv
    BY InitIInv
  <1>2. \A p \in Procs : h[p] = Idle
    BY DEF Init
  <1>3. Kinds
    BY <1>2, IdleFields DEF Kinds
  <1>4. \A b, s : Holds(b, s) => Names(jar[b], s)
    BY <1>2, IdleFields DEF Holds, Names
  <1>5. Apart
    BY <1>4, InitSessions DEF Apart, Names
  <1>6. SingleInStep
    <2>. SUFFICES ASSUME NEW b \in Browsers, NEW t \in Tabs PROVE InStep(b, t)
      BY DEF SingleInStep
    <2>1. <<t, "refresh">> \in Procs /\ <<t, "call">> \in Procs
      BY DEF Procs
    <2>. QED
      BY <1>2, <2>1, IdleFields, InitSessions DEF InStep
  <1>. QED
    BY <1>1, <1>3, <1>5, <1>6 DEF JInv

LEMMA JInvKept ==
    ASSUME IsFiniteSet(Tabs), JInv, [Next]_vars
    PROVE  JInv'
  <1>1. IInv' /\ Kinds' /\ Apart'
    BY NextKeeps, KindsKept, ApartKept DEF JInv
  <1>2. SingleInStep'
    <2>. SUFFICES ASSUME lost' = 0, NEW b \in Browsers, NEW t \in Tabs, SingleTab(b),
                         BrowserOf[t] = b
                  PROVE  InStep(b, t)'
      BY DEF SingleInStep, SingleTab
    <2>. QED
      BY InStepKept
  <1>. QED
    BY <1>1, <1>2 DEF JInv

\* The cookies of a browser with one tab hold the current token of their session
\* whenever nothing is in flight and no response was lost (refreshSession's one
\* promise, rotate_refresh_token).
THEOREM SingleTabStaysInStep ==
    ASSUME IsFiniteSet(Tabs)
    PROVE  Spec => []JarInStep
  <1>0. JInv /\ [Next]_vars => JInv'
    BY JInvKept
  <1>1. Spec => []JInv
    BY <1>0, InitJInv, PTL DEF Spec
  <1>2. JInv => JarInStep
    <2>. SUFFICES ASSUME JInv, NEW b \in Browsers, SingleTab(b), Quiet(b), lost = 0, jar[b] # NoToken
                  PROVE  jar[b].gen = sessions[jar[b].sid].gen
      BY DEF JarInStep
    <2>1. PICK t \in Tabs : BrowserOf[t] = b
      <3>1. Cardinality({u \in Tabs : BrowserOf[u] = b}) # 0
        BY DEF SingleTab
      <3>2. {u \in Tabs : BrowserOf[u] = b} # {}
        BY <3>1, FS_EmptySet
      <3>. QED
        BY <3>2
    <2>2. <<t, "refresh">> \in Procs /\ h[<<t, "refresh">>].pc = "idle"
      BY <2>1 DEF Quiet, Procs
    <2>3. h[<<t, "refresh">>].grant = NoToken
      BY <2>2 DEF JInv, Kinds
    <2>4. InStep(b, t)
      BY <2>1 DEF JInv, SingleInStep
    <2>. QED
      BY <2>3, <2>4 DEF InStep, Names
  <1>. QED
    BY <1>1, <1>2, PTL

-----------------------------------------------------------------------------
(* How many sessions a user has.                                           *)

TabsOf(u) == {t \in Tabs : Owner[BrowserOf[t]] = u}

\* The logins that have listed what they will revoke.
Loginers(u) == {p \in InHand({"login"}) : h[p].of = u}

\* The sessions that will be left when those of D have committed, their own not
\* counted.
Spared(u, D) == {s \in LiveOf(u) : \A p \in D : s \notin h[p].list}

Fits == \A u \in Users : \A D \in SUBSET Loginers(u) :
           Cardinality(Spared(u, D)) + Cardinality(D)
               <= MaxActive + Cardinality(TabsOf(u)) - 1

BInv == IInv /\ Kinds /\ Fits

\* Tabs can be counted, and no browser is without.
EachHasTabs == IsFiniteSet(Tabs) /\ \A b \in Browsers : \E t \in Tabs : BrowserOf[t] = b

LEMMA LiveFinite ==
    ASSUME IInv, NEW u
    PROVE  /\ IsFiniteSet(LiveOf(u)) /\ LiveOf(u) \subseteq Nat
           /\ \A S \in SUBSET LiveOf(u) : IsFiniteSet(S) /\ Cardinality(S) \in Nat
  <1>1. DOMAIN sessions = 1..Len(sessions) /\ Len(sessions) \in Nat
    BY RowsTyped DEF IInv
  <1>2. IsFiniteSet(DOMAIN sessions)
    BY <1>1, FS_Interval
  <1>. QED
    BY <1>1, <1>2, FS_Subset, FS_CardinalityType DEF LiveOf

\* No more logins of a user run at once than the user has tabs.
LEMMA LoginsCounted ==
    ASSUME EachHasTabs, Kinds, NEW u, NEW D \in SUBSET Loginers(u)
    PROVE  IsFiniteSet(D) /\ Cardinality(D) \in Nat /\ Cardinality(D) <= Cardinality(TabsOf(u))
  <1>1. IsFiniteSet(TabsOf(u)) /\ Cardinality(TabsOf(u)) \in Nat
    BY FS_Subset, FS_CardinalityType DEF EachHasTabs, TabsOf
  <1>2. \A p \in D : p \in Procs /\ p[1] \in TabsOf(u) /\ p[2] = "call"
    BY DEF Loginers, InHand, Kinds, Procs, TabsOf
  <1>. DEFINE f == [p \in D |-> p[1]]
  <1>3. f \in Injection(D, TabsOf(u))
    BY <1>2 DEF Injection, IsInjective, Procs
  <1>. QED
    BY <1>1, <1>3, FS_Injection, FS_CardinalityType

\* create_session leaves room for the session it opens.
LEMMA ExcessLeaves ==
    ASSUME NEW S \in SUBSET Nat, IsFiniteSet(S)
    PROVE  /\ IsFiniteSet(S \ Excess(S)) /\ Cardinality(S \ Excess(S)) \in Nat
           /\ Cardinality(S \ Excess(S)) <= MaxActive - 1
  <1>. DEFINE c == Cardinality(S)
              m == MaxActive
              rank(s) == Cardinality({r \in S : r <= s})
              K == S \ Excess(S)
  <1>0. m \in Nat \ {0} /\ c \in Nat
    BY AuthAssumption, FS_CardinalityType
  <1>1. IsFiniteSet(K) /\ Cardinality(K) \in Nat
    BY FS_Subset, FS_CardinalityType
  <1>2. ASSUME NEW s \in S
        PROVE  rank(s) \in Nat /\ rank(s) <= c /\ rank(s) >= 1
    <2>1. s \in {r \in S : r <= s} /\ IsFiniteSet({r \in S : r <= s})
      BY FS_Subset
    <2>2. {s} \subseteq {r \in S : r <= s} /\ Cardinality({s}) = 1
      BY <2>1, FS_Singleton
    <2>3. rank(s) >= 1
      BY <2>1, <2>2, FS_Subset
    <2>. QED
      BY <2>1, <2>3, FS_Subset, FS_CardinalityType
  <1>3. ASSUME NEW s \in S, NEW z \in S, s < z
        PROVE  rank(s) < rank(z)
    <2>0. s \in Nat /\ z \in Nat /\ ~(z <= s) /\ z <= z /\ \A r \in S : r <= s => r <= z
      BY <1>3
    <2>1. /\ {r \in S : r <= s} \subseteq {r \in S : r <= z}
          /\ z \in {r \in S : r <= z} /\ z \notin {r \in S : r <= s}
      BY <1>3, <2>0
    <2>2. IsFiniteSet({r \in S : r <= z})
      BY FS_Subset
    <2>3. {r \in S : r <= s} # {r \in S : r <= z}
      BY <2>1
    <2>4. /\ Cardinality({r \in S : r <= s}) <= Cardinality({r \in S : r <= z})
          /\ Cardinality({r \in S : r <= s}) # Cardinality({r \in S : r <= z})
      BY <2>1, <2>2, <2>3, FS_Subset
    <2>. QED
      BY <1>2, <2>4
  <1>4. \A s \in K : s \in S /\ s \in Nat /\ ~(rank(s) <= c - m + 1)
    BY DEF Excess
  <1>. HIDE DEF rank, K, c, m
  <1>5. CASE c >= m
    <2>. DEFINE T == (c - m + 2)..c
                f == [s \in K |-> rank(s)]
    <2>0. \A s \in K : rank(s) \in T
      BY <1>0, <1>2, <1>4, <1>5
    <2>1. f \in [K -> T]
      BY <2>0
    <2>2. \A s \in K, z \in K : f[s] = f[z] => s = z
      <3>. SUFFICES ASSUME NEW s \in K, NEW z \in K, s # z PROVE rank(s) # rank(z)
        OBVIOUS
      <3>1. s < z \/ z < s
        BY <1>4
      <3>. QED
        BY <1>2, <1>3, <1>4, <3>1
    <2>3. f \in Injection(K, T)
      BY <2>1, <2>2 DEF Injection, IsInjective
    <2>4. IsFiniteSet(T) /\ Cardinality(T) = m - 1
      <3>1. c - m + 2 \in Int /\ c \in Int
        BY <1>0
      <3>2. IsFiniteSet(T) /\ Cardinality(T) = IF c - m + 2 > c THEN 0 ELSE c - (c - m + 2) + 1
        BY <3>1, FS_Interval
      <3>. QED
        BY <1>0, <3>2
    <2>. QED
      BY <1>1, <2>3, <2>4, FS_Injection DEF K, m
  <1>6. CASE c < m
    <2>1. Cardinality(K) <= c
      BY FS_Subset DEF K, c
    <2>2. Cardinality(K) \in Nat
      BY <1>1
    <2>. QED
      BY <1>0, <1>1, <1>6, <2>1, <2>2 DEF K, m
  <1>. QED
    BY <1>0, <1>5, <1>6

LEMMA TabsCounted ==
    ASSUME EachHasTabs, NEW u
    PROVE  Cardinality(TabsOf(u)) \in Nat
  BY FS_Subset, FS_CardinalityType DEF EachHasTabs, TabsOf

\* Where sessions only end and no login lists, the bound stays.
LEMMA EndingFits ==
    ASSUME BInv, EachHasTabs, NEW u \in Users, LiveOf(u)' \subseteq LiveOf(u),
           \A q \in Loginers(u)' : q \in Loginers(u) /\ h'[q].list = h[q].list,
           NEW D \in SUBSET Loginers(u)'
    PROVE  Cardinality(Spared(u, D)') + Cardinality(D) <= MaxActive + Cardinality(TabsOf(u)) - 1
  <1>1. D \in SUBSET Loginers(u) /\ \A p \in D : h'[p].list = h[p].list
    OBVIOUS
  <1>2. Spared(u, D)' \subseteq Spared(u, D)
    <2>. SUFFICES ASSUME NEW s \in LiveOf(u)', \A p \in D : s \notin h'[p].list
                  PROVE  s \in Spared(u, D)
      BY DEF Spared
    <2>. QED
      BY <1>1 DEF Spared
  <1>3. IsFiniteSet(Spared(u, D)) /\ Cardinality(Spared(u, D)) \in Nat
    BY LiveFinite DEF Spared, BInv
  <1>4. Cardinality(Spared(u, D)') <= Cardinality(Spared(u, D)) /\ Cardinality(Spared(u, D)') \in Nat
    BY <1>2, <1>3, FS_Subset, FS_CardinalityType
  <1>5. Cardinality(Spared(u, D)) + Cardinality(D) <= MaxActive + Cardinality(TabsOf(u)) - 1
    BY <1>1 DEF BInv, Fits
  <1>6. Cardinality(D) \in Nat
    BY <1>1, LoginsCounted DEF BInv
  <1>. QED
    BY <1>3, <1>4, <1>5, <1>6, TabsCounted, AuthAssumption

\* A login that lists leaves one less than the limit.
LEMMA ListingFits ==
    ASSUME BInv, Kinds', EachHasTabs, NEW u \in Users, NEW p \in Procs, UNCHANGED sessions,
           h'[p].list = Excess(LiveOf(u)), NEW D \in SUBSET Loginers(u)', p \in D
    PROVE  Cardinality(Spared(u, D)') + Cardinality(D) <= MaxActive + Cardinality(TabsOf(u)) - 1
  <1>. DEFINE K == LiveOf(u) \ Excess(LiveOf(u))
  <1>1. Spared(u, D)' \subseteq K
    BY DEF Spared, LiveOf
  <1>2. IsFiniteSet(K) /\ Cardinality(K) \in Nat /\ Cardinality(K) <= MaxActive - 1
    BY LiveFinite, ExcessLeaves DEF BInv
  <1>3. Cardinality(Spared(u, D)') <= Cardinality(K) /\ Cardinality(Spared(u, D)') \in Nat
    BY <1>1, <1>2, FS_Subset, FS_CardinalityType
  <1>4. Cardinality(D) \in Nat /\ Cardinality(D) <= Cardinality(TabsOf(u))
    <2>1. D \in SUBSET {q \in Procs : h'[q].pc = "commit" /\ h'[q].op = "login" /\ h'[q].of = u}
      BY DEF Loginers, InHand
    <2>2. \A q \in D : q \in Procs /\ q[1] \in TabsOf(u) /\ q[2] = "call"
      BY <2>1 DEF Kinds, Procs, TabsOf
    <2>. DEFINE f == [q \in D |-> q[1]]
    <2>3. f \in Injection(D, TabsOf(u))
      BY <2>2 DEF Injection, IsInjective, Procs
    <2>4. IsFiniteSet(TabsOf(u))
      BY FS_Subset DEF EachHasTabs, TabsOf
    <2>. QED
      BY <2>3, <2>4, FS_Injection, FS_CardinalityType
  <1>. QED
    BY <1>2, <1>3, <1>4, TabsCounted, AuthAssumption

\* A login that commits gives up what it listed for what it opens.
LEMMA OpeningFits ==
    ASSUME BInv, EachHasTabs, NEW p \in Procs, Opens(p), NEW u \in Users, u = h[p].of,
           NEW D \in SUBSET Loginers(u)'
    PROVE  Cardinality(Spared(u, D)') + Cardinality(D) <= MaxActive + Cardinality(TabsOf(u)) - 1
  <1>. DEFINE n == Len(sessions) + 1
              E == D \union {p}
  <1>1. /\ OnlyOf(p) /\ h'[p].pc = "reply" /\ h[p].pc = "commit" /\ h[p].op = "login"
        /\ DOMAIN sessions' = DOMAIN sessions \union {n}
        /\ \A s \in DOMAIN sessions :
              /\ sessions'[s].user = sessions[s].user
              /\ sessions'[s].live => sessions[s].live /\ s \notin h[p].list
    BY DEF Opens
  <1>. HIDE DEF n
  <1>2. p \notin D /\ E \in SUBSET Loginers(u) /\ \A q \in D : h'[q] = h[q]
    BY <1>1 DEF Loginers, InHand, OnlyOf
  <1>3. Spared(u, D)' \subseteq Spared(u, E) \union {n}
    <2>. SUFFICES ASSUME NEW s \in DOMAIN sessions', s # n, sessions'[s].user = u,
                         sessions'[s].live, \A q \in D : s \notin h'[q].list
                  PROVE  s \in Spared(u, E)
      BY DEF Spared, LiveOf
    <2>. QED
      BY <1>1, <1>2 DEF Spared, LiveOf
  <1>4. IsFiniteSet(Spared(u, E)) /\ Cardinality(Spared(u, E)) \in Nat
    BY LiveFinite DEF Spared, BInv
  <1>5. /\ IsFiniteSet(Spared(u, E) \union {n})
        /\ Cardinality(Spared(u, E) \union {n}) <= Cardinality(Spared(u, E)) + 1
    <2>. DEFINE T == Spared(u, E)
    <2>1. IsFiniteSet(T) /\ Cardinality(T) \in Nat
      BY <1>4
    <2>. HIDE DEF T
    <2>2. /\ IsFiniteSet(T \union {n})
          /\ Cardinality(T \union {n}) = IF n \in T THEN Cardinality(T) ELSE Cardinality(T) + 1
      BY <2>1, FS_AddElement
    <2>3. Cardinality(T \union {n}) <= Cardinality(T) + 1
      BY <2>1, <2>2
    <2>. QED
      BY <2>2, <2>3 DEF T
  <1>6. /\ Cardinality(Spared(u, D)') <= Cardinality(Spared(u, E) \union {n})
        /\ Cardinality(Spared(u, D)') \in Nat /\ Cardinality(Spared(u, E) \union {n}) \in Nat
    BY <1>3, <1>5, FS_Subset, FS_CardinalityType
  <1>7. Cardinality(Spared(u, E)) + Cardinality(E) <= MaxActive + Cardinality(TabsOf(u)) - 1
    BY <1>2 DEF BInv, Fits
  <1>8. Cardinality(D) \in Nat /\ Cardinality(E) = Cardinality(D) + 1
    <2>1. IsFiniteSet(D) /\ Cardinality(D) \in Nat
      BY <1>2, LoginsCounted DEF BInv
    <2>. QED
      BY <1>2, <2>1, FS_AddElement
  <1>. QED
    BY <1>4, <1>5, <1>6, <1>7, <1>8, TabsCounted, AuthAssumption

LEMMA FitsKept ==
    ASSUME BInv, Kinds', EachHasTabs, [Next]_vars
    PROVE  Fits'
  <1>. SUFFICES ASSUME NEW u \in Users, NEW D \in SUBSET Loginers(u)'
                PROVE  Cardinality(Spared(u, D)') + Cardinality(D)
                           <= MaxActive + Cardinality(TabsOf(u)) - 1
    BY DEF Fits, TabsOf
  <1>1. ASSUME NEW p \in Procs, Plain(p)
        PROVE  Cardinality(Spared(u, D)') + Cardinality(D) <= MaxActive + Cardinality(TabsOf(u)) - 1
    <2>1. LiveOf(u)' \subseteq LiveOf(u)
      BY <1>1 DEF Plain, OnlyRevokes, LiveOf
    <2>2. \A q \in Loginers(u)' : q # p => q \in Loginers(u) /\ h'[q].list = h[q].list
      BY <1>1 DEF Plain, OnlyOf, Loginers, InHand
    <2>3. CASE p \in Loginers(u)'
      <3>1. UNCHANGED sessions /\ h'[p].list = Excess(LiveOf(u))
        BY <1>1, <2>3 DEF Plain, Loginers, InHand
      <3>2. CASE p \in D
        BY <3>1, <3>2, ListingFits
      <3>3. CASE p \notin D
        <4>1. D \in SUBSET Loginers(u) /\ Spared(u, D)' = Spared(u, D)
          BY <1>1, <2>2, <3>1, <3>3 DEF Spared, LiveOf, Plain, OnlyOf
        <4>. QED
          BY <4>1 DEF BInv, Fits
      <3>. QED
        BY <3>2, <3>3
    <2>4. CASE p \notin Loginers(u)'
      BY <2>1, <2>2, <2>4, EndingFits
    <2>. QED
      BY <2>3, <2>4
  <1>2. ASSUME NEW p \in Procs, Exchanges(p) \/ Sends(p) \/ Returns(p)
        PROVE  Cardinality(Spared(u, D)') + Cardinality(D) <= MaxActive + Cardinality(TabsOf(u)) - 1
    <2>1. LiveOf(u)' \subseteq LiveOf(u)
      BY <1>2 DEF Exchanges, Sends, Returns, LiveOf
    <2>2. h'[p].pc # "commit" /\ OnlyOf(p)
      BY <1>2, IdleFields DEF Exchanges, Sends, Returns
    <2>3. \A q \in Loginers(u)' : q \in Loginers(u) /\ h'[q].list = h[q].list
      BY <2>2 DEF OnlyOf, Loginers, InHand
    <2>. QED
      BY <2>1, <2>3, EndingFits
  <1>3. ASSUME NEW p \in Procs, Opens(p)
        PROVE  Cardinality(Spared(u, D)') + Cardinality(D) <= MaxActive + Cardinality(TabsOf(u)) - 1
    <2>1. CASE u = h[p].of
      BY <1>3, <2>1, OpeningFits
    <2>2. CASE u # h[p].of
      <3>1. LiveOf(u)' \subseteq LiveOf(u)
        BY <1>3, <2>2 DEF Opens, LiveOf
      <3>2. \A q \in Loginers(u)' : q \in Loginers(u) /\ h'[q].list = h[q].list
        BY <1>3 DEF Opens, OnlyOf, Loginers, InHand
      <3>. QED
        BY <3>1, <3>2, EndingFits
    <2>. QED
      BY <2>1, <2>2
  <1>4. CASE UNCHANGED <<sessions, jar, h, lost>>
    <2>1. LiveOf(u)' \subseteq LiveOf(u)
      BY <1>4 DEF LiveOf
    <2>2. \A q \in Loginers(u)' : q \in Loginers(u) /\ h'[q].list = h[q].list
      BY <1>4 DEF Loginers, InHand
    <2>. QED
      BY <2>1, <2>2, EndingFits
  <1>. QED
    BY <1>1, <1>2, <1>3, <1>4, StepKinds DEF BInv

\* Every session of a user belongs to a browser, and every browser has a tab.
LEMMA InitFits ==
    ASSUME Init, EachHasTabs
    PROVE  BInv
  <1>1. IInv /\ Kinds
    BY InitJInv DEF JInv
  <1>2. PICK own \in [DOMAIN sessions -> Browsers] :
            /\ \A s \in DOMAIN sessions : sessions[s].user = Owner[own[s]]
            /\ \A s, r \in DOMAIN sessions : own[s] = own[r] => s = r
    BY InitSessions
  <1>3. ASSUME NEW u \in Users, NEW D \in SUBSET Loginers(u)
        PROVE  Cardinality(Spared(u, D)) + Cardinality(D)
                   <= MaxActive + Cardinality(TabsOf(u)) - 1
    <2>1. \A p \in Procs : h[p] = Idle
      BY DEF Init
    <2>2. D = {}
      BY <2>1, IdleFields DEF Loginers, InHand
    <2>. DEFINE f == [s \in LiveOf(u) |-> CHOOSE t \in Tabs : BrowserOf[t] = own[s]]
    <2>3. \A s \in LiveOf(u) :
             f[s] \in Tabs /\ BrowserOf[f[s]] = own[s] /\ Owner[own[s]] = u /\ s \in DOMAIN sessions
      BY <1>2 DEF EachHasTabs, LiveOf
    <2>4. f \in [LiveOf(u) -> TabsOf(u)]
      BY <2>3 DEF TabsOf
    <2>5. f \in Injection(LiveOf(u), TabsOf(u))
      <3>1. \A s, r \in LiveOf(u) : f[s] = f[r] => s = r
        BY <1>2, <2>3
      <3>. HIDE DEF f
      <3>. QED
        BY <2>4, <3>1 DEF Injection, IsInjective
    <2>6. IsFiniteSet(TabsOf(u))
      BY FS_Subset DEF EachHasTabs, TabsOf
    <2>7. Cardinality(LiveOf(u)) <= Cardinality(TabsOf(u))
      BY <2>5, <2>6, FS_Injection
    <2>8. Spared(u, D) = LiveOf(u) /\ Cardinality(D) = 0
      BY <2>2, FS_EmptySet DEF Spared
    <2>9. Cardinality(LiveOf(u)) \in Nat
      BY <1>1, LiveFinite
    <2>. QED
      BY <2>7, <2>8, <2>9, TabsCounted, AuthAssumption
  <1>. QED
    BY <1>1, <1>3 DEF BInv, Fits

\* However many logins overlap, a user has at most MaxActive sessions and one
\* for each tab but the first (create_session).
THEOREM SessionsAreBounded ==
    ASSUME EachHasTabs
    PROVE  Spec => []SessionsBounded
  <1>1. Init => BInv
    BY InitFits
  <1>2. BInv /\ [Next]_vars => BInv'
    BY NextKeeps, KindsKept, FitsKept DEF BInv
  <1>3. BInv => SessionsBounded
    <2>. SUFFICES ASSUME BInv, NEW u \in Users
                  PROVE  Cardinality(LiveOf(u)) <= MaxActive + Cardinality(TabsOf(u)) - 1
      BY DEF SessionsBounded, TabsOf
    <2>1. Spared(u, {}) = LiveOf(u) /\ Cardinality({}) = 0
      BY FS_EmptySet DEF Spared
    <2>2. Cardinality(LiveOf(u)) \in Nat
      BY LiveFinite DEF BInv
    <2>3. Cardinality(Spared(u, {})) + Cardinality({}) <= MaxActive + Cardinality(TabsOf(u)) - 1
      BY DEF BInv, Fits
    <2>. QED
      BY <2>1, <2>2, <2>3
  <1>. QED
    BY <1>1, <1>2, <1>3, PTL DEF Spec
=============================================================================
