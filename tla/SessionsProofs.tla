--------------------------- MODULE SessionsProofs ---------------------------
(***************************************************************************)
(* Proofs about Sessions, for any users, handlers, requests and number of  *)
(* sessions: none is orphaned or current after its loop has ended, a       *)
(* request is answered at most once, and there is one login at a time.     *)
(***************************************************************************)
EXTENDS Sessions, TLAPS

\* Sessions not created yet are as they were, and only one is created without zeroconf.
Fresh ==
  /\ \A s \in Sessions : s > created => session[s] = NoSession
  /\ ~cfg.zeroconf => created <= 1

\* Where the goroutines may be: one that is not in setSession holds no session to close; one
\* that is knows how to go on; the logout goroutine is started with the others; and only
\* the boot reads the credentials on the main goroutine.
Control ==
  /\ cfg.zeroconf =>
       \A t \in Threads : thread[t].pc # "teardown" => thread[t].prev = None
  /\ \A t \in Threads : thread[t].pc = "teardown" => thread[t].then # "none"
  /\ thread[Main].then # "credentials"
  /\ ~serving => thread[Logout].pc = "off"
  /\ thread[Main].pc = "credentials" => ~serving

\* The request on its way has been taken and not answered.
Forwards ==
  forwarder.at = "forward" => forwarder.req \in Reqs /\ request[forwarder.req].at = "taken"

\* The login under way is that of a handler which waits for it, and only Serve makes one.
Waits ==
  /\ thread[Logout].for = "none"
  /\ thread[Main].for # "none" => http[thread[Main].for].at = "wait"

SessionInv == Owned /\ CurrentRuns /\ Fresh /\ Control
RequestInv == AnsweredOnce /\ Forwards
LoginInv == OneLogin /\ Waits

IInv == TypeOK /\ SessionInv /\ RequestInv /\ LoginInv

---------------------------------------------------------------------------
SessionType == [run : {"none", "connect", "serve", "losing", "over"},
                lost : BOOLEAN, closed : BOOLEAN]
Places == {"off", "credentials", "login", "announce", "select", "clear", "stop",
           "teardown", "run", "end"}
ThreadType(n) ==
  [pc : Places,
   prev : 0..n, new : 0..n, user : AllUsers,
   then : {"none", "announce", "reply", "login", "credentials", "off"},
   for : Handlers \cup {"none"}]
ForwarderType == [at : {"select", "forward", "off"}, req : Reqs \cup {"none"},
                  to : 0..MaxSessions]
RequestType == [at : {"client", "taken", "deferred", "answered"}, replies : {0, 1}]
LoginType == [at : {"idle", "send", "wait", "result"}, user : AllUsers, ok : BOOLEAN]

\* The three parts of the type: the sessions, the requests and the logins.
SessionTypes ==
  /\ cfg \in Configs /\ serving \in BOOLEAN /\ stored \in AllUsers
  /\ created \in 0..MaxSessions /\ current \in 0..created
  /\ session \in [Sessions -> SessionType]
  /\ thread \in [Threads -> ThreadType(created)]
  /\ cancelled \in BOOLEAN /\ waiter \in {"off", "wait", "close"}
RequestTypes == forwarder \in ForwarderType /\ request \in [Reqs -> RequestType]
LoginTypes ==
  /\ auth \in AllUsers /\ active \in AllUsers
  /\ http \in [Handlers -> LoginType]

LEMMA Types ==
  /\ TypeOK <=> SessionTypes /\ RequestTypes /\ LoginTypes
  /\ TypeOK' <=> SessionTypes' /\ RequestTypes' /\ LoginTypes'
BY DEF TypeOK, SessionTypes, RequestTypes, LoginTypes, SessionType, ThreadType, Places,
       ForwarderType, RequestType, LoginType

---------------------------------------------------------------------------
(***************************************************************************)
(* Requests                                                                *)
(***************************************************************************)

\* A request that was not answered is, once.
LEMMA ReplyAnswers ==
  ASSUME RequestTypes, AnsweredOnce, NEW r \in Reqs, request[r].at # "answered", Reply(r)
  PROVE  /\ request' \in [Reqs -> RequestType] /\ AnsweredOnce'
         /\ \A q \in Reqs : q # r => request'[q] = request[q]
<1>1. request[r] \in RequestType /\ request[r].replies + 1 = 1
  BY DEF RequestTypes, AnsweredOnce, RequestType
<1> DEFINE n == [request[r] EXCEPT !.at = "answered", !.replies = 1]
<1>2. n \in RequestType /\ n.at = "answered" /\ n.replies = 1
  BY <1>1, Zenon DEF RequestType
<1>3. request' = [request EXCEPT ![r] = n]
  BY <1>1, Zenon DEF Reply
<1> HIDE DEF n
<1>4. QED BY <1>2, <1>3 DEF RequestTypes, AnsweredOnce

\* A request is taken, or its answer deferred.
LEMMA MarkKeeps ==
  ASSUME RequestTypes, AnsweredOnce, NEW r \in Reqs, request[r].at # "answered",
         NEW at \in {"taken", "deferred"}, request' = [request EXCEPT ![r].at = at]
  PROVE  /\ request' \in [Reqs -> RequestType] /\ AnsweredOnce'
         /\ request'[r].at = at
         /\ \A q \in Reqs : q # r => request'[q] = request[q]
<1>1. request[r] \in RequestType
  BY DEF RequestTypes
<1> DEFINE n == [request[r] EXCEPT !.at = at]
<1>2. n \in RequestType /\ n.at = at /\ n.replies = request[r].replies
  BY <1>1 DEF RequestType
<1>3. request' = [request EXCEPT ![r] = n]
  OBVIOUS
<1> HIDE DEF n
<1>4. QED BY <1>2, <1>3 DEF RequestTypes, AnsweredOnce

LEMMA ServeKeeps ==
  ASSUME RequestTypes, AnsweredOnce, NEW r \in Reqs, request[r].at # "answered", Serve(r)
  PROVE  /\ request' \in [Reqs -> RequestType] /\ AnsweredOnce'
         /\ \A q \in Reqs : q # r => request'[q] = request[q]
BY ReplyAnswers, MarkKeeps DEF Serve

\* Whoever answers or takes a request has it from the client, from the forwarder or
\* deferred, and nobody else has it then.
LEMMA RequestsStep ==
  ASSUME TypeOK, RequestInv, Next
  PROVE  RequestTypes' /\ RequestInv'
<1>1. RequestTypes /\ AnsweredOnce /\ Forwards /\ current \in 0..MaxSessions
  <2>1. RequestTypes /\ SessionTypes
    BY Types
  <2>2. current \in 0..MaxSessions
    BY <2>1, BoundAssumption DEF SessionTypes
  <2>3. QED BY <2>1, <2>2 DEF RequestInv
<1>2. Idle \in ForwarderType /\ [Idle EXCEPT !.at = "off"] \in ForwarderType
  BY BoundAssumption DEF Idle, ForwarderType, None
<1>3. Idle.at # "forward" /\ [Idle EXCEPT !.at = "off"].at # "forward"
  BY DEF Idle
<1>4. CASE UNCHANGED api
  BY <1>1, <1>4 DEF api, RequestTypes, RequestInv, AnsweredOnce, Forwards
<1>5. ASSUME NEW r \in Reqs, request[r].at \in {"client", "deferred"}, Serve(r),
             UNCHANGED forwarder
      PROVE  RequestTypes' /\ RequestInv'
  <2>1. request' \in [Reqs -> RequestType] /\ AnsweredOnce'
        /\ \A q \in Reqs : q # r => request'[q] = request[q]
    BY <1>1, <1>5, ServeKeeps
  <2>2. QED BY <1>1, <1>5, <2>1 DEF RequestTypes, RequestInv, Forwards
<1>6. ASSUME NEW r \in Reqs, Take(r) PROVE RequestTypes' /\ RequestInv'
  <2>1. CASE current = None
    BY <1>5, <1>6, <2>1 DEF Take, Serve
  <2>2. CASE current # None
    <3>1. request' \in [Reqs -> RequestType] /\ AnsweredOnce' /\ request'[r].at = "taken"
      BY <1>1, <1>6, <2>2, MarkKeeps DEF Take
    <3>2. forwarder' = [at |-> "forward", req |-> r, to |-> current]
      BY <1>6, <2>2 DEF Take
    <3>3. forwarder' \in ForwarderType
      BY <1>1, <3>2 DEF ForwarderType
    <3>4. QED BY <3>1, <3>2, <3>3 DEF RequestTypes, RequestInv, Forwards
  <2>3. QED BY <2>1, <2>2
<1>7. ASSUME Deliver \/ GiveUp PROVE RequestTypes' /\ RequestInv'
  <2>1. forwarder.req \in Reqs /\ request[forwarder.req].at # "answered"
    BY <1>1, <1>7 DEF Deliver, GiveUp, Forwards
  <2>2. Serve(forwarder.req) /\ forwarder' = Idle
    BY <1>7 DEF Deliver, GiveUp, Serve
  <2>3. request' \in [Reqs -> RequestType] /\ AnsweredOnce'
    BY <1>1, <2>1, <2>2, ServeKeeps
  <2>4. QED BY <1>2, <1>3, <2>2, <2>3 DEF RequestTypes, RequestInv, Forwards
<1>8. CASE ForwarderStops
  BY <1>1, <1>2, <1>3, <1>8 DEF ForwarderStops, RequestTypes, RequestInv, Forwards, AnsweredOnce
<1>9. ASSUME NEW r \in Reqs, NEW s \in Sessions,
             AnswerWithoutSession(r) \/ TakeDirectly(s, r) \/ DeferredReply(r)
      PROVE  RequestTypes' /\ RequestInv'
  BY <1>5, <1>9 DEF AnswerWithoutSession, TakeDirectly, DeferredReply, Serve
<1>10. 1 \in Sessions
  BY BoundAssumption DEF Sessions
<1>11. ASSUME NEW t \in Threads, Goroutine(t) PROVE UNCHANGED api
  BY <1>11, Zenon DEF Goroutine, TearDown, ReadCredentials, LoginFails, LoginSucceeds, Announce
<1>12. ASSUME NEW s \in Sessions, Run(s) \/ Lose(s) \/ RequestLogout(s) PROVE UNCHANGED api
  BY <1>12 DEF Run, Lose, RequestLogout, LoseNotifies, Connected, ConnectFails, StopSeen
<1>13. ASSUME NEW h \in Handlers, NEW u \in Users, AddUser(h, u) PROVE UNCHANGED api
  BY <1>13 DEF AddUser
<1>14. ASSUME NEW h \in Handlers, ServeTakes(h) \/ AddUserEnds(h) PROVE UNCHANGED api
  BY <1>14 DEF ServeTakes, AddUserEnds
<1>15. ASSUME \/ LoginAlone \/ Clear \/ LogoutStops \/ WaiterCancelled \/ WaiterCloses
              \/ ServeEnds \/ Cancel
       PROVE  UNCHANGED api
  BY <1>15 DEF LoginAlone, Clear, LogoutStops, WaiterCancelled, WaiterCloses, ServeEnds, Cancel
<1>16. QED
  BY <1>4, <1>6, <1>7, <1>8, <1>9, <1>10, <1>11, <1>12, <1>13, <1>14, <1>15 DEF Next, Forwarding

---------------------------------------------------------------------------
(***************************************************************************)
(* The moves of the goroutines                                             *)
(***************************************************************************)

\* AtSelect and the places are of their types.
LEMMA SelectType ==
  ASSUME NEW n \in Nat
  PROVE  /\ AtSelect \in ThreadType(n) /\ AtSelect.pc = "select" /\ AtSelect.prev = None
         /\ AtSelect.then = "none" /\ AtSelect.for = "none"
BY DEF AtSelect, ThreadType, Places, AllUsers, None

\* A goroutine goes somewhere and keeps the rest.
LEMMA GoMoves ==
  ASSUME NEW n \in Nat, thread \in [Threads -> ThreadType(n)], NEW t \in Threads,
         NEW pc \in Places, Go(t, pc)
  PROVE  /\ thread' \in [Threads -> ThreadType(n)] /\ thread'[t].pc = pc
         /\ \A u \in Threads : /\ thread'[u].prev = thread[u].prev
                               /\ thread'[u].then = thread[u].then
                               /\ thread'[u].for = thread[u].for
                               /\ u # t => thread'[u] = thread[u]
<1> DEFINE x == [thread[t] EXCEPT !.pc = pc]
<1>1. /\ x \in ThreadType(n) /\ x.pc = pc /\ x.prev = thread[t].prev
      /\ x.then = thread[t].then /\ x.for = thread[t].for
  BY DEF ThreadType
<1>2. thread' = [thread EXCEPT ![t] = x]
  BY DEF Go
<1> HIDE DEF x
<1>3. QED BY <1>1, <1>2

\* The swap leaves the goroutine with the session it has to close.
LEMMA SwapMoves ==
  ASSUME NEW m \in Nat, NEW n \in Nat, m <= n, thread \in [Threads -> ThreadType(m)],
         current \in 0..n, NEW t \in Threads, NEW new \in 0..n,
         NEW then \in {"announce", "reply", "login", "credentials", "off"}, Swap(t, new, then)
  PROVE  /\ thread' \in [Threads -> ThreadType(n)]
         /\ thread'[t].pc = "teardown" /\ thread'[t].prev = current /\ thread'[t].then = then
         /\ thread'[t].for = thread[t].for
         /\ \A u \in Threads : u # t => thread'[u] = thread[u]
<1> DEFINE x == [thread[t] EXCEPT !.pc = "teardown", !.prev = current, !.new = new,
                                  !.then = then]
<1>1. 0..m \subseteq 0..n
  OBVIOUS
<1>2. thread \in [Threads -> ThreadType(n)]
  BY <1>1 DEF ThreadType
<1>3. /\ x \in ThreadType(n) /\ x.pc = "teardown" /\ x.prev = current
      /\ x.then = then /\ x.for = thread[t].for
  BY <1>2, Zenon DEF ThreadType, Places
<1>4. thread' = [thread EXCEPT ![t] = x]
  BY Zenon DEF Swap
<1> HIDE DEF x
<1>5. QED BY <1>2, <1>3, <1>4

\* After the swap the goroutine goes on, without the session.
LEMMA TearDownMoves ==
  ASSUME NEW n \in Nat, thread \in [Threads -> ThreadType(n)], NEW t \in Threads,
         thread[t].then # "none", TearDown(t)
  PROVE  /\ thread' \in [Threads -> ThreadType(n)]
         /\ thread'[t].pc # "teardown" /\ thread'[t].prev = None
         /\ thread'[t].for \in {thread[t].for, "none"}
         /\ thread'[t].then = "none"
         /\ thread'[t].pc \in {"select", thread[t].then}
         /\ \A u \in Threads : u # t => thread'[u] = thread[u]
<1>1. CASE thread[t].then = "reply"
  BY <1>1, SelectType, Zenon DEF TearDown
<1>2. CASE thread[t].then # "reply"
  <2> DEFINE p == thread[t].then
             x == [thread[t] EXCEPT !.pc = p, !.prev = None, !.new = None, !.then = "none"]
  <2>1. p \in {"announce", "login", "credentials", "off"}
    BY <1>2 DEF ThreadType
  <2>2. thread' = [thread EXCEPT ![t] = x]
    BY <1>2, Zenon DEF TearDown
  <2>3. thread[t] \in ThreadType(n) /\ None \in 0..n
    BY DEF None
  <2>4. p = thread[t].then
    OBVIOUS
  <2> HIDE DEF p
  <2>5. p \in Places
    BY <2>1 DEF Places
  <2>6. x \in ThreadType(n) /\ x.pc = p /\ x.prev = None /\ x.then = "none"
        /\ x.for = thread[t].for
    BY <2>3, <2>5, Zenon DEF ThreadType
  <2> HIDE DEF x
  <2>7. QED BY <2>1, <2>2, <2>4, <2>6
<1>3. QED BY <1>1, <1>2

\* The credentials found make a login.
LEMMA LoginMoves ==
  ASSUME SessionTypes, NEW t \in Threads,
         thread' = [thread EXCEPT ![t].pc = "login",
                                  ![t].user = IF stored # NoUser THEN stored ELSE Owner]
  PROVE  /\ thread' \in [Threads -> ThreadType(created)] /\ thread'[t].pc = "login"
         /\ \A u \in Threads : /\ thread'[u].prev = thread[u].prev
                               /\ thread'[u].then = thread[u].then
                               /\ thread'[u].for = thread[u].for
                               /\ u # t => thread'[u] = thread[u]
<1> DEFINE w == IF stored # NoUser THEN stored ELSE Owner
           x == [thread[t] EXCEPT !.pc = "login", !.user = w]
<1>1. w \in AllUsers
  BY DEF SessionTypes, AllUsers
<1>2. thread' = [thread EXCEPT ![t] = x]
  BY Zenon
<1> HIDE DEF w
<1>3. /\ x \in ThreadType(created) /\ x.pc = "login" /\ x.prev = thread[t].prev
      /\ x.then = thread[t].then /\ x.for = thread[t].for
  BY <1>1, Zenon DEF SessionTypes, ThreadType, Places
<1> HIDE DEF x
<1>4. QED BY <1>2, <1>3, Zenon DEF SessionTypes

---------------------------------------------------------------------------
(***************************************************************************)
(* Logins                                                                  *)
(***************************************************************************)

\* A goroutine may drop the login it is making; nothing else starts or ends one.
LEMMA LoginsKept ==
  ASSUME LoginTypes, LoginInv, UNCHANGED <<http, auth>>, active' \in AllUsers,
         \A t \in Threads : thread'[t].for \in {thread[t].for, "none"}
  PROVE  LoginTypes' /\ LoginInv'
BY DEF LoginTypes, LoginInv, OneLogin, Waits, Threads, Main, Logout

\* The result of the login that the main goroutine was making.
LEMMA ResultKeeps ==
  ASSUME LoginTypes, LoginInv, NEW h \in Handlers, http[h].at = "wait", NEW ok \in BOOLEAN,
         Result(h, ok), UNCHANGED <<auth, active>>, \A t \in Threads : thread'[t].for = "none"
  PROVE  LoginTypes' /\ LoginInv'
<1> DEFINE x == [http[h] EXCEPT !.at = "result", !.ok = ok]
<1>1. http[h] \in LoginType
  BY DEF LoginTypes
<1>2. x \in LoginType /\ x.at = "result" /\ x.user = http[h].user
  BY <1>1, Zenon DEF LoginType
<1>3. http' = [http EXCEPT ![h] = x]
  BY Zenon DEF Result
<1> HIDE DEF x
<1>4. LoginTypes'
  BY <1>2, <1>3 DEF LoginTypes
<1>5. \A k \in Handlers : /\ http'[k].at = "idle" <=> http[k].at = "idle"
                          /\ http'[k].user = http[k].user
  BY <1>2, <1>3 DEF LoginTypes
<1>6. OneLogin'
  BY <1>5 DEF LoginInv, OneLogin
<1>7. QED BY <1>4, <1>6 DEF LoginInv, Waits, Threads, Main, Logout

\* handleAddUser lets a login in only when there is none, so its user is authenticatingUser.
LEMMA AddUserKeeps ==
  ASSUME LoginTypes, LoginInv, NEW h \in Handlers, NEW u \in Users, AddUser(h, u)
  PROVE  LoginTypes' /\ LoginInv'
<1>1. CASE auth # NoUser
  <2>1. UNCHANGED <<http, auth, active, thread>>
    BY <1>1 DEF AddUser, LoginTypes
  <2>2. QED BY <2>1, LoginsKept DEF LoginTypes
<1>2. CASE auth = NoUser
  <2> DEFINE x == [http[h] EXCEPT !.at = "send", !.user = u]
  <2>1. http[h] \in LoginType /\ u \in AllUsers /\ u # NoUser
    BY UserAssumption DEF LoginTypes, AllUsers
  <2>2. x \in LoginType /\ x.at = "send" /\ x.user = u
    BY <2>1, Zenon DEF LoginType
  <2>3. http' = [http EXCEPT ![h] = x] /\ auth' = u /\ UNCHANGED <<active, thread>>
    BY <1>2 DEF AddUser
  <2> HIDE DEF x
  <2>4. \A k \in Handlers : http[k].at = "idle"
    BY <1>2 DEF LoginInv, OneLogin
  <2>5. LoginTypes'
    BY <2>1, <2>2, <2>3 DEF LoginTypes
  <2>6. \A k \in Handlers : k # h => http'[k].at = "idle"
    BY <2>3, <2>4 DEF LoginTypes
  <2>7. http'[h].at = "send" /\ http'[h].user = u
    BY <2>2, <2>3 DEF LoginTypes
  <2>8. OneLogin'
    BY <2>1, <2>3, <2>6, <2>7 DEF OneLogin
  <2>9. thread[Main].for = "none" \/ thread[Main].for \notin Handlers
    BY <2>4 DEF LoginInv, Waits
  <2>10. QED BY <2>3, <2>5, <2>8, <2>9 DEF LoginInv, Waits
<1>3. QED BY <1>1, <1>2

\* What Serve does with a login it takes.
LEMMA ServeTakesMoves ==
  ASSUME TypeOK, NEW h \in Handlers, ServeTakes(h)
  PROVE  /\ thread' \in [Threads -> ThreadType(created)]
         /\ thread'[Main].pc = "teardown" /\ thread'[Main].prev = current
         /\ thread'[Main].then = "login" /\ thread'[Main].for = h
         /\ thread'[Logout] = thread[Logout]
<1> DEFINE u == http[h].user
           x == [AtSelect EXCEPT !.pc = "teardown", !.prev = current, !.then = "login",
                                 !.for = h, !.user = u]
<1>1. SessionTypes /\ LoginTypes /\ created \in Nat
  BY Types DEF TypeOK
<1>2. u \in AllUsers
  BY <1>1 DEF LoginTypes, LoginType
<1>3. thread' = [thread EXCEPT ![Main] = x]
  BY DEF ServeTakes
<1> HIDE DEF u
<1>4. /\ x \in ThreadType(created) /\ x.pc = "teardown" /\ x.prev = current
      /\ x.then = "login" /\ x.for = h
  <2>1. current \in 0..created /\ "teardown" \in Places /\ AtSelect \in ThreadType(created)
    BY <1>1, SelectType DEF SessionTypes, Places
  <2>2. QED BY <1>2, <2>1, Zenon DEF ThreadType
<1> HIDE DEF x
<1>5. QED BY <1>1, <1>3, <1>4 DEF SessionTypes, Threads, Main, Logout

LEMMA ServeTakesKeeps ==
  ASSUME TypeOK, LoginInv, NEW h \in Handlers, ServeTakes(h)
  PROVE  LoginTypes' /\ LoginInv'
<1> DEFINE x == [http[h] EXCEPT !.at = "wait"]
<1>1. LoginTypes /\ http[h] \in LoginType
  BY Types DEF LoginTypes
<1>2. x \in LoginType /\ x.at = "wait" /\ x.user = http[h].user
  BY <1>1 DEF LoginType
<1>3. http' = [http EXCEPT ![h] = x] /\ http[h].at = "send" /\ UNCHANGED <<auth, active>>
  BY DEF ServeTakes
<1> HIDE DEF x
<1>4. LoginTypes' /\ http'[h].at = "wait"
  BY <1>1, <1>2, <1>3 DEF LoginTypes
<1>5. \A k \in Handlers : /\ http'[k].at = "idle" <=> http[k].at = "idle"
                          /\ http'[k].user = http[k].user
  BY <1>1, <1>2, <1>3 DEF LoginTypes
<1>6. OneLogin'
  BY <1>3, <1>5 DEF LoginInv, OneLogin
<1>7. QED BY <1>4, <1>6, ServeTakesMoves DEF LoginInv, Waits

\* The handler that has its result was the only one, and nobody is logging in for it any more.
LEMMA AddUserEndsKeeps ==
  ASSUME TypeOK, LoginInv, NEW h \in Handlers, AddUserEnds(h)
  PROVE  LoginTypes' /\ LoginInv'
<1>1. LoginTypes /\ SessionTypes /\ NoLogin \in LoginType /\ NoLogin.at = "idle"
  BY Types DEF NoLogin, LoginType, AllUsers
<1>2. http' = [http EXCEPT ![h] = NoLogin] /\ http[h].at = "result" /\ auth' = NoUser
      /\ UNCHANGED thread
  BY DEF AddUserEnds
<1>3. active' \in AllUsers /\ auth' \in AllUsers
  BY <1>1, <1>2 DEF AddUserEnds, LoginTypes, LoginType, AllUsers
<1>4. LoginTypes'
  BY <1>1, <1>2, <1>3 DEF LoginTypes
<1>5. \A k \in Handlers : http'[k].at = "idle"
  BY <1>1, <1>2 DEF LoginInv, OneLogin, LoginTypes
<1>6. OneLogin'
  BY <1>2, <1>5 DEF OneLogin
<1>7. thread[Main].for = "none"
  <2>1. thread[Main] \in ThreadType(created)
    BY <1>1 DEF SessionTypes, Threads
  <2>2. thread[Main].for \in Handlers \cup {"none"}
    BY <2>1 DEF ThreadType
  <2>3. QED BY <1>2, <2>2 DEF LoginInv, OneLogin, Waits
<1>8. QED BY <1>2, <1>4, <1>6, <1>7 DEF LoginInv, Waits

\* No player: at boot the goroutines are started, and no login was under way on this one.
LEMMA NoPlayerMoves ==
  ASSUME SessionTypes, LoginTypes, NEW t \in Threads, NEW failed \in BOOLEAN,
         NoPlayer(t, failed)
  PROVE  /\ thread' \in [Threads -> ThreadType(created)]
         /\ \A u \in Threads : thread'[u].for \in {thread[u].for, "none"}
         /\ UNCHANGED <<http, auth>> /\ active' \in AllUsers /\ serving' \in BOOLEAN
<1>1. created \in Nat /\ NoUser \in AllUsers /\ "end" \in Places
  BY DEF SessionTypes, AllUsers, Places
<1>2. CASE t = Logout
  <2>1. /\ thread' = [thread EXCEPT ![t] = AtSelect] /\ active' = NoUser
        /\ UNCHANGED <<serving, http, auth>>
    BY <1>2 DEF NoPlayer, Main, Logout
  <2>2. QED BY <1>1, <2>1, SelectType DEF SessionTypes
<1>3. CASE t = Main /\ failed
  <2>1. Go(t, "end") /\ UNCHANGED <<serving, zeroconf>>
    BY <1>3 DEF NoPlayer, Main, Logout
  <2>2. QED BY <1>1, <2>1, GoMoves DEF SessionTypes, LoginTypes, zeroconf
<1>4. CASE t # Logout /\ ~(t = Main /\ failed)
  <2>1. thread' = [u \in Threads |-> AtSelect] /\ serving' = TRUE /\ UNCHANGED zeroconf
    BY <1>4 DEF NoPlayer
  <2>2. QED BY <1>1, <2>1, SelectType DEF LoginTypes, zeroconf
<1>5. QED BY <1>2, <1>3, <1>4

LEMMA GoroutineLogins ==
  ASSUME TypeOK, LoginInv, Control, NEW t \in Threads, Goroutine(t)
  PROVE  LoginTypes' /\ LoginInv'
<1>1. SessionTypes /\ LoginTypes /\ created \in Nat /\ created + 1 \in Nat
      /\ thread[t] \in ThreadType(created)
  BY Types DEF SessionTypes
<1>2. thread[t].for # "none" => t = Main /\ thread[t].for \in Handlers
                                /\ http[thread[t].for].at = "wait" /\ thread[Logout].for = "none"
  BY <1>1 DEF LoginInv, Waits, Threads, ThreadType
<1>3. ASSUME NEW ok \in BOOLEAN, thread[t].for # "none", Result(thread[t].for, ok),
             thread' = [thread EXCEPT ![t] = AtSelect], UNCHANGED <<auth, active>>
      PROVE  LoginTypes' /\ LoginInv'
  <2>1. \A u \in Threads : thread'[u].for = "none"
    BY <1>1, <1>2, <1>3, SelectType DEF SessionTypes, Threads
  <2>2. QED BY <1>1, <1>2, <1>3, <2>1, ResultKeeps
<1>4. CASE TearDown(t)
  <2>1. CASE thread[t].then = "reply" /\ thread[t].for # "none"
    BY <1>3, <1>4, <2>1, Zenon DEF TearDown
  <2>2. CASE ~(thread[t].then = "reply" /\ thread[t].for # "none")
    <3>1. UNCHANGED http
      BY <1>1, <1>4, <2>2, NameAssumption, Zenon DEF TearDown, Result, LoginTypes
    <3>2. thread[t].then # "none"
      BY <1>4, Zenon DEF TearDown, Control
    <3>3. \A u \in Threads : thread'[u].for \in {thread[u].for, "none"}
      BY <1>1, <1>4, <3>2, TearDownMoves DEF SessionTypes
    <3>4. UNCHANGED <<auth, active>>
      BY <1>4, Zenon DEF TearDown
    <3>5. QED BY <1>1, <3>1, <3>3, <3>4, LoginsKept DEF LoginTypes
  <2>3. QED BY <2>1, <2>2
<1>5. CASE ReadCredentials(t)
  <2>1. CASE NoPlayer(t, FALSE)
    BY <1>1, <2>1, NoPlayerMoves, LoginsKept, Zenon
  <2>2. CASE ~NoPlayer(t, FALSE)
    <3>1. thread' = [thread EXCEPT ![t].pc = "login",
                       ![t].user = IF stored # NoUser THEN stored ELSE Owner]
          /\ UNCHANGED zeroconf
      BY <1>5, <2>2, Zenon DEF ReadCredentials
    <3>2. QED BY <1>1, <3>1, LoginMoves, LoginsKept, Zenon DEF zeroconf, LoginTypes
  <2>3. QED BY <2>1, <2>2, Zenon
<1>6. CASE LoginFails(t)
  <2>1. CASE thread[t].for # "none"
    BY <1>3, <1>6, <2>1, Zenon DEF LoginFails
  <2>2. CASE thread[t].for = "none"
    BY <1>1, <1>6, <2>2, NoPlayerMoves, LoginsKept, Zenon DEF LoginFails
  <2>3. QED BY <2>1, <2>2
<1>7. CASE LoginSucceeds(t)
  <2> DEFINE then == IF thread[t].for = "none" THEN "announce" ELSE "reply"
  <2>1. then \in {"announce", "reply", "login", "credentials", "off"}
        /\ Swap(t, created + 1, then) /\ UNCHANGED zeroconf
    BY <1>7 DEF LoginSucceeds
  <2> HIDE DEF then
  <2>2. current \in 0..(created + 1) /\ created + 1 \in 0..(created + 1)
        /\ created <= created + 1
    BY <1>1 DEF SessionTypes
  <2>3. \A u \in Threads : thread'[u].for = thread[u].for
    BY <1>1, <2>1, <2>2, SwapMoves DEF SessionTypes
  <2>4. QED BY <1>1, <2>1, <2>3, LoginsKept DEF zeroconf, LoginTypes
<1>8. CASE Announce(t)
  <2>1. \A u \in Threads : thread'[u].for \in {thread[u].for, "none"}
    BY <1>1, <1>8, SelectType DEF Announce
  <2>2. UNCHANGED <<http, auth>> /\ active' \in AllUsers
    BY <1>1, <1>8 DEF Announce, ThreadType
  <2>3. QED BY <1>1, <2>1, <2>2, LoginsKept
<1>9. QED BY <1>4, <1>5, <1>6, <1>7, <1>8 DEF Goroutine

\* The main goroutine ends, or the logout goroutine goes where the logout sends it.
LEMMA NotifyMoves ==
  ASSUME SessionTypes, NEW s \in Sessions, Notify(s)
  PROVE  /\ thread' \in [Threads -> ThreadType(created)] /\ waiter' \in {"off", "wait", "close"}
         /\ \A u \in Threads : /\ thread'[u].prev = thread[u].prev
                               /\ thread'[u].then = thread[u].then
                               /\ thread'[u].for = thread[u].for
         /\ thread'[Main] = thread[Main]
         /\ \/ thread'[Logout] = thread[Logout]
            \/ thread[Logout].pc = "select" /\ thread'[Logout].pc \in {"clear", "select"}
<1>1. created \in Nat /\ Main \in Threads /\ Logout \in Threads /\ Main # Logout
  BY DEF SessionTypes, Threads, Main, Logout
<1>2. CASE cfg.zeroconf
  <2> DEFINE pc == IF current = s THEN "clear" ELSE "select"
  <2>1. pc \in Places /\ pc \in {"clear", "select"}
    BY DEF Places
  <2>2. thread[Logout].pc = "select" /\ Go(Logout, pc) /\ UNCHANGED waiter
    BY <1>2 DEF Notify
  <2> HIDE DEF pc
  <2>3. QED BY <1>1, <2>1, <2>2, GoMoves DEF SessionTypes
<1>3. CASE ~cfg.zeroconf
  BY <1>1, <1>3 DEF Notify, SessionTypes
<1>4. QED BY <1>2, <1>3

LEMMA ReturnMoves ==
  ASSUME SessionTypes, NEW s \in Sessions, Return(s)
  PROVE  /\ thread' \in [Threads -> ThreadType(created)]
         /\ \A u \in Threads : /\ thread'[u].prev = thread[u].prev
                               /\ thread'[u].then = thread[u].then
                               /\ thread'[u].for = thread[u].for
         /\ thread'[Logout] = thread[Logout]
         /\ thread'[Main] = thread[Main] \/ thread'[Main].pc = "end"
         /\ cfg.zeroconf => thread' = thread
<1>1. created \in Nat /\ Main \in Threads /\ Logout \in Threads /\ Main # Logout
      /\ "end" \in Places
  BY DEF SessionTypes, Threads, Main, Logout, Places
<1>2. CASE cfg.zeroconf
  BY <1>1, <1>2 DEF Return, SessionTypes
<1>3. CASE ~cfg.zeroconf
  <2>1. Go(Main, "end")
    BY <1>3 DEF Return
  <2>2. QED BY <1>1, <1>3, <2>1, GoMoves DEF SessionTypes
<1>4. QED BY <1>2, <1>3

\* A login is let in when there is none, taken by Serve, and answered by the goroutine that
\* made it; no other step touches one.
LEMMA LoginsStep ==
  ASSUME TypeOK, LoginInv, Control, Next
  PROVE  LoginTypes' /\ LoginInv'
<1>1. SessionTypes /\ LoginTypes /\ created \in Nat /\ active \in AllUsers
      /\ Main \in Threads /\ Logout \in Threads
  BY Types DEF SessionTypes, LoginTypes, Threads
<1>2. ASSUME UNCHANGED zeroconf, \A u \in Threads : thread'[u].for = thread[u].for
      PROVE  LoginTypes' /\ LoginInv'
  BY <1>1, <1>2, LoginsKept DEF zeroconf
<1>3. ASSUME UNCHANGED zeroconf, NEW t \in Threads, NEW pc \in Places, Go(t, pc)
      PROVE  LoginTypes' /\ LoginInv'
  BY <1>1, <1>2, <1>3, GoMoves DEF SessionTypes
<1>4. "run" \in Places /\ "stop" \in Places /\ "end" \in Places
  BY DEF Places
<1>5. CASE LoginAlone \/ LogoutStops \/ ServeEnds
  BY <1>1, <1>3, <1>4, <1>5 DEF LoginAlone, LogoutStops, ServeEnds
<1>6. CASE Clear
  <2> DEFINE then == IF thread[Logout].pc = "stop" THEN "off" ELSE "credentials"
  <2>1. then \in {"announce", "reply", "login", "credentials", "off"}
        /\ Swap(Logout, None, then) /\ UNCHANGED zeroconf
    BY <1>6 DEF Clear
  <2> HIDE DEF then
  <2>2. current \in 0..created /\ None \in 0..created /\ created <= created
    BY <1>1 DEF SessionTypes, None
  <2>3. QED BY <1>1, <1>2, <2>1, <2>2, SwapMoves DEF SessionTypes
<1>7. CASE WaiterCancelled \/ WaiterCloses \/ Cancel
  BY <1>2, <1>7 DEF WaiterCancelled, WaiterCloses, Cancel
<1>8. ASSUME NEW s \in Sessions, Run(s) \/ Lose(s) \/ RequestLogout(s)
      PROVE  LoginTypes' /\ LoginInv'
  <2>1. UNCHANGED zeroconf
    BY <1>8 DEF Run, Lose, RequestLogout, LoseNotifies, Connected, ConnectFails, StopSeen
  <2>2. UNCHANGED thread \/ Notify(s) \/ Return(s)
    BY <1>8 DEF Run, Lose, RequestLogout, LoseNotifies, Connected, ConnectFails, StopSeen
  <2>3. QED BY <1>1, <1>2, <2>1, <2>2, NotifyMoves, ReturnMoves
<1>9. ASSUME NEW s \in Sessions, NEW r \in Reqs, TakeDirectly(s, r)
      PROVE  LoginTypes' /\ LoginInv'
  BY <1>2, <1>9 DEF TakeDirectly
<1>10. ASSUME NEW r \in Reqs, Take(r) \/ AnswerWithoutSession(r) \/ DeferredReply(r)
       PROVE  LoginTypes' /\ LoginInv'
  BY <1>2, <1>10 DEF Take, AnswerWithoutSession, DeferredReply
<1>11. CASE Deliver \/ GiveUp \/ ForwarderStops
  BY <1>2, <1>11 DEF Deliver, GiveUp, ForwarderStops
<1>12. QED
  BY <1>1, <1>5, <1>6, <1>7, <1>8, <1>9, <1>10, <1>11, GoroutineLogins, AddUserKeeps,
     ServeTakesKeeps, AddUserEndsKeeps DEF Next, Forwarding

---------------------------------------------------------------------------
(***************************************************************************)
(* Sessions                                                                *)
(***************************************************************************)

\* Goroutines that go on, outside setSession, without a session to close.
LEMMA ControlKept ==
  ASSUME Control, UNCHANGED <<cfg, serving>>,
         \A u \in Threads : /\ thread'[u].prev = thread[u].prev
                            /\ thread'[u].then = thread[u].then,
         \A u \in Threads :
           \/ thread'[u] = thread[u]
           \/ /\ thread'[u].pc \notin {"teardown", "credentials"}
              /\ thread[u].pc # "teardown" \/ ~cfg.zeroconf
              /\ u = Logout => thread[u].pc # "off"
  PROVE  Control'
BY DEF Control, Threads, Main, Logout

\* The loop of a session goes on, or ends and drops that session alone.
LEMMA SessionMoves ==
  ASSUME SessionTypes, Owned, CurrentRuns, Fresh, NEW s \in Sessions, NEW x \in SessionType,
         session[s] # NoSession, session' = [session EXCEPT ![s] = x],
         session[s].closed => x.closed,
         \/ x.run # "over" /\ current' = current
         \/ x.closed /\ current' = (IF current = s THEN None ELSE current),
         UNCHANGED <<cfg, created>>, \A u \in Threads : thread'[u].prev = thread[u].prev
  PROVE  /\ session' \in [Sessions -> SessionType] /\ current' \in 0..created
         /\ Owned' /\ CurrentRuns' /\ Fresh'
<1>1. created \in Nat /\ created <= MaxSessions /\ s <= created /\ MaxSessions \in Nat
  BY BoundAssumption DEF SessionTypes, Fresh, Sessions
<1>2. session' \in [Sessions -> SessionType] /\ current' \in 0..created
  BY <1>1 DEF SessionTypes, None
<1>3. session'[s] = x /\ \A q \in Sessions : q # s => session'[q] = session[q]
  BY DEF SessionTypes
<1>4. Fresh'
  BY <1>1, <1>3 DEF Fresh, Sessions
<1>5. CurrentRuns'
  BY <1>1, <1>2, <1>3 DEF CurrentRuns, Sessions, None, SessionTypes
<1>6. Owned'
  <2> SUFFICES ASSUME cfg.zeroconf, NEW q \in 1..created
               PROVE  session'[q].closed \/ q = current' \/ \E t \in Threads : q = thread'[t].prev
    BY DEF Owned
  <2>1. q \in Sessions
    BY <1>1 DEF Sessions
  <2>2. session[q].closed \/ q = current \/ \E t \in Threads : q = thread[t].prev
    BY DEF Owned
  <2>3. QED BY <1>3, <2>1, <2>2
<1>7. QED BY <1>2, <1>4, <1>5, <1>6

\* A goroutine goes on and the sessions stay as they are.
LEMMA SessionsKept ==
  ASSUME SessionTypes, SessionInv, UNCHANGED <<cfg, serving, created, current, session>>,
         thread' \in [Threads -> ThreadType(created)],
         \A u \in Threads : /\ thread'[u].prev = thread[u].prev
                            /\ thread'[u].then = thread[u].then,
         \A u \in Threads :
           \/ thread'[u] = thread[u]
           \/ /\ thread'[u].pc \notin {"teardown", "credentials"}
              /\ thread[u].pc # "teardown" \/ ~cfg.zeroconf
              /\ u = Logout => thread[u].pc # "off",
         stored' \in AllUsers, cancelled' \in BOOLEAN, waiter' \in {"off", "wait", "close"}
  PROVE  SessionTypes' /\ SessionInv'
<1>1. Control'
  BY ControlKept DEF SessionInv
<1>2. Owned' /\ CurrentRuns' /\ Fresh'
  BY DEF SessionInv, Owned, CurrentRuns, Fresh
<1>3. SessionTypes'
  BY DEF SessionTypes
<1>4. QED BY <1>1, <1>2, <1>3 DEF SessionInv

\* AppPlayer.Run, and the logouts it reports.
LEMMA RunStep ==
  ASSUME TypeOK, SessionInv, NEW s \in Sessions, Run(s) \/ Lose(s) \/ RequestLogout(s)
  PROVE  SessionTypes' /\ SessionInv'
<1>1. /\ SessionTypes /\ session[s] \in SessionType
      /\ UNCHANGED <<cfg, cancelled, stored, serving, created>>
  BY Types DEF SessionTypes, Run, Lose, RequestLogout, LoseNotifies, Connected, ConnectFails,
               StopSeen
<1>2. Over \in SessionType /\ Over.closed = TRUE
  BY DEF Over, SessionType
<1>3. ASSUME Notify(s)
      PROVE  /\ thread' \in [Threads -> ThreadType(created)]
             /\ waiter' \in {"off", "wait", "close"}
             /\ \A u \in Threads : /\ thread'[u].prev = thread[u].prev
                                   /\ thread'[u].then = thread[u].then
             /\ \A u \in Threads :
                  \/ thread'[u] = thread[u]
                  \/ /\ thread'[u].pc \notin {"teardown", "credentials"}
                     /\ thread[u].pc # "teardown" \/ ~cfg.zeroconf
                     /\ u = Logout => thread[u].pc # "off"
  BY <1>1, <1>3, NotifyMoves DEF Threads
<1>4. CASE RequestLogout(s)
  <2>1. Notify(s) /\ UNCHANGED <<current, session>>
    BY <1>4 DEF RequestLogout
  <2>2. stored' \in AllUsers /\ cancelled' \in BOOLEAN
    BY <1>1 DEF SessionTypes
  <2>3. QED BY <1>1, <1>3, <2>1, <2>2, SessionsKept
<1>5. ASSUME NEW x \in SessionType, session[s].run \in {"connect", "serve", "losing"},
             session' = [session EXCEPT ![s] = x],
             x.run # "over", x.closed = session[s].closed, UNCHANGED current,
             Notify(s) \/ UNCHANGED <<thread, waiter>>
      PROVE  SessionTypes' /\ SessionInv'
  <2>1. /\ thread' \in [Threads -> ThreadType(created)]
        /\ waiter' \in {"off", "wait", "close"}
        /\ \A u \in Threads : thread'[u].prev = thread[u].prev
    BY <1>1, <1>3, <1>5 DEF SessionTypes
  <2>2. Control'
    BY <1>1, <1>3, <1>5, ControlKept DEF SessionInv
  <2>3. session[s] # NoSession
    BY <1>5 DEF NoSession
  <2>4. /\ session' \in [Sessions -> SessionType] /\ current' \in 0..created
        /\ Owned' /\ CurrentRuns' /\ Fresh'
    BY <1>1, <1>5, <2>1, <2>3, SessionMoves, Zenon DEF SessionInv
  <2>5. QED BY <1>1, <2>1, <2>2, <2>4 DEF SessionTypes, SessionInv
<1>6. CASE Connected(s) \/ LoseNotifies(s)
  <2> DEFINE x == [session[s] EXCEPT !.run = "serve"]
  <2>1. x \in SessionType /\ x.run # "over" /\ x.closed = session[s].closed
    BY <1>1 DEF SessionType
  <2>2. session' = [session EXCEPT ![s] = x]
    BY <1>6 DEF Connected, LoseNotifies, RunGoes
  <2> HIDE DEF x
  <2>3. QED BY <1>5, <1>6, <2>1, <2>2, Zenon DEF Connected, LoseNotifies
<1>7. CASE Lose(s)
  <2> DEFINE x == [session[s] EXCEPT !.run = "losing", !.lost = TRUE]
  <2>1. x \in SessionType /\ x.run # "over" /\ x.closed = session[s].closed
    BY <1>1, Zenon DEF SessionType
  <2>2. session' = [session EXCEPT ![s] = x]
    BY <1>7, Zenon DEF Lose
  <2> HIDE DEF x
  <2>3. QED BY <1>5, <1>7, <2>1, <2>2, Zenon DEF Lose
<1>8. CASE ConnectFails(s) \/ StopSeen(s)
  <2>1. Return(s) /\ session[s] # NoSession /\ UNCHANGED waiter
    BY <1>8 DEF ConnectFails, StopSeen, NoSession
  <2>2. /\ thread' \in [Threads -> ThreadType(created)]
        /\ \A u \in Threads : /\ thread'[u].prev = thread[u].prev
                              /\ thread'[u].then = thread[u].then
    BY <1>1, <2>1, ReturnMoves
  <2>3. /\ session' \in [Sessions -> SessionType] /\ current' \in 0..created
        /\ Owned' /\ CurrentRuns' /\ Fresh'
    BY <1>1, <1>2, <2>1, <2>2, SessionMoves, Zenon DEF SessionInv, Return
  <2>4. \A u \in Threads :
          \/ thread'[u] = thread[u]
          \/ /\ thread'[u].pc \notin {"teardown", "credentials"}
             /\ thread[u].pc # "teardown" \/ ~cfg.zeroconf
             /\ u = Logout => thread[u].pc # "off"
    BY <1>1, <2>1, ReturnMoves DEF Threads, Main, Logout
  <2>5. Control'
    BY <1>1, <2>2, <2>4, ControlKept DEF SessionInv
  <2>6. QED BY <1>1, <2>1, <2>2, <2>3, <2>5 DEF SessionTypes, SessionInv
<1>9. QED BY <1>4, <1>6, <1>7, <1>8 DEF Run

\* The session that was swapped out is closed by the goroutine that swapped it out.
LEMMA TearDownStep ==
  ASSUME TypeOK, SessionInv, NEW t \in Threads, TearDown(t)
  PROVE  SessionTypes' /\ SessionInv'
<1> DEFINE prev == thread[t].prev
           new == thread[t].new
<1>1. /\ SessionTypes /\ created \in Nat /\ thread[t] \in ThreadType(created)
      /\ prev \in 0..created /\ new \in 0..created /\ created <= MaxSessions
      /\ MaxSessions \in Nat
  BY Types, BoundAssumption DEF SessionTypes, ThreadType
<1>2. /\ UNCHANGED <<cfg, cancelled, stored, serving, current, created, waiter>>
      /\ thread[t].pc = "teardown" /\ thread[t].then # "none"
  BY Zenon DEF TearDown, SessionInv, Control
<1>3. /\ thread' \in [Threads -> ThreadType(created)]
      /\ thread'[t].pc # "teardown" /\ thread'[t].prev = None /\ thread'[t].then = "none"
      /\ thread'[t].pc \in {"select", thread[t].then}
      /\ \A u \in Threads : u # t => thread'[u] = thread[u]
  BY <1>1, <1>2, TearDownMoves DEF SessionTypes
<1>4. \A s \in Sessions : /\ session'[s] \in SessionType
                          /\ session[s].closed \/ s = prev => session'[s].closed
                          /\ session'[s].run \in {session[s].run, "connect"}
                          /\ s > created => session'[s] = session[s]
  <2> SUFFICES ASSUME NEW s \in Sessions
               PROVE  /\ session'[s] \in SessionType
                      /\ session[s].closed \/ s = prev => session'[s].closed
                      /\ session'[s].run \in {session[s].run, "connect"}
                      /\ s > created => session'[s] = session[s]
    OBVIOUS
  <2>1. session[s] \in SessionType
    BY <1>1 DEF SessionTypes
  <2> DEFINE c == session[s].closed \/ s = prev
             r == IF s = new THEN "connect" ELSE session[s].run
             x == [session[s] EXCEPT !.closed = c, !.run = r]
  <2>2. session'[s] = x
    BY Zenon DEF TearDown
  <2>3. /\ c \in BOOLEAN /\ r \in {"none", "connect", "serve", "losing", "over"}
        /\ r \in {session[s].run, "connect"}
    BY <2>1 DEF SessionType
  <2>4. session[s].closed \/ s = prev => c
    OBVIOUS
  <2>5. s > created => c = session[s].closed /\ r = session[s].run
    BY <1>1, <2>1 DEF SessionType
  <2> HIDE DEF c, r
  <2>6. x \in SessionType /\ x.closed = c /\ x.run = r
    BY <2>1, <2>3, Zenon DEF SessionType
  <2>7. s > created => x = session[s]
    BY <2>1, <2>5, Zenon DEF SessionType
  <2> HIDE DEF x
  <2>8. QED BY <2>2, <2>3, <2>4, <2>6, <2>7
<1>5. session' \in [Sessions -> SessionType]
  <2>1. session' = [s \in Sessions |-> session'[s]]
    BY Zenon DEF TearDown
  <2>2. QED BY <1>4, <2>1
<1>6. SessionTypes'
  BY <1>1, <1>2, <1>3, <1>5 DEF SessionTypes
<1>7. Owned'
  <2> SUFFICES ASSUME cfg.zeroconf, NEW q \in 1..created
               PROVE  session'[q].closed \/ q = current \/ \E u \in Threads : q = thread'[u].prev
    BY <1>2 DEF Owned
  <2>1. q \in Sessions
    BY <1>1 DEF Sessions
  <2>2. session[q].closed \/ q = current \/ \E u \in Threads : q = thread[u].prev
    BY DEF SessionInv, Owned
  <2>3. QED BY <1>3, <1>4, <2>1, <2>2
<1>8. CurrentRuns'
  <2>1. current # None => current \in Sessions /\ session[current].run # "over"
    BY <1>1 DEF SessionTypes, Sessions, None, SessionInv, CurrentRuns
  <2>2. QED BY <1>2, <1>4, <2>1 DEF CurrentRuns
<1>9. Fresh'
  BY <1>2, <1>4 DEF SessionInv, Fresh
<1>10. Control'
  BY <1>1, <1>2, <1>3 DEF SessionInv, Control, Threads, Main, Logout
<1>11. QED BY <1>6, <1>7, <1>8, <1>9, <1>10 DEF SessionInv

\* Goroutines go back to their select without a session to close, when they are started or
\* when what they were doing is over.
LEMMA BackToSelect ==
  ASSUME SessionTypes, SessionInv, UNCHANGED <<cfg, created, current, session>>,
         serving' \in BOOLEAN, serving => serving', ~serving' => thread'[Logout] = thread[Logout],
         \A u \in Threads : thread'[u] = AtSelect \/ thread'[u] = thread[u],
         thread' = [u \in Threads |-> thread'[u]],
         \A u \in Threads : thread'[u] # thread[u] => thread[u].pc # "teardown",
         thread'[Main] = thread[Main] => serving' = serving,
         UNCHANGED <<stored, cancelled, waiter>>
  PROVE  SessionTypes' /\ SessionInv'
<1>1. created \in Nat /\ Main \in Threads /\ Logout \in Threads /\ Main # Logout
  BY DEF SessionTypes, Threads, Main, Logout
<1>2. thread' \in [Threads -> ThreadType(created)]
  BY <1>1, SelectType DEF SessionTypes
<1>3. SessionTypes'
  BY <1>2 DEF SessionTypes
<1>4. cfg.zeroconf => \A u \in Threads : thread'[u].prev = thread[u].prev
  BY <1>1, SelectType DEF SessionInv, Control
<1>5. Owned' /\ CurrentRuns' /\ Fresh'
  BY <1>4 DEF SessionInv, Owned, CurrentRuns, Fresh
<1>6. Control'
  BY <1>1, SelectType DEF SessionInv, Control, Threads
<1>7. QED BY <1>3, <1>5, <1>6 DEF SessionInv

\* A goroutine that holds no session swaps one in, or none, and holds the one it replaced.
LEMMA SwapKeeps ==
  ASSUME SessionTypes, SessionInv, NEW t \in Threads, NEW new \in Nat,
         cfg.zeroconf \/ new = None,
         NEW then \in {"announce", "reply", "login", "credentials", "off"},
         thread[t].pc # "teardown", t = Main => then # "credentials",
         t = Logout => thread[t].pc # "off", UNCHANGED <<cfg, serving, session>>,
         \/ new = None /\ created' = created
         \/ new = created + 1 /\ created' = new /\ new <= MaxSessions,
         current' = new, thread' \in [Threads -> ThreadType(created')],
         thread'[t].pc = "teardown", thread'[t].prev = current, thread'[t].then = then,
         \A u \in Threads : u # t => thread'[u] = thread[u],
         stored' \in AllUsers, UNCHANGED <<cancelled, waiter>>
  PROVE  SessionTypes' /\ SessionInv'
<1>1. created \in Nat /\ created <= MaxSessions /\ MaxSessions \in Nat /\ current \in 0..created
  BY BoundAssumption DEF SessionTypes
<1>2. created' \in 0..MaxSessions /\ current' \in 0..created'
  BY <1>1 DEF None
<1>3. SessionTypes'
  BY <1>2 DEF SessionTypes
<1>4. Owned'
  <2> SUFFICES ASSUME cfg.zeroconf, NEW q \in 1..created'
               PROVE  session[q].closed \/ q = new \/ \E u \in Threads : q = thread'[u].prev
    BY DEF Owned
  <2>1. q # new => q \in 1..created
    BY <1>1
  <2>2. CASE q \in 1..created
    <3>1. session[q].closed \/ q = current \/ \E u \in Threads : q = thread[u].prev
      BY <2>2 DEF SessionInv, Owned
    <3>2. thread[t].prev # q
      BY <2>2 DEF SessionInv, Control, None
    <3>3. QED BY <3>1, <3>2
  <2>3. QED BY <2>1, <2>2
<1>5. CurrentRuns'
  <2>1. new # None => new \in Sessions /\ new > created
    BY <1>1 DEF Sessions, None
  <2>2. new # None => session[new].run # "over"
    BY <2>1 DEF SessionInv, Fresh, NoSession
  <2>3. QED BY <2>2 DEF CurrentRuns
<1>6. Fresh'
  BY <1>1 DEF SessionInv, Fresh, Sessions, None
<1>7. Control'
  BY DEF SessionInv, Control, Threads, Main, Logout
<1>8. QED BY <1>3, <1>4, <1>5, <1>6, <1>7 DEF SessionInv

\* The main and the logout goroutine.
LEMMA GoroutineStep ==
  ASSUME TypeOK, SessionInv, NEW t \in Threads, Goroutine(t)
  PROVE  SessionTypes' /\ SessionInv'
<1>1. /\ SessionTypes /\ LoginTypes /\ created \in Nat /\ thread[t] \in ThreadType(created)
      /\ thread[t].user \in AllUsers
      /\ Main \in Threads /\ Logout \in Threads /\ Main # Logout
  BY Types DEF SessionTypes, Threads, Main, Logout, ThreadType
<1>2. AtSelect.pc = "select" /\ \A u \in Threads : thread[u] = AtSelect => thread[u].pc = "select"
  BY <1>1, SelectType
<1>3. ASSUME thread' = [thread EXCEPT ![t] = AtSelect], thread[t].pc \in {"credentials", "login"},
             UNCHANGED <<cfg, created, current, session, serving, stored, cancelled, waiter>>
      PROVE  SessionTypes' /\ SessionInv'
  <2>1. \A u \in Threads : u # t => thread'[u] = thread[u]
    BY <1>1, <1>3 DEF SessionTypes
  <2>2. thread'[t] = AtSelect /\ thread' = [u \in Threads |-> thread'[u]]
    BY <1>1, <1>3, Zenon DEF SessionTypes
  <2>3. ~serving => t # Logout
    BY <1>3 DEF SessionInv, Control
  <2>4. \A u \in Threads : thread'[u] # thread[u] => thread[u].pc # "teardown"
    BY <1>3, <2>1
  <2>5. QED BY <1>1, <1>3, <2>1, <2>2, <2>3, <2>4, BackToSelect DEF SessionTypes
<1>4. ASSUME NEW failed \in BOOLEAN, NoPlayer(t, failed),
             thread[t].pc \in {"credentials", "login"},
             thread[t].pc = "login" => failed,
             UNCHANGED <<cfg, created, current, session, stored, cancelled, waiter>>
      PROVE  SessionTypes' /\ SessionInv'
  <2>1. CASE t = Logout
    BY <1>3, <1>4, <2>1 DEF NoPlayer, Main, Logout
  <2>2. CASE t = Main /\ failed
    <3>1. Go(Main, "end") /\ UNCHANGED serving /\ "end" \in Places
      BY <1>4, <2>2 DEF NoPlayer, Main, Logout, Places
    <3>2. /\ thread' \in [Threads -> ThreadType(created)] /\ thread'[Main].pc = "end"
          /\ \A u \in Threads : /\ thread'[u].prev = thread[u].prev
                                /\ thread'[u].then = thread[u].then
                                /\ u # Main => thread'[u] = thread[u]
      BY <1>1, <3>1, GoMoves DEF SessionTypes
    <3>3. thread[Main].pc # "teardown"
      BY <1>4, <2>2
    <3>4. stored' \in AllUsers /\ cancelled' \in BOOLEAN /\ waiter' \in {"off", "wait", "close"}
      BY <1>1, <1>4 DEF SessionTypes
    <3>5. QED BY <1>1, <1>4, <3>1, <3>2, <3>3, <3>4, SessionsKept
  <2>3. CASE t # Logout /\ ~failed
    <3>1. t = Main /\ thread[Main].pc = "credentials"
      BY <1>4, <2>3 DEF Threads
    <3>2. thread' = [u \in Threads |-> AtSelect] /\ serving' = TRUE
      BY <1>4, <2>3 DEF NoPlayer
    <3>3. thread[Logout].pc = "off"
      BY <3>1 DEF SessionInv, Control
    <3>4. \A u \in Threads : thread[u].pc # "teardown"
      BY <3>1, <3>3 DEF Threads
    <3>5. thread'[Main] # thread[Main]
      BY <1>1, <1>2, <3>1, <3>2
    <3>6. QED BY <1>1, <1>4, <3>2, <3>4, <3>5, BackToSelect, Zenon
  <2>4. QED BY <2>1, <2>2, <2>3 DEF Threads
<1>5. CASE ReadCredentials(t)
  <2>1. UNCHANGED <<cfg, cancelled, stored, current, session, created, waiter>>
        /\ thread[t].pc = "credentials"
    BY <1>5 DEF ReadCredentials
  <2>2. CASE NoPlayer(t, FALSE)
    BY <1>4, <2>1, <2>2, Zenon
  <2>3. CASE ~NoPlayer(t, FALSE)
    <3>1. thread' = [thread EXCEPT ![t].pc = "login",
                       ![t].user = IF stored # NoUser THEN stored ELSE Owner]
          /\ UNCHANGED serving
      BY <1>5, <2>3, Zenon DEF ReadCredentials
    <3>2. /\ thread' \in [Threads -> ThreadType(created)] /\ thread'[t].pc = "login"
          /\ \A u \in Threads : /\ thread'[u].prev = thread[u].prev
                                /\ thread'[u].then = thread[u].then
                                /\ u # t => thread'[u] = thread[u]
      BY <1>1, <3>1, LoginMoves, Zenon
    <3>3. stored' \in AllUsers /\ cancelled' \in BOOLEAN /\ waiter' \in {"off", "wait", "close"}
      BY <1>1, <2>1 DEF SessionTypes
    <3>4. QED BY <1>1, <2>1, <3>1, <3>2, <3>3, SessionsKept
  <2>4. QED BY <2>2, <2>3, Zenon
<1>6. CASE LoginFails(t)
  <2>1. UNCHANGED <<cfg, cancelled, stored, current, session, created, waiter>>
        /\ thread[t].pc = "login"
    BY <1>6 DEF LoginFails
  <2>2. CASE thread[t].for # "none"
    BY <1>3, <1>6, <2>1, <2>2 DEF LoginFails
  <2>3. CASE thread[t].for = "none"
    BY <1>4, <1>6, <2>1, <2>3, Zenon DEF LoginFails
  <2>4. QED BY <2>2, <2>3
<1>7. CASE LoginSucceeds(t)
  <2> DEFINE then == IF thread[t].for = "none" THEN "announce" ELSE "reply"
  <2>1. /\ then \in {"announce", "reply"} /\ Swap(t, created + 1, then)
        /\ cfg.zeroconf /\ thread[t].pc = "login" /\ created < MaxSessions
        /\ created' = created + 1 /\ stored' \in {thread[t].user, stored}
        /\ UNCHANGED <<cfg, cancelled, serving, session, waiter>>
    BY <1>7 DEF LoginSucceeds
  <2> HIDE DEF then
  <2>2. /\ created + 1 \in Nat /\ current \in 0..(created + 1)
        /\ created + 1 \in 0..(created + 1) /\ created <= created + 1
        /\ created + 1 <= MaxSessions /\ stored' \in AllUsers
    BY <1>1, <2>1, BoundAssumption DEF SessionTypes
  <2>3. /\ thread' \in [Threads -> ThreadType(created + 1)]
        /\ thread'[t].pc = "teardown" /\ thread'[t].prev = current /\ thread'[t].then = then
        /\ \A u \in Threads : u # t => thread'[u] = thread[u]
    BY <1>1, <2>1, <2>2, SwapMoves DEF SessionTypes
  <2>4. current' = created + 1
    BY <2>1 DEF Swap
  <2>5. QED BY <1>1, <2>1, <2>2, <2>3, <2>4, SwapKeeps
<1>8. CASE Announce(t)
  <2>1. /\ UNCHANGED <<cfg, cancelled, stored, current, session, created, waiter>>
        /\ thread[t].pc = "announce" /\ serving' = TRUE
        /\ thread' = [u \in Threads |-> IF u = t \/ ~serving THEN AtSelect ELSE thread[u]]
    BY <1>8 DEF Announce
  <2>2. ~serving => t = Main /\ thread[Logout].pc = "off"
    BY <1>1, <2>1 DEF SessionInv, Control, Threads
  <2>3. \A u \in Threads : thread'[u] = AtSelect \/ thread'[u] = thread[u]
    BY <2>1
  <2>4. \A u \in Threads : thread'[u] # thread[u] => thread[u].pc # "teardown"
    BY <2>1, <2>2 DEF Threads
  <2>5. thread' = [u \in Threads |-> thread'[u]]
    BY <2>1
  <2>6. thread'[Main] = thread[Main] => serving = TRUE
    BY <1>1, <1>2, <2>1, <2>2 DEF SessionTypes
  <2>7. QED BY <1>1, <2>1, <2>3, <2>4, <2>5, <2>6, BackToSelect, Zenon
<1>9. QED BY <1>5, <1>6, <1>7, <1>8, TearDownStep DEF Goroutine

\* Every session that was created is current, closed or about to be, whoever swaps it.
LEMMA SessionsStep ==
  ASSUME TypeOK, SessionInv, Next
  PROVE  SessionTypes' /\ SessionInv'
<1>1. /\ SessionTypes /\ created \in Nat /\ current \in 0..created /\ None \in 0..created
      /\ stored \in AllUsers /\ cancelled \in BOOLEAN /\ waiter \in {"off", "wait", "close"}
      /\ Main \in Threads /\ Logout \in Threads /\ Main # Logout
  BY Types DEF SessionTypes, Threads, Main, Logout, None
<1>2. ASSUME UNCHANGED <<cfg, stored, serving, current, session, created, thread>>,
             cancelled' \in BOOLEAN, waiter' \in {"off", "wait", "close"}
      PROVE  SessionTypes' /\ SessionInv'
  BY <1>1, <1>2, SessionsKept DEF SessionTypes
<1>3. ASSUME NEW t \in Threads, NEW pc \in {"stop", "end"}, Go(t, pc), thread[t].pc = "select",
             UNCHANGED <<cfg, cancelled, stored, serving, current, session, created, waiter>>
      PROVE  SessionTypes' /\ SessionInv'
  <2>1. pc \in Places
    BY DEF Places
  <2>2. /\ thread' \in [Threads -> ThreadType(created)] /\ thread'[t].pc = pc
        /\ \A u \in Threads : /\ thread'[u].prev = thread[u].prev
                              /\ thread'[u].then = thread[u].then
                              /\ u # t => thread'[u] = thread[u]
    BY <1>1, <1>3, <2>1, GoMoves DEF SessionTypes
  <2>3. QED BY <1>1, <1>3, <2>2, SessionsKept
<1>4. CASE LoginAlone
  <2>1. /\ ~cfg.zeroconf /\ thread[Main].pc = "login" /\ created' = 1 /\ serving' = TRUE
        /\ stored' = thread[Main].user /\ waiter' = "wait" /\ Go(Main, "run")
        /\ session' = [session EXCEPT ![1].run = "connect"]
        /\ UNCHANGED <<cfg, cancelled, current>>
    BY <1>4 DEF LoginAlone
  <2>2. created <= 1 /\ 1 \in Sessions /\ "run" \in Places /\ 1 \in Nat /\ 1 \in 0..MaxSessions
    BY <2>1, BoundAssumption DEF SessionInv, Fresh, Sessions, Places
  <2>3. thread \in [Threads -> ThreadType(1)] /\ stored' \in AllUsers
    <3>1. 0..created \subseteq 0..1
      BY <1>1, <2>2
    <3>2. QED BY <1>1, <2>1, <3>1 DEF SessionTypes, ThreadType
  <2>4. /\ thread' \in [Threads -> ThreadType(1)] /\ thread'[Main].pc = "run"
        /\ \A u \in Threads : /\ thread'[u].then = thread[u].then
                              /\ u # Main => thread'[u] = thread[u]
    BY <1>1, <2>1, <2>2, <2>3, GoMoves
  <2> DEFINE x == [session[1] EXCEPT !.run = "connect"]
  <2>5. x \in SessionType /\ x.run = "connect"
    BY <1>1, <2>2 DEF SessionTypes, SessionType
  <2>6. session' = [session EXCEPT ![1] = x]
    BY <2>1
  <2> HIDE DEF x
  <2>7. current' \in 0..1
    BY <1>1, <2>1, <2>2
  <2>8. SessionTypes'
    BY <1>1, <2>1, <2>2, <2>3, <2>4, <2>5, <2>6, <2>7 DEF SessionTypes
  <2>9. Owned'
    BY <2>1 DEF Owned
  <2>10. CurrentRuns'
    BY <1>1, <2>2, <2>5, <2>6, <2>7 DEF CurrentRuns, SessionTypes, None
  <2>11. Fresh'
    <3>1. \A s \in Sessions : s > 1 => session'[s] = session[s] /\ s > created
      BY <1>1, <2>2, <2>6 DEF SessionTypes, Sessions
    <3>2. QED BY <2>1, <3>1 DEF SessionInv, Fresh
  <2>12. Control'
    BY <1>1, <2>1, <2>4 DEF SessionInv, Control, Threads
  <2>13. QED BY <2>8, <2>9, <2>10, <2>11, <2>12 DEF SessionInv
<1>5. CASE Clear
  <2> DEFINE then == IF thread[Logout].pc = "stop" THEN "off" ELSE "credentials"
  <2>1. /\ then \in {"off", "credentials"} /\ Swap(Logout, None, then)
        /\ thread[Logout].pc \in {"clear", "stop"}
        /\ UNCHANGED <<cfg, cancelled, stored, serving, session, created, waiter>>
    BY <1>5 DEF Clear
  <2> HIDE DEF then
  <2>2. /\ thread' \in [Threads -> ThreadType(created)]
        /\ thread'[Logout].pc = "teardown" /\ thread'[Logout].prev = current
        /\ thread'[Logout].then = then
        /\ \A u \in Threads : u # Logout => thread'[u] = thread[u]
    BY <1>1, <2>1, SwapMoves DEF SessionTypes
  <2>3. current' = None /\ None \in Nat
    BY <2>1 DEF Swap, None
  <2>4. QED BY <1>1, <2>1, <2>2, <2>3, SwapKeeps
<1>6. ASSUME NEW h \in Handlers, ServeTakes(h) PROVE SessionTypes' /\ SessionInv'
  <2>1. /\ thread[Main].pc = "select" /\ current' = None /\ None \in Nat
        /\ UNCHANGED <<cfg, cancelled, stored, serving, session, created, waiter>>
    BY <1>6 DEF ServeTakes, None
  <2>2. \A u \in Threads : u # Main => thread'[u] = thread[u]
    BY <1>6, ServeTakesMoves DEF Threads
  <2>3. QED BY <1>1, <1>6, <2>1, <2>2, ServeTakesMoves, SwapKeeps
<1>7. CASE WaiterCloses
  <2>1. /\ session' = [session EXCEPT ![created].closed = TRUE] /\ waiter' = "off"
        /\ UNCHANGED <<cfg, cancelled, stored, serving, current, created, thread>>
    BY <1>7 DEF WaiterCloses
  <2>2. \A s \in Sessions : /\ session'[s] \in SessionType
                            /\ session[s].closed => session'[s].closed
                            /\ session'[s].run = session[s].run
                            /\ s # created => session'[s] = session[s]
    BY <1>1, <2>1, Zenon DEF SessionTypes, SessionType
  <2>3. session' \in [Sessions -> SessionType]
    <3>1. session' = [s \in Sessions |-> session'[s]]
      BY <1>1, <2>1, Zenon DEF SessionTypes
    <3>2. QED BY <2>2, <3>1
  <2>4. SessionTypes'
    BY <1>1, <2>1, <2>3 DEF SessionTypes
  <2>5. 1..created \subseteq Sessions /\ \A s \in Sessions : s > created => s # created
    BY <1>1, BoundAssumption DEF Sessions, SessionTypes
  <2>6. Owned' /\ Fresh'
    BY <2>1, <2>2, <2>5 DEF SessionInv, Owned, Fresh
  <2>7. current # None => current \in Sessions
    BY <1>1, <2>5 DEF None
  <2>8. CurrentRuns'
    BY <2>1, <2>2, <2>7 DEF SessionInv, CurrentRuns
  <2>9. Control'
    BY <2>1 DEF SessionInv, Control
  <2>10. QED BY <2>4, <2>6, <2>8, <2>9 DEF SessionInv
<1>8. CASE LogoutStops \/ ServeEnds
  BY <1>1, <1>3, <1>8 DEF LogoutStops, ServeEnds
<1>9. CASE WaiterCancelled \/ Cancel
  BY <1>1, <1>2, <1>9, Zenon DEF WaiterCancelled, Cancel
<1>10. ASSUME NEW s \in Sessions, NEW r \in Reqs, TakeDirectly(s, r)
       PROVE  SessionTypes' /\ SessionInv'
  BY <1>1, <1>2, <1>10 DEF TakeDirectly
<1>11. ASSUME NEW r \in Reqs, Take(r) \/ AnswerWithoutSession(r) \/ DeferredReply(r)
       PROVE  SessionTypes' /\ SessionInv'
  BY <1>1, <1>2, <1>11 DEF Take, AnswerWithoutSession, DeferredReply
<1>12. CASE Deliver \/ GiveUp \/ ForwarderStops
  BY <1>1, <1>2, <1>12 DEF Deliver, GiveUp, ForwarderStops
<1>13. ASSUME NEW h \in Handlers, NEW u \in Users, AddUser(h, u)
       PROVE  SessionTypes' /\ SessionInv'
  BY <1>1, <1>2, <1>13 DEF AddUser
<1>14. ASSUME NEW h \in Handlers, AddUserEnds(h) PROVE SessionTypes' /\ SessionInv'
  BY <1>1, <1>2, <1>14 DEF AddUserEnds
<1>15. QED
  BY <1>4, <1>5, <1>6, <1>7, <1>8, <1>9, <1>10, <1>11, <1>12, <1>13, <1>14, GoroutineStep, RunStep
  DEF Next, Forwarding

---------------------------------------------------------------------------
(***************************************************************************)
(* The theorem                                                             *)
(***************************************************************************)

LEMMA InitInv ==
  ASSUME Init
  PROVE  IInv
<1>1. /\ cfg \in Configs /\ stored \in AllUsers /\ NoUser \in AllUsers
      /\ created = 0 /\ 0 \in Nat /\ 0 \in 0..MaxSessions /\ 0..0 = {0} /\ Main # Logout
      /\ Main \in Threads /\ Logout \in Threads
  BY ConfigAssumption, BoundAssumption DEF Init, AllUsers, Main, Logout, Threads
<1>2. \A t \in Threads : /\ thread[t] \in ThreadType(0)
                         /\ thread[t].prev = None /\ thread[t].then = "none"
                         /\ thread[t].for = "none"
                         /\ thread[t].pc = IF t = Main THEN "credentials" ELSE "off"
  <2> SUFFICES ASSUME NEW t \in Threads
               PROVE  /\ thread[t] \in ThreadType(0)
                      /\ thread[t].prev = None /\ thread[t].then = "none"
                      /\ thread[t].for = "none"
                      /\ thread[t].pc = IF t = Main THEN "credentials" ELSE "off"
    OBVIOUS
  <2> DEFINE p == IF t = Main THEN "credentials" ELSE "off"
             x == [AtSelect EXCEPT !.pc = p]
  <2>1. thread[t] = x /\ p \in Places
    BY DEF Init, Places
  <2> HIDE DEF p
  <2>2. /\ x \in ThreadType(0) /\ x.pc = p /\ x.prev = None /\ x.then = "none"
        /\ x.for = "none"
    BY <1>1, <2>1, SelectType DEF ThreadType
  <2>3. QED BY <2>1, <2>2 DEF p
<1>3. thread \in [Threads -> ThreadType(created)]
  <2>1. thread = [t \in Threads |-> thread[t]]
    BY DEF Init
  <2>2. QED BY <1>1, <1>2, <2>1
<1>4. NoSession \in SessionType /\ Idle \in ForwarderType /\ NoLogin \in LoginType
  BY <1>1 DEF NoSession, SessionType, Idle, ForwarderType, NoLogin, LoginType, None
<1>5. SessionTypes /\ RequestTypes /\ LoginTypes
  BY <1>1, <1>3, <1>4, Zenon DEF Init, SessionTypes, RequestTypes, LoginTypes, RequestType, None
<1>6. SessionInv
  BY <1>1, <1>2 DEF Init, SessionInv, Owned, CurrentRuns, Fresh, Control
<1>7. RequestInv
  BY DEF Init, RequestInv, AnsweredOnce, Forwards, Idle
<1>8. LoginInv
  BY <1>1, <1>2 DEF Init, LoginInv, OneLogin, Waits, NoLogin
<1>9. QED BY <1>5, <1>6, <1>7, <1>8, Types DEF IInv

LEMMA NextInv ==
  ASSUME IInv, [Next]_vars
  PROVE  IInv'
<1>1. CASE Next
  BY <1>1, SessionsStep, RequestsStep, LoginsStep, Types DEF IInv, SessionInv
<1>2. CASE UNCHANGED vars
  BY <1>2 DEF IInv, vars, api, zeroconf, TypeOK, SessionInv, Owned, CurrentRuns, Fresh, Control,
              RequestInv, AnsweredOnce, Forwards, LoginInv, OneLogin, Waits
<1>3. QED BY <1>1, <1>2

\* Whatever the users, the logins, the requests and the number of sessions: setSession, the
\* end of Run and handleAddUser keep every session owned and none current that is over,
\* answer a request at most once and let in one login at a time.
THEOREM SessionsAreConsistent == Spec => []Consistent
<1>1. Init => IInv
  BY InitInv
<1>2. IInv /\ [Next]_vars => IInv'
  BY NextInv
<1>3. IInv => Consistent
  BY DEF IInv, SessionInv, RequestInv, LoginInv, Consistent
<1>4. QED BY <1>1, <1>2, <1>3, PTL DEF Spec
=============================================================================
