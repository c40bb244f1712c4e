------------------------------ MODULE Sessions ------------------------------
(***************************************************************************)
(* The daemon around the player: which session is current, who replaces    *)
(* it, and who answers the API meanwhile (daemon/app.go from App.Run on,   *)
(* the start and the end of AppPlayer.Run and AppPlayer.Close in           *)
(* daemon/player.go, and zeroconf/zeroconf.go).                            *)
(*                                                                         *)
(* With zeroconf enabled four kinds of goroutines meet here: the main one, *)
(* which boots and then serves logins one at a time; the logout one, which *)
(* rebuilds a session that was lost; the forwarder of API requests; and    *)
(* one per session, in AppPlayer.Run.  HTTP handlers of the login server   *)
(* hand logins to the main goroutine.  Without zeroconf the main goroutine *)
(* is in Run itself, and a waiter closes the one session there is.         *)
(*                                                                         *)
(* sessionMu is held for one read or one swap at a time, so each critical  *)
(* section is one action.  A session is a number, in order of creation.    *)
(***************************************************************************)
EXTENDS Integers

CONSTANTS
  Users,         \* who may log in
  Owner,         \* the user of cfg.Credentials, when its type is not zeroconf
  NoUser,        \* ""
  Handlers,      \* addUser requests to the login server
  Reqs,          \* requests to the API
  Configs,       \* the settings tried: zeroconf, type, persist
  MaxSessions    \* sessions created in a behaviour (a bound)

AllUsers == Users \cup {Owner, NoUser}

ASSUME UserAssumption == NoUser \notin Users
ASSUME NameAssumption == "none" \notin Handlers \cup Reqs
ASSUME BoundAssumption == MaxSessions \in Nat \ {0}
ASSUME ConfigAssumption == \A c \in Configs : c.zeroconf \in BOOLEAN /\ c.stored \in AllUsers

VARIABLES
  cfg,        \* the settings that choose the path, and never change
  cancelled,  \* whether the context of App.Run is done
  stored,     \* the user app.state.Credentials are of
  serving,    \* whether the goroutines of withAppPlayer have been started
  current,    \* current: a session, or None
  session,    \* what there is to know of each session
  created,    \* how many there are
  thread,     \* the main and the logout goroutine
  waiter,     \* the goroutine that closes the session without zeroconf
  forwarder,  \* the goroutine that reads app.server.Receive()
  request,    \* the requests to the API
  http,       \* the addUser requests
  auth,       \* authenticatingUser
  active      \* currentUser

zeroconf == <<http, auth, active>>
api == <<forwarder, request>>
vars == <<cfg, cancelled, stored, serving, current, session, created, thread,
          waiter, api, zeroconf>>

None == 0
Sessions == 1..MaxSessions
Main == "main"
Logout == "logout"
Threads == {Main, Logout}
Up == thread[Main].pc # "end"

NoSession == [run |-> "none", lost |-> FALSE, closed |-> FALSE]
Over == [run |-> "over", lost |-> FALSE, closed |-> TRUE]
AtSelect == [pc |-> "select", prev |-> None, new |-> None, user |-> NoUser,
             then |-> "none", for |-> "none"]
NoLogin == [at |-> "idle", user |-> NoUser, ok |-> FALSE]
Idle == [at |-> "select", req |-> "none", to |-> None]

Init ==
  /\ cfg \in Configs
  /\ stored = cfg.stored
  /\ cancelled = FALSE /\ serving = FALSE
  /\ current = None
  /\ session = [s \in Sessions |-> NoSession] /\ created = 0
  /\ thread = [t \in Threads |->
       [AtSelect EXCEPT !.pc = IF t = Main THEN "credentials" ELSE "off"]]
  /\ waiter = "off"
  /\ forwarder = Idle
  /\ request = [r \in Reqs |-> [at |-> "client", replies |-> 0]]
  /\ http = [h \in Handlers |-> NoLogin]
  /\ auth = NoUser /\ active = NoUser

Go(t, pc) == thread' = [thread EXCEPT ![t].pc = pc]

---------------------------------------------------------------------------
(***************************************************************************)
(* setSession                                                              *)
(***************************************************************************)

(* The swap, under sessionMu.                                              *)
Swap(t, new, then) ==
  /\ current' = new
  /\ thread' = [thread EXCEPT ![t].pc = "teardown", ![t].prev = current,
                              ![t].new = new, ![t].then = then]

(* What follows the swap: the result of the login an addUser request made. *)
Result(h, ok) == http' = [http EXCEPT ![h].at = "result", ![h].ok = ok]

(* The rest: the session replaced is retired and closed, the new one runs. *)
(* A handler then returns to Serve, which answers the addUser request.     *)
TearDown(t) ==
  LET prev == thread[t].prev
      new == thread[t].new IN
  /\ thread[t].pc = "teardown"
  /\ session' = [s \in Sessions |->
       [session[s] EXCEPT !.closed = @ \/ s = prev, !.run = IF s = new THEN "connect" ELSE @]]
  /\ IF thread[t].then = "reply"
       THEN /\ Result(thread[t].for, TRUE)
            /\ thread' = [thread EXCEPT ![t] = AtSelect]
       ELSE /\ thread' = [thread EXCEPT ![t].pc = thread[t].then, ![t].prev = None,
                                        ![t].new = None, ![t].then = "none"]
            /\ UNCHANGED http
  /\ UNCHANGED <<cfg, cancelled, stored, serving, current, created, waiter, api, auth, active>>

---------------------------------------------------------------------------
(***************************************************************************)
(* Logging in                                                              *)
(***************************************************************************)

(* appPlayerFunc returned no player: the logout goroutine forgets the      *)
(* user; at boot the daemon fails on an error and serves without a session *)
(* otherwise.                                                              *)
NoPlayer(t, failed) ==
  CASE t = Logout ->
         /\ thread' = [thread EXCEPT ![t] = AtSelect]
         /\ active' = NoUser
         /\ UNCHANGED <<serving, http, auth>>
    [] t = Main /\ failed ->
         /\ Go(t, "end")
         /\ UNCHANGED <<serving, zeroconf>>
    [] OTHER ->
         /\ thread' = [u \in Threads |-> AtSelect]
         /\ serving' = TRUE
         /\ UNCHANGED zeroconf

(* appPlayerFunc reads the credentials: runZeroconf only those persisted,  *)
(* withCredentials those of the configuration when none are.               *)
ReadCredentials(t) ==
  /\ thread[t].pc = "credentials"
  /\ IF cfg.type = "zeroconf" /\ ~(cfg.persist /\ stored # NoUser)
       THEN NoPlayer(t, FALSE)
       ELSE /\ thread' = [thread EXCEPT ![t].pc = "login",
                            ![t].user = IF stored # NoUser THEN stored ELSE Owner]
            /\ UNCHANGED <<serving, zeroconf>>
  /\ UNCHANGED <<cfg, cancelled, stored, current, session, created, waiter, api>>


(* newAppPlayer fails: a login for an addUser request is refused.          *)
LoginFails(t) ==
  /\ thread[t].pc = "login"
  /\ IF thread[t].for # "none"
       THEN /\ Result(thread[t].for, FALSE)
            /\ thread' = [thread EXCEPT ![t] = AtSelect]
            /\ UNCHANGED <<serving, auth, active>>
       ELSE NoPlayer(t, TRUE)
  /\ UNCHANGED <<cfg, cancelled, stored, current, session, created, waiter, api>>

(* newAppPlayer returns a player.  Credentials of the configuration are    *)
(* stored with the first login; those of an addUser request if they are to *)
(* be persisted.  setSession then swaps the player in; an addUser request  *)
(* is answered after it, and otherwise the user announced.                 *)
LoginSucceeds(t) ==
  /\ cfg.zeroconf /\ thread[t].pc = "login" /\ created < MaxSessions
  /\ created' = created + 1
  /\ stored' = IF thread[t].for = "none" \/ cfg.persist THEN thread[t].user ELSE stored
  /\ Swap(t, created + 1, IF thread[t].for = "none" THEN "announce" ELSE "reply")
  /\ UNCHANGED <<cfg, cancelled, serving, session, waiter, api, zeroconf>>

(* Without zeroconf the player runs at once, with a waiter to close it.    *)
LoginAlone ==
  /\ ~cfg.zeroconf /\ thread[Main].pc = "login"
  /\ created' = 1
  /\ stored' = thread[Main].user
  /\ session' = [session EXCEPT ![1].run = "connect"]
  /\ Go(Main, "run")
  /\ serving' = TRUE
  /\ waiter' = "wait"
  /\ UNCHANGED <<cfg, cancelled, current, api, zeroconf>>

(* SetCurrentUser with the user of the new player; at boot the goroutines  *)
(* start.                                                                  *)
Announce(t) ==
  /\ thread[t].pc = "announce"
  /\ active' = thread[t].user
  /\ thread' = [u \in Threads |->
       IF u = t \/ ~serving THEN AtSelect ELSE thread[u]]
  /\ serving' = TRUE
  /\ UNCHANGED <<cfg, cancelled, stored, current, session, created, waiter, api, http, auth>>

---------------------------------------------------------------------------
(***************************************************************************)
(* The logout goroutine                                                    *)
(***************************************************************************)

(* setSession(nil), after which the goroutine restores a session or        *)
(* returns.                                                                *)
Clear ==
  /\ thread[Logout].pc \in {"clear", "stop"}
  /\ Swap(Logout, None, IF thread[Logout].pc = "stop" THEN "off" ELSE "credentials")
  /\ UNCHANGED <<cfg, cancelled, stored, serving, session, created, waiter, api, zeroconf>>

(* ctx.Done: it clears the session and returns.                            *)
LogoutStops ==
  /\ thread[Logout].pc = "select" /\ cancelled
  /\ Go(Logout, "stop")
  /\ UNCHANGED <<cfg, cancelled, stored, serving, current, session, created, waiter,
                 api, zeroconf>>

\* Mutant: only the zeroconf branch reads logoutCh.
LoseNotifiesLogout(s) ==
  /\ session[s].run = "losing"
  /\ thread[Logout].pc = "select"
  /\ Go(Logout, IF current = s THEN "clear" ELSE "select")
  /\ session' = [session EXCEPT ![s].run = "serve"]
  /\ UNCHANGED <<cfg, cancelled, stored, serving, current, created, waiter, api, zeroconf>>

(* p.logout <- p: the goroutine takes a session only if it is the current  *)
(* one, the waiter takes the one there is.                                 *)
Notify(s) ==
  IF cfg.zeroconf
    THEN /\ thread[Logout].pc = "select"
         /\ Go(Logout, IF current = s THEN "clear" ELSE "select")
         /\ UNCHANGED waiter
    ELSE /\ waiter = "wait"
         /\ waiter' = "close"
         /\ UNCHANGED thread

(* The end of loseSession: Run goes on, waiting for stop.                  *)
LoseNotifies(s) ==
  /\ session[s].run = "losing"
  /\ Notify(s)
  /\ session' = [session EXCEPT ![s].run = "serve"]
  /\ UNCHANGED <<cfg, cancelled, stored, serving, current, created, api, zeroconf>>

(* requestLogout, on a logout sent by the backend: its goroutine gets      *)
(* through.  Once, but a second would find the session swapped out, as one *)
(* does that comes when the loop is over.                                  *)
RequestLogout(s) ==
  /\ session[s].run \in {"serve", "losing"}
  /\ Notify(s)
  /\ UNCHANGED <<cfg, cancelled, stored, serving, current, session, created, api, zeroconf>>


(* Without zeroconf: ctx.Done, and the close that follows either.          *)
WaiterCancelled ==
  /\ waiter = "wait" /\ cancelled
  /\ waiter' = "close"
  /\ UNCHANGED <<cfg, cancelled, stored, serving, current, session, created, thread,
                 api, zeroconf>>

WaiterCloses ==
  /\ waiter = "close"
  /\ waiter' = "off"
  /\ session' = [session EXCEPT ![created].closed = TRUE]
  /\ UNCHANGED <<cfg, cancelled, stored, serving, current, created, thread, api, zeroconf>>

---------------------------------------------------------------------------
(***************************************************************************)
(* AppPlayer.Run                                                           *)
(***************************************************************************)

RunGoes(s, run) == session' = [session EXCEPT ![s].run = run]

Connected(s) ==
  /\ session[s].run = "connect"
  /\ RunGoes(s, "serve")
  /\ UNCHANGED <<cfg, cancelled, stored, serving, current, created, thread, waiter,
                 api, zeroconf>>

\* Mutant: current is cleared without looking at whose it is.
ReturnUnguarded(s) ==
  /\ session' = [session EXCEPT ![s] = Over]
  /\ current' = None
  /\ IF cfg.zeroconf THEN UNCHANGED thread ELSE Go(Main, "end")

(* Run returns: the session is retired, which releases whoever forwards to *)
(* it, and dropped if it is still the current one.  Without zeroconf the   *)
(* daemon ends.                                                            *)
Return(s) ==
  /\ session' = [session EXCEPT ![s] = Over]
  /\ current' = IF current = s THEN None ELSE current
  /\ IF cfg.zeroconf THEN UNCHANGED thread ELSE Go(Main, "end")

(* Dealer.Connect fails: Run closes its own player and returns.            *)
ConnectFails(s) ==
  /\ session[s].run = "connect"
  /\ Return(s)
  /\ UNCHANGED <<cfg, cancelled, stored, serving, created, waiter, api, zeroconf>>

(* A receiver closes, because the connection was given up or the player    *)
(* was closed: loseSession, which acts once.                               *)
Lose(s) ==
  /\ session[s].run = "serve" /\ ~session[s].lost
  /\ session' = [session EXCEPT ![s].run = "losing", ![s].lost = TRUE]
  /\ UNCHANGED <<cfg, cancelled, stored, serving, current, created, thread, waiter,
                 api, zeroconf>>

(* p.stop, in the loop or in loseSession: Close has put its one token.     *)
StopSeen(s) ==
  /\ session[s].run \in {"serve", "losing"} /\ session[s].closed
  /\ Return(s)
  /\ UNCHANGED <<cfg, cancelled, stored, serving, created, waiter, api, zeroconf>>

---------------------------------------------------------------------------
(***************************************************************************)
(* Requests to the API.  A client offers its request to whoever reads      *)
(* app.server.Receive(), and gives up after requestPickupTimeout: either   *)
(* way nothing has happened to it here.                                    *)
(***************************************************************************)

Reply(r) == request' = [request EXCEPT ![r].at = "answered", ![r].replies = @ + 1]

(* answerWithoutSession, while the one session of this mode is logged in.  *)
AnswerWithoutSession(r) ==
  /\ ~cfg.zeroconf /\ ~serving
  /\ request[r].at = "client"
  /\ Reply(r)
  /\ UNCHANGED <<cfg, cancelled, stored, serving, current, session, created, thread,
                 waiter, forwarder, zeroconf>>

(* The forwarder takes a request and reads current: with no session it     *)
(* answers, otherwise it forwards.                                         *)
Take(r) ==
  /\ cfg.zeroconf /\ serving /\ forwarder = Idle
  /\ request[r].at = "client"
  /\ IF current = None
       THEN Reply(r) /\ UNCHANGED forwarder
       ELSE /\ forwarder' = [at |-> "forward", req |-> r, to |-> current]
            /\ request' = [request EXCEPT ![r].at = "taken"]
  /\ UNCHANGED <<cfg, cancelled, stored, serving, current, session, created, thread,
                 waiter, zeroconf>>

(* The loop answers, or defers the answer to a goroutine of its own.       *)
Serve(r) ==
  \/ Reply(r)
  \/ request' = [request EXCEPT ![r].at = "deferred"]

(* forward: the loop of the session takes the request,                     *)
Deliver ==
  /\ forwarder.at = "forward"
  /\ session[forwarder.to].run = "serve"
  /\ Serve(forwarder.req)
  /\ forwarder' = Idle
  /\ UNCHANGED <<cfg, cancelled, stored, serving, current, session, created, thread,
                 waiter, zeroconf>>

\* Mutant: forward does not watch done.
GiveUpWhenCancelled ==
  /\ forwarder.at = "forward" /\ cancelled
  /\ Reply(forwarder.req)
  /\ forwarder' = Idle
  /\ UNCHANGED <<cfg, cancelled, stored, serving, current, session, created, thread,
                 waiter, zeroconf>>

(* or the session is retired, or the context done, and the caller replies. *)
GiveUp ==
  /\ forwarder.at = "forward"
  /\ session[forwarder.to].closed \/ cancelled
  /\ Reply(forwarder.req)
  /\ forwarder' = Idle
  /\ UNCHANGED <<cfg, cancelled, stored, serving, current, session, created, thread,
                 waiter, zeroconf>>

(* ctx.Done: the forwarder returns.                                        *)
ForwarderStops ==
  /\ forwarder = Idle /\ cancelled /\ cfg.zeroconf /\ serving
  /\ forwarder' = [Idle EXCEPT !.at = "off"]
  /\ UNCHANGED <<cfg, cancelled, stored, serving, current, session, created, thread,
                 waiter, request, zeroconf>>

(* Without zeroconf the loop reads app.server.Receive() itself.            *)
TakeDirectly(s, r) ==
  /\ ~cfg.zeroconf /\ session[s].run = "serve"
  /\ request[r].at = "client"
  /\ Serve(r)
  /\ UNCHANGED <<cfg, cancelled, stored, serving, current, session, created, thread,
                 waiter, forwarder, zeroconf>>

DeferredReply(r) ==
  /\ request[r].at = "deferred"
  /\ Reply(r)
  /\ UNCHANGED <<cfg, cancelled, stored, serving, current, session, created, thread,
                 waiter, forwarder, zeroconf>>

---------------------------------------------------------------------------
(***************************************************************************)
(* The login server                                                        *)
(***************************************************************************)

(* handleAddUser up to reqsChan: a login of the same user is said to be    *)
(* going well, one of another user is refused.                             *)
AddUser(h, u) ==
  /\ cfg.zeroconf /\ serving /\ http[h].at = "idle"
  /\ http' = [http EXCEPT ![h] = IF auth = NoUser THEN [@ EXCEPT !.at = "send", !.user = u]
                                                  ELSE @]
  /\ auth' = IF auth = NoUser THEN u ELSE auth
  /\ UNCHANGED <<cfg, cancelled, stored, serving, current, session, created, thread,
                 waiter, api, active>>

(* Serve takes the login and calls its handler, which clears the session   *)
(* and logs the user in.                                                   *)
ServeTakes(h) ==
  /\ thread[Main].pc = "select" /\ http[h].at = "send"
  /\ http' = [http EXCEPT ![h].at = "wait"]
  /\ current' = None
  /\ thread' = [thread EXCEPT ![Main] = [AtSelect EXCEPT
       !.pc = "teardown", !.prev = current, !.then = "login", !.for = h, !.user = http[h].user]]
  /\ UNCHANGED <<cfg, cancelled, stored, serving, session, created, waiter, api, auth, active>>

(* The handler of the request records the outcome.                         *)
AddUserEnds(h) ==
  /\ http[h].at = "result"
  /\ http' = [http EXCEPT ![h] = NoLogin]
  /\ auth' = NoUser
  /\ active' = IF http[h].ok THEN http[h].user ELSE active
  /\ UNCHANGED <<cfg, cancelled, stored, serving, current, session, created, thread,
                 waiter, api>>

---------------------------------------------------------------------------
(***************************************************************************)
(* Shutdown                                                                *)
(***************************************************************************)

Cancel ==
  /\ ~cancelled
  /\ cancelled' = TRUE
  /\ UNCHANGED <<cfg, stored, serving, current, session, created, thread, waiter,
                 api, zeroconf>>

(* App.Close has closed the login server: Serve returns.                   *)
ServeEnds ==
  /\ thread[Main].pc = "select" /\ cancelled
  /\ Go(Main, "end")
  /\ UNCHANGED <<cfg, cancelled, stored, serving, current, session, created, waiter,
                 api, zeroconf>>

---------------------------------------------------------------------------
(* The steps of a goroutine, of a Run and of the forwarder.                *)
Goroutine(t) ==
  \/ TearDown(t) \/ ReadCredentials(t) \/ LoginFails(t) \/ LoginSucceeds(t)
  \/ Announce(t)

Run(s) ==
  \/ LoseNotifies(s) \/ Connected(s) \/ ConnectFails(s) \/ StopSeen(s)

Forwarding == (\E r \in Reqs : Take(r)) \/ Deliver \/ GiveUp \/ ForwarderStops

Next ==
  /\ Up
  /\ \/ \E t \in Threads : Goroutine(t)
     \/ LoginAlone \/ Clear \/ LogoutStops \/ WaiterCancelled \/ WaiterCloses
     \/ \E s \in Sessions : Run(s) \/ Lose(s) \/ RequestLogout(s)
     \/ \E s \in Sessions, r \in Reqs : TakeDirectly(s, r)
     \/ Forwarding
     \/ \E r \in Reqs : AnswerWithoutSession(r) \/ DeferredReply(r)
     \/ \E h \in Handlers :
          (\E u \in Users : AddUser(h, u)) \/ ServeTakes(h) \/ AddUserEnds(h)
     \/ ServeEnds \/ Cancel

Spec == Init /\ [][Next]_vars

(* Goroutines go on, logins end one way or the other, and answers that     *)
(* were deferred come.  Nobody has to log in, ask, lose a session or stop  *)
(* the daemon.                                                             *)
FairSpec ==
  /\ Spec
  /\ \A t \in Threads : WF_vars(Up /\ Goroutine(t))
  /\ \A s \in Sessions : WF_vars(Up /\ Run(s))
  /\ WF_vars(Up /\ Forwarding)
  /\ WF_vars(Up /\ (LoginAlone \/ Clear \/ LogoutStops \/ WaiterCancelled \/ WaiterCloses))
  /\ SF_vars(Up /\ ServeEnds)
  /\ \A r \in Reqs : WF_vars(Up /\ DeferredReply(r))
  /\ \A h \in Handlers : WF_vars(Up /\ (ServeTakes(h) \/ AddUserEnds(h)))

---------------------------------------------------------------------------
(***************************************************************************)
(* Properties                                                              *)
(***************************************************************************)

TypeOK ==
  /\ cfg \in Configs /\ cancelled \in BOOLEAN /\ serving \in BOOLEAN
  /\ stored \in AllUsers /\ auth \in AllUsers /\ active \in AllUsers
  /\ created \in 0..MaxSessions /\ current \in 0..created
  /\ session \in [Sessions -> [run : {"none", "connect", "serve", "losing", "over"},
                               lost : BOOLEAN, closed : BOOLEAN]]
  /\ thread \in [Threads ->
       [pc : {"off", "credentials", "login", "announce", "select", "clear", "stop",
              "teardown", "run", "end"},
        prev : 0..created, new : 0..created, user : AllUsers,
        then : {"none", "announce", "reply", "login", "credentials", "off"},
        for : Handlers \cup {"none"}]]
  /\ waiter \in {"off", "wait", "close"}
  /\ forwarder \in [at : {"select", "forward", "off"}, req : Reqs \cup {"none"},
                    to : 0..MaxSessions]
  /\ request \in [Reqs -> [at : {"client", "taken", "deferred", "answered"}, replies : {0, 1}]]
  /\ http \in [Handlers -> [at : {"idle", "send", "wait", "result"}, user : AllUsers,
                            ok : BOOLEAN]]

(* A session that is not closed has somebody to close it: it is current,   *)
(* or a goroutine has swapped it out and is about to close it.             *)
Owned ==
  cfg.zeroconf => \A s \in 1..created :
    session[s].closed \/ s = current \/ \E t \in Threads : s = thread[t].prev

CurrentRuns == current # None => session[current].run # "over"

AnsweredOnce == \A r \in Reqs : (request[r].at = "answered") <=> (request[r].replies = 1)

OneLogin ==
  /\ \A h, k \in Handlers : http[h].at # "idle" /\ http[k].at # "idle" => h = k
  /\ \A h \in Handlers : http[h].at # "idle" => http[h].user = auth
  /\ auth # NoUser <=> \E h \in Handlers : http[h].at # "idle"

(* sessionMu makes a swap hand over exactly one session, and a Run that    *)
(* ends drops no session but its own: no session is orphaned (Owned) and   *)
(* none whose loop is over stays current.  A request is answered once, and *)
(* authenticatingUser is the user of the one addUser request that is past  *)
(* its check and not yet over.                                             *)
Consistent == TypeOK /\ Owned /\ CurrentRuns /\ AnsweredOnce /\ OneLogin

(* "once taken, a request is answered, if perhaps later": whatever happens *)
(* to the session it was forwarded to.                                     *)
RequestsAnswered ==
  \A r \in Reqs :
    request[r].at \in {"taken", "deferred"} ~> (request[r].at = "answered" \/ ~Up)

(* A session that was replaced, dropped or lost ends: its Run returns.     *)
SessionsEnd ==
  \A s \in Sessions :
    (session[s].run # "none" /\ (current # s \/ session[s].lost)) ~>
      (session[s].run = "over" \/ ~Up \/ (~cfg.zeroconf /\ ~session[s].lost))

(* A login that handleAddUser dispatched is accepted or refused.           *)
LoginsAnswered ==
  \A h \in Handlers : http[h].at = "send" ~> (http[h].at = "idle" \/ ~Up)



(* "get current username holding the client": with no session, and nothing *)
(* under way that could bring one or take one down, getInfo names no user. *)
(* A Run that ends by itself leaves the user it had (it does not hold).    *)
ActiveUserHoldsSession ==
  (/\ serving /\ current = None
   /\ \A t \in Threads : thread[t].pc = "select"
   /\ \A h \in Handlers : http[h].at = "idle") => active = NoUser
=============================================================================
