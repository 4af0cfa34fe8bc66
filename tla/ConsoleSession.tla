--------------------------- MODULE ConsoleSession ---------------------------
(***************************************************************************)
(* One browser tab of the console and the server session its cookie names: *)
(* the login form, the remembered user, the handler every 401 runs, and    *)
(* the logout request that handler sends.  Requests and answers overlap,   *)
(* and a cookie travels with a request only as it was when it was sent.    *)
(***************************************************************************)
EXTENDS Naturals, FiniteSets

CONSTANTS
  Slots,        \* requests that may be in flight together
  MaxSessions,  \* bound on the sessions that logins open
  MaxErrors,    \* bound on throttled, timed-out and failed requests
  MaxReloads,   \* bound on page reloads
  NoSession     \* no cookie, no user

ASSUME SessionAssumption ==
  /\ MaxSessions \in Nat /\ MaxErrors \in Nat /\ MaxReloads \in Nat
  /\ NoSession \notin 1..MaxSessions

Sessions == 1..MaxSessions
Names    == Sessions \cup { NoSession }

VARIABLES
  valid,     \* sessions the server accepts
  issued,    \* how many it has opened
  cookie,    \* the session the tab's cookie names
  user,      \* AuthContext.currentUser, named by the session it logged in with
  stored,    \* the same in sessionStorage
  route,     \* "login" or "app"
  loading,   \* the login form waits for its answer
  flight,    \* the request of every slot
  errors,    \* failed requests so far
  reloads    \* reloads so far

sessionVars == << valid, issued, cookie, user, stored, route, loading, flight,
           errors, reloads >>

Kinds   == { "login", "read", "download", "logout", "logoutAll",
             "revokeOthers" }
Answers == { "none", "ok", "401", "error" }
Idle    == [ kind |-> "idle" ]
SentRequest(kind, cause) ==
  [ kind |-> kind, cookie |-> cookie, cause |-> cause, shown |-> user,
    answer |-> "none", granted |-> NoSession ]

SessionTypeOK ==
  /\ valid \subseteq Sessions /\ issued \in 0..MaxSessions
  /\ cookie \in Names /\ user \in Names /\ stored \in Names
  /\ route \in { "login", "app" } /\ loading \in BOOLEAN
  /\ flight \in [ Slots -> { Idle } \cup
       [ kind : Kinds, cookie : Names, cause : { "user", "401" },
         shown : Names, answer : Answers, granted : Names ] ]
  /\ errors \in 0..MaxErrors /\ reloads \in 0..MaxReloads

SessionInit ==
  /\ valid = {} /\ issued = 0 /\ cookie = NoSession
  /\ user = NoSession /\ stored = NoSession
  /\ route = "login" /\ loading = FALSE
  /\ flight = [ s \in Slots |-> Idle ]
  /\ errors = 0 /\ reloads = 0

IsFree(s)  == flight[s] = Idle
Pending(s) == flight[s].kind \in Kinds
Waits(s)   == Pending(s) /\ flight[s].answer = "none"
Arrived(s, a) == Pending(s) /\ flight[s].answer = a
Send(s, kind, cause) == flight' = [ flight EXCEPT ![s] = SentRequest(kind, cause) ]
Close(s)   == flight' = [ flight EXCEPT ![s] = Idle ]

(* restoreUser, on every page load.                                        *)
Restored == stored

(* ProtectedRoute: without a user every route but /login is left.          *)
Guarded(r, u) == IF u = NoSession THEN "login" ELSE r

-----------------------------------------------------------------------------
(* What the operator does.                                                 *)

(* The submit button is disabled while an answer is awaited.               *)
SubmitLogin(s) ==
  /\ route = "login" /\ ~loading /\ IsFree(s)
  /\ Send(s, "login", "user")
  /\ loading' = TRUE
  /\ UNCHANGED << valid, issued, cookie, user, stored, route, errors, reloads >>

(* A mounted query fetches; its key holds only one request at a time.      *)
Read(s) ==
  /\ route = "app" /\ user # NoSession /\ IsFree(s)
  /\ Send(s, "read", "user")
  /\ UNCHANGED << valid, issued, cookie, user, stored, route, loading, errors,
                  reloads >>

(* A briefing or a report is posted for and comes back as a file.         *)
Download(s) ==
  /\ route = "app" /\ user # NoSession /\ IsFree(s)
  /\ Send(s, "download", "user")
  /\ UNCHANGED << valid, issued, cookie, user, stored, route, loading, errors,
                  reloads >>

(* The log-out button: the user is dropped without waiting for an answer.  *)
LogOut(s) ==
  /\ route = "app" /\ user # NoSession /\ IsFree(s)
  /\ Send(s, "logout", "user")
  /\ user' = NoSession /\ route' = "login"
  /\ UNCHANGED << valid, issued, cookie, stored, loading, errors, reloads >>

(* "Sign Out All Sessions" waits for its answer and keeps the user.        *)
SignOutAll(s) ==
  /\ route = "app" /\ user # NoSession /\ IsFree(s)
  /\ Send(s, "logoutAll", "user")
  /\ UNCHANGED << valid, issued, cookie, user, stored, route, loading, errors,
                  reloads >>

(* "Sign Out Other Sessions", or one session of the list.                  *)
RevokeOthers(s) ==
  /\ route = "app" /\ user # NoSession /\ IsFree(s)
  /\ Send(s, "revokeOthers", "user")
  /\ UNCHANGED << valid, issued, cookie, user, stored, route, loading, errors,
                  reloads >>

(* A reload, the operator's or a new service worker's, forgets everything  *)
(* but the cookie and sessionStorage.  A request the server has not seen   *)
(* is cancelled, and an answer under way is not received.                  *)
Reload ==
  /\ reloads < MaxReloads
  /\ reloads' = reloads + 1
  /\ user' = Restored /\ route' = Guarded(route, Restored)
  /\ loading' = FALSE
  /\ flight' = [ s \in Slots |-> Idle ]
  /\ UNCHANGED << valid, issued, cookie, stored, errors >>

-----------------------------------------------------------------------------
(* What the server does.                                                   *)
Answer(s, a) == flight' = [ flight EXCEPT ![s].answer = a ]

(* The lifetime of a session ends, or an administrator revokes it.         *)
Expire(n) ==
  /\ n \in valid
  /\ valid' = valid \ { n }
  /\ UNCHANGED << issued, cookie, user, stored, route, loading, flight, errors,
                  reloads >>

GrantLogin(s) ==
  /\ Waits(s) /\ flight[s].kind = "login" /\ issued < MaxSessions
  /\ issued' = issued + 1 /\ valid' = valid \cup { issued' }
  /\ flight' = [ flight EXCEPT ![s].answer = "ok", ![s].granted = issued' ]
  /\ UNCHANGED << cookie, user, stored, route, loading, errors, reloads >>

RefuseLogin(s) ==
  /\ Waits(s) /\ flight[s].kind = "login"
  /\ Answer(s, "401")
  /\ UNCHANGED << valid, issued, cookie, user, stored, route, loading, errors,
                  reloads >>

(* Every endpoint but login authenticates the cookie first, logout too.    *)
Ended(q) == CASE q.kind = "logout"       -> { q.cookie }
              [] q.kind = "logoutAll"    -> valid
              [] q.kind = "revokeOthers" -> valid \ { q.cookie }
              [] OTHER                   -> {}

Accept(s) ==
  /\ Waits(s) /\ flight[s].kind # "login" /\ flight[s].cookie \in valid
  /\ valid' = valid \ Ended(flight[s])
  /\ Answer(s, "ok")
  /\ UNCHANGED << issued, cookie, user, stored, route, loading, errors, reloads >>

Deny(s) ==
  /\ Waits(s) /\ flight[s].kind # "login" /\ flight[s].cookie \notin valid
  /\ Answer(s, "401")
  /\ UNCHANGED << valid, issued, cookie, user, stored, route, loading, errors,
                  reloads >>

(* The rate limiter answers 429, the request times out or cannot be sent.  *)
Error(s) ==
  /\ Waits(s) /\ errors < MaxErrors
  /\ errors' = errors + 1
  /\ Answer(s, "error")
  /\ UNCHANGED << valid, issued, cookie, user, stored, route, loading, reloads >>

-----------------------------------------------------------------------------
(* What an answer does when it arrives: the browser applies Set-Cookie and *)
(* the promise's continuations run.                                        *)
CookieAfter(q) == IF q.kind = "login" THEN q.granted
                  ELSE IF q.kind \in { "logout", "logoutAll" } THEN NoSession
                  ELSE cookie

ArriveLogin(s) ==
  /\ Arrived(s, "ok") /\ flight[s].kind = "login"
  /\ cookie' = CookieAfter(flight[s])
  /\ stored' = flight[s].granted /\ user' = flight[s].granted
  /\ route' = "app" /\ loading' = FALSE
  /\ Close(s)
  /\ UNCHANGED << valid, issued, errors, reloads >>

(* logout() clears the stored user; "sign out all" then goes to /login,    *)
(* and nothing else tells AuthContext.                                     *)
ArriveLogout(s) ==
  /\ Arrived(s, "ok") /\ flight[s].kind \in { "logout", "logoutAll" }
  /\ cookie' = CookieAfter(flight[s])
  /\ stored' = NoSession
  /\ route' = IF flight[s].kind = "logoutAll" THEN "login" ELSE route
  /\ Close(s)
  /\ UNCHANGED << valid, issued, user, loading, errors, reloads >>

ArriveOther(s) ==
  /\ Arrived(s, "ok") /\ flight[s].kind \in { "read", "download", "revokeOthers" }
  /\ Close(s)
  /\ UNCHANGED << valid, issued, cookie, user, stored, route, loading, errors,
                  reloads >>

(* What the caller of a failed request does: the form stops waiting, and a *)
(* logout that suppresses errors clears the stored user all the same.      *)
(* (Definitions named ...Kept, ...Forever or ...Silently are the plausible *)
(* bugs that show the properties can fail.)                                *)
StoredAfterFailureKept(q) == stored
StoredAfterFailure(q) == IF q.kind = "logout" THEN NoSession ELSE stored
LoadingAfter(q) == loading /\ q.kind # "login"

Arrive401Silently(s) ==
  /\ Arrived(s, "401")
  /\ stored' = StoredAfterFailure(flight[s])
  /\ loading' = LoadingAfter(flight[s])
  /\ Close(s)
  /\ UNCHANGED << valid, issued, cookie, user, route, errors, reloads >>

(* Any 401 drops the user and sends a logout with today's cookie.          *)
Arrive401(s) ==
  /\ Arrived(s, "401")
  /\ Send(s, "logout", "401")
  /\ user' = NoSession /\ route' = "login"
  /\ stored' = StoredAfterFailure(flight[s])
  /\ loading' = LoadingAfter(flight[s])
  /\ UNCHANGED << valid, issued, cookie, errors, reloads >>

ArriveError(s) ==
  /\ Arrived(s, "error")
  /\ stored' = StoredAfterFailure(flight[s])
  /\ loading' = LoadingAfter(flight[s])
  /\ Close(s)
  /\ UNCHANGED << valid, issued, cookie, user, route, errors, reloads >>

-----------------------------------------------------------------------------
Operator(s) == \/ SubmitLogin(s) \/ Read(s) \/ Download(s) \/ LogOut(s)
               \/ SignOutAll(s) \/ RevokeOthers(s)
Server(s)   == GrantLogin(s) \/ RefuseLogin(s) \/ Accept(s) \/ Deny(s) \/ Error(s)
Handle(s)   == \/ ArriveLogin(s) \/ ArriveLogout(s) \/ ArriveOther(s)
               \/ Arrive401(s) \/ ArriveError(s)

SessionNext ==
  \/ Reload
  \/ \E n \in Sessions : Expire(n)
  \/ \E s \in Slots : Operator(s) \/ Server(s) \/ Handle(s)

SessionSpec == SessionInit /\ [][SessionNext]_sessionVars

(* The server answers, answers arrive, and the mounted pages keep polling. *)
SessionFairSpec ==
  /\ SessionSpec
  /\ \A s \in Slots : WF_sessionVars(Server(s)) /\ WF_sessionVars(Handle(s))
  /\ WF_sessionVars(\E s \in Slots : Read(s))

-----------------------------------------------------------------------------
(* A console that shows no user remembers none, except while the logout    *)
(* that will forget it is under way: a reload cannot bring back a user who *)
(* was logged out (clearStoredUser in logout, its error path included).    *)
SignedOutStaysOut ==
  stored # NoSession /\ user = NoSession
    => \E s \in Slots : Pending(s) /\ flight[s].kind = "logout"

(* A user whose session has ended is noticed: the next poll is answered    *)
(* 401 and the page goes back to the login form (onUnauthorized).          *)
ExpiryNoticed ==
  \A n \in Sessions : (user = n /\ route = "app" /\ n \notin valid)
                        ~> (user # n \/ route = "login")

(* "Register the 401 handler so expired cookies automatically log out":    *)
(* the logout a 401 sends never ends the valid session of the user shown   *)
(* when the 401 arrived.                                                   *)
OnlyExpiredCookiesLogOut ==
  \A s \in Slots : flight[s] = Idle \/
    ~ ( /\ flight[s].kind = "logout" /\ flight[s].cause = "401"
        /\ flight[s].answer = "ok"   /\ flight[s].cookie = flight[s].shown )
=============================================================================
