------------------------------ MODULE Session ------------------------------
(***************************************************************************)
(* The browser's session: the two cookies, the requests of apiFetch that   *)
(* renew them, AuthProvider's user, the login and registration forms, the  *)
(* logout, and the endpoints of internal/auth they talk to.                *)
(*                                                                         *)
(* A token is told by the time it is still good for; 0 is an expired one   *)
(* or none.  Every page calls apiFetch, several calls at a time, and each  *)
(* renews the cookies for itself when it is answered 401.                  *)
(***************************************************************************)
EXTENDS Integers

CONSTANTS
    Call,         \* calls of apiFetch a page may have in flight
    Me,           \* AuthProvider's GET /auth/me, one of them
    AccessLife,   \* 900 s
    RefreshLife,  \* 7 days
    MaxTicks      \* bound: how far the clock runs

ASSUME SessionConstants ==
    /\ Me \in Call
    /\ AccessLife \in Nat \ {0}
    /\ RefreshLife \in Nat \ {0}
    /\ AccessLife < RefreshLife
    /\ MaxTicks \in Nat

VARIABLES
    cookies,  \* access_token and refresh_token
    calls,    \* the requests in flight
    user,     \* AuthProvider
    door,     \* LoginPage and RegisterPage: fields, error, request in flight
    leaving,  \* POST /auth/logout in flight, or the page about to be left
    ticks

sessionVars == <<cookies, calls, user, door, leaving, ticks>>

Cookies == [access : 0 .. AccessLife, refresh : 0 .. RefreshLife]
NoCookies == [access |-> 0, refresh |-> 0]
NewCookies == [access |-> AccessLife, refresh |-> RefreshLife]

\* stage: the request, the reply to it, the refresh and the reply to that;
\* ran: how often its handler ran; ended: the session was over, or could not be
\* renewed, while it lasted.  Of a call that is over, whether it ended with 401.
CallState == [stage : {"idle", "sent", "replied", "refresh", "refreshed"},
              again : BOOLEAN, token : 0 .. RefreshLife,
              reply : {"none", "done", "failed", "401"},
              ran : 0 .. 2, ended : BOOLEAN]
Idle == [stage |-> "idle", again |-> FALSE, token |-> 0, reply |-> "none", ran |-> 0,
         ended |-> FALSE]
Quiet == [c \in Call |-> Idle]

\* A request that was just made, with the cookies as they are.
Sent(now) == [stage |-> "sent", again |-> FALSE, token |-> now.access, reply |-> "none",
              ran |-> 0, ended |-> now.refresh = 0]

Door == [page : {"login", "register"},
         filled : SUBSET {"email", "password", "confirmPassword"}, match : BOOLEAN,
         error : {"none", "email", "password", "confirmPassword", "form"},
         stage : {"none", "sent", "granted", "refused"}]
EmptyDoor == [page |-> "login", filled |-> {}, match |-> TRUE, error |-> "none",
              stage |-> "none"]

\* The reload of the page: AuthProvider asks who the user is.
Start(now) ==
    /\ calls' = [Quiet EXCEPT ![Me] = Sent(now)]
    /\ user' = "loading"
    /\ door' = EmptyDoor
    /\ leaving' = "no"

SessionInit ==
    /\ cookies \in {NoCookies, NewCookies, [NewCookies EXCEPT !.access = 0]}
    /\ calls = [Quiet EXCEPT ![Me] = Sent(cookies)]
    /\ user = "loading"
    /\ door = EmptyDoor
    /\ leaving = "no"
    /\ ticks = 0

\* A refresh that is under way when the session ends may come too late.
Spoil(all) == [c \in Call |-> [all[c] EXCEPT !.ended = @ \/ all[c].stage # "idle"]]

-----------------------------------------------------------------------------
(* apiFetch. *)

\* The pages behind ProtectedRoute call it; AuthProvider does when it mounts and
\* when AccountPage comes back from linking an account.
Begin(c) ==
    /\ user = "known"
    /\ calls[c].stage = "idle"
    /\ calls' = [calls EXCEPT ![c] = Sent(cookies)]
    /\ UNCHANGED <<cookies, user, door, leaving, ticks>>

\* Authenticate, and the handler behind it.
Serve(c) ==
    /\ calls[c].stage = "sent"
    /\ \/ /\ calls[c].token = 0
          /\ calls' = [calls EXCEPT ![c].stage = "replied", ![c].reply = "401"]
       \/ /\ calls[c].token > 0
          /\ \E reply \in {"done", "failed"} :
                calls' = [calls EXCEPT ![c].stage = "replied", ![c].reply = reply,
                                       ![c].ran = @ + 1]
    /\ UNCHANGED <<cookies, user, door, leaving, ticks>>

\* What is left of a call is that it ended with 401.  For AuthProvider any other
\* answer than 200 is "no user".  A request that is lost leaves its user as it is:
\* after a mount that is nobody, once it no longer loads.
Concluded(c, reply) ==
    /\ calls' = [calls EXCEPT ![c] = IF reply # "401" THEN Idle
                                     ELSE [Idle EXCEPT !.reply = reply, !.ended = calls[c].ended]]
    /\ user' = IF c # Me \/ (reply = "lost" /\ user # "loading") THEN user
               ELSE IF reply = "done" THEN "known" ELSE "none"

\* Mutants of Renews: any failure is tried again; one refresh at a time.
RenewsAnyFailure(call) == call.reply \in {"401", "failed"} /\ ~call.again
RenewsAlone(call) ==
    /\ call.reply = "401" /\ ~call.again
    /\ \A c \in Call : calls[c].stage # "refresh"

Renews(call) == call.reply = "401" /\ ~call.again

Reply(c) ==
    /\ calls[c].stage = "replied"
    /\ IF Renews(calls[c])
       THEN /\ calls' = [calls EXCEPT ![c].stage = "refresh", ![c].token = cookies.refresh]
            /\ UNCHANGED user
       ELSE Concluded(c, calls[c].reply)
    /\ UNCHANGED <<cookies, door, leaving, ticks>>

\* Refresh gives out two new tokens; the old ones stay good.
Refreshable(token) == token > 0
ServeRefresh(c) ==
    /\ calls[c].stage = "refresh"
    /\ \E ok \in {FALSE, Refreshable(calls[c].token)} :
        calls' = [calls EXCEPT ![c].stage = "refreshed",
                               ![c].token = IF ok THEN AccessLife ELSE 0,
                               \* 500: the tokens cannot be made
                               ![c].ended = @ \/ (calls[c].token > 0 /\ ok # Refreshable(calls[c].token))]
    /\ UNCHANGED <<cookies, user, door, leaving, ticks>>

\* The reply brings the cookies along, whatever happened to them since; without
\* them the first answer, 401, is the one that counts.
RefreshReply(c) ==
    /\ calls[c].stage = "refreshed"
    /\ IF calls[c].token > 0
       THEN /\ cookies' = NewCookies
            /\ calls' = [calls EXCEPT ![c].stage = "sent", ![c].again = TRUE,
                                      ![c].token = NewCookies.access]
            /\ UNCHANGED user
       ELSE /\ Concluded(c, "401")
            /\ UNCHANGED cookies
    /\ UNCHANGED <<door, leaving, ticks>>

\* The request or its reply is lost, and fetch throws.
Lose(c) ==
    /\ calls[c].stage # "idle"
    /\ Concluded(c, "lost")
    /\ UNCHANGED <<cookies, door, leaving, ticks>>

-----------------------------------------------------------------------------
(* LoginPage and RegisterPage.  ProtectedRoute sends here who is nobody. *)

AtDoor == user = "none" /\ leaving = "no"

GoToDoor(page) ==
    /\ AtDoor
    /\ door.page # page
    /\ door' = [EmptyDoor EXCEPT !.page = page]
    /\ UNCHANGED <<cookies, calls, user, leaving, ticks>>

\* Both fields of the login form are `required'.  Typing clears the error of the
\* field, and that of the form.
TypeField(field, match) ==
    /\ AtDoor
    /\ door.page = "login" => field # "confirmPassword" /\ match
    /\ door' = [door EXCEPT !.filled = @ \cup {field}, !.match = match,
                            !.error = IF @ \in {field, "form"} \/ door.page = "login"
                                      THEN "none" ELSE @]
    /\ UNCHANGED <<cookies, calls, user, leaving, ticks>>

Missing == IF "email" \notin door.filled THEN "email"
           ELSE IF "password" \notin door.filled THEN "password"
           ELSE IF door.page = "register" /\ ~door.match THEN "confirmPassword" ELSE "none"

Submit ==
    /\ AtDoor
    /\ door.stage = "none"
    /\ door' = [door EXCEPT !.error = Missing, !.stage = IF Missing = "none" THEN "sent" ELSE @]
    /\ UNCHANGED <<cookies, calls, user, leaving, ticks>>

\* LoginLocal and RegisterLocal; a 401 here is bad credentials and not renewed.
ServeDoor(stage) ==
    /\ door.stage = "sent"
    /\ stage \in {"granted", "refused"}
    /\ door' = [door EXCEPT !.stage = stage]
    /\ UNCHANGED <<cookies, calls, user, leaving, ticks>>

Enter ==
    /\ door.stage = "granted"
    /\ cookies' = NewCookies
    /\ Start(cookies')
    /\ UNCHANGED ticks

\* A name that is taken is the email's error, any other the form's.
Refused(error) ==
    /\ door.stage \in {"sent", "refused"}
    /\ error = "form" \/ (error = "email" /\ door.page = "register" /\ door.stage = "refused")
    /\ door' = [door EXCEPT !.stage = "none", !.error = error]
    /\ UNCHANGED <<cookies, calls, user, leaving, ticks>>

-----------------------------------------------------------------------------
(* The end of a session. *)

Logout ==
    /\ user = "known"
    /\ leaving = "no"
    /\ leaving' = "sent"
    /\ UNCHANGED <<cookies, calls, user, door, ticks>>

\* The reply takes both cookies away; a refresh that is still in flight puts them
\* back, until the page is gone.
LogoutReply ==
    /\ leaving = "sent"
    /\ cookies' = NoCookies
    /\ calls' = Spoil(calls)
    /\ user' = "none"
    /\ leaving' = "page"
    /\ UNCHANGED <<door, ticks>>

LogoutLost ==
    /\ leaving = "sent"
    /\ leaving' = "no"
    /\ UNCHANGED <<cookies, calls, user, door, ticks>>

Unload ==
    /\ leaving = "page"
    /\ Start(cookies)
    /\ UNCHANGED <<cookies, ticks>>

\* The same cookies in another tab: it logs out, or renews them.
OtherTab(now) ==
    /\ now \in {NoCookies} \cup (IF cookies.refresh > 0 THEN {NewCookies} ELSE {})
    /\ now # cookies
    /\ cookies' = now
    /\ calls' = IF now = NoCookies THEN Spoil(calls) ELSE calls
    /\ UNCHANGED <<user, door, leaving, ticks>>

\* A refresh and the repeated request take less than the life of an access token.
Tick ==
    /\ ticks < MaxTicks
    /\ \A c \in Call : calls[c].stage \in {"idle", "sent", "replied"} /\ (calls[c].again => calls[c].stage = "idle")
    /\ ticks' = ticks + 1
    /\ cookies' = [access |-> IF cookies.access = 0 THEN 0 ELSE cookies.access - 1,
                   refresh |-> IF cookies.refresh = 0 THEN 0 ELSE cookies.refresh - 1]
    /\ LET aged == [c \in Call |-> [calls[c] EXCEPT !.token = IF @ = 0 THEN 0 ELSE @ - 1]]
       IN calls' = IF cookies'.refresh = 0 THEN Spoil(aged) ELSE aged
    /\ UNCHANGED <<user, door, leaving>>

SessionNext ==
    \/ \E c \in Call : \/ Begin(c) \/ Serve(c) \/ Reply(c)
                       \/ ServeRefresh(c) \/ RefreshReply(c) \/ Lose(c)
    \/ \E page \in {"login", "register"} : GoToDoor(page)
    \/ \E field \in {"email", "password", "confirmPassword"}, match \in BOOLEAN :
            TypeField(field, match)
    \/ Submit \/ Enter
    \/ \E stage \in {"granted", "refused"} : ServeDoor(stage)
    \/ \E error \in {"email", "form"} : Refused(error)
    \/ Logout \/ LogoutReply \/ LogoutLost \/ Unload
    \/ \E now \in {NoCookies, NewCookies} : OtherTab(now)
    \/ Tick

SessionSpec == SessionInit /\ [][SessionNext]_sessionVars

-----------------------------------------------------------------------------
(* Properties. *)

SessionTypeOK ==
    /\ cookies \in Cookies
    /\ calls \in [Call -> CallState]
    /\ user \in {"loading", "none", "known"}
    /\ door \in Door
    /\ leaving \in {"no", "sent", "page"}
    /\ ticks \in 0 .. MaxTicks

\* The repetition of a request never makes its handler run a second time: only a
\* request that was turned away at the door is sent again.
CallRunsOnce ==
    \A c \in Call : calls[c].ran <= 1

\* A call ends with 401 only if the session ended, or could not be renewed, while
\* it lasted: also when several calls find the access token expired and each
\* renews the cookies, in whatever order the answers arrive.
LiveSessionIsRenewed ==
    \A c \in Call : calls[c].stage = "idle" /\ calls[c].reply = "401" => calls[c].ended
=============================================================================
