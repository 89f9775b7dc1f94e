--------------------------- MODULE SessionProofs ---------------------------
(***************************************************************************)
(* Proofs about Session: its type invariant, that a repeated request runs  *)
(* its handler once, and that only a session that ended, or could not be   *)
(* renewed, is answered 401, for any number of calls that renew it at the  *)
(* same time.                                                              *)
(***************************************************************************)
EXTENDS Session, TLAPS

\* What holds of a call on its way through apiFetch while the refresh token is
\* good for `life' more ticks: no handler has run before a reply that is not 401,
\* a repeated request carries a good token, and whoever has no good refresh token
\* knows that the session has ended.
CallInOrder(call, life) ==
    /\ call \in CallState
    /\ call.ran <= 1
    /\ call.stage # "replied" => call.ran = 0
    /\ call.stage = "replied" /\ call.reply = "401" => call.ran = 0
    /\ call.again => /\ call.stage \in {"sent", "replied"}
                     /\ call.stage = "sent" => call.token > 0
                     /\ call.stage = "replied" => call.reply # "401"
    /\ call.stage # "idle" /\ life = 0 => call.ended
    /\ call.stage \in {"refresh", "refreshed"} /\ call.token = 0 => call.ended
    /\ call.stage = "idle" /\ call.reply = "401" => call.ended

SessionInv ==
    /\ SessionTypeOK
    /\ \A c \in Call : CallInOrder(calls[c], cookies.refresh)

LEMMA Lives == /\ AccessLife \in Nat /\ RefreshLife \in Nat /\ MaxTicks \in Nat
               /\ 0 < AccessLife /\ AccessLife < RefreshLife /\ Me \in Call
BY SessionConstants

LEMMA CookieTypes == NoCookies \in Cookies /\ NewCookies \in Cookies
BY Lives DEF Cookies, NoCookies, NewCookies

LEMMA IdleInOrder == ASSUME NEW life \in Nat PROVE CallInOrder(Idle, life)
BY Lives DEF CallInOrder, CallState, Idle

LEMMA SentFields ==
    ASSUME NEW token \in 0 .. RefreshLife, NEW ended \in BOOLEAN
    PROVE  [stage |-> "sent", again |-> FALSE, token |-> token, reply |-> "none",
            ran |-> 0, ended |-> ended] \in CallState
BY DEF CallState

LEMMA SentInOrder ==
    ASSUME NEW now \in Cookies
    PROVE  CallInOrder(Sent(now), now.refresh)
<1>1. now.access \in 0 .. RefreshLife /\ now.refresh \in 0 .. RefreshLife
  BY Lives DEF Cookies
<1>2. /\ Sent(now).stage = "sent" /\ Sent(now).again = FALSE /\ Sent(now).ran = 0
      /\ Sent(now).reply = "none" /\ Sent(now).token = now.access
  BY DEF Sent
<1>3. Sent(now).ended <=> now.refresh = 0
  BY DEF Sent
<1>4. Sent(now) \in CallState
  BY <1>1, (now.refresh = 0) \in BOOLEAN, SentFields, Zenon DEF Sent
<1> QED
  BY <1>2, <1>3, <1>4 DEF CallInOrder

\* The reload, from which every call but AuthProvider's is quiet.
LEMMA StartInOrder ==
    ASSUME NEW now \in Cookies,
           calls' = [Quiet EXCEPT ![Me] = Sent(now)]
    PROVE  /\ calls' \in [Call -> CallState]
           /\ \A c \in Call : CallInOrder(calls'[c], now.refresh)
<1>1. now.refresh \in Nat
  BY Lives DEF Cookies
<1>2. \A c \in Call : calls'[c] = IF c = Me THEN Sent(now) ELSE Idle
  BY Lives DEF Quiet
<1>3. \A c \in Call : CallInOrder(calls'[c], now.refresh)
  BY <1>1, <1>2, IdleInOrder, SentInOrder
<1>4. Idle \in CallState /\ Sent(now) \in CallState
  BY <1>1, IdleInOrder, SentInOrder DEF CallInOrder
<1> QED
  BY <1>3, <1>4, Lives DEF Quiet

\* One call takes a step and the others stay.
LEMMA OneCall ==
    ASSUME SessionInv, NEW c \in Call, NEW call,
           calls' = [calls EXCEPT ![c] = call],
           NEW life \in Nat, life = 0 => cookies.refresh = 0,
           CallInOrder(call, life)
    PROVE  /\ calls' \in [Call -> CallState]
           /\ \A d \in Call : CallInOrder(calls'[d], life)
<1>1. \A d \in Call : calls[d] \in CallState /\ CallInOrder(calls[d], cookies.refresh)
  BY DEF SessionInv, SessionTypeOK
<1>2. call \in CallState
  BY DEF CallInOrder
<1>3. ASSUME NEW d \in Call PROVE CallInOrder(calls'[d], life)
  <2>1. CASE d = c
    BY <2>1 DEF SessionInv, SessionTypeOK
  <2>2. CASE d # c
    <3>1. calls'[d] = calls[d]
      BY <2>2 DEF SessionInv, SessionTypeOK
    <3> QED
      BY <1>1, <3>1 DEF CallInOrder
  <2> QED
    BY <2>1, <2>2
<1> QED
  BY <1>2, <1>3 DEF SessionInv, SessionTypeOK

-----------------------------------------------------------------------------
(* What the steps of apiFetch make of a call.                              *)

LEMMA CallFields ==
    ASSUME NEW call \in CallState
    PROVE  /\ call.stage \in {"idle", "sent", "replied", "refresh", "refreshed"}
           /\ call.again \in BOOLEAN /\ call.ended \in BOOLEAN
           /\ call.token \in 0 .. RefreshLife /\ call.ran \in 0 .. 2
           /\ call.reply \in {"none", "done", "failed", "401"}
BY DEF CallState

LEMMA StageUpdate ==
    ASSUME NEW call \in CallState,
           NEW stage \in {"idle", "sent", "replied", "refresh", "refreshed"}
    PROVE  [call EXCEPT !.stage = stage] \in CallState
BY DEF CallState

LEMMA ReplyUpdate ==
    ASSUME NEW call \in CallState, NEW reply \in {"none", "done", "failed", "401"}
    PROVE  [call EXCEPT !.reply = reply] \in CallState
BY DEF CallState

LEMMA RanUpdate ==
    ASSUME NEW call \in CallState, NEW ran \in 0 .. 2
    PROVE  [call EXCEPT !.ran = ran] \in CallState
BY DEF CallState

LEMMA TokenUpdate ==
    ASSUME NEW call \in CallState, NEW token \in 0 .. RefreshLife
    PROVE  [call EXCEPT !.token = token] \in CallState
BY DEF CallState

LEMMA AgainUpdate ==
    ASSUME NEW call \in CallState, NEW again \in BOOLEAN
    PROVE  [call EXCEPT !.again = again] \in CallState
BY DEF CallState

LEMMA EndedUpdate ==
    ASSUME NEW call \in CallState, NEW ended \in BOOLEAN
    PROVE  [call EXCEPT !.ended = ended] \in CallState
BY DEF CallState

LEMMA TurnedAway ==
    ASSUME NEW call, NEW life \in Nat, CallInOrder(call, life),
           call.stage = "sent", call.token = 0
    PROVE  CallInOrder([call EXCEPT !.stage = "replied", !.reply = "401"], life)
<1>1. [call EXCEPT !.stage = "replied"] \in CallState
  BY StageUpdate DEF CallInOrder
<1>2. [call EXCEPT !.stage = "replied", !.reply = "401"] \in CallState
  BY <1>1, ReplyUpdate
<1> QED
  BY <1>2, CallFields DEF CallInOrder, CallState

LEMMA Served ==
    ASSUME NEW call, NEW life \in Nat, CallInOrder(call, life),
           call.stage = "sent", NEW reply \in {"done", "failed"}
    PROVE  CallInOrder([call EXCEPT !.stage = "replied", !.reply = reply, !.ran = @ + 1], life)
<1>1. [call EXCEPT !.stage = "replied"] \in CallState
  BY StageUpdate DEF CallInOrder
<1>2. [call EXCEPT !.stage = "replied", !.reply = reply] \in CallState
  BY <1>1, ReplyUpdate
<1>3. call.ran = 0
  BY DEF CallInOrder
<1>4. [call EXCEPT !.stage = "replied", !.reply = reply, !.ran = 1] \in CallState
  BY <1>2, 1 \in 0 .. 2, RanUpdate, Zenon
<1>5. [call EXCEPT !.stage = "replied", !.reply = reply, !.ran = @ + 1] =
      [call EXCEPT !.stage = "replied", !.reply = reply, !.ran = 1]
  BY <1>3 DEF CallInOrder, CallState
<1> QED
  BY <1>4, <1>5, CallFields DEF CallInOrder, CallState

LEMMA Renewing ==
    ASSUME NEW call, NEW life \in 0 .. RefreshLife, CallInOrder(call, life),
           call.stage = "replied", Renews(call)
    PROVE  CallInOrder([call EXCEPT !.stage = "refresh", !.token = life], life)
<1>1. [call EXCEPT !.stage = "refresh"] \in CallState
  BY StageUpdate DEF CallInOrder
<1>2. [call EXCEPT !.stage = "refresh", !.token = life] \in CallState
  BY <1>1, TokenUpdate
<1> QED
  BY <1>2, CallFields DEF CallInOrder, CallState, Renews

\* The refresh is answered: with tokens, or with 401 or 500.
LEMMA Refreshed ==
    ASSUME NEW call, NEW life \in Nat, CallInOrder(call, life),
           call.stage = "refresh", NEW ok \in BOOLEAN, NEW ended \in BOOLEAN,
           ok => Refreshable(call.token),
           ~ok => (ended <=> call.ended \/ call.token > 0),
           call.ended => ended
    PROVE  CallInOrder([call EXCEPT !.stage = "refreshed",
                                    !.token = IF ok THEN AccessLife ELSE 0,
                                    !.ended = ended], life)
<1> DEFINE new == [call EXCEPT !.stage = "refreshed",
                               !.token = IF ok THEN AccessLife ELSE 0, !.ended = ended]
<1>1. [call EXCEPT !.stage = "refreshed"] \in CallState
  BY StageUpdate DEF CallInOrder
<1>2. (IF ok THEN AccessLife ELSE 0) \in 0 .. RefreshLife
  BY Lives
<1>3. [call EXCEPT !.stage = "refreshed", !.token = IF ok THEN AccessLife ELSE 0] \in CallState
  BY <1>1, <1>2, TokenUpdate
<1>4. new \in CallState
  BY <1>3, EndedUpdate
<1>5. /\ new.stage = "refreshed" /\ new.again = call.again /\ new.ran = call.ran
      /\ new.reply = call.reply /\ new.ended = ended
      /\ new.token = IF ok THEN AccessLife ELSE 0
  BY DEF CallInOrder, CallState
<1>6. ~call.again /\ call.ran = 0 /\ (call.token = 0 => call.ended) /\ (life = 0 => call.ended)
      /\ call.token \in Nat
  BY Lives, CallFields DEF CallInOrder
<1>7. new.token = 0 => ended
  <2>1. CASE ok
    BY <1>5, <2>1, Lives
  <2>2. CASE ~ok
    BY <1>6, <2>2
  <2> QED
    BY <2>1, <2>2
<1> HIDE DEF new
<1>8. CallInOrder(new, life)
  BY <1>4, <1>5, <1>6, <1>7 DEF CallInOrder
<1> QED
  BY <1>8 DEF new

LEMMA Repeated ==
    ASSUME NEW call, NEW life \in Nat, CallInOrder(call, life), call.stage = "refreshed"
    PROVE  CallInOrder([call EXCEPT !.stage = "sent", !.again = TRUE, !.token = AccessLife],
                       RefreshLife)
<1> DEFINE new == [call EXCEPT !.stage = "sent", !.again = TRUE, !.token = AccessLife]
<1>0. AccessLife \in 0 .. RefreshLife
  BY Lives
<1>1. [call EXCEPT !.stage = "sent"] \in CallState
  BY StageUpdate DEF CallInOrder
<1>2. [call EXCEPT !.stage = "sent", !.again = TRUE] \in CallState
  BY <1>1, AgainUpdate
<1>3. new \in CallState
  BY <1>0, <1>2, TokenUpdate, Zenon
<1>4. new.stage = "sent" /\ new.token = AccessLife /\ new.ran = call.ran
  BY DEF CallInOrder, CallState
<1>5. call.ran = 0
  BY DEF CallInOrder
<1> HIDE DEF new
<1>6. CallInOrder(new, RefreshLife)
  BY <1>3, <1>4, <1>5, Lives DEF CallInOrder
<1> QED
  BY <1>6 DEF new

\* A call that is over with 401.
LEMMA Over ==
    ASSUME NEW life \in Nat, NEW ended \in BOOLEAN, ended
    PROVE  CallInOrder([Idle EXCEPT !.reply = "401", !.ended = ended], life)
<1> DEFINE new == [Idle EXCEPT !.reply = "401", !.ended = ended]
<1>1. [Idle EXCEPT !.reply = "401"] \in CallState
  BY ReplyUpdate, IdleInOrder DEF CallInOrder
<1>2. new \in CallState
  BY <1>1, EndedUpdate
<1>3. new.stage = "idle" /\ new.again = FALSE /\ new.ran = 0 /\ new.ended = ended
  BY DEF Idle
<1> HIDE DEF new
<1>4. CallInOrder(new, life)
  BY <1>2, <1>3 DEF CallInOrder
<1> QED
  BY <1>4 DEF new

-----------------------------------------------------------------------------
(* The steps.                                                              *)

\* What has to be shown of a step that leaves the pages alone.
LEMMA CallStep ==
    ASSUME SessionInv, cookies' \in Cookies, calls' \in [Call -> CallState],
           \A c \in Call : CallInOrder(calls'[c], cookies'.refresh),
           user' \in {"loading", "none", "known"}, UNCHANGED <<door, leaving, ticks>>
    PROVE  SessionInv'
BY DEF SessionInv, SessionTypeOK

LEMMA LifeOf ==
    ASSUME NEW now \in Cookies
    PROVE  now.refresh \in 0 .. RefreshLife /\ now.refresh \in Nat
BY Lives DEF Cookies

LEMMA ConcludedInOrder ==
    ASSUME SessionInv, NEW c \in Call, NEW reply, Concluded(c, reply),
           reply = "401" => calls[c].ended
    PROVE  /\ calls' \in [Call -> CallState]
           /\ \A d \in Call : CallInOrder(calls'[d], cookies.refresh)
           /\ user' \in {"loading", "none", "known"}
<1>1. cookies.refresh \in Nat
  BY LifeOf DEF SessionInv, SessionTypeOK
<1>2. calls[c] \in CallState
  BY DEF SessionInv, SessionTypeOK
<1>3. CASE reply # "401"
  <2>1. calls' = [calls EXCEPT ![c] = Idle]
    BY <1>3 DEF Concluded
  <2> QED
    BY <1>1, <2>1, IdleInOrder, OneCall DEF Concluded, SessionInv, SessionTypeOK
<1>4. CASE reply = "401"
  <2>1. calls' = [calls EXCEPT ![c] = [Idle EXCEPT !.reply = "401", !.ended = calls[c].ended]]
    BY <1>4 DEF Concluded
  <2>2. CallInOrder([Idle EXCEPT !.reply = "401", !.ended = calls[c].ended], cookies.refresh)
    BY <1>1, <1>2, <1>4, CallFields, Over
  <2> QED
    BY <1>1, <2>1, <2>2, OneCall DEF Concluded, SessionInv, SessionTypeOK
<1> QED
  BY <1>3, <1>4

LEMMA FetchStep ==
    ASSUME SessionInv, NEW c \in Call,
           \/ Begin(c) \/ Serve(c) \/ Reply(c) \/ ServeRefresh(c) \/ RefreshReply(c) \/ Lose(c)
    PROVE  SessionInv'
<1> DEFINE call == calls[c]
           life == cookies.refresh
<1>1. cookies \in Cookies /\ call \in CallState /\ CallInOrder(call, life)
  BY DEF SessionInv, SessionTypeOK
<1>2. life \in 0 .. RefreshLife /\ life \in Nat /\ user \in {"loading", "none", "known"}
  BY <1>1, LifeOf DEF SessionInv, SessionTypeOK
<1>3. calls \in [Call -> CallState]
  BY DEF SessionInv, SessionTypeOK
<1>4. CASE Begin(c)
  <2>1. CallInOrder(Sent(cookies), life)
    BY <1>1, SentInOrder
  <2>2. calls' = [calls EXCEPT ![c] = Sent(cookies)]
    BY <1>4 DEF Begin
  <2>3. /\ calls' \in [Call -> CallState]
        /\ \A d \in Call : CallInOrder(calls'[d], life)
    BY <1>2, <2>1, <2>2, OneCall
  <2> QED
    BY <1>1, <1>2, <1>4, <2>3, CallStep DEF Begin
<1>5. CASE Serve(c)
  <2>1. CASE call.token = 0
    <3>1. calls' = [calls EXCEPT ![c] = [call EXCEPT !.stage = "replied", !.reply = "401"]]
      <4>1. ~(call.token > 0)
        BY <2>1
      <4>2. calls' = [calls EXCEPT ![c].stage = "replied", ![c].reply = "401"]
        BY <1>5, <4>1 DEF Serve
      <4> QED
        BY <1>3, <4>2
    <3>2. CallInOrder([call EXCEPT !.stage = "replied", !.reply = "401"], life)
      BY <1>1, <1>2, <1>5, <2>1, TurnedAway DEF Serve
    <3>3. /\ calls' \in [Call -> CallState]
          /\ \A d \in Call : CallInOrder(calls'[d], life)
      BY <1>2, <3>1, <3>2, OneCall
    <3> QED
      BY <1>1, <1>2, <1>5, <3>3, CallStep DEF Serve
  <2>2. CASE call.token # 0
    <3>1. PICK reply \in {"done", "failed"} :
            calls' = [calls EXCEPT ![c].stage = "replied", ![c].reply = reply, ![c].ran = @ + 1]
      BY <1>5, <2>2 DEF Serve
    <3>2. calls' = [calls EXCEPT ![c] = [call EXCEPT !.stage = "replied", !.reply = reply,
                                                     !.ran = @ + 1]]
      BY <1>3, <3>1
    <3>3. CallInOrder([call EXCEPT !.stage = "replied", !.reply = reply, !.ran = @ + 1], life)
      BY <1>1, <1>2, <1>5, Served DEF Serve
    <3>4. /\ calls' \in [Call -> CallState]
          /\ \A d \in Call : CallInOrder(calls'[d], life)
      BY <1>2, <3>2, <3>3, OneCall
    <3> QED
      BY <1>1, <1>2, <1>5, <3>4, CallStep DEF Serve
  <2> QED
    BY <2>1, <2>2
<1>6. CASE Reply(c)
  <2>1. CASE Renews(call)
    <3>1. calls' = [calls EXCEPT ![c] = [call EXCEPT !.stage = "refresh", !.token = life]]
      BY <1>3, <1>6, <2>1 DEF Reply
    <3>2. CallInOrder([call EXCEPT !.stage = "refresh", !.token = life], life)
      BY <1>1, <1>2, <1>6, <2>1, Renewing DEF Reply
    <3>3. /\ calls' \in [Call -> CallState]
          /\ \A d \in Call : CallInOrder(calls'[d], life)
      BY <1>2, <3>1, <3>2, OneCall
    <3> QED
      BY <1>1, <1>2, <1>6, <2>1, <3>3, CallStep DEF Reply
  <2>2. CASE ~Renews(call)
    <3>1. call.reply # "401"
      BY <1>1, <1>6, <2>2 DEF Renews, CallInOrder, Reply
    <3>2. Concluded(c, call.reply)
      BY <1>6, <2>2 DEF Reply
    <3>3. /\ calls' \in [Call -> CallState]
          /\ \A d \in Call : CallInOrder(calls'[d], life)
          /\ user' \in {"loading", "none", "known"}
      BY <3>1, <3>2, ConcludedInOrder
    <3> QED
      BY <1>1, <1>6, <3>3, CallStep DEF Reply
  <2> QED
    BY <2>1, <2>2
<1>7. CASE ServeRefresh(c)
  <2>1. PICK ok \in {FALSE, Refreshable(call.token)} :
          calls' = [calls EXCEPT ![c].stage = "refreshed",
                                 ![c].token = IF ok THEN AccessLife ELSE 0,
                                 ![c].ended = @ \/ (call.token > 0 /\ ok # Refreshable(call.token))]
    BY <1>7 DEF ServeRefresh
  <2> DEFINE ended == call.ended \/ (call.token > 0 /\ ok # Refreshable(call.token))
             new == [call EXCEPT !.stage = "refreshed",
                                 !.token = IF ok THEN AccessLife ELSE 0, !.ended = ended]
  <2>2. calls' = [calls EXCEPT ![c] = new]
    BY <1>3, <2>1
  <2>3. ok \in BOOLEAN /\ ended \in BOOLEAN /\ call.token \in Nat
    <3>1. call.token \in Nat /\ call.ended \in BOOLEAN
      BY <1>1, CallFields, Lives
    <3>2. Refreshable(call.token) \in BOOLEAN
      BY <3>1 DEF Refreshable
    <3>3. ok \in BOOLEAN
      BY <3>2, Zenon
    <3>4. ended \in BOOLEAN
      BY <3>1, Zenon
    <3> QED
      BY <3>1, <3>3, <3>4
  <2>4. ok => Refreshable(call.token)
    OBVIOUS
  <2>5. ~ok => (ended <=> call.ended \/ call.token > 0)
    BY <2>3 DEF Refreshable
  <2>6. CallInOrder(new, life)
    BY <1>1, <1>2, <1>7, <2>3, <2>4, <2>5, Refreshed DEF ServeRefresh
  <2>7. /\ calls' \in [Call -> CallState]
        /\ \A d \in Call : CallInOrder(calls'[d], life)
    BY <1>2, <2>2, <2>6, OneCall
  <2> QED
    BY <1>1, <1>2, <1>7, <2>7, CallStep DEF ServeRefresh
<1>8. CASE RefreshReply(c)
  <2>1. CASE call.token > 0
    <3> DEFINE new == [call EXCEPT !.stage = "sent", !.again = TRUE, !.token = AccessLife]
    <3>1. calls' = [calls EXCEPT ![c] = new] /\ cookies' = NewCookies
      BY <1>3, <1>8, <2>1 DEF RefreshReply, NewCookies
    <3>2. CallInOrder(new, RefreshLife)
      BY <1>1, <1>2, <1>8, Repeated DEF RefreshReply
    <3>3. cookies' \in Cookies /\ cookies'.refresh = RefreshLife
      BY <3>1, CookieTypes DEF NewCookies
    <3>4. RefreshLife \in Nat /\ RefreshLife # 0
      BY Lives
    <3> HIDE DEF new
    <3>5. /\ calls' \in [Call -> CallState]
          /\ \A d \in Call : CallInOrder(calls'[d], RefreshLife)
      BY <3>1, <3>2, <3>4, OneCall
    <3> QED
      BY <1>2, <1>8, <2>1, <3>3, <3>5, CallStep DEF RefreshReply
  <2>2. CASE ~(call.token > 0)
    <3>1. Concluded(c, "401") /\ UNCHANGED cookies
      BY <1>8, <2>2 DEF RefreshReply
    <3>2. call.token = 0
      BY <1>1, <2>2, CallFields, Lives
    <3>3. call.ended
      BY <1>1, <1>8, <3>2 DEF CallInOrder, RefreshReply
    <3>4. /\ calls' \in [Call -> CallState]
          /\ \A d \in Call : CallInOrder(calls'[d], life)
          /\ user' \in {"loading", "none", "known"}
      BY <3>1, <3>3, ConcludedInOrder
    <3> QED
      BY <1>1, <1>8, <3>1, <3>4, CallStep DEF RefreshReply
  <2> QED
    BY <2>1, <2>2
<1>9. CASE Lose(c)
  <2>1. /\ calls' \in [Call -> CallState]
        /\ \A d \in Call : CallInOrder(calls'[d], life)
        /\ user' \in {"loading", "none", "known"}
    BY <1>9, ConcludedInOrder DEF Lose
  <2> QED
    BY <1>1, <1>9, <2>1, CallStep DEF Lose
<1> QED
  BY <1>4, <1>5, <1>6, <1>7, <1>8, <1>9

\* A call that knows that the session has ended is in order whatever comes.
LEMMA SpoiltInOrder ==
    ASSUME NEW all \in [Call -> CallState], NEW life \in Nat, NEW later \in Nat,
           NEW c \in Call, CallInOrder(all[c], life)
    PROVE  CallInOrder(Spoil(all)[c], later)
<1> DEFINE call == all[c]
           ended == call.ended \/ call.stage # "idle"
           new == [call EXCEPT !.ended = ended]
<1>1. call \in CallState /\ call.ended \in BOOLEAN
  BY CallFields
<1>2. ended \in BOOLEAN
  BY <1>1, Zenon
<1>3. new \in CallState
  BY <1>1, <1>2, EndedUpdate
<1>4. /\ new.stage = call.stage /\ new.again = call.again /\ new.ran = call.ran
      /\ new.reply = call.reply /\ new.token = call.token
      /\ new.ended = ended
  BY <1>1 DEF CallState
<1>5. Spoil(all)[c] = new
  BY DEF Spoil
<1> HIDE DEF new
<1>6. CallInOrder(new, later)
  BY <1>3, <1>4 DEF CallInOrder
<1> QED
  BY <1>5, <1>6

LEMMA SpoilStep ==
    ASSUME NEW all \in [Call -> CallState], NEW life \in Nat, NEW later \in Nat,
           \A c \in Call : CallInOrder(all[c], life),
           calls' = Spoil(all)
    PROVE  /\ calls' \in [Call -> CallState]
           /\ \A c \in Call : CallInOrder(calls'[c], later)
<1>1. \A c \in Call : CallInOrder(calls'[c], later)
  BY SpoiltInOrder
<1>2. calls' = [c \in Call |-> calls'[c]]
  BY DEF Spoil
<1>3. \A c \in Call : calls'[c] \in CallState
  BY <1>1 DEF CallInOrder
<1> QED
  BY <1>1, <1>2, <1>3

\* The time in which a call waits, at most between its request and the reply.
Aged(call) == [call EXCEPT !.token = IF @ = 0 THEN 0 ELSE @ - 1]

LEMMA AgedInOrder ==
    ASSUME NEW call, NEW life \in Nat, CallInOrder(call, life),
           call.stage \in {"idle", "sent", "replied"}, call.again => call.stage = "idle"
    PROVE  CallInOrder(Aged(call), life)
<1>1. call \in CallState /\ call.token \in 0 .. RefreshLife
  BY CallFields DEF CallInOrder
<1>2. (IF call.token = 0 THEN 0 ELSE call.token - 1) \in 0 .. RefreshLife
  BY <1>1, Lives
<1>3. Aged(call) = [call EXCEPT !.token = IF call.token = 0 THEN 0 ELSE call.token - 1]
  BY DEF Aged
<1>4. Aged(call) \in CallState
  BY <1>1, <1>2, <1>3, TokenUpdate
<1>5. /\ Aged(call).stage = call.stage /\ Aged(call).again = call.again
      /\ Aged(call).ran = call.ran /\ Aged(call).reply = call.reply
      /\ Aged(call).ended = call.ended
  BY <1>1, <1>3 DEF CallState
<1>6. ~call.again
  BY DEF CallInOrder
<1> QED
  BY <1>4, <1>5, <1>6 DEF CallInOrder

LEMMA TickStep ==
    ASSUME SessionInv, Tick
    PROVE  SessionInv'
<1> DEFINE life == cookies.refresh
           later == cookies'.refresh
           aged == [c \in Call |-> Aged(calls[c])]
<1>1. cookies \in Cookies /\ calls \in [Call -> CallState] /\ life \in Nat
      /\ cookies.access \in 0 .. AccessLife /\ life \in 0 .. RefreshLife
  BY LifeOf DEF SessionInv, SessionTypeOK, Cookies
<1>2. /\ cookies' \in Cookies /\ later \in Nat /\ (later # 0 => life # 0)
  BY <1>1, Lives DEF Tick, Cookies
<1>3. \A c \in Call : CallInOrder(aged[c], life)
  BY <1>1, AgedInOrder DEF Tick, SessionInv
<1>4. aged \in [Call -> CallState]
  BY <1>3 DEF CallInOrder
<1>5. calls' = IF later = 0 THEN Spoil(aged) ELSE aged
  BY DEF Tick, Aged
<1> HIDE DEF aged, later
<1>6. /\ calls' \in [Call -> CallState]
      /\ \A c \in Call : CallInOrder(calls'[c], later)
  <2>1. CASE later = 0
    BY <1>1, <1>2, <1>3, <1>4, <1>5, <2>1, SpoilStep
  <2>2. CASE later # 0
    <3>1. \A c \in Call : CallInOrder(aged[c], later)
      BY <1>2, <1>3, <2>2 DEF CallInOrder
    <3> QED
      BY <1>4, <1>5, <2>2, <3>1
  <2> QED
    BY <2>1, <2>2
<1>7. ticks' \in 0 .. MaxTicks /\ UNCHANGED <<user, door, leaving>>
  BY Lives DEF Tick, SessionInv, SessionTypeOK
<1> QED
  BY <1>2, <1>6, <1>7 DEF SessionInv, SessionTypeOK, later

\* LoginPage and RegisterPage, up to the reply that signs the user in.
LEMMA DoorStep ==
    ASSUME SessionInv,
           \/ \E page \in {"login", "register"} : GoToDoor(page)
           \/ \E field \in {"email", "password", "confirmPassword"}, match \in BOOLEAN :
                TypeField(field, match)
           \/ Submit
           \/ \E stage \in {"granted", "refused"} : ServeDoor(stage)
           \/ \E error \in {"email", "form"} : Refused(error)
    PROVE  SessionInv'
<1>1. UNCHANGED <<cookies, calls, user, leaving, ticks>>
  BY DEF GoToDoor, TypeField, Submit, ServeDoor, Refused
<1>2. door \in Door /\ Missing \in {"email", "password", "confirmPassword", "none"}
  BY DEF SessionInv, SessionTypeOK, Missing
<1>3. door' \in Door
  <2>1. ASSUME NEW page \in {"login", "register"}, GoToDoor(page) PROVE door' \in Door
    BY <2>1 DEF GoToDoor, EmptyDoor, Door
  <2>2. ASSUME NEW field \in {"email", "password", "confirmPassword"}, NEW match \in BOOLEAN,
               TypeField(field, match)
        PROVE  door' \in Door
    <3> DEFINE error == IF door.error \in {field, "form"} \/ door.page = "login"
                        THEN "none" ELSE door.error
    <3>1. door' = [door EXCEPT !.filled = door.filled \cup {field}, !.match = match,
                               !.error = error]
      BY <1>2, <2>2 DEF TypeField, Door
    <3>2. [door EXCEPT !.filled = door.filled \cup {field}] \in Door
      BY <1>2 DEF Door
    <3>3. [door EXCEPT !.filled = door.filled \cup {field}, !.match = match] \in Door
      BY <3>2 DEF Door
    <3>4. error \in {"none", "email", "password", "confirmPassword", "form"}
      BY <1>2 DEF Door
    <3> HIDE DEF error
    <3> QED
      BY <3>1, <3>3, <3>4 DEF Door
  <2>3. CASE Submit
    <3> DEFINE stage == IF Missing = "none" THEN "sent" ELSE door.stage
    <3>1. door' = [door EXCEPT !.error = Missing, !.stage = stage]
      BY <1>2, <2>3 DEF Submit, Door
    <3>2. [door EXCEPT !.error = Missing] \in Door
      BY <1>2 DEF Door
    <3>3. stage \in {"none", "sent", "granted", "refused"}
      BY <1>2 DEF Door
    <3> HIDE DEF stage
    <3> QED
      BY <3>1, <3>2, <3>3 DEF Door
  <2>4. ASSUME NEW stage \in {"granted", "refused"}, ServeDoor(stage) PROVE door' \in Door
    BY <1>2, <2>4 DEF ServeDoor, Door
  <2>5. ASSUME NEW error \in {"email", "form"}, Refused(error) PROVE door' \in Door
    BY <1>2, <2>5 DEF Refused, Door
  <2> QED
    BY <2>1, <2>2, <2>3, <2>4, <2>5
<1> QED
  BY <1>1, <1>3 DEF SessionInv, SessionTypeOK

\* A page that is loaded: after a login, or after a logout.
LEMMA LoadStep ==
    ASSUME SessionInv, cookies' \in Cookies, Start(cookies'), UNCHANGED ticks
    PROVE  SessionInv'
<1>1. calls' = [Quiet EXCEPT ![Me] = Sent(cookies')]
  BY DEF Start
<1>2. /\ calls' \in [Call -> CallState]
      /\ \A c \in Call : CallInOrder(calls'[c], cookies'.refresh)
  BY <1>1, StartInOrder
<1>3. user' = "loading" /\ door' \in Door /\ leaving' = "no"
  BY DEF Start, EmptyDoor, Door
<1> QED
  BY <1>2, <1>3 DEF SessionInv, SessionTypeOK

LEMMA LogoutReplyStep ==
    ASSUME SessionInv, LogoutReply
    PROVE  SessionInv'
<1>1. cookies' \in Cookies /\ cookies'.refresh \in Nat
  BY CookieTypes, LifeOf DEF LogoutReply
<1>2. /\ calls' \in [Call -> CallState]
      /\ \A c \in Call : CallInOrder(calls'[c], cookies'.refresh)
  BY <1>1, LifeOf, SpoilStep DEF LogoutReply, SessionInv, SessionTypeOK
<1> QED
  BY <1>1, <1>2 DEF LogoutReply, SessionInv, SessionTypeOK

LEMMA OtherTabStep ==
    ASSUME SessionInv, NEW now \in {NoCookies, NewCookies}, OtherTab(now)
    PROVE  SessionInv'
<1>1. cookies' = now /\ cookies' \in Cookies /\ cookies'.refresh \in Nat
      /\ cookies.refresh \in Nat
  BY CookieTypes, LifeOf DEF OtherTab, SessionInv, SessionTypeOK
<1>2. /\ calls' \in [Call -> CallState]
      /\ \A c \in Call : CallInOrder(calls'[c], cookies'.refresh)
  <2>1. CASE now = NoCookies
    BY <1>1, <2>1, SpoilStep DEF OtherTab, SessionInv, SessionTypeOK
  <2>2. CASE now # NoCookies
    <3>1. UNCHANGED calls /\ cookies'.refresh # 0
      BY <1>1, <2>2, Lives DEF OtherTab, NewCookies
    <3> QED
      BY <3>1 DEF SessionInv, SessionTypeOK, CallInOrder
  <2> QED
    BY <2>1, <2>2
<1> QED
  BY <1>1, <1>2 DEF OtherTab, SessionInv, SessionTypeOK

LEMMA SessionStep ==
    ASSUME SessionInv, [SessionNext]_sessionVars
    PROVE  SessionInv'
<1>1. CASE UNCHANGED sessionVars
  BY <1>1 DEF SessionInv, SessionTypeOK, sessionVars
<1>2. ASSUME NEW c \in Call,
             Begin(c) \/ Serve(c) \/ Reply(c) \/ ServeRefresh(c) \/ RefreshReply(c) \/ Lose(c)
      PROVE  SessionInv'
  BY <1>2, FetchStep
<1>3. CASE \/ \E page \in {"login", "register"} : GoToDoor(page)
           \/ \E field \in {"email", "password", "confirmPassword"}, match \in BOOLEAN :
                TypeField(field, match)
           \/ Submit
           \/ \E stage \in {"granted", "refused"} : ServeDoor(stage)
           \/ \E error \in {"email", "form"} : Refused(error)
  BY <1>3, DoorStep
<1>4. CASE Enter
  BY <1>4, CookieTypes, LoadStep DEF Enter
<1>5. CASE Logout \/ LogoutLost
  BY <1>5 DEF Logout, LogoutLost, SessionInv, SessionTypeOK
<1>6. CASE LogoutReply
  BY <1>6, LogoutReplyStep
<1>7. CASE Unload
  <2>1. cookies' = cookies /\ cookies \in Cookies
    BY <1>7 DEF Unload, SessionInv, SessionTypeOK
  <2>2. Start(cookies') /\ UNCHANGED ticks
    BY <1>7, <2>1 DEF Unload, Start
  <2> QED
    BY <2>1, <2>2, LoadStep
<1>8. ASSUME NEW now \in {NoCookies, NewCookies}, OtherTab(now) PROVE SessionInv'
  BY <1>8, OtherTabStep
<1>9. CASE Tick
  BY <1>9, TickStep
<1> QED
  BY <1>1, <1>2, <1>3, <1>4, <1>5, <1>6, <1>7, <1>8, <1>9 DEF SessionNext

LEMMA SessionStarts == SessionInit => SessionInv
<1> SUFFICES ASSUME SessionInit PROVE SessionInv
  OBVIOUS
<1>1. [NewCookies EXCEPT !.access = 0] \in Cookies
  BY Lives DEF Cookies, NewCookies
<1>2. cookies \in Cookies /\ cookies.refresh \in Nat
  BY <1>1, CookieTypes, LifeOf DEF SessionInit
<1>3. calls \in [Call -> CallState] /\ \A c \in Call : CallInOrder(calls[c], cookies.refresh)
  <2>1. \A c \in Call : calls[c] = IF c = Me THEN Sent(cookies) ELSE Idle
    BY Lives DEF SessionInit, Quiet
  <2>2. \A c \in Call : CallInOrder(calls[c], cookies.refresh)
    BY <1>2, <2>1, IdleInOrder, SentInOrder
  <2>3. Idle \in CallState /\ Sent(cookies) \in CallState
    BY <1>2, IdleInOrder, SentInOrder DEF CallInOrder
  <2> QED
    BY <2>2, <2>3, Lives DEF SessionInit, Quiet
<1>4. door \in Door /\ ticks \in 0 .. MaxTicks
  BY Lives DEF SessionInit, EmptyDoor, Door
<1> QED
  BY <1>2, <1>3, <1>4 DEF SessionInv, SessionTypeOK, SessionInit

\* Every reachable state of the session is as SessionInv says.
THEOREM SessionInvariant == SessionSpec => []SessionInv
<1>1. SessionInit => SessionInv
  BY SessionStarts
<1>2. SessionInv /\ [SessionNext]_sessionVars => SessionInv'
  BY SessionStep
<1> QED
  BY <1>1, <1>2, PTL DEF SessionSpec

-----------------------------------------------------------------------------
(* The results.                                                            *)

\* The session keeps its types: cookies, calls, forms and the user, whatever
\* replies come when.
THEOREM SessionTypes == SessionSpec => []SessionTypeOK
<1>1. SessionInv => SessionTypeOK
  BY DEF SessionInv
<1> QED
  BY <1>1, SessionInvariant, PTL

\* apiFetch repeats only requests whose handler has not run.
THEOREM CallsRunOnce == SessionSpec => []CallRunsOnce
<1>1. SessionInv => CallRunsOnce
  BY DEF SessionInv, CallInOrder, CallRunsOnce
<1> QED
  BY <1>1, SessionInvariant, PTL

\* While the session can be renewed, no call of apiFetch ends with 401, however
\* many of them renew it at the same time.
THEOREM LiveSessionsAreRenewed == SessionSpec => []LiveSessionIsRenewed
<1>1. SessionInv => LiveSessionIsRenewed
  BY DEF SessionInv, CallInOrder, LiveSessionIsRenewed
<1> QED
  BY <1>1, SessionInvariant, PTL
=============================================================================
