---------------------------- MODULE AuthSessions ----------------------------
(***************************************************************************)
(* Sign-in sessions: the pages of one user's browser and the auth service. *)
(*                                                                         *)
(* A sign-in issues a pair, a short-lived access token and a refresh token *)
(* good for one exchange; the pair stands here for both.  All tabs share   *)
(* the pair in localStorage.  A page whose call is answered 401 exchanges  *)
(* the refresh token, once for all its calls that wait, and repeats them;  *)
(* when that fails it empties the store and shows the login page.          *)
(*                                                                         *)
(* On the server each request is a transaction that reads, then commits.   *)
(* Answers can be lost, pages reloaded in the middle, the user can sign    *)
(* out in one tab while another works, and passwords are reset.            *)
(***************************************************************************)
EXTENDS Naturals, FiniteSets

CONSTANTS
  Tabs,         \* pages of one browser
  Calls,        \* API calls a page makes
  Requests,     \* requests the auth service has in hand
  Tokens,       \* token pairs
  MaxSignIns,   \* bound: sign-ins
  MaxTroubles,  \* bound: page loads, lost answers, expired or lapsed tokens, resets
  None          \* no pair, no request

VARIABLES
  store,      \* tokenStore: the pair in localStorage
  user,       \* AuthContext: whether a page shows its user signed in
  promise,    \* refreshPromise: the request a page's refresh awaits
  call,       \* calls under way
  req,        \* requests the auth service has in hand
  issued,     \* refresh_tokens: every row
  live,       \* those neither revoked nor past expires_at
  expired,    \* pairs whose access token has expired
  password,   \* version of the password hash
  signIns, troubles,
  sent,       \* history: how often a page, since it was loaded, sent a token
  tried,      \* history: the tokens any page has sent to be exchanged
  excused,    \* history: whether something happened that may end a session
  ended,      \* history: whether a page dropped a session by itself
  closed      \* history: the tokens issued when a reset that has committed read

bounds  == <<signIns, troubles>>
page    == <<store, user, promise, call>>
server  == <<issued, live, password>>
history == <<sent, tried, excused, ended, closed>>
vars    == <<page, req, server, expired, bounds, history>>

-----------------------------------------------------------------------------
Pair == Tokens \cup {None}

(* kind: data, the /auth/me of a page load, or a sign-in and its /auth/me. *)
(* pc: under way, waiting for the refresh, repeated after it, or waiting   *)
(* for /auth/login.  with: the access token in its header.                 *)
Call == [tab : Tabs, kind : {"data", "load", "signin"},
         pc : {"sent", "waiting", "again", "login"}, with : Pair, req : Requests \cup {None}]

NoCall == [pc |-> "none"]

(* token: the one presented; link: the password a reset link is for;       *)
(* answer: the pair issued; seen: the tokens a reset has read to revoke;   *)
(* known (history): all that were issued by then.                          *)
Request == [op : {"login", "refresh", "logout", "reset"},
            pc : {"sent", "checked", "listed", "answered", "refused"},
            token : Pair, link : Nat, answer : Pair,
            seen : SUBSET Tokens, known : SUBSET Tokens]

NoRequest == [pc |-> "none"]

ASSUME TokensAssumption == Tokens # {} /\ None \notin Tokens \cup Requests

TypeOK ==
  /\ store    \in Pair
  /\ user     \in [Tabs -> BOOLEAN]
  /\ promise  \in [Tabs -> Requests \cup {None}]
  /\ call     \in [Calls -> Call \cup {NoCall}]
  /\ req      \in [Requests -> Request \cup {NoRequest}]
  /\ issued   \subseteq Tokens
  /\ live     \subseteq issued
  /\ expired  \subseteq issued
  /\ password \in Nat
  /\ signIns \in Nat /\ troubles \in Nat
  /\ sent     \in [Tabs -> [Tokens -> Nat]]
  /\ tried    \subseteq Tokens
  /\ excused  \in BOOLEAN
  /\ ended    \in BOOLEAN
  /\ closed   \subseteq issued

(* Nobody is signed in, or all the pages are, since long ago. *)
Init ==
  /\ store \in {None, CHOOSE k \in Tokens : TRUE}
  /\ user = [t \in Tabs |-> store # None]
  /\ promise = [t \in Tabs |-> None]
  /\ call = [c \in Calls |-> NoCall]
  /\ req = [r \in Requests |-> NoRequest]
  /\ issued = {store} \ {None} /\ live = issued /\ expired = {}
  /\ password = 0
  /\ signIns = (IF store = None THEN 0 ELSE 1) /\ troubles = 0
  /\ sent = [t \in Tabs |-> [k \in Tokens |-> 0]]
  /\ tried = {} /\ excused = FALSE /\ ended = FALSE /\ closed = {}

CalmEnough == troubles + Cardinality(expired) < MaxTroubles

Trouble ==
  /\ CalmEnough
  /\ troubles' = troubles + 1
  /\ signIns' = signIns

-----------------------------------------------------------------------------
(* Requests of the auth service                                            *)

FreeRequests == {r \in Requests : req[r] = NoRequest}

FreeRequest == CHOOSE r \in Requests : req[r] = NoRequest

New(op, token, link) ==
  [op |-> op, pc |-> "sent", token |-> token, link |-> link, answer |-> None,
   seen |-> {}, known |-> {}]

Send(op, token, link) == req' = [req EXCEPT ![FreeRequest] = New(op, token, link)]

Awaited(r) == (\E t \in Tabs : promise[t] = r) \/ (\E c \in Calls : call[c] # NoCall /\ call[c].req = r)

(* An answer nobody waits for any more is gone. *)
Answer(r, pc, k) ==
  req' = [req EXCEPT ![r] = IF Awaited(r) THEN [@ EXCEPT !.pc = pc, !.answer = k] ELSE NoRequest]

Answered(r) == req[r].pc \in {"answered", "refused"}

(* The browser stops waiting for these requests; the server does not know. *)
Abandon(rs) == req' = [r \in Requests |-> IF r \in rs /\ Answered(r) THEN NoRequest ELSE req[r]]

-----------------------------------------------------------------------------
(* The auth service                                                        *)

(* get_valid_by_hash, outside any lock. *)
CheckRefresh(r) ==
  /\ req[r].pc = "sent" /\ req[r].op = "refresh"
  /\ IF req[r].token \in live
     THEN req' = [req EXCEPT ![r].pc = "checked"]
     ELSE Answer(r, "refused", None)
  /\ UNCHANGED <<page, server, expired, bounds, history>>

Fresh == CHOOSE k \in Tokens : k \notin issued

(* Variant: the row of the new token is never added. *)
SkipToken(k) == issued' = issued

AddToken(k) == issued' = issued \cup {k}

(* _issue_token_pair commits: a new token, and the one it replaces revoked, *)
(* whatever became of that one since it was read.                           *)
IssuePair(r) ==
  /\ \/ req[r].pc = "checked" /\ req[r].op = "refresh"
     \/ req[r].pc = "sent" /\ req[r].op = "login"
  /\ Tokens \ issued # {}
  /\ AddToken(Fresh)
  /\ live' = (live \ {req[r].token}) \cup {Fresh}
  /\ Answer(r, "answered", Fresh)
  /\ UNCHANGED <<page, password, expired, bounds, history>>

Logout(r) ==
  /\ req[r].pc = "sent" /\ req[r].op = "logout"
  /\ live' = live \ {req[r].token}
  /\ req' = [req EXCEPT ![r] = NoRequest]
  /\ UNCHANGED <<page, issued, password, expired, bounds, history>>

(* The link is checked against the password it was mailed for. *)
CheckLink(r) ==
  /\ req[r].pc = "sent" /\ req[r].op = "reset"
  /\ req' = [req EXCEPT ![r] = IF @.link = password THEN [@ EXCEPT !.pc = "checked"] ELSE NoRequest]
  /\ UNCHANGED <<page, server, expired, bounds, history>>

(* revoke_all_for_user reads the tokens it will revoke. *)
ListSessions(r) ==
  /\ req[r].pc = "checked" /\ req[r].op = "reset"
  /\ req' = [req EXCEPT ![r].pc = "listed", ![r].seen = live, ![r].known = issued]
  /\ UNCHANGED <<page, server, expired, bounds, history>>

(* Variant: the password is stored, and the sessions are left alone. *)
CommitPassword(r) ==
  /\ req[r].pc = "listed"
  /\ password' = password + 1
  /\ req' = [req EXCEPT ![r] = NoRequest]
  /\ excused' = TRUE
  /\ closed' = closed \cup req[r].known
  /\ UNCHANGED <<page, issued, live, expired, bounds, sent, tried, ended>>

CommitReset(r) ==
  /\ req[r].pc = "listed"
  /\ password' = password + 1
  /\ live' = live \ req[r].seen
  /\ req' = [req EXCEPT ![r] = NoRequest]
  /\ excused' = TRUE
  /\ closed' = closed \cup req[r].known
  /\ UNCHANGED <<page, issued, expired, bounds, sent, tried, ended>>

(* A user asks for the new password with a link mailed some time ago. *)
StartReset ==
  /\ Trouble
  /\ FreeRequests # {}
  /\ \E link \in 0 .. password : Send("reset", None, link)
  /\ UNCHANGED <<page, server, expired, history>>

(* Time: access tokens live minutes, refresh tokens days. *)
Expire(k) ==
  /\ CalmEnough
  /\ expired' = expired \cup {k}
  /\ UNCHANGED <<page, req, server, bounds, history>>

Lapse(k) ==
  /\ Trouble
  /\ live' = live \ {k}
  /\ excused' = TRUE
  /\ UNCHANGED <<page, req, issued, password, expired, sent, tried, ended, closed>>

-----------------------------------------------------------------------------
(* A page's calls                                                          *)

Free(c) == call[c] = NoCall

Place(t, kind, pc, r) ==
  [tab |-> t, kind |-> kind, pc |-> pc, with |-> store, req |-> r]

StartCall(t, c) ==
  /\ user[t] /\ Free(c)
  /\ call' = [call EXCEPT ![c] = Place(t, "data", "sent", None)]
  /\ UNCHANGED <<store, user, promise, req, server, expired, bounds, history>>

(* get_current_user: the header names an access token still valid. *)
Welcome(c) == call[c].with # None /\ call[c].with \notin expired

(* The answer is there; /auth/me makes the page show its user. *)
CallSucceeds(c) ==
  /\ call[c].pc \in {"sent", "again"} /\ Welcome(c)
  /\ call' = [call EXCEPT ![c] = NoCall]
  /\ user' = IF call[c].kind = "data" THEN user ELSE [user EXCEPT ![call[c].tab] = TRUE]
  /\ UNCHANGED <<store, promise, req, server, expired, bounds, history>>

(* After a failed page load the store is emptied, for whatever reason. *)
StoreAfterFailed(c) == IF call[c].kind = "load" THEN None ELSE store

(* Any other call that fails leaves the session alone.                      *)
ExcuseFailed(c) == excused' = (excused \/ call[c].kind = "load")

(* A network error, before or after the server saw the call. *)
LoseCall(c) ==
  /\ call[c].pc \in {"sent", "again"}
  /\ Trouble
  /\ ExcuseFailed(c)
  /\ call' = [call EXCEPT ![c] = NoCall]
  /\ store' = StoreAfterFailed(c)
  /\ UNCHANGED <<user, promise, req, server, expired, sent, tried, ended, closed>>

(* 401 again after the refresh: an error like any other. *)
DeniedAgain(c) ==
  /\ call[c].pc = "again" /\ ~Welcome(c)
  /\ call' = [call EXCEPT ![c] = NoCall]
  /\ store' = StoreAfterFailed(c)
  /\ ExcuseFailed(c)
  /\ UNCHANGED <<user, promise, req, server, expired, bounds, sent, tried, ended, closed>>

Denied(c) == call[c].pc = "sent" /\ ~Welcome(c)

(* Variant: every 401 refreshes. *)
AlwaysFirst(t) == TRUE

(* No refresh of this page is under way. *)
IsFirst(t) == promise[t] = None

JoinRefresh(c) ==
  /\ Denied(c)
  /\ ~IsFirst(call[c].tab)
  /\ call' = [call EXCEPT ![c].pc = "waiting"]
  /\ UNCHANGED <<store, user, promise, req, server, expired, bounds, history>>

StartRefresh(c) ==
  LET t == call[c].tab IN
  /\ Denied(c)
  /\ IsFirst(t)
  /\ store # None
  /\ FreeRequests # {}
  /\ Send("refresh", store, 0)
  /\ promise' = [promise EXCEPT ![t] = FreeRequest]
  /\ call' = [call EXCEPT ![c].pc = "waiting"]
  /\ sent' = [sent EXCEPT ![t][store] = @ + 1]
  /\ tried' = tried \cup {store}
  /\ excused' = (excused \/ (store \in tried /\ sent[t][store] = 0))
  /\ UNCHANGED <<store, user, server, expired, bounds, ended, closed>>

(* emitLoggedOut *)
EndSession(t) ==
  /\ store' = None
  /\ user' = [user EXCEPT ![t] = FALSE]
  /\ ended' = TRUE

NoTokenLeft(c) ==
  /\ Denied(c)
  /\ IsFirst(call[c].tab)
  /\ store = None
  /\ call' = [call EXCEPT ![c] = NoCall]
  /\ EndSession(call[c].tab)
  /\ UNCHANGED <<promise, req, server, expired, bounds, sent, tried, excused, closed>>

Waiting(c, t) == call[c] # NoCall /\ call[c].pc = "waiting" /\ call[c].tab = t

ForgetPromise(t) == promise' = [promise EXCEPT ![t] = None]

(* Variant: the refresh token that was presented is kept. *)
OldPair(r) == req[r].token

NewPair(r) == req[r].answer

(* The new pair is stored and every waiting call repeated with it. *)
RefreshSucceeds(t) ==
  LET r == promise[t] IN
  /\ r # None /\ req[r].pc = "answered"
  /\ store' = NewPair(r)
  /\ ForgetPromise(t)
  /\ req' = [req EXCEPT ![r] = NoRequest]
  /\ call' = [c \in Calls |->
       IF Waiting(c, t) THEN [call[c] EXCEPT !.pc = "again", !.with = NewPair(r)] ELSE call[c]]
  /\ UNCHANGED <<user, server, expired, bounds, history>>

(* Variant: a refresh that fails is not passed on to the calls that wait. *)
LeaveWaiting(t) == call' = call

(* Every waiting call fails with it. *)
FailWaiting(t) == call' = [c \in Calls |-> IF Waiting(c, t) THEN NoCall ELSE call[c]]

RefreshRefused(t) ==
  LET r == promise[t] IN
  /\ r # None /\ req[r].pc = "refused"
  /\ ForgetPromise(t)
  /\ req' = [req EXCEPT ![r] = NoRequest]
  /\ FailWaiting(t)
  /\ EndSession(t)
  /\ UNCHANGED <<server, expired, bounds, sent, tried, excused, closed>>

(* A network error: the server may yet commit the exchange. *)
RefreshLost(t) ==
  /\ promise[t] # None
  /\ Trouble
  /\ excused' = TRUE
  /\ ForgetPromise(t)
  /\ Abandon({promise[t]})
  /\ FailWaiting(t)
  /\ EndSession(t)
  /\ UNCHANGED <<server, expired, sent, tried, closed>>

-----------------------------------------------------------------------------
(* Signing in and out, and page loads                                      *)

SigningIn(t) == \E c \in Calls : call[c] # NoCall /\ call[c].kind = "signin" /\ call[c].tab = t

(* The login page posts the form. *)
SignIn(t, c) ==
  /\ ~user[t] /\ ~SigningIn(t) /\ Free(c)
  /\ signIns < MaxSignIns
  /\ signIns' = signIns + 1
  /\ FreeRequests # {}
  /\ Send("login", None, 0)
  /\ call' = [call EXCEPT ![c] = Place(t, "signin", "login", FreeRequest)]
  /\ UNCHANGED <<store, user, promise, server, expired, troubles, history>>

(* The pair is stored, and /auth/me asked with it. *)
SignedIn(c) ==
  LET r == call[c].req IN
  /\ call[c].pc = "login"
  /\ r # None /\ req[r].pc = "answered"
  /\ store' = req[r].answer
  /\ call' = [call EXCEPT ![c].pc = "sent", ![c].with = req[r].answer, ![c].req = None]
  /\ req' = [req EXCEPT ![r] = NoRequest]
  /\ UNCHANGED <<user, promise, server, expired, bounds, history>>

SignInLost(c) ==
  /\ call[c].pc = "login"
  /\ Trouble
  /\ excused' = TRUE
  /\ call' = [call EXCEPT ![c] = NoCall]
  /\ Abandon({call[c].req})
  /\ UNCHANGED <<store, user, promise, server, expired, sent, tried, ended, closed>>

(* The store is emptied first; the server is told afterwards, if possible. *)
SignOut(t) ==
  /\ user[t]
  /\ store' = None
  /\ user' = [user EXCEPT ![t] = FALSE]
  /\ excused' = TRUE
  /\ IF store = None
     THEN UNCHANGED req
     ELSE FreeRequests # {} /\ Send("logout", store, 0)
  /\ UNCHANGED <<promise, call, server, expired, bounds, sent, tried, ended, closed>>

(* A reload: the page's calls and its refresh are forgotten. *)
Unloaded(t) == [c \in Calls |-> IF call[c] # NoCall /\ call[c].tab = t THEN NoCall ELSE call[c]]

LoadPage(t) ==
  /\ Trouble
  /\ user' = [user EXCEPT ![t] = FALSE]
  /\ promise' = [promise EXCEPT ![t] = None]
  /\ sent' = [sent EXCEPT ![t] = [k \in Tokens |-> 0]]
  /\ Abandon({promise[t]} \cup {call[c].req : c \in {d \in Calls : call[d] # NoCall /\ call[d].tab = t}})
  /\ IF store = None
     THEN call' = Unloaded(t)
     ELSE \E c \in Calls :
            /\ Unloaded(t)[c] = NoCall
            /\ call' = [Unloaded(t) EXCEPT ![c] = Place(t, "load", "sent", None)]
  /\ UNCHANGED <<store, server, expired, tried, excused, ended, closed>>

-----------------------------------------------------------------------------
Handle(r) ==
  \/ CheckRefresh(r) \/ IssuePair(r) \/ Logout(r)
  \/ CheckLink(r) \/ ListSessions(r) \/ CommitReset(r)

Continue(c) ==
  \/ CallSucceeds(c) \/ DeniedAgain(c)
  \/ JoinRefresh(c) \/ StartRefresh(c) \/ NoTokenLeft(c)
  \/ SignedIn(c)

Resolve(t) == RefreshSucceeds(t) \/ RefreshRefused(t)

Next ==
  \/ \E r \in Requests : Handle(r)
  \/ \E c \in Calls : Continue(c) \/ LoseCall(c) \/ SignInLost(c)
  \/ \E t \in Tabs :
       \/ Resolve(t) \/ RefreshLost(t) \/ SignOut(t) \/ LoadPage(t)
       \/ \E c \in Calls : StartCall(t, c) \/ SignIn(t, c)
  \/ \E k \in issued \ expired : Expire(k)
  \/ \E k \in live : Lapse(k)
  \/ StartReset

Spec == Init /\ [][Next]_vars

(* The server handles what reached it, or the connection reports an error, *)
(* and the browser runs the continuation of every answer.                  *)
FairSpec ==
  /\ Spec
  /\ WF_vars(\E r \in Requests : Handle(r))
  /\ \A c \in Calls : WF_vars(Continue(c))
  /\ WF_vars(\E t \in Tabs : Resolve(t))

-----------------------------------------------------------------------------
(* Properties                                                              *)

(* "Concurrent 401s must share one refresh attempt": a page never sends one *)
(* refresh token twice, however its calls, the other tabs, sign-ins and     *)
(* lost answers interleave.                                                 *)
PageSendsTokenOnce == \A t \in Tabs, k \in Tokens : sent[t][k] <= 1

(* A page drops its session only for a reason: the answer to a refresh or a *)
(* sign-in was lost, the call of a page load failed (lost, or refused once  *)
(* more after its refresh), the user signed out or reset the password, the  *)
(* token lapsed, or two pages sent the same one.  Overlapping 401s,         *)
(* sign-ins and rotations of one page are no reason, nor is the failure of  *)
(* any other call.                                                          *)
SessionEndsForCause == ended => excused

(* revoke_all_for_user: a token issued before a password reset read what it *)
(* would revoke is dead once the reset has committed, and stays so, whoever *)
(* signs in, exchanges it or resets again meanwhile.                        *)
ResetEndsSessions == closed \cap live = {}

(* An exchange, or a sign-in, that the server still has to answer or has    *)
(* answered.                                                                *)
ExchangeComes(r) ==
  r # None /\ req[r] # NoRequest /\ req[r].op = "refresh" /\ req[r].pc # "listed"

LoginComes(r) ==
  r # None /\ req[r] # NoRequest /\ req[r].op = "login" /\ req[r].pc \in {"sent", "answered"}

(* Every waiter has something to wait for: the exchange its page awaits, or *)
(* its own sign-in, is still on its way to it, however 401s of one page     *)
(* meet the end of a refresh and whatever other pages abandon.              *)
NobodyWaitsInVain ==
  \A c \in Calls :
    /\ call[c].pc = "waiting" => ExchangeComes(promise[call[c].tab])
    /\ call[c].pc = "login" => LoginComes(call[c].req)

(* No call waits forever for a refresh, whatever becomes of it. *)
CallsSettle == \A c \in Calls : call[c] # NoCall ~> call[c] = NoCall

-----------------------------------------------------------------------------
(* The inductive invariant                                                 *)

Exchange(r) == req[r].pc \in {"sent", "checked"} /\ req[r].op = "refresh"

(* A pair on its way to a page is one no page has had or sent. *)
AnswersFresh ==
  \A r \in Requests :
    req[r].pc = "answered" =>
      /\ req[r].answer \in issued \ tried
      /\ req[r].answer # store
      /\ \A q \in Requests \ {r} :
           req[q].pc = "answered" => req[q].answer # req[r].answer

(* A page that awaits no refresh has not sent the token in the store. *)
StoreUnsent ==
  /\ store # None => store \in issued
  /\ tried \subseteq issued
  /\ \A t \in Tabs, k \in Tokens : sent[t][k] > 0 => k \in tried
  /\ \A t \in Tabs : promise[t] = None /\ store # None => sent[t][store] = 0

(* While nothing excuses the end of a session: signed-in pages and their    *)
(* calls have a pair, every token under exchange is live and exchanged once, *)
(* and so is any other the store has or gets.                               *)
SessionAlive ==
  ~excused =>
    /\ ~ended
    /\ \A t \in Tabs : user[t] => store # None
    /\ \A c \in Calls : call[c].pc \in {"sent", "again"} => store # None
    /\ store \notin tried \cup {None} => store \in live
    /\ \A r \in Requests :
         /\ req[r].pc # "refused"
         /\ req[r].pc = "sent" => req[r].op # "logout"
         /\ req[r].pc = "sent" /\ req[r].op = "login" => req[r].token = None
         /\ req[r].pc = "answered" => req[r].answer \in live
         /\ Exchange(r) =>
              /\ req[r].token \in tried
              /\ req[r].pc = "sent" => req[r].token \in live
              /\ \A q \in Requests \ {r} : Exchange(q) => req[q].token # req[r].token

(* What a reset did not read, it did not have to: it was dead already. *)
ResetKnown ==
  /\ ResetEndsSessions
  /\ \A r \in Requests :
       req[r].pc = "listed" =>
         /\ req[r].known \subseteq issued
         /\ req[r].known \cap live \subseteq req[r].seen

(* Each page awaits an exchange, and each sign-in a request, of its own.    *)
WaitersKnown ==
  /\ NobodyWaitsInVain
  /\ \A t \in Tabs : promise[t] # None => ExchangeComes(promise[t])
  /\ \A t \in Tabs : \A u \in Tabs \ {t} : promise[t] # None => promise[u] # promise[t]
  /\ \A c \in Calls : call[c] # NoCall /\ call[c].pc # "login" => call[c].req = None
  /\ \A c \in Calls : \A d \in Calls \ {c} :
       call[c].pc = "login" /\ call[d].pc = "login" => call[d].req # call[c].req

IInv ==
  /\ TypeOK
  /\ PageSendsTokenOnce
  /\ AnswersFresh
  /\ StoreUnsent
  /\ SessionAlive
  /\ ResetKnown
  /\ WaitersKnown
=============================================================================
