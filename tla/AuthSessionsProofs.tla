------------------------- MODULE AuthSessionsProofs -------------------------
(***************************************************************************)
(* Proofs about AuthSessions, for any number of tabs, calls, requests,     *)
(* sign-ins and troubles.                                                  *)
(*                                                                         *)
(* Everything rests on the life of a token: it is issued, stored once, and *)
(* sent at most once by each page before the store forgets it.             *)
(* AnswersFresh and StoreUnsent say where in that life each token is, and  *)
(* SessionAlive that, while nothing went wrong, the tokens still to be     *)
(* sent are live.  ResetKnown adds what a reset knows between its read and *)
(* its commit: no token comes back to life, so what it did not read is     *)
(* dead or younger.  WaitersKnown gives each page and each sign-in a       *)
(* request of its own, which nobody else ends.                             *)
(***************************************************************************)
EXTENDS AuthSessions, TLAPS

LEMMA NoneType ==
  /\ \A k \in Tokens : k # None
  /\ \A r \in Requests : r # None
  BY TokensAssumption

(* A slot that has been given up can be told from a request. *)
LEMMA RequestType ==
  ASSUME TypeOK, NEW r \in Requests, req[r].pc # "none"
  PROVE  /\ req[r] \in Request
         /\ req[r] # NoRequest
  BY DEF TypeOK, Request, NoRequest

LEMMA CallType ==
  ASSUME TypeOK, NEW c \in Calls, call[c].pc # "none"
  PROVE  /\ call[c] \in Call
         /\ call[c] # NoCall
  BY DEF TypeOK, Call, NoCall

LEMMA CallPlaced ==
  ASSUME TypeOK, NEW c \in Calls, call[c] # NoCall
  PROVE  call[c] \in Call
  BY DEF TypeOK

LEMMA FreeRequestType ==
  ASSUME FreeRequests # {}
  PROVE  FreeRequest \in Requests /\ req[FreeRequest] = NoRequest
  BY DEF FreeRequests, FreeRequest

LEMMA FreshType ==
  ASSUME Tokens \ issued # {}
  PROVE  Fresh \in Tokens \ issued
  BY DEF Fresh

LEMMA SendType ==
  ASSUME TypeOK, FreeRequests # {},
         NEW op \in {"login", "refresh", "logout", "reset"}, NEW token \in Pair, NEW link \in Nat,
         Send(op, token, link)
  PROVE  req' \in [Requests -> Request \cup {NoRequest}]
<1>1. New(op, token, link) \in Request
  BY DEF New, Request, Pair
<1> QED
  BY <1>1, FreeRequestType DEF Send, TypeOK

LEMMA AnswerType ==
  ASSUME TypeOK, NEW r \in Requests, req[r] \in Request,
         NEW pc \in {"answered", "refused"}, NEW k \in Pair,
         Answer(r, pc, k)
  PROVE  req' \in [Requests -> Request \cup {NoRequest}]
<1>1. [req[r] EXCEPT !.pc = pc, !.answer = k] \in Request
  BY DEF Request
<1> QED
  BY <1>1 DEF Answer, TypeOK

LEMMA AbandonType ==
  ASSUME TypeOK, NEW rs, Abandon(rs)
  PROVE  req' \in [Requests -> Request \cup {NoRequest}]
  BY DEF Abandon, TypeOK

LEMMA EndType ==
  ASSUME TypeOK, NEW t \in Tabs, EndSession(t)
  PROVE  store' \in Pair /\ user' \in [Tabs -> BOOLEAN] /\ ended' \in BOOLEAN
  BY DEF TypeOK, EndSession, Pair

LEMMA FailType ==
  ASSUME TypeOK, NEW t \in Tabs, FailWaiting(t)
  PROVE  call' \in [Calls -> Call \cup {NoCall}]
  BY DEF TypeOK, FailWaiting

LEMMA PlaceType ==
  ASSUME TypeOK, NEW t \in Tabs, NEW kind \in {"data", "load", "signin"}, NEW pc \in {"sent", "login"},
         NEW r \in Requests \cup {None}
  PROVE  Place(t, kind, pc, r) \in Call
  BY DEF TypeOK, Place, Call

LEMMA UnloadedType ==
  ASSUME TypeOK, NEW t \in Tabs
  PROVE  Unloaded(t) \in [Calls -> Call \cup {NoCall}]
  BY DEF TypeOK, Unloaded

-----------------------------------------------------------------------------
LEMMA ServerTypes ==
  ASSUME TypeOK, ResetKnown, NEW r \in Requests, Handle(r)
  PROVE  TypeOK'
<1>1. CASE CheckRefresh(r)
  <2>1. req[r] \in Request
    BY <1>1, RequestType DEF CheckRefresh
  <2>2. req' \in [Requests -> Request \cup {NoRequest}]
    <3>1. CASE req[r].token \in live
      <4>1. [req[r] EXCEPT !.pc = "checked"] \in Request
        BY <2>1 DEF Request
      <4> QED
        BY <1>1, <3>1, <4>1 DEF CheckRefresh, TypeOK
    <3>2. CASE req[r].token \notin live
      BY <1>1, <2>1, <3>2, AnswerType DEF CheckRefresh, Pair
    <3> QED
      BY <3>1, <3>2
  <2> QED
    BY <1>1, <2>2 DEF CheckRefresh, TypeOK, page, server, bounds, history
<1>2. CASE IssuePair(r)
  <2>1. req[r] \in Request
    BY <1>2, RequestType DEF IssuePair
  <2>2. Fresh \in Tokens
    BY <1>2, FreshType DEF IssuePair
  <2>3. req' \in [Requests -> Request \cup {NoRequest}]
    BY <1>2, <2>1, <2>2, AnswerType DEF IssuePair, Pair
  <2> QED
    BY <1>2, <2>2, <2>3 DEF IssuePair, AddToken, TypeOK, page, bounds, history
<1>3. CASE Logout(r)
  BY <1>3 DEF Logout, TypeOK, page, bounds, history
<1>4. CASE CheckLink(r)
  <2>1. req[r] \in Request
    BY <1>4, RequestType DEF CheckLink
  <2>2. [req[r] EXCEPT !.pc = "checked"] \in Request
    BY <2>1 DEF Request
  <2> QED
    BY <1>4, <2>2 DEF CheckLink, TypeOK, page, server, bounds, history
<1>5. CASE ListSessions(r)
  <2>1. req[r] \in Request
    BY <1>5, RequestType DEF ListSessions
  <2>2. [req[r] EXCEPT !.pc = "listed", !.seen = live, !.known = issued] \in Request
    BY <2>1 DEF Request, TypeOK
  <2>3. req' = [req EXCEPT ![r] = [req[r] EXCEPT !.pc = "listed", !.seen = live, !.known = issued]]
    BY <1>5 DEF ListSessions, TypeOK
  <2> QED
    BY <1>5, <2>2, <2>3 DEF ListSessions, TypeOK, page, server, bounds, history
<1>6. CASE CommitReset(r)
  <2>1. req[r] \in Request
    BY <1>6, RequestType DEF CommitReset
  <2>2. req[r].known \subseteq issued
    BY <1>6 DEF CommitReset, ResetKnown
  <2> QED
    BY <1>6, <2>2 DEF CommitReset, TypeOK, page, bounds
<1> QED
  BY <1>1, <1>2, <1>3, <1>4, <1>5, <1>6 DEF Handle

LEMMA CallTypes ==
  ASSUME TypeOK, NEW c \in Calls, Continue(c) \/ LoseCall(c) \/ SignInLost(c)
  PROVE  TypeOK'
<1> USE DEF page, server, bounds, history
<1>1. CASE CallSucceeds(c)
  <2>1. call[c].tab \in Tabs
    BY <1>1, CallType DEF CallSucceeds, Call
  <2> QED
    BY <1>1, <2>1 DEF CallSucceeds, TypeOK
<1>2. CASE DeniedAgain(c)
  BY <1>2 DEF DeniedAgain, TypeOK, StoreAfterFailed, ExcuseFailed, Pair
<1>3. CASE JoinRefresh(c)
  <2>1. call[c] \in Call
    BY <1>3, CallType DEF JoinRefresh, Denied
  <2>2. [call[c] EXCEPT !.pc = "waiting"] \in Call
    BY <2>1 DEF Call
  <2> QED
    BY <1>3, <2>2 DEF JoinRefresh, TypeOK
<1>4. CASE StartRefresh(c)
  <2> DEFINE t == call[c].tab
  <2>1. call[c] \in Call /\ t \in Tabs
    BY <1>4, CallType DEF StartRefresh, Denied, Call
  <2>2. [call[c] EXCEPT !.pc = "waiting"] \in Call
    BY <2>1 DEF Call
  <2>3. call' \in [Calls -> Call \cup {NoCall}]
    BY <1>4, <2>2 DEF StartRefresh, TypeOK
  <2>4. store \in Tokens
    BY <1>4 DEF StartRefresh, TypeOK, Pair
  <2>5. req' \in [Requests -> Request \cup {NoRequest}]
    BY <1>4, SendType DEF StartRefresh, TypeOK
  <2>6. promise' \in [Tabs -> Requests \cup {None}]
    BY <1>4, FreeRequestType DEF StartRefresh, TypeOK
  <2>7. sent' \in [Tabs -> [Tokens -> Nat]]
    BY <1>4, <2>1, <2>4 DEF StartRefresh, TypeOK
  <2>8. tried' \subseteq Tokens /\ excused' \in BOOLEAN
    BY <1>4, <2>4 DEF StartRefresh, TypeOK
  <2> QED
    BY <1>4, <2>3, <2>5, <2>6, <2>7, <2>8 DEF StartRefresh, TypeOK
<1>5. CASE NoTokenLeft(c)
  <2>1. call[c].tab \in Tabs
    BY <1>5, CallType DEF NoTokenLeft, Denied, Call
  <2> QED
    BY <1>5, <2>1, EndType DEF NoTokenLeft, TypeOK
<1>6. CASE SignedIn(c)
  <2> DEFINE r == call[c].req
  <2>1. call[c] \in Call /\ r \in Requests
    BY <1>6, CallType DEF SignedIn, Call
  <2>2. req[r].answer \in Pair
    BY <1>6, <2>1, RequestType DEF SignedIn, Request
  <2>3. [call[c] EXCEPT !.pc = "sent", !.with = req[r].answer, !.req = None] \in Call
    BY <2>1, <2>2 DEF Call
  <2>4. call' = [call EXCEPT ![c] = [call[c] EXCEPT !.pc = "sent", !.with = req[r].answer, !.req = None]]
    BY <1>6 DEF SignedIn, TypeOK
  <2>5. call' \in [Calls -> Call \cup {NoCall}]
    BY <2>3, <2>4 DEF TypeOK
  <2> QED
    BY <1>6, <2>1, <2>2, <2>5 DEF SignedIn, TypeOK
<1>7. CASE LoseCall(c)
  BY <1>7 DEF LoseCall, Trouble, TypeOK, StoreAfterFailed, ExcuseFailed, Pair
<1>8. CASE SignInLost(c)
  BY <1>8, AbandonType DEF SignInLost, Trouble, TypeOK
<1> QED
  BY <1>1, <1>2, <1>3, <1>4, <1>5, <1>6, <1>7, <1>8 DEF Continue

LEMMA TabTypes ==
  ASSUME TypeOK, NEW t \in Tabs,
         \/ Resolve(t) \/ RefreshLost(t) \/ SignOut(t) \/ LoadPage(t)
         \/ \E c \in Calls : StartCall(t, c) \/ SignIn(t, c)
  PROVE  TypeOK'
<1> USE DEF page, server, bounds, history
<1>1. CASE RefreshSucceeds(t)
  <2> DEFINE r == promise[t]
  <2>1. r \in Requests
    BY <1>1 DEF RefreshSucceeds, TypeOK
  <2>2. req[r].answer \in Pair
    BY <1>1, <2>1, RequestType DEF RefreshSucceeds, Request
  <2>3. \A c \in Calls : Waiting(c, t) =>
          [call[c] EXCEPT !.pc = "again", !.with = req[r].answer] \in Call
    BY <2>2, CallPlaced DEF Waiting, Call
  <2>4. call' \in [Calls -> Call \cup {NoCall}]
    BY <1>1, <2>3 DEF RefreshSucceeds, NewPair, TypeOK
  <2> QED
    BY <1>1, <2>1, <2>2, <2>4 DEF RefreshSucceeds, NewPair, ForgetPromise, TypeOK
<1>2. CASE RefreshRefused(t)
  BY <1>2, EndType, FailType DEF RefreshRefused, ForgetPromise, TypeOK
<1>3. CASE RefreshLost(t)
  BY <1>3, EndType, FailType, AbandonType DEF RefreshLost, Trouble, ForgetPromise, TypeOK
<1>4. CASE SignOut(t)
  <2>1. req' \in [Requests -> Request \cup {NoRequest}]
    <3>1. CASE store = None
      BY <1>4, <3>1 DEF SignOut, TypeOK
    <3>2. CASE store # None
      BY <1>4, <3>2, SendType DEF SignOut, TypeOK
    <3> QED
      BY <3>1, <3>2
  <2> QED
    BY <1>4, <2>1 DEF SignOut, TypeOK, Pair
<1>5. CASE LoadPage(t)
  <2>1. req' \in [Requests -> Request \cup {NoRequest}]
    BY <1>5, AbandonType DEF LoadPage
  <2>2. call' \in [Calls -> Call \cup {NoCall}]
    <3>1. CASE store = None
      BY <1>5, <3>1, UnloadedType DEF LoadPage
    <3>2. CASE store # None
      <4>1. PICK c \in Calls : call' = [Unloaded(t) EXCEPT ![c] = Place(t, "load", "sent", None)]
        BY <1>5, <3>2 DEF LoadPage
      <4> QED
        BY <4>1, UnloadedType, PlaceType
    <3> QED
      BY <3>1, <3>2
  <2>3. sent' \in [Tabs -> [Tokens -> Nat]]
    BY <1>5 DEF LoadPage, TypeOK
  <2> QED
    BY <1>5, <2>1, <2>2, <2>3 DEF LoadPage, Trouble, TypeOK
<1>6. ASSUME NEW c \in Calls, StartCall(t, c)
      PROVE  TypeOK'
  BY <1>6, PlaceType DEF StartCall, TypeOK
<1>7. ASSUME NEW c \in Calls, SignIn(t, c)
      PROVE  TypeOK'
  <2>1. req' \in [Requests -> Request \cup {NoRequest}]
    BY <1>7, SendType DEF SignIn, Pair
  <2>2. call' \in [Calls -> Call \cup {NoCall}]
    BY <1>7, PlaceType, FreeRequestType DEF SignIn, TypeOK
  <2> QED
    BY <1>7, <2>1, <2>2 DEF SignIn, TypeOK
<1> QED
  BY <1>1, <1>2, <1>3, <1>4, <1>5, <1>6, <1>7 DEF Resolve

LEMMA OtherTypes ==
  ASSUME TypeOK, StartReset \/ (\E k \in issued \ expired : Expire(k)) \/ (\E k \in live : Lapse(k))
  PROVE  TypeOK'
<1> USE DEF page, server, bounds, history
<1>1. CASE StartReset
  <2>1. PICK link \in 0 .. password : Send("reset", None, link)
    BY <1>1 DEF StartReset
  <2>2. link \in Nat /\ None \in Pair /\ FreeRequests # {}
    BY <1>1, <2>1 DEF StartReset, TypeOK, Pair
  <2>3. req' \in [Requests -> Request \cup {NoRequest}]
    BY <2>1, <2>2, SendType
  <2> QED
    BY <1>1, <2>3 DEF StartReset, Trouble, TypeOK
<1>2. ASSUME NEW k \in issued \ expired, Expire(k)
      PROVE  TypeOK'
  BY <1>2 DEF Expire, TypeOK
<1>3. ASSUME NEW k \in live, Lapse(k)
      PROVE  TypeOK'
  BY <1>3 DEF Lapse, Trouble, TypeOK
<1> QED
  BY <1>1, <1>2, <1>3

LEMMA NextTypes ==
  ASSUME TypeOK, ResetKnown, [Next]_vars
  PROVE  TypeOK'
<1>1. CASE Next
  BY <1>1, ServerTypes, CallTypes, TabTypes, OtherTypes DEF Next
<1>2. CASE UNCHANGED vars
  BY <1>2 DEF vars, page, server, bounds, history, TypeOK
<1> QED
  BY <1>1, <1>2

-----------------------------------------------------------------------------
(* What most steps do: some requests are given up, and no pair is stored. *)
LEMMA FreshKept ==
  ASSUME TypeOK, AnswersFresh, UNCHANGED tried, issued \subseteq issued',
         store' \in {store, None},
         \A r \in Requests : req'[r].pc = "answered" => req'[r] = req[r]
  PROVE  AnswersFresh'
  BY NoneType DEF AnswersFresh, TypeOK

LEMMA UnsentKept ==
  ASSUME TypeOK, StoreUnsent, UNCHANGED <<issued, tried, sent, promise>>, store' \in {store, None}
  PROVE  StoreUnsent'
  BY DEF StoreUnsent

LEMMA AliveKept ==
  ASSUME TypeOK, SessionAlive,
         UNCHANGED <<store, live, tried, ended>>, ~excused' => ~excused,
         \A t \in Tabs : user'[t] => user[t] \/ store # None,
         \A c \in Calls : call'[c].pc \in {"sent", "again"} =>
           call[c].pc \in {"sent", "again"} \/ store # None,
         \A r \in Requests : req'[r] = req[r] \/ req'[r].pc = "none"
  PROVE  SessionAlive'
  BY DEF SessionAlive, Exchange

LEMMA AliveExcused ==
  ASSUME excused' = TRUE
  PROVE  SessionAlive'
  BY DEF SessionAlive

(* Sending anything but the token in the store. *)
LEMMA AliveSent ==
  ASSUME TypeOK, SessionAlive, FreeRequests # {},
         UNCHANGED <<store, user, live, tried, excused, ended>>,
         NEW op \in {"login", "reset"}, NEW link \in Nat, Send(op, None, link),
         \A c \in Calls : call'[c].pc \in {"sent", "again"} => call[c].pc \in {"sent", "again"}
  PROVE  SessionAlive'
<1>1. /\ req'[FreeRequest].pc = "sent" /\ req'[FreeRequest].op = op /\ req'[FreeRequest].token = None
      /\ \A r \in Requests \ {FreeRequest} : req'[r] = req[r]
  BY FreeRequestType DEF Send, New, TypeOK
<1> QED
  BY <1>1 DEF SessionAlive, Exchange

LEMMA SentIsUnanswered ==
  ASSUME TypeOK, FreeRequests # {}, NEW op, NEW token, NEW link, Send(op, token, link)
  PROVE  \A r \in Requests : req'[r].pc = "answered" => req'[r] = req[r]
  BY FreeRequestType DEF Send, New, TypeOK

LEMMA AbandonDrops ==
  ASSUME TypeOK, NEW rs, Abandon(rs)
  PROVE  \A r \in Requests : req'[r] = req[r] \/ req'[r].pc = "none"
  BY DEF Abandon, NoRequest

LEMMA DroppedKeepsAnswers ==
  ASSUME \A r \in Requests : req'[r] = req[r] \/ req'[r].pc = "none"
  PROVE  \A r \in Requests : req'[r].pc = "answered" => req'[r] = req[r]
  OBVIOUS

(* A page takes its answer: no one has sent that pair. *)
LEMMA PairStored ==
  ASSUME IInv, NEW r \in Requests, req[r].pc = "answered",
         UNCHANGED <<issued, live, tried, sent, excused, ended>>,
         store' = req[r].answer,
         req' = [req EXCEPT ![r] = NoRequest],
         \A t \in Tabs : user'[t] => user[t]
  PROVE  PageSendsTokenOnce' /\ AnswersFresh' /\ StoreUnsent' /\ SessionAlive'
<1> DEFINE k == req[r].answer
<1>0. TypeOK /\ AnswersFresh /\ StoreUnsent /\ SessionAlive /\ PageSendsTokenOnce
  BY DEF IInv
<1>1. k \in Tokens /\ k \in issued \ tried /\ k # None
  BY <1>0, NoneType DEF AnswersFresh, TypeOK
<1>2. /\ req'[r].pc = "none"
      /\ \A q \in Requests \ {r} : req'[q] = req[q]
  BY <1>0 DEF TypeOK, NoRequest
<1>3. \A q \in Requests \ {r} : req[q].pc = "answered" => req[q].answer # k
  BY <1>0 DEF AnswersFresh
<1>4. excused \/ k \in live
  BY <1>0 DEF SessionAlive
<1>5. store' = k
  OBVIOUS
<1> HIDE DEF k
<1>6. AnswersFresh'
  BY <1>0, <1>2, <1>3, <1>5 DEF AnswersFresh
<1>7. \A t \in Tabs : sent[t][k] = 0
  BY <1>0, <1>1 DEF StoreUnsent, TypeOK
<1>8. StoreUnsent'
  BY <1>0, <1>1, <1>5, <1>7 DEF StoreUnsent
<1>9. SessionAlive'
  BY <1>0, <1>1, <1>2, <1>4, <1>5 DEF SessionAlive, Exchange
<1> QED
  BY <1>0, <1>6, <1>8, <1>9 DEF PageSendsTokenOnce

-----------------------------------------------------------------------------
(* What becomes of a request when its token is looked up. *)
LEMMA CheckedRequest ==
  ASSUME TypeOK, NEW r \in Requests, CheckRefresh(r)
  PROVE  req'[r].pc \in {"checked", "refused", "none"}
<1>1. req[r] \in Request
  BY RequestType DEF CheckRefresh
<1>2. CASE req[r].token \in live
  <2>1. req' = [req EXCEPT ![r].pc = "checked"]
    BY <1>2 DEF CheckRefresh
  <2> QED
    BY <1>1, <2>1 DEF TypeOK, Request
<1>3. CASE req[r].token \notin live
  <2>1. Answer(r, "refused", None)
    BY <1>3 DEF CheckRefresh
  <2>2. [req[r] EXCEPT !.pc = "refused", !.answer = None].pc = "refused"
    BY <1>1 DEF Request
  <2> QED
    BY <2>1, <2>2 DEF Answer, TypeOK, NoRequest
<1> QED
  BY <1>2, <1>3

LEMMA ServerSafe ==
  ASSUME IInv, NEW r \in Requests, Handle(r)
  PROVE  PageSendsTokenOnce' /\ AnswersFresh' /\ StoreUnsent' /\ SessionAlive'
<1> USE DEF page, server, bounds, history
<1>0. /\ TypeOK /\ AnswersFresh /\ StoreUnsent /\ SessionAlive
      /\ UNCHANGED <<sent, tried, store, promise, user, call, ended>>
  <2>1. UNCHANGED <<page, sent, tried, ended>>
    <3>1. CASE CheckRefresh(r) \/ IssuePair(r) \/ Logout(r)
      BY <3>1 DEF CheckRefresh, IssuePair, Logout
    <3>2. CASE CheckLink(r) \/ ListSessions(r) \/ CommitReset(r)
      BY <3>2 DEF CheckLink, ListSessions, CommitReset
    <3> QED
      BY <3>1, <3>2 DEF Handle
  <2> QED
    BY <2>1 DEF IInv
<1>1. PageSendsTokenOnce'
  BY <1>0 DEF IInv, PageSendsTokenOnce
<1>2. CASE CheckRefresh(r)
  <2>1. StoreUnsent'
    BY <1>0, <1>2, UnsentKept DEF CheckRefresh
  <2>2. \A q \in Requests \ {r} : req'[q] = req[q]
    BY <1>0, <1>2 DEF CheckRefresh, Answer, TypeOK
  <2>3. req[r] \in Request
    BY <1>0, <1>2, RequestType DEF CheckRefresh
  <2>4. req'[r].pc \in {"checked", "refused", "none"}
    BY <1>0, <1>2, CheckedRequest
  <2>5. AnswersFresh'
    BY <1>0, <1>2, <2>2, <2>4, FreshKept DEF CheckRefresh
  <2>6. ASSUME ~excused
        PROVE  /\ req'[r].pc = "checked"
               /\ req'[r].op = "refresh"
               /\ req'[r].token = req[r].token
    BY <1>0, <1>2, <2>3, <2>6 DEF CheckRefresh, SessionAlive, Exchange, TypeOK, Request
  <2>7. SessionAlive'
    BY <1>0, <1>2, <2>2, <2>6 DEF CheckRefresh, SessionAlive, Exchange
  <2> QED
    BY <1>1, <2>1, <2>5, <2>7
<1>3. CASE IssuePair(r)
  <2> DEFINE k == Fresh
  <2>1. k \in Tokens /\ k \notin issued /\ k # None
    BY <1>3, FreshType, NoneType DEF IssuePair
  <2>2. \A q \in Requests \ {r} : req'[q] = req[q]
    BY <1>0, <1>3 DEF IssuePair, Answer, TypeOK
  <2>3. req[r] \in Request /\ req[r].pc # "answered"
    BY <1>0, <1>3, RequestType DEF IssuePair
  <2>4. req'[r].pc = "none" \/ (req'[r].pc = "answered" /\ req'[r].answer = k)
    BY <1>0, <1>3, <2>3 DEF IssuePair, Answer, TypeOK, Request, NoRequest
  <2>5. /\ issued' = issued \cup {k}
        /\ live' = (live \ {req[r].token}) \cup {k}
        /\ excused' = excused
    BY <1>3 DEF IssuePair, AddToken
  <2> HIDE DEF k
  <2>6. StoreUnsent'
    BY <1>0, <2>5 DEF StoreUnsent
  <2>7. k \notin tried /\ k # store
    BY <1>0, <2>1 DEF StoreUnsent
  <2>8. AnswersFresh'
    BY <1>0, <2>1, <2>2, <2>4, <2>5, <2>7 DEF AnswersFresh
  <2>9. ASSUME ~excused
        PROVE  req[r].token \in tried \cup {None} /\ req[r].token \notin issued \ tried
    BY <1>0, <1>3, <2>9, NoneType DEF IssuePair, SessionAlive, Exchange, TypeOK
  <2>10. SessionAlive'
    <3>1. ASSUME ~excused
          PROVE  /\ store \notin tried \cup {None} => store \in live'
                 /\ \A q \in Requests : req'[q].pc = "answered" => req'[q].answer \in live'
      BY <1>0, <2>1, <2>2, <2>4, <2>5, <2>9, <3>1 DEF SessionAlive, AnswersFresh
    <3>2. ASSUME ~excused, NEW q \in Requests, Exchange(q)'
          PROVE  q # r /\ req'[q] = req[q] /\ Exchange(q)
      BY <2>2, <2>4, <3>2 DEF Exchange
    <3>3. ASSUME ~excused, NEW q \in Requests, Exchange(q)'
          PROVE  req[q].token # req[r].token
      <4>1. CASE Exchange(r)
        BY <1>0, <3>2, <3>3, <4>1 DEF SessionAlive
      <4>2. CASE ~Exchange(r)
        <5>1. req[r].token = None
          BY <1>0, <1>3, <3>3, <4>2 DEF IssuePair, Exchange, SessionAlive
        <5>2. req[q].token \in tried
          BY <1>0, <3>2, <3>3 DEF SessionAlive
        <5> QED
          BY <1>0, <5>1, <5>2, NoneType DEF TypeOK
      <4> QED
        BY <4>1, <4>2
    <3>4. ASSUME ~excused, NEW q \in Requests
          PROVE  /\ req'[q].pc # "refused"
                 /\ req'[q].pc = "sent" => req'[q].op # "logout"
                 /\ req'[q].pc = "sent" /\ req'[q].op = "login" => req'[q].token = None
      BY <1>0, <2>2, <2>4, <3>4 DEF SessionAlive
    <3>5. ASSUME ~excused, NEW q \in Requests, Exchange(q)'
          PROVE  /\ req'[q].token \in tried
                 /\ req'[q].pc = "sent" => req'[q].token \in live'
                 /\ \A p \in Requests \ {q} : Exchange(p)' => req'[p].token # req'[q].token
      BY <1>0, <2>5, <3>2, <3>3, <3>5 DEF SessionAlive
    <3> QED
      BY <1>0, <2>5, <3>1, <3>4, <3>5 DEF SessionAlive
  <2> QED
    BY <1>1, <2>6, <2>8, <2>10
<1>4. CASE Logout(r)
  <2>1. StoreUnsent'
    BY <1>0, <1>4, UnsentKept DEF Logout
  <2>2. \A q \in Requests : req'[q] = req[q] \/ req'[q].pc = "none"
    BY <1>0, <1>4 DEF Logout, TypeOK, NoRequest
  <2>3. AnswersFresh'
    BY <1>0, <1>4, <2>2, FreshKept DEF Logout
  <2>4. excused' = TRUE
    BY <1>0, <1>4 DEF Logout, SessionAlive, TypeOK
  <2> QED
    BY <1>1, <2>1, <2>3, <2>4, AliveExcused
<1>5. CASE CheckLink(r) \/ ListSessions(r)
  <2>1. StoreUnsent'
    BY <1>0, <1>5, UnsentKept DEF CheckLink, ListSessions
  <2>2. \A q \in Requests \ {r} : req'[q] = req[q]
    BY <1>0, <1>5 DEF CheckLink, ListSessions, TypeOK
  <2>3. req[r] \in Request
    BY <1>0, <1>5, RequestType DEF CheckLink, ListSessions
  <2>4. \/ req'[r].pc = "none"
        \/ req'[r].pc \in {"checked", "listed"} /\ req'[r].op = "reset"
    <3>1. CASE CheckLink(r)
      BY <1>0, <2>3, <3>1 DEF CheckLink, TypeOK, Request, NoRequest
    <3>2. CASE ListSessions(r)
      BY <1>0, <2>3, <3>2 DEF ListSessions, TypeOK, Request
    <3> QED
      BY <1>5, <3>1, <3>2
  <2>5. issued' = issued /\ live' = live /\ excused' = excused
    BY <1>5 DEF CheckLink, ListSessions
  <2>6. AnswersFresh'
    BY <1>0, <2>2, <2>4, <2>5, FreshKept
  <2>7. SessionAlive'
    BY <1>0, <2>2, <2>4, <2>5 DEF SessionAlive, Exchange
  <2> QED
    BY <1>1, <2>1, <2>6, <2>7
<1>6. CASE CommitReset(r)
  <2>1. StoreUnsent'
    BY <1>0, <1>6, UnsentKept DEF CommitReset
  <2>2. \A q \in Requests : req'[q] = req[q] \/ req'[q].pc = "none"
    BY <1>0, <1>6 DEF CommitReset, TypeOK, NoRequest
  <2>3. AnswersFresh'
    BY <1>0, <1>6, <2>2, FreshKept DEF CommitReset
  <2> QED
    BY <1>1, <1>6, <2>1, <2>3, AliveExcused DEF CommitReset
<1> QED
  BY <1>2, <1>3, <1>4, <1>5, <1>6 DEF Handle

LEMMA CallSafe ==
  ASSUME IInv, NEW c \in Calls, Continue(c) \/ LoseCall(c) \/ SignInLost(c)
  PROVE  PageSendsTokenOnce' /\ AnswersFresh' /\ StoreUnsent' /\ SessionAlive'
<1> USE DEF page, server, bounds, history
<1>0. TypeOK /\ AnswersFresh /\ StoreUnsent /\ SessionAlive /\ PageSendsTokenOnce
  BY DEF IInv
<1>1. CASE CallSucceeds(c) \/ JoinRefresh(c)
  <2>1. UNCHANGED <<store, live, issued, tried, sent, promise, req, excused, ended>>
    BY <1>1 DEF CallSucceeds, JoinRefresh
  <2>2. \A t \in Tabs : user'[t] => user[t] \/ store # None \/ excused
    BY <1>0, <1>1 DEF CallSucceeds, JoinRefresh, SessionAlive, TypeOK
  <2>3. \A d \in Calls : call'[d].pc \in {"sent", "again"} => call[d].pc \in {"sent", "again"}
    <3>1. CASE CallSucceeds(c)
      BY <1>0, <3>1 DEF CallSucceeds, NoCall, TypeOK
    <3>2. CASE JoinRefresh(c)
      <4>1. call[c] \in Call
        BY <1>0, <3>2, CallType DEF JoinRefresh, Denied
      <4>2. call'[c].pc = "waiting"
        BY <1>0, <3>2, <4>1 DEF JoinRefresh, TypeOK, Call
      <4> QED
        BY <1>0, <3>2, <4>2 DEF JoinRefresh, TypeOK
    <3> QED
      BY <1>1, <3>1, <3>2
  <2>4. SessionAlive'
    BY <1>0, <2>1, <2>2, <2>3 DEF SessionAlive, Exchange
  <2> QED
    BY <1>0, <2>1, <2>4, FreshKept, UnsentKept DEF PageSendsTokenOnce
<1>2. CASE DeniedAgain(c) \/ LoseCall(c)
  <2>1. /\ UNCHANGED <<issued, live, tried, sent, promise, req, user, ended>>
        /\ call' = [call EXCEPT ![c] = NoCall]
        /\ store' = StoreAfterFailed(c)
        /\ ExcuseFailed(c)
    BY <1>2 DEF DeniedAgain, LoseCall
  <2>2. store' \in {store, None}
    BY <2>1 DEF StoreAfterFailed
  <2>3. SessionAlive'
    <3>1. CASE call[c].kind = "load"
      BY <2>1, <3>1, AliveExcused DEF ExcuseFailed
    <3>2. CASE call[c].kind # "load"
      <4>1. store' = store
        BY <2>1, <3>2 DEF StoreAfterFailed
      <4>2. \A d \in Calls : call'[d].pc \in {"sent", "again"} => call[d].pc \in {"sent", "again"}
        BY <1>0, <2>1 DEF NoCall, TypeOK
      <4>3. ~excused' => ~excused
        BY <2>1 DEF ExcuseFailed
      <4> QED
        BY <1>0, <2>1, <4>1, <4>2, <4>3 DEF SessionAlive, Exchange
    <3> QED
      BY <3>1, <3>2
  <2> QED
    BY <1>0, <2>1, <2>2, <2>3, FreshKept, UnsentKept DEF PageSendsTokenOnce
<1>3. CASE SignInLost(c)
  <2>1. UNCHANGED <<store, issued, tried, sent, promise>> /\ excused' = TRUE
    BY <1>3 DEF SignInLost
  <2>2. \A r \in Requests : req'[r] = req[r] \/ req'[r].pc = "none"
    BY <1>0, <1>3, AbandonDrops DEF SignInLost
  <2> QED
    BY <1>0, <2>1, <2>2, FreshKept, UnsentKept, AliveExcused DEF PageSendsTokenOnce
<1>4. CASE NoTokenLeft(c)
  <2>1. UNCHANGED <<issued, tried, sent, promise, req, excused>> /\ store' = None
    BY <1>4 DEF NoTokenLeft, EndSession
  <2>2. excused
    BY <1>0, <1>4 DEF NoTokenLeft, Denied, SessionAlive
  <2>3. SessionAlive'
    BY <2>1, <2>2 DEF SessionAlive
  <2> QED
    BY <1>0, <2>1, <2>3, FreshKept, UnsentKept DEF PageSendsTokenOnce
<1>5. CASE StartRefresh(c)
  <2> DEFINE t == call[c].tab
             f == FreeRequest
  <2>1. t \in Tabs
    BY <1>0, <1>5, CallType DEF StartRefresh, Denied, Call
  <2>2. store \in Tokens /\ store \in issued /\ store # None
    BY <1>0, <1>5 DEF StartRefresh, TypeOK, Pair, StoreUnsent
  <2>3. sent[t][store] = 0
    BY <1>0, <1>5, <2>1, <2>2 DEF StartRefresh, IsFirst, StoreUnsent
  <2>4. /\ f \in Requests /\ f # None
        /\ req[f].pc = "none"
        /\ req'[f].pc = "sent" /\ req'[f].op = "refresh" /\ req'[f].token = store
        /\ \A r \in Requests \ {f} : req'[r] = req[r]
    BY <1>0, <1>5, FreeRequestType, NoneType DEF StartRefresh, Send, New, TypeOK, NoRequest
  <2>5. /\ UNCHANGED <<store, user, issued, live, ended>>
        /\ promise' = [promise EXCEPT ![t] = f]
        /\ call' = [call EXCEPT ![c].pc = "waiting"]
        /\ sent' = [sent EXCEPT ![t][store] = @ + 1]
        /\ tried' = tried \cup {store}
        /\ excused' = (excused \/ (store \in tried /\ sent[t][store] = 0))
    BY <1>5 DEF StartRefresh
  <2> HIDE DEF t, f
  <2>6. \A u \in Tabs, k \in Tokens :
          sent'[u][k] = IF u = t /\ k = store THEN 1 ELSE sent[u][k]
    BY <1>0, <2>1, <2>2, <2>3, <2>5 DEF TypeOK
  <2>7. PageSendsTokenOnce'
    BY <1>0, <2>6 DEF PageSendsTokenOnce
  <2>8. AnswersFresh'
    BY <1>0, <2>2, <2>4, <2>5 DEF AnswersFresh
  <2>9. StoreUnsent'
    <3>1. \A u \in Tabs : promise'[u] = None => u # t /\ promise[u] = None
      BY <1>0, <2>1, <2>4, <2>5 DEF TypeOK
    <3>2. \A u \in Tabs, k \in Tokens : sent'[u][k] > 0 => k \in tried'
      BY <1>0, <2>5, <2>6 DEF StoreUnsent
    <3>3. \A u \in Tabs : promise'[u] = None => sent'[u][store] = 0
      BY <1>0, <2>2, <2>6, <3>1 DEF StoreUnsent
    <3> QED
      BY <1>0, <2>2, <2>5, <3>2, <3>3 DEF StoreUnsent
  <2>10. SessionAlive'
    <3>1. ASSUME ~excused'
          PROVE  ~excused /\ store \notin tried /\ store \in live
      BY <1>0, <2>2, <2>3, <2>5, <3>1 DEF SessionAlive
    <3>2. ASSUME ~excused', NEW r \in Requests, Exchange(r)'
          PROVE  \/ r = f
                 \/ r # f /\ Exchange(r) /\ req'[r] = req[r] /\ req[r].token \in tried
      BY <1>0, <2>4, <3>1, <3>2 DEF Exchange, SessionAlive
    <3>3. ASSUME ~excused', NEW r \in Requests, Exchange(r)'
          PROVE  /\ req'[r].token \in tried'
                 /\ req'[r].pc = "sent" => req'[r].token \in live'
                 /\ \A q \in Requests \ {r} : Exchange(q)' => req'[q].token # req'[r].token
      <4>1. CASE r = f
        BY <2>4, <2>5, <3>1, <3>2, <3>3, <4>1
      <4>2. CASE r # f
        BY <1>0, <2>4, <2>5, <3>1, <3>2, <3>3, <4>2 DEF SessionAlive
      <4> QED
        BY <4>1, <4>2
    <3>4. ASSUME ~excused', NEW r \in Requests
          PROVE  /\ req'[r].pc # "refused"
                 /\ req'[r].pc = "sent" => req'[r].op # "logout"
                 /\ req'[r].pc = "sent" /\ req'[r].op = "login" => req'[r].token = None
                 /\ req'[r].pc = "answered" => req'[r].answer \in live'
      BY <1>0, <2>4, <2>5, <3>1, <3>4 DEF SessionAlive
    <3> QED
      BY <1>0, <2>2, <2>5, <3>1, <3>3, <3>4 DEF SessionAlive
  <2> QED
    BY <2>7, <2>8, <2>9, <2>10
<1>6. CASE SignedIn(c)
  <2> DEFINE r == call[c].req
             k == req[r].answer
  <2>1. r \in Requests /\ req[r].pc = "answered"
    BY <1>0, <1>6, CallType DEF SignedIn, Call
  <2>2. k \in issued \ tried /\ k # None
    BY <1>0, <2>1, NoneType DEF AnswersFresh, TypeOK
  <2>3. /\ UNCHANGED <<user, promise, issued, live, tried, sent, excused, ended>>
        /\ store' = k
        /\ req' = [req EXCEPT ![r] = NoRequest]
    BY <1>6 DEF SignedIn
  <2> QED
    BY <1>0, <2>1, <2>2, <2>3, PairStored
<1> QED
  BY <1>1, <1>2, <1>3, <1>4, <1>5, <1>6 DEF Continue

LEMMA TabSafe ==
  ASSUME IInv, NEW t \in Tabs,
         \/ Resolve(t) \/ RefreshLost(t) \/ SignOut(t) \/ LoadPage(t)
         \/ \E c \in Calls : StartCall(t, c) \/ SignIn(t, c)
  PROVE  PageSendsTokenOnce' /\ AnswersFresh' /\ StoreUnsent' /\ SessionAlive'
<1> USE DEF page, server, bounds, history
<1>0. TypeOK /\ AnswersFresh /\ StoreUnsent /\ SessionAlive /\ PageSendsTokenOnce
  BY DEF IInv
<1>1. CASE RefreshSucceeds(t)
  <2> DEFINE r == promise[t]
  <2>1. r \in Requests /\ req[r].pc = "answered"
    BY <1>0, <1>1 DEF RefreshSucceeds, TypeOK
  <2>2. /\ UNCHANGED <<user, issued, live, tried, sent, excused, ended>>
        /\ store' = req[r].answer
        /\ req' = [req EXCEPT ![r] = NoRequest]
    BY <1>1 DEF RefreshSucceeds, NewPair
  <2> QED
    BY <2>1, <2>2, PairStored
<1>2. CASE RefreshRefused(t) \/ RefreshLost(t)
  <2>1. /\ UNCHANGED <<issued, tried, sent>>
        /\ store' = None
    BY <1>2 DEF RefreshRefused, RefreshLost, EndSession
  <2>2. \A r \in Requests : req'[r] = req[r] \/ req'[r].pc = "none"
    <3>1. CASE RefreshRefused(t)
      BY <1>0, <3>1 DEF RefreshRefused, TypeOK, NoRequest
    <3>2. CASE RefreshLost(t)
      BY <1>0, <3>2, AbandonDrops DEF RefreshLost
    <3> QED
      BY <1>2, <3>1, <3>2
  <2>3. AnswersFresh'
    BY <1>0, <2>1, <2>2, FreshKept
  <2>4. StoreUnsent'
    BY <1>0, <2>1 DEF StoreUnsent
  <2>5. excused' = TRUE
    <3>1. CASE RefreshRefused(t)
      BY <1>0, <3>1 DEF RefreshRefused, SessionAlive, TypeOK
    <3>2. CASE RefreshLost(t)
      BY <3>2 DEF RefreshLost
    <3> QED
      BY <1>2, <3>1, <3>2
  <2> QED
    BY <1>0, <2>1, <2>3, <2>4, <2>5, AliveExcused DEF PageSendsTokenOnce
<1>3. CASE SignOut(t)
  <2>1. /\ UNCHANGED <<issued, tried, sent, promise>>
        /\ store' = None
        /\ excused' = TRUE
    BY <1>3 DEF SignOut
  <2>2. \A r \in Requests : req'[r].pc = "answered" => req'[r] = req[r]
    BY <1>0, <1>3, SentIsUnanswered DEF SignOut
  <2> QED
    BY <1>0, <2>1, <2>2, FreshKept, UnsentKept, AliveExcused DEF PageSendsTokenOnce
<1>4. CASE LoadPage(t)
  <2>1. /\ UNCHANGED <<store, issued, live, tried, excused, ended>>
        /\ user' = [user EXCEPT ![t] = FALSE]
        /\ promise' = [promise EXCEPT ![t] = None]
        /\ sent' = [sent EXCEPT ![t] = [k \in Tokens |-> 0]]
    BY <1>4 DEF LoadPage
  <2>2. \A r \in Requests : req'[r] = req[r] \/ req'[r].pc = "none"
    BY <1>0, <1>4, AbandonDrops DEF LoadPage
  <2>3. \A u \in Tabs, k \in Tokens : sent'[u][k] = IF u = t THEN 0 ELSE sent[u][k]
    BY <1>0, <2>1 DEF TypeOK
  <2>4. \A c \in Calls : call'[c].pc \in {"sent", "again"} =>
          call[c].pc \in {"sent", "again"} \/ store # None
    <3>1. \A c \in Calls : Unloaded(t)[c].pc \in {"sent", "again"} => call[c].pc \in {"sent", "again"}
      BY DEF Unloaded, NoCall
    <3>2. store = None => call' = Unloaded(t)
      BY <1>4 DEF LoadPage
    <3> QED
      BY <3>1, <3>2
  <2>5. \A u \in Tabs : user'[u] => user[u]
    BY <1>0, <2>1 DEF TypeOK
  <2>6. PageSendsTokenOnce'
    BY <1>0, <2>3 DEF PageSendsTokenOnce
  <2>7. AnswersFresh'
    BY <1>0, <2>1, <2>2, FreshKept
  <2>8. StoreUnsent'
    <3>1. \A u \in Tabs : promise'[u] = None => u = t \/ promise[u] = None
      BY <1>0, <2>1 DEF TypeOK
    <3>2. store # None => store \in Tokens
      BY <1>0 DEF TypeOK, Pair
    <3> QED
      BY <1>0, <2>1, <2>3, <3>1, <3>2 DEF StoreUnsent
  <2>9. SessionAlive'
    BY <1>0, <2>1, <2>2, <2>4, <2>5, AliveKept
  <2> QED
    BY <2>6, <2>7, <2>8, <2>9
<1>5. ASSUME NEW c \in Calls, StartCall(t, c)
      PROVE  PageSendsTokenOnce' /\ AnswersFresh' /\ StoreUnsent' /\ SessionAlive'
  <2>1. UNCHANGED <<store, user, live, issued, tried, sent, promise, req, excused, ended>>
    BY <1>5 DEF StartCall
  <2>2. store # None \/ excused
    BY <1>0, <1>5 DEF StartCall, SessionAlive
  <2>3. SessionAlive'
    BY <1>0, <2>1, <2>2 DEF SessionAlive, Exchange
  <2> QED
    BY <1>0, <2>1, <2>3, FreshKept, UnsentKept DEF PageSendsTokenOnce
<1>6. ASSUME NEW c \in Calls, SignIn(t, c)
      PROVE  PageSendsTokenOnce' /\ AnswersFresh' /\ StoreUnsent' /\ SessionAlive'
  <2>1. /\ UNCHANGED <<store, user, live, issued, tried, sent, promise, excused, ended>>
        /\ FreeRequests # {}
        /\ Send("login", None, 0)
        /\ call' = [call EXCEPT ![c] = Place(t, "signin", "login", FreeRequest)]
    BY <1>6 DEF SignIn
  <2>2. \A d \in Calls : call'[d].pc \in {"sent", "again"} => call[d].pc \in {"sent", "again"}
    BY <1>0, <2>1 DEF Place, TypeOK
  <2>3. SessionAlive'
    BY <1>0, <2>1, <2>2, AliveSent
  <2>4. AnswersFresh'
    BY <1>0, <2>1, SentIsUnanswered, FreshKept
  <2> QED
    BY <1>0, <2>1, <2>3, <2>4, UnsentKept DEF PageSendsTokenOnce
<1> QED
  BY <1>1, <1>2, <1>3, <1>4, <1>5, <1>6 DEF Resolve

LEMMA OtherSafe ==
  ASSUME IInv, StartReset \/ (\E k \in issued \ expired : Expire(k)) \/ (\E k \in live : Lapse(k))
  PROVE  PageSendsTokenOnce' /\ AnswersFresh' /\ StoreUnsent' /\ SessionAlive'
<1> USE DEF page, server, bounds, history
<1>0. TypeOK /\ AnswersFresh /\ StoreUnsent /\ SessionAlive /\ PageSendsTokenOnce
  BY DEF IInv
<1>1. CASE StartReset
  <2>1. PICK link \in 0 .. password : Send("reset", None, link)
    BY <1>1 DEF StartReset
  <2>2. link \in Nat
    BY <1>0 DEF TypeOK
  <2>3. /\ UNCHANGED <<store, user, promise, call, live, issued, tried, sent, excused, ended>>
        /\ FreeRequests # {}
    BY <1>1 DEF StartReset
  <2>4. AnswersFresh'
    BY <1>0, <2>1, <2>3, SentIsUnanswered, FreshKept
  <2>5. SessionAlive'
    BY <1>0, <2>1, <2>2, <2>3, AliveSent
  <2> QED
    BY <1>0, <2>3, <2>4, <2>5, UnsentKept DEF PageSendsTokenOnce
<1>2. ASSUME NEW k \in issued \ expired, Expire(k)
      PROVE  PageSendsTokenOnce' /\ AnswersFresh' /\ StoreUnsent' /\ SessionAlive'
  BY <1>0, <1>2, FreshKept, UnsentKept, AliveKept DEF Expire, PageSendsTokenOnce
<1>3. ASSUME NEW k \in live, Lapse(k)
      PROVE  PageSendsTokenOnce' /\ AnswersFresh' /\ StoreUnsent' /\ SessionAlive'
  BY <1>0, <1>3, FreshKept, UnsentKept, AliveExcused DEF Lapse, PageSendsTokenOnce
<1> QED
  BY <1>1, <1>2, <1>3

-----------------------------------------------------------------------------
(* What every step but a reset's does to the tokens: none that was issued   *)
(* comes to life, and what a reset has read stays.                          *)
LEMMA ResetKept ==
  ASSUME TypeOK, ResetKnown, closed' = closed, issued \subseteq issued',
         live' \cap issued \subseteq live,
         \A r \in Requests : req'[r].pc = "listed" => req'[r] = req[r]
  PROVE  ResetKnown'
<1>1. ResetEndsSessions'
  BY DEF TypeOK, ResetKnown, ResetEndsSessions
<1>2. ASSUME NEW r \in Requests, req'[r].pc = "listed"
      PROVE  req'[r].known \subseteq issued' /\ req'[r].known \cap live' \subseteq req'[r].seen
  <2>1. req'[r] = req[r]
    BY <1>2
  <2>2. req[r].known \subseteq issued /\ req[r].known \cap live \subseteq req[r].seen
    BY <1>2, <2>1 DEF ResetKnown
  <2> QED
    BY <2>1, <2>2
<1> QED
  BY <1>1, <1>2 DEF ResetKnown

LEMMA ServerReset ==
  ASSUME IInv, NEW r \in Requests, Handle(r)
  PROVE  ResetKnown'
<1>0. TypeOK /\ ResetKnown
  BY DEF IInv
<1>1. CASE CheckRefresh(r)
  <2>1. UNCHANGED <<issued, live, closed>>
    BY <1>1 DEF CheckRefresh, server, history
  <2>2. req'[r].pc # "listed"
    BY <1>0, <1>1, CheckedRequest
  <2>3. \A q \in Requests \ {r} : req'[q] = req[q]
    BY <1>0, <1>1 DEF CheckRefresh, Answer, TypeOK
  <2> QED
    BY <1>0, <2>1, <2>2, <2>3, ResetKept
<1>2. CASE IssuePair(r)
  <2>1. /\ closed' = closed /\ issued' = issued \cup {Fresh}
        /\ live' = (live \ {req[r].token}) \cup {Fresh}
    BY <1>2 DEF IssuePair, AddToken, history
  <2>2. Fresh \notin issued
    BY <1>2, FreshType DEF IssuePair
  <2>3. req[r] \in Request
    BY <1>0, <1>2, RequestType DEF IssuePair
  <2>4. req'[r].pc # "listed"
    BY <1>0, <1>2, <2>3 DEF IssuePair, Answer, TypeOK, Request, NoRequest
  <2>5. \A q \in Requests \ {r} : req'[q] = req[q]
    BY <1>0, <1>2 DEF IssuePair, Answer, TypeOK
  <2> QED
    BY <1>0, <2>1, <2>2, <2>4, <2>5, ResetKept
<1>3. CASE Logout(r) \/ CheckLink(r)
  <2>1. UNCHANGED <<issued, closed>> /\ live' \subseteq live
    BY <1>3 DEF Logout, CheckLink, server, history
  <2>2. req[r] \in Request
    BY <1>0, <1>3, RequestType DEF Logout, CheckLink
  <2>3. req'[r].pc # "listed"
    BY <1>0, <1>3, <2>2 DEF Logout, CheckLink, TypeOK, Request, NoRequest
  <2>4. \A q \in Requests \ {r} : req'[q] = req[q]
    BY <1>0, <1>3 DEF Logout, CheckLink, TypeOK
  <2> QED
    BY <1>0, <2>1, <2>3, <2>4, ResetKept
<1>4. CASE ListSessions(r)
  <2>1. UNCHANGED <<issued, live, closed>>
    BY <1>4 DEF ListSessions, server, history
  <2>2. req[r] \in Request
    BY <1>0, <1>4, RequestType DEF ListSessions
  <2>3. req'[r].seen = live /\ req'[r].known = issued
    BY <1>0, <1>4, <2>2 DEF ListSessions, TypeOK, Request
  <2>4. \A q \in Requests \ {r} : req'[q] = req[q]
    BY <1>0, <1>4 DEF ListSessions, TypeOK
  <2> QED
    BY <1>0, <2>1, <2>3, <2>4 DEF ResetKnown, ResetEndsSessions
<1>5. CASE CommitReset(r)
  <2>1. /\ issued' = issued
        /\ live' = live \ req[r].seen
        /\ closed' = closed \cup req[r].known
        /\ req' = [req EXCEPT ![r] = NoRequest]
        /\ req[r].pc = "listed"
    BY <1>5 DEF CommitReset
  <2>2. req[r].known \cap live \subseteq req[r].seen
    BY <1>0, <2>1 DEF ResetKnown
  <2>3. ResetEndsSessions'
    BY <1>0, <2>1, <2>2 DEF ResetKnown, ResetEndsSessions
  <2>4. \A q \in Requests : req'[q].pc = "listed" => req'[q] = req[q]
    BY <1>0, <2>1 DEF TypeOK, NoRequest
  <2>5. ASSUME NEW q \in Requests, req'[q].pc = "listed"
        PROVE  req'[q].known \subseteq issued' /\ req'[q].known \cap live' \subseteq req'[q].seen
    <3>1. req'[q] = req[q]
      BY <2>4, <2>5
    <3>2. req[q].known \subseteq issued /\ req[q].known \cap live \subseteq req[q].seen
      BY <1>0, <2>5, <3>1 DEF ResetKnown
    <3> QED
      BY <2>1, <3>1, <3>2
  <2> QED
    BY <2>3, <2>5 DEF ResetKnown
<1> QED
  BY <1>1, <1>2, <1>3, <1>4, <1>5 DEF Handle

LEMMA SentIsUnlisted ==
  ASSUME TypeOK, FreeRequests # {}, NEW op, NEW token, NEW link, Send(op, token, link)
  PROVE  \A r \in Requests : req'[r].pc = "listed" => req'[r] = req[r]
  BY FreeRequestType DEF Send, New, TypeOK

(* The pages issue, revoke and read no token. *)
LEMMA PagesRevokeNothing ==
  ASSUME TypeOK,
         \/ \E c \in Calls : Continue(c) \/ LoseCall(c) \/ SignInLost(c)
         \/ \E t \in Tabs :
              \/ Resolve(t) \/ RefreshLost(t) \/ SignOut(t) \/ LoadPage(t)
              \/ \E c \in Calls : StartCall(t, c) \/ SignIn(t, c)
  PROVE  /\ UNCHANGED <<issued, live, closed>>
         /\ \A r \in Requests : req'[r].pc = "listed" => req'[r] = req[r]
<1> USE DEF page, server, bounds, history
<1>1. ASSUME NEW c \in Calls, Continue(c) \/ LoseCall(c) \/ SignInLost(c)
      PROVE  /\ UNCHANGED <<issued, live, closed>>
             /\ \A r \in Requests : req'[r].pc = "listed" => req'[r] = req[r]
  <2>1. CASE CallSucceeds(c) \/ DeniedAgain(c) \/ JoinRefresh(c) \/ NoTokenLeft(c) \/ LoseCall(c)
    BY <2>1 DEF CallSucceeds, DeniedAgain, JoinRefresh, NoTokenLeft, LoseCall
  <2>2. CASE StartRefresh(c)
    BY <2>2, SentIsUnlisted DEF StartRefresh
  <2>3. CASE SignedIn(c)
    BY <2>3 DEF SignedIn, TypeOK, NoRequest
  <2>4. CASE SignInLost(c)
    BY <2>4 DEF SignInLost, Abandon, NoRequest
  <2> QED
    BY <1>1, <2>1, <2>2, <2>3, <2>4 DEF Continue
<1>2. ASSUME NEW t \in Tabs, Resolve(t) \/ RefreshLost(t) \/ SignOut(t) \/ LoadPage(t)
      PROVE  /\ UNCHANGED <<issued, live, closed>>
             /\ \A r \in Requests : req'[r].pc = "listed" => req'[r] = req[r]
  <2>1. CASE RefreshSucceeds(t) \/ RefreshRefused(t)
    <3>1. UNCHANGED <<issued, live, closed>> /\ req' = [req EXCEPT ![promise[t]] = NoRequest]
      BY <2>1 DEF RefreshSucceeds, RefreshRefused
    <3> QED
      BY <3>1 DEF TypeOK, NoRequest
  <2>2. CASE RefreshLost(t) \/ LoadPage(t)
    BY <2>2 DEF RefreshLost, LoadPage, Abandon, NoRequest
  <2>3. CASE SignOut(t)
    BY <2>3, SentIsUnlisted DEF SignOut
  <2> QED
    BY <1>2, <2>1, <2>2, <2>3 DEF Resolve
<1>3. ASSUME NEW t \in Tabs, NEW c \in Calls, StartCall(t, c) \/ SignIn(t, c)
      PROVE  /\ UNCHANGED <<issued, live, closed>>
             /\ \A r \in Requests : req'[r].pc = "listed" => req'[r] = req[r]
  BY <1>3, SentIsUnlisted DEF StartCall, SignIn
<1> QED
  BY <1>1, <1>2, <1>3

LEMMA NextReset ==
  ASSUME IInv, [Next]_vars
  PROVE  ResetKnown'
<1> USE DEF page, server, bounds, history
<1>0. TypeOK /\ ResetKnown
  BY DEF IInv
<1>1. CASE \E r \in Requests : Handle(r)
  BY <1>1, ServerReset
<1>2. CASE \/ \E c \in Calls : Continue(c) \/ LoseCall(c) \/ SignInLost(c)
           \/ \E t \in Tabs :
                \/ Resolve(t) \/ RefreshLost(t) \/ SignOut(t) \/ LoadPage(t)
                \/ \E c \in Calls : StartCall(t, c) \/ SignIn(t, c)
  BY <1>0, <1>2, PagesRevokeNothing, ResetKept
<1>3. CASE \E k \in issued \ expired : Expire(k)
  BY <1>0, <1>3, ResetKept DEF Expire
<1>4. CASE \E k \in live : Lapse(k)
  BY <1>0, <1>4, ResetKept DEF Lapse
<1>5. CASE StartReset
  BY <1>0, <1>5, SentIsUnlisted, ResetKept DEF StartReset
<1>6. CASE UNCHANGED vars
  BY <1>0, <1>6, ResetKept DEF vars
<1> QED
  BY <1>1, <1>2, <1>3, <1>4, <1>5, <1>6 DEF Next

-----------------------------------------------------------------------------
(* A waiter is one it was, and what it waits for still comes.               *)
LEMMA WaitersKept ==
  ASSUME TypeOK, WaitersKnown,
         \A t \in Tabs : promise'[t] \in {None, promise[t]},
         \A c \in Calls : call'[c].pc = "login" => call'[c] = call[c],
         \A c \in Calls : call'[c] \in {NoCall, call[c]} \/ call'[c].req = None,
         \A c \in Calls : call'[c].pc = "waiting" =>
           call'[c].tab \in Tabs /\ promise'[call'[c].tab] # None,
         \A q \in Requests : (\E t \in Tabs : promise'[t] = q) /\ ExchangeComes(q) => ExchangeComes(q)',
         \A q \in Requests : (\E c \in Calls : call'[c].pc = "login" /\ call'[c].req = q) /\ LoginComes(q) =>
           LoginComes(q)'
  PROVE  WaitersKnown'
<1>1. ASSUME NEW t \in Tabs, promise'[t] # None
      PROVE  /\ promise'[t] = promise[t] /\ promise[t] \in Requests
             /\ ExchangeComes(promise[t])'
  <2>1. promise'[t] = promise[t] /\ promise[t] \in Requests /\ ExchangeComes(promise[t])
    BY <1>1 DEF TypeOK, WaitersKnown
  <2>2. ASSUME NEW q \in Requests, q = promise[t]
        PROVE  ExchangeComes(q)'
    BY <2>1, <2>2
  <2> QED
    BY <1>1, <2>1, <2>2 DEF ExchangeComes
<1>2. ASSUME NEW c \in Calls, call'[c].pc = "login"
      PROVE  call'[c] = call[c] /\ LoginComes(call[c].req)'
  <2>1. call'[c] = call[c] /\ LoginComes(call[c].req) /\ call[c].req \in Requests
    BY <1>2, CallType DEF WaitersKnown, NobodyWaitsInVain, LoginComes, Call
  <2>2. ASSUME NEW q \in Requests, q = call[c].req
        PROVE  LoginComes(q)'
    BY <1>2, <2>1, <2>2
  <2> QED
    BY <2>1, <2>2 DEF LoginComes
<1>3. ASSUME NEW c \in Calls, call'[c].pc = "waiting"
      PROVE  ExchangeComes(promise[call[c].tab])'
  BY <1>1, <1>3
<1>4. NobodyWaitsInVain'
  BY <1>2, <1>3 DEF NobodyWaitsInVain
<1>5. \A c \in Calls : call'[c] # NoCall /\ call'[c].pc # "login" => call'[c].req = None
  BY DEF WaitersKnown
<1> QED
  BY <1>1, <1>2, <1>4, <1>5 DEF WaitersKnown

(* The server answers whoever waits, and forgets the rest.                  *)
LEMMA HandledStillComes ==
  ASSUME TypeOK, NEW r \in Requests, Handle(r), NEW q \in Requests, Awaited(q)
  PROVE  /\ ExchangeComes(q) => ExchangeComes(q)'
         /\ LoginComes(q) => LoginComes(q)'
<1>1. ASSUME q # r
      PROVE  req'[q] = req[q]
  BY <1>1 DEF Handle, CheckRefresh, IssuePair, Logout, CheckLink, ListSessions, CommitReset, Answer, TypeOK
<1>2. ASSUME q = r, ExchangeComes(r) \/ LoginComes(r)
      PROVE  /\ req[r] \in Request
             /\ \/ req[r].op = "refresh" /\ req'[r] = [req[r] EXCEPT !.pc = "checked"]
                \/ \E k : req'[r] = [req[r] EXCEPT !.pc = "answered", !.answer = k]
                \/ req[r].op = "refresh" /\ \E k : req'[r] = [req[r] EXCEPT !.pc = "refused", !.answer = k]
  <2>1. req[r] \in Request /\ req[r].op \in {"refresh", "login"} /\ req[r].pc # "listed"
    BY <1>2 DEF ExchangeComes, LoginComes, TypeOK
  <2>2. CASE CheckRefresh(r)
    BY <1>2, <2>1, <2>2 DEF CheckRefresh, Answer, TypeOK
  <2>3. CASE IssuePair(r)
    BY <1>2, <2>1, <2>3 DEF IssuePair, Answer, TypeOK
  <2> QED
    BY <2>1, <2>2, <2>3 DEF Handle, Logout, CheckLink, ListSessions, CommitReset
<1>3. CASE q # r
  BY <1>1, <1>3 DEF ExchangeComes, LoginComes
<1>4. CASE q = r
  BY <1>2, <1>4 DEF ExchangeComes, LoginComes, Request, NoRequest
<1> QED
  BY <1>3, <1>4

LEMMA ServerWaiters ==
  ASSUME TypeOK, WaitersKnown, NEW r \in Requests, Handle(r)
  PROVE  WaitersKnown'
<1>1. UNCHANGED <<promise, call>>
  BY DEF Handle, CheckRefresh, IssuePair, Logout, CheckLink, ListSessions, CommitReset, page
<1>2. \A q \in Requests : (\E t \in Tabs : promise'[t] = q) => Awaited(q)
  BY <1>1 DEF Awaited
<1>3. \A q \in Requests : (\E c \in Calls : call'[c].pc = "login" /\ call'[c].req = q) => Awaited(q)
  BY <1>1 DEF Awaited, NoCall
<1>4. \A c \in Calls : call[c].pc = "waiting" => call[c].tab \in Tabs /\ promise[call[c].tab] # None
  BY CallType DEF Call, WaitersKnown, NobodyWaitsInVain, ExchangeComes
<1> QED
  BY <1>1, <1>2, <1>3, <1>4, HandledStillComes, WaitersKept

(* The pages' steps touch no request another waiter awaits.                 *)
LEMMA PageWaiters ==
  ASSUME TypeOK, WaitersKnown,
         \A t \in Tabs : promise'[t] \in {None, promise[t]},
         \A c \in Calls : call'[c].pc = "login" => call'[c] = call[c],
         \A c \in Calls : call'[c] \in {NoCall, call[c]} \/ call'[c].req = None,
         \A c \in Calls : call'[c].pc = "waiting" =>
           call'[c].tab \in Tabs /\ promise'[call'[c].tab] # None,
         \A q \in Requests :
           (\E t \in Tabs : promise'[t] = q) \/ (\E c \in Calls : call'[c].pc = "login" /\ call'[c].req = q) =>
             req[q] = NoRequest \/ req'[q] = req[q]
  PROVE  WaitersKnown'
<1>1. \A q \in Requests : (\E t \in Tabs : promise'[t] = q) /\ ExchangeComes(q) => ExchangeComes(q)'
  BY DEF ExchangeComes
<1>2. \A q \in Requests : (\E c \in Calls : call'[c].pc = "login" /\ call'[c].req = q) /\ LoginComes(q) =>
        LoginComes(q)'
  BY DEF LoginComes
<1> QED
  BY <1>1, <1>2, WaitersKept

LEMMA WaitsForPromise ==
  ASSUME TypeOK, WaitersKnown, NEW c \in Calls, call[c].pc = "waiting"
  PROVE  call[c].tab \in Tabs /\ promise[call[c].tab] # None
  BY CallType DEF Call, WaitersKnown, NobodyWaitsInVain, ExchangeComes

(* A new request takes a place nobody awaits.                               *)
LEMMA SentIsNew ==
  ASSUME TypeOK, FreeRequests # {}, NEW op, NEW token, NEW link, Send(op, token, link)
  PROVE  /\ FreeRequest \in Requests /\ req[FreeRequest] = NoRequest
         /\ req'[FreeRequest] = New(op, token, link)
         /\ \A q \in Requests \ {FreeRequest} : req'[q] = req[q]
  BY FreeRequestType DEF Send, TypeOK

LEMMA ExchangeStarts ==
  ASSUME TypeOK, WaitersKnown, NEW c \in Calls, NEW t \in Tabs, NEW r \in Requests,
         promise' = [promise EXCEPT ![t] = r],
         call'[c].pc = "waiting", call'[c].tab = t, call'[c].req = None,
         \A d \in Calls \ {c} : call'[d] = call[d],
         req[r] = NoRequest, ExchangeComes(r)',
         \A q \in Requests \ {r} : req'[q] = req[q]
  PROVE  WaitersKnown'
<1>1. /\ promise'[t] = r /\ r # None
      /\ \A u \in Tabs \ {t} : promise'[u] = promise[u]
  BY NoneType DEF TypeOK
<1>2. \A u \in Tabs : promise[u] # r
  BY <1>1 DEF WaitersKnown, ExchangeComes
<1>3. ASSUME NEW u \in Tabs, promise'[u] # None
      PROVE  ExchangeComes(promise[u])'
  <2>1. CASE u = t
    BY <1>1, <2>1 DEF ExchangeComes
  <2>2. CASE u # t
    <3>1. promise'[u] = promise[u] /\ promise[u] \in Requests \ {r} /\ ExchangeComes(promise[u])
      BY <1>1, <1>2, <1>3, <2>2 DEF TypeOK, WaitersKnown
    <3> QED
      BY <3>1 DEF ExchangeComes
  <2> QED
    BY <2>1, <2>2
<1>4. ASSUME NEW d \in Calls, call'[d].pc = "login"
      PROVE  d # c /\ call'[d] = call[d] /\ LoginComes(call[d].req)'
  <2>1. d # c /\ call'[d] = call[d] /\ LoginComes(call[d].req) /\ call[d].req \in Requests \ {r}
    BY <1>4, CallType DEF WaitersKnown, NobodyWaitsInVain, LoginComes, Call
  <2> QED
    BY <2>1 DEF LoginComes
<1>5. ASSUME NEW d \in Calls, call'[d].pc = "waiting"
      PROVE  ExchangeComes(promise[call[d].tab])'
  <2>1. CASE d = c
    BY <1>1, <2>1 DEF ExchangeComes
  <2>2. CASE d # c
    <3>1. call[d].tab \in Tabs /\ promise'[call[d].tab] # None
      BY <1>1, <1>5, <2>2, WaitsForPromise
    <3> QED
      BY <1>3, <1>5, <2>2, <3>1
  <2> QED
    BY <2>1, <2>2
<1>6. NobodyWaitsInVain'
  BY <1>4, <1>5 DEF NobodyWaitsInVain
<1>7. \A u \in Tabs : \A v \in Tabs \ {u} : promise'[u] # None => promise'[v] # promise'[u]
  BY <1>1, <1>2 DEF WaitersKnown
<1>8. \A d \in Calls : call'[d] # NoCall /\ call'[d].pc # "login" => call'[d].req = None
  BY DEF WaitersKnown
<1>9. \A d \in Calls : \A e \in Calls \ {d} :
        call'[d].pc = "login" /\ call'[e].pc = "login" => call'[e].req # call'[d].req
  BY <1>4 DEF WaitersKnown
<1> QED
  BY <1>3, <1>6, <1>7, <1>8, <1>9 DEF WaitersKnown

LEMMA LoginStarts ==
  ASSUME TypeOK, WaitersKnown, NEW c \in Calls, NEW r \in Requests,
         promise' = promise,
         call'[c].pc = "login", call'[c].req = r,
         \A d \in Calls \ {c} : call'[d] = call[d],
         req[r] = NoRequest, LoginComes(r)',
         \A q \in Requests \ {r} : req'[q] = req[q]
  PROVE  WaitersKnown'
<1>1. ASSUME NEW u \in Tabs, promise[u] # None
      PROVE  ExchangeComes(promise[u])'
  <2>1. promise[u] \in Requests \ {r} /\ ExchangeComes(promise[u])
    BY <1>1 DEF TypeOK, WaitersKnown, ExchangeComes
  <2> QED
    BY <2>1 DEF ExchangeComes
<1>2. ASSUME NEW d \in Calls \ {c}, call'[d].pc = "login"
      PROVE  call[d].req # r /\ LoginComes(call[d].req)'
  <2>1. call'[d] = call[d] /\ LoginComes(call[d].req) /\ call[d].req \in Requests \ {r}
    BY <1>2, CallType DEF WaitersKnown, NobodyWaitsInVain, LoginComes, Call
  <2> QED
    BY <2>1 DEF LoginComes
<1>3. \A d \in Calls : call'[d].pc = "login" => LoginComes(call[d].req)'
  BY <1>2 DEF LoginComes
<1>4. ASSUME NEW d \in Calls, call'[d].pc = "waiting"
      PROVE  ExchangeComes(promise[call[d].tab])'
  <2>1. d # c /\ call'[d] = call[d]
    BY <1>4
  <2> QED
    BY <1>1, <1>4, <2>1, WaitsForPromise
<1>5. NobodyWaitsInVain'
  BY <1>3, <1>4 DEF NobodyWaitsInVain
<1>6. \A d \in Calls : call'[d] # NoCall /\ call'[d].pc # "login" => call'[d].req = None
  BY DEF WaitersKnown
<1>7. \A d \in Calls : \A e \in Calls \ {d} :
        call'[d].pc = "login" /\ call'[e].pc = "login" => call'[e].req # call'[d].req
  BY <1>2 DEF WaitersKnown
<1> QED
  BY <1>1, <1>5, <1>6, <1>7 DEF WaitersKnown

LEMMA CallWaiters ==
  ASSUME TypeOK, WaitersKnown, NEW c \in Calls, Continue(c) \/ LoseCall(c) \/ SignInLost(c)
  PROVE  WaitersKnown'
<1> USE DEF page, server, bounds, history
<1>1. CASE CallSucceeds(c) \/ DeniedAgain(c) \/ NoTokenLeft(c) \/ LoseCall(c)
  <2>1. UNCHANGED <<promise, req>> /\ call' = [call EXCEPT ![c] = NoCall]
    BY <1>1 DEF CallSucceeds, DeniedAgain, NoTokenLeft, LoseCall
  <2>2. \A d \in Calls : call'[d] \in {NoCall, call[d]}
    BY <2>1 DEF TypeOK
  <2> QED
    BY <2>1, <2>2, PageWaiters, WaitsForPromise DEF NoCall
<1>2. CASE JoinRefresh(c)
  <2>1. /\ UNCHANGED <<promise, req>> /\ promise[call[c].tab] # None
        /\ call[c].pc = "sent" /\ call' = [call EXCEPT ![c].pc = "waiting"]
    BY <1>2 DEF JoinRefresh, Denied, IsFirst
  <2>2. call[c] \in Call /\ call[c] # NoCall /\ call[c].tab \in Tabs
    BY <2>1, CallType DEF Call
  <2>3. call'[c].pc = "waiting" /\ call'[c].tab = call[c].tab /\ call'[c].req = None
    BY <2>1, <2>2 DEF WaitersKnown, TypeOK, Call
  <2>4. \A d \in Calls \ {c} : call'[d] = call[d]
    BY <2>1 DEF TypeOK
  <2> QED
    BY <2>1, <2>2, <2>3, <2>4, PageWaiters, WaitsForPromise
<1>3. CASE StartRefresh(c)
  <2>1. PICK t \in Tabs, r \in Requests :
          /\ t = call[c].tab /\ r = FreeRequest
          /\ promise' = [promise EXCEPT ![t] = r]
    BY <1>3, CallType, FreeRequestType DEF StartRefresh, Denied, Call
  <2>2. /\ FreeRequests # {} /\ Send("refresh", store, 0)
        /\ call[c].pc = "sent" /\ call' = [call EXCEPT ![c].pc = "waiting"]
    BY <1>3 DEF StartRefresh, Denied
  <2>3. call[c] \in Call /\ call[c] # NoCall
    BY <2>2, CallType
  <2>4. call'[c].pc = "waiting" /\ call'[c].tab = t /\ call'[c].req = None
    BY <2>1, <2>2, <2>3 DEF WaitersKnown, TypeOK, Call
  <2>5. \A d \in Calls \ {c} : call'[d] = call[d]
    BY <2>2 DEF TypeOK
  <2>6. /\ req[r] = NoRequest /\ req'[r] = New("refresh", store, 0)
        /\ \A q \in Requests \ {r} : req'[q] = req[q]
    BY <2>1, <2>2, SentIsNew
  <2>7. ExchangeComes(r)'
    BY <2>6, NoneType DEF ExchangeComes, New, NoRequest
  <2> QED
    BY <2>1, <2>4, <2>5, <2>6, <2>7, ExchangeStarts
<1>4. CASE SignedIn(c)
  <2>1. PICK r \in Requests : r = call[c].req
    BY <1>4, CallType DEF SignedIn, Call
  <2>2. /\ call[c].pc = "login" /\ req' = [req EXCEPT ![r] = NoRequest] /\ promise' = promise
        /\ call' = [call EXCEPT ![c].pc = "sent", ![c].with = req[r].answer, ![c].req = None]
    BY <1>4, <2>1 DEF SignedIn
  <2>3. call'[c].pc = "sent" /\ call'[c].req = None
    BY <2>2, CallType DEF TypeOK, Call
  <2>4. \A d \in Calls \ {c} : call'[d] = call[d]
    BY <2>2 DEF TypeOK
  <2>5. \A d \in Calls : call'[d].pc = "login" => call'[d].req # r
    BY <2>1, <2>2, <2>3, <2>4 DEF WaitersKnown
  <2>6. \A t \in Tabs : promise[t] # r
    BY <2>1, <2>2 DEF WaitersKnown, NobodyWaitsInVain, LoginComes, ExchangeComes
  <2>7. \A q \in Requests \ {r} : req'[q] = req[q]
    BY <2>2 DEF TypeOK
  <2> QED
    BY <2>2, <2>3, <2>4, <2>5, <2>6, <2>7, PageWaiters, WaitsForPromise
<1>5. CASE SignInLost(c)
  <2>1. /\ call[c].pc = "login" /\ call' = [call EXCEPT ![c] = NoCall]
        /\ Abandon({call[c].req}) /\ promise' = promise
    BY <1>5 DEF SignInLost
  <2>2. \A d \in Calls \ {c} : call'[d] = call[d]
    BY <2>1 DEF TypeOK
  <2>3. call'[c] = NoCall
    BY <2>1 DEF TypeOK
  <2>4. \A d \in Calls : call'[d].pc = "login" => call'[d].req # call[c].req
    BY <2>1, <2>2, <2>3 DEF WaitersKnown, NoCall
  <2>5. \A t \in Tabs : promise[t] # None => promise[t] # call[c].req
    BY <2>1 DEF WaitersKnown, NobodyWaitsInVain, LoginComes, ExchangeComes
  <2>6. \A q \in Requests : q # call[c].req => req'[q] = req[q]
    BY <2>1 DEF Abandon
  <2> QED
    BY <2>1, <2>2, <2>3, <2>4, <2>5, <2>6, PageWaiters, WaitsForPromise, NoneType DEF NoCall
<1> QED
  BY <1>1, <1>2, <1>3, <1>4, <1>5 DEF Continue

(* A refresh that ends, however it does, ends for every call of its page.   *)
LEMMA PromiseEnds ==
  ASSUME TypeOK, WaitersKnown, NEW t \in Tabs, promise' = [promise EXCEPT ![t] = None],
         \A c \in Calls : Waiting(c, t) => call'[c] = NoCall \/ (call'[c].pc = "again" /\ call'[c].req = None),
         \A c \in Calls : ~Waiting(c, t) => call'[c] = call[c],
         promise[t] # None,
         \A q \in Requests \ {promise[t]} : req'[q] = req[q]
  PROVE  WaitersKnown'
<1>1. promise'[t] = None /\ \A u \in Tabs \ {t} : promise'[u] = promise[u]
  BY DEF TypeOK
<1>2. ASSUME NEW c \in Calls, call'[c].pc = "waiting"
      PROVE  call'[c].tab \in Tabs /\ promise'[call'[c].tab] # None
  <2>1. ~Waiting(c, t) /\ call'[c] = call[c] /\ call[c] # NoCall
    BY <1>2 DEF NoCall
  <2>2. call[c].tab # t
    BY <1>2, <2>1 DEF Waiting
  <2> QED
    BY <1>1, <1>2, <2>1, <2>2, WaitsForPromise
<1>3. \A c \in Calls : call'[c].pc = "login" => call'[c] = call[c] /\ LoginComes(call[c].req)
  BY DEF NoCall, WaitersKnown, NobodyWaitsInVain
<1>4. \A u \in Tabs : promise'[u] # None => promise'[u] # promise[t]
  BY <1>1 DEF WaitersKnown
<1>5. \A c \in Calls : call'[c].pc = "login" => call'[c].req # promise[t]
  BY <1>3 DEF WaitersKnown, LoginComes, ExchangeComes
<1>6. ASSUME NEW q \in Requests,
             (\E u \in Tabs : promise'[u] = q) \/ (\E c \in Calls : call'[c].pc = "login" /\ call'[c].req = q)
      PROVE  req'[q] = req[q]
  BY <1>4, <1>5, <1>6, NoneType
<1> QED
  BY <1>1, <1>2, <1>3, <1>6, PageWaiters

LEMMA TabWaiters ==
  ASSUME TypeOK, WaitersKnown, NEW t \in Tabs,
         \/ Resolve(t) \/ RefreshLost(t) \/ SignOut(t) \/ LoadPage(t)
         \/ \E c \in Calls : StartCall(t, c) \/ SignIn(t, c)
  PROVE  WaitersKnown'
<1> USE DEF page, server, bounds, history
<1>1. CASE RefreshSucceeds(t)
  <2>1. /\ promise[t] # None /\ promise' = [promise EXCEPT ![t] = None]
        /\ req' = [req EXCEPT ![promise[t]] = NoRequest]
    BY <1>1 DEF RefreshSucceeds, ForgetPromise
  <2>2. ASSUME NEW c \in Calls, Waiting(c, t)
        PROVE  call'[c].pc = "again" /\ call'[c].req = None
    <3>1. call'[c] = [call[c] EXCEPT !.pc = "again", !.with = NewPair(promise[t])]
      BY <1>1, <2>2 DEF RefreshSucceeds
    <3>2. call[c] \in Call /\ call[c].req = None
      BY <2>2, CallPlaced DEF Waiting, WaitersKnown
    <3> QED
      BY <3>1, <3>2 DEF Call
  <2>3. \A c \in Calls : ~Waiting(c, t) => call'[c] = call[c]
    BY <1>1 DEF RefreshSucceeds
  <2>4. \A q \in Requests \ {promise[t]} : req'[q] = req[q]
    BY <2>1 DEF TypeOK
  <2> QED
    BY <2>1, <2>2, <2>3, <2>4, PromiseEnds
<1>2. CASE RefreshRefused(t)
  <2>1. /\ promise[t] # None /\ promise' = [promise EXCEPT ![t] = None] /\ FailWaiting(t)
        /\ req' = [req EXCEPT ![promise[t]] = NoRequest]
    BY <1>2 DEF RefreshRefused, ForgetPromise
  <2>2. \A q \in Requests \ {promise[t]} : req'[q] = req[q]
    BY <2>1 DEF TypeOK
  <2>3. \A c \in Calls : call'[c] = IF Waiting(c, t) THEN NoCall ELSE call[c]
    BY <2>1 DEF FailWaiting
  <2> QED
    BY <2>1, <2>2, <2>3, PromiseEnds
<1>3. CASE RefreshLost(t)
  <2>1. /\ promise[t] # None /\ promise' = [promise EXCEPT ![t] = None] /\ FailWaiting(t)
        /\ Abandon({promise[t]})
    BY <1>3 DEF RefreshLost, ForgetPromise
  <2>2. \A q \in Requests \ {promise[t]} : req'[q] = req[q]
    BY <2>1 DEF Abandon
  <2>3. \A c \in Calls : call'[c] = IF Waiting(c, t) THEN NoCall ELSE call[c]
    BY <2>1 DEF FailWaiting
  <2> QED
    BY <2>1, <2>2, <2>3, PromiseEnds
<1>4. CASE SignOut(t)
  <2>1. UNCHANGED <<promise, call>>
    BY <1>4 DEF SignOut
  <2>2. \A q \in Requests : req[q] = NoRequest \/ req'[q] = req[q]
    BY <1>4, SentIsNew DEF SignOut
  <2> QED
    BY <2>1, <2>2, PageWaiters, WaitsForPromise
<1>5. CASE LoadPage(t)
  <2> DEFINE mine == {promise[t]} \cup {call[c].req : c \in {d \in Calls : call[d] # NoCall /\ call[d].tab = t}}
  <2>1. promise' = [promise EXCEPT ![t] = None] /\ Abandon(mine)
    BY <1>5 DEF LoadPage
  <2>2. promise'[t] = None /\ \A u \in Tabs \ {t} : promise'[u] = promise[u]
    BY <2>1 DEF TypeOK
  <2>3. \A c \in Calls : \/ call'[c] = NoCall
                         \/ call'[c] = call[c] /\ call[c].tab # t
                         \/ call'[c].pc = "sent" /\ call'[c].req = None
    <3>1. \A c \in Calls : Unloaded(t)[c] = NoCall \/ (Unloaded(t)[c] = call[c] /\ call[c].tab # t)
      BY DEF Unloaded
    <3>2. CASE call' = Unloaded(t)
      BY <3>1, <3>2
    <3>3. ASSUME NEW d \in Calls, call' = [Unloaded(t) EXCEPT ![d] = Place(t, "load", "sent", None)]
          PROVE  \A c \in Calls : \/ call'[c] = NoCall
                                  \/ call'[c] = call[c] /\ call[c].tab # t
                                  \/ call'[c].pc = "sent" /\ call'[c].req = None
      BY <3>1, <3>3, UnloadedType DEF Place
    <3> QED
      BY <1>5, <3>2, <3>3 DEF LoadPage
  <2>4. ASSUME NEW u \in Tabs, promise'[u] # None
        PROVE  promise'[u] \notin mine
    <3>1. u # t /\ promise'[u] = promise[u] /\ promise[u] # promise[t]
      BY <2>2, <2>4 DEF WaitersKnown
    <3>2. \A c \in Calls : call[c] # NoCall => call[c].req # promise[u]
      BY <2>4, <3>1 DEF WaitersKnown, NobodyWaitsInVain, LoginComes, ExchangeComes
    <3> QED
      BY <3>1, <3>2
  <2>5. ASSUME NEW c \in Calls, call'[c].pc = "login"
        PROVE  call'[c].req \notin mine /\ call'[c] = call[c]
    <3>1. call'[c] = call[c] /\ call[c].tab # t /\ LoginComes(call[c].req)
      BY <2>3, <2>5 DEF NoCall, WaitersKnown, NobodyWaitsInVain
    <3>2. call[c].req # promise[t]
      BY <3>1 DEF WaitersKnown, LoginComes, ExchangeComes
    <3>3. \A d \in Calls : call[d] # NoCall /\ call[d].tab = t => call[d].req # call[c].req
      BY <2>5, <3>1 DEF WaitersKnown, LoginComes
    <3> QED
      BY <3>1, <3>2, <3>3
  <2>6. \A q \in Requests : q \notin mine => req'[q] = req[q]
    BY <2>1 DEF Abandon
  <2>7. \A c \in Calls : call'[c].pc = "waiting" => call'[c].tab \in Tabs /\ promise'[call'[c].tab] # None
    BY <2>2, <2>3, WaitsForPromise DEF NoCall
  <2> HIDE DEF mine
  <2>8. \A q \in Requests :
          (\E u \in Tabs : promise'[u] = q) \/ (\E c \in Calls : call'[c].pc = "login" /\ call'[c].req = q) =>
            req'[q] = req[q]
    BY <2>4, <2>5, <2>6, NoneType
  <2> QED
    BY <2>2, <2>3, <2>5, <2>7, <2>8, PageWaiters
<1>6. ASSUME NEW c \in Calls, StartCall(t, c)
      PROVE  WaitersKnown'
  <2>1. UNCHANGED <<promise, req>> /\ call' = [call EXCEPT ![c] = Place(t, "data", "sent", None)]
    BY <1>6 DEF StartCall
  <2>2. call'[c].pc = "sent" /\ call'[c].req = None /\ \A d \in Calls \ {c} : call'[d] = call[d]
    BY <2>1 DEF TypeOK, Place
  <2> QED
    BY <2>1, <2>2, PageWaiters, WaitsForPromise
<1>7. ASSUME NEW c \in Calls, SignIn(t, c)
      PROVE  WaitersKnown'
  <2>1. PICK r \in Requests : r = FreeRequest
    BY <1>7, FreeRequestType DEF SignIn
  <2>2. /\ FreeRequests # {} /\ Send("login", None, 0) /\ promise' = promise
        /\ call' = [call EXCEPT ![c] = Place(t, "signin", "login", r)]
    BY <1>7, <2>1 DEF SignIn
  <2>3. call'[c].pc = "login" /\ call'[c].req = r /\ \A d \in Calls \ {c} : call'[d] = call[d]
    BY <2>2 DEF TypeOK, Place
  <2>4. /\ req[r] = NoRequest /\ req'[r] = New("login", None, 0)
        /\ \A q \in Requests \ {r} : req'[q] = req[q]
    BY <2>1, <2>2, SentIsNew
  <2>5. LoginComes(r)'
    BY <2>4, NoneType DEF LoginComes, New, NoRequest
  <2> QED
    BY <2>2, <2>3, <2>4, <2>5, LoginStarts
<1> QED
  BY <1>1, <1>2, <1>3, <1>4, <1>5, <1>6, <1>7 DEF Resolve

LEMMA NextWaiters ==
  ASSUME IInv, [Next]_vars
  PROVE  WaitersKnown'
<1> USE DEF page, server, bounds, history
<1>0. TypeOK /\ WaitersKnown
  BY DEF IInv
<1>1. CASE \E k \in issued \ expired : Expire(k)
  BY <1>0, <1>1, PageWaiters, WaitsForPromise DEF Expire
<1>2. CASE \E k \in live : Lapse(k)
  BY <1>0, <1>2, PageWaiters, WaitsForPromise DEF Lapse
<1>3. CASE StartReset
  <2>1. UNCHANGED <<promise, call>> /\ \A q \in Requests : req[q] = NoRequest \/ req'[q] = req[q]
    BY <1>0, <1>3, SentIsNew DEF StartReset
  <2> QED
    BY <1>0, <2>1, PageWaiters, WaitsForPromise
<1>4. CASE UNCHANGED vars
  BY <1>0, <1>4, PageWaiters, WaitsForPromise DEF vars
<1> QED
  BY <1>0, <1>1, <1>2, <1>3, <1>4, ServerWaiters, CallWaiters, TabWaiters DEF Next

LEMMA NextSafe ==
  ASSUME IInv, [Next]_vars
  PROVE  IInv'
<1>1. TypeOK'
  BY NextTypes DEF IInv
<1>2. PageSendsTokenOnce' /\ AnswersFresh' /\ StoreUnsent' /\ SessionAlive'
  <2>1. CASE Next
    BY <2>1, ServerSafe, CallSafe, TabSafe, OtherSafe DEF Next
  <2>2. CASE UNCHANGED vars
    BY <2>2, FreshKept, UnsentKept, AliveKept
      DEF vars, page, server, bounds, history, IInv, PageSendsTokenOnce
  <2> QED
    BY <2>1, <2>2
<1> QED
  BY <1>1, <1>2, NextReset, NextWaiters DEF IInv

LEMMA InitSafe ==
  ASSUME Init
  PROVE  IInv
<1>1. store \in Pair
  BY TokensAssumption DEF Init, Pair
<1>2. TypeOK
  <2>1. issued \subseteq Tokens /\ live \subseteq issued /\ expired \subseteq issued
    BY <1>1 DEF Init, Pair
  <2>2. /\ user \in [Tabs -> BOOLEAN]
        /\ sent \in [Tabs -> [Tokens -> Nat]]
        /\ signIns \in Nat
    BY DEF Init
  <2> QED
    BY <1>1, <2>1, <2>2 DEF Init, TypeOK
<1>3. \A r \in Requests : req[r].pc = "none"
  BY DEF Init, NoRequest
<1>4. PageSendsTokenOnce /\ AnswersFresh
  BY <1>3 DEF Init, PageSendsTokenOnce, AnswersFresh
<1>5. StoreUnsent
  BY <1>1 DEF Init, StoreUnsent, Pair
<1>6. SessionAlive
  BY <1>3 DEF Init, SessionAlive, Exchange, NoCall
<1>7. ResetKnown
  BY <1>3 DEF Init, ResetKnown, ResetEndsSessions
<1>8. WaitersKnown
  BY DEF Init, WaitersKnown, NobodyWaitsInVain, NoCall
<1> QED
  BY <1>2, <1>4, <1>5, <1>6, <1>7, <1>8 DEF IInv

-----------------------------------------------------------------------------
(* The inductive invariant: where every token is in its life, and that the  *)
(* tokens still to be exchanged are live while nothing went wrong.          *)
THEOREM Invariant == Spec => []IInv
<1>1. Init => IInv
  BY InitSafe
<1>2. IInv /\ [Next]_vars => IInv'
  BY NextSafe
<1> QED
  BY <1>1, <1>2, PTL DEF Spec

(* Type correctness, for any number of tabs, calls and requests. *)
THEOREM TypeCorrect == Spec => []TypeOK
<1>1. IInv => TypeOK
  BY DEF IInv
<1> QED
  BY <1>1, Invariant, PTL

(* No page, from its load to the next, sends a refresh token twice: however *)
(* many calls are refused at once, and whatever other tabs do to the store. *)
THEOREM OneExchangePerPage == Spec => []PageSendsTokenOnce
<1>1. IInv => PageSendsTokenOnce
  BY DEF IInv
<1> QED
  BY <1>1, Invariant, PTL

(* A session that no page, user, password or clock gave a reason to end is  *)
(* never dropped by the single-use rotation.                                *)
THEOREM SessionsSurvive == Spec => []SessionEndsForCause
<1>1. IInv => SessionEndsForCause
  BY DEF IInv, SessionAlive, SessionEndsForCause
<1> QED
  BY <1>1, Invariant, PTL

(* refreshPromise: a call that waits, waits for an exchange its page has    *)
(* under way, and a sign-in for its own answer.                             *)
THEOREM WaitersAreServed == Spec => []NobodyWaitsInVain
<1>1. IInv => NobodyWaitsInVain
  BY DEF IInv, WaitersKnown
<1> QED
  BY <1>1, Invariant, PTL

(* revoke_all_for_user: what was issued when a reset read its tokens is     *)
(* dead for good once it has committed.                                     *)
THEOREM ResetsEndSessions == Spec => []ResetEndsSessions
<1>1. IInv => ResetEndsSessions
  BY DEF IInv, ResetKnown
<1> QED
  BY <1>1, Invariant, PTL
=============================================================================
