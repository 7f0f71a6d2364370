---------------------------- MODULE SessionProofs ----------------------------
(* Nobody is served a page whom the server, as it is configured now, would  *)
(* not let in: for any number of tabs, users, domains and restarts.         *)
EXTENDS Session, TLAPS

-----------------------------------------------------------------------------
(* The inductive invariant.                                                 *)

TypeInv ==
  /\ key \in 0 .. MaxRestarts
  /\ allowed \subseteq Domains
  /\ cookie \in Cookie \cup {NoCookie}
  /\ request \in [Tabs -> Request \cup {Nothing}]
  /\ answer \in [Tabs -> Answer \cup {Nothing}]

(* A cookie that the present key opens was made under it, hence for a user  *)
(* whom the present configuration allows.  Wherever a cookie is - in the    *)
(* browser, in a request that was sent before a restart, in an answer that  *)
(* has not arrived - this has to hold of it.                                *)
SoundFor(c, k, domains) ==
  c \in Cookie =>
    /\ c.key <= k
    /\ c.key = k => DomainOf[c.user] \in domains /\ c.user \in Verified

Sound(c) == SoundFor(c, key, allowed)

TabInv(t) ==
  /\ request[t] = Nothing \/ answer[t] = Nothing
  /\ request[t] # Nothing => Sound(request[t].cookie)
  /\ answer[t] # Nothing => Sound(answer[t].cookie)

IInv == TypeInv /\ Sound(cookie) /\ \A t \in Tabs : TabInv(t)

-----------------------------------------------------------------------------
(* Types.                                                                   *)

LEMMA NotACookie ==
  /\ NoCookie \notin Cookie /\ AsItWas \notin Cookie /\ NoCookie # AsItWas
  /\ Nothing \notin Request /\ Nothing \notin Answer
BY SessionAssumption

LEMMA RequestType ==
  ASSUME NEW q \in Request
  PROVE  /\ q.cookie \in Cookie \cup {NoCookie}
         /\ q.what \in {"page", "signIn", "signOut"}
         /\ q.what = "signIn" => q.user \in Users /\ q.token \in TokenLife
BY DEF Request

LEMMA AnswerType ==
  ASSUME NEW page \in Page, NEW set \in SetCookie
  PROVE  LET a == [page |-> page, cookie |-> set]
         IN a \in Answer /\ a.page = page /\ a.cookie = set
BY DEF Answer

(* Time changes the age of a cookie and how long it is kept, and nothing    *)
(* else about it.                                                           *)
LEMMA OlderIs ==
  ASSUME NEW c \in Cookie
  PROVE  Older(c) \in Cookie /\ Older(c).key = c.key /\ Older(c).user = c.user
<1>1. Older(c) = [c EXCEPT !.age = IF @ > SessionMaxAge THEN @ ELSE @ + 1]
  BY NotACookie DEF Older
<1>2. c.age \in 0 .. SessionMaxAge + 1 /\ SessionMaxAge \in Nat
  BY SessionAssumption DEF Cookie
<1>3. (IF c.age > SessionMaxAge THEN c.age ELSE c.age + 1) \in 0 .. SessionMaxAge + 1
  BY <1>2
<1>4. QED
  BY <1>1, <1>3 DEF Cookie

LEMMA OlderNoCookie == Older(NoCookie) = NoCookie /\ Older(AsItWas) = AsItWas
BY DEF Older

LEMMA KeptIs ==
  ASSUME NEW c \in Cookie \cup {NoCookie}
  PROVE  Kept(c) = NoCookie \/ (/\ c \in Cookie /\ Kept(c) \in Cookie
                                /\ Kept(c).key = c.key /\ Kept(c).user = c.user)
<1>1. CASE c \in Cookie
  <2>1. c.maxAge \in 0 .. MaxTokenLife /\ MaxTokenLife \in Nat
    BY <1>1, SessionAssumption DEF Cookie
  <2>2. c.maxAge \notin {0, 1} => [c EXCEPT !.maxAge = @ - 1] \in Cookie
    <3>1. c.maxAge \notin {0, 1} => c.maxAge - 1 \in 0 .. MaxTokenLife
      BY <2>1
    <3>2. QED
      BY <1>1, <3>1 DEF Cookie
  <2>3. [c EXCEPT !.maxAge = @ - 1].key = c.key /\ [c EXCEPT !.maxAge = @ - 1].user = c.user
    BY <1>1 DEF Cookie
  <2>4. QED
    BY <1>1, <2>2, <2>3 DEF Kept
<1>2. CASE c = NoCookie
  BY <1>2 DEF Kept
<1>3. QED
  BY <1>1, <1>2

LEMMA OlderSound ==
  ASSUME NEW k, NEW domains, NEW c \in SetCookie, SoundFor(c, k, domains)
  PROVE  /\ SoundFor(Older(c), k, domains) /\ Older(c) \in SetCookie
         /\ c # AsItWas => Older(c) # AsItWas
<1>1. CASE c \in Cookie
  BY <1>1, OlderIs, NotACookie DEF SoundFor, SetCookie
<1>2. CASE c \in {NoCookie, AsItWas}
  BY <1>2, OlderNoCookie, NotACookie DEF SoundFor, SetCookie
<1>3. QED
  BY <1>1, <1>2 DEF SetCookie

-----------------------------------------------------------------------------
LEMMA InitInv == Init => IInv
BY NotACookie, SessionAssumption DEF Init, IInv, TypeInv, TabInv, Sound, SoundFor

LEMMA BrowserInv ==
  ASSUME IInv, NEW t \in Tabs, Send(t) \/ Receive(t) \/ GiveUp(t)
  PROVE  IInv'
<1>1. CASE Send(t)
  <2>1. PICK q \in Request : /\ q.cookie = cookie
                             /\ request' = [request EXCEPT ![t] = q]
    <3>1. CASE \E what \in {"page", "signOut"} :
                 request' = [request EXCEPT ![t] = [what |-> what, cookie |-> cookie]]
      <4>1. PICK what \in {"page", "signOut"} :
                 request' = [request EXCEPT ![t] = [what |-> what, cookie |-> cookie]]
        BY <3>1
      <4>2. [what |-> what, cookie |-> cookie] \in Request
        BY DEF IInv, TypeInv, Request
      <4>3. QED
        BY <4>1, <4>2
    <3>2. CASE \E u \in Users, left \in TokenLife :
                 request' = [request EXCEPT ![t] =
                   [what |-> "signIn", cookie |-> cookie, user |-> u, token |-> left]]
      <4>1. PICK u \in Users, left \in TokenLife :
                 request' = [request EXCEPT ![t] =
                   [what |-> "signIn", cookie |-> cookie, user |-> u, token |-> left]]
        BY <3>2
      <4>2. [what |-> "signIn", cookie |-> cookie, user |-> u, token |-> left] \in Request
        BY DEF IInv, TypeInv, Request
      <4>3. QED
        BY <4>1, <4>2
    <3>3. QED
      BY <1>1, <3>1, <3>2 DEF Send
  <2>2. answer[t] = Nothing /\ UNCHANGED <<key, allowed, cookie, answer>>
    BY <1>1 DEF Send
  <2>3. TypeInv' /\ Sound(cookie)'
    BY <2>1, <2>2 DEF IInv, TypeInv, Sound
  <2>4. ASSUME NEW s \in Tabs PROVE TabInv(s)'
    BY <2>1, <2>2 DEF IInv, TypeInv, TabInv, Sound
  <2>5. QED
    BY <2>3, <2>4 DEF IInv
<1>2. CASE Receive(t)
  <2>1. /\ answer[t] \in Answer /\ answer[t] # Nothing
        /\ cookie' = IF answer[t].cookie = AsItWas THEN cookie ELSE answer[t].cookie
        /\ answer' = [answer EXCEPT ![t] = Nothing]
        /\ UNCHANGED <<key, allowed, request>>
    BY <1>2 DEF Receive, IInv, TypeInv
  <2>2. answer[t].cookie \in SetCookie /\ Sound(answer[t].cookie) /\ Sound(cookie)
    BY <2>1 DEF Answer, IInv, TabInv
  <2>3. TypeInv' /\ Sound(cookie)'
    BY <2>1, <2>2 DEF IInv, TypeInv, SetCookie, Sound
  <2>4. ASSUME NEW s \in Tabs PROVE TabInv(s)'
    BY <2>1 DEF IInv, TypeInv, TabInv, Sound
  <2>5. QED
    BY <2>3, <2>4 DEF IInv
<1>3. CASE GiveUp(t)
  <2>1. TypeInv' /\ Sound(cookie)'
    BY <1>3 DEF GiveUp, IInv, TypeInv, Sound
  <2>2. ASSUME NEW s \in Tabs PROVE TabInv(s)'
    BY <1>3 DEF GiveUp, IInv, TypeInv, TabInv, Sound
  <2>3. QED
    BY <2>1, <2>2 DEF IInv
<1>4. QED
  BY <1>1, <1>2, <1>3

LEMMA CloseBrowserInv ==
  ASSUME IInv, CloseBrowser
  PROVE  IInv'
<1>1. TypeInv'
  BY DEF CloseBrowser, IInv, TypeInv
<1>2. Sound(cookie)'
  BY NotACookie DEF CloseBrowser, IInv, Sound, SoundFor
<1>3. ASSUME NEW s \in Tabs PROVE TabInv(s)'
  BY DEF CloseBrowser, TabInv
<1>4. QED
  BY <1>1, <1>2, <1>3 DEF IInv

(* What Tick makes of a request and of an answer.                           *)
OlderRequest(q) ==
  IF q.what = "signIn"
  THEN [q EXCEPT !.cookie = Older(@), !.token = IF @ = -2 THEN @ ELSE @ - 1]
  ELSE [q EXCEPT !.cookie = Older(@)]

LEMMA OlderRequestIs ==
  ASSUME NEW q \in Request, Older(q.cookie) \in Cookie \cup {NoCookie}
  PROVE  OlderRequest(q) \in Request /\ OlderRequest(q).cookie = Older(q.cookie)
<1>1. CASE q.what = "signIn"
  <2> DEFINE left == IF q.token = -2 THEN q.token ELSE q.token - 1
  <2>1. q \in [what : {"signIn"}, cookie : Cookie \cup {NoCookie}, user : Users, token : TokenLife]
    BY <1>1 DEF Request
  <2>2. left \in TokenLife
    <3>1. q.token \in -2 .. MaxTokenLife /\ MaxTokenLife \in Nat
      BY <2>1, SessionAssumption DEF TokenLife
    <3>2. QED
      BY <3>1 DEF TokenLife
  <2>3. OlderRequest(q) = [q EXCEPT !.cookie = Older(q.cookie), !.token = left]
    BY <1>1 DEF OlderRequest
  <2> HIDE DEF left
  <2>4. QED
    BY <2>1, <2>2, <2>3 DEF Request
<1>2. CASE q.what # "signIn"
  <2>1. q \in [what : {"page", "signOut"}, cookie : Cookie \cup {NoCookie}]
    BY <1>2 DEF Request
  <2>2. OlderRequest(q) = [q EXCEPT !.cookie = Older(q.cookie)]
    BY <1>2 DEF OlderRequest
  <2>3. QED
    BY <2>1, <2>2 DEF Request
<1>3. QED
  BY <1>1, <1>2

LEMMA TickInv ==
  ASSUME IInv, Tick
  PROVE  IInv'
<1>1. UNCHANGED <<key, allowed>>
  BY DEF Tick
<1>2. cookie' \in Cookie \cup {NoCookie} /\ Sound(cookie)'
  <2>1. Kept(cookie) \in SetCookie /\ Kept(cookie) # AsItWas /\ Sound(Kept(cookie))
    BY KeptIs, NotACookie DEF IInv, TypeInv, Sound, SoundFor, SetCookie
  <2>2. QED
    BY <1>1, <2>1, OlderSound DEF Tick, SetCookie, Sound
<1>3. ASSUME NEW s \in Tabs
      PROVE  /\ request'[s] \in Request \cup {Nothing}
             /\ answer'[s] \in Answer \cup {Nothing}
             /\ request[s] = Nothing => request'[s] = Nothing
             /\ answer[s] = Nothing => answer'[s] = Nothing
             /\ TabInv(s)'
  <2>1. /\ request'[s] = IF request[s] = Nothing THEN Nothing ELSE OlderRequest(request[s])
        /\ answer'[s] = IF answer[s] = Nothing THEN Nothing
                        ELSE [answer[s] EXCEPT !.cookie = Older(@)]
    BY DEF Tick, OlderRequest
  <2>2. ASSUME request[s] # Nothing
        PROVE  request'[s] \in Request /\ SoundFor(request'[s].cookie, key', allowed')
    <3>1. request[s] \in Request /\ SoundFor(request[s].cookie, key', allowed')
      BY <1>1, <2>2 DEF IInv, TypeInv, TabInv, Sound
    <3>2. request[s].cookie \in SetCookie /\ request[s].cookie # AsItWas
      BY <3>1, RequestType, NotACookie DEF SetCookie
    <3>3. /\ SoundFor(Older(request[s].cookie), key', allowed')
          /\ Older(request[s].cookie) \in Cookie \cup {NoCookie}
      BY <3>1, <3>2, OlderSound DEF SetCookie
    <3>4. /\ OlderRequest(request[s]) \in Request
          /\ OlderRequest(request[s]).cookie = Older(request[s].cookie)
      BY <3>1, <3>3, OlderRequestIs
    <3>5. request'[s] = OlderRequest(request[s])
      BY <2>1, <2>2
    <3>6. QED
      BY <3>3, <3>4, <3>5
  <2>3. ASSUME answer[s] # Nothing
        PROVE  answer'[s] \in Answer /\ SoundFor(answer'[s].cookie, key', allowed')
    <3>1. /\ answer[s] \in Answer /\ SoundFor(answer[s].cookie, key', allowed')
          /\ answer[s].cookie \in SetCookie
      BY <1>1, <2>3 DEF IInv, TypeInv, TabInv, Answer, Sound
    <3>2. /\ SoundFor(Older(answer[s].cookie), key', allowed')
          /\ Older(answer[s].cookie) \in SetCookie
      BY <3>1, OlderSound
    <3>3. answer'[s] = [answer[s] EXCEPT !.cookie = Older(answer[s].cookie)]
      BY <2>1, <2>3
    <3>4. answer'[s] \in Answer /\ answer'[s].cookie = Older(answer[s].cookie)
      BY <3>1, <3>2, <3>3 DEF Answer
    <3>5. QED
      BY <3>2, <3>4
  <2>4. QED
    BY <2>1, <2>2, <2>3 DEF IInv, TabInv, Sound
<1>4. TypeInv'
  <2>1. request' \in [Tabs -> Request \cup {Nothing}] /\ answer' \in [Tabs -> Answer \cup {Nothing}]
    <3>1. request' = [s \in Tabs |-> request'[s]] /\ answer' = [s \in Tabs |-> answer'[s]]
      BY DEF Tick
    <3>2. QED
      BY <1>3, <3>1
  <2>2. QED
    BY <1>1, <1>2, <2>1 DEF IInv, TypeInv
<1>5. QED
  BY <1>2, <1>3, <1>4 DEF IInv

(* No cookie is sound for a key that has just been drawn, except vacuously: *)
(* the new configuration need not allow whom the old one did.               *)
LEMMA RestartInv ==
  ASSUME IInv, Restart
  PROVE  IInv'
<1>1. /\ key' = key + 1 /\ key' \in 0 .. MaxRestarts /\ allowed' \subseteq Domains
      /\ key \in Nat /\ UNCHANGED <<cookie, request, answer>>
  BY SessionAssumption DEF Restart, IInv, TypeInv
<1>2. ASSUME NEW c, SoundFor(c, key, allowed)
      PROVE  SoundFor(c, key', allowed')
  <2>1. c \in Cookie => c.key \in Nat
    BY SessionAssumption DEF Cookie
  <2>2. QED
    BY <1>1, <1>2, <2>1 DEF SoundFor
<1>3. QED
  BY <1>1, <1>2 DEF IInv, TypeInv, TabInv, Sound

(* A reply takes the request off the tab, and may only set a sound cookie.  *)
LEMMA ReplyInv ==
  ASSUME IInv, NEW t \in Tabs, NEW page \in Page, NEW set \in SetCookie,
         Sound(set), Reply(t, page, set)
  PROVE  IInv'
<1> DEFINE reply == [page |-> page, cookie |-> set]
<1>1. reply \in Answer /\ reply.cookie = set
  BY AnswerType
<1>2. /\ request' = [request EXCEPT ![t] = Nothing]
      /\ answer' = [answer EXCEPT ![t] = reply]
      /\ UNCHANGED <<key, allowed, cookie>>
  BY DEF Reply
<1> HIDE DEF reply
<1>3. TypeInv' /\ Sound(cookie)'
  BY <1>1, <1>2 DEF IInv, TypeInv, Sound
<1>4. ASSUME NEW s \in Tabs PROVE TabInv(s)'
  BY <1>1, <1>2 DEF IInv, TypeInv, TabInv, Sound
<1>5. QED
  BY <1>3, <1>4 DEF IInv

LEMMA HandleInv ==
  ASSUME IInv, NEW t \in Tabs, Handle(t)
  PROVE  IInv'
<1>1. Sound(AsItWas) /\ Sound(NoCookie) /\ AsItWas \in SetCookie /\ NoCookie \in SetCookie
  BY NotACookie DEF Sound, SoundFor, SetCookie
<1>2. CASE SignIn(t)
  <2> DEFINE q == request[t]
             new == [key |-> key, user |-> q.user, age |-> 0, maxAge |-> MaxAge(q.token)]
  <2>1. q \in Request /\ q.what = "signIn" /\ IsAllowedDomain(q.user) /\ q.user \in Verified
    BY <1>2 DEF SignIn, Got, IInv, TypeInv
  <2>2. q.user \in Users /\ q.token \in TokenLife
    BY <2>1, RequestType
  <2>3. MaxAge(q.token) < 0 \/ MaxAge(q.token) \in 0 .. MaxTokenLife
    BY <2>2, SessionAssumption DEF MaxAge, TokenLife
  <2>4. key \in 0 .. MaxRestarts /\ 0 \in 0 .. SessionMaxAge + 1
    BY SessionAssumption DEF IInv, TypeInv
  <2>5. ~(MaxAge(q.token) < 0) => new \in Cookie
    BY <2>2, <2>3, <2>4 DEF Cookie
  <2>6. Sound(new)
    BY <2>1, <2>4, SessionAssumption DEF Sound, SoundFor, IsAllowedDomain
  <2>7. Reply(t, "redirect", IF MaxAge(q.token) < 0 THEN NoCookie ELSE new)
    BY <1>2 DEF SignIn
  <2> HIDE DEF new, q
  <2>8. QED
    BY <1>1, <2>5, <2>6, <2>7, ReplyInv DEF SetCookie, Page
<1>3. CASE Signout(t)
  BY <1>1, <1>3, ReplyInv DEF Signout, Page
<1>4. CASE Refuse(t) \/ Fail(t) \/ GetPage(t) \/ AlreadySignedIn(t) \/ Unauthorized(t)
  <2>1. \E page \in Page : Reply(t, page, AsItWas)
    BY <1>4 DEF Refuse, Fail, GetPage, AlreadySignedIn, Unauthorized, Page
  <2>2. QED
    BY <1>1, <2>1, ReplyInv
<1>5. QED
  BY <1>2, <1>3, <1>4 DEF Handle

LEMMA NextInv ==
  ASSUME IInv, [Next]_vars
  PROVE  IInv'
<1>1. CASE UNCHANGED vars
  BY <1>1 DEF vars, IInv, TypeInv, TabInv, Sound
<1>2. QED
  BY <1>1, BrowserInv, HandleInv, CloseBrowserInv, TickInv, RestartInv DEF Next

LEMMA Invariance == Spec => []IInv
<1>1. QED
  BY InitInv, NextInv, PTL DEF Spec

-----------------------------------------------------------------------------
(* Only the server's answer to a request brings a new answer: time makes    *)
(* the cookie inside an answer older, but not while a request is waiting.   *)
LEMMA OnlyGetPageServesHome ==
  ASSUME IInv, Next, NEW t \in Tabs, ServesHome(t)
  PROVE  GetPage(t) /\ SignedIn(request[t].cookie)
<1>1. /\ request[t] # Nothing /\ answer[t] = Nothing
      /\ answer'[t] # Nothing /\ answer'[t].page = "home"
  BY DEF ServesHome, IInv, TabInv
<1>2. answer \in [Tabs -> Answer \cup {Nothing}]
  BY DEF IInv, TypeInv
<1>3. ASSUME NEW s \in Tabs, Send(s) \/ Receive(s) \/ GiveUp(s)
      PROVE  FALSE
  BY <1>1, <1>2, <1>3 DEF Send, Receive, GiveUp
<1>4. ~(CloseBrowser \/ Tick \/ Restart)
  BY <1>1 DEF CloseBrowser, Tick, Restart
<1>5. PICK s \in Tabs : Handle(s)
  BY <1>3, <1>4 DEF Next
<1>6. ASSUME NEW page, NEW set, Reply(s, page, set)
      PROVE  s = t /\ page = "home"
  <2>1. s = t
    BY <1>1, <1>2, <1>6 DEF Reply
  <2>2. answer'[t] = [page |-> page, cookie |-> set]
    BY <1>2, <1>6, <2>1 DEF Reply
  <2>3. QED
    BY <1>1, <2>1, <2>2
<1>7. ~(Refuse(s) \/ Fail(s) \/ AlreadySignedIn(s) \/ Unauthorized(s) \/ SignIn(s) \/ Signout(s))
  <2>1. Refuse(s) \/ Fail(s) \/ AlreadySignedIn(s) \/ Unauthorized(s) \/ SignIn(s) \/ Signout(s)
          => \E page \in {"error", "redirect", "unauthorized"} : \E set : Reply(s, page, set)
    BY DEF Refuse, Fail, AlreadySignedIn, Unauthorized, SignIn, Signout
  <2>2. QED
    BY <1>6, <2>1
<1>8. GetPage(s)
  BY <1>5, <1>7 DEF Handle
<1>9. s = t /\ SignedIn(request[s].cookie)
  BY <1>6, <1>8 DEF GetPage
<1>10. QED
  BY <1>8, <1>9

(* The session middleware lets nobody in but whom the present configuration *)
(* allows, on the strength of a cookie that is not too old: neither a       *)
(* restart with a narrower allowedDomains, nor a request or an answer that  *)
(* was under way during it, nor a clock running on, makes an exception.     *)
THEOREM OnlyAllowedAreServed == Spec => ServedIsAllowed
<1>1. ASSUME IInv, Next, NEW t \in Tabs, ServesHome(t)
      PROVE  LET c == request[t].cookie
             IN IsAllowedDomain(c.user) /\ c.user \in Verified /\ c.age <= SessionMaxAge
  <2> DEFINE c == request[t].cookie
  <2>1. Got(t, "page") /\ SignedIn(c)
    BY <1>1, OnlyGetPageServesHome DEF GetPage
  <2>2. request[t] \in Request /\ Sound(c)
    BY <1>1, <2>1 DEF Got, IInv, TypeInv, TabInv
  <2>3. c \in Cookie
    BY <2>1, <2>2, RequestType DEF SignedIn
  <2>4. QED
    BY <2>1, <2>2, <2>3 DEF SignedIn, Decodes, Sound, SoundFor, IsAllowedDomain
<1>2. IInv /\ [Next]_vars =>
        [\A t \in Tabs : ServesHome(t) =>
           LET c == request[t].cookie
           IN IsAllowedDomain(c.user) /\ c.user \in Verified /\ c.age <= SessionMaxAge]_vars
  BY <1>1
<1>3. QED
  BY <1>2, Invariance, PTL DEF Spec, ServedIsAllowed
=============================================================================
