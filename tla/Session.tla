------------------------------- MODULE Session -------------------------------
(***************************************************************************)
(* Signing in to the web application and out of it (pkg/webapp, run-server). *)
(*                                                                          *)
(* The server keeps nothing but a key, drawn at every start: a session is a *)
(* cookie that the browser holds for as long as the token lived when it was *)
(* posted, and that the server refuses after sessionMaxAgeInSeconds or when *)
(* it has another key.  A refused cookie makes every page an error, the     *)
(* posting of a new token and the sign-out included.                        *)
(*                                                                          *)
(* One browser with several tabs; time counts seconds.                      *)
(***************************************************************************)
EXTENDS Integers

CONSTANTS
  Tabs, Users, Domains,
  DomainOf,              \* the domain of a user's e-mail address
  Verified,              \* users whose address Google has verified
  SessionMaxAge,         \* sessionMaxAgeInSeconds
  NoCookie, AsItWas,     \* no cookie; an answer that does not set any
  Nothing,               \* no request, no answer
  MaxTokenLife,          \* bound: seconds a token has left
  MaxRestarts            \* bound

(* Whole seconds a token has left, rounded down: 0 in its last second, -1   *)
(* in the first one after it, -2 from then on.                              *)
TokenLife == -2 .. MaxTokenLife
Cookie == [key : 0 .. MaxRestarts, user : Users, age : 0 .. SessionMaxAge + 1,
           maxAge : 0 .. MaxTokenLife]
SetCookie == Cookie \cup {NoCookie, AsItWas}
Request ==
  [what : {"page", "signOut"}, cookie : Cookie \cup {NoCookie}] \cup
  [what : {"signIn"}, cookie : Cookie \cup {NoCookie}, user : Users, token : TokenLife]
Page == {"home", "redirect", "error", "unauthorized"}
Answer == [page : Page, cookie : SetCookie]

ASSUME SessionAssumption ==
  /\ DomainOf \in [Users -> Domains]
  /\ Verified \subseteq Users
  /\ {SessionMaxAge, MaxTokenLife, MaxRestarts} \subseteq Nat
  /\ {NoCookie, AsItWas} \cap Cookie = {} /\ NoCookie # AsItWas
  /\ Nothing \notin Request \cup Answer

VARIABLES
  key,       \* the key of the server: how often it was restarted
  allowed,   \* allowedDomains of its configuration
  cookie,    \* the browser's cookie, with the seconds it will keep it (0: until
             \* it is closed), and the age and the user inside
  request,   \* what each tab has sent and the server has not handled
  answer     \* what the server has sent and the tab has not received

vars == <<key, allowed, cookie, request, answer>>

Init ==
  /\ key = 0
  /\ allowed \in SUBSET Domains
  /\ cookie = NoCookie
  /\ request = [t \in Tabs |-> Nothing]
  /\ answer = [t \in Tabs |-> Nothing]

-----------------------------------------------------------------------------
(* The browser.                                                             *)

Send(t) ==
  /\ request[t] = Nothing /\ answer[t] = Nothing
  /\ \/ \E what \in {"page", "signOut"} :
          request' = [request EXCEPT ![t] = [what |-> what, cookie |-> cookie]]
     \/ \E u \in Users, left \in TokenLife :
          request' = [request EXCEPT ![t] =
            [what |-> "signIn", cookie |-> cookie, user |-> u, token |-> left]]
  /\ UNCHANGED <<key, allowed, cookie, answer>>

Receive(t) ==
  /\ answer[t] # Nothing
  /\ cookie' = IF answer[t].cookie = AsItWas THEN cookie ELSE answer[t].cookie
  /\ answer' = [answer EXCEPT ![t] = Nothing]
  /\ UNCHANGED <<key, allowed, request>>

(* The tab is closed, the connection breaks before or after the handler, or *)
(* the handler panics, as it does for a token that cannot be parsed.        *)
GiveUp(t) ==
  /\ <<request[t], answer[t]>> # <<Nothing, Nothing>>
  /\ request' = [request EXCEPT ![t] = Nothing]
  /\ answer' = [answer EXCEPT ![t] = Nothing]
  /\ UNCHANGED <<key, allowed, cookie>>

CloseBrowser ==
  /\ cookie' = IF cookie # NoCookie /\ cookie.maxAge = 0 THEN NoCookie ELSE cookie
  /\ request' = [t \in Tabs |-> Nothing]
  /\ answer' = [t \in Tabs |-> Nothing]
  /\ UNCHANGED <<key, allowed>>

(* What is inside a cookie gets older wherever it is.                       *)
Older(c) ==
  IF c \in {NoCookie, AsItWas} THEN c
  ELSE [c EXCEPT !.age = IF @ > SessionMaxAge THEN @ ELSE @ + 1]

Kept(c) ==
  IF c = NoCookie \/ c.maxAge = 0 THEN c
  ELSE IF c.maxAge = 1 THEN NoCookie
  ELSE [c EXCEPT !.maxAge = @ - 1]

Tick ==
  /\ cookie' = Older(Kept(cookie))
  /\ request' = [t \in Tabs |->
       IF request[t] = Nothing THEN Nothing
       ELSE IF request[t].what = "signIn"
            THEN [request[t] EXCEPT !.cookie = Older(@),
                                    !.token = IF @ = -2 THEN @ ELSE @ - 1]
            ELSE [request[t] EXCEPT !.cookie = Older(@)]]
  /\ answer' = [t \in Tabs |->
       IF answer[t] = Nothing THEN Nothing ELSE [answer[t] EXCEPT !.cookie = Older(@)]]
  /\ UNCHANGED <<key, allowed>>

-----------------------------------------------------------------------------
(* The server.                                                              *)

(* Slip: the key is a constant.                                             *)
RestartSameKey ==
  /\ key < MaxRestarts
  /\ allowed' \in SUBSET Domains
  /\ UNCHANGED <<key, cookie, request, answer>>

(* A new start, with a new key and perhaps a new configuration.             *)
Restart ==
  /\ key < MaxRestarts
  /\ key' = key + 1
  /\ allowed' \in SUBSET Domains
  /\ UNCHANGED <<cookie, request, answer>>

(* CookieStore.Get: its codec knows the key, and looks at the age.          *)
Decodes(c) == c.key = key /\ c.age <= SessionMaxAge

SignedIn(c) == c # NoCookie /\ Decodes(c)
Refused(c) == c # NoCookie /\ ~Decodes(c)

IsAllowedDomain(u) == DomainOf[u] \in allowed

Reply(t, page, set) ==
  /\ request' = [request EXCEPT ![t] = Nothing]
  /\ answer' = [answer EXCEPT ![t] = [page |-> page, cookie |-> set]]
  /\ UNCHANGED <<key, allowed, cookie>>

Got(t, what) == request[t] # Nothing /\ request[t].what = what

(* Slip: the answer sets the cookie it refuses again.                       *)
RefuseAndSet(t) ==
  /\ request[t] # Nothing
  /\ Refused(request[t].cookie)
  /\ Reply(t, "error", request[t].cookie)

Refuse(t) ==
  /\ request[t] # Nothing
  /\ Refused(request[t].cookie)
  /\ Reply(t, "error", AsItWas)

(* The registry cannot be read, or the session not be written.              *)
Fail(t) ==
  /\ request[t] # Nothing
  /\ ~Refused(request[t].cookie)
  /\ Reply(t, "error", AsItWas)

(* Index with GET; /peers/ begins in the same way.                          *)
GetPage(t) ==
  /\ Got(t, "page")
  /\ ~Refused(request[t].cookie)
  /\ Reply(t, IF SignedIn(request[t].cookie) THEN "home" ELSE "redirect", AsItWas)

(* Index with POST: somebody is signed in already.  The token is not read.  *)
AlreadySignedIn(t) ==
  /\ Got(t, "signIn")
  /\ SignedIn(request[t].cookie)
  /\ Reply(t, "redirect", AsItWas)

Unauthorized(t) ==
  /\ Got(t, "signIn")
  /\ request[t].cookie = NoCookie
  /\ ~IsAllowedDomain(request[t].user) \/ request[t].user \notin Verified
  /\ Reply(t, "unauthorized", AsItWas)

(* int(expireAt.Seconds()) rounds towards zero.                             *)
MaxAge(left) == IF left = -1 THEN 0 ELSE left

(* A negative MaxAge deletes the cookie, and 0 gives it no expiry: the last *)
(* second of a token buys a session until the browser is closed.            *)
SignIn(t) ==
  /\ Got(t, "signIn")
  /\ request[t].cookie = NoCookie
  /\ IsAllowedDomain(request[t].user) /\ request[t].user \in Verified
  /\ LET left == request[t].token
     IN Reply(t, "redirect",
          IF MaxAge(left) < 0 THEN NoCookie
          ELSE [key |-> key, user |-> request[t].user, age |-> 0, maxAge |-> MaxAge(left)])

Signout(t) ==
  /\ Got(t, "signOut")
  /\ ~Refused(request[t].cookie)
  /\ Reply(t, "redirect", NoCookie)

Handle(t) ==
  \/ Refuse(t) \/ Fail(t) \/ GetPage(t) \/ AlreadySignedIn(t)
  \/ Unauthorized(t) \/ SignIn(t) \/ Signout(t)

Next ==
  \/ \E t \in Tabs : Send(t) \/ Receive(t) \/ GiveUp(t) \/ Handle(t)
  \/ CloseBrowser \/ Tick \/ Restart

Spec == Init /\ [][Next]_vars

(* Only time is sure to pass.                                               *)
FairSpec == Spec /\ WF_vars(Tick)
-----------------------------------------------------------------------------
ServesHome(t) ==
  /\ request[t] # Nothing
  /\ answer'[t] # Nothing /\ answer'[t] # answer[t] /\ answer'[t].page = "home"

(* A page is served to a user who may sign in as the server is configured   *)
(* now, whatever it allowed when the cookie was made, and who did so at     *)
(* most sessionMaxAgeInSeconds ago.                                         *)
ServedIsAllowed ==
  [][\A t \in Tabs : ServesHome(t) =>
       LET c == request[t].cookie
       IN IsAllowedDomain(c.user) /\ c.user \in Verified /\ c.age <= SessionMaxAge]_vars

(* A browser whose cookie is refused, and who can neither sign in nor out,  *)
(* loses the cookie in the end; except one it keeps until it is closed.     *)
LockoutEnds == Refused(cookie) ~> ~Refused(cookie) \/ cookie.maxAge = 0
=============================================================================
