--------------------------- MODULE BrowserSession ---------------------------
(***************************************************************************)
(* One browser with several tabs: src/frontend/src/lib/session.ts, the     *)
(* fetch wrappers of lib/auth-client.ts and lib/dashboard-api.ts, the      *)
(* layouts and the login page around them, proxy.ts, and the cookies of    *)
(* backend/src/auth/auth.controller.ts.                                    *)
(*                                                                         *)
(* The tabs share the cookie jar.  Each page has its own JavaScript: the   *)
(* calls it has under way and one refreshPromise, which every call that    *)
(* got a 401 waits for.  All that waits for a promise resumes in the same  *)
(* turn of the event loop, so resuming is one step.  A page that unloads   *)
(* forgets its calls; what they asked of the server goes on there.         *)
(*                                                                         *)
(* A session is one refresh token with the access token issued with it,    *)
(* under one number.  What the server does to tokens when requests overlap *)
(* is the subject of Accounts; here a refresh reads its token, and then    *)
(* consumes it and issues the next.                                        *)
(***************************************************************************)
EXTENDS Naturals, Sequences

CONSTANTS
    Tabs,      \* the tabs of the browser
    DataCalls, \* how many data calls the page in a tab makes at once
    MaxActs    \* bound: things the user or time does in a history

ASSUME BrowserOK == DataCalls \in [Tabs -> Nat] /\ MaxActs \in Nat

VARIABLES
    page,      \* where each tab is
    call,      \* the API calls of each page
    promise,   \* refreshPromise: the refresh each page has in flight, or 0
    refreshes, \* the refreshes there have been
    logouts,   \* the logout each page has in flight
    jar,       \* the two session cookies, 0 when absent
    tokens,    \* the refresh tokens issued, in the order of insertion
    expired,   \* access tokens up to this number have expired
    acts,      \* how much the user and time have done
    dropped,   \* history: tokens an answer to a request sent with another drove from the jar
    replaced   \* history: tokens a login was sent with, and put another in the place of

server  == <<refreshes, tokens, expired>>
history == <<dropped, replaced>>
vars    == <<page, call, promise, refreshes, logouts, jar, tokens, expired, acts,
             dropped, replaced>>

-----------------------------------------------------------------------------
\* The getMe() of the layout or of the login page, and data calls.
Me    == 0
Calls == UNION {0..DataCalls[t] : t \in Tabs}

\* A layout renders nothing ("entering") until its getMe() has answered;
\* "leaving" is from window.location.href until the page unloads.
Pages == {"entering", "app", "leaving", "login"}

Call    == [at : {"none", "sent", "waiting", "resent", "hung"}, access : Nat, on : Nat]
Refresh == [tab : Tabs, token : Nat, new : Nat, heard : BOOLEAN,
            at : {"sent", "checked", "granted", "settled", "refused", "denied"}]
Logout  == [at : {"none", "sent", "served"}, token : Nat]
Token   == {"live", "refreshed", "loggedOut", "ended"}

NoCall       == [at |-> "none", access |-> 0, on |-> 0]
Sent(access) == [at |-> "sent", access |-> access, on |-> 0]
NoLogout     == [at |-> "none", token |-> 0]

Unauthorized(q) == q.access <= expired

\* The user or time does something.
Act == acts < MaxActs /\ acts' = acts + 1

\* A token leaves the jar without the request that empties or refills it
\* having been sent with it.
DropsAllBut(token) ==
    /\ dropped' = dropped \cup ({jar.refresh} \ {token, 0})
    /\ UNCHANGED replaced

\* The calls of tab t when it mounts page p: layouts and the login page call getMe().
Mounted(p, calls) ==
    IF p \in {"entering", "login"} THEN [calls EXCEPT ![Me] = Sent(jar.access)]
    ELSE [calls EXCEPT ![Me] = NoCall]

-----------------------------------------------------------------------------
(* Calls and their answers.                                                *)

\* A page makes data calls: those it needs at once, under the lowest free numbers.
Send(t) ==
    /\ Act
    /\ page[t] = "app"
    /\ \E c \in 1..DataCalls[t] :
          LET made == {d \in 1..c : call[t][d].at = "none"}
          IN  /\ c \in made
              /\ call' = [call EXCEPT ![t] =
                    [d \in Calls |-> IF d \in made THEN Sent(jar.access) ELSE @[d]]]
    /\ UNCHANGED <<page, promise, logouts, jar, server, history>>

\* Where getMe() takes the page when it finds a user; proxy turns back a
\* navigation without an access cookie.
WithUser(p) ==
    IF p = "entering" THEN "app"
    ELSE IF p = "login" /\ jar.access # 0 THEN "entering" ELSE p

\* Mutant of WithoutUser: the layout goes to a page there is none of.
WithoutUserLost(p) == IF p = "entering" THEN "signin" ELSE p

\* Where it takes the page when it finds none.
WithoutUser(p) == IF p = "entering" THEN "login" ELSE p

Goes(t, c, p) ==
    /\ page' = [page EXCEPT ![t] = p]
    /\ call' = [call EXCEPT ![t] =
          IF p = page[t] THEN [@ EXCEPT ![c] = NoCall] ELSE Mounted(p, @)]

\* Any answer but a 401: for getMe() the user, none after a 5xx, or an error
\* after which a layout goes on rendering nothing.
Returns(t, c) ==
    /\ call[t][c].at \in {"sent", "resent"} /\ ~Unauthorized(call[t][c])
    /\ \E p \in {page[t], WithUser(page[t]), WithoutUser(page[t])} :
          /\ c # Me => p = page[t]
          /\ Goes(t, c, p)
    /\ UNCHANGED <<promise, logouts, jar, server, acts, history>>

\* A second 401 is the answer.
GivesUp(t, c) ==
    /\ call[t][c].at = "resent" /\ Unauthorized(call[t][c])
    /\ Goes(t, c, IF c = Me THEN WithoutUser(page[t]) ELSE page[t])
    /\ UNCHANGED <<promise, logouts, jar, server, acts, history>>

\* Mutant of InFlight: every 401 starts a refresh of its own.
NeverInFlight(t) == FALSE

InFlight(t) == promise[t] # 0

\* refreshSession(): the first 401 starts a refresh, the others wait for it.
Refreshes(t, c) ==
    /\ call[t][c].at = "sent" /\ Unauthorized(call[t][c])
    /\ LET i == IF InFlight(t) THEN promise[t] ELSE Len(refreshes) + 1
       IN  /\ refreshes' = IF InFlight(t) THEN refreshes
                           ELSE Append(refreshes, [tab |-> t, token |-> jar.refresh, new |-> 0,
                                                   heard |-> TRUE, at |-> "sent"])
           /\ promise' = [promise EXCEPT ![t] = i]
           /\ call' = [call EXCEPT ![t][c] = [at |-> "waiting", access |-> 0, on |-> i]]
    /\ UNCHANGED <<page, logouts, jar, tokens, expired, acts, history>>

-----------------------------------------------------------------------------
(* The refresh on the server.                                              *)

Reach(i, stage) == refreshes' = [refreshes EXCEPT ![i].at = stage]

\* It reads the token.
Check(i) ==
    LET k == refreshes[i].token IN
    /\ refreshes[i].at = "sent"
    /\ Reach(i, IF k # 0 /\ tokens[k] = "live" THEN "checked" ELSE "refused")
    /\ UNCHANGED <<page, call, promise, logouts, jar, tokens, expired, acts, history>>

\* A token ends once.
Ended(k, how) == [tokens EXCEPT ![k] = IF @ = "live" THEN how ELSE @]

\* It saves the token, consumed, and inserts the next.
Rotate(i) ==
    /\ refreshes[i].at = "checked"
    /\ tokens' = Append(Ended(refreshes[i].token, "refreshed"), "live")
    /\ refreshes' = [refreshes EXCEPT ![i].at = "granted", ![i].new = Len(tokens) + 1]
    /\ UNCHANGED <<page, call, promise, logouts, jar, expired, acts, history>>

-----------------------------------------------------------------------------
(* Its answer in the browser.                                              *)

Waiting(i) == LET t == refreshes[i].tab IN
    {c \in Calls : call[t][c].at = "waiting" /\ call[t][c].on = i}

\* Mutant of FailedPage: redirectToLogin() is not called.
FailedPageStays(i) ==
    LET p == page[refreshes[i].tab]
    IN  IF Waiting(i) = {Me} THEN WithoutUser(p) ELSE p

\* The page after a refresh that failed: a data call leaves it for /login.
FailedPage(i) ==
    LET p == page[refreshes[i].tab]
    IN  IF Waiting(i) \ {Me} # {} THEN "leaving"
        ELSE IF Me \in Waiting(i) THEN WithoutUser(p) ELSE p

\* Its calls then: a data call never returns, getMe() returns null.
Refused(i, calls) ==
    LET t    == refreshes[i].tab
        left == [c \in Calls |->
                    IF c \notin Waiting(i) THEN calls[c]
                    ELSE IF c = Me THEN NoCall ELSE [NoCall EXCEPT !.at = "hung"]]
    IN  IF FailedPage(i) = "login" /\ page[t] # "login" THEN Mounted("login", left) ELSE left

\* The promise resolves and is forgotten, and what waits for it resumes: it
\* is sent again with the new cookies.
Settle(i) ==
    LET t == refreshes[i].tab
        k == refreshes[i].new
    IN  /\ refreshes[i].heard /\ refreshes[i].at = "granted"
        /\ jar' = [access |-> k, refresh |-> k]
        /\ DropsAllBut(refreshes[i].token)
        /\ Reach(i, "settled")
        /\ promise' = [promise EXCEPT ![t] = 0]
        /\ call' = [call EXCEPT ![t] =
              [c \in Calls |-> IF c \in Waiting(i)
                               THEN [at |-> "resent", access |-> k, on |-> 0] ELSE @[c]]]
        /\ UNCHANGED <<page, logouts, tokens, expired, acts>>

\* The promise resolves with false.
Resolve(i) ==
    LET t == refreshes[i].tab IN
    /\ promise' = [promise EXCEPT ![t] = 0]
    /\ call' = [call EXCEPT ![t] = Refused(i, @)]
    /\ page' = [page EXCEPT ![t] = FailedPage(i)]
    /\ UNCHANGED <<logouts, jar, tokens, expired, acts, history>>

Deny(i) ==
    /\ refreshes[i].heard /\ refreshes[i].at = "refused"
    /\ Reach(i, "denied")
    /\ Resolve(i)

\* The request is lost or answered 5xx, or the answer is lost.
Lose(i) ==
    /\ refreshes[i].heard /\ refreshes[i].at \in {"sent", "granted"}
    /\ refreshes' = [refreshes EXCEPT ![i].heard = FALSE,
                                     ![i].at = IF @ = "sent" THEN "denied" ELSE @]
    /\ Resolve(i)

-----------------------------------------------------------------------------
(* Pages.                                                                  *)

\* The page of tab t goes, and page p is loaded.
Load(t, p) ==
    /\ page' = [page EXCEPT ![t] = p]
    /\ call' = [call EXCEPT ![t] = Mounted(p, [c \in Calls |-> NoCall])]
    /\ promise' = [promise EXCEPT ![t] = 0]
    /\ logouts' = [logouts EXCEPT ![t] = NoLogout]
    /\ refreshes' = [i \in DOMAIN refreshes |->
          IF refreshes[i].tab = t /\ refreshes[i].at \notin {"settled", "denied"}
          THEN [refreshes[i] EXCEPT !.heard = FALSE] ELSE refreshes[i]]

\* redirectToLogin() takes effect.
Unload(t) ==
    /\ page[t] = "leaving"
    /\ Load(t, "login")
    /\ UNCHANGED <<jar, tokens, expired, acts, history>>

\* The user reloads the dashboard, or a layout that renders nothing; proxy asks
\* for the access cookie.
Reload(t) ==
    /\ Act
    /\ page[t] = "app" \/ (page[t] = "entering" /\ call[t][Me].at = "none")
    /\ Load(t, IF jar.access = 0 THEN "login" ELSE "entering")
    /\ UNCHANGED <<jar, tokens, expired, history>>

\* The login form, and the navigation to the dashboard.  The request is sent
\* with the cookies there are; the server does not end the session they hold.
SubmitLogin(t) ==
    LET k == Len(tokens) + 1 IN
    /\ Act
    /\ page[t] = "login"
    /\ tokens' = Append(tokens, "live")
    /\ jar' = [access |-> k, refresh |-> k]
    /\ replaced' = replaced \cup ({jar.refresh} \ {0})
    /\ page' = [page EXCEPT ![t] = "entering"]
    /\ call' = [call EXCEPT ![t][Me] = Sent(k)]
    /\ UNCHANGED <<promise, refreshes, logouts, expired, dropped>>

-----------------------------------------------------------------------------
(* Logout.                                                                 *)

HandleLogout(t) ==
    /\ Act
    /\ page[t] = "app" /\ logouts[t].at = "none"
    /\ logouts' = [logouts EXCEPT ![t] = [at |-> "sent", token |-> jar.refresh]]
    /\ UNCHANGED <<page, call, promise, jar, server, history>>

\* Mutant of LoggedOut: only the cookies go.
LoggedOutHere(k) == tokens

LoggedOut(k) == IF k = 0 THEN tokens ELSE Ended(k, "loggedOut")

ServeLogout(t) ==
    /\ logouts[t].at = "sent"
    /\ tokens' = LoggedOut(logouts[t].token)
    /\ logouts' = [logouts EXCEPT ![t].at = "served"]
    /\ UNCHANGED <<page, call, promise, refreshes, jar, expired, acts, history>>

AnswerLogout(t) ==
    /\ logouts[t].at = "served"
    /\ jar' = [access |-> 0, refresh |-> 0]
    /\ DropsAllBut(logouts[t].token)
    /\ logouts' = [logouts EXCEPT ![t] = NoLogout]
    /\ IF page[t] = "app"
       THEN /\ page' = [page EXCEPT ![t] = "login"]
            /\ call' = [call EXCEPT ![t][Me] = Sent(0)]
       ELSE UNCHANGED <<page, call>>
    /\ UNCHANGED <<promise, server, acts>>

LoseLogout(t) ==
    /\ logouts[t].at # "none"
    /\ logouts' = [logouts EXCEPT ![t] = NoLogout]
    /\ UNCHANGED <<page, call, promise, jar, server, acts, history>>

-----------------------------------------------------------------------------
(* Time, and other browsers.                                               *)

\* Fifteen minutes pass: the access tokens expire, and the cookie with them.
Expire ==
    /\ Act
    /\ jar.access # 0
    /\ expired' = Len(tokens)
    /\ jar' = [jar EXCEPT !.access = 0]
    /\ UNCHANGED <<page, call, promise, refreshes, logouts, tokens, history>>

\* A password reset ends every session of the user.
EndSessions ==
    /\ Act
    /\ tokens' = [k \in DOMAIN tokens |-> IF tokens[k] = "live" THEN "ended" ELSE tokens[k]]
    /\ UNCHANGED <<page, call, promise, refreshes, logouts, jar, expired, history>>

-----------------------------------------------------------------------------
\* Signed in, every tab on the dashboard, just now or long ago.
Init ==
    /\ page = [t \in Tabs |-> "app"]
    /\ call = [t \in Tabs |-> [c \in Calls |-> NoCall]]
    /\ promise = [t \in Tabs |-> 0]
    /\ refreshes = <<>>
    /\ logouts = [t \in Tabs |-> NoLogout]
    /\ expired \in {0, 1}
    /\ jar = [access |-> 1 - expired, refresh |-> 1]
    /\ tokens = <<"live">>
    /\ acts = 0 /\ dropped = {} /\ replaced = {}

Answer(t, c) == Returns(t, c) \/ GivesUp(t, c) \/ Refreshes(t, c)

Progress(i) == Check(i) \/ Rotate(i) \/ Settle(i) \/ Deny(i)

Next ==
    \/ \E t \in Tabs :
          \/ \E c \in Calls : Answer(t, c)
          \/ Send(t) \/ Unload(t) \/ Reload(t) \/ SubmitLogin(t)
          \/ HandleLogout(t) \/ ServeLogout(t) \/ AnswerLogout(t) \/ LoseLogout(t)
    \/ \E i \in DOMAIN refreshes : Progress(i) \/ Lose(i)
    \/ Expire \/ EndSessions

\* The server and the event loop go on with a refresh, and a navigation
\* unloads the page.
Fairness ==
    /\ WF_vars(\E i \in DOMAIN refreshes : Progress(i))
    /\ \A t \in Tabs : WF_vars(Unload(t))

Spec == Init /\ [][Next]_vars

FairSpec == Spec /\ Fairness

-----------------------------------------------------------------------------
(* Properties.                                                             *)

TypeOK ==
    /\ page \in [Tabs -> Pages]
    /\ call \in [Tabs -> [Calls -> Call]]
    /\ promise \in [Tabs -> Nat]
    /\ refreshes \in Seq(Refresh)
    /\ logouts \in [Tabs -> Logout]
    /\ jar \in [access : Nat, refresh : Nat]
    /\ tokens \in Seq(Token)
    /\ expired \in Nat /\ acts \in 0..MaxActs
    /\ dropped \subseteq Nat /\ replaced \subseteq Nat

\* "Concurrent 401s share one in-flight refresh instead of racing": a refresh
\* is refused only if there is no cookie, the session was ended, or its token
\* went to another tab or to a page that did not hear the answer - never
\* because of another call of the same page.
RefusedWithCause ==
    \A i \in DOMAIN refreshes : LET k == refreshes[i].token IN
        refreshes[i].heard /\ refreshes[i].at \in {"refused", "denied"} =>
            \/ k = 0
            \/ tokens[k] \in {"loggedOut", "ended"}
            \/ \E j \in DOMAIN refreshes :
                  /\ refreshes[j].token = k /\ j # i
                  /\ refreshes[j].tab # refreshes[i].tab \/ ~refreshes[j].heard

\* Neither a logout nor a refresh leaves the session it was sent with alive:
\* one the server accepts is in the jar, or its answer has not arrived, or the
\* answer to a request that had not carried it drove it out (two requests of
\* the browser crossed).  A login is the exception: login() sends the cookie,
\* the server leaves that session open, and the browser forgets it.
SessionsHeld ==
    \A k \in DOMAIN tokens : tokens[k] = "live" =>
        \/ jar.refresh = k \/ k \in dropped \/ k \in replaced
        \/ \E i \in DOMAIN refreshes : refreshes[i].new = k /\ refreshes[i].at = "granted"

\* A call that waits for a refresh resumes, and one whose promise never
\* resolves goes with its page: again and again no page has a call that is
\* stuck.
NoCallStuck ==
    []<>(\A t \in Tabs : \A c \in Calls : call[t][c].at \notin {"waiting", "hung"})

=============================================================================
