---------------------------- MODULE BrowserProofs ----------------------------
(***************************************************************************)
(* Proofs about BrowserSession, for any tabs, calls and histories: types,  *)
(* that a page never spoils its own refresh, and what becomes of a session *)
(* that leaves the browser.                                                *)
(***************************************************************************)
EXTENDS BrowserSession, SequenceTheorems, TLAPS

Flying == {"sent", "checked", "granted", "refused"}

\* Refreshes and logouts name tokens that exist, and spend the ones they have used.
Numbered ==
    /\ jar.refresh \in 0..Len(tokens)
    /\ \A i \in DOMAIN refreshes : LET x == refreshes[i] IN
          /\ x.token \in 0..Len(tokens)
          /\ x.at \in {"checked", "granted", "settled"} => x.token # 0
          /\ x.at \in {"granted", "settled"} =>
                x.new \in 1..Len(tokens) /\ tokens[x.token] # "live"
    /\ \A t \in Tabs : /\ logouts[t].token \in 0..Len(tokens)
                       /\ logouts[t].at = "served" /\ logouts[t].token # 0 =>
                             tokens[logouts[t].token] # "live"

\* A page waits for one refresh, the one it has in flight.
Shared ==
    \A i \in DOMAIN refreshes :
        refreshes[i].heard /\ refreshes[i].at \in Flying => promise[refreshes[i].tab] = i

\* A token that was exchanged was exchanged by a refresh.
ExchangedBy ==
    \A k \in DOMAIN tokens : tokens[k] = "refreshed" =>
        \E j \in DOMAIN refreshes : /\ refreshes[j].token = k
                                    /\ refreshes[j].at \in {"granted", "settled"}

\* Nobody has the token of an answer that has not arrived.
Fresh ==
    \A i \in DOMAIN refreshes : refreshes[i].at = "granted" =>
        /\ jar.refresh # refreshes[i].new
        /\ \A j \in DOMAIN refreshes :
              /\ refreshes[j].token # refreshes[i].new
              /\ refreshes[j].at = "granted" /\ j # i => refreshes[j].new # refreshes[i].new

\* A token that was exchanged, the answer heard, does not come back.
Moved ==
    \A j \in DOMAIN refreshes : refreshes[j].at = "settled" =>
        /\ jar.refresh # refreshes[j].token
        /\ \A i \in DOMAIN refreshes :
              refreshes[i].heard /\ refreshes[i].at \in Flying /\ refreshes[i].tab = refreshes[j].tab
                  => refreshes[i].token # refreshes[j].token

-----------------------------------------------------------------------------
(* Types.                                                                  *)

\* A sequence touched in place stays one.
LEMMA Retouched ==
    ASSUME NEW S, NEW s \in Seq(S), NEW f,
           f = [i \in DOMAIN s |-> f[i]], \A i \in DOMAIN s : f[i] \in S
    PROVE  f \in Seq(S) /\ Len(f) = Len(s) /\ DOMAIN f = DOMAIN s
<1>1. DOMAIN s = 1 .. Len(s) /\ Len(s) \in Nat
  OBVIOUS
<1>2. f \in [1 .. Len(s) -> S]
  BY <1>1
<1> QED
  BY <1>1, <1>2, SeqDef

LEMMA RecordTypes ==
    /\ NoCall \in Call /\ [NoCall EXCEPT !.at = "hung"] \in Call /\ NoLogout \in Logout
    /\ \A n \in Nat : /\ Sent(n) \in Call
                      /\ [at |-> "waiting", access |-> 0, on |-> n] \in Call
                      /\ [at |-> "resent", access |-> n, on |-> 0] \in Call
BY DEF NoCall, NoLogout, Sent, Call, Logout

\* A page that mounts has calls.
LEMMA MountedType ==
    ASSUME TypeOK, NEW p, NEW calls \in [Calls -> Call]
    PROVE  Mounted(p, calls) \in [Calls -> Call]
<1>1. Sent(jar.access) \in Call /\ NoCall \in Call
  BY RecordTypes DEF TypeOK
<1> QED
  BY <1>1 DEF Mounted

LEMMA PageTypes ==
    ASSUME NEW p \in Pages
    PROVE  WithUser(p) \in Pages /\ WithoutUser(p) \in Pages
BY DEF WithUser, WithoutUser, Pages

LEMMA GoesType ==
    ASSUME TypeOK, NEW t \in Tabs, NEW c \in Calls, NEW p \in Pages, Goes(t, c, p)
    PROVE  page' \in [Tabs -> Pages] /\ call' \in [Tabs -> [Calls -> Call]]
<1>1. [call[t] EXCEPT ![c] = NoCall] \in [Calls -> Call]
  BY RecordTypes DEF TypeOK
<1>2. Mounted(p, call[t]) \in [Calls -> Call]
  BY MountedType DEF TypeOK
<1> QED
  BY <1>1, <1>2 DEF Goes, TypeOK

\* What the edits of a refresh do to it.
LEMMA RefreshEdits ==
    ASSUME NEW x \in Refresh
    PROVE  /\ \A at \in Flying \cup {"settled", "denied"} : [x EXCEPT !.at = at] \in Refresh
           /\ \A k \in Nat : [x EXCEPT !.at = "granted", !.new = k] \in Refresh
           /\ [x EXCEPT !.heard = FALSE] \in Refresh
           /\ [x EXCEPT !.heard = FALSE, !.at = IF @ = "sent" THEN "denied" ELSE @] \in Refresh
BY DEF Refresh, Flying

\* A refresh edited in place.
LEMMA OneEdited ==
    ASSUME TypeOK, NEW i \in DOMAIN refreshes, NEW x \in Refresh,
           refreshes' = [refreshes EXCEPT ![i] = x]
    PROVE  /\ refreshes' \in Seq(Refresh) /\ DOMAIN refreshes' = DOMAIN refreshes
           /\ Len(refreshes') = Len(refreshes)
           /\ \A j \in DOMAIN refreshes : refreshes'[j] = IF j = i THEN x ELSE refreshes[j]
<1>1. \A j \in DOMAIN refreshes : refreshes'[j] = IF j = i THEN x ELSE refreshes[j]
  OBVIOUS
<1>2. refreshes \in Seq(Refresh) /\ \A j \in DOMAIN refreshes : refreshes[j] \in Refresh
  BY DEF TypeOK
<1>3. refreshes' = [j \in DOMAIN refreshes |-> refreshes'[j]]
  OBVIOUS
<1> QED
  BY <1>1, <1>2, <1>3, Retouched

\* Token k ends, if it is alive.
LEMMA EndedType ==
    ASSUME TypeOK, NEW k, NEW how \in {"refreshed", "loggedOut"}
    PROVE  /\ Ended(k, how) \in Seq(Token) /\ DOMAIN Ended(k, how) = DOMAIN tokens
           /\ Len(Ended(k, how)) = Len(tokens)
           /\ \A n \in DOMAIN tokens :
                 Ended(k, how)[n] = IF n = k /\ tokens[n] = "live" THEN how ELSE tokens[n]
<1> DEFINE f == Ended(k, how)
<1>1. tokens \in Seq(Token) /\ \A n \in DOMAIN tokens : tokens[n] \in Token
  BY DEF TypeOK
<1>2. \A n \in DOMAIN tokens : f[n] = IF n = k /\ tokens[n] = "live" THEN how ELSE tokens[n]
  BY DEF Ended
<1>3. f = [n \in DOMAIN tokens |-> f[n]]
  BY DEF Ended
<1>4. \A n \in DOMAIN tokens : f[n] \in Token
  BY <1>1, <1>2 DEF Token
<1> HIDE DEF f
<1>5. f \in Seq(Token) /\ Len(f) = Len(tokens) /\ DOMAIN f = DOMAIN tokens
  BY <1>1, <1>3, <1>4, Retouched
<1> QED
  BY <1>2, <1>5 DEF f

LEMMA TypeInit == Init => TypeOK
<1> SUFFICES ASSUME Init PROVE TypeOK
  OBVIOUS
<1>1. page \in [Tabs -> Pages] /\ logouts \in [Tabs -> Logout] /\ promise \in [Tabs -> Nat]
  BY RecordTypes DEF Init, Pages
<1>2. call \in [Tabs -> [Calls -> Call]]
  BY RecordTypes DEF Init
<1>3. refreshes \in Seq(Refresh) /\ tokens \in Seq(Token)
  BY DEF Init, Token
<1>4. expired \in Nat /\ jar \in [access : Nat, refresh : Nat]
  BY DEF Init
<1> QED
  BY <1>1, <1>2, <1>3, <1>4, BrowserOK DEF Init, TypeOK

\* The page that a failed refresh leaves.
LEMMA ResolveType ==
    ASSUME TypeOK, NEW i \in DOMAIN refreshes, Resolve(i)
    PROVE  /\ page' \in [Tabs -> Pages] /\ call' \in [Tabs -> [Calls -> Call]]
           /\ promise' \in [Tabs -> Nat]
<1> DEFINE t == refreshes[i].tab
<1>1. t \in Tabs /\ page[t] \in Pages /\ call[t] \in [Calls -> Call]
  <2>1. refreshes[i] \in Refresh
    BY DEF TypeOK
  <2>2. t \in Tabs
    BY <2>1 DEF Refresh
  <2> QED
    BY <2>2 DEF TypeOK
<1>2. FailedPage(i) \in Pages
  BY <1>1, PageTypes DEF FailedPage, Pages
<1>3. Refused(i, call[t]) \in [Calls -> Call]
  <2> DEFINE left == [c \in Calls |->
                        IF c \notin Waiting(i) THEN call[t][c]
                        ELSE IF c = Me THEN NoCall ELSE [NoCall EXCEPT !.at = "hung"]]
  <2>1. left \in [Calls -> Call]
    BY <1>1, RecordTypes
  <2>2. Mounted("login", left) \in [Calls -> Call]
    <3> HIDE DEF left
    <3> QED
      BY <2>1, MountedType
  <2>3. Refused(i, call[t]) \in {left, Mounted("login", left)}
    BY DEF Refused
  <2> QED
    BY <2>1, <2>2, <2>3
<1> QED
  BY <1>1, <1>2, <1>3 DEF Resolve, TypeOK

\* A page that loads leaves its refreshes unheard.
LEMMA LoadType ==
    ASSUME TypeOK, NEW t \in Tabs, NEW p \in Pages, Load(t, p)
    PROVE  /\ page' \in [Tabs -> Pages] /\ call' \in [Tabs -> [Calls -> Call]]
           /\ promise' \in [Tabs -> Nat] /\ logouts' \in [Tabs -> Logout]
           /\ refreshes' \in Seq(Refresh) /\ DOMAIN refreshes' = DOMAIN refreshes
           /\ Len(refreshes') = Len(refreshes)
           /\ \A i \in DOMAIN refreshes :
                 refreshes'[i] = IF refreshes[i].tab = t /\ refreshes[i].at \notin {"settled", "denied"}
                                 THEN [refreshes[i] EXCEPT !.heard = FALSE] ELSE refreshes[i]
<1>1. Mounted(p, [c \in Calls |-> NoCall]) \in [Calls -> Call]
  BY RecordTypes, MountedType
<1>2. page' \in [Tabs -> Pages] /\ call' \in [Tabs -> [Calls -> Call]]
  BY <1>1 DEF Load, TypeOK
<1>3. promise' \in [Tabs -> Nat] /\ logouts' \in [Tabs -> Logout]
  BY RecordTypes DEF Load, TypeOK
<1>4. \A i \in DOMAIN refreshes :
         refreshes'[i] = IF refreshes[i].tab = t /\ refreshes[i].at \notin {"settled", "denied"}
                         THEN [refreshes[i] EXCEPT !.heard = FALSE] ELSE refreshes[i]
  BY DEF Load
<1>5. refreshes' = [i \in DOMAIN refreshes |-> refreshes'[i]]
  BY DEF Load
<1>6. refreshes \in Seq(Refresh) /\ \A i \in DOMAIN refreshes : refreshes[i] \in Refresh
  BY DEF TypeOK
<1>7. \A i \in DOMAIN refreshes : refreshes'[i] \in Refresh
  BY <1>4, <1>6, RefreshEdits
<1> QED
  BY <1>2, <1>3, <1>4, <1>5, <1>6, <1>7, Retouched

LEMMA DropsType ==
    ASSUME TypeOK, NEW token, DropsAllBut(token)
    PROVE  dropped' \subseteq Nat /\ UNCHANGED replaced
BY DEF TypeOK, DropsAllBut

LEMMA TypeStep == TypeOK /\ [Next]_vars => TypeOK'
<1> SUFFICES ASSUME TypeOK, [Next]_vars PROVE TypeOK'
  OBVIOUS
<1>1. /\ refreshes \in Seq(Refresh) /\ \A i \in DOMAIN refreshes : refreshes[i] \in Refresh
      /\ tokens \in Seq(Token) /\ Len(tokens) \in Nat /\ Len(refreshes) \in Nat
      /\ jar.access \in Nat /\ jar.refresh \in Nat
      /\ \A t \in Tabs : page[t] \in Pages /\ call[t] \in [Calls -> Call] /\ logouts[t] \in Logout
  BY DEF TypeOK
<1>2. \A i \in DOMAIN refreshes : /\ refreshes[i].tab \in Tabs /\ refreshes[i].token \in Nat
                                  /\ refreshes[i].new \in Nat
  BY <1>1 DEF Refresh
<1>3. ASSUME NEW t \in Tabs, NEW c \in Calls, Returns(t, c) PROVE TypeOK'
  <2>1. PICK p \in {page[t], WithUser(page[t]), WithoutUser(page[t])} : Goes(t, c, p)
    BY <1>3 DEF Returns
  <2>2. p \in Pages
    BY <1>1, PageTypes
  <2> QED
    BY <1>3, <2>1, <2>2, GoesType DEF Returns, TypeOK, server, history
<1>4. ASSUME NEW t \in Tabs, NEW c \in Calls, GivesUp(t, c) PROVE TypeOK'
  <2> DEFINE p == IF c = Me THEN WithoutUser(page[t]) ELSE page[t]
  <2>1. p \in Pages /\ Goes(t, c, p)
    BY <1>1, <1>4, PageTypes DEF GivesUp
  <2> HIDE DEF p
  <2> QED
    BY <1>4, <2>1, GoesType DEF GivesUp, TypeOK, server, history
<1>5. ASSUME NEW t \in Tabs, NEW c \in Calls, Refreshes(t, c) PROVE TypeOK'
  <2> DEFINE i == IF InFlight(t) THEN promise[t] ELSE Len(refreshes) + 1
             new == [tab |-> t, token |-> jar.refresh, new |-> 0, heard |-> TRUE, at |-> "sent"]
             q == [at |-> "waiting", access |-> 0, on |-> i]
  <2>1. i \in Nat /\ new \in Refresh
    BY <1>1 DEF TypeOK, Refresh
  <2>2. q \in Call
    BY <2>1, RecordTypes
  <2>3. refreshes' \in {refreshes, Append(refreshes, new)}
        /\ promise' = [promise EXCEPT ![t] = i] /\ call' = [call EXCEPT ![t][c] = q]
    BY <1>5 DEF Refreshes
  <2> HIDE DEF i, new, q
  <2>4. refreshes' \in Seq(Refresh)
    <3>1. CASE refreshes' = Append(refreshes, new)
      BY <1>1, <2>1, <3>1
    <3> QED
      BY <1>1, <2>3, <3>1
  <2>6. promise' \in [Tabs -> Nat]
    BY <2>1, <2>3 DEF TypeOK
  <2>5. call' \in [Tabs -> [Calls -> Call]]
    BY <1>1, <2>2, <2>3 DEF TypeOK
  <2> QED
    BY <1>5, <2>4, <2>5, <2>6 DEF Refreshes, TypeOK, history
<1>6. ASSUME NEW t \in Tabs, Send(t) PROVE TypeOK'
  <2>1. PICK c \in 1..DataCalls[t] :
           LET made == {d \in 1..c : call[t][d].at = "none"}
           IN  call' = [call EXCEPT ![t] =
                  [d \in Calls |-> IF d \in made THEN Sent(jar.access) ELSE @[d]]]
    BY <1>6 DEF Send
  <2>2. call' \in [Tabs -> [Calls -> Call]]
    BY <1>1, <2>1, RecordTypes DEF TypeOK
  <2> QED
    BY <1>6, <2>2, BrowserOK DEF Send, Act, TypeOK, server, history
<1>7. ASSUME NEW t \in Tabs, Unload(t) PROVE TypeOK'
  <2>1. Load(t, "login") /\ "login" \in Pages
    BY <1>7 DEF Unload, Pages
  <2> QED
    BY <1>7, <2>1, LoadType DEF Unload, TypeOK, history
<1>8. ASSUME NEW t \in Tabs, Reload(t) PROVE TypeOK'
  <2> DEFINE p == IF jar.access = 0 THEN "login" ELSE "entering"
  <2>1. Load(t, p) /\ p \in Pages
    BY <1>8 DEF Reload, Pages
  <2> HIDE DEF p
  <2> QED
    BY SMTT(30), <1>8, <2>1, LoadType, BrowserOK DEF Reload, Act, TypeOK, history
<1>9. ASSUME NEW t \in Tabs, SubmitLogin(t) PROVE TypeOK'
  <2> DEFINE k == Len(tokens) + 1
  <2>1. Sent(k) \in Call /\ k \in Nat /\ "entering" \in Pages /\ "live" \in Token
    <3>1. k \in Nat /\ "entering" \in Pages /\ "live" \in Token
      BY <1>1 DEF Pages, Token
    <3> HIDE DEF k
    <3> QED
      BY <3>1, RecordTypes
  <2>2. call' = [call EXCEPT ![t][Me] = Sent(k)] /\ jar' = [access |-> k, refresh |-> k]
    BY <1>9 DEF SubmitLogin
  <2> HIDE DEF k
  <2>3. call' \in [Tabs -> [Calls -> Call]] /\ jar' \in [access : Nat, refresh : Nat]
    BY <1>1, <2>1, <2>2 DEF TypeOK
  <2>4. replaced' \subseteq Nat
    BY <1>1, <1>9 DEF SubmitLogin, TypeOK
  <2>5. tokens' \in Seq(Token) /\ page' \in [Tabs -> Pages]
    BY <1>1, <1>9, <2>1 DEF SubmitLogin, TypeOK
  <2> QED
    BY <1>9, <2>3, <2>4, <2>5, BrowserOK DEF SubmitLogin, Act, TypeOK
<1>10. ASSUME NEW t \in Tabs, HandleLogout(t) PROVE TypeOK'
  <2>1. [at |-> "sent", token |-> jar.refresh] \in Logout
    BY <1>1 DEF Logout
  <2> QED
    BY <1>10, <2>1, BrowserOK DEF HandleLogout, Act, TypeOK, server, history
<1>11. ASSUME NEW t \in Tabs, ServeLogout(t) PROVE TypeOK'
  <2>1. [logouts[t] EXCEPT !.at = "served"] \in Logout
    BY <1>1 DEF Logout
  <2>2. tokens' \in Seq(Token)
    BY <1>1, <1>11, EndedType DEF ServeLogout, LoggedOut
  <2>3. logouts' \in [Tabs -> Logout]
    BY <1>11, <2>1 DEF ServeLogout, TypeOK
  <2> QED
    BY <1>11, <2>2, <2>3 DEF ServeLogout, TypeOK, history
<1>12. ASSUME NEW t \in Tabs, AnswerLogout(t) PROVE TypeOK'
  <2>1. dropped' \subseteq Nat /\ UNCHANGED replaced
    BY <1>12, DropsType DEF AnswerLogout
  <2>2. call' \in [Tabs -> [Calls -> Call]]
    <3>1. Sent(0) \in Call
      BY RecordTypes
    <3>2. UNCHANGED call \/ call' = [call EXCEPT ![t][Me] = Sent(0)]
      BY <1>12 DEF AnswerLogout
    <3> DEFINE f == [call[t] EXCEPT ![Me] = Sent(0)]
    <3>3. f \in [Calls -> Call]
      BY <1>1, <3>1
    <3>4. UNCHANGED call \/ call' = [call EXCEPT ![t] = f]
      BY <3>2
    <3> HIDE DEF f
    <3> QED
      BY <3>3, <3>4 DEF TypeOK
  <2>3. page' \in [Tabs -> Pages] /\ logouts' \in [Tabs -> Logout]
    BY <1>12, RecordTypes DEF AnswerLogout, TypeOK, Pages
  <2> QED
    BY <1>12, <2>1, <2>2, <2>3 DEF AnswerLogout, TypeOK, server
<1>13. ASSUME NEW t \in Tabs, LoseLogout(t) PROVE TypeOK'
  BY <1>13, RecordTypes DEF LoseLogout, TypeOK, server, history
<1>14. ASSUME NEW i \in DOMAIN refreshes, NEW stage \in Flying \cup {"settled", "denied"},
              Reach(i, stage)
       PROVE  refreshes' \in Seq(Refresh)
  <2>1. refreshes' = [refreshes EXCEPT ![i] = [refreshes[i] EXCEPT !.at = stage]]
        /\ [refreshes[i] EXCEPT !.at = stage] \in Refresh
    BY <1>1, <1>14, RefreshEdits DEF Reach
  <2> QED
    BY <2>1, OneEdited
<1>15. ASSUME NEW i \in DOMAIN refreshes, Check(i) PROVE TypeOK'
  <2>1. PICK stage \in {"checked", "refused"} : Reach(i, stage)
    BY <1>15 DEF Check
  <2> QED
    BY <1>14, <1>15, <2>1 DEF Check, TypeOK, Flying, history
<1>16. ASSUME NEW i \in DOMAIN refreshes, Rotate(i) PROVE TypeOK'
  <2> DEFINE k == Len(tokens) + 1
             x == [refreshes[i] EXCEPT !.at = "granted", !.new = k]
  <2>1. x \in Refresh /\ refreshes' = [refreshes EXCEPT ![i] = x]
    <3>1. refreshes' = [refreshes EXCEPT ![i] = x]
      BY <1>16 DEF Rotate
    <3>2. k \in Nat
      BY <1>1
    <3> HIDE DEF k
    <3>3. x \in Refresh
      BY <1>1, <3>2, RefreshEdits
    <3> QED
      BY <3>1, <3>3
  <2> HIDE DEF x
  <2>2. refreshes' \in Seq(Refresh)
    BY <2>1, OneEdited
  <2>3. "live" \in Token /\ Ended(refreshes[i].token, "refreshed") \in Seq(Token)
    BY EndedType DEF Token
  <2>4. tokens' \in Seq(Token)
    BY <1>16, <2>3 DEF Rotate
  <2> QED
    BY <1>16, <2>2, <2>4 DEF Rotate, TypeOK, history
<1>17. ASSUME NEW i \in DOMAIN refreshes, Settle(i) PROVE TypeOK'
  <2> DEFINE t == refreshes[i].tab
             q == [at |-> "resent", access |-> refreshes[i].new, on |-> 0]
  <2>1. t \in Tabs /\ q \in Call
    BY <1>2, RecordTypes
  <2>2. call' = [call EXCEPT ![t] = [c \in Calls |-> IF c \in Waiting(i) THEN q ELSE @[c]]]
    BY <1>17 DEF Settle
  <2> HIDE DEF q
  <2>3. call' \in [Tabs -> [Calls -> Call]]
    BY <1>1, <2>1, <2>2 DEF TypeOK
  <2>4. refreshes' \in Seq(Refresh)
    BY <1>14, <1>17 DEF Settle
  <2>5. jar' \in [access : Nat, refresh : Nat] /\ dropped' \subseteq Nat /\ UNCHANGED replaced
    BY <1>2, <1>17, DropsType DEF Settle
  <2>6. promise' \in [Tabs -> Nat]
    BY <1>17 DEF Settle, TypeOK
  <2> QED
    BY <1>17, <2>3, <2>4, <2>5, <2>6 DEF Settle, TypeOK
<1>18. ASSUME NEW i \in DOMAIN refreshes, Deny(i) PROVE TypeOK'
  <2>1. refreshes' \in Seq(Refresh)
    BY <1>14, <1>18 DEF Deny
  <2> QED
    BY <1>18, <2>1, ResolveType DEF Deny, Resolve, TypeOK, history
<1>19. ASSUME NEW i \in DOMAIN refreshes, Lose(i) PROVE TypeOK'
  <2> DEFINE x == [refreshes[i] EXCEPT !.heard = FALSE, !.at = IF @ = "sent" THEN "denied" ELSE @]
  <2>1. x \in Refresh
    BY <1>1, RefreshEdits
  <2>3. refreshes' = [refreshes EXCEPT ![i] = x]
    BY <1>19 DEF Lose
  <2> HIDE DEF x
  <2>2. refreshes' \in Seq(Refresh)
    BY <2>1, <2>3, OneEdited
  <2> QED
    BY <1>19, <2>2, ResolveType DEF Lose, Resolve, TypeOK, history
<1>20. ASSUME Expire PROVE TypeOK'
  <2>1. jar' \in [access : Nat, refresh : Nat]
    BY <1>20 DEF Expire, TypeOK
  <2> QED
    BY <1>1, <1>20, <2>1, BrowserOK DEF Expire, Act, TypeOK, history
<1>21. ASSUME EndSessions PROVE TypeOK'
  <2>1. \A k \in DOMAIN tokens : tokens'[k] \in Token
    BY <1>1, <1>21 DEF EndSessions, Token
  <2>2. tokens' = [k \in DOMAIN tokens |-> tokens'[k]]
    BY <1>21 DEF EndSessions
  <2>3. tokens' \in Seq(Token)
    BY <1>1, <2>1, <2>2, Retouched
  <2> QED
    BY <1>21, <2>3, BrowserOK DEF EndSessions, Act, TypeOK, history
<1>22. CASE UNCHANGED vars
  BY <1>22 DEF vars, TypeOK
<1> QED
  BY <1>3, <1>4, <1>5, <1>6, <1>7, <1>8, <1>9, <1>10, <1>11, <1>12, <1>13, <1>15, <1>16, <1>17,
     <1>18, <1>19, <1>20, <1>21, <1>22 DEF Next, Answer, Progress

-----------------------------------------------------------------------------
(* The invariant.                                                          *)

\* All of the invariant but the types.
SessionInv ==
    Numbered /\ Shared /\ ExchangedBy /\ Fresh /\ Moved /\ RefusedWithCause /\ SessionsHeld

LEMMA SessionInit == Init => SessionInv
<1> SUFFICES ASSUME Init PROVE SessionInv
  OBVIOUS
<1>1. /\ jar.refresh = 1 /\ Len(tokens) = 1 /\ DOMAIN tokens = {1} /\ tokens[1] = "live"
      /\ DOMAIN refreshes = {} /\ \A t \in Tabs : logouts[t] = NoLogout
  BY DEF Init
<1>2. Numbered
  BY <1>1 DEF Numbered, NoLogout
<1>3. Shared /\ Fresh /\ Moved /\ RefusedWithCause
  BY <1>1 DEF Shared, Fresh, Moved, RefusedWithCause
<1>4. ExchangedBy /\ SessionsHeld
  BY <1>1 DEF ExchangedBy, SessionsHeld
<1> QED
  BY <1>2, <1>3, <1>4 DEF SessionInv

\* What no refresh does, and what only ends sessions.
LEMMA TokensDie ==
    ASSUME TypeOK, SessionInv,
           UNCHANGED <<promise, refreshes, dropped, replaced>>, jar'.refresh = jar.refresh,
           Len(tokens') = Len(tokens), DOMAIN tokens' = DOMAIN tokens,
           \A k \in DOMAIN tokens : \/ tokens'[k] = tokens[k]
                                    \/ tokens[k] = "live" /\ tokens'[k] \in {"loggedOut", "ended"},
           \A t \in Tabs : LET out == logouts'[t] IN
              /\ out.token \in 0..Len(tokens)
              /\ out.at = "served" /\ out.token # 0 => tokens'[out.token] # "live"
    PROVE  SessionInv'
<1>1. Len(tokens) \in Nat /\ DOMAIN tokens = 1..Len(tokens)
  BY DEF TypeOK
<1>2. Numbered'
  <2>1. \A k \in DOMAIN tokens : tokens[k] # "live" => tokens'[k] # "live"
    OBVIOUS
  <2> QED
    BY <1>1, <2>1 DEF SessionInv, Numbered
<1>3. Shared' /\ Fresh' /\ Moved'
  BY DEF SessionInv, Shared, Fresh, Moved
<1>4. ExchangedBy'
  BY DEF SessionInv, ExchangedBy
<1>5. RefusedWithCause'
  <2> SUFFICES ASSUME NEW i \in DOMAIN refreshes, refreshes[i].heard,
                      refreshes[i].at \in {"refused", "denied"}, refreshes[i].token # 0,
                      tokens'[refreshes[i].token] \notin {"loggedOut", "ended"}
               PROVE  \E j \in DOMAIN refreshes :
                         /\ refreshes[j].token = refreshes[i].token /\ j # i
                         /\ refreshes[j].tab # refreshes[i].tab \/ ~refreshes[j].heard
    BY DEF RefusedWithCause
  <2>1. refreshes[i].token \in DOMAIN tokens
    BY <1>1 DEF SessionInv, Numbered
  <2>2. tokens[refreshes[i].token] \notin {"loggedOut", "ended"}
    BY <2>1
  <2> QED
    BY <2>2 DEF SessionInv, RefusedWithCause
<1>6. SessionsHeld'
  BY DEF SessionInv, SessionsHeld
<1> QED
  BY <1>2, <1>3, <1>4, <1>5, <1>6 DEF SessionInv

\* A refresh as it was, or unheard from now on, or told that it was refused.
Given(x, y) ==
    /\ y.tab = x.tab /\ y.token = x.token /\ y.new = x.new
    /\ \/ y.heard = x.heard /\ y.at = x.at
       \/ ~y.heard /\ (y.at = x.at \/ (x.at = "sent" /\ y.at = "denied"))
       \/ y.heard = x.heard /\ x.at = "refused" /\ y.at = "denied"

\* Going unheard and being told of a refusal are such edits.
LEMMA GivenEdits ==
    ASSUME NEW x \in Refresh
    PROVE  /\ Given(x, x) /\ Given(x, [x EXCEPT !.heard = FALSE])
           /\ Given(x, [x EXCEPT !.heard = FALSE, !.at = IF @ = "sent" THEN "denied" ELSE @])
           /\ x.at = "refused" => Given(x, [x EXCEPT !.at = "denied"])
<1>1. Given(x, x)
  BY DEF Given
<1>2. ASSUME x.at = "refused" PROVE Given(x, [x EXCEPT !.at = "denied"])
  BY <1>2 DEF Given, Refresh
<1>3. Given(x, [x EXCEPT !.heard = FALSE])
  <2> DEFINE y == [x EXCEPT !.heard = FALSE]
  <2>1. y.tab = x.tab /\ y.token = x.token /\ y.new = x.new /\ y.at = x.at
    BY DEF Refresh
  <2>2. ~y.heard
    BY DEF Refresh
  <2> HIDE DEF y
  <2>3. Given(x, y)
    BY <2>1, <2>2 DEF Given
  <2> QED
    BY <2>3 DEF y
<1>4. Given(x, [x EXCEPT !.heard = FALSE, !.at = IF @ = "sent" THEN "denied" ELSE @])
  <2> DEFINE y == [x EXCEPT !.heard = FALSE, !.at = IF @ = "sent" THEN "denied" ELSE @]
  <2>1. /\ y.tab = x.tab /\ y.token = x.token /\ y.new = x.new
        /\ y.at = x.at \/ (x.at = "sent" /\ y.at = "denied")
    BY DEF Refresh
  <2>2. ~y.heard
    BY DEF Refresh
  <2> HIDE DEF y
  <2>3. Given(x, y)
    BY <2>1, <2>2 DEF Given
  <2> QED
    BY <2>3 DEF y
<1> QED
  BY <1>1, <1>2, <1>3, <1>4

\* What gives refreshes up.
LEMMA RefreshesFail ==
    ASSUME TypeOK, SessionInv,
           UNCHANGED <<tokens, jar, dropped, replaced>>,
           DOMAIN refreshes' = DOMAIN refreshes,
           \A i \in DOMAIN refreshes : Given(refreshes[i], refreshes'[i]),
           \A i \in DOMAIN refreshes :
              refreshes'[i].heard /\ refreshes'[i].at \in Flying =>
                  promise'[refreshes[i].tab] = promise[refreshes[i].tab],
           \A t \in Tabs : logouts'[t] \in {logouts[t], NoLogout}
    PROVE  SessionInv'
<1>1. \A i \in DOMAIN refreshes : refreshes[i] \in Refresh
  BY DEF TypeOK
<1>2. \A i \in DOMAIN refreshes : LET x == refreshes[i] y == refreshes'[i] IN
         /\ y.tab = x.tab /\ y.token = x.token /\ y.new = x.new
         /\ y.heard => x.heard
         /\ y.at \in {"checked", "granted", "settled"} => y.at = x.at
         /\ x.at \in {"checked", "granted", "settled"} => y.at = x.at
         /\ y.at \in Flying => y.at = x.at
  BY <1>1 DEF Given, Flying, Refresh
<1>3. Numbered'
  BY <1>2 DEF SessionInv, Numbered, NoLogout
<1>4. Shared'
  BY <1>2 DEF SessionInv, Shared
<1>5. ExchangedBy'
  BY <1>2 DEF SessionInv, ExchangedBy
<1>6. Fresh'
  BY <1>2 DEF SessionInv, Fresh
<1>7. Moved'
  BY <1>2 DEF SessionInv, Moved
<1>8. RefusedWithCause'
  <2>1. \A i \in DOMAIN refreshes :
           refreshes'[i].heard /\ refreshes'[i].at \in {"refused", "denied"} =>
              refreshes[i].heard /\ refreshes[i].at \in {"refused", "denied"}
    BY <1>1 DEF Given, Refresh
  <2> SUFFICES ASSUME NEW i \in DOMAIN refreshes, refreshes'[i].heard,
                      refreshes'[i].at \in {"refused", "denied"}
               PROVE  LET k == refreshes[i].token IN
                         \/ k = 0
                         \/ tokens[k] \in {"loggedOut", "ended"}
                         \/ \E j \in DOMAIN refreshes :
                               /\ refreshes'[j].token = k /\ j # i
                               /\ refreshes'[j].tab # refreshes'[i].tab \/ ~refreshes'[j].heard
    BY <1>2 DEF RefusedWithCause
  <2> QED
    BY <1>2, <2>1 DEF SessionInv, RefusedWithCause
<1>9. SessionsHeld'
  BY <1>2 DEF SessionInv, SessionsHeld
<1> QED
  BY <1>3, <1>4, <1>5, <1>6, <1>7, <1>8, <1>9 DEF SessionInv

\* A 401 joins the refresh in flight, or starts one with the token in the jar.
LEMMA RefreshesKeeps ==
    ASSUME TypeOK, SessionInv, NEW t \in Tabs, NEW c \in Calls, Refreshes(t, c)
    PROVE  SessionInv'
<1> DEFINE n == Len(refreshes) + 1
           new == [tab |-> t, token |-> jar.refresh, new |-> 0, heard |-> TRUE, at |-> "sent"]
<1>1. /\ UNCHANGED <<tokens, jar, dropped, replaced, logouts>>
      /\ InFlight(t) => UNCHANGED <<refreshes, promise>>
      /\ ~InFlight(t) => /\ refreshes' = Append(refreshes, new)
                         /\ promise' = [promise EXCEPT ![t] = n]
  BY DEF Refreshes, InFlight, TypeOK, history
<1>2. CASE InFlight(t)
  BY <1>1, <1>2 DEF SessionInv, Numbered, Shared, ExchangedBy, Fresh, Moved, RefusedWithCause,
     SessionsHeld
<1>3. CASE ~InFlight(t)
  <2>1. /\ refreshes \in Seq(Refresh) /\ new \in Refresh /\ jar.refresh \in Nat
        /\ \A i \in DOMAIN refreshes : refreshes[i] \in Refresh
    <3>1. /\ refreshes \in Seq(Refresh) /\ jar.refresh \in Nat
          /\ \A i \in DOMAIN refreshes : refreshes[i] \in Refresh
      BY DEF TypeOK
    <3> QED
      BY <3>1 DEF Refresh
  <2>2. /\ DOMAIN refreshes' = DOMAIN refreshes \cup {n} /\ n \notin DOMAIN refreshes
        /\ refreshes'[n] = new /\ \A i \in DOMAIN refreshes : refreshes'[i] = refreshes[i]
    <3> HIDE DEF new
    <3> QED
      BY <1>1, <1>3, <2>1
  <2>3. /\ new.tab = t /\ new.token = jar.refresh /\ new.new = 0 /\ new.heard /\ new.at = "sent"
        /\ promise'[t] = n /\ \A s \in Tabs \ {t} : promise'[s] = promise[s]
        /\ promise[t] = 0
    BY <1>1, <1>3 DEF InFlight, TypeOK
  <2> HIDE DEF new, n
  <2>4. \A i \in DOMAIN refreshes : refreshes[i].heard /\ refreshes[i].at \in Flying =>
           refreshes[i].tab # t
    <3>1. \A i \in DOMAIN refreshes : i # 0
      BY <2>1
    <3> QED
      BY <2>3, <3>1 DEF SessionInv, Shared
  <2>5. Numbered'
    BY <1>1, <2>2, <2>3 DEF SessionInv, Numbered
  <2>6. Shared'
    <3>1. \A i \in DOMAIN refreshes : refreshes[i].tab \in Tabs
      BY <2>1 DEF Refresh
    <3> QED
      BY <2>2, <2>3, <2>4, <3>1 DEF SessionInv, Shared
  <2>7. ExchangedBy'
    BY <1>1, <2>2 DEF SessionInv, ExchangedBy
  <2>8. Fresh'
    BY <1>1, <2>2, <2>3 DEF SessionInv, Fresh
  <2>9. Moved'
    BY <1>1, <2>2, <2>3, <2>4 DEF SessionInv, Moved
  <2>10. RefusedWithCause'
    <3>1. ASSUME NEW i \in DOMAIN refreshes, refreshes[i].heard,
                 refreshes[i].at \in {"refused", "denied"}
          PROVE  LET k == refreshes[i].token IN
                    \/ k = 0
                    \/ tokens[k] \in {"loggedOut", "ended"}
                    \/ \E j \in DOMAIN refreshes' :
                          /\ refreshes'[j].token = k /\ j # i
                          /\ refreshes'[j].tab # refreshes[i].tab \/ ~refreshes'[j].heard
      BY <2>2, <3>1 DEF SessionInv, RefusedWithCause
    <3> QED
      BY <1>1, <2>2, <2>3, <3>1 DEF RefusedWithCause
  <2>11. SessionsHeld'
    BY <1>1, <2>2 DEF SessionInv, SessionsHeld
  <2> QED
    BY <2>5, <2>6, <2>7, <2>8, <2>9, <2>10, <2>11 DEF SessionInv
<1> QED
  BY <1>2, <1>3

\* A refresh whose token is dead: another refresh had it, of another page.
LEMMA DeadHasCause ==
    ASSUME TypeOK, SessionInv, NEW i \in DOMAIN refreshes,
           refreshes[i].heard, refreshes[i].at = "sent", refreshes[i].token # 0,
           tokens[refreshes[i].token] = "refreshed"
    PROVE  \E j \in DOMAIN refreshes :
              /\ refreshes[j].token = refreshes[i].token /\ j # i
              /\ refreshes[j].tab # refreshes[i].tab \/ ~refreshes[j].heard
<1>1. refreshes[i].token \in DOMAIN tokens
  BY DEF SessionInv, Numbered, TypeOK
<1>2. PICK j \in DOMAIN refreshes : /\ refreshes[j].token = refreshes[i].token
                                    /\ refreshes[j].at \in {"granted", "settled"}
  BY <1>1 DEF SessionInv, ExchangedBy
<1>3. j # i
  BY <1>2
<1>4. refreshes[j].tab # refreshes[i].tab \/ ~refreshes[j].heard
  <2> SUFFICES ASSUME refreshes[j].tab = refreshes[i].tab, refreshes[j].heard PROVE FALSE
    OBVIOUS
  <2>1. CASE refreshes[j].at = "granted"
    BY <1>3, <2>1 DEF SessionInv, Shared, Flying
  <2>2. CASE refreshes[j].at = "settled"
    BY <1>2, <2>2 DEF SessionInv, Moved, Flying
  <2> QED
    BY <1>2, <2>1, <2>2
<1> QED
  BY <1>2, <1>3, <1>4

LEMMA CheckKeeps ==
    ASSUME TypeOK, SessionInv, NEW i \in DOMAIN refreshes, Check(i)
    PROVE  SessionInv'
<1> DEFINE k == refreshes[i].token
           stage == IF k # 0 /\ tokens[k] = "live" THEN "checked" ELSE "refused"
           x == [refreshes[i] EXCEPT !.at = stage]
<1>1. refreshes[i].at = "sent" /\ refreshes[i] \in Refresh
      /\ \A j \in DOMAIN refreshes : refreshes[j] \in Refresh
  BY DEF Check, TypeOK
<1>2. /\ x.tab = refreshes[i].tab /\ x.token = k /\ x.new = refreshes[i].new
      /\ x.heard = refreshes[i].heard /\ x.at = stage /\ x \in Refresh
  BY <1>1 DEF Refresh
<1>3. /\ refreshes' = [refreshes EXCEPT ![i] = x]
      /\ UNCHANGED <<tokens, jar, dropped, replaced, logouts, promise>>
  BY DEF Check, Reach, history
<1> HIDE DEF x
<1>4. DOMAIN refreshes' = DOMAIN refreshes
      /\ \A j \in DOMAIN refreshes : refreshes'[j] = IF j = i THEN x ELSE refreshes[j]
  BY <1>2, <1>3, OneEdited
<1>5. stage \in {"checked", "refused"} /\ (stage = "checked" => k # 0)
  OBVIOUS
<1>6. Numbered'
  BY <1>2, <1>3, <1>4, <1>5 DEF SessionInv, Numbered
<1>7. Shared'
  BY <1>1, <1>2, <1>3, <1>4 DEF SessionInv, Shared, Flying
<1>8. ExchangedBy'
  <2>1. \A j \in DOMAIN refreshes : refreshes[j].at \in {"granted", "settled"} =>
           refreshes'[j] = refreshes[j]
    BY <1>1, <1>4
  <2> QED
    BY <1>3, <1>4, <2>1 DEF SessionInv, ExchangedBy
<1>9. Fresh'
  BY <1>1, <1>2, <1>3, <1>4, <1>5 DEF SessionInv, Fresh
<1>10. Moved'
  BY <1>1, <1>2, <1>3, <1>4, <1>5 DEF SessionInv, Moved, Flying
<1>11. RefusedWithCause'
  <2>1. ASSUME NEW p \in DOMAIN refreshes, refreshes'[p].heard,
               refreshes'[p].at \in {"refused", "denied"}
        PROVE  LET n == refreshes'[p].token IN
                  \/ n = 0
                  \/ tokens[n] \in {"loggedOut", "ended"}
                  \/ \E j \in DOMAIN refreshes :
                        /\ refreshes'[j].token = n /\ j # p
                        /\ refreshes'[j].tab # refreshes'[p].tab \/ ~refreshes'[j].heard
    <3>1. \A j \in DOMAIN refreshes : /\ refreshes'[j].token = refreshes[j].token
                                      /\ refreshes'[j].tab = refreshes[j].tab
                                      /\ refreshes'[j].heard = refreshes[j].heard
      BY <1>2, <1>4
    <3>2. CASE p # i
      <4>1. refreshes[p].heard /\ refreshes[p].at \in {"refused", "denied"}
        BY <1>4, <2>1, <3>2
      <4> QED
        BY <3>1, <4>1 DEF SessionInv, RefusedWithCause
    <3>3. CASE p = i
      <4>1. k = 0 \/ tokens[k] # "live"
        BY <1>2, <1>4, <2>1, <3>3
      <4>2. k # 0 => tokens[k] \in Token
        BY DEF TypeOK, SessionInv, Numbered
      <4>3. k = 0 \/ tokens[k] \in {"loggedOut", "ended"} \/ tokens[k] = "refreshed"
        BY <4>1, <4>2 DEF Token
      <4> QED
        BY <1>1, <2>1, <3>1, <3>3, <4>3, DeadHasCause
    <3> QED
      BY <3>2, <3>3
  <2> QED
    BY <1>3, <1>4, <2>1 DEF RefusedWithCause
<1>12. SessionsHeld'
  <2>1. \A j \in DOMAIN refreshes : refreshes[j].at = "granted" => refreshes'[j] = refreshes[j]
    BY <1>1, <1>4
  <2> QED
    BY <1>3, <1>4, <2>1 DEF SessionInv, SessionsHeld
<1> QED
  BY <1>6, <1>7, <1>8, <1>9, <1>10, <1>11, <1>12 DEF SessionInv

\* The exchange: the token it had is dead, and the new one is nobody else's.
LEMMA RotateKeeps ==
    ASSUME TypeOK, SessionInv, NEW i \in DOMAIN refreshes, Rotate(i)
    PROVE  SessionInv'
<1> DEFINE k == refreshes[i].token
           n == Len(tokens) + 1
           x == [refreshes[i] EXCEPT !.at = "granted", !.new = n]
           f == Ended(k, "refreshed")
<1>1. /\ refreshes[i].at = "checked" /\ refreshes[i] \in Refresh
      /\ \A j \in DOMAIN refreshes : refreshes[j] \in Refresh
      /\ Len(tokens) \in Nat /\ DOMAIN tokens = 1..Len(tokens) /\ n \in Nat /\ n \notin DOMAIN tokens
      /\ \A m \in DOMAIN tokens : tokens[m] \in Token
  BY DEF Rotate, TypeOK
<1>2. k \in DOMAIN tokens
  BY <1>1 DEF SessionInv, Numbered
<1>3. /\ x.tab = refreshes[i].tab /\ x.token = k /\ x.new = n
      /\ x.heard = refreshes[i].heard /\ x.at = "granted" /\ x \in Refresh
  BY <1>1 DEF Refresh
<1>4. /\ refreshes' = [refreshes EXCEPT ![i] = x] /\ tokens' = Append(f, "live")
      /\ UNCHANGED <<jar, dropped, replaced, logouts, promise>>
  BY DEF Rotate, history
<1>5. /\ f \in Seq(Token) /\ DOMAIN f = DOMAIN tokens /\ Len(f) = Len(tokens)
      /\ \A m \in DOMAIN tokens :
            f[m] = IF m = k /\ tokens[m] = "live" THEN "refreshed" ELSE tokens[m]
  BY EndedType
<1> HIDE DEF x, f
<1>6. DOMAIN refreshes' = DOMAIN refreshes
      /\ \A j \in DOMAIN refreshes : refreshes'[j] = IF j = i THEN x ELSE refreshes[j]
  BY <1>3, <1>4, OneEdited
<1>7. /\ Len(tokens') = n /\ DOMAIN tokens' = DOMAIN tokens \cup {n} /\ tokens'[n] = "live"
      /\ \A m \in DOMAIN tokens : tokens'[m] = f[m]
  BY <1>1, <1>4, <1>5
<1>8. /\ \A m \in DOMAIN tokens : /\ tokens[m] # "live" => tokens'[m] = tokens[m]
                                  /\ tokens'[m] # tokens[m] => m = k /\ tokens'[m] = "refreshed"
      /\ tokens'[k] # "live"
  BY <1>2, <1>5, <1>7
<1> HIDE DEF n, k
<1>9. /\ jar.refresh \in 0..Len(tokens)
      /\ \A j \in DOMAIN refreshes : LET y == refreshes[j] IN
            /\ y.token \in 0..Len(tokens)
            /\ y.at \in {"checked", "granted", "settled"} => y.token \in DOMAIN tokens
            /\ y.at \in {"granted", "settled"} =>
                  y.new \in DOMAIN tokens /\ tokens[y.token] # "live"
      /\ \A t \in Tabs : /\ logouts[t].token \in 0..Len(tokens)
                         /\ logouts[t].at = "served" /\ logouts[t].token # 0 =>
                               logouts[t].token \in DOMAIN tokens /\ tokens[logouts[t].token] # "live"
  BY <1>1 DEF SessionInv, Numbered
<1>10. 0..Len(tokens) \subseteq 0..n /\ DOMAIN tokens \subseteq 1..n /\ n \in 1..n /\ n # 0
       /\ \A m \in 0..Len(tokens) : m # n
  BY <1>1 DEF n
<1>11. Numbered'
  <2>1. jar'.refresh \in 0..Len(tokens')
    BY <1>4, <1>7, <1>9, <1>10
  <2>2. ASSUME NEW j \in DOMAIN refreshes
        PROVE  LET y == refreshes'[j] IN
               /\ y.token \in 0..Len(tokens')
               /\ y.at \in {"checked", "granted", "settled"} => y.token # 0
               /\ y.at \in {"granted", "settled"} =>
                     y.new \in 1..Len(tokens') /\ tokens'[y.token] # "live"
    <3>1. CASE j = i
      BY <1>1, <1>2, <1>3, <1>6, <1>7, <1>8, <1>9, <1>10, <3>1 DEF k
    <3>2. CASE j # i
      <4>1. \A m \in DOMAIN tokens : m # 0
        BY <1>1
      <4> QED
        BY <1>6, <1>7, <1>8, <1>9, <1>10, <3>2, <4>1
    <3> QED
      BY <3>1, <3>2
  <2>3. \A t \in Tabs : /\ logouts'[t].token \in 0..Len(tokens')
                        /\ logouts'[t].at = "served" /\ logouts'[t].token # 0 =>
                              tokens'[logouts'[t].token] # "live"
    BY <1>4, <1>7, <1>8, <1>9, <1>10
  <2> QED
    BY <1>6, <2>1, <2>2, <2>3 DEF Numbered
<1>12. Shared'
  BY <1>1, <1>3, <1>4, <1>6 DEF SessionInv, Shared, Flying
<1>13. ExchangedBy'
  <2> SUFFICES ASSUME NEW m \in DOMAIN tokens', tokens'[m] = "refreshed"
               PROVE  \E j \in DOMAIN refreshes : /\ refreshes'[j].token = m
                                                  /\ refreshes'[j].at \in {"granted", "settled"}
    BY <1>6 DEF ExchangedBy
  <2>1. m \in DOMAIN tokens
    BY <1>7
  <2>2. CASE m = k
    BY <1>3, <1>6, <2>2
  <2>3. CASE m # k
    <3>1. tokens[m] = "refreshed"
      BY <1>8, <2>1, <2>3
    <3>2. PICK j \in DOMAIN refreshes : /\ refreshes[j].token = m
                                        /\ refreshes[j].at \in {"granted", "settled"}
      BY <2>1, <3>1 DEF SessionInv, ExchangedBy
    <3>3. refreshes'[j] = refreshes[j]
      BY <1>1, <1>6, <3>2
    <3> QED
      BY <3>2, <3>3
  <2> QED
    BY <2>2, <2>3
<1>14. Fresh'
  <2>1. \A j \in DOMAIN refreshes : /\ refreshes'[j].token = refreshes[j].token
                                    /\ refreshes'[j].token # n
                                    /\ j # i => refreshes'[j] = refreshes[j]
    BY <1>3, <1>6, <1>9, <1>10 DEF k
  <2>2. jar'.refresh # n /\ jar'.refresh = jar.refresh
    BY <1>4, <1>9, <1>10
  <2>3. \A j \in DOMAIN refreshes : j # i /\ refreshes[j].at = "granted" => refreshes[j].new # n
    BY <1>1, <1>9
  <2>4. refreshes'[i].new = n
    BY <1>3, <1>6
  <2> SUFFICES ASSUME NEW p \in DOMAIN refreshes, refreshes'[p].at = "granted"
               PROVE  /\ jar'.refresh # refreshes'[p].new
                      /\ \A j \in DOMAIN refreshes :
                            /\ refreshes'[j].token # refreshes'[p].new
                            /\ refreshes'[j].at = "granted" /\ j # p =>
                                  refreshes'[j].new # refreshes'[p].new
    BY <1>6 DEF Fresh
  <2>5. CASE p = i
    BY <2>1, <2>2, <2>3, <2>4, <2>5
  <2>6. CASE p # i
    BY <2>1, <2>2, <2>3, <2>4, <2>6 DEF SessionInv, Fresh
  <2> QED
    BY <2>5, <2>6
<1>15. Moved'
  BY <1>1, <1>3, <1>4, <1>6 DEF SessionInv, Moved, Flying, k
<1>16. RefusedWithCause'
  <2>1. \A j \in DOMAIN refreshes : /\ refreshes'[j].token = refreshes[j].token
                                    /\ refreshes'[j].tab = refreshes[j].tab
                                    /\ refreshes'[j].heard = refreshes[j].heard
    BY <1>3, <1>6 DEF k
  <2> SUFFICES ASSUME NEW p \in DOMAIN refreshes, refreshes'[p].heard,
                      refreshes'[p].at \in {"refused", "denied"}, refreshes'[p].token # 0
               PROVE  LET m == refreshes'[p].token IN
                         \/ tokens'[m] \in {"loggedOut", "ended"}
                         \/ \E j \in DOMAIN refreshes :
                               /\ refreshes'[j].token = m /\ j # p
                               /\ refreshes'[j].tab # refreshes'[p].tab \/ ~refreshes'[j].heard
    BY <1>6 DEF RefusedWithCause
  <2>2. p # i /\ refreshes'[p] = refreshes[p]
    BY <1>3, <1>6
  <2>3. refreshes[p].token \in DOMAIN tokens
    BY <1>1, <1>9, <2>2
  <2> QED
    BY <1>8, <2>1, <2>2, <2>3 DEF SessionInv, RefusedWithCause
<1>17. SessionsHeld'
  <2> SUFFICES ASSUME NEW m \in DOMAIN tokens', tokens'[m] = "live"
               PROVE  \/ jar.refresh = m \/ m \in dropped \/ m \in replaced
                      \/ \E j \in DOMAIN refreshes :
                            refreshes'[j].new = m /\ refreshes'[j].at = "granted"
    BY <1>4, <1>6 DEF SessionsHeld
  <2>1. CASE m = n
    BY <1>3, <1>6, <2>1
  <2>2. CASE m \in DOMAIN tokens
    <3>1. tokens[m] = "live"
      BY <1>8, <2>2
    <3>2. \A j \in DOMAIN refreshes : refreshes[j].at = "granted" => refreshes'[j] = refreshes[j]
      BY <1>1, <1>6
    <3> QED
      BY <2>2, <3>1, <3>2 DEF SessionInv, SessionsHeld
  <2> QED
    BY <1>7, <2>1, <2>2
<1> QED
  BY <1>11, <1>12, <1>13, <1>14, <1>15, <1>16, <1>17 DEF SessionInv

\* The answer of a refresh: the token it brings drives a dead one from the jar.
LEMMA SettleKeeps ==
    ASSUME TypeOK, SessionInv, NEW i \in DOMAIN refreshes, Settle(i)
    PROVE  SessionInv'
<1> DEFINE k == refreshes[i].token
           n == refreshes[i].new
           x == [refreshes[i] EXCEPT !.at = "settled"]
<1>1. /\ refreshes[i].at = "granted" /\ refreshes[i].heard /\ refreshes[i] \in Refresh
      /\ \A j \in DOMAIN refreshes : refreshes[j] \in Refresh
      /\ DOMAIN tokens = 1..Len(tokens) /\ Len(tokens) \in Nat
  BY DEF Settle, TypeOK
<1>2. /\ x.tab = refreshes[i].tab /\ x.token = k /\ x.new = n
      /\ x.heard = refreshes[i].heard /\ x.at = "settled" /\ x \in Refresh
      /\ refreshes[i].tab \in Tabs
  BY <1>1 DEF Refresh
<1>3. /\ refreshes' = [refreshes EXCEPT ![i] = x]
      /\ jar'.refresh = n /\ dropped' = dropped \cup ({jar.refresh} \ {k, 0})
      /\ promise' = [promise EXCEPT ![refreshes[i].tab] = 0]
      /\ UNCHANGED <<tokens, logouts, replaced>>
  BY DEF Settle, Reach, DropsAllBut
<1> HIDE DEF x
<1>4. DOMAIN refreshes' = DOMAIN refreshes
      /\ \A j \in DOMAIN refreshes : refreshes'[j] = IF j = i THEN x ELSE refreshes[j]
  BY <1>2, <1>3, OneEdited
<1>5. /\ k # 0 /\ n \in DOMAIN tokens /\ n \in 0..Len(tokens) /\ tokens[k] # "live"
      /\ \A j \in DOMAIN refreshes : n # refreshes[j].token
      /\ \A j \in DOMAIN refreshes : refreshes[j].at = "granted" /\ j # i => refreshes[j].new # n
  BY <1>1 DEF SessionInv, Numbered, Fresh
<1>6. \A j \in DOMAIN refreshes :
         refreshes[j].heard /\ refreshes[j].at \in Flying /\ j # i =>
            refreshes[j].tab # refreshes[i].tab
  BY <1>1 DEF SessionInv, Shared, Flying
<1>7. \A j \in DOMAIN refreshes : /\ refreshes'[j].token = refreshes[j].token
                                  /\ refreshes'[j].tab = refreshes[j].tab
                                  /\ refreshes'[j].heard = refreshes[j].heard
                                  /\ refreshes'[j].new = refreshes[j].new
                                  /\ j # i => refreshes'[j] = refreshes[j]
  BY <1>2, <1>4
<1>8. refreshes'[i].at = "settled"
  BY <1>2, <1>4
<1> HIDE DEF k, n
<1>9. Numbered'
  BY <1>1, <1>3, <1>4, <1>5, <1>7, <1>8 DEF SessionInv, Numbered
<1>10. Shared'
  <2> SUFFICES ASSUME NEW j \in DOMAIN refreshes, refreshes'[j].heard, refreshes'[j].at \in Flying
               PROVE  promise'[refreshes'[j].tab] = j
    BY <1>4 DEF Shared
  <2>1. j # i
    BY <1>8 DEF Flying
  <2>2. refreshes[j].tab # refreshes[i].tab /\ promise[refreshes[j].tab] = j
    BY <1>6, <1>7, <2>1 DEF SessionInv, Shared
  <2>3. refreshes[j].tab \in Tabs
    BY <1>1 DEF Refresh
  <2> QED
    BY <1>3, <1>7, <2>2, <2>3 DEF TypeOK
<1>11. ExchangedBy'
  <2>1. \A j \in DOMAIN refreshes : refreshes[j].at \in {"granted", "settled"} =>
           refreshes'[j].at \in {"granted", "settled"}
    BY <1>7, <1>8
  <2> QED
    BY <1>3, <1>4, <1>7, <2>1 DEF SessionInv, ExchangedBy
<1>12. Fresh'
  <2>1. \A j \in DOMAIN refreshes : refreshes'[j].at = "granted" =>
           j # i /\ refreshes[j].at = "granted"
    BY <1>7, <1>8
  <2> QED
    BY <1>3, <1>4, <1>5, <1>7, <2>1 DEF SessionInv, Fresh
<1>13. Moved'
  <2>1. ASSUME NEW j \in DOMAIN refreshes, NEW p \in DOMAIN refreshes,
               refreshes'[j].at = "settled", refreshes'[p].heard, refreshes'[p].at \in Flying,
               refreshes'[p].tab = refreshes'[j].tab
        PROVE  refreshes'[p].token # refreshes'[j].token
    <3>1. p # i
      BY <1>8, <2>1 DEF Flying
    <3>2. j # i
      BY <1>6, <1>7, <2>1, <3>1
    <3> QED
      BY <1>7, <2>1, <3>1, <3>2 DEF SessionInv, Moved
  <2> QED
    BY <1>3, <1>4, <1>5, <1>7, <2>1 DEF Moved
<1>14. RefusedWithCause'
  <2>1. \A j \in DOMAIN refreshes : refreshes'[j].at \in {"refused", "denied"} =>
           refreshes[j].at \in {"refused", "denied"}
    BY <1>7, <1>8
  <2> QED
    BY <1>3, <1>4, <1>7, <2>1 DEF SessionInv, RefusedWithCause
<1>15. SessionsHeld'
  <2> SUFFICES ASSUME NEW m \in DOMAIN tokens, tokens[m] = "live"
               PROVE  \/ jar'.refresh = m \/ m \in dropped' \/ m \in replaced'
                      \/ \E j \in DOMAIN refreshes :
                            refreshes'[j].new = m /\ refreshes'[j].at = "granted"
    BY <1>3, <1>4 DEF SessionsHeld
  <2>1. m # 0 /\ m # k
    BY <1>1, <1>5
  <2>2. CASE jar.refresh = m
    BY <1>3, <2>1, <2>2
  <2>3. CASE m \in dropped \/ m \in replaced
    BY <1>3, <2>3
  <2>4. ASSUME NEW j \in DOMAIN refreshes, refreshes[j].new = m, refreshes[j].at = "granted"
        PROVE  \/ jar'.refresh = m
               \/ refreshes'[j].new = m /\ refreshes'[j].at = "granted"
    BY <1>3, <1>7, <2>4 DEF n
  <2> QED
    BY <2>2, <2>3, <2>4 DEF SessionInv, SessionsHeld
<1> QED
  BY <1>9, <1>10, <1>11, <1>12, <1>13, <1>14, <1>15 DEF SessionInv

\* A login: nobody has its token, and the one it replaces is remembered.
LEMMA LoginKeeps ==
    ASSUME TypeOK, SessionInv, NEW t \in Tabs, SubmitLogin(t)
    PROVE  SessionInv'
<1> DEFINE n == Len(tokens) + 1
<1>1. /\ Len(tokens) \in Nat /\ DOMAIN tokens = 1..Len(tokens) /\ n \in Nat
      /\ tokens' = Append(tokens, "live") /\ jar'.refresh = n
      /\ replaced' = replaced \cup ({jar.refresh} \ {0})
      /\ UNCHANGED <<promise, refreshes, logouts, dropped>>
  BY DEF SubmitLogin, TypeOK
<1>2. /\ Len(tokens') = n /\ DOMAIN tokens' = DOMAIN tokens \cup {n} /\ tokens'[n] = "live"
      /\ \A m \in DOMAIN tokens : tokens'[m] = tokens[m]
  BY <1>1 DEF TypeOK
<1>3. /\ 0..Len(tokens) \subseteq 0..n /\ DOMAIN tokens \subseteq 1..n /\ n \in 0..n
      /\ \A m \in 0..Len(tokens) : m # n /\ (m # 0 => m \in DOMAIN tokens)
      /\ \A m \in DOMAIN tokens : m # n /\ m # 0
  BY <1>1
<1> HIDE DEF n
<1>4. Numbered'
  <2>1. \A i \in DOMAIN refreshes : LET x == refreshes[i] IN
           /\ x.token \in 0..Len(tokens)
           /\ x.at \in {"checked", "granted", "settled"} => x.token # 0
           /\ x.at \in {"granted", "settled"} =>
                 x.new \in DOMAIN tokens /\ tokens[x.token] # "live" /\ x.token \in DOMAIN tokens
    BY <1>1, <1>3 DEF SessionInv, Numbered
  <2>2. \A s \in Tabs : /\ logouts[s].token \in 0..Len(tokens)
                        /\ logouts[s].at = "served" /\ logouts[s].token # 0 =>
                              /\ logouts[s].token \in DOMAIN tokens
                              /\ tokens[logouts[s].token] # "live"
    BY <1>3 DEF SessionInv, Numbered
  <2> QED
    BY <1>1, <1>2, <1>3, <2>1, <2>2 DEF Numbered
<1>5. Shared'
  BY <1>1 DEF SessionInv, Shared
<1>6. ExchangedBy'
  BY <1>1, <1>2 DEF SessionInv, ExchangedBy
<1>7. Fresh'
  BY <1>1, <1>3 DEF SessionInv, Fresh, Numbered
<1>8. Moved'
  BY <1>1, <1>3 DEF SessionInv, Moved, Numbered
<1>9. RefusedWithCause'
  <2>1. \A i \in DOMAIN refreshes : refreshes[i].token # 0 =>
           tokens'[refreshes[i].token] = tokens[refreshes[i].token]
    BY <1>2, <1>3 DEF SessionInv, Numbered
  <2> QED
    BY <1>1, <2>1 DEF SessionInv, RefusedWithCause
<1>10. SessionsHeld'
  BY <1>1, <1>2, <1>3 DEF SessionInv, SessionsHeld
<1> QED
  BY <1>4, <1>5, <1>6, <1>7, <1>8, <1>9, <1>10 DEF SessionInv

\* The answer of a logout empties the jar: what it was sent with is dead.
LEMMA AnswerLogoutKeeps ==
    ASSUME TypeOK, SessionInv, NEW t \in Tabs, AnswerLogout(t)
    PROVE  SessionInv'
<1>1. /\ logouts[t].at = "served" /\ jar'.refresh = 0
      /\ dropped' = dropped \cup ({jar.refresh} \ {logouts[t].token, 0})
      /\ \A s \in Tabs : logouts'[s] \in {logouts[s], NoLogout}
      /\ UNCHANGED <<tokens, promise, refreshes, replaced>>
      /\ Len(tokens) \in Nat /\ DOMAIN tokens = 1..Len(tokens)
  BY DEF AnswerLogout, DropsAllBut, server, TypeOK
<1>2. Numbered'
  BY <1>1 DEF SessionInv, Numbered, NoLogout
<1>3. Shared' /\ ExchangedBy' /\ RefusedWithCause'
  BY <1>1 DEF SessionInv, Shared, ExchangedBy, RefusedWithCause
<1>4. Fresh'
  BY <1>1 DEF SessionInv, Fresh, Numbered
<1>5. Moved'
  BY <1>1 DEF SessionInv, Moved, Numbered
<1>6. SessionsHeld'
  <2>1. \A m \in DOMAIN tokens : tokens[m] = "live" => m # 0 /\ m # logouts[t].token
    BY <1>1 DEF SessionInv, Numbered
  <2> QED
    BY <1>1, <2>1 DEF SessionInv, SessionsHeld
<1> QED
  BY <1>2, <1>3, <1>4, <1>5, <1>6 DEF SessionInv

\* The step of a logout that the server takes.
LEMMA ServeLogoutKeeps ==
    ASSUME TypeOK, SessionInv, NEW t \in Tabs, ServeLogout(t)
    PROVE  SessionInv'
<1> DEFINE k == logouts[t].token
<1>1. /\ tokens' = LoggedOut(k) /\ logouts' = [logouts EXCEPT ![t].at = "served"]
      /\ UNCHANGED <<promise, refreshes, jar, dropped, replaced>>
  BY DEF ServeLogout, history
<1>2. /\ logouts[t] \in Logout /\ k \in 0..Len(tokens)
      /\ Len(tokens) \in Nat /\ DOMAIN tokens = 1..Len(tokens)
      /\ \A s \in Tabs : logouts[s].token \in 0..Len(tokens)
  BY DEF TypeOK, SessionInv, Numbered
<1>3. /\ Len(tokens') = Len(tokens) /\ DOMAIN tokens' = DOMAIN tokens
      /\ \A m \in DOMAIN tokens :
            tokens'[m] = IF m = k /\ tokens[m] = "live" THEN "loggedOut" ELSE tokens[m]
  <2>1. CASE k = 0
    BY <1>1, <1>2, <2>1 DEF LoggedOut
  <2>2. CASE k # 0
    BY <1>1, <2>2, EndedType DEF LoggedOut
  <2> QED
    BY <2>1, <2>2
<1>4. /\ logouts'[t].token = k
      /\ \A s \in Tabs \ {t} : logouts'[s] = logouts[s]
  BY <1>1, <1>2 DEF TypeOK, Logout
<1>5. \A m \in DOMAIN tokens : \/ tokens'[m] = tokens[m]
                               \/ tokens[m] = "live" /\ tokens'[m] \in {"loggedOut", "ended"}
  BY <1>3
<1>6. \A s \in Tabs : LET out == logouts'[s] IN
         /\ out.token \in 0..Len(tokens)
         /\ out.at = "served" /\ out.token # 0 => tokens'[out.token] # "live"
  <2>1. k # 0 => tokens'[k] # "live"
    BY <1>2, <1>3
  <2>2. \A m \in DOMAIN tokens : tokens[m] # "live" => tokens'[m] # "live"
    BY <1>3
  <2>3. \A s \in Tabs : logouts[s].token # 0 => logouts[s].token \in DOMAIN tokens
    BY <1>2
  <2>4. \A s \in Tabs \ {t} : logouts'[s].at = "served" /\ logouts'[s].token # 0 =>
           tokens'[logouts'[s].token] # "live"
    BY <1>4, <2>2, <2>3 DEF SessionInv, Numbered
  <2> QED
    BY <1>2, <1>4, <2>1, <2>4
<1> HIDE DEF k
<1> QED
  BY <1>1, <1>3, <1>5, <1>6, TokensDie

LEMMA SessionStep == TypeOK /\ SessionInv /\ [Next]_vars => SessionInv'
<1> SUFFICES ASSUME TypeOK, SessionInv, [Next]_vars PROVE SessionInv'
  OBVIOUS
<1>1. /\ Len(tokens) \in Nat /\ DOMAIN tokens = 1..Len(tokens) /\ jar.refresh \in 0..Len(tokens)
      /\ \A i \in DOMAIN refreshes : refreshes[i] \in Refresh
      /\ \A t \in Tabs : /\ logouts[t].token \in 0..Len(tokens)
                         /\ logouts[t].at = "served" /\ logouts[t].token # 0 =>
                               tokens[logouts[t].token] # "live"
  BY DEF TypeOK, SessionInv, Numbered
<1>2. ASSUME UNCHANGED <<promise, refreshes, dropped, replaced, tokens>>, jar'.refresh = jar.refresh,
             \A t \in Tabs : \/ logouts'[t] \in {logouts[t], NoLogout}
                             \/ logouts'[t] = [at |-> "sent", token |-> jar.refresh]
      PROVE  SessionInv'
  <2>1. \A t \in Tabs : LET out == logouts'[t] IN
           /\ out.token \in 0..Len(tokens)
           /\ out.at = "served" /\ out.token # 0 => tokens'[out.token] # "live"
    BY <1>1, <1>2 DEF NoLogout
  <2> QED
    BY <1>2, <2>1, TokensDie
<1>3. ASSUME NEW t \in Tabs, Load(t, page'[t]), UNCHANGED <<tokens, jar, dropped, replaced>>,
             page'[t] \in Pages
      PROVE  SessionInv'
  <2>1. /\ DOMAIN refreshes' = DOMAIN refreshes
        /\ \A i \in DOMAIN refreshes :
              refreshes'[i] = IF refreshes[i].tab = t /\ refreshes[i].at \notin {"settled", "denied"}
                              THEN [refreshes[i] EXCEPT !.heard = FALSE] ELSE refreshes[i]
    BY <1>3, LoadType
  <2>2. \A i \in DOMAIN refreshes : Given(refreshes[i], refreshes'[i])
    BY ZenonT(60), <1>1, <2>1, GivenEdits
  <2>3. /\ promise' = [promise EXCEPT ![t] = 0] /\ logouts' = [logouts EXCEPT ![t] = NoLogout]
    BY <1>3 DEF Load
  <2>4. \A i \in DOMAIN refreshes : refreshes'[i].heard /\ refreshes'[i].at \in Flying =>
           promise'[refreshes[i].tab] = promise[refreshes[i].tab]
    BY <1>1, <2>1, <2>3 DEF Flying, Refresh, TypeOK
  <2>5. \A s \in Tabs : logouts'[s] \in {logouts[s], NoLogout}
    BY <2>3 DEF TypeOK
  <2> QED
    BY <1>3, <2>1, <2>2, <2>4, <2>5, RefreshesFail
<1>4. ASSUME NEW i \in DOMAIN refreshes, NEW x \in Refresh, refreshes' = [refreshes EXCEPT ![i] = x],
             Given(refreshes[i], x), ~x.heard \/ x.at \notin Flying,
             promise[refreshes[i].tab] = i, Resolve(i)
      PROVE  SessionInv'
  <2>1. /\ DOMAIN refreshes' = DOMAIN refreshes
        /\ \A j \in DOMAIN refreshes : refreshes'[j] = IF j = i THEN x ELSE refreshes[j]
    BY <1>4, OneEdited
  <2>2. \A j \in DOMAIN refreshes : Given(refreshes[j], refreshes'[j])
    BY <1>4, <2>1 DEF Given
  <2>3. /\ promise' = [promise EXCEPT ![refreshes[i].tab] = 0]
        /\ UNCHANGED <<logouts, tokens, jar, dropped, replaced>>
    BY <1>4 DEF Resolve, history
  <2>4. \A j \in DOMAIN refreshes : refreshes'[j].heard /\ refreshes'[j].at \in Flying =>
           promise'[refreshes[j].tab] = promise[refreshes[j].tab]
    <3> SUFFICES ASSUME NEW j \in DOMAIN refreshes, refreshes'[j].heard, refreshes'[j].at \in Flying
                 PROVE  promise'[refreshes[j].tab] = promise[refreshes[j].tab]
      OBVIOUS
    <3>1. j # i /\ refreshes'[j] = refreshes[j]
      BY <1>4, <2>1
    <3>2. promise[refreshes[j].tab] = j
      BY <3>1 DEF SessionInv, Shared
    <3>3. refreshes[j].tab # refreshes[i].tab
      BY <1>4, <3>1, <3>2
    <3> QED
      BY <2>3, <3>3 DEF TypeOK
  <2> QED
    BY <2>1, <2>2, <2>3, <2>4, RefreshesFail
<1>5. ASSUME NEW t \in Tabs, NEW c \in Calls, Answer(t, c) PROVE SessionInv'
  <2>1. CASE Returns(t, c) \/ GivesUp(t, c)
    BY <1>2, <2>1 DEF Returns, GivesUp, server, history
  <2>2. CASE Refreshes(t, c)
    BY <2>2, RefreshesKeeps
  <2> QED
    BY <1>5, <2>1, <2>2 DEF Answer
<1>6. ASSUME NEW t \in Tabs, Send(t) PROVE SessionInv'
  BY <1>2, <1>6 DEF Send, server, history
<1>7. ASSUME NEW t \in Tabs, Unload(t) PROVE SessionInv'
  <2>1. page'[t] = "login" /\ Load(t, "login")
    BY <1>7 DEF Unload, Load, TypeOK
  <2> QED
    BY <1>3, <1>7, <2>1 DEF Unload, Pages, history
<1>8. ASSUME NEW t \in Tabs, Reload(t) PROVE SessionInv'
  <2> DEFINE p == IF jar.access = 0 THEN "login" ELSE "entering"
  <2>1. page'[t] = p /\ Load(t, p)
    BY <1>8 DEF Reload, Load, TypeOK
  <2>2. p \in Pages
    BY DEF Pages
  <2> HIDE DEF p
  <2> QED
    BY <1>3, <1>8, <2>1, <2>2 DEF Reload, history
<1>9. ASSUME NEW t \in Tabs, HandleLogout(t) PROVE SessionInv'
  BY <1>2, <1>9 DEF HandleLogout, server, TypeOK, history
<1>10. ASSUME NEW t \in Tabs, LoseLogout(t) PROVE SessionInv'
  BY <1>2, <1>10 DEF LoseLogout, server, TypeOK, history
<1>11. ASSUME NEW i \in DOMAIN refreshes, Deny(i) PROVE SessionInv'
  <2> DEFINE x == [refreshes[i] EXCEPT !.at = "denied"]
  <2>1. refreshes' = [refreshes EXCEPT ![i] = x] /\ refreshes[i].at = "refused"
    BY <1>11 DEF Deny, Reach
  <2>3. x \in Refresh /\ Given(refreshes[i], x) /\ x.at \notin Flying
    <3>1. Given(refreshes[i], x)
      BY <1>1, <2>1, GivenEdits
    <3>2. x \in Refresh /\ x.at \notin Flying
      BY <1>1 DEF Refresh, Flying
    <3> QED
      BY <3>1, <3>2
  <2>2. promise[refreshes[i].tab] = i
    BY <1>11 DEF Deny, SessionInv, Shared, Flying
  <2> HIDE DEF x
  <2> QED
    BY <1>4, <1>11, <2>1, <2>2, <2>3 DEF Deny
<1>12. ASSUME NEW i \in DOMAIN refreshes, Lose(i) PROVE SessionInv'
  <2> DEFINE x == [refreshes[i] EXCEPT !.heard = FALSE, !.at = IF @ = "sent" THEN "denied" ELSE @]
  <2>1. refreshes' = [refreshes EXCEPT ![i] = x]
    BY <1>12 DEF Lose
  <2>3. x \in Refresh /\ Given(refreshes[i], x) /\ ~x.heard
    <3>1. Given(refreshes[i], x)
      BY <1>1, GivenEdits
    <3>2. x \in Refresh
      BY <1>1, RefreshEdits
    <3>3. ~x.heard
      BY <1>1 DEF Refresh
    <3> QED
      BY <3>1, <3>2, <3>3
  <2>2. promise[refreshes[i].tab] = i
    BY <1>12 DEF Lose, SessionInv, Shared, Flying
  <2> HIDE DEF x
  <2> QED
    BY <1>4, <1>12, <2>1, <2>2, <2>3 DEF Lose
<1>13. ASSUME Expire PROVE SessionInv'
  BY <1>2, <1>13 DEF Expire, TypeOK, history
<1>14. ASSUME EndSessions PROVE SessionInv'
  <2>1. /\ tokens' = [k \in DOMAIN tokens |-> IF tokens[k] = "live" THEN "ended" ELSE tokens[k]]
        /\ UNCHANGED <<promise, refreshes, dropped, replaced, jar, logouts>>
    BY <1>14 DEF EndSessions, history
  <2>2. /\ DOMAIN tokens' = DOMAIN tokens
        /\ \A k \in DOMAIN tokens : \/ tokens'[k] = tokens[k]
                                    \/ tokens[k] = "live" /\ tokens'[k] = "ended"
        /\ \A k \in DOMAIN tokens : tokens'[k] # "live"
    BY <2>1
  <2>3. Len(tokens') = Len(tokens)
    BY <2>1, TypeStep, <2>2, <1>14 DEF TypeOK
  <2>4. \A t \in Tabs : LET out == logouts'[t] IN
           /\ out.token \in 0..Len(tokens)
           /\ out.at = "served" /\ out.token # 0 => tokens'[out.token] # "live"
    BY <1>1, <2>1, <2>2
  <2> QED
    BY <2>1, <2>2, <2>3, <2>4, TokensDie
<1>15. CASE UNCHANGED vars
  BY <1>2, <1>15 DEF vars
<1> QED
  BY <1>5, <1>6, <1>7, <1>8, <1>9, <1>10, <1>11, <1>12, <1>13, <1>14, <1>15, LoginKeeps,
     ServeLogoutKeeps, AnswerLogoutKeeps, CheckKeeps, RotateKeeps, SettleKeeps
     DEF Next, Progress

-----------------------------------------------------------------------------
(* The theorems.                                                           *)

\* The jar, the calls, the refreshes and the tokens of a browser are always
\* what lib/session.ts and its callers can make of them.
THEOREM BrowserTypeCorrect == Spec => []TypeOK
<1>1. Init => TypeOK
  BY TypeInit
<1>2. TypeOK /\ [Next]_vars => TypeOK'
  BY TypeStep
<1> QED
  BY <1>1, <1>2, PTL DEF Spec

LEMMA SessionInvariant == Spec => [](TypeOK /\ SessionInv)
<1>1. Init => TypeOK /\ SessionInv
  BY TypeInit, SessionInit
<1>2. (TypeOK /\ SessionInv) /\ [Next]_vars => (TypeOK /\ SessionInv)'
  BY TypeStep, SessionStep
<1> QED
  BY <1>1, <1>2, PTL DEF Spec

\* A refresh that is refused had no cookie, an ended session, or a token that
\* another tab or an answer nobody heard had taken: the one refreshPromise of
\* lib/session.ts keeps the calls of a page from spending each other's token,
\* however many tabs, calls, reloads and lost answers there are.
THEOREM RefusalsHaveCause == Spec => []RefusedWithCause
<1>1. TypeOK /\ SessionInv => RefusedWithCause
  BY DEF SessionInv
<1> QED
  BY <1>1, SessionInvariant, PTL

\* A session the server still accepts is in the jar, on its way there, was
\* driven from it by the answer of a refresh or a logout that had not carried
\* it, or was given up by a login: what AuthController does with the cookies of
\* a refresh and of a logout is what AuthService did with the token they
\* brought, and login(), which has that token too, is all that leaves it.
THEOREM NoSessionLeftBehind == Spec => []SessionsHeld
<1>1. TypeOK /\ SessionInv => SessionsHeld
  BY DEF SessionInv
<1> QED
  BY <1>1, SessionInvariant, PTL

==============================================================================
