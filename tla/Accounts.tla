------------------------------ MODULE Accounts ------------------------------
(***************************************************************************)
(* Signup, login, tokens, the user's own settings, the admin's edits of    *)
(* users, and KYC: src/backend/src/auth, users, kyc and the user part of   *)
(* admin/admin.service.ts.                                                 *)
(*                                                                         *)
(* No handler here runs in a transaction.  Each reads a row, awaits, and   *)
(* calls save() with the whole object it read: TypeORM compares it with    *)
(* the stored row and writes every column that differs, or inserts the row *)
(* if there is none.  Between two statements any other request may run.    *)
(* One action is one statement; save(), which is a SELECT and an UPDATE in *)
(* one transaction, is one statement behind the gate.                      *)
(*                                                                         *)
(* A request may fail at any statement: the database throws, or the        *)
(* process stops.  What it has written by then stays.                      *)
(***************************************************************************)
EXTENDS AccountRows, Sequences, FiniteSets

CONSTANTS
    Requests,     \* numbers of the requests the server works on at once
    MaxRequests,  \* bound: requests in a history
    Subjects,     \* bound: the users requests are about
    FirstUsers,   \* the users table when the history begins
    FirstTokens,  \* the tokens it has then, none of them used
    Nobody,       \* any user and password: what an idle request holds
    NoPassword

VARIABLES
    users,   \* the users table
    tokens,  \* the tokens table, in the order of insertion
    kyc,     \* the status column of the kyc table
    open,    \* the requests being worked on
    served,  \* how many there have been
    resets,  \* history: password resets completed, per user
    toggled, \* history: users an admin froze or unfroze by hand
    crossed, \* history: users of whom a row was saved that had changed since it was read
    bonuses  \* history: registration bonuses credited, per user

tables  == <<users, tokens, kyc>>
history == <<resets, toggled, crossed, bonuses>>
vars    == <<users, tokens, kyc, open, served, resets, toggled, crossed, bonuses>>

-----------------------------------------------------------------------------
(* Requests.                                                               *)

Stages == {"idle", "token", "lock", "punish", "consume", "user", "create",
           "mail", "bonus", "save", "issue", "revoke", "remove", "kyc",
           "openFile", "file"}

Request == [kind : Kinds, user : Users, at : Stages, tok : Nat,
            attempts : Nat,    \* of the token as it read it; consumedAt was null
            row : Row,         \* the user as it read it
            filed : KycStatus, \* the KYC status as it read it
            word : Passwords]  \* the password it comes with

NoRow == [state |-> "none", password |-> NoPassword, status |-> "AWAITING", freeze |-> TRUE,
          twoFactor |-> FALSE, verified |-> FALSE, role |-> "USER"]

Idle == [kind |-> "login", user |-> Nobody, at |-> "idle", tok |-> 0, attempts |-> 0,
         row |-> NoRow, filed |-> "NONE", word |-> NoPassword]

ASSUME AccountsOK ==
    /\ Requests \subseteq Nat /\ IsFiniteSet(Requests)
    /\ MaxRequests \in Nat /\ Subjects \subseteq Users
    /\ Nobody \in Users /\ NoPassword \in Passwords
    /\ FirstUsers \in [Users -> Row]
    /\ \A u \in Users : /\ FirstUsers[u].freeze <=> FirstUsers[u].status = "AWAITING"
                        /\ FirstUsers[u].state = "none" => FirstUsers[u] = NoRow
    /\ FirstTokens \in Seq(Token)
    /\ \A t \in DOMAIN FirstTokens :
          FirstTokens[t] = NewToken(FirstTokens[t].user, FirstTokens[t].type, 0, 0)

Present(u) == users[u].state = "present"

\* The next statement of request r, or its end.
Goto(r, stage) == open' = [open EXCEPT ![r].at = stage]
End(r)         == open' = [open EXCEPT ![r] = Idle]

\* JwtStrategy and RolesGuard read the caller's row as the request comes in;
\* an admin cannot demote or delete themselves.
Allowed(kind, u) ==
    /\ kind \in OwnKinds => Present(u)
    /\ kind \in AdminKinds =>
          \E a \in Users : /\ Present(a) /\ users[a].role = "ADMIN"
                           /\ kind \in {"demote", "deleteUser"} => a # u

FirstStage(kind) ==
    IF kind \in TokenKinds THEN "token" ELSE IF kind \in KycKinds THEN "kyc" ELSE "user"

Arrive(r, kind, u, t, word) ==
    /\ Allowed(kind, u)
    /\ open' = [open EXCEPT ![r] =
          [Idle EXCEPT !.kind = kind, !.user = u, !.at = FirstStage(kind),
                       !.tok = t, !.word = word]]
    /\ toggled' = IF kind \in {"freeze", "unfreeze"} THEN toggled \cup {u} ELSE toggled

\* Any request but a logout, under the lowest free number.  An address is not
\* used again once deleted.
Begin(r) ==
    /\ open[r].at = "idle" /\ \A p \in Requests : p < r => open[p].at # "idle"
    /\ served < MaxRequests
    /\ served' = served + 1
    /\ \E kind \in Kinds, word \in Passwords :
          /\ kind \in WordKinds \/ word = NoPassword
          /\ \/ /\ kind \notin TokenKinds
                /\ \E u \in Subjects : /\ kind = "signup" => users[u].state # "deleted"
                                       /\ Arrive(r, kind, u, 0, word)
             \/ /\ kind \in TokenKinds
                /\ \E t \in DOMAIN tokens : /\ tokens[t].type = TypeFor[kind]
                                            /\ Arrive(r, kind, tokens[t].user, t, word)
    /\ UNCHANGED <<tables, resets, crossed, bonuses>>

\* One conditional update: where the token is not consumed.
Logout(t) ==
    /\ served < MaxRequests
    /\ tokens[t].type = "REFRESH" /\ Valid(tokens[t])
    /\ tokens' = [tokens EXCEPT ![t].consumed = TRUE]
    /\ served' = served + 1
    /\ UNCHANGED <<users, kyc, open, history>>

\* Request q has done what link t is for and not yet consumed it.
Uses(q, t) == q.at = "consume" /\ q.kind \in LinkKinds /\ q.tok = t

\* The tokens when q ends before its time.
TokensLeft(q) == [t \in DOMAIN tokens |-> LeftOpen(tokens[t], Uses(q, t))]

\* A statement throws, or the process stops.
Fail(r) ==
    /\ open[r].at # "idle"
    /\ tokens' = TokensLeft(open[r])
    /\ End(r)
    /\ UNCHANGED <<users, kyc, served, history>>

-----------------------------------------------------------------------------
(* Tokens: read, compared, saved.                                          *)

\* What follows a valid token; of a code, whether it is the right one.
AfterToken(kind, t, right) ==
    IF kind \in LinkKinds THEN "user"
    ELSE IF kind = "verifyOtp" /\ t.attempts >= MaxOtpAttempts THEN "lock"
    ELSE IF kind = "verifyOtp" /\ ~right THEN "punish"
    ELSE "consume"

ReadToken(r) ==
    LET q == open[r]
        t == tokens[q.tok]
    IN  /\ q.at = "token"
        /\ \E right, expired \in BOOLEAN :
              LET stage == AfterToken(q.kind, t, right)
              IN  IF Valid(t) /\ ~expired
                  THEN open' = [open EXCEPT ![r].at = stage, ![r].attempts = t.attempts]
                  ELSE End(r)
        /\ UNCHANGED <<tables, served, history>>

\* Mutant of Saved: a refresh leaves consumedAt as it read it.
SavedByCode(t, q) ==
    [t EXCEPT !.consumed = q.kind # "refresh" /\ q.at # "punish", !.gone = FALSE,
              !.attempts = q.attempts + (IF q.at = "punish" THEN 1 ELSE 0)]

\* Mutant of Saved: a wrong code is not counted.
SavedUncounted(t, q) ==
    [t EXCEPT !.consumed = q.at # "punish", !.gone = FALSE,
              !.guesses = @ + (IF q.at = "punish" THEN 1 ELSE 0)]

\* The whole token as the request read it, but for what it sets.
Saved(t, q) ==
    [t EXCEPT !.consumed = q.at # "punish", !.gone = FALSE,
              !.attempts = q.attempts + (IF q.at = "punish" THEN 1 ELSE 0),
              !.guesses = @ + (IF q.at = "punish" THEN 1 ELSE 0)]

SaveToken(r) ==
    LET q == open[r]
        t == tokens[q.tok]
    IN  /\ q.at \in {"lock", "punish", "consume"}
        /\ IF t.gone /\ ~Present(q.user) \* no such user to refer to
           THEN End(r) /\ tokens' = TokensLeft(q) /\ UNCHANGED crossed
           ELSE /\ tokens' = [tokens EXCEPT ![q.tok] = Saved(t, q)]
                /\ crossed' = IF Valid(t) /\ t.attempts = q.attempts THEN crossed
                              ELSE crossed \cup {q.user}
                /\ IF q.at = "consume" /\ q.kind # "verifyEmail"
                   THEN Goto(r, IF q.kind = "resetPassword" THEN "revoke" ELSE "user")
                   ELSE End(r)
        /\ UNCHANGED <<users, kyc, served, resets, toggled, bonuses>>

-----------------------------------------------------------------------------
(* Users: read, edited, saved.                                             *)

\* What a handler does with the row it read; given is the current password a
\* change of password comes with.
AfterUser(kind, row, word, given) ==
    IF kind = "signup" THEN IF row.state = "present" THEN "idle" ELSE "create"
    ELSE IF \/ row.state # "present"
            \/ kind \in {"login", "adminLogin"} /\ word # row.password
            \/ kind = "adminLogin" /\ row.role # "ADMIN"
            \/ kind = "changePassword" /\ given # row.password
            \/ kind = "resendVerification" /\ row.verified
         THEN "idle"
    ELSE IF \/ kind \in {"forgotPassword", "resendVerification"}
            \/ kind = "login" /\ row.twoFactor
         THEN "issue"
    ELSE IF kind = "deleteUser" THEN "remove" ELSE "save"

ReadUser(r) ==
    LET q == open[r] IN
    /\ q.at = "user"
    /\ \E given \in Passwords :
          LET stage == AfterUser(q.kind, users[q.user], q.word, given)
          IN  IF stage = "idle" THEN End(r)
              ELSE open' = [open EXCEPT ![r].at = stage, ![r].row = users[q.user]]
    /\ UNCHANGED <<tables, served, history>>

\* Mutant of Create: the row is written over one with the same address.
CreateOver(r) ==
    LET q == open[r] IN
    /\ q.at = "create"
    /\ users' = [users EXCEPT ![q.user] = SignedUp("ACTIVE", q.word)]
    /\ open' = [open EXCEPT ![r].at = "mail", ![r].row = SignedUp("ACTIVE", q.word)]
    /\ UNCHANGED <<tokens, kyc, served, history>>

\* The insert of a signup; the address is unique.
Create(r) ==
    LET q == open[r] IN
    /\ q.at = "create"
    /\ IF users[q.user].state = "none"
       THEN \E status \in {"AWAITING", "ACTIVE"} : \* new_user_default_status
               /\ users' = [users EXCEPT ![q.user] = SignedUp(status, q.word)]
               /\ open' = [open EXCEPT ![r].at = "mail",
                                       ![r].row = SignedUp(status, q.word)]
       ELSE End(r) /\ UNCHANGED users
    /\ UNCHANGED <<tokens, kyc, served, history>>

\* creditSignupBonuses; an account that is gone has no wallet to credit.
Bonus(r) ==
    LET q == open[r] IN
    /\ q.at = "bonus"
    /\ IF Present(q.user)
       THEN Goto(r, "save") /\ bonuses' = [bonuses EXCEPT ![q.user] = @ + 1]
       ELSE End(r) /\ UNCHANGED bonuses
    /\ UNCHANGED <<tables, served, resets, toggled, crossed>>

\* Mutant of AfterSave: the link of a password reset is not consumed.
AfterSaveKeepsLink(kind) ==
    IF kind \in SessionKinds THEN "issue"
    ELSE IF kind = "resetPassword" THEN "revoke"
    ELSE IF kind = "verifyEmail" THEN "consume" ELSE "idle"

\* What follows the save of the user.
AfterSave(kind) ==
    IF kind \in SessionKinds THEN "issue"
    ELSE IF kind \in LinkKinds THEN "consume" ELSE "idle"

\* A link has its effect here.
SaveUser(r) ==
    LET q == open[r]
        stage == AfterSave(q.kind)
    IN  /\ q.at = "save"
        /\ users' = [users EXCEPT ![q.user] = Edited(q.kind, q.row, q.word)]
        /\ crossed' = IF users[q.user] = q.row THEN crossed ELSE crossed \cup {q.user}
        /\ tokens' = [t \in DOMAIN tokens |->
              Counted(tokens[t], q.kind \in LinkKinds /\ t = q.tok)]
        /\ IF stage = "idle" THEN End(r) ELSE Goto(r, stage)
        /\ UNCHANGED <<kyc, served, resets, toggled, bonuses>>

\* The row goes, and with it what refers to it.
Remove(r) ==
    LET u == open[r].user IN
    /\ open[r].at = "remove"
    /\ users' = [users EXCEPT ![u] = [NoRow EXCEPT !.state = "deleted"]]
    /\ tokens' = [t \in DOMAIN tokens |-> Dropped(tokens[t], u)]
    /\ kyc' = [kyc EXCEPT ![u] = "NONE"]
    /\ End(r)
    /\ UNCHANGED <<served, history>>

-----------------------------------------------------------------------------
(* Tokens: inserted, revoked.                                              *)

IssuedType(q) ==
    IF q.at = "mail" \/ q.kind = "resendVerification" THEN "EMAIL_VERIFICATION"
    ELSE IF q.kind = "forgotPassword" THEN "PASSWORD_RESET"
    ELSE IF q.kind = "login" /\ q.row.twoFactor THEN "TWO_FACTOR_OTP"
    ELSE "REFRESH"

\* The new token, and the use of the one it was given for, if any.
Issue(r) ==
    LET q == open[r] IN
    /\ q.at \in {"mail", "issue"}
    /\ IF Present(q.user)
       THEN /\ tokens' = Append([t \in DOMAIN tokens |-> Counted(tokens[t], t = q.tok)],
                                NewToken(q.user, IssuedType(q), q.tok, resets[q.user]))
            /\ IF q.at = "mail" THEN Goto(r, "bonus") ELSE End(r)
       ELSE End(r) /\ UNCHANGED tokens
    /\ UNCHANGED <<users, kyc, served, history>>

\* The last statement of a password reset: every session of the user ends.
Revoke(r) ==
    LET q == open[r] IN
    /\ q.at = "revoke"
    /\ tokens' = [t \in DOMAIN tokens |-> SessionEnded(tokens[t], q.user)]
    /\ resets' = [resets EXCEPT ![q.user] = @ + 1]
    /\ End(r)
    /\ UNCHANGED <<users, kyc, served, toggled, crossed, bonuses>>

-----------------------------------------------------------------------------
(* KYC.                                                                    *)

\* findForUser makes the row if there is none; a decision needs one.
ReadKyc(r) ==
    LET q == open[r]
        status == kyc[q.user]
    IN  /\ q.at = "kyc"
        /\ IF status = "NONE" /\ q.kind \in {"viewKyc", "submitKyc"} THEN Goto(r, "openFile")
           ELSE IF status = "NONE" \/ q.kind = "viewKyc" \/ ~Accepts(q.kind, status) THEN End(r)
           ELSE open' = [open EXCEPT ![r].at = "file", ![r].filed = status]
        /\ UNCHANGED <<tables, served, history>>

\* Its insert; there is one per user.
OpenFile(r) ==
    LET q == open[r] IN
    /\ q.at = "openFile"
    /\ IF Present(q.user) /\ kyc[q.user] = "NONE"
       THEN /\ kyc' = [kyc EXCEPT ![q.user] = "NOT_SUBMITTED"]
            /\ IF q.kind = "viewKyc" THEN End(r)
               ELSE open' = [open EXCEPT ![r].at = "file", ![r].filed = "NOT_SUBMITTED"]
       ELSE End(r) /\ UNCHANGED kyc
    /\ UNCHANGED <<users, tokens, served, history>>

SaveKyc(r) ==
    LET q == open[r] IN
    /\ q.at = "file"
    /\ IF Present(q.user)
       THEN /\ kyc' = [kyc EXCEPT ![q.user] = Filed[q.kind]]
            /\ crossed' = IF kyc[q.user] = q.filed THEN crossed ELSE crossed \cup {q.user}
       ELSE UNCHANGED <<kyc, crossed>>
    /\ End(r)
    /\ UNCHANGED <<users, tokens, served, resets, toggled, bonuses>>

-----------------------------------------------------------------------------
Init ==
    /\ users = FirstUsers
    /\ tokens = FirstTokens
    /\ kyc = [u \in Users |-> "NONE"]
    /\ open = [r \in Requests |-> Idle]
    /\ served = 0
    /\ resets = [u \in Users |-> 0]
    /\ toggled = {} /\ crossed = {}
    /\ bonuses = [u \in Users |-> 0]

Next ==
    \/ \E r \in Requests :
          \/ Begin(r) \/ Fail(r)
          \/ ReadToken(r) \/ SaveToken(r) \/ Issue(r) \/ Revoke(r)
          \/ ReadUser(r) \/ Create(r) \/ Bonus(r) \/ SaveUser(r) \/ Remove(r)
          \/ ReadKyc(r) \/ OpenFile(r) \/ SaveKyc(r)
    \/ \E t \in DOMAIN tokens : Logout(t)

Spec == Init /\ [][Next]_vars

-----------------------------------------------------------------------------
(* Properties, whatever requests overlap.                                  *)

TypeOK ==
    /\ users \in [Users -> Row]
    /\ tokens \in Seq(Token)
    /\ kyc \in [Users -> KycStatus]
    /\ open \in [Requests -> Request]
    /\ served \in 0..MaxRequests
    /\ resets \in [Users -> Nat]
    /\ toggled \subseteq Users /\ crossed \subseteq Users
    /\ bonuses \in [Users -> Nat]

\* An account no admin froze by hand is frozen exactly while it awaits
\* approval (the comment of txLimit in user.entity.ts): whole rows are saved,
\* so a stale save may undo an approval but never half of it.
FreezeFollowsStatus ==
    \A u \in Users \ toggled : users[u].freeze <=> users[u].status = "AWAITING"

\* A completed password reset ends every session opened before it, for good:
\* no refresh that was under way saves one of them back.
ResetEndsSessions ==
    \A t \in DOMAIN tokens : tokens[t].type = "REFRESH" =>
        \/ tokens[t].consumed \/ tokens[t].gone
        \/ tokens[t].born = resets[tokens[t].user]

\* A session token is dead before the one it was exchanged for exists, and
\* stays dead whatever is saved later.
DeadBeforeSuccessor ==
    \A t \in DOMAIN tokens : LET p == tokens[t].parent IN
        p # 0 /\ (tokens[p].type = "REFRESH" \/ tokens[p].user \notin crossed)
            => tokens[p].consumed \/ tokens[p].gone

\* Two signups with one address credit one registration bonus.
OneBonusPerAccount == \A u \in Users : bonuses[u] <= 1

(* Properties that hold until two requests cross on a row: one saves it as *)
(* it read it, and it has changed in between.                              *)

\* A code or a refresh token is good for one session, whatever fails.  A link
\* changes the account once, and once more for each request that saved the
\* user and ended before it saved the link: resetPassword and
\* verifyEmail do the one before the other, and a failure between them leaves
\* the link open.
UsedOnce ==
    \A t \in DOMAIN tokens :
        tokens[t].user \notin crossed /\ (\A r \in Requests : ~Uses(open[r], t))
            => tokens[t].uses <= 1 + tokens[t].lost

\* MAX_OTP_ATTEMPTS wrong guesses at most.
GuessesBounded ==
    \A t \in DOMAIN tokens :
        tokens[t].user \notin crossed => tokens[t].guesses <= MaxOtpAttempts

\* The handlers that may change a column.
Writers(column) ==
    CASE column = "state"     -> {"signup", "deleteUser"}
      [] column = "password"  -> {"signup", "changePassword", "resetPassword", "deleteUser"}
      [] column = "status"    -> {"signup", "deleteUser"} \cup DOMAIN StatusSet
      [] column = "freeze"    -> {"signup", "freeze", "unfreeze", "deleteUser"} \cup DOMAIN StatusSet
      [] column = "twoFactor" -> {"enable2fa", "disable2fa", "waive2fa", "deleteUser"}
      [] column = "verified"  -> {"verifyEmail", "verify", "unverify", "deleteUser"}
      [] column = "role"      -> {"promote", "demote", "deleteUser"}

\* What a handler set stays until a handler that sets it again: a login does
\* not undo a suspension, a deleted user does not come back.
ColumnsKept ==
    [][\A u \in Users : \A column \in DOMAIN users[u] :
          users'[u][column] # users[u][column] =>
              \/ u \in crossed'
              \/ \E r \in Requests : /\ open[r].user = u /\ open[r].kind \in Writers(column)
                                     /\ open'[r] # open[r]]_vars

\* An approved KYC file stays approved unless an admin rejects it.
ApprovalKept ==
    [][\A u \in Users : kyc[u] = "APPROVED" =>
          u \in crossed' \/ kyc'[u] \in {"APPROVED", "REJECTED"} \/ users'[u].state = "deleted"]_vars

=============================================================================
