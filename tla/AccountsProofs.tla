--------------------------- MODULE AccountsProofs ---------------------------
(* What holds of Accounts for any users, first rows, tokens and passwords, *)
(* any finite number of requests at once, any number in a history, and any *)
(* MaxOtpAttempts.                                                         *)
EXTENDS Accounts, SequenceTheorems, FiniteSetTheorems, TLAPS

-----------------------------------------------------------------------------
(* The invariant.                                                          *)

\* The kinds of request that pass through a stage.
KindsAt ==
    [idle |-> {"login"}, token |-> TokenKinds, lock |-> {"verifyOtp"}, punish |-> {"verifyOtp"},
     consume |-> TokenKinds, user |-> Kinds \ KycKinds,
     create |-> {"signup"}, mail |-> {"signup"}, bonus |-> {"signup"},
     save |-> Kinds \ (KycKinds \cup {"forgotPassword", "resendVerification", "deleteUser"}),
     issue |-> SessionKinds \cup {"forgotPassword", "resendVerification"},
     revoke |-> {"resetPassword"}, remove |-> {"deleteUser"},
     kyc |-> KycKinds, openFile |-> {"viewKyc", "submitKyc"}, file |-> DOMAIN Filed]

\* A request that came with a token has one of its user and of its type.
HasToken(q) ==
    IF q.kind \in TokenKinds
    THEN /\ q.tok \in DOMAIN tokens
         /\ tokens[q.tok].user = q.user
         /\ tokens[q.tok].type = TypeFor[q.kind]
    ELSE q.tok = 0

Shaped == \A r \in Requests : open[r].kind \in KindsAt[open[r].at] /\ HasToken(open[r])

Typed == TypeOK /\ Shaped

\* The row a request holds is as freezing left it, and can be saved.
RowHeld(q) ==
    /\ q.kind \in {"freeze", "unfreeze"} => q.user \in toggled
    /\ q.user \in toggled \/ (q.row.freeze <=> q.row.status = "AWAITING")
    /\ q.at \in {"mail", "bonus", "save"} => q.row.state = "present"
    /\ q.at = "file" => Accepts(q.kind, q.filed)

RowsHeld == \A r \in Requests : RowHeld(open[r])

\* An address without an account has nothing else either.
NoneIsBlank == \A u \in Users : users[u].state = "none" => users[u] = NoRow

Dead(t) == t.consumed \/ t.gone

\* A request that has consumed its token and not yet done what it is for.
Spends(q) == q.kind \in {"verifyOtp", "refresh"} /\ q.at \in {"user", "save", "issue"}

\* The tokens that stand for a session.
Codes == {"TWO_FACTOR_OTP", "REFRESH"}

SpentIsDead ==
    \A r \in Requests : LET q == open[r] IN
        Spends(q) /\ (q.kind = "refresh" \/ q.user \notin crossed) => Dead(tokens[q.tok])

ParentIsDead ==
    \A t \in DOMAIN tokens : LET p == tokens[t].parent IN
        p # 0 => /\ p \in DOMAIN tokens
                 /\ tokens[p].type = "REFRESH" \/ tokens[p].user \notin crossed => Dead(tokens[p])

\* A code nobody crossed on is spent by one request, and then not used yet.
SpentByOne ==
    \A r \in Requests : Spends(open[r]) /\ open[r].user \notin crossed =>
        /\ tokens[open[r].tok].uses = 0
        /\ \A p \in Requests : Spends(open[p]) /\ open[p].tok = open[r].tok => p = r

UsedIsDead ==
    \A t \in DOMAIN tokens : tokens[t].type \in Codes /\ tokens[t].user \notin crossed =>
        tokens[t].uses <= 1 /\ (tokens[t].uses = 1 => Dead(tokens[t]))

\* The requests that have used a link and not saved it yet.
UsedBy(t) == {r \in Requests : Uses(open[r], t)}

\* Every use of a link but one is still under way or lost; that one killed it.
LinkUses ==
    \A t \in DOMAIN tokens : tokens[t].type \notin Codes /\ tokens[t].user \notin crossed =>
        tokens[t].uses <= tokens[t].lost + Cardinality(UsedBy(t))
                             + (IF Dead(tokens[t]) THEN 1 ELSE 0)

\* attempts counts the wrong codes of a token nobody crossed on.
AttemptsCount ==
    /\ \A t \in DOMAIN tokens : tokens[t].user \notin crossed =>
          tokens[t].guesses = tokens[t].attempts /\ tokens[t].attempts <= MaxOtpAttempts
    /\ \A r \in Requests : open[r].at = "punish" => open[r].attempts < MaxOtpAttempts

\* A signup between its insert and its bonus is the only one of its address.
SignsUp(q) == q.at \in {"mail", "bonus"}

OneSignup ==
    /\ \A r \in Requests : SignsUp(open[r]) =>
          /\ users[open[r].user].state # "none"
          /\ bonuses[open[r].user] = 0
          /\ \A p \in Requests : SignsUp(open[p]) /\ open[p].user = open[r].user => p = r
    /\ \A u \in Users : bonuses[u] <= 1 /\ (bonuses[u] = 1 => users[u].state # "none")

-----------------------------------------------------------------------------
(* Types.                                                                  *)

\* A sequence touched in place stays one.
LEMMA Retouched ==
    ASSUME NEW S, NEW s \in Seq(S), NEW f,
           f = [i \in DOMAIN s |-> f[i]], \A i \in DOMAIN s : f[i] \in S
    PROVE  f \in Seq(S) /\ Len(f) = Len(s) /\ DOMAIN f = DOMAIN s
<1>1. DOMAIN s = 1 .. Len(s) /\ Len(s) \in Nat
  OBVIOUS
<1>2. f \in [1 .. Len(s) -> S]
  BY <1>1
<1> QED
  BY <1>1, <1>2, SeqDef

LEMMA RowTypes ==
    /\ NoRow \in Row /\ Idle \in Request
    /\ \A status \in {"AWAITING", "ACTIVE"}, word \in Passwords : SignedUp(status, word) \in Row
    /\ \A kind \in Kinds, row \in Row, word \in Passwords : Edited(kind, row, word) \in Row
<1> USE AccountsOK
<1>1. NoRow \in Row
  BY DEF NoRow, Row
<1>2. Idle \in Request
  BY <1>1 DEF Idle, Request, Stages, KycStatus, Kinds, PublicKinds
<1>3. ASSUME NEW status \in {"AWAITING", "ACTIVE"}, NEW word \in Passwords
      PROVE  SignedUp(status, word) \in Row
  BY DEF SignedUp, Row
<1>4. ASSUME NEW kind \in Kinds, NEW row \in Row, NEW word \in Passwords
      PROVE  Edited(kind, row, word) \in Row
  <2>1. kind \in DOMAIN StatusSet => StatusSet[kind] \in {"AWAITING", "ACTIVE", "SUSPENDED"}
    BY DEF StatusSet
  <2>2. Freezes(kind, row) \in BOOLEAN
    BY DEF Freezes, Row
  <2>3. \A raises, clears, old : Flag(kind, raises, clears, old) \in BOOLEAN
    BY DEF Flag
  <2> QED
    BY <2>1, <2>2, <2>3 DEF Edited, Row
<1> QED
  BY <1>1, <1>2, <1>3, <1>4

LEMMA TypeInit == Init => Typed
<1> SUFFICES ASSUME Init PROVE Typed
  OBVIOUS
<1> USE AccountsOK DEF Init
<1>1. TypeOK
  BY RowTypes DEF TypeOK, KycStatus
<1>2. Shaped
  BY DEF Shaped, Idle, KindsAt, HasToken, TokenKinds
<1> QED
  BY <1>1, <1>2 DEF Typed

\* What a step never changes in the tokens there are.
TokensStay ==
    /\ tokens' \in Seq(Token)
    /\ DOMAIN tokens \subseteq DOMAIN tokens'
    /\ \A t \in DOMAIN tokens :
          /\ tokens'[t].user = tokens[t].user /\ tokens'[t].type = tokens[t].type
          /\ tokens'[t].parent = tokens[t].parent /\ tokens'[t].born = tokens[t].born

LEMMA NewTokenType ==
    ASSUME NEW u \in Users, NEW type \in TokenTypes, NEW parent \in Nat, NEW born \in Nat
    PROVE  NewToken(u, type, parent, born) \in Token
BY DEF NewToken, Token

\* What the edits of a token do to it.
LEMMA TokenEdits ==
    \A t \in Token, u \in Users :
      /\ SessionEnded(t, u) \in Token /\ Dropped(t, u) \in Token
      /\ [t EXCEPT !.consumed = TRUE] \in Token
      /\ \A used \in BOOLEAN : Counted(t, used) \in Token /\ LeftOpen(t, used) \in Token
<1>1. \A t \in Token, u \in Users : SessionEnded(t, u) \in Token
  BY DEF SessionEnded, Token, Open
<1>2. \A t \in Token, u \in Users : Dropped(t, u) \in Token
  BY DEF Dropped, Token
<1>3. \A t \in Token : [t EXCEPT !.consumed = TRUE] \in Token
  BY DEF Token
<1>4. \A t \in Token, used \in BOOLEAN : Counted(t, used) \in Token
  BY DEF Counted, Token
<1>5. \A t \in Token, ended \in BOOLEAN : LeftOpen(t, ended) \in Token
  BY DEF LeftOpen, Token
<1> QED
  BY <1>1, <1>2, <1>3, <1>4, <1>5

LEMMA SavedType ==
    ASSUME NEW t \in Token, NEW q \in Request
    PROVE  Saved(t, q) \in Token
<1> DEFINE t1 == [t EXCEPT !.consumed = q.at # "punish"]
           t2 == [t1 EXCEPT !.gone = FALSE]
           t3 == [t2 EXCEPT !.attempts = q.attempts + (IF q.at = "punish" THEN 1 ELSE 0)]
           t4 == [t3 EXCEPT !.guesses = @ + (IF q.at = "punish" THEN 1 ELSE 0)]
<1>1. t1 \in Token
  BY DEF Token
<1>2. t2 \in Token
  <2> HIDE DEF t1
  <2> QED
    BY <1>1 DEF Token
<1>3. t3 \in Token
  <2>1. q.attempts + (IF q.at = "punish" THEN 1 ELSE 0) \in Nat
    BY DEF Request
  <2> HIDE DEF t2
  <2> QED
    BY <1>2, <2>1 DEF Token
<1>4. t4 \in Token
  <2> HIDE DEF t3
  <2> QED
    BY <1>3 DEF Token
<1>5. Saved(t, q) = t4
  BY DEF Saved, Token
<1> QED
  BY <1>4, <1>5

LEMMA TokensStep == Typed /\ [Next]_vars => TokensStay
<1> SUFFICES ASSUME Typed, [Next]_vars PROVE TokensStay
  OBVIOUS
<1> DEFINE Same(t, s) == /\ s.user = t.user /\ s.type = t.type
                         /\ s.parent = t.parent /\ s.born = t.born
<1>1. tokens \in Seq(Token) /\ \A t \in DOMAIN tokens : tokens[t] \in Token
  BY DEF Typed, TypeOK
<1>2. \A r \in Requests : /\ open[r] \in Request /\ open[r].user \in Users
                          /\ open[r].tok \in Nat
  BY DEF Typed, TypeOK, Request
<1>3. ASSUME tokens' = [t \in DOMAIN tokens |-> tokens'[t]],
             \A t \in DOMAIN tokens : tokens'[t] \in Token /\ Same(tokens[t], tokens'[t])
      PROVE  TokensStay
  <2>1. tokens' \in Seq(Token) /\ DOMAIN tokens' = DOMAIN tokens
    BY <1>1, <1>3, Retouched
  <2> QED
    BY <1>3, <2>1 DEF TokensStay
<1>4. ASSUME UNCHANGED tokens
      PROVE  TokensStay
  BY <1>1, <1>4 DEF TokensStay
\* The edits leave these columns alone.
<1>5. \A t \in Token, u \in Users, used \in BOOLEAN :
         /\ Same(t, SessionEnded(t, u)) /\ Same(t, Dropped(t, u)) /\ Same(t, Counted(t, used))
         /\ Same(t, LeftOpen(t, used)) /\ Same(t, [t EXCEPT !.consumed = TRUE])
  BY DEF SessionEnded, Dropped, Counted, LeftOpen, Token
<1>6. \A t \in Token, q \in Request : Same(t, Saved(t, q))
  BY DEF Saved, Token
<1> HIDE DEF Same
<1>14. ASSUME NEW r \in Requests, tokens' = TokensLeft(open[r])
       PROVE  TokensStay
  <2>1. /\ tokens' = [i \in DOMAIN tokens |-> tokens'[i]]
        /\ \A i \in DOMAIN tokens :
              /\ tokens'[i] = LeftOpen(tokens[i], Uses(open[r], i))
              /\ Uses(open[r], i) \in BOOLEAN
    BY <1>14 DEF TokensLeft, Uses
  <2> QED
    BY <1>1, <1>2, <1>3, <1>5, <2>1, TokenEdits
<1>15. ASSUME NEW r \in Requests, SaveUser(r)
       PROVE  TokensStay
  <2> DEFINE used(i) == open[r].kind \in LinkKinds /\ i = open[r].tok
  <2>1. /\ tokens' = [i \in DOMAIN tokens |-> tokens'[i]]
        /\ \A i \in DOMAIN tokens :
              tokens'[i] = Counted(tokens[i], used(i)) /\ used(i) \in BOOLEAN
    BY <1>15 DEF SaveUser
  <2> HIDE DEF used
  <2> QED
    BY <1>1, <1>2, <1>3, <1>5, <2>1, TokenEdits
<1>7. ASSUME NEW t \in DOMAIN tokens, Logout(t)
      PROVE  TokensStay
  <2>1. \A i \in DOMAIN tokens :
           tokens'[i] = IF i = t THEN [tokens[t] EXCEPT !.consumed = TRUE] ELSE tokens[i]
    BY <1>7 DEF Logout
  <2>2. tokens' = [i \in DOMAIN tokens |-> tokens'[i]]
    BY <1>7 DEF Logout
  <2>3. /\ [tokens[t] EXCEPT !.consumed = TRUE] \in Token
        /\ Same(tokens[t], [tokens[t] EXCEPT !.consumed = TRUE])
    BY <1>1, <1>5, <1>7, TokenEdits DEF Token
  <2> QED
    BY <1>1, <1>3, <2>1, <2>2, <2>3 DEF Same
<1>8. ASSUME NEW r \in Requests, SaveToken(r)
      PROVE  TokensStay
  <2> DEFINE q == open[r]
  <2>1. CASE tokens' = [tokens EXCEPT ![q.tok] = Saved(tokens[q.tok], q)]
    <3>1. \A i \in DOMAIN tokens :
             tokens'[i] = IF i = q.tok THEN Saved(tokens[i], q) ELSE tokens[i]
      BY <2>1
    <3>2. tokens' = [i \in DOMAIN tokens |-> tokens'[i]]
      BY <2>1
    <3>3. \A i \in DOMAIN tokens : /\ Saved(tokens[i], q) \in Token
                                   /\ Same(tokens[i], Saved(tokens[i], q))
      BY <1>1, <1>2, <1>6, SavedType
    <3> QED
      BY <1>1, <1>3, <3>1, <3>2, <3>3 DEF Same
  <2> QED
    BY <1>8, <1>14, <2>1 DEF SaveToken
<1>9. ASSUME NEW r \in Requests, Remove(r)
      PROVE  TokensStay
  <2>1. /\ tokens' = [i \in DOMAIN tokens |-> tokens'[i]]
        /\ \A i \in DOMAIN tokens : tokens'[i] = Dropped(tokens[i], open[r].user)
    BY <1>9 DEF Remove
  <2> QED
    BY <1>1, <1>2, <1>3, <1>5, <2>1, TokenEdits
<1>10. ASSUME NEW r \in Requests, Issue(r)
       PROVE  TokensStay
  <2> DEFINE q == open[r]
             f == [t \in DOMAIN tokens |-> Counted(tokens[t], t = q.tok)]
             new == NewToken(q.user, IssuedType(q), q.tok, resets[q.user])
  <2>1. CASE tokens' = Append(f, new)
    <3>1. new \in Token
      <4>1. q.user \in Users /\ q.tok \in Nat /\ resets[q.user] \in Nat
        BY <1>2 DEF Typed, TypeOK
      <4>2. IssuedType(q) \in TokenTypes
        BY DEF IssuedType, TokenTypes
      <4> QED
        BY <4>1, <4>2, NewTokenType
    <3>2. \A i \in DOMAIN tokens : f[i] \in Token /\ Same(tokens[i], f[i])
      <4>1. \A i \in DOMAIN tokens : (i = q.tok) \in BOOLEAN
        OBVIOUS
      <4>2. \E u : u \in Users
        BY <1>2
      <4> QED
        BY <1>1, <1>5, <4>1, <4>2, TokenEdits
    <3>3. f \in Seq(Token) /\ Len(f) = Len(tokens) /\ DOMAIN f = DOMAIN tokens
      BY <1>1, <3>2, Retouched
    <3> HIDE DEF f, new
    <3>4. tokens' \in Seq(Token) /\ \A i \in DOMAIN tokens : tokens'[i] = f[i] /\ i \in DOMAIN tokens'
      BY <2>1, <3>1, <3>3
    <3> QED
      BY <3>2, <3>4 DEF Same, TokensStay
  <2> QED
    BY <1>4, <1>10, <2>1 DEF Issue
<1>11. ASSUME NEW r \in Requests, Revoke(r)
       PROVE  TokensStay
  <2>1. /\ tokens' = [i \in DOMAIN tokens |-> tokens'[i]]
        /\ \A i \in DOMAIN tokens : tokens'[i] = SessionEnded(tokens[i], open[r].user)
    BY <1>11 DEF Revoke
  <2> QED
    BY <1>1, <1>2, <1>3, <1>5, <2>1, TokenEdits
<1>12. ASSUME NEW r \in Requests,
             \/ Begin(r) \/ ReadToken(r) \/ ReadUser(r) \/ Create(r) \/ Bonus(r)
             \/ ReadKyc(r) \/ OpenFile(r) \/ SaveKyc(r)
      PROVE  TokensStay
  BY <1>12, <1>4 DEF Begin, ReadToken, ReadUser, Create, Bonus, ReadKyc, OpenFile, SaveKyc,
     tables
<1>13. CASE UNCHANGED vars
  BY <1>13, <1>4 DEF vars
<1> QED
  BY <1>7, <1>8, <1>9, <1>10, <1>11, <1>12, <1>13, <1>14, <1>15 DEF Next, Fail

\* What the edits of a request do to it.
LEMMA RequestEdits ==
    ASSUME NEW q \in Request, NEW stage \in Stages, NEW row \in Row, NEW n \in Nat,
           NEW status \in KycStatus
    PROVE  /\ [q EXCEPT !.at = stage] \in Request
           /\ [q EXCEPT !.at = stage, !.row = row] \in Request
           /\ [q EXCEPT !.at = stage, !.attempts = n] \in Request
           /\ [q EXCEPT !.at = stage, !.filed = status] \in Request
<1> DEFINE p == [q EXCEPT !.at = stage]
<1>1. p \in Request
  BY DEF Request
<1>2. \A x \in Request : /\ [x EXCEPT !.row = row] \in Request
                         /\ [x EXCEPT !.attempts = n] \in Request
                         /\ [x EXCEPT !.filed = status] \in Request
  BY DEF Request
<1>3. /\ [p EXCEPT !.row = row] \in Request
      /\ [p EXCEPT !.attempts = n] \in Request
      /\ [p EXCEPT !.filed = status] \in Request
  BY <1>1, <1>2
<1> QED
  BY <1>1, <1>3

\* A request arrives in one piece.
LEMMA ArrivalType ==
    ASSUME NEW kind \in Kinds, NEW u \in Users, NEW stage \in Stages, NEW t \in Nat,
           NEW word \in Passwords
    PROVE  [Idle EXCEPT !.kind = kind, !.user = u, !.at = stage, !.tok = t, !.word = word]
              \in Request
<1> DEFINE q1 == [Idle EXCEPT !.kind = kind]
           q2 == [q1 EXCEPT !.user = u]
           q3 == [q2 EXCEPT !.at = stage]
           q4 == [q3 EXCEPT !.tok = t]
<1>1. \A q \in Request : /\ [q EXCEPT !.kind = kind] \in Request
                         /\ [q EXCEPT !.user = u] \in Request
                         /\ [q EXCEPT !.at = stage] \in Request
                         /\ [q EXCEPT !.tok = t] \in Request
                         /\ [q EXCEPT !.word = word] \in Request
  BY DEF Request
<1>2. q1 \in Request
  BY <1>1, RowTypes
<1>3. q2 \in Request
  BY <1>1, <1>2
<1>4. q3 \in Request
  BY <1>1, <1>3
<1>5. q4 \in Request
  BY <1>1, <1>4
<1>6. [q4 EXCEPT !.word = word] \in Request
  BY <1>1, <1>5
<1> QED
  BY <1>6

\* Every request but r stays as it is, r ends or goes from one stage to another.
Moves(r) ==
    LET q == open'[r] IN
    /\ open' = [open EXCEPT ![r] = q]
    /\ \/ q = Idle
       \/ /\ q \in Request
          /\ q.kind = open[r].kind /\ q.user = open[r].user /\ q.tok = open[r].tok
          /\ q.kind \in KindsAt[q.at]

LEMMA RequestsStep ==
    ASSUME Typed, NEW r \in Requests, [Next]_vars, Moves(r)
    PROVE  open' \in [Requests -> Request] /\ Shaped'
<1> USE AccountsOK
<1>1. TokensStay
  BY TokensStep
<1>2. /\ open \in [Requests -> Request]
      /\ \A p \in Requests : open[p].kind \in KindsAt[open[p].at] /\ HasToken(open[p])
  BY DEF Typed, TypeOK, Shaped
<1>3. Idle \in Request /\ Idle.kind \in KindsAt[Idle.at] /\ HasToken(Idle)'
  BY RowTypes DEF Idle, KindsAt, HasToken, TokenKinds
<1>4. open' \in [Requests -> Request]
  BY <1>2, <1>3 DEF Moves
<1>5. ASSUME NEW p \in Requests
      PROVE  HasToken(open[p])' /\ open'[p].kind \in KindsAt[open'[p].at]
  <2>1. CASE p # r \/ open'[r] # Idle
    <3>1. /\ open'[p].kind = open[p].kind /\ open'[p].user = open[p].user
          /\ open'[p].tok = open[p].tok /\ open'[p].kind \in KindsAt[open'[p].at]
      BY <1>2, <2>1 DEF Moves
    <3>2. CASE open[p].kind \in TokenKinds
      <4>1. open[p].tok \in DOMAIN tokens /\ tokens[open[p].tok].user = open[p].user
            /\ tokens[open[p].tok].type = TypeFor[open[p].kind]
        BY <1>2, <3>2 DEF HasToken
      <4>2. open[p].tok \in DOMAIN tokens' /\ tokens'[open[p].tok].user = open[p].user
            /\ tokens'[open[p].tok].type = TypeFor[open[p].kind]
        BY <1>1, <4>1 DEF TokensStay
      <4> QED
        BY <3>1, <3>2, <4>2 DEF HasToken
    <3>3. CASE open[p].kind \notin TokenKinds
      BY <1>2, <3>1, <3>3 DEF HasToken
    <3> QED
      BY <3>1, <3>2, <3>3
  <2>2. CASE p = r /\ open'[r] = Idle
    BY <1>3, <2>2 DEF HasToken
  <2> QED
    BY <2>1, <2>2
<1> QED
  BY <1>4, <1>5 DEF Shaped

\* The requests move along their stages.
LEMMA StagesStep ==
    ASSUME Typed, NEW r \in Requests,
           \/ Fail(r) \/ ReadToken(r) \/ SaveToken(r) \/ Issue(r) \/ Revoke(r) \/ ReadUser(r)
           \/ Create(r) \/ Bonus(r) \/ SaveUser(r) \/ Remove(r) \/ ReadKyc(r) \/ OpenFile(r)
           \/ SaveKyc(r)
    PROVE  Moves(r)
<1> USE AccountsOK
<1> DEFINE q == open[r]
<1>1. /\ open \in [Requests -> Request] /\ q \in Request
      /\ q.kind \in KindsAt[q.at] /\ q.kind \in Kinds /\ q.at \in Stages
      /\ users[q.user] \in Row /\ kyc[q.user] \in KycStatus
      /\ HasToken(q)
  BY DEF Typed, TypeOK, Shaped, Request
<1>2. ASSUME End(r) PROVE Moves(r)
  BY <1>1, <1>2 DEF Moves, End
<1>3. ASSUME NEW stage \in Stages, q.kind \in KindsAt[stage], Goto(r, stage)
      PROVE  Moves(r)
  <2>1. open'[r] = [q EXCEPT !.at = stage] /\ open' = [open EXCEPT ![r] = open'[r]]
    BY <1>1, <1>3 DEF Goto
  <2>2. [q EXCEPT !.at = stage] \in Request
    BY <1>1, RequestEdits, RowTypes
  <2> QED
    BY <1>1, <1>3, <2>1, <2>2 DEF Moves, Request
<1>4. ASSUME NEW stage \in Stages, NEW row \in Row, q.kind \in KindsAt[stage],
             open' = [open EXCEPT ![r].at = stage, ![r].row = row]
      PROVE  Moves(r)
  <2>1. open'[r] = [q EXCEPT !.at = stage, !.row = row] /\ open' = [open EXCEPT ![r] = open'[r]]
    BY <1>1, <1>4
  <2>2. [q EXCEPT !.at = stage, !.row = row] \in Request
    BY <1>1, RequestEdits
  <2> QED
    BY <1>1, <1>4, <2>1, <2>2 DEF Moves, Request
<1>5. ASSUME NEW status \in KycStatus, q.kind \in KindsAt["file"],
             open' = [open EXCEPT ![r].at = "file", ![r].filed = status]
      PROVE  Moves(r)
  <2>1. open'[r] = [q EXCEPT !.at = "file", !.filed = status]
        /\ open' = [open EXCEPT ![r] = open'[r]]
    BY <1>1, <1>5
  <2>2. [q EXCEPT !.at = "file", !.filed = status] \in Request
    BY <1>1, RequestEdits, RowTypes DEF Stages
  <2> QED
    BY <1>1, <1>5, <2>1, <2>2 DEF Moves, Request
<1>6. CASE ReadToken(r)
  <2> DEFINE t == tokens[q.tok]
  <2>1. q.kind \in TokenKinds
    BY <1>1, <1>6 DEF ReadToken, KindsAt
  <2>2. t.attempts \in Nat
    <3>1. q.tok \in DOMAIN tokens
      BY <1>1, <2>1 DEF HasToken
    <3>2. t \in Token
      BY <3>1 DEF Typed, TypeOK
    <3> QED
      BY <3>2 DEF Token
  <2>3. ASSUME NEW right \in BOOLEAN, NEW stage, stage = AfterToken(q.kind, t, right),
               open' = [open EXCEPT ![r].at = stage, ![r].attempts = t.attempts]
        PROVE  Moves(r)
    <3>1. stage \in Stages /\ q.kind \in KindsAt[stage]
      BY <2>1, <2>3 DEF AfterToken, TokenKinds, KindsAt, Stages, Kinds, KycKinds
    <3>2. open'[r] = [q EXCEPT !.at = stage, !.attempts = t.attempts]
          /\ open' = [open EXCEPT ![r] = open'[r]]
      BY <1>1, <2>3
    <3>3. [q EXCEPT !.at = stage, !.attempts = t.attempts] \in Request
      BY <1>1, <2>2, <3>1, RequestEdits
    <3> QED
      BY <1>1, <3>1, <3>2, <3>3 DEF Moves, Request
  <2> QED
    BY <1>2, <1>6, <2>3 DEF ReadToken
<1>7. CASE SaveToken(r)
  BY <1>1, <1>2, <1>3, <1>7 DEF SaveToken, KindsAt, Stages, TokenKinds, KycKinds
<1>8. CASE ReadUser(r)
  <2>1. q.kind \in Kinds \ KycKinds
    BY <1>1, <1>8 DEF ReadUser, KindsAt
  <2>2. ASSUME NEW given \in Passwords, NEW stage,
               stage = AfterUser(q.kind, users[q.user], q.word, given), stage # "idle"
        PROVE  stage \in Stages /\ q.kind \in KindsAt[stage]
    BY <2>1, <2>2 DEF AfterUser, KindsAt, Stages, SessionKinds
  <2>3. PICK given \in Passwords :
           LET stage == AfterUser(q.kind, users[q.user], q.word, given)
           IN  IF stage = "idle" THEN End(r)
               ELSE open' = [open EXCEPT ![r].at = stage, ![r].row = users[q.user]]
    BY <1>8 DEF ReadUser
  <2> QED
    BY <1>1, <1>2, <1>4, <2>2, <2>3
<1>9. CASE Create(r)
  <2>1. q.kind \in KindsAt["mail"] /\ "mail" \in Stages
    BY <1>1, <1>9 DEF Create, KindsAt, Stages
  <2>2. q.word \in Passwords
    BY <1>1 DEF Request
  <2> QED
    BY <1>1, <1>2, <1>4, <1>9, <2>1, <2>2, RowTypes DEF Create
<1>10. CASE Issue(r) \/ Bonus(r) \/ Revoke(r) \/ Remove(r) \/ Fail(r) \/ SaveKyc(r)
  BY <1>1, <1>2, <1>3, <1>10 DEF Issue, Bonus, Revoke, Remove, Fail, SaveKyc, KindsAt, Stages,
     Kinds, PublicKinds, KycKinds, TokenKinds, SessionKinds
<1>11. CASE SaveUser(r)
  <2>1. AfterSave(q.kind) # "idle" =>
           AfterSave(q.kind) \in Stages /\ q.kind \in KindsAt[AfterSave(q.kind)]
    BY <1>1, <1>11 DEF SaveUser, AfterSave, KindsAt, Stages, SessionKinds, TokenKinds, LinkKinds
  <2> QED
    BY <1>2, <1>3, <1>11, <2>1 DEF SaveUser
<1>12. CASE ReadKyc(r)
  <2>1. q.kind \in KycKinds
    BY <1>1, <1>12 DEF ReadKyc, KindsAt
  <2> QED
    BY <1>1, <1>2, <1>3, <1>5, <1>12, <2>1 DEF ReadKyc, KindsAt, Stages, KycKinds, Filed
<1>13. CASE OpenFile(r)
  <2>1. q.kind \in {"viewKyc", "submitKyc"} /\ "NOT_SUBMITTED" \in KycStatus
    BY <1>1, <1>13 DEF OpenFile, KindsAt, KycStatus
  <2>2. q.kind # "viewKyc" => q.kind \in KindsAt["file"]
    BY <2>1 DEF KindsAt, Filed
  <2>3. \/ End(r)
        \/ /\ q.kind # "viewKyc"
           /\ open' = [open EXCEPT ![r].at = "file", ![r].filed = "NOT_SUBMITTED"]
    BY <1>13 DEF OpenFile
  <2> QED
    BY <1>2, <1>5, <2>1, <2>2, <2>3
<1> QED
  BY <1>6, <1>7, <1>8, <1>9, <1>10, <1>11, <1>12, <1>13

\* A request that comes in, and where it comes from.
LEMMA BeginStep ==
    ASSUME Typed, NEW r \in Requests, Begin(r)
    PROVE  LET q == open'[r] IN
           /\ open' = [open EXCEPT ![r] = q]
           /\ q \in Request /\ q.kind \in KindsAt[q.at] /\ HasToken(q)
           /\ q.at = FirstStage(q.kind) /\ q.row = NoRow /\ q.user \in Users
           /\ toggled' = IF q.kind \in {"freeze", "unfreeze"} THEN toggled \cup {q.user}
                         ELSE toggled
<1> USE AccountsOK
<1>1. PICK kind \in Kinds, word \in Passwords :
        \/ /\ kind \notin TokenKinds
           /\ \E u \in Subjects : Arrive(r, kind, u, 0, word)
        \/ /\ kind \in TokenKinds
           /\ \E t \in DOMAIN tokens : /\ tokens[t].type = TypeFor[kind]
                                       /\ Arrive(r, kind, tokens[t].user, t, word)
  BY DEF Begin
<1>2. PICK u \in Users, t \in Nat :
        /\ Arrive(r, kind, u, t, word)
        /\ IF kind \in TokenKinds
           THEN t \in DOMAIN tokens /\ tokens[t].user = u /\ tokens[t].type = TypeFor[kind]
           ELSE t = 0
  <2>1. \A i \in DOMAIN tokens : tokens[i].user \in Users /\ i \in Nat
    <3>1. \A i \in DOMAIN tokens : tokens[i] \in Token /\ i \in Nat
      BY DEF Typed, TypeOK
    <3> QED
      BY <3>1 DEF Token
  <2> QED
    BY <1>1, <2>1
<1> DEFINE q == [Idle EXCEPT !.kind = kind, !.user = u, !.at = FirstStage(kind),
                             !.tok = t, !.word = word]
<1>3. FirstStage(kind) \in Stages /\ kind \in KindsAt[FirstStage(kind)]
  BY DEF FirstStage, Stages, KindsAt, TokenKinds, KycKinds
<1>4. q \in Request
  BY <1>3, ArrivalType
<1>5. /\ q.kind = kind /\ q.user = u /\ q.tok = t /\ q.at = FirstStage(kind)
      /\ q.row = NoRow
  BY DEF Idle
<1>6. HasToken(q)
  BY <1>2, <1>5 DEF HasToken
<1>7. /\ open' = [open EXCEPT ![r] = q] /\ open'[r] = q
      /\ toggled' = IF kind \in {"freeze", "unfreeze"} THEN toggled \cup {u} ELSE toggled
  BY <1>2 DEF Arrive, Typed, TypeOK
<1> HIDE DEF q
<1> QED
  BY <1>3, <1>4, <1>5, <1>6, <1>7

\* The tables other than tokens, and the history.
LEMMA TablesStep ==
    ASSUME Typed, [Next]_vars
    PROVE  /\ users' \in [Users -> Row] /\ kyc' \in [Users -> KycStatus]
           /\ served' \in 0 .. MaxRequests /\ resets' \in [Users -> Nat]
           /\ toggled' \subseteq Users /\ crossed' \subseteq Users
           /\ bonuses' \in [Users -> Nat]
<1> USE AccountsOK
<1>1. /\ users \in [Users -> Row] /\ kyc \in [Users -> KycStatus]
      /\ served \in 0 .. MaxRequests /\ resets \in [Users -> Nat]
      /\ toggled \subseteq Users /\ crossed \subseteq Users
      /\ bonuses \in [Users -> Nat]
      /\ \A r \in Requests : /\ open[r].user \in Users /\ open[r].word \in Passwords
                             /\ open[r].row \in Row /\ open[r].kind \in Kinds
                             /\ open[r].kind \in KindsAt[open[r].at]
  BY DEF Typed, TypeOK, Shaped, Request
<1> DEFINE Goal == /\ users' \in [Users -> Row] /\ kyc' \in [Users -> KycStatus]
                   /\ served' \in 0 .. MaxRequests /\ resets' \in [Users -> Nat]
                   /\ toggled' \subseteq Users /\ crossed' \subseteq Users
                   /\ bonuses' \in [Users -> Nat]
<1>2. ASSUME NEW r \in Requests, Begin(r) PROVE Goal
  <2>1. toggled' \subseteq Users
    BY <1>1, <1>2, BeginStep
  <2>2. served' \in 0 .. MaxRequests
    BY <1>1, <1>2 DEF Begin
  <2> QED
    BY <1>1, <1>2, <2>1, <2>2 DEF Begin, tables
<1>3. ASSUME NEW t \in DOMAIN tokens, Logout(t) PROVE Goal
  BY <1>1, <1>3 DEF Logout, history
<1>4. ASSUME NEW r \in Requests, Fail(r) \/ ReadToken(r) \/ ReadUser(r) \/ Issue(r) \/ ReadKyc(r)
      PROVE  Goal
  BY <1>1, <1>4 DEF Fail, ReadToken, ReadUser, Issue, ReadKyc, tables, history
<1>5. ASSUME NEW r \in Requests, SaveToken(r) \/ Bonus(r) \/ Revoke(r)
      PROVE  Goal
  <2>1. CASE SaveToken(r)
    <3>1. crossed' \subseteq Users
      BY <1>1, <2>1 DEF SaveToken
    <3> QED
      BY <1>1, <2>1, <3>1 DEF SaveToken
  <2>2. CASE Bonus(r)
    <3>1. bonuses' \in [Users -> Nat]
      <4>1. bonuses[open[r].user] + 1 \in Nat
        BY <1>1
      <4>2. UNCHANGED bonuses \/ bonuses' = [bonuses EXCEPT ![open[r].user] = @ + 1]
        BY <2>2 DEF Bonus
      <4> QED
        BY <1>1, <4>1, <4>2
    <3> QED
      BY <1>1, <2>2, <3>1 DEF Bonus, tables
  <2>3. CASE Revoke(r)
    <3>1. resets' \in [Users -> Nat]
      BY <1>1, <2>3 DEF Revoke
    <3> QED
      BY <1>1, <2>3, <3>1 DEF Revoke
  <2> QED
    BY <1>5, <2>1, <2>2, <2>3
<1>6. ASSUME NEW r \in Requests, Create(r) \/ SaveUser(r)
      PROVE  Goal
  <2>1. CASE Create(r)
    <3>1. users' \in [Users -> Row]
      <4>1. \/ UNCHANGED users
            \/ \E status \in {"AWAITING", "ACTIVE"} :
                  users' = [users EXCEPT ![open[r].user] = SignedUp(status, open[r].word)]
        BY <2>1 DEF Create
      <4>2. \A status \in {"AWAITING", "ACTIVE"} : SignedUp(status, open[r].word) \in Row
        BY <1>1, RowTypes
      <4> QED
        BY ZenonT(60), <1>1, <4>1, <4>2
    <3> QED
      BY <1>1, <2>1, <3>1 DEF Create, history
  <2>2. CASE SaveUser(r)
    <3>1. users' \in [Users -> Row] /\ crossed' \subseteq Users
      BY <1>1, <2>2, RowTypes DEF SaveUser
    <3> QED
      BY <1>1, <2>2, <3>1 DEF SaveUser
  <2> QED
    BY <1>6, <2>1, <2>2
<1>7. ASSUME NEW r \in Requests, Remove(r)
      PROVE  Goal
  <2>1. [NoRow EXCEPT !.state = "deleted"] \in Row
    BY RowTypes DEF Row
  <2> QED
    BY <1>1, <1>7, <2>1 DEF Remove, history, KycStatus
<1>8. ASSUME NEW r \in Requests, OpenFile(r) \/ SaveKyc(r)
      PROVE  Goal
  <2>1. open[r].at = "file" => Filed[open[r].kind] \in KycStatus
    <3>1. KindsAt["file"] = DOMAIN Filed
      BY DEF KindsAt
    <3>2. open[r].at = "file" => open[r].kind \in DOMAIN Filed
      BY <1>1, <3>1
    <3>3. \A kind \in DOMAIN Filed : Filed[kind] \in KycStatus
      BY DEF Filed, KycStatus
    <3> QED
      BY <3>2, <3>3
  <2>2. kyc' \in [Users -> KycStatus]
    BY <1>1, <1>8, <2>1 DEF OpenFile, SaveKyc, KycStatus
  <2> QED
    BY <1>1, <1>8, <2>2 DEF OpenFile, SaveKyc, history
<1>9. CASE UNCHANGED vars
  BY <1>1, <1>9 DEF vars
<1> QED
  BY <1>2, <1>3, <1>4, <1>5, <1>6, <1>7, <1>8, <1>9 DEF Next

LEMMA TypeStep == Typed /\ [Next]_vars => Typed'
<1> SUFFICES ASSUME Typed, [Next]_vars PROVE Typed'
  OBVIOUS
<1>1. TokensStay
  BY TokensStep
<1>2. ASSUME UNCHANGED open
      PROVE  open' \in [Requests -> Request] /\ Shaped'
  <2>1. \A r \in Requests : HasToken(open[r]) => HasToken(open[r])'
    BY <1>1, <1>2 DEF HasToken, TokensStay
  <2> QED
    BY <1>2, <2>1 DEF Typed, TypeOK, Shaped
<1>3. ASSUME NEW r \in Requests, Begin(r)
      PROVE  open' \in [Requests -> Request] /\ Shaped'
  <2>1. UNCHANGED tokens
    BY <1>3 DEF Begin, tables
  <2>2. /\ open' = [open EXCEPT ![r] = open'[r]] /\ open'[r] \in Request
        /\ open'[r].kind \in KindsAt[open'[r].at] /\ HasToken(open'[r])
    BY <1>3, BeginStep DEF Typed, TypeOK
  <2>3. \A p \in Requests : HasToken(open'[p]) => HasToken(open[p])'
    BY <2>1 DEF HasToken
  <2> QED
    BY <2>2, <2>3 DEF Typed, TypeOK, Shaped
<1>4. open' \in [Requests -> Request] /\ Shaped'
  BY <1>2, <1>3, StagesStep, RequestsStep DEF Next, Logout, vars
<1> QED
  BY <1>1, <1>4, TablesStep DEF Typed, TypeOK, TokensStay

-----------------------------------------------------------------------------
(* Users: what is saved was read, and what was read was saved.             *)

RowsInv == Typed /\ RowsHeld /\ NoneIsBlank /\ FreezeFollowsStatus

\* An edit freezes with AWAITING and unfreezes without it.
LEMMA EditedFreeze ==
    ASSUME NEW kind \in Kinds \ {"freeze", "unfreeze"}, NEW row \in Row, NEW word \in Passwords,
           row.freeze <=> row.status = "AWAITING"
    PROVE  LET new == Edited(kind, row, word) IN new.freeze <=> new.status = "AWAITING"
BY DEF Edited, Freezes, StatusSet, Row

LEMMA RowsInit == Init => RowsInv
<1> SUFFICES ASSUME Init PROVE RowsInv
  OBVIOUS
<1>1. Typed
  BY TypeInit
<1>2. RowsHeld
  BY DEF Init, RowsHeld, RowHeld, Idle, NoRow
<1>3. NoneIsBlank /\ FreezeFollowsStatus
  BY AccountsOK DEF Init, NoneIsBlank, FreezeFollowsStatus
<1> QED
  BY <1>1, <1>2, <1>3 DEF RowsInv

\* A request that goes on with the row it has keeps what is known of it.
LEMMA HeldOn ==
    ASSUME Typed, NEW r \in Requests, RowsHeld, UNCHANGED toggled,
           \/ End(r)
           \/ \E stage \in Stages \ {"mail", "save", "file"} :
                 Goto(r, stage) /\ (stage = "bonus" => open[r].at = "mail")
           \/ Goto(r, "save") /\ open[r].at = "bonus"
    PROVE  RowsHeld'
<1>1. open \in [Requests -> Request]
  BY DEF Typed, TypeOK
<1>2. CASE End(r)
  BY <1>1, <1>2 DEF End, RowsHeld, RowHeld, Idle, NoRow
<1>3. ASSUME NEW stage \in Stages, Goto(r, stage)
      PROVE  /\ \A p \in Requests \ {r} : open'[p] = open[p]
             /\ open'[r].kind = open[r].kind /\ open'[r].user = open[r].user
             /\ open'[r].row = open[r].row /\ open'[r].filed = open[r].filed
             /\ open'[r].at = stage
  BY <1>1, <1>3 DEF Goto, Request
<1> QED
  BY <1>2, <1>3 DEF RowsHeld, RowHeld, Stages

LEMMA RowsHeldStep == RowsInv /\ [Next]_vars => RowsHeld'
<1> SUFFICES ASSUME RowsInv, [Next]_vars PROVE RowsHeld'
  OBVIOUS
<1>1. /\ Typed /\ RowsHeld /\ open \in [Requests -> Request]
      /\ \A r \in Requests : /\ users[open[r].user] \in Row /\ open[r].user \in Users
                             /\ open[r].kind \in KindsAt[open[r].at]
  BY DEF RowsInv, Typed, TypeOK, Shaped, Request
<1>2. ASSUME NEW r \in Requests, open' = [open EXCEPT ![r] = open'[r]], RowHeld(open'[r]),
             UNCHANGED toggled
      PROVE  RowsHeld'
  BY <1>1, <1>2 DEF RowsHeld, RowHeld
<1>3. ASSUME NEW r \in Requests, Begin(r)
      PROVE  RowsHeld'
  <2>1. /\ open' = [open EXCEPT ![r] = open'[r]] /\ open'[r].at = FirstStage(open'[r].kind)
        /\ open'[r].row = NoRow
        /\ toggled' = IF open'[r].kind \in {"freeze", "unfreeze"}
                      THEN toggled \cup {open'[r].user} ELSE toggled
    BY <1>1, <1>3, BeginStep
  <2>2. RowHeld(open[r])'
    BY <2>1 DEF RowHeld, FirstStage, NoRow
  <2>3. \A p \in Requests \ {r} : RowHeld(open[p])'
    BY <1>1, <2>1 DEF RowsHeld, RowHeld
  <2> QED
    BY <2>2, <2>3 DEF RowsHeld
<1>4. ASSUME NEW r \in Requests, ReadUser(r)
      PROVE  RowsHeld'
  <2> DEFINE q == open[r]
             row == users[q.user]
  <2>1. PICK given \in Passwords :
           LET stage == AfterUser(q.kind, row, q.word, given)
           IN  IF stage = "idle" THEN End(r)
               ELSE open' = [open EXCEPT ![r].at = stage, ![r].row = row]
    BY <1>4 DEF ReadUser
  <2> DEFINE stage == AfterUser(q.kind, row, q.word, given)
  <2>2. UNCHANGED toggled
    BY <1>4 DEF ReadUser, history
  <2>3. CASE stage = "idle"
    BY <1>1, <2>1, <2>2, <2>3, HeldOn
  <2>4. CASE stage # "idle"
    <3>1. /\ open' = [open EXCEPT ![r] = open'[r]]
          /\ open'[r].kind = q.kind /\ open'[r].user = q.user /\ open'[r].row = row
          /\ open'[r].at = stage
      BY <1>1, <2>1, <2>4 DEF Request
    <3>2. stage \notin {"mail", "bonus", "file"} /\ (stage = "save" => row.state = "present")
      BY DEF AfterUser
    <3>3. q.user \in toggled \/ (row.freeze <=> row.status = "AWAITING")
      BY <1>1 DEF RowsInv, FreezeFollowsStatus
    <3> HIDE DEF stage, row
    <3>4. RowHeld(open'[r])
      BY <1>1, <3>1, <3>2, <3>3 DEF RowsHeld, RowHeld
    <3> QED
      BY <1>2, <2>2, <3>1, <3>4
  <2> QED
    BY <2>3, <2>4
<1>5. ASSUME NEW r \in Requests, Create(r)
      PROVE  RowsHeld'
  <2>1. UNCHANGED toggled
    BY <1>5 DEF Create, history
  <2>2. CASE End(r)
    BY <1>1, <2>1, <2>2, HeldOn
  <2>3. ASSUME NEW status \in {"AWAITING", "ACTIVE"},
               open' = [open EXCEPT ![r].at = "mail", ![r].row = SignedUp(status, open[r].word)]
        PROVE  RowsHeld'
    <3>1. /\ open' = [open EXCEPT ![r] = open'[r]]
          /\ open'[r].kind = open[r].kind /\ open'[r].user = open[r].user
          /\ open'[r].row = SignedUp(status, open[r].word) /\ open'[r].at = "mail"
      BY <1>1, <2>3 DEF Request
    <3>2. LET row == SignedUp(status, open[r].word)
          IN  row.state = "present" /\ (row.freeze <=> row.status = "AWAITING")
      BY DEF SignedUp
    <3>3. RowHeld(open'[r])
      BY <1>1, <3>1, <3>2 DEF RowsHeld, RowHeld
    <3> QED
      BY <1>2, <2>1, <3>1, <3>3
  <2> QED
    BY <1>5, <2>2, <2>3 DEF Create
<1>6. ASSUME NEW r \in Requests, ReadToken(r)
      PROVE  RowsHeld'
  <2>1. UNCHANGED toggled
    BY <1>6 DEF ReadToken, history
  <2>2. ASSUME NEW right \in BOOLEAN, NEW stage, NEW n,
               stage = AfterToken(open[r].kind, tokens[open[r].tok], right),
               open' = [open EXCEPT ![r].at = stage, ![r].attempts = n]
        PROVE  RowsHeld'
    <3>1. /\ open' = [open EXCEPT ![r] = open'[r]]
          /\ open'[r].kind = open[r].kind /\ open'[r].user = open[r].user
          /\ open'[r].row = open[r].row /\ open'[r].at = stage
      BY <1>1, <2>2 DEF Request
    <3>2. stage \in {"user", "lock", "punish", "consume"}
      BY <2>2 DEF AfterToken
    <3>3. RowHeld(open'[r])
      BY <1>1, <3>1, <3>2 DEF RowsHeld, RowHeld
    <3> QED
      BY <1>2, <2>1, <3>1, <3>3
  <2> QED
    BY <1>1, <1>6, <2>1, <2>2, HeldOn DEF ReadToken
<1>7. ASSUME NEW r \in Requests,
             \/ SaveToken(r) \/ Issue(r) \/ Revoke(r) \/ Bonus(r) \/ Remove(r) \/ Fail(r)
             \/ SaveKyc(r)
      PROVE  RowsHeld'
  <2>1. UNCHANGED toggled
    BY <1>7 DEF SaveToken, Issue, Revoke, Bonus, Remove, Fail, SaveKyc, history
  <2> QED
    BY <1>1, <1>7, <2>1, HeldOn DEF SaveToken, Issue, Revoke, Bonus, Remove, Fail, SaveKyc, Stages
<1>8. ASSUME NEW r \in Requests, SaveUser(r)
      PROVE  RowsHeld'
  <2>1. UNCHANGED toggled /\ AfterSave(open[r].kind) \in {"idle", "issue", "consume"}
    BY <1>8 DEF SaveUser, AfterSave
  <2> QED
    BY <1>1, <1>8, <2>1, HeldOn DEF SaveUser, Stages
<1>9. ASSUME NEW r \in Requests, ReadKyc(r) \/ OpenFile(r)
      PROVE  RowsHeld'
  <2>1. UNCHANGED toggled
    BY <1>9 DEF ReadKyc, OpenFile, history
  <2>2. ASSUME NEW status, Accepts(open[r].kind, status),
               open' = [open EXCEPT ![r].at = "file", ![r].filed = status]
        PROVE  RowsHeld'
    <3>1. /\ open' = [open EXCEPT ![r] = open'[r]]
          /\ open'[r].kind = open[r].kind /\ open'[r].user = open[r].user
          /\ open'[r].row = open[r].row /\ open'[r].at = "file" /\ open'[r].filed = status
      BY <1>1, <2>2 DEF Request
    <3>2. RowHeld(open'[r])
      BY <1>1, <2>2, <3>1 DEF RowsHeld, RowHeld
    <3> QED
      BY <1>2, <2>1, <3>1, <3>2
  <2>3. Accepts(open[r].kind, "NOT_SUBMITTED")
    BY DEF Accepts
  <2> QED
    BY <1>1, <1>9, <2>1, <2>2, <2>3, HeldOn DEF ReadKyc, OpenFile, Stages
<1>10. ASSUME UNCHANGED <<open, toggled>>
       PROVE  RowsHeld'
  BY <1>1, <1>10 DEF RowsHeld, RowHeld
<1> QED
  BY <1>3, <1>4, <1>5, <1>6, <1>7, <1>8, <1>9, <1>10 DEF Next, Logout, history, vars

\* Which rows of users a step writes, and what.
LEMMA UsersStep ==
    ASSUME Typed, [Next]_vars
    PROVE  \/ UNCHANGED users
           \/ \E r \in Requests, status \in {"AWAITING", "ACTIVE"} :
                 LET q == open[r] IN
                 /\ q.at = "create" /\ q.kind = "signup" /\ users[q.user].state = "none"
                 /\ users' = [users EXCEPT ![q.user] = SignedUp(status, q.word)]
                 /\ open' = [open EXCEPT ![r].at = "mail", ![r].row = SignedUp(status, q.word)]
                 /\ UNCHANGED <<toggled, crossed, bonuses>>
           \/ \E r \in Requests :
                 LET q == open[r] IN
                 /\ q.at = "save"
                 /\ users' = [users EXCEPT ![q.user] = Edited(q.kind, q.row, q.word)]
                 /\ users[q.user] = q.row \/ q.user \in crossed'
                 /\ SaveUser(r)
           \/ \E r \in Requests :
                 LET q == open[r] IN
                 /\ q.at = "remove" /\ q.kind = "deleteUser" /\ open'[r] = Idle
                 /\ users' = [users EXCEPT ![q.user] = [NoRow EXCEPT !.state = "deleted"]]
                 /\ Remove(r)
<1>1. \A r \in Requests : open[r].kind \in KindsAt[open[r].at] /\ open \in [Requests -> Request]
  BY DEF Typed, TypeOK, Shaped
<1>2. ASSUME NEW r \in Requests, Create(r)
      PROVE  \/ UNCHANGED users
             \/ \E status \in {"AWAITING", "ACTIVE"} :
                   LET q == open[r] IN
                   /\ q.at = "create" /\ q.kind = "signup" /\ users[q.user].state = "none"
                   /\ users' = [users EXCEPT ![q.user] = SignedUp(status, q.word)]
                   /\ open' = [open EXCEPT ![r].at = "mail", ![r].row = SignedUp(status, q.word)]
                   /\ UNCHANGED <<toggled, crossed, bonuses>>
  <2>1. open[r].at = "create" /\ open[r].kind = "signup"
    BY <1>1, <1>2 DEF Create, KindsAt
  <2> QED
    BY <1>2, <2>1 DEF Create, history
<1>3. ASSUME NEW r \in Requests, SaveUser(r)
      PROVE  LET q == open[r] IN
             /\ q.at = "save"
             /\ users' = [users EXCEPT ![q.user] = Edited(q.kind, q.row, q.word)]
             /\ users[q.user] = q.row \/ q.user \in crossed'
  BY <1>3 DEF SaveUser
<1>4. ASSUME NEW r \in Requests, Remove(r)
      PROVE  LET q == open[r] IN
             /\ q.at = "remove" /\ q.kind = "deleteUser" /\ open'[r] = Idle
             /\ users' = [users EXCEPT ![q.user] = [NoRow EXCEPT !.state = "deleted"]]
  BY <1>1, <1>4 DEF Remove, KindsAt, End
<1>5. ASSUME NEW r \in Requests,
             \/ Begin(r) \/ Fail(r) \/ ReadToken(r) \/ ReadUser(r) \/ Bonus(r) \/ SaveToken(r)
             \/ Issue(r) \/ Revoke(r) \/ ReadKyc(r) \/ OpenFile(r) \/ SaveKyc(r)
      PROVE  UNCHANGED users
  BY <1>5 DEF Begin, Fail, ReadToken, ReadUser, Bonus, SaveToken, Issue, Revoke, ReadKyc,
     OpenFile, SaveKyc, tables
<1>6. ASSUME \/ UNCHANGED vars
             \/ \E t \in DOMAIN tokens : Logout(t)
      PROVE  UNCHANGED users
  BY <1>6 DEF vars, Logout
<1> QED
  BY <1>2, <1>3, <1>4, <1>5, <1>6 DEF Next

\* The history only grows.
LEMMA HistoryStep ==
    ASSUME Typed, [Next]_vars
    PROVE  toggled \subseteq toggled' /\ crossed \subseteq crossed'
<1>1. ASSUME NEW r \in Requests, Begin(r)
      PROVE  toggled \subseteq toggled' /\ crossed \subseteq crossed'
  <2>1. toggled \subseteq toggled'
    BY <1>1, BeginStep
  <2> QED
    BY <1>1, <2>1 DEF Begin
<1>2. ASSUME NEW r \in Requests,
             \/ Fail(r) \/ ReadToken(r) \/ ReadUser(r) \/ Create(r) \/ Issue(r) \/ Revoke(r)
             \/ Bonus(r) \/ Remove(r) \/ ReadKyc(r) \/ OpenFile(r)
      PROVE  UNCHANGED <<toggled, crossed>>
  BY <1>2 DEF Fail, ReadToken, ReadUser, Create, Issue, Revoke, Bonus, Remove, ReadKyc,
     OpenFile, history
<1>3. ASSUME NEW r \in Requests, SaveToken(r) \/ SaveUser(r) \/ SaveKyc(r)
      PROVE  toggled \subseteq toggled' /\ crossed \subseteq crossed'
  BY <1>3 DEF SaveToken, SaveUser, SaveKyc
<1>4. ASSUME \/ UNCHANGED vars
             \/ \E t \in DOMAIN tokens : Logout(t)
      PROVE  UNCHANGED <<toggled, crossed>>
  BY <1>4 DEF vars, Logout, history
<1> QED
  BY <1>1, <1>2, <1>3, <1>4 DEF Next

\* The row of an address that did not sign up stays blank, and freezing follows
\* the status.
LEMMA RowsStep == RowsInv /\ [Next]_vars => RowsInv'
<1> SUFFICES ASSUME RowsInv, [Next]_vars PROVE RowsInv'
  OBVIOUS
<1>1. /\ Typed /\ Typed' /\ RowsHeld' /\ users \in [Users -> Row]
      /\ \A r \in Requests : /\ open[r].user \in Users /\ open[r].kind \in Kinds
                             /\ open[r].row \in Row /\ open[r].word \in Passwords
                             /\ RowHeld(open[r])
      /\ \A u \in Users : /\ users[u].state = "none" => users[u] = NoRow
                          /\ u \in toggled \/ (users[u].freeze <=> users[u].status = "AWAITING")
  BY TypeStep, RowsHeldStep
     DEF RowsInv, Typed, TypeOK, Request, RowsHeld, NoneIsBlank, FreezeFollowsStatus
<1>2. toggled \subseteq toggled'
  BY <1>1, HistoryStep
<1> DEFINE Fine(u, row) == /\ row.state = "none" => row = NoRow
                           /\ u \in toggled \/ (row.freeze <=> row.status = "AWAITING")
<1>3. ASSUME NEW u \in Users, NEW row, Fine(u, row), users' = [users EXCEPT ![u] = row]
      PROVE  NoneIsBlank' /\ FreezeFollowsStatus'
  <2>1. \A v \in Users : users'[v] = IF v = u THEN row ELSE users[v]
    BY <1>1, <1>3
  <2> QED
    BY <1>1, <1>2, <1>3, <2>1 DEF NoneIsBlank, FreezeFollowsStatus
<1>4. ASSUME UNCHANGED users
      PROVE  NoneIsBlank' /\ FreezeFollowsStatus'
  <2>1. \A v \in Users : users'[v] = users[v]
    BY <1>4
  <2> QED
    BY <1>1, <1>2, <2>1 DEF NoneIsBlank, FreezeFollowsStatus
<1>5. ASSUME NEW r \in Requests, NEW status \in {"AWAITING", "ACTIVE"},
             users' = [users EXCEPT ![open[r].user] = SignedUp(status, open[r].word)]
      PROVE  NoneIsBlank' /\ FreezeFollowsStatus'
  <2> DEFINE row == SignedUp(status, open[r].word)
  <2>1. row.state = "present" /\ (row.freeze <=> row.status = "AWAITING")
    BY DEF SignedUp
  <2> HIDE DEF row
  <2> QED
    BY <1>1, <1>3, <1>5, <2>1 DEF row
<1>6. ASSUME NEW r \in Requests, open[r].at = "save",
             users' = [users EXCEPT ![open[r].user] =
                          Edited(open[r].kind, open[r].row, open[r].word)]
      PROVE  NoneIsBlank' /\ FreezeFollowsStatus'
  <2> DEFINE row == Edited(open[r].kind, open[r].row, open[r].word)
  <2>1. row.state = "present"
    BY DEF Edited
  <2>2. open[r].user \in toggled \/ (row.freeze <=> row.status = "AWAITING")
    BY <1>1, EditedFreeze DEF RowHeld
  <2> HIDE DEF row
  <2> QED
    BY <1>1, <1>3, <1>6, <2>1, <2>2 DEF row
<1>7. ASSUME NEW r \in Requests,
             users' = [users EXCEPT ![open[r].user] = [NoRow EXCEPT !.state = "deleted"]]
      PROVE  NoneIsBlank' /\ FreezeFollowsStatus'
  <2> DEFINE row == [NoRow EXCEPT !.state = "deleted"]
  <2>1. row.state = "deleted" /\ (row.freeze <=> row.status = "AWAITING")
    BY DEF NoRow
  <2> HIDE DEF row
  <2> QED
    BY <1>1, <1>3, <1>7, <2>1 DEF row
<1> QED
  BY <1>1, <1>4, <1>5, <1>6, <1>7, UsersStep DEF RowsInv

LEMMA RowsAlways == Spec => []RowsInv
<1>1. UNCHANGED vars => [Next]_vars
  OBVIOUS
<1> QED
  BY RowsInit, RowsStep, PTL DEF Spec

-----------------------------------------------------------------------------
(* The theorems about users and KYC.                                       *)

\* Every variable keeps its type, whatever requests overlap.
THEOREM AccountsTypeCorrect == Spec => []TypeOK
<1>1. RowsInv => TypeOK
  BY DEF RowsInv, Typed
<1> QED
  BY <1>1, RowsAlways, PTL

\* An account no admin froze by hand is frozen exactly while it awaits approval,
\* whatever stale rows are saved.
THEOREM FrozenWhileAwaiting == Spec => []FreezeFollowsStatus
<1>1. RowsInv => FreezeFollowsStatus
  BY DEF RowsInv
<1> QED
  BY <1>1, RowsAlways, PTL

\* What an edit changes, column by column.
LEMMA EditedColumns ==
    ASSUME NEW kind \in Kinds, NEW row \in Row, NEW word \in Passwords, row.state = "present"
    PROVE  LET new == Edited(kind, row, word) IN
           /\ DOMAIN new = DOMAIN row
           /\ \A column \in DOMAIN row : new[column] # row[column] => kind \in Writers(column)
<1> DEFINE new == Edited(kind, row, word)
<1>1. DOMAIN row = {"state", "password", "status", "freeze", "twoFactor", "verified", "role"}
  BY DEF Row
<1>2. DOMAIN new = {"state", "password", "status", "freeze", "twoFactor", "verified", "role"}
  BY DEF Edited
<1>3. new.state = row.state
  BY DEF Edited
<1>4. new.password # row.password => kind \in Writers("password")
  BY DEF Edited, Writers
<1>5. new.status # row.status => kind \in Writers("status")
  BY DEF Edited, Writers
<1>6. new.freeze # row.freeze => kind \in Writers("freeze")
  BY DEF Edited, Writers, Freezes, Row, StatusSet
<1>7. new.twoFactor # row.twoFactor => kind \in Writers("twoFactor")
  BY DEF Edited, Writers, Flag, Row
<1>8. new.verified # row.verified => kind \in Writers("verified")
  BY DEF Edited, Writers, Flag, Row
<1>9. new.role # row.role => kind \in Writers("role")
  BY DEF Edited, Writers
<1> HIDE DEF new
<1> QED
  BY <1>1, <1>2, <1>3, <1>4, <1>5, <1>6, <1>7, <1>8, <1>9 DEF new

\* A column changes because of a handler that may change it, or a stale save.
LEMMA ColumnStep ==
    ASSUME RowsInv, [Next]_vars, NEW u \in Users, NEW column \in DOMAIN users[u],
           users'[u][column] # users[u][column]
    PROVE  \/ u \in crossed'
           \/ \E r \in Requests : /\ open[r].user = u /\ open[r].kind \in Writers(column)
                                  /\ open'[r] # open[r]
<1> USE AccountsOK
<1>1. /\ Typed /\ users \in [Users -> Row] /\ open \in [Requests -> Request]
      /\ \A r \in Requests : /\ open[r].kind \in Kinds /\ open[r].row \in Row
                             /\ open[r].word \in Passwords /\ RowHeld(open[r])
      /\ users[u].state = "none" => users[u] = NoRow
  BY DEF RowsInv, Typed, TypeOK, Request, RowsHeld, NoneIsBlank
<1>2. column \in {"state", "password", "status", "freeze", "twoFactor", "verified", "role"}
  BY <1>1 DEF Row
<1>3. CASE UNCHANGED users
  BY <1>3
<1>4. ASSUME NEW r \in Requests, NEW status \in {"AWAITING", "ACTIVE"},
             open[r].at = "create", open[r].kind = "signup",
             users[open[r].user].state = "none",
             users' = [users EXCEPT ![open[r].user] = SignedUp(status, open[r].word)],
             open' = [open EXCEPT ![r].at = "mail", ![r].row = SignedUp(status, open[r].word)]
      PROVE  /\ open[r].user = u /\ open[r].kind \in Writers(column)
             /\ open'[r] # open[r]
  <2>1. open[r].user = u
    BY <1>1, <1>4
  <2>2. users[u] = NoRow /\ users'[u] = SignedUp(status, open[r].word)
    BY <1>1, <1>4, <2>1
  <2>3. column \notin {"twoFactor", "verified", "role"}
    <3>1. /\ users'[u].twoFactor = users[u].twoFactor /\ users'[u].verified = users[u].verified
          /\ users'[u].role = users[u].role
      BY <2>2 DEF NoRow, SignedUp
    <3> QED
      BY <3>1
  <2>4. "signup" \in Writers(column)
    BY <1>2, <2>3 DEF Writers
  <2>5. open'[r].at = "mail"
    BY <1>1, <1>4 DEF Request
  <2> QED
    BY <1>4, <2>1, <2>4, <2>5
<1>5. ASSUME NEW r \in Requests, open[r].at = "save", SaveUser(r),
             users' = [users EXCEPT ![open[r].user] =
                          Edited(open[r].kind, open[r].row, open[r].word)],
             users[open[r].user] = open[r].row
      PROVE  /\ open[r].user = u /\ open[r].kind \in Writers(column)
             /\ open'[r] # open[r]
  <2>1. open[r].user = u
    BY <1>1, <1>5
  <2>2. users[u] = open[r].row /\ users'[u] = Edited(open[r].kind, open[r].row, open[r].word)
    BY <1>1, <1>5, <2>1
  <2>3. open[r].row.state = "present"
    BY <1>1, <1>5 DEF RowHeld
  <2>4. open[r].kind \in Writers(column)
    <3> DEFINE row == open[r].row
               new == Edited(open[r].kind, row, open[r].word)
    <3>1. column \in DOMAIN row /\ new[column] # row[column]
      BY <2>2
    <3>2. /\ open[r].kind \in Kinds /\ row \in Row /\ open[r].word \in Passwords
          /\ row.state = "present"
      BY <1>1, <2>3
    <3>3. \A col \in DOMAIN row : new[col] # row[col] => open[r].kind \in Writers(col)
      BY <3>2, EditedColumns
    <3> QED
      BY <3>1, <3>3
  <2>5. open'[r].at \in {"idle", "issue", "consume"}
    <3>1. AfterSave(open[r].kind) \in {"idle", "issue", "consume"}
      BY DEF AfterSave
    <3>2. \/ open' = [open EXCEPT ![r] = Idle]
          \/ open' = [open EXCEPT ![r].at = AfterSave(open[r].kind)]
      BY <1>5 DEF SaveUser, End, Goto
    <3> QED
      BY <1>1, <3>1, <3>2 DEF Idle, Request
  <2> QED
    BY <1>5, <2>1, <2>4, <2>5
<1>6. ASSUME NEW r \in Requests, open[r].at = "remove", open[r].kind = "deleteUser",
             open'[r] = Idle,
             users' = [users EXCEPT ![open[r].user] = [NoRow EXCEPT !.state = "deleted"]]
      PROVE  /\ open[r].user = u /\ open[r].kind \in Writers(column)
             /\ open'[r] # open[r]
  <2>1. open[r].user = u
    BY <1>1, <1>6
  <2>2. "deleteUser" \in Writers(column)
    BY <1>2 DEF Writers
  <2> QED
    BY <1>6, <2>1, <2>2 DEF Idle
<1>7. \A r \in Requests : users' = [users EXCEPT ![open[r].user] =
                              Edited(open[r].kind, open[r].row, open[r].word)]
         => open[r].user = u
  BY <1>1
<1> QED
  BY ZenonT(60), <1>1, <1>3, <1>4, <1>5, <1>6, <1>7, UsersStep

\* No handler undoes what another has set: a column changes only by a handler
\* for it, until a stale row of that user is saved.
THEOREM NoColumnUndone == Spec => ColumnsKept
<1> DEFINE A == \A u \in Users : \A column \in DOMAIN users[u] :
                   users'[u][column] # users[u][column] =>
                     \/ u \in crossed'
                     \/ \E r \in Requests : /\ open[r].user = u /\ open[r].kind \in Writers(column)
                                            /\ open'[r] # open[r]
<1>1. RowsInv /\ [Next]_vars => A
  BY ColumnStep
<1>2. ColumnsKept <=> [][A]_vars
  BY DEF ColumnsKept
<1> QED
  BY <1>1, <1>2, RowsAlways, PTL DEF Spec

\* An approved KYC file is not sent back by its owner, until a stale one is saved.
THEOREM ApprovedStaysApproved == Spec => ApprovalKept
<1> DEFINE A == \A u \in Users : kyc[u] = "APPROVED" =>
          u \in crossed' \/ kyc'[u] \in {"APPROVED", "REJECTED"} \/ users'[u].state = "deleted"
<1>1. ASSUME RowsInv, [Next]_vars, NEW u \in Users, kyc[u] = "APPROVED"
      PROVE  u \in crossed' \/ kyc'[u] \in {"APPROVED", "REJECTED"} \/ users'[u].state = "deleted"
  <2>1. /\ kyc \in [Users -> KycStatus] /\ users \in [Users -> Row]
        /\ \A r \in Requests : RowHeld(open[r]) /\ open[r].kind \in KindsAt[open[r].at]
    BY <1>1 DEF RowsInv, Typed, TypeOK, Shaped, RowsHeld
  <2>2. ASSUME NEW r \in Requests, SaveKyc(r)
        PROVE  u \in crossed' \/ kyc'[u] \in {"APPROVED", "REJECTED"}
    <3>1. open[r].kind \in DOMAIN Filed
      BY <2>1, <2>2 DEF SaveKyc, KindsAt
    <3>2. open[r].kind = "submitKyc" => open[r].filed # "APPROVED"
      BY <2>1, <2>2 DEF SaveKyc, RowHeld, Accepts
    <3>3. open[r].kind # "submitKyc" => Filed[open[r].kind] \in {"APPROVED", "REJECTED"}
      BY <3>1 DEF Filed
    <3> QED
      BY <1>1, <2>1, <2>2, <3>2, <3>3 DEF SaveKyc
  <2>3. ASSUME NEW r \in Requests, OpenFile(r)
        PROVE  kyc'[u] = "APPROVED"
    BY <1>1, <2>1, <2>3 DEF OpenFile
  <2>4. ASSUME NEW r \in Requests, Remove(r)
        PROVE  kyc'[u] = "APPROVED" \/ users'[u].state = "deleted"
    BY <1>1, <2>1, <2>4 DEF Remove, NoRow
  <2>5. ASSUME NEW r \in Requests,
               \/ Begin(r) \/ Fail(r) \/ ReadToken(r) \/ SaveToken(r) \/ Issue(r) \/ Revoke(r)
               \/ ReadUser(r) \/ Create(r) \/ Bonus(r) \/ SaveUser(r) \/ ReadKyc(r)
        PROVE  kyc'[u] = "APPROVED"
    BY <1>1, <2>5 DEF Begin, Fail, ReadToken, SaveToken, Issue, Revoke, ReadUser, Create, Bonus,
       SaveUser, ReadKyc, tables
  <2>6. ASSUME \/ UNCHANGED vars
               \/ \E t \in DOMAIN tokens : Logout(t)
        PROVE  kyc'[u] = "APPROVED"
    BY <1>1, <2>6 DEF vars, Logout
  <2> QED
    BY <1>1, <2>2, <2>3, <2>4, <2>5, <2>6 DEF Next
<1>2. RowsInv /\ [Next]_vars => A
  BY <1>1
<1>3. ApprovalKept <=> [][A]_vars
  BY DEF ApprovalKept
<1> QED
  BY <1>2, <1>3, RowsAlways, PTL DEF Spec

-----------------------------------------------------------------------------
(* Tokens: who spends one, and what it has seen by then.                   *)

TokensInv ==
    /\ Typed /\ SpentIsDead /\ ParentIsDead /\ SpentByOne /\ UsedIsDead /\ AttemptsCount
    /\ ResetEndsSessions

\* The columns after each edit of a token.
LEMMA SavedColumns ==
    ASSUME NEW t \in Token, NEW q \in Request
    PROVE  LET s == Saved(t, q) IN
           /\ s.consumed = (q.at # "punish") /\ s.gone = FALSE
           /\ s.attempts = q.attempts + (IF q.at = "punish" THEN 1 ELSE 0)
           /\ s.guesses = t.guesses + (IF q.at = "punish" THEN 1 ELSE 0)
           /\ s.uses = t.uses /\ s.lost = t.lost
BY DEF Saved, Token

LEMMA EditColumns ==
    ASSUME NEW t \in Token, NEW u \in Users, NEW used \in BOOLEAN
    PROVE  /\ LET s == SessionEnded(t, u) IN
              /\ s.consumed <=> t.consumed \/ Open(t, u)
              /\ s.gone = t.gone /\ s.attempts = t.attempts
              /\ s.guesses = t.guesses /\ s.uses = t.uses /\ s.lost = t.lost
           /\ LET s == Dropped(t, u) IN
              /\ s.gone <=> t.gone \/ t.user = u
              /\ s.consumed = t.consumed /\ s.attempts = t.attempts
              /\ s.guesses = t.guesses /\ s.uses = t.uses /\ s.lost = t.lost
           /\ LET s == Counted(t, used) IN
              /\ s.uses = t.uses + (IF used THEN 1 ELSE 0)
              /\ s.consumed = t.consumed /\ s.gone = t.gone /\ s.attempts = t.attempts
              /\ s.guesses = t.guesses /\ s.lost = t.lost
           /\ LET s == LeftOpen(t, used) IN
              /\ s.lost = t.lost + (IF used THEN 1 ELSE 0)
              /\ s.consumed = t.consumed /\ s.gone = t.gone /\ s.attempts = t.attempts
              /\ s.guesses = t.guesses /\ s.uses = t.uses
BY DEF SessionEnded, Dropped, Counted, LeftOpen, Token, Open

LEMMA TokensInit == Init => TokensInv
<1> SUFFICES ASSUME Init PROVE TokensInv
  OBVIOUS
<1>1. Typed
  BY TypeInit
<1>2. SpentIsDead /\ SpentByOne
  BY DEF Init, SpentIsDead, SpentByOne, Spends, Idle
<1>3. \A t \in DOMAIN tokens : /\ tokens[t].parent = 0 /\ tokens[t].born = 0
                               /\ tokens[t].uses = 0 /\ tokens[t].guesses = 0
                               /\ tokens[t].attempts = 0 /\ tokens[t].user \in Users
  <2>1. \A t \in DOMAIN tokens :
           /\ tokens[t] = NewToken(tokens[t].user, tokens[t].type, 0, 0)
           /\ tokens[t].user \in Users
    <3>1. /\ tokens = FirstTokens /\ FirstTokens \in Seq(Token)
          /\ \A t \in DOMAIN tokens :
                tokens[t] = NewToken(tokens[t].user, tokens[t].type, 0, 0)
      BY AccountsOK DEF Init
    <3>2. \A t \in DOMAIN tokens : tokens[t] \in Token
      BY <3>1
    <3> QED
      BY <3>1, <3>2 DEF Token
  <2> QED
    BY <2>1 DEF NewToken
<1>4. ParentIsDead /\ UsedIsDead /\ ResetEndsSessions
  BY <1>3 DEF Init, ParentIsDead, UsedIsDead, ResetEndsSessions
<1>5. AttemptsCount
  BY <1>3, RowsOK DEF Init, AttemptsCount, Idle
<1> QED
  BY <1>1, <1>2, <1>4, <1>5 DEF TokensInv

\* A statement of one request leaves the others where they are.
LEMMA OthersWait ==
    ASSUME Typed, NEW r \in Requests, NEW p \in Requests \ {r},
           \/ Begin(r) \/ Fail(r) \/ ReadToken(r) \/ SaveToken(r) \/ Issue(r) \/ Revoke(r)
           \/ ReadUser(r) \/ Create(r) \/ Bonus(r) \/ SaveUser(r) \/ Remove(r) \/ ReadKyc(r)
           \/ OpenFile(r) \/ SaveKyc(r)
    PROVE  open'[p] = open[p]
<1>1. open \in [Requests -> Request]
  BY DEF Typed, TypeOK
<1>2. CASE Begin(r)
  BY <1>1, <1>2, BeginStep
<1>3. CASE ~Begin(r)
  BY <1>1, <1>3, StagesStep DEF Moves
<1> QED
  BY <1>2, <1>3

\* A request spends a token only from the statement that consumed it on.
LEMMA SpendsStep ==
    ASSUME Typed, [Next]_vars, NEW p \in Requests, Spends(open'[p]), ~SaveToken(p)
    PROVE  /\ Spends(open[p])
           /\ open'[p].tok = open[p].tok /\ open'[p].kind = open[p].kind
           /\ open'[p].user = open[p].user
<1>1. open \in [Requests -> Request] /\ open[p] \in Request /\ open[p].kind \in KindsAt[open[p].at]
  BY DEF Typed, TypeOK, Shaped
<1>2. CASE open'[p] = open[p]
  BY <1>2
<1>3. ~Spends(Idle)
  BY DEF Spends, Idle
<1>4. ASSUME NEW stage, Goto(p, stage)
      PROVE  /\ open'[p].tok = open[p].tok /\ open'[p].kind = open[p].kind
             /\ open'[p].user = open[p].user /\ open'[p].at = stage
  BY <1>1, <1>4 DEF Goto, Request
<1>5. ASSUME End(p) PROVE FALSE
  BY <1>1, <1>3, <1>5 DEF End
<1>6. ASSUME Begin(p) PROVE FALSE
  BY <1>6, BeginStep DEF Spends, FirstStage, TokenKinds, KycKinds
<1>7. ASSUME ReadToken(p) PROVE FALSE
  <2>1. PICK right \in BOOLEAN :
          open' = [open EXCEPT ![p].at = AfterToken(open[p].kind, tokens[open[p].tok], right),
                               ![p].attempts = tokens[open[p].tok].attempts]
    BY <1>5, <1>7 DEF ReadToken
  <2> DEFINE stage == AfterToken(open[p].kind, tokens[open[p].tok], right)
  <2>2. open'[p].at = stage /\ open'[p].kind = open[p].kind
    BY <1>1, <2>1 DEF Request
  <2>3. stage \in {"lock", "punish", "consume"}
        \/ (stage = "user" /\ open[p].kind \in LinkKinds)
    BY DEF AfterToken
  <2> QED
    BY <2>2, <2>3 DEF Spends, LinkKinds
<1>8. CASE ReadUser(p)
  <2>1. PICK given \in Passwords :
          open' = [open EXCEPT
                     ![p].at = AfterUser(open[p].kind, users[open[p].user], open[p].word, given),
                     ![p].row = users[open[p].user]]
    BY <1>5, <1>8 DEF ReadUser
  <2> DEFINE stage == AfterUser(open[p].kind, users[open[p].user], open[p].word, given)
  <2>2. /\ open'[p].at = stage /\ open'[p].kind = open[p].kind
        /\ open'[p].user = open[p].user /\ open'[p].tok = open[p].tok
    BY <1>1, <2>1 DEF Request
  <2>3. open[p].at = "user"
    BY <1>8 DEF ReadUser
  <2> QED
    BY <2>2, <2>3 DEF Spends
<1>9. CASE SaveUser(p)
  <2>1. open[p].at = "save"
    BY <1>9 DEF SaveUser
  <2> QED
    BY <1>4, <1>5, <1>9, <2>1 DEF SaveUser, Spends
<1>10. CASE \/ Issue(p) \/ Bonus(p)
  BY <1>1, <1>4, <1>5, <1>10 DEF Issue, Bonus, Spends, KindsAt
<1>11. CASE \/ Revoke(p) \/ Remove(p) \/ Fail(p) \/ SaveKyc(p)
  BY <1>5, <1>11 DEF Revoke, Remove, Fail, SaveKyc
<1>12. CASE Create(p)
  <2>1. open[p].kind = "signup"
    BY <1>1, <1>12 DEF Create, KindsAt
  <2>2. open'[p].at = "mail"
    BY <1>1, <1>5, <1>12 DEF Create, Request
  <2> QED
    BY <2>2 DEF Spends
<1>13. CASE ReadKyc(p) \/ OpenFile(p)
  <2>1. open'[p].at \in {"openFile", "file"}
    BY <1>1, <1>4, <1>5, <1>13 DEF ReadKyc, OpenFile, Request
  <2> QED
    BY <2>1 DEF Spends
<1>14. ASSUME NEW r \in Requests \ {p},
              \/ Begin(r) \/ Fail(r) \/ ReadToken(r) \/ SaveToken(r) \/ Issue(r) \/ Revoke(r)
              \/ ReadUser(r) \/ Create(r) \/ Bonus(r) \/ SaveUser(r) \/ Remove(r) \/ ReadKyc(r)
              \/ OpenFile(r) \/ SaveKyc(r)
       PROVE  open'[p] = open[p]
  BY <1>14, OthersWait
<1>15. CASE UNCHANGED vars \/ \E t \in DOMAIN tokens : Logout(t)
  BY <1>2, <1>15 DEF vars, Logout
<1> QED
  BY <1>2, <1>6, <1>7, <1>8, <1>9, <1>10, <1>11, <1>12, <1>13, <1>14, <1>15 DEF Next

\* What every step but a save of a token leaves of the tokens there are.
OthersKept ==
    /\ UNCHANGED crossed \/ crossed \subseteq crossed'
    /\ \A t \in DOMAIN tokens :
          /\ Dead(tokens[t]) => Dead(tokens'[t])
          /\ tokens'[t].attempts = tokens[t].attempts /\ tokens'[t].guesses = tokens[t].guesses

\* No request begins to spend a token.
NoneSpends ==
    \A p \in Requests : Spends(open'[p]) =>
        /\ Spends(open[p]) /\ open'[p].tok = open[p].tok
        /\ open'[p].kind = open[p].kind /\ open'[p].user = open[p].user

\* A step that inserts and saves no token, and uses no code.
Idles ==
    /\ OthersKept /\ DOMAIN tokens' = DOMAIN tokens /\ UNCHANGED resets
    /\ \A t \in DOMAIN tokens : tokens[t].type \in Codes => tokens'[t].uses = tokens[t].uses
    /\ NoneSpends

\* The requests that end before their time use no code.
LEMMA LeftIdles ==
    ASSUME Typed, NEW r \in Requests, tokens' = TokensLeft(open[r]),
           UNCHANGED <<crossed, resets>>, NoneSpends
    PROVE  Idles
<1>1. \A t \in DOMAIN tokens :
         /\ tokens[t] \in Token /\ open[r].user \in Users
         /\ Uses(open[r], t) \in BOOLEAN
         /\ tokens'[t] = LeftOpen(tokens[t], Uses(open[r], t))
  BY DEF Typed, TypeOK, Request, TokensLeft, Uses
<1>2. \A t \in DOMAIN tokens : LET s == LeftOpen(tokens[t], Uses(open[r], t)) IN
         /\ s.consumed = tokens[t].consumed /\ s.gone = tokens[t].gone
         /\ s.attempts = tokens[t].attempts /\ s.guesses = tokens[t].guesses
         /\ s.uses = tokens[t].uses
  BY <1>1, EditColumns
<1>3. DOMAIN tokens' = DOMAIN tokens
  BY DEF TokensLeft
<1> QED
  BY <1>1, <1>2, <1>3 DEF Idles, OthersKept, Dead

LEMMA IdlesStep ==
    ASSUME Typed, [Next]_vars
    PROVE  Idles \/ \E r \in Requests : SaveToken(r) \/ Issue(r) \/ Revoke(r)
<1> SUFFICES ASSUME \A r \in Requests : ~(SaveToken(r) \/ Issue(r) \/ Revoke(r))
             PROVE  Idles
  OBVIOUS
<1>1. /\ \A t \in DOMAIN tokens : tokens[t] \in Token
      /\ \A r \in Requests : open[r].user \in Users
      /\ crossed \subseteq crossed' /\ NoneSpends
  BY HistoryStep, SpendsStep DEF Typed, TypeOK, Request, NoneSpends
<1>2. ASSUME UNCHANGED <<tokens, resets>>
      PROVE  Idles
  BY <1>1, <1>2 DEF Idles, OthersKept
<1>3. ASSUME NEW t \in DOMAIN tokens, Logout(t)
      PROVE  Idles
  <2>1. \A i \in DOMAIN tokens :
           tokens'[i] = IF i = t THEN [tokens[t] EXCEPT !.consumed = TRUE] ELSE tokens[i]
    BY <1>3 DEF Logout
  <2>2. DOMAIN tokens' = DOMAIN tokens /\ UNCHANGED resets
    BY <1>3 DEF Logout, history
  <2>3. LET s == [tokens[t] EXCEPT !.consumed = TRUE] IN
        /\ s.consumed /\ s.attempts = tokens[t].attempts /\ s.guesses = tokens[t].guesses
        /\ s.uses = tokens[t].uses
    BY <1>1, <1>3 DEF Token
  <2> QED
    BY <1>1, <2>1, <2>2, <2>3 DEF Idles, OthersKept, Dead
<1>4. ASSUME NEW r \in Requests, Remove(r)
      PROVE  Idles
  <2>1. /\ \A i \in DOMAIN tokens : tokens'[i] = Dropped(tokens[i], open[r].user)
        /\ DOMAIN tokens' = DOMAIN tokens /\ UNCHANGED resets
    BY <1>4 DEF Remove, history
  <2>2. \A i \in DOMAIN tokens : LET s == Dropped(tokens[i], open[r].user) IN
           /\ s.gone <=> tokens[i].gone \/ tokens[i].user = open[r].user
           /\ s.consumed = tokens[i].consumed /\ s.attempts = tokens[i].attempts
           /\ s.guesses = tokens[i].guesses /\ s.uses = tokens[i].uses
    BY <1>1, EditColumns
  <2> QED
    BY <1>1, <2>1, <2>2 DEF Idles, OthersKept, Dead
<1>5. ASSUME NEW r \in Requests,
             \/ Begin(r) \/ ReadToken(r) \/ ReadUser(r) \/ Create(r) \/ Bonus(r)
             \/ ReadKyc(r) \/ OpenFile(r) \/ SaveKyc(r)
      PROVE  UNCHANGED <<tokens, resets>>
  BY <1>5 DEF Begin, ReadToken, ReadUser, Create, Bonus, ReadKyc, OpenFile, SaveKyc,
     tables, history
<1>6. CASE UNCHANGED vars
  BY <1>2, <1>6 DEF vars
<1>7. ASSUME NEW r \in Requests, Fail(r)
      PROVE  Idles
  BY <1>1, <1>7, LeftIdles DEF Fail, history
<1>8. ASSUME NEW r \in Requests, SaveUser(r)
      PROVE  Idles
  <2> DEFINE used(t) == open[r].kind \in LinkKinds /\ t = open[r].tok
  <2>1. /\ \A t \in DOMAIN tokens :
              tokens'[t] = Counted(tokens[t], used(t)) /\ used(t) \in BOOLEAN
        /\ DOMAIN tokens' = DOMAIN tokens /\ UNCHANGED resets
    BY <1>8 DEF SaveUser
  \* What a link request is about is no code.
  <2>2. \A t \in DOMAIN tokens : used(t) => tokens[t].type \notin Codes
    BY DEF Typed, Shaped, HasToken, LinkKinds, TokenKinds, TypeFor, Codes
  <2> HIDE DEF used
  <2>3. \A t \in DOMAIN tokens : LET s == Counted(tokens[t], used(t)) IN
           /\ s.consumed = tokens[t].consumed /\ s.gone = tokens[t].gone
           /\ s.attempts = tokens[t].attempts /\ s.guesses = tokens[t].guesses
           /\ s.uses = tokens[t].uses + (IF used(t) THEN 1 ELSE 0)
    BY <1>1, <2>1, EditColumns
  <2>4. \A t \in DOMAIN tokens : tokens[t].uses \in Nat
    BY <1>1 DEF Token
  <2> QED
    BY <1>1, <2>1, <2>2, <2>3, <2>4 DEF Idles, OthersKept, Dead
<1> QED
  BY <1>2, <1>3, <1>4, <1>5, <1>6, <1>7, <1>8 DEF Next

\* Guesses are only begun below the limit.
LEMMA PunishStep ==
    ASSUME Typed, AttemptsCount, [Next]_vars, NEW r \in Requests, open'[r].at = "punish"
    PROVE  open'[r].attempts < MaxOtpAttempts
<1>1. open \in [Requests -> Request] /\ open[r].kind \in KindsAt[open[r].at]
  BY DEF Typed, TypeOK, Shaped
<1>2. CASE open'[r] = open[r]
  BY <1>2 DEF AttemptsCount
<1>3. ASSUME NEW stage, stage # "punish", Goto(r, stage) \/ End(r)
      PROVE  FALSE
  BY <1>1, <1>3 DEF Goto, End, Idle, Request
<1>4. CASE ReadToken(r)
  <2>1. PICK right \in BOOLEAN :
          \/ End(r)
          \/ open' = [open EXCEPT
                ![r].at = AfterToken(open[r].kind, tokens[open[r].tok], right),
                ![r].attempts = tokens[open[r].tok].attempts]
    BY <1>4 DEF ReadToken
  <2>2. ~End(r)
    BY <1>1 DEF End, Idle
  <2>3. /\ AfterToken(open[r].kind, tokens[open[r].tok], right) = "punish"
        /\ open'[r].attempts = tokens[open[r].tok].attempts
    BY <1>1, <2>1, <2>2 DEF Request
  <2>4. tokens[open[r].tok] \in Token
    BY <1>1, <1>4 DEF ReadToken, KindsAt, HasToken, Typed, TypeOK, Shaped
  <2>5. tokens[open[r].tok].attempts \in Nat /\ ~(tokens[open[r].tok].attempts >= MaxOtpAttempts)
    BY <2>3, <2>4 DEF AfterToken, Token
  <2> QED
    BY <2>3, <2>5, RowsOK
<1>5. ASSUME Begin(r) PROVE FALSE
  BY <1>5, BeginStep DEF FirstStage
<1>6. ASSUME ReadUser(r) PROVE FALSE
  <2>1. PICK given \in Passwords :
          LET stage == AfterUser(open[r].kind, users[open[r].user], open[r].word, given)
          IN  \/ End(r)
              \/ open' = [open EXCEPT ![r].at = stage, ![r].row = users[open[r].user]]
    BY <1>6 DEF ReadUser
  <2> DEFINE stage == AfterUser(open[r].kind, users[open[r].user], open[r].word, given)
  <2>2. open'[r].at \in {stage, "idle"}
    BY <1>1, <2>1 DEF Request, End, Idle
  <2>3. stage # "punish"
    BY DEF AfterUser
  <2> QED
    BY <2>2, <2>3
<1>7. ASSUME Create(r) PROVE FALSE
  BY <1>1, <1>3, <1>7 DEF Create, Request
<1>8. ASSUME SaveUser(r) PROVE FALSE
  <2>1. AfterSave(open[r].kind) # "punish"
    BY DEF AfterSave
  <2> QED
    BY <1>3, <1>8, <2>1 DEF SaveUser
<1>9. ASSUME ReadKyc(r) \/ OpenFile(r) PROVE FALSE
  BY <1>1, <1>3, <1>9 DEF ReadKyc, OpenFile, Request
<1>10. ASSUME \/ Fail(r) \/ SaveToken(r) \/ Issue(r) \/ Revoke(r) \/ Bonus(r) \/ Remove(r)
              \/ SaveKyc(r)
       PROVE  FALSE
  BY <1>3, <1>10 DEF Fail, SaveToken, Issue, Revoke, Bonus, Remove, SaveKyc
<1>11. CASE UNCHANGED vars \/ \E t \in DOMAIN tokens : Logout(t)
  BY <1>2, <1>11 DEF vars, Logout
<1> QED
  BY <1>2, <1>4, <1>5, <1>6, <1>7, <1>8, <1>9, <1>10, <1>11, OthersWait DEF Next

\* A step that inserts and saves no token, and uses no code.
LEMMA IdlesKeeps ==
    ASSUME TokensInv, [Next]_vars, Idles
    PROVE  TokensInv'
<1>1. Typed /\ Typed' /\ TokensStay /\ crossed \subseteq crossed'
  BY TypeStep, TokensStep, HistoryStep DEF TokensInv
<1>2. /\ \A t \in DOMAIN tokens :
            /\ tokens[t] \in Token /\ tokens[t].user \in Users
            /\ tokens'[t].user = tokens[t].user /\ tokens'[t].type = tokens[t].type
            /\ tokens'[t].parent = tokens[t].parent /\ tokens'[t].born = tokens[t].born
            /\ Dead(tokens[t]) => Dead(tokens'[t])
            /\ tokens'[t].attempts = tokens[t].attempts /\ tokens'[t].guesses = tokens[t].guesses
            /\ tokens[t].type \in Codes => tokens'[t].uses = tokens[t].uses
      /\ DOMAIN tokens' = DOMAIN tokens /\ resets' = resets
  <2>1. \A t \in DOMAIN tokens : tokens[t] \in Token
    BY <1>1 DEF Typed, TypeOK
  <2>2. \A t \in DOMAIN tokens : tokens[t].user \in Users
    BY <2>1 DEF Token
  <2> QED
    BY <1>1, <2>1, <2>2 DEF TokensStay, Idles, OthersKept
<1>3. \A p \in Requests : Spends(open'[p]) =>
         /\ Spends(open[p]) /\ open'[p].tok = open[p].tok
         /\ open'[p].kind = open[p].kind /\ open'[p].user = open[p].user
  BY DEF Idles, NoneSpends
<1>4. \A p \in Requests : Spends(open[p]) =>
         /\ open[p].tok \in DOMAIN tokens /\ tokens[open[p].tok].user = open[p].user
         /\ tokens[open[p].tok].type \in Codes
  BY <1>1 DEF Typed, Shaped, HasToken, Spends, TokenKinds, TypeFor, Codes
<1>5. SpentIsDead'
  BY <1>1, <1>2, <1>3, <1>4 DEF TokensInv, SpentIsDead
<1>6. ParentIsDead'
  BY <1>1, <1>2 DEF TokensInv, ParentIsDead
<1>7. SpentByOne'
  BY <1>1, <1>2, <1>3, <1>4 DEF TokensInv, SpentByOne
<1>8. UsedIsDead'
  BY <1>1, <1>2 DEF TokensInv, UsedIsDead
<1>9. AttemptsCount'
  BY <1>1, <1>2, PunishStep DEF TokensInv, AttemptsCount
<1>10. ResetEndsSessions'
  BY <1>2 DEF TokensInv, ResetEndsSessions, Dead
<1> QED
  BY <1>1, <1>5, <1>6, <1>7, <1>8, <1>9, <1>10 DEF TokensInv

\* What is known of a token that a request spends.
LEMMA SpendsHas ==
    ASSUME Typed, NEW p \in Requests, Spends(open[p])
    PROVE  /\ open[p].tok \in DOMAIN tokens /\ open[p].tok # 0
           /\ tokens[open[p].tok].user = open[p].user
           /\ tokens[open[p].tok].type = TypeFor[open[p].kind]
           /\ open[p].kind \in {"verifyOtp", "refresh"}
           /\ tokens[open[p].tok].type \in Codes
<1>1. HasToken(open[p]) /\ open[p].kind \in KindsAt[open[p].at]
  BY DEF Typed, Shaped
<1>2. open[p].kind \in {"verifyOtp", "refresh"}
  BY DEF Spends
<1>3. \A t \in DOMAIN tokens : t # 0
  BY DEF Typed, TypeOK
<1> QED
  BY <1>1, <1>2, <1>3 DEF HasToken, TokenKinds, TypeFor, Codes

\* The end of a request that spent its token: the only use of a code.
LEMMA IssueKeeps ==
    ASSUME TokensInv, [Next]_vars, NEW r \in Requests, Issue(r)
    PROVE  TokensInv'
<1> DEFINE q == open[r]
           f == [t \in DOMAIN tokens |-> Counted(tokens[t], t = q.tok)]
           new == NewToken(q.user, IssuedType(q), q.tok, resets[q.user])
<1>1. Typed /\ Typed' /\ TokensStay /\ crossed' = crossed /\ resets' = resets
  BY TypeStep, TokensStep DEF TokensInv, Issue, history
<1>2. ~Spends(open'[r])
  <2>1. open \in [Requests -> Request] /\ q.kind \in KindsAt[q.at]
    BY <1>1 DEF Typed, TypeOK, Shaped
  <2> QED
    BY <2>1 DEF Issue, End, Goto, Idle, Spends, Request, KindsAt
<1>3. CASE UNCHANGED tokens
  <2>1. Idles
    BY <1>1, <1>3, <1>2, OthersWait DEF Idles, OthersKept, NoneSpends
  <2> QED
    BY <2>1, IdlesKeeps
<1>4. CASE tokens' = Append(f, new)
  <2>1. \A t \in DOMAIN tokens : tokens[t] \in Token
    BY <1>1 DEF Typed, TypeOK
  <2>2. /\ DOMAIN tokens = 1 .. Len(tokens) /\ Len(tokens) \in Nat
        /\ DOMAIN tokens' = 1 .. (Len(tokens) + 1)
        /\ \A t \in DOMAIN tokens : tokens'[t] = f[t]
        /\ tokens'[Len(tokens) + 1] = new
    <3>1. tokens \in Seq(Token)
      BY <1>1 DEF Typed, TypeOK
    <3>2. f \in Seq(Token) /\ Len(f) = Len(tokens)
      <4>1. \A t \in DOMAIN tokens : f[t] \in Token
        <5>1. \A t \in DOMAIN tokens : tokens[t].user \in Users /\ (t = q.tok) \in BOOLEAN
          BY <2>1 DEF Token
        <5> QED
          BY <2>1, <5>1, TokenEdits
      <4> QED
        BY <3>1, <4>1, Retouched
    <3> HIDE DEF f, new
    <3> QED
      BY <1>4, <3>1, <3>2
  <2>3. \A t \in DOMAIN tokens :
           /\ tokens'[t].uses = tokens[t].uses + (IF t = q.tok THEN 1 ELSE 0)
           /\ Dead(tokens'[t]) <=> Dead(tokens[t])
           /\ tokens'[t].attempts = tokens[t].attempts /\ tokens'[t].guesses = tokens[t].guesses
           /\ tokens'[t].user = tokens[t].user /\ tokens'[t].type = tokens[t].type
           /\ tokens'[t].parent = tokens[t].parent /\ tokens'[t].born = tokens[t].born
    <3>1. \A t \in DOMAIN tokens : LET s == Counted(tokens[t], t = q.tok) IN
             /\ s.uses = tokens[t].uses + (IF t = q.tok THEN 1 ELSE 0)
             /\ s.consumed = tokens[t].consumed /\ s.gone = tokens[t].gone
             /\ s.attempts = tokens[t].attempts /\ s.guesses = tokens[t].guesses
      <4>1. \A t \in DOMAIN tokens : tokens[t].user \in Users /\ (t = q.tok) \in BOOLEAN
        BY <2>1 DEF Token
      <4> QED
        BY ZenonT(60), <2>1, <4>1, EditColumns
    <3> QED
      BY <1>1, <2>2, <3>1 DEF TokensStay, Dead
  <2>4. /\ new.parent = q.tok /\ new.born = resets[q.user] /\ new.user = q.user
        /\ new.uses = 0 /\ new.guesses = 0 /\ new.attempts = 0 /\ ~Dead(new)
    BY DEF NewToken, Dead
  <2>5. \A p \in Requests : Spends(open'[p]) =>
           /\ p # r /\ Spends(open[p]) /\ open'[p] = open[p]
    BY <1>1, <1>2, OthersWait
  \* The token used, if any, is spent by r.
  <2>6. q.tok # 0 => Spends(q)
    BY <1>1 DEF Typed, Shaped, HasToken, KindsAt, Issue, Spends, SessionKinds, TokenKinds
  <2> HIDE DEF f, new
  <2>7. \A p \in Requests : Spends(open[p]) =>
           open[p].tok \in DOMAIN tokens /\ tokens[open[p].tok].user = open[p].user
    BY <1>1, SpendsHas
  <2>8. SpentIsDead'
    BY <1>1, <2>3, <2>5, <2>7 DEF TokensInv, SpentIsDead
  <2>9. ParentIsDead'
    <3>1. ASSUME q.tok # 0
          PROVE  /\ q.tok \in DOMAIN tokens
                 /\ tokens[q.tok].type = "REFRESH" \/ tokens[q.tok].user \notin crossed
                      => Dead(tokens[q.tok])
      BY <1>1, <2>6, <3>1, SpendsHas DEF TokensInv, SpentIsDead, TypeFor
    <3>2. \A t \in DOMAIN tokens : tokens[t].parent # 0 =>
             /\ tokens[t].parent \in DOMAIN tokens
             /\ tokens[tokens[t].parent].type = "REFRESH"
                   \/ tokens[tokens[t].parent].user \notin crossed
                  => Dead(tokens[tokens[t].parent])
      BY DEF TokensInv, ParentIsDead
    <3>3. ASSUME NEW t \in DOMAIN tokens', tokens'[t].parent # 0
          PROVE  /\ tokens'[t].parent \in DOMAIN tokens
                 /\ tokens[tokens'[t].parent].type = "REFRESH"
                       \/ tokens[tokens'[t].parent].user \notin crossed
                      => Dead(tokens[tokens'[t].parent])
      <4>1. CASE t \in DOMAIN tokens
        BY <2>3, <3>2, <3>3, <4>1
      <4>2. CASE t = Len(tokens) + 1
        BY <2>2, <2>4, <3>1, <3>3, <4>2
      <4> QED
        BY <2>2, <4>1, <4>2
    <3> QED
      BY <1>1, <2>2, <2>3, <3>3 DEF ParentIsDead
  <2>10. SpentByOne'
    <3>1. ASSUME NEW p \in Requests, Spends(open'[p]), open[p].user \notin crossed
          PROVE  open[p].tok # q.tok
      BY <2>5, <2>6, <2>7, <3>1, SpendsHas, <1>1 DEF TokensInv, SpentByOne
    <3>2. \A p \in Requests : Spends(open'[p]) =>
             tokens[open[p].tok].uses \in Nat
      BY <2>1, <2>5, <2>7 DEF Token
    <3> QED
      BY <1>1, <2>3, <2>5, <2>7, <3>1, <3>2 DEF TokensInv, SpentByOne
  <2>11. UsedIsDead'
    <3>1. ASSUME q.tok \in DOMAIN tokens, tokens[q.tok].user \notin crossed
          PROVE  tokens[q.tok].uses = 0 /\ Dead(tokens[q.tok])
      BY <1>1, <2>2, <2>6, <3>1, SpendsHas DEF TokensInv, SpentByOne, SpentIsDead
    <3>2. \A t \in DOMAIN tokens : tokens[t].uses \in Nat
      BY <2>1 DEF Token
    <3>3. ASSUME NEW t \in DOMAIN tokens', tokens'[t].type \in Codes, tokens'[t].user \notin crossed
          PROVE  tokens'[t].uses <= 1 /\ (tokens'[t].uses = 1 => Dead(tokens'[t]))
      BY <2>2, <2>3, <2>4, <3>1, <3>2, <3>3 DEF TokensInv, UsedIsDead
    <3> QED
      BY <1>1, <3>3 DEF UsedIsDead
  <2>12. AttemptsCount'
    BY <1>1, <2>2, <2>3, <2>4, PunishStep, RowsOK DEF TokensInv, AttemptsCount
  <2>13. ResetEndsSessions'
    <3>1. ASSUME NEW t \in DOMAIN tokens', tokens'[t].type = "REFRESH"
          PROVE  Dead(tokens'[t]) \/ tokens'[t].born = resets[tokens'[t].user]
      BY <2>2, <2>3, <2>4, <3>1 DEF TokensInv, ResetEndsSessions, Dead
    <3> QED
      BY <1>1, <3>1 DEF ResetEndsSessions, Dead
  <2> QED
    BY <1>1, <2>8, <2>9, <2>10, <2>11, <2>12, <2>13 DEF TokensInv
<1> QED
  BY <1>3, <1>4 DEF Issue

\* The last statement of a reset ends the sessions there are.
LEMMA RevokeKeeps ==
    ASSUME TokensInv, [Next]_vars, NEW r \in Requests, Revoke(r)
    PROVE  TokensInv'
<1> DEFINE q == open[r]
<1>1. /\ Typed /\ Typed' /\ TokensStay /\ crossed' = crossed
      /\ \A t \in DOMAIN tokens : tokens[t] \in Token
      /\ q.user \in Users /\ resets \in [Users -> Nat]
      /\ resets' = [resets EXCEPT ![q.user] = @ + 1]
      /\ DOMAIN tokens' = DOMAIN tokens
      /\ \A t \in DOMAIN tokens : tokens'[t] = SessionEnded(tokens[t], q.user)
  <2>1. Typed /\ Typed' /\ TokensStay
    BY TypeStep, TokensStep DEF TokensInv
  <2>2. /\ \A t \in DOMAIN tokens : tokens[t] \in Token
        /\ q.user \in Users /\ resets \in [Users -> Nat]
    BY SMTT(30), <2>1 DEF Typed, TypeOK, Request
  <2>3. /\ tokens' = [t \in DOMAIN tokens |-> SessionEnded(tokens[t], q.user)]
        /\ resets' = [resets EXCEPT ![q.user] = @ + 1] /\ crossed' = crossed
    BY DEF Revoke
  <2> QED
    BY <2>1, <2>2, <2>3
<1>2. \A t \in DOMAIN tokens :
         /\ tokens'[t].consumed <=> tokens[t].consumed \/ Open(tokens[t], q.user)
         /\ tokens'[t].gone = tokens[t].gone /\ tokens'[t].uses = tokens[t].uses
         /\ tokens'[t].attempts = tokens[t].attempts /\ tokens'[t].guesses = tokens[t].guesses
         /\ tokens'[t].user = tokens[t].user /\ tokens'[t].type = tokens[t].type
         /\ tokens'[t].parent = tokens[t].parent /\ tokens'[t].born = tokens[t].born
         /\ tokens[t].user \in Users
  <2>1. ASSUME NEW t \in DOMAIN tokens
        PROVE  LET s == SessionEnded(tokens[t], q.user) IN
               /\ s.consumed <=> tokens[t].consumed \/ Open(tokens[t], q.user)
               /\ s.gone = tokens[t].gone /\ s.attempts = tokens[t].attempts
               /\ s.guesses = tokens[t].guesses /\ s.uses = tokens[t].uses
    BY <1>1, EditColumns
  <2>2. \A t \in DOMAIN tokens : tokens[t].user \in Users
    BY <1>1 DEF Token
  <2> QED
    BY <1>1, <2>1, <2>2 DEF TokensStay
<1>3. ~Spends(open'[r])
  BY <1>1 DEF Revoke, Spends, End, Idle, Typed, TypeOK
<1>4. \A p \in Requests : Spends(open'[p]) => Spends(open[p]) /\ open'[p] = open[p]
  BY <1>1, <1>3, OthersWait
<1>5. \A p \in Requests : Spends(open[p]) =>
         open[p].tok \in DOMAIN tokens /\ tokens[open[p].tok].user = open[p].user
  BY <1>1, SpendsHas
<1>6. \A t \in DOMAIN tokens : Dead(tokens[t]) => Dead(tokens'[t])
  BY <1>2 DEF Dead
<1>7. SpentIsDead'
  BY <1>1, <1>2, <1>4, <1>5, <1>6 DEF TokensInv, SpentIsDead
<1>8. ParentIsDead'
  BY <1>1, <1>2, <1>6 DEF TokensInv, ParentIsDead
<1>9. SpentByOne'
  BY <1>1, <1>2, <1>4, <1>5 DEF TokensInv, SpentByOne
<1>10. UsedIsDead'
  BY <1>1, <1>2, <1>6 DEF TokensInv, UsedIsDead
<1>11. AttemptsCount'
  BY <1>1, <1>2, PunishStep DEF TokensInv, AttemptsCount
<1>12. ResetEndsSessions'
  <2>1. ASSUME NEW t \in DOMAIN tokens, tokens[t].type = "REFRESH"
        PROVE  Dead(tokens'[t]) \/ tokens'[t].born = resets'[tokens'[t].user]
    <3>1. CASE tokens[t].user = q.user
      BY <1>2, <2>1, <3>1 DEF Open, Dead
    <3>2. CASE tokens[t].user # q.user
      <4>1. Dead(tokens[t]) \/ tokens[t].born = resets[tokens[t].user]
        BY <2>1 DEF TokensInv, ResetEndsSessions, Dead
      <4> QED
        BY <1>1, <1>2, <1>6, <3>2, <4>1
    <3> QED
      BY <3>1, <3>2
  <2> QED
    BY <1>1, <1>2, <2>1 DEF ResetEndsSessions, Dead
<1> QED
  BY <1>1, <1>7, <1>8, <1>9, <1>10, <1>11, <1>12 DEF TokensInv

\* The save of a token: of one that nobody spends, or on a crossed user.
LEMMA SaveTokenKeeps ==
    ASSUME TokensInv, [Next]_vars, NEW r \in Requests, SaveToken(r)
    PROVE  TokensInv'
<1> DEFINE q == open[r]
           t0 == tokens[q.tok]
<1>1. /\ Typed /\ Typed' /\ TokensStay /\ resets' = resets
      /\ open \in [Requests -> Request] /\ q \in Request
      /\ q.kind \in KindsAt[q.at] /\ HasToken(q)
      /\ \A t \in DOMAIN tokens : tokens[t] \in Token
  BY TypeStep, TokensStep DEF TokensInv, SaveToken, Typed, TypeOK, Shaped
<1>2. /\ q.at \in {"lock", "punish", "consume"} /\ q.kind \in TokenKinds
      /\ q.at # "consume" => q.kind = "verifyOtp"
      /\ q.tok \in DOMAIN tokens /\ t0.user = q.user /\ t0.type = TypeFor[q.kind]
  BY <1>1 DEF SaveToken, KindsAt, TokenKinds, HasToken
<1>3. CASE tokens' = TokensLeft(q) /\ UNCHANGED crossed /\ End(r)
  <2>1. ~Spends(open'[r])
    BY <1>1, <1>3 DEF End, Idle, Spends
  <2>2. NoneSpends
    BY <1>1, <2>1, OthersWait DEF NoneSpends
  <2>3. Idles
    BY <1>1, <1>3, <2>2, LeftIdles
  <2> QED
    BY <2>3, IdlesKeeps
<1>4. CASE /\ tokens' = [tokens EXCEPT ![q.tok] = Saved(t0, q)]
           /\ crossed' = IF Valid(t0) /\ t0.attempts = q.attempts THEN crossed
                         ELSE crossed \cup {q.user}
           /\ IF q.at = "consume" /\ q.kind # "verifyEmail"
              THEN Goto(r, IF q.kind = "resetPassword" THEN "revoke" ELSE "user")
              ELSE End(r)
  <2> DEFINE s == tokens'[q.tok]
  <2>1. /\ s.consumed = (q.at # "punish") /\ s.gone = FALSE
        /\ s.attempts = q.attempts + (IF q.at = "punish" THEN 1 ELSE 0)
        /\ s.guesses = t0.guesses + (IF q.at = "punish" THEN 1 ELSE 0)
        /\ s.uses = t0.uses
        /\ DOMAIN tokens' = DOMAIN tokens
        /\ \A t \in DOMAIN tokens \ {q.tok} : tokens'[t] = tokens[t]
    <3>1. s = Saved(t0, q)
      BY <1>2, <1>4
    <3> QED
      BY <1>1, <1>2, <1>4, <3>1, SavedColumns
  <2>2. \A t \in DOMAIN tokens :
           /\ tokens'[t].user = tokens[t].user /\ tokens'[t].type = tokens[t].type
           /\ tokens'[t].parent = tokens[t].parent /\ tokens'[t].born = tokens[t].born
           /\ tokens[t].uses \in Nat /\ tokens[t].attempts \in Nat /\ tokens[t].guesses \in Nat
    <3>1. \A t \in DOMAIN tokens :
             tokens[t].uses \in Nat /\ tokens[t].attempts \in Nat /\ tokens[t].guesses \in Nat
      BY <1>1 DEF Token
    <3> QED
      BY <1>1, <3>1 DEF TokensStay
  <2>3. crossed \subseteq crossed'
    BY <1>4
  \* A session token ends up dead; so does any that was dead, uncrossed.
  <2>4. q.at # "punish" => Dead(s)
    BY <2>1 DEF Dead
  <2>5. q.kind = "refresh" <=> t0.type = "REFRESH"
    BY <1>2 DEF TypeFor, TokenKinds
  <2>6. q.user \notin crossed' =>
           /\ ~Dead(t0) /\ t0.attempts = q.attempts
           /\ t0.type \in Codes => t0.uses = 0
           /\ t0.guesses = t0.attempts /\ t0.attempts <= MaxOtpAttempts
    <3>1. q.user \notin crossed' =>
             /\ ~t0.gone /\ ~t0.consumed /\ t0.attempts = q.attempts /\ q.user \notin crossed
      BY <1>4 DEF Valid
    <3> QED
      BY <1>2, <2>2, <3>1 DEF TokensInv, UsedIsDead, AttemptsCount, Dead
  <2>7. \A p \in Requests : Spends(open[p]) =>
           open[p].tok \in DOMAIN tokens /\ tokens[open[p].tok].user = open[p].user
           /\ tokens[open[p].tok].type = TypeFor[open[p].kind]
    BY <1>1, SpendsHas
  <2>8. q.user \notin crossed' => \A p \in Requests : Spends(open[p]) => open[p].tok # q.tok
    BY <1>2, <2>3, <2>6, <2>7 DEF TokensInv, SpentIsDead
  <2>9. \A p \in Requests \ {r} : open'[p] = open[p]
    BY <1>1, OthersWait
  <2>10. Spends(open'[r]) => /\ open'[r].tok = q.tok /\ open'[r].user = q.user
                             /\ open'[r].kind = q.kind /\ q.at = "consume"
                             /\ t0.type \in Codes
    BY <1>1, <1>2, <1>4 DEF End, Goto, Idle, Spends, Request, TypeFor, Codes
  <2> HIDE DEF s, t0
  <2>11. SpentIsDead'
    <3>1. ASSUME NEW p \in Requests \ {r}, Spends(open[p]),
                 open[p].kind = "refresh" \/ open[p].user \notin crossed'
          PROVE  Dead(tokens'[open[p].tok])
      <4>1. CASE open[p].tok = q.tok
        BY <1>2, <2>4, <2>5, <2>7, <2>8, <3>1, <4>1 DEF TypeFor, t0, s
      <4>2. CASE open[p].tok # q.tok
        BY <2>1, <2>3, <2>7, <3>1, <4>2 DEF TokensInv, SpentIsDead
      <4> QED
        BY <4>1, <4>2
    <3>2. Spends(open'[r]) => Dead(tokens'[open'[r].tok])
      BY <2>4, <2>10 DEF s
    <3> QED
      BY <2>9, <3>1, <3>2 DEF SpentIsDead
  <2>12. ParentIsDead'
    <3>1. ASSUME NEW t \in DOMAIN tokens, tokens[t].parent # 0
          PROVE  LET p == tokens[t].parent IN
                 /\ p \in DOMAIN tokens
                 /\ tokens[p].type = "REFRESH" \/ tokens[p].user \notin crossed'
                      => Dead(tokens'[p])
      <4> DEFINE p == tokens[t].parent
      <4>1. /\ p \in DOMAIN tokens
            /\ tokens[p].type = "REFRESH" \/ tokens[p].user \notin crossed => Dead(tokens[p])
        BY <3>1 DEF TokensInv, ParentIsDead
      <4>2. CASE p = q.tok
        BY <1>2, <2>3, <2>4, <2>5, <2>6, <4>1, <4>2 DEF t0, s
      <4>3. CASE p # q.tok
        BY <2>1, <2>3, <4>1, <4>3
      <4> QED
        BY <4>1, <4>2, <4>3
    <3> QED
      BY <2>1, <2>2, <3>1 DEF ParentIsDead
  <2>13. SpentByOne'
    <3>1. ASSUME NEW p \in Requests \ {r}, Spends(open[p]), open[p].user \notin crossed'
          PROVE  /\ open[p].tok # q.tok
                 /\ tokens'[open[p].tok].uses = 0
                 /\ \A o \in Requests : Spends(open[o]) /\ open[o].tok = open[p].tok => o = p
      <4>1. open[p].tok # q.tok
        BY <1>2, <2>7, <2>8, <3>1 DEF t0
      <4> QED
        BY <2>1, <2>3, <2>7, <3>1, <4>1 DEF TokensInv, SpentByOne
    <3>2. Spends(open'[r]) /\ q.user \notin crossed' => s.uses = 0
      BY <2>1, <2>6, <2>10
    <3>3. Spends(open'[r]) /\ q.user \notin crossed' =>
             \A p \in Requests \ {r} : Spends(open[p]) => open[p].tok # q.tok
      BY <2>8
    <3>4. ASSUME NEW p \in Requests, Spends(open'[p]), open'[p].user \notin crossed'
          PROVE  /\ tokens'[open'[p].tok].uses = 0
                 /\ \A o \in Requests : Spends(open'[o]) /\ open'[o].tok = open'[p].tok => o = p
      <4>1. CASE p = r
        BY <2>9, <2>10, <3>2, <3>3, <3>4, <4>1 DEF s
      <4>2. CASE p # r
        BY <2>9, <2>10, <3>1, <3>4, <4>2
      <4> QED
        BY <4>1, <4>2
    <3> QED
      BY <3>4 DEF SpentByOne
  <2>14. UsedIsDead'
    <3>1. ASSUME q.user \notin crossed', t0.type \in Codes
          PROVE  s.uses <= 1 /\ (s.uses = 1 => Dead(s))
      BY <1>2, <2>1, <2>4, <2>6, <3>1
    <3>2. ASSUME NEW t \in DOMAIN tokens, tokens[t].type \in Codes, tokens[t].user \notin crossed'
          PROVE  tokens'[t].uses <= 1 /\ (tokens'[t].uses = 1 => Dead(tokens'[t]))
      BY <1>2, <2>1, <2>3, <3>1, <3>2 DEF TokensInv, UsedIsDead, s, t0
    <3> QED
      BY <2>1, <2>2, <3>2 DEF UsedIsDead
  <2>15. AttemptsCount'
    <3>1. q.at = "punish" => q.attempts < MaxOtpAttempts
      BY DEF TokensInv, AttemptsCount
    <3>2. ASSUME q.user \notin crossed'
          PROVE  s.guesses = s.attempts /\ s.attempts <= MaxOtpAttempts
      BY <1>1, <1>2, <2>1, <2>2, <2>6, <3>1, <3>2, RowsOK DEF t0, Request
    <3>3. ASSUME NEW t \in DOMAIN tokens, tokens[t].user \notin crossed'
          PROVE  tokens'[t].guesses = tokens'[t].attempts /\ tokens'[t].attempts <= MaxOtpAttempts
      BY <1>2, <2>1, <2>3, <3>2, <3>3 DEF TokensInv, AttemptsCount, s, t0
    <3>4. \A p \in Requests : open'[p].at = "punish" => open'[p].attempts < MaxOtpAttempts
      BY <1>1, PunishStep DEF TokensInv
    <3> QED
      BY <2>1, <2>2, <3>3, <3>4 DEF AttemptsCount
  <2>16. ResetEndsSessions'
    <3>1. ASSUME NEW t \in DOMAIN tokens, tokens[t].type = "REFRESH"
          PROVE  Dead(tokens'[t]) \/ tokens[t].born = resets[tokens[t].user]
      <4>1. CASE t = q.tok
        BY <1>2, <2>4, <2>5, <3>1, <4>1 DEF s, t0
      <4>2. CASE t # q.tok
        BY <2>1, <3>1, <4>2 DEF TokensInv, ResetEndsSessions, Dead
      <4> QED
        BY <4>1, <4>2
    <3> QED
      BY <1>1, <2>1, <2>2, <3>1 DEF ResetEndsSessions, Dead
  <2> QED
    BY <1>1, <2>11, <2>12, <2>13, <2>14, <2>15, <2>16 DEF TokensInv
<1> QED
  BY <1>3, <1>4 DEF SaveToken

LEMMA TokensAlways == Spec => []TokensInv
<1>1. TokensInv /\ [Next]_vars => TokensInv'
  BY IdlesStep, IdlesKeeps, IssueKeeps, RevokeKeeps, SaveTokenKeeps DEF TokensInv
<1> QED
  BY <1>1, TokensInit, PTL DEF Spec

-----------------------------------------------------------------------------
(* Links: each use is under way, lost, or the one that killed the link.    *)

\* A link is used by the save of a user only.
LEMMA UsesStep ==
    ASSUME Typed, [Next]_vars, NEW p \in Requests, NEW t, Uses(open'[p], t), ~SaveUser(p)
    PROVE  open'[p] = open[p]
<1> SUFFICES ASSUME open'[p] # open[p] PROVE FALSE
  OBVIOUS
<1>1. open \in [Requests -> Request] /\ open[p] \in Request /\ open[p].kind \in KindsAt[open[p].at]
  BY DEF Typed, TypeOK, Shaped
<1>2. ASSUME NEW stage, stage # "consume", Goto(p, stage) \/ End(p)
      PROVE  FALSE
  BY <1>1, <1>2 DEF Goto, End, Idle, Request, Uses
<1>3. ASSUME Begin(p) PROVE FALSE
  BY <1>3, BeginStep DEF FirstStage, Uses
<1>4. ASSUME ReadToken(p) PROVE FALSE
  <2>1. PICK right \in BOOLEAN :
          LET stage == AfterToken(open[p].kind, tokens[open[p].tok], right)
          IN  \/ End(p)
              \/ open' = [open EXCEPT ![p].at = stage, ![p].attempts = tokens[open[p].tok].attempts]
    BY <1>4 DEF ReadToken
  <2> DEFINE stage == AfterToken(open[p].kind, tokens[open[p].tok], right)
  <2>2. open'[p].at = stage /\ open'[p].kind = open[p].kind
    BY <1>1, <1>2, <2>1 DEF Request
  <2>3. open[p].kind \in LinkKinds => stage # "consume"
    BY DEF AfterToken
  <2> QED
    BY <2>2, <2>3 DEF Uses
<1>5. ASSUME ReadUser(p) PROVE FALSE
  <2>1. PICK given \in Passwords :
          LET stage == AfterUser(open[p].kind, users[open[p].user], open[p].word, given)
          IN  \/ End(p)
              \/ open' = [open EXCEPT ![p].at = stage, ![p].row = users[open[p].user]]
    BY <1>5 DEF ReadUser
  <2> DEFINE stage == AfterUser(open[p].kind, users[open[p].user], open[p].word, given)
  <2>2. open'[p].at \in {stage, "idle"}
    BY <1>1, <2>1 DEF Request, End, Idle
  <2>3. stage # "consume"
    BY DEF AfterUser
  <2> QED
    BY <2>2, <2>3 DEF Uses
<1>6. ASSUME Create(p) PROVE FALSE
  BY <1>1, <1>2, <1>6 DEF Create, Request, Uses
<1>7. ASSUME ReadKyc(p) \/ OpenFile(p) PROVE FALSE
  BY <1>1, <1>2, <1>7 DEF ReadKyc, OpenFile, Request, Uses
<1>8. ASSUME \/ Fail(p) \/ SaveToken(p) \/ Issue(p) \/ Revoke(p) \/ Bonus(p) \/ Remove(p)
             \/ SaveKyc(p)
      PROVE  FALSE
  BY <1>2, <1>8 DEF Fail, SaveToken, Issue, Revoke, Bonus, Remove, SaveKyc
<1>9. CASE UNCHANGED vars \/ \E i \in DOMAIN tokens : Logout(i)
  BY <1>9 DEF vars, Logout
<1> QED
  BY <1>3, <1>4, <1>5, <1>6, <1>7, <1>8, <1>9, OthersWait DEF Next

\* The columns LinkUses is about, and the set of requests it counts.
LEMMA LinkStep ==
    ASSUME Typed, [Next]_vars, NEW t \in DOMAIN tokens, tokens[t].type \notin Codes,
           tokens[t].user \notin crossed'
    PROVE  \/ /\ UsedBy(t)' = UsedBy(t)
              /\ tokens'[t].uses = tokens[t].uses /\ tokens'[t].lost = tokens[t].lost
              /\ Dead(tokens[t]) => Dead(tokens'[t])
           \/ \E r \in Requests \ UsedBy(t) :
              /\ UsedBy(t)' = UsedBy(t) \cup {r}
              /\ tokens'[t].uses = tokens[t].uses + 1 /\ tokens'[t].lost = tokens[t].lost
              /\ Dead(tokens[t]) => Dead(tokens'[t])
           \/ \E r \in UsedBy(t) :
              /\ UsedBy(t)' = UsedBy(t) \ {r}
              /\ tokens'[t].uses = tokens[t].uses
              /\ \/ /\ tokens'[t].lost = tokens[t].lost + 1
                    /\ Dead(tokens[t]) => Dead(tokens'[t])
                 \/ /\ tokens'[t].lost = tokens[t].lost
                    /\ ~Dead(tokens[t]) /\ Dead(tokens'[t])
<1> DEFINE U == UsedBy(t)
           V == UsedBy(t)'
           Calm == /\ V = U
                   /\ tokens'[t].uses = tokens[t].uses /\ tokens'[t].lost = tokens[t].lost
                   /\ Dead(tokens[t]) => Dead(tokens'[t])
           Gains(r) == /\ r \notin U /\ V = U \cup {r}
                       /\ tokens'[t].uses = tokens[t].uses + 1 /\ tokens'[t].lost = tokens[t].lost
                       /\ Dead(tokens[t]) => Dead(tokens'[t])
           Drops(r) == /\ r \in U /\ V = U \ {r}
                       /\ tokens'[t].uses = tokens[t].uses
                       /\ \/ /\ tokens'[t].lost = tokens[t].lost + 1
                             /\ Dead(tokens[t]) => Dead(tokens'[t])
                          \/ /\ tokens'[t].lost = tokens[t].lost
                             /\ ~Dead(tokens[t]) /\ Dead(tokens'[t])
<1> SUFFICES Calm \/ (\E r \in Requests : Gains(r) \/ Drops(r))
  OBVIOUS
<1>1. /\ tokens[t] \in Token /\ open \in [Requests -> Request]
      /\ tokens[t].uses \in Nat /\ tokens[t].lost \in Nat /\ t # 0
      /\ \A r \in Requests :
            /\ open[r] \in Request /\ open[r].user \in Users
            /\ open[r].kind \in KindsAt[open[r].at] /\ HasToken(open[r])
            /\ open[r].tok = t => open[r].kind \in LinkKinds
  <2>1. tokens[t] \in Token /\ t # 0
    BY DEF Typed, TypeOK
  <2>2. tokens[t].uses \in Nat /\ tokens[t].lost \in Nat
    BY <2>1 DEF Token
  <2>3. \A r \in Requests :
           /\ open[r] \in Request /\ open[r].user \in Users
           /\ open[r].kind \in KindsAt[open[r].at] /\ HasToken(open[r])
    BY DEF Typed, TypeOK, Shaped, Request
  <2>4. \A r \in Requests : open[r].tok = t => open[r].kind \in LinkKinds
    BY <2>1, <2>3 DEF HasToken, LinkKinds, TokenKinds, TypeFor, Codes
  <2> QED
    BY <2>1, <2>2, <2>3, <2>4 DEF Typed, TypeOK
<1>2. \A r \in Requests : /\ r \in U <=> Uses(open[r], t)
                          /\ r \in V <=> Uses(open'[r], t)
  BY DEF UsedBy, Uses
<1>3. U \subseteq Requests /\ V \subseteq Requests
  BY DEF UsedBy
<1> HIDE DEF U, V
<1> DEFINE Others(r) == \A p \in Requests \ {r} : open'[p] = open[p]
\* What becomes of the set when one request moves.
<1>17. ASSUME NEW r \in Requests, Others(r), NEW p \in Requests \ {r}
       PROVE  p \in V <=> p \in U
  BY <1>2, <1>17
<1>4. ASSUME NEW r \in Requests, Others(r), ~Uses(open'[r], t)
      PROVE  V = U \ {r}
  BY <1>2, <1>3, <1>4, <1>17
<1>5. ASSUME NEW r \in Requests, Others(r), Uses(open'[r], t)
      PROVE  V = U \cup {r}
  BY <1>2, <1>3, <1>5, <1>17
<1>6. ASSUME NEW r \in Requests, Others(r), ~Uses(open[r], t), ~Uses(open'[r], t)
      PROVE  V = U
  <2>1. r \notin U
    BY <1>2, <1>6
  <2> QED
    BY <1>4, <1>6, <2>1
<1> HIDE DEF Others
<1>7. CASE UNCHANGED vars
  <2>1. V = U
    BY <1>7 DEF vars, UsedBy, Uses, U, V
  <2> QED
    BY <1>7, <2>1 DEF vars
<1>8. ASSUME NEW i \in DOMAIN tokens, Logout(i)
      PROVE  Calm
  <2>1. V = U
    BY <1>8 DEF Logout, UsedBy, Uses, U, V
  <2>2. LET s == [tokens[t] EXCEPT !.consumed = TRUE] IN
        s.consumed /\ s.uses = tokens[t].uses /\ s.lost = tokens[t].lost
    BY <1>1 DEF Token
  <2>3. tokens'[t] = tokens[t] \/ tokens'[t] = [tokens[t] EXCEPT !.consumed = TRUE]
    BY <1>8 DEF Logout
  <2> QED
    BY <2>1, <2>2, <2>3 DEF Dead
\* A request that ends where it would have saved the link loses its use.
<1>9. ASSUME NEW r \in Requests, Others(r), tokens' = TokensLeft(open[r]), End(r)
      PROVE  Calm \/ Drops(r)
  <2>1. ~Uses(open'[r], t)
    BY <1>1, <1>9 DEF End, Idle, Uses
  <2>2. /\ tokens'[t] = LeftOpen(tokens[t], Uses(open[r], t))
        /\ Uses(open[r], t) \in BOOLEAN
    BY <1>9 DEF TokensLeft, Uses
  <2>3. /\ tokens'[t].lost = tokens[t].lost + (IF Uses(open[r], t) THEN 1 ELSE 0)
        /\ tokens'[t].consumed = tokens[t].consumed /\ tokens'[t].gone = tokens[t].gone
        /\ tokens'[t].uses = tokens[t].uses
    BY <1>1, <2>2, EditColumns
  <2>4. CASE Uses(open[r], t)
    <3>1. r \in U /\ V = U \ {r}
      BY <1>2, <1>4, <1>9, <2>1, <2>4
    <3> QED
      BY <2>3, <2>4, <3>1 DEF Dead
  <2>5. CASE ~Uses(open[r], t)
    BY <1>1, <1>6, <1>9, <2>1, <2>3, <2>5 DEF Dead
  <2> QED
    BY <2>4, <2>5
<1>10. ASSUME NEW r \in Requests, Fail(r)
       PROVE  Calm \/ Drops(r)
  BY <1>9, <1>10, OthersWait DEF Fail, Others
<1>11. ASSUME NEW r \in Requests, SaveUser(r)
       PROVE  Calm \/ Gains(r)
  <2> DEFINE q == open[r]
             used == q.kind \in LinkKinds /\ t = q.tok
  <2>1. Others(r) /\ ~Uses(q, t)
    BY <1>11, OthersWait DEF SaveUser, Uses, Others
  <2>2. tokens'[t] = Counted(tokens[t], used) /\ used \in BOOLEAN
    BY <1>11 DEF SaveUser
  <2>3. /\ used => Uses(open'[r], t)
        /\ ~used => ~Uses(open'[r], t)
    <3>1. used => open' = [open EXCEPT ![r].at = "consume"]
      BY <1>11 DEF SaveUser, AfterSave, Goto, LinkKinds, SessionKinds
    <3>2. \/ open'[r] = Idle
          \/ open'[r].tok = q.tok /\ open'[r].kind = q.kind
      BY <1>1, <1>11 DEF SaveUser, End, Goto, Request
    <3>3. used => Uses(open'[r], t)
      BY <1>1, <3>1 DEF Uses, Request
    <3> QED
      BY <3>2, <3>3 DEF Uses, Idle
  <2> HIDE DEF used
  <2>4. /\ tokens'[t].uses = tokens[t].uses + (IF used THEN 1 ELSE 0)
        /\ tokens'[t].consumed = tokens[t].consumed /\ tokens'[t].gone = tokens[t].gone
        /\ tokens'[t].lost = tokens[t].lost
    BY <1>1, <2>2, EditColumns
  <2>5. CASE used
    <3>1. r \notin U /\ V = U \cup {r}
      BY <1>2, <1>5, <2>1, <2>3, <2>5
    <3> QED
      BY <2>4, <2>5, <3>1 DEF Dead
  <2>6. CASE ~used
    BY <1>1, <1>6, <2>1, <2>3, <2>4, <2>6 DEF Dead
  <2> QED
    BY <2>5, <2>6
\* A link is saved consumed, by a request that has used it.
<1>12. ASSUME NEW r \in Requests, SaveToken(r)
       PROVE  Calm \/ Drops(r)
  <2> DEFINE q == open[r]
  <2>1. Others(r) /\ q.at \in {"lock", "punish", "consume"}
    BY <1>12, OthersWait DEF SaveToken, Others
  <2>2. CASE tokens' = TokensLeft(q) /\ End(r)
    BY <1>9, <2>1, <2>2
  <2>3. CASE /\ tokens' = [tokens EXCEPT ![q.tok] = Saved(tokens[q.tok], q)]
             /\ crossed' = IF Valid(tokens[q.tok]) /\ tokens[q.tok].attempts = q.attempts THEN crossed
                           ELSE crossed \cup {q.user}
             /\ IF q.at = "consume" /\ q.kind # "verifyEmail"
                THEN Goto(r, IF q.kind = "resetPassword" THEN "revoke" ELSE "user")
                ELSE End(r)
    <3>1. ~Uses(open'[r], t)
      BY <1>1, <2>3 DEF End, Goto, Idle, Uses, Request
    <3>2. CASE q.tok = t
      <4>1. q.kind \in LinkKinds /\ q.at = "consume"
        BY <1>1, <2>1, <3>2 DEF KindsAt, LinkKinds
      <4>2. r \in U /\ V = U \ {r}
        BY <1>2, <1>4, <2>1, <3>1, <3>2, <4>1 DEF Uses
      <4>3. ~Dead(tokens[t])
        BY <1>1, <2>3, <3>2 DEF HasToken, LinkKinds, TokenKinds, Valid, Dead
      <4>4. tokens'[t] = Saved(tokens[t], q)
        BY <2>3, <3>2
      <4>5. /\ tokens'[t].consumed = (q.at # "punish")
            /\ tokens'[t].uses = tokens[t].uses /\ tokens'[t].lost = tokens[t].lost
        <5> DEFINE s == Saved(tokens[t], q)
        <5>1. tokens[t] \in Token /\ q \in Request
          BY <1>1
        <5> HIDE DEF q
        <5>2. s.consumed = (q.at # "punish") /\ s.uses = tokens[t].uses /\ s.lost = tokens[t].lost
          BY <5>1, SavedColumns
        <5> HIDE DEF s
        <5> QED
          BY <4>4, <5>2 DEF s
      <4> QED
        BY <4>1, <4>2, <4>3, <4>5 DEF Dead
    <3>3. CASE q.tok # t
      <4>1. tokens'[t] = tokens[t]
        BY <2>3, <3>3
      <4>2. ~Uses(q, t)
        BY <3>3 DEF Uses
      <4> QED
        BY <1>6, <2>1, <3>1, <4>1, <4>2
    <3> QED
      BY <3>2, <3>3
  <2> QED
    BY <1>12, <2>2, <2>3 DEF SaveToken
\* The other statements of a request use no link.
<1>13. ASSUME NEW r \in Requests, Others(r), open[r].at # "consume", ~SaveUser(r)
       PROVE  V = U
  <2>1. ~Uses(open[r], t)
    BY <1>13 DEF Uses
  <2>2. ~Uses(open'[r], t)
    BY <1>13, <2>1, UsesStep
  <2> QED
    BY <1>6, <1>13, <2>1, <2>2
<1>14. ASSUME NEW r \in Requests,
              \/ Begin(r) \/ ReadToken(r) \/ ReadUser(r) \/ Create(r) \/ Bonus(r)
              \/ ReadKyc(r) \/ OpenFile(r) \/ SaveKyc(r)
       PROVE  Calm
  <2>1. Others(r) /\ open[r].at # "consume" /\ UNCHANGED tokens /\ ~SaveUser(r)
    BY <1>14, OthersWait DEF Others, Begin, ReadToken, ReadUser, Create, Bonus, ReadKyc,
       OpenFile, SaveKyc, SaveUser, tables
  <2> QED
    BY <1>13, <2>1
<1>15. ASSUME NEW r \in Requests, Issue(r)
       PROVE  Calm
  <2> DEFINE q == open[r]
             f == [i \in DOMAIN tokens |-> Counted(tokens[i], i = q.tok)]
  <2>1. Others(r) /\ q.at # "consume" /\ ~SaveUser(r)
    BY <1>15, OthersWait DEF Others, Issue, SaveUser
  <2>2. q.tok # t
    BY <1>1, <1>15 DEF Issue, KindsAt, SessionKinds, LinkKinds
  <2>3. UNCHANGED tokens \/ tokens'[t] = f[t]
    <3>1. ASSUME NEW new, tokens' = Append(f, new)
          PROVE  tokens'[t] = f[t]
      <4>1. /\ tokens \in Seq(Token)
            /\ \A i \in DOMAIN tokens : tokens[i] \in Token /\ tokens[i].user \in Users
        <5>1. tokens \in Seq(Token) /\ \A i \in DOMAIN tokens : tokens[i] \in Token
          BY DEF Typed, TypeOK
        <5> QED
          BY <5>1 DEF Token
      <4>2. \A i \in DOMAIN tokens : f[i] \in Token
        <5>1. \A i \in DOMAIN tokens : (i = q.tok) \in BOOLEAN
          OBVIOUS
        <5> QED
          BY <4>1, <5>1, TokenEdits
      <4>3. f \in Seq(Token) /\ Len(f) = Len(tokens) /\ t \in 1 .. Len(tokens)
        BY <4>1, <4>2, Retouched
      <4> HIDE DEF f
      <4> QED
        BY <3>1, <4>3
    <3> QED
      BY <1>15, <3>1 DEF Issue
  <2>4. f[t] = Counted(tokens[t], t = q.tok) /\ (t = q.tok) = FALSE
    BY <2>2
  <2>5. LET s == Counted(tokens[t], FALSE) IN
        /\ s.uses = tokens[t].uses /\ s.lost = tokens[t].lost
        /\ s.consumed = tokens[t].consumed /\ s.gone = tokens[t].gone
    BY <1>1 DEF Counted, Token
  <2> QED
    BY <1>13, <2>1, <2>3, <2>4, <2>5 DEF Dead
<1>16. ASSUME NEW r \in Requests, Revoke(r) \/ Remove(r)
       PROVE  Calm
  <2>1. Others(r) /\ open[r].at # "consume" /\ ~SaveUser(r)
    BY <1>16, OthersWait DEF Others, Revoke, Remove, SaveUser
  <2>2. \/ tokens'[t] = SessionEnded(tokens[t], open[r].user)
        \/ tokens'[t] = Dropped(tokens[t], open[r].user)
    BY <1>16 DEF Revoke, Remove
  <2>3. \A u \in Users :
           /\ LET s == SessionEnded(tokens[t], u) IN
              /\ s.uses = tokens[t].uses /\ s.lost = tokens[t].lost
              /\ Dead(tokens[t]) => Dead(s)
           /\ LET s == Dropped(tokens[t], u) IN
              /\ s.uses = tokens[t].uses /\ s.lost = tokens[t].lost
              /\ Dead(tokens[t]) => Dead(s)
    BY <1>1 DEF SessionEnded, Dropped, Token, Dead
  <2>4. open[r].user \in Users
    BY <1>1
  <2> QED
    BY <1>13, <2>1, <2>2, <2>3, <2>4
<1> HIDE DEF Calm, Gains, Drops
<1> QED
  BY <1>7, <1>8, <1>10, <1>11, <1>12, <1>14, <1>15, <1>16 DEF Next

LEMMA LinkKeeps ==
    ASSUME TokensInv, LinkUses, [Next]_vars
    PROVE  LinkUses'
<1> DEFINE Kill(s) == IF Dead(s) THEN 1 ELSE 0
<1>1. /\ Typed /\ Typed' /\ TokensStay /\ crossed \subseteq crossed'
      /\ \A t \in DOMAIN tokens' : tokens'[t] \in Token
  BY TypeStep, TokensStep, HistoryStep DEF TokensInv, Typed, TypeOK
<1>2. \A t : /\ IsFiniteSet(UsedBy(t)) /\ Cardinality(UsedBy(t)) \in Nat
             /\ Cardinality(UsedBy(t)') \in Nat
  <2>1. \A t : UsedBy(t) \subseteq Requests /\ UsedBy(t)' \subseteq Requests
    BY DEF UsedBy
  <2>2. \A t : IsFiniteSet(UsedBy(t)) /\ IsFiniteSet(UsedBy(t)')
    BY <2>1, AccountsOK, FS_Subset
  <2> QED
    BY <2>2, FS_CardinalityType
<1>3. ASSUME NEW t \in DOMAIN tokens, tokens[t].type \notin Codes, tokens[t].user \notin crossed'
      PROVE  tokens'[t].uses <= tokens'[t].lost + Cardinality(UsedBy(t)') + Kill(tokens'[t])
  <2>1. tokens[t].uses <= tokens[t].lost + Cardinality(UsedBy(t)) + Kill(tokens[t])
    BY <1>1, <1>3 DEF LinkUses
  <2>2. /\ tokens[t].uses \in Nat /\ tokens[t].lost \in Nat
        /\ tokens'[t].uses \in Nat /\ tokens'[t].lost \in Nat
    <3>1. tokens[t] \in Token /\ tokens'[t] \in Token
      BY <1>1 DEF Typed, TypeOK, TokensStay
    <3> QED
      BY <3>1 DEF Token
  <2>3. \A r : /\ r \notin UsedBy(t) => Cardinality(UsedBy(t) \cup {r}) = Cardinality(UsedBy(t)) + 1
               /\ r \in UsedBy(t) => Cardinality(UsedBy(t) \ {r}) = Cardinality(UsedBy(t)) - 1
    BY <1>2, FS_AddElement, FS_RemoveElement
  <2> QED
    BY <1>1, <1>2, <1>3, <2>1, <2>2, <2>3, LinkStep
\* A new token has not been used.
<1>4. ASSUME NEW t \in DOMAIN tokens', t \notin DOMAIN tokens
      PROVE  tokens'[t].uses = 0 /\ tokens'[t].lost = 0
  <2>1. PICK r \in Requests : Issue(r)
    <3>1. Idles \/ \E r \in Requests : SaveToken(r) \/ Issue(r) \/ Revoke(r)
      BY <1>1, IdlesStep
    <3>2. \A r \in Requests : SaveToken(r) \/ Revoke(r) => DOMAIN tokens' = DOMAIN tokens
      BY DEF SaveToken, Revoke, TokensLeft
    <3> QED
      BY <1>4, <3>1, <3>2 DEF Idles
  <2> DEFINE q == open[r]
             f == [i \in DOMAIN tokens |-> Counted(tokens[i], i = q.tok)]
             new == NewToken(q.user, IssuedType(q), q.tok, resets[q.user])
  <2>2. tokens' = Append(f, new)
    BY <1>4, <2>1 DEF Issue
  <2>3. new.uses = 0 /\ new.lost = 0
    BY DEF NewToken
  <2>4. tokens \in Seq(Token) /\ \A i \in DOMAIN tokens : tokens[i] \in Token
    BY <1>1 DEF Typed, TypeOK
  <2>5. \A i \in DOMAIN tokens : f[i] \in Token
    <3>1. \A i \in DOMAIN tokens : tokens[i].user \in Users /\ (i = q.tok) \in BOOLEAN
      BY <2>4 DEF Token
    <3> QED
      BY <2>4, <3>1, TokenEdits
  <2>6. f \in Seq(Token) /\ Len(f) = Len(tokens) /\ DOMAIN f = DOMAIN tokens
    BY <2>4, <2>5, Retouched
  <2> HIDE DEF f, new
  <2>7. DOMAIN tokens' = 1 .. (Len(f) + 1) /\ DOMAIN f = 1 .. Len(f) /\ Len(f) \in Nat
        /\ tokens'[Len(f) + 1] = new
    BY <2>2, <2>6
  <2>8. t = Len(f) + 1
    BY <1>4, <2>6, <2>7
  <2> QED
    BY <2>3, <2>7, <2>8
<1>5. ASSUME NEW t \in DOMAIN tokens', tokens'[t].type \notin Codes,
             tokens'[t].user \notin crossed'
      PROVE  tokens'[t].uses <= tokens'[t].lost + Cardinality(UsedBy(t)') + Kill(tokens'[t])
  <2>1. CASE t \in DOMAIN tokens
    BY <1>1, <1>3, <1>5, <2>1 DEF TokensStay
  <2>2. CASE t \notin DOMAIN tokens
    BY <1>2, <1>4, <2>2
  <2> QED
    BY <2>1, <2>2
<1>6. \A t : Cardinality(UsedBy(t))' = Cardinality(UsedBy(t)')
  OBVIOUS
<1> QED
  BY <1>5, <1>6 DEF LinkUses

LEMMA LinksAlways == Spec => []LinkUses
<1>1. Init => LinkUses
  <2> SUFFICES ASSUME Init PROVE LinkUses
    OBVIOUS
  <2>1. \A t \in DOMAIN tokens : tokens[t].uses = 0 /\ tokens[t].lost = 0
    <3>1. tokens = FirstTokens /\ FirstTokens \in Seq(Token)
      BY AccountsOK DEF Init
    <3>2. \A t \in DOMAIN tokens :
             tokens[t] = NewToken(tokens[t].user, tokens[t].type, 0, 0)
      BY <3>1, AccountsOK
    <3> QED
      BY <3>2 DEF NewToken
  <2>2. \A t : UsedBy(t) = {}
    BY DEF Init, UsedBy, Uses, Idle
  <2>3. Cardinality({}) = 0
    BY FS_EmptySet
  <2> QED
    BY <2>1, <2>2, <2>3 DEF LinkUses
<1>2. TokensInv /\ LinkUses /\ [Next]_vars => LinkUses'
  BY LinkKeeps
<1> QED
  BY <1>1, <1>2, TokensAlways, PTL DEF Spec

-----------------------------------------------------------------------------
(* The theorems about tokens.                                              *)

\* A completed password reset ends every session opened before it, and no refresh
\* under way saves one back.
THEOREM SessionsEndWithReset == Spec => []ResetEndsSessions
<1>1. TokensInv => ResetEndsSessions
  BY DEF TokensInv
<1> QED
  BY <1>1, TokensAlways, PTL

\* A session token is dead before its successor exists, and stays dead.
THEOREM DeadBeforeItsSuccessor == Spec => []DeadBeforeSuccessor
<1>1. TokensInv => DeadBeforeSuccessor
  BY DEF TokensInv, ParentIsDead, DeadBeforeSuccessor, Dead
<1> QED
  BY <1>1, TokensAlways, PTL

\* Any number of requests with one token, until a stale row of its user is saved:
\* one of them gets the session a code or session token stands for; a link takes
\* effect once, and once more for each request that ended between its two saves.
THEOREM TokenUsedOnce == Spec => []UsedOnce
<1>1. TokensInv /\ LinkUses => UsedOnce
  <2> SUFFICES ASSUME TokensInv, LinkUses, NEW t \in DOMAIN tokens,
                      tokens[t].user \notin crossed, \A r \in Requests : ~Uses(open[r], t)
               PROVE  tokens[t].uses <= 1 + tokens[t].lost
    BY DEF UsedOnce
  <2>1. tokens[t].uses \in Nat /\ tokens[t].lost \in Nat
    <3>1. tokens[t] \in Token
      BY DEF TokensInv, Typed, TypeOK
    <3> QED
      BY <3>1 DEF Token
  <2>2. CASE tokens[t].type \in Codes
    BY <2>1, <2>2 DEF TokensInv, UsedIsDead
  <2>3. CASE tokens[t].type \notin Codes
    <3>1. UsedBy(t) = {}
      BY DEF UsedBy
    <3>2. Cardinality(UsedBy(t)) = 0
      BY <3>1, FS_EmptySet
    <3>3. tokens[t].uses <= tokens[t].lost + 0 + (IF Dead(tokens[t]) THEN 1 ELSE 0)
      BY <2>3, <3>2 DEF LinkUses
    <3> QED
      BY <2>1, <3>3
  <2> QED
    BY <2>2, <2>3
<1> QED
  BY <1>1, TokensAlways, LinksAlways, PTL

\* At most MAX_OTP_ATTEMPTS wrong codes are refused one by one, until a stale row
\* is saved.
THEOREM GuessesAreBounded == Spec => []GuessesBounded
<1>1. TokensInv => GuessesBounded
  <2> SUFFICES ASSUME TokensInv, NEW t \in DOMAIN tokens, tokens[t].user \notin crossed
               PROVE  tokens[t].guesses <= MaxOtpAttempts
    BY DEF GuessesBounded
  <2> QED
    BY DEF TokensInv, AttemptsCount
<1> QED
  BY <1>1, TokensAlways, PTL

-----------------------------------------------------------------------------
(* One bonus for an address.                                               *)

SignupInv == RowsInv /\ OneSignup

LEMMA SignupInit == Init => SignupInv
<1> SUFFICES ASSUME Init PROVE SignupInv
  OBVIOUS
<1>1. RowsInv
  BY RowsInit
<1>2. OneSignup
  BY DEF Init, OneSignup, SignsUp, Idle
<1> QED
  BY <1>1, <1>2 DEF SignupInv

\* Only an insert makes a request one that signs up.
LEMMA SignsUpStep ==
    ASSUME Typed, [Next]_vars, NEW p \in Requests, SignsUp(open'[p]), ~Create(p)
    PROVE  SignsUp(open[p]) /\ open'[p].user = open[p].user /\ ~Bonus(p)
<1>1. open \in [Requests -> Request] /\ open[p] \in Request /\ open[p].kind \in KindsAt[open[p].at]
  BY DEF Typed, TypeOK, Shaped
<1>2. ASSUME NEW stage, stage \notin {"mail", "bonus"}, Goto(p, stage) \/ End(p)
      PROVE  FALSE
  BY <1>1, <1>2 DEF Goto, End, Idle, Request, SignsUp
<1>3. ASSUME Begin(p) PROVE FALSE
  BY <1>3, BeginStep DEF FirstStage, SignsUp
<1>4. ASSUME ReadToken(p) PROVE FALSE
  <2>1. PICK right \in BOOLEAN :
          LET stage == AfterToken(open[p].kind, tokens[open[p].tok], right)
          IN  \/ End(p)
              \/ open' = [open EXCEPT ![p].at = stage, ![p].attempts = tokens[open[p].tok].attempts]
    BY <1>4 DEF ReadToken
  <2> DEFINE stage == AfterToken(open[p].kind, tokens[open[p].tok], right)
  <2>2. open'[p].at \in {stage, "idle"}
    BY <1>1, <2>1 DEF Request, End, Idle
  <2>3. stage \notin {"mail", "bonus"}
    BY DEF AfterToken
  <2> QED
    BY <2>2, <2>3 DEF SignsUp
<1>5. ASSUME ReadUser(p) PROVE FALSE
  <2>1. PICK given \in Passwords :
          LET stage == AfterUser(open[p].kind, users[open[p].user], open[p].word, given)
          IN  \/ End(p)
              \/ open' = [open EXCEPT ![p].at = stage, ![p].row = users[open[p].user]]
    BY <1>5 DEF ReadUser
  <2> DEFINE stage == AfterUser(open[p].kind, users[open[p].user], open[p].word, given)
  <2>2. open'[p].at \in {stage, "idle"}
    BY <1>1, <2>1 DEF Request, End, Idle
  <2>3. stage \notin {"mail", "bonus"}
    BY DEF AfterUser
  <2> QED
    BY <2>2, <2>3 DEF SignsUp
<1>6. ASSUME SaveUser(p) PROVE FALSE
  <2>1. AfterSave(open[p].kind) \notin {"mail", "bonus"}
    BY DEF AfterSave
  <2> QED
    BY <1>2, <1>6, <2>1 DEF SaveUser
<1>7. ASSUME ReadKyc(p) \/ OpenFile(p) PROVE FALSE
  BY <1>1, <1>2, <1>7 DEF ReadKyc, OpenFile, Request, SignsUp
<1>8. ASSUME \/ Fail(p) \/ SaveToken(p) \/ Revoke(p) \/ Bonus(p) \/ Remove(p) \/ SaveKyc(p)
      PROVE  FALSE
  BY <1>2, <1>8 DEF Fail, SaveToken, Revoke, Bonus, Remove, SaveKyc
<1>9. CASE Issue(p)
  <2>1. open[p].at = "mail" /\ open'[p].user = open[p].user
    BY ZenonT(60), <1>1, <1>2, <1>9 DEF Issue, Goto, Request
  <2> QED
    BY <1>8, <2>1 DEF SignsUp
<1>10. CASE open'[p] = open[p]
  BY <1>8, <1>10
<1>11. CASE UNCHANGED vars \/ \E t \in DOMAIN tokens : Logout(t)
  BY <1>8, <1>11 DEF vars, Logout
<1> QED
  BY <1>3, <1>4, <1>5, <1>6, <1>7, <1>8, <1>9, <1>10, <1>11, OthersWait DEF Next

\* An address that signed up stays one, and only a bonus counts as one.
LEMMA SignedUpStays ==
    ASSUME Typed, Typed', [Next]_vars
    PROVE  /\ \A u \in Users : users'[u].state = "none" => users[u].state = "none"
           /\ UNCHANGED bonuses \/ \E r \in Requests : Bonus(r)
<1>1. users \in [Users -> Row] /\ open \in [Requests -> Request]
      /\ \A r \in Requests : open[r].user \in Users
  BY DEF Typed, TypeOK, Request
<1>2. ASSUME NEW u \in Users, NEW row, row.state # "none", users' = [users EXCEPT ![u] = row],
             NEW v \in Users, users'[v].state = "none"
      PROVE  users[v].state = "none"
  BY <1>1, <1>2
<1>3. ASSUME NEW v \in Users, users'[v].state = "none" PROVE users[v].state = "none"
  <2>1. ASSUME NEW r \in Requests, NEW status \in {"AWAITING", "ACTIVE"},
               users' = [users EXCEPT ![open[r].user] = SignedUp(status, open[r].word)]
        PROVE  users[v].state = "none"
    <3>1. SignedUp(status, open[r].word).state # "none"
      BY DEF SignedUp
    <3> QED
      BY <1>1, <1>2, <1>3, <2>1, <3>1
  <2>2. ASSUME NEW r \in Requests,
               users' = [users EXCEPT ![open[r].user] =
                            Edited(open[r].kind, open[r].row, open[r].word)]
        PROVE  users[v].state = "none"
    <3>1. Edited(open[r].kind, open[r].row, open[r].word).state # "none"
      BY DEF Edited
    <3> QED
      BY <1>1, <1>2, <1>3, <2>2, <3>1
  <2>3. ASSUME NEW r \in Requests,
               users' = [users EXCEPT ![open[r].user] = [NoRow EXCEPT !.state = "deleted"]]
        PROVE  users[v].state = "none"
    <3>1. [NoRow EXCEPT !.state = "deleted"].state # "none"
      BY DEF NoRow
    <3> QED
      BY <1>1, <1>2, <1>3, <2>3, <3>1
  <2>4. CASE UNCHANGED users
    BY <1>3, <2>4
  <2> QED
    BY <2>1, <2>2, <2>3, <2>4, UsersStep
<1>4. ASSUME NEW r \in Requests,
             \/ Begin(r) \/ Fail(r) \/ ReadToken(r) \/ SaveToken(r) \/ Issue(r) \/ Revoke(r)
             \/ ReadUser(r) \/ Create(r) \/ SaveUser(r) \/ Remove(r) \/ ReadKyc(r)
             \/ OpenFile(r) \/ SaveKyc(r)
      PROVE  UNCHANGED bonuses
  BY <1>4 DEF Begin, Fail, ReadToken, SaveToken, Issue, Revoke, ReadUser, Create, SaveUser,
     Remove, ReadKyc, OpenFile, SaveKyc, history
<1>5. ASSUME UNCHANGED vars \/ \E t \in DOMAIN tokens : Logout(t)
      PROVE  UNCHANGED bonuses
  BY <1>5 DEF vars, Logout, history
<1> QED
  BY <1>3, <1>4, <1>5 DEF Next

\* An insert that succeeds makes the request the first of its address.
LEMMA CreateFirst ==
    ASSUME SignupInv, NEW r \in Requests, Create(r), SignsUp(open'[r])
    PROVE  /\ open'[r].user = open[r].user
           /\ users[open[r].user].state = "none" /\ users'[open[r].user].state = "present"
           /\ UNCHANGED bonuses /\ bonuses[open[r].user] = 0
           /\ \A p \in Requests \ {r} : /\ open'[p] = open[p]
                                        /\ SignsUp(open[p]) => open[p].user # open[r].user
<1>1. /\ Typed /\ open \in [Requests -> Request] /\ open[r] \in Request
      /\ users \in [Users -> Row] /\ open[r].user \in Users /\ bonuses \in [Users -> Nat]
  BY DEF SignupInv, RowsInv, Typed, TypeOK, Request
<1>2. users[open[r].user].state = "none"
  BY <1>1 DEF Create, End, Idle, SignsUp
<1>3. PICK status \in {"AWAITING", "ACTIVE"} :
        /\ users' = [users EXCEPT ![open[r].user] = SignedUp(status, open[r].word)]
        /\ open' = [open EXCEPT ![r].at = "mail", ![r].row = SignedUp(status, open[r].word)]
  BY <1>2 DEF Create
<1>4. open'[r].user = open[r].user
  BY <1>1, <1>3 DEF Request
<1>5. users'[open[r].user].state = "present"
  BY <1>1, <1>3 DEF SignedUp
<1>6. UNCHANGED bonuses
  BY DEF Create, history
<1>7. bonuses[open[r].user] = 0
  BY <1>1, <1>2 DEF SignupInv, OneSignup
<1>8. \A p \in Requests \ {r} : open'[p] = open[p]
  BY <1>1, OthersWait
<1>9. \A p \in Requests : SignsUp(open[p]) => open[p].user # open[r].user
  BY <1>2 DEF SignupInv, OneSignup
<1> QED
  BY <1>2, <1>4, <1>5, <1>6, <1>7, <1>8, <1>9

LEMMA SignupStep == SignupInv /\ [Next]_vars => SignupInv'
<1> SUFFICES ASSUME SignupInv, [Next]_vars PROVE SignupInv'
  OBVIOUS
<1>1. /\ RowsInv' /\ Typed /\ Typed' /\ OneSignup
      /\ users \in [Users -> Row] /\ bonuses \in [Users -> Nat]
      /\ \A r \in Requests : open[r].user \in Users
  BY RowsStep DEF SignupInv, RowsInv, Typed, TypeOK, Request
<1>2. /\ \A u \in Users : users'[u].state = "none" => users[u].state = "none"
      /\ UNCHANGED bonuses \/ \E r \in Requests : Bonus(r)
  BY <1>1, SignedUpStays
\* A bonus goes to the only signup of its address, which then has had none.
<1>3. ASSUME NEW r \in Requests, Bonus(r)
      PROVE  /\ \A u \in Users \ {open[r].user} : bonuses'[u] = bonuses[u]
             /\ bonuses[open[r].user] = 0 /\ bonuses'[open[r].user] <= 1
             /\ users'[open[r].user].state # "none" /\ bonuses' \in [Users -> Nat]
  <2>1. SignsUp(open[r]) /\ UNCHANGED users
    BY <1>3 DEF Bonus, SignsUp, tables
  <2>2. bonuses[open[r].user] = 0 /\ users[open[r].user].state # "none"
    BY <1>1, <2>1 DEF OneSignup
  <2>3. bonuses' = [bonuses EXCEPT ![open[r].user] = @ + 1] \/ UNCHANGED bonuses
    BY <1>3 DEF Bonus
  <2> QED
    BY <1>1, <2>1, <2>2, <2>3
<1>4. ASSUME NEW u \in Users
      PROVE  bonuses'[u] <= 1 /\ (bonuses'[u] = 1 => users'[u].state # "none")
  BY <1>1, <1>2, <1>3 DEF OneSignup
<1>5. ASSUME NEW p \in Requests, SignsUp(open'[p]), ~Create(p)
      PROVE  users'[open'[p].user].state # "none" /\ bonuses'[open'[p].user] = 0
  <2>1. SignsUp(open[p]) /\ open'[p].user = open[p].user /\ ~Bonus(p)
    BY <1>1, <1>5, SignsUpStep
  <2>2. /\ users[open[p].user].state # "none" /\ bonuses[open[p].user] = 0
        /\ \A r \in Requests : SignsUp(open[r]) /\ open[r].user = open[p].user => r = p
    BY <1>1, <2>1 DEF OneSignup
  <2>3. ASSUME NEW r \in Requests, Bonus(r) PROVE open[r].user # open[p].user
    BY <2>1, <2>2, <2>3 DEF Bonus, SignsUp
  <2> QED
    BY <1>1, <1>2, <1>3, <2>1, <2>2, <2>3
<1>6. ASSUME NEW p \in Requests, SignsUp(open'[p])
      PROVE  users'[open'[p].user].state # "none" /\ bonuses'[open'[p].user] = 0
  <2>1. CASE Create(p)
    BY <1>6, <2>1, CreateFirst
  <2> QED
    BY <1>5, <1>6, <2>1
<1>7. ASSUME NEW r \in Requests, Create(r), SignsUp(open'[r]), NEW p \in Requests, p # r,
             SignsUp(open'[p])
      PROVE  open'[p].user # open'[r].user
  <2>1. /\ open'[r].user = open[r].user
        /\ \A s \in Requests \ {r} : /\ open'[s] = open[s]
                                     /\ SignsUp(open[s]) => open[s].user # open[r].user
    BY <1>7, CreateFirst
  <2>2. p \in Requests \ {r}
    BY <1>7
  <2>3. open'[p] = open[p] /\ (SignsUp(open[p]) => open[p].user # open[r].user)
    BY <2>1, <2>2
  <2> QED
    BY <1>7, <2>1, <2>3 DEF SignsUp
<1>8. ASSUME NEW r \in Requests, NEW p \in Requests, r # p, SignsUp(open'[r]), SignsUp(open'[p])
      PROVE  open'[r].user # open'[p].user
  <2>1. CASE ~Create(r) /\ ~Create(p)
    <3>1. /\ SignsUp(open[r]) /\ open'[r].user = open[r].user
          /\ SignsUp(open[p]) /\ open'[p].user = open[p].user
      BY <1>1, <1>8, <2>1, SignsUpStep
    <3> QED
      BY <1>1, <1>8, <3>1 DEF OneSignup
  <2> QED
    BY <1>7, <1>8, <2>1
<1>9. OneSignup'
  BY <1>4, <1>6, <1>8 DEF OneSignup
<1> QED
  BY <1>1, <1>9 DEF SignupInv

\* Two signups with one address credit the registration bonus once, whichever
\* of them inserts the row, and whatever else runs meanwhile.
THEOREM OneBonus == Spec => []OneBonusPerAccount
<1>1. SignupInv => OneBonusPerAccount
  BY DEF SignupInv, OneSignup, OneBonusPerAccount
<1>2. UNCHANGED vars => [Next]_vars
  OBVIOUS
<1> QED
  BY <1>1, SignupInit, SignupStep, PTL DEF Spec

=============================================================================
