---------------------------- MODULE AccountRows ----------------------------
(***************************************************************************)
(* The rows of an account in src/backend: the user, the tokens a login, a  *)
(* link or a code stands for, and the KYC file; and what each handler of   *)
(* auth.service.ts, admin.service.ts and kyc.service.ts means to change.   *)
(*                                                                         *)
(* A user is one e-mail address and the row it gets at signup.  Names,     *)
(* address, phone, country, lastLoginAt, autoWithdrawalEnabled and         *)
(* maxWithdrawal are left out: a handler that changes only those is        *)
(* "updateProfile", which writes the rest of the row as it read it.        *)
(* DISABLED is SUSPENDED here: no handler tells them apart.                *)
(***************************************************************************)
EXTENDS Naturals

CONSTANTS
    Users,
    Passwords,
    MaxOtpAttempts  \* MAX_OTP_ATTEMPTS

ASSUME RowsOK == MaxOtpAttempts \in Nat \ {0}

-----------------------------------------------------------------------------
(* Handlers, by who may call them.                                         *)

\* Anyone, with an address or a password.
PublicKinds == {"signup", "login", "adminLogin", "forgotPassword", "resendVerification"}

\* Anyone who holds the token.
TokenKinds == {"verifyOtp", "refresh", "resetPassword", "verifyEmail"}

\* The user, with an access token.
OwnKinds == {"updateProfile", "enable2fa", "disable2fa", "changePassword",
             "viewKyc", "submitKyc"}

\* An admin; by what they set the status to, and the other settings.
StatusSet == [setAwaiting |-> "AWAITING", setActive |-> "ACTIVE", setSuspended |-> "SUSPENDED"]

AdminKinds == DOMAIN StatusSet \cup
    {"freeze", "unfreeze", "promote", "demote", "verify", "unverify",
     "waive2fa", "deleteUser", "approveKyc", "rejectKyc"}

KycKinds == {"viewKyc", "submitKyc", "approveKyc", "rejectKyc"}

Kinds == PublicKinds \cup TokenKinds \cup OwnKinds \cup AdminKinds

\* Those that come with a password to compare or to set.
WordKinds == {"signup", "login", "adminLogin", "resetPassword", "changePassword"}

\* Those called with a link: they save the user first and the link after it.
LinkKinds == {"resetPassword", "verifyEmail"}

\* Those that end in issueSession.
SessionKinds == {"signup", "login", "adminLogin", "verifyOtp", "refresh"}

-----------------------------------------------------------------------------
(* users                                                                   *)

\* state tells an address never used from one whose row was deleted.
Row == [state : {"none", "present", "deleted"}, password : Passwords,
        status : {"AWAITING", "ACTIVE", "SUSPENDED"}, freeze : BOOLEAN,
        twoFactor : BOOLEAN, verified : BOOLEAN, role : {"USER", "ADMIN"}]

\* A new account: frozen while it awaits approval.
SignedUp(status, password) ==
    [state |-> "present", password |-> password, status |-> status,
     freeze |-> status = "AWAITING", twoFactor |-> FALSE, verified |-> FALSE,
     role |-> "USER"]

\* Mutant of Freezes: approving an account leaves it frozen.
FreezesForGood(kind, row) ==
    kind \in {"setAwaiting", "freeze"} \/ (row.freeze /\ kind # "unfreeze")

\* Entering AWAITING freezes, leaving it unfreezes; an admin may do either.
Freezes(kind, row) ==
    \/ kind \in {"setAwaiting", "freeze"}
    \/ /\ row.freeze
       /\ kind # "unfreeze"
       /\ ~(row.status = "AWAITING" /\ kind \in {"setActive", "setSuspended"})

\* A flag one kind raises and others clear.
Flag(kind, raises, clears, old) == kind = raises \/ (old /\ kind \notin clears)

\* Mutant of Edited: a login also turns two factor login off.
EditedByLogin(kind, row, chosen) ==
    [row EXCEPT !.twoFactor = @ /\ kind \notin SessionKinds,
                !.status = IF kind \in DOMAIN StatusSet THEN StatusSet[kind] ELSE @,
                !.freeze = Freezes(kind, row)]

\* The row a handler saves, made from the row it read.
Edited(kind, row, chosen) ==
    [state     |-> "present",
     password  |-> IF kind \in {"resetPassword", "changePassword"} THEN chosen
                   ELSE row.password,
     status    |-> IF kind \in DOMAIN StatusSet THEN StatusSet[kind] ELSE row.status,
     freeze    |-> Freezes(kind, row),
     twoFactor |-> Flag(kind, "enable2fa", {"disable2fa", "waive2fa"}, row.twoFactor),
     verified  |-> kind = "verifyEmail" \/ Flag(kind, "verify", {"unverify"}, row.verified),
     role      |-> IF kind = "promote" THEN "ADMIN"
                   ELSE IF kind = "demote" THEN "USER" ELSE row.role]

-----------------------------------------------------------------------------
(* tokens                                                                  *)

TokenTypes == {"REFRESH", "TWO_FACTOR_OTP", "PASSWORD_RESET", "EMAIL_VERIFICATION"}

\* The token each kind is called with.
TypeFor == [verifyOtp |-> "TWO_FACTOR_OTP", refresh |-> "REFRESH",
            resetPassword |-> "PASSWORD_RESET", verifyEmail |-> "EMAIL_VERIFICATION"]

(***************************************************************************)
(* gone is a row deleted with its user.  Of history: parent is the token   *)
(* it was exchanged for (0 if none), born the number of password resets    *)
(* its user had completed when it was inserted, guesses how many wrong     *)
(* codes it refused, uses how often what it stands for took effect (a      *)
(* session inserted, the user of a link saved), and lost how many of the   *)
(* requests that had used a link ended before they saved it as consumed.   *)
(***************************************************************************)
Token == [user : Users, type : TokenTypes, consumed : BOOLEAN, attempts : Nat,
          gone : BOOLEAN, parent : Nat, born : Nat, guesses : Nat, uses : Nat,
          lost : Nat]

NewToken(u, type, parent, born) ==
    [user |-> u, type |-> type, consumed |-> FALSE, attempts |-> 0, gone |-> FALSE,
     parent |-> parent, born |-> born, guesses |-> 0, uses |-> 0, lost |-> 0]

\* !token || token.consumedAt; the expiry is a choice of the reader.
Valid(t) == ~t.gone /\ ~t.consumed

\* Mutant of Open: the sessions a reset finds are those of other types.
OpenLink(t, u) == t.user = u /\ t.type = "PASSWORD_RESET" /\ ~t.consumed /\ ~t.gone

\* The sessions a password reset ends.
Open(t, u) == t.user = u /\ t.type = "REFRESH" /\ ~t.consumed /\ ~t.gone

\* A token when the sessions of u end, when u is deleted, when what it stands
\* for takes effect, when the request that had that effect ends too early.
SessionEnded(t, u) == [t EXCEPT !.consumed = @ \/ Open(t, u)]
Dropped(t, u)      == [t EXCEPT !.gone = @ \/ t.user = u]
Counted(t, used)   == [t EXCEPT !.uses = @ + (IF used THEN 1 ELSE 0)]
LeftOpen(t, ended) == [t EXCEPT !.lost = @ + (IF ended THEN 1 ELSE 0)]

-----------------------------------------------------------------------------
(* kyc                                                                     *)

KycStatus == {"NONE", "NOT_SUBMITTED", "PENDING", "APPROVED", "REJECTED"}

\* Mutant of Accepts: a user may submit again after the approval.
AcceptsAny(kind, status) == TRUE

\* "KYC already approved"; the admin's decisions look at nothing.
Accepts(kind, status) == kind = "submitKyc" => status # "APPROVED"

\* Mutant of Filed: a status the enum does not have.
FiledUnknown ==
    [submitKyc |-> "SUBMITTED", approveKyc |-> "APPROVED", rejectKyc |-> "REJECTED"]

\* The status a handler saves.
Filed == [submitKyc |-> "PENDING", approveKyc |-> "APPROVED", rejectKyc |-> "REJECTED"]

=============================================================================
