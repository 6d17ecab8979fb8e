----------------------------- MODULE MCAccounts -----------------------------
(* An admin, a user with a session, a code, a reset link and a             *)
(* verification link, and an address that has not signed up yet.           *)
EXTENDS Accounts

Account(status, role, twoFactor) ==
    [state |-> "present", password |-> "p", status |-> status,
     freeze |-> status = "AWAITING", twoFactor |-> twoFactor, verified |-> FALSE,
     role |-> role]

MCUsers == [u \in Users |->
    CASE u = "ann" -> Account("ACTIVE", "ADMIN", FALSE)
      [] u = "bob" -> Account("AWAITING", "USER", TRUE)
      [] OTHER     -> NoRow]

MCTokens ==
    << NewToken("bob", "REFRESH", 0, 0), NewToken("bob", "TWO_FACTOR_OTP", 0, 0),
       NewToken("bob", "PASSWORD_RESET", 0, 0), NewToken("bob", "EMAIL_VERIFICATION", 0, 0) >>

=============================================================================
