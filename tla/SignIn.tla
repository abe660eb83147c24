------------------------------- MODULE SignIn -------------------------------
(***************************************************************************)
(* How one user of the admin panel signs in from several browsers: the     *)
(* password, the stage token it earns, TOTP enrolment (the QR code shown,  *)
(* the authenticator that scanned one) and TOTP verification, while admins *)
(* may reset the account or switch it off and on.                          *)
(***************************************************************************)
EXTENDS Naturals

CONSTANTS Pages,      \* browsers of the user
          MaxSecrets  \* bound: TOTP secrets generated

ASSUME SignInAssumption == MaxSecrets \in Nat

VARIABLES isActive, secret, enabled,  \* the AdminUser row; 0 for no secret
          page,      \* each browser: stage, QR code shown, secret a code was checked against
          phone,     \* the secret the authenticator holds
          made,      \* secrets generated so far
          proven,    \* history: the secret a code was checked against when TOTP was enabled
          remade     \* history: the secret was replaced or cleared during an enrolment, or replaced after it

signInVars == <<isActive, secret, enabled, page, phone, made, proven, remade>>

SignedOut == [stage |-> "out", qr |-> 0, checked |-> 0]

SignInInit == /\ isActive = TRUE /\ secret = 0 /\ enabled = FALSE
              /\ phone = 0 /\ made = 0 /\ proven = 0 /\ remade = FALSE
              /\ page = [p \in Pages |-> SignedOut]

Enrolling == \E p \in Pages : page[p].checked # 0

At(p, stage) == page[p].stage = stage
Turns(p, stage) == page' = [page EXCEPT ![p] = [SignedOut EXCEPT !.stage = stage]]

\* the password is right: the stage token says what is next, for five minutes
login(p) ==
    /\ At(p, "out") /\ isActive
    /\ Turns(p, IF enabled THEN "totp" ELSE "totp_enroll")
    /\ UNCHANGED <<isActive, secret, enabled, phone, made, proven, remade>>

\* an expired stage token, a logout, a session that ran out
SignOut(p) == /\ ~At(p, "out") /\ page[p].checked = 0
              /\ Turns(p, "out")
              /\ UNCHANGED <<isActive, secret, enabled, phone, made, proven, remade>>

\* every visit of the enrolment page stores a new secret and shows its QR code
totpSetup(p) ==
    /\ At(p, "totp_enroll") /\ page[p].checked = 0 /\ isActive /\ made < MaxSecrets
    /\ made' = made + 1 /\ secret' = made + 1
    /\ page' = [page EXCEPT ![p].qr = made + 1]
    /\ remade' = (remade \/ enabled \/ Enrolling)
    /\ UNCHANGED <<isActive, enabled, phone, proven>>

Scan(p) == /\ page[p].qr # 0 /\ phone' = page[p].qr /\ phone # page[p].qr
           /\ UNCHANGED <<isActive, secret, enabled, page, made, proven, remade>>

\* a code is checked against the secret read first; TOTP is enabled by id after it
EnrolChecks(p) ==
    /\ At(p, "totp_enroll") /\ page[p].checked = 0 /\ isActive
    /\ secret # 0 /\ phone = secret
    /\ page' = [page EXCEPT ![p].checked = secret]
    /\ UNCHANGED <<isActive, secret, enabled, phone, made, proven, remade>>

totpEnroll(p) ==
    /\ At(p, "totp_enroll") /\ page[p].checked # 0
    /\ enabled' = TRUE /\ proven' = page[p].checked
    /\ Turns(p, "in")
    /\ UNCHANGED <<isActive, secret, phone, made, remade>>

totpVerify(p) ==
    /\ At(p, "totp") /\ isActive
    /\ secret # 0 /\ enabled /\ phone = secret
    /\ Turns(p, "in")
    /\ UNCHANGED <<isActive, secret, enabled, phone, made, proven, remade>>

\* the forms of the panel: password, then the code; or QR code and first code
LoginForm(p) == login(p) \/ totpVerify(p)
EnrollForm(p) == totpSetup(p) \/ EnrolChecks(p) \/ totpEnroll(p)

-----------------------------------------------------------------------------
(* What admins do to the account *)

\* mutant: a reset forgets to take the enrolment back
ClearSecretOnly == secret' = 0 /\ UNCHANGED enabled
ClearTotp == secret' = 0 /\ enabled' = FALSE

resetPassword == /\ ClearTotp
                 /\ remade' = (remade \/ Enrolling)
                 /\ UNCHANGED <<isActive, page, phone, made, proven>>

SwitchAccount == /\ isActive' = ~isActive
                 /\ UNCHANGED <<secret, enabled, page, phone, made, proven, remade>>

SignInNext ==
    \/ resetPassword \/ SwitchAccount
    \/ \E p \in Pages : LoginForm(p) \/ EnrollForm(p) \/ Scan(p) \/ SignOut(p)

SignInSpec == SignInInit /\ [][SignInNext]_signInVars

-----------------------------------------------------------------------------
(* Properties *)

\* A user asked for a code has an authenticator that can give it: TOTP stays
\* enabled only with the secret a code of theirs was checked against.  Only a
\* second setup or a reset that crosses an enrolment breaks that.
EnrolledCanVerify == enabled => remade \/ (secret # 0 /\ secret = proven)
=============================================================================
