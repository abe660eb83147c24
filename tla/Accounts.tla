------------------------------ MODULE Accounts ------------------------------
(***************************************************************************)
(* Customer accounts: one phone number, its one-time codes, and the devices*)
(* that sign in with them.  A verification reads the newest live code, is  *)
(* compared with it outside any transaction (bcrypt), and then counts an   *)
(* attempt or signs in; requests of several devices overlap.  A sign-in    *)
(* raises the session version that the refresh of older devices carries.   *)
(***************************************************************************)
EXTENDS Naturals, FiniteSets, Sequences

CONSTANTS Devices,
          OtpMaxAttempts,  \* CUSTOMER_OTP_MAX_ATTEMPTS
          MaxCodes,        \* bound: codes issued
          MaxVersion       \* bound: sign-ins

ASSUME AccountsAssumption == /\ OtpMaxAttempts \in Nat /\ MaxCodes \in Nat /\ MaxVersion \in Nat
                             /\ IsFiniteSet(Devices)

VARIABLES codes,           \* CustomerOtp rows of the phone, oldest first
          cooling,         \* a code was issued less than a minute ago
          sessionVersion,  \* of the customer, 0 before the row exists
          device,          \* what each device does and holds
          settled          \* history: codes issued before the last sign-in

accountVars == <<codes, cooling, sessionVersion, device, settled>>

\* step of the login page; otp: the row read, right: whether the typed code is
\* that row's; in: an access cookie that holds; sv: the version in the refresh
\* cookie, 0 without one
Guest == [step |-> "phone", at |-> "idle", otp |-> 0, right |-> FALSE, in |-> FALSE, sv |-> 0]

AccountsInit == /\ codes = <<>> /\ cooling = FALSE
                /\ sessionVersion = 0 /\ settled = 0
                /\ device = [d \in Devices |-> Guest]

NewCode == [attempts |-> 0, live |-> TRUE]
Does(d, at, otp, right) == device' = [device EXCEPT ![d].at = at, ![d].otp = otp, ![d].right = right]

\* within the cooldown, or without an address to send it to, the answer looks
\* the same and there is no code
requestOtp(d) ==
    /\ device[d].at = "idle"
    /\ IF cooling THEN UNCHANGED <<codes, cooling>>
       ELSE /\ cooling' = TRUE
            /\ \/ Len(codes) < MaxCodes /\ codes' = Append(codes, NewCode)
               \/ codes' = codes
    /\ device' = [device EXCEPT ![d].step = "code"]
    /\ UNCHANGED <<sessionVersion, settled>>

CooldownOver == cooling /\ cooling' = FALSE /\ UNCHANGED <<codes, sessionVersion, device, settled>>

\* consumedAt is set, or expiresAt passes
Dead(o) == [codes EXCEPT ![o].live = FALSE]
Expires == \E o \in DOMAIN codes : /\ codes[o].live /\ codes' = Dead(o)
                                   /\ UNCHANGED <<cooling, sessionVersion, device, settled>>

Live == {o \in DOMAIN codes : codes[o].live}
Newest == CHOOSE o \in Live : \A q \in Live : q <= o

\* mutant: the attempts are not looked at
NeverExceeded(o) == FALSE
AttemptsExceeded(o) == codes[o].attempts >= OtpMaxAttempts

\* the page asks for the code of any e-mail that came, or of none
VerifyReads(d) ==
    /\ device[d].at = "idle" /\ Live # {} /\ ~AttemptsExceeded(Newest)
    /\ \E typed \in 0..Len(codes) : Does(d, "comparing", Newest, typed = Newest)
    /\ UNCHANGED <<codes, cooling, sessionVersion, settled>>

VerifyMismatch(d) ==
    /\ device[d].at = "comparing" /\ ~device[d].right
    /\ codes' = [codes EXCEPT ![device[d].otp].attempts = @ + 1]
    /\ Does(d, "idle", 0, FALSE)
    /\ UNCHANGED <<cooling, sessionVersion, settled>>

\* mutant: only the matched code is consumed
ConsumeMatched(o) == codes' = Dead(o)
\* the matched code and every other of the phone
Consume(o) == codes' = [q \in DOMAIN codes |-> [codes[q] EXCEPT !.live = FALSE]]

\* mutant: a sign-in leaves the version alone once the customer exists
KeepVersion == IF sessionVersion = 0 THEN 1 ELSE sessionVersion
NextVersion == sessionVersion + 1

VerifySignsIn(d) ==
    /\ device[d].at = "comparing" /\ device[d].right /\ sessionVersion < MaxVersion
    /\ Consume(device[d].otp)
    /\ sessionVersion' = NextVersion
    /\ device' = [device EXCEPT ![d] = [Guest EXCEPT !.in = TRUE, !.sv = NextVersion]]
    /\ settled' = Len(codes)
    /\ UNCHANGED cooling

CanRefresh(d) == device[d].sv # 0 /\ device[d].sv = sessionVersion

\* a refresh of an older version is refused, and the device keeps what it has
refreshSession(d) ==
    /\ device[d].at = "idle" /\ CanRefresh(d) /\ ~device[d].in
    /\ device' = [device EXCEPT ![d].in = TRUE]
    /\ UNCHANGED <<codes, cooling, sessionVersion, settled>>

AccessExpires(d) == /\ device[d].in
                    /\ device' = [device EXCEPT ![d].in = FALSE]
                    /\ UNCHANGED <<codes, cooling, sessionVersion, settled>>

\* both cookies go, also where the access cookie had run out
logout(d) == /\ device[d].at = "idle" /\ device[d].sv # 0
             /\ device' = [device EXCEPT ![d] = Guest]
             /\ UNCHANGED <<codes, cooling, sessionVersion, settled>>

\* the page asks for a number first, then for the code, or for another one; it
\* waits for one answer at a time
LoginFlow(d) == \/ requestOtp(d)
                \/ device[d].step = "code" /\ VerifyReads(d)

AccountsNext == \/ CooldownOver \/ Expires
                \/ \E d \in Devices : \/ LoginFlow(d) \/ VerifyMismatch(d) \/ VerifySignsIn(d)
                                      \/ refreshSession(d) \/ AccessExpires(d) \/ logout(d)

AccountsSpec == AccountsInit /\ [][AccountsNext]_accountVars

-----------------------------------------------------------------------------
(* Properties *)

\* One sign-in settles every code asked for before it, also the ones a resend
\* or another device had issued: none of them can be read again.
SignInSettlesCodes == \A o \in Live : o > settled

\* Sessions do not pile up: whatever verifications overlap, one device at most
\* can renew its session, and that is the one that signed in last.
OneDeviceRenews == Cardinality({d \in Devices : CanRefresh(d)}) <= 1

\* Attempts that were read together may all be counted, but no code is tried
\* more often than its limit and the devices that read it at once allow.
AttemptsBounded == \A o \in DOMAIN codes : codes[o].attempts < OtpMaxAttempts + Cardinality(Devices)
=============================================================================
