---------------------------- MODULE AccessProofs ----------------------------
(***************************************************************************)
(* Theorems about who gets in: the customer's codes and sessions, the keys *)
(* of the admin panel, and the enrolment of an authenticator.              *)
(***************************************************************************)
EXTENDS Accounts, Staff, SignIn, FiniteLaws

-----------------------------------------------------------------------------
(* Customer accounts.                                                      *)

\* The devices that have read a code and not yet had their answer.
Readers(o) == {d \in Devices : device[d].at = "comparing" /\ device[d].otp = o}

CodeType == [attempts : Nat, live : BOOLEAN]
DeviceType == [step : {"phone", "code"}, at : {"idle", "comparing"}, otp : Nat,
               right : BOOLEAN, in : BOOLEAN, sv : Nat]

AccountsType ==
  /\ codes \in Seq(CodeType)
  /\ sessionVersion \in Nat /\ settled \in 0..Len(codes)
  /\ device \in [Devices -> DeviceType]
  /\ \A d \in Devices :
       /\ device[d].sv <= sessionVersion
       /\ device[d].at = "comparing" => device[d].otp \in 1..Len(codes)

\* No two devices hold the same version.
VersionsDiffer ==
  \A d, e \in Devices : device[d].sv = device[e].sv /\ device[d].sv # 0 => d = e

\* A code has room for the attempts that are under way.
Room(o) ==
  codes[o].attempts + Cardinality(Readers(o)) < OtpMaxAttempts + Cardinality(Devices)
RoomForAttempts == \A o \in 1..Len(codes) : Room(o)

AccountsInv == AccountsType /\ SignInSettlesCodes /\ VersionsDiffer /\ RoomForAttempts

\* The newest live code is one of the codes.
LEMMA NewestLive ==
  ASSUME AccountsType, Live # {}
  PROVE  Newest \in Live
PROOF
<1>1. PICK n \in Nat : n = Len(codes)
  BY DEF AccountsType
<1>2. Live \in SUBSET (1..n)
  BY <1>1 DEF Live, AccountsType
<1>3. PICK e \in Live : TRUE
  OBVIOUS
<1>4. \E o \in Live : \A q \in Live : o >= q
  BY <1>2, <1>3, LargestNumber
<1>5. \A o, q \in Live : o >= q <=> q <= o
  BY <1>2
<1>. QED
  BY <1>4, <1>5 DEF Newest

\* The readers of a code are finitely many, and no more than the devices.
LEMMA FewReaders ==
  ASSUME NEW o
  PROVE  /\ IsFiniteSet(Readers(o)) /\ Cardinality(Readers(o)) \in Nat
         /\ Cardinality(Readers(o)) <= Cardinality(Devices)
         /\ Cardinality(Devices) \in Nat
PROOF
  BY AccountsAssumption, FS_Subset, FS_CardinalityType DEF AccountsAssumption, Readers

\* A code, and the count of its attempts.
LEMMA CodeFacts ==
  ASSUME AccountsInv, NEW o \in 1..Len(codes)
  PROVE  codes[o] \in CodeType /\ codes[o].attempts \in Nat
PROOF
<1>1. codes[o] \in CodeType
  BY DEF AccountsInv, AccountsType
<1>. QED
  BY <1>1 DEF CodeType

\* A code keeps its room when it is tried no more and nobody new reads it.
LEMMA RoomShrinks ==
  ASSUME AccountsInv, NEW o \in 1..Len(codes),
         codes'[o].attempts = codes[o].attempts, Readers(o)' \subseteq Readers(o)
  PROVE  Room(o)'
PROOF
<1>1. PICK new : new = Readers(o)'
  OBVIOUS
<1>2. /\ Cardinality(new) <= Cardinality(Readers(o)) /\ Cardinality(new) \in Nat
      /\ Cardinality(Readers(o)) \in Nat /\ Cardinality(Devices) \in Nat
  BY <1>1, FewReaders, FS_Subset, FS_CardinalityType
<1>3. codes[o].attempts \in Nat /\ OtpMaxAttempts \in Nat
  BY CodeFacts, AccountsAssumption DEF AccountsAssumption
<1>4. codes[o].attempts + Cardinality(Readers(o)) < OtpMaxAttempts + Cardinality(Devices)
  BY DEF AccountsInv, RoomForAttempts, Room
<1>5. codes[o].attempts + Cardinality(new) < OtpMaxAttempts + Cardinality(Devices)
  BY <1>2, <1>3, <1>4
<1>. QED
  BY <1>1, <1>5 DEF Room

\* A step that adds and revives no code, counts no attempt, and lets no device
\* read a code or gain a version, keeps the invariant.
LEMMA QuietAccounts ==
  ASSUME AccountsInv, UNCHANGED <<sessionVersion, settled>>,
         codes' \in Seq(CodeType), Len(codes') = Len(codes),
         \A o \in 1..Len(codes) :
           /\ codes'[o].live => codes[o].live
           /\ codes'[o].attempts = codes[o].attempts,
         device' \in [Devices -> DeviceType],
         \A d \in Devices :
           /\ device'[d].at = "comparing" =>
                device[d].at = "comparing" /\ device'[d].otp = device[d].otp
           /\ device'[d].sv \in {0, device[d].sv}
  PROVE  AccountsInv'
PROOF
<1>1. AccountsType'
  <2>1. settled' \in 0..Len(codes') /\ sessionVersion' \in Nat
    BY DEF AccountsInv, AccountsType
  <2>2. ASSUME NEW d \in Devices
        PROVE  /\ device'[d].sv <= sessionVersion'
               /\ device'[d].at = "comparing" => device'[d].otp \in 1..Len(codes')
    BY DEF AccountsInv, AccountsType
  <2>. QED
    BY <2>1, <2>2 DEF AccountsType
<1>2. SignInSettlesCodes' /\ VersionsDiffer'
  BY DEF AccountsInv, AccountsType, SignInSettlesCodes, VersionsDiffer, Live
<1>3. ASSUME NEW o \in 1..Len(codes) PROVE Room(o)'
  <2>1. Readers(o)' \subseteq Readers(o)
    BY DEF Readers
  <2>. QED
    BY <2>1, RoomShrinks
<1>. QED
  BY <1>1, <1>2, <1>3 DEF AccountsInv, RoomForAttempts

\* A new code is newer than every sign-in, and nobody has read it.
LEMMA NewCodeStep ==
  ASSUME AccountsInv, UNCHANGED <<sessionVersion, settled>>,
         codes' = Append(codes, NewCode), NEW d \in Devices,
         device' \in [Devices -> DeviceType],
         \A e \in Devices :
           /\ device'[e].at = device[e].at /\ device'[e].otp = device[e].otp
           /\ device'[e].sv = device[e].sv
  PROVE  AccountsInv'
PROOF
<1>1. PICK n \in Nat : n = Len(codes) /\ codes \in Seq(CodeType)
  BY DEF AccountsInv, AccountsType
<1>2. NewCode \in CodeType /\ NewCode.attempts = 0
  BY DEF NewCode, CodeType
<1>3. /\ codes' \in Seq(CodeType) /\ Len(codes') = n + 1
      /\ \A o \in 1..n : codes'[o] = codes[o]
      /\ codes'[n + 1] = NewCode
  BY <1>1, <1>2
<1>4. AccountsType'
  BY <1>1, <1>3 DEF AccountsInv, AccountsType, DeviceType
<1>5. SignInSettlesCodes'
  <2>1. ASSUME NEW o \in 1..n + 1, codes'[o].live PROVE o > settled
    BY <1>1, <1>3, <2>1 DEF AccountsInv, AccountsType, SignInSettlesCodes, Live
  <2>. QED
    BY <1>3, <2>1 DEF SignInSettlesCodes, Live
<1>6. VersionsDiffer'
  BY DEF AccountsInv, VersionsDiffer
<1>7. ASSUME NEW o \in 1..n + 1 PROVE Room(o)'
  <2>1. Readers(o)' = Readers(o)
    BY DEF Readers
  <2>2. CASE o \in 1..n
    BY <1>1, <1>3, <2>1, <2>2, RoomShrinks
  <2>3. CASE o = n + 1
    <3>1. Readers(o)' = {}
      BY <1>1, <2>1, <2>3 DEF Readers, AccountsInv, AccountsType
    <3>2. Cardinality(Devices) # 0 /\ Cardinality(Devices) \in Nat /\ OtpMaxAttempts \in Nat
      BY AccountsAssumption, FS_EmptySet, FS_CardinalityType DEF AccountsAssumption
    <3>3. Cardinality(Readers(o)') = 0 /\ codes'[o].attempts = 0
      BY <1>2, <1>3, <2>3, <3>1, FS_EmptySet
    <3>. QED
      BY <3>2, <3>3 DEF Room
  <2>. QED
    BY <2>2, <2>3
<1>. QED
  BY <1>3, <1>4, <1>5, <1>6, <1>7 DEF AccountsInv, RoomForAttempts

\* A code is read only below its limit.
LEMMA VerifyReadsStep ==
  ASSUME AccountsInv, NEW d \in Devices, VerifyReads(d)
  PROVE  AccountsInv'
PROOF
<1>1. PICK n \in Nat : n = Len(codes) /\ codes \in Seq(CodeType)
  BY DEF AccountsInv, AccountsType
<1>2. PICK right \in BOOLEAN : Does(d, "comparing", Newest, right)
  BY DEF VerifyReads
<1>3. PICK new \in 1..n : new = Newest /\ codes[new].attempts < OtpMaxAttempts
  <2>1. Newest \in 1..n
    BY <1>1, NewestLive DEF VerifyReads, AccountsInv, Live
  <2>2. codes[Newest].attempts \in Nat /\ OtpMaxAttempts \in Nat
    BY <1>1, <2>1, CodeFacts, AccountsAssumption DEF AccountsAssumption
  <2>3. ~(codes[Newest].attempts >= OtpMaxAttempts)
    BY DEF VerifyReads, AttemptsExceeded
  <2>. QED
    BY <2>1, <2>2, <2>3
<1>4. UNCHANGED <<codes, sessionVersion, settled>>
  BY DEF VerifyReads
<1>5. /\ device' \in [Devices -> DeviceType]
      /\ \A e \in Devices :
           /\ e # d => device'[e] = device[e]
           /\ device'[e].sv = device[e].sv
      /\ device'[d].at = "comparing" /\ device'[d].otp = new
  <2>1. device \in [Devices -> DeviceType]
    BY DEF AccountsInv, AccountsType
  <2>2. device' = [device EXCEPT ![d].at = "comparing", ![d].otp = new, ![d].right = right]
    BY <1>2, <1>3, Zenon DEF Does
  <2>3. new \in Nat
    BY <1>1
  <2>. QED
    BY <2>1, <2>2, <2>3 DEF DeviceType
<1>6. AccountsType' /\ VersionsDiffer' /\ SignInSettlesCodes'
  BY <1>1, <1>4, <1>5
     DEF AccountsInv, AccountsType, VersionsDiffer, SignInSettlesCodes, Live
<1>7. ASSUME NEW o \in 1..n PROVE Room(o)'
  <2>1. CASE o = new
    <3>1. PICK readers : readers = Readers(o)'
      OBVIOUS
    <3>2. readers \subseteq Devices
      BY <3>1 DEF Readers
    <3>3. /\ Cardinality(readers) <= Cardinality(Devices)
          /\ Cardinality(readers) \in Nat /\ Cardinality(Devices) \in Nat
      BY <3>2, AccountsAssumption, FS_Subset, FS_CardinalityType DEF AccountsAssumption
    <3>4. codes[o].attempts \in Nat /\ OtpMaxAttempts \in Nat
      BY <1>1, CodeFacts, AccountsAssumption DEF AccountsAssumption
    <3>5. codes[o].attempts + Cardinality(readers) < OtpMaxAttempts + Cardinality(Devices)
      BY <1>3, <2>1, <3>3, <3>4
    <3>. QED
      BY <1>4, <3>1, <3>5 DEF Room
  <2>2. CASE o # new
    <3>1. Readers(o)' \subseteq Readers(o)
      BY <1>5, <2>2 DEF Readers
    <3>. QED
      BY <1>1, <1>4, <3>1, RoomShrinks
  <2>. QED
    BY <2>1, <2>2
<1>. QED
  BY <1>1, <1>4, <1>6, <1>7 DEF AccountsInv, RoomForAttempts

\* A counted attempt gives up the reading it came from.
LEMMA VerifyMismatchStep ==
  ASSUME AccountsInv, NEW d \in Devices, VerifyMismatch(d)
  PROVE  AccountsInv'
PROOF
<1>1. PICK n \in Nat : n = Len(codes) /\ codes \in Seq(CodeType)
  BY DEF AccountsInv, AccountsType
<1>. DEFINE read == device[d].otp
<1>2. read \in 1..n /\ d \in Readers(read)
  BY <1>1 DEF VerifyMismatch, AccountsInv, AccountsType, Readers
<1>3. Does(d, "idle", 0, FALSE) /\ UNCHANGED <<sessionVersion, settled>>
  BY DEF VerifyMismatch
<1>4. codes' = [codes EXCEPT ![read].attempts = @ + 1]
  BY DEF VerifyMismatch
<1>. HIDE DEF read
<1>5. /\ codes' \in Seq(CodeType) /\ Len(codes') = n
      /\ \A o \in 1..n :
           /\ codes'[o].live = codes[o].live
           /\ codes'[o].attempts = IF o = read THEN codes[o].attempts + 1 ELSE codes[o].attempts
  <2>1. codes[read] \in CodeType
    BY <1>1, <1>2
  <2>2. PICK tried : tried = [codes[read] EXCEPT !.attempts = @ + 1]
    OBVIOUS
  <2>3. /\ tried \in CodeType
        /\ tried.attempts = codes[read].attempts + 1 /\ tried.live = codes[read].live
    BY <2>1, <2>2 DEF CodeType
  <2>4. codes' = [codes EXCEPT ![read] = tried]
    BY <1>4, <2>2, Zenon
  <2>. QED
    BY <1>1, <1>2, <2>3, <2>4
<1>6. /\ device' \in [Devices -> DeviceType]
      /\ \A e \in Devices :
           /\ e # d => device'[e] = device[e]
           /\ device'[e].sv = device[e].sv
      /\ device'[d].at = "idle"
  <2>1. device \in [Devices -> DeviceType]
    BY DEF AccountsInv, AccountsType
  <2>. QED
    BY <1>3, <2>1 DEF Does, DeviceType
<1>7. AccountsType' /\ VersionsDiffer' /\ SignInSettlesCodes'
  BY <1>1, <1>3, <1>5, <1>6
     DEF AccountsInv, AccountsType, VersionsDiffer, SignInSettlesCodes, Live
<1>8. ASSUME NEW o \in 1..n PROVE Room(o)'
  <2>1. CASE o = read
    <3>1. PICK readers : readers = Readers(o)'
      OBVIOUS
    <3>2. readers = Readers(o) \ {d}
      BY <1>6, <3>1 DEF Readers
    <3>3. /\ Cardinality(readers) = Cardinality(Readers(o)) - 1
          /\ Cardinality(Readers(o)) \in Nat /\ Cardinality(Devices) \in Nat
      BY <1>2, <2>1, <3>2, FewReaders, FS_RemoveElement
    <3>4. codes[o].attempts \in Nat /\ OtpMaxAttempts \in Nat
      BY <1>1, CodeFacts, AccountsAssumption DEF AccountsAssumption
    <3>5. codes[o].attempts + Cardinality(Readers(o)) < OtpMaxAttempts + Cardinality(Devices)
      BY <1>1 DEF AccountsInv, RoomForAttempts, Room
    <3>6. codes[o].attempts + 1 + Cardinality(readers) < OtpMaxAttempts + Cardinality(Devices)
      BY <3>3, <3>4, <3>5
    <3>. QED
      BY <1>5, <2>1, <3>1, <3>6 DEF Room
  <2>2. CASE o # read
    <3>1. Readers(o)' \subseteq Readers(o)
      BY <1>6 DEF Readers
    <3>. QED
      BY <1>1, <1>5, <2>2, <3>1, RoomShrinks
  <2>. QED
    BY <2>1, <2>2
<1>. QED
  BY <1>5, <1>7, <1>8 DEF AccountsInv, RoomForAttempts

\* A sign-in kills every code and takes a version nobody holds.
LEMMA VerifySignsInStep ==
  ASSUME AccountsInv, NEW d \in Devices, VerifySignsIn(d)
  PROVE  AccountsInv'
PROOF
<1>1. PICK n \in Nat : n = Len(codes) /\ codes \in Seq(CodeType)
  BY DEF AccountsInv, AccountsType
<1>2. /\ codes' = [q \in 1..n |-> [codes[q] EXCEPT !.live = FALSE]]
      /\ sessionVersion' = sessionVersion + 1 /\ settled' = n
      /\ device' = [device EXCEPT ![d] = [Guest EXCEPT !.in = TRUE, !.sv = sessionVersion + 1]]
  BY <1>1 DEF VerifySignsIn, Consume, NextVersion
<1>3. /\ codes' \in Seq(CodeType) /\ Len(codes') = n
      /\ \A o \in 1..n : ~codes'[o].live /\ codes'[o].attempts = codes[o].attempts
  <2>1. codes' = [q \in 1..n |-> [codes[q] EXCEPT !.live = FALSE]]
    BY <1>2
  <2>2. \A q \in 1..n : codes[q] \in CodeType
    BY <1>1
  <2>3. ASSUME NEW q \in 1..n
        PROVE  /\ codes'[q] \in CodeType
               /\ ~codes'[q].live /\ codes'[q].attempts = codes[q].attempts
    <3>1. codes[q] \in CodeType /\ codes'[q] = [codes[q] EXCEPT !.live = FALSE]
      BY <2>1, <2>2, Zenon
    <3>. QED
      BY <3>1 DEF CodeType
  <2>4. DOMAIN codes' = 1..n
    BY <2>1, Zenon
  <2>5. codes' = [q \in 1..n |-> codes'[q]]
    BY <2>1, Zenon
  <2>. QED
    BY <2>3, <2>5
<1>4. /\ device' \in [Devices -> DeviceType]
      /\ \A e \in Devices : e # d => device'[e] = device[e]
      /\ device'[d].at = "idle" /\ device'[d].sv = sessionVersion + 1
  <2>1. device \in [Devices -> DeviceType] /\ sessionVersion \in Nat
    BY DEF AccountsInv, AccountsType
  <2>2. PICK session : session = [Guest EXCEPT !.in = TRUE, !.sv = sessionVersion + 1]
    OBVIOUS
  <2>3. Guest \in DeviceType /\ Guest.at = "idle"
    BY DEF Guest, DeviceType
  <2>4. session \in DeviceType /\ session.at = "idle" /\ session.sv = sessionVersion + 1
    <3>1. PICK in : in = [Guest EXCEPT !.in = TRUE]
      OBVIOUS
    <3>2. in \in DeviceType /\ in.at = "idle"
      BY <2>3, <3>1 DEF DeviceType
    <3>3. session = [in EXCEPT !.sv = sessionVersion + 1]
      BY <2>2, <2>3, <3>1 DEF DeviceType
    <3>. QED
      BY <2>1, <3>2, <3>3 DEF DeviceType
  <2>5. device' = [device EXCEPT ![d] = session]
    BY <1>2, <2>2, Zenon
  <2>. QED
    BY <2>1, <2>4, <2>5
<1>5. AccountsType' /\ VersionsDiffer' /\ SignInSettlesCodes'
  <2>1. sessionVersion \in Nat /\ \A e \in Devices : device[e].sv \in Nat /\ device[e].sv <= sessionVersion
    BY DEF AccountsInv, AccountsType, DeviceType
  <2>2. VersionsDiffer'
    BY <1>4, <2>1 DEF AccountsInv, VersionsDiffer
  <2>. QED
    BY <1>1, <1>2, <1>3, <1>4, <2>1, <2>2
       DEF AccountsInv, AccountsType, SignInSettlesCodes, Live
<1>6. ASSUME NEW o \in 1..n PROVE Room(o)'
  <2>1. Readers(o)' \subseteq Readers(o)
    BY <1>4 DEF Readers
  <2>. QED
    BY <1>1, <1>3, <2>1, RoomShrinks
<1>. QED
  BY <1>3, <1>5, <1>6 DEF AccountsInv, RoomForAttempts

\* Whatever verifications of several devices overlap, the invariant stands.
LEMMA AccountsInvariant == AccountsSpec => []AccountsInv
PROOF
<1>1. AccountsInit => AccountsInv
  BY DEF AccountsInit, AccountsInv, AccountsType, SignInSettlesCodes, VersionsDiffer,
         RoomForAttempts, Live, Guest, DeviceType
<1>2. ASSUME AccountsInv, [AccountsNext]_accountVars PROVE AccountsInv'
  <2>1. codes \in Seq(CodeType) /\ device \in [Devices -> DeviceType]
    BY <1>2 DEF AccountsInv, AccountsType
  <2>2. CASE CooldownOver \/ UNCHANGED accountVars
    BY <1>2, <2>1, <2>2, QuietAccounts DEF CooldownOver, accountVars
  <2>3. CASE Expires
    <3>1. PICK o \in DOMAIN codes : codes' = [codes EXCEPT ![o].live = FALSE]
      BY <2>3, Zenon DEF Expires, Dead
    <3>2. /\ codes' \in Seq(CodeType) /\ Len(codes') = Len(codes)
          /\ \A q \in 1..Len(codes) :
               /\ codes'[q].live => codes[q].live
               /\ codes'[q].attempts = codes[q].attempts
      <4>1. codes[o] \in CodeType
        BY <2>1
      <4>2. PICK dead : dead = [codes[o] EXCEPT !.live = FALSE]
        OBVIOUS
      <4>3. dead \in CodeType /\ dead.attempts = codes[o].attempts /\ ~dead.live
        BY <4>1, <4>2 DEF CodeType
      <4>4. codes' = [codes EXCEPT ![o] = dead]
        BY <3>1, <4>2, Zenon
      <4>. QED
        BY <2>1, <4>3, <4>4
    <3>3. UNCHANGED <<sessionVersion, settled, device>>
      BY <2>3, Zenon DEF Expires
    <3>. QED
      BY <1>2, <2>1, <3>2, <3>3, QuietAccounts
  <2>4. ASSUME NEW d \in Devices, requestOtp(d) PROVE AccountsInv'
    <3>1. device' = [device EXCEPT ![d].step = "code"]
      BY <2>4, Zenon DEF requestOtp
    <3>2. UNCHANGED <<sessionVersion, settled>> /\ (codes' = codes \/ codes' = Append(codes, NewCode))
      BY <2>4, Zenon DEF requestOtp
    <3>3. /\ device' \in [Devices -> DeviceType]
          /\ \A e \in Devices :
               /\ device'[e].at = device[e].at /\ device'[e].otp = device[e].otp
               /\ device'[e].sv = device[e].sv
      BY <2>1, <3>1 DEF DeviceType
    <3>. QED
      BY <1>2, <2>1, <3>2, <3>3, QuietAccounts, NewCodeStep
  <2>5. ASSUME NEW d \in Devices, refreshSession(d) \/ AccessExpires(d) \/ logout(d)
        PROVE  AccountsInv'
    <3>1. UNCHANGED <<codes, sessionVersion, settled>>
      BY <2>5 DEF refreshSession, AccessExpires, logout
    <3>2. \/ \E in \in BOOLEAN : device' = [device EXCEPT ![d].in = in]
          \/ device' = [device EXCEPT ![d] = Guest]
      BY <2>5, Zenon DEF refreshSession, AccessExpires, logout
    <3>3. /\ device' \in [Devices -> DeviceType]
          /\ \A e \in Devices :
               /\ device'[e].at = "comparing" =>
                    device[e].at = "comparing" /\ device'[e].otp = device[e].otp
               /\ device'[e].sv \in {0, device[e].sv}
      <4>1. ASSUME NEW in \in BOOLEAN, device' = [device EXCEPT ![d].in = in]
            PROVE  /\ device' \in [Devices -> DeviceType]
                   /\ \A e \in Devices : /\ device'[e].at = device[e].at
                                         /\ device'[e].otp = device[e].otp
                                         /\ device'[e].sv = device[e].sv
        BY <2>1, <4>1 DEF DeviceType
      <4>2. Guest \in DeviceType /\ Guest.at = "idle" /\ Guest.sv = 0
        BY DEF Guest, DeviceType
      <4>. QED
        BY <2>1, <3>2, <4>1, <4>2
    <3>. QED
      BY <1>2, <2>1, <3>1, <3>3, QuietAccounts
  <2>. QED
    BY <1>2, <2>2, <2>3, <2>4, <2>5, VerifyReadsStep, VerifyMismatchStep, VerifySignsInStep
       DEF AccountsNext, LoginFlow
<1>. QED
  BY <1>1, <1>2, PTL DEF AccountsSpec

\* A sign-in settles every code asked for before it.
THEOREM CodesSettled == AccountsSpec => []SignInSettlesCodes
PROOF
<1>1. AccountsInv => SignInSettlesCodes
  BY DEF AccountsInv
<1>. QED
  BY <1>1, AccountsInvariant, PTL

\* At most one device can renew its session, the one that signed in last.
THEOREM OneRenews == AccountsSpec => []OneDeviceRenews
PROOF
<1>1. AccountsInv => OneDeviceRenews
  <2>. SUFFICES ASSUME AccountsInv PROVE OneDeviceRenews
    OBVIOUS
  <2>. DEFINE S == {d \in Devices : CanRefresh(d)}
  <2>1. S = {} \/ \E d \in S : S = {d}
    BY DEF AccountsInv, VersionsDiffer, CanRefresh
  <2>2. Cardinality(S) \in {0, 1}
    BY <2>1, FS_EmptySet, FS_Singleton
  <2>. QED
    BY <2>2 DEF OneDeviceRenews
<1>. QED
  BY <1>1, AccountsInvariant, PTL

\* No code is tried more often than its limit and the devices that read it at
\* once allow.
THEOREM AttemptsLimited == AccountsSpec => []AttemptsBounded
PROOF
<1>1. AccountsInv => AttemptsBounded
  <2>. SUFFICES ASSUME AccountsInv, NEW o \in DOMAIN codes
                PROVE  codes[o].attempts < OtpMaxAttempts + Cardinality(Devices)
    BY DEF AttemptsBounded
  <2>1. o \in 1..Len(codes)
    BY DEF AccountsInv, AccountsType
  <2>2. codes[o].attempts \in Nat /\ OtpMaxAttempts \in Nat
    BY <2>1, CodeFacts, AccountsAssumption DEF AccountsAssumption
  <2>3. codes[o].attempts + Cardinality(Readers(o)) < OtpMaxAttempts + Cardinality(Devices)
    BY <2>1 DEF AccountsInv, RoomForAttempts, Room
  <2>. QED
    BY <2>2, <2>3, FewReaders
<1>. QED
  BY <1>1, AccountsInvariant, PTL

-----------------------------------------------------------------------------
(* The keys of the panel.                                                  *)

RowType == [role : Roles, isActive : BOOLEAN]
RequestType == [what : {"nothing", "update", "deactivate"}, on : Users, wanted : RowType]

\* What an admin has asked to do to their own account leaves them an admin.
OwnKeys ==
  \A a \in Users : request[a].on = a =>
    /\ request[a].what # "deactivate"
    /\ request[a].what = "update" => request[a].wanted = Row("admin", TRUE)

KeysInv ==
  /\ row \in [Users -> RowType]
  /\ request \in [Users -> RequestType]
  /\ OwnKeys
  /\ KeysAreKept

\* NoRequest is of the type of requests wherever there is a user.
LEMMA NoRequestType ==
  ASSUME NEW u \in Users
  PROVE  NoRequest \in RequestType /\ NoRequest.what = "nothing"
PROOF
<1>1. (CHOOSE v \in Users : TRUE) \in Users
  OBVIOUS
<1>. QED
  BY <1>1 DEF NoRequest, Asked, Row, Roles, RequestType, RowType

\* No order of asking and writing by several admins breaks the invariant.
LEMMA KeysInvariant == StaffSpec => []KeysInv
PROOF
<1>1. StaffInit => KeysInv
  <2>. SUFFICES ASSUME StaffInit PROVE KeysInv
    OBVIOUS
  <2>1. PICK u \in Users : IsAdmin(u)
    BY DEF StaffInit
  <2>2. \A a \in Users : request[a] = NoRequest
    BY DEF StaffInit
  <2>3. /\ request \in [Users -> RequestType]
        /\ \A a \in Users : request[a].what = "nothing"
    BY <2>1, <2>2, NoRequestType DEF StaffInit
  <2>4. row \in [Users -> RowType]
    BY DEF StaffInit, RowType
  <2>. QED
    BY <2>1, <2>3, <2>4 DEF KeysInv, OwnKeys, KeysAreKept
<1>2. ASSUME KeysInv, [StaffNext]_staffVars PROVE KeysInv'
  <2>1. ASSUME NEW a \in Users, NEW r \in RequestType, r.what # "nothing", Passes(a, r)
        PROVE  KeysInv'
    <3>1. /\ request \in [Users -> RequestType] /\ request' = [request EXCEPT ![a] = r]
          /\ UNCHANGED <<row, crossed>>
      BY <1>2, <2>1 DEF Passes, KeysInv
    <3>2. r.on = a => r.what # "deactivate" /\ (r.what = "update" => r.wanted = Row("admin", TRUE))
      BY <2>1 DEF Passes, RefusedSelf, IsAdmin, RequestType, RowType, Row
    <3>. QED
      BY <1>2, <3>1, <3>2 DEF KeysInv, OwnKeys, KeysAreKept, IsAdmin
  <2>2. ASSUME NEW a \in Users, StaffFormDialog(a) \/ DisableAccount(a) PROVE KeysInv'
    <3>1. \E r \in RequestType : r.what # "nothing" /\ Passes(a, r)
      BY <2>2 DEF StaffFormDialog, DisableAccount, Asked, Row, RequestType, RowType, Roles
    <3>. QED
      BY <2>1, <3>1
  <2>3. ASSUME NEW a \in Users, NEW on \in Users, NEW wanted \in RowType,
               row' = [row EXCEPT ![on] = wanted], Written(a),
               on = a => (IsAdmin(a) => wanted.role = "admin" /\ wanted.isActive)
        PROVE  KeysInv'
    <3>1. row \in [Users -> RowType] /\ request \in [Users -> RequestType]
      BY <1>2 DEF KeysInv
    <3>2. request' = [request EXCEPT ![a] = NoRequest] /\ crossed' = (crossed \/ ~IsAdmin(a))
      BY <2>3 DEF Written
    <3>3. /\ row' \in [Users -> RowType] /\ request' \in [Users -> RequestType]
          /\ row'[a] = IF on = a THEN wanted ELSE row[a]
          /\ \A b \in Users : request'[b] = IF b = a THEN NoRequest ELSE request[b]
      BY <2>3, <3>1, <3>2, NoRequestType
    <3>4. IsAdmin(a) => IsAdmin(a)'
      BY <2>3, <3>3 DEF IsAdmin
    <3>5. KeysAreKept'
      BY <1>2, <3>2, <3>4 DEF KeysAreKept
    <3>6. OwnKeys'
      BY <1>2, <3>3, NoRequestType DEF KeysInv, OwnKeys
    <3>. QED
      BY <3>3, <3>5, <3>6 DEF KeysInv
  <2>4. ASSUME NEW a \in Users, update(a) PROVE KeysInv'
    <3>1. request[a] \in RequestType /\ request[a].what = "update"
      BY <1>2, <2>4 DEF update, KeysInv
    <3>2. request[a].on \in Users /\ request[a].wanted \in RowType
      BY <3>1 DEF RequestType
    <3>3. request[a].on = a => request[a].wanted.role = "admin" /\ request[a].wanted.isActive
      BY <1>2, <3>1 DEF KeysInv, OwnKeys, Row
    <3>. QED
      BY <2>3, <2>4, <3>2, <3>3 DEF update
  <2>5. ASSUME NEW a \in Users, deactivate(a) PROVE KeysInv'
    <3>1. request[a] \in RequestType /\ request[a].what = "deactivate"
      BY <1>2, <2>5 DEF deactivate, KeysInv
    <3>2. request[a].on \in Users /\ request[a].on # a
      BY <1>2, <3>1 DEF RequestType, KeysInv, OwnKeys
    <3>. DEFINE on == request[a].on
                off == [row[on] EXCEPT !.isActive = FALSE]
    <3>3. row[on] \in RowType
      BY <1>2, <3>2 DEF KeysInv
    <3>. HIDE DEF on
    <3>4. off \in RowType
      BY <3>3 DEF RowType
    <3>5. row' = [row EXCEPT ![on] = off] /\ Written(a)
      BY <2>5, Zenon DEF deactivate, on
    <3>. HIDE DEF off
    <3>. QED
      BY <2>3, <3>2, <3>4, <3>5 DEF on
  <2>6. CASE UNCHANGED staffVars
    BY <1>2, <2>6 DEF staffVars, KeysInv, OwnKeys, KeysAreKept, IsAdmin
  <2>. QED
    BY <1>2, <2>2, <2>4, <2>5, <2>6 DEF StaffNext
<1>. QED
  BY <1>1, <1>2, PTL DEF StaffSpec

\* An admin who can sign in is left, unless two requests crossed.
THEOREM KeysKept == StaffSpec => []KeysAreKept
PROOF
<1>1. KeysInv => KeysAreKept
  BY DEF KeysInv
<1>. QED
  BY <1>1, KeysInvariant, PTL

-----------------------------------------------------------------------------
(* Enrolment.                                                              *)

Stages == {"out", "totp", "totp_enroll", "in"}
PageType == [Pages -> [stage : Stages, qr : Nat, checked : Nat]]

\* A code that is about to enable TOTP was checked against the secret there is.
Backed == \A p \in Pages : page[p].checked # 0 => remade \/ secret = page[p].checked

EnrolmentInv ==
  /\ page \in PageType /\ secret \in Nat /\ made \in Nat
  /\ Backed
  /\ EnrolledCanVerify

\* TOTP stays enabled with the secret a code of the user was checked against,
\* unless a second setup or a reset crossed the enrolment.
THEOREM EnrolledVerifies == SignInSpec => []EnrolledCanVerify
PROOF
<1>1. SignInInit => EnrolmentInv
  <2>1. SignInInit => page \in PageType /\ \A p \in Pages : page[p].checked = 0
    BY DEF SignInInit, SignedOut, PageType, Stages
  <2>. QED
    BY <2>1 DEF SignInInit, EnrolmentInv, Backed, EnrolledCanVerify
<1>2. ASSUME EnrolmentInv, [SignInNext]_signInVars PROVE EnrolmentInv'
  <2>1. ASSUME NEW p \in Pages, NEW stage \in Stages, Turns(p, stage)
        PROVE  /\ page' \in PageType
               /\ \A q \in Pages : page'[q].checked \in {0, page[q].checked}
    <3>1. page \in PageType
      BY <1>2 DEF EnrolmentInv
    <3>2. [SignedOut EXCEPT !.stage = stage] = [stage |-> stage, qr |-> 0, checked |-> 0]
      BY DEF SignedOut
    <3>3. page' = [page EXCEPT ![p] = [stage |-> stage, qr |-> 0, checked |-> 0]]
      BY <2>1, <3>2 DEF Turns
    <3>. QED
      BY <3>1, <3>3 DEF PageType
  <2>2. ASSUME NEW p \in Pages, LoginForm(p) \/ Scan(p) \/ SignOut(p) PROVE EnrolmentInv'
    <3>1. UNCHANGED <<secret, enabled, made, proven, remade>>
      BY <2>2 DEF LoginForm, login, totpVerify, Scan, SignOut
    <3>2. UNCHANGED page \/ \E stage \in Stages : Turns(p, stage)
      BY <2>2 DEF LoginForm, login, totpVerify, Scan, SignOut, Stages
    <3>. QED
      BY <1>2, <2>1, <3>1, <3>2 DEF EnrolmentInv, Backed, EnrolledCanVerify
  <2>3. ASSUME NEW p \in Pages, totpSetup(p) PROVE EnrolmentInv'
    <3>1. page \in PageType /\ made \in Nat /\ page' = [page EXCEPT ![p].qr = made + 1]
      BY <1>2, <2>3 DEF totpSetup, EnrolmentInv
    <3>2. page' \in PageType /\ \A q \in Pages : page'[q].checked = page[q].checked
      BY <3>1 DEF PageType
    <3>3. /\ made' = made + 1 /\ secret' = made + 1 /\ UNCHANGED <<enabled, proven>>
          /\ remade' = (remade \/ enabled \/ Enrolling)
      BY <2>3, Zenon DEF totpSetup
    <3>4. Backed' /\ EnrolledCanVerify'
      BY <3>2, <3>3 DEF Enrolling, Backed, EnrolledCanVerify
    <3>. QED
      BY <3>1, <3>2, <3>3, <3>4 DEF EnrolmentInv
  <2>4. ASSUME NEW p \in Pages, EnrolChecks(p) PROVE EnrolmentInv'
    <3>1. page \in PageType /\ secret \in Nat /\ page' = [page EXCEPT ![p].checked = secret]
      BY <1>2, <2>4 DEF EnrolChecks, EnrolmentInv
    <3>2. /\ page' \in PageType
          /\ \A q \in Pages : page'[q].checked = IF q = p THEN secret ELSE page[q].checked
      BY <3>1 DEF PageType
    <3>3. UNCHANGED <<secret, enabled, made, proven, remade>>
      BY <2>4, Zenon DEF EnrolChecks
    <3>. QED
      BY <1>2, <3>2, <3>3 DEF EnrolmentInv, Backed, EnrolledCanVerify
  <2>5. ASSUME NEW p \in Pages, totpEnroll(p) PROVE EnrolmentInv'
    <3>1. Turns(p, "in") /\ "in" \in Stages
      BY <2>5 DEF totpEnroll, Stages
    <3>2. remade \/ secret = page[p].checked
      BY <1>2, <2>5 DEF totpEnroll, EnrolmentInv, Backed
    <3>3. /\ enabled' = TRUE /\ proven' = page[p].checked /\ page[p].checked # 0
          /\ UNCHANGED <<secret, made, remade>>
      BY <2>5 DEF totpEnroll
    <3>. QED
      BY <1>2, <2>1, <3>1, <3>2, <3>3 DEF EnrolmentInv, Backed, EnrolledCanVerify
  <2>6. CASE resetPassword
    <3>1. /\ secret' = 0 /\ enabled' = FALSE /\ remade' = (remade \/ Enrolling)
          /\ UNCHANGED <<page, made, proven>>
      BY <2>6 DEF resetPassword, ClearTotp
    <3>2. Backed' /\ EnrolledCanVerify'
      BY <1>2, <3>1 DEF EnrolmentInv, Backed, Enrolling, EnrolledCanVerify
    <3>. QED
      BY <1>2, <3>1, <3>2 DEF EnrolmentInv
  <2>7. CASE SwitchAccount
    BY <1>2, <2>7 DEF SwitchAccount, EnrolmentInv, Backed, EnrolledCanVerify
  <2>8. CASE UNCHANGED signInVars
    BY <1>2, <2>8 DEF signInVars, EnrolmentInv, Backed, EnrolledCanVerify
  <2>. QED
    BY <1>2, <2>2, <2>3, <2>4, <2>5, <2>6, <2>7, <2>8 DEF SignInNext, EnrollForm
<1>3. EnrolmentInv => EnrolledCanVerify
  BY DEF EnrolmentInv
<1>. QED
  BY <1>1, <1>2, <1>3, PTL DEF SignInSpec

=============================================================================
