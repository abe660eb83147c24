SPECIFICATION Spec
CONSTANTS
  Devices = {phone1, laptop}
  OtpMaxAttempts = 2
  MaxCodes = 3
  MaxVersion = 3
  Users = {ann, bob, cid}
  Pages = {p1, p2}
  MaxSecrets = 3
CHECK_DEADLOCK FALSE
INVARIANTS  OneDeviceRenews AttemptsBounded KeysAreKept EnrolledCanVerify
