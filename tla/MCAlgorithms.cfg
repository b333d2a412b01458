SPECIFICATION Spec
CONSTANTS
  None = None
  BLK = 3
  CTR = 64
  IVLEN = 1
  LONGAAD = 20
  LANES2 = 2
  LANES5 = 4
  LANESN = 2
  CHUNK = 4
  AeadCalls <- AllAeadCalls
  HB = 6
  LB = 2
  RATE = 4
  DIG = 2
  COUNT = 4
  PaddedCalls <- AllPaddedCalls
  PS_MIN = 2
  PREFIX = 3
  LIMB_BITS = 2
  LIMBS = 3
  E_PUB = 7
  PRIME_BITS = 6
  RsaCalls <- EveryRsaCall
  HashCalls <- AllHashCalls
  BYTE = 8
  MaxStreams = 1000000
  Absent = Absent
  RSA_UNIT = 2
  ZERO_TIME = 1000000
  CodecCalls <- EveryCodecCall
  CertCalls <- EveryCertCall
  TreeCalls <- AllTreeCalls
  Logs <- ThreeLogs
  Roots <- TheRoot
  Chains <- SomeChains
  ClockReadings <- Readings
  OCTET = 16
  TICKS = 10
  MaxEntries = 3
  MaxHeads = 2
INVARIANTS
  CiphersMatch
  TamperedRefused
  RsaHolds
  HashesMatch
  CodecsInvert
  CertificatesHold
  LogKept
  LogProofsHold
