SPECIFICATION Spec
CONSTANTS
  None = None
  BLK = 3
  CTR = 64
  IVLEN = 1
  LONGAAD = 20
  LANES2 = 2
  LANES5 = 4
  LANESN = 2
  CHUNK = 4
  AeadCalls <- NoCalls
  HB = 6
  LB = 2
  RATE = 4
  DIG = 2
  COUNT = 4
  PaddedCalls <- NoCalls
  PS_MIN = 2
  PREFIX = 3
  LIMB_BITS = 2
  LIMBS = 3
  E_PUB = 7
  PRIME_BITS = 6
  RsaCalls <- NoCalls
  HashCalls <- Sha3Calls
  BYTE = 8
  MaxStreams = 1000000
  Absent = Absent
  RSA_UNIT = 2
  ZERO_TIME = 1000000
  CodecCalls <- NoCalls
  CertCalls <- NoCalls
  TreeCalls <- NoCalls
  Logs <- NoCalls
  Roots <- NoCalls
  Chains <- NoCalls
  ClockReadings <- NoCalls
  OCTET = 16
  TICKS = 10
  MaxEntries = 3
  MaxHeads = 2
INVARIANT
  Sha3Standard
