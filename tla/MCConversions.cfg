\* Every short input.
CONSTANTS
  Texts <- ShortTexts
  MinItems = 1
  Days <- Calendar
  Seconds <- Midnights
  Manifests <- ThreeDests
  Bases = {0, 1}
  Noise <- ShortNoise
  Objects <- SmallObjects
SPECIFICATION Spec
CHECK_DEADLOCK FALSE
INVARIANTS SetSizeIsScored CertificateTimeExact DialReachesHost RegistrationFound
