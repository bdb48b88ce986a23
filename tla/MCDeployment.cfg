\* Three script runs, two images, two publishes after the recorded one.
CONSTANTS
  Scripts = {s1, s2, s3}
  Images = {i1, i2}
  MaxPublished = 3
  None = None
  Torn = Torn
  Empty = Empty
SPECIFICATION Spec
SYMMETRY MCSymmetry
INVARIANTS
  TypeOK
  RecordNamesOnePublish
  LastPublishNamed
  RegistrationSucceeds
  UpgradedOnce
PROPERTIES
  BrokenForGood
CHECK_DEADLOCK FALSE
