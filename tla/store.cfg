SPECIFICATION Spec
CONSTANTS
  Contents = {u1, u2, u3}
  Empty = Empty
  MaxSequence = 3
  MaxLines = 4
  Filesystems <- SoundFilesystems
SYMMETRY ContentsSymmetry
INVARIANTS
  TypeOK
  RestartFindsAcknowledged
PROPERTIES
  AcknowledgedSequenceGrows
  KeepsDurableState
