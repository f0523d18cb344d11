SPECIFICATION Spec
CONSTANTS
  Contents = {u1, u2, u3}
  Empty = Empty
  MaxSequence = 3
  MaxLines = 4
  Filesystems <- FullDisk
SYMMETRY ContentsSymmetry
INVARIANTS
  RestartFindsAcknowledged
