\* Two encryptions and a decryption of one file at once; sources of no, one,
\* the most and too many chunks.
SPECIFICATION Spec
CONSTANTS
  Encrypts = {e1, e2}
  Decrypts = {d1}
  Legacy = old
  LegacyLength = 3
  Lengths = {0, 2, 3, 4, 5}
  ChunkSize = 2
  MaxChunks = 2
  Words = {0, 1, 2, 3, 4}
CHECK_DEADLOCK FALSE
SYMMETRY EncryptSymmetry
INVARIANTS
  TypeOK
  DecryptsWhole
  OutIsPrefix
  RoundTrips
