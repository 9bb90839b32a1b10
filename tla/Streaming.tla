----------------------------- MODULE Streaming -----------------------------
(***************************************************************************)
(* Encrypted files in blocks: EncryptFileStreaming and                     *)
(* DecryptFileStreaming (client/streaming.go), several calls at once on one*)
(* .enc file, each free to fail or be killed at any write.                 *)
(*                                                                         *)
(* A file is a sequence of cells.  The magic, the chunk count and a chunk  *)
(* size take one cell each, a sealed chunk one per unit of plaintext and   *)
(* Overhead for its nonce and tag.  Every encryption has a key of its own, *)
(* as handleEncrypt draws one per file, and gcm.Open succeeds on exactly   *)
(* the cells one gcm.Seal under that key made.  (Chunks are not bound to   *)
(* their place: of two files under one key they could be exchanged.)       *)
(***************************************************************************)
EXTENDS Naturals, Sequences, SequencesExt

CONSTANTS
  Encrypts,      \* calls of EncryptFileStreaming, all to one dstPath
  Decrypts,      \* calls of DecryptFileStreaming on it
  Legacy,        \* the encryption behind a v1 file found at the start
  LegacyLength,  \* the length of its source
  Lengths,       \* lengths the other sources may have
  ChunkSize,     \* chunkSize, in plaintext units
  MaxChunks,     \* the most chunks decryptV2 takes (10000)
  Words          \* what four bytes of a ciphertext may be as a uint32

\* As in the code, a chunk is longer than the header of any file decryptV2
\* takes: shifted headers never meet a chunk boundary.
Overhead == 1
ASSUME SizesAssumption ==
  ChunkSize \in Nat \ {0} /\ MaxChunks \in Nat \ {0} /\ ChunkSize + Overhead > MaxChunks

ASSUME WordsAssumption == Words \subseteq Nat

\* Lengths are whole numbers, and no running call has the key of the v1 file.
ASSUME LengthsAssumption == Lengths \subseteq Nat /\ LegacyLength \in Nat
ASSUME LegacyAssumption == Legacy \notin Encrypts

VARIABLES
  file,   \* the .enc file
  enc,    \* each encryption: where it is, its source's length, cells written
  dec     \* each decryption: where it is, its key, what it has read and written

vars == <<file, enc, dec>>

Makers == Encrypts \cup {Legacy}

\* What is in a cell.
V1Magic == <<"SE01">>
V2Magic == <<"SE02">>
Num(n) == <<"num", n>>
Zero == <<"zero">>                       \* never written: a hole
SealedCell(e, i, k) == <<"sealed", e, i, k>>

\* The source file of e.
Source(e) == [i \in 1..enc[e].len |-> <<e, i>>]

\* The io.ReadFull loop: full chunks, then what is left, never an empty one.
ChunkCount(e) == (enc[e].len + ChunkSize - 1) \div ChunkSize
Least(m, n) == IF m <= n THEN m ELSE n
Chunk(e, i) ==
  SubSeq(Source(e), (i - 1) * ChunkSize + 1, Least(i * ChunkSize, enc[e].len))

\* nonce || gcm.Seal(plain), the i-th such result of e.
Seal(e, i, plain) == [k \in 1..Len(plain) + Overhead |-> SealedCell(e, i, k)]

Chunks(e) == [i \in 1..ChunkCount(e) |-> Seal(e, i, Chunk(e, i))]

\* Everything EncryptFileStreaming writes, in order.
Output(e) ==
  <<V2Magic, Num(ChunkCount(e))>>
  \o [i \in 1..ChunkCount(e) |-> Num(Len(Chunks(e)[i]))]
  \o FlattenSeq(Chunks(e))

\* A file of the older format: one block.
V1File == <<V1Magic>> \o Seal(Legacy, 0, Source(Legacy))

\* The file once cell number p has been written; a gap reads as zeros.
WriteAt(p, cell) ==
  [i \in 1..(IF p > Len(file) THEN p ELSE Len(file)) |->
     IF i = p THEN cell ELSE IF i <= Len(file) THEN file[i] ELSE Zero]

-----------------------------------------------------------------------------
(* EncryptFileStreaming.                                                   *)

\* The file's content becomes f, under the decryptions that read it.
SetFile(f) ==
  /\ file' = f
  /\ dec' = [d \in Decrypts |-> [dec[d] EXCEPT !.steady = @ /\ f = file]]

\* os.Create: an existing file is cut to nothing.
EncryptCreate(e) ==
  /\ enc[e].at = "idle"
  /\ \E n \in Lengths :
       enc' = [enc EXCEPT ![e] = [at |-> "writing", written |-> 0, len |-> n]]
  /\ SetFile(<<>>)

\* The next cell of the output; a write may be cut short anywhere.
EncryptWrite(e) ==
  /\ enc[e].at = "writing"
  /\ LET p == enc[e].written + 1 IN
       /\ SetFile(WriteAt(p, Output(e)[p]))
       /\ enc' = [enc EXCEPT ![e].written = p,
                             ![e].at = IF p = Len(Output(e)) THEN "done" ELSE @]

\* A file operation fails, or the process is killed: what was written stays.
EncryptFails(e) ==
  /\ enc[e].at \in {"idle", "writing"}
  /\ enc' = [enc EXCEPT ![e].at = "failed"]
  /\ UNCHANGED <<file, dec>>

-----------------------------------------------------------------------------
(* DecryptFileStreaming.                                                   *)

\* The call goes on, or returns, as the record r.
Becomes(d, r) == dec' = [dec EXCEPT ![d] = r] /\ UNCHANGED <<file, enc>>
Returns(d, result) == Becomes(d, [dec[d] EXCEPT !.at = result])

\* The next n cells, if the file has as many: io.ReadFull.
Available(d, n) == dec[d].pos + n <= Len(file)
Ahead(d, n) == SubSeq(file, dec[d].pos + 1, Least(dec[d].pos + n, Len(file)))

\* What four bytes of a cell give as a uint32: those of a sealed chunk, or of
\* a magic, any of Words.
Reads(cell) ==
  IF cell[1] = "num" THEN {cell[2]}
  ELSE IF cell = Zero THEN {0} ELSE Words

\* What gcm.Open under the key of e gives for these cells: none or one text.
Open(e, cells) ==
  {Chunk(e, i) : i \in {j \in 1..ChunkCount(e) : cells = Seal(e, j, Chunk(e, j))}}

\* The call starts, with the key of some encryption.
DecryptStart(d) ==
  /\ dec[d].at = "idle"
  /\ \E e \in Makers :
       Becomes(d, [dec[d] EXCEPT !.at = "magic", !.key = e,
         !.steady = \/ e # Legacy /\ file = Output(e)
                    \/ e = Legacy /\ file = V1File])

ReadMagic(d) ==
  /\ dec[d].at = "magic"
  /\ Becomes(d, [dec[d] EXCEPT !.pos = 1,
       !.at = IF ~Available(d, 1) THEN "error"
              ELSE CASE file[1] = V1Magic -> "v1"
                     [] file[1] = V2Magic -> "count"
                     [] OTHER -> "error"])

\* decryptV1 reads all that is left and writes dstPath in one go.
DecryptV1(d) ==
  /\ dec[d].at = "v1"
  /\ LET rest == SubSeq(file, 2, Len(file)) IN
       IF dec[d].key = Legacy /\ rest = Seal(Legacy, 0, Source(Legacy))
         THEN Becomes(d, [dec[d] EXCEPT !.at = "ok", !.out = Source(Legacy)])
         ELSE Returns(d, "error")

\* Mutant: only an empty file is refused.
ReadCountUnbounded(d) ==
  /\ dec[d].at = "count"
  /\ \/ ~Available(d, 1) /\ Returns(d, "error")
     \/ /\ Available(d, 1)
        /\ \E n \in Reads(file[2]) :
             Becomes(d, [dec[d] EXCEPT !.pos = 2, !.count = n,
               !.at = IF n = 0 THEN "error" ELSE "sizes"])

\* Mutant: the bound itself is refused.
ReadCountBelow(d) ==
  /\ dec[d].at = "count"
  /\ \/ ~Available(d, 1) /\ Returns(d, "error")
     \/ /\ Available(d, 1)
        /\ \E n \in Reads(file[2]) :
             Becomes(d, [dec[d] EXCEPT !.pos = 2, !.count = n,
               !.at = IF n = 0 \/ n >= MaxChunks THEN "error" ELSE "sizes"])

ReadCount(d) ==
  /\ dec[d].at = "count"
  /\ \/ ~Available(d, 1) /\ Returns(d, "error")
     \/ /\ Available(d, 1)
        /\ \E n \in Reads(file[2]) :
             Becomes(d, [dec[d] EXCEPT !.pos = 2, !.count = n,
               !.at = IF n = 0 \/ n > MaxChunks THEN "error" ELSE "sizes"])

\* One size; dstPath is created after the last.
ReadSize(d) ==
  /\ dec[d].at = "sizes"
  /\ \/ ~Available(d, 1) /\ Returns(d, "error")
     \/ /\ Available(d, 1)
        /\ \E n \in Reads(file[dec[d].pos + 1]) :
             Becomes(d, [dec[d] EXCEPT !.pos = @ + 1, !.sizes = Append(@, n),
               !.at = IF Len(dec[d].sizes) + 1 = dec[d].count THEN "chunks" ELSE @])

\* The chunk is read in full and opened, and its plaintext is written.
OpenChunk(d, plain) ==
  Becomes(d, [dec[d] EXCEPT !.pos = @ + Head(dec[d].sizes),
    !.sizes = Tail(@), !.out = @ \o plain,
    !.at = IF Len(dec[d].sizes) = 1 THEN "ok" ELSE @])

\* Mutant: the end of the file ends the loop like the last chunk does.
ReadChunkToEOF(d) ==
  /\ dec[d].at = "chunks"
  /\ LET n == Head(dec[d].sizes)
         plains == Open(dec[d].key, Ahead(d, n))
     IN  \/ ~Available(d, n) /\ Returns(d, "ok")
         \/ Available(d, n) /\ plains = {} /\ Returns(d, "error")
         \/ Available(d, n) /\ \E plain \in plains : OpenChunk(d, plain)

\* Mutant: a chunk is written before it is known to open.
ReadChunkWritesFirst(d) ==
  /\ dec[d].at = "chunks"
  /\ LET n == Head(dec[d].sizes)
         plains == Open(dec[d].key, Ahead(d, n))
     IN  \/ ~Available(d, n) /\ Returns(d, "error")
         \/ /\ Available(d, n) /\ plains = {}
            /\ Becomes(d, [dec[d] EXCEPT !.at = "error", !.out = @ \o Ahead(d, n)])
         \/ Available(d, n) /\ \E plain \in plains : OpenChunk(d, plain)

ReadChunk(d) ==
  /\ dec[d].at = "chunks"
  /\ LET n == Head(dec[d].sizes)
         plains == Open(dec[d].key, Ahead(d, n))
     IN  \/ /\ ~Available(d, n) \/ plains = {}
            /\ Returns(d, "error")
         \/ Available(d, n) /\ \E plain \in plains : OpenChunk(d, plain)

\* dstPath cannot be written, or the process is killed.
DecryptFails(d) ==
  /\ dec[d].at \in {"magic", "v1", "count", "sizes", "chunks"}
  /\ Returns(d, "failed")

-----------------------------------------------------------------------------
Init ==
  /\ enc = [e \in Makers |-> [at |-> "idle", written |-> 0,
              len |-> IF e = Legacy THEN LegacyLength ELSE 0]]
  /\ file = V1File
  /\ dec = [d \in Decrypts |-> [at |-> "idle", key |-> Legacy, pos |-> 0,
              count |-> 0, sizes |-> <<>>, out |-> <<>>, steady |-> FALSE]]

EncryptFileStreaming(e) == EncryptCreate(e) \/ EncryptWrite(e) \/ EncryptFails(e)

DecryptFileStreaming(d) ==
  \/ DecryptStart(d) \/ ReadMagic(d) \/ DecryptV1(d) \/ ReadCount(d)
  \/ ReadSize(d) \/ ReadChunk(d) \/ DecryptFails(d)

Next ==
  \/ \E e \in Encrypts : EncryptFileStreaming(e)
  \/ \E d \in Decrypts : DecryptFileStreaming(d)

Spec == Init /\ [][Next]_vars

-----------------------------------------------------------------------------
(* Properties.                                                             *)

\* Types.  A decryption past its chunk count holds at most MaxChunks sizes,
\* whatever bytes it took for the count, and is never left without one.
TypeOK ==
  /\ \A e \in Makers :
       /\ enc[e].at \in {"idle", "writing", "done", "failed"}
       /\ enc[e].len \in Nat /\ enc[e].written \in Nat
  /\ \A d \in Decrypts :
       /\ dec[d].at \in {"idle", "magic", "v1", "count", "sizes", "chunks",
                         "ok", "error", "failed"}
       /\ dec[d].key \in Makers /\ dec[d].steady \in BOOLEAN
       /\ dec[d].at \in {"sizes", "chunks"} =>
            dec[d].count \in 1..MaxChunks /\ Len(dec[d].sizes) <= dec[d].count
       /\ dec[d].at = "chunks" => dec[d].sizes # <<>>

\* A decryption that returns no error has written the whole source of the
\* encryption whose key it was given, and nothing else: not of a file cut
\* short, not of one rewritten under it, not of two encryptions mixed.
DecryptsWhole ==
  \A d \in Decrypts : dec[d].at = "ok" => dec[d].out = Source(dec[d].key)

\* Whatever becomes of a decryption, dstPath holds a beginning of that
\* source: no later block before an earlier one, nothing unauthenticated.
OutIsPrefix ==
  \A d \in Decrypts : IsPrefix(dec[d].out, Source(dec[d].key))

\* A complete file left alone decrypts with its key, up to MaxChunks chunks
\* and down to one ("TestStreamingRoundTrip", client/streaming_test.go:17).
\* An empty source has no chunk: encryption accepts it, decryptV2 does not.
RoundTrips ==
  \A d \in Decrypts : dec[d].at = "error" /\ dec[d].steady =>
    dec[d].key # Legacy /\ ChunkCount(dec[d].key) \notin 1..MaxChunks
=============================================================================
