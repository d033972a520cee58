---------------------------- MODULE CryptoStream ----------------------------
(***************************************************************************)
(* The format of a stored file (internal/crypto) and the two loops over    *)
(* it: EncryptStream writes a nonce and then one sealed chunk per          *)
(* ChunkSize of input, DecryptStream reads them back and hands every chunk *)
(* on as soon as it has opened it.  Files are sequences of units; the      *)
(* units of a sealed chunk know the key, the nonce and the text they are   *)
(* made of, so that a chunk opens only whole, in its place and with its    *)
(* key.                                                                    *)
(***************************************************************************)
EXTENDS Naturals, Sequences, SequencesExt

CONSTANTS
    Text,        \* units of plain text
    MaxLength,   \* bound on the length of a plain file
    ChunkSize,
    Overhead     \* units AES-GCM adds to a chunk, and of the nonce

ASSUME CryptoAssumption ==
    /\ MaxLength \in Nat
    /\ ChunkSize \in Nat \ {0}
    /\ Overhead \in Nat \ {0}

VARIABLES
    stage,    \* "encrypt", "stored", "decrypt", "done" or "failed"
    plain,    \* the source of EncryptStream
    stored,   \* the file on the storage volume
    index,    \* chunkIdx of the running loop
    pos,      \* how far the running loop has read
    out       \* what DecryptStream has written

vars == <<stage, plain, stored, index, pos, out>>

encChunkSize == ChunkSize + Overhead

Nonce == [k \in 1..Overhead |-> <<"nonce", k>>]

\* gcm.Seal under chunkNonce(baseNonce, i).
Seal(i, text) == [k \in 1..(Len(text) + Overhead) |-> <<"chunk", i, text, k>>]

\* gcm.Open succeeds on exactly what Seal made under the same nonce; nothing
\* is opened once the file is read to its end.
Opens(i, units) == units # <<>> /\ units = Seal(i, units[1][3])

TextOf(units) == units[1][3]

\* io.ReadFull of n units: fewer at the end of the file, where it also
\* reports io.EOF or io.ErrUnexpectedEOF.
Read(file, n) ==
    SubSeq(file, pos + 1, IF pos + n < Len(file) THEN pos + n ELSE Len(file))

CryptoTypeOK ==
    /\ stage \in {"encrypt", "stored", "decrypt", "done", "failed"}
    /\ plain \in BoundedSeq(Text, MaxLength)
    /\ out \in BoundedSeq(Text, MaxLength)
    /\ index \in 0..(MaxLength + 1)
    /\ pos \in 0..Len(IF stage \in {"encrypt", "stored"} THEN plain
                     ELSE stored)

Init ==
    /\ stage = "encrypt"
    /\ plain \in BoundedSeq(Text, MaxLength)
    /\ stored = Nonce
    /\ index = 0 /\ pos = 0
    /\ out = <<>>

----------------------------------------------------------------------------

Encrypted(text, written, read) ==
    /\ stored' = IF text = <<>> THEN stored ELSE stored \o written
    /\ pos' = pos + read
    /\ index' = IF text = <<>> THEN index ELSE index + 1
    /\ stage' = IF Len(text) < ChunkSize THEN "stored" ELSE "encrypt"
    /\ UNCHANGED <<plain, out>>

\* Mutants of EncryptChunk: every chunk gets the nonce of the first; the
\* whole buffer is sealed, what the read before left in it included; the
\* reader is believed to have moved by a whole chunk.
EncryptSameNonce ==
    LET text == Read(plain, ChunkSize)
    IN  stage = "encrypt" /\ Encrypted(text, Seal(0, text), Len(text))

EncryptWholeBuffer ==
    LET text == Read(plain, ChunkSize)
        last == SubSeq(plain, pos + Len(text) - ChunkSize + 1, pos)
    IN  /\ stage = "encrypt"
        /\ Encrypted(text, Seal(index, IF pos > 0 THEN text \o last ELSE text),
                     Len(text))

EncryptWholeSteps ==
    LET text == Read(plain, ChunkSize)
    IN  stage = "encrypt" /\ Encrypted(text, Seal(index, text), ChunkSize)

\* A short read is the last one; a file of whole chunks ends with an empty
\* read that writes nothing.
EncryptChunk ==
    LET text == Read(plain, ChunkSize)
    IN  stage = "encrypt" /\ Encrypted(text, Seal(index, text), Len(text))

\* The writer ends early, anywhere in what it wrote; the file left behind is
\* told from a complete one by pos.
CutShort ==
    /\ stage \in {"encrypt", "stored"}
    /\ \E n \in 0..(Len(stored) - 1) : stored' = SubSeq(stored, 1, n)
    /\ stage' = "stored"
    /\ pos' = 0
    /\ UNCHANGED <<plain, index, out>>

\* An empty file is no error and decrypts to nothing.
ReadNonce ==
    /\ stage = "stored"
    /\ index' = 0 /\ pos' = IF Len(stored) < Overhead THEN 0 ELSE Overhead
    /\ stage' = IF stored = <<>> THEN "done"
                ELSE IF Len(stored) < Overhead THEN "failed" ELSE "decrypt"
    /\ UNCHANGED <<plain, stored, out>>

Decrypted(units) ==
    /\ Opens(index, units)
    /\ out' = out \o TextOf(units)
    /\ index' = index + 1
    /\ pos' = pos + Len(units)
    /\ stage' = IF Len(units) < encChunkSize THEN "done" ELSE "decrypt"

\* Mutant of DecryptChunk: a chunk that does not open ends the file.
DecryptToGarbage ==
    LET units == Read(stored, encChunkSize)
    IN  /\ stage = "decrypt"
        /\ \/ Decrypted(units)
           \/ /\ ~Opens(index, units)
              /\ stage' = "done"
              /\ UNCHANGED <<index, pos, out>>
        /\ UNCHANGED <<plain, stored>>

DecryptChunk ==
    LET units == Read(stored, encChunkSize)
    IN  /\ stage = "decrypt"
        /\ \/ Decrypted(units)
           \/ /\ ~Opens(index, units)
              /\ stage' = IF units = <<>> THEN "done" ELSE "failed"
              /\ UNCHANGED <<index, pos, out>>
        /\ UNCHANGED <<plain, stored>>

Next == EncryptChunk \/ CutShort \/ ReadNonce \/ DecryptChunk

Spec == Init /\ [][Next]_vars

----------------------------------------------------------------------------

\* The format, unit by unit: the nonce, then the sealed chunks, all but the
\* last of the same length.
Chunks(text) == (Len(text) + ChunkSize - 1) \div ChunkSize

FileLength(text) == Overhead + Len(text) + Chunks(text) * Overhead

Piece(text, i) ==
    SubSeq(text, i * ChunkSize + 1,
           IF (i + 1) * ChunkSize < Len(text) THEN (i + 1) * ChunkSize
           ELSE Len(text))

UnitOf(text, n) ==
    LET i == (n - Overhead - 1) \div encChunkSize
    IN  IF n <= Overhead THEN <<"nonce", n>>
        ELSE <<"chunk", i, Piece(text, i), n - Overhead - i * encChunkSize>>

Format(text) == [n \in 1..FileLength(text) |-> UnitOf(text, n)]

Beginning(file, text) ==
    /\ Len(file) <= FileLength(text)
    /\ \A n \in 1..Len(file) : file[n] = UnitOf(text, n)

\* What the properties rest on: the loops agree with the format, chunk by
\* chunk, and the file is at any time a beginning of the complete one.
StreamInv ==
    /\ Beginning(stored, plain)
    /\ stage = "encrypt" =>
          /\ pos = index * ChunkSize
          /\ Len(stored) = Overhead + index * encChunkSize
    /\ stage = "stored" /\ pos > 0 => Len(stored) = FileLength(plain)
    /\ stage \in {"encrypt", "stored"} => out = <<>>
    /\ stage = "decrypt" =>
          /\ pos = Overhead + index * encChunkSize
          /\ index * ChunkSize <= Len(plain)
          /\ out = SubSeq(plain, 1, index * ChunkSize)
    /\ stage = "done" => (stored = <<>> /\ out = <<>>) \/ stored = Format(out)
    /\ stage \in {"done", "failed"} => IsPrefix(out, plain)
    /\ stage = "failed" => stored # Format(plain)

\* What EncryptStream writes when nothing cuts it short is the format, and
\* DecryptStream of it ends well with the very text, at every length around
\* a multiple of the chunk size.
RoundTrip ==
    /\ stage = "done" /\ stored = Format(plain) => out = plain
    /\ stage = "failed" => stored # Format(plain)
    /\ stage = "stored" /\ pos > 0 => stored = Format(plain)

\* handleDownload streams chunks to the client while later ones are not yet
\* checked: whatever happened to the file, what was sent is a beginning of
\* the text.
SendsPrefix == IsPrefix(out, plain)

\* A decryption that ends without an error has sent the text of exactly the
\* file it read: a cut inside a chunk or the nonce is an error.  A cut between
\* two chunks leaves the complete file of a shorter text.
CutIsNoticed == stage = "done" /\ stored # <<>> => stored = Format(out)

=============================================================================
