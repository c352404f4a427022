------------------------------ MODULE KeyHashing ------------------------------
(***************************************************************************)
(* The blocks that are hashed on the way from a public key to an address   *)
(* (address_hash.cpp, checksum.cpp).  A word is its four bytes, most       *)
(* significant first; w >> 8 | v << 24 moves w on by a byte, behind v.     *)
(***************************************************************************)
EXTENDS Integers, SequencesExt

Zero == <<0, 0, 0, 0>>
Num(n) == <<0, 0, n \div 256, n % 256>>
EndMark == <<128, 0, 0, 0>>
Behind(v, w) == <<v[4], w[1], w[2], w[3]>>

\* A list of words moved on by a byte, behind the word first.
Moved(first, words) ==
  [i \in DOMAIN words |-> Behind(IF i = 1 THEN first ELSE words[i - 1], words[i])]

\* A block of 16 words: the given ones, zeros and the length.
Block(words, length) ==
  [i \in 1 .. 16 |-> IF i <= Len(words) THEN words[i] ELSE IF i = 16 THEN length ELSE Zero]

CompressedBlock(x, y) ==
  Block(Moved(Num(IF y[8][4] % 2 = 1 THEN 3 ELSE 2), x \o <<EndMark>>), Num(33 * 8))

UncompressedBlocks(x, y) ==
  LET moved == Moved(Num(4), x \o y \o <<EndMark>>)
  IN  <<SubSeq(moved, 1, 16), Block(<<moved[17]>>, Num(65 * 8))>>

\* RIPEMD-160 reads its words from the last byte to the first.
Endian(w) == Reverse(w)
RipemdBlock(digest) ==
  [i \in 1 .. 16 |-> IF i <= 8 THEN Endian(digest[i])
                     ELSE IF i = 9 THEN Num(128) ELSE IF i = 15 THEN Num(256) ELSE Zero]

\* The version byte 0 and the hash; then the digest of that.
ChecksumBlock(hash) == Block(Moved(Zero, hash \o <<EndMark>>), Num(21 * 8))
ChecksumBlock2(digest) == Block(digest \o <<EndMark>>, Num(32 * 8))

\* The words of an address before its first character.
AddressWords(hash, checksum) == <<Zero, Zero>> \o hash \o <<checksum>>

-----------------------------------------------------------------------------
(* Reference definition: the padding of SHA-256 and RIPEMD-160 *)

Zeros(n) == [i \in 1 .. n |-> 0]
PadLength(n) == (55 - n) % 64
Padded(octets) ==
  octets \o <<128>> \o Zeros(PadLength(Len(octets)) + 6)
         \o <<(8 * Len(octets)) \div 256, (8 * Len(octets)) % 256>>
PaddedRipemd(octets) ==
  octets \o <<128>> \o Zeros(PadLength(Len(octets)))
         \o <<(8 * Len(octets)) % 256, (8 * Len(octets)) \div 256>> \o Zeros(6)

Octets(words) == FlattenSeq(words)

\* Words whose bytes are all different and no byte of the padding: what holds
\* for these names of bytes holds for all bytes.
Named(from, n) == [i \in 1 .. n |-> [j \in 1 .. 4 |-> from + 4 * i + j]]

\* Every key, compressed or not, every hash and every digest is hashed as the
\* octets it stands for, padded to blocks (address_hash.cpp:91-189,
\* checksum.cpp:12-46).
MessagesArePadded ==
  /\ \A parity \in {0, 1} :
       LET x == Named(256, 8)
           y == Named(512 + parity, 8)
       IN  /\ Octets(CompressedBlock(x, y)) =
                Padded(<<IF y[8][4] % 2 = 0 THEN 2 ELSE 3>> \o Octets(x))
           /\ Octets(UncompressedBlocks(x, y)[1]) \o Octets(UncompressedBlocks(x, y)[2])
                = Padded(<<4>> \o Octets(x) \o Octets(y))
  /\ LET digest == Named(256, 8)
         hash == Named(512, 5)
     IN  /\ FlattenSeq([i \in 1 .. 16 |-> Reverse(RipemdBlock(digest)[i])])
              = PaddedRipemd(Octets(digest))
         /\ Octets(ChecksumBlock(hash)) = Padded(<<0>> \o Octets(hash))
         /\ Octets(ChecksumBlock2(digest)) = Padded(Octets(digest))
         /\ Octets(AddressWords(hash, digest[1])) = Zeros(8) \o Octets(hash \o <<digest[1]>>)
=============================================================================
