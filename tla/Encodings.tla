------------------------------- MODULE Encodings ------------------------------
(***************************************************************************)
(* Numbers, public keys and addresses as text.  A text is a sequence of    *)
(* digits; a digit of the hexadecimal texts is one word here.              *)
(***************************************************************************)
EXTENDS Curve

CONSTANTS
  Radix,        \* 10 in to_string and parsebase10, 58 in Base58
  HashWords,    \* words of a public key's hash (5)
  Checksum      \* hash -> word, crypto::checksum: any function

Hashes == 0 .. BaseTo(HashWords) - 1

ASSUME EncodingAssumption ==
  /\ Radix \in 2 .. Base - 1
  /\ HashWords \in 1 .. NumWords - 1
  /\ Checksum \in [Hashes -> 0 .. Base - 1]

\* What a parser throws.
Invalid == "invalid"

-----------------------------------------------------------------------------
(* Numbers *)

\* Mutant of ToText: a digit zero is left out.
ToTextNoZero(x) ==
  LET text[n \in Numbers] ==
        IF n = 0 THEN <<>>
        ELSE LET q == Div(n, Radix)
             IN  IF n % Radix = 0 THEN text[q] ELSE Append(text[q], Sub(n, Mul(q, Radix)))
  IN  text[x]

\* to_string(10): the digits of what is left, until it is zero.
ToText(x) ==
  LET text[n \in Numbers] ==
        IF n = 0 THEN <<>>
        ELSE LET q == Div(n, Radix)
             IN  Append(text[q], Sub(n, Mul(q, Radix)))
  IN  text[x]

\* parsebase10: the digits that overflow are dropped silently.
FromText(s) ==
  LET v[n \in 0 .. Len(s)] ==
        IF n = 0 THEN 0
        ELSE LET r == Add(v[n - 1], FromInt(s[n])) IN IF n < Len(s) THEN Mul(r, Radix) ELSE r
  IN  v[Len(s)]

ToHex(x) == [n \in 1 .. NumWords |-> ToWords(x, NumWords)[NumWords - n]]

\* uint256(string): the last digits count, missing ones are zero.
FromHex(s) ==
  IF s = <<>> THEN Invalid
  ELSE Value([n \in Words(NumWords) |-> IF n < Len(s) THEN s[Len(s) - n] ELSE 0], NumWords)

-----------------------------------------------------------------------------
(* Public keys: the prefix 4, x and y; or the prefix 2 or 3 and x *)

PublicKeyText(p, compressed) ==
  IF compressed THEN <<CompressionByte(p)>> \o ToHex(p.x)
  ELSE <<4>> \o ToHex(p.x) \o ToHex(p.y)

Existing(p) == IF PointExists(p) THEN p ELSE Invalid

ParseUncompressed(t) ==
  IF Len(t) # 1 + 2 * NumWords THEN Invalid
  ELSE Existing(Point(FromHex(SubSeq(t, 2, 1 + NumWords)), FromHex(SubSeq(t, 2 + NumWords, Len(t)))))

ParseCompressed(t) ==
  IF Len(t) # 1 + NumWords THEN Invalid
  ELSE LET x == FromHex(Tail(t))
       IN  Existing(Point(x, GetY(x, t[1])))

ParsePublicKey(t) ==
  IF t[1] = 4 THEN ParseUncompressed(t)
  ELSE IF t[1] \in {2, 3} THEN ParseCompressed(t)
  ELSE Invalid

-----------------------------------------------------------------------------
(* Addresses: the character '1', whose digit is zero, then the hash and its *)
(* checksum.                                                               *)

ToBase58(x) ==
  LET text[n \in Numbers] ==
        IF n = 0 THEN <<>> ELSE Append(text[Div(n, Radix)], Mod(n, Radix))
  IN  text[x]

\* A character that is not in the alphabet counts as the first one, and
\* is_base58, whose test is of an unsigned number, refuses none.
Digit(c) == IF c \in 0 .. Radix - 1 THEN c ELSE 0
IsBase58(s) == TRUE

ToBigInt(s) ==
  LET v[n \in 0 .. Len(s)] ==
        IF n = 0 THEN 0 ELSE Add(Mul(v[n - 1], Radix), FromInt(Digit(s[n])))
  IN  v[Len(s)]

FromPublicKeyHash(hash) == <<0>> \o ToBase58(hash * Base + Checksum[hash])

HashPart(value) == (value \div Base) % BaseTo(HashWords)

\* The first character is not looked at, and no length is refused.
VerifyAddress(a) ==
  /\ IsBase58(a)
  /\ LET value == ToBigInt(Tail(a)) IN Checksum[HashPart(value)] = value % Base

\* Here the first character is a digit like the others.
ToHash160(a) == HashPart(ToBigInt(a))
=============================================================================
