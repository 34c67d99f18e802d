------------------------------ MODULE UriCoding ------------------------------
(***************************************************************************)
(* HttpRequest::escape and HttpRequest::unescape, on strings of bytes.     *)
(***************************************************************************)
EXTENDS Integers, Sequences, SequencesExt

Bytes == 0 .. 255
NUL == 0
Space == 32
Quote == 34
Hash == 35
Percent == 37
Plus == 43
Minus == 45
Dot == 46
Slash == 47
Question == 63
Underscore == 95

DecDigits == 48 .. 57
Alnum == DecDigits \cup (65 .. 90) \cup (97 .. 122)

----------------------------------------------------------------------------
(* escape.                                                                 *)

dec2hex == [n \in 0 .. 15 |-> IF n < 10 THEN 48 + n ELSE 55 + n]

PercentEncoded(c) == <<Percent, dec2hex[c \div 16], dec2hex[c % 16]>>

EscapedByteKeepingPlus(c) ==   \* a mutant: "+" counts as one of the bytes that stay
  IF c \in Alnum \cup {Underscore, Dot, Minus, Plus} THEN <<c>>
  ELSE IF c = Space THEN <<Plus>> ELSE PercentEncoded(c)

EscapedByte(c) ==
  IF c \in Alnum \cup {Underscore, Dot, Minus} THEN <<c>>
  ELSE IF c = Space THEN <<Plus>> ELSE PercentEncoded(c)

escape(s) == FlattenSeq([i \in DOMAIN s |-> EscapedByte(s[i])])

----------------------------------------------------------------------------
(* unescape.  It looks two bytes ahead of a "%", past the end if need be:  *)
(* a string ends with a NUL, which is no digit, so nothing beyond counts.  *)

isxdigit(c) == c \in DecDigits \cup (65 .. 70) \cup (97 .. 102)

ByteAt(s, i) == IF i <= Len(s) THEN s[i] ELSE NUL

\* Letters have a bit above 0x3f, and their low four bits count from one.
NibbleOfCapitals(c) ==   \* a mutant: small letters are a digit too far
  (IF c >= 64 THEN 9 ELSE 0) + (IF c >= 96 THEN 1 ELSE 0) + (c % 16)

Nibble(c) == (IF c >= 64 THEN 9 ELSE 0) + (c % 16)

\* Eight bits: what the shift pushes out is lost.
FromHex(c1, c2) == (16 * Nibble(c1) + Nibble(c2)) % 256

unescape(s) ==
  LET from[i \in 1 .. Len(s) + 1] ==
        IF i > Len(s) THEN <<>>
        ELSE IF s[i] = Plus THEN <<Space>> \o from[i + 1]
        ELSE IF s[i] = Percent /\ isxdigit(ByteAt(s, i + 1)) /\ isxdigit(ByteAt(s, i + 2))
        THEN <<FromHex(s[i + 1], s[i + 2])>> \o from[i + 3]
        ELSE <<s[i]>> \o from[i + 1]
  IN from[1]
============================================================================
