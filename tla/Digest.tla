------------------------------- MODULE Digest --------------------------------
(* Base64 and MD5 as lib/strophe.js has them for SASL.  A string is the      *)
(* sequence of its character codes, a Base64 text the sequence of the places *)
(* of its characters in keyStr (64 is "=", -1 a character keyStr has not),   *)
(* a hexadecimal text the sequence of its digits' values, and a 32-bit word  *)
(* the pair of its halves: the high 16 bits and the low 16.                  *)
EXTENDS Integers, Sequences, FiniteSets, SequencesExt, Bitwise

CONSTANTS
    Codes,      \* the character codes strings are made of
    MaxLength   \* the longest string

VARIABLE input  \* the string a page gives to these functions

-----------------------------------------------------------------------------
(* Base64                                                                    *)

NaN == -1

\* charCodeAt, and what the bit operators make of NaN
CharCodeAt(s, i) == IF i <= Len(s) THEN s[i] ELSE NaN
Bits(code) == IF code = NaN THEN 0 ELSE code

\* keyStr.charAt: nothing beyond its end
KeyChar(i) == IF i \in 0..64 THEN <<i>> ELSE <<>>

\* Mutant of EncodeAt: without the case of two characters.
EncodeAt_NoPad(s, i) ==
    LET chr(k) == Bits(CharCodeAt(s, i + k))
        enc1 == chr(0) \div 4
        enc2 == (((chr(0) % 4) * 16) | (chr(1) \div 16))
        enc3 == (((chr(1) % 16) * 4) | (chr(2) \div 64))
        enc4 == chr(2) % 64
    IN  KeyChar(enc1) \o KeyChar(enc2)
          \o KeyChar(IF CharCodeAt(s, i + 1) = NaN THEN 64 ELSE enc3)
          \o KeyChar(IF CharCodeAt(s, i + 1) = NaN THEN 64 ELSE enc4)

\* Three characters give four, from the character at i on
EncodeAt(s, i) ==
    LET chr(k) == Bits(CharCodeAt(s, i + k))
        enc1 == chr(0) \div 4
        enc2 == ((((chr(0) % 4) * 16)) | (chr(1) \div 16))
        enc3 == (((chr(1) % 16) * 4) | (chr(2) \div 64))
        enc4 == chr(2) % 64
    IN  KeyChar(enc1) \o KeyChar(enc2)
          \o KeyChar(IF CharCodeAt(s, i + 1) = NaN THEN 64 ELSE enc3)
          \o KeyChar(IF CharCodeAt(s, i + 1) = NaN \/ CharCodeAt(s, i + 2) = NaN
                       THEN 64 ELSE enc4)

\* The loop runs once for an empty string
Rounds(n, size) == IF n = 0 THEN 1 ELSE (n + size - 1) \div size

Encode(s) == FlattenSeq([r \in 1..Rounds(Len(s), 3) |-> EncodeAt(s, 3 * r - 2)])

\* indexOf(charAt(i)): 0 past the end, where charAt is empty
KeyIndex(s, i) == IF i <= Len(s) THEN s[i] ELSE 0

DecodeAt(s, i) ==
    LET enc(k) == KeyIndex(s, i + k - 1)
        chr1 == ((enc(1) * 4) | (enc(2) \div 16))
        chr2 == (((enc(2) % 16) * 16) | (enc(3) \div 4))
        chr3 == (((enc(3) % 4) * 64) | enc(4))
    IN  <<chr1>> \o (IF enc(3) = 64 THEN <<>> ELSE <<chr2>>)
                 \o (IF enc(4) = 64 THEN <<>> ELSE <<chr3>>)

Decode(s) ==
    LET kept == SelectSeq(s, LAMBDA c : c # -1)
    IN  FlattenSeq([r \in 1..Rounds(Len(kept), 4) |-> DecodeAt(kept, 4 * r - 3)])

-----------------------------------------------------------------------------
(* 32-bit words                                                              *)

Half == 65536

\* A number constant of the code, which JavaScript takes modulo 2^32
Word(n) == <<(n \div Half) % Half, n % Half>>

\* Mutant of SafeAdd: the carry of the low half is lost.
SafeAdd_NoCarry(x, y) == <<(x[1] + y[1]) % Half, (x[2] + y[2]) % Half>>

\* safe_add
SafeAdd(x, y) ==
    LET lsw == x[2] + y[2]
    IN  <<(x[1] + y[1] + (lsw \div Half)) % Half, lsw % Half>>

\* bit_rol: the halves change places for 16, the rest is a shift of both
Rol(x, cnt) ==
    LET w == IF cnt >= 16 THEN <<x[2], x[1]>> ELSE x
        n == 2 ^ (cnt % 16)
    IN  <<((w[1] * n) % Half) + ((w[2] * n) \div Half),
            ((w[2] * n) % Half) + ((w[1] * n) \div Half)>>

WAnd(x, y) == <<x[1] & y[1], x[2] & y[2]>>
WOr(x, y)  == <<(x[1] | y[1]), (x[2] | y[2])>>
WXor(x, y) == <<x[1] ^^ y[1], x[2] ^^ y[2]>>
WNot(x)    == <<(Half - 1) - x[1], (Half - 1) - x[2]>>

\* An element of a bin array that was never written is undefined, which all
\* the operators take as 0
At(bin, i) == IF i <= Len(bin) THEN bin[i] ELSE Word(0)

-----------------------------------------------------------------------------
(* Strings and words                                                         *)

\* Byte number i of words, counted from 0: words are little-endian
ByteOf(bin, i) ==
    LET w == At(bin, (i \div 4) + 1)
        h == w[2 - ((i % 4) \div 2)]
    IN  IF i % 2 = 0 THEN h % 256 ELSE h \div 256

\* str2binl: a code over 255 loses its high byte
Str2Binl(str) ==
    LET byte(i) == IF i < Len(str) THEN str[i + 1] % 256 ELSE 0
    IN  [w \in 1..((Len(str) + 3) \div 4) |->
            <<byte(4 * w - 1) * 256 + byte(4 * w - 2),
              byte(4 * w - 3) * 256 + byte(4 * w - 4)>>]

Binl2Str(bin) == [i \in 1..(4 * Len(bin)) |-> ByteOf(bin, i - 1)]

Binl2Hex(bin) ==
    FlattenSeq([i \in 1..(4 * Len(bin)) |->
                   <<ByteOf(bin, i - 1) \div 16, ByteOf(bin, i - 1) % 16>>])

\* Without the pad character: b64pad is empty
Binl2B64(bin) ==
    LET triplet(i) == <<ByteOf(bin, i), ByteOf(bin, i + 1), ByteOf(bin, i + 2)>>
        digits(t)  == <<t[1] \div 4, ((t[1] % 4) * 16) + (t[2] \div 16),
                        ((t[2] % 16) * 4) + (t[3] \div 64), t[3] % 64>>
        kept(i, j) == 8 * i + 6 * j <= 32 * Len(bin)
    IN  FlattenSeq([r \in 1..Rounds(4 * Len(bin), 3) |->
            LET i == 3 * (r - 1)
                n == Cardinality({j \in 0..3 : kept(i, j)})
            IN  SubSeq(digits(triplet(i)), 1, n)])

-----------------------------------------------------------------------------
(* MD5                                                                       *)

\* The four functions, one for each round
Mix(round, b, c, d) ==
    CASE round = 0 -> WOr(WAnd(b, c), WAnd(WNot(b), d))
      [] round = 1 -> WOr(WAnd(b, d), WAnd(c, WNot(d)))
      [] round = 2 -> WXor(WXor(b, c), d)
      [] round = 3 -> WXor(c, WOr(b, WNot(d)))

\* Which word of the block a step reads, by how much it rotates, what it adds
Index(k) ==
    CASE k \div 16 = 0 -> k % 16
      [] k \div 16 = 1 -> (5 * k + 1) % 16
      [] k \div 16 = 2 -> (3 * k + 5) % 16
      [] k \div 16 = 3 -> (7 * k) % 16

Shift == <<<<7, 12, 17, 22>>, <<5, 9, 14, 20>>, <<4, 11, 16, 23>>, <<6, 10, 15, 21>>>>

Added == <<
    -680876936, -389564586, 606105819, -1044525330, -176418897, 1200080426,
    -1473231341, -45705983, 1770035416, -1958414417, -42063, -1990404162,
    1804603682, -40341101, -1502002290, 1236535329,
    -165796510, -1069501632, 643717713, -373897302, -701558691, 38016083,
    -660478335, -405537848, 568446438, -1019803690, -187363961, 1163531501,
    -1444681467, -51403784, 1735328473, -1926607734,
    -378558, -2022574463, 1839030562, -35309556, -1530992060, 1272893353,
    -155497632, -1094730640, 681279174, -358537222, -722521979, 76029189,
    -640364487, -421815835, 530742520, -995338651,
    -198630844, 1126891415, -1416354905, -57434055, 1700485571, -1894986606,
    -1051523, -2054922799, 1873313359, -30611744, -1560198380, 1309151649,
    -145523070, -1120210379, 718787259, -343485551>>

\* md5_cmn of step k, in the block of x that starts at base: what was a gets
\* the new value, and the four change places
Step(x, base, regs, k) ==
    LET a == regs[1]  b == regs[2]  c == regs[3]  d == regs[4]
        sum == SafeAdd(SafeAdd(a, Mix(k \div 16, b, c, d)),
                       SafeAdd(At(x, base + Index(k) + 1), Word(Added[k + 1])))
        new == SafeAdd(Rol(sum, Shift[(k \div 16) + 1][(k % 4) + 1]), b)
    IN  <<d, new, b, c>>

Round(x, base, regs, n) ==
    LET after[k \in 0..16] == IF k = 0 THEN regs ELSE Step(x, base, after[k - 1], 16 * n + k - 1)
    IN  after[16]

\* The set has TLC evaluate a round before it begins the next
Block(x, regs, base) ==
    LET done[n \in 0..4] ==
            IF n = 0 THEN regs
            ELSE CHOOSE s \in {Round(x, base, r, n - 1) : r \in {done[n - 1]}} : TRUE
        a == done[4]
    IN  [i \in 1..4 |-> SafeAdd(regs[i], a[i])]

\* The padding of core_md5: a bit 1 after the last, the length in word 14 of
\* the last block
Padded(x, len) ==
    LET last == ((len + 64) \div 512) * 16 + 15
        one  == IF len % 32 = 24 THEN <<32768, 0>>
                ELSE IF len % 32 = 16 THEN <<128, 0>>
                ELSE <<0, 128 * 2 ^ (len % 32)>>
    IN  [i \in 1..last - 1 |-> IF i = (len \div 32) + 1 THEN WOr(At(x, i), one) ELSE At(x, i)]
            \o <<Word(len)>>

Start == <<Word(1732584193), Word(-271733879), Word(-1732584194), Word(271733878)>>

CoreMd5(x, len) ==
    LET p == Padded(x, len)
    IN  FoldLeft(LAMBDA regs, r : Block(p, regs, 16 * (r - 1)), Start,
                 [r \in 1..((Len(p) + 15) \div 16) |-> r])

CoreHmacMd5(key, data) ==
    LET bin  == Str2Binl(key)
        bkey == IF Len(bin) > 16 THEN CoreMd5(bin, 8 * Len(key)) ELSE bin
        pad(half) == [i \in 1..16 |-> WXor(At(bkey, i), <<half, half>>)]
        hash == CoreMd5(pad(13878) \o Str2Binl(data), 512 + 8 * Len(data))
    IN  CoreMd5(pad(23644) \o hash, 512 + 128)

Hash(s)      == Binl2Str(CoreMd5(Str2Binl(s), 8 * Len(s)))
HexDigest(s) == Binl2Hex(CoreMd5(Str2Binl(s), 8 * Len(s)))
B64Digest(s) == Binl2B64(CoreMd5(Str2Binl(s), 8 * Len(s)))
HmacHexDigest(key, data) == Binl2Hex(CoreHmacMd5(key, data))

-----------------------------------------------------------------------------
(* Every string up to MaxLength, one character after the other               *)

Init == input = <<>>

Type(c) == Len(input) < MaxLength /\ input' = Append(input, c)

Next == \E c \in Codes : Type(c)

Spec == Init /\ [][Next]_input

-----------------------------------------------------------------------------
(* Properties                                                                *)

\* RFC 4648: digit d, counted from 0, is the d-th group of six of the bits
Group(s, d) ==
    LET bit(j) == IF j < 8 * Len(s) THEN (s[(j \div 8) + 1] \div 2 ^ (7 - (j % 8))) % 2 ELSE 0
    IN  SumFunction([k \in 0..5 |-> bit(6 * d + k) * 2 ^ (5 - k)])

\* A string of bytes that is not empty is encoded as RFC 4648 says, and
\* decoded again: the login name and the password reach a PLAIN server.  (The
\* empty string becomes "AA==", and a code over 255 is encoded wrong.)
Base64Right ==
    input # <<>> /\ Range(input) \subseteq 0..255 =>
        LET text   == Encode(input)
            digits == (8 * Len(input) + 5) \div 6
        IN  /\ Decode(text) = input
            /\ Len(text) % 4 = 0
            /\ \A i \in DOMAIN text :
                   text[i] = IF i <= digits THEN Group(input, i - 1) ELSE 64

\* The hexadecimal digits of a digest, as bytes
HexBytes(hex) == [i \in 1..(Len(hex) \div 2) |-> hex[2 * i - 1] * 16 + hex[2 * i]]

\* The forms of a digest say the same, and codes that differ by a multiple of
\* 256 have one digest
FormsAgree ==
    LET bytes == Hash(input)
    IN  /\ HexBytes(HexDigest(input)) = bytes
        /\ Encode(bytes) = B64Digest(input) \o <<64, 64>>
        /\ Hash([i \in DOMAIN input |-> input[i] % 256]) = bytes

\* What RFC 1321 gives for "", "abc" and "message digest", and RFC 2202 for
\* a key of sixteen bytes 11 and "Hi There"
Vectors ==
    /\ HexBytes(HexDigest(<<>>)) =
         <<212, 29, 140, 217, 143, 0, 178, 4, 233, 128, 9, 152, 236, 248, 66, 126>>
    /\ HexBytes(HexDigest(<<97, 98, 99>>)) =
         <<144, 1, 80, 152, 60, 210, 79, 176, 214, 150, 63, 125, 40, 225, 127, 114>>
    /\ HexBytes(HexDigest(<<109, 101, 115, 115, 97, 103, 101, 32, 100, 105, 103, 101, 115, 116>>)) =
         <<249, 107, 105, 125, 124, 183, 147, 141, 82, 90, 47, 49, 170, 241, 97, 208>>
    /\ HexBytes(HmacHexDigest([i \in 1..16 |-> 11], <<72, 105, 32, 84, 104, 101, 114, 101>>)) =
         <<146, 148, 114, 122, 54, 56, 187, 28, 19, 244, 142, 248, 21, 139, 252, 157>>

\* The digests are those of RFC 1321, in each of the forms offered
DigestRight == FormsAgree /\ (input = <<>> => Vectors)

=============================================================================
