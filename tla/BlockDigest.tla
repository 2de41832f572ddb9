----------------------------- MODULE BlockDigest -----------------------------
(***************************************************************************)
(* The digests of string/: a context takes a message in pieces of any      *)
(* length, hands whole blocks to the compression function and keeps the    *)
(* rest in its buffer; the last call pads the message.  What a compression *)
(* function computes is left out: the state of a context is the sequence   *)
(* of bytes it was given, so two digests are equal when the same blocks    *)
(* were compressed in the same order.                                      *)
(*                                                                         *)
(* A byte is a tuple: <<"a">> and the like for data, and the tuples below. *)
(***************************************************************************)
EXTENDS Integers, Sequences

CONSTANTS
    Block,      \* 64 bytes: MD5, SHA1_BLOCK_SIZE, SHA224_BLOCK_SIZE, ...
    LenBytes,   \* 8 bytes at the end of the last block for the length
    Word        \* 2^32, what a word of MD5's bit count wraps at

ASSUME DigestAssumption ==
    /\ Block \in Nat \ {0} /\ LenBytes \in 1..Block
    /\ Word \in Nat \ {0} /\ Word % (8 * Block) = 0

Mark == <<"0x80">>
Zero == <<"0x00">>
Stale == <<"stale">>      \* what an uninitialized buffer holds

Zeros(n) == [k \in 1..n |-> Zero]
LengthField(bits) == [k \in 1..LenBytes |-> <<"length", k, bits>>]

-----------------------------------------------------------------------------
(* What all the algorithms promise: the padding of RFC 1321 and FIPS 180,  *)
(* a mark, as few zeros as fill the block, and the length in bits.         *)
Padded(m) ==
    LET used == (Len(m) + 1 + LenBytes) % Block
    IN m \o <<Mark>> \o Zeros((Block - used) % Block)
         \o LengthField((8 * Len(m)) % (Word * Word))

-----------------------------------------------------------------------------
Fresh(junk) == [absorbed |-> <<>>, buffer |-> [k \in 1..Block |-> junk], bits |-> 0]

Md5Init == Fresh(Stale)

Sha1Init == Fresh(Zero)

Sha224Init == Fresh(Zero)

Sha256Init == Fresh(Zero)

(* memcpy to a place of the buffer                                         *)
PutAt(buffer, pos, bytes) ==
    [k \in 1..Block |-> IF k - pos \in DOMAIN bytes THEN bytes[k - pos] ELSE buffer[k]]

(* Fill the buffer, compress it, compress the whole blocks of the rest     *)
(* where they are, keep what is behind them.                               *)
Sha1Absorb(c, pos, data) ==
    LET fill == Block - pos
        taken == fill + Block * ((Len(data) - fill) \div Block)
        full == PutAt(c.buffer, pos, SubSeq(data, 1, fill))
    IN IF pos + Len(data) < Block THEN [c EXCEPT !.buffer = PutAt(@, pos, data)]
       ELSE [c EXCEPT !.absorbed = @ \o full \o SubSeq(data, fill + 1, taken),
                      !.buffer = PutAt(full, 0, SubSeq(data, taken + 1, Len(data)))]

Sha1Position(c) == (c.bits \div 8) % Block

Sha1Update(c, data) ==
    [Sha1Absorb(c, Sha1Position(c), data) EXCEPT !.bits = (@ + 8 * Len(data)) % (Word * Word)]

Sha224Update(c, data) == Sha1Update(c, data)

Sha256Update(c, data) == Sha1Update(c, data)

(* The bit count of MD5 is two words.                                      *)
\* Mutant of Md5Count: the carry into the high word is dropped
Md5Count_NoCarry(bits, n) ==
    ((bits + 8 * n) % Word) + Word * ((bits \div Word + (8 * n) \div Word) % Word)

Md5Count(bits, n) ==
    LET added == (8 * n) % Word
        low == (bits + added) % Word
        carry == IF low < added THEN 1 ELSE 0
    IN low + Word * ((bits \div Word + carry + (8 * n) \div Word) % Word)

Md5Position(c) == ((c.bits % Word) \div 8) % Block

Md5Update(c, data) ==
    [Sha1Absorb(c, Md5Position(c), data) EXCEPT !.bits = Md5Count(@, Len(data))]

-----------------------------------------------------------------------------
(* The last block, or two of them when the length no longer fits behind    *)
(* the mark.  The value is the digest.                                     *)
Sha1Final(c) ==
    LET pos == Sha1Position(c) + 1
        marked == PutAt(c.buffer, pos - 1, <<Mark>>)
        spill == pos > Block - LenBytes
        before == IF spill THEN PutAt(marked, pos, Zeros(Block - pos)) ELSE <<>>
        from == IF spill THEN 0 ELSE pos
    IN c.absorbed \o before
         \o PutAt(PutAt(marked, from, Zeros(Block - LenBytes - from)),
                Block - LenBytes, LengthField(c.bits))

Sha224Final(c) == Sha1Final(c)

Sha256Final(c) == Sha1Final(c)

Md5Final(c) ==
    LET index == Md5Position(c)
        upto == (IF index < Block - LenBytes THEN Block ELSE 2 * Block) - LenBytes
        padded == Md5Update(c, <<Mark>> \o Zeros(upto - index - 1))
    IN Md5Update(padded, LengthField(c.bits)).absorbed

-----------------------------------------------------------------------------
(* crc32 goes byte by byte and pads nothing.                               *)
CrcInit == Fresh(Zero)

CrcUpdate(c, data) == [c EXCEPT !.absorbed = @ \o data]

CrcFinal(c) == c.absorbed
=============================================================================
