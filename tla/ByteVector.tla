----------------------------- MODULE ByteVector -----------------------------
(***************************************************************************)
(* What the frames are made of: a std::vector<char>, here a sequence of    *)
(* bytes, and the fields of a 32-bit header word in it, read through a     *)
(* pointer to the word on a little-endian machine.  A byte, and a word, is *)
(* the set of its bits that are 1.                                         *)
(***************************************************************************)
EXTENDS Naturals, Sequences
LOCAL INSTANCE FiniteSetsExt

Byte == SUBSET (0..7)
Zero == {}

BitsOf(n, width) == {b \in 0..width - 1 : (n \div 2^b) % 2 = 1}
NumberOf(bits)   == MapThenSumSet(LAMBDA b : 2^b, bits)
ByteOf(n)        == BitsOf(n, 8)

\* vector::resize keeps what there is and appends zeros; memcpy to an offset.
Resized(v, size) ==
  IF size <= Len(v) THEN SubSeq(v, 1, size)
  ELSE v \o [i \in 1..size - Len(v) |-> Zero]
Copied(v, at, bytes) ==
  SubSeq(v, 1, at) \o bytes \o SubSeq(v, at + Len(bytes) + 1, Len(v))
Slice(v, at, size) == SubSeq(v, at + 1, at + size)

WordAt(v, at) == {b \in 0..31 : b % 8 \in v[at + 1 + b \div 8]}
WithWord(v, at, word) ==
  Copied(v, at, [k \in 1..4 |-> {b \in 0..7 : 8 * (k - 1) + b \in word}])

\* A mutation: the old bits are not cleared.
BugWithField(v, at, shift, width, n) ==
  WithWord(v, at, WordAt(v, at) \cup {shift + b : b \in BitsOf(n, width)})

\* "header >> shift & mask" and "header &= ~(mask << shift); header |= ..."
Field(v, at, shift, width) ==
  NumberOf({b \in 0..width - 1 : (shift + b) % 8 \in v[at + 1 + (shift + b) \div 8]})
WithField(v, at, shift, width, n) ==
  WithWord(v, at, (WordAt(v, at) \ (shift..shift + width - 1))
                  \cup {shift + b : b \in BitsOf(n, width)})
=============================================================================
