-------------------------------- MODULE Bits --------------------------------
(***************************************************************************)
(* Fixed-width values as sets of bits, bytes as subsets of 0 .. 7, and the  *)
(* big-endian order both the packets and NBT use.                           *)
(***************************************************************************)
EXTENDS Integers, Sequences, FiniteSets, SequencesExt

\* The n bytes of v, the most significant first.
BigEndian(v, n) == [i \in 1 .. n |-> {b \in 0 .. 7 : b + 8 * (n - i) \in v}]

\* The value of a sequence of bytes, the most significant first.
FromBigEndian(bytes) ==
  LET n == Len(bytes) IN {b \in 0 .. 8 * n - 1 : b % 8 \in bytes[n - b \div 8]}

\* Between counts and their bits; a count no buffer reaches is Huge.
Huge == 2^20
BitsOf(n) == {b \in 0 .. 20 : (n \div 2^b) % 2 = 1}
Number(v) == IF \E b \in v : b >= 20 THEN Huge ELSE FoldSet(LAMBDA b, sum : sum + 2^b, 0, v)

\* The result of reading a value: the value and where to go on, or an exception.
Got(v, at) == [err |-> "none", v |-> v, at |-> at]
Throw(err) == [err |-> err, v |-> {}, at |-> 0]

\* The first item of a list and the others; the first failure is that of the list.
Joined(first, rest) == IF rest.err # "none" THEN rest ELSE Got(<<first.v>> \o rest.v, rest.at)
=============================================================================
