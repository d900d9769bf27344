------------------------------- MODULE ObjectIds -------------------------------
(***************************************************************************)
(* ObjectId: hexadecimal text to id and back, equality and hash code.      *)
(* A text is a sequence of UTF-16 code units, an id a function from the    *)
(* offsets of its bytes.                                                   *)
(***************************************************************************)
EXTENDS Integers, Sequences

RawSize == 20     \* GIT_OID_RAWSZ
HexSize == 40     \* GIT_OID_HEXSZ

Byte == 0..255
Ids == [0..RawSize - 1 -> Byte]

LastUnit == 65535
CodeUnit == 0..LastUnit

\* What an operation yields: a value, or the exception of that name.
Yields(v) == [yields |-> v]
Throws(e) == [throws |-> e]

-------------------------------------------------------------------------------
\* The tables.
ToHex == [v \in 0..15 |-> IF v < 10 THEN 48 + v ELSE 87 + v]

\* Mutant: the row of capitals is one too long.
FromHexLong ==
  [c \in Byte |-> CASE c \in 48..57  -> c - 48
                    [] c \in 65..71  -> c - 55
                    [] c \in 97..102 -> c - 87
                    [] OTHER         -> -1]

FromHex ==
  [c \in Byte |-> CASE c \in 48..57  -> c - 48
                    [] c \in 65..70  -> c - 55
                    [] c \in 97..102 -> c - 87
                    [] OTHER         -> -1]

\* The places at which the loop of the constructor throws: the table has 256
\* entries, a char can be any code unit.
Beyond(hex) == {i \in 1..HexSize : hex[i] \notin Byte}
Invalid(hex) == {i \in (1..HexSize) \ Beyond(hex) : FromHex[hex[i]] < 0}

\* id[i / 2] |= (byte)(b << (i % 2 == 0 ? 4 : 0))
Assemble(hex) ==
  [k \in 0..RawSize - 1 |-> 16 * FromHex[hex[2 * k + 1]] + FromHex[hex[2 * k + 2]]]

\* new ObjectId(hex)
NewObjectId(hex) ==
  IF Len(hex) # HexSize THEN Throws("ArgumentException")
  ELSE IF Beyond(hex) \cup Invalid(hex) = {} THEN Yields(Assemble(hex))
  ELSE IF \E i \in Beyond(hex) : \A j \in Invalid(hex) : i < j
       THEN Throws("IndexOutOfRangeException")
       ELSE Throws("ArgumentException")

\* The i-th half byte of an id, the upper ones first: id[i] >> 4 and
\* id[i] & 0x0f.
HalfByte(id, i) ==
  IF i % 2 = 1 THEN id[(i - 1) \div 2] \div 16 ELSE id[(i - 1) \div 2] % 16

\* hexChars[i*2] = ToHex[id[i] >> 4], hexChars[(i*2)+1] = ToHex[id[i] & 0x0f]
ToHexString(id) ==
  [i \in 1..HexSize |-> ToHex[HalfByte(id, i)]]

\* The first four bytes as an int: the shift moves bit 7 of the first into the
\* sign.
HashCode(id) ==
  (id[0] - (IF id[0] > 127 THEN 256 ELSE 0)) * 16777216
    + id[1] * 65536 + id[2] * 256 + id[3]

\* Mutant: the last four bytes are left out.
BlocksShort == {0..7, 8..15}

\* Two comparisons of a ulong and one of a uint.
Blocks == {0..7, 8..15, 16..19}

Equals(id, other) == \A b \in Blocks : \A k \in b : id[k] = other[k]

-------------------------------------------------------------------------------
\* Hexadecimal notation, independently of the tables: the digits in order of
\* value, and the capitals that stand for the same.
Notation == <<48, 49, 50, 51, 52, 53, 54, 55, 56, 57, 97, 98, 99, 100, 101, 102>>

Lower(c) == IF c \in 65..90 THEN c + 32 ELSE c

IsDigit(c) == \E v \in 1..16 : Lower(c) = Notation[v]

IsHex(hex) == Len(hex) = HexSize /\ \A i \in 1..HexSize : IsDigit(hex[i])

\* The digits of hex, capital or not, are those of id.
Spells(hex, id) ==
  \A i \in 1..HexSize : Lower(hex[i]) = Notation[HalfByte(id, i) + 1]
===============================================================================
