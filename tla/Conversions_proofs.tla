--------------------------- MODULE Conversions_proofs ---------------------------
(***************************************************************************)
(* The conversions of ids and numbers are right for every text, every pair *)
(* of ids and every number, whatever the widths of the words.              *)
(***************************************************************************)
EXTENDS Conversions, SequenceTheorems, NaturalsInduction, WellFoundedInduction, TLAPS

USE DEF RawSize, HexSize

\* The sixteen digits are 0 to 9 and a to f.
LEMMA NotationOf ==
  \A v \in 0..15 : Notation[v + 1] = IF v < 10 THEN 48 + v ELSE 87 + v
BY DEF Notation

\* A code unit is a number.
LEMMA UnitIsNumber == \A c \in CodeUnit : c \in Nat
<1>1. \A n : \A c \in 0..n : c \in Nat
  OBVIOUS
<1> QED
  BY <1>1, Zenon DEF CodeUnit

\* One digit: the table knows exactly the digits, with their values.
LEMMA Digit ==
  ASSUME NEW c \in CodeUnit
  PROVE  /\ IsDigit(c) => /\ c \in Byte
                          /\ FromHex[c] \in 0..15
                          /\ Lower(c) = Notation[FromHex[c] + 1]
         /\ c \in Byte /\ FromHex[c] >= 0 => IsDigit(c)
         /\ c \in Byte => FromHex[c] \in -1..15
<1>1. IsDigit(c) <=> \E v \in 0..15 : Lower(c) = IF v < 10 THEN 48 + v ELSE 87 + v
  <2>1. ASSUME NEW v \in 1..16, Lower(c) = Notation[v]
        PROVE  \E w \in 0..15 : Lower(c) = IF w < 10 THEN 48 + w ELSE 87 + w
    <3>1. v - 1 \in 0..15 /\ (v - 1) + 1 = v
      OBVIOUS
    <3> QED BY <2>1, <3>1, NotationOf
  <2>2. ASSUME NEW w \in 0..15, Lower(c) = IF w < 10 THEN 48 + w ELSE 87 + w
        PROVE  \E v \in 1..16 : Lower(c) = Notation[v]
    <3>1. w + 1 \in 1..16
      OBVIOUS
    <3> QED BY <2>2, <3>1, NotationOf
  <2> QED BY <2>1, <2>2 DEF IsDigit
<1>2. c \in Byte => FromHex[c] = CASE c \in 48..57  -> c - 48
                                   [] c \in 65..70  -> c - 55
                                   [] c \in 97..102 -> c - 87
                                   [] OTHER         -> -1
  BY DEF FromHex
<1>3. IsDigit(c) <=> c \in 48..57 \/ c \in 65..70 \/ c \in 97..102
  <2> DEFINE Code(v) == IF v < 10 THEN 48 + v ELSE 87 + v
  <2>1. ASSUME NEW v \in 0..15, Lower(c) = Code(v)
        PROVE  c \in 48..57 \/ c \in 65..70 \/ c \in 97..102
    <3> DEFINE lower == Lower(c)
    <3>1. lower \in 48..57 \/ lower \in 97..102
      BY <2>1
    <3>2. lower = IF c \in 65..90 THEN c + 32 ELSE c
      BY DEF Lower
    <3> HIDE DEF lower
    <3>3. c \in Nat
      BY UnitIsNumber
    <3>4. CASE c \in 65..90
      BY <3>1, <3>2, <3>3, <3>4
    <3>5. CASE c \notin 65..90
      BY <3>1, <3>2, <3>5
    <3> QED
      BY <3>4, <3>5
  <2>2. CASE c \in 48..57
    <3>1. c - 48 \in 0..15 /\ Lower(c) = Code(c - 48)
      BY <2>2 DEF Lower
    <3> QED BY <3>1, <2>2, <1>1
  <2>3. CASE c \in 65..70
    <3>1. c - 55 \in 0..15 /\ Lower(c) = Code(c - 55)
      BY <2>3 DEF Lower
    <3> QED BY <3>1, <2>3, <1>1
  <2>4. CASE c \in 97..102
    <3>1. c - 87 \in 0..15 /\ Lower(c) = Code(c - 87)
      BY <2>4 DEF Lower
    <3> QED BY <3>1, <2>4, <1>1
  <2> QED BY <1>1, <2>1, <2>2, <2>3, <2>4
<1>4. c \in Byte => FromHex[c] \in -1..15
  <2>1. CASE c \in 48..57
    BY <2>1, <1>2
  <2>2. CASE c \in 65..70
    BY <2>2, <1>2
  <2>3. CASE c \in 97..102
    BY <2>3, <1>2
  <2>4. CASE ~(c \in 48..57 \/ c \in 65..70 \/ c \in 97..102)
    BY <2>4, <1>2
  <2> QED BY <2>1, <2>2, <2>3, <2>4
<1>5. c \in Byte /\ FromHex[c] >= 0 => IsDigit(c)
  BY <1>2, <1>3
<1>6. ASSUME IsDigit(c)
      PROVE  c \in Byte /\ FromHex[c] \in 0..15 /\ Lower(c) = Notation[FromHex[c] + 1]
  <2>1. c \in Byte
    BY <1>6, <1>3 DEF Byte
  <2>2. FromHex[c] \in 0..15
    BY <1>6, <1>2, <1>3, <2>1
  <2>3. Lower(c) = IF FromHex[c] < 10 THEN 48 + FromHex[c] ELSE 87 + FromHex[c]
    BY <1>6, <1>2, <1>3, <2>1 DEF Lower
  <2> QED BY <2>1, <2>2, <2>3, NotationOf
<1> QED BY <1>4, <1>5, <1>6

\* The constructor's test of a character accepts the digits and nothing else.
LEMMA DigitAccepted ==
  ASSUME NEW c \in CodeUnit
  PROVE  IsDigit(c) <=> c \in Byte /\ ~(FromHex[c] < 0)
<1>1. IsDigit(c) => c \in Byte /\ FromHex[c] \in 0..15
  BY Digit
<1>2. c \in Byte => FromHex[c] \in -1..15
  BY Digit
<1>3. c \in Byte /\ FromHex[c] >= 0 => IsDigit(c)
  BY Digit
<1> HIDE DEF Byte, FromHex, IsDigit
<1> QED BY <1>1, <1>2, <1>3

\* A byte that is put together of two half bytes has them as its halves.
LEMMA Halves ==
  \A h, l \in 0..15 : /\ 16 * h + l \in Byte
                      /\ (16 * h + l) \div 16 = h
                      /\ (16 * h + l) % 16 = l
BY DEF Byte

\* What ToString writes for a half byte is its digit.
LEMMA TablesAgree ==
  \A v \in 0..15 : /\ ToHex[v] = Notation[v + 1]
                   /\ ToHex[v] \in Byte \cap CodeUnit
                   /\ FromHex[ToHex[v]] = v
<1> SUFFICES ASSUME NEW v \in 0..15
             PROVE  /\ ToHex[v] = Notation[v + 1]
                    /\ ToHex[v] \in Byte \cap CodeUnit
                    /\ FromHex[ToHex[v]] = v
  OBVIOUS
<1>1. ToHex[v] = IF v < 10 THEN 48 + v ELSE 87 + v
  BY DEF ToHex
<1>2. ToHex[v] \in Byte \cap CodeUnit
  <2>1. ToHex[v] \in 0..102
    BY <1>1
  <2>2. 0..102 \subseteq Byte
    BY DEF Byte
  <2>3. \A n \in Nat : n >= 102 => 0..102 \subseteq 0..n
    OBVIOUS
  <2>4. LastUnit \in Nat /\ LastUnit >= 102
    BY DEF LastUnit
  <2>5. 0..102 \subseteq CodeUnit
    BY <2>3, <2>4, Zenon DEF CodeUnit
  <2> QED
    BY <2>1, <2>2, <2>5
<1>3. FromHex[ToHex[v]] = v
  <2>1. CASE v < 10
    <3>1. ToHex[v] \in 48..57 /\ ToHex[v] - 48 = v
      BY <1>1, <2>1
    <3>2. FromHex[ToHex[v]] = ToHex[v] - 48
      BY <1>2, <3>1 DEF FromHex
    <3> QED BY <3>1, <3>2
  <2>2. CASE ~(v < 10)
    <3>1. ToHex[v] \in 97..102 /\ ToHex[v] - 87 = v
      BY <1>1, <2>2
    <3>2. FromHex[ToHex[v]] = ToHex[v] - 87
      BY <1>2, <3>1 DEF FromHex
    <3> QED BY <3>1, <3>2
  <2> QED BY <2>1, <2>2
<1> QED BY <1>1, <1>2, <1>3, NotationOf

\* The loop of the constructor throws unless every char is a digit.
LEMMA Accepted ==
  ASSUME NEW hex \in Seq(CodeUnit), Len(hex) = HexSize
  PROVE  Beyond(hex) \cup Invalid(hex) = {} <=> IsHex(hex)
<1>1. \A i \in 1..HexSize : hex[i] \in CodeUnit
  BY ElementOfSeq
<1>2. ASSUME NEW i \in 1..HexSize
      PROVE  i \notin Beyond(hex) \cup Invalid(hex) <=> IsDigit(hex[i])
  <2>1. IsDigit(hex[i]) <=> hex[i] \in Byte /\ ~(FromHex[hex[i]] < 0)
    BY <1>1, DigitAccepted
  <2> QED BY <2>1 DEF Beyond, Invalid
<1>3. Beyond(hex) \cup Invalid(hex) \subseteq 1..HexSize
  BY DEF Beyond, Invalid
<1> QED BY <1>2, <1>3 DEF IsHex

\* The half bytes of the id that is put together are the values of the digits.
LEMMA Assembled ==
  ASSUME NEW hex, \A i \in 1..HexSize : FromHex[hex[i]] \in 0..15
  PROVE  /\ Assemble(hex) \in Ids
         /\ \A i \in 1..HexSize : HalfByte(Assemble(hex), i) = FromHex[hex[i]]
<1>1. ASSUME NEW k \in 0..RawSize - 1
      PROVE  /\ 2 * k + 1 \in 1..HexSize /\ 2 * k + 2 \in 1..HexSize
             /\ Assemble(hex)[k] = 16 * FromHex[hex[2 * k + 1]] + FromHex[hex[2 * k + 2]]
  BY DEF Assemble
<1>2. ASSUME NEW k \in 0..RawSize - 1
      PROVE  Assemble(hex)[k] \in Byte
  <2>1. FromHex[hex[2 * k + 1]] \in 0..15 /\ FromHex[hex[2 * k + 2]] \in 0..15
    BY <1>1
  <2> QED BY <1>1, <2>1, Halves
<1>3. Assemble(hex) \in Ids
  BY <1>2 DEF Assemble, Ids
<1>4. ASSUME NEW i \in 1..HexSize
      PROVE  HalfByte(Assemble(hex), i) = FromHex[hex[i]]
  <2> DEFINE k == (i - 1) \div 2
  <2>1. k \in 0..RawSize - 1
    OBVIOUS
  <2>2. FromHex[hex[2 * k + 1]] \in 0..15 /\ FromHex[hex[2 * k + 2]] \in 0..15
    BY <2>1, <1>1
  <2>3. CASE i % 2 = 1
    <3>1. 2 * k + 1 = i
      BY <2>3
    <3>2. Assemble(hex)[k] \div 16 = FromHex[hex[2 * k + 1]]
      <4> DEFINE h == FromHex[hex[2 * k + 1]]
                 l == FromHex[hex[2 * k + 2]]
      <4>1. Assemble(hex)[k] = 16 * h + l
        BY <2>1, <1>1
      <4>2. h \in 0..15 /\ l \in 0..15
        BY <2>2
      <4> HIDE DEF h, l
      <4>3. (16 * h + l) \div 16 = h
        BY <4>2, Halves
      <4>4. Assemble(hex)[k] \div 16 = h
        BY <4>1, <4>3
      <4> QED BY <4>4 DEF h
    <3>3. HalfByte(Assemble(hex), i) = Assemble(hex)[k] \div 16
      BY <2>3 DEF HalfByte
    <3> QED BY <3>1, <3>2, <3>3
  <2>4. CASE i % 2 # 1
    <3>1. 2 * k + 2 = i
      BY <2>4
    <3>2. Assemble(hex)[k] % 16 = FromHex[hex[2 * k + 2]]
      <4> DEFINE h == FromHex[hex[2 * k + 1]]
                 l == FromHex[hex[2 * k + 2]]
      <4>1. Assemble(hex)[k] = 16 * h + l
        BY <2>1, <1>1
      <4>2. h \in 0..15 /\ l \in 0..15
        BY <2>2
      <4> HIDE DEF h, l
      <4>3. (16 * h + l) % 16 = l
        BY <4>2, Halves
      <4>4. Assemble(hex)[k] % 16 = l
        BY <4>1, <4>3
      <4> QED BY <4>4 DEF l
    <3>3. HalfByte(Assemble(hex), i) = Assemble(hex)[k] % 16
      BY <2>4 DEF HalfByte
    <3> QED BY <3>1, <3>2, <3>3
  <2> QED BY <2>3, <2>4
<1> QED BY <1>3, <1>4

\* A function on 1..40 is a text of that length.
LEMMA TupleIsText ==
  ASSUME NEW text \in [1..HexSize -> CodeUnit]
  PROVE  text \in Seq(CodeUnit) /\ Len(text) = HexSize
<1>1. text \in Seq(CodeUnit)
  BY SeqDef
<1>2. PICK n : n = Len(text)
  OBVIOUS
<1>3. n \in Nat /\ 1..n = 1..40
  BY <1>1, <1>2, LenProperties
<1>4. 40 \in 1..n /\ 41 \notin 1..n
  BY <1>3, SMTT(30)
<1>5. n = 40
  BY <1>3, <1>4
<1> QED BY <1>1, <1>2, <1>5

\* Text to id and back, for every id.
LEMMA RoundTrip ==
  ASSUME NEW id \in Ids
  PROVE  /\ \A i \in 1..HexSize : HalfByte(id, i) \in 0..15
         /\ NewObjectId(ToHexString(id)) = Yields(id)
<1> DEFINE hex == ToHexString(id)
<1>1. ASSUME NEW i \in 1..HexSize
      PROVE  HalfByte(id, i) \in 0..15
  <2>1. id[(i - 1) \div 2] \in 0..255
    <3>1. (i - 1) \div 2 \in 0..RawSize - 1
      OBVIOUS
    <3> QED BY <3>1 DEF Ids, Byte
  <2> QED BY <2>1 DEF HalfByte
<1>2. ASSUME NEW i \in 1..HexSize
      PROVE  /\ hex[i] = ToHex[HalfByte(id, i)]
             /\ hex[i] \in Byte \cap CodeUnit
             /\ FromHex[hex[i]] = HalfByte(id, i)
  BY <1>1, TablesAgree DEF ToHexString
<1>3. hex \in Seq(CodeUnit) /\ Len(hex) = HexSize
  <2>1. hex = [i \in 1..HexSize |-> hex[i]]
    BY DEF ToHexString
  <2>2. hex \in [1..HexSize -> CodeUnit]
    BY <2>1, <1>2
  <2> HIDE DEF hex
  <2> QED BY <2>2, TupleIsText
<1>4. Beyond(hex) \cup Invalid(hex) = {}
  <2>1. \A i \in 1..HexSize : hex[i] \in Byte /\ ~(FromHex[hex[i]] < 0)
    BY <1>1, <1>2
  <2> HIDE DEF hex
  <2> QED BY <2>1 DEF Beyond, Invalid
<1>5. Assemble(hex) = id
  <2>1. ASSUME NEW k \in 0..RawSize - 1
        PROVE  Assemble(hex)[k] = id[k]
    <3>1. /\ 2 * k + 1 \in 1..HexSize /\ 2 * k + 2 \in 1..HexSize
          /\ ((2 * k + 1) - 1) \div 2 = k /\ ((2 * k + 2) - 1) \div 2 = k
          /\ (2 * k + 1) % 2 = 1 /\ (2 * k + 2) % 2 = 0
      OBVIOUS
    <3>2. HalfByte(id, 2 * k + 1) = id[k] \div 16 /\ HalfByte(id, 2 * k + 2) = id[k] % 16
      BY <3>1 DEF HalfByte
    <3>3. Assemble(hex)[k] = 16 * HalfByte(id, 2 * k + 1) + HalfByte(id, 2 * k + 2)
      <4>1. Assemble(hex)[k] = 16 * FromHex[hex[2 * k + 1]] + FromHex[hex[2 * k + 2]]
        BY DEF Assemble
      <4> HIDE DEF hex
      <4> QED BY <4>1, <3>1, <1>2
    <3>4. id[k] \in 0..255
      BY DEF Ids, Byte
    <3> QED BY <3>2, <3>3, <3>4
  <2> QED BY <2>1 DEF Assemble, Ids
<1> HIDE DEF hex
<1>6. NewObjectId(hex) = Yields(id)
  BY <1>3, <1>4, <1>5 DEF NewObjectId
<1> QED BY <1>1, <1>6 DEF hex

\* The id made from a text that is hexadecimal.
LEMMA HexIsTaken ==
  ASSUME NEW hex \in Seq(CodeUnit), IsHex(hex)
  PROVE  /\ NewObjectId(hex) = Yields(Assemble(hex))
         /\ Assemble(hex) \in Ids
         /\ Spells(hex, Assemble(hex))
         /\ ToHexString(Assemble(hex)) = [i \in 1..HexSize |-> Lower(hex[i])]
<1>1. Len(hex) = HexSize /\ \A i \in 1..HexSize : hex[i] \in CodeUnit /\ IsDigit(hex[i])
  BY ElementOfSeq DEF IsHex
<1>2. NewObjectId(hex) = Yields(Assemble(hex))
  BY <1>1, Accepted DEF NewObjectId
<1>3. \A i \in 1..HexSize : /\ FromHex[hex[i]] \in 0..15
                            /\ Lower(hex[i]) = Notation[FromHex[hex[i]] + 1]
  BY <1>1, Digit
<1>4. /\ Assemble(hex) \in Ids
      /\ \A i \in 1..HexSize : HalfByte(Assemble(hex), i) = FromHex[hex[i]]
  BY <1>3, Assembled
<1>5. Spells(hex, Assemble(hex))
  BY <1>3, <1>4 DEF Spells
<1>6. ToHexString(Assemble(hex)) = [i \in 1..HexSize |-> Lower(hex[i])]
  <2>1. \A i \in 1..HexSize : ToHex[HalfByte(Assemble(hex), i)] = Lower(hex[i])
    <3> SUFFICES ASSUME NEW i \in 1..HexSize
                 PROVE  ToHex[HalfByte(Assemble(hex), i)] = Lower(hex[i])
      OBVIOUS
    <3> DEFINE v == FromHex[hex[i]]
    <3>1. v \in 0..15 /\ Lower(hex[i]) = Notation[v + 1] /\ HalfByte(Assemble(hex), i) = v
      BY <1>3, <1>4
    <3> HIDE DEF v
    <3> QED
      BY <3>1, TablesAgree
  <2> QED BY <2>1 DEF ToHexString
<1> QED BY <1>2, <1>4, <1>5, <1>6

\* A text that is not 40 hexadecimal digits makes no id.
LEMMA OthersAreRefused ==
  ASSUME NEW hex \in Seq(CodeUnit), ~IsHex(hex)
  PROVE  "throws" \in DOMAIN NewObjectId(hex)
<1>1. Len(hex) # HexSize \/ Beyond(hex) \cup Invalid(hex) # {}
  BY Accepted
<1>2. PICK e : NewObjectId(hex) = [throws |-> e]
  BY <1>1 DEF NewObjectId, Throws
<1> QED BY <1>2

\* The blocks cover every byte.
LEMMA EqualsIsIdentity ==
  ASSUME NEW id \in Ids, NEW other \in Ids
  PROVE  Equals(id, other) <=> id = other
<1>1. UNION Blocks = 0..RawSize - 1
  BY DEF Blocks
<1>2. Equals(id, other) <=> \A k \in 0..RawSize - 1 : id[k] = other[k]
  BY <1>1 DEF Equals
<1> QED BY <1>2 DEF Ids

-------------------------------------------------------------------------------
\* The halves of the word sizes are whole, and an int fits into a long.
LEMMA Halving ==
  /\ IntRange \in Nat /\ LongRange \in Nat /\ IntRange > 0 /\ LongRange > 0
  /\ IntRange \div 2 \in Nat /\ 2 * (IntRange \div 2) = IntRange
  /\ LongRange \div 2 \in Nat /\ 2 * (LongRange \div 2) = LongRange
  /\ IntRange <= LongRange \div 2
BY RangesAssumption

\* The low bits of a number below the range are the number.
LEMMA SmallModulus ==
  ASSUME NEW range \in Nat, NEW v \in 0..range - 1
  PROVE  v % range = v
OBVIOUS

\* Every cast: what is not refused is in the target, and is left as it is.
LEMMA CastLemma ==
  ASSUME NEW cast \in Casts, NEW v \in Source(cast)
  PROVE  /\ Refuses(cast, v) <=> v \notin Target(cast)
         /\ v \in Target(cast) => LowBits(cast, v) = v
<1> USE Halving DEF IntMin, IntMax, UIntMax, LongMin, LongMax, ULongMax
<1>1. CASE cast = "long to int"
  <2>1. v \in LongMin..LongMax /\ Target(cast) = IntMin..IntMax
    BY <1>1 DEF Source, Target
  <2>2. Refuses(cast, v) <=> v < IntMin \/ v > IntMax
    BY <1>1 DEF Refuses
  <2>3. LowBits(cast, v) = ((v - IntMin) % IntRange) + IntMin
    BY <1>1 DEF LowBits
  <2>4. v \in Target(cast) => v - IntMin \in 0..IntRange - 1
    BY <2>1
  <2>5. v \in Target(cast) => (v - IntMin) % IntRange = v - IntMin
    BY <2>4, SmallModulus
  <2> QED BY <2>1, <2>2, <2>3, <2>5
<1>2. CASE cast \in {"ulong to int", "UIntPtr to int"}
  <2>1. v \in 0..ULongMax /\ Target(cast) = IntMin..IntMax
    BY <1>2 DEF Source, Target
  <2>2. Refuses(cast, v) <=> v > IntMax
    BY <1>2 DEF Refuses
  <2>3. LowBits(cast, v) = ((v - IntMin) % IntRange) + IntMin
    BY <1>2 DEF LowBits
  <2>4. v \in Target(cast) => v - IntMin \in 0..IntRange - 1
    BY <2>1
  <2>5. v \in Target(cast) => (v - IntMin) % IntRange = v - IntMin
    BY <2>4, SmallModulus
  <2> QED BY <2>1, <2>2, <2>3, <2>5
<1>3. CASE cast = "UIntPtr to long"
  <2>1. v \in 0..ULongMax /\ Target(cast) = LongMin..LongMax
    BY <1>3 DEF Source, Target
  <2>2. Refuses(cast, v) <=> v > LongMax
    BY <1>3 DEF Refuses
  <2>3. LowBits(cast, v) = ((v - LongMin) % LongRange) + LongMin
    BY <1>3 DEF LowBits
  <2>4. v \in Target(cast) => v - LongMin \in 0..LongRange - 1
    BY <2>1
  <2>5. v \in Target(cast) => (v - LongMin) % LongRange = v - LongMin
    BY <2>4, SmallModulus
  <2> QED BY <2>1, <2>2, <2>3, <2>5
<1>4. CASE cast = "long to uint"
  <2>1. v \in LongMin..LongMax /\ Target(cast) = 0..UIntMax
    BY <1>4 DEF Source, Target
  <2>2. Refuses(cast, v) <=> v < 0 \/ v > UIntMax
    BY <1>4 DEF Refuses
  <2>3. LowBits(cast, v) = v % IntRange
    BY <1>4 DEF LowBits
  <2>4. v \in Target(cast) => v % IntRange = v
    BY <2>1, SmallModulus
  <2> QED BY <2>1, <2>2, <2>3, <2>4
<1>5. CASE cast = "long to UIntPtr"
  <2>1. v \in LongMin..LongMax /\ Target(cast) = 0..ULongMax
    BY <1>5 DEF Source, Target
  <2>2. Refuses(cast, v) <=> v < 0
    BY <1>5 DEF Refuses
  <2>3. LowBits(cast, v) = v % LongRange
    BY <1>5 DEF LowBits
  <2>4. v \in Target(cast) => v % LongRange = v
    BY <2>1, SmallModulus
  <2> QED BY <2>1, <2>2, <2>3, <2>4
<1> QED BY <1>1, <1>2, <1>3, <1>4, <1>5 DEF Casts

-------------------------------------------------------------------------------
\* The inductive invariant: the answer is the one to the question.
AnswersTheQuestion ==
  /\ asked.by = "id" =>
       asked.hex \in Seq(CodeUnit) /\ answer = NewObjectId(asked.hex)
  /\ asked.by = "equals" =>
       /\ asked.id \in Ids /\ asked.other \in Ids
       /\ answer = Yields(Equals(asked.id, asked.other))
  /\ asked.by = "cast" =>
       /\ asked.cast \in Casts /\ asked.value \in Source(asked.cast)
       /\ answer = IF Refuses(asked.cast, asked.value) THEN Throws("InvalidCastException")
                   ELSE Yields(LowBits(asked.cast, asked.value))
  /\ asked.by = "string" =>
       asked.native \in NativeStrings /\ answer = Yields(FromNative(asked.native))

\* The invariant holds in every state.
LEMMA Answering == Spec => []AnswersTheQuestion
<1>1. Init => AnswersTheQuestion
  BY DEF Init, AnswersTheQuestion
<1>2. AnswersTheQuestion /\ [Next]_vars => AnswersTheQuestion'
  <2> SUFFICES ASSUME AnswersTheQuestion, [Next]_vars
               PROVE  AnswersTheQuestion'
    OBVIOUS
  <2>1. ASSUME NEW hex \in HexTexts, MakeId(hex)
        PROVE  AnswersTheQuestion'
    <3>1. hex \in Seq(CodeUnit)
      BY InputsAssumption
    <3>2. asked' = [by |-> "id", hex |-> hex] /\ answer' = NewObjectId(hex)
      BY <2>1 DEF MakeId, Convert
    <3> QED BY <3>1, <3>2 DEF AnswersTheQuestion
  <2>2. ASSUME NEW id \in SomeIds, NEW other \in SomeIds, Compare(id, other)
        PROVE  AnswersTheQuestion'
    <3>1. id \in Ids /\ other \in Ids
      BY InputsAssumption
    <3>2. /\ asked' = [by |-> "equals", id |-> id, other |-> other]
          /\ answer' = Yields(Equals(id, other))
      BY <2>2 DEF Compare, Convert
    <3> QED BY <3>1, <3>2 DEF AnswersTheQuestion
  <2>3. ASSUME NEW cast \in Casts, NEW v \in Numbers, Cast(cast, v)
        PROVE  AnswersTheQuestion'
    <3>1. /\ v \in Source(cast)
          /\ asked' = [by |-> "cast", cast |-> cast, value |-> v]
          /\ answer' = IF Refuses(cast, v) THEN Throws("InvalidCastException")
                       ELSE Yields(LowBits(cast, v))
      BY <2>3 DEF Cast, Convert
    <3> QED BY <3>1 DEF AnswersTheQuestion
  <2>4. ASSUME NEW native \in NativeStrings, ReturnString(native)
        PROVE  AnswersTheQuestion'
    BY <2>4 DEF ReturnString, AnswersTheQuestion
  <2>5. CASE Use
    BY <2>5 DEF Use, AnswersTheQuestion
  <2>6. ASSUME UNCHANGED <<asked, answer>>
        PROVE  AnswersTheQuestion'
    BY <2>6 DEF AnswersTheQuestion
  <2>7. ASSUME NEW texts, BeginCall(texts)
        PROVE  UNCHANGED <<asked, answer>>
    BY <2>7 DEF BeginCall
  <2>8. MarshalNext \/ EndCall \/ UNCHANGED vars => UNCHANGED <<asked, answer>>
    BY DEF MarshalNext, EndCall, vars
  <2> QED BY <2>1, <2>2, <2>3, <2>4, <2>5, <2>6, <2>7, <2>8 DEF Next
<1> QED BY <1>1, <1>2, PTL DEF Spec

\* Every text of 40 hexadecimal digits makes the id that it spells, and
\* nothing else makes one (the constructor of ObjectId, ToString).
THEOREM IdsSpellTheirText == Spec => []IdsKeepTheirText
<1>1. AnswersTheQuestion => IdsKeepTheirText
  <2> SUFFICES ASSUME AnswersTheQuestion, asked.by = "id"
               PROVE  IF IsHex(asked.hex)
                      THEN /\ "yields" \in DOMAIN answer
                           /\ Spells(asked.hex, answer.yields)
                           /\ ToHexString(answer.yields)
                                = [i \in 1..HexSize |-> Lower(asked.hex[i])]
                           /\ NewObjectId(ToHexString(answer.yields)) = answer
                      ELSE "throws" \in DOMAIN answer
    BY DEF IdsKeepTheirText
  <2>1. asked.hex \in Seq(CodeUnit) /\ answer = NewObjectId(asked.hex)
    BY DEF AnswersTheQuestion
  <2>2. CASE IsHex(asked.hex)
    <3> DEFINE id == Assemble(asked.hex)
    <3>1. /\ answer = Yields(id) /\ id \in Ids
          /\ Spells(asked.hex, id)
          /\ ToHexString(id) = [i \in 1..HexSize |-> Lower(asked.hex[i])]
      BY <2>1, <2>2, HexIsTaken
    <3>2. NewObjectId(ToHexString(id)) = Yields(id)
      BY <3>1, RoundTrip
    <3> HIDE DEF id
    <3>3. answer.yields = id /\ "yields" \in DOMAIN answer
      BY <3>1 DEF Yields
    <3> QED BY <2>2, <3>1, <3>2, <3>3
  <2>3. CASE ~IsHex(asked.hex)
    BY <2>1, <2>3, OthersAreRefused
  <2> QED BY <2>2, <2>3
<1> QED BY <1>1, Answering, PTL

\* The block-wise comparison of ids decides whether they are the same.
THEOREM EqualityDecides == Spec => []EqualIdsAreSame
<1>1. AnswersTheQuestion => EqualIdsAreSame
  <2> SUFFICES ASSUME AnswersTheQuestion, asked.by = "equals"
               PROVE  /\ answer.yields <=> asked.id = asked.other
                      /\ answer.yields => HashCode(asked.id) = HashCode(asked.other)
    BY DEF EqualIdsAreSame
  <2>1. answer.yields = Equals(asked.id, asked.other)
    BY DEF AnswersTheQuestion, Yields
  <2>2. Equals(asked.id, asked.other) <=> asked.id = asked.other
    BY EqualsIsIdentity DEF AnswersTheQuestion
  <2> QED BY <2>1, <2>2
<1> QED BY <1>1, Answering, PTL

\* The checked casts throw exactly when they have to, for words of any even
\* range.
THEOREM CastsAreExact == Spec => []CastsKeepValues
<1>1. AnswersTheQuestion => CastsKeepValues
  BY CastLemma DEF AnswersTheQuestion, CastsKeepValues
<1> QED BY <1>1, Answering, PTL

-------------------------------------------------------------------------------
(* The buffers of the strings of a native call.                            *)

\* A buffer belongs to a string that has been made, and a string that has been
\* made to a call.
BuffersAreOfCall ==
  /\ args \in Seq(Texts)
  /\ natives \in Seq({ToNative(text) : text \in Texts})
  /\ Len(natives) <= Len(args)
  /\ 0 \in buffers /\ buffers \subseteq 0..Len(natives)

\* Every conversion keeps the buffers to the call.
LEMMA BuffersPreserved == ASSUME BuffersAreOfCall, [Next]_vars PROVE BuffersAreOfCall'
<1> USE DEF BuffersAreOfCall
<1>1. ASSUME UNCHANGED <<args, natives, buffers>>
      PROVE  BuffersAreOfCall'
  BY <1>1
<1>2. ASSUME NEW question, NEW result, Convert(question, result)
      PROVE  UNCHANGED <<args, natives, buffers>>
  BY <1>2 DEF Convert
<1>3. ASSUME NEW native, ReturnString(native)
      PROVE  UNCHANGED <<args, natives, buffers>>
  BY <1>3 DEF ReturnString, CleansUp
<1>4. Use \/ UNCHANGED vars => UNCHANGED <<args, natives, buffers>>
  BY DEF Use, vars
<1>5. ASSUME NEW n \in 1..MaxArguments, NEW texts \in [1..n -> Texts], BeginCall(texts)
      PROVE  BuffersAreOfCall'
  <2>1. n \in Nat /\ texts \in Seq(Texts) /\ Len(texts) = n
    BY InputsAssumption
  <2>2. args' = texts /\ natives' = natives /\ buffers' = buffers /\ args = <<>>
    BY <1>5 DEF BeginCall, Idle
  <2> QED
    BY <2>1, <2>2
<1>6. CASE MarshalNext
  <2> DEFINE i == Len(natives) + 1
  <2>1. i \in 1..Len(args) /\ args[i] \in Texts
    BY <1>6 DEF MarshalNext, Marshalled
  <2>2. args' = args
    BY <1>6 DEF MarshalNext
  <2>3. CASE natives' = Append(natives, ToNative(args[i])) /\ buffers' \subseteq buffers \cup {i}
             /\ buffers \subseteq buffers'
    BY <2>1, <2>2, <2>3
  <2>4. CASE UNCHANGED <<natives, buffers>>
    BY <2>2, <2>4
  <2> QED
    BY <1>6, <2>3, <2>4 DEF MarshalNext
<1>7. CASE EndCall
  <2>1. args' = <<>> /\ natives' = <<>> /\ buffers' = buffers \ (1..Len(natives))
    BY <1>7 DEF EndCall, CleansUp
  <2>2. <<>> \in Seq(Texts) /\ <<>> \in Seq({ToNative(text) : text \in Texts}) /\ Len(<<>>) = 0
    BY EmptySeq
  <2>3. Len(natives) \in Nat
    BY LenProperties
  <2>4. \A b \in buffers' : b \in 0..Len(natives) /\ b \notin 1..Len(natives)
    BY <2>1
  <2>5. \A b \in buffers' : b \in 0..0
    BY <2>3, <2>4
  <2>6. 0 \in buffers'
    BY <2>1, <2>3
  <2>7. args' \in Seq(Texts) /\ Len(args') = 0
    BY <2>1, <2>2
  <2>8. natives' \in Seq({ToNative(text) : text \in Texts}) /\ Len(natives') = 0
    BY <2>1, <2>2
  <2>9. buffers' \subseteq 0..0
    BY <2>5
  <2> QED
    BY <2>6, <2>7, <2>8, <2>9
<1>8. ASSUME NEW hex, MakeId(hex) PROVE BuffersAreOfCall'
  BY <1>8, <1>1, <1>2 DEF MakeId
<1>9. ASSUME NEW id, NEW other, Compare(id, other) PROVE BuffersAreOfCall'
  BY <1>9, <1>1, <1>2 DEF Compare
<1>10. ASSUME NEW cast, NEW v, Cast(cast, v) PROVE BuffersAreOfCall'
  BY <1>10, <1>1, <1>2 DEF Cast
<1> QED
  BY <1>1, <1>3, <1>4, <1>5, <1>6, <1>7, <1>8, <1>9, <1>10 DEF Next

\* Utf8Marshaler: between two calls no buffer of a string is allocated, for any
\* number of strings and wherever among them one cannot be converted; and no
\* string of libgit2's has been freed.
THEOREM BuffersEndWithTheCall == Spec => []BuffersFreedOnce
<1>1. Init => BuffersAreOfCall
  BY DEF Init, BuffersAreOfCall
<1>2. BuffersAreOfCall => BuffersFreedOnce
  <2> SUFFICES ASSUME BuffersAreOfCall, Idle
               PROVE  \A b \in buffers : b = 0
    BY DEF BuffersAreOfCall, BuffersFreedOnce
  <2>1. Len(args) = 0
    BY EmptySeq DEF Idle
  <2>2. Len(natives) = 0
    BY <2>1, LenProperties DEF BuffersAreOfCall
  <2> QED
    BY <2>2 DEF BuffersAreOfCall
<1> QED
  BY <1>1, <1>2, BuffersPreserved, PTL DEF Spec
-------------------------------------------------------------------------------
(* Strings.                                                                *)

\* Induction along the numbers up to N, for a set of numbers that is closed.
LEMMA UpTo ==
  ASSUME NEW N \in Nat, NEW T,
         \A m \in 0..N : (\A j \in 0..N : j < m => j \in T) => m \in T
  PROVE  \A m \in 0..N : m \in T
<1> DEFINE R == {p \in Nat \X Nat : p[1] < p[2]}
           rest == {m \in 0..N : m \notin T}
<1>1. IsWellFoundedOn(R, Nat)
  BY NatLessThanWellFounded DEF OpToRel
<1>2. SUFFICES ASSUME rest # {} PROVE FALSE
  OBVIOUS
<1>3. PICK x \in rest : \A y \in rest : ~(<<y, x>> \in R)
  <2>1. rest \in SUBSET Nat
    OBVIOUS
  <2> QED
    BY <1>1, <1>2, <2>1, WFMin
<1>4. ASSUME NEW j \in 0..N, j < x PROVE j \in T
  <2>1. j \in Nat /\ x \in Nat /\ <<j, x>> \in R
    BY <1>4
  <2>2. j \notin rest
    BY <1>3, <2>1
  <2> QED
    BY <2>2
<1> QED
  BY <1>3, <1>4

\* Each of the values of f begins the next.
EachBegins(f, N) ==
  \A n \in 0..N : \A m \in 0..n :
    Len(f[m]) <= Len(f[n]) /\ \A i \in 1..Len(f[m]) : f[n][i] = f[m][i]

\* FlattenSeq is the last of the concatenations of the first n sequences.
Flattens(f, seqs) ==
  /\ f[0] = <<>>
  /\ \A n \in 1..Len(seqs) : f[n] = f[n - 1] \o seqs[n]
  /\ FlattenSeq(seqs) = f[Len(seqs)]
  /\ EachBegins(f, Len(seqs))

LEMMA FlattenFacts ==
  ASSUME NEW S, NEW seqs \in Seq(Seq(S))
  PROVE  \E f \in [0..Len(seqs) -> Seq(S)] : Flattens(f, seqs)
<1> DEFINE N == Len(seqs)
           Solves(f, k) == \A m \in 0..k : f[m] = IF m = 0 THEN <<>> ELSE f[m - 1] \o seqs[m]
           T == {k \in 0..N : \E f \in [0..k -> Seq(S)] : Solves(f, k)}
<1>0. N \in Nat /\ \A n \in 1..N : seqs[n] \in Seq(S)
  OBVIOUS
<1>1. ASSUME NEW k \in 0..N, \A j \in 0..N : j < k => j \in T
      PROVE  k \in T
  <2>1. CASE k = 0
    <3> DEFINE f == [m \in 0..0 |-> <<>>]
    <3>1. f \in [0..0 -> Seq(S)] /\ Solves(f, 0)
      OBVIOUS
    <3> HIDE DEF f
    <3> QED
      BY <2>1, <3>1
  <2>2. CASE k # 0
    <3>1. k - 1 \in 0..N /\ k - 1 < k /\ k \in 1..N
      BY <1>0, <2>2
    <3>2. PICK g \in [0..k - 1 -> Seq(S)] : Solves(g, k - 1)
      BY <1>1, <3>1
    <3> DEFINE f == [m \in 0..k |-> IF m = k THEN g[k - 1] \o seqs[k] ELSE g[m]]
    <3>3. g[k - 1] \o seqs[k] \in Seq(S)
      BY <1>0, <3>1, ConcatProperties
    <3>4. f \in [0..k -> Seq(S)]
      BY <3>1, <3>3
    <3>5. ASSUME NEW m \in 0..k - 1
          PROVE  f[m] = g[m] /\ (m # 0 => m - 1 \in 0..k - 1)
      <4>1. m \in 0..k /\ m # k /\ (m # 0 => m - 1 \in 0..k - 1)
        BY <1>0, <3>1
      <4> QED
        BY <4>1
    <3>6. f[k] = g[k - 1] \o seqs[k] /\ f[k - 1] = g[k - 1]
      <4>1. k \in 0..k /\ k - 1 \in 0..k - 1
        BY <1>0, <3>1
      <4> QED
        BY <3>5, <4>1
    <3> HIDE DEF f
    <3>7. ASSUME NEW m \in 0..k PROVE f[m] = IF m = 0 THEN <<>> ELSE f[m - 1] \o seqs[m]
      <4>1. CASE m = k
        BY <2>2, <3>6, <4>1
      <4>2. CASE m # k
        <5>1. m \in 0..k - 1
          BY <4>2, <3>1
        <5>2. g[m] = IF m = 0 THEN <<>> ELSE g[m - 1] \o seqs[m]
          BY <3>2, <5>1
        <5> QED
          BY <3>5, <5>1, <5>2
      <4> QED
        BY <4>1, <4>2
    <3> QED
      BY <3>4, <3>7
  <2> QED
    BY <2>1, <2>2
<1>2. N \in T
  <2> HIDE DEF T
  <2>1. \A m \in 0..N : m \in T
    BY <1>0, <1>1, UpTo
  <2> QED
    BY <1>0, <2>1
<1>3. PICK f \in [0..N -> Seq(S)] : Solves(f, N)
  BY <1>2
<1>4. f[0] = <<>> /\ \A n \in 1..N : f[n] = f[n - 1] \o seqs[n] /\ n - 1 \in 0..N
  <2>1. 0 \in 0..N /\ \A n \in 1..N : n \in 0..N /\ n # 0 /\ n - 1 \in 0..N
    BY <1>0
  <2> QED
    BY <1>3, <2>1
<1>5. FlattenSeq(seqs) = f[N]
  <2>0. ASSUME N # 0 PROVE f[1] = seqs[1]
    <3>1. 1 \in 0..N /\ 1 \in 1..N /\ 1 # 0 /\ 1 - 1 = 0
      BY <1>0, <2>0
    <3>2. f[1] = f[0] \o seqs[1]
      BY <1>3, <3>1
    <3>3. seqs[1] \in Seq(S)
      BY <1>0, <3>1
    <3> QED
      BY <1>4, <3>2, <3>3, ConcatEmptySeq
  <2>1. CASE N = 0
    BY <1>4, <2>1, EmptySeq DEF FlattenSeq
  <2>2. CASE N # 0
    <3> DEFINE Loop(h) == h = [i \in 1..N |-> IF i = 1 THEN seqs[i] ELSE h[i - 1] \o seqs[i]]
               flatten == CHOOSE h : Loop(h)
               g == [i \in 1..N |-> f[i]]
    <3>1. Loop(g)
      <4>1. ASSUME NEW i \in 1..N
            PROVE  g[i] = IF i = 1 THEN seqs[i] ELSE g[i - 1] \o seqs[i]
        <5>1. CASE i = 1
          BY <2>0, <5>1
        <5>2. CASE i # 1
          <6>1. i - 1 \in 1..N
            BY <1>0, <5>2
          <6> QED
            BY <1>4, <5>2, <6>1
        <5> QED
          BY <5>1, <5>2
      <4> QED
        BY <4>1
    <3>2. Loop(flatten)
      BY <3>1
    <3>3. flatten[N] = FlattenSeq(seqs)
      BY <2>2 DEF FlattenSeq
    <3> HIDE DEF flatten
    <3> DEFINE U == {n \in 0..N : n # 0 => flatten[n] = f[n]}
    <3>4. ASSUME NEW n \in 0..N, \A j \in 0..N : j < n => j \in U
          PROVE  n \in U
      <4>1. CASE n = 0
        BY <4>1
      <4>2. CASE n = 1
        <5>1. 1 \in 1..N /\ flatten[1] = seqs[1]
          BY <3>2, <4>2, <1>0
        <5> QED
          BY <2>0, <4>2, <5>1
      <4>3. CASE n # 0 /\ n # 1
        <5>1. n \in 1..N /\ n - 1 \in 0..N /\ n - 1 # 0 /\ n - 1 < n
          BY <1>0, <4>3
        <5>2. flatten[n] = flatten[n - 1] \o seqs[n]
          BY <3>2, <4>3, <5>1
        <5>3. flatten[n - 1] = f[n - 1]
          BY <3>4, <5>1
        <5> QED
          BY <1>4, <5>1, <5>2, <5>3
      <4> QED
        BY <4>1, <4>2, <4>3
    <3> HIDE DEF U
    <3>5. \A n \in 0..N : n \in U
      BY <1>0, <3>4, UpTo
    <3>6. flatten[N] = f[N]
      BY <1>0, <2>2, <3>5 DEF U
    <3> QED
      BY <3>3, <3>6
  <2> QED
    BY <2>1, <2>2
<1> DEFINE Begins(m, n) == /\ Len(f[m]) <= Len(f[n])
                           /\ \A i \in 1..Len(f[m]) : f[n][i] = f[m][i]
           V == {n \in 0..N : \A m \in 0..n : Begins(m, n)}
<1>6. ASSUME NEW n \in 0..N, \A j \in 0..N : j < n => j \in V
      PROVE  n \in V
  <2> SUFFICES ASSUME NEW m \in 0..n PROVE Begins(m, n)
    OBVIOUS
  <2>1. CASE m = n
    BY <2>1
  <2>2. CASE m # n
    <3>1. n - 1 \in 0..N /\ n - 1 < n /\ n \in 1..N /\ m \in 0..n - 1 /\ m \in 0..N
      BY <1>0, <2>2
    <3>2. Begins(m, n - 1)
      BY <1>6, <3>1
    <3>3. f[n] = f[n - 1] \o seqs[n] /\ f[n - 1] \in Seq(S) /\ seqs[n] \in Seq(S) /\ f[m] \in Seq(S)
      BY <1>0, <1>4, <3>1
    <3>4. /\ Len(f[n]) = Len(f[n - 1]) + Len(seqs[n])
          /\ \A i \in 1..Len(f[n - 1]) : f[n][i] = f[n - 1][i]
      BY <3>3, ConcatProperties, SMTT(30)
    <3>5. Len(f[n - 1]) \in Nat /\ Len(seqs[n]) \in Nat /\ Len(f[m]) \in Nat
      BY <3>3
    <3> HIDE DEF V
    <3>6. Len(f[m]) <= Len(f[n])
      <4> DEFINE a == Len(f[m])
                 b == Len(f[n - 1])
                 c == Len(seqs[n])
                 d == Len(f[n])
      <4>1. a \in Nat /\ b \in Nat /\ c \in Nat /\ a <= b /\ d = b + c
        BY <3>2, <3>4, <3>5
      <4> HIDE DEF a, b, c, d
      <4>2. a <= d
        BY <4>1
      <4> QED
        BY <4>2 DEF a, d
    <3>7. ASSUME NEW i \in 1..Len(f[m]) PROVE f[n][i] = f[m][i]
      <4>1. i \in 1..Len(f[n - 1])
        BY <3>2, <3>5
      <4> QED
        BY <3>2, <3>4, <4>1
    <3> QED
      BY <3>6, <3>7
  <2> QED
    BY <2>1, <2>2
<1> HIDE DEF V
<1>7. \A n \in 0..N : n \in V
  BY <1>0, <1>6, UpTo
<1> QED
  BY <1>4, <1>5, <1>7 DEF V, Flattens, EachBegins

\* The part before the first NUL, wherever that is.
LEMMA UpToNulIs ==
  ASSUME NEW S, NEW s \in Seq(S), NEW n \in 0..Len(s),
         \A i \in 1..n : s[i] # "nul", n < Len(s) => s[n + 1] = "nul"
  PROVE  UpToNul(s) = SubSeq(s, 1, n)
<1> DEFINE Ends(e) == (\A i \in 1..e : s[i] # "nul") /\ (e < Len(s) => s[e + 1] = "nul")
           end == CHOOSE e \in 0..Len(s) : Ends(e)
<1>1. end \in 0..Len(s) /\ Ends(end)
  OBVIOUS
<1>2. UpToNul(s) = SubSeq(s, 1, end)
  BY DEF UpToNul
<1> HIDE DEF end
<1>3. Len(s) \in Nat
  OBVIOUS
<1>4. ~(end < n)
  <2> SUFFICES ASSUME end < n PROVE FALSE
    OBVIOUS
  <2>1. end + 1 \in 1..n /\ end < Len(s)
    BY <1>1, <1>3
  <2> QED
    BY <1>1, <2>1
<1>5. ~(n < end)
  <2> SUFFICES ASSUME n < end PROVE FALSE
    OBVIOUS
  <2>1. n + 1 \in 1..end /\ n < Len(s)
    BY <1>1, <1>3
  <2> QED
    BY <1>1, <2>1
<1>6. end = n
  BY <1>1, <1>3, <1>4, <1>5
<1> QED
  BY <1>2, <1>6

LEMMA NulFound ==
  ASSUME NEW S, NEW s \in Seq(S)
  PROVE  \E n \in 0..Len(s) : /\ \A i \in 1..n : s[i] # "nul"
                              /\ n < Len(s) => s[n + 1] = "nul"
<1> DEFINE N == Len(s)
           T == {m \in 0..N : \A i \in 1..m : s[i] # "nul"}
<1> SUFFICES ASSUME \A n \in T : n < N /\ s[n + 1] # "nul" PROVE FALSE
  OBVIOUS
<1>0. N \in Nat
  OBVIOUS
<1>1. ASSUME NEW m \in 0..N, \A j \in 0..N : j < m => j \in T
      PROVE  m \in T
  <2>1. CASE m = 0
    BY <2>1
  <2>2. CASE m # 0
    <3>1. m - 1 \in 0..N /\ m - 1 < m /\ (m - 1) + 1 = m
      BY <1>0, <2>2
    <3>2. m - 1 \in T /\ s[m] # "nul"
      BY <1>1, <3>1
    <3>3. \A i \in 1..m : i \in 1..m - 1 \/ i = m
      BY <1>0
    <3> QED
      BY <3>2, <3>3
  <2> QED
    BY <2>1, <2>2
<1>2. N \in T
  <2> HIDE DEF T
  <2>1. \A m \in 0..N : m \in T
    BY <1>0, <1>1, UpTo
  <2> QED
    BY <1>0, <2>1
<1> QED
  BY <1>0, <1>2

LEMMA OneElement ==
  ASSUME NEW S, NEW x \in S
  PROVE  <<x>> \in Seq(S) /\ <<>> \in Seq(S)
OBVIOUS

LEMMA SpellingIsText ==
  ASSUME NEW u \in Unit
  PROVE  /\ Spelling(u) \in Seq(Character \cup {"nul"})
         /\ u # "nul" => Spelling(u) \in Seq(Character)
<1>1. CASE u = "high"
  <2>1. Spelling(u) = <<"pair">> /\ "pair" \in Character
    BY <1>1 DEF Spelling, Character
  <2> QED
    BY <2>1, OneElement
<1>2. CASE u = "low"
  BY <1>2 DEF Spelling
<1>3. CASE u \notin {"high", "low"}
  <2>1. Spelling(u) = <<u>> /\ u \in Character \cup {"nul"}
    BY <1>3 DEF Spelling, Character, Unit
  <2>2. u # "nul" => u \in Character
    BY <2>1
  <2> QED
    BY <2>1, <2>2, OneElement
<1> QED
  BY <1>1, <1>2, <1>3

LEMMA UnitsAreText == ASSUME NEW c \in Character PROVE Decoding(c) \in Seq(Unit)
<1>1. CASE c = "pair"
  <2>1. Decoding(c) = <<"high", "low">> /\ "high" \in Unit /\ "low" \in Unit
    BY <1>1 DEF Decoding, Unit
  <2> QED
    BY <2>1
<1>2. CASE c = "bad"
  <2>1. Decoding(c) = <<"fffd">> /\ "fffd" \in Unit
    BY <1>2 DEF Decoding, Unit
  <2> QED
    BY <2>1, OneElement
<1>3. CASE c \notin {"pair", "bad"}
  <2>1. Decoding(c) = <<c>> /\ c \in Unit
    BY <1>3 DEF Decoding, Unit, Character
  <2> QED
    BY <2>1, OneElement
<1> QED
  BY <1>1, <1>2, <1>3

\* What a text spells: the same for the beginning of a text and for that of its
\* bytes.
LEMMA BytesFacts ==
  ASSUME NEW text \in Seq(Unit)
  PROVE  \E f \in [0..Len(text) -> Seq(Character \cup {"nul"})] :
           /\ f[0] = <<>>
           /\ \A n \in 1..Len(text) : f[n] = f[n - 1] \o Spelling(text[n])
           /\ Bytes(text) = f[Len(text)]
           /\ EachBegins(f, Len(text))
<1> DEFINE S == Character \cup {"nul"}
           seqs == [i \in DOMAIN text |-> Spelling(text[i])]
<1>1. \A u \in Unit : Spelling(u) \in Seq(S)
  BY SpellingIsText
<1>2. \A i \in DOMAIN text : text[i] \in Unit
  OBVIOUS
<1>3. DOMAIN text = 1..Len(text) /\ Len(text) \in Nat
  OBVIOUS
<1>4. seqs \in Seq(Seq(S)) /\ Len(seqs) = Len(text)
  <2> HIDE DEF S
  <2>1. seqs \in [1..Len(text) -> Seq(S)]
    BY <1>1, <1>2, <1>3
  <2> QED
    BY <1>3, <2>1
<1>5. \A n \in 1..Len(text) : seqs[n] = Spelling(text[n])
  BY <1>3
<1>6. Bytes(text) = FlattenSeq(seqs)
  BY DEF Bytes
<1> HIDE DEF S, seqs
<1> QED
  <2>0. PICK f \in [0..Len(seqs) -> Seq(S)] : Flattens(f, seqs)
    BY <1>4, FlattenFacts
  <2>1. /\ f[0] = <<>>
        /\ \A n \in 1..Len(seqs) : f[n] = f[n - 1] \o seqs[n]
        /\ FlattenSeq(seqs) = f[Len(seqs)]
        /\ EachBegins(f, Len(seqs))
    BY <2>0 DEF Flattens
  <2>2. f \in [0..Len(text) -> Seq(S)] /\ Bytes(text) = f[Len(text)]
    BY <1>4, <1>6, <2>1
  <2>3. \A n \in 1..Len(text) : f[n] = f[n - 1] \o Spelling(text[n])
    BY <1>4, <1>5, <2>1
  <2> QED
    BY <1>4, <2>1, <2>2, <2>3 DEF S

LEMMA UnitsFacts ==
  ASSUME NEW chars \in Seq(Character)
  PROVE  \E g \in [0..Len(chars) -> Seq(Unit)] :
           /\ g[0] = <<>>
           /\ \A n \in 1..Len(chars) : g[n] = g[n - 1] \o Decoding(chars[n])
           /\ FlattenSeq([i \in DOMAIN chars |-> Decoding(chars[i])]) = g[Len(chars)]
           /\ EachBegins(g, Len(chars))
<1> DEFINE seqs == [i \in DOMAIN chars |-> Decoding(chars[i])]
<1>1. \A c \in Character : Decoding(c) \in Seq(Unit)
  BY UnitsAreText
<1>2. \A i \in DOMAIN chars : chars[i] \in Character
  OBVIOUS
<1>3. DOMAIN chars = 1..Len(chars) /\ Len(chars) \in Nat
  OBVIOUS
<1>4. seqs \in Seq(Seq(Unit)) /\ Len(seqs) = Len(chars)
  <2>1. seqs \in [1..Len(chars) -> Seq(Unit)]
    BY <1>1, <1>2, <1>3
  <2> QED
    BY <1>3, <2>1
<1>5. \A n \in 1..Len(chars) : seqs[n] = Decoding(chars[n])
  BY <1>3
<1> HIDE DEF seqs
<1>6. \E g \in [0..Len(chars) -> Seq(Unit)] :
           /\ g[0] = <<>>
           /\ \A n \in 1..Len(chars) : g[n] = g[n - 1] \o Decoding(chars[n])
           /\ FlattenSeq(seqs) = g[Len(chars)]
           /\ EachBegins(g, Len(chars))
  <2>0. PICK g \in [0..Len(seqs) -> Seq(Unit)] : Flattens(g, seqs)
    BY <1>4, FlattenFacts
  <2>1. /\ g[0] = <<>>
        /\ \A n \in 1..Len(seqs) : g[n] = g[n - 1] \o seqs[n]
        /\ FlattenSeq(seqs) = g[Len(seqs)]
        /\ EachBegins(g, Len(seqs))
    BY <2>0 DEF Flattens
  <2>2. g \in [0..Len(chars) -> Seq(Unit)]
    BY <1>4, <2>1
  <2>3. \A n \in 1..Len(chars) : g[n] = g[n - 1] \o Decoding(chars[n])
    BY <1>4, <1>5, <2>1
  <2> QED
    BY <1>4, <2>1, <2>2, <2>3
<1> QED
  BY <1>6 DEF seqs

\* One more element at the end of a beginning.
LEMMA OneMore ==
  ASSUME NEW S, NEW s \in Seq(S), NEW n \in 1..Len(s)
  PROVE  /\ SubSeq(s, 1, n - 1) \in Seq(S)
         /\ SubSeq(s, 1, n) = SubSeq(s, 1, n - 1) \o <<s[n]>>
BY SubSeqRecursiveSecond

\* A string that can be converted arrives up to its first NUL.
LEMMA TextArrives ==
  ASSUME NEW text \in Seq(Unit), WellFormed(text)
  PROVE  FromNative(ToNative(text)) = UpToNul(text)
<1> DEFINE N == Len(text)
           Raw == Character \cup {"nul"}
<1>0. N \in Nat /\ \A i \in 1..N : text[i] \in Unit
  OBVIOUS
<1>1. PICK k \in 0..N : (\A i \in 1..k : text[i] # "nul") /\ (k < N => text[k + 1] = "nul")
  BY NulFound
<1>2. UpToNul(text) = SubSeq(text, 1, k)
  BY <1>1, UpToNulIs
<1>3. PICK f \in [0..N -> Seq(Raw)] :
        /\ f[0] = <<>>
        /\ \A n \in 1..N : f[n] = f[n - 1] \o Spelling(text[n])
        /\ Bytes(text) = f[N]
        /\ EachBegins(f, N)
  BY BytesFacts
<1>a. ASSUME NEW n \in 1..k
      PROVE  /\ n \in 1..N /\ n - 1 \in 0..k /\ n - 1 \in 0..N /\ n - 1 < n
             /\ text[n] \in Unit \ {"nul"}
             /\ text[n] = "high" <=> n < N /\ text[n + 1] = "low"
  <2>1. k \in Nat /\ k <= N
    BY <1>0
  <2>2. n \in 1..N /\ n - 1 \in 0..k /\ n - 1 \in 0..N /\ n - 1 < n
    BY <1>0, <2>1
  <2>3. text[n] \in Unit \ {"nul"}
    BY <1>0, <1>1, <2>2
  <2>4. n \in DOMAIN text
    BY <1>0, <2>2
  <2>5. text[n] = "high" <=> n < N /\ text[n + 1] = "low"
    BY <2>4 DEF WellFormed
  <2> QED
    BY <2>2, <2>3, <2>5
<1>b. k \in Nat /\ k \in 0..k /\ 0 \in 0..k /\ N \in 0..N /\ k <= N
  BY <1>0
<1> HIDE DEF Raw
\* Its characters before the NUL.
<1>4. \A n \in 0..k : f[n] \in Seq(Character)
  <2> DEFINE T == {n \in 0..k : f[n] \in Seq(Character)}
  <2>1. ASSUME NEW n \in 0..k, \A j \in 0..k : j < n => j \in T
        PROVE  n \in T
    <3>1. CASE n = 0
      BY <1>3, <3>1
    <3>2. CASE n # 0
      <4>1. n \in 1..k
        BY <1>0, <3>2
      <4>2. f[n] = f[n - 1] \o Spelling(text[n]) /\ f[n - 1] \in Seq(Character)
        BY <1>3, <1>a, <2>1, <4>1
      <4>3. Spelling(text[n]) \in Seq(Character)
        BY <1>a, <4>1, SpellingIsText
      <4> QED
        BY <4>2, <4>3, ConcatProperties
    <3> QED
      BY <3>1, <3>2
  <2> HIDE DEF T
  <2>2. \A n \in 0..k : n \in T
    BY <1>b, <2>1, UpTo
  <2> QED
    BY <2>2 DEF T
<1> DEFINE chars == f[k]
           native == Append(f[N], "nul")
<1>5. ToNative(text) = native /\ native # NoString
  <2>1. "null" \notin Unit /\ "null" \notin Raw
    BY DEF Unit, Character, Raw
  <2>2. NoString \notin Seq(Unit) /\ NoString \notin Seq(Raw)
    BY <2>1 DEF NoString
  <2>3. native \in Seq(Raw)
    <3>1. f[N] \in Seq(Raw) /\ "nul" \in Raw
      BY <1>b, <1>3 DEF Raw
    <3> QED
      BY <3>1, AppendProperties
  <2> QED
    BY <1>3, <2>2, <2>3 DEF ToNative
<1>6. UpToNul(native) = chars
  <2>1. f[k] \in Seq(Character) /\ f[N] \in Seq(Raw) /\ native \in Seq(Raw)
    <3>1. f[k] \in Seq(Character)
      BY <1>b, <1>4
    <3>2. f[N] \in Seq(Raw) /\ "nul" \in Raw
      BY <1>b, <1>3 DEF Raw
    <3> QED
      BY <3>1, <3>2
  <2>2. Len(f[k]) \in Nat /\ Len(f[N]) \in Nat /\ Len(native) = Len(f[N]) + 1
    BY <2>1
  <2>3. Len(f[k]) <= Len(f[N]) /\ \A i \in 1..Len(f[k]) : f[N][i] = f[k][i]
    BY <1>b, <1>3 DEF EachBegins
  <2>4. ASSUME NEW i \in 1..Len(f[k])
        PROVE  native[i] = f[k][i] /\ f[k][i] # "nul"
    <3>1. i \in 1..Len(f[N])
      BY <2>2, <2>3
    <3>2. f[k][i] \in Character
      BY <2>1
    <3> QED
      BY <2>1, <2>3, <3>1, <3>2, AppendProperties DEF Character
  <2>5. native[Len(f[k]) + 1] = "nul"
    <3>1. CASE k = N
      BY <2>1, <3>1, AppendProperties
    <3>2. CASE k # N
      <4>1. k + 1 \in 1..N /\ k + 1 \in 0..N /\ (k + 1) - 1 = k /\ N \in 0..N
        BY <1>0, <3>2
      <4>2. text[k + 1] = "nul"
        BY <1>1, <1>0, <3>2
      <4>3. f[k + 1] = f[k] \o <<"nul">>
        BY <1>3, <4>1, <4>2 DEF Spelling
      <4>4. Len(f[k + 1]) = Len(f[k]) + 1 /\ f[k + 1][Len(f[k]) + 1] = "nul"
        BY <2>1, <4>3
      <4>5. Len(f[k + 1]) <= Len(f[N]) /\ \A i \in 1..Len(f[k + 1]) : f[N][i] = f[k + 1][i]
        BY <1>3, <4>1 DEF EachBegins
      <4>6. Len(f[k]) + 1 \in 1..Len(f[k + 1]) /\ Len(f[k]) + 1 \in 1..Len(f[N])
        BY <2>2, <4>4, <4>5
      <4>7. f[N][Len(f[k]) + 1] = "nul"
        BY <4>4, <4>5, <4>6
      <4> QED
        BY <2>1, <4>6, <4>7, AppendProperties
    <3> QED
      BY <3>1, <3>2
  <2>6. UpToNul(native) = SubSeq(native, 1, Len(f[k]))
    <3>1. Len(f[k]) \in 0..Len(native)
      BY <2>2, <2>3
    <3> HIDE DEF native
    <3> QED
      BY <2>1, <2>4, <2>5, <3>1, UpToNulIs
  <2>7. SubSeq(native, 1, Len(f[k])) = f[k]
    <3> DEFINE s == SubSeq(native, 1, Len(f[k]))
    <3>1. Len(f[k]) \in 0..Len(native)
      BY <2>2, <2>3
    <3> HIDE DEF native
    <3>2. s \in Seq(Raw) /\ Len(s) = Len(f[k]) /\ \A i \in 1..Len(f[k]) : s[i] = native[i]
      BY <2>1, <2>2, <3>1
    <3>3. \A i \in 1..Len(f[k]) : s[i] = f[k][i]
      BY <2>4, <3>2
    <3> HIDE DEF s
    <3>4. f[k] \in Seq(Raw)
      BY <1>0, <1>3
    <3>5. s = f[k]
      BY <3>2, <3>3, <3>4, SeqEqual
    <3> QED
      BY <3>5 DEF s
  <2> QED
    BY <2>6, <2>7
<1>7. chars \in Seq(Character)
  BY <1>0, <1>4
<1>8. PICK g \in [0..Len(chars) -> Seq(Unit)] :
        /\ g[0] = <<>>
        /\ \A n \in 1..Len(chars) : g[n] = g[n - 1] \o Decoding(chars[n])
        /\ FlattenSeq([i \in DOMAIN chars |-> Decoding(chars[i])]) = g[Len(chars)]
  <2> HIDE DEF chars
  <2> QED
    BY <1>7, UnitsFacts
<1>9. FromNative(ToNative(text)) = g[Len(chars)]
  <2> HIDE DEF chars, native
  <2> QED
    BY <1>5, <1>6, <1>8 DEF FromNative
<1> DEFINE Read(n) == SubSeq(text, 1, IF n > 0 /\ text[n] = "high" THEN n + 1 ELSE n)
           T == {n \in 0..k : g[Len(f[n])] = Read(n)}
<1>10. ASSUME NEW n \in 0..k, \A j \in 0..k : j < n => j \in T
       PROVE  n \in T
  <2>1. CASE n = 0
    <3>1. g[Len(f[n])] = <<>>
      BY <1>3, <1>8, <2>1
    <3>2. Read(n) = <<>>
      BY <2>1
    <3> QED
      BY <3>1, <3>2
  <2>2. CASE n # 0
    <3>1. n \in 1..k
      BY <1>0, <2>2
    <3>2. /\ n \in 1..N /\ n - 1 \in 0..k /\ n - 1 \in 0..N /\ n - 1 < n /\ n \in 0..N
          /\ text[n] \in Unit \ {"nul"}
          /\ text[n] = "high" <=> n < N /\ text[n + 1] = "low"
      BY <1>a, <3>1
    <3>3. g[Len(f[n - 1])] = Read(n - 1)
      BY <1>10, <3>2
    <3>4. text[n] = "low" <=> n - 1 > 0 /\ text[n - 1] = "high"
      <4>1. CASE n = 1
        <5>1. text # <<>>
          BY <1>0, <3>2
        <5> QED
          BY <4>1, <5>1 DEF WellFormed
      <4>2. CASE n # 1
        <5>1. n - 1 \in 1..k /\ (n - 1) + 1 = n /\ n - 1 < N
          BY <1>0, <3>2, <4>2
        <5> QED
          BY <1>a, <5>1
      <4> QED
        BY <4>1, <4>2
    <3>5. f[n] = f[n - 1] \o Spelling(text[n])
      BY <1>3, <3>2
    <3> HIDE DEF T
    <3>6. CASE text[n] = "low"
      <4>1. f[n] = f[n - 1]
        BY <1>3, <3>2, <3>5, <3>6, ConcatEmptySeq DEF Spelling
      <4>2. Read(n - 1) = SubSeq(text, 1, n) /\ Read(n) = SubSeq(text, 1, n)
        BY <3>2, <3>4, <3>6
      <4> QED
        BY <3>3, <4>1, <4>2 DEF T
    <3>7. CASE text[n] # "low"
      <4> DEFINE c == IF text[n] = "high" THEN "pair" ELSE text[n]
                 p == Len(f[n - 1])
      <4>1. f[n] = f[n - 1] \o <<c>>
        BY <3>5, <3>7 DEF Spelling
      <4>2. f[n - 1] \in Seq(Character) /\ f[n] \in Seq(Character) /\ p \in Nat
        BY <1>4, <3>1, <3>2
      <4>3. Len(f[n]) = p + 1 /\ f[n][p + 1] = c
        BY <4>1, <4>2
      <4>4. Len(f[n]) <= Len(chars) /\ \A i \in 1..Len(f[n]) : chars[i] = f[n][i]
        <5>1. k \in 0..N /\ n \in 0..k
          BY <3>1
        <5> QED
          BY <1>3, <5>1 DEF EachBegins
      <4>5. Len(chars) \in Nat
        BY <1>7
      <4>6. p + 1 \in 1..Len(chars) /\ chars[p + 1] = c /\ (p + 1) - 1 = p
        <5> HIDE DEF chars, c, p
        <5>1. p + 1 \in 1..Len(f[n]) /\ p + 1 \in 1..Len(chars) /\ (p + 1) - 1 = p
          BY <4>2, <4>3, <4>4, <4>5
        <5> QED
          BY <4>3, <4>4, <5>1
      <4>7. g[p + 1] = g[p] \o Decoding(c)
        <5> HIDE DEF chars, p, c
        <5> QED
          BY <1>8, <4>6
      <4>8. g[p] = SubSeq(text, 1, n - 1)
        BY <3>3, <3>4, <3>7
      <4>9. g[Len(f[n])] = SubSeq(text, 1, n - 1) \o Decoding(c)
        BY <4>3, <4>7, <4>8
      <4>10. CASE text[n] = "high"
        <5>1. n + 1 \in 1..N /\ text[n + 1] = "low" /\ (n + 1) - 1 = n
          BY <1>0, <3>2, <4>10
        <5>2. Read(n) = SubSeq(text, 1, n + 1)
          BY <3>2, <4>10
        <5>3. SubSeq(text, 1, n) = SubSeq(text, 1, n - 1) \o <<"high">>
          BY <3>2, <4>10, OneMore
        <5>4. SubSeq(text, 1, n + 1) = SubSeq(text, 1, n) \o <<"low">>
          BY <5>1, OneMore
        <5>5. SubSeq(text, 1, n - 1) \in Seq(Unit)
          BY <3>2, OneMore
        <5>6. <<"high">> \in Seq(Unit) /\ <<"low">> \in Seq(Unit)
          BY DEF Unit
        <5>7. <<"high">> \o <<"low">> = <<"high", "low">>
          <6> DEFINE s == <<"high">> \o <<"low">>
          <6>1. <<"high", "low">> \in Seq(Unit)
            BY <5>6 DEF Unit
          <6>2. s \in Seq(Unit) /\ Len(s) = 2 /\ s[1] = "high" /\ s[2] = "low"
            BY <5>6, ConcatProperties
          <6> HIDE DEF s
          <6>3. \A i \in 1..2 : s[i] = <<"high", "low">>[i]
            BY <6>2
          <6>4. s = <<"high", "low">>
            BY <6>1, <6>2, <6>3, SeqEqual
          <6> QED
            BY <6>4 DEF s
        <5>8. (SubSeq(text, 1, n - 1) \o <<"high">>) \o <<"low">>
                = SubSeq(text, 1, n - 1) \o <<"high", "low">>
          BY <5>5, <5>6, <5>7, ConcatAssociative
        <5>9. Decoding(c) = <<"high", "low">>
          BY <4>10 DEF Decoding
        <5> QED
          BY <4>9, <5>2, <5>3, <5>4, <5>8, <5>9 DEF T
      <4>11. CASE text[n] # "high"
        <5>1. Read(n) = SubSeq(text, 1, n)
          BY <4>11
        <5>2. Decoding(c) = <<text[n]>>
          BY <3>2, <4>11 DEF Decoding, Unit
        <5>3. SubSeq(text, 1, n) = SubSeq(text, 1, n - 1) \o <<text[n]>>
          BY <3>2, OneMore
        <5> QED
          BY <4>9, <5>1, <5>2, <5>3 DEF T
      <4> QED
        BY <4>10, <4>11
    <3> QED
      BY <3>6, <3>7
  <2> QED
    BY <2>1, <2>2
<1>11. k \in T
  <2> HIDE DEF T
  <2>1. \A n \in 0..k : n \in T
    BY <1>b, <1>10, UpTo
  <2> QED
    BY <1>b, <2>1
<1>12. Read(k) = SubSeq(text, 1, k)
  <2> SUFFICES ASSUME k > 0, text[k] = "high" PROVE FALSE
    BY <1>0
  <2>1. k \in 1..k
    BY <1>0
  <2>2. k < N /\ text[k + 1] = "low"
    BY <1>a, <2>1
  <2> QED
    BY <1>1, <2>2
<1> QED
  BY <1>2, <1>9, <1>11, <1>12

\* A native string that is valid UTF-8 is made again from what it is read as.
LEMMA NativeComesBack ==
  ASSUME NEW native \in Seq(Character \cup {"nul"}), native # <<>>,
         \A i \in DOMAIN native : native[i] = "nul" <=> i = Len(native),
         ~Contains(native, "bad")
  PROVE  ToNative(FromNative(native)) = native
<1> DEFINE N == Len(native)
           chars == SubSeq(native, 1, N - 1)
           Raw == Character \cup {"nul"}
<1>1. N \in Nat /\ N # 0 /\ N \in 1..N /\ N - 1 \in 0..N /\ N - 1 \in Nat
      /\ (N - 1) + 1 = N
  BY EmptySeq
<1>2. \A i \in 1..N - 1 : i \in 1..N /\ native[i] \in Character \ {"bad"}
  <2> SUFFICES ASSUME NEW i \in 1..N - 1
               PROVE  i \in 1..N /\ native[i] \in Character \ {"bad"}
    OBVIOUS
  <2>1. i \in 1..N /\ i # N
    <3> HIDE DEF N
    <3> QED
      BY <1>1
  <2>2. native[i] # "nul" /\ native[i] # "bad"
    BY <2>1 DEF Contains
  <2> QED
    BY <2>1, <2>2
<1>3. chars \in Seq(Character) /\ Len(chars) = N - 1 /\ \A i \in 1..N - 1 : chars[i] = native[i]
  <2>1. \A i \in 1..N - 1 : native[i] \in Character
    BY <1>2
  <2>2. 1 \in Int /\ N - 1 \in Int
    BY <1>1
  <2>3. /\ chars \in Seq(Character)
        /\ Len(chars) = IF 1 <= N - 1 THEN (N - 1) - 1 + 1 ELSE 0
        /\ \A i \in 1..(N - 1) - 1 + 1 : chars[i] = native[1 + i - 1]
    BY <2>1, <2>2, SubSeqProperties
  <2>4. Len(chars) = N - 1
    BY <1>1, <2>3
  <2>5. \A i \in 1..N - 1 : i \in 1..(N - 1) - 1 + 1 /\ 1 + i - 1 = i
    BY <1>1
  <2> HIDE DEF chars
  <2> QED
    BY <2>3, <2>4, <2>5
<1>4. UpToNul(native) = chars
  <2>1. \A i \in 1..N - 1 : native[i] # "nul"
    BY <1>2 DEF Character
  <2>2. native[(N - 1) + 1] = "nul"
    BY <1>1
  <2> QED
    BY <1>1, <2>1, <2>2, UpToNulIs
<1>5. native # NoString
  <2>1. "null" \notin Raw
    BY DEF Character
  <2> QED
    BY <2>1 DEF NoString
<1> HIDE DEF chars
<1>6. PICK g \in [0..Len(chars) -> Seq(Unit)] :
        /\ g[0] = <<>>
        /\ \A n \in 1..Len(chars) : g[n] = g[n - 1] \o Decoding(chars[n])
        /\ FlattenSeq([i \in DOMAIN chars |-> Decoding(chars[i])]) = g[Len(chars)]
        /\ EachBegins(g, Len(chars))
  BY <1>3, UnitsFacts
<1> DEFINE text == g[N - 1]
<1>7. FromNative(native) = text /\ text \in Seq(Unit) /\ text # NoString
  <2>1. FromNative(native) = text
    BY <1>3, <1>4, <1>5, <1>6 DEF FromNative
  <2>2. text \in Seq(Unit)
    BY <1>1, <1>3, <1>6, SMTT(30)
  <2>3. "null" \notin Unit
    BY DEF Unit
  <2>4. NoString \notin Seq(Unit)
    BY <2>3 DEF NoString
  <2> QED
    BY <2>1, <2>2, <2>4
<1>8. \A n \in 0..N - 1 :
        /\ g[n] \in Seq(Unit) /\ Len(g[n]) \in Nat /\ Len(g[n]) <= Len(text)
        /\ \A i \in 1..Len(g[n]) : text[i] = g[n][i]
  <2> SUFFICES ASSUME NEW n \in 0..N - 1
               PROVE  /\ g[n] \in Seq(Unit) /\ Len(g[n]) \in Nat /\ Len(g[n]) <= Len(text)
                      /\ \A i \in 1..Len(g[n]) : text[i] = g[n][i]
    OBVIOUS
  <2>1. g[n] \in Seq(Unit)
    BY <1>3, <1>6
  <2>2. N - 1 \in 0..Len(chars) /\ n \in 0..N - 1
    BY <1>1, <1>3
  <2>3. Len(g[n]) <= Len(g[N - 1]) /\ \A i \in 1..Len(g[n]) : g[N - 1][i] = g[n][i]
    <3> HIDE DEF N
    <3> QED
      BY <1>6, <2>2 DEF EachBegins
  <2> QED
    BY <2>1, <2>3
<1> HIDE DEF text
<1>9. PICK f \in [0..Len(text) -> Seq(Raw)] :
        /\ f[0] = <<>>
        /\ \A n \in 1..Len(text) : f[n] = f[n - 1] \o Spelling(text[n])
        /\ Bytes(text) = f[Len(text)]
  BY <1>7, BytesFacts
<1> HIDE DEF Raw
<1>10. Len(text) \in Nat /\ 0 \in 0..Len(text)
  BY <1>7
<1> DEFINE T == {n \in 0..N - 1 : f[Len(g[n])] = SubSeq(native, 1, n)}
<1>11. ASSUME NEW n \in 0..N - 1, \A j \in 0..N - 1 : j < n => j \in T
       PROVE  n \in T
  <2>1. CASE n = 0
    <3>1. Len(g[0]) = 0 /\ SubSeq(native, 1, 0) = <<>>
      BY <1>6
    <3> QED
      BY <1>9, <2>1, <3>1
  <2>2. CASE n # 0
    <3> DEFINE p == Len(g[n - 1])
               c == native[n]
               begun == SubSeq(native, 1, n - 1)
    <3>1. n \in 1..N - 1 /\ n \in 1..N /\ n - 1 \in 0..N - 1 /\ n - 1 < n
      BY <1>1, <2>2
    <3>2. c \in Character \ {"bad"} /\ chars[n] = c
      BY <1>2, <1>3, <3>1
    <3>3. f[p] = begun
      BY <1>11, <3>1
    <3>4. SubSeq(native, 1, n) = begun \o <<c>>
      BY <3>1, OneMore
    <3>5. g[n] = g[n - 1] \o Decoding(c)
      BY <1>3, <1>6, <3>1, <3>2
    <3>6. p \in Nat /\ g[n - 1] \in Seq(Unit)
      BY <1>8, <3>1
    <3>7. begun \in Seq(Raw)
      BY <3>1, OneMore DEF Raw
    <3> HIDE DEF T, begun, p, c
    <3>8. ASSUME NEW i \in 1..Len(g[n])
          PROVE  i \in 1..Len(text) /\ text[i] = g[n][i]
      <4>1. /\ Len(g[n]) \in Nat /\ Len(g[n]) <= Len(text)
            /\ \A j \in 1..Len(g[n]) : text[j] = g[n][j]
        BY <1>8
      <4>2. i \in 1..Len(text)
        BY <1>10, <4>1
      <4> QED
        BY <4>1, <4>2
    <3>9. CASE c = "pair"
      <4>1. Decoding(c) = <<"high", "low">>
        BY <3>9 DEF Decoding
      <4>2. <<"high", "low">> \in Seq(Unit) /\ Len(<<"high", "low">>) = 2
        BY DEF Unit
      <4>3. /\ Len(g[n]) = p + 2
            /\ \A i \in 1..p + 2 : g[n][i] = IF i <= p THEN g[n - 1][i] ELSE <<"high", "low">>[i - p]
        BY <3>5, <3>6, <4>1, <4>2, ConcatProperties DEF p
      <4>4. g[n][p + 1] = "high" /\ g[n][p + 2] = "low"
        <5>1. /\ p + 1 \in 1..p + 2 /\ ~(p + 1 <= p) /\ (p + 1) - p = 1
              /\ p + 2 \in 1..p + 2 /\ ~(p + 2 <= p) /\ (p + 2) - p = 2
          BY <3>6
        <5> QED
          BY <4>3, <5>1, SMTT(30)
      <4>5. p + 1 \in 1..Len(text) /\ text[p + 1] = "high"
            /\ p + 2 \in 1..Len(text) /\ text[p + 2] = "low"
        <5>1. p + 1 \in 1..Len(g[n]) /\ p + 2 \in 1..Len(g[n])
          BY <3>6, <4>3
        <5> QED
          BY <3>8, <4>4, <5>1
      <4>6. (p + 1) - 1 = p /\ (p + 2) - 1 = p + 1
        BY <3>6
      <4>7. f[p + 1] = f[p] \o <<"pair">>
        BY <1>9, <4>5, <4>6 DEF Spelling
      <4>8. f[p + 2] = f[p + 1] \o <<>>
        BY <1>9, <4>5, <4>6 DEF Spelling
      <4>9. f[p + 1] \in Seq(Raw)
        BY <1>9, <1>10, <4>5
      <4>10. f[p + 2] = begun \o <<c>>
        BY <3>3, <3>9, <4>7, <4>8, <4>9, ConcatEmptySeq
      <4> QED
        BY <3>4, <4>3, <4>10 DEF T
    <3>10. CASE c # "pair"
      <4>1. Decoding(c) = <<c>> /\ c \in Unit /\ c \notin {"high", "low"}
        BY <3>2, <3>10 DEF Decoding, Unit, Character
      <4>2. Len(g[n]) = p + 1 /\ g[n][p + 1] = c
        BY <3>5, <3>6, <4>1 DEF p
      <4>3. p + 1 \in 1..Len(text) /\ text[p + 1] = c
        <5>1. p + 1 \in 1..Len(g[n])
          BY <3>6, <4>2
        <5> QED
          BY <3>8, <4>2, <5>1
      <4>4. (p + 1) - 1 = p
        BY <3>6
      <4>5. f[p + 1] = f[p] \o <<c>>
        BY <1>9, <4>1, <4>3, <4>4 DEF Spelling
      <4> QED
        BY <3>3, <3>4, <4>2, <4>5 DEF T
    <3> QED
      BY <3>9, <3>10
  <2> QED
    BY <2>1, <2>2
<1>12. N - 1 \in T
  <2> HIDE DEF T
  <2>1. \A n \in 0..N - 1 : n \in T
    BY <1>1, <1>11, UpTo
  <2> QED
    BY <1>1, <2>1
<1>13. Bytes(text) = chars
  BY <1>9, <1>12 DEF text, chars
<1>14. SubSeq(native, 1, N) = chars \o <<"nul">>
  <2>1. native[N] = "nul"
    BY <1>1
  <2>2. SubSeq(native, 1, N) = SubSeq(native, 1, N - 1) \o <<native[N]>>
    BY <1>1, OneMore
  <2> QED
    BY <2>1, <2>2 DEF chars
<1>15. Append(chars, "nul") = native
  <2>1. SubSeq(native, 1, N) = native
    BY SubSeqFull
  <2>2. Append(chars, "nul") = chars \o <<"nul">>
    BY <1>3, AppendIsConcat
  <2> QED
    BY <1>14, <2>1, <2>2
<1> QED
  BY <1>7, <1>13, <1>15 DEF ToNative

\* What has been made of the strings of the call is of those that can be
\* converted, in their places.
MadeOf(made, texts) ==
  \A i \in DOMAIN made : made[i] = ToNative(texts[i]) /\ Accepts(texts[i])

StringsMade == BuffersAreOfCall /\ MadeOf(natives, args)

LEMMA StringsMadePreserved == ASSUME StringsMade, [Next]_vars PROVE StringsMade'
<1> DEFINE Goal == MadeOf(natives', args')
<1>1. BuffersAreOfCall'
  BY BuffersPreserved DEF StringsMade
<1> SUFFICES Goal
  BY <1>1 DEF StringsMade
<1>2. ASSUME natives' = natives, args' = args PROVE Goal
  BY <1>2 DEF StringsMade
<1>3. ASSUME NEW question, NEW result, Convert(question, result) PROVE Goal
  BY <1>2, <1>3 DEF Convert
<1>4. ASSUME NEW native, ReturnString(native) PROVE Goal
  BY <1>2, <1>4 DEF ReturnString
<1>5. CASE Use
  BY <1>2, <1>5 DEF Use
<1>6. CASE UNCHANGED vars
  BY <1>2, <1>6 DEF vars
<1>7. ASSUME NEW texts, BeginCall(texts) PROVE Goal
  <2>1. natives' = natives /\ args = <<>>
    BY <1>7 DEF BeginCall, Idle
  <2>2. natives \in Seq({ToNative(text) : text \in Texts}) /\ Len(natives) <= 0
    BY <2>1 DEF StringsMade, BuffersAreOfCall
  <2>3. DOMAIN natives' = {}
    BY <2>1, <2>2
  <2> QED
    BY <2>3 DEF MadeOf
<1>8. CASE MarshalNext
  <2> DEFINE k == Len(natives) + 1
  <2>1. natives \in Seq({ToNative(text) : text \in Texts}) /\ Len(natives) \in Nat
    BY DEF StringsMade, BuffersAreOfCall
  <2>2. args' = args
    BY <1>8 DEF MarshalNext
  <2>3. CASE natives' = Append(natives, ToNative(args[k])) /\ Accepts(args[k])
    <3>1. ASSUME NEW i \in DOMAIN natives'
          PROVE  natives'[i] = ToNative(args[i]) /\ Accepts(args[i])
      <4>1. i = k \/ i \in DOMAIN natives
        BY <2>1, <2>3
      <4>2. CASE i = k
        BY <2>1, <2>3, <4>2
      <4>3. CASE i \in DOMAIN natives
        <5>1. natives'[i] = natives[i]
          BY <2>1, <2>3, <4>3
        <5> QED
          BY <4>3, <5>1 DEF StringsMade, MadeOf
      <4> QED
        BY <4>1, <4>2, <4>3
    <3> QED
      BY <2>2, <3>1 DEF MadeOf
  <2>4. CASE natives' = natives
    BY <1>2, <2>2, <2>4
  <2> QED
    BY <1>8, <2>3, <2>4 DEF MarshalNext
<1>9. CASE EndCall
  BY <1>9 DEF EndCall, MadeOf
<1>10. ASSUME NEW hex, MakeId(hex) PROVE Goal
  BY <1>3, <1>10 DEF MakeId
<1>11. ASSUME NEW id, NEW other, Compare(id, other) PROVE Goal
  BY <1>3, <1>11 DEF Compare
<1>12. ASSUME NEW cast, NEW v, Cast(cast, v) PROVE Goal
  BY <1>3, <1>12 DEF Cast
<1> QED
  BY <1>4, <1>5, <1>6, <1>7, <1>8, <1>9, <1>10, <1>11, <1>12 DEF Next

\* Utf8Converter.ToNative and FromNative: libgit2 sees every string of every
\* call up to its first NUL, and none with half a surrogate pair.
THEOREM StringsSurvive == Spec => []StringsArrive
<1>1. Init => StringsMade
  <2> SUFFICES ASSUME Init PROVE StringsMade
    OBVIOUS
  <2>1. BuffersAreOfCall /\ natives = <<>>
    BY DEF Init, BuffersAreOfCall
  <2> QED
    BY <2>1 DEF StringsMade, MadeOf
<1>2. ASSUME StringsMade PROVE StringsArrive
  <2> SUFFICES ASSUME NEW i \in DOMAIN natives
               PROVE  /\ FromNative(natives[i]) = IF args[i] = NoString THEN NoString
                                                  ELSE UpToNul(args[i])
                      /\ args[i] # NoString => WellFormed(args[i])
    BY DEF StringsArrive
  <2>1. natives[i] = ToNative(args[i]) /\ Accepts(args[i])
    BY <1>2 DEF StringsMade, MadeOf
  <2>2. args[i] \in Texts
    BY <1>2 DEF StringsMade, BuffersAreOfCall
  <2>3. CASE args[i] = NoString
    BY <2>1, <2>3 DEF ToNative, FromNative
  <2>4. CASE args[i] # NoString
    <3>1. args[i] \in Seq(Unit) /\ WellFormed(args[i])
      BY <2>1, <2>2, <2>4, InputsAssumption DEF Accepts
    <3> QED
      BY <2>1, <2>4, <3>1, TextArrives
  <2> QED
    BY <2>3, <2>4
<1> QED
  BY <1>1, <1>2, StringsMadePreserved, PTL DEF Spec

\* Utf8Converter: a valid name that libgit2 has returned is, given back to it,
\* the name of the same thing.
THEOREM NamesReturn == Spec => []NamesComeBack
<1>1. AnswersTheQuestion => NamesComeBack
  <2> SUFFICES ASSUME AnswersTheQuestion, asked.by = "string", asked.native # NoString,
                      ~Contains(asked.native, "bad")
               PROVE  ToNative(answer.yields) = asked.native
    BY DEF NamesComeBack
  <2>1. asked.native \in NativeStrings \ {NoString} /\ answer.yields = FromNative(asked.native)
    BY DEF AnswersTheQuestion, Yields
  <2>2. /\ asked.native \in Seq(Character \cup {"nul"}) /\ asked.native # <<>>
        /\ \A i \in DOMAIN asked.native : asked.native[i] = "nul" <=> i = Len(asked.native)
    BY <2>1, InputsAssumption
  <2> QED
    BY <2>1, <2>2, NativeComesBack
<1> QED
  BY <1>1, Answering, PTL
===============================================================================
