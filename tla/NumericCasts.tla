------------------------------ MODULE NumericCasts ------------------------------
(***************************************************************************)
(* The checked casts of Ensure.  An int and a uint have 32 bits; a long, a *)
(* ulong and, on the 64 bit systems that the library is built for, a       *)
(* UIntPtr have 64.  The ranges are constants.  A C# cast keeps the low    *)
(* bits of a value, so that it is the test before it that matters.         *)
(***************************************************************************)
EXTENDS Integers

CONSTANTS
  IntRange,   \* how many values an int, or a uint, can have: 2^32
  LongRange   \* and a long: 2^64

ASSUME RangesAssumption ==
  /\ IntRange \in Nat /\ IntRange > 0 /\ IntRange % 2 = 0
  /\ LongRange \in Nat /\ LongRange % 2 = 0 /\ 2 * IntRange <= LongRange

IntMin == -(IntRange \div 2)
IntMax == (IntRange \div 2) - 1
UIntMax == IntRange - 1
LongMin == -(LongRange \div 2)
LongMax == (LongRange \div 2) - 1
ULongMax == LongRange - 1

Casts == {"long to int", "ulong to int", "UIntPtr to int",
          "UIntPtr to long", "long to uint", "long to UIntPtr"}

\* The values that a cast takes, and those that its result can hold.
Source(cast) ==
  IF cast \in {"long to int", "long to uint", "long to UIntPtr"}
  THEN LongMin..LongMax ELSE 0..ULongMax

Target(cast) ==
  CASE cast = "UIntPtr to long" -> LongMin..LongMax
    [] cast = "long to uint"    -> 0..UIntMax
    [] cast = "long to UIntPtr" -> 0..ULongMax
    [] OTHER                    -> IntMin..IntMax

\* The value that the low bits of v spell.
LowBits(cast, v) ==
  CASE cast = "UIntPtr to long" -> ((v - LongMin) % LongRange) + LongMin
    [] cast = "long to uint"    -> v % IntRange
    [] cast = "long to UIntPtr" -> v % LongRange
    [] OTHER                    -> ((v - IntMin) % IntRange) + IntMin

\* Mutant: uint without its upper bound.
RefusesNegative(cast, v) ==
  CASE cast = "long to int"     -> v < IntMin \/ v > IntMax
    [] cast = "UIntPtr to long" -> v > LongMax
    [] cast = "long to uint"    -> v < 0
    [] cast = "long to UIntPtr" -> v < 0
    [] OTHER                    -> v > IntMax

\* InvalidCastException.
Refuses(cast, v) ==
  CASE cast = "long to int"     -> v < IntMin \/ v > IntMax
    [] cast = "UIntPtr to long" -> v > LongMax
    [] cast = "long to uint"    -> v < 0 \/ v > UIntMax
    [] cast = "long to UIntPtr" -> v < 0
    [] OTHER                    -> v > IntMax
===============================================================================
