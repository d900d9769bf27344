------------------------------- MODULE Utf8Strings -------------------------------
(***************************************************************************)
(* Utf8Converter and Utf8Marshaler: managed strings to NUL terminated      *)
(* UTF-8 and back.                                                         *)
(*                                                                         *)
(* A managed string is a sequence of UTF-16 code units: "x" stands for one *)
(* that is a character by itself, "high" and "low" for the halves of a     *)
(* surrogate pair, "fffd" for the replacement character, "nul" for U+0000. *)
(* A native string is what its bytes spell, one element per character,     *)
(* "pair" for one beyond the BMP, and "bad" for a byte that spells none.   *)
(***************************************************************************)
EXTENDS Integers, Sequences, SequencesExt

Unit == {"x", "high", "low", "fffd", "nul"}
Character == {"x", "pair", "fffd", "bad"}

\* null, and NULL.
NoString == <<"null">>

WellFormed(text) ==
  /\ \A i \in DOMAIN text :
       text[i] = "high" <=> i < Len(text) /\ text[i + 1] = "low"
  /\ text # <<>> => text[1] # "low"

\* A character for each unit but the second of a pair.
Spelling(unit) == CASE unit = "high" -> <<"pair">>
                    [] unit = "low"  -> <<>>
                    [] OTHER         -> <<unit>>

\* What GetBytes writes.
Bytes(text) == FlattenSeq([i \in DOMAIN text |-> Spelling(text[i])])

\* Mutant: an encoder that replaces what it cannot encode.
AcceptsAnything(text) == TRUE

\* toNativeEncoding is strict: GetByteCount throws before anything has been
\* allocated.
Accepts(text) == text = NoString \/ WellFormed(text)

\* The buffer of length + 1 bytes.
ToNative(text) == IF text = NoString THEN NoString ELSE Append(Bytes(text), "nul")

UpToNul(s) ==
  LET end == CHOOSE n \in 0..Len(s) :
               /\ \A i \in 1..n : s[i] # "nul"
               /\ n < Len(s) => s[n + 1] = "nul"
  IN  SubSeq(s, 1, end)

\* Mutant: one unit per character, and a replacement for what needs two.
FromNativeNarrow(native) ==
  LET chars == UpToNul(native)
  IN IF native = NoString THEN NoString
     ELSE [i \in DOMAIN chars |-> IF chars[i] \in {"pair", "bad"} THEN "fffd" ELSE chars[i]]

\* fromNativeEncoding replaces what it cannot decode.
Decoding(char) == CASE char = "pair" -> <<"high", "low">>
                    [] char = "bad"  -> <<"fffd">>
                    [] OTHER         -> <<char>>

\* The units that the characters before the first NUL decode to.
FromNative(native) ==
  LET chars == UpToNul(native)
  IN IF native = NoString THEN NoString
     ELSE FlattenSeq([i \in DOMAIN chars |-> Decoding(chars[i])])

\* CleanUpNativeData frees arguments, never what libgit2 has returned.
CleansUp(cookie) == cookie = "ToNative"
===============================================================================
