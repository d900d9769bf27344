------------------------------- MODULE Conversions -------------------------------
(***************************************************************************)
(* What crosses the border between the application and libgit2 by value:   *)
(* object ids, numbers, and strings.  Ids and numbers are converted at     *)
(* once.  The strings of a native call are converted one by one, into      *)
(* buffers that have to be freed when the call is over, or when one of the *)
(* later strings cannot be converted.                                      *)
(***************************************************************************)
EXTENDS ObjectIds, NumericCasts, Utf8Strings

CONSTANTS
  HexTexts,      \* the texts from which the application makes ids
  SomeIds,       \* the ids that it compares
  Numbers,       \* the numbers that are cast
  Texts,         \* the strings that it gives to libgit2, NoString among them
  NativeStrings, \* the strings that libgit2 returns
  MaxArguments   \* how many strings a native function takes: 2 for git_clone

ASSUME InputsAssumption ==
  /\ \A hex \in HexTexts : hex \in Seq(CodeUnit)
  /\ SomeIds \subseteq Ids
  /\ Numbers \subseteq Int
  /\ MaxArguments \in Nat
  /\ Texts \subseteq Seq(Unit) \cup {NoString}
  \* A native string ends with its first NUL.
  /\ \A native \in NativeStrings \ {NoString} :
       /\ native \in Seq(Character \cup {"nul"}) /\ native # <<>>
       /\ \A i \in DOMAIN native : native[i] = "nul" <=> i = Len(native)

VARIABLES
  asked,     \* the last conversion by itself
  answer,    \* what it has yielded
  args,      \* the strings of the native call under way
  natives,   \* what has been made of them so far
  thrown,    \* the next one could not be converted
  buffers    \* the allocated buffers: of argument i, or 0, libgit2's own

vars == <<asked, answer, args, natives, thrown, buffers>>

Init ==
  /\ asked = [by |-> "nothing"] /\ answer = Yields(FALSE)
  /\ args = <<>> /\ natives = <<>> /\ thrown = FALSE
  /\ buffers = {0}

-------------------------------------------------------------------------------
Idle == asked.by = "nothing" /\ args = <<>>

Convert(question, result) ==
  /\ Idle
  /\ asked' = question
  /\ answer' = result
  /\ UNCHANGED <<args, natives, thrown, buffers>>

MakeId(hex) == Convert([by |-> "id", hex |-> hex], NewObjectId(hex))

Compare(id, other) ==
  Convert([by |-> "equals", id |-> id, other |-> other], Yields(Equals(id, other)))

Cast(cast, v) ==
  /\ v \in Source(cast)
  /\ Convert([by |-> "cast", cast |-> cast, value |-> v],
             IF Refuses(cast, v) THEN Throws("InvalidCastException")
                                 ELSE Yields(LowBits(cast, v)))

\* A native function has returned a string of libgit2's.
ReturnString(native) ==
  /\ Idle
  /\ asked' = [by |-> "string", native |-> native]
  /\ answer' = Yields(FromNative(native))
  /\ buffers' = IF CleansUp("FromNative") THEN buffers \ {0} ELSE buffers
  /\ UNCHANGED <<args, natives, thrown>>

\* The application has looked at the answer.
Use ==
  /\ asked.by # "nothing"
  /\ asked' = [by |-> "nothing"] /\ answer' = Yields(FALSE)
  /\ UNCHANGED <<args, natives, thrown, buffers>>

\* A native function is called with these strings.
BeginCall(texts) ==
  /\ Idle
  /\ args' = texts
  /\ UNCHANGED <<asked, answer, natives, thrown, buffers>>

Marshalled == Len(natives) = Len(args)

\* Mutant: the buffer is allocated before the text is looked at.
MarshalNextEagerly ==
  /\ ~Marshalled /\ ~thrown
  /\ LET i == Len(natives) + 1 IN
       IF Accepts(args[i])
       THEN /\ natives' = Append(natives, ToNative(args[i]))
            /\ buffers' = IF args[i] = NoString THEN buffers ELSE buffers \cup {i}
            /\ UNCHANGED thrown
       ELSE /\ thrown' = TRUE
            /\ buffers' = buffers \cup {i}
            /\ UNCHANGED natives
  /\ UNCHANGED <<asked, answer, args>>

\* MarshalManagedToNative for the next argument.
MarshalNext ==
  /\ ~Marshalled /\ ~thrown
  /\ LET i == Len(natives) + 1 IN
       IF Accepts(args[i])
       THEN /\ natives' = Append(natives, ToNative(args[i]))
            /\ buffers' = IF args[i] = NoString THEN buffers ELSE buffers \cup {i}
            /\ UNCHANGED thrown
       ELSE thrown' = TRUE /\ UNCHANGED <<natives, buffers>>
  /\ UNCHANGED <<asked, answer, args>>

\* The native function has returned, or is not called at all: the runtime has
\* every pointer that was made cleaned up, and the call is over.
EndCall ==
  /\ args # <<>>
  /\ Marshalled \/ thrown
  /\ buffers' = IF CleansUp("ToNative") THEN buffers \ (1..Len(natives)) ELSE buffers
  /\ args' = <<>> /\ natives' = <<>> /\ thrown' = FALSE
  /\ UNCHANGED <<asked, answer>>

Next ==
  \/ \E hex \in HexTexts : MakeId(hex)
  \/ \E id, other \in SomeIds : Compare(id, other)
  \/ \E cast \in Casts, v \in Numbers : Cast(cast, v)
  \/ \E native \in NativeStrings : ReturnString(native)
  \/ \E n \in 1..MaxArguments : \E texts \in [1..n -> Texts] : BeginCall(texts)
  \/ Use
  \/ MarshalNext
  \/ EndCall

Spec == Init /\ [][Next]_vars

-------------------------------------------------------------------------------
\* new ObjectId(hex) takes 40 hexadecimal digits and nothing else (ObjectId.cs
\* :56-77); the id it makes has the value that they spell, and its own spelling
\* is the same in lower case and makes the same id again.
IdsKeepTheirText ==
  asked.by = "id" =>
    IF IsHex(asked.hex)
    THEN /\ "yields" \in DOMAIN answer
         /\ Spells(asked.hex, answer.yields)
         /\ ToHexString(answer.yields) = [i \in 1..HexSize |-> Lower(asked.hex[i])]
         /\ NewObjectId(ToHexString(answer.yields)) = answer
    ELSE "throws" \in DOMAIN answer

\* The comparison in blocks of 8 and 4 bytes (ObjectId.cs:150-164) overlooks no
\* byte: ids are equal exactly when they are the same, which the hash code
\* respects.
EqualIdsAreSame ==
  asked.by = "equals" =>
    /\ answer.yields <=> asked.id = asked.other
    /\ answer.yields => HashCode(asked.id) = HashCode(asked.other)

\* A checked cast (Ensure.cs:72-175) throws exactly when the result type
\* cannot hold the value, and leaves the others as they are.
CastsKeepValues ==
  asked.by = "cast" =>
    IF asked.value \in Target(asked.cast)
    THEN answer = Yields(asked.value)
    ELSE answer = Throws("InvalidCastException")

\* libgit2 sees the string that the application has given, up to the first
\* NUL, and never half a surrogate pair (Utf8Converter.cs:16-20).
StringsArrive ==
  \A i \in DOMAIN natives :
    /\ FromNative(natives[i]) = IF args[i] = NoString THEN NoString ELSE UpToNul(args[i])
    /\ args[i] # NoString => WellFormed(args[i])

\* A name that libgit2 has returned, and that is valid UTF-8, can be given back
\* to find the same thing again (Tree.cs:88-92, ReferenceCollection.cs:27-31).
NamesComeBack ==
  asked.by = "string" /\ asked.native # NoString /\ ~Contains(asked.native, "bad") =>
    ToNative(answer.yields) = asked.native

\* The buffers of a call do not outlive it, whatever has become of the other
\* arguments, and what belongs to libgit2 is not freed (Utf8Marshaler.cs:88-94).
BuffersFreedOnce ==
  0 \in buffers /\ (Idle => buffers = {0})
===============================================================================
