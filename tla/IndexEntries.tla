------------------------------ MODULE IndexEntries ------------------------------
(***************************************************************************)
(* IndexEntry: how an entry of the native index becomes a managed one.     *)
(*                                                                         *)
(* A native entry is what FromNative looks at of a git_index_entry: path,  *)
(* id, numbers and the two flag words, which are numbers with libgit2's    *)
(* bits.  id stands for the contents: "normal", or the side of a conflict  *)
(* that they come from.  stage is the level under which libgit2 has filed  *)
(* the entry.  Device, inode and user id stand for the five numbers: group *)
(* id and file size are treated as the user id is.  Times are left out.    *)
(***************************************************************************)
EXTENDS Integers

CONSTANT IntMax      \* int.MaxValue, scaled down

ASSUME IntMaxAssumption == IntMax \in Nat

UIntMax == 2 * IntMax + 1

Levels == 0..3

Flags == {"Valid", "IntentToAdd", "SkipWorktree"}

\* IndexEntryStage
Main == 0
Ours == 1
Theirs == 2
Ancestor == 3

\* libgit2 files the sides of a conflict under the levels 1, 2 and 3.
Sides == <<"ancestor", "ours", "theirs">>

GIT_INDEX_ENTRY_STAGE1 == 4096           \* 1 << GIT_INDEX_ENTRY_STAGESHIFT
GIT_INDEX_ENTRY_EXTENDED == 16384
GIT_INDEX_ENTRY_VALID == 32768
GIT_INDEX_ENTRY_INTENT_TO_ADD == 8192    \* in the other word
GIT_INDEX_ENTRY_SKIP_WORKTREE == 16384

\* The word that libgit2 makes of the length of a path, a level and flags.
FlagWord(length, level, flags) ==
  length + level * GIT_INDEX_ENTRY_STAGE1
    + (IF flags \cap {"IntentToAdd", "SkipWorktree"} # {} THEN GIT_INDEX_ENTRY_EXTENDED ELSE 0)
    + (IF "Valid" \in flags THEN GIT_INDEX_ENTRY_VALID ELSE 0)

\* An entry as libgit2 packs it, with a path of length 1.
Pack(path, level, flags, dev) ==
  [path |-> path,
   id |-> IF level = 0 THEN "normal" ELSE Sides[level],
   stage |-> level,
   dev |-> dev, ino |-> 0, uid |-> 0,
   flags |-> FlagWord(1, level, flags),
   extended_flags |->
     (IF "IntentToAdd" \in flags THEN GIT_INDEX_ENTRY_INTENT_TO_ADD ELSE 0)
       + (IF "SkipWorktree" \in flags THEN GIT_INDEX_ENTRY_SKIP_WORKTREE ELSE 0)]

\* A word holds the length of a path in twelve bits.
PathLengths == 0..GIT_INDEX_ENTRY_STAGE1 - 1

\* What libgit2 puts into the word: the level under which it has filed the
\* entry, besides a length and flags.
HoldsLevel(native) ==
  /\ native.stage \in Levels
  /\ \E length \in PathLengths, flags \in SUBSET Flags :
       native.flags = FlagWord(length, native.stage, flags)

HasBit(word, mask) == (word \div mask) % 2 = 1

\* (flags & GIT_INDEX_ENTRY_STAGEMASK) >> GIT_INDEX_ENTRY_STAGESHIFT
StageOf(native) == (native.flags \div GIT_INDEX_ENTRY_STAGE1) % 4

FlagsOf(native) ==
  {f \in Flags :
     \/ f = "Valid" /\ HasBit(native.flags, GIT_INDEX_ENTRY_VALID)
     \/ f = "IntentToAdd" /\ HasBit(native.extended_flags, GIT_INDEX_ENTRY_INTENT_TO_ADD)
     \/ f = "SkipWorktree" /\ HasBit(native.extended_flags, GIT_INDEX_ENTRY_SKIP_WORKTREE)}

\* What there is in place of an entry: nothing yet, libgit2's NULL, or an
\* exception while decoding one.
NoEntry(why) == [why |-> why]
Null == NoEntry("null")
Missing == NoEntry("missing")
Refused == NoEntry("refused")

IsEntry(x) == x.why = "entry"

\* Mutant: equality by path alone.
ContributorsPath(x) == <<x.path>>

\* What EqualityHelper compares, and makes the hash code of; the mode, which
\* is left out, is one more.
Contributors(x) == <<x.path, x.id, x.stage>>

\* IndexEntry.Equals
SameEntry(x, y) == Contributors(x) = Contributors(y)

\* Ensure.CastToUInt does not throw.
FitsUInt(n) == 0 <= n /\ n <= UIntMax

\* The constructor.  It casts device, and inode in place of user id, group id
\* and file size.  The argument flags is not used: Flags = new
\* IndexEntryFlags().
IndexEntry(path, id, stage, flags, device, inode, userId) ==
  IF FitsUInt(device) /\ FitsUInt(inode)
  THEN [why |-> "entry", path |-> path, id |-> id, stage |-> stage,
        flags |-> {}, device |-> device, inode |-> inode, userId |-> userId]
  ELSE Refused

\* Mutant: the stage is left to the constructor's default.
FromNativeMain(native) ==
  IF native.dev > IntMax
  THEN Refused
  ELSE IndexEntry(native.path, native.id, Main, FlagsOf(native),
                  native.dev, native.ino, native.uid)

\* FromNative throws for a device number beyond int.MaxValue.
FromNative(native) ==
  IF native.dev > IntMax
  THEN Refused
  ELSE IndexEntry(native.path, native.id, StageOf(native), FlagsOf(native),
                  native.dev, native.ino, native.uid)
===============================================================================
