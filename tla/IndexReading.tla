------------------------------ MODULE IndexReading ------------------------------
(***************************************************************************)
(* Reading an Index: by position, by path and stage, and with enumerators  *)
(* (IndexEnumerator), several of which may be under way at a time.         *)
(*                                                                         *)
(* An enumerator's native iterator walks a snapshot; Dogged has no way to  *)
(* change an index, so the snapshot and the index are the same sequence.   *)
(***************************************************************************)
EXTENDS IndexEntries, Integers, Sequences, SequencesExt

CONSTANTS
  Indexes,      \* the native indexes looked at: sequences of native entries
  Enumerators,  \* the IndexEnumerators the application creates
  Paths,        \* the paths the application asks for
  Numbers       \* the numbers it gives to the constructor of IndexEntry

ASSUME NumbersAssumption == Numbers \subseteq Int

\* An index is a sequence of entries as libgit2 packs them.  It holds a path at
\* most once per level, and either at level 0 or in conflict.
ASSUME IndexesAssumption ==
  \A s \in Indexes :
    /\ s \in Seq(Range(s))
    /\ \A i \in 1..Len(s) : HoldsLevel(s[i])
    /\ \A i, j \in 1..Len(s) :
         s[i].path = s[j].path /\ i # j => 0 \notin {s[i].stage, s[j].stage}
                                           /\ s[i].stage # s[j].stage

VARIABLES
  index,     \* the native entries, in libgit2's order
  cursor,    \* cursor[e]: the entries that e's native iterator has passed
  current,   \* current[e]: the entry that Current yields
  moves,     \* moves[e]: what e's MoveNext has decoded, an entry or Refused
  ended,     \* ended[e]: MoveNext has returned false
  asked,     \* the last question to the index, or call of the constructor
  answer     \* what it yielded: an entry, Missing or Refused

readingVars == <<index, cursor, current, moves, ended, asked, answer>>

ReadingInit ==
  /\ index \in Indexes
  /\ cursor = [e \in Enumerators |-> 0]
  /\ current = [e \in Enumerators |-> Null]
  /\ moves = [e \in Enumerators |-> <<>>]
  /\ ended = [e \in Enumerators |-> FALSE]
  /\ asked = [by |-> "nothing"]
  /\ answer = Null

-------------------------------------------------------------------------------
\* Mutant: the decoded entry becomes Current also when decoding threw.
ReadRefused(e, entry) ==
  /\ moves' = [moves EXCEPT ![e] = Append(@, entry)]
  /\ current' = [current EXCEPT ![e] = IF entry = Refused THEN Null ELSE entry]

\* "current = IndexEntry.FromNative(entry)", which may throw.
Read(e, entry) ==
  /\ moves' = [moves EXCEPT ![e] = Append(@, entry)]
  /\ current' = [current EXCEPT ![e] = IF entry = Refused THEN @ ELSE entry]

\* MoveNext while libgit2 has another entry: its iterator has moved on before
\* the entry is decoded.
MoveNext(e) ==
  /\ cursor[e] < Len(index)
  /\ cursor' = [cursor EXCEPT ![e] = @ + 1]
  /\ Read(e, FromNative(index[cursor[e] + 1]))
  /\ UNCHANGED <<index, ended, asked, answer>>

\* Mutant: the end is taken to be one entry early.
MoveNextOverEarly(e) ==
  /\ cursor[e] + 1 >= Len(index)
  /\ ended' = [ended EXCEPT ![e] = TRUE]
  /\ UNCHANGED <<index, cursor, current, moves, asked, answer>>

\* GIT_ITEROVER: MoveNext returns false, and Current stays.
MoveNextOver(e) ==
  /\ cursor[e] = Len(index)
  /\ ended' = [ended EXCEPT ![e] = TRUE]
  /\ UNCHANGED <<index, cursor, current, moves, asked, answer>>

\* Index[position]: a negative position is an ArgumentException; NULL from
\* libgit2, beyond the end, is an IndexOutOfRangeException.
GetByPosition(p) ==
  /\ asked' = [by |-> "position", position |-> p]
  /\ answer' = CASE p < 0 -> Refused
                 [] p >= Len(index) -> Missing
                 [] OTHER -> FromNative(index[p + 1])
  /\ UNCHANGED <<index, cursor, current, moves, ended>>

Filed(path, stage) ==
  {i \in 1..Len(index) : index[i].path = path /\ index[i].stage = stage}

\* Index[path, stage], and Index[path] with stage 0: the same for NULL.
GetByPath(path, stage) ==
  /\ asked' = [by |-> "path", path |-> path, stage |-> stage]
  /\ answer' = IF Filed(path, stage) = {} THEN Missing
               ELSE FromNative(index[CHOOSE i \in Filed(path, stage) : TRUE])
  /\ UNCHANGED <<index, cursor, current, moves, ended>>

\* The application makes an entry of its own.
Construct(device, inode, userId) ==
  /\ asked' = [by |-> "constructor"]
  /\ answer' = IndexEntry("own", "normal", Main, {}, device, inode, userId)
  /\ UNCHANGED <<index, cursor, current, moves, ended>>

ReadingNext ==
  \/ \E e \in Enumerators : MoveNext(e) \/ MoveNextOver(e)
  \/ \E p \in -1..Len(index) : GetByPosition(p)
  \/ \E path \in Paths, stage \in Levels : GetByPath(path, stage)
  \/ \E d, i, u \in Numbers : Construct(d, i, u)

ReadingSpec == ReadingInit /\ [][ReadingNext]_readingVars

-------------------------------------------------------------------------------
\* The entries the application has got hold of.
Entries == {x \in UNION {ToSet(moves[e]) : e \in Enumerators} \cup {answer} : IsEntry(x)}

\* An enumerator passes over nothing, also when an entry cannot be decoded and
\* the application carries on after the exception: it has ended only when
\* every entry was either read or thrown on.
NothingSkipped ==
  \A e \in Enumerators : ended[e] => Len(moves[e]) = Len(index)

\* Current is the entry of the last MoveNext that returned true, no matter
\* what the later ones did.
CurrentIsLastRead ==
  \A e \in Enumerators :
    LET read == {i \in DOMAIN moves[e] : moves[e][i] # Refused}
    IN  IF read = {} THEN current[e] = Null
        ELSE \E i \in read : /\ current[e] = moves[e][i]
                             /\ \A j \in read : j <= i

\* The entry found under a path and a stage says that it has this path and
\* this stage, whatever else is in the word that holds the stage.
FoundWhereAsked ==
  IsEntry(answer) /\ asked.by = "path" =>
    answer.path = asked.path /\ answer.stage = asked.stage

\* IndexEntry.Equals takes entries for the same exactly when they come from the
\* same place in the index, no matter which enumerator has read them: the sides
\* of a conflict do not merge in a dictionary (IndexEntry.cs:162-174).
EqualMeansSamePlace ==
  \A e, f \in Enumerators : \A i \in DOMAIN moves[e], j \in DOMAIN moves[f] :
    IsEntry(moves[e][i]) /\ IsEntry(moves[f][j]) =>
      (SameEntry(moves[e][i], moves[f][j]) <=> i = j)

\* "Flags for the index entry" (IndexEntry.cs:31): an entry has the flags
\* that libgit2 has for it.
FlagsAreKept ==
  \A x \in Entries : x.path # "own" => \E i \in 1..Len(index) :
    /\ index[i].path = x.path /\ index[i].id = x.id
    /\ x.flags = FlagsOf(index[i])

\* IndexEntryStage.cs:17-30: Ours is the "ours" side of a conflict, Theirs the
\* "theirs" side and Ancestor the common ancestor.
StagesNameTheSides ==
  \A x \in Entries : /\ x.stage = Ours => x.id = "ours"
                     /\ x.stage = Theirs => x.id = "theirs"
                     /\ x.stage = Ancestor => x.id = "ancestor"

\* Both: an entry shows what libgit2 has stored.
EntriesShowWhatIsStored == FlagsAreKept /\ StagesNameTheSides
===============================================================================
