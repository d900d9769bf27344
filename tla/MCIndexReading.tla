----------------------------- MODULE MCIndexReading -----------------------------
EXTENDS IndexReading

Plain(path, dev) == Pack(path, 0, {}, dev)
Marked == Pack("b", 0, {"Valid", "SkipWorktree"}, 1)
Conflict == <<Pack("c", 1, {"Valid"}, 0), Pack("c", 2, {}, 0), Pack("c", 3, {"IntentToAdd"}, 0)>>

\* Device numbers that an int cannot hold before and after one that it can,
\* flags, and a conflict.
SomeIndexes ==
  {<<>>, <<Plain("a", IntMax), Marked>>,
   <<Plain("a", IntMax + 1), Marked, Plain("c", UIntMax)>>,
   Conflict, <<Plain("a", 0)>> \o Conflict}

\* The common ancestor in a conflict, with a flag.
OneIndex == {<<Pack("c", 1, {"Valid"}, 0)>>}

\* The bounds of a uint, and beyond.
SomeNumbers == {-1, 0, UIntMax, UIntMax + 1}

SomePaths == {"a", "b", "c", "x"}
===============================================================================
