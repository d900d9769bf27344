----------------------------- MODULE MCCallShapes -----------------------------
EXTENDS CallShapes

\* Members that begin with NotDisposed and keep the wrapper alive to the end.
Disciplined == {NativeCall, LazyValue, ObjectIdOf, TreeIndexer, MoveNext}

\* These, and the members of RevisionSpec that test for null first.
KeptAliveShapes == Disciplined \cup {RevisionSpecFrom}
===============================================================================
