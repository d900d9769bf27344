---------------------------- MODULE MCForEachObject ----------------------------
EXTENDS ForEachObject

\* Two backends that share the object 2: libgit2 reports it twice.
SharedObject == <<1, 2, 2>>

\* ReadHeader of an object that is not there, and Repository.Open.
SomeCalls == [code : {"GIT_ENOTFOUND"}, map : {NoMap, exceptionMap}]
===============================================================================
