------------------------------ MODULE NativeErrors ------------------------------
(***************************************************************************)
(* How Ensure turns a failed call of libgit2 into an exception: its class  *)
(* by the return code, its message from the error that libgit2 keeps for   *)
(* the thread.  Not every function that fails sets that error, and none    *)
(* has to clear it.                                                        *)
(***************************************************************************)
NoMessage == "no message"

\* The codes with an exception of their own.  GIT_ERROR stands for the others.
defaultExceptions ==
  [GIT_EUSER           |-> "UserCancelledException",
   GIT_EBAREREPO       |-> "BareRepositoryException",
   GIT_EEXISTS         |-> "ItemExistsException",
   GIT_EINVALIDSPEC    |-> "InvalidSpecificationException",
   GIT_EUNMERGED       |-> "UnmergedIndexEntriesException",
   GIT_ENONFASTFORWARD |-> "NonFastForwardException",
   GIT_ECONFLICT       |-> "CheckoutConflictException",
   GIT_ELOCKED         |-> "LockedFileException",
   GIT_ENOTFOUND       |-> "NotFoundException",
   GIT_EPEEL           |-> "CannotBePeeledException"]

Codes == DOMAIN defaultExceptions \cup {"GIT_ERROR"}

\* customExceptions = null, and the map of Repository.Open and Discover.
NoMap == <<>>
exceptionMap == [GIT_ENOTFOUND |-> "RepositoryNotFoundException"]

Classes == {"DoggedException", "RepositoryNotFoundException"}
             \cup {defaultExceptions[c] : c \in DOMAIN defaultExceptions}

\* libgit2's error after a call that has set this message, or none.
ErrorAfter(last, said) == IF said = NoMessage THEN last ELSE said

GetNativeErrorMessage(last) ==
  IF last = NoMessage THEN "Unknown error in libgit2" ELSE last

ExceptionClass(code, customExceptions) ==
  IF code \in DOMAIN customExceptions THEN customExceptions[code]
  ELSE IF code \in DOMAIN defaultExceptions THEN defaultExceptions[code]
  ELSE "DoggedException"

\* What is thrown for a failure of this code when last is libgit2's error.
HandleNativeError(code, customExceptions, last) ==
  [class |-> ExceptionClass(code, customExceptions),
   message |-> GetNativeErrorMessage(last)]
===============================================================================
