----------------------------- MODULE ForEachObject -----------------------------
(***************************************************************************)
(* ObjectDatabase.ForEachObject: a managed action called back from a       *)
(* native loop.  The callback turns the action's answer into a return code *)
(* for libgit2, and puts an exception aside in the local variable          *)
(* "caught", since it must not unwind through native frames; when the      *)
(* native loop is over, the return code and "caught" are turned back into  *)
(* a return or an exception.  The message of an exception for a failure of *)
(* libgit2 is that of the thread's last error, which actions share with    *)
(* the loop they are called from.                                          *)
(*                                                                         *)
(* The action is application code and may iterate the same database again, *)
(* so iterations nest: stack is the sequence of running iterations, the    *)
(* innermost last.  MaxDepth bounds the nesting.                           *)
(***************************************************************************)
EXTENDS Naturals, Sequences, SequencesExt, NativeErrors

CONSTANTS
  Objects,     \* the ids in the order in which libgit2 reports them
  Exceptions,  \* the exceptions that actions throw of their own
  Messages,    \* the messages that libgit2 sets
  LoopCodes,   \* the codes with which git_odb_foreach fails
  Calls,       \* calls of actions that fail: their codes and exception maps
  MaxDepth,    \* bound on nested iterations
  NoException

ASSUME ObjectsAssumption == Objects \in Seq(Nat)
ASSUME DepthAssumption == MaxDepth \in Nat \ {0}
\* GIT_EUSER is never generated by libgit2.
ASSUME CodesAssumption ==
  /\ NoMessage \notin Messages
  /\ LoopCodes \subseteq Codes \ {"GIT_EUSER"}
  /\ Calls \subseteq [code : Codes \ {"GIT_EUSER"}, map : {NoMap, exceptionMap}]

VARIABLES
  stack,   \* the running iterations
  report,  \* the iteration that ended last, and the exception it ended with
  last     \* libgit2's last error on this thread

vars == <<stack, report, last>>

\* What a call that fails says: a message, or nothing.
Said == Messages \cup {NoMessage}

\* No iteration has ended yet.
NoReport == [frame |-> <<>>, exception |-> NoException]

Init == stack = <<>> /\ report = NoReport /\ last = NoMessage

\* A frame of the stack.  phase: "native" in libgit2's loop, "action" in the
\* application's action, "returned" back from libgit2.  said: what a failed loop
\* said.  seen and answers: the ids the action was called with and its answers.
NewFrame == [phase |-> "native", next |-> 1, code |-> "GIT_OK", said |-> NoMessage,
             caught |-> NoException, seen |-> <<>>, answers |-> <<>>]

Depth == Len(stack)
Top == stack[Depth]
InPhase(p) == Depth > 0 /\ Top.phase = p
SetTop(f) == stack' = [stack EXCEPT ![Depth] = f]

\* A call of libgit2 fails and sets the thread's error, or not.
Fails(said) == last' = ErrorAfter(last, said)

ExceptionFor(code, map, error, said) ==
  [thrown |-> HandleNativeError(code, map, error),
   failure |-> [code |-> code, map |-> map, said |-> said]]

\* The exceptions that the library makes of failures.
Failures == {ExceptionFor(code, map, error, said) :
               code \in Codes, map \in {NoMap, exceptionMap}, error \in Said, said \in Said}

ASSUME ExceptionsAssumption == NoException \notin Exceptions \cup Failures

-------------------------------------------------------------------------------
\* The application, or an action, calls ForEachObject.
Enter ==
  /\ Depth < MaxDepth
  /\ Depth = 0 \/ InPhase("action")
  /\ stack' = Append(stack, NewFrame)
  /\ UNCHANGED <<report, last>>

\* libgit2 reports the next object; the callback invokes the action.
Invoke ==
  /\ InPhase("native") /\ Top.next <= Len(Objects)
  /\ SetTop([Top EXCEPT !.phase = "action", !.next = @ + 1,
                        !.seen = Append(@, Objects[Top.next])])
  /\ UNCHANGED <<report, last>>

\* The action returned true: the callback returns 0 and the loop goes on.
ActionContinues ==
  /\ InPhase("action")
  /\ SetTop([Top EXCEPT !.phase = "native", !.answers = Append(@, "continue")])
  /\ UNCHANGED <<report, last>>

\* The action returned false: GIT_EUSER ends the loop, for which libgit2 may
\* set its error.
ActionStops ==
  /\ InPhase("action")
  /\ SetTop([Top EXCEPT !.phase = "returned", !.code = "GIT_EUSER",
                        !.answers = Append(@, "stop")])
  /\ \E said \in Said : Fails(said)
  /\ UNCHANGED report

\* Mutant: the catch block of the callback falls into "return 0".
PutAsideContinues(e) ==
  SetTop([Top EXCEPT !.phase = "native", !.caught = e, !.answers = Append(@, "throw")])

\* The callback's catch block: the exception is put aside, GIT_EUSER ends the
\* loop.
PutAside(e) ==
  SetTop([Top EXCEPT !.phase = "returned", !.code = "GIT_EUSER", !.caught = e,
                     !.answers = Append(@, "throw")])

\* The action threw an exception of its own, or lets pass the one that another
\* iteration has ended with.
ActionThrows ==
  /\ InPhase("action")
  /\ \E e \in Exceptions \cup ({report.exception} \ {NoException}) : PutAside(e)
  /\ \E said \in Said : Fails(said)
  /\ UNCHANGED report

\* The action called the library, which threw for a failure of libgit2.
ActionFails(call, said) ==
  /\ InPhase("action")
  /\ PutAside(ExceptionFor(call.code, call.map, ErrorAfter(last, said), said))
  /\ Fails(said)
  /\ UNCHANGED report

\* A call of the application or of an action fails, and it handles the
\* exception.
HandledFailure(said) ==
  /\ Depth = 0 \/ InPhase("action")
  /\ Fails(said)
  /\ UNCHANGED <<stack, report>>

LoopEnds ==
  /\ InPhase("native") /\ Top.next > Len(Objects)
  /\ SetTop([Top EXCEPT !.phase = "returned"])
  /\ UNCHANGED <<report, last>>

\* A backend fails between two objects.
LoopFails(code, said) ==
  /\ InPhase("native")
  /\ SetTop([Top EXCEPT !.phase = "returned", !.code = code, !.said = said])
  /\ Fails(said)
  /\ UNCHANGED report

\* Mutant: GIT_EUSER always means that the action asked to stop.
OutcomeForgetsCaught(f) ==
  IF f.code \in {"GIT_OK", "GIT_EUSER"} THEN NoException
  ELSE ExceptionFor(f.code, NoMap, last, f.said)

\* Mutant: the failure of a call is put aside, and its exception made when the
\* loop is over.
OutcomeRereads(f) ==
  CASE f.code = "GIT_OK" -> NoException
    [] f.code = "GIT_EUSER" ->
         IF f.caught \in Exceptions \cup {NoException} THEN f.caught
         ELSE ExceptionFor(f.caught.failure.code, f.caught.failure.map, last,
                           f.caught.failure.said)
    [] OTHER -> ExceptionFor(f.code, NoMap, last, f.said)

\* The exception with which ForEachObject ends, if any.  GIT_EUSER means that
\* the callback ended the loop: rethrow what it put aside, or return.  Any other
\* negative code is an error of libgit2.
Outcome(f) ==
  CASE f.code = "GIT_EUSER" -> f.caught
    [] f.code = "GIT_OK"    -> NoException
    [] OTHER                -> ExceptionFor(f.code, NoMap, last, f.said)

\* ForEachObject returns or throws to its caller: the application, or the
\* action of the enclosing iteration, which goes on as it likes.
Exit ==
  /\ InPhase("returned")
  /\ report' = [frame |-> Top, exception |-> Outcome(Top)]
  /\ stack' = Front(stack)
  /\ UNCHANGED last

Next ==
  \/ Enter \/ Invoke
  \/ ActionContinues \/ ActionStops \/ ActionThrows
  \/ \E call \in Calls, said \in Said : ActionFails(call, said)
  \/ \E said \in Said : HandledFailure(said)
  \/ LoopEnds
  \/ \E code \in LoopCodes, said \in Said : LoopFails(code, said)
  \/ Exit

Spec == Init /\ [][Next]_vars

-------------------------------------------------------------------------------
Frames == ToSet(stack) \cup (IF report = NoReport THEN {} ELSE {report.frame})

\* The action is called with a prefix of the objects, each once and in order,
\* and never again after it has answered false or thrown.
CalledInOrder ==
  \A f \in Frames :
    /\ IsPrefix(f.seen, Objects)
    /\ \A i \in 1..Len(f.answers) : f.answers[i] # "continue" => i = Len(f.seen)

\* What the action did is what the caller of ForEachObject gets: the action's
\* own exception if it threw, a return if it stopped, and otherwise a return
\* only after every object was seen; nested iterations do not leak into this
\* (ObjectDatabase.cs:118-157).
OutcomeIsTheActions ==
  report # NoReport =>
    LET f == report.frame
        answered == ToSet(f.answers)
    IN /\ "throw" \in answered => report.exception = f.caught /\ f.caught # NoException
       /\ "stop" \in answered => report.exception = NoException
       /\ report.exception = NoException => "stop" \in answered \/ f.seen = Objects

\* However many iterations an exception for a failure of libgit2 has passed, and
\* whatever has failed since, it says what that failure has said, and it is a
\* RepositoryNotFoundException only if a repository was looked for (Ensure.cs
\* :307-340, Repository.cs:23-28).
ExceptionsTellTheirFailure ==
  \A x \in ({f.caught : f \in Frames} \cup {report.exception})
             \ (Exceptions \cup {NoException}) :
    /\ x.failure.said # NoMessage => x.thrown.message = x.failure.said
    /\ x.thrown.class = "RepositoryNotFoundException" <=>
         x.failure.code = "GIT_ENOTFOUND" /\ x.failure.map = exceptionMap
===============================================================================
