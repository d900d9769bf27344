----------------------------- MODULE Readings_proofs -----------------------------
(***************************************************************************)
(* Proofs about the two ways in which a repository is read one thing after *)
(* another: ForEachObject, for any objects, actions, failures and depth of *)
(* nesting, and IndexReading, for any indexes and enumerators.             *)
(***************************************************************************)
EXTENDS ForEachObject, IndexReading, SequenceTheorems, TLAPS

\* Exceptions that say what their failure has said.
Told == {ExceptionFor(code, map, ErrorAfter(error, said), said) :
           code \in Codes, map \in {NoMap, exceptionMap}, error \in Said, said \in Said}

Caught == Exceptions \cup Told \cup {NoException}

Frame == [phase : {"native", "action", "returned"}, next : Nat,
          code : {"GIT_OK", "GIT_EUSER"} \cup LoopCodes, said : Said, caught : Caught,
          seen : Seq(Nat), answers : Seq({"continue", "stop", "throw"})]

\* What an iteration has seen and been answered: every object up to next, and
\* nothing but "continue", unless the last answer has ended the loop.
FrameInv(f) ==
  /\ f.next \in 1..Len(Objects) + 1
  /\ Len(f.seen) = f.next - 1 /\ \A i \in 1..Len(f.seen) : f.seen[i] = Objects[i]
  /\ Len(f.answers) = IF f.phase = "action" THEN f.next - 2 ELSE f.next - 1
  /\ \A i \in 1..Len(f.answers) :
       f.answers[i] # "continue" => i = Len(f.answers) /\ f.code = "GIT_EUSER"
  /\ f.code = "GIT_EUSER" =>
       /\ Len(f.answers) > 0
       /\ f.answers[Len(f.answers)] = IF f.caught = NoException THEN "stop" ELSE "throw"
  /\ f.code # "GIT_EUSER" => f.caught = NoException
  /\ f.phase # "returned" => f.code = "GIT_OK" /\ f.said = NoMessage
  /\ f.phase = "returned" /\ f.code = "GIT_OK" => f.next = Len(Objects) + 1

StackInv ==
  /\ stack \in Seq(Frame)
  /\ \A i \in 1..Len(stack) : FrameInv(stack[i]) /\ (i < Len(stack) => stack[i].phase = "action")
  /\ InPhase("returned") /\ Top.said # NoMessage => last = Top.said
  /\ last \in Said

\* The iteration that ended last has ended as its frame says.
ReportInv ==
  /\ report.exception \in Caught
  /\ report # NoReport =>
       /\ report.frame \in Frame /\ FrameInv(report.frame) /\ report.frame.phase = "returned"
       /\ report.frame.code = "GIT_EUSER" => report.exception = report.frame.caught
       /\ report.frame.code = "GIT_OK" => report.exception = NoException
       /\ report.frame.code \in LoopCodes => report.exception # NoException

IterationInv == StackInv /\ ReportInv
-------------------------------------------------------------------------------
\* The error of the thread after a failure is what the failure has said, if it
\* has said something.
LEMMA Says ==
  ASSUME NEW error \in Said, NEW said \in Said
  PROVE  /\ ErrorAfter(error, said) \in Said
         /\ said # NoMessage => ErrorAfter(error, said) = said
BY DEF ErrorAfter

LEMMA MessageOf ==
  ASSUME NEW error, error # NoMessage
  PROVE  GetNativeErrorMessage(error) = error
BY Zenon DEF GetNativeErrorMessage

\* Only one map and one code make a RepositoryNotFoundException.
LEMMA ClassOf ==
  ASSUME NEW code \in Codes, NEW map \in {NoMap, exceptionMap}
  PROVE  ExceptionClass(code, map) = "RepositoryNotFoundException"
           <=> code = "GIT_ENOTFOUND" /\ map = exceptionMap
<1>1. DOMAIN NoMap = {} /\ DOMAIN exceptionMap = {"GIT_ENOTFOUND"}
  BY DEF NoMap, exceptionMap
<1>2. exceptionMap # NoMap
  BY <1>1
<1>3. CASE map = exceptionMap /\ code = "GIT_ENOTFOUND"
  BY <1>1, <1>3 DEF ExceptionClass, exceptionMap
<1>4. CASE ~(map = exceptionMap /\ code = "GIT_ENOTFOUND")
  <2>1. code \notin DOMAIN map
    BY <1>1, <1>4
  <2> QED
    BY <1>2, <1>4, <2>1 DEF ExceptionClass, Codes, defaultExceptions
<1> QED
  BY <1>3, <1>4

LEMMA ToldTell ==
  ASSUME NEW x \in Told
  PROVE  /\ x.failure.said # NoMessage => x.thrown.message = x.failure.said
         /\ x.thrown.class = "RepositoryNotFoundException" <=>
              x.failure.code = "GIT_ENOTFOUND" /\ x.failure.map = exceptionMap
<1>1. PICK code \in Codes, map \in {NoMap, exceptionMap}, error \in Said, said \in Said :
        x = ExceptionFor(code, map, ErrorAfter(error, said), said)
  BY DEF Told
<1>2. /\ x.failure.said = said /\ x.failure.code = code /\ x.failure.map = map
      /\ x.thrown.class = ExceptionClass(code, map)
      /\ x.thrown.message = GetNativeErrorMessage(ErrorAfter(error, said))
  BY <1>1 DEF ExceptionFor, HandleNativeError
<1>3. said # NoMessage => GetNativeErrorMessage(ErrorAfter(error, said)) = said
  BY Says, MessageOf
<1> QED
  BY <1>2, <1>3, ClassOf

\* No exception is taken for none.
LEMMA SomeException ==
  ASSUME NEW x \in Exceptions \cup Told
  PROVE  x # NoException
<1>1. Told \subseteq Failures
  BY Says DEF Told, Failures
<1> QED
  BY <1>1, ExceptionsAssumption

LEMMA NoLoopCode == LoopCodes \subseteq Codes /\ {"GIT_OK", "GIT_EUSER"} \cap LoopCodes = {}
BY CodesAssumption DEF Codes, defaultExceptions

-------------------------------------------------------------------------------
\* The top of the stack, and the stack with another top.
LEMMA TopFacts ==
  ASSUME StackInv, Depth > 0
  PROVE  Depth \in 1..Len(stack) /\ Top \in Frame /\ FrameInv(Top)
<1>1. Len(stack) \in Nat
  BY LenProperties DEF StackInv
<1>2. Depth \in 1..Len(stack)
  BY <1>1 DEF Depth
<1> QED
  BY <1>2, ElementOfSeq DEF StackInv, Top

LEMMA NewTop ==
  ASSUME StackInv, Depth > 0, NEW f \in Frame, FrameInv(f), SetTop(f),
         last' \in Said, f.phase = "returned" /\ f.said # NoMessage => last' = f.said
  PROVE  StackInv'
<1>1. Len(stack) \in Nat /\ Depth \in 1..Len(stack) /\ Depth = Len(stack)
  BY TopFacts, LenProperties DEF StackInv, Depth
<1>2. /\ stack' \in Seq(Frame) /\ Len(stack') = Len(stack)
      /\ \A i \in 1..Len(stack) : stack'[i] = IF i = Depth THEN f ELSE stack[i]
  BY <1>1, ExceptSeq DEF StackInv, SetTop
<1>3. Top' = f
  BY <1>1, <1>2 DEF Top, Depth
<1>4. \A i \in 1..Len(stack') : FrameInv(stack'[i]) /\ (i < Len(stack') => stack'[i].phase = "action")
  BY <1>1, <1>2 DEF StackInv
<1> QED
  BY <1>2, <1>3, <1>4 DEF StackInv, InPhase

\* A call of ForEachObject begins.
LEMMA EnterKeeps == ASSUME StackInv, Enter PROVE StackInv'
<1>1. Len(stack) \in Nat /\ stack \in Seq(Frame) /\ last' = last /\ last \in Said
  BY LenProperties DEF StackInv, Enter
<1>2. Len(stack) > 0 => stack[Len(stack)].phase = "action"
  BY <1>1 DEF Enter, InPhase, Top, Depth
<1>3. NewFrame \in Frame /\ NewFrame.phase = "native" /\ FrameInv(NewFrame)
  <2>1. NoMessage \in Said /\ NoException \in Caught /\ <<>> \in Seq(Nat)
    BY DEF Said, Caught
  <2>2. Len(Objects) \in Nat
    BY ObjectsAssumption, LenProperties
  <2> QED
    BY <2>1, <2>2 DEF NewFrame, Frame, FrameInv
<1>4. /\ stack' \in Seq(Frame) /\ Len(stack') = Len(stack) + 1
      /\ \A i \in 1..Len(stack') : stack'[i] = IF i = Len(stack) + 1 THEN NewFrame ELSE stack[i]
  BY <1>1, <1>3, AppendProperties DEF Enter
<1>5. \A i \in 1..Len(stack') : FrameInv(stack'[i]) /\ (i < Len(stack') => stack'[i].phase = "action")
  <2> SUFFICES ASSUME NEW i \in 1..Len(stack')
               PROVE  FrameInv(stack'[i]) /\ (i < Len(stack') => stack'[i].phase = "action")
    OBVIOUS
  <2>1. CASE i = Len(stack) + 1
    BY <1>1, <1>3, <1>4, <2>1
  <2>2. CASE i \in 1..Len(stack)
    BY <1>1, <1>2, <1>4, <2>2 DEF StackInv
  <2> QED
    BY <1>1, <1>4, <2>1, <2>2
<1>6. ~InPhase("returned")'
  BY <1>1, <1>3, <1>4 DEF InPhase, Top, Depth
<1> QED
  BY <1>1, <1>4, <1>5, <1>6 DEF StackInv

\* The action is given the next object.
LEMMA InvokeKeeps == ASSUME StackInv, Invoke PROVE StackInv'
<1> DEFINE f == [Top EXCEPT !.phase = "action", !.next = @ + 1,
                            !.seen = Append(@, Objects[Top.next])]
<1>1. /\ Depth > 0 /\ Top \in Frame /\ FrameInv(Top) /\ Top.phase = "native"
      /\ Top.next <= Len(Objects) /\ SetTop(f) /\ last' = last /\ last \in Said
  BY TopFacts DEF Invoke, InPhase, StackInv
<1>2. /\ Objects \in Seq(Nat) /\ Len(Objects) \in Nat /\ Top.next \in 1..Len(Objects)
      /\ Objects[Top.next] \in Nat /\ Top.seen \in Seq(Nat) /\ Len(Top.seen) = Top.next - 1
  BY <1>1, ObjectsAssumption, LenProperties, ElementOfSeq DEF Frame, FrameInv
<1>3. /\ f.seen \in Seq(Nat) /\ Len(f.seen) = Top.next
      /\ \A i \in 1..Top.next : f.seen[i] = IF i = Top.next THEN Objects[i] ELSE Top.seen[i]
  BY <1>1, <1>2, AppendProperties DEF Frame
<1>4. /\ f.phase = "action" /\ f.next = Top.next + 1
      /\ f.code = Top.code /\ f.said = Top.said /\ f.caught = Top.caught /\ f.answers = Top.answers
  BY <1>1 DEF Frame
<1>5. f \in Frame
  <2>1. ASSUME NEW n \in Nat, NEW s \in Seq(Nat)
        PROVE  [Top EXCEPT !.phase = "action", !.next = n, !.seen = s] \in Frame
    BY <1>1 DEF Frame
  <2>2. f = [Top EXCEPT !.phase = "action", !.next = Top.next + 1, !.seen = f.seen]
    BY <1>1 DEF Frame
  <2>3. Top.next + 1 \in Nat
    BY <1>2
  <2> QED
    BY <1>3, <2>1, <2>2, <2>3
<1> HIDE DEF f
<1>6. FrameInv(f)
  <2>1. ASSUME NEW i \in 1..Len(f.seen) PROVE f.seen[i] = Objects[i]
    <3>1. i \in 1..Top.next
      BY <1>3
    <3>2. i # Top.next => i \in 1..Len(Top.seen)
      BY <1>2, <3>1
    <3>3. \A j \in 1..Len(Top.seen) : Top.seen[j] = Objects[j]
      BY <1>1 DEF FrameInv
    <3> QED
      BY <1>3, <3>1, <3>2, <3>3
  <2>2. f.next \in 1..Len(Objects) + 1 /\ Len(f.seen) = f.next - 1
    <3>1. Top.next + 1 \in 1..Len(Objects) + 1 /\ Top.next = Top.next + 1 - 1
      BY <1>2
    <3> QED
      BY <1>3, <1>4, <3>1
  <2>3. Len(f.answers) = f.next - 2
    BY <1>1, <1>2, <1>4 DEF FrameInv
  <2>4. f.code = "GIT_OK" /\ f.said = NoMessage /\ f.caught = NoException
    BY <1>1, <1>4 DEF FrameInv
  <2>5. \A i \in 1..Len(f.answers) : f.answers[i] = "continue"
    BY <1>1, <1>4 DEF FrameInv
  <2> QED
    BY <1>4, <2>1, <2>2, <2>3, <2>4, <2>5 DEF FrameInv
<1> QED
  BY <1>1, <1>4, <1>5, <1>6, NewTop

\* The top of the stack with one answer more.
LEMMA Answered ==
  ASSUME StackInv, InPhase("action"), NEW a \in {"continue", "stop", "throw"},
         NEW phase \in {"native", "returned"}, NEW code \in {"GIT_OK", "GIT_EUSER"},
         NEW e \in Caught,
         (a = "continue") <=> (phase = "native"), (a = "continue") <=> (code = "GIT_OK"),
         IF a = "throw" THEN e # NoException ELSE e = NoException,
         NEW f, f = [Top EXCEPT !.phase = phase, !.code = code, !.caught = e,
                                !.answers = Append(@, a)]
  PROVE  Depth > 0 /\ f \in Frame /\ FrameInv(f) /\ f.said = NoMessage
<1>1. /\ Depth > 0 /\ Top \in Frame /\ FrameInv(Top) /\ Top.phase = "action"
  BY TopFacts DEF InPhase
<1> DEFINE before == Top.answers
<1>2. before \in Seq({"continue", "stop", "throw"}) /\ Len(before) \in Nat
  BY <1>1, LenProperties DEF Frame
<1>3. f.answers = Append(before, a)
  BY <1>1 DEF Frame
<1>4. /\ f.answers \in Seq({"continue", "stop", "throw"}) /\ Len(f.answers) = Len(before) + 1
      /\ \A i \in 1..Len(before) + 1 :
           f.answers[i] = IF i = Len(before) + 1 THEN a ELSE before[i]
  BY <1>2, <1>3, AppendProperties
<1>5. /\ f.phase = phase /\ f.code = code /\ f.caught = e
      /\ f.next = Top.next /\ f.said = Top.said /\ f.seen = Top.seen
  BY <1>1 DEF Frame
<1>6. f \in Frame
  <2>1. ASSUME NEW s \in Seq({"continue", "stop", "throw"})
        PROVE  [Top EXCEPT !.phase = phase, !.code = code, !.caught = e, !.answers = s] \in Frame
    BY <1>1 DEF Frame
  <2>2. f = [Top EXCEPT !.phase = phase, !.code = code, !.caught = e, !.answers = f.answers]
    BY <1>1, <1>3 DEF Frame
  <2> QED
    BY <1>4, <2>1, <2>2
<1>7. /\ Top.next \in 1..Len(Objects) + 1 /\ Len(before) = Top.next - 2 /\ Top.said = NoMessage
      /\ \A i \in 1..Len(before) : before[i] = "continue"
  BY <1>1 DEF FrameInv
<1>8. Len(f.answers) = f.next - 1 /\ Len(f.answers) > 0
  BY <1>2, <1>4, <1>5, <1>7
<1>9. f.answers[Len(f.answers)] = a
  BY <1>2, <1>4
<1>10. ASSUME NEW i \in 1..Len(f.answers), f.answers[i] # "continue"
       PROVE  i = Len(f.answers) /\ f.code = "GIT_EUSER"
  <2>1. i = Len(f.answers)
    BY <1>2, <1>4, <1>7, <1>10
  <2> QED
    BY <1>5, <1>9, <1>10, <2>1
<1>11. /\ Len(f.seen) = f.next - 1 /\ \A i \in 1..Len(f.seen) : f.seen[i] = Objects[i]
  BY <1>1, <1>5 DEF FrameInv
<1>12. f.code = "GIT_EUSER" =>
         f.answers[Len(f.answers)] = IF f.caught = NoException THEN "stop" ELSE "throw"
  BY <1>5, <1>9
<1> HIDE DEF before
<1>13. FrameInv(f)
  BY <1>5, <1>7, <1>8, <1>10, <1>11, <1>12 DEF FrameInv
<1> QED
  BY <1>1, <1>5, <1>6, <1>7, <1>13

\* What the callback does with the answer of the action.
LEMMA AnswersKeep ==
  ASSUME StackInv, ActionContinues \/ ActionStops
  PROVE  StackInv'
<1>1. /\ InPhase("action") /\ Depth > 0 /\ Top \in Frame /\ Top.phase = "action"
      /\ Top.code = "GIT_OK" /\ Top.caught = NoException /\ last \in Said
  BY TopFacts DEF ActionContinues, ActionStops, InPhase, StackInv, FrameInv
<1>2. NoException \in Caught
  BY DEF Caught
<1>3. CASE ActionContinues
  <2> DEFINE f == [Top EXCEPT !.phase = "native", !.code = "GIT_OK", !.caught = NoException,
                              !.answers = Append(@, "continue")]
  <2>1. f = [Top EXCEPT !.phase = "native", !.answers = Append(@, "continue")]
    BY <1>1 DEF Frame
  <2>2. f \in Frame /\ FrameInv(f) /\ f.said = NoMessage
    BY <1>1, <1>2, Answered
  <2>3. SetTop(f) /\ last' = last
    BY <1>3, <2>1 DEF ActionContinues
  <2> HIDE DEF f
  <2> QED
    BY <1>1, <2>2, <2>3, NewTop
<1>4. CASE ActionStops
  <2> DEFINE f == [Top EXCEPT !.phase = "returned", !.code = "GIT_EUSER", !.caught = NoException,
                              !.answers = Append(@, "stop")]
  <2>1. f = [Top EXCEPT !.phase = "returned", !.code = "GIT_EUSER", !.answers = Append(@, "stop")]
    BY <1>1 DEF Frame
  <2>2. f \in Frame /\ FrameInv(f) /\ f.said = NoMessage
    BY <1>1, <1>2, Answered
  <2>3. SetTop(f) /\ last' \in Said
    BY <1>1, <1>4, <2>1, Says DEF ActionStops, Fails
  <2> HIDE DEF f
  <2> QED
    BY <1>1, <2>2, <2>3, NewTop
<1> QED
  BY <1>3, <1>4

\* An exception is put aside in the frame of the iteration whose action threw.
LEMMA PutAsideKeeps ==
  ASSUME StackInv, InPhase("action"), NEW e \in Exceptions \cup Told, PutAside(e),
         NEW said \in Said, Fails(said)
  PROVE  StackInv'
<1>1. /\ Depth > 0 /\ last' \in Said
  BY Says DEF InPhase, Fails, StackInv
<1> DEFINE f == [Top EXCEPT !.phase = "returned", !.code = "GIT_EUSER", !.caught = e,
                            !.answers = Append(@, "throw")]
<1>2. e \in Caught /\ e # NoException
  BY SomeException DEF Caught
<1>3. f \in Frame /\ FrameInv(f) /\ f.said = NoMessage
  BY <1>2, Answered
<1>4. SetTop(f)
  BY DEF PutAside
<1> HIDE DEF f
<1> QED
  BY <1>1, <1>3, <1>4, NewTop

LEMMA ThrowsKeep ==
  ASSUME IterationInv,
         ActionThrows \/ \E call \in Calls, said \in Said : ActionFails(call, said)
  PROVE  StackInv'
<1>1. CASE ActionThrows
  <2>1. PICK e \in Exceptions \cup ({report.exception} \ {NoException}), said \in Said :
          InPhase("action") /\ PutAside(e) /\ Fails(said)
    BY <1>1 DEF ActionThrows
  <2>2. e \in Exceptions \cup Told
    BY <2>1 DEF IterationInv, ReportInv, Caught
  <2> QED
    BY <2>1, <2>2, PutAsideKeeps DEF IterationInv
<1>2. ASSUME NEW call \in Calls, NEW said \in Said, ActionFails(call, said)
      PROVE  StackInv'
  <2> DEFINE e == ExceptionFor(call.code, call.map, ErrorAfter(last, said), said)
  <2>1. call.code \in Codes /\ call.map \in {NoMap, exceptionMap} /\ last \in Said
    BY CodesAssumption DEF IterationInv, StackInv
  <2>2. e \in Told
    BY <2>1 DEF Told
  <2>3. InPhase("action") /\ PutAside(e) /\ Fails(said)
    BY <1>2 DEF ActionFails
  <2> HIDE DEF e
  <2> QED
    BY <2>2, <2>3, PutAsideKeeps DEF IterationInv
<1> QED
  BY <1>1, <1>2

\* A failure that is handled where it happens changes the error alone, and no
\* loop is then between its end and ForEachObject's.
LEMMA HandledKeeps ==
  ASSUME StackInv, NEW said \in Said, HandledFailure(said)
  PROVE  StackInv'
<1>1. stack' = stack /\ last' \in Said /\ (Depth = 0 \/ InPhase("action"))
  BY Says DEF HandledFailure, Fails, StackInv
<1>2. ~InPhase("returned")'
  BY <1>1 DEF InPhase, Top, Depth
<1> QED
  BY <1>1, <1>2 DEF StackInv

\* The native loop ends, with every object seen, or with an error.
LEMMA LoopKeeps ==
  ASSUME StackInv, LoopEnds \/ \E code \in LoopCodes, said \in Said : LoopFails(code, said)
  PROVE  StackInv'
<1>1. CASE LoopEnds
  <2> DEFINE f == [Top EXCEPT !.phase = "returned"]
  <2>1. /\ Depth > 0 /\ Top \in Frame /\ FrameInv(Top) /\ Top.phase = "native"
        /\ Top.next > Len(Objects) /\ SetTop(f) /\ last' = last /\ last \in Said
    <3>1. Depth > 0 /\ Top.phase = "native" /\ Top.next > Len(Objects) /\ last' = last
      BY <1>1 DEF LoopEnds, InPhase
    <3>2. SetTop(f)
      BY <1>1 DEF LoopEnds
    <3> QED
      BY <3>1, <3>2, TopFacts DEF StackInv
  <2>2. f \in Frame /\ f.phase = "returned"
        /\ f.next = Top.next /\ f.code = Top.code /\ f.said = Top.said
        /\ f.caught = Top.caught /\ f.seen = Top.seen /\ f.answers = Top.answers
    BY <2>1 DEF Frame
  <2>3. Top.next = Len(Objects) + 1
    <3>1. Len(Objects) \in Nat
      BY ObjectsAssumption, LenProperties
    <3> QED
      BY <2>1, <3>1 DEF FrameInv
  <2> HIDE DEF f
  <2>4. FrameInv(f) /\ f.said = NoMessage
    BY <2>1, <2>2, <2>3 DEF FrameInv
  <2> QED
    BY <2>1, <2>2, <2>4, NewTop
<1>2. ASSUME NEW code \in LoopCodes, NEW said \in Said, LoopFails(code, said)
      PROVE  StackInv'
  <2> DEFINE f == [Top EXCEPT !.phase = "returned", !.code = code, !.said = said]
  <2>1. /\ Depth > 0 /\ Top \in Frame /\ FrameInv(Top) /\ Top.phase = "native"
        /\ SetTop(f) /\ last' = ErrorAfter(last, said) /\ last \in Said
    BY <1>2, TopFacts DEF LoopFails, InPhase, Fails, StackInv
  <2>2. f \in Frame /\ f.phase = "returned" /\ f.code = code /\ f.said = said
        /\ f.next = Top.next /\ f.caught = Top.caught /\ f.seen = Top.seen
        /\ f.answers = Top.answers
    BY <2>1 DEF Frame
  <2>3. code # "GIT_OK" /\ code # "GIT_EUSER"
    BY NoLoopCode
  <2> HIDE DEF f
  <2>4. FrameInv(f)
    BY <2>1, <2>2, <2>3 DEF FrameInv
  <2>5. last' \in Said /\ (said # NoMessage => last' = said)
    BY <2>1, Says
  <2> QED
    BY <2>1, <2>2, <2>4, <2>5, NewTop
<1> QED
  BY <1>1, <1>2

\* ForEachObject returns or throws as the frame says, and the iteration around
\* it is still in its action.
LEMMA ExitKeeps == ASSUME IterationInv, Exit PROVE IterationInv'
<1>1. /\ StackInv /\ Depth \in 1..Len(stack) /\ Depth = Len(stack) /\ Len(stack) \in Nat
      /\ Top \in Frame /\ FrameInv(Top) /\ Top.phase = "returned" /\ last \in Said
      /\ Top.said # NoMessage => last = Top.said
  BY TopFacts, LenProperties DEF IterationInv, StackInv, Exit, InPhase, Depth
<1>2. /\ stack' = SubSeq(stack, 1, Len(stack) - 1) /\ last' = last
      /\ report' = [frame |-> Top, exception |-> Outcome(Top)]
  BY DEF Exit, Front
<1>3. StackInv'
  <2>1. /\ stack' \in Seq(Frame) /\ Len(stack') = Len(stack) - 1
        /\ \A i \in 1..Len(stack') : stack'[i] = stack[i]
    <3>1. stack \in Seq(Frame) /\ 1 \in 1..Len(stack) + 1 /\ Len(stack) - 1 \in 0..Len(stack)
      BY <1>1 DEF StackInv
    <3>2. \A i \in 1..Len(stack) : stack[i] \in Frame
      BY <3>1, ElementOfSeq
    <3>3. stack' = [i \in 1..Len(stack) - 1 |-> stack[i]]
      BY <1>1, <1>2, <3>1
    <3> QED
      BY <1>1, <3>2, <3>3
  <2>2. \A i \in 1..Len(stack') : i \in 1..Len(stack) /\ i < Len(stack)
    BY <1>1, <2>1
  <2>3. ~InPhase("returned")'
    <3>1. Len(stack') > 0 => Len(stack') \in 1..Len(stack')
      BY <1>1, <2>1
    <3> QED
      BY <1>1, <2>1, <2>2, <3>1 DEF StackInv, InPhase, Top, Depth
  <2> QED
    BY <1>1, <1>2, <2>1, <2>2, <2>3 DEF StackInv
<1>4. Outcome(Top) \in Caught
  <2>1. CASE Top.code = "GIT_EUSER" \/ Top.code = "GIT_OK"
    BY <1>1, <2>1 DEF Outcome, Frame, Caught
  <2>2. CASE Top.code \in LoopCodes
    <3>1. Top.code # "GIT_EUSER" /\ Top.code # "GIT_OK" /\ Top.code \in Codes /\ Top.said \in Said
      BY <1>1, <2>2, NoLoopCode DEF Frame
    <3>2. Outcome(Top) = ExceptionFor(Top.code, NoMap, last, Top.said)
      BY <3>1 DEF Outcome
    <3>3. last = ErrorAfter(last, Top.said)
      BY <1>1 DEF ErrorAfter
    <3>4. ExceptionFor(Top.code, NoMap, ErrorAfter(last, Top.said), Top.said) \in Told
      BY <1>1, <3>1 DEF Told
    <3> QED
      BY <3>2, <3>3, <3>4 DEF Caught
  <2> QED
    BY <1>1, <2>1, <2>2 DEF Frame
<1>5. Top.code \in LoopCodes => Outcome(Top) # NoException
  <2> SUFFICES ASSUME Top.code \in LoopCodes PROVE Outcome(Top) # NoException
    OBVIOUS
  <2>1. Top.code # "GIT_EUSER" /\ Top.code # "GIT_OK" /\ Top.code \in Codes /\ Top.said \in Said
    BY <1>1, NoLoopCode DEF Frame
  <2>2. Outcome(Top) = ExceptionFor(Top.code, NoMap, last, Top.said)
    BY <2>1 DEF Outcome
  <2>3. Outcome(Top) \in Failures
    BY <1>1, <2>1, <2>2 DEF Failures
  <2> QED
    BY <2>3, ExceptionsAssumption
<1>6. /\ Top.code = "GIT_EUSER" => Outcome(Top) = Top.caught
      /\ Top.code = "GIT_OK" => Outcome(Top) = NoException
  BY DEF Outcome
<1>7. ReportInv'
  <2>1. report'.frame = Top /\ report'.exception = Outcome(Top)
    BY <1>2
  <2> QED
    BY <1>1, <1>4, <1>5, <1>6, <2>1 DEF ReportInv
<1> QED
  BY <1>3, <1>7 DEF IterationInv

LEMMA IterationStarts == ASSUME Init PROVE IterationInv
<1>1. Len(stack) = 0 /\ stack \in Seq(Frame) /\ last \in Said
  BY EmptySeq DEF Init, Said
<1>2. report = NoReport /\ report.exception = NoException
  BY DEF Init, NoReport
<1> QED
  BY <1>1, <1>2 DEF IterationInv, StackInv, ReportInv, InPhase, Depth, Caught

LEMMA IterationStep == ASSUME IterationInv, [Next]_vars PROVE IterationInv'
<1>1. StackInv
  BY DEF IterationInv
<1>2. CASE Exit
  BY <1>2, ExitKeeps
<1>3. CASE /\ report' = report
           /\ \/ Enter \/ Invoke \/ ActionContinues \/ ActionStops \/ ActionThrows
              \/ \E call \in Calls, said \in Said : ActionFails(call, said)
              \/ \E said \in Said : HandledFailure(said)
              \/ LoopEnds \/ \E code \in LoopCodes, said \in Said : LoopFails(code, said)
              \/ UNCHANGED vars
  <2>1. StackInv'
    <3>1. CASE UNCHANGED vars
      BY <1>1, <3>1 DEF vars, StackInv, InPhase, Top, Depth
    <3> QED
      BY <1>1, <1>3, <3>1, EnterKeeps, InvokeKeeps, AnswersKeep, ThrowsKeep, HandledKeeps, LoopKeeps
  <2>2. ReportInv'
    BY <1>3 DEF IterationInv, ReportInv
  <2> QED
    BY <2>1, <2>2 DEF IterationInv
<1> QED
  BY <1>2, <1>3 DEF Next, vars, Enter, Invoke, ActionContinues, ActionStops, ActionThrows,
                    ActionFails, HandledFailure, LoopEnds, LoopFails

LEMMA IterationAlways == Spec => []IterationInv
<1>1. Init => IterationInv
  BY IterationStarts
<1>2. IterationInv /\ [Next]_vars => IterationInv'
  BY IterationStep
<1> QED
  BY <1>1, <1>2, PTL DEF Spec

LEMMA FramesFacts ==
  ASSUME IterationInv, NEW f \in Frames
  PROVE  f \in Frame /\ FrameInv(f)
<1>1. CASE f \in ToSet(stack)
  <2>1. PICK i \in 1..Len(stack) : f = stack[i]
    BY <1>1, LenProperties DEF ToSet, IterationInv, StackInv
  <2> QED
    BY <2>1, ElementOfSeq DEF IterationInv, StackInv
<1>2. CASE report # NoReport /\ f = report.frame
  BY <1>2 DEF IterationInv, ReportInv
<1> QED
  BY <1>1, <1>2 DEF Frames

\* ForEachObject, however deep its calls nest and whatever their actions do: the
\* action sees the objects in order and once, and none after it has ended the
\* loop.
THEOREM ActionsAreCalledInOrder == Spec => []CalledInOrder
<1>1. IterationInv => CalledInOrder
  <2> SUFFICES ASSUME IterationInv, NEW f \in Frames
               PROVE  /\ IsPrefix(f.seen, Objects)
                      /\ \A i \in 1..Len(f.answers) : f.answers[i] # "continue" => i = Len(f.seen)
    BY DEF CalledInOrder
  <2>1. f \in Frame /\ FrameInv(f)
    BY FramesFacts
  <2>2. /\ f.seen \in Seq(Nat) /\ Objects \in Seq(Nat)
        /\ Len(Objects) \in Nat /\ Len(f.seen) \in 0..Len(Objects)
        /\ \A i \in 1..Len(f.seen) : f.seen[i] = Objects[i]
    BY <2>1, ObjectsAssumption, LenProperties DEF Frame, FrameInv
  <2>3. IsPrefix(f.seen, Objects)
    <3>1. SubSeq(f.seen, 1, Len(f.seen)) = [i \in 1..Len(f.seen) |-> f.seen[i]]
      BY <2>2
    <3>2. SubSeq(Objects, 1, Len(f.seen)) = [i \in 1..Len(f.seen) |-> Objects[i]]
      BY <2>2
    <3> QED
      BY <2>2, <3>1, <3>2 DEF IsPrefix
  <2>4. ASSUME NEW i \in 1..Len(f.answers), f.answers[i] # "continue"
        PROVE  i = Len(f.seen)
    <3>1. i = Len(f.answers) /\ f.phase # "action"
      BY <2>1, <2>4 DEF FrameInv, Frame
    <3> QED
      BY <2>1, <3>1 DEF FrameInv
  <2> QED
    BY <2>3, <2>4
<1> QED
  BY <1>1, IterationAlways, PTL

\* ForEachObject ends as its own action wants, or with the error of the loop.
THEOREM OutcomesAreTheActions == Spec => []OutcomeIsTheActions
<1>1. IterationInv => OutcomeIsTheActions
  <2> SUFFICES ASSUME IterationInv, report # NoReport,
                      NEW f, f = report.frame, NEW answered, answered = ToSet(f.answers)
               PROVE  /\ "throw" \in answered => report.exception = f.caught /\ f.caught # NoException
                      /\ "stop" \in answered => report.exception = NoException
                      /\ report.exception = NoException => "stop" \in answered \/ f.seen = Objects
    BY DEF OutcomeIsTheActions
  <2>1. /\ f \in Frame /\ FrameInv(f) /\ f.phase = "returned"
        /\ f.code = "GIT_EUSER" => report.exception = f.caught
        /\ f.code = "GIT_OK" => report.exception = NoException
        /\ f.code \in LoopCodes => report.exception # NoException
    BY DEF IterationInv, ReportInv
  <2>2. /\ f.answers \in Seq({"continue", "stop", "throw"}) /\ DOMAIN f.answers = 1..Len(f.answers)
        /\ Len(f.answers) \in Nat
    BY <2>1, LenProperties DEF Frame
  <2>3. ASSUME NEW a \in answered, a # "continue"
        PROVE  f.code = "GIT_EUSER" /\ a = IF f.caught = NoException THEN "stop" ELSE "throw"
    <3>1. PICK i \in 1..Len(f.answers) : a = f.answers[i]
      BY <2>2 DEF ToSet
    <3> QED
      BY <2>1, <2>3, <3>1 DEF FrameInv
  <2>4. "throw" \in answered => report.exception = f.caught /\ f.caught # NoException
    BY <2>1, <2>3
  <2>5. "stop" \in answered => report.exception = NoException
    BY <2>1, <2>3
  <2>6. ASSUME report.exception = NoException
        PROVE  "stop" \in answered \/ f.seen = Objects
    <3>1. CASE f.code = "GIT_EUSER"
      <4>1. Len(f.answers) \in 1..Len(f.answers) /\ f.answers[Len(f.answers)] = "stop"
        BY <2>1, <2>2, <2>6, <3>1 DEF FrameInv
      <4> QED
        BY <2>2, <4>1 DEF ToSet
    <3>2. CASE f.code = "GIT_OK"
      <4>1. /\ f.seen \in Seq(Nat) /\ Objects \in Seq(Nat) /\ Len(Objects) \in Nat
            /\ Len(f.seen) = Len(Objects)
            /\ \A i \in 1..Len(f.seen) : f.seen[i] = Objects[i]
        BY <2>1, <3>2, ObjectsAssumption, LenProperties DEF Frame, FrameInv
      <4> QED
        BY <4>1, SeqEqual
    <3>3. CASE f.code \in LoopCodes
      BY <2>1, <2>6, <3>3
    <3> QED
      BY <2>1, <3>1, <3>2, <3>3 DEF Frame
  <2> QED
    BY <2>4, <2>5, <2>6
<1> QED
  BY <1>1, IterationAlways, PTL

\* An exception for a failure of libgit2 says what that failure has said, through
\* however many iterations it passes.
THEOREM FailuresAreTold == Spec => []ExceptionsTellTheirFailure
<1>1. IterationInv => ExceptionsTellTheirFailure
  <2> SUFFICES ASSUME IterationInv,
                      NEW x \in ({f.caught : f \in Frames} \cup {report.exception})
                                  \ (Exceptions \cup {NoException})
               PROVE  /\ x.failure.said # NoMessage => x.thrown.message = x.failure.said
                      /\ x.thrown.class = "RepositoryNotFoundException" <=>
                           x.failure.code = "GIT_ENOTFOUND" /\ x.failure.map = exceptionMap
    BY DEF ExceptionsTellTheirFailure
  <2>1. x \in Caught
    BY FramesFacts DEF Frame, IterationInv, ReportInv
  <2> QED
    BY <2>1, ToldTell DEF Caught
<1> QED
  BY <1>1, IterationAlways, PTL

-------------------------------------------------------------------------------
\* The level of an entry is what its flag word holds for the stage, whatever the
\* length of the path and the flags are.
LEMMA StageIsLevel ==
  ASSUME NEW native, HoldsLevel(native)
  PROVE  StageOf(native) = native.stage
<1>1. native.stage \in 0..3
  BY DEF HoldsLevel, Levels
<1>2. PICK length \in PathLengths, flags \in SUBSET Flags :
        native.flags = FlagWord(length, native.stage, flags)
  BY DEF HoldsLevel
<1>3. length \in Nat /\ length < 4096
  BY DEF PathLengths, GIT_INDEX_ENTRY_STAGE1
<1>4. PICK x \in {0, 4}, y \in {0, 8} : native.flags = length + (native.stage + x + y) * 4096
  <2> DEFINE x == IF flags \cap {"IntentToAdd", "SkipWorktree"} # {} THEN 16384 ELSE 0
             y == IF "Valid" \in flags THEN 32768 ELSE 0
  <2>1. x \in {0, 16384} /\ y \in {0, 32768}
    OBVIOUS
  <2>2. native.flags = length + native.stage * 4096 + x + y
    BY <1>2 DEF FlagWord, GIT_INDEX_ENTRY_STAGE1, GIT_INDEX_ENTRY_EXTENDED, GIT_INDEX_ENTRY_VALID
  <2> HIDE DEF x, y
  <2>3. PICK v \in {0, 4} : x = v * 4096
    BY <2>1
  <2>4. PICK w \in {0, 8} : y = w * 4096
    BY <2>1
  <2>5. native.flags = length + (native.stage + v + w) * 4096
    BY <1>1, <1>3, <2>2, <2>3, <2>4
  <2> QED
    BY <2>5
<1>5. PICK z \in 0..3 : x + y = 4 * z
  BY <1>4
<1> DEFINE k == native.stage + 4 * z
<1>6. k \in Nat /\ k % 4 = native.stage
  BY <1>1, <1>5
<1>7. native.flags = length + k * 4096
  BY <1>1, <1>4, <1>5
<1> HIDE DEF k
<1>8. (length + k * 4096) \div 4096 = k
  BY <1>3, <1>6
<1> QED
  BY <1>6, <1>7, <1>8 DEF StageOf, GIT_INDEX_ENTRY_STAGE1

\* What an entry shows of the native one.
LEMMA EntryShows ==
  ASSUME NEW native, IsEntry(FromNative(native))
  PROVE  /\ FromNative(native) # Refused
         /\ FromNative(native).path = native.path
         /\ FromNative(native).id = native.id
         /\ FromNative(native).stage = StageOf(native)
BY DEF FromNative, IndexEntry, IsEntry, Refused, NoEntry

\* The entries that an enumerator has passed are those that its MoveNext has
\* decoded, and Current is the last of them that could be.
ReadingInv ==
  /\ index \in Indexes
  /\ cursor \in [Enumerators -> 0..Len(index)]
  /\ moves = [e \in Enumerators |-> [i \in 1..cursor[e] |-> FromNative(index[i])]]
  /\ DOMAIN current = Enumerators /\ DOMAIN ended = Enumerators
  /\ \A e \in Enumerators : ended[e] = TRUE => cursor[e] = Len(index)
  /\ CurrentIsLastRead
  /\ FoundWhereAsked

LEMMA IndexFacts ==
  ASSUME index \in Indexes
  PROVE  /\ Len(index) \in Nat
         /\ \A i \in 1..Len(index) : HoldsLevel(index[i])
BY IndexesAssumption, LenProperties

LEMMA OneMore ==
  ASSUME NEW n \in Nat, NEW s, s = [i \in 1..n |-> FromNative(index[i])]
  PROVE  Append(s, FromNative(index[n + 1])) = [i \in 1..n + 1 |-> FromNative(index[i])]
<1> DEFINE S == {FromNative(index[i]) : i \in 1..n + 1}
           t == [i \in 1..n + 1 |-> FromNative(index[i])]
           x == FromNative(index[n + 1])
<1>1. \A i \in 1..n : FromNative(index[i]) \in S
  OBVIOUS
<1>2. x \in S
  OBVIOUS
<1>3. s \in Seq(S) /\ Len(s) = n
  BY <1>1, IsASeq
<1>4. t \in Seq(S) /\ Len(t) = n + 1
  BY IsASeq
<1>5. \A i \in 1..n + 1 : t[i] = FromNative(index[i])
  OBVIOUS
<1>6. \A i \in 1..n : s[i] = FromNative(index[i])
  OBVIOUS
<1> HIDE DEF S, t
<1>7. /\ Append(s, x) \in Seq(S) /\ Len(Append(s, x)) = n + 1
      /\ \A i \in 1..n : Append(s, x)[i] = s[i] /\ Append(s, x)[n + 1] = x
  BY <1>2, <1>3, AppendProperties
<1>8. \A i \in 1..n + 1 : Append(s, x)[i] = t[i]
  <2>1. Append(s, x)[n + 1] = x
    BY <1>2, <1>3, AppendProperties
  <2> QED
    BY <1>5, <1>6, <1>7, <2>1
<1>9. Append(s, x) = t
  BY <1>4, <1>7, <1>8, SeqEqual
<1> QED
  BY <1>9 DEF t

\* What CurrentIsLastRead says of one enumerator.
LastRead(s, c) ==
  LET read == {i \in DOMAIN s : s[i] # Refused}
  IN  IF read = {} THEN c = Null
      ELSE \E i \in read : c = s[i] /\ \A j \in read : j <= i

\* It is kept by one more call of MoveNext.
LEMMA ReadOneMore ==
  ASSUME NEW n \in Nat, NEW s, NEW t, NEW c, NEW d,
         DOMAIN s = 1..n, DOMAIN t = 1..n + 1, \A i \in 1..n : t[i] = s[i],
         d = IF t[n + 1] = Refused THEN c ELSE t[n + 1],
         LastRead(s, c)
  PROVE  LastRead(t, d)
<1> DEFINE read == {i \in DOMAIN s : s[i] # Refused}
           readNow == {i \in DOMAIN t : t[i] # Refused}
<1>1. CASE t[n + 1] = Refused
  <2>1. readNow = read
    BY <1>1
  <2>2. \A i \in read : t[i] = s[i]
    OBVIOUS
  <2>3. CASE read = {}
    BY <1>1, <2>1, <2>3 DEF LastRead
  <2>4. CASE read # {}
    <3>1. PICK i \in read : c = s[i] /\ \A j \in read : j <= i
      BY <2>4 DEF LastRead
    <3> QED
      BY <1>1, <2>1, <2>2, <2>4, <3>1 DEF LastRead
  <2> QED
    BY <2>3, <2>4
<1>2. CASE t[n + 1] # Refused
  <2>1. n + 1 \in readNow /\ \A j \in readNow : j <= n + 1
    BY <1>2
  <2> HIDE DEF readNow
  <2> QED
    BY <1>2, <2>1 DEF LastRead, readNow
<1> QED
  BY <1>1, <1>2

LEMMA CurrentIsLastReadOfEach ==
  CurrentIsLastRead <=> \A e \in Enumerators : LastRead(moves[e], current[e])
BY DEF CurrentIsLastRead, LastRead

LEMMA ReadingInitially == ReadingInit => ReadingInv
<1> SUFFICES ASSUME ReadingInit PROVE ReadingInv
  OBVIOUS
<1>1. index \in Indexes /\ Len(index) \in Nat
  BY IndexFacts DEF ReadingInit
<1>2. cursor \in [Enumerators -> 0..Len(index)]
  BY <1>1 DEF ReadingInit
<1>3. \A e \in Enumerators : moves[e] = [i \in 1..cursor[e] |-> FromNative(index[i])]
  BY EmptySeq DEF ReadingInit
<1>4. moves = [e \in Enumerators |-> [i \in 1..cursor[e] |-> FromNative(index[i])]]
  BY <1>3 DEF ReadingInit
<1>5. CurrentIsLastRead
  BY DEF ReadingInit, CurrentIsLastRead
<1>6. FoundWhereAsked
  BY DEF ReadingInit, FoundWhereAsked
<1> QED
  BY <1>1, <1>2, <1>4, <1>5, <1>6 DEF ReadingInit, ReadingInv

\* A step of MoveNext: one entry more has been passed, and decoded or thrown on.
LEMMA MoveNextStep ==
  ASSUME ReadingInv, NEW e \in Enumerators, MoveNext(e)
  PROVE  ReadingInv'
<1> DEFINE n == cursor[e]
           x == FromNative(index[n + 1])
<1>1. n \in Nat /\ n < Len(index) /\ Len(index) \in Nat /\ index' = index
  BY IndexFacts DEF ReadingInv, MoveNext
<1>2. cursor' = [cursor EXCEPT ![e] = n + 1]
  BY DEF MoveNext
<1>3. cursor' \in [Enumerators -> 0..Len(index)] /\ cursor'[e] = n + 1
  BY <1>1, <1>2 DEF ReadingInv
<1>4. moves' = [moves EXCEPT ![e] = Append(moves[e], x)]
  BY DEF MoveNext, Read
<1>5. moves[e] = [i \in 1..n |-> FromNative(index[i])]
  BY DEF ReadingInv
<1>6. Append(moves[e], x) = [i \in 1..n + 1 |-> FromNative(index[i])]
  BY <1>1, <1>5, OneMore
<1>7. \A f \in Enumerators : moves'[f] = [i \in 1..cursor'[f] |-> FromNative(index[i])]
  <2> SUFFICES ASSUME NEW f \in Enumerators
               PROVE  moves'[f] = [i \in 1..cursor'[f] |-> FromNative(index[i])]
    OBVIOUS
  <2>1. CASE f = e
    BY <1>3, <1>4, <1>6, <2>1 DEF ReadingInv
  <2>2. CASE f # e
    <3>1. cursor'[f] = cursor[f] /\ moves'[f] = moves[f]
      BY <1>2, <1>4, <2>2 DEF ReadingInv
    <3> QED
      BY <3>1 DEF ReadingInv
  <2> QED
    BY <2>1, <2>2
<1>8. moves' = [f \in Enumerators |-> [i \in 1..cursor'[f] |-> FromNative(index[i])]]
  <2>1. moves' = [f \in Enumerators |-> moves'[f]]
    BY <1>4 DEF ReadingInv
  <2> QED
    BY <1>7, <2>1
<1>9. current' = [current EXCEPT ![e] = IF x = Refused THEN current[e] ELSE x]
  BY DEF MoveNext, Read
<1>10. CurrentIsLastRead'
  <2> SUFFICES ASSUME NEW f \in Enumerators PROVE LastRead(moves'[f], current'[f])
    BY DEF CurrentIsLastRead, LastRead
  <2>1. LastRead(moves[f], current[f])
    BY CurrentIsLastReadOfEach DEF ReadingInv
  <2>2. CASE f # e
    BY <1>4, <1>9, <2>1, <2>2 DEF ReadingInv
  <2>3. CASE f = e
    <3>1. moves'[e] = [i \in 1..n + 1 |-> FromNative(index[i])]
      BY <1>3, <1>7
    <3>2. current'[e] = IF moves'[e][n + 1] = Refused THEN current[e] ELSE moves'[e][n + 1]
      BY <1>1, <1>9, <3>1 DEF ReadingInv
    <3>3. DOMAIN moves[e] = 1..n /\ DOMAIN moves'[e] = 1..n + 1
      BY <1>5, <3>1
    <3>4. \A i \in 1..n : moves'[e][i] = moves[e][i]
      BY <1>1, <1>5, <3>1
    <3>5. LastRead(moves[e], current[e])
      BY <2>1, <2>3
    <3>6. LastRead(moves'[e], current'[e])
      BY <1>1, <3>2, <3>3, <3>4, <3>5, ReadOneMore, ZenonT(60)
    <3> QED
      BY <2>3, <3>6
  <2> QED
    BY <2>2, <2>3
<1>11. DOMAIN current' = Enumerators /\ ended' = ended
  BY <1>9 DEF ReadingInv, MoveNext
<1>12. \A f \in Enumerators : ended'[f] = TRUE => cursor'[f] = Len(index)
  BY <1>1, <1>2, <1>11 DEF ReadingInv
<1>13. FoundWhereAsked'
  BY DEF ReadingInv, FoundWhereAsked, MoveNext
<1> QED
  BY <1>1, <1>3, <1>8, <1>10, <1>11, <1>12, <1>13 DEF ReadingInv

LEMMA NothingRead ==
  ASSUME CurrentIsLastRead, UNCHANGED <<moves, current>>
  PROVE  CurrentIsLastRead'
<1>1. \A e \in Enumerators : LastRead(moves'[e], current'[e])
  BY CurrentIsLastReadOfEach
<1> QED
  BY <1>1 DEF CurrentIsLastRead, LastRead

\* The other steps leave what the enumerators have read alone.
LEMMA AskingStep ==
  ASSUME ReadingInv, UNCHANGED <<index, cursor, current, moves, ended>>, FoundWhereAsked'
  PROVE  ReadingInv'
BY NothingRead DEF ReadingInv

LEMMA ReadingStep == ReadingInv /\ [ReadingNext]_readingVars => ReadingInv'
<1> SUFFICES ASSUME ReadingInv, [ReadingNext]_readingVars PROVE ReadingInv'
  OBVIOUS
<1>1. ASSUME NEW e \in Enumerators, MoveNext(e) PROVE ReadingInv'
  BY <1>1, MoveNextStep
<1>2. ASSUME NEW e \in Enumerators, MoveNextOver(e) PROVE ReadingInv'
  <2>1. ended' = [ended EXCEPT ![e] = TRUE] /\ cursor[e] = Len(index)
    BY <1>2 DEF MoveNextOver
  <2>2. \A f \in Enumerators : ended'[f] = TRUE => cursor[f] = Len(index)
    BY <2>1 DEF ReadingInv
  <2>3. DOMAIN ended' = Enumerators
    BY <2>1 DEF ReadingInv
  <2> QED
    BY <1>2, <2>2, <2>3, NothingRead DEF MoveNextOver, ReadingInv, FoundWhereAsked
<1>3. ASSUME NEW p \in -1..Len(index), GetByPosition(p) PROVE ReadingInv'
  <2>1. FoundWhereAsked'
    BY <1>3 DEF GetByPosition, FoundWhereAsked
  <2> QED
    BY <1>3, <2>1, AskingStep DEF GetByPosition
<1>4. ASSUME NEW path \in Paths, NEW stage \in Levels, GetByPath(path, stage)
      PROVE  ReadingInv'
  <2>1. asked' = [by |-> "path", path |-> path, stage |-> stage]
    BY <1>4 DEF GetByPath
  <2>2. CASE Filed(path, stage) = {}
    <3>1. ~IsEntry(answer')
      BY <1>4, <2>2 DEF GetByPath, IsEntry, Missing, NoEntry
    <3> QED
      BY <1>4, <3>1, AskingStep DEF GetByPath, FoundWhereAsked
  <2>3. CASE Filed(path, stage) # {}
    <3>1. PICK i \in Filed(path, stage) : answer' = FromNative(index[i])
      BY <1>4, <2>3 DEF GetByPath
    <3>2. i \in 1..Len(index) /\ index[i].path = path /\ index[i].stage = stage
      BY <3>1 DEF Filed
    <3>3. StageOf(index[i]) = stage
      BY <3>2, IndexFacts, StageIsLevel DEF ReadingInv
    <3>4. IsEntry(answer') => answer'.path = path /\ answer'.stage = stage
      BY <3>1, <3>2, <3>3, EntryShows
    <3>5. FoundWhereAsked'
      BY <2>1, <3>4 DEF FoundWhereAsked
    <3> QED
      BY <1>4, <3>5, AskingStep DEF GetByPath
  <2> QED
    BY <2>2, <2>3
<1>5. ASSUME NEW d \in Numbers, NEW i \in Numbers, NEW u \in Numbers, Construct(d, i, u)
      PROVE  ReadingInv'
  <2>1. FoundWhereAsked'
    BY <1>5 DEF Construct, FoundWhereAsked
  <2> QED
    BY <1>5, <2>1, AskingStep DEF Construct
<1>6. CASE UNCHANGED readingVars
  BY <1>6, AskingStep DEF readingVars, ReadingInv, FoundWhereAsked
<1> QED
  BY <1>1, <1>2, <1>3, <1>4, <1>5, <1>6 DEF ReadingNext

LEMMA ReadingAlways == ReadingSpec => []ReadingInv
BY ReadingInitially, ReadingStep, PTL DEF ReadingSpec

\* When MoveNext returns false every entry has been read or thrown on.
THEOREM EnumeratorsSkipNothing == ReadingSpec => []NothingSkipped
<1>1. ReadingInv => NothingSkipped
  <2> SUFFICES ASSUME ReadingInv, NEW e \in Enumerators, ended[e]
               PROVE  Len(moves[e]) = Len(index)
    BY DEF NothingSkipped
  <2>1. Len(index) \in Nat /\ cursor[e] = Len(index)
    BY IndexFacts DEF ReadingInv
  <2>2. moves[e] = [i \in 1..Len(index) |-> FromNative(index[i])]
    BY <2>1 DEF ReadingInv
  <2> QED
    BY <2>1, <2>2, LenProperties
<1> QED
  BY <1>1, ReadingAlways, PTL

\* Current is what the last MoveNext that returned true has read.
THEOREM CurrentFollowsMoveNext == ReadingSpec => []CurrentIsLastRead
<1>1. ReadingInv => CurrentIsLastRead
  BY DEF ReadingInv
<1> QED
  BY <1>1, ReadingAlways, PTL

\* An entry found under a path and a stage has that path and that stage.
THEOREM LookupsFindWhatTheyName == ReadingSpec => []FoundWhereAsked
<1>1. ReadingInv => FoundWhereAsked
  BY DEF ReadingInv
<1> QED
  BY <1>1, ReadingAlways, PTL

\* Entries that any two enumerators have read are Equal exactly when they come
\* from the same place.
THEOREM EqualityFollowsPlaces == ReadingSpec => []EqualMeansSamePlace
<1>1. ReadingInv => EqualMeansSamePlace
  <2> SUFFICES ASSUME ReadingInv,
                      NEW e \in Enumerators, NEW f \in Enumerators,
                      NEW i \in DOMAIN moves[e], NEW j \in DOMAIN moves[f],
                      IsEntry(moves[e][i]), IsEntry(moves[f][j])
               PROVE  SameEntry(moves[e][i], moves[f][j]) <=> i = j
    BY DEF EqualMeansSamePlace
  <2>1. Len(index) \in Nat /\ cursor[e] \in 0..Len(index) /\ cursor[f] \in 0..Len(index)
    BY IndexFacts DEF ReadingInv
  <2>2. i \in 1..Len(index) /\ moves[e][i] = FromNative(index[i])
    BY <2>1 DEF ReadingInv
  <2>3. j \in 1..Len(index) /\ moves[f][j] = FromNative(index[j])
    BY <2>1 DEF ReadingInv
  <2>4. HoldsLevel(index[i]) /\ HoldsLevel(index[j])
    BY <2>2, <2>3, IndexFacts DEF ReadingInv
  <2>5. moves[e][i].path = index[i].path /\ moves[e][i].stage = index[i].stage
    BY <2>2, <2>4, EntryShows, StageIsLevel
  <2>6. moves[f][j].path = index[j].path /\ moves[f][j].stage = index[j].stage
    BY <2>3, <2>4, EntryShows, StageIsLevel
  <2>7. CASE i = j
    BY <2>2, <2>3, <2>7 DEF SameEntry
  <2>8. CASE i # j
    <3>1. index[i].path # index[j].path \/ index[i].stage # index[j].stage
      BY <2>2, <2>3, <2>8, IndexesAssumption DEF ReadingInv
    <3> QED
      BY <2>5, <2>6, <2>8, <3>1 DEF SameEntry, Contributors
  <2> QED
    BY <2>7, <2>8
<1> QED
  BY <1>1, ReadingAlways, PTL
===============================================================================
