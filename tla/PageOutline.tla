----------------------------- MODULE PageOutline -----------------------------
(***************************************************************************)
(* The outline beside an article, made from its headings (renderAffix and  *)
(* getHierarchy, docfx.js:599-683), and made again by window.refresh when  *)
(* the article changes (docfx.js:29-40).                                   *)
(***************************************************************************)
EXTENDS Integers, SequencesExt

CONSTANTS MaxHeadings  \* bound: how many headings an article has

ASSUME HeadingsAssumption == MaxHeadings \in Nat

VARIABLES article,     \* its headings: a level, and whether they have an id
          outline,     \* [top, items]: the headings at the top, and below each
          hidden,      \* whether it has been hidden: nothing shows it again
          renderings   \* what has happened to the renderings after the outline

outlineVars == <<article, outline, hidden, renderings>>

Headings == [level : 1..4, id : BOOLEAN]

\* The stack of getHierarchy has frames of siblings of one level; items maps a
\* heading, which is its place in the article, to the headings below it.
Started == [stack |-> <<>>, items |-> <<>>, error |-> FALSE]

\* Mutant: the children go to the first of the siblings.
BuildParentFirst(s) ==
  LET below == Front(s.stack)
      parent == Head(Last(below).siblings)
  IN  [stack |-> below, error |-> s.error,
       items |-> [s.items EXCEPT ![parent] = @ \o Last(s.stack).siblings]]

\* buildParent
BuildParent(s) ==
  LET below == Front(s.stack)
      parent == Last(Last(below).siblings)
  IN  [stack |-> below, error |-> s.error,
       items |-> [s.items EXCEPT ![parent] = @ \o Last(s.stack).siblings]]

\* One round of the loop that pops frames before a heading of this level; when
\* the last one is popped there is no frame of its parent, which is a TypeError.
Pop(s, level) ==
  IF s.error \/ level >= Last(s.stack).level THEN s
  ELSE IF Len(s.stack) = 1 THEN [s EXCEPT !.error = TRUE]
  ELSE BuildParent(s)

PopTo(s, level) ==
  LET pop[k \in 0..Len(s.stack)] == IF k = 0 THEN s ELSE Pop(pop[k - 1], level)
  IN  pop[Len(s.stack)]

Push(s, i, level) ==
  [stack |-> Append(s.stack, [level |-> level, siblings |-> <<i>>]),
   items |-> Append(s.items, <<>>), error |-> s.error]

Beside(s, i) ==
  LET frame == Last(s.stack)
  IN  [stack |-> Append(Front(s.stack), [level |-> frame.level,
                                         siblings |-> Append(frame.siblings, i)]),
       items |-> Append(s.items, <<>>), error |-> s.error]

Place(s, i, level) ==
  IF s.error THEN s
  ELSE IF level = Last(s.stack).level THEN Beside(s, i)
  ELSE Push(s, i, level)

\* What the loop does with the heading i.  Without an id it has no entry, and
\* after an error there is no more of the loop.
AddHeading(s, i, heading) ==
  IF s.error THEN s
  ELSE IF ~heading.id THEN [s EXCEPT !.items = Append(@, <<>>)]
  ELSE IF s.stack = <<>> THEN Push(s, i, heading.level)
  ELSE Place(PopTo(s, heading.level), i, heading.level)

\* What is left when the loop has gone through the headings.
Reading(headings) ==
  LET read[n \in 0..Len(headings)] ==
        IF n = 0 THEN Started ELSE AddHeading(read[n - 1], n, headings[n])
  IN  read[Len(headings)]

\* The loop after it: what is on the stack goes to its parents.
Close(s) == IF Len(s.stack) > 1 THEN BuildParent(s) ELSE s

Closing(s) ==
  LET close[k \in 0..Len(s.stack)] == IF k = 0 THEN s ELSE Close(close[k - 1])
  IN  close[Len(s.stack)]

\* A single heading at the top gives way to those below it.
TopLevel(s) ==
  LET top == s.stack[1].siblings
  IN  IF Len(top) = 1 THEN s.items[top[1]] ELSE top

NoOutline == [error |-> FALSE, top |-> <<>>, items |-> <<>>]

Outlined(read) ==
  IF read.error THEN [NoOutline EXCEPT !.error = TRUE]
  ELSE IF read.stack = <<>> THEN NoOutline
  ELSE LET s == Closing(read)
       IN  [error |-> FALSE, top |-> TopLevel(s), items |-> s.items]

\* getHierarchy
Hierarchy(headings) == Outlined(Reading(headings))

\* renderAffix, and what follows it: an error leaves the outline as it was and
\* the tabs of the article undone.
Rendered(made, before, away) ==
  [outline |-> IF made.error THEN before ELSE made,
   hidden |-> away \/ (~made.error /\ made.top = <<>>),
   renderings |-> IF made.error THEN "left out" ELSE "done"]

RenderAffix(headings, before, away) == Rendered(Hierarchy(headings), before, away)

OutlineInit ==
  /\ article \in BoundedSeq(Headings, 2)
  /\ LET rendered == RenderAffix(article, NoOutline, FALSE)
     IN  /\ outline = rendered.outline
         /\ hidden = rendered.hidden
         /\ renderings = rendered.renderings

\* refresh, with an article that has one more heading, or a new one.
Refresh(headings) ==
  LET rendered == RenderAffix(headings, outline, hidden)
  IN  /\ Len(headings) <= MaxHeadings
      /\ article' = headings
      /\ outline' = rendered.outline
      /\ hidden' = rendered.hidden
      /\ renderings' = rendered.renderings

OutlineNext == Refresh(<<>>) \/ \E h \in Headings : Refresh(Append(article, h))

-------------------------------------------------------------------------------
Named(headings) == {i \in DOMAIN headings : headings[i].id}

\* A heading belongs to the last one before it above its level; one that has
\* none before it to the top, which is 0.
Owns(headings, i, j) ==
  /\ j \in Named(headings) /\ i < j
  /\ i = 0 \/ (i \in Named(headings) /\ headings[i].level < headings[j].level)
  /\ \A k \in Named(headings) : i < k /\ k < j => headings[k].level >= headings[j].level

Owned(headings, i) == {j \in Named(headings) : Owns(headings, i, j)}

\* What the outline has at the top: a single heading gives way to its own.
Shown(headings) ==
  {j \in Named(headings) :
     \/ Owns(headings, 0, j) /\ Owned(headings, 0) # {j}
     \/ \E i \in Named(headings) : Owned(headings, 0) = {i} /\ Owns(headings, i, j)}

\* A heading stands above the level that the first one has.
RisesAbove(headings) ==
  \E i, first \in Named(headings) :
    headings[i].level < headings[first].level /\ \A k \in Named(headings) : first <= k

\* The sequence has every member of the set once, in order.
InOrder(seq, set) ==
  Range(seq) = set /\ \A i \in DOMAIN seq : \A j \in 1..i - 1 : seq[j] < seq[i]

\* The outline has every heading with an id once, in order, below the heading it
\* belongs to, and only a single heading at the top is left out.  It is made, and
\* what is rendered after it, unless a heading stands above the level that the
\* first one has; and when there is nothing to show it is out of sight
\* (docfx.js:599-683).
OutlineKeepsHeadings ==
  /\ renderings = "left out" <=> RisesAbove(article)
  /\ ~RisesAbove(article) =>
       IF Shown(article) = {} THEN hidden
       ELSE /\ InOrder(outline.top, Shown(article))
            /\ \A i \in Named(article) : InOrder(outline.items[i], Owned(article, i))
===============================================================================
