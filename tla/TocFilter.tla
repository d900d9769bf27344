------------------------------ MODULE TocFilter ------------------------------
(***************************************************************************)
(* The filter of the table of contents (docfx.js:415-545).  The tree has   *)
(* its nodes in the order of the document; a node is hidden or shown by    *)
(* the classes that the handlers give to its list item.                    *)
(***************************************************************************)
EXTENDS Integers, SequencesExt

CONSTANTS Parent,      \* Parent[n]: the node above n, 0 at the top
          TitleOf,     \* TitleOf[n]: the title of its link, as a sequence
          NoTitle,     \* the title of a link that leads nowhere
          Period,         \* the character "."
          Undefined,   \* how undefined is written, as one character
          FilterTexts  \* what may be typed

\* The nodes are numbered in the order of the document.
ASSUME ParentAssumption ==
  Parent \in Seq(Nat) /\ \A n \in DOMAIN Parent : Parent[n] < n

VARIABLES classes,     \* the classes of each node's list item
          filterText,  \* what is in the box
          filterString,\* what the session storage has of it
          storage      \* whether there is a session storage

tocVars == <<classes, filterText, filterString, storage>>

Nodes == DOMAIN Parent
Children(n) == {m \in Nodes : Parent[m] = n}
Leaves == {n \in Nodes : Children(n) = {}}

\* A node and what is above it, from the node up.
Lineage[n \in Nodes \cup {0}] == IF n = 0 THEN <<>> ELSE <<n>> \o Lineage[Parent[n]]

Above == [n \in Nodes |-> Lineage[Parent[n]]]
Below == [n \in Nodes |-> {m \in Nodes : n \in Range(Above[m])}]

\* What the text is looked for in: the titles of the nodes above, then that of
\* the leaf; nodes without a title are left out, a leaf without one is not.
FullName ==
  LET Spelt(text) == IF text = NoTitle THEN <<Undefined>> ELSE text
      Prepend(text, m) == IF TitleOf[m] = NoTitle THEN text
                          ELSE TitleOf[m] \o <<Period>> \o Spelt(text)
  IN  [n \in Nodes |-> FoldLeft(Prepend, TitleOf[n], Above[n])]

\* filterNavItem
FilterNavItem(n, text) ==
  /\ FullName[n] # NoTitle
  /\ \E i \in 0..Len(FullName[n]) - Len(text) :
       SubSeq(FullName[n], i + 1, i + Len(text)) = text

AddTo(cs, nodes, added, gone) ==
  [n \in Nodes |-> IF n \in nodes THEN (cs[n] \ gone) \cup added ELSE cs[n]]

ShowLeaves(cs, match) ==
  AddTo(AddTo(cs, match, {"show"}, {"hide"}), Leaves \ match, {"hide"}, {"show"})

\* A parent is shown again if an item below it is.
ShowParent(cs, n) ==
  IF n \in Leaves THEN cs
  ELSE IF \E m \in Below[n] : "show" \in cs[m]
       THEN AddTo(cs, {n}, {"show", "filtered"}, {"hide"})
       ELSE AddTo(cs, {n}, {"hide"}, {"show", "filtered"})

\* One parent after the other, in the order of the document.
ShowParents(cs) ==
  LET upTo[n \in Nodes \cup {0}] == IF n = 0 THEN cs ELSE ShowParent(upTo[n - 1], n)
  IN  upTo[Len(Parent)]

Matches(text) == {n \in Leaves : FilterNavItem(n, text)}

\* Mutant: the parents are not reset first.
FilteredOverOld(cs, text) ==
  IF text = <<>> THEN AddTo(cs, Nodes, {}, {"filtered", "hide"})
  ELSE ShowParents(ShowLeaves(cs, Matches(text)))

\* What an input event does to the classes: every parent is hidden first, then
\* each leaf is shown or hidden, then each parent that has a shown item below
\* it is shown again.
Filtered(cs, text) ==
  IF text = <<>> THEN AddTo(cs, Nodes, {}, {"filtered", "hide"})
  ELSE ShowParents(ShowLeaves(AddTo(cs, Nodes \ Leaves, {"hide"}, {"show", "filtered"}),
                              Matches(text)))

Opened(cs, n) == AddTo(cs, {n} \cup Range(Above[n]), {"in"}, {})
Unmarked == [n \in Nodes |-> {}]

TocInit ==
  /\ classes \in {Opened(Unmarked, n) : n \in Nodes}
  /\ filterText = <<>> /\ filterString = <<>>
  /\ storage \in BOOLEAN

Input(text) ==
  /\ filterText' = text
  /\ filterString' = IF storage THEN text ELSE filterString
  /\ classes' = Filtered(classes, text)
  /\ UNCHANGED storage

\* The page of node n is opened.  registerTocEvents takes the text out of the
\* storage, when there is one; then the items above the page are expanded.
OpenPage(n) ==
  /\ filterText' = IF storage THEN filterString ELSE <<>>
  /\ classes' = Opened(Filtered(Unmarked, filterText'), n)
  /\ UNCHANGED <<filterString, storage>>

\* A click on the stub of a parent.
Toggle(n) ==
  /\ n \notin Leaves
  /\ classes' = [classes EXCEPT ![n] = IF "in" \in @ THEN @ \ {"in"} ELSE @ \cup {"in"}]
  /\ UNCHANGED <<filterText, filterString, storage>>

TocNext ==
  \/ \E text \in FilterTexts : Input(text)
  \/ \E n \in Nodes : OpenPage(n) \/ Toggle(n)

-------------------------------------------------------------------------------
\* An item can be seen when neither it nor one above it is hidden, and all above
\* it are open (docfx.css:522-529).
Seen(n) == /\ "hide" \notin classes[n]
           /\ \A m \in Range(Above[n]) :
                "hide" \notin classes[m] /\ classes[m] \cap {"in", "filtered"} # {}

\* Whatever has been typed and opened before, what is in the box decides what is
\* seen: the leaves whose full name has the text, with all that is above them,
\* and nothing else; and without a text nothing is hidden, and an item is seen
\* when everything above it has been opened by hand (docfx.js:426-512).
FilterShowsMatches ==
  IF filterText = <<>>
  THEN \A n \in Nodes : /\ classes[n] \cap {"hide", "filtered"} = {}
                        /\ Seen(n) <=> (\A m \in Range(Above[n]) : "in" \in classes[m])
  ELSE \A n \in Nodes :
         Seen(n) <=> \E m \in Leaves : m \in Below[n] \cup {n} /\ FilterNavItem(m, filterText)
===============================================================================
