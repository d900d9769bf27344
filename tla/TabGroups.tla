------------------------------ MODULE TabGroups ------------------------------
(***************************************************************************)
(* The groups of tabs in a page (docfx.js:788-1051): groups that are not   *)
(* independent follow one list of selected tabs, and a tab with a          *)
(* condition is there only while its condition is selected.                *)
(***************************************************************************)
EXTENDS Integers, Sequences, SequencesExt

CONSTANTS Groups,       \* the groups: [independent, tabs]; a tab: [ids, condition]
          NoCondition

ASSUME GroupsAssumption ==
  /\ Groups \in Seq(Range(Groups))
  /\ \A group \in Range(Groups) :
       /\ group.independent \in BOOLEAN /\ group.tabs \in Seq(Range(group.tabs))
       /\ \A tab \in Range(group.tabs) : tab.ids \in Seq(Range(tab.ids))

VARIABLES selectedTabs, \* state.selectedTabs
          visible,      \* visible[g][t]
          selected,     \* selected[g][t]
          tabsInUrl     \* the tabs in the query string of the page

tabVars == <<selectedTabs, visible, selected, tabsInUrl>>

Tabs(g) == DOMAIN Groups[g].tabs
Ids(g, t) == Range(Groups[g].tabs[t].ids)
FirstOf(g, t) == Groups[g].tabs[t].ids[1]
Dependent == {g \in DOMAIN Groups : ~Groups[g].independent}

\* A tab is visible for a list of selected tabs, and is selected by it.
Offered(list, g, t) == Groups[g].tabs[t].condition \in {NoCondition} \cup Range(list)
Chosen(list, g, t) == Offered(list, g, t) /\ Ids(g, t) \cap Range(list) # {}

FirstOffered(list, g) ==
  CHOOSE t \in Tabs(g) : Offered(list, g, t) /\ \A u \in 1..t - 1 : ~Offered(list, g, u)

\* The loops that take the ids of a tab, and those of a group, out of the list.
Without(list, ids) ==
  LET rest[n \in 0..Len(ids)] == IF n = 0 THEN list ELSE RemoveFirst(rest[n - 1], ids[n])
  IN  rest[Len(ids)]

Deselected(list, g) ==
  LET rest[n \in 0..Len(Groups[g].tabs)] ==
        IF n = 0 THEN list ELSE Without(rest[n - 1], Groups[g].tabs[n].ids)
  IN  rest[Len(Groups[g].tabs)]

\* The tabs of a group as the list has them; list is what is left of it if it has
\* none of them.
Update(state, g, list) ==
  LET none == ~\E t \in Tabs(g) : Chosen(state.selectedTabs, g, t)
      first == FirstOffered(state.selectedTabs, g)
  IN  [state EXCEPT
        !.visible[g] = [t \in Tabs(g) |-> Offered(state.selectedTabs, g, t)],
        !.selected[g] = [t \in Tabs(g) |-> Chosen(state.selectedTabs, g, t) \/ (none /\ t = first)],
        !.selectedTabs = IF none THEN Append(list, FirstOf(g, first)) ELSE @]

\* Mutant: the ids of a group that has lost its tab stay in the list.
UpdatedKeepingIds(state, g) == Update(state, g, state.selectedTabs)

\* updateVisibilityAndSelection(group, state); a group without a visible tab
\* would end in an error.
Updated(state, g) == Update(state, g, Deselected(state.selectedTabs, g))

UpdatedAll(state) ==
  LET update[g \in 0..Len(Groups)] ==
        IF g = 0 THEN state
        ELSE IF g \in Dependent THEN Updated(update[g - 1], g) ELSE update[g - 1]
  IN  update[Len(Groups)]

\* The page as it is served: every tab is visible, the first is selected.
Served == [selectedTabs |-> <<>>,
           visible |-> [g \in DOMAIN Groups |-> [t \in Tabs(g) |-> TRUE]],
           selected |-> [g \in DOMAIN Groups |-> [t \in Tabs(g) |-> t = 1]]]

Become(state) == /\ selectedTabs' = state.selectedTabs
                 /\ visible' = state.visible
                 /\ selected' = state.selected
                 /\ tabsInUrl' = IF Dependent = {} THEN tabsInUrl ELSE state.selectedTabs

\* initTabs.  parseQueryString is called without an argument, so the tabs in the
\* url are never read.
TabsInit ==
  LET state == UpdatedAll(Served)
  IN  /\ selectedTabs = state.selectedTabs
      /\ visible = state.visible
      /\ selected = state.selected
      /\ tabsInUrl = IF Dependent = {} THEN <<>> ELSE state.selectedTabs

ReloadTabs == Become(UpdatedAll(Served))

\* Mutant: the new id is forgotten, and the old one only cut out.
ReplaceCuts(seq, id, new) == RemoveFirst(seq, id)

\* splice(indexOf(id), 1, new): an id that is not there is the last one.
Replace(seq, id, new) ==
  LET at == SelectInSeq(seq, LAMBDA i : i = id)
  IN  ReplaceAt(seq, IF at = 0 THEN Len(seq) ELSE at, new)

\* handleClick
Click(g, t) ==
  /\ visible[g][t]
  /\ IF Groups[g].independent
     THEN /\ selected' = [selected EXCEPT ![g] =
                            [u \in Tabs(g) |-> Ids(g, u) \cap Ids(g, t) # {}]]
          /\ UNCHANGED <<selectedTabs, visible, tabsInUrl>>
     ELSE /\ Ids(g, t) \cap Range(selectedTabs) = {}
          /\ LET previous == CHOOSE u \in Tabs(g) :
                               selected[g][u] /\ \A v \in 1..u - 1 : ~selected[g][v]
             IN  Become(UpdatedAll(
                   [selectedTabs |-> Replace(selectedTabs, FirstOf(g, previous), FirstOf(g, t)),
                    visible |-> visible, selected |-> selected]))

TabsNext == ReloadTabs \/ \E g \in DOMAIN Groups : \E t \in Tabs(g) : Click(g, t)

-------------------------------------------------------------------------------
\* What pages with tabs are expected to be like, and the code does not see to:
\* each group has a tab without a condition, no two tabs of a group share an id,
\* two groups that follow the list have all their tabs in common or no id, and a
\* condition on the tab of a group comes from a group before it.
HasTabs == \A g \in DOMAIN Groups :
  /\ Groups[g].tabs # <<>>
  /\ \A t \in Tabs(g) : Groups[g].tabs[t].ids # <<>>
  /\ \E t \in Tabs(g) : Groups[g].tabs[t].condition = NoCondition

TabsApart == \A g \in DOMAIN Groups : \A t, u \in Tabs(g) : Ids(g, t) \cap Ids(g, u) # {} => t = u

GroupsAgree == \A g, h \in Dependent : \A t \in Tabs(g), u \in Tabs(h) :
  Ids(g, t) \cap Ids(h, u) # {} => Range(Groups[g].tabs) = Range(Groups[h].tabs)

ConditionsComeBefore == \A g, h \in Dependent : \A t \in Tabs(g), u \in Tabs(h) :
  Groups[g].tabs[t].condition \in Ids(h, u) =>
    \E e \in Dependent : e < g /\ \E v \in Tabs(e) : Groups[g].tabs[t].condition \in Ids(e, v)

Coherent == HasTabs /\ TabsApart /\ GroupsAgree /\ ConditionsComeBefore

\* Every group shows one tab, which is visible, and the groups that follow the
\* list show nothing that is not in it, nor does the list hold an id that no
\* group shows; a tab with a condition is there exactly while its condition is
\* selected (docfx.js:895-925, 960-969).
OneTabPerGroup ==
  /\ \A g \in DOMAIN Groups : \E t \in Tabs(g) :
       /\ visible[g][t] /\ \A u \in Tabs(g) : selected[g][u] = (u = t)
       /\ g \in Dependent => Ids(g, t) \cap Range(selectedTabs) # {}
  /\ \A id \in Range(selectedTabs) :
       \E g \in Dependent : \E t \in Tabs(g) : selected[g][t] /\ id \in Ids(g, t)
  /\ \A g \in Dependent : \A t \in Tabs(g) :
       visible[g][t] = (Groups[g].tabs[t].condition \in {NoCondition} \cup Range(selectedTabs))
  /\ Dependent # {} => tabsInUrl = selectedTabs

\* A click on a tab selects it.  Besides, it changes only groups that have one
\* of its ids or a condition, or are left without their tab (docfx.js:943-976).
ClickSelects ==
  [][\A g \in DOMAIN Groups : \A t \in Tabs(g) :
       tabVars' # tabVars /\ Click(g, t) =>
         /\ selected'[g][t]
         /\ \A h \in DOMAIN Groups \ {g} :
              \/ selected'[h] = selected[h]
              \/ \E u \in Tabs(h) : /\ ~Groups[g].independent /\ h \in Dependent
                                    /\ \/ Ids(h, u) \cap Ids(g, t) # {}
                                       \/ Groups[h].tabs[u].condition # NoCondition]_tabVars
===============================================================================
