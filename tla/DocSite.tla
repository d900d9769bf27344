------------------------------- MODULE DocSite -------------------------------
(***************************************************************************)
(* The documentation site: the index that the search worker builds and     *)
(* asks, and, in a page, the search box, the tabs, the table of contents   *)
(* and the outline that docfx.js makes of what is served.  The page and    *)
(* the index meet in messages alone (SearchPage) and the rest keeps no     *)
(* state in common, so that each behaviour has one of them at work.        *)
(***************************************************************************)
EXTENDS SearchIndex, SearchPage, TabGroups, TocFilter, PageOutline

VARIABLE part   \* what is at work

siteVars == <<part, searchVars, allPageVars, tabVars, tocVars, outlineVars>>

\* What is not at work is as one page has it.
SiteStarts ==
  /\ SearchInit
  /\ part # "index" => phase = "loading" /\ data = CHOOSE d \in SearchData : TRUE
  /\ PageInit /\ (part # "box" => navbar = "present")
  /\ TabsInit
  /\ TocInit /\ (part # "contents" => storage /\ classes = Opened(Unmarked, 1))
  /\ OutlineInit /\ (part # "outline" => article = <<>>)

SiteInit == part \in {"index", "box", "tabs", "contents", "outline"} /\ SiteStarts

IndexWorks == /\ part = "index" /\ SearchNext
              /\ UNCHANGED <<part, allPageVars, tabVars, tocVars, outlineVars>>

BoxWorks == /\ part = "box" /\ PageNext
            /\ UNCHANGED <<part, searchVars, tabVars, tocVars, outlineVars>>

TabsWork == /\ part = "tabs" /\ TabsNext
            /\ UNCHANGED <<part, searchVars, allPageVars, tocVars, outlineVars>>

ContentsWork == /\ part = "contents" /\ TocNext
                /\ UNCHANGED <<part, searchVars, allPageVars, tabVars, outlineVars>>

OutlineWorks == /\ part = "outline" /\ OutlineNext
                /\ UNCHANGED <<part, searchVars, allPageVars, tabVars, tocVars>>

SiteNext == IndexWorks \/ BoxWorks \/ TabsWork \/ ContentsWork \/ OutlineWorks

SiteSpec == SiteInit /\ [][SiteNext]_siteVars /\ PageFairness
===============================================================================
