------------------------------ MODULE SearchPage ------------------------------
(***************************************************************************)
(* The search box of a page and the worker behind it: docfx.js:123-345 and *)
(* search-worker.js.  The worker asks for two files and tells the page as  *)
(* soon as the second has come; the page sends it what is typed and shows  *)
(* what comes back.  A query stands for its hits; the messages of each     *)
(* direction arrive in the order they were sent in.                        *)
(***************************************************************************)
EXTENDS Integers, Sequences

CONSTANTS GoodQueries,   \* three characters or more, and well formed
          BadQueries,    \* three or more, but no search string: "foo:bar"
          ShortQueries,  \* less than three characters
          Nothing,       \* no query
          MaxKeys,       \* bound: how often a key is released
          MaxHandlers    \* bound: how often the box is made to listen

ASSUME BoundsAssumption == MaxKeys \in Nat /\ MaxHandlers \in Nat

VARIABLES stopFile,    \* the request for search-stopwords.json
          dataFile,    \* the request for index.json
          lunrIndex,   \* whether the worker has an index
          toPage,      \* messages under way to the page
          toWorker,    \* messages under way to the worker: queries
          navbar,      \* the navigation bar, which has the search box
          handlers,    \* how many handlers of keyup the box has
          bound,       \* whether the page forwards what is typed
          query,       \* what has been typed
          label,       \* the query that the list is said to answer
          results,     \* the list: whose hits, and the query its links carry
          announced    \* what index-ready has said, for the properties

pageVars == <<stopFile, dataFile, lunrIndex, toPage, toWorker, navbar, handlers, bound,
              query, label, results, announced>>

VARIABLE keys          \* how many keys have been released

allPageVars == <<pageVars, keys>>

IndexReady == [e |-> "index-ready", q |-> Nothing]
QueryReady(q) == [e |-> "query-ready", q |-> q]

Long(q) == q \in GoodQueries \cup BadQueries

\* The bar is in the page, or has still to be fetched (docfx.js:348-356).
PageInit ==
  /\ stopFile = "requested" /\ dataFile = "requested" /\ lunrIndex = FALSE
  /\ toPage = <<>> /\ toWorker = <<>>
  /\ navbar \in {"present", "requested"}
  /\ handlers = IF navbar = "present" THEN 1 ELSE 0
  /\ bound = FALSE
  /\ query = Nothing /\ label = Nothing
  /\ results = [hits |-> Nothing, asked |-> Nothing]
  /\ announced = "silent"
  /\ keys = 0

-------------------------------------------------------------------------------
\* onload of the stop words, and buildIndex: both files are needed, and the data
\* must not be empty.  A status other than 200 leaves everything as it is.
LoadStopWords ==
  /\ stopFile = "requested"
  /\ \/ /\ stopFile' = "loaded"
        /\ lunrIndex' = (dataFile = "loaded")
     \/ /\ stopFile' = "failed"
        /\ UNCHANGED lunrIndex
  /\ UNCHANGED <<dataFile, toPage, toWorker, navbar, handlers, bound, query, label,
                 results, announced, keys>>

\* onload of the data, after which index-ready is posted, index or not.
LoadData ==
  /\ dataFile = "requested"
  /\ \/ /\ dataFile' \in {"loaded", "empty"}
        /\ lunrIndex' = (stopFile = "loaded" /\ dataFile' = "loaded")
        /\ toPage' = Append(toPage, IndexReady)
        /\ announced' = IF lunrIndex' THEN "indexed" ELSE "unindexed"
     \/ /\ dataFile' = "failed"
        /\ UNCHANGED <<lunrIndex, toPage, announced>>
  /\ UNCHANGED <<stopFile, toWorker, navbar, handlers, bound, query, label, results, keys>>

\* loadNavbar shows the search box, and so does renderNavbar when it finds the
\* bar in place: one handler each.  When the answer has no bar in it, it is
\* fetched again.
LoadNavbar ==
  /\ navbar = "requested"
  /\ \/ navbar' = "present" /\ handlers' = handlers + 2
     \/ navbar' = "requested" /\ handlers' = handlers + 1
     \/ navbar' = "failed" /\ UNCHANGED handlers
  /\ handlers' <= MaxHandlers
  /\ UNCHANGED <<stopFile, dataFile, lunrIndex, toPage, toWorker, bound, query, label,
                 results, announced, keys>>

\* keyup: every handler forwards the query if the page is bound to do so.
Type(q) ==
  /\ handlers > 0 /\ keys < MaxKeys
  /\ query' = q
  /\ label' = IF Long(q) THEN q ELSE label
  /\ toWorker' = IF Long(q) /\ bound THEN toWorker \o [i \in 1..handlers |-> q] ELSE toWorker
  /\ keys' = keys + 1
  /\ UNCHANGED <<stopFile, dataFile, lunrIndex, toPage, navbar, handlers, bound, results,
                 announced>>

\* Mutant: what was typed before the index was ready is not asked for.
PageReceiveForgetful ==
  /\ toPage # <<>>
  /\ toPage' = Tail(toPage)
  /\ IF Head(toPage).e = "index-ready"
     THEN /\ bound' = TRUE
          /\ UNCHANGED <<results, toWorker>>
     ELSE /\ results' = [hits |-> Head(toPage).q, asked |-> query]
          /\ UNCHANGED <<bound, toWorker>>
  /\ UNCHANGED <<stopFile, dataFile, lunrIndex, navbar, handlers, query, label, announced, keys>>

\* onmessage of the page.  A list is made of the hits that have come and of
\* links with the query that is typed by now.
PageReceive ==
  /\ toPage # <<>>
  /\ toPage' = Tail(toPage)
  /\ IF Head(toPage).e = "index-ready"
     THEN /\ bound' = TRUE
          /\ toWorker' = IF Long(query) THEN Append(toWorker, query) ELSE toWorker
          /\ UNCHANGED results
     ELSE /\ results' = [hits |-> Head(toPage).q, asked |-> query]
          /\ UNCHANGED <<bound, toWorker>>
  /\ UNCHANGED <<stopFile, dataFile, lunrIndex, navbar, handlers, query, label, announced, keys>>

\* onPageClick: the links of another page of the hits carry what is typed by now.
TurnPage ==
  /\ results.hits # Nothing /\ Long(query)
  /\ results' = [results EXCEPT !.asked = query]
  /\ UNCHANGED <<stopFile, dataFile, lunrIndex, toPage, toWorker, navbar, handlers, bound,
                 query, label, announced, keys>>

\* Mutant: the worker answers the last query first.
WorkerReceiveLast ==
  /\ toWorker # <<>>
  /\ toWorker' = SubSeq(toWorker, 1, Len(toWorker) - 1)
  /\ toPage' = IF lunrIndex /\ toWorker[Len(toWorker)] \in GoodQueries
               THEN Append(toPage, QueryReady(toWorker[Len(toWorker)])) ELSE toPage
  /\ UNCHANGED <<stopFile, dataFile, lunrIndex, navbar, handlers, bound, query, label,
                 results, announced, keys>>

\* onmessage of the worker: without an index, and with a query that is no search
\* string, it ends in an error and nothing is posted.
WorkerReceive ==
  /\ toWorker # <<>>
  /\ toWorker' = Tail(toWorker)
  /\ toPage' = IF lunrIndex /\ Head(toWorker) \in GoodQueries
               THEN Append(toPage, QueryReady(Head(toWorker))) ELSE toPage
  /\ UNCHANGED <<stopFile, dataFile, lunrIndex, navbar, handlers, bound, query, label,
                 results, announced, keys>>

PageNext ==
  \/ LoadStopWords \/ LoadData \/ LoadNavbar \/ PageReceive \/ TurnPage
  \/ WorkerReceive
  \/ \E q \in GoodQueries \cup BadQueries \cup ShortQueries : Type(q)

\* The event loops of the page and of the worker go on; what the network and the
\* user do is up to them.
PageFairness == WF_allPageVars(PageReceive) /\ WF_allPageVars(WorkerReceive)

-------------------------------------------------------------------------------
\* When the worker has said that it is ready, and was, every search string that
\* stays in the box has its hits shown at last: whether it was typed before or
\* after the worker was ready, and however many were typed before it
\* (docfx.js:210-229, search-worker.js:33-46).
ResultsCatchUp ==
  \A q \in GoodQueries :
    (query = q /\ announced = "indexed") ~> (results.hits = q \/ query # q)

\* And when no message is under way any more, the list, its heading and the
\* links in it all belong to what is in the box (docfx.js:253-260, 302-340).
QuietMeansCurrent ==
  (/\ announced = "indexed" /\ query \in GoodQueries
   /\ toPage = <<>> /\ toWorker = <<>>)
    => label = query /\ results = [hits |-> query, asked |-> query]
===============================================================================
