# A formal model of Dogged

Dogged (`src/Dogged`, on top of the P/Invoke declarations in `src/Dogged.Native`)
gives .NET programs an object oriented view of libgit2.  Nearly everything that
can go wrong in it goes wrong at the border between two worlds with different
rules of life and death: managed wrappers, which a garbage collector reclaims
when it likes, and native objects, which somebody has to free exactly once and
nobody may touch afterwards.  The modules here model that border, TLC checks
them on small instances, and TLAPS proves the central results for any number of
threads, wrappers and references.

The repository also holds the site that documents the library
(`src/Documentation/template`): a search engine that runs in a worker of the
browser, and the scripts of the pages.  That is the other half of the models.

## 1. The system

| Component | State | Operations | Interacts with | Hard behaviour | What makes it correct |
|---|---|---|---|---|---|
| `NativeDisposable`, `Ensure.NativeCall`, the `Dispose(bool)` of every wrapper | a native pointer (or a `disposed` flag) per wrapper | `Dispose`, finalizer, `NotDisposed`, native calls | collector, finalizer thread, libgit2 | a finalizer runs on another thread as soon as the last reference is gone, also while a method of the wrapper is running | freed exactly once, never used afterwards, never leaked |
| Members of `Repository`, `GitObject`, `Commit`, `Tree`, `Blob`, `Index`, `Reference`, `RevisionSpec`, ... | - | getters, indexers, lookups | `Ensure`, `LazyNative` | some do not go through `NativeCall`, or read native memory after it | keep the wrapper alive to the last use of native memory; throw when disposed |
| Lookups and factories (`Objects`, `References`, `Peel`, `Head`, `DuplicateNative`, enumerators, `FromNative`) | a native reference in a local variable | obtain, wrap, free on exception | finalizers of the wrappers made | exceptions between the native call and the wrapper | one owner per native reference on every path |
| `LazyNative<T>` | `value`, `hasValue` | `Value` | wrapper, factory | unsynchronised threads, failing factories | only values of the factory, run when needed |
| `Index`, `IndexEntry`, `IndexEnumerator` | native index, iterator position, `Current` | indexers, `MoveNext`, decoding | libgit2's packed entries | decoding throws half way through an iteration | all three ways of reading agree with libgit2 |
| `ObjectDatabase` | native database | `ForEachObject`, `Read`, `Write`, `AddBackend` | callbacks from a native loop | exceptions in callbacks, nesting, ownership of backends | the caller gets what its action did |
| Error handling (`Ensure.HandleNativeError`, exception maps) | libgit2's thread local error | `NativeSuccess`, `NativeBoolean`, ... | every call | message read after the call | class and message belong to the call that failed |
| Library start and shutdown (static constructor, `NativeInitializer`) | init count | init, shutdown | finalizers at process exit | type initialisation races, finalization order | no call before init or after shutdown |
| Object graph | which wrapper refers to which | `Commit.Tree`, `Tree[..]`, `TreeEntry` | lifetimes of several wrappers | an owner is reclaimed before what it owns | owners outlive what points into them |
| `GitBuffer`, `FilterList`, `Blob`, `GlobalOptions` | native buffers | apply, content spans | borrowed memory | spans outlive buffers | as above |
| `ObjectId`, the casts of `Ensure` | 20 bytes; - | from and to hexadecimal text, `Equals`, `GetHashCode`; `CastTo...` | libgit2's ids, sizes and counts | tables indexed by a char, comparison by blocks, values at the ends of a range | an id has one spelling, equality misses no byte, a cast loses no bit |
| `Utf8Marshaler`, `Utf8Converter` | buffers of a call under way | convert arguments and results, clean up | the runtime's P/Invoke, libgit2 | one of several arguments cannot be converted, half surrogate pairs, NULs | strings arrive, names come back, every buffer is freed once |

The documentation site (`lunr.js`, `search-worker.js` and `docfx.js` in
`src/Documentation/template/styles`):

| Component | State | Operations | Interacts with | Hard behaviour | What makes it correct |
|---|---|---|---|---|---|
| Search index (`lunr.Builder`, `Index`, `Vector`, `TokenSet`) | inverted index, vectors with cached magnitudes, a minimised automaton of terms | add, build, save, load, query | the worker | nodes that are shared while words still come, caches, a binary search, walking two automata with wildcards | hits are the documents that match, and scores add up |
| Search strings (`QueryLexer`, `QueryParser`) | text of the run, current clause | lex, parse | `Index.search` | escapes, state that is left over from the last clause | what is asked for is what is read |
| Search worker and search box | two files under way, an index or none; query, list of hits | load, post, receive, keys, pages of hits | each other, by messages | keys before the index, answers after the next key, several handlers | the list becomes the one for what is in the box |
| Tabs | the list of selected tabs, visibility and selection of each | set up, click | the url | groups that share a list, tabs with a condition | one visible tab in each group, the one that was chosen |
| Table of contents | classes of each item, filter text, session storage | type, open a page, expand | the pages | classes left over from before | what matches is seen, and nothing else |
| Outline | a stack of headings | render, refresh | the article | levels that are skipped or go up | every heading once, below the one it belongs to |

`PROJECT.json` lists all components, with the ones that are not modelled, and the
hazards line by line.

## 2. Modules

### NativeHandle: what the API promises
A native object comes to life once, users enter and leave native functions on
it, and it is freed at most once and only while nobody is inside.

### NativeLifecycle: how the wrappers keep that promise
One actor per application thread and one for the runtime's finalizer thread;
`pc[a]` names the place in `NativeCall`, `Dispose(bool)` or `Dispose()`.

| Code | Actions |
|---|---|
| `FromNative` of a class | `Adopt` |
| `Ensure.NativeCall`: `NotDisposed`, `call()`, `GC.KeepAlive` | `BeginCall`, `EnterNative`, `ReturnFromNative`; `KeptAlive` says where the stack still roots the wrapper |
| `NativeDisposable.Dispose()` | `BeginDispose` ... `SuppressFinalize` |
| `Dispose(bool)`: test, free, set null | `FreeNative` / `AlreadyDisposed`, `ClearField` |
| variables of the application (external) | `Share`, `Drop` |
| collector and finalizer thread (external) | `Collect`, `Finalize`, `EndFinalize` |

The free and the assignment of null are two steps.  `Drop` may happen while the
thread is inside a method called through the variable, which is what an
optimising JIT does to locals.  `Dispose` is only called when no other thread
uses the wrapper: this is the contract of `IDisposable`, and the code has no
defence against breaking it (listed as a hazard).

### CallShapes: which members keep it
A member of a wrapper class is abstracted to the order in which it tests for
disposal, reads the pointer field, calls libgit2, reads native memory and uses
`this`.  A finalizer may run whenever the caller has forgotten the wrapper and
no later step uses `this`.  `NativeCall`, `LazyValue`, `ObjectIdOf`,
`TreeIndexer`, `MoveNext`, `IndexIndexer` and `RevisionSpecFrom` are the shapes
found in the code.

### ObjectGraph: wrappers that need other wrappers
Repositories, their collections, commits, trees and tree entries.  `RefersTo`
is the field that keeps a parent wrapper reachable, `Guard` the wrapper on which
a member makes its `NotDisposed` and `KeepAlive`.  A collection refers to its
repository and an entry to its tree, and both guard with it; a commit or a tree
refers to nothing and guards with itself only.  Each member is two steps
(`BeginCall`, then `EndLookup`, `EndCommitTree`, `EndTreeIndexer` or `EndCall`),
between which `Finalize` may run on whatever is no longer reachable.

### NativeOwnership: one owner per native reference
A token is one reference that libgit2 handed out.  The thread obtains it
(`Obtain`), the factory wraps it (`Wrap`, `WrapHead`) or throws (`WrapThrows`,
after freeing it in the case of `Reference.FromNative`), the catch block frees it
(`CatchFrees`), and wrappers free it in `Dispose` or `Finalize`.  `Catching` and
`FreedByFactory` say which calls and factories clean up.  `Repository.Head` would
free a HEAD that is not a direct reference twice, once in its catch block and
once in the finalizer of the wrapper; `git_repository_head` resolves HEAD, so that
none arrives, and `ReleasedOnce` is stated for references that are `Resolved`.

### ForEachObject: a callback under a native loop
A stack of running iterations; each step is one call of the action with its
answer (continue, stop, throw an exception of its own or the one of another
iteration, or let pass the exception of a library call that failed), the native
loop's end or failure, or the return of `ForEachObject` to the application or to
the enclosing action.

`NativeErrors` holds what `Ensure.HandleNativeError` does: the class of an exception
by return code, first from the caller's map and then from the default one, and
its message from libgit2's last error of the thread.  `last` in `ForEachObject` is
that error; calls that fail set it or not, and so does libgit2 itself when a
callback ends a loop.  An exception carries a record of the failure that it is
for, which the code does not have and only the property looks at.

### LazyNative: the unsynchronised cache
One step per read or write of `hasValue` and `value`.  `reorders`, chosen in the
initial state and never changed, says whether the two plain stores may become
visible in the other order, as on arm64 (`MACOS_ARM64` is one of the builds); if
`FALSE` they stay in order, as on x64.  Out of order, a getter may return `default(T)`;
`ServesMadeValues` therefore speaks of processors that keep stores in order, the
other properties of both.

### IndexEntries, IndexReading: decoding and reading an index
`IndexEntries` packs an entry as libgit2 does and decodes it as
`IndexEntry.FromNative` and its constructor do, with the real bit positions.
`int.MaxValue` is scaled down to `IntMax`, since only the comparison matters.
`IndexReading` interleaves enumerators, whose native iterator advances before the
entry is decoded, with the indexers.  Two facts are in the model and in no run of
their own: `FromNative` refuses device numbers beyond `int.MaxValue`, which the
format allows (`IndexEntry.cs:79`), and the constructor checks the inode where
it should check user id, group id and file size (`IndexEntry.cs:58-60`).

### Conversions: what crosses the border by value
`ObjectIds`, `NumericCasts` and `Utf8Strings` are the pure parts, one operator per
method with its tables, tests and exceptions.  `ObjectIds` ends with a definition of
hexadecimal notation that does not use the tables.  A managed string is a
sequence of kinds of UTF-16 code units, a native one of kinds of characters,
which is what the strict encoder, the tolerant decoder and the NUL tell apart.
`Conversions` asks for them: one conversion at a time (`MakeId`, `Compare`, `Cast`,
`ReturnString`), or the string arguments of a native call one after the other
(`BeginCall`, `MarshalNext`, `EndCall`).  That the runtime cleans up the arguments that
were marshalled before one fails is external.

### SparseMaps, SearchVectors, TokenSets, QueryStrings, SearchIndex: the search engine
`SearchVectors` is `lunr.Vector`: the pairs of index and value, the cached
magnitude (squared), and one step per iteration of the binary search, so that the
place it returns is the result of a loop with an invariant.  `BeginUpsert`, `Narrow`,
`Combine` and `Splice` are one call of `upsert` or `insert`; `Measure` is what `similarity`
does to the caches.  `SparseMaps` is what a vector promises without the array and the search in
it: a map from indexes to values that a call changes at one index in one step
(`ImplementsMaps`).  `TokenSets` is the automaton of terms, with the numbers of nodes
and the keys by which `minimize` tells them apart, the automata of query terms
(`FromString`, `FromFuzzyString`) and `Intersect`.  `QueryStrings` reads search strings one
character and one lexeme at a time (`LexCharacter`, `ParseLexeme`); how a user writes
down a clause (`Written`) is there for the property, and `QuestionsAssumption` says what can be
asked: clauses in one field or in all, terms that are not empty and have no capitals, which the
parser would lower, and numbers of at most two digits.  Words end at any of the characters of `\s` or at a
hyphen (`IsTermSeparator`); what `toLowerCase` does to a character is the constant `LowerCases`, one unit for
one unit, which leaves out the few letters that become several.

`SearchIndex` puts them together.  In the phases of the worker, `AddTerm` is one turn of the
inner loop of `add` over what the pipeline makes of a field, in the order of `Before`: it
counts the term and fills the inverted index.  `InsertWeight` is one `insert` of
`createFieldVectors`, `InsertTerm` one of `createTokenSet`; `LoadTerm` is the loop of `Index.load`,
whose terms come in the order of the file; `Search` parses, `UpsertQuery` is one turn of
the innermost loop of `query`, `ScoreField` one similarity, and `Answer` the end, where the
query vectors are given up and those of the fields stay.  Characters are numbers.
Abstracted: the stemmer is the constant `Stem`; the score of a term in a field is its
frequency, since the formula of `createFieldVectors` is one number per term and field
to all that is modelled; metadata of matches and the order of hits are left out.
The worker runs `lunr.min.js`, the same program minified.

### SearchPage: the box and the worker
Two event loops and two queues of messages.  `LoadStopWords` and `LoadData` are the
`onload` handlers, `WorkerReceive` and `PageReceive` the `onmessage` handlers, `Type` a released
key, `TurnPage` a click below the list, `LoadNavbar` the request that may bring the box.
A query stands for its hits, so that a list shows which query it answers.

### TabGroups, TocFilter, PageOutline: the scripts of a page
`TabGroups` keeps `selectedTabs` and, for each tab, `visible` and `selected`; `Updated` is
`updateVisibilityAndSelection`, with its search for the first visible tab and its
removal of ids, and `Click` is `handleClick` with the `splice`.  `GroupsAssumption` only says that groups are
sequences of tabs with ids.  What the pages of docfx are like beyond that, and the code does not
see to, is `Coherent`: each group has a tab without a condition, no two tabs of a group share an
id, groups that follow the list share all tabs or no id, and a condition comes from a group before.
Section 3 has what happens to other groups; `MCDocSite` asserts that its groups are coherent.  `TocFilter` keeps the classes
of each list item and adds and takes them in the order of the handlers; an item is
seen by the rules of `docfx.css:522-529`.  `PageOutline` runs the stack of `getHierarchy` over
the headings of an article, one operator for each change of the stack (`Push`, `Beside`, `BuildParent`), including the
TypeError of an empty one; its property says by `Owns` which heading belongs to which, without a stack.

### DocSite: the site
`DocSite` composes these five.  The page and the index meet in messages only, and the
scripts keep no state in common, so that in each behaviour one part is at work
(`part`) and the others rest as one page has them: interleaving them would multiply
states and add no behaviour of any part.  `MCDocSite` adds a sixth: one vector as any user of `lunr.Vector` may call it, upserted,
inserted into, measured and renewed in any order.  In the index weights go in once and magnitudes are asked for
afterwards, so that a cache that is not forgotten would not show there.

Modules `MC...` give the constants values for TLC; modules `..._proofs` hold
theorems.  Definitions marked "Mutant" in a comment are plausible bugs: each
property of a passing run is violated when one of them replaces the definition
that follows it, which shows that the property depends on the code.

## 3. What the runs show

| Run | Instance | Result |
|---|---|---|
| lifecycle | 2 threads, 2 wrappers, fair; 2424 states | no double free, no use after free, no call after `Dispose`, no leak; implements `NativeHandle`; forgotten objects are freed in the end |
| shapes_memory | the member shapes that use `this` last; 236 states | native memory is live whenever it is used |
| ownership_paths | 2 references, every kind of HEAD, fair; 14229 states | none is lost, none is given back twice, all are given back in the end |
| foreach_nested | 3 reports of 2 objects, 2 exceptions, 2 messages, nesting 2; 39896 states | callers get what their own action did; exceptions tell of the failure they are for |
| lazy_races | 3 threads, 4 factory runs, both orders of stores; 10748 states | no default values on x64; the factory runs only for cold getters, failures are not cached |
| graph_members | 2 repositories, 2 collections, 1 commit, 2 trees, 1 entry; 586986 states | collections and entries never work on a freed parent, and stay usable while held |
| graph_objects | 1 repository and its objects | **violated**: the repository is freed under `Commit.Tree` |
| index_reads | 5 indexes, 2 enumerators; 4142 states | enumerators skip nothing, `Current` is the last entry read, lookups answer the question, equality is sameness of place |
| index_entries | 1 index in conflict | **violated**: flags dropped, sides of a conflict misnamed (one state shows both) |
| conversions | 3 kinds of conversion, calls with up to 2 strings; 9300 states | ids keep their text, equality and casts are exact, strings arrive, names come back, buffers are freed once |
| site | one part of the site at work in each behaviour: 2 collections of 2 documents, 18 questions and 6 bad strings, 11 terms to load; 3 keys, 3 handlers; 5 groups of tabs; 8 items of contents; articles of up to 4 headings; a vector by itself with 6 indexes; 91058 states | token sets hold their terms, hits are the matches, scores add up, vectors are maps (implement `SparseMaps`) and their caches fresh; lists catch up with the box; tabs, contents and outline show what they should |
| search_digits | 1 document with digits in its terms | **violated**: the keys of two nodes agree, terms are lost and made up |

*Findings.*  The three violated runs are disagreements of the code with what its
comments and tests say; `PROJECT.json` quotes them (the run on entries shows two).

*Met while modelling, without a run.*
- The indexers of `Index` copy an entry after their `GC.KeepAlive` (`Index.cs:51, 58`, and 95,
  102): a finalizer that runs in between frees the entry under the copy.  With
  `Shapes = {IndexIndexer}` TLC finds it as a violation of `DerefsLive`.
- `RevisionSpec.From` and `To` of a disposed specification return null (`RevisionSpec.cs:46`),
  where other members throw: `Shapes = {RevisionSpecFrom}` violates `DisposedThrows`.
- One overload of `NativeSuccess` drops the `customExceptions` that it is given (`Ensure.cs:294-297`);
  none of its callers gives any.
- `DoggedException.cs:14-17` calls `NativeException` the base class for exceptions that
  occurred in libgit2, but a code without an exception of its own gives a plain
  `DoggedException` (`Ensure.cs:307`).
- Search terms and documents are cut at different characters (`lunr.js:2636-2647`, set
  before `search-worker.js:9`), so that a search for a name with a dot finds nothing;
  stop words are added to the pipeline of the documents after these have gone through
  it (`search-worker.js:56-64`), and the field boosts are arguments that
  `Builder.field` does not have (`lunr.js:2059`, `search-worker.js:53-54`).
- `fromFuzzyString` leaves out the insertion of a character after the last one, and an edit
  distance of 0 with a `*` takes the star for one character; a boost of 0 divides by a
  magnitude of 0 (`lunr.js:696`).  `HitsAreMatches` is stated for what the code does.
- The worker posts `index-ready` when the data has come, also when the stop words have not
  (`search-worker.js:33`); a query that comes too early, or that is no search string, ends in an
  error in the worker and has no answer, and the old hits stay below the new label.
- `loadNavbar` shows the search box and so does the `renderNavbar` that it ends with
  (`docfx.js:375, 410`): every key then asks twice.  An answer without a bar in it is
  fetched again, without end.
- `parseQueryString` is called without its argument (`docfx.js:990, 999`): tabs in a url are
  not selected, and its other parameters are dropped.
- A click in a group of which the list has no id, because another group shares some of
  its ids, calls `splice` with -1 and replaces the last selected tab (`docfx.js:963-964`):
  with groups `{net, mono, core}` and `{net, core}` TLC finds two tabs selected in one group.
- A condition is seen only by the groups after the one that selects it; a group without a
  visible tab ends in a TypeError (`docfx.js:921`).
- Items of the contents without a topic have no title and are searched as "undefined".
- A heading above the level of the first one is a TypeError in `getHierarchy`
  (`docfx.js:652-669`), after which the footer, the logo and the tabs are not rendered; an
  outline that has been hidden is never shown again.

*Bounds.*  Two wrappers let the finalizer thread be busy with one while threads use
the other; two threads are one more than any single wrapper needs to be shared,
and the proofs remove the bound.  The shapes need no bound but the member: one
member runs at a time, and the finalizer is the only other actor.  Two references
cover a second lookup of the same object while the first is being finalized.
Nesting of two iterations with three reports covers an inner iteration before,
between and after the answers of the outer one; two messages, a failure that says
something else after the one an exception is for.  Three threads and four factory
runs cover a reader between the stores of a writer while a second writer follows.
Two repositories cover a collection that is mistaken for another's, and an
entry under a tree that came from a commit covers the longest chain there is.
The five indexes cover every flag, the three sides of a conflict and device
numbers on both sides of the bound (`IntMax` = 3).  The texts of ids have one unusual
unit at any of the 40 places, or two among the last four, so that every line of the
digit table and its end are met; the ids compared differ in one byte at any
of the 20 places.  Words are scaled (an int to 4 values, a long to 16), with all
values of a long or a ulong cast; that a long is at least twice as wide is all that
the casts depend on, and the proof is for any sizes.

For the site: the letters a and b, terms of up to three of them, one stem and one stop
word give shared prefixes and suffixes, nodes that are merged and nodes that must not be,
plurals, words one edit apart and tokens that are trimmed to nothing; the saved
terms come in any order, of which only ascending ones load.  Two clauses cover a clause
after another on the same field.  Three keys and three handlers give messages of
two queries under way in both directions while a third is typed.  Five groups cover one list
shared by two, ids in different orders, conditions of conditions, and an independent
group.  Contents of three levels have a leaf at each, and items without a topic.  Six indexes in the vector that is called by
itself give the binary search slices of every shape down to one element, with what is looked for at each of their places,
before, between and behind them.  Four
headings cover going down, up by two levels, and above the first.

*Deadlock* is not checked (`CHECK_DEADLOCK FALSE`) where the application may stop
for good: all wrappers disposed of and forgotten, all references handed out.
In the site the network and the user may be silent, and keys and headings are counted.
`ForEachObject`, `IndexReading` and `Conversions` are checked for deadlock.

*Fairness.*  `NativeLifecycle` and `NativeOwnership` assume that a method of the
library that has begun goes on, that an unreachable wrapper is found by some
collection and that the finalizer thread serves its queue.  All three are the
runtime's promise as long as the process runs; nothing is assumed of the
application, which need not call `Dispose`.  In the site only the two event loops are fair (`PageFairness`): a message that has been
posted is received, as browsers do while the page is open.  Neither the requests
for files nor the user have any fairness.  The process may exit without
finalizing anything; the operating system then takes the memory back.

## 4. What is proved

No theorem assumes a bound on threads, wrappers, references, factory runs or shapes.

* `NativeLifecycle_proofs`.  `TypeCorrect`, then `Inductive`: none of the safety
  properties is inductive by itself, since they depend on the places of all actors.
  The invariant `IInv` ties them together: an actor is on a wrapper exactly when
  it is not idle; a thread in `Dispose(bool)` is alone on its wrapper; the
  finalizer is on a wrapper only when nobody can reach it; the field is `set` with
  a live object, or `set` with a freed one for the one actor between the free
  and the assignment, or `null` with a freed object and one free counted.
  From it follow `FreedAtMostOnce`, `CallsSeeLiveObjects`, `DisposeEndsCalls`
  and `ReclaimedIsFreed`.  `Implementation` proves that every step maps to a step of
  `NativeHandle` or changes nothing of it.
* `CallShapes_proofs`.  `ProtectedShapesAreSafe`: a set of members, each of which
  tests for disposal first and uses `this` after its last use of native memory,
  never touches freed memory and always throws on a disposed wrapper.
  `DisciplinedMembers` puts the members of Dogged under it, and `OtherMembers` leaves two out.  A new member only has to be
  given its shape.
* `NativeOwnership_proofs`, for any number of references: no `Resolved` one is freed twice
  (`ReleasedAtMostOnce`), and none is lost (`NoReferenceLost`).
* `ObjectGraph_proofs`.  `MembersKeepTheirParents` and `HeldMembersStayUsable`, for any number of repositories,
  objects and entries.  Its invariant says that the wrapper checked by the running call
  has not been freed (`GuardLive`), and that a wrapper the application refers to
  (`RootsHeld`), or that one of its members refers to (`HeldMembersUsable`), has lost its native
  object to `Dispose` if it has lost it; the first alone is what a call needs, the
  others are what makes the members usable between calls.
* `LazyNative_proofs`.  `FactoryOnlyCold` and `FlagHasValue` for either order of the stores,
  and `NeverServesDefault` for stores in order, for any number of threads.
* `DocSite_proofs`, in seven parts.
  - *The vectors*, for any set of vectors, indexes and values and vectors of any length.
    The invariant of the binary search says that what is looked for lies after all places
    before `start` and before all places from `end` on, unless the loop has hit it; with the
    vector in order the place that is returned is then the only one that keeps it so
    (`VectorsInOrder`).  `UpsertIsExact` adds that no other value changes, `CachesAreFresh` that a
    cache is forgotten with every change.  `VectorsAreMaps` puts it together: the vectors implement `SparseMaps`.
    The steps of the search change nothing of the map; in a vector in order a value is at the index of its pair
    and at no other (`MapFacts`), so that a pair that comes in is a new value of the map (`MapGrows`), and one that is added
    to is another value at the same index (`MapChanges`).
  - *The index*, for any documents, stemmer, stop words and queries.  `IndexImplementsVectors` is the step by which
    all of the above holds of the site (`SiteMagnitudesFresh`, `SiteVectorsAreMaps`): what building and asking do to the vectors is a
    step of `SearchVectors` or nothing.  The actions of the index are made of those of the vectors; what is to be proved is that
    each term that is inserted or asked for has an index and each frequency a value.
    The invariant `IndexInv` says so: the terms added so far are numbered apart and below
    their number (`TermsHaveIndexes`), a frequency counts places that come before those still to add, and a
    pending query knows only terms of the index.  `DocumentsAssumption` and `QueriesAssumption` say
    that the bounds `Indexes` and `Values` leave room for the documents and the boosts, and that the
    clauses of a query have fields that exist, which `ParseLexeme` sees to for each lexeme.
  - *The contents*, for any tree and any texts: `FilterShows`.  The lists are gone through in the order
    of the document while the classes change, so that what a parent finds below it depends on
    what the handler has done so far.  But all that is below a parent comes after it, and its
    leaves have been marked by then: `ShowParentsIs` says what the whole loop computes, and the invariant
    `Fits` what the classes are for the text in the box, whatever they were before.
    `ParentAssumption` is the order of the document.
  - *The outline*, for articles of any length, with or without ids, levels skipped or not: `OutlineShows`.  What the
    stack stands for is said by `Builds`: levels and open headings rise with the frames, the frame at the bottom has what
    the top of the outline owns, and the items of an open heading are those it has been given followed by the
    siblings of the frame above it.  A new heading belongs to the top of the stack after popping, because each
    heading above its level is open or has an open one after it that is not below it (`Covers`, `OwnerIsOpen`).  Popping moves
    siblings to their parent and changes neither (`BuildKeeps`).  That the error comes exactly
    when a heading stands above the level of the first needs that the bottom frame keeps that
    level (`FirstIsLowest`).
  - *The tabs*, for any groups that are coherent and any clicks: `OneTab` and the action property `ClicksSelect`.
    `Coherent` is a hypothesis of both, in plain sight, and not an assumption on the constants,
    since the code accepts other groups.  The invariant `TabInv` says that each group that follows the list is as the list has it
    (`Settled`) and that the list holds nothing but first ids of tabs that are seen and selected (`Held`).  A click
    breaks both, for the groups with the id that was replaced and for those whose condition it was;
    `AllSettled` follows the loop over the groups, which may change the list for groups that come later
    only, because groups that share an id share all their tabs and conditions come from before.
  - *The search strings*, for any questions, of any length: `QuestionsAreRead`.  Lexer and parser are loops over a sequence that
    can be cut at any place, the second part starting from where the first has ended (`LexedBoth`,
    `ReadingMore`), so that a string is read one written clause at a time.  A clause ends in a run of its own, a
    term or the digits of a number, which is closed by the space before the next clause or by the end of the string with the same lexemes;
    that the parser begins a new clause exactly at a field or a term, and keeps the distance and the boost with the
    term they follow, is in `ReadClause`.  Every character of a term is escaped where it has a meaning of its own, and
    a number of two digits is read back as it was.
  - *The box*, for any queries, keys and handlers: `QuietBoxIsCurrent`.  Its invariant follows the
    last thing of all: once the page is bound, what is in the box is the last query under way to
    the worker; or none is, and it is the last answer under way to the page; or no message is,
    and it is what is shown (`LastOfAll`).  Before, there is no message but the one that binds the page
    (`BoundByMessage`), and after it the worker keeps the index that it has announced (`AnnouncedTruly`).
* `Readings_proofs`, in two parts.
  - `ForEachObject`, for any objects, actions, failures and depth of nesting.  `IterationInv` has one
    part for every frame of the stack, finished or not: it has seen the objects up to its place, each
    answer but the last was "continue", and `caught` holds an exception just when the last was
    "throw"; only the top may be other than inside its action (`StackInv`).  From it follow
    `ActionsAreCalledInOrder`, `OutcomesAreTheActions` and, with the fact that an exception is made from the error at
    the moment of its failure, `FailuresAreTold`.
  - `IndexReading`, for indexes of any length and any number of enumerators.  `ReadingInv` says that the
    results of an enumerator are the decoded entries up to its cursor, and `StageIsLevel` that the
    stage comes out of the flag word whatever length and flags are in it: `EnumeratorsSkipNothing`,
    `CurrentFollowsMoveNext`, `LookupsFindWhatTheyName` and `EqualityFollowsPlaces`.
    `IndexesAssumption` is what libgit2 promises of an index.
* `Conversions_proofs`.  The invariant `AnswersTheQuestion` says that an answer
  is the result of the operator for the question that was asked; the theorems then
  follow from lemmas about the operators: what the digit table holds, that
  an id made from digits has these digits as half bytes (`RoundTrip`), that three
  blocks are all of an id (`EqualsIsIdentity`), and that the low bits of a value that
  fits are the value (`CastLemma`).  They hold for any set of texts, ids and numbers.
  `StringsSurvive` and `NamesReturn` are about strings of any length: `TextArrives` follows the units of a text
  and the characters of its bytes at the same time, one unit for each step but for the second of a pair, up
  to the first NUL, and `NativeComesBack` goes the other way.
  `BuffersEndWithTheCall` has an invariant of its own: a buffer belongs to a string
  that has been made, and such a string to the call (`BuffersAreOfCall`).

Assumed are the named assumptions on constants only, each of which TLC evaluates.

Where a model computes something step by step over a sequence (the loop over the parents, the stack of headings, `FlattenSeq` in the
conversions), the proof is by induction, which the provers cannot take from the library's
theorems, since those have an operator as parameter.  The lemma `UpTo` stands for them: a set of numbers
that holds every number whose predecessors it holds, holds all of them; it follows from the minimum of a
well-founded relation.  A recursive function must also be shown to exist (`FlattenFacts`, `LineageSolves`,
`ReadingSolves`, `PoppingSolves`, `ClosingSolves`, and `Iterates` for a loop over a sequence).

Only model-checked are

* `EventuallyFreed`, `EventuallyReleased` and `ResultsCatchUp`: liveness is out of the prover's reach;
* `TokenSetHoldsTerms`, which does not hold of every set of terms (see the run `search_digits`), and with it `HitsAreMatches`,
  which rest on walks along token sets that share nodes;
* `ScoresAddUp`, which compares folds over sets of terms, whose operators take an operator as parameter.

## 5. Not modelled, and the plan

1. `ObjectDatabases`: databases shared with repositories, reference counts, `AddBackend`
   and the ownership of backends, the setter of `Repository.ObjectDatabase` that guards
   neither argument, an action that disposes of the database it iterates; composed with
   `ForEachObject` in the run that checks it now.
2. `LibraryLifetime`: static constructor race, init count, critical finalizer at exit;
   composed with `NativeLifecycle` (no free after shutdown).
3. `CallShapes` extended: borrowed spans (`Blob.RawContent`, `GitBuffer.Content`,
   `ObjectDatabaseObject.Data`, `GlobalOptions.GetSearchPath`) and arguments that nobody
   guards (`FilterList.Apply(Blob)`).
4. References, blobs, indexes and databases as further children of a repository in
   `ObjectGraph`; `RevisionSpec` as a wrapper of two handles in `NativeOwnership`.
5. `NativeBoolean` and the null tests of `Ensure` in `NativeErrors`.

6. A second set of listeners after `window.refresh` (each `initTabs` adds one with a list of
   its own) in `TabGroups`, and groups that share some of their ids only.
7. Scores with field lengths and idf in `SearchIndex`, as an order of hits.

Proofs to come: `TokenSetHoldsTerms` for terms without digits, the ownership of backends and the order of shutdown.

Left out for good: the transformations of the documentation's models (`common.js`,
`*.common.js`), which map records to records without any state; the layout of pages in
`docfx.js` (tables, alerts, links, logo, footer, breadcrumb), which changes classes and markup
only; the algorithm of the stemmer, a table of suffixes that the rest takes as a
function; `docfx.vendor.js`, minified third-party code; test resources and the build.
libgit2 itself and its storage are out of scope; what the models assume of libgit2 is what the comments in
`src/Dogged.Native` say of it, and is marked external.
