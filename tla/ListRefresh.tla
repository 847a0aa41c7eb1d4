---------------------------- MODULE ListRefresh ----------------------------
(***************************************************************************)
(* The refresh of the trust anchor lists that every registry pod runs when *)
(* it is launched (TrustAnchorListService.onModuleInit): the loop over the *)
(* parent lists, the recursion of the eiDAS parser through the pointers to *)
(* other lists, the Mozilla parser, and the upserts into the two shared    *)
(* MongoDB collections.                                                    *)
(*                                                                         *)
(* A list document is named by its uri and by the pod that inserted it:    *)
(* nothing in the schema makes the uri unique.  The call stack of a launch *)
(* is a sequence of frames; the first frame is fetchAllTrustAnchorLists,   *)
(* the others are calls of getTrustAnchors.  The head of a frame's todo is *)
(* the item its loop is at.                                                *)
(***************************************************************************)
EXTENDS Integers, SequencesExt

CONSTANTS
  Pods,          \* processes that run the service over one database
  Uris,          \* uris of trust anchor lists
  ParentLists,   \* sequence of uris: definedTrustAnchorLists
  MozillaLists,  \* the uris read by the Mozilla parser, the others are eiDAS
  Certs,         \* certificates
  Offers,        \* Offers[u]: the certificates the publisher of u may list
  Pointers,      \* Pointers[u]: the OtherTSLPointers of list u, in order
  FetchInterval, \* days after which a list is due again (14 in the code)
  MaxClock,      \* bound: the clock stays within 0 .. MaxClock
  InProduction,  \* NODE_ENV is production: the launch forces the parent lists
  Faults,        \* which kinds of failure happen, see FaultKinds
  Never,         \* "lastFetchDate is not set"
  NoList         \* "no list": the frame of fetchAllTrustAnchorLists

FaultKinds == {"crash", "http", "lists", "anchors"}

ASSUME ConstantsAssumption ==
  /\ ParentLists \in Seq(Uris) /\ ParentLists # << >>
  /\ Pointers \in [Uris -> Seq(Uris)]
  /\ Offers \in [Uris -> SUBSET Certs]
  /\ FetchInterval \in Nat \ {0} /\ MaxClock \in Nat
  /\ InProduction \in BOOLEAN
  /\ Faults \subseteq FaultKinds
  /\ Never \notin Nat

\* A Mozilla list is only ever a parent list: the eiDAS parser makes every
\* list it finds behind a pointer an eiDAS list.
ASSUME MozillaAssumption ==
  \A u \in MozillaLists : /\ Pointers[u] = << >>
                          /\ \A v \in Uris : u \notin ToSet(Pointers[v])

ListIds == [uri : Uris, by : Pods]
ASSUME NoListAssumption == NoList \notin ListIds
Dates   == 0 .. MaxClock
Anchors == [list : ListIds, cert : Certs]
Frames  == [list : ListIds \cup {NoList}, found : SUBSET Anchors, todo : Seq(Uris)]

VARIABLES
  clock,         \* Date.now(), in days
  lists,         \* the trust anchor list documents
  lastFetchDate, \* field of a list document
  anchors,       \* the trust anchor documents
  pc,            \* where the launch of a pod is
  stack,         \* the call stack of a launch
  lastSeen,      \* history: what the last successful download of a list held
  clean          \* history: no failure since the pod was launched

stored == <<lists, lastFetchDate, anchors>>
vars == <<clock, stored, pc, stack, lastSeen, clean>>

Idle == {"down", "ready"}

TypeOK ==
  /\ clock \in Dates
  /\ lists \subseteq ListIds
  /\ lastFetchDate \in [ListIds -> Dates \cup {Never}]
  /\ anchors \subseteq Anchors
  /\ pc \in [Pods -> Idle \cup {"next", "find", "insert", "fetch", "stamp", "save"}]
  /\ stack \in [Pods -> Seq(Frames)]
  /\ lastSeen \in [ListIds -> SUBSET Certs]
  /\ clean \in [Pods -> BOOLEAN]

Init ==
  /\ clock = 0
  /\ lists = {}
  /\ lastFetchDate = [d \in ListIds |-> Never]
  /\ anchors = {}
  /\ pc = [p \in Pods |-> "down"]
  /\ stack = [p \in Pods |-> << >>]
  /\ lastSeen = [d \in ListIds |-> {}]
  /\ clean = [p \in Pods |-> FALSE]

-----------------------------------------------------------------------------
Top(s) == s[Len(s)]
SetTop(s, f) == [s EXCEPT ![Len(s)] = f]

\* Mutant: what the loop found before this item is dropped.
EndItemForgets(s, new) ==
  SetTop(s, [Top(s) EXCEPT !.found = new, !.todo = Tail(@)])

\* The loop of the top frame is done with its item and keeps what it found.
EndItem(s, new) ==
  SetTop(s, [Top(s) EXCEPT !.found = @ \cup new, !.todo = Tail(@)])

Target(p) == Head(Top(stack[p]).todo)
AtRoot(p) == Len(stack[p]) = 1
IsMozilla(d) == d.uri \in MozillaLists
AnchorsOf(d, certs) == {[list |-> d, cert |-> c] : c \in certs}

Goto(p, label) == pc' = [pc EXCEPT ![p] = label]
SetStack(p, s) == stack' = [stack EXCEPT ![p] = s]

\* A call fails: only failures of the kinds in Faults happen.
Failure(p, kind) ==
  /\ kind \in Faults
  /\ clean' = [clean EXCEPT ![p] = FALSE]

\* Mutant: the age of a list is taken without its absolute value.
DueIfPast(d) ==
  lastFetchDate[d] # Never => clock - lastFetchDate[d] >= FetchInterval

\* shouldFetchNow: no date, or 14 days away from now in either direction.
Due(d) ==
  lastFetchDate[d] # Never => \/ clock - lastFetchDate[d] >= FetchInterval
                              \/ lastFetchDate[d] - clock >= FetchInterval

\* Mutants: force is lost, is passed on to the lists behind pointers, or a list
\* is fetched only once.
WantedIfDue(p, d) == Due(d)
WantedEverywhere(p, d) == InProduction \/ Due(d)
WantedOnce(p, d) == lastFetchDate[d] = Never

\* Only the parent lists are forced; a list behind a pointer never is.
Wanted(p, d) == (InProduction /\ AtRoot(p)) \/ Due(d)

\* fetchTrustAnchors: return [] at once, or call the parser.
Visit(p, d) ==
  \/ /\ Wanted(p, d)
     /\ SetStack(p, Append(stack[p], [list |-> d, found |-> {}, todo |-> << >>]))
     /\ Goto(p, "fetch")
  \/ /\ ~Wanted(p, d)
     /\ SetStack(p, EndItem(stack[p], {}))
     /\ Goto(p, "next")

-----------------------------------------------------------------------------
\* The pod is launched and runs onModuleInit.
Launch(p) ==
  /\ pc[p] = "down"
  /\ SetStack(p, <<[list |-> NoList, found |-> {}, todo |-> ParentLists]>>)
  /\ clean' = [clean EXCEPT ![p] = TRUE]
  /\ Goto(p, "next")
  /\ UNCHANGED <<clock, stored, lastSeen>>

\* The next item of a loop; behind a pointer its list is downloaded first,
\* only to learn its name.
TakeItem(p) ==
  /\ pc[p] = "next"
  /\ Top(stack[p]).todo # << >>
  /\ Goto(p, "find")
  /\ UNCHANGED <<clock, stored, stack, lastSeen, clean>>

\* Mutant: the error leaves the loop, and the call returns nothing.
TakeItemFailsReturns(p) ==
  /\ pc[p] = "next"
  /\ ~AtRoot(p)
  /\ Top(stack[p]).todo # << >>
  /\ Failure(p, "http")
  /\ SetStack(p, EndItem(Front(stack[p]), {}))
  /\ UNCHANGED <<clock, stored, pc, lastSeen>>

\* That download fails: log and continue with the next pointer.
TakeItemFails(p) ==
  /\ pc[p] = "next"
  /\ ~AtRoot(p)
  /\ Top(stack[p]).todo # << >>
  /\ Failure(p, "http")
  /\ SetStack(p, EndItem(stack[p], {}))
  /\ UNCHANGED <<clock, stored, pc, lastSeen>>

\* The upsert of the list document {uri}.  The server first looks for a match,
\* any one of them if there are several ...
Find(p) ==
  LET matches == {d \in lists : d.uri = Target(p)}
  IN /\ pc[p] = "find"
     /\ \/ \E d \in matches : Visit(p, d)
        \/ matches = {} /\ Goto(p, "insert") /\ UNCHANGED stack
     /\ UNCHANGED <<clock, stored, lastSeen, clean>>

\* ... and inserts if there was none.
Insert(p) ==
  LET d == [uri |-> Target(p), by |-> p]
  IN /\ pc[p] = "insert"
     /\ lists' = lists \cup {d}
     /\ Visit(p, d)
     /\ UNCHANGED <<clock, lastFetchDate, anchors, lastSeen, clean>>

\* Mutant: the loops try the same item again.
FindFailsRetries(p) ==
  /\ pc[p] = "find"
  /\ Failure(p, "lists")
  /\ Goto(p, "next")
  /\ UNCHANGED <<clock, stored, stack, lastSeen>>

\* The upsert fails: the loop over the parents ends, the one over pointers
\* continues.
FindFails(p) ==
  /\ pc[p] = "find"
  /\ Failure(p, "lists")
  /\ \/ AtRoot(p) /\ Goto(p, "save") /\ UNCHANGED stack
     \/ ~AtRoot(p) /\ Goto(p, "next") /\ SetStack(p, EndItem(stack[p], {}))
  /\ UNCHANGED <<clock, stored, lastSeen>>

\* The download of a list succeeds, with whatever it holds today.
Fetch(p) ==
  LET d == Top(stack[p]).list
  IN /\ pc[p] = "fetch"
     /\ \E served \in SUBSET Offers[d.uri] :
          /\ lastSeen' = [lastSeen EXCEPT ![d] = served]
          /\ SetStack(p, SetTop(stack[p], [list  |-> d,
                                           found |-> AnchorsOf(d, served),
                                           todo  |-> Pointers[d.uri]]))
     /\ Goto(p, "stamp")
     /\ UNCHANGED <<clock, stored, clean>>

\* The download fails.  The eiDAS parser returns what it has, nothing, and the
\* Mozilla parser updates the lastFetchDate all the same.  So does the eiDAS
\* parser if it was served some other document: that is a list without trust
\* anchors to it, and fails only at the pointers.
FetchFails(p) ==
  /\ pc[p] = "fetch"
  /\ Failure(p, "http")
  /\ \/ ~IsMozilla(Top(stack[p]).list) /\ Goto(p, "next")
     \/ Goto(p, "stamp")
  /\ UNCHANGED <<clock, stored, stack, lastSeen>>

\* Mutant: lastFetchDate is when the list is due next.
StampDueDate(p) ==
  /\ pc[p] = "stamp"
  /\ lastFetchDate' = [lastFetchDate EXCEPT ![Top(stack[p]).list] = clock + FetchInterval]
  /\ Goto(p, "next")
  /\ UNCHANGED <<clock, lists, anchors, stack, lastSeen, clean>>

Stamp(p) ==
  /\ pc[p] = "stamp"
  /\ lastFetchDate' = [lastFetchDate EXCEPT ![Top(stack[p]).list] = clock]
  /\ Goto(p, "next")
  /\ UNCHANGED <<clock, lists, anchors, stack, lastSeen, clean>>

\* Mutant: the parser lets the error through and its anchors are lost.
StampFailsThrows(p) ==
  /\ pc[p] = "stamp"
  /\ Failure(p, "lists")
  /\ Goto(p, "next")
  /\ SetStack(p, EndItem(Front(stack[p]), {}))
  /\ UNCHANGED <<clock, stored, lastSeen>>

\* The update of lastFetchDate fails.  The eiDAS parser returns its own anchors
\* without a look at the pointers; the Mozilla parser throws from its finally
\* block, which ends the loop over the parents.
StampFails(p) ==
  /\ pc[p] = "stamp"
  /\ Failure(p, "lists")
  /\ \/ /\ ~IsMozilla(Top(stack[p]).list)
        /\ SetStack(p, SetTop(stack[p], [Top(stack[p]) EXCEPT !.todo = << >>]))
        /\ Goto(p, "next")
     \/ /\ IsMozilla(Top(stack[p]).list)
        /\ SetStack(p, <<Head(stack[p])>>)
        /\ Goto(p, "save")
  /\ UNCHANGED <<clock, stored, lastSeen>>

\* Mutant: the caller files what a nested list holds under its own _list.
ReturnAsOwn(p) ==
  /\ pc[p] = "next"
  /\ ~AtRoot(p)
  /\ Top(stack[p]).todo = << >>
  /\ LET caller == Top(Front(stack[p]))
         own == {IF caller.list = NoList THEN a ELSE [a EXCEPT !.list = caller.list] :
                   a \in Top(stack[p]).found}
     IN SetStack(p, EndItem(Front(stack[p]), own))
  /\ UNCHANGED <<clock, stored, pc, lastSeen, clean>>

\* getTrustAnchors returns to the loop that called it.
Return(p) ==
  /\ pc[p] = "next"
  /\ ~AtRoot(p)
  /\ Top(stack[p]).todo = << >>
  /\ SetStack(p, EndItem(Front(stack[p]), Top(stack[p]).found))
  /\ UNCHANGED <<clock, stored, pc, lastSeen, clean>>

\* All parents are done: updateTrustAnchors starts an upsert per anchor.
BeginSave(p) ==
  /\ pc[p] = "next"
  /\ AtRoot(p)
  /\ Top(stack[p]).todo = << >>
  /\ Goto(p, "save")
  /\ UNCHANGED <<clock, stored, stack, lastSeen, clean>>

Pending(p) == stack[p][1].found
Settle(p, a) ==
  SetStack(p, SetTop(stack[p], [Top(stack[p]) EXCEPT !.found = @ \ {a}]))

\* The upserts are all in flight and take effect in any order.
SaveAnchor(p) ==
  /\ pc[p] = "save"
  /\ \E a \in Pending(p) : anchors' = anchors \cup {a} /\ Settle(p, a)
  /\ UNCHANGED <<clock, lists, lastFetchDate, pc, lastSeen, clean>>

\* One fails, is logged, and the others go on.
SaveAnchorFails(p) ==
  /\ pc[p] = "save"
  /\ Failure(p, "anchors")
  /\ \E a \in Pending(p) : Settle(p, a)
  /\ UNCHANGED <<clock, stored, pc, lastSeen>>

\* onModuleInit returns.
Ready(p) ==
  /\ pc[p] = "save"
  /\ Pending(p) = {}
  /\ Goto(p, "ready")
  /\ SetStack(p, << >>)
  /\ UNCHANGED <<clock, stored, lastSeen, clean>>

\* The process ends, in the middle of a launch or (a redeployment) later.
Stop(p) ==
  /\ pc[p] # "down"
  /\ pc[p] = "ready" \/ "crash" \in Faults
  /\ Goto(p, "down")
  /\ SetStack(p, << >>)
  /\ clean' = [clean EXCEPT ![p] = FALSE]
  /\ UNCHANGED <<clock, stored, lastSeen>>

\* Days pass between launches.  The code reads the wall clock, which may also
\* be set back.
ClockMoves ==
  /\ \A p \in Pods : pc[p] \in Idle
  /\ \E t \in Dates \ {clock} : clock' = t
  /\ UNCHANGED <<stored, pc, stack, lastSeen, clean>>

Refresh(p) ==
  \/ TakeItem(p) \/ TakeItemFails(p)
  \/ Find(p) \/ Insert(p) \/ FindFails(p)
  \/ Fetch(p) \/ FetchFails(p)
  \/ Stamp(p) \/ StampFails(p)
  \/ Return(p) \/ BeginSave(p)
  \/ SaveAnchor(p) \/ SaveAnchorFails(p) \/ Ready(p)

Next ==
  \/ \E p \in Pods : Launch(p) \/ Refresh(p) \/ Stop(p)
  \/ ClockMoves

Spec == Init /\ [][Next]_vars

\* Every awaited call settles, and a pod that is down is launched again
\* (restartPolicy Always, restart unless-stopped).
FairSpec == Spec /\ \A p \in Pods : WF_vars(Launch(p)) /\ WF_vars(Refresh(p))

-----------------------------------------------------------------------------
(* Properties *)

\* Frame i of the stack of a launch is done with its own list: its date is
\* set and its loop over the pointers has begun.
Entered(p, i) ==
  \/ i < Len(stack[p])
  \/ pc[p] \in {"find", "insert"}
  \/ pc[p] = "next" /\ stack[p][i].todo # << >>

\* The recursion through the pointers never re-enters a list it is already in,
\* although the lists point at each other: the date written before the pointers
\* are followed stops it ("to prevent fetching the list again if it is found in
\* any OtherTSLPointer", EiDASTrustedListParser.service.ts:50).  A list is its
\* document: where two documents have one uri, each may be entered once.
NoReentry ==
  \A p \in Pods : \A i, j \in 2 .. Len(stack[p]) :
    stack[p][i].list = stack[p][j].list => i = j

FoundIn(s) == UNION {s[i].found : i \in 1 .. Len(s)}
Kept == anchors \cup UNION {FoundIn(stack[p]) : p \in Pods}

\* No process is killed, no upsert of an anchor fails, and no Mozilla parser
\* throws what it has found away because it cannot stamp its list.
LosslessFaults ==
  /\ Faults \cap {"crash", "anchors"} = {}
  /\ "lists" \in Faults => MozillaLists = {}

\* With LosslessFaults, every anchor that the
\* last successful download of a list held is stored or on its way into the
\* database, whatever downloads fail around it and whichever pod made it.
NothingSeenIsLost ==
  \A d \in ListIds : AnchorsOf(d, lastSeen[d]) \subseteq Kept

\* A stored anchor refers to a stored list document, and to the list whose
\* publisher lists the certificate: parsing nested lists on the way never mixes
\* up the _list under which an anchor is stored.
AttributedToSource ==
  \A a \in anchors : a.list \in lists /\ a.cert \in Offers[a.list.uri]

\* The dates less than the interval away from now, in the past or in the future.
RecentDates == (clock - FetchInterval + 1) .. (clock + FetchInterval - 1)
RecentDocument(u) ==
  \E d \in lists : d.uri = u /\ lastFetchDate[d] \in RecentDates \ {Never}

\* When a launch without any failure comes to its save, every parent list has a
\* fetch date within the interval; if the launch was forced, so has every list a
\* parent list points at ("force update to ensure eiDAS list and nested lists
\* are checked correctly", trust-anchor-list.service.ts:41).  A date far in the
\* future, from before the clock was set back, is no such date.
CleanLaunchIsFresh ==
  \A p \in Pods : pc[p] = "save" /\ clean[p] =>
    \A u \in ToSet(ParentLists) :
      /\ RecentDocument(u)
      /\ InProduction => \A v \in ToSet(Pointers[u]) : RecentDocument(v)

SavedAsSeen(d) == AnchorsOf(d, lastSeen[d]) \subseteq anchors

\* A forced launch without a failure repairs what crashes and failed writes of
\* earlier launches lost of the parent lists, where a single pod is at work.
ForcedLaunchRepairsParents ==
  \A p \in Pods : InProduction /\ pc[p] = "ready" /\ clean[p] =>
    \A d \in lists : d.uri \in ToSet(ParentLists) => SavedAsSeen(d)

\* The same for every list, "Ensure that DB is updated on application launch"
\* (trust-anchor-list.service.ts:37).  Not so: a list behind a pointer that was
\* stamped by a launch that did not live to save is not due for 14 days.
LaunchUpdatesDatabase ==
  \A p \in Pods : pc[p] = "ready" /\ clean[p] => \A d \in lists : SavedAsSeen(d)

\* There is one document per list uri ("If the entry is not found a new one will
\* be created", trust-anchor-list.service.ts:92).  Not so with two pods: the
\* upsert looks and inserts in two steps and the uri has no unique index.
OneDocumentPerUri ==
  \A d, e \in lists : d.uri = e.uri => d = e

\* The refresh implements AnchorCollection: the one loop, recursive call, error
\* path or interleaving that would drop, invent, relabel or remove an anchor has
\* no counterpart there.  With LosslessFaults nothing may be lost at all.
Collection ==
  INSTANCE AnchorCollection WITH
    Offered <- [d \in ListIds |-> AnchorsOf(d, Offers[d.uri])],
    Lossy   <- ~LosslessFaults,
    held    <- [p \in Pods |-> FoundIn(stack[p])]

ImplementsCollection == Collection!Spec

\* What a download held gets into the database, if LosslessFaults, although lists
\* stop to be due, other downloads and updates of dates fail, and the database is
\* written only after the last list was read (FairSpec).
DownloadedIsStored ==
  \A d \in ListIds : \A c \in Certs :
    c \in lastSeen[d] ~> [list |-> d, cert |-> c] \in anchors

\* A launched pod gets through its refresh, cyclic pointers and failing
\* downloads notwithstanding (FairSpec, without crashes).
LaunchSettles == \A p \in Pods : pc[p] = "down" ~> pc[p] = "ready"
=============================================================================
