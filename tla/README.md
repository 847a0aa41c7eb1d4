# gx-registry in TLA+

The Gaia-X registry answers two questions: is a given certificate a trust anchor,
and does a given certificate chain lead to one. To do so it downloads lists of trust
anchors from their publishers when it is launched, keeps them in MongoDB, and caches
the certificates in the memory of each process. This directory models that part of
the program, checks it with TLC on small instances and proves the main safety
properties with TLAPS. Paths below are relative to the repository.

## 1. The system and its parts

| part | state | operations | interacts with |
| --- | --- | --- | --- |
| List refresh: `TrustAnchorListService`, the two parsers, `updateTrustAnchors` | MongoDB collections of list documents (`uri`, `parserClass`, `lastFetchDate`) and trust anchor documents (`certificate`, `_list`) | `onModuleInit` → `fetchAllTrustAnchorLists` → `fetchTrustAnchors` → `getTrustAnchors`, which calls back into `fetchTrustAnchors` for every pointer | publishers over HTTP; all pods write to the same database |
| Certificate cache: `TrustAnchorService` | one key in the process memory, without ttl | `onApplicationBootstrap`, `cacheAllTrustAnchorCertificates`, `retrieveCertificatesFromCache`, `validateCertChain` | reads the anchors of the database; filled by the bootstrap or by requests |
| eiDAS parser | none between calls | loop over providers, filter of services, conversion to anchors | called by the refresh for each downloaded document |
| Mozilla parser | the records of the CSV while it is parsed | select and clean the columns of each record | called by the refresh |
| Lookup `POST trustAnchor` (and its V1 form) | none | one query by the text of the certificate | the texts that the parsers stored |
| Chain pipes | none | split and strip PEM text, or download it first | in front of `validateCertChain` |
| Shapes, terms and conditions, compliance issuers, query validation, Swagger | none | static answers | – |

`AppModule` imports `TrustAnchorModule` only; the V1 controller is not reachable.
Nest runs all `onModuleInit` hooks, then all `onApplicationBootstrap` hooks, then
listens (`main.ts`). Each process is a pod: `docker-compose.yml` and `k8s/` run one
with a restart policy, and a deployment briefly runs an old and a new one. Nothing in
the code excludes several.

What is hard here:

* **Recursion through cyclic data.** The list of lists points at itself and at lists
  that point back. Only `lastFetchDate`, written to the database between the read of a
  list and the walk over its pointers, ends the recursion.
* **Two commits far apart.** A list is stamped as fetched when it is read, its anchors
  are stored after *all* lists were read. Crashes and exceptions fall in between.
* **Exceptions with three different ranges.** A failing pointer is skipped, a failing
  list yields what it has, a failing parent ends the loop over the parents, and a
  `finally` that returns hides all of them.
* **Several pods.** An upsert without a unique index is a look and an insert.
* **A cache nobody invalidates**, filled by whoever gets there first.
* **Two components that meet in the database only.** The cache must see what the refresh
  of its own launch stored; nothing but the order of two lifecycle hooks says so.
* **Several texts of one certificate.** Lists and clients write it in different forms, and
  each path through the program cleans a different part of that up.

What makes each part correct: nothing that was downloaded gets lost; anchors are filed
under the list they come from; a launch without failure leaves the lists fresh and
repairs what earlier ones lost; every launch and every request ends; a cache holds what
is stored and at least what its own launch stored; answers agree with it; no conversion of
texts makes another certificate of one, or none.

## 2. Modules

| module | content |
| --- | --- |
| `ListRefresh` | the refresh, for any number of pods over one database |
| `ListRefreshProofs` | theorems about it |
| `ListRefreshFreshness` | theorems about what a launch without failure achieves |
| `AnchorCollection` | what the refresh amounts to: processes collect anchors from lists and store them |
| `ListRefreshRefinement` | proof that `ListRefresh` implements `AnchorCollection` |
| `MCListRefresh` | instances: an eiDAS list of lists, nested lists that point back, a Mozilla list |
| `CertificateCache` | bootstrap, cache and chain requests, for any number of pods |
| `CertificateCacheProofs` | theorems about it |
| `MCCertificateCache` | instances with two pods and three requests |
| `Registry` | the composition of `ListRefresh` and `CertificateCache` over one database |
| `RegistryProofs` | that `Registry` implements `CertificateCache`, and theorems of both together |
| `MCRegistry` | its instance |
| `TrustedList` | what the eiDAS parser extracts from one document |
| `TrustedListProofs` | theorems about it |
| `SequenceLemmas` | induction over numbers and sequences, and what `FlattenSeq` computes |
| `MCTrustedList` | all small documents |
| `CertificateTexts` | the forms of a certificate's text and the conversions of it |
| `TrustAnchorLookup` | the Mozilla records, the stored texts, lookups and chain pipes |
| `TrustAnchorLookupProofs` | theorems about both |
| `MCTrustAnchorLookup` | its instance |

Each module with actions also contains a few operators marked *Mutant*. They are no part
of the specification: each is an action or operator as a plausible mistake would leave
it, and shows that some property below notices the mistake.

### ListRefresh

The call stack of a launch is a sequence of frames `[list, found, todo]`. The first
frame is `fetchAllTrustAnchorLists` with the parent lists to do; each further frame is a
call of `getTrustAnchors` with the pointers to do. `found` is the local array of trust
anchors of that call.

| action | code |
| --- | --- |
| `Launch` | `onModuleInit` calls `fetchAllTrustAnchorLists` |
| `TakeItem`, `TakeItemFails` | next parent; or next pointer, whose document is downloaded for its name |
| `Find`, `Insert`, `FindFails` | `findOneAndUpdate` with `upsert`, as the two steps that the server makes of it without a unique index |
| inside them, `Visit` | `fetchTrustAnchors`: `force`, `shouldFetchNow`, and the call of the parser |
| `Fetch`, `FetchFails` | download and parse of the list itself |
| `Stamp`, `StampFails` | `updateOne` of `lastFetchDate` |
| `Return` | `getTrustAnchors` returns its array to its caller's |
| `BeginSave`, `SaveAnchor`, `SaveAnchorFails`, `Ready` | `updateTrustAnchors`: all upserts in flight, effects in any order, failures logged |
| `Stop` | the process ends |
| `ClockMoves` | the wall clock |

A list document is identified by its uri and the pod that inserted it, enough to have
several per uri. `served` in `Fetch` is any subset of what the publisher may list, so
lists change between downloads and partial parses are included. `FetchFails` covers the
failed request, after which only the Mozilla parser stamps the list, and a document that
is no trusted list, which the eiDAS parser stamps too.

Assumptions: the clock, counted in days, stands still while a pod refreshes, so that what
is said of dates at the save is said of the dates at the visit (the code reads the clock
again each time, and a list just below 14 days may come of age in between); the pointers
of a list do not change; a Mozilla list is never behind a pointer
(`getCreateTrustAnchorListDto` makes every such list an eiDAS list). History variables:
`lastSeen` (the last good download of each list) and `clean` (no failure in this launch).

### CertificateCache

`phase[p]` follows a pod through `refresh` (`onModuleInit`, abstracted to a database that
grows), `boot` and `fill` (the two halves of `cacheAllTrustAnchorCertificates` in
`onApplicationBootstrap`) to `up`. `stage[r]` follows a request through
`retrieveCertificatesFromCache` (`get`, and after a miss `read` and `set`) to the
validation engine (`verify`). Every `await` is a boundary between actions, so fills of
several requests and stores of other pods interleave. A chain is abstracted to the set of
anchors it verifies against in one of the two orders that `validateCertChain` tries;
the engine itself belongs to pkijs. `Parsable` are the certificates that
`getCertificatesFromRaw` does not throw at. `EagerCache` is false in development and
test, where the bootstrap hook returns at once. An answer is a verdict of the engine,
`accepted` or `denied`, or `failed`: the 409 of `validateCertChain` when the chain of the
request does not decode, or the fill that it needs reads or parses in vain. A request may
be sent again and again.

### TrustedList

One document as `xmlParser` and `getValueAsArray` give it: providers, services, digital
ids, with the elements that may lack. `ReadProviderThrows` is the `catch` around the loop
over the providers, which keeps what was found before; `MakeAnchorThrows` is the exception
in `getNameAsString`, which loses the list. The first is a `Fetch` of `ListRefresh` that
serves a part, the second a `FetchFails` without stamp.

### AnchorCollection

The abstract specification of the refresh: lists appear, a process downloads anchors of a
list that is in the database, stores one of those it holds, or, only if `Lossy`, loses
some. `ListRefresh!Collection` instantiates it with `held[p]` as the union of all `found`
on the call stack of `p` and `Lossy` as the negation of `LosslessFaults`. Loops, recursion,
dates, `finally` blocks and the order of upserts are steps in between that must leave those
variables alone: the refinement fails if any of them drops, invents or relabels an anchor.

### Registry

`R` is `ListRefresh` and `C` is `CertificateCache` with `store` replaced by the
certificates of `anchors`, the cache being eager and the parents being forced as
`NODE_ENV` has it. Each action of `Registry` is an action of `R` or of `C`, or of both:

| action | `R` | `C` | why |
| --- | --- | --- | --- |
| `Launch` | `Launch` | `Launch` | one process |
| `Refresh` | `Refresh` | – | what it stores is `C`'s environment |
| `Bootstrap` | at `ready` | `Bootstrap` | Nest awaits `onModuleInit` first |
| `Cache`, `Serve` | – | `BootRead`, `BootFill`; `Ask`, `Serve` | |
| `Exit` | `Stop` | `BootFails`, `Crash` | one process |
| `ClockMoves` | `ClockMoves` | – | |

`C`'s own `Refresh` is no action of `Registry`; `CacheComponent` says that the refresh does
to the database what that abstraction of it allows. `downloaded` is a history variable.

### CertificateTexts and TrustAnchorLookup

A text is a sequence of tokens: white space and quotes by the character, PEM lines and
the halves of the base64 data as one token each. That is fine enough for what the code
tells apart: `stripPEMInfo` (BEGIN and END lines with the quotes around them, and line
feeds but no carriage returns), the `trim` of the schema (on what is stored and on a
query), the split at BEGIN lines with the filter by length, and the tolerance of
`Buffer.from(…, "base64")` for white space. The decoding of a certificate looks at the
start of the data and ignores what follows, as `Certificate.fromBER` does. A PKCS7 file is
its two lines and a container, one token that decodes to no certificate whatever it holds.

`TrustAnchorLookup` follows the texts: eiDAS certificates are stored as they are written;
a CSV is parsed record by record (`ReadRecord`, `ReadRecordThrows`), each with the column
`PEM Info`, empty, broken or without it; `Request` is any lookup or chain request, with
its answer up to the point where a chain goes to the validation of `CertificateCache`.
Upserts run no validators, so an empty cell is stored although the field is `required`.

## 3. Runs

| run | instance | shows |
| --- | --- | --- |
| `RefreshOnePod` | 1 pod, production, lists lotl → {lotl, nat}, nat → {lotl}, moz; interval 2, clock 0..2; crashes, failing downloads, list and anchor writes | `TypeOK`, `AttributedToSource`, `CleanLaunchIsFresh`, `ForcedLaunchRepairsParents` |
| `RefreshTwoPods` | 2 symmetric pods, production, lotl and nat, no failures | `NoReentry`, `NothingSeenIsLost`, `ImplementsCollection` under all interleavings (`NoReentry` is about list documents: where a race has made two of one uri, both may be on the stack) |
| `RefreshLiveness` | 1 pod, not production, three nested lists, failing downloads and list writes, fairness | `LaunchSettles`, `DownloadedIsStored`, `CleanLaunchIsFresh`; `NothingSeenIsLost`, `ImplementsCollection` with an exception at each depth |
| `CacheEager` | 2 pods, 3 requests, bootstrap fills; failing reads and crashes | `TypeOK`, `CacheSound`, `AnswersSound`, `EagerNeverMisses`, `AnswersAgree` |
| `CacheLazy` | the same pods with fills on demand, 2 requests, crashes and failing reads, one certificate does not parse; fairness | `CacheSound`, `AnswersSound`, `NoFalseDenial`, `Answered` |
| `RegistryTwoPods` | 2 pods, production, a parent list with one certificate and a list with another that nobody fetches, a request to each pod, one per certificate; crashes, failing upserts and reads | `TypeOK`, `DownloadedIsTrusted`, `AcceptedIsOffered`, `CacheComponent` |
| `TrustedListParse` | all lists of ≤ 2 providers with ≤ 2 services each | `TypeOK`, `ReturnsReadable` |
| `Lookup` | 2 certificates, 6 forms; CSVs of ≤ 2 records; chains of ≤ 2 certificates with 5 leads and 3 line ends | `TypeOK`, `CsvAllOrNothing`, `StoredAsPublished`, `FoundIsPublished`, `ClearedIsFound`, `PemIsNotFound`, `ChainIsSplit` |

Runs that TLC must refute, because a comment or the documentation promises more than the
code does:

| run | claim | what happens |
| --- | --- | --- |
| `RefreshCrash` | "Ensure that DB is updated on application launch" | a pod dies between stamp and save; the next, forced and faultless launch skips the nested list, which stays out of the database until it is due again |
| `RefreshDuplicate` | "If the entry is not found a new one will be created" | two pods insert the same list twice |
| `CacheUnparsable` | "Ensure that certificates from DB are cached at onApplicationBootstrap event" | one stored certificate that does not parse ends every bootstrap from then on |
| `CacheOverwrite` | "Will set the respective cache key, if not set already" | two requests miss the cache, another pod stores a certificate between their reads, and the one that read first sets the key last: the cache holds less than before and stays so |

Lesser facts the models show without a run of their own: a lookup takes "the raw certificate
in pem format" (`trust-anchor-request.dto.ts:5`), yet never finds a certificate by its PEM
text, for only what is stored is stripped (`PemIsNotFound`); of a file with a chain "PEM or
PKCS7 format are expected" (`trust-anchor-chain-request.dto.ts:16`), yet nothing unpacks a
PKCS7 container and the answer is a 409 (`ChainIsSplit`); a provider that cannot be read
takes all later providers of its list along (`ReturnsReadable` says exactly what is left); a record without the column takes all others along; an eiDAS
certificate that is written in lines is not found by its cleared text, which README.md:79
asks for (`ClearedIsFound` names it); two carriage returns before the first BEGIN line fail
a chain (`ChainIsSplit`). Anchors are never removed from the database and the cache is
never renewed: what a publisher withdraws stays trusted, and a pod does not see what
another pod stores later. No property is about either, since the code has no operation
that would do it.

### Bounds

`MaxClock` bounds the clock; with it equal to `FetchInterval` a list is fresh, exactly
due, and stamped in the future, where `shouldFetchNow` takes the absolute value of the age
(`CleanLaunchIsFresh` states by itself which dates are less than an interval away, so that
a test without it is noticed). `RefreshTwoPods` has no failures, for two pods with failures
are too many states; `RefreshLiveness` has them with one pod, and the theorems with any
number. Two lists that point at each other and at themselves give
each way to come back to a list on the stack; the third list gives a return through an
intermediate frame; the Mozilla list gives the second parent, whose failure ends the loop
after a first one has found something. One certificate per list suffices because anchors
are independent of each other; the same certificate on two lists tests `_list`. Two pods
suffice for each race in an upsert, which has two steps; the theorems do not have this
bound. Two requests to one pod race to fill; the pod beside it makes the database grow.
Two providers are the fewest with a "later" one. In `RegistryTwoPods` one fetched
list with one certificate suffices for the paths of a certificate from the publisher to a
verdict; the other pod stores the same certificate earlier, later or never. The other list
is behind no pointer, so the request for its certificate must never be accepted. The
theorems have none of these bounds. The six forms of `Lookup` give each conversion something to do
and something to leave; chains of two are the fewest with an order; two records are the
fewest with one before the one that throws.

### Fairness

`ListRefresh!FairSpec`: weak fairness of `Launch(p)`, from `restartPolicy: Always` and
`restart: unless-stopped`, and of the refresh of each pod as a whole: an awaited call
settles, with or without an error. The latter is an assumption about the network, for
`httpService.get` is called without a timeout; it does not say that any call ever
succeeds, and a download that hangs for good is outside the model. The liveness run has no
crashes. `CertificateCache!FairSpec`: the same for the
hooks of a pod and for each request. `CacheLazy` has crashes; a request then counts
as settled when its pod dies.

## 4. Proofs

For every value of the constants that satisfies the ASSUMEs of the modules:

* `TypeCorrect` (in the proof module of each component): `Spec => []TypeOK`. In `ListRefresh` it needs `ShapeInv`:
  the stack of an idle pod is empty, the label of a pod fits the depth of its stack, each
  frame but the top one has an item it is at, and the lists of called frames are stored.
  Without it `Head`, `Tail` and `Front` would be applied to empty sequences.
* `RecursionEnds`: `Spec => []NoReentry`, for any graph of pointers. The invariant says
  that a list on the stack whose frame is past its stamp is not due now, so `Visit` cannot
  enter it again; that holds since the clock stands still while a pod refreshes and other
  pods can only stamp with the same date.
* `SeenIsKept`: `LosslessFaults` implies `Spec => []NothingSeenIsLost`. Each action moves
  anchors between frames, or from the last frame into the database; lemmas say what
  push, pop, the replacement of the top and the end of an item do to the union of all
  `found`. `LosslessFaults` names the failures that do lose anchors: a crash, a failed
  upsert of an anchor, a Mozilla stamp that throws.
* `AttributedCorrect`: `Spec => []AttributedToSource`, under all failures.
* `CleanLaunchRefreshes`: `Spec => []CleanLaunchIsFresh`, for any graph of pointers, any
  number of pods and whatever failed in other launches. `ProgressInv` says of a clean launch
  that what a loop has behind it is fresh, of the loop over the parents and of the loop of
  each call on the stack. It needs every frame, since the item of a frame is done by the
  frame above it (`CallsMatch`). A list that `Visit` passes over is not due, other pods only
  ever make lists fresher, and what is not due has a recent date (`FreshIsRecent`: the
  property is stated about dates, apart from `shouldFetchNow`).
* `ForcedLaunchRepairs`: `OnePod` implies `Spec => []ForcedLaunchRepairsParents`, under all
  failures of earlier launches. `RepairInv`: each parent list is still to be visited, or all
  that its last good download held is stored or held by the launch. The hypothesis is
  needed: with two pods TLC finds the property violated, since what the other pod downloads
  of a parent list meanwhile, and loses in a crash, this launch knows nothing of.
* `ParseCorrect`: `Spec => []ReturnsReadable` of `TrustedList`, for documents of any length.
  The property is about the end of the parse. `ParseInv` is what holds on the way: the
  anchors made so far, followed by the certificates of the services found so far, are what
  the reference says of the providers read so far. A step of the first loop extends both
  sides by what one provider published, a step of the second moves one certificate from
  the second part to the first.
* `CacheCorrect`, `AnswersCorrect`, `DenialsCorrect`: one inductive invariant `CacheInv`
  follows the certificates from the store through `booted` or `trusted` into the cache;
  it needs that a pod that is not up has an empty cache and no requests.
  `DenialsCorrect` holds under all faults, because a failed fill is an error and no verdict.
* `EagerCorrect`, `AgreementCorrect`: `EagerInv`, on top of `CacheInv`: what a request
  read is what is cached now.
* `CollectionImplemented`: `Spec => ImplementsCollection`. `HeldByStep` says for each action
  of the refresh what it does to the union of all `found` and to the database; each case is
  a step of `AnchorCollection` or a stutter, and loss needs a failure against
  `LosslessFaults`.
* `CacheImplemented`: `Registry` implements `CertificateCache`. `RegistryProofs` instantiates
  the proof modules of both components, shows that their steps are those of the registry's
  components, and so has their invariants at hand. Its own `Inv` adds that the two agree on
  where a pod is in its life (`Aligned`), without which a refresh could store something
  after the bootstrap of its pod.
* `DownloadsTrusted`: `Spec => []DownloadedIsTrusted`. `NothingMissing` follows what a clean
  launch downloaded: held or stored during the refresh, known from the bootstrap on; the
  rest is `CacheInv`.
* `AcceptedAreOffered`: `Spec => []AcceptedIsOffered`, from `AnswersCorrect`'s invariant and
  `AttributedCorrect` of the components.
* `CsvCorrect`, `StoredCorrect`, `FoundCorrect`, `ClearedCorrect`, `PemCorrect`, `SplitCorrect`: the six
  safety properties of `TrustAnchorLookup`, for lists, CSVs and chains of any length and any
  number of certificates. They share the invariant `LookupInv`: the database is a function
  of what was published, the records so far are the cleaned cells so far, and an answer is
  what the database and the texts of its request make of it. The steps are easy; what
  remains is about texts.
  - The data of a text are its halves of certificates, `DataOf`. `StripPEMInfo` and `Trim`
    keep them (`StripKeepsData`, `TrimKeepsData`), whatever the text. So texts that are
    equal after a conversion are of one certificate (`LinesInjective`), which gives
    `FoundCorrect`. A text decodes if it has nothing but data, white space and quotes, which
    is so after the cleaning of a cell in each of the styles (`CsvCorrect`).
  - `SplitCorrect` is an induction over the chain. One more certificate behind a chain is a
    BEGIN line and a text without one; `SplitNext` says that it adds its own part to the
    split and leaves all others as they are. Part 1 is the lead, which `LeadCertTexts`
    follows through the filter: at most one character vanishes, more do not decode. A PKCS7 file has
    no BEGIN line of a certificate and is one part, which keeps its container
    (`Pkcs7Unreadable`).
  - `StoredCorrect` and `PemCorrect` have the hypothesis `EidasInBase64`: eiDAS lists write their certificates
    in one line, in lines or padded, and not as PEM. The schema of those lists makes
    `ds:X509Certificate` a base64Binary. The hypothesis is needed, for nothing cleans an
    eiDAS certificate: with PEM in such a list TLC finds the property violated.

`SequenceLemmas` has what `ParseCorrect` rests on: `FlattenSeq`, which the community modules
define by a recursive function, appends and commutes with a function that is applied to
every element, for all sequences of sequences. These are inductions. The rules of the
libraries take a predicate, which no prover here can instantiate; `NatSetInduction` and
`SeqSetInduction` take the set of the values that have it, and follow from the existence of
a least element (`LeastNumber`, from `WFMin`). tlapm takes `SelectSeq` as built in and
expands no definition of it, so `X509Services` is written with `FlattenSeq`. So are the
conversions of `CertificateTexts`: each says which positions of a text stay, and `KeptAt`
picks them. The lemmas about `KeptAt` (appending, concatenation, what is kept of all or of
none) are inductions of the same kind.

Every safety property of a passing run is a theorem, with the hypotheses named above. Only
model-checked: liveness (`LaunchSettles`, `DownloadedIsStored`, `Answered`), which is out of
reach of the prover.

## 5. Not modelled

* The validation engine of pkijs, XML and CSV syntax, MongoDB beyond the atomicity of one
  operation, Nest beyond the order of its hooks: external.
* How the V1 controller formats the answer of the engine. `AppModule` does not import it.
* Shapes, terms and conditions, compliance issuers, query validation, Swagger: each
  answer is a function of a constant table, of a static file or of a library call. They
  keep no state, share none with the rest, and have no steps that could interleave; a
  model would repeat the table.

## 6. Plan

1. Done: `ListRefresh`, `CertificateCache`, `TrustedList`, `AnchorCollection`, `Registry`,
   `TrustAnchorLookup`, the runs above and the theorems of section 4.
2. Done: each safety property of a passing run is a theorem.
3. Open: a bound on the number of steps of a launch, as a safety property that can be proved
   for any lists; `LaunchSettles` would then follow from it and the fairness of a step.
