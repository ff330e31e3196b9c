# A TLA+ model of the chrge backend

The chrge backend is a NestJS service over PostgreSQL (Prisma), a Redis cache
and an object store: CNG financing applications, accounts and sessions, the
vehicles of a user, charging stations with reviews and favourites, and an
administration. Every request is an `async` handler that awaits one database,
cache, storage or delivery call after another. Handlers interleave at every
`await`, several processes may serve requests, and with two exceptions (the
transactions of `requestPhoneVerification` and `verifyPhone`) no transaction
spans two calls: the services read, decide on what they read, and write by id.
Whether that is good enough is what this project is about.

## 1. Inventory

| Component | State | Operations | Interacts with |
|---|---|---|---|
| CNG application (`cng-applications.service.ts`) | row of `cng_applications`: status, personal, vehicle and financing parts, phone and its mark, dates | create, personal, OTP request and verify, vehicle, financing, submit, cancel, review | phone challenges, document rows, OTP delivery |
| Phone challenges (same service) | rows of `cng_phone_verifications`: number, attempts, consumed, expiry | issue, count a miss, consume | application row (in a transaction) |
| CNG documents (same service, `document-storage.service.ts`) | row for each type, file in the bucket or directory | upload or replace, delete, download | application status |
| Refresh tokens (`token.service.ts`, `auth.service.ts`) | rows of `refresh_tokens`: hash, user, expiry, revocation | sign-in, exchange, logout of one or all, nightly clean-up | user rows (`deletedAt`) |
| Accounts (`auth.service.ts`, `users.service.ts`, `google-auth.service.ts`) | rows of `users`; unique e-mail | register, login, Google login and linking, profile, deactivate | refresh tokens, Google |
| User vehicles (`vehicles.service.ts`) | rows of `user_vehicles`: primary flag, `deletedAt`; unique (user, model) | add, update, remove | catalogue; station search reads the primary connector |
| Station reviews (`stations.service.ts`) | rows of `reviews`, rating in the station row, cached detail and pages | create or update a review, read detail, read a page, recalculate the rating | cache |
| Station lists and search (same service) | none of their own: rows and ports of stations, the clock | all stations, nearby, top picks, pages of reviews | cache, administration |
| Station submission and administration (`admin.service.ts`) | rows of `stations`: status, active; ports, images, stored counts | submit, create, review, update, add and update ports, add images | cached detail and top picks, which it never forgets |
| Favourites (`stations.service.ts`) | rows of `favorites`; unique (user, station) | add, remove, list | the detail that answers |
| Quote, cards, opening hours | none | pure functions | |
| Vehicle catalogue, handles, health, throttling, configuration, filters | see *Not modelled* | | |

What is hard here, and what makes each part correct:

* **Application.** An edit, a submission, a cancellation and a decision can
  overlap, each on a status it read earlier; a stale phone mark can be written
  back; attempts and open codes have limits that are checked before they are
  counted. Correct: edits only in a draft, a submission that is complete, a
  decision only after a submission, a verified number that was proven.
* **Documents.** Two stores without a common transaction, with failures and
  stops between the calls. Correct: a row always has its file, an answered
  upload keeps it, and a file that no row names is the fault of one request.
* **Tokens.** Read, revoke and create in three calls beside logouts, a
  deactivation and the clean-up. Correct: a token is exchanged once, revoking
  all tokens leaves no session, a deactivated account gets no token.
* **Accounts.** A look-up by identity *or* address, then a create or an update
  on what was read, while other sign-ins create the same account and addresses
  change hands at Google. Correct: an identity always leads to the same account,
  a deactivated one lets nobody in, and nobody's profile is undone.
* **Vehicles.** A flag moved by two updates, promoted after a soft delete,
  under a unique key that deleted rows still occupy. Correct: exactly one
  primary vehicle.
* **Reviews.** A look-up before an insert without a constraint, a background
  recalculation, a read-through cache. Correct: one review per user, a rating
  of the reviews, cached answers that are current after an invalidation.
* **Stations.** Submissions, decisions in any order and switches of `isActive`
  beside two caches that the administration does not know of; counts and the
  primary image kept by several calls. Correct: what is public was approved or
  switched on, what is hidden disappears, the counts are of the ports, one
  image is primary.
* **Lists.** Pages by offset over rows that change and orders that have ties,
  pages of reviews by time stamp and cached at different ages, hours past
  midnight compared as strings, a clock read twice for one card. Correct: each
  result once, cards that agree with themselves and with the filters.

`PROJECT.json` lists the hazards at their lines with the properties about each
of them. Some hazards are races that the code loses: there the property says
how far the damage goes and under which condition there is none, and the note
of the hazard names the overlap that the property exempts (two exchanges of one
token, two requests about one garage, two review requests of one user, crossed
recalculations, an edit and a submission that were both let in).

## 2. Modules

| Module | Models | Correspondence |
|---|---|---|
| `CngLifecycle` | what an application promises: a request is let in where its operation is permitted, and acts later, whatever others have done by then | `status`; `row` and `documents`, whether the row and its documents are what a submission requires; `waiting` is what each request was let in for |
| `CngApplication` | the application row, the challenges and the requests about them | `app`, `challenges` are the tables; `req` is for each handler the call it issues next (`pc`) and the locals it has read; `proven`, `late` (by what a request under way was overtaken) and `crossed` (what overtaken requests have written past) are history. One action for each awaited call, from `Read...` to `Write...` |
| `FinancingQuote` | the quote of a package and a plan: deposit, interest, monthly payment, each rounded | `QuoteOf` is the record that is written into the row (`app.quote`), from the packages and plans of `cng-application.constants.ts` |
| `CngDocumentRows` | what the requests about documents promise of the rows: a request begins with a draft, its upload makes the row of one type, a row goes to one of the requests that found it | `draft`, `docs`, `asked`; implemented by `CngApplication` and by `CngDocuments` |
| `CngDocuments` | the document rows and the object store | `rows`, `store`; `pc`, `type`, `found` are the locals of a request; `draft` is the status; `mishaps` (an upsert that was made and reported as failed, a file that could not be opened) and `displaced` (the key a request took out of a row) are history |
| `RefreshTokens` | the token table under exchange, logout, deactivation and clean-up | `state`, `expired`, `owner`, `parent` are the rows; `pc` the requests; `caught`, `late`, `withdrawn`, `overlapped` are history |
| `Accounts` | the user table under registration, both sign-ins, the profile and its deactivation, beside Google | `accounts` maps an address to its row, `addresses` an identity to the address Google vouches for; `step`, `request`, `account`, `read` are the requests; `moved`, `underWay`, `stale` are history. What `HandOutTokens` starts is `RefreshTokens` |
| `UserVehicles` | the garage of one user | `garage` maps a model to its row; `req` the handlers; `mishaps` is history |
| `StationReviews` | the reviews of a station, its rating and its cached answers | `reviews`, `rating`, `cache`; `pc`, `user`, `row`, `view`, `keys` the requests; `task` the recalculation nobody waits for; `doubled`, `mishaps` are history |
| `ReviewPages` | a walk through the cached pages of reviews while reviews are written | `posts` are the reviews by the `createdAt` they were stamped with, `visible` those that can be read; `pages` is the cache, `forgetting` counts the writers about to invalidate it; `at`, `after`, `found` the request; `seen`, `base`, `missed` are history |
| `StationCards` | opening hours and their text, port summaries, the card | functions of a row, its ports and the clock |
| `StationSearch` | a walk through the pages of `findAll` or `findNearby` while rows change and the minute turns | `rows`, `now`; `query`, `cursor`, `page`, `more`, `cards` are the request and its answer; `shown`, `steady`, `turned`, `updated` are history |
| `StationListing` | who sees a station: submission, decision, update, detail and top picks with their caches, favourites | `rows`, `favourites`; `details`, `picks` are the cache; `pc`, `kind`, `user`, `target`, `change`, `held` the handlers; `activated`, `contested` are history |
| `StationParts` | ports, their stored counts, images and the primary one | `ports`, `images`, `primary`, `counts`; `stage`, `asked`, `tally`, `uncounted` the requests; `disturbed`, `spoiled`, `hero`, `heroSpoiled` are history |
| `MC...` | model values, inputs and symmetry for TLC; sums of independent parts | |
| `...Proofs` | theorems and their proofs | |

Conventions. A step is one awaited call with the code up to the next one, and a
call of Prisma is one step. A request that is refused by validation or by its
first read changes nothing, so it is a stuttering step. `Fail` or `Crash` is a
call that throws or a process that stops: what was written stays, what was not
is lost. Calls issued together (`Promise.all`) are steps in any order
(`CountPorts`). A query with `include` is one statement for each relation, and
is two steps where both are decided on: the stations by their ports, then the
ports (`FindPage`, `FindRelated`), the application, then its documents
(`ReadSubmit`, `LookupDocuments`; the other requests decide on the row alone).
An exchange includes the user of the token it reads, in one step: a user who is
deactivated stays so, so that what the second statement adds is a refusal,
which `Fail` is too. A default that the client or the server of the database
fills in (`createdAt`) is chosen before its row can be seen (`WriteReview`,
`ReviewStored`). History variables are written and never read by the actions;
they let a property say from which mishaps it is safe (`"overlap"`, `"fault"`,
`moved`, `contested`, ...), which is more than checking it in a quieter
configuration. `CngDocuments`, `RefreshTokens` and `StationReviews` have
requests that run once, so that a request can stand for what it creates (a key,
a token, a row); the other modules have handler slots that are used again and
again.

Abstractions. Values of forms are recorded or not. A number, a document type, a
model, a token, a name is a model value; encryption, hashing, file types and
sizes are left out. A review stands for its stars and comment, and a rating is
the set of reviews it was computed from, which tells more ratings apart than
the average and the count do. Challenges are ordered by commit; under READ
COMMITTED the first statement of an OTP transaction sees the challenges
committed when it starts, hence `BeginChallenge` and `CommitChallenge`. All
processes stamp reviews by one clock. In `CngApplication` a document is the
presence of its row, `CngDocuments` has its file too, and both implement
`CngDocumentRows`. Connectors and states of a port are the values of their
types, powers and distances are numbers that are compared. An address never
changes in an account, so that it names the account. Distances and the score of
the top picks are given with the row or left open. Time is an untimed step
(`PassTime`, `Expire`), except where it is compared: `StationCards` has days of
a few times, and `MidnightHour` says how the hour after midnight compares,
since `Intl.DateTimeFormat` with `hour12: false` writes it as 24 in some builds
of the runtime and as 00 in others; the run takes the value at which more can
go wrong.

## 3. Runs

| Run | Question | Distinct states |
|---|---|---|
| `CngOverlap` | two requests of any operation overlap: the workflow of `CngLifecycle`, and what is submitted is complete | 618 561 |
| `CngPhone` | two requests about the number interleave: proven numbers, withdrawn marks, attempts, open codes | 2 036 981 |
| `CngWorkflow` | two requests of any operation interleave over three choices of package and plan: quotes, forms kept, decision after submission, edits come to an end | 237 969 |
| `CngEditAfterSubmission` | *violated*: an edit under way changes an application that is no longer a draft | |
| `CngDocs` | four upload, delete and download requests, all faults | 129 608 |
| `Tokens` | four sign-ins and exchanges with logouts, deactivation and clean-up | 148 856 |
| `Accounts` | two requests over two addresses and two identities that swap them | 2 201 884 |
| `Garage` | two requests over three models, all faults | 592 944 |
| `Reviews` | three requests of two users, recalculations, expiry, all faults | 2 948 150 |
| `Search` | walks through the lists of stations and the reviews of one, while rows, reviews and the clock change | 1 139 724 |
| `Stations` | two requests of users and administrators: visibility through two caches, favourites, ports, images | 738 043 |
| `NearbyFilters` | *violated*: the nearby stations are not filtered by their ports | |

What they show. However requests overlap, the status of an application changes
only as requests that were let in change it, what is submitted is complete, and
a code that is open means a number that is not verified, with one exception
each, which the properties name: an edit and a submission that were both let in
to the draft, and a request that writes what it had read before a new code was
issued. That a verified number was proven, that the forms of a submitted
application stay filled in, that a decision follows a submission and that
limits are passed by at most one for each concurrent request hold without
exception. `CngEditAfterSubmission` shows the edit that does not respect a
submission. The documents are right under every interleaving and every fault
but one (an upsert committed and reported as failed), and then only an upload
that was answered with a failure suffers; a file that no row names is left by a
request that failed, or by one that took it out of its row and deleted the file
it had found there before; a document is answered as unavailable only if it was
replaced or removed meanwhile, or if a file that is there cannot be opened. A
refresh token that was exchanged stays spent, and only a request under way at a
deactivation gets a token after it, but two overlapping exchanges both succeed.
A sign-in with Google ends in the account of the identity unless its address
changed hands; a sign-in without a name can undo an edit of the profile, and
nothing else can; only an edit clears a name. A garage has one primary vehicle
as long as requests do not overlap, is without one only for a named reason, and
repairs itself with the next request to set it. Reviews stay with their user;
the rating catches up unless recalculations cross or fail; the first page is
current when requests do not overlap, the detail only when they wait for the
recalculation too. A station is public only when it was approved or switched
on; one that was hidden is shown for as long as the caches last and as requests
that had found it before store it once more each, and no longer, though nothing
forgets them. Counts and the primary image are right unless requests crossed or
one failed, and the next undisturbed request repairs them. Walks show what does
not tie exactly once, and each review once but for those of one millisecond and
those that became visible after a page they belong to was read; a card shows
what was asked for unless its station changed between two queries, and it and
its text can contradict each other only around the turn of a minute, one card
of a page at most.

Bounds. `Handler` (`Slot`, `Request`) has two slots: a race of the code needs
one request between the read and the write of another, and slots are reused
without limit. `CngPhone` allows three challenges (`MaxChallenges`): two issued
by racing requests and one after them; one wrong code is tolerated
(`MaxAttempts`, 5 in the source), so that the limit is reached. Two numbers are
enough for a number that changes and changes back; `PhoneOperations` leaves out
the operations that touch neither number nor challenge. Four requests of one
document type are an upload, its replacement, a delete and a download, or two
racing replacements beside one that reads; types do not interact. Four tokens
of one user: a sign-in and three exchanges of it or of one another; users
interact only in that a token has one. Two addresses and two identities are the
fewest that can change hands; an address moves until every one has
(`MoveAddress`). Three models are a primary vehicle, the one that replaces it
and the one that is added. Three requests on a station are two reviews and a
reader, or two readers and a review. `Stations` has one station and one user,
since stations are decided, cached and hidden independently of one another and
favourites are per user; two ports are one that is available and one that is
added or updated meanwhile, three images one more than two racing requests
create. `Search` has three stations of five rows (open at all times, a CNG
station without ports, two that tie by rating and name, hours past midnight,
hidden), pages of one or two (`MaxLimit`, 50 in the source), days of four times
and two weekdays, two timezones, nine queries with every filter in one of them;
three reviews (`MaxReviews`) in four milliseconds (`MaxTime`) are two pages, of
one or two, with ties across them and a review that is stamped before another
and seen after it. `CngWorkflow` has three choices of package and plan:
payments that are rounded up, rounded down and not made; the other two have
one. The theorems carry the results to any number. Symmetry is over slots,
requests, numbers, models, users, stations, addresses and identities, and only
in runs without liveness.

Two runs explore parts that share no state one beside the other, as the sum of
their state spaces instead of the product: `part` in `MCStationListing` (the
listing, the ports, the images of a station) and `walks` in `MCStationSearch`
(stations, reviews). A part's actions and properties are the module's own; the
variables of the others rest in an initial state.

`CHECK_DEADLOCK FALSE` is said in every run: a program that has served the last
request of a finite set, or that nobody calls, stops.

Fairness. `CngWorkflow` (`EditsDrain`) assumes weak fairness of `Continue(h)`
for each handler: a database call returns or throws, and the event loop resumes
the handler then; `Fail` stays possible and is not required. `Stations`
(`HiddenFades`) assumes the same, where an answer may be an error, and that an
entry of the cache expires, which the cache does by itself after the five
minutes it was given. No fairness is assumed of arrivals, of faults, or of time
elsewhere; in particular the administration may decide and change its mind for
ever, and clients may ask for a list in every interval.

## 4. Proofs

Each `...Proofs` module proves its theorems for every value of the constants
from the named assumptions of the module it extends: nulls are outside the sets
they are added to, slots and stations are finitely many, bounds are numbers, a
row has columns of their types (`RowAssumption`), a page has at least one card
(`LimitAssumption`, `QueryAssumption`, which the DTOs validate). TLC evaluates
them in the runs. The type invariants are proved and not run; TLC checked them,
and the inductive invariants, while the modules were written.

* `CngApplicationProofs`: types, `VerifiedPhoneProven`, `SubmittedFormsKept`,
  `DecisionFollowsSubmission`. The inductive invariant adds to them
  `RequestsJustified`: what a request carries from its read to its write is
  something no step takes back (`NothingTakenBack`). Without it the properties
  are not inductive: `WritePersonal` restores a mark that was read any number
  of steps ago. The two bounds count requests: `AttemptsCounted` adds to the
  attempts of a challenge the requests about to count a miss at it, and
  `CodesCounted` to the codes opened since one was, that one among them, the
  transactions that began before it; each sum stays within the limit since a
  step that adds to one side takes a request from the other. `OverlapInv` says
  of every request that what it was let in for, and what it has read, still
  holds when it writes, unless it was overtaken by a request of the kind that
  can undo it (`late`); from it follow `SubmittedComplete` and
  `PendingCodeUnverified` for any number of requests. `ImplementsLifecycle`
  maps each request to what it was let in for, and every call to a step or a
  stutter. `RecordedQuoteAddsUp` follows from the quote on record being one of
  a package and a plan on offer (`Quoted`); each plan adds up for any price
  (`QuoteAddsUp`). `EditsEnd` is what `EditsDrain` rests on without its
  fairness: an application that has left `DRAFT` never returns to it, no edit
  of it begins, and each call of an edit under way leaves it fewer calls to
  issue (`CallsLeft`, four at most).
* `CngDocumentsProofs`: all properties of `CngDocs`. A key enters a row
  once, in the upsert of its own upload, and a key that has left its row never
  comes back. `FilesAccounted` says of each file in the store whose it is by now:
  that of a row, of the upload that has stored it, or of the request that took it
  out of its row.
* `CngDocumentRows` is implemented by `CngDocuments` (`RowsArePromised`) and by
  `CngApplication` (`DocumentsArePromised`), step by step. The first maps a
  request to what it has yet to do to the row it found, which is nothing once
  another has deleted that row, although the request still has its call to
  make: its row is known by `IdsWritten`, since a new row of the same type has
  another id. The second needs `FoundStays`: what a request is going to delete
  is there.
* `RefreshTokensProofs`: all properties of `Tokens`. A request about to
  create a token has seen its old one revoked and its user active; with no
  overlap so far, it is alone and still finds what it read.
* `AccountsProofs`: types and all properties of `Accounts`. What is believed of
  an identity comes from Google: `RowsVouched` and `RequestsVouched` say that a
  row linked to an identity has an address that Google vouches for it, unless
  the address is in `moved`, and that a request between its look-up and its
  write would link none other; two accounts of one identity would need two
  addresses. `AskingFits` and `Caught` tie a request to the account it has
  found, `NamesKnown` to the name it has read.
* `UserVehiclesProofs`: types and all properties of `Garage`. A request that
  nothing has overlapped is the only one under way, and its clearing update
  leaves no primary vehicle; `Provided` says of each place in a request what
  the garage has or is about to get, so that between requests there is a
  primary vehicle.
* `StationReviewsProofs`: all properties of `Reviews`. Three invariants, of
  the rows, of the rating and of the cache, on top of what is known of the
  requests; the cached detail needs the other two.
* `SearchProofs`: types and all properties of `Search`. The place of a station
  that ties with no other is the number of stations that precede it, in
  whichever order the database returns those that tie; `SearchInv` says that,
  while no row has changed, the stations shown are those with a place before
  the cursor, and that a page is of rows that were found for what was asked and
  of ports that are those, unless the station changed in between. The cards
  then follow from the page, and their hours from the arithmetic of the clock,
  for any length of the day and any zone. `PagesInv` says that each page of
  reviews, however old, divides the reviews that could be seen when it was read
  at the cursor of the next page, and that what was stamped since is at its own
  cursor or after it; what was stamped before and seen after is `missed`; and
  of a walk, that it has shown the other reviews at its cursor and after it.
  The second needs the first, since the next page may be older than the walk.
* `StationsProofs`: types of both modules, and of the properties of `Stations`
  all but the liveness. `HiddenIsStoredOnceMore` (`StoredOnceMore`) is what
  `HiddenFades` rests on without its fairness and its expiry: while a station
  is hidden, a request finds it only in the cached detail, and what is cached
  of it comes from requests that had found it before, each of which stores it
  once more at most. `ContestsKnown` and `FavouritesDone` say what of a
  favourite is settled while its request waits for the detail; for the counts,
  a tally that nothing has disturbed is of the ports as they are.

Every invariant and every action property of the passing runs is a theorem.
Only model-checked: the liveness properties `EditsDrain` and `HiddenFades`,
since liveness and ENABLED are beyond the prover, and the two runs that show a
disagreement, which refute something of one instance.

## 5. Disagreements with the comments and documents

Two have a run that shows them:

1. *Only draft applications can be edited* (`cng-applications.service.ts:562`,
   and the test *prevents editing after submission*): not when an edit overlaps
   the submission (`CngEditAfterSubmission`).
2. *Filter by connector types*, *by port status*, *minimum charger power*
   (`README.md:124` to `:127`, the nearby stations): `findNearby` builds the
   filters and its raw query does not use them (`NearbyFilters`).

The others follow from what the modules and their properties say they need:

3. *Revoke old token (mark as used)* (`token.service.ts:123`): two exchanges
   that read the token before either marks it both use it. `UsedOnceInTurn`
   holds of requests in turn only.
4. *Revoke all tokens for this user* (`token.service.ts:107`, `:151`): not the
   token that an exchange under way creates next (`SessionsEndInTurn`).
5. *Invalidate cached reviews and detail for this station*
   (`stations.service.ts:631`): only the page of ten without a cursor; the
   others stay for five minutes (`FirstPageFresh` is of that page,
   `ReviewsShownOnce` allows the others their age).
6. A submission is answered by `findById`, which finds active stations
   (`stations.controller.ts:133`): where approval is not skipped, it is
   answered with 404 and stored (`OwnListsAgree`).
7. The top picks are cached with the favourite flags of the user who asked
   first, for everybody who asks next (`stations.service.ts:253`, `:339`).
8. The detail asks for the hours under a name that its row does not have
   (`operating_hours`, `stations.service.ts:1045`), so that it always says open;
   the cards do not.
9. Redis keeps JSON (`createKeyv`, `app.module.ts:51`), so that a detail from
   the cache has its dates as strings, of which `stations.service.ts:1118` takes
   `toISOString`. `StationListing` is about who is shown, and lets a request that
   found the detail in the cache answer or fail.
10. The administration does not forget the lists and details it changes, which
    `docs/performance-improvements.md:45` and `:46` list as to be done:
    `HiddenFades` is what holds without it.
11. *Stored document is unavailable* (`document-storage.service.ts:65`, `:83`) is
    answered for any error of opening a file as well: `UnavailableMeansReplaced`
    is of a store without such errors.
12. The address of a deactivated account cannot register again, and the monthly
    payment uses the tenure of the plan and not `preferredLoanTenor`; no
    document says otherwise.

## 6. Plan

Modelled first: the application, since it has the most states and the most
consequences; then its documents, the sessions, the garage, and the reviews;
then stations and their administration, the lists, the accounts and the quote.
The modules that compose are those whose components share state at run time:
`CngApplication` with `FinancingQuote`, `StationListing` beside `StationParts`,
`StationSearch` over `StationCards` beside `ReviewPages`. Left, in this order:

1. The composition of `Accounts` with `RefreshTokens`, which share `deletedAt`
   only: both already leave open when it is set.
2. The composition of `CngApplication` with `CngDocuments`: a submission beside
   uploads and deletes, files and all. Both implement `CngDocumentRows`; what is
   left is that a submitted application has its files.

### Not modelled

* The access guard of the applications reads the owner of an application, which
  never changes.
* The vehicle catalogue inserts brands and models, one row each, and updates
  none; its lists are cached reads.
* The anonymous handles are a pure hash; that a review keeps its user is in
  `StationReviews`.
* Health checks ping; throttling is a library guard on rates; configuration,
  logging, filters, interceptors and the bootstrap are wiring and formatting.
* Partly: the delivery of codes is a call that succeeds or throws, the webhook
  behind it is outside the repository; of the views there is what the properties
  are about, prices, dates and captions are formatting; of the schema the
  columns and constraints the services rely on, the seed is data.
* A reference of an application that collides three times
  (`cng-applications.service.ts:68`) leaves no row and is a stuttering step.
