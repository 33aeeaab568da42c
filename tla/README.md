# ProFinder in TLA+

ProFinder is a Flutter application (`src/lib`) on Firebase.  A user signs in
with Google, registers, is shown an introduction, and then looks for service
providers ("prestadores") by category; a user may become a provider, choose a
main category and publish a service.  There is no server code: every rule the
system has is in the client, in handlers that are cut into pieces by awaited
Firebase calls.  These modules model those handlers and check what happens when
the pieces interleave, and below them the part of the Firestore client (vendored
in `src/ios/Pods/FirebaseFirestore`) that the handlers rely on: how a write gets
to the server and how a `get()` is answered.

## The system

Dart runs one event at a time, so what interleaves is the order in which
answers, auth events, timers, write acknowledgements and gestures arrive.

| Part | State | Operations | Talks to |
|---|---|---|---|
| `AuthController`, `AppUser` | `_user`, bound to the auth stream and also assigned directly | sign-in (4 awaits), sign-out, conversion to prestador | FirebaseAuth, GoogleSignIn, `users`, navigator |
| `main.dart`, `AppRoutes`, `TabControllerApp` | navigator stack, selected tab | launch decision, named navigation, `setPage` | `AuthController` |
| Login, register, onboarding screens | forms | sign-in button, `set()` of the profile, `update()` of `onboarding` | `users`, navigator in late callbacks |
| `MainScreen` | `data`, `_isLoading` | `fetchData`, redirect timers, tabs by role | `users`, `AuthController`, navigator |
| `ProfilePrestadorConfigScreen` | snapshot of the document, text fields, image URLs, stream of categories, dropdown | choose category (written at once), upload pictures, GUARDAR | `users`, `serviceCategories`, Storage |
| `ProfileScreen`, `ProfileConfig` | `datos`, the edit form and its date picker | show, upload picture, edit, save, age | `users`, Storage, navigator in late callbacks |
| `CategoryHomeScreen`, `CategorySelectionScreen` | categories, cards, deck position | search, list the providers of a category, swipe | `users`, `serviceCategories` |
| `upload_data.dart` | none | seed users and categories, delete users | `users`, `serviceCategories` |
| Firestore: `Stream`, `WriteStream`, `WatchStream` | state, idleness timer, `close_count_`, handshake | start, stop, back off, resume with credentials | credentials provider, gRPC |
| Firestore: `RemoteStore` (writes), `SyncEngine`, `LevelDbMutationQueue` | `write_pipeline_`, `mutation_callbacks_`, batches on disk, `next_batch_id_` | queue, send, acknowledge, refuse, change of user | write stream, the caller's callback |
| Firestore: `RemoteStore` (watch), `EventManager`, `WatchChangeAggregator`, `OnlineStateTracker` | `listen_targets_`, target states, online state and its timer | listen, stop listening, watch changes, timeouts | watch stream, views and listeners |
| FIRAuth and `FirebaseAuthCredentialsProvider` | current user, `token_counter` | sign in and out, fetch tokens, notify | main queue, worker queue |

What is hard: `_user`, FirebaseAuth's session and GoogleSignIn's account change
at different times; writes are acknowledged late, or after a restart, and their
callbacks navigate over whatever is on top by then; timers outlive the screen
that set them; two accounts take turns on a device; screens keep a document they
read once.  In the client, users change while tokens are fetched on another
queue; answers carry no name of the write they answer; writes are sent again
after a failure; the process ends between a callback and the removal of its
write; a target is watched again while answers to its last watching are still
under way; and one 10 second timer is to save every `get()` from waiting for
ever.  `PROJECT.json` lists these hazards with their lines.

## Modules

| Module | Models | Against |
|---|---|---|
| `Session` | one device: auth, launch, login, register, onboarding, main screen, tabs, write queue | `AccountLifecycle` |
| `AccountLifecycle` | (abstract) absent, registered, onboarded, prestador, one stage at a time | |
| `PrestadorConfig` | the provider's configuration tab | `PrestadorRecord` |
| `PrestadorRecord` | (abstract) a service validated together with its dropdown is stored only with a main category | |
| `ProfileEditor` | profile tab, picture upload, edit form | |
| `Age` | `calculateAge` while days go by | the number of birthdays reached |
| `Marketplace` | providers on their devices, the developer's tool, a client's listing | |
| `WriteQueue` | (abstract) writes carried out in order, at least once before their callers are told so, never behind one whose caller was told; only the oldest is ever given up | |
| `FirestoreStream` | operators: the state machine both streams share | |
| `FirestoreWrites` | FIRAuth's tokens, mutation queues, pipeline, write stream, process ends | `WriteQueue` |
| `FirestoreWatch` | `get()`, targets, watch stream, aggregator, online state | |
| `SessionProofs`, `AgeProofs`, `MarketplaceProofs`, `PrestadorConfigProofs`, `ProfileEditorProofs`, `FirestoreWritesProofs`, `FirestoreWatchProofs` | proofs about the module of that name | |
| `WriteQueueProofs` | proofs of what `FirestoreWrites` promises: truth, order, refinement of `WriteQueue` | |
| `MC*` | symmetry sets for the runs | |

`Session`, `PrestadorConfig` and `ProfileEditor` look at one device in detail.
`Marketplace` puts devices together and keeps of each what the others can see:
its document and the role its MainScreen has read.  `FirestoreWrites` and
`FirestoreWatch` are what the queues and reads of the other modules stand on.

### Session

- `docs` is the `users` collection.  Of a document only `onboarding` and `role`
  matter to the control flow; the required fields are always written together
  (`register_screen.dart` 195-204), so "a field is null" in `fetchData` is "no
  document".
- `writes` is Firestore's mutation queue, per account: writes are sent in issue
  order, only while their account is signed in, survive a restart without their
  callbacks, and reads see them (`View`).
- `taps` are runs of `signInWithGoogle`, cut at each await.  The continuation
  after `get()` (`SignedInRegistered`, `SignedInUnregistered`) is an action of
  its own: auth events may be served before it.
- `mains` are the States of MainScreens.  `fetchData` survives `dispose()`, so a
  State stays in `mains` until its read and its timer are over (`Disposed`).
- `Redirect` replaces whichever route is on top, as `Get.offNamed` does.
- In the onboarding branch of `fetchData` the constructor of `AppUser` receives
  a `Timestamp` where a `DateTime` is declared and throws, so `updateLocalUser`
  is never reached; the timer is set by then.
- `convertToPrestador` is followed by a navigation to `/prestador-home`, which
  is not in `AppRoutes`; it throws and MainScreen stays.

`Prompt` is the one assumption on scheduling: with `Prompt = TRUE` an auth event,
zero timer or arrived snapshot that is already waiting is served before the next
gesture or network answer, which is how Dart's event queue works as long as the
platform channel posts events in order.  `session_live` does not assume it.
`Faults` names the calls that may fail: `signIn`, `get`, `signOut`.

In `Session`, `PrestadorConfig` and `ProfileEditor` a write is carried out and
acknowledged in one step: `docs` and `stored` are what the acknowledged writes
made of a document.  `FirestoreWrites` shows what that leaves out: the server may
already have carried out later writes of the queue, and after a failure it
carries them out again from the first unacknowledged one, so that its copy goes
back for a moment (`set()`, `onboarding`, and `set()` again).  The device itself
does not see that, since its queue lies over whatever copy it reads; another
device may.

### PrestadorConfig, ProfileEditor, Marketplace, Age

`PrestadorConfig`: each `setState` sets `dirty`; `Rebuild` is the frame after
it, in which the builder fills text fields and `imageUrls` from the snapshot
that `initState` asked for.  The dropdown keeps its own value, because the
initial value it is given does not change.  It is there only while the stream of
categories has data (`categories`): before they arrive (`CategoriesListed`) and
after the stream failed (`CategoriesFail`) the form can be used and saved
without it.  A dropdown that is built again after a failure starts from the
category of the first read; `stale` is history and records that, until a
category is chosen.  A service carries, as history, whether it was validated
together with a dropdown that is not stale (`checked`).  When the picker throws,
`images` still has the previous selection and is uploaded again (`PickerFails`).

`ProfileEditor`: `stack` has the form, the route of its date picker over it
(`_selectDate` pushes it, `DatePicked` and `PickerCancelled` leave it), or a route
whose builder threw because the pencil was tapped before the first profile
(`Broken`).  The callback of a save pops the route on top (`PopTrue`); the profile
tab reloads only when the route the pencil pushed returns `true`.  When the date
picker is on top, it is the picker that is closed, and the tab is not told:
`unheard` is history and records that until the tab reads again.  `setState` of a
disposed State throws before the update in a debug build and after it in a
release build; `Uploaded` allows both.

`Marketplace`: `tabs[p]` is the role MainScreen read; the document may be deleted
while those tabs are in use, and registered anew under them, since a redirect
may put RegisterScreen over a MainScreen that stays mounted (`Session`,
`Redirect`).  `anew` is history: the accounts to which that happened under the
tabs of a prestador.  An account is used on one device.

`Age`: dates have the lengths of their months; the clock moves a day at a time.

### FirestoreWrites

- FIRAuth changes its user and answers token requests on its own queue and posts
  both on the main queue (`mainQ`), whose blocks post on the worker queue
  (`workerQ`).  `fresh` is "`token_counter` is what it was when I asked",
  `live` is "`close_count_` is what it was when I asked".  The capture of a
  token and the posting of its callback are one step, which is sound because the
  main queue is first-in first-out.
- `queue` is on disk, one sequence of batches per user; batch ids are recomputed
  from what is left (`LoadNextBatchIdFromDb`), so they are used again.
- `FillWritePipeline` is the whole of that function, with the sending, the
  idleness timer and the start of the stream that its callees do.
- `CrashAcknowledging` and `CrashRejecting` are the two places in which a
  process can end halfway through a handler that has already had an effect
  outside it.
- `Healthy` is merged with `Open`; the start of a call and `OnStreamStart` are one
  step; the stream token is carried along by the code and is not in the model.

`StatusIsRead` is when the client learns that a call is over.  `GrpcStream` ends
the call on any failed operation (`OnOperationFailed`, `grpc_stream.cc` 312-323)
and cancels the reads under way with it (231-252).  A read fails only when no
answer is left, but a Write fails as soon as the call has ended: with a message
behind the refused one, the answers not read yet may be dropped, and the status
is then taken to be about the first write of the pipeline.  With no such message
the answers are read first.

What is taken from the backend: a call is handled in order; a refused write
ends the call; what is not handled when the client cancels a call is dropped; the
backend ends no call with OK.

### FirestoreWatch

- A `get()` is a listener (`waiting`), is answered by the first event (`raised`)
  and is removed by a posted operation (`RemoveQueryListener`).  `Restricted` are
  the documents the security rules refuse, always with the same verdict.
- `target` is the aggregator's bookkeeping: `pending` counts the requests without
  an answer, and only a target without any (`IsActiveTarget`) is listened to.
- `online` is the OnlineStateTracker.  The client starts in `Unknown`;
  `SetAndBroadcast` answers everybody from the cache when it becomes `Offline`.
- The server sends a snapshot when all the targets of the call are current;
  snapshot versions grow.  Existence filters, `RESET`, limbo documents and the
  contents of query views are not modelled; a document's content is its version.
- Listeners are those of `get()`, which wait for an answer in sync.  The
  application has one other listener, the `snapshots()` of the categories in the
  configuration tab (`profile_prestador_config_screen.dart` 309): it raises what
  the cache has at once (`query_listener.cc` 151-154), a branch that
  `ShouldRaiseInitialEvent` leaves out; `PrestadorConfig` has its events.
- `OnSnapshot` leaves out that a change without targets gives every active target
  a new resume token (`remote_event.cc` 148-152).  It would only add targets to an
  event that, by what is assumed of the server, has all of them anyway.

## Runs

| Run | Result | Bounds |
|---|---|---|
| `session_account` | `OwnWrites`, `LoadedMainIsMine`, `ImplementsLifecycle` hold | 2 accounts, 2 MainScreens, 3 pending writes each, failing sign-ins and reads, no deletions |
| `session_live` | `AuthSynced`, `ProfileIdentity` hold, `SpinnerResolves` under `FairSpec` | 2 accounts, 2 overlapping sign-ins, 1 MainScreen, failing sign-ins and sign-outs, deletions, events in any order, no writes |
| `session_register` | `RegisterMeansMissing` violated | 2 accounts |
| `config_record` | `DropdownIsStored`, `ImplementsRecord` hold | 2 categories, 1 picture, 3 pending writes, failures |
| `config_fields` | `FieldsShowStored` violated | 2 texts |
| `profile_shown` | `ShownProfileIsStored` holds | 2 texts, 2 dates, 1 upload, 2 pending writes, failures |
| `profile_age` | `AgeCountsBirthdays`, `AgesOneAtATime` hold | every day of 2023-2025 |
| `market_offers` | `OnlyProvidersOffer` holds | 2 providers, 1 seeded document, 2 categories, failures |
| `market_listing` | `ListingComplete` violated | same, without failures |
| `writes` | `PipelineIsHead`, `CallMatchesPipeline`, `IdleIsDrained`, `NeverStalls`, `SentAsItsWriter`, `TellsTheTruth`, `NeverBehindAcknowledged`, `CallbacksFit`, `ImplementsQueue` hold, and `WritesSettle` under `Fairness` | one account and signed out, 4 writes, a pipeline of 3, 1 auth event, 1 failure |
| `watch` | `WatchedWhileListened`, `IdleIsUnwatched`, `TrackerAssertions`, `OfflineAnswersAll`, `SyncedIsFresh`, `CountsOutstanding` hold, and `GetsAnswered` under `FairSpec` | 2 get()s at a time, 2 documents, one of them refused, 2 versions, 1 failure |
| `watch_timeout` | `UnknownTimesOut` violated under `SilentSpec` | 1 document, 1 get() at a time |

Each run but those that show a violation also checks its module's `TypeOK`,
`session_live` and `profile_age` excepted.

Why the bounds are enough to be interesting: two accounts are what it takes for
one account's late callback to meet another's session; two MainScreens, for a
disposed one that still fetches beside the visible one; two or three pending
writes, for a `set()` with updates before and after it; two sign-ins, for
overlapping continuations.  In `writes` a pipeline of 3 (10 in the code) is full with one write left in the queue, and three writes on a call are
what it takes to lose an answer: one carried out, one refused, one whose Write
fails.  The auth event is a sign-in, a sign-out or the refresh of a token around
a request for it; one failure is enough for writes to be sent again.  The safety
properties and the refinement were also run once with two auth events from a
signed-out start (3.1 million states).  In `watch` two get()s are what it takes to watch a document again while the answers to its unwatching are under way.
`profile_age` starts on every day of the three years, 2024 being a leap year.
Its clock stops at the end, and `writes` stops when its writes and events are
used up: these two runs do not check for deadlock.

The four violations are disagreements between the code and its own comments;
`PROJECT.json` quotes them.  In short:

- `session_register`: a redirect timer of one account can put the registration
  form before another.
- `config_fields`: the configuration form goes back to old values after a save.
- `market_listing`: one provider without a service hides a whole category.
- `watch_timeout`: the timeout that is to keep a `get()` from "waiting
  indefinitely" is lost when one get() was answered by it while its stream is
  still starting.  This is about an attempt that neither succeeds nor fails: a
  dead connection does fail, by gRPC's keepalive (30 s, `grpc_connection.cc` 307),
  but a live and silent backend or a token that does not come is not noticed.

Where the properties stop: `LoadedMainIsMine` and `ImplementsLifecycle` are run
without failures of `signOut()`, one sign-in at a time and without deletions.
When `signOut()` itself fails neither holds: the next sign-in joins a session
that never ended.  `ImplementsLifecycle` also fails when two sign-ins overlap
with a sign-out and unacknowledged writes, or when a deletion meets a disposed
MainScreen that is still fetching: the registration form comes up for an account
that has a document (`session_register`) and its `set()` takes the account back
to the first stage.
`ShownProfileIsStored` is about text and birthday; a picture uploaded after its
tab was left is not shown until the next load.  It excepts a tab that was not
told of a save because the date picker was on top (`unheard`): that tab does show
old values.  `DropdownIsStored` and `ImplementsRecord` except what a `stale`
dropdown shows and validates, and `ImplementsRecord` what was saved without a
dropdown: the message 'Por favor seleccione una opción'
(`profile_prestador_config_screen.dart` 361) is not given then, and the service
of a provider without a main category is stored.  `OnlyProvidersOffer` needs
the one device per account, and excepts the accounts registered anew under a prestador's tabs: these can get a category
or a service without the role.  `TellsTheTruth` lets "error" be said of a
write that was carried out when a later one of the same user was refused: "the
request itself was the problem" (`remote_store.cc` 527) is not so then.
A rejected `update()` has no handler in the code and is not modelled in
`PrestadorConfig` and `ProfileEditor`, the security rules not being in the
repository.  `CountsOutstanding` leaves out refused documents: a
rejection erases the count of the requests that followed it.

Fairness.

- `session_live`: the launch, delivery of auth events, acknowledgements, the
  completion of `signOut()`, document reads and timers happen eventually; that
  is a reachable server and a running event loop.  Gestures, restarts and
  sign-ins are not fair.  Failing reads are excluded: with them the spinner does
  stay, since `fetchData` has no `catch`.
- `writes`: both queues are served, FIRAuth and the server answer, the backoff
  timer fires.  Nothing is assumed of the application or of the idleness timer.
  The number of failures is bounded, so they end.
- `watch`: posted operations run, timers fire, changes are read (`ClientFairness`,
  the client's own part); credentials come and the backend handles requests, makes
  each accepted target current and sends a snapshot.  The snapshot is strongly
  fair, because targets that come and go disable it: the protocol promises one
  for every accepted target whatever becomes of the others.  `watch_timeout`
  assumes `ClientFairness` only.

## Proofs

Checked by TLAPS for every value of the constants that the `ASSUME`s allow: any
number of accounts, overlapping sign-ins, screens, pending writes, users,
documents, failures.  The assumptions on constants are that bounds are natural
numbers, that the sets a run enumerates are finite where their size is counted
(`Providers`, `Seeded`, `Gets`), and that `None` is no account, document, form
or user.  Each theorem rests on an inductive invariant, a conjunction of named
parts; TLC checked it on the run's instance before it was proved.

**`SessionProofs`**

- `TypeCorrect`, `AuthIsSynced`, `ProfileIsOwn`.  `ProfileIdentity` is not
  inductive: `fromJson` reads the uid of whoever is signed in when the document
  has arrived.  `SignInIdentity` is the missing part: every running sign-in is
  about GoogleSignIn's account, which the application never signs out, and a
  sign-in past its credential finds that account signed in, or nobody.
- `WritesAreOwn` assumes `Prompt` and uses `AuthSynced`: a gesture finds no auth
  event waiting, so the mirrored uid is FirebaseAuth's.
- `LoadedMainIsAlwaysMine` assumes `Prompt` and that `signOut()` does not fail
  (with either dropped, TLC finds the counterexample).  It needs to know that
  nobody else's screens can be there when a sign-in ends: `SettledInv` says that
  where a sign-in can be started or is running, the account signed in is
  GoogleSignIn's or nobody's, or the process is new and has no MainScreen and no
  callback that could show one (`Settled`); `MountedIsMine` then carries the
  account from `fetchData` to the tabs.
- `ImplementsTheLifecycle` assumes `OneAtATime`: `Prompt`, no failing `signOut()`,
  no deletions and one sign-in at a time (more than one breaks it, see above).
  Its inductive invariant is `SessionInv`, the results before, and `StageInv`.
  The heart of `StageInv` is about documents together with the queue of writes
  that will reach them: no queued `set()` meets a document past registration
  and no conversion one before the introduction (`QueuesFit`); RegisterScreen is
  up, or about to be, only while the queue leaves at most a registered account
  (`RegisterFits`); the tabs are, only when it leaves one that has done the
  introduction (`ReadyFits`).  The rest is what keeps a late `fetchData` from
  asking for another account's missing document: `SentFits` follows such a read
  through redirects, `TapFits` and `SignOutFits` exclude it beside a sign-in or
  a sign-out, `FoundFits` says that what a sign-in has found stays, and
  `MainsBelow` what the back arrow can uncover.

**`AgeProofs`**: `AgeIsRight`, `NobodySkipsAYear`, from the invariant that nobody
is born after today.

**`MarketplaceProofs`**: `OnlyProvidersAreFound`, strengthened by
`TabsAreCurrent`: a device with the configuration tab has a document with the
role, or none, or an account registered anew under it.  `MarketplaceTypeCorrect` needs `ListingInv`: the deck is never
beyond its last card, because a listing that waits for its cards is still at the
first (`WaitingIsFresh`).

**`PrestadorConfigProofs`**: `DropdownAlwaysStored`, `ConfigTypeCorrect` and the
refinement `ImplementsTheRecord`, from `ConfigInv`: the form is built from a
document that was read (`FormIsLoaded`); until its categories are listed, the
main category it was opened with is the one that will be stored, so that the
dropdown, when it comes, starts from it (`ListingFollows`); and every service in
the queue that was validated with its dropdown has a main category stored or
queued before it (`ServiceHasMain`).

**`ProfileEditorProofs`**: `ShownProfileAlwaysStored`, `ProfileTypeCorrect`, from
`ProfileInv`: what the tab shows is what the queue will leave in the document,
unless a save is queued whose callback will make the tab load again, or the
result of one went to the date picker (`ShownWillBeStored`), and without a route there is no tab (`PoppedIsClosed`).

**`FirestoreWritesProofs`**: `ClientIsConsistent` is `Spec => []ClientInv`, nine
parts that only hold together.  `PipelineIsHead` (the pipeline is the head of
the current user's queue) needs that queues are ordered by id (`QueuesOrdered`)
and that notices on the main queue name the users in turn (`NoticesNameUsers`);
`CallMatchesPipeline` needs that there is a call only on an open stream
(`CallNeedsStream`); `CallbacksFit` is what the reuse of batch ids puts at risk;
`LiveRequests` and `PendingIsStarted` count the token requests that can still
start the stream.  From it: `TypeCorrect`, `PipelineIsAlwaysHead`,
`CallAlwaysMatches`, `CallbacksAlwaysFit`, `IdleIsAlwaysDrained` and
`ClientNeverStalls`.

**`WriteQueueProofs`**: what the client promises its caller.  `PromiseInv` adds to
`ClientInv` that a token still fresh on its way through the two queues is of the
user the worker will have been told of by then (`TokenInv`), and that every
answer under way, told to a caller or replayed by the server is true of the
batch it is for (`TruthInv`).  The refused write is the next on the wire; when
answers are lost with it, the head of the pipeline is an earlier write of the
same user that was carried out (`RefusedIsLater`), which is what `TellsTheTruth`
says of an error.  From it: `AlwaysSentAsItsWriter`,
`AlwaysTellsTheTruth`, `AlwaysNeverBehind`, and `ImplementsTheQueue`: each step
is a step of `WriteQueue` or changes nothing that `WriteQueue` sees.

**`FirestoreWatchProofs`**: `WatchIsConsistent` is `Spec => []LocalInv` (get()s,
targets, stream, tracker and call fit each other), from which
`WatchTypeCorrect`, `AlwaysWatchedWhileListened`, `IdleIsAlwaysUnwatched`,
`OfflineAlwaysAnswersAll`, and `TrackerNeverAsserts`, which assumes
`kMaxWatchStreamFailures = 1` as in `online_state_tracker.cc`.
`ProtocolIsKept` adds `ProtocolInv`, which follows requests, replies and
versions through both directions of the call: requests for a target alternate,
each has at most one reply under way, and a version that comes after the last
reply is no older than the request.  From it: `SyncedIsAlwaysFresh` and
`OutstandingIsCounted`.

Model-checked only: `SpinnerResolves`, `WritesSettle` and `GetsAnswered`, liveness
under fairness, which is out of the prover's reach.  Every invariant, action
property and refinement of the passing runs has a theorem.  The properties of the four
violation runs are refuted and so have no theorem.

## Not modelled

Layout, wording and snackbars other than the welcome; the settings,
coming-soon and detail screens, which keep no state; the preview dialog and
`ProfileCard`; Android's back button outside the profile form; security rules, which are not in the
repository (the watch module has their verdict); generated configuration and
native runners.  Of the vendored pods, the Firestore client's caches, queries,
indexes, bundles, transactions and serialisation, and gRPC, BoringSSL, leveldb
and abseil, which make up nearly all of the repository's C and C++: third-party
code that the application does not call itself and whose contracts the two
Firestore modules take from how `remote/` and `core/` use them.
`disableNetwork`, `terminate` and `waitForPendingWrites` are not called by the
application.
`convertToCliente`, `AppUser.fromSnapshot`, `/category-home` and `/upload-data`
are not reached by the application; the operations of the latter are taken as
run by its developer.

## Plan

1. Repeated delivery inside `Session`, `PrestadorConfig` and `ProfileEditor`, with
   the promises of `AccountLifecycle` and `PrestadorRecord` restated for what a
   second device can read.
2. The edit form inside `Session`: its late `pop(true)` over the other routes.
3. The search of `CategoryHomeScreen` (`_filterCategories`) and the seeding of
   `serviceCategories`.
4. Devices sharing an account; time zones of a stored birthday.
