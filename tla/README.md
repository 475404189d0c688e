# TLA+ models of dex, the NGINX Ingress controller and the sites' scripts

The repository keeps the manifests of a Kubernetes cluster next to the source of
two programs the cluster depends on, **dex** (`src/dex`), an OpenID Connect
provider, and the **NGINX Ingress controller** (`src/kubernetes-ingress`), and
the **Hugo sites** it serves, whose themes come with scripts (`src/TnB`,
`src/hugo-nerdrack`, `src/safesecs-hugo`). The rest is YAML, pages and vendored
packages. All three are concurrent: dex runs as several servers that meet only in a
shared storage, the controller is a set of goroutines around caches, a queue and
NGINX, and the scripts are handlers that a browser calls in an order they do not
choose. This directory models that concurrency, checks it with TLC on small
instances and proves the most important properties with TLAPS for all instances.

## The system

### dex

| part | source | state | operations | here |
|---|---|---|---|---|
| signing keys | `server/rotation.go`, `keyCacher` in `server/server.go`, `handlePublicKeys`, `newIDToken` | `storage.Keys`, a cache per server | `rotate`, `GetKeys`, `UpdateKeys`, publish, sign | `KeyRotation` |
| token endpoint | `handleAuthCode`, `handleRefreshToken` in `server/handlers.go`, `RevokeRefresh` in `server/api.go` | `AuthCode`, `RefreshToken`, `OfflineSessions` | exchange, refresh, revoke | `RefreshTokens` |
| authorization flow | `handleAuthorization` … `sendCodeResponse` in `server/handlers.go` | `AuthRequest`, `AuthCode` | start, log in, call back, approve, answer | `AuthFlow` |
| garbage collection | `startGarbageCollection`, `GarbageCollect` of each storage | the same | collect | `AuthFlow` |
| storages | `storage/{memory,sql,etcd,kubernetes}` | all objects | create, get, list, update, delete | the calls the three modules make |
| connectors map, health checker, CRUD API, static overlays, SQL migration | `server/server.go`, `server/api.go`, `storage/static.go`, `storage/sql/migrate.go` | | | not modelled |
| upstream connectors, command line, templates | `connector/*`, `cmd/*`, `server/templates.go` | none | | not modelled |

Handlers of one or more servers interact through the storage only. The storage
gives each call atomicity and each update a transaction (memory, SQL) or a
compare-and-swap (kubernetes, etcd) that may be refused; a handler makes several calls and
anything may happen between two of them.

### NGINX Ingress controller

| part | source | state | operations | here |
|---|---|---|---|---|
| Ingress informer and handlers | `internal/handlers/ingress.go` | cache | add, update, delete | `IngressSync` |
| task queue | `internal/queue`, vendored `workqueue` | queue, dirty, processing, sleeping goroutines | `Enqueue`, `RequeueAfter`, worker loop | `IngressSync` |
| sync of Ingresses, masters and minions | `internal/controller/controller.go` | locals of the worker | `syncIng`, `syncIngMinion`, `getMinionsForMaster`, `FindMasterForMinion` | `IngressSync` |
| Configurator | `internal/nginx/configurator.go` | `ingresses`, `minions`, files | add, merge, delete | `IngressSync` |
| NGINX | `internal/nginx/nginx.go` | what is loaded | reload | `IngressSync`, without version numbers |
| services, endpoints, secrets, ConfigMap | `internal/handlers/*`, `controller.go`, `configurator.go` | | | not modelled |
| configuration versions, NGINX Plus API | `nginx.go`, `verify/`, `plus/` | | | not modelled |
| status and leader election, shutdown | `status.go`, `leader.go`, `cmd/nginx-ingress/main.go` | | | not modelled |
| templates and annotations | `configurator.go`, `template_executor.go`, `convert.go` | none | | not modelled |

### Scripts of the Hugo themes

| part | source | state | operations | here |
|---|---|---|---|---|
| size sensor | hugo-uno, `ResizeSensor.js` | a closure and an event queue per sensor, scroll offsets, frames | attach, detach, scroll, frame, mutation | `ResizeSensor`, `SizeWatch` |
| element queries | hugo-uno, `ElementQueries.js` | `allQueries`, ids, setup information, attributes | `init`, `update`, `listen`, `animationstart`, report, `detach` | `ElementQueries` |
| responsive images | hugo-uno, `ElementQueries.js` | locals of each attachment, `display`, `src` | attach, `check`, `onload` | `ResponsiveImages` |
| feature tests | grid-side, `modernizr-latest.js` | `Modernizr`, classes, injected nodes | tests, `addTest`, `testStyles` | `Modernizr` |
| html5shiv | grid-side, `modernizr-latest.js` | data per document, replaced methods | `shivDocument`, `createElement`, `createDocumentFragment` | `Html5Shiv` |
| lists and lightboxes | grid-side, `main.js` | Masonry's items, images, animations | ready, load, append, resize, click | `Gallery` |
| menu, table of contents, particles, charts | hugo-uno | | | not modelled |

The hugo-uno theme is there three times with identical scripts (the theme of two
sites and the generated `src/hugo-nerdrack/public`); `PROJECT.json` maps the
definitions to the first copy. `ElementQueries` and `ResponsiveImages` use the
sensor for what `SizeWatch` promises; `Modernizr` extends `Html5Shiv` and runs
it between its tests and its classes, as the file does.

### What is hard about it

* **Stale reads.** A cached key set, a session read two calls ago, an Ingress read
  before a handler ran for its next version, a list a collector works through.
* **Handlers in any order.** Scroll events, frames, mutation records, image loads,
  timers and clicks; what one closure started is finished after another has taken
  its place.
* **Calls from within calls.** A listener detaches a listener, a feature test adds a
  feature, a function given to `testStyles` calls it again or throws.
* **Races for one object.** Two servers rotate at once, two requests present one
  code or one refresh token, two tabs approve one request, a revocation meets a
  refresh.
* **Failures in the middle.** A storage call fails, takes effect without saying so,
  or is the last one before a crash; a reload of NGINX fails.
* **Merged and delayed work.** The queue merges tasks for one key, puts back what
  changed while it was processed, and sleeping goroutines add tasks later.
* **Things that must happen.** Due keys are rotated, expired objects are collected,
  every Ingress is applied, a minion that came first joins its master, a size that an
  element keeps is reported, an item of a list is laid out.

`PROJECT.json` lists the main hazards line by line with the properties that cover them.

## Modules

A component `X` has its specification in `X.tla`, its theorems in `XProofs.tla`
(which extends `X` and `TLAPS`), and its instances in `MCX.tla` and the `.cfg` files.
The theorems about `ResponsiveImages`, which is the other half of one script, are in
`ElementQueriesProofs`, those about `Html5Shiv` in `ModernizrProofs`. A definition whose
comment starts with *Fault* is a faulty variant of the one after it, a bug someone
could plausibly write there. `Next` does not use it; each
checked property is violated when its fault is put in place.

### KeyRotation

Several servers share one `storage.Keys`. A goroutine is a record of the server
it runs on and its role: rotate, sign or publish. `CacheLoad`, `StorageGetKeys`,
`CheckFresh` and `CacheStore` are `keyCacher.GetKeys`; `RotateCheck`, `BeginUpdate`,
`RunUpdater` and `CommitKeys` are `rotate` with the storage's compare-and-swap;
`Sign` is `newIDToken`, `PublishKeys` is `handlePublicKeys`. `StorageError` and
`Restart` may come at any point. Keys are numbered by the rotation that installed
them. All servers read one clock; clocks that disagree are not modelled.

* `CacheCoherent`: a cache that would be answered from equals the stored keys,
  though nobody invalidates it. `NoEarlyRotation` (an action property) is the
  reason: the loser of a race finds the new `NextRotation` inside its update.
* `FreshKeySetCurrent`: a relying party that honours `max-age` has the stored keys.
* `LiveTokensVerify`: no rotation drops a key that an unexpired token needs,
  provided the token's expiry was fixed before the key was demoted.
* `DueKeysRotate` (liveness): keys that are due are rotated.

The comment in `rotate` (`rotation.go:162`) claims `LiveTokensVerify` without its
proviso. That would not hold: `newIDToken` reads the key before the clock, so a
token can outlive the `Expiry` its key gets when it is demoted in between.

### RefreshTokens

One user of one connector, several clients, several requests at once. Each
storage call of `handleAuthCode`, `handleRefreshToken` and `RevokeRefresh` is an
action named after it. A call may fail (`StorageError`), take effect and lose its
answer (`Answered`), or be followed by a crash (`Crash`), at most `MaxFaults` times;
the deferred deletion of `handleAuthCode` is `Cleanup`. Two updates of the session that overlap
are no fault: kubernetes, etcd and a serializable database refuse the one that was overtaken
(`raced`, `Conflict`), the memory storage and SQLite run them one after the other.

* `ClaimedOnce`, `CodeRedeemedOnce`: a token value, and a code, are honoured once.
* `RevokedStaysRevoked`: a revoked token never returns.
* `RefsResolve`: without faults, every ref names a stored token of its client or is being
  replaced, unless the storage refused the very update that was to replace it (`lost`).
* `NoLockout`: without faults, the value of every stored token was sent to its client, or
  the request that stored it is still running.
* `RefPresent`: a refresh of a client whose tokens nobody revokes never meets a
  session without the entry it dereferences. With a revocation in between it does.
* `OneTokenPerClient` is what `api.proto` says. It does not hold (see Findings).

With a fault the code gives up `RefsResolve` and `NoLockout`: when the call after
`DeleteRefresh` fails, the session names a token that is gone, and later exchanges
for that user and client fail at `handlers.go:834` until the ref is revoked; when the
answer to a refresh is lost, the client has to log in again. The first happens without
a fault too, when another request writes the session during that call; see Known
divergences.

### AuthFlow

`AuthRequest`s, the handlers that work on them at once, one collector per server,
and the storages. `backend` is chosen initially from `Backends`, because the flow can
tell storages apart: an update of an object that is gone fails, except on etcd,
where it creates one; memory collects in one step, SQL in two statements,
kubernetes and etcd from a list. `Abort` ends a handler between two calls.

* `ResponseOnce`: a request is answered once. This needs a delete that fails on a
  missing object and an update that does not create one; over etcd it does not
  hold and is not claimed.
* `AnsweredFromLogin`: the claims in the answer were written by one completed login to this
  request, and the connector they come from and the one named with them in `sub` were both
  chosen for it (`chosen`). They are the same unless the user chose two.
* `UnexpiredKept` (an action property): no collector takes anything unexpired.
* `ExpiredCollected` (liveness): expired objects go, on all storages but etcd.

### IngressSync

The informer changes its cache and then calls a handler (`Change`, then `OnAdd`,
`OnUpdate` or `OnDelete`); handlers add tasks; the worker takes one (`Get`), reads
the cache (`SyncIng`, `SyncIngMinion`), lists minions (`GetMinionsForMaster`), writes the
Configurator's maps and files (`AddOrUpdateIngress`,
`AddOrUpdateMergeableIngress`, `DeleteIngress`), reloads NGINX (`Reload`), or finds
a minion's master and queues it (`EnqueueMaster`), and ends the task (`Done`). `Wake`
is the end of a sleep of `RequeueAfter`. The queue has the dirty and processing sets of
the vendored workqueue. An Ingress is a record of what the code's decisions depend
on: class, mergeable type, number of rules, host, HTTP part, paths, TLS.

* `ChangesApplied`: no change is lost; when nothing is under way for an Ingress of
  ours its file is made from what the cache has.
* `DeletedGone`: the configuration of a deleted Ingress goes, if it was always of
  our class and not a minion. The informer may miss deletions; only for an Ingress whose
  own last deletion it missed (`missed`) is nothing claimed.
* `MinionsJoined`, `JoinedEventually`: a minion and the one master of its host
  get together in any order of events.
* `OldestPathWins`: a path two minions ask for goes to one, the older one.
* `LoadedWhenReloaded`: NGINX runs what the files say unless the reload failed (proved,
  and no part of a run).
* `AppliedEventually` (liveness): every accepted Ingress is applied.

The model also has behaviours none of the properties forbids: an Ingress that
turns into a minion keeps its old file, a minion that moves to another host stays
in the file of its old master until that is synced again, and a failed reload is
not repeated. Errors of the template engine are left out, also those of a template that
the ConfigMap put in place of the one read at start-up (`configurator.go:1210`), and so is the
panic on an Ingress without rules. Each Ingress is taken to have a file of its own: the
names join namespace and name with a hyphen (`configurator.go:1252`), so this assumes that
no two Ingresses such as `a-b/c` and `a/b-c` exist together.

### ResizeSensor and SizeWatch

One element and the sensors made for it, one after another. A sensor is the closure of
one `attachResizeEvent`: its locals (`size`, `last`, `dirty`, `rafId`, `hiddenCheck`,
`polling` for `lastAnimationFrame`), its `EventQueue` and the size its scroll offsets are at
rest for (`at`). They outlive the sensor's detachment, as the closure does. The element is
resized, hidden, removed and put back by `Resize`, `Hide`, `Show` and `Insert`; `Attach`
is `new ResizeSensor`, `Detach` and `DetachAll` are `detach` with and without a listener,
`ResetSensor` is `reset` of a script, `OnScroll` the scroll handler,
`Observe` the mutation observer, `StartFrame` and `Frames` the animation frames with `reset`,
the look at a hidden element and `onResized`. A call of the queue is `Listen`, `Return` and
`EndCall`, so that listeners can attach and detach while it is under way, with the indices
that `call` and `remove` share; a listener that throws ends it (`Throw`). Width and height are one number, 0 for an element
without a box.

* `OneCallPerFrame`: what the comment in the file says, for each sensor.
* `NoMissedResize`: when nothing is under way, the listeners were told the size
  the element has. It excepts a sensor that lost its scroll offsets.
* `PollingGoesOn`: a sensor that waits for its element goes on looking, once per frame.
* `CallReachesAll` (an action property): a call reaches every listener in front of the one
  it ends in, which is all of them unless that one throws. It excepts calls during which
  a listener was detached.
* `Refines`: `ResizeSensor` implements `SizeWatch`, in which a watch starts with the size
  of the element, measures and reports, and reports every size that lasts. `size` of
  the abstract specification is `box`; `measured` and `known` are `size` and `last` of the
  attached sensor.

### ElementQueries

Style sheets arrive one by one (`loaded`), scripts call `listen`, `init`, `update` and `detach` at
any time, and the elements are shown, hidden, resized and put back. Reading the
sheets (`ReadSheets`, `ReadSheet`, `QueueQuery`) fills `allQueries` and the ids; a rule comes
with the at-rules it is nested in, which decide whether it is read (`IsRead`); an `@import`
whose sheet is null throws, and the rest of its sheet is not read (`Throws`). An element
that starts to match an id's rule, or is shown again, is announced by
`animationstart` (`AnimationStart`), once to each handler `init` has added. `Report` is a call of
the sensor's queue, whose members are the image's `check`, the listener of `setupElement`
(*direct*) and that of the animation handler, which looks for the setup information
first (*guarded*). `Call` is `SetupInformation.call`. A rule is a selector and one of its
queries; the regular expressions that find them are left out.

* `IdsMatchSelectors`: each selector with rules keeps one id, however often sheets are read.
* `ListensWhileSetUp`: an element with setup information has a sensor and a listener, and
  no listener runs without the information it needs.
* `Detected`, `Adapts` (liveness): an element in view that matches is set up, and one that
  keeps its size ends up with the attributes its selector's rules ask for (rules in px, and in
  units `convertToPx` does not know, which it takes for px).

### ResponsiveImages

One element with its children's least widths, attached once or more (`Attach`); `ReportWidth`
runs `check` of every attachment, `OnLoad` and `LoadFails` end the loading of an image, in any
order. As all checks of a report ask for the same image, `Checked` states what they do
together, one after the other; loads under way are counted for each index. An index is a record of a number and a type, because the code compares the
string of a `for`-`in` with the number of the default by `!==`.

* `OneShown`: exactly one child is displayed, also when loads end in another order
  (one attachment, one default), and a child that replaces the default has its source
  when it is displayed (any number of attachments).
* `Follows` (liveness): in the end it is the one the rules ask for, unless a check met an
  image loading or a load failed.

### Modernizr and Html5Shiv

A browser is a constant: what it has. `RunTest` runs the tests in their order, with the style
element they share and the results they read of each other; `Webforms`, the shiv and the
classes follow, or the script ends with a test that throws. Then scripts call `addTest`
(with a function or an object) and `testStyles`; a stack holds the calls in progress, since
the functions they are given call again (`Return`, `NextKey`) or throw (`Throw`). `Html5Shiv`
keeps for each document its number, the data under that number, and whether its methods are
replaced; `UseShiv` is any use of it while scripts run.

* `DocumentRestored`: what `testStyles` injects leaves the document again.
* `ClassesAgree`: classes and results tell the same, and a script that ends early has
  written no class. It excepts features whose test gives nothing or adds itself.
* `KeptResults` (an action property): once no call of `addTest` for a feature is in progress, its
  result and its classes are final, for every feature and every way of calling again.
* `MadeByOwnDocument`: through any sequence of shivings a document's elements are
  made by the browser's own method of that document, and it has one style sheet.

### Gallery

Pages of items, each with one image. `Ready` is the ready handler, `ImagesLoaded` and
`PageLoaded` its callbacks, `ImageSettles` the load or error of an image with the handler
for it, `Scroll`, `PageArrives` and `PageFails` the infinite scroll, `Unveil` an image that
is loaded when it comes into view, `LoaderLoads` the picture in the loading message,
`Resize` and `ResizeTimer` the window, `Click` and `Animate` a lightbox. What `main.js` uses of Masonry,
imagesLoaded, lazysizes, infinite scroll and jQuery is translated from the minified files next to it.
Masonry's items are counted (`items`): a bare call makes an instance without `itemSelector`,
which takes the loading message for an item (`loaderItem`), and `appended` adds an item whether or not
it is one already. `placed`, `laid` and `width` say which items lie where they should.

* `LaidOut`: when nothing is under way Masonry has the theme's options, whichever handler
  made the instance, and every page is an item; twice exactly if it was in the container when the
  instance was made and its images were reported afterwards (`early`). Items whose image did
  not break fit. The loading message is an item only if a bare call made the instance.
* `ShownEventually` (liveness): every page becomes an item and fits, unless its image breaks.
* `LastClickWins`: when the animations have run, the lightbox is as the last click asked.

## Runs

`tlc -config X.cfg M` repeats a run.

| run | module, cfg | result |
|---|---|---|
| `rotation_tokens` | `MCKeyRotation`, `KeyRotationTokens.cfg` | `LiveTokensVerify` holds |
| `rotation_caches` | `MCKeyRotation`, `KeyRotationPublish.cfg` | `CacheCoherent`, `FreshKeySetCurrent`, `NoEarlyRotation`, `DueKeysRotate` hold |
| `refresh_requests` | `MCRefreshTokens`, `RefreshTokens.cfg` | `ClaimedOnce`, `CodeRedeemedOnce`, `RefPresent`, `RevokedStaysRevoked`, `RefsResolve`, `NoLockout` hold |
| `refresh_one_token` | `MCRefreshTokens`, `RefreshOneToken.cfg` | `OneTokenPerClient` violated |
| `auth_answers` | `MCAuthFlow`, `AuthAnswers.cfg` | `ResponseOnce`, `AnsweredFromLogin`, `UnexpiredKept`, `ExpiredCollected` hold |
| `ingress_types` | `MCIngressSync`, `IngressTypes.cfg` | `ChangesApplied`, `AppliedEventually`, `JoinedEventually` hold |
| `ingress_merge` | `MCIngressSync`, `IngressMerge.cfg` | `DeletedGone`, `MinionsJoined`, `OldestPathWins` hold |
| `resize_sensor` | `MCResizeSensor`, `ResizeSensor.cfg` | `OneCallPerFrame`, `NoMissedResize`, `PollingGoesOn`, `CallReachesAll`, `Refines` hold |
| `element_queries` | `MCElementQueries`, `ElementQueries.cfg` | `IdsMatchSelectors`, `ListensWhileSetUp`, `Detected`, `Adapts` hold |
| `responsive_images` | `MCResponsiveImages`, `ResponsiveImages.cfg` | `OneShown`, `Follows` hold |
| `modernizr` | `MCModernizr`, `Modernizr.cfg` | `DocumentRestored`, `ClassesAgree`, `KeptResults`, `MadeByOwnDocument` hold |
| `gallery` | `Gallery`, `Gallery.cfg` | `LaidOut`, `LastClickWins`, `ShownEventually` hold |

The type invariants of the Go programs are proved (`TypeCorrect`) and not repeated in the
runs. Those of the scripts are a conjunct of one invariant each (`IdsMatchSelectors`,
`OneShown`, `DocumentRestored`, `LaidOut`); for `ResizeSensor`, `Types` in the proofs has
the variables its theorems depend on.

### Bounds

* **Keys:** two servers are enough for a race, and what a third would add is proved
  to be nothing new. Rotation every 2 ticks and tokens valid for 3 make a token
  outlive one rotation and straddle a second; `MaxTime` 9 of the first run is four
  periods, so that verification keys also expire. One storage error or restart.
* **Refresh tokens:** three requests at once, two clients, one of which has its tokens
  revoked, three codes (two for one client, so that an exchange replaces a ref) and
  as many numbers as two tokens and a rotation need. One fault; requests are
  symmetric.
* **Authorization:** one request, two handlers, two connectors (one with a password
  page, one that calls back) and two collectors. The clock has two ticks and
  requests and codes are valid within the tick they were made in, so that they
  expire during a login, before and after they are listed.
* **Ingresses:** two or three, each with one to five specs, and three or four changes: enough
  to create, change, delete and recreate one while another is in progress.
  Deletions may be missed in both runs; `ReloadFails` switches failing reloads on where
  a run is about them. In no passing run are a master and a minion that its file has refused
  at the same time: every retry of the minion would start another chain of
  retries of the master (`queue.go:66`), and the state space would have no end.
* **Size sensor:** two sensors (a new one while frames of the old are to come), two
  listeners, a queue of up to three, two sizes, and five steps of scripts and layout:
  attach, resize, detach from a listener, attach again, resize.
* **Element queries:** one element that matches two selectors and is a responsive
  image too; four sheets, one of which may not be read and one of which fails to import, with rules
  in px, em and an unknown unit; two calls of
  `init` or `update`, six steps. Elements share nothing but the rules.
* **Images:** four sets of two or three children, with the default first, last, missing or
  double; widths below, between and above their least widths; two attachments and three
  changes, so that three loads can be under way.
* **Modernizr:** four browsers (modern, early WebKit, one to be shived, one that drops style
  elements and throws), three calls by scripts nested up to three deep, two new
  features, two documents.
* **Gallery:** the first page and one more, two widths, two resizes, two clicks. Every page has its
  own callbacks and all share the instance, so a second one adds no new order of a page, the
  instance and a resize.

`CHECK_DEADLOCK FALSE` is used for `RefreshTokens`, whose codes and numbers are used
up, for `IngressSync`, whose controller waits when nothing changes any more, and for
the scripts, which wait for the user.

### Fairness

* `RotationFairness`: weak fairness of each rotation goroutine. `startKeyRotation` calls
  `rotate` every 30 seconds in an endless loop and the context is never cancelled.
* `Fairness` of `AuthFlow`: weak fairness of each collector, which is such a loop too.
  Handlers are not fair: users may stop anywhere.
* `LiveSpec` of `IngressSync`: weak fairness of the informer's calls of handlers, of the
  worker and of each sleeping goroutine (`wait.Until` and `time.Sleep`). Changes of
  resources are not fair, and reloads may fail for ever.
* `Fairness` of `ResizeSensor`: a browser serves events, mutation records and the frames of a
  page in view, and a listener that was called returns or throws. Scripts and layout are not fair.
* `Fairness` of `ElementQueries`: the engine announces animations, and the sensor reports; the
  latter is what `SizeWatch` promises while it can hear the element.
* `ImagesSpec` of `ResponsiveImages` and `Fairness` of `Gallery`: the sensor reports, loading an image
  ends in success or failure, callbacks and timers run. Users are not fair.

## Findings

`refresh_one_token` shows where the code does something else than the repository
says: two first exchanges of a user and client at once leave two refresh tokens, one
without a ref. `PROJECT.json` quotes the line of `api.proto`.

## Known divergences

Other places where the models have behaviours that a comment or document excludes.
The properties above are stated so as to except them, and no run is kept for them.

* **etcd recreates requests** (`storage/etcd/etcd.go:498`, `AuthFlow`): on etcd an update of a
  collected request creates one with an empty ID; from then on the collector fails before it
  looks at codes. `storage.go:105` says that `GarbageCollect` deletes all expired ones.
* **Second connector** (`handlers.go:282`, `AuthFlow`): opening another connector's login
  page after a login changes the request's `ConnectorID` and leaves its `Claims`, though
  `storage.go:181` calls it the connector used to log the user in.
* **Class left while queued** (`controller.go:500`, `IngressSync`): an Ingress that leaves our
  class while its task is queued is configured all the same, and its later changes and
  its deletion are ignored; compare `docs/multiple-ingress-controllers.md:11`.
* **Missed deletions** (`handlers/ingress.go:50`, `task.go:54`): a deletion that comes as
  `DeletedFinalStateUnknown`, for which `handlers/ingress.go:26` has a case, is dropped by `NewTask`,
  and the configuration of the Ingress stays until it is made and deleted again.
* **Refused update of a session** (`handlers.go:842`, `RefreshTokens`): an exchange deletes the old
  token and then updates the session. A storage that refuses the update because another
  request wrote the session meanwhile leaves a ref to the deleted token.
* **Minion deleted early** (`handlers/ingress.go:41`, `controller.go:1325`): a minion deleted
  during the first sync of its master stays in the configuration.
* **Second selector** (`ElementQueries.js:170`): an element that matches two selectors gets the
  rules of the first it was found for only; line 183 says that the rules of a selector
  are stored to be "applied once resized".
* **Late image** (`ElementQueries.js:304`): the `onload` of an image asked for earlier displays its
  child after a later check; line 292 says that the default is shown when no rule matches.
* **Features that add themselves** (`modernizr-latest.js:989`): a test that adds its own feature
  has its result overwritten, in spite of line 981.
* **Items of the list** (`TnB/themes/grid-side/static/js/main.js:19`, `:37`): an instance made by the `load`
  listener keeps the loading message among its items, a page that came before the instance is added
  twice, and an image that fails is not heard.

## Proofs

All theorems hold for every value of the constants that satisfies the named
assumptions (`ConstantsAssumption`, `RefreshAssumption`, `AuthAssumption` and
`TimeAssumption`, `IngressAssumption`, `SensorAssumption`, `ElementsAssumption`,
`SheetsAssumption`, `ImagesAssumption`, `ShivAssumption`, `ModernizrAssumption`,
`GalleryAssumption`), which say what is a natural number, a Boolean, a sequence or a subset of
what, and that a page has a style sheet and an element with
responsive images a child. `tlapm XProofs.tla` checks them. Each is an invariance proof:
an inductive invariant, a step per action, and PTL at the end. A leaf that cites
no prover is for Zenon, or else for the SMT solver; one that needs arithmetic cites the
solver through both of its translations, of which the second is tried when the first fails.

Some proofs need what a recursive function computes. The library states induction for an
operator, which no installed prover can instantiate; it is proved here for a set
instead: a set of numbers has a least element (`LeastNatural`, from the library's
well-foundedness of `<`), hence what holds at 0 and is handed on holds everywhere
(`Inductively`), and a function is determined by its first value and its step
(`Recursively`).

**KeyRotationProofs.**
`TypeCorrect`. `CachesCoherent` and `RotationNeverEarly` rest on `CacheInv`: not only
caches, but every Keys value a goroutine is holding is either due or equal to the stored
one. Without the goroutines' locals the invariant is not inductive, since
`CacheStore` installs one of them. `KeySetsCurrent` adds the same for the
relying party (`PublishInv`). `TokensVerify` rests on `TokenInv`: keys in use are ones
that were installed, each retired key was demoted once, and it is still published until
its expiry.

**RefreshTokensProofs.**
`TypeCorrect` carries what each handler's locals hold at each point (`SetAt`).
`TokensClaimedOnce` and `RevocationsFinal` rest on `HistoryInv`: numbers in use are not
beyond the counter, and a claimed value is older than the token's current one.
`CodesRedeemedOnce` rests on `CodeInv`: at most one request is past the deletion of a
code, and then it is neither stored nor answered. `NobodyLockedOut` is inductive given
types. `RefsAlwaysResolve` rests on `RefInv`: a token that is not yet in the session
is known to one request only, so that nobody else deletes it, and an update that is refused
leaves an unresolved ref only for the client it marks as `lost`. `RefsArePresent`, which has to
hold in spite of faults and crashes, rests on `PresentInv`: as long as nobody revokes for a
client, an entry of the session, once made, stays, and a token that a refresh can
present was issued by a request that made the entry before it answered.

**AuthFlowProofs.**
`TypeCorrect`. `AnswersFromLogins` rests on `LoginInv` (stored requests and those in
handlers' locals were logged in by a recorded login) and, for the connectors, on
`ChosenInv` (theirs were chosen for the request). `AnsweredOnce` rests on `OnceInv`: a
stored request is unanswered, and a handler that got past the delete is alone with
it. `CollectorsKeepUnexpired`, an action property, rests on `ListInv`: what a
collector has listed has expired or is gone, and an ID is not used again.

**IngressSyncProofs.**
`TypeCorrect` includes that the queue has each dirty task that is not being
processed exactly once. `NoChangeLost` rests on `ChangeInv`: unless a handler or queued
task will deal with an Ingress, either its file is current, or the worker is still
before its read, or between the read of the *current* version and the write.
`DeletionsApplied` rests on `GoneInv`, the same for an Ingress that is gone and whose
deletion was not missed; missed deletions of others are among the steps. `MinionsServed` rests on `JoinInv` together with
`ChangeInv`: for a minion and the one master of its host, unless a handler, a
queued task or a sleeper will deal with either, the master's file has the minion, or the
worker has listed it, or is on the way to queue the master. `OldestMinionWins` rests on
`PathsInv` and the fact that any order `sort.Slice` may produce is free of ties and
agrees with the timestamps. `FilesLoaded` rests on `LoadedInv`.

**ResizeSensorProofs.**
All rest on `SensorInv`. `CallsLimited` and `LooksGoOn` need `FlagsCount`: `rafId` and
`lastAnimationFrame` are set exactly while one frame is to come, in this list of callbacks or
the next, which by itself says more than either property. `ResizesNoticed` needs
`OffsetsTell`: offsets at rest for a size stand for a measurement of that size or an
event to come, and a measurement that was not reported has its frame. `Unmade` keeps
sensors that do not exist yet out of all of it. `SensorWatches` is the safety part of the
refinement: `SafeSpec` implements `SizeWatch`'s `SafeSpec`, each action a step of the watch or
a stutter. `CallsReachAll`, an action property, rests on `CallOK`: unless a listener was removed
from the queue that is called, what is due are its first `j` listeners and the first `i` are
reached, since those that are attached meanwhile come behind; so a listener that throws
leaves out the ones from `i + 1` to `j` at most. After a removal the loop is at its end.

**ElementQueriesProofs.**
`IdsAlwaysMatch` and `AlwaysListening` rest on `QueriesInv`. The first needs that reading a sheet,
which is a recursion over its rules, and all sheets, one over the sheets, keep `Consistent`:
the ids are those of the selectors that have queries, each once; and only add
queries (`Grown`), so that attributes that were set stay ones of a query. The second
needs `ListenedTo`: the setup information and the sensor of an element come and go
together, and a listener that does not look for the information is there only with it.
That the animation handlers attach at least one listener follows from there being rules
only after `init`. `OneImageShown` rests on `ImagesInv`: with one attachment the child that is
displayed is the one that its `lastActiveImage` names, and sources once set stay; `CheckedPage`
shows that a run of the checks keeps it.

**ModernizrProofs.**
`LoadInv` says where the script is: the features before `at` have results and those from `at`
on have none, which makes "a result is there" the same as "its test has run". `CallsInv` types
the calls in progress and says which of their features were entered twice. On these rest
`ResultsKept`, an action property, and `ClassesAlwaysAgree`, inductive together with
them. For the first, every step that writes a result (`Settles`) does so where there was none or where a
call for the feature is in progress. `ElementsMadeByOwnDocument` rests on `ShivInv`: numbers of documents are not shared,
the data under a number belongs to the document that has it, and what it saved is the
browser's method even when the document's own is by now the replaced one.
`DocumentAlwaysRestored` rests on `DocInv`: the divs in each body are counted by the calls of
`testStyles` in progress that put them there, and of the calls that found no body the
lowest one made it and is to remove it. The count is why the proof needs cardinalities,
and why `Throw` has to be remembered.

**GalleryProofs.**
`LastClickAlwaysWins` rests on `LightboxInv`: the animation queued last is the one the last
click asked for. `ListAlwaysLaidOut` rests on `ListInv`: pages come one after the other
(`PagesInOrder`); how often one is among the items is known from `early` and from whether its images
were reported (`ItemsCounted`); and from the first report on the last layout was made for the
width of now, and items have their place unless their image is loading or broke (`ItemsFit`).

**Only model-checked.** Liveness (`DueKeysRotate`, `ExpiredCollected`,
`AppliedEventually`, `JoinedEventually`, `Detected`, `Adapts`, `Follows`,
`ShownEventually` and the `Prompt` of `SizeWatch`, the part of `Refines` beyond `SensorWatches`):
fairness is out of the prover's reach. Every invariant and action property of the passing
runs has a theorem.

## Not modelled

* **No state to model:** upstream connectors (an oracle in `AuthFlow`), templates,
  parsing of parameters and annotations, command lines, the CRUD calls of the API, static
  overlays, Modernizr's questions `mq` and `prefixed` and its shims for old engines, the
  conversion of units by measuring an element, the regular expressions for rules.
* **Sequential scripts:** hugo-uno's `main.js` and `toc.js` toggle a class for each click and
  fill a list once; `particles.js` is a configuration for a library that is not in the
  repository; `Chart.js` is a minified release of another project.
* **Separate from what is modelled:** of the controller, services, endpoints, secrets and the
  ConfigMap, configuration versions and the NGINX Plus API, status and leader election,
  shutdown; of dex, the connectors map, the health checker and SQL migration. These have state
  of their own and could be modelled beside `IngressSync` and `AuthFlow`.
* **Below the level of these models:** Go data races on shared slices and maps
  (`rotation.go:147`, `configurator.go:1261`); clocks of several servers that disagree.
* **Not programs of this repository:** manifests, pages, style sheets, vendored packages.
