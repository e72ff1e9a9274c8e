# Verification of the DSX Exchange event bus

TLA+ models, TLC runs and TLAPS proofs about the program in this repository: a
NATS event bus with MQTT clients. Its one service of its own, *auth-callout*,
decides for every connecting client which account and permissions it gets; a
script writes the keys of the bus; the catalogue of BMS events says what may be
published on it, and *dummy-bms* publishes, checked against that catalogue.

## 1. Inventory

| Component | State | Operations | Status |
|---|---|---|---|
| permissions file watcher (`nv-config`, vendored) | inotify watch, polling baseline, registered callbacks, one debounce timer per path, `done` channels | `WatchFile`, the fsnotify loop, the polling loop, the timers, `Stop` | modelled |
| permissions manager (`internal/config/permissions.go`) | four `atomic.Pointer` lookups | `NewPermissionsManager`, `load`, four `Get...Profile`, `Close` | modelled |
| authenticators (`internal/auth`) | key set, CA pool | `CanAuthenticate`, `TryAuthenticate` of OAuth2, mTLS, NKey, NoAuth | partly |
| request handler (`internal/service/service.go`, callout library) | the request in hand, counters | decode, `handleAuthRequest`, respond | partly |
| key generation (`deploy/scripts/generate-nkeys.sh`) | the tree of secret files and its directories | parse, clusters, leaves, remove unused halves; interruption, rerun | partly |
| dummy BMS and MQTT client (`local/mqtt-client`) | rows loaded, place in the replay, connection, what the broker retains | load, connect, replay, publish, interrupt; loss of the connection, restart | partly |
| BMS event catalogue (`schemas/asyncapi/bms`, `docs/schema-viewer/bms`) and its validator (`dummybms/schema.go`) | none: channels and the schemas of their messages | look up a channel, validate a message | partly |
| service lifecycle (`service.Run`, `health.go`, `main.go`) | NATS connection, HTTP server | connect with retry, health, shutdown | not modelled |
| configuration manager (`internal/appconfig`) | merged settings | `Load`, `Unmarshal` | not modelled |
| event bus chart (`deploy/nats-event-bus`) | none: accounts, imports, exports, leaf nodes from values | rendering | not modelled |
| MQTT benchmark (`local/mqttbs`) | clients, atomic counters | connect, publish, drain, report | not modelled |
| other event catalogues (nico, power management, spiffe exchange) | none | none in this repository | not modelled |
| auth-callout chart, observability, AsyncAPI generator, local scripts | none of interest | templates, exporter set-up, text, I/O | not modelled |

How they interact: the manager calls `WatchFile` with a callback; the watcher's
loops and timers call it back on goroutines of their own, where it runs `load`;
`load` stores into the four lookups; the authenticators read the lookups from
the handler's goroutine with no lock in common with `load`. The callout library
calls the handler for one message at a time. `Close` is called from the
goroutine that runs `Run`. The secrets of `generate-nkeys.sh` are what
auth-callout signs with and what the leaf nodes of the clusters connect with.
`dummy-bms` looks every row of its scenario up in a schema file, and its
messages reach subscribers through the broker, which keeps the metadata.

What is hard in this code: loads overlapping loads, a notification that is lost
or comes at the wrong moment, a timer's clean-up that meets a newer timer, Stop
while callbacks are under way, a request decided while the tables are swapped
one by one, and many error returns that each have to keep answer and counters in
step. In the script: an interruption between any two files, a tool that fails
inside a command substitution, and runs with other arguments on what is there.
In dummy-bms: an interrupt that meets a timer, a token that never comes, a
connection that takes packets with it, and metadata that outlives the run that
published it. PROJECT.json lists these as hazards with the line where each one bites.

What makes each component correct:
- watcher and manager: no change is lost, the last version wins, a bad file
  changes nothing, closing is final;
- handler: one decision per request by the documented priority of methods, no
  fallback to a weaker one, counters that agree with the answers, and an end to
  every request;
- key generation: no key in use is overwritten, a run that reports completion
  leaves no leaf connection with halves of two pairs, and what an interruption or
  a failure costs stays with the cluster or leaf at hand;
- dummy BMS: all rows of a file or none, in order and on time, metadata before
  and under each value, a clean end after an interrupt;
- catalogue: what is accepted can be read in one way, names the point of its
  topic, and value and metadata channels correspond.

## 2. Modules

| Module | Models | Notes |
|---|---|---|
| `FileWatcher` | debouncer, fsnotify and polling loops, Stop, changes of the file | actions without a specification of their own |
| `PermissionsManager` | manager over the watcher; `Spec`, `FairSpec`, properties | EXTENDS `FileWatcher` |
| `PermissionsStore` | what the manager promises its readers | abstract; refined by `PermissionsManager` |
| `PermissionsLookup` | building and searching the tables | operators |
| `Authenticators` | the four methods and the chain | operators, EXTENDS `PermissionsLookup` |
| `AuthCallout` | the handler, step by step, over a `PermissionsStore` | EXTENDS `Authenticators` |
| `AuthDecision` | the decision as one atomic step by a rule | abstract; refined by `AuthCallout` |
| `GenerateNkeys` | the key script, file by file, with interruptions and reruns | |
| `Schemas` | JSON schemas as far as the catalogue uses them | operators |
| `BMSCatalog` | the BMS catalogue of the schema viewer (2.1.0) | EXTENDS `Schemas` |
| `BMSSchema` | the file `bms.yaml` (1.0.0) as its differences, and the validator | EXTENDS `BMSCatalog` |
| `DummyBMS` | load, replay, interrupt; broker, connection and operator | EXTENDS `BMSSchema` |
| `CataloguePromises` | what the catalogue promises of the rows that are loaded | properties, EXTENDS `DummyBMS` |
| `BMSValues` | values, topics and payloads of the instances | for TLC |
| `MCPermissionsManager`, `MCAuthCallout`, `MCGenerateNkeys`, `MCDummyBMS`, `MCBMSCatalogue` | instances for TLC | |
| `PermissionsManagerProofs`, `AuthCalloutProofs`, `DummyBMSProofs`, `GenerateNkeysProofs` | theorems | EXTENDS the module and `TLAPS` |
| `SchemasProofs` | how composed schemas are read | theorems, EXTENDS `Schemas` |
| `CatalogueProofs` | theorems about the catalogue | EXTENDS `CataloguePromises`, `DummyBMSProofs`, `SchemasProofs` |

The composition: `AuthCallout` moves its lookups by the next-state relation of
`PermissionsStore`, which `PermissionsManager` is shown to implement. So the
handler is checked against every behaviour the manager may have, without the
product of the two state spaces.

### Watcher and manager

A *version* of the file is what `fileStateFrom` tells apart (modification time
and hash), so every change is a new number; `file[v]` is its kind: `good`
(accepted by `load`), `bad` (opens, and load returns an error) or `gone` (does
not open). A table is the version it was built from.

| Model | Code |
|---|---|
| `timer[t]`, `entry` | the timers `time.AfterFunc` made, and the one `debounceTimers[path]` holds; they differ once a timer has fired |
| `Rearm` | the wrapped callback, under the debouncer's mutex |
| `Reload(t)`, `LoadRead`, `LoadStore`, `Forget(t)` | the timer's function: the callback's `load`, then the `delete` of the entry |
| `FsTake`, `FsNotify` | an event taken off the channel and its callback looked up; the callback called, with no lock held |
| `PollRead`, `PollCompare`, `PollNotify` | one `checkFiles`: hash the file, compare and record under the lock, call back without it |
| `StopTimers`, `StopFs`, `StopPoll` | Stop of the three layers, each under its own lock |
| `Replace`, `WriteInPlace` | a ConfigMap update (the name gets another inode, inotify reports no write) and `os.WriteFile` (a write event if the inode is watched) |
| `stage`, `got` | where each running `load` is, and the version it read |

Abstractions: `load` works on its own bytes from `ReadFile` to the first store,
so reading, parsing and building are one step; the four stores are four. In
`checkFiles` the snapshot of the registered paths and the reading of the file are
one step, because the callback is looked up again later under the lock. Equal
unread inotify events may merge. An inotify queue overflow is not modelled;
polling covers it as it covers `Replace`. A write in place adds one version; the
truncated file a reader can meet in the middle is a version of kind `bad` before it.
A null entry in the file, at which `load` panics, is left out (see hazards).
The constructor fails in three places: its load (`LoadRead`), `NewFileWatcher`
(`NewFileWatcherFails`) and `WatchFile` (`RegisterFails`). The fields of an entry are
modelled as they are after `os.ExpandEnv`, which `load` applies before every
check and key; the environment of the process does not change.

### Handler

A request is a record of the credentials the NATS server reports. A token says
whether it has the shape of a JWT and whether it verifies (signature,
algorithm, expiry, issuer and audience together), and its subject, party and
scopes; a certificate whether it parses and chains to the CA, and its names.
`Receive`, `Abort`, `Authorize` are the library's delivery and decode;
`Skip`, `Try`, `NoneMatched` the loop over `authenticators`; `Claims` the
validation and signing of the user JWT; `Respond` is `sendResponse`. `counted`
is the set of counters the request has incremented (the metric names of the
method reduced to `attempts` and `failures`). `lookup` is read once per attempt,
as in the code.

`AuthDecision` has no chain and no steps: the method of a request is the
strongest enabled one whose credential it carries; it gets the one profile that
credential is entitled to, by the narrowest matching entry, from the tables
served at one instant between request and response. The refinement says the
loop always takes such a decision.

### Key generation

A file is `<<cluster, secret, key>>`, a secret the tuple of the parts of its name.
What a file holds is the half of a key pair, named by the run, the cluster and
the secret it was generated for, or `Blank`, the empty line `read` takes when nsc
fails in the here-string. `dirs` has `<<cluster>>` for the cluster's directory of
keys and `<<cluster, secret>>` for the directory of a secret.

| Model | Code |
|---|---|
| `ParseArgs` | the check of the extra account tokens |
| `GenerateCluster`, `Mint` | `generate_cluster`: a directory that is there is left unchanged; otherwise it is made and the nsc calls of `generate_base_cluster_secrets` follow |
| `MakeSecretDir`, `WriteSecretValue` | one `write_secret_value`: `mkdir`, then the temporary file moved into place |
| `GenerateLeaf` | `generate_leaf_outputs_pair` up to the first write |
| `RemoveCscSeed`, `RemoveCpcPubkey` | `remove_unused_leaf_keys` |
| `Advance`, `at`, `leaf` | the loops of `main` |
| `Interrupt`, `Rerun` | a signal, a full disk under `set -e`, a crash; the operator |

`struck` is a history variable: the clusters an interruption met between their
directory and their last file, and the clusters and leaves nsc failed for. No
guard reads it.

All nsc calls of a cluster happen before its first file is written, so `Mint` is
one step over the set of pairs that fail. The first run may find an empty tree or
one of an older version, which wrote all four halves of a leaf, with the CSC
side possibly taken from another leaf. Options, permissions of files and the
temporary directories are left out.

### Dummy BMS

A row is an offset, a topic and a payload; a topic is the record of its
segments after `BMS/v1`, with the tag path as one; a payload is a function from
field names to values. A value in the file may be a template, a text with
`{{timestamp_ms}}` somewhere in it, as `strings.ReplaceAll` finds it: as the whole
value (`Placeholder`), in a number (`1.{{timestamp_ms}}`) or in a string.
`Rendering` gives what the JSON then has for it with the time 0 of the load
(`Epoch`) and with the time of publishing (`Now`, one instant for all later ones);
the two may be of different kinds. A name of a field with a placeholder in it is
left out: no schema knows such a name with either time.

| Model | Code |
|---|---|
| `ReadRow`, `EndOfFile` | one row of `ReadScenario` with `entryFromRecord`, the order of offsets and the trial rendering; the end of the file |
| `Connect`, `StartPass`, `FinishPass`, `Canceled` | `main` after the load, `--once`, the two ways it treats an error |
| `WaitUntil`, `TimerFires` | `waitUntilContext` |
| `RenderEntry` | `Entry.RenderPayload` with the time of publishing |
| `PublishContext`, `Send`, `TokenDone` | `PublishContext`: the look at the context, `client.Publish`, the wait for token or context |
| `Interrupt` | SIGINT or SIGTERM; it kills the program until `signal.NotifyContext` is in place |
| `Deliver`, `LoseConnection`, `Restart` | broker, TCP connection (the client does not reconnect), operator |

With QoS 0 a token is done at once, with QoS 1 and 2 when nothing is left in
transit. Where a `select` finds both channels ready, either branch is a step.
`Restart` may bring another file and keeps the schema file and the flags; the
broker keeps what it retains, by topic, over all runs.

### Catalogue and validator

A schema is what it requires of the fields of an object, the values each field
may have, and the alternatives of its `oneOf` (`Schemas`); `AllOf` joins schemas. A
channel has its literal segments, its enumeration of point types and its
messages. `docs/schema-viewer/bms/js/app.js` is the catalogue rendered for the
browser; apart from the call that renders it, it holds only the data
`BMSCatalog` models. `bms.yaml`, which calls itself an older version, is modelled as
its differences. Strings are members of a small set; their length and patterns,
descriptions and examples are left out. `ValidateMessage` accepts when some channel
that matches the topic has some message that fits, in whatever order the Go maps
give channels and messages.

## 3. Runs

| Run | Result | Shows |
|---|---|---|
| `hot_reload` | pass, 219,714 states | `TypeOK`, `Converged`, `ServesAccepted`, `ImplementsStore`, `ClosedStaysQuiet` |
| `hot_reload_live` | pass, 225,696 states | `EventuallyServed` under fairness |
| `auth_callout` | pass, 92,744 states | `TypeOK`, `ErrorsMatchAnswers`, `NoDowngrade`, `ImplementsDecision`, `EveryRequestEnds` |
| `dummy_bms` | pass, 257,234 states | `TypeOK`, `ReplayInOrder`, `NotBefore`, `AllRowsOrNone`, `ValueUnderItsMetadata`, `RetainedIsMetadata`, `AtMostOneAfterCancel`, `InterruptIsClean`, `SteadyRowsRender`; `CancelledStops` and `OnceEnds` under fairness |
| `bms_catalogue` | pass, 502,056 states | `Unambiguous`, `NamesItsPoint`, `ValueHasMetadata`, `MetadataHasValue` |
| `generate_nkeys` | pass, 625,774 states | `TypeOK`, `CompletedLeavesAgree`, `CopiesAgree`, `CompleteUnlessStruck`, `Additive` |
| `slow_reload` | violation | `Converged` without the bound on the duration of a load |
| `stop_timer` | violation | Stop does not stop all timers, as its comment says |
| `startup_gap` | violation | a version published while the manager starts is never served |
| `noauth_user_password` | violation | with every method configured, a request with a user name and a password is admitted as anonymous |
| `nkey_attempts` | violation | NKey failures without attempts |
| `keys_incomplete` | violation | completion is reported although nsc failed and keys are empty |

Bounds, and why they are enough:
- `Timers`: three in `hot_reload`. One running, one waiting that has fired
  already, one armed is every situation the debouncer's single entry can be in;
  with two, a timer's clean-up already meets a newer timer's entry. The
  liveness run has two, without symmetry. The theorems hold for any number.
- `MaxVersions`: three, each of any kind: the first, one being loaded, and one
  that overtakes it. The theorems hold for any number.
- Two permissions files in `auth_callout`: one with an entry for each
  case of the lookups, two entries under one key, and a profile whose claims do
  not validate; one that takes rights away and turns anonymous access off. One
  request is in hand at a time, as in the code, and two files are enough to
  change every table while it is decided.
- Requests: all combinations of six tokens or none, five chains or none, an
  NKey or none, and three fates of the signature; and separately user name and
  password with tokens and keys, and requests that do not decode. All four
  deployments (with and without a JWKS URL and a CA path).

- `dummy_bms`: ten files of at most two rows: two that are fine (one with a value
  an integration owns), one with a time in the middle of a name and of a number,
  whose second row is accepted and cannot be rendered later, one with a value
  alone, an empty one, and one for each way a
  row is refused, where it can be the last row. Two runs, so that a second file
  meets what the first left at the broker; two passes, so that a pass follows
  another; time up to 1, the largest offset, so that a row can be early, due or
  late. Packets and connections need no bound of their own. The theorems hold for
  any files, schemas and bounds.
- `bms_catalogue`: all 23 object types, every point type of each in either
  edition and one it has not, with a payload of every combination of identity,
  measure and extra fields the schemas distinguish, plus payloads that speak of
  another point. One row is loaded: lookup and validation have no memory. What a
  file may be matters little here: the theorems hold for files of any length
  and for any strings, lists and tables of states, over the same two editions.
- `generate_nkeys`: two CPCs and one extra account, alone, together, in one run
  or one after the other, and given twice; two runs, one interruption at any point,
  one failure of nsc at any pair. Two runs are what it takes to find a tree half
  written; one interruption and one failure in one history show that each costs what
  it met and nothing else.
  `keys_incomplete` has no interruption: the failure alone does it.

`LoadsBeatDebounce` is the one timing assumption: a load returns within the
debounce period (300 ms) after the event that armed the next timer. It holds of
a small local file and is not enforced by the code; `slow_reload` drops it.
`Converged` speaks of the version the constructor loaded and of those that
appear after polling was registered, `EventuallyServed` of the latter;
`startup_gap` shows what happens to one in between.

Fairness: weak fairness of each goroutine's next step (fsnotify loop, polling
loop, each timer and the load it runs, the constructor, Stop once called), as
the Go scheduler and the polling ticker give it. Weak is enough, since no step
of one of them is disabled by another again and again while the file is at rest.
Nothing makes the file change or the service close. For the handler, weak
fairness of its next step: it waits for no other goroutine. What the key set
library does on a cache miss is part of "verifies", assumed to return.
For dummy-bms, weak fairness of its one goroutine and of time; nothing is
assumed of broker, connection or operator. `CancelledStops` needs no more: the
program waits for a token, a timer and the context at once. `OnceEnds` is stated
under the condition that the broker goes on delivering, because a token of QoS 1
may otherwise never come. The script's properties are safety properties.

Deadlock is not checked in the manager's runs: the versions are bounded, and a
closed or failed manager stops. Nor in the runs of dummy-bms and the script,
which are programs that end, started a bounded number of times. It is checked in
`auth_callout`.

## 4. Proofs

All theorems are proved for every value of the constants, from the named
assumptions of the modules (`WatcherAssumption`, `ManagerAssumption`,
`CalloutAssumption`, `LookupAssumption`, `NkeysAssumption`,
`DummyBMSAssumption`, `TopicAssumption`, `KindsAreDisjoint`, `CatalogueAssumption`),
which TLC evaluates in the runs. The last three say that
the publisher of a topic is a string, that the kinds of JSON values are disjoint,
and that the editions are the two of the repository, whose names and units are
strings, none of which is what a template gives at the time 0 (they have no
digit 0 in them). Nothing is assumed of what a template gives later.

`PermissionsManagerProofs`:
- `TypeCorrect`, by one step per action.
- `IInv = TypeOK /\ Linked /\ Phases /\ Bounded /\ Sound` is inductive
  (`InvInit`, `InvStep`). `ServesAccepted` alone is not: it needs that what a
  running load has read was accepted (`Sound`), that versions read are
  versions of the file (`Bounded`), that a timer runs exactly while its load does
  (`Linked`), and what is registered in which phase of the constructor (`Phases`).
- `AlwaysServesAccepted`, `CloseIsFinal` and `ManagerImplementsStore` follow
  from `IInv`, without any assumption on time.
- `HotReloadConverges` assumes `LoadsBeatDebounce`. The invariant behind it is
  `Obligation`: as long as the manager is open and the file on disk is one it
  must serve, *somebody holds the duty* (`Covered`): polling has yet to see
  it, or holds the callback, or a timer is armed that every load of an older
  version precedes, or a load has read it and stores it last, or it is
  served and no older load remains. Every action keeps the duty or hands it on
  (the `...Covers` lemmas). `slow_reload` shows the assumption is needed: without
  it a load can store last what it read first.

`AuthCalloutProofs`:
- `IInv = TypeOK /\ Walk /\ Counted` is inductive. `Walk` says that the
  authenticators before the current position declined the request, which is
  what `NobodyIsDowngraded` needs; `Counted` says which counters each phase can
  have, and gives `CountersAgree`.
- `ChainImplementsDecision`: the handler refines `AuthDecision`. `Try` and
  `NoneMatched` map to `Decide`, `Receive` to `Ask`, `Abort` and `Respond` to `Finish`,
  the other steps to none; `Open` says that a request that is not decided has no
  answer. The rest is about data: the three lookups of `GetOAuth2Profile` find the
  narrowest key (`FoundIsNarrowest`), every authenticator finds what the rule
  entitles its credential to (`EntitledIsFound`), and the chain is in the order of
  strength (`StopsAtTheStrongest`). It needs that tables are `WellFormed`;
  `LoadBuildsWellFormed` shows that those `load` builds are.
- `LoadIsDetermined`: the order in which Go walks the maps of a file matters only
  where two entries have one key. A file without such entries builds one outcome
  (`LoadBuildsTables` says there always is one), in which every entry is found.
- `TryResult` is the lemma about the authenticators: a profile of the table or a
  failure, and a failure counter only with a failure.

`DummyBMSProofs`, for all files, schema files and bounds:
- `LInv = TypeOK /\ Channels /\ Loaded` is inductive by itself: what is loaded was
  accepted, and nothing is sent before everything is loaded. It gives
  `WholeFileAccepted`.
- `IInv` adds `Facts` (what holds of the i-th packet of a run), `Position`,
  `DueNow`, `Checked`, `OneLeft`, `Kept` and `InterruptIsClean`. `ReplayInOrder` alone is not
  inductive: that the next packet is the i-th row of the file needs `Position`,
  which says that as long as the connection is up the number of packets is the
  number of rows passed; after a loss, when it no longer is, nothing is sent.
  `NotBefore` needs `DueNow`, because the timer is compared two steps before the
  packet goes out; `ValueUnderItsMetadata` needs `Kept` and the arithmetic of the
  place of a row in a pass (`Earlier`).
- `RetainedIsMetadata` needs `Checked`: the row that is sent was accepted as it is
  rendered now, by `RenderEntry` two steps before, and not only when it was loaded.

`GenerateNkeysProofs`, for any arguments, any number of CPCs, accounts, runs,
interruptions and failures, from any tree `OldTrees` describes:
- `Shape = TypeOK /\ Places /\ Entered /\ Fresh` is inductive by itself. `Fresh` says
  that what is about to be written is in no file yet, which gives
  `NothingOverwritten` and the lemma `TreeStep`: what is once true of a file in use
  stays true, over all later runs.
- `IInv` adds `Halfway` and `Done` (a leaf between its two writes, and the leaves
  main has behind it), which `CompletedLeavesAgree` needs; `ThisBatch` and
  `OneBatch` (the files of a cluster come from one run, whatever was interrupted),
  which `CopiesAgree` needs; and `NoBlank`, `Filled` and `Passed`, which
  `CompleteUnlessStruck` needs: an empty key is a file of what a failure struck
  (`StruckFile`), a cluster that lacks a file is being written or was struck, and
  main passes no cluster that is not there.

`SchemasProofs`, for any schemas and payloads: what a schema says of a payload comes
apart into what it demands (`Fulfils`) and the fields it knows (`Knows`).
`AllOfIsConjunction` gives both for a composition, also where several parts
know a field. The same
for `oneOf` and `anyOf` are lemmas there.

`CatalogueProofs`, for files of any length and any values, over both editions:
- A message is a place and a part. Every message of the catalogue composes the
  names of its object and point with a *place*, which says what the point belongs
  to (`RackLocationIdentifiers`, `EquipmentIdentifiers`, ...), and the *part* of its
  point, which has the measure and the owner (`Message`, `IsPlace`, `IsPart`). One
  lemma says what a payload that such a message takes is like (`MessageIsClear`):
  it has one measure at most, a name or an association, and names its point.
  `MessageDescribed` says the reverse: a description that suits place and part is
  taken. Places and parts are then looked at one by one, once.
- `ViewerTable` and `FileTable` bring the channels of an edition into a few
  forms: the metadata channel of each object type, its value channel, and those of
  integrations. The differences of the file (numbered phases, the points of racks
  and heartbeats) are followed through (`FileMessageFacts`).
- `LoadedRow` connects this to the program: from `LInv`, every loaded row is
  accepted by its edition with the time 0, and so a message of a channel that
  matches its topic fits it.
- `OneReading` needs that two matching channels are one (one metadata channel per
  object type) and that two messages of a channel that take one payload are one:
  by `MessageIsClear` the payload names the point of each. It says of every payload
  what TLC evaluates for those of the instance.
- These theorems are about a payload as it was accepted, at load or at publishing.
- `SteadyRowsNeverFail`: no row fails in the middle of a replay unless the time
  changes the kind of one of its values. A value may *replace* another if it is of
  the same kinds, and the same if the catalogue fixes it; a schema is *steadfast* if
  every set of values it allows is closed under that, and it knows no tag path
  (which a topic would fix). Kinds and sets of fixed names are closed
  (`ClosedKinds`), and all messages of both editions are steadfast, part by part
  (`PlainSteadfast` to `ChannelsSteadfast`). A value that depends on the time is not one
  the catalogue fixes, by `CatalogueAssumption`, so what comes of it later replaces
  what came of it at load. The theorem is about the two editions: another schema
  file may fix the time 0, or a string with it, and would refuse the row later.
- `MetadataAnnouncesItsValue` goes through the types of the file: whoever may own a
  point has a value channel for it, except for the state of equipment, which the
  property names.
- `ValueIsDescribed` builds the description: every part suits some measure and some
  extra fields (`DescribedPart`), every place some names (`DescribedPlace`), and a part
  that may have an owner takes the publisher as one.

Only model-checked: the liveness properties (`EventuallyServed`,
`EveryRequestEnds`, `CancelledStops`, `OnceEnds`), which need fairness.

## 5. Findings

The six violation runs are disagreements between the code and what its
comments, documentation or tests say; PROJECT.json quotes both sides.

Other things met while modelling, which no document of the repository
contradicts plainly enough for a run of their own:
- The file gives the points of equipment whose state an integration owns
  (`Status`, `Available`) no value channel of that integration, although their
  metadata may name one; `MetadataHasValue` states the exception.
- The viewer's catalogue has metadata of `RackLiquidDifferentialPressureSp`
  and no value channel that lists it; the property is therefore about the file.
- The viewer is at version 2.1.0 and the file dummy-bms reads at 1.0.0.
- The parameter `{integration}` of an address also matches `PUB`.
- The message of a generic point or a heartbeat leaves the object type open.
- An interruption between the directory of a cluster and its files leaves a
  cluster that later runs report as existing; `CompleteUnlessStruck` says that
  nothing else is lost.
- A row can be accepted at load and refused in the middle of a replay:
  `"timestamp": 1.{{timestamp_ms}}` is 1.0 at load, an integer for the schema, and
  no integer later. `local/mqtt-client/README.md` (lines 171-172) says that each
  rendered message is validated "before it publishes anything", which holds of
  the rendering at load; `SteadyRowsRender` states where the difference does not
  matter, and the instance has a row where it does.
- `generate-nkeys.sh` takes no lock; `local/nats/prepare-secrets.sh` runs it under one
  (line 52), a caller by hand does not.
- `make_temp_dir` runs in command substitutions, so the list `cleanup` works from
  stays empty and the temporary directories stay.

## 6. What is left

Every safety property of the passing runs is proved. What could be added:
1. The refresh of the OAuth2 key set, once it is more than a call of its library:
   a request that meets an old set.
2. The shutdown in `service.go` with a model of the NATS client's `Drain`, which is
   not in this repository.
3. The drain loop and the counters of the MQTT benchmark, if its figures come to be
   relied on.

## 7. Not modelled

- Service lifecycle: connection with retry, the endpoint's subscription, the
  asynchronous `Drain` and the order of shutdown are decided by the NATS client
  library, of which `src/` shows only the calls. Its hazards are in PROJECT.json.
- Configuration manager: sequential, once at start; the precedence is the viper
  library's.
- Event bus chart and auth-callout chart: templates without state; what the rendered
  accounts let through is decided by the NATS server.
- MQTT benchmark: a measuring tool beside the system; its races are listed as
  hazards.
- The catalogues of nico, power management and spiffe exchange: nothing in the
  repository looks anything up in them or validates against them.
- Observability, AsyncAPI generator, local test environment: exporter set-up,
  text and I/O.
- Of modelled components: the background refresh of the OAuth2 key set, the
  verification of signatures and chains, entries that are null in the permissions
  file, `Subscribe` and the credentials of the MQTT client, the options and the
  permission audit of the key script.
