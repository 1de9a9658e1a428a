# A verification of easy-forti

easy-forti is an Electron desktop application that signs documents with the smart cards of
its user.  A signing hub on the network asks it, over a SignalR connection, for the signing
certificates of a person and for signatures; the user approves each signature in a window, with
the PIN of the card.  This directory holds TLA+ models of its main process, model-checked with
TLC on small instances, and proofs about them checked by TLAPS for every value of the constants.

Paths below are relative to the repository.

## 1. The system

JavaScript runs one callback, with the promise continuations that it releases, to completion
before the next: interleavings happen only where the code awaits I/O, a promise of the hub or of
a window, or a timer.  Everything below runs in the main process except the windows.

| part | state it keeps | operations | talks to |
|---|---|---|---|
| hub connection, `src/main/server/connection/server.ts` | the SignalR connection, `session` (connection id, time, cards, disconnected), `stopped`, retry timers | `connect`, `start`, `onclose`, `setSessions`/`syncSessions`, `requestSigningCert`, `requestSignature`, the `reply*` methods, `close` | the hub; emits `connect`, `disconnect`, `request-*` to EasyHub |
| EasyHub, `src/main/server/server.ts` | the parts it wires, a copy of the configuration | handlers of the events of the others, `run`, `close` | all |
| card provider, `src/main/server/provider.ts` | `crypto` (providers by library and slot), `cardSessions` | `open`, `onTokenInsert`, `onTokenRemove`, `sign`, `getSigningCertificates`, `stop` | card watcher, PKCS#11 libraries; emits `update-token` |
| PC/SC watcher and card watcher, `src/main/server/pcsc` | readers, `cards` that are in them, the table of known cards | reader status, `insert`, `remove`, `getCardObject` | pcsclite; emits `insert`, `remove` |
| signature window, `src/renderer/containers/p11_pin` | the PIN being typed | approve, cancel, Enter, closed by the system | EasyHub's `onSign`, `onCancel` |
| windows and dialogs, `src/main/windows`, `src/renderer/containers/{message,key_pin}` | open windows, the references kept of some of them, `dialogs.json` (dialogs silenced for good) | the `show…Window` methods, buttons and keys, closing | their callers in `Server.run`, `Server.init` and the tray |
| configuration, `src/main/{application,config,ipc_messages}.ts` | `config.json`, the copy read at start-up | changes of settings, language, logging | the preferences window |
| preferences and localisation, `src/renderer/containers/preferences`, `src/main/l10n.ts` | the settings shown, the tab, the texts of each window | switches, selections, the host's field, tabs, language | the main process, by messages in both directions |
| start-up and SSL certificates, `src/main/server.ts`, `src/main/services/ssl` | three certificate files | status, generate, remove, start, download of `card.json` | files |
| crypto services, `src/main/server/services`, `src/main/server/crypto` | the memory storage (objects by name), the software store's files, logins | requests of clients for digests, keys, certificates, logins | the providers; nothing constructs them, and their subscription is commented out (`service.ts:38`) |
| ratchet storages | code of the program this one derives from | none: nothing constructs them | |

What is hard in it:

* **The reconnection.**  `start()` is called by `connect`, by `onclose` and by its own timers,
  and shares one body between a first connection and a recovery.
* **Cards against the connection.**  The provider's array of sessions is handed to the
  connection by reference, kept after an await, and sent again after each recovery.
* **Overlapping card handlers.**  Insertions and removals run handlers that pause for 200 ms to
  1 s per library; any number of them run at a time and work on the same two collections.
* **A signature across four parties.**  Window, token, hub and message box can each fail or be
  late, and the card in the slot may not be the one whose session was chosen.
* **One file, many copies.**  The configuration is read at several places and written back whole
  by each of them, by two processes at once when the program is launched a second time.
* **Windows and the promises behind them.**  Each window's caller waits for it to close; some
  windows are remembered in one reference per kind, which any window of that kind deletes; a
  window that was told to close still takes keys.
* **A page and its process.**  Settings are shown from messages that may cross; a page that is
  loading hears none.
* **Names for objects that come and go.**  Clients of the crypto services hold names of keys and
  certificates while tokens are taken out and put back and keys are stored in a shared file.
* **A start that was cut short.**  Three certificate files and `card.json` are left to the next
  start, which judges them by little more than their being there.
* **Errors that are exceptions.**  Nobody listens to the provider's `error` event, so emitting it
  throws, and ends whatever was under way.

`PROJECT.json` lists each hazard at its line with the property that would show it.

## 2. The modules

| module | models | composes or implements |
|---|---|---|
| `HubConnection` | the connection, its session, the tray and the hand-over of the provider's cards | implements `ReconnectLoop` |
| `ReconnectLoop` | what the reconnection promises: one loop, that ends only after `close()` | |
| `SignatureFlow` | requests for certificates and signatures, from the hub to the window, the token and back | implements `SigningPromise` |
| `SigningPromise` | what a user who signs is promised: one dialog for each attempt, "signed" only for a signature of its own that the hub accepted | |
| `CardPipeline` | readers, watchers and the provider's two handlers, in explicit time | |
| `ConfigStore` | `config.json`, the starts of the program up to its lock, the handlers of the settings | |
| `Windows` | the windows controller, the message and key PIN windows, `dialogs.json` | |
| `Preferences` | the preferences window, the messages between it and the main process, the texts of all windows | |
| `CryptoServices` | the services for keys and certificates, the memory storage, the software store | |
| `Startup` | `Server.init`: the certificate files, their renewal, `card.json` | |
| `HubConnectionProofs`, `SignatureFlowProofs`, `CardPipelineProofs`, `ConfigStoreProofs`, `WindowsProofs`, `PreferencesProofs`, `CryptoServicesProofs`, `StartupProofs` | theorems about the module that each is named after | |
| `MC*` | the instances for TLC | |

### HubConnection

An action is one callback up to its next await.  `Start` is the body of `start()` up to its
first await; `Connect` and `Retry` (a timer that fires) call it, and `OnClose` dials by itself.
`DialSucceeds` and `DialFails` settle `connection.start()`.  `SetSessions(arr, ids, by)` is
`setSessions`: on a live connection it queues an invocation of `SyncSessions` and leaves
`session.cards` alone until the invocation settles (`SyncSettles`), otherwise it assigns at once.
Arrays are modelled as a heap (`arrays`) with references (`cards`, `provider`, the array of each
call), because `onTokenInsert` pushes onto the array that `session.cards` may refer to while
`onTokenRemove` makes a new one.  `UpdateToken` and `CardRemoved` are the two places
that emit `update-token`; `UpdateTokenFails` and `CardRemovedQuietly` the same handlers when a
session's slot cannot be described (`getSlotInfo` throws), so that nothing is emitted.

The SignalR client (5.0.7, external) is modelled from how it is used: invocations are processed
and answered in the order of the calls; a connection that ends rejects the pending ones and runs
the `onclose` handler in the same callback, so `EndOfConnection` includes what the rejected
invocations still do: `syncSessions` swallows the rejection, `setSessions` goes on and assigns,
and a `start()` that waited reports 'connect' after 'disconnect'.

What the code does that a reader might not expect, and the model keeps: after `close()` a dial or
a retry that was under way goes on, and may connect once more (`ReconnectLoop` states what is left
of the promise); a `SyncSessions` that fails on a live connection is never sent again; the branch
of `start()` that arms a timer and falls through (`connection/server.ts:268`) is in `Start`, and the lemma
`StartDials` proves that it is never taken.

### SignatureFlow

`RequestSigningCert` and `RequestSignature` arrive from the hub.  Certificates go back at once, or the
error that came while they were collected; certificates that are rejected are followed by an error too.  A window is opened per
signature request; `Approve`, `PressEnter`, `Cancel` and `WindowGone` are what its user or the
system does.  `OnSign` is EasyHub's `onSign`: `Sign` chooses the session by identity, `SignInSlot`
logs in, signs and logs out with the card that is in the slot then, and the reply is an
invocation that the hub may process before the connection fails.  `CallSettles`
tells the outcome in a message box.  `ImplementsPromise` maps the queue of invocations to the counters of
`SigningPromise`: a signature in the queue is `accepted` when its outcome says so and `sent` otherwise.  The
promise is weaker about failures: a connection that is lost fails every signature under way, those
included that the hub has accepted, so a user may sign the same request twice.  `MoveCard`, `NoticeCard`, `NoticeRemoval` change the
cards and, later, the provider's sessions.

Left out: the spinner, wording, the certificate shown in the window (that of the last session,
whatever identity is asked for), and the characters of the PIN: a PIN is the
card it belongs to, or empty.

### CardPipeline

A task is one running handler and `at` the step before which it waits.  `CardEnters` and
`CardLeaves` are changes in a reader with what the watchers do at once; `ReportCard` is the
watcher's timer, with `getCardObject` (OpenSC included) and the start of `onTokenInsert`;
`LoadLibrary`, `UseLibrary` and `Announce` are the steps of `onTokenInsert` between its pauses,
`SearchLibrary` (with `DropAll`) those of `onTokenRemove`.  Time is explicit, in units of 200 ms
(`Short` = 1, `Long` = 5), and urgent: `Tick` is disabled while a pause is over.  `MinStay`
is the least time that a card stays in a reader.

`renamed` is about a detail with consequences: announcing a session overwrites `info.id` of its
provider with the session's id (`EmitUpdate`; `provider.ts:376`, `457`), while the map keeps the
provider under its old id, which `onTokenRemove` no longer finds (`Keyed`).  The provider of a card that
was announced therefore stays in the map after the card has gone, without sessions; it keeps its library
initialized and its slot from getting a provider again, so that a card put back into that slot
is not offered before the program is started again.  `NoLostCards` excepts such slots.

Left out: readers that come and go, mute cards, cards of the user's own configuration,
the pv_pkcs11 provider, `stop()`.  The model begins at the call of `provider.open()`; in the
application as wired that call is made by the card reader service, whose `start()` is commented
out of `server/server.ts:137-141`.

### ConfigStore

`Launch`, `Import` (the logger reads the configuration when it is imported), `Construct`,
`BeforeStart` and `Lock` are the start of a process, `Ready` the part of `onReady` that follows.
A read and the write after it are one callback of one process; the steps are split at the
accesses to the file only because a second launch does all of `beforeStart()` before it finds
the lock taken.  `setConfig` is `OpenFile`, which truncates the file, and `WriteFile`.  `own` is
the copy that the application keeps from its construction and that `SaveLocale` (the
listener of 'locale-change') writes back.  A launch that finds the lock taken is not over:
`application.ts:70-84` does not return after `app.quit()`, so it goes on to `onReady`, where `setLang`
makes it save its own copy (`RefusedReady`), and may speak to the hub, until it ends at some later time (`End`).
`SetSetting` is any of the ipc handlers that read the
file, set or toggle one setting and write it.  `GotConfig` is what `getConfig` returns, missing
keys filled in from the defaults.  A configuration is abstracted to its user id, locale,
settings, whether it lists providers and whether it has all keys.

Left out: what a setting does besides being saved (theme, telemetry, start-up entry), and
the copies that EasyHub and `Server` hold and only read.

### Windows

`wins` is the list of all windows ever opened, `ref` the controller's references by kind.  The
`Show…` operators are the methods of `WindowsController` and the actions their callers: the events
of `Server.run` (`ServerError`, `TokenNew`, `NotifyTwoKey`), `Server.init` (`InitFails`,
`SslWarning`), the tray (`TrayClick`), the developer's menu (`DevelopmentMenu`, which opens a window of
each kind, and a key PIN that is accepted from the start: `development_template.ts:110-121`; `given` is
what a window was opened with).  A call that neither opens nor changes a
window (a silenced warning, a second one) is no step.  `Press` is a button or its
key, and may happen again while the window is closing; `Closed` is the 'closed' event with
`onClosed`, which deletes the reference, saves a silenced dialog and settles the promise
(`Answer`).  `End` ends the program, also while `dialogs.json` is being written (`Torn`).

### Preferences

`toMain` and `toWindow` are the messages under way; `ipcRenderer.sendSync` is a read.  `Mount` is a
page that has loaded, `ClickTab`, `Toggle`, `Choose`, `TypeHost` and `ChooseLanguage` what the user
does, `MainHandles` a handler of `ipc_messages.ts` in the main process, `WindowHandles` a listener
in a window.  Of a setting two values are enough; the host is the number of its characters,
because a key pressed before the last reply came back replaces that one's character.  `wish`,
`clicked` and `touched` only record.  Closing the window drops the messages to and from it.

### CryptoServices

A request goes through at most four steps: the handler up to its call of a provider (`Call`, in
`Digest` … `Reset`), the provider's answer or error (`Succeeds`, `Fails`), and, when a PKCS#11 provider cannot
import, the fall-back to software (`ImportInSoftware`, `GetCertInSoftware`), which may store
the key in a file that every provider shares (`WriteKey`, `Reload`).  A login may wait for
a prompt (`AnswerPrompt`).  `cryptos` numbers the provider objects of each token, so that an object that
a handler got before an await is told apart from the one in the map after it; `Own` and `Soft`
are the names that `ServiceCryptoItem` digests: keys in software have no id of their own and are told
apart only by the counter of their provider's object (`osslID`).
`told` records what each name stood for.  The counter is digested as the text of its bytes
(`crypto_item.ts:21`), in which every low byte from 128 on is the one replacement character: `Soft` gives all these
numbers one "garbled" name for each value of the next byte.  The properties only need that a byte has a lower
and an upper half, so `Byte`, 256 in the program, is a constant.  Providers belong to the slots of a PKCS#11
`Library`: putting a token in gives one to every free slot of its library (`InsertToken`), and taking it out drops
those of all tokens of the library but the renamed (`RemoveToken`).  Whether a reader has a pad for the PIN
may differ from one login to the next.

The subscription of these services is commented out, so the model is of what they would do with
the requests it would deliver; it is here because it is a seventh of the program and the
part with the most state between two messages.  What the model shows and no property excludes: the items of a
removed token are never deleted (`OnRemoveToken`: they are looked for by another id); keys whose
storing overlaps may be lost (`raced`); a provider object that replaces another starts its counter again,
and its keys take over the names of the other's.  `getCRL` and `getOCSP` throw whatever they are asked,
since they name something undefined (`cert_storage.ts:445`, `498`).

### Startup

`Begin`, `FirstPrepare`, `CheckCertificates`, `Enroll`, `WriteKey`, `Load` are `Server.init` cut
at its awaits, with `SslService.run` and `prepareCardJson`; `Quit` is the end of a start that
failed.  A file is missing, empty, cut short or whole, and whole files carry the number of their
set or version.  `Crash` ends the program at any await or in the middle of a file (`DamageOf`).
`Ages` is the calendar, `Publish` a new `card.json` on the network (external).

Left out: the installation of the authority (its call is commented out), cryptography, the
download itself, the updater.

## 3. What TLC checks

| run | instance | shows |
|---|---|---|
| `hub` | 2 identities, 3 faults, 3 card operations; 361,918 states | the loop is single and never stranded; session, hub and tray agree with the provider whenever nothing is in flight; a recovery keeps the session's time; `Converges`, and the refinement of `ReconnectLoop` with its fairness, by which the loop ends only after `close()` |
| `signature_safety` | 2 requests, 2 cards, 1 slot; 3.9 million states | no signature without the card's PIN, no success told that the hub did not get |
| `signature_liveness` | 2 requests, 1 card, 2 attempts that may overlap in one window or two, 2 faults; 779,664 states | the refinement of `SigningPromise`: one dialog per attempt, and the outcome of one is never told of another; every attempt is told, every request without a window is answered or the connection or the hub rejects the answer |
| `cards_one_reader` | 2 cards that change places, 3 libraries; 277,192 states | sessions are those of the card in the reader once handlers are done, and no card that stays for 1.4 s is lost; removals land |
| `cards_two_readers` | 2 readers, a shared library, a missing one, OpenSC, cards moved at any speed; 4.0 million states | sessions, providers, libraries other than OpenSC's and the last announcement agree at every step |
| `cards_removal` | 2 readers; **violated** | taking a card out drops the sessions of the card in the other reader: a finding |
| `config` | 2 processes, 4 launches, 3 changes, a file that is absent, old or complete, one process or two; 10.2 million states, up to the names of processes and settings | one user id, also over crashes and a second launch that saves its stale copy before it quits; the language shown is the one saved; a setting is never anything but what the user chose or its value at start-up |
| `config_language` | 1 process; **violated** | a change of the language reverts a setting: a finding |
| `windows` | 3 windows, 2 warnings that may be silenced, 1 end of the program; 575,851 states | references denote windows that are up; `dialogs.json` is what the user silenced; a second key is accepted by the user's last word only, or by the developer's menu; who waits for an answered window is told |
| `preferences` | 1 switch, 1 selection, the theme, the host, 2 languages, 2 windows, 3 inputs, 3 openings; 1.0 million states | the window shows what is saved, and that is what the clicks come to; one language in all windows; the tab asked for last |
| `services` | 2 tokens of one library, 3 requests of which 2 overlap, 2 insertions, bytes of 4 values; 5.2 million states, up to the names of requests and of tokens | names that are not garbled denote what they were given for; stored keys stay; who is logged in has a session |
| `startup` | 2 platforms, 4 sets of certificates, 3 crashes; 14,408 states | a program that runs has one whole set of certificates, not about to expire unless on Windows; starts succeed again after crashes |

Bounds.  Three faults let a dial fail, the connection that follows be lost and a sync or an
announcement fail in between; three card operations let an insertion, a removal and an insertion fall into one pending
sync; two identities tell an old list from a new one.  In `SignatureFlow` two faults let the
connection and a device fail in one attempt, and two attempts are enough for a retry or for one in each
window; cards may be in their slots from the start, and `MaxCardOps` bounds those put in later.
`signature_liveness` is about outcomes, for which it does not matter which card signs: it has one,
which is in the slot from the start or never.
In `CardPipeline` four operations let a card be put in, taken out and put back while the
handlers of both other operations still run, and one fault makes a device fail half-way; with one reader
nine operations let the handlers of four cards overlap (seven are what it takes to lose one, where that is
possible).
In `ConfigStore` three changes let a setting change, the language change and the setting change
again; the fourth launch finds what crashes and a second process left.  In `Windows` three windows are two of a
kind and one of another, or a window, the one that closes it and a third that reuses its reference.  In
`Preferences` three inputs are two changes whose messages cross and a third that meets them.  In
`CryptoServices` three requests are two keys stored at once and a third that uses, or takes over, one of
their names, and two insertions are a token put back, or two tokens; requests that are under way
together differ only by their names, so the instance is symmetric in them, and in the tokens of
the one library.  With four values to a byte the second number that a counter gives is garbled, and the third has the same name.  In `Startup` three crashes
let each of the three certificate files be damaged in starts that follow each other, and four
sets are enough to generate a set after each.

`CHECK_DEADLOCK FALSE` is set everywhere: once the bounds are spent and the client is closed, all
cards rest, or a process is off, there is nothing left to do.

Where the properties of `ConfigStore` and `Startup` end.  `OneUser` is about files that parse: a
crash between `OpenFile` and `WriteFile` leaves a file on which every later start ends, and
nothing repairs it.  When a launch finds no user in the file while another is under way, both make a user id, and
the one told to the hub may not be the one kept: `OneUser` excepts such a race, which `raced` records.
`LocaleSaved` and `StaleAtWorst` are about one process.  `OneSet` excepts an enrollment that
was cut short, at any time since: the status of the certificates looks only at the dates of the
authority, so a certificate or key of an earlier set, or a damaged one, is then used.
`StartsAgain` excepts an authority's file that is cut short, which makes each start fail.

Where the properties of `CryptoServices` end.  `NamesHold` says of a garbled name only that it stands for
something, since a later key may take it over; and nothing once an answer of a provider's object that was
replaced has come under the name, or the token's provider is another or closed.  `KeysAreKept` excepts
keys that were stored at the same time: each of two requests reads the file before the other has written it.
`LoginsAreReal` excepts tokens whose provider an announcement has renamed and that stays in the map when
they are gone.

Where those of `CardPipeline` end, besides time (below).  `NoLostCards` excepts slots held by a renamed provider.
`OtherLibrariesReady` excepts OpenSC's library, which `getCardObject` does finalize under its providers.
`RemovalsLand` is checked where all libraries are installed: a missing one ends a removal's search, and
the cards of those after it are not dropped.

The findings.  `RemovalIsSelective` (`cards_removal`): `onTokenRemove` drops the sessions of
cards that are still there.  `SettingsKept` (`config_language`): `application.ts:145` saves a
configuration read at start-up, where its comment says that it saves the locale.

Where the other properties end.  `ShownIsSaved` excepts what a change of the language takes back
(the finding of `config_language`, seen from the window).  `SilencedAsAsked` counts what was asked for since
`dialogs.json` was last lost: an end of the program while it is written leaves a file that does not parse, and all
dialogs speak again.  `AnswerIsTheUsers` says that a key PIN closed without a button is answered as it was opened: not
accepted, but for the developer's menu.  It leaves out token windows, whose promise resolves
with a copy of the parameters that no window writes (`windows_controller.ts:192`): they are always
answered with no.

Where the timed properties end.  With `MinStay` of 5 (1.0 s) or less `NoStaleSessions` fails
even with one reader: the removal is handled before the report of the insertion.  From 6 (1.2 s) it
holds, whatever the lists.  `NoLostCards` holds from 7 (1.4 s) with up to two libraries to an ATR.  With
6 the seventh operation can lose a card: cards A, B and C follow each other, the last library of A's
insertion, which is still on its way, gives C its provider in the 200 ms before the removal of B drops
all sessions, and so before that provider was announced and renamed; it stays in the map without
a session and holds C's slot.  With three libraries, or when OpenSC's has been appended often enough,
a removal takes long enough to drop the sessions of the card put in meanwhile, however long cards stay.
With two readers `NoLostCards` fails for the reason of the finding.

Fairness.  Each liveness property assumes weak fairness of the program's own steps
only: timers fire, pauses end, the dial and invocations settle one way or the other, handlers go on.
Nothing is assumed of cards, of the user or of faults, except that faults are finitely many (bounded).
`Startup` also assumes that the user starts the program again after it ended and closes the
windows that it shows: `StartsAgain` is about a user who tries.  `Windows` assumes that a window
that was told to close closes, and `Preferences` that Electron delivers messages and loads pages;
nobody has to press a button.  `ConfigStore` and `CryptoServices` state safety only and assume nothing.

## 4. What is proved

Each `…Proofs` module proves its theorems for every value of the constants that satisfies the
named assumptions of the model: bounds are natural numbers, the constants that stand for "none"
are none of the values they are told apart from.  The runs show the same properties on
instances; `PROJECT.json` lists which theorem states which.  In each module the invariants of
interest are made inductive by what is named below, `InvHolds` (or `Inductive`, `AlwaysInv`) combines
them, and each theorem follows from that.

**`HubConnectionProofs`**: the type invariant, the safety invariants and the action property that
`hub` checks, `ClosedForGood` (a client that was closed, with no dial and no retry pending, never
connects again), and the safety part of the refinement (`ImplementsLoopSafely`).  The invariant
has layers, each preserved with the help of those before it:

1. `TypeInv`: types, and that each removal takes a fresh array.
2. `LoopInv`: the single loop.  It is inductive only together with `NeverStranded` and with
   the facts that a closing connection is stopped and that nothing happens before `connect`.
   `StartDials` follows: `start()` always finds a closed link with nothing under way.
3. `TrayInv` and `RecoveryInv`: what tray, id and time will be when the pending `start()` gets on.
   `TraySettled` is not inductive by itself: it says nothing while the session's sync is pending.
4. `CardsInv`: the array the session *will* hold (`LastArray`, that of the youngest pending call) has the
   provider's cards.  Stated about `cards` itself it would not be inductive.
5. `HubInv`: what the hub will know once it has processed the pending calls.

**`SignatureFlowProofs`**: types, the two other invariants of `signature_safety` and the refinement of
`SigningPromise` (`PromiseKept`).  `CallsInv`
relates the queue of invocations to the outcomes of its oldest: one that was processed without an
error is among those received.  This is what makes `SuccessIsReal`
survive the settling of a call.  `ToldInv` is the balance of attempts and
dialogs (`EveryAttemptIsTold`, itself a theorem), kept for each request by itself; signatures on their way are counted as the cardinality of a set of positions in the queue, which
`Append`, `Tail` and the loss of the connection each change in their own way.  `RestInv` completes
the two to `TypeOK`: it keeps the calls of the hub, the slots, the sessions and the bounds in their sets.  An
attempt logs in at most to the token of its slot, and the session that `Sign` chooses, the first with the
identity, exists (by a least element).
`PromiseKept` has one lemma for each kind of step (`PromiseAttempt`, `PromiseProcess`, `PromiseSettles`,
`PromiseLost`) and `PromiseStays` for the others.  The signatures that the hub accepted are a second set of
positions, within those on their way (`AcceptedPending`), which is why the abstract `sent` and `accepted` are
natural numbers and their guards hold.

**`CardPipelineProofs`**: `SessionsBacked` and `OtherLibrariesReady`, for any number of handlers at any
points of their way, any readers, libraries and pauses.  They are inductive together with the types of
providers and sessions (`PipelineInv`); `DropKeeps` is the one step that takes providers away.
`NothingUnannounced` needs `AnnounceInv`: what was announced last is out of date only while an
insertion is under way, which will announce something, while a session cannot be read, because its card
is gone or its library was finalized under it, or while a removal has initialized OpenSC's library again
and found what it will drop.  That removal announces something unless a library that is not installed ends
its search first; `OpenSCLast` assumes that the configuration lists none after OpenSC's.  Without the option
opensc this assumption is void.

`NoStaleSessions` is proved for any number of readers, cards, libraries and handlers, with OpenSC and
without, from `Removable`: there is one reader or no two cards share an ATR, the libraries of an ATR are installed, one that
recognises a card is listed for it or is OpenSC's, and a card stays longer than the pause before its report.
Without any of the four TLC finds a card that is out and still offered: the watcher takes
two cards of a model for one; a missing library ends the search before the one that has the card; a session
of a library that no list names is never looked for; the removal is handled before the report of the card.
The argument has three steps:

1. `ListedInv`: the watcher lists a card in a reader, or will before the card can leave.
2. `FoundLaterInv`: the library of a session is in the list of its card's ATR, or it is OpenSC's and the
   report of the card is about to append it.
3. `HuntInv`: a session whose card is out is about to be dropped by a search that has found a removed
   provider, or by one that has its library still ahead.  Lists only grow at the end while a search
   goes along them, and a session is made only of a card that is in its reader.

`NoLostCards` is proved for one reader, any cards (also of one model), any libraries, any pauses and
any number of handlers, from `Removable` and `Unhurried`: at most two libraries to an ATR, no OpenSC, and
`Long + 2 * Short <= MinStay`.  Each of these is needed (section 3), and the instance of
`cards_one_reader` satisfies them, with the least `MinStay`.  It is a theorem about time, which the handlers
carry with them:

1. `OrderInv`.  `Age(t)` is how long a handler has been under way, read off its place in the loop.  An insertion is
   at least as young as the removal it meets, or is about the card that was removed and older by `MinStay`, or is
   about one before that and older by twice as much; likewise for the card in the reader.  The insertion
   of the card in the reader is the youngest, and no removal is under way when it comes to a library
   (`NoRemovalsYet`).  Every step leaves the ages as they are, `Tick` adds one to each (`Follows`).
2. `UnnamedInv`.  A provider that was not renamed yet is found by some removal, or has its session and its card in
   the reader, and will be announced before any removal is over.  `UseInTime` is where the hypotheses
   meet: when a library gets a provider, each removal has that library still ahead, or more than 200 ms left.
3. `OfferInv`.  A card that is served is offered, or has an insertion ahead that will offer it.  When the
   insertion finds the slot held, no removal is under way, so the provider that holds it was renamed or its
   session is of the card in the reader (`HuntInv`, `UnnamedInv`): in both cases it is what
   `NoLostCards` asks for.

**`ConfigStoreProofs`**: types and the three properties of `config`.  `OneUser` rests on `Known(u)`:
the file, every copy and every write under way hold the id u and no other.  No step of any number of processes, stale
copies and crashes included, ends that.  `UserInv` tells how it begins when there was no race: nobody
has read the file yet (`Unread`), or one process has made the id and is about to save it while all
others have read nothing (`First`), or some id is known; the one told to the hub is.  `Solo` is about a process
without a second launch: it carries the language and the settings through the time in which a write is
under way, of which `LocaleSaved` and `StaleAtWorst` say nothing.

**`WindowsProofs`**: types and the three invariants of `windows`.  `RefsOpen` is inductive with the
types.  `SilencedAsAsked` needs `AsksItself`: only a dialog that may be silenced has the box for
it ticked.  `AnswerIsTheUsers` needs `AnswerInv`: a window that is still up, also one that is
closing and takes more keys, holds the answer with which its promise will be settled: the user's last word,
or what it was opened with.

**`PreferencesProofs`**: types and the four invariants of `preferences`.  `ShownIsSaved` needs `ShownInv`, what
the window *will* show once it has heard the messages on their way, and `QueueInv`: a window that
is not up has no messages, and only the preferences window hears of anything but the language.
`SavedAsWished` needs `WishInv`: the requests on their way to the main process lead from the saved
configuration to the one the user wishes, up to a change of the language, which saves an old copy.
`TabFollows` needs `TabInv`, the tab that the last pending request asks for; `OneLanguage` is
inductive with the types.

**`CryptoServicesProofs`**: types and the three invariants of `services`.  `NamesHold` needs two
bounds on what a request may still do: it takes at most two numbers of the counter and makes at most two
objects (`CountInv`), and each object it has got has its number (`ObjectInv`); so the counters
stay in their sets.  `NamesInv` says that the names the client was told are those of the memory
storage, and that the number in a name of the software store is not above the counter of its provider, so the next
number is new; its name is new too unless it is garbled (`SoftName`), and a garbled one keeps some item.  `KeysAreKept` needs `KeysInv`: what a request that is storing has
read of the store holds the kept keys but those stored since by a request that overlaps it, and requests that
are storing together all know that they are.  `LoginsAreReal` is inductive with the types.

**`StartupProofs`**: types, `OneSet` and `StartsFresh`, from `FilesInv`, which says for each point between two awaits
of a start what its checks have established of the three files.

Only model-checked:

* the liveness properties (`Converges`, `AttemptsSettle`, `CertsAnswered`, `RemovalsLand`,
  `StartsAgain`, `AnswersArrive`, `Settles`) and the fairness part of `ImplementsLoop`: liveness under
  fairness and `ENABLED` are out of the prover's reach.

## 5. Plan

In this order: `EasyHubLife` (subscriptions, the card reader service, `close`); the updater, with
`Startup`; `CardConfig` as operators against a reference definition; the ratchet file storage.
Abstract specifications worth adding: a set of cards that are offered for signing, which
`CardPipeline` implements with a delay, and an atomic store of settings, of which `ConfigStore`
keeps only what `StaleAtWorst` says.

Not planned: the wrappers of OpenSSL and PKCS#11, signatures and encodings, the layout of windows,
logging, menus, the build scripts.  `PROJECT.json` gives the reason for each component.
