# A TLA+ model of im-providers-service

`im-providers-service` connects external chat platforms (Facebook Messenger,
WhatsApp) with an internal messaging system. It receives webhooks of Meta,
makes the senders known to the *gateway* as contacts, forwards their messages
to the *messenger*, and sends the answers back through the Graph API. The
modules here describe the parts of it that keep state or whose steps interleave,
and check and prove what makes those parts correct.

## The system

| part | state | operations | talks to |
|---|---|---|---|
| webhook handler, provider registry (`core/webhook/handler.go`, `provider/registry.go`) | none | `ServeHTTP`: pick the provider of the path, check the signature, answer 200, 400, 401, 404 or 500 | providers |
| Facebook gates (`facebook/service`, `facebook/store`, `facebook/handler`) | tables `gates`, `bots`, `facebook` | create, get, update, delete | database, gate cache |
| gate cache (`core/store/gate_lru.go`) | one LRU of 1000 entries per process | set, get, delete | none |
| Facebook webhook (`facebook/provider.go`, `webhook.go`, `user.go`, `media.go`) | Redis keys `known user` (24 h) and `locale` | resolve the page, synchronise the contact, forward texts and attachments | database, Redis, Graph API, gateway, storage, messenger |
| WhatsApp webhook (`whatsapp/webhook`, `resolver`, `media`) | none | resolve the account, copy a file, create contact and via, forward | database, Graph API, storage, gateway, messenger |
| WhatsApp gates (`whatsapp/gate`) | tables `gates`, `gate_waba`, `bots` | save | database, contact service, Graph API |
| outbound messages (`core/handler/outbound_message.go`, `facebook/outbound.go`, `whatsapp/messaging`) | caches of gate types and of contact ids per process | send text, image, document, interactive and system messages | database, gateway, Graph API |
| templates (`core/service/template.go`, `core/store/template_postgres.go`) | table `gate_message_templates`, cache of contact names | set, delete, list, render | database, contact service |
| meta apps and OAuth (`facebook/service/meta_app.go`, `meta_oauth.go`) | table `meta_apps` | create, get, update, delete; start, callback | database, Graph API |
| Messenger profile (`facebook/service/facebook.go`, `facebook/handler/menu.go`) | at Meta | set and delete the persistent menu and the start button | database, Graph API |
| gate list (`core/store/gate_postgres.go`) | view `gate_summary` | list by pages, look up a type | database |
| media (`core/service/media.go`) | a pool of buffers | stream a file to the storage in chunks | storage service |
| database access (`infra/db`) | pools, health of replicas | query, choose a replica round robin | Postgres |
| RabbitMQ (`core/pubsub`) | a connection and its waiters | connect, reconnect, shut down | broker (used by nothing yet) |

What is hard in it: several instances run, each with caches that nothing
synchronises; a webhook makes many calls to other services, each of which may
fail after having taken effect; the webhooks of one user, and administration
RPCs, run at the same time; and Meta posts a payload again when it gets no 200,
whatever was done already. `PROJECT.json` lists every such hazard at its line,
with the properties that watch it.

What makes the parts correct:

- **Facebook gates.** A page belongs to one gate. A delivery reaches the bot
  that its page had while the delivery was handled, never the one of a cache.
  A delivery is dropped only for a disabled gate. A deleted gate stays deleted.
- **Facebook inbound.** No message of a stranger; the order of the payload; an
  event whose calls fail costs no other event; nothing forwarded by a second call
  although Meta posts again.
- **WhatsApp inbound.** No message of a sender without contact and link; nothing
  accepted before the messenger has it; no gaps.
- **Outbound.** A message leaves with the token of its own gate to its own user;
  a gate whose token was refused works again after it was re-authorised; a
  cached type is the type of the gate.
- **System messages.** The text is made from a template of its own gate and
  event, and shows contacts by names they have had; silence has a reason (whether
  the lack of a template is one, the repository answers in two ways: see the
  findings).
- **Meta apps.** Deletions are final and answered once; the settings of an app
  are those of one request, except for the scopes of one that names none; a
  callback's token is for the app of its dialog.
- **Media.** A file is kept whole or not at all, however uploads share buffers.
- **Pure translations.** Keyboards are cut to the limits of the Graph API in
  their order; a template or an element leaves out a button it can carry only
  when it is full, quick replies only those behind the first 13 buttons; menus
  are flattened in order.
- **Gate list.** Asking for pages to the end shows every gate that was there from
  the start, unless a gate is deleted meanwhile or two share their time.

## The modules

```
WebhookDelivery          what a provider promises about a payload (abstract)
  ^ implemented by
FacebookInbound          the Facebook pipeline        FacebookInbound_proofs
WhatsAppInbound          the WhatsApp pipeline        WhatsAppInbound_proofs

MessageSending           what is promised about a message (abstract)
  ^ implemented by
OutboundRouting          sending, caches, tokens      OutboundRouting_proofs

FileStore                what is promised about a file (abstract)
  ^ implemented by
MediaTransfer            uploads and buffers          Lists_proofs

FacebookGates            gates, caches, RPCs          FacebookGates_proofs
SystemMessages           templates and names          SystemMessages_proofs
MetaApps                 apps and OAuth               MetaApps_proofs
GateList                 the pages of the gate list   Lists_proofs
InteractiveMessage       keyboards and menus          Lists_proofs
WhatsAppGateSave         creating a WhatsApp gate     WhatsAppGateSave_proofs
MCServices               one of SystemMessages, MetaApps, MediaTransfer,
                         InteractiveMessage, GateList at a time
MC*                      instances for TLC
```

Every call to the database, to Redis, to a cache or to another service is an
action, and so the interleavings are those of the program: between two calls of
one request any other request may run. A call that can fail has a failing action,
and a call to another service that fails may have taken effect all the same.

### FacebookGates

`gates` stands for the tables `gates` and `bots`, `facebook` for the table of
that name, `cache[n]` for the LRU of process `n`. A webhook is
`Receive, Lookup, SelectGate | SelectFails, Store, Route` (`HandleWebhook` and
`resolveGate`); an update is `BeginUpdate` (the `Select` and `ApplyTo`),
`CommitUpdate` or `CommitFails` (the transaction) and `Invalidate` (the call of
`cache.Delete` after it); a deletion likewise; a creation is one statement,
`Insert`. `Restart` loses the cache and the requests of one process. A meta app
is identified with its URI: both are unique and no RPC changes a URI.
`past` and `seen` are history: all versions ever committed, and those that were
current while a delivery ran.

The cache key of the webhook is `uri:pageID`, that of the invalidation is
`pageID`; both kinds are in `CacheKey`, so the model invalidates what the code
invalidates: nothing. What follows is stated by a violation run; what holds
all the same, because a cached *enabled* gate is always read again, by the
passing ones.

### FacebookInbound

A delivery `d` walks through `payload[d]` with the cursor `event[d]`, `part[d]`
and the stage `pc[d]`; one action per call. A message synchronises its sender
twice (`processMessage` and, in it, `syncContact` again for a message; once for
a postback): `round`. `known` is the Redis key made of the user's id and names,
`contacts` and `vias` are the gateway's, shared by all deliveries. An event is of
one of three `Kinds` and has a user, a page, perhaps a text, and any number of
attachments, of which "share" stands for the types that are uploaded and then
skipped. Texts, ids, URLs and file contents are not modelled.

Resolving the page is one step, as FacebookGates opens it: `Resolve` finds an
enabled gate, `ResolveDisabled` one that is disabled, or that an instance still
holds for disabled (`stale`, which only grows because nothing is invalidated),
and answers 200 with nothing forwarded, `ResolveFails` none.

The gRPC client of the messenger is told to retry (`infra/client/grpc/client.go:70`),
and a request has no key that would tell a repetition. So a call (`Send`,
`SendFails`) reaches the messenger up to `MaxTries` times (`Delivered`), and the
properties say what the code adds to that: nothing. The tries of a call are taken
to be over when the call has returned: a try the client has given up has
reached the messenger by then or never will.

`Interrupt` is a crash or a client that hangs up: the payload is not answered.
`Redeliver` is Meta posting again, at most `MaxAttempts` times.

### WhatsAppInbound

The same shape with the other policy: any error ends the delivery with 500.
`account` is the state of the three tables for a phone number. A contacts
message makes several requests, each with its own contact and via: `card`. A
document without a file name fails in validation every time. One call may reach
the messenger several times, as above.

### WebhookDelivery

The abstract specification. A delivery is idle, working, accepted or refused,
and forwards places of its content, each up to `MaxTries` times in one step, which
is one call. `AtMostOneCall`: nothing is forwarded that the messenger already
got, unless the delivery was cut. `AtLeastOnce`: nothing is accepted before the
messenger got all of it. `FacebookInbound` implements the first, `WhatsAppInbound`
the second, each with the mapping of its INSTANCE: `pc` to the phase, the payload
to its places, `sent` without the attempt.


### OutboundRouting

A message `r` goes through the stages of `pc[r]`: `type` (`resolveSender`),
`fetch` (the gate and its token), `locate` (the address of the contact), `send`
(the Graph API), and ends in an answer, which is named for the text the caller
gets. The two senders share these stages in this order; where they differ an
action looks at `sender[r]`: Facebook keeps PSIDs in a cache and asks in the
domain 0, WhatsApp refuses an expired token by itself, reads a replica, has no
interactive messages and panics on an empty list of files. `typeCache[n]` and
`psidCache[n]` are the LRU caches of process `n`; `Added` is what the library does
when one is full. `gate` is the row of a gate with its configuration (the tables
`gates`, `bots` and `facebook` or `gate_waba`, which only change together),
`origin` the type it was created with. The administration RPCs are one step each
here; their own interleavings are those of FacebookGates. `token` is what Meta
thinks of a token, `granted` what the last OAuth callback returned for a gate.
`seen` and `renewed` are history. Texts, files and keyboards are `Kinds`, which
keep what the senders treat differently. The automatic retries of the gRPC
library are inside one call.

Runs have one message at a time: more at once multiply the states, and what
they share, the caches, is covered for any number of messages by the proofs.

### MessageSending

The abstract specification that OutboundRouting implements (`CachesAreNotSeen`):
no caches, and a message that is sent in one step, through a row that its gate had
between question and answer. Each answer says when it may be given: "not found"
if the gate was missing at some time, or for a WhatsApp gate, which a replica may
not have yet; "token invalid" only if the token of a row it saw is. The mapping
forgets the caches, the stages and what a request has read, and keeps the rows,
the tokens, the messages that left, and the answers.

### SystemMessages

`SendSystemMessage` call by call: `ResolveSender`, `GetTemplate`, one
`NameHit`, `SearchContact` or `SearchFails` per role whose contact is named,
`Execute`, and the last two calls of OutboundRouting, `Fetch` and `Post`. Between
them administrators set and delete templates, gates go with their templates,
and contacts get other names. Go visits a map of variables in any order, and so
do the roles. `names` is the cache that nothing invalidates, `typed` the cache of
gate types. A template is abstracted to the roles it shows (`Shows`), to
whether it has words of its own (`Bare`) and to whether it executes (`Broken`).
`during`, `failed` and `called` are history.

### MetaApps

`UpdateMetaApp` and `DeleteMetaApp` are two statements each (`SelectApp`, then
`UpdateApp` or `DeleteApp`), and any other call may run between them; a call that took
effect may be answered with an error. `GatesChange` stands for the
rows of gates that refer to an app and keep it from being deleted. An OAuth flow
is `StartOAuth`, the dialog, and `Callback` with `SelectConfig`, `ExchangeCode`,
`UpgradeToken` and `FetchUserPages`. Meta is external: it takes a code once, for
the app and the redirect URI of the dialog and with the app's own secret. An
update names all settings but the scopes, as the handler does; a caller may name
none, and then the update writes those back that it has read (`Applied`), also
when another update has changed them in between. `SettingsNamedTogether` states
what is left: all settings are of one request, except the scopes where that
request named none. `named` is history: the settings asked for.

### MediaTransfer

An upload takes a buffer from the pool, opens the stream, reads and sends block
by block and closes. `ReadBlock` and `SendChunk` are two steps, and what is sent
is what the buffer holds then: a buffer of two uploads would show. `Read` may
return the end of the file, or an error, with the last bytes or alone. The pool
hands out any buffer it has; an empty pool stands for no more uploads, where the
code would allocate.

### FileStore

The abstract specification that MediaTransfer implements (`UploadIsOneStep`): an
upload is one step, which keeps its whole file or nothing. The mapping forgets
streams, blocks and the pool, and an upload is pending while it runs; the step is
the call that closes the stream, or the one that fails. "failed" leaves open whether the file is kept, as the code does
when the acknowledgement of a complete stream is lost.

### InteractiveMessage

The loops of `client.go` and the recursion of `menuItemsToActions`, one action
per pass: `cursor` is the row and column of the button in hand, or the path of
the item in a menu, `out` and `elements` are what was made so far. A behaviour is
one request. The properties are the reference: they say which places have to be
in the message, without a loop. `PassesGoForward` says that the loops and the
recursion never look at a place twice, and so end.

### WhatsAppGateSave

The three goroutines of the `errgroup`, of which the first error is the answer,
and the insert after them. It is the only model whose one property is violated:
no request of it ever gets to the insert, which is proved.

### GateList

A caller asks for page after page; each page is a query with an offset of its
own. `created_at` is the start of a transaction, so a gate may come into the
list behind older ones or share its time with another; rows of one time come in
any order, and in another one in the next query (`Orders`). `RemoveGate` is the
deletion of a gate by `Unbind`; the generic `gateStore.Delete` has no caller.


## The runs

| run | instance | what it shows |
|---|---|---|
| `fb_gates` | 2 processes, 1 delivery, 2 RPCs, 2 pages, 2 gates, cache of 1 | in every interleaving a delivery goes to a gate that was its page's and enabled while it ran (with which bot: see the proofs); only pages that were once disabled lose messages; a page never belongs to two gates; no update brings a gate back |
| `fb_gates_stale` | 1 of each | **violated**: a delivery is dropped as disabled that arrives after the gate was enabled |
| `fb_inbound` | "again": 1 delivery of 1 to 3 events of 2 users (texts, up to 2 attachments, one of them skipped, an event to leave out, a postback), posted at most twice, every call tried at most twice; "together": 2 deliveries of 1 user with 2 names, posted once | contact before message and order, whichever calls fail and whenever the cache entry expires; a part is forwarded by one call, no event lost for the failure of another, the refinement of `AtMostOneCall`, and every delivery is answered |
| `fb_inbound_link` | 1 delivery, 1 user, 2 successive gates | **violated**: a known user is forwarded through a new gate without a link to it |
| `fb_inbound_batch` | 1 delivery with the entries of 2 pages | **violated**: the events of the second page go through the gate that was made for the first |
| `wa_inbound` | 2 deliveries of 2 users to 2 accounts, posted at most twice; a delivery that is alone has every call tried at most twice | contact and link before message, whichever delivery made them; no gaps, the refinement of `AtLeastOnce`, and every delivery is answered |
| `wa_inbound_disabled` | 1 delivery | **violated**: a message for an account without an enabled gate should be no error, and is one |
| `outbound` | 1 message at a time of 5 kinds, 2 gates, 3 contacts of which one has no address, a token per gate, caches of 1 entry | the caches stay true, a message leaves through its own gate, and nothing of the caches is seen (the refinement of MessageSending), although gates are deleted, tokens revoked and entries evicted |
| `outbound_reauthorize` | 1 gate, 2 tokens | **violated**: a re-authorised gate should use its new token, and never gets it |
| `services` | one service at a time: 1 gate, 2 events, 2 templates, 2 contacts with changing names, a cache of 1 name; 1 app with gates, 2 secrets, redirect URIs and lists of scopes, 2 calls; 2 apps, 1 call and 1 OAuth flow; 2 uploads of files of 1 and 2 chunks; keyboards of up to 3 rows of 2 buttons, menus of up to 2 items 3 deep; 3 gates, pages of 1 and 2 | what each service promises (see its module), the refinement of FileStore and that the loops of keyboards and menus go forward, although templates, apps, contacts and gates change between the calls of a service |
| `wa_gate_save` | 2 requests, 2 bots, 1 phone number | **violated**: a bot is refused as missing only if it is missing |
| `default_text` | 1 gate, 1 event, 1 template, 1 request | **violated**: a message without a template of its own should get the built-in default, and is not sent |

Why the bounds are enough: the interesting states need two actors at one piece
of shared state, and the runs have two of each where they meet (two RPCs and a
delivery at one page; two deliveries at one user; two calls at one app; two
uploads at one pool). One cache entry is enough for an eviction, two gates for
a stale one, two postings for a repetition, two events of two users for one that fails
before or after the other, two gates and two contacts to tell the right one
from a wrong one, a file of two chunks for a failure in the middle. In
`InteractiveMessage` the limits are 3, 2, 2 and 1 instead of 13, 3, 10 and 3, so
that keyboards of six buttons go past every one of them. `MaxAttempts` bounds
Meta's retries and `MaxTries` those of the gRPC client; both are 2, and nothing
else counts without end. `MCFacebookDeliveries` and `MCWhatsAppInbound` keep the
tries of a call and two deliveries at a time apart, as a try touches only the
delivery's own `sent`; the proofs have both at once, for any bounds. In `MCServices`
two administration calls overlap on one app with gates, with two lists of scopes;
or one changes an app while an OAuth flow runs between two apps: the
two share the table only, which the proofs cover for any number.
The run `outbound` leaves the kind "file" out: the
senders treat it as "text", so that it only doubles the states; the proofs have it.
Its constraint gives each gate a token of its own,
refuses only the first and has OAuth callbacks before the first message, as no
message reads what they return. Symmetry is used only in runs without liveness.
Deadlock is not checked where all payloads can be answered for good.

`FairSpec` of FacebookInbound assumes weak fairness of each delivery's own next
call: the HTTP client has a timeout of 15 s and a request of Meta ends, which
cancels the context of every other call. `FairSpec` of WhatsAppInbound assumes
the same for the second reason only: its HTTP client has no timeout of its own,
and every call carries the context of the request. In both,
`EveryDeliveryAnswered` says that a delivery ends, whatever fails. No fairness is assumed of Meta, of the
administrators or of any particular outcome of a call.

## The findings

Every violation run quotes in `PROJECT.json` the sentence of the repository that
the code contradicts. In short: the invalidation of the gate cache uses another
key than the cache, so a disabled state lives on after the gate is enabled; the cache of known users does not
know gates; a batch of two pages is processed with the first one's gate; the error
for a disabled WhatsApp account is declared, handled, and never returned.
The steps that a refused token calls for do not replace it. A WhatsApp gate is
refused for every bot that exists, because the bot is not there.
The built-in default of system messages, of which three places speak, does not
exist.

One more comment is not what the code does, and no run is about it: `DeleteGate`
says that it "only removes the Facebook-specific configuration"
(`facebook/service/facebook.go:126`, and the log line at 132), but `Unbind` deletes
the row of `gates` (`facebook/store/postgres/facebook.go:174`), which takes the rows
of `facebook` and `bots`, and the templates, with it. `CommitDelete` is the code.

## The proofs

TLAPS proves for every value of the constants what TLC checks on small ones.
The only assumptions are the `ASSUME`s of the modules, which say that bounds are
positive, that sizes and times are numbers, that `None` and its like are not
values, that a contact's id is no name, and that payloads are non-empty sequences
of events.

**FacebookGates_proofs.** `TypeCorrect`, `PageUnique`, `RoutedLive`,
`IgnoredJustified` and the action property `NoResurrection`. `RoutedOnLiveRow`
is not inductive: the gate a delivery carries was read several steps before it
is used. The inductive invariant adds that what a delivery holds is in `seen`,
that what a cache holds is in `past` under the same key, that the versions seen
are versions of the page of the delivery, that the rows of a gate are written and
deleted together (`NoOrphanRows`), and that the row an RPC is about to
write names the page its gate has if the gate still exists. One step of the proof
per action; `RecordType` and `SetEffect` say once what a commit and an insertion
into the LRU do.

**FacebookInbound_proofs.** `TypeCorrect`, `ForwardedSendersAreContacts`,
`ForwardedInOrder`, `ForwardedByOneCallOnly`, `FailuresBlockNoOther` and
`PipelineImplementsAtMostOneCall`, for any number of tries of a call. The
argument:
- `Base` is the types and that a delivery which handles an event stands at an
  event of a payload that Meta can post.
- `Contacts` strengthens `ContactBeforeMessage`: whoever is in `known` is a
  contact and so is the sender of every event that is past the gateway. This is
  what makes it sound to skip the gateway because of an entry that another
  delivery wrote. `ContactsOfStep` is the one place where the argument is made.
- `Progress` strengthens the other two: everything in `sent` lies behind the
  place where the delivery stands (attempt, event, part, lexicographically), and
  a delivery that was not cut short sent all of it in this attempt and stands
  nowhere from which an error could still be the answer. `ProgressOfQuietStep`
  and `ProgressOfSend` say when a step keeps it.
- `Accounted` strengthens `FailureBlocksNoOther`: every part before the place
  where the delivery stands was forwarded or belongs to an event one of whose
  calls failed; `Skipped` is about the payload whose gate is disabled.
- The tries of a call stand in a row in `sent` (`TriesOfOneCall`), and `AddCopies`
  says what appending them does to it.
- The refinement follows from the three: a step that forwards a part forwards
  one that is not in `sent`, unless the delivery was cut, and the answer is a
  refusal only where nothing was sent.
- The loops: `CallsEnd` proves `CallsRunOut`, an action property that no run
  lists. `LeftToDo` is the number of events to come and of steps in hand, in the
  order of a dictionary, as an event may have any number of parts: every step of
  the delivery, also the failing one, leaves it fewer, and no step of anyone else
  makes them more. It needs `WithinBounds`: the cursor never leaves the payload
  or the event. This is all of `EveryDeliveryAnswered` that is not fairness.

**OutboundRouting_proofs.** `TypeCorrect`, `CachesTrue`, `RoutedToItsGate`,
`AnswersTrue` (about the answers of the handler; no run lists it, because the
refinement says more) and `SentInOneStep`. `LeavesThroughItsGate` speaks of a message that has left; the
invariant says what leads to it at each stage (`HoldsOf`): the gate as it is now
was seen by the request, the provider and the token it has read are those of one
row it has seen, and the address is that of its contact. The last needs
`CachesAreTrue`, which is inductive together with `RowsKeepType`: a row keeps the
type its gate was created with, and a UUID is never given out again. Steps of one
request leave what others hold (`OwnLeavesOthers`), and a commit only adds to
what they have seen (`CommitHolds`).

`SentInOneStep` is the refinement of MessageSending: whatever the caches hold, a
message leaves in one step, through a row of its gate, and every refusal is one
that a service without caches could give. It needs a second layer, `Providers`: a
request asks the sender its gate was made for, and WhatsApp gates stay,
so that "unimplemented" and the miss on a replica are about a WhatsApp row. The
proof has one lemma per stage: a stage before the last is a stutter or a refusal,
and `Accept` the step in which the message leaves.

**WhatsAppInbound_proofs.** `InboundTypeCorrect`, `SendersAreLinked`,
`MessagesAreGapless` and `PipelineImplementsAtLeastOnce`. The invariant follows
the cursor of a delivery: `LinkedOf` says how far the sender of the request at
the cursor is known to the gateway, `SentSoFar` that everything before the
cursor was sent in this posting, `GaplessOf` the same of every request that was
ever sent. The refinement rests on `SentSoFar` at the last message: only then is
the payload accepted. `CallsEnd` proves `CallsRunOut`, here with one number (`CallsLeft`):
three calls for each request that is left, and ten at most for each message.

**SystemMessages_proofs.** Five theorems, one per property of the module.
`RequestOK` says what a request has gathered at each stage: a text among those its
template had while it ran, and a true name for every role that is no longer
pending. `PersonsAreCalled` connects the names of contacts with their past,
`CachedNamesWereTrue`, a part of `NamesOfOwnContacts`, is needed for the names
that come from the cache.

**MetaApps_proofs.** Four theorems. `Existing` says that an app which exists was
created and that gates only refer to apps that exist, `CallOK` that an update's
settings, and the scopes it has read, were named by a request for its app; `FlowOK` follows the token and the
spent code of a flow. That no update brings an app back needs no version: the statement
finds no row, and a UUID is not given out again.

**Lists_proofs.** What is made piece by piece.
- *Files* (`MediaTypeCorrect`, `BuffersAreAccounted`, `FilesAreWhole`,
  `AnsweredFilesAreStored`, `UploadsAreOneStep`). `StreamOf` says what the
  storage has of a stream at each stage, counted in blocks, and that a buffer
  holds the block that was read last until it is sent. `OthersStream` is where
  the pool matters: no step of another upload touches that buffer. The
  refinement of FileStore follows: all calls but the one that closes the stream,
  or fails, are stutters.
- *The list of gates* (`PagesShowEveryGate`). The standing of a gate is its place
  in the newest-first order; a gate that was there from the start and is not shown
  yet stands behind the pages seen (`Ahead`). An insertion only moves others back,
  and a page shows all places up to the next page (`StandingIsPlace`: if the
  times differ, the standing is the place in any order the database may choose).
- *Messages and menus* (`KeyboardsFit`, `OnlyLimitsLeaveOut`,
  `MenusAreFlattened`, `LoopsEnd`), for keyboards and limits of any size and menus
  of any depth. The properties speak of the message that is sent; `MessageInv`
  says the same of the places behind the cursor (`Behind`), in the order of a
  dictionary: each was carried, or is of a kind that is not, or came when the limit
  was reached. A pass moves the cursor behind one more place (`NextButton`,
  `NextItem`); when a loop ends no place is left (`AllSeen`) or the limit is
  reached. For a menu the items that are open are the prefixes of the cursor
  (`OnTheWay`), which is what the stack of the recursion is.

**WhatsAppGateSave_proofs.** `NoGateIsCreated`: no request ever gets to the
insert or is answered with success. The invariant is that the group holds an
error as soon as the validation of the contact has returned, as a contact that is
found counts as missing.

Model-checked only: liveness (`EveryDeliveryAnswered`), which is out of the
prover's reach, as fairness and ENABLED are, although `CallsEnd` proves what it rests on; and
the violations, which are single counterexamples.

## What is not modelled, and the plan

Most of the repository's lines are generated: `gen/go` holds the protobuf and
gRPC stubs of six services, of which the handwritten code is a small part. The
generated code has no behaviour of its own to model, and so the share of all lines
that the models stand for stays small, while they stand for most of the
handwritten logic. Left out of that for good:

- Pure I/O (servers, wiring, TLS, configuration), the authorization call, the
  libraries of cryptography and gRPC. What their automatic retries can do to the
  messenger is in the inbound models (`MaxTries`).
- `core/pubsub` and the AMQP factories: no module of the program constructs
  them. The reconnection loop waits for both the connection and the channel to
  be closed (`pubsub.go:146`), which will matter to whoever uses it first.
- `infra/db/postgresx`: only the WhatsApp part reads through it. A replica that
  is behind is in OutboundRouting; the choice of a replica is a counter; the
  fallback to the primary comes after the error was returned (`dbx.go:142`) and
  never runs.
- `MediaManager.UploadMedia`, `DeleteMedia`, and the message manager's
  locations, contacts, replies and read marks: nothing calls them.
- The verification handshake of a webhook, `GenerateFileLink` and the reads of
  the administration RPCs: they change nothing.
- The Messenger profile lives at Meta; only the flattening of its menu is ours.
- Texts, file contents, names and the JSON of requests.

What a further step could add, most important first:

1. The composition of FacebookGates with FacebookInbound, so that the gate of a
   payload changes while its events are forwarded.
2. The identity headers of inbound WhatsApp calls, once the messenger's contract
   about them is written down.
3. Several messages at a time in the run of OutboundRouting, for which the
   proofs stand now.
