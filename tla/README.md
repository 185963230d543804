# Liquid Connect SDK: TLA+ specifications

This directory holds the formal model of the Liquid Connect wallet SDK
(`lc-wallet-core`, `lc-wallet-ffi`): TLA+ modules translated from the Rust
source, TLC configurations that check them on small instances, and TLAPS proofs
of the properties that matter most for every value of the constants.
`PROJECT.json` maps each definition to the source lines it stands for and lists
the runs, the hazards they are aimed at, the findings and the theorems.

## 1. The system

A wallet application (the *host*) links the SDK. Relying parties (RPs) send
requests to a *connect server*; the SDK keeps one WebSocket to that server,
shows the person what is asked and sends back what the person decides.

| Component | State | Operations | Hard part | What makes it correct |
|---|---|---|---|---|
| Core (`core.rs`) | seven request maps, holdings, pending actions, action id counter, connection flags, mobile ids, push token | `handle(Input) -> Vec<Effect>` | reconnects between any two inputs, diff against the login snapshot, replay, answers by id to requests that changed | screen = state; no answer lost, invented or changed; what is accepted is what is shown |
| Transport (`transport.rs`) | socket, backoff delay, input channel, `was_logged_in` | connect loop, select loop, handle methods | races between frames and inputs, partial sends, shutdown | bounded backoff, an actor that stops when its handle is dropped, status events that are true |
| Wire protocol (`wire.rs`) | none | message types and their JSON | defaults for absent fields | round trips |
| Approval (`approval.rs`) | sums per asset while a template is read | `summarize_pset`, `annotate_payjoin`, `verify_fund_template[_owned]` | confidential rows, issuances, overflow, inputs the host owns | an accepted template asks for exactly the stated amount |
| Lending (`lending.rs`) | none | `parse_typed_fund`, `verify_typed_fund`, digests, scripts, rendering | many kinds, each binding claim, rows and scripts | what is rendered is what the rows do |
| Venue (`venue.rs`) | venue key | typed requests, digests, key-spend signing, service login, SDK login | strings of the relying party's choice inside digests, which inputs are signed by which key, a decision and a signature made at different times | a signature has one meaning, which was on screen; a PSET is signed whole or not at all |
| Payjoin (`payjoin.rs`) | none | accepted assets, start, sign, fee estimate | float arithmetic against a server's minimum | the estimate is the minimum the server accepts |
| Links (`link.rs`) | none | parse app and venue-login links | aliases, network parameter | a link opens what it names |
| Identity (`identity.rs`) | none | challenge, sign, post per call, from any thread | requests that are lost, late or delivered twice; timeouts; ids that collide | what returned Ok was done once; an id shown is bound to this key |
| Short id (`short_id.rs`) | none | encode, normalise, match | look-alike characters | normalise is idempotent and matches what it encodes |
| Keys (`key.rs`) | wallet key | derive, sign | cryptography | external |
| FFI (`lc-wallet-ffi`) | handle, runtime | forwards methods and events | conversions | one to one |

Interaction: the host calls methods of the handle (directly or through the FFI),
which put an `Input` into an unbounded channel. The actor `run` owns the core; in
its select loop it gives the core inputs and server frames one at a time, sends
the `Effect::Send` frames and forwards every other effect as a `WalletEvent`.
There is no shared memory; all concurrency is between the person, the channel,
the two directions of the socket and the server. Beside the session the host makes
blocking HTTP calls to the identity API, a venue and the payjoin server, from any
thread, and calls the pure functions of `approval.rs`, `lending.rs` and `venue.rs`
to decide what to show and whether to sign.

Behaviours that are hard to test: a tap that waits in the channel while its
request goes away or a reconnect happens; a socket that dies anywhere in
challenge, login, sync and replay; an acknowledgement that is lost after the
server has acted; answers sent before the login; a login that is denied; shutdown
while offline; an HTTP call that times out and is carried out later; a login
withdrawn between the host's decision and the core's answer. The
`hazards` of `PROJECT.json` list each at its line.

## 2. Modules

| Module | Models | State and actions |
|---|---|---|
| `WalletCore` | `core.rs` | The fields of `WalletConnectCore` under their names; `requests[kind][id]` stands for the seven `*_requests` maps, since their handlers differ only in the ways the actions distinguish. One action per `Input` and per server message. `effects` is what `handle` returned. |
| `Transport` | `transport.rs` | `run`'s position, delay, channel, handle, socket. |
| `WalletSession` | core + transport + server + person | `WalletCore`'s actions taken at `Transport`'s steps (`INSTANCE Transport`), FIFO sockets, a person who answers what is on the screen, a server that may deny a login. |
| `Delivery` | what a person is promised of an answer | `Give`, `CarryOut`, `LoseWord`, `Settle`: at most once, never after it failed, one per request, and reported as what became of it unless word of it was lost. `WalletSession` implements it (`KeepsPromise`). |
| `FundTemplate` | `verify_fund_template_owned` | The function's locals, read row by row. |
| `LendingFund` | `parse_typed_fund`, `verify_typed_fund` | A relying party proposes a claim, a request, the coin spent and the template's rows, possibly changed from what the claim describes; `parse_typed_fund` and `verify_typed_fund` then decide. One predicate per kind (`FillOk`, `OfferOk`, ...); the six fill arms of the code are one predicate with the version's differences as implications. |
| `VenueHost` | `venue.rs`, the loop of `approve-all-wallet.rs`, the core's login and sign-message handlers | A relying party asks for anything (`Ask`) and may withdraw it; the host takes events in order and rejects, accepts or signs (`HostHandles`: message, login, PSET; the example accepts a login as it is, `HandleLogin`, and a host that binds uses `accept_login_with_service_key`, `BindLogin`); the core handles the host's inputs later (`CoreHandles`). |
| `ServiceClients` | `identity.rs`, `sdk_login`, `payjoin.rs` | Calls of any number of wallets, each at a stage (challenge, posting, returned); a network that loses, delays and repeats requests; the services. |
| `WalletCoreProofs`, `TransportProofs`, `WalletSessionProofs`, `FundTemplateProofs`, `LendingFundProofs`, `VenueHostProofs`, `ServiceClientsProofs` | | Theorems (section 4). |
| `MCWalletCore`, `MCTransport`, `MCWalletSession`, `MCFundTemplate`, `MCLendingFund`, `MCVenueHost`, `MCServiceClients` | | Instances for TLC. |

Definitions commented "Fault:" are not part of any specification: each is the
definition after it with a plausible bug, and the mutants of `PROJECT.json` show
that a property notices the bug.

### Abstractions

- A request is a kind, an id and a *body*. The body stands for everything that is
  rendered or acted on (PSET, digest, domain, amounts); two flags of a body
  matter to the control flow and are constants: `BindingBodies` (a login with a
  `service_challenge`) and `MalformedBodies` (a digest that is not 32 bytes of
  hex).
- An action carries the request it answers and a *payload*: a wallet-key
  signature over a body, something the host produced, or whether a login is
  bound to a service key.
- JSON is not modelled; a frame that does not parse is `RecvIgnored`.
- `effects` keeps sets, since within one call the order of effects matters only
  for frames; `WalletSession` sends those by action id, the order of the
  `BTreeMap` they are read from.
- `shown`, `shown_holdings`, `reported`, `wire`, `settled` and, in
  `WalletSession`, `decided`, `early`, `taps`, `applied`, `delivered`, `refused`,
  `unheard`, `missed` are history: no guard of the wallet reads them, except that people
  tap what is `shown`. (`applied` is also the memory of a server that acknowledges a
  repeat.)
- `WalletCore` alone is open: the host may answer anything, live or not, and a
  connected server may send anything, including answers to ids it never got and
  a new body for an id. What it proves holds under any host and server.
- The connect server of `WalletSession` is not in the repository. It is taken
  from the messages the wallet sends and expects: it answers the challenge and
  the login, lists its pending requests at login (all kinds but logins, the fields
  of `LoginResp`), pushes creations and removals to logged-in connections, carries out
  an action on a pending request once, and may refuse or ignore an action that arrives
  before the login. It never uses a request id twice (`used`). With `ServerMayDeny` it
  may answer a challenge or login request with an `Error`. Nothing in the repository says
  what it does with a repeated action it has already carried out, so each time it may
  acknowledge it again or refuse it. `unheard` are the actions whose acknowledgement was
  lost with a connection, `missed` the login requests whose notification was: no snapshot
  lists them.
- In `FundTemplate` a blind proof that verifies shows the truth, and the host's
  declaration of a hidden coin of its own is right, as the documentation of
  `OwnedInput` requires. A statement or proof that is absent and one that does
  not verify are the same: the row is refused. A row that is neither explicit nor
  confidential in both parts is "Half". An issuance mints what its value commitment says,
  if it has one ("Committed"), whatever amount it states beside it; `on_trust` are the
  assets counted by such a statement that is not the truth, `veiled` those minted without
  one.
- In `LendingFund` hashes are free constructors: a terms digest is the record of
  the terms, a script hash is the script, so equal hashes mean equal contents.
  `Explicit` needs no case for a row without asset or value, since the template
  check that comes first refuses one; of that check the module keeps that
  something is asked for and that no one-unit token is paid out twice. The
  host recognises exactly the rows with wallet scripts as its own. The fields
  of a quote row are told apart only by whether one is zero (`ZeroTermRows`) or all
  bytes are (`ZeroRow`). What the covenant programs do on chain is outside the SDK.
- In `VenueHost` bytes are sequences of tokens: one for a tag, a 32-byte key or hash,
  a run of fixed-width fields, one for each character of a string. No tag of the
  source is a prefix of another, so byte strings are equal exactly when token
  sequences are. A digest is a free constructor over that sequence. A description is
  opaque text, garbled (typed by its `kind`, but unusable) or a typed request. An
  address is told apart from another only by its script. `final` inputs, inputs
  without a `witness_utxo` and a PSET that does not extract are fields of a PSET. The
  domain of a login is the connect server's, and has no NUL; every other string may
  have one.
- In `ServiceClients` the directory and the venue are external: a challenge is used up by
  the request that names it, a short id goes to the first key that claims it, a link
  code works once, and what is signed with a body is what its method signs. `action_path`
  gives each of the fifteen identity actions a route of its own, so a request's route is
  its action; of the actions there is one of each kind: nothing signed (`status`, the two
  lists), a part of the body (`contacts_save`, the confirmations), the text of two switches
  (`discoverability`), all of it (`id`, and the addresses, orders, handle and contact).
  `sdk_login` signs the challenge only and may have no link code. Two keys may have the
  same short id. An `f64` is a number of `Precision` significant bits, rounded to even; a
  price is finite and not negative (`PriceAssumption`).

## 3. Runs

| Run | Question | Bounds |
|---|---|---|
| `core` | screen, queue and replay, accept checks, push token and holdings, for logins, message signatures and signed PSETs | one id, two bodies (one wants a binding, or is malformed), two actions, one domain, one report, one token (about 563,000 states) |
| `transport` | backoff, and shutdown when the server can be reached, with `RECONNECT_MIN` = 1, `RECONNECT_MAX` = 60 as in the code | three waiting inputs |
| `transport_drop` (violation) | does dropping the handle stop an actor that never connects? | one input |
| `session` | end-to-end consent, order, truth of results, status, what a blip can lose, and the refinement of `Delivery` | two message requests, two bodies, two answers, two faults, logins that may be denied; requests and bodies are symmetric (about 1,005,000 states) |
| `session_live` | does everything settle once faults stop, and is the screen then the server's? | one request of any of login, PSET, message, pay; two answers, two faults, logins that may be denied |
| `fund_template` | what acceptance of a template means | two assets, amounts 0..2, width 2, two inputs, two outputs (about 1,149,000 states) |
| `fund_issuance` (violation) | are blinded issuances refused, so that the inputs bring what was counted? | as above, one input |
| `lend` | is what a typed lending fund shows what its rows do, and does an honest one pass? | two money assets, two tokens, amounts 0..3 (width 3), lists of up to two entries (and three, which must be refused), fee caps 1 and 2; one departure from the claimed template for fills and offers, two for the rest |
| `lend_burn` (violation) | does a full buyback burn the position token? | exercises, two departures |
| `venue` | what do the signatures of the venue and identity keys stand for, and is a login bound that wants to be? | one request at a time of every sort; strings up to two characters with and without NUL, two keys, readable and unreadable addresses, PSETs of up to two inputs (foreign, own at both scripts, final, without prevout) |
| `clients` | what do overlapping calls over a bad network do? | two wallets with one short id, two calls of any operations, two settings, one contact in two channels, one link code or none |
| `clients_fee` (violation) | is the estimated payjoin fee the minimum? | as above; prices 1/2 and 3/2, fees up to 9, three significant bits, width 31 |

Why the bounds suffice to be interesting: two actions are the least at which one
can overtake, replace or outlive another; two bodies at one id let a notification
replace what a pending tap was about; two faults give a connection that dies, one
that dies while it recovers, and one that works. Width 2 with amounts up to 2
makes sums of two rows overflow; two inputs are the least at which an index can be
declared twice. A departure changes the request, the spent coin, a row's asset
and value, its script (other programs, debts and each single term), or adds or
drops a row; two are what it takes to move a payment from one row to another. In the
core the ids are independent of each other, the other kinds differ from these only in
their liveness check (`session_live` has one of them), and the theorems of section 4
cover every size. `core` compares states without `effects` (`CoreView`): no step reads
it, and the properties see it only through `shown`, `wire` and its type. `fund_template` swaps assets freely, so
it uses symmetry; so does `session`, whose one temporal property is the refinement
`KeepsPromise`, a safety property. The liveness runs use none. In `venue` requests with different ids
do not touch each other's entries, so one id shows what two would, and
`VenueHostProofs` covers any number; two calls are the least at which one can overtake
the other or take its challenge.

The `session*`, `venue` and `clients` runs do not check deadlock: when every id is
used, all requests are gone and the bound on faults or calls is reached, nothing has to
happen any more.

### Fairness

`Transport`: the runtime polls the actor, so attempts end, sleeps end and a dead
socket is noticed (weak fairness); `select!` polls its branches in random order, so
a ready input, or the end of the channel, is not passed over for ever even if
connections come and go (strong fairness on `TakeInput` and `Stop`). `transport`
also assumes that the server can be reached again and again (strong fairness on
`ConnectOk`); `transport_drop` drops only that. `session_live` has weak fairness on
each step of the actor and on the server reading its socket; faults are bounded
by `MaxFaults`. Nothing is assumed of people or of expiry, nor that the server accepts
a login: `AnswersSettle` says that either the last connection was denied for good or
the wallet ends logged in with every answer settled.

### What the runs show

The passing runs find no error. Four runs disagree with a sentence of the
repository (`findings`):

1. `transport_drop`: "Dropping it stops the actor" (transport.rs:82), but the
   connect loop does not look at the channel; with the server unreachable the actor
   lives on.
2. `fund_issuance`: "Blinded issuances are unverifiable and refused"
   (approval.rs:303). An issuance is looked at only if it states its amount; one
   that does not is accepted and left out of the sums. `AsksExactlyAmount` shows that
   this never lets a template ask for more than the amount. One that does is counted by
   what it states, and an `issuance_value_comm` beside it is not read, against "Every
   number that enters here is either explicit on the row or bound to the row's
   commitments by a proof this function verified — never the relying party's word"
   (approval.rs:233-236). `AsksExactlyAmount` holds for every asset that is not minted
   this way.
3. `lend_burn`: "a full exercise burns it (1 in, 1 to OP_RETURN)"
   (docs/lending-fund-spec.md:36-37). The burn row's script and asset are compared,
   its value is not (the branch for a partial buyback compares it), so a row that
   burns nothing passes and the unit may go elsewhere.
4. `clients_fee`: "`ceil(network_fee × price) + fixed_fee`" (payjoin.rs:24-26), "The
   minimum the server accepts" (120-121). The product is truncated, so a price that does
   not divide evenly gives one unit less.

Outside the model, `summarize_pset` marks a row `confidential` only if its amount or its
asset is missing (approval.rs:104); one that states both beside its commitments is shown
as explicit, though "a confidential output is marked `confidential`, never guessed"
(approval.rs:8-9).

Limits the model makes visible. "An approval tapped during a network blip is not
lost" (core.rs:9-11) holds of answers given offline or logged in; one given between
the two is sent before the login, and a server that refuses it there ends it:
`BlipLosesOnlyEarly` shows that this, reported as `ActionFailed`, is the only loss. A
denied login leaves the wallet connected, without an event and without a retry, until
the socket dies. An unbound acceptance of a login that wants a service key is dropped
while the login is stored, and goes out once the server has withdrawn it
(`LoginIsBound`). An identity call that
timed out may still be carried out, after a later one was confirmed
(`SettingIsLatest`). `FirstAnswerWins` leaves out answers queued between connecting and the login
(`early`), which are sent ahead of the replay of older ones. An
acknowledgement that is lost with its connection makes the wallet send the action again,
and a server that refuses the repeat has it reported as failed although it was done:
`AnswersAreTrue` and `Delivery` show that this is the only untrue report (`unheard`). The
handle's drop is not composed with the core: an input that is drained before a login only
joins a queue that ends with the actor. Login requests are in no snapshot, so a login
that ends while the wallet is offline stays on the screen, and one created then never
appears; `ScreenMatchesServer` shows that nothing else is stale. `proven_rows = 0` of a
`FundTemplateSummary` does not mean that every row was explicit, once the host
declares inputs of its own. `sync_holdings` skips an empty report of the login
snapshot and keeps what it had, while "an empty report is a clear, whichever way
it is sent" (core.rs:611); a server that deletes empty reports never sends one,
and the runs and `HoldingsCorrect` assume that. Of a buyback the debt left
(`remaining`) is shown but only compared with zero, and of a fill only `sale - fee`
is bound, not the two apart. `verify_typed_fund` looks for a row for each payment it
promises, one by one, so two promises of one asset may be met by one row: two entries
of a collection, or the collateral and the returned "token" of a partial buyback whose
spent coin is one unit of the collateral asset. `PaysWhatIsShown` therefore says that
the wallet's rows of an asset cover each promise in it, not their sum.

## 4. Proofs

All theorems hold for every value of the constants that satisfies the `ASSUME`s
of the module; TLC evaluates those on every run.

**WalletCoreProofs** (`Spec` of `WalletCore`):

- `TypeCorrect`: `[]TypeOK`. By action; the answers of the host are reduced to
  three forms (`HostStepForms`: answer, drop, queue only) so each is done once.
- `ScreenCorrect`: `[]ScreenIsState`, inductive with the types. The step that needs
  an argument is `RecvLogin`: the adds and removes of the diff are disjoint and
  reproduce `Sync` point by point.
- `ActionsAreKept`, `ReplayCorrect`, `ReplayIsFaithful`, `PushTokenCorrect`: the queue properties are
  not inductive alone. `QueueInv` adds that a login implies a connection, that only
  ids handed out are settled, and that a lost connection leaves no frame on the wire.
  Without the last, a replay would be counted that the next connection never saw.
- `AcceptsCorrect`: the action property `AcceptsWhatIsShown`, from
  `ScreenIsState`: handlers check the maps, the property is about the screen.
- `HoldingsCorrect`: `[]HoldingsAreLastReport`, assuming no empty report in login
  snapshots, see the limits in section 3.

**TransportProofs** (`ActorSpec`, without fairness): `ActorTypeCorrect` (the delay
stays within its bounds) and `BackoffCorrect`. The last needs that
online the delay is the minimum and nothing has been slept (`BackoffInv`).

**WalletSessionProofs** (`SessionSpec`; it extends `WalletCoreProofs`, whose step lemmas
it uses for the core inside the session). For any number of requests, answers, faults and
frames in flight. The invariant comes in layers, each proved on top of the ones before:

- `BaseInv` gives `ConsentHolds` (`[]OnlyWhatWasAnswered`). `ChainInv`: what is queued,
  on the wire or carried out under an id is what was decided under it. `ConsentInv`: each
  decision, and each input still in the channel, is a tap. Neither is enough for a message
  signature, which is made when the input leaves the channel and over what the core holds
  then: `OneBodyInv` says that the server, the messages in flight, the core and the taps
  never disagree on the body of a request, since the server uses an id once.
- `StatusInv` gives `StatusCorrect`; it adds that `was_logged_in` is the core's flag while
  connected, or a lost connection would report the wrong state.
- `LoginInv` gives `BlipsAreHarmless` (`[]BlipLosesOnlyEarly`): the wallet believes in a
  login only if the server does, so what reaches a server before it is `early`.
- `VerdictInv` and `HeardInv` give `VerdictsAreTrue` (`[]AnswersAreTrue`) and, step by
  step, the refinement `PromiseKept` (`SessionSpec => KeepsPromise`). `VerdictInv`: what is
  carried out closes its request for good, and a refused answer cannot be carried out any
  more, because its request is closed or because it is not on the wire and no login will
  replay it before the refusal is read. `HeardInv`: word of what was carried out is on its
  way, was heard or was lost, and no refusal of it is ahead of that word; so a repeat that
  the wallet itself causes on one connection (an early send and the replay) is never the
  first thing it hears. `GiveStep`, `CarryStep`, `SettleStep` and the loss of a connection
  are the steps that map to steps of `Delivery`; all others stutter. Nothing is assumed of
  what the server says of a repeated action.
- `OrderInv` gives `OrderIsKept` (`[]FirstAnswerWins`): on the wire an answer that is not
  early is behind every unsettled older one to the same request, through replays too.
- `SyncInv` gives `ScreenIsCurrent` (`[]ScreenMatchesServer`): the last message in flight
  about a request says what the server holds, and without one the core's map does.

**FundTemplateProofs** (`Spec` of `FundTemplate`): `TemplateTypeCorrect`,
`AskIsTrue` and `FeeIsTrue`, for any assets, amounts, width and number of rows.
`TemplateInv` says that the sums are the truth (`SumsAreTrue`), except that inputs
which mint without stating it bring more than was counted, and that nothing is known of
an asset counted on trust; that an accepted
template passed `Balanced` and `FeeOk`, and that with one fee output the last fee
seen is all that was paid. `OwnedCorrect` (`[]OwnedListedOnce`) counts: `OwnedInv` says that
the rows read as the host's own are as many as the declarations about the inputs read so far.

**LendingFundProofs** (`Spec` of `LendingFund`): all six properties of the `lend` run,
for any claims, assets, departures and lengths of templates and lists. The function keeps
nothing, so the invariant (`Checked`) is that an accepted claim still passes on the same
request and rows; `VerdictFixed` is the lemma that the verdict reads nothing else.

- `CostIsShown`, `FillIsTrue`: `FillIsTrue` reads the terms back out of the script that
  was compared; it rests on hashes being free constructors.
- `FundTypes` (`[]TypeOK`): with `IsTemplate`, that the template is a finite list of rows.
- `PaymentsAreShown` (`[]PaysWhatIsShown`) and `OfferIsTrue` (`[]OfferIsWhatIsShown`) are
  about sums over rows. The sum is the library's `MapThenSumSet`, a fold whose value is
  chosen by `CHOOSE`; the first section of the module shows from the definition that for
  finite sets the fold exists, does not depend on the order, and lets any element be taken
  off (`FoldExists`, `FoldsAgree`, `SumSplit`). These go by the least counterexample
  (`LeastNumber`, from the well-foundedness of `<`), which needs no induction rule.
- `HonestAccepted` (`[]HonestStepPasses`): one lemma per kind of claim shows that the
  template it describes passes each check, the bound on tokens included (`TokenOnce`).
  `Sane` lists what is asked of the claim: numbers that fit, money that is not a token.

**VenueHostProofs** (`HostSpec`): `SignedIsShown`, `AnswersCorrect`, `LoginsBound`,
`AccountCorrect` and `SpendCorrect`, for any strings, keys, descriptions, PSETs and number of requests.
Half of the work is about digests: `TypedTag` and `ServiceTag` (the first token tells
the kinds apart), `TypedInjective` (one digest, one meaning) and `NulSeparates` (the
domain has no NUL, so the first NUL ends it and the challenge, which may have some,
cannot run into it). `HostInv` is the inductive invariant: every signature was made
over the digest of its meaning and that meaning was shown (`SignInv`), every input
waiting for the core is one the host may give (`GoodInputs`), the stored request is the
one that was asked under the id (`RequestInv`), what was sent is correct (`SentInv`), and
what went out unbound wanted no binding or is withdrawn (`UnboundInv`).
The queue between host and core is what makes the strengthening necessary: the properties speak
of what was sent, and the input decides it one step earlier. The theorems rest on
digests being free constructors and on ids not being reused.

**ServiceClientsProofs** (`ClientSpec`): `CallsAreDoneOnce` (`OkMeansDone`), `ShownIdCorrect`
and `SettingCorrect`, for any number of
wallets, calls and settings and any loss, delay and repetition. `ClientInv` says in which of
four phases a call is (`PhaseInv`: asking, challenged, posted, done, no two of which have
messages in flight, and a used challenge is no longer good), that a post asks for what its
call does (`PostInv`), that what was carried out was asked for and once (`ExecutedInv`),
that a positive answer was earned (`AnswerInv`) and that calls which follow each other were
carried out in that order (`OrderInv`). `OkMeansDone` alone is not inductive: a repeated
request is refused only because its challenge is gone.

Only model-checked: liveness (`DropStops`, `AnswersSettle`), which needs reasoning
about fairness and `ENABLED`, and the three properties that only the violation runs check. Every other
property of a passing run is stated by a theorem.

## 5. Not modelled

- Cryptography: key derivation, BIP340, SHA-256, taproot tweaks, commitments and range
  proofs are library calls; the models say what they are applied to.
- Encodings: JSON and the bytes of digests and scripts; the alphabet of short ids and
  their normalisation; the URL parser of `link.rs`; the record conversions of the FFI.
  They are string functions without state, and their tests enumerate the cases.
- `accepted_assets` and `sign` of the payjoin client: one exchange that keeps and checks
  nothing; a price that is negative or not finite.
- `summarize_pset` and `annotate_payjoin`: a copy of each row's fields with flags for what
  is absent, which only the screen reads.
- The generated bindings, and the examples other than the loop in `VenueHost`.
- Timeouts inside `tokio_tungstenite` are outside the source; attempts and sends are
  assumed to return. The commitment to an issuance's inflation keys is not read by the
  source; keys minted that way only add to what a template brings.
- The wallet keeps no record of its lending positions, so the debt left after a partial
  buyback cannot be compared with anything.

## 6. Plan

Done: `WalletCore`, `Transport`, `WalletSession` with `Delivery`, `FundTemplate`,
`LendingFund`, `VenueHost`, `ServiceClients`, and the proofs above: every
safety property of the passing runs, and the refinement. Next, in this order:

1. A handle that is dropped in `WalletSession`, with the proofs carried over: which
   answers, drained before a login, end with the actor.
2. `link.rs` and `short_id.rs` as operators against reference definitions.
