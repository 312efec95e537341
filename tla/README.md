# MDRN protocol: TLA+ models and proofs

MDRN streams live audio over libp2p: a *broadcaster* publishes Opus chunks on a
gossipsub topic, a *relay* passes them on, *listeners* decode them and, on
mainnet, pay the relay with signed cumulative commitments. This directory models
the parts of the Rust workspace whose correctness depends on order, time and
failure, checks them with TLC, and proves the safety properties of all of them
with TLAPS. Source paths below are relative to the repository root.

## 1. Inventory

| Component | State | Operations | What is hard | What makes it correct |
|---|---|---|---|---|
| Payment accounting (`mdrn-cli/src/relay.rs`, `mdrn-core/src/payment/commitment.rs`) | `listener_usage`, `listener_payments`, each behind a tokio `Mutex` | `record_bandwidth_usage`, `update_payment_commitment`, `check_payment_sufficient`, `enforce_payment_limits` | `&self` methods, callable from many tasks; awaits between record and check; two locks at once; dropped futures; `u64` arithmetic | nothing unpaid is let through, nothing paid is refused, no deadlock, commitments only grow |
| Relay life cycle (`relay.rs`) | swarm, `running`, `relayed_streams`, counters, `final_metrics` | `start`, `subscribe_stream`, `run`, `wait_for_chunk`, `shutdown`, `metrics` | two event loops that can be left at any await, stop and restart, late events | no connection is lost from the count, topics of peers are joined, messages are on joined topics |
| Broadcaster (`broadcast.rs`) | connect flags, gossipsub's knowledge of the relay, outbox | connect, DHT announcement, subscribe, mesh wait, publish, drain | timeouts, dropped events, a publish loop that does not poll | it returns; published chunks reach the relay |
| Listener (`listen.rs`) | connect flags, decoder, samples | connect, subscribe, decode for 60 s, write WAV | duplicate and reordered chunks, late start | decoded chunks are the recording; no chunk is heard twice |
| Transport (`mdrn-core/src/transport/swarm.rs`, `config.rs`) | swarm, `subscribed_topics`, `dht_store` | `subscribe`, `publish`, `dht_put`, `dht_get` | gossipsub's own queues | a publish needs a subscription of its own and one of a peer |
| Identity (`mdrn-core/src/identity/`) | genesis keys, vouches, wall clocks | `Vouch::create`, `verify`, `verify_broadcaster_admission`, `can_vouch` | expiry between two checks, commands that check less than the relay, one-hop trust | only who was vouched for, in time and by a trusted key, is admitted |
| Settlement (`mdrn-core/src/payment/settlement.rs`, `relay.rs`) | the chain (mock) | `process_payment_settlement`, `settle_payment`, `verify_settlement` | settling twice, cumulative amounts, configurations that never settle | a settlement covers what was forwarded; no settlement, and all of them together, takes more than the listener committed to |
| Subscription (`mdrn-core/src/stream/subscription.rs`) | one of four states | `on_subscribe`, `on_sub_ack`, ... | lost and late answers, timeouts, restarts of the relay | no answer is taken for another request's |
| Keys of programs (`mdrn-core/src/identity/keypair.rs`, `main.rs`, `relay.rs`, `broadcast.rs`, `listen.rs`) | the key file, one key per program | `keygen`, `load_keypair_default`, `load_relay_keypair`, `MdrnSwarm::new` | a file that several programs share and `keygen` overwrites | whoever must be told apart can be |
| Discovery (`discover.rs`, `swarm.rs`, `announcement.rs`) | local DHT copy, Kademlia's copy | `dht_put`, `discover_streams`, `format_discover_output`, `lookup_stream_announcement` | a copy kept after an error, foreign and malformed records, announcements under a key not their own, limits | nothing that a lookup finds is missing from what is reported |
| Audio pipeline (`broadcast.rs`, `listen.rs`) | samples, frames, chunks | `read_audio_file`, `resample_to_48k`, `encode_opus`, `run_broadcast`, `run_listen_stdin`, `write_wav_file` | sizes at the boundaries, a listener that does not know the number of channels | what is heard is the recording, then silence |
| Envelope, encryption, signatures, backchannel, browser bindings, `mdrn-relay` stub, contracts | none that changes | encodings, cryptography, argument parsing, placeholders | – | not modelled: no behaviour for a model checker |

How they interact: the relay's owner (the `relay` command or a test) calls the
`RelayNode`; its `run` loop takes events from the swarm it owns. Broadcaster and
listeners are processes of their own that meet only at the relay, over libp2p
connections. The payment operations share two tables and nothing else with the
loop: `run` itself logs payment commitments and does not call
`enforce_payment_limits` yet (`relay.rs`, lines 392-418), so the accounting is
modelled as what it is, an interface that tasks sharing the node may call. The
same goes for `verify_broadcaster_admission`, which only tests call today, and
for `process_payment_settlement` and the subscription state machine: pieces of a
protocol whose message types exist (`protocol/types.rs`) and whose exchange is
yet to be written.

## 2. Modules

| Module | Models | Kind |
|---|---|---|
| `Pricing` | the price of a byte count, exact and in machine arithmetic | operators |
| `PrepaidMeter` | what the accounting promises: a latest commitment and a cleared byte count per listener | abstract specification |
| `PaymentLedger` | the four payment operations, run by concurrent tasks | detailed specification, refines `PrepaidMeter` |
| `RelayNode` | a relay node with its swarm and its peers | specification |
| `StreamService` | what those who listen to a stream may hear | abstract specification |
| `StreamPath` | one stream through broadcaster, relay and listeners | composition of the three programs, refines `StreamService` |
| `Subscription` | the states of a subscription and their transitions | operators |
| `Settlement` | payment configurations, contracts and what settling yields | operators |
| `Session` | listeners' sessions with a paid relay, from SUBSCRIBE to settlement | composition of `Subscription`, `PrepaidMeter`, `Settlement` |
| `Nodes` | the programs of one machine, their keys, DHT stores and discovery | specification |
| `AudioPath` | a recording from the file that is read to the file that is written | specification |
| `Admission` | vouches from the `vouch` command to a relay's verdict | specification |
| `PaymentLedger_proofs`, `RelayNode_proofs`, `StreamPath_proofs`, `Session_proofs`, `Nodes_proofs`, `Admission_proofs`, `AudioPath_proofs` | theorems | proofs |
| `Facts` | queues, flattened sequences, quotients, counting and induction over finite sets | lemmas |
| `MCPaymentLedger`, `MCRelayNode`, `MCStreamPath`, `MCAudioPath`, `MCAdmission`, `MCSession`, `MCNodes` | instances | for TLC |

`PaymentLedger` refines `PrepaidMeter` and uses `Pricing`; `Session` builds on
`PrepaidMeter`, so that the concurrency inside the relay is shown once and for
all in `PaymentLedger`, and sessions are studied on top of its promise.
`StreamPath` composes broadcaster, relay and listeners. `RelayNode` is the relay
alone in more detail; `AudioPath` takes over where the stream path's chunks are
abstract, and lets them arrive in any order and number, which covers every order
the network may choose.

Definitions commented "Mutant" are deliberately broken variants of the
definition that follows them; no specification uses them. Each stands for a
plausible slip in the code and shows that the property it is aimed at would
notice.

### PaymentLedger

`usage` and `payments` are the two maps (an absent entry is 0 or
`NoCommitment`); `usageLock` and `paymentsLock` name the task that holds a
mutex. Each task runs one operation at a time (`call`, `pc`):

    record:  record_lock -> recording -> adding -> idle
    check:   check_lock -> check_payments_lock -> checking -> answering -> idle
    enforce: the states of record, then those of check
    update:  update_lock -> updating -> storing -> idle

A state ending in `lock` is an await: the task waits there for a mutex, and
`Abandon` may drop the future there, which drops the guards it holds. Between
`recording` and `adding`, and between `checking` and `answering`, an entry has
been read but not yet acted on; between `updating` and `storing` a commitment
has been validated but not inserted. These are steps of their own, because the
tasks run in parallel: that nothing comes between is a result (`ReadsAreFresh`),
not an assumption. `Panic` is an overflow in a debug build. A commitment is a
record of the fields the code compares; its signature is abstracted, every
member of `Commitment` being one that passes `verify_signature`. The relay is on
mainnet: on testnet `check_payment_sufficient` answers before it looks at the
tables.

The history variables `granted`, `cleared` and `refused` are written when an
enforcement answers, and read by nothing but properties.

### RelayNode

All methods that change the node take `&mut self`, so one `method` runs at a
time; the network meanwhile fills the swarm's event queue. Actions named `On...`
are the arms of the two event loops. `Shutdown` drops the swarm with its
connections and its unread events and leaves the counters and `relayedStreams`,
as `shutdown` does. Connections and gossipsub's view of the peers' topics are
external and appear as `conns` and `peerTopics`.

### StreamPath

Each client runs the connect loop the two programs share, then subscribes. The
broadcaster waits for the mesh, publishes, drains and exits; `PollingPhases` are
the phases in which a program polls its swarm, and only then do messages leave
`outbox` or does news arrive. The relay handles a message twice: gossipsub
forwards it to listeners in its mesh (any subset of the subscribers: the mesh is
gossipsub's affair), and the event loop publishes it again. When the broadcaster
exits (`DrainEnds`) its connection closes, and of what is on its way the relay
gets no more than a first part, of any length. `heard` is what a listener has
decoded, in order. `StreamService` sees only `chunks_published` and `heard`: a
step that publishes or decodes is one of its steps, every other a stutter. That
what is heard was published at all needs `AllOrNothing`: only since no chunk is
refused before one that is accepted does the count say which chunks they were.
`ImplementsService` says what may be heard, `HearsFromThenOn` and `HearsAll`
what must be. The service is that of the code, in which both copies of a chunk
are decoded; that the test plan wants the second one ignored is `HearsEachOnce`,
which the code violates.

### AudioPath

Samples are numbered in the order the encoder gets them, 0 is silence; a frame
stands for its samples, what Opus does to their values and its constant delay
(its look-ahead, of which the code takes no account at the end of a recording)
being left out. `options` are the command lines of both programs. The listener
decodes with `ListenerChannels`, two unless it was given an announcement, which
the `listen` command never does; `Remixed` is what an Opus decoder does with a
mono stream it is to play in stereo, the only case of other channels there is.
`Resample` may produce any number of frames, and fails when it is given fewer
than it demands. A chunk that cannot be decrypted is skipped on the network and
ends the stdin mode, without a file.

### Admission

`now` is the wall clock the machines share; that it never goes back is an
assumption. `genuine` says of a vouch that its signature is its issuer's over
its other fields, which `Verify` checks as `Vouch::verify` does; what a file may
hold besides vouches of the `vouch` command, forged or tampered ones, is the
constant `Forged`. The actions are the commands: `IssueVouch`;
`BroadcastDefault`, which takes what it finds in the default location through
`load_vouch_default`; `BroadcastFrom`, which only parses its file; and `Decide`,
the relay's verdict, kept in `verdicts` with its time. `Genesis` is the list the
relay is created with: `genesis_broadcasters()` is empty as yet, so that a
mainnet relay admits nobody (`Genesis` empty); `TrustChain::new` takes any list,
and the model any set.

### Session

`sub` is each listener's `SubscriptionState`; its events are the actions
`SendSubscribe`, `SendUnsubscribe` and `ListenerReceives`, and an event without
a transition leaves it where it is. `latest` and `cleared` are the relay's
account (`PrepaidMeter`), `signed` is the listener's own newest commitment.
Messages between the two are in `link`, with the number of the request they
belong to, which the code's messages lack and only properties read; commitments
are in `offers` and may overtake each other. Into Closing lead an UNSUBSCRIBE
and a timeout (`TimeOut`), which sends nothing. `RelayRestarts` is a new
process: empty tables; what is on its way may still reach it, commitments made
to the former process too. `relay` ranges over every mode and every
configuration, or none: the `relay` command makes some of them,
`PaymentConfig::new` and `RelayNode::new` take all.

The exchange is not in the source yet. What is modelled is what a careful owner
of a relay would do with the pieces, and the code leaves open: hand every
commitment to `update_payment_commitment`, let chunks through by
`enforce_payment_limits`, and upon UNSUBSCRIBE settle by the newest commitment
accepted, once. That an answer to SUBSCRIBE exists at all, and the kind
`Settled`, are taken from the names of the transitions; whether the listener is
told of a settlement is nondeterministic, since no code does, and
`verify_settlement` is called by nothing. A decision is that of `PaymentLedger`
in machine arithmetic (`Enforced`: a panic or a wrapped price where they occur),
and bytes of chunks refused since the last one that passed are recorded with it
(`Refused`). What a settlement yields is `Settlement`'s.

### Nodes

A machine has a key file and runs programs. `StartBroadcast`, `StartRelay` and
`StartTemporary` load or generate the key as the commands do; `StartNode` is
`MdrnSwarm::new`, which takes Ed25519 keys only. `store` is `dht_store`,
`offered` what Kademlia has taken. A `tool` is another program built on the
library, as the tests are, and puts any announcement, or what does not parse,
under any key: its own, another stream's, or one of no stream (`NoAddress`), in
the namespace of streams or out of it, for `dht_put` compares nothing. Names
count their bytes and characters, which is all that `truncate` looks at. What
discovery makes of a store is a set of possible results, since a `HashMap`
yields its entries in any order and the limit cuts there.

## 3. What is checked

Passing runs:

| Run | Question | Bounds |
|---|---|---|
| `ledger` | Do the locks hold, is every decision based on fresh data, is nothing let through unpaid and nothing refused that is paid, does what was cleared stay paid, does every call return, is the ledger a prepaid meter; when futures are dropped at any await and sums and prices overflow in a debug build? | two tasks, all operations, one listener, three commitments, chunks of three quarters of a MiB, a word of three MiB, a price of one and a quarter MiB per MiB |
| `relay_life` | Is the peer count exactly that of connections, the open ones and those the former life left, are messages handled on joined topics only, is every topic of a peer joined? | two peers of two connections, two unread events, one message, two lives |
| `stream_path` | Is a recording accepted as a whole or not at all, and met by a relay that has joined; do the three programs implement `StreamService`; does a listener that is there in time hear everything that left, and a late one everything from its first republished chunk on; does the broadcast command return? | one listener, three chunks, every clock may run out early |
| `audio_path` | Are the frames the recording; does a listener hear it and nothing else, whatever the channels; is the reported duration that of the file? | up to five samples per channel, one to three channels, frames of two samples per channel, four chunks in any order |
| `session` | Is an answer ever taken for that to another request; is the account what the listener signed; does a settlement take no more than that, and cover what was forwarded? | one listener, two sessions, six commitments, chunks of a MiB with none or one refused before, prices that overflow, every mode and configuration, every loss, timeout and restart |
| `nodes` | Who can share a peer id; does a running broadcaster's announcement have Kademlia's consent; does discovery miss nothing that a lookup finds? | two programs at a time, two keys, two records under any keys, limits of one and two, two tags that differ in case and one that is absent |
| `admission` | Is whoever is admitted entitled to it; is no refusal taken back? | a genesis key and another one, two vouches and a forged one, a clock of three values, two verdicts |

Runs that end in a violation state what a comment, a doc or a test plan says and
show how the code departs from it:

| Run | Statement | What happens |
|---|---|---|
| `ledger_release_wrap` | "Check if listener has sufficient payment for their usage" (`relay.rs:588`) | in a release build the price wraps to zero and the chunk passes |
| `stream_wait_topic` | "... Subscribed from another peer on our stream topic" (`broadcast.rs:466`) | a subscription to another topic ends the wait, every publish fails |
| `relay_peers` | "Number of currently connected peers" (`relay.rs:81`) | a relay that is shut down with a peer and started again reports a peer that is not connected |
| `stream_duplicates` | "Ignores duplicate seq numbers" (`docs/TEST-PLAN-LISTEN.md:275`) | gossipsub forwards a chunk and `run` publishes it again; the listener decodes both |
| `session_charges` | "Signed cumulative commitments, lazy settlement" (`README.md:44`), "Cumulative amount in base units" (`commitment.rs:35`) | a second session settles the whole amount again |

Met while modelling, without a run of their own:

- Relay: a refused chunk stays recorded, so that a listener refused again and
  again owes more and more (`relay.rs:622`); `update_payment_commitment` accepts
  a commitment to another relay, for `relay_id` ("Relay being paid",
  `commitment.rs:26`) is compared with nothing; `peers_connected` counts two
  connections of one peer twice; after a restart `is_relaying` is still true of
  streams whose topic the new swarm has not joined; `streams_relayed` does not
  count the topics `run` joins; chunks are counted as forwarded before the
  publish that may fail.
- Settlement: a mainnet relay started without `--settlement-contract` never
  settles anything (`settlement.rs:128`), and what Lightning and Superfluid
  settle is never verified (`settlement.rs:119`). A mainnet relay that was given
  a price and the method "Free (no payment required)" (`method.rs:9`) refuses
  traffic that is not paid for (`relay.rs:588-611` does not look at the method)
  and settles nothing for it (`settlement.rs:84`), which is why
  `SettlementCoversTraffic` speaks of the other methods. Neither signature,
  currency nor method of a commitment is looked at. A restarted relay forgets
  what a cumulative commitment has already paid for and lets new traffic through
  for it.
- Subscription: a state that is Closing after a timeout, or whose session is
  never settled, stays so, for only `on_settled` leads out
  (`subscription.rs:43-57`).
- Stream: the listener has no reordering buffer
  (`docs/TEST-PLAN-LISTEN.md:277`); an encrypted network broadcast never tells
  anybody the stream key.
- Audio: a stereo recording at another rate than 48 kHz is an error ("Resample
  audio to 48kHz if needed", `broadcast.rs:158`), for the resampler is created
  for as many frames as there are interleaved samples (`broadcast.rs:182`) and
  given half of them.
- Keys: with a key file, a relay and a broadcaster on one machine run under one
  peer id and cannot connect ("Cannot dial own peer ID",
  `docs/TEST-PLAN-TRANSPORT.md:71`), unless the relay was started before the key
  was generated; `keygen` overwrites a key silently, and offers secp256k1 keys
  with which no swarm starts (`swarm.rs:146`).
- Discovery: the `discover` command looks only into the empty store of its own
  new swarm; it prints the address an announcement carries, which may be another
  than the key it is stored under, so that a row may show an address that no
  lookup finds (`discover.rs:152-159`, `:241`); a limit of 0 is reported as "No
  streams found matching filter" even without a filter; a long stream id that is
  not ASCII may make it panic ("Truncate a string with ellipsis if too long",
  `discover.rs:266`), for it is cut at byte 17 (`TruncatePanics`). Of the last
  two `ReportsAreComplete` says nothing. The `ttl` of an announcement is read by
  nothing.
- Vouches: without a vouch the broadcast command fails on testnet too ("testnet
  (no vouch required)", `main.rs:221`); a vouch from `--vouch-file` is not
  verified, nor any vouch compared with the broadcaster's key
  (`docs/TEST-PLAN-BROADCAST.md:96`); a genesis broadcaster with an expired
  vouch, or one for another, is refused ("always valid", `identity/mod.rs:53`).

### Bounds

- `MaxUsage` (ledger): no new call once that much is recorded or granted; calls
  under way still finish, so that two tasks reach two prices, a smaller
  commitment no longer suffices and recording overflows. Two tasks contend for
  both locks, in every pair of operations; three tasks and more are covered by
  the proofs, which hold for any number.
- `Word` stands for 2^64. `ledger` chooses it so small that a fourth chunk does
  not fit, nor the price of the third MiB; `session` so that the price of the
  third MiB does not; in `ledger_release_wrap` byte counts fit and the price of
  the second MiB does not.
- `ConnsPerPeer`, `MaxStarts`, `MaxMessages`, `MaxEvents` (relay): two
  connections per peer tell connections from peers, two starts give one restart,
  two unread events let a closing wait behind a message or an opening.
- `LastChunk` (stream): two chunks show an exchange of order and a gap, the
  third leaves room for a message on every link. One listener: listeners meet
  only in the relay's mesh, of which any subset is tried.
- `MaxFrames`, `FrameSize` (audio): recordings of no sample, less than a frame,
  exact frames, and frames and a half; three channels are refused by the
  encoder.
- `MaxRequests`, `MaxCleared`, `Commitment` (session): two sessions let an
  answer of the first meet the second; two prices and three sequence numbers let
  commitments overtake each other, repeat an amount and fall behind; chunks of a
  MiB reach both amounts, with a refused one between them (`Refused`) the price
  that overflows. Listeners share nothing but the relay's configuration, so one
  stands for all; the proofs are for any number.
- `MaxKeys`, `MaxRecords` (nodes): two keys are a key file and the one that
  replaces it, or a key file and a key that is not saved; two records are enough
  for a record that hides, repeats or displaces another. The one name is short,
  so that no report panics; two programs have two streams between them. Limits
  of one and two cut, or do not.
- `MaxTime`, `Lifetime` (admission): a vouch is judged before, in and after the
  last second of its life. Two identities give every pair of subject and issuer,
  trusted or not. The one forged vouch (`Forged`) claims the trusted issuer:
  what a forger would write.
- Symmetry (of programs) is used in `nodes` only, which has no liveness
  property.

The ledger, the admission and the session can never stop: some task or command
can always go on, or the relay be restarted. The relay, the stream path, the
audio path and the machine of `Nodes` really stop (the last shutdown, all
programs gone, the file written, no program started), so their runs do not look
for deadlocks; for the first two, liveness properties do instead.

### Fairness

- Ledger: weak fairness of a task that can go on (the runtime polls it), strong
  fairness of lock acquisition: a tokio `Mutex` is handed over first come, first
  served, so a waiting task cannot be overtaken for ever. Calls and dropped
  futures are not fair.
- Relay: weak fairness of `Handle` only: as long as the loop's future lives, the
  next event is taken. The loop need not be entered, nor the network active.
- Stream: clients that poll are polled, timers ring, the network delivers, the
  relay handles its events. Which clocks run out early (`Faults`) is left open:
  `BroadcastReturns` holds with every fault; `HearsAll` speaks of a listener
  that was subscribed when the first chunk was published, as long as its window
  lasts and unless the end of the drain cut the recording short.
- `Session`, `AudioPath`, `Admission` and `Nodes` state safety only: no program
  answers UNSUBSCRIBE, so that the code promises no end of a session that
  liveness could state.

## 4. What is proved

For any sets of tasks, listeners, commitments and chunk sizes, any price and any
word size, and any number of sessions, losses and restarts; for any peers,
topics and lives of a relay; for any listeners, length of the recording and
faults of a stream; for any programs, keys and records of a machine; for
recordings of any length in one to three channels and frames of any size; for
any identities, genesis keys, lifetimes, forged vouches and numbers of vouches
and verdicts.

| Theorem | Statement |
|---|---|
| `CostMonotone`, `RequiredIsCost` | more bytes never cost less; without overflow the code computes the exact price |
| `LedgerTypeCorrect` | `Spec => []TypeOK` |
| `LedgerLocksExclude` | `Spec => []LockDiscipline` |
| `LedgerReadsAreFresh` | `Spec => []ReadsAreFresh` |
| `LedgerClearedIsPaid` | `Spec /\ []OverflowFree => []ClearedIsPaid`; `CheckedLedgerClearedIsPaid`: a debug build needs no proviso |
| `LedgerForwardsPaidOnly` | `Spec /\ []OverflowFree => []NeverForwardedUnpaid`; `CheckedLedgerForwardsPaidOnly` for a debug build |
| `LedgerNeverDeadlocks` | `Spec => []NoDeadlock`: while an operation runs, the guard of some task's next step holds |
| `LedgerImplementsMeter` | `Spec /\ []OverflowFree => ImplementsMeter` |
| `LedgerRefusalsAreDue` | `Spec => RefusalsAreDue`, with or without overflow |
| `RelayTypeCorrect`, `MessagesOnJoinedTopics`, `PeersAreCounted` | `Spec => []TypeOK`, `[]MessagesAreOnJoinedTopics`, `[]CountIsOfConnections` of `RelayNode` |
| `StreamTypeCorrect`, `PublishedAllOrNothing`, `ChunksFindTheRelayAlways` | `Spec => []TypeOK`, `[]AllOrNothing`, `[]ChunksFindTheRelay` of `StreamPath` |
| `StreamIsService`, `ListenersMissNothing` | `Spec => ImplementsService`, `Spec => []HearsFromThenOn` of `StreamPath` |
| `NodesTypeCorrect`, `PeerIdsShared`, `AnnouncedOffered`, `DiscoveryReportsCompletely` | `Spec => []TypeOK`, `[]OnlyServersSharePeerIds`, `[]AnnouncedIsOffered`, `[]ReportsAreComplete` of `Nodes` |
| `AudioTypes`, `WavLastsAsPlayed`, `FramesAreWhole`, `HeardAsRecorded` | `Spec => []TypeOK`, `[]DurationIsPlayed`, `[]FramesAreTheRecording`, `[]HeardIsRecording` of `AudioPath` |
| `SessionTypeCorrect`, `SessionAnswersCurrent` | `Spec => []TypeOK`, `[]AnswersAreCurrent` of `Session` |
| `SessionAccountsSigned`, `SessionSettledSigned` | `Spec => []AccountsAreSigned`, `Spec => []SettledIsSigned`, with or without overflow |
| `SessionAccountCommitted`, `SessionSettlementCovers` | `Spec /\ []OverflowFree => []AccountIsCommitted`, `Spec /\ []OverflowFree => SettlementCoversTraffic` |
| `TypeCorrect`, `AdmissionEarned`, `RefusalsFinal` | `Spec => []TypeOK`, `[]AdmissionIsEarned`, `[]RefusalsAreFinal` of `Admission` |

The argument: `LedgerInv`, the conjunction of `TypeOK` and `LockDiscipline`, is
inductive: the type invariant alone does not say who holds a lock, and lock
ownership needs the types of `pc` and `call`. `ReadsAreFresh` is inductive
relative to it: whoever writes a table holds its lock (`TableWrites`), so a task
between its read and its write is alone. With fresh reads a stored commitment
supersedes the one it replaces (`StoreRaises`), recording only adds
(`RecordAdds`) and a check that allows a chunk compares with the exact price
(`CheckClears`); `ClearedIsPaid` follows, because prices are monotone. The
refinement uses the same lemmas: `Store` is the meter's `Commit`, an allowing
`Check` its `Clear`, every other step a stutter. `NeverForwardedUnpaid` is not
inductive, because an enforcement that has recorded its bytes may still be
dropped, refused or granted: `GrantedIsRecorded` says that what was let through
and the bytes of all enforcements in flight (`Pending`, one pair a byte, so that
a sum over tasks is the size of a set) are within what is recorded, and that
what was let through had been recorded when the last chunk was; with
`ClearedIsPaid` it gives the theorem. `NoDeadlock` follows from
`LockDiscipline`: whoever owns `listener_payments` waits for nothing, and the
owner of `listener_usage` at most for `listener_payments`. `RefusalsAreDue`
needs no proviso: the code may ask for less than the exact price when arithmetic
wraps, never for more (`RequiredAtMostCost`).

`OverflowFree` says that either the build checks arithmetic or the numbers are
small. It is needed: `ledger_release_wrap` shows what happens otherwise. The
assumptions on the constants (`PricingAssumption`, `LedgerAssumption`) say that
prices, amounts, sequence numbers and sizes are naturals, that a price fits a
word, and that the model values differ; TLC evaluates them in every run.
`Session` has an `OverflowFree` of the same meaning.

In `RelayNode`, a start gives the node a swarm that has joined nothing;
`MessagesAreOnJoinedTopics` survives it because no event of an earlier life is
left then (`EventsNeedSwarm`). `CountIsOfConnections` is an equation about the
end of the queue, but the count saturates at zero where a `closed` is read:
`CountInv` says that after any number of the next events it would still be a
natural (`Balance`), so that the saturating decrement is exact; and what a
shutdown leaves in the count is what its metrics say (`Former`). In
`StreamPath`, `AllOrNothing` is kept because what the broadcaster knows of the
relay does not change while it publishes: `Progress` says for each phase how
`published`, `next` and `known` hang together, and the bound of `published` in
the type invariant follows from it. `ChunksFindTheRelay` rests on
`TopicsAreKnown`: what the broadcaster knows of the relay's topics, and every
announcement still on its way, is so, for the relay leaves no topic.

The refinement of `StreamService` is about order over the whole path. `PathInv`
says that there are positions `e <= r <= o` up to which the chunks have been
handled by `run`, received by the relay's gossipsub and sent by the broadcaster,
and that the queues between hold just the chunks between (`Carries`). From these
each listener's queues and what it has decoded follow on without a gap
(`Republished`), or, on the way through the mesh, in order at least
(`Forwarded`); `Membership` rules out that a listener leaves and comes back. A
decoded chunk is then one that its `Service` may hear next; every step but
`Publish` and `Decode` is a stutter. `HearsFromThenOn` is what `PathInv` says
once nothing is on its way.

In `Nodes`, whether a program that starts shares a key depends on the key in the
file: `KeysAreFresh` says that it is no temporary program's, and that no key in
use is newer than the generator. `ReportsAreComplete` compares numbers of
records, which means something because stores are finite (`StoresAreFinite`). A
record of the namespace is a stray or found by the lookup of the address in its
key (`CountedIsFound`), so that there are as many of them as addresses found
(`AddressesCount`), or more if there is a stray (`StraysCount`); the filter
looks at the announcement and not at the key, and both sides at the same one.
`ReportAgrees` puts that together for each kind of report. `StreamAssumption`,
`RelayAssumption` and `NodesAssumption` keep clients, topics and tags apart and
the bounds natural.

The properties of `Admission` are not inductive: a verdict is a matter of the
time at which it fell, the vouch of the announcement then. `VerdictsDeserved`
says of each verdict in the history that it is the one its vouch deserved at its
time, its signature included, and is inductive with `TypeOK`; what a vouch
deserves only gets worse with time, which gives `RefusalsFinal`.

In `AudioPath` the invariant is `AudioInv`: recordings have whole frames
(`EvenChannels`), the chunks are the frames of the recording
(`ChunksAreFrames`), the samples of the listener are the decoded chunks one
after the other (`SamplesAreDecoded`), the header is theirs. `TypeOK` alone is
not inductive: that played positions are positions of chunks needs that nothing
is played before anything is sent (`NothingYet`). The properties follow by index
arithmetic: where in a flattened sequence of pieces of one length an element
lies (`FlattenEqual`), which frame and which place in it a sample has
(`SentAt`), and what a decoder of other channels makes of it (`RemixedAt`,
`DecodedAt`).

In `Session`, `AnswersAreCurrent` is inductive with the types: nothing is on its
way to a listener that is Idle or Active, so a new request meets no older answer
(`ListenerSteps`), and an answer keeps the place and the state of what it
answers (`ReplaceKeepsAnswers`). What is in the relay's tables needs two
invariants. `SignedInv` says of each commitment on its way, and of the account,
that the listener signed it and signed nothing since but newer ones
(`SignedByNewer`); newer ones are worth more (`AcceptableIsWorthMore`), so that
what a settlement took stays within what is signed. That needs no arithmetic,
and no restart disturbs it, for it speaks about `offers` as well.
`ForwardedIsPaid` is about prices and needs `OverflowFree`: then a chunk that
passes is within the exact price (`RequiredIsExact`, `RelayForwardsPaid`), and a
new commitment is worth no less (`RelayReceivesPaid`). A settlement for money
takes the amount of that account, hence `SessionSettlementCovers`. The
assumption (`SessionAssumption`) types the commitments and the bounds.

`Facts` holds what several of these need: queues that lose their head or grow at
the end, and in which order they hold what; the number of events of a kind;
division with remainder; what `FlattenSeq` returns. The last rests on
`SetInduction`, induction over a set of naturals, which comes from the
well-foundedness of strict inclusion among finite sets: the library's induction
theorem for naturals takes an operator, which the provers cannot instantiate.

Model-checked only: the liveness properties (`CallsReturn`,
`PeerTopicsAreJoined`, `HearsAll`, `BroadcastReturns`), which need fairness and
with it ENABLED, beyond the prover. Every other property of a passing run is
stated by a theorem above. `NoDeadlock` is the part of `CallsReturn` that is
safety.

## 5. Not modelled, and plan

Not modelled: cryptography (signatures, encryption), CBOR encodings and the
message envelope, which no program exchanges; the codecs and the resampler,
numeric code of third parties; the backchannel, the `mdrn-relay` stub and the
contracts, placeholders; the browser bindings, wrappers that call functions
`mdrn-core` does not have (`mdrn-wasm/src/crypto.rs:6`);
`mdrn-cli/src/keygen.rs`, which no module includes; the swarm's own `run` loop,
which no program calls; of the command line what only parses arguments and
prints. Within the modelled parts: uptime, byte counters (they move with the
chunk counters), logging, listen addresses, real time, hashes and block numbers
of the mock chains.

Next, in this order:

1. The hazards without a property in the list of `PROJECT.json`: most would need
   a promise that the code does not make yet.
2. Two relays in `Session`, once the code compares `relay_id`.
