# A TLA+ verification project for AnonyMus

AnonyMus is an anonymous messenger. Every user runs a node behind a Tor onion service;
nodes talk to each other directly, or leave messages at a store-and-forward relay.
Conversations are encrypted with a Double Ratchet that may start from a post-quantum key,
one-time pre-keys come from published bundles, files travel in chunks, and a user's devices
synchronise with each other. There are two implementations of the node: the FastAPI
application ("v3", `transports/p2p/routers/`) and the older Flask application
(`transports/p2p/server.py` with `database.py`), here called the legacy node.

This directory holds TLA+ models of the parts of AnonyMus whose correctness depends on
ordering, concurrency, loss or failure, the TLC configurations that check them on small
instances, and TLAPS proofs of what matters most, for instances of any size. Every
definition is translated from the source; `PROJECT.json` gives, for each, the lines it
models, and lists the hazards the properties are meant for.

## 1. Inventory

| Component | State | Operations | What is hard | What makes it correct |
|---|---|---|---|---|
| Double Ratchet (`core/double_ratchet.py`) | root, chain and DH keys, counters, skipped keys | init (plain, PQ), encrypt, decrypt with skip loop and DH ratchet, save and reload | messages lost, late, out of order, repeated; an exception half-way; full store | both sides derive the same key; no key lost, kept after use, or used twice |
| Relay queues (`transports/relay/server.py`) | queue owners and creators, rooms, offline buffer, in memory or in Redis | connect, create, rejoin, register peer, push, disconnect | late disconnects of old sockets; handlers overlapping at Redis commands; full buffer | each accepted message sent on once and in order, none stranded or silently lost |
| Relay chunks (`relay/server.py`) | chunks in Redis and in memory | upload, download, cleanup | failing Redis calls, overlapping downloads | delete on download |
| Relay directory and presence (`relay/routers/`) | node list; subscriber queues | register, heartbeat, deregister; publish, stream | late and repeated signed requests, wrong clocks; full queues | listed nodes are recent; open streams are current |
| Sync manager (`core/sync.py`) | paired devices, duplicate window | register, create, process envelope | replays, clock offsets, bounded window | a replay is accepted only after a full window |
| Pre-keys (`routers/keys.py`, `core/prekey_pool.py`) | bundle row, in-memory pool, refill task | publish, fetch with refill, background fill | requests overlapping between SELECT and commit; lock released inside `fill_pool` | each one-time key offered once; pool bounded |
| Node-to-node delivery (`routers/messages.py`, `routers/p2p.py`) | message rows, background tasks | send, transmit with retries, receive | lost answers, overlapping retries | success means stored; tasks end; numbers increase |
| Contact handshake (`routers/contacts.py`, `p2p.py`, `compat.py`) | contact rows of two nodes | add, handshake, accept, save secret, remove | repeated, crossing, overlapping handlers; no unique constraint; a post that leaves before its row is committed | no half-open contact |
| Message history (`routers/messages.py`, `p2p.py`, `compat.py`) | message rows, the message a page is asked before | page, store, delete, resolve, reset | rows change between pages, the named one too; ties | every message on one page |
| Accounts and profiles (`routers/auth.py`, `profiles.py`, `compat.py`) | users, failure deques, sessions, profiles | register, login, logout, unlock, switch | lock check before an await; hashing in threads; a route that bypasses the limiter | number of tries bounded |
| Device pairing (`routers/sync.py`) | pairing session, limiter, database and `-wal` file, backup, staged file, open connections | start pairing, receive a database | crash between two file operations; commits and checkpoints meanwhile; a log beside another database | database never torn nor replaced without backup; clients blocked |
| File chunks (`routers/files.py`) | files, upload limiter, contact keys | upload, prune, download | prunings and writes in several threads; changing keys | owner isolation; quota |
| Event batcher (`socket_v3.py`) | queue, timer, flushes | enqueue, latency flush, full-batch flush | timer started outside the lock; cancellation | a queued event has a flush to come |
| Groups (`core/mls_groups.py`) | epoch, members, secrets | add, remove, rotate, process commit | removed members that hold old secrets | who is not in the group has no key |
| Tor and administration (`tor_manager.py`, `adapter.py`, `routers/node.py`) | process handle, ports, torrc, services | launch, restart, reload, invite, shut down, obliviate | overlapping launches, Tor dying | every process can be stopped |
| Download of Tor (`tor_manager.py`) | archive, executable | find, fetch, verify, extract | kills, failing verification, shared files | only a verified executable |
| Launcher (`launcher/launcher.py`) | `daemon_active`, service threads | start, stop, close | a stop while launching, a start that overlaps it | RUNNING means served |
| Mode switch (`server.py`, `core/transport_registry.py`) | registry, dispatcher, shared Tor handle | boot, POST /api/mode | failing and overlapping switches | requests reach the active transport |
| Legacy node: contacts (`p2p/server.py`, `database.py`, `core/sdk.py`) | rows and clients of two nodes | add, handshake, accept, secrets, delete | each write its own commit; answers that overtake each other; crashes and restarts | settled sessions share one secret |
| Legacy node: messages and edits | message and history rows | send, batch, receive, sweep, delete, edit | overlapping requests and sweeper | messages with a lifetime disappear; originals kept |
| Legacy node: connection pool | pools, their idle, held and leaked connections, counters | take, put back, close | the global pool read several times; time-outs, exceptions, nested connections | every connection accounted for |
| Legacy node: login and keys | counter, lock, sessions, key cache | register, log in, log out, save secret | read-modify-write in separate transactions | lock after enough failures |
| Legacy node: groups | group, members, invites, posts | create, add, vouch, post | checks before writes | only the founder posts in a channel |
| Legacy node: notification flags, and `PushService.kt` | tokens, flags | register, push, poll, clear | tokens replaced in between | a flag is notified |
| Message framing, configuration, database models, primitives | none of their own | - | - | constants, commits and symbolic keys of the models |
| Rust core, Android, web, desktop and iOS clients, command line | copies of the ratchet and stores | as above | as above | as above |

How the parts interact: the v3 routers share one database, and an `await` is where another
request may run; the pre-key pool, the chunk pruning and bcrypt also run in worker threads;
the pairing broker is an HTTP server in a thread of its own; the relay's handlers are
greenlets that share maps or Redis; nodes exchange HTTP requests over Tor, each outgoing
message in a background task. The legacy node serves requests in threads, and each database
call takes a connection from the pool and commits by itself. Launcher, server and node
administration share the Tor process through the globals of `tor_manager`.

## 2. Modules

**Core.** `DoubleRatchet` has one variable for the two session objects, with the fields of
`DoubleRatchetSession`, and a set of everything ever sent: delivering any message of it at
any time, any number of times or never, is loss, reordering and repetition. Keys are
symbolic: a Diffie-Hellman output is the set of the two key pairs, a root key the shared
secret and the exchanges mixed in, a chain key its root and a counter; two keys are equal
exactly when HKDF gets equal input. `decrypt` is cut into the skip loop (one step per
stored key), the DH ratchet and the final derivation, because `_skip_messages` may raise
between them. The two ends choose X25519 or hybrid secrets independently, as `encapsulate`
and `decapsulate` fall back independently. `Reload` puts `FromJson(ToJson(s))` in the place
of a session between two calls, the saved form being a record with the field names of the code; the
code saves every field, so this step changes nothing and adds no states: it documents that
`to_json` and `from_json` agree, and says nothing of a crash between two calls. `clean` becomes false when a party is
handed a message whose key it has used or evicted; `decrypt` has no test for this, and the
properties about agreement are stated up to it.
`SyncManager` is one device's manager; devices number their envelopes from 1 and have clock
offsets, and an envelope created once may be processed at any time and repeatedly. Answers
that leave the manager unchanged are not actions.
`MLSGroups` is `MLSGroupContext` on every device; the service that orders commits is external.

**Relay.** `RelayQueue` has the in-memory maps: one action per Socket.IO handler, since
greenlets do not switch inside one. `Mailbox` is what the relay promises the owner of a
queue, and `RelayQueue` is shown to implement it (`MailboxSpec`, with the offline buffer as
the waiting messages). `RelayQueueRedis` extends `RelayQueue`: with Redis each handler is a
task cut at the commands whose results it uses later. `RelayChunks` cuts a download between
GET and DELETE; any Redis call may fail, applied or not, so an upload may lie in Redis and in memory. `NodeDirectory` has signed requests that arrive
at any time and repeatedly; `Presence` the subscribers of one address with their queues and
generators.

**v3 node.** A handler is one action per stretch between awaits whose results it uses later.
`PrekeyBundle` has the bundle row, the pool, the fetches in progress and the workers' fills; a
commit writes the list that the request holds. `P2PDelivery` is one direction of a
conversation: a task per message, the network, and the receiver cut between sequence
check and commit. `requirements.txt` pins an httpx whose `AsyncClient` refuses `proxies=`, so with it every
attempt ends in an exception before a request leaves (`ClientFails`); the other attempts are those of a build
with an older httpx, and the properties hold for both. `Contacts` is the handshake of two nodes, each handler a
SELECT and a commit. An add through v3 is three steps: the INSERT is flushed and holds the write lock,
`TransmitHandshake` posts the handshake or fails, and only then does `get_session` commit (`CommitAdd`); handlers
that need the lock wait, or time out (`LockTimeout`). `MessageHistory` is a client that reads pages while rows
come, go and are resolved. It names the last message it was given (`before=`), since the `X-Next-Cursor` of the
route reaches no client; when that row is gone the server starts again with the newest page.
`Accounts` has the login limiter, sessions and profiles, and the compatibility routes that
reach the same tables; `POST /login` tests passwords without asking or telling the limiter.
`DevicePairing` has the limiter, the session, the `do_POST` in progress
and four files: the database, its write-ahead log, the backup and the staged file. A file is the database
it is of and the commits it has; the pool's connections commit to the log, a checkpoint writes it into the file
that its connection has open, which `os.replace` may have unlinked. Commits, checkpoints and the death of the
process may fall between any two steps. `ChunkStore` has the files, the saves (pruning file
by file, key lookup, truncation, write) and the loads; two writes that overlap may leave a mixed
file, which no key opens. `EventBatcher` has the queue, the timer task and the flushes;
critical sections under `_lock` are one step; an emit sends its event and then suspends.

**Processes.** `TorProcess` has `launch_tor` in threads that share the handle, the ports and
the torrc, and the administration requests; `Launcher` extends it with the GUI and the service
threads, so it is the composition of the two. `TorDownload` is what a launch does without an
executable. `ModeSwitch` is boot and `switch_mode` in green threads over a reduced `launch_tor`. The launcher's own write of the dispatcher's mode
(`launcher.py:653`), which bypasses the registry, and an exception of `wsgi.server` while serving are left out.

**Legacy node.** `LegacyContacts`, `LegacyMessages`, `LegacyEdits`, `LegacyPool`, `LegacyKeys`,
`LegacyGroups` and `LegacyNotify` each take one concern of `server.py` and its tables in
`database.py`. Threads interleave between database calls. `LegacyContacts` includes the SDK
client, whose `sync_contacts` fetches the list (`FetchContacts`) and assigns the sessions later
(`AssignSession`), so that answers may overtake each other; the row and the configuration of an add are two
commits (`AddContact`, `AddContactConfig`). `LegacyPool` numbers the pools: a thread that read one pool may wrap
its connection with the next, or with none, because `get_connection` reads the global again after it
waited. `LegacyNotify` includes the Android service that polls.

**Model-checking modules.** `MCServers`, `MCNodes` and `MCMessages` extend components that share
no state. A variable `focus`, chosen at the start, says which component a behaviour exercises, and
the others do not move, so the states of the components add up instead of multiplying; the
invariants of all of them are checked together. `MCDoubleRatchet`, `MCRelayQueueRedis` and
`MCChunkStore` fix sets and symmetries of one component. `*Proofs` modules hold the theorems:
`NodesProofs` about `MCNodes` extends `DevicesProofs`, `LegacyProofs` and `TorProofs`.

## 3. Runs

| Run | Expected | Shows |
|---|---|---|
| `servers` | pass | `RelayQueue` implements `Mailbox`, strands nothing, and a late disconnect never takes a newer socket's queue offline; listed nodes signed recently; an open presence stream is current; once a relay chunk has been returned no later request returns it; the pre-key pool keeps its target and holds no key that was offered; a download returns what was uploaded under that owner and id |
| `nodes` | pass | the duplicate window is the latest history and a replay needs a full window; failures block pairing clients, v3 logins and the legacy login although counts race; a pairing never tears the database file and backs up what that file had; clients outside a group have no secret the current one extends; legacy handshakes end in one secret unless answers overtake each other, edits keep an original, the connections of a pool are accounted for though pools are closed, only the founder posts in a channel; no Tor process is lost but by overlapping launches, only a verified executable is left, RUNNING means a service thread exists, requests go to the active transport |
| `messages` | pass | success means a row at the receiver and every task ends; no half-open contact; pages miss nothing but ties, also when the row a page is named by is dropped; a queued event has a flush to come; legacy messages with a lifetime disappear for good |
| `ratchet` | pass | keys agree and none is lost (but for evictions) in undisturbed sessions; keys are never returned, used or kept twice, in any; the store is bounded; the ratchet moves forward |
| `ratchet_replay` | violation | a repeated message of an older chain makes the session ratchet back to its key |
| `relay_redis_loss` | violation | a push between LRANGE and DELETE of a flush is deleted unsent |
| `prekeys_twice` | violation | two overlapping fetches return the same one-time key |
| `pairing_replace` | violation | the log of the replaced database stays beside the received one, and who opens the two finds pages of both |
| `chunks_quota` | violation | concurrent prunings give up at each other's removals and the cap is exceeded |
| `notify_flags` | violation | the push service registers a new token in every cycle and never polls the flag under the one before |
| `batch_cancelled` | violation | the timer's own flush cancels the task it runs in and loses the batch behind its first event |
| `login_capped` | violation | failed tests of `POST /login` are not counted, so a client exceeds the cap on failed attempts |

The eight violations are described under `findings` in `PROJECT.json`, each against the
comment or document it contradicts.

Several properties carry an exception that the code needs, stated in the comment above them:
overlapping downloads of Tor (`ExecutableVerified`), overlapping launches (`TorTracked`),
messages with one `sent_at` and, for what is returned twice, a page begun again (`PagesComplete`),
overlapping downloads of a relay chunk and an upload whose SET was applied and raised
(`DeliveredOnce`), posts checked before the group existed (`OnlyFounderPosts`), overlapping
switches and relays behind an onion (`ModeServed`), failed logins through `POST /login` (`LockoutBound`, see
`login_capped`), commits that are in the log only and what a checkpoint writes during a pairing (`DatabaseKept`,
see `pairing_replace`), deletions and lost or refused acceptances (`NoHalfOpen`), crashes and answers assigned after newer
ones (`SessionsSound`), connections that a full queue refuses after a pool was closed
(`ConnectionsAccounted`). `NoneStranded` is about the relay without Redis; what a push between two Redis
commands does is `relay_redis_loss`.

**Bounds.** They keep the counters finite; behaviours simply stop there, which is why deadlock
is not checked. Each is chosen so that the case the property is about happens.
*Ratchet*: four messages and three extra key pairs per side, three opened, skips of two and a
store of one - a ping-pong of two DH ratchets with messages of a previous chain outstanding, a
refused skip, and an eviction inside a skip loop. *Relay*: a receiver that reconnects with a
second socket, a sender, three messages and a buffer of two, so it overflows. *Directory*: a right
clock and one that is three ahead, with a skew of one, and time enough to become stale. *Presence*:
two streams, queues of two, five updates, so a queue overflows. *Relay chunks*: three downloads of one
id, uploaded twice, expiring. *Pre-keys*: two bundles, requests and workers, four keys. *Chunks*: two
savers, one loader, two owners, a cap of one chunk, times that let files expire. *Sync*: three
devices, one ahead of the freshness bound, a window of two and four applications. *Pairing*: one
client (the limiter is per client and the broker serial), two failures per window, two sessions,
three databases and commits, a window of two, a block of two and a clock up to four, so that a block ends. *Accounts*: two calls at a
time of one client, two failures lock, a lock of two, a clock up to three for a lock to expire and for failures
after it, one counted test of `POST /login`. *Groups*: three devices, four epochs (removed and added again). *Legacy contacts*:
two nodes that add and accept once each, and one fault: a lost post, a crash, a deletion or a restart. *Edits*: three edits of two rows. *Pool*: two
threads, pools of two connections, one closing, one failing statement; an edit holds two connections, so two
threads exhaust a pool. *Keys*: two browsers, both lock levels. *Tor*: two launches and two
processes over six ports (so a search always finds one; the theorems cover the one that fails). *Downloads*: two threads, three downloads, two kills. *Switch*: three
requests. *Delivery*: two messages, one of them sealed, with the code's three attempts.
*Contacts*: two nodes that each add and agree once, up to two rows each. *History*: three rows, three times, pages of two.
*Batches*: batches of three, six events. *Legacy messages*: two messages, two jobs, one error.

**Symmetry** is used in `servers` and `chunks_quota` for interchangeable identifiers; no liveness is
checked there.

**Fairness.** `messages` assumes weak fairness of the posting and of the timeout of a waiting task:
the task is a coroutine that runs until it returns, and every `client.post` has a timeout (of each read, so a peer that
trickles its answer could outlast it: the assumption is that none does for ever).
Nothing is assumed of the network or of the receiver. It also assumes weak fairness of the two
steps of the legacy sweeper, which is a loop in a daemon thread that catches every exception; errors
are bounded in the model. `notify_flags` assumes weak fairness of the message handler and of the start
of a polling cycle, which recurs every 30 s, and strong fairness of a successful registration, poll and
clear, because they are tried again in every cycle; even so a flag is not notified.

## 4. Proofs

42 results in seven modules are listed in `PROJECT.json`, for every value of the constants that the named
assumptions allow. The assumptions say that bounds are natural numbers and capacities positive, that a clock
that starts at 1 has a first moment, that the ports at which the searches start exist, that the two sets of nodes
have two elements, that the sets of threads, calls and browsers are finite where failures or connections are
counted, that a lockout outlasts the window of its failures (900 s and 300 s in the code, 1800 s and
1800 s for pairing), and that the "none" markers differ from the values they stand in for. Every safety
and action property of the passing runs, and the refinement, is proved; what is left to TLC is liveness.

The general form is an invariant of the specification, mostly the property with what each request,
thread or message in flight has secured so far, one step per action, and a last temporal step. The
arguments:

**`DoubleRatchetProofs`.**
* `RatchetTypeOK`: types and the bound of the skipped-key store, proved together, since eviction
  needs a sequence. The step for a reload rests on `ReloadFaithful`: what `to_json` saves is all `from_json`
  needs, so a reload is invisible.
* `RatchetKeysOnce` (`KeysOnce`, `ForwardSecrecy`), in every session, replays included. Invariant `KeyInv`:
  a root key only gets longer, Alice sends on roots of odd length and Bob on roots of even length; each key
  sent is of an older root or behind the sending chain, and each key returned or stored was *taken*,
  that is of a shorter root or behind the receiving chain, and is in one of these places once. So a
  key that is derived next was never taken.
* `RatchetAgreement` (`KeyAgreement`, `NoKeyLost`, `RatchetForward`), in undisturbed sessions. Invariant
  `LineInv`: there is one shared secret from which all roots of both parties lie on one line, the n-th
  with the first n exchanges of the alternating key pairs; the parties are at most one exchange apart;
  each message carries the key and numbers of its place on the line; every message sent by the peer is
  returned, evicted, stored, or still ahead of the chain; a call in progress handles a message
  ahead of the session. `RatchetLosesNoKey`, `RatchetGoesForward`, `RatchetForwardSecrecy` state the parts.

**The composed runs.** `ServersRunComponents`, `MessagesRunComponents` and `NodesRunComponents` say that in
every behaviour of the composed specification the component in focus behaves as its own specification says,
and stays in focus: initial states map to initial states, and a step of the composition is a step or a stutter of
the component. So what is proved of a component holds of what the run checks, and `ServersTyped`,
`MessagesTyped` and `NodesTyped` (`TypesOK`) follow from the types of each component. Some types needed more
than themselves: the pairing and login limiters that `popleft` stops within the deque; the Tor handle that
processes are numbered in the order of their start, and that `cleanup` waits only on a process that was
spawned; the mode switch that an advertisement is closed once (`AdvertisementTyped`); the edits and groups
of the legacy node what each request holds at each step. Three places where a model had no value outside the
explored instance were found this way, and the models corrected: a search that finds no free port, which ends the launch
(`ResolvePorts`), a deque that is emptied from its old end (`InWindow`), and clocks whose bound is 0.

**`ServersProofs`.**
* `RelayInvariant`, `RelayNoneStranded`: nothing stays in the buffer of an online recipient. Not inductive
  alone, since a connecting socket could be the creator of a non-empty buffer; `CreatorReachable` (creator
  entries name connected sockets) excludes that.
* `RelayStaysReachable`: sockets have new ids, so the last claimer of a queue is not the socket that
  connects next (`SocketsUsed`), and a disconnect that is not of the creator leaves the entry.
* `RelayImplementsMailbox`: the refinement; a push to an online recipient is a `Pass` only because
  `NoneStranded` says that nothing waits.
* `DirectoryListsRecent`: each `last_seen` is a moment at which a signature of that node passed
  verification (`SeenWhenVerified`), however old the request that carried it.
* `PresenceStreamsCurrent`: whatever is queued for a stream ends with the current status
  (`QueueEndsCurrent`), because a full queue loses its oldest and not its newest entry.
* `RelayChunksDeliveredOnce`: the data of an upload is in one place at most, stored data is
  undelivered, and what a request read before its DELETE was undelivered when it began
  (`OnePlace`, `StoredUndelivered`, `ReadIsStillThere`), except for the uploads
  whose SET was applied and raised (`doubled`).
* `PrekeyPoolBounded`: `fill_pool` counts and extends in two critical sections; the bound follows because a
  single refill is in flight and the room it counted is still there (`OneRefill`).
* `PrekeyPoolPrivate`: the keys on offer are those handed out, in a row, or held by a running fetch; the
  pools are disjoint from them and from each other, and hold each key once (`PoolPrivate`).
* `ChunkLoadedIsUploaded`: the save that runs, the file and the read each carry the number of an upload
  made for their own path, or a mixed file, which nothing opens (`SavesInPlace`, `FilesInPlace`, `ReadsInPlace`).

**`MessagesProofs`.**
* `BatcherFlushPending`: the queue is emptied in the critical section that forgets the timer.
* `LegacyExpirySent`: a request and the `save_message` it calls each compute the expiry from the ttl; unless that
  changed meanwhile, the rows saved have the expiry that will be sent (`SentAlike`). This is the safety half of
  `Disappear`.
* `DeliveryTransmittedIsStored`: an answer 200 on its way is about a committed row, and rows stay.
* `HistoryPagesComplete`: what was read is not older than the cursor; of the rows visible from the
  start, those not read are older than it, and none when the reading is done (`ReadToCursor`); a page that is
  begun again starts from the newest row, and only then is anything read twice.
* `ContactsNotHalfOpen`: without deletions the first row of a table is the one with id 1
  (`RowsInOrder`), and it never returns to `pending_outgoing`; what a handler found at its SELECT is
  that row, and a status it saw still holds as far as that goes, and a handshake may be out while its row
  is uncommitted (`HandlersFound`); a node that knows the
  other's key has a row there, and an acceptance was sent by a settled node (`PeerKnows`); an accepted
  contact is settled at the other node, or the acceptance is in flight (`AcceptanceKnown`).

**`DevicesProofs`.**
* `SyncWindow`, `SyncReplayDistance`: set and FIFO agree and are the latest ids of the history
  (`WindowIsLatest`), so between two applications of one id lie at least `MaxItems`
  others.
* `PairingKeepsDatabase`: what each phase of `do_POST` has secured: the backup holds what the database
  file has but for what a checkpoint wrote since (`late`), and the staged file is complete. Nothing is claimed
  of commits in the log, nor of what is found when the two are opened together.
* `PairingBlocks`: the deque of a client is the end of its list of failures, and all that was popped had
  left the window (`Remembers`); so a full window is a full deque, which has set the block. Where the loop
  that pops stops follows from the least element of a set of numbers (`LeastOf`, from the well-foundedness
  of `<` in the library).
* `AccountsLockout`: the number of failed tests of `POST /v3/auth/login` in any window is at most
  `2 * (MaxFailures - 1) + Cardinality(Calls)`. The invariant `Accountable` divides the failures at the point where
  the last expired lock emptied the deque: at most `MaxFailures - 1` recent ones before it, since a full
  deque would have renewed the lock beyond their window; as many after it while there is no lock; and
  under a lock only requests that have passed its test can add one, so that the number of recent
  failures and of such requests together does not grow.
* `RemovedMembersLockedOut`: every secret starts with the number of the commit that brought fresh
  entropy, commits that share it only add members (`SecretsRooted`), and a client was given only
  secrets of epochs it was a member of (`HeldAsMember`).

**`LegacyProofs`.**
* `EditsKeepOriginal`: a request between SELECT and UPDATE that read an edited text, or has written the
  history, comes after an original was recorded.
* `ChannelsOfFounders`: a post that passed the check of an existing channel is of its founder.
* `HandshakeSound`: every secret derives from one of the node's own key pairs and one of the peer's
  (`RowsDerived`, `ThreadsDerived`), and the session of an accepted contact is that of the stored secret, or a
  `sync_contacts` that will read it or has read it is still to come (`SessionStored`), unless the client assigned an
  answer after a newer one.
* `PoolAccounts`: how many connections a thread holds at each step, which pool made them and into which they go
  back (`HoldsByStep`), which pools exist (`PoolNumbers`, `PoolPhase`), and the balance of the pool in use
  (`Balance`); closing a pool makes all of its connections foreign at once.
* `LegacyLockout` (`LockedAfterFailures`): a thread between its read and its write may take the count back to what it
  read, and can do so once. For each x below `LockAfter`, count the threads that can still take it below x: these
  numbers are a configuration (`Configurations`). Every wrong password that is counted leads, lexicographically, to
  a later configuration, and none leads back (`Reached`); there are finitely many, so after `FailuresToLock`
  passwords the account has been locked, whatever the interleaving of any finite set of sessions.

**`TorProofs`.**
* `TorExecutableVerified`: with one download at a time, what is extracted is what was verified.
* `TorProcessTracked`, `LauncherTracksService`: process numbers grow, and `cleanup` loses none; the launcher's
  steps keep the invariant of the process it extends.
* `SwitchKeepsModeServed`: without overlapping switches one at most is in progress, from the active
  mode to the other, and from spawn to the end of a start of p2p a handle is held (`SwitchAlone`).

Proof attempts changed two properties. The bound of `LockedAfterFailures` had been
`LockAfter` times the number of sessions; the invariant that was to prove it does not hold for three sessions,
because the count can be taken back repeatedly. The bound is now the number of configurations. `SessionsSound` had compared sessions whose stored
secret is of another key pair than the clients have; it now asks that the secrets are of the current ones.

**Only model-checked.**
* Liveness (`TaskEnds`, `Disappear`, and the violation `notify_flags`): ENABLED is out of the prover's reach.
* `RelayQueueRedis`, `LegacyNotify`: their runs are violations.

## 5. Not modelled

Bytes: formats, padding, encodings and signatures; they are symbolic. `DRSessionCache`, the second Tor
wrapper of the core package, `relay/database.py`, `initialise_pool_for_local_user`, `drain_pool` and
`sync_pool_to_db`: nothing in the repository calls them. The v3 groups, notification and supporter routers, and the legacy invites, calls,
reactions, polls and backups: single-row reads and writes that no other check depends on. Start-up,
middleware and migrations: they run before any request. Redis errors of the queues with their fall-back to memory,
and the TTLs of Redis keys. The Rust core, the mobile, desktop and web clients: further implementations,
or clients of the interfaces modelled here. `PROJECT.json` gives the reason for each.

Read off the code, without a property:

* the relay waits for no acknowledgement, so a link that is dead but not yet timed out
  swallows what is emitted (`relay/server.py:434`); the creator key in Redis expires after 24 h without a
  refresh (`:330`); a Redis error at enqueue leaves the message in the memory of one worker (`:430`);
* the sync manager recognises duplicates by number alone, across devices (`core/sync.py:76`);
* the refill of a bundle discards the private halves of its keys (`keys.py:278`);
* of two messages whose background tasks overlap the later one may arrive first, and the earlier one is then
  refused (`p2p.py:212`); sealed messages are refused because their sender field is no onion address;
* where `os.replace` fails on an open file the fallback is not atomic (`routers/sync.py:321`;
  `DatabaseKept` is stated for POSIX); the pairing limiter keeps a short window but never consults it;
* two edits that each hold a connection and wait for their second one (`database.py:1067`) wait for each other until
  one times out; `ConnectionsAccounted` counts their connections and says nothing of the wait;
* two attempts of one message that overlap in the receiver are both stored (`p2p.py:212`), once a build
  sends at all;
* with port 9050 taken both port searches of `launch_tor` end at 9051 (`tor_manager.py:469`);
* `launcher.py:653` sets the mode of the dispatcher without the registry, so `ModeServed` is about switches only;
* the docstring of `/messages/history` promises the same result for `before=` and `cursor=`
  (`messages.py:253`); no client is given a cursor, and only `before=` is exposed to a named row that is gone;
* a single-use legacy group invite can be used by two requests that overlap;
* an executable cut off by a kill during extraction is found and used by the next launch;
* a Tor that neither fails nor bootstraps is only noticed by the time-out of the launch; a relay behind an
  onion and the p2p transport share one process handle, so stopping one stops the other's Tor.

## 6. Plan

Modelled, in this order: ratchet, relay, sync, pre-keys, delivery, pairing and chunks; then contacts,
accounts, history, batcher, groups, Tor and launcher, relay extras, and the legacy node. What is left:

1. Redis errors and TTLs in `RelayQueueRedis`, and the relay's promise with them.
2. The ratchet of the Rust core beside `DoubleRatchet`: other limits, the same messages.
