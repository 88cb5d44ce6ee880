# ggrok: a verification project

ggrok forwards TCP services between devices through a relay. A device that runs
`share` publishes a range of ports under a *session*; a device that runs `listen`
with the session's secret opens the same number of local listeners; the relay
authenticates both by client certificate (mTLS), brings their connections together
and copies bytes it cannot read. This directory holds TLA+ models of that program,
the TLC runs that check them on small instances, and theorems about them that the
TLA+ proof system (TLAPS) checks for every value of the constants.

    tlc -workers 2 -config RegistrySlots.cfg MCRelayRegistry.tla    # one run
    tlapm RelayRegistryProofs.tla                                   # one proof module

`PROJECT.json` names every run, every mutant of a definition a property must
notice, the source lines of every definition, the hazards and the theorems.

## 1. The system

### 1.1 Components

| Component | Source | State it keeps | Operations that change it | What makes it correct |
|---|---|---|---|---|
| Registry of sessions | `internal/relay/registry.go` | `sessions`: SessionID to live session; `killed`: SessionIDs banned by an operator | `Register` and `unregister`, `Subscribe`, `AttachSubscriberData`, `AttachPublisherData`, `Kill` | One publisher per SessionID; a slot goes back only from its holder; a ban outlasts the connection it cut; a lookup never returns a dead session |
| Connections and revocation | `internal/relay/connections.go`, `admin.go`, `internal/mtls` | `conns` (every socket, by serial, at most `maxConnections`), `reloadMu`, the revocation set | accept and `track`, `authenticate`, `closeMatchingAfterReply`, `closeAll`, `serveReloadCRL`, `trackedConn.Close` | A revoked serial is cut, even one that authenticates while the list is replaced; the operator is answered; the limit is held and given back |
| Relay: Run and handlers | `internal/relay/relay.go` | one goroutine per connection | `handleConn`, `handleControlConn`, `handleDataConn`, heartbeats | Every goroutine ends and cleans up |
| Certificate authority | `internal/ca/ca.go`, `cmd/ggrok/ca.go` | directories of issued and of revoked certificates; the exported list | `Store`, `Revoke`, `ca crl` (`writeRevokedSerials`) | A revoke moves every certificate of a name; the relay never reads half a list; a revocation is for good |
| Peer | `internal/peer` | whether it ever connected, `attempt`, the control connection | `Serve`, `connect`, the control loop, `retryable` | A lost session returns by itself; a permanent refusal ends it; callbacks keep their order |
| Share | `internal/share` | slots (a buffered channel), a goroutine for each request | `runTCP`, `Handle`, `fulfill`, `reportForwardError` | Slots are those of its requests; it dials only for the authenticated port; a shutdown is quiet and leaves nothing behind that it can close |
| Listen | `internal/listen` | slots, listeners, `serveErr`, a context | `runTCP`, `acceptLoop`, `forward`, `ShutdownErr` | Slots return; the error reported is the cause; nothing stays open |
| Wire protocol | `internal/proto` | the sealed stream's counters, prefixes and errors that stay | hello, ack, attach and control frames; `NewAuthenticatedConn`; `EncryptedConn` | The handshake binds both sides to one port and cannot deadlock; a nonce is spent once; what is read is a beginning of what was written |
| Splice | `internal/streamio` | none | `Splice`: two copies and the close each passes on | A close reaches everybody; a clean one loses nothing |
| Parsing, command line, output | `internal/hostport.go`, `cmd/ggrok` | none that outlives a call | | |

### 1.2 How they interact

    client --TCP--> listen ==data conn==> relay <==data conn== share --TCP--> service
                      |                     |                    |
                      +---control conn------+-----control conn---+
                                            |
                         admin conn (kill, reload-crl)  <-- revoked.txt <-- ca revoke

*Control connections* carry a hello, its one-byte ack, heartbeats, and from the
relay two frames: `ControlRequestData(id, port)` to a publisher, and
`ControlSessionClosed` to a subscriber. *Data connections* carry an attach. A
subscriber's waits in its session's `pending` under a request id; the publisher
reads the request on its control connection and dials a data connection of its own
that names the id; the relay claims the waiting one and splices them. The two ends
then authenticate each other *through* the relay, share dials its service, and the
bytes flow over three splices.

In the relay every connection has a goroutine. They share `Registry.mu`, one
`session.mu` per session, `connections.mu` and `reloadMu`; a handler lets a lock go
and keeps the `*session` it found, so it may work on one that has since been
dropped. `time.AfterFunc` timers expire waiting connections and hard-close peers
that do not read. In the clients, contexts carry cancellation from one goroutine
to the others.

### 1.3 What is hard

*Concurrency.* A publisher's handler and an operator's kill shut one session down at
once; a subscriber looks a session up before it closes and joins after; four
goroutines compete for a waiting connection; a certificate authenticates while the
list that revokes it is being put in force; ShutdownErr samples two sources written
by another goroutine.
*Failure.* Peers that stop reading, lost connections, a relay that restarts without
its memory, a command that stops between two files, resets.
*Ordering.* Control frames against acks; a reload's reply against the close of its
own socket; late answers to requests of an earlier registration; callbacks against
reconnects.
*Timeouts.* Pending expiry against a claim, hard close against a graceful one, the
handshake's deadline, backoff.
*Limits.* `maxSessionPeers`, `maxConnections`, `peer.MaxTunnels`, the end of the frame counter.

`PROJECT.json` lists each of these under "hazards" at the line where it bites, with
the properties that would notice it going wrong.

## 2. Modules

| Module | What it is |
|---|---|
| `SessionSlots` | Abstract: each SessionID is a slot that is free, held by one publisher or banned for good. |
| `RelayRegistry` | The registry and its sessions with the control, data and kill handlers that drive them. |
| `RelayRegistryProperties` | What the registry owes its peers; the refinement of `SessionSlots`. |
| `MCRelayRegistry` | Small instances: the attributes of each connection. |
| `RelayRegistryProofs` | Type correctness and the slot discipline. |
| `RelayShutdownProofs` | The shutdown, and the refinement. |
| `RelayPairingProofs` | The end of a session, the certificate counts and the pairing. |
| `RelayConnections` | The relay's sockets, the limit, admission, reloads and the stop of the process. |
| `RelayConnectionsProperties`, `MCRelayConnections`, `RelayConnectionsProofs` | Its properties, instance and proofs; the proofs of `Revocation` too. |
| `CertificateAuthority` | The authority's directory and its commands, which may stop at every step. |
| `Revocation`, `MCRevocation` | `RelayConnections` and `CertificateAuthority` composed over the exported file. |
| `ServeCalls` | Abstract: the order of callbacks and returns `ServeConfig` documents. |
| `Splice` | `streamio.Splice` as share and listen use it: two copies, each waiting for one connection at a time. |
| `PeerSession` | `peer.Serve` against a relay that fails, restarts, kills and revokes. |
| `PeerSessionProperties` | Its properties, with the refinement of `ServeCalls`. |
| `Share`, `ShareProperties` | The publisher's process: `share.runTCP` with its requests, composed with `PeerSession`. |
| `PeerSessionProofs` | Proofs about `PeerSession` and `Share`. |
| `Listener`, `ListenerProperties`, `ListenerProofs` | `listen.runTCP` with all its goroutines. |
| `Tunnel`, `TunnelProperties`, `TunnelProofs` | One forwarded connection from client to service: handshake, three splices, closes. |
| `SealedStream`, `SealedStreamProperties`, `SealedStreamProofs` | One direction of the encrypted stream that `Tunnel` sends its items through. |

Modules meet where the components do. `RelayRegistry` and `RelayConnections` describe
one process from two sides: for the first a socket is open or not, and *who* closes it
(a reload, the limit, the stop of the process) is the one step that breaks it (`Break`);
the second says who, and for it a handler is an opaque user of the socket.
`PeerSession` has the relay as an environment that may hold a live entry, a dead one, a
ban, or nothing, which is what `RelayRegistry` says of it; `Share` runs `PeerSession`'s steps as its own, and it and `Listener` have an instance of `Splice` for
their forwarded connections. `Listener` has the session's
end as an event; `Tunnel` follows one connection in the state `Listener` calls
forwarding, between ends that `RelayRegistry` has paired, rightly or (see finding
StaleRequest) wrongly. `SealedStream` justifies the channel that `Tunnel` assumes between
listener and share: items read whole and in order, or an error that stays.

### 2.1 RelayRegistry

A step is a critical section of `Registry.mu` or `session.mu`, or a write, and between
two of them any other goroutine may run. `pc` is where each handler is, `sess` the
`*session` it holds on to.

| TLA+ | Code |
|---|---|
| `registry`, `killed` | `Registry.sessions`, `Registry.killed` |
| `closed`, `subs`, `certs`, `pending`, `nextReq`, `streams` | the fields of `session` |
| `doomed`, `farewell`, `notified` | what `beginShutdown` returned and `shutdown` works off |
| `ProveClaim`, `FailClaim`, `RefuseKilled`, `RefuseOccupied`, `Insert`, `AckPublisher`, `Unregister` | `handleControlConn` for a publisher, `Register`, `unregister` |
| `FindSession`, `RefuseSubscriber`, `AddSubscriber`, `TurnAway`, `AckSubscriber`, `Release` | `handleControlConn` for a subscriber, `Subscribe`, `addSubscriber`, `removeSubscriber` |
| `FindForData`, `RefuseSubData`, `AddPending`, `TurnAwayData`, `AckSubData`, `RequestData`, `AbandonSubData`, `Expire` | `AttachSubscriberData`, `addPending` and its timer, `removePending` |
| `AttachPublisher`, `Claim`, `AddStream`, `EndSplice` | `AttachPublisherData`, `claimPending`, `addStream`, the relay's splice |
| `Kill`, `RefuseKill`, `SeverPublisher` | `Registry.Kill` |
| `BeginShutdown`, `CloseDoomed`, `Tell`, `SkipGone`, `HardClose`, `FinishShutdown` | `session.shutdown`, `beginShutdown`, `notifySessionClosed` and its timer, on behalf of the publisher's handler or of a kill |
| `LoseControl`, `GoSilent` | the heartbeat loop returns: its socket broke, or nothing came for too long |
| `Break` | the network, the peer, or another part of the relay closes a socket |

Abstractions. A publisher connection makes at most one session object, so it names the
object. `ReadHello` accepts `ModeTCP` only, which makes the two mode checks unreachable:
mode is not represented. A claim proves the session key or does not (`Provers`).
Pings change nothing; a peer that stopped sending is `GoSilent`. A share answers a request frame it read at most
once, however late (`Answers`), since `fulfill` outlives the control connection; peers are this
program's own, so nobody names a request id it was not sent (the check against that,
`registry.go:431-437`, is in the model and has its mutant, `AttachAnyCert`). The byte
counters, `info` and `connectedFor` are read for display.

### 2.2 RelayConnections, CertificateAuthority, Revocation

`conns` maps every tracked socket to the serial it is known by (`Unnamed` before its
handshake), `revoked` is the set `verifyNotRevoked` reads, `crl` the exported file.
`Authenticate` is one step because `connections.authenticate` looks at the set under
the lock of the scan; replacing the set, scanning, closing what was found, replying and
closing one's own socket are separate steps of `serveReloadCRL`, under `reloadMu`.
`closeAll` and the end of the process are steps too. In `CertificateAuthority` each file
operation is a step, each may fail, and the command may stop after it; the export writes
a temporary file and renames it. Reading the revoked directory takes two steps: what is moved into
it meanwhile may or may not be seen (files there are never changed, so reading them one by one adds
nothing). Reading the issued one is one step, the listing; a file that another revoke moves away
before it is read fails the command (`FailRevoke`), and a certificate that is stored while the
listing runs counts as stored after it. A process that ends takes its batch and its list with it
(`Again`). `Revocation` composes the two over the file alone.

### 2.3 PeerSession and ServeCalls

One `Serve`, as a publisher, a subscriber or a waiting subscriber (`cfg`), with its
relay: `path` (reachable), `slot` (the relay's entry for us: none, ours and live, or a
dead one of ours that its heartbeat has yet to drop), `published` and `barred`.
`serve` is where the loop stands. `ConnectFails`, `ConnectRefused` and `Enter` are the
outcomes of the dial and of the relay's verdict; `Greeted` or `GreetingLost` is the ack that
comes or does not, and `Misread` the control frame that overtook it and is taken for a verdict (finding
AckOrder; `misread` remembers that). A subscriber whose publisher leaves has its connection
closed by the relay for good (`control = "closed"`), whoever publishes next; `Notify` and `NotReady` are `OnReady`/`OnReconnect`; `EndSession` is every
return of the control loop; `GiveUp` and `Retry` are `retryable` with the backoff. The
relay's restart (`PathReturns`) forgets its bans, as `Registry.killed` is in memory. A
revoked peer is cut off by a TLS alert, which a reset may overtake: `Refusals` has both.
`ServeCalls` is the contract of `ServeConfig`'s comments alone: which callback may follow
which, and what may be returned when. `Listener` is built on it rather than on Serve's code.

### 2.4 Listener

`runTCP` (`main`), the goroutine that runs `Serve` (`tail`), an accept loop per port,
and the connections each accepts. `slots` is the buffered channel; taking a slot and
handing the connection to its goroutine are distinct steps; `ShutdownErr` is two: the
sample of `serveErr` and the look at `ctx.Err()`. The calls of `report` change nothing and are left out.

`forward`'s splice is `Splice`, of which `Share` has an instance too. Each copy waits for one
connection at a time: to read from it, or to have it take what was read. A far end that stops
reading leaves a copy in its write (`Stalled`), and only that connection's own end or close can free it.
`Joined`, both copies over, is when `Splice` returns.

### 2.5 Tunnel

Four connections in a row (client and listen, listen and relay, relay and share, share
and service). An end `<<i, side>>` has an `inbox` of at most `Cap` items; a splice is two
copies, each holding at most one item (`held`). `Script(n)` lists what each side of
the handshake reads and writes in order: share authenticates itself first, the listener
answers, and the transcript each proof covers binds the port. `agree` says whether both mean
the same port. A reset may lose what is in flight; a graceful close does not. `cut` remembers that a
deadline, a cancellation or the relay ended the tunnel. The
relay's splice runs as soon as it pairs, the outer ones once the handshake is over.
Cryptography is abstract: a proof verifies exactly when the other side made it for the
same port, and a sealed frame is an item read whole.

### 2.6 Share

`ShareNext` is a step of `Serve` with its relay (`PeerMoves`, which loses the requests nobody
has read when the control connection goes) or one of `runTCP` and the goroutines of its
requests. `slots` is the buffered channel, `fulfilling[q]` where `fulfill` is for a request;
`conn[q]` its "tunnel" and its "local" connection, `copy[q]` the two halves of its splice (section 2.4).

| TLA+ | Code |
|---|---|
| `Ask`, `Handle` | a request frame; the callback, which takes a slot or refuses at once |
| `OpensTunnel`, `TunnelFails`, `DialsService`, `ServiceFails`, `CopyEnds`, `SpliceReturns` | `fulfill` |
| `OthersMove` | the subscriber behind the tunnel and the local service: they send, read, finish or hang up, or do not |
| `CloseTunnel` | `fulfill`'s `context.AfterFunc`, which closes the tunnel whatever `fulfill` is doing |
| `ReportForward` | `reportForwardError`, which asks the context *after* the failure |
| `ReleaseSlot` | the deferred receive from `slots` |
| `RunReturns` | `runTCP` returns and its deferred cancel ends the context of every request left |

`fault` remembers what the context was when a request failed, which the code does not: it is
what `ShutdownIsQuiet` compares a report with.

### 2.7 SealedStream

A writer that seals plaintext in frames of at most `FrameUnits` under a counter, and a reader
that opens them under its own. Plaintext is counted in units named by their place. `StartWrite`,
`WriteFrame`, `WriteFails` and `Exhaust` are `Write` with its loop over chunks; `TakePrefix`,
`TakeFrame`, `ReadEnd`, `ExhaustRead` and `ReadUnit` are `Read`. A failed write leaves any part of
its packet on the wire, spends its counter, and its error stays. `Damage` and `Cut` are what the
relay and two networks can do: lose, repeat, swap or alter what is under way, or end it anywhere.
A frame opens exactly under the prefix and the counter it was sealed with; frames of other
streams, whose keys differ, are `Junk`.

## 3. Runs

Every run checks deadlock off: each connection, socket, request or command is used once
(or a bounded number of times), so an instance stops when all are done. Whether
something is left waiting *then* is what the liveness runs ask. Symmetry is used in one
safety run (StaleRequest, over control connections nothing tells apart), never in a
liveness run.

| Run | States | What it shows |
|---|---|---|
| RegistrySlots | 581,472 | Four publishers of two SessionIDs that share a log tag (one without the session's key), a misfit subscriber, a kill: a slot has one holder, who alone gives it back; a lookup finds live sessions only; a kill is for good and true when the operator reads it; the registry implements `SessionSlots`. |
| RegistryEnds | 1,695,887 | Two registrations of one SessionID with different certificates and ports, a subscriber, a waiting connection, an answer and a kill, one place each: nobody is left behind or admitted late, an unlisted session is being shut, certificate counts are exact, a waiting connection has one owner, a pair belongs to one session and one request. |
| RegistryLive | 205,474 | A publisher, two subscribers of its session, either of which may stop reading, and a waiting connection with its answer: once the session is closed both subscribers are told or cut and both handlers let go, a lost publisher's slot is freed, a waiting connection is paired or closed. |
| ConnectionsReload | 72,885 | Three sockets under a limit of two, two of them operators that reload a list covering everybody, sockets that break, a relay that stops: the reload invariant, the limit, the operator's own reply first, and that revoked sockets, waiting reloads and used places do not stay. |
| RevocationPipeline | 5,811,376 | A revoke and an export that may fail at every step, again and again, beside two operators who reload: what is enforced is what one export read of the directory, all that was there when it began included, a revoke that succeeds is complete, no reload undoes another. |
| Share | 254,116 | Serve in all three roles against a relay that fails, restarts, kills, revokes and may write before its ack, as a publisher with two requests for one tunnel slot and far ends that may stop reading: a lost session returns if its error is not permanent, a kill is final, no attempt leaves its entry behind, callbacks keep the order of `ServeCalls`, slots are those of the requests in progress, and a run that ends closes every tunnel and keeps no connection and no slot but those a service holds on to. |
| ListenerEnds | 901,248 | Two ports, two connections, one slot, a session that connects, drops, gives up or is canceled, listeners that fail, far ends that may stop reading: slots return, the reason reported is the cause, and once the context ends `runTCP` returns and nothing is left but the tunnels the relay's end holds on to. |
| TunnelStreams | 62,047 | One forwarded connection, paired for the same port or not, over sockets that buffer one item: no wrong port opens, a user that was heard gets the whole answer, nothing ends without a reason, the handshake cannot deadlock, a close reaches everybody. |
| SealedStream | 798,554 | Nine units in frames of two under a counter that ends at four, two faults on the wire, a write that fails and a close at any moment: a nonce is spent once, what is read is a beginning of what was written, a stream left in peace never fails its reader and is whole at its end. |
| AckOrder | violation | Finding: a control connection's first frame is not always its ack. |
| StaleRequest | violation | Finding: a late answer claims a connection that waits for another port. |
| ListenerVerdict | violation | Finding: a cancellation nobody asked for is reported. |

### 3.1 Bounds, and why they are enough

- *Connections.* Each hazard of the registry is a race of at most three parties over one
  session: a holder, a challenger and a kill (RegistrySlots); a handler, a kill and a peer, or
  timer, claim and shutdown (RegistryEnds). The runs have each of these, and a second
  SessionID or registration where a mix-up is conceivable. Four publishers let a
  SessionID change hands, be refused and be banned in one behaviour. Every safety property
  of the registry is also proved, for any number of connections. `SubscribersLeaveDeadSession`
  is not, so its run has the two subscribers it takes for one to hold up the other; in
  RegistryEnds the count of `CertsCountSubscribers` is 0 or 1, and the proof covers the rest.
- `MaxPeers` is 1 or 2, so the limit of a session is reached; `MaxReq` bounds the
  request ids of one session object, which the code's 64-bit counter does not reach. In
  StaleRequest two registrations hand out the same ids, which is the point.
- `MaxConnections = 2` for three sockets, `MaxTunnels = 1` for two connections (Listener) or two
  requests (Share): the limits bind. `MaxReloads = 1` per operator with two operators gives overlapping reloads.
- `MaxShift = 1`: attempts beyond it all wait alike, as beyond `reconnectMaxShift`; how long is not modelled.
- RegistryLive has no kill: a kill shuts a session down with the steps of the publisher's handler
  (`ShutdownStep`), and that one of the two always does is `UnlistedIsBeingShut` and `NobodyLeftBehind`.
- `Cap = 1`: a socket that buffers the least delays the most, the worst case
  for deadlock; a transport that buffers nothing, where a write returns when it is read, is not
  covered (the handshake's comment, `auth.go:66`, claims that one too). `Answers = 2` with `Cap = 1` leaves data in every buffer at a close.
- `MaxSeq = 4` with nine units in frames of two: the counter is exhausted in the middle of a
  Write, and partial frames occur; `MaxFaults = 2` lets one fault hide
  another (a repeat and a loss, two swaps).
- Two serials under one name (RevocationPipeline) let a revoke fail half-way.

Where a proof exists (section 4) no bound matters to the property.

### 3.2 Fairness, and why the code justifies it

Weak fairness on the steps of goroutines (the scheduler runs them, and each mutex is held
for a bounded time), on timers (`Expire`: `pendingRequestTimeout`; `HardClose`:
`notifyWriteTimeout`), on the relay's noticing of a dead peer (`LoseControl` when its socket
broke; `DropDead` in PeerSession: the heartbeat timeout), on a mutex's being taken by one
who waits for it (Go's mutex hands over to a starved waiter), and on a reply's being written
or running into `adminReplyTimeout`. Tell, the write of one farewell frame, is *not*
fair: a subscriber may stop reading for ever, and only the timer helps. Nor is `EndSplice`, for the
same reason. No
fairness is given to failures of the network, to users and operators, to kills, to
listeners' failures, or to a new connection. In `Tunnel` the two users keep reading what
reaches them: there is no idle timeout, so a user that neither reads nor closes can hold the
chain, in the code as in the model. The handshake's deadline is not needed for `HandshakeEnds`
and is not fair. In `Share` each goroutine of a request is fair, its two dials because both have
timeouts, and so are the `AfterFunc` and the return of `runTCP`; nobody has to ask. In `Share` and in
`Listener` a copy whose connection has been closed fails, which is fair, and `Splice` returns once
both have; but the far ends of a splice (`OthersMove`) have to do nothing: not to send, not to read what was
written, not to hang up. So a context that ends does not end every splice: it closes one side,
and a copy that is blocked in a write to the other side stays (HalfOpen in section 5). `NothingOutlivesRun` and
`NothingIsLeft` say exactly what may be left: the splices with such a copy, and nothing else.
In `PeerSession` a publisher whose ack is overtaken by a request on every single attempt is put off
for ever; `ComesBack` excepts that, and no other fairness is assumed of the relay's order of writes. `SealedStream` has safety properties only.

### 3.3 Properties by theme

- *Who holds what*: `RegistryInv` (`TypeOK` and `SlotInv`, whose parts are `DeletesOnlyItsOwn`, `ListedIsLive` and
  `KilledStaysOut`), `OwnedByOne`, `PairingInv` (`PairedInSession`, `StreamsAreSplices` and what they
  rest on), `CertsCountSubscribers`, `SlotsAreHeld`, `ShareInv`, `PeerInv`, `LimitHolds`.
- *A decision outlasts the race it is taken in*: `KilledWhenRead`, `ClosedAdmitsNothing`,
  `UnlistedIsBeingShut`, `RevokedAreCut`, `EnforcedWhenTold`, `EnforcesASnapshot`, `RevokedWhole`,
  `RevocationIsForGood`, `OwnReplyFirst`, `OnlyItsOwnPort`.
- *Nobody is forgotten*: `NobodyLeftBehind`, `SubscribersLeaveDeadSession`, `PendingIsResolved`,
  `RevokedLeave`, `NothingIsLeft`, `NothingOutlivesRun`, `EverybodyHangsUp`, `PlacesAreFreed`.
- *Bytes arrive as they were sent, or not at all*: `NonceOnce`, `InOrder`, `WholeWhenQuiet`,
  `WholeWhenHeard`.
- *What must happen does*: `LostPublisherFreesSlot`, `ComesBack`, `KillIsFinal`,
  `ReloadsAreAnswered`, `HandshakeEnds`.
- *What is reported is true*: `EndsWithTheCause`, `KeepsItsCalls`; `EndsForAReason`, of what a user takes from
  an end of stream.

Each property of a passing run has at least one mutant of a mapped definition, a bug
somebody could have written, under which TLC finds it violated; the mutated operators stand
under "Plausible bugs" in the modules and no step uses them.

## 4. Proofs

Assumptions are the named ASSUMEs of the modules: kinds of connection are disjoint, `None`
is none of them, attributes are total, sets counted by `Cardinality` are finite, limits are
natural numbers, a revoke and an export are different commands. TLC evaluates them in the runs. Nothing else is assumed: sizes are arbitrary.

**RelayRegistryProofs.** `TypeCorrect`: the types, with the conjunct `LocalsSet` (a handler's
locals are set before a step uses them), without which `closed[sess[t]]` would be unknown.
`SlotsHold`: `RegistryInv`, the types and `SlotInv`, that is `DeletesOnlyItsOwn`, `ListedIsLive` and `KilledStaysOut` with what
makes them inductive. They are not so alone: that
`unregister` deletes its own entry needs that nobody can have taken the slot meanwhile; that
a listed session is open needs that only a handler that has left the map, or a kill that has
taken it out, begins a shutdown. `SlotInv` adds `KillsNameBanned` (a kill works on a banned
SessionID) and `NewIsOpen`.

**RelayShutdownProofs.** `ShutdownForgetsNobody`: `ShutdownInv` adds to `NobodyLeftBehind` that
an attached subscriber's handler is one that will detach it (`SubsAttached`), that an idle
kill has no session, and that a closed session has no pending entries. The key case is
`BeginShutdown`: closing and listing the subscribers are one step, so whoever joins
later is refused. `ClosedAdmits`: the action property, from the guards under the session's
lock. `RegistryImplementsSlots`: each step of the registry is a step of `SessionSlots` or a
stutter, under `slot[sid] == IF sid \in killed THEN "banned" ELSE registry[sid]`;
`Unregister` maps to the release *of its holder* only thanks to `SlotInv`.

**RelayPairingProofs.** `UnlistedIsShut` and `KilledIsOver` by `EndInv`: an unlisted session whose own
handler still serves it is a kill's to shut (`KillWillShut`), whoever is past `beginShutdown` left it
closed (`ShutWhenPast`), and a publisher that was refused never had a session anybody worked on
(`NeverRegistered`). `CertsAreCounted` by `CertInv`: the count is a cardinality, so each
`removeSubscriber` must find its own subscriber in the set, which `HandlersAttached` says.
`OneOwnerEach` and `PairsStayInSession` by `PairingInv`: an entry of `pending` is kept for a handler that
waits under that id (`PendingWaits`), what a shutdown or a claim took is no longer there and in
nobody else's hands (`DoomedIsTaken`, `LegIsTaken`), a session hands an id out once (`IdsAreFresh`),
and an open waiting connection is in one of these places (`WaitingIsOwned`). The parts
need each other: a claim takes the right connection because its id was handed out once.

**RelayConnectionsProofs.** `ReloadInvariant` (all of `ReloadInv`), `ReloadsEnforce`,
`SocketsAccounted`, `ToldIsEnforced`. The argument: one holder of `reloadMu` (`LockHeld`), which
publishes the set before it scans; a socket authenticates under the scan's lock, so either
it sees the new set or the scan sees it; hence after a scan nobody is in the set
under a revoked serial (`RevokedAreCut`) and whoever is admitted, revoked and open is on the
list of that reload (`ScanWasComplete`), which is empty when the reply is written. `LimitKept` counts
the set; `OwnReplyIsFirst` goes through every step that closes a socket: another reload's cannot run meanwhile, this one's
list does not have its own socket (`EvictionsOwned`), and its deferred cut comes after the reply.
About the pipeline: `SnapshotEnforced` (`SnapshotInv`: every list on its way from the directory to the
set in force is one that an export read of the directory, since the file is read whole and the rename is
atomic), `RevokesWhole` (`AimInv`: what a revoke aimed at is revoked or still in its batch, and
revoked serials are never issued again), `RevokedForGood` (`ForGoodInv`: the set in force is contained
in the list a reload has read, that in the file, the file in the list an export is about to put
there, and all in the directory). The last assumes *one exporter at a time*; the code does
not enforce it (section 5).

**PeerSessionProofs.** `HangsUp`: `PeerInv` is inductive as it stands. `CallsKept`: Serve's
steps map to those of `ServeCalls` by `CallsInv`, which ties Serve's local `connected` to what
was called back last and its `err` to the context. `ShareHangsUp` and `ShareCallsKept` carry both over to
the process that runs Serve beside its requests. `SharesWithinLimits`: `ShareInv` is inductive; that
slots are counted needs that a request is not asked again while it is fulfilled, and that a
shutdown is not reported needs that a context once ended stays so.

**ListenerProofs.** `SlotsHeld`: counting needs that two accept loops never hold one connection
(`SlotInv`). `TrueCause`: `CauseInv` says that the goroutine of Serve reports before it cancels,
so a context that ended without the caller has left an error where `Sample` will find it, and
that a listener is closed only after the context ended.

**TunnelProofs.** Four theorems, for any capacity and amount of data and whatever resets, closes
and deadlines do. `PortsAgree`: the listener is established only when the ports agree, and the
service is dialed only after the listener is established. `PortInv` says which items may be in
each buffer: a proof of the listener's is on its way to share only if the listener has already
accepted share's, and share's proof matches only if the ports agree.

`HeardIsWhole`: what a user reads is the beginning of what the other wrote, and all of it when
the stream ends in an uncut conversation whose other half was heard out. `WholeInv` gives each way
(client to service, service to client) two numbers per connection, the last item that went in
and the last that came out, and says that the items between are in the buffer, in order
(`Wire`; `Splice` for a copy). The data count from 1; the challenge and the proof are -1 and 0,
so the handshake, which one copy carries and no other, fits into the same count: what a side
still has to write or to read of it is owed by the place next to it (`Due`, `Debt`). Where something
may have been lost the count is only an upper bound (`Link`): exact while both ends of a connection
are open, or while the whole way is `Orderly`. The second invariant that it takes is about closes:
on an orderly way a copy is over only after the one before it, with nothing left in its hands or
before it (`Order`). So at an end of stream every place is empty and every count exact, and the
first number is the last. No part is inductive alone: a `Wire` is exact because of `Order`, and
`Order` holds because an orderly source has read what the counts of the way back say was sent.

`EndsAreJustified`: with equal ports and nobody cutting, no step of the handshake fails, and a user
hears an end only of the other's close or of a service that cannot be reached. It rests on
`WholeInv` and adds `Trusting`: a side that waits for the proof finds item 0 next, since its copy has not
begun (`NextInLine`, `ProofIsRight`); its connection cannot have been closed against it, since a
close follows the proof (`AllRead`) and nobody reads a proof before it is written (`OwesNoMore`).

`HandshakeNeverStuck`: in an uncut tunnel where nothing has failed, until both sides are through
one of them can take its next step or the relay can carry an item on (`HandshakeMoves`), for any
capacity and however much the client has sent ahead. Two counts say it. What is under way to a side is
never more than it has yet to read, two items at most, so whoever is told to write has room or the
relay can make some (`WriterMoves`). And what a side has yet to read beyond what the other has yet to write is
under way (`OnItsWay`); by the order of reads and writes, when nobody is told to write, one side
is owed something in that sense (`SomebodyIsOwed`). The run has no such invariant, because there
`HandshakeEnds` says more; the theorem is the part of it that holds without fairness.

**SealedStreamProofs.** `NoncesAreSpentOnce` and `ReadsABeginning`, for any bounds and whatever faults,
by `StreamInv`: the frames sealed form a chain, each beginning where the last ended (`Chained`), the
wire holds frames of that chain and no others (`OnlySealed`), and the reader stands at the end of the
frame it opened last (`ReaderPlace`), so the only frame that opens next is the next of the chain.
`Chained` is not inductive if a failed write could be followed by another: the error must stay.
`QuietStreamIsWhole`: while nothing has happened to the wire it holds the frames from the reader's
counter to the writer's (`InStep`), so each opens, and a reader that stopped stopped at the end
(`StoppedAtEnd`).

### 4.1 Only model-checked

Liveness, which the prover's backends do not reach: `SubscribersLeaveDeadSession`,
`LostPublisherFreesSlot`, `PendingIsResolved`, `RevokedLeave`, `ReloadsAreAnswered`,
`PlacesAreFreed`, `ComesBack`, `KillIsFinal`, `NothingIsLeft`, `EverybodyHangsUp`,
`HandshakeEnds` (of which `HandshakeNeverStuck` is the safety half), `NothingOutlivesRun`, and the
liveness half of `KeepsItsCalls`. Every
safety property of the runs that pass is proved: their invariants, their action properties and
the refinement `ImplementsSlots`. `WholeInv` speaks of numbers that exist, which
TLC cannot enumerate; its consequences `WholeWhenHeard` and `EndsForAReason` are what the run checks.

## 5. What the code does that its documents do not say

**AckOrder.** `Subscribe` adds the subscriber before it writes its ack, and `Register` publishes
the session before its own, so another goroutine can write first. The peer takes the first
byte for its ack: `ControlSessionClosed` reads as `AckPortsMismatch`, which is permanent.
What that does to a client: a subscriber that was connected and loses its publisher once more,
right after it has registered again, exits (`Misread`), although `reconnect.go:92-94` says that Serve returns only
for its context or for what no redial can cure. `ComesBack` therefore speaks of errors that are not
permanent; it does not say that a permanent one is always deserved.
**StaleRequest.** Request ids restart with every session object, and an answer may outlive
the registration it was asked under. The pair it makes may be for two ports;
`PortsAgree` shows that such a tunnel never opens, so the cost is a lost connection.
**ListenerVerdict.** `ShutdownErr` samples an empty channel and then a context that
its own goroutine canceled in between. `TrueCause` shows that this takes a listener
that failed by itself.
**HalfOpen** (no run of its own: `NothingOutlivesRun` and `NothingIsLeft` hold only with this exception,
`Held`). `Splice` promises (`splice.go:35-38`) that a close on one leg reaches the other. A copy blocked in a write to a
service that has stopped reading passes nothing on, and the copy the other way waits for the same
service. No deadline is set on either, and a canceled context closes only the tunnel (share) or only
the local side (listen): the other connection, its goroutines and its slot stay until the far end moves
or the process exits.

Noted while modelling, without a document to hold them to: a kill whose publisher's own
handler wins the race to shut the session down reports no subscribers notified; a
restarted relay forgets its bans; `AckDenied` answers both a false claim and a ban; two exports at once may
leave the older list in force (`RevocationIsForGood` is checked and proved for one at a time); a stream
cut by anybody exactly between two frames ends for its reader like one that was closed; an
issued certificate that a stopped command left half written makes every later revoke fail until
somebody removes it (`ca.go:448`);
half-closed streams are not carried, since a splice closes both directions of a side.

## 6. What is not modelled, and why

- Parsing of hosts, ports, tokens and flags, output, configuration files: no state that
  outlives a call.
- Cryptography: keys and their derivation, certificates, transcripts, the cipher. A proof verifies
  or does not; a frame opens or does not.
- The heartbeat loop's frames: its outcome is (`LoseControl`, `GoSilent`, `DropDead`).
- Frames without plaintext: `Write` never makes one, and `Read` would skip it.
- `List`, byte counters, durations: read for display.
- Waits in milliseconds: only their order matters, and timers may fire at any time.

## 7. Plan

Done, in this order: the registry with its refinement; its shutdown and pairing; the
connections and reloads; the certificate authority and the pipeline; the peer session;
the listener; the splice that it and the publisher share; the tunnel; the publisher's process; the sealed stream; proofs of each, the
pairing and the revocation pipeline included.

What is left:

1. `Pipe`: an abstract pair of streams between client and service, implemented by `Tunnel`:
   `WholeWhenHeard` and `EndsForAReason` as one refinement.
2. `RelayRegistry` composed with `RelayConnections`: who causes each `Break`.
3. The heartbeat loop by its frames and deadlines, instead of by its outcome.
