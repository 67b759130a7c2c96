# cloudflared in TLA+

This directory specifies and verifies cloudflared: the supervisor and its HA
connections, the edge addresses and protocols they use, the configuration they
serve and what it means, the requests, UDP sessions and pings they carry, the
process around them with its updater, service mode and log streaming, the
commands a user gives, and the h2mux library. Every definition is translated
from the Go source; `PROJECT.json` maps each one to its lines.

## 1. The system

cloudflared opens several connections (HA connections, 4 by default) from
the user's network to two regions of Cloudflare's edge and proxies requests that
arrive over them to local origins.

| Component | State | Operations | Talks to |
|---|---|---|---|
| **Supervisor** (`supervisor/supervisor.go`) | tunnels active, waiting, connecting; backoff; shutting down | `Run`, `initialize`, `startFirstTunnel`, `startTunnel` | starts one goroutine per tunnel, which runs *tunnel server* and sends its error on an unbuffered channel; tunnels signal that they connected |
| **Tunnel server** (`supervisor/tunnel.go`) | per connection: protocol, fallback flag, backoff, address retries | `Serve` | takes addresses from *edge addresses*, serves a *connection*, asks the *tracker* and the *protocol selector* which protocol comes next |
| **Edge addresses** (`edgediscovery`) | who uses which address; per region the active set (IPv6 or IPv4) and a timeout | `GetAddr`, `GetDifferentAddr`, `GiveBack` | called by every connection, under one mutex |
| **Backoff** (`retry`) | retries, reset deadline | `BackoffTimer`, `SetGracePeriod`, `ResetNow` | embedded in supervisor and tunnel server |
| **Connections** (`connection/{control,http2,quic}.go`) | registration, control stream, streams | `Serve`, `ServeControlStream`, stream handlers | report to the *observer*, serve requests through the *orchestrator*'s proxy |
| **Observer and tracker** (`connection/observer.go`, `tunnelstate`, `metrics/readiness.go`) | bounded event channel; per connection: connected, protocol | `sendEvent`, `dispatchEvents`, `OnTunnelEvent`, `HasConnectedWith`, readiness | events from connections, read by the tunnel server and by Kubernetes probes |
| **Orchestrator** (`orchestration`) | configuration and its version, the current proxy, the running origins | `UpdateConfig`, `GetOriginProxy`, shutdown | updates pushed by the edge over any connection; requests read the proxy without a lock |
| **Ingress rules** (`ingress`, `config`, `ipaccess`) | the rules with their services and settings | `ParseIngress`, `NewIngressCLI..`, `FindMatchingRule`, `GetConfigJSON` | read by every request; sent to the edge, which may send them back |
| **Datagram sessions** (`datagramsession`, `connection/quic.go`) | map from session ID to session; per session a socket, two goroutines, a close channel | register, serve, unregister, shutdown | RPCs from the edge; one event loop per QUIC connection |
| **Proxy, streams** (`proxy`, `stream`, `carrier`, `websocket`, `quic/{quic_protocol,safe_stream}.go`) | per request: handler, response head, two copy goroutines, write deadline | `ProxyHTTP`, `ProxyTCP`, `Pipe`, `WriteRespHeaders`, `Close` | the edge's stream on one side, the origin on the other |
| **ICMP** (`packet`, `ingress/icmp_*`, `quic/datagramv2.go`) | packet channel per connection; flows, echo IDs, sockets of the process | demux, route, register, clean up, reply | QUIC datagrams, the network |
| **Process** (`cmd/cloudflared/tunnel/cmd.go`) | four goroutines, `errC`, contexts, grace period | `StartServer`, `waitToShutdown` | supervisor, updater, metrics, DNS proxy |
| **Updater** (`cmd/cloudflared/updater`) | the binary, `.new` and `.old` | `AutoUpdater.Run`, `Apply` | update service, file system, the process that restarts |
| **Service mode** (`config/manager.go`, `watcher`, `overwatch`, `cmd/cloudflared/app_*.go`) | the watched file; services by name and hash | read, watch, `Add`, `Remove`, `Run`, `Shutdown` | file system, listening sockets |
| **Management** (`management`, `cmd/cloudflared/tail`) | sessions in the logger, their bounded buffers, idle timers | start, stop, stream, write | log events of the whole process; `tail` and the dashboard |
| **Access** (`token`, `carrier`, `sshgen`, `cmd/cloudflared/access`) | token files, lock files, key files | fetch, save, lock, poll | the identity provider; other access processes |
| **Subcommands** (`cfapi`, `cmd/cloudflared/tunnel/*subcommand*`) | the account's tunnels, routes, virtual networks; credentials files | create, run, delete, cleanup, token, route | the API; other commands |
| **h2mux** | windows, buffers, ready list, stream map, heartbeats | handshake, serve, open, read, write, abort | its peer; only the `BooleanFuse` of this package is still used by the rest |
| RPC encoding, DNS resolving, logging, metrics, tracing, TLS | - | - | I/O |

What is hard here: tunnels fail, reconnect and connect in any order while the
supervisor counts them; a shutdown or cancellation meets any of these steps;
addresses are rotated while regions change their address family; the next
protocol depends on three counters and on a tracker fed through a lossy
channel; the events of a dead connection overtake those of its successor;
configurations arrive late, twice and out of order while requests read the proxy
without a lock; a session's end races its unregistration; an origin or an edge
that stalls holds a copier that others wait for; a cleanup meets a flow in
use; a log reader is preempted while it starts; a binary is replaced by a
process that may die in between; a file changes while it is being read; two
processes share lock files; a call whose answer is lost was made all the same;
a writer sleeps while the window it waits for is on its way. The `hazards` of
`PROJECT.json` list these at their lines with the properties that would catch
each going wrong, and say where none does.

## 2. Modules

| Module | Models | Proofs | Instance |
|---|---|---|---|
| `EdgeAddrs` | `edgediscovery.Edge`, `allregions.Regions`, `Region`, `AddrSet` | `SupervisorProofs` | `MCSupervisor` |
| `Backoff` | `retry.BackoffHandler` as operators | | |
| `Supervisor` | `supervisor.Supervisor` and its goroutines (uses `Backoff`) | `SupervisorProofs` | itself, `MCSupervisor` |
| `ConnTracker` | `Observer`, `ConnTracker`, `ReadyServer` | | |
| `TunnelServer` | `EdgeTunnelServer.Serve`, protocol selectors, control streams (extends `ConnTracker`, `Backoff`) | `TunnelServerProofs` | `MCTunnelServer` |
| `ConfigService` | abstract: what the configuration service promises | | |
| `Orchestrator` | `orchestration.Orchestrator` | `OrchestratorProofs` | `MCOrchestrator` |
| `Ingress` | parsing, matching and round trip of the rules | `OrchestratorProofs` | `MCOrchestrator` |
| `Management` | log streaming sessions and their clients | | `MCOrchestrator` |
| `DatagramSession` | `datagramsession` and the session RPCs of `QUICConnection` | `DatagramSessionProofs` | `MCRequests` |
| `Requests` | the requests of one connection, edge to origin and back | `RequestsProofs` | `MCRequests` |
| `ICMPProxy` | packet routers, flows of Linux, macOS and Windows | `DatagramSessionProofs` | `MCICMP` |
| `Updater`, `Process` | the auto-update; `StartServer` (extends `Updater`) | `ProcessProofs` | `MCProcess` |
| `ServiceMode` | `FileManager`, `AppService`, `AppManager`, forwarder and resolver | | `MCProcess` |
| `Access` | the access commands, token and lock files | `ProcessProofs` | `MCProcess` |
| `TunnelStore`, `Commands` | the account (external) and its client; the subcommands (extends `TunnelStore`) | `CommandsProofs` | `MCCommands` |
| `H2Handshake`, `H2Stream`, `H2Mux`, `H2Serve`, `H2Heartbeat` | h2mux: settings; a stream as a value; two muxers (extends `H2Stream`); the goroutines of `Serve`; pings | `H2Proofs` | `MCH2Mux` |

`MCSupervisor`, `MCOrchestrator`, `MCRequests`, `MCProcess` and `MCH2Mux` join specifications
that belong together but share no state. Their variable `part` says which of
them a behaviour is about; the other parts stay where they start, or are over
from the start when they would otherwise owe a step by their fairness. (In
`MCSupervisor` only the supervisor has fairness, and only its properties need it.)

Definitions named `...Bug` are the definition that follows them with a
plausible mistake. No specification uses them; they show that the properties can
fail (section 5).

### EdgeAddrs
Each exported method of `Edge` holds one mutex, so each call is one action.
`usedBy` is the union of the address sets' maps; `primaryIsActive` picks the
active set; `timeoutExceeded` replaces the clock comparison of `GiveBack`. Map
iteration picks any unused address, as does the model. `edgeAddr` is the local
variable of `Serve`: the only caller of `GetDifferentAddr` is `Serve`, after an
attempt, with `hasConnectivityError = true`, and it returns right after. The
lists of addresses that DNS returned are constants.

### Supervisor
`phase` is the program counter of the supervisor's goroutine through `initialize`
and `Run`. A `select` is one action per case, enabled when its channel is ready.
A tunnel's goroutine is inside `Serve`, blocked with its error on the unbuffered
`tunnelErrors` channel, or gone. `link` follows one start of a tunnel: nothing,
fused by the registration, signal notified. The fuse and the notification are
separate because another goroutine makes the second and may be late. Errors are
reduced to the five classes that `startFirstTunnel` and `Run` tell apart.

### TunnelServer and ConnTracker
One attempt of one connection: `Serve` (gets an address), `Registered`,
`Unregisters`, `ServeTunnelReturns` with one of the error classes the attempt
can end with (`Outcomes`), then the wait of `Serve` which ends by cancellation,
shutdown or timer, the last applying `selectNextProtocol`. HTTP2 and QUIC
differ in how they end: QUIC's error group waits for the control stream, so its
`Unregistering` event always comes first; HTTP2's `Serve` returns when the
connection breaks and leaves its control stream handler behind. `late` follows
one such handler per connection. The tracker gets its events through the bounded
`events`; `dropped` is a history variable. The kind of protocol selector and
whether the network lets QUIC through are chosen at the start (`selector`,
`quicWorks`).

### Orchestrator and ConfigService
`UpdateConfig` is split at the points where something that takes no lock can
look or act: the check of `shutdownC`, starting the origins, storing the proxy,
storing the configuration, closing the previous channel. Each attempt makes a
new `proxyShutdownC`, numbered by a generation. `ConfigService` says what matters
to a request: one version at a time, only newer ones, none after the close; the
mapping takes the served version from the stored proxy.

### Ingress
A configuration file or a command line is validated (every early return of
`validateIngress` and of the command line's constructors is a case), becomes
rules, and is asked for. A hostname is the sequence of its labels, a pointer of the raw
configuration a sequence of at most one value. Each field of `originRequest` follows one
of a few patterns, and one field stands for each pattern. `GetConfigJSON` turns
the rules in use into a raw configuration again, with durations in whole and
fractional seconds, and the edge may send that back. `FirstMeantRule` compares
the code's search with a reference that reads "meant" from the documentation of
rules: the first rule whose hostname, wildcard and path admit the request.
`IngressAssumption` says which raw configurations, flags and requests there are,
and what `idna` does to a label: it makes no wildcard of one that is none.

### Management
Every connection to `/logs` has its handler, a reader and zero or more
`streamLogs` goroutines, counted by where they are because each `start` creates
one. The logger lists sessions in a sequence, as its slice does, and a session
may be listed twice. Buffers hold numbers of events; which events a session's
filters and sampler want is chosen anew at every `Write`. `Tails` are clients that
behave as `cloudflared tail`; the others may send any event.

### DatagramSession
The manager's event loop handles one event per action. A session has a `Serve`
goroutine (part of `pc`), a `reader` of the socket and a `closeChan`, whose
capacity and contents are modelled because writes to it block. The edge may
register an ID a second time; `OwnsID` singles out the sessions to which that
has not happened. Payloads and the activity timestamps
are left out: idleness may be found at any time.

### Requests
One stream from the edge: what it asks for (`DetermineHTTP2Type`, or the QUIC
preamble), the rule's kind of service, the dial of the origin, the response head
(`reply`; at most one may be written), the body, the upgrade and the two copiers of
`stream.Pipe` with the channel in which they mark their end, the deadline and
lock of `SafeStreamCloser`, and the unwinding of the handler. The edge, the origin and the network may end, break or
stall anything at any time. Bytes are not state: of the origin's answer nothing
was delivered, the whole, a part that was cut off, or what went through a pipe.

### ICMPProxy
`Demux` puts packets into the bounded channel of their connection, one
`PacketRouter` per connection takes them out, and the one router of the process
hands them on. `GetOrRegister` and `GetOrAssign` are separate steps on macOS, as
are looking up and using a flow. On Linux a flow owns a socket and a goroutine,
on macOS an echo ID out of `NumEchoIDs`, on Windows a request waits for its
answer. The network may answer a request at any later time, also after its flow
is gone. `revisited` is a history variable, not state of the code: the echo IDs that
were given out again while a flow, a request on its way or an unanswered packet still used them.

### Process and Updater
`StartServer` is a program counter; the DNS proxy, the updater, the metrics
server and the daemon are goroutines that end by sending on the unbuffered
`errC`, which `waitToShutdown` and, after it, the discarding goroutine receive.
`Updater` performs one file operation at a time; each may fail, and the process
may be killed between any two. A restart runs what is on disk. This is the way
of Linux and macOS: on Windows a batch file replaces the binary (section 7). A
grace period that is too long is refused by `prepareTunnelConfig`, before anything
but the DNS proxy and the metrics server runs; the second call of `gracePeriod` after
the daemon's start can no longer fail. A daemon may be one whose supervisor never
started its tunnels (`DaemonNeverStarted`): it does not return.

### ServiceMode
The file is written at any time while `FileManager` reads it and while
`actionLoop` works through a configuration it was sent. Every service ever
started is an instance with a state of its own, so that one which was replaced
and did not stop is seen.

### Access
Each process runs one command. A step that makes two system calls with a gap another
process can act in is split (`half`): truncating and writing, testing for a lock and
creating it. A token is its worth. Signals and kills come at any time; a
killed process leaves its lock, a signalled one removes it.

### TunnelStore and Commands
The account's tables change as the API is asked; a request may be refused, or be
applied with its answer delivered, unreadable or lost. `Commands` runs two
commands at a time, each call and each access to a file a step. Which
credentials file is found, and in which order the candidates are tried, follows
`credential_finder.go`. `IsCommand` says which command lines pass the checks of their
arguments; the tunnels of a `delete` or `cleanup` are in the order in which `splitUuids`
puts them, and `findIDs` asks for one name per step. The account's default network is
a variable: `vnet add` and `vnet update` with `--default` move it, the backend does not
delete it, and a route command that names no network uses what it is when the backend
handles the call. A network is given by ID, by name or not at all; `run` gets its credentials
from a token, from `--credentials-contents`, from the file asked for or from the one found.

### H2Handshake, H2Stream, H2Mux, H2Serve, H2Heartbeat
`H2Stream` has every method of `MuxedStream` as an operator on a record: they
all hold the stream's lock. `H2Mux` has two muxers with their readers, writers, stream
maps and ready lists, and the applications that use them; the writer looks at
the read side of a stream after it has sent END_STREAM, in a separate step.
`H2Serve` is one call of `Serve`: its reader, its writer, the goroutine that updates metrics
and their parents, to which a loop hands its result with a send that does not
wait: when the parent is not there yet the result is lost. `InFlight` adds up the bytes, or the window updates, of a stream's frames on their way.
`H2Handshake` encodes and decodes the 32 bit compression setting and lets the
other end be something else. `H2Heartbeat` is the idle timer, the pings and
their acknowledgements, on a connection that may go silent.

## 3. What is checked

| Run | Instance | Properties |
|---|---|---|
| `supervisor` | 3 tunnels | `Bookkeeping`: `tunnelsActive` counts the live goroutines; no tunnel is lost, started twice or leaked. `GraceOnlyWhenAllConnected`: the backoff is forgiven only then |
| `supervisor_edge` | parts *supervisor* (3 tunnels requested, 2 available, static edge), *addresses* (4 connections, 6 addresses, dual stack, one region prefers IPv4) | `RunStops`: `Run` ends after a cancellation or shutdown. `FailedIsRetried`: a failed tunnel is served again. `AddrsSound`: no address is shared or kept twice, a connection dials its own, only IPv6 regions leave their primary set. `EnoughAddrs`: none goes without while there are enough. `AddrSteps`: a rotation moves on, nobody's address is taken by another's call |
| `tunnel_server` | 2 connections, default selector, channel of 3, addresses may run out | `ReadyIsHonest`: readiness is not overstated, until an event is dropped |
| `tunnel_server_blocked` | 1 connection, every selector, with and without QUIC, channel of 2 | `ServeSound`: the fallback flag means HTTP2, nil is only returned in a shutdown. `SwitchNeedsReason`: so has every change of protocol, and one the user picked never changes. `BlockedQuicFallsBack`, `ServeStops` |
| `orchestrator` | parts *orchestrator* (2 updaters, versions -1..2), *ingress* (about 2,000 configurations and command lines), *management* (2 clients) | `ServesLatest`: lock-free readers get a running proxy, only the latest runs, state agrees outside the lock. `ImplementsConfigService`. `OriginsStop`. `FirstMeantRule`: a request finds the rule it should. `MigrationKeepsOrigins`: a configuration that went to the edge and back serves the same, behind the same access handlers and policies, except for those only the global settings asked for. `GoneClientFreesSession`, `PreemptedIsClosed`: a client that is gone, or was preempted, does not keep the one slot |
| `requests` | parts *requests* (1 request, HTTP2 or QUIC), *sessions* (2 sessions, 2 IDs, reuse) | `HonestOutcome`: what the edge was told agrees with what the origin did. `CleanTeardown`: no origin connection is left, nothing is cut off that was accepted before a shutdown. `PipeWindsDown`. `SessionsSound`: nobody blocks on a `closeChan`, no ended session stays in the map, the gauge covers the map, a session is closed locally only by itself. `SessionsEnd`, `UnregisteredEnds` |
| `icmp` | 2 connections, 2 sources, every platform, 2 echo IDs, 3 packets | `FlowsSound`: a reply reaches the one who asked; no socket or echo ID is lost. `QuietFlowsEnd` |
| `icmp_replaced` | the same with 4 packets | **finding** (section 6): `UniqueEchoID` does not hold |
| `h2mux` | a window of 2 that grows to 3, frames of 1, 1 stream, 2 heartbeats; all pairs of roles and compressions | `FlowControlSound`: both ends agree on every window and no writer sleeps on work. `HandshakeSound`: two ends that both finish agree. `HealthyNotDropped`. `DeadConnectionNoticed`: both ends drop it, their loops end, nobody is left waiting in `OpenStream`, `Write` or `Read`, and `Serve` returns |
| `process` | parts *tunnel* (every set of flags, 2 releases), *service* (4 configurations, 2 writes), *access* (2 processes, 5 pairs of commands) | `SomeGoodBinary`: whatever dies when (Linux, macOS), a whole binary is on disk. `ShutdownCompletes`, `UpdateTakesEffect`. `ServicesConverge`: the last write is applied and removed services stop. `LockSound`: nobody logs in needlessly and no lock is left. `CommandEnds` |
| `commands` | 2 commands at a time out of 3, 2 names, 3 tunnels, 3 virtual networks | `CreatedIsRunnable`: a tunnel that create reported can be run. `NoOrphanTunnel`: a create that failed leaves none behind. `OnlyWhatWasAsked`: no credentials file is removed but of a tunnel deleted, no route changes but in the network given or, without one, the default of that moment |
| `commands_garbled` | the same, with unreadable answers | **finding** (section 6): `CreatedIsRunnable` does not hold |

**Bounds.** Three tunnels are the smallest number with a waiting, a
connecting and a running one at once. Four connections have as many addresses as
they need while the IPv6 set of the second region is active and one too few
after it fell back, so both "enough" and "none left" happen. Two connections
share a tracker; more only repeat what two do to each other. Retry limits of 1 or
2 distinguish "some left" from "exhausted" and reach the reset. A channel of 2 or
3 events instead of 16 overflows often. `tunnel_server` is cut off
(`NoEventDropped`) where an event is dropped: `dropped` stays true and
`ReadyIsHonest` then claims nothing. Two updaters suffice for reordering, since
the lock admits one at a time; `Generations` bounds the number of attempts and
only gates the arrival of new updates. Up to three rules show which of several
matching ones is found; each setting is set at neither, either and both levels. Two
management clients are of one actor or of two, which is what the limit tells
apart; a buffer of 1 overflows at once. Two sessions let an ID be registered while
its old session is still ending; the proofs are for any number. Requests
share nothing but the connection, so one at a time is enough. Three packets with
two sources let a flow be replaced, cleaned up and asked for again, and make 2 echo
IDs come round; with 4 an ID comes round under a flow that was replaced. A window of 2 lets the receiver batch its
updates and, since half of it can be used up, grow it to 3; more bytes to send than the window holds make the sender wait for an
update and be woken. Two releases allow an update after an
update. Two writes let the file change while the former content is applied.
`MaxRetries` 1 and `PollAttempts` 2 reach both "try again" and "give up". Three
commands are a create, something that disturbs it and a later command that
looks at the result. Symmetry is used only in runs that check safety.

**Deadlock** checking is off where the system may stop: `Run` has returned,
every `Serve` has returned nil, every session, request, packet or command of the
bound is used up, every process has exited.

**Fairness.** *Supervisor*: its goroutine runs on, and a `select` case that stays
ready is taken because Go picks at random among ready cases; `Serve` returns
after a cancellation or a shutdown, which `ServeStops` of `TunnelServer` shows
of the code; otherwise it may serve for ever. *TunnelServer*: dialling and registering
end by their timeouts, the backoff timer fires, the supervisor calls again
(`FailedIsRetried`). A registered connection need never end by itself, and
nothing says the event dispatcher is quick. *Orchestrator*: the holder of
the lock runs on; Go's mutex hands itself over to a starving waiter, hence
strong fairness for `waitToCloseLastProxy`. *DatagramSession*: goroutines run on,
reads of a closed socket return, calls to the manager end by their timeout;
idleness and the end of the connection are not assumed. *Management*: goroutines
run on; a client need not send, read or leave. *Requests*: handlers and copiers
run on when what they wait for is there; the lock of `SafeStreamCloser` and the
unwinding compete with a writer for a mutex, hence strong fairness; a stalled edge
need not recover, and an origin answers only once the request is cancelled.
*ICMPProxy*: the cleanup ticks, listeners whose socket was closed return, routers
run on; the network need not answer. *Process*: goroutines run on; the updater,
once its context is cancelled, chooses that in its `select` rather than the ticker
in the end (strong, since the two compete); the daemon returns once its context
is cancelled (`RunStops`), unless it is one that never started its tunnels. *ServiceMode*: `FileManager`, `actionLoop` and the services' goroutines run
on; writes are not assumed. *Access*: a process runs on; tokens need not expire
and nobody needs to log in, for the polls are bounded. *H2*: readers, writers and
woken applications run on and the idle timer fires; applications need not act.

**Exceptions written into the properties**, each a behaviour of the code that
section 6 describes. `RunStops` excludes the states in which `initialize` returned without an error
and without having started the tunnels (`NeverStarted`, section 6), from which
`Run` does not return. `BlockedQuicFallsBack` is
about the default selector and needs an address to be left: the remote selector
may go on naming QUIC just when the fallback is reconsidered.
`ShutdownCompletes` excludes a `StartServer` that waits for a DNS proxy which has
given up (`StuckInStartup`), and a wait for a daemon that never started its tunnels, when everything
else has ended (`WaitsForDaemon`); `LastWriteApplied` excludes a file that cannot be read or is no
longer watched, and a loop that hangs on a failed resolver (`Blocked`);
`PipeWindsDown` excludes, of the writes to the tunnel that a stalled edge holds up, the one a
websocket service waits for, and over HTTP2 the copier that stays in it after its handler has
returned; `DeadConnectionNoticed` a loop of h2mux that ended before its parent was ready to take the
result;
`NoNeedlessLogin` the time after two processes came to hold the lock at once, which
testing for the file and then creating it allows; `CreatedIsRunnable` a
`--credentials-file` given to two commands; `FlowsSound` and `QuietFlowsEnd` the
echo IDs that were given out again before their former use was over (`revisited`). `MigrationKeepsOrigins` speaks of configurations that
the edge's copy is accepted of: a sub-second duration makes it unreadable. It lets a migration add what
the global settings asked for and the local rules did not enforce.

## 4. What is proved

TLAPS proves the following for every value of the constants allowed by the
named assumptions: `ConnsAssumption`, `AddrsAssumption`, `OrchestratorAssumption`,
`SessionAssumption`, `IDsAssumption`, `ConnectionsAssumption`, `OptionsAssumption`,
`NilAssumption`, `QueueAssumption`, `ServerAssumption`, `EchoIDsAssumption`,
`VersionsAssumption`, `ProcsAssumption`, `HeartbeatAssumption`, `WindowAssumption`, `MuxAssumption`,
`IngressAssumption` and `CommandsAssumption`. They say
that counts are numbers, that a channel, a table or a window has room for one entry, that
the values standing for "none" are not members of the sets beside them, and, the last
two, which inputs there are (section 2). Each invariant named here
was first an invariant of a TLC run. Every safety invariant and every action property that a passing
run checks is stated by one of these theorems; the rest is liveness.

**SupervisorProofs** (`EdgeAddrs`): `BookIsSound` (`AddrsSound`, from `EdgeTypeCorrect`, `OneAddr`,
`OwnAddr`, `FallbackFromV6`), `EnoughForAll` (`EnoughAddrs`), `StepsAreSound`
(`AddrSteps`, from `RotationMoves` and `NobodySteals`). The invariant is the conjunction of the stated
properties. `OneAddrPerConn` is what makes `DialsOwnAddr` inductive: the address
`GetDifferentAddr` finds for a connection is the one its `Serve` holds, and what makes
`NoTheft` hold: the address an operation marks was unused, and the one it frees
was the caller's. The lemma
about `GetUnusedAddr` says that what it returns is unused and differs from the
excluded address. `EnoughAddrs` is a pigeonhole argument: a connection without an
address and no unused active address would make "used by" an injection from the
active sets into the other connections.

**OrchestratorProofs**: `LatestServed` (`ServesLatest`, from `TypeCorrect`,
`ServedRuns`, `LatestRuns`, `Agreement`) and `Refinement` (`Spec` implies `ConfigService`'s). The properties speak
of the times when the lock is free or of what a lock-free reader sees, and are not
inductive: the invariant follows the holder of the lock through its phases
(whose generation is running but not yet stored, stored but not yet recorded)
and adds that every generation in use is below `nextGen`, that an update past its
check is newer than `currentVersion`, and that only the holder is past `Lock`. The last
proxy is closed only under the lock, so no update is half done at that point,
and after it none passes the check of `shutdownC`; this is the step that makes the
refinement hold.

**OrchestratorProofs** also proves `RoutesToMeant` (`FirstMeantRule`) and `MigrationIsFaithful`
(`MigrationKeepsOrigins`) of `Ingress`, for any configurations, flags and requests. The invariant
(`IngressInvariance`) is what `validateIngress` and the command line's constructors ensure of
the rules in use: there is a rule and the last one is a catch-all, so the answer of last resort in
`FindMatchingRule` is a rule that matches; the punycode form is that of the hostname; the kept
`ipRules` are valid; and a service is the one that its own text denotes (`NamesItself`). The last two make the
round trip work: `String` of a service parses to that service again, a list of rules
without invalid ones is kept as it is, and each setting left out because it equals a
default comes back as that default.

**DatagramSessionProofs**: `SoundSessions` (`SessionsSound`, from `TypeCorrect`,
`NeverBlocks`, `NothingStale`, `OwnClose`). `CloseChanHasRoom`
needs an account of who has written to a session's channel: the reader at most once,
when it ends; the event loop at most once, when it removes the session from the map, which
it cannot do twice because a session is entered once. The invariant bounds the
channel's length by these two contributions and ties the map's entries to the
session's ID and state. It holds with reused IDs. `TypeOK` says that the gauge
of active sessions is never negative; that is inductive only as `GaugeInv`, which
keeps the gauge at or above the number of IDs in the map (an overwritten entry
and a shutdown only make it too large). `LocalInv` follows a local close from
the session that asks for it to the entry it removes: while the ID was not reused, the entry
is that session's.

**SupervisorProofs**: `BookkeepingSound` (`Bookkeeping`) and `GraceIsEarned`
(`GraceOnlyWhenAllConnected`). `tunnelsActive` counts goroutines in `Run`'s loop only, so the
invariant says phase by phase which tunnels `initialize` has started (`PhaseInv`),
that nothing waits or is counted before the loop (`BeforeLoop`), that tunnels wait exactly while
the timer runs (`WaitingInv`) and that nothing ends with nil before the shutdown
(`ShutdownInv`). The counter is a cardinality: each of the places that adjust it
adds or removes one member of the set of live goroutines. The grace is
an action property; it follows from `ConnectInv`: a live tunnel has connected since its last start,
or `Run` still waits for it.

**TunnelServerProofs**: `ServeIsSound` (`ServeSound`), `ReadinessIsHonest`
(`ReadyIsHonest`), `SwitchesHaveReason` (`SwitchNeedsReason`). `ReadyIsHonest` speaks of an
empty channel; the invariant (`HonestInv`) speaks of any: the last event of a
connection in the queue, or the tracker if there is none, says connected only of one that is
registered or whose lost HTTP2 connection left a handler that will still say otherwise.

**RequestsProofs**: `OutcomeIsHonest` (`HonestOutcome`), `TeardownIsClean`
(`CleanTeardown`), without assumptions. The invariant follows a request through its handler: what may
have been sent at each stage (`StageInv`), which service serves which type (`RuleInv`), when an
origin connection is open (`OriginInv`), and that over HTTP2 no handler runs once the
connection is closed (`DrainInv`).

**DatagramSessionProofs** also proves `FlowsAreSound` (`FlowsSound`) of `ICMPProxy`. Linux
(`PortInv`): all that refers to a port (flow, listener, unanswered packet) has its listener's key, since
the kernel's rover gives each socket a new port; its wrapping round after 65535 sockets is not modelled. macOS: an ID is assigned to one
key at a time (`MapInv`), and outside `revisited` all users of an ID have the same key
(`OneUser`), because only `getOrAssign` adds a user with another key. The attempt
to prove this without `revisited` failed, and TLC then showed why (section 6): with as many IDs as
packets the model had never let them come round.

**H2Proofs**: `HandshakeIsSound` (`HandshakeSound`) and `HealthyIsKept`
(`HealthyNotDropped`). Of the handshake the invariant says what the frames on their way
tell of their sender (`SentInv`) and what an end that got one knows of the other (`HeardInv`); the
lemma `NegotiatedFact` says that the 32-bit compression setting carries a preset
faithfully. For the heartbeats, `AnswerInv` says that after one unanswered heartbeat the other end
holds its stamp or is about to, and after two an answer is on its way or owed. It needs `MaxHeartbeats >= 2`, a hypothesis of the theorem, since one ping alone is
not answered; the default of `heartbeat-count` is 5.

**H2Proofs** also proves `FlowControlHolds` (`FlowControlSound`) of `H2Mux`, for any
windows, frame sizes, numbers of streams and bytes to send. The invariant (`MuxInv`) is kept
stream by stream. What a side may still send, has on its way and is being granted fits
the peer's receive window, and what is on its way does so even when the sender has forgotten the
stream (`Room`: the property speaks of tracked streams only, and a forgotten stream's last
bytes must not overrun the window either). What has been read, may be received and is
to be given back makes up the window's current maximum, until END_STREAM (`BufferOK`). Of a stream
that was not opened yet nothing is on the wire (`FutureInv`), and of one that its peer has not
accepted yet the peer has sent nothing and the opener received nothing (`UnheardInv`): this
gives the new stream the windows its opener counts on. The sums over frames are a recursive function: that
adding a frame adds its bytes and taking the first one subtracts them is
shown by a smallest counterexample, which needs no induction rule. (The partial sums are kept in a
sequence, from 1: tlapm's SMT encoding takes every function for one whose domain is `1 .. Len`, so beside a
`Len` one over `0 .. n` would contradict it and prove anything. All obligations
that mention `Len` have also been discharged by Z3 with that axiom weakened to sequences.) Most steps change no
window and are cases of one lemma (`CalmStep`); a chunk moves bytes from the
window to the wire (`ChunkStep`), a request creates the peer's stream (`AcceptKeeps`).

**CommandsProofs**: `CreateIsHonest` (`CreatedIsRunnable`), `NothingOrphaned`
(`NoOrphanTunnel`), `AskedOnly` (`OnlyWhatWasAsked`), `RoutesStayScoped` (its second half alone).
The invariant says which command may be at which step (`ProgramOrder`), what it has
made and written by then (`Makes`, `MadeOK`), that no two commands made the same tunnel, and that beside
the certificate the file named after a tunnel holds its ID and secret and is not there before
the command that made the tunnel writes it (`FilesOK`): this is what
the test in `writeTunnelCredentials` before its write relies on while other commands
run. A network of a route is the one given by ID or one that bore the name given (`VnetOK`); without either
the call names none and the backend takes the default of that moment. `CreateIsHonest` and
`AskedOnly` have the hypothesis that no answer to a create is unreadable (`~GarbledCreate`). Without it the
first is false, as `commands_garbled` shows (section 6); so is the second, since two such
tunnels share the path of the nil ID, and both commands can find it free before either writes. `NothingOrphaned` and
`RoutesStayScoped` need no such hypothesis.

**ProcessProofs**: `UpdateLeavesGoodBinary` (`SomeGoodBinary`) and `AccessLockIsSound`
(`LockSound`). The updater's `StepInv` is what each step of `Apply` relies on: the file about to be
moved in has passed its checksum, and while the path is empty the old binary is beside it, also
after a kill at that moment. For the lock, the invariant says which steps of a command have the lock file
(`LockInv`), that without an overlap one process holds it (`ExclusionInv`) and that whoever found no
good token under it may rely on that until it writes one itself (`FetchInv`).

**Only model-checked.** Liveness (`RunStops`, `FailedIsRetried`,
`BlockedQuicFallsBack`, `ServeStops`, `OriginsStop`, `SessionsEnd`,
`UnregisteredEnds`, `PipeWindsDown`, `GoneClientFreesSession`, `PreemptedIsClosed`,
`QuietFlowsEnd`, `DeadConnectionNoticed`, `ShutdownCompletes`, `UpdateTakesEffect`,
`ServicesConverge`, `CommandEnds`) is beyond the prover. So `Management` and `ServiceMode`,
whose properties are all liveness, have no theorems, and `HealthyNotDropped` is proved while
`DeadConnectionNoticed` is not.

## 5. Mutants
For every property of every passing run `PROJECT.json` names a definition and a
faulty variant of it, and for several conjunctions one variant per conjunct; with
the variant in its place TLC finds the property
violated. They are the bugs one would expect: a search of the active sets only,
a counter that misses a tunnel, a queue that is not cleared, a timer armed
too late, a missing check of the shutdown, the wrong channel closed, an entry not
deleted, a head written twice, a binary removed before its successor is in
place, a lock not removed, a window update not sent, a wakeup not given.

## 6. Findings
`packet/funnel.go`, `GetOrRegister` closes the flow it replaces, and on macOS closing
releases the echo ID that the new flow was just given: the flow goes on with an ID that
the tracker takes for free and will give to another source when the IDs come round,
although `icmp_darwin.go` speaks of "a unique echo ID" (`icmp_replaced`). That source's replies then go to the
first one. It takes a round of all 65535 IDs within the life of such a flow. The same can happen to an ID
that the cleanup releases while a request for it is about to be sent.

`cfapi/tunnel.go`, `CreateTunnel` tests `err` where it means `serdeErr`: an answer
that cannot be parsed counts as a tunnel with no ID, whose credentials are
written, although the command "generates credential file used to run this
tunnel" (`commands_garbled`).

Also met while modelling, and not stated as properties. The supervisor and its connections:
- `supervisor.go`, `initialize`: returns the first tunnel's error although it
  may be nil; `Run` then waits for tunnels that do not exist. With
  `HAConnections` 0 the first tunnel is started nevertheless.
- `http2.go`, `Serve` does not wait for the control stream handler, whose late
  event hides a connection that is up: `/ready` answers 503 while it serves. A
  failed control stream ends the connection without an error.
- The readiness sink is registered from a goroutine and misses earlier events.
- `edgediscovery.go`, `GetDifferentAddr`: giving an IPv6 address back makes the
  region use IPv4, so when the call fails the address need not be "available
  on the next iteration", as its comment says. The address retry counter is reset
  even when no address is left.
- `conntracker.go`: the zero protocol is HTTP2, so any event of a connection makes
  `HasConnectedWith(HTTP2)` true; and `observer.go`, `logConnected` sends a Connected
  event without a protocol, which makes the tracker forget a QUIC connection until the
  next event arrives, or for good if that one is dropped.
- A shutdown before the first connection leaves its goroutine blocked.

What connections carry:
- `datagramsession/manager.go`, `shutdownSessions` does not decrement the gauge; a
  UDP socket leaks when a registration times out; of an ID registered twice, the end
  of the old session closes the new one.
- `wsConn.Close` waits for a stalled write. Over HTTP2 a write that the edge holds up outlives the
  handler: the server lets END_STREAM wait behind it, and nothing sets a deadline. A panic recovered in `Pipe` does not
  mark its direction as done.
- A full `packetDemuxChan` also blocks the UDP sessions of its connection; a
  tracing span among the packets ends `PacketRouter.Serve`.
- h2mux: the result of a loop that ends before `Serve` receives is lost (`select` with a `default`), and `Serve`
  waits for its context; `receiveEOF` deletes a stream before its own EOF is sent; `receiveGoAway` and
  `sid < LastPeerStreamID()` are off by one; `Abort` does not decrement the gauge.

Configuration and management:
- Origins started before one that fails are never stopped.
- A global `access.required`, and global `ipRules` of a socks proxy, are not enforced: handler
  and policy are built from the rule's own `originRequest` only. The copy that comes back from the edge has
  them in each rule, so a migration starts to enforce them; a socks proxy without rules of its own denied
  everything before it.
- Durations below a second are marshalled as fractions that cannot be read
  back; the comment of `config/configuration.go` speaks of nanoseconds.
- Unicode hostnames with a wildcard get no punycode form and never match; `*foo.com`
  is accepted; `--hello-world=false` and `--bastion=false` still select the service.
- `canStartStream` and `Listen` are separate, so two actors can stream at once; a
  session can be listed twice; `streamLogs` loops without waiting when its session stops.

The process and its commands:
- `cmd.go` speaks of a grace period that ends when all requests are done; HTTP2
  waits for all of it. A bad port of the DNS proxy makes `StartServer` hang; so does,
  after a signal, a supervisor that waits for tunnels that were never started.
- `AppManager.Add`: a service with the hash of one that failed is not started
  again, and its successor may not get the port; `ResolverService.Shutdown` can block
  `actionLoop`; only Write events are watched.
- Credentials: `writeTunnelCredentials` tests, then writes, with mode decimal 400;
  a delete retried after a lost answer leaves the credentials; `adhoc` takes
  any lookup error for "no tunnel"; `findID` ignores a name that is a UUID; only
  the first page of a list is read; a quick tunnel ignores the status of its answer.
- `list --when` is never applied; `--filter-network-is-subset-of` asks for supersets.
- Access: a signal can leave one of two locks; a new org token is not saved
  after an expired one; two `ssh-gen` can leave keys that do not belong together; a token being
  written can be read torn.

## 7. Not modelled, and the plan
Not modelled: the encoding of RPCs and datagrams (`tunnelrpc`, generated and
stateless), the compression dictionaries of h2mux (compiled out by default), DNS
discovery and resolving, logging, metrics, tracing and TLS configuration, the
encryption of the token transfer, and the output, the filters and those flags of commands that
change neither the account nor a file. The handler of the SOCKS service
(`ingress/origin_connection.go`), which reads its own requests and dials by itself, is left
out of `Requests`. On Windows the update ends in a batch file that runs outside the process, checks no
result and deletes the old binary in any case: when its second rename fails no
binary is left, and nothing here is claimed of it. Durations are abstracted everywhere: a timer that may fire is an
action, so properties about how long something takes, and the overflow of
`base << retries`, are out of scope.

What could be added next: `Supervisor` composed with `TunnelServer`, so that the
supervisor's assumption that `Serve` returns is discharged by the model itself
rather than by `ServeStops` of another run.
