# Formal models of forwarder

forwarder is an HTTP forward proxy. This directory holds TLA+ models of its
parts, the TLC configurations that check them, and TLAPS proofs of the central
results.

`PROJECT.json` lists, for every definition that models code, the lines it
models; for every run, what it shows; for every property, a plausible bug (a
definition marked `Mutant` in the module) that breaks it; and the hazards of
this code at the lines where they bite, with the properties that would catch
them.

## The system

A signal cancels the context of the process's group. `HTTPProxy.run` then
closes its listeners, calls `Shutdown` and, when the shutdown context expires,
`Close`. `Shutdown` closes `closeCh` and polls `connsWg` while it holds
`connsMu`. Every connection has a `handleLoop` goroutine that registers itself
under `connsMu`, serves requests, and looks at `closeCh` after its
registration, after a request has been read and before a response is written.

A request passes the guards and modifiers of the configured stack and goes to
an upstream, directly or through another proxy. A CONNECT or a 101 turns the
connection into a tunnel; a CONNECT may be intercepted with a certificate made
for the occasion, and an intercepted HTTP/2 connection is handed to a pair of
relays. The same requests may also be served by the proxy as the handler of an
`http.Server`. Below it all a connection is rate limited, may be wrapped by the
PROXY protocol, and is tracked.

What makes this hard: handlers register while Shutdown or Close run; deadlines,
bodies and gauges outlive the request that changed them; a dial, a header and a
drain race a timer; two relays fill each other's bounded queues under a lock; a
log that reads a body in order to show it; a second signal at any time.

## Modules

| Part | Source | Module |
|---|---|---|
| Life cycle of the proxy | `internal/martian/proxy.go` | `Proxy`, `ProxyProofs` |
| Running and stopping it | `http_proxy.go`, `shutdown.go` | `HTTPProxyRun`, `ProxyProofs` |
| The command and its group | `command/run`, `runctx`, `http_server.go` | `Command`, `RunGroup`, `CommandProofs` |
| A client connection | `internal/martian/proxy_conn.go`, `proxy_connect.go` | `ProxyConn`, `ProxyConnProofs` |
| The proxy as `http.Handler` | `proxy_handler.go`, `flush.go` | `ProxyHandler`, `ProxyProofs` |
| Guards, modifiers, upstream choice, error responses | `http_proxy.go`, `http_proxy_errors.go`, `internal/martian/header`, `fifo`, `httpspec`, `header`, `ruleset`, `credentials.go`, `pac/proxy.go` | `Modifiers`, `Pipeline`, `PipelineProofs` |
| The HTTP log | `httplog`, `middleware/logger.go`, `messageview` | `HTTPLog`, `CommandProofs` |
| Certificates | `internal/martian/mitm` | `CertCache`, `ProxyConnProofs` |
| HTTP/2 relays | `internal/martian/h2` | `H2Relay`, `H2StepProofs`, `H2RelayProofs` |
| gRPC | `internal/martian/h2/grpc` | `GRPC`, `CommandProofs` |
| Tunnels | `copy.go`, `closewriter.go` | `Tunnel`, `StreamProofs` |
| CONNECT through an upstream proxy | `dialvia` | `DialVia`, `StreamProofs` |
| PROXY protocol | `proxyproto` | `ProxyProtoConn`, `ProxyHeader`, `StreamProofs` |
| Connection tracking | `conntrack`, `net_metrics.go` | `ConnTrack`, `NetProofs` |
| Dialer, listeners | `net.go` | `Net`, `NetProofs` |
| Rate limits | `ratelimit` | `RateLimit`, `NetProofs` |
| The log file | `log/rotate.go` | `RotatableFile`, `StreamProofs` |

`Proxy`: `cpc[c]` is where the handler of connection `c` is, `spc[l]` where the
accept loop of listener `l` is, `sd` and `cl` where the callers of Shutdown and
Close are. Each critical section of `connsMu` is one step, except the two that
wait inside: Shutdown's poll and Close's walk over `conns`. The three deferred
calls of `handleLoop` are three steps in the order Go runs them. What happens
to a request is left open: `handling` may end with any response.

`HTTPProxyRun` extends `Proxy` with the goroutine of `HTTPProxy.run` that stops
it, and calls Shutdown and Close only when that goroutine does.

`RunGroup` is the process while it serves: each function of the group has a
serving goroutine and a watcher, requests in flight are a count. `HTTPProxyRun`
is the detailed model of the functions in `Proxies`. `Command` extends it with
what comes before and after: a construction step per part of `runE`, each a
record of what it registers, opens and defers, and each with its own way to
fail; then the group; then the deferred calls.

`ProxyConn` is one handler in full: `pc` follows `readRequest`, `handle`, the
MITM and CONNECT branches, `writeResponse` and the deferred calls. `AbsPC` maps
it to `cpc` of `Proxy`; `ImplementsHandler` says that every step is one of
`Proxy!Handler` or leaves `AbsPC` alone. The configuration is the variable
`config`, chosen at the start, so that one run covers several. A request is its
method and `Close` flag; `body` says how the unread part of its body is framed,
which decides whether `Body.Close` reads it to its end; `outer` and `lost` are
about the body a CONNECT may declare, which its `handle` closes after those it
has called for the intercepted session. A response has a status class, its
`Close` flag and the method of `res.Request`. `refused` is a history variable:
the requests answered with the refusal of the transport's own CONNECT.

`ProxyHandler` is one call of `ServeHTTP`: modifiers, round trip or CONNECT,
the tunnel by Hijack (HTTP/1) or on the stream (HTTP/2), the copy of the body
chunk by chunk through the pattern flusher, trailers, aborts. A body is a
sequence of `"r"` and `"n"`, since the flush patterns are about line ends.

`Modifiers` has the modifiers as functions from a message to a message and an
error, groups, and `ToImmutable`. A header maps names to lines, a line is what
the code looks for in it. `Pipeline` builds the stack from a configuration,
runs a request through it, chooses the upstream proxy (direct domains,
localhost, PAC result) and its credentials, and answers errors by the handlers
of `http_proxy_errors.go`. `ComesBack` lets the request return through other
proxies, for loop detection; it may be forwarded twice at most, which is once
more than it should.

`HTTPLog` is an exchange that passes the log: which mode reads which body, the
copy that replaces it, and what the client then receives. A request that was
refused still has its body with the client, who may wait for the answer first.

`CertCache` is `Config.cert` run by several handshakes while time passes: get,
verify, make, add. An added entry may evict any other one: the cache is
sharded by hash.

`H2Relay` has both relays: per direction a reader, a writer, the queues per
stream, the windows, `flowMu` and the bounded `output`. `FrameWork` gives the
locked steps a frame of each type causes, in order. A header block may come in
several frames; `cont` says which one is open. An endpoint that has stopped
reading (`stalled`) lets no write to it come back before a reset. `ledger` is a
history variable: what the receiver granted, what was queued and sent.

`GRPC` is one direction of a stream: frames cut anywhere, the adapter's buffer
and state, the emitter. A message says where in the stream it begins (`at`), a
turn of the loop of `Data` is a step, and between two frames the loop is left.
What goes out is what the other side reads: the emitter puts a prefix before
every message, also before the empty one it makes of an empty last frame.

`Tunnel` numbers the chunks each side sends and follows them through `brw`, the
copier's buffer and the other connection. A side may send, end, reset or stop
reading at any time; the client's read deadline may be set (a ReadTimeout is
not taken back) and pass; the upstream connection may have no `CloseWrite`.
`DialVia` is `DialContextR` with the goroutine that reads the answer.
`ProxyProtoConn` is the lazy read of the PROXY header by whichever call comes
first; `ProxyHeader` the two parsers as functions of a header's shape, with the
code's lengths, that say how many bytes they take and what addresses they have,
and the loop of `ParseTLVs` turn by turn over the bytes of the TLVs.
`ConnTrack` is the close callback under `sync.Once`. `Net` is the dialer
(redirect, attempts, labels, tracking) and `MultiListener`. `RateLimit` is the
shared token bucket; a call that moves more than the burst goes free
(`MoveFree`). `RotatableFile` is the log file with its writers, SIGHUP and the
delayed close.

## Runs

Small parts share a run. An MC module extends several of them and has one more
variable (`level`, `served`, `part`), chosen at the start, that says which one
the behaviour is about; the variables of the others rest in a state in which
none of their fair actions is enabled. The properties of a part hold trivially
in the behaviours of another, and are decided in its own.

Safety and liveness are checked together under the fair specification. Where
the system may rest, a stuttering action (`RunOver`, `ConnOver`, `PipeOver`,
...) says where; any other state without a successor is reported as a deadlock.
The exception is `h2`, where a relay may be stuck (see `h2_closing`).

| Run | Parts | States |
|---|---|---|
| `proxy` | `Proxy`: 2 connections, 1 listener | 34k |
| `lifecycle` | `Command` with one function of each kind, one request each, 2 signals; `HTTPProxyRun` with 2 connections and 2 listeners | 190k |
| `serving` | `ProxyConn`, `ProxyHandler`, `Pipeline`, `HTTPLog`, `CertCache` | 371k |
| `streams` | `Tunnel`, `DialVia`, `ProxyProtoConn`, `ConnTrack`, `Net`, `RateLimit`, `RotatableFile`, `ProxyHeader`, `GRPC` | 121k |
| `h2` | `H2Relay`: 2 streams | 638k |

`proxy`. A nil Shutdown means that nothing is served (`DrainedMeansIdle`);
Close reaches every connection, also those accepted while it runs
(`CloseReachesAll`); Shutdown returns and handlers finish (`ProxyFinishes`).
Two connections let one be served while the other is between Accept and its
registration.

`lifecycle`. When `run` has returned nothing listens or is served on an open
connection (`RunLeavesNothingOpen`); nothing is accepted once the drain has
begun (`NoAcceptWhileDraining`); it returns whatever handlers do
(`RunReturns`). The group ends without a proxy's requests unless its timeout
has passed (`ProxyDrained`); nil is returned only after a signal and a second
signal kills only in the known gap (`OutcomeExplained`); the command closes
what it opened however far it came and no metric is registered twice
(`CommandClean`); it returns (`CommandReturns`). Two listeners, so that one can
fail while the other serves; two signals, because the second is the hard one.

`serving`. On a connection: the in-flight gauge of every method is at each step
the number of its requests being served, off by exactly three leaks
(`GaugePerLabel`): refusals of the transport's CONNECT, which are traced under
CONNECT, requests dropped on closing, and tunnels, which are traced twice.
Upstream connections and bodies are closed before the client is waited for
(`UpstreamReleased`). Without a ReadTimeout the next read starts at a request
(`RequestBoundary`), with two exceptions: the body of a request with
Content-Length and Connection: close is not read, and the refusal of the
transport's CONNECT keeps the connection all the same; and a CONNECT that
declares a body has what follows read as that body when it is closed. No
deadline of the wait, of the header or of a response is pending in a tunnel, an
intercepted session or the reading of a rest of a body (`SessionDeadlines`);
that of a ReadTimeout is. The handler implements that of `Proxy`
(`ImplementsHandler`), and with the timeouts set it finishes when closing
whatever the client does (`ClosingFinishes`), unless it is a tunnel or an
HTTP/2 session, or waits for ever in a round trip, in a CONNECT or for the body
of a response: none of these has a timeout by default. Three configurations:
the defaults with 3 requests, so that the middle one has a past and a future;
every timeout, with 2; and clients whose CONNECT declares a body, with 2. Under
`http.Server`: a response is whole or aborted (`WholeOrAborted`), an event is
flushed when it is complete, also when its pattern lies across writes
(`EventsFlushed`). In the pipeline: a request that is refused has not been
changed or sent (`GuardsFirst`), headers of one hop stay there, except those an
upgrade needs or a rule adds (`HopHeadersStay`), a request that returns is
refused, unless the rules for requests have taken Via away or had Connection
list it (`LoopRefused`). The log does not change what the client gets
(`LogTransparent`), except in the ways `log_body` is about and, with bodies
logged, for a client that sends the body of a refused request only after the
answer: the log waits for the body. A certificate is for the right host and in
force (`CertServed`): 2 handshakes, 2 hosts, and times that let entries expire
in each step.

`streams`. Tunnels lose, double and reorder nothing (`BytesKept`), except that
the client's direction is cut when the read deadline of its request passes; and
they end with everything delivered (`TunnelFinishes`), unless a side stops
reading or the upstream connection has no `CloseWrite`. A dialled connection is
closed exactly when the caller does not get it, with the tunnel's bytes left in
it (`ConnHandedOver`), and the dial and its goroutine end (`ConnectEnds`). No
byte is handed out before the PROXY header is read, and all callers see one
outcome (`HeaderFirst`); calls and the goroutine end (`HeaderReadEnds`); three
callers, since two may wait for the mutex the third holds. The parser accepts
every header of the protocol but the four kinds `Unsupported` names, takes its
bytes and no more, and has its addresses, locality and TLVs, of which the map
has two at most, less an empty one at the end (`HeaderExact`). The close
callback runs once, inside Close (`OnCloseInsideClose`), and the gauge is exact
(`ActiveExact`). Dials and listeners are accounted for (`NetAccounted`). The
rate is held (`RateHeld`) over the calls the limiter counts; those it does not
are larger than `defaultMaxBurstSize`, and the run has chunks on both sides of
it. No log line is lost to rotation (`LogKept`). gRPC messages stay whole
(`MessagesWhole`; without messages of length zero, which `grpc_empty` has), and
one empty message is added when the stream ends in a DATA frame of its own.

`h2`. Frames of a stream stay in order (`StreamOrder`), windows are exact and
never overdrawn (`FlowExact`), nothing that fits is left waiting
(`NoLostWakeup`), and once the proxy is closing it returns
(`ReturnsUnlessBlocked`), unless a relay is left without its peer or a write
waits for an endpoint that has stopped reading: such a write has no deadline.
Windows, frames and the output have size 1, so that every kind of waiting
happens; the frames each endpoint may send are those of `MCH2Relay`, with a
header block in up to three of them. At most one endpoint gets into trouble: it
is reset, or it stops reading and may then be reset.

Seven runs are expected to fail. Each states what a text of the repository says
and finds a behaviour of the code that differs:

- `conn_gauge`: "Current number of HTTP requests being served" is negative for
  CONNECT after a GET or HEAD whose transport CONNECT was refused: the refusal
  is traced as the answer to a CONNECT, which nobody counted.
- `conn_head`: "Any response to a HEAD request" has no body, but the refusal of
  an upstream proxy is written as the answer to the transport's own CONNECT.
- `dial_via_https`: ConnectTimeout is "the maximum amount of time to connect to
  upstream", but over TLS the handshake happens in a write that looks at
  neither the context nor a deadline.
- `group_server`: the shutdown timeout is the time "to wait for the server to
  drain connections", but `HTTPServer.Run` returns as soon as `Serve` does.
- `h2_closing`: the writer of a relay "has to keep processing until the reader
  is done", but only its own reader is meant; the other relay's reader fills
  the same queue and is left waiting.
- `log_body`: taking a snapshot of a message "is semantically a no-op", but
  reading a 101's connection to its end makes the upgrade impossible, and a
  body that fails while it is read is lost.
- `grpc_empty`: "Message receives serialized messages", but one of length zero
  at the end of a frame is kept back, and with it the end of the stream.

Smaller differences met on the way have no run:

- A connection that waits for a request when Shutdown begins reads one more and
  drops it unanswered. The gauge keeps it, and a tunnel lowers the gauge twice:
  two of the leaks of `GaugePerLabel`.
- A tunnel and an intercepted session keep the read deadline of a ReadTimeout.
- The Content-Length of a CONNECT is logged as ignored, but its body is closed,
  which reads what follows.
- With bodies logged, a refused client that waits for its 403 or 407 before it
  sends the body is waited for.
- A call that moves more than `defaultMaxBurstSize` is not paid for: the
  limiter's refusal is dropped.
- The end of a gRPC stream in an empty DATA frame is passed on with an empty
  message.
- A 407 of the proxy's own loses its Proxy-Authenticate to the modifier that
  keeps hop-by-hop headers from the client, as `HopHeadersStay` has it.
- With `X-Martian-Terminate-Tls` the refusal of an upstream proxy is replaced
  by a handshake error.
- A PROXY header that cannot be parsed leaves the connection open for its owner
  to close. The shortest TCP6 line is shorter than the parser's comment says. A
  PROXY command of the family unspec leaves the addresses nil, and `handle`
  calls a method of the remote one. The address block of a LOCAL command is
  taken for TLVs.
- `ParseTLVs` is wrong from the third TLV on, and for a last one without a
  value. Only its test calls it, with two.
- Snappy messages are read in the framed format and written as blocks.
- Credentials are looked up by port before host; the doc says host, then port.
- The file of the TLS key log is never closed.
- The dialer's sleep between attempts does not look at the context.

## Fairness

Steps of a goroutine that needs nobody else are weakly fair: the Go scheduler
runs it. A mutex is fair to those who wait (starvation mode of `sync.Mutex`),
hence the strong fairness of `Lock` in `ProxyProtoConn`. Timers fire.

- `Proxy`: reads, writes, handshakes and upstream exchanges end, because of
  timeouts or peers; this is an assumption about the configuration, and
  `ClosingFinishes` of `ProxyConn` shows what the timeouts themselves give.
  Nobody has to connect, send, or call Shutdown or Close.
- `HTTPProxyRun`: nothing at all is assumed of handlers, clients and upstreams;
  the deadline of the shutdown context is enough for `run` to return. The
  expiry is strongly fair because the poll passes through a step in which the
  timer is not looked at.
- `RunGroup`, `Command`: clients need not finish; the shutdown timer fires; a
  construction step ends one way or the other.
- `ProxyConn`: a blocked read ends only if a deadline is set or the connection
  is gone; likewise writes and handshakes. Nothing is assumed of the upstream:
  dials, round trips and the bodies of responses need not end. Nor need tunnels
  and HTTP/2 sessions.
- `Tunnel`: the copiers run, a write ends as long as its side reads, and the
  upstream ends its side some time after it has seen the end of the client's.
  Nobody else has to send, close, reset or go on reading.
- `DialVia`: `dial` ends once its context is done; a plain write ends; a
  handshake needs the upstream. ConnectTimeout fires.
- `H2Relay`: readers with work and writers go on. Endpoints need not send, and
  a write to one that has stopped reading need not end.

The other modules have safety properties only, and no fairness.

## Proofs

The theorems hold for every value of the constants that satisfies the named
assumptions: sets that are counted are finite, `NoConn` and `NoCaller` are not
members of the sets they stand apart from, the kinds of functions of a group
are disjoint, configurations are records of the options, lengths, times and
limits are numbers, an exchange has the shape its module describes, gRPC
messages and TLVs lie one behind the other. `H2Relay` assumes of the endpoints
that their frames are well formed and that SETTINGS_MAX_FRAME_SIZE is not 0,
which the protocol forbids. What a bound of the models cuts off for TLC is a
number like any other here: the theorems hold for every bound.

`ProxyProofs` proves `Spec => []IInv`. Neither `DrainedMeansIdle` nor
`CloseReachesAll` is inductive. That Shutdown's zero means idle needs `connsWg`
to count exactly the handlers between registration and decrement (`WgCounts`),
and that a handler which registers afterwards finds `closeCh` closed (the third
conjunct of `StopInv`). That Close reaches all needs every served connection to
be in `conns` (`ConnsTracked`), who holds `connsMu`, and, during the walk, that
what is served is still to be visited or already closed. That an accepted
connection is fresh when its goroutine starts needs the last two conjuncts.
Most steps of a handler move `cpc[c]` between places that agree on all this
(`MoveInv`); registration, decrement and the callers have lemmas of their own.
The facts about cardinalities come from `FiniteSetTheorems`.

The second half proves that every step of `HTTPProxy.run` is one of the proxy or
leaves it alone (`RunImplementsProxy`), so that `IInv` carries over;
`RunInv`, the order listeners, Shutdown, Close; and from both that a returned
`run` leaves nothing listening or served on an open connection
(`RunReturnIsClean`), and that nothing is accepted once the drain has begun
(`NoAcceptAfterShutdown`, an action property).

`ProxyConnProofs` proves that the code of one connection implements the handler
of `Proxy` (`HandlerImplemented`): each action either leaves `AbsPC` alone or
makes one move of `Proxy!Handler`, with `closing` read where that handler reads
`closeCh`. So what `ProxyProofs` says of Shutdown and Close, which knows
nothing of MITM, CONNECT or errors, holds of the code that has them. It also
proves four invariants for every configuration and any number of requests.
`UpstreamReleased` needs that `handleMITM` writes its 200 with nothing open
upstream. `SessionDeadlines` needs which deadline is set where (`DeadlinesInv`):
from the header to the last deferred call it is that of the whole request.
`RequestBoundary` needs the most. Without a ReadTimeout there is then no
deadline when a body is closed, so that one which could not be read to its end
is on a connection that is gone; one that is not read at all was sent by a
client that asked to close the connection, which is kept only when the answer
belongs to another request (`AnswerInv`), the transport's CONNECT
(`LeftByRefusal`). `BodyInv` puts these together, and `LostInv` says that
nothing is lost behind a CONNECT that declares no body.

`GaugePerLabel` is proved from `GaugeInv`, which says where the request being
handled counts and what each way out of `handle` leaves behind. Only the reading
of a request and the tracing of a response count (`CountedBy`). A response
traced under another label than its request's moves both labels, and `refused`
has it (`CountedDown`).

`CommandProofs` proves `ProxyDrained` for any set of functions: a proxy that
has been woken does not listen, one that is done has nothing in flight, and it
returns only then (`ProxyStops`). `EndExplained` says that a nil result follows
a signal and that a signal kills only when stopping has begun; it needs that
whatever makes the context done is a signal or an error, and that nothing is
woken, cancelled or unregistered before (`DoneHasCause`). Both carry over to
the whole command (`CommandProxyDrained`, `CommandOutcomeExplained`), whose
construction leaves the group at rest (`CommandGroup`). `CommandIsClean` proves
`CommandClean` in every configuration, whichever step fails. Its core is not
about behaviours: the steps of each part of `runE` are `Tidy`, that is, no two
register the same metric, and between a step that opens something and the one
that defers its close none can fail. Tidy parts with different metrics make a
tidy whole (`TidyConcat`), so the proof follows the functions that build the
list. `CleanInv` then says that what is registered, open and deferred comes
from the steps that are done.

`NetProofs` is about connections and their counts. `TrackInv` says, besides its
two properties, that at most one goroutine is inside the callback of a
connection, that `once` is "running" exactly then, and that the underlying
connection is closed before.

`RateHeld` counts the bytes of calls that have returned. The bytes are numbered
as they move, and the invariant bounds numbers, not counts: a byte that has
passed is at most the burst plus what time has brought, a sleeping call wakes
only when that holds of its last byte, and what has moved is at most the burst
plus what time has brought less the tokens left. Calls may wake in any order.
A call that goes free moves more than the burst, which is never smaller than
`defaultMaxBurstSize`. The count follows from the bound by `FiniteSetTheorems`.

`NetIsAccounted` proves `NetAccounted` for any redirects, number of attempts
and dials, and for any listeners, several under one name or not. The metrics
are cardinalities of sets of dials and of connections; a step moves one member
in or out of the sets of one label (`MoveAccounted`, `RetryAccounted`), and
leaves those of the others as they are. `DialerInv` adds how many attempts a
dial has made at each place, `ListenInv` that a listener beyond those opened is
untouched and that an open connection has a listener.

`H2StepProofs` and `H2RelayProofs` prove the three invariants of the two relays
for any streams, windows, frame sizes, size of `output` and frames the
endpoints may send. The first has the inductive invariant and the steps that
start no walk of the buffers, the second the walks, the writer and the
theorems. None is inductive. `FlowExact` holds but for changes that a reader
has read and not yet applied: `Books` is the equation at every moment, with
what is owed (`ConnOwed`, `StreamOwed`) on its other side. For this the pieces
of work of a frame have to be in the order of the code, a change of a window
first (`Ordered`), and a walk of the buffers has to hold `flowMu` (`Locks`).
`NoLostWakeup` becomes `Woken`: a frame that fits will be met, by the walk
under way, which has not passed it, or by one that is still to begin. The order
in which the walk visits the buffers, a Go map, is any. `StreamOrder` is
inductive once it is said how a stream's frames lie in its queue and in
`output` (`InOrder`). The long cases are the steps that go on with a walk; what
these need of the relay they leave is collected in `GoesOn`, and what the
release of a frame does to the relay and the ledger in `Charged`.

`StreamProofs`. `DialConnHandedOver`: where the caller is decides whether the
connection is open, and an answer that has been delivered is whole (`DialInv`).
`TunnelBytesKept`: of each direction, the chunks that arrived, those the copier
holds and the one still buffered with the request are together those taken off
the connection, in this order, unless the destination has reset; and a copier
that has left has copied everything, or met the deadline (`Direction`).
`RotationLogKept`: a file about to become the current one is open, known to no
one else and without a timer, and so is the current one; hence a timer only
closes what nobody loads any more, and who loaded it before is done, since a
write takes less than the grace period (`LogInv`). `HeaderFirstAlways`:
`headerMu` is held from `Lock` to the outcome, the goroutine is started at most
once, the outcome is nil exactly when the header was found and is what every
caller saw, and the bytes taken from the connection are those of the header and
then those the callers were given (`ProtoInv`).

`HeadersAreReadExactly`: what `ReadHeader` returns is a function of what the
peer sends, and for a header of the protocol, supported or not, it is the one
`HeaderExact` asks for (`V1Exact`, `V2Exact`). Of the TLVs the bytes are
looked at: those at the place where one begins are its type, its length and its
value, because no other TLV covers them (`ByteHere`, `ReadTLV`). `ParseTLVs` has
taken the first k of the list, and is where the next one begins while k is at
most 1 (`Taken`): that is as far as its offset is right, and why the theorem is
about two.

The proofs of four small parts stand with those of larger ones. In
`ProxyConnProofs`, `CertServedAlways`: the invariant says what a handshake knows
at each step (`Knows`): its key, that what it verifies is a certificate, and
that what it has made or verified is for its key and in force. Of the cache
only the type matters, because what it gives is verified before use; that is
why eviction and concurrent handshakes cannot hurt. In `ProxyProofs`,
`HandlerWholeOrAborted` and `HandlerEventsFlushed` hold for bodies of any length
and any cut of them into reads: what the client has is the part copied, the
flusher remembers its last byte, and every pattern within it has been flushed
(`Copied`); an end is given once, and a whole one only after the last byte and
the trailers (`Ended`). In `CommandProofs`, `LogIsTransparent`: what the log has
read of a body is its beginning, and what replaces the body is all of it
(`EntryInv`).

Also in `CommandProofs`, `MessagesGoOutWhole`: for any messages and any cutting
of them into frames, `MessagesWhole` holds if none is empty (`NoneEmpty`; with
an empty one it does not, see `grpc_empty`). What has been passed on are the
first messages of the list (`Passes`), and the adapter is at the end of the last
of these, or behind the prefix of the next with that one's length and flag
(`Stands`). The end of the stream goes out with the last message or behind it
(`EndPassed`), because a loop that is left with messages missing was left for
want of bytes, and after the peer's end none are missing.

`PipelineProofs` is about any configurations, rules and requests of the shape
`PipeAssumption` gives. The modifiers run in a group, one after the other, and
the first error ends it; rules are applied one after the other likewise. Both
are recursive functions of the position. What the proof needs of them is that a
fact which every modifier, or rule, keeps is a fact at the end, and it is proved
by a least counterexample (`LeastOne`): of the positions at which the fact does
not hold there would be a first one, and the one before it contradicts that.
`PipeInv` says of a request that has been forwarded that it was permitted, that
it has lost the headers of the client's hop, also when it has come back
(`HopsLeft`), and, while the rules leave Via alone, that it carries the tag of
this proxy where the modifier looks for it, in the first line of a Via that
Connection does not list (`Tagged`). `ChecksComeFirst`, `HopByHopStays` and
`LoopsAreRefused` are the three properties.

Only model-checked:

- Liveness, everywhere: fairness and ENABLED are beyond the prover.

Every other property of a passing run has a theorem.

## Not modelled

- `ConnectFunc`, which only programs that embed the proxy can set.
- The byte counters of `conntrack`.
- SOCKS5, TLS, X.509, HPACK, compression, HTTP parsing and the transport are
  library calls, modelled by how they can end.
- PAC scripts run in a JavaScript engine; of PAC the results are modelled.
- `http_transport.go`, `tls.go`, `dns.go` and `api.go` pass options to
  libraries or answer read-only requests.
- Flags, help texts, parsing of sizes, URLs and hosts files, formatting of
  logs: they have no state and no concurrency, and their tests reach them.
- Test tools, benchmarks and generators are not part of the running proxy.
