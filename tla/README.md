# TLA+ models of amplet2's control and test sockets

This directory holds TLA+ specifications of the socket-handling code of
amplet2 (`src/src/common/serverlib.c`, `src/src/common/testlib.c`, the
`amp-remote` client and the udpstream test server). It also holds TLC
configurations that model-check them on small instances, and TLAPS proofs
of their main invariants for every value of the constants.

## The system

An amplet2 test is run between two hosts.

* The **initiator** (`measured/remote-client.c`, or a test client)
  connects to the remote control port with `connect_control_server()`.
  That is `connect_to_server()` plus `upgrade_control_server_ssl()`.
  It then exchanges protobuf control messages: TEST, RESPONSE, RESULT,
  HELLO, READY, SEND and RECEIVE.
* The **responder** (the udpstream server, `run_udpstream_server()` and
  `serve_test()`) listens for the control connection with
  `listen_control_server()`. It opens a second, datagram socket for the
  test traffic with `start_listening()`.

Both listening paths share one piece of code: `start_listening()` opens an
IPv4 and an IPv6 socket, binds them to a device and to an address, calls
`listen()` on stream sockets, and reports `EADDRINUSE` so that its callers
can try the next port:

    do { res = start_listening(&sockets, port, sockopts); }
    while ( res == EADDRINUSE && port++ < portmax );

### Inventory

| Component | Code | State | Operations | Hard behaviour |
|---|---|---|---|---|
| Dual-stack listener | `start_listening`, `bind_sockets_to_*`, retry loops in `listen_control_server` and `serve_test` | two descriptors, kernel socket state, port, descriptor table | socket, device bind, bind, listen (per family), final check, retry | other processes binding or listening between our calls; partial failure of one family; cleanup on every return path |
| Control server | `listen_control_server`, `wait_for_data` | listening sockets, control socket, wait budget | select, accept, close listeners, establish | timeout racing a connection; descriptor 0 |
| Connector | `connect_to_server`, `connect_control_server` | socket, attempt counter | socket, bind, connect and retry, sleep | refused connects, attempt cap, failure paths |
| Secure upgrade | `upgrade_control_server_ssl` | BIO, peer certificate | handshake, certificate and name check | mismatch handling |
| Control codec | `parse/read/send_measured_response`, `send_measured_result` | none (pure) | pack and unpack | missing optional fields |
| Remote client | `remote-client.c` main | control connection, expected test type | TEST, RESPONSE, then RESULT or RESPONSE | unexpected or unparsable replies |
| udpstream server | `serve_test`, `do_send`, `do_receive` | control and test socket | HELLO, READY, SEND or RECEIVE, RESULT | messages out of order; port selection |
| Socket options | `set_and_verify_sockopt`, `do_socket_setup`, `set_dscp_socket_options` | the option fields of a socket | setsockopt and verify, the FORCE fallback, DSCP | the kernel doubling and clamping buffer sizes; descriptor 0 |
| Pacing | `delay_send_packet` | static last-send time, static packet ids | wait and send | one clock shared by all sockets; descriptor reuse |
| Address order | `compare_addresses` | none (pure) | compare | byte order of the mask |

Not modelled: broker messaging (`messaging.c`, whose state lives in an
external AMQP broker), the local control socket (`localsock.c`, a single
socket/bind/listen with no retry), the HTTP test's libcurl callbacks
(string handling), the skeleton example test, and process utilities
(process name, signals, timestamp arithmetic).

## Modules

### DualStackListener (modelled)

`DualStackListener.tla` models `start_listening()` and the callers' retry
loop.

* **Constants.** `FirstPort..MaxPort` is the port range. `NFds` is the size
  of the descriptor table. `InheritedFds` is the set of descriptors open
  when the program starts: `{0, 1, 2}` normally, `{1, 2}` when it was
  started with stdin closed, so that `socket()` can return 0.
* **State.**
  * `sockets` is `struct socket_t`, with `-1` as `NoSock`.
  * `st` is the kernel state of each socket: none, open, bound, listening.
  * `fds` is the process's descriptor table.
  * `others` is what other processes of the host hold on each port and family.
  * `port`, `res` and `pc` give the position in the code.
  * `fdsAtCall` and `tried` are history variables used by the properties.
* **Actions.** One action per system call of `start_listening`, in the
  code's order:
  * `OpenV4` and `OpenV6` (lines 257-279);
  * `BindDevice` (302-306);
  * `BindV4` and `BindV6` (`bind_sockets_to_address`, with the close-all
    on failure at 308-327);
  * `ListenV4` and `ListenV6` (330-372);
  * `CheckListening` (379-385);
  * `Retry`, the caller's `do ... while`.
* **Environment.** `OtherProcess` is the rest of the host. It binds,
  listens and releases ports between our calls. It obeys the kernel's
  rules: with `SO_REUSEADDR` two sockets may be bound to a port but only
  one may listen; without it, a bound port cannot be bound again.
* **Descriptors.** `socket()` returns the lowest free descriptor, so a
  socket left open on a return path shows up in `fds`.
* **Abstracted.** The address structures are left out; no property
  distinguishes them. The socket options are added by `ListenerSetup`
  (below), which composes this module with `SocketOptions`.
* **Initial states.** `Init` allows the two configurations the callers
  build:
  * stream with `SO_REUSEADDR` for the control connection;
  * datagram without it for the udpstream test socket.

  Each uses any non-empty set of families, with or without a device.

### SocketOptions and ListenerSetup (modelled)

`SocketOptions.tla` models the socket option applier of spec 4.1 as pure
functions of a socket's option fields (`KOpts`: MSS, Nagle, the two
buffer sizes, `SO_REUSEADDR`, the traffic class):

* `SetAndVerify` is `set_and_verify_sockopt()` (serverlib.c 90-138):
  `setsockopt()`, `getsockopt()`, then the comparison, which is against
  `verify / 2` for the four buffer options (`ReadsBackAsSet`).
* `Try` and `TryBuffer` are the calls `do_socket_setup()` makes. Only the
  warnings are recorded, as `warned`, since the return value is ignored.
  A failed `SO_RCVBUF` or `SO_SNDBUF` is retried with its FORCE variant.
* `SetDscp` is `set_dscp_socket_options()` (testlib.c 1021-1057) on the
  zeroed `socket_t` that `do_socket_setup` builds. It stores `dscp << 2`,
  or aborts on `assert(socket > 0 || socket6 > 0)` when the socket is
  descriptor 0.
* `DoSocketSetup` chains them in the code's order (serverlib.c 146-242).
* `KernelStores` is the Linux side, which is not code of this repository:
  * a buffer size is stored as `max(min, 2 * min(v, rmem_max))`;
  * the FORCE variants skip `rmem_max` but fail with EPERM without
    CAP_NET_ADMIN;
  * TCP options fail on a datagram socket, and `TCP_MAXSEG` must lie in
    `MinMss..MaxMss`;
  * boolean options read back as 0 or 1.

  `BufMax`, `MinRcvBuf`, `MinSndBuf`, `MinMss` and `MaxMss` are
  constants. `SockoptAssumption` requires the two minima to be even, as
  they are in Linux, where both are twice a size.

`ListenerSetup.tla` composes these functions with `DualStackListener`.
`start_listening()` calls `do_socket_setup()` on each socket it opened
before binding (serverlib.c 281-299). `OpenV6Setup` is the IPv6 `socket()`
step together with those calls, and `OpenV4Setup` starts a new call with
no options set. The options asked for beyond `reuse` are the constant
`Tunings`; the callers under src/ ask only for `SO_REUSEADDR`, but the
test programs sharing the code ask for the rest. `priv` says whether the
process holds CAP_NET_ADMIN. The history variables `warned` and `setUp`
record what was logged and which families were set up.

### ControlServer (modelled)

`ControlServer.tla` extends `DualStackListener` with the rest of
`listen_control_server()` (serverlib.c 446-517) and with `wait_for_data()`
(testlib.c 415-500).

* **State added.**
  * `pending[f]`: a client connection is queued on our socket of family f.
    The backlog is 1, and the connection is lost when the socket closes.
  * `family`: the family `wait_for_data()` reported.
  * `csock`: what `accept()` returned.
  * `lcs`: the position after the retry loop.
  * `outcome` and `fdsAtStart` are history variables.
* **Actions.**
  * `LoopStep` is any step of the listener, with lost connections
    dropped.
  * `LoopExit` is the `res != 0` test.
  * `WaitForData`: select() watches only descriptors `> 0`. IPv4 wins
    when both sockets are readable. The wait times out only when nothing
    is readable. A select() error can happen at any time.
  * `Accept` takes the lowest free descriptor or fails. The
    `assert(control_sock > 0)` of `get_socket_address` is a
    nondeterministic abort (`lcs = "aborted"`) for debug builds.
    Otherwise the listeners with descriptor `> 0` are closed, and the
    source addresses are reduced to the accepted family.
  * `Establish` (spec 4.4) either returns the BIO or closes the socket.
  * `ClientConnect` is the environment.

### Connector (modelled)

`Connector.tla` models `connect_control_server()`: `connect_to_server()`
(serverlib.c 525-628) and `upgrade_control_server_ssl()` (638-679).

* **Constants.** `MaxConnectAttempts` is `MAX_CONNECT_ATTEMPTS`. `NFds`
  and `InheritedFds` are as in the listener.
* **State.**
  * `dest`, `cfg` and `cert` are chosen in `Init`: the destination family
    (including an unsupported one), device and source addresses, whether
    an SSL context exists, and the certificate the peer presents (none,
    matching, other name).
  * `peerUp` says whether the remote server listens. `PeerChange` flips
    it at any time, in particular during the `sleep()` between attempts.
  * `fds`, `sock`, `connected`, `attempts` and `pc` follow the code.
  * `why`, `session` and `fdsAtCall` are history variables.
* **Actions.** One per block of the code:
  * `SetPort` (the family switch);
  * `Socket` (with `do_socket_setup`, which changes nothing a property
    tells apart);
  * `BindDevice` and `BindSource` (bind only to a source of dest's
    family);
  * `Connect` (one `connect()`, the attempt count, and the `>=` cap);
  * `Upgrade` (the `sock > 0` test of `connect_control_server` and the
    whole of `upgrade_control_server_ssl`).

  `establish_control_socket()` is not under src/: its failure closing
  the socket is taken from spec 4.4 and 8.

**Fairness.** `WF_vars(Client)`: the caller runs the call to its end.
`sleep()` always returns, so nothing is assumed of the peer.

**Abstract contract and refinement.** `ConnectorAbstract.tla` states
what `connect_control_server()` promises, from spec 4.3, 4.4 and 8, with
three variables:

* `refused`, the number of refused connects;
* `verdict`, which is pending, session or error;
* `acceptable`, whether the peer would pass the upgrade.

Its four actions are:

* `Refuse`, a refused attempt below the cap;
* `Exhaust`, the last allowed attempt refused, which is an error;
* `Abort`, any other failure;
* `Establish`, which returns a session, and only for an acceptable peer.

`Connector` instantiates it as `Abs` with this refinement mapping:

* `refused <- attempts`;
* `verdict <- Verdict`, which is pending until `pc = "ret"` and then
  session or error;
* `acceptable <- ~cfg.ssl \/ cert = "match"`.

The mapping is proved by `ConnectorProofs` (below) rather than checked by
a run: the properties of the `remote_client` run already state each of its
parts on the concrete variables. The steps of the socket, device, source and
connected-socket stages map to stutters. A refused connect maps to
`Refuse`, or to `Exhaust` at the cap. A successful upgrade maps to
`Establish`, and every other failure maps to `Abort`.

### RemoteClient (modelled)

`RemoteClient.tla` extends `Connector` with `main()` of
`measured/remote-client.c` from the connect onward. The parsing helpers
`parse_measured_response` and `read_measured_response` (serverlib.c
725-785) are part of it.

* **State added.**
  * `rc` is the position in `main()`.
  * `inbox` and `closed` are the server's side of the connection: one
    packet waiting to be read, or the close.
  * `sent` says the TEST was written.
  * `printed` is what was printed.
  * `received` (history) is the packets read, in order.
* **Messages.** A packet is a record of the fields the client tests: type
  (RESPONSE, RESULT, another type, or bytes that do not unpack), code,
  whether the message text is present, test type (the requested one,
  another, absent), and whether result data is present.
* **Actions.**
  * `Connecting` runs `Connector`'s steps.
  * `Connected`: a NULL BIO exits with failure.
  * `WriteTest` sends the TEST message.
  * `ReadResponse` covers `read_measured_response` and the code test.
  * `ReadResult` covers the second packet and its dispatch; the outcome
    is computed by `ResultOutcome`.
  * `ServerReply` is the server: any packet of the set, or a close.
* **Undefined behaviour.** `strdup(NULL)` of a RESPONSE without text, and
  `in_msg->type` of a packet that did not unpack, are the crash they cause
  on Linux: `rc = "crash"`.

**Fairness.** `WF` of the client's steps (one thread). `WF` of the
server's reply: amp-remote has no read timeout, so it ends only if the
server answers or closes. That assumption is the content of
`RemoteClientEnds`; without it the client can wait for ever.

### UdpstreamServer (partly modelled)

`UdpstreamServer.tla` models `serve_test`, `do_send` and `do_receive` as
`run_udpstream_server` runs them standalone. `listen_control_server` has
accepted the control connection on `ctrlFamily` and left only that
family's source address configured.

* **Constants.**
  * `ReservedPort` is `IPPORT_RESERVED`.
  * `DefaultTestPort` and `MaxTestPort` are `DEFAULT_TEST_PORT` and
    `MAX_TEST_PORT`.
  * `HelloPorts` is the set of test ports a HELLO may ask for.
  * `MaxCommands` bounds the commands the client sends.
  * `CtrlFd` is the control connection's descriptor.
* **Actions.**
  * `GetPeer` is `getpeername`.
  * `ReadHello` covers the HELLO and the port checks: the default port
    scans to `MAX_TEST_PORT`; a port below `IPPORT_RESERVED` is refused;
    any other port is the only one tried.
  * `Listen` is one `start_listening` call with the loop test
    `options->tport++ < portmax`, which increments even on the test that
    stops the loop.
  * `Serve` is one iteration of the command loop.
  * `Finish` is `close_control_connection`.
  * `ClientSend` and `OtherProcess` are the environment.
* **The listener inside.** `start_listening` is one step here. Its
  outcomes are those that `DualStackListener` establishes (and
  `DualStackListenerProofs` proves): in use leaves nothing open; success
  holds a socket per configured family that `socket()` opened.
* **Left out.** The UDP traffic itself (`send_udp_stream`,
  `receive_udp_stream`, not under src/). Also left out is the
  non-standalone path, whose source addresses come from measured's
  arguments.

### Runs

The `listener` run uses `MCListenerSetup`, which is the listener instance
of `MCDualStackListener` (two ports, five descriptors) with socket
options. The listener's violation runs use `MCDualStackListener`. The control-server runs use `MCControlServer` (six
descriptors: three inherited, two listeners, the control socket). The
connector runs use `MCConnector` (three attempts, four descriptors), the
remote-client run `MCRemoteClient` (the same bounds), and the udpstream runs
`MCUdpstreamServer` (ports 2..7 scaled down, two commands, five descriptors).

| Run | cfg | Result | What it shows |
|---|---|---|---|
| `listener` | `MCListenerSetup.cfg` | pass | The composed model. It checks `LSTypeOK`, `InUseReturnLeavesNoSocket`, `ReturnedSocketsServing`, `RetryScansInOrder` and `LoopTerminates` under weak fairness of the caller's steps. It also checks the properties of the option setup. `SetupNeverSilentlyWrong`: every requested option holds the value spec 4.1 asks for (twice the request for buffers), or the attempt that decided it warned, so a kernel clamp is never taken for success. `PrivilegedBuffersExact`: with CAP_NET_ADMIN, a buffer size of at least half the kernel minimum is exact even above `rmem_max`. 312 120 distinct states. |
| `listener_error_leak` | `MCDualStackListener_NoLeakOnError.cfg` | violation | A device-bind failure returns -1 with both sockets still open (serverlib.c:302). |
| `listener_survivor` | `MCDualStackListener_SurvivorKept.cfg` | violation | An IPv6 `listen()` that finds the port in use closes the IPv4 socket, which is already listening, and reports `EADDRINUSE`. Spec 4.2 step 8 says the survivor is kept (serverlib.c:363). |
| `control_server` | `MCControlServer.cfg` | pass | `CSTypeOK`, `ControlLeavesOnlyControlSocket` (a returned control connection is the only descriptor left open) and the action property `TimeoutOnlyWhenIdle` (the wait times out only when no client is queued). |
| `control_timeout_leak` | `MCControlServer_NoLeakAfterListen.cfg` | violation | A timeout in `wait_for_data` returns NULL with both listening sockets open (serverlib.c:467). |
| `control_accept_abort` | `MCControlServer_AcceptFailureReported.cfg` | violation | A failed `accept()` reaches `assert(control_sock > 0)` in `get_socket_address` before the `control_sock < 0` check (serverlib.c:481). |
| `control_no_stdin` | `MCControlServer_NoStdin.cfg` | violation | With stdin closed, the IPv4 listener is descriptor 0. select() never watches it, so a queued IPv4 client is turned away by the timeout (testlib.c:446). |
| `remote_client` | `MCRemoteClient.cfg` | pass | The connector's properties: `ConnectAttemptsCapped` (at most `MAX_CONNECT_ATTEMPTS` refused connects, giving up exactly at the cap, a session only on a socket connected before it), `UpgradeAllOrNothing` (a session only with no SSL context or a matching certificate, holding exactly one new descriptor, otherwise the socket is closed) and `ConnectReturns`. Then `ResultOnlyForRequestedTest` (a result is printed only after an OK RESPONSE and for the requested test type), `RemoteClientEnds` and `RCTypeOK`. 29 472 distinct states. |
| `connector_leak` | `MCConnector_NoLeakOnConnectFailure.cfg` | violation | A device-bind failure returns -1 with the socket open (serverlib.c:563). The source-bind (582) and attempt-cap (609) paths leak the same way. |
| `connector_no_stdin` | `MCConnector_NoStdin.cfg` | violation | With stdin closed, the connected socket is descriptor 0. `sock > 0` is false, so it is neither upgraded nor closed (serverlib.c:692). |
| `udpstream` | `MCUdpstreamServer.cfg` | pass | `UTypeOK`; `ReadyAnnouncesTestPort` (READY names the port the test socket is bound to after the port scan); `RepliesFollowCommands` (the replies are exactly those of the handled commands, in order); `SessionEndReleasesTestSocket`. 37 376 distinct states. |
| `udpstream_malformed_crash` | `MCUdpstreamServer_NoCrash.cfg` | violation | A packet that does not unpack makes `serve_test` dereference NULL (udpstream_server.c:241). Spec 7 (c) says a protocol violation does not crash the process. |

**Bounds.**

* Two ports are enough for the retry loop to move on once and to exhaust
  the range.
* Five descriptors cover stdin, stdout, stderr and one socket per family.
  The control server needs one more for the accepted socket. The
  connector needs one socket.
* Three connect attempts let the peer come up after zero, one or two
  refusals, or never. Larger caps repeat the same steps.
* The udpstream ports keep the code's order:
  * a reserved port (2 < 3);
  * the default port 4, with a scan to 5;
  * a fixed port 6.

  Every occupancy of 2..7 is an initial state, and other processes change
  it between attempts.
* The option sizes are in abstract units, with `rmem_max` = 4, minima 4
  (receive) and 6 (send), and MSS range 2..5. There are three requests:
  * the control connection's, with nothing beyond `SO_REUSEADDR`;
  * one with a valid MSS, Nagle off, a receive buffer under `rmem_max`,
    a send buffer above it, and DSCP 46;
  * one with MSS, receive and send buffers all below the kernel minima.

  With CAP_NET_ADMIN and without, on stream and datagram sockets, these
  reach every outcome of each attempt: stored, clamped to the minimum,
  capped at `rmem_max`, refused, and rescued by FORCE.
* Two commands are enough for SEND and RECEIVE in either order and for
  each failure after a handled command.
* Every combination of occupancy of the two ports by other processes is
  an initial state, and `OtherProcess` can change it between any two of
  our calls.

**Fairness.** The caller is one thread that runs each system call to
completion, so `WF_vars(Listener)` is assumed for our steps. In the
composed model it is `WF_vars(~aborted /\ Listener)`, because an aborted
process takes no more steps. Every such step of `LSNext` is a
`ListenerWithSetup` step. Nothing is assumed of the other processes.

### Proofs

`DualStackListenerProofs.tla` proves, for every port range and every
`NFds >= 3`:

* `TypeCorrect`, `InUseReturnClean`, `ReturnedSocketsCorrect` and
  `RetryScanCorrect`, which are `Spec => []P` for the type invariant and
  for three invariants the `listener` run checks on the composed model;
* `IInvInvariant`, the invariant they rest on.

The invariant `IInv` is the conjunction of two parts.

* **`DescInv`.**
  * The descriptor table equals the table at the start of the call plus
    one fresh, distinct descriptor per live socket.
  * Inside `start_listening`, `sockets[f] # -1` exactly when family f has
    a live socket. This is false after a failed bind (the code closes
    without resetting) and at the loop head, so those points are excluded.
  * `Stage` gives the socket states allowed at each point of the code.
* **`Scan`.** This is the record of the retry loop.

The properties themselves are not inductive. Closing `Opened` on a bind
failure gives back the table of the call only because the descriptors
were fresh and match the live sockets. The states at the return of 0 are
right only because each earlier stage left the sockets in the state that
`Stage` records.

The proof has one lemma per action. `BindFamilyDesc` and
`ListenFamilyDesc` cover both families. `CloseOpened` is the close-all
path shared by bind and listen. `ScanStep` covers the loop record.

`LoopTerminates` is checked only by TLC: liveness is out of TLAPS's reach.

`ConnectorProofs.tla` proves, for every `MaxConnectAttempts >= 1` and
every descriptor table:

* `ConnTypeCorrect`, `AttemptsCapped` and `UpgradeAtomic`, which are
  `Spec => []P` for `ConnTypeOK`, `ConnectAttemptsCapped` and
  `UpgradeAllOrNothing`, the connector invariants of the `remote_client`
  run;
* `CInvInvariant`, the invariant they rest on.

`CInv` records the state at each point of `connect_control_server`:

* before `socket()`, no socket and the table of the call;
* from `socket()` until the return, `Fresh` holds: the socket is a
  descriptor that was not open at the call, and it is the only one added;
* the attempt count is below the cap and the socket unconnected while the
  loop runs, and it is connected at the upgrade;
* at the return, `RetInv` says what each return path leaves.

The properties alone are not inductive. `UpgradeAllOrNothing` holds after
a failed upgrade only because closing the socket gives back the table of
the call, which needs `Fresh`. `ConnectAttemptsCapped` holds for a session
only because the count stays below the cap until the connect succeeds.
There is one lemma per action. `ConnectReturns` and `RemoteClientEnds`
are liveness properties, so they are checked only by TLC.

`ConnectorProofs.tla` also proves `Refinement`, `Spec => Abs!AbsSpec`, for
every cap. `RefineInit` maps the initial states. `RefineStep` maps every
step under `CInv`, with one case per action:

* a step before the return is a stutter of the abstract variables
  (`RunningStutters`);
* a refused connect is `Refuse`, or `Exhaust` when the count reaches the
  cap (it uses `CInv`'s bound on `attempts`);
* a failed upgrade or any other failing return is `Abort` (`FailAborts`);
* a successful upgrade is `Establish`. `acceptable` holds because
  `Upgrade` returns a session only without SSL or with a matching
  certificate.

The refinement is proved for the safety part `Abs!AbsSpec`; that the
call returns is `ConnectReturns`, which TLC checks.

`ListenerSetupProofs.tla` proves `SetupCorrect` and `BuffersExact`, which
are `LSSpec => []P` for the two option properties of the `listener` run.
They hold for every `rmem_max`, MSS range, set of requests, and pair of
even kernel minima. The argument rests on lemmas about the pure functions:

* `TryStep`: one attempt writes only its own field and adds only its own
  name to the warnings. When it logs nothing, the field is exactly what
  was asked for (twice that for buffers). For buffers this follows from
  `StoredShape`: the kernel stores only even sizes, so `v == verify / 2`
  forces `verify = 2 * v`. It is the one place where the even minima are
  needed.
* `TryBufferStep`: the FORCE fallback leaves twice the request, or both
  attempts warned. With CAP_NET_ADMIN and a request of at least half the
  minimum, the FORCE call always succeeds.
* `SetupSound`: the whole chain of `do_socket_setup`. Each stage leaves
  the earlier fields alone (`Later`), and `SetDscp` touches only the
  traffic class.

The invariant `SetupInv` adds what keeps these facts true over a run. The
request never changes (`RequestFixed`), and only `OpenV6Setup` writes the
option fields of a family.

`ControlServerProofs.tla` proves `OnlyControlSocketLeft`: `CSSpec =>
[]ControlLeavesOnlyControlSocket`, the invariant of the `control_server`
run, for every port range and descriptor table in which descriptor 0 is
inherited (`StdinOpen`). The hypothesis is needed. With stdin closed a
listening socket can be descriptor 0; the code closes only descriptors
above 0, and the `control_no_stdin` run shows what then goes wrong.

The invariant `CSInv` follows `listen_control_server` through its points:

* in the retry loop, `DescInv` of `DualStackListenerProofs` holds, the
  table at the call is the table at the start, and a loop that ended
  with success left the sockets `Consistent`;
* while waiting and at `accept()` (`Listening`), the descriptors added
  to the inherited ones are exactly those of the live listening sockets,
  none of them inherited;
* from a successful `accept()` on, the accepted socket is the one
  descriptor added.

The key step is `AcceptCS`. With 0 inherited, every live listening
socket has a descriptor above 0, so the code's "close those > 0" closes
exactly the live ones; and the accepted descriptor was free, so it is
neither inherited nor one of them. The loop steps reuse the per-action
lemmas of `DualStackListenerProofs`.


It also proves `CSTypeCorrect` (`CSSpec => []CSTypeOK`) with no hypothesis
on stdin. Its invariant `CSTInv` adds two facts to `CSTypeOK`:

* `DescInv` holds inside the retry loop;
* at `accept()`, `family` is a real family. The code sets the accepted
  socket's source address from it.

`TimeoutIdle` proves the action property `TimeoutOnlyWhenIdle` of the
`control_server` run under `StdinOpen`, from `CSInv`:

* while waiting, `outcome` is still `"none"`, so only `WaitForData`'s
  timeout branch can set it to `"timeout"`;
* that branch requires `Readable = {}`;
* `ListeningWatched`: with 0 inherited, every listening socket has a
  descriptor above 0, so `select()` watches it, and a queued connection
  on it would make it readable.

`ListenerSetupProofs.tla` also proves `LSRetryScanCorrect`
(`LSSpec => []RetryScansInOrder`), the retry-loop property for the
composed listener the `listener` run checks. `ListenerStep` shows that
every composed step is a step of `DualStackListener`, so `IInv` is
inductive for `LSNext` too, and `RetryScansInOrder` follows from its
`Scan` conjunct.

`ListenerSetupProofs.tla` also proves `LSTypeCorrect`
(`LSSpec => []LSTypeOK`). Its invariant `LSTInv` is `DescInv` of the
listener together with `SetupInv`, plus the types of the option fields:

* `ListenerProjects`: every step of the composed listener keeps `DescInv`,
  because it is a step of `DualStackListener`;
* `SetupSound` also states that `do_socket_setup` returns a record of
  `St`, which types `kopt` and `warned`.

`UdpstreamServerProofs.tla` proves three theorems for every port range,
`IPPORT_RESERVED`, set of HELLO ports, command bound and descriptor table:

* `UTypeCorrect`: `Spec => []UTypeOK`;
* `ReadyPortCorrect`: `Spec => []ReadyAnnouncesTestPort`;
* `SessionEndClean`: `Spec => []SessionEndReleasesTestSocket`, under
  `StdinOpen`.

They rest on the invariant `UInv == UTypeOK /\ UCtl /\
ReadyAnnouncesTestPort`. `UCtl` records what holds at each point of
`serve_test`:

* after the HELLO, `portmax` is `MAX_TEST_PORT` for the default port and
  the asked port otherwise (`PortMaxFor`);
* while listening, the port tried lies between the HELLO's port and
  `portmax`;
* in the command loop:
  * the test socket is the one `start_listening` bound on the control
    connection's family, on the port it reported;
  * the descriptor table is the inherited one plus that socket;
  * `result` is 0.

`ReadyAnnouncesTestPort` is not inductive by itself. A READY appended to
the replies names `tport` correctly only because `UCtl` ties `tport` to
the bound socket at the moment `Serve` sends it. `AppendResult` and
`AppendReadyResult` carry the property over the reply sequence.
`SessionEndClean` needs `StdinOpen` for the reason `ControlServerProofs`
does: the code closes only descriptors above 0.

`RepliesFollowCommands` is checked only by TLC. It compares the replies
with `FlattenSeq` of the commands. Proving it would need induction over
the sequence, and the provers cannot instantiate the library's induction
theorems.

`RemoteClientProofs.tla` proves two theorems for every
`MaxConnectAttempts >= 1` and descriptor table:

* `RCTypeCorrect`: `RCSpec => []RCTypeOK`;
* `RequestedResultOnly`: `RCSpec => []ResultOnlyForRequestedTest`.

Their invariant `RInv` is the connector's `CInv`, the client's types,
`RCtl` and the property itself. `RCtl` says three things:

* before the response is read, nothing has been received or printed;
* while the result is read, exactly one packet has been received;
* that packet parsed as a success response.

`ResultMeans` shows that `ResultOutcome` yields `"result"` only for a
RESULT packet of the requested test type that carries data. The
connector's steps reuse the lemmas of `ConnectorProofs`.

Writing these proofs found three definitions whose `CASE` arms overlapped:
`ResultOutcome`, the port checks of `ReadHello`, and `KernelStores`. TLC
takes the first true arm, while TLA+ leaves the choice among true arms
unspecified. The three definitions now follow the code's `if`/`else`
order, with exclusive arms; the runs reach the same states as before.

Only TLC checks these:

* the liveness properties `LoopTerminates`, `ConnectReturns` and
  `RemoteClientEnds`.
  TLAPS cannot reason about `ENABLED` and fairness here.
* `RepliesFollowCommands`, because of the induction over data.
