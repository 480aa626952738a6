# Models of the elasticity testbed, the RPC and TLS experiments, the load tests and the trace tools

This directory holds TLA+ specifications of the programs of this repository that have state
worth reasoning about, the TLC configurations that check them, and machine-checked proofs
(TLAPS) of their most important invariants. The repository is a collection of experiments, not one
system. The model follows that: one group of modules per experiment, and inside a group one module
per component, abstract specifications of what a component promises, and modules that instantiate
them for TLC.

Contents: 1 Inventory. 2 Modules and code. 3 Runs, bounds, results. 4 Fairness and timing.
5 Proofs. 6 Findings and other behaviour worth knowing. 7 What is not modelled. 8 Plan.


## 1. Inventory

### Elasticity testbed (`kubernetes/elasticity`)

A load generator sends HTTP requests to a load balancer, which forwards each to one of the pods
that run the spin server; Kubernetes scales the pods meanwhile.

**Load balancer**, `cmd/lb/main.go`.
- State: `struct LB`: `podIPs` (ordered list of backends), `outstandingReqs` (a counter per address,
  never deleted), `idx` (round-robin position), all under `mu`; the type of balancing, fixed at the
  start.
- Operations: `monitorPods` reads the endpoints object every five seconds (line 20) and calls `updatePodIPs`;
  `lbHandler`, one goroutine per request, picks a backend (`getBackendPodAddrRR` or
  `getBackendPodAddrClntSideQLen`), forwards, copies the reply, and in a deferred call puts the
  backend back (`putBackendPodAddr`).
- Interaction: Kubernetes' API (endpoints, restart of a dead container), the spin servers over HTTP.
- Hard: pick and put are two critical sections with a network call between them; a pod may leave, or
  leave and return, while requests to it are out; the snapshot of the endpoints is stale when it is
  applied; `updatePodIPs` edits a slice while walking it; several `log.Fatalf` and one panic take
  all requests in flight with them, and clients that go on calling can make them happen again after
  every restart; the search uses -1 for "none yet".
- Correct if: counters account for the requests in flight; a request always finds its counter at
  its put; round robin is even; the choice follows the real load; `podIPs` follows the endpoints;
  a forwarded request always ends.

**Spin server**, `cmd/spinhttpsrv/main.go`.
- State: a channel `q` to `nslots` worker goroutines; `qlen`, an atomic counter; per request the fields
  its handler and its worker fill in; the request-rate estimator `reqCnts`, `reqCntIdx` under `mu`.
- Operations: `spinHandler` (`newReq`, `updateRequestRate`, `enqueue`, wait, print) and `worker`
  (take, spin, fill in, `done`).
- Hard: queue length and channel are updated in separate steps; a request changes owner twice; the
  estimator reads the clock before it takes the lock; a single slot makes `rand.Int63n(0)` panic.
- Correct if: `qlen` agrees with the channel; a request has one owner; replies are complete and each
  accepted request gets one; the rate is that of the previous five seconds.

**Load generator**, `loadgen/loadgen_test.go`: starts `-rps` requests a second, waits for all of them, prints latency statistics. Not
modelled (section 7); to the load balancer it is the environment that sends requests at any time.

### RPC experiment (`load-balancing/proxy`)

A client makes `nrpc` calls to an echo server, directly or through `netproxy` (TCP) or `pipeproxy`
(a Unix socket to the client).
- State: per process its place in the protocol, its loop counter, the two buffers every frame of a
  connection is read into; per connection two byte streams.
- Operations: `frame.ReadFrameInto`, `WriteFrame`, `ReadUint32`, `WriteUint32`; `rpc.ClientRPC`,
  `ServeRPC`, `ProxyRPC`, `InformNRPC`, `GetNRPC`; the four mains.
- Hard: streams are bounded and frames are not; every error is fatal and the peers find out by
  reading or writing; `nrpc` is an `int` in each process and a `uint32` on the wire; a frame longer
  than its buffer is refused after its length has been consumed.
- Correct if: frames stay aligned, calls return their own message, the proxy is transparent, nothing
  fails without a cause, and a failure anywhere reaches everybody.

### TLS experiment (`tls`)

A client measures the time of `ndial` concurrent dials and handshakes with a server.
- State: a wait group, an unbuffered channel of times, and `err`, a variable of `main` that all goroutines assign and test; the
  server has none beyond the connection it serves.
- Operations: the client's `main` (add, spawn, wait, receive, print) and its goroutines (dial, test `err`, handshake, `Done`, send); the
  server's loop of accept and handshake.
- Hard: assignment and test of `err` are separate and unlocked; `Done` and send have an order that the receiver depends on; the
  first error of either process is its end, and the other's too.
- Correct if: the printed average is that of successful dials only, one time of each, and the client always prints or dies.

### Seccomp test function (`lambda/seccomp-allowlist`)

A Lambda function that plays server and client of one TCP connection in one process and reports which system calls failed.
- State: per invocation a map of results under a lock, the two file descriptors of the server, that of the client; the kernel's sockets, which
  outlive the invocation, as the client goroutine may.
- Operations: `HandleRequest`, `socketSrv`, `socketClnt`, `AddResult`.
- Hard: the map is marshalled without the lock and without waiting for the client; an end of one side changes what the other's calls
  return; a connection closed by the server first keeps the port; a call that is denied may leave the other side waiting.
- Correct if: a report that names failures names one with a cause of its own, a report of a message read is that of this
  invocation's client, and an invocation returns wherever its client can be heard.

### Service-discovery load tests (`load-balancing/service-discovery`)

Tests that register, deregister, read and watch keys of etcd or consul under load.
- State: the registry, which outlives the process; in etcd's watch tests a `WatchMap` from keys to
  `sync.WaitGroup`s, the watchers, a shared channel `done`.
- Operations: `populateRegistry`, `checkRegistry`, the request functions of the load generator, `watcher`.
- Hard: a killed run leaves entries behind, and requests are numbered from the start again; a call that fails may have
  been carried out, and the assertion on its error does not stop the test, which goes on to wait or to read a reply it did not get; a request waits
  for acknowledgements that only *create* events cause; one-shot and stable watchers receive from the same
  channel; one-shot watchers only return if an event comes after they have begun to watch.
- Correct if: a run that goes on measures a clean registry, the assertions of the tests hold, wait
  groups count exactly the watchers that have yet to hear, and every test ends and leaves no stable
  watcher running; a call that fails changes only what it must.

### Trace tools (`scripts`, `compute_ptt_c`)

**Trace ingestion**, `scripts/alibaba-cluster-trace-mem.py`: reads CSV files, writes one parquet
file per batch, and in incremental mode `_metadata.json` with the files ingested and the next batch.
- Hard: neither file is written atomically, a directory is removed entry by entry, runs in different
  modes share a directory, a run may be killed anywhere.
- Correct if: metadata and parquet files agree, no file is stored twice, none is skipped, `--reset`
  starts fresh.

**Peak-to-trough program**, `compute_ptt_c/compute_ptt.c`: groups the sorted rows of a query by
instance, gives each of several threads a chunk of instances, computes for each the largest ratio
of maximum to minimum in a sliding window, and writes a CSV when a counter says all are done.
- Hard: chunks of rounded-up size, more threads than instances, a polled counter, two-index windows
  over equal timestamps and gaps.
- Correct if: every instance is loaded whole, computed once, by one thread, with the right result, and
  the poll loop ends.

### The rest

The other programs of `lambda/*`, `docker/*`, `spin/c`, `websrv`, `cgroups/net`, `netperf`, `netns`, `mem/imgresize`,
`ray`, the shell scripts and the remaining Python: small sequential measurements and configuration. Section 7
says of each why it is not modelled; `PROJECT.json` lists all of them.


## 2. Modules and code

An operator pair in a module, such as `AlwaysFirst` and `RRIndex`, is a slip the code could contain and what the code
does. No action uses the slip. Replacing the second by the first must make the property named for
it in `PROJECT.json` (`mutants`) fail; that is how each property is shown to depend on the code.

| Module | Models | State and actions |
|---|---|---|
| `BackendTable` | the data of `struct LB` | the variables `podIPs`, `outstandingReqs`; operators on counters and lists; `IsUpdateOf` and `PickSet` say what the two loops compute, over every order of Go's map ranges |
| `BackendCalls` | `updatePodIPs` then `getBackendPodAddrClntSideQLen`, one action per iteration | `RemovePod`, `KeepPod`, `RemovalDone`, `AddPod`, `StartSearch`, `Visit`, `Return`; specification `CallsSpec`; shows that the operators of `BackendTable` are what the loops return; `ScanAlong` is the search as a function of the order of the keys |
| `LoadBalancer` | the whole program; extends `BackendTable` | `MonitorGet`, `MonitorUpdate`, `MonitorPanics`, `MonitorGetFails` are `monitorPods`; `PickRR`, `PickClntSideQLen`, `PickFatal`, `ProxyReturns`, `CopyBody`, `Put` are `lbHandler`; `Arriving`, `Restart`, `EndpointsChange`, `ApiToggles` are the environment: clients call again and again, one call at a time each |
| `RequestRate` | the estimator of the spin server | `Sample` reads the clock, `Update` and `GetRate` are the two critical sections |
| `RequestRateHistory` | `RequestRate` with the history its properties speak of | same actions, same behaviours |
| `SpinSrv` | handlers, workers, queue and `qlen` of the spin server | one action per atomic step of `spinHandler`, `enqueue` and `worker`; `HandOver` and `HandBack` are the two rendezvous |
| `SpinService` | what the spin server promises | accept, start on one of `slots`, answer; implemented by `SpinSrv` |
| `RpcChain` | client, proxy, server, and the streams between them | a process is the script of its reads and writes; one action per unit read or written, per failure, and per step of start-up |
| `Echo` | what a client of the chain is promised | call, serve, return, lose; implemented by `RpcChain` |
| `RegistryTest` | the register/deregister/get tests of both load tests, and the registry that outlives them; operators and actions for `EtcdWatchTest` | `Begin`, `Populate`, `CheckInitial`, `Request`, `Register`, `Deregister`, `Read`, `Finish`, `CheckFinal`; the same calls failing, done or not: `PopulateFails`, `CheckFails`, `RegisterFails`, `DeletePanics` (etcd), `DeregisterFails` (consul), `ReadFails`; `Crash` |
| `EtcdWatchTest` | all tests: those of `RegistryTest`, which it extends, and etcd's two watch tests, on one registry | adds `WatchMap` (`AddGroup`, `CountWatchers`, `Wait`), watchers (`Hear`, `HearOnce`), the goroutine that writes the dummy key, the stops (`StopWatcher`), etcd's delivery of events (`Notify`), and the failures of its own calls (`PutFails`, `DeleteFails`, `PutDummyFails`, `DeleteDummyFails`) |
| `TraceIngest` | one run after another of the ingestion | one action per change to the disk, so that a run can be killed between any two |
| `SlidingWindow` | `sliding_max_ptt` as an operator, and the definition it is compared with | `Advanced` is the inner loop, `Lefts` and `SlidingMaxPtt` the outer one, `IsLargestRatio` the definition |
| `ComputePtt` | loading, threads, poll loop; extends `SlidingWindow` | `LoadRow`, `LoadEnds`, `StartThreads`, `CreateThread`, `Compute`, `CountDone`, `PollEnds`, `JoinAndWrite` |
| `TlsDial` | client and server of the TLS experiment | `AddToGroup` to `PrintAverage` are the client's `main`; `DialConnects`, `DialShakes`, `DialFails`, `TestErr`, `Handshake`, `Done`, `Send` a goroutine; `Listen`, `Accept`, `HandshakeSucceeds`, `HandshakeFails` the server |
| `SeccompTest` | invocations of the seccomp function, one after another in one process, with client goroutines and kernel sockets | one action per system call of server (`Srv...`) and client (`Clnt...`); the server's include their `AddResult`, the client's are followed by it; `MarshalBegins`, `MarshalEnds` |
| `LoadBalancerProofs`, `SpinSrvProofs`, `RpcChainProofs`, `EtcdWatchTestProofs`, `TraceIngestProofs`, `ComputePttProofs`, `TlsDialProofs`, `SeccompTestProofs` | theorems and their proofs | section 5 |
| `MC...` | instances for TLC | section 3 |

How they compose: `LoadBalancer` uses the two loops as operators of `BackendTable`; `BackendCalls`
runs the loops and shows that the operators are exact. `SpinSrv` takes the estimator as one critical
section each for update and get (its value is not used by anything else in the server) and `RequestRate`
opens those. The load balancer sees a spin server only as a call that returns or fails
(`ProxyReturns`), and the spin server sees the load balancer only as requests: `SpinService` is the
interface. The programs of different groups never meet; their modules do not either.

What is abstracted everywhere: log lines, URL and JSON text, addresses (a pod stands for `ip:8080`, the
mapping is one-to-one), durations of spins, contents of payloads beyond which call they belong to.


## 3. Runs, bounds, results

All runs are exhaustive. Deadlock is checked for the load balancer, which never stops, and for the estimator; the other
programs end or may wait for ever by design, so `CHECK_DEADLOCK FALSE` there, and liveness properties say that they end where they should.
Type invariants are part of the inductive invariants of the proofs and are not checked again.

| Run | Module | Question and result | Bounds, and why they are enough |
|---|---|---|---|
| `lb` | `MCLoadBalancer` | With either type of balancing, and with one the program does not implement: `CountersAccountForRequests`, `EveryRequestHasACounter`, `RoundRobinIsEven`, `PicksLeastLoaded`, `ForwardedRequestsEnd`, `MonitorConverges` hold | 2 pods, 2 clients that call again whenever their last call has ended; pods may leave and return any number of times, the process may die and restart. Round robin counts its picks without end, so `idx` is bounded (`MaxPicks`): after 3 picks in a process round-robin calls wait for a restart; deaths are not bounded. Two pods give a survivor, a newcomer, a reordered list and a returning pod; two calls give one out across a reset and one before or after; three picks go once round the list and begin again. All but the liveness is proved for all sizes (section 5) |
| `lb_not_a_backend` | `MCLoadBalancer` | `PicksABackend` is violated: section 6 | 2 pods, 3 clients |
| `backend_calls` | `MCBackendCalls` | The loops return the ready pods in the right order (`ReturnsTheReadyPods`), start exactly the new counters at 0, panic exactly when the first pod of the list is gone, return an address `PickSet` allows and every one it allows, and terminate | every list of up to 3 pods, every ready set, every table with counters -2, -1, 1 on any keys: removal at the front, in the middle, at the end, and of neighbours; the sentinel and both sides of it. All but termination is proved for all sizes |
| `request_rate` | `MCRequestRate` | `BucketsAreExact`, `RegularGetsAreExact` hold | 2 callers, 4 periods, 2 updates per bucket: each bucket is used, left and used again. Proved for all sizes |
| `spin_srv` | `MCSpinSrv` | `QLenIsExact`, `OneOwner`, `RepliesAreComplete`, `EveryRequestIsAnswered` and the refinement `ServiceSpec`, with its liveness, hold | 3 requests; one or two slots: with two, a request has to queue while both are busy, and one slot is the case that crashes. Safety, of the refinement too, is proved for all sizes |
| `rpc` | `MCRpcChain` | `FramesAreAligned`, `RepliesAreEchoes`, `FailuresHaveCauses`, `EveryoneConnectedEnds` and the refinement `EchoSpec` hold through a proxy | streams of one unit, so that every write may block; message buffers of 2 and messages of 0 to 3 units, addresses of 1 and 2 with buffers of 1; `nrpc` of -1, 0, 1, 2 and 4 with a `uint32` of 4 values, so that 4 becomes 0 on the wire. A chain without the proxy behaves like the hop between proxy and server. All but `EveryoneConnectedEnds` is proved for all sizes |
| `etcd_tests` | `MCEtcdWatchTest` | `AcksAreCounted`, `WatchersAreStopped`, `RegistryIsClean`, `AssertionsHold`, `TestsEnd` hold for each of the five tests, any call of which may fail | 2 requests, 2 entries at least, a stable and a one-shot watcher; with a second stable watcher and calls that fail there are two million states, too many for the liveness, and the safety is proved for any number; one run on any registry contents, killed anywhere: what earlier runs do to a later one they do through the registry alone. All but `TestsEnd` is proved for any sizes and any number of runs |
| `ingest` | `MCTraceIngest` | `PartsMatchMetadata`, `EachFileOnce`, `ResetStartsFresh` hold | 3 files, `--n-files` 0 and 1, 4 runs in all modes but a standard run with `--reset`, killed anywhere |
| `ingest_reset` | `MCTraceIngest` | `ResetStartsFresh` is violated by a standard run with `--reset`: section 6 | 3 runs, none killed |
| `compute_ptt` | `MCComputePtt` | `ComputedOnce`, `ResultsAreLargestRatios`, `Ends` hold | up to 6 rows of up to 5 instances with 0 (clamped to 1), 2, 3 and 4 threads: more threads than instances, chunks that do not divide; and up to 4 rows with all timestamps 0..3 and values 0..2 for windows of 1 and 2: equal timestamps, gaps, the value 0. All but `Ends` is proved for all sizes |
| `tls_dial` | `MCTlsDial` | `AverageIsOfDials`, `ClientEnds` hold | up to 3 goroutines, `ndial` from -1 to 3, a known and an unknown kind of proxy, certificates that match or not; a server that is absent, comes late or dies. Two goroutines are enough for one to see the other's error, three for one to see it go again |
| `seccomp` | `MCSeccompTest` | `ReportsNameACulprit`, `ReadMeansConnected`, `InvocationsReturn` hold | 2 invocations, each of the 256 sets of denied calls: an earlier client and an earlier port meet a later server. Safety is proved for any number of invocations |

What some of the less obvious properties say:

- `AverageIsOfDials`: a goroutine that sees another's nil error instead of its own goes on with a connection that is nil. It is the panic at the
  handshake that keeps its time out of the average, not the test.
- `ReportsNameACulprit`: failures cascade (no accept, then no read). Whatever subset of the client's results the unlocked marshalling
  catches, the report still holds a failure with a cause of its own: one that the filter denies, or a port still in use.
- `ReadMeansConnected`: what the report may miss of the client's results came after the message.
- `TestsEnd` has two parts. If no call fails, every test that begins ends. Whatever fails, it ends unless a Put of a request has failed without
  being carried out (`PutWasLost`), or the dummy writes of the second watch test never reach the registry while a one-shot watcher waits for them.
- `AcksAreCounted`: a wait group counts the stable watchers in whose stream the create of its key is still to come, and a stream may also hold
  creates and deletes of other requests and of the dummy key.

- `CountersAccountForRequests`: a counter is *not* the number of requests in flight. It is that number less the requests
  that were out when `updatePodIPs` last set it to 0, because the pod had left and come back. The history variable
  `lostCount` is that difference. The property holds through every interleaving, and shows exactly when the
  counter lies.
- `PicksLeastLoaded` therefore carries the condition that no counter has lost a request.
- `PickSetIsExact` compares `PickSet` with the search along all orders of the keys (`ScanAlong`). When the minimum is the sentinel -1, the
  search forgets it and any key may win.
- `BucketsAreExact` carries two conditions, in history variables: every call takes the lock in the period in which it read
  the clock (`prompt`), and no period passes without a call (`dense`). Without either the estimator is wrong, and the code
  has no remedy (section 6).
- `PartsMatchMetadata` makes the batch after the last recorded one an exception: a run killed between parquet file and
  metadata leaves it, and the next run overwrites it, with the same files among others. That order of the two writes
  is what makes the ingestion restartable. Directories that a kill has left torn are excepted (section 6).
- `MonitorConverges` has a third premise, besides endpoints that stop changing and an API server that answers: from some time on calls no
  longer kill the process (`CallsStopKilling`). Under `clntsideqlen` it is not needed, and the property does not ask for it there. Under
  round robin a call that comes between a restart and the first update finds no backends and kills the process (line 115), and with a type
  that is not implemented every call does (line 146): clients that never pause can do that for ever, and then `podIPs` never stays
  anything. Without the premise TLC shows that behaviour at once. The code does not make clients wait; the premise is about them.


## 4. Fairness and timing

- `LoadBalancer`: weak fairness of the monitor and of `Restart` (`restartPolicy: Always` in
  `kubernetes/lb/*.yaml`), and of a handler once its request is forwarded: `http.Client.Timeout` of 20 minutes bounds the
  call and the reading of the body (line 54). Clients need not come, and may never stop coming; the endpoints need not change.
  `MonitorConverges` assumes that the endpoints stop changing, the API server stays up and, but under `clntsideqlen`, calls stop killing the process (section 3).
- `SpinSrv`: weak fairness of each handler after its request was made and of each worker: Go runs goroutines that can run,
  and a spin has a bounded duration. A request that waits for a slot is served because a worker that is idle finds it
  waiting, and there are finitely many in the run.
- `RpcChain`: weak fairness of each started process. Nobody need ever be started, or be left alive.
- `TlsDial`: both processes run (weak fairness of the client's main and goroutines and of the server's loop). The server need not be
  started, and the network may fail at any time but need not: `tls.Dial` has no timeout, so nobody can count on it.
- `SeccompTest`: goroutines run as long as an invocation is under way; in between Lambda may freeze the process, so a client goroutine that is left
  over is not promised to go on. The kernel need not forget a lingering connection.
- `EtcdWatchTest`, and with it the tests of `RegistryTest`: weak fairness of the main goroutine, the dummy writer, requests begun and watchers: etcd answers, be it with an error, and delivers. A call that fails is carried out
  by the time it returns or never. One
  timing assumption: the third goroutine sleeps for `dur` (10 s by default) between its writes, and etcd registers a watch in less
  (`Awake`); `elapsed` counts these sleeps.
- `BackendCalls`, `ComputePtt`: the program takes steps; in `ComputePtt` also the threads.
- A request of a killed test or run is carried out at the time of the kill or never (`Dies`).


## 5. Proofs

`tlapm` checks every proof from nothing with Z3, Zenon and LS4. Assumptions are those stated as `ASSUME` in the modules, and TLC evaluates each:
pods and clients are finite sets, `""` is no pod, and the bound on picks is a natural number (`BackendAssumption`, `RequestAssumption`), counters are integers (`CountsAssumption`); the clock bound is a natural number
(`PeriodAssumption`); requests and workers of the spin server are finite sets (`SpinAssumption`); lengths and buffers of
the RPC experiment are natural numbers, and a stream and a `uint32` hold something (`ChainAssumption`); the keys of the load tests and what
may be registered before are finite sets, watchers of the two kinds differ, the dummy key is none of the others
(`RegistryAssumption`, `WatchAssumption`); CSV files are finitely many (`IngestAssumption`); the rows of a query come sorted
(`PttAssumption`); the bounds of `TlsDial` and `SeccompTest` are natural numbers (`DialAssumption`, `SeccompAssumption`). Where a
module bounds a counter (runs, invocations, dials), the theorems hold for every value of the bound.

`LoadBalancerProofs`, for any numbers of pods and clients, any number of calls by each, and any set of LB types:

- `TypeCorrect`: `Spec => []TypeOK`. `TypeOK` is inductive. Not immediate are the list that `updatePodIPs` leaves (`OrderingIsSeq`: a
  bijection from `1..Cardinality(S)` is a sequence), the picked address (`PickIsAddr`) and the domain of the counters, a
  Go map that grows (`AddToTable`, `ZeroAllTable`).
- `CountersAreAccounted`: `Spec => []CountersAccountForRequests`. With `TypeOK` the accounting is inductive; the argument is that each
  step changes the set of requests in flight at an address by at most one (`OneMoreInFlight`, `OneLessInFlight`, from the theorems
  on finite cardinalities) and the counter by as much, that `updatePodIPs` moves the whole difference into `lostCount`, and that
  the death of the process empties both (`NobodySurvives`). `AccountStep` has one case per action.
- `RequestsHaveCounters`: `Spec => []EveryRequestHasACounter`. Not inductive by itself: a round-robin pick takes an address from `podIPs`, so
  the invariant is strengthened by `EveryBackendHasACounter`. It holds because keys are never deleted.

- `LeastLoadedPicked`: `Spec => PicksLeastLoaded`. As long as no counter has lost a request a counter is the number in flight (by
  `CountersAreAccounted`), hence never -1, and then the search returns a smallest (`PickIsShortest`).
- `RoundRobinEven`: `Spec => []RoundRobinIsEven`. `EvenInv` relates the turns since the last update to the position: those before `idx` modulo the
  length of the list have had one more. `NextRemainder` is what `idx++` does to the remainder.

In the same module, of the two loops iteration by iteration (`BackendCalls`), for any finite set of pods, any list, ready set and table:

- `ReadyPodsReturned`: `CallsSpec => []ReturnsTheReadyPods`. `CallInv` says what the removal has decided so far: left of the index all are
  ready, right of it nothing is lost, and the order is the old one throughout (`HasSurvivors`, `InOldOrder`); while
  pods are added the survivors stay in front (`SurvivorsFirst`).
- `PanicExplained`: `CallsSpec => []PanicsIffFirstPodGone`. While the index stands at the first pod the list is as it was; once
  it has moved, the first pod has been kept and the index never becomes -1.
- `NewPodsCountedFromZero`: the action property `CountsOnlyNewPodsFromZero`: the pods that the loop finds missing are those not in the old list.
- `SearchReturnsAPick`: `CallsSpec => []ReturnsAPick`. `MinimumInv` is the loop's invariant: no visited counter is smaller than the one
  held, unless the search has held the sentinel -1, after which it may have forgotten it, but never anything below -1.
- `PickSetExact`: `CallsSpec => []PickSetIsExact`. That an order leads into `PickSet` (`ScanPicks`) is `MinimumInv` again, by induction
  along the order (`ScanKnows`). The other way round each address needs an order that leads to it: one with the address in front,
  if it has the least counter and that is not -1 (`FirstIsPicked`), and else one with a key of counter -1 just before it at
  the end (`AnyIsPicked`). They are made of any order by exchanging two keys (`OrderingSwapped`).

So what `LoadBalancer` takes for the two loops in one step, the loops do.

`SpinSrvProofs`, for any finite sets of requests and workers and any number of slots; each theorem rests on the one before:

- `RequestsHaveOneOwner`: `Spec => []OneOwner`. The strengthening adds that a worker has a request exactly when it is not idle
  (`BusyHaveJobs`) and that no handler outlives its process (`NoneSurvives`), without which a restart could meet a handler that waits for nobody.
- `QueueLengthIsExact`: `Spec => []QLenIsExact`. A request enters one of the two counted sets at the handler's add, moves between them at the
  rendezvous and leaves at the worker's add, so each step changes the sum of the cardinalities as it changes `qlen`.
- `SpinSrvTypeCorrect`: `Spec => []TypeOK`. `TypeOK` is not inductive: that `qlen` stays a natural number follows only from its being exact.
- `RepliesComplete`: `Spec => []RepliesAreComplete`. Strengthened by what the worker has filled in at each of its states and by
  `ArrivalCounted`, which uses `QLenIsExact`: a handler that loads `qlen` is itself counted, so it loads at least 1.

- `ServiceImplemented`: `Spec => Service!Init /\ [][Service!Next]_(Service!svars)`, the safety part of the refinement: no more requests are being
  served than there are slots, none is answered that was not, and with one slot none at all. Each step is mapped to the step of
  `SpinService` it is or to none (`ServiceStep`, one case per action); the bound on slots is that of a function from spinning workers
  onto the requests being served (`OneSlotFree`), and needs that workers beyond the slots stay idle (`SlotInv`).

In the same module, of the estimator (`RequestRate` with its history), for any set of callers and any length of time:

- `EstimatorTypeCorrect`: types, of the history variables too.
- `BucketsExact`: `HSpec => []BucketsAreExact`. The strengthening `BucketInv` adds that nothing has arrived in the future, that the last
  call was not in it, and that a call that is not prompt or dense stays on record. The core is `ClearedIsExact`: clearing on a switch, and
  only then, leaves the other bucket holding the previous period.
- `GetsExact`: the action property `RegularGetsAreExact`, from the same invariant.

`RpcChainProofs`, with a proxy or without, for streams and buffers of any capacity, frames of any length, any number of RPCs and any
width of `uint32`:

- `ChainInvariant`: `Spec => []ChainInv`. From the step of its script a process is at, and what is left of its frame, follow four positions:
  how much of the round's request it has sent and taken, how much of the reply it has answered and got. `HopInv` says of every
  two neighbours that they are in the same round, or the one downstream is ahead by one and the reply not yet read, and that
  each stream holds exactly the units between the two positions (`Carries`); `LocalInv` says what a process holds in its buffers. A
  unit written or read moves one position by one (`RequestSent`, `RequestTaken`, `ReplyGot`, `ReplyAnswered`), which is one unit more or less
  in one stream (`HopSends`, `HopTakes`, `HopGets`, `HopAnswers`), and the proxy's two hops do not disturb each other
  (`PositionsMove`, `HopElsewhere`). Any kind of death is allowed: a dead process keeps its positions.
- `Aligned`: `Spec => []FramesAreAligned`. The unit at the head of a stream is the one at the reader's position, which is the one it expects.
- `Echoes`: `Spec => []RepliesAreEchoes`, from `LocalInv` of the client.
- `Causes`: `Spec => []FailuresHaveCauses`. `CausesInv` adds that every process counts the client's number of RPCs and ends with the last. The
  core is `PeerEnded`: when a neighbour has ended, a process has nothing more to say to it, and what it has yet to read is in the stream.
- `EchoImplemented`: `Spec => EchoSpec`. `Echo` states no fairness, so this is the whole refinement. The positions order the three counters: a call
  is served after it was made (`served < called` when the server finishes its reply) and before it returns.

`EtcdWatchTestProofs`, for any numbers of requests, entries, watchers and runs, on anything earlier runs left, whatever calls fail; each rests on the one before:

- `RegistryStaysClean` and `AssertionsNeverFail`: `RegistryIsClean`, `AssertionsHold`. `CleanInv` adds that nothing is registered before the initial
  check, that populating precedes it, that only the watch tests write the dummy key, and that a lost Put has been noted as a failure.
- `AllWatchersStopped`: `WatchersAreStopped`. `WatchInv` adds that while requests run all stable watchers watch, that the one-shot watchers have returned
  before the first send, and that the sends received are as many as the watchers stopped.
- `AcksCounted`: `AcksAreCounted`. `GroupInv` adds that the create of a key is in a watcher's stream at most once and not before its `Put`, nor after one that was lost; the core is
  what appending to a stream and taking its head do to that (`AppendHas`, `TailHas`), and that one acknowledgement takes one watcher from
  those owed (`HearGroups`).

`TraceIngestProofs`, for any files, limits and number of runs, killed anywhere, assuming that no standard run uses `--reset` (line 474 then
leaves old batches: section 6):

- `MetadataTellTheParts` and `FilesAreStoredOnce`: `PartsMatchMetadata`, `EachFileOnce`. The inductive invariant says of every place a kill can happen
  what the disk holds: while nothing is half-removed the metadata and the batches match (`DiskMatches`); what a run knows is what the
  disk says until its batch is written, and then what it will say (`MemMatches`).
- `ResetIsFresh`: `ResetStartsFresh`, from the same and `FreshInv`.

`ComputePttProofs`, for any rows in the order of the query, any windows and any number of threads:

- `InstancesComputedOnce`: `Spec => []ComputedOnce`. Chunks of rounded-up size are disjoint and together reach the last instance (`ChunksAreDisjoint`); a
  thread has computed exactly the part of its chunk before its index (`InItsChunk`, `Covered`), and the polled counter is the number of
  instances computed and counted (`ChunkInv`), so that when it says that all are done, all are.
- `ResultsAreLargest`: `Spec => []ResultsAreLargestRatios`, in three parts. *One instance* (`SlidingMaxIsLargest`): in samples sorted by time the
  samples no older than the window are an interval that ends in the sample looked at (`WindowIs`), whose start never moves back
  (`WindowsMoveOn`); so the inner loop stops there (`AdvancedIs`) although it goes on from where it stood (`LeftsAre`), and as
  comparing ratios is transitive (`LargerIsTransitive`) the last ratio kept is the largest. *Loading* (`LoadInv`): what is loaded, with
  the instance being loaded, has one entry per id seen so far with all its samples (`Grouped`), since a row with another id than the row
  before it has an id never seen before (`GroupNew`), and these are sorted (`UpToIsSorted`). *Writing* (`ResultInv`): what was computed is that
  ratio, and main joins the threads only when the counter has reached the number of instances, which with `ComputedOnce` means
  that none is left (`AllComputed`).

`TlsDialProofs`, for any number of dials:

- `OnlySuccessIsAveraged`: `Spec => []AverageIsOfDials`. `ConnIsMade` says that without a connection a goroutine does not get past its
  handshake, whichever error it tested.

`SeccompTestProofs`, for any filters and any number of invocations:

- `ReadIsOfItsClient`: `Spec => []ReadMeansConnected`. Clients outlive invocations, so the argument is that where accept is allowed no earlier client is
  still to connect or to be accepted when a later server listens (`AllAccepted`, `OnlyItsClient`), and that a client notes its connect before it
  writes (`ReadIsWritten`).
- `FailuresAreExplained`: `Spec => []ReportsNameACulprit`. `Blamed` gives each failure in a map its cause in the same map; it holds of what the
  marshalling began with (`BegunStays`), of the results when it ends, and so of any mixture of both.

These two modules reason about recursive functions. The library states induction for an operator parameter, which the provers cannot
instantiate; here it is stated for a set that has 0 and, with each number, the next (`Induction`), and follows from the
well-foundedness of the order on the numbers, which the library states for sets (`LeastNumber`). `RecursiveFcn` proves with it that the functions defined by
recursion exist, without which nothing would follow from their definitions. Both modules hold these three lemmas.

Every invariant and every action property that the passing runs check, and the safety of both refinements, is so proved for all values
of the constants. Only model-checked: the liveness properties, and the liveness part of `ServiceSpec` (TLAPS has no `ENABLED`).


## 6. Findings and other behaviour worth knowing

Two disagreements between the code and its own words are each shown by a run that TLC must find violated (a third is among the points after them):

1. `lb_not_a_backend` (`PicksABackend`). The comment at `kubernetes/elasticity/cmd/lb/main.go:126` says "Find the backend pod with the shortes
   qlen". The code searches `outstandingReqs`, whose keys are never deleted and to which a request made before the first endpoints
   adds the key `""` (line 135). It goes on choosing departed pods and `""` while `podIPs` holds live backends.
2. `ingest_reset` (`ResetStartsFresh`). The help of `--reset` (`scripts/alibaba-cluster-trace-mem.py:387`) says "Delete existing parquet
   directory and start fresh". Outside incremental mode line 474 skips the removal exactly when `--reset` is given.

Other behaviour worth knowing, most of it described by a property that holds or by the condition of one:

- `cmd/lb/main.go:78`: when the first pod of the list has gone, `updatePodIPs` logs `podIPs[-1]` and the process dies
  (`PanicsIffFirstPodGone`). Kubernetes restarts it, and `MonitorConverges` holds as before; requests in flight are lost.
- `cmd/lb/main.go:89` and `:130`: counters lose requests when a pod returns, may become negative, and -1 is also the sentinel of the
  search (`CountersAccountForRequests`, `PickSetIsExact`).
- `cmd/lb/main.go:115`: without backends a request kills the process and all others in flight (`PickFatal`); under round robin that is so of every call
  before the first update of each new process, and with a type that is not implemented of every call (line 146). Clients that keep calling can
  keep it dying, and `podIPs` then never settles (`CallsStopKilling`).
- `cmd/spinhttpsrv/main.go:84`: with `nslots` = 1 every spin panics. `SpinService` has one slot answer nothing, and `SpinSrv` implements it.
- `cmd/spinhttpsrv/main.go:121`: after a period without a call the rate is that of an older period (`dense`).
- `rpc/rpc.go:12`: a number of RPCs that does not fit `uint32` leaves the client with more calls than the server serves
  (`FailuresHaveCauses` excludes it); a number of 0 kills the server at `cmd/server/main.go:41`.
- `etcd/load_test/load_test.go:232` and its consul counterpart require more than one entry although one is "enough" for
  `minEntries` = 1 (`AssertionsHold` names the exception).
- `etcd/load_test/load_test.go:354-359` and `:455-460`: after a Put that failed and was not carried out a request waits for ever, and with it the test; the
  assertion on the error does not stop it (`PutWasLost`). A Delete that fails is a panic at the next line that reads `resp.Deleted` (163-165, 362-364,
  527-529), and so is a Get in `readLG` (228-232): the process dies and leaves its keys.
- `scripts/alibaba-cluster-trace-mem.py:454`: an incremental run after a standard one overwrites the batch of the latter, which wrote no
  metadata, although the help of `--incremental` (line 385) says "Append new data to the existing parquet directory" and a standard run that finds
  data says "Use --incremental to append" (line 476). That is a third disagreement of code and words; `ResetStartsFresh` and
  `EachFileOnce` do not speak of it, and no run shows it. A run killed while it truncates the metadata leaves a directory that only `--reset` can make usable.
- `lambda/seccomp-allowlist/cmd/main.go:175` reads `event.ID` before line 177 compares `event` with nil: a null event is a panic (`InvokeWithNull`).
- `lambda/seccomp-allowlist/cmd/main.go:106`: the server closes first or shares the port with an earlier invocation; the next `bind` may fail with
  nothing denied (the exception in `ReportsNameACulprit`). Line 182: a report may miss any of the client's results that come after the
  message, and a client that adds during the marshalling may kill the process.
- `lambda/seccomp-allowlist/cmd/main.go:114`: with connect denied `Accept` waits for ever, and with both write and close denied `Read` does (line
  118; the condition of `InvocationsReturn`).
- `tls/cmd/client/main.go:211`: a negative `ndial` panics in `wg.Add`; one of 0 divides by zero at the average (`PrintAverage`).


## 7. What is not modelled

- Kubernetes, etcd, consul, DuckDB, TCP, net/http, Lambda: as environment actions, by what the code relies on. Cancelled etcd watches are left
  out: when the client library closes the channel is not decided here.
- The load generator of the testbed (`loadgen/loadgen_test.go`): its wait group and statistics. The composition of its goroutines with the load
  balancer or the spin server in full detail has too many states to explore with requests enough to be interesting; each of the
  two is checked instead against requests that come at any time, which is more than the generator does. The load generators
  of the service-discovery tests belong to another repository; a request may start at any time while they run.
- `writeAtomic` (`docker/fs/fs_test.go`): temporary file, fsync, rename by one process. It does not flush the directory, so after a crash the
  name may still mean the old file; that is a fact about file systems that the model would have to assume.
- The set-up of clients and its errors, calibration, statistics and plots of every program.
- `RegistryTest`, `EtcdWatchTest`: the puts of `populateRegistry` are one step, or one that fails after any of them; nothing else runs meanwhile. The fixed
  10 s of the dummy writer (`load_test.go:522`) are the default of `dur`. A `Watch` that cannot be set up is left out.
- `SpinSrv`: `nslots` of 0 or less, with which nobody is served (`cmd/spinhttpsrv/main.go:206-210`).
- `RpcChain`: a reply of the wrong length is refused at its header, where the code reads it first (`rpc.go:32`); the caller dies of either.
- `ComputePtt`: the text of the query, cut off at 8192 bytes (`compute_ptt.c:236`), option parsing, the progress line; a `pthread_create` that
  fails (312, unchecked: its chunk is computed by nobody and the poll loop does not end), an `msinstanceid` that is NULL (the query does not
  filter it, 238-245, and `strcmp` of it at 270-273 crashes), a CSV file that cannot be opened (331-332, the program ends).
- `TraceIngest`: reading and cleaning of rows, statistics; one CSV file is an atom.
- `TlsDial`: times and certificates beyond whether they match; a network failure on the server's side only (`cmd/server/main.go:36-38`, the server
  dies of it, and its clients meet a dead server, as they may here for other reasons). `tls` also holds copies of `frame`, `rpc` and `pipe` that its programs do not call.
- `SeccompTest`: the wording of errors, and faults of the kernel other than those its rules for one port imply.
- Sequential programs and configuration (`lambda/s3perf`, `lambda/cpuperf`, `lambda/start-latency`, `mem/imgresize`, `spin/c`, `websrv`,
  `docker/rs-hello-world`, `cgroups/net`, `netperf`, `netns`, `ray`, the other scripts): they make calls in a row and print times.


## 8. Plan

Done, in this order because the testbed is the part with shared state and partial failure: `BackendTable`, `LoadBalancer`, its proofs;
`BackendCalls`; `RequestRate`, its proofs; `SpinSrv`, `SpinService`, its proofs; `RpcChain`, `Echo`; `RegistryTest`, `EtcdWatchTest`; `TraceIngest`;
`SlidingWindow`, `ComputePtt`; then `TlsDial` and `SeccompTest`, the registry tests as part of the watch tests' run, and the proofs of
`EtcdWatchTestProofs`, `TraceIngestProofs`, `ComputePttProofs`, `TlsDialProofs`, `SeccompTestProofs` and of the refinement of `SpinService`;
the proofs of `BackendCalls` in `LoadBalancerProofs` and of the RPC chain and its refinement of `Echo` in `RpcChainProofs`; last the two that need
induction over data, `PickSetExact` and `ResultsAreLargest`.

Open:

1. `Loadgen`: `TestLoadgen` with its wait group and window of statistics, against an abstract load balancer that answers, refuses or is late; the
   hazard is the monitor that reads `done` without the lock.
2. `WriteAtomic`: the steps of `docker/fs/fs_test.go` with failures and a crash, against an abstract atomic write.
