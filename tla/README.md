# A TLA+ model of TPT Zenith

TPT Zenith is a ground-station platform in two languages. The Go half (`routing`,
`space-ai-bridge`) moves bundles over a delay-tolerant mesh whose links are
scheduled contacts and runs inference on satellites. The Rust half
(`orbital-mechanics`, `antenna-control`, `rf-pipeline`) predicts passes, points a
dish and moves bits. This directory holds TLA+ modules that model both, TLC
configurations that check small instances, and TLAPS proofs.

    tlc -config MCRouting.cfg MCRouting          # and so on, see "Runs"
    tlapm Routing_proofs.tla                     # and so on, see "Proofs"

## Inventory of the system

| Component | State it keeps | Operations | What makes it correct |
|---|---|---|---|
| Contact graph, `routing/cgr/contact.go` | list of contacts, index by origin | `Add`, `Volume`, `ArrivalTime` | a later start never gives an earlier arrival |
| Route search, `routing/cgr/route.go` | labels, predecessors, visited set, heap | `FindRoute`, `reconstruct` | earliest arrival, a route that achieves it, termination |
| Node, `routing/node/node.go` | store (map), order (list), delivered, seen | `Ingest`, `Dequeue`, `Route`, `Stored` | map and list agree; nothing is taken in twice |
| Bundle, `routing/bundle` | immutable | `ID`, `Expired`, `NewBundle`, wire format | IDs identify; expiry at the deadline; encoding round-trips |
| Mesh, `routing/sim/mesh.go` | nodes, pending injections, handlers; in `Run` the event queue | `AddNode`, `SetHandler`, `Inject`, `Run` | no copy is lost or multiplied; time goes forward; promised arrivals are kept; `Run` returns |
| Compute node, `space-ai-bridge/computenode.go`, `model.go` | factories, models, scenes, a mutex | `RegisterFactory`, `CaptureScene`, `Deploy`, `RunInference`, `Handle`, `DeployedModels` | "safe for concurrent use" |
| Client, responder, `bridge.go`, `message.go` | sequence counters | `UploadBundle`, `RequestBundle`, the handler | a request is answered once, from what had arrived; IDs differ |
| Contact plan loader, `routing/contactplan` | none | `Load` | all of a document or none; what is loaded can be used |
| CBOR codec, `routing/cbor` | decoder position | `Marshal`, `Unmarshal` | round trip at all width boundaries |
| Command line, `routing/cmd/zenith-dtn` | none | loads a plan, injects one bundle, runs | — |
| Dish, `antenna-control/hal.rs` | pointing, setpoint | `command`, `tick`, `state` | the smaller arc, no faster than the rates, it arrives; a refused command changes nothing |
| Tracker, `antenna-control/tracking.rs` | clock, samples, the dish | `track` | the report is about the whole pass, the error is the satellite's motion, it returns |
| Visibility, `visibility.rs` | scan state | `visibility_windows` | every pass has its window, in order, with the highest point it was looked at |
| Handoff, `handoff.rs` | windows of all satellites | `plan_handoffs` | at each loss of signal the highest other satellite |
| Export, `bin/export_contacts.rs` | document | `main`, `contact_json` | what it prints, the loader takes and the router can use |
| Constellation, `constellation.rs` | none | `generate` | every satellite once, plane after plane, phased as asked |
| Propagator, `propagator/` | constants of an orbit, the resonance integrator | `from_tle`, `propagate` | the answer depends on the elements and the time alone; it returns; numerical accuracy |
| TLE parser, `tle.rs` | none | `Tle::parse`, `epoch_mjd` | reads what was written, on the right day, or refuses |
| Frames, `frame.rs` | packet with public fields | `new`, `to_bytes`, `from_bytes` | round trip; what cannot be a packet of that length is refused; damage stays in its field |
| FEC, modems, `fec.rs`, `modem.rs`, `lib.rs` | none | encode, map, demap, decode | one error per codeword corrected through all padding |
| Channel, `channel.rs` | state of the noise generator | `transmit` | the noise never stops |

How they interact. An element set is parsed and becomes a propagator; windows are
found from what it answers; a pass is tracked with it, satellites are handed over,
and the exporter prints windows as contacts. The loader turns the document into
the plan that all nodes of a mesh share. `Run` pops the earliest arrival, gives the
bundle to the node (`Ingest`), and for a stored bundle asks the node for a route
(`FindRoute`), takes the first hop, removes the bundle from the node (`Dequeue`)
and schedules its arrival at the next. A bundle that is delivered to a node with a
handler is given to it; the Space-AI responder calls its compute node and its
replies enter the queue. The mesh is one goroutine; only the compute node is shared
between goroutines. The Rust crates are sequential. Nothing is persisted, so there
are no restarts.

What is hard. In Go: the event order and the order of ties; routes recomputed at
every hop; duplicates recognised by ID alone; stale heap entries and relaxations of
settled nodes; a second `Run` on the same mesh; the event cap; uploads overtaken by
requests; look-ups in and inference out of the mutex. In Rust: a dish that keeps
the setpoint of the pass before when a command is refused; samples and windows at
the ends of an interval; a refinement step that is wrong and a clamp that contains
it; one failing propagation in the middle of several; rounding in a document that
another language reads; an integrator that goes on from where it was; clamps after
the test they belong to; lengths stored less one. `PROJECT.json` lists each at its
line, with the property that covers it or the reason why none does.

## Modules

| Module | Models | State |
|---|---|---|
| `Maps`, `NodesAndTime` | Go maps as functions; node names and time | — |
| `ContactGraph` | contacts, plans, one transmission; reference definition of earliest arrival | — |
| `FindRoute` | the search, one heap operation or relaxed contact per step | all local variables of the call |
| `RouteOracle` | what `FindRoute` promises, in one step | query, answer |
| `Carrier` | `FindRoute`, then somebody who takes contacts at will | plus holder, clock |
| `Bundle`, `Node` | ID, expiry, NodeID; the node's operations as operators on its record | — |
| `StoreAndForward` | one node under any calls | the node |
| `Mesh` | injections, `Run` and its loop, handlers | nodes, queue, trace, history |
| `Custody` | what the mesh promises about each copy of a bundle | place of each copy |
| `Inference` | the compute node's operations as operators, messages | — |
| `ComputeNode` | its methods under the mutex, each map access a step | maps, mutex, goroutines |
| `ComputeService` | atomic calls | maps, calls |
| `Bridge` | clients and responders on the mesh | plus sequence counters |
| `DishBackend` | the interface contract of a dish | pointing, setpoint |
| `Dish` | the simulated dish under any commands and ticks | pointing, setpoint |
| `Tracker` | `track`, pass after pass, on that dish | plus phase, clock, report |
| `Visibility` | the scan of one track after another | the loop's locals, windows |
| `Handoff`, `ContactSchedule` | the two tools built on the scan; export and `Load` | plan of handoffs; document, plan |
| `Schedule` | both tools, and documents from elsewhere | all of these |
| `Sgp4` | the propagator with its deep-space routines, and its calls | propagator, the call in progress, answers |
| `Tle`, `Frame`, `Constellation` | parser and epoch; packets; generator, as operators | — |
| `Formats` | an item written, garbled or edited, and read | item, wire, output |
| `Hamming` | the code, as operators | — |
| `Link` | `simulate_link` stage by stage with the noise generator | bits, symbols, generator |
| `*_proofs` | theorems and proofs about the module of that name and those below it (`Routing_proofs`: `FindRoute`, `Carrier`, `StoreAndForward`; `Bridge_proofs`: `Mesh` too; `Tracker_proofs`: `Dish`; `Schedule_proofs`: `Visibility`, `Handoff`, `ContactSchedule`; `Formats_proofs`: `Tle`, `Frame`, `Constellation` and `Sgp4`) | — |
| `MC*` | instances for TLC (`Link` needs none) | — |

Correspondence with the code. The map in `PROJECT.json` gives the lines of every
definition. `FindRoute` splits the call at each turn of its loops: `CallHere` is
the early return, `PopStale`/`PopNode`/`PopDest` are the three outcomes of
`heap.Pop`, `Relax`/`Skip` one turn of the inner loop, `Rebuild`/`Return` are
`reconstruct` (which appends and reverses; the model puts each hop in front).
In `Mesh`, `Inject` and `Run` are the calls and every turn of the loop of `Run` is
one of `Deliver`, `DropDuplicate`, `DropExpired`, `Strand`, `Forward`, with
`Finish` and `BreakOff` as its two exits; each action does all that the turn does:
`AddNode`, the trace entries, `Ingest`, `Dequeue`, the handler and its replies.
In `ComputeNode` an action is one access to a map, `Lock` or `Unlock`. In `Tracker`
`Acquire` is the ignored command before acquisition, `Slew` a turn of that loop,
`Steer` and `Sample` the two halves of a turn of the tracking loop, `Fail` each
`?`. In `Visibility` `ScanTurn` is one turn of the sampling loop, refinement and
`build_window` included. In `Sgp4` a call goes through `dspace`, its integration
loop, the tests of the mean elements, `dpper` with its clamps, and Kepler's
equation, a round of Newton's loop in each step; building a propagator ends with such
a call at time zero.

`sent`, `log` and `abandoned` in `Mesh` are history: all introductions of bundles,
the reports of all runs, what a break left in the queue. A copy is an entry of
`sent`; its number travels with the event, so the heap is a set. `from` in
`Tracker` is history too, and so are `item` and `fault` in `Formats`.

Definitions marked "Mutant" are variants of a neighbouring definition with a
plausible bug; no specification uses them. Each shows that a property notices.

### Abstractions

* Time is an integer number of ticks. Transmission time is truncated to a tick, as
  the code truncates to a nanosecond; the rounding of binary fractions is not
  modelled.
* An ID is the record of the fields that `ID()` prints. `NodeID` is the node part
  of an endpoint, which is a record of node and service.
* `container/heap` may return any of the entries that tie. In the mesh, so may
  `FindRoute` where several routes arrive equally early: the first hop is any
  element of `FirstHops`. That `FindRoute` only returns such hops is part of what
  `routing` checks (`IsAnswer`), so the composition is sound; where ties come
  with chains of two or more contacts that take no time the set can hold a hop
  the heap's layout never picks (a direct contact always wins: the source is
  settled first).
* A nil reply, which `Run` skips, is a reply not made.
* An inference result is the pair of model and scene. Payload sizes are given per
  message.
* One-way light time is a natural number. `Load` accepts a negative one; nothing
  in the repository writes it. Conditions are assumptions of `ContactGraph`.
* The dish points on a grid. The angle between two directions is compared by its
  versine, from a table of cosines, so that no square root or arc is needed.
* What the propagator and `look_angles` make of a satellite and a station is a
  given track: an elevation, or a failure, at each instant of a grid finer than
  the sampling step. `build_window` looks at both ends of a window and at evenly
  spaced instants between, 201 in all, which need not include any sample of the
  scan; `Looks` is the number of parts, and an instant is rounded down to the grid.
* Formulas of SGP4 without a decision in them are linear in time; the sums of sines
  that drive the resonance integrator are a small pull of the same arguments, and
  sine and cosine are triangles. Every test, clamp, early return and loop of
  `propagate`, `dspace`, `dpper` and `dsinit` is kept, Kepler's loop with its clamp,
  its count of rounds and the refusal that comes after it included. The tests of
  `from_tle` that only choose constants of the drag terms (a perigee below 156 and
  98 km, an orbit that is nearly round) are left out: `bstar` stands for all of them.
* `propagate` works on a clone, so that an answer cannot depend on earlier calls is
  a matter of types in Rust. The model says so with its `prop`, which no call
  changes; what is checked is the integrator inside one call.
* A line of an element set keeps one column or two of each kind of field; the fields
  of a packet have constant spans; an octet of data is any of `Octets`. The channel
  cuts a packet short, adds an octet, turns a header word into any other, or one
  octet of data into another.
* The components of a symbol are integers: a receiver looks at their signs only. A
  normal sample is any of a few amplitudes, and the scrambling of the generator's
  output, which does not flow back into its state, is left out.

## Runs

| Run | Instance | Bounds | States | Shows |
|---|---|---|---|---|
| `routing` | `MCRouting` | every choice of at most 5 of 10 contacts, in plan order and reversed, two sizes, two ready times; beside it a node with 6 bundles and 3 instants in any order | 73,088 | the search implements the one-step oracle, keeps its invariant, settled nodes are final, it returns, and no carrier beats it; queue, delivery and duplicate filter of a node under any calls |
| `mesh` | `MCMesh` | 5 nodes, 10 contacts, 3 injections, 2 runs | 41,909 | custody, promised arrivals, stranding |
| `mesh_echo` | `MCMesh`, `MCMeshEcho.cfg` | 3 injections, handlers at two nodes, cap of 10 events | 14,055 | custody through a break, order of time with replies, `Run` returns |
| `mesh_volume` | `MCMesh`, `MCMeshVolume.cfg` | as `mesh`, 1 run | violation | contacts carry more than their volume |
| `compute_node` | `MCComputeNode` | 2 goroutines, every method, any number of calls | 43,263 | linearizable, no call waits for ever |
| `bridge` | `MCBridge` | 3 clients, two of them on one endpoint, 3 bundles, stray payloads | 21,844 | answers: once, current; when IDs may be reused |
| `tracking` | `MCTracker` | 12 headings, 40 passes of 6 instants, leads of 0, 1 and 2 instants, two ends, two parking places | 166,914 | report, lag, setpoint, the dish's contract, every run ends |
| `link` | `Link` | inputs of up to 5 bits, both modems, up to 2 disturbed components, words of 7 bits | 1,609,522 | correction through all padding, nearest codeword, noise never stops |
| `schedule` | `MCSchedule` | every track over 4 heights at 5 samples, pairs of 8, triples of 7, two search ends, windows looked at in 3 parts | 513,712 | windows, handoffs, the exported and loaded plan |
| `handoff_visible` | `MCSchedule`, `MCScheduleVisible.cfg` | as `schedule` | violation | a higher satellite above the mask is passed over |
| `ground` | `MCGround` | 384 element sets with every single character garbled, every day of 100 years, packets with fields at both ends of their spans and beyond, damaged in any word or octet, constellations up to 12 in 5 planes with every phase; beside them the propagator: 4 classes of period, 5 eccentricities, 3 inclinations, 3 sets of perturbations, 6 times, 2 calls | 887,025 | parser, epoch, packets, constellations, answers from the epoch, every call returns |
| `walker` | `MCGround`, `MCGroundWalker.cfg` | as `ground` | violation | the phase factor is not Walker's |

Bounds. Four nodes and ten contacts give the search detours, ties, a zero-delay
cycle, an edge back from the destination, closing windows, contacts too short for
the larger bundle and a refused confidence; five contacts at a time suffice for
any two routes of length two and one contact that interferes. In the mesh three
injections give a duplicate, a second bundle and an interfering one, and the
second run re-injects them. `MaxEvents` is far above what a run without handlers
needs (`PromiseKept` contains the actual bound) and small with echoing handlers, so
that the break happens. `MaxInjections`, `MaxRuns` and `MaxCalls` bound calls by the
environment and nothing else; a state in which they are used up has no successor,
which is why those runs do not check deadlock; nor do the runs of `Link`,
`MCSchedule` and `MCGround`, whose behaviours end with the last stage. `MCRouting` and
`MCGround` hold two components each that share nothing: a behaviour takes the steps
of one, while the other rests or, beside the node, is the shortest search there is. Twelve headings
with a reach of two per period make the dish too slow for one of the paths, and one
path jumps exactly half a turn; starts at 0, 4 and 10 cross north both ways; the
climbs dip below the horizon and rise no higher than the ceiling. Two and three
tracks overlap, touch and leave the sky empty, with a failure at a sample, next to
one, and inside a pass. Three parts make a window's looks miss samples of the scan
and peaks. Five bits need two codewords, so symbols of the second
modem straddle them. Times of the propagator are on both sides of the epoch, whole
numbers of integrator steps and between; a second call follows the first; the
eccentricities lie in every column of `dsinit`'s tables, and the perturbations push
eccentricity and inclination over their limits on both sides, so that orbits open
and Newton's loop uses up its rounds.

Fairness. `FindRoute`, `Run`, `track` and `propagate` are sequential code without
waiting, so weak fairness of their own steps (the search's, the loop of `Run`,
`TrackStep`, `Work`) says that the thread keeps running; nobody is forced to call
anything. In `ComputeNode`, a goroutine inside a method keeps running (weak
fairness of `Body`) and `Lock` is strongly fair, since `sync.Mutex` hands itself to
a waiter that has been starved for a millisecond.

Three runs end in a violation, on purpose; "findings" in `PROJECT.json` quotes the
lines they contradict.

* `contact.go` calls `Volume` the most bytes that can traverse a contact and
  `FindRoute` claims to respect capacity, but each bundle is timed as if it were
  alone (`mesh_volume`).
* `handoff.rs` promises the highest visible alternative, any other satellite above
  the mask. The code looks for windows, and a pass that is open at the end of the
  search has none: such a satellite is passed over for a lower one
  (`handoff_visible`). `PlanIsRight`, in the run that passes, is about the sampled
  tracks too, and says what is left of the promise: a handoff is to a satellite
  that is up, or within a sample of it, none whose pass is over by the end of the
  search and undisturbed is above it, and the end of a pass gets its handoff when
  such a one is there all the while.
* `constellation.rs` documents Walker's phasing factor, but multiplies it by the
  slot and not by the plane: planes are not phased against each other, and the
  satellites of one plane are not a slot apart, two of them possibly in one place
  (`walker`). `FillsThePlanes` says what holds for every phase: everybody is
  generated, once, plane after full plane, and which two share a place.

Other things a reader of the code should know, seen while modelling:

* Sequence numbers belong to a `Client` value and not to its endpoint. Two clients
  that share a source give the same ID to different bundles made in the same
  millisecond, and a node drops the second as a duplicate. `IDsIdentify` says that
  this is the only way: same endpoint, same millisecond, both have counted that far.
* `refine_crossing` takes its Newton step from the interpolated crossing but with
  the elevation error of the later sample, so window ends are usually not on the
  mask. `Refine` models it as it is; the clamp keeps the window within one sample
  of the pass, which is what `WindowsAreThePasses` says, and no more.
* `mjd_at_year_start` and `epoch_mjd` together are a day early, and
  `epoch_days_1950` subtracts a day too little: the two cancel
  (`StartsOnTheRightDay`). Users of `epoch_mjd` alone get the wrong day.
* `epoch_mjd`'s own comment (`tle.rs:218`) calls its result a Modified Julian Date;
  it is a day less than that.
* Below the inclination limit `dpper` always moves the node by a whole turn, in one
  direction or the other (`MovedNode`). `propagate` takes the node out of Kepler's
  equation again, but the perigee has given way by the cosine of the inclination
  times that turn (`deep_space.rs:559`) and keeps it: for an inclination that is not
  zero the orbit is turned within its plane. The published algorithm moves the node
  only when it has jumped by more than half a turn.
* A packet has no check of its contents (`rf-pipeline/docs/ccsds-compliance.md` lists
  the CRC as not implemented). `PacketsSurvive` says what the length and the version
  detect, that flipped bits elsewhere arrive unnoticed, and that they change the
  field they are in and no other.
* `wrap_360` on binary floating point can round up to 360 itself for an angle just
  below zero. The grid of `Dish` has no such angle.
* `track` samples the end of the pass twice when the window is a whole number of
  periods, and never its beginning.
* A check column below `'0'` underflows a byte in `check_checksum`; a build that
  checks overflow panics where another reports a mismatch. Both are outcomes of
  the model.

## Proofs

All theorems hold for every value of the constants, under the named assumptions of
the modules:

* `TicksAssumption` (a positive tick rate), `NodesAssumption` (a plan names finitely
  many nodes), `QueriesAssumption` (queries are made of contacts with integer times
  and natural light times), `BundleAssumption` (positive units), `StoreAssumption`,
  `MeshAssumption`, `InferenceAssumption` and `ComputeAssumption` (the types of what
  the environment passes, the calls those of the interface).
* `BridgeAssumption` (types of clients, tasks and messages) and
  `EndpointsAssumption`: a compute node answers from endpoints of its node, other
  applications use neither these nor those of clients, and IDs of bundles made
  elsewhere identify them. The responder takes its replies' source from the request,
  so the code asks for that. Clients may share endpoints. The
  bridge's theorems also take `Hosted`: the handler at a compute node's node is
  `Respond`, as `bridge.go` registers it.
* `DishAssumption` (a circle and rates that are positive, limits in order),
  `TrackerAssumption` (a period and a window that are not empty, look angles that
  are numbers or NaN) and `ToleranceAssumption` (a dish that is on target is within
  the tolerance, however the table of cosines is rounded).
* `ScanAssumption` and `SkiesAssumption` (a positive step; a track has an elevation
  or a failure at each instant that a scan looks at, up to half a central difference
  outside the search) and `ScheduleAssumption` (a positive unit and rate, stations
  that differ from each other and from the satellite, as in `main`; documents from
  elsewhere are sequences of lines).
* `LinkAssumption` and `RngAssumption` (shifts are not zero, nor is what replaces
  the zero seed).
* `OrbitsAssumption` (elements, instants and perturbations are integers, the
  eccentricity and inclination of an element set not negative, as its columns have
  no sign), `ElementSetsAssumption` (what the columns can hold), `DatesAssumption`
  (a year of two digits, any day), `DraftsAssumption` and `FrameAssumption` (fields
  are unsigned, their spans positive) and `SpecsAssumption` (unsigned numbers, at
  least one plane, which `div_ceil` needs).

**Contact graph and search.**

* `ContactGraph_proofs` is about the reference definition of earliest arrival and
  so about the mesh and the search at once. `FirstInFirstOut`: a bundle that is
  ready earlier is not refused where a later one is accepted, and arrives no later.
  The table of earliest arrivals is made in rounds; it is closed under every contact
  (`TableIsClosed`), below any other such table (`TableIsLeast`) and each of its
  entries comes from another (`TableIsReached`). That the rounds suffice
  (`RoundsStandStill`) is a counting argument over finite nodes: in a round that
  changes anything one more node has its final label (`Saturates`). The library's
  induction theorems are out of the provers' reach, so the induction is made by hand
  from the well-foundedness of the naturals (`LeastInteger`, `Induction`,
  `Iteration`). `RoutesConsistent`: whoever takes the first contact of a best route
  and asks again finds an arrival that is exactly as early. `RouteExists`: a
  destination that any use of contacts reaches has a first hop.
* `Routing_proofs`, the search: `TypeCorrect`, `SearchCorrect`, `SettledForEver`. `SearchInv`
  is inductive together with `TypeOK`. It needs all its parts: that every node not
  visited waits in the heap with its label (`QueueCoversFrontier`) and that the
  heap is never behind the last popped entry (`SettledInOrder`) show that a popped
  label is final; that contacts of visited nodes have been used
  (`SettledIsRelaxed`) shows that nothing was missed; that labels are those of
  predecessors (`LabelsFollowPred`) makes the route valid. `RouteIsOptimal`: a
  carrier is never earlier at a settled node than its label, and when it leaves the
  settled nodes it does so over a contact that the search has relaxed.
* `SearchImplementsOracle`, in the same module: step by step, the search implements
  the one-step `RouteOracle`, whose answer is made of the reference definition. The
  strengthening is `AnswerInv`. A predecessor is the first contact, in the order of
  the plan, of the earliest settled node that gives the label (`PredIsFirst`, with
  `InPlanOrder` for the one that is being relaxed), labels are never below the
  reference (`LabelsAreSound`), and the route under construction is the one that
  the predecessors give, walked upstream (`WalksUpstream`). When the destination is
  settled the labels that matter are exact (`LabelsAreExact`). This holds whatever
  way the heap breaks ties, which the mesh relies on.

**Node and mesh.**

* `Routing_proofs`, the node: `NodeTypeCorrect`, `QueueWellFormed`, `NothingReturns`,
  `OrderIsKept`. The strengthening is `KeptIsSeen`: what is stored or delivered is
  known to the duplicate filter, so nothing is appended to the list twice.
* `Bridge_proofs`, the mesh: custody. `MeshInv` says of every state that each copy is at exactly
  one place (`Custodians`), that the queue is empty between runs (`IdleIsEmpty`),
  that a node stores what the trace calls stranded there (`StoresHoldStranded`) and
  that what a node keeps it has seen (`KeptIsSeen`): without the last a duplicate
  would be stored again, without `IdleIsEmpty` a second `Run` would lose what the
  first left behind. From it `MeshCorrect`, `OneCustodianAlways`,
  `StoresAlwaysHoldStranded`, `TraceStaysInOrder`, and `CustodyIsKept`: every action
  of the mesh is a step of `Custody` or a stutter, for any handlers.
* `Bridge_proofs`, the mesh: routes. `RouteInv` adds that copies enter as they were sent, that
  each is on its way as early as when it entered (`NoHopLosesTime`), that only
  copies that had no route are stranded, and that deliveries are on time.
  `RoutesConsistent` does the step over a hop, `RouteExists` excludes stranding after
  one. The theorems are `RoutesFitTogether`, `NoHopEverLosesTime`,
  `NeverStrandedHalfway` and `AlwaysOnTime`, for every plan and any ties.
* `Bridge_proofs`, the mesh: the promise. `PromiseInv` counts: a run has had no more
  events than it has passed copies on, once at each node, and finished them
  (`EventsAreUsed`), because a node that passes a copy on has seen its ID
  (`SeenIsLogged`). `EventsStayBounded` follows for all plans, handlers and replies:
  a cap above copies times nodes and one more never ends a run. `SeenIsLogged` also
  traces each duplicate to a bundle of the same ID that came to the node before, and
  `EndsInTime` says that only those expire whose deadline is before their arrival.
  With `RouteInv` this is all that can happen to a bundle with an ID of its own,
  save one thing: that a node gets it back after passing it on.
  `PromiseKeptUnlessLedBack` is `PromiseKept` in every state where that has happened
  to no such bundle.

**Compute node and bridge.**

* `ComputeNode_proofs`: `CallsAreAtomic`, that the node under its mutex implements
  atomic calls for any number of goroutines. `MutexInv` says who is inside
  (`Exclusion`), that each is in the method it called (`OnItsWay`), and that what a
  call has read of the maps there is what they still hold (`UpToDate`); a lemma for
  each action shows which step of `ComputeService` it is, or that it is none.
* `Bridge_proofs`, the bridge: added to `MeshInv` is that sequence numbers only grow and each bundle
  comes from whom its source says (`Identified`), that only compute nodes enter
  answers at their nodes (`OnlyHandlersAnswer`), that a compute node has made as many
  answers to a request as requests reached it (`Balanced`), and that its models are
  those uploaded last (`UpToDate`, `InOrder`). From these `BridgeCorrect`,
  `IDsAlwaysIdentify`, `RequestsAnsweredOnce`, and `AnswersStayCurrent`. The first
  holds whether or not clients share an endpoint: where they do, two bundles with one
  ID show that both clients sent in that millisecond and counted that far. The last is
  for a single run: a second `Run` starts at the earliest injection again, which may
  be before what the first delivered, and TLC finds the property violated then.

**Dish and tracking.**

* `Tracker_proofs`: `DishKeepsContract`, that the simulated dish implements
  `DishBackend`. The lemmas are about a circle of any size: the signed arc is no
  longer than half a turn, moving along it by a part of it leaves the rest, and the
  rest is what the unsigned distance says. `TrackedDishKeepsContract` is the same
  while the loop drives the dish.
* In the same module, the loop. `TrackInv` says that clock and samples go together
  (`OnTime`), that each period of the acquisition has gained what the rates allow
  (`Acquiring`), that the setpoint is the last aim within limits (`Steering`), and
  what the report and the last stretch tell (`ReportIsHonest`, `FollowsThePass`).
  An acquisition that never turns (`AcquireTicks` of zero), a refused first command
  and look angles that are not numbers are cases of their own in it. The theorems
  are `TrackingCorrect`, `ReportsAreHonest`, `DishFollowsThePass` and
  `RefusalsAreHarmless`.

**Windows, handoffs and export.**

* `Schedule_proofs`: `WindowsAreRight`, `PlansAreRight`, `RouterIsToldThePasses` and
  `LoadIsHonest`, for tracks of any shape, searches of any length and any number of
  satellites or stations. `ScheduleInv` is inductive; it has a part for each tool.
* The scan (`ScanInv`). Before each sample the loop remembers the one before
  (`Remembers`), the pass under way there has opened within a sample of its first
  visible one and after every window so far (`UnderWay`), and the windows are those
  of the passes that were over by then (`Found`). All that is needed of
  `refine_crossing` is that its crossing lies between its two samples
  (`RefineBetween`), whatever its Newton step does. The highest point is that of
  evenly spaced looks, any number of them: between two, a narrower peak can be
  missed, so `PeakIsHighest` speaks of parts of a window as long as their distance.
* The plan (`PlanInv`). The entries are the hand-overs of the losses dealt with so
  far (`EntriesAreHandovers`, `HandoversAreEntries`), no two for one loss
  (`EntriesDiffer`, because windows of one satellite end at different instants). The
  stable sort is a rearrangement in order of time (`SortFacts`), so it keeps them.
  `PlanIsRight` does not speak of windows: from `WindowsAreThePasses`, a satellite
  that is up between the first and last sample of an undisturbed pass has a window
  there, and one that has a window is within a sample of a pass.
* The document (`ExportInv`, `LoadInv`). Every line is one direction of a window
  and each window has both (`LinesAreWindows`, `WindowsAreLines`); the lines of one
  link follow each other (`LinesInTurn`), because printing rounds monotonically and
  by at most half a digit. What is loaded is the document, line by line.

**Link.**

* `Link_proofs`: `CorrectsSingleError` and `CodeIsPerfect` for one codeword: at most
  one flip decodes to the data, and every word of seven bits is within one bit of
  the code of what it decodes to, and of no other. `LinkDelivers` and
  `LinkDecodesToNearest` for inputs of any length through either modem, from an
  invariant that relates each stage to the input. `NoiseForEver`, from the lowest or
  highest one bit of a word, which an exclusive or with a shifted copy leaves alone,
  so that no step makes zero.

**Propagator and formats.**

* `Formats_proofs`, the propagator: `AnswersFromEpochHolds`, for any elements,
  perturbations and instants. `PropInv` says that the answers so far are `ReplyTo` of
  their instants and that a call under way is where any call for its instant would
  be (`Underway`): in the integrator's loop at one of the points that whole steps
  from the epoch reach (`Points`), of which there are so many (`Strides`), and in
  Newton's loop at the round that as many rounds from the start give.
* The same module, the formats: `StartsOnTheRightDayHolds`, `FillsThePlanesHolds` and
  `PacketsSurviveHolds` from `FormatsInv`. The day is an induction over the years
  that two digits name: each adds what the calendar does, so the two off-by-one
  errors cancel in all of them. For packets it is the arithmetic of a field and its
  span: three words of packed fields give each field back, and back the words,
  whatever the spans; a field beyond its span is refused before it is packed, and
  another word has other fields of its own and the same fields elsewhere. For
  constellations it is an induction over planes: after a plane the generator has the
  first so many satellites of the numbering, the last planes short or empty; two of
  them are in one place when their numbers of steps differ by whole turns.
* The same module, the text: `OnlyWhatWasWrittenHolds`. `TextInv` is the judgement
  over all outcomes of parsing what is on the wire. One changed character changes
  one summand of the checksum, so the sum is off by the difference of two weights,
  which is between one and nine, and a digit shows it (`Caught`). A `-` counts as one
  and a letter as nothing, so characters of equal weight may replace each other
  unseen: the property says so, and so does the theorem.

Model-checked only.

* Liveness (`Returns`, `RunReturns`, `CallsReturn`, `RunsEnd`), which the prover
  does not reach.
* That no copy is led back in the instance of `mesh`, the condition of
  `PromiseKeptUnlessLedBack`; the run checks `PromiseKept` without it. It is not
  universal: where routes tie, and a chain of contacts takes no time, a hop may lead
  back to a node that has seen the bundle, which then drops it as a duplicate.

All other properties of the runs are stated by a theorem.

## Not modelled

* SGP4's numerical accuracy, the geometry of `look_angles` and Earth-fixed frames,
  complex arithmetic and the distribution of noise: floating point, out of TLC's
  reach. The decisions made on those numbers are modelled.
* The CBOR codec, and the wire format of bundles and messages on top of it: widths
  up to 64 bits and IEEE bit patterns are beyond TLC's integers, and nothing else
  in the models depends on them. JSON and time-stamp parsing in `Load` likewise.
* `zenith-dtn`, `crosscheck` and `diag`: input and output around modelled parts.
* Expiry after the wrap of 64-bit lifetimes: `Bundle` models the wrap, but nothing
  in the repository says what expiry ought to be then. Light times below zero and
  factories that call back into the compute node: nothing in the repository makes
  them, and the components promise nothing for them.
* Trace formatting and summaries are wording.

## What could come next

The exact heap of `container/heap`, to see which ties the mesh can really meet, and
with it whether a copy is ever led back.
