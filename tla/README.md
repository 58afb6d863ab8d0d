# A verification of rinha-backend-2026-detecta-fraude

The service scores card transactions by the labels of their five nearest
neighbours among three million reference vectors. This directory holds TLA+
models of its parts, configurations that check them with TLC on small
instances, and proofs, checked by TLAPS for every value of the constants: that
the search and the scans give the nearest references, that the event loop
loses no byte and misses no edge, that the load balancer gives each connection
one owner, that the files between the commands never mix two tables, that the
answers to a client do not depend on how its bytes arrive,
that goroutines write each result once, that the calendar arithmetic is right,
and that a body becomes a query the search can take.

- [The system](#the-system)
- [Modules](#modules)
- [What TLC checks](#what-tlc-checks)
- [What is proved](#what-is-proved)
- [Findings](#findings)
- [Not modelled](#not-modelled)
- [Plan](#plan)

## The system

One load balancer (C) and two workers (Go) run in containers that share a
volume of sockets. An offline command makes the index the workers map.

| Component | State | Operations | Talks to |
|---|---|---|---|
| Load balancer, `lb/lb.c` | control sockets `ctrl[]`, the turn `rr`, `accepted`, the descriptor `cfd` in hand | `connect_worker`, accept, `send_fd`, close | clients (accept), workers (SCM_RIGHTS over a seqpacket socket) |
| Worker start, `cmd/api`, `server/listen.go` | socket file, control connection | `SeqpacketListen`, `AcceptControl`, or a TCP listener | load balancer, index file |
| Worker loop, `server/server.go` | `conns` (descriptor to `rb`, `wb`, `wn`), epoll's registrations | `Run`, `recvLoop`/`acceptLoop`, `add`, `readDrain`, `flush`, `drop` | kernel, load balancer, handler |
| HTTP framing, `server/handle.go` | none of its own; consumes `rb`, appends to `wb` | `handle`, `parseReqLine`, `contentLength` | vectorizer, search |
| Vectorizer, `vectorize` | constants, MCC risks | `QueryFromBody` (fast path), `Vectorize` and `Quantize` (reference path) | framing |
| Search, `index/kd.go` | the mapped index; per query `best5`, a stack | `FraudCount5`, `FraudCount5All`, `Neighbors5` | framing |
| Index build, `index/refs.go`, `kd.go`, `cmd/preprocess` | reference table, permutation, nodes | `Build`, `BuildKD` | files |
| Index file, `index/mmap.go`, `refs.go` | files | `WriteKD`, `Open`, `writeBin`, `LoadBin` | files |
| Flat scans, `index/brute.go`, `partition.go` | per query `best`; goroutines in `FraudCounts` | the oracles of the validation commands | table |
| Distance kernels, `index/dist_*.go` | none | `sqDist` | search |

What makes each of them hard, and what makes it correct:

- **Search.** Three prunings (box, split plane, gap between partitions) each
  discard rows for good, comparing with a bound that is cached and changes.
  Ties are decided by reference number, so "not nearer" is not enough to
  discard. Correct: the same five references as a full scan, no panic on an
  empty slot, an end.
- **Build.** Quickselect with many equal keys, duplicates beyond the leaf size,
  rounding of the sentinel. Correct: what the search assumes of an index holds.
- **Worker loop.** Edge-triggered epoll announces everything once; clients, the
  load balancer and the kernel act between any two system calls; descriptor
  numbers are reused while the load balancer may still hold a copy. Correct:
  responses are neither lost nor repeated, no edge is missed, no connection is
  served or closed in place of another, each complete request is answered.
- **Framing.** Reads end anywhere, also in the blank line; bodies may look like
  requests. Correct: the responses do not depend on how the bytes arrive, and
  answer the requests in order.
- **Load balancer.** Non-blocking sends to both workers, then a blocking one,
  while workers drain or die; a start that races that of the workers, with
  socket files of an earlier start. Correct: one owner for each connection, no
  descriptor kept, fair turns, no giving up on a worker that lives.
- **Vectorizer.** A hand-written parser that must agree with `encoding/json`
  and the reference path, on members in any order; timestamps nobody validates,
  the offset of which is read without a test of their length; calendar
  arithmetic. Correct: whole bodies give the reference query, cut ones are
  refused, whatever is accepted gives a query the search can take, and bytes
  behind the body never count.
- **Index file.** Two files with headers written first, programs that may be
  killed between two writes or end because a call fails, references that change
  or are missing. Correct: what is served is the index of one table, and a start
  that fails has a cause: a call that failed, a file that is missing, or what a
  stopped program left half written.
- **Distance kernels.** int16 lanes and int32 sums. Correct: no build computes
  another distance.
- **FraudCounts.** Chunks for goroutines that write one slice without a lock.

Nothing in the service retries or times out but the start of the load balancer;
there is no restart policy.

## Modules

| Module | Models | State and steps |
|---|---|---|
| `KDIndex` | `partition.go`, `dist_scalar.go`, `dist_simd.go`, the bounds in `kd.go` | pure: vectors, `partKey16`, `sqDist`, `sqDistSimd`, `gapBits`, `aabbLowerBound`, and `IndexOK`, what the search needs of an index |
| `KDSearch` | `count`, `searchPart`, `best5` | the locals of the functions; a step is a partition entered, a node popped, a row considered, or the final count |
| `KDTree` | `computeBox`, `widestDim`, `medianOfThree`, the tests of `build` | pure; used by both modules below |
| `TreeBuild` | `buildPart` with its closure `build`, `quickselect` | the part, `perm`, the stack of calls of `build`, the variables of `quickselect`; a step is a call or return of `build`, or one round of a loop of `quickselect` |
| `RefsBuild` | `Build` of `refs.go`, `BuildKD`, `cmd/preprocess` | the table read so far, then the parts; a step is one record, one row distributed, one part begun or ended, or a step of `TreeBuild` |
| `KDBuild` | `BuildKD` as a function of the table | pure, recursive; only for modules that need an index, TLC only |
| `Worker` | `server.go` | mode and descriptor limit (chosen at the start), client ends, socket buffers, epoll, descriptor table, `conns`; a step is one system call with the code up to the next |
| `HttpRequest` | `parseReqLine`, `contentLength` and the body of `handle`'s loop | pure: where the head of a request ends, its length, its answer |
| `HttpFraming` | `handle`, and `readDrain` where it calls it | what the client sends and how much is read, `rb`, `off`, the responses; a step is a read, a round of the loop, or its end |
| `LoadBalancer` | `lb.c`, `listen.go`, the start in `cmd/api` | `main`'s variables, the workers' sockets and queues; a step is one system call |
| `QueryFromBody` | `parse.go`: `cur`, the sections, `query`, `knownMerchant`; `Vectorize` and `Quantize` of `vectorize.go` | `cur.p`, the object being read, `parsed`; the byte behind the body; a step is one member, or the start or end of an object; parsing ends refused, done or with the panic of `parseISO8601` |
| `Calendar` | the calendar arithmetic of `parse.go` | pure; used by both |
| `Timestamps` | the same against `hourWeekday`, `minutesBetween` of `vectorize.go` | a calendar walked day by day |
| `IndexFile` | `Load`, `writeBin`, `LoadBin`, `WriteKD`, `Open`, the choice in `cmd/api` and `cmd/preprocess` | the cache, the index, the program that runs; a step is one write or one call, a call that fails, or a kill |
| `FlatScan` | `FraudCount5`, `Neighbors5` of `brute.go`; `BuildIndex`, `Index.FraudCount5` of `partition.go` | the buckets, the locals of the scan; a step is one reference put in its bucket, or one row scanned |
| `NearestCount` | what a query promises, abstractly | the answer, in one step |
| `Handoff` | what the load balancer promises, abstractly | the place each connection is in |
| `RequestStream` | what `handle` promises, abstractly | the stream, how much has arrived, how much is answered |
| `FraudCounts` | `FraudCounts` of `brute.go` | the spawning loop, the goroutines, the WaitGroup |
| `KDIndexProofs`, `KDSearchProofs`, `FlatScanProofs`, `WorkerProofs`, `LoadBalancerProofs`, `RefsBuildProofs`, `IndexFileProofs`, `RequestProofs` | | theorems, each about the module it is named for; `FlatScanProofs` about `FraudCounts` too, `RequestProofs` about `HttpFraming`, `QueryFromBody` and `Timestamps` |
| `MCKDSearch`, `MCRefsBuild`, `MCFlatScan`, `MCIndexFile`, `MCQueryFromBody`, `MCHttpFraming`, `MCTimestamps` | | values of the constants for TLC |

How they fit together: `RefsBuild` decodes and distributes the references and
has `TreeBuild` make the tree of each part; its invariant
`WellFormed` is `IndexOK`, which is what `KDSearch` assumes of its indexes
(`IndexAssumption`), so what is proved of the build is what the proofs of the
search start from. `MCKDSearch` takes its indexes from `KDBuild`, the same build
as a function, so search runs use trees of the shape the builder makes.
`IndexFile` takes any build whose slices are as long as they should be
(`BuiltKDAssumption`, which `SlicesAreWhole` proves of `RefsBuild`), writes its
index to a file and reads it back; its run has `KDBuild` for the build. `QueryFromBody` ends with `Quantized(query)`, which is
what `KDSearch` assumes of a query (`QueryAssumption`). `Worker` treats a request as so many
units of input and its response as so many of output; `HttpFraming` says what
those are. `LoadBalancer` stops at the queue of a control socket; `Worker`
starts there.

Three abstract specifications say what a component promises, and the detailed
modules are shown to implement them, as a `PROPERTY` with a refinement mapping:

- `NearestCount` answers a query in one step, with the K nearest and their
  frauds. `KDSearch` implements it, liveness included (`CountsNearest` of run
  `search`): whatever is pruned, the answer appears once, and is that one.
  `FlatScan` implements its safety part with `among` mapped to the references
  the answer is about (`CountsNearest` of run `flat`): all of them for the brute
  force, those in the partition of the query for the bucket scan. That the rows of
  its bucket are those is part of what is shown.
- `Handoff` lets a connection wait, be given to one worker and served by it, or
  be closed. `LoadBalancer` implements it (`HandsOff`), with a mapping that
  gives the *set* of places a connection is in, so that two owners, or two
  deliveries, are no state of `Handoff` at all.
- `RequestStream` has no reads and no buffer: requests are cut from the whole
  stream, and a request whose last byte has arrived is answered before more is
  looked at. `HttpFraming` implements it (`AnswersTheStream`), for every sequence
  of bytes, well-formed or not: what is consumed is `pos - Len(rb) + off`, so the
  step that moves the rest to the front of `rb` is not seen at all.

The constants carry the code's names
or say what they stand for.

Choices worth knowing:

- **Data.** Components of vectors are integers, as in the code. A 4-bit
  partition key is the set of its one bits. `QScale` is a parameter (10000 in
  the code) with the assumption that makes int16 differences and int32 pair
  sums exact. `NoId` and `Inf` are the contents of an empty `best5` slot.
- **Order.** `sort.Slice` is not stable, so partitions with equal gaps may be
  probed in any order; events of one `EpollWait` may come in any order.
- **System calls.** The kernel's part of `Worker` (polling on
  `EPOLL_CTL_ADD`/`MOD`, the edge after a refused write, the ready list, lowest
  free descriptor, registrations that outlive a close while another process has
  the file open) is modelled from how the code relies on it, and marked
  external.
- **Bytes of a body.** A body is a sequence of atoms: brackets, quotes,
  backslashes, blanks, and literals, numbers or pieces of text as single
  members of a small set. Floats are fractions; `Round` of them is exact.
- **Bytes of a file.** The cache is a sequence of fields, the index a size and
  the slices copied to it; a slice that was not copied reads as zeros, one that
  is read elsewhere than it was copied does not read at all. Offsets, sizes and
  alignment are the code's numbers.
- **Time.** `LoadBalancer` counts the 100 ms naps of `connect_worker`;
  `BootNaps` says after how many a living worker listens.
- **Variants.** Definitions marked `bug:` are plausible mistakes in the code
  they stand beside. No specification uses them; each shows that some property
  of a run would notice that mistake.

## What TLC checks

Type invariants besides, each run asks one question.

| Run | Configuration | Question | Instance |
|---|---|---|---|
| `search` | `MCKDSearch.cfg` | does each step keep the inductive invariant of the proofs; is a row ever lost; can `count` panic; does the search implement `NearestCount` | K = 2, leaf of 1, 104 tables of 3 or 4 references from three pools, 6 queries, both values of `stop` |
| `build` | `MCRefsBuild.cfg` | is every index well-formed | all files of up to 5 records of 5 kinds, each built step by step |
| `worker_table` | `WorkerTable.cfg` | do map, descriptors and epoll agree while a number is reused; is each queued connection adopted | 2 connections, 1 or 2 descriptors, fd and tcp mode, fair |
| `worker_stream` | `WorkerStream.cfg` | are responses lost or repeated, is an edge missed, is each complete request answered, also after a half-close | requests of 3 units, responses of 2, reads of 2, room for 1, fair |
| `load_balancer` | `LoadBalancer.cfg` | are living workers found; does the hand-off implement `Handoff`; no descriptor kept, fair turns, none closed but for a dead worker | 4 clients, 2 workers that may die, queues of 1, stale socket files or not, fair |
| `http` | `MCHttpFraming.cfg` | are pipelined requests answered in order, each before the next read; does `handle` implement `RequestStream`, which knows no reads | up to 3 of 7 requests, and every stream of up to 5 of 6 tokens, reads of any size, fair |
| `timestamps` | `MCTimestamps.cfg` | does the calendar arithmetic agree with the calendar and the time package | every day of 1890 to 2110 |
| `query_from_body` | `MCQueryFromBody.cfg` | does a whole body give the reference query; is a cut one refused; does the byte behind a body ever count; is every query quantized; does each step read on, so that parsing ends | some 70 payloads; every order of the sections and of the members of each; 9 unknown values at every place; repeated and missing members; malformed timestamps; two bodies cut at every atom, or with any atom missing; bodies cut behind the sign of an offset, with four things behind them |
| `index_file` | `MCIndexFile.cfg` | is what is served one whole table; has every failed start a cause; do sections overlap | 4 tables of 0 to 5 references or none, any sequence of starts, kills, failing calls and new references |
| `flat` | `MCFlatScan.cfg` | do the scans implement `NearestCount`; when do they panic; do the two kernels agree | every table of up to 5 references of 4 vectors, K = 3 |
| `fraud_counts` | `FraudCounts.cfg` | is each query counted once, none beyond the slice, does the caller return | up to 7 queries, 4 processors, fair |
| `timestamps_fraction` | `TimestampsFraction.cfg` | expected to fail, see [Findings](#findings) | 1970 to 2030 |

**Why the bounds are enough.**

- *Search.* Tables come from three pools. One has two partitions, with
  duplicates and empty partitions. One has a single partition split along two
  components, where the plane test prunes what the box does not (`Exact`
  fails there if near and far are swapped). One has candidates exactly as
  far from the query as the partitions are apart. K is below the number of
  references, so every pruning fires. The proofs lift everything but the
  liveness of `CountsNearest` to every size.
- *Build.* Five records with a leaf size of 1 give quickselect ranges with equal
  keys, several rounds, and leaves of duplicates. The proofs lift it to every
  size.
- *Worker.* One descriptor and two connections force reuse of the number, with
  the load balancer's copy closed before or after, and a full table; two
  descriptors leave room for both. With requests of three units and reads of
  two, reads end inside requests and span their boundary; responses of two
  units and room for one take at least two writes each. A third connection adds
  no new relation: the loop handles one at a time and shares only the table.
- *Load balancer.* Queues of one fill after one connection, so four clients
  reach a diverted send, a blocking send and the death of a worker within it,
  and batches end both ways. `StatTries`, `ConnTries` and `BootNaps` (3, 2, 1)
  keep the order of the code's 600, 100 and a boot of a few seconds:
  `NeverGivesUp` needs `BootNaps < ConnTries`, ten seconds in the code.
- *Framing.* Three requests put one wholly inside a read that cuts both of its
  neighbours.
- *Bodies.* Each value of the payload is taken over its bounds and on them,
  below and above (`clamp01` and `q01`), and merchant lists where an id is
  part of a name, a name of several pieces, or stands behind an escaped quote.
  Unknown members nest brackets of both kinds and put them into strings. With
  `MaxInt32` at 9, counts of 9, 10 and 12 are on and beyond it. One timestamp is
  before 1970, so hour and weekday are taken below zero.
- *Index file.* An empty table, two of one reference that differ in vector and
  label, and one of five references in both partitions: old content that
  survives shows. Stopped writers may be started again any number of times; the
  files have finitely many states.
- *Flat scans.* Five references for K = 3 fill, replace and tie candidates; up
  to two leave slots empty. `LaneHalf` is the least lane that holds the largest
  difference, as 2^15 is for 10000 in the code (with room to spare).
- *Timestamps.* The walk passes leap years, the centuries 1900 and 2100 that are
  none, and 2000, the start of an era in March. The minutes of `MCTimestamps`
  are at the edges of hours and days, and its offsets have both signs and move
  them to another day.

**Fairness.** `KDSearch` and `FlatScan` run alone: weak fairness of their next
step. In
`Worker`, the worker's thread is weakly fair as a whole (`Server`): between two
system calls it never waits for anyone, and in `EpollWait` it is enabled only
when there is an event. Clients are fair only in reading what they are sent
(`Receive`), which `Answered` needs; that they send, finish or reset, and that
the load balancer passes or closes, is never assumed. In `LoadBalancer`, the
process and each worker are weakly fair; a blocking `sendmsg` is enabled when
there is room or its peer is dead, so fairness does not presume that it
returns. Deaths and arrivals are not fair. In `HttpFraming` the rounds of
`handle` are weakly fair, since it runs to its end before the worker does
anything else; that the client sends on is not assumed. In `FraudCounts` the Go runtime runs
each goroutine that can run.

**Deadlock.** `query_from_body` and `index_file` are checked for deadlock: a
parser has a step at every byte until it returns or panics (then it stutters
as `Returned`), and the programs can always be started again. The other runs say
`CHECK_DEADLOCK FALSE`, because the modelled systems
may stop: a search ends, clients run out of things to send, and a worker that
waits is at rest. What must not stop is stated: `CountsNearest`, `HandsOff`,
`AnswersTheStream` (whose abstract specifications promise an answer, or an
owner), `Answered`,
`Adopted`, `Answers`, `Returns`.

**Conditions on properties.** `FinishedIsAnswered` allows one case: a client
that half-closes while responses wait for room is dropped by the read of 0
bytes in `readDrain`, before the test in `Run` that would spare it. `Adopted`
is for a worker with a descriptor for every connection: when the table is full,
`recvFDs` consumes a message without its descriptor, `accept4` leaves the
connection queued, and the loop returns until the next arrival. `AnswersInOrder` is about clients whose GET has no body: the code
skips a body only after POST. `ServesReferences` excepts an index
whose writer was killed, or ended by a failing call, which `Open` accepts, and
allows an older table where the cache was kept while the references changed,
since `Load` does not compare them. `FailsWithCause` names what fails a start in
which every call succeeds: a cache cut short behind its header, on which
`LoadBin` panics at every start until somebody removes it; no references (or
none that can be decoded, `gz = NoFile`) when there is no cache; and an index
that is missing or torn. A call that fails is the cause of its own start only:
`Start` forgets it, so that what it left half written must be named as torn. A
full disk under the sparse mapping of `WriteKD` kills the program by a signal,
which is `Kill`. `Answers` says that a scan of fewer
than K rows panics, which `Index.FraudCount5` does for small partitions; `Neighbors5`, which
runs the same loop, returns the number of the empty slot instead.

`SameQuery` is about bodies that a JSON encoder writes for a payload.
`QueryFromBody` and `encoding/json` are known to differ, and the inputs do not
include these: an id equal to the text between two names of the list, or one
that stands behind an escaped quote, is found in the list's raw text; `null`
for `last_transaction` after an object keeps `lastTS` and `kmLast`; a number
that is `null` is refused; a risk outside 0..1 in the
table is clamped only by `q01`; commas may be missing, and what follows the
last brace is not read. The ids that are found and the `null` are listed with
the hazards; the rest concerns documents no encoder of the payload writes.

Where only a component differs, `SameQuery` leaves it out and checks the others
(`Comparable`). A timestamp that is missing or malformed is an instant for
`parseISO8601`, 0 or whatever its bytes give, while `Vectorize` takes hour,
weekday and minutes for 0; hour and weekday before 1970 come from a division
towards zero; and a count beyond int32 is whatever the conversion gives
(`TooLarge`). These three are listed with the hazards as well. `TypeOK` holds in
all of them.

A timestamp that ends in its sign makes `parseISO8601` look at the byte behind
its closing quote. In a whole body that is a byte of the body; in one cut right
there it is the byte behind the body (`behind`), or there is none and the slice
panics (`Panic`). What comes behind a body has no bearing on the answer, since
a body that ends there is refused (`ScoresOnlyTheBody`).

## What is proved

Every theorem named here is about all values of the constants that satisfy the
named assumptions of its module; TLC evaluates those assumptions in the runs.
Each inductive invariant was checked by TLC before it was proved, on the run's
instance or, for the index file, on smaller tables.

### Bounds and kernels: `KDIndexProofs`

From `QScaleAssumption` and `InfAssumption` alone:

- `BoxLowerBound`: the distance to a box is at most that to any vector in it.
- `PlaneLowerBound`: so is the square of the distance to a split plane, for a
  vector on its other side.
- `GapLowerBound`: so is the gap between two partitions, for vectors in them.
  This is the claim of the repository's `README.md` and of
  `gap_invariant_test.go`; it needs that dimensions 5 and 6 are sentinel
  together (`Quantized`), since the weight of that bit counts both.
- `SimdKernelIsExact`: for quantized vectors, and a lane whose half is more than
  twice the scale (2^15 for 10000), no int16 difference and no int32 sum of two
  squares wraps, so `sqDistSimd` is `sqDist`. `Wrap` reduces modulo the width;
  `WrapInRange` says that it leaves alone what fits. With this, what is proved
  of the search with the scalar kernel holds of the vector build.

The module also has what both kinds of search need of candidates: `WorseOrder`
(the order by distance, then number, is strict and total), `OneMore` (replacing
the worst candidate by a better one keeps the best of the references seen so
far, `BestOf`), `CountOnce` (a slice without repetitions has as many places as
elements) and `TopN`: N references that are better than all the others are
exactly those with fewer than N better than them. That is the step from an
array of candidates to the set `Nearest` of the abstract specification.

### Search: `KDSearchProofs`

For every K, every set of well-formed indexes with at least K references, every
query and both values of `stop`:

- `TypeCorrect`, `NoRowLost` (`Covered`), `BooksAgree` (`Bookkeeping`),
  `NeverPanics`, `BoundShrinks`;
- `SearchIsExact`: when `count` returns, `best5` holds K different references
  with their own distances, and every other reference is worse than all of
  them. With `stop` or without: both return the same references;
- `AnswersLikeTheScan`: the search implements the safety part of
  `NearestCount`. Every step but the last stutters there, and the last is its
  one step, with the set `Nearest` and its frauds.

The argument. A search state is good when each row of each partition is
*pending* (its partition is still to come, a node above it is on the stack, or
it is in the leaf being scanned), *chosen*, or *beaten* (worse than every
candidate). That is `Covered`; it implies `Exact` once nothing is pending. It
is not inductive by itself. A row that is considered leaves `pending`, and is
then chosen or beaten only if `worst` really is the worst slot, and the
candidate it displaces must become beaten (`BestOK`). A popped node must not
take with it rows another entry stands for, and a row must not be considered
twice, or it would fill two slots (`StackOK`, `Fresh`). So the invariant is

    IInv == TypeOK /\ ArgsOK /\ BestOK /\ StackOK /\ Fresh /\ Covered

and each action is shown to keep it: the three prunings by the three lower
bounds, and the order of candidates by `WorseOrder`. Beaten rows stay beaten since candidates
only improve. The run `search` checks the parts of `IInv`, with `BestOK`, `StackOK`
and `Fresh` together as `Bookkeeping`.

`NeverPanics` adds a counting argument: an empty slot means that fewer than K
references are chosen, while none can be beaten, by an empty slot nobody is
worse than; so there are rows pending, and the gap cannot stop the search
because the worst distance is still `Inf`.

Assumptions: `QScaleAssumption`, `InfAssumption`, `NoIdAssumption`,
`KAssumption`, `IndexAssumption`, `QueryAssumption`. The first four hold of the
code's constants. `QueryAssumption` is what `QueriesAreQuantized` below proves
of `QueryFromBody`. `IndexAssumption` is what `IndexIsWellFormed` proves of
`BuildKD`; that there are at least K references is assumed.

### Build: `RefsBuildProofs`

For every set of records, every number of references and every leaf size:

- `IndexIsWellFormed` (`WellFormed`): when `BuildKD` returns, each reference is in
  one row of its own partition, each box bounds the rows of its node, and each
  split value separates the rows of the two children, ties and duplicates
  included;
- `TreesAreEven` (`EvenTrees`, in no run): the halves of a node differ by at
  most one row, and a leaf is small or has one vector only;
- `TypeCorrect` (`TypeOK`): every vector decoded is quantized;
- `SlicesAreWhole`: at every step each slice of a part has an element for each
  place from 0 to its count or its number of nodes, and number and labels of
  the index are those of the table. Its invariant (`WholeInv`) is separate from
  the one below: slices only grow or are permuted, wherever the build stands.

`WellFormed` speaks of the end only. What holds before is

    BInv == RefsInv /\ PartsInv /\ i \in Nat /\ (IF pc \in TreePcs THEN TreeInv ELSE TypeOK)
    TreeInv == pc \in TreePcs /\ PartInv /\ StackInv /\ CallInv /\ NodesInv /\ SelInv

`PartsInv` says which references each part holds by the loop of `BuildKD`
(`Holds`), and which parts have a finished tree (`TreeOK`). Within a part,
`perm` is a permutation (`PartInv`), and the argument is about who may still
disturb what. `quickselect` swaps rows only between `sel.lo` and `sel.hi`, both
inside the innermost waiting call, whose range lies in the range the next
waiting call has left open (`StackInv`), to the right of every finished node
(`NodesInv`: a finished node ends at `Edge`, where the running call begins). So
a swap exchanges two rows *within* each range a waiting call has promised
something about, and its box and its two halves survive (`SwapBox`,
`SwapHalves`), while finished nodes see none of it (`DoneStays`). In
`quickselect` itself, no row left of `sel.lo` is greater than one right of it,
and the same at `sel.hi` (`SelInv`, `Cut`), the three scanned ranges are below,
equal to and above the pivot (`Sides`), and the row `mid` stays between `sel.lo`
and `sel.hi`; when the loop ends, the row at `mid` splits the range
(`Halves`). `EvenTrees` comes from `Done`, which fixes the range of each child.

Assumptions: `QScaleAssumption`, `LeafSizeAssumption`, `NoIdAssumption`,
`RecordsAssumption` (components between 0 and 1 or sentinel) and
`MaxRefsAssumption`.

### Index file: `IndexFileProofs`

For any tables, any build whose slices are whole, any sequence of starts, kills,
failing calls and new references:

- `ServesOneTable` (`ServesReferences`), `FailuresHaveCauses`
  (`FailsWithCause`);
- `SectionsDoNotOverlap` (`SectionsApart`).

The invariant is

    IInv == ProgramInv /\ CacheInv /\ TableInv /\ IndexInv
            /\ ServesReferences /\ FailsWithCause

`CacheInv` says that the cache is the beginning of what `writeBin` writes for
some table, present or, with an old cache kept, former; that between the header
and the last label it is being written or `faults` has it as torn; `LoadsBack`
that a whole one gives its table back. `TableInv` also says why a program
decodes: it found no cache it could use. `IndexInv` says which copies of which
index the file has: those that are not left to make while `WriteKD` runs, all
of them when it has ended, unless its writer was stopped. That the file starts
empty is needed here and is what `CreatedKeeping` breaks.

What makes a file of copies the same as an index is arithmetic. `Extents`: each
copy begins where the one before it ends, or later. It rests on `LayoutFacts`
(the slices of a part lie behind one another, at multiples of 8) and
`OffsetsDef` (the offsets, a recursive function over 16 parts, exist). So full copies
do not overlap (`Apart`) and each can be read back whatever was copied before
or after it (`ReadsCopy`); where no label was copied there are zeros
(`ReadsZero`), the label of a reference that is no fraud. A slice that is empty is not
copied and not read. `OpensWhole` puts this together: `Open` of a file with all
copies of an index is that index, as far as the search uses it.

Assumptions: `TablesAssumption` (a table has a vector and a label for each
reference) and `BuiltKDAssumption`, which is what `SlicesAreWhole` proves of
`RefsBuild`.

### Flat scans: `FlatScanProofs`

- `ScanIsExact` (`CountsNearest`): both scans implement `NearestCount`, for
  every table, query and K.
- `BuildsAgree` (`KernelsAgree`): both kernels agree on every table.
- `EachWrittenOnce` (`WrittenOnce` of `FraudCounts`): for any number of queries and
  processors, the goroutines write each element once.

`FInv` says of the buckets that they hold every reference looked at so far,
once, in the bucket of its partition (`Filled`), and of the candidates that
they are the best of the references scanned so far (`BestOf`). At the end the
scanned references are those of `among`, by `Filled`, and `CountOnce` and `TopN`
give the set and the number of frauds. A scan of fewer than K references does
not answer: a slot is empty, and it panics.

`CInv`, for `EachWrittenOnce`, says that a goroutine is inside its chunk, that
before its place all is written once and nothing from there on, that chunks
not yet started are not written, and that `wg` is the number of goroutines
that run. Chunks are apart from one another; that they reach the last query
is where rounding up in `(n + workers - 1) / workers` matters.

### Worker: `WorkerProofs`

For any number of connections, descriptors, requests, and any lengths of
requests, responses, reads and socket buffers:

- `TypeCorrect`, `TablesAgree` (`TableOK`): map, descriptors and epoll agree,
  and a connection is adopted once, also when numbers are used again;
- `NothingLost` (`Conserved`): responses are neither lost nor repeated;
- `EveryEdgeSeen` (`NoLostEdge`);
- `ClosesOnlyFinished`, `FinishedGetsAll` (the action properties
  `DropsOnlyFinished` and `FinishedIsAnswered`).

The invariant is

    IInv == TypeOK /\ TableOK /\ QueueOK /\ BatchOK /\ EventOK
            /\ Untouched /\ Conserved /\ InputSeen /\ OutputSeen

`NoLostEdge` speaks of the moment the worker waits; in between, what is not on
the ready list must be in the worker's hands. `InputSeen` says so of input: it
is on the ready list, in an event of the batch, or the worker is on its way to
`read`. `OutputSeen` says it of unwritten output: unless it is about to be
written, `EPOLLOUT` is armed, and the socket is full (so room will be an
edge), or the edge is on the ready list or in the batch. Both need that the
batch is not stale: `BatchOK` has at most one event for a descriptor, of a
connection that still has it, which `EventOK` carries over to the event in
hand. `Drop` keeps that because the event of the connection it closes is the
one taken out of the batch. `ClosesOnlyFinished` follows from `EventOK`.
`Untouched` and `QueueOK` give a new connection zero for all its accounts, for
`Conserved`; the division into requests is that of `readDrain`'s loop.

Assumptions: `WorkerAssumption` (lengths are positive, and there is a
descriptor at least) and
`NoneAssumption`.

### Load balancer: `LoadBalancerProofs`

For any number of workers and clients, and any limit of loops and queues:

- `TypeCorrect`, `OutOfThePath` (`StepsOut`), `FullQueuesRefuseNobody`
  (`ClosesOnlyForTheDead`);
- `RoundRobin` (`Balanced`): after some number of full rounds, the workers
  before the turn have had one turn more than the others, and what a worker was
  given differs from its turns by at most the diverted connections
  (`RoundsOK`). That is inductive, where `Balanced`, which compares two
  workers, is not;
- `ConnectsToTheLiving` (`NeverGivesUp`), under `BootNaps < ConnTries`, which
  the model does not assume: workers boot in a few seconds, and the code tries
  for ten. It needs that attempts never run ahead of the naps of a start
  (`NapsOK`), and that a file left over from an earlier start ends the
  `stat` loop early but not the attempts;
- `KeepsThePromise`: the load balancer implements the safety part of `Handoff`.
  `HInv` adds to `IInv` that each connection is in one place and in its queue
  once (`OnePlace`, `Queues`); then each step moves at most one connection, from
  one place to the next, as `Handoff` allows, or stutters.

### HTTP framing: `RequestProofs`

For any clients, any well-formed requests with any headers and bodies, and any
size of reads:

- `ReadsMakeNoDifference`: `handle` implements the safety part of
  `RequestStream`, whatever the bytes;
- `AnsweredInOrder` (`AnswersInOrder`): pipelined requests are answered in order,
  each once, from its own body, and before the next read.

The invariants are `Buffered`, which says where `rb` and `off` are in the stream
(the last `Len(rb)` tokens of what was read), and that what is kept between two
reads is no whole request; and `Answered`, which says that of pipelined requests
those answered are those consumed. No induction over the stream is needed,
because a round of the loop looks at its front only: `SameRequest` says that a
request that is complete in what has arrived is the same request, with the same
answer, in everything that will arrive. `WholeRequest` says that a well-formed
request at the front is found whole: the first blank line is that after its
headers, whatever its body holds, and the length found is that of its body.

Assumptions: `BufAssumption`, `StreamsAssumption` (bytes are tokens) and
`PipelinesAssumption` (what a client that sends well-formed requests sends: a
POST states its length once, a GET has no body).

### Parser and calendar: `RequestProofs`

- `InstantsAgree` (`SameInstant`) and `ClocksAgree`
  (`SameHourAndWeekday`), for any range of years, minutes of the day and
  offsets. `daysFromCivil` is brought to a closed form without eras
  (`ClosedForm`: its division is Go's, towards zero, and the correction
  `y - 399` makes up for it), and the closed form grows by one with each day of
  the calendar (`NextDayIsNext`), over the ends of months, years and the three
  kinds of February. Hour and weekday are for instants from 1970 on, as stated.
- `QueriesAreQuantized` (`TypeOK`): whatever the body, the
  numbers in it and the normalization, the query of a body that is not refused
  is quantized. Each field of `parsed` keeps its type over any members
  (`Parsed`), and a fraction that was clamped stays within the scale when it is
  rounded (`Clamped`). Instants may be any integers: Go's remainder keeps the
  sign of the instant, and adding the divisor before the second remainder brings
  hour and weekday back into their range. It assumes that risks are between 0
  and 1.
- `ParsingReadsOn` (`ReadsOn`): every step of the parser, on any body, reads on,
  up to the end of the body at most, or parsing returns or panics; so it ends.
  What is recursive in `str` and `skip` goes forward only, so where the
  recursion had no value, or one outside the body, there would be a last such
  place, and there is none (`ScanDef`, `PastDef`, `StrFacts`, `PastFacts`); the
  rest follows from `Within`, that the position is in the body or just behind
  it.
- `BodiesScoredAlone` (`ScoresOnlyTheBody`): no body for which a byte behind it
  is read is scored. A timestamp for which that happens ends with the body
  (`LookingBehindIsLast`), so no brace follows it, and `NoMore` never holds
  again. `InputsAssumption` says that a body has a length, `NumAssumption` that
  the end of the body is no number.

### Only model-checked

- Liveness: that a search ends (`CountsNearest` of `search`), `Answers`,
  `Answered`, `Adopted`, `Returns`, and the parts of `HandsOff` and
  `AnswersTheStream` that promise an owner and an answer. Fairness and ENABLED are out of the prover's reach.
- `SameQuery`, `CutIsRefused`: what they say depends on what the scans of the
  parser, recursive functions in the model, give for a whole body and not only
  on their bounds, which needs induction over the body's grammar.

## Findings

`timestamps_fraction`: `parseISO8601` (`parse.go:517`) reads byte 19 of a
timestamp as the sign of its offset. After a fraction of a second,
`2026-03-11T20:23:35.5+02:00`, byte 19 is the point and the offset is ignored,
so hour, weekday and minutes since the last transaction are those of another
instant. `time.Parse(time.RFC3339, ...)`, which `Vectorize` uses, accepts the
fraction and honours the offset. `TestQueryFromBodyMatchesVectorize` says that
the two agree; its timestamps have no fraction. Without an offset (`Z`), or
without a fraction, they do: `SameInstant`, `SameHourAndWeekday`.

## Not modelled

- Floating point: the vectorizer and `brute.go` compute in float64, the model in
  fractions and integers. Where a product is not exact, `math.Round` could in
  principle see the other side of a half.
- The digits of numbers and of timestamps as bytes: a number or timestamp is
  one atom. Escapes other than a backslash before one atom.
- The constants read from two JSON files at the start, the environment.
- `madvise`, `mlock` and `munmap`; a crash of the machine, which might lose
  writes that a killed process does not.
- Memory growth of `rb` and `wb`, content lengths beyond an int, and the
  failure of `lb.c`'s own socket, bind and listen, which end the process.
- A load balancer that is restarted: compose restarts nothing, and a worker
  accepts one control connection.
- The bench and validation commands, which keep no state the service uses;
  tuning of the Go runtime, logging.

## Plan

Done: the search, the flat scans and both kernels, the build, the index files
with crashes, the worker in both modes, the load balancer with the start, the
framing, the parser against the reference path, the calendar, the chunks, three
abstract specifications; proofs of the safety properties of all of these but
the agreement of the parser with the reference path.

Next, in this order:

1. The scans of the parser as steps, as the rounds of `handle` are, so that what
   they skip is an invariant and no induction over the body.
2. `Fleet`, the load balancer composed with two workers.
