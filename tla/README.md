# TLA+ models of BioAuth's SPDZ2k two-party protocol

This directory holds TLA+ models of the repository's C++ sources under `src/`,
checked with TLC. Every module is translated from the code. `PROJECT.json`
maps each definition to the lines it models and lists the runs, mutants,
findings and hazards.

## The system

BioAuth evaluates an arithmetic circuit (here a matrix or dot product
`z = x * y`) between two parties in the SPDZ2k style. It has two phases.

* **Offline (trusted dealer).** One `FakeParty` (`fake-offline/FakeParty.h`)
  draws the MAC key fragments and writes one file per party. Each file starts
  with the party's key fragment. `FakeCircuit::runOffline` then runs every
  gate's `doRunOffline`. For a multiplication, `FakeMultiplyGate::doRunOffline`
  draws the output mask lambda_z and a Beaver triple (a, b, c = a*b). It
  additively shares each value with a MAC and appends to both files, in this
  order: a, a_mac, b, b_mac, c, c_mac, lambda, lambda_mac. It then appends
  delta_x = a - lambda_x and delta_y = b - lambda_y in the clear.
* **Online (two processes).** Each party reads its file in the same order
  (`MultiplyGate::doReadOfflineFromFile`). Its `doRunOnline` then does four
  things:
  1. It computes a share of Delta_z = x*y + lambda_z. Only party 0 adds
     temp_x * temp_y.
  2. It writes its share vector to the peer on a thread `t1`.
  3. It reads the peer's vector on the main thread.
  4. It joins `t1`, adds the two vectors in ClearType and applies
     `RemoveUpperBits`.
* **Transport.** `networking/Party.h` is one TCP byte stream per direction,
  without framing. `SendVec` writes the raw memory of a `vector<T>`.
  `ReceiveVec<T>(n)` blocks until it has read `n*sizeof(T)` bytes.
* **Offline communication simulator.** `dot_product_db_offline_party_0/1.cpp`
  are two programs that replay the message pattern of a real SPDZ offline
  phase. They exchange random `uint64_t` values in lock-step handlers: key
  exchange, triples, sacrifice, square pairs, bit triples, input masks,
  batched MAC check and a ZK proof. Only party 0 computes with the values:
  it sums the two key shares into `mac_key` with `field_add` (addition in
  `uint64_t`, then reduction modulo 2^61 - 1) and combines its challenges,
  test values and their MACs in the batched check.
* **Benchmark drivers.** `dot_product_db_party_0/1.cpp` run the protocol
  once per network configuration (LAN, MAN, WAN). Each iteration builds a
  new `Party` on the same port, runs, and prints a result line labelled
  with the network. Any `std::exception` is caught and the loop goes on.
  Only party 0 calls `setupNetwork`, which reconfigures the loopback device
  shared by both processes.

## Modules

| Module | Models | State / actions |
|---|---|---|
| `Spdz2kShare` | `share/Mod2PowN.h`, `share/Spdz2kShare.h`, `utils/linear_algebra.h` | Storage widths, ring types, `Wrap`, `RemoveUpperBits`, `MatrixAdd/Subtract/Multiply` (row-major) |
| `Party` | the byte layout of `Party::SendVec` / `ReceiveVec` | `Encode` / `Decode` of vectors as little-endian stream units |
| `FakeParty` | `fake-offline/FakeParty.h` | Variables `key_shares`, `global_key`, `output_files`; `Construct`, `GenerateAllPartiesShares(Vec)`, `WriteSharesToAllParites`, `WriteClearToAllParties` |
| `MultiplyGate` | `FakeMultiplyGate.h`, `MultiplyGate.h`, `Party.h`, the dot-product drivers | The dealer (`DealerConstruct`, `RunOffline`). For each party: `ReadOffline`, `RunOnline` (computes the share and starts t1), `SendUnit` (t1 writes one unit), `ReceiveUnit` (the main thread reads one unit), `Finish` (join, combine, release) |
| `OfflineSimulator` | `dot_product_db_offline_party_0.cpp`, `..._1.cpp` | Each handler as its sequence of blocking `Send`/`Receive` calls. Stream units carry a ghost tag naming the handler and loop iteration that wrote them |
| `Conv2DGate` | `FakeConv2DGate.h`, `Conv2DGate.h` | The same dealer and party actions as `MultiplyGate`, with a convolution triple. The send runs on thread t1 and the receive on thread t2. t2 reads the peer's vector as `SemiShrType` |
| `MultiplyCircuit` | `FakeCircuit.h`, `FakeMultiplyGate.h`, `FakeOutputGate.h`, `MultiplyGate.h` | A circuit of 1x1 gates given by the `Builder` constant (input, multiply, output). The dealer runs `DealerConstruct`, then one action per gate in the order of the endpoint traversal. Each party reads every gate's fields, then evaluates the gates in builder order over one link |
| `BenchmarkLoop` | `dot_product_db_party_0.cpp`, `..._1.cpp`, `Party::ReceiveVec` | Per party: loop index `it`, `pc`. The shared tc configuration `netcond` (including the states a failed `tc` command leaves), the set `link` of parties whose `Party` of the current connection is alive, and the printed result lines. Actions `SetupNetwork`, `Connect` (both constructors), `ConstructorThrows`, `RunOnline` (the protocol as one step), `BodyThrows`, `PeerClosed` (a read on a closed stream throws; the driver's catch takes it, or, inside the multiply gate's exchange with `t1` joinable, `std::terminate` ends the process), `PrintResult`, `Advance`, `ExitMain` |
| `OfflineMacKey` | `dot_product_db_offline_party_0.cpp`, `..._1.cpp` | The values of the key exchange (`establishMACKey`, `handleMACKeyExchange`) and of the batched MAC check (`batchMACVerification`, `handleBatchMACVerification`). `field_add` and `field_mul` are the code's arithmetic: `U64` wraps at the word width. Words the receiver ignores travel as the model value `Unread` |
| `MC_MultiplyGate`, `MC_Conv2DGate`, `MC_MultiplyCircuit`, `MC_OfflineSimulator`, `MC_OfflineMacKey`, `MC_BenchmarkLoop` | the harnesses | Properties and scaled constants |

### Abstractions

* **Widths.** The storage widths 32/64/128 are scaled to `<<1, 2, 4>>` with
  K = S = 1. This keeps the structure of `Spdz2kShare64`, where the experiments
  use K = S = storage width: ClearType is one stream unit and SemiShrType is
  two. Arithmetic wraps at the storage width, as C++ unsigned arithmetic does.
* **Randomness.** Each `getRand<T>()` is a choice from a constant subset of T:
  `ClearRand`, `MaskRand`, `KeyRand`, `ShareRand` and `MacShareRand`. This
  bounds the dealer's branching.
* **Files.** A file is the sequence of the integers written to it. The decimal
  formatting is left out because the writer and the reader agree on it.
* **Gate shapes.** `MultiplyGate` takes the shapes its inputs are built with
  (`XRows`, `XCols`, `YRows`, `YCols`). It derives the gate's dimensions as
  both constructors do. The constructors throw unless `XCols = YRows`; the
  drivers never trigger this, so it is an `ASSUME`.
* **Convolution.** `convolution` and `Conv2DOp` (`utils/tensor.h`) are not
  under `src/`. `Convolution` is a valid 2D convolution of a row-major image
  by a row-major kernel, modelled from the spec.
* **Circuit traversal.** `FakeGate::runOffline`, `Circuit::readOfflineFromFile`
  and `Circuit::runOnline` are not under `src/`. They are modelled from the
  spec (`spec_modelled`):
  * the dealer runs a gate's inputs before the gate, and each gate once;
  * the reader reads the multiply gates in builder order;
  * the online loop evaluates the gates in builder order, and an output gate
    forwards its input's Delta.
* **Input gates.** `InputGate`, `FakeInputGate` and `ReadShares` are not under
  `src/`. They are modelled from the spec (marked `spec_modelled`):
  * the dealer draws lambda_x and lambda_y;
  * the public Delta of an input is `RemoveUpperBits(x + lambda_x)`;
  * their file records are left out of both files consistently.
* **The MAC check.** `doRunOnline` computes the MAC share `Delta_z_mac` and
  never uses it (spec §4.5: it is meant for a later batched check, which the
  code does not have). `MultiplyGate` and `Conv2DGate` read the MAC fields and
  compute `Delta_z_mac` the way the code does (`LocalMacShare`).
  `MacShareConsistent` checks it against the global key. `MultiplyCircuit`
  does not compute it.
* **Streams.** A stream is a sequence of units of the smallest storage width
  and holds at most `SocketBuffer` units. A write blocks while the stream is
  full, as a blocking `boost::asio::write` does once the kernel buffer is full.

## Runs

| Run | Config | Expect | Shows |
|---|---|---|---|
| `mul_scalar` | `MC_MultiplyGate.cfg` | pass | The 1x1 * 1x1 product. See below |
| `mul_vector_open` | `MC_MultiplyGate_vector.cfg` | violation | With a 1x2 output, `OpenedCorrect` fails |
| `mul_join_blocked` | `MC_MultiplyGate_blocked.cfg` | violation | With a 1x2 output and a 1-unit socket buffer, `AllDone` fails |
| `offline_sim` | `MC_OfflineSimulator.cfg` | pass | The two simulators stay aligned, drain the streams and finish |
| `offline_mac_key` | `MC_OfflineMacKey.cfg` | pass | The combined MAC of the batched check is `mac_key` times the combined value, which is the field dot product of challenges and test values |
| `offline_mac_key_overflow` | `MC_OfflineMacKey_overflow.cfg` | violation | Party 0's `mac_key` is not the field sum of the two key shares |
| `conv_gate` | `MC_Conv2DGate.cfg` | pass | A 1x2 image with a 1x1 kernel: the triple is consistent, both parties open conv(x, y) + lambda_z with consistent MAC shares, drain the streams and finish |
| `circuit_chain` | `MC_MultiplyCircuit.cfg` | pass | On x*y*y, the offline files of both multiply gates are consistent with each other and with the reader, and both parties finish |
| `circuit_chain_open` | `MC_MultiplyCircuit_open.cfg` | violation | On the same circuit, the second multiply gate opens a wrong value |
| `bench_loop` | `MC_BenchmarkLoop.cfg` | pass | Every fault of the loop (constructor failures, caught or fatal failures after connecting, failing `tc`); type invariant only, and the run that fires the fault actions |
| `bench_loop_reliable` | `MC_BenchmarkLoop_reliable.cfg` | pass | If constructors always connect, both drivers return unless a failed read in the gate's exchange ended one by `std::terminate` |
| `bench_loop_desync` | `MC_BenchmarkLoop_desync.cfg` | violation | A constructor that throws on one side makes the labels wrong |

`mul_scalar` checks five properties:
* the dealer's files are a consistent preprocessing (`OfflineFilesConsistent`);
* both parties open x*y + lambda_z (`OpenedCorrect`);
* the MAC shares authenticate Delta_z (`MacShareConsistent`);
* both parties terminate (`AllDone`);
* the type invariant (`TypeOK`).

### Properties

* `OfflineFilesConsistent` reads the two files back the way
  `doReadOfflineFromFile` does. It checks that the shares sum to a triple with
  c = a*b mod 2^K, to lambda_z, and to MACs equal to global_key times the
  value. It also checks that delta plus lambda equals a (and b). A wrong write
  order, size or share arithmetic breaks it.
* `OpenedCorrect`: every finished party's Delta_z equals x*y + lambda_z mod 2^K.
* `MacShareConsistent` (`mul_scalar`, `conv_gate`): while both parties hold
  their shares of the gate, the two `Delta_z_mac` shares sum to global_key
  times the sum of the two `Delta_z` shares, mod 2^(K+S). The public term
  temp_xy is added to `Delta_z` by party 0 only. Its MAC, temp_xy * [key], must
  be added by every party. Mutants that add it for party 0 only, or that mix
  value shares into the MAC sum, break the property.
* `StreamDrained` (`conv_gate`): after both parties finish, no unread byte of
  the gate is left in either stream.
* `AllDone` (liveness): both parties return from `doRunOnline`.
* `ConvTripleConsistent` (`conv_gate`): the dealer's files read back at the
  convolution gate's field layout sum to a triple with c = conv(a, b), and
  delta plus lambda equals a (and b). `StreamDrained` holds for this gate,
  unlike for `MultiplyGate`.
* `OfflineChainConsistent` (`circuit_chain`): every multiply gate's fields,
  read where the builder-order reader reads them, are a consistent triple,
  mask and MAC set. Its delta_x and delta_y match the masks that the gates
  feeding it hold at the end. Input y feeds both multiply gates, so the
  traversal reaches it twice. If y drew a new mask the second time, the
  first gate's delta_y would be stale.
* `OpenedCorrect` (`circuit_chain_open`): every multiply gate a party has
  evaluated holds its clear value (the circuit evaluated over Z_{2^K}) plus
  its mask.
* `ReadAligned`: a blocked receive only ever sees units written by the peer's
  counterpart handler in the same iteration.
* `StreamsDrained`: the simulators leave both streams empty.
* `AllFinished` (liveness): both simulators finish.
* `ReportsPairedByIteration` (`bench_loop_desync`): every result line
  labelled with network k was produced against the peer's iteration k.
* `AllTestsCompleteUnlessTerminated` (liveness, `bench_loop_reliable`): both
  drivers return from `main`, unless one was ended by `std::terminate`.

* `BatchMacConsistent` (`offline_mac_key`): at every point of the combination
  loop, `combined_value` equals the field dot product of the challenges and test
  values drawn so far (a `RECURSIVE` reference), and `combined_mac` equals
  `field_mul(combined_value, mac_key)`. A `field_add` that does not reduce
  breaks it.
* `MacKeyIsSumOfShares` (`offline_mac_key_overflow`): once computed, party 0's
  `mac_key` is (local share + received share) mod FIELD_SIZE.

### Findings

The violation runs `mul_vector_open`, `mul_join_blocked` and
`circuit_chain_open` show one bug in `MultiplyGate.h:128`. The gate sends
`vector<SemiShrType>` and reads `vector<ClearType>` of the same length, so it
reads half the bytes its peer wrote.

* **Wrong result.** For n >= 2 output elements, the values it reads are halves
  of the peer's shares, so the opened Delta_z is wrong. The dot-product-db
  experiment has n = 512.
* **Leftover bytes.** For any n, n*sizeof(ClearType) bytes stay in the stream
  and are read by the next exchange on the link (`circuit_chain_open`).
* **Blocked join.** If the leftover exceeds the socket buffer, `t1` never
  finishes writing and `t1.join()` blocks forever.

* **A chain of gates.** `circuit_chain_open` shows the leftover corrupting the
  next gate. With 1x1 gates, one multiply gate opens correctly (`mul_scalar`).
  In x*y*y, though, the second gate reads the first gate's leftover unit as
  the peer's share and opens a wrong value.

**Benchmark loop.** The spec (section 8) says a transport failure is fatal
to the party. The drivers instead catch every exception and go on to the
next network on the same port. An exception after the parties connect
closes the thrower's sockets, and the peer's read fails. If that read is in
the multiply gate's exchange (`MultiplyGate.h:128`), `t1` is still joinable,
so unwinding calls `std::terminate` and the peer process ends; the other
driver then waits in its next constructor forever. Otherwise both move on
together: `bench_loop_reliable` shows that termination is the only way a
driver is left waiting when the constructors connect. But if one party's
constructor throws while the other waits in its own, the waiting party's
iteration i is paired with the thrower's iteration i+1 (`bench_loop_desync`).
Both print results under labels that do not match the network. At the end,
the party with an iteration left waits in its constructor forever.

A failing `tc` command (`dot_product_db_party_0.cpp:49-52`) only prints a
warning, and the line is still labelled with the network's name. The model
includes the states such a failure leaves (nothing changed, no qdisc, netem
without tbf), so no property claims that a label names the configuration in
force; the code itself reports the cases where it does not.

**Offline MAC key.** `handleMACKeyExchange` (`..._party_1.cpp:174`) draws
party 1's key share from a default `uniform_int_distribution<uint64_t>`. That
is the whole 64-bit range, while party 0's share is drawn from
[1, FIELD_SIZE - 1]. `field_add` adds in `uint64_t`. When the sum passes 2^64,
which happens for about one share pair in sixteen, it wraps before the
reduction, and `mac_key` falls short of the field sum by
2^64 mod (2^61 - 1) = 8 (`offline_mac_key_overflow`). The scaled model has a
5-bit word and a 7-element field. Party 1 never computes a key, and no check
reads the MACs, so nothing observable depends on it today. The batched
check's combination itself is consistent (`offline_mac_key`).

`Conv2DGate` reads `SemiShrType`, as the spec describes. `conv_gate` checks
that it opens correctly and drains the link.

### Bounds

* **`mul_scalar`.** It has 16,916 states and takes seconds. Every input is
  drawn from {0, 1}, the key from {0, 1}, lambda and the triple from {0, 1},
  and the upper mask is 1. The upper mask makes shares carry non-zero upper
  bits, so `RemoveUpperBits` and the ClearType truncation have work to do.
  `ShareRand` = {3} and `MacShareRand` = {2}: the sharing is correct for any
  draw, and enumerating more draws multiplies the states without new control
  paths. A run with `MaskRand` = {0, 1} and `ShareRand` = {0, 3} (410,000
  states) also passes the invariants. `SocketBuffer` = 1 makes t1 block on a
  full stream.
* **Violation runs.** Two output elements are the smallest case where element
  boundaries matter.
* **`conv_gate`.** 342,032 states, about 100 s. The image is 1x2 and the
  kernel 1x1, so the output has two elements. This is the smallest output
  where element boundaries on the stream matter. The inputs, lambda and the
  triple range over {0, 1}. The key is fixed at 1 to keep the run short: with
  {0, 1} it passes in six minutes.
* **`circuit_chain`.** 156,832 states, about 25 s. Two inputs, two multiply
  gates and an output; every `getRand<ClearType>` and input ranges over
  {0, 1}. A 2-unit socket buffer holds the unit the first gate leaves
  behind. With a 1-unit buffer the second gate's t1 blocks, as in
  `mul_join_blocked`.
* **`offline_sim`.** 1,336 states, about 1 s. dim = 2 and dbsize = 10 give
  20 triples. That is enough for `NumToSacrifice` to leave its floor of 1:
  the sacrifice phase runs total / 10 = 2 rounds. Every handler loops at
  least twice. With 2 bits per element and a 3-word stream, a vector is
  written in several blocking parts.
* **`offline_mac_key*`.** 1,479,175 states, 8 s. A 5-bit word and
  FIELD_SIZE = 2^3 - 1 keep the ratio that matters: party 1's share spans the
  word, so some share pairs wrap it. Two challenges make the loop add to a
  non-zero accumulator.

* **`bench_loop*`.** The drivers' three networks; 112,105 states with every
  fault, 43,470 with constructors that connect. Three iterations are enough for one failure to shift
  the pairing and still leave a paired iteration to print a wrong label.

### Fairness

Each party's main thread and its `t1` are OS threads, so every party action
is weakly fair on its own, and so is the dealer program. Each simulator is
one thread, weakly fair. No fairness is assumed for the network beyond
delivery of what is in the stream, which the receive action takes.
In `BenchmarkLoop` every step except a throw is weakly fair: the
constructors retry the connection until the peer is there (every
`kRetryAfterSeconds`), and the rest are local steps. No exception is ever
forced to happen. A read on a closed stream is forced to fail, but
whether the catch or `std::terminate` takes it is left open. After a
termination the survivor's constructor retries for ever, so these runs say
`CHECK_DEADLOCK FALSE`.

## Not modelled

* FSS (`networking/fss-*`, `secure-com`): a separate primitive that the spec
  excludes. The key generation that fills its key structures is not under
  `src/`, so no initial state of an evaluation can be stated from the code.
* `bigint`, `Timer`, `print_vector`: no protocol state.
* The connection set-up of `Party` (defined outside `src/`). `BenchmarkLoop`
  takes from the spec and the declaration (`kRetryAfterSeconds`) only that
  each constructor waits for the other. The `tc` commands are reduced to
  which qdiscs are in force.
* A refinement of the gates to an abstract masked multiplication. Without
  fairness the abstract gate only promises that an opened value is
  x*y + lambda_z, which `OpenedCorrect` already checks, and with fairness
  it adds only `AllDone`.
* The offline drivers' `main` loops. They have the same structure as the
  online drivers' loops, and `BenchmarkLoop` stands for them.
* The input gates' file records (`FakeInputGate`, `InputGate`, not under
  `src/`). The spec does not say what records an input gate writes or to
  whom. So the owner mismatch between `dot_product_fake_offline.cpp:28`
  (owner 0) and the online drivers (owner 1) cannot be checked faithfully.
* `RealisticSPDZEstimator`: cost arithmetic only.
* The values of the offline simulator's other handlers (triples, squares,
  bits, masks, ZK rounds). They are random and nobody reads them back.
  `field_sub` is never called.
* The other gate kinds (add, subtract, addConstant, multiplyTrunc,
  elementMultiply, conv2DTrunc, avgPool2D, gtz, relu): `FakeCircuit` builds
  them, but their classes are not under `src/`.
* The gates' byte counters (`total_bytes_written_`, `comm_actual_`): they
  only feed the benchmark output.

## Plan

Done, in order of importance:
1. `Spdz2kShare`, `Party`, `FakeParty`.
2. `MultiplyGate` and its runs.
3. `OfflineSimulator`.
4. `Conv2DGate` with its two threads.
5. `MultiplyCircuit`: several gates on one file and one link.
6. `BenchmarkLoop`: the per-network loop of the online drivers, with
   exceptions on either side.
7. `OfflineMacKey`: the key and batched-check arithmetic of the offline
   simulator.

Next:
8. `MultiplyCircuit` with vector gates, and with a circuit whose builder order
   differs from the dealer's traversal order. Example: two products built
   in one order and consumed by an output in the other.
9. A composition of `BenchmarkLoop` with `MultiplyGate`, so that a session
   of mismatched iterations also runs the gate's exchange.
