# A verification of lttng-ust-benchmarks

TLA+ modules, TLC configurations and TLAPS proofs about the programs in `src/`:
what they promise, under which failures they keep the promise, and where they
do not.

## 1. The system

| Component | Source | State | Operations |
|---|---|---|---|
| Shared event buffers | `shared_events.c`, `.h` | per process one static context (`ctx`: NULL, or fd + mapping + read pointer); per pid one POSIX shared-memory object (count, 256 slots) that nobody unlinks | open, close, delete, clear, add, read, rewind |
| Runner | `lttng-ust-benchmarks.c` | `pids[]`, loop counters, `ret`, what it has printed | fork one child per CPU, wait for each in fork order, print each buffer as JSON |
| Benchmarks | `basic-benchmark.c`, `sha2-benchmark.c` | none but the event buffer of their process | record `main`; check arguments; record `start`, loop, record `end` |
| SHA-2 | `sha2.c`, `.h` (vendored PolarSSL) | total, 8-word state, 64-byte buffer, paddings of an HMAC | starts, process, update, finish; the same for HMAC; file; self-test |
| Kernel benchmark | `kernel-benchmark/lttng_benchmark.c` | global `event_count`; per read of `time` an array of thread records and a completion on the stack | `time_show`, `count_show`/`count_store`, `events_show`, init, cleanup |
| Kernel modules | `lttng_kernel_benchmark.py` | which of the two modules is loaded | load, unload, write `count`, read `time` |
| Orchestration | `benchmarks.py` | the lttng session, the session daemon, saved CPUs, results | start/stop tracing, run a benchmark three ways, average, one pass per CPU count, cleanup |
| CPU hotplug | `linux_cpu.py` | sysfs: the online and offline CPUs | three properties with setters |
| Tracepoint generator | `tpgen.py` | per tracepoint the fields and the variables they need | one `.tp` file per tracepoint and a header |
| Tracepoint definitions and build | `*.tp`, `Makefile`s | none | none at run time |

How they interact. `benchmarks.py` sets the number of CPUs online, starts the
runner (with and without a tracing session) and parses the JSON it prints. The
runner forks one child per CPU; the child clears the buffer named after its own
pid, records `exec` and execs a benchmark, which opens the same buffer and
records the rest. When every child has exited with status 0 the runner opens the
buffer of each, by pid, and prints it. The only channel from child to runner is
the shared-memory object and the exit status; nothing locks the object.

What is hard here:

* children run concurrently with each other, with the runner, and, after a
  runner has died, with the next runner;
* the objects outlive the processes, and pids come back: what is in an object
  may be from an earlier run, in which the same pid belonged to another child;
* every system call can fail, at every point, and several failures are not
  looked at by the code (`shared_events_clear()` in `run_child()`), leave half
  of their work behind (`shared_events_open()`), or kill the process
  (`shared_events_delete()`);
* an event is recorded in two steps (count, then timestamp);
* the kernel benchmark waits for its threads interruptibly and frees their
  records whether or not they have finished; CPUs come and go around it;
* `benchmarks.py` must leave the machine as it found it (CPUs online, session
  destroyed, modules unloaded) whatever raises;
* the counters of the three loops are compared with numbers of another width
  or sign, the kernel measures with a clock that can be set, and only the place
  where `shared_events_add()` reads its clock keeps its own time out of the results;
* a hash is fed in pieces of any length, its context is used again, and its 64
  rounds are 64 lines that rename eight variables.

Correctness, per component: the buffers never hold anything but a prefix of the
events of their owner (and nobody else writes them); the runner's report is
complete, fresh and in order, or the run fails; runs end and no child is left;
the kernel benchmark reports the time of all its threads and touches no freed
record; a baseline never runs while tracing is on; all CPUs are back online at
the end; the averages are averages, over the passes that measured something; a
digest is that of all bytes given; a loop makes the turns it was asked for; a
generated tracepoint is called with the arguments it declares.

## 2. Modules

| Module | What it is |
|---|---|
| `BenchmarkEvents` | Events, argument lists, and the record of a process that ran to its end. |
| `SharedEvents` | The state and functions of `shared_events.c`. |
| `Runner` | The runner, its children and the benchmarks they execute, over `SharedEvents`; fairness; the properties. |
| `RunnerContract` | Abstract: what `run_benchmark_tool()` of `benchmarks.py` takes an exit status 0 to mean. |
| `RunnerInvariants` | The inductive invariant of `Runner`. |
| `RunnerProofs` | Its theorems: types; the invariant; the properties and the refinement. |
| `MCRunner` | TLC instances of `Runner`. |
| `KernelBenchmark` | The kernel module: reads of `time`, their threads, signals, hotplug; the properties. |
| `KernelInvariants`, `KernelProofs` | Its inductive invariant; its theorems. |
| `MCKernel` | TLC instances of `KernelBenchmark`. |
| `LinuxCpu` | The CPUs online and the setters of `linux_cpu.py`. |
| `BenchmarkLoop`, `BenchmarkLoopProofs`, `MCBenchmarkLoop` | One benchmark process with its clock, its loop counter and the values it stores; its theorems; its instance. |
| `KernelTimer`, `KernelTimerProofs`, `MCKernelTimer` | The arithmetic of the kernel benchmark: times, their sum, counters; its theorems; its instance. |
| `Sha2` | The contexts of `sha2.c` and the functions on them, as operators; the digest is a constant. |
| `Sha2Contract` | Abstract: what the standards say a client gets for the bytes it has given. |
| `Sha2Stream`, `MCSha2` | Any client of `sha2.c`, and `sha2_file()`, over `Sha2`; the refinement; its instances. |
| `Sha2Macros`, `Sha2Process` | `sha2_process()`, line by line; what it does with words is a constant. |
| `Sha2Compression` | Abstract: the rounds of FIPS 180-2, which `Sha2Process` implements. |
| `Sha2Proofs` | The theorems of `Sha2Process` and `Sha2Stream`. |
| `Sha2Words`, `Sha2SelfTest` | Words of 32 bits; `sha2_self_test()`, which puts `Sha2`, `Sha2Process` and `Sha2Words` together. |
| `Statistics`, `StatisticsProofs`, `MCStatistics` | The sums and averages of `benchmarks.py`; its theorems; its instance. |
| `TracepointGenerator`, `TracepointGeneratorProofs`, `MCTracepointGenerator` | `tpgen.py`; its theorems; its instance. |
| `Orchestration` | `benchmarks.py` and `lttng_kernel_benchmark.py` over `LinuxCpu`: exceptions and Ctrl-C at every call; the properties. |
| `OrchestrationProofs` | Its inductive invariant and theorems. |
| `MCOrchestration` | TLC instances of `Orchestration`. |

The systems meet at their interfaces only. What `benchmarks.py` takes from
the runner is `RunnerContract`, and a run of it is one call in `Orchestration`,
which returns or raises. What `time_show()` takes from `benchmarks.py`, that the CPUs stay
and have no hole, is `Calm` in `KernelBenchmark` and the reason for
`CpusAsLabelled` in `Orchestration`. `BenchmarkLoop` and `KernelTimer` look closer
at one step of `Runner` (`Loop`, with the calls around it) and at the times of
`KernelBenchmark`, which leaves arithmetic out: a thread is measured there by
whose events it counts. `Statistics` starts from the reports that
`RunnerContract` promises, one per process; how long they took may be anything.

### Correspondence with the code: the runner

`shm[p]` is the object `/shared_events_<p>`, `ctx[q]` the static context of
process `q` (the pid whose object it maps; `None` for NULL; `Half` for the
context a failed `shm_open()` leaves), `fds[q]` how many shm descriptors `q`
holds, `rptr` the read pointer of the runner (the only process that reads),
`pend[c]` the slot whose timestamp child `c` has yet to store. `pc[c]` says where
a child is, `ev[c]` which event it is recording, `job[c]` its run and arguments.
`rpc`, `kids`, `i`, `ret` are the position and the variables of the runner's
`main()`; `cur` and `out` are what it has printed.

| Action | Code |
|---|---|
| `Invoke` | `subprocess.check_output()` in `run_benchmark_tool()` |
| `Fork`, `ForkFails` | first loop of `main()`, `run_child()` in the parent |
| `Clear` | `run_child()` in the child: close, open, clear |
| `Add`, `Stamp` | `shared_events_add()` up to `count++`, and its last assignment |
| `AddFails`, `ClockFails`, `StampFails`, `AddWild` | `shared_events_add()` that returns before a slot is written, for want of a buffer or of the time, or after it, without the timestamp; and through a context without a mapping |
| `Exec`, `ExecFails` | `execv()` |
| `Args`, `Loop` | `main()` of a benchmark between its events |
| `Wait`, `WaitFails` | second loop of `main()`, `wait_child()` |
| `PrintOpen`, `PrintRead`, `PrintEnd`, `PrintWild` | third loop, `print_events()` |
| `Kill`, `RunnerKilled`, `Reap` | signals; init |

`Open` is a set of outcomes, one for each way through
`shared_events_open()`. Where the code has undefined behaviour (a mapping
address nobody assigned, a pointer to nowhere) the model takes every outcome the
build can show: the process dies, or goes on with memory that is no buffer.

Abstractions. A timestamp is the number of the run whose process stored it,
which is what tells a fresh one from one left in the slot. Event names are
compared, never spelt; the JSON text is the sequence of the events in it.
The step before the exec that closes an
inherited context and clears the buffer is one action: nobody else touches that
object meanwhile, and dying in its middle leaves what dying before or after it
does. The loop of a benchmark is one step. A pid is free when its child has been
reaped, and only `Fork` takes pids: other users of the library on the machine
are not modelled.

### Correspondence with the code: the kernel module

A read `k` is one call of `time_show()`; `rpc[k]`, `next[k]` (how far
`for_each_online_cpu()` has come), `online_cpus[k]`, `threads[k]`,
`main_start[k]` and `time[k]` are its position and variables, `rec[b]` is the array
of records in block `b`, `thr[<<k, c>>]` the thread that read `k` has started for
CPU `c`. `kmalloc()` hands out any block that no read has, with what was last in it.

| Action | Code |
|---|---|
| `Load`, `Unload`, `StoreCount` | init, cleanup, `count_store()` |
| `Begin`, `CountCpu`, `Alloc`, `AllocFails` | `time_show()` up to `kmalloc()` |
| `InitRecord`, `StartThread`, `Release`, `WaitEnd`, `AddTime` | its loops, one CPU per step, and `complete_all()` |
| `Return` | `kfree()` and the return |
| `FetchPrev`, `PassGate`, `Generate`, `StoreTime`, `Complete`, `ThreadExit` | `benchmark_thread()` |
| `ReaderLost`, `ThreadLost` | a reader or thread that does not survive an invalid access |
| `Signal`, `Hotplug` | the environment |

Abstractions. The time of a thread is the number of events it has generated
between its two readings of the clock, so that the sum that is returned tells
whose events are in it. A completion is the counter it is, or uninitialized. An
access beyond the array, to a freed record or to the stack of a reader that has
returned either does what it would do for a good one or stops who makes it.
The reads start in the order of their numbers, which only names them.

### Correspondence with the code: the script

`pc` is where `benchmarks.py` is, `phase` tells `do_ust_benchmark()` from the
`try` block with `do_kernel_benchmark()`, `cpu_count` and `pass` are the loop
variables, `todo` is what a setter of `linux_cpu` has still to write. `session`,
`daemon` and `modules` are the machine's. `Raise` is where an exception goes from
`pc`: the bare `except` around the setter, the bare `except` around the kernel
benchmark, the `finally` block, or out of that block.

| Action | Code |
|---|---|
| `Save`, `Count`, `SetOne`, `Counted` | `saved_online_cpus`; the setter of `online_count`, called in `main()` |
| `Measure`, `Load`, `Events` | a run of the runner, a read of `time`; loading the modules; reading `events` |
| `StartDaemon`, `CreateSession`, `StartSession` | `lttng_start()` |
| `StopSession` | `lttng_stop()` |
| `Results` | the end of `main()` |
| `EndSession`, `Unload`, `KillDaemon`, `Restore` | `cleanup()` and the `finally` block |
| `Interrupt`, `DaemonDies` | the environment |

Abstractions. The six kinds of user-space passes differ in their arguments
only. Enabling the channel and the events changes nothing that is modelled but
may fail. A call to `lttng` either succeeds or returns an error, done or not.
The daemon of the script may not have written its pidfile yet (`cleanup()` then takes it for
no daemon) or have it still empty (it raises).

### Correspondence with the code: loops and clocks

`BenchmarkLoop` begins when `run_child()` records `exec` and follows the process
into the benchmark. `event` and `pc` say which call of `shared_events_add()` it is
in or comes from; `tmpts` and `ts` are the variable and the timestamps;
`iterations`, `i` and `effect` are those of `main()`. `Call`, `Slot` and `Stamp` are
`shared_events_add()` up to the first `clock_gettime()`, to the count, and to the end;
each may fail. The clock may tick before every step, and `spent` adds up where
it did. `iterations` is any number `strtol()` may return. An `int` that overflows has
undefined behaviour: `wide` chooses, once per process, between wrapping and a
counter that the compiler has kept in a wider register. The sums `x + y` wrap in both
cases, since they are stored in `int`s. `update_buffer()` stores `i ^ v` at each `i`,
so `v` modulo 2^8 stands for what the buffer holds.

`KernelTimer` takes the threads from the wait for their start (`StartMeasuring`: the
first `do_gettimeofday()`; `Generate`: a turn; `StopMeasuring`: the second reading and
the difference) to the last loop of `time_show()` (`AddTime`). `wall` is the clock they
read, `uptime` the time that passes; `SetClock` sets the former to anything. Who waits
for whom is `KernelBenchmark`'s; here all threads of a read complete.

### Correspondence with the code: SHA-2

A context is a record with the fields of `sha2_context`, but for `state`, which is
replaced by the bytes that `sha2_process()` has been given since `sha2_starts()`: they
determine it, and `Digest(is224, bytes)` is what comes out. `Update` is
`sha2_update()` in one step: a client cannot see between its calls of
`sha2_process()`. `total` wraps, and the length is cut to a word, as in the code.

`Sha2Stream` makes any calls in the order the header allows (`Start`, `GiveChunk`,
`End`, and the same for HMAC), with one context that is never cleaned. `OpenFile`,
`ReadFile` and `CloseFile` are `sha2_file()`, in which `fread()` may give less than was
asked for, with an error that may come with the last bytes or without any.

`Sha2Process` is one line of `sha2_process()` per step: `reg` holds the C variables A
to H, `Lines` is the list of the 64 lines with the order in which each names them, and
`At(role, n)` is the one that line n passes as which parameter of the macro `P`. `Sha2Compression` moves the eight values instead, as the standard does, and
`Working` maps one to the other. `Sha2Words` has the macros with pairs of 16-bit
halves, because TLC's integers are too small for a `uint32_t`.

### Correspondence with the code: statistics and generator

`Statistics` takes one number of CPUs: `RunTools` calls the three tools, whose
outputs are sequences of reports of any times and not necessarily of the same length;
`Accumulate` is a turn of the loop of `do_ust_benchmark()`, `Divide` what comes after it,
`RunKernel` is `do_kernel_benchmark()` in its bare `except`, `Average` the end of `main()`'s
loop. The keys of a flattened dictionary are triples. Quotients are in units of
1/`Scale`, which every number of reports divides, so that they are exact; floating point
is not modelled. The keys `args`, texts, are there as what no average may count. `nr_events` only scales a difference and is left out, as are the
percentages.

`TracepointGenerator` has the globals of `tpgen.py`; `Begin`, `Field` and `Write` are the
head of its loop, one call of a random function, and the end. Names of
fields are left out, a value is reduced to whom it was drawn for and the length of the string.

## 3. Properties and runs

### The runner

`Faults` is the set of failures a run of TLC allows; `MaxRuns` bounds the
invocations and is the only bound on behaviours. `MaxEvents` stands for
`MAX_EVENT_COUNT`.

| Run | Instance | Shows |
|---|---|---|
| `faults` | 2 runs, 2 children, 2 pids, 3 slots, all failures but that of the second `clock_gettime()`, arguments missing or wrong | `TypeOK`; `ReportAfterReap`: while the runner prints, no writer is left; `ReportFresh`: exit status 0 means complete, fresh, fully stamped records in fork order; `OwnerWrites`: the events of a pid change only while a child with that pid is alive; `ImplementsContract`: the runner implements `RunnerContract`; `Inv`, the inductive invariant |
| `liveness` | 2 runs, 2 children, 2 pids, the whole script in 4 slots, killed, orphaned, never-started and never-waited-for children, the second `clock_gettime()` failing | `RunTerminates`, `ChildrenReaped`; `DescriptorsMatch`: a process holds a descriptor exactly while it has a mapping, buffer after buffer |
| `asserts` | 1 run, 2 children, failing `shm_open()` | expected violation of `AssertEvents`, see below |

Bounds. Two runs over as many pids as children make every pid come back with a
buffer, and possibly an orphan, of the first run; a third run finds nothing a
second does not (the invariant speaks of the current run and of everything
older). Two children are enough for every interleaving of a pair, and for a
context that survives a print. In `faults` a stale buffer that was not cleared
fills in the middle of the new script; in `liveness` the four events of a script
with a loop fill the buffer exactly. No open fails in `liveness`, which would be too
many states; that `DescriptorsMatch` holds then too is proved (`DescriptorsCorrect`). Deadlock is checked in all runs: when all runs are over, `Finished`
stutters.

Fairness (`FairSpec`). Each child's steps and the runner's own steps are weakly
fair, because the kernel schedules every runnable process and `waitpid()`
returns when the child has terminated; `Fork` is weakly fair as one action (which
free pid is the kernel's choice); `Reap` is, because init waits for its children.
No failure, signal or invocation is assumed to happen.

Exception to freshness. `run_child()` does not look at the results of
`shared_events_clear()` and of recording `exec`. When the clear fails and the following
open succeeds, the child appends to what an earlier process with its pid left; when
the clock fails for `exec`, the record begins with `main`; and the runner may print
either with exit status 0. `Tainted` names these runs, `ReportFresh` and the contract
exempt them, and every other failure is covered.

Finding (`asserts`). After a failed `shm_open()` the context stays allocated,
without a mapping. The next `print_events()` of the same runner takes it for an
open one. `shared_events_rewind()`, without its assertion, only sets the read pointer;
the `shared_events_read()` after it reads through the unassigned one, which
`assert(ctx->events)` (`shared_events.c:192`) says cannot be; the build defines
`NDEBUG`. The runner exits with a failure in all these cases, if it exits.

### The kernel module

| Run | Instance | Shows |
|---|---|---|
| `kernel_reads` | 2 reads, 2 CPUs, 2 blocks, all failures, signals, hotplug, stores to `count` | `TypeOK`; `RecordsAlive`: no record or `main_start` is gone while a thread uses it; `StartTogether`: nobody measures before all are started; `TimeComplete`: the time returned is that of all threads for all their events; `UnloadAfterThreads`: no thread with work to do when the module goes; `ReadReturns`: a read ends; `SignalReturns`: a read with a pending signal ends, whatever has failed |

Bounds. Two reads are enough for one to get the memory that the other has
freed, and for their threads to be there at the same time; two CPUs for one
thread that is late, and for one that goes while the other stays. `count` is 0 or 1:
a thread tests it before, between and after its events. To keep the run small,
signals and what `seen` remembers (below) are for one read on its own (`MCNext`): a behaviour
with one of them has no second read. The proofs have no bounds: they cover any
number of reads and CPUs with every failure, disturbed or not.

Exceptions. `seen` remembers what has disturbed a read: a wait that a signal cut
short, a CPU that came or went during a read, CPUs numbered with a hole, a store
that changed `count` during a read. `RecordsAlive`, `StartTogether` and
`UnloadAfterThreads` hold unless one of the first three has happened, and
`TimeComplete` unless any has. The exceptions are needed: after a signal `time_show()` does
free records in use, with a hole it does write beyond its array. That these are
wrong no property shows: the hazards that consist of them name none. Between reads
the CPUs and `count` may change in all runs, as `benchmarks.py` changes them.
A thread that has completed and not yet returned runs code that the removal of
the module frees; nothing in the code waits for it, and no property speaks of it.

Fairness. Each read and each thread is weakly fair: the kernel schedules them.
Nothing is assumed of signals, hotplug, stores, loading, unloading or of the
start of a read. `ReadReturns` exempts a read that waits for a thread that
`kthread_run()` did not start, and CPUs that come or go during the read or are
numbered with a hole: then a read may wait for a thread that does not exist, and only a
signal ends it. `SignalReturns` exempts nothing.

### The script

| Run | Instance | Shows |
|---|---|---|
| `labels` | 4 CPUs with or without holes, 2 passes of each kind, all failures, 2 times Ctrl-C | `TypeOK`; `CpusAsLabelled`: results for n CPUs are measured on the first n; `TracedAsLabelled`: traced runs are traced, and which baselines are too; `Restored`: the machine is left as it was found; `Ends`: the script ends |

Bounds. One pass more or less of a kind changes nothing that the next pass can
see; two make a first, a last and a step between them. The second Ctrl-C hits
the cleanup that the first has started, or the next kernel benchmark.

Exceptions. `TracedAsLabelled` says which baselines are measured while a session
is on: those of the first user-space pass after a kernel benchmark that was
given up with its session started. `Restored` exempts a `finally` block that an
exception leaves, and what is refused in it without one: a write to `online` that is lost, a
pidfile that is not there yet. It does not exempt a failure that the script brings about
itself: `rmmod` of a module that a session uses leaves the block too, and `Restored` is what
tells that `cleanup()` destroys the session first.

Fairness: every call returns or raises. The runner ends (`RunTerminates`); that a
read of `time` does is `ReadReturns`, with its conditions.

### Loops and clocks

| Run | Instance | Shows |
|---|---|---|
| `loop` | ints of 3 bits, chars of 1, numbers of iterations around both limits, 3 ticks | `TypeOK`; `Intervals`: the loop's time is that of the loop alone, the start's only that of `exec` and the exec; `TurnsCounted`: a run that ends has made its turns; `EveryTurnCounts`: no turn leaves the side effect as it was; `Ends` |
| `clock` | 2 threads, seconds of 2 microseconds, ints of 2 bits, 64-bit numbers of 3, times up to 3 | `TypeOK`; `TimeExact`: a thread's time is right unless the clock was set meanwhile; `TotalExact`: the sum is that of the apparent times, so a clock set back and forth cancels out in it; `EventsCounted`: an `int` counts up to any `unsigned` |

Bounds. Widths are constants. In these instances a basic loop overflows its counter
and its sums, a sha2 loop wraps its counter and the byte it writes, a thread
counts past the largest int, and microseconds are borrowed from a second. The proofs
have no bounds. Three ticks can fall in any three places.

Exceptions. `Ends` exempts numbers of iterations beyond the counter: with more than
2^31-1, or 2^32-1 for `sha2-benchmark`, the loop may not end. `benchmarks.py` asks
for at most 10^7. `RunTerminates` of `Runner` takes such loops to end. `FairSpec` is weak
fairness of the process: the kernel schedules it. `TotalExact` exempts nothing: it
is the sum modulo 2^64, and a sum that is negative, because the clock was set back during a
read and nothing makes up for it, comes out as the huge number the code returns.

### SHA-2

| Run | Instance | Shows |
|---|---|---|
| `stream` | blocks of 4 with a length of 2, words of 16, calls of 0, 1, 3 and 15 bytes, reads of 6, up to 34 bytes, keys of a block and one more | `ImplementsContract`: a digest is that of all bytes given since the start, whatever the context was used for before; `FileComplete`: 0 is returned for whole files only |
| `selftest` | the vectors of `sha2_self_test()`, words of 32 bits | `SelfTestPasses`: each digest comes out as listed; `ImplementsFips`: each line is a round of the standard |

Bounds. With calls of these lengths every position in a block is reached, a call
fills a block exactly, does not fill one, and brings several; messages are
longer than a word counts, so the carry and both words of the length matter; both
paddings occur. Bytes are tagged with their place: the digests of two
different sequences differ. The two vectors of a million letters are left out.

Limit. `sha2_update()` takes a `size_t` and adds `(uint32_t) ilen` to `total`, with a
carry of at most one. Given 2^32 bytes or more at once, `total` is not the
"number of bytes processed" that `sha2.h:52` says, and the length in the padding is
wrong. `Sha2Stream` assumes shorter calls (`ChunkSizesAssumption`): the benchmark
gives 1024 bytes at a time, `sha2_file()` too. No property is checked beyond. Keys
are shorter than that as well (`KeysAssumption`).

Assumptions. What `Sha2` assumes of its constants is what the code has: a block is longer than
the two words of the length, a word counts a multiple of a block and of 8 (`WordModAssumption`),
`PUT_UINT32_BE()` writes the same number of bytes for every word (`PutAssumption`), a digest is no longer
than a block (`DigestSizeAssumption`), and a byte is not changed by an exclusive or with 0
(`XorAssumption`). Nothing is assumed of `Digest`.

### Statistics and generator

| Run | Instance | Shows |
|---|---|---|
| `averages` | two passes with loops, one without, one of the kernel; 1 or 2 processes | `AveragesOfReports`: an average is that of what was reported, over the passes that measured it; `CostIsDifference`: the cost of an event is the difference of averages over the same passes; `OverheadOfOne`: with one CPU the start overhead is that of the times to start |
| `overhead` | the same | expected violation of `OverheadIsDifference`, see below |
| `calls` | 2 tracepoints of up to 2 fields, 2 lengths of strings | `CallsMatch`: fields, declaration and call agree; `LengthsMatch`: no array or sequence is longer than its string |

Bounds. Two passes with a value, one without and one that may fail make every
combination of missing and present keys; two processes are the fewest for
which a sum of running sums differs from a sum. Two tracepoints are enough for one to see
what another has left.

Assumptions. A report has two times, in whole units (`OutputsAssumption`, `KernelTimesAssumption`);
some CPU is online (`CpuCountAssumption`); `None` and a text are no numbers and not
the same (`NoneAssumption`, `TextAssumption`); `ScaleAssumption` is what makes quotients exact. No
proof needs more of `Scale` than that it is a number.

Finding (`overhead`). The results have `start_overhead_s` beside the `start_time` of the
traced program and of the baseline, and `start_overhead_pct` gives it as a percentage of the
latter: by name and unit it is the difference of these means, as `OverheadIsDifference` says and as
the code has it for the run times (`benchmarks.py:135-136`). But the loop adds
`ust_start - base_start` (lines 114 and 117), which are running sums by then: of n processes
the one printed first counts n times, the last once, and the sum is divided by n. With n CPUs
whose programs all take as long the overhead reported is (n + 1) / 2 times what it is. With
one CPU (`OverheadOfOne`) it is right.

Fairness: none is needed, these runs check safety only.

## 4. Proofs

The theorems hold for every value of the constants, under the assumptions the modules
name. Leaves are small: `tlapm --stretch 0.1`, with a tenth of the provers' usual time
for each, still checks all of them, so that a slow machine does.

### The runner

For all values of the constants that satisfy the assumptions of `SharedEvents`
and `Runner` (at least one CPU, at least one slot, `None`, `Half` and the runner
are no pids) every safety property of `Runner` is proved in `RunnerProofs`:

* `TypeCorrect`, `Spec => [](TypeOK /\ FdsInv)`. `TypeOK` alone is
  not inductive: `close()` decrements the number of descriptors, and `FdsInv` (a
  process with a mapping has its descriptor) keeps that a natural number.
* `InvCorrect`, `Spec => []Inv`. `Inv` says what is in the
  buffer of a child at each point of its program, that the buffers of children
  that have exited with status 0 are complete until their pid is taken again, and
  what `main()` has established about its children in each of its loops. It is
  needed because `ReportFresh` speaks of the end of a run only: that what is
  printed is complete rests on what was true when the last child exited. One
  lemma per action; a process's step leaves the buffers of all others alone.
* `ReportFreshCorrect`, `ReportAfterReapCorrect` and
  `OwnerWritesCorrect` follow from `Inv`; `ContractCorrect` is the refinement:
  `StepShape` says which variables of the contract a step changes, `EndDelivers`
  that a run that ends with status 0 delivers what the contract wants,
  `StepImplements` that every step is one of the contract or a stutter;
  `DescriptorsCorrect` has an invariant of its own (`Matched`).

### The kernel module

For any number of CPUs (at least one), reads and events, any set of blocks and
of failures (`None` is no block and no number), every safety property of
`KernelBenchmark` is proved in `KernelProofs`. `KernelInv` has three layers: types,
ownership of the arrays and what holds whatever happens (`Base`); for `Calm` behaviours,
where each read stands with each CPU and that a thread has work to do only
between its start and the wait for it (`CpusOK`, `ThreadOK`); and, when nothing
has disturbed the reads, what threads have measured and what the sum is so far
(`MeasureOK`, `SumOK`). The later layers use the earlier. `ReadFrame` and
`ThreadFrame` say that a step of one read or thread leaves the others alone, which is
where the ownership of the arrays is needed: the block of a read is that of no other.

* `KernelInvCorrect`: `Spec => []KernelInv`.
* `KernelTypeCorrect`, `RecordsAliveCorrect`, `StartTogetherCorrect`,
  `TimeCompleteCorrect`, `UnloadCorrect`: the properties, from `KernelInv`.

### The script

For any machine, any number of passes and any set of failures, every
safety property of `Orchestration` is proved in `OrchestrationProofs`. The invariant
`IInv` adds to the types: where the script may be in each phase (`FlowInv`); which CPUs
are online while a setter is at work, namely those already written as they should be and the
others as they were (`CpusInv`); where a session, and of which domain, may be on (`SessionInv`);
and what the `finally` block has undone (`UndoneInv`). `Lowest(S, n)`, the first n CPUs, is a
`CHOOSE`: that such a set exists and is unique is proved from the least element of a
set of naturals (`Least`, `SegmentsExist`, `SegmentsUnique`), and this is what lets the count at the end
of the setter stand for the set. `OrchestrationTypeCorrect`, `CpusAsLabelledCorrect`,
`TracedAsLabelledCorrect` and `RestoredCorrect` follow.

### Loops and clocks

For any widths (`IntModAssumption`: even, and a multiple of that of a char) and any
numbers of iterations, `BenchmarkLoopProofs` proves every safety property of
`BenchmarkLoop`. `StartMeasured` and `LoopMeasured` relate `spent` to the last timestamp at each
point. `Counting` says that the counter is the number of turns, or is stuck below
a number it cannot reach (`Stuck`), which is why a run that ends has made its turns.
`EveryTurnCountsCorrect` rests on `Changing`: two neighbouring sums are never both zero
modulo 2^32, and what the last turn wrote is the counter before this one, modulo 2^8.

`KernelTimerProofs`, for any width and any clocks below 2^64: `TimerTypeCorrect`;
`EventsCountedCorrect`, where the counter, read as an unsigned int, is the number of
events; `TimeExactCorrect`, from `DifferenceIsExact`, that the unsigned arithmetic on seconds
and microseconds gives the difference of the two readings modulo 2^64; and `TotalExactCorrect`, for any number of CPUs.
The function in `SumOver` is recursive: that it is the sum that the loop adds up (`SumOverIs`)
is proved with the least element of a set of naturals (`LeastElement`, from the library's theorem on
well-founded relations, and `Inductive`), a form of induction in which no operator is a parameter.

### SHA-2

`Sha2Proofs`, of `Sha2Process`: `Sha2Implements`, `ProcessSpec => ImplementsFips`, for any operations on words,
any constants and any data. `RoundMaps` and `AddBackMaps` are the two steps; what they need is how
the lines turn the names, which is read off the list (`LinesRotate`): different parameters of a line are different variables (`AtDiffers`), the next
line names them one place on (`AtNext`), after 64 lines they are back (`AtRest`).

And of `Sha2Stream`: `StreamImplements`, `Spec => ImplementsContract`, and `FileCompleteCorrect`, for any
sizes, digest, keys and lengths of calls. The invariant is `Rep(ctx, msg)`: what has been
processed is the message up to its last whole block, the rest is at the beginning of the buffer, and the
two words of `total` are its length, modulo what they can count. The argument goes from the bottom up:

* `Agree(s, a, t, b, n)` says that n elements of two sequences, behind places a and b, are the same;
  the lemmas on it take the place of computing with `SubSeq` and concatenations;
* `UpdateRep`: `sha2_update()` keeps `Rep`, in the three cases of a call that stays in the block, ends
  it, or ends it and brings more blocks. The carry of `AddLength` is where a length below 2^32 is needed;
* `FinishIs`: the padding makes the message the one of the contract, `Padded`: its length is a multiple of a
  block, the length in bits is that of the standard though it is computed from two words, and only whole
  blocks are left. `HashIs` and the lemmas on HMAC are the digest of that, for one message and two;
* one lemma per action says that it keeps the invariant and is the step of the contract, whatever
  the context was used for before (`Starts` establishes `Rep` from any context).

### The statistics

For any passes in any order, any outputs of the tools and any times, `StatisticsProofs` proves every property of
`Statistics` that holds. `Inv` says of each pass in `data` that it is made of what is logged for it
(`MadeFrom`), and of the loop of `do_ust_benchmark()` that its sums are those of the reports so far
(`Counted`), and of the overhead that with one report it is the difference. The argument:

* `SumTo` is a recursive function. `SumToIs` says that the function exists, by the induction over a set of
  naturals that `KernelTimerProofs` uses (`Inductive`); `SumToNext`, `SumToPlus` and `SumToSame` are what the rest
  needs of it;
* `Totals`: what `SumOf` adds up pass by pass is the sum over the passes that have a number, and their
  count the size of that set (`OnePassMore`); `AverageOfValues` is `AverageIs`, from this;
* `UstValues` and `KernelValues` say what `flatten_dict()` leaves under each key, `UstPass` and `KernelPass` that it is
  the mean of what was reported in that pass, or nothing;
* `Difference`: where in every pass one key is the difference of two others, its average is the difference of
  theirs. `CostIsDifferenceCorrect` is this for the run times (`RunValues`), `OverheadOfOneCorrect` for the times to
  start, where the sums of one report are divided by one (`QuotientOfOne`).

### The generator

For any number of tracepoints, any number of fields and any lengths of strings,
`TracepointGeneratorProofs` proves `CallsMatchCorrect` and `LengthsMatchCorrect`. `Sorted` is a `CHOOSE` among the
sequences of a set: that a sorted one exists is proved by adding one name after the other (`SortableStep`), and that
it holds every name of the set from the number of its elements (`SortedIs`). The invariant says
that `vars` are exactly what the fields so far use (`CurrentInv`), and of each tracepoint written
that there is one length which its array, its size and its string have (`TracepointOK`).

### Only model-checked

The liveness properties (`RunTerminates`, `ChildrenReaped`, `ReadReturns`,
`SignalReturns`, `Ends` of two modules): liveness under fairness is beyond the prover.
`SelfTestPasses` is about the vectors only, and computes
them with the bitwise operators, which are out of the prover's reach.
`AssertEvents` and `OverheadIsDifference` do not hold.

## 5. Plan and limits

All that was planned is done: the runner with its contract, the kernel module,
the script, the loops and clocks, the hashes, the statistics and the generator. Every safety
property that a run checks is proved, but for the test vectors. What could follow:
the million letters of the self-tests, if hashing them became feasible in TLC.

Not modelled, and why:

* the two self-tests with a million letters: the digest of each is 15,626 blocks, and
  what they add to the shorter ones, many updates of one context, is in `stream`;
* writing the results (`write_plot_properties()`, `write_js()`), the percentages of the
  start overhead, `dict(zip(...))` of the platform, messages and usage texts: formatting;
* the setter of `offline_cpus` in `linux_cpu.py`, which nothing uses, and the parsing of
  CPU lists; `reload()` of `lttng_kernel_benchmark.py`, which nothing uses;
* the pid in the file of a session daemon that has crashed, and other users of the
  library on the machine: what they meet depends on processes outside of this repository;
* `.tp` files, Makefiles and the kernel's event definition: declarations;
* LTTng itself: a call succeeds or returns an error.
