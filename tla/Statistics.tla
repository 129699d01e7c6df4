----------------------------- MODULE Statistics -----------------------------
(***************************************************************************)
(* What benchmarks.py makes of the times it is given, for one number of    *)
(* CPUs: the sums of do_ust_benchmark() over the reports of a run, one per *)
(* process, and the averages of main() over the passes.                    *)
(*                                                                         *)
(* A report is reduced to what is used of it: boot is the time from "exec" *)
(* to "main", run that from "start" to "end".  A quotient is in units of   *)
(* 1/Scale.  The percentages, and the events per loop, by which a run_time *)
(* is only scaled, are left out.                                           *)
(***************************************************************************)
EXTENDS Integers, Sequences, FiniteSets, Functions

CONSTANTS
  Passes,       \* the passes in turn: "full", "fast" or "kernel"
  Outputs,      \* what the benchmark tool may print: sequences of reports
  KernelTimes,  \* what the kernel module may report
  CpuCount,     \* the CPUs online
  Scale,
  None,         \* None
  Text          \* any string

Kinds == {"full", "fast", "kernel"}
Lengths == {Len(o) : o \in Outputs} \cup {CpuCount}

ASSUME PassesAssumption == Passes \in Seq(Kinds)
ASSUME OutputsAssumption == \A o \in Outputs : o \in Seq([boot : Nat, run : Nat])
ASSUME KernelTimesAssumption == KernelTimes \subseteq Nat
ASSUME CpuCountAssumption == CpuCount \in Nat \ {0}
ASSUME ScaleAssumption == Scale \in Nat /\ \A n \in Lengths : n = 0 \/ Scale % n = 0
ASSUME NoneAssumption == None \notin Int
ASSUME TextAssumption == Text \notin Int /\ Text # None

VARIABLES
  pc,       \* where the script is
  pass,     \* the pass of do_benchmarks()
  outputs,  \* base_all, ust_all and ust_en_all
  i,        \* the loop variable of do_ust_benchmark()
  sums,     \* its sums
  data,     \* what is measured, pass by pass, flattened
  average,  \* avg_data
  log       \* history: the outputs, or the kernel times, of each pass in data

vars == <<pc, pass, outputs, i, sums, data, average, log>>

Modes == {"baseline", "tracing_disabled", "tracing_enabled"}

NoSums == [boot |-> [m \in Modes |-> 0], run |-> [m \in Modes |-> 0],
           overhead |-> [m \in Modes |-> 0]]

Empty == [key \in {} |-> 0]

Init ==
  /\ pc = "pass" /\ pass = 1
  /\ outputs = Empty /\ i = 1 /\ sums = NoSums
  /\ data = <<>> /\ average = Empty /\ log = <<>>

Kind == Passes[pass]

(* do_benchmarks() is left by the exception, and so is main().             *)
Raise == pc' = "raised"

-----------------------------------------------------------------------------
(***************************************************************************)
(* do_ust_benchmark().                                                     *)
(***************************************************************************)
RunTools ==
  /\ pc = "pass" /\ pass <= Len(Passes) /\ Kind # "kernel"
  /\ \/ outputs' \in [Modes -> Outputs] /\ pc' = "loop"
     \/ Raise /\ UNCHANGED outputs
  /\ i' = 1 /\ sums' = NoSums
  /\ UNCHANGED <<pass, data, average, log>>

(* Mutated: the baseline is not taken off.                                 *)
BareOverhead(m, boot) == sums.overhead[m] + boot[m]

(* What the loop adds is the difference of sums that are running already.  *)
Overhead(m, boot) == sums.overhead[m] + boot[m] - boot["baseline"]

Accumulate ==
  /\ pc = "loop" /\ i <= Len(outputs["baseline"])
  /\ IF \E m \in Modes : i > Len(outputs[m])
     THEN Raise /\ UNCHANGED <<i, sums>>
     ELSE LET boot == [m \in Modes |-> sums.boot[m] + outputs[m][i].boot]
          IN  /\ sums' = [boot |-> boot,
                          run |-> [m \in Modes |-> sums.run[m]
                                     + IF Kind = "full" THEN outputs[m][i].run ELSE 0],
                          overhead |-> [m \in Modes |-> Overhead(m, boot)]]
              /\ i' = i + 1
              /\ UNCHANGED pc
  /\ UNCHANGED <<pass, outputs, data, average, log>>

Quotient(total, n) == (total * Scale) \div n

(* Without nr_loops there is no run time.                                  *)
RunTime(kind, time) == IF kind = "full" THEN time ELSE None

(* The keys that flatten_dict() makes of the dictionary returned.          *)
UstKeys ==
  ({"ust"} \X Modes \X {"args", "start_time", "run_time"})
    \cup ({"ust"} \X (Modes \ {"baseline"}) \X {"ns_per_event", "start_overhead_s"})

(* From the sums over n reports.                                           *)
UstResult(kind, sum, n) ==
  [key \in UstKeys |->
     LET m == key[2]
         run == Quotient(sum.run[m], n)
     IN  CASE key[3] = "args" -> Text
           [] key[3] = "start_time" -> Quotient(sum.boot[m], n)
           [] key[3] = "run_time" -> RunTime(kind, run)
           [] key[3] = "ns_per_event" ->
                RunTime(kind, run - Quotient(sum.run["baseline"], n))
           [] key[3] = "start_overhead_s" -> Quotient(sum.overhead[m], n)]

KernelKeys ==
  ({"kernel"} \X {"baseline"} \X {"run_time"})
    \cup ({"kernel"} \X {"tracing_enabled"} \X {"run_time", "ns_per_event"})

KernelResult(base_run, tracing_en_run) ==
  LET base == Quotient(base_run, CpuCount)
      tracing_en == Quotient(tracing_en_run, CpuCount)
  IN  [key \in KernelKeys |->
         CASE key[2] = "baseline" -> base
           [] key[3] = "ns_per_event" -> tracing_en - base
           [] OTHER -> tracing_en]

(* Mutated: it drops whatever is false.                                    *)
FlattenTrue(result) == RestrictValues(result, LAMBDA value : value \notin {None, 0})

(* flatten_dict()                                                          *)
Flatten(result) == RestrictValues(result, LAMBDA value : value # None)

Measured(result, what) ==
  /\ data' = Append(data, Flatten(result))
  /\ log' = Append(log, [kind |-> Kind, of |-> what])
  /\ pass' = pass + 1
  /\ pc' = "pass"

(* The divisions, two of them by the time the baseline takes to start.     *)
Divide ==
  /\ pc = "loop" /\ i > Len(outputs["baseline"])
  /\ \/ sums.boot["baseline"] = 0 /\ Raise /\ UNCHANGED <<data, log, pass>>
     \/ sums.boot["baseline"] # 0 /\ Measured(UstResult(Kind, sums, Len(outputs["baseline"])), outputs)
  /\ UNCHANGED <<outputs, i, sums, average>>

-----------------------------------------------------------------------------
(***************************************************************************)
(* do_kernel_benchmark(), of which an exception ends the passes.           *)
(***************************************************************************)
RunKernel ==
  /\ pc = "pass" /\ pass <= Len(Passes) /\ Kind = "kernel"
  /\ \/ \E base, tracing_en \in KernelTimes :
          Measured(KernelResult(base, tracing_en), <<base, tracing_en>>)
     \/ pc' = "average" /\ UNCHANGED <<data, log, pass>>
  /\ UNCHANGED <<outputs, i, sums, average>>

-----------------------------------------------------------------------------
(***************************************************************************)
(* The averages of main().                                                 *)
(***************************************************************************)
IsNumber(value) == value \notin {None, Text}

Get(flat, key) == IF key \in DOMAIN flat THEN flat[key] ELSE None

(* Mutated: every pass counts.                                             *)
AddEvery(sum, value) ==
  [total |-> sum.total + (IF IsNumber(value) THEN value ELSE 0), count |-> sum.count + 1]

Add(sum, value) ==
  IF IsNumber(value) THEN [total |-> sum.total + value, count |-> sum.count + 1] ELSE sum

SumOf(key) ==
  LET sum[p \in 0 .. Len(data)] ==
        IF p = 0 THEN [total |-> 0, count |-> 0] ELSE Add(sum[p - 1], Get(data[p], key))
  IN  sum[Len(data)]

(* A quotient of total and count for each key that has one.                *)
Averages ==
  LET sum == [key \in UNION {DOMAIN data[p] : p \in DOMAIN data} |-> SumOf(key)]
  IN  RestrictValues(sum, LAMBDA s : s.count > 0)

Average ==
  /\ pc = "average" \/ (pc = "pass" /\ pass > Len(Passes))
  /\ average' = Averages
  /\ pc' = "done"
  /\ UNCHANGED <<pass, outputs, i, sums, data, log>>

Finished == pc \in {"done", "raised"} /\ UNCHANGED vars

Next == RunTools \/ Accumulate \/ Divide \/ RunKernel \/ Average \/ Finished

Spec == Init /\ [][Next]_vars

-----------------------------------------------------------------------------
(***************************************************************************)
(* Properties.                                                             *)
(***************************************************************************)
Logged(kinds) == {p \in DOMAIN log : log[p].kind \in kinds}

(* The sum of the first n values of a function.                            *)
SumTo(f, n) ==
  LET sum[k \in 0 .. n] == IF k = 0 THEN 0 ELSE sum[k - 1] + f[k]
  IN  sum[n]

(* The mean of a field over the reports of a mode in pass p: those that    *)
(* have one of the baseline beside them.                                   *)
Mean(p, m, field) ==
  LET n == Len(log[p].of["baseline"])
  IN  Quotient(SumTo([j \in 1 .. n |-> log[p].of[m][j][field]], n), n)

(* The average of a key is that of the value of each of these passes.      *)
AverageIs(key, passes, values) ==
  IF passes = {}
  THEN key \notin DOMAIN average
  ELSE average[key] =
         [total |-> SumTo([p \in 1 .. Len(log) |-> IF p \in passes THEN values[p] ELSE 0],
                          Len(log)),
          count |-> Cardinality(passes)]

(* An average is that of what the processes reported, over the passes that *)
(* measured it: the time to start of all passes of a user-space benchmark, *)
(* the run time of those with a number of loops, the kernel's of those     *)
(* before it failed.  A pass without a value does not count as one of 0.   *)
AveragesOfReports ==
  pc = "done" =>
    /\ \A m \in Modes :
         LET boots == Logged({"full", "fast"})
             runs == Logged({"full"})
         IN  /\ AverageIs(<<"ust", m, "start_time">>, boots,
                          [p \in boots |-> Mean(p, m, "boot")])
             /\ AverageIs(<<"ust", m, "run_time">>, runs, [p \in runs |-> Mean(p, m, "run")])
    /\ LET kernel == Logged({"kernel"})
       IN  AverageIs(<<"kernel", "baseline", "run_time">>, kernel,
                     [p \in kernel |-> Quotient(log[p].of[1], CpuCount)])

(* Of keys that are there, the average of one is the difference of those   *)
(* of two others, and all are over as many passes.                         *)
IsDifference(key, minuend, subtrahend) ==
  key \in DOMAIN average =>
    /\ average[key].total = average[minuend].total - average[subtrahend].total
    /\ average[key].count = average[minuend].count
    /\ average[key].count = average[subtrahend].count

(* What an event costs on average is the difference of the run times on    *)
(* average: both are over the same passes (do_ust_benchmark() and main()). *)
CostIsDifference ==
  pc = "done" =>
    \A m \in Modes \ {"baseline"} :
      IsDifference(<<"ust", m, "ns_per_event">>, <<"ust", m, "run_time">>,
                   <<"ust", "baseline", "run_time">>)

(* What start_overhead_s is the name of: by how much longer a traced       *)
(* program takes to start than the baseline does, both being means over    *)
(* the processes (benchmarks.py:150-162).  It does not hold: the loop adds *)
(* up running sums (line 114), so that of n processes the one printed      *)
(* first counts n times.                                                   *)
OverheadIsDifference ==
  pc = "done" =>
    \A m \in Modes \ {"baseline"} :
      IsDifference(<<"ust", m, "start_overhead_s">>, <<"ust", m, "start_time">>,
                   <<"ust", "baseline", "start_time">>)

(* It does hold where it cannot be told from the sum of the differences:   *)
(* with one CPU, of which all tools report one process.  The results       *)
(* labelled "1_cpus" are right.                                            *)
OverheadOfOne ==
  (\A p \in Logged({"full", "fast"}) : Len(log[p].of["baseline"]) = 1) => OverheadIsDifference

=============================================================================
