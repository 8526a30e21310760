-------------------------------- MODULE Metrics --------------------------------
(***************************************************************************)
(* PerformanceMetrics: latencies that the reader, the handler and the      *)
(* injector record under a mutex, statistics over the newest of them, and   *)
(* the thread that logs and clears them every interval, started and stopped *)
(* with the engine.                                                        *)
(*                                                                         *)
(* Percentiles are in hundredths of a nanosecond.                          *)
(***************************************************************************)
EXTENDS Integers, Sequences, SequencesExt, FiniteSetsExt

CONSTANTS
  Operation,    \* key_processing, hook_callback, ...
  Duration,     \* latencies in ns; a coarse clock gives 0 as well
  BUFFER_SIZE,
  Starter,      \* the threads that start and stop the engine
  Overlap,      \* may one start it while another stops it?
  MaxRecords,   \* bound: latencies recorded of an operation
  MaxStarts     \* bound: calls of startPeriodicLogging and stopPeriodicLogging

ASSUME MetricsAssumption ==
  /\ Duration \subseteq Nat /\ BUFFER_SIZE \in Nat \ {0} /\ Overlap \in BOOLEAN
  /\ MaxRecords \in Nat /\ MaxStarts \in Nat

VARIABLES
  buffers,        \* m_buffers: of the operations recorded so far
  loggingActive, stopLogging,
  joinable,       \* does m_loggingThread own a thread?
  logger,         \* where that thread is
  call,           \* where each starter is
  terminated,     \* has std::terminate ended the program?
  past,           \* history: what was recorded of an operation since it was cleared
  records,        \* history: how much was recorded of it at all
  logged,         \* history: how much of it the log has counted
  starts

metricsVars ==
  <<buffers, loggingActive, stopLogging, joinable, logger, call, terminated, past, records, logged, starts>>
threadVars == <<loggingActive, stopLogging, joinable, logger, call, terminated, starts>>

Slots == 0..BUFFER_SIZE - 1
Cleared == [writeIndex |-> 0, samples |-> [i \in Slots |-> 0]]

MetricsInit ==
  /\ buffers = <<>> /\ loggingActive = FALSE /\ stopLogging = FALSE /\ joinable = FALSE /\ logger = "none"
  /\ call = [t \in Starter |-> "none"] /\ terminated = FALSE
  /\ past = [o \in Operation |-> <<>>] /\ records = [o \in Operation |-> 0] /\ logged = [o \in Operation |-> 0]
  /\ starts = 0

(* --------------------------------- Recording --------------------------------- *)

Record(o, d) ==
  LET b == IF o \in DOMAIN buffers THEN buffers[o] ELSE Cleared IN
  /\ ~terminated /\ records[o] < MaxRecords
  /\ buffers' = [p \in DOMAIN buffers \cup {o} |->
                   IF p # o THEN buffers[p]
                   ELSE [writeIndex |-> b.writeIndex + 1,
                         samples |-> [b.samples EXCEPT ![b.writeIndex % BUFFER_SIZE] = d]]]
  /\ past' = [past EXCEPT ![o] = Append(@, d)] /\ records' = [records EXCEPT ![o] = @ + 1]
  /\ UNCHANGED <<threadVars, logged>>

\* A sample of 0 cannot be told from a slot that is not used.
GetSamples(b) == SelectSeq([i \in 1..BUFFER_SIZE |-> b.samples[i - 1]], LAMBDA v : v > 0)

\* Between two neighbours of the sorted samples s, in proportion.
Percentile(s, p) ==
  LET rank == p * (Len(s) - 1)  lower == rank \div 100 + 1  fraction == rank % 100
  IN s[lower] * (100 - fraction) + (IF fraction = 0 THEN 0 ELSE s[lower + 1] * fraction)

NoStats == [count |-> 0, min |-> 0, p50 |-> 0, p95 |-> 0, p99 |-> 0, max |-> 0]
ComputeStats(b) ==
  LET s == SortSeq(GetSamples(b), <)
  IN IF s = <<>> THEN NoStats
     ELSE [count |-> b.writeIndex, min |-> 100 * s[1], p50 |-> Percentile(s, 50), p95 |-> Percentile(s, 95),
           p99 |-> Percentile(s, 99), max |-> 100 * s[Len(s)]]

(* ------------------------------ The logging thread ------------------------------ *)

\* A slice of the sleep ends: it ends altogether after the interval, and at once when it is to stop.
Wake ==
  /\ ~terminated /\ logger = "sleep" /\ logger' = IF stopLogging THEN "ended" ELSE "report"
  /\ UNCHANGED <<buffers, loggingActive, stopLogging, joinable, call, terminated, past, records, logged, starts>>

Asleep == IF stopLogging THEN "ended" ELSE "sleep"

\* getAllStats and what is logged of it; nothing is cleared when there is no buffer yet.
LogStats ==
  /\ ~terminated /\ logger = "report" /\ logger' = IF buffers = <<>> THEN Asleep ELSE "reset"
  /\ logged' = [o \in Operation |-> logged[o] + IF o \in DOMAIN buffers THEN ComputeStats(buffers[o]).count ELSE 0]
  /\ UNCHANGED <<buffers, loggingActive, stopLogging, joinable, call, terminated, past, records, starts>>

ResetSamplesOnly ==
  /\ ~terminated /\ logger = "reset" /\ logger' = Asleep
  /\ buffers' = [o \in DOMAIN buffers |-> [buffers[o] EXCEPT !.samples = Cleared.samples]]
  /\ past' = [o \in Operation |-> <<>>]
  /\ UNCHANGED <<loggingActive, stopLogging, joinable, call, terminated, records, logged, starts>>
Reset ==
  /\ ~terminated /\ logger = "reset" /\ logger' = Asleep
  /\ buffers' = [o \in DOMAIN buffers |-> Cleared] /\ past' = [o \in Operation |-> <<>>]
  /\ UNCHANGED <<loggingActive, stopLogging, joinable, call, terminated, records, logged, starts>>

(* ------------------------------- Start and stop ------------------------------- *)

Calls(t) ==
  /\ ~terminated /\ call[t] = "none" /\ (Overlap \/ \A u \in Starter : call[u] = "none")
  /\ starts < MaxStarts /\ starts' = starts + 1
At(t, pc) == ~terminated /\ call[t] = pc /\ UNCHANGED <<buffers, past, records, logged>>

StartLogging(t) ==
  /\ Calls(t) /\ At(t, "none") /\ loggingActive' = TRUE
  /\ call' = [call EXCEPT ![t] = IF loggingActive THEN "none" ELSE "clear"]
  /\ UNCHANGED <<stopLogging, joinable, logger, terminated>>
ClearStop(t) ==
  /\ At(t, "clear") /\ stopLogging' = FALSE /\ call' = [call EXCEPT ![t] = "thread"]
  /\ UNCHANGED <<loggingActive, joinable, logger, terminated, starts>>
\* Assigning to a std::thread that still owns one is std::terminate.
MakeThread(t) ==
  /\ At(t, "thread") /\ call' = [call EXCEPT ![t] = "none"] /\ terminated' = joinable
  /\ joinable' = TRUE /\ logger' = Asleep /\ UNCHANGED <<loggingActive, stopLogging, starts>>

StopLogging(t) ==
  /\ Calls(t) /\ At(t, "none") /\ call' = [call EXCEPT ![t] = IF loggingActive THEN "stop" ELSE "none"]
  /\ UNCHANGED <<loggingActive, stopLogging, joinable, logger, terminated>>
SetStop(t) ==
  /\ At(t, "stop") /\ stopLogging' = TRUE /\ call' = [call EXCEPT ![t] = IF joinable THEN "join" ELSE "inactive"]
  /\ UNCHANGED <<loggingActive, joinable, logger, terminated, starts>>
JoinThread(t) ==
  /\ At(t, "join") /\ logger = "ended" /\ joinable' = FALSE /\ call' = [call EXCEPT ![t] = "inactive"]
  /\ UNCHANGED <<loggingActive, stopLogging, logger, terminated, starts>>
SetInactive(t) ==
  /\ At(t, "inactive") /\ loggingActive' = FALSE /\ call' = [call EXCEPT ![t] = "forget"]
  /\ UNCHANGED <<stopLogging, joinable, logger, terminated, starts>>
ForgetThread(t) ==
  /\ At(t, "forget") /\ call' = [call EXCEPT ![t] = "none"] /\ terminated' = joinable
  /\ UNCHANGED <<loggingActive, stopLogging, joinable, logger, starts>>

Continue(t) ==
  ClearStop(t) \/ MakeThread(t) \/ SetStop(t) \/ JoinThread(t) \/ SetInactive(t) \/ ForgetThread(t)
LoggingThread == Wake \/ LogStats \/ Reset

MetricsNext ==
  \/ \E o \in Operation, d \in Duration : Record(o, d)
  \/ LoggingThread
  \/ \E t \in Starter : StartLogging(t) \/ StopLogging(t) \/ Continue(t)

\* A thread that is not blocked runs.
MetricsFairness == WF_metricsVars(LoggingThread) /\ \A t \in Starter : WF_metricsVars(Continue(t))
MetricsSpec == MetricsInit /\ [][MetricsNext]_metricsVars /\ MetricsFairness

(* --------------------------------- Properties --------------------------------- *)

MetricsTypeOK ==
  /\ DOMAIN buffers \subseteq Operation
  /\ \A o \in DOMAIN buffers : buffers[o].writeIndex \in Nat /\ buffers[o].samples \in [Slots -> Nat]
  /\ logger \in {"none", "sleep", "report", "reset", "ended"}

\* The statistics are about the newest BUFFER_SIZE latencies since the last report, those of 0 ns left out.
SamplesNewest ==
  \A o \in DOMAIN buffers :
    LET n == Len(past[o])
        newest == SubSeq(past[o], IF n > BUFFER_SIZE THEN n - BUFFER_SIZE + 1 ELSE 1, n)
    IN SortSeq(GetSamples(buffers[o]), <) = SortSeq(SelectSeq(newest, LAMBDA v : v > 0), <)

\* The percentiles are in order and between the least and the greatest sample, however few samples there are.
StatsOrdered ==
  \A o \in DOMAIN buffers :
    LET st == ComputeStats(buffers[o])
    IN st.min <= st.p50 /\ st.p50 <= st.p95 /\ st.p95 <= st.p99 /\ st.p99 <= st.max

\* No latency is counted by two reports of the log, though it is read and cleared under two locks.
LoggedOnce == \A o \in Operation : logged[o] <= records[o]

\* The thread object is never given up while it owns a thread, so starting and stopping the engine does not end the
\* program.
NeverTerminates == ~terminated

\* stopPeriodicLogging returns: the thread sees that it is to stop within a slice of its sleep.
StopReturns == \A t \in Starter : (call[t] = "stop") ~> (call[t] = "none")

\* Refuted, with durations above 0: every latency is counted by a report or still in its buffer.
EveryLogged ==
  \A o \in DOMAIN buffers : logger = "sleep" => logged[o] + ComputeStats(buffers[o]).count >= records[o]

\* Refuted: the number of keys that the status shows grows.
KeyCountGrows == [][\A o \in DOMAIN buffers : buffers'[o].writeIndex >= buffers[o].writeIndex]_metricsVars

\* The reports count every latency at most once and are about the newest samples, and the
\* thread object is never given up while it runs.
MetricsSafe == MetricsTypeOK /\ SamplesNewest /\ StatsOrdered /\ LoggedOnce /\ NeverTerminates
=============================================================================
