-------------------------- MODULE TimestampProfiler --------------------------
(***************************************************************************)
(* The TimestampProfiler of a frame, which is recorded into one command    *)
(* buffer after another: its ranges of queries in pools of kPoolSize, and  *)
(* the results that are fetched, without waiting for them, when the last   *)
(* command buffer of the frame retires.                                    *)
(*                                                                         *)
(* The time of a timestamp is its place among all those of the frame.      *)
(***************************************************************************)
EXTENDS Naturals, Sequences, SequencesExt, FiniteSets

CONSTANTS
    kPoolSize,      \* of timestamp_profiler.cc, where it is 100
    MaxBuffers,     \* bound: the command buffers of the pool
    MaxTimestamps   \* bound: the timestamps of a frame

ASSUME ProfilerAssumption ==
    kPoolSize \in Nat \ {0} /\ MaxBuffers \in Nat \ {0} /\ MaxTimestamps \in Nat

VARIABLES
    ranges,              \* ranges_
    pool_count,          \* how many pools_ there are
    current_pool_index,
    query_count,
    results,             \* results_, where the name of a timestamp is its number
    commands,            \* those of the current command buffer: the queries to write
    current_frame,       \* the command buffer, or 0
    in_flight,           \* those that the GPU has not executed, in order
    gpu_clock,           \* how many timestamps the GPU has written
    written,             \* what the queries hold, by pool and index
    ended                \* whether EndFrame() was called

profilerVars == <<ranges, pool_count, current_pool_index, query_count, results, commands,
                  current_frame, in_flight, gpu_clock, written, ended>>

ProfilerInit ==
    /\ ranges = <<>> /\ pool_count = 0 /\ current_pool_index = 0 /\ query_count = 0
    /\ results = <<>> /\ commands = <<>> /\ in_flight = <<>>
    /\ current_frame = 1
    /\ written = [q \in {} |-> 0]
    /\ gpu_clock = 0
    /\ ended = FALSE

-----------------------------------------------------------------------------
(* ObtainRange(): the range that the next query belongs to, and its place. *)

NewRange(pool, start_index) ==
    [pool |-> pool, command_buffer |-> current_frame, start_index |-> start_index, count |-> 0]

NeedsPool == ranges = <<>> \/ current_pool_index = kPoolSize

\* A bug to be caught: the range of another command buffer begins at the start.
ObtainRangeAtStart ==
    IF NeedsPool THEN Append(ranges, NewRange(pool_count + 1, 0))
    ELSE IF Last(ranges).command_buffer # current_frame
         THEN Append(ranges, NewRange(Last(ranges).pool, 0))
         ELSE ranges

ObtainRange ==
    IF NeedsPool THEN Append(ranges, NewRange(pool_count + 1, 0))
    ELSE IF Last(ranges).command_buffer # current_frame
         THEN Append(ranges, NewRange(Last(ranges).pool,
                                      Last(ranges).start_index + Last(ranges).count))
         ELSE ranges

AddTimestamp ==
    /\ current_frame # 0 /\ query_count < MaxTimestamps
    /\ LET obtained == ObtainRange
           index == IF NeedsPool THEN 0 ELSE current_pool_index
       IN  /\ ranges' = [obtained EXCEPT ![Len(obtained)].count = @ + 1]
           /\ pool_count' = IF NeedsPool THEN pool_count + 1 ELSE pool_count
           /\ current_pool_index' = index + 1
           /\ commands' = Append(commands, <<Last(obtained).pool, index>>)
    /\ results' = Append(results, [name |-> query_count, time |-> 0])
    /\ query_count' = query_count + 1
    /\ UNCHANGED <<current_frame, in_flight, gpu_clock, written, ended>>

-----------------------------------------------------------------------------
(* Renderer::SubmitPartialFrame() and EndFrame().                          *)

SubmitQueries ==
    /\ current_frame # 0
    /\ in_flight' = Append(in_flight, [buffer |-> current_frame, queries |-> commands])
    /\ current_frame' = 0
    /\ commands' = <<>>
    /\ UNCHANGED <<ranges, pool_count, current_pool_index, query_count, results, gpu_clock, written>>

SubmitPartialFrame == SubmitQueries /\ UNCHANGED ended

EndFrame == query_count > 0 /\ SubmitQueries /\ ended' = TRUE

\* The rest of SubmitPartialFrame(): when the GPU has been quick, it gets the
\* command buffer that was just submitted.
GetCommandBuffer(b) ==
    /\ current_frame = 0 /\ ~ended
    /\ b \notin {in_flight[k].buffer : k \in DOMAIN in_flight}
    /\ current_frame' = b
    /\ UNCHANGED <<ranges, pool_count, current_pool_index, query_count, results, commands,
                   in_flight, gpu_clock, written, ended>>

GpuExecutes ==
    /\ in_flight # <<>>
    /\ LET queries == Head(in_flight).queries IN
        /\ written' = [q \in DOMAIN written \union ToSet(queries) |->
                          IF q \in ToSet(queries)
                          THEN gpu_clock + SelectInSeq(queries, LAMBDA c : c = q) - 1
                          ELSE written[q]]
        /\ gpu_clock' = gpu_clock + Len(queries)
    /\ in_flight' = Tail(in_flight)
    /\ UNCHANGED <<ranges, pool_count, current_pool_index, query_count, results, commands,
                   current_frame, ended>>

\* GetQueryResults(), called when the last command buffer retires.
Queries(range) == [i \in 1 .. range.count |-> <<range.pool, range.start_index + i - 1>>]
Fetched == FlattenSeq([k \in DOMAIN ranges |-> Queries(ranges[k])])

GetQueryResults ==
    /\ ended /\ in_flight = <<>> /\ ranges # <<>>
    /\ results' = [i \in DOMAIN results |->
                     [results[i] EXCEPT !.time = written[Fetched[i]] - written[Fetched[1]]]]
    /\ ranges' = <<>> /\ pool_count' = 0 /\ query_count' = 0 /\ current_pool_index' = 0
    /\ UNCHANGED <<commands, current_frame, in_flight, gpu_clock, written, ended>>

ProfilerNext ==
    \/ AddTimestamp
    \/ SubmitPartialFrame \/ EndFrame
    \/ \E b \in 1..MaxBuffers : GetCommandBuffer(b)
    \/ GpuExecutes
    \/ GetQueryResults

ProfilerSpec == ProfilerInit /\ [][ProfilerNext]_profilerVars

-----------------------------------------------------------------------------
(* Properties.                                                             *)

\* Every timestamp has a query of its own, in a pool that has it; ranges that
\* continue in another command buffer or another pool neither overlap nor
\* leave one out, and what they hold has been written when it is fetched.
QueriesAreExclusive ==
    /\ Len(Fetched) = query_count
    /\ IsInjective(Fetched)
    /\ \A k \in DOMAIN Fetched : Fetched[k][1] <= pool_count /\ Fetched[k][2] < kPoolSize
    /\ ended /\ in_flight = <<>> => ToSet(Fetched) \subseteq DOMAIN written

\* The profile puts the time at which a timestamp was reached next to its name,
\* counted from the first.
TimesBelongToNames ==
    ended /\ ranges = <<>> => \A i \in DOMAIN results : results[i].time = results[i].name

\* What is logged for a frame is right, over command buffers that are handed out
\* again and pools that are full.
ProfileIsRight == QueriesAreExclusive /\ TimesBelongToNames
=============================================================================
