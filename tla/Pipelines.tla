------------------------------ MODULE Pipelines ------------------------------
(***************************************************************************)
(* PipelineCache::GetPipeline(), which may be called from several threads  *)
(* and builds each pipeline on a thread of its own; a factory that queues  *)
(* what it is asked for, and serves one request when it is called to; and  *)
(* GlslToSpirvCompiler, which compiles the shaders of a pipeline at the    *)
(* same time, each on a thread of its own, and insists in its destructor   *)
(* that none of them is active.  A shader that fails to compile fails the  *)
(* pipeline; builds without DCHECKs then keep the promise of a null one.   *)
(*                                                                         *)
(* A client is a thread that makes the calls of its script in turn.        *)
(***************************************************************************)
EXTENDS Naturals, Sequences, SequencesExt, FiniteSets

CONSTANTS
    Specs,       \* the pipelines that can be asked for
    Scripts      \* the calls of each client

\* To the cache, to a future, and to the factory.
Calls == ({"get", "await"} \X Specs) \union {<<"serve">>}

ASSUME PipelinesAssumption == \A c \in DOMAIN Scripts : Scripts[c] \in Seq(Calls)

Clients == DOMAIN Scripts
Stages == {"vertex", "fragment"}
NoPipeline == 0   \* a null pointer

VARIABLES
    calls,      \* how many calls each client has made
    answers,    \* the pipelines that clients got for a spec, null ones included
    map,        \* map_: the future of each spec that was asked for
    futures,    \* the shared state of each future: its spec, thread and value
    requests,   \* those in the queue of the factory, in order: futures
    services,   \* how many calls to serve one there were
    pipelines,  \* how many pipelines were made
    compiles,   \* the compilations of each pipeline in the making
    active_compile_count

cacheVars == <<map, futures>>
factoryVars == <<requests, services, pipelines>>
compilerVars == <<compiles, active_compile_count>>
pipeVars == <<calls, answers, cacheVars, factoryVars, compilerVars>>

PipeInit ==
    /\ calls = [c \in Clients |-> 0] /\ answers = {}
    /\ map = [s \in {} |-> 0]
    /\ futures = <<>>
    /\ requests = <<>> /\ services = 0 /\ pipelines = 0
    /\ compiles = [f \in {} |-> {}]
    /\ active_compile_count = 0

NextCall(c) == IF calls[c] = Len(Scripts[c]) THEN <<"done">> ELSE Scripts[c][calls[c] + 1]
Made(c) == calls' = [calls EXCEPT ![c] = @ + 1]

\* The thread of a future ends when it has kept its promise.
IsReady(f) == futures[f].thread = "ends"

-----------------------------------------------------------------------------
(* The cache, and the threads that wait for the factory.                   *)

\* A bug to be caught: the future is not stashed while the pipeline is being made.
GetPipelineWithoutStash(c) ==
    /\ NextCall(c)[1] = "get"
    /\ LET spec == NextCall(c)[2]
       IN  IF spec \in DOMAIN map /\ IsReady(map[spec]) THEN UNCHANGED <<map, futures>>
           ELSE /\ futures' = Append(futures, [spec |-> spec, thread |-> "starts", value |-> NoPipeline])
                /\ map' = [s \in DOMAIN map \union {spec} |->
                             IF s = spec THEN Len(futures') ELSE map[s]]
    /\ Made(c)
    /\ UNCHANGED <<answers, factoryVars, compilerVars>>

\* Under the mutex: the future that is stashed, or a new one and a thread that
\* will make its pipeline.
GetPipeline(c) ==
    /\ NextCall(c)[1] = "get"
    /\ LET spec == NextCall(c)[2]
       IN  IF spec \in DOMAIN map THEN UNCHANGED <<map, futures>>
           ELSE /\ futures' = Append(futures, [spec |-> spec, thread |-> "starts", value |-> NoPipeline])
                /\ map' = [s \in DOMAIN map \union {spec} |->
                             IF s = spec THEN Len(futures') ELSE map[s]]
    /\ Made(c)
    /\ UNCHANGED <<answers, factoryVars, compilerVars>>

\* get() on a future that GetPipeline() returned: what it finds stays there.
Await(c) ==
    /\ NextCall(c)[1] = "await"
    /\ LET spec == NextCall(c)[2]
       IN  /\ spec \in DOMAIN map /\ IsReady(map[spec])
           /\ answers' = answers \union {<<spec, futures[map[spec]].value>>}
    /\ Made(c)
    /\ UNCHANGED <<cacheVars, factoryVars, compilerVars>>

\* A bug to be caught: a request that is not the only one is lost.
ThreadAsksFactoryUnlocked(f) ==
    /\ futures[f].thread = "starts"
    /\ futures' = [futures EXCEPT ![f].thread = "waits"]
    /\ requests' = <<f>>
    /\ UNCHANGED <<calls, answers, map, services, pipelines, compilerVars>>

\* The thread calls NewPipeline() of the factory, without the mutex.
ThreadAsksFactory(f) ==
    /\ futures[f].thread = "starts"
    /\ futures' = [futures EXCEPT ![f].thread = "waits"]
    /\ requests' = Append(requests, f)
    /\ UNCHANGED <<calls, answers, map, services, pipelines, compilerVars>>

-----------------------------------------------------------------------------
(* The factory and the compiler.                                           *)

\* Both shaders of a pipeline are compiled.
Compile(f) ==
    /\ compiles' = [g \in DOMAIN compiles \union {f} |->
                      IF g = f THEN [s \in Stages |-> "active"] ELSE compiles[g]]
    /\ active_compile_count' = active_compile_count + Cardinality(Stages)

\* The first request is served; when there is none the call returns at once, and
\* a request that comes later must wait for another call.
ServiceOneRequest(c) ==
    /\ NextCall(c)[1] = "serve"
    /\ services' = services + 1
    /\ \/ requests = <<>> /\ UNCHANGED <<requests, compilerVars>>
       \/ requests # <<>> /\ requests' = Tail(requests) /\ Compile(Head(requests))
    /\ Made(c)
    /\ UNCHANGED <<answers, cacheVars, pipelines>>

\* SynchronousCompile() returns: the count goes down before its future is ready.
CompileReturns(f, s) ==
    /\ f \in DOMAIN compiles /\ compiles[f][s] = "active"
    /\ compiles' = [compiles EXCEPT ![f][s] = "counted"]
    /\ active_compile_count' = active_compile_count - 1
    /\ UNCHANGED <<calls, answers, cacheVars, factoryVars>>

\* With the code of the shader, or without if it could not be compiled.
CompileIsReady(f, s) ==
    /\ f \in DOMAIN compiles /\ compiles[f][s] = "counted"
    /\ \E result \in {"ready", "failed"} : compiles' = [compiles EXCEPT ![f][s] = result]
    /\ UNCHANGED <<calls, answers, cacheVars, factoryVars, active_compile_count>>

\* Both shaders are there; the promise of the factory and then that of the cache
\* are kept.
PipelineIsMade(f) ==
    /\ f \in DOMAIN compiles /\ \A s \in Stages : compiles[f][s] = "ready"
    /\ futures[f].thread = "waits"
    /\ pipelines' = pipelines + 1
    /\ futures' = [futures EXCEPT ![f] = [spec |-> @.spec, thread |-> "ends", value |-> pipelines']]
    /\ UNCHANGED <<calls, answers, map, requests, services, compilerVars>>

\* A shader could not be compiled: the promise is kept with a null pointer.  Its
\* future stays in the map.
PipelineFails(f) ==
    /\ f \in DOMAIN compiles /\ \A s \in Stages : compiles[f][s] \in {"ready", "failed"}
    /\ \E s \in Stages : compiles[f][s] = "failed"
    /\ futures[f].thread = "waits"
    /\ futures' = [futures EXCEPT ![f].thread = "ends"]
    /\ UNCHANGED <<calls, answers, map, factoryVars, compilerVars>>

ThreadStep ==
    \E f \in DOMAIN futures :
        \/ ThreadAsksFactory(f) \/ PipelineIsMade(f) \/ PipelineFails(f)
        \/ \E s \in Stages : CompileReturns(f, s) \/ CompileIsReady(f, s)

ClientStep == \E c \in Clients : GetPipeline(c) \/ Await(c) \/ ServiceOneRequest(c)

PipeNext == ClientStep \/ ThreadStep

\* Threads are scheduled.
PipeSpec == PipeInit /\ [][PipeNext]_pipeVars /\ WF_pipeVars(ThreadStep) /\ WF_pipeVars(ClientStep)

-----------------------------------------------------------------------------
(* Properties.                                                             *)

\* Whoever asks for a pipeline gets the same one, at whatever moment, and it is
\* the pipeline of that spec and made once; one that failed is not made again, so
\* that everyone who asks for it finds that it failed, and nobody else does.  When
\* everything that was asked for has been answered, the compiler may be destroyed.
PipelinesAreShared ==
    /\ \A f, g \in DOMAIN futures : futures[f].spec = futures[g].spec => f = g
    /\ \A s \in DOMAIN map : futures[map[s]].spec = s
    /\ pipelines = Cardinality({f \in DOMAIN futures : futures[f].value # NoPipeline})
    /\ \A f \in DOMAIN futures : IsReady(f) =>
            (futures[f].value = NoPipeline <=> \E s \in Stages : compiles[f][s] = "failed")
    /\ \A a, b \in answers : a[1] = b[1] => a[2] = b[2]
    /\ (\A f \in DOMAIN futures : IsReady(f)) => active_compile_count = 0

\* Nobody called the factory to serve a request that had not reached its queue.
ServicesAreTimely ==
    services <= Cardinality({f \in DOMAIN futures : futures[f].thread # "starts"})

\* Whoever waits for a pipeline is answered, unless a service call came too early:
\* such a call is lost, and with it the answer if there is no other.
PipelinesAreMade ==
    []ServicesAreTimely => \A c \in Clients : <>(calls[c] = Len(Scripts[c]))
=============================================================================
