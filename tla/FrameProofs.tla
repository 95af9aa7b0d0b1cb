----------------------------- MODULE FrameProofs -----------------------------
(***************************************************************************)
(* TLAPS proofs about what the frames of a demo are made of: the pipelines *)
(* it asks for, the queues it submits to, the objects that wobble, the     *)
(* loop that draws one frame after another, the strokes that are drawn,    *)
(* and the timestamps that are taken.                                      *)
(***************************************************************************)
EXTENDS FrameLoop, Pipelines, WobbleAbsorber, DeviceQueues, Strokes, TimestampProfiler,
        DataLemmas
------------------------------------------------------------------------------
(* Pipelines.  There is one future for each spec that was asked for; it is *)
(* known to the thread that makes the pipeline, then to the queue of the   *)
(* factory, then to the compilations.                                      *)
Future == [spec : Specs, thread : {"starts", "waits", "ends"}, value : Nat]

PipeTypes ==
  /\ calls \in [Clients -> Nat] /\ \A c \in Clients : calls[c] <= Len(Scripts[c])
  /\ futures \in Seq(Future)
  /\ pipelines \in Nat /\ active_compile_count \in Int

FuturesInv ==
  /\ \A s \in DOMAIN map : map[s] \in DOMAIN futures /\ futures[map[s]].spec = s
  /\ \A f \in DOMAIN futures : futures[f].spec \in DOMAIN map /\ map[futures[f].spec] = f

RequestsInv ==
  /\ requests \in Seq(Nat)
  /\ \A i \in DOMAIN requests :
       /\ requests[i] \in DOMAIN futures \ DOMAIN compiles
       /\ futures[requests[i]].thread = "waits"
       /\ \A j \in DOMAIN requests : requests[i] = requests[j] => i = j

CompilesInv ==
  /\ DOMAIN compiles \subseteq DOMAIN futures
  /\ \A f \in DOMAIN compiles :
       /\ compiles[f] \in [Stages -> {"active", "counted", "ready", "failed"}]
       /\ futures[f].thread # "starts"
  /\ \A f \in DOMAIN futures :
       /\ futures[f].thread # "ends" => futures[f].value = NoPipeline
       /\ futures[f].thread = "ends" =>
            /\ f \in DOMAIN compiles
            /\ \A s \in Stages : compiles[f][s] \in {"ready", "failed"}
            /\ futures[f].value = NoPipeline <=> \E s \in Stages : compiles[f][s] = "failed"

AnswersInv ==
  \A a \in answers :
     /\ a[1] \in DOMAIN map
     /\ futures[map[a[1]]].thread = "ends" /\ futures[map[a[1]]].value = a[2]

Kept == {f \in DOMAIN futures : futures[f].value # NoPipeline}
Active(s) == {f \in DOMAIN compiles : compiles[f][s] = "active"}

CountsInv ==
  /\ pipelines = Cardinality(Kept)
  /\ active_compile_count = Cardinality(Active("vertex")) + Cardinality(Active("fragment"))

PipeInv == PipeTypes /\ FuturesInv /\ RequestsInv /\ CompilesInv /\ AnswersInv /\ CountsInv

LEMMA CountsAreFinite ==
  ASSUME PipeInv
  PROVE  /\ IsFiniteSet(Kept) /\ Cardinality(Kept) \in Nat
         /\ \A s : IsFiniteSet(Active(s)) /\ Cardinality(Active(s)) \in Nat
<1>1. DOMAIN futures = 1..Len(futures) /\ Len(futures) \in Nat
  BY DEF PipeInv, PipeTypes
<1>2. IsFiniteSet(DOMAIN futures)
  BY <1>1, FS_Interval
<1>3. Kept \subseteq DOMAIN futures
  BY DEF Kept
<1>4. \A s : Active(s) \subseteq DOMAIN futures
  BY DEF Active, PipeInv, CompilesInv
<1> QED BY <1>2, <1>3, <1>4, FS_Subset, FS_CardinalityType

(* A future in another state. *)
LEMMA FutureChanges ==
  ASSUME futures \in Seq(Future), NEW f \in DOMAIN futures, NEW r \in Future,
         futures' = [futures EXCEPT ![f] = r]
  PROVE  /\ futures' \in Seq(Future) /\ DOMAIN futures' = DOMAIN futures
         /\ futures'[f] = r
         /\ \A g \in DOMAIN futures : g # f => futures'[g] = futures[g]
  OBVIOUS

LEMMA PipeInitInv == PipeInit => PipeInv
<1> SUFFICES ASSUME PipeInit PROVE PipeInv
  OBVIOUS
<1>1. PipeTypes
  <2>1. \A c \in Clients : Len(Scripts[c]) \in Nat
    BY PipelinesAssumption DEF Clients
  <2> QED BY <2>1 DEF PipeInit, PipeTypes
<1>2. DOMAIN futures = {} /\ DOMAIN requests = {} /\ DOMAIN map = {} /\ DOMAIN compiles = {}
  BY DEF PipeInit
<1>3. Kept = {} /\ \A s : Active(s) = {}
  BY <1>2 DEF Kept, Active
<1>4. CountsInv
  <2>1. /\ Cardinality(Kept) = 0 /\ Cardinality(Active("vertex")) = 0
        /\ Cardinality(Active("fragment")) = 0
    BY <1>3, FS_EmptySet
  <2>2. pipelines = 0 /\ active_compile_count = 0 /\ 0 + 0 = 0
    BY DEF PipeInit
  <2> QED BY <2>1, <2>2 DEF CountsInv
<1>5. requests \in Seq(Nat)
  BY DEF PipeInit
<1>6. answers = {}
  BY DEF PipeInit
<1> QED BY <1>1, <1>2, <1>4, <1>5, <1>6
        DEF PipeInv, FuturesInv, RequestsInv, CompilesInv, AnswersInv

LEMMA GetPipelineInv ==
  ASSUME PipeInv, NEW c \in Clients, GetPipeline(c)
  PROVE  PipeInv'
<1> DEFINE spec == NextCall(c)[2]
           future == [spec |-> spec, thread |-> "starts", value |-> NoPipeline]
<1>1. /\ calls[c] # Len(Scripts[c]) /\ NextCall(c) = Scripts[c][calls[c] + 1]
  BY DEF GetPipeline, NextCall
<1>2. Scripts[c] \in Seq(Calls)
  BY PipelinesAssumption DEF Clients
<1>3. calls[c] \in Nat /\ calls[c] <= Len(Scripts[c])
  BY DEF PipeInv, PipeTypes
<1>4. calls[c] + 1 \in 1..Len(Scripts[c])
  BY <1>1, <1>2, <1>3
<1>5. spec \in Specs
  <2>1. NextCall(c) \in Calls /\ NextCall(c)[1] = "get"
    BY <1>1, <1>2, <1>4 DEF GetPipeline
  <2> QED BY <2>1 DEF Calls
<1>6. calls' \in [Clients -> Nat] /\ \A d \in Clients : calls'[d] <= Len(Scripts[d])
  BY <1>4 DEF GetPipeline, Made, PipeInv, PipeTypes
<1>7. /\ requests' = requests /\ pipelines' = pipelines /\ compiles' = compiles
      /\ active_compile_count' = active_compile_count /\ answers' = answers
  BY DEF GetPipeline, factoryVars, compilerVars
<1>8. Active("vertex")' = Active("vertex") /\ Active("fragment")' = Active("fragment")
  BY <1>7 DEF Active
<1>9. CASE spec \in DOMAIN map
  <2>1. map' = map /\ futures' = futures
    BY <1>9 DEF GetPipeline
  <2>2. Kept' = Kept
    BY <2>1 DEF Kept
  <2> QED BY <1>6, <1>7, <1>8, <2>1, <2>2
          DEF PipeInv, PipeTypes, FuturesInv, RequestsInv, CompilesInv, AnswersInv, CountsInv
<1>10. CASE spec \notin DOMAIN map
  <2> DEFINE n == Len(futures)
  <2>1. /\ futures' = Append(futures, future)
        /\ map' = [s \in DOMAIN map \cup {spec} |-> IF s = spec THEN Len(futures') ELSE map[s]]
    BY <1>10 DEF GetPipeline
  <2>2. futures \in Seq(Future) /\ future \in Future /\ n \in Nat
    BY <1>5 DEF PipeInv, PipeTypes, Future, NoPipeline
  <2>3. /\ futures' \in Seq(Future) /\ Len(futures') = n + 1 /\ futures'[n + 1] = future
        /\ \A f \in DOMAIN futures : futures'[f] = futures[f]
        /\ DOMAIN futures = 1..n /\ DOMAIN futures' = 1..(n + 1)
    BY <2>1, <2>2
  <2>4. DOMAIN futures' = DOMAIN futures \cup {n + 1} /\ n + 1 \notin DOMAIN futures
    BY <2>2, <2>3
  <2> HIDE DEF n, future
  <2>5. future.spec = spec /\ future.thread = "starts" /\ future.value = NoPipeline
    BY DEF future
  <2>6. FuturesInv'
    <3>1. /\ DOMAIN map' = DOMAIN map \cup {spec} /\ map'[spec] = n + 1
          /\ \A s \in DOMAIN map : map'[s] = map[s]
      BY <1>10, <2>1, <2>3
    <3> HIDE DEF spec
    <3>2. \A s \in DOMAIN map' : map'[s] \in DOMAIN futures' /\ futures'[map'[s]].spec = s
      <4>1. map'[spec] \in DOMAIN futures' /\ futures'[map'[spec]].spec = spec
        BY <2>3, <2>4, <2>5, <3>1
      <4>2. ASSUME NEW s \in DOMAIN map
            PROVE  map'[s] \in DOMAIN futures' /\ futures'[map'[s]].spec = s
        <5>1. map[s] \in DOMAIN futures /\ futures[map[s]].spec = s
          BY DEF PipeInv, FuturesInv
        <5> QED BY <2>3, <2>4, <3>1, <5>1
      <4> QED BY <3>1, <4>1, <4>2
    <3>3. \A f \in DOMAIN futures : futures[f].spec \in DOMAIN map'
                                   /\ map'[futures[f].spec] = f
      BY <3>1 DEF PipeInv, FuturesInv
    <3>4. \A f \in DOMAIN futures' : futures'[f].spec \in DOMAIN map'
                                    /\ map'[futures'[f].spec] = f
      BY <2>3, <2>4, <2>5, <3>1, <3>3
    <3> QED BY <3>2, <3>4 DEF FuturesInv
  <2>7. Kept' = Kept
    BY <2>3, <2>4, <2>5 DEF Kept
  <2>8. RequestsInv'
    BY <1>7, <2>3, <2>4 DEF PipeInv, RequestsInv
  <2>9. CompilesInv'
    BY <1>7, <2>3, <2>4, <2>5 DEF PipeInv, CompilesInv
  <2>10. AnswersInv'
    <3>1. \A s \in DOMAIN map : s \in DOMAIN map' /\ map'[s] = map[s]
      BY <1>10, <2>1
    <3>2. \A s \in DOMAIN map : map[s] \in DOMAIN futures
      BY DEF PipeInv, FuturesInv
    <3> HIDE DEF spec
    <3> QED BY <1>7, <2>3, <3>1, <3>2 DEF PipeInv, AnswersInv
  <2> QED BY <1>6, <1>7, <1>8, <2>3, <2>6, <2>7, <2>8, <2>9, <2>10
          DEF PipeInv, PipeTypes, CountsInv
<1> QED BY <1>9, <1>10

LEMMA AwaitInv ==
  ASSUME PipeInv, NEW c \in Clients, Await(c)
  PROVE  PipeInv'
<1>1. /\ calls[c] # Len(Scripts[c])
      /\ calls[c] \in Nat /\ calls[c] <= Len(Scripts[c]) /\ Len(Scripts[c]) \in Nat
  BY PipelinesAssumption DEF Clients, Await, NextCall, PipeInv, PipeTypes
<1>2. calls' \in [Clients -> Nat] /\ \A d \in Clients : calls'[d] <= Len(Scripts[d])
  BY <1>1 DEF Await, Made, PipeInv, PipeTypes
<1>3. /\ map' = map /\ futures' = futures /\ requests' = requests /\ pipelines' = pipelines
      /\ compiles' = compiles /\ active_compile_count' = active_compile_count
  BY DEF Await, cacheVars, factoryVars, compilerVars
<1> DEFINE spec == NextCall(c)[2]
<1>4. futures[map[spec]].thread = "ends" /\ spec \in DOMAIN map
  BY DEF Await, IsReady
<1>5. answers' = answers \cup {<<spec, futures[map[spec]].value>>}
  BY DEF Await
<1> HIDE DEF spec
<1>6. AnswersInv'
  BY <1>3, <1>4, <1>5 DEF PipeInv, AnswersInv
<1> QED BY <1>2, <1>3, <1>6 DEF PipeInv, PipeTypes, FuturesInv, RequestsInv, CompilesInv,
                                CountsInv, Kept, Active

LEMMA ThreadAsksInv ==
  ASSUME PipeInv, NEW f \in DOMAIN futures, ThreadAsksFactory(f)
  PROVE  PipeInv'
<1>1. /\ futures[f].thread = "starts"
      /\ futures' = [futures EXCEPT ![f].thread = "waits"]
      /\ requests' = Append(requests, f)
      /\ calls' = calls /\ map' = map /\ pipelines' = pipelines /\ compiles' = compiles
      /\ active_compile_count' = active_compile_count /\ answers' = answers
  BY DEF ThreadAsksFactory, compilerVars
<1>2. futures \in Seq(Future) /\ requests \in Seq(Nat) /\ f \in Nat
  BY DEF PipeInv, PipeTypes, RequestsInv
<1>3. /\ futures' \in Seq(Future) /\ DOMAIN futures' = DOMAIN futures
      /\ futures'[f].thread = "waits"
      /\ \A g \in DOMAIN futures : /\ futures'[g].spec = futures[g].spec
                                   /\ futures'[g].value = futures[g].value
                                   /\ g # f => futures'[g].thread = futures[g].thread
  <2>1. futures[f] \in Future
    BY <1>2
  <2>2. PICK r \in Future : r = [futures[f] EXCEPT !.thread = "waits"]
    BY <2>1 DEF Future
  <2>3. r.spec = futures[f].spec /\ r.value = futures[f].value /\ r.thread = "waits"
    BY <2>1, <2>2 DEF Future
  <2>4. futures' = [futures EXCEPT ![f] = r]
    BY <1>1, <2>2
  <2> QED BY <1>2, <2>3, <2>4, FutureChanges
<1>4. FuturesInv' /\ AnswersInv'
  <2>1. FuturesInv'
    BY <1>1, <1>3 DEF PipeInv, FuturesInv
  <2>2. \A s \in DOMAIN map : map[s] \in DOMAIN futures
    BY DEF PipeInv, FuturesInv
  <2>3. AnswersInv'
    BY <1>1, <1>3, <2>2 DEF PipeInv, AnswersInv
  <2> QED BY <2>1, <2>3
<1>5. CompilesInv'
  BY <1>1, <1>3 DEF PipeInv, CompilesInv
<1>6. Kept' = Kept /\ Active("vertex")' = Active("vertex")
      /\ Active("fragment")' = Active("fragment")
  BY <1>1, <1>3 DEF Kept, Active
<1>7. RequestsInv'
  <2> DEFINE n == Len(requests)
  <2>1. /\ requests' \in Seq(Nat) /\ requests'[n + 1] = f
        /\ \A i \in DOMAIN requests : requests'[i] = requests[i]
        /\ DOMAIN requests' = DOMAIN requests \cup {n + 1} /\ n + 1 \notin DOMAIN requests
    BY <1>1, <1>2
  <2> HIDE DEF n
  <2>2. \A i \in DOMAIN requests : requests[i] # f
    BY <1>1 DEF PipeInv, RequestsInv
  <2>3. f \notin DOMAIN compiles
    BY <1>1 DEF PipeInv, CompilesInv
  <2>4. \A i \in DOMAIN requests :
          /\ requests'[i] \in DOMAIN futures' \ DOMAIN compiles'
          /\ futures'[requests'[i]].thread = "waits"
    BY <1>1, <1>3, <2>1, <2>2 DEF PipeInv, RequestsInv
  <2> QED BY <1>1, <1>3, <2>1, <2>2, <2>3, <2>4 DEF PipeInv, RequestsInv
<1> QED BY <1>1, <1>3, <1>4, <1>5, <1>6, <1>7 DEF PipeInv, PipeTypes, CountsInv

LEMMA RequestIsServedInv ==
  ASSUME PipeInv, requests # <<>>, requests' = Tail(requests), Compile(Head(requests)),
         calls' \in [Clients -> Nat] /\ \A d \in Clients : calls'[d] <= Len(Scripts[d]),
         UNCHANGED <<answers, cacheVars, pipelines>>
  PROVE  PipeInv'
<1> DEFINE f == Head(requests)
<1>1. /\ requests # <<>> /\ requests' = Tail(requests)
      /\ compiles' = [g \in DOMAIN compiles \cup {f} |->
                        IF g = f THEN [s \in Stages |-> "active"] ELSE compiles[g]]
      /\ active_compile_count' = active_compile_count + Cardinality(Stages)
      /\ map' = map /\ futures' = futures /\ pipelines' = pipelines /\ answers' = answers
  BY DEF Compile, cacheVars
<1>2. requests \in Seq(Nat) /\ f = requests[1] /\ 1 \in DOMAIN requests
  BY <1>1 DEF PipeInv, RequestsInv
<1>3. f \in DOMAIN futures /\ f \notin DOMAIN compiles /\ futures[f].thread = "waits"
  BY <1>2 DEF PipeInv, RequestsInv
<1>4. /\ requests' \in Seq(Nat)
      /\ \A i \in DOMAIN requests' : requests'[i] = requests[i + 1] /\ i + 1 \in DOMAIN requests
                                     /\ i + 1 # 1 /\ i \in Int
  BY <1>1, <1>2
<1> HIDE DEF f
<1>5. /\ DOMAIN compiles' = DOMAIN compiles \cup {f}
      /\ compiles'[f] = [s \in Stages |-> "active"]
      /\ \A g \in DOMAIN compiles : compiles'[g] = compiles[g]
  BY <1>1, <1>3
<1>6. RequestsInv'
  <2>1. ASSUME NEW i \in DOMAIN requests'
        PROVE  /\ requests'[i] \in DOMAIN futures \ DOMAIN compiles
               /\ requests'[i] # f /\ futures[requests'[i]].thread = "waits"
    BY <1>2, <1>4 DEF PipeInv, RequestsInv
  <2>2. ASSUME NEW i \in DOMAIN requests', NEW j \in DOMAIN requests',
               requests'[i] = requests'[j]
        PROVE  i = j
    <3>1. i + 1 = j + 1
      BY <1>4, <2>2 DEF PipeInv, RequestsInv
    <3> QED BY <1>4, <3>1
  <2> QED BY <1>1, <1>4, <1>5, <2>1, <2>2 DEF RequestsInv
<1>7. CompilesInv'
  BY <1>1, <1>3, <1>5 DEF PipeInv, CompilesInv
<1>8. FuturesInv' /\ AnswersInv' /\ Kept' = Kept
  BY <1>1 DEF PipeInv, FuturesInv, AnswersInv, Kept
<1>9. Cardinality(Stages) = 2
  <2>1. IsFiniteSet({"vertex"}) /\ Cardinality({"vertex"}) = 1
    BY FS_Singleton
  <2>2. Stages = {"vertex"} \cup {"fragment"} /\ "fragment" \notin {"vertex"}
    BY DEF Stages
  <2>3. Cardinality(Stages) = Cardinality({"vertex"}) + 1
    BY <2>1, <2>2, FS_AddElement
  <2> QED BY <2>1, <2>3
<1>9a. ASSUME NEW s \in Stages
       PROVE  Cardinality(Active(s)') = Cardinality(Active(s)) + 1
  <2>1. Active(s)' = Active(s) \cup {f} /\ f \notin Active(s)
    BY <1>3, <1>5 DEF Active
  <2> QED BY <2>1, CountsAreFinite, FS_AddElement
<1>9b. /\ Cardinality(Active("vertex")') = Cardinality(Active("vertex")) + 1
       /\ Cardinality(Active("fragment")') = Cardinality(Active("fragment")) + 1
  BY <1>9a DEF Stages
<1>10. CountsInv' /\ active_compile_count' \in Int
  <2>1. /\ Cardinality(Active("vertex")) \in Nat /\ Cardinality(Active("fragment")) \in Nat
        /\ active_compile_count = Cardinality(Active("vertex")) + Cardinality(Active("fragment"))
    BY CountsAreFinite DEF PipeInv, CountsInv
  <2>2. active_compile_count' \in Int
        /\ active_compile_count'
              = Cardinality(Active("vertex")') + Cardinality(Active("fragment")')
    BY <1>1, <1>9, <1>9b, <2>1
  <2> QED BY <1>1, <1>8, <2>2 DEF PipeInv, CountsInv
<1> QED BY <1>1, <1>6, <1>7, <1>8, <1>10 DEF PipeInv, PipeTypes

LEMMA ServiceInv ==
  ASSUME PipeInv, NEW c \in Clients, ServiceOneRequest(c)
  PROVE  PipeInv'
<1>1. /\ calls[c] # Len(Scripts[c])
      /\ calls[c] \in Nat /\ calls[c] <= Len(Scripts[c]) /\ Len(Scripts[c]) \in Nat
  BY PipelinesAssumption DEF Clients, ServiceOneRequest, NextCall, PipeInv, PipeTypes
<1>2. calls' \in [Clients -> Nat] /\ \A d \in Clients : calls'[d] <= Len(Scripts[d])
  BY <1>1 DEF ServiceOneRequest, Made, PipeInv, PipeTypes
<1>3. UNCHANGED <<answers, cacheVars, pipelines>>
  BY DEF ServiceOneRequest
<1>4. CASE requests # <<>> /\ requests' = Tail(requests) /\ Compile(Head(requests))
  BY <1>2, <1>3, <1>4, RequestIsServedInv
<1>5. CASE UNCHANGED <<requests, compilerVars>>
  BY <1>2, <1>3, <1>5 DEF cacheVars, compilerVars, PipeInv, PipeTypes, FuturesInv, RequestsInv,
                          CompilesInv, AnswersInv, CountsInv, Kept, Active
<1> QED BY <1>4, <1>5 DEF ServiceOneRequest

LEMMA CompilationInv ==
  ASSUME PipeInv, NEW f \in DOMAIN futures, NEW s \in Stages,
         CompileReturns(f, s) \/ CompileIsReady(f, s)
  PROVE  PipeInv'
<1> DEFINE returns == compiles[f][s] = "active"
<1>0. PICK result \in {"counted", "ready", "failed"} :
        /\ compiles' = [compiles EXCEPT ![f][s] = result]
        /\ result = "counted" <=> returns
  BY DEF CompileReturns, CompileIsReady
<1>1. /\ f \in DOMAIN compiles /\ compiles[f][s] \in {"active", "counted"}
      /\ compiles' = [compiles EXCEPT ![f][s] = result]
      /\ active_compile_count' = IF returns THEN active_compile_count - 1
                                            ELSE active_compile_count
      /\ calls' = calls /\ map' = map /\ futures' = futures /\ requests' = requests
      /\ pipelines' = pipelines /\ answers' = answers
  BY <1>0 DEF CompileReturns, CompileIsReady, cacheVars, factoryVars
<1>2. compiles[f] \in [Stages -> {"active", "counted", "ready", "failed"}]
  BY <1>1 DEF PipeInv, CompilesInv
<1>3. /\ DOMAIN compiles' = DOMAIN compiles
      /\ \A g \in DOMAIN compiles : g # f => compiles'[g] = compiles[g]
      /\ compiles'[f] = [compiles[f] EXCEPT ![s] = result]
  BY <1>1
<1>4. CompilesInv'
  <2>1. futures[f].thread # "ends"
    BY <1>1 DEF PipeInv, CompilesInv
  <2>2. compiles'[f] \in [Stages -> {"active", "counted", "ready", "failed"}]
    BY <1>0, <1>2, <1>3
  <2> QED BY <1>1, <1>3, <2>1, <2>2 DEF PipeInv, CompilesInv
<1>5. RequestsInv' /\ FuturesInv' /\ AnswersInv' /\ Kept' = Kept
  BY <1>1, <1>3 DEF PipeInv, RequestsInv, FuturesInv, AnswersInv, Kept
<1>6. /\ Active(s)' = Active(s) \ {f} /\ (f \in Active(s) <=> returns)
      /\ \A t \in Stages : t # s => Active(t)' = Active(t)
  BY <1>0, <1>1, <1>2, <1>3 DEF Active
<1>7. active_compile_count' = Cardinality(Active("vertex")') + Cardinality(Active("fragment")')
  <2>1. /\ active_compile_count
              = Cardinality(Active("vertex")) + Cardinality(Active("fragment"))
        /\ Cardinality(Active("vertex")) \in Nat /\ Cardinality(Active("fragment")) \in Nat
    BY CountsAreFinite DEF PipeInv, CountsInv
  <2>2. Cardinality(Active(s)') = IF returns THEN Cardinality(Active(s)) - 1
                                             ELSE Cardinality(Active(s))
    BY <1>6, CountsAreFinite, FS_RemoveElement
  <2> HIDE DEF returns
  <2>3. CASE s = "vertex"
    <3>1. Active("fragment")' = Active("fragment")
      BY <1>6, <2>3 DEF Stages
    <3> QED BY <1>1, <2>1, <2>2, <2>3, <3>1
  <2>4. CASE s = "fragment"
    <3>1. Active("vertex")' = Active("vertex")
      BY <1>6, <2>4 DEF Stages
    <3> QED BY <1>1, <2>1, <2>2, <2>4, <3>1
  <2> QED BY <2>3, <2>4 DEF Stages
<1>8. active_compile_count' \in Int
  BY <1>1 DEF PipeInv, PipeTypes
<1> QED BY <1>1, <1>4, <1>5, <1>7, <1>8 DEF PipeInv, PipeTypes, CountsInv

LEMMA PipelineIsMadeInv ==
  ASSUME PipeInv, NEW f \in DOMAIN futures, PipelineIsMade(f)
  PROVE  PipeInv'
<1>1. /\ f \in DOMAIN compiles /\ \A s \in Stages : compiles[f][s] = "ready"
      /\ futures[f].thread = "waits"
      /\ pipelines' = pipelines + 1
      /\ futures' = [futures EXCEPT ![f] = [spec |-> @.spec, thread |-> "ends",
                                            value |-> pipelines']]
      /\ calls' = calls /\ map' = map /\ requests' = requests /\ compiles' = compiles
      /\ active_compile_count' = active_compile_count /\ answers' = answers
  BY DEF PipelineIsMade, compilerVars
<1>2. futures \in Seq(Future) /\ pipelines \in Nat
  BY DEF PipeInv, PipeTypes
<1>3. pipelines' \in Nat /\ pipelines' # NoPipeline
  BY <1>1, <1>2 DEF NoPipeline
<1>4. /\ futures' \in Seq(Future) /\ DOMAIN futures' = DOMAIN futures
      /\ futures'[f].spec = futures[f].spec
      /\ futures'[f].thread = "ends" /\ futures'[f].value # NoPipeline
      /\ \A g \in DOMAIN futures : g # f => futures'[g] = futures[g]
  <2>1. futures[f] \in Future
    BY <1>2
  <2>2. PICK r \in Future : r = [spec |-> futures[f].spec, thread |-> "ends",
                                 value |-> pipelines']
    BY <1>3, <2>1 DEF Future
  <2>3. r.spec = futures[f].spec /\ r.thread = "ends" /\ r.value = pipelines'
    BY <2>2
  <2>4. futures' = [futures EXCEPT ![f] = r]
    BY <1>1, <2>2
  <2> QED BY <1>2, <1>3, <2>3, <2>4, FutureChanges
<1>5. FuturesInv'
  BY <1>1, <1>4 DEF PipeInv, FuturesInv
<1>6. CompilesInv'
  BY <1>1, <1>4 DEF PipeInv, CompilesInv
<1>7. RequestsInv' /\ AnswersInv'
  <2>1. \A s \in DOMAIN map : map[s] \in DOMAIN futures
    BY DEF PipeInv, FuturesInv
  <2>2. AnswersInv'
    BY <1>1, <1>4, <2>1 DEF PipeInv, AnswersInv
  <2> QED BY <1>1, <1>4, <2>2 DEF PipeInv, RequestsInv
<1>8. /\ Kept' = Kept \cup {f} /\ f \notin Kept
      /\ Active("vertex")' = Active("vertex") /\ Active("fragment")' = Active("fragment")
  BY <1>1, <1>4 DEF PipeInv, CompilesInv, Kept, Active
<1>9. Cardinality(Kept') = Cardinality(Kept) + 1
  BY <1>8, CountsAreFinite, FS_AddElement
<1> QED BY <1>1, <1>3, <1>4, <1>5, <1>6, <1>7, <1>8, <1>9
        DEF PipeInv, PipeTypes, CountsInv

LEMMA PipelineFailsInv ==
  ASSUME PipeInv, NEW f \in DOMAIN futures, PipelineFails(f)
  PROVE  PipeInv'
<1>1. /\ f \in DOMAIN compiles /\ \A s \in Stages : compiles[f][s] \in {"ready", "failed"}
      /\ \E s \in Stages : compiles[f][s] = "failed"
      /\ futures[f].thread = "waits"
      /\ futures' = [futures EXCEPT ![f].thread = "ends"]
      /\ calls' = calls /\ map' = map /\ requests' = requests /\ compiles' = compiles
      /\ pipelines' = pipelines /\ active_compile_count' = active_compile_count
      /\ answers' = answers
  BY DEF PipelineFails, factoryVars, compilerVars
<1>2. futures \in Seq(Future)
  BY DEF PipeInv, PipeTypes
<1>3. /\ futures' \in Seq(Future) /\ DOMAIN futures' = DOMAIN futures
      /\ futures'[f].thread = "ends"
      /\ \A g \in DOMAIN futures : /\ futures'[g].spec = futures[g].spec
                                   /\ futures'[g].value = futures[g].value
                                   /\ g # f => futures'[g].thread = futures[g].thread
  <2>1. futures[f] \in Future
    BY <1>2
  <2>2. PICK r \in Future : r = [futures[f] EXCEPT !.thread = "ends"]
    BY <2>1 DEF Future
  <2>3. r.spec = futures[f].spec /\ r.value = futures[f].value /\ r.thread = "ends"
    BY <2>1, <2>2 DEF Future
  <2>4. futures' = [futures EXCEPT ![f] = r]
    BY <1>1, <2>2
  <2> QED BY <1>2, <2>3, <2>4, FutureChanges
<1>4. FuturesInv'
  BY <1>1, <1>3 DEF PipeInv, FuturesInv
<1>5. CompilesInv'
  BY <1>1, <1>3 DEF PipeInv, CompilesInv
<1>6. RequestsInv'
  BY <1>1, <1>3 DEF PipeInv, RequestsInv
<1>7. AnswersInv'
  <2>1. \A s \in DOMAIN map : map[s] \in DOMAIN futures
    BY DEF PipeInv, FuturesInv
  <2> QED BY <1>1, <1>3, <2>1 DEF PipeInv, AnswersInv
<1>8. Kept' = Kept /\ Active("vertex")' = Active("vertex")
      /\ Active("fragment")' = Active("fragment")
  BY <1>1, <1>3 DEF Kept, Active
<1> QED BY <1>1, <1>3, <1>4, <1>5, <1>6, <1>7, <1>8 DEF PipeInv, PipeTypes, CountsInv

LEMMA PipeNextInv == PipeInv /\ [PipeNext]_pipeVars => PipeInv'
<1> SUFFICES ASSUME PipeInv, [PipeNext]_pipeVars PROVE PipeInv'
  OBVIOUS
<1>1. CASE ClientStep
  BY <1>1, GetPipelineInv, AwaitInv, ServiceInv DEF ClientStep
<1>2. CASE ThreadStep
  BY <1>2, ThreadAsksInv, CompilationInv, PipelineIsMadeInv, PipelineFailsInv DEF ThreadStep
<1>3. CASE UNCHANGED pipeVars
  BY <1>3 DEF pipeVars, cacheVars, factoryVars, compilerVars, PipeInv, PipeTypes, FuturesInv,
              RequestsInv, CompilesInv, AnswersInv, CountsInv, Kept, Active
<1> QED BY <1>1, <1>2, <1>3 DEF PipeNext

(* Threads may ask the cache for any pipelines at any time, whenever the   *)
(* factory is called and whichever shaders fail: each pipeline is made     *)
(* once and everybody gets the same one, or finds that it failed, and no   *)
(* compilation is active when all that was asked for has been answered     *)
(* (impl/vk/pipeline_cache.cc and impl/glsl_compiler.cc).                  *)
THEOREM PipelinesAreMadeOnce == PipeSpec => []PipelinesAreShared
<1>1. ASSUME PipeInv PROVE PipelinesAreShared
  <2>1. \A f, g \in DOMAIN futures : futures[f].spec = futures[g].spec => f = g
    BY <1>1 DEF PipeInv, FuturesInv
  <2>2. \A s \in DOMAIN map : futures[map[s]].spec = s
    BY <1>1 DEF PipeInv, FuturesInv
  <2>3. pipelines = Cardinality({f \in DOMAIN futures : futures[f].value # NoPipeline})
    BY <1>1 DEF PipeInv, CountsInv, Kept
  <2>4. ASSUME \A f \in DOMAIN futures : IsReady(f)
        PROVE  active_compile_count = 0
    <3>1. \A f \in DOMAIN compiles, s \in Stages : compiles[f][s] # "active"
      BY <1>1, <2>4 DEF PipeInv, CompilesInv, IsReady
    <3>2. Active("vertex") = {} /\ Active("fragment") = {}
      BY <3>1 DEF Active, Stages
    <3> QED BY <1>1, <3>2, FS_EmptySet DEF PipeInv, CountsInv
  <2>5. \A f \in DOMAIN futures : IsReady(f) =>
          (futures[f].value = NoPipeline <=> \E s \in Stages : compiles[f][s] = "failed")
    BY <1>1 DEF PipeInv, CompilesInv, IsReady
  <2>6. \A a, b \in answers : a[1] = b[1] => a[2] = b[2]
    BY <1>1 DEF PipeInv, AnswersInv
  <2> QED BY <2>1, <2>2, <2>3, <2>4, <2>5, <2>6 DEF PipelinesAreShared
<1> QED BY <1>1, PipeInitInv, PipeNextInv, PTL DEF PipeSpec
------------------------------------------------------------------------------
(* Objects that wobble.  Each buffer of a frame is copied to once and then *)
(* displaced once, and a frame waits for the kernels of all its objects.   *)
Submission == [work : {"copy", "compute", "draw"}, object : Objects \cup {Objects},
               frame : 0..MaxFrames, waits : SUBSET Nat]

Contents == [state : {"new", "copied", "displaced", "spoiled"}, whole : BOOLEAN,
             times : SUBSET Nat]

WobbleTypes ==
  /\ submissions \in Seq(Submission)
  /\ done \subseteq DOMAIN submissions /\ running \subseteq DOMAIN submissions
  /\ absorbing \subseteq Objects /\ frame \in 0..MaxFrames /\ model_time = frame
  /\ num_vertices \in [Objects -> Nat \ {0}] /\ uploaded \in [Objects -> Nat]
  /\ modified \in [Objects -> Nat]
  /\ compute_buffer \in [(1..MaxFrames) \X Objects -> Contents]

IsWork(k, work, o, f) ==
  /\ submissions[k].work = work
  /\ submissions[k].object = o
  /\ submissions[k].frame = f

ComputesOf(o, f) == {k \in DOMAIN submissions : IsWork(k, "compute", o, f)}
CopiesOf(o, f) == {k \in DOMAIN submissions : IsWork(k, "copy", o, f)}

WorkInv ==
  /\ \A o \in Objects, f \in 1..MaxFrames :
       /\ \A j, k \in CopiesOf(o, f) : j = k
       /\ \A j, k \in ComputesOf(o, f) : j = k
       /\ \A k \in ComputesOf(o, f) : \E j \in CopiesOf(o, f) : submissions[k].waits = {j}
       /\ f > frame \/ (f = frame /\ o \in absorbing) =>
            CopiesOf(o, f) = {} /\ ComputesOf(o, f) = {}
  /\ \A k \in DOMAIN submissions :
       IF submissions[k].work = "draw"
       THEN \A o \in Objects : \E j \in ComputesOf(o, submissions[k].frame) :
              j \in submissions[k].waits /\ submissions[k].frame \in 1..MaxFrames
       ELSE submissions[k].object \in Objects /\ submissions[k].frame \in 1..MaxFrames

ModifiedInv ==
  /\ frame = 0 => absorbing = {}
  /\ \A o \in Objects :
       modified[o] # 0 => modified[o] \in ComputesOf(o, frame) /\ frame \in 1..MaxFrames

(* What the kernel of an object finds and leaves in the buffer of a frame. *)
Late(o, f) ==
  compute_buffer[<<f, o>>].times # {} /\ compute_buffer[<<f, o>>].times \subseteq f..frame
Arrived(o, f) == uploaded[o] < f => compute_buffer[<<f, o>>].whole
Copied(o, f) == compute_buffer[<<f, o>>].state = "copied" /\ Arrived(o, f)
Displaced(o, f) ==
  /\ compute_buffer[<<f, o>>].state = "displaced" /\ Arrived(o, f) /\ Late(o, f)
  /\ num_vertices[o] % kLocalSize # 0 => o \in spilled

Handed(o, f, k) ==
  /\ k \in done => Displaced(o, f)
  /\ k \in running => Copied(o, f) /\ Late(o, f)
  /\ k \notin running \cup done /\ submissions[k].waits \subseteq done => Copied(o, f)

IsDrawn(d) ==
  /\ d.object \in Objects /\ d.frame \in 0..frame
  /\ DrawnDisplaced(d)
  /\ uploaded[d.object] < d.frame => d.vertices.whole
  /\ num_vertices[d.object] % kLocalSize # 0 => d.object \in spilled

BufferInv ==
  /\ \A k \in done : submissions[k].waits \subseteq done
  /\ \A k \in running : k \notin done /\ submissions[k].waits \subseteq done
                       /\ submissions[k].work = "compute"
  /\ \A o \in Objects, f \in 1..MaxFrames : \A k \in ComputesOf(o, f) : Handed(o, f, k)
  /\ \A o \in spilled : num_vertices[o] % kLocalSize # 0
  /\ \A d \in vertices_drawn : IsDrawn(d)

WobbleInv == WobbleTypes /\ WorkInv /\ ModifiedInv /\ BufferInv

(* The work groups of the kernel reach all vertices, and no others if the  *)
(* vertices make whole groups.                                             *)
LEMMA KernelReachesAll ==
  ASSUME NEW n \in Nat \ {0}
  PROVE  /\ Vertices(n) \subseteq Invocations(n)
         /\ Invocations(n) \subseteq Vertices(n) <=> n % kLocalSize = 0
<1>1. n = 32 * (n \div 32) + (n % 32) /\ n \div 32 \in Nat /\ n % 32 \in Nat
  OBVIOUS
<1> DEFINE q == n \div 32
           r == n % 32
<1> HIDE DEF q, r
<1>2. n = 32 * q + r /\ q \in Nat /\ r \in Nat
  BY <1>1 DEF q, r
<1>3. Invocations(n) = {idx \in 0 .. (q + r) * 32 - 1 : idx < n * 28}
  BY DEF Invocations, GroupCount, kLocalSize, VertexSize, q, r
<1>4. Vertices(n) \subseteq Invocations(n)
  <2>1. n <= (q + r) * 32 /\ (q + r) * 32 \in Nat
    BY <1>2
  <2> QED BY <1>3, <2>1 DEF Vertices
<1>5. ASSUME r = 0 PROVE Invocations(n) \subseteq Vertices(n)
  <2>1. (q + r) * 32 = n
    BY <1>2, <1>5
  <2> QED BY <1>3, <2>1 DEF Vertices
<1>6. ASSUME r # 0 PROVE ~(Invocations(n) \subseteq Vertices(n))
  <2>1. n < (q + r) * 32 /\ n < n * 28 /\ (q + r) * 32 \in Nat
    BY <1>2, <1>6
  <2>2. n \in Invocations(n)
    BY <1>3, <2>1
  <2> QED BY <2>2 DEF Vertices
<1>7. n % kLocalSize = r
  BY DEF kLocalSize, r
<1> QED BY <1>4, <1>5, <1>6, <1>7

(* A buffer with other contents. *)
LEMMA BufferChanges ==
  ASSUME NEW Buffers, compute_buffer \in [Buffers -> Contents], NEW b \in Buffers,
         NEW r \in Contents, compute_buffer' = [compute_buffer EXCEPT ![b] = r]
  PROVE  /\ compute_buffer' \in [Buffers -> Contents] /\ compute_buffer'[b] = r
         /\ \A c \in Buffers : c # b => compute_buffer'[c] = compute_buffer[c]
  OBVIOUS

(* Kernels were submitted in frames that have begun. *)
LEMMA KernelsHaveBegun ==
  ASSUME WobbleInv, NEW o \in Objects, NEW f \in 1..MaxFrames,
         ComputesOf(o, f) # {} \/ CopiesOf(o, f) # {}
  PROVE  f <= frame /\ f \in Nat /\ frame \in Nat
<1>1. ~(f > frame)
  BY DEF WobbleInv, WorkInv
<1> QED BY <1>1, WobbleAssumption DEF WobbleInv, WobbleTypes

LEMMA WobbleInitInv == WobbleInit => WobbleInv
<1> SUFFICES ASSUME WobbleInit PROVE WobbleInv
  OBVIOUS
<1>1. DOMAIN submissions = {} /\ done = {} /\ absorbing = {} /\ frame = 0
      /\ running = {} /\ spilled = {} /\ model_time = 0
      /\ vertices_drawn = {} /\ modified = [o \in Objects |-> 0]
  BY DEF WobbleInit
<1>2. WobbleTypes
  <2>1. submissions \in Seq(Submission)
    BY DEF WobbleInit
  <2>2. frame \in 0..MaxFrames /\ num_vertices \in [Objects -> Nat \ {0}]
        /\ modified \in [Objects -> Nat]
    <3>1. num_vertices \in [Objects -> NumVertices] /\ NumVertices \subseteq Nat \ {0}
      BY WobbleAssumption DEF WobbleInit
    <3>2. \A o \in Objects : num_vertices[o] \in Nat \ {0}
      BY <3>1
    <3> QED BY <3>1, <3>2, WobbleAssumption DEF WobbleInit
  <2>3. compute_buffer \in [(1..MaxFrames) \X Objects -> Contents]
    <3>1. NewBuffer \in Contents
      BY DEF NewBuffer, Contents
    <3> QED BY <3>1 DEF WobbleInit
  <2>4. uploaded \in [Objects -> Nat]
    BY WobbleAssumption DEF WobbleInit, Never
  <2> QED BY <1>1, <2>1, <2>2, <2>3, <2>4 DEF WobbleTypes
<1>3. \A o, f : ComputesOf(o, f) = {} /\ CopiesOf(o, f) = {}
  BY <1>1 DEF ComputesOf, CopiesOf
<1> QED BY <1>1, <1>2, <1>3 DEF WobbleInv, WorkInv, ModifiedInv, BufferInv

LEMMA BeginWobbleInv ==
  ASSUME WobbleInv, BeginWobbleFrame
  PROVE  WobbleInv'
<1> DEFINE Buffers == (1..MaxFrames) \X Objects
<1>1. /\ frame' = frame + 1 /\ absorbing' = Objects /\ model_time' = frame'
      /\ \A o \in Objects : modified[o] = 0
      /\ frame < MaxFrames
      /\ num_vertices' = num_vertices /\ submissions' = submissions /\ done' = done
      /\ modified' = modified /\ uploaded' = uploaded /\ running' = running
      /\ spilled' = spilled /\ vertices_drawn' = vertices_drawn
  BY DEF BeginWobbleFrame
<1>2. frame \in 0..MaxFrames
  BY DEF WobbleInv, WobbleTypes
<1>3. frame' \in 0..MaxFrames /\ frame' # 0 /\ frame' \in Nat
  BY <1>1, <1>2, WobbleAssumption
<1>4. \A f \in 1..MaxFrames : f >= frame' => f > frame
  BY <1>1, <1>2
<1>5. \A o, f : ComputesOf(o, f)' = ComputesOf(o, f) /\ CopiesOf(o, f)' = CopiesOf(o, f)
  BY <1>1 DEF ComputesOf, CopiesOf, IsWork
<1>6. \A f \in 1..MaxFrames : f > frame' \/ f = frame' => f > frame
  BY <1>1, <1>2, WobbleAssumption
<1>7. WorkInv'
  <2>1. \A o \in Objects, f \in 1..MaxFrames : f > frame' \/ (f = frame' /\ o \in absorbing') =>
            CopiesOf(o, f)' = {} /\ ComputesOf(o, f)' = {}
    BY <1>5, <1>6 DEF WobbleInv, WorkInv
  <2> QED BY <1>1, <1>5, <2>1 DEF WobbleInv, WorkInv
<1>8. compute_buffer \in [Buffers -> Contents]
  BY DEF WobbleInv, WobbleTypes
<1>9. /\ DOMAIN compute_buffer' = Buffers
      /\ \A b \in Buffers :
           \/ compute_buffer'[b] = compute_buffer[b]
           \/ compute_buffer'[b] = [compute_buffer[b] EXCEPT !.times = @ \cup {frame'}]
  <2>1. compute_buffer' = [b \in DOMAIN compute_buffer |->
          IF \E k \in running : BufferOf(k) = b
          THEN [compute_buffer[b] EXCEPT !.times = @ \cup {model_time'}] ELSE compute_buffer[b]]
    BY DEF BeginWobbleFrame
  <2>2. DOMAIN compute_buffer = Buffers
    BY <1>8
  <2> HIDE DEF Buffers
  <2> QED BY <1>1, <2>1, <2>2
<1>10. ASSUME NEW b \in Buffers
       PROVE  /\ compute_buffer'[b] \in Contents
              /\ compute_buffer'[b].state = compute_buffer[b].state
              /\ compute_buffer'[b].whole = compute_buffer[b].whole
              /\ compute_buffer'[b].times
                   \in {compute_buffer[b].times, compute_buffer[b].times \cup {frame'}}
  <2>1. compute_buffer[b] \in Contents
    BY <1>8
  <2> HIDE DEF Buffers
  <2>2. CASE compute_buffer'[b] = compute_buffer[b]
    BY <2>1, <2>2
  <2>3. CASE compute_buffer'[b] = [compute_buffer[b] EXCEPT !.times = @ \cup {frame'}]
    BY <1>3, <2>1, <2>3 DEF Contents
  <2> QED BY <1>9, <2>2, <2>3
<1>11. compute_buffer' \in [Buffers -> Contents]
  <2>1. compute_buffer' = [b \in Buffers |-> compute_buffer'[b]]
    BY <1>9 DEF BeginWobbleFrame
  <2> HIDE DEF Buffers
  <2> QED BY <1>10, <2>1
<1>12. WobbleTypes'
  BY <1>1, <1>3, <1>11 DEF WobbleInv, WobbleTypes
<1>13. ASSUME NEW o \in Objects, NEW f \in 1..MaxFrames, NEW k \in ComputesOf(o, f)
       PROVE  Handed(o, f, k)'
  <2>1. f <= frame /\ f \in Nat /\ frame \in Nat
    BY KernelsHaveBegun
  <2>2. <<f, o>> \in Buffers
    OBVIOUS
  <2> DEFINE old == compute_buffer[<<f, o>>]
             new == compute_buffer'[<<f, o>>]
  <2>3. /\ new.state = old.state /\ new.whole = old.whole
        /\ new.times \in {old.times, old.times \cup {frame'}}
    BY <1>10, <2>2
  <2>4. f..frame \subseteq f..frame' /\ frame' \in f..frame'
    BY <1>1, <1>3, <2>1
  <2>5. Arrived(o, f) => Arrived(o, f)'
    BY <1>1, <2>3 DEF Arrived
  <2>6. Late(o, f) => Late(o, f)'
    BY <2>3, <2>4 DEF Late
  <2>7. (Copied(o, f) => Copied(o, f)') /\ (Displaced(o, f) => Displaced(o, f)')
    BY <1>1, <2>3, <2>5, <2>6 DEF Copied, Displaced
  <2>8. Handed(o, f, k)
    BY DEF WobbleInv, BufferInv
  <2> QED BY ONLY <1>1, <2>6, <2>7, <2>8 DEF Handed
<1>14. ASSUME NEW d \in vertices_drawn PROVE IsDrawn(d)'
  <2>1. IsDrawn(d)
    BY DEF WobbleInv, BufferInv
  <2>2. 0..frame \subseteq 0..frame' /\ \A g \in 0..frame : g..frame \subseteq g..frame'
    BY <1>1, <1>2, <1>3
  <2> QED BY <1>1, <2>1, <2>2 DEF IsDrawn, DrawnDisplaced
<1>15. BufferInv'
  BY <1>1, <1>5, <1>13, <1>14 DEF WobbleInv, BufferInv
<1> QED BY <1>1, <1>3, <1>5, <1>7, <1>12, <1>15 DEF WobbleInv, ModifiedInv

LEMMA AbsorbWobbleInv ==
  ASSUME WobbleInv, NEW o \in Objects, AbsorbWobble(o)
  PROVE  WobbleInv'
<1> DEFINE c == Len(submissions) + 1
           d == c + 1
           copy == [work |-> "copy", object |-> o, frame |-> frame, waits |-> {}]
           compute == [work |-> "compute", object |-> o, frame |-> frame, waits |-> {c}]
<1>1. /\ o \in absorbing /\ absorbing' = absorbing \ {o}
      /\ submissions' = submissions \o <<copy, compute>>
      /\ modified' = [modified EXCEPT ![o] = d]
      /\ frame' = frame /\ num_vertices' = num_vertices /\ model_time' = model_time
      /\ gpuVars' = gpuVars
  BY DEF AbsorbWobble
<1>1a. /\ done' = done /\ running' = running /\ uploaded' = uploaded /\ spilled' = spilled
       /\ compute_buffer' = compute_buffer /\ vertices_drawn' = vertices_drawn
  BY <1>1 DEF gpuVars
<1>2. /\ submissions \in Seq(Submission) /\ frame \in 0..MaxFrames
      /\ frame # 0 /\ modified \in [Objects -> Nat]
  BY <1>1 DEF WobbleInv, WobbleTypes, ModifiedInv
<1>3. frame \in 1..MaxFrames /\ c \in Nat /\ d \in Nat /\ d # 0 /\ c # d
  BY <1>2
<1>4. copy \in Submission /\ compute \in Submission
  BY <1>2, <1>3 DEF Submission
<1>5. /\ submissions' \in Seq(Submission)
      /\ submissions'[c] = copy /\ submissions'[d] = compute
      /\ \A k \in DOMAIN submissions : submissions'[k] = submissions[k]
      /\ DOMAIN submissions' = DOMAIN submissions \cup {c, d}
      /\ c \notin DOMAIN submissions /\ d \notin DOMAIN submissions
  <2>1. <<copy, compute>> \in Seq(Submission)
    BY <1>4
  <2> HIDE DEF copy, compute
  <2> QED BY <1>1, <1>2, <2>1
<1>6. /\ copy.work = "copy" /\ copy.object = o /\ copy.frame = frame
      /\ compute.work = "compute" /\ compute.object = o /\ compute.frame = frame
      /\ compute.waits = {c}
  OBVIOUS
<1> HIDE DEF c, d, copy, compute
<1>7. \A p \in Objects, f \in 1..MaxFrames :
        /\ CopiesOf(p, f)' = IF p = o /\ f = frame THEN CopiesOf(p, f) \cup {c} ELSE CopiesOf(p, f)
        /\ ComputesOf(p, f)' = IF p = o /\ f = frame THEN ComputesOf(p, f) \cup {d}
                                                     ELSE ComputesOf(p, f)
  BY <1>5, <1>6 DEF CopiesOf, ComputesOf, IsWork
<1>8. CopiesOf(o, frame) = {} /\ ComputesOf(o, frame) = {}
  BY <1>1, <1>3 DEF WobbleInv, WorkInv
<1>9. WobbleTypes'
  BY <1>1, <1>1a, <1>2, <1>3, <1>5 DEF WobbleInv, WobbleTypes
<1>10. WorkInv'
  <2>1. ASSUME NEW p \in Objects, NEW f \in 1..MaxFrames
        PROVE  /\ \A j, k \in CopiesOf(p, f)' : j = k
               /\ \A j, k \in ComputesOf(p, f)' : j = k
               /\ \A k \in ComputesOf(p, f)' : \E j \in CopiesOf(p, f)' : submissions'[k].waits = {j}
               /\ f > frame' \/ (f = frame' /\ p \in absorbing') =>
                    CopiesOf(p, f)' = {} /\ ComputesOf(p, f)' = {}
    <3>1. CASE p = o /\ f = frame
      <4>1. CopiesOf(p, f)' = {c} /\ ComputesOf(p, f)' = {d}
        BY <1>7, <1>8, <3>1
      <4>2. ~(f > frame')
        BY <1>1, <1>3, <3>1
      <4> QED BY <1>1, <1>5, <1>6, <3>1, <4>1, <4>2
    <3>2. CASE ~(p = o /\ f = frame)
      <4>1. CopiesOf(p, f)' = CopiesOf(p, f) /\ ComputesOf(p, f)' = ComputesOf(p, f)
        BY <1>7, <3>2
      <4>2. \A k \in ComputesOf(p, f) : submissions'[k] = submissions[k]
        BY <1>5 DEF ComputesOf
      <4>3. /\ \A j, k \in CopiesOf(p, f) : j = k
            /\ \A j, k \in ComputesOf(p, f) : j = k
            /\ \A k \in ComputesOf(p, f) : \E j \in CopiesOf(p, f) : submissions[k].waits = {j}
            /\ f > frame \/ (f = frame /\ p \in absorbing) =>
                 CopiesOf(p, f) = {} /\ ComputesOf(p, f) = {}
        BY DEF WobbleInv, WorkInv
      <4>4. p \in absorbing' => p \in absorbing
        BY <1>1
      <4> QED BY <1>1, <4>1, <4>2, <4>3, <4>4
    <3> QED BY <3>1, <3>2
  <2>2. ASSUME NEW k \in DOMAIN submissions'
        PROVE  IF submissions'[k].work = "draw"
               THEN \A p \in Objects : \E j \in ComputesOf(p, submissions[k].frame)' :
                      j \in submissions'[k].waits /\ submissions'[k].frame \in 1..MaxFrames
               ELSE submissions'[k].object \in Objects /\ submissions'[k].frame \in 1..MaxFrames
    <3>1. CASE k \in {c, d}
      BY <1>3, <1>5, <1>6, <3>1
    <3>2. CASE k \in DOMAIN submissions
      <4>1. submissions'[k] = submissions[k]
        BY <1>5, <3>2
      <4>2. \A p \in Objects, f \in 1..MaxFrames : ComputesOf(p, f) \subseteq ComputesOf(p, f)'
        BY <1>7
      <4> QED BY <3>2, <4>1, <4>2 DEF WobbleInv, WorkInv
    <3> QED BY <1>5, <3>1, <3>2
  <2> QED BY <2>1, <2>2 DEF WorkInv
<1>11. ModifiedInv'
  <2>1. \A p \in Objects : modified'[p] = IF p = o THEN d ELSE modified[p]
    BY <1>1, <1>2
  <2> QED BY <1>1, <1>2, <1>3, <1>7, <2>1 DEF WobbleInv, ModifiedInv
<1>12. BufferInv'
  <2>1. \A k \in done \cup running : k \in DOMAIN submissions /\ submissions'[k] = submissions[k]
    BY <1>5 DEF WobbleInv, WobbleTypes
  <2>2. ASSUME NEW p \in Objects, NEW f \in 1..MaxFrames, NEW k \in ComputesOf(p, f)'
        PROVE  Handed(p, f, k)'
    <3>1. c \notin done /\ d \notin done /\ d \notin running
      BY <1>5, <2>1
    <3>2. CASE k = d
      <4>1. ~(submissions'[k].waits \subseteq done')
        BY <1>1a, <1>5, <1>6, <3>1, <3>2
      <4> QED BY <1>1a, <3>1, <3>2, <4>1 DEF Handed
    <3>3. CASE k \in ComputesOf(p, f)
      <4>1. Handed(p, f, k) /\ submissions'[k] = submissions[k]
        BY <1>5, <3>3 DEF ComputesOf, WobbleInv, BufferInv
      <4> QED BY <1>1, <1>1a, <4>1 DEF Handed, Copied, Displaced, Arrived, Late
    <3> QED BY <1>7, <3>2, <3>3
  <2>3. \A v \in vertices_drawn : IsDrawn(v)'
    BY <1>1, <1>1a DEF WobbleInv, BufferInv, IsDrawn, DrawnDisplaced
  <2> QED BY <1>1, <1>1a, <2>1, <2>2, <2>3 DEF WobbleInv, BufferInv
<1> QED BY <1>9, <1>10, <1>11, <1>12 DEF WobbleInv

LEMMA DrawWobbleInv ==
  ASSUME WobbleInv, DrawWobbleFrame
  PROVE  WobbleInv'
<1> DEFINE e == Len(submissions) + 1
           draw == [work |-> "draw", object |-> Objects, frame |-> frame,
                    waits |-> {modified[o] : o \in Objects}]
<1>1. /\ absorbing = {} /\ \A o \in Objects : modified[o] # 0
      /\ submissions' = Append(submissions, draw)
      /\ modified' = [o \in Objects |-> 0]
      /\ absorbing' = absorbing
      /\ frame' = frame /\ num_vertices' = num_vertices /\ model_time' = model_time
      /\ gpuVars' = gpuVars
  BY DEF DrawWobbleFrame
<1>1a. /\ done' = done /\ running' = running /\ uploaded' = uploaded /\ spilled' = spilled
       /\ compute_buffer' = compute_buffer /\ vertices_drawn' = vertices_drawn
  BY <1>1 DEF gpuVars
<1>2. /\ submissions \in Seq(Submission) /\ frame \in 0..MaxFrames
      /\ modified \in [Objects -> Nat]
  BY DEF WobbleInv, WobbleTypes
<1>3. draw \in Submission
  BY <1>2 DEF Submission
<1>4. /\ draw.work = "draw" /\ draw.frame = frame
      /\ draw.waits = {modified[o] : o \in Objects}
  OBVIOUS
<1> HIDE DEF draw
<1>5. /\ submissions' \in Seq(Submission)
      /\ submissions'[e] = draw
      /\ \A k \in DOMAIN submissions : submissions'[k] = submissions[k]
      /\ DOMAIN submissions' = DOMAIN submissions \cup {e} /\ e \notin DOMAIN submissions
  BY <1>1, <1>2, <1>3
<1> HIDE DEF e
<1>6. \A o, f : CopiesOf(o, f)' = CopiesOf(o, f) /\ ComputesOf(o, f)' = ComputesOf(o, f)
  BY <1>4, <1>5 DEF CopiesOf, ComputesOf, IsWork
<1>7. \A o, f : \A k \in ComputesOf(o, f) : submissions'[k] = submissions[k]
  BY <1>5 DEF ComputesOf
<1>8. WobbleTypes'
  <2>1. modified' \in [Objects -> Nat]
    BY <1>1
  <2> QED BY <1>1, <1>1a, <1>5, <2>1 DEF WobbleInv, WobbleTypes
<1>9. WorkInv'
  <2>1. ASSUME NEW o \in Objects
        PROVE  modified[o] \in ComputesOf(o, frame) /\ frame \in 1..MaxFrames
               /\ modified[o] \in draw.waits
    BY <1>1, <1>4 DEF WobbleInv, ModifiedInv
  <2>2. ASSUME NEW k \in DOMAIN submissions'
        PROVE  IF submissions'[k].work = "draw"
               THEN \A o \in Objects : \E j \in ComputesOf(o, submissions[k].frame)' :
                      j \in submissions'[k].waits /\ submissions'[k].frame \in 1..MaxFrames
               ELSE submissions'[k].object \in Objects /\ submissions'[k].frame \in 1..MaxFrames
    <3>1. CASE k = e
      BY <1>4, <1>5, <1>6, <2>1, <3>1
    <3>2. CASE k \in DOMAIN submissions
      BY <1>5, <1>6, <3>2 DEF WobbleInv, WorkInv
    <3> QED BY <1>5, <3>1, <3>2
  <2>3. \A o \in Objects, f \in 1..MaxFrames :
          /\ \A j, k \in CopiesOf(o, f)' : j = k
          /\ \A j, k \in ComputesOf(o, f)' : j = k
          /\ \A k \in ComputesOf(o, f)' : \E j \in CopiesOf(o, f)' : submissions'[k].waits = {j}
          /\ f > frame' \/ (f = frame' /\ o \in absorbing') =>
               CopiesOf(o, f)' = {} /\ ComputesOf(o, f)' = {}
    <3> SUFFICES ASSUME NEW o \in Objects, NEW f \in 1..MaxFrames
                 PROVE  /\ \A j, k \in CopiesOf(o, f)' : j = k
                        /\ \A j, k \in ComputesOf(o, f)' : j = k
                        /\ \A k \in ComputesOf(o, f)' : \E j \in CopiesOf(o, f)' :
                             submissions'[k].waits = {j}
                        /\ f > frame' \/ (f = frame' /\ o \in absorbing') =>
                             CopiesOf(o, f)' = {} /\ ComputesOf(o, f)' = {}
      OBVIOUS
    <3>1. /\ \A j, k \in CopiesOf(o, f) : j = k
          /\ \A j, k \in ComputesOf(o, f) : j = k
          /\ \A k \in ComputesOf(o, f) : \E j \in CopiesOf(o, f) : submissions[k].waits = {j}
          /\ f > frame \/ (f = frame /\ o \in absorbing) =>
               CopiesOf(o, f) = {} /\ ComputesOf(o, f) = {}
      BY DEF WobbleInv, WorkInv
    <3>2. CopiesOf(o, f)' = CopiesOf(o, f) /\ ComputesOf(o, f)' = ComputesOf(o, f)
      BY <1>6
    <3>3. \A k \in ComputesOf(o, f) : submissions'[k] = submissions[k]
      BY <1>7
    <3>4. frame' = frame /\ absorbing' = absorbing
      BY <1>1
    <3> QED BY <3>1, <3>2, <3>3, <3>4
  <2> QED BY <2>2, <2>3 DEF WorkInv
<1>10. ModifiedInv'
  BY <1>1 DEF WobbleInv, ModifiedInv
<1>11. BufferInv'
  <2>1. \A k \in done \cup running : k \in DOMAIN submissions /\ submissions'[k] = submissions[k]
    BY <1>5 DEF WobbleInv, WobbleTypes
  <2>2. ASSUME NEW o \in Objects, NEW f \in 1..MaxFrames, NEW k \in ComputesOf(o, f)'
        PROVE  Handed(o, f, k)'
    <3>1. k \in ComputesOf(o, f) /\ submissions'[k] = submissions[k]
      BY <1>6, <1>7
    <3>2. Handed(o, f, k)
      BY <3>1 DEF WobbleInv, BufferInv
    <3> QED BY <1>1, <1>1a, <3>1, <3>2 DEF Handed, Copied, Displaced, Arrived, Late
  <2>3. \A v \in vertices_drawn : IsDrawn(v)'
    BY <1>1, <1>1a DEF WobbleInv, BufferInv, IsDrawn, DrawnDisplaced
  <2> QED BY <1>1, <1>1a, <2>1, <2>2, <2>3 DEF WobbleInv, BufferInv
<1> QED BY <1>8, <1>9, <1>10, <1>11 DEF WobbleInv

LEMMA MeshArrivesInv ==
  ASSUME WobbleInv, NEW o \in Objects, MeshArrives(o)
  PROVE  WobbleInv'
<1>1. /\ uploaded' = [uploaded EXCEPT ![o] = frame]
      /\ cpuVars' = cpuVars /\ done' = done /\ running' = running /\ spilled' = spilled
      /\ compute_buffer' = compute_buffer /\ vertices_drawn' = vertices_drawn
  BY DEF MeshArrives
<1>2. /\ absorbing' = absorbing /\ frame' = frame /\ num_vertices' = num_vertices
      /\ submissions' = submissions /\ modified' = modified /\ model_time' = model_time
  BY <1>1 DEF cpuVars
<1>3. uploaded \in [Objects -> Nat] /\ frame \in Nat
  BY WobbleAssumption DEF WobbleInv, WobbleTypes
<1>4. uploaded' \in [Objects -> Nat]
      /\ \A p \in Objects : uploaded'[p] = IF p = o THEN frame ELSE uploaded[p]
  BY <1>1, <1>3
<1>5. \A p, f : ComputesOf(p, f)' = ComputesOf(p, f) /\ CopiesOf(p, f)' = CopiesOf(p, f)
  BY <1>2 DEF ComputesOf, CopiesOf, IsWork
<1>6. WobbleTypes' /\ WorkInv' /\ ModifiedInv'
  <2>1. WobbleTypes'
    BY <1>1, <1>2, <1>4 DEF WobbleInv, WobbleTypes
  <2>2. WorkInv'
    BY <1>2, <1>5 DEF WobbleInv, WorkInv
  <2>3. ModifiedInv'
    BY <1>2, <1>5 DEF WobbleInv, ModifiedInv
  <2> QED BY <2>1, <2>2, <2>3
<1>7. ASSUME NEW p \in Objects, NEW f \in 1..MaxFrames, NEW k \in ComputesOf(p, f)
      PROVE  Handed(p, f, k)'
  <2>1. f <= frame /\ f \in Nat /\ Handed(p, f, k)
    BY KernelsHaveBegun DEF WobbleInv, BufferInv
  <2>2. Arrived(p, f) => Arrived(p, f)'
    <3>1. uploaded'[p] < f => uploaded[p] < f
      BY <1>3, <1>4, <2>1
    <3> QED BY <1>1, <3>1 DEF Arrived
  <2>3. Late(p, f)' = Late(p, f)
    BY <1>1, <1>2 DEF Late
  <2>4. (Copied(p, f) => Copied(p, f)') /\ (Displaced(p, f) => Displaced(p, f)')
    BY <1>1, <1>2, <2>2, <2>3 DEF Copied, Displaced
  <2> QED BY ONLY <1>1, <1>2, <2>1, <2>3, <2>4 DEF Handed
<1>8. ASSUME NEW d \in vertices_drawn PROVE IsDrawn(d)'
  <2>1. IsDrawn(d)
    BY DEF WobbleInv, BufferInv
  <2>2. uploaded'[d.object] < d.frame => uploaded[d.object] < d.frame
    BY <1>3, <1>4, <2>1 DEF IsDrawn
  <2> QED BY <1>1, <1>2, <2>1, <2>2 DEF IsDrawn, DrawnDisplaced
<1>9. BufferInv'
  BY <1>1, <1>2, <1>5, <1>7, <1>8 DEF WobbleInv, BufferInv
<1> QED BY <1>6, <1>9 DEF WobbleInv

(* What every step of the GPU but the arrival of a mesh leaves as it is. *)
LEMMA GpuLeavesTheHost ==
  ASSUME WobbleInv, UNCHANGED cpuVars, UNCHANGED uploaded
  PROVE  /\ absorbing' = absorbing /\ frame' = frame /\ num_vertices' = num_vertices
         /\ submissions' = submissions /\ modified' = modified /\ model_time' = model_time
         /\ \A p, g : CopiesOf(p, g)' = CopiesOf(p, g) /\ ComputesOf(p, g)' = ComputesOf(p, g)
         /\ WorkInv' /\ ModifiedInv'
<1>1. /\ absorbing' = absorbing /\ frame' = frame /\ num_vertices' = num_vertices
      /\ submissions' = submissions /\ modified' = modified /\ model_time' = model_time
  BY DEF cpuVars
<1>2. \A p, g : CopiesOf(p, g)' = CopiesOf(p, g) /\ ComputesOf(p, g)' = ComputesOf(p, g)
  BY <1>1 DEF CopiesOf, ComputesOf, IsWork
<1>3. WorkInv'
  BY <1>1, <1>2 DEF WobbleInv, WorkInv
<1>4. ModifiedInv'
  BY <1>1, <1>2 DEF WobbleInv, ModifiedInv
<1> QED BY <1>1, <1>2, <1>3, <1>4

(* Buffers of other frames and objects stay handed on as they were. *)
LEMMA OthersStayHanded ==
  ASSUME WobbleInv, NEW o \in Objects, NEW f \in 1..MaxFrames, NEW k \in ComputesOf(o, f),
         frame' = frame, num_vertices' = num_vertices, uploaded' = uploaded,
         submissions' = submissions, compute_buffer'[<<f, o>>] = compute_buffer[<<f, o>>],
         spilled \subseteq spilled', done \subseteq done',
         k \in done' <=> k \in done, k \in running' <=> k \in running,
         submissions[k].waits \subseteq done' <=> submissions[k].waits \subseteq done
  PROVE  Handed(o, f, k)'
<1>1. Handed(o, f, k)
  BY DEF WobbleInv, BufferInv
<1>2. Arrived(o, f)' = Arrived(o, f) /\ Late(o, f)' = Late(o, f)
  BY DEF Arrived, Late
<1>3. (Copied(o, f) => Copied(o, f)') /\ (Displaced(o, f) => Displaced(o, f)')
  BY <1>2 DEF Copied, Displaced
<1> QED BY <1>1, <1>2, <1>3 DEF Handed

LEMMA GpuCopiesInv ==
  ASSUME WobbleInv, NEW k \in DOMAIN submissions, GpuExecutesWobble(k), GpuCopies(k)
  PROVE  WobbleInv'
<1> DEFINE o == submissions[k].object
           f == submissions[k].frame
           Buffers == (1..MaxFrames) \X Objects
           r == [state |-> "copied", whole |-> uploaded[o] # Never, times |-> {}]
<1>1. /\ k \notin done /\ submissions[k].waits \subseteq done /\ done' = done \cup {k}
      /\ UNCHANGED cpuVars /\ UNCHANGED uploaded
      /\ running' = running /\ spilled' = spilled /\ vertices_drawn' = vertices_drawn
      /\ submissions[k].work = "copy"
      /\ compute_buffer' = [compute_buffer EXCEPT ![<<f, o>>] = r]
  BY DEF GpuExecutesWobble, GpuCopies, BufferOf
<1>2. o \in Objects /\ f \in 1..MaxFrames
  BY <1>1 DEF WobbleInv, WorkInv
<1>3. k \in CopiesOf(o, f)
  BY <1>1 DEF CopiesOf, IsWork
<1>4. /\ frame' = frame /\ num_vertices' = num_vertices /\ submissions' = submissions
      /\ WorkInv' /\ ModifiedInv' /\ absorbing' = absorbing /\ modified' = modified
      /\ model_time' = model_time /\ uploaded' = uploaded
      /\ \A p, g : ComputesOf(p, g)' = ComputesOf(p, g)
  BY <1>1, GpuLeavesTheHost
<1>5. r \in Contents /\ r.state = "copied" /\ (r.whole <=> uploaded[o] # Never)
  BY DEF Contents
<1> HIDE DEF r
<1>6. compute_buffer \in [Buffers -> Contents] /\ <<f, o>> \in Buffers
  BY <1>2 DEF WobbleInv, WobbleTypes
<1>7. /\ compute_buffer' \in [Buffers -> Contents] /\ compute_buffer'[<<f, o>>] = r
      /\ \A c \in Buffers : c # <<f, o>> => compute_buffer'[c] = compute_buffer[c]
  BY <1>1, <1>5, <1>6, BufferChanges
<1>8. WobbleTypes'
  <2>1. done' \subseteq DOMAIN submissions
    BY <1>1 DEF WobbleInv, WobbleTypes
  <2> QED BY <1>1, <1>4, <1>7, <2>1 DEF WobbleInv, WobbleTypes
<1> HIDE DEF o, f
<1>9. ASSUME NEW p \in Objects, NEW g \in 1..MaxFrames, NEW c \in ComputesOf(p, g)
      PROVE  Handed(p, g, c)'
  <2>1. PICK j \in CopiesOf(p, g) : submissions[c].waits = {j}
    BY DEF WobbleInv, WorkInv
  <2>2. c # k
    BY <1>3 DEF ComputesOf, CopiesOf, IsWork
  <2>3. CASE p = o /\ g = f
    <3>1. j = k
      BY <1>2, <1>3, <2>1, <2>3 DEF WobbleInv, WorkInv
    <3>2. c \notin done /\ c \notin running
      BY <1>1, <2>1, <3>1 DEF WobbleInv, BufferInv
    <3>3. uploaded[o] < f => uploaded[o] # Never
      BY <1>2, WobbleAssumption DEF Never, WobbleInv, WobbleTypes
    <3>4. Copied(p, g)'
      BY <1>4, <1>5, <1>7, <2>3, <3>3 DEF Copied, Arrived
    <3> QED BY <1>1, <2>2, <3>2, <3>4 DEF Handed
  <2>4. CASE ~(p = o /\ g = f)
    <3>1. j # k
      BY <1>3, <2>1, <2>4 DEF CopiesOf, IsWork
    <3>2. <<g, p>> \in Buffers /\ <<g, p>> # <<f, o>>
      BY <2>4
    <3>3. compute_buffer'[<<g, p>>] = compute_buffer[<<g, p>>]
      BY <1>7, <3>2
    <3>4. (c \in done' <=> c \in done) /\ (c \in running' <=> c \in running)
          /\ (submissions[c].waits \subseteq done' <=> submissions[c].waits \subseteq done)
      BY <1>1, <2>1, <2>2, <3>1
    <3> QED BY <1>1, <1>4, <3>3, <3>4, OthersStayHanded
  <2> QED BY <2>3, <2>4
<1>10. \A d \in vertices_drawn : IsDrawn(d)'
  BY <1>1, <1>4 DEF WobbleInv, BufferInv, IsDrawn, DrawnDisplaced
<1>11. BufferInv'
  <2>1. \A j \in running : j # k
    BY <1>1 DEF WobbleInv, BufferInv
  <2> QED BY <1>1, <1>4, <1>9, <1>10, <2>1 DEF WobbleInv, BufferInv
<1> QED BY <1>4, <1>8, <1>11 DEF WobbleInv

LEMMA GpuStartsKernelInv ==
  ASSUME WobbleInv, NEW k \in DOMAIN submissions, GpuStartsKernel(k)
  PROVE  WobbleInv'
<1> DEFINE o == submissions[k].object
           f == submissions[k].frame
           Buffers == (1..MaxFrames) \X Objects
           old == compute_buffer[<<f, o>>]
<1>1. /\ k \notin done /\ k \notin running /\ submissions[k].waits \subseteq done
      /\ running' = running \cup {k}
      /\ UNCHANGED cpuVars /\ UNCHANGED uploaded
      /\ done' = done /\ spilled' = spilled /\ vertices_drawn' = vertices_drawn
      /\ submissions[k].work = "compute"
      /\ compute_buffer' = [compute_buffer EXCEPT ![<<f, o>>].times = {model_time}]
  BY DEF GpuStartsKernel, BufferOf
<1>2. o \in Objects /\ f \in 1..MaxFrames
  BY <1>1 DEF WobbleInv, WorkInv
<1>3. k \in ComputesOf(o, f)
  BY <1>1 DEF ComputesOf, IsWork
<1>4. /\ frame' = frame /\ num_vertices' = num_vertices /\ submissions' = submissions
      /\ WorkInv' /\ ModifiedInv' /\ absorbing' = absorbing /\ modified' = modified
      /\ model_time' = model_time /\ uploaded' = uploaded
      /\ \A p, g : ComputesOf(p, g)' = ComputesOf(p, g)
  BY <1>1, GpuLeavesTheHost
<1>5. f <= frame /\ f \in Nat /\ frame \in Nat
  BY <1>2, <1>3, KernelsHaveBegun
<1>6. compute_buffer \in [Buffers -> Contents] /\ <<f, o>> \in Buffers /\ model_time = frame
  BY <1>2 DEF WobbleInv, WobbleTypes
<1>7. PICK r \in Contents : r = [old EXCEPT !.times = {model_time}]
  <2>1. old \in Contents
    BY <1>6
  <2> HIDE DEF old
  <2> QED BY <1>5, <1>6, <2>1 DEF Contents
<1>8. r.state = old.state /\ r.whole = old.whole /\ r.times = {frame}
  <2>1. old \in Contents
    BY <1>6
  <2> HIDE DEF old
  <2> QED BY <1>6, <1>7, <2>1 DEF Contents
<1>9. compute_buffer' = [compute_buffer EXCEPT ![<<f, o>>] = r]
  BY <1>1, <1>7
<1>10. /\ compute_buffer' \in [Buffers -> Contents] /\ compute_buffer'[<<f, o>>] = r
       /\ \A c \in Buffers : c # <<f, o>> => compute_buffer'[c] = compute_buffer[c]
  BY <1>6, <1>9, BufferChanges
<1>11. WobbleTypes'
  <2>1. running' \subseteq DOMAIN submissions
    BY <1>1 DEF WobbleInv, WobbleTypes
  <2> QED BY <1>1, <1>4, <1>10, <2>1 DEF WobbleInv, WobbleTypes
<1>12. Copied(o, f)
  <2>1. Handed(o, f, k)
    BY <1>2, <1>3 DEF WobbleInv, BufferInv
  <2> QED BY <1>1, <2>1 DEF Handed
<1>13. Copied(o, f)' /\ Late(o, f)'
  <2>1. Copied(o, f)'
    BY <1>4, <1>8, <1>10, <1>12 DEF Copied, Arrived
  <2>2. frame \in f..frame
    BY <1>5
  <2>3. Late(o, f)'
    BY <1>4, <1>8, <1>10, <2>2 DEF Late
  <2> QED BY <2>1, <2>3
<1>13a. o' = o /\ f' = f
  BY <1>4
<1> HIDE DEF o, f, old
<1>14. ASSUME NEW p \in Objects, NEW g \in 1..MaxFrames, NEW c \in ComputesOf(p, g)
       PROVE  Handed(p, g, c)'
  <2>1. CASE p = o /\ g = f
    <3>1. c = k
      BY <1>2, <1>3, <2>1 DEF WobbleInv, WorkInv
    <3>2. Copied(p, g)' /\ Late(p, g)'
      BY <1>13, <1>13a, <2>1
    <3> QED BY <1>1, <3>1, <3>2 DEF Handed
  <2>2. CASE ~(p = o /\ g = f)
    <3>1. c # k
      BY <1>3, <2>2 DEF ComputesOf, IsWork
    <3>2. <<g, p>> \in Buffers /\ <<g, p>> # <<f, o>>
      BY <2>2
    <3>3. compute_buffer'[<<g, p>>] = compute_buffer[<<g, p>>]
      BY <1>10, <3>2
    <3> QED BY <1>1, <1>4, <3>1, <3>3, OthersStayHanded
  <2> QED BY <2>1, <2>2
<1>15. \A d \in vertices_drawn : IsDrawn(d)'
  BY <1>1, <1>4 DEF WobbleInv, BufferInv, IsDrawn, DrawnDisplaced
<1>16. BufferInv'
  BY <1>1, <1>4, <1>14, <1>15 DEF WobbleInv, BufferInv
<1> QED BY <1>4, <1>11, <1>16 DEF WobbleInv

LEMMA GpuDisplacesInv ==
  ASSUME WobbleInv, NEW k \in DOMAIN submissions, GpuExecutesWobble(k), GpuDisplaces(k)
  PROVE  WobbleInv'
<1> DEFINE o == submissions[k].object
           f == submissions[k].frame
           n == num_vertices[o]
           Buffers == (1..MaxFrames) \X Objects
           old == compute_buffer[<<f, o>>]
<1>1. /\ k \notin done /\ submissions[k].waits \subseteq done /\ done' = done \cup {k}
      /\ UNCHANGED cpuVars /\ UNCHANGED uploaded
      /\ k \in running /\ running' = running \ {k}
      /\ vertices_drawn' = vertices_drawn
      /\ spilled' = IF Invocations(n) \subseteq Vertices(n) THEN spilled ELSE spilled \cup {o}
      /\ submissions[k].work = "compute"
      /\ compute_buffer' = [compute_buffer EXCEPT ![<<f, o>>].state =
           IF @ = "copied" /\ old.times # {} /\ Vertices(n) \subseteq Invocations(n)
           THEN "displaced" ELSE "spoiled"]
  BY DEF GpuExecutesWobble, GpuDisplaces, BufferOf
<1>2. o \in Objects /\ f \in 1..MaxFrames
  BY <1>1 DEF WobbleInv, WorkInv
<1>3. k \in ComputesOf(o, f)
  BY <1>1 DEF ComputesOf, IsWork
<1>4. /\ frame' = frame /\ num_vertices' = num_vertices /\ submissions' = submissions
      /\ WorkInv' /\ ModifiedInv' /\ absorbing' = absorbing /\ modified' = modified
      /\ model_time' = model_time /\ uploaded' = uploaded
      /\ \A p, g : ComputesOf(p, g)' = ComputesOf(p, g)
  BY <1>1, GpuLeavesTheHost
<1>5. Copied(o, f) /\ Late(o, f)
  <2>1. Handed(o, f, k)
    BY <1>2, <1>3 DEF WobbleInv, BufferInv
  <2> QED BY <1>1, <2>1 DEF Handed
<1>6. compute_buffer \in [Buffers -> Contents] /\ <<f, o>> \in Buffers
  BY <1>2 DEF WobbleInv, WobbleTypes
<1>7. n \in Nat \ {0}
  BY <1>2 DEF WobbleInv, WobbleTypes
<1>8. /\ Vertices(n) \subseteq Invocations(n)
      /\ Invocations(n) \subseteq Vertices(n) <=> n % kLocalSize = 0
  BY <1>7, KernelReachesAll
<1>9. old.state = "copied" /\ old.times # {}
  BY <1>5 DEF Copied, Late
<1>10. PICK r \in Contents : r = [old EXCEPT !.state = "displaced"]
  <2>1. old \in Contents
    BY <1>6
  <2> HIDE DEF old
  <2> QED BY <2>1 DEF Contents
<1>11. r.state = "displaced" /\ r.whole = old.whole /\ r.times = old.times
  <2>1. old \in Contents
    BY <1>6
  <2> HIDE DEF old
  <2> QED BY <1>10, <2>1 DEF Contents
<1>12. compute_buffer' = [compute_buffer EXCEPT ![<<f, o>>] = r]
  BY <1>1, <1>8, <1>9, <1>10
<1>13. /\ compute_buffer' \in [Buffers -> Contents] /\ compute_buffer'[<<f, o>>] = r
       /\ \A c \in Buffers : c # <<f, o>> => compute_buffer'[c] = compute_buffer[c]
  BY <1>6, <1>12, BufferChanges
<1>14. WobbleTypes'
  <2>1. done' \subseteq DOMAIN submissions /\ running' \subseteq DOMAIN submissions
    BY <1>1 DEF WobbleInv, WobbleTypes
  <2> QED BY <1>1, <1>4, <1>13, <2>1 DEF WobbleInv, WobbleTypes
<1>15. /\ spilled \subseteq spilled' /\ (n % kLocalSize # 0 => o \in spilled')
       /\ \A p \in spilled' : p \in spilled \/ (p = o /\ n % kLocalSize # 0)
  BY <1>1, <1>8
<1>16. Displaced(o, f)'
  <2>1. Arrived(o, f)' /\ Late(o, f)'
    BY <1>4, <1>5, <1>11, <1>13 DEF Copied, Arrived, Late
  <2> QED BY <1>4, <1>11, <1>13, <1>15, <2>1 DEF Displaced
<1>16a. o' = o /\ f' = f
  BY <1>4
<1> HIDE DEF o, f, n, old
<1>17. ASSUME NEW p \in Objects, NEW g \in 1..MaxFrames, NEW c \in ComputesOf(p, g)
       PROVE  Handed(p, g, c)'
  <2>1. CASE p = o /\ g = f
    <3>1. c = k
      BY <1>2, <1>3, <2>1 DEF WobbleInv, WorkInv
    <3>2. Displaced(p, g)'
      BY <1>16, <1>16a, <2>1
    <3> QED BY <1>1, <3>1, <3>2 DEF Handed
  <2>2. CASE ~(p = o /\ g = f)
    <3>1. c # k
      BY <1>3, <2>2 DEF ComputesOf, IsWork
    <3>2. <<g, p>> \in Buffers /\ <<g, p>> # <<f, o>>
      BY <2>2
    <3>3. compute_buffer'[<<g, p>>] = compute_buffer[<<g, p>>]
      BY <1>13, <3>2
    <3>4. PICK j \in CopiesOf(p, g) : submissions[c].waits = {j}
      BY DEF WobbleInv, WorkInv
    <3>5. j # k
      BY <1>3, <3>4 DEF ComputesOf, CopiesOf, IsWork
    <3>6. (c \in done' <=> c \in done) /\ (c \in running' <=> c \in running)
          /\ (submissions[c].waits \subseteq done' <=> submissions[c].waits \subseteq done)
      BY <1>1, <3>1, <3>4, <3>5
    <3> QED BY <1>1, <1>4, <1>15, <3>3, <3>6, OthersStayHanded
  <2> QED BY <2>1, <2>2
<1>18. \A d \in vertices_drawn : IsDrawn(d)'
  BY <1>1, <1>4, <1>15 DEF WobbleInv, BufferInv, IsDrawn, DrawnDisplaced
<1>19. \A p \in spilled' : num_vertices'[p] % kLocalSize # 0
  BY <1>4, <1>15 DEF WobbleInv, BufferInv, n
<1>20. BufferInv'
  BY <1>1, <1>4, <1>17, <1>18, <1>19 DEF WobbleInv, BufferInv
<1> QED BY <1>4, <1>14, <1>20 DEF WobbleInv

LEMMA GpuDrawsInv ==
  ASSUME WobbleInv, NEW k \in DOMAIN submissions, GpuExecutesWobble(k), GpuDraws(k)
  PROVE  WobbleInv'
<1> DEFINE f == submissions[k].frame
<1>1. /\ k \notin done /\ submissions[k].waits \subseteq done /\ done' = done \cup {k}
      /\ UNCHANGED cpuVars /\ UNCHANGED uploaded
      /\ running' = running /\ spilled' = spilled /\ compute_buffer' = compute_buffer
      /\ submissions[k].work = "draw"
      /\ vertices_drawn' = vertices_drawn \cup
           {[frame |-> f, object |-> p, vertices |-> compute_buffer[<<f, p>>]] : p \in Objects}
  BY DEF GpuExecutesWobble, GpuDraws
<1>2. /\ frame' = frame /\ num_vertices' = num_vertices /\ submissions' = submissions
      /\ WorkInv' /\ ModifiedInv' /\ absorbing' = absorbing /\ modified' = modified
      /\ model_time' = model_time /\ uploaded' = uploaded
      /\ \A p, g : ComputesOf(p, g)' = ComputesOf(p, g)
  BY <1>1, GpuLeavesTheHost
<1>3. WobbleTypes'
  <2>1. done' \subseteq DOMAIN submissions
    BY <1>1 DEF WobbleInv, WobbleTypes
  <2> QED BY <1>1, <1>2, <2>1 DEF WobbleInv, WobbleTypes
<1>4. ASSUME NEW p \in Objects
      PROVE  Displaced(p, f) /\ f \in 0..frame
  <2>1. PICK j \in ComputesOf(p, f) : j \in submissions[k].waits /\ f \in 1..MaxFrames
    BY <1>1 DEF WobbleInv, WorkInv
  <2>2. Handed(p, f, j) /\ j \in done
    BY <1>1, <2>1 DEF WobbleInv, BufferInv
  <2>3. f <= frame /\ f \in Nat /\ frame \in Nat
    BY <2>1, KernelsHaveBegun
  <2>4. f \in 0..frame
    BY <2>3
  <2> QED BY <2>2, <2>4 DEF Handed
<1> HIDE DEF f
<1>5. ASSUME NEW d \in vertices_drawn' PROVE IsDrawn(d)'
  <2>1. CASE d \in vertices_drawn
    BY <1>1, <1>2, <2>1 DEF WobbleInv, BufferInv, IsDrawn, DrawnDisplaced
  <2>2. ASSUME NEW p \in Objects,
               d = [frame |-> f, object |-> p, vertices |-> compute_buffer[<<f, p>>]]
        PROVE  IsDrawn(d)'
    <3>1. d.frame = f /\ d.object = p /\ d.vertices = compute_buffer[<<f, p>>]
      BY <2>2
    <3>2. Displaced(p, f) /\ f \in 0..frame
      BY <1>4
    <3>3. DrawnDisplaced(d)'
      BY <1>2, <3>1, <3>2 DEF DrawnDisplaced, Displaced, Late
    <3> QED BY <1>1, <1>2, <3>1, <3>2, <3>3 DEF IsDrawn, Displaced, Arrived
  <2> QED BY <1>1, <2>1, <2>2
<1>6. ASSUME NEW p \in Objects, NEW g \in 1..MaxFrames, NEW c \in ComputesOf(p, g)
      PROVE  Handed(p, g, c)'
  <2>1. PICK j \in CopiesOf(p, g) : submissions[c].waits = {j}
    BY DEF WobbleInv, WorkInv
  <2>2. c # k /\ j # k
    BY <1>1 DEF ComputesOf, CopiesOf, IsWork
  <2>3. (c \in done' <=> c \in done) /\ (c \in running' <=> c \in running)
        /\ (submissions[c].waits \subseteq done' <=> submissions[c].waits \subseteq done)
    BY <1>1, <2>1, <2>2
  <2> QED BY <1>1, <1>2, <2>3, OthersStayHanded
<1>7. BufferInv'
  <2>1. \A j \in running : j # k
    BY <1>1 DEF WobbleInv, BufferInv
  <2> QED BY <1>1, <1>2, <1>5, <1>6, <2>1 DEF WobbleInv, BufferInv
<1> QED BY <1>2, <1>3, <1>7 DEF WobbleInv

LEMMA WobbleNextInv == WobbleInv /\ [WobbleNext]_wobbleVars => WobbleInv'
<1> SUFFICES ASSUME WobbleInv, [WobbleNext]_wobbleVars PROVE WobbleInv'
  OBVIOUS
<1>1. CASE UNCHANGED wobbleVars
  <2>1. UNCHANGED cpuVars /\ UNCHANGED gpuVars
    BY <1>1 DEF wobbleVars
  <2>2. /\ done' = done /\ running' = running /\ uploaded' = uploaded /\ spilled' = spilled
        /\ compute_buffer' = compute_buffer /\ vertices_drawn' = vertices_drawn
    BY <2>1 DEF gpuVars
  <2>3. /\ frame' = frame /\ num_vertices' = num_vertices /\ submissions' = submissions
        /\ WorkInv' /\ ModifiedInv' /\ absorbing' = absorbing /\ modified' = modified
        /\ model_time' = model_time
        /\ \A p, g : ComputesOf(p, g)' = ComputesOf(p, g)
    BY <2>1, <2>2, GpuLeavesTheHost
  <2>4. WobbleTypes'
    BY <2>2, <2>3 DEF WobbleInv, WobbleTypes
  <2>5. \A p \in Objects, g \in 1..MaxFrames : \A c \in ComputesOf(p, g) : Handed(p, g, c)'
    BY <2>2, <2>3, OthersStayHanded
  <2>6. \A d \in vertices_drawn : IsDrawn(d)'
    BY <2>2, <2>3 DEF WobbleInv, BufferInv, IsDrawn, DrawnDisplaced
  <2>7. BufferInv'
    BY <2>2, <2>3, <2>5, <2>6 DEF WobbleInv, BufferInv
  <2> QED BY <2>3, <2>4, <2>7 DEF WobbleInv
<1>2. ASSUME NEW k \in DOMAIN submissions, GpuExecutesWobble(k) PROVE WobbleInv'
  BY <1>2, GpuCopiesInv, GpuDisplacesInv, GpuDrawsInv DEF GpuExecutesWobble
<1> QED BY <1>1, <1>2, BeginWobbleInv, AbsorbWobbleInv, DrawWobbleInv, MeshArrivesInv,
           GpuStartsKernelInv DEF WobbleNext

(* However the GPU overlaps what it may, a frame draws vertices that were  *)
(* copied and then displaced, all of them and once, at times of its own or *)
(* of later frames that have begun, for any meshes and frames; they are    *)
(* those of the mesh if its upload was executed before the frame began,    *)
(* and a kernel writes beyond its buffer unless the vertices make whole    *)
(* work groups (impl/wobble_modifier_absorber.cc).                         *)
THEOREM FramesDrawWobbledVertices == WobbleSpec => []WobbleIsDrawnComplete
<1>1. ASSUME WobbleInv PROVE WobbleIsDrawnComplete
  <2> SUFFICES ASSUME NEW d \in vertices_drawn
               PROVE  /\ DrawnDisplaced(d)
                      /\ uploaded[d.object] < d.frame => d.vertices.whole
                      /\ d.object \in spilled <=> num_vertices[d.object] % kLocalSize # 0
    BY DEF WobbleIsDrawnComplete
  <2>1. IsDrawn(d)
    BY <1>1 DEF WobbleInv, BufferInv
  <2> QED BY <1>1, <2>1 DEF IsDrawn, WobbleInv, BufferInv
<1> QED BY <1>1, WobbleInitInv, WobbleNextInv, PTL DEF WobbleSpec
------------------------------------------------------------------------------
(* Queues.  The device and the families that are chosen, the queues of its *)
(* families and the pools that are made for them stay as they are.         *)
Chosen == chosen # Unset

QueuesInv ==
  /\ \A d \in DOMAIN physical_devices : physical_devices[d] \in PhysicalDevices
  /\ ~Chosen => queues = <<>> /\ pools = <<>> /\ submitted = {}
  /\ Chosen => /\ chosen.main \in SuitableFamilies(chosen.device)
               /\ queues.main = [family |-> chosen.main, index |-> 0]
               /\ queues.transfer = queues.main
               /\ <<chosen.main, 0>> \in queues.created
  /\ pools # <<>> => pools.main = queues.main /\ pools.transfer = queues.transfer
  /\ \A s \in submitted : s.queue = queues.main /\ s.family = chosen.main

(* The loop that looks for another family for transfers never finds one:   *)
(* it asks about the main family, which can do more.                       *)
LEMMA TransfersUseMainFamily ==
  ASSUME NEW d, NEW i, kMainQueueFlags \subseteq physical_devices[d].queues[i]
  PROVE  TransferFamily(d, i) = i
<1>1. "graphics" \in physical_devices[d].queues[i] \cap kTransferQueueFlags
  BY DEF kMainQueueFlags, kTransferQueueFlags
<1>2. physical_devices[d].queues[i] \cap kTransferQueueFlags # {"transfer"}
  BY <1>1
<1> QED BY <1>2 DEF TransferFamily

LEMMA ChoiceIsSuitable ==
  ASSUME DOMAIN physical_devices \subseteq Nat,
         \A d \in DOMAIN physical_devices : physical_devices[d] \in PhysicalDevices,
         NEW c, c = FindSuitablePhysicalDeviceAndQueueFamilies, c # Unset
  PROVE  c.main \in SuitableFamilies(c.device) /\ c.transfer = c.main
<1> DEFINE suitable == {d \in DOMAIN physical_devices : SuitableFamilies(d) # {}}
           d == Min(suitable)
           i == Min(SuitableFamilies(d))
<1>1. suitable # {} /\ c = [device |-> d, main |-> i, transfer |-> TransferFamily(d, i)]
  BY DEF FindSuitablePhysicalDeviceAndQueueFamilies
<1>2. d \in suitable
  BY <1>1, MinProperties
<1>3. SuitableFamilies(d) \in SUBSET Nat
  <2>1. PICK families : physical_devices[d].queues \in Seq(families)
    BY <1>2, QueuesAssumption
  <2> HIDE DEF d
  <2>2. DOMAIN physical_devices[d].queues = 1..Len(physical_devices[d].queues)
    BY <2>1
  <2> QED BY <2>2 DEF SuitableFamilies
<1>4. i \in SuitableFamilies(d)
  BY <1>2, <1>3, MinProperties
<1>5. TransferFamily(d, i) = i
  BY <1>4, TransfersUseMainFamily DEF SuitableFamilies, SuitableForMain
<1> QED BY <1>1, <1>4, <1>5

LEMMA QueuesNextInv ==
  (DOMAIN physical_devices \subseteq Nat /\ QueuesInv) /\ [QueuesNext]_queuesVars
    => (DOMAIN physical_devices \subseteq Nat /\ QueuesInv)'
<1> SUFFICES ASSUME DOMAIN physical_devices \subseteq Nat, QueuesInv, [QueuesNext]_queuesVars
             PROVE  (DOMAIN physical_devices \subseteq Nat /\ QueuesInv)'
  OBVIOUS
<1>1. physical_devices' = physical_devices
  BY DEF QueuesNext, New, NewPools, SubmitFrame, SubmitUpload, SubmitWobbleCopy, SubmitTo,
         queuesVars
<1>2. \A d : SuitableFamilies(d)' = SuitableFamilies(d)
  <2>1. surface' = surface
    BY DEF QueuesNext, New, NewPools, SubmitFrame, SubmitUpload, SubmitWobbleCopy, SubmitTo,
           queuesVars
  <2> QED BY <1>1, <2>1 DEF SuitableFamilies, SuitableForMain
<1>3. CASE New
  <2>1. /\ ~Chosen /\ chosen' # Unset
        /\ chosen' = FindSuitablePhysicalDeviceAndQueueFamilies
        /\ queues' = [main |-> [family |-> chosen'.main, index |-> 0],
                      transfer |-> [family |-> chosen'.transfer, index |-> 0],
                      created |-> {chosen'.main, chosen'.transfer} \X {0}]
        /\ pools' = pools /\ submitted' = submitted
    BY <1>3 DEF New, Chosen
  <2>2. chosen'.main \in SuitableFamilies(chosen'.device) /\ chosen'.transfer = chosen'.main
    BY <2>1, ChoiceIsSuitable DEF QueuesInv
  <2>3. pools' = <<>> /\ submitted' = {}
    BY <2>1 DEF QueuesInv
  <2>4. <<chosen'.main, 0>> \in queues'.created
    BY <2>1
  <2>5. queues'.main = [family |-> chosen'.main, index |-> 0] /\ queues'.transfer = queues'.main
    BY <2>1, <2>2
  <2> QED BY <1>1, <1>2, <2>1, <2>2, <2>3, <2>4, <2>5 DEF QueuesInv, Chosen
<1>4. CASE NewPools
  <2>1. /\ queues # <<>> /\ pools' = [main |-> queues.main, transfer |-> queues.transfer]
        /\ chosen' = chosen /\ queues' = queues /\ submitted' = submitted
    BY <1>4 DEF NewPools
  <2>2. Chosen
    BY <2>1 DEF QueuesInv
  <2>3. pools'.main = queues.main /\ pools'.transfer = queues.transfer
    BY <2>1
  <2> QED BY <1>1, <1>2, <2>1, <2>2, <2>3 DEF QueuesInv, Chosen
<1>5. ASSUME NEW pool, NEW queue_, SubmitTo(pool, queue_), pool = queues.main, queue_ = queues.main,
             Chosen
      PROVE  QueuesInv'
  <2>1. /\ submitted' = submitted \cup {[family |-> pool.family, queue |-> queue_]}
        /\ chosen' = chosen /\ queues' = queues /\ pools' = pools
    BY <1>5 DEF SubmitTo
  <2>2. pool.family = chosen.main
    BY <1>5 DEF QueuesInv
  <2>3. \A s \in submitted' : s.queue = queues.main /\ s.family = chosen.main
    BY <1>5, <2>1, <2>2 DEF QueuesInv
  <2> QED BY <1>1, <1>2, <1>5, <2>1, <2>3 DEF QueuesInv, Chosen
<1>6. ASSUME pools # <<>> PROVE pools.main = queues.main /\ pools.transfer = queues.main /\ Chosen
                                /\ queues.transfer = queues.main
  BY <1>6 DEF QueuesInv
<1>7. CASE SubmitFrame \/ SubmitUpload \/ SubmitWobbleCopy
  BY <1>5, <1>6, <1>7 DEF SubmitFrame, SubmitUpload, SubmitWobbleCopy
<1>8. CASE UNCHANGED queuesVars
  BY <1>1, <1>2, <1>8 DEF queuesVars, QueuesInv, Chosen
<1> QED BY <1>1, <1>3, <1>4, <1>7, <1>8 DEF QueuesNext

(* Whatever physical devices there are, with whatever families, everything *)
(* is submitted to a queue that was created, of the family of its pool,    *)
(* the copies that go from the main pool to the queue for transfers too;   *)
(* that queue can draw, compute and present (vk/vulkan_device_queues.cc).  *)
THEOREM QueuesServeTheirPools == QueuesSpec => []SubmissionsAreLegal
<1>1. QueuesInit => DOMAIN physical_devices \subseteq Nat /\ QueuesInv
  <2> SUFFICES ASSUME QueuesInit PROVE DOMAIN physical_devices \subseteq Nat /\ QueuesInv
    OBVIOUS
  <2>1. PICK n \in 0..MaxDevices : physical_devices \in [1..n -> PhysicalDevices]
    BY DEF QueuesInit
  <2>2. DOMAIN physical_devices = 1..n /\ DOMAIN physical_devices \subseteq Nat
    BY <2>1
  <2> QED BY <2>1, <2>2 DEF QueuesInit, QueuesInv, Chosen
<1>2. QueuesInv => SubmissionsAreLegal
  <2> SUFFICES ASSUME QueuesInv, NEW s \in submitted
               PROVE  /\ <<s.queue.family, s.queue.index>> \in queues.created
                      /\ s.family = s.queue.family
                      /\ queues.main.family \in SuitableFamilies(chosen.device)
                      /\ kMainQueueFlags \subseteq
                           physical_devices[chosen.device].queues[queues.main.family]
                      /\ surface => "present" \in
                           physical_devices[chosen.device].queues[queues.main.family]
    BY DEF SubmissionsAreLegal
  <2>1. Chosen
    BY DEF QueuesInv
  <2>2. /\ s.queue = queues.main /\ s.family = chosen.main
        /\ queues.main = [family |-> chosen.main, index |-> 0]
        /\ <<chosen.main, 0>> \in queues.created
        /\ chosen.main \in SuitableFamilies(chosen.device)
    BY <2>1 DEF QueuesInv
  <2>3. s.queue.family = chosen.main /\ s.queue.index = 0 /\ queues.main.family = chosen.main
    BY <2>2
  <2> QED BY <2>2, <2>3 DEF SuitableFamilies, SuitableForMain
<1> QED BY <1>1, <1>2, QueuesNextInv, PTL DEF QueuesSpec
------------------------------------------------------------------------------
(* The frame loop.  First the flags that the demo and the benchmark set.   *)
Flags == [debug : BOOLEAN, lighting : BOOLEAN, profiling : BOOLEAN]

HostTypes ==
  /\ demo \in [debug : BOOLEAN, lighting : BOOLEAN, stop_time : BOOLEAN, profile : BOOLEAN,
               benchmark : BOOLEAN, auto_toggle_lighting : BOOLEAN]
  /\ renderer \in Flags /\ asked \in Flags
  /\ bench \in [frame : Nat, throttle : Nat, was_profiling : BOOLEAN]
  /\ buffers \in Nat

InCycles == at \in {"wait for image", "throttle", "draw"}
InBenchmark == InCycles \/ at \in {"warm up", "warm", "finish"}

FlagsInv ==
  /\ at \in {"warm up", "warm", "finish"} => renderer.profiling = asked.profiling
  /\ InCycles => bench.was_profiling = asked.profiling
  /\ InBenchmark => renderer.lighting = asked.lighting
  /\ InBenchmark => demo.debug = asked.debug
  /\ at \in {"acquire", "render"} => renderer = asked /\ clock = ~demo.stop_time

threadVars == <<at, demo, renderer, asked, clock, bench, buffers>>

LEMMA SameHost ==
  ASSUME HostTypes, FlagsInv, UNCHANGED threadVars
  PROVE  HostTypes' /\ FlagsInv'
  BY DEF threadVars, HostTypes, FlagsInv, InBenchmark, InCycles

LEMMA LoopInitFlags == LoopInit => HostTypes /\ FlagsInv
<1> SUFFICES ASSUME LoopInit PROVE HostTypes /\ FlagsInv
  OBVIOUS
<1>1. /\ at = "poll" /\ buffers = 0 /\ asked = renderer
      /\ demo \in [debug : BOOLEAN, lighting : {TRUE}, stop_time : {FALSE}, profile : {FALSE},
                   benchmark : {FALSE}, auto_toggle_lighting : BOOLEAN]
      /\ renderer = [debug |-> FALSE, lighting |-> TRUE, profiling |-> FALSE]
      /\ bench = [frame |-> 0, throttle |-> Nobody, was_profiling |-> FALSE]
  BY DEF LoopInit
<1>2. bench \in [frame : Nat, throttle : Nat, was_profiling : BOOLEAN]
  BY <1>1 DEF Nobody
<1>3. demo \in [debug : BOOLEAN, lighting : BOOLEAN, stop_time : BOOLEAN, profile : BOOLEAN,
               benchmark : BOOLEAN, auto_toggle_lighting : BOOLEAN]
  BY <1>1
<1> QED BY <1>1, <1>2, <1>3 DEF HostTypes, FlagsInv, InBenchmark, InCycles, Flags

LEMMA FlagsOfDemo ==
  ASSUME HostTypes, FlagsInv,
         (\E key \in Keys : HandleKeyPress(key)) \/ EnterDrawFrame \/ Report \/ Quit
  PROVE  HostTypes' /\ FlagsInv'
<1>1. ASSUME NEW key \in Keys, HandleKeyPress(key)
      PROVE  HostTypes' /\ FlagsInv'
  <2>1. key \in {"SPACE", "D", "T", "P", "B"}
    BY LoopAssumption
  <2> QED BY <1>1, <2>1 DEF HandleKeyPress, HostTypes, FlagsInv, InBenchmark, InCycles
<1>2. CASE EnterDrawFrame
  <2>1. /\ asked' = [debug |-> demo.debug, lighting |-> demo.lighting, profiling |-> demo.profile]
        /\ demo' = [demo EXCEPT !.profile = FALSE, !.benchmark = FALSE]
        /\ bench' = [frame |-> 0, throttle |-> Nobody, was_profiling |-> FALSE]
        /\ buffers' = buffers
    BY <1>2 DEF EnterDrawFrame
  <2>2. asked' \in Flags /\ bench' \in [frame : Nat, throttle : Nat, was_profiling : BOOLEAN]
    BY <2>1 DEF HostTypes, Flags, Nobody
  <2>3. CASE demo.benchmark
    <3>1. at' = "warm up" /\ renderer' = [asked' EXCEPT !.debug = FALSE]
      BY <1>2, <2>3 DEF EnterDrawFrame
    <3> QED BY <2>1, <2>2, <3>1 DEF HostTypes, FlagsInv, Flags, InBenchmark, InCycles
  <2>4. CASE ~demo.benchmark
    <3>1. at' = "acquire" /\ renderer' = asked' /\ clock' = ~demo.stop_time
      BY <1>2, <2>4 DEF EnterDrawFrame
    <3> QED BY <2>1, <2>2, <3>1 DEF HostTypes, FlagsInv, Flags, InBenchmark, InCycles
  <2> QED BY <2>3, <2>4
<1>3. CASE Report
  <2>1. at' = "poll" /\ renderer' = renderer /\ asked' = asked /\ bench' = bench
        /\ buffers' = buffers
    BY <1>3 DEF Report
  <2>2. PICK p, l \in BOOLEAN : \/ demo' = demo
                                \/ demo' = [demo EXCEPT !.profile = TRUE, !.lighting = l]
    BY <1>3 DEF Report, HostTypes
  <2> QED BY <2>1, <2>2 DEF HostTypes, FlagsInv, InBenchmark, InCycles
<1>4. CASE Quit
  BY <1>4 DEF Quit, demoVars, HostTypes, FlagsInv, InBenchmark, InCycles
<1> QED BY <1>1, <1>2, <1>3, <1>4

LEMMA BuffersAreCounted ==
  ASSUME HostTypes, NEW waits, NEW signals, NEW draws, Submit(waits, signals, draws)
  PROVE  buffers' \in Nat /\ Moved(bench.throttle) \in Nat
<1>1. buffers \in Nat /\ bench.throttle \in Nat
  BY DEF HostTypes
<1> QED BY <1>1 DEF Submit, Moved, Nobody

LEMMA FlagsOfBenchmark ==
  ASSUME HostTypes, FlagsInv,
         \/ WarmUp \/ WarmUpDone \/ Warm \/ WaitForImage \/ Throttle
         \/ DrawBenchmarkFrame \/ WaitForLastFrame \/ FinishBenchmark
  PROVE  HostTypes' /\ FlagsInv'
<1> USE DEF InBenchmark, InCycles
<1>1. bench.frame + 1 \in Nat
  <2>1. bench.frame \in Nat
    BY DEF HostTypes
  <2> QED BY <2>1
<1>2. CASE WarmUp
  BY <1>1, <1>2, BuffersAreCounted DEF WarmUp, AfterBenchmarkStep, HostTypes, FlagsInv
<1>3. CASE WarmUpDone
  BY <1>3, BuffersAreCounted DEF WarmUpDone, AfterBenchmarkStep, HostTypes, FlagsInv
<1>4. CASE Warm
  <2>1. /\ at = "warm" /\ at' = "wait for image"
        /\ bench' = [frame |-> 0, throttle |-> Nobody, was_profiling |-> renderer.profiling]
        /\ renderer' = [renderer EXCEPT !.profiling = FALSE]
        /\ demo' = demo /\ asked' = asked /\ buffers' = buffers
    BY <1>4 DEF Warm, AfterBenchmarkStep
  <2>2. bench' \in [frame : Nat, throttle : Nat, was_profiling : BOOLEAN]
        /\ bench'.was_profiling = renderer.profiling
    BY <2>1 DEF HostTypes, Flags, Nobody
  <2>3. renderer' \in Flags /\ renderer'.lighting = renderer.lighting
    BY <2>1 DEF HostTypes, Flags
  <2> QED BY <2>1, <2>2, <2>3 DEF HostTypes, FlagsInv
<1>5. ASSUME NEW t \in Nat, bench' = [bench EXCEPT !.throttle = t], InCycles, InCycles',
             demo' = demo, asked' = asked, renderer' = renderer, buffers' \in Nat
      PROVE  HostTypes' /\ FlagsInv'
  BY <1>5 DEF HostTypes, FlagsInv
<1>6. CASE WaitForImage
  BY <1>5, <1>6, BuffersAreCounted DEF WaitForImage, AfterBenchmarkStep
<1>7. CASE Throttle
  <2>1. buffers \in Nat
    BY DEF HostTypes
  <2> QED BY <1>5, <1>7, <2>1 DEF Throttle, AfterBenchmarkStep
<1>8. CASE DrawBenchmarkFrame
  <2>1. /\ at = "draw" /\ at' = "wait for image" /\ demo' = demo /\ asked' = asked
        /\ buffers' \in Nat /\ Moved(bench.throttle) \in Nat
        /\ bench' = [bench EXCEPT !.frame = @ + 1, !.throttle = Moved(@)]
    BY <1>8, BuffersAreCounted DEF DrawBenchmarkFrame, AfterBenchmarkStep
  <2>2. PICK p \in BOOLEAN : renderer' = [renderer EXCEPT !.profiling = p]
    BY <1>8 DEF DrawBenchmarkFrame
  <2>3. renderer' \in Flags /\ renderer'.lighting = renderer.lighting
    BY <2>2 DEF HostTypes, Flags
  <2>4. bench' \in [frame : Nat, throttle : Nat, was_profiling : BOOLEAN]
        /\ bench'.was_profiling = bench.was_profiling
    BY <1>1, <2>1 DEF HostTypes
  <2> QED BY <2>1, <2>3, <2>4 DEF HostTypes, FlagsInv
<1>9. CASE WaitForLastFrame
  <2>1. /\ at = "wait for image" /\ at' = "finish" /\ demo' = demo /\ asked' = asked
        /\ buffers' \in Nat /\ bench' = bench
        /\ renderer' = [renderer EXCEPT !.profiling = bench.was_profiling]
    BY <1>9, BuffersAreCounted DEF WaitForLastFrame, AfterBenchmarkStep
  <2>2. renderer' \in Flags /\ renderer'.lighting = renderer.lighting
        /\ renderer'.profiling = bench.was_profiling
    BY <2>1 DEF HostTypes, Flags
  <2> QED BY <2>1, <2>2 DEF HostTypes, FlagsInv
<1>10. CASE FinishBenchmark
  <2>1. /\ at = "finish" /\ at' = "acquire" /\ demo' = demo /\ asked' = asked
        /\ buffers' = buffers /\ bench' = bench
        /\ renderer' = [renderer EXCEPT !.debug = demo.debug]
        /\ clock' = ~demo.stop_time
    BY <1>10 DEF FinishBenchmark
  <2>2. /\ renderer' \in Flags /\ renderer'.lighting = asked.lighting
        /\ renderer'.profiling = asked.profiling /\ renderer'.debug = asked.debug
    BY <2>1 DEF HostTypes, Flags, FlagsInv
  <2>3. renderer' = asked
    BY <2>2 DEF HostTypes, Flags
  <2> QED BY <2>1, <2>2, <2>3 DEF HostTypes, FlagsInv
<1> QED BY <1>2, <1>3, <1>4, <1>6, <1>7, <1>8, <1>9, <1>10

LEMMA FlagsOfSwapchain ==
  ASSUME HostTypes, FlagsInv,
         (\E i \in SwapchainImages : AcquireNextImage(i)) \/ AcquireFails \/ Render \/ Present
  PROVE  HostTypes' /\ FlagsInv'
<1>1. /\ demo' = demo /\ renderer' = renderer /\ asked' = asked /\ clock' = clock /\ bench' = bench
      /\ (at = "acquire" /\ at' = "render") \/ at' \in {"present", "report"}
  BY DEF AcquireNextImage, AcquireFails, Render, Present, demoVars
<1>2. buffers' \in Nat
  BY BuffersAreCounted DEF AcquireNextImage, AcquireFails, Render, Present, HostTypes
<1> QED BY <1>1, <1>2 DEF HostTypes, FlagsInv, InBenchmark, InCycles

LEMMA FlagsNext == HostTypes /\ FlagsInv /\ [LoopNext]_loopVars => HostTypes' /\ FlagsInv'
<1> SUFFICES ASSUME HostTypes, FlagsInv, [LoopNext]_loopVars PROVE HostTypes' /\ FlagsInv'
  OBVIOUS
<1>1. CASE GpuExecutesNext \/ EngineShows \/ \E s \in Semaphores : EngineSignals(s)
  BY <1>1, SameHost DEF GpuExecutesNext, EngineShows, EngineSignals, threadVars, demoVars
<1>2. CASE UNCHANGED loopVars
  BY <1>2, SameHost DEF loopVars, demoVars, threadVars
<1> QED BY <1>1, <1>2, FlagsOfDemo, FlagsOfBenchmark, FlagsOfSwapchain DEF LoopNext, HostStep

(* Whatever keys are pressed before it, the frame that is shown is drawn   *)
(* with the flags that were asked for, after a benchmark of any length     *)
(* that has changed them all (examples/waterfall/waterfall_demo.cc).       *)
THEOREM BenchmarkRestoresFlags == LoopSpec => []ShownFrameIsAsAskedFor
<1>1. FlagsInv => ShownFrameIsAsAskedFor
  BY DEF FlagsInv, ShownFrameIsAsAskedFor
<1> QED BY <1>1, LoopInitFlags, FlagsNext, PTL DEF LoopSpec
------------------------------------------------------------------------------
(* Semaphores.  Due are those that will be signalled when the GPU has      *)
(* executed what is in its queue: what the host submits next waits for     *)
(* some of these and signals others.                                       *)
Operation == [waits : SUBSET Semaphores, signals : SUBSET Semaphores, draws : BOOLEAN,
              presents : 0 .. ImageCount]

QueueTypes ==
  /\ queue \in Seq(Operation)
  /\ \A k \in DOMAIN queue : queue[k].waits \cap queue[k].signals = {}
  /\ semaphores \in [Semaphores -> {"unsignalled", "signalled", "pending"}]
  /\ next_semaphore_index \in SwapchainImages
  /\ image \in 0 .. ImageCount

BenchmarkImages == 0 .. kSwapchainSize - 1
BenchmarkSemaphores == {Benchmark(i) : i \in BenchmarkImages}

BenchmarkDue ==
  CASE at = "warm up" -> {Benchmark(i) : i \in 0 .. bench.frame - 1}
    [] at \in {"warm", "wait for image"} -> BenchmarkSemaphores
    [] at \in {"throttle", "draw"} ->
         BenchmarkSemaphores \ {Benchmark(bench.frame % kSwapchainSize)}
    [] at = "finish" -> BenchmarkSemaphores \ {Benchmark((FrameCount - 1) % kSwapchainSize)}
    [] OTHER -> {}

Due ==
  BenchmarkDue \cup (IF at = "render" THEN {Available(next_semaphore_index)} ELSE {})
               \cup (IF at = "present" THEN {RenderFinished(next_semaphore_index)} ELSE {})

DueNow(s) == IF s \in Due THEN 1 ELSE 0

SignalsInv ==
  \A s \in Semaphores : /\ \A k \in 0 .. Len(queue) : Signals(s, k) \in {0, 1}
                        /\ Signals(s, Len(queue)) = DueNow(s)

Level(s) == IF semaphores[s] = "unsignalled" THEN 0 ELSE 1
Ups(s, k) == {j \in 1..k : s \in queue[j].signals}
Downs(s, k) == {j \in 1..k : s \in queue[j].waits}

LEMMA SignalsAre ==
  \A s, k :
    /\ Signals(s, k) = Level(s) + Cardinality(Ups(s, k)) - Cardinality(Downs(s, k))
    /\ Signals(s, k)' = Level(s)' + Cardinality(Ups(s, k)') - Cardinality(Downs(s, k)')
  BY DEF Signals, Level, Ups, Downs

LEMMA PositionsFinite ==
  ASSUME NEW k \in Nat, NEW T \in SUBSET (1..k)
  PROVE  IsFiniteSet(T) /\ Cardinality(T) \in Nat
<1>1. IsFiniteSet(1..k)
  BY FS_Interval
<1> QED BY <1>1, FS_Subset, FS_CardinalityType

LEMMA CountsAreNumbers ==
  ASSUME NEW k \in Nat, NEW s
  PROVE  /\ IsFiniteSet(Ups(s, k)) /\ Cardinality(Ups(s, k)) \in Nat
         /\ IsFiniteSet(Downs(s, k)) /\ Cardinality(Downs(s, k)) \in Nat
         /\ Level(s) \in {0, 1}
<1>1. Ups(s, k) \in SUBSET (1..k) /\ Downs(s, k) \in SUBSET (1..k)
  BY DEF Ups, Downs
<1>2. Level(s) \in {0, 1}
  BY DEF Level
<1> QED BY <1>1, <1>2, PositionsFinite

LEMMA SemaphoresDiffer ==
  /\ \A i, j : /\ Available(i) # RenderFinished(j) /\ Available(i) # Benchmark(j)
               /\ RenderFinished(i) # Benchmark(j)
  /\ \A i, j : /\ Available(i) = Available(j) => i = j
               /\ RenderFinished(i) = RenderFinished(j) => i = j
               /\ Benchmark(i) = Benchmark(j) => i = j
  /\ \A i : Available(i)[1] # "benchmark" /\ RenderFinished(i)[1] # "benchmark"
            /\ Benchmark(i)[1] = "benchmark"
  BY DEF Available, RenderFinished, Benchmark

(* What the host submits: it waits for what is due and signals what is not *)
(* due.                                                                    *)
LEMMA SubmitSignals ==
  ASSUME QueueTypes, SignalsInv, NEW r \in Operation,
         queue' = Append(queue, r), semaphores' = semaphores,
         r.waits \subseteq Due, r.signals \cap Due = {}, r.waits \cap r.signals = {},
         Due' = (Due \ r.waits) \cup r.signals
  PROVE  SignalsInv'
<1>0. PICK n : n = Len(queue)
  OBVIOUS
<1>1. queue \in Seq(Operation) /\ n \in Nat
  BY <1>0 DEF QueueTypes
<1>2. /\ Len(queue') = n + 1 /\ queue'[n + 1] = r
      /\ \A j \in 1..n : queue'[j] = queue[j]
  BY <1>0, <1>1
<1>3. SUFFICES ASSUME NEW s \in Semaphores
               PROVE  /\ \A k \in 0 .. n + 1 : Signals(s, k)' \in {0, 1}
                      /\ Signals(s, n + 1)' = DueNow(s)'
  BY <1>2 DEF SignalsInv
<1>4. Level(s)' = Level(s)
  BY DEF Level
<1>5. ASSUME NEW k \in 0 .. n PROVE Signals(s, k)' = Signals(s, k) /\ Signals(s, k) \in {0, 1}
  <2>1. Ups(s, k)' = Ups(s, k) /\ Downs(s, k)' = Downs(s, k)
    BY <1>1, <1>2 DEF Ups, Downs
  <2>2. Signals(s, k) \in {0, 1}
    BY <1>0 DEF SignalsInv
  <2> QED BY <1>4, <2>1, <2>2, SignalsAre
<1>6. Cardinality(Ups(s, n + 1)') = Cardinality(Ups(s, n)) + IF s \in r.signals THEN 1 ELSE 0
  <2>1. Ups(s, n + 1)' = IF s \in r.signals THEN Ups(s, n) \cup {n + 1} ELSE Ups(s, n)
    BY <1>1, <1>2 DEF Ups
  <2>2. n + 1 \notin Ups(s, n)
    BY <1>1 DEF Ups
  <2>3. IsFiniteSet(Ups(s, n)) /\ Cardinality(Ups(s, n)) \in Nat
    BY <1>1, CountsAreNumbers
  <2>4. Cardinality(Ups(s, n) \cup {n + 1}) = Cardinality(Ups(s, n)) + 1
    BY <2>2, <2>3, FS_AddElement
  <2> QED BY <2>1, <2>3, <2>4
<1>7. Cardinality(Downs(s, n + 1)') = Cardinality(Downs(s, n)) + IF s \in r.waits THEN 1 ELSE 0
  <2>1. Downs(s, n + 1)' = IF s \in r.waits THEN Downs(s, n) \cup {n + 1} ELSE Downs(s, n)
    BY <1>1, <1>2 DEF Downs
  <2>2. n + 1 \notin Downs(s, n)
    BY <1>1 DEF Downs
  <2>3. IsFiniteSet(Downs(s, n)) /\ Cardinality(Downs(s, n)) \in Nat
    BY <1>1, CountsAreNumbers
  <2>4. Cardinality(Downs(s, n) \cup {n + 1}) = Cardinality(Downs(s, n)) + 1
    BY <2>2, <2>3, FS_AddElement
  <2> QED BY <2>1, <2>3, <2>4
<1>8. Signals(s, n) = DueNow(s)
  BY <1>0 DEF SignalsInv
<1>9. Signals(s, n + 1)' = Signals(s, n) + (IF s \in r.signals THEN 1 ELSE 0)
                                         - (IF s \in r.waits THEN 1 ELSE 0)
  <2>1. /\ Signals(s, n) = Level(s) + Cardinality(Ups(s, n)) - Cardinality(Downs(s, n))
        /\ Signals(s, n + 1)'
             = Level(s)' + Cardinality(Ups(s, n + 1)') - Cardinality(Downs(s, n + 1)')
    BY SignalsAre
  <2>2. /\ Cardinality(Ups(s, n)) \in Nat /\ Cardinality(Downs(s, n)) \in Nat
        /\ Level(s) \in {0, 1}
    BY <1>1, CountsAreNumbers
  <2> QED BY <1>4, <1>6, <1>7, <2>1, <2>2
<1>10. Signals(s, n + 1)' = DueNow(s)' /\ DueNow(s)' \in {0, 1}
  <2>1. CASE s \in r.signals
    <3>1. s \notin r.waits /\ s \notin Due /\ s \in Due'
      BY <2>1
    <3> QED BY <1>8, <1>9, <2>1, <3>1 DEF DueNow
  <2>2. CASE s \in r.waits
    <3>1. s \notin r.signals /\ s \in Due /\ s \notin Due'
      BY <2>2
    <3> QED BY <1>8, <1>9, <2>2, <3>1 DEF DueNow
  <2>3. CASE s \notin r.waits /\ s \notin r.signals
    <3>1. s \in Due' <=> s \in Due
      BY <2>3
    <3> QED BY <1>8, <1>9, <2>3, <3>1 DEF DueNow
  <2> QED BY <2>1, <2>2, <2>3
<1> QED BY <1>1, <1>5, <1>10

(* What is due does not change when the GPU executes, for each operation   *)
(* finds its semaphores as it should.                                      *)
LEMMA ExecuteSignals ==
  ASSUME QueueTypes, SignalsInv, GpuExecutesNext, Due' = Due
  PROVE  SignalsInv'
<1>0. PICK n, r : n = Len(queue) /\ r = queue[1]
  OBVIOUS
<1>1. queue \in Seq(Operation) /\ queue # <<>> /\ n \in Nat /\ n # 0 /\ Head(queue) = r
  BY <1>0 DEF QueueTypes, GpuExecutesNext
<1>2. /\ queue' = Tail(queue) /\ Len(queue') = n - 1
      /\ \A j \in 1 .. n - 1 : queue'[j] = queue[j + 1]
      /\ \A s \in r.waits : semaphores[s] = "signalled"
      /\ semaphores' = [s \in Semaphores |->
                          IF s \in r.signals THEN "signalled"
                          ELSE IF s \in r.waits THEN "unsignalled" ELSE semaphores[s]]
  BY <1>0, <1>1 DEF GpuExecutesNext
<1>3. r.waits \cap r.signals = {} /\ 1 \in 1..n
  BY <1>0, <1>1 DEF QueueTypes
<1>4. SUFFICES ASSUME NEW s \in Semaphores
               PROVE  /\ \A k \in 0 .. n - 1 : Signals(s, k)' \in {0, 1}
                      /\ Signals(s, n - 1)' = DueNow(s)'
  BY <1>2 DEF SignalsInv
<1> DEFINE up == IF s \in r.signals THEN 1 ELSE 0
           down == IF s \in r.waits THEN 1 ELSE 0
<1>5. ASSUME NEW k \in Nat, k <= n - 1
      PROVE  /\ Cardinality(Ups(s, k)') = Cardinality(Ups(s, k + 1)) - up
             /\ Cardinality(Downs(s, k)') = Cardinality(Downs(s, k + 1)) - down
  <2>1. Ups(s, k + 1) \in SUBSET (1 .. k + 1) /\ Downs(s, k + 1) \in SUBSET (1 .. k + 1)
    BY DEF Ups, Downs
  <2>2. /\ Ups(s, k)' = {j \in 1..k : j + 1 \in Ups(s, k + 1)}
        /\ Downs(s, k)' = {j \in 1..k : j + 1 \in Downs(s, k + 1)}
    BY <1>1, <1>2, <1>5 DEF Ups, Downs
  <2>3. (1 \in Ups(s, k + 1) <=> s \in r.signals) /\ (1 \in Downs(s, k + 1) <=> s \in r.waits)
    BY <1>0, <1>5 DEF Ups, Downs
  <2>4. /\ Cardinality(Ups(s, k + 1)) \in Nat /\ Cardinality(Downs(s, k + 1)) \in Nat
        /\ Cardinality(Ups(s, k)') = IF 1 \in Ups(s, k + 1) THEN Cardinality(Ups(s, k + 1)) - 1
                                                            ELSE Cardinality(Ups(s, k + 1))
        /\ Cardinality(Downs(s, k)') = IF 1 \in Downs(s, k + 1)
                                       THEN Cardinality(Downs(s, k + 1)) - 1
                                       ELSE Cardinality(Downs(s, k + 1))
    BY <2>1, <2>2, ShiftPositions
  <2> QED BY <2>3, <2>4
<1>6. Level(s)' = Level(s) + up - down
  <2>1. Signals(s, 1) \in {0, 1} /\ Signals(s, 0) \in {0, 1}
    BY <1>0, <1>1 DEF SignalsInv
  <2>2. Cardinality(Ups(s, 1)) = up /\ Cardinality(Downs(s, 1)) = down
    <3>1. 0 \in Nat /\ 0 <= n - 1 /\ 0 + 1 = 1
      BY <1>1
    <3>2. /\ Cardinality(Ups(s, 0)') = Cardinality(Ups(s, 1)) - up
          /\ Cardinality(Downs(s, 0)') = Cardinality(Downs(s, 1)) - down
      BY <1>5, <3>1
    <3>3. Ups(s, 0)' = {} /\ Downs(s, 0)' = {}
      BY DEF Ups, Downs
    <3>4. Cardinality(Ups(s, 1)) \in Nat /\ Cardinality(Downs(s, 1)) \in Nat
      BY CountsAreNumbers
    <3> HIDE DEF up, down
    <3>5. up \in {0, 1} /\ down \in {0, 1}
      BY DEF up, down
    <3>6. Cardinality(Ups(s, 0)') = 0 /\ Cardinality(Downs(s, 0)') = 0
      BY <3>3, FS_EmptySet
    <3>7. \A a \in Nat, b \in {0, 1} : 0 = a - b => a = b
      OBVIOUS
    <3> QED BY <3>2, <3>4, <3>5, <3>6, <3>7
  <2>3. Level(s) + up - down \in {0, 1}
    <3>1. Signals(s, 1) = Level(s) + Cardinality(Ups(s, 1)) - Cardinality(Downs(s, 1))
      BY SignalsAre
    <3> QED BY <2>1, <2>2, <3>1
  <2>4. Level(s) \in {0, 1}
    BY DEF Level
  <2>5. CASE s \in r.signals
    <3>1. s \notin r.waits /\ semaphores'[s] = "signalled"
      BY <1>2, <1>3, <2>5
    <3>2. Level(s)' = 1
      BY <3>1 DEF Level
    <3> QED BY <2>3, <2>4, <2>5, <3>1, <3>2
  <2>6. CASE s \in r.waits
    <3>1. s \notin r.signals /\ semaphores'[s] = "unsignalled" /\ semaphores[s] = "signalled"
      BY <1>2, <1>3, <2>6
    <3>2. Level(s)' = 0 /\ Level(s) = 1
      BY <3>1 DEF Level
    <3> QED BY <2>6, <3>1, <3>2
  <2>7. CASE s \notin r.waits /\ s \notin r.signals
    <3>1. Level(s)' = Level(s)
      BY <1>2, <2>7 DEF Level
    <3> QED BY <2>4, <2>7, <3>1
  <2> QED BY <2>5, <2>6, <2>7
<1>7. ASSUME NEW k \in Nat, k <= n - 1
      PROVE  Signals(s, k)' = Signals(s, k + 1)
  <2>1. /\ Signals(s, k)' = Level(s)' + Cardinality(Ups(s, k)') - Cardinality(Downs(s, k)')
        /\ Signals(s, k + 1)
             = Level(s) + Cardinality(Ups(s, k + 1)) - Cardinality(Downs(s, k + 1))
    BY SignalsAre
  <2>2. /\ Cardinality(Ups(s, k + 1)) \in Nat /\ Cardinality(Downs(s, k + 1)) \in Nat
        /\ Level(s) \in {0, 1}
    BY <1>7, CountsAreNumbers
  <2>3. /\ Cardinality(Ups(s, k)') = Cardinality(Ups(s, k + 1)) - up
        /\ Cardinality(Downs(s, k)') = Cardinality(Downs(s, k + 1)) - down
    BY <1>5, <1>7
  <2>4. up \in {0, 1} /\ down \in {0, 1}
    OBVIOUS
  <2> HIDE DEF up, down
  <2> QED BY <1>6, <2>1, <2>2, <2>3, <2>4
<1> HIDE DEF up, down
<1>8. \A k \in 0 .. n - 1 : Signals(s, k)' \in {0, 1}
  <2> TAKE k \in 0 .. n - 1
  <2>1. k \in Nat /\ k <= n - 1 /\ k + 1 \in 0 .. n
    BY <1>1
  <2>2. Signals(s, k + 1) \in {0, 1}
    BY <1>0, <2>1 DEF SignalsInv
  <2> QED BY <1>7, <2>1, <2>2
<1>9. Signals(s, n - 1)' = DueNow(s)'
  <2>1. n - 1 \in Nat /\ n - 1 <= n - 1 /\ (n - 1) + 1 = n
    BY <1>1
  <2>2. Signals(s, n) = DueNow(s)
    BY <1>0 DEF SignalsInv
  <2>3. Signals(s, n - 1)' = Signals(s, n)
    BY <1>7, <2>1
  <2> QED BY <2>2, <2>3 DEF DueNow
<1> QED BY <1>8, <1>9

(* What is due where the host is.                                          *)
DueTable ==
  /\ at = "warm up" => Due = {Benchmark(i) : i \in 0 .. bench.frame - 1}
  /\ at \in {"warm", "wait for image"} => Due = BenchmarkSemaphores
  /\ at \in {"throttle", "draw"} =>
       Due = BenchmarkSemaphores \ {Benchmark(bench.frame % kSwapchainSize)}
  /\ at = "finish" => Due = BenchmarkSemaphores \ {Benchmark((FrameCount - 1) % kSwapchainSize)}
  /\ at = "render" => Due = {Available(next_semaphore_index)}
  /\ at = "present" => Due = {RenderFinished(next_semaphore_index)}
  /\ at \in {"poll", "acquire", "report", "quit"} => Due = {}

LEMMA DueIs == DueTable /\ DueTable'
<1>1. DueTable
  BY DEF DueTable, Due, BenchmarkDue
<1>2. DueTable'
  BY DEF DueTable, Due, BenchmarkDue
<1> QED BY <1>1, <1>2

LEMMA SameSignals ==
  ASSUME SignalsInv, queue' = queue, Due' = Due,
         \A s \in Semaphores : Level(s)' = Level(s)
  PROVE  SignalsInv'
<1>1. SUFFICES ASSUME NEW s \in Semaphores
               PROVE  /\ \A k \in 0 .. Len(queue) : Signals(s, k)' = Signals(s, k)
                      /\ DueNow(s)' = DueNow(s)
  BY DEF SignalsInv
<1>2. \A k : Ups(s, k)' = Ups(s, k) /\ Downs(s, k)' = Downs(s, k)
  BY DEF Ups, Downs
<1>3. Level(s)' = Level(s)
  OBVIOUS
<1> QED BY <1>2, <1>3, SignalsAre DEF DueNow

LEMMA SemaphoresAreThere ==
  ASSUME NEW f \in Nat
  PROVE  /\ f % kSwapchainSize \in BenchmarkImages
         /\ Benchmark(f % kSwapchainSize) \in BenchmarkSemaphores
         /\ BenchmarkSemaphores \subseteq Semaphores
<1>1. f % kSwapchainSize \in BenchmarkImages
  BY DEF BenchmarkImages, kSwapchainSize
<1> QED BY <1>1 DEF BenchmarkSemaphores, BenchmarkImages, Semaphores

LEMMA PairIsThere ==
  ASSUME next_semaphore_index \in SwapchainImages
  PROVE  Available(next_semaphore_index) \in Semaphores
         /\ RenderFinished(next_semaphore_index) \in Semaphores
  BY DEF Semaphores

LEMMA LastFrame == FrameCount - 1 \in Nat
<1>1. FrameCount \in Nat /\ FrameCount # 0
  BY LoopAssumption
<1> QED BY <1>1

(* A command buffer that waits for and signals semaphores like this.       *)
SubmitsLike(r, waits, signals) ==
  /\ r \in Operation /\ r.waits = waits /\ r.signals = signals /\ r.presents = NoImage
  /\ queue' = Append(queue, r)

LEMMA SubmitIs ==
  ASSUME NEW waits \in SUBSET Semaphores, NEW signals \in SUBSET Semaphores,
         NEW draws \in BOOLEAN, Submit(waits, signals, draws)
  PROVE  \E r : SubmitsLike(r, waits, signals)
<1> DEFINE r == [waits |-> waits, signals |-> signals, draws |-> draws, presents |-> NoImage]
<1>1. NoImage \in 0 .. ImageCount
  BY LoopAssumption DEF NoImage
<1>2. r \in Operation
  BY <1>1 DEF Operation
<1>3. queue' = Append(queue, r)
  BY DEF Submit
<1> QED BY <1>2, <1>3 DEF SubmitsLike

WarmUpEnds == at = "warm up" => bench.frame <= kSwapchainSize

(* The benchmark waits for the semaphore that was signalled longest ago.   *)
LEMMA SignalsOfBenchmark ==
  ASSUME HostTypes, QueueTypes, SignalsInv, WarmUpEnds,
         \/ WarmUp \/ WarmUpDone \/ WaitForImage
         \/ DrawBenchmarkFrame \/ WaitForLastFrame
  PROVE  SignalsInv' /\ WarmUpEnds' /\ \E r, w, u :
           SubmitsLike(r, w, u) /\ w \cap u = {} /\ w \cup u \subseteq BenchmarkSemaphores
<1> DEFINE now == Benchmark(bench.frame % kSwapchainSize)
           last == Benchmark((FrameCount - 1) % kSwapchainSize)
<1>1. bench.frame \in Nat
  BY DEF HostTypes
<1>2. now \in BenchmarkSemaphores /\ last \in BenchmarkSemaphores
      /\ BenchmarkSemaphores \subseteq Semaphores
  BY <1>1, LastFrame, SemaphoresAreThere
<1>3. semaphores' = semaphores
  BY DEF WarmUp, WarmUpDone, WaitForImage, DrawBenchmarkFrame, WaitForLastFrame,
         AfterBenchmarkStep
<1> HIDE DEF now, last
<1>4. ASSUME NEW w \in SUBSET BenchmarkSemaphores, NEW u \in SUBSET BenchmarkSemaphores,
             NEW draws \in BOOLEAN, Submit(w, u, draws),
             w \subseteq Due, u \cap Due = {}, w \cap u = {}, Due' = (Due \ w) \cup u, WarmUpEnds'
      PROVE  SignalsInv' /\ WarmUpEnds' /\ \E r, x, y :
               SubmitsLike(r, x, y) /\ x \cap y = {} /\ x \cup y \subseteq BenchmarkSemaphores
  <2>1. w \in SUBSET Semaphores /\ u \in SUBSET Semaphores
    BY <1>2
  <2>2. PICK r : SubmitsLike(r, w, u)
    BY <1>4, <2>1, SubmitIs
  <2>3. SignalsInv'
    BY <1>3, <1>4, <2>2, SubmitSignals DEF SubmitsLike
  <2> QED BY <1>4, <2>2, <2>3
<1>5. CASE WarmUp
  <2>1. /\ at = "warm up" /\ at' = "warm up" /\ bench.frame < kSwapchainSize
        /\ Submit({}, {Benchmark(bench.frame)}, TRUE) /\ bench'.frame = bench.frame + 1
    BY <1>5 DEF WarmUp, HostTypes
  <2>2. bench'.frame <= kSwapchainSize
    <3>1. PICK f, g : f = bench.frame /\ g = bench'.frame
      OBVIOUS
    <3>2. f \in Nat /\ f < 3 /\ g = f + 1
      BY <1>1, <2>1, <3>1 DEF kSwapchainSize
    <3>3. g <= 3
      BY <3>2
    <3> QED BY <3>1, <3>3 DEF kSwapchainSize
  <2>3. /\ 0 .. bench'.frame - 1 = (0 .. bench.frame - 1) \cup {bench.frame}
        /\ bench.frame \notin 0 .. bench.frame - 1
        /\ bench.frame \in BenchmarkImages
    <3>1. PICK f, g : f = bench.frame /\ g = bench'.frame
      OBVIOUS
    <3>2. f \in Nat /\ f < 3 /\ g = f + 1
      BY <1>1, <2>1, <3>1 DEF kSwapchainSize
    <3>3. 0 .. g - 1 = (0 .. f - 1) \cup {f} /\ f \notin 0 .. f - 1 /\ f \in 0 .. 3 - 1
      BY <3>2
    <3> QED BY <3>1, <3>3 DEF kSwapchainSize, BenchmarkImages
  <2>4. /\ Due = {Benchmark(i) : i \in 0 .. bench.frame - 1}
        /\ Due' = {Benchmark(i) : i \in 0 .. bench'.frame - 1}
    BY <2>1, DueIs DEF DueTable
  <2>5. Benchmark(bench.frame) \notin Due
    BY <2>3, <2>4, SemaphoresDiffer
  <2>6. Due' = Due \cup {Benchmark(bench.frame)}
    BY <2>3, <2>4
  <2>7. Benchmark(bench.frame) \in BenchmarkSemaphores
    BY <2>3 DEF BenchmarkSemaphores
  <2>8. WarmUpEnds'
    BY <2>2 DEF WarmUpEnds
  <2>9. /\ {} \in SUBSET BenchmarkSemaphores
        /\ {Benchmark(bench.frame)} \in SUBSET BenchmarkSemaphores
        /\ {} \subseteq Due /\ {Benchmark(bench.frame)} \cap Due = {}
        /\ {} \cap {Benchmark(bench.frame)} = {}
        /\ Due' = (Due \ {}) \cup {Benchmark(bench.frame)}
    BY <2>5, <2>6, <2>7
  <2> QED BY <1>4, <2>1, <2>8, <2>9
<1>6. CASE WarmUpDone
  <2>1. at = "warm up" /\ at' = "warm" /\ bench.frame = kSwapchainSize /\ Submit({}, {}, FALSE)
    BY <1>6 DEF WarmUpDone
  <2>2. Due = {Benchmark(i) : i \in 0 .. bench.frame - 1} /\ Due' = BenchmarkSemaphores
    BY <2>1, DueIs DEF DueTable
  <2>3. 0 .. bench.frame - 1 = BenchmarkImages
    BY <2>1 DEF BenchmarkImages
  <2>4. Due' = Due
    BY <2>2, <2>3 DEF BenchmarkSemaphores
  <2>5. WarmUpEnds'
    BY <2>1 DEF WarmUpEnds
  <2>6. /\ {} \in SUBSET BenchmarkSemaphores
        /\ {} \subseteq Due /\ {} \cap Due = {} /\ {} \cap {} = {} /\ Due' = (Due \ {}) \cup {}
    BY <2>4
  <2> QED BY <1>4, <2>1, <2>5, <2>6
<1>7. CASE WaitForImage
  <2>1. /\ at = "wait for image" /\ at' \in {"throttle", "draw"} /\ bench'.frame = bench.frame
        /\ Submit({now}, {}, FALSE)
    BY <1>7 DEF WaitForImage, HostTypes, now
  <2>2. Due = BenchmarkSemaphores /\ Due' = BenchmarkSemaphores \ {now}
    BY <2>1, DueIs DEF DueTable, now
  <2>3. WarmUpEnds'
    BY <2>1 DEF WarmUpEnds
  <2>4. /\ {} \in SUBSET BenchmarkSemaphores /\ {now} \in SUBSET BenchmarkSemaphores
        /\ {now} \subseteq Due /\ {} \cap Due = {} /\ {now} \cap {} = {}
        /\ Due' = (Due \ {now}) \cup {}
    BY <1>2, <2>2
  <2> QED BY <1>4, <2>1, <2>3, <2>4
<1>8. CASE DrawBenchmarkFrame
  <2>1. at = "draw" /\ at' = "wait for image" /\ Submit({}, {now}, TRUE)
    BY <1>8 DEF DrawBenchmarkFrame, now
  <2>2. Due = BenchmarkSemaphores \ {now} /\ Due' = BenchmarkSemaphores
    BY <2>1, DueIs DEF DueTable, now
  <2>3. WarmUpEnds'
    BY <2>1 DEF WarmUpEnds
  <2>4. /\ {} \in SUBSET BenchmarkSemaphores /\ {now} \in SUBSET BenchmarkSemaphores
        /\ {} \subseteq Due /\ {now} \cap Due = {} /\ {} \cap {now} = {}
        /\ Due' = (Due \ {}) \cup {now}
    BY <1>2, <2>2
  <2> QED BY <1>4, <2>1, <2>3, <2>4
<1>9. CASE WaitForLastFrame
  <2>1. at = "wait for image" /\ at' = "finish" /\ Submit({last}, {}, FALSE)
    BY <1>9 DEF WaitForLastFrame, last
  <2>2. Due = BenchmarkSemaphores /\ Due' = BenchmarkSemaphores \ {last}
    BY <2>1, DueIs DEF DueTable, last
  <2>3. WarmUpEnds'
    BY <2>1 DEF WarmUpEnds
  <2>4. /\ {} \in SUBSET BenchmarkSemaphores /\ {last} \in SUBSET BenchmarkSemaphores
        /\ {last} \subseteq Due /\ {} \cap Due = {} /\ {last} \cap {} = {}
        /\ Due' = (Due \ {last}) \cup {}
    BY <1>2, <2>2
  <2> QED BY <1>4, <2>1, <2>3, <2>4
<1> QED BY <1>5, <1>6, <1>7, <1>8, <1>9
------------------------------------------------------------------------------
(* The pairs of semaphores are used in turn: for one that the queue still  *)
(* waits for, the images presented since tell how far the turn has come.   *)
Presents(k) == {j \in 1..Len(queue) : j > k /\ queue[j].presents # NoImage}
After(k) == Cardinality(Presents(k))

Rotation ==
  \A k \in 1..Len(queue), i \in SwapchainImages :
    /\ Available(i) \notin queue[k].signals
    /\ Available(i) \in queue[k].waits =>
         /\ (i + After(k)) % ImageCount = next_semaphore_index
         /\ at # "present" => After(k) # 0

(* An image is in one place: free, acquired, presented in the queue, among *)
(* those that wait to be shown, or shown.                                  *)
Images ==
  /\ displays \in Seq(SwapchainImages) /\ free_images \subseteq SwapchainImages
  /\ image # NoImage <=> at \in {"render", "present"}
  /\ \A j \in 1..Len(queue) : queue[j].presents # NoImage =>
       /\ queue[j].presents \notin free_images
       /\ queue[j].presents # image /\ queue[j].presents # screen
       /\ \A k \in 1..Len(displays) : displays[k] # queue[j].presents
       /\ \A k \in 1..Len(queue) : queue[k].presents = queue[j].presents => j = k
  /\ \A j \in 1..Len(displays) :
       /\ displays[j] \notin free_images
       /\ displays[j] # image /\ displays[j] # screen
       /\ \A k \in 1..Len(displays) : displays[k] = displays[j] => j = k
  /\ image # NoImage => image \notin free_images /\ image # screen
  /\ screen \in SwapchainImages \cup {NoImage} /\ screen \notin free_images

LEMMA AfterIsNumber ==
  ASSUME QueueTypes, NEW k
  PROVE  After(k) \in Nat /\ IsFiniteSet(Presents(k))
<1>1. Len(queue) \in Nat
  BY DEF QueueTypes
<1>2. Presents(k) \in SUBSET (1..Len(queue))
  BY DEF Presents
<1> QED BY <1>1, <1>2, PositionsFinite DEF After

LEMMA AfterAppend ==
  ASSUME QueueTypes, NEW r \in Operation, queue' = Append(queue, r),
         NEW n, n = Len(queue)
  PROVE  /\ n \in Nat /\ Len(queue') = n + 1 /\ queue'[n + 1] = r
         /\ \A j \in 1..n : queue'[j] = queue[j]
         /\ \A k \in 1..n : After(k)' = After(k) + IF r.presents = NoImage THEN 0 ELSE 1
         /\ After(n + 1)' = 0
<1>0. n = Len(queue)
  OBVIOUS
<1>1. queue \in Seq(Operation) /\ n \in Nat
  BY <1>0 DEF QueueTypes
<1>2. Len(queue') = n + 1 /\ queue'[n + 1] = r /\ \A j \in 1..n : queue'[j] = queue[j]
  BY <1>0, <1>1
<1>3. NoImage' = NoImage
  BY DEF NoImage
<1>4. ASSUME NEW k \in 1..n
      PROVE  After(k)' = After(k) + IF r.presents = NoImage THEN 0 ELSE 1
  <2>1. Presents(k)' = IF r.presents = NoImage THEN Presents(k) ELSE Presents(k) \cup {n + 1}
    BY <1>0, <1>1, <1>2, <1>3 DEF Presents
  <2>2. n + 1 \notin Presents(k)
    BY <1>0, <1>1 DEF Presents
  <2>3. After(k) \in Nat /\ IsFiniteSet(Presents(k))
    BY AfterIsNumber
  <2>4. Cardinality(Presents(k) \cup {n + 1}) = Cardinality(Presents(k)) + 1
    BY <2>2, <2>3, FS_AddElement
  <2> QED BY <2>1, <2>3, <2>4 DEF After
<1>5. After(n + 1)' = 0
  <2>1. Presents(n + 1)' = {}
    BY <1>1, <1>2 DEF Presents
  <2> QED BY <2>1, FS_EmptySet DEF After
<1> QED BY <1>1, <1>2, <1>4, <1>5

LEMMA RotationOfSubmit ==
  ASSUME QueueTypes, Rotation, NEW r \in Operation, queue' = Append(queue, r),
         r.presents = NoImage, at # "present", next_semaphore_index' = next_semaphore_index,
         \A i \in SwapchainImages : Available(i) \notin r.signals,
         \A i \in SwapchainImages :
           Available(i) \in r.waits => i = next_semaphore_index /\ at' = "present"
  PROVE  Rotation'
<1>0. PICK n : n = Len(queue)
  OBVIOUS
<1>1. /\ n \in Nat /\ Len(queue') = n + 1 /\ queue'[n + 1] = r
      /\ \A j \in 1..n : queue'[j] = queue[j]
      /\ \A k \in 1..n : After(k)' = After(k) + 0
      /\ After(n + 1)' = 0
  BY <1>0, AfterAppend
<1>2. SUFFICES ASSUME NEW k \in 1 .. n + 1, NEW i \in SwapchainImages
               PROVE  /\ Available(i) \notin queue'[k].signals
                      /\ Available(i) \in queue'[k].waits =>
                           /\ (i + After(k)') % ImageCount = next_semaphore_index
                           /\ at' # "present" => After(k)' # 0
  BY <1>1 DEF Rotation, SwapchainImages, Available
<1>3. CASE k \in 1..n
  <2>1. After(k) \in Nat /\ After(k)' = After(k) + 0
    BY <1>1, <1>3, AfterIsNumber
  <2>2. After(k)' = After(k)
    BY <2>1
  <2>3. queue'[k] = queue[k]
    BY <1>1, <1>3
  <2> QED BY <1>0, <1>3, <2>2, <2>3 DEF Rotation
<1>4. CASE k = n + 1
  <2>1. queue'[k] = r /\ After(k)' = 0
    BY <1>1, <1>4
  <2>2. (i + 0) % ImageCount = i
    BY LoopAssumption DEF SwapchainImages
  <2> QED BY <2>1, <2>2
<1> QED BY <1>1, <1>3, <1>4

LEMMA RotationOfPresent ==
  ASSUME QueueTypes, Rotation, NEW r \in Operation, queue' = Append(queue, r),
         r.presents # NoImage,
         next_semaphore_index' = (next_semaphore_index + 1) % ImageCount,
         \A i \in SwapchainImages : Available(i) \notin r.signals \cup r.waits
  PROVE  Rotation'
<1>0. PICK n : n = Len(queue)
  OBVIOUS
<1>1. /\ n \in Nat /\ Len(queue') = n + 1 /\ queue'[n + 1] = r
      /\ \A j \in 1..n : queue'[j] = queue[j]
      /\ \A k \in 1..n : After(k)' = After(k) + 1
  BY <1>0, AfterAppend
<1>2. SUFFICES ASSUME NEW k \in 1 .. n + 1, NEW i \in SwapchainImages
               PROVE  /\ Available(i) \notin queue'[k].signals
                      /\ Available(i) \in queue'[k].waits =>
                           /\ (i + After(k)') % ImageCount = next_semaphore_index'
                           /\ After(k)' # 0
  BY <1>1 DEF Rotation, SwapchainImages, Available
<1>3. CASE k \in 1..n
  <2>1. After(k) \in Nat /\ After(k)' = After(k) + 1
    BY <1>1, <1>3, AfterIsNumber
  <2>2. After(k)' # 0
    BY <2>1
  <2>3. queue'[k] = queue[k]
    BY <1>1, <1>3
  <2>4. Available(i) \notin queue'[k].signals
    BY <1>0, <1>3, <2>3 DEF Rotation
  <2>5. ASSUME Available(i) \in queue'[k].waits
        PROVE  (i + After(k)') % ImageCount = next_semaphore_index'
    <3>1. (i + After(k)) % ImageCount = next_semaphore_index
      BY <1>0, <1>3, <2>3, <2>5 DEF Rotation
    <3>2. ImageCount \in Nat /\ ImageCount # 0 /\ i + After(k) \in Int /\ 1 \in Int
      BY <2>1, LoopAssumption DEF SwapchainImages
    <3>3. (((i + After(k)) % ImageCount) + 1) % ImageCount = ((i + After(k)) + 1) % ImageCount
      BY <3>2, ModPlus
    <3>4. (i + After(k)) + 1 = i + After(k)'
      BY <2>1 DEF SwapchainImages
    <3> QED BY <3>1, <3>3, <3>4
  <2> QED BY <2>2, <2>4, <2>5
<1>4. CASE k = n + 1
  BY <1>1, <1>4
<1> QED BY <1>1, <1>3, <1>4

LEMMA RotationOfExecute ==
  ASSUME QueueTypes, Rotation, queue # <<>>, queue' = Tail(queue), at' = at,
         next_semaphore_index' = next_semaphore_index
  PROVE  Rotation'
<1>0. PICK n : n = Len(queue)
  OBVIOUS
<1>1. queue \in Seq(Operation) /\ n \in Nat /\ n # 0
  BY <1>0 DEF QueueTypes
<1>2. Len(queue') = n - 1 /\ \A j \in 1 .. n - 1 : queue'[j] = queue[j + 1]
  BY <1>0, <1>1
<1>3. ASSUME NEW k \in 1 .. n - 1
      PROVE  After(k)' = After(k + 1)
  <2>1. n - 1 \in Nat /\ (n - 1) + 1 = n
    BY <1>1
  <2>2. Presents(k + 1) \in SUBSET (1 .. (n - 1) + 1)
    BY <1>0, <2>1 DEF Presents
  <2>3. NoImage' = NoImage
    BY DEF NoImage
  <2>4. Presents(k)' = {j \in 1 .. n - 1 : j + 1 \in Presents(k + 1)}
    BY <1>0, <1>1, <1>2, <2>3 DEF Presents
  <2>5. 1 \notin Presents(k + 1)
    BY DEF Presents
  <2> QED BY <2>1, <2>2, <2>4, <2>5, ShiftPositions DEF After
<1>4. SUFFICES ASSUME NEW k \in 1 .. n - 1, NEW i \in SwapchainImages
               PROVE  /\ Available(i) \notin queue'[k].signals
                      /\ Available(i) \in queue'[k].waits =>
                           /\ (i + After(k)') % ImageCount = next_semaphore_index
                           /\ at # "present" => After(k)' # 0
  BY <1>2 DEF Rotation, SwapchainImages, Available
<1>5. k + 1 \in 1..n /\ queue'[k] = queue[k + 1] /\ After(k)' = After(k + 1)
  BY <1>1, <1>2, <1>3
<1> QED BY <1>0, <1>5 DEF Rotation

LEMMA SameRotation ==
  ASSUME Rotation, queue' = queue, next_semaphore_index' = next_semaphore_index,
         at' = at \/ at # "present"
  PROVE  Rotation'
  BY DEF Rotation, After, Presents, NoImage, SwapchainImages, Available

(* While there is a free image, fewer are presented than there are images: *)
(* the turn has not come around to a pair that the queue waits for.        *)
LEMMA NextPairIsIdle ==
  ASSUME QueueTypes, Rotation, Images, at = "acquire", NEW f \in free_images,
         NEW k \in 1..Len(queue)
  PROVE  Available(next_semaphore_index) \notin queue[k].waits
<1> DEFINE q == next_semaphore_index
<1>1. SUFFICES ASSUME Available(q) \in queue[k].waits PROVE FALSE
  OBVIOUS
<1>2. PICK a : a = After(k)
  OBVIOUS
<1>3. /\ q \in 0 .. ImageCount - 1 /\ ImageCount \in Nat /\ ImageCount # 0
      /\ f \in 0 .. ImageCount - 1
  BY LoopAssumption DEF QueueTypes, Images, SwapchainImages
<1>4. a \in Nat /\ a # 0 /\ (q + a) % ImageCount = q
  BY <1>1, <1>2, AfterIsNumber DEF Rotation, QueueTypes
<1>5. a <= ImageCount - 1
  <2> DEFINE T == SwapchainImages \ {f}
             g == [j \in Presents(k) |-> queue[j].presents]
  <2>1. IsFiniteSet(T) /\ Cardinality(T) = ImageCount - 1
    <3>1. IsFiniteSet(SwapchainImages) /\ Cardinality(SwapchainImages) = ImageCount
      BY <1>3, FS_Interval DEF SwapchainImages
    <3>2. f \in SwapchainImages
      BY <1>3 DEF SwapchainImages
    <3> QED BY <3>1, <3>2, FS_RemoveElement
  <2>2. g \in [Presents(k) -> T]
    <3>1. SUFFICES ASSUME NEW j \in Presents(k) PROVE queue[j].presents \in T
      OBVIOUS
    <3>2. j \in 1..Len(queue) /\ queue[j].presents # NoImage
      BY DEF Presents
    <3>3. queue[j] \in Operation
      BY <3>2 DEF QueueTypes
    <3>4. queue[j].presents \in 0..ImageCount
      BY <3>3 DEF Operation
    <3>5. queue[j].presents # f
      BY <3>2 DEF Images
    <3> QED BY <1>3, <3>2, <3>4, <3>5 DEF SwapchainImages, NoImage
  <2>3. \A x, y \in Presents(k) : g[x] = g[y] => x = y
    BY DEF Presents, Images
  <2>4. IsFiniteSet(Presents(k))
    BY AfterIsNumber
  <2> HIDE DEF T, g
  <2>5. ~(Cardinality(T) < Cardinality(Presents(k)))
    BY <2>1, <2>2, <2>3, <2>4, FS_PigeonHole
  <2> QED BY <1>2, <1>3, <1>4, <2>1, <2>5 DEF After
<1> HIDE DEF q
<1>6. CASE q + a < ImageCount
  BY <1>3, <1>4, <1>6
<1>7. CASE q + a >= ImageCount
  <2>1. (q + a) - ImageCount \in 0 .. (ImageCount - 1) /\ 1 \in Int
        /\ 1 * ImageCount + ((q + a) - ImageCount) = q + a
    BY <1>3, <1>4, <1>5, <1>7
  <2>2. (q + a) % ImageCount = (q + a) - ImageCount
    BY <1>3, <2>1, ModUnique
  <2> QED BY <1>3, <1>4, <1>5, <2>2
<1> QED BY <1>3, <1>4, <1>6, <1>7
------------------------------------------------------------------------------
(* Where the images are.                                                   *)
LEMMA ImagesOfSubmit ==
  ASSUME QueueTypes, Images, NEW r \in Operation, queue' = Append(queue, r),
         r.presents = NoImage, UNCHANGED <<displays, free_images, screen, image>>,
         at' \in {"render", "present"} <=> at \in {"render", "present"}
  PROVE  Images'
<1>1. PICK n : n = Len(queue)
  OBVIOUS
<1>2. /\ n \in Nat /\ Len(queue') = n + 1 /\ queue'[n + 1] = r
      /\ \A j \in 1..n : queue'[j] = queue[j]
  BY <1>1, AfterAppend
<1>3. NoImage' = NoImage /\ SwapchainImages' = SwapchainImages
  BY DEF NoImage, SwapchainImages
<1>4. ASSUME NEW j \in 1 .. n + 1, queue'[j].presents # NoImage
      PROVE  j \in 1..n /\ queue'[j] = queue[j]
  BY <1>2, <1>4
<1>5. \A j \in 1 .. n + 1 : queue'[j].presents # NoImage =>
        /\ queue'[j].presents \notin free_images
        /\ queue'[j].presents # image /\ queue'[j].presents # screen
        /\ \A k \in 1..Len(displays) : displays[k] # queue'[j].presents
        /\ \A k \in 1 .. n + 1 : queue'[k].presents = queue'[j].presents => j = k
  BY <1>1, <1>2, <1>4 DEF Images
<1> QED BY <1>2, <1>3, <1>5 DEF Images

LEMMA ImagesOfPresent ==
  ASSUME QueueTypes, Images, at = "present", at' = "report",
         NEW r \in Operation, queue' = Append(queue, r), r.presents = image, image' = NoImage,
         UNCHANGED <<displays, free_images, screen>>
  PROVE  Images'
<1>1. PICK n : n = Len(queue)
  OBVIOUS
<1>2. /\ n \in Nat /\ Len(queue') = n + 1 /\ queue'[n + 1] = r
      /\ \A j \in 1..n : queue'[j] = queue[j]
  BY <1>1, AfterAppend
<1>3. /\ NoImage' = NoImage /\ SwapchainImages' = SwapchainImages
      /\ NoImage \notin SwapchainImages
  BY LoopAssumption DEF NoImage, SwapchainImages
<1>4. image # NoImage /\ image \notin free_images /\ image # screen
  BY DEF Images
<1>5. \A j \in 1..n : queue'[j].presents # NoImage => queue'[j].presents # image
  BY <1>1, <1>2 DEF Images
<1>6. \A j \in 1..Len(displays) : displays[j] # image /\ displays[j] # NoImage
  BY <1>3 DEF Images
<1>7. ASSUME NEW j \in 1 .. n + 1, queue'[j].presents # NoImage
      PROVE  /\ queue'[j].presents \notin free_images /\ queue'[j].presents # screen
             /\ \A k \in 1..Len(displays) : displays[k] # queue'[j].presents
             /\ \A k \in 1 .. n + 1 : queue'[k].presents = queue'[j].presents => j = k
  <2>1. CASE j = n + 1
    <3>1. queue'[j].presents = image
      BY <1>2, <2>1
    <3>2. \A k \in 1 .. n + 1 : queue'[k].presents = image => j = k
      BY <1>2, <1>4, <1>5, <2>1
    <3> QED BY <1>4, <1>6, <3>1, <3>2
  <2>2. CASE j \in 1..n
    <3>1. /\ queue'[j] = queue[j] /\ queue[j].presents # NoImage
          /\ queue'[j].presents # image
      BY <1>2, <1>5, <1>7, <2>2
    <3>2. \A k \in 1 .. n + 1 : queue'[k].presents = queue'[j].presents => j = k
      BY <1>1, <1>2, <2>2, <3>1 DEF Images
    <3> QED BY <1>1, <2>2, <3>1, <3>2 DEF Images
  <2> QED BY <1>2, <2>1, <2>2
<1>8. free_images \subseteq SwapchainImages
  BY DEF Images
<1>9. \A j \in 1 .. n + 1 : queue'[j].presents # NoImage =>
        /\ queue'[j].presents \notin free_images
        /\ queue'[j].presents # NoImage /\ queue'[j].presents # screen
        /\ \A k \in 1..Len(displays) : displays[k] # queue'[j].presents
        /\ \A k \in 1 .. n + 1 : queue'[k].presents = queue'[j].presents => j = k
  BY <1>7
<1> QED BY <1>2, <1>3, <1>6, <1>9 DEF Images

LEMMA ImagesOfExecute ==
  ASSUME QueueTypes, Images, GpuExecutesNext
  PROVE  Images'
<1>1. PICK n, p : n = Len(queue) /\ p = queue[1].presents
  OBVIOUS
<1>2. queue \in Seq(Operation) /\ n \in Nat /\ n # 0 /\ Head(queue) = queue[1] /\ 1 \in 1..n
  BY <1>1 DEF QueueTypes, GpuExecutesNext
<1>3. /\ Len(queue') = n - 1 /\ \A j \in 1 .. n - 1 : queue'[j] = queue[j + 1]
      /\ UNCHANGED <<at, free_images, screen, image>>
      /\ displays' = IF p = NoImage THEN displays ELSE Append(displays, p)
  BY <1>1, <1>2 DEF GpuExecutesNext
<1>4. /\ NoImage' = NoImage /\ SwapchainImages' = SwapchainImages
      /\ p # NoImage => p \in SwapchainImages
  <2>1. queue[1] \in Operation
    BY <1>1, <1>2
  <2>2. p \in 0..ImageCount
    BY <1>1, <2>1 DEF Operation
  <2> QED BY <2>2, LoopAssumption DEF NoImage, SwapchainImages
<1>5. \A j \in 1 .. n - 1 : queue'[j].presents # NoImage =>
        /\ queue'[j].presents \notin free_images
        /\ queue'[j].presents # image /\ queue'[j].presents # screen /\ queue'[j].presents # p
        /\ \A k \in 1..Len(displays) : displays[k] # queue'[j].presents
        /\ \A k \in 1 .. n - 1 : queue'[k].presents = queue'[j].presents => j = k
  <2>1. \A j \in 1 .. n - 1 : j + 1 \in 1..n /\ j + 1 # 1
    BY <1>2
  <2>2. \A j, k \in 1 .. n - 1 : j + 1 = k + 1 => j = k
    BY <1>2
  <2>3. ASSUME NEW j \in 1 .. n - 1, queue'[j].presents # NoImage
        PROVE  /\ queue'[j].presents \notin free_images
               /\ queue'[j].presents # image /\ queue'[j].presents # screen
               /\ \A k \in 1..Len(displays) : displays[k] # queue'[j].presents
               /\ \A k \in 1..n : queue[k].presents = queue'[j].presents => j + 1 = k
    <3>1. j + 1 \in 1..Len(queue) /\ queue'[j] = queue[j + 1]
      BY <1>1, <1>3, <2>1
    <3> QED BY <1>1, <2>3, <3>1 DEF Images
  <2>4. ASSUME NEW j \in 1 .. n - 1, queue'[j].presents # NoImage
        PROVE  /\ queue'[j].presents # p
               /\ \A k \in 1 .. n - 1 : queue'[k].presents = queue'[j].presents => j = k
    BY <1>1, <1>2, <1>3, <2>1, <2>2, <2>3, <2>4
  <2> QED BY <2>3, <2>4
<1>6. CASE p = NoImage
  BY <1>3, <1>4, <1>5, <1>6 DEF Images
<1>7. CASE p # NoImage
  <2>1. /\ p \notin free_images /\ p # image /\ p # screen
        /\ \A k \in 1..Len(displays) : displays[k] # p
    BY <1>1, <1>2, <1>7 DEF Images
  <2>2. PICK m : m = Len(displays)
    OBVIOUS
  <2>3. displays \in Seq(SwapchainImages) /\ m \in Nat
    BY <2>2 DEF Images
  <2>4. /\ displays' \in Seq(SwapchainImages) /\ Len(displays') = m + 1 /\ displays'[m + 1] = p
        /\ \A j \in 1..m : displays'[j] = displays[j]
    BY <1>3, <1>4, <1>7, <2>2, <2>3
  <2>5. \A j \in 1 .. m + 1 :
          /\ displays'[j] \notin free_images
          /\ displays'[j] # image /\ displays'[j] # screen
          /\ \A k \in 1 .. m + 1 : displays'[k] = displays'[j] => j = k
    BY <2>1, <2>2, <2>3, <2>4 DEF Images
  <2>6. \A j \in 1 .. n - 1 : queue'[j].presents # NoImage =>
          \A k \in 1 .. m + 1 : displays'[k] # queue'[j].presents
    BY <1>5, <2>2, <2>3, <2>4
  <2>7. UNCHANGED <<at, free_images, screen, image>>
    BY <1>3
  <2> QED BY <1>3, <1>4, <1>5, <2>4, <2>5, <2>6, <2>7 DEF Images
<1> QED BY <1>6, <1>7

LEMMA ImagesOfShow ==
  ASSUME QueueTypes, Images, EngineShows
  PROVE  Images'
<1>1. PICK m, d : m = Len(displays) /\ d = displays[1]
  OBVIOUS
<1>2. /\ displays \in Seq(SwapchainImages) /\ m \in Nat /\ m # 0 /\ Head(displays) = d
      /\ d \in SwapchainImages /\ 1 \in 1..m
  BY <1>1 DEF Images, EngineShows
<1>3. /\ screen' = d /\ free_images' = free_images \cup ({screen} \ {NoImage})
      /\ displays' \in Seq(SwapchainImages) /\ Len(displays') = m - 1
      /\ \A j \in 1 .. m - 1 : displays'[j] = displays[j + 1]
      /\ UNCHANGED <<at, image, queue>>
  BY <1>1, <1>2 DEF EngineShows
<1>4. /\ NoImage' = NoImage /\ SwapchainImages' = SwapchainImages
      /\ NoImage \notin SwapchainImages
  BY LoopAssumption DEF NoImage, SwapchainImages
<1>5. \A j \in 1 .. m - 1 : j + 1 \in 1..m /\ j + 1 # 1
  BY <1>2
<1>6. \A j \in 1 .. m - 1 :
        /\ displays'[j] \in SwapchainImages /\ displays'[j] \notin free_images'
        /\ displays'[j] # image /\ displays'[j] # d
        /\ \A k \in 1 .. m - 1 : displays'[k] = displays'[j] => j = k
  <2>1. \A j, k \in 1 .. m - 1 : j + 1 = k + 1 => j = k
    BY <1>2
  <2> QED BY <1>1, <1>2, <1>3, <1>5, <2>1 DEF Images
<1>7. \A j \in 1..Len(queue) : queue[j].presents # NoImage =>
        /\ queue[j].presents \notin free_images' /\ queue[j].presents # d
        /\ \A k \in 1 .. m - 1 : displays'[k] # queue[j].presents
  <2> TAKE j \in 1..Len(queue)
  <2> HAVE queue[j].presents # NoImage
  <2>1. /\ queue[j].presents \notin free_images /\ queue[j].presents # screen
        /\ \A k \in 1..m : displays[k] # queue[j].presents
    BY <1>1 DEF Images
  <2> QED BY <1>1, <1>2, <1>3, <1>5, <2>1
<1>8. d \notin free_images' /\ d # image
  BY <1>1, <1>2, <1>3 DEF Images
<1>9. image # NoImage => image \notin free_images'
  BY <1>3 DEF Images
<1>10. free_images' \subseteq SwapchainImages
  BY <1>3 DEF Images
<1> QED BY <1>2, <1>3, <1>4, <1>6, <1>7, <1>8, <1>9, <1>10 DEF Images

LEMMA ImagesOfAcquire ==
  ASSUME QueueTypes, Images, NEW i \in SwapchainImages, AcquireNextImage(i)
  PROVE  Images'
<1>1. /\ at' = "render" /\ image' = i /\ i \in free_images /\ free_images' = free_images \ {i}
      /\ UNCHANGED <<displays, screen, queue>>
  BY DEF AcquireNextImage
<1>2. /\ NoImage' = NoImage /\ SwapchainImages' = SwapchainImages
      /\ i # NoImage
  BY LoopAssumption DEF NoImage, SwapchainImages
<1> QED BY <1>1, <1>2 DEF Images

LEMMA SameImages ==
  ASSUME Images, UNCHANGED <<displays, free_images, screen, image, queue>>,
         at' \in {"render", "present"} <=> at \in {"render", "present"}
  PROVE  Images'
  BY DEF Images, NoImage, SwapchainImages
------------------------------------------------------------------------------
(* Every step keeps all this.                                              *)
SwapInv == QueueTypes /\ SignalsInv /\ Rotation /\ Images /\ WarmUpEnds

swapVars == <<displays, free_images, screen, image, next_semaphore_index>>

LEMMA SameSwap ==
  ASSUME SwapInv, UNCHANGED <<queue, semaphores, swapVars>>, Due' = Due, WarmUpEnds',
         at' \in {"render", "present"} <=> at \in {"render", "present"},
         at' = at \/ at # "present"
  PROVE  SwapInv'
<1>1. QueueTypes'
  BY DEF SwapInv, swapVars, QueueTypes, Operation, Semaphores, SwapchainImages, Available,
         RenderFinished, Benchmark, kSwapchainSize
<1>2. SignalsInv'
  BY SameSignals DEF SwapInv, Level
<1>3. Rotation' /\ Images'
  BY SameRotation, SameImages DEF SwapInv, swapVars
<1> QED BY <1>1, <1>2, <1>3 DEF SwapInv

LEMMA QueueOfSubmit ==
  ASSUME QueueTypes, NEW r \in Operation, queue' = Append(queue, r), r.waits \cap r.signals = {},
         semaphores' = semaphores, next_semaphore_index' \in SwapchainImages,
         image' \in 0 .. ImageCount
  PROVE  QueueTypes'
<1>1. PICK n : n = Len(queue)
  OBVIOUS
<1>2. /\ n \in Nat /\ Len(queue') = n + 1 /\ queue'[n + 1] = r
      /\ \A j \in 1..n : queue'[j] = queue[j]
  BY <1>1, AfterAppend
<1>3. queue \in Seq(Operation) /\ DOMAIN queue = 1..n
  BY <1>1 DEF QueueTypes
<1>4. queue' \in Seq(Operation) /\ DOMAIN queue' = 1 .. n + 1
  BY <1>2, <1>3
<1>5. \A k \in 1 .. n + 1 : queue'[k].waits \cap queue'[k].signals = {}
  BY <1>2, <1>3 DEF QueueTypes
<1>6. semaphores' \in [Semaphores -> {"unsignalled", "signalled", "pending"}]
  BY DEF QueueTypes
<1>7. Semaphores' = Semaphores /\ Operation' = Operation /\ SwapchainImages' = SwapchainImages
  BY DEF Semaphores, Operation, SwapchainImages, Available, RenderFinished, Benchmark, kSwapchainSize
<1> QED BY <1>4, <1>5, <1>6, <1>7 DEF QueueTypes

LEMMA SwapOfBenchmark ==
  ASSUME HostTypes, SwapInv,
         \/ WarmUp \/ WarmUpDone \/ Warm \/ WaitForImage \/ Throttle
         \/ DrawBenchmarkFrame \/ WaitForLastFrame \/ FinishBenchmark
  PROVE  SwapInv'
<1>1. CASE WarmUp \/ WarmUpDone \/ WaitForImage \/ DrawBenchmarkFrame \/ WaitForLastFrame
  <2>1. /\ semaphores' = semaphores /\ UNCHANGED swapVars
        /\ at \notin {"render", "present"} /\ at' \notin {"render", "present"}
    BY <1>1 DEF WarmUp, WarmUpDone, WaitForImage, DrawBenchmarkFrame, WaitForLastFrame,
                AfterBenchmarkStep, swapchainVars, swapVars
  <2>2. SignalsInv' /\ WarmUpEnds'
    BY <1>1, SignalsOfBenchmark DEF SwapInv
  <2>3. PICK r, w, u : SubmitsLike(r, w, u) /\ w \cap u = {} /\ w \cup u \subseteq BenchmarkSemaphores
    BY <1>1, SignalsOfBenchmark DEF SwapInv
  <2>4. /\ r \in Operation /\ r.waits = w /\ r.signals = u /\ r.presents = NoImage
        /\ queue' = Append(queue, r)
    BY <2>3 DEF SubmitsLike
  <2>5. \A i : Available(i) \notin w \cup u
    BY <2>3, SemaphoresDiffer DEF BenchmarkSemaphores
  <2>6. QueueTypes'
    BY <2>1, <2>3, <2>4, QueueOfSubmit DEF SwapInv, swapVars, QueueTypes
  <2>7. Rotation'
    BY <2>1, <2>4, <2>5, RotationOfSubmit DEF SwapInv, swapVars
  <2>8. Images'
    BY <2>1, <2>4, ImagesOfSubmit DEF SwapInv, swapVars
  <2> QED BY <2>2, <2>6, <2>7, <2>8 DEF SwapInv
<1>2. CASE Warm \/ Throttle
  <2>1. /\ UNCHANGED <<queue, semaphores, swapVars>>
        /\ \/ at = "warm" /\ at' = "wait for image"
           \/ at = "throttle" /\ at' = "draw" /\ bench'.frame = bench.frame
    BY <1>2 DEF Warm, Throttle, AfterBenchmarkStep, swapchainVars, swapVars, HostTypes
  <2>2. Due' = Due
    <3>1. BenchmarkSemaphores' = BenchmarkSemaphores
      BY DEF BenchmarkSemaphores, BenchmarkImages, Benchmark, kSwapchainSize
    <3> QED BY <2>1, <3>1, DueIs DEF DueTable, Benchmark, kSwapchainSize
  <2>3. WarmUpEnds'
    BY <2>1 DEF WarmUpEnds
  <2> QED BY <2>1, <2>2, <2>3, SameSwap
<1>3. CASE FinishBenchmark
  <2>1. /\ at = "finish" /\ at' = "acquire" /\ queue = <<>> /\ queue' = queue /\ UNCHANGED swapVars
        /\ semaphores' = [s \in Semaphores |-> IF s[1] = "benchmark" THEN "unsignalled"
                                               ELSE semaphores[s]]
    BY <1>3 DEF FinishBenchmark, swapchainVars, swapVars
  <2>2. QueueTypes'
    <3>1. semaphores' \in [Semaphores -> {"unsignalled", "signalled", "pending"}]
      BY <2>1 DEF SwapInv, QueueTypes
    <3> QED BY <2>1, <3>1 DEF SwapInv, swapVars, QueueTypes, Operation, Semaphores,
                              SwapchainImages, Available, RenderFinished, Benchmark, kSwapchainSize
  <2>3. SignalsInv'
    <3>1. SUFFICES ASSUME NEW s \in Semaphores
                   PROVE  Signals(s, 0)' \in {0, 1} /\ Signals(s, 0)' = DueNow(s)'
      <4>1. Len(queue') = 0
        BY <2>1
      <4> QED BY <4>1 DEF SignalsInv
    <3>2. Due \subseteq BenchmarkSemaphores /\ Due' = {}
      BY <2>1, DueIs DEF DueTable
    <3>3. Level(s)' = 0
      <4>1. CASE s[1] = "benchmark"
        BY <2>1, <4>1 DEF Level
      <4>2. CASE s[1] # "benchmark"
        <5>1. s \notin Due
          BY <3>2, <4>2, SemaphoresDiffer DEF BenchmarkSemaphores
        <5>2. Signals(s, 0) = 0
          BY <2>1, <5>1 DEF SwapInv, SignalsInv, DueNow
        <5>3. /\ Ups(s, 0) = {} /\ Downs(s, 0) = {}
          BY DEF Ups, Downs
        <5>4. Signals(s, 0) = Level(s) + 0 - 0
          BY <5>3, SignalsAre, FS_EmptySet
        <5>5. Level(s) = 0
          BY <5>2, <5>4 DEF Level
        <5> QED BY <2>1, <4>2, <5>5 DEF Level
      <4> QED BY <4>1, <4>2
    <3>4. Ups(s, 0)' = {} /\ Downs(s, 0)' = {}
      BY DEF Ups, Downs
    <3>5. Signals(s, 0)' = 0 + 0 - 0
      BY <3>3, <3>4, SignalsAre, FS_EmptySet
    <3> QED BY <3>2, <3>5 DEF DueNow
  <2>4. Rotation' /\ Images' /\ WarmUpEnds'
    BY <2>1, SameRotation, SameImages DEF SwapInv, swapVars, WarmUpEnds
  <2> QED BY <2>2, <2>3, <2>4 DEF SwapInv
<1> QED BY <1>1, <1>2, <1>3

LEMMA SwapOfDemo ==
  ASSUME HostTypes, SwapInv,
         \/ (\E key \in Keys : HandleKeyPress(key)) \/ EnterDrawFrame \/ Report \/ Quit
         \/ AcquireFails \/ UNCHANGED loopVars
  PROVE  SwapInv'
<1>1. CASE (\E key \in Keys : HandleKeyPress(key)) \/ UNCHANGED loopVars
  <2>1. UNCHANGED <<at, bench, queue, semaphores, swapVars>>
    BY <1>1 DEF HandleKeyPress, loopVars, swapchainVars, swapVars
  <2>2. Due' = Due
    BY <2>1 DEF Due, BenchmarkDue, swapVars, BenchmarkSemaphores, BenchmarkImages, Available,
                RenderFinished, Benchmark, kSwapchainSize
  <2> QED BY <2>1, <2>2, SameSwap DEF SwapInv, WarmUpEnds
<1>2. CASE EnterDrawFrame \/ Report \/ Quit \/ AcquireFails
  <2>1. /\ UNCHANGED <<queue, semaphores, swapVars>>
        /\ at \in {"poll", "acquire", "report"}
        /\ \/ at' \in {"poll", "acquire", "report", "quit"}
           \/ at' = "warm up" /\ bench'.frame = 0
    <3>1. CASE EnterDrawFrame
      <4>1. at' \in {"warm up", "acquire"}
        BY <3>1 DEF EnterDrawFrame
      <4> QED BY <3>1, <4>1 DEF EnterDrawFrame, swapchainVars, swapVars
    <3>2. CASE Report \/ Quit \/ AcquireFails
      BY <3>2 DEF Report, Quit, AcquireFails, swapchainVars, swapVars
    <3> QED BY <1>2, <3>1, <3>2
  <2>2. Due = {}
    BY <2>1, DueIs DEF DueTable
  <2>3. Due' = {}
    <3>1. CASE at' = "warm up" /\ bench'.frame = 0
      <4>1. Due' = {Benchmark(i) : i \in 0 .. 0 - 1}
        BY <3>1, DueIs DEF DueTable
      <4>2. 0 .. 0 - 1 = {}
        OBVIOUS
      <4> QED BY <4>1, <4>2
    <3>2. CASE at' \in {"poll", "acquire", "report", "quit"}
      BY <3>2, DueIs DEF DueTable
    <3> QED BY <2>1, <3>1, <3>2
  <2>4. WarmUpEnds'
    <3>1. 0 <= 3
      OBVIOUS
    <3> QED BY <2>1, <3>1 DEF WarmUpEnds, kSwapchainSize
  <2> QED BY <2>1, <2>2, <2>3, <2>4, SameSwap
<1> QED BY <1>1, <1>2

LEMMA SwapOfSwapchain ==
  ASSUME SwapInv, (\E i \in SwapchainImages : AcquireNextImage(i)) \/ Render \/ Present
  PROVE  SwapInv'
<1> DEFINE available == Available(next_semaphore_index)
           finished == RenderFinished(next_semaphore_index)
<1>1. next_semaphore_index \in SwapchainImages /\ available \in Semaphores
      /\ finished \in Semaphores /\ available # finished
  BY PairIsThere, SemaphoresDiffer DEF SwapInv, QueueTypes
<1>2. ASSUME NEW i \in SwapchainImages, AcquireNextImage(i)
      PROVE  SwapInv'
  <2>1. /\ at = "acquire" /\ at' = "render" /\ i \in free_images /\ image' = i
        /\ semaphores' = [semaphores EXCEPT ![available] = "pending"]
        /\ next_semaphore_index' = next_semaphore_index /\ queue' = queue
    BY <1>2 DEF AcquireNextImage
  <2>2. QueueTypes'
    <3>1. i \in 0 .. ImageCount
      BY LoopAssumption DEF SwapchainImages
    <3>2. semaphores' \in [Semaphores -> {"unsignalled", "signalled", "pending"}]
      BY <2>1 DEF SwapInv, QueueTypes
    <3> QED BY <2>1, <3>1, <3>2 DEF SwapInv, QueueTypes, Operation, Semaphores,
                  SwapchainImages, Available, RenderFinished, Benchmark, kSwapchainSize
  <2>3. Due = {} /\ Due' = {available}
    BY <2>1, DueIs DEF DueTable, Available
  <2>4. SignalsInv'
    <3>1. SUFFICES ASSUME NEW s \in Semaphores
                   PROVE  /\ \A k \in 0 .. Len(queue) : Signals(s, k)' \in {0, 1}
                          /\ Signals(s, Len(queue))' = DueNow(s)'
      BY <2>1 DEF SignalsInv
    <3>2. \A k : Ups(s, k)' = Ups(s, k) /\ Downs(s, k)' = Downs(s, k)
      BY <2>1 DEF Ups, Downs
    <3>3. CASE s # available
      <4>1. Level(s)' = Level(s)
        BY <2>1, <3>3 DEF Level, SwapInv, QueueTypes
      <4>2. DueNow(s)' = DueNow(s)
        BY <2>3, <3>3 DEF DueNow
      <4>3. \A k : Signals(s, k)' = Signals(s, k)
        BY <3>2, <4>1, SignalsAre
      <4> QED BY <2>1, <4>2, <4>3 DEF SwapInv, SignalsInv
    <3>4. CASE s = available
      <4>1. ASSUME NEW k \in 0 .. Len(queue) PROVE Ups(s, k) = {} /\ Downs(s, k) = {}
        <5>1. Len(queue) \in Nat
          BY DEF SwapInv, QueueTypes
        <5>2. \A j \in 1..k : j \in 1..Len(queue)
          BY <5>1
        <5>3. \A j \in 1..Len(queue) : s \notin queue[j].waits
          BY <2>1, <3>4, NextPairIsIdle DEF SwapInv
        <5>4. \A j \in 1..Len(queue) : s \notin queue[j].signals
          BY <1>1, <3>4 DEF SwapInv, Rotation
        <5> QED BY <5>2, <5>3, <5>4 DEF Ups, Downs
      <4>2. Level(s)' = 1
        BY <1>1, <2>1, <3>4 DEF Level, SwapInv, QueueTypes
      <4>3. \A k \in 0 .. Len(queue) : Signals(s, k)' = 1
        <5> TAKE k \in 0 .. Len(queue)
        <5>1. Cardinality(Ups(s, k)') = 0 /\ Cardinality(Downs(s, k)') = 0
          BY <3>2, <4>1, FS_EmptySet
        <5>2. Signals(s, k)' = 1 + 0 - 0
          BY <4>2, <5>1, SignalsAre
        <5> QED BY <5>2
      <4>4. Len(queue) \in Nat /\ DueNow(s)' = 1
        BY <2>3, <3>4 DEF SwapInv, QueueTypes, DueNow
      <4>5. Signals(s, Len(queue))' = 1
        <5>1. PICK n : n = Len(queue)
          OBVIOUS
        <5>2. Signals(s, n)' = 1
          BY <4>3, <4>4, <5>1
        <5> QED BY <2>1, <5>1, <5>2
      <4> QED BY <4>3, <4>4, <4>5
    <3> QED BY <3>3, <3>4
  <2>5. Rotation' /\ Images' /\ WarmUpEnds'
    BY <1>2, <2>1, SameRotation, ImagesOfAcquire DEF SwapInv, WarmUpEnds
  <2> QED BY <2>2, <2>4, <2>5 DEF SwapInv
<1>3. CASE Render
  <2>1. /\ at = "render" /\ at' = "present" /\ semaphores' = semaphores /\ UNCHANGED swapVars
        /\ Submit({available}, {finished}, TRUE)
    BY <1>3 DEF Render, swapchainVars, swapVars
  <2>2. PICK r : SubmitsLike(r, {available}, {finished})
    BY <1>1, <2>1, SubmitIs
  <2>3. /\ r \in Operation /\ r.waits = {available} /\ r.signals = {finished}
        /\ r.presents = NoImage /\ queue' = Append(queue, r)
    BY <2>2 DEF SubmitsLike
  <2> HIDE DEF available, finished
  <2>4. r.waits \cap r.signals = {}
    BY <1>1, <2>3
  <2>5. Due = {available} /\ Due' = {finished}
    BY <2>1, DueIs DEF DueTable, available, finished, swapVars, RenderFinished
  <2>6. SignalsInv'
    BY <1>1, <2>1, <2>3, <2>4, <2>5, SubmitSignals DEF SwapInv
  <2>7. QueueTypes'
    BY <2>1, <2>3, <2>4, QueueOfSubmit DEF SwapInv, swapVars, QueueTypes
  <2>8. /\ \A i \in SwapchainImages : Available(i) \notin r.signals
        /\ \A i \in SwapchainImages : Available(i) \in r.waits => i = next_semaphore_index
    BY <2>3, SemaphoresDiffer DEF available, finished
  <2>9. Rotation'
    BY <2>1, <2>3, <2>8, RotationOfSubmit DEF SwapInv, swapVars
  <2>10. Images' /\ WarmUpEnds'
    BY <2>1, <2>3, ImagesOfSubmit DEF SwapInv, swapVars, WarmUpEnds
  <2> QED BY <2>6, <2>7, <2>9, <2>10 DEF SwapInv
<1>4. CASE Present
  <2> DEFINE r == [waits |-> {finished}, signals |-> {}, draws |-> FALSE, presents |-> image]
  <2>1. /\ at = "present" /\ at' = "report" /\ semaphores' = semaphores
        /\ queue' = Append(queue, r) /\ image' = NoImage
        /\ next_semaphore_index' = (next_semaphore_index + 1) % ImageCount
        /\ UNCHANGED <<displays, free_images, screen>>
    BY <1>4 DEF Present
  <2>2. r \in Operation
    BY <1>1 DEF SwapInv, QueueTypes, Operation
  <2>3. /\ r.waits = {finished} /\ r.signals = {} /\ r.presents = image /\ image # NoImage
        /\ r.waits \cap r.signals = {}
    BY <2>1 DEF SwapInv, Images
  <2> HIDE DEF r, finished
  <2>4. Due = {finished} /\ Due' = {}
    BY <2>1, DueIs DEF DueTable, finished
  <2>5. SignalsInv'
    BY <2>1, <2>2, <2>3, <2>4, SubmitSignals DEF SwapInv
  <2>6. next_semaphore_index' \in SwapchainImages /\ image' \in 0 .. ImageCount
    BY <1>1, <2>1, LoopAssumption DEF SwapchainImages, NoImage
  <2>7. QueueTypes'
    BY <2>1, <2>2, <2>3, <2>6, QueueOfSubmit DEF SwapInv
  <2>8. \A i \in SwapchainImages : Available(i) \notin r.signals \cup r.waits
    BY <2>3, SemaphoresDiffer DEF finished
  <2>9. Rotation'
    BY <2>1, <2>2, <2>3, <2>8, RotationOfPresent DEF SwapInv
  <2>10. Images' /\ WarmUpEnds'
    BY <2>1, <2>2, <2>3, ImagesOfPresent DEF SwapInv, WarmUpEnds
  <2> QED BY <2>5, <2>7, <2>9, <2>10 DEF SwapInv
<1> QED BY <1>2, <1>3, <1>4

LEMMA SwapOfGpu ==
  ASSUME SwapInv, GpuExecutesNext \/ EngineShows \/ \E s \in Semaphores : EngineSignals(s)
  PROVE  SwapInv'
<1>1. UNCHANGED <<at, bench, next_semaphore_index, image>>
  BY DEF GpuExecutesNext, EngineShows, EngineSignals, swapchainVars
<1>2. Due' = Due /\ WarmUpEnds'
  BY <1>1 DEF SwapInv, WarmUpEnds, Due, BenchmarkDue, BenchmarkSemaphores, BenchmarkImages,
              Available, RenderFinished, Benchmark, kSwapchainSize
<1>3. /\ Operation' = Operation /\ Semaphores' = Semaphores
      /\ SwapchainImages' = SwapchainImages
  BY DEF Operation, Semaphores, SwapchainImages, Available, RenderFinished, Benchmark, kSwapchainSize
<1>4. CASE GpuExecutesNext
  <2>1. queue # <<>> /\ queue' = Tail(queue)
    BY <1>4 DEF GpuExecutesNext
  <2>2. QueueTypes'
    <3>1. semaphores' \in [Semaphores -> {"unsignalled", "signalled", "pending"}]
      BY <1>4 DEF GpuExecutesNext, SwapInv, QueueTypes
    <3>2. PICK n : n = Len(queue)
      OBVIOUS
    <3>3. /\ queue \in Seq(Operation) /\ n \in Nat /\ n # 0 /\ queue' \in Seq(Operation)
          /\ Len(queue') = n - 1 /\ \A j \in 1 .. n - 1 : queue'[j] = queue[j + 1]
      BY <2>1, <3>2 DEF SwapInv, QueueTypes
    <3>4. \A j \in 1 .. n - 1 : j + 1 \in DOMAIN queue
      BY <3>2, <3>3
    <3>5. \A j \in DOMAIN queue' : queue'[j].waits \cap queue'[j].signals = {}
      BY <3>3, <3>4 DEF SwapInv, QueueTypes
    <3> QED BY <1>1, <1>3, <3>1, <3>3, <3>5 DEF SwapInv, QueueTypes
  <2>3. SignalsInv'
    BY <1>2, <1>4, ExecuteSignals DEF SwapInv
  <2>4. Rotation'
    BY <1>1, <2>1, RotationOfExecute DEF SwapInv
  <2>5. Images'
    BY <1>4, ImagesOfExecute DEF SwapInv
  <2> QED BY <1>2, <2>2, <2>3, <2>4, <2>5 DEF SwapInv
<1>5. CASE EngineShows
  <2>1. queue' = queue /\ semaphores' = semaphores
    BY <1>5 DEF EngineShows
  <2>2. QueueTypes'
    BY <1>1, <1>3, <2>1 DEF SwapInv, QueueTypes
  <2>3. SignalsInv'
    BY <1>2, <2>1, SameSignals DEF SwapInv, Level
  <2>4. Rotation' /\ Images'
    BY <1>1, <1>5, <2>1, SameRotation, ImagesOfShow DEF SwapInv
  <2> QED BY <1>2, <2>2, <2>3, <2>4 DEF SwapInv
<1>6. ASSUME NEW s \in Semaphores, EngineSignals(s) PROVE SwapInv'
  <2>1. /\ queue' = queue /\ UNCHANGED <<displays, free_images, screen>>
        /\ semaphores[s] = "pending" /\ semaphores' = [semaphores EXCEPT ![s] = "signalled"]
    BY <1>6 DEF EngineSignals, swapchainVars
  <2>2. QueueTypes'
    <3>1. semaphores' \in [Semaphores -> {"unsignalled", "signalled", "pending"}]
      BY <2>1 DEF SwapInv, QueueTypes
    <3> QED BY <1>1, <1>3, <2>1, <3>1 DEF SwapInv, QueueTypes
  <2>3. \A t \in Semaphores : Level(t)' = Level(t)
    BY <2>1 DEF SwapInv, QueueTypes, Level
  <2>4. SignalsInv'
    BY <1>2, <2>1, <2>3, SameSignals DEF SwapInv
  <2>5. Rotation' /\ Images'
    BY <1>1, <2>1, SameRotation, SameImages DEF SwapInv
  <2> QED BY <1>2, <2>2, <2>4, <2>5 DEF SwapInv
<1> QED BY <1>4, <1>5, <1>6

LEMMA LoopInitSwap == LoopInit => SwapInv
<1> SUFFICES ASSUME LoopInit PROVE SwapInv
  OBVIOUS
<1>1. /\ at = "poll" /\ queue = <<>> /\ displays = <<>> /\ free_images = SwapchainImages
      /\ image = NoImage /\ screen = NoImage /\ next_semaphore_index = 0
      /\ semaphores = [s \in Semaphores |-> "unsignalled"]
  BY DEF LoopInit
<1>2. 0 \in SwapchainImages /\ NoImage \in 0 .. ImageCount /\ NoImage \notin SwapchainImages
  BY LoopAssumption DEF SwapchainImages, NoImage
<1>3. QueueTypes
  BY <1>1, <1>2 DEF QueueTypes
<1>4. Due = {}
  BY <1>1, DueIs DEF DueTable
<1>5. SignalsInv
  <2>1. SUFFICES ASSUME NEW s \in Semaphores
                 PROVE  Signals(s, 0) \in {0, 1} /\ Signals(s, 0) = DueNow(s)
    BY <1>1 DEF SignalsInv
  <2>2. Level(s) = 0
    BY <1>1 DEF Level
  <2>3. Ups(s, 0) = {} /\ Downs(s, 0) = {}
    BY DEF Ups, Downs
  <2>4. Signals(s, 0) = 0 + 0 - 0
    BY <2>2, <2>3, SignalsAre, FS_EmptySet
  <2> QED BY <1>4, <2>4 DEF DueNow
<1>6. Rotation /\ Images /\ WarmUpEnds
  BY <1>1, <1>2 DEF Rotation, Images, WarmUpEnds
<1> QED BY <1>3, <1>5, <1>6 DEF SwapInv

(* However many images there are and however late the GPU and the          *)
(* presentation engine are, a semaphore is signalled once for every time   *)
(* that it is waited for, although DrawFrame() asks neither of them        *)
(* (vk/vulkan_swapchain_helper.cc, renderer/renderer.cc).                  *)
THEOREM SemaphoresAreUsedInTurn == LoopSpec => []SemaphoresAlternate
<1>1. SwapInv => SemaphoresAlternate
  BY DEF SwapInv, SignalsInv, SemaphoresAlternate
<1>2. HostTypes /\ FlagsInv /\ SwapInv /\ [LoopNext]_loopVars => SwapInv'
  BY SwapOfDemo, SwapOfBenchmark, SwapOfSwapchain, SwapOfGpu DEF LoopNext, HostStep
<1> QED BY <1>1, <1>2, LoopInitFlags, LoopInitSwap, FlagsNext, PTL DEF LoopSpec
------------------------------------------------------------------------------
(* How far the benchmark is ahead.  Ahead(p) counts the frames in the      *)
(* queue behind position p.                                                *)
Frames(p) == {k \in 1..Len(queue) : /\ k > p /\ queue[k].draws
                                    /\ queue[k].presents = NoImage /\ queue[k].waits = {}}
Ahead(p) == Cardinality(Frames(p))

LEMMA AheadIsNumber ==
  ASSUME QueueTypes, NEW p
  PROVE  Ahead(p) \in Nat /\ IsFiniteSet(Frames(p))
<1>1. Len(queue) \in Nat
  BY DEF QueueTypes
<1>2. Frames(p) \in SUBSET (1..Len(queue))
  BY DEF Frames
<1> QED BY <1>1, <1>2, PositionsFinite DEF Ahead

LEMMA AheadFromTheFront ==
  ASSUME QueueTypes
  PROVE  /\ \A p \in Int : p <= 0 => Ahead(p) = Ahead(0)
         /\ Ahead(1) <= Ahead(0)
         /\ FramesAhead = Ahead(0)
<1>1. ASSUME NEW p \in Int, p <= 0 PROVE Ahead(p) = Ahead(0)
  <2>1. \A k \in 1..Len(queue) : k > p /\ k > 0
    BY <1>1 DEF QueueTypes
  <2>2. Frames(p) = Frames(0)
    BY <2>1 DEF Frames
  <2> QED BY <2>2 DEF Ahead
<1>2. Ahead(1) <= Ahead(0)
  <2>1. \A k \in 1..Len(queue) : k > 0
    BY DEF QueueTypes
  <2>2. Frames(1) \in SUBSET Frames(0)
    BY <2>1 DEF Frames
  <2> QED BY <2>2, AheadIsNumber, FS_Subset DEF Ahead
<1>3. FramesAhead = Ahead(0)
  <2>1. \A k \in 1..Len(queue) : k > 0
    BY DEF QueueTypes
  <2>2. DOMAIN queue = 1..Len(queue)
    BY DEF QueueTypes
  <2>3. Frames(0) = {k \in DOMAIN queue : queue[k].draws /\ queue[k].presents = NoImage
                                            /\ queue[k].waits = {}}
    BY <2>1, <2>2 DEF Frames
  <2> QED BY <2>3 DEF FramesAhead, Ahead
<1> QED BY <1>1, <1>2, <1>3

LEMMA AheadOfAppend ==
  ASSUME QueueTypes, NEW r \in Operation, queue' = Append(queue, r), NEW n, n = Len(queue),
         NEW p \in Int, p <= n
  PROVE  /\ Ahead(p)' = Ahead(p) + IF r.draws /\ r.presents = NoImage /\ r.waits = {}
                                   THEN 1 ELSE 0
         /\ Ahead(n + 1)' = 0
<1>1. /\ n = Len(queue) /\ n \in Nat /\ Len(queue') = n + 1 /\ queue'[n + 1] = r
      /\ \A j \in 1..n : queue'[j] = queue[j]
  BY AfterAppend
<1>2. NoImage' = NoImage
  BY DEF NoImage
<1> DEFINE counts == r.draws /\ r.presents = NoImage /\ r.waits = {}
<1>3. Frames(p)' = IF counts THEN Frames(p) \cup {n + 1} ELSE Frames(p)
  BY <1>1, <1>2 DEF Frames
<1>4. n + 1 \notin Frames(p)
  BY <1>1 DEF Frames
<1> HIDE DEF counts
<1>5. Cardinality(Frames(p) \cup {n + 1}) = Cardinality(Frames(p)) + 1
      /\ Ahead(p) \in Nat
  BY <1>4, AheadIsNumber, FS_AddElement
<1>6. Ahead(p)' = Ahead(p) + IF counts THEN 1 ELSE 0
  BY <1>3, <1>5 DEF Ahead
<1>7. Frames(n + 1)' = {}
  BY <1>1 DEF Frames
<1> QED BY <1>6, <1>7, FS_EmptySet DEF Ahead, counts

LEMMA AheadOfTail ==
  ASSUME QueueTypes, queue # <<>>, queue' = Tail(queue), NEW p \in Int
  PROVE  Ahead(p)' <= Ahead(p + 1) /\ Ahead(p)' \in Nat
<1>1. PICK n : n = Len(queue) - 1
  OBVIOUS
<1>2. /\ n \in Nat /\ Len(queue) = n + 1 /\ Len(queue') = n
      /\ \A j \in 1..n : queue'[j] = queue[j + 1]
  BY <1>1 DEF QueueTypes
<1>3. Frames(p + 1) \in SUBSET (1 .. n + 1)
  BY <1>2 DEF Frames
<1>4. NoImage' = NoImage
  BY DEF NoImage
<1>5. Frames(p)' = {j \in 1..n : j + 1 \in Frames(p + 1)}
  BY <1>2, <1>4 DEF Frames
<1>6. /\ Cardinality(Frames(p + 1)) \in Nat /\ Cardinality(Frames(p)') \in Nat
      /\ Cardinality(Frames(p)') = IF 1 \in Frames(p + 1) THEN Cardinality(Frames(p + 1)) - 1
                                                          ELSE Cardinality(Frames(p + 1))
  BY <1>2, <1>3, <1>5, ShiftPositions
<1> QED BY <1>6 DEF Ahead

(* The command buffers in the queue.                                       *)
LEMMA PendingIsNumber ==
  ASSUME QueueTypes
  PROVE  /\ Pending \in Nat /\ IsFiniteSet({k \in DOMAIN queue : queue[k].presents = NoImage})
         /\ (\A k \in 1..Len(queue) : queue[k].presents = NoImage) => Pending = Len(queue)
<1> DEFINE T == {k \in DOMAIN queue : queue[k].presents = NoImage}
<1>1. Len(queue) \in Nat /\ DOMAIN queue = 1..Len(queue)
  BY DEF QueueTypes
<1>2. T \in SUBSET (1..Len(queue))
  BY <1>1
<1>3. IsFiniteSet(T) /\ Cardinality(T) \in Nat
  BY <1>1, <1>2, PositionsFinite
<1>4. ASSUME \A k \in 1..Len(queue) : queue[k].presents = NoImage
      PROVE  Cardinality(T) = Len(queue)
  <2>1. T = 1..Len(queue)
    BY <1>1, <1>4
  <2>2. PICK n : n = Len(queue)
    OBVIOUS
  <2>3. n \in Nat /\ n \in Int /\ 1 \in Int
    BY <1>1, <2>2
  <2>4. Cardinality(1..n) = n
    BY <2>3, FS_Interval
  <2> QED BY <2>1, <2>2, <2>4
<1> QED BY <1>3, <1>4 DEF Pending

LEMMA PendingOfAppend ==
  ASSUME QueueTypes, NEW r \in Operation, queue' = Append(queue, r)
  PROVE  Pending' = Pending + IF r.presents = NoImage THEN 1 ELSE 0
<1> DEFINE T == {k \in DOMAIN queue : queue[k].presents = NoImage}
<1>1. PICK n : n = Len(queue)
  OBVIOUS
<1>2. /\ n \in Nat /\ Len(queue') = n + 1 /\ queue'[n + 1] = r
      /\ \A j \in 1..n : queue'[j] = queue[j]
      /\ DOMAIN queue = 1..n /\ DOMAIN queue' = 1 .. n + 1
  BY <1>1, AfterAppend DEF QueueTypes
<1>3. NoImage' = NoImage
  BY DEF NoImage
<1>4. T' = IF r.presents = NoImage THEN T \cup {n + 1} ELSE T
  BY <1>2, <1>3
<1>5. n + 1 \notin T
  BY <1>2
<1> HIDE DEF T
<1>6. IsFiniteSet(T) /\ Cardinality(T) \in Nat
  BY PendingIsNumber DEF T, Pending
<1>7. Cardinality(T \cup {n + 1}) = Cardinality(T) + 1
  BY <1>5, <1>6, FS_AddElement
<1>8. Pending = Cardinality(T) /\ Pending' = Cardinality(T')
  BY DEF Pending, T
<1> QED BY <1>4, <1>6, <1>7, <1>8

LEMMA PendingOfTail ==
  ASSUME QueueTypes, queue # <<>>, queue' = Tail(queue)
  PROVE  Pending' <= Pending /\ Pending' \in Nat
<1> DEFINE T == {k \in DOMAIN queue : queue[k].presents = NoImage}
<1>1. PICK n : n = Len(queue) - 1
  OBVIOUS
<1>2. /\ n \in Nat /\ DOMAIN queue = 1 .. n + 1 /\ DOMAIN queue' = 1..n
      /\ \A j \in 1..n : queue'[j] = queue[j + 1]
  BY <1>1 DEF QueueTypes
<1>3. NoImage' = NoImage
  BY DEF NoImage
<1>4. T' = {j \in 1..n : j + 1 \in T} /\ T \in SUBSET (1 .. n + 1)
  BY <1>2, <1>3
<1> HIDE DEF T
<1>5. /\ Cardinality(T) \in Nat /\ Cardinality(T') \in Nat
      /\ Cardinality(T') = IF 1 \in T THEN Cardinality(T) - 1 ELSE Cardinality(T)
  BY <1>2, <1>4, ShiftPositions
<1>6. Pending = Cardinality(T) /\ Pending' = Cardinality(T')
  BY DEF Pending, T
<1> QED BY <1>5, <1>6

(* The frames drawn since the command buffer that throttle points to, and  *)
(* where that one is in the queue, at 0 or less when it was executed.      *)
Turn == IF at = "draw" \/ bench.frame % kSwapchainSize # 0 THEN bench.frame % kSwapchainSize
        ELSE kSwapchainSize
Place == bench.throttle - (buffers - Len(queue))

OnlyBenchmark == \A k \in 1..Len(queue) : queue[k].presents = NoImage

Throttled ==
  /\ OnlyBenchmark
  /\ bench.throttle <= buffers
  /\ Ahead(0) <= kSwapchainSize + Turn
  /\ bench.throttle # Nobody => Ahead(Place) <= Turn
  /\ bench.throttle = Nobody => Ahead(0) = 0 /\ at # "draw" /\ bench.frame = 0
  /\ at = "throttle" => bench.frame % kSwapchainSize = 0 /\ buffers # 0

ThrottleInv ==
  /\ Pending <= buffers
  /\ InCycles => Throttled
  /\ at = "warm up" => Ahead(0) <= bench.frame
  /\ at = "warm" => Ahead(0) <= kSwapchainSize
  /\ at = "finish" => Ahead(0) <= 2 * kSwapchainSize
  /\ ~InBenchmark => Ahead(0) = 0

Adds(w, draws) == IF draws /\ w = {} THEN 1 ELSE 0

LEMMA SubmitCounts ==
  ASSUME HostTypes, QueueTypes, Pending <= buffers,
         NEW w \in SUBSET Semaphores, NEW u \in SUBSET Semaphores, NEW draws \in BOOLEAN,
         Submit(w, u, draws)
  PROVE  /\ buffers' = (IF buffers > Pending THEN buffers ELSE buffers + 1)
         /\ Pending' <= buffers' /\ buffers' # 0 /\ buffers' \in Nat
         /\ \A n \in Nat, p \in Int : n = Len(queue) /\ p <= n =>
              Ahead(p)' = Ahead(p) + Adds(w, draws) /\ Ahead(n + 1)' = 0
         /\ OnlyBenchmark => OnlyBenchmark'
<1> DEFINE r == [waits |-> w, signals |-> u, draws |-> draws, presents |-> NoImage]
<1>1. NoImage \in 0 .. ImageCount /\ NoImage' = NoImage
  BY LoopAssumption DEF NoImage
<1>2. r \in Operation /\ r.presents = NoImage /\ r.waits = w /\ r.draws = draws
  BY <1>1 DEF Operation
<1>3. queue' = Append(queue, r)
  BY DEF Submit
<1> HIDE DEF r
<1>4. buffers' = (IF buffers > Pending THEN buffers ELSE buffers + 1)
  BY DEF Submit, Reuses
<1>5. Pending' = Pending + 1 /\ Pending \in Nat /\ buffers \in Nat
  BY <1>2, <1>3, PendingOfAppend, PendingIsNumber DEF HostTypes
<1>6. Pending' <= buffers' /\ buffers' # 0 /\ buffers' \in Nat
  BY <1>4, <1>5
<1>7. ASSUME NEW n \in Nat, NEW p \in Int, n = Len(queue), p <= n
      PROVE  Ahead(p)' = Ahead(p) + Adds(w, draws) /\ Ahead(n + 1)' = 0
  BY <1>2, <1>3, <1>7, AheadOfAppend DEF Adds
<1>8. ASSUME OnlyBenchmark PROVE OnlyBenchmark'
  <2>1. PICK n : n = Len(queue)
    OBVIOUS
  <2>2. /\ n \in Nat /\ Len(queue') = n + 1 /\ queue'[n + 1] = r
        /\ \A j \in 1..n : queue'[j] = queue[j]
    BY <1>2, <1>3, <2>1, AfterAppend
  <2> QED BY <1>1, <1>2, <1>8, <2>1, <2>2 DEF OnlyBenchmark
<1> QED BY <1>4, <1>6, <1>7, <1>8

(* A command buffer that is used again becomes the last in the queue, and  *)
(* the throttle with it; else the throttle stays where it is.              *)
LEMMA ThrottleOfSubmit ==
  ASSUME HostTypes, QueueTypes, Pending <= buffers, OnlyBenchmark, bench.throttle <= buffers,
         NEW w \in SUBSET Semaphores, NEW u \in SUBSET Semaphores, NEW draws \in BOOLEAN,
         Submit(w, u, draws), bench'.throttle = Moved(bench.throttle)
  PROVE  /\ bench'.throttle <= buffers'
         /\ bench'.throttle = Nobody <=> bench.throttle = Nobody
         /\ bench.throttle # Nobody => /\ Ahead(Place)' <= Ahead(Place) + Adds(w, draws)
                                       /\ Ahead(Place)' \in Nat
<1>1. PICK n, B, C, T, U : /\ n = Len(queue) /\ B = buffers /\ C = buffers'
                           /\ T = bench.throttle /\ U = bench'.throttle
  OBVIOUS
<1>2. n \in Nat /\ Pending = n /\ B \in Nat /\ T \in Nat /\ n <= B /\ T <= B
  BY <1>1, PendingIsNumber DEF HostTypes, QueueTypes, OnlyBenchmark
<1>3. C = IF B > n THEN B ELSE B + 1
  BY <1>1, <1>2, SubmitCounts
<1>4. U = IF T = 0 \/ ~(B > n) THEN T ELSE IF T = 1 THEN B ELSE T - 1
  BY <1>1, <1>2 DEF Moved, Reuses, Nobody
<1>5. U <= C /\ (U = 0 <=> T = 0)
  BY <1>2, <1>3, <1>4
<1>6. Len(queue') = n + 1
  BY <1>1 DEF Submit, QueueTypes
<1>7. Place = T - (B - n) /\ Place' = U - (C - (n + 1))
  BY <1>1, <1>6 DEF Place
<1>8. ASSUME T # 0
      PROVE  Ahead(Place)' <= Ahead(Place) + Adds(w, draws) /\ Ahead(Place)' \in Nat
  <2>1. PICK p, q : p = T - (B - n) /\ q = U - (C - (n + 1))
    OBVIOUS
  <2>2. p \in Int /\ p <= n /\ (q = p \/ q = n + 1)
    BY <1>2, <1>3, <1>4, <1>8, <2>1
  <2>3. Ahead(p) \in Nat /\ Adds(w, draws) \in Nat
    BY AheadIsNumber DEF Adds
  <2>4. Ahead(p)' = Ahead(p) + Adds(w, draws) /\ Ahead(n + 1)' = 0
    BY <1>1, <1>2, <2>2, SubmitCounts
  <2>5. Ahead(q)' <= Ahead(p) + Adds(w, draws) /\ Ahead(q)' \in Nat
    BY <2>2, <2>3, <2>4
  <2>6. p = Place /\ q = Place'
    BY <1>7, <2>1
  <2> QED BY <2>5, <2>6 DEF Ahead, Frames
<1> QED BY <1>1, <1>5, <1>8 DEF Nobody

AfterTurn(f) == IF f % 3 # 0 THEN f % 3 ELSE 3

LEMMA TurnIs ==
  /\ at = "draw" => Turn = bench.frame % 3
  /\ at \in {"wait for image", "throttle"} => Turn = AfterTurn(bench.frame)
  /\ (at = "draw" => Turn = bench.frame % 3)'
  /\ (at \in {"wait for image", "throttle"} => Turn = AfterTurn(bench.frame))'
  BY DEF Turn, AfterTurn, kSwapchainSize

LEMMA TurnAdvances ==
  \A f \in Nat : /\ f % 3 \in 0..2 /\ AfterTurn(f) \in 1..3 /\ AfterTurn(f + 1) = (f % 3) + 1
                 /\ f % 3 # 0 => AfterTurn(f) = f % 3
                 /\ f % 3 = 0 => AfterTurn(f) = 3
  BY DEF AfterTurn

LEMMA ThrottleOfWarmUp ==
  ASSUME HostTypes, QueueTypes, ThrottleInv, WarmUpEnds,
         WarmUp \/ WarmUpDone \/ Warm \/ FinishBenchmark
  PROVE  ThrottleInv'
<1>1. Ahead(0) \in Nat /\ Ahead(0)' = Cardinality(Frames(0)') /\ Pending <= buffers
      /\ bench.frame \in Nat /\ kSwapchainSize = 3
  BY AheadIsNumber DEF Ahead, ThrottleInv, HostTypes, kSwapchainSize
<1>2. ASSUME NEW u \in SUBSET Semaphores, NEW draws \in BOOLEAN, Submit({}, u, draws)
      PROVE  Pending' <= buffers' /\ Ahead(0)' = Ahead(0) + Adds({}, draws)
  <2>1. PICK n \in Nat : n = Len(queue)
    BY DEF QueueTypes
  <2>2. 0 \in Int /\ 0 <= n /\ {} \in SUBSET Semaphores
    OBVIOUS
  <2> QED BY <1>1, <1>2, <2>1, <2>2, SubmitCounts
<1>3. CASE WarmUp
  <2>1. /\ at = "warm up" /\ at' = "warm up" /\ bench'.frame = bench.frame + 1
        /\ bench.frame < kSwapchainSize /\ Submit({}, {Benchmark(bench.frame)}, TRUE)
    BY <1>3 DEF WarmUp, HostTypes
  <2>2. {Benchmark(bench.frame)} \in SUBSET Semaphores
    <3>1. PICK f : f = bench.frame
      OBVIOUS
    <3>2. f \in 0 .. kSwapchainSize - 1
      <4>1. f \in Nat /\ f < 3
        BY <1>1, <2>1, <3>1
      <4> QED BY <4>1 DEF kSwapchainSize
    <3> QED BY <3>1, <3>2 DEF Semaphores
  <2>3. Pending' <= buffers' /\ Ahead(0)' = Ahead(0) + 1
    BY <1>2, <2>1, <2>2 DEF Adds
  <2>4. Ahead(0) <= bench.frame
    BY <2>1 DEF ThrottleInv
  <2>5. Ahead(0)' <= bench'.frame
    <3>1. PICK f, g : f = bench.frame /\ g = bench'.frame
      OBVIOUS
    <3>2. f \in Nat /\ g = f + 1 /\ Ahead(0) <= f /\ Ahead(0) \in Nat
      BY <1>1, <2>1, <2>4, <3>1
    <3> QED BY <2>3, <3>1, <3>2
  <2> QED BY <2>1, <2>3, <2>5 DEF ThrottleInv, InCycles, InBenchmark
<1>4. CASE WarmUpDone
  <2>1. /\ at = "warm up" /\ at' = "warm" /\ bench.frame = kSwapchainSize
        /\ Submit({}, {}, FALSE)
    BY <1>4 DEF WarmUpDone
  <2>2. Pending' <= buffers' /\ Ahead(0)' = Ahead(0) + 0
    BY <1>2, <2>1 DEF Adds
  <2>3. Ahead(0) <= kSwapchainSize
    BY <2>1 DEF ThrottleInv
  <2>4. Ahead(0)' <= kSwapchainSize
    BY <1>1, <2>2, <2>3
  <2> QED BY <2>1, <2>2, <2>4 DEF ThrottleInv, InCycles, InBenchmark, kSwapchainSize
<1>5. CASE Warm \/ FinishBenchmark
  <2>1. /\ queue = <<>> /\ queue' = queue /\ buffers' = buffers
        /\ \/ at' = "acquire"
           \/ at' = "wait for image" /\ bench'.frame = 0 /\ bench'.throttle = 0
    <3>1. CASE Warm
      BY <3>1 DEF Warm, Nobody
    <3>2. CASE FinishBenchmark
      BY <3>2 DEF FinishBenchmark
    <3> QED BY <1>5, <3>1, <3>2
  <2>2. 1..Len(queue') = {} /\ OnlyBenchmark'
    <3>1. queue' = <<>>
      BY <2>1
    <3>2. Len(queue') = 0 /\ 1..0 = {}
      BY <3>1
    <3> QED BY <3>2 DEF OnlyBenchmark
  <2>3. Pending' = Pending
    BY <2>1 DEF Pending, NoImage
  <2>4. Ahead(0)' = 0
    <3>1. Frames(0)' = {}
      BY <2>2 DEF Frames
    <3> QED BY <3>1, FS_EmptySet DEF Ahead
  <2>5. CASE at' = "acquire"
    BY <1>1, <2>1, <2>3, <2>4, <2>5 DEF ThrottleInv, InCycles, InBenchmark
  <2>6. CASE at' = "wait for image" /\ bench'.frame = 0 /\ bench'.throttle = 0
    <3>1. Turn' = AfterTurn(0) /\ AfterTurn(0) \in 1..3
      <4>1. 0 \in Nat
        OBVIOUS
      <4> QED BY <2>6, <4>1, TurnIs, TurnAdvances
    <3>2. 0 <= kSwapchainSize + Turn' /\ 0 <= buffers'
      <4>1. PICK t, c : t = Turn' /\ c = buffers'
        OBVIOUS
      <4>2. t \in 1..3 /\ c \in Nat
        BY <2>1, <3>1, <4>1 DEF HostTypes
      <4>3. 0 <= 3 + t /\ 0 <= c
        BY <4>2
      <4> QED BY <1>1, <4>1, <4>3
    <3>3. bench'.throttle <= buffers' /\ Ahead(0)' <= kSwapchainSize' + Turn'
      BY <2>4, <2>6, <3>2 DEF kSwapchainSize
    <3>4. at' # "throttle" /\ at' # "draw" /\ bench'.throttle = Nobody
      BY <2>6 DEF Nobody
    <3>5. Throttled'
      BY <2>2, <2>4, <2>6, <3>3, <3>4 DEF Throttled, Nobody
    <3> QED BY <1>1, <2>1, <2>3, <2>6, <3>5 DEF ThrottleInv, InCycles, InBenchmark
  <2> QED BY <2>1, <2>5, <2>6
<1> QED BY <1>3, <1>4, <1>5

LEMMA ThrottleOfCycle ==
  ASSUME HostTypes, QueueTypes, ThrottleInv,
         WaitForImage \/ Throttle \/ DrawBenchmarkFrame \/ WaitForLastFrame
  PROVE  ThrottleInv'
<1>1. /\ Throttled /\ Pending <= buffers /\ bench.frame \in Nat /\ bench.throttle \in Nat
      /\ Ahead(0) \in Nat /\ Ahead(Place) \in Nat /\ buffers \in Nat
  BY AheadIsNumber DEF ThrottleInv, InCycles, HostTypes, WaitForImage, Throttle,
                       DrawBenchmarkFrame, WaitForLastFrame
<1>2. PICK n, f, t : n = Len(queue) /\ f = bench.frame /\ t = Turn
  OBVIOUS
<1>3. n \in Nat /\ f \in Nat /\ 0 \in Int /\ 0 <= n
  BY <1>1, <1>2 DEF QueueTypes
<1>4. /\ OnlyBenchmark /\ bench.throttle <= buffers
      /\ Ahead(0) <= 3 + t /\ (bench.throttle # Nobody => Ahead(Place) <= t)
      /\ bench.throttle = Nobody => Ahead(0) = 0 /\ at # "draw" /\ bench.frame = 0
      /\ at = "throttle" => f % 3 = 0 /\ buffers # 0
  BY <1>1, <1>2 DEF Throttled, kSwapchainSize
<1>5. t \in Nat /\ (at = "draw" => t = f % 3) /\ (at # "draw" => t = AfterTurn(f))
  <2>1. at = "draw" \/ at \in {"wait for image", "throttle"}
    BY DEF WaitForImage, Throttle, DrawBenchmarkFrame, WaitForLastFrame
  <2>2. (at = "draw" => t = f % 3) /\ (at # "draw" => t = AfterTurn(f))
    BY <1>2, <2>1, TurnIs
  <2>3. f % 3 \in Nat /\ AfterTurn(f) \in Nat
    BY <1>3, TurnAdvances
  <2> QED BY <2>2, <2>3
<1>6. ASSUME Throttled', InCycles', Pending' <= buffers' PROVE ThrottleInv'
  BY <1>6 DEF ThrottleInv, InCycles, InBenchmark
<1>7. CASE WaitForImage
  <2> DEFINE w == {Benchmark(bench.frame % kSwapchainSize)}
  <2>1. /\ at = "wait for image" /\ Submit(w, {}, FALSE) /\ bench'.frame = f
        /\ bench'.throttle = Moved(bench.throttle)
        /\ IF f % 3 = 0 THEN at' = "throttle" ELSE at' = "draw"
    BY <1>2, <1>7 DEF WaitForImage, HostTypes, kSwapchainSize
  <2>2. w \in SUBSET Semaphores /\ {} \in SUBSET Semaphores /\ FALSE \in BOOLEAN
        /\ Adds(w, FALSE) = 0
    BY <1>1, SemaphoresAreThere DEF Adds
  <2> HIDE DEF w
  <2>3. /\ Pending' <= buffers' /\ buffers' # 0 /\ OnlyBenchmark'
        /\ Ahead(0)' = Ahead(0) + 0
    BY <1>1, <1>2, <1>3, <1>4, <2>1, <2>2, SubmitCounts
  <2>4. /\ bench'.throttle <= buffers'
        /\ bench'.throttle = Nobody <=> bench.throttle = Nobody
        /\ bench.throttle # Nobody => Ahead(Place)' <= Ahead(Place) + 0 /\ Ahead(Place)' \in Nat
    BY <1>1, <1>4, <2>1, <2>2, ThrottleOfSubmit
  <2>5. Turn' = t
    <3>1. CASE f % 3 = 0
      BY <1>5, <2>1, <3>1, TurnIs
    <3>2. CASE f % 3 # 0
      BY <1>3, <1>5, <2>1, <3>2, TurnIs, TurnAdvances
    <3> QED BY <3>1, <3>2
  <2>6. Ahead(0)' = Ahead(0) /\ Ahead(0)' <= 3 + Turn'
    BY <1>1, <1>4, <2>3, <2>5
  <2>7. bench.throttle # Nobody => Ahead(Place)' <= Turn'
    <3>1. ASSUME bench.throttle # Nobody PROVE Ahead(Place)' <= t
      <4>1. PICK a, b : a = Ahead(Place) /\ b = Ahead(Place)'
        OBVIOUS
      <4>2. a \in Nat /\ b \in Nat
        BY <1>1, <2>4, <3>1, <4>1
      <4>3. a <= t
        BY <1>4, <3>1, <4>1
      <4>4. b <= a + 0
        BY <2>4, <3>1, <4>1
      <4>5. b <= t
        <5>1. t \in Nat
          BY <1>5
        <5> QED BY <4>2, <4>3, <4>4, <5>1
      <4> QED BY <4>1, <4>5
    <3> QED BY <2>5, <3>1
  <2>8. bench.throttle = Nobody => at' # "draw"
    <3>1. 0 % 3 = 0
      OBVIOUS
    <3> QED BY <1>2, <1>4, <2>1, <3>1
  <2>9. at' = "throttle" => f % 3 = 0
    BY <2>1
  <2>10. bench'.throttle = Nobody' => Ahead(0)' = 0 /\ at' # "draw" /\ bench'.frame = 0
    BY <1>2, <1>4, <2>1, <2>4, <2>6, <2>8 DEF Nobody
  <2>11. kSwapchainSize = 3 /\ kSwapchainSize' = 3 /\ (bench.frame % 3)' = f % 3
    BY <2>1 DEF kSwapchainSize
  <2>12. bench'.throttle # Nobody' => Ahead(Place)' <= Turn'
    BY <2>4, <2>7 DEF Nobody
  <2>13. /\ (at = "throttle" => bench.frame % kSwapchainSize = 0 /\ buffers # 0)'
         /\ (Ahead(0) <= kSwapchainSize + Turn)'
    BY <2>3, <2>6, <2>9, <2>11
  <2>14. Throttled'
    <3>1. (bench.throttle <= buffers)'
      BY <2>4
    <3> QED BY <2>3, <2>10, <2>12, <2>13, <3>1 DEF Throttled
  <2> QED BY <1>6, <2>1, <2>3, <2>14 DEF InCycles
<1>8. CASE Throttle
  <2>1. /\ at = "throttle" /\ at' = "draw" /\ queue' = queue /\ buffers' = buffers
        /\ bench.throttle # Nobody => Waited(bench.throttle)
        /\ bench'.throttle = buffers /\ bench'.frame = f
    BY <1>2, <1>8 DEF Throttle, HostTypes
  <2>2. f % 3 = 0 /\ buffers # 0
    BY <1>4, <2>1
  <2>3. t = 3 /\ Turn' = 0
    <3>1. t = AfterTurn(f) /\ Turn' = bench'.frame % 3
      BY <1>5, <2>1, TurnIs
    <3> QED BY <1>3, <2>1, <2>2, <3>1, TurnAdvances
  <2>4. Pending = n
    BY <1>2, <1>4, PendingIsNumber DEF OnlyBenchmark
  <2>5. Ahead(0) <= 3
    <3>1. CASE bench.throttle = Nobody
      <4>1. Ahead(0) = 0
        BY <1>4, <3>1
      <4> QED BY <4>1
    <3>2. CASE bench.throttle # Nobody
      <4>1. bench.throttle <= buffers - n
        BY <2>1, <2>4, <3>2 DEF Waited
      <4>2. Place \in Int /\ Place <= 0
        BY <1>1, <1>2, <1>3, <4>1 DEF Place
      <4>3. Ahead(Place) = Ahead(0)
        BY <4>2, AheadFromTheFront
      <4>4. Ahead(Place) <= 3
        BY <1>4, <2>3, <3>2
      <4> QED BY <4>3, <4>4
    <3> QED BY <3>1, <3>2
  <2>6. Ahead(Place)' = 0
    <3>1. Place' = n
      <4>1. Place' = buffers - (buffers - n)
        BY <1>2, <2>1 DEF Place
      <4> QED BY <1>1, <1>3, <4>1
    <3>2. Frames(n)' = {}
      BY <1>2, <1>3, <2>1 DEF Frames
    <3> QED BY <3>1, <3>2, FS_EmptySet DEF Ahead, Frames
  <2>7. (Ahead(0) <= kSwapchainSize + Turn)'
    <3>1. Ahead(0)' = Ahead(0)
      BY <2>1 DEF Ahead, Frames, NoImage
    <3>2. Ahead(0)' <= 3 + 0
      BY <1>1, <2>5, <3>1
    <3> QED BY <2>3, <3>2 DEF kSwapchainSize
  <2>8. (Ahead(Place) <= Turn)' /\ (bench.throttle <= buffers)'
    <3>1. 0 <= 0 /\ buffers <= buffers
      BY <1>1
    <3> QED BY <2>1, <2>3, <2>6, <3>1
  <2>9. (bench.throttle # Nobody)' /\ (at # "throttle")'
    BY <2>1, <2>2 DEF Nobody
  <2>10. OnlyBenchmark' /\ Pending' = Pending
    BY <1>4, <2>1 DEF OnlyBenchmark, Pending, NoImage
  <2>11. Throttled'
    BY <2>7, <2>8, <2>9, <2>10 DEF Throttled
  <2> QED BY <1>1, <1>6, <2>1, <2>10, <2>11 DEF InCycles
<1>9. CASE DrawBenchmarkFrame
  <2> DEFINE u == {Benchmark(bench.frame % kSwapchainSize)}
  <2>1. /\ at = "draw" /\ at' = "wait for image" /\ Submit({}, u, TRUE)
        /\ bench'.frame = f + 1 /\ bench'.throttle = Moved(bench.throttle)
    BY <1>2, <1>9 DEF DrawBenchmarkFrame, HostTypes
  <2>2. u \in SUBSET Semaphores /\ {} \in SUBSET Semaphores /\ TRUE \in BOOLEAN
        /\ Adds({}, TRUE) = 1
    BY <1>1, SemaphoresAreThere DEF Adds
  <2> HIDE DEF u
  <2>3. Pending' <= buffers' /\ OnlyBenchmark' /\ Ahead(0)' = Ahead(0) + 1
    BY <1>1, <1>2, <1>3, <1>4, <2>1, <2>2, SubmitCounts
  <2>4. /\ bench'.throttle <= buffers'
        /\ bench'.throttle = Nobody <=> bench.throttle = Nobody
        /\ bench.throttle # Nobody => Ahead(Place)' <= Ahead(Place) + 1 /\ Ahead(Place)' \in Nat
    BY <1>1, <1>4, <2>1, <2>2, ThrottleOfSubmit
  <2>5. t = f % 3 /\ Turn' = t + 1
    <3>1. t = f % 3 /\ Turn' = AfterTurn(bench'.frame)
      BY <1>5, <2>1, TurnIs DEF AfterTurn
    <3> QED BY <1>3, <2>1, <3>1, TurnAdvances
  <2>6. (Ahead(0) <= kSwapchainSize + Turn)'
    <3>1. Ahead(0) <= 3 + t /\ t \in Nat
      BY <1>4, <1>5
    <3>2. Ahead(0)' <= 3 + (t + 1)
      BY <1>1, <2>3, <3>1
    <3> QED BY <2>5, <3>2 DEF kSwapchainSize
  <2>7. bench.throttle # Nobody
    BY <1>4, <2>1
  <2>8. (Ahead(Place) <= Turn)'
    <3>1. PICK a, c : a = Ahead(Place) /\ c = Ahead(Place)'
      OBVIOUS
    <3>2. a \in Nat /\ c \in Nat /\ c <= a + 1
      BY <1>1, <2>4, <2>7, <3>1
    <3>3. a <= t /\ t \in Nat
      BY <1>4, <1>5, <2>7, <3>1
    <3>4. c <= t + 1
      BY <3>2, <3>3
    <3> QED BY <2>5, <3>1, <3>4
  <2>9. (bench.throttle # Nobody)' /\ (at # "throttle")' /\ (bench.throttle <= buffers)'
    BY <2>1, <2>4, <2>7 DEF Nobody
  <2>10. Throttled'
    BY <2>3, <2>6, <2>8, <2>9 DEF Throttled
  <2> QED BY <1>6, <2>1, <2>3, <2>10 DEF InCycles
<1>10. CASE WaitForLastFrame
  <2> DEFINE w == {Benchmark((FrameCount - 1) % kSwapchainSize)}
  <2>1. at = "wait for image" /\ at' = "finish" /\ Submit(w, {}, FALSE)
    BY <1>10 DEF WaitForLastFrame
  <2>2. w \in SUBSET Semaphores /\ {} \in SUBSET Semaphores /\ FALSE \in BOOLEAN
        /\ Adds(w, FALSE) = 0
    BY LastFrame, SemaphoresAreThere DEF Adds
  <2> HIDE DEF w
  <2>3. Pending' <= buffers' /\ Ahead(0)' = Ahead(0) + 0
    BY <1>1, <1>2, <1>3, <1>4, <2>1, <2>2, SubmitCounts
  <2>4. t \in 1..3
    BY <1>3, <1>5, <2>1, TurnAdvances
  <2>5. Ahead(0) <= 3 + t
    BY <1>4
  <2>6. Ahead(0)' <= 2 * 3
    BY <1>1, <2>3, <2>4, <2>5
  <2> QED BY <2>1, <2>3, <2>6 DEF ThrottleInv, InCycles, InBenchmark, kSwapchainSize
<1> QED BY <1>7, <1>8, <1>9, <1>10

LEMMA ZeroIsZero == 0 <= 0
  OBVIOUS

LEMMA SameThrottle ==
  ASSUME ThrottleInv, UNCHANGED <<queue, buffers>>, bench.frame \in Nat,
         \/ UNCHANGED <<at, bench>>
         \/ ~InBenchmark /\ ~InBenchmark'
         \/ ~InBenchmark /\ at' = "warm up" /\ bench'.frame = 0
  PROVE  ThrottleInv'
<1>1. Ahead(0)' = Ahead(0) /\ Pending' = Pending /\ Pending <= buffers
  BY DEF Ahead, Frames, Pending, NoImage, ThrottleInv
<1>2. CASE UNCHANGED <<at, bench>>
  <2>1. Ahead(Place)' = Ahead(Place) /\ Turn' = Turn /\ OnlyBenchmark' = OnlyBenchmark
    BY <1>2 DEF Ahead, Frames, NoImage, Place, Turn, kSwapchainSize, OnlyBenchmark
  <2>2. Throttled' = Throttled
    BY <1>1, <1>2, <2>1 DEF Throttled, Nobody, kSwapchainSize
  <2> QED BY <1>1, <1>2, <2>2 DEF ThrottleInv, InCycles, InBenchmark, kSwapchainSize
<1>3. CASE ~InBenchmark /\ ~InBenchmark'
  <2>1. at' \notin {"warm up", "warm", "finish"} /\ ~InCycles'
    BY <1>3 DEF InBenchmark
  <2>2. Ahead(0)' = 0
    BY <1>1, <1>3 DEF ThrottleInv
  <2> QED BY <1>1, <2>1, <2>2 DEF ThrottleInv
<1>4. CASE ~InBenchmark /\ at' = "warm up" /\ bench'.frame = 0
  <2>1. Ahead(0)' = 0
    BY <1>1, <1>4 DEF ThrottleInv
  <2>2. Ahead(0)' <= bench'.frame
    <3>1. bench'.frame = 0
      BY <1>4
    <3> QED BY <2>1, <3>1, ZeroIsZero
  <2> QED BY <1>1, <1>4, <2>2 DEF ThrottleInv, InCycles, InBenchmark
<1> QED BY <1>2, <1>3, <1>4

LEMMA ThrottleOfRest ==
  ASSUME HostTypes, QueueTypes, Images, ThrottleInv,
         \/ (\E key \in Keys : HandleKeyPress(key)) \/ EnterDrawFrame \/ Report \/ Quit
         \/ (\E i \in SwapchainImages : AcquireNextImage(i)) \/ AcquireFails
         \/ Render \/ Present \/ EngineShows
         \/ (\E s \in Semaphores : EngineSignals(s)) \/ UNCHANGED loopVars
  PROVE  ThrottleInv'
<1>0. bench.frame \in Nat /\ Pending <= buffers
  BY DEF HostTypes, ThrottleInv
<1>1. CASE \/ (\E key \in Keys : HandleKeyPress(key)) \/ EngineShows
           \/ (\E s \in Semaphores : EngineSignals(s)) \/ UNCHANGED loopVars
  <2>1. UNCHANGED <<at, bench, queue, buffers>>
    BY <1>1 DEF HandleKeyPress, EngineShows, EngineSignals, loopVars
  <2> QED BY <1>0, <2>1, SameThrottle
<1>2. CASE EnterDrawFrame
  <2>1. /\ at = "poll" /\ at' \in {"warm up", "acquire"} /\ bench'.frame = 0
        /\ queue' = queue /\ buffers' = buffers
    BY <1>2 DEF EnterDrawFrame
  <2>2. ~InBenchmark /\ (~InBenchmark' \/ at' = "warm up")
    BY <2>1 DEF InBenchmark, InCycles
  <2> QED BY <1>0, <2>1, <2>2, SameThrottle
<1>3. CASE Report \/ Quit \/ AcquireFails \/ \E i \in SwapchainImages : AcquireNextImage(i)
  <2>1. /\ at \in {"poll", "report", "acquire"} /\ at' \in {"poll", "quit", "report", "render"}
        /\ queue' = queue /\ buffers' = buffers
    BY <1>3 DEF Report, Quit, AcquireFails, AcquireNextImage
  <2>2. ~InBenchmark /\ ~InBenchmark'
    BY <2>1 DEF InBenchmark, InCycles
  <2> QED BY <1>0, <2>1, <2>2, SameThrottle
<1>4. PICK n \in Nat : n = Len(queue) /\ 0 <= n /\ 0 \in Int
  BY DEF QueueTypes
<1>5. CASE Render
  <2> DEFINE w == {Available(next_semaphore_index)}
             u == {RenderFinished(next_semaphore_index)}
  <2>1. at = "render" /\ at' = "present" /\ Submit(w, u, TRUE)
    BY <1>5 DEF Render
  <2>2. w \in SUBSET Semaphores /\ u \in SUBSET Semaphores /\ Adds(w, TRUE) = 0
    BY PairIsThere DEF QueueTypes, Adds
  <2> HIDE DEF w, u
  <2>3. Pending' <= buffers' /\ Ahead(0)' = Ahead(0) + 0
    BY <1>0, <1>4, <2>1, <2>2, SubmitCounts
  <2>4. Ahead(0) = 0
    BY <2>1 DEF ThrottleInv, InBenchmark, InCycles
  <2>5. Ahead(0)' = 0
    BY <2>3, <2>4
  <2> QED BY <2>1, <2>3, <2>5 DEF ThrottleInv, InCycles, InBenchmark
<1>6. CASE Present
  <2> DEFINE r == [waits |-> {RenderFinished(next_semaphore_index)}, signals |-> {}, draws |-> FALSE,
                   presents |-> image]
  <2>1. at = "present" /\ at' = "report" /\ queue' = Append(queue, r) /\ buffers' = buffers
    BY <1>6 DEF Present
  <2>2. r \in Operation /\ r.waits # {} /\ r.presents # NoImage
    BY <2>1, PairIsThere DEF QueueTypes, Operation, Images
  <2> HIDE DEF r
  <2>3. Ahead(0)' = Ahead(0) + 0
    BY <1>4, <2>1, <2>2, AheadOfAppend
  <2>4. Pending' = Pending + 0 /\ Pending \in Nat
    BY <2>1, <2>2, PendingOfAppend, PendingIsNumber
  <2>5. Ahead(0) = 0
    BY <2>1 DEF ThrottleInv, InBenchmark, InCycles
  <2>6. Ahead(0)' = 0 /\ Pending' = Pending
    BY <2>3, <2>4, <2>5
  <2> QED BY <1>0, <2>1, <2>6 DEF ThrottleInv, InCycles, InBenchmark
<1> QED BY <1>1, <1>2, <1>3, <1>5, <1>6

(* The GPU only reduces what is ahead.                                     *)
LEMMA ThrottleOfGpu ==
  ASSUME HostTypes, QueueTypes, ThrottleInv, GpuExecutesNext
  PROVE  ThrottleInv'
<1>1. /\ queue # <<>> /\ queue' = Tail(queue) /\ UNCHANGED <<at, bench, buffers>>
      /\ Pending <= buffers /\ buffers \in Nat
  BY DEF GpuExecutesNext, ThrottleInv, HostTypes
<1>2. PICK n : n = Len(queue)
  OBVIOUS
<1>3. /\ queue \in Seq(Operation) /\ n \in Nat /\ n # 0 /\ Len(queue') = n - 1
      /\ \A j \in 1 .. n - 1 : queue'[j] = queue[j + 1]
  BY <1>1, <1>2 DEF QueueTypes
<1>4. Pending' <= buffers'
  <2>1. Pending' <= Pending /\ Pending' \in Nat /\ Pending \in Nat
    BY <1>1, PendingOfTail, PendingIsNumber
  <2> QED BY <1>1, <2>1
<1>5. PICK a, b : a = Ahead(0) /\ b = Ahead(0)'
  OBVIOUS
<1>6. a \in Nat /\ b \in Nat /\ b <= a
  <2>1. 0 \in Int /\ 0 + 1 = 1
    OBVIOUS
  <2>2. Ahead(0)' <= Ahead(1) /\ Ahead(0)' \in Nat
    BY <1>1, <2>1, AheadOfTail
  <2>3. Ahead(1) <= Ahead(0) /\ Ahead(0) \in Nat /\ Ahead(1) \in Nat
    BY AheadFromTheFront, AheadIsNumber
  <2> QED BY <1>5, <2>2, <2>3
<1>7. \A m \in Nat : a <= m => b <= m
  BY <1>6
<1>8. a = 0 => b = 0
  BY <1>6
<1>9. ASSUME InCycles PROVE Throttled'
  <2>1. /\ OnlyBenchmark /\ bench.throttle <= buffers /\ bench.throttle \in Nat
        /\ Ahead(0) <= kSwapchainSize + Turn /\ bench.frame \in Nat
        /\ bench.throttle # Nobody => Ahead(Place) <= Turn
    BY <1>9 DEF ThrottleInv, Throttled, HostTypes
  <2>2. OnlyBenchmark'
    <3>1. \A j \in 1 .. n - 1 : j + 1 \in 1..n
      BY <1>3
    <3> QED BY <1>2, <1>3, <2>1, <3>1 DEF OnlyBenchmark, NoImage
  <2>3. Turn' = Turn /\ Turn \in Nat
    <3>1. Turn' = Turn
      BY <1>1 DEF Turn, kSwapchainSize
    <3>2. bench.frame % 3 \in Nat /\ 3 \in Nat
      BY <2>1
    <3> QED BY <3>1, <3>2 DEF Turn, kSwapchainSize
  <2>4. (Ahead(0) <= kSwapchainSize + Turn)'
    <3>1. PICK t : t = Turn
      OBVIOUS
    <3>2. t \in Nat /\ 3 + t \in Nat /\ a <= 3 + t
      BY <1>5, <2>1, <2>3, <3>1 DEF kSwapchainSize
    <3>3. b <= 3 + t
      BY <1>7, <3>2
    <3> QED BY <1>5, <2>3, <3>1, <3>3 DEF kSwapchainSize
  <2>5. bench.throttle # Nobody => Ahead(Place)' <= Turn
    <3>1. SUFFICES ASSUME bench.throttle # Nobody PROVE Ahead(Place)' <= Turn
      OBVIOUS
    <3>2. PICK T, B, p : T = bench.throttle /\ B = buffers /\ p = T - (B - (n - 1))
      OBVIOUS
    <3>3. p \in Int /\ p + 1 = T - (B - n)
      BY <1>1, <1>3, <2>1, <3>2
    <3>4. Place' = p /\ Place = p + 1
      BY <1>1, <1>2, <1>3, <3>2, <3>3 DEF Place
    <3>5. PICK c, d, t : c = Ahead(p)' /\ d = Ahead(p + 1) /\ t = Turn
      OBVIOUS
    <3>6. c <= d /\ c \in Nat /\ d \in Nat
      BY <1>1, <3>3, <3>5, AheadOfTail, AheadIsNumber
    <3>7. d <= t /\ t \in Nat
      BY <2>1, <2>3, <3>1, <3>4, <3>5
    <3>8. c <= t
      BY <3>6, <3>7
    <3>9. Ahead(Place)' = c
      BY <3>4, <3>5 DEF Ahead, Frames
    <3> QED BY <3>5, <3>8, <3>9
  <2>6. (bench.throttle # Nobody => Ahead(Place) <= Turn)'
    BY <1>1, <2>3, <2>5 DEF Nobody
  <2>7. (bench.throttle = Nobody => Ahead(0) = 0 /\ at # "draw" /\ bench.frame = 0)'
    BY <1>1, <1>5, <1>8, <1>9 DEF ThrottleInv, Throttled, Nobody
  <2>8. (at = "throttle" => bench.frame % kSwapchainSize = 0 /\ buffers # 0)'
    BY <1>1, <1>9 DEF ThrottleInv, Throttled, kSwapchainSize
  <2>9. (bench.throttle <= buffers)'
    BY <1>1, <2>1
  <2> QED BY <2>2, <2>4, <2>6, <2>7, <2>8, <2>9 DEF Throttled
<1>10. (at = "warm up" => Ahead(0) <= bench.frame)'
  <2>1. at = "warm up" => a <= bench.frame
    BY <1>5 DEF ThrottleInv
  <2>2. bench.frame \in Nat
    BY DEF HostTypes
  <2> QED BY <1>1, <1>5, <1>7, <2>1, <2>2
<1>11. (at = "warm" => Ahead(0) <= kSwapchainSize)'
  <2>1. at = "warm" => a <= 3
    BY <1>5 DEF ThrottleInv, kSwapchainSize
  <2>2. 3 \in Nat
    OBVIOUS
  <2> QED BY <1>1, <1>5, <1>7, <2>1, <2>2 DEF kSwapchainSize
<1>12. (at = "finish" => Ahead(0) <= 2 * kSwapchainSize)'
  <2>1. at = "finish" => a <= 2 * kSwapchainSize
    BY <1>5 DEF ThrottleInv
  <2>2. 2 * kSwapchainSize \in Nat
    BY DEF kSwapchainSize
  <2> QED BY <1>1, <1>5, <1>7, <2>1, <2>2 DEF kSwapchainSize
<1>13. (~InBenchmark => Ahead(0) = 0)'
  BY <1>1, <1>5, <1>8 DEF ThrottleInv, InBenchmark, InCycles
<1>14. (InCycles => Throttled)'
  BY <1>1, <1>9 DEF InCycles
<1> QED BY <1>4, <1>10, <1>11, <1>12, <1>13, <1>14 DEF ThrottleInv

LEMMA ThrottleBounds ==
  QueueTypes /\ HostTypes /\ WarmUpEnds /\ ThrottleInv => BenchmarkIsThrottled
<1> SUFFICES ASSUME QueueTypes, HostTypes, WarmUpEnds, ThrottleInv PROVE BenchmarkIsThrottled
  OBVIOUS
<1>1. Ahead(0) \in Nat /\ bench.frame \in Nat
  BY AheadIsNumber DEF HostTypes
<1>7. at = "draw" /\ bench.frame % kSwapchainSize = 0 => Ahead(0) <= 3
  <2>1. SUFFICES ASSUME at = "draw", bench.frame % kSwapchainSize = 0 PROVE Ahead(0) <= 3
    OBVIOUS
  <2>2. InCycles /\ Turn = 0
    BY <2>1 DEF InCycles, Turn
  <2>3. PICK t : t = Turn
    OBVIOUS
  <2>4. Ahead(0) <= 3 + t /\ t = 0
    BY <2>2, <2>3 DEF ThrottleInv, Throttled, kSwapchainSize
  <2> QED BY <1>1, <2>4
<1>8. SUFFICES Ahead(0) <= 6
  <2>1. ASSUME Ahead(0) <= 6 PROVE BenchmarkIsThrottled
    <3>1. FramesAhead = Ahead(0)
      BY AheadFromTheFront
    <3>2. 2 * kSwapchainSize = 6 /\ kSwapchainSize = 3
      BY DEF kSwapchainSize
    <3> QED BY <1>7, <2>1, <3>1, <3>2 DEF BenchmarkIsThrottled
  <2> QED BY <2>1
<1>2. CASE InCycles
  <2>1. PICK t, a : t = Turn /\ a = Ahead(0)
    OBVIOUS
  <2>2. a <= 3 + t
    BY <1>2, <2>1 DEF ThrottleInv, Throttled, kSwapchainSize
  <2>3. bench.frame % 3 \in 0..3 /\ 3 \in 0..3
    BY <1>1
  <2>4. t \in 0..3
    BY <2>1, <2>3 DEF Turn, kSwapchainSize
  <2>5. a <= 6
    BY <1>1, <2>1, <2>2, <2>4
  <2> QED BY <2>1, <2>5
<1>3. CASE at = "warm up"
  <2>1. Ahead(0) <= bench.frame /\ bench.frame <= 3
    BY <1>3 DEF ThrottleInv, WarmUpEnds, kSwapchainSize
  <2> QED BY <1>1, <2>1
<1>4. CASE at = "warm"
  <2>1. Ahead(0) <= 3
    BY <1>4 DEF ThrottleInv, kSwapchainSize
  <2> QED BY <1>1, <2>1
<1>5. CASE at = "finish"
  <2>1. Ahead(0) <= 2 * 3
    BY <1>5 DEF ThrottleInv, kSwapchainSize
  <2> QED BY <1>1, <2>1
<1>6. CASE ~InBenchmark
  <2>1. Ahead(0) = 0
    BY <1>6 DEF ThrottleInv
  <2> QED BY <2>1
<1> QED BY <1>2, <1>3, <1>4, <1>5, <1>6 DEF InBenchmark

LEMMA LoopInitThrottle == LoopInit => ThrottleInv
<1> SUFFICES ASSUME LoopInit PROVE ThrottleInv
  OBVIOUS
<1>1. at = "poll" /\ queue = <<>> /\ buffers = 0
  BY DEF LoopInit
<1>2. Frames(0) = {} /\ {k \in DOMAIN queue : queue[k].presents = NoImage} = {}
  BY <1>1 DEF Frames
<1>3. Ahead(0) = 0 /\ Pending = 0 /\ 0 <= 0
  BY <1>2, FS_EmptySet DEF Ahead, Pending
<1> QED BY <1>1, <1>3 DEF ThrottleInv, InCycles, InBenchmark

(* However slow the GPU is and however many frames are asked for, a cycle  *)
(* of the benchmark begins to draw when every frame before the last cycle  *)
(* is finished, and the benchmark is never more than two cycles ahead. It  *)
(* waits once per cycle, for a command buffer that may have been used again*)
(* (Renderer::RunOffscreenBenchmark()); that the frame drawn into the same *)
(* image is finished, as its comment has it, does not follow and is false. *)
THEOREM BenchmarkWaitsForTheGpu == LoopSpec => []BenchmarkIsThrottled
<1>1. /\ SwapInv => QueueTypes /\ SignalsInv /\ Rotation /\ Images /\ WarmUpEnds
      /\ SwapInv /\ HostTypes /\ ThrottleInv => BenchmarkIsThrottled
  BY ThrottleBounds DEF SwapInv
<1>2. HostTypes /\ FlagsInv /\ SwapInv /\ [LoopNext]_loopVars => SwapInv'
  BY SwapOfDemo, SwapOfBenchmark, SwapOfSwapchain, SwapOfGpu DEF LoopNext, HostStep
<1>3. HostTypes /\ SwapInv /\ ThrottleInv /\ [LoopNext]_loopVars => ThrottleInv'
  BY <1>1, ThrottleOfWarmUp, ThrottleOfCycle, ThrottleOfRest, ThrottleOfGpu DEF LoopNext, HostStep
<1> QED BY <1>1, <1>2, <1>3, LoopInitFlags, LoopInitSwap, LoopInitThrottle, FlagsNext, PTL
        DEF LoopSpec

------------------------------------------------------------------------------
(* Strokes.  What the fitters and the page know of each other: a stroke    *)
(* has a number that was given, and is open as long as it has a fitter.    *)
StrokeTypes ==
  /\ next_stroke_id \in Nat
  /\ \A id \in DOMAIN strokes :
       /\ id \in Nat /\ id < next_stroke_id
       /\ DOMAIN strokes[id] = {"path", "mesh", "finalized"}
  /\ \A touch \in DOMAIN fitters : DOMAIN fitters[touch] = {"stroke", "points"}

StrokesInv == StrokeTypes /\ StrokesInUseExist

LEMMA InitStrokes == StrokesInit => StrokesInv
<1> SUFFICES ASSUME StrokesInit PROVE StrokesInv
  OBVIOUS
<1>1. strokes = <<>> /\ fitters = <<>> /\ dirty_strokes = {} /\ next_stroke_id = 1
  BY DEF StrokesInit
<1>2. DOMAIN strokes = {} /\ DOMAIN fitters = {}
  BY <1>1
<1> QED BY <1>1, <1>2 DEF StrokesInv, StrokeTypes, StrokesInUseExist

LEMMA BeginTouchStrokes ==
  ASSUME StrokesInv, NEW touch, NEW p, BeginTouch(touch, p)
  PROVE  StrokesInv'
<1> PICK n : n = next_stroke_id
  OBVIOUS
<1> DEFINE stroke == [path |-> <<>>, mesh |-> <<>>, finalized |-> FALSE]
           fitter == [stroke |-> n, points |-> <<p>>]
<1>1. /\ touch \notin DOMAIN fitters
      /\ strokes' = [y \in DOMAIN strokes \cup {n} |-> IF y = n THEN stroke ELSE strokes[y]]
      /\ fitters' = [y \in DOMAIN fitters \cup {touch} |->
                       IF y = touch THEN fitter ELSE fitters[y]]
      /\ next_stroke_id' = n + 1 /\ dirty_strokes' = dirty_strokes
  BY DEF BeginTouch, With
<1>2. n \in Nat /\ n \notin DOMAIN strokes
  BY DEF StrokesInv, StrokeTypes
<1>3. /\ DOMAIN strokes' = DOMAIN strokes \cup {n} /\ strokes'[n] = stroke
      /\ \A id \in DOMAIN strokes : strokes'[id] = strokes[id]
      /\ DOMAIN fitters' = DOMAIN fitters \cup {touch} /\ fitters'[touch] = fitter
      /\ \A t \in DOMAIN fitters : fitters'[t] = fitters[t]
  BY <1>1, <1>2
<1>4. /\ DOMAIN stroke = {"path", "mesh", "finalized"} /\ ~stroke.finalized
      /\ DOMAIN fitter = {"stroke", "points"} /\ fitter.stroke = n
  OBVIOUS
<1> HIDE DEF stroke, fitter
<1>5. \A id \in DOMAIN strokes' : id \in Nat /\ id < n + 1
  BY <1>2, <1>3 DEF StrokesInv, StrokeTypes
<1>6. StrokeTypes'
  BY <1>1, <1>2, <1>3, <1>4, <1>5 DEF StrokesInv, StrokeTypes
<1>7. \A t \in DOMAIN fitters : fitters'[t].stroke # n
  BY <1>2, <1>3 DEF StrokesInv, StrokesInUseExist
<1>8. \A t \in DOMAIN fitters' :
        fitters'[t].stroke \in DOMAIN strokes' /\ ~strokes'[fitters'[t].stroke].finalized
  BY <1>3, <1>4 DEF StrokesInv, StrokesInUseExist
<1>9. \A t \in DOMAIN fitters' : \A other \in DOMAIN fitters' \ {t} :
        fitters'[t].stroke # fitters'[other].stroke
  BY <1>3, <1>4, <1>7 DEF StrokesInv, StrokesInUseExist
<1> QED BY <1>1, <1>3, <1>6, <1>8, <1>9 DEF StrokesInv, StrokesInUseExist

(* What ContinueStroke() does to the strokes and their numbers.            *)
LEMMA ContinueStrokeEffect ==
  ASSUME StrokesInv, NEW touch \in DOMAIN fitters, NEW p, NEW finishes \in BOOLEAN,
         ContinueStroke(touch, p, finishes)
  PROVE  /\ DOMAIN strokes' = DOMAIN strokes
         /\ \A id \in DOMAIN strokes : DOMAIN strokes'[id] = DOMAIN strokes[id]
         /\ \A id \in DOMAIN strokes \ {fitters[touch].stroke} : strokes'[id] = strokes[id]
         /\ strokes'[fitters[touch].stroke].finalized = finishes
         /\ dirty_strokes' \subseteq dirty_strokes \cup {fitters[touch].stroke}
<1> PICK own : own = fitters[touch].stroke
  OBVIOUS
<1>1. own \in DOMAIN strokes /\ DOMAIN strokes[own] = {"path", "mesh", "finalized"}
  BY DEF StrokesInv, StrokeTypes, StrokesInUseExist
<1>2. CASE /\ strokes' = [strokes EXCEPT ![own].finalized = finishes]
           /\ dirty_strokes' = dirty_strokes
  BY <1>1, <1>2
<1>3. CASE \E path : SetPath(own, path, finishes)
  <2>1. PICK path : /\ strokes' = [strokes EXCEPT ![own].path = path, ![own].finalized = finishes]
                    /\ dirty_strokes' = dirty_strokes \cup {own}
    BY <1>3 DEF SetPath
  <2> QED BY <1>1, <2>1
<1> QED BY <1>2, <1>3 DEF ContinueStroke

LEMMA ContinueTouchStrokes ==
  ASSUME StrokesInv, NEW touch, NEW p, ContinueTouch(touch, p)
  PROVE  StrokesInv'
<1>1. /\ touch \in DOMAIN fitters /\ ContinueStroke(touch, p, FALSE)
      /\ fitters' = [fitters EXCEPT ![touch].points = Sampled(touch, p)]
      /\ next_stroke_id' = next_stroke_id
  BY DEF ContinueTouch
<1>2. /\ DOMAIN fitters' = DOMAIN fitters
      /\ \A t \in DOMAIN fitters : DOMAIN fitters'[t] = DOMAIN fitters[t]
                                   /\ fitters'[t].stroke = fitters[t].stroke
  BY <1>1 DEF StrokesInv, StrokeTypes
<1>3. /\ DOMAIN strokes' = DOMAIN strokes
      /\ \A id \in DOMAIN strokes : DOMAIN strokes'[id] = DOMAIN strokes[id]
      /\ \A id \in DOMAIN strokes \ {fitters[touch].stroke} : strokes'[id] = strokes[id]
      /\ strokes'[fitters[touch].stroke].finalized = FALSE
      /\ dirty_strokes' \subseteq dirty_strokes \cup {fitters[touch].stroke}
  BY <1>1, ContinueStrokeEffect
<1>4. StrokeTypes'
  BY <1>1, <1>2, <1>3 DEF StrokesInv, StrokeTypes
<1>5. \A t \in DOMAIN fitters : fitters[t].stroke \in DOMAIN strokes
                                /\ ~strokes'[fitters[t].stroke].finalized
  BY <1>3 DEF StrokesInv, StrokesInUseExist
<1> QED BY <1>1, <1>2, <1>3, <1>4, <1>5 DEF StrokesInv, StrokesInUseExist

(* The stroke that ends is no other fitter's.                              *)
LEMMA EndTouchStrokes ==
  ASSUME StrokesInv, NEW touch, NEW p, EndTouch(touch, p)
  PROVE  StrokesInv'
<1>1. /\ touch \in DOMAIN fitters /\ ContinueStroke(touch, p, TRUE)
      /\ fitters' = [t \in DOMAIN fitters \cap (DOMAIN fitters \ {touch}) |-> fitters[t]]
      /\ next_stroke_id' = next_stroke_id
  BY DEF EndTouch, Without, Restrict
<1>2. /\ DOMAIN fitters' = DOMAIN fitters \ {touch}
      /\ \A t \in DOMAIN fitters \ {touch} : fitters'[t] = fitters[t]
  BY <1>1
<1>3. /\ DOMAIN strokes' = DOMAIN strokes
      /\ \A id \in DOMAIN strokes : DOMAIN strokes'[id] = DOMAIN strokes[id]
      /\ \A id \in DOMAIN strokes \ {fitters[touch].stroke} : strokes'[id] = strokes[id]
      /\ dirty_strokes' \subseteq dirty_strokes \cup {fitters[touch].stroke}
  BY <1>1, ContinueStrokeEffect
<1>4. StrokeTypes'
  BY <1>1, <1>2, <1>3 DEF StrokesInv, StrokeTypes
<1>5. \A t \in DOMAIN fitters \ {touch} :
        fitters[t].stroke # fitters[touch].stroke /\ fitters[t].stroke \in DOMAIN strokes
  BY <1>1 DEF StrokesInv, StrokesInUseExist
<1> QED BY <1>1, <1>2, <1>3, <1>4, <1>5 DEF StrokesInv, StrokesInUseExist

LEMMA ClearStrokes ==
  ASSUME StrokesInv, Clear
  PROVE  StrokesInv'
<1> DEFINE Unfinished == {id \in DOMAIN strokes : ~strokes[id].finalized}
<1>1. /\ strokes' = [id \in DOMAIN strokes \cap Unfinished |-> strokes[id]]
      /\ dirty_strokes' = dirty_strokes \cap Unfinished
      /\ fitters' = fitters /\ next_stroke_id' = next_stroke_id
  BY DEF Clear, Restrict
<1>2. /\ DOMAIN strokes' = Unfinished /\ \A id \in Unfinished : strokes'[id] = strokes[id]
      /\ Unfinished \subseteq DOMAIN strokes /\ \A t \in DOMAIN fitters : fitters[t].stroke \in Unfinished
  BY <1>1 DEF StrokesInv, StrokesInUseExist
<1> HIDE DEF Unfinished
<1> QED BY <1>1, <1>2 DEF StrokesInv, StrokeTypes, StrokesInUseExist

LEMMA DrawFrameStrokes ==
  ASSUME StrokesInv, DrawFrame
  PROVE  StrokesInv'
<1>1. /\ strokes' = [id \in DOMAIN strokes |->
                       IF id \in dirty_strokes THEN TessellateStroke(strokes[id]) ELSE strokes[id]]
      /\ dirty_strokes' = {} /\ fitters' = fitters /\ next_stroke_id' = next_stroke_id
  BY DEF DrawFrame
<1>2. ASSUME NEW id \in DOMAIN strokes
      PROVE  /\ DOMAIN TessellateStroke(strokes[id]) = DOMAIN strokes[id]
             /\ TessellateStroke(strokes[id]).finalized = strokes[id].finalized
  BY DEF TessellateStroke, StrokesInv, StrokeTypes
<1>3. /\ DOMAIN strokes' = DOMAIN strokes
      /\ \A id \in DOMAIN strokes : DOMAIN strokes'[id] = DOMAIN strokes[id]
                                    /\ strokes'[id].finalized = strokes[id].finalized
  BY <1>1, <1>2
<1> QED BY <1>1, <1>3 DEF StrokesInv, StrokeTypes, StrokesInUseExist

LEMMA NextStrokes == StrokesInv /\ [StrokesNext]_strokesVars => StrokesInv'
<1> SUFFICES ASSUME StrokesInv, [StrokesNext]_strokesVars PROVE StrokesInv'
  OBVIOUS
<1>1. CASE UNCHANGED strokesVars
  BY <1>1 DEF strokesVars, StrokesInv, StrokeTypes, StrokesInUseExist
<1> QED BY <1>1, BeginTouchStrokes, ContinueTouchStrokes, EndTouchStrokes, ClearStrokes,
           DrawFrameStrokes DEF StrokesNext

(* However many touches there are and whenever the page is cleared, no     *)
(* pointer to a stroke outlives it and no fitter has to continue a stroke  *)
(* that is finished (examples/sketchy/sketchy_demo.cc, sketchy/page.cc).  *)
THEOREM StrokesOutliveTheirUsers == StrokesSpec => []StrokesInUseExist
<1>1. StrokesInv => StrokesInUseExist
  BY DEF StrokesInv
<1> QED BY <1>1, InitStrokes, NextStrokes, PTL DEF StrokesSpec

------------------------------------------------------------------------------
(* Strokes: what is drawn is what was sketched.                            *)

(* What a path is made of: each curve has four control points, multiples   *)
(* of 8, so that its halves have integers as theirs.                       *)
Eights == {8 * x : x \in Int}
Curve == Eights \X Eights \X Eights \X Eights

LEMMA EightsAre ==
  ASSUME NEW c \in Curve
  PROVE  \E x1, x2, x3, x4 \in Int : c[1] = 8 * x1 /\ c[2] = 8 * x2 /\ c[3] = 8 * x3 /\ c[4] = 8 * x4
<1>1. c[1] \in Eights /\ c[2] \in Eights /\ c[3] \in Eights /\ c[4] \in Eights
  BY DEF Curve
<1> QED BY <1>1 DEF Eights

LEMMA PointsAre ==
  ASSUME NEW p \in Points
  PROVE  \E x \in Nat : p = 32 * x
<1>1. p \in Nat /\ p % 32 = 0
  BY StrokesAssumption
<1>2. \A n \in Nat : n % 32 = 0 => n = 32 * (n \div 32) /\ n \div 32 \in Nat
  OBVIOUS
<1> QED BY <1>1, <1>2

LEMMA HandleIsEights ==
  ASSUME NEW x \in Int, NEW y \in Int, NEW l \in Nat
  PROVE  32 * x + ((32 * y) * l) \div 4 \in Eights
<1>1. PICK z \in Int : z = y * l
  OBVIOUS
<1>2. (32 * y) * l = 32 * z
  BY <1>1
<1>3. (32 * z) \div 4 = 8 * z
  OBVIOUS
<1>4. 32 * x + 8 * z = 8 * (4 * x + z) /\ 4 * x + z \in Int
  OBVIOUS
<1> QED BY <1>2, <1>3, <1>4 DEF Eights

LEMMA TangentsAre ==
  ASSUME NEW points \in Seq(Points), NEW s \in 1 .. Len(points), NEW e \in 1 .. Len(points), s < e
  PROVE  /\ \E y \in Int : LeftTangent(points, s) = 32 * y
         /\ \E y \in Int : RightTangent(points, e) = 32 * y
<1>1. \A i, j \in 1 .. Len(points) : \E y \in Int : points[i] - points[j] = 32 * y
  <2> TAKE i, j \in 1 .. Len(points)
  <2>1. PICK x1 \in Nat : points[i] = 32 * x1
    BY PointsAre
  <2>2. PICK x2 \in Nat : points[j] = 32 * x2
    BY PointsAre
  <2>3. points[i] - points[j] = 32 * (x1 - x2) /\ x1 - x2 \in Int
    BY <2>1, <2>2
  <2> QED BY <2>3
<1>2. s + 1 \in 1 .. Len(points) /\ e - 1 \in 1 .. Len(points)
  OBVIOUS
<1>3. \E y \in Int : LeftTangent(points, s) = 32 * y
  BY <1>1, <1>2 DEF LeftTangent
<1>4. CASE e = Len(points)
  BY <1>1, <1>2, <1>3, <1>4 DEF RightTangent
<1>5. CASE e # Len(points)
  <2>1. e + 1 \in 1 .. Len(points)
    BY <1>5
  <2>2. PICK y \in Int : LeftTangent(points, e) = 32 * y
    BY <1>1, <2>1 DEF LeftTangent
  <2>3. RightTangent(points, e) = 32 * (-y) /\ -y \in Int
    BY <1>5, <2>2 DEF RightTangent
  <2> QED BY <1>3, <2>3
<1> QED BY <1>4, <1>5

LEMMA CurveBetweenIs ==
  ASSUME NEW points \in Seq(Points), NEW s \in 1 .. Len(points), NEW e \in 1 .. Len(points), s < e,
         NEW l \in Nat, NEW r \in Nat
  PROVE  /\ CurveBetween(points, s, e, l, r) \in Curve
         /\ CurveBetween(points, s, e, l, r)[1] = points[s]
         /\ CurveBetween(points, s, e, l, r)[4] = points[e]
<1>1. PICK x1 \in Nat : points[s] = 32 * x1
  BY PointsAre
<1>2. PICK x2 \in Nat : points[e] = 32 * x2
  BY PointsAre
<1>3. PICK y1 \in Int : LeftTangent(points, s) = 32 * y1
  BY TangentsAre
<1>4. PICK y2 \in Int : RightTangent(points, e) = 32 * y2
  BY TangentsAre
<1>5. points[s] \in Eights /\ points[e] \in Eights
  <2>1. 32 * x1 = 8 * (4 * x1) /\ 32 * x2 = 8 * (4 * x2) /\ 4 * x1 \in Int /\ 4 * x2 \in Int
    OBVIOUS
  <2> QED BY <1>1, <1>2, <2>1 DEF Eights
<1>6. /\ points[s] + (LeftTangent(points, s) * l) \div 4 \in Eights
      /\ points[e] + (RightTangent(points, e) * r) \div 4 \in Eights
  <2>1. /\ 32 * x1 + ((32 * y1) * l) \div 4 \in Eights
        /\ 32 * x2 + ((32 * y2) * r) \div 4 \in Eights
    <3>1. x1 \in Int /\ x2 \in Int
      OBVIOUS
    <3> QED BY <3>1, HandleIsEights, Zenon
  <2>2. points[s] + (LeftTangent(points, s) * l) \div 4 = 32 * x1 + ((32 * y1) * l) \div 4
    BY <1>1, <1>3, Zenon
  <2>3. points[e] + (RightTangent(points, e) * r) \div 4 = 32 * x2 + ((32 * y2) * r) \div 4
    BY <1>2, <1>4, Zenon
  <2> QED BY <2>1, <2>2, <2>3, Zenon
<1> QED BY <1>5, <1>6 DEF CurveBetween, Curve

(* A path that joins two samples.                                          *)
Joins(path, p, q) ==
  /\ path \in Seq(Curve) /\ Len(path) >= 1
  /\ path[1][1] = p /\ path[Len(path)][4] = q
  /\ \A k \in 1 .. Len(path) - 1 : path[k][4] = path[k + 1][1]

LEMMA CurveJoins ==
  ASSUME NEW c \in Curve
  PROVE  Joins(<<c>>, c[1], c[4])
  BY DEF Joins

LEMMA PathsJoin ==
  ASSUME NEW f, NEW g, NEW p, NEW q, NEW r, Joins(f, p, q), Joins(g, q, r)
  PROVE  Joins(f \o g, p, r)
<1> DEFINE h == f \o g
<1>1. /\ h \in Seq(Curve) /\ Len(h) = Len(f) + Len(g) /\ Len(f) \in Nat /\ Len(g) \in Nat
      /\ Len(f) >= 1 /\ Len(g) >= 1
      /\ \A i \in 1 .. Len(f) : h[i] = f[i]
      /\ \A i \in 1 .. Len(g) : h[Len(f) + i] = g[i]
  BY DEF Joins
<1> HIDE DEF h
<1>2. h[1] = f[1] /\ h[Len(h)] = g[Len(g)]
  BY <1>1
<1>3. ASSUME NEW k \in 1 .. Len(h) - 1
      PROVE  h[k][4] = h[k + 1][1]
  <2>1. CASE k < Len(f)
    <3>1. k \in 1 .. Len(f) - 1 /\ k \in 1 .. Len(f) /\ k + 1 \in 1 .. Len(f)
      BY <1>1, <2>1
    <3> QED BY <1>1, <3>1 DEF Joins
  <2>2. CASE k = Len(f)
    <3>1. k \in 1 .. Len(f) /\ 1 \in 1 .. Len(g) /\ k + 1 = Len(f) + 1
      BY <1>1, <2>2
    <3>2. h[k] = f[Len(f)] /\ h[k + 1] = g[1]
      BY <1>1, <2>2, <3>1
    <3> QED BY <3>2 DEF Joins
  <2>3. CASE k > Len(f)
    <3>1. PICK j \in 1 .. Len(g) - 1 :
            j \in 1 .. Len(g) /\ j + 1 \in 1 .. Len(g) /\ k = Len(f) + j /\ k + 1 = Len(f) + (j + 1)
      <4>1. \A m \in Nat, n \in Nat : \A i \in 1 .. m + n - 1 : i > m =>
              LET j == i - m
              IN  /\ j \in 1 .. n - 1 /\ j \in 1 .. n /\ j + 1 \in 1 .. n
                  /\ i = m + j /\ i + 1 = m + (j + 1)
        OBVIOUS
      <4>2. Len(f) \in Nat /\ Len(g) \in Nat /\ k \in 1 .. Len(f) + Len(g) - 1
        BY <1>1
      <4> QED BY <2>3, <4>1, <4>2
    <3>2. h[k] = g[j] /\ h[k + 1] = g[j + 1]
      BY <1>1, <3>1
    <3> QED BY <3>1, <3>2 DEF Joins
  <2> QED BY <1>1, <2>1, <2>2, <2>3
<1>4. h[1][1] = p /\ h[Len(h)][4] = r
  BY <1>2 DEF Joins
<1>5. Len(h) >= 1
  BY <1>1
<1> QED BY <1>1, <1>3, <1>4, <1>5 DEF Joins, h

(* FitSampleRange(): the recursive definition has a solution, as every     *)
(* range is made from shorter ones.                                        *)
Ranges(points) == (1 .. Len(points)) \X (1 .. Len(points))

InOne(f, g) == f \o g
MetAt(fit, s, m, e) == {InOne(f, g) : f \in fit[<<s, m>>], g \in fit[<<m, e>>]}
InTwo(fit, s, e) == UNION {MetAt(fit, s, m, e) : m \in s + 1 .. e - 1}

FitOf(points, fit, range) ==
  IF range[2] - range[1] = 1 THEN {<<CurveBetween(points, range[1], range[2], 1, 1)>>}
  ELSE {<<c>> : c \in FitCubicBezier(points, range[1], range[2])}
         \union InTwo(fit, range[1], range[2])

LEMMA InOneOf ==
  ASSUME NEW F, NEW G, NEW path \in {InOne(f, g) : f \in F, g \in G}
  PROVE  \E f \in F, g \in G : path = InOne(f, g)
  OBVIOUS

LEMMA FitIsChosen ==
  ASSUME NEW points
  PROVE  FitSampleRange(points) =
           (CHOOSE fit : fit = [range \in Ranges(points) |-> FitOf(points, fit, range)])
             [<<1, Len(points)>>]
  BY DEF FitSampleRange, FitOf, Ranges, InTwo, MetAt, InOne

FitAgrees(points, f, g, k) ==
  \A range \in Ranges(points) : range[2] - range[1] <= k => f[range] = g[range]

LEMMA FitOfShorter ==
  ASSUME NEW points, Len(points) \in Nat, NEW k \in Nat, NEW f, NEW g, FitAgrees(points, f, g, k),
         NEW range \in Ranges(points), range[2] - range[1] <= k + 1
  PROVE  FitOf(points, f, range) = FitOf(points, g, range)
<1>1. PICK s \in 1 .. Len(points), e \in 1 .. Len(points) : range[1] = s /\ range[2] = e
  BY DEF Ranges
<1>2. ASSUME NEW m \in s + 1 .. e - 1
      PROVE  f[<<s, m>>] = g[<<s, m>>] /\ f[<<m, e>>] = g[<<m, e>>]
  <2>1. m \in 1 .. Len(points) /\ m - s <= k /\ e - m <= k
    BY <1>1
  <2>2. <<s, m>> \in Ranges(points) /\ <<m, e>> \in Ranges(points)
    BY <2>1 DEF Ranges
  <2> QED BY <2>1, <2>2 DEF FitAgrees
<1>3. \A m \in s + 1 .. e - 1 : MetAt(f, s, m, e) = MetAt(g, s, m, e)
  BY <1>2 DEF MetAt
<1>4. InTwo(f, s, e) = InTwo(g, s, e)
  BY <1>3 DEF InTwo
<1> QED BY <1>1, <1>4 DEF FitOf

FitSolved(points, f, k) ==
  /\ f = [range \in Ranges(points) |-> f[range]]
  /\ \A range \in Ranges(points) :
       range[2] - range[1] <= k => f[range] = FitOf(points, f, range)

LEMMA FitSolvedMore ==
  ASSUME NEW points, Len(points) \in Nat, NEW k \in Nat, NEW f, FitSolved(points, f, k)
  PROVE  \E g : FitSolved(points, g, k + 1)
<1> DEFINE g == [range \in Ranges(points) |-> FitOf(points, f, range)]
<1>1. /\ \A range \in Ranges(points) : g[range] = FitOf(points, f, range)
      /\ g = [range \in Ranges(points) |-> g[range]]
  OBVIOUS
<1> HIDE DEF g
<1>2. FitAgrees(points, f, g, k)
  BY <1>1 DEF FitAgrees, FitSolved
<1>3. ASSUME NEW range \in Ranges(points), range[2] - range[1] <= k + 1
      PROVE  g[range] = FitOf(points, g, range)
  BY <1>1, <1>2, <1>3, FitOfShorter
<1> QED BY <1>1, <1>3 DEF FitSolved

LEMMA FitSolvedFirst ==
  ASSUME NEW points, Len(points) \in Nat
  PROVE  \E g : FitSolved(points, g, 0)
<1> DEFINE g == [range \in Ranges(points) |-> FitOf(points, <<>>, range)]
<1>1. /\ \A range \in Ranges(points) : g[range] = FitOf(points, <<>>, range)
      /\ g = [range \in Ranges(points) |-> g[range]]
  OBVIOUS
<1> HIDE DEF g
<1>2. ASSUME NEW range \in Ranges(points), range[2] - range[1] <= 0
      PROVE  FitOf(points, <<>>, range) = FitOf(points, g, range)
  <2>1. PICK s \in 1 .. Len(points), e \in 1 .. Len(points) : range[1] = s /\ range[2] = e
    BY DEF Ranges
  <2>2. (s + 1 .. e - 1) = {}
    BY <1>2, <2>1
  <2>3. \A f : InTwo(f, s, e) = {}
    <3>1. \A f : {MetAt(f, s, m, e) : m \in s + 1 .. e - 1} = {}
      BY <2>2, Zenon
    <3> QED BY <3>1, Zenon DEF InTwo
  <2> QED BY <2>1, <2>3 DEF FitOf
<1> QED BY <1>1, <1>2 DEF FitSolved

LEMMA FitHasSolution ==
  ASSUME NEW points, Len(points) \in Nat
  PROVE  \E fit : fit = [range \in Ranges(points) |-> FitOf(points, fit, range)]
<1> DEFINE good == {k \in Nat : \E f : FitSolved(points, f, k)}
<1>1. 0 \in good /\ good \in SUBSET Nat
  BY FitSolvedFirst
<1>2. \A k \in 0 .. Len(points) - 1 : k \in good => k + 1 \in good
  <2> TAKE k \in 0 .. Len(points) - 1
  <2>1. k \in Nat /\ k + 1 \in Nat
    OBVIOUS
  <2> QED BY <2>1, FitSolvedMore
<1> HIDE DEF good
<1>3. Len(points) \in good
  BY <1>1, <1>2, AfterSteps
<1>4. PICK f : FitSolved(points, f, Len(points))
  BY <1>3 DEF good
<1>5. \A range \in Ranges(points) : range[2] - range[1] <= Len(points)
  BY DEF Ranges
<1>6. \A range \in Ranges(points) : f[range] = FitOf(points, f, range)
  BY <1>4, <1>5 DEF FitSolved
<1>7. f = [range \in Ranges(points) |-> FitOf(points, f, range)]
  <2>1. f = [range \in Ranges(points) |-> f[range]]
    BY <1>4 DEF FitSolved
  <2> QED BY <1>6, <2>1, Zenon
<1> QED BY <1>7

(* What a range can become joins its ends.                                 *)
LEMMA FitOfJoins ==
  ASSUME NEW points \in Seq(Points), NEW fit, NEW range \in Ranges(points), range[1] < range[2],
         \A r \in Ranges(points) : r[1] < r[2] /\ r[2] - r[1] < range[2] - range[1] =>
           \A path \in fit[r] : Joins(path, points[r[1]], points[r[2]]),
         NEW path \in FitOf(points, fit, range)
  PROVE  Joins(path, points[range[1]], points[range[2]])
<1>1. PICK s \in 1 .. Len(points), e \in 1 .. Len(points) : range[1] = s /\ range[2] = e /\ s < e
  BY DEF Ranges
<1>2. ASSUME NEW l \in Nat, NEW r \in Nat, path = <<CurveBetween(points, s, e, l, r)>>
      PROVE  Joins(path, points[s], points[e])
  <2> DEFINE c == CurveBetween(points, s, e, l, r)
  <2>1. c \in Curve /\ c[1] = points[s] /\ c[4] = points[e]
    BY <1>1, CurveBetweenIs
  <2> HIDE DEF c
  <2>2. Joins(<<c>>, c[1], c[4])
    BY <2>1, CurveJoins
  <2> QED BY <1>2, <2>1, <2>2 DEF c
<1>3. CASE path = <<CurveBetween(points, s, e, 1, 1)>>
  <2>1. 1 \in Nat
    OBVIOUS
  <2> QED BY <1>1, <1>2, <1>3, <2>1, Zenon
<1>4. CASE path \in {<<c>> : c \in FitCubicBezier(points, s, e)}
  <2>1. PICK c \in FitCubicBezier(points, s, e) : path = <<c>>
    BY <1>4, Zenon
  <2>3. PICK l \in Handles, r \in Handles : c = CurveBetween(points, s, e, l, r)
    BY DEF FitCubicBezier
  <2>2. l \in Nat /\ r \in Nat
    BY StrokesAssumption
  <2> QED BY <1>1, <1>2, <2>1, <2>2, <2>3, Zenon
<1>5. CASE path \in InTwo(fit, s, e)
  <2>1. PICK m \in s + 1 .. e - 1 : path \in MetAt(fit, s, m, e)
    BY <1>5, Zenon DEF InTwo
  <2>2. PICK f \in fit[<<s, m>>], g \in fit[<<m, e>>] : path = InOne(f, g)
    <3> DEFINE F == fit[<<s, m>>]
               G == fit[<<m, e>>]
    <3>1. path \in {InOne(f, g) : f \in F, g \in G}
      BY <2>1 DEF MetAt
    <3> HIDE DEF F, G
    <3>2. \E f \in F, g \in G : path = InOne(f, g)
      BY <3>1, InOneOf
    <3> QED BY <3>2 DEF F, G
  <2>3. Len(points) \in Nat
    OBVIOUS
  <2>4. m \in 1 .. Len(points) /\ s < m /\ m < e /\ m - s < e - s /\ e - m < e - s
    BY <1>1, <2>3
  <2>5. /\ <<s, m>> \in Ranges(points) /\ <<s, m>>[1] = s /\ <<s, m>>[2] = m
        /\ <<m, e>> \in Ranges(points) /\ <<m, e>>[1] = m /\ <<m, e>>[2] = e
    BY <2>4 DEF Ranges
  <2>6. Joins(f, points[s], points[m]) /\ Joins(g, points[m], points[e])
    BY <1>1, <2>4, <2>5
  <2> QED BY <1>1, <2>2, <2>6, PathsJoin, Zenon DEF InOne
<1>6. Joins(path, points[s], points[e])
  BY <1>1, <1>3, <1>4, <1>5 DEF FitOf
<1> QED BY <1>1, <1>6

LEMMA FitJoins ==
  ASSUME NEW points \in Seq(Points), Len(points) >= 2, NEW path \in FitSampleRange(points)
  PROVE  Joins(path, points[1], points[Len(points)])
<1>1. Len(points) \in Nat
  OBVIOUS
<1>2. PICK fit : /\ fit = [range \in Ranges(points) |-> FitOf(points, fit, range)]
                 /\ path \in fit[<<1, Len(points)>>]
  BY <1>1, FitHasSolution, FitIsChosen
<1>3. \A range \in Ranges(points) : fit[range] = FitOf(points, fit, range)
  BY <1>2
<1> DEFINE Right(k) == \A range \in Ranges(points) :
                          range[1] < range[2] /\ range[2] - range[1] <= k =>
                            \A p \in fit[range] : Joins(p, points[range[1]], points[range[2]])
           good == {k \in Nat : Right(k)}
<1>4. \A range \in Ranges(points) : range[1] \in 1 .. Len(points) /\ range[2] \in 1 .. Len(points)
  BY DEF Ranges
<1>5. 0 \in good /\ good \in SUBSET Nat
  BY <1>4
<1>6. ASSUME NEW k \in 0 .. Len(points) - 1, k \in good
      PROVE  k + 1 \in good
  <2>1. ASSUME NEW range \in Ranges(points), range[1] < range[2], range[2] - range[1] <= k + 1,
               NEW p \in fit[range]
        PROVE  Joins(p, points[range[1]], points[range[2]])
    <3>1. \A r \in Ranges(points) : r[1] < r[2] /\ r[2] - r[1] < range[2] - range[1] =>
            \A q \in fit[r] : Joins(q, points[r[1]], points[r[2]])
      <4> TAKE r \in Ranges(points)
      <4>1. r[2] - r[1] < range[2] - range[1] => r[2] - r[1] <= k
        BY <1>4, <2>1
      <4> QED BY <1>6, <4>1
    <3>2. p \in FitOf(points, fit, range)
      BY <1>3
    <3> HIDE DEF good
    <3> QED BY <2>1, <3>1, <3>2, FitOfJoins
  <2>2. Right(k + 1)
    BY <2>1
  <2> QED BY <2>2
<1> HIDE DEF good
<1>7. Len(points) \in good
  BY <1>1, <1>5, <1>6, AfterSteps
<1>8. /\ <<1, Len(points)>> \in Ranges(points)
      /\ <<1, Len(points)>>[1] = 1 /\ <<1, Len(points)>>[2] = Len(points)
  BY <1>1 DEF Ranges
<1>9. 1 < Len(points) /\ Len(points) - 1 <= Len(points)
  BY <1>1
<1> QED BY <1>2, <1>7, <1>8, <1>9 DEF good

(* The halves of a curve are the curve again.                              *)
LEMMA SplitCurveIs ==
  ASSUME NEW pts, NEW a \in Int, NEW b \in Int, NEW c \in Int, NEW d \in Int,
         pts[1] = 8 * a, pts[2] = 8 * b, pts[3] = 8 * c, pts[4] = 8 * d
  PROVE  SplitCurve(pts) =
           <<<<8 * a, 4 * a + 4 * b, 2 * a + 4 * b + 2 * c, a + 3 * b + 3 * c + d>>,
             <<a + 3 * b + 3 * c + d, 2 * b + 4 * c + 2 * d, 4 * c + 4 * d, 8 * d>>>>
<1> DEFINE m == a + 3 * b + 3 * c + d
<1>1. /\ (8 * a + 8 * b) \div 2 = 4 * a + 4 * b
      /\ (8 * b + 8 * c) \div 2 = 4 * b + 4 * c
      /\ (8 * c + 8 * d) \div 2 = 4 * c + 4 * d
  OBVIOUS
<1>2. /\ ((4 * a + 4 * b) + (4 * b + 4 * c)) \div 2 = 2 * a + 4 * b + 2 * c
      /\ ((4 * b + 4 * c) + (4 * c + 4 * d)) \div 2 = 2 * b + 4 * c + 2 * d
  OBVIOUS
<1>3. ((2 * a + 4 * b + 2 * c) + (2 * b + 4 * c + 2 * d)) \div 2 = m
  OBVIOUS
<1> HIDE DEF m
<1>4. SplitCurve(pts) =
        <<<<8 * a, 4 * a + 4 * b, 2 * a + 4 * b + 2 * c, m>>,
          <<m, 2 * b + 4 * c + 2 * d, 4 * c + 4 * d, 8 * d>>>>
  BY <1>1, <1>2, <1>3 DEF SplitCurve
<1> QED BY <1>4 DEF m

LEMMA FirstHalf ==
  ASSUME NEW a \in Int, NEW b \in Int, NEW c \in Int, NEW d \in Int, NEW i \in 0 .. 4
  PROVE  8 * Evaluate(<<8 * a, 4 * a + 4 * b, 2 * a + 4 * b + 2 * c, a + 3 * b + 3 * c + d>>, i, 4)
         = Evaluate(<<8 * a, 8 * b, 8 * c, 8 * d>>, i, 8)
<1>1. i = 0 \/ i = 1 \/ i = 2 \/ i = 3 \/ i = 4
  OBVIOUS
<1>2. CASE i = 0
  BY <1>2 DEF Evaluate
<1>3. CASE i = 1
  BY <1>3 DEF Evaluate
<1>4. CASE i = 2
  BY <1>4 DEF Evaluate
<1>5. CASE i = 3
  BY <1>5 DEF Evaluate
<1>6. CASE i = 4
  BY <1>6 DEF Evaluate
<1> QED BY <1>1, <1>2, <1>3, <1>4, <1>5, <1>6

LEMMA SecondHalf ==
  ASSUME NEW a \in Int, NEW b \in Int, NEW c \in Int, NEW d \in Int, NEW i \in 0 .. 4
  PROVE  8 * Evaluate(<<a + 3 * b + 3 * c + d, 2 * b + 4 * c + 2 * d, 4 * c + 4 * d, 8 * d>>, i, 4)
         = Evaluate(<<8 * a, 8 * b, 8 * c, 8 * d>>, i + 4, 8)
<1>1. i = 0 \/ i = 1 \/ i = 2 \/ i = 3 \/ i = 4
  OBVIOUS
<1>2. CASE i = 0
  BY <1>2 DEF Evaluate
<1>3. CASE i = 1
  BY <1>3 DEF Evaluate
<1>4. CASE i = 2
  BY <1>4 DEF Evaluate
<1>5. CASE i = 3
  BY <1>5 DEF Evaluate
<1>6. CASE i = 4
  BY <1>6 DEF Evaluate
<1> QED BY <1>1, <1>2, <1>3, <1>4, <1>5, <1>6

ControlPoints(whole, other) ==
  <<whole[1], 2 * whole[2] - whole[1], 2 * other[3] - other[4], other[4]>>

LEMMA HalvesAre ==
  ASSUME NEW c \in Curve, NEW i \in 0 .. 4, NEW whole, whole = SplitCurve(c)[1],
         NEW other, other = SplitCurve(c)[2]
  PROVE  /\ whole[1] = c[1] /\ whole[4] = other[1] /\ other[4] = c[4]
         /\ 8 * Evaluate(whole, i, 4) = Evaluate(ControlPoints(whole, other), i, 8)
         /\ 8 * Evaluate(other, i, 4) = Evaluate(ControlPoints(whole, other), i + 4, 8)
         /\ ArcLength(whole) \in Nat /\ ArcLength(other) \in Nat
<1>1. PICK x, y, z, t \in Int : c[1] = 8 * x /\ c[2] = 8 * y /\ c[3] = 8 * z /\ c[4] = 8 * t
  BY EightsAre
<1> DEFINE f == <<8 * x, 4 * x + 4 * y, 2 * x + 4 * y + 2 * z, x + 3 * y + 3 * z + t>>
           s == <<x + 3 * y + 3 * z + t, 2 * y + 4 * z + 2 * t, 4 * z + 4 * t, 8 * t>>
<1>2. SplitCurve(c) = <<f, s>>
  BY <1>1, SplitCurveIs
<1>3. /\ f[1] = 8 * x /\ f[2] = 4 * x + 4 * y /\ f[4] = s[1]
      /\ s[3] = 4 * z + 4 * t /\ s[4] = 8 * t
      /\ f[1] \in Int /\ f[2] \in Int /\ f[3] \in Int /\ f[4] \in Int
      /\ s[1] \in Int /\ s[2] \in Int /\ s[3] \in Int /\ s[4] \in Int
  OBVIOUS
<1>4. 8 * Evaluate(f, i, 4) = Evaluate(<<8 * x, 8 * y, 8 * z, 8 * t>>, i, 8)
  BY FirstHalf
<1>5. 8 * Evaluate(s, i, 4) = Evaluate(<<8 * x, 8 * y, 8 * z, 8 * t>>, i + 4, 8)
  BY SecondHalf
<1> HIDE DEF f, s
<1>6. whole = f /\ other = s
  BY <1>2
<1>7. ControlPoints(f, s) = <<8 * x, 8 * y, 8 * z, 8 * t>>
  <2>1. 2 * f[2] - f[1] = 8 * y /\ 2 * s[3] - s[4] = 8 * z
    BY <1>3
  <2> QED BY <1>3, <2>1 DEF ControlPoints
<1>8. ArcLength(f) \in Nat /\ ArcLength(s) \in Nat
  <2>1. \A p, q \in Int : Distance(p, q) \in Nat
    BY DEF Distance
  <2>2. ASSUME NEW g, g[1] \in Int, g[2] \in Int, g[3] \in Int, g[4] \in Int
        PROVE  ArcLength(g) \in Nat
    <3>1. /\ Distance(g[1], g[2]) \in Nat /\ Distance(g[2], g[3]) \in Nat
          /\ Distance(g[3], g[4]) \in Nat
      BY <2>1, <2>2
    <3> QED BY <3>1 DEF ArcLength
  <2> QED BY <1>3, <2>2
<1> QED BY <1>1, <1>3, <1>4, <1>5, <1>6, <1>7, <1>8

(* Every curve of a path is replaced by its halves.                        *)
LEMMA SplitPathIs ==
  ASSUME NEW path \in Seq(Curve), Len(path) >= 1
  PROVE  /\ SplitPath(path) = [k \in 1 .. 2 * Len(path) |-> SplitPath(path)[k]]
         /\ Len(SplitPath(path)) = 2 * Len(path) /\ SplitPath(path) # <<>>
         /\ \A k \in 1 .. Len(path) :
              /\ SplitPath(path)[2 * k - 1].curve = SplitCurve(path[k])[1]
              /\ SplitPath(path)[2 * k].curve = SplitCurve(path[k])[2]
         /\ \A k \in 1 .. 2 * Len(path) :
              SplitPath(path)[k].length = ArcLength(SplitPath(path)[k].curve)
<1> DEFINE n == 2 * Len(path)
           halves == SplitPath(path)
<1>1. n \in Nat /\ n >= 2
  OBVIOUS
<1>2. halves = [k \in 1 .. n |-> StrokeSegment(SplitCurve(path[(k + 1) \div 2])[2 - (k % 2)])]
  BY DEF SplitPath
<1> HIDE DEF halves
<1>3. \A k \in 1 .. n : halves[k] = StrokeSegment(SplitCurve(path[(k + 1) \div 2])[2 - (k % 2)])
  BY <1>2
<1>4. halves = [k \in 1 .. n |-> halves[k]]
  BY <1>2
<1>5. Len(halves) = n /\ halves # <<>>
  BY <1>1, <1>4
<1>6. \A k \in 1 .. Len(path) :
        /\ 2 * k - 1 \in 1 .. n /\ ((2 * k - 1) + 1) \div 2 = k /\ 2 - ((2 * k - 1) % 2) = 1
        /\ 2 * k \in 1 .. n /\ (2 * k + 1) \div 2 = k /\ 2 - ((2 * k) % 2) = 2
  OBVIOUS
<1>7. \A pts : StrokeSegment(pts).curve = pts /\ StrokeSegment(pts).length = ArcLength(pts)
  BY DEF StrokeSegment
<1> HIDE DEF n
<1>8. \A k \in 1 .. Len(path) :
        /\ halves[2 * k - 1].curve = SplitCurve(path[k])[1]
        /\ halves[2 * k].curve = SplitCurve(path[k])[2]
  BY <1>3, <1>6, <1>7
<1>9. \A k \in 1 .. n : halves[k].length = ArcLength(halves[k].curve)
  BY <1>3, <1>7
<1> QED BY <1>4, <1>5, <1>8, <1>9 DEF halves, n

LEMMA SplitPathIsWhole ==
  ASSUME NEW path, NEW points, Joins(path, points[1], points[Len(points)])
  PROVE  PathIsWhole(SplitPath(path), points)
<1> DEFINE n == Len(path)
           halves == SplitPath(path)
<1>1. n \in Nat /\ n >= 1 /\ path \in Seq(Curve) /\ \A k \in 1 .. n : path[k] \in Curve
  BY DEF Joins
<1>2. /\ Len(halves) = 2 * n /\ DOMAIN halves = 1 .. 2 * n
      /\ \A k \in 1 .. n : /\ halves[2 * k - 1].curve = SplitCurve(path[k])[1]
                           /\ halves[2 * k].curve = SplitCurve(path[k])[2]
  BY <1>1, SplitPathIs
<1> HIDE DEF halves
<1>3. \A k \in 1 .. n :
        /\ halves[2 * k - 1].curve[1] = path[k][1]
        /\ halves[2 * k - 1].curve[4] = halves[2 * k].curve[1]
        /\ halves[2 * k].curve[4] = path[k][4]
        /\ \A i \in 0 .. 4 :
             LET whole == halves[2 * k - 1].curve
                 other == halves[2 * k].curve
             IN  /\ 8 * Evaluate(whole, i, 4) = Evaluate(ControlPoints(whole, other), i, 8)
                 /\ 8 * Evaluate(other, i, 4) = Evaluate(ControlPoints(whole, other), i + 4, 8)
  <2> TAKE k \in 1 .. n
  <2>1. path[k] \in Curve /\ 0 \in 0 .. 4
    BY <1>1
  <2>2. PICK whole, other : whole = SplitCurve(path[k])[1] /\ other = SplitCurve(path[k])[2]
    OBVIOUS
  <2>3. halves[2 * k - 1].curve = whole /\ halves[2 * k].curve = other
    BY <1>2, <2>2
  <2>4. whole[1] = path[k][1] /\ whole[4] = other[1] /\ other[4] = path[k][4]
    BY <2>1, <2>2, HalvesAre
  <2>5. \A i \in 0 .. 4 :
          /\ 8 * Evaluate(whole, i, 4) = Evaluate(ControlPoints(whole, other), i, 8)
          /\ 8 * Evaluate(other, i, 4) = Evaluate(ControlPoints(whole, other), i + 4, 8)
    BY <2>1, <2>2, HalvesAre
  <2> QED BY <2>3, <2>4, <2>5
<1>4. halves[1].curve[1] = points[1] /\ Last(halves).curve[4] = points[Len(points)]
  <2>1. 1 \in 1 .. n /\ n \in 1 .. n /\ 2 * 1 - 1 = 1
    BY <1>1
  <2>2. halves[1].curve[1] = path[1][1] /\ halves[2 * n].curve[4] = path[n][4]
    BY <1>3, <2>1
  <2> QED BY <1>2, <2>2 DEF Joins, Last
<1>5. ASSUME NEW k \in 1 .. 2 * n - 1
      PROVE  halves[k].curve[4] = halves[k + 1].curve[1]
  <2>1. CASE k % 2 = 1
    <3>1. PICK j \in 1 .. n : k = 2 * j - 1 /\ k + 1 = 2 * j
      <4>1. (k + 1) \div 2 \in 1 .. n /\ k = 2 * ((k + 1) \div 2) - 1
        BY <1>1, <2>1
      <4> QED BY <1>1, <4>1
    <3> QED BY <1>3, <3>1
  <2>2. CASE k % 2 # 1
    <3>1. PICK j \in 1 .. n - 1 : k = 2 * j /\ k + 1 = 2 * (j + 1) - 1
      <4>1. k \div 2 \in 1 .. n - 1 /\ k = 2 * (k \div 2)
        BY <1>1, <2>2
      <4> QED BY <1>1, <4>1
    <3>2. j \in 1 .. n /\ j + 1 \in 1 .. n
      BY <1>1
    <3>3. path[j][4] = path[j + 1][1]
      BY DEF Joins
    <3> QED BY <1>3, <3>1, <3>2, <3>3
  <2> QED BY <2>1, <2>2
<1>6. ASSUME NEW k \in 1 .. 2 * n, NEW i \in 0 .. 4
      PROVE  LET whole == halves[IF k % 2 = 1 THEN k ELSE k - 1].curve
                 other == halves[IF k % 2 = 1 THEN k + 1 ELSE k].curve
             IN  8 * Evaluate(halves[k].curve, i, 4)
                 = Evaluate(ControlPoints(whole, other), IF k % 2 = 1 THEN i ELSE i + 4, 8)
  <2>1. CASE k % 2 = 1
    <3>1. PICK j \in 1 .. n : k = 2 * j - 1 /\ k + 1 = 2 * j
      <4>1. (k + 1) \div 2 \in 1 .. n /\ k = 2 * ((k + 1) \div 2) - 1
        BY <1>1, <2>1
      <4> QED BY <1>1, <4>1
    <3> QED BY <1>3, <2>1, <3>1
  <2>2. CASE k % 2 # 1
    <3>1. PICK j \in 1 .. n : k = 2 * j /\ k - 1 = 2 * j - 1
      <4>1. k \div 2 \in 1 .. n /\ k = 2 * (k \div 2)
        BY <1>1, <2>2
      <4> QED BY <1>1, <4>1
    <3> QED BY <1>3, <2>2, <3>1
  <2> QED BY <2>1, <2>2
<1> HIDE DEF n
<1>7. PathIsWhole(halves, points)
  BY <1>2, <1>4, <1>5, <1>6 DEF PathIsWhole, Last, ControlPoints
<1> QED BY <1>7 DEF halves

(* The vertices of a segment are pairs, and at least two of them.          *)
CountsAre(counts) ==
  \A k \in 1 .. Len(counts) : \E h \in Nat : h >= 2 /\ counts[k] = 2 * h

LEMMA VertexCountsAre ==
  ASSUME NEW path, NEW n \in Nat, path = [k \in 1 .. n |-> path[k]],
         \A k \in 1 .. n : path[k].length \in Nat
  PROVE  Len(ComputeVertexCounts(path)) = n /\ CountsAre(ComputeVertexCounts(path))
<1> DEFINE counts == ComputeVertexCounts(path)
<1>1. DOMAIN path = 1 .. n
  OBVIOUS
<1>2. counts = [k \in 1 .. n |-> Max({2 * (path[k].length \div (4 * PixelsPerDivision)), 4})]
  BY <1>1 DEF ComputeVertexCounts
<1> HIDE DEF counts
<1>3. Len(counts) = n
  BY <1>2
<1>4. ASSUME NEW k \in 1 .. n
      PROVE  \E h \in Nat : h >= 2 /\ counts[k] = 2 * h
  <2>1. PICK q \in Nat : q = path[k].length \div (4 * PixelsPerDivision)
    <3>1. path[k].length \div 16 \in Nat /\ 4 * PixelsPerDivision = 16
      BY DEF PixelsPerDivision
    <3> QED BY <3>1
  <2>2. counts[k] = Max({2 * q, 4})
    BY <1>2, <2>1
  <2>3. \E x \in {2 * q, 4} : \A y \in {2 * q, 4} : x >= y
    OBVIOUS
  <2>4. Max({2 * q, 4}) \in {2 * q, 4} /\ \A y \in {2 * q, 4} : Max({2 * q, 4}) >= y
    BY <2>3 DEF Max
  <2>5. (counts[k] = 2 * q /\ q >= 2) \/ counts[k] = 2 * 2
    BY <2>2, <2>4
  <2>6. 2 \in Nat /\ 2 >= 2
    OBVIOUS
  <2> QED BY <2>5, <2>6
<1> QED BY <1>3, <1>4 DEF CountsAre, counts

(* The pairs of vertices of one segment, and how one pair follows another. *)
Row == [segment : Nat, i : Nat, of : Nat]
EndOf(counts, k) == IF k = Len(counts) THEN counts[k] - 2 ELSE counts[k]
RowAt(counts, k, i) == [segment |-> k, i |-> i, of |-> EndOf(counts, k)]
RowsOf(counts, k) == [j \in 1 .. counts[k] \div 2 |-> RowAt(counts, k, 2 * (j - 1))]

Follows(p, q) ==
  \/ p.segment = q.segment /\ p.of = q.of /\ p.i < q.i
  \/ p.segment + 1 = q.segment /\ p.i < p.of /\ q.i = 0

Lead(rows, p, q) ==
  /\ rows \in Seq(Row) /\ Len(rows) >= 1
  /\ rows[1] = p /\ rows[Len(rows)] = q
  /\ \A j \in 1 .. Len(rows) - 1 : Follows(rows[j], rows[j + 1])

LEMMA RowsLead ==
  ASSUME NEW f, NEW g, NEW p, NEW q, NEW r, NEW t, Lead(f, p, q), Lead(g, r, t), Follows(q, r)
  PROVE  Lead(f \o g, p, t)
<1> DEFINE h == f \o g
<1>1. /\ h \in Seq(Row) /\ Len(h) = Len(f) + Len(g) /\ Len(f) \in Nat /\ Len(g) \in Nat
      /\ Len(f) >= 1 /\ Len(g) >= 1
      /\ \A i \in 1 .. Len(f) : h[i] = f[i]
      /\ \A i \in 1 .. Len(g) : h[Len(f) + i] = g[i]
  BY DEF Lead
<1> HIDE DEF h
<1>2. h[1] = f[1] /\ h[Len(h)] = g[Len(g)]
  BY <1>1
<1>3. ASSUME NEW k \in 1 .. Len(h) - 1
      PROVE  Follows(h[k], h[k + 1])
  <2>1. CASE k < Len(f)
    <3>1. k \in 1 .. Len(f) - 1 /\ k \in 1 .. Len(f) /\ k + 1 \in 1 .. Len(f)
      BY <1>1, <2>1
    <3> QED BY <1>1, <3>1 DEF Lead
  <2>2. CASE k = Len(f)
    <3>1. k \in 1 .. Len(f) /\ 1 \in 1 .. Len(g) /\ k + 1 = Len(f) + 1
      BY <1>1, <2>2
    <3>2. h[k] = f[Len(f)] /\ h[k + 1] = g[1]
      BY <1>1, <2>2, <3>1
    <3> QED BY <3>2 DEF Lead
  <2>3. CASE k > Len(f)
    <3>1. PICK j \in 1 .. Len(g) - 1 :
            j \in 1 .. Len(g) /\ j + 1 \in 1 .. Len(g) /\ k = Len(f) + j /\ k + 1 = Len(f) + (j + 1)
      <4>1. \A m \in Nat, n \in Nat : \A i \in 1 .. m + n - 1 : i > m =>
              LET j == i - m
              IN  /\ j \in 1 .. n - 1 /\ j \in 1 .. n /\ j + 1 \in 1 .. n
                  /\ i = m + j /\ i + 1 = m + (j + 1)
        OBVIOUS
      <4>2. Len(f) \in Nat /\ Len(g) \in Nat /\ k \in 1 .. Len(f) + Len(g) - 1
        BY <1>1
      <4> QED BY <2>3, <4>1, <4>2
    <3>2. h[k] = g[j] /\ h[k + 1] = g[j + 1]
      BY <1>1, <3>1
    <3> QED BY <3>1, <3>2 DEF Lead
  <2> QED BY <1>1, <2>1, <2>2, <2>3
<1>4. h[1] = p /\ h[Len(h)] = t
  BY <1>2 DEF Lead
<1>5. Len(h) >= 1
  BY <1>1
<1> QED BY <1>1, <1>3, <1>4, <1>5 DEF Lead, h

LEMMA RowsOfLead ==
  ASSUME NEW counts, CountsAre(counts), NEW k \in 1 .. Len(counts), Len(counts) \in Nat
  PROVE  Lead(RowsOf(counts, k), RowAt(counts, k, 0), RowAt(counts, k, counts[k] - 2))
<1>1. PICK h \in Nat : h >= 2 /\ counts[k] = 2 * h
  BY DEF CountsAre
<1> DEFINE rows == RowsOf(counts, k)
           end == EndOf(counts, k)
<1>2. counts[k] \div 2 = h /\ counts[k] - 2 = 2 * (h - 1) /\ counts[k] - 2 \in Nat /\ counts[k] \in Nat
  BY <1>1
<1>3. end \in Nat
  BY <1>2 DEF EndOf
<1>4. rows = [j \in 1 .. h |-> RowAt(counts, k, 2 * (j - 1))]
  BY <1>2 DEF RowsOf
<1> HIDE DEF rows, end
<1>5. Len(rows) = h /\ \A j \in 1 .. h : rows[j] = RowAt(counts, k, 2 * (j - 1))
  BY <1>4
<1>6. \A i \in Nat : /\ RowAt(counts, k, i) \in Row /\ RowAt(counts, k, i).segment = k
                     /\ RowAt(counts, k, i).i = i /\ RowAt(counts, k, i).of = end
  BY <1>3 DEF RowAt, Row, end
<1>7. \A j \in 1 .. h : 2 * (j - 1) \in Nat
  OBVIOUS
<1>8. rows \in Seq(Row)
  <2>1. \A j \in 1 .. h : RowAt(counts, k, 2 * (j - 1)) \in Row
    BY <1>6, <1>7
  <2> QED BY <1>4, <2>1
<1>9. rows[1] = RowAt(counts, k, 0) /\ rows[h] = RowAt(counts, k, counts[k] - 2)
  <2>1. 1 \in 1 .. h /\ h \in 1 .. h /\ 2 * (1 - 1) = 0
    BY <1>1
  <2> QED BY <1>2, <1>5, <2>1
<1>10. ASSUME NEW j \in 1 .. h - 1
       PROVE  Follows(rows[j], rows[j + 1])
  <2>1. /\ j \in 1 .. h /\ j + 1 \in 1 .. h /\ 2 * (j - 1) < 2 * ((j + 1) - 1)
    OBVIOUS
  <2>2. 2 * (j - 1) \in Nat /\ 2 * ((j + 1) - 1) \in Nat
    OBVIOUS
  <2>3. rows[j] = RowAt(counts, k, 2 * (j - 1)) /\ rows[j + 1] = RowAt(counts, k, 2 * ((j + 1) - 1))
    BY <1>5, <2>1
  <2> QED BY <1>6, <2>1, <2>2, <2>3 DEF Follows
<1> QED BY <1>1, <1>5, <1>8, <1>9, <1>10 DEF Lead, rows

RowsUpTo(counts, m) == FlattenSeq([k \in 1 .. m |-> RowsOf(counts, k)])

LEMMA RowsUpToLead ==
  ASSUME NEW counts, CountsAre(counts), NEW n \in Nat, n = Len(counts), NEW k \in 0 .. n - 1
  PROVE  Lead(RowsUpTo(counts, k + 1), RowAt(counts, 1, 0), RowAt(counts, k + 1, counts[k + 1] - 2))
<1> DEFINE Right(j) == j < n => Lead(RowsUpTo(counts, j + 1), RowAt(counts, 1, 0),
                                     RowAt(counts, j + 1, counts[j + 1] - 2))
           good == {j \in Nat : Right(j)}
<1>1. Right(0)
  <2> SUFFICES ASSUME 0 < n PROVE Lead(RowsUpTo(counts, 0 + 1), RowAt(counts, 1, 0),
                                     RowAt(counts, 0 + 1, counts[0 + 1] - 2))
    OBVIOUS
  <2>1. 1 \in 1 .. Len(counts) /\ 0 + 1 = 1
    OBVIOUS
  <2>2. [j \in 1 .. 1 |-> RowsOf(counts, j)] = <<RowsOf(counts, 1)>>
    <3> DEFINE q == RowsOf(counts, 1)
    <3>1. [j \in 1 .. 1 |-> RowsOf(counts, j)] = [j \in 1 .. 1 |-> q]
      OBVIOUS
    <3> HIDE DEF q
    <3>2. [j \in 1 .. 1 |-> q] = <<q>>
      OBVIOUS
    <3> QED BY <3>1, <3>2 DEF q
  <2>3. RowsUpTo(counts, 1) = RowsOf(counts, 1)
    BY <2>2, FlattenOne DEF RowsUpTo
  <2> QED BY <2>1, <2>3, RowsOfLead
<1>2. ASSUME NEW j \in 0 .. k - 1, Right(j)
      PROVE  Right(j + 1)
  <2> PICK m : m = j + 1
    OBVIOUS
  <2>1. j < n /\ m \in 1 .. n /\ m + 1 \in 1 .. n /\ m \in Nat \ {0} /\ m # n
    OBVIOUS
  <2>2. Lead(RowsUpTo(counts, m), RowAt(counts, 1, 0), RowAt(counts, m, counts[m] - 2))
    BY <1>2, <2>1
  <2>3. Lead(RowsOf(counts, m + 1), RowAt(counts, m + 1, 0), RowAt(counts, m + 1, counts[m + 1] - 2))
    BY <2>1, RowsOfLead
  <2>4. Follows(RowAt(counts, m, counts[m] - 2), RowAt(counts, m + 1, 0))
    <3>1. counts[m] \in Nat /\ counts[m] - 2 < counts[m]
      <4>1. PICK h \in Nat : h >= 2 /\ counts[m] = 2 * h
        BY <2>1 DEF CountsAre
      <4> QED BY <4>1
    <3> QED BY <2>1, <3>1 DEF Follows, RowAt, EndOf
  <2>5. RowsUpTo(counts, m + 1) = RowsUpTo(counts, m) \o RowsOf(counts, m + 1)
    <3> DEFINE ss == [i \in 1 .. m |-> RowsOf(counts, i)]
               tt == [i \in 1 .. m + 1 |-> RowsOf(counts, i)]
    <3>1. /\ Len(ss) = m /\ Len(tt) = m + 1 /\ \A i \in 1 .. m : tt[i] = ss[i]
          /\ tt[m + 1] = RowsOf(counts, m + 1)
      BY <2>1
    <3> HIDE DEF ss, tt
    <3>2. FlattenSeq(tt) = FlattenSeq(ss) \o tt[m + 1]
      BY <2>1, <3>1, FlattenMore
    <3> QED BY <3>1, <3>2 DEF RowsUpTo, ss, tt
  <2>6. Lead(RowsUpTo(counts, m + 1), RowAt(counts, 1, 0), RowAt(counts, m + 1, counts[m + 1] - 2))
    BY <2>2, <2>3, <2>4, <2>5, RowsLead
  <2> QED BY <2>6
<1>3. 0 \in good /\ good \in SUBSET Nat
  BY <1>1
<1>4. \A j \in 0 .. k - 1 : j \in good => j + 1 \in good
  BY <1>2
<1> HIDE DEF good
<1>5. k \in good
  <2>1. k \in Nat
    OBVIOUS
  <2> QED BY <1>3, <1>4, <2>1, AfterSteps
<1> QED BY <1>5 DEF good

LEMMA RowsAre ==
  ASSUME NEW counts, NEW n \in Nat \ {0}, counts = [k \in 1 .. n |-> counts[k]], Len(counts) = n,
         CountsAre(counts)
  PROVE  Lead(Rows(counts), RowAt(counts, 1, 0), RowAt(counts, n, counts[n] - 2))
<1>1. n - 1 \in 0 .. n - 1 /\ (n - 1) + 1 = n /\ n \in Nat
  OBVIOUS
<1>2. Lead(RowsUpTo(counts, n), RowAt(counts, 1, 0), RowAt(counts, n, counts[n] - 2))
  BY <1>1, RowsUpToLead
<1>3. DOMAIN counts = 1 .. n
  OBVIOUS
<1>4. Rows(counts) = RowsUpTo(counts, n)
  BY <1>3 DEF Rows, RowsUpTo, RowsOf, RowAt, EndOf
<1> QED BY <1>2, <1>4

(* The triangles are counted from pairs: two between each two pairs.       *)
LEMMA TrianglesAre ==
  ASSUME NEW n \in Nat, n >= 1
  PROVE  /\ Len(StrokeTriangles(2 * n)) = 2 * (n - 1)
         /\ \A j \in 1 .. n - 1 :
              {ToSet(StrokeTriangles(2 * n)[2 * j - 1]), ToSet(StrokeTriangles(2 * n)[2 * j])} =
                LET i == 2 * (j - 1) IN {{i, i + 1, i + 3}, {i, i + 2, i + 3}}
<1> DEFINE triangles == StrokeTriangles(2 * n)
           m == 2 * (n - 1)
<1>1. m \in Nat /\ 2 * n - 2 = m
  OBVIOUS
<1>2. triangles = [k \in 1 .. m |->
                     LET i == 2 * ((k - 1) \div 2)
                     IN  IF k % 2 = 1 THEN <<i, i + 1, i + 3>> ELSE <<i, i + 3, i + 2>>]
  BY <1>1 DEF StrokeTriangles
<1> HIDE DEF triangles
<1>3. Len(triangles) = m
  BY <1>1, <1>2
<1>4. \A k \in 1 .. m : triangles[k] = LET i == 2 * ((k - 1) \div 2)
                                       IN  IF k % 2 = 1 THEN <<i, i + 1, i + 3>> ELSE <<i, i + 3, i + 2>>
  BY <1>2
<1>5. ASSUME NEW j \in 1 .. n - 1, NEW i, i = 2 * (j - 1)
      PROVE  {ToSet(triangles[2 * j - 1]), ToSet(triangles[2 * j])}
             = {{i, i + 1, i + 3}, {i, i + 2, i + 3}}
  <2>1. /\ 2 * j - 1 \in 1 .. m /\ (2 * j - 1) % 2 = 1 /\ 2 * (((2 * j - 1) - 1) \div 2) = i
        /\ 2 * j \in 1 .. m /\ (2 * j) % 2 = 0 /\ 2 * ((2 * j - 1) \div 2) = i
    BY <1>5
  <2>2. triangles[2 * j - 1] = <<i, i + 1, i + 3>>
    BY <1>4, <2>1
  <2>3. triangles[2 * j] = <<i, i + 3, i + 2>>
    BY <1>4, <2>1
  <2>4. ASSUME NEW x, NEW y, NEW z
        PROVE  ToSet(<<x, y, z>>) = {x, y, z}
    <3> DEFINE s == <<x, y, z>>
    <3>1. DOMAIN s = 1 .. 3 /\ s[1] = x /\ s[2] = y /\ s[3] = z
      OBVIOUS
    <3> HIDE DEF s
    <3>2. 1 .. 3 = {1, 2, 3}
      OBVIOUS
    <3>3. \A e : e \in {s[k] : k \in {1, 2, 3}} <=> e \in {x, y, z}
      BY <3>1
    <3>4. ToSet(s) = {x, y, z}
      BY <3>1, <3>2, <3>3 DEF ToSet
    <3> QED BY <3>4 DEF s
  <2>5. /\ ToSet(triangles[2 * j - 1]) = {i, i + 1, i + 3}
        /\ ToSet(triangles[2 * j]) = {i, i + 3, i + 2}
    BY <2>2, <2>3, <2>4, Zenon
  <2>6. {i, i + 3, i + 2} = {i, i + 2, i + 3}
    BY Zenon
  <2> QED BY <2>5, <2>6, Zenon
<1> HIDE DEF m
<1>6. \A j \in 1 .. n - 1 :
              {ToSet(triangles[2 * j - 1]), ToSet(triangles[2 * j])} =
                LET i == 2 * (j - 1) IN {{i, i + 1, i + 3}, {i, i + 2, i + 3}}
  BY <1>5
<1> QED BY <1>3, <1>6 DEF triangles, m

(* The paths and the meshes that a stroke can have.                        *)
PathTyped(path) ==
  \E n \in Nat \ {0} :
    /\ path = [k \in 1 .. n |-> path[k]] /\ Len(path) = n /\ path # <<>>
    /\ \A k \in 1 .. n : path[k].length \in Nat

LEMMA MeshOfPath ==
  ASSUME NEW mesh, PathTyped(mesh.path), mesh.rows = Rows(ComputeVertexCounts(mesh.path)),
         mesh.triangles = StrokeTriangles(2 * Len(mesh.rows))
  PROVE  StripIsWhole(mesh)
<1>1. PICK n \in Nat \ {0} : /\ mesh.path = [k \in 1 .. n |-> mesh.path[k]] /\ Len(mesh.path) = n
                             /\ \A k \in 1 .. n : mesh.path[k].length \in Nat
  BY DEF PathTyped
<1> PICK counts : counts = ComputeVertexCounts(mesh.path)
  OBVIOUS
<1> PICK rows : rows = mesh.rows
  OBVIOUS
<1>2. Len(counts) = n /\ CountsAre(counts)
  BY <1>1, VertexCountsAre
<1>3. counts = [k \in 1 .. n |-> counts[k]]
  <2>1. DOMAIN mesh.path = 1 .. n
    BY <1>1
  <2> QED BY <2>1 DEF ComputeVertexCounts
<1>4. Lead(rows, RowAt(counts, 1, 0), RowAt(counts, n, counts[n] - 2))
  BY <1>2, <1>3, RowsAre
<1>5. /\ rows \in Seq(Row) /\ Len(rows) \in Nat /\ Len(rows) >= 1
      /\ rows[1] = RowAt(counts, 1, 0) /\ Last(rows) = RowAt(counts, n, counts[n] - 2)
      /\ \A j \in 1 .. Len(rows) - 1 : Follows(rows[j], rows[j + 1])
  BY <1>4 DEF Lead, Last
<1>6. /\ rows[1].segment = 1 /\ rows[1].i = 0
      /\ Last(rows).segment = n /\ Last(rows).i = Last(rows).of
  BY <1>2, <1>5 DEF RowAt, EndOf
<1>7. \A j \in 1 .. Len(rows) - 1 :
         \/ rows[j].segment = rows[j + 1].segment
            /\ rows[j].of = rows[j + 1].of /\ rows[j].i < rows[j + 1].i
         \/ rows[j].segment + 1 = rows[j + 1].segment
            /\ rows[j].i < rows[j].of /\ rows[j + 1].i = 0
  BY <1>5 DEF Follows
<1>8. /\ Len(mesh.triangles) = 2 * (Len(rows) - 1)
      /\ \A j \in 1 .. Len(rows) - 1 :
              {ToSet(mesh.triangles[2 * j - 1]), ToSet(mesh.triangles[2 * j])} =
                LET i == 2 * (j - 1) IN {{i, i + 1, i + 3}, {i, i + 2, i + 3}}
  <2> PICK m : m = Len(rows)
    OBVIOUS
  <2>1. m \in Nat /\ m >= 1 /\ mesh.triangles = StrokeTriangles(2 * m)
    BY <1>5
  <2>2. /\ Len(StrokeTriangles(2 * m)) = 2 * (m - 1)
        /\ \A j \in 1 .. m - 1 :
              {ToSet(StrokeTriangles(2 * m)[2 * j - 1]), ToSet(StrokeTriangles(2 * m)[2 * j])} =
                LET i == 2 * (j - 1) IN {{i, i + 1, i + 3}, {i, i + 2, i + 3}}
    BY <2>1, TrianglesAre
  <2> QED BY <2>1, <2>2
<1> QED BY <1>1, <1>6, <1>7, <1>8 DEF StripIsWhole

Tessellated(stroke) ==
  IF stroke.path = <<>> THEN stroke.mesh = <<>>
  ELSE stroke.mesh.path = stroke.path /\ StripIsWhole(stroke.mesh)

LEMMA TessellateStrokeIs ==
  ASSUME NEW stroke, DOMAIN stroke = {"path", "mesh", "finalized"},
         stroke.path = <<>> => stroke.mesh = <<>>,
         stroke.path # <<>> => PathTyped(stroke.path)
  PROVE  /\ TessellateStroke(stroke).path = stroke.path
         /\ Tessellated(TessellateStroke(stroke))
<1>1. CASE stroke.path = <<>>
  BY <1>1 DEF TessellateStroke, Tessellated
<1>2. CASE stroke.path # <<>>
  <2> DEFINE rows == Rows(ComputeVertexCounts(stroke.path))
             mesh == [path |-> stroke.path, rows |-> rows, triangles |-> StrokeTriangles(2 * Len(rows))]
  <2>1. TessellateStroke(stroke) = [stroke EXCEPT !.mesh = mesh]
    BY <1>2 DEF TessellateStroke
  <2>2. /\ mesh.path = stroke.path /\ mesh.rows = Rows(ComputeVertexCounts(mesh.path))
        /\ mesh.triangles = StrokeTriangles(2 * Len(mesh.rows))
    OBVIOUS
  <2> HIDE DEF mesh
  <2>3. TessellateStroke(stroke).path = stroke.path /\ TessellateStroke(stroke).mesh = mesh
    BY <2>1
  <2>4. StripIsWhole(mesh)
    BY <1>2, <2>2, MeshOfPath
  <2> QED BY <1>2, <2>2, <2>3, <2>4 DEF Tessellated
<1> QED BY <1>1, <1>2

(* What is kept of every stroke, and of the samples of every touch: also a *)
(* stroke that no frame has drawn has a path that can be tessellated, and  *)
(* one without a path has no mesh.                                         *)
Sketched(path, points) ==
  IF Len(points) = 1 THEN path = <<>> ELSE PathIsWhole(path, points)

StrokeSound(stroke, dirty) ==
  /\ stroke.path = <<>> => stroke.mesh = <<>>
  /\ stroke.path # <<>> => PathTyped(stroke.path)
  /\ dirty \/ Tessellated(stroke)

TouchSound(touch) ==
  /\ fitters[touch].points \in Seq(Points) /\ Len(fitters[touch].points) >= 1
  /\ Sketched(strokes[fitters[touch].stroke].path, fitters[touch].points)

SketchInv ==
  /\ \A touch \in DOMAIN fitters : TouchSound(touch)
  /\ \A id \in DOMAIN strokes : StrokeSound(strokes[id], id \in dirty_strokes)

LEMMA SketchIsDrawn == SketchInv => DrawnAsSketched
<1> SUFFICES ASSUME SketchInv PROVE DrawnAsSketched
  OBVIOUS
<1>1. \A touch \in DOMAIN fitters :
         LET path == strokes[fitters[touch].stroke].path IN
         IF Len(fitters[touch].points) = 1 THEN path = <<>> ELSE PathIsWhole(path, fitters[touch].points)
  BY DEF SketchInv, TouchSound, Sketched
<1>2. \A id \in DOMAIN strokes \ dirty_strokes :
         LET stroke == strokes[id] IN
         IF stroke.path = <<>> THEN stroke.mesh = <<>>
         ELSE stroke.mesh.path = stroke.path /\ StripIsWhole(stroke.mesh)
  BY DEF SketchInv, StrokeSound, Tessellated
<1> QED BY <1>1, <1>2 DEF DrawnAsSketched

LEMMA InitSketch == StrokesInit => SketchInv
<1> SUFFICES ASSUME StrokesInit PROVE SketchInv
  OBVIOUS
<1>1. DOMAIN strokes = {} /\ DOMAIN fitters = {}
  BY DEF StrokesInit
<1> QED BY <1>1 DEF SketchInv

LEMMA SplitPathTyped ==
  ASSUME NEW path \in Seq(Curve), Len(path) >= 1
  PROVE  PathTyped(SplitPath(path))
<1> DEFINE n == 2 * Len(path)
           halves == SplitPath(path)
<1>1. /\ halves = [k \in 1 .. n |-> halves[k]] /\ Len(halves) = n /\ halves # <<>>
      /\ \A k \in 1 .. Len(path) : /\ halves[2 * k - 1].curve = SplitCurve(path[k])[1]
                                   /\ halves[2 * k].curve = SplitCurve(path[k])[2]
      /\ \A k \in 1 .. n : halves[k].length = ArcLength(halves[k].curve)
  BY SplitPathIs
<1> HIDE DEF halves
<1>2. \A j \in 1 .. Len(path) : ArcLength(halves[2 * j - 1].curve) \in Nat
                                /\ ArcLength(halves[2 * j].curve) \in Nat
  <2> TAKE j \in 1 .. Len(path)
  <2>1. path[j] \in Curve /\ 0 \in 0 .. 4
    OBVIOUS
  <2>2. /\ ArcLength(SplitCurve(path[j])[1]) \in Nat
        /\ ArcLength(SplitCurve(path[j])[2]) \in Nat
    BY <2>1, HalvesAre
  <2> QED BY <1>1, <2>2
<1>3. ASSUME NEW k \in 1 .. n
      PROVE  halves[k].length \in Nat
  <2>1. \E j \in 1 .. Len(path) : k = 2 * j - 1 \/ k = 2 * j
    <3>1. CASE k % 2 = 1
      <4>1. (k + 1) \div 2 \in 1 .. Len(path) /\ k = 2 * ((k + 1) \div 2) - 1
        BY <3>1
      <4> QED BY <4>1
    <3>2. CASE k % 2 # 1
      <4>1. k \div 2 \in 1 .. Len(path) /\ k = 2 * (k \div 2)
        BY <3>2
      <4> QED BY <4>1
    <3> QED BY <3>1, <3>2
  <2> QED BY <1>1, <1>2, <2>1
<1>4. n \in Nat \ {0}
  OBVIOUS
<1> HIDE DEF n
<1>5. PathTyped(halves)
  BY <1>1, <1>3, <1>4 DEF PathTyped
<1> QED BY <1>5 DEF halves

(* A touch that moves gives its stroke a path through all of the samples,  *)
(* and the page a stroke to tessellate; one that does not move changes     *)
(* neither.                                                                *)
LEMMA SampledIs ==
  ASSUME NEW touch \in DOMAIN fitters, NEW p \in Points, SketchInv
  PROVE  /\ Sampled(touch, p) \in Seq(Points) /\ Len(Sampled(touch, p)) >= 1
         /\ Sampled(touch, p) # fitters[touch].points => Len(Sampled(touch, p)) >= 2
<1>1. fitters[touch].points \in Seq(Points) /\ Len(fitters[touch].points) >= 1
  BY DEF SketchInv, TouchSound
<1> PICK points : points = fitters[touch].points
  OBVIOUS
<1>2. Append(points, p) \in Seq(Points) /\ Len(Append(points, p)) = Len(points) + 1
  BY <1>1
<1>3. Sampled(touch, p) = points \/ Sampled(touch, p) = Append(points, p)
  BY DEF Sampled
<1> QED BY <1>1, <1>2, <1>3

LEMMA ContinueStrokeSketch ==
  ASSUME StrokesInv, SketchInv, NEW touch \in DOMAIN fitters, NEW p \in Points,
         NEW finishes \in BOOLEAN, ContinueStroke(touch, p, finishes)
  PROVE  /\ Sketched(strokes'[fitters[touch].stroke].path, Sampled(touch, p))
         /\ \A id \in DOMAIN strokes : StrokeSound(strokes'[id], id \in dirty_strokes')
<1> PICK own : own = fitters[touch].stroke
  OBVIOUS
<1> PICK points : points = Sampled(touch, p)
  OBVIOUS
<1>1. own \in DOMAIN strokes /\ DOMAIN strokes[own] = {"path", "mesh", "finalized"}
  BY DEF StrokesInv, StrokeTypes, StrokesInUseExist
<1>2. points \in Seq(Points) /\ Len(points) >= 1
  BY SampledIs
<1>3. StrokeSound(strokes[own], own \in dirty_strokes)
  BY <1>1 DEF SketchInv
<1>4. CASE points = fitters[touch].points
  <2>1. strokes' = [strokes EXCEPT ![own].finalized = finishes] /\ dirty_strokes' = dirty_strokes
    BY <1>4 DEF ContinueStroke
  <2>2. /\ strokes'[own].path = strokes[own].path /\ strokes'[own].mesh = strokes[own].mesh
        /\ \A id \in DOMAIN strokes \ {own} : strokes'[id] = strokes[id]
    BY <1>1, <2>1
  <2>3. Sketched(strokes[own].path, points)
    BY <1>4 DEF SketchInv, TouchSound
  <2>4. StrokeSound(strokes'[own], own \in dirty_strokes')
    BY <1>3, <2>1, <2>2 DEF StrokeSound, Tessellated
  <2> QED BY <2>1, <2>2, <2>3, <2>4 DEF SketchInv
<1>5. CASE points # fitters[touch].points
  <2>1. PICK path \in FitSampleRange(points) : SetPath(own, SplitPath(path), finishes)
    BY <1>5 DEF ContinueStroke
  <2>2. Len(points) >= 2
    BY <1>5, SampledIs
  <2>3. Joins(path, points[1], points[Len(points)])
    BY <1>2, <2>2, FitJoins
  <2>4. path \in Seq(Curve) /\ Len(path) >= 1
    BY <2>3 DEF Joins
  <2> PICK halves : halves = SplitPath(path)
    OBVIOUS
  <2>5. PathIsWhole(halves, points) /\ PathTyped(halves) /\ halves # <<>>
    BY <2>3, <2>4, SplitPathIsWhole, SplitPathTyped, SplitPathIs
  <2>6. /\ strokes' = [strokes EXCEPT ![own].path = halves, ![own].finalized = finishes]
        /\ dirty_strokes' = dirty_strokes \cup {own}
    BY <2>1 DEF SetPath
  <2>7. /\ strokes'[own].path = halves
        /\ \A id \in DOMAIN strokes \ {own} : strokes'[id] = strokes[id]
    BY <1>1, <2>6
  <2>8. Sketched(strokes'[own].path, points)
    <3>1. Len(points) # 1
      BY <2>2
    <3> QED BY <2>5, <2>7, <3>1 DEF Sketched
  <2>9. StrokeSound(strokes'[own], own \in dirty_strokes')
    BY <2>5, <2>6, <2>7 DEF StrokeSound
  <2>10. \A id \in DOMAIN strokes \ {own} : id \in dirty_strokes' <=> id \in dirty_strokes
    BY <2>6
  <2>11. \A id \in DOMAIN strokes \ {own} : StrokeSound(strokes'[id], id \in dirty_strokes')
    BY <2>7, <2>10 DEF SketchInv, StrokeSound
  <2> QED BY <2>8, <2>9, <2>11
<1> QED BY <1>4, <1>5

LEMMA BeginTouchSketch ==
  ASSUME StrokesInv, SketchInv, NEW touch, NEW p \in Points, BeginTouch(touch, p)
  PROVE  SketchInv'
<1>1. PICK n : n = next_stroke_id
  OBVIOUS
<1> DEFINE stroke == [path |-> <<>>, mesh |-> <<>>, finalized |-> FALSE]
           fitter == [stroke |-> n, points |-> <<p>>]
<1>2. /\ touch \notin DOMAIN fitters
      /\ strokes' = [y \in DOMAIN strokes \cup {n} |-> IF y = n THEN stroke ELSE strokes[y]]
      /\ fitters' = [y \in DOMAIN fitters \cup {touch} |->
                       IF y = touch THEN fitter ELSE fitters[y]]
      /\ dirty_strokes' = dirty_strokes
  BY <1>1 DEF BeginTouch, With
<1>3. n \notin DOMAIN strokes /\ \A t \in DOMAIN fitters : fitters[t].stroke \in DOMAIN strokes
  BY <1>1 DEF StrokesInv, StrokeTypes, StrokesInUseExist
<1>4. /\ stroke.path = <<>> /\ stroke.mesh = <<>> /\ fitter.stroke = n /\ fitter.points = <<p>>
      /\ <<p>> \in Seq(Points) /\ Len(<<p>>) = 1
  OBVIOUS
<1> HIDE DEF stroke, fitter
<1>5. /\ DOMAIN strokes' = DOMAIN strokes \cup {n} /\ strokes'[n] = stroke
      /\ \A id \in DOMAIN strokes : strokes'[id] = strokes[id]
      /\ DOMAIN fitters' = DOMAIN fitters \cup {touch} /\ fitters'[touch] = fitter
      /\ \A t \in DOMAIN fitters : fitters'[t] = fitters[t]
  BY <1>2, <1>3
<1>6. TouchSound(touch)'
  <2>1. fitters'[touch].points = <<p>> /\ strokes'[fitters'[touch].stroke].path = <<>>
    BY <1>4, <1>5
  <2>2. fitters'[touch].points \in Seq(Points) /\ Len(fitters'[touch].points) = 1
    BY <1>4, <2>1
  <2> QED BY <2>1, <2>2 DEF TouchSound, Sketched
<1>7. ASSUME NEW t \in DOMAIN fitters
      PROVE  TouchSound(t)'
  <2>1. fitters'[t] = fitters[t] /\ strokes'[fitters[t].stroke] = strokes[fitters[t].stroke]
    BY <1>3, <1>5
  <2> QED BY <2>1 DEF SketchInv, TouchSound
<1>8. StrokeSound(strokes'[n], n \in dirty_strokes')
  BY <1>4, <1>5 DEF StrokeSound, Tessellated
<1>9. \A id \in DOMAIN strokes : StrokeSound(strokes'[id], id \in dirty_strokes')
  BY <1>2, <1>5 DEF SketchInv
<1> QED BY <1>5, <1>6, <1>7, <1>8, <1>9 DEF SketchInv

LEMMA ContinueTouchSketch ==
  ASSUME StrokesInv, SketchInv, NEW touch, NEW p \in Points, ContinueTouch(touch, p)
  PROVE  SketchInv'
<1>1. /\ touch \in DOMAIN fitters /\ ContinueStroke(touch, p, FALSE)
      /\ fitters' = [fitters EXCEPT ![touch].points = Sampled(touch, p)]
  BY DEF ContinueTouch
<1>2. /\ DOMAIN fitters' = DOMAIN fitters
      /\ fitters'[touch].points = Sampled(touch, p) /\ fitters'[touch].stroke = fitters[touch].stroke
      /\ \A t \in DOMAIN fitters \ {touch} : fitters'[t] = fitters[t]
  BY <1>1 DEF StrokesInv, StrokeTypes
<1>3. /\ DOMAIN strokes' = DOMAIN strokes
      /\ \A id \in DOMAIN strokes \ {fitters[touch].stroke} : strokes'[id] = strokes[id]
  BY <1>1, ContinueStrokeEffect
<1>4. /\ Sketched(strokes'[fitters[touch].stroke].path, Sampled(touch, p))
      /\ \A id \in DOMAIN strokes : StrokeSound(strokes'[id], id \in dirty_strokes')
  BY <1>1, ContinueStrokeSketch
<1>5. TouchSound(touch)'
  BY <1>1, <1>2, <1>4, SampledIs DEF TouchSound
<1>6. ASSUME NEW t \in DOMAIN fitters \ {touch}
      PROVE  TouchSound(t)'
  <2>1. fitters[t].stroke # fitters[touch].stroke /\ fitters[t].stroke \in DOMAIN strokes
    BY <1>1 DEF StrokesInv, StrokesInUseExist
  <2>2. fitters'[t] = fitters[t] /\ strokes'[fitters[t].stroke] = strokes[fitters[t].stroke]
    BY <1>2, <1>3, <2>1
  <2> QED BY <2>2 DEF SketchInv, TouchSound
<1> QED BY <1>2, <1>3, <1>4, <1>5, <1>6 DEF SketchInv

LEMMA EndTouchSketch ==
  ASSUME StrokesInv, SketchInv, NEW touch, NEW p \in Points, EndTouch(touch, p)
  PROVE  SketchInv'
<1>1. /\ touch \in DOMAIN fitters /\ ContinueStroke(touch, p, TRUE)
      /\ fitters' = [t \in DOMAIN fitters \cap (DOMAIN fitters \ {touch}) |-> fitters[t]]
  BY DEF EndTouch, Without, Restrict
<1>2. /\ DOMAIN fitters' = DOMAIN fitters \ {touch}
      /\ \A t \in DOMAIN fitters \ {touch} : fitters'[t] = fitters[t]
  BY <1>1
<1>3. /\ DOMAIN strokes' = DOMAIN strokes
      /\ \A id \in DOMAIN strokes \ {fitters[touch].stroke} : strokes'[id] = strokes[id]
  BY <1>1, ContinueStrokeEffect
<1>4. \A id \in DOMAIN strokes : StrokeSound(strokes'[id], id \in dirty_strokes')
  BY <1>1, ContinueStrokeSketch
<1>5. ASSUME NEW t \in DOMAIN fitters \ {touch}
      PROVE  TouchSound(t)'
  <2>1. fitters[t].stroke # fitters[touch].stroke /\ fitters[t].stroke \in DOMAIN strokes
    BY <1>1 DEF StrokesInv, StrokesInUseExist
  <2>2. fitters'[t] = fitters[t] /\ strokes'[fitters[t].stroke] = strokes[fitters[t].stroke]
    BY <1>2, <1>3, <2>1
  <2> QED BY <2>2 DEF SketchInv, TouchSound
<1> QED BY <1>2, <1>3, <1>4, <1>5 DEF SketchInv

LEMMA ClearSketch ==
  ASSUME StrokesInv, SketchInv, Clear
  PROVE  SketchInv'
<1> DEFINE Open == {id \in DOMAIN strokes : ~strokes[id].finalized}
<1>1. /\ strokes' = [id \in DOMAIN strokes \cap Open |-> strokes[id]]
      /\ dirty_strokes' = dirty_strokes \cap Open /\ fitters' = fitters
  BY DEF Clear, Restrict
<1>2. /\ DOMAIN strokes' = Open /\ Open \subseteq DOMAIN strokes
      /\ \A id \in Open : strokes'[id] = strokes[id]
  BY <1>1
<1>3. \A t \in DOMAIN fitters : fitters[t].stroke \in Open
  BY DEF StrokesInv, StrokesInUseExist
<1> HIDE DEF Open
<1>4. \A t \in DOMAIN fitters : TouchSound(t)'
  BY <1>1, <1>2, <1>3 DEF SketchInv, TouchSound
<1>5. \A id \in Open : StrokeSound(strokes'[id], id \in dirty_strokes')
  BY <1>1, <1>2 DEF SketchInv, StrokeSound
<1> QED BY <1>1, <1>2, <1>4, <1>5 DEF SketchInv

LEMMA DrawFrameSketch ==
  ASSUME StrokesInv, SketchInv, DrawFrame
  PROVE  SketchInv'
<1>1. /\ strokes' = [id \in DOMAIN strokes |->
                       IF id \in dirty_strokes THEN TessellateStroke(strokes[id]) ELSE strokes[id]]
      /\ dirty_strokes' = {} /\ fitters' = fitters
  BY DEF DrawFrame
<1>2. ASSUME NEW id \in DOMAIN strokes
      PROVE  strokes'[id].path = strokes[id].path /\ StrokeSound(strokes'[id], FALSE)
  <2>1. StrokeSound(strokes[id], id \in dirty_strokes)
    BY DEF SketchInv
  <2>2. CASE id \in dirty_strokes
    <3>1. strokes'[id] = TessellateStroke(strokes[id])
      BY <1>1, <2>2
    <3>2. DOMAIN strokes[id] = {"path", "mesh", "finalized"}
      BY DEF StrokesInv, StrokeTypes
    <3>3. strokes'[id].path = strokes[id].path /\ Tessellated(strokes'[id])
      BY <2>1, <3>1, <3>2, TessellateStrokeIs DEF StrokeSound
    <3> QED BY <2>1, <3>3 DEF StrokeSound, Tessellated
  <2>3. CASE id \notin dirty_strokes
    BY <1>1, <2>1, <2>3 DEF StrokeSound
  <2> QED BY <2>2, <2>3
<1>3. DOMAIN strokes' = DOMAIN strokes
  BY <1>1
<1>4. ASSUME NEW t \in DOMAIN fitters
      PROVE  TouchSound(t)'
  <2>1. fitters[t].stroke \in DOMAIN strokes /\ TouchSound(t)
    BY DEF StrokesInv, StrokesInUseExist, SketchInv
  <2> QED BY <1>1, <1>2, <2>1 DEF TouchSound
<1>5. \A id \in DOMAIN strokes' : StrokeSound(strokes'[id], id \in dirty_strokes')
  BY <1>1, <1>2, <1>3 DEF StrokeSound
<1> QED BY <1>1, <1>4, <1>5 DEF SketchInv

LEMMA NextSketch == StrokesInv /\ SketchInv /\ [StrokesNext]_strokesVars => SketchInv'
<1> SUFFICES ASSUME StrokesInv, SketchInv, [StrokesNext]_strokesVars PROVE SketchInv'
  OBVIOUS
<1>1. CASE UNCHANGED strokesVars
  BY <1>1 DEF strokesVars, SketchInv, TouchSound
<1> QED BY <1>1, BeginTouchSketch, ContinueTouchSketch, EndTouchSketch, ClearSketch,
           DrawFrameSketch DEF StrokesNext

(* What is drawn is what was sketched, for all samples and all ways to     *)
(* split them: the path of a touch that has not ended joins its samples    *)
(* without a gap, its halves are the curves that were fitted, and a stroke *)
(* that no frame has to tessellate has one strip of triangles along its    *)
(* present path (StrokeFitter::FitSampleRange() in                         *)
(* examples/sketchy/sketchy/stroke_fitter.cc, Stroke::Tessellate() in      *)
(* stroke.cc).                                                             *)
THEOREM StrokesAreDrawnAsSketched == StrokesSpec => []DrawnAsSketched
<1> QED BY SketchIsDrawn, InitStrokes, InitSketch, NextStrokes, NextSketch, PTL DEF StrokesSpec

------------------------------------------------------------------------------
(* TimestampProfiler.  The queries in the order in which they are used.    *)
IsQuery(q) == q \in Nat \X Nat /\ q[1] # 0 /\ q[2] < kPoolSize
Rank(q) == (q[1] - 1) * kPoolSize + q[2]
Numbered(s, from) == \A i \in 1..Len(s) : IsQuery(s[i]) /\ Rank(s[i]) = from + i - 1

QueryRange == [pool : Nat, command_buffer : Nat, start_index : Nat, count : Nat]

ProfilerTypes ==
  /\ query_count \in Nat /\ pool_count \in Nat /\ gpu_clock \in Nat
  /\ current_pool_index \in Nat /\ current_frame \in Nat /\ ended \in BOOLEAN
  /\ ranges \in Seq(QueryRange)
  /\ results \in Seq([name : Int, time : Int])
  /\ commands \in Seq(Nat \X Nat)
  /\ in_flight \in Seq([buffer : Nat, queries : Seq(Nat \X Nat)])

Collected == ended /\ ranges = <<>>

(* The ranges hold the first queries, one after the other, and end where   *)
(* the next one is.                                                        *)
FetchedInv ==
  /\ Fetched \in Seq(Nat \X Nat) /\ Len(Fetched) = query_count
  /\ Numbered(Fetched, 0)
  /\ \A k \in 1..Len(Fetched) : Fetched[k][1] <= pool_count

RangesEnd ==
  IF ranges = <<>>
  THEN query_count = 0 /\ pool_count = 0 /\ current_pool_index = 0
  ELSE /\ pool_count # 0 /\ current_pool_index \in 1..kPoolSize
       /\ Last(ranges).pool = pool_count
       /\ Last(ranges).start_index + Last(ranges).count = current_pool_index
       /\ (pool_count - 1) * kPoolSize + current_pool_index = query_count

(* The commands in flight and those that are recorded write the next ones, *)
(* where the GPU's clock stands, up to the last.                           *)
Follow(reached) ==
  /\ reached \in [1..(Len(in_flight) + 1) -> Nat] /\ reached[1] = gpu_clock
  /\ \A j \in 1..Len(in_flight) : /\ reached[j + 1] = reached[j] + Len(in_flight[j].queries)
                                  /\ Numbered(in_flight[j].queries, reached[j])
  /\ Numbered(commands, reached[Len(in_flight) + 1])
  /\ reached[Len(in_flight) + 1] + Len(commands) = query_count

WrittenInv ==
  /\ \A q \in DOMAIN written : IsQuery(q) /\ Rank(q) < gpu_clock /\ written[q] = Rank(q)
  /\ \A q \in Nat \X Nat : IsQuery(q) /\ Rank(q) < gpu_clock => q \in DOMAIN written

ResultsInv ==
  /\ ~Collected => Len(results) = query_count
  /\ \A i \in 1..Len(results) : results[i].name = i - 1
  /\ Collected => \A i \in 1..Len(results) : results[i].time = i - 1

PhaseInv ==
  /\ current_frame = 0 => commands = <<>>
  /\ ended => current_frame = 0
  /\ Collected => in_flight = <<>>

ProfilerInv ==
  /\ ProfilerTypes /\ FetchedInv /\ RangesEnd /\ WrittenInv /\ ResultsInv /\ PhaseInv
  /\ ~Collected => \E reached : Follow(reached)

LEMMA RankIsNatural ==
  ASSUME NEW q, IsQuery(q)
  PROVE  Rank(q) \in Nat /\ q[1] \in Nat \ {0} /\ q[2] \in 0..(kPoolSize - 1)
<1>1. q[1] \in Nat \ {0} /\ q[2] \in 0..(kPoolSize - 1) /\ kPoolSize \in Nat
  BY ProfilerAssumption DEF IsQuery
<1>2. (q[1] - 1) * kPoolSize \in Nat
  BY <1>1
<1> QED BY <1>1, <1>2 DEF Rank

LEMMA RanksDiffer ==
  ASSUME NEW p, NEW q, IsQuery(p), IsQuery(q), Rank(p) = Rank(q)
  PROVE  p = q
<1>1. /\ p[1] \in Nat /\ p[2] \in 0..(kPoolSize - 1)
      /\ q[1] \in Nat /\ q[2] \in 0..(kPoolSize - 1)
  BY RankIsNatural
<1>2. kPoolSize \in Nat /\ kPoolSize # 0 /\ p[1] - 1 \in Int /\ q[1] - 1 \in Int
  BY <1>1, ProfilerAssumption
<1>3. Rank(p) % kPoolSize = p[2] /\ Rank(q) % kPoolSize = q[2]
  BY <1>1, <1>2, ModUnique DEF Rank
<1>4. p[2] = q[2] /\ (p[1] - 1) * kPoolSize = (q[1] - 1) * kPoolSize
  <2>1. (p[1] - 1) * kPoolSize \in Int /\ (q[1] - 1) * kPoolSize \in Int
    BY <1>2
  <2>2. p[2] = q[2]
    BY <1>3
  <2>3. (p[1] - 1) * kPoolSize + p[2] = (q[1] - 1) * kPoolSize + q[2]
    BY DEF Rank
  <2> DEFINE x == (p[1] - 1) * kPoolSize
             y == (q[1] - 1) * kPoolSize
  <2>4. x \in Int /\ y \in Int /\ x + p[2] = y + p[2] /\ p[2] \in Int
    BY <1>1, <2>1, <2>2, <2>3
  <2> HIDE DEF x, y
  <2>5. x = y
    BY <2>4
  <2> QED BY <2>2, <2>5 DEF x, y
<1>5. p[1] = q[1]
  <2> DEFINE a == p[1] - 1
             b == q[1] - 1
  <2>1. a \in Int /\ b \in Int /\ a * kPoolSize = b * kPoolSize
    BY <1>2, <1>4
  <2> HIDE DEF a, b
  <2>2. a = b
    BY <1>2, <2>1
  <2> QED BY <1>1, <2>2 DEF a, b
<1> QED BY <1>4, <1>5 DEF IsQuery

(* What AddTimestamp() does to the queries that will be fetched, in a new  *)
(* range or in the last one.                                               *)
QueriesOf(rs) == FlattenSeq([k \in DOMAIN rs |-> Queries(rs[k])])

LEMMA QueriesType ==
  ASSUME NEW r \in QueryRange
  PROVE  Queries(r) \in Seq(Nat \X Nat) /\ Len(Queries(r)) = r.count
<1>1. r.pool \in Nat /\ r.start_index \in Nat /\ r.count \in Nat
  BY DEF QueryRange
<1>2. \A i \in 1 .. r.count : r.start_index + i - 1 \in Nat
  BY <1>1
<1> QED BY <1>1, <1>2 DEF Queries

LEMMA FetchedMore ==
  ASSUME NEW rs \in Seq(QueryRange), NEW s \in Seq(QueryRange), NEW n \in Nat,
         Len(rs) = n, Len(s) = n + 1, \A i \in 1..n : s[i] = rs[i]
  PROVE  QueriesOf(s) = IF n = 0 THEN Queries(s[1]) ELSE QueriesOf(rs) \o Queries(s[n + 1])
<1> DEFINE q == [k \in DOMAIN rs |-> Queries(rs[k])]
           p == [k \in DOMAIN s |-> Queries(s[k])]
<1>1. /\ DOMAIN q = 1..n /\ DOMAIN p = 1..(n + 1) /\ \A i \in 1..n : p[i] = q[i]
      /\ p[n + 1] = Queries(s[n + 1])
  OBVIOUS
<1>2. Len(q) = n /\ Len(p) = n + 1
  OBVIOUS
<1>3. CASE n = 0
  <2>1. p = <<Queries(s[1])>>
    BY <1>1, <1>3
  <2> HIDE DEF p
  <2>2. FlattenSeq(p) = Queries(s[1])
    BY <2>1, FlattenOne
  <2> QED BY <1>3, <2>2 DEF p, QueriesOf
<1>4. CASE n # 0
  <2> HIDE DEF q, p
  <2>1. FlattenSeq(p) = FlattenSeq(q) \o p[n + 1]
    BY <1>1, <1>2, <1>4, FlattenMore
  <2> QED BY <1>1, <1>4, <2>1 DEF q, p, QueriesOf
<1> QED BY <1>3, <1>4

LEMMA QueriesOfType ==
  ASSUME NEW rs \in Seq(QueryRange)
  PROVE  QueriesOf(rs) \in Seq(Nat \X Nat) /\ (Len(rs) = 0 => QueriesOf(rs) = <<>>)
<1> DEFINE p == [k \in DOMAIN rs |-> Queries(rs[k])]
<1> PICK n : n = Len(rs)
  OBVIOUS
<1>1. n \in Nat /\ DOMAIN rs = 1..n /\ \A i \in 1..n : rs[i] \in QueryRange
  OBVIOUS
<1>2. Len(p) = n /\ (n = 0 => p = <<>>) /\ \A i \in 1..n : p[i] = Queries(rs[i])
  BY <1>1
<1>3. \A i \in 1..n : Queries(rs[i]) \in Seq(Nat \X Nat)
  BY <1>1, QueriesType
<1> HIDE DEF p
<1>4. FlattenSeq(p) \in Seq(Nat \X Nat)
  BY <1>1, <1>2, <1>3, FlattenType
<1> QED BY <1>2, <1>4, FlattenNone DEF p, QueriesOf

LEMMA AppendAfter ==
  ASSUME NEW S, NEW s \in Seq(S), NEW t \in Seq(S), NEW x \in S
  PROVE  s \o Append(t, x) = Append(s \o t, x)
  OBVIOUS

Counted(rs, m) == [rs EXCEPT ![m].count = @ + 1]

LEMMA CountRange ==
  ASSUME NEW r \in QueryRange, NEW q, q = [r EXCEPT !.count = @ + 1]
  PROVE  /\ q \in QueryRange /\ q.pool = r.pool /\ q.start_index = r.start_index
         /\ q.count = r.count + 1
<1>1. PICK a \in Nat, b \in Nat, c \in Nat, d \in Nat :
        r = [pool |-> a, command_buffer |-> b, start_index |-> c, count |-> d]
  BY DEF QueryRange
<1>2. q = [pool |-> a, command_buffer |-> b, start_index |-> c, count |-> d + 1]
  BY <1>1
<1>3. d + 1 \in Nat
  OBVIOUS
<1> QED BY <1>1, <1>2, <1>3 DEF QueryRange

LEMMA CountMore ==
  ASSUME NEW rs \in Seq(QueryRange), NEW m \in Nat \ {0}, Len(rs) = m
  PROVE  /\ Counted(rs, m) \in Seq(QueryRange) /\ Len(Counted(rs, m)) = m
         /\ \A i \in 1..m : i # m => Counted(rs, m)[i] = rs[i]
         /\ Counted(rs, m)[m] \in QueryRange /\ Counted(rs, m)[m].pool = rs[m].pool
         /\ Counted(rs, m)[m].start_index = rs[m].start_index
         /\ Counted(rs, m)[m].count = rs[m].count + 1
<1>1. m \in 1..m /\ DOMAIN rs = 1..m /\ rs[m] \in QueryRange
  OBVIOUS
<1> PICK q : q = [rs[m] EXCEPT !.count = @ + 1]
  OBVIOUS
<1>2. /\ q \in QueryRange /\ q.pool = rs[m].pool /\ q.start_index = rs[m].start_index
      /\ q.count = rs[m].count + 1
  BY <1>1, CountRange
<1>3. Counted(rs, m) = [rs EXCEPT ![m] = q]
  BY DEF Counted
<1> PICK t : t = Counted(rs, m)
  OBVIOUS
<1>4. t \in Seq(QueryRange) /\ Len(t) = m /\ t[m] = q /\ \A i \in 1..m : i # m => t[i] = rs[i]
  BY <1>1, <1>2, <1>3
<1> QED BY <1>2, <1>4

LEMMA NewRangeFetched ==
  ASSUME NEW rs \in Seq(QueryRange), NEW r \in QueryRange, r.count = 0,
         NEW s, s = Counted(Append(rs, r), Len(Append(rs, r)))
  PROVE  /\ s \in Seq(QueryRange) /\ s # <<>>
         /\ Last(s).pool = r.pool /\ Last(s).start_index = r.start_index /\ Last(s).count = 1
         /\ QueriesOf(s) = Append(QueriesOf(rs), <<r.pool, r.start_index>>)
<1> PICK n : n = Len(rs)
  OBVIOUS
<1> PICK t : t = Append(rs, r)
  OBVIOUS
<1>1. /\ n \in Nat /\ DOMAIN rs = 1..n /\ Len(t) = n + 1 /\ t \in Seq(QueryRange)
      /\ t[n + 1] = r /\ \A i \in 1..n : t[i] = rs[i]
  OBVIOUS
<1>2. /\ s \in Seq(QueryRange) /\ Len(s) = n + 1 /\ \A i \in 1..n : s[i] = rs[i]
      /\ s[n + 1] \in QueryRange /\ s[n + 1].pool = r.pool
      /\ s[n + 1].start_index = r.start_index /\ s[n + 1].count = 1
  <2>1. /\ n + 1 \in Nat \ {0} /\ r.count + 1 = 1 /\ s = Counted(t, n + 1)
        /\ \A i \in 1..n : i \in 1..(n + 1) /\ i # n + 1
    BY <1>1
  <2>2. /\ s \in Seq(QueryRange) /\ Len(s) = n + 1
        /\ \A i \in 1..(n + 1) : i # n + 1 => s[i] = t[i]
        /\ s[n + 1] \in QueryRange /\ s[n + 1].pool = t[n + 1].pool
        /\ s[n + 1].start_index = t[n + 1].start_index /\ s[n + 1].count = t[n + 1].count + 1
    <3>1. t \in Seq(QueryRange) /\ Len(t) = n + 1
      BY <1>1
    <3>2. /\ Counted(t, n + 1) \in Seq(QueryRange) /\ Len(Counted(t, n + 1)) = n + 1
          /\ \A i \in 1..(n + 1) : i # n + 1 => Counted(t, n + 1)[i] = t[i]
          /\ Counted(t, n + 1)[n + 1] \in QueryRange
          /\ Counted(t, n + 1)[n + 1].pool = t[n + 1].pool
          /\ Counted(t, n + 1)[n + 1].start_index = t[n + 1].start_index
          /\ Counted(t, n + 1)[n + 1].count = t[n + 1].count + 1
      <4> PICK m : m = n + 1
        OBVIOUS
      <4>1. m \in Nat \ {0} /\ t \in Seq(QueryRange) /\ Len(t) = m
        BY <2>1, <3>1
      <4>2. /\ Counted(t, m) \in Seq(QueryRange) /\ Len(Counted(t, m)) = m
            /\ \A i \in 1..m : i # m => Counted(t, m)[i] = t[i]
            /\ Counted(t, m)[m] \in QueryRange /\ Counted(t, m)[m].pool = t[m].pool
            /\ Counted(t, m)[m].start_index = t[m].start_index
            /\ Counted(t, m)[m].count = t[m].count + 1
        BY ONLY <4>1, CountMore
      <4> QED BY <4>2
    <3> QED BY <2>1, <3>2
  <2> QED BY <1>1, <2>1, <2>2
<1>3. Queries(s[n + 1]) = <<<<r.pool, r.start_index>>>>
  BY <1>2 DEF Queries, QueryRange
<1>4. QueriesOf(s) = IF n = 0 THEN Queries(s[1]) ELSE QueriesOf(rs) \o Queries(s[n + 1])
  <2>1. n \in Nat /\ Len(rs) = n
    BY <1>1
  <2>2. s \in Seq(QueryRange) /\ Len(s) = n + 1 /\ \A i \in 1..n : s[i] = rs[i]
    BY <1>2
  <2> QED BY <2>1, <2>2, FetchedMore
<1>5. QueriesOf(s) = Append(QueriesOf(rs), <<r.pool, r.start_index>>)
  <2>1. <<r.pool, r.start_index>> \in Nat \X Nat
    BY DEF QueryRange
  <2>2. n = 0 => n + 1 = 1
    OBVIOUS
  <2>3. QueriesOf(rs) \in Seq(Nat \X Nat) /\ (n = 0 => QueriesOf(rs) = <<>>)
    BY QueriesOfType
  <2> QED BY <1>3, <1>4, <2>1, <2>2, <2>3
<1>6. Last(s) = s[n + 1] /\ s # <<>>
  BY <1>1, <1>2 DEF Last
<1> QED BY <1>2, <1>5, <1>6

LEMMA ResultsType ==
  ASSUME NEW T, NEW n \in Nat, NEW f, f = [i \in 1..n |-> f[i]], \A i \in 1..n : f[i] \in T
  PROVE  f \in Seq(T) /\ Len(f) = n
  OBVIOUS

LEMMA FrontIs ==
  ASSUME NEW T, NEW rs \in Seq(T), NEW n \in Nat, Len(rs) = n + 1, NEW front,
         front = SubSeq(rs, 1, n)
  PROVE  /\ front \in Seq(T) /\ Len(front) = n /\ DOMAIN front = 1..n
         /\ \A i \in 1..n : front[i] = rs[i]
         /\ n = 0 => front = <<>>
<1>1. /\ \A i \in 1..n : rs[i] \in T
      /\ front = [i \in 1..n |-> rs[i]]
  OBVIOUS
<1>2. front \in Seq(T) /\ Len(front) = n
  BY <1>1, ResultsType
<1> QED BY <1>1, <1>2

LEMMA SameRangeFetched ==
  ASSUME NEW rs \in Seq(QueryRange), rs # <<>>,
         NEW s, s = Counted(rs, Len(rs))
  PROVE  /\ s \in Seq(QueryRange) /\ s # <<>>
         /\ Last(s).pool = Last(rs).pool /\ Last(s).start_index = Last(rs).start_index
         /\ Last(s).count = Last(rs).count + 1
         /\ QueriesOf(s) = Append(QueriesOf(rs),
                                  <<Last(rs).pool, Last(rs).start_index + Last(rs).count>>)
<1> PICK n : n = Len(rs) - 1
  OBVIOUS
<1> PICK r : r = rs[n + 1]
  OBVIOUS
<1> DEFINE x == <<r.pool, r.start_index + r.count>>
<1> PICK front : front = SubSeq(rs, 1, n)
  OBVIOUS
<1>1. /\ n \in Nat /\ Len(rs) = n + 1 /\ n + 1 \in 1..Len(rs) /\ DOMAIN rs = 1..(n + 1)
      /\ n + 1 \in Nat \ {0} /\ \A i \in 1..n : i \in 1..(n + 1) /\ i # n + 1
  OBVIOUS
<1>2. r \in QueryRange
  BY <1>1
<1>3. r.count \in Nat /\ r.pool \in Nat /\ r.start_index \in Nat
  BY <1>2 DEF QueryRange
<1>0. x \in Nat \X Nat
  <2>1. r.start_index + r.count \in Nat
    BY <1>3
  <2> QED BY <1>3, <2>1
<1>4. /\ s \in Seq(QueryRange) /\ Len(s) = n + 1 /\ \A i \in 1..n : s[i] = rs[i]
      /\ s[n + 1] \in QueryRange /\ s[n + 1].pool = r.pool
      /\ s[n + 1].start_index = r.start_index /\ s[n + 1].count = r.count + 1
  <2>1. /\ s \in Seq(QueryRange) /\ Len(s) = n + 1
        /\ \A i \in 1..(n + 1) : i # n + 1 => s[i] = rs[i]
        /\ s[n + 1] \in QueryRange /\ s[n + 1].pool = rs[n + 1].pool
        /\ s[n + 1].start_index = rs[n + 1].start_index /\ s[n + 1].count = rs[n + 1].count + 1
    BY <1>1, CountMore
  <2> QED BY <1>1, <2>1
<1>5. /\ front \in Seq(QueryRange) /\ Len(front) = n /\ DOMAIN front = 1..n
      /\ \A i \in 1..n : front[i] = rs[i]
      /\ n = 0 => front = <<>>
  BY <1>1, FrontIs
<1> HIDE DEF x
<1>6. Queries(s[n + 1]) = Append(Queries(r), x)
  <2>1. \A i \in 1 .. r.count + 1 : i \in 1 .. r.count \/ i = r.count + 1
    BY <1>3
  <2>2. r.start_index + (r.count + 1) - 1 = r.start_index + r.count
    BY <1>3
  <2> QED BY <1>3, <1>4, <2>1, <2>2 DEF Queries, x
<1>7. QueriesOf(front) \in Seq(Nat \X Nat)
  BY <1>5, QueriesOfType
<1>8. QueriesOf(rs) = IF n = 0 THEN Queries(rs[1]) ELSE QueriesOf(front) \o Queries(rs[n + 1])
  <2>1. front \in Seq(QueryRange) /\ Len(front) = n /\ \A i \in 1..n : rs[i] = front[i]
    BY <1>5
  <2>2. n \in Nat /\ Len(rs) = n + 1
    BY <1>1
  <2> QED BY <2>1, <2>2, FetchedMore
<1>9. QueriesOf(s) = IF n = 0 THEN Queries(s[1]) ELSE QueriesOf(front) \o Queries(s[n + 1])
  <2>1. front \in Seq(QueryRange) /\ Len(front) = n /\ \A i \in 1..n : s[i] = front[i]
    BY <1>4, <1>5
  <2>2. n \in Nat /\ s \in Seq(QueryRange) /\ Len(s) = n + 1
    BY <1>1, <1>4
  <2> QED BY <2>1, <2>2, FetchedMore
<1>10. QueriesOf(s) = Append(QueriesOf(rs), x)
  <2>1. Queries(r) \in Seq(Nat \X Nat)
    BY <1>2, QueriesType
  <2>2. CASE n = 0
    <3>1. QueriesOf(s) = Queries(s[n + 1]) /\ QueriesOf(rs) = Queries(r)
      BY <1>8, <1>9, <2>2
    <3> QED BY <1>6, <3>1
  <2>3. CASE n # 0
    <3>1. QueriesOf(front) \o Append(Queries(r), x) = Append(QueriesOf(front) \o Queries(r), x)
      <4> PICK S : S = Nat \X Nat
        OBVIOUS
      <4>1. QueriesOf(front) \in Seq(S) /\ Queries(r) \in Seq(S) /\ x \in S
        BY <1>0, <1>7, <2>1
      <4> QED BY ONLY <4>1, AppendAfter
    <3> QED BY <1>6, <1>8, <1>9, <2>3, <3>1
  <2> QED BY <2>2, <2>3
<1>11. Last(s) = s[n + 1] /\ Last(rs) = r /\ s # <<>>
  BY <1>1, <1>4 DEF Last
<1> QED BY <1>4, <1>10, <1>11 DEF x

NextQuery(q) ==
  /\ IsQuery(q) /\ Rank(q) = query_count /\ q[1] = pool_count'
  /\ commands' = Append(commands, q) /\ Fetched' = Append(Fetched, q)
  /\ ranges' \in Seq(QueryRange) /\ ranges' # <<>>
  /\ pool_count' \in Nat /\ pool_count <= pool_count' /\ current_pool_index' \in Nat
  /\ RangesEnd'

LEMMA ProductOfNext ==
  ASSUME NEW n \in Nat
  PROVE  /\ n * kPoolSize \in Int /\ (n - 1) * kPoolSize \in Int
         /\ (n - 1) * kPoolSize + kPoolSize = n * kPoolSize
         /\ n = 0 => n * kPoolSize = 0
  BY ProfilerAssumption

LEMMA AddTimestampQuery ==
  ASSUME ProfilerTypes, FetchedInv, RangesEnd, AddTimestamp
  PROVE  \E q : NextQuery(q)
<1> PICK obtained : obtained = ObtainRange
  OBVIOUS
<1> PICK index : index = IF NeedsPool THEN 0 ELSE current_pool_index
  OBVIOUS
<1> PICK n : n = pool_count
  OBVIOUS
<1> PICK k : k = current_pool_index
  OBVIOUS
<1> PICK s : s = ranges'
  OBVIOUS
<1>1. /\ s = Counted(obtained, Len(obtained))
      /\ pool_count' = IF NeedsPool THEN n + 1 ELSE n
      /\ current_pool_index' = index + 1
      /\ commands' = Append(commands, <<Last(obtained).pool, index>>)
      /\ query_count' = query_count + 1
  BY DEF AddTimestamp, Counted
<1>2. /\ n \in Nat /\ k \in Nat /\ query_count \in Nat /\ current_frame \in Nat
      /\ ranges \in Seq(QueryRange) /\ kPoolSize \in Nat \ {0}
  BY ProfilerAssumption DEF ProfilerTypes
<1>3. Fetched = QueriesOf(ranges) /\ Fetched' = QueriesOf(s)
  BY DEF Fetched, QueriesOf
<1>4. CASE NeedsPool
  <2> PICK r : r = NewRange(n + 1, 0)
    OBVIOUS
  <2>1. r \in QueryRange /\ r.count = 0 /\ r.pool = n + 1 /\ r.start_index = 0
    BY <1>2 DEF NewRange, QueryRange
  <2>2. obtained = Append(ranges, r)
    BY <1>4 DEF ObtainRange
  <2>3. Last(obtained) = r
    BY <1>2, <2>1, <2>2 DEF Last
  <2>4. /\ s \in Seq(QueryRange) /\ s # <<>>
        /\ Last(s).pool = r.pool /\ Last(s).start_index = r.start_index /\ Last(s).count = 1
        /\ QueriesOf(s) = Append(QueriesOf(ranges), <<r.pool, r.start_index>>)
    <3>1. /\ ranges \in Seq(QueryRange) /\ r \in QueryRange /\ r.count = 0
          /\ s = Counted(Append(ranges, r), Len(Append(ranges, r)))
      BY <1>1, <1>2, <2>1, <2>2
    <3> QED BY ONLY <3>1, NewRangeFetched
  <2> PICK q : q = <<n + 1, 0>>
    OBVIOUS
  <2>5. /\ commands' = Append(commands, q) /\ Fetched' = Append(Fetched, q)
        /\ pool_count' = n + 1 /\ current_pool_index' = 1
    <3>1. index = 0 /\ 0 + 1 = 1
      BY <1>4
    <3> QED BY <1>1, <1>3, <1>4, <2>1, <2>3, <2>4, <3>1
  <2>6. n * kPoolSize = query_count
    BY <1>2, <1>4, ProductOfNext DEF RangesEnd, NeedsPool
  <2>7. q[1] = n + 1 /\ q[2] = 0 /\ q \in Nat \X Nat
    BY <1>2
  <2>8. IsQuery(q)
    BY <1>2, <2>7 DEF IsQuery
  <2>9. Rank(q) = query_count
    <3>1. (n + 1) - 1 = n
      BY <1>2
    <3> QED BY <1>2, <2>6, <2>7, <3>1 DEF Rank
  <2>10. RangesEnd'
    <3>1. (n + 1) - 1 = n /\ n + 1 # 0 /\ 1 \in 1..kPoolSize /\ 0 + 1 = 1
      BY <1>2
    <3>2. (((n + 1) - 1) * kPoolSize) + 1 = query_count + 1
      BY <2>6, <3>1
    <3> QED BY <1>1, <2>1, <2>4, <2>5, <3>1, <3>2 DEF RangesEnd
  <2>11. /\ q[1] = pool_count' /\ pool_count' \in Nat /\ current_pool_index' \in Nat
         /\ pool_count <= pool_count'
    BY <1>2, <2>5, <2>7
  <2>12. ranges' \in Seq(QueryRange) /\ ranges' # <<>>
    BY <2>4
  <2> QED BY ONLY <2>5, <2>8, <2>9, <2>10, <2>11, <2>12 DEF NextQuery
<1>5. CASE ~NeedsPool
  <2> PICK q : q = <<n, k>>
    OBVIOUS
  <2>1. /\ ranges # <<>> /\ n # 0 /\ k \in 1..kPoolSize /\ k # kPoolSize
        /\ Last(ranges).pool = n /\ Last(ranges).start_index + Last(ranges).count = k
        /\ (n - 1) * kPoolSize + k = query_count
    BY <1>5 DEF RangesEnd, NeedsPool
  <2>2. Last(ranges) \in QueryRange
    BY <1>2, <2>1 DEF Last
  <2>3. /\ s \in Seq(QueryRange) /\ s # <<>> /\ Last(s).pool = n
        /\ Last(s).start_index + Last(s).count = k + 1
        /\ QueriesOf(s) = Append(QueriesOf(ranges), q)
        /\ Last(obtained).pool = n
    <3>1. CASE Last(ranges).command_buffer # current_frame
      <4> PICK r : r = NewRange(n, k)
        OBVIOUS
      <4>1. r \in QueryRange /\ r.count = 0 /\ r.pool = n /\ r.start_index = k
        BY <1>2 DEF NewRange, QueryRange
      <4>2. obtained = Append(ranges, r)
        BY <1>5, <2>1, <3>1 DEF ObtainRange
      <4>3. Last(obtained) = r
        BY <1>2, <4>1, <4>2 DEF Last
      <4>4. /\ s \in Seq(QueryRange) /\ s # <<>>
            /\ Last(s).pool = r.pool /\ Last(s).start_index = r.start_index
            /\ Last(s).count = 1
            /\ QueriesOf(s) = Append(QueriesOf(ranges), <<r.pool, r.start_index>>)
        <5>1. /\ ranges \in Seq(QueryRange) /\ r \in QueryRange /\ r.count = 0
              /\ s = Counted(Append(ranges, r), Len(Append(ranges, r)))
          BY <1>1, <1>2, <4>1, <4>2
        <5> QED BY ONLY <5>1, NewRangeFetched
      <4> QED BY <4>1, <4>3, <4>4
    <3>2. CASE Last(ranges).command_buffer = current_frame
      <4>1. obtained = ranges
        BY <1>5, <3>2 DEF ObtainRange
      <4>2. /\ s \in Seq(QueryRange) /\ s # <<>> /\ Last(s).pool = Last(ranges).pool
            /\ Last(s).start_index = Last(ranges).start_index
            /\ Last(s).count = Last(ranges).count + 1
            /\ QueriesOf(s) = Append(QueriesOf(ranges), <<Last(ranges).pool,
                                 Last(ranges).start_index + Last(ranges).count>>)
        BY <1>1, <1>2, <2>1, <4>1, SameRangeFetched
      <4>3. Last(ranges).start_index \in Nat /\ Last(ranges).count \in Nat
        BY <2>2 DEF QueryRange
      <4>4. Last(ranges).start_index + (Last(ranges).count + 1) = k + 1
        BY <2>1, <4>3
      <4> QED BY <2>1, <4>1, <4>2, <4>4
    <3> QED BY <3>1, <3>2
  <2>4. index = k /\ pool_count' = n /\ current_pool_index' = k + 1
    BY <1>1, <1>5
  <2>5. commands' = Append(commands, q) /\ Fetched' = Append(Fetched, q)
    BY <1>1, <1>3, <2>3, <2>4
  <2>6. q[1] = n /\ q[2] = k /\ q \in Nat \X Nat
    BY <1>2
  <2>7. IsQuery(q) /\ Rank(q) = query_count
    BY <1>2, <2>1, <2>6 DEF IsQuery, Rank
  <2>8. k + 1 \in 1..kPoolSize /\ k + 1 \in Nat
    BY <1>2, <2>1
  <2>9. RangesEnd'
    <3>1. (n - 1) * kPoolSize \in Int
      BY <1>2, ProductOfNext
    <3>2. (n - 1) * kPoolSize + (k + 1) = query_count + 1
      BY <1>2, <2>1, <3>1
    <3> QED BY <1>1, <2>1, <2>3, <2>4, <2>8, <3>2 DEF RangesEnd
  <2>10. /\ q[1] = pool_count' /\ pool_count' \in Nat /\ current_pool_index' \in Nat
         /\ pool_count <= pool_count'
    BY <1>2, <2>4, <2>6, <2>8
  <2>11. ranges' \in Seq(QueryRange) /\ ranges' # <<>>
    BY <2>3
  <2> QED BY ONLY <2>5, <2>7, <2>9, <2>10, <2>11 DEF NextQuery
<1> QED BY <1>4, <1>5

LEMMA NumberedMore ==
  ASSUME NEW s \in Seq(Nat \X Nat), NEW from \in Nat, Numbered(s, from),
         NEW q, IsQuery(q), Rank(q) = from + Len(s)
  PROVE  /\ Append(s, q) \in Seq(Nat \X Nat) /\ Len(Append(s, q)) = Len(s) + 1
         /\ Numbered(Append(s, q), from)
         /\ \A i \in 1..(Len(s) + 1) : Append(s, q)[i] = q \/ (i \in 1..Len(s) /\ Append(s, q)[i] = s[i])
<1> PICK n : n = Len(s)
  OBVIOUS
<1>1. n \in Nat /\ q \in Nat \X Nat
  BY DEF IsQuery
<1> PICK t : t = Append(s, q)
  OBVIOUS
<1>2. /\ t \in Seq(Nat \X Nat) /\ Len(t) = n + 1 /\ t[n + 1] = q /\ \A i \in 1..n : t[i] = s[i]
  BY <1>1
<1>3. \A i \in 1..(n + 1) : i \in 1..n \/ i = n + 1
  BY <1>1
<1>4. Numbered(t, from)
  <2> SUFFICES ASSUME NEW i \in 1..(n + 1) PROVE IsQuery(t[i]) /\ Rank(t[i]) = from + i - 1
    BY <1>2 DEF Numbered
  <2>1. CASE i \in 1..n
    BY <1>2, <2>1 DEF Numbered
  <2>2. CASE i = n + 1
    <3>1. from + (n + 1) - 1 = from + n
      BY <1>1
    <3> QED BY <1>2, <2>2, <3>1
  <2> QED BY <1>3, <2>1, <2>2
<1> QED BY <1>2, <1>3, <1>4

LEMMA AddTimestampInv ==
  ASSUME ProfilerInv, AddTimestamp
  PROVE  ProfilerInv'
<1>1. PICK q : NextQuery(q)
  BY AddTimestampQuery DEF ProfilerInv
<1> PICK n : n = query_count
  OBVIOUS
<1>2. /\ n \in Nat /\ n + 1 \in Nat /\ query_count' = n + 1 /\ current_frame # 0 /\ ~ended
      /\ results' = Append(results, [name |-> n, time |-> 0])
      /\ UNCHANGED <<current_frame, in_flight, gpu_clock, written, ended>>
  BY DEF AddTimestamp, ProfilerInv, PhaseInv, ProfilerTypes
<1>3. IsQuery(q) /\ Rank(q) = n /\ q \in Nat \X Nat
  BY <1>1 DEF NextQuery, IsQuery
<1>4. ProfilerTypes'
  <2>1. results' \in Seq([name : Int, time : Int])
    <3>1. [name |-> n, time |-> 0] \in [name : Int, time : Int]
      BY <1>2
    <3> QED BY <1>2, <3>1 DEF ProfilerInv, ProfilerTypes
  <2>2. commands' \in Seq(Nat \X Nat)
    BY <1>1, <1>3 DEF NextQuery, ProfilerInv, ProfilerTypes
  <2> QED BY <1>1, <1>2, <2>1, <2>2 DEF NextQuery, ProfilerInv, ProfilerTypes
<1>5. FetchedInv'
  <2> PICK s : s = Fetched
    OBVIOUS
  <2>1. /\ s \in Seq(Nat \X Nat) /\ Len(s) = n /\ Numbered(s, 0)
        /\ \A k \in 1..n : s[k][1] <= pool_count
    BY DEF ProfilerInv, FetchedInv
  <2>2. 0 \in Nat /\ Rank(q) = 0 + Len(s) /\ IsQuery(q)
    BY <1>2, <1>3, <2>1
  <2>3. /\ Append(s, q) \in Seq(Nat \X Nat) /\ Len(Append(s, q)) = n + 1
        /\ Numbered(Append(s, q), 0)
        /\ \A i \in 1..(n + 1) : Append(s, q)[i] = q \/ (i \in 1..n /\ Append(s, q)[i] = s[i])
    BY ONLY <2>1, <2>2, NumberedMore
  <2>4. Fetched' = Append(s, q) /\ q[1] = pool_count' /\ pool_count <= pool_count'
        /\ pool_count \in Nat /\ pool_count' \in Nat
    BY <1>1 DEF NextQuery, ProfilerInv, ProfilerTypes
  <2>5. \A i \in 1..n : s[i] \in Nat \X Nat /\ s[i][1] \in Nat
    BY <2>1
  <2>6. \A i \in 1..(n + 1) : Append(s, q)[i][1] <= pool_count'
    BY <2>1, <2>3, <2>4, <2>5
  <2>7. Numbered(Fetched, 0)'
    BY <2>3, <2>4 DEF Numbered, IsQuery, Rank
  <2> QED BY <1>2, <2>3, <2>4, <2>6, <2>7 DEF FetchedInv
<1>6. \E reached : Follow(reached)'
  <2>1. PICK reached : Follow(reached)
    BY <1>2 DEF ProfilerInv, Collected
  <2> PICK l : l = Len(in_flight) + 1
    OBVIOUS
  <2>2. /\ l \in Nat /\ l \in 1..l /\ commands \in Seq(Nat \X Nat) /\ reached[l] \in Nat
        /\ Numbered(commands, reached[l]) /\ reached[l] + Len(commands) = n
    <3>1. Len(in_flight) \in Nat /\ commands \in Seq(Nat \X Nat)
      BY DEF ProfilerInv, ProfilerTypes
    <3> QED BY <2>1, <3>1 DEF Follow
  <2>3. /\ Len(Append(commands, q)) = Len(commands) + 1
        /\ Numbered(Append(commands, q), reached[l])
    <3>1. Rank(q) = reached[l] + Len(commands) /\ IsQuery(q)
      BY <1>3, <2>2
    <3> QED BY ONLY <2>2, <3>1, NumberedMore
  <2>4. commands' = Append(commands, q) /\ in_flight' = in_flight /\ gpu_clock' = gpu_clock
    BY <1>1, <1>2 DEF NextQuery
  <2>5. reached[l] + Len(commands') = n + 1
    <3> PICK c : c = Len(commands)
      OBVIOUS
    <3>1. c \in Nat /\ Len(commands') = c + 1 /\ reached[l] + c = n /\ reached[l] \in Nat
      BY <2>2, <2>3, <2>4
    <3> QED BY ONLY <3>1
  <2>6. Follow(reached)'
    BY <1>2, <2>1, <2>3, <2>4, <2>5 DEF Follow, Numbered, IsQuery, Rank
  <2> QED BY <2>6
<1>7. ResultsInv'
  <2>1. results \in Seq([name : Int, time : Int]) /\ Len(results) = n
    BY <1>2 DEF ProfilerInv, ProfilerTypes, ResultsInv, Collected
  <2> PICK r : r = [name |-> n, time |-> 0]
    OBVIOUS
  <2>2. Len(results') = n + 1 /\ results'[n + 1] = r /\ \A i \in 1..n : results'[i] = results[i]
    BY <1>2, <2>1
  <2>3. \A i \in 1..(n + 1) : i \in 1..n \/ i = n + 1
    BY <1>2
  <2>4. r.name = (n + 1) - 1
    BY <1>2
  <2>5. ~Collected'
    BY <1>2 DEF Collected
  <2> QED BY <1>2, <2>1, <2>2, <2>3, <2>4, <2>5 DEF ProfilerInv, ResultsInv
<1>8. WrittenInv'
  BY <1>2 DEF ProfilerInv, WrittenInv, IsQuery, Rank
<1>9. PhaseInv'
  BY <1>2 DEF PhaseInv, Collected
<1>10. RangesEnd'
  BY <1>1 DEF NextQuery
<1> QED BY <1>4, <1>5, <1>6, <1>7, <1>8, <1>9, <1>10 DEF ProfilerInv

LEMMA SubmitQueriesInv ==
  ASSUME ProfilerInv, SubmitQueries, ended' \in BOOLEAN, ended' => ended \/ query_count > 0
  PROVE  ProfilerInv'
<1> PICK item : item = [buffer |-> current_frame, queries |-> commands]
  OBVIOUS
<1>1. /\ current_frame # 0 /\ in_flight' = Append(in_flight, item)
      /\ current_frame' = 0 /\ commands' = <<>> /\ ~ended
      /\ UNCHANGED <<ranges, pool_count, current_pool_index, query_count, results,
                     gpu_clock, written>>
  BY DEF SubmitQueries, ProfilerInv, PhaseInv
<1>2. ~Collected /\ ~Collected'
  BY <1>1 DEF ProfilerInv, Collected, RangesEnd
<1>3. item \in [buffer : Nat, queries : Seq(Nat \X Nat)] /\ item.queries = commands
  BY DEF ProfilerInv, ProfilerTypes
<1>4. ProfilerTypes'
  BY <1>1, <1>3 DEF ProfilerInv, ProfilerTypes
<1>5. FetchedInv' /\ WrittenInv' /\ RangesEnd'
  BY <1>1 DEF ProfilerInv, FetchedInv, WrittenInv, RangesEnd, Fetched, Queries, Numbered,
              IsQuery, Rank
<1>6. ResultsInv' /\ PhaseInv'
  BY <1>1, <1>2 DEF ProfilerInv, ResultsInv, PhaseInv
<1>7. \E reached : Follow(reached)'
  <2>1. PICK reached : Follow(reached)
    BY <1>2 DEF ProfilerInv
  <2> PICK l : l = Len(in_flight)
    OBVIOUS
  <2> PICK c : c = Len(commands)
    OBVIOUS
  <2>2. /\ l \in Nat /\ c \in Nat /\ l + 1 \in 1..(l + 1) /\ reached \in [1..(l + 1) -> Nat]
        /\ Len(in_flight') = l + 1 /\ in_flight'[l + 1] = item
        /\ \A j \in 1..l : in_flight'[j] = in_flight[j]
        /\ Len(commands') = 0
    BY <1>1, <1>3, <2>1 DEF Follow, ProfilerInv, ProfilerTypes
  <2>3. reached[l + 1] + c = query_count /\ reached[l + 1] \in Nat /\ Numbered(commands, reached[l + 1])
    BY <2>1, <2>2 DEF Follow
  <2> DEFINE new == [i \in 1..((l + 1) + 1) |-> IF i = (l + 1) + 1 THEN reached[l + 1] + c ELSE reached[i]]
  <2>4. /\ new \in [1..((l + 1) + 1) -> Nat] /\ new[(l + 1) + 1] = reached[l + 1] + c
        /\ \A i \in 1..(l + 1) : new[i] = reached[i]
    BY <2>2, <2>3
  <2> HIDE DEF new
  <2>5. \A j \in 1..(l + 1) : /\ new[j + 1] = new[j] + Len(in_flight'[j].queries)
                             /\ Numbered(in_flight'[j].queries, new[j])
    <3> SUFFICES ASSUME NEW j \in 1..(l + 1)
                 PROVE  /\ new[j + 1] = new[j] + Len(in_flight'[j].queries)
                        /\ Numbered(in_flight'[j].queries, new[j])
      OBVIOUS
    <3>1. CASE j = l + 1
      BY <1>3, <2>2, <2>3, <2>4, <3>1
    <3>2. CASE j \in 1..l
      <4>1. /\ reached[j + 1] = reached[j] + Len(in_flight[j].queries)
            /\ Numbered(in_flight[j].queries, reached[j])
        BY <2>1, <3>2 DEF Follow
      <4>2. j \in 1..(l + 1) /\ j + 1 \in 1..(l + 1)
        BY <2>2, <3>2
      <4> QED BY <2>2, <2>4, <3>2, <4>1, <4>2
    <3>3. j \in 1..l \/ j = l + 1
      BY <2>2
    <3> QED BY <3>1, <3>2, <3>3
  <2>6. new[1] = gpu_clock /\ new[(l + 1) + 1] + 0 = query_count
    BY <2>1, <2>2, <2>3, <2>4 DEF Follow
  <2>7. \A x : Numbered(commands', x)
    <3>1. 1..0 = {}
      OBVIOUS
    <3> QED BY <2>2, <3>1 DEF Numbered
  <2>8. Follow(new)'
    BY <1>1, <2>2, <2>4, <2>5, <2>6, <2>7 DEF Follow, Numbered, IsQuery, Rank
  <2> QED BY <2>8
<1> QED BY <1>4, <1>5, <1>6, <1>7 DEF ProfilerInv

(* The queries of a command buffer are those whose turn it is.             *)
LEMMA QueriesWritten ==
  ASSUME NEW s \in Seq(Nat \X Nat), NEW from \in Nat, Numbered(s, from), NEW q, IsQuery(q)
  PROVE  /\ q \in ToSet(s) <=> Rank(q) >= from /\ Rank(q) < from + Len(s)
         /\ q \in ToSet(s) => from + SelectInSeq(s, LAMBDA c : c = q) - 1 = Rank(q)
<1> PICK n : n = Len(s)
  OBVIOUS
<1> PICK r : r = Rank(q)
  OBVIOUS
<1>1. n \in Nat /\ r \in Nat /\ DOMAIN s = 1..n
  BY RankIsNatural
<1>2. \A i \in 1..n : IsQuery(s[i]) /\ Rank(s[i]) = from + i - 1
  BY DEF Numbered
<1>3. \A i \in 1..n : s[i] = q <=> i = r - from + 1
  <2> SUFFICES ASSUME NEW i \in 1..n PROVE s[i] = q <=> i = r - from + 1
    OBVIOUS
  <2>1. s[i] = q => r = from + i - 1
    BY <1>2
  <2>2. r = from + i - 1 => s[i] = q
    <3> SUFFICES ASSUME r = from + i - 1 PROVE s[i] = q
      OBVIOUS
    <3>1. IsQuery(s[i]) /\ Rank(s[i]) = Rank(q)
      BY <1>2
    <3> QED BY <3>1, RanksDiffer
  <2>3. r = from + i - 1 <=> i = r - from + 1
    <3>1. r \in Int /\ from \in Int /\ i \in Int
      BY <1>1
    <3> QED BY ONLY <3>1
  <2> QED BY <2>1, <2>2, <2>3
<1>4. q \in ToSet(s) <=> \E i \in 1..n : s[i] = q
  BY <1>1 DEF ToSet
<1>5. (\E i \in 1..n : s[i] = q) <=> r - from + 1 \in 1..n
  BY <1>1, <1>3
<1>6. r - from + 1 \in 1..n <=> r >= from /\ r < from + n
  BY <1>1
<1>7. ASSUME r - from + 1 \in 1..n
      PROVE  SelectInSeq(s, LAMBDA c : c = q) = r - from + 1
  <2> DEFINE I == {i \in 1..Len(s) : s[i] = q}
  <2>1. I = {r - from + 1}
    BY <1>3, <1>7
  <2>2. Min(I) = r - from + 1
    <3>1. I \in SUBSET Nat /\ I # {}
      BY <2>1, <1>7
    <3> HIDE DEF I
    <3>2. Min(I) \in I
      BY <3>1, MinProperties
    <3> QED BY <2>1, <3>2
  <2>3. SelectInSeq(s, LAMBDA c : c = q) = IF I # {} THEN Min(I) ELSE 0
    BY DEF SelectInSeq
  <2> QED BY <2>1, <2>2, <2>3
<1>8. from + (r - from + 1) - 1 = r
  BY <1>1
<1> QED BY <1>4, <1>5, <1>6, <1>7, <1>8

LEMMA ElementType ==
  ASSUME NEW T, NEW f \in Seq(T), NEW i \in 1..Len(f)
  PROVE  f[i] \in T
  OBVIOUS

LEMMA HeadQueriesType ==
  ASSUME NEW S, NEW f \in Seq([buffer : Nat, queries : S]), Len(f) \in Nat, 1 \in 1..Len(f)
  PROVE  f[1].queries \in S
<1>1. f[1] \in [buffer : Nat, queries : S]
  BY ElementType
<1> QED BY <1>1

LEMMA GpuExecutesInv ==
  ASSUME ProfilerInv, GpuExecutes
  PROVE  ProfilerInv'
<1> PICK s : s = Head(in_flight).queries
  OBVIOUS
<1> PICK before : before = gpu_clock
  OBVIOUS
<1> PICK l : l = Len(in_flight) - 1
  OBVIOUS
<1>1. /\ in_flight # <<>> /\ in_flight' = Tail(in_flight) /\ gpu_clock' = before + Len(s)
      /\ written' = [q \in DOMAIN written \cup ToSet(s) |->
                       IF q \in ToSet(s) THEN before + SelectInSeq(s, LAMBDA c : c = q) - 1
                       ELSE written[q]]
      /\ UNCHANGED <<ranges, pool_count, current_pool_index, query_count, results, commands,
                     current_frame, ended>>
  BY DEF GpuExecutes
<1>2. /\ in_flight \in Seq([buffer : Nat, queries : Seq(Nat \X Nat)]) /\ before \in Nat
      /\ l \in Nat /\ Len(in_flight) = l + 1 /\ Len(in_flight') = l
      /\ in_flight' \in Seq([buffer : Nat, queries : Seq(Nat \X Nat)])
      /\ \A j \in 1..l : in_flight'[j] = in_flight[j + 1]
      /\ s = in_flight[1].queries /\ 1 \in 1..(l + 1)
  BY <1>1 DEF ProfilerInv, ProfilerTypes
<1>3. s \in Seq(Nat \X Nat) /\ Len(s) \in Nat
  <2>1. s \in Seq(Nat \X Nat)
    <3>1. 1 \in 1..Len(in_flight) /\ Len(in_flight) \in Nat
      BY <1>2
    <3>2. in_flight[1].queries \in Seq(Nat \X Nat)
      BY ONLY <1>2, <3>1, HeadQueriesType
    <3> QED BY <1>2, <3>2
  <2> QED BY <2>1
<1>4. ~Collected /\ ~Collected'
  BY <1>1 DEF ProfilerInv, PhaseInv, Collected
<1>5. PICK reached : Follow(reached)
  BY <1>4 DEF ProfilerInv
<1>6. Numbered(s, before) /\ reached[2] = before + Len(s) /\ reached \in [1..(l + 2) -> Nat]
  <2>1. l + 1 + 1 = l + 2 /\ 1 + 1 = 2
    BY <1>2
  <2> QED BY <1>2, <1>5, <2>1 DEF Follow
<1>7. ProfilerTypes'
  BY <1>1, <1>2, <1>3 DEF ProfilerInv, ProfilerTypes
<1>8. FetchedInv' /\ RangesEnd' /\ ResultsInv' /\ PhaseInv'
  <2>1. FetchedInv'
    BY <1>1 DEF ProfilerInv, FetchedInv, Fetched, Queries, Numbered, IsQuery, Rank
  <2>2. RangesEnd'
    BY <1>1 DEF ProfilerInv, RangesEnd
  <2>3. ResultsInv' /\ PhaseInv'
    BY <1>1, <1>4 DEF ProfilerInv, ResultsInv, PhaseInv
  <2> QED BY <2>1, <2>2, <2>3
<1>9. WrittenInv'
  <2> DEFINE end == before + Len(s)
  <2>1. \A q \in DOMAIN written : IsQuery(q) /\ Rank(q) < before /\ written[q] = Rank(q)
    BY DEF ProfilerInv, WrittenInv
  <2>2. \A q \in Nat \X Nat : IsQuery(q) /\ Rank(q) < before => q \in DOMAIN written
    BY DEF ProfilerInv, WrittenInv
  <2>3. \A q \in ToSet(s) : IsQuery(q)
    <3>1. DOMAIN s = 1..Len(s)
      BY <1>3
    <3> QED BY <1>6, <3>1 DEF ToSet, Numbered
  <2>4. ASSUME NEW q, IsQuery(q)
        PROVE  /\ q \in ToSet(s) <=> Rank(q) >= before /\ Rank(q) < end
               /\ q \in ToSet(s) => before + SelectInSeq(s, LAMBDA c : c = q) - 1 = Rank(q)
    BY <1>2, <1>3, <1>6, <2>4, QueriesWritten
  <2>5. DOMAIN written' = DOMAIN written \cup ToSet(s)
    BY <1>1
  <2>6. ASSUME NEW q \in DOMAIN written'
        PROVE  IsQuery(q) /\ Rank(q) < end /\ written'[q] = Rank(q)
    <3>1. CASE q \in ToSet(s)
      <4>1. written'[q] = before + SelectInSeq(s, LAMBDA c : c = q) - 1
        BY <1>1, <3>1
      <4> QED BY <2>3, <2>4, <3>1, <4>1
    <3>2. CASE q \notin ToSet(s)
      <4>1. written'[q] = written[q] /\ q \in DOMAIN written
        BY <1>1, <2>5, <3>2
      <4>2. IsQuery(q) /\ Rank(q) \in Nat /\ Rank(q) < before
        BY <2>1, <4>1, RankIsNatural
      <4> QED BY <1>2, <1>3, <2>1, <4>1, <4>2
    <3> QED BY <3>1, <3>2
  <2>7. ASSUME NEW q \in Nat \X Nat, IsQuery(q), Rank(q) < end
        PROVE  q \in DOMAIN written'
    <3>1. Rank(q) \in Nat
      BY <2>7, RankIsNatural
    <3>2. Rank(q) < before \/ Rank(q) >= before
      BY <1>2, <3>1
    <3> QED BY <2>2, <2>4, <2>5, <2>7, <3>2
  <2> HIDE DEF end
  <2>8. gpu_clock' = end
    BY <1>1 DEF end
  <2> QED BY <2>6, <2>7, <2>8 DEF WrittenInv, IsQuery, Rank
<1>10. \E new : Follow(new)'
  <2> DEFINE new == [i \in 1..(l + 1) |-> reached[i + 1]]
  <2>1. \A i \in 1..(l + 1) : i + 1 \in 1..(l + 2) /\ new[i] = reached[i + 1]
    BY <1>2
  <2>2. new \in [1..(l + 1) -> Nat]
    BY <1>6, <2>1
  <2> HIDE DEF new
  <2>3. \A j \in 1..l : /\ new[j + 1] = new[j] + Len(in_flight'[j].queries)
                       /\ Numbered(in_flight'[j].queries, new[j])
    <3> SUFFICES ASSUME NEW j \in 1..l
                 PROVE  /\ new[j + 1] = new[j] + Len(in_flight'[j].queries)
                        /\ Numbered(in_flight'[j].queries, new[j])
      OBVIOUS
    <3>1. j \in 1..(l + 1) /\ j + 1 \in 1..(l + 1)
      BY <1>2
    <3>2. /\ reached[(j + 1) + 1] = reached[j + 1] + Len(in_flight[j + 1].queries)
          /\ Numbered(in_flight[j + 1].queries, reached[j + 1])
      BY <1>2, <1>5, <3>1 DEF Follow
    <3> QED BY <1>2, <2>1, <3>1, <3>2
  <2>4. new[1] = gpu_clock' /\ new[l + 1] = reached[(l + 1) + 1]
    <3>1. 1 \in 1..(l + 1) /\ l + 1 \in 1..(l + 1) /\ 1 + 1 = 2
      BY <1>2
    <3> QED BY <1>1, <1>6, <2>1, <3>1
  <2>5. Numbered(commands, new[l + 1]) /\ new[l + 1] + Len(commands) = query_count
    BY <1>2, <1>5, <2>4 DEF Follow
  <2>6. Follow(new)'
    BY <1>1, <1>2, <2>2, <2>3, <2>4, <2>5 DEF Follow, Numbered, IsQuery, Rank
  <2> QED BY <2>6
<1> QED BY <1>7, <1>8, <1>9, <1>10 DEF ProfilerInv

LEMMA InitProfiler == ProfilerInit => ProfilerInv
<1> SUFFICES ASSUME ProfilerInit PROVE ProfilerInv
  OBVIOUS
<1>1. /\ ranges = <<>> /\ pool_count = 0 /\ current_pool_index = 0 /\ query_count = 0
      /\ results = <<>> /\ commands = <<>> /\ in_flight = <<>> /\ current_frame = 1
      /\ DOMAIN written = {} /\ gpu_clock = 0 /\ ended = FALSE
  BY DEF ProfilerInit
<1>2. ProfilerTypes
  <2>1. ranges \in Seq(QueryRange) /\ commands \in Seq(Nat \X Nat)
    BY <1>1
  <2>2. results \in Seq([name : Int, time : Int])
    BY <1>1
  <2>3. in_flight \in Seq([buffer : Nat, queries : Seq(Nat \X Nat)])
    BY <1>1
  <2>4. /\ query_count \in Nat /\ pool_count \in Nat /\ gpu_clock \in Nat
        /\ current_pool_index \in Nat /\ current_frame \in Nat /\ ended \in BOOLEAN
    BY <1>1
  <2> QED BY <2>1, <2>2, <2>3, <2>4 DEF ProfilerTypes
<1>3. Fetched = <<>>
  <2>1. Fetched = QueriesOf(ranges) /\ ranges \in Seq(QueryRange) /\ Len(ranges) = 0
    BY <1>1 DEF Fetched, QueriesOf
  <2> QED BY <2>1, QueriesOfType
<1>4. FetchedInv
  BY <1>1, <1>3 DEF FetchedInv, Numbered
<1>5. WrittenInv
  BY <1>1, RankIsNatural DEF WrittenInv
<1>6. RangesEnd /\ ResultsInv /\ PhaseInv
  BY <1>1 DEF RangesEnd, ResultsInv, PhaseInv, Collected
<1>7. Follow([i \in 1..1 |-> 0])
  <2> PICK reached : reached = [i \in 1..1 |-> 0]
    OBVIOUS
  <2>1. reached \in [1..1 -> Nat] /\ reached[1] = 0 /\ Len(in_flight) = 0 /\ Len(commands) = 0 /\ 0 + 1 = 1
    BY <1>1
  <2>2. Follow(reached)
    BY <1>1, <2>1 DEF Follow, Numbered
  <2> QED BY <2>2
<1> QED BY <1>2, <1>4, <1>5, <1>6, <1>7 DEF ProfilerInv

LEMMA GetQueryResultsInv ==
  ASSUME ProfilerInv, GetQueryResults
  PROVE  ProfilerInv'
<1> PICK n : n = query_count
  OBVIOUS
<1>1. /\ ended /\ in_flight = <<>> /\ ranges # <<>>
      /\ results' = [i \in DOMAIN results |->
                       [results[i] EXCEPT !.time = written[Fetched[i]] - written[Fetched[1]]]]
      /\ ranges' = <<>> /\ pool_count' = 0 /\ query_count' = 0 /\ current_pool_index' = 0
      /\ UNCHANGED <<commands, current_frame, in_flight, gpu_clock, written, ended>>
  BY DEF GetQueryResults
<1>2. n \in Nat /\ ~Collected /\ Collected'
  BY <1>1 DEF Collected, ProfilerInv, ProfilerTypes
<1>3. results \in Seq([name : Int, time : Int]) /\ Len(results) = n /\ DOMAIN results = 1..n
  BY <1>2 DEF ProfilerInv, ProfilerTypes, ResultsInv
<1>4. gpu_clock = n /\ commands = <<>>
  <2>1. PICK reached : Follow(reached)
    BY <1>2 DEF ProfilerInv
  <2>2. commands = <<>> /\ Len(commands) = 0 /\ Len(in_flight) = 0 /\ 0 + 1 = 1
    BY <1>1 DEF ProfilerInv, PhaseInv
  <2>3. reached[1] = gpu_clock /\ reached[1] + 0 = n /\ gpu_clock \in Nat
    BY <2>1, <2>2 DEF Follow, ProfilerInv, ProfilerTypes
  <2> QED BY <2>2, <2>3
<1>5. \A i \in 1..n : written[Fetched[i]] = i - 1
  <2> SUFFICES ASSUME NEW i \in 1..n PROVE written[Fetched[i]] = i - 1
    OBVIOUS
  <2>1. IsQuery(Fetched[i]) /\ Rank(Fetched[i]) = 0 + i - 1
    BY DEF ProfilerInv, FetchedInv, Numbered
  <2>2. Rank(Fetched[i]) = i - 1 /\ Rank(Fetched[i]) < gpu_clock
    BY <1>2, <1>4, <2>1
  <2>3. Fetched[i] \in DOMAIN written
    BY <2>1, <2>2 DEF ProfilerInv, WrittenInv, IsQuery
  <2> QED BY <2>2, <2>3 DEF ProfilerInv, WrittenInv
<1>6. /\ results' \in Seq([name : Int, time : Int]) /\ Len(results') = n
      /\ \A i \in 1..n : results'[i].name = i - 1 /\ results'[i].time = i - 1
  <2>1. ASSUME NEW i \in 1..n
        PROVE  /\ results'[i] \in [name : Int, time : Int]
               /\ results'[i].name = i - 1 /\ results'[i].time = i - 1
    <3>1. written[Fetched[i]] - written[Fetched[1]] = i - 1
      <4>1. 1 \in 1..n /\ (i - 1) - (1 - 1) = i - 1
        BY <1>2
      <4> QED BY <1>5, <4>1
    <3>2. PICK a \in Int, b \in Int : results[i] = [name |-> a, time |-> b]
      <4>1. results[i] \in [name : Int, time : Int]
        BY <1>3, ElementType
      <4> QED BY <4>1
    <3>3. a = i - 1
      BY <1>3, <3>2 DEF ProfilerInv, ResultsInv
    <3>4. results'[i] = [results[i] EXCEPT !.time = i - 1]
      BY <1>1, <1>3, <3>1
    <3>5. results'[i] = [name |-> a, time |-> i - 1]
      BY <3>2, <3>4
    <3> QED BY <3>3, <3>5
  <2>2. DOMAIN results' = 1..n
    BY <1>1, <1>3
  <2>3. results' = [i \in 1..n |-> results'[i]]
    BY <1>1, <1>3
  <2>4. results' \in Seq([name : Int, time : Int])
    BY <1>2, <2>1, <2>3, ResultsType
  <2>5. Len(results') = n
    BY <1>2, <2>1, <2>3, ResultsType
  <2> QED BY <2>1, <2>4, <2>5
<1>7. ProfilerTypes'
  BY <1>1, <1>6 DEF ProfilerInv, ProfilerTypes
<1>8. Fetched' = <<>>
  <2>1. Fetched' = QueriesOf(ranges') /\ ranges' \in Seq(QueryRange) /\ Len(ranges') = 0
    BY <1>1 DEF Fetched, QueriesOf
  <2> QED BY <2>1, QueriesOfType
<1>9. FetchedInv'
  BY <1>1, <1>8 DEF FetchedInv, Numbered
<1>10. RangesEnd' /\ PhaseInv'
  BY <1>1, <1>4 DEF RangesEnd, PhaseInv, Collected, ProfilerInv
<1>11. WrittenInv'
  BY <1>1 DEF ProfilerInv, WrittenInv, IsQuery, Rank
<1>12. ResultsInv'
  BY <1>2, <1>6 DEF ResultsInv
<1> QED BY <1>2, <1>7, <1>9, <1>10, <1>11, <1>12 DEF ProfilerInv

LEMMA SameProfiler ==
  ASSUME ProfilerInv, current_frame' \in Nat, current_frame' = current_frame \/ current_frame' # 0,
         ended => current_frame' = current_frame,
         UNCHANGED <<ranges, pool_count, current_pool_index, query_count, results, commands,
                     in_flight, gpu_clock, written, ended>>
  PROVE  ProfilerInv'
<1>1. ProfilerTypes' /\ RangesEnd' /\ ResultsInv' /\ PhaseInv' /\ Collected' = Collected
  BY DEF ProfilerInv, ProfilerTypes, RangesEnd, ResultsInv, PhaseInv, Collected
<1>2. FetchedInv'
  BY DEF ProfilerInv, FetchedInv, Fetched, Queries, Numbered, IsQuery, Rank
<1>3. WrittenInv'
  BY DEF ProfilerInv, WrittenInv, IsQuery, Rank
<1>4. \A reached : Follow(reached) => Follow(reached)'
  BY DEF Follow, Numbered, IsQuery, Rank
<1> QED BY <1>1, <1>2, <1>3, <1>4 DEF ProfilerInv

LEMMA NextProfiler == ProfilerInv /\ [ProfilerNext]_profilerVars => ProfilerInv'
<1> SUFFICES ASSUME ProfilerInv, [ProfilerNext]_profilerVars PROVE ProfilerInv'
  OBVIOUS
<1>1. current_frame \in Nat /\ ended \in BOOLEAN
  BY DEF ProfilerInv, ProfilerTypes
<1>2. CASE SubmitPartialFrame
  BY <1>1, <1>2, SubmitQueriesInv DEF SubmitPartialFrame
<1>3. CASE EndFrame
  BY <1>1, <1>3, SubmitQueriesInv DEF EndFrame
<1>4. CASE \E b \in 1..MaxBuffers : GetCommandBuffer(b)
  BY <1>1, <1>4, SameProfiler, ProfilerAssumption DEF GetCommandBuffer
<1>5. CASE UNCHANGED profilerVars
  BY <1>1, <1>5, SameProfiler DEF profilerVars
<1> QED BY <1>2, <1>3, <1>4, <1>5, AddTimestampInv, GpuExecutesInv, GetQueryResultsInv
        DEF ProfilerNext

LEMMA InvProfileIsRight == ProfilerInv => ProfileIsRight
<1> SUFFICES ASSUME ProfilerInv PROVE ProfileIsRight
  OBVIOUS
<1>1. /\ Fetched \in Seq(Nat \X Nat) /\ Len(Fetched) = query_count
      /\ DOMAIN Fetched = 1..Len(Fetched) /\ query_count \in Nat
      /\ \A i \in 1..Len(Fetched) : IsQuery(Fetched[i]) /\ Rank(Fetched[i]) = 0 + i - 1
      /\ \A i \in 1..Len(Fetched) : Fetched[i][1] <= pool_count
  BY DEF ProfilerInv, FetchedInv, Numbered, ProfilerTypes
<1>2. \A i, j \in DOMAIN Fetched : Fetched[i] = Fetched[j] => i = j
  BY <1>1
<1>3. ended /\ in_flight = <<>> => ToSet(Fetched) \subseteq DOMAIN written
  <2> SUFFICES ASSUME ended, in_flight = <<>>, NEW i \in 1..query_count
               PROVE  Fetched[i] \in DOMAIN written
    BY <1>1 DEF ToSet
  <2>1. ~Collected
    <3>1. query_count # 0
      BY <1>1
    <3> QED BY <3>1 DEF Collected, ProfilerInv, RangesEnd
  <2>2. PICK reached : Follow(reached)
    BY <2>1 DEF ProfilerInv
  <2>3. Len(commands) = 0 /\ Len(in_flight) = 0 /\ 0 + 1 = 1
    BY DEF ProfilerInv, PhaseInv
  <2>4. reached[1] = gpu_clock /\ reached[1] + 0 = query_count /\ gpu_clock \in Nat
    BY <2>2, <2>3 DEF Follow, ProfilerInv, ProfilerTypes
  <2>5. Rank(Fetched[i]) < gpu_clock
    BY <1>1, <2>4
  <2> QED BY <1>1, <2>5 DEF ProfilerInv, WrittenInv, IsQuery
<1>4. QueriesAreExclusive
  BY <1>1, <1>2, <1>3 DEF QueriesAreExclusive, IsInjective, IsQuery
<1>5. TimesBelongToNames
  <2>1. DOMAIN results = 1..Len(results)
    BY DEF ProfilerInv, ProfilerTypes
  <2> QED BY <2>1 DEF TimesBelongToNames, ProfilerInv, ResultsInv, Collected
<1> QED BY <1>4, <1>5 DEF ProfileIsRight

(* Whatever command buffers a frame is recorded into, however many queries *)
(* a pool has and whenever the GPU executes them, every timestamp has a    *)
(* query of its own and its time is put next to its name                   *)
(* (profiling/timestamp_profiler.cc).                                      *)
THEOREM TimestampsAreTold == ProfilerSpec => []ProfileIsRight
  BY InitProfiler, NextProfiler, InvProfileIsRight, PTL DEF ProfilerSpec
=============================================================================
