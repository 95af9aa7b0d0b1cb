------------------------------- MODULE MCClients -------------------------------
(***************************************************************************)
(* The pools of command buffers, the sequencer that numbers these, and     *)
(* what the clients of the pools are built from: instances of modules that *)
(* do not act on each other, side by side.  In a behaviour one of them is  *)
(* at work, and the others stay in one of their initial states.            *)
(***************************************************************************)
EXTENDS CommandBufferPool, CommandBufferSequencer, Tessellation, Pipelines, Strokes,
        VertexLayout, WobbleAbsorber, DeviceQueues

VARIABLE part   \* which module is at work

CONSTANTS
    b1, b2,        \* CommandBuffer objects: the third number needs one of them again
    early, late    \* listeners of the sequencer

MCBuffer == {b1, b2}
MCListener == {early, late}

\* One object that wobbles in two frames, the second of which may begin while a
\* kernel of the first one runs.
MCObjects == {1}

\* Three threads ask for two pipelines in different orders, and two of them call
\* the factory, perhaps before a request is there.
MCScripts ==
    <<<<<<"get", 1>>, <<"get", 2>>, <<"serve">>, <<"await", 1>>, <<"await", 2>>>>,
      <<<<"get", 2>>, <<"serve">>, <<"await", 2>>, <<"get", 1>>, <<"await", 1>>>>,
      <<<<"get", 1>>, <<"await", 1>>>>>>

Compute == {"graphics", "compute"}
All == Compute \union {"transfer", "present"}

\* A device without the extensions, one that cannot present, and devices whose
\* families come in one order and the other, with one only for transfers.
MCDevices ==
    {[extensions |-> FALSE, queues |-> <<All>>],
     [extensions |-> TRUE, queues |-> <<{"transfer"}, Compute>>],
     [extensions |-> TRUE, queues |-> <<Compute, All>>],
     [extensions |-> TRUE, queues |-> <<{"transfer", "present"}, {"compute", "transfer"}, All>>],
     [extensions |-> TRUE, queues |-> <<All, {"transfer"}>>]}

-----------------------------------------------------------------------------

ClientsInit ==
    /\ part \in {"pools", "sequencer", "tessellation", "pipelines", "strokes", "layout",
                "wobble", "queues"}
    /\ Init /\ SequencerInit /\ TessInit /\ PipeInit /\ StrokesInit /\ LayoutInit /\ WobbleInit /\ QueuesInit
    /\ part # "wobble" => num_vertices = [o \in Objects |-> Min(NumVertices)]
    /\ part # "queues" => physical_devices = <<>> /\ surface = FALSE

\* Only p is at work.
At(p) ==
    /\ part = p /\ part' = p
    /\ p # "pools" => UNCHANGED vars
    /\ p # "sequencer" => UNCHANGED numberVars
    /\ p # "tessellation" => UNCHANGED tessVars
    /\ p # "pipelines" => UNCHANGED pipeVars
    /\ p # "strokes" => UNCHANGED strokesVars
    /\ p # "layout" => UNCHANGED layoutVars
    /\ p # "wobble" => UNCHANGED wobbleVars
    /\ p # "queues" => UNCHANGED queuesVars

clientsVars ==
    <<part, vars, numberVars, tessVars, pipeVars, strokesVars, layoutVars, wobbleVars, queuesVars>>

ClientsNext ==
    \/ At("pools") /\ Next
    \/ At("sequencer") /\ SequencerNext
    \/ At("tessellation") /\ TessNext
    \/ At("pipelines") /\ PipeNext
    \/ At("strokes") /\ StrokesNext
    \/ At("layout") /\ LayoutNext
    \/ At("wobble") /\ WobbleNext
    \/ At("queues") /\ QueuesNext

\* Less than FairSpec, FairSequencerSpec and PipeSpec ask for, while their module is
\* at work: it is enough that any buffer goes on that can.
ClientsFairness ==
    /\ WF_vars(part = "pools" /\ \E q \in Pool : GpuExecutes(q))
    /\ WF_vars(part = "pools" /\ CleanupStep)
    /\ SF_vars(part = "pools" /\ EscherCleanup)
    /\ SF_vars(part = "pools" /\ \E b \in Buffer : Submit(b))
    /\ WF_numberVars(part = "sequencer" /\ CallStep)
    /\ SF_numberVars(part = "sequencer" /\ Finished)
    /\ WF_pipeVars(part = "pipelines" /\ (ThreadStep \/ ClientStep))

ClientsSpec == ClientsInit /\ [][ClientsNext]_clientsVars /\ ClientsFairness

\* PipelinesAreMade where threads are at work: whoever waits for a pipeline is
\* answered (PipelineCache::GetPipeline), unless a request was served too early.
AwaitedPipelinesAreMade == part = "pipelines" => PipelinesAreMade

=============================================================================
