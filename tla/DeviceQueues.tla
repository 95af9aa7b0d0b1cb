----------------------------- MODULE DeviceQueues -----------------------------
(***************************************************************************)
(* vk/vulkan_device_queues.cc: how a physical device and its families of   *)
(* queues are chosen and a device with its queues is created; and the      *)
(* pools of command buffers that Escher makes for these queues.            *)
(*                                                                         *)
(* A family of queues is the set of what it can do.  Every physical device *)
(* that is enumerated has the extensions that are required, or not.        *)
(***************************************************************************)
EXTENDS Naturals, Sequences, FiniteSets, FiniteSetsExt

CONSTANTS
    PhysicalDevices,   \* what can be enumerated: records of families and extensions
    MaxDevices         \* bound: how many of them

ASSUME QueuesAssumption ==
    /\ MaxDevices \in Nat
    /\ \A d \in PhysicalDevices :
         /\ d.extensions \in BOOLEAN
         /\ d.queues \in Seq(SUBSET {"graphics", "compute", "transfer", "present"})

kMainQueueFlags == {"graphics", "compute"}
kTransferQueueFlags == {"transfer", "graphics", "compute"}
NoDevice == 0

VARIABLES
    physical_devices,   \* enumeratePhysicalDevices()
    surface,            \* whether there is one to present to
    chosen,             \* what FindSuitablePhysicalDeviceAndQueueFamilies() has returned
    queues,             \* the queues of the device: main and transfer, [family, index]
    pools,              \* the pools of Escher: the family and the queue of each
    submitted           \* command buffers: the family of their pool, and the queue

queuesVars == <<physical_devices, surface, chosen, queues, pools, submitted>>

Unset == [device |-> NoDevice, main |-> 0, transfer |-> 0]

QueuesInit ==
    /\ physical_devices \in UNION {[1 .. n -> PhysicalDevices] : n \in 0 .. MaxDevices}
    /\ surface \in BOOLEAN
    /\ chosen = Unset /\ queues = <<>> /\ pools = <<>> /\ submitted = {}

\* A bug to be caught: presentation is not asked about.
SuitableForCompute(d, i) ==
    /\ physical_devices[d].extensions
    /\ kMainQueueFlags \subseteq physical_devices[d].queues[i]

SuitableForMain(d, i) ==
    /\ physical_devices[d].extensions
    /\ kMainQueueFlags \subseteq physical_devices[d].queues[i]
    /\ surface => "present" \in physical_devices[d].queues[i]

SuitableFamilies(d) == {i \in DOMAIN physical_devices[d].queues : SuitableForMain(d, i)}

\* The loop looks at the main family every time, never at the j-th one.
TransferFamily(d, i) ==
    LET only == {j \in DOMAIN physical_devices[d].queues :
                    physical_devices[d].queues[i] \intersect kTransferQueueFlags = {"transfer"}}
    IN  IF only = {} THEN i ELSE Min(only)

FindSuitablePhysicalDeviceAndQueueFamilies ==
    LET suitable == {d \in DOMAIN physical_devices : SuitableFamilies(d) # {}} IN
    IF suitable = {} THEN Unset
    ELSE LET d == Min(suitable)
             i == Min(SuitableFamilies(d))
         IN  [device |-> d, main |-> i, transfer |-> TransferFamily(d, i)]

\* VulkanDeviceQueues::New(): the program ends if there is no suitable device.
\* Of each family one queue is created; one queue serves for both purposes when
\* the families are the same.
New ==
    /\ chosen = Unset
    /\ chosen' = FindSuitablePhysicalDeviceAndQueueFamilies
    /\ chosen' # Unset
    /\ queues' = [main |-> [family |-> chosen'.main, index |-> 0],
                  transfer |-> [family |-> chosen'.transfer, index |-> 0],
                  created |-> {chosen'.main, chosen'.transfer} \X {0}]
    /\ UNCHANGED <<physical_devices, surface, pools, submitted>>

\* Escher::Escher(): there is always a queue for transfers, and so a pool.
NewPools ==
    /\ queues # <<>> /\ pools = <<>>
    /\ pools' = [main |-> queues.main, transfer |-> queues.transfer]
    /\ UNCHANGED <<physical_devices, surface, chosen, queues, submitted>>

SubmitTo(pool, queue) ==
    /\ pools # <<>>
    /\ submitted' = submitted \union {[family |-> pool.family, queue |-> queue]}
    /\ UNCHANGED <<physical_devices, surface, chosen, queues, pools>>

SubmitFrame == pools # <<>> /\ SubmitTo(pools.main, pools.main)
SubmitUpload == pools # <<>> /\ SubmitTo(pools.transfer, pools.transfer)

\* The WobbleModifierAbsorber takes a command buffer of the main pool to the
\* queue for transfers.
SubmitWobbleCopy == pools # <<>> /\ SubmitTo(pools.main, queues.transfer)

QueuesNext == New \/ NewPools \/ SubmitFrame \/ SubmitUpload \/ SubmitWobbleCopy

QueuesSpec == QueuesInit /\ [][QueuesNext]_queuesVars

-----------------------------------------------------------------------------
(* Properties.                                                             *)

\* Every command buffer is submitted to a queue that was created, of the family
\* of its pool: also those that go from the main pool to the queue for
\* transfers.  And what is drawn goes to a queue that can draw, compute and
\* present.
SubmissionsAreLegal ==
    \A s \in submitted :
        /\ <<s.queue.family, s.queue.index>> \in queues.created
        /\ s.family = s.queue.family
        /\ queues.main.family \in SuitableFamilies(chosen.device)
        /\ kMainQueueFlags \subseteq physical_devices[chosen.device].queues[queues.main.family]
        /\ surface => "present" \in physical_devices[chosen.device].queues[queues.main.family]

\* The comment in FindSuitablePhysicalDeviceAndQueueFamilies(): it looks for "the
\* optimal transfer queue family", which is a transfer-only one.
TransferOnlyFamilyIsUsed ==
    queues # <<>> =>
        LET families == physical_devices[chosen.device].queues
            only == {j \in DOMAIN families : families[j] \intersect kTransferQueueFlags = {"transfer"}}
        IN  only # {} => queues.transfer.family \in only
=============================================================================
