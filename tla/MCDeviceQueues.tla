---------------------------- MODULE MCDeviceQueues ----------------------------
(* An instance of DeviceQueues for TLC: a device with a family of queues   *)
(* for everything and one for transfers only.                              *)
EXTENDS DeviceQueues

MCDevices ==
    {[extensions |-> TRUE,
      queues |-> <<{"graphics", "compute", "transfer", "present"}, {"transfer"}>>]}
=============================================================================
