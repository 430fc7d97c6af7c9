---------------------- MODULE MCCachingDeviceAllocator ----------------------
(* Instances of CachingDeviceAllocator.                                     *)
EXTENDS CachingDeviceAllocator, TLC

CONSTANTS h1, h2

OnOtherDevice == [s \in Streams |-> 1]

DevicePerStream == [s \in Streams |-> s]

AtDeviceZero == [h \in Hosts |-> 0]

\* Two hosts and two streams of a device that is not the hosts' own, without
\* failures; the same with a failure after which ownership is intact; and one
\* host with a stream on each of two devices, whatever fails.
AllWorlds ==
    {[hosts |-> {h1, h2}, stream_device |-> OnOtherDevice, faulty |-> {},
      sizes |-> {1, 3}, ceilings |-> {2, 4}, work |-> 2],
     [hosts |-> {h1, h2}, stream_device |-> OnOtherDevice, faulty |-> Calls \ {"Malloc", "EventDestroy"},
      sizes |-> {1, 5}, ceilings |-> {2}, work |-> 1],
     [hosts |-> {h1}, stream_device |-> DevicePerStream, faulty |-> Calls,
      sizes |-> {1, 5}, ceilings |-> {2}, work |-> 1]}

\* One host, a stream on each of two devices, no failures but lack of memory.
TwoDevices ==
    {[hosts |-> {h1}, stream_device |-> DevicePerStream, faulty |-> {},
      sizes |-> {1, 5}, ceilings |-> {2}, work |-> 1]}

Symmetric == Permutations(Hosts) \union Permutations(Ptrs) \union Permutations(Events)
=============================================================================
