----------------------------- MODULE MC_Devices -----------------------------
(* Two devices of ann's, the first with one link, and one of ben's. *)
EXTENDS Devices

CONSTANTS l1, l2, l3, d1, d2, d3, ann, ben

MCDeviceOf == [l \in Links |-> IF l = l1 THEN d1 ELSE d2]
MCHolderOf == [d \in Devices |-> IF d = d3 THEN ben ELSE ann]

\* A server on its own: nothing fails and no proof comes from elsewhere.
LocalSpec ==
    DeviceInit /\ [][\E l \in Links : HelloAndJoin(l) \/ Registration(l) \/ Revocation(l)]_deviceVars
=============================================================================
