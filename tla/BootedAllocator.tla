-------------------------- MODULE BootedAllocator --------------------------
(***************************************************************************)
(* Boot, and then the allocator: PageAllocator begins to work when         *)
(* BootMemory has made node 0 a zone of NPages frames without holes and    *)
(* free_bootmem_with_active_regions has given them to it.  With any other  *)
(* memory the instance ends with the zones and their watermarks.           *)
(***************************************************************************)
EXTENDS PageAllocator

CONSTANTS
    NNodes, NZones, MaxZonePfn, Highmem, MaxRegions, ULong, MapPages, DmaReserve,
    MaxLowPfn, Edges, Cores, MinFrees, Ratios   \* those of BootMemory

VARIABLES map, core, movable_zone, zones, ratio, ram, cut

Boot == INSTANCE BootMemory WITH BlockPages <- 2^(MaxOrder - 1)

ASSUME BootedAssumption == Boot!BootAssumption

bootVars == <<map, core, movable_zone, zones, ratio, ram, cut>>

\* The frames of zone 0 of node 0 are those that the allocator is modelled with, and
\* nobody has asked for a movable zone or set a watermark.
Handed ==
    /\ Boot!Booted /\ ~cut
    /\ core = [kernel |-> 0, movable |-> 0]
    /\ map = <<[nid |-> 0, start |-> 0, end |-> NPages]>>
    /\ zones[0][0].start = 0 /\ zones[0][0].pages = NPages
    /\ zones[0][0].high = 0 /\ \A z \in Boot!Zones : zones[0][0].reserve[z] = 0
    /\ ratio = [z \in Boot!Fixed |-> Max(Ratios)]
    /\ Boot!Released(0) = Pages

\* The allocator has not been used.
Fresh == DOMAIN used = {} /\ linked = {} /\ \A k \in Tasks : doing[k] = Idle

BootedInit == Init /\ Boot!Init

BootedNext ==
    \/ Fresh /\ Boot!Next /\ Init /\ UNCHANGED vars
    \/ Handed /\ Next /\ UNCHANGED bootVars

BootedSpec == BootedInit /\ [][BootedNext]_<<vars, bootVars>>

\* The memory map and the zones are sound until the allocator takes over; then they
\* stay as they are.
BootSound == Fresh => Boot!BootSound
=============================================================================
