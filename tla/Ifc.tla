-------------------------------- MODULE Ifc --------------------------------
(***************************************************************************)
(* The channel table of the IFC DMA engine (ifc.c) and the DDR bandwidth   *)
(* votes that go with the channels (pm_ddr.c): the steps that ifc.c takes  *)
(* under ifc_lock, and those that pm_ddr.c takes under pm_ddr_lock.  The   *)
(* callers are in IfcClients and in RdaMmc.                                *)
(***************************************************************************)
EXTENDS Naturals

CONSTANTS
    Channels,       \* 0 .. SYS_IFC_STD_CHAN_NB - 1
    NoChannel,      \* HAL_UNKNOWN_CHANNEL, or what get_ch reads when all are busy
    Requests,       \* HAL_IFC_REQUEST_ID_T: who may use the engine
    NoRequest       \* HAL_IFC_NO_REQWEST

ASSUME IfcAssumption ==
    /\ NoChannel \notin Channels
    /\ NoRequest \notin Requests

VARIABLES
    owner,      \* ifc_channel_owner
    taken,      \* the channels the engine has handed out and not got back
    count,      \* master_ref_cnt of the master of each channel
    map,        \* pm_ddr_map: the masters that vote for bandwidth
    failed      \* a BUG_ON stopped the kernel

ifcVars == <<owner, taken, count, map, failed>>

IfcTypeOK ==
    /\ owner \in [Channels -> Requests \cup {NoRequest}]
    /\ taken \subseteq Channels
    /\ count \in [Channels -> Nat]
    /\ map \subseteq Channels
    /\ failed \in BOOLEAN

IfcInit ==
    /\ owner = [c \in Channels |-> NoRequest]
    /\ taken = {}
    /\ count = [c \in Channels |-> 0]
    /\ map = {}
    /\ failed = FALSE

\* The engine allocates: reading get_ch hands a free channel to the reader,
\* and writing DISABLE to the channel's control register gives it back.
GetCh(c) ==
    /\ IF taken = Channels THEN c = NoChannel ELSE c \in Channels \ taken
    /\ taken' = taken \cup ({c} \ {NoChannel})

Get(c) ==
    /\ count' = [count EXCEPT ![c] = @ + 1]
    /\ map' = IF count[c] = 0 THEN map \cup {c} ELSE map

Put(c) ==
    /\ count' = [count EXCEPT ![c] = IF @ = 0 THEN 0 ELSE @ - 1]
    /\ map' = IF count[c] = 1 THEN map \ {c} ELSE map

\* Faulty variant: the channel is taken without its owner.
TakeUnowned(r, c) ==
    /\ Get(c)
    /\ UNCHANGED <<owner, failed>>

\* Vote, take and start: the critical section of a start, on a channel that
\* get_ch handed out.
Take(r, c) ==
    /\ Get(c)
    /\ owner' = [owner EXCEPT ![c] = r]
    /\ UNCHANGED failed

\* The BUG_ONs in front of every other operation.
Owns(r, c) == c \in Channels /\ owner[c] = r

\* The critical section of a release, behind its BUG_ONs.
Free(c) ==
    /\ owner' = [owner EXCEPT ![c] = NoRequest]
    /\ taken' = taken \ {c}
    /\ UNCHANGED failed

Bug ==
    /\ failed' = TRUE
    /\ UNCHANGED <<owner, taken>>
=============================================================================
