----------------------------- MODULE IfcClients -----------------------------
(***************************************************************************)
(* Threads that share the IFC channels, by the plain calls of ifc.c, as    *)
(* the MMC hosts do, or by its scatter/gather calls.                       *)
(*                                                                         *)
(* ifc_transfer_start reads get_ch before it takes ifc_lock, so another    *)
(* start may come between (ReadGetCh, Start); ifc_transfer_sg_start reads  *)
(* it under the lock (SgStart).  ifc_transfer_stop withdraws the vote and  *)
(* then releases the channel, each under a lock of its own (Stop,          *)
(* Release); ifc_transfer_sg_stop does both under ifc_lock (SgStop).       *)
(***************************************************************************)
EXTENDS Ifc

CONSTANTS
    Sg,             \* the requests that use the scatter/gather calls
    SgLens,         \* their sg_len
    SgChannels      \* the channels below SYS_IFC_SG_CHAN_NUM

ASSUME ClientsAssumption ==
    /\ Sg \subseteq Requests
    /\ SgLens \subseteq Nat
    /\ SgChannels \subseteq Channels

VARIABLES
    at,     \* "idle", "chosen" (get_ch read), "using", "dropped" (vote withdrawn)
    chan    \* the channel the caller keeps

vars == <<ifcVars, at, chan>>

TypeOK ==
    /\ IfcTypeOK
    /\ at \in [Requests -> {"idle", "chosen", "using", "dropped"}]
    /\ chan \in [Requests -> Channels \cup {NoChannel}]

Init ==
    /\ IfcInit
    /\ at = [r \in Requests |-> "idle"]
    /\ chan = [r \in Requests |-> NoChannel]

ReadGetCh(r) ==
    /\ r \notin Sg /\ at[r] = "idle"
    /\ \E c \in Channels \cup {NoChannel} :
        /\ GetCh(c)
        /\ chan' = [chan EXCEPT ![r] = c]
    /\ at' = [at EXCEPT ![r] = "chosen"]
    /\ UNCHANGED <<owner, count, map, failed>>

\* Faulty variant: the channel number is not compared with SYS_IFC_STD_CHAN_NB, and
\* the owner is written behind the end of the table.
StartUnchecked(r) ==
    /\ at[r] = "chosen"
    /\ owner' = [c \in Channels \cup {chan[r]} |-> IF c = chan[r] THEN r ELSE owner[c]]
    /\ at' = [at EXCEPT ![r] = "using"]
    /\ UNCHANGED <<taken, count, map, failed, chan>>

Start(r) ==
    /\ at[r] = "chosen" /\ chan[r] \in Channels
    /\ Take(r, chan[r])
    /\ at' = [at EXCEPT ![r] = "using"]
    /\ UNCHANGED <<taken, chan>>

StartFails(r) ==
    /\ at[r] = "chosen" /\ chan[r] = NoChannel
    /\ at' = [at EXCEPT ![r] = "idle"]
    /\ UNCHANGED <<ifcVars, chan>>

\* Faulty variant: the channel of the last start is used again, unread.
SgStartBlind(r) ==
    /\ r \in Sg /\ at[r] = "idle"
    /\ \E c \in Channels :
        /\ Take(r, c)
        /\ chan' = [chan EXCEPT ![r] = c]
    /\ at' = [at EXCEPT ![r] = "using"]
    /\ UNCHANGED taken

SgStart(r) ==
    /\ r \in Sg /\ at[r] = "idle"
    /\ \E n \in SgLens, c \in Channels :
        /\ GetCh(c)
        /\ n > 1 => c \in SgChannels
        /\ Take(r, c)
        /\ chan' = [chan EXCEPT ![r] = c]
    /\ at' = [at EXCEPT ![r] = "using"]

\* Without a free channel nothing happens; a channel that cannot do scatter/
\* gather is refused, but not given back.
SgStartFails(r) ==
    /\ r \in Sg /\ at[r] = "idle"
    /\ \E n \in SgLens, c \in Channels \cup {NoChannel} :
        /\ GetCh(c)
        /\ c = NoChannel \/ (n > 1 /\ c \notin SgChannels)
    /\ UNCHANGED <<owner, count, map, failed, at, chan>>

Stop(r) ==
    /\ r \notin Sg /\ at[r] = "using"
    /\ Put(chan[r])
    /\ at' = [at EXCEPT ![r] = "dropped"]
    /\ UNCHANGED <<owner, taken, failed, chan>>

\* Faulty variant: the owner is cleared but the channel is not disabled.
ReleaseEnabled(r) ==
    /\ at[r] = "dropped"
    /\ owner' = [owner EXCEPT ![chan[r]] = NoRequest]
    /\ UNCHANGED <<taken, failed>>
    /\ at' = [at EXCEPT ![r] = "idle"]
    /\ chan' = [chan EXCEPT ![r] = NoChannel]
    /\ UNCHANGED <<count, map>>

Release(r) ==
    /\ at[r] = "dropped"
    /\ IF Owns(r, chan[r]) THEN Free(chan[r]) ELSE Bug
    /\ at' = [at EXCEPT ![r] = "idle"]
    /\ chan' = [chan EXCEPT ![r] = NoChannel]
    /\ UNCHANGED <<count, map>>

\* Faulty variant: the vote is left behind.
SgStopStillVoting(r) ==
    /\ r \in Sg /\ at[r] = "using"
    /\ IF Owns(r, chan[r]) THEN Free(chan[r]) ELSE Bug
    /\ at' = [at EXCEPT ![r] = "idle"]
    /\ chan' = [chan EXCEPT ![r] = NoChannel]
    /\ UNCHANGED <<count, map>>

SgStop(r) ==
    /\ r \in Sg /\ at[r] = "using"
    /\ IF Owns(r, chan[r])
       THEN Put(chan[r]) /\ Free(chan[r])
       ELSE Bug /\ UNCHANGED <<count, map>>
    /\ at' = [at EXCEPT ![r] = "idle"]
    /\ chan' = [chan EXCEPT ![r] = NoChannel]

Next ==
    /\ ~failed
    /\ \E r \in Requests :
        \/ ReadGetCh(r) \/ Start(r) \/ StartFails(r) \/ Stop(r) \/ Release(r)
        \/ SgStart(r) \/ SgStartFails(r) \/ SgStop(r)

Spec == Init /\ [][Next]_vars

-----------------------------------------------------------------------------
Busy(r) == at[r] \in {"using", "dropped"}

\* Whoever stops or releases a channel still owns it: the assertion of
\* ifc_channel_release (ifc.c:139-140) holds.
OwnerStops == ~failed

\* Two users never work on one channel: starting a transfer never reprograms
\* the channel of another that is still moving data (ifc.c:228-236).
OneUser == \A r, s \in Requests : Busy(r) /\ Busy(s) /\ chan[r] = chan[s] => r = s

\* A channel votes for DDR bandwidth from its start until its user begins to
\* stop it, and then no more: no vote is lost while data moves, and none is
\* left behind to keep the memory awake (pm_ddr.c:50-94).
VotesMatchUse ==
    \A c \in Channels :
        /\ c \in map <=> \E r \in Requests : at[r] = "using" /\ chan[r] = c
        /\ count[c] = IF c \in map THEN 1 ELSE 0

\* The engine runs out of channels in one way only: a channel that is with no
\* caller any more was refused for a list of several entries (ifc.c:96-100),
\* so none is lost where lists have one entry, the default (reg_ifc_v1.h:25).
Refusable == IF \E n \in SgLens : n > 1 THEN Channels \ SgChannels ELSE {}

Kept == {chan[r] : r \in {s \in Requests : at[s] # "idle"}} \ {NoChannel}

NoChannelLost == Kept \subseteq taken /\ taken \ Kept \subseteq Refusable
=============================================================================
