----------------------------- MODULE IfcProofs -----------------------------
(***************************************************************************)
(* Sharing the IFC channels is safe for every number of channels and of    *)
(* users, because reading get_ch allocates.                                *)
(***************************************************************************)
EXTENDS IfcClients, TLAPS

\* The users that were handed a channel and have not given it back.
Holds(r) == at[r] # "idle" /\ chan[r] \in Channels

\* A channel handed out stays allocated until its one holder gives it back.
HeldOnce ==
    /\ \A r \in Requests : Holds(r) => chan[r] \in taken
    /\ \A r, s \in Requests :
        Holds(r) /\ Holds(s) /\ chan[r] = chan[s] => r = s

BusyOwns == \A r \in Requests : Busy(r) => Owns(r, chan[r])

IfcInv == TypeOK /\ OwnerStops /\ HeldOnce /\ BusyOwns /\ VotesMatchUse

-----------------------------------------------------------------------------
LEMMA InitIfc == Init => IfcInv
<1> SUFFICES ASSUME Init PROVE IfcInv
  OBVIOUS
<1> USE IfcAssumption DEF Init, IfcInit
<1>1. TypeOK /\ OwnerStops
  BY DEF TypeOK, IfcTypeOK, OwnerStops
<1>2. \A r \in Requests : ~Busy(r) /\ ~Holds(r)
  BY DEF Busy, Holds
<1>3. HeldOnce /\ BusyOwns
  BY <1>2 DEF HeldOnce, BusyOwns
<1>4. VotesMatchUse
  BY <1>2 DEF VotesMatchUse, Busy
<1> QED BY <1>1, <1>3, <1>4 DEF IfcInv

\* Handing out a channel: it is new to every holder.
LEMMA HandOut ==
    ASSUME IfcInv, NEW r \in Requests, NEW c \in Channels, GetCh(c)
    PROVE  /\ c \notin taken
           /\ \A s \in Requests : Holds(s) => chan[s] # c
           /\ c \notin map
BY IfcAssumption
   DEF IfcInv, GetCh, HeldOnce, Holds, VotesMatchUse, BusyOwns, Busy, Owns, TypeOK

LEMMA StepIfc == IfcInv /\ [Next]_vars => IfcInv'
<1> SUFFICES ASSUME IfcInv, [Next]_vars PROVE IfcInv'
  OBVIOUS
<1> USE IfcAssumption, ClientsAssumption
<1> USE DEF IfcInv, TypeOK, IfcTypeOK, OwnerStops
<1>0. ASSUME UNCHANGED vars PROVE IfcInv'
  BY <1>0 DEF vars, ifcVars, HeldOnce, Holds, BusyOwns, Busy, Owns, VotesMatchUse
<1>1. ASSUME NEW r \in Requests, ReadGetCh(r) PROVE IfcInv'
  <2>1. PICK c \in Channels \cup {NoChannel} :
            GetCh(c) /\ chan' = [chan EXCEPT ![r] = c]
    BY <1>1 DEF ReadGetCh
  <2>2. TypeOK' /\ OwnerStops'
    BY <1>1, <2>1 DEF ReadGetCh, GetCh
  <2>3. HeldOnce'
    BY <1>1, <2>1, HandOut DEF ReadGetCh, GetCh, HeldOnce, Holds
  <2>4. BusyOwns'
    BY <1>1, <2>1 DEF ReadGetCh, BusyOwns, Busy, Owns
  <2>5. VotesMatchUse'
    BY <1>1, <2>1 DEF ReadGetCh, VotesMatchUse
  <2> QED BY <2>2, <2>3, <2>4, <2>5
<1>2. ASSUME NEW r \in Requests, Start(r) PROVE IfcInv'
  <2>1. TypeOK' /\ OwnerStops'
    BY <1>2 DEF Start, Take, Get
  <2>2. HeldOnce'
    BY <1>2 DEF Start, Take, Get, HeldOnce, Holds
  <2>3. BusyOwns'
    BY <1>2 DEF Start, Take, Get, HeldOnce, Holds, BusyOwns, Busy, Owns
  <2>4. VotesMatchUse'
    BY <1>2 DEF Start, Take, Get, HeldOnce, Holds, VotesMatchUse
  <2> QED BY <2>1, <2>2, <2>3, <2>4
<1>3. ASSUME NEW r \in Requests, StartFails(r) PROVE IfcInv'
  BY <1>3 DEF StartFails, ifcVars, HeldOnce, Holds, BusyOwns, Busy, Owns, VotesMatchUse
<1>4. ASSUME NEW r \in Requests, Stop(r) PROVE IfcInv'
  <2>1. TypeOK' /\ OwnerStops'
    BY <1>4 DEF Stop, Put, BusyOwns, Busy, Owns
  <2>2. HeldOnce' /\ BusyOwns'
    BY <1>4 DEF Stop, HeldOnce, Holds, BusyOwns, Busy, Owns
  <2>3. VotesMatchUse'
    BY <1>4 DEF Stop, Put, HeldOnce, Holds, BusyOwns, Busy, Owns, VotesMatchUse
  <2> QED BY <2>1, <2>2, <2>3
<1>5. ASSUME NEW r \in Requests, Release(r) PROVE IfcInv'
  <2>1. Owns(r, chan[r]) /\ Free(chan[r])
    BY <1>5 DEF Release, BusyOwns, Busy
  <2>2. TypeOK' /\ OwnerStops'
    BY <1>5, <2>1 DEF Release, Free, Owns
  <2>3. HeldOnce'
    BY <1>5, <2>1 DEF Release, Free, Owns, HeldOnce, Holds
  <2>4. BusyOwns'
    BY <1>5, <2>1 DEF Release, Free, Owns, HeldOnce, Holds, BusyOwns, Busy
  <2>5. VotesMatchUse'
    BY <1>5, <2>1 DEF Release, Free, VotesMatchUse
  <2> QED BY <2>2, <2>3, <2>4, <2>5
<1>6. ASSUME NEW r \in Requests, SgStart(r) PROVE IfcInv'
  <2>1. PICK c \in Channels : GetCh(c) /\ Take(r, c) /\ chan' = [chan EXCEPT ![r] = c]
    BY <1>6 DEF SgStart
  <2>2. TypeOK' /\ OwnerStops'
    BY <1>6, <2>1 DEF SgStart, GetCh, Take, Get
  <2>3. HeldOnce'
    BY <1>6, <2>1, HandOut DEF SgStart, GetCh, HeldOnce, Holds
  <2>4. BusyOwns'
    BY <1>6, <2>1, HandOut DEF SgStart, Take, Get, Holds, BusyOwns, Busy, Owns
  <2>5. VotesMatchUse'
    BY <1>6, <2>1, HandOut DEF SgStart, Take, Get, VotesMatchUse
  <2> QED BY <2>2, <2>3, <2>4, <2>5
<1>7. ASSUME NEW r \in Requests, SgStartFails(r) PROVE IfcInv'
  BY <1>7 DEF SgStartFails, GetCh, HeldOnce, Holds, BusyOwns, Busy, Owns, VotesMatchUse
<1>8. ASSUME NEW r \in Requests, SgStop(r) PROVE IfcInv'
  <2>1. Owns(r, chan[r]) /\ Put(chan[r]) /\ Free(chan[r])
    BY <1>8 DEF SgStop, BusyOwns, Busy
  <2>2. TypeOK' /\ OwnerStops'
    BY <1>8, <2>1 DEF SgStop, Put, Free, Owns
  <2>3. HeldOnce'
    BY <1>8, <2>1 DEF SgStop, Free, Owns, HeldOnce, Holds
  <2>4. BusyOwns'
    BY <1>8, <2>1 DEF SgStop, Free, Owns, HeldOnce, Holds, BusyOwns, Busy
  <2>5. VotesMatchUse'
    BY <1>8, <2>1 DEF SgStop, Put, Free, Owns, HeldOnce, Holds, BusyOwns, Busy, VotesMatchUse
  <2> QED BY <2>2, <2>3, <2>4, <2>5
<1> QED
  BY <1>0, <1>1, <1>2, <1>3, <1>4, <1>5, <1>6, <1>7, <1>8 DEF Next

LEMMA IfcAlways == Spec => []IfcInv
<1>1. Init => IfcInv
  BY InitIfc
<1>2. IfcInv /\ [Next]_vars => IfcInv'
  BY StepIfc
<1> QED BY <1>1, <1>2, PTL DEF Spec

-----------------------------------------------------------------------------
\* Whoever stops or releases a channel still owns it, by either interface, for any
\* number of channels and users: no assertion of the stopping calls (ifc.c:139-140)
\* is reached.  Those of the other calls are not in the model.
THEOREM OwnersStop == Spec => []OwnerStops
<1>1. IfcInv => OwnerStops
  BY DEF IfcInv
<1> QED BY <1>1, IfcAlways, PTL

\* No two users of the engine program the same channel.
THEOREM OneUserEach == Spec => []OneUser
<1>1. IfcInv => OneUser
  BY DEF IfcInv, OneUser, BusyOwns, Busy, Owns
<1> QED BY <1>1, IfcAlways, PTL

\* The DDR votes are exactly those of the channels in use.
THEOREM VotesAreUse == Spec => []VotesMatchUse
<1>1. IfcInv => VotesMatchUse
  BY DEF IfcInv
<1> QED BY <1>1, IfcAlways, PTL

\* The tables and the callers' variables keep their types.
THEOREM TypeCorrect == Spec => []TypeOK
<1>1. IfcInv => TypeOK
  BY DEF IfcInv
<1> QED BY <1>1, IfcAlways, PTL

-----------------------------------------------------------------------------
\* Every channel that is out is with a caller, or may have been refused.
Accounted ==
    \A c \in taken : c \in Refusable \/ \E r \in Requests : Holds(r) /\ chan[r] = c

LEMMA AccountedMeansNoneLost == IfcInv /\ Accounted => NoChannelLost
BY IfcAssumption DEF IfcInv, TypeOK, IfcTypeOK, HeldOnce, Holds, Accounted, NoChannelLost, Kept

\* A caller that keeps its channel still accounts for it after the step.
LEMMA StepAccounted == IfcInv /\ Accounted /\ [Next]_vars => Accounted'
<1> SUFFICES ASSUME IfcInv, Accounted, [Next]_vars,
                    NEW c \in taken', c \notin Refusable
             PROVE  \E r \in Requests : (Holds(r) /\ chan[r] = c)'
  BY DEF Accounted, Refusable
<1> USE IfcAssumption, ClientsAssumption
<1>t. TypeOK /\ HeldOnce /\ BusyOwns
  BY DEF IfcInv
<1>old. ASSUME c \in taken
        PROVE  \E r \in Requests : Holds(r) /\ chan[r] = c
  BY <1>old DEF Accounted
<1>keep. ASSUME c \in taken,
                \A r \in Requests : Holds(r) /\ chan[r] = c => at'[r] # "idle" /\ chan'[r] = chan[r]
         PROVE  \E r \in Requests : (Holds(r) /\ chan[r] = c)'
  BY <1>old, <1>keep DEF Holds
<1>0. CASE UNCHANGED vars
  BY <1>0, <1>keep DEF vars, ifcVars, Holds
<1>1. ASSUME NEW r \in Requests, ReadGetCh(r) \/ SgStart(r)
      PROVE  \E s \in Requests : (Holds(s) /\ chan[s] = c)'
  <2>1. PICK d \in Channels \cup {NoChannel} :
            GetCh(d) /\ chan' = [chan EXCEPT ![r] = d]
    BY <1>1 DEF ReadGetCh, SgStart
  <2>2. /\ at[r] = "idle" /\ at'[r] # "idle"
        /\ \A s \in Requests \ {r} : at'[s] = at[s] /\ chan'[s] = chan[s]
        /\ chan'[r] = d
    BY <1>1, <1>t, <2>1 DEF ReadGetCh, SgStart, TypeOK
  <2>3. CASE c \in taken
    BY <1>keep, <2>2, <2>3 DEF Holds
  <2>4. CASE c \notin taken
    <3>1. c = d /\ d \in Channels
      BY <1>t, <2>1, <2>4 DEF GetCh, TypeOK, IfcTypeOK
    <3> QED BY <2>2, <3>1 DEF Holds
  <2> QED BY <2>3, <2>4
<1>2. ASSUME NEW r \in Requests, Start(r) \/ Stop(r)
      PROVE  \E s \in Requests : (Holds(s) /\ chan[s] = c)'
  BY <1>2, <1>t, <1>keep DEF Start, Stop, TypeOK, Holds
<1>3. ASSUME NEW r \in Requests, StartFails(r)
      PROVE  \E s \in Requests : (Holds(s) /\ chan[s] = c)'
  BY <1>3, <1>t, <1>keep DEF StartFails, ifcVars, TypeOK, Holds
<1>4. ASSUME NEW r \in Requests, Release(r) \/ SgStop(r)
      PROVE  \E s \in Requests : (Holds(s) /\ chan[s] = c)'
  <2>1. Owns(r, chan[r]) /\ Free(chan[r])
    BY <1>4, <1>t DEF Release, SgStop, BusyOwns, Busy
  <2>2. c \in taken /\ c # chan[r]
    BY <2>1 DEF Free
  <2>3. \A s \in Requests \ {r} : at'[s] = at[s] /\ chan'[s] = chan[s]
    BY <1>4, <1>t DEF Release, SgStop, TypeOK
  <2> QED BY <1>keep, <2>2, <2>3 DEF Holds
<1>5. ASSUME NEW r \in Requests, SgStartFails(r)
      PROVE  \E s \in Requests : (Holds(s) /\ chan[s] = c)'
  <2>1. PICK n \in SgLens, d \in Channels \cup {NoChannel} :
            GetCh(d) /\ (d = NoChannel \/ (n > 1 /\ d \notin SgChannels))
    BY <1>5 DEF SgStartFails
  <2>2. c \in taken
    BY <1>t, <2>1 DEF GetCh, Refusable, TypeOK, IfcTypeOK
  <2>3. UNCHANGED <<at, chan>>
    BY <1>5 DEF SgStartFails
  <2> QED BY <1>keep, <2>2, <2>3 DEF Holds
<1> QED BY <1>0, <1>1, <1>2, <1>3, <1>4, <1>5 DEF Next

\* No path of ifc.c loses a channel except the refusal of a list for a channel
\* that cannot do scatter/gather.
THEOREM OnlyRefusalLoses == Spec => []NoChannelLost
<1>1. Init => Accounted
  BY DEF Init, IfcInit, Accounted
<1> QED BY <1>1, StepAccounted, IfcAlways, AccountedMeansNoneLost, PTL DEF Spec
=============================================================================
