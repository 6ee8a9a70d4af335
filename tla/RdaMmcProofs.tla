---------------------------- MODULE RdaMmcProofs ----------------------------
(***************************************************************************)
(* The MMC host keeps its IFC channel and its books straight for every     *)
(* number of channels, of requests and of card changes, until a card is    *)
(* back before the thread saw it go (bounced).  On a controller that       *)
(* interrupts after its transfer was stopped or given up (~Punctual) there *)
(* is one more way to a BUG_ON, which run mmc_late shows: OnlyTheRace says *)
(* that there is no other.                                                 *)
(***************************************************************************)
EXTENDS RdaMmc, TLAPS

\* The thread is inside one transfer of a request.
InTransfer == pc \notin {"idle", "end", "lost"}

\* What is left of the request fits its type.
PartsLeft == InTransfer => req.parts \in 1 .. 2

-----------------------------------------------------------------------------
(* The inductive invariant.                                                *)

\* The channel whose owner is this host, and which ifc.c has in its table.
Held == IF pc = "release" THEN arg ELSE channel

\* The table of ifc.c and the votes of pm_ddr.c, as the host and the other user
\* left them.  Between get_ch and ifc_lock a channel is taken but has no owner;
\* between the withdrawn vote and the release it has an owner but no vote.
Ownership ==
    /\ ~failed
    /\ \A c \in Channels :
        /\ owner[c] \in {Host, Other, NoRequest}
        /\ owner[c] = Host <=> c = Held
        /\ c \in taken <=> owner[c] # NoRequest \/ (pc = "take" /\ arg = c)
        /\ c \in map <=> owner[c] = Other \/ (pc # "release" /\ channel = c)
        /\ count[c] = IF c \in map THEN 1 ELSE 0
    /\ pc = "take" /\ arg \in Channels => owner[arg] = NoRequest

\* Where the transfer may still be under way.
Moving == {"answer", "wait", "judge", "stop"}

\* Where the thread, the controller and the tasklet can be relative to each
\* other, and who has the channel then.
Control ==
    /\ hasData <=> pc # "idle"
    /\ channel # NoChannel => pc \in Moving \cup {"init", "command", "expired", "release"}
    /\ pc \in {"init", "command", "expired", "release"} => channel # NoChannel
    /\ pc = "release" => arg = channel
    /\ pc \in {"answer", "wait"} /\ done = 0 => channel # NoChannel
    /\ pc \in {"command", "answer"} /\ done > 0 /\ answers => channel = NoChannel
    /\ pc = "wait" /\ done > 0 /\ present => channel = NoChannel
    /\ pc = "judge" /\ present => channel = NoChannel
    /\ pc = "judge" => ~tasklet
    /\ tasklet \/ hw = "busy" => pc \in Moving /\ channel # NoChannel
    /\ tasklet => hw # "busy"

\* What is left of Control when an interrupt may come late: the tasklet takes the
\* channel wherever the thread is.
Loose ==
    /\ hasData <=> pc # "idle"
    /\ channel # NoChannel => pc \in Moving \cup {"init", "command", "expired", "release"}
    /\ pc = "release" => channel \in {arg, NoChannel}
    /\ pc \in {"command", "answer"} /\ done > 0 /\ answers => channel = NoChannel
    /\ pc = "wait" /\ done > 0 /\ present => channel = NoChannel
    /\ pc = "judge" /\ present /\ ~req.dataError => channel = NoChannel

\* The thread has run into a BUG_ON, or will: the tasklet released the channel
\* the thread is about to release.
Doomed ==
    \/ failed /\ pc # "idle"
    \/ pc = "release" /\ ~ Owns(Host, arg)

\* What takes the host there.
Astray ==
    \/ pc = "expired" /\ channel = NoChannel
    \/ pc = "release" /\ tasklet

\* What is owed, while nothing is known to have gone wrong: a part is paid for
\* by the interrupt, and booked by the end of the transfer.
Books ==
    /\ ~Error =>
        /\ pc \in {"choose", "take", "init", "command"} => owed = req.parts
        /\ pc \in {"answer", "wait"} =>
            /\ hw = "busy" => owed = req.parts
            /\ tasklet /\ end = "good" => owed = req.parts - 1
            /\ ~tasklet /\ channel = NoChannel => owed = req.parts - 1
        /\ pc = "judge" /\ channel = NoChannel => owed = req.parts - 1
        /\ pc = "part" => owed = req.parts - 1
        /\ pc = "end" => owed = 0
    /\ pc \in {"stop", "release"} => after = "stopcmd" \/ Error
    /\ tasklet /\ end = "badcrc" => req.dir = "write"
    /\ tasklet /\ end = "error" => dataErr

\* Whatever is an error already or will be one has a cause in this request.
Causes ==
    /\ Error /\ pc # "idle" => trouble
    /\ dataErr => tasklet
    /\ tasklet /\ (dataErr \/ end # "good") => trouble
    /\ answers => present
    /\ pc \in {"wait", "judge"} => present \/ trouble
    /\ pc \in {"expired", "stopcmd"} => trouble
    /\ pc \in {"stop", "release"} /\ after = "stopcmd" => trouble

\* What rda_mmc_request looks at before it reports the request.
Results ==
    /\ pc # "lost"
    /\ req.ret => req.cmdError
    /\ pc \in {"judge", "part", "end"} => req.ret \/ req.transferDone
    /\ pc \in {"stop", "release"} /\ after = "part" => req.ret \/ req.transferDone
    /\ pc \in {"stop", "release"} /\ after = "end" => req.ret

\* Until a card bounces, everything is in order.
MmcInv ==
    /\ TypeOK /\ PartsLeft /\ Results
    /\ bounced \/ (Ownership /\ Control /\ Books)

-----------------------------------------------------------------------------
(* Types: these hold without any hypothesis on the controller or the card. *)

RequestSet == [dir : {"read", "write"}, parts : 0 .. 2, cmdError : BOOLEAN,
               dataError : BOOLEAN, ret : BOOLEAN, transferDone : BOOLEAN]

RequestOK == req \in RequestSet

ThreadOK ==
    /\ pc \in Pcs /\ after \in {"end", "stopcmd", "part"}
    /\ arg \in Channels \cup {NoChannel}
    /\ channel \in Channels \cup {NoChannel}

FlagsOK ==
    /\ hasData \in BOOLEAN
    /\ dataErr \in BOOLEAN /\ tasklet \in BOOLEAN
    /\ end \in {"good", "short", "badcrc", "error"}
    /\ present \in BOOLEAN /\ answers \in BOOLEAN
    /\ hw \in {"idle", "busy", "dead"}
    /\ trouble \in BOOLEAN /\ bounced \in BOOLEAN

CountsOK ==
    /\ done \in Nat
    /\ requests \in 0 .. MaxRequests /\ detects \in 0 .. MaxDetects
    /\ owed \in 0 .. 2

LEMMA TypeParts == TypeOK <=> IfcTypeOK /\ RequestOK /\ ThreadOK /\ FlagsOK /\ CountsOK
BY DEF TypeOK, RequestOK, RequestSet, ThreadOK, FlagsOK, CountsOK

\* The request keeps its type, and there is a part left while one is transferred.
LEMMA StepRequest == RequestOK /\ ThreadOK /\ PartsLeft /\ [Next]_vars => RequestOK' /\ PartsLeft'
<1> SUFFICES ASSUME RequestOK, ThreadOK, PartsLeft, [Next]_vars PROVE RequestOK' /\ PartsLeft'
  OBVIOUS
<1> USE IfcAssumption, MmcAssumption DEF RequestOK, RequestSet, ThreadOK, PartsLeft, InTransfer, Pcs
<1>0. CASE UNCHANGED vars
  BY <1>0 DEF vars, ifcVars, thread, irq, slot, ghost
<1>1. ASSUME NEW d \in Directions, NEW n \in Parts, Request(d, n) PROVE RequestOK' /\ PartsLeft'
  <2>1. req' = [dir |-> d, parts |-> n, cmdError |-> FALSE, dataError |-> FALSE,
                ret |-> FALSE, transferDone |-> FALSE]
    BY <1>1 DEF Request, NoRequestYet
  <2>2. n \in 1 .. 2 /\ d \in {"read", "write"}
    OBVIOUS
  <2> QED BY <2>1, <2>2
<1>2. CASE Choose
  BY <1>2 DEF Choose
<1>3. CASE StartTransfer
  BY <1>3 DEF StartTransfer
<1>4. CASE StartRefused
  BY <1>4 DEF StartRefused
<1>5. CASE InitCompletion \/ SendCommand \/ CommandDone
  BY <1>5 DEF InitCompletion, SendCommand, CommandDone
<1>6. CASE CommandFails
  BY <1>6 DEF CommandFails
<1>7. CASE Wake
  BY <1>7 DEF Wake
<1>8. CASE Expire
  BY <1>8 DEF Expire
<1>9. CASE Expired
  BY <1>9 DEF Expired
<1>10. CASE Stop
  BY <1>10 DEF Stop
<1>11. CASE StopNothing
  BY <1>11 DEF StopNothing
<1>12. CASE StopRelease
  BY <1>12 DEF StopRelease
<1>13. CASE StopCommand
  BY <1>13 DEF StopCommand
<1>14. CASE Judge
  BY <1>14 DEF Judge
<1>15. CASE PartEnds
  BY <1>15 DEF PartEnds
<1>16. CASE RequestEnds
  BY <1>16 DEF RequestEnds
<1>17. ASSUME NEW e \in {"good", "short", "badcrc", "error"}, Irq(e) PROVE RequestOK' /\ PartsLeft'
  BY <1>17 DEF Irq, thread
<1>18. CASE Silence
  BY <1>18 DEF Silence, thread
<1>19. CASE Tasklet
  <2>1. pc' = pc /\ (Abort \/ Complete)
    BY <1>19 DEF Tasklet
  <2>2. CASE Abort
    BY <2>1, <2>2 DEF Abort
  <2>3. CASE Complete
    <3>1. CASE UNCHANGED <<ifcVars, channel, req>>
      BY <2>1, <3>1
    <3>2. CASE req' = [req EXCEPT !.dataError =
                 @ \/ end = "short" \/ (req.dir = "write" /\ end = "badcrc")]
      BY <2>1, <3>2
    <3> QED BY <2>3, <3>1, <3>2 DEF Complete
  <2> QED BY <2>1, <2>2, <2>3
<1>20. CASE Remove \/ Insert
  BY <1>20 DEF Remove, Insert, thread
<1>21. CASE OtherStarts \/ OtherStops
  BY <1>21 DEF OtherStarts, OtherStops, thread
<1> QED
  BY <1>0, <1>1, <1>2, <1>3, <1>4, <1>5, <1>6, <1>7, <1>8, <1>9, <1>10, <1>11, <1>12, <1>13, <1>14, <1>15, <1>16, <1>17, <1>18, <1>19, <1>20, <1>21
     DEF Next, Thread

\* The table and the votes of the IFC keep their types.
LEMMA StepIfc == IfcTypeOK /\ ThreadOK /\ [Next]_vars => IfcTypeOK'
<1> SUFFICES ASSUME IfcTypeOK, ThreadOK, [Next]_vars PROVE IfcTypeOK'
  OBVIOUS
<1> USE IfcAssumption, MmcAssumption DEF IfcTypeOK, ThreadOK
<1>0. CASE UNCHANGED vars
  BY <1>0 DEF vars, ifcVars, thread, irq, slot, ghost
<1>1. ASSUME NEW d \in Directions, NEW n \in Parts, Request(d, n) PROVE IfcTypeOK'
  BY <1>1 DEF Request, NoRequestYet, ifcVars
<1>2. CASE Choose
  BY <1>2 DEF Choose, GetCh, ifcVars
<1>3. CASE StartTransfer
  BY <1>3 DEF StartTransfer, Take, Get, ifcVars
<1>4. CASE StartRefused
  BY <1>4 DEF StartRefused, ifcVars
<1>5. CASE InitCompletion \/ SendCommand \/ CommandDone
  BY <1>5 DEF InitCompletion, SendCommand, CommandDone, ifcVars
<1>6. CASE CommandFails
  BY <1>6 DEF CommandFails, ifcVars
<1>7. CASE Wake
  BY <1>7 DEF Wake, ifcVars
<1>8. CASE Expire
  BY <1>8 DEF Expire, ifcVars
<1>9. CASE Expired
  BY <1>9 DEF Expired, Bug, ifcVars
<1>10. CASE Stop
  <2>1. channel \in Channels
    BY <1>10 DEF Stop
  <2>2. CASE Put(channel) /\ UNCHANGED <<owner, taken, failed>>
    BY <2>1, <2>2 DEF Put
  <2>3. CASE Bug /\ UNCHANGED <<count, map>>
    BY <2>3 DEF Bug
  <2> QED BY <1>10, <2>2, <2>3 DEF Stop
<1>11. CASE StopNothing
  BY <1>11 DEF StopNothing, ifcVars
<1>12. CASE StopRelease
  BY <1>12 DEF StopRelease, Free, Bug, Owns, ifcVars
<1>13. CASE StopCommand
  BY <1>13 DEF StopCommand, ifcVars
<1>14. CASE Judge
  BY <1>14 DEF Judge, ifcVars
<1>15. CASE PartEnds
  BY <1>15 DEF PartEnds, ifcVars
<1>16. CASE RequestEnds
  BY <1>16 DEF RequestEnds, ifcVars
<1>17. ASSUME NEW e \in {"good", "short", "badcrc", "error"}, Irq(e) PROVE IfcTypeOK'
  BY <1>17 DEF Irq, thread, ifcVars
<1>18. CASE Silence
  BY <1>18 DEF Silence, thread, ifcVars
<1>19. CASE Tasklet
  <2>1. CASE UNCHANGED ifcVars
    BY <2>1 DEF ifcVars
  <2>2. CASE Owns(Host, channel) /\ Put(channel) /\ Free(channel)
    BY <2>2 DEF Owns, Put, Free
  <2>3. CASE Bug /\ UNCHANGED <<count, map>>
    BY <2>3 DEF Bug
  <2> QED BY <1>19, <2>1, <2>2, <2>3 DEF Tasklet, Abort, Complete, StopAtOnce
<1>20. CASE Remove \/ Insert
  BY <1>20 DEF Remove, Insert, thread, ifcVars
<1>21. CASE OtherStarts \/ OtherStops
  BY <1>21 DEF OtherStarts, OtherStops, thread, GetCh, Take, Get, Put, Free, ifcVars
<1> QED
  BY <1>0, <1>1, <1>2, <1>3, <1>4, <1>5, <1>6, <1>7, <1>8, <1>9, <1>10, <1>11, <1>12, <1>13, <1>14, <1>15, <1>16, <1>17, <1>18, <1>19, <1>20, <1>21
     DEF Next, Thread

\* So do the places and the channels of the thread,
LEMMA StepThread == ThreadOK /\ [Next]_vars => ThreadOK'
<1> SUFFICES ASSUME ThreadOK, [Next]_vars PROVE ThreadOK'
  OBVIOUS
<1> USE IfcAssumption, MmcAssumption DEF ThreadOK, Pcs
<1>0. CASE UNCHANGED vars
  BY <1>0 DEF vars, ifcVars, thread, irq, slot, ghost
<1>1. ASSUME NEW d \in Directions, NEW n \in Parts, Request(d, n) PROVE ThreadOK'
  BY <1>1 DEF Request, NoRequestYet
<1>2. CASE Choose
  BY <1>2 DEF Choose
<1>3. CASE StartTransfer
  BY <1>3 DEF StartTransfer
<1>4. CASE StartRefused
  BY <1>4 DEF StartRefused
<1>5. CASE InitCompletion \/ SendCommand \/ CommandDone
  BY <1>5 DEF InitCompletion, SendCommand, CommandDone
<1>6. CASE CommandFails
  BY <1>6 DEF CommandFails
<1>7. CASE Wake
  BY <1>7 DEF Wake
<1>8. CASE Expire
  BY <1>8 DEF Expire
<1>9. CASE Expired
  BY <1>9 DEF Expired
<1>10. CASE Stop
  BY <1>10 DEF Stop
<1>11. CASE StopNothing
  BY <1>11 DEF StopNothing
<1>12. CASE StopRelease
  BY <1>12 DEF StopRelease
<1>13. CASE StopCommand
  BY <1>13 DEF StopCommand
<1>14. CASE Judge
  BY <1>14 DEF Judge
<1>15. CASE PartEnds
  BY <1>15 DEF PartEnds
<1>16. CASE RequestEnds
  BY <1>16 DEF RequestEnds
<1>17. ASSUME NEW e \in {"good", "short", "badcrc", "error"}, Irq(e) PROVE ThreadOK'
  BY <1>17 DEF Irq, thread
<1>18. CASE Silence
  BY <1>18 DEF Silence, thread
<1>19. CASE Tasklet
  BY <1>19 DEF Tasklet, Abort, Complete, StopAtOnce
<1>20. CASE Remove \/ Insert
  BY <1>20 DEF Remove, Insert, thread
<1>21. CASE OtherStarts \/ OtherStops
  BY <1>21 DEF OtherStarts, OtherStops, thread
<1> QED
  BY <1>0, <1>1, <1>2, <1>3, <1>4, <1>5, <1>6, <1>7, <1>8, <1>9, <1>10, <1>11, <1>12, <1>13, <1>14, <1>15, <1>16, <1>17, <1>18, <1>19, <1>20, <1>21
     DEF Next, Thread

\* the flags
LEMMA StepFlags == FlagsOK /\ [Next]_vars => FlagsOK'
<1> SUFFICES ASSUME FlagsOK, [Next]_vars PROVE FlagsOK'
  OBVIOUS
<1> USE IfcAssumption, MmcAssumption DEF FlagsOK
<1>0. CASE UNCHANGED vars
  BY <1>0 DEF vars, ifcVars, thread, irq, slot, ghost
<1>1. ASSUME NEW d \in Directions, NEW n \in Parts, Request(d, n) PROVE FlagsOK'
  BY <1>1 DEF Request, NoRequestYet, irq, slot, ghost
<1>2. CASE Choose
  BY <1>2 DEF Choose, irq, slot, ghost
<1>3. CASE StartTransfer
  BY <1>3 DEF StartTransfer, irq, slot, ghost
<1>4. CASE StartRefused
  BY <1>4 DEF StartRefused, irq, slot, ghost
<1>5. CASE InitCompletion \/ SendCommand \/ CommandDone
  BY <1>5 DEF InitCompletion, SendCommand, CommandDone, irq, slot, ghost
<1>6. CASE CommandFails
  BY <1>6 DEF CommandFails, irq, slot, ghost
<1>7. CASE Wake
  BY <1>7 DEF Wake, irq, slot, ghost
<1>8. CASE Expire
  BY <1>8 DEF Expire, irq, slot, ghost
<1>9. CASE Expired
  BY <1>9 DEF Expired, irq, slot, ghost
<1>10. CASE Stop
  BY <1>10 DEF Stop, Stopped, irq, slot, ghost
<1>11. CASE StopNothing
  BY <1>11 DEF StopNothing, Stopped, irq, slot, ghost
<1>12. CASE StopRelease
  BY <1>12 DEF StopRelease, irq, slot, ghost
<1>13. CASE StopCommand
  BY <1>13 DEF StopCommand, irq, slot, ghost
<1>14. CASE Judge
  BY <1>14 DEF Judge, irq, slot, ghost
<1>15. CASE PartEnds
  BY <1>15 DEF PartEnds, irq, slot, ghost
<1>16. CASE RequestEnds
  BY <1>16 DEF RequestEnds, irq, slot, ghost
<1>17. ASSUME NEW e \in {"good", "short", "badcrc", "error"}, Irq(e) PROVE FlagsOK'
  BY <1>17 DEF Irq, thread, irq, slot, ghost
<1>18. CASE Silence
  BY <1>18 DEF Silence, thread, irq, slot, ghost
<1>19. CASE Tasklet
  BY <1>19 DEF Tasklet, irq, slot, ghost
<1>20. CASE Remove \/ Insert
  BY <1>20 DEF Remove, Insert, thread, irq, slot, ghost
<1>21. CASE OtherStarts \/ OtherStops
  BY <1>21 DEF OtherStarts, OtherStops, thread, irq, slot, ghost
<1> QED
  BY <1>0, <1>1, <1>2, <1>3, <1>4, <1>5, <1>6, <1>7, <1>8, <1>9, <1>10, <1>11, <1>12, <1>13, <1>14, <1>15, <1>16, <1>17, <1>18, <1>19, <1>20, <1>21
     DEF Next, Thread

\* and the counters.
LEMMA StepCounts == CountsOK /\ [Next]_vars => CountsOK'
<1> SUFFICES ASSUME CountsOK, [Next]_vars PROVE CountsOK'
  OBVIOUS
<1> USE IfcAssumption, MmcAssumption DEF CountsOK
<1>0. CASE UNCHANGED vars
  BY <1>0 DEF vars, ifcVars, thread, irq, slot, ghost
<1>1. ASSUME NEW d \in Directions, NEW n \in Parts, Request(d, n) PROVE CountsOK'
  <2>1. n \in 0 .. 2 /\ requests < MaxRequests
    BY <1>1 DEF Request
  <2> QED BY <1>1, <2>1 DEF Request
<1>2. CASE Choose
  BY <1>2 DEF Choose, irq, slot, ghost
<1>3. CASE StartTransfer
  BY <1>3 DEF StartTransfer, irq, slot, ghost
<1>4. CASE StartRefused
  BY <1>4 DEF StartRefused, irq, slot, ghost
<1>5. CASE InitCompletion \/ SendCommand \/ CommandDone
  BY <1>5 DEF InitCompletion, SendCommand, CommandDone, irq, slot, ghost
<1>6. CASE CommandFails
  BY <1>6 DEF CommandFails, irq, slot, ghost
<1>7. CASE Wake
  BY <1>7 DEF Wake, irq, slot, ghost
<1>8. CASE Expire
  BY <1>8 DEF Expire, irq, slot, ghost
<1>9. CASE Expired
  BY <1>9 DEF Expired, irq, slot, ghost
<1>10. CASE Stop
  BY <1>10 DEF Stop, irq, slot, ghost
<1>11. CASE StopNothing
  BY <1>11 DEF StopNothing, irq, slot, ghost
<1>12. CASE StopRelease
  BY <1>12 DEF StopRelease, irq, slot, ghost
<1>13. CASE StopCommand
  BY <1>13 DEF StopCommand, irq, slot, ghost
<1>14. CASE Judge
  BY <1>14 DEF Judge, irq, slot, ghost
<1>15. CASE PartEnds
  BY <1>15 DEF PartEnds, irq, slot, ghost
<1>16. CASE RequestEnds
  BY <1>16 DEF RequestEnds, irq, slot, ghost
<1>17. ASSUME NEW e \in {"good", "short", "badcrc", "error"}, Irq(e) PROVE CountsOK'
  BY <1>17 DEF Irq, thread, irq, slot, ghost
<1>18. CASE Silence
  BY <1>18 DEF Silence, thread, irq, slot, ghost
<1>19. CASE Tasklet
  BY <1>19 DEF Tasklet, irq, slot, ghost
<1>20. CASE Remove \/ Insert
  BY <1>20 DEF Remove, Insert, thread, irq, slot, ghost
<1>21. CASE OtherStarts \/ OtherStops
  BY <1>21 DEF OtherStarts, OtherStops, thread, irq, slot, ghost
<1> QED
  BY <1>0, <1>1, <1>2, <1>3, <1>4, <1>5, <1>6, <1>7, <1>8, <1>9, <1>10, <1>11, <1>12, <1>13, <1>14, <1>15, <1>16, <1>17, <1>18, <1>19, <1>20, <1>21
     DEF Next, Thread

LEMMA StepTypes == TypeOK /\ PartsLeft /\ [Next]_vars => TypeOK' /\ PartsLeft'
<1>1. TypeOK' <=> IfcTypeOK' /\ RequestOK' /\ ThreadOK' /\ FlagsOK' /\ CountsOK'
  BY DEF TypeOK, RequestOK, RequestSet, ThreadOK, FlagsOK, CountsOK
<1> QED BY <1>1, TypeParts, StepRequest, StepIfc, StepThread, StepFlags, StepCounts

LEMMA InitTypes == Init => TypeOK /\ PartsLeft
<1> SUFFICES ASSUME Init PROVE TypeOK /\ PartsLeft
  OBVIOUS
<1> USE IfcAssumption, MmcAssumption DEF Init
<1>1. IfcTypeOK
  BY DEF IfcInit, IfcTypeOK
<1>2. RequestOK /\ PartsLeft
  BY DEF NoRequestYet, RequestOK, RequestSet, PartsLeft, InTransfer
<1>3. ThreadOK
  BY DEF ThreadOK, Pcs
<1>4. FlagsOK
  BY DEF FlagsOK
<1>5. CountsOK
  BY DEF CountsOK
<1> QED BY <1>1, <1>2, <1>3, <1>4, <1>5, TypeParts

\* Every variable of the host, its interrupts and the IFC keeps its type.
THEOREM TypeCorrect == Spec => []TypeOK
BY InitTypes, StepTypes, PTL DEF Spec

-----------------------------------------------------------------------------
(* Results and errors, which need no hypothesis either. *)

\* Every error has its cause.
LEMMA StepCauses == TypeOK /\ Causes /\ [Next]_vars => Causes'
<1> SUFFICES ASSUME TypeOK, Causes, [Next]_vars PROVE Causes'
  OBVIOUS
<1> USE IfcAssumption, MmcAssumption DEF Causes, Error, RequestOK, RequestSet, ThreadOK, FlagsOK, CountsOK
<1>t. RequestOK /\ ThreadOK /\ FlagsOK /\ CountsOK
  BY TypeParts
<1>0. CASE UNCHANGED vars
  BY <1>0, <1>t DEF vars, ifcVars, thread, irq, slot, ghost
<1>1. ASSUME NEW d \in Directions, NEW n \in Parts, ~tasklet, Request(d, n) PROVE Causes'
  BY <1>1, <1>t DEF Request, NoRequestYet, irq
<1>2. CASE Choose
  BY <1>2, <1>t DEF Choose, irq, slot, ghost
<1>3. CASE StartTransfer
  BY <1>3, <1>t DEF StartTransfer, irq, slot, ghost
<1>4. CASE StartRefused
  BY <1>4, <1>t DEF StartRefused, irq, slot
<1>5. CASE ~tasklet /\ InitCompletion
  BY <1>5, <1>t DEF InitCompletion, irq, slot, ghost
<1>6. CASE ~tasklet /\ SendCommand
  BY <1>6, <1>t DEF SendCommand, irq, slot, ghost
<1>7. CASE ~tasklet /\ CommandDone
  BY <1>7, <1>t DEF CommandDone, irq, slot, ghost
<1>8. CASE ~tasklet /\ CommandFails
  BY <1>8, <1>t DEF CommandFails, irq, slot, ghost
<1>9. CASE ~tasklet /\ Wake
  BY <1>9, <1>t DEF Wake, irq, slot, ghost
<1>10. CASE ~tasklet /\ Expire
  BY <1>10, <1>t DEF Expire, irq, slot, ghost
<1>11. CASE ~tasklet /\ Expired
  BY <1>11, <1>t DEF Expired, irq, slot, ghost
<1>12. CASE ~tasklet /\ Stop
  BY <1>12, <1>t DEF Stop, Stopped, irq, slot, ghost
<1>13. CASE ~tasklet /\ StopNothing
  BY <1>13, <1>t DEF StopNothing, Stopped, irq, slot, ghost
<1>14. CASE ~tasklet /\ StopRelease
  BY <1>14, <1>t DEF StopRelease, irq, slot, ghost
<1>15. CASE ~tasklet /\ StopCommand
  BY <1>15, <1>t DEF StopCommand, irq, slot, ghost
<1>16. CASE ~tasklet /\ Judge
  BY <1>16, <1>t DEF Judge, irq, slot, ghost
<1>17. CASE ~tasklet /\ PartEnds
  BY <1>17, <1>t DEF PartEnds, irq, slot, ghost
<1>18. CASE ~tasklet /\ RequestEnds
  BY <1>18, <1>t DEF RequestEnds, irq, slot, ghost
<1>19. ASSUME NEW e \in {"good", "short", "badcrc", "error"}, Irq(e) PROVE Causes'
  BY <1>19, <1>t DEF Irq, thread, slot
<1>20. CASE Silence
  BY <1>20, <1>t DEF Silence, thread, irq, slot, ghost
<1>21. CASE Tasklet
  BY <1>21, <1>t DEF Tasklet, Abort, Complete, StopAtOnce, slot, ghost
<1>22. CASE Remove
  BY <1>22, <1>t DEF Remove, thread, irq
<1>23. CASE Insert
  BY <1>23, <1>t DEF Insert, Unseen, thread, irq, ghost
<1>24. CASE OtherStarts \/ OtherStops
  BY <1>24, <1>t DEF OtherStarts, OtherStops, thread, irq, slot, ghost
<1> QED
  BY <1>0, <1>1, <1>2, <1>3, <1>4, <1>5, <1>6, <1>7, <1>8, <1>9, <1>10, <1>11, <1>12, <1>13, <1>14, <1>15, <1>16, <1>17, <1>18, <1>19, <1>20, <1>21, <1>22, <1>23, <1>24
     DEF Next, Thread

\* A request that is about to be reported has a result.
LEMMA StepResults == TypeOK /\ Results /\ [Next]_vars => Results'
<1> SUFFICES ASSUME TypeOK, Results, [Next]_vars PROVE Results'
  OBVIOUS
<1> USE IfcAssumption, MmcAssumption DEF Results, RequestOK, RequestSet, ThreadOK, FlagsOK, CountsOK
<1>t. RequestOK /\ ThreadOK /\ FlagsOK /\ CountsOK
  BY TypeParts
<1>0. CASE UNCHANGED vars
  BY <1>0, <1>t DEF vars, ifcVars, thread, irq, slot, ghost
<1>1. ASSUME NEW d \in Directions, NEW n \in Parts, Request(d, n) PROVE Results'
  BY <1>1, <1>t DEF Request, NoRequestYet, irq
<1>2. CASE Choose
  BY <1>2, <1>t DEF Choose, irq, slot, ghost
<1>3. CASE StartTransfer
  BY <1>3, <1>t DEF StartTransfer, irq, slot, ghost
<1>4. CASE StartRefused
  BY <1>4, <1>t DEF StartRefused, irq, slot
<1>5. CASE ~tasklet /\ InitCompletion
  BY <1>5, <1>t DEF InitCompletion, irq, slot, ghost
<1>6. CASE ~tasklet /\ SendCommand
  BY <1>6, <1>t DEF SendCommand, irq, slot, ghost
<1>7. CASE ~tasklet /\ CommandDone
  BY <1>7, <1>t DEF CommandDone, irq, slot, ghost
<1>8. CASE ~tasklet /\ CommandFails
  BY <1>8, <1>t DEF CommandFails, irq, slot, ghost
<1>9. CASE ~tasklet /\ Wake
  BY <1>9, <1>t DEF Wake, irq, slot, ghost
<1>10. CASE ~tasklet /\ Expire
  BY <1>10, <1>t DEF Expire, irq, slot, ghost
<1>11. CASE ~tasklet /\ Expired
  BY <1>11, <1>t DEF Expired, irq, slot, ghost
<1>12. CASE ~tasklet /\ Stop
  BY <1>12, <1>t DEF Stop, Stopped, irq, slot, ghost
<1>13. CASE ~tasklet /\ StopNothing
  BY <1>13, <1>t DEF StopNothing, Stopped, irq, slot, ghost
<1>14. CASE ~tasklet /\ StopRelease
  BY <1>14, <1>t DEF StopRelease, irq, slot, ghost
<1>15. CASE ~tasklet /\ StopCommand
  BY <1>15, <1>t DEF StopCommand, irq, slot, ghost
<1>16. CASE ~tasklet /\ Judge
  BY <1>16, <1>t DEF Judge, irq, slot, ghost
<1>17. CASE ~tasklet /\ PartEnds
  BY <1>17, <1>t DEF PartEnds, irq, slot, ghost
<1>18. CASE ~tasklet /\ RequestEnds
  BY <1>18, <1>t DEF RequestEnds, irq, slot, ghost
<1>19. ASSUME NEW e \in {"good", "short", "badcrc", "error"}, Irq(e) PROVE Results'
  BY <1>19, <1>t DEF Irq, thread, slot
<1>20. CASE Silence
  BY <1>20, <1>t DEF Silence, thread, irq, slot, ghost
<1>21. CASE Tasklet
  BY <1>21, <1>t DEF Tasklet, Abort, Complete, StopAtOnce, slot, ghost
<1>22. CASE Remove
  BY <1>22, <1>t DEF Remove, thread, irq
<1>23. CASE Insert
  BY <1>23, <1>t DEF Insert, Unseen, thread, irq, ghost
<1>24. CASE OtherStarts \/ OtherStops
  BY <1>24, <1>t DEF OtherStarts, OtherStops, thread, irq, slot, ghost
<1> QED
  BY <1>0, <1>1, <1>2, <1>3, <1>4, <1>5, <1>6, <1>7, <1>8, <1>9, <1>10, <1>11, <1>12, <1>13, <1>14, <1>15, <1>16, <1>17, <1>18, <1>19, <1>20, <1>21, <1>22, <1>23, <1>24
     DEF Next, Thread

\* A request reported with an error had something go wrong while it was under
\* way (rda_mmc.c:526): no flag of an earlier request reaches it.  (On a controller
\* that is late, its interrupt for an earlier request is such a thing.)
THEOREM ErrorsHaveCauses == Spec => []ErrorsExplained
<1>1. Init => Causes
  BY DEF Init, Causes, Error, NoRequestYet
<1>2. Causes => ErrorsExplained
  BY DEF Causes, ErrorsExplained
<1> QED BY <1>1, <1>2, TypeCorrect, StepCauses, PTL DEF Spec

\* No request comes to its end with neither a result nor an error, where
\* rda_mmc_request would return without mmc_request_done (rda_mmc.c:934).
THEOREM NeverUnreported == Spec => [](pc # "lost")
<1>1. Init => Results
  BY DEF Init, Results, NoRequestYet
<1>2. Results => pc # "lost"
  BY DEF Results
<1> QED BY <1>1, <1>2, TypeCorrect, StepResults, PTL DEF Spec

-----------------------------------------------------------------------------
(* Who has which channel.                                                  *)

\* What leaves the IFC, the channel of the host and the place of the thread
\* alone, leaves the ownership alone.
LEMMA OwnershipElsewhere ==
    ASSUME Ownership, UNCHANGED <<ifcVars, channel>>,
           \/ UNCHANGED <<pc, arg>>
           \/ pc \notin {"take", "release"} /\ pc' \notin {"take", "release"}
    PROVE  Ownership'
BY DEF Ownership, Held, ifcVars

LEMMA StepOwnership ==
    TypeOK /\ Ownership /\ Loose /\ ~ Doomed /\ [Next]_vars
      => Ownership' \/ (Astray /\ Doomed' /\ (failed' => pc = "expired"))
<1> SUFFICES ASSUME TypeOK, Ownership, Loose, ~ Doomed, [Next]_vars
             PROVE  Ownership' \/ (Astray /\ Doomed' /\ (failed' => pc = "expired"))
  OBVIOUS
<1> USE IfcAssumption, MmcAssumption
<1>t. IfcTypeOK /\ ThreadOK /\ FlagsOK
  BY TypeParts
<1>0. CASE UNCHANGED vars
  BY <1>0, OwnershipElsewhere DEF vars, thread
<1>1. ASSUME NEW d \in Directions, NEW n \in Parts, Request(d, n) PROVE Ownership'
  BY <1>1, OwnershipElsewhere DEF Request
<1>2. CASE Choose
  <2>1. pc = "choose" /\ pc' = "take" /\ channel = NoChannel /\ UNCHANGED <<owner, count, map, failed, channel>>
    BY <1>2 DEF Choose, Loose, Moving
  <2>2. PICK c \in Channels \cup {NoChannel} : GetCh(c) /\ arg' = c
    BY <1>2 DEF Choose
  <2> QED BY <2>1, <2>2, <1>t DEF Ownership, Held, GetCh, IfcTypeOK
<1>3. CASE StartTransfer
  <2>1. /\ pc = "take" /\ pc' = "init" /\ arg \in Channels /\ channel' = arg
        /\ channel = NoChannel /\ taken' = taken
    BY <1>3, <1>t DEF StartTransfer, Loose, Moving, ThreadOK
  <2>2. arg \notin map /\ count[arg] = 0 /\ owner[arg] = NoRequest /\ arg \in taken
    BY <2>1 DEF Ownership
  <2>3. /\ owner' = [owner EXCEPT ![arg] = Host] /\ failed' = failed
        /\ count' = [count EXCEPT ![arg] = 1] /\ map' = map \cup {arg}
    BY <1>3, <1>t, <2>1, <2>2 DEF StartTransfer, Take, Get, IfcTypeOK
  <2> QED BY <2>1, <2>2, <2>3, <1>t DEF Ownership, Held, IfcTypeOK
<1>4. CASE StartRefused
  <2>1. /\ pc = "take" /\ pc' = "end" /\ arg = NoChannel /\ channel' = channel
        /\ channel = NoChannel /\ UNCHANGED ifcVars
    BY <1>4, <1>t DEF StartRefused, Loose, Moving, ThreadOK
  <2> QED BY <2>1 DEF Ownership, Held, ifcVars
<1>5. CASE InitCompletion \/ SendCommand \/ CommandDone \/ CommandFails
  BY <1>5, OwnershipElsewhere DEF InitCompletion, SendCommand, CommandDone, CommandFails
<1>6. CASE Wake \/ Expire
  BY <1>6, OwnershipElsewhere DEF Wake, Expire
<1>7. CASE Expired
  <2>1. pc = "expired" /\ pc' = "stop" /\ channel' = channel
    BY <1>7 DEF Expired
  <2>2. CASE channel = NoChannel
    <3>1. ~ Owns(Host, channel) /\ Astray
      BY <2>1, <2>2 DEF Owns, Astray
    <3>2. failed'
      BY <1>7, <3>1 DEF Expired, Bug
    <3> QED BY <2>1, <3>1, <3>2 DEF Doomed
  <2>3. CASE channel # NoChannel
    <3>1. Owns(Host, channel)
      BY <2>1, <2>3, <1>t DEF Ownership, Owns, Held, ThreadOK
    <3> QED BY <1>7, <2>1, <3>1, OwnershipElsewhere DEF Expired
  <2> QED BY <2>2, <2>3
<1>8. CASE Stop
  <2>1. pc = "stop" /\ pc' = "release" /\ channel \in Channels /\ channel' = channel /\ arg' = channel
    BY <1>8, <1>t DEF Stop, ThreadOK
  <2>2. Owns(Host, channel)
    BY <2>1 DEF Ownership, Owns, Held
  <2>3. Put(channel) /\ UNCHANGED <<owner, taken, failed>>
    BY <1>8, <2>2 DEF Stop
  <2>4. channel \in map /\ count[channel] = 1
    BY <2>1 DEF Ownership
  <2>5. map' = map \ {channel} /\ count' = [count EXCEPT ![channel] = 0]
    BY <1>t, <2>3, <2>4 DEF Put, IfcTypeOK
  <2>6. owner[channel] = Host
    BY <2>2 DEF Owns
  <2> QED BY <2>1, <2>3, <2>4, <2>5, <2>6, <1>t DEF Ownership, Held, IfcTypeOK
<1>9. CASE StopNothing
  <2>1. pc = "stop" /\ pc' \in {"end", "stopcmd", "part"} /\ UNCHANGED <<ifcVars, channel>>
    BY <1>9, <1>t DEF StopNothing, ThreadOK
  <2> QED BY <2>1, OwnershipElsewhere
<1>10. CASE StopRelease
  <2>1. /\ pc = "release" /\ pc' \in {"end", "stopcmd", "part"} /\ channel' = NoChannel
        /\ UNCHANGED <<count, map>>
    BY <1>10, <1>t DEF StopRelease, ThreadOK
  <2>2. Owns(Host, arg) /\ arg \in Channels
    BY <2>1 DEF Doomed, Owns
  <2>3. /\ owner' = [owner EXCEPT ![arg] = NoRequest] /\ taken' = taken \ {arg}
        /\ failed' = failed
    BY <1>10, <2>2 DEF StopRelease, Free
  <2> QED BY <2>1, <2>2, <2>3, <1>t DEF Ownership, Held, Owns, IfcTypeOK
<1>11. CASE StopCommand \/ Judge \/ PartEnds \/ RequestEnds
  BY <1>11, OwnershipElsewhere DEF StopCommand, Judge, PartEnds, RequestEnds
<1>12. ASSUME NEW e \in {"good", "short", "badcrc", "error"}, Irq(e) PROVE Ownership'
  BY <1>12, OwnershipElsewhere DEF Irq, thread
<1>13. CASE Silence \/ Remove \/ Insert
  BY <1>13, OwnershipElsewhere DEF Silence, Remove, Insert, thread
<1>14. CASE Tasklet
  <2>1. UNCHANGED <<pc, arg>> /\ tasklet /\ channel \in Channels \cup {NoChannel}
    BY <1>14, <1>t DEF Tasklet, ThreadOK
  <2>2. CASE channel = NoChannel
    <3>1. UNCHANGED <<ifcVars, channel>>
      BY <1>14, <2>2 DEF Tasklet, Abort, Complete
    <3> QED BY <2>1, <3>1, OwnershipElsewhere
  <2>3. CASE channel \in Channels
    <3>1. hasData /\ channel # NoChannel /\ pc # "take" /\ (pc = "release" => arg = channel)
      BY <2>3 DEF Loose, Moving
    <3>2. Owns(Host, channel) /\ owner[channel] = Host
      BY <2>3, <3>1 DEF Ownership, Owns, Held
    <3>3. Put(channel) /\ Free(channel) /\ channel' = NoChannel
      BY <1>14, <3>1, <3>2 DEF Tasklet, Abort, Complete, StopAtOnce
    <3>4. owner' = [owner EXCEPT ![channel] = NoRequest] /\ taken' = taken \ {channel} /\ failed' = failed
      BY <3>3 DEF Free
    <3>5. CASE pc = "release"
      <4>1. owner'[channel] = NoRequest /\ arg' = channel
        BY <1>t, <2>1, <2>3, <3>1, <3>4, <3>5 DEF IfcTypeOK
      <4>2. ~failed'
        BY <3>4 DEF Ownership
      <4> QED BY <2>1, <3>5, <4>1, <4>2 DEF Doomed, Astray, Owns
    <3>6. CASE pc # "release"
      <4>1. channel \in map /\ count[channel] = 1
        BY <2>3, <3>6 DEF Ownership
      <4>2. map' = map \ {channel} /\ count' = [count EXCEPT ![channel] = 0]
        BY <1>t, <3>3, <4>1 DEF Put, IfcTypeOK
      <4> QED
        BY <2>1, <2>3, <3>1, <3>2, <3>3, <3>4, <3>6, <4>1, <4>2, <1>t DEF Ownership, Held, IfcTypeOK
    <3> QED BY <3>5, <3>6
  <2> QED BY <2>1, <2>2, <2>3
<1>15. CASE OtherStarts
  <2>1. PICK c \in Channels : GetCh(c) /\ Take(Other, c)
    BY <1>15 DEF OtherStarts
  <2>2. c \notin taken /\ taken' = taken \cup {c} /\ UNCHANGED <<pc, arg, channel>>
    BY <1>15, <2>1, <1>t DEF OtherStarts, GetCh, thread, IfcTypeOK
  <2>3. owner[c] = NoRequest /\ c # Held /\ (pc = "take" => arg # c)
    BY <2>2 DEF Ownership
  <2>4. c \notin map /\ count[c] = 0
    BY <2>3 DEF Ownership, Held
  <2>5. /\ owner' = [owner EXCEPT ![c] = Other] /\ failed' = failed
        /\ count' = [count EXCEPT ![c] = 1] /\ map' = map \cup {c}
    BY <1>t, <2>1, <2>4 DEF Take, Get, IfcTypeOK
  <2> QED BY <2>2, <2>3, <2>4, <2>5, <1>t DEF Ownership, Held, IfcTypeOK
<1>16. CASE OtherStops
  <2>1. PICK c \in Channels : owner[c] = Other /\ Put(c) /\ Free(c)
    BY <1>16 DEF OtherStops
  <2>2. UNCHANGED <<pc, arg, channel>> /\ c # Held /\ (pc = "take" => arg # c)
    BY <1>16, <2>1 DEF OtherStops, thread, Ownership
  <2>3. c \in map /\ count[c] = 1 /\ (pc = "release" \/ c # channel)
    BY <2>1, <2>2 DEF Ownership, Held
  <2>4. /\ owner' = [owner EXCEPT ![c] = NoRequest] /\ taken' = taken \ {c}
        /\ failed' = failed
        /\ count' = [count EXCEPT ![c] = 0] /\ map' = map \ {c}
    BY <1>t, <2>1, <2>3 DEF Put, Free, IfcTypeOK
  <2> QED BY <2>1, <2>2, <2>3, <2>4, <1>t DEF Ownership, Held, IfcTypeOK
<1> QED
  BY <1>0, <1>1, <1>2, <1>3, <1>4, <1>5, <1>6, <1>7, <1>8, <1>9, <1>10, <1>11,
     <1>12, <1>13, <1>14, <1>15, <1>16 DEF Next, Thread

-----------------------------------------------------------------------------
(* From here on no card has bounced yet. *)

\* No step takes a bounce back.
LEMMA BouncedStays == [Next]_vars /\ bounced => bounced'
BY DEF Next, Thread, Request, Choose, StartTransfer, StartRefused, InitCompletion,
       SendCommand, CommandDone, CommandFails, Wake, Expire, Expired, Stop, StopNothing,
       StopRelease, StopCommand, Judge, PartEnds, RequestEnds, Irq, Silence, Tasklet,
       Remove, Insert, OtherStarts, OtherStops, ghost, vars

\* The thread and the tasklet, whenever an interrupt comes.
LEMMA StepLoose == TypeOK /\ Results /\ Loose /\ [Next]_vars /\ ~bounced' => Loose'
<1> SUFFICES ASSUME TypeOK, Results, Loose, [Next]_vars, ~bounced' PROVE Loose'
  OBVIOUS
<1> USE IfcAssumption, MmcAssumption DEF Loose, Moving, RequestOK, RequestSet, ThreadOK, FlagsOK, CountsOK
<1>t. RequestOK /\ ThreadOK /\ FlagsOK /\ CountsOK
  BY TypeParts
<1>0. CASE UNCHANGED vars
  BY <1>0, <1>t DEF vars, ifcVars, thread, irq, slot, ghost
<1>1. ASSUME NEW d \in Directions, NEW m \in Parts, Request(d, m) PROVE Loose'
  BY <1>1, <1>t DEF Request, NoRequestYet, irq
<1>2. CASE Choose \/ StartTransfer \/ StartRefused
  BY <1>2, <1>t DEF Choose, StartTransfer, StartRefused, irq, slot, ghost
<1>3. CASE InitCompletion \/ SendCommand \/ CommandDone \/ CommandFails
  BY <1>3, <1>t DEF InitCompletion, SendCommand, CommandDone, CommandFails, irq, slot, ghost
<1>4. CASE Wake \/ Expire \/ Expired
  BY <1>4, <1>t DEF Wake, Expire, Expired, irq, slot, ghost
<1>5. CASE Stop \/ StopNothing \/ StopRelease \/ StopCommand
  BY <1>5, <1>t DEF Stop, StopNothing, StopRelease, StopCommand, irq, slot, ghost
<1>6. CASE Judge \/ PartEnds \/ RequestEnds
  BY <1>6, <1>t DEF Results, Judge, PartEnds, RequestEnds, irq, slot, ghost
<1>7. ASSUME NEW e \in {"good", "short", "badcrc", "error"}, Irq(e) PROVE Loose'
  BY <1>7, <1>t DEF Irq, thread, slot
<1>8. CASE Silence \/ Remove \/ Insert
  BY <1>8, <1>t DEF Silence, Remove, Insert, Unseen, thread, irq, slot, ghost
<1>9. CASE Tasklet
  <2>1. channel' = NoChannel /\ UNCHANGED <<pc, arg, hasData>>
    BY <1>9, <1>t DEF Tasklet, Abort, Complete, StopAtOnce
  <2> QED BY <2>1, <1>t
<1>10. CASE OtherStarts \/ OtherStops
  BY <1>10, <1>t DEF OtherStarts, OtherStops, thread, irq, slot, ghost
<1> QED
  BY <1>0, <1>1, <1>2, <1>3, <1>4, <1>5, <1>6, <1>7, <1>8, <1>9, <1>10 DEF Next, Thread

\* There is no way back: nobody but the thread makes the host an owner again.
LEMMA StepDoomed == TypeOK /\ Loose /\ Doomed /\ [Next]_vars => Doomed'
<1> SUFFICES ASSUME TypeOK, Loose, Doomed, [Next]_vars PROVE Doomed'
  OBVIOUS
<1> USE IfcAssumption, MmcAssumption
<1>t. IfcTypeOK /\ ThreadOK
  BY TypeParts
<1>1. CASE UNCHANGED vars
  BY <1>1 DEF vars, ifcVars, thread, Doomed, Owns
<1>2. ASSUME Next PROVE Doomed'
  <2>1. pc = "release" /\ ~ Owns(Host, arg) /\ ~failed
    BY <1>2 DEF Next, Doomed
  <2>2. CASE Thread
    <3>1. StopRelease
      BY <2>1, <2>2 DEF Thread, Request, Choose, StartTransfer, StartRefused, InitCompletion,
           SendCommand, CommandDone, CommandFails, Wake, Expire, Expired, Stop, StopNothing,
           StopCommand, Judge, PartEnds, RequestEnds
    <3>2. failed' /\ pc' = after /\ after \in {"end", "stopcmd", "part"}
      BY <1>t, <2>1, <3>1 DEF StopRelease, Bug, ThreadOK
    <3> QED BY <3>2 DEF Doomed
  <2>3. ASSUME UNCHANGED <<pc, arg>>, \A c \in Channels : owner'[c] = Host => owner[c] = Host
        PROVE  Doomed'
    BY <2>1, <2>3 DEF Doomed, Owns
  <2>4. ASSUME NEW e \in {"good", "short", "badcrc", "error"}, Irq(e) PROVE Doomed'
    BY <2>3, <2>4 DEF Irq, thread, ifcVars
  <2>5. CASE Silence \/ Remove \/ Insert
    BY <2>3, <2>5 DEF Silence, Remove, Insert, thread, ifcVars
  <2>6. CASE Tasklet
    <3>1. UNCHANGED <<pc, arg>>
      BY <2>6 DEF Tasklet
    <3>2. owner' = owner \/ owner' = [owner EXCEPT ![channel] = NoRequest]
      BY <2>6 DEF Tasklet, Abort, Complete, StopAtOnce, Free, Bug, ifcVars
    <3>3. \A c \in Channels : owner'[c] = Host => owner[c] = Host
      BY <1>t, <3>2 DEF IfcTypeOK
    <3> QED BY <2>3, <3>1, <3>3
  <2>7. CASE OtherStarts
    <3>1. UNCHANGED <<pc, arg>> /\ \E c \in Channels : owner' = [owner EXCEPT ![c] = Other]
      BY <2>7 DEF OtherStarts, thread, Take
    <3>2. \A c \in Channels : owner'[c] = Host => owner[c] = Host
      BY <1>t, <3>1 DEF IfcTypeOK
    <3> QED BY <2>3, <3>1, <3>2
  <2>8. CASE OtherStops
    <3>1. UNCHANGED <<pc, arg>> /\ \E c \in Channels : owner' = [owner EXCEPT ![c] = NoRequest]
      BY <2>8 DEF OtherStops, thread, Free
    <3>2. \A c \in Channels : owner'[c] = Host => owner[c] = Host
      BY <1>t, <3>1 DEF IfcTypeOK
    <3> QED BY <2>3, <3>1, <3>2
  <2> QED BY <1>2, <2>2, <2>4, <2>5, <2>6, <2>7, <2>8 DEF Next
<1> QED BY <1>1, <1>2

KeptInv ==
    /\ TypeOK /\ PartsLeft /\ Results
    /\ bounced \/ (Loose /\ (Ownership \/ Doomed))

LEMMA InitKept == Init => KeptInv
<1> SUFFICES ASSUME Init PROVE Loose /\ Ownership /\ Results
  BY InitTypes DEF KeptInv
<1>1. Results
  BY DEF Init, Results, NoRequestYet
<1> QED BY <1>1, IfcAssumption, MmcAssumption DEF Init, IfcInit, Loose, Moving, Ownership, Held

LEMMA StepKept == KeptInv /\ [Next]_vars => KeptInv'
BY StepTypes, StepResults, BouncedStays, StepLoose, StepOwnership, StepDoomed DEF KeptInv

\* However a request ended, the host has given back its channel and withdrawn
\* its vote for bandwidth before the next one (rda_mmc.c:320-346) - even on a
\* controller that interrupts late, if only that does not stop the kernel, and
\* even after removals, until a card bounces.
THEOREM NothingIsKept == Spec => []IdleHoldsNothing
<1>1. KeptInv => IdleHoldsNothing
  <2> SUFFICES ASSUME KeptInv, pc = "idle", ~bounced
               PROVE  /\ channel = NoChannel
                      /\ taken = {c \in Channels : owner[c] = Other}
                      /\ map = taken
    BY DEF IdleHoldsNothing
  <2>1. channel = NoChannel /\ Ownership
    BY DEF KeptInv, Loose, Moving, Doomed
  <2>2. taken \subseteq Channels /\ map \subseteq Channels
    BY DEF KeptInv, TypeOK, IfcTypeOK
  <2>3. \A c \in Channels :
            /\ owner[c] \in {Other, NoRequest}
            /\ c \in taken <=> owner[c] # NoRequest
            /\ c \in map <=> owner[c] = Other
    BY <2>1, IfcAssumption DEF Ownership, Held
  <2>4. Other # NoRequest
    BY IfcAssumption, MmcAssumption
  <2> QED BY <2>1, <2>2, <2>3, <2>4
<1> QED BY InitKept, StepKept, <1>1, PTL DEF Spec

\* The thread is about to name a channel that the tasklet has released.
Forestalled ==
    \/ pc = "expired" /\ channel = NoChannel
    \/ pc = "release" /\ ~ Owns(Host, arg)

\* However late the controller interrupts, the host reaches a BUG_ON of ifc.c in
\* two places only: where the tasklet of a late interrupt released the channel
\* between the timeout and ifc_transfer_get_tc (rda_mmc.c:737), or between the
\* thread's read of transfer->channel and its ifc_transfer_stop
\* (rda_mmc.c:320-346); or else a card has bounced.
THEOREM OnlyTheRace == Spec => [][failed' /\ ~failed => bounced \/ Forestalled]_vars
<1>1. KeptInv /\ [Next]_vars => (failed' /\ ~failed => bounced \/ Forestalled)
  <2> SUFFICES ASSUME KeptInv, [Next]_vars, failed', ~failed, ~bounced PROVE Forestalled
    OBVIOUS
  <2>1. TypeOK /\ Loose /\ (Ownership \/ Doomed)
    BY DEF KeptInv
  <2>2. CASE Doomed
    BY <2>2 DEF Doomed, Forestalled
  <2>3. CASE Ownership /\ ~Doomed
    <3>1. ~Ownership'
      BY DEF Ownership
    <3>2. Astray /\ pc = "expired"
      BY <2>1, <2>3, <3>1, StepOwnership
    <3> QED BY <3>2 DEF Astray, Forestalled
  <2> QED BY <2>1, <2>2, <2>3
<1> QED BY InitKept, StepKept, <1>1, PTL DEF Spec

-----------------------------------------------------------------------------
(* From here on the controller is also silent once a transfer was stopped   *)
(* or given up (Punctual).                                                  *)

\* Thread, controller and tasklet stay in step.
LEMMA StepControl ==
    ASSUME Punctual
    PROVE  TypeOK /\ Control /\ Results /\ [Next]_vars /\ ~bounced' => Control'
<1> SUFFICES ASSUME TypeOK, Control, Results, [Next]_vars, ~bounced' PROVE Control'
  OBVIOUS
<1> USE IfcAssumption, MmcAssumption DEF Results, Control, Moving, RequestOK, RequestSet, ThreadOK, FlagsOK, CountsOK
<1>t. RequestOK /\ ThreadOK /\ FlagsOK /\ CountsOK
  BY TypeParts
<1>0. CASE UNCHANGED vars
  BY <1>0, <1>t DEF vars, ifcVars, thread, irq, slot, ghost
<1>1. ASSUME NEW d \in Directions, NEW n \in Parts, Request(d, n) PROVE Control'
  BY <1>1, <1>t DEF Request, NoRequestYet, irq
<1>2. CASE Choose
  BY <1>2, <1>t DEF Choose, irq, slot, ghost
<1>3. CASE StartTransfer
  BY <1>3, <1>t DEF StartTransfer, irq, slot, ghost
<1>4. CASE StartRefused
  BY <1>4, <1>t DEF StartRefused, irq, slot
<1>5. CASE ~tasklet /\ InitCompletion
  BY <1>5, <1>t DEF InitCompletion, irq, slot, ghost
<1>6. CASE ~tasklet /\ SendCommand
  BY <1>6, <1>t DEF SendCommand, irq, slot, ghost
<1>7. CASE ~tasklet /\ CommandDone
  BY <1>7, <1>t DEF CommandDone, irq, slot, ghost
<1>8. CASE ~tasklet /\ CommandFails
  BY <1>8, <1>t DEF CommandFails, irq, slot, ghost
<1>9. CASE ~tasklet /\ Wake
  BY <1>9, <1>t DEF Wake, irq, slot, ghost
<1>10. CASE ~tasklet /\ Expire
  BY <1>10, <1>t DEF Expire, irq, slot, ghost
<1>11. CASE ~tasklet /\ Expired
  BY <1>11, <1>t DEF Expired, irq, slot, ghost
<1>12. CASE ~tasklet /\ Stop
  BY <1>12, <1>t DEF Stop, Stopped, irq, slot, ghost
<1>13. CASE ~tasklet /\ StopNothing
  BY <1>13, <1>t DEF StopNothing, Stopped, irq, slot, ghost
<1>14. CASE ~tasklet /\ StopRelease
  BY <1>14, <1>t DEF StopRelease, irq, slot, ghost
<1>15. CASE ~tasklet /\ StopCommand
  BY <1>15, <1>t DEF StopCommand, irq, slot, ghost
<1>16. CASE ~tasklet /\ Judge
  BY <1>16, <1>t DEF Judge, irq, slot, ghost
<1>17. CASE ~tasklet /\ PartEnds
  BY <1>17, <1>t DEF PartEnds, irq, slot, ghost
<1>18. CASE ~tasklet /\ RequestEnds
  BY <1>18, <1>t DEF RequestEnds, irq, slot, ghost
<1>19. ASSUME NEW e \in {"good", "short", "badcrc", "error"}, Irq(e) PROVE Control'
  BY <1>19, <1>t DEF Irq, thread, slot
<1>20. CASE Silence
  BY <1>20, <1>t DEF Silence, thread, irq, slot, ghost
<1>21. CASE Tasklet
  BY <1>21, <1>t DEF Tasklet, Abort, Complete, StopAtOnce, slot, ghost
<1>22. CASE Remove
  BY <1>22, <1>t DEF Remove, thread, irq
<1>23. CASE Insert
  BY <1>23, <1>t DEF Insert, Unseen, thread, irq, ghost
<1>24. CASE OtherStarts \/ OtherStops
  BY <1>24, <1>t DEF OtherStarts, OtherStops, thread, irq, slot, ghost
<1> QED
  BY <1>0, <1>1, <1>2, <1>3, <1>4, <1>5, <1>6, <1>7, <1>8, <1>9, <1>10, <1>11, <1>12, <1>13, <1>14, <1>15, <1>16, <1>17, <1>18, <1>19, <1>20, <1>21, <1>22, <1>23, <1>24
     DEF Next, Thread

\* What is owed stays what is left to move.
LEMMA StepBooks ==
    ASSUME Punctual
    PROVE  TypeOK /\ PartsLeft /\ Control /\ Results /\ Books /\ [Next]_vars => Books'
<1> SUFFICES ASSUME TypeOK, PartsLeft, Control, Results, Books, [Next]_vars PROVE Books'
  OBVIOUS
<1> USE IfcAssumption, MmcAssumption DEF Books, Results, Error, Control, Moving, PartsLeft, InTransfer, RequestOK, RequestSet, ThreadOK, FlagsOK, CountsOK
<1>t. RequestOK /\ ThreadOK /\ FlagsOK /\ CountsOK
  BY TypeParts
<1>0. CASE UNCHANGED vars
  BY <1>0, <1>t DEF vars, ifcVars, thread, irq, slot, ghost
<1>1. ASSUME NEW d \in Directions, NEW n \in Parts, Request(d, n) PROVE Books'
  BY <1>1, <1>t DEF Request, NoRequestYet, irq
<1>2. CASE Choose
  BY <1>2, <1>t DEF Choose, irq, slot, ghost
<1>3. CASE StartTransfer
  BY <1>3, <1>t DEF StartTransfer, irq, slot, ghost
<1>4. CASE StartRefused
  BY <1>4, <1>t DEF StartRefused, irq, slot
<1>5. CASE ~tasklet /\ InitCompletion
  BY <1>5, <1>t DEF InitCompletion, irq, slot, ghost
<1>6. CASE ~tasklet /\ SendCommand
  BY <1>6, <1>t DEF SendCommand, irq, slot, ghost
<1>7. CASE ~tasklet /\ CommandDone
  BY <1>7, <1>t DEF CommandDone, irq, slot, ghost
<1>8. CASE ~tasklet /\ CommandFails
  BY <1>8, <1>t DEF CommandFails, irq, slot, ghost
<1>9. CASE ~tasklet /\ Wake
  BY <1>9, <1>t DEF Wake, irq, slot, ghost
<1>10. CASE ~tasklet /\ Expire
  BY <1>10, <1>t DEF Expire, irq, slot, ghost
<1>11. CASE ~tasklet /\ Expired
  BY <1>11, <1>t DEF Expired, irq, slot, ghost
<1>12. CASE ~tasklet /\ Stop
  BY <1>12, <1>t DEF Stop, Stopped, irq, slot, ghost
<1>13. CASE ~tasklet /\ StopNothing
  BY <1>13, <1>t DEF StopNothing, Stopped, irq, slot, ghost
<1>14. CASE ~tasklet /\ StopRelease
  BY <1>14, <1>t DEF StopRelease, irq, slot, ghost
<1>15. CASE ~tasklet /\ StopCommand
  BY <1>15, <1>t DEF StopCommand, irq, slot, ghost
<1>16. CASE ~tasklet /\ Judge
  BY <1>16, <1>t DEF Judge, irq, slot, ghost
<1>17. CASE ~tasklet /\ PartEnds
  BY <1>17, <1>t DEF PartEnds, irq, slot, ghost
<1>18. CASE ~tasklet /\ RequestEnds
  BY <1>18, <1>t DEF RequestEnds, irq, slot, ghost
<1>19. ASSUME NEW e \in {"good", "short", "badcrc", "error"}, Irq(e) PROVE Books'
  BY <1>19, <1>t DEF Irq, thread, slot
<1>20. CASE Silence
  BY <1>20, <1>t DEF Silence, thread, irq, slot, ghost
<1>21. CASE Tasklet
  BY <1>21, <1>t DEF Tasklet, Abort, Complete, StopAtOnce, slot, ghost
<1>22. CASE Remove
  BY <1>22, <1>t DEF Remove, thread, irq
<1>23. CASE Insert
  BY <1>23, <1>t DEF Insert, Unseen, thread, irq, ghost
<1>24. CASE OtherStarts \/ OtherStops
  BY <1>24, <1>t DEF OtherStarts, OtherStops, thread, irq, slot, ghost
<1> QED
  BY <1>0, <1>1, <1>2, <1>3, <1>4, <1>5, <1>6, <1>7, <1>8, <1>9, <1>10, <1>11, <1>12, <1>13, <1>14, <1>15, <1>16, <1>17, <1>18, <1>19, <1>20, <1>21, <1>22, <1>23, <1>24
     DEF Next, Thread

\* A host that keeps in step is loose, and does not go astray.
LEMMA ControlIsLoose == TypeOK /\ Ownership /\ Control => Loose /\ ~ Doomed /\ ~ Astray
BY TypeParts DEF Ownership, Control, Moving, Loose, Doomed, Astray, Held, Owns, ThreadOK

LEMMA StepMmc ==
    ASSUME Punctual
    PROVE  MmcInv /\ [Next]_vars => MmcInv'
<1> SUFFICES ASSUME MmcInv, [Next]_vars PROVE MmcInv'
  OBVIOUS
<1>1. TypeOK' /\ PartsLeft' /\ Results'
  BY StepTypes, StepResults DEF MmcInv
<1>2. ASSUME ~bounced' PROVE Ownership' /\ Control' /\ Books'
  <2>1. Ownership /\ Control /\ Books
    BY <1>2, BouncedStays DEF MmcInv
  <2>2. Ownership'
    BY <2>1, StepOwnership, ControlIsLoose DEF MmcInv
  <2>3. Control' /\ Books'
    BY <1>2, <2>1, StepControl, StepBooks DEF MmcInv
  <2> QED BY <2>2, <2>3
<1> QED BY <1>1, <1>2 DEF MmcInv

LEMMA InitMmc == Init => MmcInv
<1> SUFFICES ASSUME Init PROVE MmcInv
  OBVIOUS
<1> USE IfcAssumption, MmcAssumption DEF Init
<1>1. TypeOK /\ PartsLeft
  BY InitTypes
<1>2. Ownership
  BY DEF IfcInit, Ownership, Held
<1>3. Control
  BY DEF Control, Moving
<1>4. ~Error /\ ~req.ret
  BY DEF Error, NoRequestYet
<1>5. Books /\ Results
  BY <1>4 DEF Books, Results
<1> QED BY <1>1, <1>2, <1>3, <1>5 DEF MmcInv

LEMMA MmcAlways ==
    ASSUME Punctual
    PROVE  Spec => []MmcInv
<1>1. MmcInv /\ [Next]_vars => MmcInv'
  BY StepMmc
<1> QED BY InitMmc, <1>1, PTL DEF Spec

-----------------------------------------------------------------------------
\* On a controller that is silent once a transfer was stopped or given up, no
\* BUG_ON of ifc.c is reached before a card bounces: whichever of the timeout, the
\* tasklet and the error path stops a transfer, it is stopped once.
THEOREM ChannelsAreOurs ==
    ASSUME Punctual
    PROVE  Spec => []ChannelIsOurs
<1>1. MmcInv => ChannelIsOurs
  BY DEF MmcInv, Ownership, ChannelIsOurs
<1> QED BY <1>1, MmcAlways, PTL

\* A request reported without an error has moved all its parts, whatever was
\* removed, short, lost or given up, until a card bounces (rda_mmc.c:787-803).
THEOREM SuccessIsReal ==
    ASSUME Punctual
    PROVE  Spec => []SuccessMeansMoved
<1>1. MmcInv => SuccessMeansMoved
  BY DEF MmcInv, Books, SuccessMeansMoved
<1> QED BY <1>1, MmcAlways, PTL
=============================================================================
