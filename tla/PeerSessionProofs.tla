-------------------------- MODULE PeerSessionProofs --------------------------
(***************************************************************************)
(* Serve hangs up on every way out of a session, and calls back and        *)
(* returns as ServeCalls promises (its safety; that it returns at all is   *)
(* model-checked), whatever reconnectMaxShift is.  The same holds in       *)
(* share, whose requests are fulfilled within the limit, leave nothing     *)
(* open and say nothing of a shutdown, for any number of them.             *)
(***************************************************************************)
EXTENDS ShareProperties, FiniteSetTheorems, TLAPS

LEMMA PeerStart == PeerInit => PeerInv /\ CallsInv
<1> SUFFICES ASSUME PeerInit PROVE PeerInv /\ CallsInv
  OBVIOUS
<1>1. connected \in BOOLEAN /\ stable \in BOOLEAN /\ misread \in BOOLEAN /\ ~connected
  BY Zenon DEF PeerInit
<1>2. PeerTypeOK
  BY PeerAssumption, <1>1 DEF PeerInit, PeerTypeOK, ServePCs, Errors
<1> QED  BY <1>1, <1>2 DEF PeerInit, PeerInv, CallsInv

LEMMA PeerType == PeerTypeOK /\ [PeerNext]_peerVars => PeerTypeOK'
<1> SUFFICES ASSUME PeerTypeOK, [PeerNext]_peerVars PROVE PeerTypeOK'
  OBVIOUS
<1> USE PeerAssumption
    DEF PeerTypeOK, ServePCs, Errors, Transient, Permanent, serveVars, relayVars
<1>0. CASE ConnectFails \/ ConnectRefused \/ Enter \/ Misread
  <2>1. misread' \in BOOLEAN
    BY <1>0, Zenon DEF ConnectFails, ConnectRefused, Enter, Misread
  <2>2. CASE ConnectFails  BY <2>1, <2>2 DEF ConnectFails, Fail
  <2>3. CASE ConnectRefused  BY <2>1, <2>3 DEF ConnectRefused, Fail, Refusals
  <2>4. CASE Enter  BY <2>1, <2>4 DEF Enter
  <2>5. CASE Misread  BY <2>1, <2>5 DEF Misread, Fail, HangUp
  <2> QED  BY <1>0, <2>2, <2>3, <2>4, <2>5
<1>4. CASE Greeted  BY <1>4 DEF Greeted
<1>5. CASE GreetingLost  BY <1>5 DEF GreetingLost, Fail, HangUp
<1>6. CASE Notify
  <2>1. connected' \in BOOLEAN /\ stable' \in BOOLEAN
    BY <1>6, Zenon DEF Notify
  <2> QED  BY <1>6, <2>1 DEF Notify
<1>7. CASE NotReady  BY <1>7 DEF NotReady, HangUp
<1>8. CASE EndSession  BY <1>8 DEF EndSession, HangUp
<1>9. CASE GiveUp  BY <1>9 DEF GiveUp, Stop, Retryable
<1>10. CASE Retry  BY <1>10 DEF Retry, Retryable
<1>11. CASE WaitOver  BY <1>11 DEF WaitOver
<1>12. CASE Stabilise  BY <1>12 DEF Stabilise
<1>13. CASE Cancel  BY <1>13 DEF Cancel
<1>14. CASE PathFails
  <2>1. path' \in BOOLEAN
    BY <1>14, Zenon DEF PathFails
  <2> QED  BY <1>14, <2>1 DEF PathFails, HangUp
<1>15. CASE PathReturns  BY <1>15 DEF PathReturns
<1>16. CASE DropDead  BY <1>16 DEF DropDead
<1>17. CASE Bar  BY <1>17 DEF Bar
<1>18. CASE PublisherMoves  BY <1>18 DEF PublisherMoves
<1>19. CASE UNCHANGED peerVars  BY <1>19 DEF peerVars
<1> QED
  BY <1>0, <1>4, <1>5, <1>6, <1>7, <1>8, <1>9, <1>10, <1>11, <1>12, <1>13, <1>14, <1>15, <1>16, <1>17, <1>18, <1>19
  DEF PeerNext, ServeStep, Connect, World

LEMMA PeerStep == PeerInv /\ [PeerNext]_peerVars => PeerInv'
<1> SUFFICES ASSUME PeerInv, PeerTypeOK', [PeerNext]_peerVars PROVE PeerInv'
  BY PeerType DEF PeerInv
<1> USE DEF PeerInv, PeerTypeOK, serveVars, relayVars
<1>1. CASE ConnectFails  BY <1>1 DEF ConnectFails, Fail
<1>2. CASE ConnectRefused  BY <1>2 DEF ConnectRefused, Fail, Refusals
<1>3. CASE Enter  BY <1>3 DEF Enter
<1>4. CASE Greeted  BY <1>4 DEF Greeted
<1>5. CASE GreetingLost  BY <1>5 DEF GreetingLost, Fail, HangUp
<1>20. CASE Misread  BY <1>20 DEF Misread, Fail, HangUp
<1>6. CASE Notify  BY <1>6 DEF Notify
<1>7. CASE NotReady  BY <1>7 DEF NotReady, HangUp
<1>8. CASE EndSession  BY <1>8 DEF EndSession, HangUp
<1>9. CASE GiveUp  BY <1>9 DEF GiveUp, Stop, Retryable
<1>10. CASE Retry  BY <1>10 DEF Retry, Retryable
<1>11. CASE WaitOver  BY <1>11 DEF WaitOver
<1>12. CASE Stabilise  BY <1>12 DEF Stabilise
<1>13. CASE Cancel  BY <1>13 DEF Cancel
<1>14. CASE PathFails  BY <1>14 DEF PathFails, HangUp
<1>15. CASE PathReturns  BY <1>15 DEF PathReturns
<1>16. CASE DropDead  BY <1>16 DEF DropDead
<1>17. CASE Bar  BY <1>17 DEF Bar
<1>18. CASE PublisherMoves  BY <1>18 DEF PublisherMoves
<1>19. CASE UNCHANGED peerVars  BY <1>19 DEF peerVars
<1> QED
  BY <1>1, <1>2, <1>3, <1>4, <1>5, <1>6, <1>7, <1>8, <1>9, <1>10, <1>11, <1>12, <1>13, <1>14, <1>15, <1>16, <1>17, <1>18, <1>19, <1>20
  DEF PeerNext, ServeStep, Connect, World

\* Every way out of a session hangs up, so that no attempt meets a live entry
\* of its own.
THEOREM HangsUp == PeerSpec => []PeerInv
  BY PeerStart, PeerStep, PTL DEF PeerSpec

------------------------------------------------------------------------------
(* ServeCalls *)

LEMMA CallsStep == CallsInv /\ [PeerNext]_peerVars => CallsInv'
<1> SUFFICES ASSUME CallsInv, PeerTypeOK', [PeerNext]_peerVars PROVE CallsInv'
  BY PeerType DEF CallsInv
<1> USE DEF CallsInv, PeerTypeOK, Transient, Permanent, serveVars, relayVars
<1>1. CASE ConnectFails  BY <1>1 DEF ConnectFails, Fail
<1>2. CASE ConnectRefused  BY <1>2 DEF ConnectRefused, Fail, Refusals
<1>3. CASE Enter  BY <1>3 DEF Enter
<1>4. CASE Greeted  BY <1>4 DEF Greeted
<1>5. CASE GreetingLost  BY <1>5 DEF GreetingLost, Fail, HangUp
<1>20. CASE Misread  BY <1>20 DEF Misread, Fail, HangUp
<1>6. CASE Notify  BY <1>6 DEF Notify
<1>7. CASE NotReady  BY <1>7 DEF NotReady, HangUp
<1>8. CASE EndSession
  <2>1. connected /\ serve' = "deciding" /\ UNCHANGED <<connected, told, ended, ctx>>
    BY <1>8 DEF EndSession
  <2>2. err' \in {"lost", "closed"} \/ (err' = "canceled" /\ ctx = "canceled")
    BY <1>8 DEF EndSession
  <2>3. ended = "nil" /\ serve = "running"
    BY <1>8 DEF EndSession
  <2> QED  BY <2>1, <2>2, <2>3
<1>9. CASE GiveUp  BY <1>9 DEF GiveUp, Stop, Retryable
<1>10. CASE Retry  BY <1>10 DEF Retry, Retryable
<1>11. CASE WaitOver  BY <1>11 DEF WaitOver
<1>12. CASE Stabilise  BY <1>12 DEF Stabilise
<1>13. CASE Cancel  BY <1>13 DEF Cancel
<1>14. CASE PathFails  BY <1>14 DEF PathFails, HangUp
<1>15. CASE PathReturns  BY <1>15 DEF PathReturns
<1>16. CASE DropDead  BY <1>16 DEF DropDead
<1>17. CASE Bar  BY <1>17 DEF Bar
<1>18. CASE PublisherMoves  BY <1>18 DEF PublisherMoves
<1>19. CASE UNCHANGED peerVars  BY <1>19 DEF peerVars
<1> QED
  BY <1>1, <1>2, <1>3, <1>4, <1>5, <1>6, <1>7, <1>8, <1>9, <1>10, <1>11, <1>12, <1>13, <1>14, <1>15, <1>16, <1>17, <1>18, <1>19, <1>20
  DEF PeerNext, ServeStep, Connect, World

LEMMA CallsMap == CallsInv /\ [PeerNext]_peerVars => [Calls!CallsNext]_(Calls!callVars)
<1> SUFFICES ASSUME CallsInv, [PeerNext]_peerVars
             PROVE  [Calls!CallsNext]_(Calls!callVars)
  OBVIOUS
<1> USE DEF CallsInv, PeerTypeOK, serveVars, relayVars, Calls!callVars, Calls!CallsNext
<1>1. CASE UNCHANGED <<told, ended, ctx>>
  BY <1>1
<1>2. CASE ConnectFails \/ ConnectRefused \/ Enter \/ Greeted \/ GreetingLost \/ Misread \/ EndSession
                \/ Stabilise \/ PathFails \/ PathReturns \/ DropDead \/ Bar \/ PublisherMoves
  BY <1>1, <1>2 DEF ConnectFails, ConnectRefused, Enter, Greeted, GreetingLost, Misread, EndSession, Stabilise, PathFails, PathReturns, DropDead, Bar, PublisherMoves
<1>3. CASE Notify
  BY <1>3 DEF Notify, Calls!Ready
<1>4. CASE NotReady
  BY <1>4 DEF NotReady, Calls!ReadyFails
<1>5. CASE GiveUp
  BY <1>5
  DEF GiveUp, Stop, Retryable, Permanent, Errors, Transient, Calls!Returns, Calls!Obey,
      Calls!Return, Calls!Permanent, Calls!Early
<1>6. CASE Retry
  BY <1>6, <1>1 DEF Retry, Calls!Disconnected
<1>7. CASE WaitOver
  BY <1>7, <1>1 DEF WaitOver, Calls!Obey, Calls!Return, Calls!Early
<1>8. CASE Cancel
  BY <1>8 DEF Cancel, Calls!CtxEnds
<1>9. CASE UNCHANGED peerVars
  BY <1>9, <1>1 DEF peerVars
<1> QED
  BY <1>2, <1>3, <1>4, <1>5, <1>6, <1>7, <1>8, <1>9 DEF PeerNext, ServeStep, Connect, World

\* peer/reconnect.go:46-78: OnReady once, OnReconnect only after OnDisconnect,
\* and an error returned only where the package promises one.
THEOREM CallsKept == PeerSpec => Calls!CallsInit /\ [][Calls!CallsNext]_(Calls!callVars)
<1>1. PeerInit => Calls!CallsInit
  BY DEF PeerInit, Calls!CallsInit
<1> QED  BY PeerStart, CallsStep, CallsMap, <1>1, PTL DEF PeerSpec

------------------------------------------------------------------------------
(* Share *)

\* A step of share is a step of its Serve or leaves Serve alone.
LEMMA ShareIsPeer == [ShareNext]_shareVars => [PeerNext]_peerVars
<1> SUFFICES ASSUME [ShareNext]_shareVars PROVE [PeerNext]_peerVars
  OBVIOUS
<1>1. CASE PeerMoves  BY <1>1 DEF PeerMoves
<1>2. CASE RunReturns  BY <1>2 DEF RunReturns
<1>3. ASSUME NEW q \in Requests,
             \/ Ask(q) \/ Handle(q) \/ FulfillStep(q) \/ OthersMove(q) \/ CloseTunnel(q)
      PROVE  UNCHANGED peerVars
  <2>1. CASE FulfillStep(q)
    BY <2>1
    DEF FulfillStep, OpensTunnel, TunnelFails, DialsService, ServiceFails, CopyEnds,
        SpliceReturns, ReportForward, ReleaseSlot
  <2> QED  BY <1>3, <2>1 DEF Ask, Handle, OthersMove, CloseTunnel
<1>4. CASE UNCHANGED shareVars  BY <1>4 DEF shareVars
<1> QED  BY <1>1, <1>2, <1>3, <1>4 DEF ShareNext

\* The same holds of the publisher's process as a whole.
THEOREM ShareHangsUp == ShareSpec => []PeerInv
<1>1. ShareInit => PeerInit
  BY DEF ShareInit
<1> QED  BY <1>1, PeerStart, PeerStep, ShareIsPeer, PTL DEF ShareSpec

Busy == {q \in Requests : fulfilling[q] # "idle"}

LEMMA BusyFinite == IsFiniteSet(Busy) /\ Cardinality(Busy) \in Nat
<1>1. IsFiniteSet(Busy)
  BY FS_Subset, ShareAssumption DEF Busy
<1> QED  BY <1>1, FS_CardinalityType

\* One more request, or one less.
LEMMA BusyCount ==
    ASSUME NEW q \in Requests
    PROVE  /\ Busy' = Busy \cup {q} /\ q \notin Busy => Cardinality(Busy') = Cardinality(Busy) + 1
           /\ Busy' = Busy \ {q} /\ q \in Busy => Cardinality(Busy') = Cardinality(Busy) - 1
  BY BusyFinite, FS_AddElement, FS_RemoveElement

\* A step that neither takes nor returns a slot.
LEMMA SlotsSame ==
    ASSUME SlotsAreTaken, slots' = slots, Busy' = Busy
    PROVE  SlotsAreTaken'
  BY DEF SlotsAreTaken, Busy

\* What happens within a splice opens nothing, and a copy ends only with the
\* close of the side it writes into.
LEMMA WithinSplice ==
    ASSUME S!SpliceTypeOK, NEW q \in Requests,
           S!FarEnds(q) \/ \E s \in S!Sides : S!CopyFails(q, s)
    PROVE  /\ S!SpliceTypeOK'
           /\ \A x \in Requests : x # q => conn'[x] = conn[x] /\ copy'[x] = copy[x]
           /\ \A s \in S!Sides : S!Holds(q, s)' => S!Holds(q, s)
           /\ \A s \in S!Sides : copy'[q][s] = "over" => copy[q][s] = "over" \/ ~S!Holds(q, s)'
           /\ copy[q] = S!NoSplice => copy'[q] = S!NoSplice
<1> USE DEF S!SpliceTypeOK, S!Holds, S!NoSplice
<1>1. PICK s \in S!Sides :
        S!Moves(q, s) \/ S!Ends(q, s) \/ S!CopyFails(q, s)
  BY DEF S!FarEnds
<1>2. CASE S!Moves(q, s)
  BY <1>2 DEF S!Moves
<1>3. CASE S!Ends(q, s) \/ S!CopyFails(q, s)
  <2>1. /\ copy[q][s] # "over"
        /\ copy' = [copy EXCEPT ![q][s] = "over"] /\ conn' = [conn EXCEPT ![q][s] = "closed"]
    BY <1>3 DEF S!Ends, S!CopyFails, S!Over, S!Shut
  <2>2. copy[q] # S!NoSplice
    BY <2>1
  <2>3. \A t \in S!Sides : t # s => copy'[q][t] = copy[q][t] /\ conn'[q][t] = conn[q][t]
    BY <2>1
  <2>4. conn'[q][s] = "closed"
    BY <2>1
  <2> QED  BY <2>1, <2>2, <2>3, <2>4
<1> QED  BY <1>1, <1>2, <1>3

LEMMA ShareStart == ShareInit => ShareInv
<1> SUFFICES ASSUME ShareInit PROVE ShareInv
  OBVIOUS
<1>1. {q \in Requests : fulfilling[q] # "idle"} = {}
  BY DEF ShareInit
<1>2. SlotsAreTaken
  BY <1>1, FS_EmptySet, ShareAssumption DEF ShareInit, SlotsAreTaken
<1>3. returned \in BOOLEAN
  BY Zenon DEF ShareInit
<1> QED  BY <1>2, <1>3 
  DEF ShareInit, ShareInv, ShareTypeOK, NothingLoose, ShutdownIsQuiet, S!SpliceInit,
      S!SpliceTypeOK, S!NoSplice, S!Holds, S!Sides

LEMMA LiveEnds == [PeerNext]_peerVars => ctx' = ctx \/ ctx' = "canceled"
<1> SUFFICES ASSUME [PeerNext]_peerVars PROVE ctx' = ctx \/ ctx' = "canceled"
  OBVIOUS
<1>1. CASE ServeStep
  BY <1>1
  DEF ServeStep, Connect, ConnectFails, ConnectRefused, Enter, Greeted, GreetingLost,
      Misread, Notify, NotReady, EndSession, GiveUp, Retry, WaitOver
<1>2. CASE World
  BY <1>2 DEF World, PathFails, PathReturns, DropDead, Bar, PublisherMoves
<1>3. CASE Stabilise \/ Cancel
  BY <1>3 DEF Stabilise, Cancel
<1>4. CASE UNCHANGED peerVars
  BY <1>4 DEF peerVars
<1> QED  BY <1>1, <1>2, <1>3, <1>4 DEF PeerNext

LEMMA ShareStep == ShareInv /\ [ShareNext]_shareVars => ShareInv'
<1> SUFFICES ASSUME ShareInv, [ShareNext]_shareVars PROVE ShareInv'
  OBVIOUS
<1> USE ShareAssumption
    DEF ShareInv, ShareTypeOK, NothingLoose, ShutdownIsQuiet, Goes, forwardVars, S!SpliceTypeOK,
        S!Holds, S!NoSplice, S!Sides
<1>1. CASE PeerMoves
  <2>1. /\ UNCHANGED <<slots, fulfilling, conn, copy, fault, reported, returned>>
        /\ asked' \subseteq asked
    BY <1>1 DEF PeerMoves, requestVars
  <2>2. ~Live => ~Live'
    BY <1>1, <2>1, LiveEnds DEF PeerMoves, Live
  <2>3. SlotsAreTaken'
    BY <2>1, SlotsSame DEF Busy
  <2> QED  BY <2>1, <2>2, <2>3
<1>2. CASE RunReturns
  <2>1. UNCHANGED <<slots, fulfilling, conn, copy, fault, reported, asked>> /\ returned'
    BY <1>2 DEF RunReturns, requestVars
  <2>2. SlotsAreTaken' /\ returned' \in BOOLEAN
    BY <1>2, <2>1, SlotsSame DEF Busy, RunReturns
  <2> QED  BY <2>1, <2>2 DEF Live
<1>3. ASSUME NEW q \in Requests, Ask(q) PROVE ShareInv'
  <2>1. SlotsAreTaken'
    BY <1>3, SlotsSame DEF Ask, requestVars, Busy
  <2> QED  BY <1>3, <2>1 DEF Ask, requestVars, peerVars, Live
<1>4. ASSUME NEW q \in Requests, Handle(q) PROVE ShareInv'
  <2>1. CASE slots < MaxTunnels /\ slots' = slots + 1 /\ Goes(q, "opening")
    <3>1. Busy' = Busy \cup {q} /\ q \notin Busy
      <4>1. fulfilling[q] = "idle" /\ fulfilling' = [fulfilling EXCEPT ![q] = "opening"]
        BY <1>4, <2>1 DEF Handle
      <4>2. fulfilling \in [Requests -> {"idle", "opening", "dialing", "splicing", "failed",
                                         "releasing"}]
        OBVIOUS
      <4> QED  BY <4>1, <4>2 DEF Busy
    <3>2. Cardinality(Busy') = Cardinality(Busy) + 1
      BY <3>1, BusyCount
    <3>3. SlotsAreTaken'
      BY <2>1, <3>2, BusyFinite DEF SlotsAreTaken, Busy
    <3> QED  BY <1>4, <2>1, <3>3 DEF Handle, peerVars, Live
  <2>2. CASE UNCHANGED <<slots, fulfilling>>
    <3>1. SlotsAreTaken'
      BY <2>2, SlotsSame DEF Busy
    <3> QED  BY <1>4, <2>2, <3>1 DEF Handle, peerVars, Live
  <2> QED  BY <1>4, <2>1, <2>2 DEF Handle
<1>5. ASSUME NEW q \in Requests, fulfilling[q] # "idle", slots' = slots,
             \E to \in {"dialing", "splicing", "failed", "releasing"} : Goes(q, to)
      PROVE  SlotsAreTaken'
  <2>1. Busy' = Busy
    BY <1>5 DEF Busy
  <2> QED  BY <1>5, <2>1, SlotsSame
<1>6. ASSUME NEW q \in Requests, OpensTunnel(q) PROVE ShareInv'
  <2>1. SlotsAreTaken'
    BY <1>5, <1>6 DEF OpensTunnel
  <2> QED  BY <1>6, <2>1 DEF OpensTunnel, S!Obtain, peerVars, Live
<1>7. ASSUME NEW q \in Requests, TunnelFails(q) PROVE ShareInv'
  <2>1. SlotsAreTaken'
    BY <1>5, <1>7 DEF TunnelFails, FailForward
  <2> QED  BY <1>7, <2>1 DEF TunnelFails, FailForward, peerVars, Live
<1>8. ASSUME NEW q \in Requests, DialsService(q) PROVE ShareInv'
  <2>1. SlotsAreTaken'
    BY <1>5, <1>8 DEF DialsService
  <2> QED  BY <1>8, <2>1 DEF DialsService, S!Obtain, S!Start, peerVars, Live
<1>9. ASSUME NEW q \in Requests, ServiceFails(q) PROVE ShareInv'
  <2>1. SlotsAreTaken'
    BY <1>5, <1>9 DEF ServiceFails, FailForward
  <2> QED  BY <1>9, <2>1 DEF ServiceFails, S!Shut, FailForward, peerVars, Live
<1>10. ASSUME NEW q \in Requests, SpliceReturns(q) PROVE ShareInv'
  <2>1. SlotsAreTaken'
    BY <1>5, <1>10 DEF SpliceReturns
  <2> QED  BY <1>10, <2>1 DEF SpliceReturns, S!Shut, S!Joined, peerVars, Live
<1>11. ASSUME NEW q \in Requests, ReportForward(q) PROVE ShareInv'
  <2>1. SlotsAreTaken'
    BY <1>5, <1>11 DEF ReportForward
  <2>2. reported' \in [Requests -> BOOLEAN]
    BY <1>11 DEF ReportForward, Live
  <2>3. reported'[q] => fault[q] = "own"
    BY <1>11 DEF ReportForward
  <2> QED  BY <1>11, <2>1, <2>2, <2>3 DEF ReportForward, peerVars, Live
<1>12. ASSUME NEW q \in Requests, ReleaseSlot(q) PROVE ShareInv'
  <2>1. Busy' = Busy \ {q} /\ q \in Busy
    BY <1>12 DEF Busy, ReleaseSlot
  <2>2. Cardinality(Busy') = Cardinality(Busy) - 1
    BY <2>1, BusyCount
  <2>3. SlotsAreTaken'
    BY <1>12, <2>2, BusyFinite DEF SlotsAreTaken, Busy, ReleaseSlot
  <2> QED  BY <1>12, <2>3 DEF ReleaseSlot, peerVars, Live
<1>13. ASSUME NEW q \in Requests, OthersMove(q) \/ CopyEnds(q) PROVE ShareInv'
  <2>1. UNCHANGED <<peerVars, asked, fulfilling, slots, fault, reported, returned>>
    BY <1>13 DEF OthersMove, CopyEnds
  <2>2. SlotsAreTaken'
    BY <2>1, SlotsSame DEF Busy
  <2>3. S!FarEnds(q) \/ \E s \in S!Sides : S!CopyFails(q, s)
    BY <1>13 DEF OthersMove, CopyEnds
  <2>4. S!SpliceTypeOK' /\ NothingLoose'
    BY <2>1, <2>3, WithinSplice
  <2>5. \A x \in Requests :
          /\ fulfilling'[x] # "splicing" => copy'[x] = S!NoSplice
          /\ fulfilling'[x] = "splicing" =>
               \A c \in S!Sides : copy'[x][c] = "over" => ~S!Holds(x, c)'
    <3> TAKE x \in Requests
    <3>1. CASE x = q
      BY <2>1, <2>3, <3>1, WithinSplice
    <3>2. CASE x # q
      <4>1. conn'[x] = conn[x] /\ copy'[x] = copy[x] /\ fulfilling'[x] = fulfilling[x]
        BY <2>1, <2>3, <3>2, WithinSplice
      <4> QED  BY <4>1
    <3> QED  BY <3>1, <3>2
  <2>6. ShareTypeOK'
    BY <2>1, <2>4
  <2>7. ShutdownIsQuiet' /\ Live' = Live
    BY <2>1 DEF peerVars, Live
  <2> QED  BY <2>1, <2>2, <2>4, <2>5, <2>6, <2>7
<1>15. ASSUME NEW q \in Requests, CloseTunnel(q) PROVE ShareInv'
  <2>1. SlotsAreTaken'
    BY <1>15, SlotsSame DEF CloseTunnel, Busy
  <2> QED  BY <1>15, <2>1 DEF CloseTunnel, S!Shut, peerVars, Live
<1>14. CASE UNCHANGED shareVars
  <2>1. SlotsAreTaken'
    BY <1>14, SlotsSame DEF shareVars, requestVars, Busy
  <2> QED  BY <1>14, <2>1 DEF shareVars, requestVars, peerVars, Live
<1> QED
  BY <1>1, <1>2, <1>3, <1>4, <1>6, <1>7, <1>8, <1>9, <1>10, <1>11, <1>12, <1>13, <1>14, <1>15
  DEF ShareNext, FulfillStep

\* share.go:120-147, 165-187: for any limit and any number of requests.
THEOREM SharesWithinLimits == ShareSpec => []ShareInv
  BY ShareStart, ShareStep, PTL DEF ShareSpec

\* The publisher's process keeps the order of Serve's callbacks.
THEOREM ShareCallsKept == ShareSpec => Calls!CallsInit /\ [][Calls!CallsNext]_(Calls!callVars)
<1>1. ShareInit => PeerInit /\ Calls!CallsInit
  BY DEF ShareInit, PeerInit, Calls!CallsInit
<1> QED  BY <1>1, PeerStart, CallsStep, CallsMap, ShareIsPeer, PTL DEF ShareSpec
=============================================================================
