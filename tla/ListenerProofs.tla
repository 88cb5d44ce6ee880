--------------------------- MODULE ListenerProofs ---------------------------
(***************************************************************************)
(* listen gives its user the true reason, for any number of ports and      *)
(* connections.                                                            *)
(*                                                                         *)
(* CauseInv is the inductive invariant: a listener that is closed without  *)
(* having failed was closed because ctx ended; ctx ends by the caller, by  *)
(* runTCP's own return, or after Serve's error is on its channel, where    *)
(* ShutdownErr finds it.                                                   *)
(***************************************************************************)
EXTENDS ListenerProperties, FiniteSetTheorems, TLAPS

LEMMA ListenType == ListenTypeOK /\ [ListenNext]_listenVars => ListenTypeOK'
<1> SUFFICES ASSUME ListenTypeOK, [ListenNext]_listenVars PROVE ListenTypeOK'
  OBVIOUS
<1> USE ListenerAssumption
    DEF ListenTypeOK, sessionVars, loopVars, clientVars, mainVars, callVars,
        forwardVars, Forwarding, S!SpliceTypeOK, S!Sides, S!Shut, S!Obtain
<1>1. CASE CallBack  BY <1>1 DEF CallBack, Ready, ReadyFails, Disconnected, Ends
<1>2. CASE SessionEnds  BY <1>2 DEF SessionEnds, Returns, Obey, Return, Ends
<1>3. CASE TailStep
  <2>1. CASE Report
    <3>1. serveErr' \in Ends \cup {"nil"}
      BY <2>1 DEF Report
    <3>2. tail' \in {"serving", "lowering", "canceling", "over"}
      BY <2>1 DEF Report
    <3> QED  BY <2>1, <3>1, <3>2 DEF Report
  <2>2. CASE Lower  BY <2>2 DEF Lower
  <2>3. CASE CancelOwn  BY <2>3 DEF CancelOwn
  <2> QED  BY <1>3, <2>1, <2>2, <2>3 DEF TailStep
<1>4. CASE MainStep
  <2>1. CASE TakeAcceptErr  BY <2>1 DEF TakeAcceptErr
  <2>2. CASE Sample  BY <2>2 DEF Sample
  <2>3. CASE Explain  BY <2>3 DEF Explain, Ends
  <2>4. CASE Unwind  BY <2>4 DEF Unwind
  <2> QED  BY <1>4, <2>1, <2>2, <2>3, <2>4 DEF MainStep
<1>5. CASE CallerCancels  BY <1>5 DEF CallerCancels
<1>6. ASSUME NEW p \in Ports, LoopStep(p) PROVE ListenTypeOK'
  <2>1. CASE CheckReady(p)
    <3>1. CASE ~ready /\ Refuse(p)  BY <2>1, <3>1 DEF CheckReady, Refuse
    <3>2. CASE ready  BY <2>1, <3>2 DEF CheckReady
    <3> QED  BY <2>1, <3>1, <3>2 DEF CheckReady
  <2>2. CASE TakeSlot(p)
    <3>1. CASE Refuse(p)  BY <2>2, <3>1 DEF TakeSlot, Refuse
    <3>2. CASE ~Refuse(p)
      <4>1. /\ slots' = slots + 1 /\ held' = [held EXCEPT ![p] = None]
            /\ client' = [client EXCEPT ![held[p]] = "opening"]
            /\ loop' = [loop EXCEPT ![p] = "accepting"]
            /\ UNCHANGED <<sessionVars, lsn, conn, copy, mainVars>>
        BY <2>2, <3>2 DEF TakeSlot
      <4>2. \A q \in Ports : loop'[q] \in {"checking", "choosing"} <=> held'[q] # None
        BY <4>1
      <4>3. /\ client' \in [Clients -> {"away", "held", "gone"} \cup Forwarding]
            /\ loop' \in [Ports -> {"accepting", "checking", "choosing", "returned"}]
            /\ held' \in [Ports -> Clients \cup {None}]
        BY <4>1
      <4>4. slots' \in Int
        BY <4>1
      <4>5. S!SpliceTypeOK'
        BY <4>1
      <4> QED  BY <4>1, <4>2, <4>3, <4>4, <4>5
    <3> QED  BY <3>1, <3>2
  <2>3. CASE AcceptFails(p)  BY <2>3 DEF AcceptFails
  <2> QED  BY <1>6, <2>1, <2>2, <2>3 DEF LoopStep
<1>7. ASSUME NEW p \in Ports, CloseListener(p) \/ ListenerFails(p) PROVE ListenTypeOK'
  BY <1>7 DEF CloseListener, ListenerFails
<1>8. ASSUME NEW p \in Ports, NEW c \in Clients, Accept(p, c) PROVE ListenTypeOK'
  BY <1>8 DEF Accept
<1>9. ASSUME NEW c \in Clients, ForwardStep(c) PROVE ListenTypeOK'
  <2>1. CASE Opens(c)  BY <2>1 DEF Opens, S!Start
  <2>2. CASE OpenFails(c)  BY <2>2 DEF OpenFails
  <2>3. CASE CopyEnds(c)
    BY <2>3 DEF CopyEnds, S!CopyFails, S!Over
  <2>4. CASE SpliceReturns(c)  BY <2>4 DEF SpliceReturns
  <2>5. CASE Release(c)  BY <2>5 DEF Release
  <2> QED  BY <1>9, <2>1, <2>2, <2>3, <2>4, <2>5 DEF ForwardStep
<1>10. ASSUME NEW c \in Clients, OthersMove(c) \/ CloseLocal(c) PROVE ListenTypeOK'
  <2>1. CASE OthersMove(c)
    <3>1. PICK s \in S!Sides : S!Moves(c, s) \/ S!Ends(c, s)
      BY <2>1 DEF OthersMove, S!FarEnds
    <3>2. CASE S!Moves(c, s)  BY <2>1, <3>2 DEF OthersMove, S!Moves
    <3>3. CASE S!Ends(c, s)  BY <2>1, <3>3 DEF OthersMove, S!Ends, S!Over
    <3> QED  BY <3>1, <3>2, <3>3
  <2>2. CASE CloseLocal(c)  BY <2>2 DEF CloseLocal
  <2> QED  BY <1>10, <2>1, <2>2
<1>11. CASE UNCHANGED listenVars  BY <1>11 DEF listenVars
<1> QED
  BY <1>1, <1>2, <1>3, <1>4, <1>5, <1>6, <1>7, <1>8, <1>9, <1>10, <1>11 DEF ListenNext

------------------------------------------------------------------------------
(* Slots *)

Fwd == {c \in Clients : client[c] \in Forwarding}

LEMMA FwdFinite == IsFiniteSet(Fwd) /\ Cardinality(Fwd) \in Nat
<1>1. IsFiniteSet(Fwd)
  BY FS_Subset, ListenerAssumption DEF Fwd
<1> QED  BY <1>1, FS_CardinalityType

LEMMA SlotInit == ListenInit => SlotInv
<1> SUFFICES ASSUME ListenInit PROVE SlotInv
  OBVIOUS
<1>1. {c \in Clients : client[c] \in Forwarding} = {}
  BY DEF ListenInit, Forwarding
<1>2. ListenTypeOK
  <2>1. \A p \in Ports : loop[p] \in {"checking", "choosing"} <=> held[p] # None
    BY DEF ListenInit
  <2>2. /\ client \in [Clients -> {"away", "held", "gone"} \cup Forwarding]
        /\ S!SpliceTypeOK
        /\ held \in [Ports -> Clients \cup {None}]
    BY DEF ListenInit, S!SpliceInit, S!SpliceTypeOK, S!NoSplice
  <2>3. /\ lsn \in [Ports -> {"open", "closed", "failed"}]
        /\ loop \in [Ports -> {"accepting", "checking", "choosing", "returned"}]
    BY DEF ListenInit
  <2>4. caller \in BOOLEAN /\ ready \in BOOLEAN
    BY Zenon DEF ListenInit
  <2>7. slots \in Int
    BY DEF ListenInit
  <2>5. /\ told \in {"none", "ready", "disconnected"}
        /\ ended \in Ends \cup {"nil"} /\ ctx \in {"live", "canceled"}
    BY DEF ListenInit, CallsInit
  <2>6. /\ tail \in {"serving", "lowering", "canceling", "over"}
        /\ serveErr \in Ends \cup {"nil"}
        /\ main \in {"waiting", "sampling", "explaining", "closing", "gone"}
        /\ result \in Ends \cup {"nil", "accept"}
    BY DEF ListenInit
  <2> QED  BY <2>1, <2>2, <2>3, <2>4, <2>5, <2>6, <2>7 DEF ListenTypeOK
<1> QED
  BY <1>1, <1>2, FS_EmptySet, ListenerAssumption DEF ListenInit, SlotInv, SlotsAreHeld

\* A step that neither takes nor releases a slot and leaves the loops' hands as
\* they are.
LEMMA SlotSame ==
    ASSUME SlotInv, ListenTypeOK', Fwd' = Fwd, UNCHANGED <<slots, held>>,
           \A c \in Clients : client'[c] = "held" <=> client[c] = "held"
    PROVE  SlotInv'
  BY DEF SlotInv, SlotsAreHeld, Fwd

LEMMA SlotStep == SlotInv /\ ListenTypeOK' /\ [ListenNext]_listenVars => SlotInv'
<1> SUFFICES ASSUME SlotInv, ListenTypeOK', [ListenNext]_listenVars PROVE SlotInv'
  OBVIOUS
<1> USE ListenerAssumption DEF Fwd, Forwarding
<1>0. ListenTypeOK
  BY DEF SlotInv, SlotsAreHeld
<1>1. CASE UNCHANGED <<clientVars, held>>
  BY <1>1, SlotSame DEF clientVars
<1>2. ASSUME NEW p \in Ports, NEW c \in Clients, Accept(p, c) PROVE SlotInv'
  <2>1. Fwd' = Fwd
    BY <1>0, <1>2 DEF Accept, ListenTypeOK
  <2>2. \A q \in Ports : held[q] # c /\ (q # p => held'[q] = held[q])
    BY <1>0, <1>2 DEF Accept, ListenTypeOK, SlotInv, SlotsAreHeld
  <2>3. held'[p] = c /\ held[p] = None
    BY <1>0, <1>2 DEF Accept, ListenTypeOK
  <2>4. \A d \in Clients : client'[d] = "held" <=> d = c \/ client[d] = "held"
    BY <1>0, <1>2 DEF Accept, ListenTypeOK
  <2>5. slots' = slots
    BY <1>2 DEF Accept
  <2> QED  BY <2>1, <2>2, <2>3, <2>4, <2>5 DEF SlotInv, SlotsAreHeld
<1>3. ASSUME NEW p \in Ports, Refuse(p), held[p] # None PROVE SlotInv'
  <2> DEFINE c == held[p]
  <2>1. c \in Clients /\ client[c] = "held"
    BY <1>0, <1>3 DEF ListenTypeOK, SlotInv, SlotsAreHeld
  <2>2. Fwd' = Fwd
    BY <1>0, <1>3, <2>1 DEF Refuse, ListenTypeOK
  <2>3. \A q \in Ports : q # p => held'[q] = held[q] /\ held[q] # c
    BY <1>0, <1>3 DEF Refuse, ListenTypeOK, SlotInv
  <2>4. held'[p] = None
    BY <1>0, <1>3 DEF Refuse, ListenTypeOK
  <2>5. \A d \in Clients : client'[d] = "held" <=> d # c /\ client[d] = "held"
    BY <1>0, <1>3, <2>1 DEF Refuse, ListenTypeOK
  <2>6. slots' = slots
    BY <1>3 DEF Refuse
  <2> QED  BY <2>1, <2>2, <2>3, <2>4, <2>5, <2>6 DEF SlotInv, SlotsAreHeld
<1>4. ASSUME NEW p \in Ports, TakeSlot(p), ~Refuse(p) PROVE SlotInv'
  <2> DEFINE c == held[p]
  <2>1. c \in Clients /\ client[c] = "held"
    BY <1>0, <1>4 DEF TakeSlot, ListenTypeOK, SlotInv, SlotsAreHeld
  <2>2. Fwd' = Fwd \cup {c} /\ c \notin Fwd
    BY <1>0, <1>4, <2>1 DEF TakeSlot, ListenTypeOK
  <2>3. \A q \in Ports : q # p => held'[q] = held[q] /\ held[q] # c
    BY <1>0, <1>4, <2>1 DEF TakeSlot, ListenTypeOK, SlotInv
  <2>4. held'[p] = None
    BY <1>0, <1>4 DEF TakeSlot, ListenTypeOK
  <2>5. \A d \in Clients : client'[d] = "held" <=> d # c /\ client[d] = "held"
    BY <1>0, <1>4, <2>1 DEF TakeSlot, ListenTypeOK
  <2>6. slots' = slots + 1 /\ slots < MaxTunnels
    BY <1>4 DEF TakeSlot
  <2>7. Cardinality(Fwd') = Cardinality(Fwd) + 1
    BY <2>2, FwdFinite, FS_AddElement
  <2>8. slots' = Cardinality(Fwd') /\ slots' <= MaxTunnels
    BY <1>0, <2>6, <2>7 DEF SlotInv, SlotsAreHeld, ListenTypeOK
  <2> QED  BY <2>1, <2>3, <2>4, <2>5, <2>8 DEF SlotInv, SlotsAreHeld
<1>5. ASSUME NEW c \in Clients, Release(c) PROVE SlotInv'
  <2>1. Fwd' = Fwd \ {c} /\ c \in Fwd
    BY <1>0, <1>5 DEF Release, ListenTypeOK
  <2>2. Cardinality(Fwd') = Cardinality(Fwd) - 1
    BY <2>1, FwdFinite, FS_RemoveElement
  <2>3. slots' = Cardinality(Fwd') /\ slots' <= MaxTunnels
    BY <1>0, <1>5, <2>2 DEF Release, SlotInv, SlotsAreHeld, ListenTypeOK
  <2>4. \A d \in Clients : client'[d] = "held" <=> client[d] = "held"
    BY <1>0, <1>5 DEF Release, ListenTypeOK
  <2>5. held' = held
    BY <1>5 DEF Release, loopVars
  <2> QED  BY <2>3, <2>4, <2>5 DEF SlotInv, SlotsAreHeld
<1>6. ASSUME NEW c \in Clients,
             \/ Opens(c) \/ OpenFails(c) \/ CopyEnds(c) \/ SpliceReturns(c)
             \/ OthersMove(c) \/ CloseLocal(c)
      PROVE SlotInv'
  <2>1. Fwd' = Fwd /\ \A d \in Clients : client'[d] = "held" <=> client[d] = "held"
    BY <1>0, <1>6 DEF Opens, OpenFails, CopyEnds, SpliceReturns, OthersMove, CloseLocal, ListenTypeOK
  <2>2. UNCHANGED <<slots, held>>
    BY <1>6 DEF Opens, OpenFails, CopyEnds, SpliceReturns, OthersMove, CloseLocal, loopVars
  <2> QED  BY <2>1, <2>2, SlotSame
<1>7. CASE CallBack \/ SessionEnds \/ TailStep \/ MainStep \/ CallerCancels \/ UNCHANGED listenVars
  BY <1>7, <1>1
  DEF CallBack, SessionEnds, TailStep, Report, Lower, CancelOwn, MainStep, TakeAcceptErr,
      Sample, Explain, Unwind, CallerCancels, listenVars, loopVars
<1>8. ASSUME NEW p \in Ports, LoopStep(p) \/ CloseListener(p) \/ ListenerFails(p) PROVE SlotInv'
  <2>1. CASE Refuse(p) /\ (CheckReady(p) \/ TakeSlot(p))
    BY <1>0, <1>3, <2>1 DEF CheckReady, TakeSlot, ListenTypeOK
  <2>2. CASE CheckReady(p) /\ ~Refuse(p)
    BY <1>1, <2>2 DEF CheckReady
  <2>3. CASE AcceptFails(p) \/ CloseListener(p) \/ ListenerFails(p)
    BY <1>1, <2>3 DEF AcceptFails, CloseListener, ListenerFails
  <2> QED  BY <1>4, <1>8, <2>1, <2>2, <2>3 DEF LoopStep
<1> QED
  BY <1>2, <1>5, <1>6, <1>7, <1>8 DEF ListenNext, ForwardStep

\* listen.go:291-305: a slot for every connection that is forwarded, for no
\* other, and never more than MaxTunnels.
THEOREM SlotsHeld == ListenSpec => []SlotsAreHeld
<1>1. SlotInv /\ [ListenNext]_listenVars => SlotInv'
  BY ListenType, SlotStep DEF SlotInv, SlotsAreHeld
<1>2. SlotInv => SlotsAreHeld
  BY DEF SlotInv
<1> QED  BY SlotInit, <1>1, <1>2, PTL DEF ListenSpec

------------------------------------------------------------------------------
(* The cause *)

LEMMA CauseInit == ListenInit => CauseInv
<1> SUFFICES ASSUME ListenInit PROVE CauseInv
  OBVIOUS
<1>1. ListenTypeOK
  BY SlotInit DEF SlotInv, SlotsAreHeld
<1>2. ~caller
  BY Zenon DEF ListenInit
<1> QED
  BY <1>1, <1>2 DEF ListenInit, CallsInit, CauseInv, EndsWithTheCause

\* A step that is none of Serve's goroutine's, runTCP's or the caller's.
LEMMA CauseSame ==
    ASSUME CauseInv, ListenTypeOK', UNCHANGED <<sessionVars, mainVars>>,
           \A p \in Ports :
              /\ lsn[p] = "failed" => lsn'[p] = "failed"
              /\ lsn[p] # "open" => lsn'[p] # "open"
              /\ lsn'[p] = "closed" => ctx = "canceled"
              /\ loop[p] = "returned" => loop'[p] = "returned"
              /\ loop'[p] = "returned" => lsn'[p] # "open"
    PROVE  CauseInv'
  BY DEF CauseInv, EndsWithTheCause, sessionVars, mainVars, callVars

LEMMA CauseStep == CauseInv /\ ListenTypeOK' /\ [ListenNext]_listenVars => CauseInv'
<1> SUFFICES ASSUME CauseInv, ListenTypeOK', [ListenNext]_listenVars PROVE CauseInv'
  OBVIOUS
<1>0. ListenTypeOK
  BY DEF CauseInv
<1> USE DEF sessionVars, mainVars, callVars, loopVars
<1>1. CASE CallBack
  BY <1>0, <1>1 DEF CallBack, Ready, ReadyFails, Disconnected, CauseInv, EndsWithTheCause
<1>2. CASE SessionEnds
  BY <1>0, <1>2
  DEF SessionEnds, Returns, Obey, Return, CauseInv, EndsWithTheCause, Permanent, Early
<1>3. CASE Report
  BY <1>0, <1>3 DEF Report, CauseInv, EndsWithTheCause
<1>4. CASE Lower
  BY <1>0, <1>4 DEF Lower, CauseInv, EndsWithTheCause
<1>5. CASE CancelOwn
  BY <1>0, <1>5 DEF CancelOwn, CauseInv, EndsWithTheCause
<1>6. CASE TakeAcceptErr
  BY <1>0, <1>6 DEF TakeAcceptErr, CauseInv, EndsWithTheCause
<1>7. CASE Sample
  <2>1. CASE serveErr # "nil"
    BY <1>0, <1>7, <2>1 DEF Sample, CauseInv, EndsWithTheCause
  <2>2. CASE serveErr = "nil"
    <3>1. ctx = "canceled" => caller
      BY <1>7, <2>2 DEF Sample, CauseInv
    <3>2. caller \/ \E p \in Ports : lsn[p] = "failed"
      BY <1>0, <1>7, <3>1 DEF Sample, CauseInv, ListenTypeOK
    <3> QED  BY <1>0, <1>7, <2>2, <3>2 DEF Sample, CauseInv, EndsWithTheCause
  <2> QED  BY <2>1, <2>2
<1>8. CASE Explain
  BY <1>0, <1>8 DEF Explain, CauseInv, EndsWithTheCause
<1>9. CASE Unwind
  BY <1>0, <1>9 DEF Unwind, CauseInv, EndsWithTheCause, ListenTypeOK
<1>10. CASE CallerCancels
  BY <1>0, <1>10 DEF CallerCancels, CauseInv, EndsWithTheCause
<1>11. ASSUME NEW p \in Ports, LoopStep(p) PROVE CauseInv'
  BY <1>0, <1>11, CauseSame
  DEF LoopStep, CheckReady, TakeSlot, Refuse, AcceptFails, ListenTypeOK, CauseInv
<1>12. ASSUME NEW p \in Ports, CloseListener(p) \/ ListenerFails(p) PROVE CauseInv'
  BY <1>0, <1>12, CauseSame DEF CloseListener, ListenerFails, ListenTypeOK, CauseInv
<1>13. ASSUME NEW p \in Ports, NEW c \in Clients, Accept(p, c) PROVE CauseInv'
  BY <1>0, <1>13, CauseSame DEF Accept, ListenTypeOK, CauseInv
<1>14. ASSUME NEW c \in Clients, ForwardStep(c) \/ OthersMove(c) \/ CloseLocal(c)
       PROVE CauseInv'
  BY <1>0, <1>14, CauseSame
  DEF ForwardStep, Opens, OpenFails, CopyEnds, SpliceReturns, Release, OthersMove, CloseLocal,
      CauseInv
<1>15. CASE UNCHANGED listenVars
  BY <1>0, <1>15, CauseSame DEF listenVars, CauseInv
<1> QED
  BY <1>1, <1>2, <1>3, <1>4, <1>5, <1>6, <1>7, <1>8, <1>9, <1>10, <1>11, <1>12, <1>13,
     <1>14, <1>15
  DEF ListenNext, TailStep, MainStep

\* listen.go:118-124: unless a listener failed by itself, listen ends with what
\* ended its session, or with its caller's cancellation.
THEOREM TrueCause == ListenSpec => []EndsWithTheCause
<1>1. CauseInv /\ [ListenNext]_listenVars => CauseInv'
  BY ListenType, CauseStep DEF CauseInv
<1>2. CauseInv => EndsWithTheCause
  BY DEF CauseInv
<1> QED  BY CauseInit, <1>1, <1>2, PTL DEF ListenSpec
=============================================================================
