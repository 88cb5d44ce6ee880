------------------------- MODULE RelayShutdownProofs -------------------------
(***************************************************************************)
(* The shutdown of a session forgets nobody and admits nobody, and the     *)
(* registry implements SessionSlots.                                       *)
(***************************************************************************)
EXTENDS RelayRegistryProofs

LEMMA ShutdownInvInit == Init => ShutdownInv
  BY ConnsAssumption DEF Init, ShutdownInv, NobodyLeftBehind, SubsAttached, IdleKillsHaveNone,
     ClosedIsEmpty, Threads, Conns, Controls, DataConns

\* Closing sockets opens none.
LEMMA ShutOnlyCloses ==
    ASSUME NEW cs, Shut(cs)
    PROVE  \A c \in Conns : open'[c] => open[c]
  BY DEF Shut

\* A step that only closes sockets and moves other handlers disturbs neither
\* the farewells nor the attachments.
LEMMA FarewellFrame ==
    ASSUME TypeOK, ShutdownInv, UNCHANGED <<closed, subs, farewell>>,
           \A s \in SubControls : pc'[s] = pc[s] /\ sess'[s] = sess[s],
           \A k \in Kills : sess'[k] = sess[k] /\ (pc'[k] = "idle" => pc[k] = "idle"),
           \A p \in PubControls : sess'[p] = sess[p],
           \A c \in Conns : open'[c] => open[c]
    PROVE  NobodyLeftBehind' /\ SubsAttached' /\ IdleKillsHaveNone'
<1>1. subs \in [PubControls -> SUBSET SubControls]
  BY DEF TypeOK, SessionTyped
<1>2. NobodyLeftBehind'
  <2> SUFFICES ASSUME NEW p \in PubControls, NEW s \in subs[p], closed[p], open'[s], pc[s] # "releasing"
               PROVE  \E t \in Closers : sess'[t] = p /\ s \in farewell'[t]
    BY <1>1 DEF NobodyLeftBehind
  <2>1. s \in SubControls /\ open[s]
    BY <1>1 DEF Conns, Controls
  <2>2. PICK t \in Closers : sess[t] = p /\ s \in farewell[t]
    BY <2>1 DEF ShutdownInv, NobodyLeftBehind
  <2>3. sess'[t] = sess[t]
    BY DEF Closers
  <2> QED
    BY <2>2, <2>3
<1>3. SubsAttached' /\ IdleKillsHaveNone'
  BY <1>1 DEF ShutdownInv, SubsAttached, IdleKillsHaveNone
<1> QED
  BY <1>2, <1>3

LEMMA ShutdownInvFrame ==
    ASSUME TypeOK, ShutdownInv, UNCHANGED <<closed, subs, pending, farewell>>,
           \A s \in SubControls : pc'[s] = pc[s] /\ sess'[s] = sess[s],
           \A k \in Kills : sess'[k] = sess[k] /\ (pc'[k] = "idle" => pc[k] = "idle"),
           \A p \in PubControls : sess'[p] = sess[p],
           \A c \in Conns : open'[c] => open[c]
    PROVE  ShutdownInv'
<1>1. ClosedIsEmpty'
  BY DEF ShutdownInv, ClosedIsEmpty
<1> QED
  BY <1>1, FarewellFrame DEF ShutdownInv

\* Forgetting an entry of an empty map leaves it empty.
LEMMA UnstashKeepsEmpty ==
    ASSUME TypeOK, ClosedIsEmpty, UNCHANGED closed,
           NEW p \in PubControls, NEW id, Unstash(p, id)
    PROVE  ClosedIsEmpty'
  BY DEF TypeOK, SessionTyped, ClosedIsEmpty, Unstash

\* A subscriber's handler may move on as long as it stays attached and does
\* not go back on leaving.
LEMMA HandlerFrame ==
    ASSUME TypeOK, ShutdownInv, UNCHANGED <<closed, subs, pending, farewell>>,
           \A k \in Kills : sess'[k] = sess[k] /\ pc'[k] = pc[k],
           \A p \in PubControls : sess'[p] = sess[p],
           \A p \in PubControls : \A s \in subs[p] :
                /\ sess'[s] = sess[s]
                /\ pc'[s] \in {"acking", "serving", "releasing"}
                /\ pc[s] = "releasing" => pc'[s] = "releasing",
           \A c \in Conns : open'[c] => open[c]
    PROVE  ShutdownInv'
<1>1. subs \in [PubControls -> SUBSET SubControls]
  BY DEF TypeOK, SessionTyped
<1>2. NobodyLeftBehind'
  <2> SUFFICES ASSUME NEW p \in PubControls, NEW s \in subs[p], closed[p], open'[s], pc[s] # "releasing"
               PROVE  \E t \in Closers : sess'[t] = p /\ s \in farewell'[t]
    BY <1>1 DEF NobodyLeftBehind
  <2>1. s \in SubControls /\ open[s]
    BY <1>1 DEF Conns, Controls
  <2>2. PICK t \in Closers : sess[t] = p /\ s \in farewell[t]
    BY <2>1 DEF ShutdownInv, NobodyLeftBehind
  <2> QED
    BY <2>2 DEF Closers
<1>3. SubsAttached' /\ IdleKillsHaveNone' /\ ClosedIsEmpty'
  BY <1>1 DEF ShutdownInv, SubsAttached, IdleKillsHaveNone, ClosedIsEmpty
<1> QED
  BY <1>2, <1>3 DEF ShutdownInv

LEMMA ShutdownInvStep == TypeOK /\ ShutdownInv /\ [Next]_vars => ShutdownInv'
<1> SUFFICES ASSUME TypeOK, ShutdownInv, [Next]_vars PROVE ShutdownInv'
  OBVIOUS
<1> USE ConnsAssumption, AttributesAssumption
        DEF Threads, Conns, Controls, DataConns, Closers, TypeOK, PCTyped, LocalsTyped
<1>1. ASSUME NEW p \in PubControls,
             \/ ProveClaim(p) \/ FailClaim(p) \/ RefuseKilled(p) \/ RefuseOccupied(p)
             \/ Insert(p) \/ AckPublisher(p) \/ Unregister(p)
      PROVE  ShutdownInv'
  BY <1>1, ShutdownInvFrame, ShutOnlyCloses DEF ProveClaim, FailClaim, RefuseKilled, RefuseOccupied, Insert, AckPublisher,
     Unregister, Refuse, Goto, sessionVars, localVars, shutdownVars
<1>2. ASSUME NEW c \in Controls, LoseControl(c) \/ GoSilent(c)
      PROVE  ShutdownInv'
  <2>1. /\ UNCHANGED <<closed, subs, pending, farewell, sess, open>>
        /\ pc[c] = "serving"
        /\ pc' = [pc EXCEPT ![c] = IF c \in PubControls THEN "unregistering" ELSE "releasing"]
    BY <1>2 DEF LoseControl, GoSilent, Goto, sessionVars, localVars, shutdownVars
  <2>2. \A p \in PubControls : \A s \in subs[p] :
            s \in SubControls /\ pc[s] \in {"acking", "serving", "releasing"}
    BY DEF ShutdownInv, SubsAttached, SessionTyped
  <2> QED
    BY <2>1, <2>2, HandlerFrame
<1>3. ASSUME NEW k \in Kills, NEW tag \in Tags, Kill(k, tag)
      PROVE  ShutdownInv'
  <2>1. PICK sid \in SessionIDs : sess' = [sess EXCEPT ![k] = registry[sid]]
    BY <1>3 DEF Kill
  <2>2. /\ UNCHANGED <<closed, subs, pending, farewell, open>>
        /\ pc[k] = "idle" /\ pc' = [pc EXCEPT ![k] = "severing"]
    BY <1>3 DEF Kill, Goto, sessionVars, shutdownVars
  <2>3. sess[k] = None
    BY <2>2 DEF ShutdownInv, IdleKillsHaveNone
  <2>4. subs \in [PubControls -> SUBSET SubControls]
    BY DEF SessionTyped
  <2>5. NobodyLeftBehind'
    <3> SUFFICES ASSUME NEW p \in PubControls, NEW s \in subs[p], closed[p], open[s], pc[s] # "releasing"
                 PROVE  \E t \in Closers : sess'[t] = p /\ s \in farewell[t]
      BY <2>2, <2>4 DEF NobodyLeftBehind
    <3>1. PICK t \in Closers : sess[t] = p /\ s \in farewell[t]
      BY DEF ShutdownInv, NobodyLeftBehind
    <3>2. t # k
      BY <2>3, <3>1
    <3> QED
      BY <2>1, <3>1, <3>2
  <2>6. SubsAttached' /\ IdleKillsHaveNone' /\ ClosedIsEmpty'
    BY <2>1, <2>2, <2>4 DEF ShutdownInv, SubsAttached, IdleKillsHaveNone, ClosedIsEmpty
  <2> QED
    BY <2>5, <2>6 DEF ShutdownInv
<1>4. ASSUME NEW k \in Kills, SeverPublisher(k) \/ \E tag \in Tags : RefuseKill(k, tag)
      PROVE  ShutdownInv'
  BY <1>4, ShutdownInvFrame, ShutOnlyCloses DEF RefuseKill, SeverPublisher, Goto, sessionVars, localVars, shutdownVars
<1>5. ASSUME NEW t \in Closers, BeginShutdown(t)
      PROVE  ShutdownInv'
  <2>1. sess[t] \in PubControls /\ pc' = [pc EXCEPT ![t] = "closing"] /\ UNCHANGED <<sess, subs, open>>
    BY <1>5 DEF BeginShutdown, Goto, localVars, LocalsSet, sessionVars
  <2>2. CASE closed[sess[t]]
    <3>1. UNCHANGED <<closed, pending, farewell>>
      BY <1>5, <2>2 DEF BeginShutdown, sessionVars, shutdownVars
    <3> QED
      BY <2>1, <3>1, ShutdownInvFrame
  <2>3. CASE ~closed[sess[t]]
    <3>1. /\ closed' = [closed EXCEPT ![sess[t]] = TRUE]
          /\ pending' = [pending EXCEPT ![sess[t]] = [i \in ReqIDs |-> None]]
          /\ farewell' = [farewell EXCEPT ![t] = subs[sess[t]]]
      BY <1>5, <2>3 DEF BeginShutdown
    <3>2. NobodyLeftBehind'
      BY <2>1, <2>3, <3>1 DEF ShutdownInv, NobodyLeftBehind, SessionTyped, ShutdownTyped
    <3>3. SubsAttached' /\ IdleKillsHaveNone'
      BY <2>1 DEF ShutdownInv, SubsAttached, IdleKillsHaveNone, SessionTyped
    <3>4. ClosedIsEmpty'
      BY <3>1 DEF ShutdownInv, ClosedIsEmpty, SessionTyped
    <3> QED
      BY <3>2, <3>3, <3>4 DEF ShutdownInv
  <2> QED
    BY <2>2, <2>3
<1>6. ASSUME NEW t \in Closers, CloseDoomed(t) \/ FinishShutdown(t) \/ HardClose(t)
      PROVE  ShutdownInv'
  BY <1>6, ShutdownInvFrame, ShutOnlyCloses DEF CloseDoomed, FinishShutdown, HardClose, Goto,
     sessionVars, localVars, shutdownVars
<1>7. ASSUME NEW t \in Closers, NEW s \in SubControls, Tell(t, s) \/ SkipGone(t, s)
      PROVE  ShutdownInv'
  <2>1. /\ farewell' = [farewell EXCEPT ![t] = @ \ {s}]
        /\ UNCHANGED <<closed, subs, pending, pc, sess>>
        /\ ~open'[s] /\ \A c \in Conns : open'[c] => open[c]
    BY <1>7 DEF Tell, SkipGone, Shut, sessionVars, localVars
  <2>2. NobodyLeftBehind'
    BY <2>1 DEF ShutdownInv, NobodyLeftBehind, SessionTyped, ShutdownTyped
  <2>3. SubsAttached' /\ IdleKillsHaveNone' /\ ClosedIsEmpty'
    BY <2>1 DEF ShutdownInv, SubsAttached, IdleKillsHaveNone, ClosedIsEmpty
  <2> QED
    BY <2>2, <2>3 DEF ShutdownInv
<1>8. ASSUME NEW s \in SubControls,
             FindSession(s) \/ RefuseSubscriber(s) \/ TurnAway(s) \/ AckSubscriber(s)
      PROVE  ShutdownInv'
  <2>1. \A p \in PubControls : \A x \in subs[p] :
            x \in SubControls /\ pc[x] \in {"acking", "serving", "releasing"}
    BY DEF ShutdownInv, SubsAttached, SessionTyped
  <2>2. /\ UNCHANGED <<closed, subs, pending, farewell>>
        /\ \A t \in Threads : t # s => pc'[t] = pc[t] /\ sess'[t] = sess[t]
        /\ \A c \in Conns : open'[c] => open[c]
    BY <1>8, ShutOnlyCloses DEF FindSession, RefuseSubscriber, TurnAway, AckSubscriber, Refuse, Goto,
       sessionVars, localVars, shutdownVars
  <2>3. \/ pc[s] \in {"hello", "joining"}
        \/ pc[s] = "acking" /\ pc'[s] \in {"serving", "releasing"} /\ sess'[s] = sess[s]
    BY <1>8 DEF FindSession, RefuseSubscriber, TurnAway, AckSubscriber, Goto, localVars
  <2> QED
    BY <2>1, <2>2, <2>3, HandlerFrame
<1>9. ASSUME NEW s \in SubControls, AddSubscriber(s)
      PROVE  ShutdownInv'
  BY <1>9 DEF AddSubscriber, Admits, Goto, localVars, shutdownVars, LocalsSet,
     ShutdownInv, NobodyLeftBehind, SubsAttached, IdleKillsHaveNone, ClosedIsEmpty, SessionTyped
<1>10. ASSUME NEW s \in SubControls, Release(s)
       PROVE  ShutdownInv'
  <2>1. /\ pc[s] = "releasing" /\ sess[s] \in PubControls
        /\ subs' = [subs EXCEPT ![sess[s]] = @ \ {s}]
        /\ UNCHANGED <<closed, pending, farewell, sess>>
        /\ pc' = [pc EXCEPT ![s] = "done"]
        /\ \A c \in Conns : open'[c] => open[c]
    BY <1>10, ShutOnlyCloses DEF Release, Goto, localVars, shutdownVars, LocalsSet
  <2>2. \A p \in PubControls : subs'[p] \subseteq subs[p] \ {s}
    BY <2>1 DEF ShutdownInv, SubsAttached, SessionTyped
  <2>3. NobodyLeftBehind'
    BY <2>1, <2>2 DEF ShutdownInv, NobodyLeftBehind, SessionTyped
  <2>4. SubsAttached' /\ IdleKillsHaveNone' /\ ClosedIsEmpty'
    BY <2>1, <2>2 DEF ShutdownInv, SubsAttached, IdleKillsHaveNone, ClosedIsEmpty, SessionTyped
  <2> QED
    BY <2>3, <2>4 DEF ShutdownInv
<1>11. ASSUME NEW d \in SubData,
              \/ FindForData(d) \/ RefuseSubData(d) \/ TurnAwayData(d)
              \/ AckSubData(d) \/ RequestData(d)
       PROVE  ShutdownInv'
  BY <1>11, ShutdownInvFrame, ShutOnlyCloses DEF FindForData, RefuseSubData, TurnAwayData, AckSubData, RequestData,
     Refuse, Goto, sessionVars, localVars, shutdownVars
<1>12. ASSUME NEW d \in SubData, AddPending(d)
       PROVE  ShutdownInv'
  <2>1. ClosedIsEmpty'
    BY <1>12 DEF AddPending, Stashes, ShutdownInv, ClosedIsEmpty, SessionTyped
  <2> QED
    BY <1>12, <2>1, FarewellFrame DEF AddPending, Goto, shutdownVars, ShutdownInv
<1>13. ASSUME NEW d \in SubData, AbandonSubData(d)
       PROVE  ShutdownInv'
  <2>1. sess[d] \in PubControls
    BY <1>13 DEF AbandonSubData, LocalsSet
  <2>2. ClosedIsEmpty'
    BY <1>13, <2>1, UnstashKeepsEmpty DEF AbandonSubData, ShutdownInv
  <2> QED
    BY <1>13, <2>2, FarewellFrame, ShutOnlyCloses DEF AbandonSubData, Goto, localVars, shutdownVars, ShutdownInv
<1>14. ASSUME NEW p \in PubControls, NEW id \in ReqIDs, Expire(p, id)
       PROVE  ShutdownInv'
  <2>1. ClosedIsEmpty'
    BY <1>14, UnstashKeepsEmpty DEF Expire, ShutdownInv
  <2> QED
    BY <1>14, <2>1, FarewellFrame, ShutOnlyCloses DEF Expire, localVars, shutdownVars, ShutdownInv
<1>15. ASSUME NEW q \in PubData, NEW p \in PubControls, NEW n \in DOMAIN sent[p],
              AttachPublisher(q, p, n)
       PROVE  ShutdownInv'
  BY <1>15, ShutdownInvFrame, ShutOnlyCloses DEF AttachPublisher, Goto, sessionVars, shutdownVars
<1>16. ASSUME NEW q \in PubData, Claim(q)
       PROVE  ShutdownInv'
  <2>1. sess[q] \in PubControls
    BY <1>16 DEF Claim, LocalsSet
  <2>2. UNCHANGED closed /\ (Unstash(sess[q], req[q]) \/ UNCHANGED pending)
    BY <1>16 DEF Claim
  <2>3. ClosedIsEmpty'
    BY <2>1, <2>2, UnstashKeepsEmpty DEF ShutdownInv, ClosedIsEmpty
  <2> QED
    BY <1>16, <2>3, FarewellFrame, ShutOnlyCloses DEF Claim, Goto, shutdownVars, ShutdownInv
<1>17. ASSUME NEW q \in PubData, AddStream(q) \/ EndSplice(q)
       PROVE  ShutdownInv'
  BY <1>17, ShutdownInvFrame, ShutOnlyCloses DEF AddStream, EndSplice, Goto, localVars, shutdownVars
<1>18. ASSUME NEW c \in Conns, Break(c)
       PROVE  ShutdownInv'
  BY <1>18, ShutdownInvFrame, ShutOnlyCloses DEF Break, Shut, sessionVars, localVars, shutdownVars
<1>19. CASE UNCHANGED vars
  BY <1>19, ShutdownInvFrame, ShutOnlyCloses DEF vars, sessionVars, localVars, shutdownVars
<1> HIDE DEF TypeOK, PCTyped, LocalsTyped, Conns, DataConns, Threads
<1>20. ASSUME NEW t \in Closers, ShutdownStep(t)
       PROVE  ShutdownInv'
  BY <1>5, <1>6, <1>7, <1>20 DEF ShutdownStep
<1>21. ASSUME NEW p \in PubControls, PublisherStep(p)
       PROVE  ShutdownInv'
  BY <1>1, <1>2, <1>20, <1>21 DEF PublisherStep
<1>22. ASSUME NEW s \in SubControls, SubscriberStep(s)
       PROVE  ShutdownInv'
  BY <1>2, <1>8, <1>9, <1>10, <1>22 DEF SubscriberStep
<1>23. ASSUME NEW d \in SubData, SubDataStep(d)
       PROVE  ShutdownInv'
  BY <1>11, <1>12, <1>13, <1>23 DEF SubDataStep
<1>24. ASSUME NEW k \in Kills, KillStep(k)
       PROVE  ShutdownInv'
  BY <1>4, <1>20, <1>24 DEF KillStep
<1>25. CASE System
  BY <1>6, <1>14, <1>16, <1>17, <1>21, <1>22, <1>23, <1>24, <1>25 DEF System, PubDataStep
<1>26. CASE Environment
  BY <1>2, <1>3, <1>4, <1>7, <1>15, <1>18, <1>26 DEF Environment
<1> QED
  BY <1>19, <1>25, <1>26 DEF Next

\* A subscriber on a closed session is never forgotten: until its connection is
\* down somebody is about to tell it, or its own handler is already leaving.
THEOREM ShutdownForgetsNobody == Spec => []NobodyLeftBehind
<1>1. ShutdownInv => NobodyLeftBehind
  BY DEF ShutdownInv
<1> QED
  BY <1>1, TypeOKInit, TypeOKStep, ShutdownInvInit, ShutdownInvStep, PTL DEF Spec

\* Whoever looked a session up before it closed finds it shut: no subscriber,
\* no waiting connection and no stream joins it afterwards.
THEOREM ClosedAdmits == Spec => ClosedAdmitsNothing
<1>1. TypeOK /\ ShutdownInv /\ TypeOK' /\ ShutdownInv' /\ [Next]_vars =>
        [\A p \in PubControls :
            closed[p] => /\ closed'[p]
                         /\ subs'[p] \subseteq subs[p]
                         /\ streams'[p] \subseteq streams[p]
                         /\ pending'[p] = pending[p]]_vars
  <2> SUFFICES ASSUME TypeOK, ShutdownInv, ShutdownInv', Next, NEW p \in PubControls, closed[p]
               PROVE  /\ closed'[p]
                      /\ subs'[p] \subseteq subs[p]
                      /\ streams'[p] \subseteq streams[p]
                      /\ pending'[p] = pending[p]
    OBVIOUS
  <2>1. closed'[p] /\ subs'[p] \subseteq subs[p] /\ streams'[p] \subseteq streams[p]
    <3>1. CASE UNCHANGED <<closed, subs, streams>>
      BY <3>1
    <3>2. ASSUME NEW t \in Closers, BeginShutdown(t)
          PROVE  closed'[p] /\ UNCHANGED <<subs, streams>>
      BY <3>2 DEF BeginShutdown, sessionVars, TypeOK, SessionTyped
    <3>3. ASSUME NEW s \in SubControls, AddSubscriber(s) \/ Release(s)
          PROVE  UNCHANGED <<closed, streams>> /\ subs'[p] \subseteq subs[p]
      <4>1. CASE AddSubscriber(s)
        BY <4>1 DEF AddSubscriber, Admits, TypeOK, SessionTyped
      <4>2. CASE Release(s)
        BY <4>2 DEF Release, TypeOK, SessionTyped
      <4> QED
        BY <3>3, <4>1, <4>2
    <3>4. ASSUME NEW q \in PubData, AddStream(q) \/ EndSplice(q)
          PROVE  UNCHANGED <<closed, subs>> /\ streams'[p] \subseteq streams[p]
      BY <3>4 DEF AddStream, EndSplice, TypeOK, SessionTyped
    <3>5. CASE System
      <4>1. ASSUME NEW t \in Closers, ShutdownStep(t)
            PROVE  (\E u \in Closers : BeginShutdown(u)) \/ UNCHANGED <<closed, subs, streams>>
        BY <4>1 DEF ShutdownStep, CloseDoomed, FinishShutdown, SkipGone, sessionVars
      <4>2. ASSUME NEW x \in PubControls, PublisherStep(x)
            PROVE  (\E u \in Closers : BeginShutdown(u)) \/ UNCHANGED <<closed, subs, streams>>
        BY <4>1, <4>2 DEF PublisherStep, Closers, ProveClaim, FailClaim, RefuseKilled, RefuseOccupied,
           Insert, AckPublisher, LoseControl, Unregister, sessionVars
      <4>3. ASSUME NEW s \in SubControls, SubscriberStep(s)
            PROVE  AddSubscriber(s) \/ Release(s) \/ UNCHANGED <<closed, subs, streams>>
        BY <4>3 DEF SubscriberStep, FindSession, RefuseSubscriber, TurnAway, AckSubscriber,
           LoseControl, sessionVars
      <4>4. ASSUME NEW d \in SubData, SubDataStep(d)
            PROVE  UNCHANGED <<closed, subs, streams>>
        BY <4>4 DEF SubDataStep, FindForData, RefuseSubData, AddPending, TurnAwayData, AckSubData,
           RequestData, AbandonSubData, sessionVars
      <4>5. ASSUME NEW q \in PubData, PubDataStep(q)
            PROVE  AddStream(q) \/ EndSplice(q) \/ UNCHANGED <<closed, subs, streams>>
        BY <4>5 DEF PubDataStep, Claim
      <4>6. ASSUME NEW k \in Kills, KillStep(k)
            PROVE  (\E u \in Closers : BeginShutdown(u)) \/ UNCHANGED <<closed, subs, streams>>
        BY <4>1, <4>6 DEF KillStep, Closers, SeverPublisher, sessionVars
      <4>7. ASSUME NEW t \in Closers, HardClose(t)
            PROVE  UNCHANGED <<closed, subs, streams>>
        BY <4>7 DEF HardClose, sessionVars
      <4>8. ASSUME NEW x \in PubControls, NEW id \in ReqIDs, Expire(x, id)
            PROVE  UNCHANGED <<closed, subs, streams>>
        BY <4>8 DEF Expire
      <4> QED
        BY <3>1, <3>2, <3>3, <3>4, <3>5, <4>2, <4>3, <4>4, <4>5, <4>6, <4>7, <4>8 DEF System
    <3>6. CASE Environment
      BY <3>6 DEF Environment, GoSilent, Tell, AttachPublisher, Kill, RefuseKill, Break, sessionVars
    <3> QED
      BY <3>5, <3>6 DEF Next
  <2>2. pending'[p] = pending[p]
    BY <2>1 DEF ShutdownInv, ClosedIsEmpty
  <2> QED
    BY <2>1, <2>2
<1> QED
  BY <1>1, TypeOKInit, TypeOKStep, ShutdownInvInit, ShutdownInvStep, PTL DEF Spec, ClosedAdmitsNothing

------------------------------------------------------------------------------
(* The registry implements SessionSlots *)

\* A step that leaves the registry and the bans alone moves no slot.
LEMMA SlotStep == TypeOK /\ SlotInv /\ [Next]_vars => [Slots!Next]_Slot
<1> SUFFICES ASSUME TypeOK, SlotInv, [Next]_vars PROVE [Slots!Next]_Slot
  OBVIOUS
<1> USE ConnsAssumption, AttributesAssumption DEF Controls
<1>1. CASE UNCHANGED <<registry, killed>>
  BY <1>1 DEF Slot
<1>2. ASSUME NEW p \in PubControls, Insert(p)
      PROVE  Slots!Take(p)
  BY <1>2 DEF Insert, Slots!Take, Slot, TypeOK, RegistryTyped
<1>3. ASSUME NEW p \in PubControls, Unregister(p)
      PROVE  Slots!GiveBack(p) \/ UNCHANGED Slot
  <2>1. /\ UNCHANGED killed /\ SidOf[p] \in SessionIDs
        /\ registry' = [registry EXCEPT ![SidOf[p]] = None]
        /\ registry[SidOf[p]] = p \/ SidOf[p] \in killed
    BY <1>3 DEF Unregister, SlotInv, DeletesOnlyItsOwn, Holding
  <2>2. CASE SidOf[p] \in killed
    BY <2>1, <2>2 DEF Slot, TypeOK, RegistryTyped
  <2>3. CASE SidOf[p] \notin killed
    <3>1. Slot[SidOf[p]] = p
      BY <2>1, <2>3 DEF Slot
    <3>2. Slot' = [Slot EXCEPT ![SidOf[p]] = None]
      BY <2>1, <2>3 DEF Slot, TypeOK, RegistryTyped
    <3> QED
      BY <2>1, <3>1, <3>2 DEF Slots!GiveBack
  <2> QED
    BY <2>2, <2>3
<1>4. ASSUME NEW k \in Kills, NEW tag \in Tags, Kill(k, tag)
      PROVE  \E sid \in SessionIDs : Slots!Ban(sid)
  <2>1. PICK sid \in SessionIDs :
            /\ registry[sid] # None
            /\ killed' = killed \cup {sid}
            /\ registry' = [registry EXCEPT ![sid] = None]
    BY <1>4 DEF Kill, Matching
  <2>2. sid \notin killed
    BY <2>1 DEF SlotInv, KilledStaysOut
  <2>3. Slots!Ban(sid)
    BY <2>1, <2>2 DEF Slots!Ban, Slot, TypeOK, RegistryTyped
  <2> QED
    BY <2>3
<1>5. ASSUME NEW t \in Closers, ShutdownStep(t)
      PROVE  UNCHANGED <<registry, killed>>
  BY <1>5 DEF ShutdownStep, BeginShutdown, CloseDoomed, FinishShutdown, SkipGone, registryVars
<1>6. CASE System
  <2>1. ASSUME NEW p \in PubControls, PublisherStep(p)
        PROVE  Insert(p) \/ Unregister(p) \/ UNCHANGED <<registry, killed>>
    BY <1>5, <2>1 DEF PublisherStep, Closers, ProveClaim, FailClaim, RefuseKilled, RefuseOccupied,
       AckPublisher, LoseControl, registryVars
  <2>2. ASSUME NEW s \in SubControls, SubscriberStep(s)
        PROVE  UNCHANGED <<registry, killed>>
    BY <2>2 DEF SubscriberStep, FindSession, RefuseSubscriber, AddSubscriber, TurnAway, AckSubscriber,
       LoseControl, Release, registryVars
  <2>3. ASSUME NEW d \in SubData, SubDataStep(d)
        PROVE  UNCHANGED <<registry, killed>>
    BY <2>3 DEF SubDataStep, FindForData, RefuseSubData, AddPending, TurnAwayData, AckSubData,
       RequestData, AbandonSubData, registryVars
  <2>4. ASSUME NEW q \in PubData, PubDataStep(q)
        PROVE  UNCHANGED <<registry, killed>>
    BY <2>4 DEF PubDataStep, Claim, AddStream, EndSplice, registryVars
  <2>5. ASSUME NEW k \in Kills, KillStep(k)
        PROVE  UNCHANGED <<registry, killed>>
    BY <1>5, <2>5 DEF KillStep, Closers, SeverPublisher, registryVars
  <2>6. ASSUME NEW t \in Closers, HardClose(t)
        PROVE  UNCHANGED <<registry, killed>>
    BY <2>6 DEF HardClose, registryVars
  <2>7. ASSUME NEW p \in PubControls, NEW id \in ReqIDs, Expire(p, id)
        PROVE  UNCHANGED <<registry, killed>>
    BY <2>7 DEF Expire, registryVars
  <2> QED
    BY <1>1, <1>2, <1>3, <1>6, <2>1, <2>2, <2>3, <2>4, <2>5, <2>6, <2>7 DEF System, Slots!Next
<1>7. CASE Environment
  BY <1>1, <1>4, <1>7 DEF Environment, GoSilent, Tell, AttachPublisher, RefuseKill, Break, registryVars,
     Slots!Next
<1>8. CASE UNCHANGED vars
  BY <1>1, <1>8 DEF vars, registryVars
<1> QED
  BY <1>6, <1>7, <1>8 DEF Next

LEMMA SlotInit == Init => Slots!Init
  BY DEF Init, Slots!Init, Slot

\* The registry implements SessionSlots: publishers take, hold and give back
\* the slot of a session exclusively, and a ban is never lifted.
THEOREM RegistryImplementsSlots == Spec => ImplementsSlots
  BY SlotInit, SlotStep, TypeOKInit, TypeOKStep, SlotInvInit, SlotInvStep, PTL
     DEF Spec, ImplementsSlots, Slots!Spec
=============================================================================
