-------------------------- MODULE RelayPairingProofs --------------------------
(***************************************************************************)
(* How sessions end, what their counters count and who owns a waiting      *)
(* connection, whatever the number of connections, sessions and kills.     *)
(***************************************************************************)
EXTENDS RelayShutdownProofs

\* A step of the relay is a step of one of its handlers or of its peers.
LEMMA Steps ==
    ASSUME [Next]_vars
    PROVE  \/ \E p \in PubControls :
                \/ ProveClaim(p) \/ FailClaim(p) \/ RefuseKilled(p) \/ RefuseOccupied(p)
                \/ Insert(p) \/ AckPublisher(p) \/ Unregister(p)
           \/ \E c \in Controls : LoseControl(c) \/ GoSilent(c)
           \/ \E t \in Closers :
                BeginShutdown(t) \/ CloseDoomed(t) \/ FinishShutdown(t) \/ HardClose(t)
           \/ \E t \in Closers, s \in SubControls : Tell(t, s) \/ SkipGone(t, s)
           \/ \E k \in Kills : SeverPublisher(k) \/ \E tag \in Tags : Kill(k, tag) \/ RefuseKill(k, tag)
           \/ \E s \in SubControls :
                \/ FindSession(s) \/ RefuseSubscriber(s) \/ AddSubscriber(s)
                \/ TurnAway(s) \/ AckSubscriber(s) \/ Release(s)
           \/ \E d \in SubData :
                \/ FindForData(d) \/ RefuseSubData(d) \/ AddPending(d) \/ TurnAwayData(d)
                \/ AckSubData(d) \/ RequestData(d) \/ AbandonSubData(d)
           \/ \E p \in PubControls, id \in ReqIDs : Expire(p, id)
           \/ \E q \in PubData : Claim(q) \/ AddStream(q) \/ EndSplice(q)
           \/ \E q \in PubData, p \in PubControls : \E n \in DOMAIN sent[p] : AttachPublisher(q, p, n)
           \/ \E c \in Conns : Break(c)
           \/ UNCHANGED vars
<1>1. ASSUME NEW t \in Closers, ShutdownStep(t)
      PROVE  \/ BeginShutdown(t) \/ CloseDoomed(t) \/ FinishShutdown(t)
             \/ \E s \in SubControls : SkipGone(t, s)
  BY <1>1 DEF ShutdownStep
<1>2. CASE System
  <2>1. CASE \E p \in PubControls : PublisherStep(p)
    BY <1>1, <2>1 DEF PublisherStep, Closers, Controls
  <2>2. CASE \E s \in SubControls : SubscriberStep(s)
    BY <2>2 DEF SubscriberStep, Controls
  <2>3. CASE \E d \in SubData : SubDataStep(d)
    BY <2>3 DEF SubDataStep
  <2>4. CASE \E k \in Kills : KillStep(k)
    BY <1>1, <2>4 DEF KillStep, Closers
  <2>5. CASE \E q \in PubData : PubDataStep(q)
    BY <2>5 DEF PubDataStep
  <2> QED
    BY <1>2, <2>1, <2>2, <2>3, <2>4, <2>5 DEF System
<1>3. CASE Environment
  BY <1>3 DEF Environment
<1> QED
  BY <1>2, <1>3 DEF Next

------------------------------------------------------------------------------
(* The end of a session *)

LEMMA EndInvInit == Init => EndInv
<1> SUFFICES ASSUME Init PROVE EndInv
  OBVIOUS
<1> USE ConnsAssumption DEF Init, Threads, Conns, Controls, DataConns, Closers
<1>1. KillWillShut /\ ShutWhenPast
  BY DEF KillWillShut, ShutWhenPast
<1>2. \A p \in PubControls : Held(p) = {} /\ registry[SidOf[p]] # p
  BY AttributesAssumption DEF Held
<1>3. NeverRegistered
  BY <1>2 DEF NeverRegistered
<1> QED
  BY <1>1, <1>3 DEF EndInv

\* What may change while the closers of every session stay where they are.
LEMMA EndFrame ==
    ASSUME TypeOK, EndInv, UNCHANGED <<registry, closed>>,
           \A t \in Closers : pc'[t] = pc[t] /\ sess'[t] = sess[t],
           \A c \in Conns : open'[c] => open[c],
           \A p \in PubControls : \A t \in Threads :
                sess'[t] = p => sess[t] = p \/ registry[SidOf[p]] = p,
           \A p \in PubControls :
                (\A t \in Threads : sess[t] = p => t = p) =>
                    subs'[p] \subseteq subs[p] /\ Held(p)' \subseteq Held(p)
    PROVE  EndInv'
<1> USE ConnsAssumption DEF EndInv, Closers
<1>1. KillWillShut'
  BY DEF KillWillShut
<1>2. ShutWhenPast'
  <2>1. \A k \in Kills : pc[k] \in {"shutdown", "closing", "notifying", "replied"} => sess[k] \in Conns
    BY DEF TypeOK, LocalsSet, LocalsTyped, Threads, Conns, Controls
  <2> QED
    BY <2>1 DEF ShutWhenPast
<1>3. NeverRegistered'
  BY DEF NeverRegistered
<1> QED
  BY <1>1, <1>2, <1>3

\* Closing sockets, with every handler and session as it was.
LEMMA EndClosing ==
    ASSUME TypeOK, EndInv, UNCHANGED <<registry, closed, subs, pending, sess>>,
           \A t \in Closers : pc'[t] = pc[t],
           \A c \in Conns : open'[c] => open[c]
    PROVE  EndInv'
  BY EndFrame DEF Held

\* A publisher's handler that moves on in peace: to where it is not about to
\* shut its session down, and not from where it was.
LEMMA EndPublisher ==
    ASSUME TypeOK, EndInv, UNCHANGED <<registry, closed, subs, pending, sess>>,
           NEW p \in PubControls, NEW label, pc' = [pc EXCEPT ![p] = label],
           \A c \in Conns : open'[c] => open[c],
           \/ label \in {"unregistering", "shutdown"}
           \/ pc[p] = "acking" /\ label = "serving"
           \/ pc[p] \in {"hello", "claimed"} /\ label \in {"claimed", "done"}
    PROVE  EndInv'
<1> USE ConnsAssumption DEF EndInv, Closers, TypeOK, PCTyped, Threads, Conns, Controls
<1>1. \A k \in Kills : pc'[k] = pc[k]
  OBVIOUS
<1>2. KillWillShut'
  BY <1>1 DEF KillWillShut
<1>3. ShutWhenPast'
  <2>1. \A k \in Kills : pc[k] \in {"shutdown", "closing", "notifying", "replied"} => sess[k] \in PubControls
    BY DEF LocalsSet, LocalsTyped
  <2> QED
    BY <1>1, <2>1 DEF ShutWhenPast
<1>4. NeverRegistered'
  BY DEF NeverRegistered, Held
<1> QED
  BY <1>2, <1>3, <1>4

LEMMA EndInvStep ==
    TypeOK /\ SlotInv /\ ShutdownInv /\ EndInv /\ [Next]_vars => EndInv'
<1> SUFFICES ASSUME TypeOK, SlotInv, ShutdownInv, EndInv, [Next]_vars PROVE EndInv'
  OBVIOUS
<1> USE ConnsAssumption, AttributesAssumption
        DEF Threads, Conns, Controls, DataConns, Closers, TypeOK, PCTyped, LocalsTyped
<1>1. ASSUME NEW p \in PubControls, ProveClaim(p) \/ FailClaim(p) \/ RefuseKilled(p) \/ RefuseOccupied(p)
      PROVE  EndInv'
  <2>1. PICK label \in {"claimed", "done"} : pc' = [pc EXCEPT ![p] = label]
    BY <1>1 DEF ProveClaim, FailClaim, RefuseKilled, RefuseOccupied, Refuse, Goto
  <2>2. pc[p] \in {"hello", "claimed"} /\ UNCHANGED <<registry, closed, subs, pending, sess>>
    BY <1>1 DEF ProveClaim, FailClaim, RefuseKilled, RefuseOccupied, registryVars, sessionVars, localVars
  <2>3. \A c \in Conns : open'[c] => open[c]
    BY <1>1, ShutOnlyCloses DEF ProveClaim, FailClaim, RefuseKilled, RefuseOccupied, Refuse
  <2> HIDE DEF Conns
  <2> QED
    BY <2>1, <2>2, <2>3, EndPublisher
<1>2. ASSUME NEW p \in PubControls, Insert(p)
      PROVE  EndInv'
  <2>1. /\ pc[p] = "claimed" /\ pc' = [pc EXCEPT ![p] = "acking"]
        /\ registry[SidOf[p]] = None /\ registry' = [registry EXCEPT ![SidOf[p]] = p]
        /\ UNCHANGED <<closed, subs, pending, sess, open>>
    BY <1>2 DEF Insert, Goto, sessionVars, localVars
  <2>2. registry \in [SessionIDs -> PubControls \cup {None}] /\ SidOf[p] \in SessionIDs
    BY DEF RegistryTyped
  <2>3. \A k \in Kills : pc'[k] = pc[k]
    BY <2>1
  <2>4. KillWillShut'
    BY <2>1, <2>2, <2>3 DEF EndInv, KillWillShut
  <2>5. ShutWhenPast'
    BY <2>1 DEF EndInv, ShutWhenPast
  <2>6. NeverRegistered'
    BY <2>1, <2>2 DEF EndInv, NeverRegistered, Held
  <2> QED
    BY <2>4, <2>5, <2>6 DEF EndInv
<1>3. ASSUME NEW p \in PubControls, AckPublisher(p)
      PROVE  EndInv'
  BY <1>3, EndPublisher DEF AckPublisher, Goto, registryVars, sessionVars, localVars
<1>4. ASSUME NEW p \in PubControls, Unregister(p)
      PROVE  EndInv'
  <2>1. /\ pc[p] = "unregistering" /\ pc' = [pc EXCEPT ![p] = "shutdown"]
        /\ registry' = [registry EXCEPT ![SidOf[p]] = None]
        /\ UNCHANGED <<closed, subs, pending, sess, open>>
    BY <1>4 DEF Unregister, Goto, sessionVars, localVars
  <2>2. registry[SidOf[p]] \in {p, None} /\ registry \in [SessionIDs -> PubControls \cup {None}]
    BY <2>1 DEF SlotInv, DeletesOnlyItsOwn, Holding, RegistryTyped
  <2>3. \A k \in Kills : pc'[k] = pc[k]
    BY <2>1
  <2>4. \A x \in PubControls : x # p => (registry'[SidOf[x]] = x <=> registry[SidOf[x]] = x)
    BY <2>1, <2>2
  <2>5. KillWillShut'
    BY <2>1, <2>3, <2>4 DEF EndInv, KillWillShut
  <2>6. ShutWhenPast'
    BY <2>1 DEF EndInv, ShutWhenPast
  <2>7. NeverRegistered'
    BY <2>1, <2>4 DEF EndInv, NeverRegistered, Held
  <2> QED
    BY <2>5, <2>6, <2>7 DEF EndInv
<1>5. ASSUME NEW c \in Controls, LoseControl(c) \/ GoSilent(c)
      PROVE  EndInv'
  <2>1. /\ UNCHANGED <<registry, closed, subs, pending, sess, open>>
        /\ pc[c] = "serving"
        /\ pc' = [pc EXCEPT ![c] = IF c \in PubControls THEN "unregistering" ELSE "releasing"]
    BY <1>5 DEF LoseControl, GoSilent, Goto, registryVars, sessionVars, localVars
  <2>2. CASE c \in PubControls
    BY <2>1, <2>2, EndPublisher
  <2>3. CASE c \in SubControls
    BY <2>1, <2>3, EndClosing
  <2> QED
    BY <2>2, <2>3
<1>6. ASSUME NEW t \in Closers, BeginShutdown(t)
      PROVE  EndInv'
  <2>1. /\ pc[t] = "shutdown" /\ pc' = [pc EXCEPT ![t] = "closing"] /\ sess[t] \in PubControls
        /\ UNCHANGED <<registry, sess, open, subs>>
        /\ closed' = [closed EXCEPT ![sess[t]] = TRUE]
    BY <1>6 DEF BeginShutdown, Goto, localVars, registryVars, LocalsSet, sessionVars, SessionTyped
  <2>2. \A p \in PubControls : Held(p)' \subseteq Held(p)
    <3>1. CASE UNCHANGED pending
      BY <3>1 DEF Held
    <3>2. CASE pending' = [pending EXCEPT ![sess[t]] = [i \in ReqIDs |-> None]]
      <4>1. pending'[sess[t]] = [i \in ReqIDs |-> None] /\ \A p \in PubControls \ {sess[t]} : pending'[p] = pending[p]
        BY <2>1, <3>2 DEF SessionTyped
      <4> QED
        BY <4>1 DEF Held
    <3> QED
      BY <1>6, <3>1, <3>2 DEF BeginShutdown, sessionVars
  <2>3. \A p \in PubControls : closed[p] => closed'[p]
    BY <2>1 DEF SessionTyped
  <2>4. closed'[sess[t]]
    BY <2>1 DEF SessionTyped
  <2>5. KillWillShut'
    BY <2>1, <2>3, <2>4 DEF EndInv, KillWillShut
  <2>6. ShutWhenPast'
    <3>1. \A u \in Closers : pc[u] \in {"closing", "notifying", "replied"} => sess[u] \in PubControls
      BY DEF LocalsSet
    <3> QED
      BY <2>1, <2>3, <2>4, <3>1 DEF EndInv, ShutWhenPast
  <2>7. NeverRegistered'
    BY <2>1, <2>2, <2>3 DEF EndInv, NeverRegistered
  <2> QED
    BY <2>5, <2>6, <2>7 DEF EndInv
<1>7. ASSUME NEW t \in Closers, CloseDoomed(t) \/ FinishShutdown(t)
      PROVE  EndInv'
  <2>1. /\ UNCHANGED <<registry, closed, subs, pending, sess>>
        /\ \A c \in Conns : open'[c] => open[c]
    BY <1>7, ShutOnlyCloses DEF CloseDoomed, FinishShutdown, registryVars, sessionVars, localVars
  <2>2. /\ pc[t] \in {"closing", "notifying"} /\ closed[sess[t]]
        /\ \/ pc' = [pc EXCEPT ![t] = "notifying"]
           \/ t \in PubControls /\ pc' = [pc EXCEPT ![t] = "done"]
           \/ t \in Kills /\ pc' = [pc EXCEPT ![t] = "replied"]
    BY <1>7 DEF CloseDoomed, FinishShutdown, Goto, EndInv, ShutWhenPast
  <2>3. KillWillShut'
    BY <2>1, <2>2 DEF EndInv, KillWillShut
  <2>4. ShutWhenPast'
    <3>1. \A k \in Kills : pc[k] \in {"shutdown", "closing", "notifying", "replied"} => sess[k] \in PubControls
      BY DEF LocalsSet
    <3> QED
      BY <2>1, <2>2, <3>1 DEF EndInv, ShutWhenPast
  <2>5. NeverRegistered'
    <3>1. t \in PubControls => sess[t] = t
      BY DEF LocalsSet
    <3> QED
      BY <2>1, <2>2, <3>1 DEF EndInv, NeverRegistered, Held
  <2> QED
    BY <2>3, <2>4, <2>5 DEF EndInv
<1>8. ASSUME NEW k \in Kills, NEW tag \in Tags, Kill(k, tag)
      PROVE  EndInv'
  <2>1. PICK sid \in SessionIDs :
            /\ registry[sid] # None
            /\ registry' = [registry EXCEPT ![sid] = None]
            /\ sess' = [sess EXCEPT ![k] = registry[sid]]
    <3>1. PICK sid \in SessionIDs :
            /\ Matching(tag) = {sid}
            /\ registry' = [registry EXCEPT ![sid] = None]
            /\ sess' = [sess EXCEPT ![k] = registry[sid]]
      BY <1>8 DEF Kill
    <3>2. registry[sid] # None
      BY <3>1 DEF Matching
    <3> QED
      BY <3>1, <3>2
  <2>2. /\ UNCHANGED <<closed, subs, pending, open>>
        /\ pc[k] = "idle" /\ pc' = [pc EXCEPT ![k] = "severing"]
    BY <1>8 DEF Kill, Goto, sessionVars
  <2>3. registry[sid] \in PubControls /\ SidOf[registry[sid]] = sid /\ pc[registry[sid]] \in Holding
    BY <2>1 DEF SlotInv, ListedIsLive, RegistryTyped
  <2>4. registry \in [SessionIDs -> PubControls \cup {None}]
    BY DEF RegistryTyped
  <2>5. KillWillShut'
    BY <2>1, <2>2, <2>3, <2>4 DEF EndInv, KillWillShut
  <2>6. ShutWhenPast'
    BY <2>1, <2>2 DEF EndInv, ShutWhenPast
  <2>7. NeverRegistered'
    BY <2>1, <2>2, <2>3, <2>4 DEF EndInv, NeverRegistered, Held, Holding
  <2> QED
    BY <2>5, <2>6, <2>7 DEF EndInv
<1>9. ASSUME NEW k \in Kills, SeverPublisher(k)
      PROVE  EndInv'
  <2>1. /\ UNCHANGED <<registry, closed, subs, pending, sess>>
        /\ pc[k] = "severing" /\ pc' = [pc EXCEPT ![k] = "shutdown"]
    BY <1>9 DEF SeverPublisher, Goto, registryVars, sessionVars, localVars
  <2>2. sess[k] \in PubControls /\ ~open'[sess[k]] /\ \A c \in Conns : open'[c] => open[c]
    BY <1>9, ShutOnlyCloses DEF SeverPublisher, Shut, LocalsSet
  <2>3. KillWillShut'
    BY <2>1 DEF EndInv, KillWillShut
  <2>4. ShutWhenPast'
    <3>1. \A u \in Kills : pc[u] \in {"shutdown", "closing", "notifying", "replied"} => sess[u] \in PubControls
      BY DEF LocalsSet
    <3> QED
      BY <2>1, <2>2, <3>1 DEF EndInv, ShutWhenPast
  <2>5. NeverRegistered'
    BY <2>1 DEF EndInv, NeverRegistered, Held
  <2> QED
    BY <2>3, <2>4, <2>5 DEF EndInv
<1>10. ASSUME NEW k \in Kills, NEW tag \in Tags, RefuseKill(k, tag)
       PROVE  EndInv'
  <2>1. /\ UNCHANGED <<registry, closed, subs, pending, sess, open>>
        /\ pc[k] = "idle" /\ pc' = [pc EXCEPT ![k] = "refused"]
    BY <1>10 DEF RefuseKill, Goto, registryVars, sessionVars, localVars
  <2>2. KillWillShut' /\ ShutWhenPast'
    BY <2>1 DEF EndInv, KillWillShut, ShutWhenPast
  <2>3. NeverRegistered'
    BY <2>1 DEF EndInv, NeverRegistered, Held
  <2> QED
    BY <2>2, <2>3 DEF EndInv
<1>11. ASSUME NEW t \in Closers, HardClose(t) \/ \E s \in SubControls : Tell(t, s) \/ SkipGone(t, s)
       PROVE  EndInv'
  BY <1>11, ShutOnlyCloses, EndClosing DEF HardClose, Tell, SkipGone, registryVars, sessionVars, localVars
<1>12. ASSUME NEW s \in SubControls, FindSession(s)
       PROVE  EndInv'
  <2>1. /\ UNCHANGED <<registry, closed, subs, pending, open>>
        /\ registry[SidOf[s]] # None
        /\ sess' = [sess EXCEPT ![s] = registry[SidOf[s]]]
        /\ pc' = [pc EXCEPT ![s] = "joining"]
    BY <1>12 DEF FindSession, Goto, registryVars, sessionVars
  <2>2. SidOf[registry[SidOf[s]]] = SidOf[s]
    BY <2>1 DEF SlotInv, ListedIsLive
  <2> QED
    BY <2>1, <2>2, EndFrame DEF Held
<1>13. ASSUME NEW s \in SubControls, RefuseSubscriber(s) \/ TurnAway(s) \/ AckSubscriber(s)
       PROVE  EndInv'
  BY <1>13, ShutOnlyCloses, EndClosing DEF RefuseSubscriber, TurnAway, AckSubscriber, Refuse, Goto,
     registryVars, sessionVars, localVars
<1>14. ASSUME NEW s \in SubControls, AddSubscriber(s)
       PROVE  EndInv'
  <2>1. /\ UNCHANGED <<registry, closed, pending, sess, open>>
        /\ pc' = [pc EXCEPT ![s] = "acking"]
        /\ sess[s] \in PubControls /\ subs' = [subs EXCEPT ![sess[s]] = @ \cup {s}]
    BY <1>14 DEF AddSubscriber, Goto, registryVars, localVars, LocalsSet
  <2> QED
    BY <2>1, EndFrame DEF Held, SessionTyped
<1>15. ASSUME NEW s \in SubControls, Release(s)
       PROVE  EndInv'
  <2>1. /\ UNCHANGED <<registry, closed, pending, sess>>
        /\ pc' = [pc EXCEPT ![s] = "done"]
        /\ sess[s] \in PubControls /\ subs' = [subs EXCEPT ![sess[s]] = @ \ {s}]
        /\ \A c \in Conns : open'[c] => open[c]
    BY <1>15, ShutOnlyCloses DEF Release, Goto, registryVars, localVars, LocalsSet
  <2> QED
    BY <2>1, EndFrame DEF Held, SessionTyped
<1>16. ASSUME NEW d \in SubData, FindForData(d)
       PROVE  EndInv'
  <2>1. /\ UNCHANGED <<registry, closed, subs, pending, open>>
        /\ registry[SidOf[d]] # None
        /\ sess' = [sess EXCEPT ![d] = registry[SidOf[d]]]
        /\ pc' = [pc EXCEPT ![d] = "joining"]
    BY <1>16 DEF FindForData, Goto, registryVars, sessionVars
  <2>2. SidOf[registry[SidOf[d]]] = SidOf[d]
    BY <2>1 DEF SlotInv, ListedIsLive
  <2> QED
    BY <2>1, <2>2, EndFrame DEF Held
<1>17. ASSUME NEW d \in SubData, RefuseSubData(d) \/ TurnAwayData(d) \/ AckSubData(d) \/ RequestData(d)
       PROVE  EndInv'
  BY <1>17, ShutOnlyCloses, EndClosing DEF RefuseSubData, TurnAwayData, AckSubData, RequestData, Refuse, Goto,
     registryVars, sessionVars, localVars
<1>18. ASSUME NEW d \in SubData, AddPending(d)
       PROVE  EndInv'
  <2>1. /\ UNCHANGED <<registry, closed, subs, sess, open>>
        /\ pc' = [pc EXCEPT ![d] = "acking"]
        /\ sess[d] \in PubControls /\ pending' = [pending EXCEPT ![sess[d]][nextReq[sess[d]]] = d]
    BY <1>18 DEF AddPending, Goto, registryVars, LocalsSet
  <2>2. \A p \in PubControls : p # sess[d] => Held(p)' = Held(p)
    BY <2>1 DEF Held, SessionTyped
  <2> QED
    BY <2>1, <2>2, EndFrame
<1>19. ASSUME NEW p \in PubControls, NEW id \in ReqIDs, Unstash(p, id),
              UNCHANGED <<registry, closed, subs, sess>>,
              \A t \in Closers : pc'[t] = pc[t],
              \A c \in Conns : open'[c] => open[c]
       PROVE  EndInv'
  <2>1. \A x \in PubControls : Held(x)' \subseteq Held(x)
    BY <1>19 DEF Unstash, Held, SessionTyped
  <2> QED
    BY <1>19, <2>1, EndFrame
<1>20. ASSUME NEW d \in SubData, AbandonSubData(d)
       PROVE  EndInv'
  <2>1. sess[d] \in PubControls /\ req[d] \in ReqIDs
    BY <1>20 DEF AbandonSubData, LocalsSet
  <2> QED
    BY <1>20, <2>1, <1>19, ShutOnlyCloses DEF AbandonSubData, Goto, registryVars, localVars
<1>21. ASSUME NEW p \in PubControls, NEW id \in ReqIDs, Expire(p, id)
       PROVE  EndInv'
  BY <1>21, <1>19, ShutOnlyCloses DEF Expire, registryVars, localVars
<1>22. ASSUME NEW q \in PubData, NEW p \in PubControls, NEW n \in DOMAIN sent[p], AttachPublisher(q, p, n)
       PROVE  EndInv'
  <2>1. /\ UNCHANGED <<registry, closed, subs, pending>>
        /\ \A t \in Closers : pc'[t] = pc[t]
        /\ \A c \in Conns : open'[c] => open[c]
    BY <1>22, ShutOnlyCloses DEF AttachPublisher, Goto, registryVars, sessionVars
  <2>2. \/ UNCHANGED sess
        \/ registry[SidOf[p]] # None /\ sess' = [sess EXCEPT ![q] = registry[SidOf[p]]]
    BY <1>22 DEF AttachPublisher
  <2>3. registry[SidOf[p]] # None => SidOf[registry[SidOf[p]]] = SidOf[p]
    BY DEF SlotInv, ListedIsLive
  <2> QED
    BY <2>1, <2>2, <2>3, EndFrame DEF Held
<1>23. ASSUME NEW q \in PubData, Claim(q)
       PROVE  EndInv'
  <2>1. sess[q] \in PubControls /\ req[q] \in ReqIDs
    BY <1>23 DEF Claim, LocalsSet
  <2>2. /\ UNCHANGED <<registry, closed, subs, sess>> /\ (Unstash(sess[q], req[q]) \/ UNCHANGED pending)
        /\ \A t \in Closers : pc'[t] = pc[t]
        /\ \A c \in Conns : open'[c] => open[c]
    BY <1>23, ShutOnlyCloses DEF Claim, Goto, registryVars
  <2> QED
    BY <2>1, <2>2, <1>19, EndClosing
<1>24. ASSUME NEW q \in PubData, AddStream(q) \/ EndSplice(q)
       PROVE  EndInv'
  BY <1>24, ShutOnlyCloses, EndClosing DEF AddStream, EndSplice, Goto, registryVars, localVars
<1>25. ASSUME NEW c \in Conns, Break(c)
       PROVE  EndInv'
  BY <1>25, ShutOnlyCloses, EndClosing DEF Break, registryVars, sessionVars, localVars
<1>26. CASE UNCHANGED vars
  BY <1>26, EndClosing DEF vars, registryVars, sessionVars, localVars
<1> HIDE DEF TypeOK, PCTyped, LocalsTyped, Conns, Controls, DataConns, Threads
<1> QED
  BY <1>1, <1>2, <1>3, <1>4, <1>5, <1>6, <1>7, <1>8, <1>9, <1>10, <1>11, <1>12, <1>13, <1>14, <1>15,
     <1>16, <1>17, <1>18, <1>20, <1>21, <1>22, <1>23, <1>24, <1>25, <1>26, Steps

\* A session that is no longer listed is not forgotten: somebody is about to
\* shut it down, or nobody ever worked on it.
THEOREM UnlistedIsShut == Spec => []UnlistedIsBeingShut
<1>1. TypeOK /\ SlotInv /\ EndInv => UnlistedIsBeingShut
  <2> SUFFICES ASSUME TypeOK, EndInv, NEW p \in PubControls, registry[SidOf[p]] # p, ~closed[p],
                      pc[p] \notin {"hello", "claimed", "unregistering", "shutdown"}
               PROVE  \/ subs[p] = {} /\ Held(p) = {}
                      \/ \E k \in Kills : sess[k] = p /\ pc[k] \in {"severing", "shutdown"}
    BY DEF UnlistedIsBeingShut
  <2>1. pc[p] \in {"acking", "serving", "closing", "notifying", "done"} /\ sess[p] = p /\ p \in Closers
    BY DEF TypeOK, PCTyped, PubPCs, LocalsSet, Closers
  <2> QED
    BY <2>1 DEF EndInv, KillWillShut, ShutWhenPast, NeverRegistered
<1> QED
  BY <1>1, TypeOKInit, TypeOKStep, SlotInvInit, SlotInvStep, ShutdownInvInit, ShutdownInvStep,
     EndInvInit, EndInvStep, PTL DEF Spec

\* When an operator reads that a session was killed, it is over: banned, closed
\* and without its publisher's connection.
THEOREM KilledIsOver == Spec => []KilledWhenRead
<1>1. TypeOK /\ SlotInv /\ EndInv => KilledWhenRead
  BY DEF TypeOK, LocalsSet, SlotInv, KillsNameBanned, EndInv, ShutWhenPast, KilledWhenRead
<1> QED
  BY <1>1, TypeOKInit, TypeOKStep, SlotInvInit, SlotInvStep, ShutdownInvInit, ShutdownInvStep,
     EndInvInit, EndInvStep, PTL DEF Spec

------------------------------------------------------------------------------
(* subscriberCerts *)

LEMMA CertInvInit == Init => CertInv
<1> SUFFICES ASSUME Init PROVE CertInv
  OBVIOUS
<1>1. \A p \in PubControls, c \in Certs : {s \in subs[p] : CertOf[s] = c} = {}
  BY DEF Init
<1>2. CertsCountSubscribers
  BY <1>1, FS_EmptySet DEF Init, CertsCountSubscribers
<1>3. HandlersAttached
  BY ConnsAssumption DEF Init, HandlersAttached, Threads, Conns, Controls
<1> QED
  BY <1>2, <1>3 DEF CertInv

\* What may change while nobody joins or leaves.
LEMMA CertFrame ==
    ASSUME CertInv, UNCHANGED <<subs, certs>>,
           \A s \in SubControls :
                pc'[s] \in {"acking", "serving", "releasing"} =>
                    pc[s] \in {"acking", "serving", "releasing"} /\ sess'[s] = sess[s]
    PROVE  CertInv'
<1>1. CertsCountSubscribers'
  BY DEF CertInv, CertsCountSubscribers
<1>2. HandlersAttached'
  BY DEF CertInv, HandlersAttached
<1> QED
  BY <1>1, <1>2 DEF CertInv

LEMMA CertInvStep ==
    TypeOK /\ ShutdownInv /\ CertInv /\ [Next]_vars => CertInv'
<1> SUFFICES ASSUME TypeOK, ShutdownInv, CertInv, [Next]_vars PROVE CertInv'
  OBVIOUS
<1> USE ConnsAssumption, AttributesAssumption DEF Threads, Conns, Controls, DataConns, Closers
<1>1. ASSUME NEW s \in SubControls, AddSubscriber(s)
      PROVE  CertInv'
  <2> DEFINE p == sess[s]
             Sharing(c) == {x \in subs[p] : CertOf[x] = c}
  <2>1. /\ p \in PubControls /\ pc[s] = "joining"
        /\ subs' = [subs EXCEPT ![p] = @ \cup {s}]
        /\ certs' = [certs EXCEPT ![p][CertOf[s]] = @ + 1]
        /\ pc' = [pc EXCEPT ![s] = "acking"] /\ UNCHANGED sess
    <3>1. pc[s] = "joining"
      BY <1>1 DEF AddSubscriber
    <3>2. p \in PubControls
      BY <3>1 DEF TypeOK, LocalsSet, LocalsTyped
    <3> QED
      BY <1>1, <3>1, <3>2 DEF AddSubscriber, Goto, localVars
  <2>2. s \notin subs[p] /\ CertOf[s] \in Certs
    BY <2>1 DEF ShutdownInv, SubsAttached
  <2>3. /\ subs \in [PubControls -> SUBSET SubControls] /\ certs \in [PubControls -> [Certs -> Int]]
        /\ pc \in [Threads -> PubPCs \cup SubPCs \cup SubDataPCs \cup PubDataPCs \cup KillPCs]
    BY DEF TypeOK, SessionTyped, PCTyped
  <2>4. /\ subs'[p] = subs[p] \cup {s} /\ \A x \in PubControls \ {p} : subs'[x] = subs[x]
        /\ \A x \in PubControls \ {p} : certs'[x] = certs[x]
    BY <2>1, <2>3
  <2>5. certs'[p][CertOf[s]] = certs[p][CertOf[s]] + 1 /\ \A c \in Certs \ {CertOf[s]} : certs'[p][c] = certs[p][c]
    BY <2>1, <2>2, <2>3
  <2>6. /\ {x \in subs'[p] : CertOf[x] = CertOf[s]} = Sharing(CertOf[s]) \cup {s}
        /\ s \notin Sharing(CertOf[s])
        /\ \A c \in Certs \ {CertOf[s]} : {x \in subs'[p] : CertOf[x] = c} = Sharing(c)
    BY <2>2, <2>4
  <2>7. Cardinality(Sharing(CertOf[s]) \cup {s}) = Cardinality(Sharing(CertOf[s])) + 1
    <3>1. IsFiniteSet(Sharing(CertOf[s]))
      <4>1. Sharing(CertOf[s]) \subseteq SubControls
        BY <2>1, <2>3
      <4> HIDE DEF Sharing
      <4> QED
        BY <4>1, FS_Subset
    <3> HIDE DEF Sharing
    <3> QED
      BY <2>6, <3>1, FS_AddElement
  <2>8. ASSUME NEW c \in Certs
        PROVE  certs'[p][c] = Cardinality({x \in subs'[p] : CertOf[x] = c})
    <3>1. certs[p][c] = Cardinality(Sharing(c))
      BY <2>1 DEF CertInv, CertsCountSubscribers
    <3>2. CASE c = CertOf[s]
      <4>1. {x \in subs'[p] : CertOf[x] = c} = Sharing(c) \cup {s}
        BY <2>6, <3>2
      <4>2. Cardinality(Sharing(c) \cup {s}) = Cardinality(Sharing(c)) + 1
        BY <2>7, <3>2
      <4>3. certs'[p][c] = certs[p][c] + 1
        BY <2>5, <3>2
      <4> HIDE DEF Sharing
      <4> QED
        BY <3>1, <4>1, <4>2, <4>3
    <3>3. CASE c # CertOf[s]
      BY <2>5, <2>6, <3>1, <3>3
    <3> QED
      BY <3>2, <3>3
  <2>9. CertsCountSubscribers'
    BY <2>4, <2>8 DEF CertInv, CertsCountSubscribers
  <2>10. HandlersAttached'
    BY <2>1, <2>3, <2>4 DEF CertInv, HandlersAttached
  <2> QED
    BY <2>9, <2>10 DEF CertInv
<1>2. ASSUME NEW s \in SubControls, Release(s)
      PROVE  CertInv'
  <2> DEFINE p == sess[s]
             Sharing(c) == {x \in subs[p] : CertOf[x] = c}
  <2>1. /\ p \in PubControls /\ pc[s] = "releasing"
        /\ subs' = [subs EXCEPT ![p] = @ \ {s}]
        /\ certs' = [certs EXCEPT ![p][CertOf[s]] = @ - 1]
        /\ pc' = [pc EXCEPT ![s] = "done"] /\ UNCHANGED sess
    <3>1. pc[s] = "releasing"
      BY <1>2 DEF Release
    <3>2. p \in PubControls
      BY <3>1 DEF TypeOK, LocalsSet, LocalsTyped
    <3> QED
      BY <1>2, <3>1, <3>2 DEF Release, Goto, localVars
  <2>2. s \in subs[p] /\ CertOf[s] \in Certs
    BY <2>1 DEF CertInv, HandlersAttached
  <2>3. /\ subs \in [PubControls -> SUBSET SubControls] /\ certs \in [PubControls -> [Certs -> Int]]
        /\ pc \in [Threads -> PubPCs \cup SubPCs \cup SubDataPCs \cup PubDataPCs \cup KillPCs]
    BY DEF TypeOK, SessionTyped, PCTyped
  <2>4. /\ subs'[p] = subs[p] \ {s} /\ \A x \in PubControls \ {p} : subs'[x] = subs[x]
        /\ \A x \in PubControls \ {p} : certs'[x] = certs[x]
    BY <2>1, <2>3
  <2>5. certs'[p][CertOf[s]] = certs[p][CertOf[s]] - 1 /\ \A c \in Certs \ {CertOf[s]} : certs'[p][c] = certs[p][c]
    BY <2>1, <2>2, <2>3
  <2>6. /\ {x \in subs'[p] : CertOf[x] = CertOf[s]} = Sharing(CertOf[s]) \ {s}
        /\ s \in Sharing(CertOf[s])
        /\ \A c \in Certs \ {CertOf[s]} : {x \in subs'[p] : CertOf[x] = c} = Sharing(c)
    BY <2>2, <2>4
  <2>7. Cardinality(Sharing(CertOf[s]) \ {s}) = Cardinality(Sharing(CertOf[s])) - 1
    <3>1. IsFiniteSet(Sharing(CertOf[s]))
      <4>1. Sharing(CertOf[s]) \subseteq SubControls
        BY <2>1, <2>3
      <4> HIDE DEF Sharing
      <4> QED
        BY <4>1, FS_Subset
    <3> HIDE DEF Sharing
    <3> QED
      BY <2>6, <3>1, FS_RemoveElement
  <2>8. ASSUME NEW c \in Certs
        PROVE  certs'[p][c] = Cardinality({x \in subs'[p] : CertOf[x] = c})
    <3>1. certs[p][c] = Cardinality(Sharing(c))
      BY <2>1 DEF CertInv, CertsCountSubscribers
    <3>2. CASE c = CertOf[s]
      <4>1. {x \in subs'[p] : CertOf[x] = c} = Sharing(c) \ {s}
        BY <2>6, <3>2
      <4>2. Cardinality(Sharing(c) \ {s}) = Cardinality(Sharing(c)) - 1
        BY <2>7, <3>2
      <4>3. certs'[p][c] = certs[p][c] - 1
        BY <2>5, <3>2
      <4> HIDE DEF Sharing
      <4> QED
        BY <3>1, <4>1, <4>2, <4>3
    <3>3. CASE c # CertOf[s]
      BY <2>5, <2>6, <3>1, <3>3
    <3> QED
      BY <3>2, <3>3
  <2>9. CertsCountSubscribers'
    BY <2>4, <2>8 DEF CertInv, CertsCountSubscribers
  <2>10. \A x \in SubControls \ {s} : pc'[x] = pc[x]
    BY <2>1, <2>3
  <2>11. HandlersAttached'
    BY <2>1, <2>3, <2>4, <2>10 DEF CertInv, HandlersAttached
  <2> QED
    BY <2>9, <2>11 DEF CertInv
<1>3. ASSUME NEW t \in Threads \ SubControls, NEW label, pc' = [pc EXCEPT ![t] = label],
             UNCHANGED <<subs, certs>>,
             UNCHANGED sess \/ \E p : sess' = [sess EXCEPT ![t] = p]
      PROVE  CertInv'
  BY <1>3, CertFrame DEF TypeOK, LocalsTyped, PCTyped
<1>4. ASSUME UNCHANGED <<subs, certs, pc, sess>>
      PROVE  CertInv'
  BY <1>4, CertFrame
<1>5. ASSUME NEW p \in PubControls,
             \/ ProveClaim(p) \/ FailClaim(p) \/ RefuseKilled(p) \/ RefuseOccupied(p)
             \/ Insert(p) \/ AckPublisher(p) \/ Unregister(p)
      PROVE  CertInv'
  BY <1>3, <1>5 DEF ProveClaim, FailClaim, RefuseKilled, RefuseOccupied, Refuse, Insert, AckPublisher,
     Unregister, Goto, sessionVars, localVars
<1>6. ASSUME NEW c \in Controls, LoseControl(c) \/ GoSilent(c)
      PROVE  CertInv'
  <2>1. /\ UNCHANGED <<subs, certs, sess>> /\ pc[c] = "serving"
        /\ pc' = [pc EXCEPT ![c] = IF c \in PubControls THEN "unregistering" ELSE "releasing"]
    BY <1>6 DEF LoseControl, GoSilent, Goto, sessionVars, localVars
  <2> QED
    BY <2>1, CertFrame
<1>7. ASSUME NEW t \in Closers, BeginShutdown(t) \/ CloseDoomed(t) \/ FinishShutdown(t)
      PROVE  CertInv'
  BY <1>3, <1>7 DEF BeginShutdown, CloseDoomed, FinishShutdown, Goto, sessionVars, localVars
<1>8. ASSUME NEW t \in Closers, HardClose(t) \/ \E s \in SubControls : Tell(t, s) \/ SkipGone(t, s)
      PROVE  CertInv'
  BY <1>4, <1>8 DEF HardClose, Tell, SkipGone, sessionVars, localVars
<1>9. ASSUME NEW k \in Kills, SeverPublisher(k) \/ \E tag \in Tags : Kill(k, tag) \/ RefuseKill(k, tag)
      PROVE  CertInv'
  <2>1. k \in Threads \ SubControls
    OBVIOUS
  <2>2. CASE SeverPublisher(k)
    BY <1>3, <2>1, <2>2 DEF SeverPublisher, Goto, sessionVars, localVars
  <2>3. ASSUME NEW tag \in Tags, Kill(k, tag)
        PROVE  CertInv'
    BY <1>3, <2>1, <2>3 DEF Kill, Goto, sessionVars
  <2>4. ASSUME NEW tag \in Tags, RefuseKill(k, tag)
        PROVE  CertInv'
    BY <1>3, <2>1, <2>4 DEF RefuseKill, Goto, sessionVars, localVars
  <2> QED
    BY <1>9, <2>2, <2>3, <2>4
<1>10. ASSUME NEW s \in SubControls,
              FindSession(s) \/ RefuseSubscriber(s) \/ TurnAway(s) \/ AckSubscriber(s)
       PROVE  CertInv'
  <2>1. UNCHANGED <<subs, certs>> /\ \E label : pc' = [pc EXCEPT ![s] = label]
    BY <1>10 DEF FindSession, RefuseSubscriber, TurnAway, AckSubscriber, Refuse, Goto, sessionVars
  <2>2. UNCHANGED sess \/ \E p : sess' = [sess EXCEPT ![s] = p]
    BY <1>10 DEF FindSession, RefuseSubscriber, TurnAway, AckSubscriber, localVars
  <2>3. /\ pc \in [Threads -> PubPCs \cup SubPCs \cup SubDataPCs \cup PubDataPCs \cup KillPCs]
        /\ sess \in [Threads -> PubControls \cup {None}]
    BY DEF TypeOK, PCTyped, LocalsTyped
  <2>4. \/ pc'[s] \in {"joining", "done"}
        \/ pc[s] = "acking" /\ UNCHANGED sess
    BY <1>10, <2>3 DEF FindSession, RefuseSubscriber, TurnAway, AckSubscriber, Refuse, Goto, localVars
  <2> QED
    BY <2>1, <2>2, <2>3, <2>4, CertFrame
<1>11. ASSUME NEW d \in SubData,
              \/ FindForData(d) \/ RefuseSubData(d) \/ AddPending(d) \/ TurnAwayData(d)
              \/ AckSubData(d) \/ RequestData(d) \/ AbandonSubData(d)
       PROVE  CertInv'
  <2>1. UNCHANGED <<subs, certs>> /\ \E label : pc' = [pc EXCEPT ![d] = label]
    BY <1>11 DEF FindForData, RefuseSubData, AddPending, TurnAwayData, AckSubData, RequestData,
       AbandonSubData, Refuse, Goto, sessionVars
  <2>2. UNCHANGED sess \/ \E p : sess' = [sess EXCEPT ![d] = p]
    BY <1>11 DEF FindForData, RefuseSubData, AddPending, TurnAwayData, AckSubData, RequestData,
       AbandonSubData, localVars
  <2> QED
    BY <1>3, <2>1, <2>2
<1>12. ASSUME NEW p \in PubControls, NEW id \in ReqIDs, Expire(p, id)
       PROVE  CertInv'
  BY <1>4, <1>12 DEF Expire, localVars
<1>13. ASSUME NEW q \in PubData, Claim(q) \/ AddStream(q) \/ EndSplice(q)
       PROVE  CertInv'
  BY <1>3, <1>13 DEF Claim, AddStream, EndSplice, Goto, localVars
<1>14. ASSUME NEW q \in PubData, NEW p \in PubControls, NEW n \in DOMAIN sent[p], AttachPublisher(q, p, n)
       PROVE  CertInv'
  <2>1. UNCHANGED <<subs, certs>> /\ \E label : pc' = [pc EXCEPT ![q] = label]
    BY <1>14 DEF AttachPublisher, Goto, sessionVars
  <2>2. UNCHANGED sess \/ \E x : sess' = [sess EXCEPT ![q] = x]
    BY <1>14 DEF AttachPublisher
  <2> QED
    BY <1>3, <2>1, <2>2
<1>15. ASSUME NEW c \in Conns, Break(c)
       PROVE  CertInv'
  BY <1>4, <1>15 DEF Break, sessionVars, localVars
<1>16. CASE UNCHANGED vars
  BY <1>4, <1>16 DEF vars, sessionVars, localVars
<1> HIDE DEF Threads, Conns, Controls, DataConns, Closers
<1> QED
  BY <1>1, <1>2, <1>5, <1>6, <1>7, <1>8, <1>9, <1>10, <1>11, <1>12, <1>13, <1>14, <1>15, <1>16, Steps

\* The count of a certificate is the number of its attached subscribers, so data
\* connections are admitted exactly for the certificates of attached subscribers.
THEOREM CertsAreCounted == Spec => []CertsCountSubscribers
<1>1. CertInv => CertsCountSubscribers
  BY DEF CertInv
<1> QED
  BY <1>1, TypeOKInit, TypeOKStep, ShutdownInvInit, ShutdownInvStep, CertInvInit, CertInvStep, PTL DEF Spec

------------------------------------------------------------------------------
(* Who owns a waiting connection *)

LEMMA PairingInvInit == Init => PairingInv
<1> SUFFICES ASSUME Init PROVE PairingInv
  OBVIOUS
<1> USE ConnsAssumption DEF Init, Threads, Conns, Controls, DataConns, Closers
<1>1. PendingWaits /\ DoomedIsTaken /\ LegIsTaken /\ IdsAreFresh
  BY DEF PendingWaits, DoomedIsTaken, LegIsTaken, IdsAreFresh
<1>2. WaitingIsOwned /\ PairedInSession
  BY DEF WaitingIsOwned, PairedInSession, Waiting
<1>3. StreamsAreSplices
  BY DEF StreamsAreSplices
<1> QED
  BY <1>1, <1>2, <1>3 DEF PairingInv

\* What may change while nobody comes to own or lets go of a connection.
LEMMA OwnersFrame ==
    ASSUME TypeOK, PairingInv, UNCHANGED <<pending, doomed, leg, nextReq>>,
           \A d \in SubData :
                /\ req'[d] = req[d]
                /\ sess'[d] = sess[d] \/ pc[d] = "hello"
                /\ pc[d] \in Waiting <=> pc'[d] \in Waiting
                /\ pc[d] = "done" => pc'[d] = "done",
           \A q \in PubData :
                \/ /\ sess'[q] = sess[q] /\ req'[q] = req[q]
                   /\ leg[q] # None => pc'[q] \in {"claimed", "splicing", "done"}
                \/ /\ pc[q] = "hello"
                   /\ sess'[q] # None => CertOf[q] = CertOf[sess'[q]],
           \A t \in Closers : pc[t] = "closing" => pc'[t] = "closing",
           \A c \in Conns : open'[c] => open[c]
    PROVE  PendingWaits' /\ DoomedIsTaken' /\ LegIsTaken' /\ IdsAreFresh' /\ WaitingIsOwned' /\ PairedInSession'
<1> USE ConnsAssumption DEF PairingInv
<1>1. \A d \in SubData : pc[d] \in Waiting \cup {"done"} => sess'[d] = sess[d] /\ pc'[d] \in Waiting \cup {"done"}
  BY DEF Waiting
<1>2. \A q \in PubData : leg[q] # None => leg[q] \in SubData /\ sess'[q] = sess[q] /\ req'[q] = req[q]
  BY DEF TypeOK, LocalsTyped, LegIsTaken
<1>3. \A p \in PubControls, i \in ReqIDs : pending[p][i] # None => pending[p][i] \in SubData
  BY DEF TypeOK, SessionTyped
<1>4. PendingWaits'
  BY <1>1, <1>3 DEF PendingWaits
<1>5. DoomedIsTaken'
  <2>1. \A t \in Closers : doomed[t] \subseteq SubData
    BY DEF TypeOK, ShutdownTyped
  <2>2. \A d \in SubData : req[d] # None => sess'[d] = sess[d]
    BY <1>1 DEF IdsAreFresh
  <2> QED
    BY <2>1, <2>2 DEF DoomedIsTaken
<1>6. LegIsTaken'
  <2>1. \A d \in SubData : req[d] # None => sess'[d] = sess[d]
    BY <1>1 DEF IdsAreFresh
  <2>2. \A q \in PubData : leg[q] # None => pc'[q] \in {"claimed", "splicing", "done"}
    BY DEF LegIsTaken
  <2> QED
    BY <1>2, <2>1, <2>2 DEF LegIsTaken
<1>7. IdsAreFresh'
  <2>1. \A d \in SubData : req[d] # None => sess'[d] = sess[d] /\ pc'[d] \in Waiting \cup {"done"}
    BY <1>1 DEF IdsAreFresh
  <2>2. ASSUME NEW d \in SubData, req[d] # None, NEW e \in SubData, sess'[e] = sess[d], req[e] = req[d]
        PROVE  d = e
    BY <2>1, <2>2 DEF IdsAreFresh
  <2> QED
    BY <2>1, <2>2 DEF IdsAreFresh
<1>8. WaitingIsOwned'
  BY <1>1 DEF WaitingIsOwned, Conns, DataConns
<1>9. PairedInSession'
  <2>1. \A d \in SubData : req[d] # None => sess'[d] = sess[d]
    BY <1>1 DEF IdsAreFresh
  <2>2. \A q \in PubData : leg[q] # None => sess'[leg[q]] = sess[leg[q]]
    BY <1>2, <2>1 DEF LegIsTaken
  <2> QED
    BY <1>2, <2>2 DEF PairedInSession
<1> QED
  BY <1>4, <1>5, <1>6, <1>7, <1>8, <1>9

\* What may change while, besides, no splice begins or ends.
LEMMA PairingFrame ==
    ASSUME TypeOK, PairingInv, UNCHANGED <<pending, doomed, leg, nextReq, streams>>,
           \A d \in SubData :
                /\ req'[d] = req[d]
                /\ sess'[d] = sess[d] \/ pc[d] = "hello"
                /\ pc[d] \in Waiting <=> pc'[d] \in Waiting
                /\ pc[d] = "done" => pc'[d] = "done",
           \A q \in PubData :
                \/ /\ sess'[q] = sess[q] /\ req'[q] = req[q]
                   /\ leg[q] # None => pc'[q] \in {"claimed", "splicing", "done"}
                   /\ pc[q] = "splicing" <=> pc'[q] = "splicing"
                \/ /\ pc[q] = "hello" /\ pc'[q] # "splicing"
                   /\ sess'[q] # None => CertOf[q] = CertOf[sess'[q]],
           \A t \in Closers : pc[t] = "closing" => pc'[t] = "closing",
           \A c \in Conns : open'[c] => open[c]
    PROVE  PairingInv'
<1>1. \A q \in PubData : /\ pc[q] = "splicing" <=> pc'[q] = "splicing"
                         /\ pc[q] = "splicing" => sess'[q] = sess[q] /\ req'[q] = req[q]
  OBVIOUS
<1>2. ASSUME NEW p \in PubControls
      PROVE  {req'[q] : q \in {x \in PubData : pc'[x] = "splicing" /\ sess'[x] = p}}
               = {req[q] : q \in {x \in PubData : pc[x] = "splicing" /\ sess[x] = p}}
  BY <1>1
<1>3. StreamsAreSplices'
  BY <1>2 DEF PairingInv, StreamsAreSplices
<1> QED
  BY <1>3, OwnersFrame DEF PairingInv

\* The session numbers a connection that starts to wait afresh.
LEMMA PairingAdd ==
    ASSUME TypeOK, PairingInv, NEW d \in SubData, AddPending(d)
    PROVE  PairingInv'
<1> USE ConnsAssumption DEF PairingInv, Threads, Conns, Controls, DataConns
<1> DEFINE p == sess[d]
           id == nextReq[p]
<1>1. pc[d] = "joining" /\ id < MaxReq
  BY DEF AddPending
<1>2. p \in PubControls
  BY <1>1 DEF TypeOK, LocalsSet, LocalsTyped
<1>3. id \in ReqIDs
  BY <1>1, <1>2, AttributesAssumption DEF TypeOK, SessionTyped, ReqIDs
<1>4. /\ pending' = [pending EXCEPT ![p][id] = d]
      /\ nextReq' = [nextReq EXCEPT ![p] = id + 1]
      /\ req' = [req EXCEPT ![d] = id]
      /\ pc' = [pc EXCEPT ![d] = "acking"]
      /\ UNCHANGED <<streams, sess, leg, doomed, open>>
  BY DEF AddPending, Goto, shutdownVars
<1>5. req[d] = None
  BY <1>1 DEF IdsAreFresh, Waiting
<1>6. pending[p][id] = None
  <2> SUFFICES ASSUME pending[p][id] # None PROVE FALSE
    OBVIOUS
  <2>1. pending[p][id] \in SubData
    BY <1>2, <1>3 DEF TypeOK, SessionTyped
  <2>2. sess[pending[p][id]] = p /\ req[pending[p][id]] = id
    BY <1>2, <1>3 DEF PendingWaits
  <2>3. id # None
    BY <1>3
  <2>4. id < id
    BY <2>1, <2>2, <2>3 DEF IdsAreFresh
  <2> QED
    BY <1>2, <2>4 DEF TypeOK, SessionTyped
<1>7. /\ pending \in [PubControls -> [ReqIDs -> SubData \cup {None}]] /\ nextReq \in [PubControls -> Nat]
      /\ req \in [SubData \cup PubData -> ReqIDs \cup {None}]
      /\ pc \in [Threads -> PubPCs \cup SubPCs \cup SubDataPCs \cup PubDataPCs \cup KillPCs]
  BY DEF TypeOK, SessionTyped, LocalsTyped, PCTyped
<1>8. /\ pending'[p][id] = d
      /\ \A x \in PubControls, i \in ReqIDs : <<x, i>> # <<p, id>> => pending'[x][i] = pending[x][i]
  BY <1>2, <1>3, <1>4, <1>7
<1>9. \A e \in SubData \ {d} : req'[e] = req[e] /\ pc'[e] = pc[e]
  BY <1>4, <1>7
<1>10. req'[d] = id /\ pc'[d] = "acking" /\ id # None
  BY <1>3, <1>4, <1>7
<1>11. PendingWaits'
  <2> SUFFICES ASSUME NEW x \in PubControls, NEW i \in ReqIDs, pending'[x][i] # None
               PROVE  /\ pc'[pending'[x][i]] \in Waiting
                      /\ sess[pending'[x][i]] = x /\ req'[pending'[x][i]] = i
    BY <1>4 DEF PendingWaits
  <2>1. CASE x = p /\ i = id
    BY <1>8, <1>10, <2>1 DEF Waiting
  <2>2. CASE ~(x = p /\ i = id)
    <3>1. pending'[x][i] = pending[x][i] /\ pending[x][i] \in SubData
      BY <1>7, <1>8, <2>2
    <3>2. pending[x][i] # d
      BY <1>1, <3>1 DEF PendingWaits, Waiting
    <3> QED
      BY <1>9, <3>1, <3>2 DEF PendingWaits
  <2> QED
    BY <2>1, <2>2
<1>12. \A e \in SubData : req[e] # None => e # d /\ sess[e] \in PubControls /\ req[e] \in ReqIDs
  BY <1>5, <1>7 DEF TypeOK, LocalsTyped, IdsAreFresh
<1>13. \A e \in SubData : req[e] # None => (pending'[sess[e]][req[e]] # e \/ pending[sess[e]][req[e]] = e)
  BY <1>8, <1>12
<1>14. DoomedIsTaken'
  <2>1. \A t \in Closers : doomed[t] \subseteq SubData /\ pc'[t] = pc[t]
    BY <1>4, <1>7 DEF TypeOK, ShutdownTyped, Closers
  <2> QED
    BY <1>4, <1>9, <1>12, <1>13, <2>1 DEF DoomedIsTaken
<1>15. LegIsTaken'
  <2>1. \A q \in PubData : pc'[q] = pc[q] /\ leg[q] \in SubData \cup {None}
    BY <1>4, <1>7 DEF TypeOK, LocalsTyped
  <2> QED
    BY <1>4, <1>9, <1>12, <1>13, <2>1 DEF LegIsTaken
<1>16. IdsAreFresh'
  <2>1. \A x \in PubControls : nextReq'[x] \in Nat /\ nextReq[x] \in Nat /\ nextReq[x] <= nextReq'[x]
    BY <1>2, <1>4, <1>7
  <2>2. id < nextReq'[p]
    BY <1>2, <1>4, <1>7
  <2>3. ReqIDs \subseteq Int
    BY DEF ReqIDs
  <2>4. \A e \in SubData : req[e] # None => req[e] < nextReq'[sess[e]]
    <3> SUFFICES ASSUME NEW e \in SubData, req[e] # None PROVE req[e] < nextReq'[sess[e]]
      OBVIOUS
    <3>1. req[e] \in Int /\ req[e] < nextReq[sess[e]] /\ sess[e] \in PubControls
      BY <1>12, <2>3 DEF IdsAreFresh
    <3> QED
      BY <2>1, <3>1
  <2>5. ASSUME NEW e \in SubData, sess[e] = p PROVE req[e] # id
    BY <1>2, <1>3, <1>7, <1>10, <2>5 DEF IdsAreFresh
  <2>6. ASSUME NEW e \in SubData, req'[e] # None
        PROVE  pc'[e] \in Waiting \cup {"done"} /\ sess[e] # None /\ req'[e] < nextReq'[sess[e]]
    <3>1. CASE e = d
      BY <1>2, <1>10, <2>2, <3>1 DEF Waiting
    <3>2. CASE e # d
      BY <1>9, <2>4, <2>6, <3>2 DEF IdsAreFresh
    <3> QED
      BY <3>1, <3>2
  <2>7. ASSUME NEW e \in SubData, req'[e] # None, NEW f \in SubData, sess[f] = sess[e], req'[f] = req'[e]
        PROVE  e = f
    BY <1>9, <1>10, <2>5, <2>7 DEF IdsAreFresh
  <2> QED
    BY <1>4, <2>6, <2>7 DEF IdsAreFresh
<1>17. WaitingIsOwned'
  <2> SUFFICES ASSUME NEW e \in SubData, pc'[e] \in Waiting, open[e]
               PROVE  \/ pending'[sess[e]][req'[e]] = e
                      \/ \E t \in Closers : e \in doomed[t]
                      \/ \E q \in PubData : leg[q] = e
    BY <1>4 DEF WaitingIsOwned
  <2>1. CASE e = d
    BY <1>8, <1>10, <2>1
  <2>2. CASE e # d
    <3>1. pc[e] \in Waiting /\ req'[e] = req[e]
      BY <1>9, <2>2
    <3>2. sess[e] \in PubControls /\ req[e] \in ReqIDs
      BY <3>1 DEF TypeOK, LocalsSet, LocalsTyped, Waiting
    <3>3. pending[sess[e]][req[e]] = e => pending'[sess[e]][req[e]] = e
      BY <1>6, <1>8, <3>2
    <3> QED
      BY <3>1, <3>3 DEF WaitingIsOwned
  <2> QED
    BY <2>1, <2>2
<1>18. PairedInSession'
  <2>1. \A q \in PubData : req'[q] = req[q] /\ (leg[q] # None => leg[q] \in SubData \ {d})
    BY <1>4, <1>7, <1>12 DEF TypeOK, LocalsTyped, LegIsTaken
  <2> QED
    BY <1>4, <1>9, <2>1 DEF PairedInSession
<1>19. StreamsAreSplices'
  <2>1. \A q \in PubData : req'[q] = req[q] /\ pc'[q] = pc[q]
    BY <1>4, <1>7
  <2>2. ASSUME NEW x \in PubControls
        PROVE  {req'[q] : q \in {y \in PubData : pc'[y] = "splicing" /\ sess[y] = x}}
                 = {req[q] : q \in {y \in PubData : pc[y] = "splicing" /\ sess[y] = x}}
    BY <2>1
  <2> QED
    BY <1>4, <2>2 DEF StreamsAreSplices
<1> QED
  BY <1>11, <1>14, <1>15, <1>16, <1>17, <1>18, <1>19

\* The timer and a failed handler close what they take.
LEMMA PairingDrop ==
    ASSUME TypeOK, PairingInv, NEW p \in PubControls, NEW id \in ReqIDs, NEW gone, Unstash(p, id),
           UNCHANGED <<doomed, leg, nextReq, req, streams, sess>>,
           pending[p][id] # None => pending[p][id] = gone,
           \A c \in Conns : open'[c] => open[c] /\ c # gone,
           \/ UNCHANGED pc
           \/ /\ gone \in SubData /\ sess[gone] = p /\ req[gone] = id
              /\ pc[gone] \in Waiting /\ pc' = [pc EXCEPT ![gone] = "done"]
    PROVE  PairingInv'
<1> USE ConnsAssumption DEF PairingInv, Threads, Conns, Controls, DataConns
<1>1. pending \in [PubControls -> [ReqIDs -> SubData \cup {None}]]
  BY DEF TypeOK, SessionTyped
<1>2. /\ pending'[p][id] = None
      /\ \A x \in PubControls, i \in ReqIDs : <<x, i>> # <<p, id>> => pending'[x][i] = pending[x][i]
  BY <1>1 DEF Unstash
<1>3. pc \in [Threads -> PubPCs \cup SubPCs \cup SubDataPCs \cup PubDataPCs \cup KillPCs]
  BY DEF TypeOK, PCTyped
<1>4. /\ \A t \in Closers : pc'[t] = pc[t]
      /\ \A q \in PubData : pc'[q] = pc[q]
      /\ \A d \in SubData : \/ pc'[d] = pc[d]
                            \/ d = gone /\ pc[d] \in Waiting /\ pc'[d] = "done"
  <2>1. CASE UNCHANGED pc
    BY <2>1
  <2>2. CASE gone \in SubData /\ pc[gone] \in Waiting /\ pc' = [pc EXCEPT ![gone] = "done"]
    BY <1>3, <2>2 DEF Closers
  <2> QED
    BY <2>1, <2>2
<1>5. PendingWaits'
  <2> SUFFICES ASSUME NEW x \in PubControls, NEW i \in ReqIDs, pending'[x][i] # None
               PROVE  pending'[x][i] = pending[x][i] /\ pc'[pending[x][i]] = pc[pending[x][i]]
    BY DEF PendingWaits
  <2>1. <<x, i>> # <<p, id>> /\ pending'[x][i] = pending[x][i] /\ pending[x][i] \in SubData
    BY <1>1, <1>2
  <2>2. CASE UNCHANGED pc
    BY <2>1, <2>2
  <2>3. CASE ~UNCHANGED pc
    <3>1. sess[gone] = p /\ req[gone] = id
      BY <2>3
    <3>2. pending[x][i] = gone => sess[gone] = x /\ req[gone] = i
      BY <2>1 DEF PendingWaits
    <3> QED
      BY <1>4, <2>1, <3>1, <3>2
  <2> QED
    BY <2>2, <2>3
<1>6. \A d \in SubData : req[d] # None => sess[d] \in PubControls /\ req[d] \in ReqIDs
  BY DEF TypeOK, LocalsTyped, IdsAreFresh
<1>7. \A d \in SubData : req[d] # None => (pending'[sess[d]][req[d]] # d \/ pending[sess[d]][req[d]] = d)
  BY <1>2, <1>6
<1>8. DoomedIsTaken'
  <2>1. \A t \in Closers : doomed[t] \subseteq SubData
    BY DEF TypeOK, ShutdownTyped
  <2> QED
    BY <1>4, <1>7, <2>1 DEF DoomedIsTaken
<1>9. LegIsTaken'
  <2>1. \A q \in PubData : leg[q] \in SubData \cup {None}
    BY DEF TypeOK, LocalsTyped
  <2> QED
    BY <1>4, <1>7, <2>1 DEF LegIsTaken
<1>10. IdsAreFresh'
  BY <1>4 DEF IdsAreFresh
<1>11. WaitingIsOwned'
  <2> SUFFICES ASSUME NEW d \in SubData, pc'[d] \in Waiting, open'[d],
                      pending[sess[d]][req[d]] = d, pending'[sess[d]][req[d]] # d
               PROVE  FALSE
    BY <1>4 DEF WaitingIsOwned, Waiting
  <2>1. pc[d] \in Waiting /\ d # gone
    BY <1>4 DEF Waiting
  <2>2. sess[d] \in PubControls /\ req[d] \in ReqIDs
    BY <2>1 DEF TypeOK, LocalsSet, LocalsTyped, Waiting
  <2>3. sess[d] = p /\ req[d] = id
    BY <1>2, <2>2
  <2> QED
    BY <2>1, <2>3
<1>12. PairedInSession' /\ StreamsAreSplices'
  <2>1. PairedInSession'
    BY DEF PairedInSession
  <2>2. ASSUME NEW x \in PubControls
        PROVE  {req[q] : q \in {y \in PubData : pc'[y] = "splicing" /\ sess[y] = x}}
                 = {req[q] : q \in {y \in PubData : pc[y] = "splicing" /\ sess[y] = x}}
    BY <1>4
  <2> QED
    BY <2>1, <2>2 DEF StreamsAreSplices
<1> QED
  BY <1>5, <1>8, <1>9, <1>10, <1>11, <1>12

\* A publisher's claim takes the connection from the session.
LEMMA PairingClaim ==
    ASSUME TypeOK, PairingInv, NEW q \in PubData, Claim(q), pending[sess[q]][req[q]] # None
    PROVE  PairingInv'
<1> USE ConnsAssumption DEF PairingInv, Threads, Conns, Controls, DataConns
<1> DEFINE p == sess[q]
           id == req[q]
           d == pending[p][id]
<1>1. pc[q] = "claiming"
  BY DEF Claim
<1>2. p \in PubControls /\ id \in ReqIDs /\ d \in SubData
  BY <1>1 DEF TypeOK, LocalsSet, LocalsTyped, SessionTyped
<1>3. /\ leg' = [leg EXCEPT ![q] = d]
      /\ pending' = [pending EXCEPT ![p][id] = None]
      /\ pc' = [pc EXCEPT ![q] = "claimed"]
      /\ UNCHANGED <<nextReq, streams, sess, req, doomed, open>>
  BY DEF Claim, Unstash, Goto, shutdownVars
<1>4. /\ pending \in [PubControls -> [ReqIDs -> SubData \cup {None}]]
      /\ pc \in [Threads -> PubPCs \cup SubPCs \cup SubDataPCs \cup PubDataPCs \cup KillPCs]
      /\ leg \in [PubData -> SubData \cup {None}]
  BY DEF TypeOK, SessionTyped, LocalsTyped, PCTyped
<1>5. /\ pending'[p][id] = None
      /\ \A x \in PubControls, i \in ReqIDs : <<x, i>> # <<p, id>> => pending'[x][i] = pending[x][i]
  BY <1>2, <1>3, <1>4
<1>6. /\ leg'[q] = d /\ leg[q] = None /\ pc'[q] = "claimed"
      /\ \A r \in PubData \ {q} : leg'[r] = leg[r] /\ pc'[r] = pc[r]
      /\ \A t \in Threads \ {q} : pc'[t] = pc[t]
  BY <1>1, <1>3, <1>4 DEF LegIsTaken
<1>7. /\ pc[d] \in Waiting /\ sess[d] = p /\ req[d] = id /\ req[d] # None /\ d # None
  BY <1>2 DEF PendingWaits
<1>8. \A e \in SubData : req[e] # None => sess[e] \in PubControls /\ req[e] \in ReqIDs
  BY DEF TypeOK, LocalsTyped, IdsAreFresh
<1>9. \A e \in SubData : req[e] # None => (pending'[sess[e]][req[e]] # e \/ pending[sess[e]][req[e]] = e)
  BY <1>5, <1>8
<1>10. PendingWaits'
  <2> SUFFICES ASSUME NEW x \in PubControls, NEW i \in ReqIDs, pending'[x][i] # None
               PROVE  pending'[x][i] = pending[x][i] /\ pending[x][i] \in SubData
    BY <1>3, <1>6 DEF PendingWaits
  <2> QED
    BY <1>4, <1>5
<1>11. \A t \in Closers : doomed[t] \subseteq SubData /\ pc'[t] = pc[t]
  BY <1>6 DEF TypeOK, ShutdownTyped, Closers
<1>12. DoomedIsTaken'
  BY <1>3, <1>9, <1>11 DEF DoomedIsTaken
<1>13. \A r \in PubData \ {q} : leg[r] # d
  BY <1>2, <1>7 DEF LegIsTaken
<1>14. \A t \in Closers : d \notin doomed[t]
  BY <1>2, <1>7 DEF DoomedIsTaken
<1>15. LegIsTaken'
  <2> SUFFICES ASSUME NEW r \in PubData, leg'[r] # None
               PROVE  /\ pc'[r] \in {"claimed", "splicing", "done"}
                      /\ req[leg'[r]] # None
                      /\ pending'[sess[leg'[r]]][req[leg'[r]]] # leg'[r]
                      /\ \A t \in Closers : leg'[r] \notin doomed[t]
                      /\ \A u \in PubData : leg'[u] = leg'[r] => r = u
    BY <1>3 DEF LegIsTaken
  <2>1. CASE r = q
    BY <1>5, <1>6, <1>7, <1>13, <1>14, <2>1
  <2>2. CASE r # q
    <3>1. leg'[r] = leg[r] /\ leg[r] \in SubData
      BY <1>4, <1>6, <2>2
    <3>2. \A u \in PubData : leg'[u] = leg[r] => r = u
      BY <1>6, <1>13, <2>2, <3>1 DEF LegIsTaken
    <3> QED
      BY <1>6, <1>9, <2>2, <3>1, <3>2 DEF LegIsTaken
  <2> QED
    BY <2>1, <2>2
<1>16. IdsAreFresh'
  BY <1>3, <1>6 DEF IdsAreFresh
<1>17. WaitingIsOwned'
  <2> SUFFICES ASSUME NEW e \in SubData, pc[e] \in Waiting, open[e]
               PROVE  \/ pending'[sess[e]][req[e]] = e
                      \/ \E t \in Closers : e \in doomed[t]
                      \/ \E r \in PubData : leg'[r] = e
    BY <1>3, <1>6 DEF WaitingIsOwned
  <2>1. CASE e = d
    BY <1>6, <2>1
  <2>2. CASE pending[sess[e]][req[e]] = e /\ e # d
    <3>1. sess[e] \in PubControls /\ req[e] \in ReqIDs
      BY DEF TypeOK, LocalsSet, LocalsTyped, Waiting
    <3> QED
      BY <1>5, <2>2, <3>1
  <2>3. ASSUME NEW r \in PubData, leg[r] = e
        PROVE  leg'[r] = e
    BY <1>6, <2>3
  <2> QED
    BY <2>1, <2>2, <2>3 DEF WaitingIsOwned
<1>18. PairedInSession'
  BY <1>3, <1>4, <1>6, <1>7 DEF PairedInSession
<1>19. StreamsAreSplices'
  <2>1. \A r \in PubData : pc'[r] = "splicing" <=> pc[r] = "splicing"
    BY <1>1, <1>6
  <2>2. ASSUME NEW x \in PubControls
        PROVE  {req[r] : r \in {y \in PubData : pc'[y] = "splicing" /\ sess[y] = x}}
                 = {req[r] : r \in {y \in PubData : pc[y] = "splicing" /\ sess[y] = x}}
    BY <2>1
  <2> QED
    BY <1>3, <2>2 DEF StreamsAreSplices
<1> QED
  BY <1>10, <1>12, <1>15, <1>16, <1>17, <1>18, <1>19

\* The shutdown of a session takes what waits there.
LEMMA PairingShutdown ==
    ASSUME TypeOK, PairingInv, NEW t \in Closers, BeginShutdown(t), ~closed[sess[t]]
    PROVE  PairingInv'
<1> USE ConnsAssumption DEF PairingInv, Threads, Conns, Controls, DataConns, Closers
<1> DEFINE p == sess[t]
           Taken == {pending[p][i] : i \in Held(p)}
<1>1. pc[t] = "shutdown"
  BY DEF BeginShutdown
<1>2. p \in PubControls
  BY <1>1 DEF TypeOK, LocalsSet, LocalsTyped
<1>3. /\ pending' = [pending EXCEPT ![p] = [i \in ReqIDs |-> None]]
      /\ doomed' = [doomed EXCEPT ![t] = Taken]
      /\ pc' = [pc EXCEPT ![t] = "closing"]
      /\ UNCHANGED <<nextReq, streams, sess, req, leg, open>>
  BY DEF BeginShutdown, Goto, localVars
<1>4. /\ pending \in [PubControls -> [ReqIDs -> SubData \cup {None}]]
      /\ pc \in [Threads -> PubPCs \cup SubPCs \cup SubDataPCs \cup PubDataPCs \cup KillPCs]
      /\ leg \in [PubData -> SubData \cup {None}]
      /\ doomed \in [Closers -> SUBSET SubData]
  BY DEF TypeOK, SessionTyped, LocalsTyped, PCTyped, ShutdownTyped
<1>5. \A x \in PubControls, i \in ReqIDs :
        pending'[x][i] = IF x = p THEN None ELSE pending[x][i]
  BY <1>2, <1>3, <1>4
<1>6. /\ doomed[t] = {} /\ doomed'[t] = Taken /\ pc'[t] = "closing"
      /\ \A u \in Closers \ {t} : doomed'[u] = doomed[u] /\ pc'[u] = pc[u]
      /\ \A x \in DataConns : pc'[x] = pc[x]
  BY <1>1, <1>3, <1>4 DEF DoomedIsTaken
<1>7. \A d : d \in Taken <=> \E i \in ReqIDs : pending[p][i] = d /\ d # None
  BY DEF Held
<1>8. ASSUME NEW d \in Taken
      PROVE  /\ d \in SubData /\ d # None /\ sess[d] = p
             /\ req[d] \in ReqIDs /\ req[d] # None /\ pending[p][req[d]] = d
  <2>1. PICK i \in ReqIDs : pending[p][i] = d /\ d # None
    BY <1>7
  <2>2. d \in SubData
    BY <1>2, <1>4, <2>1
  <2>3. sess[d] = p /\ req[d] = i
    BY <1>2, <2>1 DEF PendingWaits
  <2> QED
    BY <2>1, <2>2, <2>3
<1> HIDE DEF Taken
<1>9. \A e \in SubData : req[e] # None => sess[e] \in PubControls /\ req[e] \in ReqIDs
  BY DEF TypeOK, LocalsTyped, IdsAreFresh
<1>10. \A e \in SubData : req[e] # None => (pending'[sess[e]][req[e]] # e \/ pending[sess[e]][req[e]] = e)
  BY <1>5, <1>9
<1>11. PendingWaits'
  <2> SUFFICES ASSUME NEW x \in PubControls, NEW i \in ReqIDs, pending'[x][i] # None
               PROVE  pending'[x][i] = pending[x][i] /\ pending[x][i] \in SubData
    BY <1>3, <1>6 DEF PendingWaits
  <2> QED
    BY <1>4, <1>5
<1>12. DoomedIsTaken'
  <2> SUFFICES ASSUME NEW u \in Closers
               PROVE  /\ doomed'[u] # {} => pc'[u] = "closing"
                      /\ \A d \in doomed'[u] :
                          /\ req[d] # None
                          /\ pending'[sess[d]][req[d]] # d
                          /\ \A v \in Closers : d \in doomed'[v] => u = v
    BY <1>3 DEF DoomedIsTaken
  <2>1. ASSUME NEW d \in Taken PROVE pending'[sess[d]][req[d]] # d
    <3>1. sess[d] = p /\ req[d] \in ReqIDs /\ d # None
      BY <1>8
    <3> QED
      BY <1>2, <1>5, <3>1
  <2>2. ASSUME NEW d \in Taken, NEW v \in Closers PROVE d \notin doomed[v]
    BY <1>8 DEF DoomedIsTaken
  <2>3. CASE u = t
    BY <1>6, <1>8, <2>1, <2>2, <2>3
  <2>4. CASE u # t
    <3>1. doomed'[u] = doomed[u] /\ pc'[u] = pc[u] /\ doomed[u] \subseteq SubData
      BY <1>4, <1>6, <2>4
    <3>2. \A d \in doomed[u], v \in Closers : d \in doomed'[v] => u = v
      BY <1>6, <2>2, <2>4 DEF DoomedIsTaken
    <3> QED
      BY <1>10, <3>1, <3>2 DEF DoomedIsTaken
  <2> QED
    BY <2>3, <2>4
<1>13. LegIsTaken'
  <2> SUFFICES ASSUME NEW q \in PubData, leg[q] # None
               PROVE  /\ pending'[sess[leg[q]]][req[leg[q]]] # leg[q]
                      /\ \A u \in Closers : leg[q] \notin doomed'[u]
    BY <1>3, <1>6 DEF LegIsTaken
  <2>1. leg[q] \in SubData
    BY <1>4
  <2>2. leg[q] \notin Taken
    BY <1>8 DEF LegIsTaken
  <2> QED
    BY <1>6, <1>10, <2>1, <2>2 DEF LegIsTaken
<1>14. IdsAreFresh'
  BY <1>3, <1>6 DEF IdsAreFresh
<1>15. WaitingIsOwned'
  <2> SUFFICES ASSUME NEW d \in SubData, pc[d] \in Waiting, open[d]
               PROVE  \/ pending'[sess[d]][req[d]] = d
                      \/ \E u \in Closers : d \in doomed'[u]
                      \/ \E q \in PubData : leg[q] = d
    BY <1>3, <1>6 DEF WaitingIsOwned
  <2>1. CASE pending[sess[d]][req[d]] = d
    <3>1. sess[d] \in PubControls /\ req[d] \in ReqIDs /\ d # None
      BY DEF TypeOK, LocalsSet, LocalsTyped, Waiting
    <3>2. sess[d] = p => d \in Taken
      BY <1>7, <2>1, <3>1
    <3> QED
      BY <1>5, <1>6, <2>1, <3>1, <3>2
  <2>2. ASSUME NEW u \in Closers, d \in doomed[u]
        PROVE  d \in doomed'[u]
    BY <1>6, <2>2
  <2> QED
    BY <2>1, <2>2 DEF WaitingIsOwned
<1>16. PairedInSession'
  BY <1>3 DEF PairedInSession
<1>17. StreamsAreSplices'
  <2>1. ASSUME NEW x \in PubControls
        PROVE  {req[q] : q \in {y \in PubData : pc'[y] = "splicing" /\ sess[y] = x}}
                 = {req[q] : q \in {y \in PubData : pc[y] = "splicing" /\ sess[y] = x}}
    BY <1>6
  <2> QED
    BY <1>3, <2>1 DEF StreamsAreSplices
<1> QED
  BY <1>11, <1>12, <1>13, <1>14, <1>15, <1>16, <1>17

\* And closes it.
LEMMA PairingClose ==
    ASSUME TypeOK, PairingInv, NEW t \in Closers, CloseDoomed(t)
    PROVE  PairingInv'
<1> USE ConnsAssumption DEF PairingInv, Threads, Conns, Controls, DataConns, Closers
<1>1. /\ doomed' = [doomed EXCEPT ![t] = {}]
      /\ pc' = [pc EXCEPT ![t] = "notifying"] /\ pc[t] = "closing"
      /\ open' = [c \in Conns |-> open[c] /\ c \notin doomed[t]]
      /\ UNCHANGED <<pending, nextReq, streams, sess, req, leg>>
  BY DEF CloseDoomed, Goto, Shut, sessionVars, localVars
<1>2. /\ pc \in [Threads -> PubPCs \cup SubPCs \cup SubDataPCs \cup PubDataPCs \cup KillPCs]
      /\ doomed \in [Closers -> SUBSET SubData]
  BY DEF TypeOK, PCTyped, ShutdownTyped
<1>3. /\ doomed'[t] = {} /\ \A u \in Closers \ {t} : doomed'[u] = doomed[u] /\ pc'[u] = pc[u]
      /\ \A x \in DataConns : pc'[x] = pc[x]
  BY <1>1, <1>2
<1>4. PendingWaits'
  <2>1. \A p \in PubControls, i \in ReqIDs : pending[p][i] # None => pending[p][i] \in SubData
    BY DEF TypeOK, SessionTyped
  <2> QED
    BY <1>1, <1>3, <2>1 DEF PendingWaits
<1>5. DoomedIsTaken'
  BY <1>1, <1>3 DEF DoomedIsTaken
<1>6. LegIsTaken'
  BY <1>1, <1>3 DEF LegIsTaken
<1>7. IdsAreFresh'
  BY <1>1, <1>3 DEF IdsAreFresh
<1>8. WaitingIsOwned'
  <2> SUFFICES ASSUME NEW d \in SubData, pc[d] \in Waiting, open[d], d \notin doomed[t],
                      NEW u \in Closers, d \in doomed[u]
               PROVE  d \in doomed'[u]
    <3>1. open' = [c \in Conns |-> open[c] /\ c \notin doomed[t]] /\ UNCHANGED <<pending, sess, req, leg>>
      BY <1>1
    <3>2. \A d \in SubData : (open'[d] => open[d] /\ d \notin doomed[t]) /\ pc'[d] = pc[d]
      BY <1>3, <3>1
    <3> QED
      BY <3>1, <3>2 DEF WaitingIsOwned
  <2> QED
    BY <1>3
<1>9. PairedInSession'
  BY <1>1 DEF PairedInSession
<1>10. StreamsAreSplices'
  <2>1. ASSUME NEW x \in PubControls
        PROVE  {req[q] : q \in {y \in PubData : pc'[y] = "splicing" /\ sess[y] = x}}
                 = {req[q] : q \in {y \in PubData : pc[y] = "splicing" /\ sess[y] = x}}
    BY <1>3
  <2> QED
    BY <1>1, <2>1 DEF StreamsAreSplices
<1> QED
  BY <1>4, <1>5, <1>6, <1>7, <1>8, <1>9, <1>10

\* A claimed pair is spliced and listed, or closed.
LEMMA PairingSplice ==
    ASSUME TypeOK, PairingInv, NEW q \in PubData, AddStream(q)
    PROVE  PairingInv'
<1> USE ConnsAssumption DEF Threads, Conns, Controls, DataConns, Closers
<1> DEFINE p == sess[q]
<1>1. pc[q] = "claimed" /\ UNCHANGED <<pending, doomed, leg, nextReq, sess, req>>
  BY DEF AddStream, localVars, shutdownVars
<1>2. p \in PubControls
  BY <1>1 DEF TypeOK, LocalsSet, LocalsTyped
<1>3. PICK label \in {"splicing", "done"} : pc' = [pc EXCEPT ![q] = label]
  BY DEF AddStream, Goto
<1>4. /\ \A t \in Threads \ {q} : pc'[t] = pc[t]
      /\ pc'[q] = label
  BY <1>3 DEF TypeOK, PCTyped
<1>5. \A c \in Conns : open'[c] => open[c]
  BY ShutOnlyCloses DEF AddStream
<1>6. CASE closed[p]
  <2>1. label = "done" /\ UNCHANGED streams
    BY <1>3, <1>4, <1>6 DEF AddStream, Goto, TypeOK, PCTyped
  <2>2. \A d \in SubData : pc'[d] = pc[d] /\ req'[d] = req[d] /\ sess'[d] = sess[d]
    BY <1>1, <1>4
  <2>3. \A r \in PubData : /\ sess'[r] = sess[r] /\ req'[r] = req[r]
                           /\ leg[r] # None => pc'[r] \in {"claimed", "splicing", "done"}
                           /\ pc[r] = "splicing" <=> pc'[r] = "splicing"
    BY <1>1, <1>4, <2>1 DEF PairingInv, LegIsTaken
  <2>4. \A t \in Closers : pc[t] = "closing" => pc'[t] = "closing"
    BY <1>4
  <2> HIDE DEF Threads, Conns, Controls, DataConns, Closers
  <2> QED
    BY <1>1, <1>5, <2>1, <2>2, <2>3, <2>4, PairingFrame
<1>7. CASE ~closed[p]
  <2>1. streams' = [streams EXCEPT ![p] = @ \cup {req[q]}] /\ pc' = [pc EXCEPT ![q] = "splicing"]
    BY <1>7 DEF AddStream, Goto
  <2>2. PendingWaits' /\ DoomedIsTaken' /\ LegIsTaken' /\ IdsAreFresh' /\ WaitingIsOwned' /\ PairedInSession'
    <3>1. \A d \in SubData : pc'[d] = pc[d] /\ req'[d] = req[d] /\ sess'[d] = sess[d]
      BY <1>1, <1>4
    <3>2. \A r \in PubData : /\ sess'[r] = sess[r] /\ req'[r] = req[r]
                             /\ leg[r] # None => pc'[r] \in {"claimed", "splicing", "done"}
      BY <1>1, <1>4 DEF PairingInv, LegIsTaken
    <3>3. \A t \in Closers : pc[t] = "closing" => pc'[t] = "closing"
      BY <1>4
    <3> HIDE DEF Threads, Conns, Controls, DataConns, Closers
    <3> QED
      BY <1>1, <1>5, <3>1, <3>2, <3>3, OwnersFrame
  <2>3. pc'[q] = "splicing"
    BY <2>1 DEF TypeOK, PCTyped
  <2>4. ASSUME NEW x \in PubControls
        PROVE  streams'[x] = {req[r] : r \in {y \in PubData : pc'[y] = "splicing" /\ sess[y] = x}}
    <3>1. streams[x] = {req[r] : r \in {y \in PubData : pc[y] = "splicing" /\ sess[y] = x}}
      BY DEF PairingInv, StreamsAreSplices
    <3>2. CASE x = p
      <4>1. streams'[x] = streams[x] \cup {req[q]}
        BY <1>2, <2>1, <3>2 DEF TypeOK, SessionTyped
      <4>2. {y \in PubData : pc'[y] = "splicing" /\ sess[y] = x}
              = {y \in PubData : pc[y] = "splicing" /\ sess[y] = x} \cup {q}
        BY <1>4, <2>3, <3>2
      <4> QED
        BY <3>1, <4>1, <4>2
    <3>3. CASE x # p
      <4>1. streams'[x] = streams[x]
        BY <1>2, <2>1, <3>3 DEF TypeOK, SessionTyped
      <4>2. {y \in PubData : pc'[y] = "splicing" /\ sess[y] = x}
              = {y \in PubData : pc[y] = "splicing" /\ sess[y] = x}
        BY <1>1, <1>4, <3>3
      <4> QED
        BY <3>1, <4>1, <4>2
    <3> QED
      BY <3>2, <3>3
  <2>5. StreamsAreSplices'
    BY <1>1, <2>4 DEF StreamsAreSplices
  <2> QED
    BY <2>2, <2>5 DEF PairingInv
<1> QED
  BY <1>6, <1>7

\* What ends is struck off the list, and nothing else: no other splice of the
\* session has the same id, for that would be of the same connection.
LEMMA PairingEnd ==
    ASSUME TypeOK, PairingInv, NEW q \in PubData, EndSplice(q)
    PROVE  PairingInv'
<1> USE ConnsAssumption DEF Threads, Conns, Controls, DataConns, Closers
<1> DEFINE p == sess[q]
<1>1. /\ pc[q] = "splicing" /\ pc' = [pc EXCEPT ![q] = "done"]
      /\ streams' = [streams EXCEPT ![p] = @ \ {req[q]}]
      /\ UNCHANGED <<pending, doomed, leg, nextReq, sess, req>>
  BY DEF EndSplice, Goto, localVars, shutdownVars
<1>2. p \in PubControls /\ leg[q] # None
  BY <1>1 DEF TypeOK, LocalsSet, LocalsTyped
<1>3. /\ \A t \in Threads \ {q} : pc'[t] = pc[t]
      /\ pc'[q] = "done"
  BY <1>1 DEF TypeOK, PCTyped
<1>4. \A c \in Conns : open'[c] => open[c]
  BY ShutOnlyCloses DEF EndSplice
<1>5. PendingWaits' /\ DoomedIsTaken' /\ LegIsTaken' /\ IdsAreFresh' /\ WaitingIsOwned' /\ PairedInSession'
  <2>1. \A d \in SubData : pc'[d] = pc[d] /\ req'[d] = req[d] /\ sess'[d] = sess[d]
    BY <1>1, <1>3
  <2>2. \A r \in PubData : /\ sess'[r] = sess[r] /\ req'[r] = req[r]
                           /\ leg[r] # None => pc'[r] \in {"claimed", "splicing", "done"}
    BY <1>1, <1>3 DEF PairingInv, LegIsTaken
  <2>3. \A t \in Closers : pc[t] = "closing" => pc'[t] = "closing"
    BY <1>3
  <2> HIDE DEF Threads, Conns, Controls, DataConns, Closers
  <2> QED
    BY <1>1, <1>4, <2>1, <2>2, <2>3, OwnersFrame
<1>6. ASSUME NEW r \in PubData, pc[r] = "splicing", sess[r] = p, req[r] = req[q]
      PROVE  r = q
  <2>1. leg[r] \in SubData /\ leg[q] \in SubData /\ leg[r] # None
    BY <1>1, <1>2, <1>6 DEF TypeOK, LocalsSet, LocalsTyped
  <2>2. /\ sess[leg[r]] = p /\ req[leg[r]] = req[q]
        /\ sess[leg[q]] = p /\ req[leg[q]] = req[q] /\ req[leg[q]] # None
    BY <1>2, <1>6, <2>1 DEF PairingInv, PairedInSession, LegIsTaken
  <2>3. leg[r] = leg[q]
    BY <2>1, <2>2 DEF PairingInv, IdsAreFresh
  <2> QED
    BY <1>2, <2>3 DEF PairingInv, LegIsTaken
<1>7. ASSUME NEW x \in PubControls
      PROVE  streams'[x] = {req[r] : r \in {y \in PubData : pc'[y] = "splicing" /\ sess[y] = x}}
  <2>1. streams[x] = {req[r] : r \in {y \in PubData : pc[y] = "splicing" /\ sess[y] = x}}
    BY DEF PairingInv, StreamsAreSplices
  <2>2. CASE x = p
    <3>1. streams'[x] = streams[x] \ {req[q]}
      BY <1>1, <1>2, <2>2 DEF TypeOK, SessionTyped
    <3>2. {y \in PubData : pc'[y] = "splicing" /\ sess[y] = x}
            = {y \in PubData : pc[y] = "splicing" /\ sess[y] = x} \ {q}
      BY <1>3
    <3> QED
      BY <1>6, <2>1, <2>2, <3>1, <3>2
  <2>3. CASE x # p
    <3>1. streams'[x] = streams[x]
      BY <1>1, <1>2, <2>3 DEF TypeOK, SessionTyped
    <3>2. {y \in PubData : pc'[y] = "splicing" /\ sess[y] = x}
            = {y \in PubData : pc[y] = "splicing" /\ sess[y] = x}
      BY <1>3, <2>3
    <3> QED
      BY <2>1, <3>1, <3>2
  <2> QED
    BY <2>2, <2>3
<1>8. StreamsAreSplices'
  BY <1>1, <1>7 DEF StreamsAreSplices
<1> QED
  BY <1>5, <1>8 DEF PairingInv

LEMMA PairingInvStep == TypeOK /\ PairingInv /\ [Next]_vars => PairingInv'
<1> SUFFICES ASSUME TypeOK, PairingInv, [Next]_vars PROVE PairingInv'
  OBVIOUS
<1> USE ConnsAssumption, AttributesAssumption DEF Waiting
<1>0. /\ pc \in [Threads -> PubPCs \cup SubPCs \cup SubDataPCs \cup PubDataPCs \cup KillPCs]
      /\ sess \in [Threads -> PubControls \cup {None}]
  BY DEF TypeOK, PCTyped, LocalsTyped
<1>1. ASSUME NEW t \in PubControls \cup SubControls \cup Kills, pc[t] # "closing",
             \A x \in Threads \ {t} : pc'[x] = pc[x] /\ sess'[x] = sess[x],
             UNCHANGED <<pending, doomed, leg, nextReq, streams, req>>,
             \A c \in Conns : open'[c] => open[c]
      PROVE  PairingInv'
  <2>1. \A d \in SubData : pc'[d] = pc[d] /\ sess'[d] = sess[d]
    BY <1>1 DEF Threads, Conns, Controls, DataConns
  <2>2. \A q \in PubData : pc'[q] = pc[q] /\ sess'[q] = sess[q]
    BY <1>1 DEF Threads, Conns, Controls, DataConns
  <2>3. \A u \in Closers : pc[u] = "closing" => pc'[u] = "closing"
    BY <1>1 DEF Threads, Conns, Controls, Closers
  <2>4. \A q \in PubData : leg[q] # None => pc[q] \in {"claimed", "splicing", "done"}
    BY DEF PairingInv, LegIsTaken
  <2> QED
    BY <1>1, <2>1, <2>2, <2>3, <2>4, PairingFrame
<1>2. ASSUME UNCHANGED <<pending, doomed, leg, nextReq, streams, req, pc, sess>>,
             \A c \in Conns : open'[c] => open[c]
      PROVE  PairingInv'
  <2>1. \A q \in PubData : leg[q] # None => pc[q] \in {"claimed", "splicing", "done"}
    BY DEF PairingInv, LegIsTaken
  <2> QED
    BY <1>2, <2>1, PairingFrame
<1>3. ASSUME NEW p \in PubControls,
             \/ ProveClaim(p) \/ FailClaim(p) \/ RefuseKilled(p) \/ RefuseOccupied(p)
             \/ Insert(p) \/ AckPublisher(p) \/ Unregister(p)
      PROVE  PairingInv'
  <2>1. /\ pc[p] # "closing" /\ \E label : pc' = [pc EXCEPT ![p] = label]
        /\ UNCHANGED <<pending, doomed, leg, nextReq, streams, req, sess>>
    BY <1>3 DEF ProveClaim, FailClaim, RefuseKilled, RefuseOccupied, Refuse, Insert, AckPublisher,
       Unregister, Goto, sessionVars, localVars, shutdownVars
  <2>2. \A c \in Conns : open'[c] => open[c]
    BY <1>3, ShutOnlyCloses DEF ProveClaim, FailClaim, RefuseKilled, RefuseOccupied, Refuse, Insert,
       AckPublisher, Unregister
  <2>3. \A x \in Threads \ {p} : pc'[x] = pc[x] /\ sess'[x] = sess[x]
    BY <1>0, <2>1
  <2> QED
    BY <1>1, <2>1, <2>2, <2>3
<1>4. ASSUME NEW c \in Controls, LoseControl(c) \/ GoSilent(c)
      PROVE  PairingInv'
  <2>1. /\ pc[c] # "closing" /\ \E label : pc' = [pc EXCEPT ![c] = label]
        /\ UNCHANGED <<pending, doomed, leg, nextReq, streams, req, sess, open>>
    BY <1>4 DEF LoseControl, GoSilent, Goto, sessionVars, localVars, shutdownVars
  <2>2. \A x \in Threads \ {c} : pc'[x] = pc[x] /\ sess'[x] = sess[x]
    BY <1>0, <2>1
  <2> QED
    BY <1>1, <2>1, <2>2 DEF Controls
<1>5. ASSUME NEW t \in Closers, BeginShutdown(t)
      PROVE  PairingInv'
  <2>1. CASE closed[sess[t]]
    <3>1. /\ pc[t] # "closing" /\ pc' = [pc EXCEPT ![t] = "closing"]
          /\ UNCHANGED <<pending, doomed, leg, nextReq, streams, req, sess, open>>
      BY <1>5, <2>1 DEF BeginShutdown, Goto, sessionVars, localVars, shutdownVars
    <3>2. \A x \in Threads \ {t} : pc'[x] = pc[x] /\ sess'[x] = sess[x]
      BY <1>0, <3>1
    <3> QED
      BY <1>1, <3>1, <3>2 DEF Closers
  <2>2. CASE ~closed[sess[t]]
    BY <1>5, <2>2, PairingShutdown
  <2> QED
    BY <2>1, <2>2
<1>6. ASSUME NEW t \in Closers, FinishShutdown(t)
      PROVE  PairingInv'
  <2>1. /\ pc[t] # "closing" /\ \E label : pc' = [pc EXCEPT ![t] = label]
        /\ UNCHANGED <<pending, doomed, leg, nextReq, streams, req, sess>>
        /\ \A c \in Conns : open'[c] => open[c]
    BY <1>6, ShutOnlyCloses DEF FinishShutdown, Goto, sessionVars, localVars, shutdownVars
  <2>2. \A x \in Threads \ {t} : pc'[x] = pc[x] /\ sess'[x] = sess[x]
    BY <1>0, <2>1
  <2> QED
    BY <1>1, <2>1, <2>2 DEF Closers
<1>7. ASSUME NEW t \in Closers, HardClose(t) \/ \E s \in SubControls : Tell(t, s) \/ SkipGone(t, s)
      PROVE  PairingInv'
  BY <1>2, <1>7, ShutOnlyCloses DEF HardClose, Tell, SkipGone, sessionVars, localVars, shutdownVars
<1>8. ASSUME NEW k \in Kills, SeverPublisher(k) \/ \E tag \in Tags : Kill(k, tag) \/ RefuseKill(k, tag)
      PROVE  PairingInv'
  <2>1. /\ pc[k] # "closing" /\ \E label : pc' = [pc EXCEPT ![k] = label]
        /\ UNCHANGED <<pending, doomed, leg, nextReq, streams, req>>
    BY <1>8 DEF SeverPublisher, Kill, RefuseKill, Goto, sessionVars, localVars, shutdownVars
  <2>2. UNCHANGED sess \/ \E p : sess' = [sess EXCEPT ![k] = p]
    BY <1>8 DEF SeverPublisher, Kill, RefuseKill, localVars
  <2>3. \A c \in Conns : open'[c] => open[c]
    BY <1>8, ShutOnlyCloses DEF SeverPublisher, Kill, RefuseKill
  <2>4. \A x \in Threads \ {k} : pc'[x] = pc[x] /\ sess'[x] = sess[x]
    BY <1>0, <2>1, <2>2
  <2> QED
    BY <1>1, <2>1, <2>3, <2>4
<1>9. ASSUME NEW s \in SubControls,
             \/ FindSession(s) \/ RefuseSubscriber(s) \/ AddSubscriber(s)
             \/ TurnAway(s) \/ AckSubscriber(s) \/ Release(s)
      PROVE  PairingInv'
  <2>1. /\ pc[s] # "closing" /\ \E label : pc' = [pc EXCEPT ![s] = label]
        /\ UNCHANGED <<pending, doomed, leg, nextReq, streams, req>>
    BY <1>9 DEF FindSession, RefuseSubscriber, AddSubscriber, TurnAway, AckSubscriber, Release, Refuse,
       Goto, sessionVars, localVars, shutdownVars
  <2>2. UNCHANGED sess \/ \E p : sess' = [sess EXCEPT ![s] = p]
    BY <1>9 DEF FindSession, RefuseSubscriber, AddSubscriber, TurnAway, AckSubscriber, Release, localVars
  <2>3. \A c \in Conns : open'[c] => open[c]
    BY <1>9, ShutOnlyCloses DEF FindSession, RefuseSubscriber, AddSubscriber, TurnAway, AckSubscriber,
       Release, Refuse
  <2>4. \A x \in Threads \ {s} : pc'[x] = pc[x] /\ sess'[x] = sess[x]
    BY <1>0, <2>1, <2>2
  <2> QED
    BY <1>1, <2>1, <2>3, <2>4
<1>10. ASSUME NEW d \in SubData, \A x \in Threads \ {d} : pc'[x] = pc[x] /\ sess'[x] = sess[x],
              sess'[d] = sess[d] \/ pc[d] = "hello",
              pc[d] \in Waiting <=> pc'[d] \in Waiting, pc[d] # "done",
              UNCHANGED <<pending, doomed, leg, nextReq, streams, req>>,
              \A c \in Conns : open'[c] => open[c]
       PROVE  PairingInv'
  <2>1. \A x \in SubData : /\ sess'[x] = sess[x] \/ pc[x] = "hello"
                           /\ pc[x] \in Waiting <=> pc'[x] \in Waiting
                           /\ pc[x] = "done" => pc'[x] = "done"
    BY <1>10 DEF Threads, Conns, DataConns
  <2>2. \A q \in PubData : pc'[q] = pc[q] /\ sess'[q] = sess[q]
    BY <1>10 DEF Threads, Conns, DataConns
  <2>3. \A u \in Closers : pc'[u] = pc[u]
    BY <1>10 DEF Threads, Conns, Controls, DataConns, Closers
  <2>4. \A q \in PubData : leg[q] # None => pc[q] \in {"claimed", "splicing", "done"}
    BY DEF PairingInv, LegIsTaken
  <2> QED
    BY <1>10, <2>1, <2>2, <2>3, <2>4, PairingFrame
<1>11. ASSUME NEW d \in SubData,
              FindForData(d) \/ RefuseSubData(d) \/ TurnAwayData(d) \/ AckSubData(d) \/ RequestData(d)
       PROVE  PairingInv'
  <2>1. d \in Threads
    BY DEF Threads, Conns, DataConns
  <2>2. PICK label :
            /\ pc' = [pc EXCEPT ![d] = label] /\ pc[d] # "done"
            /\ pc[d] \in Waiting <=> label \in Waiting
            /\ UNCHANGED <<pending, doomed, leg, nextReq, streams, req>>
    <3>1. CASE FindForData(d)
      BY <3>1 DEF FindForData, Goto, sessionVars, shutdownVars
    <3>2. CASE RefuseSubData(d) \/ TurnAwayData(d)
      BY <3>2 DEF RefuseSubData, TurnAwayData, Refuse, Goto, sessionVars, localVars, shutdownVars
    <3>3. CASE AckSubData(d) \/ RequestData(d)
      BY <3>3 DEF AckSubData, RequestData, Goto, sessionVars, localVars, shutdownVars
    <3> QED
      BY <1>11, <3>1, <3>2, <3>3
  <2>3. \/ UNCHANGED sess
        \/ pc[d] = "hello" /\ \E p : sess' = [sess EXCEPT ![d] = p]
    <3>1. CASE FindForData(d)
      BY <3>1 DEF FindForData
    <3>2. CASE RefuseSubData(d) \/ TurnAwayData(d) \/ AckSubData(d) \/ RequestData(d)
      BY <3>2 DEF RefuseSubData, TurnAwayData, AckSubData, RequestData, localVars
    <3> QED
      BY <1>11, <3>1, <3>2
  <2>4. \A c \in Conns : open'[c] => open[c]
    BY <1>11, ShutOnlyCloses DEF FindForData, RefuseSubData, TurnAwayData, AckSubData, RequestData, Refuse
  <2>5. pc'[d] = label /\ \A x \in Threads \ {d} : pc'[x] = pc[x] /\ sess'[x] = sess[x]
    BY <1>0, <2>1, <2>2, <2>3
  <2>6. sess'[d] = sess[d] \/ pc[d] = "hello"
    BY <2>3
  <2> HIDE DEF Waiting
  <2> QED
    BY <1>10, <2>2, <2>4, <2>5, <2>6
<1>12. ASSUME NEW d \in SubData, AbandonSubData(d)
       PROVE  PairingInv'
  <2>1. sess[d] \in PubControls /\ req[d] \in ReqIDs /\ pc[d] \in Waiting
    <3>1. pc[d] \in {"acking", "requesting"}
      BY <1>12 DEF AbandonSubData
    <3>2. sess[d] # None /\ req[d] # None
      BY <3>1 DEF TypeOK, LocalsSet
    <3> QED
      BY <3>1, <3>2 DEF TypeOK, LocalsTyped, Threads, Conns, DataConns
  <2>2. pending[sess[d]][req[d]] # None => pending[sess[d]][req[d]] = d
    <3> SUFFICES ASSUME pending[sess[d]][req[d]] # None PROVE pending[sess[d]][req[d]] = d
      OBVIOUS
    <3>1. pending[sess[d]][req[d]] \in SubData /\ req[d] # None
      BY <2>1 DEF TypeOK, SessionTyped
    <3> QED
      BY <2>1, <3>1 DEF PairingInv, PendingWaits, IdsAreFresh
  <2>3. /\ Unstash(sess[d], req[d]) /\ pc' = [pc EXCEPT ![d] = "done"]
        /\ UNCHANGED <<doomed, leg, nextReq, req, streams, sess>>
    BY <1>12 DEF AbandonSubData, Goto, localVars, shutdownVars
  <2>4. \A c \in Conns : open'[c] => open[c] /\ c # d
    BY <1>12 DEF AbandonSubData, Shut
  <2> QED
    BY <2>1, <2>2, <2>3, <2>4, PairingDrop
<1>13. ASSUME NEW p \in PubControls, NEW id \in ReqIDs, Expire(p, id)
       PROVE  PairingInv'
  <2>1. /\ Unstash(p, id) /\ UNCHANGED <<doomed, leg, nextReq, req, streams, sess, pc>>
        /\ \A c \in Conns : open'[c] => open[c] /\ c # pending[p][id]
    BY <1>13 DEF Expire, Shut, localVars, shutdownVars
  <2> QED
    BY <2>1, PairingDrop
<1>14. ASSUME NEW q \in PubData, NEW label, pc' = [pc EXCEPT ![q] = label],
              label \in {"claiming", "done"}, pc[q] \in {"hello", "claiming"},
              \/ UNCHANGED <<sess, req>>
              \/ /\ pc[q] = "hello" /\ \E i : req' = [req EXCEPT ![q] = i]
                 /\ UNCHANGED sess \/ \E p : sess' = [sess EXCEPT ![q] = p] /\ CertOf[q] = CertOf[p],
              UNCHANGED <<pending, doomed, leg, nextReq, streams>>,
              \A c \in Conns : open'[c] => open[c]
       PROVE  PairingInv'
  <2>1. /\ pc \in [Threads -> PubPCs \cup SubPCs \cup SubDataPCs \cup PubDataPCs \cup KillPCs]
        /\ sess \in [Threads -> PubControls \cup {None}] /\ req \in [DataConns -> ReqIDs \cup {None}]
    BY DEF TypeOK, PCTyped, LocalsTyped
  <2>2. pc'[q] = label /\ \A x \in Threads \ {q} : pc'[x] = pc[x] /\ sess'[x] = sess[x]
    BY <1>14, <2>1 DEF Threads, Conns, DataConns
  <2>3. \A x \in DataConns \ {q} : req'[x] = req[x]
    BY <1>14, <2>1
  <2>4. \A d \in SubData : pc'[d] = pc[d] /\ sess'[d] = sess[d] /\ req'[d] = req[d]
    BY <2>2, <2>3 DEF Threads, Conns, DataConns
  <2>5. \A r \in PubData \ {q} : pc'[r] = pc[r] /\ sess'[r] = sess[r] /\ req'[r] = req[r]
    BY <2>2, <2>3 DEF Threads, Conns, DataConns
  <2>6. \A u \in Closers : pc'[u] = pc[u]
    BY <2>2 DEF Threads, Conns, Controls, DataConns, Closers
  <2>7. \A r \in PubData : leg[r] # None => pc[r] \in {"claimed", "splicing", "done"}
    BY DEF PairingInv, LegIsTaken
  <2>8. \/ sess'[q] = sess[q] /\ req'[q] = req[q]
        \/ pc[q] = "hello" /\ (sess'[q] # None => CertOf[q] = CertOf[sess'[q]])
    <3>1. q \in Threads
      BY DEF Threads, Conns, DataConns
    <3>2. sess[q] # None => CertOf[q] = CertOf[sess[q]]
      BY DEF PairingInv, PairedInSession
    <3> QED
      BY <1>14, <2>1, <3>1, <3>2
  <2>9. \A r \in PubData :
            \/ /\ sess'[r] = sess[r] /\ req'[r] = req[r]
               /\ leg[r] # None => pc'[r] \in {"claimed", "splicing", "done"}
               /\ pc[r] = "splicing" <=> pc'[r] = "splicing"
            \/ /\ pc[r] = "hello" /\ pc'[r] # "splicing"
               /\ sess'[r] # None => CertOf[r] = CertOf[sess'[r]]
    BY <1>14, <2>2, <2>5, <2>7, <2>8
  <2> QED
    BY <1>14, <2>4, <2>6, <2>9, PairingFrame
<1>15. ASSUME NEW q \in PubData, Claim(q)
       PROVE  PairingInv'
  <2>1. CASE pending[sess[q]][req[q]] # None
    BY <1>15, <2>1, PairingClaim
  <2>2. CASE pending[sess[q]][req[q]] = None
    BY <1>14, <1>15, <2>2, ShutOnlyCloses DEF Claim, Goto, shutdownVars
  <2> QED
    BY <2>1, <2>2
<1>16. ASSUME NEW q \in PubData, NEW p \in PubControls, NEW n \in DOMAIN sent[p], AttachPublisher(q, p, n)
       PROVE  PairingInv'
  <2>1. /\ pc[q] = "hello" /\ req' = [req EXCEPT ![q] = sent[p][n].id]
        /\ UNCHANGED <<pending, doomed, leg, nextReq, streams>>
        /\ \A c \in Conns : open'[c] => open[c]
    BY <1>16, ShutOnlyCloses DEF AttachPublisher, sessionVars, shutdownVars
  <2>2. \/ /\ CertOf[q] = CertOf[registry[SidOf[p]]] /\ sess' = [sess EXCEPT ![q] = registry[SidOf[p]]]
           /\ pc' = [pc EXCEPT ![q] = "claiming"]
        \/ UNCHANGED sess /\ pc' = [pc EXCEPT ![q] = "done"]
    BY <1>16 DEF AttachPublisher, Goto
  <2> QED
    BY <1>14, <2>1, <2>2
<1>17. ASSUME NEW c \in Conns, Break(c)
       PROVE  PairingInv'
  BY <1>2, <1>17, ShutOnlyCloses DEF Break, sessionVars, localVars, shutdownVars
<1>18. CASE UNCHANGED vars
  BY <1>2, <1>18 DEF vars, sessionVars, localVars, shutdownVars
<1> HIDE DEF Waiting
<1> QED
  BY <1>3, <1>4, <1>5, <1>6, <1>7, <1>8, <1>9, <1>11, <1>12, <1>13, <1>15, <1>16, <1>17, <1>18,
     PairingAdd, PairingClose, PairingSplice, PairingEnd, Steps

\* Two owners of one connection are the same owner.
LEMMA OneOwner ==
    ASSUME TypeOK, PairingInv, NEW d \in SubData, NEW x \in Owners(d), NEW y \in Owners(d)
    PROVE  x = y
<1> USE ConnsAssumption DEF Threads, Conns, Controls, DataConns, PairingInv
<1>1. d # None
  OBVIOUS
<1>2. ASSUME NEW o \in Owners(d)
      PROVE  \/ o = <<"pending", sess[d], req[d]>> /\ pending[sess[d]][req[d]] = d /\ req[d] # None
             \/ \E t \in Closers : o = <<"doomed", t>> /\ d \in doomed[t]
             \/ \E q \in PubData : o = <<"leg", q>> /\ leg[q] = d
  <2>1. CASE o \in {z \in {"pending"} \X PubControls \X ReqIDs : pending[z[2]][z[3]] = d}
    <3>1. PICK p \in PubControls, i \in ReqIDs : o = <<"pending", p, i>> /\ pending[p][i] = d
      BY <2>1
    <3>2. sess[d] = p /\ req[d] = i
      BY <1>1, <3>1 DEF PendingWaits
    <3> QED
      BY <3>1, <3>2
  <2>2. CASE o \in {<<"doomed", t>> : t \in {z \in Closers : d \in doomed[z]}}
    BY <2>2
  <2>3. CASE o \in {<<"leg", q>> : q \in {z \in PubData : leg[z] = d}}
    BY <2>3
  <2> QED
    BY <2>1, <2>2, <2>3 DEF Owners
<1>3. \A t \in Closers : d \in doomed[t] => /\ pending[sess[d]][req[d]] # d
                                            /\ \A u \in Closers : d \in doomed[u] => t = u
  BY DEF DoomedIsTaken
<1>4. \A q \in PubData : leg[q] = d => /\ pending[sess[d]][req[d]] # d
                                       /\ \A t \in Closers : d \notin doomed[t]
                                       /\ \A r \in PubData : leg[r] = d => q = r
  BY <1>1 DEF LegIsTaken
<1> QED
  BY <1>2, <1>3, <1>4

\* Whichever of the timer, the claim, a failed handler and the shutdown comes
\* first owns the waiting connection, alone, and an open one is never ownerless.
THEOREM OneOwnerEach == Spec => []OwnedByOne
<1>1. TypeOK /\ PairingInv => OwnedByOne
  <2> SUFFICES ASSUME TypeOK, PairingInv, NEW d \in SubData
               PROVE  /\ Cardinality(Owners(d)) <= 1
                      /\ pc[d] = "parked" /\ open[d] => Owners(d) # {}
    BY DEF OwnedByOne
  <2>1. Cardinality(Owners(d)) <= 1
    <3>1. CASE Owners(d) = {}
      BY <3>1, FS_EmptySet
    <3>2. CASE Owners(d) # {}
      <4>1. PICK x : x \in Owners(d)
        BY <3>2
      <4>2. Owners(d) = {x}
        BY <4>1, OneOwner
      <4>3. Cardinality({x}) = 1
        BY FS_Singleton
      <4> QED
        BY <4>2, <4>3
    <3> QED
      BY <3>1, <3>2
  <2>2. ASSUME pc[d] = "parked", open[d] PROVE Owners(d) # {}
    <3>1. \/ pending[sess[d]][req[d]] = d
          \/ \E t \in Closers : d \in doomed[t]
          \/ \E q \in PubData : leg[q] = d
      BY <2>2 DEF PairingInv, WaitingIsOwned, Waiting
    <3>2. sess[d] \in PubControls /\ req[d] \in ReqIDs
      BY <2>2, ConnsAssumption DEF TypeOK, LocalsSet, LocalsTyped, Threads, Conns, DataConns
    <3>3. CASE pending[sess[d]][req[d]] = d
      <4>1. <<"pending", sess[d], req[d]>> \in {z \in {"pending"} \X PubControls \X ReqIDs : pending[z[2]][z[3]] = d}
        BY <3>2, <3>3
      <4> QED
        BY <4>1 DEF Owners
    <3>4. CASE \E t \in Closers : d \in doomed[t]
      BY <3>4 DEF Owners
    <3>5. CASE \E q \in PubData : leg[q] = d
      BY <3>5 DEF Owners
    <3> QED
      BY <3>1, <3>3, <3>4, <3>5
  <2> QED
    BY <2>1, <2>2
<1> QED
  BY <1>1, TypeOKInit, TypeOKStep, PairingInvInit, PairingInvStep, PTL DEF Spec

\* A pair is always two connections of one session, with the publisher's own
\* certificate, and a session's list of streams is that of its running splices.
THEOREM PairsStayInSession == Spec => []PairingInv
  BY TypeOKInit, TypeOKStep, PairingInvInit, PairingInvStep, PTL DEF Spec
=============================================================================
