------------------------- MODULE RelayRegistryProofs -------------------------
(***************************************************************************)
(* What holds of the registry whatever the number of connections, sessions *)
(* and kills.                                                              *)
(***************************************************************************)
EXTENDS RelayRegistryProperties, FiniteSetTheorems, TLAPS

\* A frame appended to what was written on a connection keeps the log typed.
LEMMA SendTyped ==
    ASSUME WireTyped, NEW c \in Conns, NEW frame \in Frames, Send(c, frame)
    PROVE  sent' \in [Conns -> Seq(Frames)]
  BY DEF WireTyped, Send

LEMMA ShutTyped ==
    ASSUME NEW cs, WireTyped, Shut(cs)
    PROVE  open' \in [Conns -> BOOLEAN]
  BY DEF WireTyped, Shut

\* Clearing or filling one place of one session keeps pending typed.
LEMMA PlaceTyped ==
    ASSUME NEW A, NEW B, NEW C, NEW f \in [A -> [B -> C]], NEW a \in A, NEW b \in B, NEW c \in C
    PROVE  [f EXCEPT ![a][b] = c] \in [A -> [B -> C]]
<1>1. [f[a] EXCEPT ![b] = c] \in [B -> C]
  OBVIOUS
<1>2. [f EXCEPT ![a] = [f[a] EXCEPT ![b] = c]] \in [A -> [B -> C]]
  BY <1>1
<1> QED
  BY <1>2

LEMMA AckIsFrame == \A status \in AckStatus : Ack(status) \in Frames
  BY DEF Ack, Frames

\* A request frame carries a request id, whatever the other frames look like.
LEMMA RequestHasId ==
    ASSUME WireTyped, NEW p \in Conns, NEW n \in DOMAIN sent[p],
           sent[p][n].kind = "request"
    PROVE  n \in Nat /\ sent[p][n].id \in ReqIDs
<1>1. sent[p] \in Seq(Frames)
  BY DEF WireTyped
<1>2. n \in Nat /\ sent[p][n] \in Frames
  BY <1>1
<1>3. CASE sent[p][n] \in [kind : {"request"}, id : ReqIDs, port : Nat]
  BY <1>2, <1>3
<1>4. CASE sent[p][n] \in [kind : {"ack"}, status : AckStatus]
  BY <1>4
<1>5. CASE sent[p][n] = SessionClosed
  BY <1>5 DEF SessionClosed
<1> QED
  BY <1>2, <1>3, <1>4, <1>5 DEF Frames

\* The subscribers of a session are finitely many.
LEMMA SubsAreCounted ==
    ASSUME SessionTyped, NEW p \in PubControls
    PROVE  Cardinality(subs[p]) \in Nat
<1>1. subs[p] \subseteq SubControls
  BY DEF SessionTyped
<1> QED
  BY <1>1, ConnsAssumption, FS_Subset, FS_CardinalityType

\* Next, one action at a time.
LEMMA TypeOKStep == TypeOK /\ [Next]_vars => TypeOK'
<1> SUFFICES ASSUME TypeOK, [Next]_vars PROVE TypeOK'
  OBVIOUS
<1> USE ConnsAssumption DEF Threads, Conns, Controls, DataConns, Closers
<1>1. ASSUME NEW p \in PubControls, ProveClaim(p)
      PROVE  TypeOK'
  <2>1. PCTyped'
    BY <1>1 DEF TypeOK, PCTyped, ProveClaim, Goto, PubPCs, SubPCs, SubDataPCs, PubDataPCs, KillPCs
  <2>2. LocalsSet'
    BY <1>1, AttributesAssumption DEF TypeOK, LocalsSet, LocalsTyped, PCTyped, ProveClaim, Goto, localVars
  <2>3. QED
    BY <1>1, <2>1, <2>2 DEF TypeOK, RegistryTyped, SessionTyped, LocalsTyped, ShutdownTyped, WireTyped, ProveClaim, registryVars, sessionVars, localVars, shutdownVars
<1>2. ASSUME NEW p \in PubControls, FailClaim(p)
      PROVE  TypeOK'
  <2>1. PCTyped'
    BY <1>2 DEF TypeOK, PCTyped, FailClaim, Refuse, Goto, PubPCs, SubPCs, SubDataPCs, PubDataPCs, KillPCs
  <2>2. WireTyped'
    BY <1>2, SendTyped, AckIsFrame, ShutTyped DEF TypeOK, FailClaim, Refuse, AckStatus, WireTyped
  <2>3. LocalsSet'
    BY <1>2, AttributesAssumption DEF TypeOK, LocalsSet, LocalsTyped, PCTyped, FailClaim, Goto, localVars, Refuse
  <2>4. QED
    BY <1>2, <2>1, <2>2, <2>3 DEF TypeOK, RegistryTyped, SessionTyped, LocalsTyped, ShutdownTyped, FailClaim, registryVars, sessionVars, localVars, shutdownVars
<1>3. ASSUME NEW p \in PubControls, RefuseKilled(p)
      PROVE  TypeOK'
  <2>1. PCTyped'
    BY <1>3 DEF TypeOK, PCTyped, RefuseKilled, Refuse, Goto, PubPCs, SubPCs, SubDataPCs, PubDataPCs, KillPCs
  <2>2. WireTyped'
    BY <1>3, SendTyped, AckIsFrame, ShutTyped DEF TypeOK, RefuseKilled, Refuse, AckStatus, WireTyped
  <2>3. LocalsSet'
    BY <1>3, AttributesAssumption DEF TypeOK, LocalsSet, LocalsTyped, PCTyped, RefuseKilled, Goto, localVars, Refuse
  <2>4. QED
    BY <1>3, <2>1, <2>2, <2>3 DEF TypeOK, RegistryTyped, SessionTyped, LocalsTyped, ShutdownTyped, RefuseKilled, registryVars, sessionVars, localVars, shutdownVars
<1>4. ASSUME NEW p \in PubControls, RefuseOccupied(p)
      PROVE  TypeOK'
  <2>1. PCTyped'
    BY <1>4 DEF TypeOK, PCTyped, RefuseOccupied, Refuse, Goto, PubPCs, SubPCs, SubDataPCs, PubDataPCs, KillPCs
  <2>2. WireTyped'
    BY <1>4, SendTyped, AckIsFrame, ShutTyped DEF TypeOK, RefuseOccupied, Refuse, AckStatus, WireTyped
  <2>3. LocalsSet'
    BY <1>4, AttributesAssumption DEF TypeOK, LocalsSet, LocalsTyped, PCTyped, RefuseOccupied, Goto, localVars, Refuse
  <2>4. QED
    BY <1>4, <2>1, <2>2, <2>3 DEF TypeOK, RegistryTyped, SessionTyped, LocalsTyped, ShutdownTyped, RefuseOccupied, registryVars, sessionVars, localVars, shutdownVars
<1>5. ASSUME NEW p \in PubControls, Insert(p)
      PROVE  TypeOK'
  <2>1. RegistryTyped'
    BY <1>5, AttributesAssumption DEF TypeOK, RegistryTyped, Insert
  <2>2. PCTyped'
    BY <1>5 DEF TypeOK, PCTyped, Insert, Goto, PubPCs, SubPCs, SubDataPCs, PubDataPCs, KillPCs
  <2>3. LocalsSet'
    BY <1>5, AttributesAssumption DEF TypeOK, LocalsSet, LocalsTyped, PCTyped, Insert, Goto, localVars
  <2>4. QED
    BY <1>5, <2>1, <2>2, <2>3 DEF TypeOK, SessionTyped, LocalsTyped, ShutdownTyped, WireTyped, Insert, sessionVars, localVars, shutdownVars
<1>6. ASSUME NEW p \in PubControls, AckPublisher(p)
      PROVE  TypeOK'
  <2>1. PCTyped'
    BY <1>6 DEF TypeOK, PCTyped, AckPublisher, Goto, PubPCs, SubPCs, SubDataPCs, PubDataPCs, KillPCs
  <2>2. WireTyped'
    BY <1>6, SendTyped, AckIsFrame DEF TypeOK, AckPublisher, AckStatus, WireTyped
  <2>3. LocalsSet'
    BY <1>6, AttributesAssumption DEF TypeOK, LocalsSet, LocalsTyped, PCTyped, AckPublisher, Goto, localVars
  <2>4. QED
    BY <1>6, <2>1, <2>2, <2>3 DEF TypeOK, RegistryTyped, SessionTyped, LocalsTyped, ShutdownTyped, AckPublisher, registryVars, sessionVars, localVars, shutdownVars
<1>7. ASSUME NEW c \in Controls, LoseControl(c)
      PROVE  TypeOK'
  <2>1. PCTyped'
    BY <1>7 DEF TypeOK, PCTyped, LoseControl, Goto, PubPCs, SubPCs, SubDataPCs, PubDataPCs, KillPCs
  <2>2. LocalsSet'
    BY <1>7, AttributesAssumption DEF TypeOK, LocalsSet, LocalsTyped, PCTyped, LoseControl, Goto, localVars
  <2>3. QED
    BY <1>7, <2>1, <2>2 DEF TypeOK, RegistryTyped, SessionTyped, LocalsTyped, ShutdownTyped, WireTyped, LoseControl, registryVars, sessionVars, localVars, shutdownVars
<1>8. ASSUME NEW c \in Controls, GoSilent(c)
      PROVE  TypeOK'
  <2>1. PCTyped'
    BY <1>8 DEF TypeOK, PCTyped, GoSilent, Goto, PubPCs, SubPCs, SubDataPCs, PubDataPCs, KillPCs
  <2>2. LocalsSet'
    BY <1>8, AttributesAssumption DEF TypeOK, LocalsSet, LocalsTyped, PCTyped, GoSilent, Goto, localVars
  <2>3. QED
    BY <1>8, <2>1, <2>2 DEF TypeOK, RegistryTyped, SessionTyped, LocalsTyped, ShutdownTyped, WireTyped, GoSilent, registryVars, sessionVars, localVars, shutdownVars
<1>9. ASSUME NEW p \in PubControls, Unregister(p)
      PROVE  TypeOK'
  <2>1. RegistryTyped'
    BY <1>9, AttributesAssumption DEF TypeOK, RegistryTyped, Unregister
  <2>2. PCTyped'
    BY <1>9 DEF TypeOK, PCTyped, Unregister, Goto, PubPCs, SubPCs, SubDataPCs, PubDataPCs, KillPCs
  <2>3. LocalsSet'
    BY <1>9, AttributesAssumption DEF TypeOK, LocalsSet, LocalsTyped, PCTyped, Unregister, Goto, localVars
  <2>4. QED
    BY <1>9, <2>1, <2>2, <2>3 DEF TypeOK, SessionTyped, LocalsTyped, ShutdownTyped, WireTyped, Unregister, sessionVars, localVars, shutdownVars
<1>10. ASSUME NEW t \in Closers, BeginShutdown(t)
      PROVE  TypeOK'
  <2>1. sess[t] \in PubControls
    BY <1>10 DEF TypeOK, LocalsTyped, LocalsSet, PCTyped, BeginShutdown
  <2>2. SessionTyped'
    <3>1. CASE closed[sess[t]]
      BY <1>10, <3>1 DEF TypeOK, SessionTyped, BeginShutdown, sessionVars
    <3>2. CASE ~closed[sess[t]]
      <4>1. /\ closed' = [closed EXCEPT ![sess[t]] = TRUE]
            /\ pending' = [pending EXCEPT ![sess[t]] = [i \in ReqIDs |-> None]]
            /\ UNCHANGED <<subs, certs, nextReq, streams>>
        BY <1>10, <3>2 DEF BeginShutdown
      <4> QED
        BY <2>1, <4>1 DEF TypeOK, SessionTyped
    <3> QED BY <3>1, <3>2
  <2>3. PCTyped'
    BY <1>10, <2>1 DEF TypeOK, PCTyped, BeginShutdown, Goto, PubPCs, SubPCs, SubDataPCs, PubDataPCs, KillPCs
  <2>4. ShutdownTyped'
    <3>1. CASE closed[sess[t]]
      BY <1>10, <3>1 DEF TypeOK, ShutdownTyped, BeginShutdown, shutdownVars
    <3>2. CASE ~closed[sess[t]]
      <4> DEFINE taken == {pending[sess[t]][i] : i \in Held(sess[t])}
      <4>1. taken \subseteq SubData
        BY <2>1 DEF TypeOK, SessionTyped, Held
      <4>2. subs[sess[t]] \subseteq SubControls /\ Cardinality(subs[sess[t]]) \in Nat
        BY <2>1, SubsAreCounted DEF TypeOK, SessionTyped
      <4>3. /\ doomed' = [doomed EXCEPT ![t] = taken]
            /\ farewell' = [farewell EXCEPT ![t] = subs[sess[t]]]
            /\ notified' = [notified EXCEPT ![t] = Cardinality(subs[sess[t]])]
        BY <1>10, <3>2 DEF BeginShutdown
      <4> QED
        BY <4>1, <4>2, <4>3 DEF TypeOK, ShutdownTyped
    <3> QED BY <3>1, <3>2
  <2>5. LocalsSet'
    BY <1>10, <2>1, AttributesAssumption DEF TypeOK, LocalsSet, LocalsTyped, PCTyped, BeginShutdown, Goto, localVars
  <2>6. QED
    BY <1>10, <2>2, <2>3, <2>4, <2>5 DEF TypeOK, RegistryTyped, LocalsTyped, WireTyped, BeginShutdown, registryVars, localVars
<1>11. ASSUME NEW t \in Closers, CloseDoomed(t)
      PROVE  TypeOK'
  <2>1. PCTyped'
    BY <1>11 DEF TypeOK, PCTyped, CloseDoomed, Goto, PubPCs, SubPCs, SubDataPCs, PubDataPCs, KillPCs
  <2>2. ShutdownTyped'
    BY <1>11 DEF TypeOK, ShutdownTyped, CloseDoomed, LocalsTyped, SessionTyped, RegistryTyped
  <2>3. WireTyped'
    BY <1>11, ShutTyped DEF TypeOK, CloseDoomed, WireTyped
  <2>4. LocalsSet'
    BY <1>11, AttributesAssumption DEF TypeOK, LocalsSet, LocalsTyped, PCTyped, CloseDoomed, Goto, localVars
  <2>5. QED
    BY <1>11, <2>1, <2>2, <2>3, <2>4 DEF TypeOK, RegistryTyped, SessionTyped, LocalsTyped, CloseDoomed, registryVars, sessionVars, localVars
<1>12. ASSUME NEW t \in Closers, NEW s \in SubControls, Tell(t, s)
      PROVE  TypeOK'
  <2>1. ShutdownTyped'
    BY <1>12 DEF TypeOK, ShutdownTyped, Tell, LocalsTyped, SessionTyped, RegistryTyped
  <2>2. WireTyped'
    BY <1>12, SendTyped, ShutTyped DEF TypeOK, Tell, Frames, WireTyped
  <2>3. QED
    BY <1>12, <2>1, <2>2 DEF TypeOK, RegistryTyped, SessionTyped, PCTyped, LocalsTyped, LocalsSet, Tell, registryVars, sessionVars, localVars
<1>13. ASSUME NEW t \in Closers, NEW s \in SubControls, SkipGone(t, s)
      PROVE  TypeOK'
  <2>1. ShutdownTyped'
    BY <1>13 DEF TypeOK, ShutdownTyped, SkipGone, LocalsTyped, SessionTyped, RegistryTyped
  <2>2. QED
    BY <1>13, <2>1 DEF TypeOK, RegistryTyped, SessionTyped, PCTyped, LocalsTyped, WireTyped, LocalsSet, SkipGone, registryVars, sessionVars, localVars
<1>14. ASSUME NEW t \in Closers, HardClose(t)
      PROVE  TypeOK'
  <2>1. WireTyped'
    BY <1>14, ShutTyped DEF TypeOK, HardClose, WireTyped
  <2>2. QED
    BY <1>14, <2>1 DEF TypeOK, RegistryTyped, SessionTyped, PCTyped, LocalsTyped, ShutdownTyped, LocalsSet, HardClose, registryVars, sessionVars, localVars, shutdownVars
<1>15. ASSUME NEW t \in Closers, FinishShutdown(t)
      PROVE  TypeOK'
  <2>1. PCTyped'
    BY <1>15 DEF TypeOK, PCTyped, FinishShutdown, Goto, PubPCs, SubPCs, SubDataPCs, PubDataPCs, KillPCs
  <2>2. WireTyped'
    BY <1>15, ShutTyped DEF TypeOK, FinishShutdown, WireTyped
  <2>3. LocalsSet'
    BY <1>15, AttributesAssumption DEF TypeOK, LocalsSet, LocalsTyped, PCTyped, FinishShutdown, Goto, localVars
  <2>4. QED
    BY <1>15, <2>1, <2>2, <2>3 DEF TypeOK, RegistryTyped, SessionTyped, LocalsTyped, ShutdownTyped, FinishShutdown, registryVars, sessionVars, localVars, shutdownVars
<1>16. ASSUME NEW k \in Kills, NEW tag \in Tags, Kill(k, tag)
      PROVE  TypeOK'
  <2>1. RegistryTyped'
    BY <1>16, AttributesAssumption DEF TypeOK, RegistryTyped, Kill
  <2>2. PCTyped'
    BY <1>16 DEF TypeOK, PCTyped, Kill, Goto, PubPCs, SubPCs, SubDataPCs, PubDataPCs, KillPCs
  <2>3. LocalsTyped'
    BY <1>16, AttributesAssumption DEF TypeOK, LocalsTyped, Kill, LocalsSet, SessionTyped, RegistryTyped
  <2>4. LocalsSet'
    BY <1>16, AttributesAssumption DEF TypeOK, LocalsSet, LocalsTyped, PCTyped, Kill, Goto, localVars, RegistryTyped, SessionTyped, ReqIDs, Matching
  <2>5. QED
    BY <1>16, <2>1, <2>2, <2>3, <2>4 DEF TypeOK, SessionTyped, ShutdownTyped, WireTyped, Kill, sessionVars, shutdownVars
<1>17. ASSUME NEW k \in Kills, NEW tag \in Tags, RefuseKill(k, tag)
      PROVE  TypeOK'
  <2>1. PCTyped'
    BY <1>17 DEF TypeOK, PCTyped, RefuseKill, Goto, PubPCs, SubPCs, SubDataPCs, PubDataPCs, KillPCs
  <2>2. LocalsSet'
    BY <1>17, AttributesAssumption DEF TypeOK, LocalsSet, LocalsTyped, PCTyped, RefuseKill, Goto, localVars
  <2>3. QED
    BY <1>17, <2>1, <2>2 DEF TypeOK, RegistryTyped, SessionTyped, LocalsTyped, ShutdownTyped, WireTyped, RefuseKill, registryVars, sessionVars, localVars, shutdownVars
<1>18. ASSUME NEW k \in Kills, SeverPublisher(k)
      PROVE  TypeOK'
  <2>1. PCTyped'
    BY <1>18 DEF TypeOK, PCTyped, SeverPublisher, Goto, PubPCs, SubPCs, SubDataPCs, PubDataPCs, KillPCs
  <2>2. WireTyped'
    BY <1>18, ShutTyped DEF TypeOK, SeverPublisher, WireTyped
  <2>3. LocalsSet'
    BY <1>18, AttributesAssumption DEF TypeOK, LocalsSet, LocalsTyped, PCTyped, SeverPublisher, Goto, localVars
  <2>4. QED
    BY <1>18, <2>1, <2>2, <2>3 DEF TypeOK, RegistryTyped, SessionTyped, LocalsTyped, ShutdownTyped, SeverPublisher, registryVars, sessionVars, localVars, shutdownVars
<1>19. ASSUME NEW s \in SubControls, FindSession(s)
      PROVE  TypeOK'
  <2>1. PCTyped'
    BY <1>19 DEF TypeOK, PCTyped, FindSession, Goto, PubPCs, SubPCs, SubDataPCs, PubDataPCs, KillPCs
  <2>2. LocalsTyped'
    BY <1>19, AttributesAssumption DEF TypeOK, LocalsTyped, FindSession, LocalsSet, SessionTyped, RegistryTyped
  <2>3. LocalsSet'
    BY <1>19, AttributesAssumption DEF TypeOK, LocalsSet, LocalsTyped, PCTyped, FindSession, Goto, localVars, RegistryTyped, SessionTyped, ReqIDs
  <2>4. QED
    BY <1>19, <2>1, <2>2, <2>3 DEF TypeOK, RegistryTyped, SessionTyped, ShutdownTyped, WireTyped, FindSession, registryVars, sessionVars, shutdownVars
<1>20. ASSUME NEW s \in SubControls, RefuseSubscriber(s)
      PROVE  TypeOK'
  <2>1. PCTyped'
    BY <1>20 DEF TypeOK, PCTyped, RefuseSubscriber, Refuse, Goto, PubPCs, SubPCs, SubDataPCs, PubDataPCs, KillPCs
  <2>2. WireTyped'
    BY <1>20, SendTyped, AckIsFrame, ShutTyped DEF TypeOK, RefuseSubscriber, Refuse, AckStatus, WireTyped
  <2>3. LocalsSet'
    BY <1>20, AttributesAssumption DEF TypeOK, LocalsSet, LocalsTyped, PCTyped, RefuseSubscriber, Goto, localVars, Refuse
  <2>4. QED
    BY <1>20, <2>1, <2>2, <2>3 DEF TypeOK, RegistryTyped, SessionTyped, LocalsTyped, ShutdownTyped, RefuseSubscriber, registryVars, sessionVars, localVars, shutdownVars
<1>21. ASSUME NEW s \in SubControls, AddSubscriber(s)
      PROVE  TypeOK'
  <2>1. SessionTyped'
    BY <1>21, AttributesAssumption DEF TypeOK, SessionTyped, AddSubscriber, LocalsSet, LocalsTyped, RegistryTyped
  <2>2. PCTyped'
    BY <1>21 DEF TypeOK, PCTyped, AddSubscriber, Goto, PubPCs, SubPCs, SubDataPCs, PubDataPCs, KillPCs
  <2>3. LocalsSet'
    BY <1>21, AttributesAssumption DEF TypeOK, LocalsSet, LocalsTyped, PCTyped, AddSubscriber, Goto, localVars
  <2>4. QED
    BY <1>21, <2>1, <2>2, <2>3 DEF TypeOK, RegistryTyped, LocalsTyped, ShutdownTyped, WireTyped, AddSubscriber, registryVars, localVars, shutdownVars
<1>22. ASSUME NEW s \in SubControls, TurnAway(s)
      PROVE  TypeOK'
  <2>1. PCTyped'
    BY <1>22 DEF TypeOK, PCTyped, TurnAway, Refuse, Goto, PubPCs, SubPCs, SubDataPCs, PubDataPCs, KillPCs
  <2>2. WireTyped'
    BY <1>22, SendTyped, AckIsFrame, ShutTyped DEF TypeOK, TurnAway, Refuse, AckStatus, WireTyped
  <2>3. LocalsSet'
    BY <1>22, AttributesAssumption DEF TypeOK, LocalsSet, LocalsTyped, PCTyped, TurnAway, Goto, localVars, Refuse
  <2>4. QED
    BY <1>22, <2>1, <2>2, <2>3 DEF TypeOK, RegistryTyped, SessionTyped, LocalsTyped, ShutdownTyped, TurnAway, registryVars, sessionVars, localVars, shutdownVars
<1>23. ASSUME NEW s \in SubControls, AckSubscriber(s)
      PROVE  TypeOK'
  <2>1. PCTyped'
    BY <1>23 DEF TypeOK, PCTyped, AckSubscriber, Goto, PubPCs, SubPCs, SubDataPCs, PubDataPCs, KillPCs
  <2>2. WireTyped'
    BY <1>23, SendTyped, AckIsFrame DEF TypeOK, AckSubscriber, AckStatus, WireTyped
  <2>3. LocalsSet'
    BY <1>23, AttributesAssumption DEF TypeOK, LocalsSet, LocalsTyped, PCTyped, AckSubscriber, Goto, localVars
  <2>4. QED
    BY <1>23, <2>1, <2>2, <2>3 DEF TypeOK, RegistryTyped, SessionTyped, LocalsTyped, ShutdownTyped, AckSubscriber, registryVars, sessionVars, localVars, shutdownVars
<1>24. ASSUME NEW s \in SubControls, Release(s)
      PROVE  TypeOK'
  <2>1. SessionTyped'
    BY <1>24, AttributesAssumption DEF TypeOK, SessionTyped, Release, LocalsSet, LocalsTyped, RegistryTyped
  <2>2. PCTyped'
    BY <1>24 DEF TypeOK, PCTyped, Release, Goto, PubPCs, SubPCs, SubDataPCs, PubDataPCs, KillPCs
  <2>3. WireTyped'
    BY <1>24, ShutTyped DEF TypeOK, Release, WireTyped
  <2>4. LocalsSet'
    BY <1>24, AttributesAssumption DEF TypeOK, LocalsSet, LocalsTyped, PCTyped, Release, Goto, localVars
  <2>5. QED
    BY <1>24, <2>1, <2>2, <2>3, <2>4 DEF TypeOK, RegistryTyped, LocalsTyped, ShutdownTyped, Release, registryVars, localVars, shutdownVars
<1>25. ASSUME NEW d \in SubData, FindForData(d)
      PROVE  TypeOK'
  <2>1. PCTyped'
    BY <1>25 DEF TypeOK, PCTyped, FindForData, Goto, PubPCs, SubPCs, SubDataPCs, PubDataPCs, KillPCs
  <2>2. LocalsTyped'
    BY <1>25, AttributesAssumption DEF TypeOK, LocalsTyped, FindForData, LocalsSet, SessionTyped, RegistryTyped
  <2>3. LocalsSet'
    BY <1>25, AttributesAssumption DEF TypeOK, LocalsSet, LocalsTyped, PCTyped, FindForData, Goto, localVars, RegistryTyped, SessionTyped, ReqIDs
  <2>4. QED
    BY <1>25, <2>1, <2>2, <2>3 DEF TypeOK, RegistryTyped, SessionTyped, ShutdownTyped, WireTyped, FindForData, registryVars, sessionVars, shutdownVars
<1>26. ASSUME NEW d \in SubData, RefuseSubData(d)
      PROVE  TypeOK'
  <2>1. PCTyped'
    BY <1>26 DEF TypeOK, PCTyped, RefuseSubData, Refuse, Goto, PubPCs, SubPCs, SubDataPCs, PubDataPCs, KillPCs
  <2>2. WireTyped'
    BY <1>26, SendTyped, AckIsFrame, ShutTyped DEF TypeOK, RefuseSubData, Refuse, AckStatus, WireTyped
  <2>3. LocalsSet'
    BY <1>26, AttributesAssumption DEF TypeOK, LocalsSet, LocalsTyped, PCTyped, RefuseSubData, Goto, localVars, Refuse
  <2>4. QED
    BY <1>26, <2>1, <2>2, <2>3 DEF TypeOK, RegistryTyped, SessionTyped, LocalsTyped, ShutdownTyped, RefuseSubData, registryVars, sessionVars, localVars, shutdownVars
<1>27. ASSUME NEW d \in SubData, AddPending(d)
      PROVE  TypeOK'
  <2>1. SessionTyped'
    BY <1>27, AttributesAssumption DEF TypeOK, SessionTyped, AddPending, LocalsSet, LocalsTyped, RegistryTyped, ReqIDs
  <2>2. PCTyped'
    BY <1>27 DEF TypeOK, PCTyped, AddPending, Goto, PubPCs, SubPCs, SubDataPCs, PubDataPCs, KillPCs
  <2>3. LocalsTyped'
    BY <1>27, AttributesAssumption DEF TypeOK, LocalsTyped, AddPending, LocalsSet, SessionTyped, RegistryTyped, ReqIDs
  <2>4. LocalsSet'
    BY <1>27, AttributesAssumption DEF TypeOK, LocalsSet, LocalsTyped, PCTyped, AddPending, Goto, localVars, RegistryTyped, SessionTyped, ReqIDs
  <2>5. QED
    BY <1>27, <2>1, <2>2, <2>3, <2>4 DEF TypeOK, RegistryTyped, ShutdownTyped, WireTyped, AddPending, registryVars, shutdownVars
<1>28. ASSUME NEW d \in SubData, TurnAwayData(d)
      PROVE  TypeOK'
  <2>1. PCTyped'
    BY <1>28 DEF TypeOK, PCTyped, TurnAwayData, Refuse, Goto, PubPCs, SubPCs, SubDataPCs, PubDataPCs, KillPCs
  <2>2. WireTyped'
    BY <1>28, SendTyped, AckIsFrame, ShutTyped DEF TypeOK, TurnAwayData, Refuse, AckStatus, WireTyped
  <2>3. LocalsSet'
    BY <1>28, AttributesAssumption DEF TypeOK, LocalsSet, LocalsTyped, PCTyped, TurnAwayData, Goto, localVars, Refuse
  <2>4. QED
    BY <1>28, <2>1, <2>2, <2>3 DEF TypeOK, RegistryTyped, SessionTyped, LocalsTyped, ShutdownTyped, TurnAwayData, registryVars, sessionVars, localVars, shutdownVars
<1>29. ASSUME NEW d \in SubData, AckSubData(d)
      PROVE  TypeOK'
  <2>1. PCTyped'
    BY <1>29 DEF TypeOK, PCTyped, AckSubData, Goto, PubPCs, SubPCs, SubDataPCs, PubDataPCs, KillPCs
  <2>2. WireTyped'
    BY <1>29, SendTyped, AckIsFrame DEF TypeOK, AckSubData, AckStatus, WireTyped
  <2>3. LocalsSet'
    BY <1>29, AttributesAssumption DEF TypeOK, LocalsSet, LocalsTyped, PCTyped, AckSubData, Goto, localVars
  <2>4. QED
    BY <1>29, <2>1, <2>2, <2>3 DEF TypeOK, RegistryTyped, SessionTyped, LocalsTyped, ShutdownTyped, AckSubData, registryVars, sessionVars, localVars, shutdownVars
<1>30. ASSUME NEW d \in SubData, RequestData(d)
      PROVE  TypeOK'
  <2>1. PCTyped'
    BY <1>30 DEF TypeOK, PCTyped, RequestData, Goto, PubPCs, SubPCs, SubDataPCs, PubDataPCs, KillPCs
  <2>2. WireTyped'
    BY <1>30, SendTyped, AttributesAssumption DEF TypeOK, RequestData, Frames, RequestFrame, LocalsSet, LocalsTyped, WireTyped
  <2>3. LocalsSet'
    BY <1>30, AttributesAssumption DEF TypeOK, LocalsSet, LocalsTyped, PCTyped, RequestData, Goto, localVars
  <2>4. QED
    BY <1>30, <2>1, <2>2, <2>3 DEF TypeOK, RegistryTyped, SessionTyped, LocalsTyped, ShutdownTyped, RequestData, registryVars, sessionVars, localVars, shutdownVars
<1>31. ASSUME NEW d \in SubData, AbandonSubData(d)
      PROVE  TypeOK'
  <2>1. SessionTyped'
    BY <1>31, AttributesAssumption DEF TypeOK, SessionTyped, AbandonSubData, LocalsSet, LocalsTyped, RegistryTyped, Unstash
  <2>2. PCTyped'
    BY <1>31 DEF TypeOK, PCTyped, AbandonSubData, Goto, PubPCs, SubPCs, SubDataPCs, PubDataPCs, KillPCs
  <2>3. WireTyped'
    BY <1>31, ShutTyped DEF TypeOK, AbandonSubData, WireTyped
  <2>4. LocalsSet'
    BY <1>31, AttributesAssumption DEF TypeOK, LocalsSet, LocalsTyped, PCTyped, AbandonSubData, Goto, localVars
  <2>5. QED
    BY <1>31, <2>1, <2>2, <2>3, <2>4 DEF TypeOK, RegistryTyped, LocalsTyped, ShutdownTyped, AbandonSubData, registryVars, localVars, shutdownVars
<1>32. ASSUME NEW p \in PubControls, NEW id \in ReqIDs, Expire(p, id)
      PROVE  TypeOK'
  <2>1. SessionTyped'
    BY <1>32, AttributesAssumption DEF TypeOK, SessionTyped, Expire, LocalsSet, LocalsTyped, RegistryTyped, Unstash
  <2>2. WireTyped'
    BY <1>32, ShutTyped DEF TypeOK, Expire, WireTyped
  <2>3. QED
    BY <1>32, <2>1, <2>2 DEF TypeOK, RegistryTyped, PCTyped, LocalsTyped, ShutdownTyped, LocalsSet, Expire, registryVars, localVars, shutdownVars
<1>33. ASSUME NEW q \in PubData, NEW p \in PubControls, NEW n \in DOMAIN sent[p], AttachPublisher(q, p, n)
      PROVE  TypeOK'
  <2>1. n \in Nat /\ sent[p][n].id \in ReqIDs
    BY <1>33, RequestHasId DEF TypeOK, LocalsTyped, LocalsSet, PCTyped, AttachPublisher, Answers
  <2>2. PCTyped'
    BY <1>33, <2>1 DEF TypeOK, PCTyped, AttachPublisher, Goto, PubPCs, SubPCs, SubDataPCs, PubDataPCs, KillPCs
  <2>3. LocalsTyped'
    BY <1>33, <2>1, AttributesAssumption DEF TypeOK, LocalsTyped, RegistryTyped, AttachPublisher
  <2>4. WireTyped'
    BY <1>33, ShutTyped DEF TypeOK, AttachPublisher, WireTyped
  <2>5. LocalsSet'
    BY <1>33, <2>1, AttributesAssumption DEF TypeOK, LocalsSet, LocalsTyped, PCTyped, AttachPublisher, Goto
  <2>6. QED
    BY <1>33, <2>2, <2>3, <2>4, <2>5 DEF TypeOK, RegistryTyped, SessionTyped, ShutdownTyped, AttachPublisher, registryVars, sessionVars, shutdownVars
<1>34. ASSUME NEW q \in PubData, Claim(q)
      PROVE  TypeOK'
  <2> DEFINE d == pending[sess[q]][req[q]]
  <2>1. sess[q] \in PubControls /\ req[q] \in ReqIDs
    BY <1>34 DEF TypeOK, LocalsTyped, LocalsSet, PCTyped, Claim
  <2>2. d \in SubData \cup {None}
    BY <2>1 DEF TypeOK, SessionTyped
  <2>3. \/ d # None /\ leg' = [leg EXCEPT ![q] = d] /\ pc' = [pc EXCEPT ![q] = "claimed"]
           /\ pending' = [pending EXCEPT ![sess[q]][req[q]] = None]
        \/ pc' = [pc EXCEPT ![q] = "done"] /\ UNCHANGED <<leg, pending>>
    BY <1>34 DEF Claim, Unstash, Goto
  <2>4. SessionTyped'
    <3>1. pending' = [pending EXCEPT ![sess[q]][req[q]] = None] \/ pending' = pending
      BY <2>3
    <3> HIDE DEF ReqIDs
    <3>2. pending \in [PubControls -> [ReqIDs -> SubData \cup {None}]]
      BY DEF TypeOK, SessionTyped
    <3>3. [pending EXCEPT ![sess[q]][req[q]] = None] \in [PubControls -> [ReqIDs -> SubData \cup {None}]]
      BY <2>1, <3>2, PlaceTyped
    <3>4. pending' \in [PubControls -> [ReqIDs -> SubData \cup {None}]]
      BY <3>1, <3>2, <3>3
    <3> QED
      BY <1>34, <3>4 DEF TypeOK, SessionTyped, Claim
  <2>5. PCTyped'
    BY <2>3 DEF TypeOK, PCTyped, PubPCs, SubPCs, SubDataPCs, PubDataPCs, KillPCs
  <2>6. LocalsTyped'
    <3>1. leg' \in [PubData -> SubData \cup {None}]
      BY <2>2, <2>3 DEF TypeOK, LocalsTyped
    <3> QED
      BY <1>34, <3>1 DEF TypeOK, LocalsTyped, Claim
  <2>7. WireTyped'
    BY <1>34, ShutTyped DEF TypeOK, Claim, WireTyped
  <2>8. LocalsSet'
    <3>1. UNCHANGED <<sess, req>>
      BY <1>34 DEF Claim
    <3>2. \A t \in Threads : t # q => pc'[t] = pc[t]
      BY <2>3 DEF TypeOK, PCTyped
    <3>3. \A r \in PubData : r # q => leg'[r] = leg[r]
      BY <2>3 DEF TypeOK, LocalsTyped
    <3>4. pc'[q] \in {"claimed", "splicing"} => leg'[q] # None
      BY <2>3 DEF TypeOK, PCTyped, LocalsTyped
    <3>5. \A r \in PubData :
            /\ pc'[r] \in {"claiming", "claimed", "splicing"} => sess'[r] # None /\ req'[r] # None
            /\ pc'[r] \in {"claimed", "splicing"} => leg'[r] # None
      <4> SUFFICES ASSUME NEW r \in PubData
                   PROVE  /\ pc'[r] \in {"claiming", "claimed", "splicing"} =>
                                sess'[r] # None /\ req'[r] # None
                          /\ pc'[r] \in {"claimed", "splicing"} => leg'[r] # None
        OBVIOUS
      <4>1. CASE r = q
        BY <2>1, <3>1, <3>4, <4>1
      <4>2. CASE r # q
        BY <3>1, <3>2, <3>3, <4>2 DEF TypeOK, LocalsSet
      <4> QED
        BY <4>1, <4>2
    <3> QED
      BY <3>1, <3>2, <3>5 DEF TypeOK, LocalsSet
  <2>9. QED
    BY <1>34, <2>4, <2>5, <2>6, <2>7, <2>8 DEF TypeOK, RegistryTyped, ShutdownTyped, Claim, registryVars, shutdownVars
<1>35. ASSUME NEW q \in PubData, AddStream(q)
      PROVE  TypeOK'
  <2>1. sess[q] \in PubControls /\ req[q] \in ReqIDs
    BY <1>35 DEF TypeOK, LocalsTyped, LocalsSet, PCTyped, AddStream
  <2>2. SessionTyped'
    <3>1. streams' = streams \/ streams' = [streams EXCEPT ![sess[q]] = @ \cup {req[q]}]
      BY <1>35 DEF AddStream
    <3>2. streams' \in [PubControls -> SUBSET ReqIDs]
      BY <2>1, <3>1 DEF TypeOK, SessionTyped
    <3> QED
      BY <1>35, <3>2 DEF TypeOK, SessionTyped, AddStream
  <2>3. PCTyped'
    BY <1>35, <2>1 DEF TypeOK, PCTyped, AddStream, Goto, PubPCs, SubPCs, SubDataPCs, PubDataPCs, KillPCs
  <2>4. WireTyped'
    BY <1>35, ShutTyped DEF TypeOK, AddStream, WireTyped
  <2>5. LocalsSet'
    BY <1>35, <2>1, AttributesAssumption DEF TypeOK, LocalsSet, LocalsTyped, PCTyped, AddStream, Goto, localVars
  <2>6. QED
    BY <1>35, <2>2, <2>3, <2>4, <2>5 DEF TypeOK, RegistryTyped, LocalsTyped, ShutdownTyped, AddStream, registryVars, localVars, shutdownVars
<1>36. ASSUME NEW q \in PubData, EndSplice(q)
      PROVE  TypeOK'
  <2>1. SessionTyped'
    BY <1>36, AttributesAssumption DEF TypeOK, SessionTyped, EndSplice, LocalsSet, LocalsTyped, RegistryTyped
  <2>2. PCTyped'
    BY <1>36 DEF TypeOK, PCTyped, EndSplice, Goto, PubPCs, SubPCs, SubDataPCs, PubDataPCs, KillPCs
  <2>3. WireTyped'
    BY <1>36, ShutTyped DEF TypeOK, EndSplice, WireTyped
  <2>4. LocalsSet'
    BY <1>36, AttributesAssumption DEF TypeOK, LocalsSet, LocalsTyped, PCTyped, EndSplice, Goto, localVars
  <2>5. QED
    BY <1>36, <2>1, <2>2, <2>3, <2>4 DEF TypeOK, RegistryTyped, LocalsTyped, ShutdownTyped, EndSplice, registryVars, localVars, shutdownVars
<1>37. ASSUME NEW c \in Conns, Break(c)
      PROVE  TypeOK'
  <2>1. WireTyped'
    BY <1>37, ShutTyped DEF TypeOK, Break, WireTyped
  <2>2. QED
    BY <1>37, <2>1 DEF TypeOK, RegistryTyped, SessionTyped, PCTyped, LocalsTyped, ShutdownTyped, LocalsSet, Break, registryVars, sessionVars, localVars, shutdownVars
<1>38. CASE UNCHANGED vars
  BY <1>38 DEF vars, registryVars, sessionVars, localVars, shutdownVars, TypeOK, RegistryTyped,
     SessionTyped, PCTyped, LocalsTyped, ShutdownTyped, WireTyped, LocalsSet
<1> QED
  BY <1>1, <1>2, <1>3, <1>4, <1>5, <1>6, <1>7, <1>8, <1>9, <1>10, <1>11, <1>12, <1>13, <1>14, <1>15, <1>16, <1>17, <1>18, <1>19, <1>20, <1>21, <1>22, <1>23, <1>24, <1>25, <1>26, <1>27, <1>28, <1>29, <1>30, <1>31, <1>32, <1>33, <1>34, <1>35, <1>36, <1>37, <1>38 DEF Next, System, Environment, PublisherStep, SubscriberStep,
     SubDataStep, PubDataStep, KillStep, ShutdownStep

LEMMA TypeOKInit == Init => TypeOK
  BY ConnsAssumption DEF Init, TypeOK, RegistryTyped, SessionTyped, PCTyped, LocalsTyped,
     ShutdownTyped, WireTyped, LocalsSet, Threads, Conns, Controls, DataConns, Closers,
     PubPCs, SubPCs, SubDataPCs, PubDataPCs, KillPCs

\* Every variable keeps its type, and no handler uses a local before it is set.
THEOREM TypeCorrect == Spec => []TypeOK
  BY TypeOKInit, TypeOKStep, PTL DEF Spec

------------------------------------------------------------------------------
(* The slots *)

LEMMA SlotInvInit == Init => SlotInv
  BY ConnsAssumption DEF Init, SlotInv, DeletesOnlyItsOwn, ListedIsLive, KilledStaysOut,
     KillsNameBanned, NewIsOpen, Holding, Threads, Conns, Controls, DataConns

\* A step that moves no publisher's handler and no kill to another session, and
\* leaves registry, killed and closed alone, cannot disturb the slots.
LEMMA SlotInvFrame ==
    ASSUME SlotInv, UNCHANGED <<registry, killed, closed>>,
           \A p \in PubControls : pc'[p] = pc[p],
           \A k \in Kills : sess'[k] = sess[k],
           TypeOK
    PROVE  SlotInv'
  BY ConnsAssumption DEF SlotInv, DeletesOnlyItsOwn, ListedIsLive, KilledStaysOut, KillsNameBanned,
     NewIsOpen, TypeOK, RegistryTyped, LocalsTyped, Threads

LEMMA SlotInvStep == TypeOK /\ SlotInv /\ [Next]_vars => SlotInv'
<1> SUFFICES ASSUME TypeOK, SlotInv, [Next]_vars PROVE SlotInv'
  OBVIOUS
<1> USE ConnsAssumption, AttributesAssumption
        DEF Threads, Conns, Controls, DataConns, Closers, TypeOK, PCTyped, LocalsTyped, RegistryTyped
<1>1. ASSUME NEW p \in PubControls,
             ProveClaim(p) \/ FailClaim(p) \/ RefuseKilled(p) \/ RefuseOccupied(p) \/ AckPublisher(p)
      PROVE  SlotInv'
  BY <1>1 DEF ProveClaim, FailClaim, RefuseKilled, RefuseOccupied, AckPublisher, Refuse, Goto,
     registryVars, sessionVars, localVars, SlotInv, DeletesOnlyItsOwn, ListedIsLive, KilledStaysOut,
     KillsNameBanned, NewIsOpen, Holding
<1>2. ASSUME NEW c \in Controls, LoseControl(c) \/ GoSilent(c)
      PROVE  SlotInv'
  BY <1>2 DEF LoseControl, GoSilent, Goto, registryVars, sessionVars, localVars,
     SlotInv, DeletesOnlyItsOwn, ListedIsLive, KilledStaysOut, KillsNameBanned, NewIsOpen, Holding
<1>3. ASSUME NEW p \in PubControls, Insert(p)
      PROVE  SlotInv'
  BY <1>3 DEF Insert, Goto, sessionVars, localVars,
     SlotInv, DeletesOnlyItsOwn, ListedIsLive, KilledStaysOut, KillsNameBanned, NewIsOpen, Holding
<1>4. ASSUME NEW p \in PubControls, Unregister(p)
      PROVE  SlotInv'
  BY <1>4 DEF Unregister, Goto, sessionVars, localVars,
     SlotInv, DeletesOnlyItsOwn, ListedIsLive, KilledStaysOut, KillsNameBanned, NewIsOpen, Holding
<1>5. ASSUME NEW k \in Kills, NEW tag \in Tags, Kill(k, tag)
      PROVE  SlotInv'
  BY <1>5 DEF Kill, Matching, Goto, sessionVars,
     SlotInv, DeletesOnlyItsOwn, ListedIsLive, KilledStaysOut, KillsNameBanned, NewIsOpen, Holding
<1>6. ASSUME NEW t \in Closers, BeginShutdown(t)
      PROVE  SlotInv'
  <2>1. /\ UNCHANGED <<registry, killed, sess>> /\ pc[t] = "shutdown"
        /\ pc' = [pc EXCEPT ![t] = "closing"]
    BY <1>6 DEF BeginShutdown, Goto, registryVars, localVars
  <2>2. sess[t] \in PubControls
    BY <2>1 DEF LocalsSet
  <2>3. \A p \in PubControls : p # sess[t] => closed'[p] = closed[p]
    BY <1>6, <2>2 DEF BeginShutdown, sessionVars, SessionTyped
  <2>4. \A sid \in SessionIDs : registry[sid] # sess[t]
    BY <2>1, <2>2 DEF LocalsSet, SlotInv, ListedIsLive, KillsNameBanned, KilledStaysOut, Holding
  <2>5. pc[sess[t]] \notin {"hello", "claimed"}
    BY <2>1, <2>2 DEF LocalsSet, SlotInv, KillsNameBanned
  <2>6. ListedIsLive' /\ NewIsOpen'
    BY <2>1, <2>3, <2>4, <2>5 DEF SlotInv, ListedIsLive, NewIsOpen, Holding
  <2>7. DeletesOnlyItsOwn' /\ KilledStaysOut' /\ KillsNameBanned'
    BY <2>1 DEF SlotInv, DeletesOnlyItsOwn, KilledStaysOut, KillsNameBanned, Holding
  <2> QED
    BY <2>6, <2>7 DEF SlotInv
<1>7. ASSUME NEW t \in Closers, CloseDoomed(t) \/ FinishShutdown(t)
      PROVE  SlotInv'
  BY <1>7 DEF CloseDoomed, FinishShutdown, Goto, sessionVars, localVars, registryVars,
     SlotInv, DeletesOnlyItsOwn, ListedIsLive, KilledStaysOut, KillsNameBanned, NewIsOpen, Holding
<1>8. ASSUME NEW t \in Closers,
             HardClose(t) \/ \E s \in SubControls : Tell(t, s) \/ SkipGone(t, s)
      PROVE  SlotInv'
  BY <1>8, SlotInvFrame DEF Tell, SkipGone, HardClose, registryVars, sessionVars, localVars
<1>9. ASSUME NEW k \in Kills, SeverPublisher(k) \/ \E tag \in Tags : RefuseKill(k, tag)
      PROVE  SlotInv'
  BY <1>9, SlotInvFrame DEF RefuseKill, SeverPublisher, Goto, registryVars, sessionVars, localVars
<1>10. ASSUME NEW s \in SubControls,
              \/ FindSession(s) \/ RefuseSubscriber(s) \/ AddSubscriber(s)
              \/ TurnAway(s) \/ AckSubscriber(s) \/ Release(s)
       PROVE  SlotInv'
  BY <1>10, SlotInvFrame DEF FindSession, RefuseSubscriber, AddSubscriber, TurnAway, AckSubscriber,
     Release, Refuse, Goto, registryVars, sessionVars, localVars
<1>11. ASSUME NEW d \in SubData, SubDataStep(d)
       PROVE  SlotInv'
  BY <1>11, SlotInvFrame DEF SubDataStep, FindForData, RefuseSubData, AddPending, TurnAwayData,
     AckSubData, RequestData, AbandonSubData, Refuse, Goto, registryVars, sessionVars, localVars
<1>12. ASSUME NEW p \in PubControls, NEW id \in ReqIDs, Expire(p, id)
       PROVE  SlotInv'
  BY <1>12, SlotInvFrame DEF Expire, registryVars, localVars
<1>13. ASSUME NEW q \in PubData, NEW p \in PubControls, NEW n \in DOMAIN sent[p],
              AttachPublisher(q, p, n)
       PROVE  SlotInv'
  BY <1>13, SlotInvFrame DEF AttachPublisher, Goto, registryVars, sessionVars
<1>14. ASSUME NEW q \in PubData, PubDataStep(q)
       PROVE  SlotInv'
  BY <1>14, SlotInvFrame DEF PubDataStep, Claim, AddStream, EndSplice, Goto, registryVars, localVars
<1>15. ASSUME NEW c \in Conns, Break(c)
       PROVE  SlotInv'
  BY <1>15, SlotInvFrame DEF Break, registryVars, sessionVars, localVars
<1>16. CASE UNCHANGED vars
  BY <1>16, SlotInvFrame DEF vars, registryVars, sessionVars, localVars
<1> HIDE DEF TypeOK, PCTyped, LocalsTyped, RegistryTyped, Conns, DataConns, Threads
<1>17. ASSUME NEW t \in Closers, ShutdownStep(t)
       PROVE  SlotInv'
  BY <1>6, <1>7, <1>8, <1>17 DEF ShutdownStep
<1>18. ASSUME NEW p \in PubControls, PublisherStep(p)
       PROVE  SlotInv'
  BY <1>1, <1>2, <1>3, <1>4, <1>17, <1>18 DEF PublisherStep
<1>19. ASSUME NEW s \in SubControls, SubscriberStep(s)
       PROVE  SlotInv'
  BY <1>2, <1>10, <1>19 DEF SubscriberStep
<1>20. ASSUME NEW k \in Kills, KillStep(k)
       PROVE  SlotInv'
  BY <1>9, <1>17, <1>20 DEF KillStep
<1>21. CASE System
  BY <1>8, <1>11, <1>12, <1>14, <1>18, <1>19, <1>20, <1>21 DEF System
<1>22. CASE Environment
  BY <1>2, <1>5, <1>8, <1>9, <1>13, <1>15, <1>22 DEF Environment
<1> QED
  BY <1>16, <1>21, <1>22 DEF Next

\* The registry's slot is exclusive and a kill is for good, whatever races it:
\* a handler deletes only its own session, what is listed is alive, and what
\* was killed is never listed again.
THEOREM SlotsHold == Spec => []RegistryInv
<1>1. TypeOK /\ SlotInv => RegistryInv
  BY DEF RegistryInv
<1> QED
  BY <1>1, TypeOKInit, TypeOKStep, SlotInvInit, SlotInvStep, PTL DEF Spec
=============================================================================
