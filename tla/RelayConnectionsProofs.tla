----------------------- MODULE RelayConnectionsProofs -----------------------
(***************************************************************************)
(* ReloadInv is inductive, for every set of sockets, operators and         *)
(* serials: a reload leaves nobody admitted under a revoked serial.        *)
(*                                                                         *)
(* The argument: reloadMu makes the reload in progress unique, so the      *)
(* revoked set only changes before its holder scans; the scan sees every   *)
(* admitted socket that is open, because what is open is in the set        *)
(* (OpenIsAccounted) under its own serial (NamedTruly, AdmittedIsNamed);   *)
(* and what authenticates after the scan has looked at the new set.        *)
(*                                                                         *)
(* The second half is about the pipeline that begins at the certificate    *)
(* authority: its relay takes the steps proved about in the first.         *)
(***************************************************************************)
EXTENDS Revocation, FiniteSetTheorems, TLAPS

LEMMA InitReload == Init => ReloadInv
  BY ConnectionsAssumption
  DEF Init, ReloadInv, TypeOK, LockHeld, EvictionsOwned, RevokedAreCut,
      OpenIsAccounted, NamedTruly, AdmittedIsNamed, ClosedFirst,
      ScanWasComplete, Admitted, HandlerPCs, ReloadPCs, Locked

LEMMA TypeStep == TypeOK /\ [Next]_vars => TypeOK'
<1> SUFFICES ASSUME TypeOK, [Next]_vars PROVE TypeOK'
  OBVIOUS
<1> USE ConnectionsAssumption DEF TypeOK, Goto, Cut, reloadVars, HandlerPCs, ReloadPCs
<1>1. ASSUME NEW c \in Conns, HandlerStep(c) PROVE TypeOK'
  <2>1. CASE Handshake(c)  BY <2>1 DEF Handshake
  <2>2. CASE Authenticate(c)  BY <2>2 DEF Authenticate
  <2>3. CASE Notice(c)  BY <2>3 DEF Notice
  <2>4. CASE Leave(c)  BY <2>4 DEF Leave
  <2>5. CASE Untrack(c)  BY <2>5 DEF Untrack
  <2> QED  BY <1>1, <2>1, <2>2, <2>3, <2>4, <2>5 DEF HandlerStep
<1>2. ASSUME NEW c \in Conns, Accept(c) \/ TurnAway(c) \/ Break(c) \/ Finish(c) PROVE TypeOK'
  <2>1. CASE Accept(c)  BY <2>1 DEF Accept
  <2>2. CASE TurnAway(c)  BY <2>2 DEF TurnAway
  <2>3. CASE Break(c)  BY <2>3 DEF Break
  <2>4. CASE Finish(c)  BY <2>4 DEF Finish
  <2> QED  BY <1>2, <2>1, <2>2, <2>3, <2>4
<1>3. ASSUME NEW a \in Conns, AskReload(a) \/ Lock(a) PROVE TypeOK'
  BY <1>3 DEF AskReload, Lock
<1>4. ASSUME NEW a \in Conns, ReloadStep(a) PROVE TypeOK'
  <2>1. CASE Load(a)
    <3>1. crl # Unreadable => crl \in SUBSET Serials
      OBVIOUS
    <3>2. loaded' \in [Conns -> SUBSET Serials]
      BY <2>1, <3>1 DEF Load
    <3> QED  BY <2>1, <3>2 DEF Load
  <2>2. CASE Replace(a)  BY <2>2 DEF Replace
  <2>3. CASE Scan(a)  BY <2>3 DEF Scan
  <2>4. CASE \E c \in Conns : CloseEvicted(a, c)  BY <2>4 DEF CloseEvicted
  <2>5. CASE EvictedAll(a)  BY <2>5 DEF EvictedAll
  <2>6. CASE Reply(a)  BY <2>6 DEF Reply
  <2>7. CASE CutDeferred(a)  BY <2>7 DEF CutDeferred
  <2>8. CASE Forget(a)  BY <2>8 DEF Forget
  <2>9. CASE Unlock(a)  BY <2>9 DEF Unlock
  <2> QED  BY <1>4, <2>1, <2>2, <2>3, <2>4, <2>5, <2>6, <2>7, <2>8, <2>9 DEF ReloadStep
<1>5. CASE Stop  BY <1>5 DEF Stop
<1>6. CASE CloseAll  BY <1>6 DEF CloseAll
<1>7. CASE FileChanges  BY <1>7 DEF FileChanges, relayVars
<1>8. CASE UNCHANGED vars  BY <1>8 DEF vars
<1> QED  BY <1>1, <1>2, <1>3, <1>4, <1>5, <1>6, <1>7, <1>8 DEF Next, RelayNext

LEMMA ScanDefers ==
    ASSUME TypeOK, NEW a \in Conns, Scan(a)
    PROVE  deferred'[a] = (conns[a] \in revoked)
<1>1. deferred \in [Conns -> BOOLEAN]
  BY DEF TypeOK
<1>2. deferred' = [deferred EXCEPT ![a] = conns[a] \in revoked]
  BY DEF Scan
<1> QED  BY <1>1, <1>2, Zenon

Sockets ==
    /\ LockHeld /\ EvictionsOwned /\ RevokedAreCut
    /\ OpenIsAccounted /\ NamedTruly /\ AdmittedIsNamed
    /\ ClosedFirst /\ ScanWasComplete

LEMMA SocketStep == ReloadInv /\ TypeOK' /\ [Next]_vars => Sockets'
<1> SUFFICES ASSUME ReloadInv, TypeOK', [Next]_vars PROVE Sockets'
  OBVIOUS
<1> USE ConnectionsAssumption
    DEF ReloadInv, TypeOK, Sockets, Goto, Cut, reloadVars, HandlerPCs, ReloadPCs,
        Locked, Admitted, LockHeld, EvictionsOwned, RevokedAreCut, OpenIsAccounted,
        NamedTruly, AdmittedIsNamed, ClosedFirst, ScanWasComplete
<1>1. ASSUME NEW c \in Conns, HandlerStep(c) PROVE Sockets'
  <2>1. CASE Handshake(c)  BY <2>1 DEF Handshake
  <2>2. CASE Authenticate(c)
    <3>1. LockHeld' /\ EvictionsOwned' /\ OpenIsAccounted' /\ ClosedFirst'
      BY <2>2 DEF Authenticate
    <3>2. RevokedAreCut' /\ NamedTruly'
      BY <2>2 DEF Authenticate
    <3>3. AdmittedIsNamed'
      BY <2>2 DEF Authenticate
    <3>4. ScanWasComplete'
      BY <2>2 DEF Authenticate
    <3> QED  BY <3>1, <3>2, <3>3, <3>4
  <2>3. CASE Notice(c)  BY <2>3 DEF Notice
  <2>4. CASE Leave(c)  BY <2>4 DEF Leave
  <2>5. CASE Untrack(c)  BY <2>5 DEF Untrack
  <2> QED  BY <1>1, <2>1, <2>2, <2>3, <2>4, <2>5 DEF HandlerStep
<1>2. ASSUME NEW c \in Conns, Accept(c) \/ TurnAway(c) \/ Break(c) \/ Finish(c) PROVE Sockets'
  <2>1. CASE Accept(c)  BY <2>1 DEF Accept, Tracked
  <2>2. CASE TurnAway(c)  BY <2>2 DEF TurnAway
  <2>3. CASE Break(c)  BY <2>3 DEF Break
  <2>4. CASE Finish(c)  BY <2>4 DEF Finish
  <2> QED  BY <1>2, <2>1, <2>2, <2>3, <2>4
<1>3. ASSUME NEW a \in Conns, AskReload(a) \/ Lock(a) PROVE Sockets'
  <2>1. CASE AskReload(a)  BY <2>1 DEF AskReload
  <2>2. CASE Lock(a)  BY <2>2 DEF Lock
  <2> QED  BY <1>3, <2>1, <2>2
<1>4. ASSUME NEW a \in Conns, ReloadStep(a) PROVE Sockets'
  <2>1. CASE Load(a)  BY <2>1 DEF Load
  <2>2. CASE Replace(a)  BY <2>2 DEF Replace
  <2>3. CASE Scan(a)
    <3>1. \A b \in Conns : b # a => evict[b] = {} /\ ~deferred[b]
      BY <2>3 DEF Scan
    <3>2. LockHeld' /\ EvictionsOwned'
      BY <2>3 DEF Scan
    <3>3. RevokedAreCut'
      <4>1. \A c \in Conns : conns'[c] \in revoked => c = a /\ conns[a] \in revoked
        BY <2>3 DEF Scan
      <4>2. deferred'[a] = (conns[a] \in revoked)
        BY <2>3, ScanDefers
      <4>3. revoked' = revoked
        BY <2>3 DEF Scan
      <4> QED  BY <4>1, <4>2, <4>3
    <3>4. OpenIsAccounted' /\ NamedTruly' /\ AdmittedIsNamed' /\ ClosedFirst'
      BY <2>3, <3>1 DEF Scan
    <3>5. ScanWasComplete'
      <4> SUFFICES ASSUME NEW c \in Conns, c # a, Admitted(c)', open[c],
                          SerialOf[c] \in revoked
                   PROVE c \in evict'[a]
        BY <2>3, <3>1 DEF Scan
      <4>1. evict[a] = {}
        BY <2>3 DEF Scan
      <4>2. conns[c] = SerialOf[c]
        BY <2>3, <3>1, <4>1 DEF Scan
      <4> QED  BY <2>3, <4>2 DEF Scan
    <3> QED  BY <3>2, <3>3, <3>4, <3>5
  <2>4. ASSUME NEW c \in Conns, CloseEvicted(a, c) PROVE Sockets'  BY <2>4 DEF CloseEvicted
  <2>5. CASE EvictedAll(a)  BY <2>5 DEF EvictedAll
  <2>6. CASE Reply(a)  BY <2>6 DEF Reply
  <2>7. CASE CutDeferred(a)
    <3>1. LockHeld' /\ EvictionsOwned' /\ RevokedAreCut'
      BY <2>7 DEF CutDeferred
    <3>2. OpenIsAccounted' /\ NamedTruly'
      BY <2>7 DEF CutDeferred
    <3>3. AdmittedIsNamed'
      BY <2>7 DEF CutDeferred
    <3>4. ClosedFirst'
      <4>1. ~open'[a] /\ \A c \in Conns : ~open[c] => ~open'[c]
        BY <2>7 DEF CutDeferred
      <4>2. \A c \in Conns : c # a => pc'[c] = pc[c]
        BY <2>7 DEF CutDeferred
      <4> QED  BY <4>1, <4>2
    <3>5. ScanWasComplete'
      BY <2>7 DEF CutDeferred
    <3> QED  BY <3>1, <3>2, <3>3, <3>4, <3>5
  <2>8. CASE Forget(a)  BY <2>8 DEF Forget
  <2>9. CASE Unlock(a)  BY <2>9 DEF Unlock
  <2> QED  BY <1>4, <2>1, <2>2, <2>3, <2>4, <2>5, <2>6, <2>7, <2>8, <2>9 DEF ReloadStep
<1>5. CASE Stop  BY <1>5 DEF Stop
<1>6. CASE CloseAll  BY <1>6 DEF CloseAll, Tracked
<1>7. CASE FileChanges  BY <1>7 DEF FileChanges, relayVars
<1>8. CASE UNCHANGED vars  BY <1>8 DEF vars
<1> QED  BY <1>1, <1>2, <1>3, <1>4, <1>5, <1>6, <1>7, <1>8 DEF Next, RelayNext

\* The sockets' invariant holds in every reachable state: reloads exclude each
\* other, what is open is accounted for, and a finished scan missed nobody.
THEOREM ReloadInvariant == Spec => []ReloadInv
<1>1. ReloadInv /\ [Next]_vars => ReloadInv'
  BY TypeStep, SocketStep DEF ReloadInv, Sockets
<1> QED  BY InitReload, <1>1, PTL DEF Spec

\* connections.go:33-34: nobody stays in the set under a revoked serial, except
\* while a reload has yet to scan or to answer the operator who asked for it.
THEOREM ReloadsEnforce == Spec => []RevokedAreCut
<1>1. ReloadInv => RevokedAreCut
  BY DEF ReloadInv
<1> QED  BY ReloadInvariant, <1>1, PTL

\* connections.go:57-60: an open socket is in the set or about to be closed, so
\* that neither a shutdown nor a reload nor the limit overlooks it.
THEOREM SocketsAccounted == Spec => []OpenIsAccounted
<1>1. ReloadInv => OpenIsAccounted
  BY DEF ReloadInv
<1> QED  BY ReloadInvariant, <1>1, PTL

\* admin.go:276-277: when the reply to a reload is written, every other admitted
\* socket of a revoked serial is closed.
THEOREM ToldIsEnforced == Spec => []EnforcedWhenTold
<1>1. ReloadInv => EnforcedWhenTold
  <2> SUFFICES ASSUME ReloadInv, NEW a \in Conns, NEW c \in Conns,
                      pc[a] = "replying", a # c, Admitted(c), SerialOf[c] \in revoked
               PROVE ~open[c]
    BY DEF EnforcedWhenTold
  <2>1. evict[a] = {}
    BY DEF ReloadInv, EvictionsOwned
  <2> QED  BY <2>1 DEF ReloadInv, ScanWasComplete
<1> QED  BY ReloadInvariant, <1>1, PTL

\* connections.go:57-60: from its lock to its reply, nothing but a broken
\* connection or the end of the relay closes the socket a reload answers on.
THEOREM OwnReplyIsFirst == Spec => OwnReplyFirst
<1>1. ReloadInv /\ [Next]_vars =>
        [\A a \in Conns :
            /\ pc[a] \in {"loading", "replacing", "scanning", "evicting", "replying"}
            /\ open[a] /\ ~open'[a]
            => Break(a) \/ CloseAll]_vars
  <2> SUFFICES ASSUME ReloadInv, Next, NEW a \in Conns,
                      pc[a] \in {"loading", "replacing", "scanning", "evicting", "replying"},
                      open[a], ~open'[a]
               PROVE  Break(a) \/ CloseAll
    OBVIOUS
  <2> USE DEF ReloadInv, TypeOK
  <2>1. \A b \in Conns : pc[b] \in Locked => a = b
    BY DEF LockHeld, Locked, ReloadPCs
  <2>2. ASSUME NEW b \in Conns, NEW c \in Conns, CloseEvicted(b, c) PROVE FALSE
    <3>1. a = b
      BY <2>1, <2>2 DEF CloseEvicted, Locked, ReloadPCs
    <3>2. c # a
      BY <2>2, <3>1 DEF CloseEvicted, EvictionsOwned
    <3> QED  BY <2>2, <3>2 DEF CloseEvicted, Cut
  <2>3. ASSUME NEW b \in Conns, CutDeferred(b) PROVE FALSE
    BY <2>1, <2>3 DEF CutDeferred, Locked, ReloadPCs
  <2>4. ASSUME NEW b \in Conns, ReloadStep(b) PROVE FALSE
    <3>1. ~CutDeferred(b) /\ ~\E c \in Conns : CloseEvicted(b, c)
      BY <2>2, <2>3
    <3>2. open' = open
      BY <2>4, <3>1 DEF ReloadStep, Load, Replace, Scan, EvictedAll, Reply, Forget, Unlock
    <3> QED  BY <3>2
  <2>5. ASSUME NEW c \in Conns, Leave(c) PROVE FALSE
    <3>1. a # c
      BY <2>5 DEF Leave
    <3> QED  BY <2>5, <3>1 DEF Leave, Cut
  <2>6. ASSUME NEW c \in Conns, HandlerStep(c) \/ TurnAway(c) \/ Finish(c) PROVE FALSE
    <3>1. open' = open
      BY <2>5, <2>6 DEF HandlerStep, Handshake, Authenticate, Notice, Untrack, TurnAway, Finish
    <3> QED  BY <3>1
  <2>7. ASSUME NEW c \in Conns, Accept(c) PROVE FALSE
    BY <2>7 DEF Accept
  <2>8. ASSUME NEW c \in Conns, Break(c) PROVE Break(a)
    <3>1. a = c
      BY <2>8 DEF Break, Cut
    <3> QED  BY <2>8, <3>1
  <2>9. ASSUME NEW c \in Conns, AskReload(c) \/ Lock(c) PROVE FALSE
    <3>1. open' = open
      BY <2>9 DEF AskReload, Lock
    <3> QED  BY <3>1
  <2>10. Stop \/ FileChanges => open' = open
    BY DEF Stop, FileChanges, relayVars
  <2> QED  BY <2>4, <2>6, <2>7, <2>8, <2>9, <2>10 DEF Next, RelayNext
<1> QED  BY ReloadInvariant, <1>1, PTL DEF OwnReplyFirst, Spec

------------------------------------------------------------------------------
(* The limit *)

LimitInv == IsFiniteSet(Tracked) /\ LimitHolds

\* A step that takes nobody into the set.
LEMMA FewerTracked ==
    ASSUME LimitInv, Tracked' \subseteq Tracked, relay' = "down" => Tracked' = {}
    PROVE  LimitInv'
<1>1. IsFiniteSet(Tracked') /\ Cardinality(Tracked') <= Cardinality(Tracked)
  BY FS_Subset DEF LimitInv
<1>2. Cardinality(Tracked) \in Nat /\ Cardinality(Tracked') \in Nat
  BY <1>1, FS_CardinalityType DEF LimitInv
<1> QED  BY <1>1, <1>2, ConnectionsAssumption DEF LimitInv, LimitHolds

LEMMA LimitStep == TypeOK /\ LimitInv /\ [Next]_vars => LimitInv'
<1> SUFFICES ASSUME TypeOK, LimitInv, [Next]_vars PROVE LimitInv'
  OBVIOUS
<1>1. CASE conns' = conns /\ relay' \in {relay, "stopping"}
  BY <1>1, FewerTracked DEF Tracked, LimitInv, LimitHolds
<1>2. ASSUME NEW c \in Conns, Accept(c) PROVE LimitInv'
  <2>1. Tracked' = Tracked \cup {c}
    BY <1>2, ConnectionsAssumption DEF Accept, Tracked, TypeOK
  <2>2. IsFiniteSet(Tracked') /\ Cardinality(Tracked') <= Cardinality(Tracked) + 1
    <3>1. IsFiniteSet(Tracked) /\ Cardinality(Tracked) \in Nat
      BY FS_CardinalityType DEF LimitInv
    <3> QED  BY <2>1, <3>1, FS_AddElement
  <2>3. Cardinality(Tracked) \in Nat /\ Cardinality(Tracked') \in Nat
    BY <2>2, FS_CardinalityType DEF LimitInv
  <2>4. relay' # "down" /\ Cardinality(Tracked) < MaxConnections
    BY <1>2 DEF Accept
  <2> QED  BY <2>2, <2>3, <2>4, ConnectionsAssumption DEF LimitInv, LimitHolds
<1>3. ASSUME NEW c \in Conns, Authenticate(c) \/ Untrack(c) \/ Scan(c) \/ Forget(c)
      PROVE  LimitInv'
  <2>1. Tracked' \subseteq Tracked /\ relay' = relay
    BY <1>3 DEF Authenticate, Untrack, Scan, Forget, Tracked, TypeOK
  <2> QED  BY <2>1, FewerTracked DEF LimitInv, LimitHolds
<1>4. CASE CloseAll
  <2>1. Tracked' = {}
    BY <1>4 DEF CloseAll, Tracked
  <2> QED  BY <2>1, FewerTracked
<1>5. ASSUME NEW c \in Conns,
             Handshake(c) \/ Notice(c) \/ Leave(c) \/ TurnAway(c) \/ Break(c) \/ Finish(c)
                 \/ AskReload(c) \/ Lock(c)
      PROVE  LimitInv'
  BY <1>1, <1>5 DEF Handshake, Notice, Leave, TurnAway, Break, Finish, AskReload, Lock
<1>6. ASSUME NEW a \in Conns, ReloadStep(a), ~Scan(a), ~Forget(a) PROVE LimitInv'
  BY <1>1, <1>6
  DEF ReloadStep, Load, Replace, CloseEvicted, EvictedAll, Reply, CutDeferred, Unlock
<1>7. CASE Stop  BY <1>1, <1>7 DEF Stop
<1>8. CASE FileChanges  BY <1>1, <1>8 DEF FileChanges, relayVars
<1>9. CASE UNCHANGED vars  BY <1>1, <1>9 DEF vars
<1> QED
  BY <1>2, <1>3, <1>4, <1>5, <1>6, <1>7, <1>8, <1>9 DEF Next, RelayNext, HandlerStep

\* connections.go:45-54, 87-105: the set never outgrows maxConnections, and
\* nothing is left in it by closeAll or added to it afterwards.
THEOREM LimitKept == Spec => []LimitHolds
<1>1. Init => LimitInv
  <2> SUFFICES ASSUME Init PROVE LimitInv
    OBVIOUS
  <2>1. Tracked = {}
    BY DEF Init, Tracked
  <2> QED  BY <2>1, FS_EmptySet, ConnectionsAssumption DEF Init, LimitInv, LimitHolds
<1>2. Init => TypeOK
  BY InitReload DEF ReloadInv
<1>3. LimitInv => LimitHolds
  BY DEF LimitInv
<1> QED  BY <1>1, <1>2, <1>3, TypeStep, LimitStep, PTL DEF Spec

------------------------------------------------------------------------------
(* The pipeline: the authority's directory *)

LEMMA AuthorityTypeInit == PipelineInit => CA!CATypeOK /\ aim \in [Revokers -> SUBSET Serials]
  BY DEF PipelineInit, CA!CAInit, CA!CATypeOK, CA!Commands

LEMMA AuthorityType ==
    ASSUME CA!CATypeOK, aim \in [Revokers -> SUBSET Serials], [PipelineNext]_allVars
    PROVE  CA!CATypeOK' /\ aim' \in [Revokers -> SUBSET Serials]
<1> USE DEF CA!CATypeOK, CA!Commands, CA!Advance
<1>1. CASE UNCHANGED caVars
  BY <1>1 DEF caVars
<1>2. CASE AuthorityMoves
  <2>1. aim' \in [Revokers -> SUBSET Serials]
    BY <1>2 DEF AuthorityMoves
  <2>2. ASSUME NEW s \in Serials, CA!Store(s) PROVE CA!CATypeOK'
    BY <2>2 DEF CA!Store
  <2>3. ASSUME NEW k \in Revokers, NEW name \in Names,
               CA!StartRevoke(k, name) \/ CA!FailRevoke(k, name)
        PROVE  CA!CATypeOK'
    BY <2>3 DEF CA!StartRevoke, CA!FailRevoke
  <2>4. ASSUME NEW k \in Revokers, NEW s \in Serials, CA!Move(k, s) PROVE CA!CATypeOK'
    BY <2>4 DEF CA!Move
  <2>5. ASSUME NEW k \in Revokers, CA!FailMove(k) \/ CA!RevokeDone(k) PROVE CA!CATypeOK'
    BY <2>5 DEF CA!FailMove, CA!RevokeDone
  <2>6. ASSUME NEW k \in Exporters,
               \/ CA!ListRevoked(k) \/ CA!ReadRevoked(k) \/ CA!WriteTemp(k) \/ CA!RenameList(k)
               \/ CA!FailExport(k)
        PROVE  CA!CATypeOK'
    BY <2>6 DEF CA!ListRevoked, CA!ReadRevoked, CA!WriteTemp, CA!RenameList, CA!FailExport
  <2>7. ASSUME NEW k \in CA!Commands, CA!Again(k) PROVE CA!CATypeOK'
    BY <2>7 DEF CA!Again
  <2> QED
    BY <1>2, <2>1, <2>2, <2>3, <2>4, <2>5, <2>6, <2>7 DEF AuthorityMoves, CA!CANext
<1> QED
  BY <1>1, <1>2 DEF PipelineNext, RelayMoves, allVars

\* The relay of the pipeline takes the steps of RelayConnections: to it, the
\* authority is whoever replaces the file.
LEMMA PipelineIsRelay ==
    ASSUME SnapshotInv', [PipelineNext]_allVars
    PROVE  [Next]_vars
<1>1. CASE RelayMoves  BY <1>1 DEF RelayMoves, Next
<1>2. CASE AuthorityMoves
  <2>1. crl' \in SUBSET Serials /\ UNCHANGED relayVars
    BY <1>2 DEF AuthorityMoves, SnapshotInv
  <2> QED  BY <2>1 DEF Next, FileChanges
<1>3. CASE UNCHANGED allVars  BY <1>3 DEF allVars
<1> QED  BY <1>1, <1>2, <1>3 DEF PipelineNext

------------------------------------------------------------------------------
(* The pipeline: what is enforced was exported *)

LEMMA SnapshotInit == PipelineInit => SnapshotInv
<1> SUFFICES ASSUME PipelineInit PROVE SnapshotInv
  OBVIOUS
<1>1. /\ revokedDir = {} /\ crl = {} /\ revoked = {} /\ past = {{}}
      /\ \A k \in Exporters : list[k] = {}
      /\ \A a \in Conns : loaded[a] = {}
  BY DEF PipelineInit, Init, CA!CAInit
<1> QED  BY <1>1, AuthorityTypeInit DEF SnapshotInv

LEMMA RelayOnlyReads == RelayMoves => crl' = crl /\ UNCHANGED caVars
  BY DEF RelayMoves, RelayNext, HandlerStep, Handshake, Authenticate, Notice, Leave,
         Untrack, Accept, TurnAway, Break, Finish, AskReload, Lock, ReloadStep, Load,
         Replace, Scan, CloseEvicted, EvictedAll, Reply, CutDeferred, Forget, Unlock,
         Stop, CloseAll

\* A step of the relay reads the file, or puts in force what it has read.
LEMMA ListsMove ==
    ASSUME TypeOK, RelayMoves
    PROVE  /\ \/ revoked' = revoked
              \/ \E a \in Conns : pc[a] = "replacing" /\ revoked' = loaded[a]
           /\ \A a \in Conns :
                \/ loaded'[a] = loaded[a]
                \/ crl # Unreadable /\ loaded'[a] = crl /\ revoked' = revoked
<1> USE DEF TypeOK, RelayMoves
<1>1. ASSUME NEW a \in Conns, Load(a)
      PROVE  /\ revoked' = revoked
             /\ \A b \in Conns : \/ loaded'[b] = loaded[b]
                                 \/ crl # Unreadable /\ loaded'[b] = crl
  BY <1>1 DEF Load
<1>2. ASSUME NEW a \in Conns, Replace(a)
      PROVE  pc[a] = "replacing" /\ revoked' = loaded[a] /\ loaded' = loaded
  BY <1>2 DEF Replace, reloadVars
<1>3. ASSUME NEW a \in Conns, ReloadStep(a), ~Load(a), ~Replace(a)
      PROVE  UNCHANGED <<revoked, loaded>>
  BY <1>3
  DEF ReloadStep, Scan, CloseEvicted, EvictedAll, Reply, CutDeferred, Forget, Unlock,
      reloadVars
<1>4. ASSUME NEW c \in Conns,
             HandlerStep(c) \/ Accept(c) \/ TurnAway(c) \/ Break(c) \/ Finish(c)
                 \/ AskReload(c) \/ Lock(c)
      PROVE  UNCHANGED <<revoked, loaded>>
  BY <1>4
  DEF HandlerStep, Handshake, Authenticate, Notice, Leave, Untrack, Accept, TurnAway,
      Break, Finish, AskReload, Lock, reloadVars
<1>5. Stop \/ CloseAll => UNCHANGED <<revoked, loaded>>
  BY DEF Stop, CloseAll, reloadVars
<1> QED  BY <1>1, <1>2, <1>3, <1>4, <1>5 DEF RelayNext

\* A step of the authority adds to its directory, reads it, or renames what it
\* has read over the file.
LEMMA DirectoryMoves ==
    ASSUME CA!CATypeOK, AuthorityMoves
    PROVE  /\ UNCHANGED relayVars /\ past \subseteq past'
           /\ revokedDir \subseteq revokedDir'
           /\ crl' = crl \/ \E k \in Exporters : step[k] = "synced" /\ crl' = list[k]
<1> USE DEF CA!CATypeOK, AuthorityMoves
<1>1. ASSUME NEW s \in Serials, CA!Store(s) PROVE UNCHANGED <<revokedDir, crl>>
  BY <1>1 DEF CA!Store
<1>2. ASSUME NEW k \in Revokers, NEW name \in Names,
             CA!StartRevoke(k, name) \/ CA!FailRevoke(k, name)
      PROVE  UNCHANGED <<revokedDir, crl>>
  BY <1>2 DEF CA!StartRevoke, CA!FailRevoke
<1>3. ASSUME NEW k \in Revokers, NEW s \in Serials, CA!Move(k, s)
      PROVE  UNCHANGED crl /\ revokedDir \subseteq revokedDir'
  BY <1>3 DEF CA!Move
<1>4. ASSUME NEW k \in Revokers, CA!FailMove(k) \/ CA!RevokeDone(k)
      PROVE  UNCHANGED <<revokedDir, crl>>
  BY <1>4 DEF CA!FailMove, CA!RevokeDone
<1>5. ASSUME NEW k \in Exporters,
             CA!ListRevoked(k) \/ CA!ReadRevoked(k) \/ CA!WriteTemp(k) \/ CA!FailExport(k)
      PROVE  UNCHANGED <<revokedDir, crl>>
  BY <1>5 DEF CA!ListRevoked, CA!ReadRevoked, CA!WriteTemp, CA!FailExport
<1>6. ASSUME NEW k \in Exporters, CA!RenameList(k)
      PROVE  UNCHANGED revokedDir /\ step[k] = "synced" /\ crl' = list[k]
  BY <1>6 DEF CA!RenameList
<1>7. ASSUME NEW k \in CA!Commands, CA!Again(k) PROVE UNCHANGED <<revokedDir, crl>>
  BY <1>7 DEF CA!Again
<1> QED  BY <1>1, <1>2, <1>3, <1>4, <1>5, <1>6, <1>7 DEF CA!CANext

\* What an export holds was in the directory, and is a reading of it.
LEMMA ListsRead ==
    ASSUME SnapshotInv, AuthorityMoves, NEW k \in Exporters
    PROVE  /\ step'[k] \in {"listing", "writing", "synced"} => list'[k] \subseteq revokedDir'
           /\ step'[k] \in {"writing", "synced"} => list'[k] \in past'
<1> USE PipelineAssumption DEF SnapshotInv, CA!CATypeOK, CA!Commands, CA!Advance
<1>0. revokedDir \subseteq revokedDir' /\ past \subseteq past'
  BY DirectoryMoves
<1>1. CASE CA!ListRevoked(k)
  BY <1>1 DEF CA!ListRevoked
<1>2. CASE CA!ReadRevoked(k)
  <2>1. list[k] \subseteq list'[k] /\ list'[k] \subseteq revokedDir
    BY <1>2 DEF CA!ReadRevoked
  <2>2. k \in Reading /\ list'[k] \in Readings(k)
    BY <1>2, <2>1 DEF CA!ReadRevoked, Reading, Readings
  <2> QED  BY <1>0, <2>1, <2>2 DEF AuthorityMoves
<1>3. CASE CA!WriteTemp(k) \/ CA!RenameList(k) \/ CA!FailExport(k)
  BY <1>0, <1>3 DEF CA!WriteTemp, CA!RenameList, CA!FailExport
<1>4. CASE CA!Again(k)
  BY <1>4 DEF CA!Again
<1>5. ASSUME step'[k] = step[k], list'[k] = list[k]
      PROVE  /\ step'[k] \in {"listing", "writing", "synced"} => list'[k] \subseteq revokedDir'
             /\ step'[k] \in {"writing", "synced"} => list'[k] \in past'
  BY <1>0, <1>5
<1>6. ASSUME NEW s \in Serials, CA!Store(s) PROVE step'[k] = step[k] /\ list'[k] = list[k]
  BY <1>6 DEF CA!Store
<1>7. ASSUME NEW r \in Revokers, NEW name \in Names,
             CA!StartRevoke(r, name) \/ CA!FailRevoke(r, name)
      PROVE  step'[k] = step[k] /\ list'[k] = list[k]
  BY <1>7 DEF CA!StartRevoke, CA!FailRevoke
<1>8. ASSUME NEW r \in Revokers,
             CA!FailMove(r) \/ CA!RevokeDone(r) \/ \E s \in Serials : CA!Move(r, s)
      PROVE  step'[k] = step[k] /\ list'[k] = list[k]
  BY <1>8 DEF CA!FailMove, CA!RevokeDone, CA!Move
<1>9. ASSUME NEW j \in Exporters, j # k,
             \/ CA!ListRevoked(j) \/ CA!ReadRevoked(j) \/ CA!WriteTemp(j)
             \/ CA!RenameList(j) \/ CA!FailExport(j)
      PROVE  step'[k] = step[k] /\ list'[k] = list[k]
  BY <1>9
  DEF CA!ListRevoked, CA!ReadRevoked, CA!WriteTemp, CA!RenameList, CA!FailExport
<1>10. ASSUME NEW j \in CA!Commands, j # k, CA!Again(j)
       PROVE  step'[k] = step[k] /\ list'[k] = list[k]
  BY <1>10 DEF CA!Again
<1> QED
  BY <1>1, <1>2, <1>3, <1>4, <1>5, <1>6, <1>7, <1>8, <1>9, <1>10
  DEF AuthorityMoves, CA!CANext

LEMMA SnapshotStep == TypeOK /\ SnapshotInv /\ [PipelineNext]_allVars => SnapshotInv'
<1> SUFFICES ASSUME TypeOK, SnapshotInv, [PipelineNext]_allVars PROVE SnapshotInv'
  OBVIOUS
<1>1. CA!CATypeOK' /\ aim' \in [Revokers -> SUBSET Serials]
  BY AuthorityType DEF SnapshotInv
<1>2. CASE RelayMoves
  <2>1. UNCHANGED <<revokedDir, step, list, past, crl>>
    BY <1>2, RelayOnlyReads DEF caVars
  <2>2. \A a \in Conns : loaded'[a] \in past
    <3>1. crl \in past
      BY DEF SnapshotInv
    <3> QED  BY <1>2, <3>1, ListsMove DEF SnapshotInv
  <2>3. revoked' \in past
    BY <1>2, ListsMove DEF SnapshotInv
  <2> QED  BY <1>1, <2>1, <2>2, <2>3 DEF SnapshotInv
<1>3. CASE AuthorityMoves
  <2>1. CA!CATypeOK
    BY DEF SnapshotInv
  <2>2. UNCHANGED <<revoked, loaded>>
    BY <1>3, <2>1, DirectoryMoves DEF relayVars, reloadVars
  <2>3. crl' \in past /\ crl' \subseteq Serials
    BY <1>3, <2>1, DirectoryMoves DEF SnapshotInv, CA!CATypeOK
  <2>4. past \subseteq past'
    BY <1>3, <2>1, DirectoryMoves
  <2> QED  BY <1>1, <1>3, <2>2, <2>3, <2>4, ListsRead DEF SnapshotInv
<1>4. CASE UNCHANGED allVars
  BY <1>1, <1>4 DEF allVars, vars, caVars, reloadVars, SnapshotInv
<1> QED  BY <1>2, <1>3, <1>4 DEF PipelineNext

\* The pipeline's relay keeps the invariant of the relay's sockets.
LEMMA PipelineInvariant == PipelineSpec => [](ReloadInv /\ SnapshotInv)
<1>1. PipelineInit => ReloadInv /\ SnapshotInv
  BY SnapshotInit, InitReload DEF PipelineInit
<1>2. ReloadInv /\ SnapshotInv /\ [PipelineNext]_allVars => ReloadInv' /\ SnapshotInv'
  <2> SUFFICES ASSUME ReloadInv, SnapshotInv, [PipelineNext]_allVars
               PROVE  ReloadInv' /\ SnapshotInv'
    OBVIOUS
  <2>1. SnapshotInv'
    BY SnapshotStep DEF ReloadInv
  <2>2. [Next]_vars
    BY <2>1, PipelineIsRelay
  <2>3. ReloadInv'
    BY <2>2, TypeStep, SocketStep DEF ReloadInv, Sockets
  <2> QED  BY <2>1, <2>3
<1> QED  BY <1>1, <1>2, PTL DEF PipelineSpec

\* cmd/ggrok/ca.go:462-464: whatever the relay enforces is a reading of the
\* authority's revoked directory, with all that was in it when it began.
THEOREM SnapshotEnforced == PipelineSpec => []EnforcesASnapshot
<1>1. SnapshotInv => EnforcesASnapshot
  BY DEF SnapshotInv, EnforcesASnapshot
<1> QED  BY <1>1, PipelineInvariant, PTL

------------------------------------------------------------------------------
(* The pipeline: a revocation that succeeds is whole *)

LEMMA AimInit == PipelineInit => AimInv
<1> SUFFICES ASSUME PipelineInit PROVE AimInv
  OBVIOUS
<1>1. /\ \A k \in Revokers : aim[k] = {} /\ step[k] = "ready"
      /\ issued = {}
  BY DEF PipelineInit, CA!CAInit, CA!Commands
<1> QED  BY <1>1, AuthorityTypeInit DEF AimInv, RevokedWhole

\* A step that neither aims, nor ends a revoke, nor issues what was aimed at.
LEMMA AimSame ==
    ASSUME AimInv, CA!CATypeOK', aim' \in [Revokers -> SUBSET Serials],
           \A k \in Revokers : aim'[k] \subseteq aim[k],
           \A k \in Revokers : step'[k] = "moving" => batch'[k] = batch[k],
           issued' \ issued \subseteq Serials \ (issued \cup revokedDir),
           issued \subseteq issued' \cup revokedDir', revokedDir \subseteq revokedDir',
           \A k \in Revokers : step'[k] \in {step[k], "ready", "failed"}
    PROVE  AimInv'
<1>2. ASSUME NEW k \in Revokers
      PROVE  /\ aim'[k] \subseteq issued' \cup revokedDir'
             /\ aim'[k] \cap issued' \subseteq aim[k] \cap issued
  BY DEF AimInv
<1> QED  BY <1>2 DEF AimInv, RevokedWhole

LEMMA AimStep == AimInv /\ [PipelineNext]_allVars => AimInv'
<1> SUFFICES ASSUME AimInv, [PipelineNext]_allVars PROVE AimInv'
  OBVIOUS
<1>0. CA!CATypeOK /\ CA!CATypeOK' /\ aim' \in [Revokers -> SUBSET Serials]
  BY AuthorityType DEF AimInv
<1> USE PipelineAssumption DEF CA!Commands, CA!Advance
<1>1. CASE UNCHANGED caVars
  BY <1>0, <1>1, AimSame DEF caVars, AimInv
<1>2. CASE AuthorityMoves
  <2>0. ASSUME ~\E k \in Revokers : step[k] = "ready" /\ step'[k] = "moving"
        PROVE  \A k \in Revokers : aim'[k] \subseteq aim[k]
    BY <1>2, <2>0 DEF AuthorityMoves
  <2>1. ASSUME NEW s \in Serials, CA!Store(s) PROVE AimInv'
    BY <1>0, <2>0, <2>1, AimSame DEF CA!Store, AimInv
  <2>2. ASSUME NEW k \in Revokers, NEW name \in Names, CA!StartRevoke(k, name)
        PROVE  AimInv'
    <3>1. /\ UNCHANGED <<issued, revokedDir>>
          /\ step[k] = "ready" /\ step'[k] = "moving"
          /\ batch'[k] = {s \in issued : NameOf[s] = name}
      BY <1>0, <2>2 DEF CA!StartRevoke, CA!CATypeOK
    <3>2. \A j \in Revokers \ {k} : step'[j] = step[j] /\ batch'[j] = batch[j]
      BY <1>0, <2>2 DEF CA!StartRevoke, CA!CATypeOK
    <3>3. \A j \in Revokers \ {k} : aim'[j] \subseteq aim[j]
      BY <1>2, <3>2 DEF AuthorityMoves
    <3>4. aim'[k] = {s \in issued : \E t \in batch'[k] : NameOf[s] = NameOf[t]}
      BY <1>2, <3>1 DEF AuthorityMoves
    <3>5. aim'[k] \subseteq issued /\ aim'[k] \subseteq batch'[k]
      BY <3>1, <3>4
    <3> QED  BY <1>0, <3>1, <3>2, <3>3, <3>5 DEF AimInv, RevokedWhole
  <2>3. ASSUME NEW k \in Revokers, NEW name \in Names, CA!FailRevoke(k, name)
        PROVE  AimInv'
    <3>1. \A j \in Revokers : step'[j] \in {step[j], "failed"}
      BY <1>0, <2>3 DEF CA!FailRevoke, CA!CATypeOK
    <3>2. \A j \in Revokers : aim'[j] \subseteq aim[j]
      BY <2>0, <3>1
    <3> QED  BY <1>0, <2>3, <3>1, <3>2, AimSame DEF CA!FailRevoke
  <2>4. ASSUME NEW k \in Revokers, NEW s \in Serials, CA!Move(k, s) PROVE AimInv'
    <3>1. /\ issued' = issued \ {s} /\ revokedDir' = revokedDir \cup {s}
          /\ step' = step
          /\ batch'[k] = batch[k] \ {s}
          /\ \A j \in Revokers \ {k} : batch'[j] = batch[j]
      BY <1>0, <2>4 DEF CA!Move, CA!CATypeOK
    <3>2. \A j \in Revokers : aim'[j] \subseteq aim[j]
      BY <2>0, <3>1
    <3> QED  BY <1>0, <3>1, <3>2 DEF AimInv, RevokedWhole
  <2>5. ASSUME NEW k \in Revokers, CA!FailMove(k) PROVE AimInv'
    <3>1. \A j \in Revokers : step'[j] \in {step[j], "failed"}
      BY <1>0, <2>5 DEF CA!FailMove, CA!CATypeOK
    <3>2. \A j \in Revokers : aim'[j] \subseteq aim[j]
      BY <2>0, <3>1
    <3> QED  BY <1>0, <2>5, <3>1, <3>2, AimSame DEF CA!FailMove
  <2>6. ASSUME NEW k \in Revokers, CA!RevokeDone(k) PROVE AimInv'
    <3>1. /\ UNCHANGED <<issued, revokedDir, batch>>
          /\ step[k] = "moving" /\ batch[k] = {} /\ step'[k] = "ok"
          /\ \A j \in Revokers \ {k} : step'[j] = step[j]
      BY <1>0, <2>6 DEF CA!RevokeDone, CA!CATypeOK
    <3>2. \A j \in Revokers : aim'[j] \subseteq aim[j]
      BY <2>0, <3>1
    <3> QED  BY <1>0, <3>1, <3>2 DEF AimInv, RevokedWhole
  <2>7. ASSUME NEW k \in Exporters,
               \/ CA!ListRevoked(k) \/ CA!ReadRevoked(k) \/ CA!WriteTemp(k) \/ CA!RenameList(k)
               \/ CA!FailExport(k)
        PROVE  AimInv'
    <3>1. /\ UNCHANGED <<issued, revokedDir, batch>>
          /\ \A j \in Revokers : step'[j] = step[j]
      BY <1>0, <2>7
      DEF CA!ListRevoked, CA!ReadRevoked, CA!WriteTemp, CA!RenameList, CA!FailExport, CA!CATypeOK
    <3>2. \A j \in Revokers : aim'[j] \subseteq aim[j]
      BY <2>0, <3>1
    <3> QED  BY <1>0, <3>1, <3>2, AimSame
  <2>8. ASSUME NEW k \in CA!Commands, CA!Again(k) PROVE AimInv'
    <3>1. \A j \in Revokers : step'[j] \in {step[j], "ready"}
      BY <1>0, <2>8 DEF CA!Again, CA!CATypeOK
    <3>2. \A j \in Revokers : aim'[j] \subseteq aim[j]
      BY <2>0, <3>1
    <3> QED  BY <1>0, <2>8, <3>1, <3>2, AimSame DEF CA!Again
  <2> QED
    BY <1>2, <2>1, <2>2, <2>3, <2>4, <2>5, <2>6, <2>7, <2>8 DEF AuthorityMoves, CA!CANext
<1> QED
  BY <1>1, <1>2 DEF PipelineNext, RelayMoves, allVars

\* ca.go:337-344: a `ca revoke' that succeeds leaves none of the certificates
\* live that it found under the name, whatever other commands run beside it.
THEOREM RevokesWhole == PipelineSpec => []RevokedWhole
<1>1. AimInv => RevokedWhole
  BY DEF AimInv
<1> QED  BY AimInit, AimStep, <1>1, PTL DEF PipelineSpec

------------------------------------------------------------------------------
(* The pipeline: one exporter at a time *)

LEMMA ForGoodInit == PipelineInit => ForGoodInv
<1> SUFFICES ASSUME PipelineInit PROVE ForGoodInv
  OBVIOUS
<1>1. /\ \A k \in Exporters : step[k] = "ready"
      /\ \A a \in Conns : pc[a] = "new"
      /\ crl = {} /\ revoked = {}
  BY DEF PipelineInit, Init, CA!CAInit, CA!Commands
<1> QED  BY <1>1, AuthorityTypeInit DEF ForGoodInv

\* A step that leaves lists where they are, in the relay and in the commands.
LEMMA ForGoodSame ==
    ASSUME ForGoodInv, CA!CATypeOK', UNCHANGED <<crl, revoked, loaded, list>>,
           revokedDir \subseteq revokedDir',
           \A k \in Exporters : step'[k] \in {"listing", "writing", "synced"} =>
                                    step[k] \in {"listing", "writing", "synced"},
           \A a \in Conns : pc'[a] = "replacing" => pc[a] = "replacing"
    PROVE  ForGoodInv' /\ revoked \subseteq revoked'
  BY DEF ForGoodInv

LEMMA ForGoodRelay ==
    ASSUME ReloadInv, CA!CATypeOK', ForGoodInv, RelayMoves
    PROVE  ForGoodInv' /\ revoked \subseteq revoked'
<1> USE DEF TypeOK, Goto, RelayMoves
<1>0. /\ crl' = crl /\ UNCHANGED <<list, revokedDir, step>>
      /\ TypeOK
  BY RelayOnlyReads DEF caVars, ReloadInv
<1>1. ASSUME NEW a \in Conns, Load(a) PROVE ForGoodInv' /\ revoked \subseteq revoked'
  <2>1. \A b \in Conns \ {a} : pc'[b] = pc[b] /\ loaded'[b] = loaded[b]
    BY <1>0, <1>1 DEF Load
  <2>2. pc'[a] = "replacing" => loaded'[a] = crl
    BY <1>0, <1>1 DEF Load
  <2>3. revoked' = revoked
    BY <1>1 DEF Load
  <2> QED  BY <1>0, <2>1, <2>2, <2>3 DEF ForGoodInv
<1>2. ASSUME NEW a \in Conns, Replace(a) PROVE ForGoodInv' /\ revoked \subseteq revoked'
  <2>1. pc[a] = "replacing" /\ revoked' = loaded[a] /\ loaded' = loaded
    BY <1>2 DEF Replace, reloadVars
  <2>2. \A b \in Conns : pc'[b] # "replacing"
    <3>1. \A b \in Conns : pc[b] = "replacing" => b = a
      BY <2>1 DEF ReloadInv, LockHeld, Locked, ReloadPCs
    <3> QED  BY <1>0, <1>2, <3>1 DEF Replace
  <2> QED  BY <1>0, <2>1, <2>2 DEF ForGoodInv
<1>3. ASSUME NEW a \in Conns, ReloadStep(a), ~Load(a), ~Replace(a)
      PROVE  ForGoodInv' /\ revoked \subseteq revoked'
  <2>1. UNCHANGED <<revoked, loaded>>
    BY <1>3
    DEF ReloadStep, Scan, CloseEvicted, EvictedAll, Reply, CutDeferred, Forget, Unlock,
        reloadVars
  <2>2. \A b \in Conns : pc'[b] = "replacing" => pc[b] = "replacing"
    BY <1>0, <1>3
    DEF ReloadStep, Scan, CloseEvicted, EvictedAll, Reply, CutDeferred, Forget, Unlock
  <2> QED  BY <1>0, <2>1, <2>2, ForGoodSame
<1>4. ASSUME NEW c \in Conns,
             HandlerStep(c) \/ Accept(c) \/ TurnAway(c) \/ Break(c) \/ Finish(c)
                 \/ AskReload(c) \/ Lock(c)
      PROVE  ForGoodInv' /\ revoked \subseteq revoked'
  <2>1. UNCHANGED <<revoked, loaded>>
    BY <1>4
    DEF HandlerStep, Handshake, Authenticate, Notice, Leave, Untrack, Accept, TurnAway,
        Break, Finish, AskReload, Lock, reloadVars
  <2>2. \A b \in Conns : pc'[b] = "replacing" => pc[b] = "replacing"
    BY <1>0, <1>4
    DEF HandlerStep, Handshake, Authenticate, Notice, Leave, Untrack, Accept, TurnAway,
        Break, Finish, AskReload, Lock
  <2> QED  BY <1>0, <2>1, <2>2, ForGoodSame
<1>5. CASE Stop \/ CloseAll
  BY <1>0, <1>5, ForGoodSame DEF Stop, CloseAll, reloadVars
<1> QED  BY <1>1, <1>2, <1>3, <1>4, <1>5 DEF RelayNext

LEMMA ForGoodAuthority ==
    ASSUME \A j, k \in Exporters : j = k,
           CA!CATypeOK, CA!CATypeOK', ForGoodInv, AuthorityMoves
    PROVE  ForGoodInv' /\ revoked \subseteq revoked'
<1> USE PipelineAssumption DEF CA!CATypeOK, CA!Commands, CA!Advance
<1>0. UNCHANGED <<revoked, loaded, pc>> /\ revokedDir \subseteq revokedDir'
  BY DirectoryMoves DEF relayVars, reloadVars
<1>1. ASSUME NEW k \in Exporters, CA!ListRevoked(k) \/ CA!ReadRevoked(k)
      PROVE  ForGoodInv' /\ revoked \subseteq revoked'
  <2>1. UNCHANGED <<crl, revokedDir>>
    BY <1>1 DEF CA!ListRevoked, CA!ReadRevoked
  <2>2. \A j \in Exporters : j = k
    OBVIOUS
  <2>3. crl \subseteq list'[k] /\ list'[k] \subseteq revokedDir
    <3>1. CASE CA!ListRevoked(k)  BY <3>1 DEF CA!ListRevoked, ForGoodInv
    <3>2. CASE CA!ReadRevoked(k)  BY <3>2 DEF CA!ReadRevoked, ForGoodInv
    <3> QED  BY <1>1, <3>1, <3>2
  <2> QED  BY <1>0, <2>1, <2>2, <2>3 DEF ForGoodInv
<1>2. ASSUME NEW k \in Exporters, CA!RenameList(k)
      PROVE  ForGoodInv' /\ revoked \subseteq revoked'
  <2>1. step[k] = "synced" /\ crl' = list[k] /\ UNCHANGED <<list, revokedDir>>
    BY <1>2 DEF CA!RenameList
  <2>2. \A j \in Exporters : step'[j] = "ok"
    BY <1>2 DEF CA!RenameList
  <2>3. crl \subseteq crl' /\ crl' \subseteq revokedDir
    BY <2>1 DEF ForGoodInv
  <2> QED  BY <1>0, <2>1, <2>2, <2>3 DEF ForGoodInv
<1>3. ASSUME NEW k \in Exporters, CA!WriteTemp(k) \/ CA!FailExport(k)
      PROVE  ForGoodInv' /\ revoked \subseteq revoked'
  BY <1>0, <1>3, ForGoodSame DEF CA!WriteTemp, CA!FailExport
<1>4. ASSUME NEW k \in Revokers, NEW label, CA!Advance(k, label)
      PROVE  \A j \in Exporters : step'[j] = step[j]
  BY <1>4
<1>5. ASSUME NEW k \in Revokers, NEW name \in Names,
             CA!StartRevoke(k, name) \/ CA!FailRevoke(k, name)
      PROVE  ForGoodInv' /\ revoked \subseteq revoked'
  BY <1>0, <1>4, <1>5, ForGoodSame DEF CA!StartRevoke, CA!FailRevoke
<1>6. ASSUME NEW k \in Revokers, CA!FailMove(k) \/ CA!RevokeDone(k)
      PROVE  ForGoodInv' /\ revoked \subseteq revoked'
  BY <1>0, <1>4, <1>6, ForGoodSame DEF CA!FailMove, CA!RevokeDone
<1>7. ASSUME NEW k \in Revokers, NEW s \in Serials, CA!Move(k, s)
      PROVE  ForGoodInv' /\ revoked \subseteq revoked'
  BY <1>0, <1>7, ForGoodSame DEF CA!Move
<1>8. ASSUME NEW s \in Serials, CA!Store(s)
      PROVE  ForGoodInv' /\ revoked \subseteq revoked'
  BY <1>0, <1>8, ForGoodSame DEF CA!Store
<1>9. ASSUME NEW k \in CA!Commands, CA!Again(k)
      PROVE  ForGoodInv' /\ revoked \subseteq revoked'
  <2>1. UNCHANGED <<crl, revokedDir>> /\ step'[k] = "ready"
    BY <1>9 DEF CA!Again
  <2>2. \A j \in Exporters \ {k} : list'[j] = list[j] /\ step'[j] = step[j]
    BY <1>9 DEF CA!Again
  <2> QED  BY <1>0, <2>1, <2>2 DEF ForGoodInv
<1> QED
  BY <1>1, <1>2, <1>3, <1>5, <1>6, <1>7, <1>8, <1>9 DEF AuthorityMoves, CA!CANext

LEMMA ForGoodStep ==
    ASSUME \A j, k \in Exporters : j = k,
           ReloadInv, SnapshotInv, SnapshotInv', ForGoodInv, [PipelineNext]_allVars
    PROVE  ForGoodInv' /\ revoked \subseteq revoked'
<1>0. TypeOK /\ CA!CATypeOK /\ CA!CATypeOK'
  BY DEF ReloadInv, SnapshotInv
<1>1. CASE RelayMoves  BY <1>0, <1>1, ForGoodRelay
<1>2. CASE AuthorityMoves  BY <1>0, <1>2, ForGoodAuthority
<1>3. CASE UNCHANGED allVars
  BY <1>0, <1>3, ForGoodSame DEF allVars, vars, caVars, reloadVars
<1> QED  BY <1>1, <1>2, <1>3 DEF PipelineNext

\* admin.go:276: as long as one export runs at a time, a serial that the relay
\* refuses is refused from then on, however many reloads overlap.
THEOREM RevokedForGood ==
    ASSUME \A j, k \in Exporters : j = k
    PROVE  PipelineSpec => RevocationIsForGood
<1>1. ReloadInv /\ SnapshotInv /\ ForGoodInv /\ SnapshotInv' /\ [PipelineNext]_allVars
        => ForGoodInv' /\ [revoked \subseteq revoked']_allVars
  BY ForGoodStep
<1> QED
  BY ForGoodInit, PipelineInvariant, <1>1, PTL DEF PipelineSpec, RevocationIsForGood
=============================================================================
