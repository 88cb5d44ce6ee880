----------------------------- MODULE Revocation -----------------------------
(***************************************************************************)
(* From `ca revoke' to a closed socket: the certificate authority's        *)
(* directory, the exported list, and the relay that reloads it.            *)
(***************************************************************************)
EXTENDS RelayConnectionsProperties

CONSTANTS Names, NameOf, Revokers, Exporters

\* Runs of different commands; the CA has issued every certificate there is.
ASSUME PipelineAssumption ==
    /\ Revokers \cap Exporters = {}
    /\ NameOf \in [Serials -> Names]

VARIABLES
    issued, torn, revokedDir, step, batch, list,
    past,           \* every list an export may have read from the directory
    aim             \* what was issued under the name when a revoke looked

CA == INSTANCE CertificateAuthority
        WITH CertSerials <- Serials, file <- crl

caVars == <<issued, torn, revokedDir, step, batch, list, past, aim>>
allVars == <<vars, caVars>>

PipelineInit ==
    /\ Init /\ CA!CAInit
    /\ past = {{}}
    /\ aim = [k \in Revokers |-> {}]

RelayMoves == RelayNext /\ UNCHANGED caVars

\* Exports that finish reading the directory in this step.
Reading == {k \in Exporters : step[k] = "listing" /\ step'[k] = "writing"}

\* What it may have read: all that was revoked before it looked, and nothing that
\* was not revoked by the time it had looked.
Readings(k) == {l \in SUBSET revokedDir : list[k] \subseteq l}

\* The two share the file and nothing else.
AuthorityMoves ==
    /\ CA!CANext
    /\ past' = past \cup UNION {Readings(k) : k \in Reading}
    /\ aim' = [k \in Revokers |->
                IF step[k] = "ready" /\ step'[k] = "moving"
                THEN {s \in issued : \E t \in batch'[k] : NameOf[s] = NameOf[t]}
                ELSE IF step'[k] \in {"moving", "ok"} THEN aim[k] ELSE {}]
    /\ UNCHANGED relayVars

PipelineNext == RelayMoves \/ AuthorityMoves

PipelineSpec == PipelineInit /\ [][PipelineNext]_allVars

------------------------------------------------------------------------------
\* The relay never enforces a list nobody exported: neither half a list nor one
\* that names a certificate in good standing (cmd/ggrok/ca.go:462-464).
EnforcesASnapshot == revoked \in past

\* Why it does: only what was read from the directory is renamed over the file,
\* read from the file and put in force.
SnapshotInv ==
    /\ CA!CATypeOK
    /\ aim \in [Revokers -> SUBSET Serials]
    /\ crl \subseteq Serials
    /\ {{}, crl, revoked} \subseteq past
    /\ \A k \in Exporters :
        /\ step[k] \in {"listing", "writing", "synced"} => list[k] \subseteq revokedDir
        /\ step[k] \in {"writing", "synced"} => list[k] \in past
    /\ \A a \in Conns : loaded[a] \in past

\* A `ca revoke' that succeeds has moved every certificate that was issued under
\* the name, however many there are: none stays live (ca.go:337-344).
RevokedWhole ==
    \A k \in Revokers : step[k] = "ok" => aim[k] \cap issued = {}

\* Why it has: while it moves, whatever it aimed at is revoked or still to be
\* moved, and a revoked serial is never issued again.
AimInv ==
    /\ CA!CATypeOK
    /\ aim \in [Revokers -> SUBSET Serials]
    /\ RevokedWhole
    /\ \A k \in Revokers :
        /\ aim[k] \subseteq issued \cup revokedDir
        /\ step[k] = "moving" => aim[k] \cap issued \subseteq batch[k]

\* A serial the relay refuses is refused from then on, however reloads overlap:
\* they are serialized (admin.go:276), so a list read earlier is never put in
\* force later.  This holds while exports do not overlap each other.
RevocationIsForGood == [][revoked \subseteq revoked']_allVars

\* Why: the list in force is contained in the one a reload has read, that one
\* in the file, the file in what an export is about to put there, and all of
\* them in the directory, from which nothing is ever taken.
ForGoodInv ==
    /\ CA!CATypeOK
    /\ crl \subseteq revokedDir
    /\ revoked \subseteq crl
    /\ \A k \in Exporters :
        step[k] \in {"listing", "writing", "synced"} =>
            crl \subseteq list[k] /\ list[k] \subseteq revokedDir
    /\ \A a \in Conns :
        pc[a] = "replacing" => revoked \subseteq loaded[a] /\ loaded[a] \subseteq crl
=============================================================================
