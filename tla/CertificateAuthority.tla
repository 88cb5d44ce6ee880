------------------------ MODULE CertificateAuthority ------------------------
(***************************************************************************)
(* The CA's directory and the list exported from it: ca.go (Store, Revoke, *)
(* RevokedSerials) and cmd/ggrok/ca.go (ca revoke, ca crl).                *)
(*                                                                         *)
(* Every command is a process of its own that may stop at any step; the    *)
(* directory and the file are all they share.  The exported file is the    *)
(* one the relay reads (its copy to the relay's host is the operator's).   *)
(***************************************************************************)
EXTENDS FiniteSets

CONSTANTS
    CertSerials,
    Names,          \* common names
    NameOf,         \* the common name of each certificate
    Revokers,       \* runs of `ca revoke'
    Exporters       \* runs of `ca crl'

VARIABLES
    issued,         \* serials in the issued subdirectory
    torn,           \* those whose file is there but does not parse
    revokedDir,     \* serials in the revoked subdirectory
    step,           \* where each command is
    batch,          \* certificates a revoke has still to move
    list,           \* the serials an export has read
    file            \* the exported list

caVars == <<issued, torn, revokedDir, step, batch, list, file>>

Commands == Revokers \cup Exporters

CATypeOK ==
    /\ issued \subseteq CertSerials /\ torn \subseteq CertSerials
    /\ revokedDir \subseteq CertSerials
    /\ step \in [Commands -> {"ready", "moving", "listing", "writing", "synced",
                           "ok", "failed"}]
    /\ batch \in [Revokers -> SUBSET CertSerials]
    /\ list \in [Exporters -> SUBSET CertSerials]

CAInit ==
    /\ issued = {} /\ torn = {} /\ revokedDir = {}
    /\ step = [k \in Commands |-> "ready"]
    /\ batch = [k \in Revokers |-> {}]
    /\ list = [k \in Exporters |-> {}]
    /\ file = {}

Advance(k, label) == step' = [step EXCEPT ![k] = label]

------------------------------------------------------------------------------
(* Plausible bugs: each is substituted for its original to see that a        *)
(* property notices.                                                         *)

\* Only the first certificate of the name is revoked.
RevokeFirst(k, name) ==
    /\ step[k] = "ready" /\ torn = {}
    /\ \E s \in issued :
        NameOf[s] = name /\ batch' = [batch EXCEPT ![k] = {s}]
    /\ Advance(k, "moving")
    /\ UNCHANGED <<issued, torn, revokedDir, list, file>>

\* The list is written over the file it replaces.
WriteInPlace(k) ==
    /\ step[k] = "writing"
    /\ file' \in SUBSET list[k]
    /\ Advance(k, IF file' = list[k] THEN "synced" ELSE "writing")
    /\ UNCHANGED <<issued, torn, revokedDir, batch, list>>

------------------------------------------------------------------------------
\* Store.  os.WriteFile is not atomic: a process that stops inside it leaves a
\* file that does not parse.
Store(s) ==
    /\ s \notin issued \cup revokedDir
    /\ issued' = issued \cup {s}
    /\ torn' \in {torn, torn \cup {s}}
    /\ UNCHANGED <<revokedDir, step, batch, list, file>>

\* Revoke reads the whole issued directory: one torn file fails it.  The step
\* is the listing; the files are read after it, and what is moved away by then
\* fails the command (FailRevoke) or its own move (FailMove).
StartRevoke(k, name) ==
    LET matched == {s \in issued : NameOf[s] = name} IN
    /\ step[k] = "ready" /\ torn = {} /\ matched # {}
    /\ batch' = [batch EXCEPT ![k] = matched]
    /\ Advance(k, "moving")
    /\ UNCHANGED <<issued, torn, revokedDir, list, file>>

\* A name without certificates, a torn file, or a file that another revoke moved
\* between the listing and its reading.
FailRevoke(k, name) ==
    /\ step[k] = "ready"
    /\ \/ torn # {}
       \/ ~\E s \in issued : NameOf[s] = name
       \/ \E j \in Revokers \ {k} : step[j] = "moving" /\ revokedDir # {}
    /\ Advance(k, "failed")
    /\ UNCHANGED <<issued, torn, revokedDir, batch, list, file>>

\* One rename.
Move(k, s) ==
    /\ step[k] = "moving" /\ s \in batch[k] /\ s \in issued
    /\ issued' = issued \ {s}
    /\ revokedDir' = revokedDir \cup {s}
    /\ batch' = [batch EXCEPT ![k] = @ \ {s}]
    /\ UNCHANGED <<torn, step, list, file>>

\* Another revoke moved it first, or the rename failed: what is moved stays
\* moved and the rest is not tried.
FailMove(k) ==
    /\ step[k] = "moving" /\ batch[k] # {}
    /\ Advance(k, "failed")
    /\ UNCHANGED <<issued, torn, revokedDir, batch, list, file>>

RevokeDone(k) ==
    /\ step[k] = "moving" /\ batch[k] = {}
    /\ Advance(k, "ok")
    /\ UNCHANGED <<issued, torn, revokedDir, batch, list, file>>

\* ca crl: RevokedSerials, then writeRevokedSerials' temporary file, then its
\* rename over the list.  What is moved into the directory while it is listed may
\* or may not be seen; what is there is never changed, so reading it file by file
\* adds nothing.
ListRevoked(k) ==
    /\ step[k] = "ready"
    /\ list' = [list EXCEPT ![k] = revokedDir]
    /\ Advance(k, "listing")
    /\ UNCHANGED <<issued, torn, revokedDir, batch, file>>

ReadRevoked(k) ==
    /\ step[k] = "listing"
    /\ \E late \in SUBSET (revokedDir \ list[k]) :
        list' = [list EXCEPT ![k] = @ \cup late]
    /\ Advance(k, "writing")
    /\ UNCHANGED <<issued, torn, revokedDir, batch, file>>

WriteTemp(k) ==
    /\ step[k] = "writing"
    /\ Advance(k, "synced")
    /\ UNCHANGED <<issued, torn, revokedDir, batch, list, file>>

RenameList(k) ==
    /\ step[k] = "synced"
    /\ file' = list[k]
    /\ Advance(k, "ok")
    /\ UNCHANGED <<issued, torn, revokedDir, batch, list>>

FailExport(k) ==
    /\ step[k] \in {"listing", "writing", "synced"}
    /\ Advance(k, "failed")
    /\ UNCHANGED <<issued, torn, revokedDir, batch, list, file>>

\* The operator runs the command again: a new process, with nothing in hand.
Again(k) ==
    /\ step[k] \in {"ok", "failed"}
    /\ batch' = [j \in Revokers |-> IF j = k THEN {} ELSE batch[j]]
    /\ list' = [j \in Exporters |-> IF j = k THEN {} ELSE list[j]]
    /\ Advance(k, "ready")
    /\ UNCHANGED <<issued, torn, revokedDir, file>>

CANext ==
    \/ \E s \in CertSerials : Store(s)
    \/ \E k \in Revokers :
        \/ \E name \in Names : StartRevoke(k, name) \/ FailRevoke(k, name)
        \/ \E s \in CertSerials : Move(k, s)
        \/ FailMove(k) \/ RevokeDone(k)
    \/ \E k \in Exporters :
        ListRevoked(k) \/ ReadRevoked(k) \/ WriteTemp(k) \/ RenameList(k) \/ FailExport(k)
    \/ \E k \in Commands : Again(k)
=============================================================================
