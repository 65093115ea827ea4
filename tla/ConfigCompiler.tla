--------------------------- MODULE ConfigCompiler ---------------------------
(***************************************************************************)
(* config-compiler: each cycle of compile_once reads the desired state in  *)
(* one statement, renders Rspamd's settings, validates them, writes a      *)
(* temporary file, renames it over the installed one, and audits.  The     *)
(* desired state changes at any time; the process may stop between any two *)
(* steps, and its files outlive it (an init container and a sidecar, one   *)
(* after the other, share the directory).                                  *)
(***************************************************************************)
EXTENDS ControlPlane

CONSTANTS
  NoFile,     \* the file does not exist
  Partial,    \* a file that was created or written in part
  MaxFaults   \* bound on crashes and I/O and database errors

VARIABLES
  pc,          \* where the cycle is
  snapshot,    \* what the cycle read and rendered
  tmp,         \* the file {path}.tmp
  installed,   \* the file that Rspamd includes
  unaudited,   \* installs without a config.compiled row so far
  faults

compiler == <<pc, snapshot, tmp, installed, unaudited, faults>>
vars == <<desired, compiler>>

-----------------------------------------------------------------------------
(* Rendering. *)

\* "tenant_{slug}" with every '-' replaced by '_'.
SettingsId(slug) ==
  <<"t">> \o [i \in 1..Len(slug) |-> IF slug[i] = "-" THEN "_" ELSE slug[i]]

\* What render_doc builds: a set of settings blocks.
Block ==
  [id : { SettingsId(t) : t \in Slugs }, rcpt : SUBSET Fqdns,
   actions : Thresholds \cup {DefaultPolicy}]
Document == [doc : SUBSET Block]

ASSUME CompilerAssumption ==
  /\ NoFile # Partial /\ NoFile \notin Document /\ Partial \notin Document
  /\ MaxFaults \in Nat

ActiveDomains(t) ==
  { d \in DOMAIN domains : /\ domains[d].tenant = t
                           /\ domains[d].status = "active"
                           /\ tenants[t] = "active" }

\* One block per tenant that the join returns: an active one with an active domain.
\* Mutant: the domains are LEFT JOINed.
RenderAllTenants ==
  { [id |-> SettingsId(t), rcpt |-> ActiveDomains(t), actions |-> EffectivePolicy(t)] :
      t \in DOMAIN tenants }
Render ==
  { [id |-> SettingsId(t), rcpt |-> ActiveDomains(t), actions |-> EffectivePolicy(t)] :
      t \in { u \in DOMAIN tenants : ActiveDomains(u) # {} } }

\* settings_schema: what the document is held against before it is written.
SchemaAccepts(doc) ==
  \A block \in doc :
    /\ block.rcpt # {}
    /\ \A i \in DOMAIN block.id : block.id[i] \in LowerOrDigit \cup {"_", "t"}

-----------------------------------------------------------------------------
Init ==
  /\ DesiredInit
  /\ pc = "idle"
  /\ snapshot = NoFile
  /\ tmp = NoFile
  /\ installed = NoFile
  /\ unaudited = 0
  /\ faults = 0

EndCycle == pc' = "idle" /\ snapshot' = NoFile

Fault ==
  /\ faults < MaxFaults
  /\ faults' = faults + 1

\* load_policies, render_doc and the validation, which leaves the files alone if
\* it fails.
\* Mutant: a file that is installed is not compiled again.
LoadPoliciesOnce ==
  /\ pc = "idle"
  /\ IF installed = NoFile
     THEN /\ pc' = "create"
          /\ snapshot' = [doc |-> Render]
     ELSE UNCHANGED <<pc, snapshot>>
  /\ UNCHANGED <<desired, tmp, installed, unaudited, faults>>
LoadPolicies ==
  /\ pc = "idle"
  /\ IF SchemaAccepts(Render)
     THEN /\ pc' = "create"
          /\ snapshot' = [doc |-> Render]
     ELSE UNCHANGED <<pc, snapshot>>
  /\ UNCHANGED <<desired, tmp, installed, unaudited, faults>>

\* File::create truncates the temporary file that an earlier cycle left.
CreateTmp ==
  /\ pc = "create"
  /\ pc' = "write"
  /\ tmp' = Partial
  /\ UNCHANGED <<desired, snapshot, installed, unaudited, faults>>

WriteTmp ==
  /\ pc = "write"
  /\ pc' = "rename"
  /\ tmp' = snapshot
  /\ UNCHANGED <<desired, snapshot, installed, unaudited, faults>>

\* Mutant: the contents are written to the installed file itself.
RenameInPlace ==
  /\ pc = "write"
  /\ pc' = "audit"
  /\ installed' = tmp
  /\ tmp' = NoFile
  /\ unaudited' = unaudited + 1
  /\ UNCHANGED <<desired, snapshot, faults>>
Rename ==
  /\ pc = "rename"
  /\ pc' = "audit"
  /\ installed' = tmp
  /\ tmp' = NoFile
  /\ unaudited' = unaudited + 1
  /\ UNCHANGED <<desired, snapshot, faults>>

\* Mutant: a cycle that installs no tenant is not audited.
AuditNonEmpty ==
  /\ pc = "audit"
  /\ unaudited' = IF snapshot.doc = {} THEN unaudited ELSE unaudited - 1
  /\ EndCycle
  /\ UNCHANGED <<desired, tmp, installed, faults>>
Audit ==
  /\ pc = "audit"
  /\ unaudited' = unaudited - 1
  /\ EndCycle
  /\ UNCHANGED <<desired, tmp, installed, faults>>

\* An error or a stop ends the cycle where it is; the files stay as they are.  If
\* the audit's commit lost its acknowledgement, the row is there.
Fail ==
  /\ pc # "idle"
  /\ Fault
  /\ EndCycle
  /\ \/ UNCHANGED unaudited
     \/ pc = "audit" /\ unaudited' = unaudited - 1
  /\ UNCHANGED <<desired, tmp, installed>>

Change == DesiredNext /\ UNCHANGED compiler

Next ==
  \/ Change
  \/ LoadPolicies
  \/ CreateTmp
  \/ WriteTmp
  \/ Rename
  \/ Audit
  \/ Fail

Spec == Init /\ [][Next]_vars

\* The loop runs a cycle every RENDER_INTERVAL_SECS and nothing in it waits.
FairSpec == Spec /\ WF_vars(LoadPolicies \/ CreateTmp \/ WriteTmp \/ Rename \/ Audit)

-----------------------------------------------------------------------------
TypeOK ==
  /\ DesiredTypeOK
  /\ pc \in {"idle", "create", "write", "rename", "audit"}
  /\ snapshot \in Document \cup {NoFile}
  /\ tmp \in Document \cup {NoFile, Partial}
  /\ installed \in Document \cup {NoFile, Partial}
  /\ unaudited \in 0..(MaxFaults + 1)
  /\ faults \in 0..MaxFaults

\* The file that Rspamd includes is never a half-written one, whenever it reads it
\* and wherever the compiler stopped (write_atomic).
InstalledWhole == installed # Partial

\* A recipient's domain selects one settings block: no two blocks of the installed
\* file have one id or share a domain, and their thresholds are in order, so no
\* policy is inverted.
InstalledUnambiguous ==
  installed \notin {NoFile, Partial} =>
    /\ \A b \in installed.doc :
         /\ 0 < b.actions.greylist
         /\ b.actions.greylist < b.actions.add_header
         /\ b.actions.add_header < b.actions.reject
    /\ \A b, c \in installed.doc : b # c => b.id # c.id /\ b.rcpt \cap c.rcpt = {}

\* The schema rejects no document that the desired state can render, so no tenant
\* can stop the compilation of the others.
SchemaNeverRejects == SchemaAccepts(Render)

\* An install is without its audit row only while its cycle runs or because a fault
\* ended the cycle between the two.
UnauditedByFault == unaudited <= faults + IF pc = "audit" THEN 1 ELSE 0

\* When the desired state rests, the installed file becomes its rendering, and
\* stays so.
Converges ==
  <>[](installed \notin {NoFile, Partial} /\ installed.doc = Render)
=============================================================================
