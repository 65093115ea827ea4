------------------------- MODULE DesiredStateProofs -------------------------
(***************************************************************************)
(* Proofs about the two programs that read the desired state of            *)
(* ControlPlane.  ConfigCompiler: the file that Rspamd includes is whole   *)
(* and unambiguous, the schema accepts whatever the desired state renders, *)
(* and installs are audited but for faults.  AdminConsole: a page shows    *)
(* its own tenant's rows, lacks nothing without a failure, and reports no  *)
(* error that is not one.  For any slugs, domains, policies, accounts,     *)
(* views and number of faults.                                             *)
(***************************************************************************)
EXTENDS ConfigCompiler, AdminConsole, SequenceTheorems, TLAPS

\* What the rendering relies on and the tables keep: a tenant's slug passed
\* validate_slug, a policy passed validate_policy.
DesiredValid ==
  /\ \A t \in DOMAIN tenants : ValidSlug(t)
  /\ \A t \in DOMAIN policies : policies[t] \in Thresholds /\ ValidPolicy(policies[t])

\* No two blocks of a document compete for a message, and no policy is inverted.
Unambiguous(doc) ==
  /\ \A b \in doc : ValidPolicy(b.actions)
  /\ \A b, c \in doc : b # c => b.id # c.id /\ b.rcpt \cap c.rcpt = {}

\* A file is missing, half-written, or a document without ambiguity.
GoodFile(file) == file \in Document => Unambiguous(file.doc)

\* A cycle under way has rendered its document, the temporary file is whole when it
\* is renamed, and the install that awaits its audit is counted.
CycleProceeds ==
  /\ pc # "idle" => snapshot \in Document
  /\ pc = "rename" => tmp = snapshot
  /\ pc = "audit" => unaudited > 0

CompilerIInv ==
  /\ TypeOK
  /\ DesiredValid
  /\ GoodFile(snapshot) /\ GoodFile(tmp) /\ GoodFile(installed)
  /\ CycleProceeds
  /\ InstalledWhole
  /\ UnauditedByFault

-----------------------------------------------------------------------------
(* Rendering. *)

\* SettingsId is the letter of the prefix and the slug's characters, with '_' for '-'.
LEMMA SettingsIdChars ==
  ASSUME NEW S, NEW slug \in Seq(S)
  PROVE  /\ DOMAIN SettingsId(slug) = 1..(Len(slug) + 1)
         /\ SettingsId(slug)[1] = "t"
         /\ \A i \in 1..Len(slug) :
              SettingsId(slug)[i + 1] = IF slug[i] = "-" THEN "_" ELSE slug[i]
<1> DEFINE sub(i) == IF slug[i] = "-" THEN "_" ELSE slug[i]
           tail == [i \in 1..Len(slug) |-> sub(i)]
           T == S \cup {"_", "t"}
<1>1. Len(slug) \in Nat
  OBVIOUS
<1>2. tail \in Seq(T) /\ Len(tail) = Len(slug) /\ \A i \in 1..Len(slug) : tail[i] = sub(i)
  <2>1. ASSUME NEW i \in 1..Len(slug)
        PROVE  sub(i) \in T
    <3>1. slug[i] \in S
      BY ElementOfSeq
    <3> QED
      BY <3>1
  <2> HIDE DEF sub, T
  <2>2. tail \in [1..Len(slug) -> T]
    BY <2>1
  <2> QED
    BY <1>1, <2>2
<1>3. \A c : <<c>> \in Seq({c}) /\ Len(<<c>>) = 1 /\ <<c>>[1] = c
  OBVIOUS
<1>4. <<"t">> \in Seq(T) /\ Len(<<"t">>) = 1 /\ <<"t">>[1] = "t"
  BY <1>3, SeqMonotonic
<1>5. SettingsId(slug) = <<"t">> \o tail
  BY DEF SettingsId
<1> DEFINE head == <<"t">>
<1> HIDE DEF head, tail, sub, T
<1>6. /\ head \o tail \in Seq(T)
      /\ Len(head \o tail) = 1 + Len(slug)
      /\ \A i \in 1..(1 + Len(slug)) :
           (head \o tail)[i] = IF i <= 1 THEN head[i] ELSE tail[i - 1]
  <2>1. head \in Seq(T) /\ Len(head) = 1
    BY <1>4 DEF head
  <2>2. /\ head \o tail \in Seq(T)
        /\ Len(head \o tail) = Len(head) + Len(tail)
        /\ \A i \in 1..(Len(head) + Len(tail)) :
             (head \o tail)[i] = IF i <= Len(head) THEN head[i] ELSE tail[i - Len(head)]
    BY <2>1, <1>2, ConcatProperties, Zenon
  <2> QED
    BY <2>1, <2>2, <1>1, <1>2
<1>7. \A i \in 1..Len(slug) : (head \o tail)[i + 1] = sub(i)
  BY <1>1, <1>2, <1>6
<1>8. DOMAIN (head \o tail) = 1..(Len(slug) + 1) /\ (head \o tail)[1] = head[1]
  <2>1. DOMAIN (head \o tail) = 1..Len(head \o tail)
    BY <1>6, LenProperties, Zenon
  <2>2. 1 + Len(slug) = Len(slug) + 1 /\ 1 \in 1..(1 + Len(slug)) /\ 1 <= 1
    BY <1>1
  <2>3. (head \o tail)[1] = head[1]
    BY <1>6, <2>2, Zenon
  <2> QED
    BY <1>6, <2>1, <2>2, <2>3, Zenon
<1>9. head[1] = "t" /\ SettingsId(slug) = head \o tail
  BY <1>4, <1>5 DEF head
<1> QED
  BY <1>7, <1>8, <1>9 DEF sub

\* No two slugs that validate_slug accepts have one settings id, although '-' and
\* '_' become one character: validate_slug has no '_'.
LEMMA SettingsIdInjective ==
  ASSUME NEW S, NEW s \in Seq(S), NEW t \in Seq(S),
         ValidSlug(s), ValidSlug(t), SettingsId(s) = SettingsId(t)
  PROVE  s = t
<1>1. Len(s) \in Nat /\ Len(t) \in Nat
  OBVIOUS
<1> DEFINE sub(u, i) == IF u[i] = "-" THEN "_" ELSE u[i]
<1>2. /\ DOMAIN SettingsId(s) = 1..(Len(s) + 1)
      /\ \A i \in 1..Len(s) : SettingsId(s)[i + 1] = sub(s, i)
      /\ DOMAIN SettingsId(t) = 1..(Len(t) + 1)
      /\ \A i \in 1..Len(t) : SettingsId(t)[i + 1] = sub(t, i)
  BY SettingsIdChars, Zenon
<1>3. Len(s) = Len(t)
  <2>1. 1..(Len(s) + 1) = 1..(Len(t) + 1)
    BY <1>2
  <2>2. Len(s) + 1 \in 1..(Len(s) + 1) /\ Len(t) + 1 \in 1..(Len(t) + 1)
    BY <1>1
  <2>3. Len(s) + 1 \in 1..(Len(t) + 1) /\ Len(t) + 1 \in 1..(Len(s) + 1)
    BY <2>1, <2>2, Zenon
  <2> QED
    BY <1>1, <2>3
<1>4. ASSUME NEW i \in 1..Len(s)
      PROVE  s[i] = t[i]
  <2>1. sub(s, i) = sub(t, i)
    <3> HIDE DEF sub
    <3> QED
      BY <1>2, <1>3
  <2>2. s[i] \in {"a", "b", "c", "0", "-"} /\ t[i] \in {"a", "b", "c", "0", "-"}
    BY <1>1, <1>3 DEF ValidSlug, LowerOrDigit, Lower
  <2> QED
    BY <2>1, <2>2
<1> QED
  BY <1>3, <1>4, SeqEqual

\* A tenant's settings id is over the characters that the schema allows.
LEMMA SettingsIdAllowed ==
  ASSUME NEW S, NEW slug \in Seq(S), ValidSlug(slug), NEW i \in DOMAIN SettingsId(slug)
  PROVE  SettingsId(slug)[i] \in LowerOrDigit \cup {"_", "t"}
<1>0. DOMAIN SettingsId(slug) = 1..(Len(slug) + 1)
  BY SettingsIdChars, Zenon
<1>1. Len(slug) \in Nat /\ i \in 1..(Len(slug) + 1)
  BY <1>0
<1>2. CASE i = 1
  BY <1>2, SettingsIdChars
<1>3. CASE i # 1
  <2>1. i - 1 \in 1..Len(slug) /\ (i - 1) + 1 = i
    BY <1>1, <1>3
  <2>2. SettingsId(slug)[i] = IF slug[i - 1] = "-" THEN "_" ELSE slug[i - 1]
    BY <2>1, SettingsIdChars
  <2>3. slug[i - 1] \in LowerOrDigit \cup {"-"}
    BY <2>1 DEF ValidSlug
  <2> QED
    BY <2>2, <2>3
<1> QED
  BY <1>2, <1>3

\* The slugs of the tenants are sequences of characters.
LEMMA SlugsAreStrings ==
  ASSUME DesiredTypeOK, NEW t \in DOMAIN tenants
  PROVE  t \in Slugs /\ t \in Seq(STRING)
BY ControlPlaneAssumption DEF DesiredTypeOK

\* What a tenant is compiled to, the defaults included, is in order.
LEMMA EffectivePolicyValid ==
  ASSUME DesiredValid, NEW t
  PROVE  EffectivePolicy(t) \in Thresholds \cup {DefaultPolicy} /\ ValidPolicy(EffectivePolicy(t))
BY DEF DesiredValid, EffectivePolicy, DefaultPolicy, ValidPolicy

\* What render_doc builds is a document.
LEMMA RenderTyped ==
  ASSUME DesiredTypeOK, DesiredValid
  PROVE  [doc |-> Render] \in Document
<1>1. ASSUME NEW t \in DOMAIN tenants
      PROVE  [id |-> SettingsId(t), rcpt |-> ActiveDomains(t), actions |-> EffectivePolicy(t)]
               \in Block
  <2>1. SettingsId(t) \in { SettingsId(u) : u \in Slugs }
    BY SlugsAreStrings
  <2>2. ActiveDomains(t) \in SUBSET Fqdns
    BY DEF ActiveDomains, DesiredTypeOK
  <2>3. EffectivePolicy(t) \in Thresholds \cup {DefaultPolicy}
    BY EffectivePolicyValid
  <2> QED
    BY <2>1, <2>2, <2>3 DEF Block
<1>2. Render \in SUBSET Block
  BY <1>1 DEF Render
<1> QED
  BY <1>2 DEF Document

\* What render_doc builds is unambiguous: one block per tenant, ids that differ as
\* the slugs do, and domains that belong to one tenant each.
LEMMA RenderUnambiguous ==
  ASSUME DesiredTypeOK, DesiredValid
  PROVE  Unambiguous(Render)
<1> DEFINE B(t) ==
      [id |-> SettingsId(t), rcpt |-> ActiveDomains(t), actions |-> EffectivePolicy(t)]
<1>1. ASSUME NEW b \in Render
      PROVE  \E t \in DOMAIN tenants : b = B(t)
  BY DEF Render
<1>2. ASSUME NEW b \in Render
      PROVE  ValidPolicy(b.actions)
  <2>1. PICK t \in DOMAIN tenants : b = B(t)
    BY <1>1
  <2>2. b.actions = EffectivePolicy(t)
    BY <2>1
  <2> QED
    BY <2>2, EffectivePolicyValid
<1>3. ASSUME NEW b \in Render, NEW c \in Render, b # c
      PROVE  b.id # c.id /\ b.rcpt \cap c.rcpt = {}
  <2>1. PICK t \in DOMAIN tenants : b = B(t)
    BY <1>1
  <2>2. PICK u \in DOMAIN tenants : c = B(u)
    BY <1>1
  <2>3. t # u
    BY <2>1, <2>2, <1>3
  <2>4. SettingsId(t) # SettingsId(u)
    BY <2>3, SlugsAreStrings, SettingsIdInjective DEF DesiredValid
  <2>5. ActiveDomains(t) \cap ActiveDomains(u) = {}
    BY <2>3 DEF ActiveDomains
  <2>6. b.id = SettingsId(t) /\ b.rcpt = ActiveDomains(t)
    BY <2>1
  <2>7. c.id = SettingsId(u) /\ c.rcpt = ActiveDomains(u)
    BY <2>2
  <2> QED
    BY <2>4, <2>5, <2>6, <2>7
<1> QED
  BY <1>2, <1>3 DEF Unambiguous

\* The schema accepts what render_doc builds.
LEMMA RenderAccepted ==
  ASSUME DesiredTypeOK, DesiredValid
  PROVE  SchemaAccepts(Render)
<1>1. ASSUME NEW block \in Render
      PROVE  /\ block.rcpt # {}
             /\ \A i \in DOMAIN block.id : block.id[i] \in LowerOrDigit \cup {"_", "t"}
  <2>1. PICK t \in { u \in DOMAIN tenants : ActiveDomains(u) # {} } :
          block = [id |-> SettingsId(t), rcpt |-> ActiveDomains(t),
                   actions |-> EffectivePolicy(t)]
    BY DEF Render
  <2>2. block.id = SettingsId(t) /\ block.rcpt = ActiveDomains(t) /\ ActiveDomains(t) # {}
    BY <2>1
  <2>3. t \in Seq(STRING) /\ ValidSlug(t)
    BY SlugsAreStrings DEF DesiredValid
  <2> QED
    BY <2>2, <2>3, SettingsIdAllowed
<1> QED
  BY <1>1 DEF SchemaAccepts

-----------------------------------------------------------------------------
(* The steps. *)

\* The tables of a fresh database are typed and valid.
LEMMA InitDesired ==
  ASSUME DesiredInit
  PROVE  DesiredTypeOK /\ DesiredValid
<1>1. DOMAIN tenants = {} /\ DOMAIN domains = {} /\ DOMAIN policies = {}
  BY DEF DesiredInit
<1>2. tenants \in [{} -> TenantStatus] /\ policies \in [{} -> Policy]
  BY DEF DesiredInit
<1>3. domains \in [{} -> [tenant : Slugs, status : DomainStatus]]
  BY DEF DesiredInit
<1>4. trail \in [TrailAction -> Nat] /\ version \in 0..MaxChanges
  BY ControlPlaneAssumption DEF DesiredInit
<1> QED
  BY <1>1, <1>2, <1>3, <1>4 DEF DesiredTypeOK, DesiredValid

\* Initially the invariant holds.
LEMMA InitCompiler == Init => CompilerIInv
<1> SUFFICES ASSUME Init PROVE CompilerIInv
  OBVIOUS
<1>1. DesiredTypeOK /\ DesiredValid
  BY InitDesired DEF Init
<1>2. NoFile \notin Document /\ NoFile # Partial /\ MaxFaults \in Nat
  BY CompilerAssumption
<1>3. TypeOK
  BY <1>1, <1>2 DEF Init, TypeOK
<1>4. GoodFile(snapshot) /\ GoodFile(tmp) /\ GoodFile(installed)
  BY <1>2 DEF Init, GoodFile
<1>5. CycleProceeds /\ InstalledWhole /\ UnauditedByFault
  BY <1>2 DEF Init, CycleProceeds, InstalledWhole, UnauditedByFault
<1> QED
  BY <1>1, <1>3, <1>4, <1>5 DEF CompilerIInv

\* An operation of the control plane keeps its tables typed.
LEMMA DesiredNextTyped ==
  ASSUME DesiredTypeOK, DesiredNext
  PROVE  DesiredTypeOK'
<1>1. version' \in 0..MaxChanges
  <2>1. Changes
    BY DEF DesiredNext, CreateTenant, CreateDomain, PutPolicy, OperatorSetsStatus
  <2> QED
    BY <2>1, ControlPlaneAssumption DEF DesiredTypeOK, Changes
<1>2. \A a \in TrailAction : Audits(a) => trail' \in [TrailAction -> Nat]
  BY DEF DesiredTypeOK, Audits
<1>3. \A a \in {"tenant.create", "domain.create", "policy.set"} : a \in TrailAction
  BY DEF TrailAction
<1>4. ASSUME NEW slug \in Slugs, CreateTenant(slug)
      PROVE  DesiredTypeOK'
  <2>1. DOMAIN tenants' = DOMAIN tenants \cup {slug}
    BY <1>4 DEF CreateTenant
  <2>2. \A t \in DOMAIN tenants : tenants[t] \in TenantStatus
    BY DEF DesiredTypeOK
  <2>3. tenants' \in [DOMAIN tenants \cup {slug} -> TenantStatus]
    BY <1>4, <2>2 DEF CreateTenant, TenantStatus
  <2>4. trail' \in [TrailAction -> Nat]
    BY <1>2, <1>3, <1>4 DEF CreateTenant
  <2> QED
    BY <1>1, <1>4, <2>1, <2>3, <2>4 DEF CreateTenant, DesiredTypeOK
<1>5. ASSUME NEW slug \in Slugs, NEW fqdn \in Fqdns, CreateDomain(slug, fqdn)
      PROVE  DesiredTypeOK'
  <2> DEFINE Row == [tenant : Slugs, status : DomainStatus]
  <2>1. DOMAIN domains' = DOMAIN domains \cup {fqdn}
    BY <1>5 DEF CreateDomain
  <2>2. \A d \in DOMAIN domains : domains[d] \in Row
    BY DEF DesiredTypeOK
  <2>3. [tenant |-> slug, status |-> "pending_dns"] \in Row
    BY DEF DomainStatus
  <2> HIDE DEF Row
  <2>4. domains' \in [DOMAIN domains \cup {fqdn} -> Row]
    BY <1>5, <2>2, <2>3 DEF CreateDomain
  <2>5. trail' \in [TrailAction -> Nat]
    BY <1>2, <1>3, <1>5 DEF CreateDomain
  <2> QED
    BY <1>1, <1>5, <2>1, <2>4, <2>5 DEF CreateDomain, DesiredTypeOK, Row
<1>6. ASSUME NEW slug \in Slugs, NEW p \in Thresholds, PutPolicy(slug, p)
      PROVE  DesiredTypeOK'
  <2>1. DOMAIN policies' = DOMAIN policies \cup {slug}
    BY <1>6 DEF PutPolicy
  <2>2. p \in Policy /\ \A t \in DOMAIN policies : policies[t] \in Policy
    BY ControlPlaneAssumption DEF DesiredTypeOK, Policy
  <2>3. policies' \in [DOMAIN policies \cup {slug} -> Policy]
    BY <1>6, <2>2 DEF PutPolicy
  <2>4. trail' \in [TrailAction -> Nat]
    BY <1>2, <1>3, <1>6 DEF PutPolicy
  <2> QED
    BY <1>1, <1>6, <2>1, <2>3, <2>4 DEF PutPolicy, DesiredTypeOK
<1>7. ASSUME OperatorSetsStatus
      PROVE  DesiredTypeOK'
  <2>1. ASSUME NEW t \in DOMAIN tenants, NEW s \in TenantStatus,
               tenants' = [tenants EXCEPT ![t] = s], UNCHANGED domains
        PROVE  DesiredTypeOK'
    <3>1. DOMAIN tenants' = DOMAIN tenants /\ tenants' \in [DOMAIN tenants -> TenantStatus]
      BY <2>1 DEF DesiredTypeOK, TenantStatus
    <3> QED
      BY <1>1, <1>7, <2>1, <3>1 DEF OperatorSetsStatus, DesiredTypeOK
  <2>2. ASSUME NEW d \in DOMAIN domains, NEW s \in {"active", "suspended"},
               domains' = [domains EXCEPT ![d].status = s], UNCHANGED tenants
        PROVE  DesiredTypeOK'
    <3>1. /\ DOMAIN domains' = DOMAIN domains
          /\ domains' \in [DOMAIN domains -> [tenant : Slugs, status : DomainStatus]]
      BY <2>2 DEF DesiredTypeOK, DomainStatus
    <3> QED
      BY <1>1, <1>7, <2>2, <3>1 DEF OperatorSetsStatus, DesiredTypeOK
  <2> QED
    BY <1>7, <2>1, <2>2 DEF OperatorSetsStatus
<1> QED
  BY <1>4, <1>5, <1>6, <1>7 DEF DesiredNext

\* An operation of the control plane keeps its tables valid.
LEMMA DesiredNextValid ==
  ASSUME DesiredTypeOK, DesiredValid, DesiredNext
  PROVE  DesiredValid'
<1>1. ASSUME NEW slug \in Slugs, CreateTenant(slug)
      PROVE  DesiredValid'
  <2>1. DOMAIN tenants' = DOMAIN tenants \cup {slug} /\ ValidSlug(slug) /\ policies' = policies
    BY <1>1 DEF CreateTenant
  <2> QED
    BY <2>1 DEF DesiredValid
<1>2. ASSUME NEW slug \in Slugs, NEW fqdn \in Fqdns, CreateDomain(slug, fqdn)
      PROVE  DesiredValid'
  BY <1>2 DEF CreateDomain, DesiredValid
<1>3. ASSUME NEW slug \in Slugs, NEW p \in Thresholds, PutPolicy(slug, p)
      PROVE  DesiredValid'
  <2>1. /\ ValidPolicy(p) /\ tenants' = tenants
        /\ DOMAIN policies' = DOMAIN policies \cup {slug}
        /\ \A t \in DOMAIN policies' : policies'[t] = IF t = slug THEN p ELSE policies[t]
    BY <1>3 DEF PutPolicy
  <2>2. ASSUME NEW t \in DOMAIN policies'
        PROVE  policies'[t] \in Thresholds /\ ValidPolicy(policies'[t])
    <3>1. CASE t = slug
      BY <2>1, <3>1
    <3>2. CASE t # slug
      BY <2>1, <3>2 DEF DesiredValid
    <3> QED
      BY <3>1, <3>2
  <2> QED
    BY <2>1, <2>2 DEF DesiredValid
<1>4. ASSUME OperatorSetsStatus
      PROVE  DesiredValid'
  <2>1. DOMAIN tenants' = DOMAIN tenants /\ policies' = policies
    BY <1>4 DEF OperatorSetsStatus
  <2> QED
    BY <2>1 DEF DesiredValid
<1> QED
  BY <1>1, <1>2, <1>3, <1>4 DEF DesiredNext

\* Every step of the cycle, and of the control plane beside it, keeps the invariant.
LEMMA NextCompiler ==
  ASSUME CompilerIInv, [Next]_vars
  PROVE  CompilerIInv'
<1> USE DEF compiler, vars, desired
<1>0. MaxFaults \in Nat /\ NoFile \notin Document /\ Partial \notin Document /\ NoFile # Partial
  BY CompilerAssumption
<1>1. CASE Change
  <2>1. DesiredTypeOK' /\ DesiredValid'
    BY <1>1, DesiredNextTyped, DesiredNextValid DEF CompilerIInv, TypeOK, Change
  <2>2. UNCHANGED compiler
    BY <1>1 DEF Change
  <2> QED
    BY <2>1, <2>2 DEF CompilerIInv, TypeOK, GoodFile, CycleProceeds, InstalledWhole, UnauditedByFault
<1> DEFINE TablesKept == DesiredTypeOK' /\ DesiredValid'
<1>2. UNCHANGED desired => TablesKept
  BY DEF CompilerIInv, TypeOK, DesiredTypeOK, DesiredValid
<1> HIDE DEF TablesKept
<1>3. CASE LoadPolicies
  <2>1. TablesKept
    BY <1>2, <1>3 DEF LoadPolicies
  <2>2. snapshot' \in Document \cup {NoFile} /\ GoodFile(snapshot')
    <3>1. [doc |-> Render] \in Document /\ Unambiguous(Render)
      BY RenderTyped, RenderUnambiguous DEF CompilerIInv, TypeOK
    <3>2. GoodFile([doc |-> Render])
      BY <3>1 DEF GoodFile
    <3> QED
      BY <1>3, <3>1, <3>2 DEF LoadPolicies, CompilerIInv, TypeOK
  <2>3. CycleProceeds'
    <3>1. [doc |-> Render] \in Document
      BY RenderTyped DEF CompilerIInv, TypeOK
    <3> QED
      BY <1>3, <3>1 DEF LoadPolicies, CompilerIInv, CycleProceeds
  <2>4. UNCHANGED <<tmp, installed, unaudited, faults>> /\ pc' \in {"idle", "create"} /\ pc = "idle"
    BY <1>3 DEF LoadPolicies
  <2> QED
    BY <2>1, <2>2, <2>3, <2>4
       DEF TablesKept, CompilerIInv, TypeOK, GoodFile, InstalledWhole, UnauditedByFault
<1>4. CASE CreateTmp
  <2>1. TablesKept
    BY <1>2, <1>4 DEF CreateTmp
  <2>2. GoodFile(tmp')
    BY <1>0, <1>4 DEF CreateTmp, GoodFile
  <2> QED
    BY <1>4, <2>1, <2>2
       DEF TablesKept, CreateTmp, CompilerIInv, TypeOK, GoodFile, CycleProceeds, InstalledWhole,
           UnauditedByFault
<1>5. CASE WriteTmp
  <2>1. TablesKept
    BY <1>2, <1>5 DEF WriteTmp
  <2> QED
    BY <1>5, <2>1
       DEF TablesKept, WriteTmp, CompilerIInv, TypeOK, GoodFile, CycleProceeds, InstalledWhole,
           UnauditedByFault
<1>6. CASE Rename
  <2>1. TablesKept
    BY <1>2, <1>6 DEF Rename
  <2>2. installed' \in Document /\ GoodFile(installed')
    BY <1>6 DEF Rename, CompilerIInv, CycleProceeds
  <2>3. GoodFile(tmp')
    BY <1>0, <1>6 DEF Rename, GoodFile
  <2>4. unaudited' \in 0..(MaxFaults + 1) /\ unaudited' > 0 /\ UnauditedByFault'
    BY <1>0, <1>6 DEF Rename, CompilerIInv, TypeOK, UnauditedByFault
  <2>5. installed' # Partial
    BY <1>0, <2>2
  <2> QED
    BY <1>6, <2>1, <2>2, <2>3, <2>4, <2>5
       DEF TablesKept, Rename, CompilerIInv, TypeOK, GoodFile, CycleProceeds, InstalledWhole
<1>7. CASE Audit
  <2>1. TablesKept
    BY <1>2, <1>7 DEF Audit
  <2>2. GoodFile(snapshot')
    BY <1>0, <1>7 DEF Audit, EndCycle, GoodFile
  <2>3. unaudited' \in 0..(MaxFaults + 1) /\ UnauditedByFault'
    BY <1>0, <1>7 DEF Audit, EndCycle, CompilerIInv, TypeOK, CycleProceeds, UnauditedByFault
  <2> QED
    BY <1>7, <2>1, <2>2, <2>3
       DEF TablesKept, Audit, EndCycle, CompilerIInv, TypeOK, GoodFile, CycleProceeds, InstalledWhole
<1>8. CASE Fail
  <2>1. TablesKept
    BY <1>2, <1>8 DEF Fail
  <2>2. GoodFile(snapshot')
    BY <1>0, <1>8 DEF Fail, EndCycle, GoodFile
  <2>3. faults' \in 0..MaxFaults /\ unaudited' \in 0..(MaxFaults + 1) /\ UnauditedByFault'
    BY <1>0, <1>8 DEF Fail, Fault, EndCycle, CompilerIInv, TypeOK, CycleProceeds, UnauditedByFault
  <2> QED
    BY <1>8, <2>1, <2>2, <2>3
       DEF TablesKept, Fail, EndCycle, CompilerIInv, TypeOK, GoodFile, CycleProceeds, InstalledWhole
<1>9. CASE UNCHANGED vars
  <2>1. TablesKept
    BY <1>2, <1>9
  <2> QED
    BY <1>9, <2>1
       DEF TablesKept, CompilerIInv, TypeOK, GoodFile, CycleProceeds, InstalledWhole, UnauditedByFault
<1> QED
  BY <1>1, <1>3, <1>4, <1>5, <1>6, <1>7, <1>8, <1>9 DEF Next

-----------------------------------------------------------------------------
\* The invariant is inductive: it holds in every state of compile_once's loop.
THEOREM CompilerInvariant == Spec => []CompilerIInv
BY InitCompiler, NextCompiler, PTL DEF Spec

\* Every variable keeps its type; the count of unaudited installs never goes below
\* zero, so no audit row is without its install.
THEOREM TypeCorrectness == Spec => []TypeOK
<1>1. CompilerIInv => TypeOK
  BY DEF CompilerIInv
<1> QED
  BY <1>1, CompilerInvariant, PTL

\* write_atomic: wherever the compiler stops, the file that Rspamd includes is not a
\* half-written one.
THEOREM WriteIsAtomic == Spec => []InstalledWhole
<1>1. CompilerIInv => InstalledWhole
  BY DEF CompilerIInv
<1> QED
  BY <1>1, CompilerInvariant, PTL

\* Of any number of tenants, domains and policies, the installed file has at most one block
\* per recipient domain, ids that differ, and thresholds in order.
THEOREM InstallIsUnambiguous == Spec => []InstalledUnambiguous
<1>1. ASSUME CompilerIInv PROVE InstalledUnambiguous
  <2>1. installed \notin {NoFile, Partial} => Unambiguous(installed.doc)
    BY <1>1 DEF CompilerIInv, TypeOK, GoodFile
  <2> QED
    BY <2>1 DEF InstalledUnambiguous, Unambiguous, ValidPolicy
<1> QED
  BY <1>1, CompilerInvariant, PTL

\* No tenant, domain or policy that admin-api accepts makes the schema refuse the
\* document, which would stop the compilation for every tenant.
THEOREM SchemaAcceptsAll == Spec => []SchemaNeverRejects
<1>1. ASSUME CompilerIInv PROVE SchemaNeverRejects
  BY <1>1, RenderAccepted DEF CompilerIInv, TypeOK, SchemaNeverRejects
<1> QED
  BY <1>1, CompilerInvariant, PTL

\* There are never more installs without an audit row than faults that ended a cycle,
\* and the one that is about to be audited.
THEOREM InstallsAreAudited == Spec => []UnauditedByFault
<1>1. CompilerIInv => UnauditedByFault
  BY DEF CompilerIInv
<1> QED
  BY <1>1, CompilerInvariant, PTL

-----------------------------------------------------------------------------
(* The console. *)

\* A page's record, whole.
Answer ==
  {Waiting, Failed} \cup Listed(Fqdns, DomainStatus) \cup Listed(Emails, AccountStatus)
  \cup Thresholds \cup {DefaultPolicy}
Page ==
  [target : Slugs \cup {Index, Unknown}, pc : {"idle", "tenants", "join", "done"},
   tenant : [name : Slugs, status : TenantStatus] \cup {Unknown},
   got : [Calls -> Answer],
   had : [tenants : SUBSET Slugs, domains : SUBSET Fqdns, accounts : SUBSET Emails],
   failed : SUBSET (Calls \cup {"tenants"}), html : Html \cup {NoHtml}]

OwnDomains(t) == { d \in DOMAIN domains : domains[d].tenant = t }
OwnAddresses(t) == { email[a] : a \in TenantAccounts(t) }

\* What was there when the page was requested still is.
HadStill(p) ==
  /\ p.had.tenants \subseteq DOMAIN tenants
  /\ p.had.domains \subseteq OwnDomains(p.target)
  /\ p.had.accounts \subseteq OwnAddresses(p.target)

\* Rows of the page's tenant, with all that was there when it was requested.
DomainRows(p, rows) ==
  /\ rows \in Listed(Fqdns, DomainStatus)
  /\ Names(rows) \subseteq OwnDomains(p.target)
  /\ p.had.domains \subseteq Names(rows)
AccountRows(p, rows) ==
  /\ rows \in Listed(Emails, AccountStatus)
  /\ \A r \in rows :
       \E a \in TenantAccounts(p.target) :
         email[a] = r.name /\ (r.status = "active" => a \in DOMAIN owner)
  /\ p.had.accounts \subseteq Names(rows)

\* What the three GETs of a page have brought so far.
GotTrue(p) ==
  /\ p.got["domains"] \notin {Waiting, Failed} => DomainRows(p, p.got["domains"])
  /\ p.got["accounts"] \notin {Waiting, Failed} => AccountRows(p, p.got["accounts"])
  /\ p.got["policy"] \notin {Waiting, Failed} => p.got["policy"] \in Thresholds \cup {DefaultPolicy}
  /\ \A c \in Calls : p.got[c] = Failed => c \in p.failed

\* The three properties, of one page.
ShowsOwn(p) ==
  p.html.view = "detail" =>
    /\ p.html.tenant = p.target
    /\ \A d \in Names(p.html.domains) : d \in DOMAIN domains /\ domains[d].tenant = p.target
    /\ \A r \in p.html.accounts :
         \E a \in TenantAccounts(p.target) :
           email[a] = r.name /\ (r.badge = "ok" => a \in DOMAIN owner)
Complete(p) ==
  p.html.view = "detail" =>
    /\ "domains" \in p.failed \/ p.had.domains \subseteq Names(p.html.domains)
    /\ "accounts" \in p.failed \/ p.had.accounts \subseteq Names(p.html.accounts)
ErrorTrue(p) ==
  p.html.view = "error" =>
    IF p.html.why = "request failed"
    THEN p.failed # {}
    ELSE p.failed = {} /\ p.target \notin p.had.tenants

PageInv(p) ==
  /\ PageTypeOK(p)
  /\ p.pc # "idle" => HadStill(p)
  /\ p.pc \in {"idle", "tenants"} => p.failed = {} /\ \A c \in Calls : p.got[c] = Waiting
  /\ p.pc = "join" => /\ p.tenant \in [name : Slugs, status : TenantStatus]
                      /\ p.tenant.name = p.target
                      /\ GotTrue(p)
  /\ ShowsOwn(p)
  /\ Complete(p)
  /\ ErrorTrue(p)

\* An account's domain is there, so that its tenant is known.
Placed == \A a \in DOMAIN email : email[a][2] \in DOMAIN domains

AccountsTyped ==
  /\ DOMAIN email \subseteq Accounts /\ email \in [DOMAIN email -> Emails]
  /\ DOMAIN owner \subseteq Accounts /\ owner \in [DOMAIN owner -> UserIds]

ConsoleIInv ==
  /\ DesiredTypeOK
  /\ DesiredValid
  /\ AccountsTyped
  /\ Placed
  /\ page \in [Views -> Page]
  /\ \A v \in Views, p \in Page : page[v] = p => PageInv(p)

-----------------------------------------------------------------------------
\* No row of the tables goes away or changes hands.
TablesGrow ==
  /\ DOMAIN tenants \subseteq DOMAIN tenants'
  /\ DOMAIN domains \subseteq DOMAIN domains'
  /\ \A d \in DOMAIN domains : domains'[d].tenant = domains[d].tenant
  /\ DOMAIN email \subseteq DOMAIN email'
  /\ \A a \in DOMAIN email : email'[a] = email[a]
  /\ DOMAIN owner \subseteq DOMAIN owner'

\* So a tenant keeps its rows.
LEMMA TenantKeepsRows ==
  ASSUME Placed, TablesGrow, NEW t
  PROVE  /\ OwnDomains(t) \subseteq OwnDomains(t)'
         /\ TenantAccounts(t) \subseteq TenantAccounts(t)'
         /\ \A a \in TenantAccounts(t) : email'[a] = email[a]
         /\ OwnAddresses(t) \subseteq OwnAddresses(t)'
<1>1. OwnDomains(t) \subseteq OwnDomains(t)'
  BY DEF TablesGrow, OwnDomains
<1>2. \A a \in TenantAccounts(t) : a \in DOMAIN email /\ email'[a] = email[a]
  BY DEF TablesGrow, TenantAccounts
<1>3. TenantAccounts(t) \subseteq TenantAccounts(t)'
  BY DEF Placed, TablesGrow, TenantAccounts
<1>4. OwnAddresses(t) \subseteq OwnAddresses(t)'
  BY <1>2, <1>3 DEF OwnAddresses
<1> QED
  BY <1>1, <1>2, <1>3, <1>4

\* What is true of a page stays true while the tables grow.
LEMMA PageInvStable ==
  ASSUME Placed, TablesGrow, NEW p, PageInv(p)
  PROVE  PageInv(p)'
<1>1. HadStill(p) => HadStill(p)'
  BY TenantKeepsRows DEF HadStill, TablesGrow
<1>2. ASSUME NEW rows, DomainRows(p, rows) PROVE DomainRows(p, rows)'
  BY <1>2, TenantKeepsRows DEF DomainRows
<1>3. ASSUME NEW rows, AccountRows(p, rows) PROVE AccountRows(p, rows)'
  BY <1>3, TenantKeepsRows DEF AccountRows, TablesGrow
<1>4. GotTrue(p) => GotTrue(p)'
  BY <1>2, <1>3 DEF GotTrue
<1>5. ShowsOwn(p) => ShowsOwn(p)'
  BY TenantKeepsRows DEF ShowsOwn, TablesGrow
<1>6. Complete(p) => Complete(p)'
  BY DEF Complete
<1>7. ErrorTrue(p) => ErrorTrue(p)'
  BY DEF ErrorTrue
<1> QED
  BY <1>1, <1>4, <1>5, <1>6, <1>7 DEF PageInv

\* An operation of the control plane keeps the rows.
LEMMA DesiredNextGrows ==
  ASSUME DesiredTypeOK, DesiredNext, UNCHANGED <<email, owner>>
  PROVE  TablesGrow
<1>1. ASSUME NEW slug \in Slugs, CreateTenant(slug) PROVE TablesGrow
  BY <1>1 DEF CreateTenant, TablesGrow
<1>2. ASSUME NEW slug \in Slugs, NEW fqdn \in Fqdns, CreateDomain(slug, fqdn) PROVE TablesGrow
  BY <1>2 DEF CreateDomain, TablesGrow
<1>3. ASSUME NEW slug \in Slugs, NEW p \in Thresholds, PutPolicy(slug, p) PROVE TablesGrow
  BY <1>3 DEF PutPolicy, TablesGrow
<1>4. ASSUME OperatorSetsStatus PROVE TablesGrow
  <2>1. ASSUME NEW d \in DOMAIN domains, NEW s, domains' = [domains EXCEPT ![d].status = s]
        PROVE  /\ DOMAIN domains' = DOMAIN domains
               /\ \A e \in DOMAIN domains : domains'[e].tenant = domains[e].tenant
    BY <2>1 DEF DesiredTypeOK
  <2> QED
    BY <1>4, <2>1 DEF OperatorSetsStatus, TablesGrow
<1> QED
  BY <1>1, <1>2, <1>3, <1>4 DEF DesiredNext

\* A step of one view leaves the others alone.
LEMMA OnePage ==
  ASSUME ConsoleIInv, NEW v \in Views, NEW h \in Page, PageInv(h),
         page' = [page EXCEPT ![v] = h], UNCHANGED <<desired, email, owner>>
  PROVE  ConsoleIInv'
<1>1. UNCHANGED <<tenants, domains, policies, trail, version, email, owner>>
  BY DEF desired
<1>2. TablesGrow
  BY <1>1 DEF TablesGrow
<1>3. DesiredTypeOK' /\ DesiredValid' /\ AccountsTyped' /\ Placed'
  BY <1>1 DEF ConsoleIInv, DesiredTypeOK, DesiredValid, AccountsTyped, Placed
<1>4. /\ page' \in [Views -> Page]
      /\ page'[v] = h
      /\ \A u \in Views \ {v} : page'[u] = page[u]
  BY DEF ConsoleIInv
<1>5. ASSUME NEW u \in Views, NEW p \in Page, page'[u] = p
      PROVE  PageInv(p)'
  <2>1. PageInv(p)
    BY <1>4, <1>5 DEF ConsoleIInv
  <2> QED
    BY <1>2, <2>1, PageInvStable DEF ConsoleIInv
<1> QED
  BY <1>3, <1>4, <1>5 DEF ConsoleIInv

-----------------------------------------------------------------------------
(* The steps of a view. *)

\* A badge is one of three, and the green one is that of an active row.
LEMMA Badges ==
  ASSUME NEW status
  PROVE  BadgeOf(status) \in {"ok", "warn", "plain"} /\ (BadgeOf(status) = "ok" => status = "active")
<1>1. CASE status = "active"
  BY <1>1 DEF BadgeOf
<1>2. CASE status \in {"suspended", "pending_dns", "pending_provisioning"}
  <2>1. BadgeOf(status) = "warn"
    BY <1>2 DEF BadgeOf
  <2> QED
    BY <2>1
<1>3. CASE status \notin {"active", "suspended", "pending_dns", "pending_provisioning"}
  <2>1. BadgeOf(status) = "plain"
    BY <1>3 DEF BadgeOf
  <2> QED
    BY <2>1
<1> QED
  BY <1>1, <1>2, <1>3

\* A page shows the rows that it was given.
LEMMA ShownRows ==
  ASSUME NEW names, NEW status, NEW rows \in Listed(names, status)
  PROVE  /\ Shown(rows) \in Rows(names, status)
         /\ Names(Shown(rows)) = Names(rows)
         /\ \A s \in Shown(rows) : \E r \in rows : s.name = r.name /\ (s.badge = "ok" => r.status = "active")
<1> DEFINE Show(r) == [name |-> r.name, status |-> r.status, badge |-> BadgeOf(r.status)]
<1>1. \A r \in rows : r.name \in names /\ r.status \in status
  BY DEF Listed
<1>2. ASSUME NEW r \in rows
      PROVE  /\ Show(r) \in [name : names, status : status, badge : {"ok", "warn", "plain"}]
             /\ Show(r).name = r.name /\ Show(r).badge = BadgeOf(r.status)
  BY <1>1, Badges
<1>3. Shown(rows) = { Show(r) : r \in rows }
  BY DEF Shown
<1> HIDE DEF Show
<1>4. Shown(rows) \in Rows(names, status)
  BY <1>2, <1>3 DEF Rows
<1>5. Names(Shown(rows)) = Names(rows)
  BY <1>2, <1>3 DEF Names
<1>6. ASSUME NEW s \in Shown(rows)
      PROVE  \E r \in rows : s.name = r.name /\ (s.badge = "ok" => r.status = "active")
  <2>1. PICK r \in rows : s = Show(r)
    BY <1>3
  <2> QED
    BY <1>2, <2>1, Badges
<1> QED
  BY <1>4, <1>5, <1>6

\* What list_tenants returns.
LEMMA TenantsListed ==
  ASSUME DesiredTypeOK
  PROVE  /\ ListTenants \in Listed(Slugs, TenantStatus)
         /\ Names(ListTenants) = DOMAIN tenants
<1>1. \A t \in DOMAIN tenants : t \in Slugs /\ tenants[t] \in TenantStatus
  BY DEF DesiredTypeOK
<1>2. ListTenants \in Listed(Slugs, TenantStatus)
  BY <1>1 DEF ListTenants, Listed
<1>3. Names(ListTenants) = DOMAIN tenants
  <2> DEFINE Row(t) == [name |-> t, status |-> tenants[t]]
  <2>1. ListTenants = { Row(t) : t \in DOMAIN tenants } /\ \A t : Row(t).name = t
    BY DEF ListTenants
  <2> HIDE DEF Row
  <2> QED
    BY <2>1 DEF Names
<1> QED
  BY <1>2, <1>3

\* What list_domains returns.
LEMMA DomainsListed ==
  ASSUME DesiredTypeOK, NEW t
  PROVE  /\ ListDomains(t) \in Listed(Fqdns, DomainStatus)
         /\ Names(ListDomains(t)) = OwnDomains(t)
<1>1. \A d \in DOMAIN domains : d \in Fqdns /\ domains[d].status \in DomainStatus
  BY DEF DesiredTypeOK
<1>2. ListDomains(t) \in Listed(Fqdns, DomainStatus)
  BY <1>1 DEF ListDomains, Listed
<1>3. Names(ListDomains(t)) = OwnDomains(t)
  <2> DEFINE Row(d) == [name |-> d, status |-> domains[d].status]
  <2>1. ListDomains(t) = { Row(d) : d \in OwnDomains(t) } /\ \A d : Row(d).name = d
    BY DEF ListDomains, OwnDomains
  <2> HIDE DEF Row
  <2> QED
    BY <2>1 DEF Names
<1> QED
  BY <1>2, <1>3

\* What list_accounts returns.
LEMMA AccountsListed ==
  ASSUME AccountsTyped, NEW t
  PROVE  /\ ListAccounts(t) \in Listed(Emails, AccountStatus)
         /\ Names(ListAccounts(t)) = OwnAddresses(t)
         /\ \A r \in ListAccounts(t) :
              \E a \in TenantAccounts(t) :
                email[a] = r.name /\ (r.status = "active" => a \in DOMAIN owner)
<1> DEFINE Row(a) ==
      [name |-> email[a],
       status |-> IF a \in DOMAIN owner THEN "active" ELSE "pending_provisioning"]
<1>1. ASSUME NEW a \in TenantAccounts(t)
      PROVE  /\ Row(a) \in [name : Emails, status : AccountStatus]
             /\ Row(a).name = email[a]
             /\ Row(a).status = "active" => a \in DOMAIN owner
  <2>1. email[a] \in Emails
    BY DEF TenantAccounts, AccountsTyped
  <2> QED
    BY <2>1 DEF AccountStatus
<1>2. ListAccounts(t) = { Row(a) : a \in TenantAccounts(t) }
  BY DEF ListAccounts
<1> HIDE DEF Row
<1>3. ListAccounts(t) \in Listed(Emails, AccountStatus)
  BY <1>1, <1>2 DEF Listed
<1>4. Names(ListAccounts(t)) = OwnAddresses(t)
  BY <1>1, <1>2 DEF Names, OwnAddresses
<1>5. ASSUME NEW r \in ListAccounts(t)
      PROVE  \E a \in TenantAccounts(t) :
               email[a] = r.name /\ (r.status = "active" => a \in DOMAIN owner)
  <2>1. PICK a \in TenantAccounts(t) : r = Row(a)
    BY <1>2
  <2> QED
    BY <1>1, <2>1
<1> QED
  BY <1>3, <1>4, <1>5

\* The three kinds of page.
LEMMA KindsOfPage ==
  /\ NoHtml.view = "none"
  /\ \A why \in {"request failed", "no tenant with that id"} :
       /\ ErrorView(why) \in Html
       /\ ErrorView(why).view = "error" /\ ErrorView(why).why = why
  /\ \A rows : TenantsView(rows).view = "tenants"
  /\ \A rows \in Listed(Slugs, TenantStatus) : TenantsView(rows) \in Html
<1>1. \A rows \in Listed(Slugs, TenantStatus) : Shown(rows) \in Rows(Slugs, TenantStatus)
  BY ShownRows
<1>2. \A rows \in Listed(Slugs, TenantStatus) :
        TenantsView(rows) \in [view : {"tenants"}, rows : Rows(Slugs, TenantStatus)]
  BY <1>1 DEF TenantsView
<1>3. \A why \in {"request failed", "no tenant with that id"} :
        ErrorView(why) \in [view : {"error"}, why : {"request failed", "no tenant with that id"}]
  BY DEF ErrorView
<1>4. \A rows : TenantsView(rows).view = "tenants"
  BY DEF TenantsView
<1>5. \A why : ErrorView(why).view = "error" /\ ErrorView(why).why = why
  BY DEF ErrorView
<1>6. NoHtml.view = "none"
  BY DEF NoHtml
<1> QED
  BY <1>2, <1>3, <1>4, <1>5, <1>6 DEF Html

\* A page is requested.
LEMMA OpenStep ==
  ASSUME ConsoleIInv, NEW v \in Views,
         NEW target \in DOMAIN tenants \cup {Index, Unknown}, Open(v, target)
  PROVE  ConsoleIInv'
<1> DEFINE had == [tenants |-> DOMAIN tenants, domains |-> OwnDomains(target),
                   accounts |-> OwnAddresses(target)]
<1>1. page[v] \in Page /\ PageInv(page[v]) /\ page[v].pc = "idle"
  BY DEF ConsoleIInv, Open
<1>2. had \in [tenants : SUBSET Slugs, domains : SUBSET Fqdns, accounts : SUBSET Emails]
  <2>1. DOMAIN tenants \subseteq Slugs /\ OwnDomains(target) \subseteq Fqdns
    BY DEF ConsoleIInv, DesiredTypeOK, OwnDomains
  <2>2. OwnAddresses(target) \subseteq Emails
    BY DEF ConsoleIInv, AccountsTyped, OwnAddresses, TenantAccounts
  <2> QED
    BY <2>1, <2>2
<1>3. had.tenants = DOMAIN tenants /\ had.domains = OwnDomains(target)
      /\ had.accounts = OwnAddresses(target)
  OBVIOUS
<1>4. page' = [page EXCEPT ![v] = [@ EXCEPT !.target = target, !.pc = "tenants", !.had = had]]
  BY DEF Open, OwnDomains, OwnAddresses
<1> HIDE DEF had
<1>5. PICK h : h = [page[v] EXCEPT !.target = target, !.pc = "tenants", !.had = had]
  OBVIOUS
<1>6. target \in Slugs \cup {Index, Unknown}
  BY DEF ConsoleIInv, DesiredTypeOK
<1>7. /\ h \in Page
      /\ h.target = target /\ h.pc = "tenants" /\ h.had = had
      /\ h.got = page[v].got /\ h.failed = page[v].failed /\ h.html = page[v].html
  BY <1>1, <1>2, <1>5, <1>6 DEF Page
<1>8. page[v].failed = {} /\ page[v].html = NoHtml /\ \A c \in Calls : page[v].got[c] = Waiting
  BY <1>1 DEF PageInv, PageTypeOK
<1>9. h.html.view = "none"
  BY <1>7, <1>8, KindsOfPage
<1>10. PageInv(h)
  <2>1. PageTypeOK(h)
    BY <1>6, <1>7, <1>8 DEF PageTypeOK
  <2>2. HadStill(h)
    BY <1>3, <1>7 DEF HadStill
  <2>3. ShowsOwn(h) /\ Complete(h) /\ ErrorTrue(h)
    BY <1>9 DEF ShowsOwn, Complete, ErrorTrue
  <2> QED
    BY <1>7, <1>8, <2>1, <2>2, <2>3 DEF PageInv
<1>11. page' = [page EXCEPT ![v] = h]
  BY <1>4, <1>5
<1> QED
  BY <1>7, <1>10, <1>11, OnePage DEF Open

\* What Renders makes of a page.
LEMMA Rendered ==
  ASSUME ConsoleIInv, NEW v \in Views, NEW html \in Html, Renders(v, html)
  PROVE  \E h \in Page :
           /\ page' = [page EXCEPT ![v] = h]
           /\ h.pc = "done" /\ h.html = html
           /\ h.target = page[v].target /\ h.had = page[v].had /\ h.failed = page[v].failed
<1>1. page[v] \in Page
  BY DEF ConsoleIInv
<1>2. NewPage.got \in [Calls -> Answer]
  <2>1. NewPage.got = [c \in Calls |-> Waiting]
    BY DEF NewPage
  <2> QED
    BY <2>1 DEF Answer
<1>3. PICK h : h = [page[v] EXCEPT !.pc = "done", !.html = html, !.got = NewPage.got,
                                   !.tenant = Unknown]
  OBVIOUS
<1>4. /\ h \in Page
      /\ h.pc = "done" /\ h.html = html
      /\ h.target = page[v].target /\ h.had = page[v].had /\ h.failed = page[v].failed
  BY <1>1, <1>2, <1>3 DEF Page
<1>5. page' = [page EXCEPT ![v] = h]
  BY <1>3 DEF Renders
<1> QED
  BY <1>4, <1>5

\* A page that is rendered keeps the invariant if what it shows is true.
LEMMA RendersStep ==
  ASSUME ConsoleIInv, NEW v \in Views, NEW html \in Html, Renders(v, html),
         page[v].pc # "idle", UNCHANGED <<desired, email, owner>>,
         \A h \in Page :
           /\ h.html = html /\ h.target = page[v].target
           /\ h.had = page[v].had /\ h.failed = page[v].failed
           => ShowsOwn(h) /\ Complete(h) /\ ErrorTrue(h)
  PROVE  ConsoleIInv'
<1>1. PICK h \in Page :
        /\ page' = [page EXCEPT ![v] = h]
        /\ h.pc = "done" /\ h.html = html
        /\ h.target = page[v].target /\ h.had = page[v].had /\ h.failed = page[v].failed
  BY Rendered
<1>2. page[v] \in Page /\ PageInv(page[v])
  BY DEF ConsoleIInv
<1>3. PageTypeOK(h)
  BY <1>1, <1>2 DEF PageInv, PageTypeOK
<1>4. HadStill(h)
  BY <1>1, <1>2 DEF PageInv, HadStill
<1>5. PageInv(h)
  BY <1>1, <1>3, <1>4 DEF PageInv
<1> QED
  BY <1>1, <1>5, OnePage

\* The answer to the first GET keeps the invariant.
LEMMA TenantsAnsweredStep ==
  ASSUME ConsoleIInv, NEW v \in Views, TenantsAnswered(v)
  PROVE  ConsoleIInv'
<1>1. page[v] \in Page /\ PageInv(page[v]) /\ page[v].pc = "tenants"
  BY DEF ConsoleIInv, TenantsAnswered
<1>2. /\ page[v].failed = {} /\ HadStill(page[v]) /\ page[v].html = NoHtml
      /\ \A c \in Calls : page[v].got[c] = Waiting
  BY <1>1 DEF PageInv, PageTypeOK
<1>3. ListTenants \in Listed(Slugs, TenantStatus) /\ Names(ListTenants) = DOMAIN tenants
  BY TenantsListed DEF ConsoleIInv
<1>4. UNCHANGED <<desired, email, owner>>
  BY DEF TenantsAnswered
<1>5. CASE Renders(v, TenantsView(ListTenants))
  <2>1. TenantsView(ListTenants) \in Html /\ TenantsView(ListTenants).view = "tenants"
    BY <1>3, KindsOfPage
  <2>2. \A h \in Page : h.html = TenantsView(ListTenants) =>
                          ShowsOwn(h) /\ Complete(h) /\ ErrorTrue(h)
    BY <2>1 DEF ShowsOwn, Complete, ErrorTrue
  <2> QED
    BY <1>1, <1>4, <1>5, <2>1, <2>2, RendersStep
<1>6. CASE /\ \A t \in ListTenants : t.name # page[v].target
           /\ Renders(v, ErrorView("no tenant with that id"))
  <2> DEFINE html == ErrorView("no tenant with that id")
  <2>1. html \in Html /\ html.view = "error" /\ html.why = "no tenant with that id"
    BY KindsOfPage
  <2>2. page[v].target \notin page[v].had.tenants
    BY <1>2, <1>3, <1>6 DEF HadStill, Names
  <2> HIDE DEF html
  <2>3. ASSUME NEW h \in Page, h.html = html, h.target = page[v].target,
               h.had = page[v].had, h.failed = page[v].failed
        PROVE  ShowsOwn(h) /\ Complete(h) /\ ErrorTrue(h)
    <3>1. h.html.view = "error" /\ h.html.why = "no tenant with that id"
      BY <2>1, <2>3
    <3>2. ShowsOwn(h) /\ Complete(h)
      BY <3>1 DEF ShowsOwn, Complete
    <3>3. h.failed = {} /\ h.target \notin h.had.tenants
      BY <1>2, <2>2, <2>3
    <3> QED
      BY <3>1, <3>2, <3>3 DEF ErrorTrue
  <2>4. Renders(v, html)
    BY <1>6 DEF html
  <2> QED
    BY <1>1, <1>4, <2>1, <2>3, <2>4, RendersStep
<1>7. ASSUME NEW t \in ListTenants, t.name = page[v].target,
             page' = [page EXCEPT ![v] = [@ EXCEPT !.pc = "join", !.tenant = t]]
      PROVE  ConsoleIInv'
  <2>1. t \in [name : Slugs, status : TenantStatus]
    BY <1>3 DEF Listed
  <2>2. PICK h : h = [page[v] EXCEPT !.pc = "join", !.tenant = t]
    OBVIOUS
  <2>3. /\ h \in Page
        /\ h.pc = "join" /\ h.tenant = t /\ h.html = page[v].html
        /\ h.target = page[v].target /\ h.had = page[v].had /\ h.failed = page[v].failed
        /\ h.got = page[v].got
    BY <1>1, <2>1, <2>2 DEF Page
  <2>4. h.html.view = "none"
    BY <1>2, <2>3, KindsOfPage
  <2>5. PageTypeOK(h)
    BY <1>1, <1>2, <2>3 DEF PageInv, PageTypeOK
  <2>6. HadStill(h)
    BY <1>2, <2>3 DEF HadStill
  <2>7. GotTrue(h)
    <3>1. Waiting # Failed
      BY AdminConsoleAssumption
    <3> QED
      BY <1>2, <2>3, <3>1 DEF GotTrue, Calls
  <2>8. ShowsOwn(h) /\ Complete(h) /\ ErrorTrue(h)
    BY <2>4 DEF ShowsOwn, Complete, ErrorTrue
  <2>9. PageInv(h)
    BY <1>7, <2>1, <2>3, <2>5, <2>6, <2>7, <2>8 DEF PageInv
  <2>10. page' = [page EXCEPT ![v] = h]
    BY <1>7, <2>2
  <2> QED
    BY <1>4, <2>3, <2>9, <2>10, OnePage
<1> QED
  BY <1>5, <1>6, <1>7 DEF TenantsAnswered

\* The failure of the first GET keeps the invariant.
LEMMA TenantsFailStep ==
  ASSUME ConsoleIInv, NEW v \in Views, TenantsFail(v)
  PROVE  ConsoleIInv'
<1> DEFINE html == ErrorView("request failed")
           failed == {"tenants"}
<1>1. page[v] \in Page /\ PageInv(page[v]) /\ page[v].pc = "tenants"
  BY DEF ConsoleIInv, TenantsFail
<1>2. html \in Html /\ html.view = "error" /\ html.why = "request failed"
  BY KindsOfPage
<1>3. page' = [page EXCEPT ![v] = [@ EXCEPT !.pc = "done", !.html = html, !.failed = failed]]
  BY DEF TenantsFail
<1>4. failed \in SUBSET (Calls \cup {"tenants"}) /\ failed # {}
  OBVIOUS
<1> HIDE DEF html, failed
<1>5. PICK h : h = [page[v] EXCEPT !.pc = "done", !.html = html, !.failed = failed]
  OBVIOUS
<1>6. /\ h \in Page
      /\ h.pc = "done" /\ h.html = html /\ h.failed = failed
      /\ h.target = page[v].target /\ h.had = page[v].had
  BY <1>1, <1>2, <1>4, <1>5 DEF Page
<1>7. PageTypeOK(h)
  BY <1>1, <1>2, <1>4, <1>6 DEF PageInv, PageTypeOK
<1>8. HadStill(h)
  BY <1>1, <1>6 DEF PageInv, HadStill
<1>9. ShowsOwn(h) /\ Complete(h)
  BY <1>2, <1>6 DEF ShowsOwn, Complete
<1>10. ErrorTrue(h)
  BY <1>2, <1>4, <1>6 DEF ErrorTrue
<1>11. PageInv(h)
  BY <1>6, <1>7, <1>8, <1>9, <1>10 DEF PageInv
<1>12. page' = [page EXCEPT ![v] = h]
  BY <1>3, <1>5
<1> QED
  BY <1>6, <1>11, <1>12, OnePage DEF TenantsFail

\* One of the three GETs ends: with an answer that is true, or as a failure that is
\* noted.
LEMMA CallStep ==
  ASSUME ConsoleIInv, NEW v \in Views, NEW c \in Calls, NEW answer \in Answer \ {Waiting},
         NEW failed \in SUBSET (Calls \cup {"tenants"}),
         page[v].pc = "join", page[v].failed \subseteq failed,
         page' = [page EXCEPT ![v] = [@ EXCEPT !.got = [page[v].got EXCEPT ![c] = answer],
                                               !.failed = failed]],
         answer = Failed => c \in failed,
         answer # Failed =>
           \/ c = "domains" /\ DomainRows(page[v], answer)
           \/ c = "accounts" /\ AccountRows(page[v], answer)
           \/ c = "policy" /\ answer \in Thresholds \cup {DefaultPolicy},
         UNCHANGED <<desired, email, owner>>
  PROVE  ConsoleIInv'
<1>1. page[v] \in Page /\ PageInv(page[v])
  BY DEF ConsoleIInv
<1>2. page[v].got \in [Calls -> Answer] /\ page[v].html = NoHtml
  BY <1>1 DEF Page, PageInv, PageTypeOK
<1>3. PICK got : got = [page[v].got EXCEPT ![c] = answer]
  OBVIOUS
<1>4. got \in [Calls -> Answer] /\ got[c] = answer /\ \A d \in Calls \ {c} : got[d] = page[v].got[d]
  BY <1>2, <1>3
<1>5. PICK h : h = [page[v] EXCEPT !.got = got, !.failed = failed]
  OBVIOUS
<1>6. /\ h \in Page
      /\ h.got = got /\ h.failed = failed
      /\ h.pc = "join" /\ h.tenant = page[v].tenant /\ h.html = page[v].html
      /\ h.target = page[v].target /\ h.had = page[v].had
  BY <1>1, <1>4, <1>5 DEF Page
<1>7. PageTypeOK(h)
  BY <1>1, <1>2, <1>6 DEF PageInv, PageTypeOK
<1>8. HadStill(h)
  BY <1>1, <1>6 DEF PageInv, HadStill
<1>9. GotTrue(h)
  <2>1. GotTrue(page[v])
    BY <1>1 DEF PageInv
  <2>2. \A rows : /\ DomainRows(page[v], rows) => DomainRows(h, rows)
                  /\ AccountRows(page[v], rows) => AccountRows(h, rows)
    BY <1>6 DEF DomainRows, AccountRows
  <2>3. {"domains", "accounts", "policy"} = Calls
    BY DEF Calls
  <2>4. \A d \in Calls : got[d] = Failed => d \in failed
    BY <1>4, <2>1 DEF GotTrue
  <2>5. got["domains"] \notin {Waiting, Failed} => DomainRows(h, got["domains"])
    BY <1>4, <2>1, <2>2, <2>3 DEF GotTrue
  <2>6. got["accounts"] \notin {Waiting, Failed} => AccountRows(h, got["accounts"])
    BY <1>4, <2>1, <2>2, <2>3 DEF GotTrue
  <2>7. got["policy"] \notin {Waiting, Failed} => got["policy"] \in Thresholds \cup {DefaultPolicy}
    BY <1>4, <2>1, <2>3 DEF GotTrue
  <2> QED
    BY <1>6, <2>4, <2>5, <2>6, <2>7 DEF GotTrue
<1>10. ShowsOwn(h) /\ Complete(h) /\ ErrorTrue(h)
  BY <1>2, <1>6, KindsOfPage DEF ShowsOwn, Complete, ErrorTrue
<1>11. PageInv(h)
  <2>1. h.tenant \in [name : Slugs, status : TenantStatus] /\ h.tenant.name = h.target
    BY <1>1, <1>6 DEF PageInv
  <2> QED
    BY <1>6, <1>7, <1>8, <1>9, <1>10, <2>1 DEF PageInv
<1>12. page' = [page EXCEPT ![v] = h]
  BY <1>3, <1>5
<1> QED
  BY <1>6, <1>11, <1>12, OnePage

\* The answers of admin-api, and their absence, keep the invariant.
LEMMA CallEndsStep ==
  ASSUME ConsoleIInv, NEW v \in Views, NEW c \in Calls, CallEnds(v, c)
  PROVE  ConsoleIInv'
<1>1. /\ page[v] \in Page /\ PageInv(page[v]) /\ page[v].pc = "join"
      /\ UNCHANGED <<desired, email, owner>>
  BY DEF ConsoleIInv, CallEnds
<1>2. page[v].failed \in SUBSET (Calls \cup {"tenants"}) /\ HadStill(page[v])
  BY <1>1 DEF Page, PageInv
<1>3. Failed \in Answer /\ Waiting # Failed
  BY AdminConsoleAssumption DEF Answer
<1>4. page \in [Views -> Page]
  BY DEF ConsoleIInv
<1>5. /\ page[v].pc = "join" /\ page[v].failed \subseteq page[v].failed
      /\ page[v].failed \in SUBSET (Calls \cup {"tenants"})
  BY <1>1, <1>2
<1>6. CASE GetFails(v, c)
  <2>1. PICK failed : failed = page[v].failed \cup {c}
    OBVIOUS
  <2>2. page' = [page EXCEPT ![v] = [@ EXCEPT !.got = [page[v].got EXCEPT ![c] = Failed],
                                              !.failed = failed]]
    BY <1>1, <1>4, <1>6, <2>1 DEF GetFails, Page
  <2>3. /\ failed \in SUBSET (Calls \cup {"tenants"})
        /\ page[v].failed \subseteq failed /\ c \in failed
    BY <1>2, <2>1
  <2>4. Failed \in Answer \ {Waiting}
    BY <1>3
  <2> QED
    BY <1>1, <1>5, <2>2, <2>3, <2>4, CallStep, Zenon
<1>7. ASSUME NEW body \in Answer \ {Waiting}, body # Failed, GetAnswers(v, c, body),
             \/ c = "domains" /\ DomainRows(page[v], body)
             \/ c = "accounts" /\ AccountRows(page[v], body)
             \/ c = "policy" /\ body \in Thresholds \cup {DefaultPolicy}
      PROVE  ConsoleIInv'
  <2>1. page' = [page EXCEPT ![v] = [@ EXCEPT !.got = [page[v].got EXCEPT ![c] = body],
                                              !.failed = page[v].failed]]
    BY <1>1, <1>4, <1>7 DEF GetAnswers, Page
  <2>2. UNCHANGED <<desired, email, owner>>
    BY <1>1
  <2>3. body = Failed => c \in page[v].failed
    BY <1>7
  <2>4. body # Failed =>
          \/ c = "domains" /\ DomainRows(page[v], body)
          \/ c = "accounts" /\ AccountRows(page[v], body)
          \/ c = "policy" /\ body \in Thresholds \cup {DefaultPolicy}
    BY <1>7, Zenon
  <2> QED
    BY <1>5, <2>1, <2>2, <2>3, <2>4, CallStep, Zenon
<1>8. CASE c = "domains" /\ GetAnswers(v, c, ListDomains(page[v].target))
  <2>1. PICK rows : rows = ListDomains(page[v].target)
    OBVIOUS
  <2>2. rows \in Listed(Fqdns, DomainStatus) /\ Names(rows) = OwnDomains(page[v].target)
    BY <2>1, DomainsListed DEF ConsoleIInv
  <2>3. rows \in Answer \ {Waiting} /\ rows # Failed
    BY <2>2, AdminConsoleAssumption DEF Answer
  <2>4. DomainRows(page[v], rows)
    BY <1>2, <2>2 DEF DomainRows, HadStill
  <2>5. GetAnswers(v, c, rows)
    BY <1>8, <2>1
  <2> QED
    BY <1>7, <1>8, <2>3, <2>4, <2>5, Zenon
<1>9. CASE c = "accounts" /\ GetAnswers(v, c, ListAccounts(page[v].target))
  <2>1. PICK rows : rows = ListAccounts(page[v].target)
    OBVIOUS
  <2>2. /\ rows \in Listed(Emails, AccountStatus) /\ Names(rows) = OwnAddresses(page[v].target)
        /\ \A r \in rows :
             \E a \in TenantAccounts(page[v].target) :
               email[a] = r.name /\ (r.status = "active" => a \in DOMAIN owner)
    BY <2>1, AccountsListed DEF ConsoleIInv
  <2>3. rows \in Answer \ {Waiting} /\ rows # Failed
    BY <2>2, AdminConsoleAssumption DEF Answer
  <2>4. AccountRows(page[v], rows)
    BY <1>2, <2>2 DEF AccountRows, HadStill
  <2>5. GetAnswers(v, c, rows)
    BY <1>9, <2>1
  <2> QED
    BY <1>7, <1>9, <2>3, <2>4, <2>5, Zenon
<1>10. CASE c = "policy" /\ GetAnswers(v, c, EffectivePolicy(page[v].target))
  <2>1. PICK policy : policy = EffectivePolicy(page[v].target)
    OBVIOUS
  <2>2. policy \in Thresholds \cup {DefaultPolicy}
    BY <2>1, EffectivePolicyValid DEF ConsoleIInv
  <2>3. policy \in Answer \ {Waiting} /\ policy # Failed
    BY <2>2, AdminConsoleAssumption DEF Answer
  <2>4. GetAnswers(v, c, policy)
    BY <1>10, <2>1
  <2> QED
    BY <1>7, <1>10, <2>2, <2>3, <2>4, Zenon
<1> QED
  BY <1>6, <1>8, <1>9, <1>10 DEF CallEnds

TenantRow == [name : Slugs, status : TenantStatus]
Compiled == Thresholds \cup {DefaultPolicy}

\* A detail page of rows that are listed is a page, and shows them.
LEMMA DetailShows ==
  ASSUME NEW t \in TenantRow,
         NEW ds \in Listed(Fqdns, DomainStatus), NEW as \in Listed(Emails, AccountStatus),
         NEW p \in Compiled
  PROVE  /\ DetailView(t, ds, as, p) \in Html
         /\ DetailView(t, ds, as, p).view = "detail" /\ DetailView(t, ds, as, p).tenant = t.name
         /\ DetailView(t, ds, as, p).domains = Shown(ds)
         /\ DetailView(t, ds, as, p).accounts = Shown(as)
<1>1. Shown(ds) \in Rows(Fqdns, DomainStatus) /\ Shown(as) \in Rows(Emails, AccountStatus)
  BY ShownRows
<1>2. DetailView(t, ds, as, p) \in
        [view : {"detail"}, tenant : Slugs, status : TenantStatus,
         domains : Rows(Fqdns, DomainStatus), accounts : Rows(Emails, AccountStatus),
         policy : { ShownPolicy(q) : q \in Thresholds \cup {DefaultPolicy} }]
  BY <1>1 DEF DetailView, TenantRow, Compiled
<1> QED
  BY <1>2 DEF Html, DetailView

\* The end of tenant_detail_page keeps the invariant.
LEMMA RenderDetailStep ==
  ASSUME ConsoleIInv, NEW v \in Views, RenderDetail(v)
  PROVE  ConsoleIInv'
<1>1. /\ page[v] \in Page /\ PageInv(page[v]) /\ page[v].pc = "join" /\ Joined(page[v].got)
      /\ Renders(v, DetailPage(page[v].tenant, page[v].got))
      /\ UNCHANGED <<desired, email, owner>>
  BY DEF ConsoleIInv, RenderDetail
<1>2. /\ GotTrue(page[v]) /\ page[v].tenant \in [name : Slugs, status : TenantStatus]
      /\ page[v].tenant.name = page[v].target
  BY <1>1 DEF PageInv
<1>3. PICK got : got = page[v].got
  OBVIOUS
<1>4. \A c \in Calls : got[c] # Waiting /\ (got[c] = Failed => c \in page[v].failed)
  BY <1>1, <1>2, <1>3 DEF Joined, GotTrue
<1>5. {"domains", "accounts", "policy"} = Calls
  BY DEF Calls
<1>6. CASE got["policy"] = Failed
  <2> DEFINE html == ErrorView("request failed")
  <2>1. html \in Html /\ html.view = "error" /\ html.why = "request failed"
    BY KindsOfPage
  <2>2. Renders(v, html)
    BY <1>1, <1>3, <1>6 DEF DetailPage
  <2> HIDE DEF html
  <2>3. "policy" \in page[v].failed
    BY <1>4, <1>5, <1>6
  <2>4. ASSUME NEW h \in Page, h.html = html, h.failed = page[v].failed
        PROVE  ShowsOwn(h) /\ Complete(h) /\ ErrorTrue(h)
    <3>1. ShowsOwn(h) /\ Complete(h)
      BY <2>1, <2>4 DEF ShowsOwn, Complete
    <3>2. h.failed # {}
      BY <2>3, <2>4
    <3> QED
      BY <2>1, <2>4, <3>1, <3>2 DEF ErrorTrue
  <2> QED
    BY <1>1, <2>1, <2>2, <2>4, RendersStep
<1>7. CASE got["policy"] # Failed
  <2>1. got["policy"] \in Thresholds \cup {DefaultPolicy}
    BY <1>2, <1>3, <1>4, <1>5, <1>7 DEF GotTrue
  <2>2. PICK ds : ds = OrEmpty(got["domains"])
    OBVIOUS
  <2>3. PICK as : as = OrEmpty(got["accounts"])
    OBVIOUS
  <2>4. IF got["domains"] = Failed THEN ds = {} /\ "domains" \in page[v].failed
        ELSE DomainRows(page[v], ds)
    BY <1>2, <1>3, <1>4, <1>5, <2>2 DEF GotTrue, OrEmpty
  <2>5. IF got["accounts"] = Failed THEN as = {} /\ "accounts" \in page[v].failed
        ELSE AccountRows(page[v], as)
    BY <1>2, <1>3, <1>4, <1>5, <2>3 DEF GotTrue, OrEmpty
  <2>6. ds \in Listed(Fqdns, DomainStatus) /\ as \in Listed(Emails, AccountStatus)
    BY <2>4, <2>5 DEF DomainRows, AccountRows, Listed
  <2>7. /\ Names(ds) \subseteq OwnDomains(page[v].target)
        /\ "domains" \in page[v].failed \/ page[v].had.domains \subseteq Names(ds)
    BY <2>4 DEF DomainRows, Names
  <2>8. /\ \A r \in as :
             \E a \in TenantAccounts(page[v].target) :
               email[a] = r.name /\ (r.status = "active" => a \in DOMAIN owner)
        /\ "accounts" \in page[v].failed \/ page[v].had.accounts \subseteq Names(as)
    BY <2>5 DEF AccountRows
  <2>9. PICK html : html = DetailView(page[v].tenant, ds, as, got["policy"])
    OBVIOUS
  <2>10. /\ html \in Html
         /\ html.view = "detail" /\ html.tenant = page[v].target
         /\ html.domains = Shown(ds) /\ html.accounts = Shown(as)
    <3>1. PICK t \in TenantRow, policy \in Compiled : t = page[v].tenant /\ policy = got["policy"]
      BY <1>2, <2>1 DEF TenantRow, Compiled
    <3>2. html = DetailView(t, ds, as, policy) /\ t.name = page[v].target
      BY <1>2, <2>9, <3>1
    <3>3. /\ DetailView(t, ds, as, policy) \in Html
          /\ DetailView(t, ds, as, policy).view = "detail"
          /\ DetailView(t, ds, as, policy).tenant = t.name
          /\ DetailView(t, ds, as, policy).domains = Shown(ds)
          /\ DetailView(t, ds, as, policy).accounts = Shown(as)
      <4>1. t \in TenantRow /\ policy \in Compiled
        BY <3>1
      <4>2. ds \in Listed(Fqdns, DomainStatus) /\ as \in Listed(Emails, AccountStatus)
        BY <2>6
      <4> QED
        BY <4>1, <4>2, DetailShows, Zenon
    <3> QED
      BY <3>2, <3>3, Zenon
  <2>11. Renders(v, html)
    BY <1>1, <1>3, <1>7, <2>2, <2>3, <2>9 DEF DetailPage
  <2>12. /\ Names(html.domains) = Names(ds) /\ Names(html.accounts) = Names(as)
         /\ \A s \in html.accounts :
              \E r \in as : s.name = r.name /\ (s.badge = "ok" => r.status = "active")
    <3>1. Names(Shown(ds)) = Names(ds)
      BY <2>6, ShownRows
    <3>2. /\ Names(Shown(as)) = Names(as)
          /\ \A s \in Shown(as) :
               \E r \in as : s.name = r.name /\ (s.badge = "ok" => r.status = "active")
      BY <2>6, ShownRows, Zenon
    <3> QED
      BY <2>10, <3>1, <3>2
  <2>13. ASSUME NEW h \in Page, h.html = html, h.target = page[v].target,
                h.had = page[v].had, h.failed = page[v].failed
         PROVE  ShowsOwn(h) /\ Complete(h) /\ ErrorTrue(h)
    <3>1. \A d \in Names(html.domains) : d \in DOMAIN domains /\ domains[d].tenant = page[v].target
      BY <2>7, <2>12 DEF OwnDomains
    <3>2. \A s \in html.accounts :
            \E a \in TenantAccounts(page[v].target) :
              email[a] = s.name /\ (s.badge = "ok" => a \in DOMAIN owner)
      BY <2>8, <2>12
    <3>3. ShowsOwn(h)
      BY <2>10, <2>13, <3>1, <3>2 DEF ShowsOwn
    <3>4. Complete(h)
      BY <2>7, <2>8, <2>12, <2>13 DEF Complete
    <3>5. ErrorTrue(h)
      BY <2>10, <2>13 DEF ErrorTrue
    <3> QED
      BY <3>3, <3>4, <3>5
  <2> QED
    BY <1>1, <2>10, <2>11, <2>13, RendersStep
<1> QED
  BY <1>6, <1>7

\* While the tables grow beside it, the console keeps the invariant.
LEMMA TablesStep ==
  ASSUME ConsoleIInv, TablesGrow, UNCHANGED page,
         DesiredTypeOK', DesiredValid', AccountsTyped', Placed'
  PROVE  ConsoleIInv'
<1>1. ASSUME NEW v \in Views, NEW p \in Page, page'[v] = p
      PROVE  PageInv(p)'
  <2>1. PageInv(p)
    BY <1>1 DEF ConsoleIInv
  <2> QED
    BY <2>1, PageInvStable DEF ConsoleIInv
<1> QED
  BY <1>1 DEF ConsoleIInv

\* A new account, in a domain that is there, or one that is linked to its user.
LEMMA AccountsStep ==
  ASSUME ConsoleIInv, AccountsNext, UNCHANGED <<desired, page>>
  PROVE  ConsoleIInv'
<1>1. UNCHANGED <<tenants, domains, policies, trail, version>>
  BY DEF desired
<1>2. DesiredTypeOK' /\ DesiredValid'
  BY <1>1 DEF ConsoleIInv, DesiredTypeOK, DesiredValid
<1>3. ASSUME NEW a \in Accounts, NEW e \in Emails, e[2] \in DOMAIN domains, Lifecycle!Register(a, e)
      PROVE  ConsoleIInv'
  <2>1. /\ owner' = owner /\ DOMAIN email' = DOMAIN email \cup {a} /\ a \notin DOMAIN email
        /\ \A b \in DOMAIN email' : email'[b] = IF b = a THEN e ELSE email[b]
    BY <1>3 DEF Lifecycle!Register
  <2>2. email' \in [DOMAIN email \cup {a} -> Emails]
    BY <1>3 DEF Lifecycle!Register, ConsoleIInv, AccountsTyped
  <2>3. AccountsTyped'
    BY <2>1, <2>2 DEF ConsoleIInv, AccountsTyped
  <2>4. Placed'
    BY <1>1, <1>3, <2>1 DEF ConsoleIInv, Placed
  <2>5. TablesGrow
    BY <1>1, <2>1 DEF TablesGrow
  <2> QED
    BY <1>2, <2>3, <2>4, <2>5, TablesStep
<1>4. ASSUME NEW a \in Accounts, NEW u \in UserIds, Lifecycle!Activate(a, u)
      PROVE  ConsoleIInv'
  <2>1. email' = email /\ DOMAIN owner' = DOMAIN owner \cup {a}
    BY <1>4 DEF Lifecycle!Activate
  <2>2. owner' \in [DOMAIN owner \cup {a} -> UserIds]
    BY <1>4 DEF Lifecycle!Activate, ConsoleIInv, AccountsTyped
  <2>3. AccountsTyped' /\ Placed'
    BY <1>1, <2>1, <2>2 DEF ConsoleIInv, AccountsTyped, Placed
  <2>4. TablesGrow
    BY <1>1, <2>1 DEF TablesGrow
  <2> QED
    BY <1>2, <2>3, <2>4, TablesStep
<1> QED
  BY <1>3, <1>4 DEF AccountsNext

\* Initially the invariant holds.
LEMMA InitConsole == ConsoleInit => ConsoleIInv
<1> SUFFICES ASSUME ConsoleInit PROVE ConsoleIInv
  OBVIOUS
<1>1. DesiredTypeOK /\ DesiredValid
  BY InitDesired DEF ConsoleInit
<1>2. DOMAIN email = {} /\ DOMAIN owner = {} /\ email \in [{} -> Emails] /\ owner \in [{} -> UserIds]
  BY DEF ConsoleInit, Lifecycle!LifecycleInit
<1>3. AccountsTyped /\ Placed
  BY <1>2 DEF AccountsTyped, Placed
<1>4. NewPage.got \in [Calls -> Answer] /\ \A c \in Calls : NewPage.got[c] = Waiting
  <2>1. NewPage.got = [c \in Calls |-> Waiting]
    BY DEF NewPage
  <2> QED
    BY <2>1 DEF Answer
<1>5. NewPage \in Page
  <2>1. [c \in Calls |-> Waiting] \in [Calls -> Answer]
    BY DEF Answer
  <2>2. [tenants |-> {}, domains |-> {}, accounts |-> {}] \in
          [tenants : SUBSET Slugs, domains : SUBSET Fqdns, accounts : SUBSET Emails]
    OBVIOUS
  <2> QED
    BY <2>1, <2>2 DEF NewPage, Page
<1>6. /\ NewPage.target = Index /\ NewPage.pc = "idle" /\ NewPage.failed = {}
      /\ NewPage.html = NoHtml
  BY DEF NewPage
<1>7. PageTypeOK(NewPage)
  BY <1>6 DEF PageTypeOK
<1>8. ShowsOwn(NewPage) /\ Complete(NewPage) /\ ErrorTrue(NewPage)
  BY <1>6, KindsOfPage DEF ShowsOwn, Complete, ErrorTrue
<1>9. PageInv(NewPage)
  BY <1>4, <1>6, <1>7, <1>8 DEF PageInv
<1>10. page = [v \in Views |-> NewPage]
  BY DEF ConsoleInit
<1> QED
  BY <1>1, <1>3, <1>5, <1>9, <1>10 DEF ConsoleIInv

\* Every step of the console, and of the control plane beside it, keeps the invariant.
LEMMA NextConsole ==
  ASSUME ConsoleIInv, [ConsoleNext]_consoleVars
  PROVE  ConsoleIInv'
<1>1. CASE DesiredNext /\ UNCHANGED <<email, owner, page>>
  <2>1. DesiredTypeOK' /\ DesiredValid' /\ TablesGrow
    BY <1>1, DesiredNextTyped, DesiredNextValid, DesiredNextGrows DEF ConsoleIInv
  <2>2. AccountsTyped'
    BY <1>1 DEF ConsoleIInv, AccountsTyped
  <2>3. Placed'
    BY <1>1, <2>1 DEF ConsoleIInv, Placed, TablesGrow
  <2> QED
    BY <1>1, <2>1, <2>2, <2>3, TablesStep
<1>2. CASE UNCHANGED consoleVars
  <2>1. UNCHANGED <<tenants, domains, policies, trail, version, email, owner, page>>
    BY <1>2 DEF consoleVars, desired
  <2>2. TablesGrow
    BY <2>1 DEF TablesGrow
  <2>3. DesiredTypeOK' /\ DesiredValid' /\ AccountsTyped' /\ Placed'
    BY <2>1 DEF ConsoleIInv, DesiredTypeOK, DesiredValid, AccountsTyped, Placed
  <2> QED
    BY <2>1, <2>2, <2>3, TablesStep
<1> QED
  BY <1>1, <1>2, OpenStep, TenantsAnsweredStep, TenantsFailStep, CallEndsStep, RenderDetailStep,
     AccountsStep DEF ConsoleNext

-----------------------------------------------------------------------------
\* The invariant of the console is inductive: it holds in every state of its pages.
THEOREM ConsoleInvariant == ConsoleSpec => []ConsoleIInv
BY InitConsole, NextConsole, PTL DEF ConsoleSpec

\* A page of a tenant shows rows of that tenant only, of any number of tenants, and a
\* green badge only for an account that has its sesame-idam user.
THEOREM PagesShowOwnRows == ConsoleSpec => []ShowsOwnRows
<1>1. ASSUME ConsoleIInv PROVE ShowsOwnRows
  <2>1. \A v \in Views : PageTypeOK(page[v]) /\ ShowsOwn(page[v])
    BY <1>1 DEF ConsoleIInv, PageInv
  <2> QED
    BY <1>1, <2>1 DEF ShowsOwnRows, ConsoleTypeOK, ConsoleIInv, AccountsTyped, IsDetail, ShowsOwn
<1> QED
  BY <1>1, ConsoleInvariant, PTL

\* A page lacks nothing that was there when it was requested, unless a GET failed,
\* whatever is committed between its four reads.
THEOREM PagesAreComplete == ConsoleSpec => []CompleteUnlessFailed
<1>1. ASSUME ConsoleIInv PROVE CompleteUnlessFailed
  <2>1. \A v \in Views : Complete(page[v])
    BY <1>1 DEF ConsoleIInv, PageInv
  <2> QED
    BY <2>1 DEF CompleteUnlessFailed, IsDetail, Complete
<1> QED
  BY <1>1, ConsoleInvariant, PTL

\* An error page says the truth about what failed or is missing.
THEOREM ErrorPagesAreTrue == ConsoleSpec => []ErrorsAreTrue
<1>1. ASSUME ConsoleIInv PROVE ErrorsAreTrue
  <2>1. \A v \in Views : ErrorTrue(page[v])
    BY <1>1 DEF ConsoleIInv, PageInv
  <2> QED
    BY <2>1 DEF ErrorsAreTrue, ErrorTrue
<1> QED
  BY <1>1, ConsoleInvariant, PTL
=============================================================================
