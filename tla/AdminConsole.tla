---------------------------- MODULE AdminConsole ----------------------------
(***************************************************************************)
(* admin-console: pages over admin-api, rendered on the server.  A page of *)
(* a tenant takes four GETs: the tenants first, and then, side by side, the *)
(* domains, the accounts and the policy.  Each is a transaction of its own  *)
(* in admin-api, so that the page puts four moments together, and each may  *)
(* fail, or never be answered: the client has no timeout.                  *)
(*                                                                         *)
(* The desired state is ControlPlane's.  The accounts are AccountLifecycle, *)
(* the promise that Provisioning keeps.  A row is what the page shows of   *)
(* it: its name, its status and the colour of its badge.  The layout, the   *)
(* other columns and the order of the rows are left out.                    *)
(***************************************************************************)
EXTENDS ControlPlane

CONSTANTS
  Views,        \* requests of a browser
  Accounts, UserIds,
  Emails,       \* pairs of a local part and an fqdn
  Index,        \* the target of GET /
  Unknown,      \* a tenant id that no row has
  Waiting, Failed

VARIABLES
  email, owner,   \* the accounts, as AccountLifecycle has them
  page            \* the handlers of the console

consoleVars == <<desired, email, owner, page>>

Lifecycle == INSTANCE AccountLifecycle

AccountStatus == {"pending_provisioning", "active"}

\* What a page shows of a row.
Rows(names, status) ==
  SUBSET [name : names, status : status, badge : {"ok", "warn", "plain"}]

\* fmt1: one decimal; the model's thresholds are whole.
Fmt1(v) == <<v, ".", 0>>
ShownPolicy(p) ==
  [greylist |-> Fmt1(p.greylist), add_header |-> Fmt1(p.add_header), reject |-> Fmt1(p.reject)]

NoHtml == [view |-> "none"]
Html ==
  [view : {"error"}, why : {"request failed", "no tenant with that id"}]
  \cup [view : {"tenants"}, rows : Rows(Slugs, TenantStatus)]
  \cup [view : {"detail"}, tenant : Slugs, status : TenantStatus,
        domains : Rows(Fqdns, DomainStatus), accounts : Rows(Emails, AccountStatus),
        policy : { ShownPolicy(p) : p \in Thresholds \cup {DefaultPolicy} }]

Calls == {"domains", "accounts", "policy"}

\* The rows that an answer lists.  No body is Waiting or Failed.
Listed(names, status) == SUBSET [name : names, status : status]

ASSUME AdminConsoleAssumption ==
  /\ \A e \in Emails : e[2] \in Fqdns
  /\ Index # Unknown /\ {Index, Unknown} \cap Slugs = {}
  /\ Waiting # Failed
  /\ \A mark \in {Waiting, Failed} :
       /\ \A body \in Listed(Fqdns, DomainStatus) : body # mark
       /\ \A body \in Listed(Emails, AccountStatus) : body # mark
       /\ \A body \in Thresholds \cup {DefaultPolicy} : body # mark

\* got: the answers to the page's GETs; had: what the tables held when the page was
\* requested; failed: the GETs that failed.
NewPage ==
  [target |-> Index, pc |-> "idle", tenant |-> Unknown,
   got |-> [c \in Calls |-> Waiting],
   had |-> [tenants |-> {}, domains |-> {}, accounts |-> {}],
   failed |-> {}, html |-> NoHtml]

PageTypeOK(p) ==
  /\ p.target \in Slugs \cup {Index, Unknown}
  /\ p.pc \in {"idle", "tenants", "join", "done"}
  /\ p.html \in IF p.pc = "done" THEN Html ELSE {NoHtml}
  /\ p.failed \subseteq Calls \cup {"tenants"}

ConsoleTypeOK ==
  /\ DesiredTypeOK
  /\ DOMAIN email \subseteq Accounts /\ email \in [DOMAIN email -> Emails]
  /\ DOMAIN owner \subseteq Accounts /\ owner \in [DOMAIN owner -> UserIds]
  /\ \A v \in Views : PageTypeOK(page[v])

ConsoleInit ==
  /\ DesiredInit
  /\ Lifecycle!LifecycleInit
  /\ page = [v \in Views |-> NewPage]

-----------------------------------------------------------------------------
(* admin-api's reads, each a transaction. *)

ListTenants == { [name |-> t, status |-> tenants[t]] : t \in DOMAIN tenants }

\* Under the row-level security of tenant_tx.
\* Mutant: the handler takes a platform_tx.
ListDomainsPlatform(t) ==
  { [name |-> d, status |-> domains[d].status] : d \in DOMAIN domains }
ListDomains(t) ==
  { [name |-> d, status |-> domains[d].status] :
      d \in { e \in DOMAIN domains : domains[e].tenant = t } }

\* accounts.tenant_id is the tenant of the account's domain (TenantOwnsDomain).
TenantAccounts(t) == { a \in DOMAIN email : domains[email[a][2]].tenant = t }

\* Mutant: only the accounts that are active.
ListAccountsActive(t) ==
  { [name |-> email[a], status |-> "active"] : a \in TenantAccounts(t) \cap DOMAIN owner }
ListAccounts(t) ==
  { [name |-> email[a],
     status |-> IF a \in DOMAIN owner THEN "active" ELSE "pending_provisioning"] :
      a \in TenantAccounts(t) }

-----------------------------------------------------------------------------
(* The views. *)

BadgeOf(status) ==
  CASE status = "active" -> "ok"
    [] status \in {"suspended", "pending_dns", "pending_provisioning"} -> "warn"
    [] OTHER -> "plain"

Shown(rows) ==
  { [name |-> r.name, status |-> r.status, badge |-> BadgeOf(r.status)] : r \in rows }

\* "No tenants yet.", "No domains." and "No accounts." are the empty sets.
TenantsView(rows) == [view |-> "tenants", rows |-> Shown(rows)]

DetailView(t, ds, as, p) ==
  [view |-> "detail", tenant |-> t.name, status |-> t.status,
   domains |-> Shown(ds), accounts |-> Shown(as), policy |-> ShownPolicy(p)]

ErrorView(why) == [view |-> "error", why |-> why]

-----------------------------------------------------------------------------
(* The handlers of the console. *)

\* A page is requested, and asks for the tenants.
Open(v, target) ==
  /\ page[v].pc = "idle"
  /\ page' = [page EXCEPT ![v] =
                [@ EXCEPT !.target = target, !.pc = "tenants",
                   !.had = [tenants |-> DOMAIN tenants,
                            domains |-> { d \in DOMAIN domains : domains[d].tenant = target },
                            accounts |-> { email[a] : a \in TenantAccounts(target) }]]]
  /\ UNCHANGED <<desired, email, owner>>

Renders(v, html) ==
  page' = [page EXCEPT ![v] =
             [@ EXCEPT !.pc = "done", !.html = html, !.got = NewPage.got, !.tenant = Unknown]]

\* get_json: no answer, a status that is no success, or a body that does not decode.
GetFails(v, c) == page' = [page EXCEPT ![v].got[c] = Failed, ![v].failed = @ \cup {c}]
GetAnswers(v, c, body) == page' = [page EXCEPT ![v].got[c] = body]

\* tenants_page, and the first half of tenant_detail_page.
TenantsAnswered(v) ==
  /\ page[v].pc = "tenants"
  /\ \/ page[v].target = Index /\ Renders(v, TenantsView(ListTenants))
     \/ /\ page[v].target # Index
        /\ \A t \in ListTenants : t.name # page[v].target
        /\ Renders(v, ErrorView("no tenant with that id"))
     \/ \E t \in ListTenants :
          /\ t.name = page[v].target
          /\ page' = [page EXCEPT ![v] = [@ EXCEPT !.pc = "join", !.tenant = t]]
  /\ UNCHANGED <<desired, email, owner>>

\* Mutant: a list that cannot be read is an empty one.
TenantsFailDefault(v) ==
  /\ page[v].pc = "tenants"
  /\ page' = [page EXCEPT ![v] =
                [@ EXCEPT !.pc = "done", !.html = ErrorView("no tenant with that id"),
                          !.failed = {"tenants"}]]
  /\ UNCHANGED <<desired, email, owner>>
TenantsFail(v) ==
  /\ page[v].pc = "tenants"
  /\ page' = [page EXCEPT ![v] =
                [@ EXCEPT !.pc = "done", !.html = ErrorView("request failed"),
                          !.failed = {"tenants"}]]
  /\ UNCHANGED <<desired, email, owner>>

\* One of the three GETs that tokio::join! awaits.
CallEnds(v, c) ==
  /\ page[v].pc = "join"
  /\ page[v].got[c] = Waiting
  /\ \/ GetFails(v, c)
     \/ c = "domains" /\ GetAnswers(v, c, ListDomains(page[v].target))
     \/ c = "accounts" /\ GetAnswers(v, c, ListAccounts(page[v].target))
     \/ c = "policy" /\ GetAnswers(v, c, EffectivePolicy(page[v].target))
  /\ UNCHANGED <<desired, email, owner>>

\* tokio::join!
Joined(got) == \A c \in Calls : got[c] # Waiting

\* unwrap_or_default
OrEmpty(answer) == IF answer = Failed THEN {} ELSE answer

\* Only the policy is missed.
DetailPage(t, got) ==
  IF got["policy"] = Failed
  THEN ErrorView("request failed")
  ELSE DetailView(t, OrEmpty(got["domains"]), OrEmpty(got["accounts"]), got["policy"])

\* The rest of tenant_detail_page.
RenderDetail(v) ==
  /\ page[v].pc = "join"
  /\ Joined(page[v].got)
  /\ Renders(v, DetailPage(page[v].tenant, page[v].got))
  /\ UNCHANGED <<desired, email, owner>>

-----------------------------------------------------------------------------
\* The rest of the control plane, meanwhile: a new account lies in a domain that is
\* there.
AccountsNext ==
  \E a \in Accounts :
    \/ \E e \in Emails : e[2] \in DOMAIN domains /\ Lifecycle!Register(a, e)
    \/ \E u \in UserIds : Lifecycle!Activate(a, u)

ConsoleNext ==
  \/ \E v \in Views :
       \/ \E target \in DOMAIN tenants \cup {Index, Unknown} : Open(v, target)
       \/ TenantsAnswered(v)
       \/ TenantsFail(v)
       \/ \E c \in Calls : CallEnds(v, c)
       \/ RenderDetail(v)
  \/ DesiredNext /\ UNCHANGED <<email, owner, page>>
  \/ AccountsNext /\ UNCHANGED <<desired, page>>

ConsoleSpec == ConsoleInit /\ [][ConsoleNext]_consoleVars

-----------------------------------------------------------------------------
IsDetail(v) == page[v].html.view = "detail"
Names(rows) == { r.name : r \in rows }

\* A page of a tenant shows that tenant's rows and no other's (the row-level security
\* of three transactions), and none that is not there; an account with a green badge
\* has its sesame-idam user.
ShowsOwnRows ==
  /\ ConsoleTypeOK
  /\ \A v \in Views :
       IsDetail(v) =>
         /\ page[v].html.tenant = page[v].target
         /\ \A d \in Names(page[v].html.domains) :
              d \in DOMAIN domains /\ domains[d].tenant = page[v].target
         /\ \A r \in page[v].html.accounts :
              \E a \in TenantAccounts(page[v].target) :
                email[a] = r.name /\ (r.badge = "ok" => a \in DOMAIN owner)

\* client.rs: "The console renders desired state".  A page lacks nothing that was there
\* when it was requested, whatever happens between its four reads, unless the very GET
\* that would have read it failed: a failure that unwrap_or_default shows as an empty
\* table empties no other.  So a reload never loses a row, and an account whose domain
\* the page does not show is younger than the request.
CompleteUnlessFailed ==
  \A v \in Views :
    IsDetail(v) =>
      /\ "domains" \in page[v].failed \/ page[v].had.domains \subseteq Names(page[v].html.domains)
      /\ "accounts" \in page[v].failed
           \/ page[v].had.accounts \subseteq Names(page[v].html.accounts)

\* An error page says the truth: a failure is reported only if a GET failed, and a tenant
\* as missing only if the list was read and it was not there when its page was requested;
\* a list that could not be read is no proof that it is not.
ErrorsAreTrue ==
  \A v \in Views :
    page[v].html.view = "error" =>
      IF page[v].html.why = "request failed"
      THEN page[v].failed # {}
      ELSE page[v].failed = {} /\ page[v].target \notin page[v].had.tenants
=============================================================================
