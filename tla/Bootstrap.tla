------------------------------ MODULE Bootstrap ------------------------------
(***************************************************************************)
(* Which fleet an agent starts with: build_agent of                        *)
(* clont/agent/bootstrap.py, with the organization listing of              *)
(* clont/providers/aws/organizations.py.                                   *)
(*                                                                         *)
(* Configured accounts come first, then the members their organizations    *)
(* list, then the on-prem sites, and last the clusters that are priced by  *)
(* one of those.  Every login may be refused and every listing may be cut  *)
(* short, each on its own; start-up is over when the agent runs or has     *)
(* been aborted.                                                           *)
(***************************************************************************)
EXTENDS Integers, FiniteSets, Lists

CONSTANTS
    Configured,  \* the keys of config.aws, in the order of the file
    AccountOf,   \* configured alias -> the account its role is in
    Payers,      \* the configured aliases with a members block
    Org,         \* payer -> what ListAccounts returns: [id, alias, status]
    Include,     \* payer -> members.include, {} for everyone
    Exclude,     \* payer -> members.exclude
    Sites,       \* the keys of config.onprem
    Connected,   \* the sites with an inventory block
    Kubernetes,  \* config.kubernetes: [name, pricedBy]
    MaxRefusals  \* bound on refused logins and failed reads

Priced == ToSet(Configured) \cup ToSet(Sites)

ASSUME PayersAssumption == Payers \subseteq ToSet(Configured) /\ Payers \subseteq DOMAIN Org
ASSUME ConnectedAssumption == Connected \subseteq ToSet(Sites)
\* The validator _clusters_are_priced of core/config.py.
ASSUME ClustersAssumption == \A i \in DOMAIN Kubernetes : Kubernetes[i].pricedBy \in Priced

\* What the file lists and what an organization returns are lists.
ASSUME FleetAssumption ==
    /\ IsList(Configured) /\ IsList(Sites) /\ IsList(Kubernetes)
    /\ \A p \in Payers : IsList(Org[p])
    /\ MaxRefusals \in Nat

VARIABLES
    phase,      \* accounts, members, sites, clusters, running, aborted
    next,       \* the entry of that phase's list it is at
    providers,  \* the providers that came up, in order
    members,    \* the (alias, config) pairs of the organizations, in order
    sources,    \* the clusters that came up: [name, by]
    guests,     \* attach_guest: <<provider, cluster>>
    refused     \* history: who refused a login, as [from, alias, id]

startVars == <<phase, next, providers, members, sources, guests, refused>>

StartTypeOK ==
    /\ phase \in {"accounts", "members", "sites", "clusters", "running", "aborted"}
    /\ next \in 1 .. Len(Configured) + Len(members) + Len(Sites) + Len(Kubernetes) + 1
    /\ \A i \in DOMAIN providers :
         /\ providers[i].from \in {"yaml", "org", "site"}
         /\ providers[i].from = "yaml" => providers[i].alias \in ToSet(Configured)
         /\ providers[i].from = "site" => providers[i].alias \in Connected
    /\ \A i \in DOMAIN sources : sources[i].by \in DOMAIN providers
    /\ \A g \in guests : g[1] \in DOMAIN providers
    /\ Cardinality(refused) <= MaxRefusals

Aws == {i \in DOMAIN providers : providers[i].from # "site"}
OnPrem == DOMAIN providers \ Aws
AliasesUp == {providers[i].alias : i \in Aws}
IdsUp == {providers[i].id : i \in Aws}

----------------------------------------------------------------------------
(* Faulty variants of the definitions below.                                *)

\* Members compared by name alone, and not by the account behind the role.
KnownByAliasOnly(m) == FALSE

\* A login that is refused and ends the list it is in.
SkipTheRest(list) == Len(list) + 1

\* The hook attached before the cluster has been read.
AttachedAnyway(i, name) == IF i \in OnPrem THEN guests \cup {<<i, name>>} ELSE guests

----------------------------------------------------------------------------
StartInit ==
    /\ phase = "accounts"
    /\ next = 1
    /\ providers = <<>>
    /\ members = <<>>
    /\ sources = <<>>
    /\ guests = {}
    /\ refused = {}

Entry(from, alias, id) == [from |-> from, alias |-> alias, id |-> id]

CanRefuse == Cardinality(refused) < MaxRefusals
Refuse(e) == CanRefuse /\ refused' = refused \cup {e}

\* Where a loop goes after an entry that was skipped because its login failed.
AfterRefusal(list) == next + 1

\* A member that is active, asked for and neither excluded nor the payer itself.
Wanted(payer, m) ==
    /\ m.id \notin Exclude[payer] \cup {AccountOf[payer]}
    /\ Include[payer] # {} => m.id \in Include[payer]
    /\ m.status = "ACTIVE"

\* _member_configs: the wanted ones of what the listing returned, in its order.
Members(payer, listed) ==
    FlattenSeq([i \in DOMAIN listed |-> IF Wanted(payer, listed[i]) THEN <<listed[i]>> ELSE <<>>])

\* organizations.accounts: all of it, or what came before the call failed.
Listings(payer) == {SubSeq(Org[payer], 1, n) : n \in 0 .. Len(Org[payer])}

\* A configured account logs in; a payer lists its members at once.
AccountUp ==
    /\ phase = "accounts" /\ next <= Len(Configured)
    /\ LET alias == Configured[next] IN
         /\ providers' = Append(providers, Entry("yaml", alias, AccountOf[alias]))
         /\ IF alias \in Payers
            THEN \E listed \in Listings(alias) : members' = members \o Members(alias, listed)
            ELSE UNCHANGED members
    /\ next' = next + 1
    /\ UNCHANGED <<phase, sources, guests, refused>>

AccountRefused ==
    /\ phase = "accounts" /\ next <= Len(Configured)
    /\ Refuse(Entry("yaml", Configured[next], AccountOf[Configured[next]]))
    /\ next' = AfterRefusal(Configured)
    /\ UNCHANGED <<phase, providers, members, sources, guests>>

AccountsDone ==
    /\ phase = "accounts" /\ next > Len(Configured)
    /\ phase' = "members"
    /\ next' = 1
    /\ UNCHANGED <<providers, members, sources, guests, refused>>

\* An account of that name is up already: the entry of the file keeps it.
TakenAlias(m) == m.alias \in AliasesUp

\* The role logs in to an account that is up already under another name.
KnownAccount(m) == m.id \in IdsUp

MemberSkipped ==
    /\ phase = "members" /\ next <= Len(members)
    /\ TakenAlias(members[next])
    /\ next' = next + 1
    /\ UNCHANGED <<phase, providers, members, sources, guests, refused>>

MemberUp ==
    /\ phase = "members" /\ next <= Len(members)
    /\ LET m == members[next] IN
         /\ ~TakenAlias(m)
         /\ providers' = IF KnownAccount(m) THEN providers
                         ELSE Append(providers, Entry("org", m.alias, m.id))
    /\ next' = next + 1
    /\ UNCHANGED <<phase, members, sources, guests, refused>>

MemberRefused ==
    /\ phase = "members" /\ next <= Len(members)
    /\ ~TakenAlias(members[next])
    /\ Refuse(Entry("org", members[next].alias, members[next].id))
    /\ next' = AfterRefusal(members)
    /\ UNCHANGED <<phase, providers, members, sources, guests>>

\* "no configured accounts could be authenticated"
AwsUp == providers # <<>>

MembersDone ==
    /\ phase = "members" /\ next > Len(members)
    /\ phase' = IF Configured # <<>> /\ ~AwsUp THEN "aborted" ELSE "sites"
    /\ next' = 1
    /\ UNCHANGED <<providers, members, sources, guests, refused>>

SiteUp ==
    /\ phase = "sites" /\ next <= Len(Sites)
    /\ Sites[next] \in Connected
    /\ providers' = Append(providers, Entry("site", Sites[next], Sites[next]))
    /\ next' = next + 1
    /\ UNCHANGED <<phase, members, sources, guests, refused>>

\* Priced, and nothing to read from yet: a warning and not a failure.
SiteUnconnected ==
    /\ phase = "sites" /\ next <= Len(Sites)
    /\ Sites[next] \notin Connected
    /\ next' = next + 1
    /\ UNCHANGED <<phase, providers, members, sources, guests, refused>>

SiteRefused ==
    /\ phase = "sites" /\ next <= Len(Sites)
    /\ Sites[next] \in Connected
    /\ Refuse(Entry("site", Sites[next], Sites[next]))
    /\ next' = AfterRefusal(Sites)
    /\ UNCHANGED <<phase, providers, members, sources, guests>>

\* "no configured on-prem site could be reached"
SitesDone ==
    /\ phase = "sites" /\ next > Len(Sites)
    /\ phase' = IF OnPrem = {} /\ Connected # {} THEN "aborted" ELSE "clusters"
    /\ next' = 1
    /\ UNCHANGED <<providers, members, sources, guests, refused>>

\* by_alias: of two providers of one name, the later one.
Pricing(cluster) ==
    {i \in DOMAIN providers :
        /\ providers[i].alias = cluster.pricedBy
        /\ \A j \in DOMAIN providers : providers[j].alias = cluster.pricedBy => j <= i}

\* attach_guest, which only an on-prem provider has.
Attached(i, name) == IF i \in OnPrem THEN guests \cup {<<i, name>>} ELSE guests
AttachedUnread(i, name) == guests

ClusterUp ==
    /\ phase = "clusters" /\ next <= Len(Kubernetes)
    /\ \E i \in Pricing(Kubernetes[next]) :
         /\ sources' = Append(sources, [name |-> Kubernetes[next].name, by |-> i])
         /\ guests' = Attached(i, Kubernetes[next].name)
    /\ next' = next + 1
    /\ UNCHANGED <<phase, providers, members, refused>>

\* Its provider did not come up.
ClusterUnpriced ==
    /\ phase = "clusters" /\ next <= Len(Kubernetes)
    /\ Pricing(Kubernetes[next]) = {}
    /\ next' = next + 1
    /\ UNCHANGED <<phase, providers, members, sources, guests, refused>>

\* Its nodes cannot be read or mapped.
ClusterRefused ==
    /\ phase = "clusters" /\ next <= Len(Kubernetes)
    /\ Refuse(Entry("cluster", Kubernetes[next].name, Kubernetes[next].name))
    /\ \E i \in Pricing(Kubernetes[next]) : guests' = AttachedUnread(i, Kubernetes[next].name)
    /\ next' = AfterRefusal(Kubernetes)
    /\ UNCHANGED <<phase, providers, members, sources>>

ClustersDone ==
    /\ phase = "clusters" /\ next > Len(Kubernetes)
    /\ phase' = "running"
    /\ UNCHANGED <<next, providers, members, sources, guests, refused>>

StartNext ==
    \/ AccountUp \/ AccountRefused \/ AccountsDone
    \/ MemberSkipped \/ MemberUp \/ MemberRefused \/ MembersDone
    \/ SiteUp \/ SiteUnconnected \/ SiteRefused \/ SitesDone
    \/ ClusterUp \/ ClusterUnpriced \/ ClusterRefused \/ ClustersDone

StartSpec == StartInit /\ [][StartNext]_startVars

----------------------------------------------------------------------------
(* What start-up promises.                                                  *)

\* No account is watched twice because of discovery: a member that is also in
\* the file, under any name, or in two organizations is one provider, or every
\* finding and every metric of it would be counted and billed twice.
NoAccountTwice ==
    \A i, j \in Aws : i < j /\ providers[j].from = "org" =>
        providers[i].alias # providers[j].alias /\ providers[i].id # providers[j].id

\* The agent does not run blind: with accounts in the file at least one is up,
\* with readable sites at least one is, and neither kind stands in for the other.
NotBlind ==
    phase = "running" =>
        /\ Configured # <<>> => Aws # {}
        /\ Connected # {} => OnPrem # {}

\* "one stale account can't take the whole fleet down": whoever was not refused
\* itself is up, whatever happened to the entries around it.
RefusalsStayAlone ==
    phase = "running" =>
        /\ \A a \in ToSet(Configured) :
             (\E i \in Aws : providers[i].alias = a) \/ \E e \in refused : e.alias = a
        /\ \A s \in Connected :
             (\E i \in OnPrem : providers[i].alias = s) \/ \E e \in refused : e.alias = s
        /\ \A k \in DOMAIN members :
             \/ members[k].alias \in AliasesUp \/ members[k].id \in IdsUp
             \/ \E e \in refused : e.id = members[k].id

\* The two together: who is refused stays down, alone, and not all of a kind do.
FleetIsUp == StartTypeOK /\ NotBlind /\ RefusalsStayAlone

\* Whoever may tell a site which of its blocks are spoken for is a cluster that
\* is being read, and every such cluster may: or the storage gap of the site
\* either gives the same blocks back twice or waits for a cluster nobody reads.
GuestsAreSources ==
    phase = "running" =>
        guests = {<<sources[k].by, sources[k].name>> : k \in {l \in DOMAIN sources : sources[l].by \in OnPrem}}

=============================================================================
