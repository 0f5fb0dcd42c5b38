----------------------------- MODULE AgentProofs -----------------------------
(***************************************************************************)
(* The agent process from its start-up on: build_agent, and the cycles of  *)
(* the agent it has built.                                                 *)
(*                                                                         *)
(* Start-up, for every file, every organization and every pattern of       *)
(* refused logins: no account is watched twice, whoever was not refused is *)
(* up when the agent runs, and the guests of a site are the clusters that  *)
(* are read.  The invariant says what each phase has left behind: every    *)
(* entry before the cursor is up or refused, what is up and what is        *)
(* refused only grows, and no phase touches what an earlier one decided.   *)
(*                                                                         *)
(* A cycle, for every fleet, every collector and every pattern of failing  *)
(* calls: its batch holds what the memo holds, each finding once, and the  *)
(* local events come before the server's.  The invariant follows the batch *)
(* through the plan: of the tasks that are done it holds the value or the  *)
(* error, of those to come it holds nothing yet, and its lists are those   *)
(* of the values it holds.  Because no spend is planned after a cluster, a *)
(* split once taken is the split of all.                                   *)
(***************************************************************************)
EXTENDS Bootstrap, Cycle, DataInduction

----------------------------------------------------------------------------
(* Start-up.                                                                *)

Listed == UNION {ToSet(Org[p]) : p \in Payers}

Provider ==
    {Entry("yaml", a, AccountOf[a]) : a \in ToSet(Configured)}
        \cup {Entry("org", m.alias, m.id) : m \in Listed}
        \cup {Entry("site", s, s) : s \in Connected}

SeqsOK ==
    /\ providers \in Seq(Provider)
    /\ members \in Seq(Listed)
    /\ sources \in Seq([name : {Kubernetes[k].name : k \in DOMAIN Kubernetes}, by : Nat])

StageOK ==
    /\ phase \in {"accounts", "members", "sites", "clusters", "running", "aborted"}
    /\ next \in Nat \ {0}
    /\ phase = "accounts" => next <= Len(Configured) + 1
    /\ phase = "members" => next <= Len(members) + 1
    /\ phase = "sites" => next <= Len(Sites) + 1
    /\ phase \in {"clusters", "running"} => next <= Len(Kubernetes) + 1
    /\ phase = "aborted" => next = 1

BooksOK == IsFiniteSet(refused) /\ Cardinality(refused) <= MaxRefusals

\* Whoever a loop has passed is up, or was refused.
AccountSeen(a) == (\E i \in Aws : providers[i].alias = a) \/ \E e \in refused : e.alias = a
SiteSeen(s) == (\E i \in OnPrem : providers[i].alias = s) \/ \E e \in refused : e.alias = s
MemberSeen(m) == m.alias \in AliasesUp \/ m.id \in IdsUp \/ \E e \in refused : e.id = m.id

SeenOK ==
    /\ \A k \in 1 .. Len(Configured) :
         (phase = "accounts" /\ k < next) \/ phase \in {"members", "sites", "clusters", "running"}
            => AccountSeen(Configured[k])
    /\ \A k \in 1 .. Len(members) :
         (phase = "members" /\ k < next) \/ phase \in {"sites", "clusters", "running"}
            => MemberSeen(members[k])
    /\ \A k \in 1 .. Len(Sites) :
         ((phase = "sites" /\ k < next) \/ phase \in {"clusters", "running"}) /\ Sites[k] \in Connected
            => SiteSeen(Sites[k])

\* The check that ended a phase still holds: a site cannot stand in for an account.
NotBlindOK ==
    /\ phase \in {"accounts", "members"} => OnPrem = {}
    /\ phase \in {"sites", "clusters", "running"} /\ Configured # <<>> => Aws # {}
    /\ phase \in {"clusters", "running"} /\ Connected # {} => OnPrem # {}

GuestsOK ==
    /\ phase \in {"accounts", "members", "sites"} => sources = <<>> /\ guests = {}
    /\ \A k \in DOMAIN sources : sources[k].by \in DOMAIN providers
    /\ guests = {<<sources[k].by, sources[k].name>> :
                    k \in {l \in DOMAIN sources : sources[l].by \in OnPrem}}

StartIInv == SeqsOK /\ StageOK /\ BooksOK /\ SeenOK /\ NotBlindOK /\ GuestsOK /\ NoAccountTwice


----------------------------------------------------------------------------
(* The lists.                                                               *)

\* What a payer adds to the fleet was returned by its listing.
LEMMA MembersListed ==
    ASSUME NEW payer \in Payers, NEW listed \in Listings(payer)
    PROVE  Members(payer, listed) \in Seq(Listed)
<1> DEFINE org == Org[payer]
           ss == [i \in DOMAIN listed |-> IF Wanted(payer, listed[i]) THEN <<listed[i]>> ELSE <<>>]
<1>1. org \in Seq(ToSet(org))
  BY FleetAssumption DEF IsList
<1>2. PICK n \in 0 .. Len(org) : listed = SubSeq(org, 1, n)
  BY DEF Listings
<1>3. listed \in Seq(Listed)
  <2>1. org \in Seq(Listed)
    <3>1. ToSet(org) \subseteq Listed
      BY DEF Listed
    <3> HIDE DEF org
    <3> QED BY <1>1, <3>1
  <2> HIDE DEF org
  <2> QED BY <1>2, <2>1
<1>4. ss \in Seq(Seq(Listed))
  <2>1. ASSUME NEW i \in 1 .. Len(listed)
        PROVE  (IF Wanted(payer, listed[i]) THEN <<listed[i]>> ELSE <<>>) \in Seq(Listed)
    BY <1>3
  <2>2. DOMAIN listed = 1 .. Len(listed) /\ Len(listed) \in Nat
    BY <1>3
  <2>3. ss \in [1 .. Len(listed) -> Seq(Listed)]
    BY <2>1, <2>2
  <2> HIDE DEF ss
  <2> QED BY <2>2, <2>3
<1>5. FlattenSeq(ss) \in Seq(Listed)
  <2> HIDE DEF ss
  <2> QED BY <1>4, FlattenProperties
<1> QED BY <1>5 DEF Members

\* A provider more: everything that was up is where it was.
LEMMA OneMore ==
    ASSUME SeqsOK, NEW e \in Provider, providers' = Append(providers, e)
    PROVE  /\ providers' \in Seq(Provider)
           /\ DOMAIN providers = 1 .. Len(providers)
           /\ DOMAIN providers' = 1 .. Len(providers) + 1
           /\ Len(providers) \in Nat
           /\ \A i \in 1 .. Len(providers) : providers'[i] = providers[i]
           /\ providers'[Len(providers) + 1] = e
<1>1. providers \in Seq(Provider)
  BY DEF SeqsOK
<1> HIDE DEF SeqsOK
<1> QED BY <1>1

LEMMA OneMoreOfAKind ==
    ASSUME SeqsOK, NEW e \in Provider, providers' = Append(providers, e)
    PROVE  /\ Aws' = IF e.from = "site" THEN Aws ELSE Aws \cup {Len(providers) + 1}
           /\ OnPrem' = IF e.from = "site" THEN OnPrem \cup {Len(providers) + 1} ELSE OnPrem
<1> USE OneMore
<1>1. Aws' = IF e.from = "site" THEN Aws ELSE Aws \cup {Len(providers) + 1}
  BY DEF Aws
<1>2. OnPrem' = IF e.from = "site" THEN OnPrem \cup {Len(providers) + 1} ELSE OnPrem
  BY DEF OnPrem, Aws
<1> QED BY <1>1, <1>2

\* Nothing that is up goes down and no refusal is forgotten.
Grows ==
    /\ providers' = providers \/ \E e \in Provider : providers' = Append(providers, e)
    /\ refused \subseteq refused'

LEMMA Kept ==
    ASSUME SeqsOK, Grows
    PROVE  /\ Aws \subseteq Aws' /\ OnPrem \subseteq OnPrem'
           /\ \A a : AccountSeen(a) => AccountSeen(a)'
           /\ \A s : SiteSeen(s) => SiteSeen(s)'
           /\ \A m : MemberSeen(m) => MemberSeen(m)'
<1>1. /\ DOMAIN providers \subseteq DOMAIN providers'
      /\ \A i \in DOMAIN providers : providers'[i] = providers[i]
  <2>1. CASE providers' = providers
    BY <2>1
  <2>2. CASE \E e \in Provider : providers' = Append(providers, e)
    BY <2>2, OneMore
  <2> QED BY <2>1, <2>2 DEF Grows
<1>2. Aws \subseteq Aws' /\ OnPrem \subseteq OnPrem'
  BY <1>1 DEF Aws, OnPrem
<1>3. \A i \in Aws \cup OnPrem : providers'[i] = providers[i]
  BY <1>1 DEF Aws, OnPrem
<1>4. refused \subseteq refused'
  BY DEF Grows
<1>5. \A a : AccountSeen(a) => AccountSeen(a)'
  BY <1>2, <1>3, <1>4 DEF AccountSeen
<1>6. \A s : SiteSeen(s) => SiteSeen(s)'
  BY <1>2, <1>3, <1>4 DEF SiteSeen
<1>7. AliasesUp \subseteq AliasesUp' /\ IdsUp \subseteq IdsUp'
  BY <1>2, <1>3 DEF AliasesUp, IdsUp
<1>8. \A m : MemberSeen(m) => MemberSeen(m)'
  BY <1>4, <1>7 DEF MemberSeen
<1> QED BY <1>2, <1>5, <1>6, <1>8

----------------------------------------------------------------------------
(* One step, and one part of the invariant after the other.                 *)

LEMMA FileOfLists ==
    /\ Configured \in Seq(ToSet(Configured)) /\ Len(Configured) \in Nat
    /\ Sites \in Seq(ToSet(Sites)) /\ Len(Sites) \in Nat
    /\ Kubernetes \in Seq(ToSet(Kubernetes)) /\ Len(Kubernetes) \in Nat
    /\ DOMAIN Configured = 1 .. Len(Configured)
    /\ DOMAIN Sites = 1 .. Len(Sites)
    /\ DOMAIN Kubernetes = 1 .. Len(Kubernetes)
BY FleetAssumption DEF IsList

LEMMA StartInitHolds == StartInit => StartIInv
<1> SUFFICES ASSUME StartInit PROVE StartIInv
  OBVIOUS
<1> USE FileOfLists DEF StartInit
<1>1. SeqsOK /\ StageOK
  BY DEF SeqsOK, StageOK
<1>2. BooksOK
  BY FleetAssumption, FS_EmptySet DEF BooksOK
<1>3. Aws = {} /\ OnPrem = {}
  BY DEF Aws, OnPrem
<1>4. SeenOK /\ NotBlindOK /\ NoAccountTwice
  BY <1>3 DEF SeenOK, NotBlindOK, NoAccountTwice
<1>5. GuestsOK
  BY DEF GuestsOK
<1> QED BY <1>1, <1>2, <1>4, <1>5 DEF StartIInv

\* The new provider of a step, where the step brings one up.
NewAccount == Entry("yaml", Configured[next], AccountOf[Configured[next]])
NewMember == Entry("org", members[next].alias, members[next].id)
NewSite == Entry("site", Sites[next], Sites[next])

LEMMA NewOnes ==
    ASSUME SeqsOK, StageOK
    PROVE  /\ next <= Len(Configured) => NewAccount \in Provider
           /\ next <= Len(members) => NewMember \in Provider
           /\ next <= Len(Sites) /\ Sites[next] \in Connected => NewSite \in Provider
<1>1. next \in Nat \ {0}
  BY DEF StageOK
<1>2. ASSUME next <= Len(Configured) PROVE NewAccount \in Provider
  <2>1. Configured[next] \in ToSet(Configured)
    BY <1>1, <1>2, FileOfLists
  <2> QED BY <2>1 DEF Provider, NewAccount
<1>3. ASSUME next <= Len(members) PROVE NewMember \in Provider
  <2>1. members[next] \in Listed
    BY <1>1, <1>3 DEF SeqsOK
  <2> QED BY <2>1 DEF Provider, NewMember
<1>4. ASSUME next <= Len(Sites), Sites[next] \in Connected PROVE NewSite \in Provider
  BY <1>4 DEF Provider, NewSite
<1> QED BY <1>2, <1>3, <1>4

LEMMA StepGrows ==
    ASSUME SeqsOK, StageOK, StartNext
    PROVE  Grows
<1>1. CASE AccountUp
  BY <1>1, NewOnes DEF AccountUp, Grows, NewAccount
<1>2. CASE MemberUp
  BY <1>2, NewOnes DEF MemberUp, Grows, NewMember
<1>3. CASE SiteUp
  BY <1>3, NewOnes DEF SiteUp, Grows, NewSite
<1>4. CASE AccountRefused \/ MemberRefused \/ SiteRefused \/ ClusterRefused
  BY <1>4 DEF AccountRefused, MemberRefused, SiteRefused, ClusterRefused, Refuse, Grows
<1>5. CASE AccountsDone \/ MemberSkipped \/ MembersDone \/ SiteUnconnected \/ SitesDone
            \/ ClusterUp \/ ClusterUnpriced \/ ClustersDone
  BY <1>5 DEF AccountsDone, MemberSkipped, MembersDone, SiteUnconnected, SitesDone,
              ClusterUp, ClusterUnpriced, ClustersDone, Grows
<1> QED BY <1>1, <1>2, <1>3, <1>4, <1>5 DEF StartNext

LEMMA SeqsStep ==
    ASSUME SeqsOK, StageOK, StartNext
    PROVE  SeqsOK'
<1> DEFINE Source == [name : {Kubernetes[k].name : k \in DOMAIN Kubernetes}, by : Nat]
<1>1. providers' \in Seq(Provider)
  <2>1. CASE providers' = providers
    BY <2>1 DEF SeqsOK
  <2>2. CASE \E e \in Provider : providers' = Append(providers, e)
    BY <2>2, OneMore
  <2> QED BY <2>1, <2>2, StepGrows DEF Grows
<1>2. members' \in Seq(Listed)
  <2>1. CASE AccountUp
    <3> DEFINE alias == Configured[next]
    <3>1. CASE alias \in Payers
      <4>1. PICK listed \in Listings(alias) : members' = members \o Members(alias, listed)
        BY <2>1, <3>1 DEF AccountUp
      <4>2. Members(alias, listed) \in Seq(Listed)
        BY <3>1, MembersListed
      <4> QED BY <4>1, <4>2 DEF SeqsOK
    <3>2. CASE alias \notin Payers
      BY <2>1, <3>2 DEF AccountUp, SeqsOK
    <3> QED BY <3>1, <3>2
  <2>2. CASE ~AccountUp
    <3>1. members' = members
      BY <2>2 DEF StartNext, AccountRefused, AccountsDone, MemberSkipped, MemberUp, MemberRefused,
                  MembersDone, SiteUp, SiteUnconnected, SiteRefused, SitesDone, ClusterUp,
                  ClusterUnpriced, ClusterRefused, ClustersDone
    <3> QED BY <3>1 DEF SeqsOK
  <2> QED BY <2>1, <2>2
<1>3. sources' \in Seq(Source)
  <2>1. CASE ClusterUp
    <3>1. PICK i \in Pricing(Kubernetes[next]) :
             sources' = Append(sources, [name |-> Kubernetes[next].name, by |-> i])
      BY <2>1 DEF ClusterUp
    <3>2. i \in Nat
      BY DEF Pricing, SeqsOK
    <3>3. next \in DOMAIN Kubernetes
      BY <2>1, FileOfLists DEF ClusterUp, StageOK
    <3>4. [name |-> Kubernetes[next].name, by |-> i] \in Source
      BY <3>2, <3>3
    <3> QED BY <3>1, <3>4 DEF SeqsOK
  <2>2. CASE ~ClusterUp
    <3>1. sources' = sources
      BY <2>2 DEF StartNext, AccountUp, AccountRefused, AccountsDone, MemberSkipped, MemberUp,
                  MemberRefused, MembersDone, SiteUp, SiteUnconnected, SiteRefused, SitesDone,
                  ClusterUnpriced, ClusterRefused, ClustersDone
    <3> QED BY <3>1 DEF SeqsOK
  <2> QED BY <2>1, <2>2
<1> QED BY <1>1, <1>2, <1>3 DEF SeqsOK

LEMMA StageStep ==
    ASSUME SeqsOK, StageOK, StartNext
    PROVE  StageOK'
<1> USE FileOfLists DEF StageOK, AfterRefusal
<1>1. Len(members) \in Nat /\ Len(members') \in Nat
  BY SeqsStep DEF SeqsOK
<1>2. CASE AccountUp \/ AccountRefused \/ AccountsDone
  BY <1>1, <1>2 DEF AccountUp, AccountRefused, AccountsDone
<1>3. CASE MemberSkipped \/ MemberUp \/ MemberRefused \/ MembersDone
  BY <1>1, <1>3 DEF MemberSkipped, MemberUp, MemberRefused, MembersDone
<1>4. CASE SiteUp \/ SiteUnconnected \/ SiteRefused \/ SitesDone
  BY <1>4 DEF SiteUp, SiteUnconnected, SiteRefused, SitesDone
<1>5. CASE ClusterUp \/ ClusterUnpriced \/ ClusterRefused \/ ClustersDone
  BY <1>5 DEF ClusterUp, ClusterUnpriced, ClusterRefused, ClustersDone
<1> QED BY <1>2, <1>3, <1>4, <1>5 DEF StartNext

LEMMA BooksStep ==
    ASSUME BooksOK, StartNext
    PROVE  BooksOK'
<1>1. ASSUME NEW e, Refuse(e) PROVE BooksOK'
  <2>1. IsFiniteSet(refused) /\ Cardinality(refused) < MaxRefusals /\ refused' = refused \cup {e}
    BY <1>1 DEF BooksOK, Refuse, CanRefuse
  <2>2. /\ IsFiniteSet(refused \cup {e})
        /\ Cardinality(refused \cup {e}) \in {Cardinality(refused), Cardinality(refused) + 1}
    BY <2>1, FS_AddElement
  <2>3. Cardinality(refused) \in Nat
    BY <2>1, FS_CardinalityType
  <2> QED BY <2>1, <2>2, <2>3, FleetAssumption DEF BooksOK
<1>2. CASE AccountRefused \/ MemberRefused \/ SiteRefused \/ ClusterRefused
  BY <1>1, <1>2 DEF AccountRefused, MemberRefused, SiteRefused, ClusterRefused
<1>3. CASE ~(AccountRefused \/ MemberRefused \/ SiteRefused \/ ClusterRefused)
  <2>1. refused' = refused
    BY <1>3 DEF StartNext, AccountUp, AccountsDone, MemberSkipped, MemberUp, MembersDone, SiteUp,
                SiteUnconnected, SitesDone, ClusterUp, ClusterUnpriced, ClustersDone
  <2> QED BY <2>1 DEF BooksOK
<1> QED BY <1>2, <1>3

\* Whoever a step passes is up or refused after it.
LEMMA PassedIsSeen ==
    ASSUME SeqsOK, StageOK, StartNext
    PROVE  /\ \A a : a = Configured[next] /\ (AccountUp \/ AccountRefused) => AccountSeen(a)'
           /\ \A m : m = members[next] /\ (MemberSkipped \/ MemberUp \/ MemberRefused)
                        => MemberSeen(m)'
           /\ \A s : s = Sites[next] /\ (SiteUp \/ SiteRefused) => SiteSeen(s)'
<1>1. ASSUME NEW a, a = Configured[next], AccountUp PROVE AccountSeen(a)'
  <2>1. NewAccount \in Provider /\ providers' = Append(providers, NewAccount)
    BY <1>1, NewOnes DEF AccountUp, NewAccount
  <2>2. NewAccount.from = "yaml" /\ NewAccount.alias = a
    BY <1>1 DEF NewAccount, Entry
  <2>3. Len(providers) + 1 \in Aws' /\ providers'[Len(providers) + 1].alias = a
    BY <2>1, <2>2, OneMore, OneMoreOfAKind
  <2> QED BY <2>3 DEF AccountSeen
<1>2. ASSUME NEW a, a = Configured[next], AccountRefused PROVE AccountSeen(a)'
  <2>1. NewAccount \in refused' /\ NewAccount.alias = a
    BY <1>2 DEF AccountRefused, Refuse, NewAccount, Entry
  <2> QED BY <2>1 DEF AccountSeen
<1>3. ASSUME NEW m, m = members[next], MemberSkipped PROVE MemberSeen(m)'
  <2>1. MemberSeen(m)
    BY <1>3 DEF MemberSkipped, TakenAlias, MemberSeen
  <2> QED BY <2>1, StepGrows, Kept
<1>4. ASSUME NEW m, m = members[next], MemberUp PROVE MemberSeen(m)'
  <2>1. CASE KnownAccount(m)
    <3>1. MemberSeen(m)
      BY <2>1 DEF KnownAccount, MemberSeen
    <3> QED BY <3>1, StepGrows, Kept
  <2>2. CASE ~KnownAccount(m)
    <3>1. NewMember \in Provider /\ providers' = Append(providers, NewMember)
      BY <1>4, <2>2, NewOnes DEF MemberUp, NewMember
    <3>2. NewMember.from = "org" /\ NewMember.id = m.id
      BY <1>4 DEF NewMember, Entry
    <3>3. Len(providers) + 1 \in Aws' /\ providers'[Len(providers) + 1].id = m.id
      BY <3>1, <3>2, OneMore, OneMoreOfAKind
    <3> QED BY <3>3 DEF MemberSeen, IdsUp
  <2> QED BY <2>1, <2>2
<1>5. ASSUME NEW m, m = members[next], MemberRefused PROVE MemberSeen(m)'
  <2>1. NewMember \in refused' /\ NewMember.id = m.id
    BY <1>5 DEF MemberRefused, Refuse, NewMember, Entry
  <2> QED BY <2>1 DEF MemberSeen
<1>6. ASSUME NEW s, s = Sites[next], SiteUp PROVE SiteSeen(s)'
  <2>1. NewSite \in Provider /\ providers' = Append(providers, NewSite)
    BY <1>6, NewOnes DEF SiteUp, NewSite
  <2>2. NewSite.from = "site" /\ NewSite.alias = s
    BY <1>6 DEF NewSite, Entry
  <2>3. Len(providers) + 1 \in OnPrem' /\ providers'[Len(providers) + 1].alias = s
    BY <2>1, <2>2, OneMore, OneMoreOfAKind
  <2> QED BY <2>3 DEF SiteSeen
<1>7. ASSUME NEW s, s = Sites[next], SiteRefused PROVE SiteSeen(s)'
  <2>1. NewSite \in refused' /\ NewSite.alias = s
    BY <1>7 DEF SiteRefused, Refuse, NewSite, Entry
  <2> QED BY <2>1 DEF SiteSeen
<1> QED BY <1>1, <1>2, <1>3, <1>4, <1>5, <1>6, <1>7

LEMMA SeenStep ==
    ASSUME SeqsOK, StageOK, SeenOK, StartNext
    PROVE  SeenOK'
<1> USE FileOfLists DEF AfterRefusal
<1>1. next \in Nat \ {0} /\ Len(members) \in Nat
  BY DEF StageOK, SeqsOK
<1>2. /\ \A a : AccountSeen(a) => AccountSeen(a)'
      /\ \A s : SiteSeen(s) => SiteSeen(s)'
      /\ \A m : MemberSeen(m) => MemberSeen(m)'
  BY StepGrows, Kept
<1>3. ASSUME NEW k \in 1 .. Len(Configured),
             (phase' = "accounts" /\ k < next') \/ phase' \in {"members", "sites", "clusters", "running"}
      PROVE  AccountSeen(Configured[k])'
  <2>1. \/ (phase = "accounts" /\ k < next) \/ phase \in {"members", "sites", "clusters", "running"}
        \/ k = next /\ (AccountUp \/ AccountRefused)
    <3>1. CASE AccountUp \/ AccountRefused
      <4>1. next' = next + 1 /\ phase = "accounts" /\ phase' = phase
        BY <3>1 DEF AccountUp, AccountRefused
      <4> QED BY <4>1, <1>1, <1>3, <3>1
    <3>3. CASE AccountsDone
      BY <1>1, <3>3 DEF AccountsDone
    <3>2. CASE ~(AccountUp \/ AccountRefused \/ AccountsDone)
      BY <3>2 DEF StartNext, MemberSkipped, MemberUp, MemberRefused, MembersDone, SiteUp,
                  SiteUnconnected, SiteRefused, SitesDone, ClusterUp, ClusterUnpriced,
                  ClusterRefused, ClustersDone
    <3> QED BY <3>1, <3>2, <3>3
  <2> DEFINE a == Configured[k]
  <2>2. AccountSeen(a) \/ (a = Configured[next] /\ (AccountUp \/ AccountRefused))
    BY <2>1 DEF SeenOK
  <2> QED BY <2>2, <1>2, PassedIsSeen
<1>4. ASSUME NEW k \in 1 .. Len(members'),
             (phase' = "members" /\ k < next') \/ phase' \in {"sites", "clusters", "running"}
      PROVE  MemberSeen(members[k])'
  <2>1. /\ members' = members
        /\ \/ (phase = "members" /\ k < next) \/ phase \in {"sites", "clusters", "running"}
           \/ k = next /\ (MemberSkipped \/ MemberUp \/ MemberRefused)
    BY <1>1, <1>4 DEF StartNext, AccountUp, AccountRefused, AccountsDone, MemberSkipped, MemberUp,
                MemberRefused, MembersDone, SiteUp, SiteUnconnected, SiteRefused, SitesDone,
                ClusterUp, ClusterUnpriced, ClusterRefused, ClustersDone
  <2>2. PICK m : m = members[k]
    OBVIOUS
  <2>3. MemberSeen(m) \/ (m = members[next] /\ (MemberSkipped \/ MemberUp \/ MemberRefused))
    BY <2>1, <2>2, <1>4 DEF SeenOK
  <2>4. MemberSeen(m)'
    BY <2>3, <1>2, PassedIsSeen
  <2> QED BY <2>1, <2>2, <2>4 DEF MemberSeen
<1>5. ASSUME NEW k \in 1 .. Len(Sites), Sites[k] \in Connected,
             (phase' = "sites" /\ k < next') \/ phase' \in {"clusters", "running"}
      PROVE  SiteSeen(Sites[k])'
  <2>1. \/ (phase = "sites" /\ k < next) \/ phase \in {"clusters", "running"}
        \/ k = next /\ (SiteUp \/ SiteRefused)
    BY <1>1, <1>5 DEF StartNext, AccountUp, AccountRefused, AccountsDone, MemberSkipped, MemberUp,
                MemberRefused, MembersDone, SiteUp, SiteUnconnected, SiteRefused, SitesDone,
                ClusterUp, ClusterUnpriced, ClusterRefused, ClustersDone
  <2> DEFINE s == Sites[k]
  <2>2. SiteSeen(s) \/ (s = Sites[next] /\ (SiteUp \/ SiteRefused))
    BY <2>1, <1>5 DEF SeenOK
  <2> QED BY <2>2, <1>2, PassedIsSeen
<1> QED BY <1>3, <1>4, <1>5 DEF SeenOK

LEMMA NotBlindStep ==
    ASSUME SeqsOK, StageOK, NotBlindOK, StartNext
    PROVE  NotBlindOK'
<1>1. Aws \subseteq Aws' /\ OnPrem \subseteq OnPrem'
  BY StepGrows, Kept
<1>2. ASSUME phase' \in {"accounts", "members"} PROVE OnPrem' = {}
  <2>1. OnPrem = {}
    BY <1>2 DEF NotBlindOK, StartNext, AccountUp, AccountRefused, AccountsDone, MemberSkipped, MemberUp,
                MemberRefused, MembersDone, SiteUp, SiteUnconnected, SiteRefused, SitesDone,
                ClusterUp, ClusterUnpriced, ClusterRefused, ClustersDone
  <2>2. CASE AccountUp
    <3>1. NewAccount \in Provider /\ providers' = Append(providers, NewAccount)
      BY <2>2, NewOnes DEF AccountUp, NewAccount
    <3> QED BY <2>1, <3>1, OneMoreOfAKind DEF NewAccount, Entry
  <2>3. CASE MemberUp
    <3>1. CASE providers' = providers
      BY <2>1, <3>1 DEF OnPrem, Aws
    <3>2. CASE providers' # providers
      <4>1. NewMember \in Provider /\ providers' = Append(providers, NewMember)
        BY <2>3, <3>2, NewOnes DEF MemberUp, NewMember
      <4> QED BY <2>1, <4>1, OneMoreOfAKind DEF NewMember, Entry
    <3> QED BY <3>1, <3>2
  <2>4. CASE ~(AccountUp \/ MemberUp)
    <3>1. providers' = providers
      BY <1>2, <2>4 DEF StartNext, AccountRefused, AccountsDone, MemberSkipped, MemberRefused,
                MembersDone, SiteUp, SiteUnconnected, SiteRefused, SitesDone,
                ClusterUp, ClusterUnpriced, ClusterRefused, ClustersDone
    <3> QED BY <2>1, <3>1 DEF OnPrem, Aws
  <2> QED BY <2>2, <2>3, <2>4
<1>3. ASSUME phase' \in {"sites", "clusters", "running"}, Configured # <<>> PROVE Aws' # {}
  <2>1. CASE MembersDone
    <3>1. providers # <<>> /\ OnPrem = {}
      BY <1>3, <2>1 DEF MembersDone, AwsUp, NotBlindOK
    <3>2. 1 \in DOMAIN providers
      BY <3>1 DEF SeqsOK
    <3>3. Aws # {}
      BY <3>1, <3>2 DEF OnPrem
    <3> QED BY <1>1, <3>3
  <2>2. CASE ~MembersDone
    <3>1. phase \in {"sites", "clusters", "running"}
      BY <1>3, <2>2 DEF StartNext, AccountUp, AccountRefused, AccountsDone, MemberSkipped, MemberUp,
                MemberRefused, SiteUp, SiteUnconnected, SiteRefused, SitesDone,
                ClusterUp, ClusterUnpriced, ClusterRefused, ClustersDone
    <3> QED BY <1>1, <1>3, <3>1 DEF NotBlindOK
  <2> QED BY <2>1, <2>2
<1>4. ASSUME phase' \in {"clusters", "running"}, Connected # {} PROVE OnPrem' # {}
  <2>1. CASE SitesDone
    BY <1>1, <1>4, <2>1 DEF SitesDone
  <2>2. CASE ~SitesDone
    <3>1. phase \in {"clusters", "running"}
      BY <1>4, <2>2 DEF StartNext, AccountUp, AccountRefused, AccountsDone, MemberSkipped, MemberUp,
                MemberRefused, MembersDone, SiteUp, SiteUnconnected, SiteRefused,
                ClusterUp, ClusterUnpriced, ClusterRefused, ClustersDone
    <3> QED BY <1>1, <1>4, <3>1 DEF NotBlindOK
  <2> QED BY <2>1, <2>2
<1> QED BY <1>2, <1>3, <1>4 DEF NotBlindOK


LEMMA GuestsStep ==
    ASSUME SeqsOK, StageOK, GuestsOK, StartNext
    PROVE  GuestsOK'
<1>1. CASE ClusterUp
  <2>1. PICK i \in Pricing(Kubernetes[next]) :
           /\ sources' = Append(sources, [name |-> Kubernetes[next].name, by |-> i])
           /\ guests' = Attached(i, Kubernetes[next].name)
    BY <1>1 DEF ClusterUp
  <2>2. providers' = providers /\ phase' = "clusters" /\ OnPrem' = OnPrem
    BY <1>1 DEF ClusterUp, OnPrem, Aws
  <2>3. i \in DOMAIN providers
    BY DEF Pricing
  <2>4. PICK s : s = [name |-> Kubernetes[next].name, by |-> i]
    OBVIOUS
  <2>5. /\ Len(sources) \in Nat
        /\ DOMAIN sources = 1 .. Len(sources)
        /\ DOMAIN sources' = 1 .. Len(sources) + 1
        /\ \A l \in 1 .. Len(sources) : sources'[l] = sources[l]
        /\ sources'[Len(sources) + 1] = s
    BY <2>1, <2>4 DEF SeqsOK
  <2>6. guests = {<<sources[k].by, sources[k].name>> : k \in {l \in DOMAIN sources : sources[l].by \in OnPrem}}
    BY DEF GuestsOK
  <2>7. \A k \in DOMAIN sources' : sources'[k].by \in DOMAIN providers
    BY <2>3, <2>4, <2>5 DEF GuestsOK
  <2>8. guests' = {<<sources'[k].by, sources'[k].name>> :
                      k \in {l \in DOMAIN sources' : sources'[l].by \in OnPrem}}
    <3>1. CASE i \in OnPrem
      <4>1. guests' = guests \cup {<<s.by, s.name>>}
        BY <2>1, <2>4, <3>1 DEF Attached
      <4>2. {l \in DOMAIN sources' : sources'[l].by \in OnPrem}
              = {l \in DOMAIN sources : sources[l].by \in OnPrem} \cup {Len(sources) + 1}
        BY <2>4, <2>5, <3>1
      <4> QED BY <2>5, <2>6, <4>1, <4>2
    <3>2. CASE i \notin OnPrem
      <4>1. guests' = guests
        BY <2>1, <3>2 DEF Attached
      <4>2. {l \in DOMAIN sources' : sources'[l].by \in OnPrem}
              = {l \in DOMAIN sources : sources[l].by \in OnPrem}
        BY <2>4, <2>5, <3>2
      <4> QED BY <2>5, <2>6, <4>1, <4>2
    <3> QED BY <3>1, <3>2
  <2> QED BY <2>2, <2>7, <2>8 DEF GuestsOK
<1>2. CASE ~ClusterUp
  <2>1. sources' = sources /\ guests' = guests
    BY <1>2 DEF StartNext, AccountUp, AccountRefused, AccountsDone, MemberSkipped, MemberUp,
                MemberRefused, MembersDone, SiteUp, SiteUnconnected, SiteRefused, SitesDone,
                ClusterUnpriced, ClusterRefused, ClustersDone, AttachedUnread
  <2>2. CASE providers' = providers
    <3>1. OnPrem' = OnPrem
      BY <2>2 DEF OnPrem, Aws
    <3>2. phase' \in {"accounts", "members", "sites"} => phase \in {"accounts", "members", "sites"}
      BY <1>2 DEF StartNext, AccountUp, AccountRefused, AccountsDone, MemberSkipped, MemberUp,
                MemberRefused, MembersDone, SiteUp, SiteUnconnected, SiteRefused, SitesDone,
                ClusterUnpriced, ClusterRefused, ClustersDone
    <3> QED BY <2>1, <2>2, <3>1, <3>2 DEF GuestsOK
  <2>3. CASE providers' # providers
    <3>1. phase \in {"accounts", "members", "sites"}
      BY <1>2, <2>3 DEF StartNext, AccountUp, AccountRefused, AccountsDone, MemberSkipped, MemberUp,
                MemberRefused, MembersDone, SiteUp, SiteUnconnected, SiteRefused, SitesDone,
                ClusterUnpriced, ClusterRefused, ClustersDone
    <3> QED BY <2>1, <3>1 DEF GuestsOK
  <2> QED BY <2>2, <2>3
<1> QED BY <1>1, <1>2

\* Only a member is compared, and only with what is up when its turn comes.
LEMMA TwiceStep ==
    ASSUME SeqsOK, StageOK, NoAccountTwice, StartNext
    PROVE  NoAccountTwice'
<1>1. CASE providers' = providers
  BY <1>1 DEF NoAccountTwice, Aws
<1>2. ASSUME NEW e \in Provider, providers' = Append(providers, e), e.from # "org"
      PROVE  NoAccountTwice'
  BY <1>2, OneMore, OneMoreOfAKind DEF NoAccountTwice, Aws
<1>3. CASE MemberUp /\ providers' # providers
  <2>1. NewMember \in Provider /\ providers' = Append(providers, NewMember)
    BY <1>3, NewOnes DEF MemberUp, NewMember
  <2>2. NewMember.alias \notin AliasesUp /\ NewMember.id \notin IdsUp
    BY <1>3 DEF MemberUp, NewMember, Entry, TakenAlias, KnownAccount
  <2>3. \A i \in Aws : providers[i].alias # NewMember.alias /\ providers[i].id # NewMember.id
    BY <2>2 DEF AliasesUp, IdsUp
  <2>4. Aws \subseteq 1 .. Len(providers)
    BY <2>1, OneMore DEF Aws
  <2>5. SUFFICES ASSUME NEW i \in Aws', NEW j \in Aws', i < j, providers'[j].from = "org"
                 PROVE  /\ providers'[i].alias # providers'[j].alias
                        /\ providers'[i].id # providers'[j].id
    BY DEF NoAccountTwice
  <2>6. i \in Aws /\ (j \in Aws \/ j = Len(providers) + 1)
    <3>1. Aws' = Aws \cup {Len(providers) + 1}
      BY <2>1, OneMoreOfAKind DEF NewMember, Entry
    <3>2. Len(providers) \in Nat
      BY <2>1, OneMore
    <3>3. Len(providers) + 1 \notin Aws
      BY <2>4, <3>2
    <3>4. i # Len(providers) + 1
      <4>1. SUFFICES ASSUME i = Len(providers) + 1 PROVE FALSE
        OBVIOUS
      <4>2. j \in 1 .. Len(providers) + 1
        BY <2>4, <2>5, <3>1, <3>2
      <4> QED BY <2>5, <3>2, <4>1, <4>2
    <3> QED BY <2>5, <3>1, <3>4
  <2> QED BY <2>1, <2>3, <2>4, <2>5, <2>6, OneMore DEF NoAccountTwice
<1>4. CASE AccountUp
  <2>1. NewAccount \in Provider /\ providers' = Append(providers, NewAccount)
    BY <1>4, NewOnes DEF AccountUp, NewAccount
  <2> QED BY <1>2, <2>1 DEF NewAccount, Entry
<1>5. CASE SiteUp
  <2>1. NewSite \in Provider /\ providers' = Append(providers, NewSite)
    BY <1>5, NewOnes DEF SiteUp, NewSite
  <2> QED BY <1>2, <2>1 DEF NewSite, Entry
<1>6. CASE ~(AccountUp \/ MemberUp \/ SiteUp)
  <2>1. providers' = providers
    BY <1>6 DEF StartNext, AccountRefused, AccountsDone, MemberSkipped, MemberRefused, MembersDone,
                SiteUnconnected, SiteRefused, SitesDone, ClusterUp, ClusterUnpriced,
                ClusterRefused, ClustersDone
  <2> QED BY <1>1, <2>1
<1> QED BY <1>1, <1>3, <1>4, <1>5, <1>6

----------------------------------------------------------------------------
(* The invariant, and what it means for start-up.                           *)

LEMMA StartStepHolds == StartIInv /\ [StartNext]_startVars => StartIInv'
<1> SUFFICES ASSUME StartIInv, [StartNext]_startVars PROVE StartIInv'
  OBVIOUS
<1>1. CASE StartNext
  BY <1>1, SeqsStep, StageStep, BooksStep, SeenStep, NotBlindStep, GuestsStep, TwiceStep DEF StartIInv
<1>2. CASE UNCHANGED startVars
  <2> USE <1>2 DEF startVars
  <2>1. Aws' = Aws /\ OnPrem' = OnPrem /\ AliasesUp' = AliasesUp /\ IdsUp' = IdsUp
    BY DEF Aws, OnPrem, AliasesUp, IdsUp
  <2>2. SeqsOK' /\ StageOK' /\ BooksOK'
    BY DEF StartIInv, SeqsOK, StageOK, BooksOK
  <2>3. SeenOK'
    BY <2>1 DEF StartIInv, SeenOK, AccountSeen, MemberSeen, SiteSeen
  <2>4. NotBlindOK' /\ GuestsOK' /\ NoAccountTwice'
    BY <2>1 DEF StartIInv, NotBlindOK, GuestsOK, NoAccountTwice
  <2> QED BY <2>2, <2>3, <2>4 DEF StartIInv
<1> QED BY <1>1, <1>2

LEMMA TypesFollow == StartIInv => StartTypeOK
<1> SUFFICES ASSUME StartIInv PROVE StartTypeOK
  OBVIOUS
<1>1. SeqsOK /\ StageOK /\ BooksOK /\ GuestsOK
  BY DEF StartIInv
<1>2. next \in 1 .. Len(Configured) + Len(members) + Len(Sites) + Len(Kubernetes) + 1
  <2>1. Len(members) \in Nat
    BY <1>1 DEF SeqsOK
  <2> QED BY <1>1, <2>1, FileOfLists DEF StageOK
<1>3. ASSUME NEW i \in DOMAIN providers
      PROVE  /\ providers[i].from \in {"yaml", "org", "site"}
             /\ providers[i].from = "yaml" => providers[i].alias \in ToSet(Configured)
             /\ providers[i].from = "site" => providers[i].alias \in Connected
  <2>1. providers[i] \in Provider
    BY <1>1, <1>3 DEF SeqsOK
  <2> QED BY <2>1 DEF Provider, Entry
<1>4. \A i \in DOMAIN sources : sources[i].by \in DOMAIN providers
  BY <1>1 DEF GuestsOK
<1>5. \A g \in guests : g[1] \in DOMAIN providers
  BY <1>1 DEF GuestsOK
<1> QED BY <1>1, <1>2, <1>3, <1>4, <1>5 DEF StartTypeOK, StageOK, BooksOK

\* When the agent runs, every loop has passed its whole list.
LEMMA RunningFleetIsUp == StartIInv => FleetIsUp
<1> SUFFICES ASSUME StartIInv PROVE FleetIsUp
  OBVIOUS
<1>1. SeqsOK /\ SeenOK /\ NotBlindOK
  BY DEF StartIInv
<1>2. NotBlind
  BY <1>1 DEF NotBlind, NotBlindOK
<1>3. ASSUME phase = "running" PROVE RefusalsStayAlone
  <2>1. \A a \in ToSet(Configured) : AccountSeen(a)
    BY <1>1, <1>3, FileOfLists DEF SeenOK, ToSet
  <2>2. \A s \in Connected : SiteSeen(s)
    BY <1>1, <1>3, FileOfLists, ConnectedAssumption DEF SeenOK, ToSet
  <2>3. \A k \in DOMAIN members : MemberSeen(members[k])
    <3>1. DOMAIN members = 1 .. Len(members)
      BY <1>1 DEF SeqsOK
    <3> QED BY <1>1, <1>3, <3>1 DEF SeenOK
  <2> QED BY <2>1, <2>2, <2>3 DEF RefusalsStayAlone, AccountSeen, SiteSeen, MemberSeen
<1>4. RefusalsStayAlone
  BY <1>3 DEF RefusalsStayAlone
<1> QED BY <1>2, <1>4, TypesFollow DEF FleetIsUp

LEMMA StartUpInvariant == StartSpec => []StartIInv
BY StartInitHolds, StartStepHolds, PTL DEF StartSpec

\* However the organizations overlap with the file and with each other, an
\* account that discovery adds is not one that is up, under any name: build_agent
\* compares each member with the providers it has, and not with the file.
THEOREM NothingWatchedTwice == StartSpec => []NoAccountTwice
<1>1. StartIInv => NoAccountTwice
  BY DEF StartIInv
<1> QED BY <1>1, StartUpInvariant, PTL

\* However many logins are refused and wherever a listing is cut short, an agent
\* that runs has everyone up who was not refused, and one of each kind it was
\* asked for.
THEOREM RefusalsStopNobodyElse == StartSpec => []FleetIsUp
BY RunningFleetIsUp, StartUpInvariant, PTL

\* Whoever fails in between, the guests of the sites are the clusters that are
\* read: the hook is attached after the last thing that can go wrong.
THEOREM GuestsAreRead == StartSpec => []GuestsAreSources
<1>1. StartIInv => GuestsAreSources
  BY DEF StartIInv, GuestsOK, GuestsAreSources
<1> QED BY <1>1, StartUpInvariant, PTL

----------------------------------------------------------------------------
(* A cycle.                                                                 *)

Events ==
    (UNION {ToSet(Found[p]) : p \in DOMAIN Found}) \cup UNION {ToSet(reply) : reply \in Replies}

Batch ==
    [values : [Tasks -> (UNION {GoodValues(t) : t \in Tasks}) \cup {None}],
     recs : Seq(Events), errors : SUBSET Tasks,
     events : Seq(Events), reports : Seq(Events), split : SUBSET Tasks]

\* No spend is collected after a cluster has been asked for its split.
SpendFirst(s) ==
    \A i, j \in DOMAIN s : i < j /\ s[j].kind = "costs" => s[i].kind # "namespaces"

\* What the values of some tasks amount to.
FoundIn(values, U) ==
    UNION {ToSet(FindingsOf(values[t])) : t \in {u \in U : values[u] # None}}

Advising == {t \in Tasks : t.kind \in {"recs", "claims"}}
Costs(values) == {u \in Tasks : u.kind = "costs" /\ values[u] # None}

\* A batch that has had every task but those of a list.
Holds(b, left, m) ==
    /\ \A t \in left : b.values[t] = None
    /\ \A t \in Tasks \ left : b.values[t] # None \/ t \in b.errors
    /\ \A t \in Memoised \ left : b.values[t] = m[t]

SplitOf(b, left) ==
    \A t \in Tasks : t.kind = "namespaces" /\ b.values[t] # None =>
        b.split = Costs(b.values) /\ \A u \in left : u.kind # "costs"

AdviceOf(b) ==
    /\ IsInjective(b.recs)
    /\ ToSet(b.recs) = FoundIn(b.values, Advising)

\* The events of a batch before and after its reports are flushed into them.
ToldOf(b) ==
    /\ ToSet(b.recs) \subseteq ToSet(b.events)
    /\ ToSet(b.events) \cup ToSet(b.reports) = FoundIn(b.values, Tasks)

ListsOK ==
    /\ todo \in Seq(Tasks) /\ IsInjective(todo) /\ SpendFirst(todo)
    /\ batch \in Batch
    /\ stage = "collect" <=> todo # <<>>

BatchOK ==
    stage # "idle" =>
        Holds(batch, ToSet(todo), memo) /\ SplitOf(batch, ToSet(todo)) /\ AdviceOf(batch)

EventsOK ==
    /\ stage = "collect" => ToldOf(batch)
    /\ stage = "ship" => ToSet(batch.events) = FoundIn(batch.values, Tasks)
    /\ LocalEventsComeFirst

IInv == TypeOK /\ ListsOK /\ BatchOK /\ EventsOK


----------------------------------------------------------------------------
(* The lists a cycle is made of.                                            *)

\* A loop over a list that adds two entries for each member of it.
LEMMA TwoForEach ==
    ASSUME NEW V, NEW n \in Nat, NEW f \in [1 .. n -> V], NEW g \in [1 .. n -> V]
    PROVE  FlattenSeq([i \in 1 .. n |-> <<f[i], g[i]>>]) \in Seq(V)
<1> DEFINE ss == [i \in 1 .. n |-> <<f[i], g[i]>>]
<1>1. ss \in Seq(Seq(V))
  <2>1. ss \in [1 .. n -> Seq(V)]
    OBVIOUS
  <2> HIDE DEF ss
  <2> QED BY <2>1
<1> HIDE DEF ss
<1>2. FlattenSeq(ss) \in Seq(V)
  BY <1>1, FlattenProperties
<1> QED BY <1>2 DEF ss

\* Whom the providers' and the clusters' halves of the plan ask for what.
Asked == UNION {ToSet(p.finops) \cup ToSet(p.monitoring) : p \in ToSet(Providers)}
ProviderTask == {Task(c, k) : c \in Asked, k \in {"costs", "recs", "health", "metrics"}}
ClusterTask == {Task(c, k) : c \in ToSet(Clusters), k \in {"namespaces", "claims"}}

LEMMA HalvesOfThePlan ==
    ProviderTasks \in Seq(ProviderTask) /\ ClusterTasks \in Seq(ClusterTask)
<1>1. ASSUME NEW cs, cs \in Seq(ToSet(cs)), NEW V, NEW k1, NEW k2,
             \A c \in ToSet(cs) : Task(c, k1) \in V /\ Task(c, k2) \in V
      PROVE  FlattenSeq([i \in DOMAIN cs |-> <<Task(cs[i], k1), Task(cs[i], k2)>>]) \in Seq(V)
  <2> DEFINE f == [i \in DOMAIN cs |-> Task(cs[i], k1)]
             g == [i \in DOMAIN cs |-> Task(cs[i], k2)]
  <2>1. DOMAIN cs = 1 .. Len(cs) /\ Len(cs) \in Nat
    BY <1>1
  <2>2. f \in [1 .. Len(cs) -> V] /\ g \in [1 .. Len(cs) -> V]
    BY <1>1, <2>1 DEF ToSet
  <2>3. [i \in DOMAIN cs |-> <<Task(cs[i], k1), Task(cs[i], k2)>>]
          = [i \in 1 .. Len(cs) |-> <<f[i], g[i]>>]
    BY <2>1
  <2> HIDE DEF f, g
  <2> QED BY <2>1, <2>2, <2>3, TwoForEach
<1>2. ClusterTasks \in Seq(ClusterTask)
  <2>1. Clusters \in Seq(ToSet(Clusters))
    BY ListsAssumption DEF IsList
  <2>2. \A c \in ToSet(Clusters) : Task(c, "namespaces") \in ClusterTask /\ Task(c, "claims") \in ClusterTask
    BY DEF ClusterTask
  <2> QED BY <1>1, <2>1, <2>2 DEF ClusterTasks
<1>3. ASSUME NEW p \in ToSet(Providers)
      PROVE  FinopsTasks(p.finops) \o MonitoringTasks(p.monitoring) \in Seq(ProviderTask)
  <2>1. p.finops \in Seq(ToSet(p.finops)) /\ p.monitoring \in Seq(ToSet(p.monitoring))
    BY ListsAssumption DEF IsList
  <2>2. \A c \in ToSet(p.finops) : Task(c, "costs") \in ProviderTask /\ Task(c, "recs") \in ProviderTask
    BY DEF ProviderTask, Asked
  <2>3. \A c \in ToSet(p.monitoring) : Task(c, "health") \in ProviderTask /\ Task(c, "metrics") \in ProviderTask
    BY DEF ProviderTask, Asked
  <2>4. FinopsTasks(p.finops) \in Seq(ProviderTask)
    BY <1>1, <2>1, <2>2 DEF FinopsTasks
  <2>5. MonitoringTasks(p.monitoring) \in Seq(ProviderTask)
    BY <1>1, <2>1, <2>3 DEF MonitoringTasks
  <2> QED BY <2>4, <2>5
<1>4. ProviderTasks \in Seq(ProviderTask)
  <2> DEFINE ss == [i \in DOMAIN Providers |->
                      FinopsTasks(Providers[i].finops) \o MonitoringTasks(Providers[i].monitoring)]
  <2>1. Providers \in Seq(ToSet(Providers))
    BY ListsAssumption DEF IsList
  <2>2. DOMAIN Providers = 1 .. Len(Providers) /\ Len(Providers) \in Nat
    BY <2>1
  <2>3. ss \in [1 .. Len(Providers) -> Seq(ProviderTask)]
    BY <1>3, <2>2 DEF ToSet
  <2>4. ss \in Seq(Seq(ProviderTask))
    <3> HIDE DEF ss
    <3> QED BY <2>2, <2>3
  <2>5. FlattenSeq(ss) \in Seq(ProviderTask)
    <3> HIDE DEF ss
    <3> QED BY <2>4, FlattenProperties
  <2> QED BY <2>5 DEF ProviderTasks
<1> QED BY <1>2, <1>4

\* "Last on purpose": a cluster is asked when every provider has had its turn.
LEMMA ClustersComeLast == Plan \in Seq(Tasks) /\ SpendFirst(Plan)
<1> DEFINE A == Those(ProviderTasks, Tasks)
           B == Those(ClusterTasks, Tasks)
<1>1. A \in Seq(ProviderTask \cap Tasks) /\ B \in Seq(ClusterTask \cap Tasks)
  BY HalvesOfThePlan, ThoseAreMembers
<1>2. \A t \in ProviderTask : t.kind # "namespaces"
  BY DEF ProviderTask, Task
<1>3. \A t \in ClusterTask : t.kind # "costs"
  BY DEF ClusterTask, Task
<1> HIDE DEF A, B
<1>4. A \o B \in Seq(Tasks)
  BY <1>1
<1>5. /\ \A i \in 1 .. Len(A) : (A \o B)[i].kind # "namespaces"
      /\ \A i \in DOMAIN (A \o B) : i > Len(A) => (A \o B)[i].kind # "costs"
      /\ DOMAIN (A \o B) = 1 .. Len(A) + Len(B) /\ Len(A) \in Nat /\ Len(B) \in Nat
  BY <1>1, <1>2, <1>3
<1>6. SpendFirst(A \o B)
  <2> DEFINE s == A \o B
  <2> HIDE DEF s
  <2>1. SUFFICES ASSUME NEW i \in DOMAIN s, NEW j \in DOMAIN s, i < j, s[j].kind = "costs"
                 PROVE  s[i].kind # "namespaces"
    BY DEF SpendFirst, s
  <2>2. j <= Len(A)
    BY <1>5, <2>1 DEF s
  <2>3. i \in 1 .. Len(A)
    BY <1>5, <2>1, <2>2 DEF s
  <2> QED BY <1>5, <2>3 DEF s
<1> QED BY <1>4, <1>6 DEF Plan, A, B

\* What detectors make of the parts of a value.
LEMMA FindingsAreEvents ==
    ASSUME NEW value \in Seq(DOMAIN Found)
    PROVE  FindingsOf(value) \in Seq(Events)
<1> DEFINE ss == [i \in DOMAIN value |-> Found[value[i]]]
<1>1. DOMAIN value = 1 .. Len(value) /\ Len(value) \in Nat
  OBVIOUS
<1>2. \A p \in DOMAIN Found : Found[p] \in Seq(Events)
  <2> SUFFICES ASSUME NEW p \in DOMAIN Found PROVE Found[p] \in Seq(Events)
    OBVIOUS
  <2>1. Found[p] \in Seq(ToSet(Found[p]))
    BY ListsAssumption DEF IsList
  <2>2. ToSet(Found[p]) \subseteq Events
    BY DEF Events
  <2> QED BY <2>1, <2>2
<1>3. ss \in [1 .. Len(value) -> Seq(Events)]
  BY <1>1, <1>2
<1>4. ss \in Seq(Seq(Events))
  <2> HIDE DEF ss
  <2> QED BY <1>1, <1>3
<1>5. FlattenSeq(ss) \in Seq(Events)
  <2> HIDE DEF ss
  <2> QED BY <1>4, FlattenProperties
<1> QED BY <1>5 DEF FindingsOf

LEMMA EmptyHasNothing == <<>> \in Seq({}) /\ IsInjective(<<>>)
BY DEF IsInjective

\* A list grown by what it does not have yet.
LEMMA AppendKeepsInjective ==
    ASSUME NEW V, NEW s \in Seq(V), NEW e \in V, IsInjective(s), e \notin ToSet(s)
    PROVE  IsInjective(Append(s, e))
<1> DEFINE u == Append(s, e)
<1>1. /\ Len(s) \in Nat /\ DOMAIN u = 1 .. Len(s) + 1
      /\ \A i \in 1 .. Len(s) : u[i] = s[i]
      /\ u[Len(s) + 1] = e
  OBVIOUS
<1>2. \A i \in 1 .. Len(s) : s[i] # e
  BY DEF ToSet
<1>3. \A i, j \in 1 .. Len(s) : s[i] = s[j] => i = j
  BY DEF IsInjective
<1> HIDE DEF u
<1>4. IsInjective(u)
  BY <1>1, <1>2, <1>3 DEF IsInjective
<1> QED BY <1>4 DEF u

LEMMA ContainsIsMembership ==
    ASSUME NEW V, NEW s \in Seq(V), NEW e
    PROVE  Contains(s, e) <=> e \in ToSet(s)
BY DEF Contains, ToSet

\* _dedupe returns each finding of a list once, and none that has been seen.
LEMMA DedupeKeepsTheNew ==
    ASSUME NEW V, NEW recs \in Seq(V), NEW seenIn \in Seq(V)
    PROVE  /\ Dedupe(recs, seenIn) \in Seq(V)
           /\ IsInjective(Dedupe(recs, seenIn))
           /\ ToSet(Dedupe(recs, seenIn)) = ToSet(recs) \ ToSet(seenIn)
<1> DEFINE n == Len(recs)
           Known(s, r) == Contains(seenIn, r) \/ Contains(s, r)
           Next1(s, r) == IF Known(s, r) THEN s ELSE Append(s, r)
           Loops(h) == h = [i \in 0 .. n |-> IF i = 0 THEN <<>>
                              ELSE IF Contains(seenIn, recs[i]) \/ Contains(h[i - 1], recs[i]) THEN h[i - 1]
                              ELSE Append(h[i - 1], recs[i])]
<1>1. n \in Nat /\ \A i \in 1 .. n : recs[i] \in V
  OBVIOUS
<1>2. \E h : Loops(h)
  <2> DEFINE F == [p \in (1 .. n) \X Seq(V) |-> Next1(p[2], recs[p[1]])]
  <2>1. F \in StepFunctions(n, Seq(V)) /\ <<>> \in Seq(V)
    <3>1. ASSUME NEW s \in Seq(V), NEW i \in 1 .. n PROVE Next1(s, recs[i]) \in Seq(V)
      BY <1>1
    <3> HIDE DEF Next1
    <3> QED BY <3>1 DEF StepFunctions
  <2>2. PICK g \in [0 .. n -> Seq(V)] : Follows(g, n, <<>>, F)
    <3> HIDE DEF F, n
    <3> QED BY <1>1, <2>1, StepwiseFunction
  <2>3. g[0] = <<>> /\ \A i \in 1 .. n : g[i] = Next1(g[i - 1], recs[i])
    <3>1. \A i \in 1 .. n : g[i] = F[<<i, g[i - 1]>>] /\ <<i, g[i - 1]>> \in (1 .. n) \X Seq(V)
      <4> SUFFICES ASSUME NEW i \in 1 .. n
                   PROVE  g[i] = F[<<i, g[i - 1]>>] /\ <<i, g[i - 1]>> \in (1 .. n) \X Seq(V)
        OBVIOUS
      <4>1. i - 1 \in 0 .. n
        BY <1>1
      <4>2. g[i - 1] \in Seq(V)
        <5> HIDE DEF n, F
        <5> QED BY <4>1
      <4>3. g[i] = F[<<i, g[i - 1]>>]
        BY <2>2 DEF Follows
      <4> QED BY <4>2, <4>3
    <3> HIDE DEF Next1
    <3> QED BY <2>2, <3>1 DEF Follows
  <2>4. g = [i \in 0 .. n |-> IF i = 0 THEN <<>>
              ELSE IF Contains(seenIn, recs[i]) \/ Contains(g[i - 1], recs[i]) THEN g[i - 1]
              ELSE Append(g[i - 1], recs[i])]
    <3> DEFINE Body(i) == IF i = 0 THEN <<>>
                          ELSE IF Contains(seenIn, recs[i]) \/ Contains(g[i - 1], recs[i]) THEN g[i - 1]
                          ELSE Append(g[i - 1], recs[i])
    <3>1. ASSUME NEW i \in 0 .. n PROVE g[i] = Body(i)
      <4>1. CASE i = 0
        BY <2>3, <4>1
      <4>2. CASE i # 0
        <5>1. i \in 1 .. n
          BY <1>1, <4>2
        <5> QED BY <2>3, <4>2, <5>1
      <4> QED BY <4>1, <4>2
    <3>2. g = [i \in 0 .. n |-> Body(i)]
      <4> HIDE DEF Body, n
      <4> QED BY <3>1
    <3> QED BY <3>2
  <2> QED BY <2>4
<1>3. Dedupe(recs, seenIn) = (CHOOSE h : Loops(h))[n]
  BY DEF Dedupe
<1>4. PICK out : Loops(out) /\ Dedupe(recs, seenIn) = out[n]
  <2> HIDE DEF Loops
  <2> QED BY <1>2, <1>3
<1>5. out[0] = <<>> /\ \A i \in 1 .. n : out[i] = Next1(out[i - 1], recs[i])
  <2> DEFINE Body(i) == IF i = 0 THEN <<>>
                        ELSE IF Contains(seenIn, recs[i]) \/ Contains(out[i - 1], recs[i]) THEN out[i - 1]
                        ELSE Append(out[i - 1], recs[i])
  <2>1. out = [i \in 0 .. n |-> Body(i)]
    BY <1>4
  <2>2. \A i \in 0 .. n : out[i] = Body(i)
    <3> HIDE DEF Body, n
    <3> QED BY <2>1
  <2>3. 0 \in 0 .. n /\ \A i \in 1 .. n : i \in 0 .. n /\ i # 0
    BY <1>1
  <2>4. Body(0) = <<>> /\ \A i \in 1 .. n : Body(i) = Next1(out[i - 1], recs[i])
    BY <2>3
  <2> HIDE DEF Body, Next1, n
  <2> QED BY <2>2, <2>3, <2>4
<1> DEFINE Read(k) == {recs[i] : i \in 1 .. k}
           S == {k \in Nat : k \in 0 .. n => /\ out[k] \in Seq(V) /\ IsInjective(out[k])
                                             /\ ToSet(out[k]) = Read(k) \ ToSet(seenIn)}
<1>6. 0 \in S
  <2>1. out[0] = <<>> /\ Read(0) = {} /\ <<>> \in Seq(V)
    BY <1>5
  <2> HIDE DEF Read
  <2> QED BY <2>1, EmptyHasNothing, EntriesOfEmpty
<1>7. ASSUME NEW k \in 0 .. n - 1, k \in S PROVE k + 1 \in S
  <2>1. PICK j \in 1 .. n : j = k + 1 /\ j - 1 = k
    BY <1>1
  <2>2. PICK r : r = recs[j] /\ r \in V
    BY <1>1
  <2>3. PICK s \in Seq(V) : s = out[k] /\ IsInjective(s) /\ ToSet(s) = Read(k) \ ToSet(seenIn)
    BY <1>7
  <2>4. out[j] = Next1(s, r)
    BY <1>5, <2>1, <2>2, <2>3
  <2>5. Read(j) = Read(k) \cup {r}
    <3>1. 1 .. j = (1 .. k) \cup {j}
      BY <2>1
    <3> QED BY <2>2, <3>1
  <2> HIDE DEF Read
  <2>6. out[j] \in Seq(V) /\ IsInjective(out[j]) /\ ToSet(out[j]) = Read(j) \ ToSet(seenIn)
    <3>1. Known(s, r) <=> r \in ToSet(seenIn) \/ r \in ToSet(s)
      BY ContainsIsMembership
    <3>2. CASE Known(s, r)
      BY <2>3, <2>4, <2>5, <3>1, <3>2
    <3>3. CASE ~Known(s, r)
      <4>1. out[j] = Append(s, r)
        BY <2>4, <3>3
      <4>2. Append(s, r) \in Seq(V) /\ ToSet(Append(s, r)) = ToSet(s) \cup {r}
        BY <2>2, EntriesOfAppend
      <4>3. IsInjective(Append(s, r))
        BY <2>2, <2>3, <3>1, <3>3, AppendKeepsInjective
      <4> HIDE DEF Known
      <4> QED BY <2>3, <2>5, <3>1, <3>3, <4>1, <4>2, <4>3
    <3> QED BY <3>2, <3>3
  <2> QED BY <2>1, <2>6
<1>8. n \in S
  <2> HIDE DEF S, n
  <2>1. 0 .. n \subseteq S
    BY <1>1, <1>6, <1>7, UpToInduction
  <2> QED BY <1>1, <2>1
<1>9. Read(n) = ToSet(recs)
  BY EntriesAreValues
<1> QED BY <1>1, <1>4, <1>8, <1>9

----------------------------------------------------------------------------
(* A task's turn.                                                           *)

LEMMA GoodValueFacts ==
    ASSUME NEW t \in Tasks, NEW value \in GoodValues(t)
    PROVE  value # None /\ FindingsOf(value) \in Seq(Events)
<1>1. GoodValues(t) \subseteq Values(t)
  BY DEF GoodValues, Values
<1>2. value \in Seq(DOMAIN Found)
  <2>1. Parts[t] \in Seq(DOMAIN Found)
    BY ListsAssumption DEF Tasks
  <2>2. ToSet(Parts[t]) \subseteq DOMAIN Found
    BY <2>1, EntriesAreValues
  <2> QED BY <2>2 DEF GoodValues
<1> QED BY <1>1, <1>2, NoneAssumption, FindingsAreEvents

\* One value more among those of a set of tasks.
LEMMA FoundInOneMore ==
    ASSUME NEW values, DOMAIN values = Tasks, NEW t \in Tasks, values[t] = None,
           NEW value, value # None, NEW U, U \subseteq Tasks
    PROVE  FoundIn([values EXCEPT ![t] = value], U)
             = FoundIn(values, U) \cup IF t \in U THEN ToSet(FindingsOf(value)) ELSE {}
<1> DEFINE after == [values EXCEPT ![t] = value]
           In(u) == ToSet(FindingsOf(u))
<1>1. after[t] = value /\ \A u \in Tasks : u # t => after[u] = values[u]
  OBVIOUS
<1>2. {u \in U : after[u] # None} = {u \in U : values[u] # None} \cup (U \cap {t})
  BY <1>1
<1> HIDE DEF In, after
<1>3. UNION {In(after[u]) : u \in {v \in U : after[v] # None}}
        = (UNION {In(values[u]) : u \in {v \in U : values[v] # None}})
            \cup IF t \in U THEN In(value) ELSE {}
  BY <1>1, <1>2
<1> QED BY <1>3 DEF FoundIn, In, after

\* Absorb, field by field.
Absorbed(a, b, t, value, found, kept) ==
    /\ a.values = [b.values EXCEPT ![t] = value] /\ a.errors = b.errors
    /\ t.kind \in {"recs", "claims"} =>
         /\ a.recs = b.recs \o kept /\ a.events = b.events \o kept
         /\ a.reports = b.reports /\ a.split = b.split
    /\ t.kind = "namespaces" =>
         /\ a.recs = b.recs /\ a.events = b.events
         /\ a.reports = b.reports \o found /\ a.split = Costs(b.values)
    /\ t.kind \notin {"recs", "claims", "namespaces"} =>
         /\ a.recs = b.recs /\ a.events = b.events \o found
         /\ a.reports = b.reports /\ a.split = b.split

LEMMA AbsorbFields ==
    ASSUME NEW b \in Batch, NEW t \in Tasks, NEW value \in GoodValues(t),
           NEW found, found = FindingsOf(value), NEW kept, kept = Dedupe(found, b.recs)
    PROVE  Absorbed(Absorb(b, t, value), b, t, value, found, kept)
<1> USE DEF Absorbed
<1> DEFINE known == [b EXCEPT !.values[t] = value]
<1>1. known = [values |-> [b.values EXCEPT ![t] = value], recs |-> b.recs, errors |-> b.errors,
               events |-> b.events, reports |-> b.reports, split |-> b.split]
  <2>1. b = [values |-> b.values, recs |-> b.recs, errors |-> b.errors,
             events |-> b.events, reports |-> b.reports, split |-> b.split]
    BY DEF Batch
  <2> QED BY <2>1
<1>2. CASE t.kind \in {"recs", "claims"}
  <2>1. Absorb(b, t, value) = [known EXCEPT !.recs = @ \o kept, !.events = @ \o kept]
    BY <1>2 DEF Absorb
  <2> QED BY <1>1, <1>2, <2>1
<1>3. CASE t.kind = "namespaces"
  <2>1. Absorb(b, t, value) = [known EXCEPT !.reports = @ \o found, !.split = Costs(b.values)]
    BY <1>3 DEF Absorb, Costs
  <2> QED BY <1>1, <1>3, <2>1
<1>4. CASE t.kind \notin {"recs", "claims", "namespaces"}
  <2>1. Absorb(b, t, value) = [known EXCEPT !.events = @ \o found]
    BY <1>4 DEF Absorb
  <2> QED BY <1>1, <1>4, <2>1
<1> QED BY <1>2, <1>3, <1>4

\* A batch in which the findings so far are told, and each advice once.
Right(b) ==
    /\ b \in Batch
    /\ \A t \in Tasks : b.values[t] \in GoodValues(t) \cup {None}
    /\ AdviceOf(b) /\ ToldOf(b)

LEMMA AbsorbStaysBatch ==
    ASSUME NEW b \in Batch, NEW t \in Tasks, NEW value \in GoodValues(t)
    PROVE  Absorb(b, t, value) \in Batch
<1> DEFINE a == Absorb(b, t, value)
<1>1. PICK found : found = FindingsOf(value)
  OBVIOUS
<1>2. PICK kept : kept = Dedupe(found, b.recs)
  OBVIOUS
<1>3. found \in Seq(Events) /\ b.recs \in Seq(Events)
  BY <1>1, GoodValueFacts DEF Batch
<1>4. kept \in Seq(Events)
  BY <1>2, <1>3, DedupeKeepsTheNew
<1>5. /\ a.values \in [Tasks -> (UNION {GoodValues(u) : u \in Tasks}) \cup {None}]
      /\ a.recs \in Seq(Events) /\ a.errors \in SUBSET Tasks
      /\ a.events \in Seq(Events) /\ a.reports \in Seq(Events) /\ a.split \in SUBSET Tasks
  <2>1. [b.values EXCEPT ![t] = value] \in [Tasks -> (UNION {GoodValues(u) : u \in Tasks}) \cup {None}]
    BY DEF Batch
  <2>2. Costs(b.values) \in SUBSET Tasks
    BY DEF Costs
  <2>3. /\ b.recs \o kept \in Seq(Events) /\ b.events \o kept \in Seq(Events)
        /\ b.events \o found \in Seq(Events) /\ b.reports \o found \in Seq(Events)
    BY <1>3, <1>4, ConcatProperties DEF Batch
  <2>4. /\ a.values = [b.values EXCEPT ![t] = value] /\ a.errors = b.errors
        /\ a.recs \in {b.recs, b.recs \o kept}
        /\ a.events \in {b.events, b.events \o kept, b.events \o found}
        /\ a.reports \in {b.reports, b.reports \o found}
        /\ a.split \in {b.split, Costs(b.values)}
    <3>1. Absorbed(a, b, t, value, found, kept)
      BY <1>1, <1>2, AbsorbFields
    <3> HIDE DEF a
    <3> QED BY <3>1 DEF Absorbed
  <2>5. /\ b.recs \in Seq(Events) /\ b.events \in Seq(Events) /\ b.reports \in Seq(Events)
        /\ b.split \in SUBSET Tasks /\ b.errors \in SUBSET Tasks
    BY DEF Batch
  <2> HIDE DEF a
  <2> QED BY <2>1, <2>2, <2>3, <2>4, <2>5
<1>6. a = [values |-> a.values, recs |-> a.recs, errors |-> a.errors,
           events |-> a.events, reports |-> a.reports, split |-> a.split]
  BY DEF Absorb, Batch
<1> QED BY <1>5, <1>6 DEF Batch

LEMMA ConcatOfNew ==
    ASSUME NEW V, NEW s \in Seq(V), NEW u \in Seq(V), IsInjective(s), IsInjective(u),
           ToSet(s) \cap ToSet(u) = {}
    PROVE  IsInjective(s \o u)
<1> DEFINE w == s \o u
<1>1. /\ Len(s) \in Nat /\ Len(u) \in Nat /\ DOMAIN w = 1 .. Len(s) + Len(u)
      /\ DOMAIN s = 1 .. Len(s) /\ DOMAIN u = 1 .. Len(u)
      /\ \A i \in 1 .. Len(s) : w[i] = s[i]
      /\ \A i \in DOMAIN w : i > Len(s) => w[i] = u[i - Len(s)] /\ i - Len(s) \in 1 .. Len(u)
  OBVIOUS
<1>2. \A i \in 1 .. Len(s), j \in 1 .. Len(u) : s[i] # u[j]
  BY <1>1 DEF ToSet
<1> HIDE DEF w
<1>3. ASSUME NEW i \in DOMAIN w, NEW j \in DOMAIN w, w[i] = w[j] PROVE i = j
  <2>1. CASE i <= Len(s) /\ j <= Len(s)
    BY <1>1, <1>3, <2>1 DEF IsInjective
  <2>2. CASE i > Len(s) /\ j > Len(s)
    <3>1. i - Len(s) = j - Len(s)
      BY <1>1, <1>3, <2>2 DEF IsInjective
    <3> QED BY <1>1, <3>1
  <2>3. CASE i <= Len(s) /\ j > Len(s)
    BY <1>1, <1>2, <1>3, <2>3
  <2>4. CASE i > Len(s) /\ j <= Len(s)
    BY <1>1, <1>2, <1>3, <2>4
  <2> QED BY <1>1, <2>1, <2>2, <2>3, <2>4
<1>4. IsInjective(w)
  BY <1>3 DEF IsInjective
<1> QED BY <1>4 DEF w

\* A value's findings are told, and those that are advice are told once.
LEMMA AbsorbTells ==
    ASSUME NEW b, Right(b), NEW t \in Tasks, b.values[t] = None, NEW value \in GoodValues(t)
    PROVE  Right(Absorb(b, t, value))
<1> DEFINE a == Absorb(b, t, value)
<1>1. b \in Batch /\ DOMAIN b.values = Tasks
  BY DEF Right, Batch
<1>2. a \in Batch
  BY <1>1, AbsorbStaysBatch
<1>3. PICK found : found = FindingsOf(value) /\ found \in Seq(Events)
  BY GoodValueFacts
<1>4. PICK kept : /\ kept = Dedupe(found, b.recs)
                  /\ kept \in Seq(Events) /\ IsInjective(kept)
                  /\ ToSet(kept) = ToSet(found) \ ToSet(b.recs)
  BY <1>1, <1>3, DedupeKeepsTheNew DEF Batch
<1>5. Absorbed(a, b, t, value, found, kept)
  BY <1>1, <1>3, <1>4, AbsorbFields
<1>6. /\ FoundIn(a.values, Tasks) = FoundIn(b.values, Tasks) \cup ToSet(found)
      /\ FoundIn(a.values, Advising)
           = FoundIn(b.values, Advising) \cup IF t \in Advising THEN ToSet(found) ELSE {}
  <2>1. value # None /\ a.values = [b.values EXCEPT ![t] = value]
    BY <1>5, GoodValueFacts DEF Absorbed
  <2>2. Tasks \subseteq Tasks /\ Advising \subseteq Tasks
    BY DEF Advising
  <2> HIDE DEF a
  <2> QED BY <1>1, <1>3, <2>1, <2>2, FoundInOneMore
<1>7. b.recs \in Seq(Events) /\ b.events \in Seq(Events) /\ b.reports \in Seq(Events)
  BY <1>1 DEF Batch
<1>8. /\ IsInjective(b.recs) /\ ToSet(b.recs) = FoundIn(b.values, Advising)
      /\ ToSet(b.recs) \subseteq ToSet(b.events)
      /\ ToSet(b.events) \cup ToSet(b.reports) = FoundIn(b.values, Tasks)
  BY DEF Right, AdviceOf, ToldOf
<1>9. \A u \in Tasks : a.values[u] \in GoodValues(u) \cup {None}
  BY <1>1, <1>5 DEF Right, Absorbed
<1> HIDE DEF a
<1>10. AdviceOf(a) /\ ToldOf(a)
  <2>1. CASE t.kind \in {"recs", "claims"}
    <3>1. a.recs = b.recs \o kept /\ a.events = b.events \o kept /\ a.reports = b.reports
      BY <1>5, <2>1 DEF Absorbed
    <3>2. ToSet(a.recs) = ToSet(b.recs) \cup ToSet(kept) /\ ToSet(a.events) = ToSet(b.events) \cup ToSet(kept)
      BY <1>4, <1>7, <3>1, EntriesOfConcat
    <3>3. IsInjective(a.recs)
      BY <1>4, <1>7, <1>8, <3>1, ConcatOfNew
    <3>4. t \in Advising
      BY <2>1 DEF Advising
    <3> QED BY <1>4, <1>6, <1>8, <3>1, <3>2, <3>3, <3>4 DEF AdviceOf, ToldOf
  <2>2. CASE t.kind = "namespaces"
    <3>1. a.recs = b.recs /\ a.events = b.events /\ a.reports = b.reports \o found
      BY <1>5, <2>2 DEF Absorbed
    <3>2. ToSet(a.reports) = ToSet(b.reports) \cup ToSet(found)
      BY <1>3, <1>7, <3>1, EntriesOfConcat
    <3>3. t \notin Advising
      BY <2>2 DEF Advising
    <3> QED BY <1>6, <1>8, <3>1, <3>2, <3>3 DEF AdviceOf, ToldOf
  <2>3. CASE t.kind \notin {"recs", "claims", "namespaces"}
    <3>1. a.recs = b.recs /\ a.events = b.events \o found /\ a.reports = b.reports
      BY <1>5, <2>3 DEF Absorbed
    <3>2. ToSet(a.events) = ToSet(b.events) \cup ToSet(found)
      BY <1>3, <1>7, <3>1, EntriesOfConcat
    <3>3. t \notin Advising
      BY <2>3 DEF Advising
    <3> QED BY <1>6, <1>8, <3>1, <3>2, <3>3 DEF AdviceOf, ToldOf
  <2> QED BY <2>1, <2>2, <2>3
<1> QED BY <1>2, <1>9, <1>10 DEF Right, a

\* A task that has had its turn has left its value where the memo has it too.
LEMMA AbsorbHolds ==
    ASSUME NEW b \in Batch, NEW left, left \subseteq Tasks, NEW t \in left,
           NEW value \in GoodValues(t), NEW m, NEW m2, Holds(b, left, m),
           \A u \in Memoised \ {t} : m2[u] = m[u], t \in Memoised => m2[t] = value
    PROVE  Holds(Absorb(b, t, value), left \ {t}, m2)
<1> DEFINE a == Absorb(b, t, value)
<1>1. t \in Tasks /\ value # None
  BY GoodValueFacts
<1>2. a.values = [b.values EXCEPT ![t] = value] /\ a.errors = b.errors
  BY <1>1, AbsorbFields DEF Absorbed
<1>3. DOMAIN b.values = Tasks
  BY DEF Batch
<1>4. a.values[t] = value /\ \A u \in Tasks \ {t} : a.values[u] = b.values[u]
  BY <1>1, <1>2, <1>3
<1>5. Memoised \subseteq Tasks
  BY DEF Memoised
<1> HIDE DEF a
<1> QED BY <1>1, <1>2, <1>4, <1>5 DEF Holds, a

\* "Last on purpose": no spend comes in after a split has been taken.
LEMMA AbsorbSplits ==
    ASSUME NEW b \in Batch, NEW left, left \subseteq Tasks, NEW t \in left,
           NEW value \in GoodValues(t), SplitOf(b, left),
           t.kind = "namespaces" => \A u \in left \ {t} : u.kind # "costs"
    PROVE  SplitOf(Absorb(b, t, value), left \ {t})
<1> DEFINE a == Absorb(b, t, value)
<1>1. t \in Tasks
  OBVIOUS
<1>2. PICK found, kept : Absorbed(a, b, t, value, found, kept)
  BY <1>1, AbsorbFields
<1>3. DOMAIN b.values = Tasks
  BY DEF Batch
<1> HIDE DEF a
<1>4. a.values[t] = value /\ \A u \in Tasks \ {t} : a.values[u] = b.values[u]
  BY <1>1, <1>2, <1>3 DEF Absorbed
<1>5. t.kind # "costs" => Costs(a.values) = Costs(b.values)
  BY <1>4 DEF Costs
<1>6. a.split = IF t.kind = "namespaces" THEN Costs(b.values) ELSE b.split
  BY <1>2 DEF Absorbed
<1>7. ASSUME NEW u \in Tasks, u.kind = "namespaces", a.values[u] # None
      PROVE  a.split = Costs(a.values) /\ \A v \in left \ {t} : v.kind # "costs"
  <2>1. CASE u = t
    BY <1>5, <1>6, <1>7, <2>1
  <2>2. CASE u # t
    <3>1. b.split = Costs(b.values) /\ \A v \in left : v.kind # "costs"
      BY <1>4, <1>7, <2>2 DEF SplitOf
    <3> QED BY <1>5, <1>6, <3>1
  <2> QED BY <2>1, <2>2
<1>8. SplitOf(a, left \ {t})
  BY <1>7 DEF SplitOf
<1> QED BY <1>8 DEF a

----------------------------------------------------------------------------
(* The steps of the cycle.                                                  *)

LEMMA PlanFacts ==
    /\ Plan \in Seq(Tasks) /\ IsInjective(Plan) /\ SpendFirst(Plan) /\ ToSet(Plan) = Tasks
BY ClustersComeLast, PlanAssumption

\* The task whose turn it is, and those left after it.
LEMMA TurnFacts ==
    ASSUME ListsOK, stage = "collect"
    PROVE  /\ ToSet(todo) \subseteq Tasks /\ Head(todo) \in ToSet(todo)
           /\ ToSet(Tail(todo)) = ToSet(todo) \ {Head(todo)}
           /\ Tail(todo) \in Seq(Tasks) /\ IsInjective(Tail(todo)) /\ SpendFirst(Tail(todo))
           /\ Head(todo).kind = "namespaces" => \A u \in ToSet(Tail(todo)) : u.kind # "costs"
<1> DEFINE s == todo
           r == Tail(todo)
<1>1. s \in Seq(Tasks) /\ s # <<>> /\ IsInjective(s) /\ SpendFirst(s)
  BY DEF ListsOK
<1>2. /\ Len(s) \in Nat /\ Len(s) > 0 /\ DOMAIN s = 1 .. Len(s) /\ Head(s) = s[1]
      /\ r \in Seq(Tasks) /\ DOMAIN r = 1 .. Len(s) - 1
      /\ \A i \in 1 .. Len(s) - 1 : r[i] = s[i + 1]
  BY <1>1
<1>3. ToSet(s) \subseteq Tasks /\ ToSet(s) = {s[i] : i \in 1 .. Len(s)}
  BY <1>1, EntriesAreValues
<1>4. ToSet(r) = {s[i] : i \in 2 .. Len(s)}
  <2>1. ToSet(r) = {s[i + 1] : i \in 1 .. Len(s) - 1}
    BY <1>2 DEF ToSet
  <2>2. \A j \in 2 .. Len(s) : j - 1 \in 1 .. Len(s) - 1 /\ j - 1 + 1 = j
    BY <1>2
  <2>3. \A i \in 1 .. Len(s) - 1 : i + 1 \in 2 .. Len(s)
    BY <1>2
  <2> HIDE DEF s, r
  <2> QED BY <2>1, <2>2, <2>3
<1>5. \A i \in 2 .. Len(s) : s[i] # s[1]
  BY <1>1, <1>2 DEF IsInjective
<1>6. 1 .. Len(s) = {1} \cup (2 .. Len(s))
  BY <1>2
<1>7. ToSet(r) = ToSet(s) \ {s[1]} /\ s[1] \in ToSet(s)
  <2> HIDE DEF s, r
  <2> QED BY <1>3, <1>4, <1>5, <1>6
<1>8. IsInjective(r)
  BY <1>1, <1>2 DEF IsInjective
<1>9. SpendFirst(r)
  <2> SUFFICES ASSUME NEW i \in DOMAIN r, NEW j \in DOMAIN r, i < j, r[j].kind = "costs"
               PROVE  r[i].kind # "namespaces"
    BY DEF SpendFirst
  <2>1. i + 1 \in DOMAIN s /\ j + 1 \in DOMAIN s /\ i + 1 < j + 1
    BY <1>2
  <2> QED BY <1>1, <1>2, <2>1 DEF SpendFirst
<1>10. s[1].kind = "namespaces" => \A i \in 2 .. Len(s) : s[i].kind # "costs"
  <2>1. \A i \in 2 .. Len(s) : 1 \in DOMAIN s /\ i \in DOMAIN s /\ 1 < i
    BY <1>2
  <2> QED BY <1>1, <2>1 DEF SpendFirst
<1> HIDE DEF s, r
<1> QED BY <1>2, <1>3, <1>4, <1>7, <1>8, <1>9, <1>10 DEF s, r

LEMMA EmptyIsRight ==
    /\ Right(EmptyBatch) /\ Holds(EmptyBatch, Tasks, memo) /\ SplitOf(EmptyBatch, Tasks)
    /\ FoundIn(EmptyBatch.values, Tasks) = {}
<1>1. EmptyBatch \in Batch
  BY DEF EmptyBatch, Batch
<1>2. \A t \in Tasks : EmptyBatch.values[t] = None
  BY DEF EmptyBatch
<1>3. FoundIn(EmptyBatch.values, Tasks) = {} /\ FoundIn(EmptyBatch.values, Advising) = {}
  BY <1>2 DEF FoundIn, Advising
<1>4. ToSet(EmptyBatch.recs) = {} /\ ToSet(EmptyBatch.events) = {} /\ ToSet(EmptyBatch.reports) = {}
  BY EntriesOfEmpty DEF EmptyBatch
<1>5. IsInjective(EmptyBatch.recs)
  BY EmptyHasNothing DEF EmptyBatch
<1>6. Right(EmptyBatch)
  BY <1>1, <1>2, <1>3, <1>4, <1>5 DEF Right, AdviceOf, ToldOf
<1>7. Holds(EmptyBatch, Tasks, memo)
  BY <1>2 DEF Holds, Memoised
<1>8. SplitOf(EmptyBatch, Tasks)
  BY <1>2 DEF SplitOf
<1> QED BY <1>3, <1>6, <1>7, <1>8

\* What is typed of the batch.
ValuesOK == DOMAIN batch.values = Tasks /\ \A t \in Tasks : batch.values[t] \in GoodValues(t) \cup {None}
BatchTypeOK ==
    ToSet(todo) \subseteq Tasks /\ ValuesOK /\ batch.errors \in SUBSET Tasks /\ batch.split \in SUBSET Tasks
    /\ stage \in {"idle", "collect", "ship", "dispatch"}

\* On to the next task, or to the server.
LEMMA GoOnStep ==
    ASSUME ListsOK, stage = "collect", NEW b, GoOn(b), Right(b),
           NEW left, left = ToSet(Tail(todo)), NEW m, memo' = m,
           Holds(b, left, m), SplitOf(b, left)
    PROVE  BatchTypeOK' /\ ListsOK' /\ BatchOK' /\ EventsOK'
<1>1. /\ left \subseteq Tasks
      /\ Tail(todo) \in Seq(Tasks) /\ IsInjective(Tail(todo)) /\ SpendFirst(Tail(todo))
  BY TurnFacts
<1>2. todo' = Tail(todo) /\ ToSet(todo') = left
  BY DEF GoOn
<1>3. /\ b \in Batch /\ \A t \in Tasks : b.values[t] \in GoodValues(t) \cup {None}
      /\ AdviceOf(b) /\ ToldOf(b)
  BY DEF Right
<1>4. CASE Tail(todo) # <<>>
  <2>1. stage' = "collect" /\ batch' = b
    BY <1>4 DEF GoOn
  <2>2. ListsOK'
    BY <1>1, <1>2, <1>3, <1>4, <2>1 DEF ListsOK, IsInjective, SpendFirst
  <2>3. BatchOK'
    BY <1>2, <1>3, <2>1 DEF BatchOK, AdviceOf, FoundIn, Holds, SplitOf, Costs
  <2>4. EventsOK'
    BY <1>3, <2>1 DEF EventsOK, ToldOf, FoundIn, LocalEventsComeFirst
  <2>5. BatchTypeOK'
    BY <1>1, <1>2, <1>3, <2>1 DEF BatchTypeOK, ValuesOK, Batch
  <2> QED BY <2>2, <2>3, <2>4, <2>5
<1>5. CASE Tail(todo) = <<>>
  <2>1. stage' = "ship" /\ batch' = Flushed(b) /\ todo' = <<>>
    BY <1>5 DEF GoOn
  <2>2. /\ batch'.values = b.values /\ batch'.recs = b.recs /\ batch'.errors = b.errors
        /\ batch'.events = b.events \o b.reports /\ batch'.reports = b.reports
        /\ batch'.split = b.split
    BY <1>3, <2>1 DEF Flushed, Batch
  <2>3. batch' \in Batch
    <3>1. b.events \o b.reports \in Seq(Events)
      BY <1>3, ConcatProperties DEF Batch
    <3> QED BY <1>3, <2>1, <3>1 DEF Flushed, Batch
  <2>4. ListsOK'
    BY <1>1, <2>1, <2>3 DEF ListsOK, IsInjective, SpendFirst
  <2>5. BatchOK'
    BY <1>2, <1>3, <2>2 DEF BatchOK, AdviceOf, FoundIn, Holds, SplitOf, Costs
  <2>6. ToSet(batch'.events) = FoundIn(b.values, Tasks)
    <3>1. ToSet(b.events \o b.reports) = ToSet(b.events) \cup ToSet(b.reports)
      BY <1>3, EntriesOfConcat DEF Batch
    <3> QED BY <1>3, <2>2, <3>1 DEF ToldOf
  <2>7. EventsOK'
    BY <2>1, <2>2, <2>6 DEF EventsOK, FoundIn, LocalEventsComeFirst
  <2>8. BatchTypeOK'
    BY <1>1, <1>2, <1>3, <2>1, <2>2 DEF BatchTypeOK, ValuesOK, Batch
  <2> QED BY <2>4, <2>5, <2>7, <2>8
<1> QED BY <1>4, <1>5

LEMMA AbortStep ==
    ASSUME Abort
    PROVE  BatchTypeOK' /\ ListsOK' /\ BatchOK' /\ EventsOK'
<1>1. todo' = <<>> /\ stage' = "idle" /\ batch' = EmptyBatch
  BY DEF Abort, StageAfterAbort
<1>2. Right(EmptyBatch)
  BY EmptyIsRight
<1>3. batch' \in Batch /\ \A t \in Tasks : batch'.values[t] \in GoodValues(t) \cup {None}
  BY <1>1, <1>2 DEF Right
<1>4. ListsOK'
  BY <1>1, <1>3 DEF ListsOK, IsInjective, SpendFirst
<1>5. BatchOK' /\ EventsOK'
  BY <1>1 DEF BatchOK, EventsOK, LocalEventsComeFirst
<1>6. BatchTypeOK'
  BY <1>1, <1>3, EntriesOfEmpty DEF BatchTypeOK, ValuesOK, Batch
<1> QED BY <1>4, <1>5, <1>6

LEMMA NotPoisonedIsGood ==
    ASSUME NEW t \in Tasks, NEW value \in Values(t), ~Poisoned(value)
    PROVE  value \in GoodValues(t)
<1>1. value \in Seq(ToSet(Parts[t]) \cup {Poison})
  BY DEF Values
<1>2. \A i \in 1 .. Len(value) : value[i] # Poison
  BY DEF Poisoned, Contains
<1>3. \A i \in 1 .. Len(value) : value[i] \in ToSet(Parts[t])
  BY <1>1, <1>2
<1> DEFINE P == ToSet(Parts[t])
<1> HIDE DEF P
<1>4. value \in Seq(P)
  BY <1>1, <1>3 DEF P
<1> QED BY <1>4 DEF GoodValues, P

\* A call answers with parts of its own, and with poison only while there is some.
LEMMA AnswersAreValues ==
    ASSUME NEW t \in Tasks, NEW value \in Answers(t)
    PROVE  value \in Values(t) /\ (Poisoned(value) => poisoned < MaxPoison)
<1> DEFINE P == ToSet(Parts[t])
           good == IF t \in Regional /\ t.of \in Flaky
                   THEN {Only(t, got) : got \in SUBSET P} ELSE {Parts[t]}
<1>1. Parts[t] \in Seq(DOMAIN Found) /\ P \subseteq DOMAIN Found
  BY ListsAssumption, EntriesAreValues DEF Tasks
<1>2. Parts[t] \in Seq(P)
  <2> USE <1>1
  <2>1. \A i \in 1 .. Len(Parts[t]) : Parts[t][i] \in P
    BY DEF ToSet
  <2> HIDE DEF P
  <2> QED BY <2>1
<1>3. ASSUME NEW v \in good PROVE v \in Seq(P)
  <2>1. CASE v = Parts[t]
    BY <1>2, <2>1
  <2>2. ASSUME NEW got, v = Only(t, got) PROVE v \in Seq(P)
    <3>1. v \in Seq(P \cap got)
      <4> HIDE DEF P
      <4> QED BY <1>2, <2>2, ThoseAreMembers DEF Only
    <3> HIDE DEF P
    <3> QED BY <3>1
  <2> QED BY <1>3, <2>1, <2>2
<1>4. Poison \notin P
  BY <1>1, PoisonAssumption
<1>5. ASSUME NEW v \in Seq(P) PROVE v \in Values(t) /\ ~Poisoned(v) /\ Append(v, Poison) \in Values(t)
  <2> HIDE DEF P
  <2>1. ~Poisoned(v)
    BY <1>4 DEF Poisoned, Contains
  <2>2. v \in Seq(P \cup {Poison}) /\ Append(v, Poison) \in Seq(P \cup {Poison})
    OBVIOUS
  <2> QED BY <2>1, <2>2 DEF Values, P
<1>6. \/ value \in good
      \/ poisoned < MaxPoison /\ \E v \in good : value = Append(v, Poison)
  BY DEF Answers
<1> HIDE DEF good, P
<1> QED BY <1>3, <1>5, <1>6

\* An error more on a batch, and everything else about it as it was.
LEMMA ErrorChangesNothingElse ==
    ASSUME NEW b, Right(b), NEW e \in SUBSET Tasks, NEW d, d = [b EXCEPT !.errors = e]
    PROVE  /\ Right(d) /\ d.values = b.values /\ d.errors = e
           /\ \A left : SplitOf(b, left) => SplitOf(d, left)
<1>1. b \in Batch
  BY DEF Right
<1>2. /\ d \in Batch /\ d.values = b.values /\ d.errors = e /\ d.recs = b.recs
      /\ d.events = b.events /\ d.reports = b.reports /\ d.split = b.split
  BY <1>1 DEF Batch
<1>3. Right(d)
  BY <1>2 DEF Right, AdviceOf, ToldOf
<1>4. \A left : SplitOf(b, left) => SplitOf(d, left)
  BY <1>2 DEF SplitOf
<1> QED BY <1>2, <1>3, <1>4

LEMMA CollectFacts ==
    ASSUME IInv, stage = "collect"
    PROVE  /\ ListsOK /\ Right(batch) /\ Head(todo) \in Tasks
           /\ Holds(batch, ToSet(todo), memo) /\ SplitOf(batch, ToSet(todo))
           /\ batch.values[Head(todo)] = None
<1>1. ListsOK /\ Holds(batch, ToSet(todo), memo) /\ SplitOf(batch, ToSet(todo)) /\ AdviceOf(batch)
  BY DEF IInv, BatchOK
<1>2. ToldOf(batch)
  BY DEF IInv, EventsOK
<1>3. Right(batch)
  BY <1>1, <1>2 DEF IInv, TypeOK, Right, ListsOK
<1>4. Head(todo) \in ToSet(todo) /\ ToSet(todo) \subseteq Tasks
  BY <1>1, TurnFacts
<1> QED BY <1>1, <1>3, <1>4 DEF Holds

\* The turn of a task that leaves a value, from the call or from the memo.
LEMMA ValueStep ==
    ASSUME IInv, stage = "collect", NEW t, t = Head(todo),
           NEW b, b = batch \/ b = [batch EXCEPT !.errors = ErrorsWith(t)],
           NEW value \in Values(t), NEW m, memo' = m,
           \A u \in Memoised \ {t} : m[u] = memo[u], t \in Memoised => m[t] = value,
           IF Poisoned(value) THEN Abort ELSE GoOn(Absorb(b, t, value))
    PROVE  BatchTypeOK' /\ ListsOK' /\ BatchOK' /\ EventsOK'
<1>1. CASE Poisoned(value)
  BY <1>1, AbortStep
<1>2. CASE ~Poisoned(value)
  <2>1. /\ ListsOK /\ Right(batch) /\ t \in Tasks
        /\ Holds(batch, ToSet(todo), memo) /\ SplitOf(batch, ToSet(todo)) /\ batch.values[t] = None
    BY CollectFacts
  <2>2. /\ ToSet(todo) \subseteq Tasks /\ t \in ToSet(todo)
        /\ ToSet(Tail(todo)) = ToSet(todo) \ {t}
        /\ t.kind = "namespaces" => \A u \in ToSet(Tail(todo)) : u.kind # "costs"
    BY <2>1, TurnFacts
  <2>3. Right(b) /\ b.values = batch.values /\ SplitOf(b, ToSet(todo)) /\ Holds(b, ToSet(todo), memo)
    <3>1. CASE b = batch
      BY <2>1, <3>1
    <3>2. CASE b = [batch EXCEPT !.errors = ErrorsWith(t)]
      <4>1. ErrorsWith(t) \in SUBSET Tasks
        BY <2>1 DEF ErrorsWith, Right, Batch
      <4>2. Right(b) /\ b.values = batch.values /\ b.errors = ErrorsWith(t) /\ SplitOf(b, ToSet(todo))
        BY <2>1, <3>2, <4>1, ErrorChangesNothingElse
      <4>3. Holds(b, ToSet(todo), memo)
        BY <2>1, <4>2 DEF Holds, ErrorsWith
      <4> QED BY <4>2, <4>3
    <3> QED BY <3>1, <3>2
  <2>4. b \in Batch /\ value \in GoodValues(t)
    BY <1>2, <2>1, <2>3, NotPoisonedIsGood DEF Right
  <2> DEFINE a == Absorb(b, t, value)
             left == ToSet(todo) \ {t}
  <2>5. Right(a)
    BY <2>1, <2>3, <2>4, AbsorbTells
  <2>6. Holds(a, left, m)
    BY <2>2, <2>3, <2>4, AbsorbHolds
  <2>7. SplitOf(a, left)
    BY <2>2, <2>3, <2>4, AbsorbSplits
  <2>8. GoOn(a)
    BY <1>2
  <2> HIDE DEF a, left
  <2> QED BY <2>1, <2>2, <2>5, <2>6, <2>7, <2>8, GoOnStep DEF left
<1> QED BY <1>1, <1>2

\* The turn of a task that fails and has nothing to fall back on.
LEMMA NothingStep ==
    ASSUME IInv, stage = "collect", NEW t, t = Head(todo), memo' = memo,
           t \in Memoised => memo[t] = None,
           GoOn([batch EXCEPT !.errors = ErrorsWith(t)])
    PROVE  BatchTypeOK' /\ ListsOK' /\ BatchOK' /\ EventsOK'
<1>1. PICK d : d = [batch EXCEPT !.errors = ErrorsWith(t)]
  OBVIOUS
<1>2. /\ ListsOK /\ Right(batch) /\ t \in Tasks
      /\ Holds(batch, ToSet(todo), memo) /\ SplitOf(batch, ToSet(todo)) /\ batch.values[t] = None
  BY CollectFacts
<1>3. ErrorsWith(t) \in SUBSET Tasks
  BY <1>2 DEF ErrorsWith, Right, Batch
<1>4. Right(d) /\ d.values = batch.values /\ d.errors = ErrorsWith(t) /\ SplitOf(d, ToSet(todo))
  BY <1>1, <1>2, <1>3, ErrorChangesNothingElse
<1>5. ToSet(Tail(todo)) = ToSet(todo) \ {t}
  BY <1>2, TurnFacts
<1> DEFINE left == ToSet(todo) \ {t}
<1>6. Holds(d, left, memo)
  BY <1>2, <1>4 DEF Holds, ErrorsWith
<1>7. SplitOf(d, left)
  BY <1>4 DEF SplitOf
<1> HIDE DEF left
<1>8. GoOn(d)
  BY <1>1
<1>9. PICK m : m = memo
  OBVIOUS
<1>10. left = ToSet(Tail(todo))
  BY <1>5 DEF left
<1> QED BY <1>2, <1>4, <1>6, <1>7, <1>8, <1>9, <1>10, GoOnStep

MemoOK ==
    /\ DOMAIN memo = Memoised
    /\ \A t \in Memoised : memo[t] \in Values(t) \cup {None}
    /\ stale \in SUBSET Memoised
    /\ poisoned \in 0 .. MaxPoison

LEMMA TypeParts == TypeOK <=> MemoOK /\ BatchTypeOK
BY DEF TypeOK, MemoOK, BatchTypeOK, ValuesOK

LEMMA TypePartsAfter == TypeOK' <=> MemoOK' /\ BatchTypeOK'
BY DEF TypeOK, MemoOK, BatchTypeOK, ValuesOK

LEMMA CollectStep ==
    ASSUME IInv, Reuse \/ Answer \/ Fail
    PROVE  IInv'
<1> DEFINE t == Head(todo)
<1>1. stage = "collect"
  BY DEF Reuse, Answer, Fail
<1>2. t \in Tasks /\ MemoOK
  BY <1>1, CollectFacts, TypeParts DEF IInv
<1>3. MaxPoison \in Nat
  BY MaxPoisonAssumption
<1>4. CASE Reuse
  <2>1. /\ t \in Memoised /\ memo[t] # None /\ Detect(t, memo[t])
        /\ UNCHANGED <<memo, stale, poisoned>>
    BY <1>4 DEF Reuse, Fresh
  <2>2. memo[t] \in Values(t)
    BY <1>2, <2>1 DEF MemoOK
  <2>3. BatchTypeOK' /\ ListsOK' /\ BatchOK' /\ EventsOK'
    <3>1. PICK m : m = memo
      OBVIOUS
    <3>2. PICK u : u = t
      OBVIOUS
    <3>3. PICK value \in Values(u) : value = memo[u]
      BY <2>2, <3>2
    <3>4. IF Poisoned(value) THEN Abort ELSE GoOn(Absorb(batch, u, value))
      BY <2>1, <3>2, <3>3 DEF Detect
    <3> HIDE DEF t
    <3> QED BY <1>1, <2>1, <3>1, <3>2, <3>3, <3>4, ValueStep DEF t
  <2>4. MemoOK'
    BY <1>2, <2>1 DEF MemoOK
  <2> QED BY <2>3, <2>4, TypePartsAfter DEF IInv
<1>5. CASE Answer
  <2>1. PICK value \in Answers(t) :
           /\ poisoned' = IF Poisoned(value) THEN poisoned + 1 ELSE poisoned
           /\ memo' = IF t \in Memoised THEN [memo EXCEPT ![t] = value] ELSE memo
           /\ stale' = stale \ {t}
           /\ Detect(t, value)
    BY <1>5 DEF Answer
  <2>2. value \in Values(t) /\ (Poisoned(value) => poisoned < MaxPoison)
    BY <1>2, AnswersAreValues
  <2>3. /\ DOMAIN memo' = Memoised /\ \A u \in Memoised \ {t} : memo'[u] = memo[u]
        /\ t \in Memoised => memo'[t] = value
    BY <1>2, <2>1 DEF MemoOK
  <2>4. BatchTypeOK' /\ ListsOK' /\ BatchOK' /\ EventsOK'
    <3>1. PICK m : m = memo'
      OBVIOUS
    <3>2. PICK u : u = t
      OBVIOUS
    <3>3. IF Poisoned(value) THEN Abort ELSE GoOn(Absorb(batch, u, value))
      BY <2>1, <3>2 DEF Detect
    <3> HIDE DEF t
    <3> QED BY <1>1, <2>2, <2>3, <3>1, <3>2, <3>3, ValueStep DEF t
  <2>5. MemoOK'
    BY <1>2, <1>3, <2>1, <2>2, <2>3 DEF MemoOK
  <2> QED BY <2>4, <2>5, TypePartsAfter DEF IInv
<1>6. CASE Fail
  <2>1. /\ UNCHANGED <<memo, stale, poisoned>>
        /\ IF Fallback(t) = None THEN GoOn([batch EXCEPT !.errors = ErrorsWith(t)])
           ELSE IF Poisoned(Fallback(t)) THEN Abort
           ELSE GoOn(Absorb([batch EXCEPT !.errors = ErrorsWith(t)], t, Fallback(t)))
    BY <1>6 DEF Fail
  <2>2. Fallback(t) = IF t \in Memoised THEN memo[t] ELSE None
    BY DEF Fallback, LastValue
  <2>3. BatchTypeOK' /\ ListsOK' /\ BatchOK' /\ EventsOK'
    <3>1. PICK u : u = t
      OBVIOUS
    <3>2. CASE Fallback(t) = None
      BY <1>1, <2>1, <2>2, <3>2, NothingStep
    <3>3. CASE Fallback(t) # None
      <4>1. u \in Memoised /\ memo[u] \in Values(u)
        BY <1>2, <2>2, <3>1, <3>3 DEF MemoOK
      <4>2. PICK value \in Values(u) : value = Fallback(u) /\ value = memo[u]
        BY <2>2, <3>1, <4>1
      <4>3. PICK b : b = [batch EXCEPT !.errors = ErrorsWith(u)]
        OBVIOUS
      <4>4. IF Poisoned(value) THEN Abort ELSE GoOn(Absorb(b, u, value))
        BY <2>1, <3>1, <3>3, <4>2, <4>3
      <4>5. PICK m : m = memo
        OBVIOUS
      <4> HIDE DEF t
      <4> QED BY <1>1, <2>1, <3>1, <4>1, <4>2, <4>3, <4>4, <4>5, ValueStep DEF t
    <3> QED BY <3>2, <3>3
  <2>4. MemoOK'
    BY <1>2, <2>1 DEF MemoOK
  <2> QED BY <2>3, <2>4, TypePartsAfter DEF IInv
<1> QED BY <1>4, <1>5, <1>6

\* A list followed by another, cut where the first one ends.
LEMMA CutAtTheJoin ==
    ASSUME NEW V, NEW s \in Seq(V), NEW u \in Seq(V)
    PROVE  /\ Len(s) \in 0 .. Len(s \o u)
           /\ SubSeq(s \o u, 1, Len(s)) = s
           /\ SubSeq(s \o u, Len(s) + 1, Len(s \o u)) = u
<1> DEFINE w == s \o u
           left == SubSeq(w, 1, Len(s))
           right == SubSeq(w, Len(s) + 1, Len(w))
<1>1. /\ w \in Seq(V) /\ Len(s) \in Nat /\ Len(u) \in Nat /\ Len(w) = Len(s) + Len(u)
      /\ \A i \in 1 .. Len(s) : w[i] = s[i]
      /\ \A i \in 1 .. Len(u) : w[Len(s) + i] = u[i]
  OBVIOUS
<1> HIDE DEF w
<1>2. /\ left \in Seq(V) /\ Len(left) = Len(s)
      /\ \A i \in 1 .. Len(s) : left[i] = w[i]
  BY <1>1
<1>3. /\ right \in Seq(V) /\ Len(right) = Len(u)
      /\ \A i \in 1 .. Len(u) : right[i] = w[Len(s) + i]
  BY <1>1
<1> HIDE DEF left, right
<1>4. left = s
  BY <1>1, <1>2
<1>5. right = u
  <2>1. Len(right) = Len(u) /\ \A i \in 1 .. Len(right) : right[i] = u[i]
    BY <1>1, <1>3
  <2> QED BY <1>3, <2>1
<1> QED BY <1>1, <1>4, <1>5 DEF left, right, w

LEMMA HandingOnSteps ==
    ASSUME IInv, Ship \/ ShipFails
    PROVE  IInv'
<1>1. /\ stage = "ship" /\ stage' = "dispatch" /\ UNCHANGED <<memo, stale, todo, poisoned>>
  BY DEF Ship, ShipFails
<1>2. PICK reply \in Replies \cup {<<>>} : batch' = [batch EXCEPT !.events = batch.events \o reply]
  <2>1. CASE Ship
    BY <2>1 DEF Ship, WithReply
  <2>2. CASE ShipFails
    <3>1. batch' = [batch EXCEPT !.events = batch.events]
      BY <2>2 DEF ShipFails, AfterUplinkError
    <3>2. batch.events \o <<>> = batch.events
      BY ConcatEmptySeq DEF IInv, ListsOK, Batch
    <3> QED BY <3>1, <3>2
  <2> QED BY <2>1, <2>2
<1>3. batch \in Batch /\ batch.events \in Seq(Events) /\ reply \in Seq(Events)
  <2>1. CASE reply \in Replies
    <3>1. reply \in Seq(ToSet(reply))
      BY <2>1, ListsAssumption DEF IsList
    <3>2. ToSet(reply) \subseteq Events
      BY <2>1 DEF Events
    <3> QED BY <3>1, <3>2 DEF IInv, ListsOK, Batch
  <2>2. CASE reply = <<>>
    BY <2>2 DEF IInv, ListsOK, Batch
  <2> QED BY <2>1, <2>2
<1>4. batch.events \o reply \in Seq(Events)
  BY <1>3, ConcatProperties
<1>5. /\ batch' \in Batch /\ batch'.values = batch.values /\ batch'.recs = batch.recs
      /\ batch'.errors = batch.errors /\ batch'.split = batch.split
      /\ batch'.events = batch.events \o reply
  BY <1>2, <1>3, <1>4 DEF Batch
<1>6. ListsOK'
  BY <1>1, <1>5 DEF IInv, ListsOK, IsInjective, SpendFirst
<1>7. BatchOK'
  BY <1>1, <1>5 DEF IInv, BatchOK, Holds, SplitOf, Costs, AdviceOf, FoundIn
<1>8. ToSet(batch.events) = FoundIn(batch.values, Tasks)
  BY <1>1 DEF IInv, EventsOK
<1>9. EventsOK'
  <2>1. LocalEvents(batch)' = ToSet(batch.events)
    BY <1>5, <1>8 DEF LocalEvents, FoundIn
  <2>2. PICK ev : ev = batch.events
    OBVIOUS
  <2>3. LocalEventsComeFirst'
    <3>1. /\ Len(ev) \in 0 .. Len(batch'.events)
          /\ SubSeq(batch'.events, 1, Len(ev)) = ev
          /\ SubSeq(batch'.events, Len(ev) + 1, Len(batch'.events)) = reply
      <4>1. ev \in Seq(Events) /\ reply \in Seq(Events) /\ batch'.events = ev \o reply
        BY <1>3, <1>5, <2>2
      <4>2. /\ Len(ev) \in 0 .. Len(ev \o reply)
            /\ SubSeq(ev \o reply, 1, Len(ev)) = ev
            /\ SubSeq(ev \o reply, Len(ev) + 1, Len(ev \o reply)) = reply
        BY <4>1, CutAtTheJoin
      <4> QED BY <4>1, <4>2
    <3> QED BY <2>1, <2>2, <3>1 DEF LocalEventsComeFirst
  <2> QED BY <1>1, <2>3 DEF EventsOK
<1>10. TypeOK'
  BY <1>1, <1>5 DEF IInv, TypeOK
<1> QED BY <1>6, <1>7, <1>9, <1>10 DEF IInv

LEMMA StartStep ==
    ASSUME IInv, StartCycle
    PROVE  IInv'
<1>1. /\ todo' = Plan /\ batch' = EmptyBatch /\ UNCHANGED <<memo, stale, poisoned>>
      /\ stage' = IF Plan = <<>> THEN "ship" ELSE "collect"
  BY DEF StartCycle
<1>2. /\ Right(EmptyBatch) /\ Holds(EmptyBatch, Tasks, memo) /\ SplitOf(EmptyBatch, Tasks)
      /\ FoundIn(EmptyBatch.values, Tasks) = {}
  BY EmptyIsRight
<1>3. EmptyBatch \in Batch /\ AdviceOf(EmptyBatch) /\ ToldOf(EmptyBatch)
  BY <1>2 DEF Right
<1>4. ListsOK'
  BY <1>1, <1>3, PlanFacts DEF ListsOK, IsInjective, SpendFirst
<1>5. BatchOK'
  BY <1>1, <1>2, <1>3, PlanFacts DEF BatchOK, Holds, SplitOf, Costs, AdviceOf, FoundIn
<1>6. ToSet(EmptyBatch.events) = {}
  BY EntriesOfEmpty DEF EmptyBatch
<1>7. EventsOK'
  BY <1>1, <1>2, <1>3, <1>6 DEF EventsOK, ToldOf, FoundIn, LocalEventsComeFirst
<1>8. TypeOK'
  <2>1. batch'.errors \in SUBSET Tasks /\ batch'.split \in SUBSET Tasks /\ DOMAIN batch'.values = Tasks
    BY <1>1, <1>3 DEF Batch
  <2>2. \A t \in Tasks : batch'.values[t] \in GoodValues(t) \cup {None}
    BY <1>1, <1>2 DEF Right
  <2> QED BY <1>1, <2>1, <2>2, PlanFacts DEF IInv, TypeOK
<1> QED BY <1>4, <1>5, <1>7, <1>8 DEF IInv

LEMMA RestSteps ==
    ASSUME IInv, HandOver \/ \E t \in Memoised : Expire(t)
    PROVE  IInv'
<1>1. CASE HandOver
  <2>1. /\ stage = "dispatch" /\ stage' = "idle" /\ batch' = EmptyBatch
        /\ UNCHANGED <<memo, stale, todo, poisoned>>
    BY <1>1 DEF HandOver
  <2>2. todo = <<>>
    BY <2>1 DEF IInv, ListsOK
  <2>3. Abort
    BY <2>1, <2>2 DEF Abort, StageAfterAbort
  <2>4. BatchTypeOK' /\ ListsOK' /\ BatchOK' /\ EventsOK'
    BY <2>3, AbortStep
  <2>5. MemoOK'
    BY <2>1, TypeParts DEF IInv, MemoOK
  <2> QED BY <2>4, <2>5, TypePartsAfter DEF IInv
<1>2. CASE \E t \in Memoised : Expire(t)
  <2>1. /\ UNCHANGED <<memo, stage, todo, batch, poisoned>>
        /\ \E t \in Memoised : stale' = stale \cup {t}
    BY <1>2 DEF Expire
  <2>2. TypeOK'
    BY <2>1 DEF IInv, TypeOK
  <2>3. ListsOK' /\ BatchOK' /\ EventsOK'
    BY <2>1 DEF IInv, ListsOK, IsInjective, SpendFirst, BatchOK, Holds, SplitOf, Costs, AdviceOf,
                FoundIn, EventsOK, ToldOf, LocalEventsComeFirst, LocalEvents
  <2> QED BY <2>2, <2>3 DEF IInv
<1> QED BY <1>1, <1>2

LEMMA InitHolds == Init => IInv
<1> SUFFICES ASSUME Init PROVE IInv
  OBVIOUS
<1> USE DEF Init
<1>1. Right(EmptyBatch)
  BY EmptyIsRight
<1>2. EmptyBatch \in Batch /\ \A t \in Tasks : EmptyBatch.values[t] \in GoodValues(t) \cup {None}
  BY <1>1 DEF Right
<1>3. ListsOK
  BY <1>2 DEF ListsOK, IsInjective, SpendFirst
<1>4. BatchOK /\ EventsOK
  BY DEF BatchOK, EventsOK, LocalEventsComeFirst
<1>5. TypeOK
  <2>1. batch.errors \in SUBSET Tasks /\ batch.split \in SUBSET Tasks /\ DOMAIN batch.values = Tasks
    BY <1>2 DEF Batch
  <2> QED BY <1>2, <2>1, EntriesOfEmpty, MaxPoisonAssumption DEF TypeOK
<1> QED BY <1>3, <1>4, <1>5 DEF IInv

LEMMA StepHolds == IInv /\ [Next]_vars => IInv'
<1> SUFFICES ASSUME IInv, [Next]_vars PROVE IInv'
  OBVIOUS
<1>1. CASE Next
  BY <1>1, StartStep, CollectStep, HandingOnSteps, RestSteps DEF Next
<1>2. CASE UNCHANGED vars
  <2> USE <1>2 DEF vars
  <2>1. TypeOK'
    BY DEF IInv, TypeOK
  <2>2. ListsOK' /\ BatchOK' /\ EventsOK'
    BY DEF IInv, ListsOK, IsInjective, SpendFirst, BatchOK, Holds, SplitOf, Costs, AdviceOf,
           FoundIn, EventsOK, ToldOf, LocalEventsComeFirst, LocalEvents
  <2> QED BY <2>1, <2>2 DEF IInv
<1> QED BY <1>1, <1>2

LEMMA CycleInvariant == Spec => []IInv
BY InitHolds, StepHolds, PTL DEF Spec

----------------------------------------------------------------------------
(* What a cycle promises, whatever fails in it.                             *)

\* When everything has been asked, the batch has of each task the value or the
\* error, of each memoised one what the memo has, and a split of all the spend.
THEOREM NothingIsSkipped == Spec => []BatchIsWhole
<1>1. IInv => BatchIsWhole
  <2> SUFFICES ASSUME IInv PROVE BatchIsWhole
    OBVIOUS
  <2>1. ASSUME Collected PROVE EveryTaskAccounted /\ BatchHoldsTheMemo /\ SplitSeesAllSpend
    <3>1. stage # "idle" /\ todo = <<>>
      BY <2>1 DEF Collected, IInv, ListsOK
    <3>2. ToSet(todo) = {}
      BY <3>1, EntriesOfEmpty
    <3>3. Holds(batch, {}, memo) /\ SplitOf(batch, {})
      BY <3>1, <3>2 DEF IInv, BatchOK
    <3> QED BY <3>3 DEF Holds, SplitOf, Costs, EveryTaskAccounted, BatchHoldsTheMemo, SplitSeesAllSpend
  <2>2. EveryTaskAccounted /\ BatchHoldsTheMemo /\ SplitSeesAllSpend
    BY <2>1 DEF EveryTaskAccounted, BatchHoldsTheMemo, SplitSeesAllSpend
  <2> QED BY <2>2 DEF IInv, BatchIsWhole
<1> QED BY <1>1, CycleInvariant, PTL

\* A list without repetitions is as long as its set of entries is large.
LEMMA InjectiveCounts ==
    ASSUME NEW V, NEW s \in Seq(V), IsInjective(s)
    PROVE  Cardinality(ToSet(s)) = Len(s)
<1>1. Len(s) \in Nat /\ DOMAIN s = 1 .. Len(s) /\ ToSet(s) = {s[i] : i \in 1 .. Len(s)}
  BY EntriesAreValues
<1>2. s \in Bijection(1 .. Len(s), ToSet(s))
  BY <1>1 DEF IsInjective, Bijection, Injection, Surjection
<1>3. ExistsBijection(1 .. Len(s), ToSet(s))
  BY <1>2 DEF ExistsBijection
<1> QED BY <1>1, <1>3, FS_CountingElements

\* Deduplication lets nothing through twice and loses nothing, and what the
\* server says comes after everything that was found here.
THEOREM FoundIsTold == Spec => []FoundAndToldOnce
<1>1. IInv => FoundAndToldOnce
  <2> SUFFICES ASSUME IInv PROVE FoundAndToldOnce
    OBVIOUS
  <2>1. ASSUME Collected PROVE FindingsReportedOnce
    <3>1. AdviceOf(batch) /\ batch.recs \in Seq(Events)
      BY <2>1 DEF Collected, IInv, BatchOK, ListsOK, Batch
    <3>2. Cardinality(ToSet(batch.recs)) = Len(batch.recs)
      BY <3>1, InjectiveCounts DEF AdviceOf
    <3>3. {u \in Advising : batch.values[u] # None}
            = {u \in Tasks : u.kind \in {"recs", "claims"} /\ batch.values[u] # None}
      BY DEF Advising
    <3> QED BY <3>1, <3>2, <3>3 DEF FindingsReportedOnce, AdviceOf, FoundIn
  <2>2. FindingsReportedOnce
    BY <2>1 DEF FindingsReportedOnce
  <2> QED BY <2>2 DEF IInv, EventsOK, FoundAndToldOnce
<1> QED BY <1>1, CycleInvariant, PTL
=============================================================================
