------------------------------- MODULE MCSite --------------------------------
(* A TLC instance of Site: one cluster of two hosts and a standalone host that   *)
(* share an array, and a local and an unmounted array beside it.                 *)
EXTENDS Site, TLC

H(cores, ram, vms, ds, parent) ==
    [cores |-> cores, ram |-> ram, on |-> TRUE, vms |-> vms, ds |-> ds, parent |-> parent]
D(name, cap, free, uncommitted) ==
    [name |-> name, cap |-> cap, free |-> free, uncommitted |-> uncommitted, url |-> name]
V(name, host, vcpu, ram, committed, uncommitted) ==
    [name |-> name, host |-> host, on |-> TRUE, template |-> FALSE, vcpu |-> vcpu, ram |-> ram,
     committed |-> committed, uncommitted |-> uncommitted]
P(cpu, ram) == [cpu |-> <<-1, cpu, 1, cpu>>, ram |-> <<ram, 1, ram, -1>>]

\* web idles, db is too large, two vms share a name, tpl is a template, and ghost
\* is listed by a host and gone by the time the vms are read.
Base ==
    [clusters |-> << [id |-> "c1", name |-> "prod", parent |-> "f1", hosts |-> {"h1", "h2"}] >>,
     hosts |-> "h1" :> H(8, 32, {"web", "db", "ghost"}, {"san", "local"}, "c1")
               @@ "h2" :> H(8, 32, {"tpl"}, {"san"}, "c1")
               @@ "h3" :> H(4, 16, {"web2"}, {"san"}, "f2"),
     datastores |-> "san" :> D("san", 200, 60, 300) @@ "local" :> D("ds0", 40, 2, 0)
                    @@ "attic" :> D("ds0", 200, 10, 0),
     vms |-> "web" :> V("web", "h1", 2, 8, 30, 50) @@ "db" :> V("db", "h1", 8, 24, 60, 0)
             @@ "web2" :> V("web", "h3", 4, 16, 20, 100)
             @@ "tpl" :> [V("tpl", "h2", 2, 4, 10, 0) EXCEPT !.on = FALSE, !.template = TRUE],
     parent |-> "f1" :> "dc0" @@ "f2" :> "f3" @@ "f3" :> "f2" @@ "c1" :> "f1",
     datacenters |-> {"dc0"},
     perf |-> "web" :> P(2, 10) @@ "db" :> P(40, 30) @@ "web2" :> P(103, 60)]

\* The same iron with three times the vcpus promised on it, and idle.
Crowded ==
    [Base EXCEPT !.vms["web"].vcpu = 24, !.vms["web"].ram = 100, !.vms["db"].vcpu = 24,
                 !.perf["db"] = P(1, 5)]

MCSites == {Base, Crowded}

EvenWeights == [cpu |-> 50, ram |-> 30, storage |-> 20]
MCConfigs ==
    { \* one card for all, and a cluster that spells its hardware the other way
     [site |-> "amortization" :> 40000 @@ "power" :> 8000, weights |-> EvenWeights,
      clusters |-> <<None, "prod">> :> [card |-> "capex" :> 3600000 @@ "lifetime" :> 60, weights |-> None]],
      \* a card of the cluster's alone: the standalone host has none
     [site |-> "lifetime" :> 60, weights |-> EvenWeights,
      clusters |-> <<"dc0", "prod">> :> [card |-> "capex" :> 3600000,
                                         weights |-> [cpu |-> 40, ram |-> 30, storage |-> 30]]],
      \* no valid card
     [site |-> "lifetime" :> 60, weights |-> EvenWeights, clusters |-> <<>>]}

MCGuests == {{}, {[source |-> "k1", detached |-> 15], [source |-> "k2", detached |-> 0]}}
=============================================================================
