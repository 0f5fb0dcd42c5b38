---------------------------- MODULE ClusterProofs ----------------------------
(***************************************************************************)
(* The promises of the kubernetes reports for any cluster, any bill, and   *)
(* any number of changes and passes.                                       *)
(*                                                                         *)
(* A report is of the world as it is, so most of each proof is about the   *)
(* operators that make it: what a division leaves over, what a sum by node *)
(* has to do with a sum by namespace, what the loop over the candidates    *)
(* may drop.  What has to be carried from step to step is that the world   *)
(* stays one: a copied vm shares the uuids of the first, so two vms may    *)
(* answer to one key, and what no step breaks is that the node's own is    *)
(* then among them.                                                        *)
(***************************************************************************)
EXTENDS Cluster, DataInduction

\* What a node's provider id, its uuid and the other order of that find, one by one.
KeyHits(n, k, v) ==
    \/ k = 1 /\ n.pid # None /\ (IF n.pid[1] = "uuid" THEN n.pid[2] \in v.uuids ELSE v.uid = n.pid[2])
    \/ k = 2 /\ n.uuid # None /\ n.uuid \in v.uuids
    \/ k = 3 /\ n.uuid # None /\ Swapped(n.uuid) \in v.uuids

\* Only copies share a uid, and a key of a node that finds another vm finds the node's
\* own too, as long as there is one.
Identity(w) ==
    /\ \A v, x \in w.vms : v.uid = x.uid /\ v.uid # CopyUid => v = x
    /\ \A n \in w.nodes :
           /\ RunsOn[Short(n.name)] = RunsOn[n.name] /\ RunsOn[n.name] # CopyUid
           /\ n.pid # None => n.pid[2] # CopyUid
           /\ \A k \in 1 .. 3 : \A v, x \in w.vms :
                  KeyHits(n, k, v) /\ x.uid = RunsOn[n.name] => v.uid = RunsOn[n.name] \/ KeyHits(n, k, x)

\* A world and who is who in it.
Legal(w) == IsWorld(w) /\ Identity(w)

\* The rings of a workload are of one length, and no longer than it has lived.
IsRing(s) == s \in Seq(Nat)
Kept ==
    /\ world.settings.source # "metrics-server" => history = <<>>
    /\ \A w \in DOMAIN lives : lives[w] \in 1 .. passes
    /\ \A w \in DOMAIN history :
           /\ IsRing(history[w].cpu) /\ IsRing(history[w].ram)
           /\ Len(history[w].cpu) \in 1 .. Ring /\ Len(history[w].ram) = Len(history[w].cpu)
           /\ w \in DOMAIN lives /\ Len(history[w].cpu) <= lives[w]

\* How often the cluster has changed and been read.
Counters == moves \in 0 .. MaxMoves /\ passes \in 0 .. MaxPasses

\* What is reported is of the world as it is.
Current == report # None => report = ReportOf(world, history)

\* What holds throughout.
IInv == Counters /\ Legal(world) /\ Kept /\ Current

----------------------------------------------------------------------------
(* A world that changes stays one.                                          *)

\* A world there may be at first is legal: each key of a node finds its own vm or none.
LEMMA FirstIsLegal ==
    ASSUME NEW w \in First PROVE Legal(w)
<1>1. IsWorld(w) /\ IsIdentified(w)
  BY FirstAssumption
<1>2. ASSUME NEW n \in w.nodes, NEW k \in 1 .. 3, NEW v \in w.vms, KeyHits(n, k, v)
      PROVE  v.uid = RunsOn[n.name]
  <2>1. Finds(n, v)
    BY <1>2 DEF KeyHits, Finds
  <2> QED BY <1>1, <2>1 DEF IsIdentified
<1>3. Identity(w)
  BY <1>1, <1>2 DEF Identity, IsIdentified
<1> QED BY <1>1, <1>3 DEF Legal

\* A world stays one whatever pods it is given.
LEMMA PodsMayChange ==
    ASSUME NEW w, Legal(w), NEW P, IsFiniteSet(P), \A p \in P : IsPod(p)
    PROVE  Legal([w EXCEPT !.pods = P])
<1>1. PICK u : u = [w EXCEPT !.pods = P]
  OBVIOUS
<1>2. DOMAIN w = {"nodes", "pods", "vms", "spend", "usage", "settings"}
  BY DEF Legal, IsWorld
<1>3. /\ DOMAIN u = DOMAIN w /\ u.pods = P
      /\ u.nodes = w.nodes /\ u.vms = w.vms /\ u.spend = w.spend /\ u.usage = w.usage
  BY <1>1, <1>2
<1>4. IsWorld(u)
  BY <1>3 DEF Legal, IsWorld
<1>5. Identity(u)
  BY <1>3 DEF Legal, Identity
<1> QED BY <1>1, <1>4, <1>5 DEF Legal

\* A world stays one whatever bill it is given.
LEMMA SpendMayChange ==
    ASSUME NEW w, Legal(w), NEW s, IsSpend(s)
    PROVE  Legal([w EXCEPT !.spend = s])
<1>1. PICK u : u = [w EXCEPT !.spend = s]
  OBVIOUS
<1>2. DOMAIN w = {"nodes", "pods", "vms", "spend", "usage", "settings"}
  BY DEF Legal, IsWorld
<1>3. /\ DOMAIN u = DOMAIN w /\ u.spend = s
      /\ u.nodes = w.nodes /\ u.vms = w.vms /\ u.pods = w.pods /\ u.usage = w.usage
  BY <1>1, <1>2
<1>4. IsWorld(u)
  BY <1>3 DEF Legal, IsWorld
<1>5. Identity(u)
  BY <1>3 DEF Legal, Identity
<1> QED BY <1>1, <1>4, <1>5 DEF Legal

\* Usage that can be measured.
IsUsage(usage) ==
    \A k \in DOMAIN usage :
        DOMAIN usage[k] = {"ask", "samples"} /\ usage[k].ask \in Amounts /\ usage[k].samples \in Nat

\* A world stays one whatever usage it is given.
LEMMA UsageMayChange ==
    ASSUME NEW w, Legal(w), NEW s, IsUsage(s)
    PROVE  Legal([w EXCEPT !.usage = s])
<1>1. PICK u : u = [w EXCEPT !.usage = s]
  OBVIOUS
<1>2. DOMAIN w = {"nodes", "pods", "vms", "spend", "usage", "settings"}
  BY DEF Legal, IsWorld
<1>3. /\ DOMAIN u = DOMAIN w /\ u.usage = s
      /\ u.nodes = w.nodes /\ u.vms = w.vms /\ u.pods = w.pods /\ u.spend = w.spend
  BY <1>1, <1>2
<1>4. IsWorld(u)
  BY <1>3 DEF Legal, IsWorld, IsUsage
<1>5. Identity(u)
  BY <1>3 DEF Legal, Identity
<1> QED BY <1>1, <1>4, <1>5 DEF Legal

\* A node may change in what it says of its size and of its health, and may come back
\* under its short name.
SameNode(m, n) ==
    /\ IsNode(m) /\ m.pid = n.pid /\ m.uuid = n.uuid
    /\ m.name \in {n.name, Short(n.name)}

\* A world stays one when its nodes are replaced by ones that run on the same vms.
LEMMA NodesMayChange ==
    ASSUME NEW w, Legal(w), NEW N, IsFiniteSet(N), \A m, n \in N : m.name = n.name => m = n,
           \A m \in N : \E n \in w.nodes : SameNode(m, n)
    PROVE  Legal([w EXCEPT !.nodes = N])
<1>1. PICK u : u = [w EXCEPT !.nodes = N]
  OBVIOUS
<1>2. DOMAIN w = {"nodes", "pods", "vms", "spend", "usage", "settings"}
  BY DEF Legal, IsWorld
<1>3. /\ DOMAIN u = DOMAIN w /\ u.nodes = N
      /\ u.usage = w.usage /\ u.vms = w.vms /\ u.pods = w.pods /\ u.spend = w.spend
  BY <1>1, <1>2
<1>4. IsWorld(u)
  <2>1. \A m \in N : IsNode(m)
    BY DEF SameNode
  <2> QED BY <1>3, <2>1 DEF Legal, IsWorld
<1>5. ASSUME NEW m \in N
      PROVE  /\ RunsOn[Short(m.name)] = RunsOn[m.name] /\ RunsOn[m.name] # CopyUid
             /\ m.pid # None => m.pid[2] # CopyUid
             /\ \A k \in 1 .. 3 : \A v, x \in w.vms :
                    KeyHits(m, k, v) /\ x.uid = RunsOn[m.name] => v.uid = RunsOn[m.name] \/ KeyHits(m, k, x)
  <2>1. PICK n \in w.nodes : SameNode(m, n)
    OBVIOUS
  <2>2. /\ RunsOn[Short(n.name)] = RunsOn[n.name] /\ RunsOn[n.name] # CopyUid
        /\ n.pid # None => n.pid[2] # CopyUid
        /\ \A k \in 1 .. 3 : \A v, x \in w.vms :
               KeyHits(n, k, v) /\ x.uid = RunsOn[n.name] => v.uid = RunsOn[n.name] \/ KeyHits(n, k, x)
    BY DEF Legal, Identity
  <2>3. Short(Short(n.name)) = Short(n.name)
    BY DEF Short
  <2>4. RunsOn[m.name] = RunsOn[n.name] /\ RunsOn[Short(m.name)] = RunsOn[n.name]
    BY <2>1, <2>2, <2>3 DEF SameNode
  <2>5. \A k, v : KeyHits(m, k, v) <=> KeyHits(n, k, v)
    BY <2>1 DEF SameNode, KeyHits
  <2>6. m.pid = n.pid
    BY <2>1 DEF SameNode
  <2> QED BY <2>2, <2>4, <2>5, <2>6
<1>6. Identity(u)
  BY <1>3, <1>5 DEF Legal, Identity
<1> QED BY <1>1, <1>4, <1>6 DEF Legal

\* One of the nodes said something else of itself.
LEMMA OneNodeMayChange ==
    ASSUME NEW w, Legal(w), NEW n \in w.nodes, NEW m, SameNode(m, n), m.name = n.name
    PROVE  Legal([w EXCEPT !.nodes = (@ \ {n}) \cup {m}])
<1>1. PICK N : N = (w.nodes \ {n}) \cup {m}
  OBVIOUS
<1>2. IsFiniteSet(w.nodes) /\ (\A x \in w.nodes : IsNode(x)) /\ \A x, y \in w.nodes : x.name = y.name => x = y
  BY DEF Legal, IsWorld
<1>3. IsFiniteSet(N)
  <2>1. PICK M : M = w.nodes \ {n}
    OBVIOUS
  <2>2. IsFiniteSet(M)
    BY <1>2, <2>1, FS_RemoveElement
  <2>3. IsFiniteSet(M \cup {m})
    BY <2>2, FS_AddElement
  <2> QED BY <1>1, <2>1, <2>3
<1>4. \A x, y \in N : x.name = y.name => x = y
  BY <1>1, <1>2
<1>5. \A x \in N : \E y \in w.nodes : SameNode(x, y)
  <2> SUFFICES ASSUME NEW x \in N PROVE \E y \in w.nodes : SameNode(x, y)
    OBVIOUS
  <2>1. CASE x = m
    BY <2>1
  <2>2. CASE x # m
    <3>1. x \in w.nodes
      BY <1>1, <2>2
    <3>2. SameNode(x, x)
      BY <1>2, <3>1 DEF SameNode
    <3> QED BY <3>1, <3>2
  <2> QED BY <2>1, <2>2
<1>6. Legal([w EXCEPT !.nodes = N])
  BY <1>3, <1>4, <1>5, NodesMayChange
<1> QED BY <1>1, <1>6

\* A vm that is deleted leaves the rest as identified as they were.
LEMMA VmMayGo ==
    ASSUME NEW w, Legal(w), NEW v
    PROVE  Legal([w EXCEPT !.vms = @ \ {v}])
<1>1. PICK u : u = [w EXCEPT !.vms = @ \ {v}]
  OBVIOUS
<1>2. DOMAIN w = {"nodes", "pods", "vms", "spend", "usage", "settings"}
  BY DEF Legal, IsWorld
<1>3. /\ DOMAIN u = DOMAIN w /\ u.vms = w.vms \ {v}
      /\ u.usage = w.usage /\ u.nodes = w.nodes /\ u.pods = w.pods /\ u.spend = w.spend
  BY <1>1, <1>2
<1>4. IsFiniteSet(w.vms \ {v})
  BY FS_RemoveElement DEF Legal, IsWorld
<1>5. IsWorld(u)
  BY <1>3, <1>4 DEF Legal, IsWorld
<1>6. Identity(u)
  BY <1>3 DEF Legal, Identity
<1> QED BY <1>1, <1>5, <1>6 DEF Legal

\* A copy of a vm is found wherever the vm is, and has a uid that no node runs on.
LEMMA VmMayBeCopied ==
    ASSUME NEW w, Legal(w), NEW v \in w.vms, NEW name
    PROVE  Legal([w EXCEPT !.vms = @ \cup {[v EXCEPT !.uid = CopyUid, !.name = name]}])
<1>1. PICK c : c = [v EXCEPT !.uid = CopyUid, !.name = name]
  OBVIOUS
<1>2. PICK u : u = [w EXCEPT !.vms = @ \cup {c}]
  OBVIOUS
<1>3. /\ DOMAIN w = {"nodes", "pods", "vms", "spend", "usage", "settings"}
      /\ DOMAIN v = {"uid", "name", "pool", "uuids"}
  BY DEF Legal, IsWorld
<1>4. DOMAIN c = DOMAIN v /\ c.uid = CopyUid /\ c.uuids = v.uuids
  BY <1>1, <1>3
<1>5. /\ DOMAIN u = DOMAIN w /\ u.vms = w.vms \cup {c}
      /\ u.usage = w.usage /\ u.nodes = w.nodes /\ u.pods = w.pods /\ u.spend = w.spend
  BY <1>2, <1>3
<1>6. IsFiniteSet(w.vms \cup {c})
  BY FS_AddElement DEF Legal, IsWorld
<1>7. IsWorld(u)
  BY <1>3, <1>4, <1>5, <1>6 DEF Legal, IsWorld
<1>8. \A x, y \in u.vms : x.uid = y.uid /\ x.uid # CopyUid => x = y
  BY <1>4, <1>5 DEF Legal, Identity
<1>9. ASSUME NEW n \in w.nodes, NEW k \in 1 .. 3, NEW x \in u.vms, NEW y \in u.vms,
             KeyHits(n, k, x), y.uid = RunsOn[n.name]
      PROVE  x.uid = RunsOn[n.name] \/ KeyHits(n, k, y)
  <2>1. /\ RunsOn[n.name] # CopyUid /\ (n.pid # None => n.pid[2] # CopyUid)
        /\ \A a, b \in w.vms : KeyHits(n, k, a) /\ b.uid = RunsOn[n.name] => a.uid = RunsOn[n.name] \/ KeyHits(n, k, b)
        /\ \A a, b \in w.vms : a.uid = b.uid /\ a.uid # CopyUid => a = b
    BY DEF Legal, Identity
  <2>2. y \in w.vms
    BY <1>4, <1>5, <1>9, <2>1
  <2>3. CASE x \in w.vms
    BY <1>9, <2>1, <2>2, <2>3
  <2>4. CASE x = c
    <3>1. KeyHits(n, k, v)
      BY <1>4, <1>9, <2>1, <2>4 DEF KeyHits
    <3>2. v.uid = RunsOn[n.name] \/ KeyHits(n, k, y)
      BY <1>9, <2>1, <2>2, <3>1
    <3>3. v.uid = RunsOn[n.name] => v = y
      BY <1>9, <2>1, <2>2
    <3> QED BY <3>1, <3>2, <3>3
  <2> QED BY <1>5, <2>3, <2>4
<1>10. Identity(u)
  BY <1>5, <1>8, <1>9 DEF Legal, Identity
<1> QED BY <1>1, <1>2, <1>7, <1>10 DEF Legal

\* One pod is replaced by another.
LEMMA OnePodMayChange ==
    ASSUME NEW w, Legal(w), NEW p \in w.pods, NEW q, IsPod(q)
    PROVE  Legal([w EXCEPT !.pods = (@ \ {p}) \cup {q}])
<1>1. PICK P, M : M = w.pods \ {p} /\ P = M \cup {q}
  OBVIOUS
<1>2. IsFiniteSet(w.pods) /\ \A x \in w.pods : IsPod(x)
  BY DEF Legal, IsWorld
<1>3. IsFiniteSet(M)
  BY <1>1, <1>2, FS_RemoveElement
<1>4. IsFiniteSet(P)
  BY <1>1, <1>3, FS_AddElement
<1>5. \A x \in P : IsPod(x)
  BY <1>1, <1>2
<1>6. Legal([w EXCEPT !.pods = P])
  BY <1>4, <1>5, PodsMayChange
<1> QED BY <1>1, <1>6

\* A pod of the next template is a pod.
LEMMA RollIsLegal ==
    ASSUME Legal(world), Roll PROVE Legal(world')
<1>1. PICK p \in world.pods : world' = [world EXCEPT !.pods = (@ \ {p}) \cup
        {[p EXCEPT !.hash = "new", !.owner.name = <<p.owner.name[1], "new">>,
                   !.containers = [i \in DOMAIN @ |-> <<@[i][1] \div 2, @[i][2] \div 2>>]]}]
  BY DEF Roll, Change
<1>2. PICK q : q = [p EXCEPT !.hash = "new", !.owner.name = <<p.owner.name[1], "new">>,
                   !.containers = [i \in DOMAIN @ |-> <<@[i][1] \div 2, @[i][2] \div 2>>]]
  OBVIOUS
<1>3. IsPod(p)
  BY DEF Legal, IsWorld
<1>4. /\ DOMAIN q = DOMAIN p /\ q.inits = p.inits /\ q.overhead = p.overhead
      /\ q.containers = [i \in DOMAIN p.containers |-> <<p.containers[i][1] \div 2, p.containers[i][2] \div 2>>]
  BY <1>2, <1>3 DEF IsPod
<1>5. q.containers \in Seq(Amounts)
  <2>1. PICK s, n : s = p.containers /\ n = Len(s)
    OBVIOUS
  <2>2. s \in Seq(Amounts) /\ DOMAIN s = 1 .. n /\ n \in Nat
    BY <1>3, <2>1 DEF IsPod
  <2>3. \A i \in 1 .. n : <<s[i][1] \div 2, s[i][2] \div 2>> \in Amounts
    <3> SUFFICES ASSUME NEW i \in 1 .. n PROVE <<s[i][1] \div 2, s[i][2] \div 2>> \in Amounts
      OBVIOUS
    <3>1. s[i] \in Amounts
      BY <2>1, <2>2
    <3>2. s[i][1] \in Nat /\ s[i][2] \in Nat
      BY <3>1 DEF Amounts
    <3> QED BY <3>2 DEF Amounts
  <2>4. q.containers = [i \in 1 .. n |-> <<s[i][1] \div 2, s[i][2] \div 2>>]
    BY <1>4, <2>1, <2>2
  <2> QED BY <2>2, <2>3, <2>4
<1>6. IsPod(q)
  BY <1>3, <1>4, <1>5 DEF IsPod
<1>7. world' = [world EXCEPT !.pods = (@ \ {p}) \cup {q}]
  BY <1>1, <1>2
<1> QED BY <1>6, <1>7, OnePodMayChange

\* A pod that moves, ends or is started again is a pod.
LEMMA PodMovesAreLegal ==
    ASSUME Legal(world), Reschedule \/ Finish \/ Restart PROVE Legal(world')
<1>1. PICK p, f, x :
          /\ p \in world.pods /\ f \in {"node", "phase"}
          /\ world' = [world EXCEPT !.pods = (@ \ {p}) \cup {[p EXCEPT ![f] = x]}]
  BY DEF Reschedule, Finish, Restart, Change
<1>2. PICK q : q = [p EXCEPT ![f] = x]
  OBVIOUS
<1>3. IsPod(p)
  BY <1>1 DEF Legal, IsWorld
<1>4. IsPod(q)
  <2>1. DOMAIN q = DOMAIN p /\ q.inits = p.inits /\ q.overhead = p.overhead /\ q.containers = p.containers
    BY <1>1, <1>2, <1>3 DEF IsPod
  <2> QED BY <1>3, <2>1 DEF IsPod
<1>5. world' = [world EXCEPT !.pods = (@ \ {p}) \cup {q}]
  BY <1>1, <1>2
<1> QED BY <1>1, <1>4, <1>5, OnePodMayChange

\* A node that is cordoned, tainted, lost or no longer sized is the same node.
LEMMA NodeMovesAreLegal ==
    ASSUME Legal(world), Cordon \/ Unsized PROVE Legal(world')
<1>1. PICK n, m :
          /\ n \in world.nodes
          /\ world' = [world EXCEPT !.nodes = (@ \ {n}) \cup {m}]
          /\ \/ m = [n EXCEPT !.cordoned = TRUE]
             \/ m = [n EXCEPT !.taints = @ \cup {<<"maintenance", "NoExecute">>}]
             \/ m = [n EXCEPT !.ready = "no"]
             \/ m = [n EXCEPT !.vcpu = 0, !.allocVcpu = 0]
  <2>1. CASE Cordon
    <3>1. PICK n \in world.nodes, k \in {"cordoned", "tainted", "lost"} :
        world' = [world EXCEPT !.nodes = (@ \ {n}) \cup
            {CASE k = "cordoned" -> [n EXCEPT !.cordoned = TRUE]
               [] k = "tainted" -> [n EXCEPT !.taints = @ \cup {<<"maintenance", "NoExecute">>}]
               [] k = "lost" -> [n EXCEPT !.ready = "no"]}]
      BY <2>1 DEF Cordon, Change
    <3>2. PICK m : m = CASE k = "cordoned" -> [n EXCEPT !.cordoned = TRUE]
                         [] k = "tainted" -> [n EXCEPT !.taints = @ \cup {<<"maintenance", "NoExecute">>}]
                         [] k = "lost" -> [n EXCEPT !.ready = "no"]
      OBVIOUS
    <3>3. \/ m = [n EXCEPT !.cordoned = TRUE]
          \/ m = [n EXCEPT !.taints = @ \cup {<<"maintenance", "NoExecute">>}]
          \/ m = [n EXCEPT !.ready = "no"]
      BY <3>2
    <3>4. world' = [world EXCEPT !.nodes = (@ \ {n}) \cup {m}]
      BY <3>1, <3>2
    <3> QED BY <3>3, <3>4
  <2>2. CASE Unsized
    BY <2>2 DEF Unsized, Change
  <2> QED BY <2>1, <2>2
<1>2. IsNode(n)
  BY <1>1 DEF Legal, IsWorld
<1>3. /\ DOMAIN m = DOMAIN n /\ m.name = n.name /\ m.pid = n.pid /\ m.uuid = n.uuid
      /\ m.cordoned \in BOOLEAN /\ {m.vcpu, m.ram, m.allocVcpu, m.allocRam} \subseteq Nat
  <2>1. CASE m = [n EXCEPT !.cordoned = TRUE]
    BY <1>2, <2>1 DEF IsNode
  <2>2. CASE m = [n EXCEPT !.taints = @ \cup {<<"maintenance", "NoExecute">>}]
    BY <1>2, <2>2 DEF IsNode
  <2>3. CASE m = [n EXCEPT !.ready = "no"]
    BY <1>2, <2>3 DEF IsNode
  <2>4. CASE m = [n EXCEPT !.vcpu = 0, !.allocVcpu = 0]
    BY <1>2, <2>4 DEF IsNode
  <2> QED BY <1>1, <2>1, <2>2, <2>3, <2>4
<1>4. SameNode(m, n)
  BY <1>2, <1>3 DEF SameNode, IsNode
<1> QED BY <1>1, <1>3, <1>4, OneNodeMayChange

\* A node under its short name runs on the vm it ran on, and no other has that name.
LEMMA RenameIsLegal ==
    ASSUME Legal(world), Rename PROVE Legal(world')
<1>1. PICK n \in world.nodes :
          /\ Short(n.name) \notin {x.name : x \in world.nodes}
          /\ world' = [world EXCEPT !.nodes = (@ \ {n}) \cup {[n EXCEPT !.ready = "no"], [n EXCEPT !.name = Short(@)]}]
  BY DEF Rename, Change
<1>2. PICK a, b : a = [n EXCEPT !.ready = "no"] /\ b = [n EXCEPT !.name = Short(@)]
  OBVIOUS
<1>3. IsNode(n)
  BY DEF Legal, IsWorld
<1>4. /\ DOMAIN a = DOMAIN n /\ a.name = n.name /\ a.pid = n.pid /\ a.uuid = n.uuid
      /\ a.cordoned = n.cordoned /\ a.vcpu = n.vcpu /\ a.ram = n.ram
      /\ a.allocVcpu = n.allocVcpu /\ a.allocRam = n.allocRam
  BY <1>2, <1>3 DEF IsNode
<1>5. /\ DOMAIN b = DOMAIN n /\ b.name = Short(n.name) /\ b.pid = n.pid /\ b.uuid = n.uuid
      /\ b.cordoned = n.cordoned /\ b.vcpu = n.vcpu /\ b.ram = n.ram
      /\ b.allocVcpu = n.allocVcpu /\ b.allocRam = n.allocRam
  BY <1>2, <1>3 DEF IsNode
<1>6. SameNode(a, n) /\ SameNode(b, n)
  <2>1. Short(b.name) = Short(n.name)
    BY <1>5 DEF Short
  <2> QED BY <1>3, <1>4, <1>5, <2>1 DEF SameNode, IsNode
<1>7. PICK M, N : M = world.nodes \ {n} /\ N = M \cup {a, b}
  OBVIOUS
<1>8. IsFiniteSet(world.nodes) /\ (\A x \in world.nodes : IsNode(x)) /\ \A x, y \in world.nodes : x.name = y.name => x = y
  BY DEF Legal, IsWorld
<1>9. IsFiniteSet(N)
  <2>1. IsFiniteSet(M)
    BY <1>7, <1>8, FS_RemoveElement
  <2>2. PICK L : L = M \cup {a}
    OBVIOUS
  <2>3. IsFiniteSet(L)
    BY <2>1, <2>2, FS_AddElement
  <2>4. IsFiniteSet(L \cup {b})
    BY <2>3, FS_AddElement
  <2>5. N = L \cup {b}
    BY <1>7, <2>2
  <2> QED BY <2>4, <2>5
<1>10. \A x, y \in N : x.name = y.name => x = y
  <2>1. \A x \in world.nodes : x.name # b.name
    BY <1>1, <1>5
  <2>2. a.name # b.name
    BY <2>1, <1>4
  <2>3. \A x \in M : x.name # a.name
    BY <1>4, <1>7, <1>8
  <2> QED BY <1>7, <1>8, <2>1, <2>2, <2>3
<1>11. \A x \in N : \E y \in world.nodes : SameNode(x, y)
  <2> SUFFICES ASSUME NEW x \in N PROVE \E y \in world.nodes : SameNode(x, y)
    OBVIOUS
  <2>1. CASE x \in {a, b}
    BY <1>6, <2>1
  <2>2. CASE x \in M
    <3>1. SameNode(x, x) /\ x \in world.nodes
      BY <1>7, <1>8, <2>2 DEF SameNode
    <3> QED BY <3>1
  <2> QED BY <1>7, <2>1, <2>2
<1>12. Legal([world EXCEPT !.nodes = N])
  BY <1>9, <1>10, <1>11, NodesMayChange
<1>13. world' = [world EXCEPT !.nodes = N]
  BY <1>1, <1>2, <1>7
<1> QED BY <1>12, <1>13

\* A bill stays one whatever lines it has.
LEMMA RecordsMayChange ==
    ASSUME NEW s, IsSpend(s), NEW R, IsFiniteSet(R),
           \A r \in R : /\ DOMAIN r = {"keys", "amount", "from", "to"}
                        /\ r.amount \in Nat /\ r.from \in Int /\ r.to \in Int
    PROVE  IsSpend([s EXCEPT !.records = R])
<1>1. PICK t : t = [s EXCEPT !.records = R]
  OBVIOUS
<1>2. DOMAIN t = DOMAIN s /\ t.records = R /\ t.pools = s.pools
  BY <1>1 DEF IsSpend
<1>3. IsSpend(t)
  BY <1>2 DEF IsSpend
<1> QED BY <1>1, <1>3

\* A bill that loses a line, or its pools, is a bill.
LEMMA SpendMovesAreLegal ==
    ASSUME Legal(world), LoseRecord \/ LosePools PROVE Legal(world')
<1>1. IsSpend(world.spend) /\ DOMAIN world = {"nodes", "pods", "vms", "spend", "usage", "settings"}
  BY DEF Legal, IsWorld
<1>2. CASE LoseRecord
  <2>1. PICK r : world' = [world EXCEPT !.spend.records = @ \ {r}]
    BY <1>2 DEF LoseRecord, Change
  <2>2. PICK s, R : s = world.spend /\ R = s.records \ {r}
    OBVIOUS
  <2>3. IsFiniteSet(R)
    BY <1>1, <2>2, FS_RemoveElement DEF IsSpend
  <2>4. \A x \in R : /\ DOMAIN x = {"keys", "amount", "from", "to"}
                     /\ x.amount \in Nat /\ x.from \in Int /\ x.to \in Int
    BY <1>1, <2>2 DEF IsSpend
  <2>5. IsSpend([s EXCEPT !.records = R])
    BY <1>1, <2>2, <2>3, <2>4, RecordsMayChange
  <2>6. world' = [world EXCEPT !.spend = [s EXCEPT !.records = R]]
    BY <2>1, <2>2
  <2>7. PICK u : u = [s EXCEPT !.records = R]
    OBVIOUS
  <2> QED BY <2>5, <2>6, <2>7, SpendMayChange
<1>3. CASE LosePools
  <2>1. PICK s : s = [world.spend EXCEPT !.pools = <<>>]
    OBVIOUS
  <2>2. world' = [world EXCEPT !.spend = s]
    BY <1>3, <2>1 DEF LosePools, Change
  <2>3. DOMAIN s = {"records", "pools"} /\ s.records = world.spend.records /\ s.pools = <<>>
    BY <1>1, <2>1 DEF IsSpend
  <2>4. DOMAIN s.pools = 1 .. Len(s.pools) /\ Len(s.pools) \in Nat /\ DOMAIN s.pools = {}
    BY <2>3
  <2>5. IsSpend(s)
    BY <1>1, <2>3, <2>4 DEF IsSpend
  <2> QED BY <2>2, <2>5, SpendMayChange
<1> QED BY <1>2, <1>3

\* A vm that is copied or deleted leaves a world.
LEMMA VmMovesAreLegal ==
    ASSUME Legal(world), CopyVm \/ DeleteVm PROVE Legal(world')
<1>1. CASE DeleteVm
  <2>1. PICK v : world' = [world EXCEPT !.vms = @ \ {v}]
    BY <1>1 DEF DeleteVm, Change
  <2> QED BY <2>1, VmMayGo
<1>2. CASE CopyVm
  <2>1. PICK v \in world.vms : world' = [world EXCEPT
            !.vms = @ \cup {[v EXCEPT !.uid = CopyUid, !.name = <<"copy", None>>]},
            !.spend.records = @ \cup {[r EXCEPT !.keys = {CopyUid}] : r \in {x \in @ : v.uid \in x.keys}}]
    BY <1>2 DEF CopyVm, Change
  <2>2. PICK c, u, S, R, C :
            /\ c = [v EXCEPT !.uid = CopyUid, !.name = <<"copy", None>>]
            /\ u = [world EXCEPT !.vms = @ \cup {c}]
            /\ S = world.spend
            /\ C = {[r EXCEPT !.keys = {CopyUid}] : r \in {x \in S.records : v.uid \in x.keys}}
            /\ R = S.records \cup C
    OBVIOUS
  <2>3. Legal(u)
    BY <2>2, VmMayBeCopied
  <2>4. IsSpend(S) /\ DOMAIN world = {"nodes", "pods", "vms", "spend", "usage", "settings"}
    BY <2>2 DEF Legal, IsWorld
  <2>5. IsFiniteSet(C)
    <3>1. PICK T, f : T = {x \in S.records : v.uid \in x.keys} /\ f = [r \in T |-> [r EXCEPT !.keys = {CopyUid}]]
      OBVIOUS
    <3>2. IsFiniteSet(T)
      BY <2>4, <3>1, FS_Subset DEF IsSpend
    <3>3. IsFiniteSet({f[r] : r \in T})
      BY <3>2, ImageIsFinite
    <3>4. C = {f[r] : r \in T}
      BY <2>2, <3>1
    <3> QED BY <3>3, <3>4
  <2>6. IsFiniteSet(R)
    BY <2>2, <2>4, <2>5, FS_Union DEF IsSpend
  <2>7. \A x \in R : /\ DOMAIN x = {"keys", "amount", "from", "to"}
                     /\ x.amount \in Nat /\ x.from \in Int /\ x.to \in Int
    <3> SUFFICES ASSUME NEW x \in R
                 PROVE  /\ DOMAIN x = {"keys", "amount", "from", "to"}
                        /\ x.amount \in Nat /\ x.from \in Int /\ x.to \in Int
      OBVIOUS
    <3>1. CASE x \in S.records
      BY <2>4, <3>1 DEF IsSpend
    <3>2. CASE x \in C
      <4>1. PICK r \in S.records : x = [r EXCEPT !.keys = {CopyUid}]
        BY <2>2, <3>2
      <4>2. /\ DOMAIN r = {"keys", "amount", "from", "to"}
            /\ r.amount \in Nat /\ r.from \in Int /\ r.to \in Int
        BY <2>4 DEF IsSpend
      <4> QED BY <4>1, <4>2
    <3> QED BY <2>2, <3>1, <3>2
  <2>8. PICK s : s = [S EXCEPT !.records = R]
    OBVIOUS
  <2>9. IsSpend(s)
    BY <2>4, <2>6, <2>7, <2>8, RecordsMayChange
  <2>10. world' = [world EXCEPT !.vms = @ \cup {c}, !.spend = s]
    BY <2>1, <2>2, <2>8
  <2>11. PICK z : z = [u EXCEPT !.spend = s]
    OBVIOUS
  <2>12. Legal(z)
    BY <2>3, <2>9, <2>11, SpendMayChange
  <2>13. world' = z
    BY <2>2, <2>4, <2>10, <2>11
  <2> QED BY <2>12, <2>13
<1> QED BY <1>1, <1>2

\* Usage that grows or is not answered for is usage.
LEMMA UsageMovesAreLegal ==
    ASSUME Legal(world), Load \/ LoseUsage PROVE Legal(world')
<1>1. IsUsage(world.usage)
  BY DEF Legal, IsWorld, IsUsage
<1>2. CASE Load
  <2>1. PICK k \in DOMAIN world.usage : world' = [world EXCEPT !.usage[k].ask = <<2 * @[1] + 1, 2 * @[2] + 1>>]
    BY <1>2 DEF Load, Change
  <2>2. PICK a, s : a = world.usage[k].ask /\ s = [world.usage EXCEPT ![k].ask = <<2 * a[1] + 1, 2 * a[2] + 1>>]
    OBVIOUS
  <2>3. world' = [world EXCEPT !.usage = s]
    BY <2>1, <2>2
  <2>4. DOMAIN s = DOMAIN world.usage /\ \A j \in DOMAIN s : j # k => s[j] = world.usage[j]
    BY <2>2
  <2>5. DOMAIN s[k] = DOMAIN world.usage[k] /\ s[k].samples = world.usage[k].samples
    BY <2>2
  <2>6. a \in Amounts /\ DOMAIN world.usage[k] = {"ask", "samples"} /\ world.usage[k].samples \in Nat
    BY <1>1, <2>2 DEF IsUsage
  <2>7. s[k].ask = <<2 * a[1] + 1, 2 * a[2] + 1>>
    BY <2>2, <2>6
  <2>8. s[k].ask \in Amounts
    BY <2>6, <2>7 DEF Amounts
  <2>9. IsUsage(s)
    BY <1>1, <2>4, <2>5, <2>6, <2>8 DEF IsUsage
  <2> QED BY <2>3, <2>9, UsageMayChange
<1>3. CASE LoseUsage
  <2>1. PICK k \in DOMAIN world.usage : world' = [world EXCEPT !.usage = Restrict(@, DOMAIN @ \ {k})]
    BY <1>3 DEF LoseUsage, Change
  <2>2. PICK s : s = Restrict(world.usage, DOMAIN world.usage \ {k})
    OBVIOUS
  <2>3. DOMAIN s = DOMAIN world.usage \ {k} /\ \A j \in DOMAIN s : s[j] = world.usage[j]
    BY <2>2 DEF Restrict
  <2>4. IsUsage(s)
    BY <1>1, <2>3 DEF IsUsage
  <2>5. world' = [world EXCEPT !.usage = s]
    BY <2>1, <2>2
  <2> QED BY <2>4, <2>5, UsageMayChange
<1> QED BY <1>2, <1>3

\* Any step but a pass.
ChangeStep ==
    \/ Roll \/ Reschedule \/ Finish \/ Restart \/ Cordon \/ Unsized \/ CopyVm \/ DeleteVm
    \/ LoseRecord \/ LosePools \/ Load \/ LoseUsage \/ Rename

\* Every change leaves a world.
LEMMA ChangesAreLegal ==
    ASSUME Legal(world), ChangeStep PROVE Legal(world')
BY RollIsLegal, PodMovesAreLegal, NodeMovesAreLegal, RenameIsLegal, SpendMovesAreLegal,
   VmMovesAreLegal, UsageMovesAreLegal DEF ChangeStep

\* A change is counted, takes the report away, and leaves the samples alone.
LEMMA ChangesAreCounted ==
    ASSUME ChangeStep
    PROVE  /\ moves < MaxMoves /\ moves' = moves + 1 /\ report' = None
           /\ UNCHANGED <<history, lives, passes>>
BY DEF ChangeStep, Roll, Reschedule, Finish, Restart, Cordon, Unsized, CopyVm, DeleteVm,
       LoseRecord, LosePools, Load, LoseUsage, Rename, Change

\* No change touches the settings.
LEMMA SettingsStay ==
    ASSUME Legal(world), ChangeStep PROVE world'.settings = world.settings
<1>1. DOMAIN world = {"nodes", "pods", "vms", "spend", "usage", "settings"}
  BY DEF Legal, IsWorld
<1>2. CASE Roll \/ Reschedule \/ Finish \/ Restart
  BY <1>1, <1>2 DEF Roll, Reschedule, Finish, Restart, Change
<1>3. CASE Cordon \/ Unsized \/ Rename
  BY <1>1, <1>3 DEF Cordon, Unsized, Rename, Change
<1>4. CASE CopyVm \/ DeleteVm \/ LoseRecord \/ LosePools
  BY <1>1, <1>4 DEF CopyVm, DeleteVm, LoseRecord, LosePools, Change
<1>5. CASE Load \/ LoseUsage
  BY <1>1, <1>5 DEF Load, LoseUsage, Change
<1> QED BY <1>2, <1>3, <1>4, <1>5 DEF ChangeStep

\* Finitely many pods, each of which asks an amount.
IsLoad(pods) ==
    IsFiniteSet(pods) /\ \A p \in pods : p.ask \in Amounts /\ p.ask[1] \in Nat /\ p.ask[2] \in Nat

\* An amount is a pair of numbers.
LEMMA AmountParts ==
    ASSUME NEW a \in Amounts PROVE a[1] \in Nat /\ a[2] \in Nat /\ a = <<a[1], a[2]>>
BY DEF Amounts

\* Two numbers are an amount.
LEMMA PairIsAmount ==
    ASSUME NEW a \in Nat, NEW b \in Nat PROVE <<a, b>> \in Amounts /\ <<a, b>>[1] = a /\ <<a, b>>[2] = b
BY DEF Amounts

\* The peak of the init containers, over those that stay, is an amount.
LEMMA PeakIsAmount ==
    ASSUME NEW S, IsFiniteSet(S), S \subseteq Amounts
    PROVE  PeakStep(S) \in Amounts
<1>1. CASE S = {}
  BY <1>1, PairIsAmount DEF PeakStep
<1>2. CASE S # {}
  <2>1. PICK f, g : f = [s \in S |-> s[1]] /\ g = [s \in S |-> s[2]]
    OBVIOUS
  <2>2. \A s \in S : f[s] \in Nat /\ g[s] \in Nat /\ f[s] = s[1] /\ g[s] = s[2]
    BY <2>1, AmountParts
  <2>3. PICK F : F = {f[s] : s \in S}
    OBVIOUS
  <2>4. IsFiniteSet(F) /\ F # {} /\ F \subseteq Int
    BY <1>2, <2>2, <2>3, ImageIsFinite
  <2>5. Max(F) \in F /\ \A x \in F : x <= Max(F)
    BY <2>4, LargestMember
  <2>6. PICK a \in S : f[a] = Max(F)
    BY <2>3, <2>5
  <2>7. \A s \in S : f[s] <= f[a]
    BY <2>3, <2>5, <2>6
  <2>8. PICK T, H : T = {s \in S : f[s] = f[a]} /\ H = {g[s] : s \in T}
    OBVIOUS
  <2>9. IsFiniteSet(T) /\ a \in T
    BY <2>8, FS_Subset
  <2>10. IsFiniteSet(H) /\ H # {} /\ H \subseteq Int
    <3>1. IsFiniteSet(H)
      BY <2>8, <2>9, ImageIsFinite
    <3> QED BY <2>2, <2>8, <2>9, <3>1
  <2>11. Max(H) \in H /\ \A x \in H : x <= Max(H)
    BY <2>10, LargestMember
  <2>12. PICK b \in T : g[b] = Max(H)
    BY <2>8, <2>11
  <2>13. \A t \in S : t[1] < b[1] \/ (t[1] = b[1] /\ t[2] <= b[2])
    <3> SUFFICES ASSUME NEW t \in S PROVE t[1] < b[1] \/ (t[1] = b[1] /\ t[2] <= b[2])
      OBVIOUS
    <3>1. b \in S /\ f[b] = f[a] /\ f[t] <= f[b]
      BY <2>7, <2>8
    <3>2. f[t] = f[b] => g[t] <= g[b]
      BY <2>8, <2>11, <2>12, <3>1
    <3> QED BY <2>2, <3>1, <3>2
  <2>14. \E s \in S : \A t \in S : t[1] < s[1] \/ (t[1] = s[1] /\ t[2] <= s[2])
    BY <2>8, <2>13
  <2>15. PeakStep(S) \in S
    BY <1>2, <2>14 DEF PeakStep
  <2> QED BY <2>15
<1> QED BY <1>1, <1>2

\* What a pod asks is an amount.
LEMMA RequestIsAmount ==
    ASSUME NEW p, IsPod(p) PROVE Requests(p) \in Amounts
<1>1. PICK c, i : c = p.containers /\ i = p.inits
  OBVIOUS
<1>2. /\ c \in Seq(Amounts) /\ IsFiniteSet(DOMAIN c)
      /\ i \in Seq([always : BOOLEAN, ask : Amounts]) /\ IsFiniteSet(DOMAIN i)
      /\ \A k \in DOMAIN c : c[k] \in Amounts
      /\ \A k \in DOMAIN i : i[k] \in [always : BOOLEAN, ask : Amounts]
  <2>1. c \in Seq(Amounts) /\ i \in Seq([always : BOOLEAN, ask : Amounts])
    BY <1>1 DEF IsPod
  <2>2. DOMAIN c = 1 .. Len(c) /\ Len(c) \in Nat /\ DOMAIN i = 1 .. Len(i) /\ Len(i) \in Nat
    BY <2>1
  <2>3. IsFiniteSet(1 .. Len(c)) /\ IsFiniteSet(1 .. Len(i))
    BY <2>2, FS_Interval
  <2>4. \A k \in DOMAIN c : c[k] \in Amounts
    BY <2>1
  <2>5. \A k \in DOMAIN i : i[k] \in [always : BOOLEAN, ask : Amounts]
    <3>1. PICK I : I = [always : BOOLEAN, ask : Amounts]
      OBVIOUS
    <3>2. i \in Seq(I)
      BY <2>1, <3>1
    <3>3. \A k \in DOMAIN i : i[k] \in I
      BY <3>2
    <3> QED BY <3>1, <3>3
  <2> QED BY <2>1, <2>2, <2>3, <2>4, <2>5
<1>3. PICK sidecars : sidecars = {k \in DOMAIN p.inits : p.inits[k].always}
  OBVIOUS
<1>4. IsFiniteSet(sidecars) /\ sidecars \subseteq DOMAIN i
  BY <1>1, <1>2, <1>3, FS_Subset
<1>5. \A k \in DOMAIN i : i[k].ask \in Amounts /\ i[k].ask[1] \in Nat /\ i[k].ask[2] \in Nat
  <2> SUFFICES ASSUME NEW k \in DOMAIN i PROVE i[k].ask \in Amounts /\ i[k].ask[1] \in Nat /\ i[k].ask[2] \in Nat
    OBVIOUS
  <2>1. i[k].ask \in Amounts
    BY <1>2
  <2> QED BY <2>1, AmountParts
<1>6. PICK peak : peak = PeakStep({p.inits[k].ask : k \in DOMAIN p.inits \ sidecars})
  OBVIOUS
<1>7. peak \in Amounts /\ peak[1] \in Nat /\ peak[2] \in Nat
  <2>1. PICK T, f : T = DOMAIN i \ sidecars /\ f = [k \in T |-> i[k].ask]
    OBVIOUS
  <2>2. IsFiniteSet(T)
    BY <1>2, <2>1, FS_Subset
  <2>3. IsFiniteSet({f[k] : k \in T})
    BY <2>2, ImageIsFinite
  <2>4. {f[k] : k \in T} = {p.inits[k].ask : k \in DOMAIN p.inits \ sidecars}
    BY <1>1, <2>1
  <2>5. {f[k] : k \in T} \subseteq Amounts
    BY <1>5, <2>1
  <2>6. peak \in Amounts
    BY <1>6, <2>3, <2>4, <2>5, PeakIsAmount
  <2> QED BY <2>6, AmountParts
<1>8. PICK a, b, x, y :
          /\ a = SumFunctionOnSet([k \in DOMAIN c |-> c[k][1]], DOMAIN c)
          /\ b = SumFunctionOnSet([k \in DOMAIN c |-> c[k][2]], DOMAIN c)
          /\ x = SumFunctionOnSet([k \in sidecars |-> i[k].ask[1]], sidecars)
          /\ y = SumFunctionOnSet([k \in sidecars |-> i[k].ask[2]], sidecars)
  OBVIOUS
<1>9. a \in Nat /\ b \in Nat /\ x \in Nat /\ y \in Nat
  <2>1. PICK f, g, h, j : /\ f = [k \in DOMAIN c |-> c[k][1]] /\ g = [k \in DOMAIN c |-> c[k][2]]
                          /\ h = [k \in sidecars |-> i[k].ask[1]] /\ j = [k \in sidecars |-> i[k].ask[2]]
    OBVIOUS
  <2>2. (\A k \in DOMAIN c : f[k] \in Nat) /\ (\A k \in DOMAIN c : g[k] \in Nat)
    BY <1>2, <2>1, AmountParts
  <2>3. (\A k \in sidecars : h[k] \in Nat) /\ (\A k \in sidecars : j[k] \in Nat)
    BY <1>4, <1>5, <2>1
  <2>4. SumFunctionOnSet(f, DOMAIN c) \in Nat /\ SumFunctionOnSet(g, DOMAIN c) \in Nat
    BY <1>2, <2>2, SumOfNats
  <2>5. SumFunctionOnSet(h, sidecars) \in Nat /\ SumFunctionOnSet(j, sidecars) \in Nat
    BY <1>4, <2>3, SumOfNats
  <2> QED BY <1>8, <2>1, <2>4, <2>5
<1>10. PairSum(LAMBDA k : p.containers[k], DOMAIN p.containers) = <<a, b>>
  BY <1>1, <1>8 DEF PairSum, Sum
<1>11. PairSum(LAMBDA k : p.inits[k].ask, sidecars) = <<x, y>>
  BY <1>1, <1>8 DEF PairSum, Sum
<1>12. PICK o : o = p.overhead
  OBVIOUS
<1>13. o \in Amounts /\ o[1] \in Nat /\ o[2] \in Nat
  <2>1. o \in Amounts
    BY <1>12 DEF IsPod
  <2> QED BY <2>1, AmountParts
<1>14. PICK m, n : m = (IF a + x > peak[1] THEN a + x ELSE peak[1]) /\ n = (IF b + y > peak[2] THEN b + y ELSE peak[2])
  OBVIOUS
<1>15. m \in Nat /\ n \in Nat
  BY <1>7, <1>9, <1>14
<1>16. Requests(p) = <<m + o[1], n + o[2]>>
  <2>1. Requests(p) = Plus(Both(AtLeast, Plus(PairSum(LAMBDA k : p.containers[k], DOMAIN p.containers),
                                               PairSum(LAMBDA k : p.inits[k].ask, sidecars)), peak), p.overhead)
    BY <1>3, <1>6 DEF Requests
  <2>2. Requests(p) = Plus(Both(AtLeast, Plus(<<a, b>>, <<x, y>>), peak), o)
    BY <2>1, <1>10, <1>11, <1>12
  <2>3. Plus(<<a, b>>, <<x, y>>) = <<a + x, b + y>>
    BY DEF Plus
  <2>4. Both(AtLeast, <<a + x, b + y>>, peak) = <<m, n>>
    BY <1>14 DEF Both, AtLeast
  <2> QED BY <2>2, <2>3, <2>4 DEF Plus
<1> QED BY <1>13, <1>15, <1>16, PairIsAmount

\* The pods that hold a node are finitely many, and each asks an amount.
LEMMA ScheduledIsLoad ==
    ASSUME NEW w, Legal(w)
    PROVE  IsLoad(Scheduled(w.pods))
<1>1. IsFiniteSet(w.pods) /\ \A p \in w.pods : IsPod(p)
  BY DEF Legal, IsWorld
<1>2. PICK T, f : T = {x \in w.pods : x.phase \notin Terminated} /\ f = [p \in T |-> PodOf(p)]
  OBVIOUS
<1>3. IsFiniteSet(T)
  BY <1>1, <1>2, FS_Subset
<1>4. IsFiniteSet({f[p] : p \in T})
  BY <1>3, ImageIsFinite
<1>5. {f[p] : p \in T} = LivePods(w.pods)
  BY <1>2 DEF LivePods
<1>6. Scheduled(w.pods) \subseteq LivePods(w.pods)
  BY DEF Scheduled
<1>7. IsFiniteSet(Scheduled(w.pods))
  BY <1>4, <1>5, <1>6, FS_Subset
<1>8. \A q \in Scheduled(w.pods) : q.ask \in Amounts
  <2> SUFFICES ASSUME NEW q \in Scheduled(w.pods) PROVE q.ask \in Amounts
    OBVIOUS
  <2>1. PICK p \in w.pods : q = PodOf(p)
    BY DEF Scheduled, LivePods
  <2>2. q.ask = Requests(p)
    BY <2>1 DEF PodOf
  <2> QED BY <1>1, <2>2, RequestIsAmount
<1> QED BY <1>7, <1>8, AmountParts DEF IsLoad

----------------------------------------------------------------------------
(* The samples.                                                             *)

\* What is measured of a workload is finitely many amounts.
LEMMA MeasuredIsSound ==
    ASSUME NEW pods, IsLoad(pods), NEW usage, IsUsage(usage), NEW w
    PROVE  /\ IsFiniteSet(MeasuredOf(pods, usage, w))
           /\ \A u \in MeasuredOf(pods, usage, w) : u.ask \in Amounts /\ u.ask[1] \in Nat /\ u.ask[2] \in Nat
<1>1. PICK T, f : /\ T = {x \in Replicas(pods, w) : <<x.ns, x.name>> \in DOMAIN usage}
                  /\ f = [p \in T |-> usage[<<p.ns, p.name>>]]
  OBVIOUS
<1>2. IsFiniteSet(T)
  BY <1>1, FS_Subset DEF Replicas, IsLoad
<1>3. IsFiniteSet({f[p] : p \in T})
  BY <1>2, ImageIsFinite
<1>4. {f[p] : p \in T} = MeasuredOf(pods, usage, w)
  BY <1>1 DEF MeasuredOf
<1>5. \A u \in MeasuredOf(pods, usage, w) : u.ask \in Amounts
  BY DEF MeasuredOf, IsUsage
<1> QED BY <1>3, <1>4, <1>5, AmountParts

\* The busiest replica is one that was measured.
LEMMA BusiestIsMeasured ==
    ASSUME NEW U, IsFiniteSet(U), U # {}, NEW i \in {1, 2}, \A u \in U : u.ask[i] \in Nat
    PROVE  /\ Max({u.ask[i] : u \in U}) \in Nat
           /\ \A u \in U : u.ask[i] <= Max({x.ask[i] : x \in U})
<1>1. PICK f, T : f = [u \in U |-> u.ask[i]] /\ T = {f[u] : u \in U}
  OBVIOUS
<1>2. T = {u.ask[i] : u \in U} /\ T \subseteq Nat /\ T # {}
  BY <1>1
<1>3. IsFiniteSet(T)
  BY <1>1, ImageIsFinite
<1>4. Max(T) \in T /\ \A x \in T : x <= Max(T)
  <2>1. T \subseteq Int
    BY <1>2
  <2> QED BY <1>2, <1>3, <2>1, LargestMember
<1> QED BY <1>2, <1>4

\* A ring with one more sample.
Push(s, x) == LET t == Append(s, x) IN IF Len(t) > Ring THEN Tail(t) ELSE t

\* A ring that is given a sample keeps at most its length.
LEMMA PushIsRing ==
    ASSUME NEW s, IsRing(s), NEW x \in Nat, Len(s) <= Ring
    PROVE  /\ IsRing(Push(s, x))
           /\ Len(Push(s, x)) \in 1 .. Ring
           /\ Len(Push(s, x)) = IF Len(s) = Ring THEN Ring ELSE Len(s) + 1
<1>1. Ring \in Nat \ {0}
  BY UsageAssumption
<1>2. PICK t : t = Append(s, x)
  OBVIOUS
<1>3. s \in Seq(Nat) /\ Len(s) \in Nat
  BY DEF IsRing
<1>4. t \in Seq(Nat) /\ Len(t) = Len(s) + 1
  BY <1>2, <1>3
<1>5. t # <<>>
  BY <1>3, <1>4
<1>6. Tail(t) \in Seq(Nat) /\ Len(Tail(t)) = Len(t) - 1
  BY <1>4, <1>5
<1>7. CASE Len(t) > Ring
  <2>1. Push(s, x) = Tail(t) /\ Len(s) = Ring
    BY <1>1, <1>2, <1>3, <1>4, <1>7 DEF Push
  <2> QED BY <1>1, <1>3, <1>4, <1>6, <2>1 DEF IsRing
<1>8. CASE ~(Len(t) > Ring)
  <2>1. Push(s, x) = t /\ Len(s) # Ring
    BY <1>1, <1>2, <1>3, <1>4, <1>8 DEF Push
  <2> QED BY <1>1, <1>3, <1>4, <1>8, <2>1 DEF IsRing
<1> QED BY <1>7, <1>8

\* A ring starts out empty.
LEMMA EmptyRing == IsRing(<<>>) /\ Len(<<>>) = 0
BY DEF IsRing

\* What one pass makes of the rings.
LEMMA ObserveKeeps ==
    ASSUME NEW pods, IsLoad(pods), NEW usage, IsUsage(usage), NEW h,
           \A w \in DOMAIN h : /\ IsRing(h[w].cpu) /\ IsRing(h[w].ram)
                               /\ Len(h[w].cpu) \in 1 .. Ring /\ Len(h[w].ram) = Len(h[w].cpu)
    PROVE  /\ DOMAIN Observe(h, pods, usage) \subseteq Workloads(pods)
           /\ \A w \in DOMAIN Observe(h, pods, usage) :
                  LET r == Observe(h, pods, usage)[w]
                  IN  /\ IsRing(r.cpu) /\ IsRing(r.ram)
                      /\ Len(r.cpu) \in 1 .. Ring /\ Len(r.ram) = Len(r.cpu)
                      /\ Len(r.cpu) <= IF w \in DOMAIN h THEN Len(h[w].cpu) + 1 ELSE 1
<1> DEFINE seen == {w \in Workloads(pods) : MeasuredOf(pods, usage, w) # {}}
           old(w) == IF w \in DOMAIN h THEN h[w] ELSE [cpu |-> <<>>, ram |-> <<>>]
           new(w) == [cpu |-> Push(old(w).cpu, Max({u.ask[1] : u \in MeasuredOf(pods, usage, w)})),
                      ram |-> Push(old(w).ram, Max({u.ask[2] : u \in MeasuredOf(pods, usage, w)}))]
           all == [w \in DOMAIN h \cup seen |-> IF w \in seen THEN new(w) ELSE h[w]]
<1>1. Observe(h, pods, usage) = Restrict(all, DOMAIN all \cap Workloads(pods))
  BY DEF Observe, Forget, Push
<1>2. PICK g : g = Observe(h, pods, usage)
  OBVIOUS
<1>3. DOMAIN g \subseteq Workloads(pods) /\ \A w \in DOMAIN g : w \in DOMAIN all /\ g[w] = all[w]
  <2> HIDE DEF all
  <2> QED BY <1>1, <1>2 DEF Restrict
<1>4. ASSUME NEW w \in DOMAIN g
      PROVE  /\ IsRing(g[w].cpu) /\ IsRing(g[w].ram)
             /\ Len(g[w].cpu) \in 1 .. Ring /\ Len(g[w].ram) = Len(g[w].cpu)
             /\ Len(g[w].cpu) <= IF w \in DOMAIN h THEN Len(h[w].cpu) + 1 ELSE 1
  <2>0. Ring \in Nat \ {0}
    BY UsageAssumption
  <2>1. CASE w \in seen
    <3>1. PICK a, b : /\ a = Max({u.ask[1] : u \in MeasuredOf(pods, usage, w)})
                      /\ b = Max({u.ask[2] : u \in MeasuredOf(pods, usage, w)})
      OBVIOUS
    <3>2. PICK U : U = MeasuredOf(pods, usage, w)
      OBVIOUS
    <3>3. IsFiniteSet(U) /\ U # {} /\ (\A u \in U : u.ask[1] \in Nat) /\ (\A u \in U : u.ask[2] \in Nat)
      BY <2>1, <3>2, MeasuredIsSound
    <3>4. Max({u.ask[1] : u \in U}) \in Nat /\ Max({u.ask[2] : u \in U}) \in Nat
      <4>1. 1 \in {1, 2} /\ 2 \in {1, 2}
        OBVIOUS
      <4> QED BY <3>3, <4>1, BusiestIsMeasured
    <3>5. a \in Nat /\ b \in Nat
      BY <3>1, <3>2, <3>4
    <3>6. PICK o : o = old(w)
      OBVIOUS
    <3>7. /\ IsRing(o.cpu) /\ IsRing(o.ram) /\ Len(o.cpu) \in 0 .. Ring /\ Len(o.ram) = Len(o.cpu)
          /\ Len(o.cpu) = IF w \in DOMAIN h THEN Len(h[w].cpu) ELSE 0
      BY <2>0, <3>6, EmptyRing
    <3>8. g[w] = [cpu |-> Push(o.cpu, a), ram |-> Push(o.ram, b)]
      BY <1>3, <2>1, <3>1, <3>6
    <3>9. g[w].cpu = Push(o.cpu, a) /\ g[w].ram = Push(o.ram, b)
      BY <3>8
    <3>10. Len(o.cpu) <= Ring /\ Len(o.ram) <= Ring
      BY <2>0, <3>7
    <3>11. /\ IsRing(Push(o.cpu, a)) /\ Len(Push(o.cpu, a)) \in 1 .. Ring
           /\ Len(Push(o.cpu, a)) = IF Len(o.cpu) = Ring THEN Ring ELSE Len(o.cpu) + 1
      BY <3>5, <3>7, <3>10, PushIsRing
    <3>12. /\ IsRing(Push(o.ram, b))
           /\ Len(Push(o.ram, b)) = IF Len(o.ram) = Ring THEN Ring ELSE Len(o.ram) + 1
      BY <3>5, <3>7, <3>10, PushIsRing
    <3> QED BY <2>0, <3>7, <3>9, <3>11, <3>12
  <2>2. CASE w \notin seen
    <3>1. w \in DOMAIN h /\ g[w] = h[w]
      BY <1>3, <2>2
    <3>2. /\ IsRing(h[w].cpu) /\ IsRing(h[w].ram)
          /\ Len(h[w].cpu) \in 1 .. Ring /\ Len(h[w].ram) = Len(h[w].cpu)
      BY <3>1
    <3> QED BY <2>0, <3>1, <3>2
  <2> QED BY <2>1, <2>2
<1> HIDE DEF all
<1> QED BY <1>2, <1>3, <1>4

\* A pass keeps what is known of the rings.
LEMMA PassKeeps ==
    ASSUME IInv, Pass PROVE Kept'
<1>1. PICK pods : pods = Scheduled(world.pods)
  OBVIOUS
<1>2. IsLoad(pods) /\ IsUsage(world.usage) /\ passes \in Nat /\ passes' = passes + 1
  BY <1>1, ScheduledIsLoad, BoundsAssumption DEF IInv, Legal, IsWorld, IsUsage, Counters, Pass
<1>3. DOMAIN lives' = Workloads(pods) /\ \A w \in Workloads(pods) : lives'[w] = IF w \in DOMAIN lives THEN lives[w] + 1 ELSE 1
  BY <1>1 DEF Pass
<1>4. \A w \in DOMAIN lives' : lives'[w] \in 1 .. passes'
  BY <1>2, <1>3 DEF IInv, Kept
<1>5. CASE world.settings.source = "metrics-server"
  <2>1. history' = Observe(history, pods, world.usage)
    BY <1>1, <1>5 DEF Pass
  <2>2. \A w \in DOMAIN history :
            /\ IsRing(history[w].cpu) /\ IsRing(history[w].ram)
            /\ Len(history[w].cpu) \in 1 .. Ring /\ Len(history[w].ram) = Len(history[w].cpu)
    BY DEF IInv, Kept
  <2>3. PICK g : g = history'
    OBVIOUS
  <2>4. /\ DOMAIN g \subseteq Workloads(pods)
        /\ \A w \in DOMAIN g :
               /\ IsRing(g[w].cpu) /\ IsRing(g[w].ram)
               /\ Len(g[w].cpu) \in 1 .. Ring /\ Len(g[w].ram) = Len(g[w].cpu)
               /\ Len(g[w].cpu) <= IF w \in DOMAIN history THEN Len(history[w].cpu) + 1 ELSE 1
    BY <1>2, <2>1, <2>2, <2>3, ObserveKeeps
  <2>5. \A w \in DOMAIN g : w \in DOMAIN lives' /\ Len(g[w].cpu) <= lives'[w]
    <3> SUFFICES ASSUME NEW w \in DOMAIN g PROVE w \in DOMAIN lives' /\ Len(g[w].cpu) <= lives'[w]
      OBVIOUS
    <3>1. w \in DOMAIN lives'
      BY <1>3, <2>4
    <3>2. lives'[w] = (IF w \in DOMAIN lives THEN lives[w] + 1 ELSE 1) /\ Len(g[w].cpu) \in Nat
      BY <1>3, <2>4, <3>1
    <3>3. CASE w \in DOMAIN history
      <4>1. w \in DOMAIN lives /\ lives[w] \in Nat /\ Len(history[w].cpu) <= lives[w] /\ Len(history[w].cpu) \in Nat
        BY <3>3 DEF IInv, Kept
      <4>2. Len(g[w].cpu) <= Len(history[w].cpu) + 1
        BY <2>4, <3>3
      <4> QED BY <3>1, <3>2, <4>1, <4>2
    <3>4. CASE w \notin DOMAIN history
      <4>1. Len(g[w].cpu) <= 1
        BY <2>4, <3>4
      <4>2. w \in DOMAIN lives => lives[w] \in 1 .. passes
        BY DEF IInv, Kept
      <4> QED BY <1>2, <3>1, <3>2, <4>1, <4>2
    <3> QED BY <3>3, <3>4
  <2>6. world' = world
    BY DEF Pass
  <2> QED BY <1>4, <1>5, <2>3, <2>4, <2>5, <2>6 DEF Kept
<1>6. CASE world.settings.source # "metrics-server"
  <2>1. history' = history /\ history = <<>> /\ world' = world
    BY <1>6 DEF Pass, IInv, Kept
  <2>2. DOMAIN history' = {}
    BY <2>1
  <2> QED BY <1>4, <2>1, <2>2 DEF Kept
<1> QED BY <1>5, <1>6

\* The invariant holds at first, before any report.
LEMMA InitIInv == ASSUME Init PROVE IInv
<1>1. Legal(world)
  BY FirstIsLegal DEF Init
<1>2. Kept
  BY DEF Init, Kept
<1>3. Counters /\ Current
  BY BoundsAssumption DEF Init, Counters, Current
<1> QED BY <1>1, <1>2, <1>3 DEF IInv

\* Every step keeps the invariant: a change keeps the world legal and takes the report
\* away, a pass makes it of the world as it is.
LEMMA StepIInv == ASSUME IInv, [Next]_vars PROVE IInv'
<1>1. CASE ChangeStep
  <2>1. Legal(world')
    BY <1>1, ChangesAreLegal DEF IInv
  <2>2. /\ moves < MaxMoves /\ moves' = moves + 1 /\ report' = None
        /\ history' = history /\ lives' = lives /\ passes' = passes
    BY <1>1, ChangesAreCounted
  <2>3. world'.settings = world.settings
    BY <1>1, SettingsStay DEF IInv
  <2>4. Kept'
    BY <2>2, <2>3 DEF IInv, Kept
  <2>5. Counters'
    BY <2>2, BoundsAssumption DEF IInv, Counters
  <2>6. Current'
    BY <2>2 DEF Current
  <2>7. Legal(world)'
    BY <2>1
  <2> QED BY <2>4, <2>5, <2>6, <2>7 DEF IInv
<1>2. CASE Pass
  <2>1. Kept'
    BY <1>2, PassKeeps
  <2>2. world' = world /\ moves' = moves /\ passes < MaxPasses /\ passes' = passes + 1
    BY <1>2 DEF Pass
  <2>3. Counters'
    BY <2>2, BoundsAssumption DEF IInv, Counters
  <2>4. Legal(world)'
    BY <2>2 DEF IInv
  <2>5. report' = ReportOf(world', history')
    BY <1>2, <2>2 DEF Pass
  <2>6. Current'
    BY <2>5 DEF Current
  <2> QED BY <2>1, <2>3, <2>4, <2>6 DEF IInv
<1>3. CASE UNCHANGED vars
  BY <1>3 DEF vars, IInv, Counters, Kept, Current
<1> QED BY <1>1, <1>2, <1>3 DEF Next, ChangeStep

\* Whatever happens to the cluster, the world stays one whose nodes and vms can be told
\* apart, the rings hold what was sampled since their workload was last there, and a report
\* that stands is the one the pass makes of the world as it is (k8s/source.py).
THEOREM AlwaysIInv == Spec => []IInv
<1>1. Init => IInv
  BY InitIInv
<1>2. IInv /\ [Next]_vars => IInv'
  BY StepIInv
<1> QED BY <1>1, <1>2, PTL DEF Spec

----------------------------------------------------------------------------
(* A node and its vm.                                                       *)

\* Without names, what a lookup finds is what one of the three keys finds.
LEMMA KeysDecide ==
    ASSUME NEW n, NEW T, NEW byName, ~byName, Lookup(n, T, byName) # None
    PROVE  \E k \in 1 .. 3 : Lookup(n, T, byName) = Pick({v \in T : KeyHits(n, k, v)})
<1> DEFINE P(k) == Pick({v \in T : KeyHits(n, k, v)})
           V == {P(k) : k \in 1 .. 3}
           S1 == IF n.pid = None THEN <<>> ELSE <<P(1)>>
           S2 == IF n.uuid = None THEN <<>> ELSE <<P(2), P(3)>>
<1>1. /\ n.pid # None =>
             P(1) = IF n.pid[1] = "uuid" THEN Pick({t \in T : n.pid[2] \in t.uuids})
                    ELSE Pick({t \in T : t.uid = n.pid[2]})
      /\ n.uuid # None => /\ P(2) = Pick({t \in T : n.uuid \in t.uuids})
                          /\ P(3) = Pick({t \in T : Swapped(n.uuid) \in t.uuids})
  <2>1. ASSUME n.pid # None, n.pid[1] = "uuid"
        PROVE  {v \in T : KeyHits(n, 1, v)} = {t \in T : n.pid[2] \in t.uuids}
    BY <2>1 DEF KeyHits
  <2>2. ASSUME n.pid # None, n.pid[1] # "uuid"
        PROVE  {v \in T : KeyHits(n, 1, v)} = {t \in T : t.uid = n.pid[2]}
    BY <2>2 DEF KeyHits
  <2>3. ASSUME n.uuid # None
        PROVE  /\ {v \in T : KeyHits(n, 2, v)} = {t \in T : n.uuid \in t.uuids}
               /\ {v \in T : KeyHits(n, 3, v)} = {t \in T : Swapped(n.uuid) \in t.uuids}
    BY <2>3 DEF KeyHits
  <2> QED BY <2>1, <2>2, <2>3
<1>2. Lookups(n, T, byName) = S1 \o S2 \o <<>>
  <2> HIDE DEF P
  <2> QED BY <1>1 DEF Lookups
<1>3. P(1) \in V /\ P(2) \in V /\ P(3) \in V
  OBVIOUS
<1>4. S1 \in Seq(V) /\ S2 \in Seq(V)
  <2> HIDE DEF P, V
  <2> QED BY <1>3
<1>5. PICK a : a = Lookups(n, T, byName)
  OBVIOUS
<1>6. a \in Seq(V)
  <2> HIDE DEF S1, S2, V
  <2>1. <<>> \in Seq(V)
    OBVIOUS
  <2>2. S1 \o S2 \in Seq(V)
    BY <1>4
  <2>3. S1 \o S2 \o <<>> \in Seq(V)
    BY <2>1, <2>2
  <2> QED BY <1>2, <1>5, <2>3
<1>7. DOMAIN a = 1 .. Len(a) /\ Len(a) \in Nat /\ \A i \in DOMAIN a : a[i] \in V
  <2> HIDE DEF V
  <2> QED BY <1>6
<1>8. PICK found : found = {i \in DOMAIN a : a[i] # None}
  OBVIOUS
<1>9. Lookup(n, T, byName) = IF found = {} THEN None ELSE a[Min(found)]
  BY <1>5, <1>8 DEF Lookup
<1>10. found # {}
  BY <1>9
<1>11. Min(found) \in found
  <2>1. IsFiniteSet(1 .. Len(a))
    BY <1>7, FS_Interval
  <2>2. IsFiniteSet(found) /\ found \subseteq Int
    BY <1>7, <1>8, <2>1, FS_Subset
  <2> QED BY <1>10, <2>2, SmallestMember
<1>12. Lookup(n, T, byName) \in V
  <2> HIDE DEF V
  <2> QED BY <1>7, <1>8, <1>9, <1>10, <1>11
<1> QED BY <1>12

\* What is picked of the hits is one of them, and all are of its uid.
LEMMA PickIsTheOne ==
    ASSUME NEW hits, IsFiniteSet(hits), Pick(hits) \notin {None, Refused}
    PROVE  Pick(hits) \in hits /\ \A t \in hits : t.uid = Pick(hits).uid
<1>1. PICK f, uids : f = [t \in hits |-> t.uid] /\ uids = {f[t] : t \in hits}
  OBVIOUS
<1>2. uids = {t.uid : t \in hits}
  BY <1>1
<1>3. IsFiniteSet(uids)
  BY <1>1, ImageIsFinite
<1>4. uids # {} /\ Cardinality(uids) = 1
  BY <1>2 DEF Pick
<1>5. PICK u : uids = {u}
  BY <1>3, <1>4, FS_Singleton
<1>6. \A t \in hits : t.uid = u
  BY <1>2, <1>5
<1>7. hits # {}
  BY <1>2, <1>4
<1>8. Pick(hits) = CHOOSE t \in hits : TRUE
  BY <1>2, <1>4 DEF Pick
<1>9. Pick(hits) \in hits
  BY <1>7, <1>8
<1> QED BY <1>6, <1>9

\* What is mapped is what was looked up, and was found.
LEMMA MatchIsSound ==
    ASSUME NEW nodes, NEW targets, NEW byName, NEW n \in DOMAIN Match(nodes, targets, byName)
    PROVE  /\ n \in nodes /\ Match(nodes, targets, byName)[n] = Lookup(n, targets, byName)
           /\ Match(nodes, targets, byName)[n] \notin {None, Refused}
BY DEF Match, RestrictValues, Restrict

\* A node whose vm is there is mapped to it: the key that found a vm finds the node's own
\* too, and a key that finds two is refused.
LEMMA NodesOwnVm ==
    ASSUME NEW w, Legal(w), NEW byName, ~byName,
           NEW n \in DOMAIN Match(w.nodes, w.vms, byName),
           RunsOn[n.name] \in {v.uid : v \in w.vms}
    PROVE  Match(w.nodes, w.vms, byName)[n].uid = RunsOn[n.name]
<1>1. /\ n \in w.nodes /\ Match(w.nodes, w.vms, byName)[n] = Lookup(n, w.vms, byName)
      /\ Lookup(n, w.vms, byName) \notin {None, Refused}
  BY MatchIsSound
<1>2. PICK k \in 1 .. 3 : Lookup(n, w.vms, byName) = Pick({v \in w.vms : KeyHits(n, k, v)})
  BY <1>1, KeysDecide
<1>3. PICK hits, t : hits = {v \in w.vms : KeyHits(n, k, v)} /\ t = Pick(hits)
  OBVIOUS
<1>4. IsFiniteSet(hits)
  BY <1>3, FS_Subset DEF Legal, IsWorld
<1>5. t \in hits /\ \A v \in hits : v.uid = t.uid
  BY <1>1, <1>2, <1>3, <1>4, PickIsTheOne
<1>6. PICK own \in w.vms : own.uid = RunsOn[n.name]
  OBVIOUS
<1>7. KeyHits(n, k, t) /\ t \in w.vms
  BY <1>3, <1>5
<1>8. t.uid = RunsOn[n.name] \/ KeyHits(n, k, own)
  BY <1>1, <1>6, <1>7 DEF Legal, Identity
<1>9. KeyHits(n, k, own) => own.uid = t.uid
  BY <1>3, <1>5, <1>6
<1> QED BY <1>1, <1>2, <1>3, <1>6, <1>8, <1>9

\* Without name matching no node is ever priced by another node's vm (mapping.py _lookup and
\* _pick: provider id, uuid, uuid in the other byte order, and a key that finds two is refused).
THEOREM NobodyPaysForAnother == Spec => []NobodyElsesMoney
<1>1. IInv => NobodyElsesMoney
  <2> SUFFICES ASSUME IInv, Reported, ~world.settings.byName, NEW n \in report.split.priced,
                      RunsOn[n.name] \in {v.uid : v \in world.vms}
               PROVE  Mapping[n].uid = RunsOn[n.name]
    BY DEF NobodyElsesMoney
  <2>1. report = ReportOf(world, history)
    BY DEF IInv, Current, Reported
  <2>2. n \in DOMAIN Mapping
    BY <2>1 DEF ReportOf, Split, Mapping
  <2>3. PICK byName : byName = world.settings.byName
    OBVIOUS
  <2>4. ~byName /\ n \in DOMAIN Match(world.nodes, world.vms, byName) /\ Legal(world)
    BY <2>2, <2>3 DEF Mapping, IInv
  <2>5. Match(world.nodes, world.vms, byName)[n].uid = RunsOn[n.name]
    BY <2>4, NodesOwnVm
  <2> QED BY <2>3, <2>5 DEF Mapping
<1> QED BY <1>1, AlwaysIInv, PTL

----------------------------------------------------------------------------
(* What a workload is advised.                                              *)

\* A size advised for a workload is under what some replica asks, and never under what
\* was measured of a dimension that fits its request.
LEMMA FitIsLess ==
    ASSUME NEW a \in Amounts, NEW row, FitRequest(a, row) # a
    PROVE  FitRequest(a, row)[1] < a[1] \/ FitRequest(a, row)[2] < a[2]
<1>1. a[1] \in Nat /\ a[2] \in Nat /\ a = <<a[1], a[2]>>
  BY AmountParts
<1>2. PICK x, y : /\ x = (IF a[1] = 0 THEN 0 ELSE Fit(row.vcpu * 100, a[1]))
                  /\ y = (IF a[2] = 0 THEN 0 ELSE Fit(row.ram * 100, a[2]))
  OBVIOUS
<1>3. FitRequest(a, row) = <<x, y>>
  BY <1>2 DEF FitRequest
<1>4. x # a[1] \/ y # a[2]
  BY <1>1, <1>3
<1>5. x # a[1] => x < a[1]
  BY <1>2 DEF Fit, AtMost
<1>6. y # a[2] => y < a[2]
  BY <1>2 DEF Fit, AtMost
<1> QED BY <1>3, <1>4, <1>5, <1>6

\* What memory is shrunk to holds the load.
LEMMA FitHoldsTheLoad ==
    ASSUME NEW a \in Amounts, NEW row, row.ram \in Nat, a[2] > 0, row.ram <= a[2]
    PROVE  FitRequest(a, row)[2] \in Nat /\ row.ram <= FitRequest(a, row)[2]
<1>1. PICK r, n : r = row.ram /\ n = a[2]
  OBVIOUS
<1>2. r \in Nat /\ n \in Nat /\ n > 0 /\ r <= n
  BY <1>1, AmountParts
<1>3. FitRequest(a, row)[2] = Fit(r * 100, n)
  BY <1>1, <1>2 DEF FitRequest
<1>4. TargetPct \in 1 .. 100
  BY TuningAssumption
<1>5. PICK m, x : m = r * 100 + TargetPct - 1 /\ x = m \div TargetPct
  OBVIOUS
<1>6. m \in Int /\ r * TargetPct <= m
  <2>1. PICK d : d = 100 - TargetPct
    OBVIOUS
  <2>2. d \in Nat /\ TargetPct = 100 - d
    BY <1>4, <2>1
  <2>3. r * d \in Nat
    BY <1>2, <2>2
  <2>4. r * TargetPct = r * 100 - r * d
    BY <1>2, <2>2
  <2> QED BY <1>2, <1>4, <1>5, <2>3, <2>4
<1>7. x \in Int /\ r <= x
  BY <1>2, <1>4, <1>5, <1>6, DivIsAtLeast, DivRoundsDown
<1>8. Fit(r * 100, n) = AtMost(AtLeast(1, x), n)
  BY <1>5 DEF Fit
<1>9. AtMost(AtLeast(1, x), n) \in Nat /\ r <= AtMost(AtLeast(1, x), n)
  BY <1>2, <1>7 DEF AtMost, AtLeast
<1> QED BY <1>1, <1>3, <1>8, <1>9

\* The largest request of the replicas is one of them, on each dimension.
LEMMA LargestAsk ==
    ASSUME NEW G, IsLoad(G), G # {}, NEW i \in {1, 2}
    PROVE  /\ Max({p.ask[i] : p \in G}) \in Nat
           /\ \E p \in G : p.ask[i] = Max({x.ask[i] : x \in G})
           /\ \A p \in G : p.ask[i] <= Max({x.ask[i] : x \in G})
<1>1. PICK f, T : f = [p \in G |-> p.ask[i]] /\ T = {f[p] : p \in G}
  OBVIOUS
<1>2. T = {p.ask[i] : p \in G} /\ T \subseteq Nat /\ T # {}
  BY <1>1 DEF IsLoad
<1>3. IsFiniteSet(T)
  BY <1>1, ImageIsFinite DEF IsLoad
<1>4. Max(T) \in T /\ \A x \in T : x <= Max(T)
  <2>1. T \subseteq Int
    BY <1>2
  <2> QED BY <1>2, <1>3, <2>1, LargestMember
<1> QED BY <1>2, <1>4

\* Only a workload whose requests do not already fit is advised, and only one that is not short of memory.
LEMMA RightsizeIsAdvised ==
    ASSUME NEW w, NEW G, NEW row, NEW mapping, NEW spend,
           NEW f \in AdviseOne(w, G, row, mapping, spend), f.kind = "rightsize-workload",
           NEW a, a = <<Max({p.ask[1] : p \in G}), Max({p.ask[2] : p \in G})>>
    PROVE  /\ f.ref = w /\ f.fit = FitRequest(a, row) /\ f.fit # a
           /\ ~(a[2] > 0 /\ row.ram > a[2])
<1> DEFINE fit == FitRequest(a, row)
           monthly == Handback95(G, fit, mapping, spend)
           rise == [kind |-> "underrequested-workload", ref |-> w, monthly |-> 0, fit |-> a]
           fall == [kind |-> "rightsize-workload", ref |-> w, monthly |-> monthly, fit |-> fit]
<1>1. AdviseOne(w, G, row, mapping, spend) =
        IF a[1] <= 0 /\ a[2] <= 0 THEN {}
        ELSE IF a[2] > 0 /\ row.ram > a[2] THEN {rise}
        ELSE IF fit # a /\ monthly >= MinSavings THEN {fall} ELSE {}
  BY DEF AdviseOne
<1>2. rise.kind = "underrequested-workload" /\ fall.ref = w /\ fall.fit = fit
  OBVIOUS
<1> HIDE DEF fit, monthly, rise, fall
<1>3. f = fall /\ ~(a[2] > 0 /\ row.ram > a[2]) /\ fit # a
  BY <1>1, <1>2
<1> QED BY <1>2, <1>3 DEF fit

\* prometheus: the row of a workload is its busiest replica's.
LEMMA RowIsTheBusiest ==
    ASSUME NEW pods, IsLoad(pods), NEW usage, IsUsage(usage), NEW w \in DOMAIN FoldRows(pods, usage)
    PROVE  /\ FoldRows(pods, usage)[w].ram \in Nat
           /\ \A p \in Replicas(pods, w) : <<p.ns, p.name>> \in DOMAIN usage =>
                  usage[<<p.ns, p.name>>].ask[2] <= FoldRows(pods, usage)[w].ram
<1>1. PICK U : U = MeasuredOf(pods, usage, w)
  OBVIOUS
<1>2. PICK vc, ra, sa : /\ vc = Max({u.ask[1] : u \in U}) /\ ra = Max({u.ask[2] : u \in U})
                        /\ sa = Max({u.samples : u \in U})
  OBVIOUS
<1>3. FoldRows(pods, usage)[w] = [vcpu |-> vc, ram |-> ra, samples |-> sa] /\ U # {}
  BY <1>1, <1>2 DEF FoldRows, RestrictValues, Restrict
<1>4. IsFiniteSet(U) /\ (\A u \in U : u.ask[2] \in Nat)
  BY <1>1, MeasuredIsSound
<1>5. ra \in Nat /\ \A u \in U : u.ask[2] <= ra
  <2>1. 2 \in {1, 2}
    OBVIOUS
  <2> QED BY <1>2, <1>3, <1>4, <2>1, BusiestIsMeasured
<1>6. FoldRows(pods, usage)[w].ram = ra
  BY <1>3
<1>7. \A p \in Replicas(pods, w) : <<p.ns, p.name>> \in DOMAIN usage => usage[<<p.ns, p.name>>] \in U
  BY <1>1 DEF MeasuredOf
<1> QED BY <1>5, <1>6, <1>7

\* No workload is ever advised to shrink on fewer samples than the minimum since it was last
\* there, to what all its replicas already ask, or below its busiest one's memory
\* (workloads.py, and the history the source keeps).
THEOREM NothingIsShrunkUnmeasured == Spec => []NothingUnmeasuredShrunk
<1>1. IInv => NothingUnmeasuredShrunk
  <2> SUFFICES ASSUME IInv, Reported, NEW f \in report.work, f.kind = "rightsize-workload"
               PROVE  /\ world.settings.source = "metrics-server" =>
                            lives[f.ref] >= UsageSamples /\ Len(history[f.ref].cpu) <= lives[f.ref]
                      /\ \E p \in Replicas(OnNodes, f.ref) : f.fit[1] < p.ask[1] \/ f.fit[2] < p.ask[2]
                      /\ world.settings.source = "prometheus" =>
                            \A p, q \in Replicas(OnNodes, f.ref) :
                                q.ask[2] > 0 /\ <<p.ns, p.name>> \in DOMAIN world.usage =>
                                    world.usage[<<p.ns, p.name>>].ask[2] <= f.fit[2]
    BY DEF NothingUnmeasuredShrunk
  <2>1. PICK pods, rows, mapping :
            /\ pods = OnNodes
            /\ rows = CASE world.settings.source = "prometheus" -> FoldRows(pods, world.usage)
                        [] world.settings.source = "metrics-server" -> Rows(history, pods)
                        [] OTHER -> <<>>
            /\ mapping = Mapping
    OBVIOUS
  <2>2. report = ReportOf(world, history)
    BY DEF IInv, Current, Reported
  <2>3. report.work = Advise(mapping, pods, rows, world.spend)
    BY <2>1, <2>2 DEF ReportOf, OnNodes, Mapping
  <2>4. PICK w \in DOMAIN rows \cap Workloads(pods) :
            f \in AdviseOne(w, Replicas(pods, w), rows[w], mapping, world.spend)
    BY <2>3 DEF Advise
  <2>5. PICK G, a, row : /\ G = Replicas(pods, w)
                         /\ a = <<Max({p.ask[1] : p \in G}), Max({p.ask[2] : p \in G})>>
                         /\ row = rows[w]
    OBVIOUS
  <2>6. f.ref = w /\ f.fit = FitRequest(a, row) /\ f.fit # a /\ ~(a[2] > 0 /\ row.ram > a[2])
    BY <2>4, <2>5, RightsizeIsAdvised
  <2>7. IsLoad(pods) /\ IsUsage(world.usage)
    BY <2>1, ScheduledIsLoad DEF IInv, Legal, IsWorld, IsUsage, OnNodes
  <2>8. G # {} /\ IsLoad(G)
    BY <2>4, <2>5, <2>7, FS_Subset DEF Workloads, Replicas, IsLoad
  <2>9. PICK x, y : x = Max({p.ask[1] : p \in G}) /\ y = Max({p.ask[2] : p \in G})
    OBVIOUS
  <2>10. /\ x \in Nat /\ (\E p \in G : p.ask[1] = x)
         /\ y \in Nat /\ (\E p \in G : p.ask[2] = y) /\ (\A p \in G : p.ask[2] <= y)
    <3>1. 1 \in {1, 2} /\ 2 \in {1, 2}
      OBVIOUS
    <3> QED BY <2>8, <2>9, <3>1, LargestAsk
  <2>11. a \in Amounts /\ a[1] = x /\ a[2] = y
    BY <2>5, <2>9, <2>10, PairIsAmount
  <2>12. \E p \in Replicas(OnNodes, f.ref) : f.fit[1] < p.ask[1] \/ f.fit[2] < p.ask[2]
    <3>1. f.fit[1] < x \/ f.fit[2] < y
      BY <2>6, <2>11, FitIsLess
    <3> QED BY <2>1, <2>5, <2>6, <2>10, <3>1
  <2>13. ASSUME world.settings.source = "metrics-server"
         PROVE  lives[f.ref] >= UsageSamples /\ Len(history[f.ref].cpu) <= lives[f.ref]
    <3>1. rows = Rows(history, pods)
      BY <2>1, <2>13
    <3>2. w \in DOMAIN history /\ AtMost(Len(history[w].cpu), Len(history[w].ram)) >= UsageSamples
      BY <2>4, <3>1 DEF Rows
    <3>3. /\ Len(history[w].cpu) \in Nat /\ Len(history[w].ram) = Len(history[w].cpu)
          /\ w \in DOMAIN lives /\ Len(history[w].cpu) <= lives[w] /\ lives[w] \in 1 .. passes
      BY <3>2, UsageAssumption DEF IInv, Kept
    <3>4. passes \in Nat /\ UsageSamples \in Nat
      BY BoundsAssumption, UsageAssumption DEF IInv, Counters
    <3> QED BY <2>6, <3>2, <3>3, <3>4 DEF AtMost
  <2>14. ASSUME world.settings.source = "prometheus",
                NEW p \in Replicas(OnNodes, f.ref), NEW q \in Replicas(OnNodes, f.ref),
                q.ask[2] > 0, <<p.ns, p.name>> \in DOMAIN world.usage
         PROVE  world.usage[<<p.ns, p.name>>].ask[2] <= f.fit[2]
    <3>1. rows = FoldRows(pods, world.usage)
      BY <2>1, <2>14
    <3>2. p \in G /\ q \in G
      BY <2>1, <2>5, <2>6
    <3>3. q.ask[2] \in Nat /\ y > 0
      BY <2>8, <2>10, <2>14, <3>2 DEF IsLoad
    <3>4. w \in DOMAIN FoldRows(pods, world.usage) /\ row = FoldRows(pods, world.usage)[w]
      BY <2>4, <2>5, <3>1
    <3>5. row.ram \in Nat /\ world.usage[<<p.ns, p.name>>].ask[2] <= row.ram
      BY <2>5, <2>7, <2>14, <3>2, <3>4, RowIsTheBusiest
    <3>6. row.ram <= y
      BY <2>6, <2>10, <2>11, <3>3, <3>5
    <3>7. f.fit[2] \in Nat /\ row.ram <= f.fit[2]
      BY <2>6, <2>11, <3>3, <3>5, <3>6, FitHoldsTheLoad
    <3>8. world.usage[<<p.ns, p.name>>].ask[2] \in Nat
      BY <2>7, <2>14, AmountParts DEF IsUsage
    <3> QED BY <3>5, <3>7, <3>8
  <2> QED BY <2>12, <2>13, <2>14
<1> QED BY <1>1, AlwaysIInv, PTL

----------------------------------------------------------------------------
(* What a node costs, and how its money is divided.                         *)

\* What a vm cost is an amount over at least a day.
LEMMA CostIsAmount ==
    ASSUME NEW spend, IsSpend(spend), NEW t, CostOf(spend, t) # None
    PROVE  CostOf(spend, t).amount \in Nat /\ CostOf(spend, t).days \in Nat \ {0}
<1>1. PICK hits : hits = IF {r \in spend.records : t.uid \in r.keys} # {} THEN {r \in spend.records : t.uid \in r.keys}
                         ELSE {r \in spend.records : t.name \in r.keys}
  OBVIOUS
<1>2. /\ hits \subseteq spend.records /\ IsFiniteSet(spend.records)
      /\ \A r \in spend.records : r.amount \in Nat /\ r.to \in Int /\ r.from \in Int
  BY <1>1 DEF IsSpend
<1>3. IsFiniteSet(hits)
  BY <1>2, FS_Subset
<1>4. PICK f, to, from, d :
          /\ f = [r \in hits |-> r.amount] /\ to = [r \in hits |-> r.to] /\ from = [r \in hits |-> r.from]
          /\ d = AtLeast(1, Max({r.to : r \in hits}) - Min({r.from : r \in hits}) + 1)
  OBVIOUS
<1>5. CostOf(spend, t) = IF hits = {} THEN None ELSE [amount |-> SumFunctionOnSet(f, hits), days |-> d]
  BY <1>1, <1>4 DEF CostOf, Sum
<1>6. SumFunctionOnSet(f, hits) \in Nat
  <2>1. \A r \in hits : f[r] \in Nat
    BY <1>2, <1>4
  <2> QED BY <1>3, <2>1, SumOfNats
<1>7. hits # {}
  BY <1>5
<1>8. Max({r.to : r \in hits}) \in Int
  <2>1. PICK T : T = {to[r] : r \in hits}
    OBVIOUS
  <2>2. T = {r.to : r \in hits} /\ T \subseteq Int /\ T # {}
    BY <1>2, <1>4, <1>7, <2>1
  <2>3. IsFiniteSet(T)
    BY <1>3, <2>1, ImageIsFinite
  <2>4. Max(T) \in T
    BY <2>2, <2>3, LargestMember
  <2> QED BY <2>2, <2>4
<1>9. Min({r.from : r \in hits}) \in Int
  <2>1. PICK T : T = {from[r] : r \in hits}
    OBVIOUS
  <2>2. T = {r.from : r \in hits} /\ T \subseteq Int /\ T # {}
    BY <1>2, <1>4, <1>7, <2>1
  <2>3. IsFiniteSet(T)
    BY <1>3, <2>1, ImageIsFinite
  <2>4. Min(T) \in T
    BY <2>2, <2>3, SmallestMember
  <2> QED BY <2>2, <2>4
<1>10. d \in Nat \ {0}
  BY <1>4, <1>8, <1>9 DEF AtLeast
<1> QED BY <1>5, <1>6, <1>7, <1>10

\* By the month it is a number.
LEMMA MonthlyIsInt ==
    ASSUME NEW spend, IsSpend(spend), NEW t, CostOf(spend, t) # None
    PROVE  Monthly(CostOf(spend, t)) \in Int
<1>1. PICK a, d : a = CostOf(spend, t).amount /\ d = CostOf(spend, t).days
  OBVIOUS
<1>2. a \in Nat /\ d \in Nat \ {0}
  BY <1>1, CostIsAmount
<1>3. a * HoursPerMonth \in Int /\ d * HoursPerDay \in Nat \ {0}
  BY <1>2 DEF HoursPerMonth, HoursPerDay
<1>4. (a * HoursPerMonth) \div (d * HoursPerDay) \in Int
  BY <1>3, DivRoundsDown
<1> QED BY <1>1, <1>4 DEF Monthly

\* The cpu and ram weights of a pool are no more than a whole together.
LEMMA WeightsAreOfAWhole ==
    ASSUME NEW spend, IsSpend(spend), NEW t
    PROVE  LET w == WeightsOf(spend, t) IN {w.cpu, w.ram} \subseteq Nat /\ w.cpu + w.ram <= 100
<1> DEFINE line == LastLine(spend, t.pool, "weights")
<1>1. CASE line = None
  BY <1>1 DEF WeightsOf
<1>2. CASE line # None
  <2>1. PICK lines : lines = {i \in DOMAIN spend.pools : spend.pools[i].pool = t.pool /\ spend.pools[i].weights # None}
    OBVIOUS
  <2>2. lines # {} /\ line = spend.pools[Max(lines)]
    BY <1>2, <2>1 DEF LastLine
  <2>3. IsFiniteSet(lines) /\ lines \subseteq Int
    <3>1. DOMAIN spend.pools = 1 .. Len(spend.pools) /\ Len(spend.pools) \in Nat
      BY DEF IsSpend
    <3>2. IsFiniteSet(1 .. Len(spend.pools))
      BY <3>1, FS_Interval
    <3>3. lines \subseteq 1 .. Len(spend.pools)
      BY <2>1, <3>1
    <3>4. IsFiniteSet(lines)
      BY <3>2, <3>3, FS_Subset
    <3>5. lines \subseteq Int
      BY <3>1, <3>3
    <3> QED BY <3>4, <3>5
  <2>4. Max(lines) \in lines
    BY <2>2, <2>3, LargestMember
  <2>5. PICK w : w = spend.pools[Max(lines)].weights
    OBVIOUS
  <2>6. {w.cpu, w.ram, w.storage} \subseteq Nat /\ w.cpu + w.ram + w.storage = 100
    <3>1. PICK i : i = Max(lines)
      OBVIOUS
    <3>2. i \in DOMAIN spend.pools /\ w # None /\ w = spend.pools[i].weights
      BY <2>1, <2>4, <2>5, <3>1
    <3> HIDE DEF line
    <3> QED BY <3>2 DEF IsSpend
  <2>7. WeightsOf(spend, t) = w
    BY <1>2, <2>2, <2>5 DEF WeightsOf
  <2> QED BY <2>6, <2>7
<1> QED BY <1>1, <1>2

\* The share of a node that iron stands for is a number.
LEMMA NodeShareIsNat ==
    ASSUME NEW m \in Nat, NEW w \in Nat, NEW used \in Nat, NEW cap \in Nat
    PROVE  NodeShare(m, w, used, cap) \in Nat
<1>1. CASE cap <= 0 \/ used <= 0
  BY <1>1 DEF NodeShare
<1>2. CASE cap > 0 /\ used > 0
  <2>1. PICK a, b : a = m * w * used /\ b = 100 * cap
    OBVIOUS
  <2>2. m * w \in Nat
    OBVIOUS
  <2>3. a \in Nat /\ b \in Nat \ {0}
    BY <1>2, <2>1, <2>2
  <2>4. 0 <= a \div b /\ a \div b \in Int
    <3>1. 0 * b <= a
      BY <2>3
    <3> QED BY <2>3, <3>1, DivIsAtLeast, DivRoundsDown
  <2> QED BY <1>2, <2>1, <2>4 DEF NodeShare, Share
<1> QED BY <1>1, <1>2

\* A part of a node's iron stands for no more than the dimension's part of its money.
LEMMA NodeShareOfPart ==
    ASSUME NEW m \in Nat, NEW w \in Nat, NEW used \in Nat, NEW cap \in Nat, used <= cap
    PROVE  NodeShare(m, w, used, cap) <= (m * w) \div 100
<1>1. PICK k : k = m * w
  OBVIOUS
<1>2. k \in Nat
  BY <1>1
<1>3. CASE cap <= 0 \/ used <= 0
  <2>1. 0 <= k \div 100
    <3>1. 0 * 100 <= k
      BY <1>2
    <3> QED BY <1>2, <3>1, DivIsAtLeast
  <2> QED BY <1>1, <1>3, <2>1 DEF NodeShare
<1>4. CASE cap > 0 /\ used > 0
  <2>1. PICK a, b, q : a = k * used /\ b = 100 * cap /\ q = a \div b
    OBVIOUS
  <2>2. a \in Int /\ b \in Nat \ {0}
    BY <1>2, <1>4, <2>1
  <2>3. q \in Int /\ q * b <= a
    BY <2>1, <2>2, DivRoundsDown
  <2>4. a <= k * cap
    <3>1. PICK d : d = cap - used
      OBVIOUS
    <3>2. d \in Nat /\ cap = used + d
      BY <3>1
    <3>3. k * d \in Nat
      BY <1>2, <3>2
    <3>4. k * cap = k * used + k * d
      BY <1>2, <3>2
    <3> QED BY <1>2, <2>1, <3>3, <3>4
  <2>5. q * b = (q * 100) * cap
    BY <2>1, <2>3
  <2>6. (q * 100) * cap <= k * cap
    BY <1>2, <2>1, <2>2, <2>3, <2>4, <2>5
  <2>7. q * 100 <= k
    <3>1. PICK x : x = q * 100
      OBVIOUS
    <3>2. x \in Int /\ x * cap <= k * cap
      BY <2>3, <2>6, <3>1
    <3>3. x <= k
      <4> SUFFICES ASSUME k < x PROVE FALSE
        BY <1>2, <3>2
      <4>1. PICK d : d = x - k - 1
        OBVIOUS
      <4>2. d \in Nat /\ x = k + 1 + d
        BY <1>2, <3>2, <4>1
      <4>3. d * cap \in Nat
        BY <4>2
      <4>4. x * cap = k * cap + cap + d * cap
        BY <1>2, <4>2
      <4>5. k * cap \in Nat
        BY <1>2
      <4> QED BY <1>4, <3>2, <4>3, <4>4, <4>5
    <3> QED BY <3>1, <3>3
  <2>8. q <= k \div 100
    BY <1>2, <2>3, <2>7, DivIsAtLeast
  <2> QED BY <1>1, <1>4, <2>1, <2>8 DEF NodeShare, Share
<1> QED BY <1>3, <1>4

\* The cpu and the ram part of a sum of money are no more than it.
LEMMA PartsOfMoney ==
    ASSUME NEW m \in Nat, NEW c \in Nat, NEW r \in Nat, c + r <= 100
    PROVE  /\ (m * c) \div 100 \in Nat /\ (m * r) \div 100 \in Nat
           /\ (m * c) \div 100 + (m * r) \div 100 <= m
<1>1. PICK a, b : a = m * c /\ b = m * r
  OBVIOUS
<1>2. a \in Nat /\ b \in Nat
  BY <1>1
<1>3. PICK x, y : x = a \div 100 /\ y = b \div 100
  OBVIOUS
<1>4. x \in Int /\ x * 100 <= a /\ 0 <= x
  <2>1. 0 * 100 <= a
    BY <1>2
  <2> QED BY <1>2, <1>3, <2>1, DivRoundsDown, DivIsAtLeast
<1>5. y \in Int /\ y * 100 <= b /\ 0 <= y
  <2>1. 0 * 100 <= b
    BY <1>2
  <2> QED BY <1>2, <1>3, <2>1, DivRoundsDown, DivIsAtLeast
<1>6. a + b <= m * 100
  <2>1. PICK d : d = 100 - (c + r)
    OBVIOUS
  <2>2. d \in Nat /\ 100 = c + r + d
    BY <2>1
  <2>3. m * d \in Nat
    BY <2>2
  <2>4. m * 100 = m * c + m * r + m * d
    BY <2>2
  <2> QED BY <1>1, <2>3, <2>4
<1>7. x + y <= m
  BY <1>2, <1>4, <1>5, <1>6
<1> QED BY <1>1, <1>3, <1>4, <1>5, <1>7

\* What pods ask together is an amount.
LEMMA AskIsAmount ==
    ASSUME NEW pods, IsLoad(pods) PROVE AskOf(pods) \in Amounts /\ AskOf(pods)[1] \in Nat /\ AskOf(pods)[2] \in Nat
<1>1. PICK f, g : f = [p \in pods |-> p.ask[1]] /\ g = [p \in pods |-> p.ask[2]]
  OBVIOUS
<1>2. IsFiniteSet(pods) /\ (\A p \in pods : f[p] \in Nat) /\ (\A p \in pods : g[p] \in Nat)
  BY <1>1 DEF IsLoad
<1>3. SumFunctionOnSet(f, pods) \in Nat /\ SumFunctionOnSet(g, pods) \in Nat
  BY <1>2, SumOfNats
<1>4. AskOf(pods) = <<SumFunctionOnSet(f, pods), SumFunctionOnSet(g, pods)>>
  BY <1>1 DEF AskOf, PairSum, Sum
<1> QED BY <1>3, <1>4, PairIsAmount

\* Claims that are scaled are never more than there is to divide.
LEMMA ScaledFits ==
    ASSUME NEW S, IsFiniteSet(S), NEW claims \in [S -> Nat], NEW budget \in Nat
    PROVE  /\ Scaled(claims, budget) \in [S -> Nat]
           /\ SumFunctionOnSet(Scaled(claims, budget), S) \in Nat
           /\ SumFunctionOnSet(Scaled(claims, budget), S) <= budget
<1>1. PICK total : total = SumFunctionOnSet(claims, S)
  OBVIOUS
<1>2. total \in Nat
  BY <1>1, SumOfNats
<1>3. Sum(LAMBDA ns : claims[ns], DOMAIN claims) = total
  <2>1. [ns \in DOMAIN claims |-> claims[ns]] = claims /\ DOMAIN claims = S
    OBVIOUS
  <2> QED BY <1>1, <2>1 DEF Sum
<1>4. CASE total <= budget
  <2>1. Scaled(claims, budget) = claims
    BY <1>3, <1>4 DEF Scaled
  <2> QED BY <1>1, <1>2, <1>4, <2>1
<1>5. CASE ~(total <= budget)
  <2>1. PICK g : g = [ns \in S |-> (claims[ns] * budget) \div total]
    OBVIOUS
  <2>2. Scaled(claims, budget) = g
    BY <1>3, <1>5, <2>1 DEF Scaled
  <2>3. total \in Nat \ {0}
    BY <1>2, <1>5
  <2>4. \A x \in S : g[x] \in Nat
    <3> SUFFICES ASSUME NEW x \in S PROVE g[x] \in Nat
      OBVIOUS
    <3>1. PICK a : a = claims[x] * budget
      OBVIOUS
    <3>2. a \in Nat
      BY <3>1
    <3>3. 0 <= a \div total /\ a \div total \in Int
      <4>1. 0 * total <= a
        BY <2>3, <3>2
      <4> QED BY <2>3, <3>2, <4>1, DivIsAtLeast, DivRoundsDown
    <3> QED BY <2>1, <3>1, <3>3
  <2>5. PICK sum : sum = SumFunctionOnSet(g, S)
    OBVIOUS
  <2>6. sum \in Nat
    BY <2>4, <2>5, SumOfNats
  <2>7. sum * total <= total * budget
    <3>1. \A x \in S : claims[x] \in Int /\ g[x] = (claims[x] * budget) \div total
      BY <2>1
    <3>2. budget \in Int
      OBVIOUS
    <3>3. SumFunctionOnSet(g, S) * total <= SumFunctionOnSet(claims, S) * budget
      BY <2>3, <3>1, <3>2, SumOfShares
    <3> QED BY <1>1, <2>5, <3>3
  <2>8. sum <= budget
    <3> SUFFICES ASSUME budget < sum PROVE FALSE
      BY <2>6
    <3>1. PICK d : d = sum - budget - 1
      OBVIOUS
    <3>2. d \in Nat /\ sum = budget + 1 + d
      BY <2>6, <3>1
    <3>3. d * total \in Nat
      BY <2>3, <3>2
    <3>4. sum * total = total * budget + total + d * total
      BY <2>3, <3>2
    <3>5. total * budget \in Nat
      BY <2>3
    <3> QED BY <2>3, <2>7, <3>3, <3>4, <3>5
  <2>9. g \in [S -> Nat]
    BY <2>1, <2>4
  <2> QED BY <2>2, <2>5, <2>6, <2>8, <2>9
<1> QED BY <1>4, <1>5

\* The four parts of a node's money, none of them negative.
IsDivided(s, S, money) ==
    /\ s.claims \in [S -> Nat]
    /\ s.kubelet \in Nat /\ s.unrequested \in Nat /\ s.storage \in Nat
    /\ SumFunctionOnSet(s.claims, S) \in Nat
    /\ SumFunctionOnSet(s.claims, S) + s.kubelet + s.unrequested + s.storage = money

\* The pods of a node are pods.
LEMMA PodsOnAreThere ==
    ASSUME NEW node, NEW pods, IsLoad(pods)
    PROVE  IsLoad(PodsOn(node, pods))
<1>1. PodsOn(node, pods) \subseteq pods
  BY DEF PodsOn
<1> QED BY <1>1, FS_Subset DEF IsLoad

\* A node's money is divided without a rest: what its namespaces are charged and its three
\* buckets come to what the node cost, and none of them is negative.
LEMMA NodeIsDivided ==
    ASSUME NEW node, IsNode(node), NEW t, NEW pods, IsLoad(pods), NEW spend, IsSpend(spend),
           CostOf(spend, t) # None
    PROVE  LET S == {p.ns : p \in PodsOn(node, pods)}
           IN  IsFiniteSet(S) /\ IsDivided(NodeSplit(node, t, pods, spend), S, CostOf(spend, t).amount)
<1> DEFINE here == PodsOn(node, pods)
           money == CostOf(spend, t).amount
           w == WeightsOf(spend, t)
<1>1. here = PodsOn(node, pods) /\ money = CostOf(spend, t).amount /\ w = WeightsOf(spend, t)
  OBVIOUS
<1> HIDE DEF here, money, w
<1>2. IsLoad(here) /\ money \in Nat
  BY <1>1, PodsOnAreThere, CostIsAmount
<1>3. w.cpu \in Nat /\ w.ram \in Nat /\ w.cpu + w.ram <= 100
  BY <1>1, WeightsAreOfAWhole
<1>4. PICK a, b : a = w.cpu /\ b = w.ram
  OBVIOUS
<1> DEFINE cpu == (money * w.cpu) \div 100
           ram == (money * w.ram) \div 100
           g == Gap(node.vcpu, node.allocVcpu)
           h == Gap(node.ram, node.allocRam)
<1>5. cpu = (money * w.cpu) \div 100 /\ ram = (money * w.ram) \div 100
  OBVIOUS
<1>8. g = Gap(node.vcpu, node.allocVcpu) /\ h = Gap(node.ram, node.allocRam)
  OBVIOUS
<1> HIDE DEF cpu, ram, g, h
<1>6. cpu \in Nat /\ ram \in Nat /\ cpu + ram <= money
  BY <1>2, <1>3, <1>5, PartsOfMoney
<1>7. node.vcpu \in Nat /\ node.ram \in Nat /\ node.allocVcpu \in Nat /\ node.allocRam \in Nat
  BY DEF IsNode
<1>9. g \in Nat /\ g <= node.vcpu /\ h \in Nat /\ h <= node.ram
  BY <1>7, <1>8 DEF Gap
<1>10. PICK x, y : x = NodeShare(money, w.cpu, g, node.vcpu) /\ y = NodeShare(money, w.ram, h, node.ram)
  OBVIOUS
<1>11. x \in Nat /\ x <= cpu
  <2>1. x \in Nat
    BY <1>2, <1>3, <1>7, <1>9, <1>10, NodeShareIsNat
  <2>2. NodeShare(money, w.cpu, g, node.vcpu) <= (money * w.cpu) \div 100
    BY <1>2, <1>3, <1>7, <1>9, NodeShareOfPart
  <2> QED BY <1>5, <1>10, <2>1, <2>2
<1>12. y \in Nat /\ y <= ram
  <2>1. y \in Nat
    BY <1>2, <1>3, <1>7, <1>9, <1>10, NodeShareIsNat
  <2>2. NodeShare(money, w.ram, h, node.ram) <= (money * w.ram) \div 100
    BY <1>2, <1>3, <1>7, <1>9, NodeShareOfPart
  <2> QED BY <1>5, <1>10, <2>1, <2>2
<1>13. PICK budget : budget = cpu + ram - (x + y)
  OBVIOUS
<1>14. budget \in Nat
  BY <1>6, <1>11, <1>12, <1>13
<1>15. PICK S : S = {p.ns : p \in here}
  OBVIOUS
<1>16. IsFiniteSet(S)
  <2>1. PICK f : f = [p \in here |-> p.ns]
    OBVIOUS
  <2>2. S = {f[p] : p \in here}
    BY <1>15, <2>1
  <2> QED BY <1>2, <2>2, ImageIsFinite DEF IsLoad
<1> DEFINE part(n) == NodeShare(money, w.cpu, n[1], node.vcpu) + NodeShare(money, w.ram, n[2], node.ram)
<1>17. PICK asked : asked = [ns \in S |-> part(AskOf({p \in here : p.ns = ns}))]
  OBVIOUS
<1>18. asked \in [S -> Nat]
  <2> SUFFICES ASSUME NEW ns \in S PROVE part(AskOf({p \in here : p.ns = ns})) \in Nat
    BY <1>17
  <2>1. IsLoad({p \in here : p.ns = ns})
    BY <1>2, FS_Subset DEF IsLoad
  <2>2. PICK n : n = AskOf({p \in here : p.ns = ns})
    OBVIOUS
  <2>3. n[1] \in Nat /\ n[2] \in Nat
    BY <2>1, <2>2, AskIsAmount
  <2>4. NodeShare(money, w.cpu, n[1], node.vcpu) \in Nat
    BY <1>2, <1>3, <1>7, <2>3, NodeShareIsNat
  <2>5. NodeShare(money, w.ram, n[2], node.ram) \in Nat
    BY <1>2, <1>3, <1>7, <2>3, NodeShareIsNat
  <2> QED BY <2>2, <2>4, <2>5
<1>19. PICK claims : claims = Scaled(asked, budget)
  OBVIOUS
<1>20. PICK sum : sum = SumFunctionOnSet(claims, S)
  OBVIOUS
<1>21. claims \in [S -> Nat] /\ sum \in Nat /\ sum <= budget
  BY <1>14, <1>16, <1>18, <1>19, <1>20, ScaledFits
<1>22. SumFunctionOnSet([ns \in DOMAIN claims |-> claims[ns]], DOMAIN claims) = sum
  <2>1. [ns \in DOMAIN claims |-> claims[ns]] = claims /\ DOMAIN claims = S
    BY <1>21
  <2> QED BY <1>20, <2>1
<1>23. PICK s : s = NodeSplit(node, t, pods, spend)
  OBVIOUS
<1>24. part(<<g, h>>) = x + y
  BY <1>10
<1>25. s = [claims |-> claims, kubelet |-> x + y, storage |-> money - cpu - ram,
            unrequested |-> cpu + ram - (x + y) - sum]
  <2>1. s = LET claimed == Scaled([ns \in {p.ns : p \in here} |-> part(AskOf({p \in here : p.ns = ns}))],
                                  cpu + ram - part(<<g, h>>))
            IN  [claims |-> claimed, kubelet |-> part(<<g, h>>), storage |-> money - cpu - ram,
                 unrequested |-> cpu + ram - part(<<g, h>>)
                                 - SumFunctionOnSet([ns \in DOMAIN claimed |-> claimed[ns]], DOMAIN claimed)]
    BY <1>23 DEF NodeSplit, Sum, here, money, w, cpu, ram, g, h
  <2> HIDE DEF part
  <2>2. claims = Scaled([ns \in {p.ns : p \in here} |-> part(AskOf({p \in here : p.ns = ns}))],
                        cpu + ram - part(<<g, h>>))
    BY <1>13, <1>15, <1>17, <1>19, <1>24
  <2> QED BY <1>22, <1>24, <2>1, <2>2
<1>26. s.claims = claims /\ s.kubelet = x + y /\ s.storage = money - cpu - ram /\ s.unrequested = budget - sum
  BY <1>6, <1>11, <1>12, <1>13, <1>21, <1>25
<1>27. IsDivided(s, S, money)
  BY <1>2, <1>6, <1>11, <1>12, <1>13, <1>14, <1>20, <1>21, <1>26 DEF IsDivided
<1> QED BY <1>1, <1>15, <1>16, <1>23, <1>27

----------------------------------------------------------------------------
(* The table.                                                               *)

\* What is mapped is nodes.
LEMMA PricedAreNodes ==
    ASSUME NEW w, Legal(w), NEW mapping, mapping = Match(w.nodes, w.vms, w.settings.byName)
    PROVE  IsFiniteSet(DOMAIN mapping) /\ DOMAIN mapping \subseteq w.nodes /\ \A n \in w.nodes : IsNode(n)
<1>1. DOMAIN mapping \subseteq w.nodes
  BY DEF Match, RestrictValues, Restrict
<1> QED BY <1>1, FS_Subset DEF Legal, IsWorld

\* The namespaces of the table are finitely many.
LEMMA PartialIsFinite ==
    ASSUME NEW mapping, IsFiniteSet(DOMAIN mapping), NEW nodes, IsFiniteSet(nodes),
           NEW pods, IsLoad(pods), NEW spend
    PROVE  IsFiniteSet(DOMAIN Partial(mapping, nodes, pods, spend))
<1>1. PICK dark : dark = {n \in DOMAIN mapping : CostOf(spend, mapping[n]) = None} \cup (nodes \ DOMAIN mapping)
  OBVIOUS
<1>2. IsFiniteSet(dark)
  <2>1. dark \subseteq DOMAIN mapping \cup nodes
    BY <1>1
  <2>2. IsFiniteSet(DOMAIN mapping \cup nodes)
    BY FS_Union
  <2> QED BY <2>1, <2>2, FS_Subset
<1>3. PICK f : f = [p \in pods |-> p.ns]
  OBVIOUS
<1>4. IsFiniteSet({f[p] : p \in pods})
  BY ImageIsFinite DEF IsLoad
<1>5. DOMAIN Partial(mapping, nodes, pods, spend) \subseteq {f[p] : p \in pods}
  <2> DEFINE at(n) == IF n \in DOMAIN mapping THEN PodsOn(n, pods) ELSE {p \in pods : p.node = n.name}
  <2>1. DOMAIN Partial(mapping, nodes, pods, spend) = UNION {{p.ns : p \in at(n)} : n \in dark}
    BY <1>1 DEF Partial
  <2>2. \A n \in dark : at(n) \subseteq pods
    BY DEF PodsOn
  <2> HIDE DEF at
  <2> QED BY <1>3, <2>1, <2>2
<1> QED BY <1>4, <1>5, FS_Subset

\* The nodes that are priced, how each is divided, and who else is in the table.
Divides(mapping, nodes, pods, spend, priced, parts, partial) ==
    /\ priced = {n \in DOMAIN mapping : CostOf(spend, mapping[n]) # None}
    /\ parts = [n \in priced |-> NodeSplit(n, mapping[n], pods, spend)]
    /\ partial = Partial(mapping, nodes, pods, spend)

\* The table of them.
IsTable(s, priced, parts, partial) ==
    /\ s.priced = priced
    /\ s.kubelet = SumFunctionOnSet([n \in priced |-> parts[n].kubelet], priced)
    /\ s.unrequested = SumFunctionOnSet([n \in priced |-> parts[n].unrequested], priced)
    /\ s.storage = SumFunctionOnSet([n \in priced |-> parts[n].storage], priced)
    /\ DOMAIN s.lines = (UNION {DOMAIN parts[n].claims : n \in priced}) \cup DOMAIN partial
    /\ \A ns \in DOMAIN s.lines :
           /\ s.lines[ns].amount = SumFunctionOnSet([n \in {x \in priced : ns \in DOMAIN parts[x].claims} |->
                                                        parts[n].claims[ns]],
                                                    {x \in priced : ns \in DOMAIN parts[x].claims})
           /\ s.lines[ns].partial = IF ns \in DOMAIN partial THEN partial[ns] ELSE 0

\* The fields of the table, as sums over the nodes that are priced.
LEMMA TableFields ==
    ASSUME NEW mapping, NEW nodes, NEW pods, NEW spend, NEW priced, NEW parts, NEW partial,
           Divides(mapping, nodes, pods, spend, priced, parts, partial)
    PROVE  IsTable(Split(mapping, nodes, pods, spend), priced, parts, partial)
<1>0. PICK s : s = Split(mapping, nodes, pods, spend)
  OBVIOUS
<1> DEFINE of(ns) == {n \in priced : ns \in DOMAIN parts[n].claims}
           Amount(ns) == SumFunctionOnSet([n \in of(ns) |-> parts[n].claims[ns]], of(ns))
           Dark(ns) == IF ns \in DOMAIN partial THEN partial[ns] ELSE 0
           N == (UNION {DOMAIN parts[n].claims : n \in priced}) \cup DOMAIN partial
           lines == [ns \in N |-> [amount |-> Amount(ns), partial |-> Dark(ns)]]
           Field(f) == SumFunctionOnSet(f, priced)
<1>1. s = [lines |-> lines, kubelet |-> Field([n \in priced |-> parts[n].kubelet]),
           unrequested |-> Field([n \in priced |-> parts[n].unrequested]),
           storage |-> Field([n \in priced |-> parts[n].storage]), priced |-> priced]
  BY <1>0 DEF Divides, Split, Sum
<1>2. s.lines = lines
  <2> HIDE DEF lines, Field
  <2> QED BY <1>1
<1>3. \A ns \in N : lines[ns].amount = Amount(ns) /\ lines[ns].partial = Dark(ns)
  <2> HIDE DEF N, Amount, Dark
  <2> QED OBVIOUS
<1>4. DOMAIN s.lines = N
  <2> HIDE DEF N, Amount, Dark
  <2> QED BY <1>2
<1>5. \A ns \in DOMAIN s.lines : s.lines[ns].amount = Amount(ns) /\ s.lines[ns].partial = Dark(ns)
  <2> HIDE DEF N, Amount, Dark, lines
  <2> QED BY <1>2, <1>3, <1>4
<1>6. /\ s.priced = priced /\ s.kubelet = Field([n \in priced |-> parts[n].kubelet])
      /\ s.unrequested = Field([n \in priced |-> parts[n].unrequested])
      /\ s.storage = Field([n \in priced |-> parts[n].storage])
  <2> HIDE DEF lines, Field
  <2> QED BY <1>1
<1> QED BY <1>0, <1>4, <1>5, <1>6 DEF IsTable

\* What a table adds up to, and to what its nodes cost.
TableAdds(s, spend, mapping) ==
    /\ Sum(LAMBDA ns : s.lines[ns].amount, DOMAIN s.lines) + s.kubelet + s.unrequested + s.storage
           = Sum(LAMBDA n : CostOf(spend, mapping[n]).amount, s.priced)
    /\ s.kubelet >= 0 /\ s.unrequested >= 0 /\ s.storage >= 0

\* The table comes to what its nodes cost: its lines, summed by namespace, are the nodes'
\* claims summed by node.
LEMMA TableAddsUp ==
    ASSUME NEW w, Legal(w), NEW mapping, mapping = Match(w.nodes, w.vms, w.settings.byName),
           NEW pods, IsLoad(pods), NEW s, s = Split(mapping, w.nodes, pods, w.spend)
    PROVE  TableAdds(s, w.spend, mapping)
<1>1. PICK priced, spend, partial :
          /\ priced = {n \in DOMAIN mapping : CostOf(w.spend, mapping[n]) # None} /\ spend = w.spend
          /\ partial = Partial(mapping, w.nodes, pods, w.spend)
  OBVIOUS
<1>2. IsSpend(spend) /\ IsFiniteSet(w.nodes)
  BY <1>1 DEF Legal, IsWorld
<1>3. IsFiniteSet(priced) /\ (\A n \in priced : IsNode(n) /\ CostOf(spend, mapping[n]) # None)
  <2>1. IsFiniteSet(DOMAIN mapping) /\ (\A n \in DOMAIN mapping : IsNode(n))
    BY PricedAreNodes
  <2> QED BY <1>1, <2>1, FS_Subset
<1>4. PICK parts, uses, money :
          /\ parts = [n \in priced |-> NodeSplit(n, mapping[n], pods, spend)]
          /\ uses = [n \in priced |-> {p.ns : p \in PodsOn(n, pods)}]
          /\ money = [n \in priced |-> CostOf(spend, mapping[n]).amount]
  OBVIOUS
<1>5. \A n \in priced : IsFiniteSet(uses[n]) /\ IsDivided(parts[n], uses[n], money[n])
  BY <1>2, <1>3, <1>4, NodeIsDivided
<1>6. \A n \in priced : DOMAIN parts[n].claims = uses[n]
  BY <1>5 DEF IsDivided
<1>7. PICK C, K, U, T, R :
          /\ C = [n \in priced |-> parts[n].claims]
          /\ K = [n \in priced |-> parts[n].kubelet] /\ U = [n \in priced |-> parts[n].unrequested]
          /\ T = [n \in priced |-> parts[n].storage]
          /\ R = [n \in priced |-> SumFunctionOnSet(C[n], uses[n])]
  OBVIOUS
<1>8. \A n \in priced : /\ K[n] \in Nat /\ U[n] \in Nat /\ T[n] \in Nat /\ R[n] \in Nat
                        /\ R[n] + K[n] + U[n] + T[n] = money[n]
  BY <1>5, <1>7 DEF IsDivided
<1>9. PICK B : B = (UNION {uses[n] : n \in priced}) \cup DOMAIN partial
  OBVIOUS
<1>10. IsFiniteSet(B)
  <2>1. IsFiniteSet({uses[n] : n \in priced})
    BY <1>3, ImageIsFinite
  <2>2. IsFiniteSet(UNION {uses[n] : n \in priced})
    BY <1>5, <2>1, FS_UNION
  <2>3. IsFiniteSet(DOMAIN partial)
    <3>1. IsFiniteSet(DOMAIN mapping)
      BY PricedAreNodes
    <3> QED BY <1>1, <1>2, <3>1, PartialIsFinite
  <2> QED BY <1>9, <2>2, <2>3, FS_Union
<1>11. PICK of, cols : /\ of = [ns \in B |-> {n \in priced : ns \in uses[n]}]
                      /\ cols = [ns \in B |-> SumFunctionOnSet([n \in of[ns] |-> C[n][ns]], of[ns])]
  OBVIOUS
<1>12. SumFunctionOnSet(R, priced) \in Int /\ SumFunctionOnSet(cols, B) = SumFunctionOnSet(R, priced)
  <2>1. \A n \in priced : uses[n] \subseteq B /\ \A ns \in uses[n] : C[n][ns] \in Int
    BY <1>5, <1>7, <1>9 DEF IsDivided
  <2>2. \A ns \in B : cols[ns] = SumFunctionOnSet([n \in priced |-> C[n][ns]], {n \in priced : ns \in uses[n]})
    <3> SUFFICES ASSUME NEW ns \in B
                 PROVE  cols[ns] = SumFunctionOnSet([n \in priced |-> C[n][ns]], {n \in priced : ns \in uses[n]})
      OBVIOUS
    <3>1. PICK f, g, O : /\ f = [n \in priced |-> C[n][ns]] /\ g = [n \in of[ns] |-> C[n][ns]]
                         /\ O = {n \in priced : ns \in uses[n]}
      OBVIOUS
    <3>2. of[ns] = O /\ IsFiniteSet(O)
      BY <1>3, <1>11, <3>1, FS_Subset
    <3>3. \A n \in O : g[n] \in Int /\ g[n] = f[n]
      BY <2>1, <3>1, <3>2
    <3>4. SumFunctionOnSet(g, O) = SumFunctionOnSet(f, O)
      BY <3>2, <3>3, SumAgrees
    <3> QED BY <1>11, <3>1, <3>2, <3>4
  <2>3. \A n \in priced : R[n] = SumFunctionOnSet(C[n], uses[n])
    BY <1>7
  <2>4. AreMargins(priced, B, uses, C, R, cols)
    BY <1>3, <1>10, <2>1, <2>2, <2>3 DEF AreMargins
  <2> QED BY <2>4, SumExchange
<1>13. PICK rk, rku : rk = [n \in priced |-> R[n] + K[n]] /\ rku = [n \in priced |-> rk[n] + U[n]]
  OBVIOUS
<1>14. /\ SumFunctionOnSet(K, priced) \in Nat /\ SumFunctionOnSet(U, priced) \in Nat
       /\ SumFunctionOnSet(T, priced) \in Nat
  <2>1. (\A n \in priced : K[n] \in Nat) /\ (\A n \in priced : U[n] \in Nat) /\ (\A n \in priced : T[n] \in Nat)
    BY <1>8
  <2> QED BY <1>3, <2>1, SumOfNats
<1>15. SumFunctionOnSet(rk, priced) = SumFunctionOnSet(R, priced) + SumFunctionOnSet(K, priced)
  <2>1. \A n \in priced : R[n] \in Int /\ K[n] \in Int /\ rk[n] = R[n] + K[n]
    BY <1>8, <1>13
  <2> QED BY <1>3, <2>1, SumOfSums
<1>16. SumFunctionOnSet(rku, priced) = SumFunctionOnSet(rk, priced) + SumFunctionOnSet(U, priced)
  <2>1. \A n \in priced : rk[n] \in Int /\ U[n] \in Int /\ rku[n] = rk[n] + U[n]
    BY <1>8, <1>13
  <2> QED BY <1>3, <2>1, SumOfSums
<1>17. SumFunctionOnSet(money, priced) = SumFunctionOnSet(rku, priced) + SumFunctionOnSet(T, priced)
  <2>1. \A n \in priced : rku[n] \in Int /\ T[n] \in Int /\ money[n] = rku[n] + T[n]
    BY <1>8, <1>13
  <2> QED BY <1>3, <2>1, SumOfSums
<1>18. /\ s.kubelet = SumFunctionOnSet(K, priced) /\ s.unrequested = SumFunctionOnSet(U, priced)
       /\ s.storage = SumFunctionOnSet(T, priced) /\ s.priced = priced
       /\ DOMAIN s.lines = (UNION {DOMAIN parts[n].claims : n \in priced}) \cup DOMAIN partial
       /\ \A ns \in DOMAIN s.lines :
              s.lines[ns].amount = SumFunctionOnSet([n \in {x \in priced : ns \in DOMAIN parts[x].claims} |->
                                                        parts[n].claims[ns]],
                                                    {x \in priced : ns \in DOMAIN parts[x].claims})
  <2>1. Divides(mapping, w.nodes, pods, spend, priced, parts, partial)
    BY <1>1, <1>4 DEF Divides
  <2>2. IsTable(s, priced, parts, partial)
    BY <1>1, <2>1, TableFields
  <2> QED BY <1>7, <2>2 DEF IsTable
<1>19. DOMAIN s.lines = B
  BY <1>6, <1>9, <1>18
<1>20. \A ns \in B : s.lines[ns].amount = cols[ns]
  <2> SUFFICES ASSUME NEW ns \in B PROVE s.lines[ns].amount = cols[ns]
    OBVIOUS
  <2>1. {x \in priced : ns \in DOMAIN parts[x].claims} = of[ns]
    BY <1>6, <1>11
  <2>2. s.lines[ns].amount = SumFunctionOnSet([n \in of[ns] |-> parts[n].claims[ns]], of[ns])
    BY <1>18, <1>19, <2>1
  <2>3. [n \in of[ns] |-> parts[n].claims[ns]] = [n \in of[ns] |-> C[n][ns]]
    BY <1>7, <1>11
  <2> QED BY <1>11, <2>2, <2>3
<1>21. Sum(LAMBDA ns : s.lines[ns].amount, DOMAIN s.lines) = SumFunctionOnSet(cols, B)
  <2>1. [ns \in B |-> s.lines[ns].amount] = cols
    BY <1>11, <1>20
  <2> QED BY <1>19, <2>1 DEF Sum
<1>22. Sum(LAMBDA n : CostOf(w.spend, mapping[n]).amount, s.priced) = SumFunctionOnSet(money, priced)
  BY <1>1, <1>4, <1>18 DEF Sum
<1>23. PICK lines, whole : lines = SumFunctionOnSet(R, priced) /\ whole = SumFunctionOnSet(money, priced)
  OBVIOUS
<1>24. s.kubelet \in Nat /\ s.unrequested \in Nat /\ s.storage \in Nat /\ lines \in Int
  BY <1>12, <1>14, <1>18, <1>23
<1>25. whole = lines + s.kubelet + s.unrequested + s.storage
  <2>1. SumFunctionOnSet(rk, priced) = lines + s.kubelet
    BY <1>15, <1>18, <1>23
  <2>2. SumFunctionOnSet(rku, priced) = lines + s.kubelet + s.unrequested
    BY <1>16, <1>18, <2>1
  <2> QED BY <1>17, <1>18, <1>23, <2>2
<1>26. Sum(LAMBDA ns : s.lines[ns].amount, DOMAIN s.lines) = lines
  BY <1>12, <1>21, <1>23
<1>27. Sum(LAMBDA n : CostOf(w.spend, mapping[n]).amount, s.priced) = whole
  BY <1>22, <1>23
<1>28. s.kubelet >= 0 /\ s.unrequested >= 0 /\ s.storage >= 0
  BY <1>24
<1> QED BY <1>25, <1>26, <1>27, <1>28 DEF TableAdds

\* A namespace with a pod on a node is in the table, and is partial with one that is dark.
LEMMA UsersAreShown ==
    ASSUME NEW w, Legal(w), NEW mapping, mapping = Match(w.nodes, w.vms, w.settings.byName),
           NEW pods, IsLoad(pods), NEW s, s = Split(mapping, w.nodes, pods, w.spend),
           NEW p \in pods, NEW n \in w.nodes, p.node = n.name
    PROVE  /\ p.ns \in DOMAIN s.lines
           /\ n \notin s.priced => s.lines[p.ns].partial > 0
<1>1. PICK spend : spend = w.spend
  OBVIOUS
<1>2. p \in PodsOn(n, pods)
  BY DEF PodsOn
<1>3. PICK priced, partial, dark :
          /\ priced = {x \in DOMAIN mapping : CostOf(spend, mapping[x]) # None}
          /\ partial = Partial(mapping, w.nodes, pods, spend)
          /\ dark = {x \in DOMAIN mapping : CostOf(spend, mapping[x]) = None} \cup (w.nodes \ DOMAIN mapping)
  OBVIOUS
<1>4. s.priced = priced
  BY <1>1, <1>3 DEF Split
<1>5. CASE n \in priced
  <2>1. /\ IsFiniteSet({q.ns : q \in PodsOn(n, pods)})
        /\ IsDivided(NodeSplit(n, mapping[n], pods, spend), {q.ns : q \in PodsOn(n, pods)}, CostOf(spend, mapping[n]).amount)
    <3>1. IsNode(n) /\ IsSpend(spend) /\ CostOf(spend, mapping[n]) # None
      BY <1>1, <1>3, <1>5 DEF Legal, IsWorld
    <3> QED BY <3>1, NodeIsDivided
  <2>2. DOMAIN NodeSplit(n, mapping[n], pods, spend).claims = {q.ns : q \in PodsOn(n, pods)}
    BY <2>1 DEF IsDivided
  <2>3. p.ns \in DOMAIN NodeSplit(n, mapping[n], pods, spend).claims
    BY <1>2, <2>2
  <2>4. PICK parts : parts = [x \in priced |-> NodeSplit(x, mapping[x], pods, spend)]
    OBVIOUS
  <2>5. DOMAIN s.lines = (UNION {DOMAIN parts[x].claims : x \in priced}) \cup DOMAIN partial
    <3>1. Divides(mapping, w.nodes, pods, spend, priced, parts, partial)
      BY <1>3, <2>4 DEF Divides
    <3>2. IsTable(s, priced, parts, partial)
      BY <1>1, <3>1, TableFields
    <3> QED BY <3>2 DEF IsTable
  <2>6. p.ns \in DOMAIN parts[n].claims
    BY <1>5, <2>3, <2>4
  <2> QED BY <1>4, <1>5, <2>5, <2>6
<1>6. CASE n \notin priced
  <2> DEFINE at(x) == IF x \in DOMAIN mapping THEN PodsOn(x, pods) ELSE {q \in pods : q.node = x.name}
  <2>1. n \in dark
    BY <1>3, <1>6
  <2>2. p \in at(n)
    BY <1>2
  <2>3. PICK those : those = {x \in dark : \E q \in at(x) : q.ns = p.ns}
    OBVIOUS
  <2>4. n \in those
    <3> HIDE DEF at
    <3> QED BY <2>1, <2>2, <2>3
  <2>5. IsFiniteSet(those)
    <3>1. IsFiniteSet(DOMAIN mapping) /\ IsFiniteSet(w.nodes)
      BY PricedAreNodes DEF Legal, IsWorld
    <3>2. those \subseteq DOMAIN mapping \cup w.nodes
      BY <1>3, <2>3
    <3>3. IsFiniteSet(DOMAIN mapping \cup w.nodes)
      BY <3>1, FS_Union
    <3> QED BY <3>2, <3>3, FS_Subset
  <2>6. Cardinality(those) > 0
    <3>1. Cardinality(those) \in Nat /\ Cardinality(those) # 0
      BY <2>4, <2>5, FS_CardinalityType, FS_EmptySet
    <3> QED BY <3>1
  <2>7. partial = [ns \in UNION {{q.ns : q \in at(x)} : x \in dark} |-> Cardinality({x \in dark : \E q \in at(x) : q.ns = ns})]
    BY <1>3 DEF Partial
  <2>8. p.ns \in DOMAIN partial /\ partial[p.ns] = Cardinality(those)
    <3> HIDE DEF at
    <3>1. p.ns \in {q.ns : q \in at(n)}
      BY <2>2
    <3>2. p.ns \in UNION {{q.ns : q \in at(x)} : x \in dark}
      BY <2>1, <3>1
    <3> QED BY <2>3, <2>7, <3>2
  <2>9. PICK parts : parts = [x \in priced |-> NodeSplit(x, mapping[x], pods, spend)]
    OBVIOUS
  <2>10. /\ DOMAIN s.lines = (UNION {DOMAIN parts[x].claims : x \in priced}) \cup DOMAIN partial
         /\ \A ns \in DOMAIN s.lines : s.lines[ns].partial = IF ns \in DOMAIN partial THEN partial[ns] ELSE 0
    <3>1. Divides(mapping, w.nodes, pods, spend, priced, parts, partial)
      BY <1>3, <2>9 DEF Divides
    <3>2. IsTable(s, priced, parts, partial)
      BY <1>1, <3>1, TableFields
    <3> QED BY <3>2 DEF IsTable
  <2> QED BY <2>6, <2>8, <2>10
<1> QED BY <1>5, <1>6

\* The table of the namespaces always comes to what its nodes cost, with no bucket negative,
\* and shows everyone who holds a node (namespaces.py).
THEOREM TheSplitIsWhole == Spec => []SplitIsWhole
<1>1. IInv => TypeOK
  BY DEF IInv, Counters, Legal, IsWorld, Kept, TypeOK
<1>2. IInv => SplitAddsUp /\ NamespacesAllShow
  <2> SUFFICES ASSUME IInv, Reported PROVE SplitAddsUp /\ NamespacesAllShow
    BY DEF SplitAddsUp, NamespacesAllShow
  <2>1. PICK pods, s, mapping : pods = OnNodes /\ s = report.split /\ mapping = Mapping
    OBVIOUS
  <2>2. report = ReportOf(world, history) /\ Legal(world)
    BY DEF IInv, Current, Reported
  <2>3. /\ s = Split(mapping, world.nodes, pods, world.spend)
        /\ mapping = Match(world.nodes, world.vms, world.settings.byName)
    BY <2>1, <2>2 DEF ReportOf, OnNodes, Mapping
  <2>4. IsLoad(pods)
    BY <2>1, <2>2, ScheduledIsLoad DEF OnNodes
  <2>5. SplitAddsUp
    <3>1. TableAdds(s, world.spend, mapping)
      BY <2>2, <2>3, <2>4, TableAddsUp
    <3> QED BY <2>1, <3>1 DEF SplitAddsUp, TableAdds
  <2>6. \A p \in pods : \A n \in world.nodes : p.node = n.name =>
            p.ns \in DOMAIN s.lines /\ (n \notin s.priced => s.lines[p.ns].partial > 0)
    BY <2>2, <2>3, <2>4, UsersAreShown
  <2>7. NamespacesAllShow
    BY <2>1, <2>6 DEF NamespacesAllShow
  <2> QED BY <2>5, <2>7
<1> QED BY <1>1, <1>2, AlwaysIInv, PTL DEF SplitIsWhole

----------------------------------------------------------------------------
(* The nodes that can go.                                                   *)

\* The nodes that may be tried, the dearest of some, and one more try.
Candidates(rows) == {r \in rows : r.takes /\ r.monthly # None}
Dearest(C) == CHOOSE r \in C : \A s \in C :
    s.monthly < r.monthly \/ (s.monthly = r.monthly /\ NameRank[r.node] <= NameRank[s.node])
TryNext(rows, t) == [drop |-> TryToo(rows, t.drop, Dearest(t.left)), left |-> t.left \ {Dearest(t.left)}]

\* The candidates tried one after the other.
AreTried(g, rows) ==
    LET N == Cardinality(Candidates(rows))
    IN  /\ DOMAIN g = 0 .. N
        /\ g[0] = [drop |-> {}, left |-> Candidates(rows)]
        /\ \A k \in 1 .. N : g[k] = TryNext(rows, g[k - 1])
        /\ Droppable(rows) = g[N].drop

\* There is a dearest one of some, and of those the first by name.
LEMMA DearestIsOne ==
    ASSUME NEW C, IsFiniteSet(C), C # {}, \A r \in C : r.monthly \in Int /\ NameRank[r.node] \in Int
    PROVE  Dearest(C) \in C
<1>1. PICK f, T : f = [r \in C |-> r.monthly] /\ T = {f[r] : r \in C}
  OBVIOUS
<1>2. IsFiniteSet(T)
  BY <1>1, ImageIsFinite
<1>3. T # {} /\ T \subseteq Int
  BY <1>1
<1>4. Max(T) \in T /\ \A x \in T : x <= Max(T)
  BY <1>2, <1>3, LargestMember
<1>5. PICK top, D : top = Max(T) /\ D = {r \in C : f[r] = top}
  OBVIOUS
<1>6. D # {} /\ IsFiniteSet(D) /\ D \subseteq C
  BY <1>1, <1>4, <1>5, FS_Subset
<1>7. PICK g, R : g = [r \in D |-> NameRank[r.node]] /\ R = {g[r] : r \in D}
  OBVIOUS
<1>8. IsFiniteSet(R) /\ R # {} /\ R \subseteq Int
  BY <1>6, <1>7, ImageIsFinite
<1>9. Min(R) \in R /\ \A x \in R : Min(R) <= x
  BY <1>8, SmallestMember
<1>10. PICK r \in D : g[r] = Min(R)
  BY <1>7, <1>9
<1>11. ASSUME NEW s \in C
       PROVE  s.monthly < r.monthly \/ (s.monthly = r.monthly /\ NameRank[r.node] <= NameRank[s.node])
  <2>1. r \in C /\ r.monthly = top /\ top \in Int /\ s.monthly \in Int /\ s.monthly <= top
    BY <1>1, <1>3, <1>4, <1>5
  <2>2. CASE s \in D
    <3>1. g[s] \in R /\ g[s] = NameRank[s.node] /\ g[r] = NameRank[r.node]
      BY <1>7, <2>2
    <3>2. NameRank[r.node] <= NameRank[s.node]
      BY <1>9, <1>10, <3>1
    <3>3. s.monthly = top
      BY <1>1, <1>5, <2>2
    <3> QED BY <2>1, <3>2, <3>3
  <2>3. CASE s \notin D
    <3>1. s.monthly # top
      BY <1>1, <1>5, <2>3
    <3> QED BY <2>1, <3>1
  <2> QED BY <2>2, <2>3
<1>12. r \in C
  BY <1>6
<1> QED BY <1>11, <1>12 DEF Dearest

\* The loop of the candidates is a function of how many have been tried.
LEMMA TriedInTurn ==
    ASSUME NEW rows, IsFiniteSet(rows), \A r \in rows : r.monthly # None => r.monthly \in Int,
           \A r \in rows : NameRank[r.node] \in Int
    PROVE  \E g : AreTried(g, rows)
<1> DEFINE N == Cardinality(Candidates(rows))
           start == [drop |-> {}, left |-> Candidates(rows)]
           W == Candidates(rows) \cup {Dearest({})}
           V == [drop : SUBSET W, left : SUBSET Candidates(rows)]
           F == [p \in (1 .. N) \X V |-> TryNext(rows, p[2])]
           Body(f) == [n \in 0 .. N |->
               IF n = 0 THEN start
               ELSE [drop |-> TryToo(rows, f[n - 1].drop, Dearest(f[n - 1].left)),
                     left |-> f[n - 1].left \ {Dearest(f[n - 1].left)}]]
<1>1. Droppable(rows) = (CHOOSE f : f = Body(f))[N].drop
  BY DEF Droppable, Candidates, Dearest
<1>2. IsFiniteSet(Candidates(rows)) /\ N \in Nat
  BY FS_Subset, FS_CardinalityType DEF Candidates
<1>3. ASSUME NEW t \in V PROVE TryNext(rows, t) \in V
  <2>1. t.drop \subseteq W /\ t.left \subseteq Candidates(rows)
    OBVIOUS
  <2>2. Dearest(t.left) \in W
    <3>1. CASE t.left = {}
      BY <3>1
    <3>2. CASE t.left # {}
      <4>1. IsFiniteSet(t.left) /\ \A r \in t.left : r.monthly \in Int /\ NameRank[r.node] \in Int
        BY <1>2, <2>1, FS_Subset DEF Candidates
      <4> QED BY <2>1, <3>2, <4>1, DearestIsOne
    <3> QED BY <3>1, <3>2
  <2>3. TryToo(rows, t.drop, Dearest(t.left)) \subseteq W
    <3> HIDE DEF W
    <3> QED BY <2>1, <2>2 DEF TryToo
  <2> HIDE DEF W
  <2> QED BY <2>1, <2>3 DEF TryNext
<1>4. F \in StepFunctions(N, V)
  <2> HIDE DEF V, N
  <2> QED BY <1>3 DEF StepFunctions
<1>5. start \in V
  OBVIOUS
<1>6. PICK g \in [0 .. N -> V] : Follows(g, N, start, F)
  <2> HIDE DEF N, F, V, start
  <2> QED BY <1>2, <1>4, <1>5, StepwiseFunction
<1>7. g[0] = start /\ \A k \in 1 .. N : g[k] = TryNext(rows, g[k - 1])
  <2>1. ASSUME NEW k \in 1 .. N PROVE g[k] = TryNext(rows, g[k - 1])
    <3>1. k - 1 \in 0 .. N /\ g[k] = F[<<k, g[k - 1]>>]
      <4> HIDE DEF F
      <4>1. g[k] = F[<<k, g[k - 1]>>]
        BY <1>6 DEF Follows
      <4> QED BY <1>2, <4>1
    <3>2. g[k - 1] \in V
      <4> HIDE DEF V, N
      <4> QED BY <1>6, <3>1
    <3>3. <<k, g[k - 1]>> \in (1 .. N) \X V
      BY <3>2
    <3> HIDE DEF V, N
    <3> QED BY <3>1, <3>3
  <2> HIDE DEF V, N, start, F
  <2> QED BY <1>6, <2>1 DEF Follows
<1>8. g = Body(g)
  <2>1. ASSUME NEW k \in 0 .. N PROVE g[k] = Body(g)[k]
    <3>1. CASE k = 0
      BY <1>7, <3>1
    <3>2. CASE k # 0
      <4>1. k \in 1 .. N
        BY <1>2, <3>2
      <4> QED BY <1>7, <3>2, <4>1 DEF TryNext
    <3> QED BY <3>1, <3>2
  <2>2. DOMAIN g = 0 .. N /\ g = [k \in 0 .. N |-> g[k]]
    <3> HIDE DEF V, N
    <3> QED BY <1>6
  <2>3. Body(g) = [k \in 0 .. N |-> Body(g)[k]]
    OBVIOUS
  <2> HIDE DEF Body, N
  <2> QED BY <2>1, <2>2, <2>3
<1>9. PICK h : h = (CHOOSE f : f = Body(f))
  OBVIOUS
<1>10. h = Body(h)
  <2> HIDE DEF Body
  <2> QED BY <1>8, <1>9
<1>11. DOMAIN h = 0 .. N /\ h[0] = start
  <2>1. DOMAIN Body(h) = 0 .. N
    OBVIOUS
  <2>2. 0 \in 0 .. N
    BY <1>2
  <2>3. Body(h)[0] = start
    BY <2>2
  <2> HIDE DEF Body, start, N
  <2> QED BY <1>10, <2>1, <2>3
<1>12. ASSUME NEW k \in 1 .. N PROVE h[k] = TryNext(rows, h[k - 1])
  <2>1. k \in 0 .. N /\ k # 0
    BY <1>2
  <2>2. Body(h)[k] = TryNext(rows, h[k - 1])
    <3> HIDE DEF N, start
    <3> QED BY <2>1 DEF TryNext
  <2> HIDE DEF Body, N
  <2> QED BY <1>10, <2>2
<1>13. AreTried(h, rows)
  <2> HIDE DEF Body
  <2> QED BY <1>1, <1>9, <1>11, <1>12 DEF AreTried
<1> QED BY <1>13

\* Nodes that go take pods, and what stays has room for theirs.
LEMMA DropFits ==
    ASSUME NEW rows, IsFiniteSet(rows), \A r \in rows : r.monthly # None => r.monthly \in Int,
           \A r \in rows : NameRank[r.node] \in Int
    PROVE  /\ Droppable(rows) \subseteq Candidates(rows)
           /\ Droppable(rows) = {} \/ Fits(rows, Droppable(rows), TargetPct)
<1> DEFINE C == Candidates(rows)
           N == Cardinality(C)
           Good(d) == d \subseteq C /\ (d = {} \/ Fits(rows, d, TargetPct))
<1>1. IsFiniteSet(C) /\ N \in Nat /\ \A r \in C : r.monthly \in Int /\ NameRank[r.node] \in Int
  BY FS_Subset, FS_CardinalityType DEF Candidates
<1>2. PICK g : AreTried(g, rows)
  BY TriedInTurn
<1>3. /\ g[0] = [drop |-> {}, left |-> C]
      /\ \A k \in 1 .. N : g[k] = TryNext(rows, g[k - 1])
      /\ Droppable(rows) = g[N].drop
  BY <1>2 DEF AreTried
<1> DEFINE S == {k \in 0 .. N : Good(g[k].drop) /\ g[k].left \subseteq C /\ Cardinality(g[k].left) = N - k}
<1>4. 0 \in S
  <2>1. g[0].drop = {} /\ g[0].left = C
    BY <1>3
  <2> HIDE DEF C
  <2> QED BY <1>1, <2>1
<1>5. ASSUME NEW k \in 0 .. N - 1, k \in S PROVE k + 1 \in S
  <2>1. PICK d, l : d = g[k].drop /\ l = g[k].left
    OBVIOUS
  <2>2. Good(d) /\ l \subseteq C /\ Cardinality(l) = N - k /\ k \in Int
    BY <1>1, <1>5, <2>1
  <2>3. IsFiniteSet(l) /\ l # {} /\ \A r \in l : r.monthly \in Int /\ NameRank[r.node] \in Int
    <3>1. IsFiniteSet(l)
      BY <1>1, <2>2, FS_Subset
    <3>2. Cardinality(l) # 0
      BY <1>1, <2>2
    <3> QED BY <1>1, <2>2, <3>1, <3>2, FS_EmptySet
  <2>4. PICK r : r = Dearest(l)
    OBVIOUS
  <2>5. r \in l
    BY <2>3, <2>4, DearestIsOne
  <2>6. Cardinality(l \ {r}) = N - (k + 1)
    <3>1. Cardinality(l \ {r}) = Cardinality(l) - 1
      BY <2>3, <2>5, FS_RemoveElement
    <3> QED BY <1>1, <2>2, <3>1
  <2>7. g[k + 1] = TryNext(rows, g[k])
    <3>1. k + 1 \in 1 .. N /\ (k + 1) - 1 = k
      BY <1>1
    <3> HIDE DEF N
    <3> QED BY <1>3, <3>1
  <2>8. g[k + 1].drop = TryToo(rows, d, r) /\ g[k + 1].left = l \ {r}
    BY <2>1, <2>4, <2>7 DEF TryNext
  <2>9. Good(TryToo(rows, d, r))
    <3>1. d \cup {r} \subseteq C
      BY <2>2, <2>5
    <3> HIDE DEF C
    <3> QED BY <2>2, <3>1 DEF TryToo
  <2>10. k + 1 \in 0 .. N
    BY <1>1
  <2> HIDE DEF Good, C, N
  <2> QED BY <2>2, <2>6, <2>8, <2>9, <2>10
<1>6. N \in S
  <2> HIDE DEF S, N
  <2>1. 0 .. N \subseteq S
    BY <1>1, <1>4, <1>5, UpToInduction
  <2> QED BY <1>1, <2>1
<1> HIDE DEF N
<1> QED BY <1>3, <1>6

----------------------------------------------------------------------------
(* What the pods of a node ask, together and in parts.                      *)

\* What each pod asks of one kind.
Asks(pods, i) == [p \in pods |-> p.ask[i]]

\* What pods ask of one kind is a sum.
LEMMA AskIsASum ==
    ASSUME NEW pods, IsLoad(pods), NEW S \in SUBSET pods, NEW i \in {1, 2}
    PROVE  /\ AskOf(S)[i] = SumFunctionOnSet(Asks(pods, i), S)
           /\ AskOf(S)[i] \in Nat /\ IsFiniteSet(S)
           /\ \A p \in pods : Asks(pods, i)[p] \in Nat
<1>1. PICK a : a = Asks(pods, i)
  OBVIOUS
<1>2. IsFiniteSet(S) /\ (\A p \in pods : a[p] \in Nat) /\ \A p \in pods : a[p] = p.ask[i]
  BY <1>1, FS_Subset DEF Asks, IsLoad
<1>3. PICK f : f = [p \in S |-> p.ask[i]]
  OBVIOUS
<1>4. \A p \in S : f[p] \in Int /\ f[p] = a[p]
  BY <1>2, <1>3
<1>5. SumFunctionOnSet(f, S) = SumFunctionOnSet(a, S)
  BY <1>2, <1>4, SumAgrees
<1>6. AskOf(S)[i] = SumFunctionOnSet(f, S)
  BY <1>3 DEF AskOf, PairSum, Sum
<1>7. SumFunctionOnSet(a, S) \in Nat
  <2>1. \A p \in S : a[p] \in Nat
    BY <1>2
  <2> QED BY <1>2, <2>1, SumOfNats
<1> QED BY <1>1, <1>2, <1>5, <1>6, <1>7

\* Some of the pods ask no more than all.
LEMMA AskOfPart ==
    ASSUME NEW pods, IsLoad(pods), NEW T \in SUBSET pods, NEW S \in SUBSET T, NEW i \in {1, 2}
    PROVE  AskOf(S)[i] <= AskOf(T)[i]
<1>1. PICK a : a = Asks(pods, i)
  OBVIOUS
<1>2. AskOf(T)[i] = SumFunctionOnSet(a, T) /\ IsFiniteSet(T) /\ (\A p \in pods : a[p] \in Nat)
  BY <1>1, AskIsASum
<1>3. AskOf(S)[i] = SumFunctionOnSet(a, S)
  <2>1. S \in SUBSET pods
    OBVIOUS
  <2> QED BY <1>1, <2>1, AskIsASum
<1>4. SumFunctionOnSet(a, S) <= SumFunctionOnSet(a, T)
  <2>1. \A p \in T : a[p] \in Nat
    BY <1>2
  <2> QED BY <1>2, <2>1, SumOfSubset
<1> QED BY <1>2, <1>3, <1>4

\* Two groups of pods ask what the one and the other ask.
LEMMA AskOfBoth ==
    ASSUME NEW pods, IsLoad(pods), NEW S \in SUBSET pods, NEW T \in SUBSET pods, S \cap T = {}, NEW i \in {1, 2}
    PROVE  AskOf(S \cup T)[i] = AskOf(S)[i] + AskOf(T)[i]
<1>1. PICK a : a = Asks(pods, i)
  OBVIOUS
<1>2. AskOf(S)[i] = SumFunctionOnSet(a, S) /\ IsFiniteSet(S) /\ (\A p \in pods : a[p] \in Nat)
  BY <1>1, AskIsASum
<1>3. AskOf(T)[i] = SumFunctionOnSet(a, T) /\ IsFiniteSet(T)
  BY <1>1, AskIsASum
<1>4. AskOf(S \cup T)[i] = SumFunctionOnSet(a, S \cup T)
  <2>1. S \cup T \in SUBSET pods
    OBVIOUS
  <2> QED BY <1>1, <2>1, AskIsASum
<1>5. SumFunctionOnSet(a, S \cup T) = SumFunctionOnSet(a, S) + SumFunctionOnSet(a, T)
  <2>1. \A p \in S \cup T : a[p] \in Int
    BY <1>2
  <2> QED BY <1>2, <1>3, <2>1, SumOfUnion
<1> QED BY <1>2, <1>3, <1>4, <1>5

----------------------------------------------------------------------------
(* The row of a node.                                                       *)

\* What a node has, what its pods hold of it, and which of them would have to move.
Iron(n) == <<IF n.allocVcpu = 0 THEN n.vcpu ELSE n.allocVcpu, IF n.allocRam = 0 THEN n.ram ELSE n.allocRam>>
HeldBy(n, pods) == AskOf({p \in pods : p.node = n.name})
Moving(n, pods) == {p \in pods : p.node = n.name /\ ~p.perNode}

\* What a row says of a node.
IsRowOf(r, n, t, pods, spend) ==
    /\ r.node = n.name /\ r.takes = TakesPods(n) /\ r.alloc = Iron(n)
    /\ r.monthly = IF CostOf(spend, t) = None THEN None ELSE Monthly(CostOf(spend, t))
    /\ r.floating = AskOf({p \in PodsOn(n, pods) : ~p.perNode})
    /\ r.perNode = AskOf({p \in PodsOn(n, pods) : p.perNode})

\* The fields of a row.
LEMMA RowFields ==
    ASSUME NEW n, NEW t, NEW pods, NEW spend
    PROVE  IsRowOf(Row(n, t, pods, spend), n, t, pods, spend)
<1>1. PICK a, m, f, h, c, r :
          /\ a = Iron(n) /\ c = <<n.vcpu, n.ram>>
          /\ m = IF CostOf(spend, t) = None THEN None ELSE Monthly(CostOf(spend, t))
          /\ f = AskOf({p \in PodsOn(n, pods) : ~p.perNode}) /\ h = AskOf({p \in PodsOn(n, pods) : p.perNode})
          /\ r = Row(n, t, pods, spend)
  OBVIOUS
<1>2. r = [node |-> n.name, takes |-> TakesPods(n), alloc |-> a, capacity |-> c,
           monthly |-> m, floating |-> f, perNode |-> h]
  BY <1>1 DEF Row, Iron
<1>3. /\ r.node = n.name /\ r.takes = TakesPods(n) /\ r.alloc = a
      /\ r.monthly = m /\ r.floating = f /\ r.perNode = h
  BY <1>2
<1> QED BY <1>1, <1>3 DEF IsRowOf

\* What is free on a node by its row is no more than what its own pods leave.
LEMMA RowIsNoRoomier ==
    ASSUME NEW n, IsNode(n), NEW t, NEW pods, IsLoad(pods), NEW spend,
           NEW r, r = Row(n, t, pods, spend), NEW i \in {1, 2}
    PROVE  /\ Free(r)[i] \in Nat
           /\ AtLeast(Iron(n)[i] - HeldBy(n, pods)[i], 0) \in Nat
           /\ Free(r)[i] <= AtLeast(Iron(n)[i] - HeldBy(n, pods)[i], 0)
<1>1. PICK here, own : here = PodsOn(n, pods) /\ own = {p \in pods : p.node = n.name}
  OBVIOUS
<1>2. PICK S, T : S = {p \in here : ~p.perNode} /\ T = {p \in here : p.perNode}
  OBVIOUS
<1>3. here \in SUBSET pods /\ own \in SUBSET here /\ S \in SUBSET pods /\ T \in SUBSET pods
  BY <1>1, <1>2 DEF PodsOn
<1>4. S \cup T = here /\ S \cap T = {}
  BY <1>2
<1>5. AskOf(here)[i] = AskOf(S)[i] + AskOf(T)[i]
  BY <1>3, <1>4, AskOfBoth
<1>6. AskOf(own)[i] <= AskOf(here)[i]
  BY <1>3, AskOfPart
<1>7. AskOf(S)[i] \in Nat /\ AskOf(T)[i] \in Nat /\ AskOf(own)[i] \in Nat
  <2>1. own \in SUBSET pods
    BY <1>3
  <2> QED BY <1>3, <2>1, AskIsASum
<1>8. r.floating = AskOf(S) /\ r.perNode = AskOf(T) /\ r.alloc = Iron(n)
  <2>1. IsRowOf(r, n, t, pods, spend)
    BY RowFields
  <2> QED BY <1>1, <1>2, <2>1 DEF IsRowOf
<1>9. Free(r)[i] = AtLeast(r.alloc[i] - (r.floating[i] + r.perNode[i]), 0)
  BY DEF Free, Both, Plus
<1>10. Iron(n)[i] \in Nat
  BY DEF Iron, IsNode
<1>11. PICK x, s, u, o : x = Iron(n)[i] /\ s = AskOf(S)[i] /\ u = AskOf(T)[i] /\ o = AskOf(own)[i]
  OBVIOUS
<1>12. x \in Nat /\ s \in Nat /\ u \in Nat /\ o \in Nat /\ o <= s + u
  BY <1>5, <1>6, <1>7, <1>10, <1>11
<1>13. Free(r)[i] = AtLeast(x - (s + u), 0)
  BY <1>8, <1>9, <1>11
<1>14. HeldBy(n, pods)[i] = o
  BY <1>1, <1>11 DEF HeldBy
<1>15. AtLeast(x - (s + u), 0) \in Nat /\ AtLeast(x - o, 0) \in Nat /\ AtLeast(x - (s + u), 0) <= AtLeast(x - o, 0)
  BY <1>12 DEF AtLeast
<1> QED BY <1>11, <1>13, <1>14, <1>15

\* The pods that have to move off a node are all in its row.
LEMMA RowHoldsTheMoving ==
    ASSUME NEW n, NEW t, NEW pods, IsLoad(pods), NEW spend,
           NEW r, r = Row(n, t, pods, spend), NEW i \in {1, 2}
    PROVE  /\ r.floating[i] \in Nat /\ AskOf(Moving(n, pods))[i] \in Nat
           /\ AskOf(Moving(n, pods))[i] <= r.floating[i]
<1>0. PICK here : here = PodsOn(n, pods)
  OBVIOUS
<1>1. PICK S : S = {p \in here : ~p.perNode}
  OBVIOUS
<1>2. S \in SUBSET pods /\ Moving(n, pods) \in SUBSET S /\ Moving(n, pods) \in SUBSET pods
  BY <1>0, <1>1 DEF PodsOn, Moving
<1>3. r.floating = AskOf(S)
  <2>1. IsRowOf(r, n, t, pods, spend)
    BY RowFields
  <2> QED BY <1>0, <1>1, <2>1 DEF IsRowOf
<1>4. AskOf(Moving(n, pods))[i] <= AskOf(S)[i]
  BY <1>2, AskOfPart
<1>5. AskOf(S)[i] \in Nat
  BY <1>2, AskIsASum
<1>6. AskOf(Moving(n, pods))[i] \in Nat
  BY <1>2, AskIsASum
<1> QED BY <1>3, <1>4, <1>5, <1>6

\* The nodes of a pool and their rows, one each.
ArePoolRows(P, h, rows, mapping, pods, spend) ==
    /\ IsFiniteSet(P) /\ \A n \in P : IsNode(n)
    /\ \A m, n \in P : m.name = n.name => m = n
    /\ h = [n \in P |-> Row(n, mapping[n], pods, spend)]
    /\ rows = {h[n] : n \in P}
    /\ IsLoad(pods) /\ IsSpend(spend)

\* Every node of a pool has a row of its own.
LEMMA RowsAreOneEach ==
    ASSUME NEW P, NEW h, NEW rows, NEW mapping, NEW pods, NEW spend,
           ArePoolRows(P, h, rows, mapping, pods, spend)
    PROVE  /\ \A n \in P : h[n].node = n.name /\ h[n].takes = TakesPods(n)
           /\ \A m, n \in P : h[m] = h[n] => m = n
           /\ IsFiniteSet(rows)
           /\ \A r \in rows : r.monthly # None => r.monthly \in Int
           /\ \A r \in rows : NameRank[r.node] \in Int
<1>1. /\ IsFiniteSet(P) /\ (\A m, n \in P : m.name = n.name => m = n)
      /\ (\A n \in P : h[n] = Row(n, mapping[n], pods, spend)) /\ rows = {h[n] : n \in P} /\ IsSpend(spend)
  BY DEF ArePoolRows
<1>2. ASSUME NEW n \in P
      PROVE  /\ h[n].node = n.name /\ h[n].takes = TakesPods(n)
             /\ h[n].monthly # None => h[n].monthly \in Int
             /\ NameRank[h[n].node] \in Int
  <2>1. /\ h[n].node = n.name /\ h[n].takes = TakesPods(n)
        /\ h[n].monthly = IF CostOf(spend, mapping[n]) = None THEN None ELSE Monthly(CostOf(spend, mapping[n]))
    <3>1. IsRowOf(h[n], n, mapping[n], pods, spend)
      BY <1>1, RowFields
    <3> QED BY <3>1 DEF IsRowOf
  <2>2. CostOf(spend, mapping[n]) # None => Monthly(CostOf(spend, mapping[n])) \in Int
    BY <1>1, MonthlyIsInt
  <2>3. NameRank[n.name] \in Int
    BY DEF ArePoolRows, IsNode
  <2> QED BY <2>1, <2>2, <2>3
<1>3. \A m, n \in P : h[m] = h[n] => m = n
  BY <1>1, <1>2
<1>4. IsFiniteSet(rows)
  BY <1>1, ImageIsFinite
<1> QED BY <1>1, <1>2, <1>3, <1>4

\* What leaves with some nodes, what they need elsewhere, and what room others have.
Moved(names, pods) == {p \in pods : p.node \in names /\ ~p.perNode}
NamesOf(D) == {n.name : n \in D}
RowsFor(h, D) == {h[n] : n \in D}
Need(i, S) == SumFunctionOnSet([r \in S |-> r.floating[i]], S)
Room(i, S) == SumFunctionOnSet([r \in S |-> Free(r)[i]], S)
LeftOn(i, O, pods) == SumFunctionOnSet([n \in O |-> AtLeast(Iron(n)[i] - HeldBy(n, pods)[i], 0)], O)

\* What the pods that move ask is in the rows of the nodes that go.
LEMMA MovingIsNeeded ==
    ASSUME NEW P, NEW h, NEW rows, NEW mapping, NEW pods, NEW spend,
           ArePoolRows(P, h, rows, mapping, pods, spend),
           NEW D \in SUBSET P, NEW i \in {1, 2}
    PROVE  /\ AskOf(Moved(NamesOf(D), pods))[i] \in Nat /\ Need(i, RowsFor(h, D)) \in Nat
           /\ AskOf(Moved(NamesOf(D), pods))[i] <= Need(i, RowsFor(h, D))
<1>1. PICK moved : moved = Moved(NamesOf(D), pods)
  OBVIOUS
<1>2. /\ IsFiniteSet(P) /\ (\A m, n \in P : m.name = n.name => m = n)
      /\ (\A n \in P : h[n] = Row(n, mapping[n], pods, spend)) /\ IsLoad(pods)
  BY DEF ArePoolRows
<1>3. IsFiniteSet(D)
  BY <1>2, FS_Subset
<1>4. PICK M, a, own, fl, rf :
          /\ M = [n \in D |-> Moving(n, pods)] /\ a = Asks(pods, i)
          /\ own = [n \in D |-> SumFunctionOnSet(a, M[n])]
          /\ fl = [n \in D |-> h[n].floating[i]]
          /\ rf = [r \in {h[n] : n \in D} |-> r.floating[i]]
  OBVIOUS
<1>5. \A n \in D : /\ own[n] \in Nat /\ fl[n] \in Nat /\ own[n] <= fl[n]
                   /\ IsFiniteSet(M[n]) /\ \A p \in M[n] : a[p] \in Int
  <2> SUFFICES ASSUME NEW n \in D
               PROVE  /\ own[n] \in Nat /\ fl[n] \in Nat /\ own[n] <= fl[n]
                      /\ IsFiniteSet(M[n]) /\ \A p \in M[n] : a[p] \in Int
    OBVIOUS
  <2>1. h[n] = Row(n, mapping[n], pods, spend)
    BY <1>2
  <2>2. /\ h[n].floating[i] \in Nat /\ AskOf(Moving(n, pods))[i] \in Nat
        /\ AskOf(Moving(n, pods))[i] <= h[n].floating[i]
    BY <1>2, <2>1, RowHoldsTheMoving
  <2>3. M[n] = Moving(n, pods) /\ Moving(n, pods) \in SUBSET pods
    BY <1>4 DEF Moving
  <2>4. /\ AskOf(M[n])[i] = SumFunctionOnSet(a, M[n]) /\ IsFiniteSet(M[n])
        /\ \A p \in pods : a[p] \in Nat
    BY <1>2, <1>4, <2>3, AskIsASum
  <2> QED BY <1>4, <2>2, <2>3, <2>4
<1>6. \A m, n \in D : m # n => M[m] \cap M[n] = {}
  BY <1>2, <1>4 DEF Moving
<1>7. moved = UNION {M[n] : n \in D}
  BY <1>1, <1>4 DEF Moving, Moved, NamesOf
<1>8. ArePartsFor(M, D, moved, a, own)
  BY <1>3, <1>4, <1>5, <1>6, <1>7 DEF ArePartsFor
<1>9. SumFunctionOnSet(a, moved) = SumFunctionOnSet(own, D)
  BY <1>8, SumOfParts
<1>10. AskOf(moved)[i] = SumFunctionOnSet(a, moved) /\ AskOf(moved)[i] \in Nat
  <2>1. moved \in SUBSET pods
    BY <1>1 DEF Moved
  <2> QED BY <1>2, <1>4, <2>1, AskIsASum
<1>11. SumFunctionOnSet(own, D) <= SumFunctionOnSet(fl, D)
  <2>1. \A n \in D : own[n] \in Int /\ fl[n] \in Int /\ own[n] <= fl[n]
    BY <1>5
  <2> QED BY <1>3, <2>1, SumMonotone
<1>12. SumFunctionOnSet(rf, {h[n] : n \in D}) = SumFunctionOnSet(fl, D)
  <2>1. \A m, n \in D : h[m] = h[n] => m = n
    BY RowsAreOneEach
  <2>2. \A n \in D : fl[n] = rf[h[n]] /\ rf[h[n]] \in Int
    BY <1>4, <1>5
  <2> QED BY <1>3, <2>1, <2>2, SumOfImage
<1>13. SumFunctionOnSet(fl, D) \in Nat
  <2>1. \A n \in D : fl[n] \in Nat
    BY <1>5
  <2> QED BY <1>3, <2>1, SumOfNats
<1>14. Need(i, RowsFor(h, D)) = SumFunctionOnSet(rf, {h[n] : n \in D})
  BY <1>4 DEF Need, RowsFor
<1> QED BY <1>1, <1>9, <1>10, <1>11, <1>12, <1>13, <1>14

\* The room in the rows of nodes that stay is there.
LEMMA RoomIsThere ==
    ASSUME NEW P, NEW h, NEW rows, NEW mapping, NEW pods, NEW spend,
           ArePoolRows(P, h, rows, mapping, pods, spend),
           NEW O \in SUBSET P, NEW i \in {1, 2}
    PROVE  /\ Room(i, RowsFor(h, O)) \in Nat /\ LeftOn(i, O, pods) \in Nat
           /\ Room(i, RowsFor(h, O)) <= LeftOn(i, O, pods)
<1>1. /\ IsFiniteSet(P) /\ (\A n \in P : IsNode(n))
      /\ (\A n \in P : h[n] = Row(n, mapping[n], pods, spend)) /\ IsLoad(pods)
  BY DEF ArePoolRows
<1>2. IsFiniteSet(O)
  BY <1>1, FS_Subset
<1>3. PICK rf, fl, free :
          /\ rf = [r \in {h[n] : n \in O} |-> Free(r)[i]] /\ fl = [n \in O |-> Free(h[n])[i]]
          /\ free = [n \in O |-> AtLeast(Iron(n)[i] - HeldBy(n, pods)[i], 0)]
  OBVIOUS
<1>4. \A n \in O : fl[n] \in Nat /\ free[n] \in Nat /\ fl[n] <= free[n]
  <2> SUFFICES ASSUME NEW n \in O PROVE fl[n] \in Nat /\ free[n] \in Nat /\ fl[n] <= free[n]
    OBVIOUS
  <2>1. IsNode(n) /\ h[n] = Row(n, mapping[n], pods, spend)
    BY <1>1
  <2>2. /\ Free(h[n])[i] \in Nat
        /\ AtLeast(Iron(n)[i] - HeldBy(n, pods)[i], 0) \in Nat
        /\ Free(h[n])[i] <= AtLeast(Iron(n)[i] - HeldBy(n, pods)[i], 0)
    BY <1>1, <2>1, RowIsNoRoomier
  <2> QED BY <1>3, <2>2
<1>5. SumFunctionOnSet(rf, {h[n] : n \in O}) = SumFunctionOnSet(fl, O)
  <2>1. \A m, n \in O : h[m] = h[n] => m = n
    BY RowsAreOneEach
  <2>2. \A n \in O : fl[n] = rf[h[n]] /\ rf[h[n]] \in Int
    BY <1>3, <1>4
  <2> QED BY <1>2, <2>1, <2>2, SumOfImage
<1>6. SumFunctionOnSet(fl, O) <= SumFunctionOnSet(free, O)
  <2>1. \A n \in O : fl[n] \in Int /\ free[n] \in Int /\ fl[n] <= free[n]
    BY <1>4
  <2> QED BY <1>2, <2>1, SumMonotone
<1>7. SumFunctionOnSet(fl, O) \in Nat /\ SumFunctionOnSet(free, O) \in Nat
  <2>1. (\A n \in O : fl[n] \in Nat) /\ (\A n \in O : free[n] \in Nat)
    BY <1>4
  <2> QED BY <1>2, <2>1, SumOfNats
<1>8. Room(i, RowsFor(h, O)) = SumFunctionOnSet(rf, {h[n] : n \in O}) /\ LeftOn(i, O, pods) = SumFunctionOnSet(free, O)
  BY <1>3 DEF Room, RowsFor, LeftOn
<1> QED BY <1>5, <1>6, <1>7, <1>8

\* Nodes that can go leave room for what they held.
LEMMA DropsFitThePool ==
    ASSUME NEW P, NEW h, NEW rows, NEW mapping, NEW pods, NEW spend,
           ArePoolRows(P, h, rows, mapping, pods, spend),
           NEW drop, drop = Droppable(rows), drop # {},
           NEW names, names = {r.node : r \in drop},
           NEW stay, stay = {n \in P : n.name \notin names /\ TakesPods(n)}
    PROVE  /\ \A n \in P : n.name \in names => TakesPods(n)
           /\ stay # {}
           /\ \A i \in {1, 2} : AskOf(Moved(names, pods))[i] <= LeftOn(i, stay, pods)
<1>1. /\ \A n \in P : h[n].node = n.name /\ h[n].takes = TakesPods(n)
      /\ \A m, n \in P : h[m] = h[n] => m = n
      /\ IsFiniteSet(rows)
      /\ \A r \in rows : r.monthly # None => r.monthly \in Int
      /\ \A r \in rows : NameRank[r.node] \in Int
  BY RowsAreOneEach
<1>2. rows = {h[n] : n \in P} /\ \A m, n \in P : m.name = n.name => m = n
  BY DEF ArePoolRows
<1>3. drop \subseteq Candidates(rows) /\ Fits(rows, drop, TargetPct)
  BY <1>1, DropFits
<1>4. \A r \in drop : r \in rows /\ r.takes
  BY <1>3 DEF Candidates
<1>5. PICK D : D = {n \in P : h[n] \in drop}
  OBVIOUS
<1>6. drop = RowsFor(h, D)
  <2>1. \A n \in D : n \in P /\ h[n] \in drop
    BY <1>5
  <2>2. ASSUME NEW r \in drop PROVE \E n \in D : r = h[n]
    <3>1. PICK n \in P : r = h[n]
      BY <1>2, <1>4
    <3> QED BY <1>5, <3>1
  <2> QED BY <2>1, <2>2 DEF RowsFor
<1>7. names = NamesOf(D)
  <2>1. \A n \in D : n \in P /\ h[n] \in drop /\ h[n].node = n.name
    BY <1>1, <1>5
  <2>2. \A x \in names : x \in NamesOf(D)
    <3> SUFFICES ASSUME NEW r \in drop PROVE r.node \in NamesOf(D)
      OBVIOUS
    <3>1. PICK n \in D : r = h[n]
      BY <1>6 DEF RowsFor
    <3> QED BY <2>1, <3>1 DEF NamesOf
  <2>3. \A n \in D : n.name \in names
    BY <2>1
  <2> QED BY <2>2, <2>3 DEF NamesOf
<1>8. \A n \in P : n.name \in names <=> n \in D
  BY <1>2, <1>5, <1>7 DEF NamesOf
<1>9. \A n \in D : TakesPods(n)
  BY <1>1, <1>4, <1>5
<1>10. PICK open : open = {r \in rows \ drop : r.takes}
  OBVIOUS
<1>11. open = RowsFor(h, stay)
  <2>1. \A n \in stay : h[n] \in open
    BY <1>1, <1>2, <1>5, <1>8, <1>10
  <2>2. \A r \in open : \E n \in stay : r = h[n]
    <3> SUFFICES ASSUME NEW r \in open PROVE \E n \in stay : r = h[n]
      OBVIOUS
    <3>1. r \in rows /\ r \notin drop /\ r.takes
      BY <1>10
    <3>2. PICK n \in P : r = h[n]
      BY <1>2, <3>1
    <3>3. n \in stay
      BY <1>1, <1>5, <1>8, <3>1, <3>2
    <3> QED BY <3>2, <3>3
  <2> QED BY <2>1, <2>2 DEF RowsFor
<1>12. /\ open # {}
       /\ Need(1, drop) * 100 <= TargetPct * Room(1, open) /\ Need(2, drop) * 100 <= TargetPct * Room(2, open)
  BY <1>3, <1>10 DEF Fits, PairSum, Sum, Need, Room
<1>13. stay # {}
  BY <1>11, <1>12 DEF RowsFor
<1>14. D \in SUBSET P /\ stay \in SUBSET P
  BY <1>5
<1>15. ASSUME NEW i \in {1, 2}, Need(i, drop) * 100 <= TargetPct * Room(i, open)
       PROVE  AskOf(Moved(names, pods))[i] <= LeftOn(i, stay, pods)
  <2>1. PICK a, f, need, room : /\ a = AskOf(Moved(names, pods))[i] /\ f = LeftOn(i, stay, pods)
                                /\ need = Need(i, drop) /\ room = Room(i, open)
    OBVIOUS
  <2>2. a \in Nat /\ need \in Nat /\ a <= need
    BY <1>6, <1>7, <1>14, <2>1, MovingIsNeeded
  <2>3. room \in Nat /\ f \in Nat /\ room <= f
    BY <1>11, <1>14, <2>1, RoomIsThere
  <2>4. need <= room
    <3>1. TargetPct \in 1 .. 100
      BY TuningAssumption
    <3>2. PICK d : d = 100 - TargetPct
      OBVIOUS
    <3>3. d \in Nat /\ TargetPct = 100 - d
      BY <3>1, <3>2
    <3>4. d * room \in Nat
      BY <2>3, <3>3
    <3>5. TargetPct * room = 100 * room - d * room
      BY <2>3, <3>3
    <3>6. need * 100 <= 100 * room
      BY <1>15, <2>1, <2>2, <2>3, <3>4, <3>5
    <3> QED BY <2>2, <2>3, <3>6
  <2> QED BY <2>1, <2>2, <2>3, <2>4
<1>16. \A i \in {1, 2} : AskOf(Moved(names, pods))[i] <= LeftOn(i, stay, pods)
  BY <1>12, <1>15
<1> QED BY <1>8, <1>9, <1>13, <1>16

\* The nodes a pool is told it can lose are ones that pods may use, are never all of those,
\* and the rest has room for what they carry (pools.py _droppable and _fits).
THEOREM DroppedNodesLeaveRoom == Spec => []DropsLeaveRoom
<1>1. IInv => DropsLeaveRoom
  <2> SUFFICES ASSUME IInv, Reported, NEW f \in report.pools, f.kind = "oversized-node-pool"
               PROVE  LET names == {r.node : r \in f.drop}
                          pool == {n \in DOMAIN Mapping : Mapping[n].pool = f.ref}
                          stay == {n \in pool : n.name \notin names /\ TakesPods(n)}
                      IN  /\ \A n \in pool : n.name \in names => TakesPods(n)
                          /\ stay # {}
                          /\ \A i \in {1, 2} : AskOf(Moved(names, OnNodes))[i] <= LeftOn(i, stay, OnNodes)
    BY DEF DropsLeaveRoom, Moved, LeftOn, Sum, Iron, HeldBy
  <2>1. PICK pods, mapping, spend : pods = OnNodes /\ mapping = Mapping /\ spend = world.spend
    OBVIOUS
  <2>2. report = ReportOf(world, history) /\ Legal(world)
    BY DEF IInv, Current, Reported
  <2>3. report.pools = Review(mapping, pods, spend) /\ mapping = Match(world.nodes, world.vms, world.settings.byName)
    BY <2>1, <2>2 DEF ReportOf, OnNodes, Mapping
  <2>4. PICK pool, rows, card : f \in ReviewPool(pool, rows, card) /\ rows = RowsOf(mapping, pool, pods, spend)
    BY <2>3 DEF Review
  <2>5. f.ref = pool /\ f.drop = Droppable(rows) /\ Droppable(rows) # {}
    BY <2>4 DEF ReviewPool
  <2>6. PICK P, h : P = {n \in DOMAIN mapping : mapping[n].pool = pool} /\ h = [n \in P |-> Row(n, mapping[n], pods, spend)]
    OBVIOUS
  <2>7. ArePoolRows(P, h, rows, mapping, pods, spend)
    <3>1. rows = {h[n] : n \in P}
      BY <2>4, <2>6 DEF RowsOf
    <3>2. IsFiniteSet(DOMAIN mapping) /\ DOMAIN mapping \subseteq world.nodes /\ \A n \in world.nodes : IsNode(n)
      BY <2>2, <2>3, PricedAreNodes
    <3>3. IsFiniteSet(P) /\ (\A n \in P : IsNode(n)) /\ P \subseteq world.nodes
      BY <2>6, <3>2, FS_Subset
    <3>4. \A m, n \in P : m.name = n.name => m = n
      BY <2>2, <3>3 DEF Legal, IsWorld
    <3>5. IsLoad(pods) /\ IsSpend(spend)
      BY <2>1, <2>2, ScheduledIsLoad DEF OnNodes, Legal, IsWorld
    <3> QED BY <2>6, <3>1, <3>3, <3>4, <3>5 DEF ArePoolRows
  <2>8. PICK names, stay : names = {r.node : r \in f.drop} /\ stay = {n \in P : n.name \notin names /\ TakesPods(n)}
    OBVIOUS
  <2>9. /\ \A n \in P : n.name \in names => TakesPods(n)
        /\ stay # {}
        /\ \A i \in {1, 2} : AskOf(Moved(names, pods))[i] <= LeftOn(i, stay, pods)
    BY <2>5, <2>7, <2>8, DropsFitThePool
  <2> QED BY <2>1, <2>5, <2>6, <2>8, <2>9
<1> QED BY <1>1, AlwaysIInv, PTL
=============================================================================
