--------------------------- MODULE NodeIdsProofs ----------------------------
(* Proofs about module NodeIds, for any sets of nodes, addresses and UUIDs, *)
(* any number of faults and of steps of users.                              *)
EXTENDS NodeIds, FiniteSetTheorems, TLAPS

-----------------------------------------------------------------------------
(* Types                                                                   *)

RunType == [at : {"idle", "k8s", "bm", "annotate", "clear", "finalizer"},
            name : Node \cup Id \cup {None}, goal : Id \cup {None}, stale : BOOLEAN,
            k : Node \cup {None}, copy : K8sNode]

LEMMA ConstantTypes ==
  /\ NoNode \in K8sNode /\ ~NoNode.up /\ NoNode.ann = None
  /\ NoBM \in CSIBMNode /\ ~NoBM.is
  /\ Idle \in RunType /\ Idle.at = "idle" /\ Idle.k = None /\ None \notin Node
BY NodeIdsAssumption DEF NoNode, K8sNode, NoBM, CSIBMNode, Idle, RunType

\* The steps of one kind of object keep the types of the other.
LEMMA PutNodeType ==
  ASSUME TypeOK, NEW k \in Node, NEW new \in K8sNode, PutNode(k, new)
  PROVE  /\ node' \in [Node -> K8sNode]
         /\ queue' \subseteq Node \cup Id
         /\ node'[k] = new
         /\ \A n \in Node \ {k} : node'[n] = node[n]
BY DEF TypeOK, PutNode

LEMMA PutBMType ==
  ASSUME TypeOK, NEW i \in Id, NEW new \in CSIBMNode, PutBM(i, new)
  PROVE  /\ bm' \in [Id -> CSIBMNode]
         /\ queue' \subseteq Node \cup Id
         /\ bm'[i] = new
         /\ \A j \in Id \ {i} : bm'[j] = bm[j]
BY DEF TypeOK, PutBM

LEMMA RememberType ==
  ASSUME TypeOK, NEW k \in Node, NEW i \in Id, Remember(k, i)
  PROVE  /\ toBM' \in [Node -> Id \cup {None}] /\ toK8s' \in [Id -> Node \cup {None}]
         /\ toBM'[k] = i /\ \A n \in Node \ {k} : toBM'[n] = toBM[n]
BY DEF TypeOK, Remember

LEMMA ForgetType ==
  ASSUME TypeOK, NEW k \in Node, NEW i \in Id, CleanNodeFromCache(k, i)
  PROVE  /\ toBM' \in [Node -> Id \cup {None}] /\ toK8s' \in [Id -> Node \cup {None}]
         /\ toBM'[k] = None /\ \A n \in Node \ {k} : toBM'[n] = toBM[n]
BY DEF TypeOK, CleanNodeFromCache

\* What the worker does next about the annotation.
LEMMA ToAnnotateType ==
  ASSUME TypeOK, NEW k \in Node, NEW i \in Id, NEW n, ToAnnotate(k, n, i)
  PROVE  /\ run' \in RunType
         /\ \/ run' = Idle
            \/ /\ run'.at = "annotate" /\ run'.goal = i /\ run'.k = k /\ run'.name = run.name
               /\ ~external
<1>1. run \in RunType
  BY DEF TypeOK, RunType
<1>2. CASE run' = Idle
  BY <1>2, ConstantTypes
<1>3. CASE /\ ~external
           /\ run' = [run EXCEPT !.at = "annotate", !.goal = i, !.k = k, !.copy = NoNode]
  <2>1. NoNode \in K8sNode
    BY ConstantTypes
  <2> HIDE DEF NoNode
  <2> QED
    BY <1>1, <1>3, <2>1 DEF RunType
<1> QED
  BY <1>2, <1>3 DEF ToAnnotate, Goal

\* A write to node k makes the copy the worker has of it stale, no more.
LEMMA TouchType ==
  ASSUME TypeOK, NEW k \in Node, Touch(k)
  PROVE  /\ run' \in RunType
         /\ run'.at = run.at /\ run'.name = run.name /\ run'.goal = run.goal
         /\ run'.k = run.k /\ run'.copy = run.copy
<1>1. run \in RunType
  BY DEF TypeOK, RunType
<1> QED
  BY <1>1 DEF Touch, RunType

LEMMA InitInv == Init => IdsInv
<1> SUFFICES ASSUME Init PROVE IdsInv
  OBVIOUS
<1>1. TypeOK
  <2>1. run \in RunType
    BY ConstantTypes DEF Init
  <2>2. node \in [Node -> K8sNode] /\ bm \in [Id -> CSIBMNode]
    BY ConstantTypes DEF Init
  <2> QED
    BY <2>1, <2>2, NodeIdsAssumption DEF Init, TypeOK, RunType
<1>2. RunOK
  BY ConstantTypes DEF Init, RunOK
<1>3. \A k \in Node : ~node[k].up /\ node[k].ann = None /\ podId[k] = None
  BY ConstantTypes DEF Init
<1>4. \A i \in Id : ~bm[i].is
  BY ConstantTypes DEF Init
<1> QED
  BY <1>1, <1>2, <1>3, <1>4, ConstantTypes
  DEF Init, IdsInv, OneHost, OneOwner, CacheOK, GivenIsOwner, Owns

-----------------------------------------------------------------------------
(* Addresses                                                               *)

\* Two objects that share a host's name match in full or in part.
LEMMA SharedHost ==
  ASSUME NEW b \in CSIBMNode, NEW n \in K8sNode, NEW k \in Node,
         k \in Hosts(b.addr), k \in Hosts(n.addr)
  PROVE  Full(b, n) \/ Partial(b, n)
BY DEF Hosts, Full, Partial

\* A CSIBMNode that matches a node in full has the name of its host.
LEMMA FullOwns ==
  ASSUME IdsInv, NEW i \in Id, bm[i].is, NEW n \in K8sNode, NEW k \in Node,
         Hosts(n.addr) = {k}, Full(bm[i], n)
  PROVE  Owns(i, k)
<1>1. PICK h \in Node : Hosts(bm[i].addr) = {h}
  BY DEF IdsInv, OneHost
<1>2. h \in Hosts(n.addr)
  BY <1>1 DEF Full, Hosts
<1> QED
  BY <1>1, <1>2 DEF Owns, Hosts

-----------------------------------------------------------------------------
(* What a step does to the owners                                          *)

\* What the worker holds of a node k that nobody interfered with.
RunOf(k) ==
  /\ ~node[k].up => run.k # k
  /\ run.at = "k8s" /\ run.k = k /\ external => run.copy.ann = node[k].ann
  /\ run.at = "annotate" /\ run.k = k => Owns(run.goal, k)

\* The worker is idle, or holds of the nodes what it held before.
LEMMA RunKept ==
  ASSUME IdsInv, RunOK', UNCHANGED external, touched \subseteq touched', bm' = bm,
         \/ run' = Idle
         \/ /\ run'.k = run.k /\ run'.copy = run.copy
            /\ run'.at \in {"k8s", "annotate"} => run'.at = run.at /\ run'.goal = run.goal,
         NEW k \in Node \ touched', node'[k].up = node[k].up,
         external => node'[k].ann = node[k].ann
  PROVE  RunOf(k)'
<1>1. RunOf(k)
  BY DEF RunOf, IdsInv, GivenIsOwner
<1> QED
  BY <1>1, ConstantTypes DEF RunOf, Owns

\* Steps that leave the CSIBMNodes alone, put no other CSIBMNode of a node into
\* the cache than its owner, and give a node no other id than its owner's.
LEMMA SameOwners ==
  ASSUME IdsInv, TypeOK', RunOK', bm' = bm, UNCHANGED external,
         \A k \in Node : node'[k].up => Hosts(node'[k].addr) = {k},
         \A k \in Node : \/ toBM'[k] \in {None, toBM[k]}
                         \/ Owns(toBM'[k], k) \/ \A i \in Id : ~Owns(i, k),
         touched \subseteq touched',
         \A k \in Node \ touched' :
           /\ node[k].up => node'[k].up
           /\ podId'[k] \in {None, podId[k]} \/ Owns(podId'[k], k)
           /\ ~external => node'[k].ann \in {None, node[k].ann} \/ Owns(node'[k].ann, k)
           /\ external /\ node'[k].ann # node[k].ann => \A i \in Id : ~Owns(i, k)
           /\ RunOf(k)'
  PROVE  IdsInv'
<1>1. OneHost' /\ OneOwner'
  BY DEF IdsInv, OneHost, OneOwner, Owns, Hosts
<1>2. CacheOK'
  <2> SUFFICES ASSUME NEW i \in Id, NEW k \in Node, Owns(i, k)
               PROVE  toBM'[k] \in {None, i}
    BY DEF CacheOK, Owns
  <2>1. toBM[k] \in {None, i}
    BY DEF IdsInv, CacheOK
  <2>2. toBM'[k] \in Id \cup {None}
    BY DEF TypeOK
  <2>3. CASE toBM'[k] # None /\ Owns(toBM'[k], k)
    BY <2>2, <2>3 DEF IdsInv, OneOwner
  <2> QED
    BY <2>1, <2>2, <2>3
<1>3. GivenIsOwner'
  <2>1. ASSUME NEW k \in Node \ touched'
        PROVE  /\ ~node'[k].up => \A i \in Id : ~Owns(i, k)
               /\ podId'[k] # None => Owns(podId'[k], k)
               /\ ~external /\ node'[k].ann # None => Owns(node'[k].ann, k)
               /\ external => \A i \in Id : Owns(i, k) /\ node'[k].ann # None => i = node'[k].ann
               /\ RunOf(k)'
    BY <2>1 DEF IdsInv, GivenIsOwner
  <2>2. \A i \in Id, k \in Node : Owns(i, k) /\ bm[i].del => k \in touched'
    BY DEF IdsInv, GivenIsOwner
  <2>3. run'.at = "annotate" => run'.k \in Node
    BY DEF RunOK
  <2> QED
    BY <2>1, <2>2, <2>3 DEF GivenIsOwner, Owns, RunOf
<1> QED
  BY <1>1, <1>2, <1>3 DEF IdsInv

-----------------------------------------------------------------------------
(* The reconciliations                                                     *)

LEMMA EndsInv ==
  ASSUME IdsInv, NEW name \in Node \cup Id, Ends \/ Again(name), UNCHANGED Inputs
  PROVE  IdsInv'
<1>1. /\ run' = Idle /\ UNCHANGED <<node, bm, toBM, toK8s>>
      /\ queue' \subseteq Node \cup Id
  BY DEF Ends, Again, IdsInv, TypeOK
<1>2. TypeOK' /\ RunOK'
  BY <1>1, ConstantTypes DEF IdsInv, TypeOK, RunOK, RunType, Inputs
<1> QED
  BY <1>1, <1>2, SameOwners, RunKept DEF Inputs, IdsInv, OneHost

LEMMA ReconcileNodeInv ==
  ASSUME IdsInv, NEW k \in Node, ReconcileNode(k)
  PROVE  IdsInv'
<1> USE DEF IdsInv
<1>1. UNCHANGED <<node, bm>> /\ UNCHANGED Inputs /\ queue' \subseteq Node \cup Id
  BY DEF ReconcileNode, TypeOK
<1>2. CASE node[k].up
  <2>1. run' = [Idle EXCEPT !.at = "k8s", !.name = k, !.k = k, !.copy = node[k]]
        /\ UNCHANGED <<toBM, toK8s>>
    BY <1>2 DEF ReconcileNode
  <2>2. Hosts(node[k].addr) = {k} /\ node[k] \in K8sNode
    BY <1>2 DEF OneHost, TypeOK
  <2>3. /\ run' \in RunType /\ run'.at = "k8s" /\ run'.k = k /\ run'.name = k
        /\ run'.copy = node[k]
    <3>1. Idle \in RunType
      BY ConstantTypes
    <3> HIDE DEF Idle
    <3> QED
      BY <2>1, <2>2, <3>1 DEF RunType
  <2>4. TypeOK' /\ RunOK'
    BY <1>1, <2>1, <2>2, <2>3 DEF TypeOK, RunOK, RunType, Inputs
  <2>5. \A n \in Node : RunOf(n)'
    BY <1>1, <1>2, <2>3 DEF RunOf
  <2> QED
    BY <1>1, <2>1, <2>4, <2>5, SameOwners DEF Inputs, OneHost
<1>3. CASE ~node[k].up
  <2>1. run' = run /\ CleanDeletedK8sNodeFromCache(k)
    BY <1>3 DEF ReconcileNode
  <2>2. /\ toBM' \in [Node -> Id \cup {None}] /\ toK8s' \in [Id -> Node \cup {None}]
        /\ \A n \in Node : toBM'[n] \in {None, toBM[n]}
    <3>1. CASE toBM[k] # None /\ ~bm[toBM[k]].is
      <4>1. toBM[k] \in Id /\ CleanNodeFromCache(k, toBM[k])
        BY <2>1, <3>1 DEF CleanDeletedK8sNodeFromCache, TypeOK
      <4> QED
        BY <4>1, ForgetType
    <3>2. CASE ~(toBM[k] # None /\ ~bm[toBM[k]].is)
      BY <2>1, <3>2 DEF CleanDeletedK8sNodeFromCache, TypeOK
    <3> QED
      BY <3>1, <3>2
  <2>3. TypeOK' /\ RunOK'
    BY <1>1, <2>1, <2>2 DEF TypeOK, RunOK, Inputs
  <2> QED
    BY <1>1, <2>1, <2>2, <2>3, SameOwners, RunKept DEF Inputs, OneHost
<1> QED
  BY <1>2, <1>3

LEMMA ReconcileBMInv ==
  ASSUME IdsInv, NEW i \in Id, ReconcileBM(i)
  PROVE  IdsInv'
<1> USE DEF IdsInv
<1>1. /\ UNCHANGED <<node, bm, toBM, toK8s>> /\ UNCHANGED Inputs
      /\ queue' \subseteq Node \cup Id
  BY DEF ReconcileBM, TypeOK
<1>2. \/ run' = run
      \/ /\ run' \in RunType /\ run'.at = "bm" /\ run'.name = i /\ bm[i].is
         /\ run'.k = None
  <2>1. Idle \in RunType /\ Idle.k = None
    BY ConstantTypes
  <2> HIDE DEF Idle
  <2> QED
    BY <2>1 DEF ReconcileBM, RunType
<1>3. TypeOK' /\ RunOK'
  BY <1>1, <1>2 DEF TypeOK, RunOK, RunType, Inputs
<1>4. ASSUME NEW n \in Node \ touched PROVE RunOf(n)'
  <2>1. RunOf(n)
    BY DEF RunOf, GivenIsOwner
  <2> QED
    BY <1>1, <1>2, <2>1, ConstantTypes DEF RunOf, Owns, Inputs
<1> QED
  BY <1>1, <1>3, <1>4, SameOwners DEF Inputs, OneHost

\* A CSIBMNode is found for a node, or the other way round: it is the owner.
LEMMA FoundInv ==
  ASSUME IdsInv, NEW k \in Node, NEW i \in Id, NEW n, Owns(i, k),
         run.name \in Node \cup Id, k \in touched \/ node[k].up,
         Remember(k, i), ToAnnotate(k, n, i),
         UNCHANGED <<node, bm, queue>>, UNCHANGED Inputs
  PROVE  IdsInv'
<1> USE DEF IdsInv
<1>1. /\ toBM' \in [Node -> Id \cup {None}] /\ toK8s' \in [Id -> Node \cup {None}]
      /\ toBM'[k] = i /\ \A h \in Node \ {k} : toBM'[h] = toBM[h]
  BY RememberType
<1>2. /\ run' \in RunType
      /\ \/ run' = Idle
         \/ /\ run'.at = "annotate" /\ run'.goal = i /\ run'.k = k /\ run'.name = run.name
            /\ ~external
  BY ToAnnotateType
<1>3. TypeOK' /\ RunOK'
  BY <1>1, <1>2, ConstantTypes DEF TypeOK, RunOK, RunType, Inputs
<1>4. \A h \in Node \ touched : RunOf(h)'
  BY <1>2, ConstantTypes DEF RunOf, Owns, Inputs
<1> QED
  BY <1>1, <1>3, <1>4, SameOwners DEF Inputs, OneHost

\* No candidate shares an address with the node: nothing owns its name, although
\* only the cached CSIBMNode may have been looked at.
LEMMA NobodyOwns ==
  ASSUME IdsInv, run.at = "k8s",
         toBM[run.k] # None => bm[toBM[run.k]].is,
         ~Blocked(run.k), MatchedBM(run.k) = {}
  PROVE  \A j \in Id : ~Owns(j, run.k)
<1> SUFFICES ASSUME NEW j \in Id, Owns(j, run.k) PROVE FALSE
  OBVIOUS
<1>1. run.k \in Node /\ Hosts(run.copy.addr) = {run.k} /\ run.copy \in K8sNode
  BY DEF IdsInv, RunOK, TypeOK
<1>2. toBM[run.k] \in {None, j} /\ bm[j].is
  BY <1>1 DEF IdsInv, CacheOK, Owns
<1>3. j \in Candidates(run.k)
  BY <1>2 DEF Candidates
<1>4. bm[j] \in CSIBMNode /\ run.k \in Hosts(bm[j].addr)
  BY <1>1 DEF IdsInv, TypeOK, Owns, Hosts
<1>5. Full(bm[j], run.copy) \/ Partial(bm[j], run.copy)
  BY <1>1, <1>4, SharedHost
<1> QED
  BY <1>3, <1>5 DEF Blocked, MatchedBM

LEMMA CreateInv ==
  ASSUME IdsInv, run.at = "k8s", \A j \in Id : ~Owns(j, run.k),
         NEW i \in NewIds, i \in Id, ~bm[i].is, PutBM(i, NewBM),
         Remember(run.k, i), ToAnnotate(run.k, run.copy, i),
         UNCHANGED node, UNCHANGED Inputs
  PROVE  IdsInv'
<1> USE DEF IdsInv
<1> DEFINE k == run.k
<1>1. /\ k \in Node /\ run.name = k /\ Hosts(run.copy.addr) = {k} /\ run.copy \in K8sNode
  BY DEF RunOK, TypeOK
<1>2. NewBM \in CSIBMNode /\ NewBM.is /\ ~NewBM.del /\ Hosts(NewBM.addr) = {k}
  BY <1>1 DEF NewBM, K8sNode, CSIBMNode
<1>3. /\ bm' \in [Id -> CSIBMNode] /\ queue' \subseteq Node \cup Id
      /\ bm'[i] = NewBM /\ \A j \in Id \ {i} : bm'[j] = bm[j]
  BY <1>2, PutBMType
<1>4. /\ toBM' \in [Node -> Id \cup {None}] /\ toK8s' \in [Id -> Node \cup {None}]
      /\ toBM'[k] = i /\ \A n \in Node \ {k} : toBM'[n] = toBM[n]
  BY <1>1, RememberType
<1>5. /\ run' \in RunType
      /\ \/ run' = Idle
         \/ /\ run'.at = "annotate" /\ run'.goal = i /\ run'.k = k /\ run'.name = run.name
            /\ ~external
  BY <1>1, ToAnnotateType
<1> HIDE DEF NewBM
<1>6. TypeOK' /\ RunOK'
  BY <1>1, <1>3, <1>4, <1>5, ConstantTypes DEF TypeOK, RunOK, RunType, Inputs
<1>7. \A j \in Id, n \in Node : Owns(j, n)' <=> (Owns(j, n) \/ (j = i /\ n = k))
  BY <1>2, <1>3 DEF Owns, Hosts
<1>8. OneHost'
  <2>1. ASSUME NEW j \in Id, bm'[j].is
        PROVE  \E n \in Node : Hosts(bm'[j].addr) = {n}
    BY <1>1, <1>2, <1>3, <2>1 DEF OneHost
  <2> QED
    BY <2>1 DEF OneHost, Hosts
<1>9. OneOwner' /\ CacheOK'
  BY <1>1, <1>4, <1>7 DEF OneOwner, CacheOK, Owns
<1>10. GivenIsOwner'
  <2> DEFINE Owned(j, n) == bm'[j].is /\ <<"Hostname", n>> \in bm'[j].addr
  <2>1. \A j \in Id, n \in Node : Owned(j, n) <=> (Owns(j, n) \/ (j = i /\ n = k))
    BY <1>7 DEF Owns
  <2>2. /\ UNCHANGED <<external, node, podId, touched>>
        /\ \A n \in Node \ touched : podId[n] \in Id \cup {None}
                                     /\ node[n].ann \in Id \cup {None}
    BY DEF Inputs, TypeOK, K8sNode
  <2> HIDE DEF Owned
  <2>3. \A n \in Node \ touched :
          /\ podId[n] # None => Owned(podId[n], n)
          /\ ~external /\ node[n].ann # None => Owned(node[n].ann, n)
          /\ ~node[n].up => \A j \in Id : ~Owned(j, n)
    BY <1>1, <2>1, <2>2 DEF GivenIsOwner
  <2>4. run'.at = "annotate" => Owned(run'.goal, run'.k)
    BY <1>1, <1>5, <2>1, ConstantTypes
  <2>5. \A j \in Id, n \in Node : Owned(j, n) /\ bm'[j].del => n \in touched
    BY <1>1, <1>2, <1>3, <2>1 DEF GivenIsOwner
  <2>6. ASSUME NEW n \in Node \ touched, external, NEW j \in Id, Owned(j, n), node[n].ann # None
        PROVE  j = node[n].ann
    <3>1. CASE Owns(j, n)
      BY <2>6, <3>1 DEF GivenIsOwner
    <3>2. CASE j = i /\ n = k
      BY <1>1, <2>6, <3>2 DEF GivenIsOwner, NewIds
    <3> QED
      BY <2>1, <2>6, <3>1, <3>2
  <2>7. ASSUME NEW n \in Node \ touched
        PROVE  /\ ~node[n].up => run'.k # n
               /\ run'.at = "k8s" /\ run'.k = n /\ external => run'.copy.ann = node[n].ann
    BY <1>1, <1>5, ConstantTypes DEF GivenIsOwner
  <2> QED
    BY <2>2, <2>3, <2>4, <2>5, <2>6, <2>7 DEF GivenIsOwner, Owns, Owned
<1> QED
  BY <1>6, <1>8, <1>9, <1>10

\* CreateCR takes a CSIBMNode that is there already for the one to be made: with external
\* annotations the node goes by the CSIBMNode of another.
LEMMA TakenInv ==
  ASSUME IdsInv, run.at = "k8s", \A j \in Id : ~Owns(j, run.k),
         NEW i \in NewIds, i \in Id, bm[i].is,
         Remember(run.k, i), ToAnnotate(run.k, run.copy, i),
         UNCHANGED <<node, bm, queue>>, UNCHANGED Inputs
  PROVE  IdsInv'
<1> USE DEF IdsInv
<1>1. run.k \in Node
  BY DEF RunOK
<1>2. run' = Idle
  BY DEF NewIds, ToAnnotate
<1>3. /\ toBM' \in [Node -> Id \cup {None}] /\ toK8s' \in [Id -> Node \cup {None}]
      /\ \A n \in Node \ {run.k} : toBM'[n] = toBM[n]
  BY <1>1, RememberType
<1>4. TypeOK' /\ RunOK'
  BY <1>2, <1>3, ConstantTypes DEF TypeOK, RunOK, RunType, Inputs
<1> QED
  BY <1>1, <1>2, <1>3, <1>4, SameOwners, RunKept DEF Inputs, OneHost

LEMMA ReconcileForK8sNodeInv ==
  ASSUME IdsInv, ReconcileForK8sNode
  PROVE  IdsInv'
<1> DEFINE k == run.k
<1>1. /\ run.at = "k8s" /\ k \in Node /\ run.name = k /\ Hosts(run.copy.addr) = {k}
      /\ run.copy \in K8sNode /\ UNCHANGED Inputs
  BY DEF ReconcileForK8sNode, IdsInv, RunOK, TypeOK
<1>2. CASE Ends \/ Again(k)
  BY <1>1, <1>2, EndsInv
<1>3. CASE /\ toBM[k] # None => bm[toBM[k]].is
           /\ \E i \in MatchedBM(k) : Remember(k, i) /\ ToAnnotate(k, run.copy, i)
           /\ UNCHANGED <<node, bm, queue>>
  <2>1. PICK i \in MatchedBM(k) : Remember(k, i) /\ ToAnnotate(k, run.copy, i)
    BY <1>3
  <2>2. i \in Id /\ bm[i].is /\ Full(bm[i], run.copy)
    BY <1>1, <1>3, <2>1 DEF MatchedBM, Candidates, IdsInv, TypeOK
  <2>3. Owns(i, k)
    BY <1>1, <2>2, FullOwns
  <2> QED
    BY <1>1, <1>3, <2>1, <2>2, <2>3, FoundInv DEF IdsInv, GivenIsOwner
<1>4. CASE /\ toBM[k] # None => bm[toBM[k]].is
           /\ ~Blocked(k) /\ MatchedBM(k) = {}
           /\ \E i \in NewIds :
                /\ IF bm[i].is THEN UNCHANGED <<bm, queue>> ELSE PutBM(i, NewBM)
                /\ Remember(k, i) /\ ToAnnotate(k, run.copy, i) /\ UNCHANGED node
  <2>1. PICK i \in NewIds :
          /\ IF bm[i].is THEN UNCHANGED <<bm, queue>> ELSE PutBM(i, NewBM)
          /\ Remember(k, i) /\ ToAnnotate(k, run.copy, i) /\ UNCHANGED node
    BY <1>4
  <2>2. i \in Id
    BY <1>1, <2>1 DEF NewIds, K8sNode
  <2>3. \A j \in Id : ~Owns(j, k)
    BY <1>1, <1>4, NobodyOwns
  <2>4. CASE bm[i].is
    BY <1>1, <2>1, <2>2, <2>3, <2>4, TakenInv
  <2>5. CASE ~bm[i].is
    BY <1>1, <2>1, <2>2, <2>3, <2>5, CreateInv
  <2> QED
    BY <2>4, <2>5
<1> QED
  BY <1>2, <1>3, <1>4 DEF ReconcileForK8sNode

LEMMA ReconcileForCSIBMNodeInv ==
  ASSUME IdsInv, ReconcileForCSIBMNode
  PROVE  IdsInv'
<1> USE DEF IdsInv
<1> DEFINE i == run.name
           gone == toK8s[i] # None /\ ~node[toK8s[i]].up
<1>1. run.at = "bm" /\ i \in Id /\ bm[i].is /\ run \in RunType /\ UNCHANGED Inputs
  BY DEF ReconcileForCSIBMNode, RunOK, TypeOK, RunType
<1>2. CASE Ends \/ Again(i)
  BY <1>1, <1>2, EndsInv
<1>3. CASE /\ bm[i].del
           /\ UNCHANGED <<node, bm, queue>>
           /\ IF gone
                THEN CleanNodeFromCache(toK8s[i], i) /\ run' = [run EXCEPT !.at = "finalizer"]
                ELSE /\ UNCHANGED <<toBM, toK8s>>
                     /\ \/ \E k \in MatchedNodes(i) : run' = [run EXCEPT !.at = "clear", !.k = k]
                        \/ MatchedNodes(i) = {} /\ run' = [run EXCEPT !.at = "finalizer"]
  <2>1. /\ toBM' \in [Node -> Id \cup {None}] /\ toK8s' \in [Id -> Node \cup {None}]
        /\ \A n \in Node : toBM'[n] \in {None, toBM[n]}
    <3>1. CASE gone
      <4>1. toK8s[i] \in Node /\ CleanNodeFromCache(toK8s[i], i)
        BY <1>1, <1>3, <3>1 DEF TypeOK
      <4> QED
        BY <1>1, <4>1, ForgetType
    <3>2. CASE ~gone
      BY <1>3, <3>2 DEF TypeOK
    <3> QED
      BY <3>1, <3>2
  <2>2. /\ run' \in RunType /\ run'.name = i
        /\ \/ run'.at = "finalizer"
           \/ run'.at = "clear" /\ run'.k \in Node
        /\ run'.k = run.k \/ node[run'.k].up
    <3>1. \A k \in MatchedNodes(i) : k \in Node /\ node[k].up
      BY DEF MatchedNodes, NodesFor
    <3> QED
      BY <1>1, <1>3, <3>1 DEF RunType
  <2>3. TypeOK' /\ RunOK'
    BY <1>1, <1>3, <2>1, <2>2 DEF TypeOK, RunOK, RunType, Inputs
  <2>4. ASSUME NEW n \in Node \ touched PROVE RunOf(n)'
    <3>1. RunOf(n)
      BY DEF RunOf, GivenIsOwner
    <3> QED
      BY <1>1, <1>3, <2>2, <3>1 DEF RunOf, Inputs
  <2> QED
    BY <1>1, <1>3, <2>1, <2>3, <2>4, SameOwners DEF Inputs, OneHost
<1>4. CASE /\ ~bm[i].del
           /\ UNCHANGED <<node, bm, queue>>
           /\ IF Cardinality(MatchedNodes(i)) = 1
                THEN \E k \in MatchedNodes(i) : Remember(k, i) /\ ToAnnotate(k, node[k], i)
                ELSE run' = Idle /\ UNCHANGED <<toBM, toK8s>>
  <2>1. CASE run' = Idle /\ UNCHANGED <<toBM, toK8s>>
    BY <1>1, <1>4, <2>1, EndsInv DEF Ends
  <2>2. CASE \E k \in MatchedNodes(i) : Remember(k, i) /\ ToAnnotate(k, node[k], i)
    <3>1. PICK k \in MatchedNodes(i) : Remember(k, i) /\ ToAnnotate(k, node[k], i)
      BY <2>2
    <3>2. k \in Node /\ node[k].up /\ Full(bm[i], node[k])
      BY <3>1 DEF MatchedNodes, NodesFor
    <3>3. Hosts(node[k].addr) = {k} /\ node[k] \in K8sNode
      BY <3>2 DEF OneHost, TypeOK
    <3>4. Owns(i, k)
      BY <1>1, <3>2, <3>3, FullOwns
    <3> QED
      BY <1>1, <1>4, <3>1, <3>2, <3>4, FoundInv
  <2> QED
    BY <1>4, <2>1, <2>2
<1> QED
  BY <1>2, <1>3, <1>4 DEF ReconcileForCSIBMNode

LEMMA AnnotateInv ==
  ASSUME IdsInv, Annotate
  PROVE  IdsInv'
<1> USE DEF IdsInv
<1> DEFINE k == run.k
           new == [node[k] EXCEPT !.ann = run.goal]
<1>1. /\ run.at = "annotate" /\ k \in Node /\ run.goal \in Id
      /\ run.name \in Node \cup Id /\ ~external /\ UNCHANGED Inputs
  BY DEF Annotate, RunOK
<1>2. CASE node[k].up /\ ~run.stale
  <2>1. PutNode(k, new) /\ run' = Idle /\ UNCHANGED <<bm, toBM, toK8s>>
    BY <1>2 DEF Annotate
  <2>2. /\ new \in K8sNode /\ new.addr = node[k].addr /\ new.up = node[k].up /\ new.ann = run.goal
    BY <1>1, <1>2 DEF TypeOK, K8sNode
  <2> HIDE DEF new
  <2>3. /\ node' \in [Node -> K8sNode] /\ queue' \subseteq Node \cup Id
        /\ node'[k] = new /\ \A n \in Node \ {k} : node'[n] = node[n]
    BY <1>1, <2>1, <2>2, PutNodeType
  <2>4. TypeOK' /\ RunOK'
    BY <1>1, <2>1, <2>3, ConstantTypes DEF TypeOK, RunOK, RunType, Inputs
  <2>5. \A n \in Node : node'[n].up => Hosts(node'[n].addr) = {n}
    BY <1>2, <2>2, <2>3 DEF OneHost
  <2>6. \A n \in Node \ touched :
          node'[n].ann = node[n].ann \/ Owns(node'[n].ann, n)
    BY <1>1, <2>2, <2>3 DEF GivenIsOwner
  <2>7. ASSUME NEW n \in Node \ touched PROVE node'[n].up = node[n].up /\ RunOf(n)'
    <3>1. node'[n].up = node[n].up
      BY <1>1, <1>2, <2>2, <2>3
    <3> QED
      BY <1>1, <2>1, <2>4, <3>1, RunKept DEF Inputs
  <2> QED
    BY <1>1, <2>1, <2>4, <2>5, <2>6, <2>7, SameOwners DEF Inputs
<1>3. CASE ~(node[k].up /\ ~run.stale)
  BY <1>1, <1>3, EndsInv DEF Annotate
<1> QED
  BY <1>2, <1>3

LEMMA RemoveAnnotationInv ==
  ASSUME IdsInv, RemoveAnnotation
  PROVE  IdsInv'
<1> USE DEF IdsInv
<1> DEFINE k == run.k
           new == [node[k] EXCEPT !.ann = None]
           update == ~external /\ node[k].ann # None
<1>1. /\ run.at = "clear" /\ k \in Node /\ run.name \in Id /\ run \in RunType
      /\ bm[run.name].is /\ bm[run.name].del /\ UNCHANGED Inputs
  BY DEF RemoveAnnotation, RunOK, TypeOK, RunType
<1>2. CASE Again(run.name)
  BY <1>1, <1>2, EndsInv
<1>3. CASE /\ run' = [run EXCEPT !.at = "finalizer"]
           /\ IF update THEN PutNode(k, new) ELSE UNCHANGED <<node, queue>>
           /\ UNCHANGED <<bm, toBM, toK8s>>
  <2>1. /\ node' \in [Node -> K8sNode] /\ queue' \subseteq Node \cup Id
        /\ \A n \in Node : /\ node'[n].up = node[n].up /\ node'[n].addr = node[n].addr
                           /\ node'[n].ann \in {None, node[n].ann}
                           /\ external => node'[n].ann = node[n].ann
    <3>1. CASE update
      <4>1. /\ new \in K8sNode /\ new.addr = node[k].addr /\ new.up = node[k].up
            /\ new.ann = None
        BY <1>1 DEF TypeOK, K8sNode
      <4> HIDE DEF new
      <4> QED
        BY <1>1, <1>3, <3>1, <4>1, PutNodeType
    <3>2. CASE ~update
      BY <1>3, <3>2 DEF TypeOK
    <3> QED
      BY <3>1, <3>2
  <2>2. /\ run' \in RunType /\ run'.at = "finalizer" /\ run'.name = run.name
        /\ run'.k = run.k /\ run'.copy = run.copy
    BY <1>1, <1>3 DEF RunType
  <2>3. TypeOK' /\ RunOK'
    BY <1>1, <1>3, <2>1, <2>2 DEF TypeOK, RunOK, RunType, Inputs
  <2> QED
    BY <1>1, <1>3, <2>1, <2>2, <2>3, SameOwners, RunKept DEF Inputs, OneHost
<1> QED
  BY <1>2, <1>3 DEF RemoveAnnotation

\* The CSIBMNode that goes was deleted by a user: its node counts as touched.
LEMMA RemoveFinalizerInv ==
  ASSUME IdsInv, RemoveFinalizer
  PROVE  IdsInv'
<1> USE DEF IdsInv
<1> DEFINE i == run.name
<1>1. /\ run.at = "finalizer" /\ i \in Id /\ bm[i].is /\ bm[i].del
      /\ run' = Idle /\ UNCHANGED <<node, toBM, toK8s>> /\ UNCHANGED Inputs
      /\ PutBM(i, NoBM)
  BY DEF RemoveFinalizer, RunOK
<1>2. /\ bm' \in [Id -> CSIBMNode] /\ queue' \subseteq Node \cup Id
      /\ ~bm'[i].is /\ \A j \in Id \ {i} : bm'[j] = bm[j]
  BY <1>1, ConstantTypes, PutBMType
<1>3. TypeOK' /\ RunOK'
  BY <1>1, <1>2, ConstantTypes DEF TypeOK, RunOK, RunType, Inputs
<1> DEFINE Owned(j, n) == bm'[j].is /\ <<"Hostname", n>> \in bm'[j].addr
<1>4. \A j \in Id, n \in Node : Owned(j, n) <=> (Owns(j, n) /\ j # i)
  BY <1>2 DEF Owns
<1>5. OneHost' /\ OneOwner' /\ CacheOK'
  BY <1>1, <1>2, <1>4 DEF OneHost, OneOwner, CacheOK, Owns, Hosts
<1>6. GivenIsOwner'
  <2>1. \A n \in Node \ touched : ~Owns(i, n)
    BY <1>1 DEF GivenIsOwner
  <2>2. UNCHANGED <<external, podId, touched>>
        /\ \A n \in Node \ touched : podId[n] \in Id \cup {None}
                                     /\ node[n].ann \in Id \cup {None}
    BY <1>1 DEF Inputs, TypeOK, K8sNode
  <2>3. \A j \in Id, n \in Node : Owned(j, n) => (Owns(j, n) /\ bm'[j] = bm[j])
    BY <1>2, <1>4
  <2> HIDE DEF Owned
  <2>4. \A n \in Node \ touched :
          /\ podId[n] # None => Owned(podId[n], n)
          /\ ~external /\ node[n].ann # None => Owned(node[n].ann, n)
          /\ ~node[n].up => \A j \in Id : ~Owned(j, n)
          /\ external => \A j \in Id : Owned(j, n) /\ node[n].ann # None => j = node[n].ann
    BY <1>4, <2>1, <2>2 DEF GivenIsOwner
  <2>5. \A j \in Id, n \in Node : Owned(j, n) /\ bm'[j].del => n \in touched
    BY <2>3 DEF GivenIsOwner
  <2> QED
    BY <1>1, <2>2, <2>4, <2>5, ConstantTypes DEF GivenIsOwner, Owns, Owned
<1> QED
  BY <1>3, <1>5, <1>6

-----------------------------------------------------------------------------
(* Users, nodes, faults                                                    *)

LEMMA ChangeType == TypeOK /\ Change => changes' \in 0..MaxChanges
BY NodeIdsAssumption DEF TypeOK, Change

\* Somebody else writes node k.
LEMMA NodeWriteInv ==
  ASSUME IdsInv, NEW k \in Node, NEW new \in K8sNode, PutNode(k, new), Touch(k), Change,
         new.up => Hosts(new.addr) = {k},
         touched' \in {touched, touched \cup {k}},
         k \notin touched' => /\ node[k].up => new.up /\ new.ann = node[k].ann
                              /\ ~external => new.ann \in {None, node[k].ann},
         podId' \in {podId, [podId EXCEPT ![k] = None]},
         UNCHANGED <<external, bm, toBM, toK8s>>
  PROVE  IdsInv'
<1> USE DEF IdsInv
<1>1. /\ node' \in [Node -> K8sNode] /\ queue' \subseteq Node \cup Id
      /\ node'[k] = new /\ \A n \in Node \ {k} : node'[n] = node[n]
  BY PutNodeType
<1>2. /\ run' \in RunType
      /\ run'.at = run.at /\ run'.name = run.name /\ run'.goal = run.goal
      /\ run'.k = run.k /\ run'.copy = run.copy
  BY TouchType
<1>3. /\ touched' \subseteq Node /\ touched \subseteq touched'
      /\ podId' \in [Node -> Id \cup {None}]
      /\ \A n \in Node : podId'[n] \in {None, podId[n]}
  BY DEF TypeOK
<1>4. TypeOK' /\ RunOK'
  BY <1>1, <1>2, <1>3, ChangeType DEF TypeOK, RunOK, RunType
<1>5. ASSUME NEW n \in Node \ touched' PROVE RunOf(n)'
  <2>1. RunOf(n) /\ (~node[n].up => run.k # n)
    BY <1>3 DEF RunOf, GivenIsOwner
  <2> QED
    BY <1>1, <1>2, <2>1 DEF RunOf, Owns
<1>6. ASSUME NEW n \in Node \ touched'
      PROVE  /\ node[n].up => node'[n].up
             /\ ~external => node'[n].ann \in {None, node[n].ann}
             /\ external /\ node'[n].ann # node[n].ann => \A i \in Id : ~Owns(i, n)
  BY <1>1, <1>3 DEF GivenIsOwner
<1>7. \A n \in Node : node'[n].up => Hosts(node'[n].addr) = {n}
  BY <1>1 DEF OneHost
<1> QED
  BY <1>3, <1>4, <1>5, <1>6, <1>7, SameOwners

LEMMA NodeStepsInv ==
  ASSUME IdsInv, NEW k \in Node,
         \/ NodeLeaves(k) \/ SetSelected(k)
         \/ \E ip \in Ip, ann \in Id \cup {None} : NodeJoins(k, ip, ann) \/ AddressChanges(k, ip)
         \/ \E i \in Id \cup {None} : SetAnnotation(k, i)
  PROVE  IdsInv'
<1>1. node[k] \in K8sNode /\ (node[k].up => Hosts(node[k].addr) = {k})
  BY DEF IdsInv, TypeOK, OneHost
<1>2. CASE NodeLeaves(k)
  <2>1. NoNode \in K8sNode /\ ~NoNode.up
    BY ConstantTypes
  <2> HIDE DEF NoNode
  <2> QED
    BY <1>2, <2>1, NodeWriteInv DEF NodeLeaves
<1>3. CASE SetSelected(k)
  <2> DEFINE new == [node[k] EXCEPT !.sel = ~@]
  <2>1. PutNode(k, new) /\ new \in K8sNode /\ new.up = node[k].up
        /\ new.addr = node[k].addr /\ new.ann = node[k].ann
    BY <1>1, <1>3 DEF SetSelected, K8sNode
  <2> HIDE DEF new
  <2> QED
    BY <1>1, <1>3, <2>1, NodeWriteInv DEF SetSelected
<1>4. ASSUME NEW ip \in Ip, NEW ann \in Id \cup {None},
             NodeJoins(k, ip, ann) \/ AddressChanges(k, ip)
      PROVE  IdsInv'
  <2> DEFINE addr == {<<"Hostname", k>>, <<"InternalIP", ip>>}
             joins == [up |-> TRUE, addr |-> addr, ann |-> ann, sel |-> TRUE]
             moves == [node[k] EXCEPT !.addr = addr]
  <2>1. addr \in SUBSET Address /\ Hosts(addr) = {k}
    BY DEF Address, Hosts
  <2> HIDE DEF addr
  <2>2. joins \in K8sNode /\ joins.addr = addr /\ joins.ann = ann /\ joins.up
    BY <2>1 DEF K8sNode
  <2>3. moves \in K8sNode /\ moves.addr = addr
    BY <1>1, <2>1 DEF K8sNode
  <2>4. CASE NodeJoins(k, ip, ann)
    <3>1. PutNode(k, joins)
      BY <2>4 DEF NodeJoins, addr
    <3> HIDE DEF joins
    <3> QED
      BY <2>1, <2>2, <2>4, <3>1, NodeWriteInv DEF NodeJoins
  <2>5. CASE AddressChanges(k, ip)
    <3>1. PutNode(k, moves)
      BY <2>5 DEF AddressChanges, addr
    <3> HIDE DEF moves
    <3> QED
      BY <2>1, <2>3, <2>5, <3>1, NodeWriteInv DEF AddressChanges
  <2> QED
    BY <1>4, <2>4, <2>5
<1>5. ASSUME NEW i \in Id \cup {None}, SetAnnotation(k, i)
      PROVE  IdsInv'
  <2> DEFINE new == [node[k] EXCEPT !.ann = i]
  <2>1. PutNode(k, new) /\ new \in K8sNode /\ new.addr = node[k].addr /\ new.up = node[k].up
    BY <1>1, <1>5 DEF SetAnnotation, K8sNode
  <2> HIDE DEF new
  <2> QED
    BY <1>1, <1>5, <2>1, NodeWriteInv DEF SetAnnotation
<1> QED
  BY <1>2, <1>3, <1>4, <1>5

LEMMA NodeWrittenInv ==
  ASSUME IdsInv, NEW k \in Node, NodeWritten(k)
  PROVE  IdsInv'
<1> USE DEF IdsInv
<1>1. /\ run' \in RunType
      /\ run'.at = run.at /\ run'.name = run.name /\ run'.goal = run.goal
      /\ run'.k = run.k /\ run'.copy = run.copy
  BY TouchType DEF NodeWritten
<1>2. UNCHANGED <<external, node, bm, toBM, toK8s, queue, podId, touched>>
  BY DEF NodeWritten
<1>3. TypeOK' /\ RunOK'
  BY <1>1, <1>2, ChangeType DEF NodeWritten, TypeOK, RunOK, RunType
<1> QED
  BY <1>1, <1>2, <1>3, SameOwners, RunKept DEF OneHost

LEMMA RestartInv ==
  ASSUME IdsInv, Restart
  PROVE  IdsInv'
<1> USE DEF IdsInv
<1>1. /\ run' = Idle /\ UNCHANGED <<external, node, bm, podId, touched>>
      /\ toBM' = [n \in Node |-> None] /\ toK8s' = [j \in Id |-> None]
      /\ queue' \subseteq Node \cup Id
  BY DEF Restart
<1>2. TypeOK' /\ RunOK'
  BY <1>1, ConstantTypes, ChangeType DEF Restart, TypeOK, RunOK, RunType
<1> QED
  BY <1>1, <1>2, SameOwners, RunKept DEF OneHost

LEMMA FaultInv ==
  ASSUME IdsInv, Fault
  PROVE  IdsInv'
<1> USE DEF IdsInv
<1>1. /\ run' = Idle /\ UNCHANGED <<external, node, bm, toBM, toK8s, podId, touched>>
      /\ queue' = queue \cup {run.name}
  BY DEF Fault, Again
<1>2. run.name \in Node \cup Id
  BY DEF Fault, RunOK
<1>3. TypeOK' /\ RunOK'
  BY <1>1, <1>2, ConstantTypes, ChangeType DEF Fault, TypeOK, RunOK, RunType
<1> QED
  BY <1>1, <1>3, SameOwners, RunKept DEF OneHost

LEMMA DeleteBMInv ==
  ASSUME IdsInv, NEW i \in Id, DeleteBM(i)
  PROVE  IdsInv'
<1> USE DEF IdsInv
<1> DEFINE new == [bm[i] EXCEPT !.del = TRUE]
<1>1. /\ bm[i] \in CSIBMNode /\ bm[i].is
      /\ touched' = touched \cup {n \in Node : <<"Hostname", n>> \in bm[i].addr}
      /\ UNCHANGED <<external, node, toBM, toK8s, podId>>
      /\ PutBM(i, new)
  BY DEF DeleteBM, TypeOK
<1>2. new \in CSIBMNode /\ new.is = bm[i].is /\ new.addr = bm[i].addr /\ new.del
  BY <1>1 DEF CSIBMNode
<1> HIDE DEF new
<1>3. /\ bm' \in [Id -> CSIBMNode] /\ queue' \subseteq Node \cup Id
      /\ \A j \in Id : bm'[j].is = bm[j].is /\ bm'[j].addr = bm[j].addr
      /\ \A j \in Id \ {i} : bm'[j] = bm[j]
      /\ bm'[i].del
  BY <1>1, <1>2, PutBMType
<1>4. /\ run' \in RunType
      /\ run'.at = run.at /\ run'.name = run.name /\ run'.goal = run.goal
      /\ run'.k = run.k /\ run'.copy = run.copy
  BY DEF DeleteBM, TypeOK, RunType
<1>5. TypeOK' /\ RunOK'
  BY <1>1, <1>3, <1>4, ChangeType DEF DeleteBM, TypeOK, RunOK, RunType
<1> DEFINE Owned(j, n) == bm'[j].is /\ <<"Hostname", n>> \in bm'[j].addr
<1>6. \A j \in Id, n \in Node : Owned(j, n) <=> Owns(j, n)
  BY <1>3 DEF Owns
<1>7. OneHost' /\ OneOwner' /\ CacheOK'
  BY <1>1, <1>3, <1>6 DEF OneHost, OneOwner, CacheOK, Owns, Hosts
<1>8. GivenIsOwner'
  <2>1. \A j \in Id, n \in Node : Owned(j, n) /\ bm'[j].del => n \in touched'
    BY <1>1, <1>3, <1>6 DEF GivenIsOwner, Owns
  <2>2. \A n \in Node \ touched : podId[n] \in Id \cup {None} /\ node[n].ann \in Id \cup {None}
    BY DEF TypeOK, K8sNode
  <2>3. run.at = "annotate" => run.goal \in Id /\ run.k \in Node
    BY DEF RunOK
  <2> HIDE DEF Owned
  <2>4. \A n \in Node \ touched :
          /\ podId[n] # None => Owned(podId[n], n)
          /\ ~external /\ node[n].ann # None => Owned(node[n].ann, n)
          /\ ~node[n].up => run.k # n /\ \A j \in Id : ~Owned(j, n)
          /\ external => \A j \in Id : Owned(j, n) /\ node[n].ann # None => j = node[n].ann
          /\ run.at = "k8s" /\ run.k = n /\ external => run.copy.ann = node[n].ann
    BY <1>6, <2>2 DEF GivenIsOwner
  <2>5. run.at = "annotate" /\ run.k \notin touched => Owned(run.goal, run.k)
    BY <1>6, <2>3 DEF GivenIsOwner
  <2> QED
    BY <1>1, <1>4, <2>1, <2>4, <2>5 DEF GivenIsOwner, Owns, Owned
<1> QED
  BY <1>5, <1>7, <1>8

LEMMA PodStepsInv ==
  ASSUME IdsInv, NEW k \in Node, ObtainNodeID(k) \/ PodRestarts(k)
  PROVE  IdsInv'
<1> USE DEF IdsInv
<1>1. UNCHANGED <<external, node, bm, toBM, toK8s, queue, run, touched>>
      /\ changes' \in 0..MaxChanges
  BY ChangeType DEF ObtainNodeID, PodRestarts, TypeOK
<1>2. /\ podId' \in [Node -> Id \cup {None}]
      /\ \A n \in Node : podId'[n] \in {None, podId[n]} \/ Owns(podId'[n], n)
  <2>1. CASE ObtainNodeID(k)
    <3>1. PICK i \in Id : Owns(i, k) /\ podId' = [podId EXCEPT ![k] = i]
      BY <2>1 DEF ObtainNodeID, Owns
    <3> QED
      BY <3>1 DEF TypeOK
  <2>2. CASE PodRestarts(k)
    BY <2>2 DEF PodRestarts, TypeOK
  <2> QED
    BY <2>1, <2>2
<1>3. TypeOK' /\ RunOK'
  BY <1>1, <1>2 DEF TypeOK, RunOK
<1> QED
  BY <1>1, <1>2, <1>3, SameOwners, RunKept DEF OneHost

LEMMA NextInv == IdsInv /\ [Next]_vars => IdsInv'
<1> SUFFICES ASSUME IdsInv, [Next]_vars PROVE IdsInv'
  OBVIOUS
<1>1. ASSUME NEW k \in Node, ReconcileNode(k) \/ ObtainNodeID(k)
      PROVE  IdsInv'
  BY <1>1, ReconcileNodeInv, PodStepsInv
<1>2. ASSUME NEW i \in Id, ReconcileBM(i)
      PROVE  IdsInv'
  BY <1>2, ReconcileBMInv
<1>3. CASE Continue
  BY <1>3, ReconcileForK8sNodeInv, ReconcileForCSIBMNodeInv, AnnotateInv,
     RemoveAnnotationInv, RemoveFinalizerInv DEF Continue
<1>4. CASE Environment
  <2>1. ASSUME NEW k \in Node,
               \/ NodeLeaves(k) \/ SetSelected(k) \/ NodeWritten(k) \/ PodRestarts(k)
               \/ \E ip \in Ip, ann \in Id \cup {None} :
                    NodeJoins(k, ip, ann) \/ AddressChanges(k, ip)
               \/ \E i \in Id \cup {None} : SetAnnotation(k, i)
        PROVE  IdsInv'
    BY <2>1, NodeStepsInv, NodeWrittenInv, PodStepsInv
  <2>2. ASSUME NEW i \in Id, DeleteBM(i)
        PROVE  IdsInv'
    BY <2>2, DeleteBMInv
  <2> QED
    BY <1>4, <2>1, <2>2, FaultInv, RestartInv DEF Environment
<1>5. CASE UNCHANGED vars
  BY <1>5 DEF vars, IdsInv, TypeOK, RunOK, OneHost, OneOwner, CacheOK, GivenIsOwner,
              Owns, Hosts
<1> QED
  BY <1>1, <1>2, <1>3, <1>4, <1>5 DEF Next

LEMMA InvHolds == Spec => []IdsInv
BY InitInv, NextInv, PTL DEF Spec

-----------------------------------------------------------------------------
(* Theorems                                                                *)

\* Every step keeps the types of the objects, the cache and the worker.
THEOREM TypeCorrect == Spec => []TypeOK
<1>1. IdsInv => TypeOK
  BY DEF IdsInv
<1> QED
  BY <1>1, InvHolds, PTL

\* For any number of nodes, addresses, restarts and users' edits: the controller
\* never gives a node a second CSIBMNode.
THEOREM OneCSIBMNode == Spec => []OneCSIBMNodePerNode
<1>1. ASSUME IdsInv PROVE OneCSIBMNodePerNode
  <2> SUFFICES ASSUME NEW k \in Node
               PROVE  Cardinality({i \in Id : Owns(i, k)}) <= 1
    BY DEF OneCSIBMNodePerNode, Owns
  <2> DEFINE S == {i \in Id : Owns(i, k)}
  <2>1. CASE S = {}
    BY <2>1, FS_EmptySet
  <2>2. CASE S # {}
    <3>1. PICK i \in S : TRUE
      BY <2>2
    <3>2. S = {i}
      BY <1>1, <3>1 DEF IdsInv, OneOwner
    <3>3. Cardinality(S) = 1
      BY <3>2, FS_Singleton
    <3> QED
      BY <3>3
  <2> QED
    BY <2>1, <2>2
<1> QED
  BY <1>1, InvHolds, PTL

\* The pods of a node and the scheduler extender never go by two different ids
\* of a node that nobody has interfered with.
THEOREM SameIds == Spec => []IdsAgree
<1>1. ASSUME IdsInv PROVE IdsAgree
  <2>1. \A k \in Node \ touched : podId[k] \in Id \cup {None} /\ node[k].ann \in Id \cup {None}
    BY <1>1 DEF IdsInv, TypeOK, K8sNode
  <2> QED
    BY <1>1, <2>1 DEF IdsAgree, IdsInv, OneOwner, GivenIsOwner
<1> QED
  BY <1>1, InvHolds, PTL
=============================================================================
