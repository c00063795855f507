------------------------------- MODULE NodeIds -------------------------------
(***************************************************************************)
(* The node controller (pkg/crcontrollers/node): it keeps a CSIBMNode with *)
(* a UUID for every Kubernetes node, finds one from the other by their     *)
(* addresses and writes the UUID into an annotation of the node.  The pods *)
(* of a node take the UUID from the CSIBMNode (ObtainNodeID), the          *)
(* scheduler extender from the annotation (GetNodeID); Drives, ACs and     *)
(* reservations are compared by these ids.  One worker serves both kinds   *)
(* of objects; its cache of pairs is lost with the process.                *)
(***************************************************************************)
EXTENDS Naturals, FiniteSets, FiniteSetsExt

CONSTANTS
  Node,        \* names of Kubernetes nodes, and their Hostname addresses
  Ip,          \* InternalIP addresses
  Id,          \* UUIDs
  None,
  MaxChanges   \* bound on the steps of users, nodes and faults

ASSUME NodeIdsAssumption == None \notin Node \cup Id /\ MaxChanges \in Nat

VARIABLES
  external,    \* input: the feature "external annotation for node"
  node,        \* Kubernetes nodes: addresses, annotation, label of the selector
  bm,          \* CSIBMNodes by UUID: addresses and deletion timestamp
  toBM, toK8s, \* the controller's cache, in both directions
  queue,       \* its work queue: names of nodes and of CSIBMNodes
  run,         \* the reconciliation under way
  podId,       \* the id the pods of a node run with
  touched,     \* nodes whose ids a user has interfered with
  changes

vars == <<external, node, bm, toBM, toK8s, queue, run, podId, touched, changes>>

Address == ({"Hostname"} \X Node) \cup ({"InternalIP"} \X Ip)
NoNode == [up |-> FALSE, addr |-> {}, ann |-> None, sel |-> FALSE]
NoBM == [is |-> FALSE, addr |-> {}, del |-> FALSE]
Idle == [at |-> "idle", name |-> None, goal |-> None, stale |-> FALSE, k |-> None, copy |-> NoNode]

K8sNode == [up : BOOLEAN, addr : SUBSET Address, ann : Id \cup {None}, sel : BOOLEAN]
CSIBMNode == [is : BOOLEAN, addr : SUBSET Address, del : BOOLEAN]

TypeOK ==
  /\ external \in BOOLEAN
  /\ node \in [Node -> K8sNode] /\ bm \in [Id -> CSIBMNode]
  /\ toBM \in [Node -> Id \cup {None}] /\ toK8s \in [Id -> Node \cup {None}]
  /\ queue \subseteq Node \cup Id
  /\ run \in [at : {"idle", "k8s", "bm", "annotate", "clear", "finalizer"},
              name : Node \cup Id \cup {None}, goal : Id \cup {None}, stale : BOOLEAN,
              k : Node \cup {None}, copy : K8sNode]
  /\ podId \in [Node -> Id \cup {None}]
  /\ touched \subseteq Node /\ changes \in 0..MaxChanges
------------------------------------------------------------------------------
\* matchedAddressesCount against the number of addresses of the CSIBMNode
Full(b, n) == b.addr # {} /\ b.addr \subseteq n.addr
Partial(b, n) == b.addr \cap n.addr # {} /\ ~Full(b, n)

\* The controller's own and others' writes to a node and to a CSIBMNode, with the
\* events the filters let through.
PutNode(k, new) ==
  LET old == node[k]
  IN  /\ node' = [node EXCEPT ![k] = new]
      /\ queue' = IF \/ ~new.up
                     \/ new.sel /\ (~old.up \/ old.ann # new.ann \/ old.addr # new.addr
                                            \/ old.sel # new.sel)
                  THEN queue \cup {k} ELSE queue

PutBM(i, new) == bm' = [bm EXCEPT ![i] = new] /\ queue' = queue \cup {i}

Remember(k, i) == toBM' = [toBM EXCEPT ![k] = i] /\ toK8s' = [toK8s EXCEPT ![i] = k]
CleanNodeFromCache(k, i) == toBM' = [toBM EXCEPT ![k] = None] /\ toK8s' = [toK8s EXCEPT ![i] = None]

Inputs == <<external, podId, touched, changes>>
Ends == run' = Idle /\ UNCHANGED <<node, bm, toBM, toK8s, queue>>
Again(name) == run' = Idle /\ queue' = queue \cup {name} /\ UNCHANGED <<node, bm, toBM, toK8s>>

\* A node that is gone is dropped from the cache once its CSIBMNode is gone too.
CleanDeletedK8sNodeFromCache(k) ==
  IF toBM[k] # None /\ ~bm[toBM[k]].is
    THEN CleanNodeFromCache(k, toBM[k])
    ELSE UNCHANGED <<toBM, toK8s>>

\* Reconcile: what is the name the name of?
ReconcileNode(k) ==
  /\ run.at = "idle" /\ k \in queue
  /\ queue' = queue \ {k}
  /\ IF node[k].up
       THEN /\ run' = [Idle EXCEPT !.at = "k8s", !.name = k, !.k = k, !.copy = node[k]]
            /\ UNCHANGED <<toBM, toK8s>>
       ELSE CleanDeletedK8sNodeFromCache(k) /\ UNCHANGED run
  /\ UNCHANGED <<node, bm>> /\ UNCHANGED Inputs

ReconcileBM(i) ==
  /\ run.at = "idle" /\ i \in queue
  /\ queue' = queue \ {i}
  /\ run' = IF bm[i].is THEN [Idle EXCEPT !.at = "bm", !.name = i] ELSE run
  /\ UNCHANGED <<node, bm, toBM, toK8s>> /\ UNCHANGED Inputs

\* The CSIBMNodes a node is compared with: the cached one, or all.
Candidates(k) == IF toBM[k] # None THEN {toBM[k]} ELSE {i \in Id : bm[i].is}
MatchedBM(k) == {i \in Candidates(k) : Full(bm[i], run.copy)}

\* Mutant: an incomplete match is taken for no match.
BlockedAsNew(k) == FALSE

\* A CSIBMNode that matches some of the addresses stops the reconciliation.
Blocked(k) == \E i \in Candidates(k) : Partial(bm[i], run.copy)

NewBM == [is |-> TRUE, addr |-> run.copy.addr, del |-> FALSE]

\* Mutant: every reconciliation draws a new UUID for the annotation.
GoalFresh(id) == IF \E i \in Id : ~bm[i].is THEN CHOOSE i \in Id : ~bm[i].is ELSE id

\* The UUID the annotation gets: the one of the CSIBMNode.
Goal(id) == id

\* constructNodeID: a new UUID, or the external annotation.
NewIds == IF external /\ run.copy.ann # None THEN {run.copy.ann}
          ELSE {i \in Id : ~bm[i].is /\ \A n \in Node : node[n].ann # i /\ podId[n] # i}

ToAnnotate(k, n, id) ==
  run' = IF ~external /\ n.ann # id
           THEN [run EXCEPT !.at = "annotate", !.goal = Goal(id), !.k = k, !.copy = NoNode] ELSE Idle

\* reconcileForK8sNode.  A cached CSIBMNode that was deleted is an error that comes back
\* until the node is deleted or the controller restarts.  CreateCR takes a CSIBMNode that
\* is there already, that of another node with the same external annotation, for its own.
ReconcileForK8sNode ==
  LET k == run.k
  IN  /\ run.at = "k8s"
      /\ \/ /\ toBM[k] # None /\ ~bm[toBM[k]].is
            /\ Again(k)
         \/ /\ toBM[k] # None => bm[toBM[k]].is
            /\ Blocked(k) \/ Cardinality(MatchedBM(k)) > 1
            /\ Ends
         \/ /\ toBM[k] # None => bm[toBM[k]].is
            /\ ~Blocked(k) /\ Cardinality(MatchedBM(k)) = 1
            /\ \E i \in MatchedBM(k) : Remember(k, i) /\ ToAnnotate(k, run.copy, i)
            /\ UNCHANGED <<node, bm, queue>>
         \/ /\ toBM[k] # None => bm[toBM[k]].is
            /\ ~Blocked(k) /\ MatchedBM(k) = {}
            /\ \E i \in NewIds :
                 /\ IF bm[i].is THEN UNCHANGED <<bm, queue>> ELSE PutBM(i, NewBM)
                 /\ Remember(k, i) /\ ToAnnotate(k, run.copy, i) /\ UNCHANGED node
      /\ UNCHANGED Inputs

\* reconcileForCSIBMNode: the nodes it is compared with.
NodesFor(i) == {k \in Node : node[k].up /\ (toK8s[i] # None => k = toK8s[i])}
MatchedNodes(i) == {k \in NodesFor(i) : Full(bm[i], node[k])}

ReconcileForCSIBMNode ==
  LET i == run.name
      gone == toK8s[i] # None /\ ~node[toK8s[i]].up
      blocked == \E k \in NodesFor(i) : Partial(bm[i], node[k])
  IN  /\ run.at = "bm"
      /\ \/ blocked /\ Ends
         \/ /\ ~blocked /\ bm[i].del
            /\ IF gone
                 THEN CleanNodeFromCache(toK8s[i], i) /\ run' = [run EXCEPT !.at = "finalizer"]
                 ELSE /\ UNCHANGED <<toBM, toK8s>>
                      /\ \/ \E k \in MatchedNodes(i) : run' = [run EXCEPT !.at = "clear", !.k = k]
                         \/ MatchedNodes(i) = {} /\ run' = [run EXCEPT !.at = "finalizer"]
            /\ UNCHANGED <<node, bm, queue>>
         \/ ~blocked /\ ~bm[i].del /\ gone /\ Again(i)
         \/ /\ ~blocked /\ ~bm[i].del /\ ~gone
            /\ IF Cardinality(MatchedNodes(i)) = 1
                 THEN \E k \in MatchedNodes(i) : Remember(k, i) /\ ToAnnotate(k, node[k], i)
                 ELSE run' = Idle /\ UNCHANGED <<toBM, toK8s>>
            /\ UNCHANGED <<node, bm, queue>>
      /\ UNCHANGED Inputs

\* Mutant: a conflict on the node is not retried.
AnnotateOnce ==
  LET k == run.k
  IN  /\ run.at = "annotate"
      /\ IF node[k].up /\ ~run.stale
           THEN /\ PutNode(k, [node[k] EXCEPT !.ann = run.goal]) /\ run' = Idle
                /\ UNCHANGED <<bm, toBM, toK8s>>
           ELSE Ends
      /\ UNCHANGED Inputs

\* updateNodeLabelsAndAnnotation's update; it fails when the node was written since.
Annotate ==
  LET k == run.k
  IN  /\ run.at = "annotate"
      /\ IF node[k].up /\ ~run.stale
           THEN /\ PutNode(k, [node[k] EXCEPT !.ann = run.goal]) /\ run' = Idle
                /\ UNCHANGED <<bm, toBM, toK8s>>
           ELSE Again(run.name)
      /\ UNCHANGED Inputs

\* Mutant: a failed update of the node keeps the finalizer for good.
RemoveAnnotationOnce ==
  LET k == run.k
      update == ~external /\ node[k].ann # None
  IN  /\ run.at = "clear"
      /\ IF update /\ (run.stale \/ ~node[k].up)
           THEN Ends
           ELSE /\ run' = [run EXCEPT !.at = "finalizer"]
                /\ IF update THEN PutNode(k, [node[k] EXCEPT !.ann = None])
                   ELSE UNCHANGED <<node, queue>>
                /\ UNCHANGED <<bm, toBM, toK8s>>
      /\ UNCHANGED Inputs

\* removeLabelsAndAnnotation: an external annotation stays.
RemoveAnnotation ==
  LET k == run.k
      update == ~external /\ node[k].ann # None
  IN  /\ run.at = "clear"
      /\ IF update /\ (run.stale \/ ~node[k].up)
           THEN Again(run.name)
           ELSE /\ run' = [run EXCEPT !.at = "finalizer"]
                /\ IF update THEN PutNode(k, [node[k] EXCEPT !.ann = None])
                   ELSE UNCHANGED <<node, queue>>
                /\ UNCHANGED <<bm, toBM, toK8s>>
      /\ UNCHANGED Inputs

\* Without its finalizer the CSIBMNode goes; the cache still knows it.
RemoveFinalizer ==
  /\ run.at = "finalizer"
  /\ IF bm[run.name].is THEN PutBM(run.name, NoBM) ELSE UNCHANGED <<bm, queue>>
  /\ run' = Idle
  /\ UNCHANGED <<node, toBM, toK8s>> /\ UNCHANGED Inputs
------------------------------------------------------------------------------
Change == changes < MaxChanges /\ changes' = changes + 1
Touch(k) == run' = IF run.k = k THEN [run EXCEPT !.stale = TRUE] ELSE run

\* The API server refuses an update or a read: the reconciliation starts again.
Fault ==
  /\ Change /\ run.at \in {"k8s", "bm", "annotate", "clear", "finalizer"}
  /\ Again(run.name)
  /\ UNCHANGED <<external, podId, touched>>

Restart ==
  /\ Change
  /\ run' = Idle
  /\ toBM' = [k \in Node |-> None] /\ toK8s' = [i \in Id |-> None]
  /\ queue' = {k \in Node : node[k].up /\ node[k].sel} \cup {i \in Id : bm[i].is}
  /\ UNCHANGED <<external, node, bm, podId, touched>>

\* A node joins; its addresses are those of its host, and no other node has its IP.  With
\* external annotations the deployer may have annotated it before, as no other node.
NodeJoins(k, ip, ann) ==
  /\ Change /\ ~node[k].up
  /\ ann # None => external /\ \A n \in Node : node[n].ann # ann
  /\ \A n \in Node : <<"InternalIP", ip>> \notin node[n].addr
  /\ PutNode(k, [up |-> TRUE, addr |-> {<<"Hostname", k>>, <<"InternalIP", ip>>}, ann |-> ann, sel |-> TRUE])
  /\ Touch(k)
  /\ UNCHANGED <<external, bm, toBM, toK8s, podId, touched>>

NodeLeaves(k) ==
  /\ Change /\ node[k].up
  /\ PutNode(k, NoNode) /\ Touch(k)
  /\ podId' = [podId EXCEPT ![k] = None]
  /\ touched' = touched \cup {k}
  /\ UNCHANGED <<external, bm, toBM, toK8s>>

AddressChanges(k, ip) ==
  /\ Change /\ node[k].up
  /\ \A n \in Node : <<"InternalIP", ip>> \notin node[n].addr
  /\ PutNode(k, [node[k] EXCEPT !.addr = {<<"Hostname", k>>, <<"InternalIP", ip>>}])
  /\ Touch(k)
  /\ touched' = touched \cup {k}
  /\ UNCHANGED <<external, bm, toBM, toK8s, podId>>

\* The annotation of the deployer that comes late or is changed, or a user's edit of the
\* controller's own.
SetAnnotation(k, i) ==
  /\ Change /\ node[k].up /\ node[k].ann # i
  /\ external => i # None /\ \A n \in Node : node[n].ann # i
  /\ PutNode(k, [node[k] EXCEPT !.ann = i]) /\ Touch(k)
  /\ touched' = touched \cup {k}
  /\ UNCHANGED <<external, bm, toBM, toK8s, podId>>

\* The kubelet writes the node's status: the filter drops the event.
NodeWritten(k) ==
  /\ Change /\ node[k].up /\ run.k = k /\ Touch(k)
  /\ UNCHANGED <<external, node, bm, toBM, toK8s, queue, podId, touched>>

SetSelected(k) ==
  /\ Change /\ node[k].up
  /\ PutNode(k, [node[k] EXCEPT !.sel = ~@]) /\ Touch(k)
  /\ UNCHANGED <<external, bm, toBM, toK8s, podId, touched>>

DeleteBM(i) ==
  /\ Change /\ bm[i].is /\ ~bm[i].del
  /\ PutBM(i, [bm[i] EXCEPT !.del = TRUE])
  /\ run' = IF run.name = i THEN [run EXCEPT !.stale = TRUE] ELSE run
  /\ touched' = touched \cup {k \in Node : <<"Hostname", k>> \in bm[i].addr}
  /\ UNCHANGED <<external, node, toBM, toK8s, podId>>

\* ObtainNodeID: the CSIBMNode with the host's name.
ObtainNodeID(k) ==
  /\ node[k].up /\ podId[k] = None
  /\ \E i \in Id : /\ bm[i].is /\ <<"Hostname", k>> \in bm[i].addr
                   /\ podId' = [podId EXCEPT ![k] = i]
  /\ UNCHANGED <<external, node, bm, toBM, toK8s, queue, run, touched, changes>>

PodRestarts(k) ==
  /\ Change /\ podId[k] # None
  /\ podId' = [podId EXCEPT ![k] = None]
  /\ UNCHANGED <<external, node, bm, toBM, toK8s, queue, run, touched>>
------------------------------------------------------------------------------
Init ==
  /\ external \in BOOLEAN
  /\ node = [k \in Node |-> NoNode]
  /\ bm = [i \in Id |-> NoBM]
  /\ toBM = [k \in Node |-> None] /\ toK8s = [i \in Id |-> None]
  /\ queue = {} /\ run = Idle
  /\ podId = [k \in Node |-> None]
  /\ touched = {} /\ changes = 0

Continue ==
  \/ ReconcileForK8sNode \/ ReconcileForCSIBMNode
  \/ Annotate \/ RemoveAnnotation \/ RemoveFinalizer

Environment ==
  \/ Fault \/ Restart
  \/ \E k \in Node : \/ NodeLeaves(k) \/ SetSelected(k) \/ NodeWritten(k) \/ PodRestarts(k)
                     \/ \E ip \in Ip : \/ AddressChanges(k, ip)
                                      \/ \E i \in Id \cup {None} : NodeJoins(k, ip, i)
                     \/ \E i \in Id \cup {None} : SetAnnotation(k, i)
  \/ \E i \in Id : DeleteBM(i)

Next ==
  \/ \E k \in Node : ReconcileNode(k) \/ ObtainNodeID(k)
  \/ \E i \in Id : ReconcileBM(i)
  \/ Continue
  \/ Environment

Spec == Init /\ [][Next]_vars

\* The queue is first in, first out.
FairSpec ==
  /\ Spec /\ WF_vars(Continue)
  /\ \A k \in Node : SF_vars(ReconcileNode(k))
  /\ \A i \in Id : SF_vars(ReconcileBM(i))
------------------------------------------------------------------------------
\* A node never has two CSIBMNodes that match it, however often the controller lost its
\* cache, addresses changed hands or objects were deleted (reconcileForK8sNode creates
\* one only when nothing matches, not even in part).
OneCSIBMNodePerNode ==
  \A k \in Node : node[k].up =>
    Cardinality({i \in Id : bm[i].is /\ <<"Hostname", k>> \in bm[i].addr}) <= 1

\* The id the pods of a node run with is the id the scheduler extender reads, be it drawn
\* or annotated by the deployer, unless the annotation was changed or came after the node,
\* a user deleted the CSIBMNode, or the node left or moved.
IdsAgree ==
  \A k \in Node \ touched :
    podId[k] # None /\ node[k].ann # None => podId[k] = node[k].ann

\* Every node that stays as it joined, and is selected, is annotated in the end with the
\* UUID of its CSIBMNode, unless it has taken an address that the CSIBMNode of another
\* node still lists.  Only of annotations the controller writes: not in external mode.
NodeGetsItsId ==
  <>[](~external => \A k \in Node \ touched :
         node[k].up /\ node[k].sel /\ ~(\E i \in Id : bm[i].is /\ Partial(bm[i], node[k])) =>
           \E i \in Id : bm[i].is /\ Full(bm[i], node[k]) /\ node[k].ann = i)

\* A deleted CSIBMNode goes, unless some node matches it in part
\* (reconcileForCSIBMNode then returns before it looks at the deletion).
DeletedCSIBMNodeGoes ==
  \A i \in Id : bm[i].del ~> (~bm[i].is \/ \E k \in Node : node[k].up /\ Partial(bm[i], node[k]))
------------------------------------------------------------------------------
(* What makes OneCSIBMNodePerNode and IdsAgree inductive.                      *)

Hosts(addr) == {k \in Node : <<"Hostname", k>> \in addr}
Owns(i, k) == bm[i].is /\ <<"Hostname", k>> \in bm[i].addr

\* The worker knows what it works on; only it removes a CSIBMNode.
RunOK ==
  /\ run.at = "k8s" => run.k \in Node /\ run.name = run.k /\ Hosts(run.copy.addr) = {run.k}
  /\ run.at \in {"bm", "clear", "finalizer"} => run.name \in Id /\ bm[run.name].is
  /\ run.at \in {"clear", "finalizer"} => bm[run.name].del
  /\ run.at \in {"annotate", "clear"} => run.k \in Node
  /\ run.at = "annotate" => ~external /\ run.name \in Node \cup Id /\ run.goal \in Id

\* Every object has the name of exactly one host, no two CSIBMNodes have the same, and
\* the cache never hides the CSIBMNode of a node behind another one.
OneHost ==
  /\ \A k \in Node : node[k].up => Hosts(node[k].addr) = {k}
  /\ \A i \in Id : bm[i].is => \E k \in Node : Hosts(bm[i].addr) = {k}
OneOwner == \A i, j \in Id, k \in Node : Owns(i, k) /\ Owns(j, k) => i = j
CacheOK == \A i \in Id, k \in Node : Owns(i, k) => toBM[k] \in {None, i}

\* What a node that nobody interfered with has been given is its CSIBMNode's.
GivenIsOwner ==
  /\ \A k \in Node \ touched :
       /\ ~node[k].up => run.k # k /\ \A i \in Id : ~Owns(i, k)
       /\ podId[k] # None => Owns(podId[k], k)
       /\ ~external /\ node[k].ann # None => Owns(node[k].ann, k)
       /\ external => \A i \in Id : Owns(i, k) /\ node[k].ann # None => i = node[k].ann
       /\ run.at = "k8s" /\ run.k = k /\ external => run.copy.ann = node[k].ann
  /\ run.at = "annotate" /\ run.k \notin touched => Owns(run.goal, run.k)
  /\ \A i \in Id, k \in Node : Owns(i, k) /\ bm[i].del => k \in touched

IdsInv == TypeOK /\ RunOK /\ OneHost /\ OneOwner /\ CacheOK /\ GivenIsOwner
==============================================================================
