------------------------------ MODULE Blueprints ------------------------------
(***************************************************************************)
(* The rule sets (Rules.py, Builders.py): what a validated document        *)
(* becomes.  A Blueprint is its name and, for every keyword of its rule    *)
(* set, the peers it lists.                                                *)
(*                                                                         *)
(* A document is of one of three kinds:                                    *)
(*   podman-compose  services [name, depends_on, networks], network names; *)
(*   kubernetes      items [kind, name, namespace, labels, selector,       *)
(*                   depends_on, networks], the last two from the          *)
(*                   launcher/ annotations of a Pod;                       *)
(*   another rule set, which has built its Blueprints already.             *)
(*                                                                         *)
(* A name is the sequence of its parts: names are joined by underscores,   *)
(* f"{a}_{b}" is a \o b, and a name with an underscore in it has two.  The *)
(* empty text is a part like another; NoName is a namespace not given.     *)
(***************************************************************************)
EXTENDS Naturals, SequencesExt

NoName == << >>

(* The keywords of the bundled rule sets, which all impose the AFTER side *)
ComposeKeywords == {"depends_on", "networks"}
KubernetesKeywords == {"namespace", "selector", "depends_on"}

(***************************************************************************)
(* podman-compose                                                          *)
(***************************************************************************)
BuildService(s) ==
  [name  |-> s.name,
   lists |-> [depends_on |-> s.depends_on, networks |-> s.networks]]

BuildNetwork(n) ==
  [name |-> n, lists |-> [depends_on |-> {}, networks |-> {}]]

PodmanCompose(doc) ==
  [i \in DOMAIN doc.services |-> BuildService(doc.services[i])] \o
  [i \in DOMAIN doc.networks |-> BuildNetwork(doc.networks[i])]

(***************************************************************************)
(* kubernetes                                                              *)
(***************************************************************************)
Kinds == {"Namespace", "Pod", "Service"}
Texts == Seq(STRING)

(* What the schema admits.  A label is the pair of its key and value.       *)
KubernetesItems ==
  [kind : Kinds, name : Texts \ {NoName}, namespace : Texts,
   labels : SUBSET STRING, selector : SUBSET STRING, networks : SUBSET Texts,
   depends_on : SUBSET [namespace : Texts, name : Texts \ {NoName}]]

(* The items of a kind, in the order of the document *)
Kept(s, i, kind) == IF i.kind = kind THEN Append(s, i) ELSE s
OfKind(items, kind) ==
  LET kept[n \in 0 .. Len(items)] ==
        IF n = 0 THEN << >> ELSE Kept(kept[n - 1], items[n], kind)
  IN  kept[Len(items)]

(* _k8s_instance_namespace, _k8s_instance_name *)
InstanceNamespace(i) == IF i.namespace = NoName THEN <<"default">> ELSE i.namespace
InstanceName(i) == IF i.kind = "Namespace" THEN i.name
                                           ELSE InstanceNamespace(i) \o i.name

DeclaredNamespaces(items) == {i.name : i \in ToSet(OfKind(items, "Namespace"))}

(* A name of the depends-on annotation of pod p, which may cross namespaces *)
Referred(p, t) == IF t.namespace = NoName THEN InstanceNamespace(p) \o t.name
                                          ELSE t.namespace \o t.name

(* _match_k8s_selector, and the Pods of s's namespace it matches.  The      *)
(* mutation looks for them in every namespace.                              *)
Matches(selector, p) == selector \subseteq p.labels
SelectedAnywhere(items, s) ==
  {p \in ToSet(OfKind(items, "Pod")) : Matches(s.selector, p)}
Selected(items, s) ==
  {p \in ToSet(OfKind(items, "Pod")) :
     InstanceNamespace(p) = InstanceNamespace(s) /\ Matches(s.selector, p)}

(* The namespace of i, if a unit stands for it.  The mutation lists any.    *)
OwnNetworkAlways(items, i) == {InstanceNamespace(i)}
OwnNetwork(items, i) == {InstanceNamespace(i)} \cap DeclaredNamespaces(items)

BuildItem(items, i) ==
  [name  |-> InstanceName(i),
   lists |->
     [namespace  |-> CASE i.kind = "Namespace" -> {}
                       [] i.kind = "Pod"     -> OwnNetwork(items, i) \cup i.networks
                       [] i.kind = "Service" -> OwnNetwork(items, i),
      selector   |-> IF i.kind = "Service"
                     THEN {InstanceName(p) : p \in Selected(items, i)} ELSE {},
      depends_on |-> IF i.kind = "Pod"
                     THEN {Referred(i, t) : t \in i.depends_on} ELSE {}]]

Kubernetes(doc) ==
  LET ordered == OfKind(doc.items, "Namespace") \o OfKind(doc.items, "Pod")
                   \o OfKind(doc.items, "Service")
  IN  [i \in DOMAIN ordered |-> BuildItem(doc.items, ordered[i])]

-----------------------------------------------------------------------------
(* The step blueprint_builder of the active rule set *)
Built(doc) == CASE doc.dsl = "podman-compose" -> PodmanCompose(doc)
                [] doc.dsl = "kubernetes"     -> Kubernetes(doc)
                [] doc.dsl = "another"        -> doc.blueprints
=============================================================================
