------------------------------- MODULE Generator -------------------------------
(***************************************************************************)
(* From a validated input to a graph the manager runs: the Blueprints are  *)
(* built and their mappings reconciled, the unified graph is searched for  *)
(* cycles (CycleCheck), unit files and the manifest are written, and the   *)
(* manager reads the manifest and resolves its names to instances.         *)
(*                                                                         *)
(* What systemd enforces is in the unit files; what the manager believes   *)
(* of the graph is in the manifest.                                        *)
(***************************************************************************)
EXTENDS CycleCheck, Blueprints, FiniteSetsExt

CONSTANTS
  Documents,  \* the validated inputs
  Side,       \* Side[k]: the side keyword k of a rule set imposes
  Cascade     \* is the mapping behaviour Cascade?

Sides == {"after", "before"}
Mapping == [Sides -> SUBSET Names]

(* A document has Blueprints, in order; they have names and peers among the  *)
(* Names, and the same keywords, all of which have a side.  The items of a   *)
(* kubernetes document are what the schema admits.                          *)
ASSUME GeneratorAssumption ==
  /\ DOMAIN Side \subseteq STRING
  /\ \A k \in DOMAIN Side : Side[k] \in Sides
  /\ \A k \in DOMAIN Side \cap (ComposeKeywords \cup KubernetesKeywords) :
       Side[k] = "after"
  /\ \A doc \in Documents :
       /\ doc.dsl = "kubernetes" => doc.items \in Seq(KubernetesItems)
       /\ Len(Built(doc)) \in Nat \ {0}
       /\ DOMAIN Built(doc) = 1 .. Len(Built(doc))
       /\ \A i \in DOMAIN Built(doc) :
            LET b == Built(doc)[i] IN
              /\ b.name \in Nodes
              /\ DOMAIN b.lists = DOMAIN Built(doc)[1].lists
              /\ DOMAIN b.lists \subseteq DOMAIN Side
              /\ \A k \in DOMAIN b.lists : b.lists[k] \subseteq Names
  /\ Cascade \in BOOLEAN

VARIABLES
  document,    \* the validated input
  blueprints,  \* the Blueprints as they were built: [name, lists]
  stage,       \* what is being done
  next,        \* the Blueprint or INSTANCE block it is done to next
  pending,     \* the keywords it is still to be done for
  mapping,     \* mapping[b][k]: the Mapping of Blueprint b, both sides
  files,       \* files[n]: the relations in the unit file of name n
  pointers     \* pointers[b][k]: the instances the manager resolved

built == <<document, blueprints>>
vars == <<built, stage, next, pending, mapping, files, pointers, checkVars>>

Indices == DOMAIN blueprints
Name(b) == blueprints[b].name

(* _collect_mapping_names *)
Keywords == UNION {DOMAIN blueprints[b].lists : b \in Indices}

Stages == {"build", "reconcile", "unify", "search", "emit", "read", "resolve",
           "accepted", "rejected"}

Relations == [after : SUBSET Names, before : SUBSET Names, partOf : SUBSET Names]
NoRelations == [after |-> {}, before |-> {}, partOf |-> {}]
NoPeers == [s \in Sides |-> {}]

TypeOK ==
  /\ document \in Documents
  /\ blueprints \in {<< >>, Built(document)}
  /\ stage \in Stages
  /\ next \in 1 .. Len(blueprints) + 1
  /\ pending \subseteq Keywords
  /\ mapping \in [Indices -> [Keywords -> Mapping]]
  /\ files \in [Nodes -> Relations]
  /\ pointers \in [Indices -> [Keywords -> [Sides -> SUBSET Indices]]]
  /\ CheckTypeOK

Init ==
  /\ document \in Documents
  /\ blueprints = << >>
  /\ stage = "build"
  /\ next = 1
  /\ pending = {}
  /\ mapping = << >>
  /\ files = [n \in Nodes |-> NoRelations]
  /\ pointers = << >>
  /\ adjacency = [n \in Nodes |-> {}]
  /\ Fresh

(* The keys of every dictionary by name, and the Blueprint a name stands for *)
(* in it: a later Blueprint of the name replaces an earlier one.            *)
Named == {Name(b) : b \in Indices}
ByName(n) == Max({b \in Indices : Name(b) = n})

Goes(b, this, following) ==
  IF b < Len(blueprints) THEN stage' = this /\ next' = b + 1
                         ELSE stage' = following /\ next' = 1

-----------------------------------------------------------------------------
(* make_mapping: the peers go to the side their keyword imposes. *)
MakeMapping(k, values) == [NoPeers EXCEPT ![Side[k]] = values]

(* blueprint_builder, up to the reconciliation.  A name that is no key is   *)
(* passed over by the search like a node it has left.                       *)
Build ==
  /\ stage = "build"
  /\ blueprints' = Built(document)
  /\ mapping' = [b \in Indices' |-> [k \in Keywords' |->
                   MakeMapping(k, blueprints'[b].lists[k])]]
  /\ pointers' = [b \in Indices' |-> [k \in Keywords' |-> NoPeers]]
  /\ stage' = "reconcile"
  /\ pending' = Keywords'
  /\ color' = [n \in Nodes |-> IF n \in Named' THEN "WHITE" ELSE "BLACK"]
  /\ UNCHANGED <<document, next, files, adjacency, path, looked, verdict, found>>

View(k, n) == mapping[ByName(n)][k]
Opposite(s) == IF s = "after" THEN "before" ELSE "after"

(* Mutation: the inferred side replaces the declared one.                   *)
FilledOver(k, n, s) == {m \in Named : n \in View(k, m)[Opposite(s)]}

(* before_filler and after_filler: what n lists on side s, and who lists n  *)
(* on the other side.                                                       *)
Filled(k, n, s) ==
  View(k, n)[s] \cup {m \in Named : n \in View(k, m)[Opposite(s)]}

Reconcile(k) ==
  /\ stage = "reconcile"
  /\ k \in pending
  /\ mapping' = [b \in Indices |->
       IF b = ByName(Name(b))
       THEN [mapping[b] EXCEPT ![k] = [s \in Sides |-> Filled(k, Name(b), s)]]
       ELSE mapping[b]]
  /\ LET rest == pending \ {k} IN
       /\ stage' = IF rest = {} THEN "unify" ELSE stage
       /\ pending' = IF rest = {} THEN Keywords ELSE rest
  /\ UNCHANGED <<built, next, files, pointers, checkVars>>

(* Mutation: the later map replaces the earlier one.                        *)
UnifiedLast(k) == [n \in Nodes |->
  IF n \in Named THEN View(k, n)["after"] ELSE adjacency[n]]

(* unify_mappings *)
Unified(k) == [n \in Nodes |->
  IF n \in Named THEN adjacency[n] \cup View(k, n)["after"] ELSE adjacency[n]]

Unify(k) ==
  /\ stage = "unify"
  /\ k \in pending
  /\ adjacency' = Unified(k)
  /\ pending' = pending \ {k}
  /\ stage' = IF pending' = {} THEN "search" ELSE stage
  /\ UNCHANGED <<built, next, mapping, files, pointers, searchVars>>

(* A cycle ends the program; otherwise the search goes on to the unit files. *)
Search ==
  /\ stage = "search"
  /\ CheckNext
  /\ stage' = IF verdict' = "acyclic" THEN "emit" ELSE stage
  /\ UNCHANGED <<built, next, pending, mapping, files, pointers>>

-----------------------------------------------------------------------------
(* Mutation: a keyword's peers replace those gathered before.               *)
GatheredLast(b, s) ==
  IF \E k \in Keywords : mapping[b][k][s] # {}
  THEN mapping[b][CHOOSE k \in Keywords : mapping[b][k][s] # {}][s]
  ELSE {}

(* _gather_peer_names, and the ones with a unit file                        *)
Gathered(b, s) == UNION {mapping[b][k][s] : k \in Keywords}

(* _emit_one_unit_file: After= and Requires= name the peers before it,      *)
(* Before= and RequiredBy= those behind it.                                 *)
Emit ==
  /\ stage = "emit"
  /\ LET after == Gathered(next, "after") \cap Named IN
       files' = [files EXCEPT ![Name(next)] =
         [after  |-> after,
          before |-> Gathered(next, "before") \cap Named,
          partOf |-> IF Cascade THEN after ELSE {}]]
  /\ Goes(next, "emit", "read")
  /\ UNCHANGED <<built, pending, mapping, pointers, checkVars>>

-----------------------------------------------------------------------------
(* Mutation: the instance is compared with itself.                          *)
DuplicateOrSelf(b) == \E c \in 1 .. b : Name(c) = Name(b)

(* manager_read_manifest at the END of an INSTANCE block *)
Duplicate(b) == \E c \in 1 .. b - 1 : Name(c) = Name(b)

ReadInstance ==
  /\ stage = "read"
  /\ ~Duplicate(next)
  /\ Goes(next, "read", "resolve")
  /\ UNCHANGED <<built, pending, mapping, files, pointers, checkVars>>

RejectDuplicate ==
  /\ stage = "read"
  /\ Duplicate(next)
  /\ stage' = "rejected"
  /\ UNCHANGED <<built, next, pending, mapping, files, pointers, checkVars>>

(* manifest_resolve_pointers for one instance *)
Written(b) == UNION {mapping[b][k][s] : k \in Keywords, s \in Sides}
Found(n) == {b \in Indices : Name(b) = n}

(* Mutation: a name that is not found leaves a null pointer.                *)
ResolveUnchecked ==
  /\ stage = "resolve"
  /\ pointers' = [pointers EXCEPT ![next] = [k \in Keywords |-> [s \in Sides |->
       {IF Found(n) = {} THEN 0 ELSE Min(Found(n)) : n \in mapping[next][k][s]}]]]
  /\ Goes(next, "resolve", "accepted")
  /\ UNCHANGED <<built, pending, mapping, files, checkVars>>

Resolve ==
  /\ stage = "resolve"
  /\ Written(next) \subseteq Named
  /\ pointers' = [pointers EXCEPT ![next] = [k \in Keywords |-> [s \in Sides |->
       {Min(Found(n)) : n \in mapping[next][k][s]}]]]
  /\ Goes(next, "resolve", "accepted")
  /\ UNCHANGED <<built, pending, mapping, files, checkVars>>

RejectUnknown ==
  /\ stage = "resolve"
  /\ ~ Written(next) \subseteq Named
  /\ stage' = "rejected"
  /\ UNCHANGED <<built, next, pending, mapping, files, pointers, checkVars>>

(* The run goes on, or the program has ended. *)
Ended ==
  /\ stage \in {"accepted", "rejected"} \/ verdict = "cycle"
  /\ UNCHANGED vars

Next ==
  \/ Build
  \/ \E k \in Keywords : Reconcile(k) \/ Unify(k)
  \/ Search
  \/ Emit
  \/ ReadInstance \/ RejectDuplicate
  \/ Resolve \/ RejectUnknown
  \/ Ended

Spec == Init /\ [][Next]_vars

-----------------------------------------------------------------------------
(* "A starts after B" as the Blueprints declare it, from either side: A lists *)
(* B under a keyword that says so, or B lists A under one that says the      *)
(* opposite.                                                                *)
KeywordsOf(s) == {k \in Keywords : Side[k] = s}
Lists(n, s) == UNION {blueprints[b].lists[k] :
                        b \in {x \in Indices : Name(x) = n}, k \in KeywordsOf(s)}
Declared(n) == Lists(n, "after") \cup {m \in Named : n \in Lists(m, "before")}

(* Of an accepted input systemd enforces exactly the declared dependencies, *)
(* written from both ends: a unit file names in After= and Requires= what   *)
(* its unit is declared to follow, and is named in the Before= and          *)
(* RequiredBy= of those files (reconcile_mappings, _emit_one_unit_file).    *)
DependenciesEnforced ==
  stage = "accepted" =>
    \A n \in Named :
      /\ files[n].after = Declared(n)
      /\ files[n].before = {m \in Named : n \in Declared(m)}

(* The units of an accepted input can be started: no set of them waits for  *)
(* each other through the After= lines that were written, whatever keywords *)
(* and sides the dependencies came from (validate_blueprint_dag).           *)
StartOrderExists ==
  stage = "accepted" =>
    ~ \E S \in SUBSET Named : S # {} /\ \A n \in S : files[n].after \cap S # {}

(* The manager's pointers are the relations of the unit files: it waits for *)
(* the graph systemd runs (manifest_resolve_pointers).                      *)
ManifestAgrees ==
  stage = "accepted" =>
    \A b \in Indices, s \in Sides :
      {Name(c) : c \in UNION {pointers[b][k][s] : k \in Keywords}} = files[Name(b)][s]

(* Nothing is refused without a reason in the Blueprints: a name used twice, *)
(* a peer that is no instance, or a cycle of declared dependencies.         *)
RejectionJustified ==
  /\ stage = "rejected" =>
       \/ \E b, c \in Indices : b # c /\ Name(b) = Name(c)
       \/ \E b \in Indices, k \in Keywords : ~ blueprints[b].lists[k] \subseteq Named
  /\ verdict = "cycle" =>
       \E S \in SUBSET Named : S # {} /\ \A n \in S : Declared(n) \cap S # {}

-----------------------------------------------------------------------------
(* A kubernetes document, item by item *)
Items == IF document.dsl = "kubernetes" THEN ToSet(document.items) ELSE {}
Distinct == /\ document.dsl = "kubernetes"
            /\ IsInjective(document.items)
            /\ \A i, j \in Items : InstanceName(i) = InstanceName(j) => i = j
OneWord == \A i \in Items : /\ Len(i.name) = 1 /\ Len(i.namespace) <= 1
                            /\ \A n \in i.networks : Len(n) = 1

(* Does the document ask for i to start after j?  A Pod or Service follows   *)
(* the Namespace it is in, a Service the Pods of its namespace that carry    *)
(* the labels of its selector, and a Pod what its annotations name.         *)
Follows(i, j) ==
  \/ /\ j.kind = "Namespace"
     /\ i.kind # "Namespace"
     /\ \/ j.name = InstanceNamespace(i)
        \/ i.kind = "Pod" /\ j.name \in i.networks
  \/ /\ i.kind = "Service"
     /\ j.kind = "Pod"
     /\ InstanceNamespace(i) = InstanceNamespace(j)
     /\ i.selector \subseteq j.labels
  \/ /\ i.kind = "Pod"
     /\ j.kind # "Namespace"
     /\ \E t \in i.depends_on :
          /\ t.name = j.name
          /\ InstanceNamespace(j) = IF t.namespace = NoName THEN InstanceNamespace(i)
                                                           ELSE t.namespace

(* An accepted kubernetes document is started in the order it asks for, and  *)
(* no other: though items are known by their joined names only from the      *)
(* builder to systemd, no order is lost or given to another item, in any     *)
(* namespace, declared or the implicit one.  Names with underscores of their *)
(* own, which kubectl does not allow, are excepted: they are ambiguous.     *)
ItemsOrdered ==
  stage = "accepted" /\ OneWord =>
    \A i, j \in Items :
      InstanceName(j) \in files[InstanceName(i)].after <=> Follows(i, j)

(* A kubernetes document is refused for what its author wrote: two items of  *)
(* one joined name, an annotation that names no item, or an order that goes  *)
(* round in a circle; never because a namespace is not declared ("the        *)
(* implicit 'default' must not produce a dangling edge", _build_k8s_pod).   *)
RefusedForACause ==
  Distinct /\ OneWord =>
    /\ stage = "rejected" =>
         \E p \in Items : /\ p.kind = "Pod"
                          /\ ~ p.networks \cup {Referred(p, t) : t \in p.depends_on}
                                 \subseteq Named
    /\ verdict = "cycle" =>
         \E S \in SUBSET Items : S # {} /\ \A i \in S : \E j \in S : Follows(i, j)

(* "The 'selector' and 'namespace' strata (service -> pod -> namespace) are  *)
(* acyclic by construction" (kubernetes_blueprint_builder): a document whose *)
(* Pods have no launcher/ annotations has no cycle.                         *)
StrataAcyclic ==
  verdict = "cycle" /\ document.dsl = "kubernetes" =>
    \E p \in Items : p.kind = "Pod" /\ p.depends_on \cup p.networks # {}
=============================================================================
