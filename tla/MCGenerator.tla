----------------------------- MODULE MCGenerator -----------------------------
(***************************************************************************)
(* Documents for Generator: small ones of the two bundled rule sets, and   *)
(* three Blueprints of a rule set with a keyword of each side.             *)
(***************************************************************************)
EXTENDS Generator

N(part) == <<part>>

-----------------------------------------------------------------------------
(* podman-compose: two services and a network, whose name a service may have *)
ComposeDocuments ==
  {[dsl |-> "podman-compose",
    services |-> << [name |-> N("web"), depends_on |-> d, networks |-> n],
                    [name |-> N("db"), depends_on |-> e, networks |-> {}] >>,
    networks |-> <<nw>>] :
      d \in SUBSET {N("db"), N("front")},
      e \in SUBSET {N("web")},
      n \in SUBSET {N("front"), N("back")},
      nw \in {N("front"), N("db")}}

-----------------------------------------------------------------------------
(* kubernetes: a Pod web that may have annotations, a Pod db, a Service with  *)
(* a name of its own or a Pod's, in namespaces that are declared or not      *)
Item(kind, name, namespace, labels, selector, depends_on, networks) ==
  [kind |-> kind, name |-> name, namespace |-> namespace, labels |-> labels,
   selector |-> selector, depends_on |-> depends_on, networks |-> networks]
Namespace(name) == Item("Namespace", name, NoName, {}, {}, {}, {})
Pod(name, ns, labels, d, n) == Item("Pod", name, ns, labels, {}, d, n)
Service(name, ns, selector) == Item("Service", name, ns, {}, selector, {}, {})
Token(namespace, name) == [namespace |-> namespace, name |-> name]

Homes == {NoName, N("prod")}
Tokens == {Token(NoName, N("db")), Token(N("prod"), N("db")), Token(NoName, N("api"))}

KubernetesDocuments ==
  {[dsl |-> "kubernetes",
    items |-> << Pod(N("web"), home, {"app"}, d, n),
                 Service(name, home, selector),
                 Pod(N("db"), ns, labels, e, {}) >>
              \o declared] :
      home \in Homes, ns \in Homes,
      d \in {{}} \cup {{t} : t \in Tokens},
      e \in {{}, {Token(NoName, N("web"))}},
      n \in {{}, {N("prod")}},
      labels \in SUBSET {"app"},
      name \in {N("api"), N("web")},
      selector \in SUBSET {"app"},
      declared \in {<< >>, <<Namespace(N("prod"))>>,
                    <<Namespace(N("default")), Namespace(N("prod"))>>}}

(* Two Pods, of which either may be missing, whose joined names are the same *)
AmbiguousDocuments ==
  {[dsl |-> "kubernetes", items |-> << Pod(N("web"), NoName, {}, d, {}) >> \o pods] :
      d \in SUBSET {Token(N("prod"), <<"x", "db">>)},
      pods \in {<<Pod(N("db"), <<"prod", "x">>, {}, {}, {})>>,
                <<Pod(<<"x", "db">>, N("prod"), {}, {}, {})>>,
                <<Pod(N("db"), <<"prod", "x">>, {}, {}, {}),
                  Pod(<<"x", "db">>, N("prod"), {}, {}, {})>>}}

-----------------------------------------------------------------------------
x == N("x")
y == N("y")
z == N("z")
stranger == N("stranger")

OtherDocuments ==
  {[dsl |-> "another",
    blueprints |-> [b \in 1 .. 3 |->
       [name |-> names[b], lists |-> [needs |-> needs[b], gates |-> gates[b]]]]] :
      names \in {<<x, y, z>>, <<x, y, y>>},
      needs \in [1 .. 3 -> SUBSET {x, z, stranger}],
      gates \in [1 .. 3 -> SUBSET {z}]}

SideOf == [k \in {"depends_on", "networks", "namespace", "selector", "needs"} |-> "after"]
            @@ ("gates" :> "before")

(* TLC evaluates these once and what a constant is replaced by every time.  *)
TheDocuments == ComposeDocuments \cup KubernetesDocuments \cup AmbiguousDocuments
                  \cup OtherDocuments
TheBlueprints == UNION {ToSet(Built(doc)) : doc \in TheDocuments}
TheNodes == {b.name : b \in TheBlueprints}
TheNames == TheNodes \cup
            UNION {UNION {b.lists[k] : k \in DOMAIN b.lists} : b \in TheBlueprints}

AllDocuments == TheDocuments
AllNodes == TheNodes
AllNames == TheNames
=============================================================================
