---------------------------- MODULE GeneratorProofs ----------------------------
(***************************************************************************)
(* Proofs about Generator, for every rule set and every document: what     *)
(* systemd is told, what the manager is told and what the Blueprints       *)
(* declare are the same graph, and it can be started.  How the bundled     *)
(* rule sets build Blueprints plays no part in the first six theorems; the *)
(* last two follow the items of a kubernetes document through them.        *)
(***************************************************************************)
EXTENDS Generator, CycleCheckProofs, WellFoundedInduction

(* What Blueprint b lists on side s of k, and what that becomes once the two *)
(* sides of k are reconciled.                                               *)
Own(b, k, s) == IF s = Side[k] THEN blueprints[b].lists[k] ELSE {}
Final(k, n, s) ==
  Own(ByName(n), k, s) \cup {m \in Named : n \in Own(ByName(m), k, Opposite(s))}

Latest(b) == b = ByName(Name(b))
Unique == \A b, c \in Indices : Name(b) = Name(c) => b = c

BuildInv ==
  IF stage = "build" THEN blueprints = << >> /\ mapping = << >> /\ pointers = << >>
                     ELSE blueprints = Built(document) /\ next \in Indices

(* Which keywords are reconciled, and which are in the unified graph *)
Reconciled(k) == stage # "reconcile" \/ k \notin pending
Joined == IF stage \in {"build", "reconcile"} THEN {}
          ELSE IF stage = "unify" THEN Keywords \ pending ELSE Keywords

MapInv ==
  stage # "build" => \A b \in Indices, k \in Keywords, s \in Sides :
    mapping[b][k][s] = IF Reconciled(k) /\ Latest(b) THEN Final(k, Name(b), s)
                                                     ELSE Own(b, k, s)

AdjacencyInv ==
  \A n \in Nodes :
    adjacency[n] = IF n \in Named THEN UNION {Final(k, n, "after") : k \in Joined}
                                  ELSE {}

(* The search starts from nothing but the names that are no key left aside,  *)
(* and has ended well when unit files are written.                          *)
Untouched ==
  /\ path = << >> /\ verdict = "searching" /\ found = << >>
  /\ \A n \in Nodes : looked[n] = {}
  /\ \A n \in Nodes : color[n] = IF n \in Named \/ stage = "build" THEN "WHITE"
                                                                   ELSE "BLACK"

StageInv ==
  /\ stage \in {"build", "reconcile", "unify"} => Untouched
  /\ stage = "search" => verdict # "acyclic"
  /\ stage \in {"reconcile", "unify", "search"} => next = 1
  /\ stage \in {"emit", "read", "resolve", "accepted", "rejected"} =>
       verdict = "acyclic"

(* The file of a Blueprint, unless another one of its name replaces it *)
FileOf(b) == [after  |-> Gathered(b, "after") \cap Named,
              before |-> Gathered(b, "before") \cap Named,
              partOf |-> IF Cascade THEN Gathered(b, "after") \cap Named ELSE {}]
Emitted(b) == \/ stage \in {"read", "resolve", "accepted", "rejected"}
              \/ stage = "emit" /\ b < next
FilesInv == Unique => \A b \in Indices : Emitted(b) => files[Name(b)] = FileOf(b)

ReadInv ==
  /\ stage = "read" =>
       \A b, c \in Indices : b < next /\ c < next /\ Name(b) = Name(c) => b = c
  /\ stage \in {"resolve", "accepted"} => Unique

Resolved(b) == stage = "accepted" \/ (stage = "resolve" /\ b < next)
PointersInv ==
  \A b \in Indices : Resolved(b) =>
    /\ Written(b) \subseteq Named
    /\ \A k \in Keywords, s \in Sides :
         pointers[b][k][s] = {Min(Found(n)) : n \in mapping[b][k][s]}

RejectedInv ==
  stage = "rejected" =>
    \/ ~Unique
    \/ \E b \in Indices, k \in Keywords : ~ blueprints[b].lists[k] \subseteq Named

GraphInv == /\ TypeOK /\ Inv /\ BuildInv /\ MapInv /\ AdjacencyInv /\ StageInv
            /\ FilesInv /\ ReadInv /\ PointersInv /\ RejectedInv

-----------------------------------------------------------------------------
(* A set of naturals has a least element, and one of numbers up to N a       *)
(* greatest one.                                                            *)
LEMMA LeastExists ==
  ASSUME NEW T \in SUBSET Nat, T # {}
  PROVE  \E m \in T : \A x \in T : m <= x
<1>1. PICK m \in T : \A x \in T : <<x, m>> \notin OpToRel(<, Nat)
  BY WFMin, NatLessThanWellFounded, Zenon
<1>2. ASSUME NEW x \in T PROVE ~(x < m)
  <2>1. x \in Nat /\ m \in Nat
    OBVIOUS
  <2>2. <<x, m>> \in Nat \X Nat /\ <<x, m>>[1] = x /\ <<x, m>>[2] = m
    BY <2>1
  <2> QED
    BY <1>1, <2>2, Zenon DEF OpToRel
<1> QED
  BY <1>2

LEMMA MaxExists ==
  ASSUME NEW N \in Nat, NEW T \in SUBSET (1 .. N), T # {}
  PROVE  Max(T) \in T /\ \A x \in T : Max(T) >= x
<1> DEFINE Gaps == {g \in Nat : N - g \in T}
<1>1. Gaps # {}
  <2>1. PICK x \in T : TRUE
    OBVIOUS
  <2>2. N - x \in Nat /\ N - (N - x) = x
    BY <2>1
  <2> QED
    BY <2>1, <2>2
<1>2. PICK g \in Gaps : \A h \in Gaps : g <= h
  BY <1>1, LeastExists
<1>3. N - g \in T
  BY <1>2
<1>4. ASSUME NEW x \in T PROVE N - g >= x
  <2>1. x \in 1 .. N /\ N - x \in Nat /\ N - (N - x) = x
    OBVIOUS
  <2>2. N - x \in Gaps
    BY <2>1
  <2> QED
    BY <1>2, <2>1, <2>2
<1> QED
  BY <1>3, <1>4 DEF Max

LEMMA OnlyElement ==
  ASSUME NEW m \in Nat
  PROVE  Max({m}) = m /\ Min({m}) = m
BY DEF Max, Min

LEMMA MinExists ==
  ASSUME NEW T \in SUBSET Nat, T # {}
  PROVE  Min(T) \in T
BY LeastExists DEF Min

-----------------------------------------------------------------------------
(* The Blueprints once they are built *)
LEMMA BlueprintFacts ==
  ASSUME TypeOK, BuildInv, stage # "build"
  PROVE  /\ Len(blueprints) \in Nat \ {0}
         /\ Indices = 1 .. Len(blueprints)
         /\ next \in Indices
         /\ \A b \in Indices : Name(b) \in Nodes /\ Name(b) \in Named
         /\ \A b \in Indices : DOMAIN blueprints[b].lists = Keywords
         /\ \A k \in Keywords : Side[k] \in Sides
         /\ \A b \in Indices, k \in Keywords : blueprints[b].lists[k] \subseteq Names
<1>1. document \in Documents /\ blueprints = Built(document) /\ next \in Indices
  BY DEF TypeOK, BuildInv
<1>2. /\ Len(blueprints) \in Nat \ {0}
      /\ DOMAIN blueprints = 1 .. Len(blueprints)
      /\ \A k \in DOMAIN Side : Side[k] \in Sides
      /\ \A b \in DOMAIN blueprints :
           /\ blueprints[b].name \in Nodes
           /\ DOMAIN blueprints[b].lists = DOMAIN blueprints[1].lists
           /\ DOMAIN blueprints[b].lists \subseteq DOMAIN Side
           /\ \A k \in DOMAIN blueprints[b].lists : blueprints[b].lists[k] \subseteq Names
  BY <1>1, GeneratorAssumption
<1>3. 1 \in DOMAIN blueprints
  BY <1>2
<1>4. Keywords = DOMAIN blueprints[1].lists
  BY <1>2, <1>3 DEF Keywords, Indices
<1> QED
  BY <1>1, <1>2, <1>3, <1>4 DEF Indices, Name, Named

LEMMA NamedFacts ==
  ASSUME TypeOK, BuildInv
  PROVE  /\ Named \subseteq Nodes
         /\ \A n \in Named : ByName(n) \in Indices /\ Name(ByName(n)) = n
<1>1. CASE stage = "build"
  <2>1. Indices = {}
    BY <1>1, EmptySeq DEF BuildInv, Indices
  <2> QED
    BY <2>1 DEF Named
<1>2. CASE stage # "build"
  <2>1. /\ Len(blueprints) \in Nat /\ Indices = 1 .. Len(blueprints)
        /\ \A b \in Indices : Name(b) \in Nodes
    BY <1>2, BlueprintFacts
  <2>2. ASSUME NEW n \in Named
        PROVE  ByName(n) \in Indices /\ Name(ByName(n)) = n
    <3> DEFINE T == {b \in Indices : Name(b) = n}
    <3>1. T \in SUBSET (1 .. Len(blueprints)) /\ T # {}
      BY <2>1 DEF Named
    <3>2. Max(T) \in T
      BY <2>1, <3>1, MaxExists
    <3> QED
      BY <3>2 DEF ByName
  <2> QED
    BY <2>1, <2>2 DEF Named
<1> QED
  BY <1>1, <1>2

(* When names are used once, a name's Blueprint is the same for all. *)
LEMMA UniqueNames ==
  ASSUME TypeOK, BuildInv, stage # "build", Unique, NEW b \in Indices
  PROVE  /\ {c \in Indices : Name(c) = Name(b)} = {b}
         /\ ByName(Name(b)) = b /\ Latest(b)
         /\ Found(Name(b)) = {b} /\ Min(Found(Name(b))) = b
<1>1. {c \in Indices : Name(c) = Name(b)} = {b}
  BY DEF Unique
<1>2. b \in Nat
  BY BlueprintFacts
<1> QED
  BY <1>1, <1>2, OnlyElement DEF ByName, Latest, Found

LEMMA FinalFacts ==
  ASSUME TypeOK, BuildInv, NEW k \in Keywords, NEW s \in Sides
  PROVE  /\ \A b \in Indices : Own(b, k, s) \subseteq Names
         /\ \A n \in Named : Final(k, n, s) \subseteq Names
<1>1. CASE stage = "build"
  <2>1. Indices = {}
    BY <1>1, EmptySeq DEF BuildInv, Indices
  <2> QED
    BY <2>1 DEF Named
<1>2. CASE stage # "build"
  <2>1. \A b \in Indices : Own(b, k, s) \subseteq Names
    BY <1>2, BlueprintFacts DEF Own
  <2> QED
    BY <2>1, NamedFacts, CycleCheckAssumption DEF Final
<1> QED
  BY <1>1, <1>2

(* What only depends on the Blueprints stays as it is while they do. *)
LEMMA Static ==
  ASSUME UNCHANGED built
  PROVE  /\ Indices' = Indices /\ Keywords' = Keywords /\ Named' = Named
         /\ \A b : Name(b)' = Name(b) /\ Latest(b)' = Latest(b)
         /\ \A n : ByName(n)' = ByName(n) /\ Found(n)' = Found(n)
         /\ \A b, k, s : Own(b, k, s)' = Own(b, k, s)
         /\ \A k, n, s : Final(k, n, s)' = Final(k, n, s)
         /\ Unique' = Unique
<1>1. /\ Indices' = Indices /\ Keywords' = Keywords
      /\ \A b : Name(b)' = Name(b)
      /\ \A b, k, s : Own(b, k, s)' = Own(b, k, s)
  BY DEF built, Indices, Keywords, Name, Own
<1>2. Named' = Named /\ \A n : ByName(n)' = ByName(n) /\ Found(n)' = Found(n)
  BY <1>1 DEF Named, ByName, Found
<1>3. /\ \A b : Latest(b)' = Latest(b)
      /\ \A k, n, s : Final(k, n, s)' = Final(k, n, s)
      /\ Unique' = Unique
  BY <1>1, <1>2 DEF Latest, Final, Unique
<1> QED
  BY <1>1, <1>2, <1>3

LEMMA MappingFacts ==
  ASSUME TypeOK, BuildInv, stage # "build",
         NEW b \in Indices, NEW k \in Keywords, NEW s \in Sides
  PROVE  /\ mapping[b][k] \in Mapping
         /\ mapping[b][k][s] \subseteq Names
         /\ Opposite(s) \in Sides
BY DEF TypeOK, Mapping, Opposite, Sides

LEMMA MakeMappingFacts ==
  ASSUME NEW k, NEW values, NEW s \in Sides
  PROVE  MakeMapping(k, values)[s] = IF s = Side[k] THEN values ELSE {}
BY DEF MakeMapping, NoPeers

-----------------------------------------------------------------------------
(* As long as nothing has been searched, the graph may still grow. *)
LEMMA NothingSearched ==
  /\ CheckTypeOK /\ Untouched
  /\ \A n \in Nodes : n \in Named \/ stage = "build" \/ adjacency[n] = {}
  => Inv
<1> SUFFICES ASSUME CheckTypeOK, Untouched,
                    \A n \in Nodes : n \in Named \/ stage = "build" \/ adjacency[n] = {}
             PROVE  Inv
  OBVIOUS
<1>1. /\ path = << >> /\ verdict = "searching"
      /\ \A n \in Nodes : looked[n] = {}
      /\ \A n \in Nodes : color[n] # "GRAY"
      /\ \A n \in Nodes : color[n] = "BLACK" => adjacency[n] = {}
  BY DEF Untouched
<1>2. DOMAIN path = {} /\ Len(path) = 0
  BY <1>1, EmptySeq
<1>3. PathIsGray /\ Walk(path) /\ Behind
  BY <1>1, <1>2 DEF PathIsGray, Walk, Behind
<1>4. BlackClosed /\ BlackAcyclic
  BY <1>1 DEF BlackClosed, BlackAcyclic, Cyclic, Colored
<1>5. CycleIsReal
  BY <1>1 DEF CycleIsReal
<1> QED
  BY <1>1, <1>3, <1>4, <1>5 DEF Inv, SearchInv

LEMMA GraphInit == Init => GraphInv
<1> SUFFICES ASSUME Init PROVE GraphInv
  OBVIOUS
<1>1. /\ document \in Documents /\ blueprints = << >> /\ stage = "build" /\ next = 1
      /\ pending = {} /\ mapping = << >> /\ pointers = << >>
      /\ files = [n \in Nodes |-> NoRelations] /\ adjacency = [n \in Nodes |-> {}]
      /\ Fresh
  BY DEF Init
<1>2. Indices = {} /\ Named = {} /\ Keywords = {} /\ Len(blueprints) = 0
  BY <1>1, EmptySeq DEF Indices, Named, Keywords
<1>3. CheckTypeOK
  BY <1>1, EmptySeq DEF CheckTypeOK, Fresh
<1>4. TypeOK
  <2>1. << >> \in [{} -> [Keywords -> Mapping]]
        /\ << >> \in [{} -> [Keywords -> [Sides -> SUBSET Indices]]]
    OBVIOUS
  <2>2. files \in [Nodes -> Relations]
    BY <1>1 DEF Relations, NoRelations
  <2> QED
    BY <1>1, <1>2, <1>3, <2>1, <2>2 DEF TypeOK, Stages
<1>5. Untouched
  BY <1>1 DEF Untouched, Fresh
<1>6. Inv
  BY <1>1, <1>3, <1>5, NothingSearched
<1>7. AdjacencyInv
  BY <1>1, <1>2 DEF AdjacencyInv
<1>8. BuildInv /\ MapInv /\ StageInv /\ FilesInv /\ ReadInv /\ PointersInv /\ RejectedInv
  BY <1>1, <1>2, <1>5 DEF BuildInv, MapInv, StageInv, FilesInv, ReadInv, PointersInv,
                          RejectedInv
<1> QED
  BY <1>4, <1>6, <1>7, <1>8 DEF GraphInv

LEMMA SearchUnchanged == ASSUME Inv, UNCHANGED checkVars PROVE Inv'
BY StepKeeps

-----------------------------------------------------------------------------
LEMMA BuildStep == ASSUME GraphInv, Build PROVE GraphInv'
<1> USE DEF GraphInv
<1>1. /\ stage = "build" /\ stage' = "reconcile" /\ blueprints' = Built(document)
      /\ pending' = Keywords' /\ document' = document
      /\ UNCHANGED <<next, files, adjacency, path, looked, verdict, found>>
      /\ color' = [n \in Nodes |-> IF n \in Named' THEN "WHITE" ELSE "BLACK"]
  BY DEF Build
<1>2. /\ mapping' = [b \in Indices' |-> [k \in Keywords' |->
                       MakeMapping(k, blueprints'[b].lists[k])]]
      /\ pointers' = [b \in Indices' |-> [k \in Keywords' |-> NoPeers]]
  BY DEF Build
<1>3. document \in Documents
  BY DEF TypeOK
<1>4. /\ Len(blueprints') \in Nat \ {0} /\ Indices' = 1 .. Len(blueprints')
      /\ \A b \in Indices', k \in Keywords' : /\ Side[k] \in Sides
                                              /\ blueprints'[b].lists[k] \subseteq Names
  <2>1. /\ Len(blueprints') \in Nat \ {0}
        /\ DOMAIN blueprints' = 1 .. Len(blueprints')
        /\ \A k \in DOMAIN Side : Side[k] \in Sides
        /\ \A b \in DOMAIN blueprints' :
             /\ DOMAIN blueprints'[b].lists = DOMAIN blueprints'[1].lists
             /\ DOMAIN blueprints'[b].lists \subseteq DOMAIN Side
             /\ \A k \in DOMAIN blueprints'[b].lists :
                  blueprints'[b].lists[k] \subseteq Names
    BY <1>1, <1>3, GeneratorAssumption
  <2>2. Keywords' = DOMAIN blueprints'[1].lists
    BY <2>1 DEF Keywords, Indices
  <2> QED
    BY <2>1, <2>2 DEF Indices
<1>5. next = 1
  BY <1>1, EmptySeq DEF BuildInv, TypeOK
<1>6. BuildInv'
  BY <1>1, <1>4, <1>5 DEF BuildInv
<1>7. \A b \in Indices', k \in Keywords' :
        /\ mapping'[b][k] = MakeMapping(k, blueprints'[b].lists[k])
        /\ MakeMapping(k, blueprints'[b].lists[k]) \in Mapping
  BY <1>2, <1>4 DEF MakeMapping, NoPeers, Mapping
<1>8. CheckTypeOK'
  BY <1>1 DEF TypeOK, CheckTypeOK
<1>9. TypeOK'
  <2>1. mapping' \in [Indices' -> [Keywords' -> Mapping]]
    BY <1>2, <1>7
  <2>2. pointers' \in [Indices' -> [Keywords' -> [Sides -> SUBSET Indices']]]
    BY <1>2 DEF NoPeers
  <2>3. next' \in 1 .. Len(blueprints') + 1
    BY <1>1, <1>4, <1>5
  <2> QED
    BY <1>1, <1>8, <2>1, <2>2, <2>3 DEF TypeOK, Stages
<1>10. MapInv'
  <2>1. ASSUME NEW b \in Indices', NEW k \in Keywords', NEW s \in Sides
        PROVE  mapping'[b][k][s] = Own(b, k, s)'
    <3>1. mapping'[b][k][s] = IF s = Side[k] THEN blueprints'[b].lists[k] ELSE {}
      BY <1>7, MakeMappingFacts
    <3> QED
      BY <3>1 DEF Own
  <2>2. \A k \in Keywords' : ~Reconciled(k)'
    BY <1>1 DEF Reconciled
  <2> QED
    BY <2>1, <2>2 DEF MapInv
<1>11. Joined = {} /\ Joined' = {}
  BY <1>1 DEF Joined
<1>12. \A n \in Nodes : adjacency[n] = {}
  BY <1>11 DEF AdjacencyInv
<1>13. AdjacencyInv'
  BY <1>1, <1>11, <1>12 DEF AdjacencyInv
<1>14. Untouched'
  BY <1>1 DEF StageInv, Untouched
<1>15. Inv'
  <2>1. (/\ CheckTypeOK /\ Untouched
         /\ \A n \in Nodes : n \in Named \/ stage = "build" \/ adjacency[n] = {}
         => Inv)'
    BY NothingSearched, PTL
  <2> QED
    BY <1>1, <1>8, <1>12, <1>14, <2>1
<1>16. StageInv' /\ FilesInv' /\ ReadInv' /\ PointersInv' /\ RejectedInv'
  BY <1>1, <1>5, <1>14 DEF StageInv, FilesInv, Emitted, ReadInv, PointersInv, Resolved,
                           RejectedInv
<1> QED
  BY <1>6, <1>9, <1>10, <1>13, <1>15, <1>16

LEMMA ReconcileStep == ASSUME GraphInv, NEW k \in Keywords, Reconcile(k) PROVE GraphInv'
<1> USE DEF GraphInv
<1>1. /\ stage = "reconcile" /\ k \in pending
      /\ UNCHANGED <<built, next, files, pointers, checkVars>>
      /\ mapping' = [b \in Indices |->
           IF b = ByName(Name(b))
           THEN [mapping[b] EXCEPT ![k] = [s \in Sides |-> Filled(k, Name(b), s)]]
           ELSE mapping[b]]
      /\ \/ /\ pending \ {k} = {} /\ stage' = "unify" /\ pending' = Keywords
         \/ /\ pending \ {k} # {} /\ stage' = "reconcile" /\ pending' = pending \ {k}
  BY DEF Reconcile
<1>2. /\ Indices' = Indices /\ Keywords' = Keywords /\ Named' = Named
      /\ \A b : Name(b)' = Name(b) /\ Latest(b)' = Latest(b)
      /\ \A b, j, s : Own(b, j, s)' = Own(b, j, s)
      /\ \A j, n, s : Final(j, n, s)' = Final(j, n, s)
      /\ Unique' = Unique
  BY <1>1, Static
<1>3. \A n \in Named, s \in Sides : View(k, n)[s] = Own(ByName(n), k, s)
  BY <1>1, NamedFacts DEF View, MapInv, Reconciled
<1>4. \A n \in Named, s \in Sides : Filled(k, n, s) = Final(k, n, s)
  <2>1. \A s \in Sides : Opposite(s) \in Sides
    BY DEF Opposite, Sides
  <2> QED
    BY <1>3, <2>1 DEF Filled, Final
<1>5. ASSUME NEW b \in Indices
      PROVE  /\ Latest(b) => /\ \A s \in Sides : mapping'[b][k][s] = Final(k, Name(b), s)
                             /\ \A j \in Keywords \ {k} : mapping'[b][j] = mapping[b][j]
             /\ ~Latest(b) => mapping'[b] = mapping[b]
             /\ mapping'[b] \in [Keywords -> Mapping]
  <2>1. mapping[b] \in [Keywords -> Mapping] /\ Name(b) \in Named
    BY <1>1, BlueprintFacts DEF TypeOK
  <2>2. CASE Latest(b)
    <3>1. mapping'[b] = [mapping[b] EXCEPT ![k] = [s \in Sides |-> Filled(k, Name(b), s)]]
      BY <1>1, <2>2 DEF Latest
    <3>2. [s \in Sides |-> Filled(k, Name(b), s)] \in Mapping
      BY <1>4, <2>1, FinalFacts DEF Mapping
    <3>3. mapping'[b] \in [Keywords -> Mapping]
      BY <2>1, <3>1, <3>2
    <3>4. \A s \in Sides : mapping'[b][k][s] = Final(k, Name(b), s)
      BY <1>4, <2>1, <3>1
    <3> QED
      BY <2>1, <2>2, <3>1, <3>3, <3>4
  <2>3. CASE ~Latest(b)
    BY <1>1, <2>1, <2>3 DEF Latest
  <2> QED
    BY <2>2, <2>3
<1>6. TypeOK'
  <2>1. mapping' \in [Indices' -> [Keywords' -> Mapping]]
    BY <1>1, <1>2, <1>5
  <2>2. CheckTypeOK'
    BY <1>1 DEF TypeOK, CheckTypeOK, checkVars, searchVars
  <2>3. pending' \subseteq Keywords' /\ stage' \in Stages
    BY <1>1, <1>2 DEF TypeOK, Stages
  <2> QED
    BY <1>1, <1>2, <2>1, <2>2, <2>3 DEF TypeOK, built
<1>7. BuildInv'
  BY <1>1, <1>2 DEF BuildInv, built
<1>8. MapInv'
  <2> SUFFICES ASSUME NEW b \in Indices, NEW j \in Keywords, NEW s \in Sides
               PROVE  mapping'[b][j][s] = IF Reconciled(j)' /\ Latest(b)
                                            THEN Final(j, Name(b), s) ELSE Own(b, j, s)
    BY <1>2 DEF MapInv
  <2>1. Reconciled(k)'
    BY <1>1 DEF Reconciled
  <2>2. j # k => Reconciled(j)' = Reconciled(j)
    BY <1>1 DEF Reconciled
  <2>3. mapping[b][j][s] = IF Reconciled(j) /\ Latest(b)
                             THEN Final(j, Name(b), s) ELSE Own(b, j, s)
    BY <1>1 DEF MapInv
  <2> QED
    BY <1>5, <2>1, <2>2, <2>3
<1>9. Joined = {} /\ Joined' = {}
  BY <1>1, <1>2 DEF Joined
<1>10. AdjacencyInv'
  BY <1>1, <1>2, <1>9 DEF AdjacencyInv, checkVars
<1>11. StageInv'
  BY <1>1, <1>2 DEF StageInv, Untouched, checkVars, searchVars
<1>12. Inv'
  BY <1>1, SearchUnchanged
<1>13. FilesInv' /\ ReadInv' /\ PointersInv' /\ RejectedInv'
  BY <1>1 DEF FilesInv, Emitted, ReadInv, PointersInv, Resolved, RejectedInv
<1> QED
  BY <1>6, <1>7, <1>8, <1>10, <1>11, <1>12, <1>13

LEMMA UnifyStep == ASSUME GraphInv, NEW k \in Keywords, Unify(k) PROVE GraphInv'
<1> USE DEF GraphInv
<1>1. /\ stage = "unify" /\ k \in pending /\ pending' = pending \ {k}
      /\ adjacency' = Unified(k)
      /\ UNCHANGED <<built, next, mapping, files, pointers, searchVars>>
      /\ stage' = IF pending' = {} THEN "search" ELSE "unify"
  BY DEF Unify
<1>2. /\ Indices' = Indices /\ Keywords' = Keywords /\ Named' = Named
      /\ \A b : Name(b)' = Name(b) /\ Latest(b)' = Latest(b)
      /\ \A b, j, s : Own(b, j, s)' = Own(b, j, s)
      /\ \A j, n, s : Final(j, n, s)' = Final(j, n, s)
      /\ Unique' = Unique
  BY <1>1, Static
<1>3. ASSUME NEW n \in Named PROVE View(k, n)["after"] = Final(k, n, "after")
  <2>1. ByName(n) \in Indices /\ Name(ByName(n)) = n /\ Latest(ByName(n))
    BY NamedFacts DEF Latest
  <2>2. Reconciled(k) /\ "after" \in Sides
    BY <1>1 DEF Reconciled, Sides
  <2> QED
    BY <1>1, <2>1, <2>2 DEF View, MapInv
<1>4. Joined = Keywords \ pending /\ Joined' = Keywords \ pending'
  BY <1>1, <1>2 DEF Joined
<1>5. AdjacencyInv'
  <2> SUFFICES ASSUME NEW n \in Nodes
               PROVE  adjacency'[n] = IF n \in Named
                                        THEN UNION {Final(j, n, "after") : j \in Joined'}
                                        ELSE {}
    BY <1>2 DEF AdjacencyInv
  <2>1. CASE n \notin Named
    BY <1>1, <2>1 DEF Unified, AdjacencyInv
  <2>2. CASE n \in Named
    <3> DEFINE after == UNION {Final(j, n, "after") : j \in Joined}
               after1 == UNION {Final(j, n, "after") : j \in Joined'}
    <3>1. adjacency[n] = after
      BY <2>2 DEF AdjacencyInv
    <3>2. adjacency'[n] = adjacency[n] \cup Final(k, n, "after")
      BY <1>1, <1>3, <2>2 DEF Unified
    <3>3. Joined' = Joined \cup {k}
      BY <1>1, <1>4
    <3>4. after1 = after \cup Final(k, n, "after")
      BY <3>3, Zenon
    <3> HIDE DEF after, after1
    <3>5. adjacency'[n] = after1
      BY <3>1, <3>2, <3>4
    <3> QED
      BY <2>2, <3>5 DEF after1
  <2> QED
    BY <2>1, <2>2
<1>6. CheckTypeOK'
  <2>1. \A n \in Nodes : adjacency'[n] \subseteq Names
    BY <1>3, <1>1, FinalFacts DEF Unified, TypeOK, CheckTypeOK, Sides
  <2>2. adjacency' \in [Nodes -> SUBSET Names]
    BY <1>1, <2>1 DEF Unified
  <2> QED
    BY <1>1, <2>2 DEF TypeOK, CheckTypeOK, searchVars
<1>7. TypeOK'
  BY <1>1, <1>2, <1>6 DEF TypeOK, Stages, built
<1>8. BuildInv'
  BY <1>1, <1>2 DEF BuildInv, built
<1>9. MapInv'
  <2>1. \A j : Reconciled(j) /\ Reconciled(j)'
    BY <1>1 DEF Reconciled
  <2> QED
    BY <1>1, <1>2, <2>1 DEF MapInv
<1>10. Untouched'
  BY <1>1, <1>2 DEF StageInv, Untouched, searchVars
<1>11. StageInv'
  BY <1>1, <1>10 DEF StageInv, Untouched
<1>12. Inv'
  <2>1. (/\ CheckTypeOK /\ Untouched
         /\ \A n \in Nodes : n \in Named \/ stage = "build" \/ adjacency[n] = {}
         => Inv)'
    BY NothingSearched, PTL
  <2>2. \A n \in Nodes : n \in Named' \/ adjacency'[n] = {}
    BY <1>5 DEF AdjacencyInv
  <2> QED
    BY <1>6, <1>10, <2>1, <2>2
<1>13. FilesInv' /\ ReadInv' /\ PointersInv' /\ RejectedInv'
  BY <1>1 DEF FilesInv, Emitted, ReadInv, PointersInv, Resolved, RejectedInv
<1> QED
  BY <1>5, <1>7, <1>8, <1>9, <1>11, <1>12, <1>13

(* The steps that leave Blueprints and mappings as they are, and the graph:  *)
(* what was reconciled and unified stays so.                                *)
LEMMA MappingsKept ==
  ASSUME GraphInv, UNCHANGED <<built, mapping, pending, adjacency>>,
         stage \notin {"build", "reconcile", "unify"},
         stage' \notin {"build", "reconcile", "unify"}
  PROVE  /\ MapInv' /\ AdjacencyInv'
         /\ \A b, s : Gathered(b, s)' = Gathered(b, s)
         /\ \A b : FileOf(b)' = FileOf(b) /\ Written(b)' = Written(b)
<1> USE DEF GraphInv
<1>1. /\ Indices' = Indices /\ Keywords' = Keywords /\ Named' = Named
      /\ \A b : Name(b)' = Name(b) /\ Latest(b)' = Latest(b)
      /\ \A b, j, s : Own(b, j, s)' = Own(b, j, s)
      /\ \A j, n, s : Final(j, n, s)' = Final(j, n, s)
  BY Static
<1>2. /\ \A j : Reconciled(j) /\ Reconciled(j)'
      /\ Joined = Keywords /\ Joined' = Keywords
  BY <1>1 DEF Reconciled, Joined
<1>3. MapInv'
  BY <1>1, <1>2 DEF MapInv
<1>4. AdjacencyInv'
  BY <1>1, <1>2 DEF AdjacencyInv
<1>5. /\ \A b, s : Gathered(b, s)' = Gathered(b, s)
      /\ \A b : Written(b)' = Written(b)
  BY <1>1 DEF Gathered, Written
<1>6. \A b : FileOf(b)' = FileOf(b)
  BY <1>1, <1>5 DEF FileOf
<1> QED
  BY <1>3, <1>4, <1>5, <1>6

LEMMA SearchStep == ASSUME GraphInv, Search PROVE GraphInv'
<1> USE DEF GraphInv
<1>1. /\ stage = "search" /\ CheckNext
      /\ stage' = IF verdict' = "acyclic" THEN "emit" ELSE "search"
      /\ UNCHANGED <<built, next, pending, mapping, files, pointers>>
  BY DEF Search
<1>2. Inv'
  BY <1>1, StepKeeps
<1>3. adjacency' = adjacency
  BY <1>1 DEF CheckNext, Root, Leave, Skip, Descend, Report, Accept
<1>4. /\ Indices' = Indices /\ Keywords' = Keywords /\ Named' = Named /\ Unique' = Unique
  BY <1>1, Static
<1>5. TypeOK'
  BY <1>1, <1>2, <1>4 DEF TypeOK, Stages, built, Inv
<1>6. BuildInv' /\ StageInv'
  BY <1>1, <1>4 DEF BuildInv, StageInv, built
<1>7. MapInv' /\ AdjacencyInv'
  BY <1>1, <1>3, MappingsKept
<1>8. FilesInv'
  <2>1. next' = 1 /\ Indices = 1 .. Len(blueprints) /\ Len(blueprints) \in Nat
    BY <1>1, BlueprintFacts DEF StageInv
  <2>2. \A b \in Indices : ~Emitted(b)'
    BY <1>1, <2>1 DEF Emitted
  <2> QED
    BY <1>4, <2>2 DEF FilesInv
<1>9. ReadInv' /\ PointersInv' /\ RejectedInv'
  BY <1>1 DEF ReadInv, PointersInv, Resolved, RejectedInv
<1> QED
  BY <1>2, <1>5, <1>6, <1>7, <1>8, <1>9

-----------------------------------------------------------------------------
(* The loops over the Blueprints *)
LEMMA GoesFacts ==
  ASSUME TypeOK, BuildInv, stage # "build", NEW this, NEW following,
         Goes(next, this, following)
  PROVE  /\ next \in Indices /\ next' \in Indices
         /\ \/ /\ stage' = this /\ next' = next + 1
               /\ \A b \in Indices : b < next' <=> b <= next
            \/ stage' = following /\ next' = 1 /\ \A b \in Indices : b <= next
         /\ \A b \in Indices : b \in Nat /\ b >= 1
<1>1. /\ Len(blueprints) \in Nat \ {0} /\ Indices = 1 .. Len(blueprints)
      /\ next \in Indices
  BY BlueprintFacts
<1>2. CASE next < Len(blueprints)
  <2>1. stage' = this /\ next' = next + 1
    BY <1>2 DEF Goes
  <2> QED
    BY <1>1, <1>2, <2>1
<1>3. CASE ~(next < Len(blueprints))
  <2>1. stage' = following /\ next' = 1
    BY <1>3 DEF Goes
  <2> QED
    BY <1>1, <1>3, <2>1
<1> QED
  BY <1>2, <1>3

(* In the stages after the search the graph and its mappings are settled. *)
LEMMA AfterSearch ==
  ASSUME GraphInv, UNCHANGED <<built, pending, mapping, checkVars>>,
         stage \in {"emit", "read", "resolve"},
         stage' \in {"emit", "read", "resolve", "accepted", "rejected"},
         next' \in Indices,
         files' \in [Nodes -> Relations],
         pointers' \in [Indices -> [Keywords -> [Sides -> SUBSET Indices]]]
  PROVE  /\ TypeOK' /\ Inv' /\ BuildInv' /\ MapInv' /\ AdjacencyInv' /\ StageInv'
         /\ Indices' = Indices /\ Keywords' = Keywords /\ Named' = Named
         /\ Unique' = Unique
         /\ \A b : /\ Name(b)' = Name(b) /\ FileOf(b)' = FileOf(b)
                   /\ Written(b)' = Written(b)
         /\ \A n : Found(n)' = Found(n)
<1> USE DEF GraphInv
<1>1. /\ Indices' = Indices /\ Keywords' = Keywords /\ Named' = Named
      /\ Unique' = Unique /\ \A b : Name(b)' = Name(b) /\ \A n : Found(n)' = Found(n)
  BY Static
<1>2. adjacency' = adjacency /\ UNCHANGED searchVars
  BY DEF checkVars
<1>3. /\ MapInv' /\ AdjacencyInv'
      /\ \A b : FileOf(b)' = FileOf(b) /\ Written(b)' = Written(b)
  BY <1>2, MappingsKept
<1>4. Inv'
  BY SearchUnchanged
<1>5. BuildInv'
  BY <1>1 DEF BuildInv, built
<1>6. StageInv'
  BY <1>2 DEF StageInv, searchVars
<1>7. TypeOK'
  <2>1. Indices = 1 .. Len(blueprints) /\ Len(blueprints) \in Nat
    BY BlueprintFacts
  <2>2. next' \in 1 .. Len(blueprints) + 1
    BY <2>1
  <2>3. CheckTypeOK' /\ stage' \in Stages
    BY <1>4 DEF Inv, Stages
  <2> QED
    BY <1>1, <2>2, <2>3 DEF TypeOK, built
<1> QED
  BY <1>1, <1>3, <1>4, <1>5, <1>6, <1>7

LEMMA EmitStep == ASSUME GraphInv, Emit PROVE GraphInv'
<1> USE DEF GraphInv
<1>1. /\ stage = "emit" /\ Goes(next, "emit", "read")
      /\ UNCHANGED <<built, pending, mapping, pointers, checkVars>>
      /\ files' = [files EXCEPT ![Name(next)] = FileOf(next)]
  BY DEF Emit, FileOf
<1>2. /\ next \in Indices /\ next' \in Indices
      /\ \/ /\ stage' = "emit" /\ next' = next + 1
            /\ \A b \in Indices : b < next' <=> b <= next
         \/ stage' = "read" /\ next' = 1 /\ \A b \in Indices : b <= next
      /\ \A b \in Indices : b \in Nat /\ b >= 1
  BY <1>1, GoesFacts
<1>3. FileOf(next) \in Relations
  <2>1. \A s \in Sides : Gathered(next, s) \cap Named \subseteq Names
    BY NamedFacts, CycleCheckAssumption
  <2> QED
    BY <2>1 DEF FileOf, Relations, Sides
<1>4. files \in [Nodes -> Relations] /\ files' \in [Nodes -> Relations]
  BY <1>1, <1>3 DEF TypeOK
<1>5. pointers' \in [Indices -> [Keywords -> [Sides -> SUBSET Indices]]]
  BY <1>1 DEF TypeOK
<1>6. /\ TypeOK' /\ Inv' /\ BuildInv' /\ MapInv' /\ AdjacencyInv' /\ StageInv'
      /\ Indices' = Indices /\ Unique' = Unique
      /\ \A b : Name(b)' = Name(b) /\ FileOf(b)' = FileOf(b)
  BY <1>1, <1>2, <1>4, <1>5, AfterSearch
<1>7. FilesInv'
  <2> SUFFICES ASSUME Unique, NEW b \in Indices, Emitted(b)'
               PROVE  files'[Name(b)] = FileOf(b)
    BY <1>6 DEF FilesInv
  <2>1. Name(b) \in Nodes
    BY <1>1, BlueprintFacts
  <2>2. CASE b = next
    BY <1>1, <1>4, <2>1, <2>2
  <2>3. CASE b # next
    <3>1. b <= next
      BY <1>1, <1>2 DEF Emitted
    <3>2. Emitted(b)
      BY <1>1, <1>2, <2>3, <3>1 DEF Emitted
    <3>3. Name(b) # Name(next)
      BY <1>2, <2>3 DEF Unique
    <3> QED
      BY <1>1, <1>4, <2>1, <3>2, <3>3 DEF FilesInv
  <2> QED
    BY <2>2, <2>3
<1>8. ReadInv' /\ PointersInv' /\ RejectedInv'
  BY <1>1, <1>2, <1>6 DEF ReadInv, PointersInv, Resolved, RejectedInv
<1> QED
  BY <1>6, <1>7, <1>8

LEMMA ReadInstanceStep == ASSUME GraphInv, ReadInstance PROVE GraphInv'
<1> USE DEF GraphInv
<1>1. /\ stage = "read" /\ Goes(next, "read", "resolve") /\ ~Duplicate(next)
      /\ UNCHANGED <<built, pending, mapping, files, pointers, checkVars>>
  BY DEF ReadInstance
<1>2. /\ next \in Indices /\ next' \in Indices
      /\ \/ /\ stage' = "read" /\ next' = next + 1
            /\ \A b \in Indices : b < next' <=> b <= next
         \/ stage' = "resolve" /\ next' = 1 /\ \A b \in Indices : b <= next
      /\ \A b \in Indices : b \in Nat /\ b >= 1
  BY <1>1, GoesFacts
<1>3. /\ TypeOK' /\ Inv' /\ BuildInv' /\ MapInv' /\ AdjacencyInv' /\ StageInv'
      /\ Indices' = Indices /\ Unique' = Unique
      /\ \A b : Name(b)' = Name(b) /\ FileOf(b)' = FileOf(b)
  BY <1>1, <1>2, AfterSearch DEF TypeOK
<1>4. ASSUME NEW b \in Indices, NEW c \in Indices, b <= next, c <= next,
             Name(b) = Name(c)
      PROVE  b = c
  <2>1. \A d \in Indices : d < next => Name(d) # Name(next)
    BY <1>1, <1>2 DEF Duplicate
  <2> QED
    BY <1>1, <1>2, <1>4, <2>1 DEF ReadInv
<1>5. ReadInv'
  BY <1>2, <1>3, <1>4 DEF ReadInv, Unique
<1>6. FilesInv'
  BY <1>1, <1>2, <1>3 DEF FilesInv, Emitted
<1>7. PointersInv' /\ RejectedInv'
  BY <1>1, <1>2, <1>3 DEF PointersInv, Resolved, RejectedInv
<1> QED
  BY <1>3, <1>5, <1>6, <1>7

LEMMA ResolveStep == ASSUME GraphInv, Resolve PROVE GraphInv'
<1> USE DEF GraphInv
<1> DEFINE Targets(k, s) == {Min(Found(n)) : n \in mapping[next][k][s]}
<1>1. /\ stage = "resolve" /\ Goes(next, "resolve", "accepted")
      /\ Written(next) \subseteq Named
      /\ UNCHANGED <<built, pending, mapping, files, checkVars>>
      /\ pointers' = [pointers EXCEPT ![next] =
                        [k \in Keywords |-> [s \in Sides |-> Targets(k, s)]]]
  BY DEF Resolve
<1>2. /\ next \in Indices /\ next' \in Indices
      /\ \/ /\ stage' = "resolve" /\ next' = next + 1
            /\ \A b \in Indices : b < next' <=> b <= next
         \/ stage' = "accepted" /\ next' = 1 /\ \A b \in Indices : b <= next
      /\ \A b \in Indices : b \in Nat /\ b >= 1
  BY <1>1, GoesFacts
<1>3. ASSUME NEW k \in Keywords, NEW s \in Sides PROVE Targets(k, s) \subseteq Indices
  <2>1. ASSUME NEW n \in mapping[next][k][s] PROVE Min(Found(n)) \in Indices
    <3>1. n \in Named
      BY <1>1, <2>1 DEF Written
    <3>2. Found(n) \in SUBSET Nat /\ Found(n) # {} /\ Found(n) \subseteq Indices
      BY <1>2, <3>1 DEF Found, Named
    <3> QED
      BY <3>2, MinExists
  <2> QED
    BY <2>1
<1>4. [k \in Keywords |-> [s \in Sides |-> Targets(k, s)]]
        \in [Keywords -> [Sides -> SUBSET Indices]]
  BY <1>3
<1> HIDE DEF Targets
<1>5. /\ pointers' \in [Indices -> [Keywords -> [Sides -> SUBSET Indices]]]
      /\ \A b \in Indices \ {next} : pointers'[b] = pointers[b]
      /\ \A k \in Keywords, s \in Sides : pointers'[next][k][s] = Targets(k, s)
  BY <1>1, <1>2, <1>4 DEF TypeOK
<1>6. /\ TypeOK' /\ Inv' /\ BuildInv' /\ MapInv' /\ AdjacencyInv' /\ StageInv'
      /\ Indices' = Indices /\ Keywords' = Keywords /\ Named' = Named
      /\ Unique' = Unique
      /\ \A b : Name(b)' = Name(b) /\ FileOf(b)' = FileOf(b) /\ Written(b)' = Written(b)
      /\ \A n : Found(n)' = Found(n)
  BY <1>1, <1>2, <1>5, AfterSearch DEF TypeOK
<1>7. PointersInv'
  <2> SUFFICES ASSUME NEW b \in Indices, Resolved(b)'
               PROVE  /\ Written(b) \subseteq Named
                      /\ \A k \in Keywords, s \in Sides :
                           pointers'[b][k][s] = {Min(Found(n)) : n \in mapping[b][k][s]}
    BY <1>1, <1>6 DEF PointersInv
  <2>1. CASE b = next
    BY <1>1, <1>5, <2>1 DEF Targets
  <2>2. CASE b # next
    <3>1. b <= next
      BY <1>1, <1>2 DEF Resolved
    <3>2. Resolved(b)
      BY <1>1, <1>2, <2>2, <3>1 DEF Resolved
    <3> QED
      BY <1>5, <2>2, <3>2 DEF PointersInv
  <2> QED
    BY <2>1, <2>2
<1>8. ReadInv' /\ FilesInv' /\ RejectedInv'
  BY <1>1, <1>2, <1>6 DEF ReadInv, FilesInv, Emitted, RejectedInv
<1> QED
  BY <1>6, <1>7, <1>8

(* A name that no Blueprint has, was listed by one of them. *)
LEMMA ListedUnknown ==
  ASSUME TypeOK, BuildInv, MapInv, stage = "resolve", NEW b \in Indices,
         ~ Written(b) \subseteq Named
  PROVE  \E c \in Indices, k \in Keywords : ~ blueprints[c].lists[k] \subseteq Named
<1>1. PICK k \in Keywords, s \in Sides : ~ mapping[b][k][s] \subseteq Named
  BY DEF Written
<1>2. PICK n \in mapping[b][k][s] : n \notin Named
  BY <1>1
<1>3. ByName(Name(b)) \in Indices
  BY BlueprintFacts, NamedFacts
<1>4. n \in Own(b, k, s) \/ n \in Own(ByName(Name(b)), k, s)
  BY <1>1, <1>2 DEF MapInv, Final
<1> QED
  BY <1>1, <1>2, <1>3, <1>4 DEF Own

LEMMA RejectStep == ASSUME GraphInv, RejectDuplicate \/ RejectUnknown PROVE GraphInv'
<1> USE DEF GraphInv
<1>1. /\ stage \in {"read", "resolve"} /\ stage' = "rejected"
      /\ UNCHANGED <<built, next, pending, mapping, files, pointers, checkVars>>
  BY DEF RejectDuplicate, RejectUnknown
<1>2. next \in Indices /\ Indices = 1 .. Len(blueprints) /\ Len(blueprints) \in Nat
  BY <1>1, BlueprintFacts
<1>3. /\ TypeOK' /\ Inv' /\ BuildInv' /\ MapInv' /\ AdjacencyInv' /\ StageInv'
      /\ Indices' = Indices /\ Keywords' = Keywords /\ Named' = Named
      /\ Unique' = Unique
      /\ \A b : Name(b)' = Name(b) /\ FileOf(b)' = FileOf(b)
  BY <1>1, <1>2, AfterSearch DEF TypeOK
<1>4. RejectedInv'
  <2>1. CASE RejectDuplicate
    <3>1. PICK c \in 1 .. next - 1 : Name(c) = Name(next)
      BY <2>1 DEF RejectDuplicate, Duplicate
    <3>2. c \in Indices /\ c # next
      BY <1>2, <3>1
    <3> QED
      BY <1>2, <1>3, <3>1, <3>2 DEF RejectedInv, Unique
  <2>2. CASE RejectUnknown
    <3>1. \E c \in Indices, k \in Keywords : ~ blueprints[c].lists[k] \subseteq Named
      BY <1>2, <2>2, ListedUnknown DEF RejectUnknown
    <3> QED
      BY <1>1, <1>3, <3>1 DEF RejectedInv, built
  <2> QED
    BY <2>1, <2>2
<1>5. FilesInv'
  BY <1>1, <1>3 DEF FilesInv, Emitted
<1>6. ReadInv' /\ PointersInv'
  BY <1>1 DEF ReadInv, PointersInv, Resolved
<1> QED
  BY <1>3, <1>4, <1>5, <1>6

LEMMA GraphStep == GraphInv /\ [Next]_vars => GraphInv'
<1> SUFFICES ASSUME GraphInv, [Next]_vars PROVE GraphInv'
  OBVIOUS
<1>1. CASE Build
  BY <1>1, BuildStep
<1>2. CASE \E k \in Keywords : Reconcile(k)
  BY <1>2, ReconcileStep
<1>3. CASE \E k \in Keywords : Unify(k)
  BY <1>3, UnifyStep
<1>4. CASE Search
  BY <1>4, SearchStep
<1>5. CASE Emit
  BY <1>5, EmitStep
<1>6. CASE ReadInstance
  BY <1>6, ReadInstanceStep
<1>7. CASE Resolve
  BY <1>7, ResolveStep
<1>8. CASE RejectDuplicate \/ RejectUnknown
  BY <1>8, RejectStep
<1>9. CASE Ended \/ UNCHANGED vars
  <2>1. UNCHANGED <<built, stage, next, pending, mapping, files, pointers, checkVars>>
    BY <1>9 DEF Ended, vars
  <2>2. /\ Indices' = Indices /\ Keywords' = Keywords /\ Named' = Named
        /\ Unique' = Unique
        /\ \A b : Name(b)' = Name(b) /\ Latest(b)' = Latest(b)
        /\ \A n : Found(n)' = Found(n)
        /\ \A b, j, s : Own(b, j, s)' = Own(b, j, s)
        /\ \A j, n, s : Final(j, n, s)' = Final(j, n, s)
    BY <2>1, Static
  <2>3. /\ Joined' = Joined
        /\ \A b : /\ Reconciled(b)' = Reconciled(b) /\ Emitted(b)' = Emitted(b)
                  /\ Resolved(b)' = Resolved(b)
    BY <2>1, <2>2 DEF Joined, Reconciled, Emitted, Resolved
  <2>4. \A b, s : Gathered(b, s)' = Gathered(b, s) /\ Written(b)' = Written(b)
    BY <2>1, <2>2 DEF Gathered, Written
  <2>5. \A b : FileOf(b)' = FileOf(b)
    BY <2>2, <2>4 DEF FileOf
  <2>6. Inv'
    BY <2>1, SearchUnchanged DEF GraphInv
  <2>7. TypeOK'
    BY <2>1, <2>2, <2>6 DEF GraphInv, Inv, TypeOK, built
  <2>8. BuildInv' /\ MapInv' /\ AdjacencyInv'
    BY <2>1, <2>2, <2>3 DEF GraphInv, built, BuildInv, MapInv, AdjacencyInv, checkVars
  <2>9. StageInv' /\ FilesInv' /\ ReadInv' /\ PointersInv' /\ RejectedInv'
    BY <2>1, <2>2, <2>3, <2>4, <2>5
       DEF GraphInv, built, StageInv, Untouched, FilesInv, ReadInv, PointersInv,
           RejectedInv, checkVars, searchVars
  <2> QED
    BY <2>6, <2>7, <2>8, <2>9 DEF GraphInv
<1> QED
  BY <1>1, <1>2, <1>3, <1>4, <1>5, <1>6, <1>7, <1>8, <1>9 DEF Next

LEMMA GraphAlways == Spec => []GraphInv
BY GraphInit, GraphStep, PTL DEF Spec

-----------------------------------------------------------------------------
(* What the Blueprints of a name list, and what its Blueprint lists *)
LEMMA ListsOwn ==
  ASSUME NEW b \in Indices, NEW s \in Sides, NEW x
  PROVE  /\ (\E k \in Keywords : x \in Own(b, k, s)) => x \in Lists(Name(b), s)
         /\ Unique => (x \in Lists(Name(b), s) <=> \E k \in Keywords : x \in Own(b, k, s))
<1>1. x \in Lists(Name(b), s) <=>
        \E c \in Indices : /\ Name(c) = Name(b)
                           /\ \E k \in Keywords :
                                Side[k] = s /\ x \in blueprints[c].lists[k]
  BY DEF Lists, KeywordsOf
<1>2. \A c \in Indices, k \in Keywords :
        x \in Own(c, k, s) <=> Side[k] = s /\ x \in blueprints[c].lists[k]
  BY DEF Own
<1> QED
  BY <1>1, <1>2 DEF Unique

LEMMA AcceptedFacts ==
  ASSUME GraphInv, stage = "accepted"
  PROVE  /\ Unique /\ verdict = "acyclic"
         /\ \A b \in Indices :
              /\ Written(b) \subseteq Named /\ Name(b) \in Named
              /\ files[Name(b)] = FileOf(b)
              /\ \A k \in Keywords, s \in Sides :
                   /\ mapping[b][k][s] = Final(k, Name(b), s)
                   /\ pointers[b][k][s] = {Min(Found(n)) : n \in mapping[b][k][s]}
<1> USE DEF GraphInv
<1>1. Unique /\ verdict = "acyclic"
  BY DEF ReadInv, StageInv
<1>2. \A b \in Indices : Latest(b)
  BY <1>1, UniqueNames
<1>3. \A k : Reconciled(k)
  BY DEF Reconciled
<1>4. \A b \in Indices : Emitted(b) /\ Resolved(b)
  BY DEF Emitted, Resolved
<1> QED
  BY <1>1, <1>2, <1>3, <1>4 DEF FilesInv, PointersInv, MapInv, Named

(* The peers in the files are those declared from either side. *)
LEMMA AcceptedPeers ==
  ASSUME GraphInv, stage = "accepted", NEW b \in Indices, NEW s \in Sides
  PROVE  /\ Gathered(b, s) \subseteq Named
         /\ Gathered(b, s) = {x \in Named : \/ x \in Lists(Name(b), s)
                                           \/ Name(b) \in Lists(x, Opposite(s))}
<1>1. TypeOK /\ BuildInv /\ stage # "build" /\ Unique /\ Opposite(s) \in Sides
  BY AcceptedFacts DEF GraphInv, Opposite, Sides
<1>2. Gathered(b, s) \subseteq Named
  BY AcceptedFacts DEF Gathered, Written
<1>3. \A x : x \in Gathered(b, s) <=> \E k \in Keywords : x \in Final(k, Name(b), s)
  BY AcceptedFacts DEF Gathered
<1>4. ASSUME NEW x \in Named
      PROVE  x \in Gathered(b, s) <=> \/ x \in Lists(Name(b), s)
                                      \/ Name(b) \in Lists(x, Opposite(s))
  <2>1. PICK c \in Indices : Name(c) = x
    BY DEF Named
  <2>2. ByName(Name(b)) = b /\ ByName(x) = c
    BY <1>1, <2>1, UniqueNames
  <2>3. \A k \in Keywords :
          x \in Final(k, Name(b), s) <=> \/ x \in Own(b, k, s)
                                         \/ Name(b) \in Own(c, k, Opposite(s))
    BY <2>2 DEF Final
  <2>4. /\ x \in Lists(Name(b), s) <=> \E k \in Keywords : x \in Own(b, k, s)
        /\ Name(b) \in Lists(Name(c), Opposite(s)) <=>
             \E k \in Keywords : Name(b) \in Own(c, k, Opposite(s))
    BY <1>1, ListsOwn
  <2> QED
    BY <1>3, <2>1, <2>3, <2>4
<1> QED
  BY <1>2, <1>4

LEMMA EnforcesDeclared == GraphInv => DependenciesEnforced
<1> SUFFICES ASSUME GraphInv, stage = "accepted", NEW n \in Named
             PROVE  /\ files[n].after = Declared(n)
                    /\ files[n].before = {m \in Named : n \in Declared(m)}
  BY DEF DependenciesEnforced
<1>1. PICK b \in Indices : Name(b) = n
  BY DEF Named
<1>2. /\ "after" \in Sides /\ "before" \in Sides
      /\ Opposite("after") = "before" /\ Opposite("before") = "after"
  BY DEF Sides, Opposite
<1>3. /\ Gathered(b, "after") =
           {x \in Named : x \in Lists(n, "after") \/ n \in Lists(x, "before")}
      /\ Gathered(b, "before") =
           {x \in Named : x \in Lists(n, "before") \/ n \in Lists(x, "after")}
      /\ Gathered(b, "after") \cap Named = Gathered(b, "after")
      /\ Gathered(b, "before") \cap Named = Gathered(b, "before")
  BY <1>1, <1>2, AcceptedPeers
<1>4. files[n].after = Gathered(b, "after") /\ files[n].before = Gathered(b, "before")
  <2>1. files[n] = FileOf(b)
    BY <1>1, AcceptedFacts
  <2> QED
    BY <1>3, <2>1 DEF FileOf
<1>5. Lists(n, "after") \subseteq Named
  <2>1. ASSUME NEW x \in Lists(n, "after") PROVE x \in Named
    <3>1. Unique
      BY AcceptedFacts
    <3>2. PICK k \in Keywords : x \in Own(b, k, "after")
      BY <1>1, <1>2, <2>1, <3>1, ListsOwn
    <3>3. ByName(n) = b
      BY <1>1, <3>1, UniqueNames DEF GraphInv
    <3>4. x \in mapping[b][k]["after"]
      BY <1>1, <1>2, <3>2, <3>3, AcceptedFacts DEF Final
    <3> QED
      BY <1>2, <3>4, AcceptedFacts DEF Written
  <2> QED
    BY <2>1
<1>6. files[n].after = Declared(n)
  BY <1>3, <1>4, <1>5 DEF Declared
<1>7. ASSUME NEW m \in Named
      PROVE  n \in Declared(m) <=> m \in Lists(n, "before") \/ n \in Lists(m, "after")
  BY <1>7 DEF Declared
<1> QED
  BY <1>3, <1>4, <1>6, <1>7

LEMMA StartsInOrder == GraphInv => StartOrderExists
<1> SUFFICES ASSUME GraphInv, stage = "accepted",
                    NEW S \in SUBSET Named, S # {},
                    \A n \in S : files[n].after \cap S # {}
             PROVE  FALSE
  BY DEF StartOrderExists
<1>1. Named \subseteq Nodes /\ Joined = Keywords /\ "after" \in Sides
  BY NamedFacts DEF GraphInv, Joined, Sides
<1>2. ASSUME NEW n \in Named PROVE files[n].after \subseteq adjacency[n]
  <2>1. PICK b \in Indices : Name(b) = n
    BY DEF Named
  <2>2. files[n] = FileOf(b)
    BY <2>1, AcceptedFacts
  <2>3. files[n].after \subseteq Gathered(b, "after")
    BY <2>2 DEF FileOf
  <2>4. ASSUME NEW x \in Gathered(b, "after") PROVE x \in adjacency[n]
    <3>1. PICK k \in Keywords : x \in Final(k, n, "after")
      BY <1>1, <2>1, <2>4, AcceptedFacts DEF Gathered
    <3>2. x \in UNION {Final(j, n, "after") : j \in Joined}
      BY <1>1, <3>1
    <3> QED
      BY <1>1, <3>2 DEF GraphInv, AdjacencyInv
  <2> QED
    BY <2>3, <2>4
<1>3. Cyclic(S) /\ S \in SUBSET Sources
  BY <1>1, <1>2 DEF Cyclic, Sources
<1>4. AcceptedIsAcyclic /\ verdict = "acyclic"
  BY InvAccepts, AcceptedFacts DEF GraphInv
<1> QED
  BY <1>3, <1>4 DEF AcceptedIsAcyclic

LEMMA PointersAgree == GraphInv => ManifestAgrees
<1> SUFFICES ASSUME GraphInv, stage = "accepted", NEW b \in Indices, NEW s \in Sides
             PROVE  {Name(c) : c \in UNION {pointers[b][k][s] : k \in Keywords}}
                      = files[Name(b)][s]
  BY DEF ManifestAgrees
<1>1. \A n \in Named : Name(Min(Found(n))) = n
  BY AcceptedFacts, UniqueNames DEF GraphInv, Named
<1>2. \A k \in Keywords : mapping[b][k][s] \subseteq Named
  BY AcceptedFacts DEF Written
<1>3. \A k \in Keywords : {Name(c) : c \in pointers[b][k][s]} = mapping[b][k][s]
  BY <1>1, <1>2, AcceptedFacts
<1>4. {Name(c) : c \in UNION {pointers[b][k][s] : k \in Keywords}} = Gathered(b, s)
  <2>1. \A x : x \in Gathered(b, s) <=> \E k \in Keywords : x \in mapping[b][k][s]
    BY DEF Gathered
  <2>2. \A x : x \in Gathered(b, s) <=>
                 \E k \in Keywords : \E c \in pointers[b][k][s] : x = Name(c)
    BY <1>3, <2>1
  <2> QED
    BY <2>2
<1>5. files[Name(b)][s] = Gathered(b, s)
  <2>1. files[Name(b)] = FileOf(b) /\ Gathered(b, s) \subseteq Named
    BY AcceptedFacts, AcceptedPeers
  <2>2. CASE s = "after"
    BY <2>1, <2>2 DEF FileOf
  <2>3. CASE s = "before"
    BY <2>1, <2>3 DEF FileOf
  <2> QED
    BY <2>2, <2>3 DEF Sides
<1> QED
  BY <1>4, <1>5

LEMMA RejectsForAReason == GraphInv => RejectionJustified
<1> SUFFICES ASSUME GraphInv PROVE RejectionJustified
  OBVIOUS
<1> USE DEF GraphInv
<1>1. ASSUME stage = "rejected"
      PROVE  \/ \E b, c \in Indices : b # c /\ Name(b) = Name(c)
             \/ \E b \in Indices, k \in Keywords :
                  ~ blueprints[b].lists[k] \subseteq Named
  BY <1>1 DEF RejectedInv, Unique
<1>2. ASSUME verdict = "cycle"
      PROVE  \E S \in SUBSET Named : S # {} /\ \A n \in S : Declared(n) \cap S # {}
  <2>1. /\ found \in Seq(Nodes) /\ Len(found) \in Nat /\ Len(found) >= 2
        /\ found[1] = found[Len(found)]
        /\ \A i \in 1 .. Len(found) - 1 : found[i + 1] \in adjacency[found[i]]
        /\ \A i \in 1 .. Len(found) : found[i] \in Nodes
    BY <1>2, ElementOfSeq DEF Inv, CheckTypeOK, SearchInv, CycleIsReal, Walk
  <2>2. stage # "build"
    BY <1>2 DEF StageInv, Untouched
  <2>3. ASSUME NEW n \in Nodes, NEW x \in adjacency[n]
        PROVE  n \in Named /\ (x \in Named => x \in Declared(n))
    <3>1. n \in Named
      BY <2>3 DEF AdjacencyInv
    <3>2. x \in UNION {Final(j, n, "after") : j \in Joined}
      BY <2>3, <3>1 DEF AdjacencyInv
    <3>3. PICK k \in Keywords : x \in Final(k, n, "after")
      BY <3>2 DEF Joined
    <3>4. ByName(n) \in Indices /\ Name(ByName(n)) = n
      BY <3>1, NamedFacts
    <3>5. /\ "after" \in Sides /\ "before" \in Sides /\ Opposite("after") = "before"
      BY DEF Sides, Opposite
    <3>6. CASE x \in Own(ByName(n), k, "after")
      BY <3>1, <3>4, <3>5, <3>6, ListsOwn DEF Declared
    <3>7. CASE x \in Named /\ n \in Own(ByName(x), k, "before")
      <4>1. ByName(x) \in Indices /\ Name(ByName(x)) = x
        BY <3>7, NamedFacts
      <4>2. n \in Lists(x, "before")
        BY <3>5, <3>7, <4>1, ListsOwn
      <4> QED
        BY <3>1, <3>7, <4>2 DEF Declared
    <3> QED
      BY <3>1, <3>3, <3>5, <3>6, <3>7 DEF Final
  <2> DEFINE S == {found[i] : i \in 1 .. Len(found)}
  <2>4. ASSUME NEW i \in 1 .. Len(found)
        PROVE  \E j \in 1 .. Len(found) - 1 : found[j] = found[i]
    <3>1. CASE i = Len(found)
      BY <2>1, <3>1
    <3>2. CASE i # Len(found)
      BY <2>1, <3>2
    <3> QED
      BY <3>1, <3>2
  <2>5. ASSUME NEW i \in 1 .. Len(found) PROVE found[i] \in Named
    BY <2>1, <2>3, <2>4
  <2>6. ASSUME NEW i \in 1 .. Len(found)
        PROVE  Declared(found[i]) \cap S # {}
    <3>1. PICK j \in 1 .. Len(found) - 1 : found[j] = found[i]
      BY <2>4
    <3>2. j + 1 \in 1 .. Len(found) /\ found[j + 1] \in adjacency[found[j]]
      BY <2>1
    <3>3. found[j] \in Nodes /\ found[j + 1] \in Named
      BY <2>1, <2>5, <3>2
    <3>4. found[j + 1] \in Declared(found[j])
      BY <2>3, <3>2, <3>3
    <3> QED
      BY <3>1, <3>2, <3>4
  <2>7. S \in SUBSET Named /\ S # {}
    BY <2>1, <2>5
  <2> HIDE DEF S
  <2>8. \A n \in S : Declared(n) \cap S # {}
    BY <2>6 DEF S
  <2> QED
    BY <2>7, <2>8
<1> QED
  BY <1>1, <1>2 DEF RejectionJustified

-----------------------------------------------------------------------------
(* The loops stay on the Blueprints, and every name the mappings, the files  *)
(* or the pointers hold is of the kind it should be: no pointer is null.     *)
THEOREM GeneratorTypeCorrect == Spec => []TypeOK
<1>1. GraphInv => TypeOK
  BY DEF GraphInv
<1> QED
  BY <1>1, GraphAlways, PTL

(* The search keeps its promise on the graph it is given here, with names    *)
(* that are no key left aside.                                              *)
THEOREM UnifiedGraphSearched == Spec => []AcceptedIsAcyclic /\ []CycleIsReal
<1>1. GraphInv => AcceptedIsAcyclic /\ CycleIsReal
  BY InvAccepts DEF GraphInv, Inv, SearchInv
<1> QED
  BY <1>1, GraphAlways, PTL

(* Of an accepted input systemd enforces exactly the declared dependencies,  *)
(* whichever of the two units, of the keywords and of the sides they were    *)
(* declared by.                                                             *)
THEOREM DeclaredIsEnforced == Spec => []DependenciesEnforced
BY GraphAlways, EnforcesDeclared, PTL

(* The units of an accepted input can be started in some order. *)
THEOREM AcceptedCanStart == Spec => []StartOrderExists
BY GraphAlways, StartsInOrder, PTL

(* The manager waits for the graph that systemd runs. *)
THEOREM ManagerSeesTheGraph == Spec => []ManifestAgrees
BY GraphAlways, PointersAgree, PTL

(* No input is refused but for a name used twice, a peer that is no instance *)
(* or a cycle of declared dependencies.                                     *)
THEOREM RefusedWithReason == Spec => []RejectionJustified
BY GraphAlways, RejectsForAReason, PTL

-----------------------------------------------------------------------------
(* The items of a kubernetes document: an induction over them, by the first  *)
(* one that would break what is claimed.                                    *)
LEMMA InductionOn ==
  ASSUME NEW N \in Nat, NEW T, 0 \in T, \A i \in 0 .. N - 1 : i \in T => i + 1 \in T
  PROVE  0 .. N \subseteq T
<1> SUFFICES ASSUME (0 .. N) \ T # {} PROVE FALSE
  OBVIOUS
<1>1. PICK m \in (0 .. N) \ T : \A x \in (0 .. N) \ T : m <= x
  <2>1. (0 .. N) \ T \in SUBSET Nat
    OBVIOUS
  <2> QED
    BY <2>1, LeastExists
<1>2. m - 1 \in 0 .. N - 1 /\ m - 1 \in 0 .. N /\ (m - 1) + 1 = m
  BY <1>1
<1>3. m - 1 \in T
  BY <1>1, <1>2
<1> QED
  BY <1>1, <1>2, <1>3

(* The recursion over the items defines what it seems to. *)
LEMMA KeptSteps ==
  ASSUME NEW S, NEW items \in Seq(S), NEW kind
  PROVE  \E kept : /\ OfKind(items, kind) = kept[Len(items)]
                   /\ kept[0] = << >>
                   /\ \A i \in 1 .. Len(items) :
                        kept[i] = Kept(kept[i - 1], items[i], kind)
<1> DEFINE E(n, d) == d = [i \in 0 .. n |-> IF i = 0 THEN << >>
                                            ELSE Kept(d[i - 1], items[i], kind)]
           T == {n \in Nat : \E d : E(n, d)}
<1>1. Len(items) \in Nat
  OBVIOUS
<1>2. E(0, [i \in 0 .. 0 |-> << >>])
  OBVIOUS
<1>3. ASSUME NEW n \in Nat, NEW d, E(n, d)
      PROVE  \E e : E(n + 1, e)
  <2> DEFINE e == [i \in 0 .. n + 1 |->
                     IF i = n + 1 THEN Kept(d[n], items[n + 1], kind) ELSE d[i]]
  <2>1. /\ \A i \in 0 .. n : d[i] = IF i = 0 THEN << >>
                                    ELSE Kept(d[i - 1], items[i], kind)
        /\ \A i \in 0 .. n : e[i] = d[i]
        /\ e[n + 1] = Kept(d[n], items[n + 1], kind)
    BY <1>3
  <2>2. ASSUME NEW i \in 0 .. n + 1
        PROVE  e[i] = IF i = 0 THEN << >> ELSE Kept(e[i - 1], items[i], kind)
    <3>1. CASE i = n + 1
      BY <2>1, <3>1
    <3>2. CASE i # n + 1
      <4>1. i \in 0 .. n /\ (i # 0 => i - 1 \in 0 .. n)
        BY <3>2
      <4> QED
        BY <2>1, <4>1
    <3> QED
      BY <3>1, <3>2
  <2>3. E(n + 1, e)
    BY <2>2
  <2> HIDE DEF E, e
  <2> QED
    BY <2>3
<1> HIDE DEF E
<1>4. 0 \in T /\ \A n \in 0 .. Len(items) - 1 : n \in T => n + 1 \in T
  <2>1. \A n \in 0 .. Len(items) - 1 : n \in Nat /\ n + 1 \in Nat
    BY <1>1
  <2> QED
    BY <1>2, <1>3, <2>1
<1> HIDE DEF T
<1>5. Len(items) \in T
  <2>1. 0 .. Len(items) \subseteq T
    BY <1>1, <1>4, InductionOn
  <2> QED
    BY <1>1, <2>1
<1>6. PICK d : E(Len(items), d)
  BY <1>5 DEF T
<1> DEFINE f == CHOOSE d_1 : E(Len(items), d_1)
<1>7. E(Len(items), f)
  BY <1>6
<1>8. OfKind(items, kind) = f[Len(items)]
  BY DEF OfKind, E
<1> HIDE DEF f
<1>9. f[0] = << >> /\ \A i \in 1 .. Len(items) : f[i] = Kept(f[i - 1], items[i], kind)
  BY <1>1, <1>7 DEF E
<1> QED
  BY <1>8, <1>9

(* What is kept of a document is its items of the kind, each as often as the *)
(* document has it.                                                         *)
Upto(items, n, kind) == {items[i] : i \in {j \in 1 .. n : items[j].kind = kind}}

LEMMA AppendedOnce ==
  ASSUME NEW S, NEW s \in Seq(S), NEW x \in S
  PROVE  /\ Append(s, x) \in Seq(S)
         /\ ToSet(Append(s, x)) = ToSet(s) \cup {x}
         /\ IsInjective(s) /\ x \notin ToSet(s) => IsInjective(Append(s, x))
<1>1. /\ Append(s, x) \in Seq(S) /\ Len(Append(s, x)) = Len(s) + 1
      /\ Len(s) \in Nat /\ DOMAIN s = 1 .. Len(s)
      /\ DOMAIN Append(s, x) = 1 .. Len(s) + 1
      /\ \A i \in 1 .. Len(s) : Append(s, x)[i] = s[i]
      /\ Append(s, x)[Len(s) + 1] = x
  BY AppendProperties
<1> QED
  BY <1>1 DEF ToSet, IsInjective

LEMMA KeptItems ==
  ASSUME NEW S, NEW items \in Seq(S), NEW kind
  PROVE  /\ OfKind(items, kind) \in Seq(S)
         /\ ToSet(OfKind(items, kind)) = {x \in ToSet(items) : x.kind = kind}
         /\ IsInjective(items) => IsInjective(OfKind(items, kind))
<1>1. PICK kept : /\ OfKind(items, kind) = kept[Len(items)]
                  /\ kept[0] = << >>
                  /\ \A i \in 1 .. Len(items) :
                       kept[i] = Kept(kept[i - 1], items[i], kind)
  BY KeptSteps
<1>2. /\ Len(items) \in Nat /\ DOMAIN items = 1 .. Len(items)
      /\ \A i \in 1 .. Len(items) : items[i] \in S
  BY ElementOfSeq
<1> DEFINE P(n) == /\ kept[n] \in Seq(S)
                   /\ ToSet(kept[n]) = Upto(items, n, kind)
                   /\ IsInjective(items) => IsInjective(kept[n])
           T == {n \in 0 .. Len(items) : P(n)}
<1>3. P(0)
  <2>1. << >> \in Seq(S) /\ DOMAIN << >> = {}
    OBVIOUS
  <2> QED
    BY <1>1, <2>1 DEF Upto, ToSet, IsInjective
<1>4. ASSUME NEW n \in 0 .. Len(items) - 1, P(n)
      PROVE  P(n + 1)
  <2>1. /\ n + 1 \in 1 .. Len(items) /\ (n + 1) - 1 = n
        /\ 1 .. n + 1 = (1 .. n) \cup {n + 1} /\ n + 1 \notin 1 .. n
    BY <1>2
  <2>2. kept[n + 1] = Kept(kept[n], items[n + 1], kind) /\ items[n + 1] \in S
    BY <1>1, <1>2, <2>1
  <2>3. CASE items[n + 1].kind = kind
    <3>1. kept[n + 1] = Append(kept[n], items[n + 1])
      BY <2>2, <2>3 DEF Kept
    <3>2. Upto(items, n + 1, kind) = Upto(items, n, kind) \cup {items[n + 1]}
      BY <2>1, <2>3 DEF Upto
    <3>3. IsInjective(items) => items[n + 1] \notin Upto(items, n, kind)
      BY <1>2, <2>1 DEF Upto, IsInjective
    <3>4. PICK s \in Seq(S) : s = kept[n]
      BY <1>4
    <3>5. PICK x \in S : x = items[n + 1]
      BY <2>2
    <3>6. /\ Append(s, x) \in Seq(S)
          /\ ToSet(Append(s, x)) = ToSet(s) \cup {x}
          /\ IsInjective(s) /\ x \notin ToSet(s) => IsInjective(Append(s, x))
      BY AppendedOnce
    <3> QED
      BY <1>4, <3>1, <3>2, <3>3, <3>4, <3>5, <3>6
  <2>4. CASE items[n + 1].kind # kind
    <3>1. kept[n + 1] = kept[n]
      BY <2>2, <2>4 DEF Kept
    <3>2. Upto(items, n + 1, kind) = Upto(items, n, kind)
      BY <2>1, <2>4 DEF Upto
    <3> QED
      BY <1>4, <3>1, <3>2
  <2> QED
    BY <2>3, <2>4
<1> HIDE DEF P
<1>5. 0 \in T /\ \A n \in 0 .. Len(items) - 1 : n \in T => n + 1 \in T
  BY <1>2, <1>3, <1>4
<1> HIDE DEF T
<1>6. 0 .. Len(items) \subseteq T
  BY <1>2, <1>5, InductionOn
<1>7. P(Len(items))
  BY <1>2, <1>6 DEF T
<1>8. Upto(items, Len(items), kind) = {x \in ToSet(items) : x.kind = kind}
  BY <1>2 DEF Upto, ToSet
<1> QED
  BY <1>1, <1>7, <1>8 DEF P

LEMMA JoinedOnce ==
  ASSUME NEW S, NEW s \in Seq(S), NEW t \in Seq(S)
  PROVE  /\ s \o t \in Seq(S)
         /\ ToSet(s \o t) = ToSet(s) \cup ToSet(t)
         /\ IsInjective(s) /\ IsInjective(t) /\ ToSet(s) \cap ToSet(t) = {} =>
              IsInjective(s \o t)
<1>1. /\ s \o t \in Seq(S) /\ Len(s \o t) = Len(s) + Len(t)
      /\ Len(s) \in Nat /\ DOMAIN s = 1 .. Len(s)
      /\ Len(t) \in Nat /\ DOMAIN t = 1 .. Len(t)
      /\ DOMAIN (s \o t) = 1 .. Len(s) + Len(t)
      /\ \A i \in 1 .. Len(s) + Len(t) :
           (s \o t)[i] = IF i <= Len(s) THEN s[i] ELSE t[i - Len(s)]
  BY ConcatProperties
<1> DEFINE st == s \o t
<1> HIDE DEF st
<1>2. /\ \A i \in 1 .. Len(s) : i \in DOMAIN st /\ st[i] = s[i]
      /\ \A j \in 1 .. Len(t) : Len(s) + j \in DOMAIN st /\ st[Len(s) + j] = t[j]
      /\ \A i \in DOMAIN st : \/ i \in 1 .. Len(s) /\ st[i] = s[i]
                              \/ /\ i \notin 1 .. Len(s) /\ i - Len(s) \in 1 .. Len(t)
                                 /\ st[i] = t[i - Len(s)]
  BY <1>1 DEF st
<1>3. ToSet(st) = ToSet(s) \cup ToSet(t)
  BY <1>1, <1>2 DEF ToSet
<1>4. ASSUME IsInjective(s), IsInjective(t), ToSet(s) \cap ToSet(t) = {}
      PROVE  IsInjective(st)
  <2> SUFFICES ASSUME NEW i \in DOMAIN st, NEW j \in DOMAIN st, st[i] = st[j]
               PROVE  i = j
    BY DEF IsInjective
  <2>1. i \in Nat /\ j \in Nat
    BY <1>1 DEF st
  <2>2. \A k \in 1 .. Len(s), l \in 1 .. Len(t) : s[k] # t[l]
    BY <1>1, <1>4 DEF ToSet
  <2>3. CASE i \in 1 .. Len(s) /\ j \in 1 .. Len(s)
    BY <1>1, <1>2, <1>4, <2>3 DEF IsInjective
  <2>4. CASE i \notin 1 .. Len(s) /\ j \notin 1 .. Len(s)
    <3>1. i - Len(s) = j - Len(s)
      BY <1>1, <1>2, <1>4, <2>4 DEF IsInjective
    <3> QED
      BY <1>1, <2>1, <3>1
  <2> QED
    BY <1>2, <2>2, <2>3, <2>4
<1> QED
  BY <1>1, <1>3, <1>4 DEF st

(* The items in the order of their Blueprints *)
LEMMA OrderedItems ==
  ASSUME NEW items \in Seq(KubernetesItems)
  PROVE  LET ordered == OfKind(items, "Namespace") \o OfKind(items, "Pod")
                          \o OfKind(items, "Service") IN
         /\ ordered \in Seq(KubernetesItems)
         /\ ToSet(ordered) = ToSet(items)
         /\ IsInjective(items) => IsInjective(ordered)
<1> DEFINE n == OfKind(items, "Namespace")
           p == OfKind(items, "Pod")
           s == OfKind(items, "Service")
<1>1. /\ n \in Seq(KubernetesItems) /\ p \in Seq(KubernetesItems)
      /\ s \in Seq(KubernetesItems)
      /\ ToSet(n) = {x \in ToSet(items) : x.kind = "Namespace"}
      /\ ToSet(p) = {x \in ToSet(items) : x.kind = "Pod"}
      /\ ToSet(s) = {x \in ToSet(items) : x.kind = "Service"}
      /\ IsInjective(items) => IsInjective(n) /\ IsInjective(p) /\ IsInjective(s)
  BY KeptItems
<1> HIDE DEF n, p, s
<1>2. /\ n \o p \in Seq(KubernetesItems)
      /\ ToSet(n \o p) = ToSet(n) \cup ToSet(p)
      /\ IsInjective(items) => IsInjective(n \o p)
  BY <1>1, JoinedOnce
<1>3. /\ (n \o p) \o s \in Seq(KubernetesItems)
      /\ ToSet((n \o p) \o s) = ToSet(n) \cup ToSet(p) \cup ToSet(s)
      /\ IsInjective(items) => IsInjective((n \o p) \o s)
  <2>1. PICK np \in Seq(KubernetesItems) : np = n \o p
    BY <1>2
  <2>2. ToSet(np) \cap ToSet(s) = {}
    BY <1>1, <1>2, <2>1
  <2>3. /\ np \o s \in Seq(KubernetesItems)
        /\ ToSet(np \o s) = ToSet(np) \cup ToSet(s)
        /\ IsInjective(np) /\ IsInjective(s) => IsInjective(np \o s)
    BY <1>1, <2>2, JoinedOnce
  <2> QED
    BY <1>1, <1>2, <2>1, <2>3
<1>4. \A x \in ToSet(items) : x.kind \in Kinds
  <2>1. \A i \in DOMAIN items : items[i] \in KubernetesItems
    OBVIOUS
  <2> QED
    BY <2>1 DEF ToSet, KubernetesItems
<1>5. ToSet(n) \cup ToSet(p) \cup ToSet(s) = ToSet(items)
  BY <1>1, <1>4 DEF Kinds
<1> QED
  BY <1>3, <1>5 DEF n, p, s

LEMMA ItemsBuilt ==
  ASSUME TypeOK, BuildInv, stage # "build", document.dsl = "kubernetes"
  PROVE  \E ordered \in Seq(KubernetesItems) :
           /\ Indices = DOMAIN ordered
           /\ \A b \in Indices : blueprints[b] = BuildItem(document.items, ordered[b])
           /\ Items = ToSet(ordered)
           /\ IsInjective(document.items) => IsInjective(ordered)
<1>1. /\ blueprints = Kubernetes(document) /\ document.items \in Seq(KubernetesItems)
      /\ Items = ToSet(document.items)
  BY GeneratorAssumption DEF TypeOK, BuildInv, Built, Items
<1> DEFINE ordered == OfKind(document.items, "Namespace") \o OfKind(document.items, "Pod")
                        \o OfKind(document.items, "Service")
<1>2. /\ ordered \in Seq(KubernetesItems)
      /\ ToSet(ordered) = ToSet(document.items)
      /\ IsInjective(document.items) => IsInjective(ordered)
  <2>1. PICK items \in Seq(KubernetesItems) : items = document.items
    BY <1>1
  <2> QED
    BY <2>1, OrderedItems
<1>3. blueprints = [i \in DOMAIN ordered |-> BuildItem(document.items, ordered[i])]
  BY <1>1 DEF Kubernetes
<1> HIDE DEF ordered
<1> QED
  BY <1>1, <1>2, <1>3 DEF Indices

(* What an item lists, under any keyword *)
Asks(items, i, n) ==
  \E k \in KubernetesKeywords : n \in BuildItem(items, i).lists[k]

LEMMA BuiltFields ==
  ASSUME NEW items, NEW i
  PROVE  /\ BuildItem(items, i).name = InstanceName(i)
         /\ DOMAIN BuildItem(items, i).lists = KubernetesKeywords
BY DEF BuildItem, KubernetesKeywords

LEMMA NamedItems ==
  ASSUME TypeOK, BuildInv, stage # "build", document.dsl = "kubernetes"
  PROVE  Named = {InstanceName(i) : i \in Items}
<1>1. PICK ordered \in Seq(KubernetesItems) :
        /\ Indices = DOMAIN ordered
        /\ \A b \in Indices : blueprints[b] = BuildItem(document.items, ordered[b])
        /\ Items = ToSet(ordered)
  BY ItemsBuilt
<1>2. \A b \in Indices : Name(b) = InstanceName(ordered[b])
  BY <1>1, BuiltFields DEF Name
<1> QED
  BY <1>1, <1>2 DEF Named, ToSet

(* The declared dependencies of a kubernetes document are those its items    *)
(* list.                                                                    *)
LEMMA DeclaredByItems ==
  ASSUME TypeOK, BuildInv, stage # "build", document.dsl = "kubernetes", NEW n, NEW x
  PROVE  x \in Declared(n) <=>
           \E i \in Items : InstanceName(i) = n /\ Asks(document.items, i, x)
<1>1. PICK ordered \in Seq(KubernetesItems) :
        /\ Indices = DOMAIN ordered
        /\ \A b \in Indices : blueprints[b] = BuildItem(document.items, ordered[b])
        /\ Items = ToSet(ordered)
  BY ItemsBuilt
<1>2. 1 \in Indices /\ \A b \in Indices : DOMAIN blueprints[b].lists = Keywords
  BY BlueprintFacts
<1>3. Keywords = KubernetesKeywords
  BY <1>1, <1>2, BuiltFields
<1>4. \A k \in Keywords : Side[k] = "after"
  <2>1. document \in Documents /\ blueprints = Built(document)
    BY DEF TypeOK, BuildInv
  <2>2. Keywords \subseteq DOMAIN Side
    BY <1>2, <2>1, GeneratorAssumption DEF Indices
  <2> QED
    BY <1>3, <2>2, GeneratorAssumption
<1>5. KeywordsOf("before") = {} /\ KeywordsOf("after") = KubernetesKeywords
  BY <1>3, <1>4 DEF KeywordsOf
<1>6. \A m : n \notin Lists(m, "before")
  BY <1>5 DEF Lists
<1>7. x \in Declared(n) <=> x \in Lists(n, "after")
  BY <1>6 DEF Declared
<1>8. x \in Lists(n, "after") <=>
        \E b \in Indices : /\ Name(b) = n
                           /\ \E k \in KubernetesKeywords : x \in blueprints[b].lists[k]
  BY <1>5 DEF Lists
<1>9. \A b \in Indices : Name(b) = InstanceName(ordered[b])
  BY <1>1, BuiltFields DEF Name
<1>10. x \in Lists(n, "after") <=>
         \E b \in DOMAIN ordered :
           InstanceName(ordered[b]) = n /\ Asks(document.items, ordered[b], x)
  BY <1>1, <1>8, <1>9 DEF Asks
<1> QED
  BY <1>1, <1>7, <1>10 DEF ToSet

-----------------------------------------------------------------------------
(* Names of one word are told apart after they are joined. *)
LEMMA TwoParts ==
  ASSUME NEW S, NEW u \in Seq(S), NEW v \in Seq(S), NEW s \in Seq(S), NEW t \in Seq(S),
         u # << >>, v # << >>, Len(s) = 1, Len(t) = 1
  PROVE  /\ Len(s \o t) = 2 /\ Len(u \o v) >= 2
         /\ u \o v = s \o t <=> u = s /\ v = t
<1>1. Len(u) \in Nat \ {0} /\ Len(v) \in Nat \ {0}
  BY EmptySeq
<1>2. /\ Len(u \o v) = Len(u) + Len(v)
      /\ Len(s \o t) = Len(s) + Len(t)
      /\ \A i \in 1 .. Len(u) + Len(v) :
           (u \o v)[i] = IF i <= Len(u) THEN u[i] ELSE v[i - Len(u)]
      /\ \A i \in 1 .. Len(s) + Len(t) :
           (s \o t)[i] = IF i <= Len(s) THEN s[i] ELSE t[i - Len(s)]
  BY ConcatProperties
<1>3. ASSUME u \o v = s \o t
      PROVE  u = s /\ v = t
  <2>1. Len(u) = 1 /\ Len(v) = 1
    BY <1>1, <1>2, <1>3
  <2>2. (u \o v)[1] = u[1] /\ (u \o v)[2] = v[1]
    BY <1>2, <2>1
  <2>3. (s \o t)[1] = s[1] /\ (s \o t)[2] = t[1]
    BY <1>2
  <2>4. u[1] = s[1] /\ v[1] = t[1]
    BY <1>3, <2>2, <2>3
  <2>5. \A i \in 1 .. 1 : i = 1
    OBVIOUS
  <2>6. u = s
    BY <2>1, <2>4, <2>5, SeqEqual
  <2>7. v = t
    BY <2>1, <2>4, <2>5, SeqEqual
  <2> QED
    BY <2>6, <2>7
<1> QED
  BY <1>1, <1>2, <1>3

OneWordItem(i) ==
  /\ Len(i.name) = 1 /\ Len(i.namespace) <= 1
  /\ \A n \in i.networks : Len(n) = 1

(* The parts of names, the implicit namespace's among them *)
Words == STRING \cup {"default"}

LEMMA ItemFacts ==
  ASSUME NEW i \in KubernetesItems, OneWordItem(i)
  PROVE  /\ i.kind \in Kinds /\ i.name \in Seq(Words) /\ Len(i.name) = 1
         /\ InstanceNamespace(i) \in Seq(Words) /\ Len(InstanceNamespace(i)) = 1
         /\ InstanceNamespace(i) # << >>
         /\ \A n \in i.networks : Len(n) = 1
         /\ \A t \in i.depends_on : /\ t.name \in Seq(Words) /\ t.name # << >>
                                    /\ t.namespace \in Seq(Words)
<1>1. Seq(STRING) \subseteq Seq(Words)
  BY DEF Words
<1>2. /\ i.kind \in Kinds /\ i.name \in Seq(Words) /\ i.namespace \in Seq(Words)
      /\ \A t \in i.depends_on : /\ t.name \in Seq(Words) /\ t.name # << >>
                                 /\ t.namespace \in Seq(Words)
  BY <1>1 DEF KubernetesItems, NoName, Texts
<1>3. CASE i.namespace = NoName
  <2>1. InstanceNamespace(i) = <<"default">>
    BY <1>3 DEF InstanceNamespace
  <2>2. "default" \in Words
    BY DEF Words
  <2>3. <<"default">> \in Seq(Words) /\ Len(<<"default">>) = 1 /\ <<"default">> # << >>
    BY <2>2
  <2> QED
    BY <1>2, <2>1, <2>3 DEF OneWordItem
<1>4. CASE i.namespace # NoName
  <2>1. InstanceNamespace(i) = i.namespace
    BY <1>4 DEF InstanceNamespace
  <2>2. Len(i.namespace) \in Nat /\ Len(i.namespace) # 0
    BY <1>2, <1>4, EmptySeq DEF NoName
  <2>3. Len(i.namespace) = 1
    <3>1. Len(i.namespace) <= 1
      BY DEF OneWordItem
    <3>2. \A l \in Nat : l # 0 /\ l <= 1 => l = 1
      OBVIOUS
    <3> QED
      BY <2>2, <3>1, <3>2
  <2> QED
    BY <1>2, <1>4, <2>1, <2>3 DEF OneWordItem, NoName
<1> QED
  BY <1>3, <1>4

(* The name of a namespace is one word, the names of Pods and Services two,  *)
(* and those of their annotations two at least.                             *)
LEMMA NameFacts ==
  ASSUME NEW i \in KubernetesItems, OneWordItem(i)
  PROVE  /\ i.kind = "Namespace" => InstanceName(i) = i.name /\ Len(InstanceName(i)) = 1
         /\ i.kind # "Namespace" => /\ InstanceName(i) = InstanceNamespace(i) \o i.name
                                    /\ Len(InstanceName(i)) = 2
         /\ \A t \in i.depends_on : Len(Referred(i, t)) >= 2
<1>1. /\ i.name \in Seq(Words) /\ Len(i.name) = 1 /\ i.name # << >>
      /\ InstanceNamespace(i) \in Seq(Words) /\ Len(InstanceNamespace(i)) = 1
      /\ InstanceNamespace(i) # << >>
      /\ \A t \in i.depends_on : /\ t.name \in Seq(Words) /\ t.name # << >>
                                 /\ t.namespace \in Seq(Words)
  BY ItemFacts DEF KubernetesItems, NoName
<1>2. Len(InstanceNamespace(i) \o i.name) = 2
  BY <1>1, ConcatProperties
<1>3. ASSUME NEW t \in i.depends_on
      PROVE  Len(Referred(i, t)) >= 2
  <2>1. PICK u \in Seq(Words) : u # << >> /\ Referred(i, t) = u \o t.name
    BY <1>1 DEF Referred, NoName
  <2>2. PICK v \in Seq(Words) : v # << >> /\ v = t.name
    BY <1>1
  <2>3. Len(u) \in Nat \ {0} /\ Len(v) \in Nat \ {0}
    BY <2>1, <2>2, EmptySeq
  <2>4. Len(u \o v) = Len(u) + Len(v)
    BY ConcatProperties
  <2> QED
    BY <2>1, <2>2, <2>3, <2>4
<1> QED
  BY <1>1, <1>2, <1>3 DEF InstanceName

(* A Pod's annotation names an item by its namespace and name. *)
LEMMA ReferredIs ==
  ASSUME NEW i \in KubernetesItems, OneWordItem(i), NEW j \in KubernetesItems,
         OneWordItem(j), j.kind # "Namespace", NEW t \in i.depends_on
  PROVE  Referred(i, t) = InstanceName(j) <=>
           /\ t.name = j.name
           /\ InstanceNamespace(j) = IF t.namespace = NoName THEN InstanceNamespace(i)
                                                            ELSE t.namespace
<1> DEFINE space == IF t.namespace = NoName THEN InstanceNamespace(i) ELSE t.namespace
<1>1. /\ t.name \in Seq(Words) /\ t.name # << >>
      /\ space \in Seq(Words) /\ space # << >>
  BY ItemFacts DEF NoName
<1>2. /\ j.name \in Seq(Words) /\ Len(j.name) = 1
      /\ InstanceNamespace(j) \in Seq(Words) /\ Len(InstanceNamespace(j)) = 1
  BY ItemFacts
<1>3. PICK u \in Seq(Words), v \in Seq(Words), s \in Seq(Words), r \in Seq(Words) :
        u = space /\ v = t.name /\ s = InstanceNamespace(j) /\ r = j.name
  BY <1>1, <1>2
<1>4. u \o v = s \o r <=> u = s /\ v = r
  <2>1. u # << >> /\ v # << >> /\ Len(s) = 1 /\ Len(r) = 1
    BY <1>1, <1>2, <1>3
  <2> QED
    BY <2>1, TwoParts
<1>5. Referred(i, t) = space \o t.name /\ InstanceName(j) = InstanceNamespace(j) \o j.name
  BY DEF Referred, InstanceName
<1> QED
  BY <1>3, <1>4, <1>5

(* What item i lists, kind by kind *)
LEMMA AskedByKind ==
  ASSUME NEW items \in Seq(KubernetesItems), NEW i \in ToSet(items), NEW n
  PROVE  Asks(items, i, n) <=>
           \/ /\ i.kind # "Namespace"
              /\ n = InstanceNamespace(i)
              /\ \E j \in ToSet(items) : j.kind = "Namespace" /\ j.name = n
           \/ i.kind = "Pod" /\ n \in i.networks
           \/ /\ i.kind = "Service"
              /\ \E p \in ToSet(items) :
                   /\ p.kind = "Pod" /\ n = InstanceName(p)
                   /\ InstanceNamespace(p) = InstanceNamespace(i)
                   /\ i.selector \subseteq p.labels
           \/ i.kind = "Pod" /\ \E t \in i.depends_on : n = Referred(i, t)
<1>1. i.kind \in Kinds
  <2>1. i \in KubernetesItems
    BY DEF ToSet
  <2> QED
    BY <2>1 DEF KubernetesItems
<1>2. \A kind : ToSet(OfKind(items, kind)) = {x \in ToSet(items) : x.kind = kind}
  BY KeptItems
<1> DEFINE item == BuildItem(items, i)
<1>3. Asks(items, i, n) <=> \/ n \in item.lists["namespace"]
                           \/ n \in item.lists["selector"]
                           \/ n \in item.lists["depends_on"]
  BY DEF Asks, KubernetesKeywords
<1>4. /\ item.lists["namespace"] =
           CASE i.kind = "Namespace" -> {}
             [] i.kind = "Pod"     -> OwnNetwork(items, i) \cup i.networks
             [] i.kind = "Service" -> OwnNetwork(items, i)
      /\ item.lists["selector"] =
           IF i.kind = "Service" THEN {InstanceName(p) : p \in Selected(items, i)} ELSE {}
      /\ item.lists["depends_on"] =
           IF i.kind = "Pod" THEN {Referred(i, t) : t \in i.depends_on} ELSE {}
  BY DEF BuildItem
<1> HIDE DEF item
<1>5. n \in OwnNetwork(items, i) <=>
        /\ n = InstanceNamespace(i)
        /\ \E j \in ToSet(items) : j.kind = "Namespace" /\ j.name = n
  BY <1>2 DEF OwnNetwork, DeclaredNamespaces
<1>6. n \in {InstanceName(p) : p \in Selected(items, i)} <=>
        \E p \in ToSet(items) :
          /\ p.kind = "Pod" /\ n = InstanceName(p)
          /\ InstanceNamespace(p) = InstanceNamespace(i)
          /\ i.selector \subseteq p.labels
  BY <1>2 DEF Selected, Matches
<1>7. n \in item.lists["namespace"] <=>
        \/ i.kind # "Namespace" /\ n \in OwnNetwork(items, i)
        \/ i.kind = "Pod" /\ n \in i.networks
  BY <1>1, <1>4 DEF Kinds
<1>8. /\ n \in item.lists["selector"] <=>
           i.kind = "Service" /\ n \in {InstanceName(p) : p \in Selected(items, i)}
      /\ n \in item.lists["depends_on"] <=>
           i.kind = "Pod" /\ \E t \in i.depends_on : n = Referred(i, t)
  BY <1>4
<1> QED
  BY <1>3, <1>5, <1>6, <1>7, <1>8

(* What an item lists by its joined name is what its document asks it to     *)
(* follow, when the joined names are told apart.                            *)
LEMMA AskedIs ==
  ASSUME NEW items \in Seq(KubernetesItems), \A x \in ToSet(items) : OneWordItem(x),
         \A x, y \in ToSet(items) : InstanceName(x) = InstanceName(y) => x = y,
         NEW i \in ToSet(items), NEW j \in ToSet(items)
  PROVE  Asks(items, i, InstanceName(j)) <=> Follows(i, j)
<1>1. \A x \in ToSet(items) : x \in KubernetesItems
  BY DEF ToSet
<1>2. i.kind \in Kinds /\ j.kind \in Kinds
  BY <1>1 DEF KubernetesItems
<1>3. /\ \A n \in i.networks : Len(n) = 1
      /\ \A t \in i.depends_on : Len(Referred(i, t)) >= 2
      /\ Len(InstanceNamespace(i)) = 1
  BY <1>1, ItemFacts, NameFacts
<1>4. CASE j.kind = "Namespace"
  <2>1. InstanceName(j) = j.name /\ Len(j.name) = 1
    BY <1>1, <1>4, NameFacts
  <2>2. \A t \in i.depends_on : j.name # Referred(i, t)
    <3>1. ~(1 >= 2)
      OBVIOUS
    <3> QED
      BY <1>3, <2>1, <3>1
  <2>3. \A p \in ToSet(items) : p.kind = "Pod" => InstanceName(p) # j.name
    BY <1>4, <2>1
  <2>4. Follows(i, j) <=> /\ i.kind # "Namespace"
                          /\ \/ j.name = InstanceNamespace(i)
                             \/ i.kind = "Pod" /\ j.name \in i.networks
    BY <1>4 DEF Follows
  <2>5. \E x \in ToSet(items) : x.kind = "Namespace" /\ x.name = j.name
    BY <1>4
  <2>6. Asks(items, i, j.name) <=>
          \/ i.kind # "Namespace" /\ j.name = InstanceNamespace(i)
          \/ i.kind = "Pod" /\ j.name \in i.networks
    BY <2>2, <2>3, <2>5, AskedByKind
  <2> QED
    BY <2>1, <2>4, <2>6
<1>5. CASE j.kind # "Namespace"
  <2>1. Len(InstanceName(j)) = 2
    BY <1>1, <1>5, NameFacts
  <2>2. InstanceName(j) # InstanceNamespace(i) /\ InstanceName(j) \notin i.networks
    BY <1>3, <2>1
  <2>3. \A t \in i.depends_on :
          InstanceName(j) = Referred(i, t) <=>
            /\ t.name = j.name
            /\ InstanceNamespace(j) = IF t.namespace = NoName THEN InstanceNamespace(i)
                                                             ELSE t.namespace
    BY <1>1, <1>5, ReferredIs
  <2>4. (\E p \in ToSet(items) :
           /\ p.kind = "Pod" /\ InstanceName(j) = InstanceName(p)
           /\ InstanceNamespace(p) = InstanceNamespace(i)
           /\ i.selector \subseteq p.labels)
        <=> /\ j.kind = "Pod" /\ InstanceNamespace(i) = InstanceNamespace(j)
            /\ i.selector \subseteq j.labels
    OBVIOUS
  <2>5. Asks(items, i, InstanceName(j)) <=>
          \/ /\ i.kind = "Service" /\ j.kind = "Pod"
             /\ InstanceNamespace(i) = InstanceNamespace(j)
             /\ i.selector \subseteq j.labels
          \/ i.kind = "Pod" /\ \E t \in i.depends_on : InstanceName(j) = Referred(i, t)
    BY <2>2, <2>4, AskedByKind
  <2> QED
    BY <1>5, <2>3, <2>5 DEF Follows
<1> QED
  BY <1>4, <1>5

-----------------------------------------------------------------------------
LEMMA OrdersItems == GraphInv => ItemsOrdered
<1> SUFFICES ASSUME GraphInv, stage = "accepted", OneWord,
                    NEW i \in Items, NEW j \in Items
             PROVE  InstanceName(j) \in files[InstanceName(i)].after <=> Follows(i, j)
  BY DEF ItemsOrdered
<1>1. TypeOK /\ BuildInv /\ Unique /\ stage # "build" /\ document.dsl = "kubernetes"
  BY AcceptedFacts DEF GraphInv, Items
<1>2. PICK ordered \in Seq(KubernetesItems) :
        /\ Indices = DOMAIN ordered
        /\ \A b \in Indices : blueprints[b] = BuildItem(document.items, ordered[b])
        /\ Items = ToSet(ordered)
  BY <1>1, ItemsBuilt
<1>3. \A x, y \in Items : InstanceName(x) = InstanceName(y) => x = y
  <2>1. \A b \in Indices : Name(b) = InstanceName(ordered[b])
    BY <1>2, BuiltFields DEF Name
  <2> QED
    BY <1>1, <1>2, <2>1 DEF Unique, ToSet
<1>4. document.items \in Seq(KubernetesItems) /\ Items = ToSet(document.items)
  BY <1>1, GeneratorAssumption DEF TypeOK, Items
<1>5. \A x \in Items : OneWordItem(x)
  BY DEF OneWord, OneWordItem
<1>6. Asks(document.items, i, InstanceName(j)) <=> Follows(i, j)
  <2>1. PICK items \in Seq(KubernetesItems) : items = document.items
    BY <1>4
  <2> QED
    BY <1>3, <1>4, <1>5, <2>1, AskedIs
<1>7. InstanceName(i) \in Named
  BY <1>1, NamedItems
<1>8. files[InstanceName(i)].after = Declared(InstanceName(i))
  BY <1>7, EnforcesDeclared DEF DependenciesEnforced
<1>9. InstanceName(j) \in Declared(InstanceName(i)) <=>
        Asks(document.items, i, InstanceName(j))
  BY <1>1, <1>3, DeclaredByItems
<1> QED
  BY <1>6, <1>8, <1>9

LEMMA RefusesForACause == GraphInv => RefusedForACause
<1> SUFFICES ASSUME GraphInv, Distinct, OneWord
             PROVE  /\ stage = "rejected" =>
                         \E p \in Items :
                           /\ p.kind = "Pod"
                           /\ ~ p.networks \cup {Referred(p, t) : t \in p.depends_on}
                                  \subseteq Named
                    /\ verdict = "cycle" =>
                         \E S \in SUBSET Items :
                           S # {} /\ \A i \in S : \E j \in S : Follows(i, j)
  BY DEF RefusedForACause
<1>1. /\ TypeOK /\ BuildInv /\ StageInv /\ RejectionJustified
      /\ document.dsl = "kubernetes"
      /\ \A x, y \in Items : InstanceName(x) = InstanceName(y) => x = y
  BY RejectsForAReason DEF GraphInv, Distinct
<1>2. document.items \in Seq(KubernetesItems) /\ Items = ToSet(document.items)
  BY <1>1, GeneratorAssumption DEF TypeOK, Items
<1>3. PICK items \in Seq(KubernetesItems) : items = document.items
  BY <1>2
<1>4. ASSUME stage = "rejected"
      PROVE  \E p \in Items : /\ p.kind = "Pod"
                              /\ ~ p.networks \cup {Referred(p, t) : t \in p.depends_on}
                                     \subseteq Named
  <2>1. PICK ordered \in Seq(KubernetesItems) :
          /\ Indices = DOMAIN ordered
          /\ \A b \in Indices : blueprints[b] = BuildItem(document.items, ordered[b])
          /\ Items = ToSet(ordered)
          /\ IsInjective(document.items) => IsInjective(ordered)
    BY <1>1, <1>4, ItemsBuilt
  <2>2. /\ Named = {InstanceName(x) : x \in Items}
        /\ \A b \in Indices : ordered[b] \in Items /\ Name(b) = InstanceName(ordered[b])
    BY <1>1, <1>4, <2>1, NamedItems, BuiltFields DEF Name, ToSet
  <2>3. \A b, c \in Indices : Name(b) = Name(c) => b = c
    <3>1. IsInjective(ordered)
      BY <2>1 DEF Distinct
    <3> QED
      BY <1>1, <2>1, <2>2, <3>1 DEF IsInjective
  <2>4. PICK b \in Indices, k \in Keywords : ~ blueprints[b].lists[k] \subseteq Named
    BY <1>1, <1>4, <2>3 DEF RejectionJustified
  <2>5. PICK n \in blueprints[b].lists[k] : n \notin Named
    BY <2>4
  <2>6. PICK p \in Items : p = ordered[b] /\ Asks(items, p, n)
    <3>1. k \in KubernetesKeywords
      BY <1>1, <1>4, <2>1, BlueprintFacts, BuiltFields
    <3> QED
      BY <1>3, <2>1, <2>2, <2>5, <3>1 DEF Asks
  <2>7. \A j \in Items : InstanceName(j) # n
    BY <2>2, <2>5
  <2>8. \A j \in Items : j.kind = "Namespace" => j.name # n
    BY <2>7 DEF InstanceName
  <2>9. p.kind = "Pod" /\ (n \in p.networks \/ \E t \in p.depends_on : n = Referred(p, t))
    BY <1>2, <1>3, <2>6, <2>7, <2>8, AskedByKind
  <2> QED
    BY <2>5, <2>9
<1>5. ASSUME verdict = "cycle"
      PROVE  \E S \in SUBSET Items : S # {} /\ \A i \in S : \E j \in S : Follows(i, j)
  <2>1. stage # "build"
    BY <1>1, <1>5 DEF StageInv, Untouched
  <2>2. PICK C \in SUBSET Named : C # {} /\ \A n \in C : Declared(n) \cap C # {}
    BY <1>1, <1>5 DEF RejectionJustified
  <2>3. Named = {InstanceName(x) : x \in Items}
    BY <1>1, <2>1, NamedItems
  <2> DEFINE S == {i \in Items : InstanceName(i) \in C}
  <2>4. S # {}
    BY <2>2, <2>3
  <2>5. ASSUME NEW i \in S
        PROVE  \E j \in S : Follows(i, j)
    <3>1. PICK n \in C : n \in Declared(InstanceName(i))
      BY <2>2
    <3>2. PICK j \in Items : n = InstanceName(j)
      BY <2>2, <2>3
    <3>3. Asks(items, i, InstanceName(j))
      BY <1>1, <1>3, <2>1, <3>1, <3>2, DeclaredByItems
    <3>4. \A x \in Items : OneWordItem(x)
      BY DEF OneWord, OneWordItem
    <3>5. Follows(i, j)
      BY <1>1, <1>2, <1>3, <3>3, <3>4, AskedIs
    <3> QED
      BY <3>1, <3>2, <3>5
  <2> QED
    BY <2>4, <2>5
<1> QED
  BY <1>4, <1>5

-----------------------------------------------------------------------------
(* The items of an accepted kubernetes document start in the order the       *)
(* document asks for, and no other.                                         *)
THEOREM KubernetesOrdered == Spec => []ItemsOrdered
BY GraphAlways, OrdersItems, PTL

(* A kubernetes document whose items are told apart is refused for an        *)
(* annotation or for an order that goes round in a circle.                  *)
THEOREM KubernetesRefused == Spec => []RefusedForACause
BY GraphAlways, RefusesForACause, PTL
=============================================================================
