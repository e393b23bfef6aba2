--------------------------- MODULE CycleCheckProofs ---------------------------
(***************************************************************************)
(* Proofs about CycleCheck, for every graph, finite or not: what the       *)
(* search accepts is acyclic, and the cycle it reports is one.             *)
(***************************************************************************)
EXTENDS CycleCheck, SequenceTheorems, TLAPS

Inv == CheckTypeOK /\ SearchInv

(* Nothing has been searched yet. *)
LEMMA FreshInv == CheckInit => Inv
BY CycleCheckAssumption
   DEF CheckInit, Fresh, Inv, CheckTypeOK, SearchInv, PathIsGray,
       Walk, Behind, BlackClosed, BlackAcyclic, Cyclic, Colored,
       CycleIsReal

(* The path, its last node and what is left of it without that node. *)
LEMMA PathFacts ==
  ASSUME Inv
  PROVE  /\ Len(path) \in Nat
         /\ DOMAIN path = 1 .. Len(path)
         /\ \A i \in DOMAIN path : path[i] \in Nodes
         /\ path # << >> => Len(path) >= 1
BY LenProperties, EmptySeq DEF Inv, CheckTypeOK

LEMMA TopFacts ==
  ASSUME Inv, NEW n \in Nodes, path # << >>, n = Last(path)
  PROVE  /\ color[n] = "GRAY"
         /\ n = path[Len(path)]
         /\ \A y \in looked[n] \cap Nodes : color[y] = "BLACK"
<1>1. Len(path) \in DOMAIN path /\ path[Len(path)] = n
  BY PathFacts DEF Last
<1>2. color[n] = "GRAY"
  BY <1>1 DEF Inv, SearchInv, PathIsGray
<1>3. ASSUME NEW y \in looked[n] \cap Nodes PROVE color[y] = "BLACK"
  BY <1>1, PathFacts DEF Inv, SearchInv, Behind
<1> QED
  BY <1>1, <1>2, <1>3

-----------------------------------------------------------------------------
(* Going down to a WHITE node y, from nothing or from the top of the path.  *)
LEMMA EnterKeepsPath ==
  ASSUME Inv, NEW y \in Nodes, color[y] = "WHITE", Enter(y)
  PROVE  /\ color' \in [Nodes -> {"WHITE", "GRAY", "BLACK"}]
         /\ path' \in Seq(Nodes)
         /\ PathIsGray'
         /\ Colored("BLACK")' = Colored("BLACK")
<1>1. /\ path' \in Seq(Nodes)
      /\ Len(path') = Len(path) + 1
      /\ \A i \in 1 .. Len(path) : path'[i] = path[i]
      /\ path'[Len(path) + 1] = y
      /\ DOMAIN path' = 1 .. Len(path) + 1
  BY AppendProperties, LenProperties DEF Enter, Inv, CheckTypeOK
<1>2. /\ color' \in [Nodes -> {"WHITE", "GRAY", "BLACK"}]
      /\ color'[y] = "GRAY"
      /\ \A n \in Nodes \ {y} : color'[n] = color[n]
  BY DEF Enter, Inv, CheckTypeOK
<1>3. \A i \in DOMAIN path : path[i] # y
  BY DEF Inv, SearchInv, PathIsGray
<1>4. PathIsGray'
  <2>1. \A i \in DOMAIN path' : color'[path'[i]] = "GRAY"
    BY <1>1, <1>2, <1>3, PathFacts DEF Inv, SearchInv, PathIsGray
  <2>2. ASSUME NEW n \in Nodes, color'[n] = "GRAY"
        PROVE  \E i \in DOMAIN path' : path'[i] = n
    <3>1. CASE n = y
      BY <3>1, <1>1, PathFacts
    <3>2. CASE n # y
      <4>1. PICK i \in DOMAIN path : path[i] = n
        BY <3>2, <2>2, <1>2 DEF Inv, SearchInv, PathIsGray
      <4> QED
        BY <4>1, <1>1, PathFacts
    <3> QED
      BY <3>1, <3>2
  <2>3. ASSUME NEW i \in DOMAIN path', NEW j \in DOMAIN path',
               path'[i] = path'[j]
        PROVE  i = j
    <3>1. i \in DOMAIN path \/ i = Len(path) + 1
      BY <1>1, PathFacts
    <3>2. j \in DOMAIN path \/ j = Len(path) + 1
      BY <1>1, PathFacts
    <3>3. CASE i \in DOMAIN path /\ j \in DOMAIN path
      BY <3>3, <2>3, <1>1, PathFacts DEF Inv, SearchInv, PathIsGray
    <3> QED
      BY <3>1, <3>2, <3>3, <2>3, <1>1, <1>3, PathFacts
  <2> QED
    BY <2>1, <2>2, <2>3 DEF PathIsGray
<1>5. Colored("BLACK")' = Colored("BLACK")
  BY <1>2 DEF Colored
<1> QED
  BY <1>1, <1>2, <1>4, <1>5

(* What is known of the nodes left only depends on which they are. *)
LEMMA BlackUnchanged ==
  ASSUME Inv, Colored("BLACK")' = Colored("BLACK"), adjacency' = adjacency
  PROVE  BlackClosed' /\ BlackAcyclic'
BY DEF Inv, SearchInv, BlackClosed, BlackAcyclic, Cyclic, Colored

LEMMA RootKeeps ==
  ASSUME Inv, NEW n \in Nodes, Root(n)
  PROVE  Inv'
<1>1. /\ Enter(n) /\ color[n] = "WHITE" /\ path = << >>
      /\ verdict = "searching" /\ verdict' = verdict /\ found' = found
      /\ adjacency' = adjacency /\ looked' = looked
  BY DEF Root
<1>2. CheckTypeOK'
  BY <1>1, EnterKeepsPath DEF Inv, CheckTypeOK
<1>3. PathIsGray' /\ Colored("BLACK")' = Colored("BLACK")
  BY <1>1, EnterKeepsPath
<1>4. /\ Len(path') = 1 /\ path'[1] = n /\ DOMAIN path' = 1 .. 1
  BY <1>1, AppendProperties, EmptySeq, LenProperties DEF Enter
<1>5. Walk(path)'
  BY <1>4 DEF Walk
<1>6. Behind'
  <2>1. looked[n] = {}
    BY <1>1 DEF Inv, SearchInv, Behind
  <2>2. \A x \in Nodes : color'[x] = "WHITE" => looked'[x] = {}
    BY <1>1 DEF Inv, CheckTypeOK, SearchInv, Behind, Enter
  <2> QED
    BY <2>1, <2>2, <1>1, <1>4 DEF Behind
<1>7. BlackClosed' /\ BlackAcyclic'
  BY <1>1, <1>3, BlackUnchanged
<1>8. CycleIsReal' /\ (verdict = "acyclic" => \A x \in Nodes : color[x] = "BLACK")'
  BY <1>1 DEF CycleIsReal
<1> QED
  BY <1>2, <1>3, <1>5, <1>6, <1>7, <1>8 DEF Inv, SearchInv

LEMMA SkipKeeps ==
  ASSUME Inv, NEW n \in Nodes, NEW y \in Names, Skip(n, y)
  PROVE  Inv'
<1>1. /\ path # << >> /\ n = Last(path) /\ y \in adjacency[n] \ looked[n]
      /\ y \in Nodes => color[y] = "BLACK"
      /\ looked' = [looked EXCEPT ![n] = @ \cup {y}]
      /\ verdict = "searching" /\ UNCHANGED <<adjacency, color, path, verdict, found>>
  BY DEF Skip, AtNeighbor, GoesPast
<1>2. CheckTypeOK'
  BY <1>1 DEF Inv, CheckTypeOK
<1>3. Behind'
  <2>1. color[n] = "GRAY"
    BY <1>1, TopFacts
  <2>2. \A x \in Nodes : looked'[x] \subseteq looked[x] \cup (IF x = n THEN {y} ELSE {})
    BY <1>1 DEF Inv, CheckTypeOK
  <2>3. \A x \in Nodes : color'[x] = "WHITE" => looked'[x] = {}
    BY <1>1, <2>1, <2>2 DEF Inv, SearchInv, Behind
  <2>4. ASSUME NEW i \in DOMAIN path', NEW z \in looked'[path'[i]] \cap Nodes
        PROVE  color'[z] = "BLACK" \/ (i < Len(path') /\ z = path'[i + 1])
    <3>1. CASE z \in looked[path[i]]
      BY <3>1, <1>1 DEF Inv, SearchInv, Behind
    <3>2. CASE z \notin looked[path[i]]
      <4>1. path[i] \in Nodes
        BY <1>1, PathFacts
      <4>2. z = y
        BY <4>1, <3>2, <2>2, <1>1
      <4> QED
        BY <4>2, <1>1
    <3> QED
      BY <3>1, <3>2
  <2> QED
    BY <2>3, <2>4 DEF Behind
<1>4. PathIsGray' /\ Walk(path)' /\ CycleIsReal'
  BY <1>1 DEF Inv, SearchInv, PathIsGray, Walk, CycleIsReal
<1>5. BlackClosed' /\ BlackAcyclic'
  BY <1>1, BlackUnchanged DEF Colored
<1> QED
  BY <1>1, <1>2, <1>3, <1>4, <1>5 DEF Inv, SearchInv

LEMMA DescendKeeps ==
  ASSUME Inv, NEW n \in Nodes, NEW y \in Names, Descend(n, y)
  PROVE  Inv'
<1>1. /\ path # << >> /\ n = Last(path) /\ y \in adjacency[n] \ looked[n]
      /\ y \in Nodes /\ color[y] = "WHITE" /\ Enter(y)
      /\ looked' = [looked EXCEPT ![n] = @ \cup {y}]
      /\ verdict = "searching" /\ UNCHANGED <<adjacency, verdict, found>>
  BY DEF Descend, AtNeighbor, GoesPast
<1>2. CheckTypeOK'
  BY <1>1, EnterKeepsPath DEF Inv, CheckTypeOK
<1>3. PathIsGray' /\ Colored("BLACK")' = Colored("BLACK")
  BY <1>1, EnterKeepsPath
<1>4. /\ Len(path') = Len(path) + 1
      /\ \A i \in 1 .. Len(path) : path'[i] = path[i]
      /\ path'[Len(path) + 1] = y
      /\ DOMAIN path' = 1 .. Len(path) + 1
  BY <1>1, AppendProperties, LenProperties DEF Enter, Inv, CheckTypeOK
<1>5. n = path[Len(path)] /\ Len(path) \in DOMAIN path /\ color[n] = "GRAY"
  BY <1>1, TopFacts, PathFacts
<1>6. Walk(path)'
  <2> SUFFICES ASSUME NEW i \in 1 .. Len(path') - 1
               PROVE  path'[i + 1] \in adjacency[path'[i]]
    BY <1>1 DEF Walk
  <2>1. CASE i = Len(path)
    BY <2>1, <1>1, <1>4, <1>5, PathFacts
  <2>2. CASE i # Len(path)
    BY <2>2, <1>4, PathFacts DEF Inv, SearchInv, Walk
  <2> QED
    BY <2>1, <2>2
<1>7. Behind'
  <2>1. color' = [color EXCEPT ![y] = "GRAY"]
    BY <1>1 DEF Enter
  <2>2. \A x \in Nodes : looked'[x] = looked[x] \cup (IF x = n THEN {y} ELSE {})
    BY <1>1 DEF Inv, CheckTypeOK
  <2>3. ASSUME NEW x \in Nodes, color'[x] = "WHITE" PROVE looked'[x] = {}
    <3>1. x # y /\ color[x] = "WHITE"
      BY <2>1, <2>3 DEF Inv, CheckTypeOK
    <3> QED
      BY <3>1, <2>2, <1>5 DEF Inv, SearchInv, Behind
  <2>4. looked[y] = {} /\ y # n
    BY <1>1, <1>5 DEF Inv, SearchInv, Behind
  <2>5. ASSUME NEW i \in DOMAIN path', NEW z \in looked'[path'[i]] \cap Nodes
        PROVE  color'[z] = "BLACK" \/ (i < Len(path') /\ z = path'[i + 1])
    <3>1. CASE i = Len(path) + 1
      BY <3>1, <1>4, <2>2, <2>4, <1>1
    <3>2. CASE i \in DOMAIN path
      <4>1. path'[i] = path[i] /\ path[i] \in Nodes
        BY <3>2, <1>4, PathFacts
      <4>2. CASE z \in looked[path[i]]
        <5>1. color[z] = "BLACK" \/ (i < Len(path) /\ z = path[i + 1])
          BY <4>2, <3>2 DEF Inv, SearchInv, Behind
        <5>2. color[z] = "BLACK" => color'[z] = "BLACK"
          BY <2>1, <1>1 DEF Inv, CheckTypeOK
        <5>3. i < Len(path) => i < Len(path') /\ path'[i + 1] = path[i + 1]
          BY <3>2, <1>4, PathFacts
        <5> QED
          BY <5>1, <5>2, <5>3
      <4>3. CASE z \notin looked[path[i]]
        <5>1. path[i] = n /\ z = y
          BY <4>1, <4>3, <2>2
        <5>2. i = Len(path)
          BY <5>1, <3>2, <1>5 DEF Inv, SearchInv, PathIsGray
        <5> QED
          BY <5>1, <5>2, <1>4, PathFacts
      <4> QED
        BY <4>2, <4>3
    <3> QED
      BY <3>1, <3>2, <1>4, PathFacts
  <2> QED
    BY <2>3, <2>5 DEF Behind
<1>8. BlackClosed' /\ BlackAcyclic'
  BY <1>1, <1>3, BlackUnchanged
<1>9. CycleIsReal' /\ (verdict = "acyclic" => \A x \in Nodes : color[x] = "BLACK")'
  BY <1>1 DEF CycleIsReal
<1> QED
  BY <1>2, <1>3, <1>6, <1>7, <1>8, <1>9 DEF Inv, SearchInv

-----------------------------------------------------------------------------
(* The path from its i-th node to its end, then that node again, is a walk   *)
(* if there is an edge from its end back to that node.                      *)
LEMMA CutIsCycle ==
  ASSUME NEW p \in Seq(Nodes), NEW i \in 1 .. Len(p),
         Walk(p), p[i] \in adjacency[p[Len(p)]],
         NEW f, f = Append(SubSeq(p, i, Len(p)), p[i])
  PROVE  f \in Seq(Nodes) /\ Len(f) >= 2 /\ f[1] = f[Len(f)] /\ Walk(f)
<1>1. PICK k \in Nat : k = Len(p)
  BY LenProperties
<1>2. PICK m \in Nat : m = k - i + 1 /\ m >= 1
  <2>1. k - i + 1 \in Nat /\ k - i + 1 >= 1
    BY <1>1
  <2> QED
    BY <2>1
<1> DEFINE t == SubSeq(p, i, k)
<1>3. t \in Seq(Nodes) /\ Len(t) = m /\ \A j \in 1 .. m : t[j] = p[i + j - 1]
  <2>1. \A j \in i .. k : p[j] \in Nodes
    BY <1>1, ElementOfSeq
  <2> QED
    BY <1>1, <1>2, <2>1, SubSeqProperties
<1>4. p[i] \in Nodes
  BY ElementOfSeq
<1>5. f = Append(t, p[i])
  BY <1>1
<1> HIDE DEF t
<1>6. /\ f \in Seq(Nodes)
      /\ Len(f) = m + 1
      /\ \A j \in 1 .. m : f[j] = t[j]
      /\ f[m + 1] = p[i]
  BY <1>3, <1>4, <1>5, AppendProperties
<1>7. f[1] = p[i]
  BY <1>1, <1>2, <1>3, <1>6
<1>8. ASSUME NEW j \in 1 .. m PROVE f[j + 1] \in adjacency[f[j]]
  <2>1. CASE j = m
    BY <2>1, <1>1, <1>2, <1>3, <1>6
  <2>2. CASE j # m
    <3>1. j + 1 \in 1 .. m /\ i + j - 1 \in 1 .. k - 1
      BY <2>2, <1>1, <1>2
    <3>2. f[j] = p[i + j - 1] /\ f[j + 1] = p[i + j]
      BY <3>1, <1>1, <1>3, <1>6
    <3>3. p[(i + j - 1) + 1] \in adjacency[p[i + j - 1]]
      BY <3>1, <1>1 DEF Walk
    <3> QED
      BY <3>2, <3>3, <1>1
  <2> QED
    BY <2>1, <2>2
<1>9. Len(f) - 1 = m /\ Len(f) >= 2 /\ f[Len(f)] = p[i]
  BY <1>2, <1>6
<1> QED
  BY <1>6, <1>7, <1>8, <1>9 DEF Walk

LEMMA ReportKeeps ==
  ASSUME Inv, NEW n \in Nodes, NEW y \in Names, Report(n, y)
  PROVE  Inv'
<1>1. /\ path # << >> /\ n = Last(path) /\ y \in adjacency[n]
      /\ y \in Nodes /\ verdict' = "cycle"
      /\ UNCHANGED <<adjacency, color, path, looked>>
  BY DEF Report, AtNeighbor
<1>2. PICK i \in DOMAIN path :
        path[i] = y /\ found' = Append(SubSeq(path, i, Len(path)), path[i])
  BY DEF Report
<1>3. /\ path \in Seq(Nodes) /\ i \in 1 .. Len(path) /\ Walk(path)
      /\ path[i] \in adjacency[path[Len(path)]]
  BY <1>1, <1>2, PathFacts, TopFacts DEF Inv, CheckTypeOK, SearchInv
<1>4. /\ found' \in Seq(Nodes) /\ Len(found') >= 2
      /\ found'[1] = found'[Len(found')] /\ Walk(found')
  BY <1>2, <1>3, CutIsCycle
<1>5. CycleIsReal'
  BY <1>1, <1>4 DEF CycleIsReal, Walk
<1>6. CheckTypeOK'
  BY <1>1, <1>4 DEF Inv, CheckTypeOK
<1>7. PathIsGray' /\ Walk(path)' /\ Behind'
  BY <1>1 DEF Inv, SearchInv, PathIsGray, Walk, Behind
<1>8. BlackClosed' /\ BlackAcyclic'
  BY <1>1, BlackUnchanged DEF Colored
<1> QED
  BY <1>1, <1>5, <1>6, <1>7, <1>8 DEF Inv, SearchInv

LEMMA FrontProperties ==
  ASSUME NEW S, NEW p \in Seq(S), p # << >>
  PROVE  /\ Front(p) \in Seq(S)
         /\ Len(Front(p)) = Len(p) - 1
         /\ DOMAIN Front(p) = 1 .. Len(p) - 1
         /\ \A j \in 1 .. Len(p) - 1 : Front(p)[j] = p[j]
<1>1. PICK k \in Nat : k = Len(p) - 1 /\ k + 1 = Len(p)
  BY EmptySeq
<1> DEFINE f == SubSeq(p, 1, k)
<1>2. f \in Seq(S) /\ Len(f) = k /\ \A j \in 1 .. k : f[j] = p[j]
  <2>1. \A j \in 1 .. k : p[j] \in S
    BY <1>1, ElementOfSeq
  <2>2. /\ f \in Seq(S)
        /\ Len(f) = IF 1 <= k THEN k - 1 + 1 ELSE 0
        /\ \A j \in 1 .. k - 1 + 1 : f[j] = p[1 + j - 1]
    BY <2>1, SubSeqProperties
  <2> QED
    BY <2>2
<1>3. Front(p) = f
  BY <1>1 DEF Front
<1> HIDE DEF f
<1>4. DOMAIN f = 1 .. k
  BY <1>2, LenProperties
<1> QED
  BY <1>1, <1>2, <1>3, <1>4

(* The node left is on no cycle with the nodes left before: all its          *)
(* neighbours are among these, which have no edge back to it.               *)
LEMMA LeaveKeepsAcyclic ==
  ASSUME Inv, NEW n \in Nodes, color[n] = "GRAY",
         \A y \in adjacency[n] \cap Nodes : color[y] = "BLACK",
         Colored("BLACK")' = Colored("BLACK") \cup {n},
         adjacency' = adjacency
  PROVE  BlackClosed' /\ BlackAcyclic'
<1>1. n \notin Colored("BLACK") /\ Colored("BLACK") \subseteq Nodes
  BY DEF Colored
<1>2. \A x \in Colored("BLACK") \cup {n} :
        adjacency[x] \cap Nodes \subseteq Colored("BLACK")
  BY DEF Inv, SearchInv, BlackClosed, Colored
<1>3. BlackClosed'
  <2>1. \A x \in Colored("BLACK")' : adjacency'[x] \cap Nodes \subseteq Colored("BLACK")'
    BY <1>2
  <2> QED
    BY <2>1 DEF BlackClosed, Colored
<1>4. ASSUME NEW S \in SUBSET (Colored("BLACK") \cup {n}), Cyclic(S)
      PROVE  FALSE
  <2> DEFINE T == S \ {n}
  <2>1. T \in SUBSET Colored("BLACK")
    OBVIOUS
  <2>2. \A x \in S : adjacency[x] \cap T # {}
    BY <1>1, <1>2, <1>4 DEF Cyclic
  <2>3. Cyclic(T)
    <3>1. PICK x \in S : TRUE
      BY <1>4 DEF Cyclic
    <3> QED
      BY <3>1, <2>2 DEF Cyclic
  <2> QED
    BY <2>1, <2>3 DEF Inv, SearchInv, BlackAcyclic
<1>5. BlackAcyclic'
  <2>1. \A S : Cyclic(S)' <=> Cyclic(S)
    BY DEF Cyclic
  <2> QED
    BY <1>4, <2>1 DEF BlackAcyclic
<1> QED
  BY <1>3, <1>5

LEMMA LeaveKeeps ==
  ASSUME Inv, NEW n \in Nodes, Leave(n)
  PROVE  Inv'
<1>1. /\ path # << >> /\ n = Last(path) /\ adjacency[n] \subseteq looked[n]
      /\ color' = [color EXCEPT ![n] = "BLACK"] /\ path' = Front(path)
      /\ verdict = "searching" /\ UNCHANGED <<adjacency, looked, verdict, found>>
  BY DEF Leave
<1>2. /\ color[n] = "GRAY" /\ path[Len(path)] = n
      /\ \A y \in adjacency[n] \cap Nodes : color[y] = "BLACK"
  BY <1>1, TopFacts
<1>3. Len(path) \in Nat /\ Len(path) >= 1 /\ DOMAIN path = 1 .. Len(path)
  BY <1>1, PathFacts
<1>4. /\ path' \in Seq(Nodes)
      /\ Len(path') = Len(path) - 1
      /\ DOMAIN path' = 1 .. Len(path) - 1
      /\ \A i \in 1 .. Len(path) - 1 : path'[i] = path[i]
  BY <1>1, FrontProperties DEF Inv, CheckTypeOK
<1>5. \A x \in Nodes : color'[x] = IF x = n THEN "BLACK" ELSE color[x]
  BY <1>1 DEF Inv, CheckTypeOK
<1>6. CheckTypeOK'
  BY <1>1, <1>4 DEF Inv, CheckTypeOK
<1>7. \A i \in 1 .. Len(path) - 1 : path[i] # n /\ path[i] \in Nodes
  BY <1>2, <1>3, PathFacts DEF Inv, SearchInv, PathIsGray
<1>8. PathIsGray'
  <2>1. \A i \in DOMAIN path' : color'[path'[i]] = "GRAY"
    BY <1>3, <1>4, <1>5, <1>7 DEF Inv, SearchInv, PathIsGray
  <2>2. ASSUME NEW x \in Nodes, color'[x] = "GRAY"
        PROVE  \E i \in DOMAIN path' : path'[i] = x
    <3>1. x # n /\ color[x] = "GRAY"
      BY <2>2, <1>5
    <3>2. PICK i \in DOMAIN path : path[i] = x
      BY <3>1 DEF Inv, SearchInv, PathIsGray
    <3>3. i # Len(path)
      BY <3>1, <3>2, <1>2
    <3> QED
      BY <3>2, <3>3, <1>3, <1>4
  <2>3. \A i, j \in DOMAIN path' : path'[i] = path'[j] => i = j
    BY <1>3, <1>4 DEF Inv, SearchInv, PathIsGray
  <2> QED
    BY <2>1, <2>2, <2>3 DEF PathIsGray
<1>9. Walk(path)'
  BY <1>1, <1>3, <1>4 DEF Inv, SearchInv, Walk
<1>10. Behind'
  <2>1. \A x \in Nodes : color'[x] = "WHITE" => looked'[x] = {}
    BY <1>1, <1>5 DEF Inv, SearchInv, Behind
  <2>2. ASSUME NEW i \in DOMAIN path', NEW z \in looked'[path'[i]] \cap Nodes
        PROVE  color'[z] = "BLACK" \/ (i < Len(path') /\ z = path'[i + 1])
    <3>1. i \in 1 .. Len(path) - 1 /\ path'[i] = path[i]
      BY <1>4
    <3>2. color[z] = "BLACK" \/ z = path[i + 1]
      BY <3>1, <2>2, <1>1, <1>3 DEF Inv, SearchInv, Behind
    <3>3. CASE i = Len(path) - 1
      BY <3>2, <3>3, <1>2, <1>3, <1>5
    <3>4. CASE i # Len(path) - 1
      BY <3>1, <3>2, <3>4, <1>3, <1>4, <1>5
    <3> QED
      BY <3>3, <3>4
  <2> QED
    BY <2>1, <2>2 DEF Behind
<1>11. Colored("BLACK")' = Colored("BLACK") \cup {n}
  BY <1>5 DEF Colored
<1>12. BlackClosed' /\ BlackAcyclic'
  BY <1>1, <1>2, <1>11, LeaveKeepsAcyclic
<1>13. CycleIsReal' /\ (verdict = "acyclic" => \A x \in Nodes : color[x] = "BLACK")'
  BY <1>1 DEF CycleIsReal
<1> QED
  BY <1>6, <1>8, <1>9, <1>10, <1>12, <1>13 DEF Inv, SearchInv

LEMMA AcceptKeeps ==
  ASSUME Inv, Accept
  PROVE  Inv'
<1>1. /\ path = << >> /\ Colored("WHITE") = {} /\ verdict' = "acyclic"
      /\ UNCHANGED <<adjacency, color, path, looked, found>>
  BY DEF Accept
<1>2. \A n \in Nodes : color[n] # "GRAY"
  BY <1>1, PathFacts, EmptySeq DEF Inv, SearchInv, PathIsGray
<1>3. \A n \in Nodes : color[n] = "BLACK"
  BY <1>1, <1>2 DEF Inv, CheckTypeOK, Colored
<1>4. CheckTypeOK'
  BY <1>1 DEF Inv, CheckTypeOK
<1>5. PathIsGray' /\ Walk(path)' /\ Behind'
  BY <1>1 DEF Inv, SearchInv, PathIsGray, Walk, Behind
<1>6. BlackClosed' /\ BlackAcyclic'
  BY <1>1, BlackUnchanged DEF Colored
<1>7. CycleIsReal'
  BY <1>1 DEF CycleIsReal
<1> QED
  BY <1>1, <1>3, <1>4, <1>5, <1>6, <1>7 DEF Inv, SearchInv

-----------------------------------------------------------------------------
LEMMA StepKeeps == Inv /\ [CheckNext]_checkVars => Inv'
<1> SUFFICES ASSUME Inv, [CheckNext]_checkVars PROVE Inv'
  OBVIOUS
<1>1. CASE \E n \in Nodes : Root(n)
  BY <1>1, RootKeeps
<1>2. CASE \E n \in Nodes : Leave(n)
  BY <1>2, LeaveKeeps
<1>3. CASE \E n \in Nodes : \E y \in Names : Skip(n, y)
  BY <1>3, SkipKeeps
<1>4. CASE \E n \in Nodes : \E y \in Names : Descend(n, y)
  BY <1>4, DescendKeeps
<1>5. CASE \E n \in Nodes : \E y \in Names : Report(n, y)
  BY <1>5, ReportKeeps
<1>6. CASE Accept
  BY <1>6, AcceptKeeps
<1>7. CASE UNCHANGED checkVars
  BY <1>7 DEF checkVars, searchVars, Inv, CheckTypeOK, SearchInv, PathIsGray,
              Walk, Behind, BlackClosed, BlackAcyclic, Cyclic,
              Colored, CycleIsReal
<1> QED
  BY <1>1, <1>2, <1>3, <1>4, <1>5, <1>6, <1>7 DEF CheckNext

LEMMA InvAccepts == Inv => AcceptedIsAcyclic
<1> SUFFICES ASSUME Inv, verdict = "acyclic",
                    NEW S \in SUBSET Nodes, Cyclic(S)
             PROVE  FALSE
  BY DEF AcceptedIsAcyclic, Sources
<1>1. S \in SUBSET Colored("BLACK")
  BY DEF Inv, SearchInv, Colored
<1> QED
  BY <1>1 DEF Inv, SearchInv, BlackAcyclic

LEMMA SearchKeepsInv == CheckSpec => []Inv
<1>1. CheckInit => Inv
  BY FreshInv
<1>2. Inv /\ [CheckNext]_checkVars => Inv'
  BY StepKeeps
<1> QED
  BY <1>1, <1>2, PTL DEF CheckSpec

(* What detect_cycle accepts has no cycle, whatever the order in which it    *)
(* comes to roots and neighbours.                                           *)
THEOREM AcceptsOnlyAcyclic == CheckSpec => []AcceptedIsAcyclic
BY SearchKeepsInv, InvAccepts, PTL

(* The cycle named by the message of a rejection is one of the graph: no     *)
(* acyclic graph is rejected.                                               *)
THEOREM RejectsOnlyCycles == CheckSpec => []CycleIsReal
<1>1. Inv => CycleIsReal
  BY DEF Inv, SearchInv
<1> QED
  BY <1>1, SearchKeepsInv, PTL
=============================================================================
