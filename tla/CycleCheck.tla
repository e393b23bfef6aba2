------------------------------ MODULE CycleCheck ------------------------------
(***************************************************************************)
(* detect_cycle (RelationshipMapping.py): the depth-first search that      *)
(* accepts or rejects the graph "starts after" of the instances, one       *)
(* neighbour at a time.  The call stack of dfs is the list path; the order *)
(* in which roots and neighbours come up is left open.                     *)
(***************************************************************************)
EXTENDS Naturals, Sequences, SequencesExt

CONSTANTS
  Nodes,   \* the keys of the adjacency dictionary
  Names    \* the names neighbours may have, those of no node included

ASSUME CycleCheckAssumption == Nodes \subseteq Names

VARIABLES
  adjacency,   \* adjacency[n]: the neighbours of n
  color,       \* color[n]: WHITE, GRAY (on path) or BLACK (left)
  path,        \* the nodes dfs is inside of, outermost first
  looked,      \* looked[n]: neighbours dfs(n) has gone past
  verdict,     \* "searching", or "acyclic" (returned), "cycle" (SystemExit)
  found        \* the cycle named by the error message

searchVars == <<color, path, looked, verdict, found>>
checkVars == <<adjacency, searchVars>>

Colored(c) == {n \in Nodes : color[n] = c}

CheckTypeOK ==
  /\ adjacency \in [Nodes -> SUBSET Names]
  /\ color \in [Nodes -> {"WHITE", "GRAY", "BLACK"}]
  /\ path \in Seq(Nodes)
  /\ looked \in [Nodes -> SUBSET Names]
  /\ verdict \in {"searching", "acyclic", "cycle"}
  /\ found \in Seq(Nodes)

Fresh ==
  /\ color = [n \in Nodes |-> "WHITE"]
  /\ path = << >>
  /\ looked = [n \in Nodes |-> {}]
  /\ verdict = "searching"
  /\ found = << >>

CheckInit == adjacency \in [Nodes -> SUBSET Names] /\ Fresh

-----------------------------------------------------------------------------
Enter(n) == /\ color' = [color EXCEPT ![n] = "GRAY"]
            /\ path' = Append(path, n)

(* The loop over the nodes *)
Root(n) ==
  /\ verdict = "searching"
  /\ path = << >>
  /\ color[n] = "WHITE"
  /\ Enter(n)
  /\ UNCHANGED <<adjacency, looked, verdict, found>>

(* dfs(n) comes to its neighbour y. *)
AtNeighbor(n, y) ==
  /\ verdict = "searching"
  /\ path # << >>
  /\ n = Last(path)
  /\ y \in adjacency[n] \ looked[n]

GoesPast(n, y) == looked' = [looked EXCEPT ![n] = @ \cup {y}]

Skip(n, y) ==
  /\ AtNeighbor(n, y)
  /\ y \in Nodes => color[y] = "BLACK"
  /\ GoesPast(n, y)
  /\ UNCHANGED <<adjacency, color, path, verdict, found>>

Descend(n, y) ==
  /\ AtNeighbor(n, y)
  /\ y \in Nodes
  /\ color[y] = "WHITE"
  /\ GoesPast(n, y)
  /\ Enter(y)
  /\ UNCHANGED <<adjacency, verdict, found>>

(* Mutations of Report: a neighbour on the path counts as visited, and the   *)
(* cycle is not cut out of the path.                                        *)
ReportNothing(n, y) ==
  /\ AtNeighbor(n, y)
  /\ y \in Nodes
  /\ color[y] = "GRAY"
  /\ GoesPast(n, y)
  /\ UNCHANGED <<adjacency, color, path, verdict, found>>
ReportWholePath(n, y) ==
  /\ AtNeighbor(n, y)
  /\ y \in Nodes
  /\ color[y] = "GRAY"
  /\ verdict' = "cycle"
  /\ found' = Append(path, y)
  /\ UNCHANGED <<adjacency, color, path, looked>>

Report(n, y) ==
  /\ AtNeighbor(n, y)
  /\ y \in Nodes
  /\ color[y] = "GRAY"
  /\ verdict' = "cycle"
  /\ \E i \in DOMAIN path :
       /\ path[i] = y
       /\ found' = Append(SubSeq(path, i, Len(path)), y)
  /\ UNCHANGED <<adjacency, color, path, looked>>

(* dfs(n) returns. *)
Leave(n) ==
  /\ verdict = "searching"
  /\ path # << >>
  /\ n = Last(path)
  /\ adjacency[n] \subseteq looked[n]
  /\ color' = [color EXCEPT ![n] = "BLACK"]
  /\ path' = Front(path)
  /\ UNCHANGED <<adjacency, looked, verdict, found>>

Accept ==
  /\ verdict = "searching"
  /\ path = << >>
  /\ Colored("WHITE") = {}
  /\ verdict' = "acyclic"
  /\ UNCHANGED <<adjacency, color, path, looked, found>>

CheckNext ==
  \/ \E n \in Nodes : \/ Root(n)
                      \/ Leave(n)
                      \/ \E y \in Names : \/ Skip(n, y)
                                          \/ Descend(n, y)
                                          \/ Report(n, y)
  \/ Accept

CheckSpec == CheckInit /\ [][CheckNext]_checkVars

-----------------------------------------------------------------------------
(* A walk along the edges *)
Walk(p) == \A i \in 1 .. Len(p) - 1 : p[i + 1] \in adjacency[p[i]]

(* A graph has a cycle iff from some of its nodes one can go on for ever     *)
(* without leaving them.                                                    *)
Cyclic(S) == S # {} /\ \A x \in S : adjacency[x] \cap S # {}

(* What detect_cycle accepts is acyclic.                                    *)
Sources == {n \in Nodes : adjacency[n] # {}}
AcceptedIsAcyclic == verdict = "acyclic" => ~ \E S \in SUBSET Sources : Cyclic(S)

(* What it rejects has the cycle the message names.                         *)
CycleIsReal ==
  verdict = "cycle" =>
    /\ Len(found) >= 2
    /\ found[1] = found[Len(found)]
    /\ Walk(found)

(* The invariant behind both.  The path lists the GRAY nodes along edges,    *)
(* each once; what dfs has gone past at one of them was left, or comes next  *)
(* on the path; and no cycle runs through the nodes left.                    *)
PathIsGray ==
  /\ \A i \in DOMAIN path : color[path[i]] = "GRAY"
  /\ \A n \in Nodes : color[n] = "GRAY" => \E i \in DOMAIN path : path[i] = n
  /\ \A i, j \in DOMAIN path : path[i] = path[j] => i = j

Behind ==
  /\ \A n \in Nodes : color[n] = "WHITE" => looked[n] = {}
  /\ \A i \in DOMAIN path : \A y \in looked[path[i]] \cap Nodes :
       \/ color[y] = "BLACK"
       \/ i < Len(path) /\ y = path[i + 1]

BlackClosed == \A n \in Colored("BLACK") : \A y \in adjacency[n] \cap Nodes :
                 color[y] = "BLACK"

BlackAcyclic == \A S \in SUBSET Colored("BLACK") : ~Cyclic(S)

SearchInv ==
  /\ PathIsGray
  /\ Walk(path)
  /\ Behind
  /\ BlackClosed
  /\ BlackAcyclic
  /\ verdict = "acyclic" => \A n \in Nodes : color[n] = "BLACK"
  /\ CycleIsReal
=============================================================================
