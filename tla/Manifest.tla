------------------------------- MODULE Manifest -------------------------------
(***************************************************************************)
(* The manifest, the file through which the generator tells the manager    *)
(* what it made: write_manifest (ManifestWriter.py) puts down a block of   *)
(* lines per Blueprint, manager_read_manifest (Manager.c) reads them line  *)
(* by line, resolves the peers' names and, in a generate mode,             *)
(* manager_read_input verifies what was read.                              *)
(*                                                                         *)
(* A line is a keyword, or a field with its value: the sequence of the     *)
(* value's words, so that an empty value is << >> and a name may have a    *)
(* blank in it.  A value ends at the newline: a command of several lines   *)
(* goes on in lines of its own.  A last line without newline is not read,  *)
(* so that a file cut anywhere, by the writer's death or by the reader's   *)
(* buffer, is a prefix of its lines.                                       *)
(***************************************************************************)
EXTENDS Naturals, SequencesExt

CONSTANTS
  Words,        \* the words there may be
  Marked,       \* those that end in the letters INSTANCE
  Generations,  \* what may be written
  Damages       \* what may happen to the file before it is read

Identity == {"name", "type", "unit_file_name"}
Optional == {"path", "command"}
InstanceKeys == Identity \cup Optional \cup {"failure_behavior"}
MappingKeys == {"after", "before", "mapping_behavior"}
Keywords == {"GLOBALS", "INSTANCE", "END", "MAPPING", "END_MAPPING",
             "hierarchical_mappings", "blank", "unknown", "text"}

Values == Seq(Words)
Lines == [key : Keywords \cup InstanceKeys \cup MappingKeys, value : Values]

(* The Blueprint of an instance: its command is the sequence of the lines it *)
(* takes, the first of which is the command= line.                          *)
Relations == [keyword : Words, after : Seq(Values), before : Seq(Values)]
Blueprints == [name : Values, type : Values \ {<< >>},
               unit_file_name : Values \ {<< >>}, path : Values,
               command : Seq(Lines),
               failure_behavior : Words \cap {"Abort", "Restart"},
               mapping_behavior : Words \cap {"Ignore", "Cascade"},
               mappings : Seq(Relations)]

(* The mappings of a Blueprint are a dictionary, and the keywords of all its *)
(* Blueprints are collected for the generation (_collect_mapping_names).     *)
WellBuilt(keywords, b) ==
  /\ b.command # << >> /\ b.command[1].key = "command"
  /\ \A p, q \in DOMAIN b.mappings :
       b.mappings[p].keyword = b.mappings[q].keyword => p = q
  /\ \A p \in DOMAIN b.mappings : b.mappings[p].keyword \in ToSet(keywords)

ASSUME ManifestAssumption ==
  /\ Generations \subseteq [keywords : Values, blueprints : Seq(Blueprints)]
  /\ \A g \in Generations : \A i \in DOMAIN g.blueprints :
       WellBuilt(g.keywords, g.blueprints[i])
  /\ Damages \subseteq {"none", "cut", "dropped", "doubled", "swapped", "misspelt"}

-----------------------------------------------------------------------------
(* The writer *)
Line(k, v) == [key |-> k, value |-> v]
Mark(k) == Line(k, << >>)

MappingLines(b, m) ==
  << Line("MAPPING", <<m.keyword>>),
     Line("after", FlattenSeq(m.after)),
     Line("before", FlattenSeq(m.before)),
     Line("mapping_behavior", <<b.mapping_behavior>>),
     Mark("END_MAPPING") >>

InstanceLines(b) ==
  << Mark("INSTANCE"), Line("name", b.name), Line("type", b.type),
     Line("unit_file_name", b.unit_file_name), Line("path", b.path) >>
  \o b.command
  \o << Line("failure_behavior", <<b.failure_behavior>>) >>
  \o FlattenSeq([i \in DOMAIN b.mappings |-> MappingLines(b, b.mappings[i])])
  \o << Mark("END"), Mark("blank") >>

Written(g) ==
  << Mark("GLOBALS"), Line("hierarchical_mappings", g.keywords),
     Mark("END"), Mark("blank") >>
  \o FlattenSeq([i \in DOMAIN g.blueprints |-> InstanceLines(g.blueprints[i])])

(* What a damage makes of a file at its i-th line *)
Damaged(f, d, i) ==
  CASE d = "none"     -> f
    [] d = "cut"      -> SubSeq(f, 1, i - 1)
    [] d = "dropped"  -> RemoveAt(f, i)
    [] d = "doubled"  -> InsertAt(f, i, f[i])
    [] d = "misspelt" -> [f EXCEPT ![i].key = "unknown"]
    [] d = "swapped"  -> IF i = Len(f) THEN f
                         ELSE [f EXCEPT ![i] = f[i + 1], ![i + 1] = f[i]]

-----------------------------------------------------------------------------
VARIABLES
  generation,  \* what was written
  damage,      \* what happened to the file
  generating,  \* TRUE if manager_read_input reads, in a generate mode
  file,        \* the lines, as they are read
  at,          \* the line the reader has come to
  block,       \* the block it is in
  names,       \* mapping_names
  count,       \* instance_count: the instances that were allocated
  list,        \* instance_list, up to the instance being read
  claimed,     \* the mappings the instance being read has a sub-block for
  current,     \* the mapping of the sub-block being read, "none" outside
  seen,        \* the seen_ flags that are set
  verdict      \* "reading", "resolved", "accepted", "rejected" or "crashed"

inputs == <<generation, damage, generating, file, count>>
vars == <<inputs, at, block, names, list, claimed, current, seen, verdict>>

Blocks == {"OUTSIDE", "IN_GLOBALS", "IN_INSTANCE", "IN_MAPPING"}

TypeOK ==
  /\ generation \in Generations
  /\ damage \in Damages
  /\ generating \in BOOLEAN
  /\ file \in Seq(Lines)
  /\ at \in 1 .. Len(file) + 1
  /\ block \in Blocks
  /\ names \in Values
  /\ count \in 0 .. Len(file)
  /\ list \in Seq([fields : [InstanceKeys -> Values],
                   peers : [ToSet(names) -> [MappingKeys -> Values]]])
  /\ claimed \subseteq ToSet(names)
  /\ current \in ToSet(names) \cup {"none"}
  /\ seen \subseteq MappingKeys \cup {"failure_behavior"}
  /\ verdict \in {"reading", "resolved", "accepted", "rejected", "crashed"}

(* Mutation of Counted: the blocks are counted by their names. *)
CountedByNames(f) == Cardinality({i \in DOMAIN f : f[i].key = "name"})

(* The count of INSTANCE blocks is a count of the text INSTANCE at the end   *)
(* of a line.                                                               *)
EndsInINSTANCE(l) == \/ l.key = "INSTANCE"
                     \/ l.value # << >> /\ Last(l.value) \in Marked
Counted(f) == Cardinality({i \in DOMAIN f : EndsInINSTANCE(f[i])})

(* An instance as calloc leaves it, for the mapping names known by then.     *)
(* Its mutation allocates no room for them.                                 *)
ZeroedWithoutMappings == [fields |-> [k \in InstanceKeys |-> << >>], peers |-> << >>]
Zeroed == [fields |-> [k \in InstanceKeys |-> << >>],
           peers |-> [m \in ToSet(names) |-> [k \in MappingKeys |-> << >>]]]

(* The reader, when it has the file in its buffer *)
Opened ==
  /\ count = Counted(file)
  /\ at = 1
  /\ block = "OUTSIDE"
  /\ names = << >>
  /\ list = << >>
  /\ claimed = {}
  /\ current = "none"
  /\ seen = {}
  /\ verdict = "reading"

Init ==
  /\ generation \in Generations
  /\ damage \in Damages
  /\ generating \in {g \in BOOLEAN : g => damage \in {"none", "cut"}}
  /\ LET f == Written(generation)
     IN  \E i \in IF damage = "none" THEN {1} ELSE DOMAIN f :
           file = Damaged(f, damage, i)
  /\ Opened

-----------------------------------------------------------------------------
(* Mutation of Complete: a missing unit_file_name passes. *)
CompleteUnnamed(ins) ==
  /\ \A k \in Identity \ {"unit_file_name"} : ins.fields[k] # << >>
  /\ "failure_behavior" \in seen
  /\ \A i \in 1 .. Len(list) - 1 :
       list[i].fields["name"] # ins.fields["name"]

(* Mutation of Complete: the name may be that of an instance before. *)
CompleteTwice(ins) ==
  /\ \A k \in Identity : ins.fields[k] # << >>
  /\ "failure_behavior" \in seen

(* What END requires of the instance *)
Complete(ins) ==
  /\ \A k \in Identity : ins.fields[k] # << >>
  /\ "failure_behavior" \in seen
  /\ \A i \in 1 .. Len(list) - 1 :
       list[i].fields["name"] # ins.fields["name"]

Behaviors(k) == CASE k = "failure_behavior" -> {<<"Abort">>, <<"Restart">>}
                  [] k = "mapping_behavior" -> {<<"Ignore">>, <<"Cascade">>}

(* The fields each block allows.  Outside of all blocks a line is skipped.   *)
FieldAllowed(l) ==
  \/ block = "OUTSIDE"
  \/ block = "IN_GLOBALS" /\ l.key = "hierarchical_mappings"
  \/ block = "IN_INSTANCE" /\ l.key \in Identity \cup Optional
  \/ /\ \/ block = "IN_INSTANCE" /\ l.key = "failure_behavior"
        \/ block = "IN_MAPPING" /\ l.key \in MappingKeys
     /\ l.key \notin seen
     /\ l.key \in {"failure_behavior", "mapping_behavior"} =>
          l.value \in Behaviors(l.key)

(* The tests of the line, by which the whole file is rejected *)
Allowed(l) ==
  CASE l.key = "blank"       -> TRUE
    [] l.key = "GLOBALS"     -> block = "OUTSIDE" /\ list = << >>
    [] l.key = "INSTANCE"    -> block = "OUTSIDE"
    [] l.key = "END"         -> /\ block # "IN_MAPPING"
                                /\ block = "IN_INSTANCE" => Complete(Last(list))
    [] l.key = "MAPPING"     -> /\ block = "IN_INSTANCE"
                                /\ l.value # << >>
                                /\ Head(l.value) \in ToSet(names) \ claimed
    [] l.key = "END_MAPPING" -> block = "IN_MAPPING" /\ MappingKeys \subseteq seen
    [] OTHER                 -> FieldAllowed(l)

Reads(keys) ==
  /\ verdict = "reading"
  /\ at <= Len(file)
  /\ file[at].key \in keys
  /\ Allowed(file[at])
  /\ at' = at + 1
  /\ UNCHANGED <<inputs, verdict>>

ReadGlobals ==
  /\ Reads({"GLOBALS"})
  /\ block' = "IN_GLOBALS"
  /\ UNCHANGED <<names, list, claimed, current, seen>>

ReadInstance ==
  /\ Reads({"INSTANCE"})
  /\ block' = "IN_INSTANCE"
  /\ list' = Append(list, Zeroed)
  /\ claimed' = {}
  /\ seen' = seen \ {"failure_behavior"}
  /\ UNCHANGED <<names, current>>

(* Mutation of ReadMapping: the flags of the sub-block before are kept. *)
ReadMappingOnceSeen ==
  /\ Reads({"MAPPING"})
  /\ block' = "IN_MAPPING"
  /\ current' = Head(file[at].value)
  /\ claimed' = claimed \cup {current'}
  /\ UNCHANGED <<names, list, seen>>

ReadMapping ==
  /\ Reads({"MAPPING"})
  /\ block' = "IN_MAPPING"
  /\ current' = Head(file[at].value)
  /\ claimed' = claimed \cup {current'}
  /\ seen' = seen \ MappingKeys
  /\ UNCHANGED <<names, list>>

ReadEndMapping ==
  /\ Reads({"END_MAPPING"})
  /\ block' = "IN_INSTANCE"
  /\ current' = "none"
  /\ UNCHANGED <<names, list, claimed, seen>>

ReadEnd ==
  /\ Reads({"END"})
  /\ block' = "OUTSIDE"
  /\ UNCHANGED <<names, list, claimed, current, seen>>

(* A field of the instance or of the mapping being read *)
Stored(ins, l) ==
  IF block = "IN_MAPPING" THEN [ins EXCEPT !.peers[current][l.key] = l.value]
                          ELSE [ins EXCEPT !.fields[l.key] = l.value]

ReadField ==
  /\ block \in {"IN_INSTANCE", "IN_MAPPING"}
  /\ Reads(InstanceKeys \cup MappingKeys)
  /\ list' = [list EXCEPT ![Len(list)] = Stored(@, file[at])]
  /\ seen' = seen \cup ({file[at].key} \ (Identity \cup Optional))
  /\ UNCHANGED <<block, names, claimed, current>>

(* A list of names that is empty leaves mapping_names as it was. *)
ReadGlobalsField ==
  /\ block = "IN_GLOBALS"
  /\ Reads({"hierarchical_mappings"})
  /\ names' = IF file[at].value = << >> THEN names ELSE file[at].value
  /\ UNCHANGED <<block, list, claimed, current, seen>>

Skip ==
  /\ \/ Reads({"blank"})
     \/ /\ block = "OUTSIDE"
        /\ Reads(InstanceKeys \cup MappingKeys \cup
                 {"hierarchical_mappings", "unknown", "text"})
  /\ UNCHANGED <<block, names, list, claimed, current, seen>>

Ends(v) == /\ verdict' = v
           /\ UNCHANGED <<inputs, at, block, names, claimed, current, seen>>

Reject ==
  /\ verdict = "reading"
  /\ at <= Len(file)
  /\ ~Allowed(file[at])
  /\ Ends("rejected")
  /\ UNCHANGED list

-----------------------------------------------------------------------------
(* manifest_resolve_pointers: each word of after= and before= is looked up   *)
(* among the names.  A resolved peer is kept as its name.                    *)
NamesRead == {list[i].fields["name"] : i \in DOMAIN list}

(* Its mutation looks at one side only. *)
AfterKnown == \A i \in DOMAIN list, m \in ToSet(names) :
                \A w \in ToSet(list[i].peers[m]["after"]) : <<w>> \in NamesRead
PeersKnown ==
  \A i \in DOMAIN list, m \in ToSet(names), k \in {"after", "before"} :
    \A w \in ToSet(list[i].peers[m][k]) : <<w>> \in NamesRead

(* The instances that were allocated and never read *)
Unread == [i \in 1 .. count - Len(list) |-> Zeroed]

(* The end of the file.  With mappings, the resolution of an instance that   *)
(* was never read writes through its null arrays.                           *)
Resolve ==
  /\ verdict = "reading"
  /\ at > Len(file)
  /\ \/ /\ block # "OUTSIDE" \/ ~PeersKnown
        /\ Ends("rejected")
        /\ UNCHANGED list
     \/ /\ block = "OUTSIDE" /\ PeersKnown
        /\ names # << >> /\ count > Len(list)
        /\ Ends("crashed")
        /\ UNCHANGED list
     \/ /\ block = "OUTSIDE" /\ PeersKnown
        /\ names = << >> \/ count = Len(list)
        /\ list' = list \o Unread
        /\ Ends("resolved")

(* manager_read_input verifies that there are instances and that they have   *)
(* an identity; main takes what manager_read_manifest returns as it is.      *)
Verify ==
  /\ verdict = "resolved"
  /\ Ends(IF generating /\ (\/ list = << >>
                            \/ \E i \in DOMAIN list, k \in {"name", "unit_file_name"} :
                                 list[i].fields[k] = << >>)
            THEN "rejected" ELSE "accepted")
  /\ UNCHANGED list

Ended == verdict \in {"accepted", "rejected", "crashed"} /\ UNCHANGED vars

Next == \/ ReadGlobals \/ ReadGlobalsField
        \/ ReadInstance \/ ReadField \/ ReadEnd
        \/ ReadMapping \/ ReadEndMapping
        \/ Skip \/ Reject \/ Resolve \/ Verify
        \/ Ended

Spec == Init /\ [][Next]_vars

-----------------------------------------------------------------------------
Blueprint(i) == generation.blueprints[i]
Indices == DOMAIN generation.blueprints
Mappings(i) == ToSet(Blueprint(i).mappings)
PeersOf(i) == UNION {ToSet(m.after) \cup ToSet(m.before) : m \in Mappings(i)}

(* Is ins the instance Blueprint b describes: its identity, its behaviours,  *)
(* and its peers on both sides of every mapping?                             *)
Describes(b, ins) ==
  /\ \A k \in Identity : ins.fields[k] = b[k]
  /\ ins.fields["failure_behavior"] = <<b.failure_behavior>>
  /\ ins.fields["path"] \in {b.path, << >>}
  /\ ins.fields["command"] \in {Head(b.command).value, << >>}
  /\ {m.keyword : m \in ToSet(b.mappings)} \subseteq DOMAIN ins.peers
  /\ \A m \in ToSet(b.mappings) :
       /\ ins.peers[m.keyword]["mapping_behavior"] = <<b.mapping_behavior>>
       /\ \A k \in {"after", "before"} :
            [j \in DOMAIN ins.peers[m.keyword][k] |->
               << ins.peers[m.keyword][k][j] >>] = m[k]

(* A Blueprint whose peers have names of one word: a blank in a name makes   *)
(* two peers of one.                                                        *)
OneWordPeers(b) == \A m \in ToSet(b.mappings) :
                     \A n \in ToSet(m.after \o m.before) : Len(n) = 1

Known == {Blueprint(i).name : i \in Indices}
Ordinary ==
  /\ Indices # {}
  /\ \A l \in ToSet(file) : EndsInINSTANCE(l) => l.key = "INSTANCE"
  /\ \A i \in Indices : /\ Blueprint(i).name # << >>
                        /\ OneWordPeers(Blueprint(i))
                        /\ Len(Blueprint(i).command) = 1
                        /\ PeersOf(i) \subseteq Known
                        /\ \A j \in Indices \ {i} : Blueprint(i).name # Blueprint(j).name

(* An instance that was counted and never read.  Without mappings there are  *)
(* no arrays to resolve, and where nothing verifies the instances, in a      *)
(* start mode, the manager is left with it.                                  *)
Imagined(ins) == ins = Zeroed /\ names = << >> /\ ~generating

(* The index of the instance being read never reaches the number of those    *)
(* that were allocated, although instances are counted and read by different *)
(* rules.                                                                    *)
WithinAllocated == Len(list) <= count

(* Has the instance an identity, a behaviour when it fails, and for every    *)
(* mapping a behaviour, or no part in it?                                    *)
Filled(ins) ==
  /\ \A k \in Identity : ins.fields[k] # << >>
  /\ ins.fields["failure_behavior"] \in Behaviors("failure_behavior")
  /\ \A m \in DOMAIN ins.peers :
       \/ ins.peers[m]["mapping_behavior"] \in Behaviors("mapping_behavior")
       \/ \A k \in MappingKeys : ins.peers[m][k] = << >>

(* "The reader rejects unknown line keys, duplicate names, unresolved peer   *)
(* references, ... MAPPING sub-blocks that miss any of the four required     *)
(* lines, behavior tokens outside the enum value sets, and unclosed blocks": *)
(* whatever the file holds and however it came about, the instances that are *)
(* accepted are filled in, have names of their own, and relate to each other *)
(* only.                                                                     *)
WellFormed ==
  verdict = "accepted" =>
    /\ PeersKnown
    /\ \A i \in DOMAIN list : Filled(list[i]) \/ Imagined(list[i])
    /\ \A i, j \in DOMAIN list :
         /\ list[i].fields["name"] = list[j].fields["name"]
         /\ list[i].fields["name"] # << >>
         => i = j

(* What the generator writes the manager reads: a manifest nothing happened  *)
(* to, of distinct names of one word, commands of one line, no text that     *)
(* passes for the start of a block and peers that exist, is accepted,        *)
(* whatever mappings each instance has.                                      *)
NeverRefused ==
  damage = "none" /\ Ordinary => verdict \notin {"rejected", "crashed"}

(* Never half an instance: whatever line of the file was lost, doubled,      *)
(* moved or misspelt, and wherever the file was cut, an accepted instance is *)
(* one that was written, with its identity, its behaviours and all its peers *)
(* ("The reader rejects ..."); only its path or command may be missing.      *)
(* Instances that are only imagined are the exception named above.           *)
WholeInstances ==
  verdict = "accepted" =>
    \A i \in DOMAIN list :
      \/ Imagined(list[i])
      \/ \E j \in Indices :
           \/ Describes(Blueprint(j), list[i])
           \/ /\ list[i].fields["name"] = Blueprint(j).name
              /\ ~OneWordPeers(Blueprint(j))

Lost == {i \in Indices : Blueprint(i).name \notin NamesRead}

(* No instance goes missing from under the others: a manifest that was cut   *)
(* is accepted only without its last instances, and none of those left out   *)
(* is a peer of one that was read, on either side; any other single damage   *)
(* can lose, unnoticed, only an instance without mappings.                   *)
NoneLostUnnoticed ==
  verdict = "accepted" =>
    /\ \A i \in Lost, j \in Indices \ Lost :
         /\ OneWordPeers(Blueprint(i)) => Blueprint(j).name \notin PeersOf(i)
         /\ OneWordPeers(Blueprint(j)) => Blueprint(i).name \notin PeersOf(j)
    /\ CASE damage = "none" -> Lost = {}
         [] damage = "cut"  -> \A i \in Lost, j \in Indices : i < j => j \in Lost
         [] OTHER           -> \A i \in Lost : Mappings(i) = {}

=============================================================================
