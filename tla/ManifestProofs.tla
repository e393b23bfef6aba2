---------------------------- MODULE ManifestProofs ----------------------------
(***************************************************************************)
(* Theorems about Manifest, for every file: what is read never outgrows    *)
(* what was counted, and what is accepted is well formed.  The reader is   *)
(* first considered alone, on any sequence of lines, then on what the      *)
(* writer wrote and the file suffered.  For a file that was only cut, or   *)
(* left as it was, the reader is then followed line by line: what the      *)
(* generator writes is accepted, and read as it was written.               *)
(***************************************************************************)
EXTENDS Manifest, SequenceTheorems, FiniteSetTheorems, TLAPS

Slots(ns) == [fields : [InstanceKeys -> Values],
              peers : [ToSet(ns) -> [MappingKeys -> Values]]]

ReaderTypeOK ==
  /\ generating \in BOOLEAN
  /\ file \in Seq(Lines)
  /\ at \in 1 .. Len(file) + 1
  /\ block \in Blocks
  /\ names \in Values
  /\ count = Counted(file)
  /\ list \in Seq(Slots(names))
  /\ claimed \subseteq ToSet(names)
  /\ current \in ToSet(names) \cup {"none"}
  /\ seen \subseteq MappingKeys \cup {"failure_behavior"}
  /\ verdict \in {"reading", "resolved", "accepted", "rejected", "crashed"}

(* The names of the mappings are final when the first instance is read, and  *)
(* a sub-block belongs to an instance.                                      *)
BlockInv ==
  /\ block = "IN_GLOBALS" => list = << >>
  /\ list = << >> => claimed = {} /\ current = "none"
  /\ block \in {"IN_INSTANCE", "IN_MAPPING"} => list # << >>
  /\ block = "IN_MAPPING" => current \in claimed

(* Every instance read was counted. *)
CountedUpTo(n) == {i \in 1 .. n - 1 : EndsInINSTANCE(file[i])}
CountInv ==
  /\ verdict = "reading" => Len(list) <= Cardinality(CountedUpTo(at))
  /\ Len(list) <= count

(* The instances whose END was read, and the one that is being read *)
Inside == block \in {"IN_INSTANCE", "IN_MAPPING"}
Closed == {i \in 1 .. Len(list) : Inside => i < Len(list)}

ClosedInv == \A i \in Closed : Filled(list[i])
NamesInv == \A i, j \in Closed : list[i].fields["name"] = list[j].fields["name"] => i = j

Behaved(p) == p["mapping_behavior"] \in Behaviors("mapping_behavior")
Unused(p) == \A k \in MappingKeys : p[k] = << >>
Holds(ins) ==
  /\ "failure_behavior" \in seen =>
       ins.fields["failure_behavior"] \in Behaviors("failure_behavior")
  /\ \A m \in ToSet(names) :
       /\ m \notin claimed => Unused(ins.peers[m])
       /\ m \in claimed /\ (block = "IN_MAPPING" => m # current) => Behaved(ins.peers[m])
  /\ block = "IN_MAPPING" /\ "mapping_behavior" \in seen => Behaved(ins.peers[current])
OpenInv == Inside => Holds(list[Len(list)])

ReadingInv == verdict = "reading" => ClosedInv /\ NamesInv /\ OpenInv

(* What is left to accept once the peers are resolved *)
ResolvedInv ==
  verdict \in {"resolved", "accepted"} =>
    /\ PeersKnown
    /\ \A i \in DOMAIN list : Filled(list[i]) \/ (names = << >> /\ list[i] = Zeroed)
    /\ \A i, j \in DOMAIN list :
         /\ list[i].fields["name"] = list[j].fields["name"]
         /\ list[i].fields["name"] # << >>
         => i = j
    /\ verdict = "accepted" /\ generating =>
         \A i \in DOMAIN list : list[i].fields["name"] # << >>

ReaderInv == ReaderTypeOK /\ BlockInv /\ CountInv /\ ReadingInv /\ ResolvedInv

-----------------------------------------------------------------------------
LEMMA InvImplies == ReaderInv => WithinAllocated /\ WellFormed
<1> SUFFICES ASSUME ReaderInv PROVE WithinAllocated /\ WellFormed
  OBVIOUS
<1>1. WithinAllocated
  BY DEF ReaderInv, CountInv, WithinAllocated
<1>2. Zeroed.fields["name"] = << >>
  BY DEF Zeroed, InstanceKeys, Identity
<1>3. WellFormed
  BY <1>2 DEF ReaderInv, ResolvedInv, WellFormed, Imagined
<1> QED
  BY <1>1, <1>3

(* Counting the lines read so far *)
LEMMA CountSteps ==
  ASSUME NEW f, NEW n \in Nat \ {0}
  PROVE  LET C(k) == {i \in 1 .. k - 1 : EndsInINSTANCE(f[i])}
         IN  /\ IsFiniteSet(C(n)) /\ Cardinality(C(n)) \in Nat
             /\ Cardinality(C(n + 1)) \in Nat
             /\ Cardinality(C(n)) <= Cardinality(C(n + 1))
             /\ EndsInINSTANCE(f[n]) => Cardinality(C(n + 1)) = Cardinality(C(n)) + 1
             /\ Cardinality(C(n)) <= n - 1
<1> DEFINE C(k) == {i \in 1 .. k - 1 : EndsInINSTANCE(f[i])}
<1>1. ASSUME NEW k \in Nat \ {0}
      PROVE  IsFiniteSet(C(k)) /\ Cardinality(C(k)) \in Nat /\ Cardinality(C(k)) <= k - 1
  <2>1. k - 1 \in Nat /\ C(k) \subseteq 1 .. k - 1
    BY <1>1
  <2>2. IsFiniteSet(1 .. k - 1) /\ Cardinality(1 .. k - 1) = k - 1
    BY <2>1, FS_Interval
  <2> HIDE DEF C
  <2> QED
    BY <2>1, <2>2, FS_Subset, FS_CardinalityType
<1>2. C(n + 1) = IF EndsInINSTANCE(f[n]) THEN C(n) \cup {n} ELSE C(n)
  OBVIOUS
<1>3. n \notin C(n)
  OBVIOUS
<1> HIDE DEF C
<1>4. Cardinality(C(n) \cup {n}) = Cardinality(C(n)) + 1
  BY <1>1, <1>3, FS_AddElement
<1>5. /\ IsFiniteSet(C(n)) /\ Cardinality(C(n)) \in Nat
      /\ Cardinality(C(n + 1)) \in Nat
      /\ Cardinality(C(n)) <= Cardinality(C(n + 1))
      /\ EndsInINSTANCE(f[n]) => Cardinality(C(n + 1)) = Cardinality(C(n)) + 1
      /\ Cardinality(C(n)) <= n - 1
  BY <1>1, <1>2, <1>4
<1> QED
  BY <1>5 DEF C

(* What every line that is read leaves alone or moves *)
LEMMA ReadsLine ==
  ASSUME ReaderInv, NEW keys, Reads(keys)
  PROVE  /\ verdict = "reading" /\ at \in 1 .. Len(file) /\ at \in Nat \ {0}
         /\ file[at] \in Lines /\ file[at].key \in keys /\ file[at].value \in Values
         /\ Allowed(file[at])
         /\ at' = at + 1 /\ at' \in 1 .. Len(file) + 1
         /\ UNCHANGED <<generating, file, count, verdict>>
         /\ count' = Counted(file')
         /\ Len(list') = Len(list) => CountInv'
         /\ file[at].key = "INSTANCE" /\ Len(list') = Len(list) + 1 => CountInv'
<1>1. /\ verdict = "reading" /\ at <= Len(file) /\ file[at].key \in keys
      /\ Allowed(file[at]) /\ at' = at + 1
      /\ UNCHANGED <<generating, file, count, verdict>>
  BY DEF Reads, inputs
<1>2. file \in Seq(Lines) /\ at \in 1 .. Len(file) + 1 /\ count = Counted(file)
  BY DEF ReaderInv, ReaderTypeOK
<1>3. Len(file) \in Nat /\ at \in 1 .. Len(file) /\ at \in Nat \ {0}
  BY <1>1, <1>2
<1>4. file[at] \in Lines
  BY <1>2, <1>3, ElementOfSeq
<1>5. file[at].value \in Values
  BY <1>4 DEF Lines
<1>6. /\ Cardinality(CountedUpTo(at)) \in Nat
      /\ Cardinality(CountedUpTo(at + 1)) \in Nat
      /\ Cardinality(CountedUpTo(at)) <= Cardinality(CountedUpTo(at + 1))
      /\ EndsInINSTANCE(file[at]) =>
           Cardinality(CountedUpTo(at + 1)) = Cardinality(CountedUpTo(at)) + 1
  BY <1>3, CountSteps DEF CountedUpTo
<1>7. CountedUpTo(at)' = CountedUpTo(at + 1)
  BY <1>1 DEF CountedUpTo
<1>8. Cardinality(CountedUpTo(at + 1)) <= count /\ count \in Nat
  <2>1. {i \in DOMAIN file : EndsInINSTANCE(file[i])} \subseteq 1 .. Len(file)
    BY <1>2, <1>3
  <2>2. CountedUpTo(at + 1) \subseteq {i \in DOMAIN file : EndsInINSTANCE(file[i])}
    BY <1>2, <1>3 DEF CountedUpTo
  <2>3. IsFiniteSet({i \in DOMAIN file : EndsInINSTANCE(file[i])})
    <3>1. IsFiniteSet(1 .. Len(file))
      BY <1>3, FS_Interval
    <3> QED
      BY <2>1, <3>1, FS_Subset
  <2> QED
    BY <1>2, <2>2, <2>3, FS_Subset, FS_CardinalityType DEF Counted
<1>9. Len(list) <= Cardinality(CountedUpTo(at)) /\ Len(list) \in Nat
  BY <1>1 DEF ReaderInv, CountInv, ReaderTypeOK
<1>10. Len(list') = Len(list) => CountInv'
  BY <1>1, <1>6, <1>7, <1>8, <1>9 DEF CountInv
<1>11. file[at].key = "INSTANCE" /\ Len(list') = Len(list) + 1 => CountInv'
  BY <1>1, <1>6, <1>7, <1>8, <1>9 DEF CountInv, EndsInINSTANCE
<1> QED
  BY <1>1, <1>2, <1>3, <1>4, <1>5, <1>10, <1>11

LEMMA ListFacts ==
  ASSUME ReaderInv
  PROVE  /\ list \in Seq(Slots(names))
         /\ Len(list) \in Nat /\ DOMAIN list = 1 .. Len(list)
         /\ \A i \in 1 .. Len(list) :
              /\ list[i] \in Slots(names)
              /\ list[i].fields \in [InstanceKeys -> Values]
              /\ list[i].peers \in [ToSet(names) -> [MappingKeys -> Values]]
         /\ list # << >> => Len(list) \in 1 .. Len(list)
<1>1. list \in Seq(Slots(names)) /\ Len(list) \in Nat /\ DOMAIN list = 1 .. Len(list)
  BY DEF ReaderInv, ReaderTypeOK
<1>2. \A i \in 1 .. Len(list) : list[i] \in Slots(names)
  BY <1>1, ElementOfSeq
<1>3. list # << >> => Len(list) \in 1 .. Len(list)
  BY <1>1
<1> QED
  BY <1>1, <1>2, <1>3 DEF Slots

-----------------------------------------------------------------------------
LEMMA GlobalsStep == ASSUME ReaderInv, ReadGlobals PROVE ReaderInv'
<1>1. Reads({"GLOBALS"})
  BY DEF ReadGlobals
<1>2. /\ block' = "IN_GLOBALS" /\ list = << >>
      /\ UNCHANGED <<names, list, claimed, current, seen>>
  BY <1>1, ReadsLine DEF ReadGlobals, Allowed
<1>3. ReaderTypeOK'
  BY <1>1, <1>2, ReadsLine DEF ReaderInv, ReaderTypeOK, Blocks
<1>4. BlockInv' /\ CountInv'
  BY <1>1, <1>2, ReadsLine DEF ReaderInv, BlockInv
<1>5. ReadingInv'
  BY <1>2 DEF ReadingInv, ClosedInv, NamesInv, OpenInv, Closed, Inside
<1>6. ResolvedInv'
  BY <1>1, ReadsLine DEF ResolvedInv
<1> QED
  BY <1>3, <1>4, <1>5, <1>6 DEF ReaderInv

LEMMA GlobalsFieldStep == ASSUME ReaderInv, ReadGlobalsField PROVE ReaderInv'
<1>1. Reads({"hierarchical_mappings"})
  BY DEF ReadGlobalsField
<1>2. /\ block' = "IN_GLOBALS" /\ list = << >> /\ list' = << >>
      /\ claimed = {} /\ current = "none" /\ claimed' = {} /\ current' = "none"
      /\ seen' = seen
      /\ names' \in Values
  BY <1>1, ReadsLine DEF ReadGlobalsField, ReaderInv, BlockInv, ReaderTypeOK
<1>3. ReaderTypeOK'
  BY <1>1, <1>2, ReadsLine DEF ReaderInv, ReaderTypeOK, Blocks
<1>4. BlockInv' /\ CountInv'
  BY <1>1, <1>2, ReadsLine DEF ReaderInv, BlockInv
<1>5. ReadingInv'
  BY <1>2 DEF ReadingInv, ClosedInv, NamesInv, OpenInv, Closed, Inside
<1>6. ResolvedInv'
  BY <1>1, ReadsLine DEF ResolvedInv
<1> QED
  BY <1>3, <1>4, <1>5, <1>6 DEF ReaderInv

LEMMA ZeroedFacts ==
  ASSUME ReaderInv
  PROVE  /\ Zeroed \in Slots(names)
         /\ \A m \in ToSet(names) : Unused(Zeroed.peers[m])
         /\ \A k \in InstanceKeys : Zeroed.fields[k] = << >>
<1>1. << >> \in Values
  BY DEF Values
<1> QED
  BY <1>1 DEF Zeroed, Slots, Unused

LEMMA InstanceStep == ASSUME ReaderInv, ReadInstance PROVE ReaderInv'
<1>1. Reads({"INSTANCE"})
  BY DEF ReadInstance
<1>2. /\ block = "OUTSIDE" /\ block' = "IN_INSTANCE"
      /\ list' = Append(list, Zeroed) /\ claimed' = {}
      /\ seen' = seen \ {"failure_behavior"} /\ names' = names /\ current' = current
  BY <1>1, ReadsLine DEF ReadInstance, Allowed
<1>3. /\ Len(list') = Len(list) + 1 /\ Len(list) \in Nat /\ list' # << >>
      /\ list' \in Seq(Slots(names)) /\ list'[Len(list')] = Zeroed
      /\ \A i \in 1 .. Len(list) : list'[i] = list[i]
  BY <1>2, ListFacts, ZeroedFacts
<1>4. ReaderTypeOK'
  BY <1>1, <1>2, <1>3, ReadsLine DEF ReaderInv, ReaderTypeOK, Blocks
<1>5. BlockInv'
  BY <1>2, <1>3 DEF BlockInv
<1>6. CountInv'
  BY <1>1, <1>3, ReadsLine
<1>7. Closed = 1 .. Len(list) /\ Closed' = 1 .. Len(list)
  BY <1>2, <1>3 DEF Closed, Inside
<1>8. ReadingInv'
  <2>1. ClosedInv /\ NamesInv
    BY <1>1, ReadsLine DEF ReaderInv, ReadingInv
  <2>2. ClosedInv' /\ NamesInv'
    BY <1>3, <1>7, <2>1 DEF ClosedInv, NamesInv
  <2>3. OpenInv'
    BY <1>2, <1>3, ZeroedFacts DEF OpenInv, Holds
  <2> QED
    BY <2>2, <2>3 DEF ReadingInv
<1>9. ResolvedInv'
  BY <1>1, ReadsLine DEF ResolvedInv
<1> QED
  BY <1>4, <1>5, <1>6, <1>8, <1>9 DEF ReaderInv

LEMMA MappingStep == ASSUME ReaderInv, ReadMapping PROVE ReaderInv'
<1>1. Reads({"MAPPING"})
  BY DEF ReadMapping
<1>2. /\ block = "IN_INSTANCE" /\ block' = "IN_MAPPING"
      /\ current' \in ToSet(names) \ claimed /\ claimed' = claimed \cup {current'}
      /\ seen' = seen \ MappingKeys /\ names' = names /\ list' = list
  BY <1>1, ReadsLine DEF ReadMapping, Allowed
<1>3. ReaderTypeOK'
  BY <1>1, <1>2, ReadsLine DEF ReaderInv, ReaderTypeOK, Blocks
<1>4. BlockInv' /\ CountInv'
  BY <1>1, <1>2, ReadsLine DEF ReaderInv, BlockInv
<1>5. Closed' = Closed
  BY <1>2 DEF Closed, Inside
<1>6. ReadingInv'
  <2>1. ClosedInv /\ NamesInv /\ OpenInv
    BY <1>1, ReadsLine DEF ReaderInv, ReadingInv
  <2>2. ClosedInv' /\ NamesInv'
    BY <1>2, <1>5, <2>1 DEF ClosedInv, NamesInv
  <2>3. OpenInv'
    BY <1>2, <2>1 DEF OpenInv, Holds, Inside, MappingKeys
  <2> QED
    BY <2>2, <2>3 DEF ReadingInv
<1>7. ResolvedInv'
  BY <1>1, ReadsLine DEF ResolvedInv
<1> QED
  BY <1>3, <1>4, <1>6, <1>7 DEF ReaderInv

LEMMA EndMappingStep == ASSUME ReaderInv, ReadEndMapping PROVE ReaderInv'
<1>1. Reads({"END_MAPPING"})
  BY DEF ReadEndMapping
<1>2. /\ block = "IN_MAPPING" /\ block' = "IN_INSTANCE"
      /\ "mapping_behavior" \in seen
      /\ current' = "none" /\ UNCHANGED <<names, list, claimed, seen>>
  BY <1>1, ReadsLine DEF ReadEndMapping, Allowed, MappingKeys
<1>3. ReaderTypeOK'
  BY <1>1, <1>2, ReadsLine DEF ReaderInv, ReaderTypeOK, Blocks
<1>4. BlockInv' /\ CountInv'
  BY <1>1, <1>2, ReadsLine DEF ReaderInv, BlockInv
<1>5. Closed' = Closed
  BY <1>2 DEF Closed, Inside
<1>6. ReadingInv'
  <2>1. ClosedInv /\ NamesInv /\ OpenInv
    BY <1>1, ReadsLine DEF ReaderInv, ReadingInv
  <2>2. ClosedInv' /\ NamesInv'
    BY <1>2, <1>5, <2>1 DEF ClosedInv, NamesInv
  <2>3. OpenInv'
    BY <1>2, <2>1 DEF OpenInv, Holds, Inside
  <2> QED
    BY <2>2, <2>3 DEF ReadingInv
<1>7. ResolvedInv'
  BY <1>1, ReadsLine DEF ResolvedInv
<1> QED
  BY <1>3, <1>4, <1>6, <1>7 DEF ReaderInv

LEMMA SkipStep == ASSUME ReaderInv, Skip PROVE ReaderInv'
<1>1. PICK keys : Reads(keys)
  BY DEF Skip
<1>2. UNCHANGED <<block, names, list, claimed, current, seen>>
  BY DEF Skip
<1>3. ReaderTypeOK'
  BY <1>1, <1>2, ReadsLine DEF ReaderInv, ReaderTypeOK
<1>4. BlockInv' /\ CountInv'
  BY <1>1, <1>2, ReadsLine DEF ReaderInv, BlockInv
<1>5. ReadingInv'
  BY <1>1, <1>2, ReadsLine
     DEF ReaderInv, ReadingInv, ClosedInv, NamesInv, OpenInv, Closed, Inside, Holds
<1>6. ResolvedInv'
  BY <1>1, ReadsLine DEF ResolvedInv
<1> QED
  BY <1>3, <1>4, <1>5, <1>6 DEF ReaderInv

LEMMA EndStep == ASSUME ReaderInv, ReadEnd PROVE ReaderInv'
<1>1. Reads({"END"})
  BY DEF ReadEnd
<1>2. /\ block \in {"OUTSIDE", "IN_GLOBALS", "IN_INSTANCE"} /\ block' = "OUTSIDE"
      /\ block = "IN_INSTANCE" => Complete(Last(list))
      /\ UNCHANGED <<names, list, claimed, current, seen>>
  BY <1>1, ReadsLine DEF ReadEnd, Allowed, ReaderInv, ReaderTypeOK, Blocks
<1>3. ReaderTypeOK'
  BY <1>1, <1>2, ReadsLine DEF ReaderInv, ReaderTypeOK, Blocks
<1>4. BlockInv' /\ CountInv'
  BY <1>1, <1>2, ReadsLine DEF ReaderInv, BlockInv
<1>5. Closed' = 1 .. Len(list)
  BY <1>2 DEF Closed, Inside
<1>6. ClosedInv /\ NamesInv /\ OpenInv
  BY <1>1, ReadsLine DEF ReaderInv, ReadingInv
<1>7. ASSUME block = "IN_INSTANCE" PROVE ReadingInv'
  <2> DEFINE last == list[Len(list)]
  <2>1. Len(list) \in 1 .. Len(list) /\ Last(list) = last
    BY <1>7, ListFacts DEF ReaderInv, BlockInv, Last
  <2>2. /\ Closed = 1 .. Len(list) - 1
        /\ \A i \in 1 .. Len(list) : i \in Closed \/ i = Len(list)
    BY <1>7, <2>1, ListFacts DEF Closed, Inside
  <2>3. Complete(last) /\ Holds(last)
    BY <1>2, <1>6, <1>7, <2>1 DEF OpenInv, Inside
  <2>4. DOMAIN last.peers = ToSet(names)
    BY <2>1, ListFacts
  <2>5. Filled(last)
    BY <1>7, <2>3, <2>4 DEF Filled, Complete, Holds, Behaved, Unused
  <2>6. \A i \in Closed : list[i].fields["name"] # last.fields["name"]
    BY <2>2, <2>3 DEF Complete
  <2>7. ClosedInv'
    BY <1>2, <1>5, <1>6, <2>2, <2>5 DEF ClosedInv
  <2>8. NamesInv'
    BY <1>2, <1>5, <1>6, <2>2, <2>6 DEF NamesInv
  <2> QED
    BY <1>2, <2>7, <2>8 DEF ReadingInv, OpenInv, Inside
<1>8. ASSUME block # "IN_INSTANCE" PROVE ReadingInv'
  <2>1. Closed = 1 .. Len(list)
    BY <1>2, <1>8 DEF Closed, Inside
  <2> QED
    BY <1>2, <1>5, <1>6, <2>1 DEF ReadingInv, ClosedInv, NamesInv, OpenInv, Inside
<1>9. ReadingInv'
  BY <1>7, <1>8
<1>10. ResolvedInv'
  BY <1>1, ReadsLine DEF ResolvedInv
<1> QED
  BY <1>3, <1>4, <1>9, <1>10 DEF ReaderInv

LEMMA SetElement ==
  ASSUME NEW S, NEW s \in Seq(S), NEW n \in 1 .. Len(s), NEW x \in S
  PROVE  /\ [s EXCEPT ![n] = x] \in Seq(S)
         /\ Len([s EXCEPT ![n] = x]) = Len(s)
         /\ \A j \in 1 .. Len(s) : [s EXCEPT ![n] = x][j] = IF j = n THEN x ELSE s[j]
BY ExceptSeq

(* A field changes the instance that is being read and no other. *)
LEMMA FieldChanges ==
  ASSUME ReaderInv, ReadField
  PROVE  /\ Inside /\ Len(list) \in 1 .. Len(list) /\ Len(list) \in Nat
         /\ Stored(list[Len(list)], file[at]) \in Slots(names)
         /\ list' \in Seq(Slots(names)) /\ Len(list') = Len(list)
         /\ list'[Len(list)] = Stored(list[Len(list)], file[at])
         /\ \A i \in 1 .. Len(list) - 1 : list'[i] = list[i]
         /\ block = "IN_INSTANCE" => file[at].key \in InstanceKeys
         /\ block = "IN_MAPPING" =>
              file[at].key \in MappingKeys /\ file[at].key \notin seen
         /\ file[at].key = "failure_behavior" => file[at].key \notin seen
         /\ file[at].key \in {"failure_behavior", "mapping_behavior"} =>
              file[at].value \in Behaviors(file[at].key)
<1> DEFINE l == file[at]
           last == list[Len(list)]
<1>1. /\ block \in {"IN_INSTANCE", "IN_MAPPING"}
      /\ Reads(InstanceKeys \cup MappingKeys)
      /\ list' = [list EXCEPT ![Len(list)] = Stored(last, l)]
  BY DEF ReadField
<1>2. /\ Len(list) \in 1 .. Len(list) /\ Len(list) \in Nat
      /\ last.fields \in [InstanceKeys -> Values]
      /\ last.peers \in [ToSet(names) -> [MappingKeys -> Values]] /\ last \in Slots(names)
  BY <1>1, ListFacts DEF ReaderInv, BlockInv
<1>3. l.key \in InstanceKeys \cup MappingKeys /\ l.value \in Values /\ Allowed(l)
  BY <1>1, ReadsLine
<1>4. FieldAllowed(l)
  BY <1>3 DEF Allowed, InstanceKeys, MappingKeys, Identity, Optional
<1>5. /\ block = "IN_INSTANCE" => l.key \in InstanceKeys
      /\ block = "IN_MAPPING" => l.key \in MappingKeys /\ l.key \notin seen
      /\ l.key = "failure_behavior" => l.key \notin seen
      /\ l.key \in {"failure_behavior", "mapping_behavior"} =>
           l.value \in Behaviors(l.key)
  BY <1>1, <1>4 DEF FieldAllowed, InstanceKeys, MappingKeys, Identity, Optional
<1>6. Stored(last, l) \in Slots(names)
  <2>1. CASE block = "IN_INSTANCE"
    <3>1. Stored(last, l) = [last EXCEPT !.fields =
             [last.fields EXCEPT ![l.key] = l.value]]
      BY <2>1 DEF Stored
    <3>2. [last.fields EXCEPT ![l.key] = l.value] \in [InstanceKeys -> Values]
      BY <1>2, <1>3, <1>5, <2>1
    <3> QED
      BY <1>2, <3>1, <3>2 DEF Slots
  <2>2. CASE block = "IN_MAPPING"
    <3>1. current \in ToSet(names)
      BY <2>2 DEF ReaderInv, BlockInv, ReaderTypeOK
    <3>2. Stored(last, l) = [last EXCEPT !.peers =
             [last.peers EXCEPT ![current] =
                [last.peers[current] EXCEPT ![l.key] = l.value]]]
      BY <2>2 DEF Stored
    <3>3. [last.peers[current] EXCEPT ![l.key] = l.value] \in [MappingKeys -> Values]
      BY <1>2, <1>3, <1>5, <2>2, <3>1
    <3>4. [last.peers EXCEPT ![current] =
                [last.peers[current] EXCEPT ![l.key] = l.value]]
            \in [ToSet(names) -> [MappingKeys -> Values]]
      BY <1>2, <3>1, <3>3
    <3> QED
      BY <1>2, <3>2, <3>4 DEF Slots
  <2> QED
    BY <1>1, <2>1, <2>2
<1> HIDE DEF l, last
<1>7. /\ list' \in Seq(Slots(names)) /\ Len(list') = Len(list)
      /\ list'[Len(list)] = Stored(last, l)
      /\ \A i \in 1 .. Len(list) - 1 : list'[i] = list[i]
  <2>1. list \in Seq(Slots(names)) /\ DOMAIN list = 1 .. Len(list)
    BY ListFacts
  <2>2. list' = [list EXCEPT ![Len(list)] = Stored(last, l)]
    BY <1>1
  <2> DEFINE n == Len(list)
             x == Stored(last, l)
  <2>3. n \in 1 .. Len(list) /\ x \in Slots(names)
    BY <1>2, <1>6
  <2> HIDE DEF n, x
  <2>4. /\ [list EXCEPT ![n] = x] \in Seq(Slots(names))
        /\ Len([list EXCEPT ![n] = x]) = Len(list)
        /\ \A j \in 1 .. Len(list) :
             [list EXCEPT ![n] = x][j] = IF j = n THEN x ELSE list[j]
    BY <2>1, <2>3, SetElement
  <2>5. list' = [list EXCEPT ![n] = x]
    BY <2>2 DEF n, x
  <2>6. /\ list' \in Seq(Slots(names)) /\ Len(list') = Len(list)
        /\ list'[n] = x
        /\ \A j \in 1 .. Len(list) : j # n => list'[j] = list[j]
    BY <2>3, <2>4, <2>5
  <2>7. \A i \in 1 .. Len(list) - 1 : i \in 1 .. Len(list) /\ i # Len(list)
    BY <1>2
  <2> QED
    BY <2>6, <2>7 DEF n, x
<1> QED
  BY <1>1, <1>2, <1>5, <1>6, <1>7 DEF l, last, Inside

LEMMA FieldHolds ==
  ASSUME ReaderInv, ReadField, Holds(list[Len(list)])
  PROVE  Holds(list[Len(list)])'
<1> DEFINE l == file[at]
           last == list[Len(list)]
<1>1. /\ list'[Len(list')] = Stored(last, l)
      /\ UNCHANGED <<block, names, claimed, current>>
      /\ seen' = seen \cup ({l.key} \ (Identity \cup Optional))
  BY FieldChanges DEF ReadField
<1>2. /\ last.fields \in [InstanceKeys -> Values]
      /\ last.peers \in [ToSet(names) -> [MappingKeys -> Values]] /\ last \in Slots(names)
      /\ block \in {"IN_INSTANCE", "IN_MAPPING"}
  BY FieldChanges, ListFacts DEF Inside
<1>3. /\ block = "IN_INSTANCE" => l.key \in InstanceKeys
      /\ block = "IN_MAPPING" => l.key \in MappingKeys /\ l.key \notin seen
      /\ l.key = "failure_behavior" => l.key \notin seen
      /\ l.key \in {"failure_behavior", "mapping_behavior"} =>
           l.value \in Behaviors(l.key)
  BY FieldChanges
<1>4. CASE block = "IN_INSTANCE"
  <2>1. /\ Stored(last, l).fields = [last.fields EXCEPT ![l.key] = l.value]
        /\ Stored(last, l).peers = last.peers
    BY <1>2, <1>4 DEF Stored, Slots
  <2>2. "failure_behavior" \in seen' =>
          Stored(last, l).fields["failure_behavior"] \in Behaviors("failure_behavior")
    <3>1. "failure_behavior" \in InstanceKeys
      BY DEF InstanceKeys
    <3> QED
      BY <1>1, <1>2, <1>3, <1>4, <2>1, <3>1 DEF Holds
  <2> QED
    BY <1>1, <1>4, <2>1, <2>2 DEF Holds
<1>5. CASE block = "IN_MAPPING"
  <2>1. current \in ToSet(names) /\ current \in claimed
    BY <1>5 DEF ReaderInv, BlockInv, ReaderTypeOK
  <2>2. /\ Stored(last, l).fields = last.fields
        /\ Stored(last, l).peers =
             [last.peers EXCEPT ![current] =
                [last.peers[current] EXCEPT ![l.key] = l.value]]
    BY <1>2, <1>5 DEF Stored, Slots
  <2>3. /\ Stored(last, l).peers[current] =
             [last.peers[current] EXCEPT ![l.key] = l.value]
        /\ \A m \in ToSet(names) \ {current} : Stored(last, l).peers[m] = last.peers[m]
        /\ last.peers[current] \in [MappingKeys -> Values]
    BY <1>2, <2>1, <2>2
  <2>4. "failure_behavior" \notin MappingKeys /\ "mapping_behavior" \in MappingKeys
    BY DEF MappingKeys
  <2>5. "failure_behavior" \in seen' =>
          Stored(last, l).fields["failure_behavior"] \in Behaviors("failure_behavior")
    BY <1>1, <1>3, <1>5, <2>2, <2>4 DEF Holds
  <2>6. "mapping_behavior" \in seen' => Behaved(Stored(last, l).peers[current])
    <3>1. CASE l.key = "mapping_behavior"
      BY <1>3, <2>3, <2>4, <3>1 DEF Behaved
    <3>2. CASE l.key # "mapping_behavior"
      <4>1. Stored(last, l).peers[current]["mapping_behavior"]
              = last.peers[current]["mapping_behavior"]
        BY <2>3, <2>4, <3>2
      <4> QED
        BY <1>1, <1>5, <3>2, <4>1 DEF Holds, Behaved
    <3> QED
      BY <3>1, <3>2
  <2>7. ASSUME NEW m \in ToSet(names)
        PROVE  /\ m \notin claimed => Unused(Stored(last, l).peers[m])
               /\ m \in claimed /\ m # current => Behaved(Stored(last, l).peers[m])
    BY <1>5, <2>1, <2>3 DEF Holds
  <2> QED
    BY <1>1, <1>5, <2>5, <2>6, <2>7 DEF Holds
<1> QED
  BY <1>2, <1>4, <1>5

LEMMA FieldStep == ASSUME ReaderInv, ReadField PROVE ReaderInv'
<1>1. Reads(InstanceKeys \cup MappingKeys)
  BY DEF ReadField
<1>2. /\ UNCHANGED <<block, names, claimed, current>>
      /\ seen' = seen \cup ({file[at].key} \ (Identity \cup Optional))
  BY DEF ReadField
<1>3. ReaderTypeOK'
  <2>1. seen' \subseteq MappingKeys \cup {"failure_behavior"}
    BY <1>1, <1>2, ReadsLine DEF ReaderInv, ReaderTypeOK, InstanceKeys
  <2> QED
    BY <1>1, <1>2, <2>1, FieldChanges, ReadsLine DEF ReaderInv, ReaderTypeOK
<1>4. BlockInv' /\ CountInv'
  <2>1. list # << >> /\ list' # << >>
    BY FieldChanges
  <2> QED
    BY <1>1, <1>2, <2>1, FieldChanges, ReadsLine DEF ReaderInv, BlockInv
<1>5. ClosedInv /\ NamesInv /\ OpenInv
  BY <1>1, ReadsLine DEF ReaderInv, ReadingInv
<1>6. Closed' = 1 .. Len(list) - 1 /\ Closed = 1 .. Len(list) - 1
  BY <1>2, FieldChanges DEF Closed, Inside
<1>7. ClosedInv' /\ NamesInv'
  BY <1>5, <1>6, FieldChanges DEF ClosedInv, NamesInv
<1>8. OpenInv'
  BY <1>5, FieldChanges, FieldHolds DEF OpenInv
<1>9. ResolvedInv'
  BY <1>1, ReadsLine DEF ResolvedInv
<1> QED
  BY <1>3, <1>4, <1>7, <1>8, <1>9 DEF ReaderInv, ReadingInv

-----------------------------------------------------------------------------
LEMMA SamePeers ==
  ASSUME list' = list, names' = names
  PROVE  PeersKnown' = PeersKnown /\ Zeroed' = Zeroed
<1>1. NamesRead' = NamesRead
  BY DEF NamesRead
<1>2. PeersKnown' = PeersKnown
  BY <1>1 DEF PeersKnown
<1>3. Zeroed' = Zeroed
  BY DEF Zeroed
<1> QED
  BY <1>2, <1>3

(* Once the reading is over only the list and the verdict matter. *)
LEMMA EndedTypes ==
  ASSUME ReaderInv, list' \in Seq(Slots(names)), verdict' # "reading",
         list' = << >> => list = << >>, list # << >> => list' # << >>,
         verdict' \in {"resolved", "accepted", "rejected", "crashed"},
         Len(list') <= count,
         UNCHANGED <<inputs, at, block, names, claimed, current, seen>>
  PROVE  ReaderTypeOK' /\ CountInv' /\ ReadingInv'
<1>1. ReaderTypeOK'
  BY DEF ReaderInv, ReaderTypeOK, inputs
<1>2. CountInv' /\ ReadingInv'
  BY DEF CountInv, ReadingInv, inputs
<1> QED
  BY <1>1, <1>2

LEMMA RejectStep == ASSUME ReaderInv, Reject PROVE ReaderInv'
<1>1. /\ verdict' = "rejected" /\ list' = list
      /\ UNCHANGED <<inputs, at, block, names, claimed, current, seen>>
  BY DEF Reject, Ends
<1>2. ReaderTypeOK' /\ CountInv' /\ ReadingInv'
  BY <1>1, ListFacts, EndedTypes DEF ReaderInv, CountInv
<1>3. BlockInv' /\ ResolvedInv'
  BY <1>1 DEF ReaderInv, BlockInv, ResolvedInv
<1> QED
  BY <1>2, <1>3 DEF ReaderInv

LEMMA VerifyStep == ASSUME ReaderInv, Verify PROVE ReaderInv'
<1>1. /\ verdict = "resolved" /\ verdict' \in {"rejected", "accepted"} /\ list' = list
      /\ UNCHANGED <<inputs, at, block, names, claimed, current, seen>>
      /\ UNCHANGED generating
      /\ verdict' = "accepted" /\ generating =>
           \A i \in DOMAIN list : list[i].fields["name"] # << >>
  BY DEF Verify, Ends, inputs
<1>2. ReaderTypeOK' /\ CountInv' /\ ReadingInv'
  BY <1>1, ListFacts, EndedTypes DEF ReaderInv, CountInv
<1>3. BlockInv'
  BY <1>1 DEF ReaderInv, BlockInv
<1>4. ResolvedInv'
  BY <1>1, SamePeers DEF ReaderInv, ResolvedInv
<1> QED
  BY <1>2, <1>3, <1>4 DEF ReaderInv

(* The list that is handed on: the instances read, and behind them as many   *)
(* zeroed ones as were counted and not read.                                 *)
LEMMA ResolvedList ==
  ASSUME ReaderInv, Resolve, verdict' = "resolved"
  PROVE  /\ block = "OUTSIDE" /\ PeersKnown
         /\ names = << >> \/ count = Len(list)
         /\ Len(list) <= count /\ count \in Nat /\ Len(list) \in Nat
         /\ list' \in Seq(Slots(names)) /\ Len(list') = count
         /\ \A i \in 1 .. count :
              list'[i] = IF i <= Len(list) THEN list[i] ELSE Zeroed
<1>1. /\ block = "OUTSIDE" /\ PeersKnown
      /\ names = << >> \/ count = Len(list)
      /\ list' = list \o Unread
  BY DEF Resolve, Ends
<1> DEFINE n == count - Len(list)
<1>2. /\ Len(list) <= count /\ count \in Nat /\ Len(list) \in Nat /\ n \in Nat
  <2>1. count \in Nat
    <3>1. file \in Seq(Lines) /\ count = Counted(file) /\ Len(file) \in Nat
      BY DEF ReaderInv, ReaderTypeOK
    <3>2. IsFiniteSet(1 .. Len(file)) /\ DOMAIN file = 1 .. Len(file)
      BY <3>1, FS_Interval
    <3> QED
      BY <3>1, <3>2, FS_Subset, FS_CardinalityType DEF Counted
  <2> QED
    BY <2>1, ListFacts DEF ReaderInv, CountInv
<1>3. /\ Unread \in Seq(Slots(names)) /\ Len(Unread) = n
      /\ \A i \in 1 .. n : Unread[i] = Zeroed
  BY <1>2, ZeroedFacts DEF Unread
<1>4. /\ list' \in Seq(Slots(names)) /\ Len(list') = count
      /\ \A i \in 1 .. count :
           list'[i] = IF i <= Len(list) THEN list[i] ELSE Zeroed
  <2>1. /\ list \o Unread \in Seq(Slots(names)) /\ Len(list \o Unread) = Len(list) + n
        /\ \A i \in 1 .. Len(list) + n :
             (list \o Unread)[i] =
               IF i <= Len(list) THEN list[i] ELSE Unread[i - Len(list)]
    BY <1>3, ListFacts, ConcatProperties
  <2>2. /\ Len(list) + n = count
        /\ \A i \in 1 .. count : i > Len(list) => i - Len(list) \in 1 .. n
    BY <1>2
  <2> QED
    BY <1>1, <1>2, <1>3, <2>1, <2>2
<1> QED
  BY <1>1, <1>2, <1>4

LEMMA ResolveStep == ASSUME ReaderInv, Resolve PROVE ReaderInv'
<1>1. /\ verdict = "reading" /\ ClosedInv /\ NamesInv
      /\ verdict' \in {"rejected", "crashed", "resolved"}
      /\ UNCHANGED <<inputs, at, block, names, claimed, current, seen>>
  BY DEF Resolve, Ends, ReaderInv, ReadingInv
<1>2. CASE verdict' \in {"rejected", "crashed"}
  <2>1. list' = list
    BY <1>2 DEF Resolve, Ends
  <2>2. ReaderTypeOK' /\ CountInv' /\ ReadingInv'
    BY <1>1, <1>2, <2>1, ListFacts, EndedTypes DEF ReaderInv, CountInv
  <2>3. BlockInv' /\ ResolvedInv'
    BY <1>1, <1>2, <2>1 DEF ReaderInv, BlockInv, ResolvedInv
  <2> QED
    BY <2>2, <2>3 DEF ReaderInv
<1>3. CASE verdict' = "resolved"
  <2>1. /\ block = "OUTSIDE" /\ PeersKnown
        /\ names = << >> \/ count = Len(list)
    BY <1>3, ResolvedList
  <2>2. Len(list) <= count /\ count \in Nat /\ Len(list) \in Nat
    BY <1>3, ResolvedList
  <2>3. /\ list' \in Seq(Slots(names)) /\ Len(list') = count
        /\ \A i \in 1 .. count :
             list'[i] = IF i <= Len(list) THEN list[i] ELSE Zeroed
    BY <1>3, ResolvedList
  <2>4. ReaderTypeOK' /\ CountInv' /\ ReadingInv'
    <3>1. (list' = << >> => list = << >>) /\ (list # << >> => list' # << >>)
      BY <2>2, <2>3, ListFacts
    <3>2. Len(list') <= count
      BY <2>2, <2>3
    <3> QED
      BY <1>1, <1>3, <2>3, <3>1, <3>2, EndedTypes
  <2>5. BlockInv'
    <3>1. list' = << >> => list = << >>
      BY <2>2, <2>3, ListFacts
    <3> QED
      BY <1>1, <2>1, <3>1 DEF ReaderInv, BlockInv
  <2>6. Closed = 1 .. Len(list) /\ \A i \in 1 .. count : i <= Len(list) <=> i \in Closed
    BY <2>1, <2>2 DEF Closed, Inside
  <2>7. Zeroed' = Zeroed /\ Zeroed.fields["name"] = << >>
    BY <1>1 DEF Zeroed, InstanceKeys, Identity
  <2>8. \A i \in 1 .. count : i > Len(list) => names = << >>
    BY <2>1, <2>2
  <2>9. \A i \in DOMAIN list' : Filled(list'[i]) \/ (names = << >> /\ list'[i] = Zeroed)
    BY <1>1, <2>2, <2>3, <2>6, <2>8 DEF ClosedInv
  <2>10. \A i, j \in DOMAIN list' :
           /\ list'[i].fields["name"] = list'[j].fields["name"]
           /\ list'[i].fields["name"] # << >>
           => i = j
    BY <1>1, <2>2, <2>3, <2>6, <2>7 DEF NamesInv
  <2>11. PeersKnown'
    <3>1. CASE names = << >>
      <4>1. ToSet(names') = {}
        BY <1>1, <3>1 DEF ToSet
      <4> QED
        BY <4>1 DEF PeersKnown
    <3>2. CASE count = Len(list)
      <4>1. list' = list
        BY <2>2, <2>3, <3>2, ListFacts, SeqEqual
      <4> QED
        BY <1>1, <2>1, <4>1, SamePeers
    <3> QED
      BY <2>1, <3>1, <3>2
  <2>12. ResolvedInv'
    BY <1>1, <1>3, <2>7, <2>9, <2>10, <2>11 DEF ResolvedInv
  <2> QED
    BY <2>4, <2>5, <2>12 DEF ReaderInv
<1> QED
  BY <1>1, <1>2, <1>3

LEMMA InvStep == ReaderInv /\ [Next]_vars => ReaderInv'
<1> SUFFICES ASSUME ReaderInv, [Next]_vars PROVE ReaderInv'
  OBVIOUS
<1>1. CASE ReadGlobals       BY <1>1, GlobalsStep
<1>2. CASE ReadGlobalsField  BY <1>2, GlobalsFieldStep
<1>3. CASE ReadInstance      BY <1>3, InstanceStep
<1>4. CASE ReadField         BY <1>4, FieldStep
<1>5. CASE ReadEnd           BY <1>5, EndStep
<1>6. CASE ReadMapping       BY <1>6, MappingStep
<1>7. CASE ReadEndMapping    BY <1>7, EndMappingStep
<1>8. CASE Skip              BY <1>8, SkipStep
<1>9. CASE Reject            BY <1>9, RejectStep
<1>10. CASE Resolve          BY <1>10, ResolveStep
<1>11. CASE Verify           BY <1>11, VerifyStep
<1>12. CASE Ended \/ UNCHANGED vars
  <2>1. UNCHANGED <<generating, file, count, at, block, names, list, claimed,
                    current, seen, verdict>>
    BY <1>12 DEF Ended, vars, inputs
  <2>2. ReaderTypeOK' /\ BlockInv' /\ CountInv'
    BY <2>1 DEF ReaderInv, ReaderTypeOK, BlockInv, CountInv, CountedUpTo
  <2>3. ReadingInv'
    BY <2>1 DEF ReaderInv, ReadingInv, ClosedInv, NamesInv, OpenInv, Closed, Inside, Holds
  <2>4. ResolvedInv'
    BY <2>1, SamePeers DEF ReaderInv, ResolvedInv
  <2> QED
    BY <2>2, <2>3, <2>4 DEF ReaderInv
<1> QED
  BY <1>1, <1>2, <1>3, <1>4, <1>5, <1>6, <1>7, <1>8, <1>9, <1>10, <1>11, <1>12 DEF Next

(* The reader on any file whatsoever *)
AnyFile == file \in Seq(Lines) /\ generating \in BOOLEAN /\ Opened

LEMMA OpenedInv == AnyFile => ReaderInv
<1> SUFFICES ASSUME AnyFile PROVE ReaderInv
  OBVIOUS
<1> USE DEF AnyFile, Opened
<1>1. ReaderTypeOK
  <2>1. << >> \in Values /\ << >> \in Seq(Slots(names)) /\ Len(file) \in Nat
    BY DEF Values
  <2>2. 1 \in 1 .. Len(file) + 1
    BY <2>1
  <2> QED
    BY <2>1, <2>2 DEF ReaderTypeOK, Blocks
<1>2. count \in Nat
  <2>1. Len(file) \in Nat /\ DOMAIN file = 1 .. Len(file)
    OBVIOUS
  <2>2. IsFiniteSet(1 .. Len(file))
    BY <2>1, FS_Interval
  <2> QED
    BY <2>1, <2>2, FS_Subset, FS_CardinalityType DEF Counted
<1>3. CountInv
  <2>1. Len(list) = 0 /\ CountedUpTo(at) = {}
    BY DEF CountedUpTo
  <2>2. Cardinality(CountedUpTo(at)) = 0
    BY <2>1, FS_EmptySet, Zenon
  <2> QED
    BY <1>2, <2>1, <2>2 DEF CountInv
<1>4. BlockInv /\ ReadingInv /\ ResolvedInv
  BY DEF BlockInv, ReadingInv, ClosedInv, NamesInv, OpenInv, Closed, Inside, ResolvedInv
<1> QED
  BY <1>1, <1>3, <1>4 DEF ReaderInv

(* Whatever lines the file has, written by the generator or not, and in any  *)
(* mode: no instance is read beyond those allocated, and what is accepted is *)
(* well formed.                                                             *)
THEOREM AnyFileReadWell ==
  AnyFile /\ [][Next]_vars => [](WithinAllocated /\ WellFormed)
<1>1. AnyFile /\ [][Next]_vars => []ReaderInv
  BY OpenedInv, InvStep, PTL
<1> QED
  BY <1>1, InvImplies, PTL

-----------------------------------------------------------------------------
(* What is written is a sequence of lines, and remains one when it suffers:  *)
(* an induction over the sequences that are put together.                    *)
LEMMA LeastExists ==
  ASSUME NEW T \in SUBSET Nat, T # {}
  PROVE  \E m \in T : \A x \in T : m <= x
<1>1. PICK m \in T : \A x \in T : <<x, m>> \notin OpToRel(<, Nat)
  BY WFMin, NatLessThanWellFounded, Zenon
<1>2. ASSUME NEW x \in T PROVE ~(x < m)
  <2>1. x \in Nat /\ m \in Nat
    OBVIOUS
  <2>2. <<x, m>> \in Nat \X Nat /\ <<x, m>>[1] = x /\ <<x, m>>[2] = m
    BY <2>1
  <2> QED
    BY <1>1, <2>2, Zenon DEF OpToRel
<1> QED
  BY <1>2

LEMMA InductionOn ==
  ASSUME NEW N \in Nat, NEW T, 0 \in T, \A i \in 0 .. N - 1 : i \in T => i + 1 \in T
  PROVE  0 .. N \subseteq T
<1> SUFFICES ASSUME (0 .. N) \ T # {} PROVE FALSE
  OBVIOUS
<1>1. PICK m \in (0 .. N) \ T : \A x \in (0 .. N) \ T : m <= x
  <2>1. (0 .. N) \ T \in SUBSET Nat
    OBVIOUS
  <2> QED
    BY <2>1, LeastExists
<1>2. m - 1 \in 0 .. N - 1 /\ m - 1 \in 0 .. N /\ (m - 1) + 1 = m
  BY <1>1
<1>3. m - 1 \in T
  BY <1>1, <1>2
<1> QED
  BY <1>1, <1>2, <1>3

Unrolled(S, ss, f) ==
  /\ Len(ss) # 0 => FlattenSeq(ss) = f[Len(ss)]
  /\ Len(ss) = 0 => FlattenSeq(ss) = << >>
  /\ \A i \in 1 .. Len(ss) : /\ f[i] \in Seq(S)
                             /\ i = 1 => f[i] = ss[i]
                             /\ i # 1 => f[i] = f[i - 1] \o ss[i]

LEMMA FlattenSteps ==
  ASSUME NEW S, NEW ss \in Seq(Seq(S))
  PROVE  \E f : Unrolled(S, ss, f)
<1> DEFINE E(n, d) == d = [i \in 1 .. n |-> IF i = 1 THEN ss[i] ELSE d[i - 1] \o ss[i]]
           T == {n \in Nat : \E d : E(n, d)}
<1>1. Len(ss) \in Nat /\ \A i \in 1 .. Len(ss) : ss[i] \in Seq(S)
  BY ElementOfSeq
<1>2. E(0, [i \in 1 .. 0 |-> << >>])
  OBVIOUS
<1>3. ASSUME NEW n \in Nat, NEW d, E(n, d)
      PROVE  \E e : E(n + 1, e)
  <2> DEFINE x == IF n + 1 = 1 THEN ss[n + 1] ELSE d[n] \o ss[n + 1]
             e == [i \in 1 .. n + 1 |-> IF i = n + 1 THEN x ELSE d[i]]
  <2> HIDE DEF x
  <2>1. /\ \A i \in 1 .. n : d[i] = IF i = 1 THEN ss[i] ELSE d[i - 1] \o ss[i]
        /\ \A i \in 1 .. n : e[i] = d[i]
        /\ e[n + 1] = x
    <3>1. d = [i \in 1 .. n |-> IF i = 1 THEN ss[i] ELSE d[i - 1] \o ss[i]]
      BY <1>3
    <3>2. \A i \in 1 .. n : d[i] = IF i = 1 THEN ss[i] ELSE d[i - 1] \o ss[i]
      BY <3>1, Zenon
    <3>3. \A i \in 1 .. n : i \in 1 .. n + 1 /\ i # n + 1
      OBVIOUS
    <3>4. n + 1 \in 1 .. n + 1
      OBVIOUS
    <3> QED
      BY <3>2, <3>3, <3>4
  <2>2. ASSUME NEW i \in 1 .. n + 1
        PROVE  e[i] = IF i = 1 THEN ss[i] ELSE e[i - 1] \o ss[i]
    <3>1. CASE i = n + 1
      <4>1. i # 1 => n \in 1 .. n /\ i - 1 = n
        BY <3>1
      <4> QED
        BY <2>1, <3>1, <4>1 DEF x
    <3>2. CASE i # n + 1
      <4>1. i \in 1 .. n /\ (i # 1 => i - 1 \in 1 .. n)
        BY <3>2
      <4> QED
        BY <2>1, <4>1
    <3> QED
      BY <3>1, <3>2
  <2>3. E(n + 1, e)
    BY <2>2
  <2> HIDE DEF E, e
  <2> QED
    BY <2>3
<1> HIDE DEF E
<1>4. 0 \in T /\ \A n \in 0 .. Len(ss) - 1 : n \in T => n + 1 \in T
  <2>1. \A n \in 0 .. Len(ss) - 1 : n \in Nat /\ n + 1 \in Nat
    BY <1>1
  <2> QED
    BY <1>2, <1>3, <2>1
<1> HIDE DEF T
<1>5. Len(ss) \in T
  <2>1. 0 .. Len(ss) \subseteq T
    BY <1>1, <1>4, InductionOn
  <2> QED
    BY <1>1, <2>1
<1>6. PICK d : E(Len(ss), d)
  BY <1>5 DEF T
<1> DEFINE f == CHOOSE d_1 : E(Len(ss), d_1)
<1>7. E(Len(ss), f)
  BY <1>6
<1>8. /\ Len(ss) # 0 => FlattenSeq(ss) = f[Len(ss)]
      /\ Len(ss) = 0 => FlattenSeq(ss) = ss
  BY DEF FlattenSeq, E
<1> HIDE DEF f
<1> DEFINE P == {i \in 0 .. Len(ss) : i # 0 => f[i] \in Seq(S)}
<1>9. 0 .. Len(ss) \subseteq P
  <2>1. 0 \in P
    BY <1>1
  <2>2. ASSUME NEW i \in 0 .. Len(ss) - 1, i \in P
        PROVE  i + 1 \in P
    <3>1. i + 1 \in 1 .. Len(ss) /\ i + 1 \in 0 .. Len(ss) /\ (i + 1) - 1 = i
      BY <1>1
    <3>2. f[i + 1] = IF i + 1 = 1 THEN ss[i + 1] ELSE f[i] \o ss[i + 1]
      BY <1>7, <3>1 DEF E
    <3>3. ss[i + 1] \in Seq(S)
      BY <1>1, <3>1
    <3>4. CASE i = 0
      BY <3>1, <3>2, <3>3, <3>4
    <3>5. CASE i # 0
      <4>1. f[i] \in Seq(S)
        BY <2>2, <3>5
      <4>2. f[i] \o ss[i + 1] \in Seq(S)
        BY <3>3, <4>1, ConcatProperties
      <4>3. i + 1 # 1
        BY <1>1, <3>5
      <4>4. f[i + 1] \in Seq(S)
        BY <3>2, <4>2, <4>3, Zenon
      <4> QED
        BY <3>1, <4>4
    <3> QED
      BY <3>4, <3>5
  <2> HIDE DEF P
  <2> QED
    BY <1>1, <2>1, <2>2, InductionOn
<1>10. \A i \in 1 .. Len(ss) :
         f[i] \in Seq(S) /\ f[i] = IF i = 1 THEN ss[i] ELSE f[i - 1] \o ss[i]
  <2>1. \A i \in 1 .. Len(ss) : i \in 0 .. Len(ss) /\ i # 0
    BY <1>1
  <2>2. \A i \in 1 .. Len(ss) : f[i] \in Seq(S)
    BY <1>9, <2>1
  <2>3. \A i \in 1 .. Len(ss) : f[i] = IF i = 1 THEN ss[i] ELSE f[i - 1] \o ss[i]
    BY <1>7 DEF E
  <2> QED
    BY <2>2, <2>3
<1>11. Len(ss) = 0 => ss = << >>
  OBVIOUS
<1> HIDE DEF P
<1>12. Unrolled(S, ss, f)
  BY <1>8, <1>10, <1>11 DEF Unrolled
<1> QED
  BY <1>12

LEMMA FlattenType ==
  ASSUME NEW S, NEW ss \in Seq(Seq(S))
  PROVE  FlattenSeq(ss) \in Seq(S)
<1>1. PICK f : Unrolled(S, ss, f)
  BY FlattenSteps
<1>2. Len(ss) \in Nat /\ (Len(ss) # 0 => Len(ss) \in 1 .. Len(ss))
  OBVIOUS
<1>3. CASE Len(ss) = 0
  BY <1>1, <1>3 DEF Unrolled
<1>4. CASE Len(ss) # 0
  <2>1. FlattenSeq(ss) = f[Len(ss)] /\ f[Len(ss)] \in Seq(S)
    BY <1>1, <1>2, <1>4 DEF Unrolled
  <2> QED
    BY <2>1
<1> QED
  BY <1>2, <1>3, <1>4

(* Where each of the sequences that are put together is found in the whole *)
LEMMA FlattenAt ==
  ASSUME NEW S, NEW ss \in Seq(Seq(S))
  PROVE  \E st \in [0 .. Len(ss) -> Nat] :
           /\ st[0] = 0
           /\ \A i \in 1 .. Len(ss) : st[i] = st[i - 1] + Len(ss[i])
           /\ \A i \in 1 .. Len(ss) : st[i] <= st[Len(ss)]
           /\ Len(FlattenSeq(ss)) = st[Len(ss)]
           /\ \A i \in 1 .. Len(ss) : \A k \in 1 .. Len(ss[i]) :
                FlattenSeq(ss)[st[i - 1] + k] = ss[i][k]
<1>1. PICK f : Unrolled(S, ss, f)
  BY FlattenSteps
<1>2. /\ Len(ss) # 0 => FlattenSeq(ss) = f[Len(ss)]
      /\ Len(ss) = 0 => FlattenSeq(ss) = << >>
      /\ \A i \in 1 .. Len(ss) : /\ f[i] \in Seq(S)
                                 /\ i = 1 => f[i] = ss[i]
                                 /\ i # 1 => f[i] = f[i - 1] \o ss[i]
  BY <1>1 DEF Unrolled
<1>3. /\ Len(ss) \in Nat
      /\ \A i \in 1 .. Len(ss) : ss[i] \in Seq(S) /\ Len(ss[i]) \in Nat
      /\ \A i \in 1 .. Len(ss) : Len(f[i]) \in Nat
  BY <1>2, ElementOfSeq
<1> DEFINE st == [i \in 0 .. Len(ss) |-> IF i = 0 THEN 0 ELSE Len(f[i])]
<1>4. /\ st \in [0 .. Len(ss) -> Nat] /\ st[0] = 0
      /\ \A i \in 1 .. Len(ss) : st[i] = Len(f[i])
  BY <1>3
<1> HIDE DEF st
<1>5. ASSUME NEW i \in 1 .. Len(ss), i # 1
      PROVE  /\ i - 1 \in 1 .. Len(ss) /\ f[i - 1] \in Seq(S)
             /\ Len(f[i]) = Len(f[i - 1]) + Len(ss[i])
             /\ \A k \in 1 .. Len(f[i - 1]) : f[i][k] = f[i - 1][k]
             /\ \A k \in 1 .. Len(ss[i]) : f[i][Len(f[i - 1]) + k] = ss[i][k]
  <2>1. i - 1 \in 1 .. Len(ss)
    BY <1>3, <1>5
  <2>2. PICK u \in Seq(S), v \in Seq(S) : u = f[i - 1] /\ v = ss[i]
    BY <1>2, <1>3, <2>1
  <2>3. f[i] = u \o v
    BY <1>2, <1>5, <2>2
  <2>4. /\ Len(u \o v) = Len(u) + Len(v) /\ Len(u) \in Nat /\ Len(v) \in Nat
        /\ \A k \in 1 .. Len(u) + Len(v) :
             (u \o v)[k] = IF k <= Len(u) THEN u[k] ELSE v[k - Len(u)]
    BY ConcatProperties
  <2>5. /\ \A k \in 1 .. Len(u) : (u \o v)[k] = u[k]
        /\ \A k \in 1 .. Len(v) : (u \o v)[Len(u) + k] = v[k]
    BY <2>4
  <2> QED
    BY <2>1, <2>2, <2>3, <2>4, <2>5
<1>6. Len(ss) # 0 => 1 \in 1 .. Len(ss) /\ f[1] = ss[1]
  <2>1. Len(ss) # 0 => 1 \in 1 .. Len(ss)
    BY <1>3
  <2>2. \A i \in 1 .. Len(ss) : i = 1 => f[i] = ss[i]
    BY <1>2
  <2> QED
    BY <2>1, <2>2
<1>7. \A i \in 1 .. Len(ss) : st[i] = st[i - 1] + Len(ss[i])
  <2> SUFFICES ASSUME NEW i \in 1 .. Len(ss)
               PROVE  st[i] = st[i - 1] + Len(ss[i])
    OBVIOUS
  <2>1. CASE i = 1
    <3>1. st[i] = Len(ss[i])
      BY <1>4, <1>6, <2>1
    <3>2. Len(ss[i]) \in Nat /\ i - 1 = 0
      BY <1>3, <2>1
    <3> QED
      BY <1>4, <3>1, <3>2
  <2>2. CASE i # 1
    BY <1>4, <1>5, <2>2
  <2> QED
    BY <2>1, <2>2
<1> DEFINE Held(n) == \A i \in 1 .. n : /\ st[i] <= st[n]
                                      /\ \A k \in 1 .. Len(ss[i]) :
                                           f[n][st[i - 1] + k] = ss[i][k]
           T == {n \in 0 .. Len(ss) : Held(n)}
<1>8. 0 \in T
  BY <1>3
<1>9. ASSUME NEW n \in 0 .. Len(ss) - 1, Held(n)
      PROVE  Held(n + 1)
  <2>1. PICK m \in 1 .. Len(ss) : m = n + 1 /\ m - 1 = n
    BY <1>3
  <2>2. /\ st[m] = st[n] + Len(ss[m]) /\ st[n] \in Nat /\ Len(ss[m]) \in Nat
        /\ n # 0 => n \in 1 .. Len(ss) /\ m # 1 /\ st[n] = Len(f[n])
    BY <1>3, <1>4, <1>7, <2>1
  <2>3. \A k \in 1 .. Len(ss[m]) : f[m][st[n] + k] = ss[m][k]
    <3>1. CASE n = 0
      <4>1. m = 1 /\ st[n] = 0 /\ f[m] = ss[m]
        BY <1>4, <1>6, <2>1, <3>1
      <4>2. \A k \in 1 .. Len(ss[m]) : 0 + k = k
        BY <2>2
      <4> QED
        BY <4>1, <4>2
    <3>2. CASE n # 0
      <4>1. m # 1 /\ Len(f[m - 1]) = st[n]
        BY <2>1, <2>2, <3>2
      <4>2. \A k \in 1 .. Len(ss[m]) : f[m][Len(f[m - 1]) + k] = ss[m][k]
        BY <1>5, <4>1
      <4> QED
        BY <4>1, <4>2
    <3> QED
      BY <3>1, <3>2
  <2>4. ASSUME NEW i \in 1 .. n
        PROVE  /\ st[i] <= st[m]
               /\ \A k \in 1 .. Len(ss[i]) : f[m][st[i - 1] + k] = ss[i][k]
    <3>1. i \in 1 .. Len(ss) /\ i - 1 \in 0 .. Len(ss) /\ n # 0
      BY <1>3
    <3>2. /\ st[i] \in Nat /\ st[i - 1] \in Nat /\ st[i] = st[i - 1] + Len(ss[i])
          /\ Len(ss[i]) \in Nat
      BY <1>3, <1>4, <1>7, <3>1
    <3>3. st[i] <= st[n] /\ \A k \in 1 .. Len(ss[i]) : f[n][st[i - 1] + k] = ss[i][k]
      BY <1>9
    <3>4. st[n] = Len(f[n]) /\ m # 1 /\ m - 1 = n
      BY <2>1, <2>2, <3>1
    <3>5. \A k \in 1 .. Len(ss[i]) : st[i - 1] + k \in 1 .. Len(f[n])
      <4>1. st[i - 1] + Len(ss[i]) <= st[n]
        BY <3>2, <3>3
      <4>2. \A a, c, d \in Nat : a + c <= d => \A k \in 1 .. c : a + k \in 1 .. d
        OBVIOUS
      <4> QED
        BY <2>2, <3>2, <3>4, <4>1, <4>2
    <3>6. \A k \in 1 .. Len(f[n]) : f[m][k] = f[n][k]
      BY <1>5, <3>4
    <3>7. st[i] <= st[m]
      <4>1. st[i] <= st[n]
        BY <3>3
      <4> QED
        BY <2>2, <3>2, <4>1
    <3> QED
      BY <3>3, <3>5, <3>6, <3>7
  <2>5. \A i \in 1 .. m : i \in 1 .. n \/ i = m
    BY <2>1
  <2>6. st[m] <= st[m]
    BY <2>2
  <2>7. Held(m)
    BY <2>1, <2>3, <2>4, <2>5, <2>6
  <2> QED
    BY <2>1, <2>7
<1> HIDE DEF Held
<1>10. 0 .. Len(ss) \subseteq T
  <2>1. \A n \in 0 .. Len(ss) - 1 : n \in T => n + 1 \in T
    BY <1>3, <1>9
  <2> HIDE DEF T
  <2> QED
    BY <1>3, <1>8, <2>1, InductionOn
<1>11. Len(ss) \in T
  BY <1>3, <1>10
<1>12. Held(Len(ss))
  BY <1>11
<1>13. CASE Len(ss) = 0
  BY <1>2, <1>4, <1>7, <1>13
<1>14. CASE Len(ss) # 0
  <2>1. Len(ss) \in 1 .. Len(ss)
    BY <1>3, <1>14
  <2>2. FlattenSeq(ss) = f[Len(ss)] /\ st[Len(ss)] = Len(f[Len(ss)])
    BY <1>2, <1>4, <1>14, <2>1
  <2>3. \A i \in 1 .. Len(ss) : /\ st[i] <= st[Len(ss)]
                               /\ \A k \in 1 .. Len(ss[i]) :
                                    f[Len(ss)][st[i - 1] + k] = ss[i][k]
    BY <1>12 DEF Held
  <2> QED
    BY <1>4, <1>7, <2>2, <2>3
<1> QED
  BY <1>13, <1>14

LEMMA MapType ==
  ASSUME NEW S, NEW T, NEW s \in Seq(S), NEW g,
         g = [i \in DOMAIN s |-> g[i]], \A i \in DOMAIN s : g[i] \in T
  PROVE  g \in Seq(T)
<1>1. Len(s) \in Nat /\ DOMAIN s = 1 .. Len(s)
  OBVIOUS
<1>2. g \in [1 .. Len(s) -> T]
  BY <1>1
<1> QED
  BY <1>1, <1>2

LEMMA LineType ==
  /\ \A k \in Keywords \cup InstanceKeys \cup MappingKeys, v \in Values :
       Line(k, v) \in Lines
  /\ \A k \in Keywords : Mark(k) \in Lines
  /\ \A w \in Words : <<w>> \in Values
<1>1. << >> \in Values /\ \A w \in Words : <<w>> \in Values
  BY DEF Values
<1> QED
  BY <1>1 DEF Line, Mark, Lines

LEMMA MappingLinesType ==
  ASSUME NEW b \in Blueprints, NEW m \in Relations
  PROVE  MappingLines(b, m) \in Seq(Lines)
<1>1. /\ m.keyword \in Words /\ b.mapping_behavior \in Words
      /\ m.after \in Seq(Seq(Words)) /\ m.before \in Seq(Seq(Words))
  BY DEF Blueprints, Relations, Values
<1>2. FlattenSeq(m.after) \in Values /\ FlattenSeq(m.before) \in Values
  BY <1>1, FlattenType DEF Values
<1>3. <<m.keyword>> \in Values /\ <<b.mapping_behavior>> \in Values
  BY <1>1, LineType
<1>4. /\ Line("MAPPING", <<m.keyword>>) \in Lines
      /\ Line("after", FlattenSeq(m.after)) \in Lines
      /\ Line("before", FlattenSeq(m.before)) \in Lines
      /\ Line("mapping_behavior", <<b.mapping_behavior>>) \in Lines
      /\ Mark("END_MAPPING") \in Lines
  BY <1>2, <1>3, LineType DEF Keywords, MappingKeys
<1> QED
  BY <1>4 DEF MappingLines

IdentityLines(b) ==
  << Mark("INSTANCE"), Line("name", b.name), Line("type", b.type),
     Line("unit_file_name", b.unit_file_name), Line("path", b.path) >>
FailureLines(b) == << Line("failure_behavior", <<b.failure_behavior>>) >>
MappingsLines(b) == [i \in DOMAIN b.mappings |-> MappingLines(b, b.mappings[i])]
EndLines == << Mark("END"), Mark("blank") >>

LEMMA PartsTypes ==
  ASSUME NEW b \in Blueprints
  PROVE  /\ IdentityLines(b) \in Seq(Lines) /\ b.command \in Seq(Lines)
         /\ FailureLines(b) \in Seq(Lines) /\ EndLines \in Seq(Lines)
         /\ MappingsLines(b) \in Seq(Seq(Lines))
         /\ FlattenSeq(MappingsLines(b)) \in Seq(Lines)
<1>1. /\ b.name \in Values /\ b.type \in Values /\ b.unit_file_name \in Values
      /\ b.path \in Values /\ b.command \in Seq(Lines) /\ b.failure_behavior \in Words
      /\ b.mappings \in Seq(Relations)
  BY DEF Blueprints
<1>2. IdentityLines(b) \in Seq(Lines)
  <2>1. /\ Mark("INSTANCE") \in Lines
        /\ Line("name", b.name) \in Lines
        /\ Line("type", b.type) \in Lines
        /\ Line("unit_file_name", b.unit_file_name) \in Lines
        /\ Line("path", b.path) \in Lines
    BY <1>1, LineType DEF Keywords, InstanceKeys, Identity, Optional
  <2> QED
    BY <2>1 DEF IdentityLines
<1>3. FailureLines(b) \in Seq(Lines) /\ EndLines \in Seq(Lines)
  <2>1. /\ Line("failure_behavior", <<b.failure_behavior>>) \in Lines
        /\ Mark("END") \in Lines /\ Mark("blank") \in Lines
    BY <1>1, LineType DEF Keywords, InstanceKeys
  <2> QED
    BY <2>1 DEF FailureLines, EndLines
<1>4. MappingsLines(b) \in Seq(Seq(Lines))
  <2>1. \A i \in DOMAIN b.mappings : MappingsLines(b)[i] \in Seq(Lines)
    <3>1. \A i \in DOMAIN b.mappings : b.mappings[i] \in Relations
      BY <1>1
    <3> QED
      BY <3>1, MappingLinesType DEF MappingsLines
  <2>2. MappingsLines(b) = [i \in DOMAIN b.mappings |-> MappingsLines(b)[i]]
    BY DEF MappingsLines
  <2> QED
    BY <1>1, <2>1, <2>2, MapType
<1>5. FlattenSeq(MappingsLines(b)) \in Seq(Lines)
  BY <1>4, FlattenType
<1> QED
  BY <1>1, <1>2, <1>3, <1>4, <1>5

LEMMA InstanceLinesType ==
  ASSUME NEW b \in Blueprints
  PROVE  InstanceLines(b) \in Seq(Lines)
<1>1. /\ IdentityLines(b) \in Seq(Lines) /\ b.command \in Seq(Lines)
      /\ FailureLines(b) \in Seq(Lines) /\ EndLines \in Seq(Lines)
      /\ FlattenSeq(MappingsLines(b)) \in Seq(Lines)
  BY PartsTypes
<1>2. InstanceLines(b) = (((IdentityLines(b) \o b.command) \o FailureLines(b))
                            \o FlattenSeq(MappingsLines(b))) \o EndLines
  BY DEF InstanceLines, IdentityLines, FailureLines, MappingsLines, EndLines
<1>3. IdentityLines(b) \o b.command \in Seq(Lines)
  BY <1>1, ConcatProperties
<1>4. (IdentityLines(b) \o b.command) \o FailureLines(b) \in Seq(Lines)
  BY <1>1, <1>3, ConcatProperties
<1>5. ((IdentityLines(b) \o b.command) \o FailureLines(b))
        \o FlattenSeq(MappingsLines(b)) \in Seq(Lines)
  BY <1>1, <1>4, ConcatProperties
<1> QED
  BY <1>1, <1>2, <1>5, ConcatProperties

GlobalsLines(g) ==
  << Mark("GLOBALS"), Line("hierarchical_mappings", g.keywords),
     Mark("END"), Mark("blank") >>
BlocksLines(g) == [i \in DOMAIN g.blueprints |-> InstanceLines(g.blueprints[i])]

LEMMA WrittenParts ==
  ASSUME NEW g \in Generations
  PROVE  /\ g.keywords \in Values /\ g.blueprints \in Seq(Blueprints)
         /\ GlobalsLines(g) \in Seq(Lines) /\ BlocksLines(g) \in Seq(Seq(Lines))
         /\ FlattenSeq(BlocksLines(g)) \in Seq(Lines)
         /\ Written(g) = GlobalsLines(g) \o FlattenSeq(BlocksLines(g))
<1>1. g.keywords \in Values /\ g.blueprints \in Seq(Blueprints)
  BY ManifestAssumption
<1>2. GlobalsLines(g) \in Seq(Lines)
  <2>1. /\ Mark("GLOBALS") \in Lines /\ Mark("END") \in Lines /\ Mark("blank") \in Lines
        /\ Line("hierarchical_mappings", g.keywords) \in Lines
    BY <1>1, LineType DEF Keywords
  <2> QED
    BY <2>1 DEF GlobalsLines
<1>3. BlocksLines(g) \in Seq(Seq(Lines))
  <2>1. \A i \in DOMAIN g.blueprints : BlocksLines(g)[i] \in Seq(Lines)
    <3>1. \A i \in DOMAIN g.blueprints : g.blueprints[i] \in Blueprints
      BY <1>1
    <3> QED
      BY <3>1, InstanceLinesType DEF BlocksLines
  <2>2. BlocksLines(g) = [i \in DOMAIN g.blueprints |-> BlocksLines(g)[i]]
    BY DEF BlocksLines
  <2> QED
    BY <1>1, <2>1, <2>2, MapType
<1>4. FlattenSeq(BlocksLines(g)) \in Seq(Lines)
  BY <1>3, FlattenType
<1>5. Written(g) = GlobalsLines(g) \o FlattenSeq(BlocksLines(g))
  BY DEF Written, GlobalsLines, BlocksLines
<1> QED
  BY <1>1, <1>2, <1>3, <1>4, <1>5

LEMMA WrittenType ==
  ASSUME NEW g \in Generations
  PROVE  Written(g) \in Seq(Lines)
BY WrittenParts, ConcatProperties

LEMMA DamagedType ==
  ASSUME NEW f \in Seq(Lines), NEW d \in Damages,
         NEW i \in IF d = "none" THEN {1} ELSE DOMAIN f
  PROVE  Damaged(f, d, i) \in Seq(Lines)
<1>1. CASE d = "none"
  BY <1>1 DEF Damaged
<1>2. ASSUME d # "none"
      PROVE  i \in 1 .. Len(f) /\ f[i] \in Lines /\ Len(f) \in Nat
  BY <1>2
<1>3. ASSUME NEW m \in Nat \ {0}, NEW n \in Nat, n <= Len(f)
      PROVE  SubSeq(f, m, n) \in Seq(Lines)
  <2>1. \A j \in m .. n : f[j] \in Lines
    BY <1>3
  <2> QED
    BY <2>1, SubSeqProperties
<1>4. CASE d = "cut"
  <2>1. i - 1 \in Nat /\ i - 1 <= Len(f)
    BY <1>2, <1>4
  <2> QED
    BY <1>3, <1>4, <2>1 DEF Damaged
<1>5. CASE d = "dropped"
  <2>1. /\ i - 1 \in Nat /\ i - 1 <= Len(f) /\ i + 1 \in Nat \ {0}
        /\ Len(f) \in Nat /\ Len(f) <= Len(f)
    BY <1>2, <1>5
  <2>2. SubSeq(f, 1, i - 1) \in Seq(Lines) /\ SubSeq(f, i + 1, Len(f)) \in Seq(Lines)
    BY <1>3, <2>1
  <2>3. RemoveAt(f, i) \in Seq(Lines)
    BY <2>2, ConcatProperties DEF RemoveAt
  <2> QED
    BY <1>5, <2>3 DEF Damaged
<1>6. CASE d = "doubled"
  <2>1. /\ i - 1 \in Nat /\ i - 1 <= Len(f) /\ i \in Nat \ {0}
        /\ Len(f) \in Nat /\ Len(f) <= Len(f) /\ <<f[i]>> \in Seq(Lines)
    BY <1>2, <1>6
  <2>2. SubSeq(f, 1, i - 1) \in Seq(Lines) /\ SubSeq(f, i, Len(f)) \in Seq(Lines)
    BY <1>3, <2>1
  <2>3. SubSeq(f, 1, i - 1) \o <<f[i]>> \in Seq(Lines)
    BY <2>1, <2>2, ConcatProperties
  <2>4. InsertAt(f, i, f[i]) \in Seq(Lines)
    BY <2>2, <2>3, ConcatProperties DEF InsertAt
  <2> QED
    BY <1>6, <2>4 DEF Damaged
<1>7. CASE d = "misspelt"
  <2>1. [f[i] EXCEPT !.key = "unknown"] \in Lines
    BY <1>2, <1>7 DEF Lines, Keywords
  <2>2. [f EXCEPT ![i].key = "unknown"] \in Seq(Lines)
    BY <1>2, <1>7, <2>1, ExceptSeq
  <2> QED
    BY <1>7, <2>2 DEF Damaged
<1>8. CASE d = "swapped"
  <2>1. CASE i = Len(f)
    BY <1>8, <2>1 DEF Damaged
  <2>2. CASE i # Len(f)
    <3>1. i + 1 \in 1 .. Len(f) /\ f[i + 1] \in Lines
      BY <1>2, <1>8, <2>2
    <3> DEFINE g == [f EXCEPT ![i] = f[i + 1]]
    <3>2. g \in Seq(Lines) /\ Len(g) = Len(f)
      BY <1>2, <1>8, <3>1, ExceptSeq
    <3>3. [g EXCEPT ![i + 1] = f[i]] \in Seq(Lines)
      <4> HIDE DEF g
      <4> QED
        BY <1>2, <1>8, <3>1, <3>2, ExceptSeq
    <3>4. Damaged(f, d, i) = [g EXCEPT ![i + 1] = f[i]]
      BY <1>8, <2>2 DEF Damaged
    <3> QED
      BY <3>3, <3>4
  <2> QED
    BY <2>1, <2>2
<1> QED
  BY <1>1, <1>4, <1>5, <1>6, <1>7, <1>8, ManifestAssumption

LEMMA InitIsAnyFile == Init => AnyFile
<1> SUFFICES ASSUME Init PROVE AnyFile
  OBVIOUS
<1>1. PICK i \in IF damage = "none" THEN {1} ELSE DOMAIN Written(generation) :
        file = Damaged(Written(generation), damage, i)
  BY DEF Init
<1>2. file \in Seq(Lines)
  <2>1. generation \in Generations /\ damage \in Damages
    BY DEF Init
  <2>2. Written(generation) \in Seq(Lines)
    BY <2>1, WrittenType
  <2> QED
    BY <1>1, <2>1, <2>2, DamagedType
<1> QED
  BY <1>2 DEF Init, AnyFile

-----------------------------------------------------------------------------
(* Every generation that is written is read within what was allocated for it, *)
(* whatever it suffers.                                                      *)
THEOREM NothingReadUncounted == Spec => []WithinAllocated
<1>1. Init => ReaderInv
  BY InitIsAnyFile, OpenedInv
<1> QED
  BY <1>1, InvStep, InvImplies, PTL DEF Spec

(* What the manager accepts is well formed, whatever was written and whatever *)
(* it suffered.                                                              *)
THEOREM AcceptedIsWellFormed == Spec => []WellFormed
<1>1. Init => ReaderInv
  BY InitIsAnyFile, OpenedInv
<1> QED
  BY <1>1, InvStep, InvImplies, PTL DEF Spec

(* Every state of the reader is a state of its types. *)
WrittenInv == generation \in Generations /\ damage \in Damages /\ count \in 0 .. Len(file)

THEOREM ManifestTypeCorrect == Spec => []TypeOK
<1>1. Init => ReaderInv
  BY InitIsAnyFile, OpenedInv
<1>2. Init => WrittenInv
  <2> SUFFICES ASSUME Init PROVE WrittenInv
    OBVIOUS
  <2>1. file \in Seq(Lines)
    BY InitIsAnyFile DEF AnyFile
  <2>2. Len(file) \in Nat /\ DOMAIN file = 1 .. Len(file)
    BY <2>1
  <2>3. IsFiniteSet(1 .. Len(file)) /\ Cardinality(1 .. Len(file)) = Len(file)
    <3>1. /\ IsFiniteSet(1 .. Len(file))
          /\ Cardinality(1 .. Len(file)) = IF 1 > Len(file) THEN 0 ELSE Len(file) - 1 + 1
      BY <2>2, FS_Interval
    <3> QED
      BY <2>2, <3>1
  <2>4. Counted(file) \in Nat /\ Counted(file) <= Len(file)
    BY <2>2, <2>3, FS_Subset, FS_CardinalityType DEF Counted
  <2> QED
    BY <2>2, <2>4 DEF Init, Opened, WrittenInv
<1>3. WrittenInv /\ [Next]_vars => WrittenInv'
  <2>1. [Next]_vars => UNCHANGED inputs
    BY DEF vars, Next, ReadGlobals, ReadGlobalsField, ReadInstance, ReadField, ReadEnd,
           ReadMapping, ReadEndMapping, Skip, Reads, Reject, Resolve, Verify, Ends, Ended
  <2> QED
    BY <2>1 DEF WrittenInv, inputs
<1>4. ReaderInv /\ WrittenInv => TypeOK
  BY DEF ReaderInv, ReaderTypeOK, WrittenInv, TypeOK, Slots
<1> QED
  BY <1>1, <1>2, <1>3, <1>4, InvStep, PTL DEF Spec

-----------------------------------------------------------------------------
(* What is written is read: where each line of a generation is in its file.  *)
LEMMA JoinedAt ==
  ASSUME NEW S, NEW u \in Seq(S), NEW v \in Seq(S)
  PROVE  /\ u \o v \in Seq(S) /\ Len(u \o v) = Len(u) + Len(v)
         /\ \A k \in 1 .. Len(u) : (u \o v)[k] = u[k]
         /\ \A k \in 1 .. Len(v) : (u \o v)[Len(u) + k] = v[k]
<1>1. /\ u \o v \in Seq(S) /\ Len(u \o v) = Len(u) + Len(v)
      /\ Len(u) \in Nat /\ Len(v) \in Nat
      /\ \A k \in 1 .. Len(u) + Len(v) :
           (u \o v)[k] = IF k <= Len(u) THEN u[k] ELSE v[k - Len(u)]
  BY ConcatProperties
<1> QED
  BY <1>1

(* Sequences of one length follow each other at equal distances. *)
LEMMA FlattenEqual ==
  ASSUME NEW S, NEW ss \in Seq(Seq(S)), NEW c \in Nat,
         \A i \in 1 .. Len(ss) : Len(ss[i]) = c
  PROVE  /\ Len(FlattenSeq(ss)) = c * Len(ss)
         /\ \A i \in 1 .. Len(ss) : \A k \in 1 .. c :
              FlattenSeq(ss)[c * (i - 1) + k] = ss[i][k]
<1>1. PICK st \in [0 .. Len(ss) -> Nat] :
        /\ st[0] = 0
        /\ \A i \in 1 .. Len(ss) : st[i] = st[i - 1] + Len(ss[i])
        /\ Len(FlattenSeq(ss)) = st[Len(ss)]
        /\ \A i \in 1 .. Len(ss) : \A k \in 1 .. Len(ss[i]) :
             FlattenSeq(ss)[st[i - 1] + k] = ss[i][k]
  BY FlattenAt
<1>2. Len(ss) \in Nat
  OBVIOUS
<1> DEFINE T == {i \in 0 .. Len(ss) : st[i] = c * i}
<1>3. 0 \in T
  BY <1>1, <1>2
<1>4. ASSUME NEW i \in 0 .. Len(ss) - 1, i \in T
      PROVE  i + 1 \in T
  <2>1. i + 1 \in 1 .. Len(ss) /\ (i + 1) - 1 = i /\ i + 1 \in 0 .. Len(ss) /\ i \in Nat
    BY <1>2
  <2>2. st[i + 1] = c * i + c
    BY <1>1, <1>4, <2>1
  <2>3. c * i + c = c * (i + 1)
    BY <2>1
  <2> QED
    BY <2>1, <2>2, <2>3
<1> HIDE DEF T
<1>5. 0 .. Len(ss) \subseteq T
  BY <1>2, <1>3, <1>4, InductionOn
<1>6. \A i \in 0 .. Len(ss) : st[i] = c * i
  BY <1>5 DEF T
<1>7. \A i \in 1 .. Len(ss) : i - 1 \in 0 .. Len(ss)
  BY <1>2
<1>8. Len(ss) \in 0 .. Len(ss)
  BY <1>2
<1> QED
  BY <1>1, <1>6, <1>7, <1>8

Size(b) == 9 + 5 * Len(b.mappings)

(* The lines of an instance whose command has one line *)
LEMMA LinesAt ==
  ASSUME NEW b \in Blueprints, Len(b.command) = 1
  PROVE  /\ InstanceLines(b) \in Seq(Lines) /\ Len(InstanceLines(b)) = Size(b)
         /\ InstanceLines(b)[1] = Mark("INSTANCE")
         /\ InstanceLines(b)[2] = Line("name", b.name)
         /\ InstanceLines(b)[3] = Line("type", b.type)
         /\ InstanceLines(b)[4] = Line("unit_file_name", b.unit_file_name)
         /\ InstanceLines(b)[5] = Line("path", b.path)
         /\ InstanceLines(b)[6] = b.command[1]
         /\ InstanceLines(b)[7] = Line("failure_behavior", <<b.failure_behavior>>)
         /\ \A q \in 1 .. Len(b.mappings) : \A r \in 1 .. 5 :
              InstanceLines(b)[2 + 5 * q + r] = MappingLines(b, b.mappings[q])[r]
         /\ InstanceLines(b)[8 + 5 * Len(b.mappings)] = Mark("END")
         /\ InstanceLines(b)[9 + 5 * Len(b.mappings)] = Mark("blank")
<1> DEFINE M == Len(b.mappings)
<1>1. PICK t \in Seq(Lines), c \in Seq(Lines), f \in Seq(Lines),
           g \in Seq(Lines), e \in Seq(Lines) :
        /\ t = IdentityLines(b) /\ c = b.command /\ f = FailureLines(b)
        /\ g = FlattenSeq(MappingsLines(b)) /\ e = EndLines
  BY PartsTypes
<1>2. InstanceLines(b) = (((t \o c) \o f) \o g) \o e
  BY <1>1 DEF InstanceLines, IdentityLines, FailureLines, MappingsLines, EndLines
<1>3. /\ Len(t) = 5 /\ t[1] = Mark("INSTANCE") /\ t[2] = Line("name", b.name)
      /\ t[3] = Line("type", b.type) /\ t[4] = Line("unit_file_name", b.unit_file_name)
      /\ t[5] = Line("path", b.path)
  BY <1>1 DEF IdentityLines
<1>4. /\ Len(c) = 1 /\ c[1] = b.command[1]
      /\ Len(f) = 1 /\ f[1] = Line("failure_behavior", <<b.failure_behavior>>)
      /\ Len(e) = 2 /\ e[1] = Mark("END") /\ e[2] = Mark("blank")
  BY <1>1 DEF FailureLines, EndLines
<1>5. M \in Nat /\ DOMAIN b.mappings = 1 .. M
  BY DEF Blueprints
<1>6. /\ Len(g) = 5 * M
      /\ \A q \in 1 .. M : \A r \in 1 .. 5 :
           g[5 * (q - 1) + r] = MappingLines(b, b.mappings[q])[r]
  <2>1. PICK ms \in Seq(Seq(Lines)) : ms = MappingsLines(b)
    BY PartsTypes
  <2>2. /\ Len(ms) = M
        /\ \A q \in 1 .. M : ms[q] = MappingLines(b, b.mappings[q])
    BY <1>5, <2>1 DEF MappingsLines
  <2>3. \A m : Len(MappingLines(b, m)) = 5
    BY DEF MappingLines
  <2>4. 5 \in Nat /\ \A q \in 1 .. Len(ms) : Len(ms[q]) = 5
    BY <2>2, <2>3
  <2>5. /\ Len(FlattenSeq(ms)) = 5 * Len(ms)
        /\ \A q \in 1 .. Len(ms) : \A r \in 1 .. 5 :
             FlattenSeq(ms)[5 * (q - 1) + r] = ms[q][r]
    BY <2>4, FlattenEqual
  <2> QED
    BY <1>1, <2>1, <2>2, <2>5
<1>7. PICK tc \in Seq(Lines) : tc = t \o c
  BY JoinedAt
<1>8. Len(tc) = 6 /\ (\A k \in 1 .. 5 : tc[k] = t[k]) /\ tc[6] = c[1]
  <2>1. /\ Len(tc) = Len(t) + Len(c)
        /\ \A k \in 1 .. Len(t) : tc[k] = t[k]
        /\ \A k \in 1 .. Len(c) : tc[Len(t) + k] = c[k]
    BY <1>7, JoinedAt
  <2>2. 1 \in 1 .. Len(c)
    BY <1>4
  <2> QED
    BY <1>3, <1>4, <2>1, <2>2
<1>9. PICK tcf \in Seq(Lines) : tcf = tc \o f
  BY JoinedAt
<1>10. Len(tcf) = 7 /\ (\A k \in 1 .. 6 : tcf[k] = tc[k]) /\ tcf[7] = f[1]
  <2>1. /\ Len(tcf) = Len(tc) + Len(f)
        /\ \A k \in 1 .. Len(tc) : tcf[k] = tc[k]
        /\ \A k \in 1 .. Len(f) : tcf[Len(tc) + k] = f[k]
    BY <1>9, JoinedAt
  <2>2. 1 \in 1 .. Len(f)
    BY <1>4
  <2> QED
    BY <1>4, <1>8, <2>1, <2>2
<1>11. PICK all \in Seq(Lines) : all = tcf \o g
  BY JoinedAt
<1>12. PICK n \in Nat : n = 7 + 5 * M
  BY <1>5
<1>13. /\ Len(all) = n
       /\ \A k \in 1 .. 7 : all[k] = tcf[k]
       /\ \A k \in 1 .. 5 * M : all[7 + k] = g[k]
  <2>1. /\ Len(all) = Len(tcf) + Len(g)
        /\ \A k \in 1 .. Len(tcf) : all[k] = tcf[k]
        /\ \A k \in 1 .. Len(g) : all[Len(tcf) + k] = g[k]
    BY <1>11, JoinedAt
  <2> QED
    BY <1>6, <1>12, <1>10, <2>1
<1>14. PICK whole \in Seq(Lines) : whole = all \o e
  BY JoinedAt
<1>15. /\ Len(whole) = n + 2
       /\ \A k \in 1 .. n : whole[k] = all[k]
       /\ whole[n + 1] = e[1] /\ whole[n + 2] = e[2]
  <2>1. /\ Len(whole) = Len(all) + Len(e)
        /\ \A k \in 1 .. Len(all) : whole[k] = all[k]
        /\ \A k \in 1 .. Len(e) : whole[Len(all) + k] = e[k]
    BY <1>14, JoinedAt
  <2>2. 1 \in 1 .. Len(e) /\ 2 \in 1 .. Len(e)
    BY <1>4
  <2> QED
    BY <1>4, <1>13, <2>1, <2>2
<1>16. InstanceLines(b) = whole
  BY <1>2, <1>7, <1>9, <1>11, <1>14
<1>17. \A k \in 1 .. 7 : whole[k] = tcf[k]
  <2>1. \A k \in 1 .. 7 : k \in 1 .. n
    BY <1>5, <1>12
  <2> QED
    BY <1>13, <1>15, <2>1
<1>18. ASSUME NEW q \in 1 .. M, NEW r \in 1 .. 5
       PROVE  whole[2 + 5 * q + r] = MappingLines(b, b.mappings[q])[r]
  <2>1. PICK k \in 1 .. 5 * M : k = 5 * (q - 1) + r
    BY <1>5
  <2>2. 7 + k \in 1 .. n /\ 2 + 5 * q + r = 7 + k
    BY <1>5, <1>12, <2>1
  <2>3. whole[7 + k] = g[k]
    BY <1>13, <1>15, <2>2
  <2> QED
    BY <1>6, <2>1, <2>2, <2>3
<1>19. n + 2 = Size(b) /\ n + 1 = 8 + 5 * M /\ n + 2 = 9 + 5 * M
  BY <1>5, <1>12 DEF Size
<1>20. /\ whole[1] = t[1] /\ whole[2] = t[2] /\ whole[3] = t[3] /\ whole[4] = t[4]
       /\ whole[5] = t[5] /\ whole[6] = c[1] /\ whole[7] = f[1]
  <2>1. \A k \in 1 .. 5 : whole[k] = t[k]
    <3>1. \A k \in 1 .. 5 : k \in 1 .. 6 /\ k \in 1 .. 7
      OBVIOUS
    <3> QED
      BY <1>8, <1>10, <1>17, <3>1
  <2>2. whole[6] = c[1] /\ whole[7] = f[1]
    <3>1. 6 \in 1 .. 6 /\ 6 \in 1 .. 7 /\ 7 \in 1 .. 7
      OBVIOUS
    <3>2. whole[6] = tcf[6] /\ tcf[6] = tc[6] /\ whole[7] = tcf[7]
      BY <1>10, <1>17, <3>1
    <3> QED
      BY <1>8, <1>10, <3>2
  <2>3. 1 \in 1 .. 5 /\ 2 \in 1 .. 5 /\ 3 \in 1 .. 5 /\ 4 \in 1 .. 5 /\ 5 \in 1 .. 5
    OBVIOUS
  <2> QED
    BY <2>1, <2>2, <2>3
<1> QED
  BY <1>3, <1>4, <1>15, <1>16, <1>18, <1>19, <1>20

(* The file of a generation whose commands have one line, or what a cut left  *)
(* of it: block i is behind line st[i - 1].                                  *)
OneLine == \A i \in Indices : Len(Blueprint(i).command) = 1
Many == Len(generation.blueprints)
Layout(st) ==
  /\ generation \in Generations /\ OneLine
  /\ st \in [0 .. Many -> Nat] /\ st[0] = 4
  /\ \A i \in 1 .. Many : st[i] = st[i - 1] + Size(Blueprint(i))
  /\ \A i \in 1 .. Many : st[i] <= st[Many]
  /\ Len(file) <= st[Many]
  /\ damage = "none" => Len(file) = st[Many]
  /\ \A k \in 1 .. 4 : k <= Len(file) => file[k] = GlobalsLines(generation)[k]
  /\ \A i \in 1 .. Many : \A k \in 1 .. Size(Blueprint(i)) :
       st[i - 1] + k <= Len(file) =>
         file[st[i - 1] + k] = InstanceLines(Blueprint(i))[k]

LEMMA GenerationFacts ==
  ASSUME generation \in Generations
  PROVE  /\ Many \in Nat /\ Indices = 1 .. Many /\ generation.keywords \in Values
         /\ \A i \in 1 .. Many : /\ Blueprint(i) \in Blueprints
                                 /\ WellBuilt(generation.keywords, Blueprint(i))
<1>1. generation.keywords \in Values /\ generation.blueprints \in Seq(Blueprints)
  BY WrittenParts
<1>2. Many \in Nat /\ Indices = 1 .. Many
  BY <1>1 DEF Many, Indices
<1>3. \A i \in 1 .. Many : Blueprint(i) \in Blueprints
  BY <1>1 DEF Many, Blueprint
<1> QED
  BY <1>1, <1>2, <1>3, ManifestAssumption DEF Blueprint, Indices

LEMMA LaidOut ==
  ASSUME Init, OneLine, damage \in {"none", "cut"}
  PROVE  \E st : Layout(st)
<1>1. generation \in Generations
  BY DEF Init
<1>2. PICK t \in Seq(Lines), ss \in Seq(Seq(Lines)), f \in Seq(Lines) :
        /\ t = GlobalsLines(generation) /\ ss = BlocksLines(generation)
        /\ f = FlattenSeq(ss) /\ Written(generation) = t \o f
  BY <1>1, WrittenParts
<1>3. /\ Many \in Nat /\ Indices = 1 .. Many
      /\ \A i \in 1 .. Many : Blueprint(i) \in Blueprints
  BY <1>1, GenerationFacts
<1>4. /\ Len(ss) = Many
      /\ \A i \in 1 .. Many : /\ ss[i] = InstanceLines(Blueprint(i))
                              /\ Len(ss[i]) = Size(Blueprint(i))
                              /\ Size(Blueprint(i)) \in Nat
  <2>1. ss = [i \in 1 .. Many |-> InstanceLines(Blueprint(i))]
    BY <1>2, <1>3 DEF BlocksLines, Indices, Blueprint
  <2>2. \A i \in 1 .. Many : Len(Blueprint(i).command) = 1
    BY <1>3 DEF OneLine
  <2>3. \A i \in 1 .. Many : /\ InstanceLines(Blueprint(i)) \in Seq(Lines)
                            /\ Len(InstanceLines(Blueprint(i))) = Size(Blueprint(i))
    BY <1>3, <2>2, LinesAt
  <2>4. \A i \in 1 .. Many : Len(InstanceLines(Blueprint(i))) \in Nat
    BY <2>3
  <2> QED
    BY <1>3, <2>1, <2>3, <2>4
<1>5. PICK at0 \in [0 .. Len(ss) -> Nat] :
        /\ at0[0] = 0
        /\ \A i \in 1 .. Len(ss) : at0[i] = at0[i - 1] + Len(ss[i])
        /\ \A i \in 1 .. Len(ss) : at0[i] <= at0[Len(ss)]
        /\ Len(FlattenSeq(ss)) = at0[Len(ss)]
        /\ \A i \in 1 .. Len(ss) : \A k \in 1 .. Len(ss[i]) :
             FlattenSeq(ss)[at0[i - 1] + k] = ss[i][k]
  BY FlattenAt
<1>6. PICK whole \in Seq(Lines) : whole = t \o f
  BY JoinedAt
<1>7. /\ Len(t) = 4 /\ Len(f) = at0[Many] /\ Len(whole) = 4 + at0[Many]
      /\ \A k \in 1 .. 4 : whole[k] = t[k]
      /\ \A k \in 1 .. at0[Many] : whole[4 + k] = f[k]
  <2>1. Len(t) = 4
    BY <1>2 DEF GlobalsLines
  <2>2. Len(f) = at0[Many]
    BY <1>2, <1>4, <1>5
  <2>3. /\ Len(whole) = Len(t) + Len(f)
        /\ \A k \in 1 .. Len(t) : whole[k] = t[k]
        /\ \A k \in 1 .. Len(f) : whole[Len(t) + k] = f[k]
    BY <1>6, JoinedAt
  <2> QED
    BY <2>1, <2>2, <2>3
<1>8. /\ \A i \in 0 .. Many : at0[i] \in Nat
      /\ \A i \in 1 .. Many : /\ i - 1 \in 0 .. Many /\ i \in 0 .. Many
                              /\ at0[i] = at0[i - 1] + Size(Blueprint(i))
                              /\ at0[i] <= at0[Many]
      /\ 0 \in 0 .. Many /\ Many \in 0 .. Many
  <2>1. \A i \in 0 .. Many : at0[i] \in Nat
    BY <1>4, <1>5
  <2>2. \A i \in 1 .. Many : i - 1 \in 0 .. Many /\ i \in 0 .. Many
    BY <1>3
  <2>3. \A i \in 1 .. Many : at0[i] = at0[i - 1] + Size(Blueprint(i))
    BY <1>4, <1>5
  <2>4. \A i \in 1 .. Many : at0[i] <= at0[Many]
    BY <1>4, <1>5
  <2>5. 0 \in 0 .. Many /\ Many \in 0 .. Many
    BY <1>3
  <2> QED
    BY <2>1, <2>2, <2>3, <2>4, <2>5
<1> DEFINE st == [i \in 0 .. Many |-> 4 + at0[i]]
<1>9. \A i \in 0 .. Many : st[i] = 4 + at0[i] /\ st[i] \in Nat
  BY <1>8
<1>10. st \in [0 .. Many -> Nat] /\ st[0] = 4
  BY <1>5, <1>8
<1> HIDE DEF st
<1>11. ASSUME NEW i \in 1 .. Many
       PROVE  st[i] = st[i - 1] + Size(Blueprint(i)) /\ st[i] <= st[Many]
  <2>1. /\ at0[i] \in Nat /\ at0[i - 1] \in Nat /\ at0[Many] \in Nat
        /\ Size(Blueprint(i)) \in Nat
        /\ st[i] = 4 + at0[i] /\ st[i - 1] = 4 + at0[i - 1] /\ st[Many] = 4 + at0[Many]
    BY <1>4, <1>8, <1>9
  <2>2. at0[i] = at0[i - 1] + Size(Blueprint(i)) /\ at0[i] <= at0[Many]
    BY <1>8
  <2> QED
    BY <2>1, <2>2
<1>12. Len(whole) = st[Many]
  BY <1>7, <1>8, <1>9
<1>13. ASSUME NEW i \in 1 .. Many, NEW k \in 1 .. Size(Blueprint(i))
       PROVE  /\ st[i - 1] + k \in Nat \ {0}
              /\ whole[st[i - 1] + k] = InstanceLines(Blueprint(i))[k]
  <2>1. /\ at0[i] \in Nat /\ at0[i - 1] \in Nat /\ at0[Many] \in Nat
        /\ Size(Blueprint(i)) \in Nat /\ st[i - 1] = 4 + at0[i - 1]
        /\ at0[i] = at0[i - 1] + Size(Blueprint(i)) /\ at0[i] <= at0[Many]
    BY <1>4, <1>8, <1>9
  <2>2. k \in 1 .. Len(ss[i]) /\ i \in 1 .. Len(ss)
    BY <1>4
  <2>3. f[at0[i - 1] + k] = InstanceLines(Blueprint(i))[k]
    <3>1. FlattenSeq(ss)[at0[i - 1] + k] = ss[i][k]
      BY <1>5, <2>2
    <3> QED
      BY <1>2, <1>4, <3>1
  <2>4. PICK a \in Nat, c \in Nat, d \in Nat :
          a = at0[i - 1] /\ c = Size(Blueprint(i)) /\ d = at0[Many]
    BY <2>1
  <2>5. a + c <= d /\ k \in 1 .. c /\ st[i - 1] = 4 + a
    BY <2>1, <2>4
  <2>6. a + k \in 1 .. d /\ (4 + a) + k = 4 + (a + k) /\ (4 + a) + k \in Nat \ {0}
    BY <2>5
  <2>7. whole[4 + (a + k)] = f[a + k]
    BY <1>7, <2>4, <2>6
  <2> QED
    BY <2>3, <2>4, <2>5, <2>6, <2>7
<1>14. /\ Len(file) <= Len(whole) /\ (damage = "none" => Len(file) = Len(whole))
       /\ \A k \in Nat \ {0} : k <= Len(file) => file[k] = whole[k]
  <2>1. PICK i \in IF damage = "none" THEN {1} ELSE DOMAIN whole :
          file = Damaged(whole, damage, i)
    BY <1>2, <1>6 DEF Init
  <2>2. CASE damage = "none"
    <3>1. file = whole
      BY <2>1, <2>2 DEF Damaged
    <3>2. Len(whole) \in Nat
      OBVIOUS
    <3> QED
      BY <3>1, <3>2
  <2>3. CASE damage = "cut"
    <3>1. file = SubSeq(whole, 1, i - 1) /\ i \in 1 .. Len(whole)
      BY <2>1, <2>3 DEF Damaged
    <3>2. i - 1 \in Nat /\ i - 1 <= Len(whole) /\ Len(whole) \in Nat
      BY <3>1
    <3>3. /\ Len(file) = i - 1
          /\ \A k \in 1 .. i - 1 : file[k] = whole[k]
      <4>1. \A k \in 1 .. i - 1 : whole[k] \in Lines
        BY <3>2
      <4> QED
        BY <3>1, <3>2
    <3>4. \A k \in Nat \ {0} : k <= Len(file) => k \in 1 .. i - 1
      BY <3>2, <3>3
    <3> QED
      BY <2>3, <3>2, <3>3, <3>4
  <2> QED
    BY <2>2, <2>3
<1>15. \A k \in 1 .. 4 : k <= Len(file) => file[k] = GlobalsLines(generation)[k]
  <2>1. \A k \in 1 .. 4 : k \in Nat \ {0}
    OBVIOUS
  <2> QED
    BY <1>2, <1>7, <1>14, <2>1
<1>16. \A i \in 1 .. Many : \A k \in 1 .. Size(Blueprint(i)) :
         st[i - 1] + k <= Len(file) =>
           file[st[i - 1] + k] = InstanceLines(Blueprint(i))[k]
  BY <1>13, <1>14
<1>17. Layout(st)
  BY <1>1, <1>10, <1>11, <1>12, <1>14, <1>15, <1>16 DEF Layout
<1> QED
  BY <1>17

-----------------------------------------------------------------------------
(* Where the reader is in such a file, and what it has by then.  Line n of a  *)
(* block holds a field of the instance or of one of its mappings.            *)
FieldLine == [name |-> 2, type |-> 3, unit_file_name |-> 4, path |-> 5,
              command |-> 6, failure_behavior |-> 7]
FieldValue(b, k) ==
  CASE k = "command"          -> b.command[1].value
    [] k = "failure_behavior" -> <<b.failure_behavior>>
    [] OTHER                  -> b[k]
SubLine == [after |-> 2, before |-> 3, mapping_behavior |-> 4]
PeersValue(b, p, k) ==
  CASE k = "after"            -> FlattenSeq(b.mappings[p].after)
    [] k = "before"           -> FlattenSeq(b.mappings[p].before)
    [] k = "mapping_behavior" -> <<b.mapping_behavior>>
Keyword(b, p) == b.mappings[p].keyword

(* ins has what the lines before line n of the block of b say. *)
Taken(b, ins, n) ==
  /\ \A k \in InstanceKeys : FieldLine[k] < n => ins.fields[k] = FieldValue(b, k)
  /\ \A p \in 1 .. Len(b.mappings), k \in MappingKeys :
       2 + 5 * p + SubLine[k] < n => ins.peers[Keyword(b, p)][k] = PeersValue(b, p, k)
  /\ \A m \in ToSet(names) :
       (\A p \in 1 .. Len(b.mappings) : Keyword(b, p) # m) => Unused(ins.peers[m])

Done(i) == \A j \in 1 .. i : /\ names = generation.keywords
                             /\ Taken(Blueprint(j), list[j], Size(Blueprint(j)))
Under(i) == /\ Len(list) = i /\ Done(i - 1) /\ names = generation.keywords

AtTop ==
  /\ at \in 1 .. 4 /\ list = << >>
  /\ block = IF at \in {2, 3} THEN "IN_GLOBALS" ELSE "OUTSIDE"
  /\ names = IF at \in {1, 2} THEN << >> ELSE generation.keywords
AtInstance(st, i) ==
  /\ at = st[i - 1] + 1 /\ block = "OUTSIDE" /\ Len(list) = i - 1
  /\ Done(i - 1) /\ names = generation.keywords
AtField(st, i, n) ==
  /\ at = st[i - 1] + n /\ block = "IN_INSTANCE" /\ Under(i)
  /\ Taken(Blueprint(i), list[i], n)
  /\ claimed = {} /\ "failure_behavior" \notin seen
AtMapping(st, i, q) ==
  /\ at = st[i - 1] + (3 + 5 * q) /\ block = "IN_INSTANCE" /\ Under(i)
  /\ Taken(Blueprint(i), list[i], 3 + 5 * q)
  /\ claimed = {Keyword(Blueprint(i), p) : p \in 1 .. q - 1}
  /\ "failure_behavior" \in seen
AtPeers(st, i, q, r) ==
  /\ at = st[i - 1] + (2 + 5 * q + r) /\ block = "IN_MAPPING" /\ Under(i)
  /\ Taken(Blueprint(i), list[i], 2 + 5 * q + r)
  /\ claimed = {Keyword(Blueprint(i), p) : p \in 1 .. q}
  /\ current = Keyword(Blueprint(i), q)
  /\ "failure_behavior" \in seen
  /\ \A k \in MappingKeys : k \in seen <=> SubLine[k] < r
AtBlank(st, i) ==
  /\ at = st[i] /\ block = "OUTSIDE" /\ Len(list) = i
  /\ Done(i) /\ names = generation.keywords

Placed(st) ==
  \/ AtTop
  \/ \E i \in 1 .. Many + 1 : AtInstance(st, i)
  \/ \E i \in 1 .. Many, n \in 2 .. 7 : AtField(st, i, n)
  \/ \E i \in 1 .. Many : \E q \in 1 .. Len(Blueprint(i).mappings) + 1 :
       AtMapping(st, i, q)
  \/ \E i \in 1 .. Many : \E q \in 1 .. Len(Blueprint(i).mappings), r \in 2 .. 5 :
       AtPeers(st, i, q, r)
  \/ \E i \in 1 .. Many : AtBlank(st, i)

Unmarked == \A l \in ToSet(file) : EndsInINSTANCE(l) => l.key = "INSTANCE"

(* What is left when the file has ended: instances that were read whole, and  *)
(* behind them those that were only imagined.                                *)
AllRead(n) ==
  /\ n <= Len(list) /\ Done(n)
  /\ \A j \in n + 1 .. Len(list) : names = << >> /\ list[j] = Zeroed
  /\ damage = "none" => n = Many
  /\ Unmarked => Len(list) = n

CountExact == verdict = "reading" /\ Unmarked =>
                Cardinality(CountedUpTo(at)) = Len(list)

FollowsInv ==
  /\ CountExact
  /\ OneLine /\ damage \in {"none", "cut"} =>
       \E st : /\ Layout(st)
               /\ verdict = "reading" => Placed(st)
               /\ verdict \in {"resolved", "accepted"} =>
                    \E n \in 0 .. Many : AllRead(n)
LEMMA LayoutFacts ==
  ASSUME NEW st, Layout(st)
  PROVE  /\ Many \in Nat /\ 0 \in 0 .. Many /\ Many \in 0 .. Many
         /\ generation.keywords \in Values
         /\ \A i \in 1 .. Many :
              /\ i - 1 \in 0 .. Many /\ st[i - 1] \in Nat /\ st[i] \in Nat
              /\ Blueprint(i) \in Blueprints /\ Len(Blueprint(i).command) = 1
              /\ WellBuilt(generation.keywords, Blueprint(i))
              /\ Len(Blueprint(i).mappings) \in Nat
              /\ DOMAIN Blueprint(i).mappings = 1 .. Len(Blueprint(i).mappings)
              /\ Size(Blueprint(i)) = 9 + 5 * Len(Blueprint(i).mappings)
              /\ st[i] = st[i - 1] + (9 + 5 * Len(Blueprint(i).mappings))
              /\ st[i] <= st[Many]
         /\ st[Many] \in Nat /\ Len(file) <= st[Many]
<1>1. /\ generation \in Generations /\ OneLine /\ st \in [0 .. Many -> Nat]
      /\ \A i \in 1 .. Many : st[i] = st[i - 1] + Size(Blueprint(i)) /\ st[i] <= st[Many]
      /\ Len(file) <= st[Many]
  BY DEF Layout
<1>2. /\ Many \in Nat /\ Indices = 1 .. Many /\ generation.keywords \in Values
      /\ \A i \in 1 .. Many : /\ Blueprint(i) \in Blueprints
                              /\ WellBuilt(generation.keywords, Blueprint(i))
  BY <1>1, GenerationFacts
<1>3. 0 \in 0 .. Many /\ Many \in 0 .. Many
  BY <1>2
<1>4. ASSUME NEW i \in 1 .. Many
      PROVE  /\ i - 1 \in 0 .. Many /\ st[i - 1] \in Nat /\ st[i] \in Nat
             /\ Len(Blueprint(i).command) = 1
             /\ Len(Blueprint(i).mappings) \in Nat
             /\ DOMAIN Blueprint(i).mappings = 1 .. Len(Blueprint(i).mappings)
  <2>1. i - 1 \in 0 .. Many /\ i \in 0 .. Many
    BY <1>2
  <2>2. st[i - 1] \in Nat /\ st[i] \in Nat
    BY <1>1, <2>1
  <2>3. Len(Blueprint(i).command) = 1
    BY <1>1, <1>2 DEF OneLine
  <2>4. Blueprint(i).mappings \in Seq(Relations)
    BY <1>2 DEF Blueprints
  <2> QED
    BY <2>1, <2>2, <2>3, <2>4
<1>5. st[Many] \in Nat
  BY <1>1, <1>3
<1> QED
  BY <1>1, <1>2, <1>3, <1>4, <1>5 DEF Size

(* The line the reader has come to *)
LEMMA LineOf ==
  ASSUME NEW st, Layout(st), NEW i \in 1 .. Many, NEW k \in 1 .. Size(Blueprint(i)),
         at = st[i - 1] + k, at <= Len(file)
  PROVE  file[at] = InstanceLines(Blueprint(i))[k]
BY DEF Layout

LEMMA InstanceAt ==
  ASSUME NEW st, Layout(st), NEW i \in 1 .. Many, at = st[i - 1] + 1, at <= Len(file)
  PROVE  file[at].key = "INSTANCE"
<1>1. 1 \in 1 .. Size(Blueprint(i))
  BY LayoutFacts
<1>2. file[at] = InstanceLines(Blueprint(i))[1]
  BY <1>1, LineOf
<1>3. Blueprint(i) \in Blueprints /\ Len(Blueprint(i).command) = 1
  BY LayoutFacts
<1>4. InstanceLines(Blueprint(i))[1] = Mark("INSTANCE")
  BY <1>3, LinesAt
<1> QED
  BY <1>2, <1>4 DEF Mark, Line

LEMMA FieldAt ==
  ASSUME NEW st, Layout(st), NEW i \in 1 .. Many, NEW n \in 2 .. 7,
         at = st[i - 1] + n, at <= Len(file)
  PROVE  \E k \in InstanceKeys : /\ FieldLine[k] = n /\ file[at].key = k
                                 /\ file[at].value = FieldValue(Blueprint(i), k)
<1> DEFINE b == Blueprint(i)
<1>1. n \in 1 .. Size(b)
  <2>1. PICK m \in Nat : Size(b) = 9 + 5 * m
    BY LayoutFacts
  <2> QED
    BY <2>1
<1>2. file[at] = InstanceLines(b)[n]
  BY <1>1, LineOf
<1>3. b \in Blueprints /\ Len(b.command) = 1 /\ b.command[1].key = "command"
  BY LayoutFacts DEF WellBuilt
<1>4. /\ InstanceLines(b)[2] = Line("name", b.name)
      /\ InstanceLines(b)[3] = Line("type", b.type)
      /\ InstanceLines(b)[4] = Line("unit_file_name", b.unit_file_name)
      /\ InstanceLines(b)[5] = Line("path", b.path)
      /\ InstanceLines(b)[6] = b.command[1]
      /\ InstanceLines(b)[7] = Line("failure_behavior", <<b.failure_behavior>>)
  BY <1>3, LinesAt
<1>5. n \in {2, 3, 4, 5, 6, 7}
  OBVIOUS
<1> HIDE DEF b
<1>6. CASE n = 2
  <2>1. file[at].key = "name" /\ file[at].value = b.name /\ "name" \in InstanceKeys
    BY <1>2, <1>4, <1>6 DEF Line, InstanceKeys, Identity
  <2> QED
    BY <1>6, <2>1 DEF FieldLine, FieldValue, b
<1>7. CASE n = 3
  <2>1. file[at].key = "type" /\ file[at].value = b.type /\ "type" \in InstanceKeys
    BY <1>2, <1>4, <1>7 DEF Line, InstanceKeys, Identity
  <2> QED
    BY <1>7, <2>1 DEF FieldLine, FieldValue, b
<1>8. CASE n = 4
  <2>1. /\ file[at].key = "unit_file_name" /\ file[at].value = b.unit_file_name
        /\ "unit_file_name" \in InstanceKeys
    BY <1>2, <1>4, <1>8 DEF Line, InstanceKeys, Identity
  <2> QED
    BY <1>8, <2>1 DEF FieldLine, FieldValue, b
<1>9. CASE n = 5
  <2>1. file[at].key = "path" /\ file[at].value = b.path /\ "path" \in InstanceKeys
    BY <1>2, <1>4, <1>9 DEF Line, InstanceKeys, Optional
  <2> QED
    BY <1>9, <2>1 DEF FieldLine, FieldValue, b
<1>10. CASE n = 6
  <2>1. /\ file[at].key = "command" /\ file[at].value = b.command[1].value
        /\ "command" \in InstanceKeys
    BY <1>2, <1>3, <1>4, <1>10 DEF InstanceKeys, Optional, b
  <2> QED
    BY <1>10, <2>1 DEF FieldLine, FieldValue, b
<1>11. CASE n = 7
  <2>1. /\ file[at].key = "failure_behavior"
        /\ file[at].value = <<b.failure_behavior>>
        /\ "failure_behavior" \in InstanceKeys
    BY <1>2, <1>4, <1>11 DEF Line, InstanceKeys
  <2> QED
    BY <1>11, <2>1 DEF FieldLine, FieldValue, b
<1> QED
  BY <1>5, <1>6, <1>7, <1>8, <1>9, <1>10, <1>11

LEMMA SubBlockAt ==
  ASSUME NEW st, Layout(st), NEW i \in 1 .. Many,
         NEW q \in 1 .. Len(Blueprint(i).mappings), NEW r \in 1 .. 5,
         at = st[i - 1] + (2 + 5 * q + r), at <= Len(file)
  PROVE  file[at] = MappingLines(Blueprint(i), Blueprint(i).mappings[q])[r]
<1> DEFINE b == Blueprint(i)
<1>1. PICK m \in Nat : m = Len(b.mappings)
  BY LayoutFacts
<1>2. 2 + 5 * q + r \in 1 .. 9 + 5 * m
  BY <1>1
<1>3. 2 + 5 * q + r \in 1 .. Size(b)
  BY <1>1, <1>2 DEF Size
<1>4. file[at] = InstanceLines(b)[2 + 5 * q + r]
  BY <1>3, LineOf
<1> QED
  BY <1>4, LayoutFacts, LinesAt

LEMMA MappingAt ==
  ASSUME NEW st, Layout(st), NEW i \in 1 .. Many,
         NEW q \in 1 .. Len(Blueprint(i).mappings),
         at = st[i - 1] + (3 + 5 * q), at <= Len(file)
  PROVE  file[at].key = "MAPPING" /\ file[at].value = <<Keyword(Blueprint(i), q)>>
<1>1. 3 + 5 * q = 2 + 5 * q + 1 /\ 1 \in 1 .. 5
  OBVIOUS
<1>2. file[at] = MappingLines(Blueprint(i), Blueprint(i).mappings[q])[1]
  BY <1>1, SubBlockAt
<1> QED
  BY <1>2 DEF MappingLines, Line, Keyword

LEMMA PeersAt ==
  ASSUME NEW st, Layout(st), NEW i \in 1 .. Many,
         NEW q \in 1 .. Len(Blueprint(i).mappings), NEW r \in 2 .. 5,
         at = st[i - 1] + (2 + 5 * q + r), at <= Len(file)
  PROVE  /\ r = 5 => file[at].key = "END_MAPPING"
         /\ r # 5 => \E k \in MappingKeys :
                       /\ SubLine[k] = r /\ file[at].key = k
                       /\ file[at].value = PeersValue(Blueprint(i), q, k)
<1>1. file[at] = MappingLines(Blueprint(i), Blueprint(i).mappings[q])[r]
  <2>1. r \in 1 .. 5
    OBVIOUS
  <2> QED
    BY <2>1, SubBlockAt
<1>2. r \in {2, 3, 4, 5}
  OBVIOUS
<1>3. CASE r = 2
  <2>1. /\ file[at].key = "after" /\ "after" \in MappingKeys
        /\ file[at].value = FlattenSeq(Blueprint(i).mappings[q].after)
    BY <1>1, <1>3 DEF MappingLines, Line, MappingKeys
  <2> QED
    BY <1>3, <2>1 DEF SubLine, PeersValue
<1>4. CASE r = 3
  <2>1. /\ file[at].key = "before" /\ "before" \in MappingKeys
        /\ file[at].value = FlattenSeq(Blueprint(i).mappings[q].before)
    BY <1>1, <1>4 DEF MappingLines, Line, MappingKeys
  <2> QED
    BY <1>4, <2>1 DEF SubLine, PeersValue
<1>5. CASE r = 4
  <2>1. /\ file[at].key = "mapping_behavior" /\ "mapping_behavior" \in MappingKeys
        /\ file[at].value = <<Blueprint(i).mapping_behavior>>
    BY <1>1, <1>5 DEF MappingLines, Line, MappingKeys
  <2> QED
    BY <1>5, <2>1 DEF SubLine, PeersValue
<1>6. CASE r = 5
  BY <1>1, <1>6 DEF MappingLines, Mark, Line
<1> QED
  BY <1>2, <1>3, <1>4, <1>5, <1>6

LEMMA EndAt ==
  ASSUME NEW st, Layout(st), NEW i \in 1 .. Many, at <= Len(file)
  PROVE  /\ at = st[i - 1] + (8 + 5 * Len(Blueprint(i).mappings)) => file[at].key = "END"
         /\ at = st[i] => file[at].key = "blank"
<1> DEFINE b == Blueprint(i)
<1>1. PICK m \in Nat : m = Len(b.mappings)
  BY LayoutFacts
<1>2. 8 + 5 * m \in 1 .. Size(b) /\ 9 + 5 * m \in 1 .. Size(b)
  BY <1>1 DEF Size
<1>3. /\ InstanceLines(b)[8 + 5 * m] = Mark("END")
      /\ InstanceLines(b)[9 + 5 * m] = Mark("blank")
  BY <1>1, LayoutFacts, LinesAt
<1>4. at = st[i - 1] + (8 + 5 * m) => file[at] = InstanceLines(b)[8 + 5 * m]
  BY <1>2, LineOf
<1>5. st[i] = st[i - 1] + (9 + 5 * m)
  BY <1>1, LayoutFacts
<1>6. at = st[i] => file[at] = InstanceLines(b)[9 + 5 * m]
  BY <1>2, <1>5, LineOf
<1> QED
  BY <1>1, <1>3, <1>4, <1>6 DEF Mark, Line

LEMMA TopAt ==
  ASSUME NEW st, Layout(st), at \in 1 .. 4, at <= Len(file)
  PROVE  /\ at = 1 => file[at].key = "GLOBALS"
         /\ at = 2 => /\ file[at].key = "hierarchical_mappings"
                      /\ file[at].value = generation.keywords
         /\ at = 3 => file[at].key = "END"
         /\ at = 4 => file[at].key = "blank"
<1>1. file[at] = GlobalsLines(generation)[at]
  BY DEF Layout
<1> QED
  BY <1>1 DEF GlobalsLines, Mark, Line

(* The action a line that is not rejected is read by *)
LEMMA ReadBy ==
  ASSUME Next, verdict = "reading", verdict' = "reading"
  PROVE  /\ at <= Len(file) /\ at' = at + 1 /\ UNCHANGED inputs
         /\ file[at].key = "GLOBALS" => ReadGlobals
         /\ file[at].key = "INSTANCE" => ReadInstance
         /\ file[at].key = "MAPPING" => ReadMapping
         /\ file[at].key = "END_MAPPING" => ReadEndMapping
         /\ file[at].key = "END" => ReadEnd
         /\ file[at].key = "blank" => Skip
         /\ file[at].key = "hierarchical_mappings" /\ block = "IN_GLOBALS" =>
              ReadGlobalsField
         /\ file[at].key \in InstanceKeys \cup MappingKeys /\ block # "OUTSIDE" =>
              ReadField
<1>1. ~Reject /\ ~Resolve /\ ~Verify /\ ~Ended
  BY DEF Reject, Resolve, Verify, Ended, Ends
<1>2. \/ ReadGlobals \/ ReadGlobalsField \/ ReadInstance \/ ReadField \/ ReadEnd
      \/ ReadMapping \/ ReadEndMapping \/ Skip
  BY <1>1 DEF Next
<1>3. ReadGlobals => at <= Len(file) /\ file[at].key = "GLOBALS"
  BY DEF ReadGlobals, Reads
<1>4. ReadInstance => at <= Len(file) /\ file[at].key = "INSTANCE"
  BY DEF ReadInstance, Reads
<1>5. ReadMapping => at <= Len(file) /\ file[at].key = "MAPPING"
  BY DEF ReadMapping, Reads
<1>6. ReadEndMapping => at <= Len(file) /\ file[at].key = "END_MAPPING"
  BY DEF ReadEndMapping, Reads
<1>7. ReadEnd => at <= Len(file) /\ file[at].key = "END"
  BY DEF ReadEnd, Reads
<1>8. ReadGlobalsField => at <= Len(file) /\ file[at].key = "hierarchical_mappings"
  BY DEF ReadGlobalsField, Reads
<1>9. ReadField => at <= Len(file) /\ file[at].key \in InstanceKeys \cup MappingKeys
  BY DEF ReadField, Reads
<1>10. Skip => /\ at <= Len(file)
               /\ \/ file[at].key = "blank"
                  \/ /\ block = "OUTSIDE"
                     /\ file[at].key \in InstanceKeys \cup MappingKeys \cup
                          {"hierarchical_mappings", "unknown", "text"}
  BY DEF Skip, Reads
<1>11. at' = at + 1 /\ UNCHANGED inputs
  BY <1>2 DEF ReadGlobals, ReadGlobalsField, ReadInstance, ReadField, ReadEnd,
              ReadMapping, ReadEndMapping, Skip, Reads
<1> QED
  BY <1>2, <1>3, <1>4, <1>5, <1>6, <1>7, <1>8, <1>9, <1>10, <1>11
     DEF InstanceKeys, MappingKeys, Identity, Optional
LEMMA KeywordFacts ==
  ASSUME NEW st, Layout(st), NEW i \in 1 .. Many
  PROVE  \A p, q \in 1 .. Len(Blueprint(i).mappings) :
           /\ Keyword(Blueprint(i), p) \in ToSet(generation.keywords)
           /\ Keyword(Blueprint(i), p) = Keyword(Blueprint(i), q) => p = q
<1>1. /\ WellBuilt(generation.keywords, Blueprint(i))
      /\ DOMAIN Blueprint(i).mappings = 1 .. Len(Blueprint(i).mappings)
  BY LayoutFacts
<1> QED
  BY <1>1 DEF WellBuilt, Keyword

LEMMA LineFacts ==
  /\ \A k \in InstanceKeys : FieldLine[k] \in 2 .. 7
  /\ \A k, m \in InstanceKeys : FieldLine[k] = FieldLine[m] => k = m
  /\ \A k \in InstanceKeys : FieldLine[k] = 7 <=> k = "failure_behavior"
  /\ \A k \in MappingKeys : SubLine[k] \in 2 .. 4
  /\ \A k, m \in MappingKeys : SubLine[k] = SubLine[m] => k = m
BY DEF FieldLine, SubLine, InstanceKeys, MappingKeys, Identity, Optional

(* A line without a field adds nothing. *)
LEMMA TakenMore ==
  ASSUME NEW b, NEW ins, NEW n \in Nat, Taken(b, ins, n),
         \A k \in InstanceKeys : FieldLine[k] # n,
         \A p \in 1 .. Len(b.mappings), k \in MappingKeys : 2 + 5 * p + SubLine[k] # n
  PROVE  Taken(b, ins, n + 1)
<1>1. \A k \in InstanceKeys : FieldLine[k] < n + 1 => FieldLine[k] < n
  BY LineFacts
<1>2. ASSUME NEW p \in 1 .. Len(b.mappings), NEW k \in MappingKeys,
             2 + 5 * p + SubLine[k] < n + 1
      PROVE  2 + 5 * p + SubLine[k] < n
  <2>1. PICK s \in 2 .. 4 : s = SubLine[k]
    BY LineFacts
  <2>2. 2 + 5 * p + s # n /\ 2 + 5 * p + s < n + 1
    BY <1>2, <2>1
  <2>3. 2 + 5 * p + s < n
    BY <2>2
  <2> QED
    BY <2>1, <2>3
<1> QED
  BY <1>1, <1>2 DEF Taken

LEMMA TakenField ==
  ASSUME NEW b, NEW ins \in Slots(names), NEW k \in InstanceKeys, NEW n,
         n = FieldLine[k], Taken(b, ins, n)
  PROVE  Taken(b, [ins EXCEPT !.fields[k] = FieldValue(b, k)], n + 1)
<1> DEFINE new == [ins EXCEPT !.fields[k] = FieldValue(b, k)]
<1>1. /\ new.peers = ins.peers
      /\ \A m \in InstanceKeys :
           new.fields[m] = IF m = k THEN FieldValue(b, k) ELSE ins.fields[m]
  BY DEF Slots
<1> HIDE DEF new
<1>2. n \in 2 .. 7
  BY LineFacts
<1>3. \A m \in InstanceKeys : FieldLine[m] < n + 1 => m = k \/ FieldLine[m] < n
  BY <1>2, LineFacts
<1>4. \A m \in InstanceKeys : FieldLine[m] < n + 1 => new.fields[m] = FieldValue(b, m)
  BY <1>1, <1>3 DEF Taken
<1>5. ASSUME NEW p \in 1 .. Len(b.mappings), NEW m \in MappingKeys
      PROVE  ~(2 + 5 * p + SubLine[m] < n + 1)
  <2>1. PICK s \in 2 .. 4 : s = SubLine[m]
    BY LineFacts
  <2>2. ~(2 + 5 * p + s < n + 1)
    BY <1>2
  <2> QED
    BY <2>1, <2>2
<1>6. Taken(b, new, n + 1)
  BY <1>1, <1>4, <1>5 DEF Taken
<1> QED
  BY <1>6 DEF new

LEMMA TakenPeers ==
  ASSUME NEW b, NEW ins \in Slots(names), NEW q \in 1 .. Len(b.mappings),
         NEW k \in MappingKeys, NEW n, n = 2 + 5 * q + SubLine[k], Taken(b, ins, n),
         \A p \in 1 .. Len(b.mappings) : Keyword(b, p) \in ToSet(names),
         \A p \in 1 .. Len(b.mappings) : Keyword(b, p) = Keyword(b, q) => p = q
  PROVE  Taken(b, [ins EXCEPT !.peers[Keyword(b, q)][k] = PeersValue(b, q, k)], n + 1)
<1> DEFINE w == Keyword(b, q)
           new == [ins EXCEPT !.peers[w][k] = PeersValue(b, q, k)]
<1>1. /\ ins.peers \in [ToSet(names) -> [MappingKeys -> Values]]
      /\ w \in ToSet(names)
  BY DEF Slots
<1>2. /\ new.fields = ins.fields
      /\ new.peers = [ins.peers EXCEPT ![w][k] = PeersValue(b, q, k)]
  BY DEF Slots
<1> HIDE DEF new
<1>3. /\ \A m \in ToSet(names) : m # w => new.peers[m] = ins.peers[m]
      /\ \A j \in MappingKeys :
           new.peers[w][j] = IF j = k THEN PeersValue(b, q, k) ELSE ins.peers[w][j]
  <2>1. new.peers[w] = [ins.peers[w] EXCEPT ![k] = PeersValue(b, q, k)]
    BY <1>1, <1>2
  <2>2. ins.peers[w] \in [MappingKeys -> Values]
    BY <1>1
  <2> QED
    BY <1>1, <1>2, <2>1, <2>2
<1>4. PICK s \in 2 .. 4 : s = SubLine[k]
  BY LineFacts
<1>5. n = 2 + 5 * q + s /\ n \in Nat /\ n > 7
  BY <1>4
<1>6. \A m \in InstanceKeys : FieldLine[m] < n
  BY <1>5, LineFacts
<1>7. \A m \in InstanceKeys : new.fields[m] = FieldValue(b, m)
  BY <1>2, <1>6 DEF Taken
<1>8. ASSUME NEW p \in 1 .. Len(b.mappings), NEW j \in MappingKeys,
             2 + 5 * p + SubLine[j] < n + 1
      PROVE  new.peers[Keyword(b, p)][j] = PeersValue(b, p, j)
  <2>1. PICK u \in 2 .. 4 : u = SubLine[j]
    BY LineFacts
  <2>2. 2 + 5 * p + u < n + 1
    BY <1>8, <2>1
  <2>3. CASE p = q /\ j = k
    BY <1>3, <2>3
  <2>4. CASE ~(p = q /\ j = k)
    <3>1. ~(p = q /\ u = s)
      BY <1>4, <2>1, <2>4, LineFacts
    <3>2. 2 + 5 * p + u # 2 + 5 * q + s
      BY <3>1
    <3>3. 2 + 5 * p + u < n
      BY <1>5, <2>2, <3>2
    <3>4. ins.peers[Keyword(b, p)][j] = PeersValue(b, p, j)
      BY <2>1, <3>3 DEF Taken
    <3>5. CASE p = q
      BY <1>3, <2>4, <3>4, <3>5
    <3>6. CASE p # q
      BY <1>3, <3>4, <3>6
    <3> QED
      BY <3>5, <3>6
  <2> QED
    BY <2>3, <2>4
<1>9. ASSUME NEW m \in ToSet(names), \A p \in 1 .. Len(b.mappings) : Keyword(b, p) # m
      PROVE  Unused(new.peers[m])
  BY <1>3, <1>9 DEF Taken
<1>10. Taken(b, new, n + 1)
  BY <1>7, <1>8, <1>9 DEF Taken
<1> QED
  BY <1>10 DEF new

(* What a step does not touch stays taken. *)
LEMMA Kept ==
  ASSUME UNCHANGED <<generation, names>>
  PROVE  /\ \A b, ins, n : Taken(b, ins, n)' <=> Taken(b, ins, n)
         /\ \A i \in Nat : Done(i) /\ (\A j \in 1 .. i : list'[j] = list[j]) => Done(i)'
<1>1. \A b, ins, n : Taken(b, ins, n)' <=> Taken(b, ins, n)
  BY DEF Taken
<1> QED
  BY <1>1 DEF Done, Taken, Blueprint
-----------------------------------------------------------------------------
(* From place to place *)
LEMMA FromTop ==
  ASSUME ReaderInv, NEW st, Layout(st), Next, verdict = "reading", verdict' = "reading",
         AtTop
  PROVE  Placed(st)'
<1>1. at <= Len(file) /\ at' = at + 1 /\ UNCHANGED inputs
  BY ReadBy
<1>2. generation' = generation /\ at \in 1 .. 4 /\ list = << >>
  BY <1>1 DEF AtTop, inputs
<1>3. CASE at = 1
  <2>1. ReadGlobals
    BY <1>1, <1>2, <1>3, TopAt, ReadBy
  <2> QED
    BY <1>1, <1>2, <1>3, <2>1 DEF AtTop, ReadGlobals, Placed
<1>4. CASE at = 2
  <2>1. ReadGlobalsField /\ file[at].value = generation.keywords
    BY <1>1, <1>2, <1>4, TopAt, ReadBy DEF AtTop
  <2>2. names' = generation.keywords
    BY <1>4, <2>1 DEF AtTop, ReadGlobalsField
  <2> QED
    BY <1>1, <1>2, <1>4, <2>1, <2>2 DEF AtTop, ReadGlobalsField, Placed
<1>5. CASE at = 3
  <2>1. ReadEnd
    BY <1>1, <1>2, <1>5, TopAt, ReadBy
  <2> QED
    BY <1>1, <1>2, <1>5, <2>1 DEF AtTop, ReadEnd, Placed
<1>6. CASE at = 4
  <2>1. Skip
    BY <1>1, <1>2, <1>6, TopAt, ReadBy
  <2>2. /\ at' = st[0] + 1 /\ block' = "OUTSIDE" /\ Len(list') = 0
        /\ names' = generation.keywords
    BY <1>1, <1>2, <1>6, <2>1 DEF AtTop, Skip, Layout
  <2>3. Done(0)'
    BY DEF Done
  <2>4. 1 - 1 = 0 /\ 1 \in 1 .. Many + 1
    BY LayoutFacts
  <2>5. AtInstance(st, 1)'
    BY <1>2, <2>2, <2>3, <2>4 DEF AtInstance
  <2>6. Many' = Many
    BY <1>2 DEF Many
  <2> QED
    BY <2>4, <2>5, <2>6 DEF Placed
<1> QED
  BY <1>2, <1>3, <1>4, <1>5, <1>6

LEMMA FromInstance ==
  ASSUME ReaderInv, NEW st, Layout(st), Next, verdict = "reading", verdict' = "reading",
         NEW i \in 1 .. Many + 1, AtInstance(st, i)
  PROVE  Placed(st)'
<1>1. at <= Len(file) /\ at' = at + 1 /\ UNCHANGED inputs
  BY ReadBy
<1>2. /\ generation' = generation /\ at = st[i - 1] + 1 /\ block = "OUTSIDE"
      /\ Len(list) = i - 1 /\ Done(i - 1) /\ names = generation.keywords
  BY <1>1 DEF AtInstance, inputs
<1>3. i \in 1 .. Many
  <2>1. Many \in Nat /\ st[Many] \in Nat /\ Len(file) <= st[Many] /\ Len(file) \in Nat
    BY LayoutFacts DEF ReaderInv, ReaderTypeOK
  <2>2. i - 1 # Many
    BY <1>1, <1>2, <2>1
  <2> QED
    BY <2>1, <2>2
<1>4. st[i - 1] \in Nat
  BY <1>3, LayoutFacts
<1>5. ReadInstance
  BY <1>1, <1>2, <1>3, InstanceAt, ReadBy
<1>6. /\ block' = "IN_INSTANCE" /\ names' = names /\ list' = Append(list, Zeroed)
      /\ claimed' = {} /\ "failure_behavior" \notin seen'
  BY <1>5 DEF ReadInstance
<1>7. /\ Len(list') = i /\ list'[i] = Zeroed
      /\ \A j \in 1 .. i - 1 : list'[j] = list[j]
  BY <1>2, <1>3, <1>6, ListFacts
<1>8. Done(i - 1)'
  <2>1. i - 1 \in Nat
    BY <1>3
  <2> QED
    BY <1>2, <1>6, <1>7, <2>1, Kept
<1>9. Taken(Blueprint(i), Zeroed, 2)
  <2>1. \A k \in InstanceKeys : ~(FieldLine[k] < 2)
    BY LineFacts
  <2>2. ASSUME NEW p \in 1 .. Len(Blueprint(i).mappings), NEW k \in MappingKeys
        PROVE  ~(2 + 5 * p + SubLine[k] < 2)
    <3>1. PICK s \in 2 .. 4 : s = SubLine[k]
      BY LineFacts
    <3>2. ~(2 + 5 * p + s < 2)
      OBVIOUS
    <3> QED
      BY <3>1, <3>2
  <2> QED
    BY <2>1, <2>2, ZeroedFacts DEF Taken
<1>10. Taken(Blueprint(i), list[i], 2)'
  BY <1>2, <1>6, <1>7, <1>9 DEF Taken, Blueprint
<1>11. AtField(st, i, 2)'
  BY <1>1, <1>2, <1>4, <1>6, <1>7, <1>8, <1>10 DEF AtField, Under
<1>12. Many' = Many /\ 2 \in 2 .. 7
  BY <1>2 DEF Many
<1> QED
  BY <1>3, <1>11, <1>12 DEF Placed

LEMMA FromField ==
  ASSUME ReaderInv, NEW st, Layout(st), Next, verdict = "reading", verdict' = "reading",
         NEW i \in 1 .. Many, NEW n \in 2 .. 7, AtField(st, i, n)
  PROVE  Placed(st)'
<1> DEFINE b == Blueprint(i)
<1>1. at <= Len(file) /\ at' = at + 1 /\ UNCHANGED inputs
  BY ReadBy
<1>2. /\ generation' = generation /\ at = st[i - 1] + n /\ block = "IN_INSTANCE"
      /\ Len(list) = i /\ Done(i - 1) /\ names = generation.keywords
      /\ Taken(b, list[i], n) /\ claimed = {} /\ "failure_behavior" \notin seen
  BY <1>1 DEF AtField, Under, inputs
<1>3. PICK k \in InstanceKeys : /\ FieldLine[k] = n /\ file[at].key = k
                                /\ file[at].value = FieldValue(b, k)
  BY <1>1, <1>2, FieldAt
<1>4. ReadField
  BY <1>2, <1>3, ReadBy
<1>5. /\ names' = names /\ block' = block /\ claimed' = {}
      /\ seen' = seen \cup ({k} \ (Identity \cup Optional))
      /\ Len(list') = i
      /\ list'[i] = [list[i] EXCEPT !.fields[k] = FieldValue(b, k)]
      /\ \A j \in 1 .. i - 1 : list'[j] = list[j]
      /\ i \in 1 .. Len(list)
  <2>1. /\ Len(list') = Len(list) /\ Len(list) \in 1 .. Len(list)
        /\ list'[Len(list)] = Stored(list[Len(list)], file[at])
        /\ \A j \in 1 .. Len(list) - 1 : list'[j] = list[j]
    BY <1>4, FieldChanges
  <2> QED
    BY <1>2, <1>3, <1>4, <2>1 DEF ReadField, Stored
<1>6. Taken(b, [list[i] EXCEPT !.fields[k] = FieldValue(b, k)], n + 1)
  <2>1. list[i] \in Slots(names)
    BY <1>5, ListFacts
  <2> QED
    BY <1>2, <1>3, <2>1, TakenField
<1>7. Under(i)' /\ Taken(b, list[i], n + 1)'
  <2>1. Done(i - 1)'
    <3>1. i - 1 \in Nat
      OBVIOUS
    <3> QED
      BY <1>2, <1>5, <3>1, Kept
  <2>2. Under(i)'
    BY <1>2, <1>5, <2>1 DEF Under
  <2>3. Taken(b, list[i], n + 1)'
    BY <1>2, <1>5, <1>6 DEF Taken, Blueprint
  <2> QED
    BY <2>2, <2>3
<1>8. Many' = Many /\ Blueprint(i)' = Blueprint(i) /\ st[i - 1] \in Nat
      /\ Len(Blueprint(i).mappings) \in Nat
  BY <1>2, LayoutFacts DEF Many, Blueprint
<1>9. CASE n # 7
  <2>1. "failure_behavior" \notin seen' /\ n + 1 \in 2 .. 7
    BY <1>2, <1>3, <1>5, <1>9, LineFacts
  <2>2. AtField(st, i, n + 1)'
    BY <1>1, <1>2, <1>5, <1>7, <1>8, <2>1 DEF AtField
  <2> QED
    BY <1>8, <2>1, <2>2 DEF Placed
<1>10. CASE n = 7
  <2>1. "failure_behavior" \in seen'
    BY <1>3, <1>5, <1>10, LineFacts DEF Identity, Optional
  <2>2. claimed' = {Keyword(b, p) : p \in 1 .. 1 - 1}
    BY <1>5
  <2>3. at' = st[i - 1] + (3 + 5 * 1) /\ n + 1 = 3 + 5 * 1
    BY <1>1, <1>2, <1>8, <1>10
  <2>4. AtMapping(st, i, 1)'
    BY <1>2, <1>5, <1>7, <1>8, <2>1, <2>2, <2>3 DEF AtMapping
  <2>5. 1 \in 1 .. Len(Blueprint(i).mappings) + 1
    BY <1>8
  <2> QED
    BY <1>8, <2>4, <2>5 DEF Placed
<1> QED
  BY <1>9, <1>10
LEMMA FromMapping ==
  ASSUME ReaderInv, NEW st, Layout(st), Next, verdict = "reading", verdict' = "reading",
         NEW i \in 1 .. Many, NEW q \in 1 .. Len(Blueprint(i).mappings) + 1,
         AtMapping(st, i, q)
  PROVE  Placed(st)'
<1> DEFINE b == Blueprint(i)
<1>1. at <= Len(file) /\ at' = at + 1 /\ UNCHANGED inputs
  BY ReadBy
<1>2. /\ generation' = generation /\ at = st[i - 1] + (3 + 5 * q)
      /\ block = "IN_INSTANCE" /\ Len(list) = i /\ Done(i - 1)
      /\ names = generation.keywords /\ Taken(b, list[i], 3 + 5 * q)
      /\ claimed = {Keyword(b, p) : p \in 1 .. q - 1} /\ "failure_behavior" \in seen
  BY <1>1 DEF AtMapping, Under, inputs
<1>3. /\ Many' = Many /\ b' = b /\ st[i - 1] \in Nat /\ Len(b.mappings) \in Nat
      /\ st[i] = st[i - 1] + (9 + 5 * Len(b.mappings))
      /\ Size(b) = 9 + 5 * Len(b.mappings) /\ i - 1 \in Nat
  BY <1>2, LayoutFacts DEF Many, Blueprint
<1>4. Taken(b, list[i], (3 + 5 * q) + 1)
  <2>1. 3 + 5 * q \in Nat /\ 3 + 5 * q > 7
    BY <1>3
  <2>2. \A k \in InstanceKeys : FieldLine[k] # 3 + 5 * q
    BY <2>1, LineFacts
  <2>3. ASSUME NEW p \in 1 .. Len(b.mappings), NEW k \in MappingKeys
        PROVE  2 + 5 * p + SubLine[k] # 3 + 5 * q
    <3>1. PICK s \in 2 .. 4 : s = SubLine[k]
      BY LineFacts
    <3>2. 2 + 5 * p + s # 3 + 5 * q
      BY <1>3
    <3> QED
      BY <3>1, <3>2
  <2> QED
    BY <1>2, <2>1, <2>2, <2>3, TakenMore
<1>5. CASE q \in 1 .. Len(b.mappings)
  <2>1. file[at].key = "MAPPING" /\ file[at].value = <<Keyword(b, q)>>
    BY <1>1, <1>2, <1>5, MappingAt
  <2>2. ReadMapping
    BY <2>1, ReadBy
  <2>3. /\ block' = "IN_MAPPING" /\ current' = Keyword(b, q)
        /\ claimed' = claimed \cup {Keyword(b, q)} /\ seen' = seen \ MappingKeys
        /\ names' = names /\ list' = list
    BY <2>1, <2>2 DEF ReadMapping
  <2>4. claimed' = {Keyword(b, p) : p \in 1 .. q}
    <3>1. 1 .. q = (1 .. q - 1) \cup {q}
      BY <1>3, <1>5
    <3> QED
      BY <1>2, <2>3, <3>1
  <2>5. Under(i)'
    BY <1>2, <1>3, <2>3, Kept DEF Under
  <2>6. /\ at' = st[i - 1] + (2 + 5 * q + 2) /\ 2 + 5 * q + 2 = (3 + 5 * q) + 1
        /\ 2 \in 2 .. 5
    BY <1>1, <1>2, <1>3
  <2>7. Taken(b, list[i], 2 + 5 * q + 2)'
    <3>1. Taken(b, list[i], 2 + 5 * q + 2)
      BY <1>4, <2>6
    <3> QED
      BY <1>2, <2>3, <3>1 DEF Taken, Blueprint
  <2>8. /\ "failure_behavior" \in seen'
        /\ \A k \in MappingKeys : k \in seen' <=> SubLine[k] < 2
    BY <1>2, <2>3, LineFacts DEF MappingKeys
  <2>9. AtPeers(st, i, q, 2)'
    BY <1>3, <2>3, <2>4, <2>5, <2>6, <2>7, <2>8 DEF AtPeers
  <2> QED
    BY <1>3, <1>5, <2>6, <2>9 DEF Placed
<1>6. CASE q = Len(b.mappings) + 1
  <2>1. /\ at = st[i - 1] + (8 + 5 * Len(b.mappings)) /\ at' = st[i]
        /\ (3 + 5 * q) + 1 = Size(b)
    BY <1>1, <1>2, <1>3, <1>6
  <2>2. ReadEnd
    BY <1>1, <2>1, EndAt, ReadBy
  <2>3. block' = "OUTSIDE" /\ names' = names /\ list' = list
    BY <2>2 DEF ReadEnd
  <2>4. Done(i)
    <3>1. Taken(b, list[i], Size(b))
      BY <1>4, <2>1
    <3>2. \A j \in 1 .. i : j \in 1 .. i - 1 \/ j = i
      OBVIOUS
    <3> QED
      BY <1>2, <3>1, <3>2 DEF Done
  <2>5. Done(i)'
    BY <1>2, <1>3, <2>3, <2>4, Kept
  <2>6. AtBlank(st, i)'
    BY <1>2, <2>1, <2>3, <2>5 DEF AtBlank
  <2> QED
    BY <1>3, <2>6 DEF Placed
<1> QED
  BY <1>3, <1>5, <1>6

LEMMA FromPeers ==
  ASSUME ReaderInv, NEW st, Layout(st), Next, verdict = "reading", verdict' = "reading",
         NEW i \in 1 .. Many, NEW q \in 1 .. Len(Blueprint(i).mappings), NEW r \in 2 .. 5,
         AtPeers(st, i, q, r)
  PROVE  Placed(st)'
<1> DEFINE b == Blueprint(i)
           n == 2 + 5 * q + r
<1>1. at <= Len(file) /\ at' = at + 1 /\ UNCHANGED inputs
  BY ReadBy
<1>2. /\ generation' = generation /\ at = st[i - 1] + n
      /\ block = "IN_MAPPING" /\ Len(list) = i /\ Done(i - 1)
      /\ names = generation.keywords /\ Taken(b, list[i], n)
      /\ claimed = {Keyword(b, p) : p \in 1 .. q} /\ "failure_behavior" \in seen
      /\ current = Keyword(b, q)
      /\ \A k \in MappingKeys : k \in seen <=> SubLine[k] < r
  BY <1>1 DEF AtPeers, Under, inputs
<1>3. /\ Many' = Many /\ b' = b /\ st[i - 1] \in Nat /\ Len(b.mappings) \in Nat
      /\ i - 1 \in Nat /\ n \in Nat
  <2>1. Many' = Many /\ b' = b
    BY <1>2 DEF Many, Blueprint
  <2>2. st[i - 1] \in Nat /\ Len(b.mappings) \in Nat
    BY LayoutFacts
  <2>3. i - 1 \in Nat /\ n \in Nat
    BY <2>2
  <2> QED
    BY <2>1, <2>2, <2>3
<1>4. CASE r # 5
  <2>1. PICK k \in MappingKeys : /\ SubLine[k] = r /\ file[at].key = k
                                 /\ file[at].value = PeersValue(b, q, k)
    BY <1>1, <1>2, <1>4, PeersAt
  <2>2. ReadField
    BY <1>2, <2>1, ReadBy
  <2>3. /\ names' = names /\ block' = block /\ claimed' = claimed /\ current' = current
        /\ seen' = seen \cup ({k} \ (Identity \cup Optional))
        /\ Len(list') = i
        /\ list'[i] = [list[i] EXCEPT !.peers[Keyword(b, q)][k] = PeersValue(b, q, k)]
        /\ \A j \in 1 .. i - 1 : list'[j] = list[j]
        /\ i \in 1 .. Len(list)
    <3>1. /\ Len(list') = Len(list) /\ Len(list) \in 1 .. Len(list)
          /\ list'[Len(list)] = Stored(list[Len(list)], file[at])
          /\ \A j \in 1 .. Len(list) - 1 : list'[j] = list[j]
      BY <2>2, FieldChanges
    <3> QED
      BY <1>2, <2>1, <2>2, <3>1 DEF ReadField, Stored
  <2>4. Taken(b, [list[i] EXCEPT !.peers[Keyword(b, q)][k] = PeersValue(b, q, k)], n + 1)
    <3>1. list[i] \in Slots(names)
      BY <2>3, ListFacts
    <3>2. \A p \in 1 .. Len(b.mappings) :
            /\ Keyword(b, p) \in ToSet(names)
            /\ Keyword(b, p) = Keyword(b, q) => p = q
      BY <1>2, KeywordFacts
    <3>3. n = 2 + 5 * q + SubLine[k]
      BY <2>1
    <3> HIDE DEF b, n
    <3> QED
      BY <1>2, <3>1, <3>2, <3>3, TakenPeers DEF b
  <2>5. Under(i)'
    BY <1>2, <1>3, <2>3, Kept DEF Under
  <2>6. /\ at' = st[i - 1] + (2 + 5 * q + (r + 1)) /\ 2 + 5 * q + (r + 1) = n + 1
        /\ r + 1 \in 2 .. 5
    BY <1>1, <1>2, <1>3, <1>4
  <2>7. Taken(b, list[i], 2 + 5 * q + (r + 1))'
    <3>1. Taken(b, [list[i] EXCEPT !.peers[Keyword(b, q)][k] = PeersValue(b, q, k)],
                2 + 5 * q + (r + 1))
      BY <2>4, <2>6
    <3> QED
      BY <1>2, <2>3, <3>1 DEF Taken, Blueprint
  <2>8. /\ "failure_behavior" \in seen'
        /\ \A j \in MappingKeys : j \in seen' <=> SubLine[j] < r + 1
    <3>1. seen' = seen \cup {k}
      BY <2>3 DEF MappingKeys, Identity, Optional
    <3>2. ASSUME NEW j \in MappingKeys
          PROVE  j \in seen' <=> SubLine[j] < r + 1
      <4>1. j = k <=> SubLine[j] = r
        BY <2>1, LineFacts
      <4>2. SubLine[j] \in 2 .. 4
        BY LineFacts
      <4>3. SubLine[j] < r + 1 <=> SubLine[j] < r \/ SubLine[j] = r
        BY <4>2
      <4> QED
        BY <1>2, <3>1, <4>1, <4>3
    <3> QED
      BY <1>2, <3>1, <3>2
  <2>9. AtPeers(st, i, q, r + 1)'
    BY <1>2, <1>3, <2>3, <2>5, <2>6, <2>7, <2>8 DEF AtPeers
  <2> QED
    BY <1>3, <2>6, <2>9 DEF Placed
<1>5. CASE r = 5
  <2>1. ReadEndMapping
    BY <1>1, <1>2, <1>5, PeersAt, ReadBy
  <2>2. block' = "IN_INSTANCE" /\ UNCHANGED <<names, list, claimed, seen>>
    BY <2>1 DEF ReadEndMapping
  <2>3. /\ at' = st[i - 1] + (3 + 5 * (q + 1)) /\ n + 1 = 3 + 5 * (q + 1)
        /\ q + 1 \in 1 .. Len(b.mappings) + 1 /\ (q + 1) - 1 = q
    BY <1>1, <1>2, <1>3, <1>5
  <2>4. Taken(b, list[i], n + 1)
    <3>1. \A k \in InstanceKeys : FieldLine[k] # n
      BY <1>3, LineFacts
    <3>2. ASSUME NEW p \in 1 .. Len(b.mappings), NEW k \in MappingKeys
          PROVE  2 + 5 * p + SubLine[k] # n
      <4>1. PICK s \in 2 .. 4 : s = SubLine[k]
        BY LineFacts
      <4>2. 2 + 5 * p + s # 2 + 5 * q + 5
        BY <1>3
      <4> QED
        BY <1>5, <4>1, <4>2
    <3> HIDE DEF n
    <3> QED
      BY <1>2, <1>3, <3>1, <3>2, TakenMore
  <2>5. Taken(b, list[i], 3 + 5 * (q + 1))'
    <3>1. Taken(b, list[i], 3 + 5 * (q + 1))
      BY <2>3, <2>4
    <3> QED
      BY <1>2, <2>2, <3>1 DEF Taken, Blueprint
  <2>6. Under(i)'
    BY <1>2, <1>3, <2>2, Kept DEF Under
  <2>7. AtMapping(st, i, q + 1)'
    BY <1>2, <1>3, <2>2, <2>3, <2>5, <2>6 DEF AtMapping
  <2> QED
    BY <1>3, <2>3, <2>7 DEF Placed
<1> QED
  BY <1>4, <1>5

LEMMA FromBlank ==
  ASSUME ReaderInv, NEW st, Layout(st), Next, verdict = "reading", verdict' = "reading",
         NEW i \in 1 .. Many, AtBlank(st, i)
  PROVE  Placed(st)'
<1>1. at <= Len(file) /\ at' = at + 1 /\ UNCHANGED inputs
  BY ReadBy
<1>2. /\ generation' = generation /\ at = st[i] /\ block = "OUTSIDE"
      /\ Len(list) = i /\ Done(i) /\ names = generation.keywords
  BY <1>1 DEF AtBlank, inputs
<1>3. Skip
  BY <1>1, <1>2, EndAt, ReadBy
<1>4. block' = block /\ names' = names /\ list' = list
  BY <1>3 DEF Skip
<1>5. (i + 1) - 1 = i /\ i + 1 \in 1 .. Many + 1 /\ i \in Nat /\ Many' = Many
  BY <1>2, LayoutFacts DEF Many
<1>6. Done(i)'
  BY <1>2, <1>4, <1>5, Kept
<1>7. AtInstance(st, i + 1)'
  BY <1>1, <1>2, <1>4, <1>5, <1>6 DEF AtInstance
<1> QED
  BY <1>5, <1>7 DEF Placed

LEMMA PlaceStep ==
  ASSUME ReaderInv, NEW st, Layout(st), Next, verdict = "reading", verdict' = "reading",
         Placed(st)
  PROVE  Placed(st)'
BY FromTop, FromInstance, FromField, FromMapping, FromPeers, FromBlank DEF Placed
LEMMA FieldsTaken ==
  ASSUME NEW b, NEW ins, NEW n \in Nat, n > 7, Taken(b, ins, n)
  PROVE  /\ ins.fields["name"] = b.name /\ ins.fields["type"] = b.type
         /\ ins.fields["unit_file_name"] = b.unit_file_name
         /\ ins.fields["path"] = b.path
         /\ ins.fields["command"] = b.command[1].value
         /\ ins.fields["failure_behavior"] = <<b.failure_behavior>>
<1>1. \A k \in InstanceKeys : FieldLine[k] < n
  BY LineFacts
<1>2. \A k \in InstanceKeys : ins.fields[k] = FieldValue(b, k)
  BY <1>1 DEF Taken
<1> QED
  BY <1>2 DEF FieldValue, InstanceKeys, Identity, Optional

(* Every instance read has the fields of its Blueprint. *)
LEMMA DoneFacts ==
  ASSUME NEW st, Layout(st), NEW n \in 0 .. Many, Done(n), NEW i \in 1 .. n
  PROVE  /\ names = generation.keywords
         /\ list[i].fields["name"] = Blueprint(i).name
         /\ list[i].fields["type"] = Blueprint(i).type
         /\ list[i].fields["unit_file_name"] = Blueprint(i).unit_file_name
         /\ list[i].fields["path"] = Blueprint(i).path
         /\ list[i].fields["command"] = Blueprint(i).command[1].value
         /\ list[i].fields["failure_behavior"] = <<Blueprint(i).failure_behavior>>
<1>1. i \in 1 .. Many
  BY LayoutFacts
<1>2. PICK m \in Nat : Size(Blueprint(i)) = 9 + 5 * m
  BY <1>1, LayoutFacts
<1>3. Size(Blueprint(i)) \in Nat /\ Size(Blueprint(i)) > 7
  BY <1>2
<1>4. Taken(Blueprint(i), list[i], Size(Blueprint(i))) /\ names = generation.keywords
  BY DEF Done
<1> QED
  BY <1>3, <1>4, FieldsTaken

LEMMA IndicesFacts ==
  ASSUME NEW st, Layout(st)
  PROVE  Indices = 1 .. Many
BY GenerationFacts DEF Layout

(* In an ordinary manifest no line is refused. *)
LEMMA FieldAllowedHere ==
  ASSUME ReaderInv, NEW st, Layout(st), at <= Len(file),
         NEW i \in 1 .. Many, NEW n \in 2 .. 7, AtField(st, i, n)
  PROVE  Allowed(file[at])
<1> DEFINE b == Blueprint(i)
<1>1. /\ at = st[i - 1] + n /\ block = "IN_INSTANCE" /\ "failure_behavior" \notin seen
  BY DEF AtField
<1>2. PICK k \in InstanceKeys : /\ FieldLine[k] = n /\ file[at].key = k
                                /\ file[at].value = FieldValue(b, k)
  BY <1>1, FieldAt
<1>3. CASE k = "failure_behavior"
  <2>1. b.failure_behavior \in {"Abort", "Restart"}
    <3>1. b \in Blueprints
      BY LayoutFacts
    <3> QED
      BY <3>1 DEF Blueprints
  <2>2. file[at].value = <<b.failure_behavior>>
    BY <1>2, <1>3 DEF FieldValue
  <2>3. file[at].value \in Behaviors("failure_behavior")
    BY <2>1, <2>2 DEF Behaviors
  <2>4. FieldAllowed(file[at])
    BY <1>1, <1>2, <1>3, <2>3 DEF FieldAllowed
  <2> QED
    BY <1>2, <1>3, <2>4 DEF Allowed
<1>4. CASE k # "failure_behavior"
  <2>1. FieldAllowed(file[at])
    BY <1>1, <1>2, <1>4 DEF FieldAllowed, InstanceKeys
  <2> QED
    BY <1>2, <1>4, <2>1 DEF Allowed, InstanceKeys, Identity, Optional
<1> QED
  BY <1>3, <1>4

LEMMA PeersAllowedHere ==
  ASSUME ReaderInv, NEW st, Layout(st), at <= Len(file),
         NEW i \in 1 .. Many, NEW q \in 1 .. Len(Blueprint(i).mappings),
         NEW r \in 2 .. 5, AtPeers(st, i, q, r)
  PROVE  Allowed(file[at])
<1> DEFINE b == Blueprint(i)
<1>1. /\ at = st[i - 1] + (2 + 5 * q + r) /\ block = "IN_MAPPING"
      /\ \A k \in MappingKeys : k \in seen <=> SubLine[k] < r
  BY DEF AtPeers
<1>2. CASE r = 5
  <2>1. file[at].key = "END_MAPPING"
    BY <1>1, <1>2, PeersAt
  <2>2. MappingKeys \subseteq seen
    BY <1>1, <1>2, LineFacts
  <2> QED
    BY <1>1, <2>1, <2>2 DEF Allowed
<1>3. CASE r # 5
  <2>1. PICK k \in MappingKeys : /\ SubLine[k] = r /\ file[at].key = k
                                 /\ file[at].value = PeersValue(b, q, k)
    BY <1>1, <1>3, PeersAt
  <2>2. k \notin seen
    BY <1>1, <2>1
  <2>3. k = "mapping_behavior" => file[at].value \in Behaviors("mapping_behavior")
    <3>1. b.mapping_behavior \in {"Ignore", "Cascade"}
      <4>1. b \in Blueprints
        BY LayoutFacts
      <4> QED
        BY <4>1 DEF Blueprints
    <3> QED
      BY <2>1, <3>1 DEF PeersValue, Behaviors
  <2>4. FieldAllowed(file[at])
    BY <1>1, <2>1, <2>2, <2>3 DEF FieldAllowed, MappingKeys
  <2> QED
    BY <2>1, <2>4 DEF Allowed, MappingKeys
<1> QED
  BY <1>2, <1>3

LEMMA MappingAllowedHere ==
  ASSUME ReaderInv, NEW st, Layout(st), at <= Len(file), Ordinary,
         NEW i \in 1 .. Many, NEW q \in 1 .. Len(Blueprint(i).mappings) + 1,
         AtMapping(st, i, q)
  PROVE  Allowed(file[at])
<1> DEFINE b == Blueprint(i)
<1>1. /\ at = st[i - 1] + (3 + 5 * q) /\ block = "IN_INSTANCE"
      /\ Len(list) = i /\ Done(i - 1) /\ names = generation.keywords
      /\ Taken(b, list[i], 3 + 5 * q)
      /\ claimed = {Keyword(b, p) : p \in 1 .. q - 1} /\ "failure_behavior" \in seen
  BY DEF AtMapping, Under
<1>2. Len(b.mappings) \in Nat /\ b \in Blueprints /\ Many \in Nat
  BY LayoutFacts
<1>3. CASE q \in 1 .. Len(b.mappings)
  <2>1. file[at].key = "MAPPING" /\ file[at].value = <<Keyword(b, q)>>
    BY <1>1, <1>3, MappingAt
  <2>2. Keyword(b, q) \in ToSet(names)
    BY <1>1, <1>3, KeywordFacts
  <2>3. Keyword(b, q) \notin claimed
    <3>1. ASSUME NEW p \in 1 .. q - 1
          PROVE  Keyword(b, p) # Keyword(b, q)
      <4>1. p \in 1 .. Len(b.mappings) /\ p # q
        BY <1>2, <1>3
      <4> QED
        BY <1>3, <4>1, KeywordFacts
    <3> QED
      BY <1>1, <3>1
  <2> QED
    BY <1>1, <2>1, <2>2, <2>3 DEF Allowed
<1>4. CASE q = Len(b.mappings) + 1
  <2>1. file[at].key = "END"
    <3>1. at = st[i - 1] + (8 + 5 * Len(b.mappings))
      BY <1>1, <1>2, <1>4
    <3> QED
      BY <3>1, EndAt
  <2>2. /\ list[i].fields["name"] = b.name /\ list[i].fields["type"] = b.type
        /\ list[i].fields["unit_file_name"] = b.unit_file_name
    <3>1. 3 + 5 * q \in Nat /\ 3 + 5 * q > 7
      BY <1>2, <1>4
    <3> QED
      BY <1>1, <3>1, FieldsTaken
  <2>3. /\ b.name # << >> /\ b.type # << >> /\ b.unit_file_name # << >>
        /\ \A j \in 1 .. Many : j # i => Blueprint(j).name # b.name
    BY <1>2, IndicesFacts DEF Ordinary, Blueprints
  <2>4. \A j \in 1 .. Len(list) - 1 : list[j].fields["name"] # list[i].fields["name"]
    <3>1. \A j \in 1 .. i - 1 : j \in 1 .. Many /\ j # i
      BY <1>2
    <3>2. i - 1 \in 0 .. Many
      BY <1>2
    <3>3. \A j \in 1 .. i - 1 : list[j].fields["name"] = Blueprint(j).name
      BY <1>1, <3>2, DoneFacts
    <3> QED
      BY <1>1, <2>2, <2>3, <3>1, <3>3
  <2>5. Last(list) = list[i]
    BY <1>1 DEF Last
  <2>6. Complete(Last(list))
    BY <1>1, <2>2, <2>3, <2>4, <2>5 DEF Complete, Identity
  <2> QED
    BY <1>1, <2>1, <2>6 DEF Allowed
<1> QED
  BY <1>2, <1>3, <1>4

LEMMA PlaceAllowed ==
  ASSUME ReaderInv, NEW st, Layout(st), at <= Len(file), Ordinary, Placed(st)
  PROVE  Allowed(file[at])
<1>1. CASE AtTop
  <2>1. at \in {1, 2, 3, 4} /\ list = << >>
    BY <1>1 DEF AtTop
  <2> QED
    BY <1>1, <2>1, TopAt DEF AtTop, Allowed, FieldAllowed
<1>2. ASSUME NEW i \in 1 .. Many + 1, AtInstance(st, i)
      PROVE  Allowed(file[at])
  <2>1. i \in 1 .. Many
    <3>1. Many \in Nat /\ st[Many] \in Nat /\ Len(file) <= st[Many] /\ Len(file) \in Nat
      BY LayoutFacts DEF ReaderInv, ReaderTypeOK
    <3>2. i - 1 # Many
      BY <1>2, <3>1 DEF AtInstance
    <3> QED
      BY <3>1, <3>2
  <2>2. file[at].key = "INSTANCE" /\ block = "OUTSIDE"
    BY <1>2, <2>1, InstanceAt DEF AtInstance
  <2> QED
    BY <2>2 DEF Allowed
<1>3. ASSUME NEW i \in 1 .. Many, AtBlank(st, i)
      PROVE  Allowed(file[at])
  <2>1. file[at].key = "blank"
    BY <1>3, EndAt DEF AtBlank
  <2> QED
    BY <2>1 DEF Allowed
<1> QED
  BY <1>1, <1>2, <1>3, FieldAllowedHere, MappingAllowedHere, PeersAllowedHere DEF Placed
-----------------------------------------------------------------------------
(* Without a text that passes for the start of a block, the instances read    *)
(* are those that were counted.                                              *)
LEMMA CountStep ==
  ASSUME ReaderInv, CountExact, Next, verdict = "reading", verdict' = "reading"
  PROVE  CountExact'
<1>1. at <= Len(file) /\ at' = at + 1 /\ UNCHANGED inputs
  BY ReadBy
<1>2. file' = file /\ at \in Nat \ {0} /\ file[at] \in ToSet(file)
  <2>1. file \in Seq(Lines) /\ at \in 1 .. Len(file) + 1
    BY DEF ReaderInv, ReaderTypeOK
  <2>2. at \in DOMAIN file /\ at \in Nat \ {0}
    BY <1>1, <2>1
  <2> QED
    BY <1>1, <2>2 DEF ToSet, inputs
<1> SUFFICES ASSUME Unmarked
             PROVE  Cardinality(CountedUpTo(at)') = Len(list')
  BY <1>2 DEF CountExact, Unmarked
<1>3. CountedUpTo(at)' = CountedUpTo(at + 1)
  BY <1>1, <1>2 DEF CountedUpTo
<1>4. Cardinality(CountedUpTo(at)) = Len(list) /\ Len(list) \in Nat
  BY ListFacts DEF CountExact
<1>5. CASE file[at].key = "INSTANCE"
  <2>1. Len(list') = Len(list) + 1
    <3>1. list' = Append(list, Zeroed)
      BY <1>5, ReadBy DEF ReadInstance
    <3> QED
      BY <3>1, ListFacts
  <2>2. EndsInINSTANCE(file[at])
    BY <1>5 DEF EndsInINSTANCE
  <2>3. Cardinality(CountedUpTo(at + 1)) = Cardinality(CountedUpTo(at)) + 1
    BY <1>2, <2>2, CountSteps DEF CountedUpTo
  <2> QED
    BY <1>3, <1>4, <2>1, <2>3
<1>6. CASE file[at].key # "INSTANCE"
  <2>1. ~EndsInINSTANCE(file[at])
    BY <1>2, <1>6 DEF Unmarked
  <2>2. CountedUpTo(at + 1) = CountedUpTo(at)
    <3>1. \A i \in 1 .. (at + 1) - 1 : i \in 1 .. at - 1 \/ i = at
      BY <1>2
    <3>2. \A i \in 1 .. at - 1 : i \in 1 .. (at + 1) - 1
      BY <1>2
    <3> QED
      BY <2>1, <3>1, <3>2 DEF CountedUpTo
  <2>3. Len(list') = Len(list)
    <3>1. ReadField => Len(list') = Len(list)
      BY FieldChanges
    <3>2. ~Reject /\ ~Resolve /\ ~Verify /\ ~Ended /\ ~ReadInstance
      BY <1>6 DEF Reject, Resolve, Verify, Ended, Ends, ReadInstance, Reads
    <3> QED
      BY <3>1, <3>2 DEF Next, ReadGlobals, ReadGlobalsField, ReadEnd, ReadMapping,
                        ReadEndMapping, Skip
  <2> QED
    BY <1>3, <1>4, <2>2, <2>3
<1> QED
  BY <1>5, <1>6

LEMMA CountedAtEnd ==
  ASSUME ReaderInv, CountExact, verdict = "reading", at > Len(file), Unmarked
  PROVE  count = Len(list)
<1>1. file \in Seq(Lines) /\ at \in 1 .. Len(file) + 1 /\ count = Counted(file)
  BY DEF ReaderInv, ReaderTypeOK
<1>2. at - 1 = Len(file) /\ DOMAIN file = 1 .. Len(file)
  BY <1>1
<1>3. CountedUpTo(at) = {i \in DOMAIN file : EndsInINSTANCE(file[i])}
  BY <1>2 DEF CountedUpTo
<1> QED
  BY <1>1, <1>3 DEF CountExact, Counted

(* At the end of a whole file all its instances have been read. *)
LEMMA EndPlace ==
  ASSUME ReaderInv, NEW st, Layout(st), Placed(st), at > Len(file), damage = "none"
  PROVE  AtInstance(st, Many + 1)
<1>1. /\ Len(file) = st[Many] /\ Many \in Nat /\ st[Many] \in Nat /\ st[0] = 4
      /\ at > st[Many]
  BY LayoutFacts DEF Layout
<1>2. \A i \in 1 .. Many :
        /\ st[i - 1] \in Nat /\ st[i] \in Nat /\ Len(Blueprint(i).mappings) \in Nat
        /\ st[i] = st[i - 1] + (9 + 5 * Len(Blueprint(i).mappings)) /\ st[i] <= st[Many]
  BY LayoutFacts
<1>3. ~AtTop
  <2>1. st[Many] >= 4
    <3>1. CASE Many = 0
      BY <1>1, <3>1
    <3>2. CASE Many # 0
      <4>1. 1 \in 1 .. Many /\ 1 - 1 = 0
        BY <1>1, <3>2
      <4>2. PICK m \in Nat : st[1] = 4 + (9 + 5 * m)
        BY <1>1, <1>2, <4>1
      <4>3. st[1] <= st[Many]
        BY <1>2, <4>1
      <4> QED
        BY <1>1, <4>2, <4>3
    <3> QED
      BY <3>1, <3>2
  <2> QED
    BY <1>1, <2>1 DEF AtTop
<1>4. ASSUME NEW i \in 1 .. Many, NEW k \in Nat,
             k <= 9 + 5 * Len(Blueprint(i).mappings)
      PROVE  at # st[i - 1] + k
  <2>1. PICK a \in Nat, m \in Nat : /\ a = st[i - 1]
                                    /\ m = Len(Blueprint(i).mappings)
    BY <1>2
  <2>2. a + (9 + 5 * m) <= st[Many]
    BY <1>2, <2>1
  <2>3. a + k <= st[Many]
    BY <1>1, <1>4, <2>1, <2>2
  <2>4. a + k \in Nat
    BY <2>1
  <2> QED
    BY <1>1, <2>1, <2>3, <2>4
<1>5. \A i \in 1 .. Many : ~AtInstance(st, i)
  <2>1. \A i \in 1 .. Many : 1 \in Nat /\ 1 <= 9 + 5 * Len(Blueprint(i).mappings)
    BY <1>2
  <2> QED
    BY <1>4, <2>1 DEF AtInstance
<1>6. \A i \in 1 .. Many, n \in 2 .. 7 : ~AtField(st, i, n)
  <2>1. \A i \in 1 .. Many, n \in 2 .. 7 :
          n \in Nat /\ n <= 9 + 5 * Len(Blueprint(i).mappings)
    BY <1>2
  <2> QED
    BY <1>4, <2>1 DEF AtField
<1>7. \A i \in 1 .. Many : \A q \in 1 .. Len(Blueprint(i).mappings) + 1 :
        ~AtMapping(st, i, q)
  <2>1. \A i \in 1 .. Many : \A q \in 1 .. Len(Blueprint(i).mappings) + 1 :
          3 + 5 * q \in Nat /\ 3 + 5 * q <= 9 + 5 * Len(Blueprint(i).mappings)
    BY <1>2
  <2> QED
    BY <1>4, <2>1 DEF AtMapping
<1>8. \A i \in 1 .. Many : \A q \in 1 .. Len(Blueprint(i).mappings), r \in 2 .. 5 :
        ~AtPeers(st, i, q, r)
  <2>1. \A i \in 1 .. Many : \A q \in 1 .. Len(Blueprint(i).mappings), r \in 2 .. 5 :
          /\ 2 + 5 * q + r \in Nat
          /\ 2 + 5 * q + r <= 9 + 5 * Len(Blueprint(i).mappings)
    BY <1>2
  <2> QED
    BY <1>4, <2>1 DEF AtPeers
<1>9. \A i \in 1 .. Many : ~AtBlank(st, i)
  BY <1>1, <1>2 DEF AtBlank
<1>10. \A i \in 1 .. Many + 1 : i \in 1 .. Many \/ i = Many + 1
  BY <1>1
<1> QED
  BY <1>3, <1>5, <1>6, <1>7, <1>8, <1>9, <1>10 DEF Placed

LEMMA ResolvedRead ==
  ASSUME ReaderInv, CountExact, NEW st, Layout(st), Placed(st),
         Resolve, verdict' = "resolved"
  PROVE  \E n \in 0 .. Many : AllRead(n)'
<1>1. /\ verdict = "reading" /\ at > Len(file)
      /\ UNCHANGED <<inputs, names>> /\ generation' = generation /\ damage' = damage
      /\ file' = file
  BY DEF Resolve, Ends, inputs
<1>2. /\ block = "OUTSIDE" /\ (names = << >> \/ count = Len(list))
      /\ Len(list) <= count /\ count \in Nat /\ Len(list) \in Nat
      /\ Len(list') = count
      /\ \A i \in 1 .. count : list'[i] = IF i <= Len(list) THEN list[i] ELSE Zeroed
  BY ResolvedList
<1>3. Many \in Nat /\ Many' = Many
  BY <1>1, LayoutFacts DEF Many
<1>4. Len(list) \in 0 .. Many /\ Done(Len(list))
  <2>1. CASE AtTop
    <3>1. Len(list) = 0
      BY <2>1 DEF AtTop
    <3> QED
      BY <1>3, <3>1 DEF Done
  <2>2. ASSUME NEW i \in 1 .. Many + 1, AtInstance(st, i)
        PROVE  Len(list) \in 0 .. Many /\ Done(Len(list))
    BY <1>3, <2>2 DEF AtInstance
  <2>3. ASSUME NEW i \in 1 .. Many, AtBlank(st, i)
        PROVE  Len(list) \in 0 .. Many /\ Done(Len(list))
    BY <1>3, <2>3 DEF AtBlank
  <2>4. /\ \A i \in 1 .. Many, n \in 2 .. 7 : ~AtField(st, i, n)
        /\ \A i \in 1 .. Many : \A q \in 1 .. Len(Blueprint(i).mappings) + 1 :
             ~AtMapping(st, i, q)
        /\ \A i \in 1 .. Many : \A q \in 1 .. Len(Blueprint(i).mappings), r \in 2 .. 5 :
             ~AtPeers(st, i, q, r)
    BY <1>2 DEF AtField, AtMapping, AtPeers
  <2> QED
    BY <2>1, <2>2, <2>3, <2>4 DEF Placed
<1>5. damage = "none" => Len(list) = Many
  BY <1>1, <1>3, EndPlace DEF AtInstance
<1>6. Unmarked => count = Len(list)
  BY <1>1, CountedAtEnd
<1>7. PICK n \in 0 .. Many : n = Len(list)
  BY <1>4
<1>8. Done(n)'
  <2>1. n \in Nat /\ \A j \in 1 .. n : list'[j] = list[j]
    BY <1>2, <1>7
  <2> QED
    BY <1>1, <1>4, <1>7, <2>1, Kept
<1>9. \A j \in n + 1 .. Len(list') : names' = << >> /\ list'[j] = Zeroed'
  <2>1. Zeroed' = Zeroed
    BY <1>1 DEF Zeroed
  <2>2. \A j \in n + 1 .. count : j \in 1 .. count /\ ~(j <= n) /\ count # n
    BY <1>2, <1>7
  <2> QED
    BY <1>1, <1>2, <1>7, <2>1, <2>2
<1>10. AllRead(n)'
  <2>1. Unmarked' = Unmarked
    BY <1>1 DEF Unmarked
  <2>2. n <= Len(list')
    BY <1>2, <1>7
  <2> QED
    BY <1>1, <1>2, <1>3, <1>5, <1>6, <1>7, <1>8, <1>9, <2>1, <2>2 DEF AllRead
<1> QED
  BY <1>7, <1>10

LEMMA FollowsInit == Init => FollowsInv
<1> SUFFICES ASSUME Init PROVE FollowsInv
  OBVIOUS
<1>1. Opened
  BY DEF Init
<1>2. CountExact
  <2>1. CountedUpTo(at) = {}
    BY <1>1 DEF Opened, CountedUpTo
  <2>2. Cardinality(CountedUpTo(at)) = 0
    BY <2>1, FS_EmptySet
  <2> QED
    BY <1>1, <2>2 DEF Opened, CountExact
<1>3. ASSUME OneLine, damage \in {"none", "cut"}
      PROVE  \E st : /\ Layout(st)
                     /\ verdict = "reading" => Placed(st)
                     /\ verdict \in {"resolved", "accepted"} =>
                          \E n \in 0 .. Many : AllRead(n)
  <2>1. PICK st : Layout(st)
    BY <1>3, LaidOut
  <2>2. AtTop
    BY <1>1 DEF Opened, AtTop
  <2> QED
    BY <1>1, <2>1, <2>2 DEF Opened, Placed
<1> QED
  BY <1>2, <1>3 DEF FollowsInv

LEMMA FollowsStep == ReaderInv /\ FollowsInv /\ [Next]_vars => FollowsInv'
<1> SUFFICES ASSUME ReaderInv, FollowsInv, [Next]_vars PROVE FollowsInv'
  OBVIOUS
<1>1. UNCHANGED inputs
  BY DEF vars, Next, ReadGlobals, ReadGlobalsField, ReadInstance, ReadField, ReadEnd,
         ReadMapping, ReadEndMapping, Skip, Reads, Reject, Resolve, Verify, Ends, Ended
<1>2. UNCHANGED <<generation, damage, generating, file, count>>
  BY <1>1 DEF inputs
<1>3. \/ UNCHANGED vars
      \/ Next /\ verdict = "reading" /\ verdict' = "reading"
      \/ Resolve \/ Verify \/ verdict' \in {"rejected", "crashed"}
  BY DEF Next, ReadGlobals, ReadGlobalsField, ReadInstance, ReadField, ReadEnd,
         ReadMapping, ReadEndMapping, Skip, Reads, Reject, Ends, Ended
<1>4. CountExact'
  <2>1. CASE UNCHANGED vars
    BY <1>2, <2>1 DEF vars, FollowsInv, CountExact, Unmarked, CountedUpTo
  <2>2. CASE verdict' # "reading"
    BY <2>2 DEF CountExact
  <2>3. CASE Next /\ verdict = "reading" /\ verdict' = "reading"
    BY <2>3, CountStep DEF FollowsInv
  <2>4. Resolve \/ Verify => verdict' # "reading"
    BY DEF Resolve, Verify, Ends
  <2> QED
    BY <1>3, <2>1, <2>2, <2>3, <2>4
<1>5. ASSUME OneLine', damage' \in {"none", "cut"}
      PROVE  \E st : /\ Layout(st)'
                     /\ verdict' = "reading" => Placed(st)'
                     /\ verdict' \in {"resolved", "accepted"} =>
                          \E n \in 0 .. Many' : AllRead(n)'
  <2>1. OneLine /\ Many' = Many
    BY <1>2, <1>5 DEF OneLine, Indices, Blueprint, Many
  <2>2. PICK st : /\ Layout(st)
                  /\ verdict = "reading" => Placed(st)
                  /\ verdict \in {"resolved", "accepted"} =>
                       \E n \in 0 .. Many : AllRead(n)
    BY <1>2, <1>5, <2>1 DEF FollowsInv
  <2>3. Layout(st)'
    BY <1>2, <2>2 DEF Layout, OneLine, Indices, Blueprint, Many, Size
  <2>4. CASE UNCHANGED vars
    <3>1. Placed(st)' <=> Placed(st)
      BY <1>2, <2>4 DEF vars, Placed, AtTop, AtInstance, AtField, AtMapping, AtPeers,
                        AtBlank, Under, Done, Taken, Blueprint, Many
    <3>2. \A n : AllRead(n)' <=> AllRead(n)
      BY <1>2, <2>4 DEF vars, AllRead, Done, Taken, Blueprint, Many, Zeroed, Unmarked
    <3>3. verdict' = verdict
      BY <2>4 DEF vars
    <3> QED
      BY <2>1, <2>2, <2>3, <3>1, <3>2, <3>3
  <2>5. CASE Next /\ verdict = "reading" /\ verdict' = "reading"
    <3>1. Placed(st)'
      BY <2>2, <2>5, PlaceStep
    <3> QED
      BY <2>3, <2>5, <3>1
  <2>6. CASE Resolve
    <3>1. verdict = "reading" /\ verdict' \notin {"reading", "accepted"}
      BY <2>6 DEF Resolve, Ends
    <3>2. verdict' = "resolved" => \E n \in 0 .. Many : AllRead(n)'
      BY <2>2, <2>6, <3>1, ResolvedRead DEF FollowsInv
    <3> QED
      BY <2>1, <2>3, <3>1, <3>2
  <2>7. CASE Verify
    <3>1. verdict = "resolved" /\ verdict' \notin {"reading", "resolved"}
      BY <2>7 DEF Verify, Ends
    <3>2. UNCHANGED <<names, list>>
      BY <2>7 DEF Verify, Ends
    <3>3. \A n : AllRead(n)' <=> AllRead(n)
      BY <1>2, <3>2 DEF AllRead, Done, Taken, Blueprint, Many, Zeroed, Unmarked
    <3> QED
      BY <2>1, <2>2, <2>3, <3>1, <3>3
  <2>8. CASE verdict' \in {"rejected", "crashed"}
    BY <2>3, <2>8
  <2> QED
    BY <1>3, <2>4, <2>5, <2>6, <2>7, <2>8
<1> QED
  BY <1>4, <1>5 DEF FollowsInv
-----------------------------------------------------------------------------
(* Names of one word are written and read back one by one. *)
LEMMA OneWordFlat ==
  ASSUME NEW ss \in Seq(Values), \A n \in ToSet(ss) : Len(n) = 1
  PROVE  /\ FlattenSeq(ss) \in Seq(Words) /\ Len(FlattenSeq(ss)) = Len(ss)
         /\ DOMAIN FlattenSeq(ss) = 1 .. Len(ss)
         /\ \A x \in 1 .. Len(ss) : ss[x] \in ToSet(ss) /\ <<FlattenSeq(ss)[x]>> = ss[x]
<1>1. ss \in Seq(Seq(Words)) /\ Len(ss) \in Nat /\ DOMAIN ss = 1 .. Len(ss)
  BY DEF Values
<1>2. \A x \in 1 .. Len(ss) :
        ss[x] \in ToSet(ss) /\ Len(ss[x]) = 1 /\ ss[x] \in Seq(Words)
  BY <1>1 DEF ToSet
<1>3. /\ Len(FlattenSeq(ss)) = 1 * Len(ss)
      /\ \A x \in 1 .. Len(ss) : \A k \in 1 .. 1 :
           FlattenSeq(ss)[1 * (x - 1) + k] = ss[x][k]
  <2>1. 1 \in Nat /\ \A x \in 1 .. Len(ss) : Len(ss[x]) = 1
    BY <1>2
  <2> QED
    BY <1>1, <2>1, FlattenEqual
<1>4. FlattenSeq(ss) \in Seq(Words)
  BY <1>1, FlattenType
<1>5. Len(FlattenSeq(ss)) = Len(ss)
  <2>1. \A n \in Nat : 1 * n = n
    OBVIOUS
  <2> QED
    BY <1>1, <1>3, <2>1
<1>6. DOMAIN FlattenSeq(ss) = 1 .. Len(ss)
  BY <1>4, <1>5
<1>7. ASSUME NEW x \in 1 .. Len(ss)
      PROVE  <<FlattenSeq(ss)[x]>> = ss[x]
  <2>1. 1 * (x - 1) + 1 = x /\ 1 \in 1 .. 1
    BY <1>1
  <2>2. FlattenSeq(ss)[x] = ss[x][1]
    BY <1>3, <2>1
  <2>3. PICK s \in Seq(Words) : s = ss[x]
    BY <1>2
  <2>4. Len(s) = 1
    BY <1>2, <2>3
  <2>5. <<s[1]>> = s
    BY <2>4
  <2> QED
    BY <2>2, <2>3, <2>5
<1> QED
  BY <1>2, <1>4, <1>5, <1>6, <1>7

LEMMA PeersTaken ==
  ASSUME NEW st, Layout(st), NEW n \in 0 .. Many, Done(n), NEW i \in 1 .. n
  PROVE  /\ \A p \in 1 .. Len(Blueprint(i).mappings), k \in MappingKeys :
              list[i].peers[Keyword(Blueprint(i), p)][k] = PeersValue(Blueprint(i), p, k)
         /\ \A m \in ToSet(names) :
              (\A p \in 1 .. Len(Blueprint(i).mappings) : Keyword(Blueprint(i), p) # m)
                => Unused(list[i].peers[m])
<1> DEFINE b == Blueprint(i)
<1>1. i \in 1 .. Many
  BY LayoutFacts
<1>2. /\ Len(b.mappings) \in Nat /\ Size(b) = 9 + 5 * Len(b.mappings)
      /\ Taken(b, list[i], Size(b))
  BY <1>1, LayoutFacts DEF Done
<1>3. ASSUME NEW p \in 1 .. Len(b.mappings), NEW k \in MappingKeys
      PROVE  2 + 5 * p + SubLine[k] < Size(b)
  <2>1. PICK s \in 2 .. 4 : s = SubLine[k]
    BY LineFacts
  <2>2. 2 + 5 * p + s < 9 + 5 * Len(b.mappings)
    BY <1>2
  <2> QED
    BY <1>2, <2>1, <2>2
<1> QED
  BY <1>2, <1>3 DEF Taken

(* The peers of the p-th mapping of a Blueprint *)
LEMMA PeersTypes ==
  ASSUME NEW st, Layout(st), NEW i \in 1 .. Many,
         NEW p \in 1 .. Len(Blueprint(i).mappings)
  PROVE  /\ Blueprint(i).mappings[p] \in Mappings(i)
         /\ Blueprint(i).mappings[p].after \in Seq(Values)
         /\ Blueprint(i).mappings[p].before \in Seq(Values)
         /\ ToSet(Blueprint(i).mappings[p].after) \subseteq PeersOf(i)
         /\ ToSet(Blueprint(i).mappings[p].before) \subseteq PeersOf(i)
         /\ OneWordPeers(Blueprint(i)) =>
              /\ \A n \in ToSet(Blueprint(i).mappings[p].after) : Len(n) = 1
              /\ \A n \in ToSet(Blueprint(i).mappings[p].before) : Len(n) = 1
<1> DEFINE b == Blueprint(i)
           m == b.mappings[p]
<1>1. b \in Blueprints /\ DOMAIN b.mappings = 1 .. Len(b.mappings)
  BY LayoutFacts
<1>2. b.mappings \in Seq(Relations)
  BY <1>1 DEF Blueprints
<1>3. m \in Relations /\ m \in Mappings(i)
  BY <1>1, <1>2 DEF Mappings, ToSet
<1>4. m.after \in Seq(Values) /\ m.before \in Seq(Values)
  BY <1>3 DEF Relations
<1> HIDE DEF m
<1>5. ToSet(m.after) \subseteq PeersOf(i) /\ ToSet(m.before) \subseteq PeersOf(i)
  BY <1>3 DEF PeersOf
<1>6. /\ ToSet(m.after) \subseteq ToSet(m.after \o m.before)
      /\ ToSet(m.before) \subseteq ToSet(m.after \o m.before)
  <2>1. PICK u \in Seq(Values), v \in Seq(Values) : u = m.after /\ v = m.before
    BY <1>4
  <2>2. /\ u \o v \in Seq(Values) /\ Len(u \o v) = Len(u) + Len(v)
        /\ \A k \in 1 .. Len(u) : (u \o v)[k] = u[k]
        /\ \A k \in 1 .. Len(v) : (u \o v)[Len(u) + k] = v[k]
    BY JoinedAt
  <2>3. /\ Len(u) \in Nat /\ Len(v) \in Nat
        /\ DOMAIN u = 1 .. Len(u) /\ DOMAIN v = 1 .. Len(v)
        /\ DOMAIN (u \o v) = 1 .. Len(u) + Len(v)
    BY <2>2
  <2>4. ToSet(u) \subseteq ToSet(u \o v)
    <3>1. \A k \in 1 .. Len(u) : k \in 1 .. Len(u) + Len(v)
      BY <2>3
    <3> QED
      BY <2>2, <2>3, <3>1 DEF ToSet
  <2>5. ToSet(v) \subseteq ToSet(u \o v)
    <3>1. \A k \in 1 .. Len(v) : Len(u) + k \in 1 .. Len(u) + Len(v)
      BY <2>3
    <3> QED
      BY <2>2, <2>3, <3>1 DEF ToSet
  <2> QED
    BY <2>1, <2>4, <2>5
<1>7. OneWordPeers(b) => \A n \in ToSet(m.after \o m.before) : Len(n) = 1
  BY <1>3 DEF OneWordPeers, Mappings
<1> QED
  BY <1>3, <1>4, <1>5, <1>6, <1>7 DEF m

LEMMA AllPeersKnown ==
  ASSUME ReaderInv, NEW st, Layout(st), Done(Many), Len(list) = Many, Ordinary
  PROVE  PeersKnown
<1>1. Many \in Nat /\ Many \in 0 .. Many /\ Indices = 1 .. Many /\ DOMAIN list = 1 .. Many
  BY LayoutFacts, IndicesFacts, ListFacts
<1> SUFFICES ASSUME NEW i \in 1 .. Many, NEW m \in ToSet(names),
                    NEW k \in {"after", "before"},
                    NEW w \in ToSet(list[i].peers[m][k])
             PROVE  <<w>> \in NamesRead
  BY <1>1 DEF PeersKnown
<1> DEFINE b == Blueprint(i)
<1>2. /\ \A p \in 1 .. Len(b.mappings), j \in MappingKeys :
           list[i].peers[Keyword(b, p)][j] = PeersValue(b, p, j)
      /\ (\A p \in 1 .. Len(b.mappings) : Keyword(b, p) # m) => Unused(list[i].peers[m])
  BY <1>1, PeersTaken
<1>3. k \in MappingKeys
  BY DEF MappingKeys
<1>4. PICK p \in 1 .. Len(b.mappings) : Keyword(b, p) = m
  <2>1. ToSet(<< >>) = {}
    BY DEF ToSet
  <2> QED
    BY <1>2, <1>3, <2>1 DEF Unused
<1>5. PICK ss \in Seq(Values) :
        /\ ss = IF k = "after" THEN b.mappings[p].after ELSE b.mappings[p].before
        /\ ToSet(ss) \subseteq PeersOf(i)
  BY PeersTypes
<1>6. \A n \in ToSet(ss) : Len(n) = 1
  <2>1. OneWordPeers(b)
    BY <1>1 DEF Ordinary
  <2> QED
    BY <1>5, <2>1, PeersTypes
<1>7. list[i].peers[m][k] = FlattenSeq(ss)
  BY <1>2, <1>3, <1>4, <1>5 DEF PeersValue
<1>8. PICK x \in 1 .. Len(ss) : w = FlattenSeq(ss)[x]
  <2>1. DOMAIN FlattenSeq(ss) = 1 .. Len(ss)
    BY <1>6, OneWordFlat
  <2> QED
    BY <1>7, <2>1 DEF ToSet
<1>9. <<w>> = ss[x] /\ ss[x] \in ToSet(ss)
  BY <1>6, <1>8, OneWordFlat
<1>10. <<w>> \in Known
  BY <1>1, <1>5, <1>9 DEF Ordinary
<1>11. PICK j \in 1 .. Many : Blueprint(j).name = <<w>>
  BY <1>1, <1>10 DEF Known
<1>12. list[j].fields["name"] = <<w>>
  BY <1>1, <1>11, DoneFacts
<1> QED
  BY <1>1, <1>12 DEF NamesRead

LEMMA RefusesNone ==
  ReaderInv /\ FollowsInv /\ NeverRefused /\ [Next]_vars => NeverRefused'
<1> SUFFICES ASSUME ReaderInv, FollowsInv, NeverRefused, [Next]_vars,
                    damage' = "none", Ordinary'
             PROVE  verdict' \notin {"rejected", "crashed"}
  BY DEF NeverRefused
<1>1. UNCHANGED inputs
  BY DEF vars, Next, ReadGlobals, ReadGlobalsField, ReadInstance, ReadField, ReadEnd,
         ReadMapping, ReadEndMapping, Skip, Reads, Reject, Resolve, Verify, Ends, Ended
<1>2. damage = "none" /\ Ordinary
  BY <1>1 DEF inputs, Ordinary, Indices, Blueprint, PeersOf, Mappings, Known
<1>3. OneLine
  BY <1>2 DEF Ordinary, OneLine
<1>4. PICK st : /\ Layout(st)
                /\ verdict = "reading" => Placed(st)
                /\ verdict \in {"resolved", "accepted"} => \E n \in 0 .. Many : AllRead(n)
  BY <1>2, <1>3 DEF FollowsInv
<1>5. /\ verdict \notin {"rejected", "crashed"} /\ Unmarked
      /\ Indices = 1 .. Many /\ Many \in Nat \ {0}
  <2>1. Indices = 1 .. Many /\ Many \in Nat /\ Indices # {}
    BY <1>2, <1>4, IndicesFacts, LayoutFacts DEF Ordinary
  <2> QED
    BY <1>2, <2>1 DEF NeverRefused, Ordinary, Unmarked
<1>6. CASE Reject
  BY <1>2, <1>4, <1>6, PlaceAllowed DEF Reject
<1>7. CASE Resolve
  <2>1. verdict = "reading" /\ at > Len(file)
    BY <1>7 DEF Resolve
  <2>2. AtInstance(st, Many + 1)
    BY <1>2, <1>4, <2>1, EndPlace
  <2>3. block = "OUTSIDE" /\ Len(list) = Many /\ Done(Many)
    BY <1>5, <2>2 DEF AtInstance
  <2>4. PeersKnown
    BY <1>2, <1>4, <2>3, AllPeersKnown
  <2>5. count = Len(list)
    BY <1>5, <2>1, CountedAtEnd DEF FollowsInv
  <2>6. Len(list) \in Nat
    BY ListFacts
  <2> QED
    BY <1>7, <2>3, <2>4, <2>5, <2>6 DEF Resolve, Ends
<1>8. CASE Verify
  <2>1. verdict = "resolved"
    BY <1>8 DEF Verify
  <2>2. Done(Many) /\ Len(list) = Many
    BY <1>2, <1>4, <1>5, <2>1 DEF AllRead
  <2>3. DOMAIN list = 1 .. Many /\ list # << >> /\ Many \in 0 .. Many
    BY <1>5, <2>2, ListFacts
  <2>4. ASSUME NEW i \in 1 .. Many
        PROVE  /\ list[i].fields["name"] # << >>
               /\ list[i].fields["unit_file_name"] # << >>
    <3>1. Blueprint(i).name # << >> /\ Blueprint(i).unit_file_name # << >>
      <4>1. Blueprint(i) \in Blueprints
        BY <1>4, LayoutFacts
      <4> QED
        BY <1>2, <1>5, <4>1 DEF Ordinary, Blueprints
    <3> QED
      BY <1>4, <2>2, <2>3, <3>1, DoneFacts
  <2> QED
    BY <1>8, <2>3, <2>4 DEF Verify, Ends
<1>9. CASE ~Reject /\ ~Resolve /\ ~Verify
  BY <1>5, <1>9 DEF vars, Next, ReadGlobals, ReadGlobalsField, ReadInstance, ReadField,
     ReadEnd, ReadMapping, ReadEndMapping, Skip, Reads, Ended
<1> QED
  BY <1>6, <1>7, <1>8, <1>9

(* Whatever is generated: when its names are distinct and of one word, its    *)
(* commands have one line, its peers exist and no text in it passes for the   *)
(* start of a block, what the generator writes the manager accepts.          *)
THEOREM OwnManifestsAccepted == Spec => []NeverRefused
<1>1. Init => ReaderInv
  BY InitIsAnyFile, OpenedInv
<1>2. Init => NeverRefused
  BY DEF Init, Opened, NeverRefused
<1> QED
  BY <1>1, <1>2, InvStep, FollowsInit, FollowsStep, RefusesNone, PTL DEF Spec
-----------------------------------------------------------------------------
(* A manifest that was cut: what is left of it *)
LEMMA DescribedHere ==
  ASSUME ReaderInv, NEW st, Layout(st), NEW n \in 0 .. Many, Done(n),
         n <= Len(list), NEW i \in 1 .. n, OneWordPeers(Blueprint(i))
  PROVE  Describes(Blueprint(i), list[i])
<1> DEFINE b == Blueprint(i)
           ins == list[i]
<1>1. /\ i \in 1 .. Many /\ i \in 1 .. Len(list) /\ Len(b.mappings) \in Nat
      /\ DOMAIN b.mappings = 1 .. Len(b.mappings) /\ Len(b.command) = 1
      /\ b \in Blueprints
  <2>1. i \in 1 .. Many /\ i \in 1 .. Len(list)
    BY LayoutFacts, ListFacts
  <2> QED
    BY <2>1, LayoutFacts
<1>2. /\ \A k \in Identity : ins.fields[k] = b[k]
      /\ ins.fields["failure_behavior"] = <<b.failure_behavior>>
      /\ ins.fields["path"] = b.path /\ ins.fields["command"] = b.command[1].value
      /\ names = generation.keywords
  BY DoneFacts DEF Identity
<1>3. Head(b.command).value = b.command[1].value
  BY DEF Head
<1>4. DOMAIN ins.peers = ToSet(names)
  BY <1>1, ListFacts
<1>5. \A p \in 1 .. Len(b.mappings) : Keyword(b, p) \in ToSet(names)
  BY <1>1, <1>2, KeywordFacts
<1>6. \A p \in 1 .. Len(b.mappings), k \in MappingKeys :
        ins.peers[Keyword(b, p)][k] = PeersValue(b, p, k)
  BY PeersTaken
<1>7. ASSUME NEW m \in ToSet(b.mappings)
      PROVE  /\ m.keyword \in DOMAIN ins.peers
             /\ ins.peers[m.keyword]["mapping_behavior"] = <<b.mapping_behavior>>
             /\ \A k \in {"after", "before"} :
                  [j \in DOMAIN ins.peers[m.keyword][k] |->
                     << ins.peers[m.keyword][k][j] >>] = m[k]
  <2>1. PICK p \in 1 .. Len(b.mappings) : m = b.mappings[p]
    BY <1>1, <1>7 DEF ToSet
  <2>2. m.keyword = Keyword(b, p) /\ m.keyword \in DOMAIN ins.peers
    BY <1>4, <1>5, <2>1 DEF Keyword
  <2>3. /\ ins.peers[m.keyword]["mapping_behavior"] = <<b.mapping_behavior>>
        /\ ins.peers[m.keyword]["after"] = FlattenSeq(m.after)
        /\ ins.peers[m.keyword]["before"] = FlattenSeq(m.before)
    BY <1>6, <2>1, <2>2 DEF MappingKeys, PeersValue
  <2>4. ASSUME NEW ss \in Seq(Values), \A w \in ToSet(ss) : Len(w) = 1
        PROVE  [j \in DOMAIN FlattenSeq(ss) |-> <<FlattenSeq(ss)[j]>>] = ss
    <3>1. /\ DOMAIN FlattenSeq(ss) = 1 .. Len(ss) /\ DOMAIN ss = 1 .. Len(ss)
          /\ \A x \in 1 .. Len(ss) : <<FlattenSeq(ss)[x]>> = ss[x]
      BY <2>4, OneWordFlat
    <3>2. ss = [x \in 1 .. Len(ss) |-> ss[x]]
      OBVIOUS
    <3> QED
      BY <3>1, <3>2
  <2>5. /\ m.after \in Seq(Values) /\ \A w \in ToSet(m.after) : Len(w) = 1
        /\ m.before \in Seq(Values) /\ \A w \in ToSet(m.before) : Len(w) = 1
    BY <1>1, <2>1, PeersTypes
  <2>6. /\ [j \in DOMAIN FlattenSeq(m.after) |-> <<FlattenSeq(m.after)[j]>>] = m.after
        /\ [j \in DOMAIN FlattenSeq(m.before) |-> <<FlattenSeq(m.before)[j]>>] = m.before
    BY <2>4, <2>5
  <2> QED
    BY <2>2, <2>3, <2>6
<1> QED
  BY <1>2, <1>3, <1>7 DEF Describes

LEMMA WholeHere ==
  ReaderInv /\ FollowsInv /\ OneLine /\ damage \in {"none", "cut"} => WholeInstances
<1> SUFFICES ASSUME ReaderInv, FollowsInv, OneLine, damage \in {"none", "cut"},
                    verdict = "accepted", NEW i \in DOMAIN list
             PROVE  \/ Imagined(list[i])
                    \/ \E j \in Indices :
                         \/ Describes(Blueprint(j), list[i])
                         \/ /\ list[i].fields["name"] = Blueprint(j).name
                            /\ ~OneWordPeers(Blueprint(j))
  BY DEF WholeInstances
<1>1. PICK st : Layout(st) /\ \E n \in 0 .. Many : AllRead(n)
  BY DEF FollowsInv
<1>2. PICK n \in 0 .. Many : AllRead(n)
  BY <1>1
<1>3. DOMAIN list = 1 .. Len(list) /\ Len(list) \in Nat /\ n \in Nat /\ n <= Len(list)
  <2>1. DOMAIN list = 1 .. Len(list) /\ Len(list) \in Nat /\ Many \in Nat
    BY <1>1, ListFacts, LayoutFacts
  <2>2. n \in Nat
    BY <2>1
  <2> QED
    BY <1>2, <2>1, <2>2 DEF AllRead
<1>4. CASE i \in 1 .. n
  <2>1. i \in Indices
    BY <1>1, <1>4, IndicesFacts, LayoutFacts
  <2>2. Done(n) /\ list[i].fields["name"] = Blueprint(i).name
    BY <1>1, <1>2, <1>4, DoneFacts DEF AllRead
  <2>3. OneWordPeers(Blueprint(i)) => Describes(Blueprint(i), list[i])
    BY <1>1, <1>3, <1>4, <2>2, DescribedHere
  <2> QED
    BY <2>1, <2>2, <2>3
<1>5. CASE i \in n + 1 .. Len(list)
  <2>1. names = << >> /\ list[i] = Zeroed
    BY <1>2, <1>5 DEF AllRead
  <2>2. ~generating
    <3>1. Zeroed.fields["name"] = << >>
      BY DEF Zeroed, InstanceKeys, Identity
    <3>2. generating => list[i].fields["name"] # << >>
      BY DEF ReaderInv, ResolvedInv
    <3>3. generating \in BOOLEAN
      BY DEF ReaderInv, ReaderTypeOK
    <3> QED
      BY <2>1, <3>1, <3>2, <3>3
  <2> QED
    BY <2>1, <2>2 DEF Imagined
<1> QED
  BY <1>3, <1>4, <1>5

(* What BlueprintProcessor reconciles before anything is written: a relation  *)
(* is known on both of its sides.                                            *)
Reconciled ==
  \A i, j \in Indices :
    Blueprint(j).name \in PeersOf(i) => Blueprint(i).name \in PeersOf(j)

LEMMA PeersRead ==
  ASSUME ReaderInv, NEW st, Layout(st), NEW n \in 0 .. Many, Done(n), n <= Len(list),
         PeersKnown, NEW i \in 1 .. n, OneWordPeers(Blueprint(i)), NEW w \in PeersOf(i)
  PROVE  w \in NamesRead
<1> DEFINE b == Blueprint(i)
<1>1. /\ i \in 1 .. Many /\ i \in DOMAIN list
      /\ DOMAIN b.mappings = 1 .. Len(b.mappings)
  <2>1. i \in 1 .. Many /\ i \in DOMAIN list
    BY LayoutFacts, ListFacts
  <2> QED
    BY <2>1, LayoutFacts
<1>2. PICK m \in Mappings(i) : w \in ToSet(m.after) \/ w \in ToSet(m.before)
  BY DEF PeersOf
<1>3. PICK p \in 1 .. Len(b.mappings) : m = b.mappings[p]
  BY <1>1, <1>2 DEF Mappings, ToSet
<1>4. PICK k \in {"after", "before"} :
        w \in ToSet(IF k = "after" THEN m.after ELSE m.before)
  BY <1>2
<1>5. PICK ss \in Seq(Values) : ss = IF k = "after" THEN m.after ELSE m.before
  BY <1>1, <1>3, PeersTypes
<1>6. \A v \in ToSet(ss) : Len(v) = 1
  BY <1>1, <1>3, <1>5, PeersTypes
<1>7. list[i].peers[Keyword(b, p)][k] = FlattenSeq(ss)
  <2>1. list[i].peers[Keyword(b, p)][k] = PeersValue(b, p, k)
    BY PeersTaken DEF MappingKeys
  <2> QED
    BY <1>3, <1>5, <2>1 DEF PeersValue
<1>8. PICK x \in 1 .. Len(ss) : w = ss[x]
  BY <1>4, <1>5 DEF ToSet
<1>9. /\ <<FlattenSeq(ss)[x]>> = w /\ FlattenSeq(ss)[x] \in ToSet(FlattenSeq(ss))
  <2>1. <<FlattenSeq(ss)[x]>> = ss[x] /\ DOMAIN FlattenSeq(ss) = 1 .. Len(ss)
    BY <1>6, OneWordFlat
  <2> QED
    BY <1>8, <2>1 DEF ToSet
<1>10. Keyword(b, p) \in ToSet(names)
  BY <1>1, DoneFacts, KeywordFacts
<1> QED
  BY <1>1, <1>7, <1>9, <1>10 DEF PeersKnown

LEMMA NoneLostHere ==
  ReaderInv /\ FollowsInv /\ Ordinary /\ Reconciled /\ damage \in {"none", "cut"}
    => NoneLostUnnoticed
<1> SUFFICES ASSUME ReaderInv, FollowsInv, Ordinary, Reconciled,
                    damage \in {"none", "cut"}, verdict = "accepted"
             PROVE  /\ \A i \in Lost, j \in Indices \ Lost :
                         /\ Blueprint(j).name \notin PeersOf(i)
                         /\ Blueprint(i).name \notin PeersOf(j)
                    /\ damage = "none" => Lost = {}
                    /\ \A i \in Lost, j \in Indices : i < j => j \in Lost
  BY DEF NoneLostUnnoticed
<1>1. PICK st : Layout(st) /\ \E n \in 0 .. Many : AllRead(n)
  <2>1. OneLine
    BY DEF Ordinary, OneLine
  <2> QED
    BY <2>1 DEF FollowsInv
<1>2. PICK n \in 0 .. Many : AllRead(n)
  BY <1>1
<1>3. /\ Len(list) = n /\ Done(n) /\ DOMAIN list = 1 .. n /\ n <= Len(list)
      /\ damage = "none" => n = Many
  <2>1. Unmarked
    BY DEF Ordinary, Unmarked
  <2> QED
    BY <1>2, <2>1, ListFacts DEF AllRead
<1>4. Indices = 1 .. Many /\ Many \in Nat
  BY <1>1, IndicesFacts, LayoutFacts
<1>5. \A i \in 1 .. n : list[i].fields["name"] = Blueprint(i).name
  BY <1>1, <1>3, DoneFacts
<1>6. \A i \in Indices : Blueprint(i).name \in NamesRead <=> i \in 1 .. n
  <2>1. \A i, j \in Indices : Blueprint(i).name = Blueprint(j).name => i = j
    BY DEF Ordinary
  <2>2. \A i \in 1 .. n : i \in Indices
    BY <1>4
  <2> QED
    BY <1>3, <1>5, <2>1, <2>2 DEF NamesRead
<1>7. \A i \in Indices : i \in Lost <=> i \notin 1 .. n
  BY <1>6 DEF Lost
<1>8. ASSUME NEW i \in Lost, NEW j \in Indices \ Lost
      PROVE  /\ Blueprint(j).name \notin PeersOf(i)
             /\ Blueprint(i).name \notin PeersOf(j)
  <2>1. i \in Indices /\ j \in 1 .. n /\ Blueprint(i).name \notin NamesRead
    BY <1>7 DEF Lost
  <2>2. PeersKnown
    BY DEF ReaderInv, ResolvedInv
  <2>3. OneWordPeers(Blueprint(j))
    BY DEF Ordinary
  <2>4. Blueprint(i).name \notin PeersOf(j)
    BY <1>1, <1>3, <2>1, <2>2, <2>3, PeersRead
  <2> QED
    BY <2>1, <2>4 DEF Reconciled
<1>9. damage = "none" => Lost = {}
  BY <1>3, <1>4, <1>7 DEF Lost
<1>10. \A i \in Lost, j \in Indices : i < j => j \in Lost
  <2>1. Lost \subseteq Indices
    BY DEF Lost
  <2> QED
    BY <1>4, <1>7, <2>1
<1> QED
  BY <1>8, <1>9, <1>10

(* However a manifest was cut, by the writer's death or the reader's buffer,  *)
(* no instance is taken over in half, whatever was generated with commands of *)
(* one line.                                                                 *)
THEOREM CutReadWhole ==
  Spec => [](OneLine /\ damage \in {"none", "cut"} => WholeInstances)
<1>1. Init => ReaderInv
  BY InitIsAnyFile, OpenedInv
<1> QED
  BY <1>1, InvStep, FollowsInit, FollowsStep, WholeHere, PTL DEF Spec

(* And none is missing from under the others: those that were cut off are the *)
(* last ones, and no instance that was read has one of them as a peer.       *)
THEOREM CutLosesTheLast ==
  Spec => [](Ordinary /\ Reconciled /\ damage \in {"none", "cut"} => NoneLostUnnoticed)
<1>1. Init => ReaderInv
  BY InitIsAnyFile, OpenedInv
<1> QED
  BY <1>1, InvStep, FollowsInit, FollowsStep, NoneLostHere, PTL DEF Spec
=============================================================================
