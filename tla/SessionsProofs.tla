---------------------------- MODULE SessionsProofs ----------------------------
(***************************************************************************)
(* Theorems about Sessions, for every set of units, inputs, configuration  *)
(* files and any number of sessions.                                       *)
(***************************************************************************)
EXTENDS Sessions, SequenceTheorems, WellFoundedInduction, TLAPS

Generating == HasGenerate(Mode)

(* The steps after the manifest was read, and those after the copies. *)
Listed == {"copy", "register", "reload", "enable", "reload_again", "attach", "run",
           "started"}
Settling == Listed \ {"copy"}

ModeInv ==
  /\ step \in {"generate", "emit", "copy"} => Generating
  /\ step \in {"emit", "copy"} \cup {"read"} /\ Generating => generated \in Inputs

(* How far a generation, or the copies, have come. *)
EmitInv ==
  step = "emit" =>
    /\ at \in 1 .. Len(Instances[generated]) + 1
    /\ \A i \in 1 .. at - 1 : staged[Instances[generated][i]] = Definition(generated)

CopyInv ==
  /\ step = "copy" =>
       /\ at \in 1 .. Len(list) + 1
       /\ failures < at
       /\ failures = 0 =>
            \A i \in 1 .. at - 1 : installed[list[i]] = Definition(generated)
  /\ step \in {"generate", "emit", "read"} => failures = 0
  /\ step = "enable" => at \in 1 .. Len(list) + 1
  /\ at >= 1

(* Manifest and staged unit files are those of v, and whole. *)
WholeOf(v) ==
  /\ v \in Inputs
  /\ manifest.of = v /\ manifest.blocks = Len(Instances[v]) /\ manifest.cut = FALSE
  /\ \A u \in ToSet(Instances[v]) : staged[u] = Definition(v)

InstalledOf(v) == \A u \in ToSet(Instances[v]) : installed[u] = Definition(v)

GenerationInv ==
  Generating =>
    /\ step \in {"read"} \cup Listed => WholeOf(generated)
    /\ step \in Listed => list = Instances[generated]
    /\ step \in Settling => InstalledOf(generated)

(* What a completed generation made is not touched until the next one writes. *)
IntactInv ==
  /\ intact # "none" => WholeOf(intact) /\ InstalledOf(intact)
  /\ step \in {"read", "copy"} /\ Generating => intact = "none"
  /\ step \in Listed /\ ~Generating /\ intact # "none" => list = Instances[intact]

LoadInv ==
  /\ step \in {"attach", "run", "started"} => loaded = installed
  /\ step \in {"run", "started"} => \A u \in ToSet(list) : loaded[u] # Missing

(* The configuration of a session under way was read from its file, is       *)
(* complete, and asks for what is done after the copies.                     *)
ConfigInv ==
  /\ step # "idle" => config = ReadConfig(cfgfile) /\ Usable(config)
  /\ step \in Settling => HasRun(Mode)

Inv == /\ TypeOK /\ ModeInv /\ EmitInv /\ CopyInv
       /\ GenerationInv /\ IntactInv /\ LoadInv

-----------------------------------------------------------------------------
(* Reading a configuration: an induction over its lines, by the first line   *)
(* that would break what is claimed.                                        *)
LEMMA LeastExists ==
  ASSUME NEW T \in SUBSET Nat, T # {}
  PROVE  \E m \in T : \A x \in T : m <= x
<1>1. PICK m \in T : \A x \in T : <<x, m>> \notin OpToRel(<, Nat)
  BY WFMin, NatLessThanWellFounded, Zenon
<1>2. ASSUME NEW x \in T PROVE ~(x < m)
  <2>1. x \in Nat /\ m \in Nat
    OBVIOUS
  <2>2. <<x, m>> \in Nat \X Nat /\ <<x, m>>[1] = x /\ <<x, m>>[2] = m
    BY <2>1
  <2> QED
    BY <1>1, <2>2, Zenon DEF OpToRel
<1> QED
  BY <1>2

LEMMA InductionOn ==
  ASSUME NEW N \in Nat, NEW T, 0 \in T, \A i \in 0 .. N - 1 : i \in T => i + 1 \in T
  PROVE  0 .. N \subseteq T
<1> SUFFICES ASSUME (0 .. N) \ T # {} PROVE FALSE
  OBVIOUS
<1>1. PICK m \in (0 .. N) \ T : \A x \in (0 .. N) \ T : m <= x
  <2>1. (0 .. N) \ T \in SUBSET Nat
    OBVIOUS
  <2> QED
    BY <2>1, LeastExists
<1>2. m - 1 \in 0 .. N - 1 /\ m - 1 \in 0 .. N /\ (m - 1) + 1 = m
  BY <1>1
<1>3. m - 1 \in T
  BY <1>1, <1>2
<1> QED
  BY <1>1, <1>2, <1>3

LEMMA Lines ==
  ASSUME NEW f \in Configs
  PROVE  /\ Len(f) \in Nat /\ DOMAIN f = 1 .. Len(f)
         /\ \A i \in 1 .. Len(f) : /\ f[i].key \in Texts /\ f[i].value \in Texts
                                   /\ f[i].ended \in BOOLEAN
<1>1. f \in Seq([key : Texts, value : Texts, ended : BOOLEAN])
  BY SessionsAssumption
<1>2. Len(f) \in Nat /\ DOMAIN f = 1 .. Len(f)
  BY <1>1
<1>3. \A i \in 1 .. Len(f) : f[i] \in [key : Texts, value : Texts, ended : BOOLEAN]
  BY <1>1, ElementOfSeq
<1> QED
  BY <1>2, <1>3

(* The recursion over the lines defines what it seems to. *)
LEMMA ReadingSteps ==
  ASSUME NEW f \in Configs
  PROVE  /\ Reading(f)[0] = Initial
         /\ \A i \in 1 .. Len(f) : Reading(f)[i] = ReadLine(Reading(f)[i - 1], f[i])
<1> DEFINE E(n, d) ==
             d = [i \in 0 .. n |-> IF i = 0 THEN Initial ELSE ReadLine(d[i - 1], f[i])]
           T == {n \in Nat : \E d : E(n, d)}
<1>1. Len(f) \in Nat
  BY Lines
<1>2. E(0, [i \in 0 .. 0 |-> Initial])
  OBVIOUS
<1>3. ASSUME NEW n \in Nat, NEW d, E(n, d)
      PROVE  \E e : E(n + 1, e)
  <2> DEFINE e == [i \in 0 .. n + 1 |->
                 IF i = n + 1 THEN ReadLine(d[n], f[n + 1]) ELSE d[i]]
  <2>1. /\ \A i \in 0 .. n : d[i] = IF i = 0 THEN Initial ELSE ReadLine(d[i - 1], f[i])
        /\ \A i \in 0 .. n : e[i] = d[i]
        /\ e[n + 1] = ReadLine(d[n], f[n + 1])
    BY <1>3
  <2>2. ASSUME NEW i \in 0 .. n + 1
        PROVE  e[i] = IF i = 0 THEN Initial ELSE ReadLine(e[i - 1], f[i])
    <3>1. CASE i = n + 1
      BY <2>1, <3>1
    <3>2. CASE i # n + 1
      <4>1. i \in 0 .. n /\ (i # 0 => i - 1 \in 0 .. n)
        BY <3>2
      <4> QED
        BY <2>1, <4>1
    <3> QED
      BY <3>1, <3>2
  <2>3. E(n + 1, e)
    BY <2>2
  <2> HIDE DEF E, e
  <2> QED
    BY <2>3
<1> HIDE DEF E
<1>4. 0 \in T /\ \A n \in 0 .. Len(f) - 1 : n \in T => n + 1 \in T
  <2>1. \A n \in 0 .. Len(f) - 1 : n \in Nat /\ n + 1 \in Nat
    BY <1>1
  <2> QED
    BY <1>2, <1>3, <2>1
<1> HIDE DEF T
<1>5. Len(f) \in T
  <2>1. 0 .. Len(f) \subseteq T
    BY <1>1, <1>4, InductionOn
  <2> QED
    BY <1>1, <2>1
<1>6. PICK d : E(Len(f), d)
  BY <1>5 DEF T
<1>7. E(Len(f), Reading(f))
  BY <1>6 DEF Reading, E
<1> QED
  BY <1>1, <1>7 DEF E

(* The recognized names. *)
LEMMA KeyFacts ==
  /\ DOMAIN Keys = 1 .. 12 /\ "none" \notin ToSet(Keys)
  /\ PathKeys \subseteq ToSet(Keys) /\ Preexisting \subseteq PathKeys
  /\ {"PROGRAM_MODE", "OPERATION_MODE", "FAILURE_BEHAVIOR_DEFAULT",
      "MAPPING_BEHAVIOR_DEFAULT"} \subseteq ToSet(Keys) \ PathKeys
<1>1. DOMAIN Keys = 1 .. 12
  BY DEF Keys
<1>2. /\ Keys[1] = "RESULTS_FOLDER" /\ Keys[2] = "UNIT_FILE_STAGING_DIRECTORY"
      /\ Keys[3] = "UNIT_FILE_DESTINATION" /\ Keys[4] = "VENV_DIRECTORY"
      /\ Keys[5] = "INPUT_FILE" /\ Keys[6] = "LAUNCHER_SCRIPT"
      /\ Keys[7] = "MANIFEST_FILE" /\ Keys[8] = "LOG_DIRECTORY"
      /\ Keys[9] = "PROGRAM_MODE" /\ Keys[10] = "OPERATION_MODE"
      /\ Keys[11] = "FAILURE_BEHAVIOR_DEFAULT" /\ Keys[12] = "MAPPING_BEHAVIOR_DEFAULT"
  BY DEF Keys
<1>3. \A i \in 1 .. 8 : i \in {1, 2, 3, 4, 5, 6, 7, 8} /\ i \in 1 .. 12
  OBVIOUS
<1>4. \A i \in 1 .. 12 : i \in 1 .. 8 \/ i \in {9, 10, 11, 12}
  OBVIOUS
<1>5. \A i \in 1 .. 12 : Keys[i] \in ToSet(Keys)
  BY <1>1 DEF ToSet
<1>6. PathKeys = {"RESULTS_FOLDER", "UNIT_FILE_STAGING_DIRECTORY",
                  "UNIT_FILE_DESTINATION", "VENV_DIRECTORY", "INPUT_FILE",
                  "LAUNCHER_SCRIPT", "MANIFEST_FILE", "LOG_DIRECTORY"}
  BY <1>2, <1>3 DEF PathKeys
<1>7. PathKeys \subseteq ToSet(Keys)
  BY <1>3, <1>5 DEF PathKeys
<1>8. \A n \in ToSet(Keys) : \E i \in 1 .. 12 : n = Keys[i]
  BY <1>1 DEF ToSet
<1>9. "none" \notin ToSet(Keys)
  <2>1. \A i \in 1 .. 8 : Keys[i] # "none"
    BY <1>2, <1>3
  <2> QED
    BY <1>2, <1>4, <1>8, <2>1
<1>10. /\ "PROGRAM_MODE" \in ToSet(Keys) /\ "OPERATION_MODE" \in ToSet(Keys)
       /\ "FAILURE_BEHAVIOR_DEFAULT" \in ToSet(Keys)
       /\ "MAPPING_BEHAVIOR_DEFAULT" \in ToSet(Keys)
  BY <1>2, <1>5
<1> QED
  BY <1>1, <1>6, <1>7, <1>9, <1>10 DEF Preexisting

(* A text is taken for a recognized name or for none; one that is not the     *)
(* beginning of such a name is taken for itself.                             *)
LEMMA MeantIs ==
  ASSUME NEW k
  PROVE  /\ Meant(k) \in ToSet(Keys) \cup {"none"}
         /\ k \notin DOMAIN Abbreviates =>
              Meant(k) = IF k \in ToSet(Keys) THEN k ELSE "none"
<1>1. DOMAIN Keys \subseteq Nat /\ Passes(k) \in SUBSET DOMAIN Keys
  BY KeyFacts DEF Passes
<1>2. Passes(k) # {} => Min(Passes(k)) \in Passes(k)
  BY <1>1, LeastExists DEF Min
<1>3. \A i \in DOMAIN Keys : Keys[i] \in ToSet(Keys)
  BY DEF ToSet
<1>4. ASSUME k \notin DOMAIN Abbreviates
      PROVE  Passes(k) = {i \in DOMAIN Keys : Keys[i] = k}
  BY <1>4 DEF Passes
<1>5. k \in ToSet(Keys) => \E i \in DOMAIN Keys : Keys[i] = k
  BY DEF ToSet
<1> QED
  BY <1>1, <1>2, <1>3, <1>4, <1>5 DEF Meant

LEMMA ReadLineType ==
  ASSUME NEW c \in Configuration, NEW l, l.value \in Texts
  PROVE  ReadLine(c, l) \in Configuration
<1>1. \A n \in ToSet(Keys) : Understood(n, l.value) \in Texts \cup Presets
  BY DEF Understood, Presets, ProgramModes
<1> QED
  BY <1>1, MeantIs DEF ReadLine, Configuration

LEMMA ConfigurationType ==
  /\ Initial \in Configuration
  /\ \A f \in Configs : /\ \A i \in 0 .. Len(f) : Reading(f)[i] \in Configuration
                        /\ ReadConfig(f) \in Configuration
<1>1. Initial \in Configuration
  <2>1. "generate-start-monitor" \in Presets /\ "monitor" \in Presets /\ Empty \in Presets
    BY DEF Presets, ProgramModes
  <2> QED
    BY <2>1 DEF Initial, Configuration
<1>2. ASSUME NEW f \in Configs, NEW i \in 0 .. Len(f)
      PROVE  Reading(f)[i] \in Configuration
  <2> DEFINE T == {j \in 0 .. Len(f) : Reading(f)[j] \in Configuration}
  <2>1. Len(f) \in Nat /\ 0 \in T
    BY <1>1, Lines, ReadingSteps
  <2>2. ASSUME NEW j \in 0 .. Len(f) - 1, j \in T
        PROVE  j + 1 \in T
    <3>1. j + 1 \in 1 .. Len(f) /\ j + 1 \in 0 .. Len(f) /\ (j + 1) - 1 = j
      BY <2>1
    <3>2. Reading(f)[j + 1] = ReadLine(Reading(f)[j], f[j + 1])
      BY <3>1, ReadingSteps
    <3>3. f[j + 1].value \in Texts
      BY <3>1, Lines
    <3> QED
      BY <2>2, <3>1, <3>2, <3>3, ReadLineType
  <2> HIDE DEF T
  <2>3. 0 .. Len(f) \subseteq T
    BY <2>1, <2>2, InductionOn
  <2> QED
    BY <2>3 DEF T
<1>3. ASSUME NEW c \in Configuration PROVE Normalized(c) \in Configuration
  <2>1. Implied(c["PROGRAM_MODE"]) \in Presets /\ {"Abort", "Ignore"} \subseteq Presets
    BY DEF Implied, Presets
  <2> QED
    BY <2>1, KeyFacts DEF Normalized, Configuration
<1>4. ASSUME NEW f \in Configs PROVE ReadConfig(f) \in Configuration
  <2>1. Len(f) \in 0 .. Len(f)
    BY Lines
  <2> QED
    BY <1>2, <1>3, <2>1 DEF ReadConfig
<1> QED
  BY <1>1, <1>2, <1>4

(* What the lines up to the i-th say of a name, if said properly. *)
SaidBefore(f, n, i, x) ==
  \/ x = Initial[n] /\ \A j \in 1 .. i : f[j].key # n
  \/ \E j \in 1 .. i : /\ f[j].key = n /\ x = Understood(n, f[j].value)
                       /\ \A k \in j + 1 .. i : f[k].key # n

LEMMA LineSays ==
  ASSUME NEW f \in Configs, ProperlySaid(f), NEW n \in ToSet(Keys),
         NEW i \in 0 .. Len(f) - 1, NEW c \in Configuration, SaidBefore(f, n, i, c[n])
  PROVE  SaidBefore(f, n, i + 1, ReadLine(c, f[i + 1])[n])
<1> DEFINE l == f[i + 1]
<1>1. Len(f) \in Nat /\ i \in Nat /\ i + 1 \in 1 .. Len(f) /\ i + 1 \in DOMAIN f
  BY Lines
<1>2. l.ended /\ l.key \notin DOMAIN Abbreviates
  BY <1>1 DEF ProperlySaid, ToSet
<1>3. Meant(l.key) = IF l.key \in ToSet(Keys) THEN l.key ELSE "none"
  BY <1>2, MeantIs
<1>4. "none" \notin ToSet(Keys)
  BY KeyFacts
<1>5. \A j \in 1 .. i + 1 : j \in 1 .. i \/ j = i + 1
  BY <1>1
<1>6. CASE l.key = n
  <2>1. ReadLine(c, l)[n] = Understood(n, l.value)
    BY <1>2, <1>3, <1>4, <1>6 DEF ReadLine, Configuration
  <2>2. i + 1 \in 1 .. i + 1 /\ \A k \in (i + 1) + 1 .. i + 1 : FALSE
    BY <1>1
  <2> QED
    BY <1>6, <2>1, <2>2 DEF SaidBefore
<1>7. CASE l.key # n
  <2>1. ReadLine(c, l)[n] = c[n]
    BY <1>3, <1>4, <1>7 DEF ReadLine, Configuration
  <2>2. CASE c[n] = Initial[n] /\ \A j \in 1 .. i : f[j].key # n
    BY <1>5, <1>7, <2>1, <2>2 DEF SaidBefore
  <2>3. CASE \E j \in 1 .. i : /\ f[j].key = n /\ c[n] = Understood(n, f[j].value)
                              /\ \A k \in j + 1 .. i : f[k].key # n
    <3>1. PICK j \in 1 .. i : /\ f[j].key = n /\ c[n] = Understood(n, f[j].value)
                             /\ \A k \in j + 1 .. i : f[k].key # n
      BY <2>3
    <3>2. j \in 1 .. i + 1 /\ \A k \in j + 1 .. i + 1 : k \in j + 1 .. i \/ k = i + 1
      BY <1>1
    <3> QED
      BY <1>7, <2>1, <3>1, <3>2 DEF SaidBefore
  <2> QED
    BY <2>2, <2>3 DEF SaidBefore
<1> QED
  BY <1>6, <1>7

LEMMA ReadingSays ==
  ASSUME NEW f \in Configs, ProperlySaid(f), NEW n \in ToSet(Keys)
  PROVE  SaidBefore(f, n, Len(f), Reading(f)[Len(f)][n])
<1> DEFINE T == {i \in 0 .. Len(f) : SaidBefore(f, n, i, Reading(f)[i][n])}
<1>1. Len(f) \in Nat /\ 0 \in T
  BY Lines, ReadingSteps DEF SaidBefore
<1>2. ASSUME NEW i \in 0 .. Len(f) - 1, i \in T
      PROVE  i + 1 \in T
  <2>1. /\ i + 1 \in 1 .. Len(f) /\ i + 1 \in 0 .. Len(f) /\ (i + 1) - 1 = i
        /\ i \in 0 .. Len(f)
    BY <1>1
  <2>2. Reading(f)[i + 1] = ReadLine(Reading(f)[i], f[i + 1])
    BY <2>1, ReadingSteps
  <2>3. Reading(f)[i] \in Configuration
    BY <2>1, ConfigurationType
  <2> QED
    BY <1>2, <2>1, <2>2, <2>3, LineSays
<1> HIDE DEF T
<1>3. 0 .. Len(f) \subseteq T
  BY <1>1, <1>2, InductionOn
<1> QED
  BY <1>1, <1>3 DEF T

(* The last line of a name is the one that is said. *)
LEMMA SaidIs ==
  ASSUME NEW f \in Configs, NEW n, NEW x, SaidBefore(f, n, Len(f), x)
  PROVE  \/ x = Initial[n] /\ Said(f, n) = Empty
         \/ x = Understood(n, Said(f, n))
<1>1. Len(f) \in Nat /\ DOMAIN f = 1 .. Len(f)
  BY Lines
<1>2. CASE x = Initial[n] /\ \A j \in 1 .. Len(f) : f[j].key # n
  <2>1. Saying(f, n) = {}
    BY <1>1, <1>2 DEF Saying
  <2> QED
    BY <1>2, <2>1 DEF Said
<1>3. CASE \E j \in 1 .. Len(f) : /\ f[j].key = n /\ x = Understood(n, f[j].value)
                                 /\ \A k \in j + 1 .. Len(f) : f[k].key # n
  <2>1. PICK j \in 1 .. Len(f) : /\ f[j].key = n /\ x = Understood(n, f[j].value)
                                /\ \A k \in j + 1 .. Len(f) : f[k].key # n
    BY <1>3
  <2>2. j \in Saying(f, n) /\ Saying(f, n) \subseteq 1 .. Len(f)
    BY <1>1, <2>1 DEF Saying
  <2>3. ASSUME NEW k \in Saying(f, n)
        PROVE  k <= j
    <3>1. f[k].key = n /\ k \in 1 .. Len(f)
      BY <1>1 DEF Saying
    <3> QED
      BY <1>1, <2>1, <3>1
  <2>4. Max(Saying(f, n)) \in Saying(f, n) /\ j <= Max(Saying(f, n))
    BY <2>2, <2>3 DEF Max
  <2>5. Max(Saying(f, n)) = j
    BY <1>1, <2>2, <2>3, <2>4
  <2> QED
    BY <2>1, <2>2, <2>5 DEF Said
<1> QED
  BY <1>2, <1>3 DEF SaidBefore

(* What a session reads of a configuration properly said. *)
LEMMA ConfigSays ==
  ASSUME NEW f \in Configs, ProperlySaid(f)
  PROVE  /\ \A n \in PathKeys : ReadConfig(f)[n] = Said(f, n)
         /\ ReadConfig(f)["PROGRAM_MODE"] = SaidMode(f)
         /\ ReadConfig(f)["OPERATION_MODE"] = Implied(SaidMode(f))
<1> DEFINE c == Reading(f)[Len(f)]
<1>1. c \in Configuration
  <2>1. Len(f) \in 0 .. Len(f)
    BY Lines
  <2> QED
    BY <2>1, ConfigurationType
<1>2. \A n \in ToSet(Keys) : \/ c[n] = Initial[n] /\ Said(f, n) = Empty
                            \/ c[n] = Understood(n, Said(f, n))
  BY ReadingSays, SaidIs
<1>3. ASSUME NEW n \in PathKeys
      PROVE  c[n] = Said(f, n)
  <2>1. n \in ToSet(Keys) /\ n # "PROGRAM_MODE" /\ n # "OPERATION_MODE"
    BY KeyFacts
  <2>2. Initial[n] = Empty
    BY <2>1 DEF Initial
  <2>3. Understood(n, Said(f, n)) = Said(f, n)
    BY <2>1 DEF Understood
  <2> QED
    BY <1>2, <2>1, <2>2, <2>3
<1>4. c["PROGRAM_MODE"] = SaidMode(f)
  <2>1. "PROGRAM_MODE" \in ToSet(Keys)
    BY KeyFacts
  <2>2. Initial["PROGRAM_MODE"] = "generate-start-monitor"
    BY <2>1 DEF Initial
  <2>3. Empty \notin ProgramModes
    BY Zenon DEF Empty, ProgramModes
  <2>4. Understood("PROGRAM_MODE", Said(f, "PROGRAM_MODE")) = SaidMode(f)
    BY DEF Understood, SaidMode
  <2> QED
    BY <1>2, <2>1, <2>2, <2>3, <2>4 DEF SaidMode
<1> HIDE DEF c
<1>5. ReadConfig(f) = Normalized(c)
  BY DEF ReadConfig, c
<1>6. /\ \A n \in PathKeys : Normalized(c)[n] = c[n]
      /\ Normalized(c)["PROGRAM_MODE"] = c["PROGRAM_MODE"]
      /\ Normalized(c)["OPERATION_MODE"] = Implied(c["PROGRAM_MODE"])
  BY <1>1, KeyFacts DEF Normalized, Configuration
<1> QED
  BY <1>3, <1>4, <1>5, <1>6

-----------------------------------------------------------------------------
LEMMA ContentsAre ==
  ASSUME NEW v \in Inputs \cup {"none"}
  PROVE  /\ Definition(v) \in Contents /\ Torn(v) \in Contents /\ Missing \in Contents
         /\ v \in Inputs => Definition(v) # Missing
BY SessionsAssumption DEF Definition, Torn, Missing, Contents

LEMMA ElementsOf ==
  ASSUME NEW S, NEW s \in Seq(S)
  PROVE  /\ Len(s) \in Nat
         /\ \A i \in 1 .. Len(s) : s[i] \in S /\ s[i] \in ToSet(s)
         /\ \A x \in ToSet(s) : x \in S /\ \E i \in 1 .. Len(s) : x = s[i]
BY DEF ToSet

LEMMA InstancesType ==
  ASSUME NEW v \in Inputs
  PROVE  Instances[v] \in Seq(Units) /\ Len(Instances[v]) \in Nat
BY SessionsAssumption

LEMMA InvImplies ==
  Inv => /\ TypeOK /\ LoadedIsInstalled
         /\ DrivesItsGeneration /\ ReplaysTheGeneration
<1> SUFFICES ASSUME Inv
             PROVE  LoadedIsInstalled /\ DrivesItsGeneration /\ ReplaysTheGeneration
  BY DEF Inv
<1> USE DEF Inv
<1>1. step = "started" => step \in Listed /\ step \in Settling
  BY DEF Listed, Settling
<1>2. LoadedIsInstalled
  BY DEF LoadedIsInstalled, LoadInv
<1>3. DrivesItsGeneration
  BY <1>1 DEF DrivesItsGeneration, Drives, Generating, GenerationInv, InstalledOf,
              LoadInv
<1>4. ReplaysTheGeneration
  BY <1>1 DEF ReplaysTheGeneration, Drives, Generating, IntactInv, InstalledOf, LoadInv
<1> QED
  BY <1>2, <1>3, <1>4

LEMMA InitInv == Init => Inv
<1> SUFFICES ASSUME Init PROVE Inv
  OBVIOUS
<1>1. Missing \in Contents
  BY ContentsAre
<1>2. TypeOK
  <2>1. << >> \in Seq(Units) /\ Len(<< >>) = 0 /\ MaxSessions \in Nat
    BY SessionsAssumption
  <2>2. manifest = [of |-> "none", blocks |-> 0, cut |-> FALSE]
    BY DEF Init
  <2>3. manifest.of = "none" /\ manifest.blocks = 0 /\ manifest.cut = FALSE
    BY <2>2
  <2> QED
    BY <1>1, <2>1, <2>3, ConfigurationType DEF Init, TypeOK, Steps
<1>3. step = "idle" /\ intact = "none" /\ at = 1
  BY DEF Init
<1> QED
  BY <1>2, <1>3 DEF Inv, ModeInv, EmitInv, CopyInv, GenerationInv, IntactInv, LoadInv,
                    Listed, Settling

-----------------------------------------------------------------------------
(* What the invariant says of the loops' current elements. *)
LEMMA EmitElement ==
  ASSUME Inv, step = "emit"
  PROVE  /\ generated \in Inputs
         /\ Instances[generated] \in Seq(Units)
         /\ Len(Instances[generated]) \in Nat
         /\ at \in 1 .. Len(Instances[generated]) + 1
         /\ at <= Len(Instances[generated]) => Instances[generated][at] \in Units
<1>1. generated \in Inputs
  BY DEF Inv, ModeInv
<1>2. Instances[generated] \in Seq(Units) /\ Len(Instances[generated]) \in Nat
  BY <1>1, InstancesType
<1>3. at \in 1 .. Len(Instances[generated]) + 1
  BY DEF Inv, EmitInv
<1> QED
  BY <1>1, <1>2, <1>3, ElementOfSeq

LEMMA ListElement ==
  ASSUME Inv
  PROVE  /\ list \in Seq(Units) /\ Len(list) \in Nat
         /\ \A i \in 1 .. Len(list) : list[i] \in Units
<1>1. list \in Seq(Units)
  BY DEF Inv, TypeOK
<1> QED
  BY <1>1, ElementOfSeq

LEMMA BeginStep == ASSUME Inv, Begin PROVE Inv'
<1> USE DEF Inv
<1>1. /\ step' \in {"generate", "read", "idle"} /\ at' = 1
      /\ step' = "generate" => Generating'
      /\ step' = "read" => ~Generating'
  BY DEF Begin, Gives, Goes, Generating, Mode
<1>2. /\ generated' = "none" /\ list' = << >> /\ failures' = 0
      /\ UNCHANGED <<staged, manifest, installed, loaded, intact>>
      /\ cfgfile' \in Configs /\ sessions' = sessions + 1 /\ sessions < MaxSessions
  BY DEF Begin, fileVars
<1>3. TypeOK'
  <2>1. MaxSessions \in Nat /\ << >> \in Seq(Units) /\ Len(<< >>) = 0
    BY SessionsAssumption
  <2>2. sessions' \in 0 .. MaxSessions
    BY <1>2, <2>1 DEF TypeOK
  <2>3. config' \in Configuration
    BY ConfigurationType DEF Begin
  <2> QED
    BY <1>1, <1>2, <2>1, <2>2, <2>3 DEF TypeOK, Steps
<1>4. step' \notin Listed \cup Settling
  BY <1>1 DEF Listed, Settling
<1>5. ModeInv' /\ EmitInv' /\ CopyInv' /\ LoadInv'
  BY <1>1, <1>2 DEF ModeInv, EmitInv, CopyInv, LoadInv
<1>6. GenerationInv'
  BY <1>1, <1>4 DEF GenerationInv
<1>7. IntactInv'
  BY <1>1, <1>2, <1>4 DEF IntactInv, WholeOf, InstalledOf
<1> QED
  BY <1>3, <1>5, <1>6, <1>7

LEMMA GenerateStep == ASSUME Inv, Generate PROVE Inv'
<1> USE DEF Inv
<1>1. /\ step = "generate" /\ step' \in {"emit", "idle"} /\ at' = 1
      /\ generated' \in Inputs
      /\ UNCHANGED <<staged, manifest, installed, loaded, list, failures, intact,
                     config, cfgfile, sessions>>
  BY DEF Generate, Gives, Goes, fileVars, sessionVars
<1>2. Generating' = Generating
  BY <1>1 DEF Generating, Mode
<1>3. TypeOK'
  <2>1. step' \in {"idle", "emit"} /\ step' \in Steps
    BY <1>1 DEF Steps
  <2> QED
    BY <1>1, <2>1 DEF TypeOK
<1>4. step' \notin Listed \cup Settling /\ step' \notin {"read", "copy"}
  BY <1>1 DEF Listed, Settling
<1>5. EmitInv'
  BY <1>1, InstancesType DEF EmitInv
<1>6. ModeInv' /\ CopyInv' /\ LoadInv'
  BY <1>1, <1>2 DEF ModeInv, CopyInv, LoadInv
<1>7. GenerationInv' /\ IntactInv'
  BY <1>1, <1>4 DEF GenerationInv, IntactInv, WholeOf, InstalledOf
<1> QED
  BY <1>3, <1>5, <1>6, <1>7

LEMMA EmitStep == ASSUME Inv, Emit PROVE Inv'
<1> USE DEF Inv
<1>1. /\ step = "emit" /\ step' = step /\ at' = at + 1
      /\ at <= Len(Instances[generated])
      /\ staged' = [staged EXCEPT ![Instances[generated][at]] = Definition(generated)]
      /\ intact' = "none"
      /\ UNCHANGED <<manifest, installed, loaded, list, failures, generated, config,
                     cfgfile, sessions>>
  BY DEF Emit, Next1, sessionVars
<1>2. Generating' = Generating
  BY <1>1 DEF Generating, Mode
<1>3. PICK v \in Inputs : v = generated
  BY <1>1, EmitElement
<1>4. /\ Instances[v] \in Seq(Units) /\ Len(Instances[v]) \in Nat
      /\ at \in 1 .. Len(Instances[v])
      /\ \A i \in 1 .. Len(Instances[v]) : Instances[v][i] \in Units
  BY <1>1, <1>3, EmitElement, ElementOfSeq
<1>5. staged \in [Units -> Contents] /\ staged' \in [Units -> Contents]
  BY <1>1, <1>3, <1>4, ContentsAre DEF TypeOK
<1>6. TypeOK'
  <2>1. at' \in Nat
    BY <1>1, <1>4
  <2> QED
    BY <1>1, <1>5, <2>1 DEF TypeOK
<1>7. EmitInv'
  <2>1. at' \in 1 .. Len(Instances[v]) + 1
    BY <1>1, <1>4
  <2>2. ASSUME NEW i \in 1 .. at' - 1
        PROVE  staged'[Instances[v][i]] = Definition(v)
    <3>1. i \in 1 .. Len(Instances[v]) /\ Instances[v][i] \in Units
      BY <1>1, <1>4
    <3>2. CASE i = at
      BY <1>1, <1>3, <1>5, <3>1, <3>2
    <3>3. CASE i # at
      <4>1. i \in 1 .. at - 1
        BY <1>1, <1>4, <3>3
      <4>2. staged[Instances[v][i]] = Definition(v)
        BY <1>1, <1>3, <4>1 DEF EmitInv
      <4> QED
        BY <1>1, <1>3, <1>5, <3>1, <4>2
    <3> QED
      BY <3>2, <3>3
  <2> QED
    BY <1>1, <1>3, <2>1, <2>2 DEF EmitInv
<1>8. step' \notin Listed \cup Settling /\ step' = "emit"
  BY <1>1 DEF Listed, Settling
<1>9. ModeInv' /\ CopyInv' /\ LoadInv'
  BY <1>1, <1>2, <1>4 DEF ModeInv, CopyInv, LoadInv
<1>10. GenerationInv' /\ IntactInv'
  BY <1>1, <1>8 DEF GenerationInv, IntactInv
<1> QED
  BY <1>6, <1>7, <1>9, <1>10

LEMMA WriteStep == ASSUME Inv, Write PROVE Inv'
<1> USE DEF Inv
<1>1. /\ step = "emit" /\ step' = "read" /\ at' = 1
      /\ at > Len(Instances[generated])
      /\ intact' = "none"
      /\ UNCHANGED <<staged, installed, loaded, list, failures, generated, config,
                     cfgfile, sessions>>
  BY DEF Write, Goes, sessionVars
<1>2. Generating' = Generating
  BY <1>1 DEF Generating, Mode
<1>3. PICK v \in Inputs : v = generated
  BY <1>1, EmitElement
<1>4. /\ manifest'.of = v /\ manifest'.blocks = Len(Instances[v])
      /\ manifest'.cut = FALSE
  BY <1>3 DEF Write
<1>5. /\ Instances[v] \in Seq(Units) /\ Len(Instances[v]) \in Nat
      /\ at = Len(Instances[v]) + 1
  BY <1>1, <1>3, EmitElement
<1>6. TypeOK'
  <2>1. step' \in Steps /\ v # "none"
    BY <1>1, SessionsAssumption DEF Steps
  <2>2. manifest'.blocks \in 0 .. (IF manifest'.of = "none" THEN 0
                                   ELSE Len(Instances[manifest'.of]))
    BY <1>4, <1>5, <2>1
  <2>3. at' <= Len(list) + 1
    BY <1>1, ListElement
  <2> QED
    BY <1>1, <1>4, <2>1, <2>2, <2>3 DEF TypeOK
<1>7. \A u \in ToSet(Instances[v]) : staged'[u] = Definition(v)
  BY <1>1, <1>3, <1>5, ElementsOf DEF EmitInv
<1>8. WholeOf(v)'
  BY <1>4, <1>7 DEF WholeOf
<1>9. step' \notin Listed \cup Settling
  BY <1>1 DEF Listed, Settling
<1>10. ModeInv' /\ EmitInv' /\ CopyInv' /\ LoadInv'
  BY <1>1, <1>2, <1>3 DEF ModeInv, EmitInv, CopyInv, LoadInv
<1>11. GenerationInv' /\ IntactInv'
  BY <1>1, <1>3, <1>8, <1>9 DEF GenerationInv, IntactInv
<1> QED
  BY <1>6, <1>10, <1>11

LEMMA ReadStep == ASSUME Inv, ReadManifest PROVE Inv'
<1> USE DEF Inv
<1>1. /\ step = "read" /\ step' \in {"copy", "register", "idle"} /\ at' = 1
      /\ UNCHANGED <<staged, manifest, installed, loaded, failures, generated, intact,
                     config, cfgfile, sessions>>
      /\ list' = << >> \/ list' = SubSeq(Instances[manifest.of], 1, manifest.blocks)
  BY DEF ReadManifest, Gives, Goes, fileVars, sessionVars
<1>2. /\ Generating' = Generating
      /\ step' = "copy" => Generating
      /\ step' = "register" => ~Generating
  BY <1>1 DEF ReadManifest, Gives, Goes, Generating, Mode
<1>3. step' # "idle" => /\ manifest.of \in Inputs
                        /\ list' = SubSeq(Instances[manifest.of], 1, manifest.blocks)
  BY DEF ReadManifest, Gives, Goes, Readable, TypeOK
<1>4. failures = 0
  BY <1>1 DEF CopyInv
<1>5. list' \in Seq(Units) /\ Len(list') \in Nat
  <2>1. CASE list' = << >>
    BY <2>1
  <2>2. CASE manifest.of = "none"
             /\ list' = SubSeq(Instances[manifest.of], 1, manifest.blocks)
    <3>1. manifest.blocks = 0
      BY <2>2 DEF TypeOK
    <3>2. list' = << >>
      BY <2>2, <3>1, SubSeqEmpty
    <3> QED
      BY <3>2
  <2>3. CASE manifest.of \in Inputs
             /\ list' = SubSeq(Instances[manifest.of], 1, manifest.blocks)
    <3>1. PICK v \in Inputs : v = manifest.of
      BY <2>3
    <3>2. Instances[v] \in Seq(Units) /\ Len(Instances[v]) \in Nat
      BY InstancesType
    <3>3. manifest.blocks \in 0 .. Len(Instances[v])
      BY <3>1, SessionsAssumption DEF TypeOK
    <3>4. \A i \in 1 .. manifest.blocks : Instances[v][i] \in Units
      BY <3>2, <3>3, ElementOfSeq
    <3>5. SubSeq(Instances[v], 1, manifest.blocks) \in Seq(Units)
      BY <3>3, <3>4, SubSeqProperties
    <3> QED
      BY <2>3, <3>1, <3>5
  <2>4. manifest.of \in Inputs \cup {"none"}
    BY DEF TypeOK
  <2> QED
    BY <1>1, <2>1, <2>2, <2>3, <2>4
<1>6. TypeOK'
  <2>1. step' \in Steps
    BY <1>1 DEF Steps
  <2> QED
    BY <1>1, <1>4, <1>5, <2>1 DEF TypeOK
<1>7. ASSUME NEW v \in Inputs, WholeOf(v), step' # "idle"
      PROVE  list' = Instances[v]
  BY <1>3, <1>7, InstancesType, SubSeqFull DEF WholeOf
<1>8. step' \in Settling => step' = "register"
  BY <1>1 DEF Settling, Listed
<1>9. CopyInv'
  BY <1>1, <1>4, <1>5 DEF CopyInv
<1>10. ModeInv' /\ EmitInv' /\ LoadInv'
  BY <1>1, <1>2 DEF ModeInv, EmitInv, LoadInv
<1>11. step' \in Listed => step' # "idle"
  BY DEF Listed
<1>12. GenerationInv'
  <2>1. Generating => WholeOf(generated) /\ generated \in Inputs
    BY <1>1 DEF GenerationInv, ModeInv
  <2> QED
    BY <1>1, <1>2, <1>7, <1>8, <1>11, <2>1 DEF GenerationInv, WholeOf
<1>13. IntactInv'
  <2>1. intact # "none" => WholeOf(intact) /\ InstalledOf(intact) /\ intact \in Inputs
    BY DEF IntactInv, WholeOf
  <2>2. Generating => intact = "none"
    BY <1>1 DEF IntactInv
  <2> QED
    BY <1>1, <1>2, <1>7, <1>11, <2>1, <2>2 DEF IntactInv, WholeOf, InstalledOf
<1> QED
  BY <1>6, <1>9, <1>10, <1>12, <1>13

(* The session is copying, and a copy touches the installed file of an       *)
(* instance only.                                                           *)
LEMMA Copying ==
  ASSUME Inv, step = "copy"
  PROVE  /\ Generating /\ generated \in Inputs /\ intact = "none"
         /\ WholeOf(generated) /\ list = Instances[generated]
         /\ list \in Seq(Units) /\ Len(list) \in Nat
         /\ at \in 1 .. Len(list) + 1 /\ failures \in Nat /\ failures < at
<1>1. Generating /\ generated \in Inputs /\ step \in Listed
  BY DEF Inv, ModeInv, Listed
<1>2. list \in Seq(Units) /\ Len(list) \in Nat
  BY ListElement
<1> QED
  BY <1>1, <1>2 DEF Inv, GenerationInv, IntactInv, CopyInv, TypeOK

LEMMA CopyStep == ASSUME Inv, Copy PROVE Inv'
<1> USE DEF Inv
<1>1. /\ step = "copy" /\ step' = step /\ at' = at + 1 /\ at <= Len(list)
      /\ UNCHANGED <<staged, manifest, loaded, list, generated, intact, config,
                     cfgfile, sessions>>
  BY DEF Copy, sessionVars
<1>2. PICK u \in Units : u = list[at]
  BY <1>1, Copying, ListElement
<1>3. \/ /\ installed' = [installed EXCEPT ![u] = staged[u]]
         /\ failures' = failures
      \/ /\ \/ installed' = installed
            \/ installed' = [installed EXCEPT ![u] = Torn(staged[u].of)]
         /\ failures' = failures + 1
  BY <1>2 DEF Copy, Copied
<1>4. Generating' = Generating
  BY <1>1 DEF Generating, Mode
<1>5. /\ Generating /\ generated \in Inputs /\ intact = "none"
      /\ WholeOf(generated) /\ list = Instances[generated]
      /\ list \in Seq(Units) /\ Len(list) \in Nat
      /\ at \in 1 .. Len(list) /\ failures \in Nat /\ failures < at
  BY <1>1, Copying
<1>6. staged[u] \in Contents /\ Torn(staged[u].of) \in Contents
  BY DEF TypeOK, Contents, Torn
<1>7. installed \in [Units -> Contents] /\ installed' \in [Units -> Contents]
  BY <1>3, <1>6 DEF TypeOK
<1>8. TypeOK'
  <2>1. at' \in Nat /\ at' <= Len(list) + 1 /\ failures' \in 0 .. Len(list)
    BY <1>1, <1>3, <1>5
  <2> QED
    BY <1>1, <1>7, <2>1 DEF TypeOK
<1>9. ASSUME failures' = 0, NEW i \in 1 .. at' - 1
      PROVE  installed'[list[i]] = Definition(generated)
  <2>1. /\ failures = 0
        /\ installed' = [installed EXCEPT ![u] = staged[u]]
    BY <1>3, <1>5, <1>9
  <2>2. staged[u] = Definition(generated)
    BY <1>2, <1>5, ElementsOf DEF WholeOf
  <2>3. i \in 1 .. at /\ i \in 1 .. Len(list)
    BY <1>1, <1>5
  <2>4. list[i] \in Units
    BY <2>3, ListElement
  <2>5. CASE i = at
    BY <1>2, <1>7, <2>1, <2>2, <2>5
  <2>6. CASE i # at
    <3>1. i \in 1 .. at - 1
      BY <1>5, <2>3, <2>6
    <3>2. installed[list[i]] = Definition(generated)
      BY <1>1, <2>1, <3>1 DEF CopyInv
    <3> QED
      BY <1>7, <2>1, <2>2, <2>4, <3>2
  <2> QED
    BY <2>5, <2>6
<1>10. CopyInv'
  <2>1. at' \in 1 .. Len(list) + 1 /\ failures' < at' /\ at' >= 1
    BY <1>1, <1>3, <1>5
  <2> QED
    BY <1>1, <1>9, <2>1 DEF CopyInv
<1>11. step' \notin Settling
  BY <1>1 DEF Settling, Listed
<1>12. ModeInv' /\ EmitInv' /\ LoadInv'
  BY <1>1, <1>4 DEF ModeInv, EmitInv, LoadInv
<1>13. GenerationInv' /\ IntactInv'
  BY <1>1, <1>4, <1>5, <1>11 DEF GenerationInv, IntactInv, WholeOf
<1> QED
  BY <1>8, <1>10, <1>12, <1>13

LEMMA CopiesDoneStep == ASSUME Inv, CopiesDone PROVE Inv'
<1> USE DEF Inv
<1>1. /\ step = "copy" /\ at > Len(list) /\ at' = 1
      /\ step' \in {"register", "idle"}
      /\ UNCHANGED <<staged, manifest, installed, loaded, list, failures, generated,
                     config, cfgfile, sessions>>
      /\ \/ step' = "idle" /\ intact' = intact
         \/ failures <= 0 /\ intact' = generated
  BY Copying DEF CopiesDone, Goes, fileVars, sessionVars
<1>2. Generating' = Generating
  BY <1>1 DEF Generating, Mode
<1>3. /\ Generating /\ generated \in Inputs /\ intact = "none"
      /\ WholeOf(generated) /\ list = Instances[generated]
      /\ list \in Seq(Units) /\ Len(list) \in Nat
      /\ at = Len(list) + 1 /\ failures \in Nat
  BY <1>1, Copying
<1>4. failures = 0 => InstalledOf(generated)
  <2>1. ASSUME failures = 0, NEW u \in ToSet(list)
        PROVE  installed[u] = Definition(generated)
    <3>1. PICK i \in 1 .. Len(list) : u = list[i]
      BY <1>3, ElementsOf
    <3>2. i \in 1 .. at - 1
      BY <1>3
    <3> QED
      BY <1>1, <2>1, <3>1, <3>2 DEF CopyInv
  <2> QED
    BY <1>3, <2>1 DEF InstalledOf
<1>5. step' = "register" => failures = 0 /\ intact' = generated
  BY <1>1, <1>3
<1>6. intact' = "none" \/ (intact' = generated /\ failures = 0)
  BY <1>1, <1>3
<1>7. TypeOK'
  <2>1. step' \in Steps /\ intact' \in Inputs \cup {"none"}
    BY <1>1, <1>3, <1>6 DEF Steps
  <2>2. at' <= Len(list) + 1
    BY <1>1, <1>3
  <2> QED
    BY <1>1, <2>1, <2>2 DEF TypeOK
<1>8. step' \in Settling \/ step' \in Listed => step' = "register"
  BY <1>1 DEF Listed, Settling
<1>9. ModeInv' /\ EmitInv' /\ CopyInv' /\ LoadInv'
  BY <1>1, <1>2 DEF ModeInv, EmitInv, CopyInv, LoadInv
<1>10. GenerationInv'
  BY <1>1, <1>2, <1>3, <1>4, <1>5, <1>8 DEF GenerationInv, WholeOf, InstalledOf
<1>11. IntactInv'
  BY <1>1, <1>2, <1>3, <1>4, <1>6, <1>8 DEF IntactInv, WholeOf, InstalledOf
<1> QED
  BY <1>7, <1>9, <1>10, <1>11

(* Every session may end where it is. *)
LEMMA IdleStep ==
  ASSUME Inv, step' = "idle", at' = 1,
         UNCHANGED <<staged, manifest, installed, loaded, list, failures, generated,
                     intact, config, cfgfile, sessions>>
  PROVE  Inv'
<1> USE DEF Inv
<1>1. TypeOK'
  BY DEF TypeOK, Steps
<1>2. step' \notin Listed \cup Settling
  BY DEF Listed, Settling
<1>3. ModeInv' /\ EmitInv' /\ CopyInv' /\ LoadInv'
  BY DEF ModeInv, EmitInv, CopyInv, LoadInv
<1>4. GenerationInv' /\ IntactInv'
  BY <1>2 DEF GenerationInv, IntactInv, WholeOf, InstalledOf
<1> QED
  BY <1>1, <1>3, <1>4

(* From the copies on only systemd's definitions change. *)
LEMMA SettledStep ==
  ASSUME Inv, step \in Settling, step' \in Settling, at' \in 1 .. Len(list) + 1,
         loaded' \in [Units -> Contents], LoadInv',
         UNCHANGED <<staged, manifest, installed, list, failures, generated, intact,
                     config, cfgfile, sessions>>
  PROVE  Inv'
<1> USE DEF Inv
<1>1. /\ step' \notin {"idle", "generate", "emit", "read", "copy"}
      /\ step \in Listed /\ step' \in Listed /\ step' \in Steps
  BY DEF Listed, Settling, Steps
<1>2. at' \in Nat /\ at' >= 1 /\ at' <= Len(list) + 1
  BY ListElement
<1>3. TypeOK'
  BY <1>1, <1>2 DEF TypeOK
<1>4. Generating' = Generating
  BY DEF Generating, Mode
<1>5. ModeInv' /\ EmitInv' /\ CopyInv'
  BY <1>1, <1>2 DEF ModeInv, EmitInv, CopyInv
<1>6. GenerationInv'
  BY <1>1, <1>4 DEF GenerationInv, WholeOf, InstalledOf
<1>7. IntactInv'
  BY <1>1, <1>4 DEF IntactInv, WholeOf, InstalledOf
<1> QED
  BY <1>3, <1>5, <1>6, <1>7

LEMMA RegisterStep == ASSUME Inv, Register PROVE Inv'
<1>1. /\ step = "register" /\ step' \in {"reload", "idle"} /\ at' = 1
      /\ UNCHANGED <<staged, manifest, installed, loaded, list, failures, generated,
                     intact, config, cfgfile, sessions>>
  BY DEF Register, Gives, Goes, fileVars, sessionVars
<1>2. CASE step' = "idle"
  BY <1>1, <1>2, IdleStep
<1>3. CASE step' = "reload"
  <2>1. step \in Settling /\ step' \in Settling /\ at' \in 1 .. Len(list) + 1
    BY <1>1, <1>3, ListElement DEF Settling, Listed
  <2>2. loaded' \in [Units -> Contents] /\ LoadInv'
    BY <1>1, <1>3 DEF Inv, TypeOK, LoadInv
  <2> QED
    BY <1>1, <2>1, <2>2, SettledStep
<1> QED
  BY <1>1, <1>2, <1>3

LEMMA ReloadStep == ASSUME Inv, Reload PROVE Inv'
<1>1. /\ step \in {"reload", "reload_again"} /\ step' \in {"enable", "attach"}
      /\ at' = 1 /\ loaded' = installed
      /\ UNCHANGED <<staged, manifest, installed, list, failures, generated, intact,
                     config, cfgfile, sessions>>
  BY DEF Reload, Goes, sessionVars
<1>2. step \in Settling /\ step' \in Settling /\ at' \in 1 .. Len(list) + 1
  BY <1>1, ListElement DEF Settling, Listed
<1>3. loaded' \in [Units -> Contents] /\ LoadInv'
  BY <1>1 DEF Inv, TypeOK, LoadInv
<1> QED
  BY <1>1, <1>2, <1>3, SettledStep

LEMMA EnableStep == ASSUME Inv, Enable PROVE Inv'
<1>1. /\ step = "enable"
      /\ UNCHANGED <<staged, manifest, installed, loaded, list, failures, generated,
                     intact, config, cfgfile, sessions>>
      /\ \/ step' = "idle" /\ at' = 1
         \/ step' = "reload_again" /\ at' = 1
         \/ step' = "enable" /\ at' = at + 1 /\ ~(at > Len(list))
  BY DEF Enable, Goes, fileVars, sessionVars
<1>2. CASE step' = "idle"
  BY <1>1, <1>2, IdleStep
<1>3. CASE step' # "idle"
  <2>1. at \in 1 .. Len(list) + 1 /\ Len(list) \in Nat
    BY <1>1, ListElement DEF Inv, CopyInv
  <2>2. step \in Settling /\ step' \in Settling
    BY <1>1, <1>3 DEF Settling, Listed
  <2>3. at' \in 1 .. Len(list) + 1
    BY <1>1, <1>3, <2>1
  <2>4. loaded' \in [Units -> Contents] /\ LoadInv'
    BY <1>1, <1>3 DEF Inv, TypeOK, LoadInv
  <2> QED
    BY <1>1, <2>2, <2>3, <2>4, SettledStep
<1> QED
  BY <1>2, <1>3

LEMMA AttachStep == ASSUME Inv, Attach PROVE Inv'
<1>1. /\ step = "attach" /\ step' \in {"run", "idle"} /\ at' = 1
      /\ UNCHANGED <<staged, manifest, installed, loaded, list, failures, generated,
                     intact, config, cfgfile, sessions>>
      /\ step' = "run" => \A u \in ToSet(list) : loaded[u] # Missing
  BY DEF Attach, Gives, Goes, fileVars, sessionVars
<1>2. CASE step' = "idle"
  BY <1>1, <1>2, IdleStep
<1>3. CASE step' = "run"
  <2>1. step \in Settling /\ step' \in Settling /\ at' \in 1 .. Len(list) + 1
    BY <1>1, <1>3, ListElement DEF Settling, Listed
  <2>2. loaded' \in [Units -> Contents] /\ LoadInv'
    BY <1>1, <1>3 DEF Inv, TypeOK, LoadInv
  <2> QED
    BY <1>1, <2>1, <2>2, SettledStep
<1> QED
  BY <1>1, <1>2, <1>3

LEMMA RunStep == ASSUME Inv, Run PROVE Inv'
<1>1. /\ step = "run" /\ step' = "started" /\ at' = 1
      /\ UNCHANGED <<staged, manifest, installed, loaded, list, failures, generated,
                     intact, config, cfgfile, sessions>>
  BY DEF Run, Goes, fileVars, sessionVars
<1>2. step \in Settling /\ step' \in Settling /\ at' \in 1 .. Len(list) + 1
  BY <1>1, ListElement DEF Settling, Listed
<1>3. loaded' \in [Units -> Contents] /\ LoadInv'
  BY <1>1 DEF Inv, TypeOK, LoadInv
<1> QED
  BY <1>1, <1>2, <1>3, SettledStep

LEMMA StopEmittingStep == ASSUME Inv, StopEmitting PROVE Inv'
<1> USE DEF Inv
<1>1. /\ step = "emit" /\ step' = "idle" /\ at' = 1 /\ intact' = "none"
      /\ UNCHANGED <<installed, loaded, list, failures, generated, config, cfgfile,
                     sessions>>
  BY DEF StopEmitting, Goes, sessionVars
<1>2. PICK v \in Inputs : v = generated
  BY <1>1, EmitElement
<1>3. Instances[v] \in Seq(Units) /\ Len(Instances[v]) \in Nat /\ v # "none"
  BY InstancesType, SessionsAssumption
<1>4. /\ staged' \in [Units -> Contents]
      /\ manifest'.of \in Inputs \cup {"none"}
      /\ manifest'.blocks \in 0 .. (IF manifest'.of = "none" THEN 0
                                    ELSE Len(Instances[manifest'.of]))
      /\ manifest'.cut \in BOOLEAN
  <2>1. CASE at <= Len(Instances[v])
    <3>1. /\ staged' = [staged EXCEPT ![Instances[v][at]] = Torn(v)]
          /\ manifest' = manifest
      BY <1>2, <2>1 DEF StopEmitting, Next1
    <3>2. Torn(v) \in Contents /\ Instances[v][at] \in Units
      BY <1>1, <1>2, <2>1, EmitElement, ContentsAre
    <3> QED
      BY <3>1, <3>2 DEF TypeOK
  <2>2. CASE ~(at <= Len(Instances[v]))
    <3>1. /\ staged' = staged
          /\ \E k \in 0 .. Len(Instances[v]) - 1, cut \in BOOLEAN :
               manifest' = [of |-> v, blocks |-> k, cut |-> cut]
      BY <1>2, <2>2 DEF StopEmitting
    <3>2. PICK k \in 0 .. Len(Instances[v]) - 1, cut \in BOOLEAN :
            manifest' = [of |-> v, blocks |-> k, cut |-> cut]
      BY <3>1
    <3>3. manifest'.of = v /\ manifest'.blocks = k /\ manifest'.cut = cut
      BY <3>2
    <3> QED
      BY <1>3, <3>1, <3>3 DEF TypeOK
  <2> QED
    BY <2>1, <2>2
<1>5. TypeOK'
  BY <1>1, <1>4 DEF TypeOK, Steps
<1>6. step' \notin Listed \cup Settling
  BY <1>1 DEF Listed, Settling
<1>7. ModeInv' /\ EmitInv' /\ CopyInv' /\ LoadInv'
  BY <1>1 DEF ModeInv, EmitInv, CopyInv, LoadInv
<1>8. GenerationInv' /\ IntactInv'
  BY <1>1, <1>6 DEF GenerationInv, IntactInv
<1> QED
  BY <1>5, <1>7, <1>8

LEMMA StopCopyingStep == ASSUME Inv, StopCopying PROVE Inv'
<1> USE DEF Inv
<1>1. /\ step = "copy" /\ step' = "idle" /\ at' = 1 /\ at <= Len(list)
      /\ installed' = [installed EXCEPT ![list[at]] = Torn(staged[list[at]].of)]
      /\ UNCHANGED <<staged, manifest, loaded, list, failures, generated, intact,
                     config, cfgfile, sessions>>
  BY DEF StopCopying, Goes, sessionVars
<1>2. intact = "none" /\ list[at] \in Units
  BY <1>1, Copying, ListElement
<1>3. Torn(staged[list[at]].of) \in Contents
  BY <1>2 DEF TypeOK, Contents, Torn
<1>4. TypeOK'
  <2>1. installed' \in [Units -> Contents]
    BY <1>1, <1>2, <1>3 DEF TypeOK
  <2> QED
    BY <1>1, <2>1 DEF TypeOK, Steps
<1>5. step' \notin Listed \cup Settling
  BY <1>1 DEF Listed, Settling
<1>6. ModeInv' /\ EmitInv' /\ CopyInv' /\ LoadInv'
  BY <1>1 DEF ModeInv, EmitInv, CopyInv, LoadInv
<1>7. GenerationInv' /\ IntactInv'
  BY <1>1, <1>2, <1>5 DEF GenerationInv, IntactInv
<1> QED
  BY <1>4, <1>6, <1>7

-----------------------------------------------------------------------------
LEMMA InvStep == Inv /\ [Next]_vars => Inv'
<1> SUFFICES ASSUME Inv, [Next]_vars PROVE Inv'
  OBVIOUS
<1>1. CASE Begin        BY <1>1, BeginStep
<1>2. CASE Generate     BY <1>2, GenerateStep
<1>3. CASE Emit         BY <1>3, EmitStep
<1>4. CASE Write        BY <1>4, WriteStep
<1>5. CASE ReadManifest BY <1>5, ReadStep
<1>6. CASE Copy         BY <1>6, CopyStep
<1>7. CASE CopiesDone   BY <1>7, CopiesDoneStep
<1>8. CASE Register     BY <1>8, RegisterStep
<1>9. CASE Reload       BY <1>9, ReloadStep
<1>10. CASE Enable      BY <1>10, EnableStep
<1>11. CASE Attach      BY <1>11, AttachStep
<1>12. CASE Run         BY <1>12, RunStep
<1>13. CASE Stop \/ End
  <2>1. /\ step' = "idle" /\ at' = 1
        /\ UNCHANGED <<staged, manifest, installed, loaded, list, failures, generated,
                       intact, config, cfgfile, sessions>>
    BY <1>13 DEF Stop, End, Goes, fileVars, sessionVars
  <2> QED
    BY <2>1, IdleStep
<1>14. CASE StopEmitting BY <1>14, StopEmittingStep
<1>15. CASE StopCopying  BY <1>15, StopCopyingStep
<1>16. CASE Over \/ UNCHANGED vars
  <2>1. UNCHANGED <<staged, manifest, installed, loaded, step, list, at, failures,
                    generated, intact, config, cfgfile, sessions>>
    BY <1>16 DEF Over, vars, fileVars, sessionVars
  <2>2. TypeOK' /\ ModeInv' /\ EmitInv' /\ CopyInv'
    BY <2>1 DEF Inv, TypeOK, ModeInv, Generating, Mode, EmitInv, CopyInv
  <2>3. GenerationInv' /\ IntactInv' /\ LoadInv'
    BY <2>1 DEF Inv, GenerationInv, IntactInv, LoadInv, Generating, Mode, WholeOf,
                InstalledOf
  <2> QED
    BY <2>2, <2>3 DEF Inv
<1> QED
  BY <1>1, <1>2, <1>3, <1>4, <1>5, <1>6, <1>7, <1>8, <1>9, <1>10, <1>11, <1>12,
     <1>13, <1>14, <1>15, <1>16 DEF Next

-----------------------------------------------------------------------------
LEMMA ConfigStep == Inv /\ ConfigInv /\ [Next]_vars => ConfigInv'
<1> SUFFICES ASSUME Inv, ConfigInv, [Next]_vars PROVE ConfigInv'
  OBVIOUS
<1> USE DEF ConfigInv
<1>1. CASE Begin
  <2>1. /\ config' = ReadConfig(cfgfile') /\ step' \notin Settling
        /\ step' # "idle" => Usable(config')
    BY <1>1 DEF Begin, Gives, Goes, Settling, Listed
  <2> QED
    BY <2>1
<1>2. CASE ReadManifest
  <2>1. /\ step # "idle" /\ config' = config /\ cfgfile' = cfgfile
        /\ step' \in Settling => ~HasGenerate(Mode)
    BY <1>2 DEF ReadManifest, Gives, Goes, sessionVars, Settling, Listed
  <2>2. HasGenerate(Mode) \/ HasRun(Mode)
    BY DEF HasGenerate, HasRun
  <2> QED
    BY <2>1, <2>2 DEF Mode
<1>3. CASE CopiesDone
  <2>1. /\ step # "idle" /\ config' = config /\ cfgfile' = cfgfile
        /\ step' \in Settling => HasRun(Mode)
    BY <1>3 DEF CopiesDone, Goes, sessionVars, Settling, Listed
  <2> QED
    BY <2>1 DEF Mode
<1>4. CASE \/ Generate \/ Emit \/ Write \/ Copy \/ StopEmitting \/ StopCopying
           \/ Stop \/ End
  <2>1. /\ step # "idle" /\ config' = config /\ cfgfile' = cfgfile
        /\ step' \notin Settling
    BY <1>4 DEF Generate, Emit, Write, Copy, StopEmitting, StopCopying, Stop, End,
                Gives, Goes, sessionVars, Settling, Listed
  <2> QED
    BY <2>1
<1>5. CASE Register \/ Reload \/ Enable \/ Attach \/ Run
  <2>1. /\ step # "idle" /\ config' = config /\ cfgfile' = cfgfile
        /\ step \in Settling
    BY <1>5 DEF Register, Reload, Enable, Attach, Run, sessionVars, Settling, Listed
  <2> QED
    BY <2>1 DEF Mode
<1>6. CASE Over \/ UNCHANGED vars
  <2>1. step' = step /\ config' = config /\ cfgfile' = cfgfile
    BY <1>6 DEF Over, vars, sessionVars
  <2> QED
    BY <2>1 DEF Mode
<1> QED
  BY <1>1, <1>2, <1>3, <1>4, <1>5, <1>6 DEF Next

LEMMA ConfigImplies == Inv /\ ConfigInv => ConfigObeyed
<1> SUFFICES ASSUME Inv, ConfigInv, step # "idle", ProperlySaid(cfgfile)
             PROVE  /\ \A n \in PathKeys : Said(cfgfile, n) # Empty
                    /\ \A n \in Preexisting : Said(cfgfile, n) # "absent"
                    /\ step \in {"generate", "emit", "copy"} =>
                         HasGenerate(SaidMode(cfgfile))
                    /\ step \in {"register", "reload", "enable", "reload_again",
                                 "attach", "run", "started"} =>
                         HasRun(SaidMode(cfgfile))
                    /\ config["OPERATION_MODE"] = "monitor" <=>
                         SaidMode(cfgfile) \in {"generate-start-monitor", "start-monitor"}
  BY DEF ConfigObeyed
<1>1. cfgfile \in Configs /\ config = ReadConfig(cfgfile) /\ Usable(config)
  BY DEF Inv, TypeOK, ConfigInv
<1>2. /\ \A n \in PathKeys : config[n] = Said(cfgfile, n)
      /\ Mode = SaidMode(cfgfile)
      /\ config["OPERATION_MODE"] = Implied(SaidMode(cfgfile))
  BY <1>1, ConfigSays DEF Mode
<1>3. /\ \A n \in PathKeys : Said(cfgfile, n) # Empty
      /\ \A n \in Preexisting : Said(cfgfile, n) # "absent"
  BY <1>1, <1>2, KeyFacts DEF Usable
<1>4. /\ step \in {"generate", "emit", "copy"} => HasGenerate(SaidMode(cfgfile))
      /\ step \in {"register", "reload", "enable", "reload_again", "attach", "run",
                   "started"} => HasRun(SaidMode(cfgfile))
  BY <1>2 DEF Inv, ModeInv, ConfigInv, Generating, Settling, Listed
<1>5. config["OPERATION_MODE"] = "monitor" <=>
        SaidMode(cfgfile) \in {"generate-start-monitor", "start-monitor"}
  BY <1>2 DEF Implied
<1> QED
  BY <1>3, <1>4, <1>5

LEMMA SpecInv == Spec => []Inv
BY InitInv, InvStep, PTL DEF Spec

(* The files, the manifest, the loops' positions and the history of sessions *)
(* keep their types: no loop runs past the list it goes through, and no more *)
(* copies fail than there are instances.                                     *)
THEOREM SessionsTypeCorrect == Spec => []TypeOK
BY SpecInv, InvImplies, PTL

(* A session that generates drives exactly what it generated, after any      *)
(* history of sessions, whichever steps failed or were cut short.            *)
THEOREM OwnGenerationDriven == Spec => []DrivesItsGeneration
BY SpecInv, InvImplies, PTL

(* A session that does not generate drives the last generation, if that one  *)
(* was completed: nothing but another generation's writing touches it.       *)
THEOREM LastGenerationReplayed == Spec => []ReplaysTheGeneration
BY SpecInv, InvImplies, PTL

(* No unit is started from a definition older than its installed file. *)
THEOREM NothingStaleStarted == Spec => []LoadedIsInstalled
BY SpecInv, InvImplies, PTL

(* Whatever properly said configuration a session is given, of any number of *)
(* lines, it takes only the steps the program mode it says lists, and none   *)
(* at all without the eight paths and the three inputs.                      *)
THEOREM ConfigurationObeyed == Spec => []ConfigObeyed
<1>1. Init => ConfigInv
  BY DEF Init, ConfigInv, Settling, Listed
<1>2. Spec => []ConfigInv
  BY <1>1, SpecInv, ConfigStep, PTL DEF Spec
<1> QED
  BY <1>2, SpecInv, ConfigImplies, PTL
=============================================================================
