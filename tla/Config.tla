-------------------------------- MODULE Config --------------------------------
(***************************************************************************)
(* manager_read_config (Manager.c): the launcher's KEY=VALUE file.  A file *)
(* is the sequence of its lines, each with its key, its value and whether  *)
(* a newline ends it; a line that is blank, a comment or without an equals *)
(* sign has the key "skipped".  A key is compared on its own length only,  *)
(* so that a text that begins a recognized name passes for it.             *)
(***************************************************************************)
EXTENDS Naturals, SequencesExt

CONSTANTS
  Texts,       \* what keys and values there may be
  Abbreviates  \* Abbreviates[k]: the recognized names the text k begins

Keys == << "RESULTS_FOLDER", "UNIT_FILE_STAGING_DIRECTORY", "UNIT_FILE_DESTINATION",
           "VENV_DIRECTORY", "INPUT_FILE", "LAUNCHER_SCRIPT", "MANIFEST_FILE",
           "LOG_DIRECTORY", "PROGRAM_MODE", "OPERATION_MODE",
           "FAILURE_BEHAVIOR_DEFAULT", "MAPPING_BEHAVIOR_DEFAULT" >>
PathKeys == {Keys[i] : i \in 1 .. 8}
Preexisting == {"VENV_DIRECTORY", "INPUT_FILE", "LAUNCHER_SCRIPT"}

ASSUME ConfigAssumption ==
  \A k \in DOMAIN Abbreviates :
    k \notin ToSet(Keys) /\ Abbreviates[k] \subseteq ToSet(Keys)

ProgramModes == {"generate", "generate-start", "generate-start-monitor",
                 "start", "start-monitor"}
HasGenerate(m) == m \in {"generate", "generate-start", "generate-start-monitor"}
HasRun(m) == m # "generate"
Implied(m) == IF m \in {"generate-start-monitor", "start-monitor"}
                THEN "monitor" ELSE "basic"

Empty == ""
Presets == ProgramModes \cup {"monitor", "basic", "Abort", "Ignore", Empty}
Configuration == [ToSet(Keys) -> Texts \cup Presets]

(* The places of the names a key passes for: the first one tried is taken.   *)
Passes(k) == {i \in DOMAIN Keys :
                \/ Keys[i] = k
                \/ k \in DOMAIN Abbreviates /\ Keys[i] \in Abbreviates[k]}
Meant(k) == IF Passes(k) = {} THEN "none" ELSE Keys[Min(Passes(k))]

(* What a value is taken for.  A path is Empty or, if nothing is there,  *)
(* "absent".                                                                *)
Understood(n, v) ==
  CASE n = "PROGRAM_MODE" -> IF v \in ProgramModes THEN v ELSE "generate-start-monitor"
    [] n = "OPERATION_MODE" -> IF v \in {"monitor", "basic"} THEN v ELSE "basic"
    [] OTHER -> v

(* A line is acted on when its newline is reached. *)
ReadLine(c, l) ==
  IF l.ended /\ Meant(l.key) # "none"
    THEN [c EXCEPT ![Meant(l.key)] = Understood(Meant(l.key), l.value)] ELSE c

(* Before the file is read: calloc, and the initializers of the two modes *)
Initial == [n \in ToSet(Keys) |-> CASE n = "PROGRAM_MODE" -> "generate-start-monitor"
                                    [] n = "OPERATION_MODE" -> "monitor"
                                    [] OTHER -> Empty]

(* Mutation of Normalized: an explicit OPERATION_MODE is kept. *)
NormalizedUnlessSaid(c) ==
  [c EXCEPT !["FAILURE_BEHAVIOR_DEFAULT"] = IF @ = Empty THEN "Abort" ELSE @,
            !["MAPPING_BEHAVIOR_DEFAULT"] = IF @ = Empty THEN "Ignore" ELSE @]

(* The defaults, and the program mode's word on the operation mode *)
Normalized(c) ==
  [c EXCEPT !["FAILURE_BEHAVIOR_DEFAULT"] = IF @ = Empty THEN "Abort" ELSE @,
            !["MAPPING_BEHAVIOR_DEFAULT"] = IF @ = Empty THEN "Ignore" ELSE @,
            !["OPERATION_MODE"] = Implied(c["PROGRAM_MODE"])]

(* What is read of a file, line by line *)
Reading(file) ==
  LET read[i \in 0 .. Len(file)] ==
        IF i = 0 THEN Initial ELSE ReadLine(read[i - 1], file[i])
  IN  read
ReadConfig(file) == Normalized(Reading(file)[Len(file)])

(* The verification: without it main does not go on. *)
Usable(c) == /\ \A n \in PathKeys : c[n] # Empty
             /\ \A n \in Preexisting : c[n] # "absent"
=============================================================================
