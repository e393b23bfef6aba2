------------------------------- MODULE Sessions -------------------------------
(***************************************************************************)
(* What one run of the launcher leaves behind for the next: the unit files *)
(* staged by the generator, the manifest, the unit files installed for     *)
(* systemd and the definitions systemd has loaded.  A session is a run of  *)
(* main (Manager.c) in one of the five program modes, up to the point      *)
(* where every instance was asked to start; it may fail at every step, and *)
(* be killed between any two of them or in the midst of writing a file.    *)
(* Sessions follow one another; what the supervision of a session does is  *)
(* the subject of ManagerRun.                                              *)
(***************************************************************************)
EXTENDS Config

CONSTANTS
  Units,        \* the unit files there may be
  Inputs,       \* the states of the input file
  Instances,    \* Instances[v]: the units input v describes, in order
  Peers,        \* Peers[v]: pairs of units v relates to each other
  Refused,      \* inputs the generator refuses
  Unreadable,   \* inputs whose manifest the manager refuses
  Configs,      \* the configuration files there may be
  MaxTracked,   \* LIMIT_TRACKED_UNITS
  MaxSessions   \* bound: sessions

ASSUME SessionsAssumption ==
  /\ "none" \notin Inputs
  /\ Instances \in [Inputs -> Seq(Units)]
  /\ Peers \in [Inputs -> SUBSET (Units \X Units)]
  /\ Refused \subseteq Inputs /\ Unreadable \subseteq Inputs
  /\ Configs \subseteq Seq([key : Texts, value : Texts, ended : BOOLEAN])
  /\ MaxTracked \in Nat /\ MaxSessions \in Nat

VARIABLES
  staged,     \* staged[u]: the file of u in the staging directory
  manifest,   \* the manifest file: whose it is, its blocks, is it cut in one
  installed,  \* installed[u]: the file of u systemd reads
  loaded,     \* loaded[u]: what systemd has read
  step,       \* where the session is, "idle" between two
  config,     \* what it read from its configuration
  list,       \* the unit files of instance_list
  at,         \* how far the loop of the step has come
  failures,   \* copies that failed
  cfgfile,    \* history: the configuration file of the session
  generated,  \* history: the input it generates from, "none" if from none
  intact,     \* history: the input the last generation to write anything
              \* was made from, "none" unless it was completed
  sessions    \* history: sessions so far

fileVars == <<staged, manifest, installed, loaded>>
sessionVars == <<config, cfgfile, sessions>>
vars == <<fileVars, step, list, at, failures, generated, intact, sessionVars>>

(* A unit file holds the definition made from an input, all of it or a part. *)
Contents == [of : Inputs \cup {"none"}, whole : BOOLEAN]
Missing == [of |-> "none", whole |-> TRUE]
Definition(v) == [of |-> v, whole |-> TRUE]
Torn(v) == [of |-> v, whole |-> FALSE]

Steps == {"idle", "generate", "emit", "write", "read", "copy", "register",
          "reload", "enable", "reload_again", "attach", "run", "started"}

TypeOK ==
  /\ staged \in [Units -> Contents]
  /\ installed \in [Units -> Contents]
  /\ loaded \in [Units -> Contents]
  /\ manifest.of \in Inputs \cup {"none"}
  /\ manifest.blocks \in 0 .. (IF manifest.of = "none" THEN 0
                               ELSE Len(Instances[manifest.of]))
  /\ manifest.cut \in BOOLEAN
  /\ step \in Steps
  /\ list \in Seq(Units)
  /\ at \in Nat /\ (step \notin {"idle", "emit"} => at <= Len(list) + 1)
  /\ failures \in 0 .. Len(list)
  /\ cfgfile \in Configs
  /\ config \in Configuration
  /\ generated \in Inputs \cup {"none"}
  /\ intact \in Inputs \cup {"none"}
  /\ sessions \in 0 .. MaxSessions

Init ==
  /\ staged = [u \in Units |-> Missing]
  /\ installed = [u \in Units |-> Missing]
  /\ loaded = [u \in Units |-> Missing]
  /\ manifest = [of |-> "none", blocks |-> 0, cut |-> FALSE]
  /\ step = "idle"
  /\ cfgfile \in Configs
  /\ config = Initial
  /\ list = << >>
  /\ at = 1
  /\ failures = 0
  /\ generated = "none"
  /\ intact = "none"
  /\ sessions = 0

-----------------------------------------------------------------------------
Mode == config["PROGRAM_MODE"]

(* The session goes on, or it ends: an error of a step goes to the cleanup. *)
Goes(s) == step' = s /\ at' = 1
Gives(ok, s) == Goes(IF ok THEN s ELSE "idle")

(* Mutation of Begin: the failed copies of the session before are still counted. *)
BeginStillCounting ==
  /\ step = "idle"
  /\ sessions < MaxSessions
  /\ sessions' = sessions + 1
  /\ \E f \in Configs : cfgfile' = f /\ config' = ReadConfig(f)
  /\ Gives(Usable(config'),
           IF HasGenerate(config'["PROGRAM_MODE"]) THEN "generate" ELSE "read")
  /\ generated' = "none"
  /\ list' = << >>
  /\ UNCHANGED <<fileVars, failures, intact>>

(* manager_read_config and the program mode's first step *)
Begin ==
  /\ step = "idle"
  /\ sessions < MaxSessions
  /\ sessions' = sessions + 1
  /\ \E f \in Configs : cfgfile' = f /\ config' = ReadConfig(f)
  /\ Gives(Usable(config'),
           IF HasGenerate(config'["PROGRAM_MODE"]) THEN "generate" ELSE "read")
  /\ generated' = "none"
  /\ list' = << >>
  /\ failures' = 0
  /\ UNCHANGED <<fileVars, intact>>

(* UnitGenerator.py up to the Blueprints: an input that is refused, by the   *)
(* validation or by the search for cycles, ends it before it writes.         *)
Generate ==
  /\ step = "generate"
  /\ \E v \in Inputs : /\ generated' = v
                       /\ Gives(v \notin Refused, "emit")
  /\ UNCHANGED <<fileVars, list, failures, intact, sessionVars>>

Next1(f, x) == [f EXCEPT ![Instances[generated][at]] = x]

(* unit_file_builder: one unit file *)
Emit ==
  /\ step = "emit"
  /\ at <= Len(Instances[generated])
  /\ staged' = Next1(staged, Definition(generated))
  /\ at' = at + 1
  /\ intact' = "none"
  /\ UNCHANGED <<manifest, installed, loaded, step, list, failures, generated,
                 sessionVars>>

(* manifest_builder, once every unit file is written *)
Write ==
  /\ step = "emit"
  /\ at > Len(Instances[generated])
  /\ manifest' = [of |-> generated, blocks |-> Len(Instances[generated]),
                  cut |-> FALSE]
  /\ Goes("read")
  /\ intact' = "none"
  /\ UNCHANGED <<staged, installed, loaded, list, failures, generated, sessionVars>>

(* What manager_read_manifest makes of the file (module Manifest): one cut   *)
(* inside a block, or between two instances that are peers, is rejected.     *)
Closed(v, k) == \A p \in Peers[v] :
                  p[1] \in ToSet(SubSeq(Instances[v], 1, k)) =>
                    p[2] \in ToSet(SubSeq(Instances[v], 1, k))
Readable(m) == /\ m.of # "none" /\ m.of \notin Unreadable
               /\ ~m.cut
               /\ Closed(m.of, m.blocks)

(* manager_read_input's reading and verification, or manager_read_manifest   *)
ReadManifest ==
  /\ step = "read"
  /\ LET ok == Readable(manifest) /\ (HasGenerate(Mode) => manifest.blocks > 0)
     IN  /\ list' = IF ok THEN SubSeq(Instances[manifest.of], 1, manifest.blocks)
                          ELSE << >>
         /\ Gives(ok, IF HasGenerate(Mode) THEN "copy" ELSE "register")
  /\ UNCHANGED <<fileVars, failures, generated, intact, sessionVars>>

(* Mutation of Copied: a file that is there already is kept. *)
CopiedOnce(u) == IF installed[u] = Missing THEN staged[u] ELSE installed[u]
Copied(u) == staged[u]

(* manager_copy_unit_files, one file: copy_file empties the destination and  *)
(* fills it; a failure leaves a part and does not end the loop.              *)
Copy ==
  /\ step = "copy"
  /\ at <= Len(list)
  /\ LET u == list[at] IN
     \/ /\ staged[u] # Missing
        /\ installed' = [installed EXCEPT ![u] = Copied(u)]
        /\ UNCHANGED failures
     \/ /\ \/ UNCHANGED installed
           \/ /\ staged[u] # Missing
              /\ installed' = [installed EXCEPT ![u] = Torn(staged[u].of)]
        /\ failures' = failures + 1
  /\ at' = at + 1
  /\ UNCHANGED <<staged, manifest, loaded, step, list, generated, intact, sessionVars>>

(* Mutation of CopiesDone: the failures are counted and forgotten. *)
CopiesDoneAnyway ==
  /\ step = "copy"
  /\ at > Len(list)
  /\ Goes(IF HasRun(Mode) THEN "register" ELSE "idle")
  /\ intact' = generated
  /\ UNCHANGED <<fileVars, list, failures, generated, sessionVars>>

(* Its end: with a failure the session ends; the sizes of the others agree   *)
(* because they were just copied.                                           *)
CopiesDone ==
  /\ step = "copy"
  /\ at > Len(list)
  /\ IF failures > 0
       THEN Goes("idle") /\ UNCHANGED intact
       ELSE /\ Goes(IF HasRun(Mode) THEN "register" ELSE "idle")
            /\ intact' = generated
  /\ UNCHANGED <<fileVars, list, failures, generated, sessionVars>>

(* manager_register_tracked_units *)
Register ==
  /\ step = "register"
  /\ Gives(Len(list) <= MaxTracked, "reload")
  /\ UNCHANGED <<fileVars, list, failures, generated, intact, sessionVars>>

(* Mutation of Reload: systemd is not made to read the files again. *)
ReloadNothing ==
  /\ step \in {"reload", "reload_again"}
  /\ loaded' = [u \in Units |-> IF loaded[u] = Missing THEN installed[u]
                                                     ELSE loaded[u]]
  /\ Goes(IF step = "reload" THEN "enable" ELSE "attach")
  /\ UNCHANGED <<staged, manifest, installed, list, failures, generated, intact,
                 sessionVars>>

(* manager_capture_instances: the two reloads, after which systemd knows the *)
(* installed files ...                                                      *)
Reload ==
  /\ step \in {"reload", "reload_again"}
  /\ loaded' = installed
  /\ Goes(IF step = "reload" THEN "enable" ELSE "attach")
  /\ UNCHANGED <<staged, manifest, installed, list, failures, generated, intact,
                 sessionVars>>

(* ... EnableUnitFiles for each instance, which fails without a file ... *)
Enable ==
  /\ step = "enable"
  /\ IF at > Len(list) THEN Goes("reload_again")
     ELSE IF installed[list[at]] = Missing THEN Goes("idle")
     ELSE at' = at + 1 /\ UNCHANGED step
  /\ UNCHANGED <<fileVars, list, failures, generated, intact, sessionVars>>

(* ... and the verification: every unit attached and its definition loaded,  *)
(* which the part of a file may be or not.                                  *)
Attach ==
  /\ step = "attach"
  /\ \E bad \in SUBSET {u \in ToSet(list) : ~loaded[u].whole} :
       Gives(bad = {} /\ \A u \in ToSet(list) : loaded[u] # Missing, "run")
  /\ UNCHANGED <<fileVars, list, failures, generated, intact, sessionVars>>

(* manager_run, phase 1: every instance asked to start ... *)
Run ==
  /\ step = "run"
  /\ Goes("started")
  /\ UNCHANGED <<fileVars, list, failures, generated, intact, sessionVars>>

(* ... and the rest of the session *)
End ==
  /\ step = "started"
  /\ Goes("idle")
  /\ UNCHANGED <<fileVars, list, failures, generated, intact, sessionVars>>

(* A step that fails, or the death of the session *)
Stop ==
  /\ step # "idle"
  /\ Goes("idle")
  /\ UNCHANGED <<fileVars, list, failures, generated, intact, sessionVars>>

(* The death of the generator in the midst of writing a unit file or the     *)
(* manifest, which are opened for writing in place ...                      *)
StopEmitting ==
  /\ step = "emit"
  /\ intact' = "none"
  /\ IF at <= Len(Instances[generated])
       THEN /\ staged' = Next1(staged, Torn(generated))
            /\ UNCHANGED manifest
       ELSE /\ \E k \in 0 .. Len(Instances[generated]) - 1, cut \in BOOLEAN :
                 manifest' = [of |-> generated, blocks |-> k, cut |-> cut]
            /\ UNCHANGED staged
  /\ Goes("idle")
  /\ UNCHANGED <<installed, loaded, list, failures, generated, sessionVars>>

(* ... and the death of the session in the midst of a copy *)
StopCopying ==
  /\ step = "copy"
  /\ at <= Len(list)
  /\ staged[list[at]] # Missing
  /\ installed' = [installed EXCEPT ![list[at]] = Torn(staged[list[at]].of)]
  /\ Goes("idle")
  /\ UNCHANGED <<staged, manifest, loaded, list, failures, generated, intact,
                 sessionVars>>

Over == step = "idle" /\ sessions = MaxSessions /\ UNCHANGED vars

Next == \/ Begin \/ Generate \/ Emit \/ Write \/ ReadManifest
        \/ Copy \/ CopiesDone \/ Register \/ Reload \/ Enable \/ Attach
        \/ Run \/ End
        \/ Stop \/ StopEmitting \/ StopCopying
        \/ Over

Spec == Init /\ [][Next]_vars

-----------------------------------------------------------------------------
Drives(v) == /\ list = Instances[v]
             /\ \A u \in ToSet(list) : loaded[u] = Definition(v)

(* A session that generates drives what it generated, all of it and nothing  *)
(* else, whatever the sessions before it left staged, installed or half      *)
(* written, and wherever they were killed: when it has asked its instances   *)
(* to start, they are those of its own input, and what systemd has loaded of *)
(* each is the definition made from it.                                      *)
DrivesItsGeneration ==
  step = "started" /\ HasGenerate(Mode) => Drives(generated)

(* "S-modes load an existing manifest written by a prior G-mode run" (main): *)
(* a session that does not generate drives what the last generation made, if *)
(* that one was completed, even though others were refused, failed before    *)
(* they wrote anything, or were killed after their copies.                   *)
ReplaysTheGeneration ==
  step = "started" /\ ~HasGenerate(Mode) /\ intact # "none" => Drives(intact)

(* In any mode, and after any mishap, no unit is started from a definition   *)
(* older than the file installed, and none without a file.                   *)
LoadedIsInstalled ==
  step = "started" => \A u \in ToSet(list) : /\ installed[u] # Missing
                                             /\ loaded[u] = installed[u]

-----------------------------------------------------------------------------
(* What a configuration says, read as README.md tells it: KEY=VALUE, one     *)
(* entry per line, the last one of a key.  It is said properly if no key is  *)
(* the beginning of a recognized one and every line ends.                    *)
ProperlySaid(f) == \A l \in ToSet(f) : l.ended /\ l.key \notin DOMAIN Abbreviates
Saying(f, n) == {i \in DOMAIN f : f[i].key = n}
Said(f, n) == IF Saying(f, n) = {} THEN Empty ELSE f[Max(Saying(f, n))].value
SaidMode(f) == IF Said(f, "PROGRAM_MODE") \in ProgramModes
                 THEN Said(f, "PROGRAM_MODE") ELSE "generate-start-monitor"

(* The session does what its configuration says and no more: it generates,   *)
(* starts and monitors only in the modes README.md lists for that, whatever  *)
(* OPERATION_MODE says and whatever else the file holds, and only with all   *)
(* eight paths given and the three inputs there.                             *)
ConfigObeyed ==
  step # "idle" /\ ProperlySaid(cfgfile) =>
    /\ \A n \in PathKeys : Said(cfgfile, n) # Empty
    /\ \A n \in Preexisting : Said(cfgfile, n) # "absent"
    /\ step \in {"generate", "emit", "copy"} => HasGenerate(SaidMode(cfgfile))
    /\ step \in {"register", "reload", "enable", "reload_again", "attach",
                 "run", "started"} => HasRun(SaidMode(cfgfile))
    /\ config["OPERATION_MODE"] = "monitor" <=>
         SaidMode(cfgfile) \in {"generate-start-monitor", "start-monitor"}
=============================================================================
