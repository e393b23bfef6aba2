----------------------------- MODULE MCSessions -----------------------------
(***************************************************************************)
(* Sessions for TLC: a database and a server that depends on it, an input  *)
(* with both, one with the server's definition changed and a job instead,  *)
(* one of more units than can be tracked, one that is refused and one      *)
(* whose manifest the manager refuses.                                     *)
(***************************************************************************)
EXTENDS Sessions

Files == {"db", "web", "job"}
States == {"first", "second", "large", "cyclic", "dangling"}
Described == [v \in States |-> CASE v = "first"    -> <<"db", "web">>
                                 [] v = "second"   -> <<"web", "job">>
                                 [] v = "large"    -> <<"db", "web", "job">>
                                 [] v = "cyclic"   -> <<"db", "web">>
                                 [] v = "dangling" -> <<"web">>]
Related == [v \in States |-> IF v = "first"
                               THEN {<<"db", "web">>, <<"web", "db">>} ELSE {}]
Cyclic == {"cyclic"}
Dangling == {"dangling"}

Beginnings == [k \in {"", "L", "P"} |->
                 CASE k = ""  -> ToSet(Keys)
                   [] k = "L" -> {"LAUNCHER_SCRIPT", "LOG_DIRECTORY"}
                   [] k = "P" -> {"PROGRAM_MODE"}]

Entry(k, v) == [key |-> k, value |-> v, ended |-> TRUE]
Paths == [i \in 1 .. 8 |-> Entry(Keys[i], "there")]
Says(m) == <<Entry("PROGRAM_MODE", m)>>

Various ==
  { << >>, Front(Paths), Paths,
    Paths \o Says("generate"),
    Says("start") \o Paths \o <<Entry("OPERATION_MODE", "monitor")>>,
    Paths \o Says("generate") \o <<Entry("skipped", "")>> \o Says("generate-start"),
    Paths \o Says("start-monitor") \o <<Entry("OPERATION_MODES", "basic")>>,
    Paths \o Says("start") \o Says("genrate"),
    Paths \o <<Entry("VENV_DIRECTORY", "absent")>>,
    Says("start") \o Paths \o <<Entry("", ""), Entry("P", "generate")>>,
    Paths \o << [Entry("PROGRAM_MODE", "generate") EXCEPT !.ended = FALSE] >> }

Occurring == UNION {UNION {{l.key, l.value} : l \in ToSet(f)} : f \in Various}
=============================================================================
