----------------------------- MODULE MCManifest -----------------------------
(***************************************************************************)
(* Manifests for TLC: a database, a server that depends on it, a network   *)
(* the server joins and a job nobody depends on, in the combinations that  *)
(* tell the reader's cases apart.                                          *)
(***************************************************************************)
EXTENDS Manifest

Instance(name, command, mappings) ==
  [name |-> name, type |-> <<"service">>,
   unit_file_name |-> Front(name) \o << Last(name) \o ".service" >>,
   path |-> << >>, command |-> command, failure_behavior |-> "Restart",
   mapping_behavior |-> "Cascade", mappings |-> mappings]

Runs == << Line("command", <<"run">>) >>
Relation(keyword, after, before) ==
  [keyword |-> keyword, after |-> after, before |-> before]
After(peers) == Relation("depends_on", peers, << >>)
Before(peers) == Relation("depends_on", << >>, peers)

Job == Instance(<<"job">>, Runs, << >>)
Db == Instance(<<"db">>, Runs, <<Before(<< <<"web">> >>)>>)
Web == Instance(<<"web">>, Runs, <<After(<< <<"db">> >>)>>)
Net == Instance(<<"net">>, Runs, <<Relation("networks", << >>, << <<"web">> >>)>>)
OnNet == Instance(<<"web">>, Runs, <<Relation("networks", << <<"net">> >>, << >>)>>)
Script == Instance(<<"job">>, Runs \o << Line("text", <<"more">>) >>, << >>)

Generation(keywords, blueprints) ==
  [keywords |-> keywords, blueprints |-> blueprints]

Plain == { Generation(<<"depends_on">>, <<Job, Db, Web>>),
           Generation(<<"depends_on", "networks">>,
             << Net, Instance(<<"web">>, Runs, OnNet.mappings \o Web.mappings), Db >>),
           Generation(<< >>, <<Job>>),
           Generation(<< >>, << >>) }

(* Twice the same name, a peer that does not exist, a command of two lines,  *)
(* and a name of two words beside the two words as names                     *)
Odd == { Generation(<<"networks">>, <<Net, OnNet, OnNet>>),
         Generation(<<"depends_on">>, <<Job, Web>>),
         Generation(<<"depends_on">>, <<Script, Db, Web>>),
         Generation(<<"depends_on">>,
           << Instance(<<"db">>, Runs, << >>), Instance(<<"job">>, Runs, << >>),
              Instance(<<"db", "job">>, Runs, <<Before(<< <<"web">> >>)>>),
              Instance(<<"web">>, Runs, <<After(<< <<"db", "job">> >>)>>) >>) }

(* A name whose text ends with the keyword *)
MarkedNames == {"DB_INSTANCE"}
NamedLikeABlock ==
  { Generation(<<"depends_on">>,
      << Instance(<<"DB_INSTANCE">>, Runs, <<Before(<< <<"web">> >>)>>),
         Instance(<<"web">>, Runs, <<After(<< <<"DB_INSTANCE">> >>)>>) >>),
    Generation(<< >>, << Instance(<<"DB_INSTANCE">>, Runs, << >>) >>) }

Vocabulary ==
  {"db", "web", "net", "job", "DB_INSTANCE", "db.service", "web.service",
   "net.service", "job.service", "DB_INSTANCE.service", "service", "run", "more",
   "Restart", "Cascade", "depends_on", "networks"}

Various == Plain \cup Odd \cup NamedLikeABlock
=============================================================================
