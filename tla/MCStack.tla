------------------------------- MODULE MCStack -------------------------------
(* Small instances of Stack: the template's order of modules and others, with  *)
(* the settings in one or several places.                                      *)
EXTENDS Stack

MCDirs     == <<".", "config">>
MCKeys     == {Driver, Dsn, Conns, Slow, "database.max.open.conns"}
MCValues   == {"", "sqlite", "postgres", "db2", "a", "b", "0", "1", "-1", "many"}
MCKeyOf    == "APP_DATABASE_DSN" :> Dsn @@ "APP_DATABASE_MAX_OPEN_CONNS" :> "database.max.open.conns"
MCFields   == <<Driver, Dsn, Conns, Slow>>
MCDefault  == Driver :> "" @@ Dsn :> "" @@ Conns :> "0" @@ Slow :> "0"
MCParses   == Driver :> MCValues @@ Dsn :> MCValues @@ Conns :> {"0", "1", "-1"} @@ Slow :> {"0", "1"}
MCNumber   == "0" :> 0 @@ "1" :> 1 @@ "-1" :> -1
MCDialects == "sqlite" :> "sqlite" @@ "postgres" :> "postgres"

On(dir, profile, ext) == [dir |-> dir, profile |-> profile, ext |-> ext]
Base == Driver :> "sqlite" @@ Dsn :> "a" @@ Conns :> "1"

\* One file; the next attempt's settings, without a dsn; a file for each directory
\* and extension; a profile; an unknown driver; a value no field can hold.
Simple  == On(".", "", "toml") :> Base
NoDsn   == On(".", "", "toml") :> (Driver :> "postgres" @@ Conns :> "-1") @@ On(".", "", "json") :> (Dsn :> "b")
TwoDirs == On(".", "", "json") :> Base @@ On("config", "", "toml") :> (Dsn :> "b" @@ Slow :> "1" @@ Conns :> "-1")
Profile == On(".", "", "toml") :> Base @@ On("config", "", "toml") :> (Dsn :> "b")
             @@ On(".", "prod", "json") :> (Driver :> "postgres" @@ Dsn :> "a")
Unknown == On(".", "", "toml") :> (Driver :> "db2" @@ Dsn :> "a")
Many    == On(".", "", "toml") :> Base @@ On("config", "", "toml") :> (Slow :> "many")
Torn    == On(".", "", "toml") :> Broken
AllDisks == {Simple, NoDsn, TwoDirs, Profile, Unknown, Many, Torn}

Plain == [app |-> "", vengo |-> "", dir |-> "", vars |-> <<>>]
Prod  == [app |-> "prod", vengo |-> "test", dir |-> "",
          vars |-> "APP_DATABASE_DSN" :> "b" @@ "APP_DATABASE_MAX_OPEN_CONNS" :> "1"]
Moved == [app |-> "", vengo |-> "prod", dir |-> "config", vars |-> <<>>]
InDot == [app |-> "", vengo |-> "prod", dir |-> ".", vars |-> <<>>]

Usual == [order |-> <<"data", "web", "user">>, withDB |-> FALSE, migrations |-> TRUE, env |-> Plain,
          auto |-> <<>>, late |-> FALSE, indicators |-> <<>>]
IsMissing(n) == [name |-> n, guarded |-> TRUE]
Always(n)    == [name |-> n, guarded |-> FALSE]
Probed == [Usual EXCEPT !.env = Prod, !.order = <<"data", "web", "health">>,
  !.indicators = <<[probe |-> "plain", db |-> TRUE], [probe |-> "liveness", db |-> FALSE]>>]
\* The order of the modules in the project template.
Template == [Usual EXCEPT !.env = InDot, !.order = <<"web", "health", "data">>,
  !.indicators = <<[probe |-> "readiness", db |-> TRUE], [probe |-> "both", db |-> FALSE]>>]
Given == [Usual EXCEPT !.env = Moved, !.withDB = TRUE, !.order = <<"data", "web", "info">>]
Idle  == { [Usual EXCEPT !.order = <<"data">>, !.auto = <<IsMissing("data.dialect")>>],
           [Usual EXCEPT !.order = <<"web", "info">>, !.auto = <<IsMissing("data.db"), Always("cache")>>],
           [Usual EXCEPT !.order = <<"data">>, !.late = TRUE, !.auto = <<IsMissing("data.db"), Always(None)>>],
           [Usual EXCEPT !.order = <<"info", "web">>],
           [Usual EXCEPT !.order = <<"web", "data", "web">>] }
Loads == {[Usual EXCEPT !.order = <<"data", "user">>, !.env = e] : e \in {Plain, Prod, Moved, InDot}}
MCApplications == {Usual, Probed, Template, Given} \cup Idle \cup Loads
MCDisks == [a \in MCApplications |->
              CASE a = Usual -> {Simple}
                [] a \in Loads -> AllDisks
                [] a = Probed -> {Profile, NoDsn}
                [] a = Template -> {Profile, TwoDirs}
                [] a = Given -> {Profile, TwoDirs}
                [] OTHER -> {Simple, TwoDirs}]
MCFaults == [a \in MCApplications |-> IF a = Usual THEN 2 ELSE 1]
Symmetry == Permutations(Workers)
MCLinked == {"sqlite", "postgres"}
MCProfiles == {"", "prod", "test"}
=============================================================================
