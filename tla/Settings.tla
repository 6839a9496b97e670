------------------------------- MODULE Settings -------------------------------
(***************************************************************************)
(* Settings from files and variables (src/config): which sources exist, in *)
(* what order they are loaded, and how a struct is bound to the result.    *)
(*                                                                         *)
(* A disk is a function from the application's configuration files to      *)
(* their contents, and the content of a file a function from keys to       *)
(* values, or Broken.  Values that a field cannot parse are values like    *)
(* the others.                                                             *)
(***************************************************************************)
EXTENDS Integers, Sequences, FiniteSets, SequencesExt, TLC

CONSTANTS
  Dirs,      \* searchDirs: "." and "config"
  Profiles,  \* names of profiles; "" is none
  Keys,      \* configuration keys
  Values,    \* values of a key, as text
  KeyOf,     \* the key an environment variable is turned into
  Fields,    \* the keys a struct is bound to, in the order of its fields
  Default,   \* the default tag of each field
  Parses,    \* the values each field's type can parse
  Broken     \* a file that cannot be read or parsed

Extensions == <<"toml", "json">>
File == [dir : STRING, profile : Profiles, ext : {"toml", "json"}]
\* vars: the APP_ variables.
Environment == [app : Profiles, vengo : Profiles, dir : STRING, vars : UNION {[V -> Values] : V \in SUBSET DOMAIN KeyOf}]

ASSUME SettingsAssumption ==
  /\ "" \in Profiles
  /\ Fields \in Seq(Keys) /\ IsInjective(Fields)
  /\ Dirs \in Seq(STRING) /\ IsInjective(Dirs)
  /\ \A v, w \in DOMAIN KeyOf : KeyOf[v] = KeyOf[w] => v = w
  /\ DOMAIN Default = Range(Fields) /\ DOMAIN Parses = Range(Fields)
  /\ \A f \in Range(Fields) : Default[f] \in Parses[f]

\* APP_PROFILE before VENGO_PROFILE.
ActiveProfile(env) == IF env.app # "" THEN env.app ELSE env.vengo

\* VENGO_CONFIG_DIR replaces both directories.
SearchDirs(env) == IF env.dir # "" THEN <<env.dir>> ELSE Dirs

\* The first extension that exists in a directory hides the other.  A directory
\* that has no file contributes nothing.
Found(disk, dir, profile) ==
  LET Named(ext) == [dir |-> dir, profile |-> profile, ext |-> ext]
      present == {i \in DOMAIN Extensions : Named(Extensions[i]) \in DOMAIN disk}
  IN  IF present = {} THEN <<>> ELSE disk[Named(Extensions[Min(present)])]

Layer(disk, env, profile) == [i \in DOMAIN SearchDirs(env) |-> Found(disk, SearchDirs(env)[i], profile)]

\* EnvSource: a variable is lower-cased and its underscores become dots, so
\* that no variable becomes a key with a hyphen.
EnvSource(env) ==
  [k \in {KeyOf[v] : v \in DOMAIN env.vars} |-> env.vars[CHOOSE v \in DOMAIN env.vars : KeyOf[v] = k]]

\* DefaultSources, each as what its Load returns.
DefaultSources(disk, env) ==
  LET profile == ActiveProfile(env) IN
    Layer(disk, env, "") \o (IF profile = "" THEN <<>> ELSE Layer(disk, env, profile)) \o <<EnvSource(env)>>

\* Load: later sources override earlier ones; one that fails ends it.
Overridden(values, source) ==
  [k \in DOMAIN values \cup DOMAIN source |-> IF k \in DOMAIN source THEN source[k] ELSE values[k]]

Load(disk, env) ==
  LET sources == DefaultSources(disk, env) IN
    IF Broken \in Range(sources) THEN Broken
    ELSE FoldLeft(Overridden, <<>>, sources)

\* Bind: fields are set in order up to the first that does not parse; those
\* before it keep what they were set to.  Every field has a default tag, as all of
\* data.Config's have (a field without would keep its old value).
Raw(cfg, f) == IF f \in DOMAIN cfg THEN cfg[f] ELSE Default[f]
Bind(cfg, target) ==
  LET Set(i) == \A j \in 1..i : Raw(cfg, Fields[j]) \in Parses[Fields[j]]
  IN  [ok |-> Set(Len(Fields)),
       target |-> [f \in Range(Fields) |->
                     IF Set(CHOOSE i \in DOMAIN Fields : Fields[i] = f) THEN Raw(cfg, f) ELSE target[f]]]

-----------------------------------------------------------------------------
(* What the documentation promises of a key's value, without the order of  *)
(* the loading: the strongest of the places that set it.                   *)

\* A file counts if its directory is searched, its profile is active or it has
\* none, and no file of the preferred extension stands beside it.
Counts(disk, env, f) ==
  /\ f.dir \in Range(SearchDirs(env)) /\ f.profile \in {"", ActiveProfile(env)}
  /\ f.ext = "json" => [f EXCEPT !.ext = "toml"] \notin DOMAIN disk

Stronger(env, f, g) ==
  \/ f.profile # "" /\ g.profile = ""
  \/ /\ (f.profile = "") = (g.profile = "")
     /\ \E i, j \in DOMAIN SearchDirs(env) :
          i > j /\ SearchDirs(env)[i] = f.dir /\ SearchDirs(env)[j] = g.dir

Promised(disk, env, k) ==
  LET files == {f \in DOMAIN disk : Counts(disk, env, f) /\ k \in DOMAIN disk[f]} IN
    CASE \E v \in DOMAIN env.vars : KeyOf[v] = k ->
           env.vars[CHOOSE v \in DOMAIN env.vars : KeyOf[v] = k]
      [] (\A v \in DOMAIN env.vars : KeyOf[v] # k) /\ files # {} ->
           disk[CHOOSE f \in files : \A g \in files \ {f} : Stronger(env, f, g)][k]
      [] OTHER -> Default[k]
=============================================================================
