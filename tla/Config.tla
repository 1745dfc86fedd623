--------------------------------- MODULE Config ---------------------------------
(***************************************************************************)
(* What a process is started with (internal/platform/config) and what it   *)
(* is started for (cmd/pilam/main.go and migrate.go): the variables of its *)
(* environment, and the command of its arguments.                          *)
(*                                                                         *)
(* A value of a variable is what its parser makes of the text: a record of *)
(* the parts the parser looks at, or Unread where the text is no value of  *)
(* that kind.  Blank is a variable that is unset, or set to nothing.       *)
(***************************************************************************)
EXTENDS Integers, FiniteSets

CONSTANTS
  Blank,        \* no text
  Unread,       \* a text that does not parse
  MinSecret,    \* the least length of a signing key
  Latest        \* the version of the last migration

(* One name for each field of Config.                                      *)
Variables == {"addr", "grace", "url", "dir", "secret", "ttl", "level", "format", "zone"}

URL(scheme, host, path) == [scheme |-> scheme, host |-> host, path |-> path]

(* The defaults; the key has none.                                         *)
Default ==
  [addr   |-> "host:port",  grace |-> 10,
   url    |-> URL("postgres", "localhost", "pilam"),
   dir    |-> [absolute |-> FALSE, path |-> "media"],
   ttl    |-> 168, level |-> "info", format |-> "text", zone |-> "Europe/Moscow"]

-----------------------------------------------------------------------------
(* The parsers: the values they refuse, and what they make of the others.  *)

(* parsePositiveTimeDuration.                                              *)
Positive(v) == v # Unread /\ v > 0

(* parsePostgresURL: the shape alone, without connecting.                  *)
Connectable(v) ==
  /\ v # Unread
  /\ v.scheme \in {"postgres", "postgresql"}
  /\ v.host # Blank /\ v.path # Blank

(* parseTimezone: the zone of the machine is no zone of the business.      *)
Explicit(v) == v # Unread /\ v # "Local"

(* parseLogFormat: the name in any case.                                   *)
Lowered(v) == CASE v = "TEXT" -> "text" [] v = "JSON" -> "json" [] OTHER -> v

KnownFormat(v) == Lowered(v) \in {"text", "json"}

LongEnough(v) == v.length >= MinSecret

Accepts(key, v) ==
  CASE key \in {"grace", "ttl"} -> Positive(v)
    [] key = "url"    -> Connectable(v)
    [] key = "zone"   -> Explicit(v)
    [] key = "format" -> KnownFormat(v)
    [] key = "secret" -> LongEnough(v)
    [] OTHER          -> v # Unread

(* parseDir resolves a relative path where the process was started.        *)
Resolved(v, cwd) ==
  IF v.absolute THEN v ELSE [absolute |-> TRUE, path |-> <<cwd, v.path>>]

Parsed(key, v, cwd) ==
  CASE key = "dir" -> Resolved(v, cwd) [] key = "format" -> Lowered(v) [] OTHER -> v

(* value: what is blank is the default, which goes through the parser too. *)
Raw(env, key) == IF env[key] = Blank THEN Default[key] ELSE env[key]

(* secret: a blank key is drawn, and is long enough.                       *)
Secret(env, drawn) ==
  IF env["secret"] = Blank THEN [length |-> MinSecret, bytes |-> drawn] ELSE env["secret"]

\* Mutant: loading stops at the first variable that does not parse.
RefusedFirst(env) ==
  LET bad == {key \in Variables : IF key = "secret" THEN env[key] # Blank /\ ~LongEnough(env[key])
                             ELSE ~Accepts(key, Raw(env, key))}
  IN  IF bad = {} THEN {} ELSE {CHOOSE key \in bad : TRUE}

(* err: every variable that was refused, in one error.                     *)
Refused(env) ==
  {key \in Variables : IF key = "secret" THEN env[key] # Blank /\ ~LongEnough(env[key])
                  ELSE ~Accepts(key, Raw(env, key))}

(* load: a configuration, or the error and nothing.                        *)
Load(env, drawn, cwd) ==
  IF Refused(env) # {} THEN [ok |-> FALSE, refused |-> Refused(env)]
  ELSE [ok |-> TRUE,
        config |-> [key \in Variables |-> IF key = "secret" THEN Secret(env, drawn)
                                     ELSE Parsed(key, Raw(env, key), cwd)],
        generated |-> env["secret"] = Blank]

-----------------------------------------------------------------------------
(* main: the commands, and what migrate makes of the version of a schema.  *)

Commands == {"serve", "migrate", "user", "seed"}

(* logging.New panics on a format the configuration should have refused.   *)
LoggerBuilt(format) == format \in {"text", "json"}

(* run: the configuration is read for a command there is, and the logger   *)
(* is installed before it starts.                                          *)
Run(args, env, drawn, cwd) ==
  IF args = <<>> \/ args[1] \notin Commands THEN [runs |-> {}, warned |-> FALSE]
  ELSE LET loaded == Load(env, drawn, cwd)
       IN  IF ~loaded.ok \/ ~LoggerBuilt(loaded.config["format"])
           THEN [runs |-> {}, warned |-> FALSE]
           ELSE [runs |-> {args[1]}, warned |-> loaded.generated]

(* migrateUp: every migration that is left, each in a transaction of its   *)
(* own (goose, external); the first that fails ends it where it stands.    *)
MigrateUp(version) ==
  {[ok |-> TRUE, version |-> Latest]} \cup
  {[ok |-> FALSE, version |-> reached] : reached \in version..Latest}

(* migrateDown: one migration, and none is no error.                       *)
MigrateDown(version) ==
  LET lower == IF version = 0 THEN 0 ELSE version - 1
  IN  {[ok |-> TRUE, version |-> lower]} \cup
      {[ok |-> FALSE, version |-> left] : left \in {lower, version}}

(* runMigrate, and all it may come to: without an action, up; status and   *)
(* version only report, if they can reach the database.                    *)
Migrate(args, version) ==
  LET action == IF args = <<>> THEN "up" ELSE args[1]
  IN  CASE action = "up"   -> MigrateUp(version)
        [] action = "down" -> MigrateDown(version)
        [] action \in {"status", "version"} -> [ok : BOOLEAN, version : {version}]
        [] OTHER -> {[ok |-> FALSE, version |-> version]}

-----------------------------------------------------------------------------
(* Properties.                                                             *)

(* Environments in which up to two variables are set, to any of their      *)
(* values: what is refused of one never depends on another.                *)
Environments(values) ==
  UNION {{[key \in Variables |-> IF key = a THEN v ELSE IF key = b THEN w ELSE Blank] :
            v \in values[a], w \in values[b]} : a, b \in Variables}

(* A process is given a configuration that its parts can be built from, or *)
(* is told of every variable that has to change, and of those only: once   *)
(* they are blank it starts.                                               *)
ToldOfAll(env) ==
  LET load(e) == Load(e, "drawn", "/srv")
  IN  /\ load(env).ok =>
           /\ load(env).config["grace"] > 0 /\ load(env).config["ttl"] > 0
           /\ load(env).config["secret"].length >= MinSecret
           /\ load(env).config["dir"].absolute /\ load(env).config["zone"] # "Local"
      /\ ~load(env).ok =>
           /\ \A key \in Variables :
                key \in load(env).refused <=>
                  ~load([other \in Variables |-> IF other = key THEN env[key] ELSE Blank]).ok
           /\ load([key \in Variables |-> IF key \in load(env).refused THEN Blank ELSE env[key]]).ok

(* A restart in the same environment keeps the sessions exactly where the  *)
(* key was set, and where it was not there is a warning; a command runs    *)
(* with a configuration that was loaded, and with no other.                *)
Restarts(env) ==
  LET first  == Load(env, "drawn", "/srv")
      second == Load(env, "drawn again", "/srv")
  IN  /\ first.ok =>
           (first.generated <=> first.config["secret"] # second.config["secret"])
      /\ \A command \in Commands :
           LET done == Run(<<command>>, env, "drawn", "/srv")
           IN  /\ done.runs = IF first.ok THEN {command} ELSE {}
               /\ done.warned <=> first.ok /\ env["secret"] = Blank

(* Each of these environments is one of them, and one that says nothing    *)
(* starts.                                                                 *)
LoadsWhole(values) ==
  /\ \A env \in Environments(values) : ToldOfAll(env) /\ Restarts(env)
  /\ Load([key \in Variables |-> Blank], "drawn", "/srv").ok

(* The schema is brought up from wherever it is, from where an earlier up  *)
(* or down failed too; up never takes it back, down takes back no more     *)
(* than one migration, and an action that is not known leaves it alone and *)
(* says so.                                                                *)
SchemaHolds ==
  \A version \in 0..Latest :
    /\ \A args \in {<<>>, <<"up">>, <<"down">>} :
         \A done \in Migrate(args, version) : \A up \in Migrate(<<>>, done.version) :
            /\ up.version \in done.version..Latest
            /\ up.ok => up.version = Latest
    /\ \A down \in Migrate(<<"down">>, version) :
         down.version \in {version, version - 1} /\ down.version >= 0
    /\ \A action \in {"status", "version", "sideways"} :
         \A done \in Migrate(<<action>>, version) : done.version = version
    /\ \A done \in Migrate(<<"sideways">>, version) : ~done.ok
=============================================================================
