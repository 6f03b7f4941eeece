--------------------------- MODULE Configuration ----------------------------
(***************************************************************************)
(* The configuration file of the controller and how it is loaded and       *)
(* reloaded: controller/internal/config/config.go and watcher.go, with     *)
(* main's wiring of the watcher (controller/cmd/controller/main.go).       *)
(*                                                                         *)
(* A content of the file is a record of what loading looks at:             *)
(*   parses         whether it is YAML of the right shape                  *)
(*   variables      the environment variables it needs and has no default  *)
(*                  for                                                    *)
(*   rules          its adaptive metrics, a sequence of [name, direction,  *)
(*                  min_value]                                             *)
(*   podBundle, serviceBundle                                              *)
(*                  the queries of the two enrichment bundles              *)
(*   maxConcurrent  enrichment.max_concurrent, 0 if it is left out         *)
(* The modification time of the file is the number of the write, which the *)
(* program compares but never shows: every write is taken to be later than *)
(* the one before.                                                         *)
(***************************************************************************)
EXTENDS Integers, Sequences, FiniteSets

CONSTANTS
    Contents,     \* contents an operator may write
    Environment,  \* the variables that are set
    MaxWrites     \* bound of the model: writes of the file

ASSUME WritesAssumption == MaxWrites \in Nat \ {0}

\* Rules form a list and floors are numbers.  A negative maxConcurrent, which loads
\* and makes the engine's make(chan, n) panic, is left out.
ASSUME ContentsAssumption ==
    \A c \in Contents :
        /\ c = [parses |-> c.parses, variables |-> c.variables, rules |-> c.rules,
                podBundle |-> c.podBundle, serviceBundle |-> c.serviceBundle,
                maxConcurrent |-> c.maxConcurrent]
        /\ c.maxConcurrent \in Nat
        /\ c.rules \in Seq({c.rules[r] : r \in DOMAIN c.rules})
        /\ \A r \in DOMAIN c.rules : c.rules[r].min_value \in Int

VARIABLES
    file,      \* [content, mtime]
    process,   \* "loading", "wiring" (between Load and NewWatcher) or "running"
    cfg,       \* the pointer main, the callback and the cycle loop share
    lastMod,   \* the watcher's
    wpc,       \* check: "idle", "load", "apply" or "assign"
    statted,   \* the modification time check has seen
    loaded     \* the configuration check has loaded

watcherVars == <<lastMod, wpc, statted, loaded>>
configVars == <<file, process, cfg, watcherVars>>

-----------------------------------------------------------------------------
(* Load *)

\* Faulty variant: every combination of rules is accepted.
ValidAlways(content) == TRUE

\* validate: a floor would swallow what a down_bad rule is there to find.
Valid(content) ==
    \A r \in DOMAIN content.rules :
        ~(content.rules[r].min_value > 0 /\ content.rules[r].direction = "down_bad")

\* expandEnv finds every variable.
Expands(content) == content.variables \subseteq Environment

Loads(content) == Expands(content) /\ content.parses /\ Valid(content)

\* Faulty variant: no default for the number of concurrent queries.
WithoutDefaults(content) == content

\* setDefaults
WithDefaults(content) ==
    IF content.maxConcurrent = 0 THEN [content EXCEPT !.maxConcurrent = 5] ELSE content

\* What Load returns, with the write it comes from.
Config == [content |-> WithDefaults(file.content), version |-> file.mtime]

Named(content, name) == {r \in DOMAIN content.rules : content.rules[r].name = name}

\* The last of a set of indexes, the one that stays in a map filled in a loop.
Last(S) == CHOOSE r \in S : \A q \in S : q <= r

\* DirectionMap; a rule without a direction has no entry and counts as both_bad.
Direction(content, name) ==
    LET given == {r \in Named(content, name) : content.rules[r].direction # ""}
    IN  IF given = {} THEN "both_bad" ELSE content.rules[Last(given)].direction

\* FloorMap; no entry means no floor.
Floor(content, name) ==
    LET given == {r \in Named(content, name) : content.rules[r].min_value > 0}
    IN  IF given = {} THEN 0 ELSE content.rules[Last(given)].min_value

-----------------------------------------------------------------------------
(* The file, the process and its watcher *)

None == [version |-> 0]

ConfigInit ==
    /\ file \in [content : Contents, mtime : {1}]
    /\ process = "loading"
    /\ cfg = None /\ loaded = None
    /\ lastMod = 0 /\ statted = 0
    /\ wpc = "idle"

Write ==
    /\ file.mtime < MaxWrites
    /\ file' \in [content : Contents, mtime : {file.mtime + 1}]
    /\ UNCHANGED <<process, cfg, watcherVars>>

\* main loads the configuration.
LoadInitial ==
    /\ process = "loading"
    /\ Loads(file.content)
    /\ cfg' = Config
    /\ process' = "wiring"
    /\ UNCHANGED <<file, watcherVars>>

\* It does not load: main exits and is started again.
LoadInitialFails ==
    /\ process = "loading"
    /\ ~Loads(file.content)
    /\ UNCHANGED configVars

\* NewWatcher looks at the file again, after Redis, gRPC and ML were connected.
NewWatcher ==
    /\ process = "wiring"
    /\ process' = "running"
    /\ lastMod' = file.mtime
    /\ UNCHANGED <<file, cfg, wpc, statted, loaded>>

\* check starts: a tick of the watcher.
Stat ==
    /\ process = "running"
    /\ wpc = "idle"
    /\ file.mtime > lastMod
    /\ statted' = file.mtime
    /\ wpc' = "load"
    /\ UNCHANGED <<file, process, cfg, lastMod, loaded>>

\* A file that does not load leaves everything as it is: the next tick tries again.
Load ==
    /\ wpc = "load"
    /\ IF Loads(file.content)
       THEN loaded' = Config /\ wpc' = "apply" /\ UNCHANGED statted
       ELSE wpc' = "idle" /\ statted' = 0 /\ UNCHANGED loaded
    /\ UNCHANGED <<file, process, cfg, lastMod>>

\* Faulty variant: the time of the file as it is now.
ApplyNow ==
    /\ wpc = "apply"
    /\ lastMod' = file.mtime
    /\ wpc' = "assign"
    /\ UNCHANGED <<file, process, cfg, statted, loaded>>

\* Under its lock the watcher takes the time it saw before it loaded.
Apply ==
    /\ wpc = "apply"
    /\ lastMod' = statted
    /\ wpc' = "assign"
    /\ UNCHANGED <<file, process, cfg, statted, loaded>>

\* onChange: main's callback overwrites the pointer, without a lock.  The write of
\* one word is seen whole; when it is seen is when this step happens.
Assign ==
    /\ wpc = "assign"
    /\ cfg' = loaded
    /\ loaded' = None /\ statted' = 0
    /\ wpc' = "idle"
    /\ UNCHANGED <<file, process, lastMod>>

Check == Stat \/ Load \/ Apply \/ Assign

\* The process ends, whatever it was doing, and is started again.
Restart ==
    /\ process # "loading"
    /\ process' = "loading"
    /\ cfg' = None /\ loaded' = None
    /\ lastMod' = 0 /\ statted' = 0
    /\ wpc' = "idle"
    /\ UNCHANGED file

ConfigTypeOK ==
    /\ file \in [content : Contents, mtime : 1 .. MaxWrites]
    /\ process \in {"loading", "wiring", "running"}
    /\ cfg.version \in 0 .. file.mtime /\ loaded.version \in 0 .. file.mtime
    /\ lastMod \in 0 .. file.mtime /\ statted \in 0 .. file.mtime
    /\ wpc \in {"idle", "load", "apply", "assign"}
=============================================================================
