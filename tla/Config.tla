------------------------------- MODULE Config -------------------------------
(***************************************************************************)
(* How the two programs read their configuration: configreader.Do over the *)
(* Config of the server and of the agent.  Flags, then the environment; if *)
(* a flag names a JSON file, that file, and then both of them once more,   *)
(* because the file has the least priority and is known last.              *)
(*                                                                         *)
(* Of the options there are the ones that decide whether the two programs  *)
(* understand each other, and where the server keeps the metrics.  A value *)
(* is a string; which keys belong to one another is told by their names.   *)
(* The variable CONFIG names no file: its field is not exported, and the   *)
(* library that reads the environment passes over it.                      *)
(***************************************************************************)
EXTENDS Naturals, Sequences

Programs == {"server", "agent"}

Default ==
    [server |-> [Key |-> "", CryptoKey |-> "", DatabaseDSN |-> "",
                 FileStoragePath |-> "metrics.json"],
     agent  |-> [Key |-> "", CryptoKey |-> ""]]

CONSTANT
    Inputs          \* Inputs[p]: what p may be started with:
                    \*   flags, env, file: the options given by each, with their values
                    \*   path: the flag -c is given
                    \*   broken: which of the three cannot be read

ASSUME ConfigAssumption ==
    \A p \in Programs : \A i \in Inputs[p] :
        /\ \A given \in {i.flags, i.env, i.file} : DOMAIN given \subseteq DOMAIN Default[p]
        /\ i.path \in BOOLEAN
        /\ i.broken \subseteq {"flags", "env", "file"}

VARIABLES
    input,          \* input[p]: what p was started with
    config,         \* config[p]: the fields of p's Config
    read,           \* read[p]: how many steps of Do are done
    started         \* started[p]: "no", "ready" or "failed", main exits with 1

configVars == <<input, config, read, started>>

----------------------------------------------------------------------------
\* Mutant: after the file only the environment is read again.
PipelineEnvAgain == <<"flags", "env", "file", "env">>

Pipeline == <<"flags", "env", "file", "flags", "env">>

\* Do returns after the second step when JSONConfigPath is empty.
Steps(p) == IF input[p].path THEN Len(Pipeline) ELSE 2

ConfigInit ==
    /\ input \in [Programs -> UNION {Inputs[p] : p \in Programs}]
    /\ \A p \in Programs : input[p] \in Inputs[p]
    /\ config = Default
    /\ read = [p \in Programs |-> 0]
    /\ started = [p \in Programs |-> "no"]

Reading(p, source) == started[p] = "no" /\ Pipeline[read[p] + 1] = source

\* A step of Do puts what a source gives over what there is.
Takes(p, source, given) ==
    /\ Reading(p, source) /\ source \notin input[p].broken
    /\ config' = [config EXCEPT ![p] =
          [o \in DOMAIN @ |-> IF o \in DOMAIN given THEN given[o] ELSE @[o]]]
    /\ read' = [read EXCEPT ![p] = @ + 1]
    /\ started' = [started EXCEPT ![p] = IF read[p] + 1 = Steps(p) THEN "ready" ELSE "no"]
    /\ UNCHANGED input

ParseFlags(p) == Takes(p, "flags", input[p].flags)

\* A variable that is set to nothing is not given.
ReadEnv(p) ==
    Takes(p, "env", LET env == input[p].env
                    IN  [o \in {o \in DOMAIN env : env[o] # ""} |-> env[o]])

ReadJSONFile(p) == Takes(p, "file", input[p].file)

\* A source that cannot be read ends Do, and the program.
ReadFails(p) ==
    /\ \E source \in input[p].broken : Reading(p, source)
    /\ started' = [started EXCEPT ![p] = "failed"]
    /\ UNCHANGED <<input, config, read>>

Do(p) == ParseFlags(p) \/ ReadEnv(p) \/ ReadJSONFile(p) \/ ReadFails(p)

ConfigNext == \E p \in Programs : Do(p)

ConfigSpec == ConfigInit /\ [][ConfigNext]_configVars

----------------------------------------------------------------------------
ConfigTypeOK ==
    \A p \in Programs :
        /\ input[p] \in Inputs[p]
        /\ DOMAIN config[p] = DOMAIN Default[p]
        /\ read[p] \in 0 .. Steps(p)
        /\ started[p] \in {"no", "ready", "failed"}

\* When a program starts, each option has the value of the environment, else
\* of the flags, else of the file, else its default: reading the file between
\* two rounds neither undoes what was given nor is undone by what was not.
PriorityHolds ==
    \A p \in Programs : started[p] = "ready" =>
        \A o \in DOMAIN Default[p] :
            LET i      == input[p]
                inEnv  == o \in DOMAIN i.env /\ i.env[o] # ""
                inFile == i.path /\ o \in DOMAIN i.file
            IN  config[p][o] = IF inEnv THEN i.env[o]
                               ELSE IF o \in DOMAIN i.flags THEN i.flags[o]
                               ELSE IF inFile THEN i.file[o]
                               ELSE Default[p][o]
============================================================================
