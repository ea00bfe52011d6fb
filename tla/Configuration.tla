---------------------------- MODULE Configuration ----------------------------
(***************************************************************************)
(* AgentConfig.load (config.py): defaults, then at most one file, then the *)
(* environment, where what cannot be read is skipped without an error.     *)
(*                                                                         *)
(* A value is a record of its type and its text.  A file holds, in order,  *)
(* its keys and their values, which the parser of the format has typed.    *)
(***************************************************************************)
EXTENDS Naturals, Sequences, Functions

CONSTANTS
    Contents,      \* what a file may be, see Absent and Unreadable
    Environments,  \* functions from settings to the texts of CHAOSBLADE_*
    DefaultPaths,  \* how many files _default_config_paths names
    Snake,         \* key -> the key with its dashes as underscores
    Numbers,       \* the texts int() accepts
    Decimals       \* the texts float() accepts and int() does not

VARIABLES
    config,    \* setting -> value
    loading,   \* how far load() is
    sources,   \* the files and the environment it finds
    rest       \* what is left of the file it applies

configVars == <<config, loading, sources, rest>>

Value(type, text) == [type |-> type, text |-> text]
Absent == [kind |-> "absent"]
Unreadable == [kind |-> "unreadable"]

Defaults ==
    [host |-> Value("str", "127.0.0.1"), port |-> Value("int", "9526"),
     debug |-> Value("bool", "False"), log_level |-> Value("str", "INFO"),
     plugins_enabled |-> Value("bool", "True"),
     max_experiments |-> Value("int", "100"),
     injection_enabled |-> Value("bool", "True")]

Settings == DOMAIN Defaults

(* What a file holds is a sequence.                                        *)
ASSUME ConfigurationAssumption ==
    /\ DefaultPaths \in Nat
    /\ \A f \in Contents \ {Absent, Unreadable} : f.items \in Seq(Range(f.items))

(* A key that names no setting is passed over, but these name what every   *)
(* object has, and assigning a number or a text to them raises.            *)
Attribute(key) == IF key \in DOMAIN Snake THEN Snake[key] ELSE key
Raises(key) == Attribute(key) \in {"__class__", "__dict__", "__weakref__"}

-----------------------------------------------------------------------------
(* The type of a value in a YAML file, quoted or not.                      *)
YamlValue(text) ==
    CASE text \in {"true", "yes"}        -> Value("bool", "True")
      [] text \in {"false", "no"}        -> Value("bool", "False")
      [] text \in {"null", "none", "~"}  -> Value("NoneType", "None")
      [] text \in Numbers                -> Value("int", text)
      [] text \in Decimals               -> Value("float", text)
      [] OTHER                           -> Value("str", text)

Items(content) ==
    IF content.kind # "yaml" THEN content.items
    ELSE [i \in DOMAIN content.items |->
             <<content.items[i][1], YamlValue(content.items[i][2])>>]

(* The values a variable of the environment may give: none if it does not  *)
(* parse, which no text fails to do as a Boolean.                          *)
ParseBool(text) ==
    Value("bool", IF text \in {"true", "1", "yes", "on"} THEN "True" ELSE "False")

FromEnvironment(setting, text) ==
    CASE Defaults[setting].type = "bool" -> {ParseBool(text)}
      [] Defaults[setting].type = "int"  ->
            IF text \in Numbers THEN {Value("int", text)} ELSE {}
      [] Defaults[setting].type = "str"  -> {Value("str", text)}

-----------------------------------------------------------------------------
ConfigInit ==
    /\ config = Defaults
    /\ loading = "called"
    /\ sources = [files |-> <<>>, env |-> <<>>]
    /\ rest = <<>>

(* Mutant: the first file that can be read is used.                        *)
UsedReadable(files) ==
    { i \in DOMAIN files : /\ files[i] \notin {Absent, Unreadable}
                           /\ \A j \in 1..(i - 1) :
                                 files[j] \in {Absent, Unreadable} }

(* The file that is used: the first that exists.  A path that is given     *)
(* stands alone.                                                           *)
Used(files) ==
    { i \in DOMAIN files : /\ files[i] # Absent
                           /\ \A j \in 1..(i - 1) : files[j] = Absent }

Parsed(files) ==
    IF \E i \in Used(files) : files[i] # Unreadable
    THEN Items(files[CHOOSE i \in Used(files) : TRUE]) ELSE <<>>

OpenFile ==
    /\ loading = "called"
    /\ loading' = "file"
    /\ \E n \in {1, DefaultPaths} : \E files \in [1..n -> Contents] :
          \E env \in Environments :
             /\ sources' = [files |-> files, env |-> env]
             /\ rest' = Parsed(files)
    /\ UNCHANGED config

(* One key of the file; one that raises ends the file, and what it has     *)
(* given so far stays.                                                     *)
ApplyItem ==
    /\ loading = "file" /\ rest # <<>>
    /\ LET key == Head(rest)[1]
       IN  /\ rest' = IF Raises(key) THEN <<>> ELSE Tail(rest)
           /\ config' = IF Attribute(key) \in Settings
                        THEN [config EXCEPT ![Attribute(key)] = Head(rest)[2]]
                        ELSE config
    /\ UNCHANGED <<loading, sources>>

LoadFromEnv ==
    /\ loading = "file" /\ rest = <<>>
    /\ loading' = "done"
    /\ config' = [s \in Settings |->
          IF s \in DOMAIN sources.env /\ FromEnvironment(s, sources.env[s]) # {}
          THEN CHOOSE v \in FromEnvironment(s, sources.env[s]) : TRUE
          ELSE config[s]]
    /\ UNCHANGED <<sources, rest>>

ConfigNext == OpenFile \/ ApplyItem \/ LoadFromEnv

ConfigSpec == ConfigInit /\ [][ConfigNext]_configVars

-----------------------------------------------------------------------------
(* What the file says of a setting: the values of the keys that name it,   *)
(* as long as no key before them raises.                                   *)
SaidBy(items, setting) ==
    { items[i][2] : i \in { n \in DOMAIN items :
        /\ Attribute(items[n][1]) = setting
        /\ \A m \in 1..n : ~Raises(items[m][1])
        /\ \A m \in (n + 1)..Len(items) :
              Attribute(items[m][1]) = setting =>
              \E k \in n..m : Raises(items[k][1]) } }

(* Environment over file over default, setting by setting: a variable that *)
(* does not parse gives way to the file and not to the default, and only   *)
(* the first file there is counts, be it broken from some key on or as a   *)
(* whole.                                                                  *)
PrecedenceHolds ==
    loading = "done" =>
        \A s \in Settings :
            LET env  == IF s \in DOMAIN sources.env
                        THEN FromEnvironment(s, sources.env[s]) ELSE {}
                first == { sources.files[i] : i \in
                             { n \in DOMAIN sources.files :
                                 \A m \in 1..n : m = n \/ sources.files[m] = Absent } }
                              \ {Absent, Unreadable}
                file == UNION { SaidBy(Items(f), s) : f \in first }
            IN  {config[s]} = IF env # {} THEN env
                              ELSE IF file # {} THEN file ELSE {Defaults[s]}
=============================================================================
