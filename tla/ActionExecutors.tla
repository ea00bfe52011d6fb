--------------------------- MODULE ActionExecutors ---------------------------
(***************************************************************************)
(* What the three action executors do to a call, given the flags of the    *)
(* experiment: the set of effects an execution may have (executor/).       *)
(*                                                                         *)
(* An effect is a record of how it ends and of what it carries: "idle" and *)
(* "held" let the original proceed, at once or after so many milliseconds; *)
(* "return" and "throw" interrupt the call with a value or an exception    *)
(* class; "fails" is an error of the executor itself.                      *)
(***************************************************************************)
EXTENDS Matching, TLC

CONSTANTS
    Floats,      \* the texts float() accepts and int() does not
    Documents,   \* the texts that begin with { or [ and are valid JSON
    Importable,  \* qualified name -> the exception class it names
    Unloadable,  \* qualified names whose module raises no ImportError
    Builtins,    \* exception classes of builtins that the table lacks
    Picky,       \* classes whose constructor rejects a single message
    Demanding,   \* classes whose constructor rejects no argument at all
    LongestSleep \* bound: time.sleep() raises OverflowError above it

Effect(kind, type, of) == [kind |-> kind, type |-> type, of |-> of]
Fails == Effect("fails", "error", "")

(* int() of a flag; 0 where it is missing or no number.                    *)
Milliseconds(flags, key) ==
    IF key \in DOMAIN flags /\ flags[key] \in DOMAIN IntOf
    THEN IntOf[flags[key]] ELSE 0

Sleep(ms) ==
    IF ms <= 0 THEN Effect("idle", "ms", "")
    ELSE IF ms > LongestSleep THEN Fails
    ELSE Effect("held", "ms", ToString(ms))

Delay(flags) ==
    LET offset == Milliseconds(flags, "offset")
        jitter == IF offset > 0 THEN 0..offset ELSE {0}
    IN  { Sleep(Milliseconds(flags, "time") + j) : j \in jitter }

-----------------------------------------------------------------------------
(* The value a text stands for, in the order the executor tries.           *)
ParseValue(raw) ==
    CASE Fold(raw) \in {"null", "none"} -> Effect("return", "none", "")
      [] Fold(raw) = "true"       -> Effect("return", "bool", "True")
      [] Fold(raw) = "false"      -> Effect("return", "bool", "False")
      [] raw \in DOMAIN IntOf     -> Effect("return", "int", ToString(IntOf[raw]))
      [] raw \in Floats           -> Effect("return", "float", raw)
      [] raw \in Documents        -> Effect("return", "json", raw)
      [] OTHER                    -> Effect("return", "text", raw)

ReturnValue(flags) ==
    {IF "return-value" \in DOMAIN flags THEN ParseValue(flags["return-value"])
     ELSE Effect("return", "none", "")}

-----------------------------------------------------------------------------
Table ==
    {"Exception", "RuntimeError", "ValueError", "TypeError", "OSError",
     "TimeoutError", "ConnectionError", "ConnectionRefusedError",
     "ConnectionResetError", "FileNotFoundError", "PermissionError",
     "MemoryError", "KeyError", "AttributeError", "ImportError",
     "NotImplementedError"}

(* IOError is OSError; a name nothing knows is a RuntimeError.             *)
ResolveExceptionClass(name) ==
    CASE name \in Table \cup Builtins -> name
      [] name = "IOError"             -> "OSError"
      [] name \in DOMAIN Importable   -> Importable[name]
      [] OTHER                        -> "RuntimeError"

ThrowException(flags) ==
    LET name    == IF Has(flags, "exception") THEN flags.exception
                   ELSE "RuntimeError"
        message == Has(flags, "exception-message") \/ ~Has(flags, "exception")
        class   == ResolveExceptionClass(name)
        cannot  == IF message THEN Picky ELSE Demanding
    IN  IF name \in Unloadable THEN {Fails}
        ELSE {Effect("throw", "class",
                     IF class \in cannot THEN "RuntimeError" ELSE class)}

(* get_action_executor().run(), by the canonical name of the action.       *)
Run(action, flags) ==
    CASE action = "delay"                -> Delay(flags)
      [] action = "returnValue"          -> ReturnValue(flags)
      [] action = "throwCustomException" -> ThrowException(flags)
=============================================================================
