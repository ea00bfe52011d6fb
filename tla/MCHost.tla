-------------------------------- MODULE MCHost --------------------------------
(***************************************************************************)
(* Three parts around the agent that share no state: its commands, its     *)
(* configuration and the end of its process.  One of them runs at a time,  *)
(* so that the states of the instance are those of each, side by side.     *)
(***************************************************************************)
EXTENDS SiteCustomize, Configuration, Shutdown, TLC

CONSTANTS c1, c2, c3
VARIABLE part

hostVars == <<part, siteVars, configVars, shutdownVars>>

Init ==
    /\ part \in {"commands", "configuration", "end of process"}
    /\ SiteInit /\ ConfigInit /\ ShutdownInit

Next ==
    /\ \/ /\ part = "commands" /\ SiteNext
          /\ UNCHANGED <<configVars, shutdownVars>>
       \/ /\ part = "configuration" /\ ConfigNext
          /\ UNCHANGED <<siteVars, shutdownVars>>
       \/ /\ part = "end of process" /\ ShutdownNext
          /\ UNCHANGED <<siteVars, configVars>>
    /\ UNCHANGED part

(* The two threads run on; a client need not send what it announced.       *)
Fairness ==
    /\ WF_hostVars(part = "end of process" /\ ServerStep
                   /\ UNCHANGED <<part, siteVars, configVars>>)
    /\ WF_hostVars(part = "end of process" /\ StopStep
                   /\ UNCHANGED <<part, siteVars, configVars>>)

Spec == Init /\ [][Next]_hostVars /\ Fairness

-----------------------------------------------------------------------------
Json == [kind |-> "json",
         items |-> << <<"port", Value("int", "1")>>, <<"debug", Value("str", "no")>>,
                      <<"__class__", Value("int", "1")>>,
                      <<"host", Value("str", "h")>> >>]
Yaml == [kind |-> "yaml",
         items |-> << <<"log-level", "no">>, <<"unknown", "~">>, <<"port", "8.5">>,
                      <<"log_level", "DEBUG">>, <<"__weakref__", "1">>,
                      <<"host", "h">> >>]
MCContents == {Absent, Unreadable, Json, Yaml}
MCEnvironments ==
    {<<>>} \cup [{"port"} -> {"2", "two"}]
    \cup [{"port", "debug", "host"} -> {"2", "maybe"}]
MCSnake == "log-level" :> "log_level"
MCNumbers == {"1", "2"}
=============================================================================
