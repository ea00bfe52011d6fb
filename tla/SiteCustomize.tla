---------------------------- MODULE SiteCustomize ----------------------------
(***************************************************************************)
(* attach and detach (cli.py): commands that keep the agent's hook in a    *)
(* sitecustomize.py, which they share with whoever else edits the file.    *)
(*                                                                         *)
(* A command looks for the file, reads it, empties it and writes it in     *)
(* separate steps and locks nothing, and it may die while it writes.  The  *)
(* file is a sequence of lines: "marker", "body" and "del" are the first   *)
(* line, the code and the last line of the hook, the others are the        *)
(* user's.                                                                 *)
(***************************************************************************)
EXTENDS Naturals, Sequences, Functions

CONSTANTS
    Commands,   \* the attach and detach commands that are ever run
    UserLines   \* bound: the lines that users write

(* What a user writes is none of the lines of the hook.                    *)
ASSUME SiteAssumption ==
    UserLines \cap {"marker", "body", "del", "no file"} = {}

VARIABLES
    file,      \* the lines of sitecustomize.py, or NoFile
    command,   \* command -> what it does and how far it is
    content,   \* command -> the lines it has read
    (* History: *)
    written,    \* the lines users have written
    exposed,    \* those nobody can answer for, see UserLinesSurvive
    overlapped  \* a write went over what another had put into the file

siteHistory == <<written, exposed, overlapped>>
siteVars == <<file, command, content, siteHistory>>

Hook == <<"marker", "body", "del">>
NoFile == <<"no file">>
HasMarker(lines) == "marker" \in Range(lines)

Idle == [does |-> "nothing", at |-> "done"]

SiteInit ==
    /\ file = NoFile
    /\ command = [c \in Commands |-> Idle]
    /\ content = [c \in Commands |-> <<>>]
    /\ written = {}
    /\ exposed = {}
    /\ overlapped = FALSE

Busy == { c \in Commands : command[c].at # "done" }
Doing(c, does, at) == command[c] = [does |-> does, at |-> at]
Proceed(c, at) == command' = [command EXCEPT ![c].at = at]

(* The end of the lines belongs to a hook that has lost its last line.     *)
Torn(lines) ==
    \E i \in DOMAIN lines : /\ lines[i] = "marker"
                            /\ \A j \in i..Len(lines) : lines[j] # "del"

-----------------------------------------------------------------------------
(* Mutant: the last line of the hook ends the skipping and is kept.        *)
KeepLast(kept, line) ==
    IF line = "marker" THEN [kept EXCEPT !.skip = TRUE]
    ELSE IF kept.skip /\ line # "del" THEN kept
    ELSE [skip |-> FALSE, lines |-> Append(kept.lines, line)]

(* Mutant: the skipping never ends.                                        *)
KeepNone(kept, line) ==
    IF line = "marker" \/ kept.skip THEN [kept EXCEPT !.skip = TRUE]
    ELSE [kept EXCEPT !.lines = Append(@, line)]

(* The loop of detach over the lines: a hook is skipped from its marker to *)
(* its last line, or to the end of the file where that is missing.         *)
Keep(kept, line) ==
    IF line = "marker" THEN [kept EXCEPT !.skip = TRUE]
    ELSE IF kept.skip THEN [kept EXCEPT !.skip = (line # "del")]
    ELSE [kept EXCEPT !.lines = Append(@, line)]

Kept(lines) ==
    LET kept[n \in 0..Len(lines)] ==
            IF n = 0 THEN [skip |-> FALSE, lines |-> <<>>]
            ELSE Keep(kept[n - 1], lines[n])
    IN  kept[Len(lines)].lines

Invoke(c, does) ==
    /\ command[c] = Idle
    /\ command' = [command EXCEPT ![c] = [does |-> does, at |-> "look"]]
    /\ UNCHANGED <<file, content, siteHistory>>

(* The file is there, and is read next; attach writes a new one if not.    *)
Look(c) ==
    /\ command[c].at = "look"
    /\ Proceed(c, IF file # NoFile THEN "read"
               ELSE IF command[c].does = "attach" THEN "create" ELSE "done")
    /\ UNCHANGED <<file, content, siteHistory>>

(* What a command is about to write into the file it has emptied, and the  *)
(* lines that detaches are about to write back.                            *)
InHand(c) ==
    IF command[c].does = "attach" THEN Hook ELSE Kept(content[c])

InHands == UNION { Range(InHand(c)) : c \in
                     { d \in Commands : Doing(d, "detach", "emptied") } }

(* Whether the marker is there decides what is left to do; a file that is  *)
(* gone by now is an error.  What another detach has in hand just then     *)
(* does not come before this one's eyes.                                   *)
Read(c) ==
    /\ command[c].at = "read"
    /\ content' = [content EXCEPT ![c] = IF file = NoFile THEN <<>> ELSE file]
    /\ IF file = NoFile \/ (HasMarker(file) <=> command[c].does = "attach")
       THEN Proceed(c, "done") /\ UNCHANGED exposed
       ELSE /\ Proceed(c, "write")
            /\ exposed' = exposed \cup
                  IF command[c].does = "attach" THEN {}
                  ELSE InHands \ Range(Kept(file))
    /\ UNCHANGED <<file, written, overlapped>>

(* What a write leaves: all of it, or what was out when the command died.  *)
Written(lines) == { SubSeq(lines, 1, n) : n \in 0..Len(lines) }

(* Lines written from the beginning of a file that has others by now: they *)
(* go over a part of these.                                                *)
Over(lines, under) ==
    { lines \o SubSeq(under, k, Len(under)) : k \in 1..(Len(under) + 1) }

(* write_text opens the file: a new one of attach, or what detach has to   *)
(* put back.  It is empty until write_text closes it.                      *)
EmptyFile(c) ==
    /\ \/ Doing(c, "attach", "create")
       \/ Doing(c, "detach", "write") /\ Kept(content[c]) # <<>>
    /\ file' = <<>>
    /\ Proceed(c, "emptied")
    /\ UNCHANGED <<content, siteHistory>>

CloseFile(c) ==
    /\ command[c].at = "emptied"
    /\ \E lines \in Written(InHand(c)) :
          /\ file' \in IF lines = <<>> THEN {file} ELSE Over(lines, file)
          /\ exposed' = exposed \cup (Range(InHand(c)) \ Range(lines))
    /\ overlapped' = (overlapped \/ file # <<>>)
    /\ Proceed(c, "done")
    /\ UNCHANGED <<content, written>>

(* The file was removed in the meantime: what is written goes with it.     *)
CloseRemoved(c) ==
    /\ command[c].at = "removed"
    /\ Proceed(c, "done")
    /\ UNCHANGED <<file, content, siteHistory>>

(* attach adds its hook behind whatever is there.                          *)
AppendHook(c) ==
    /\ Doing(c, "attach", "write")
    /\ \E lines \in Written(Hook) :
          file' = (IF file = NoFile THEN <<>> ELSE file) \o lines
    /\ Proceed(c, "done")
    /\ UNCHANGED <<content, siteHistory>>

(* A file of which nothing is left is removed, also from under those that  *)
(* have it open.                                                           *)
Unlink(c) ==
    /\ Doing(c, "detach", "write") /\ Kept(content[c]) = <<>>
    /\ file' = NoFile
    /\ command' = [d \in Commands |->
          [command[d] EXCEPT !.at = IF d = c THEN "done"
                                    ELSE IF @ = "emptied" THEN "removed" ELSE @]]
    /\ UNCHANGED <<content, siteHistory>>

(* A user adds a line at the end, while commands may be running.           *)
Edit(line) ==
    /\ line \notin written
    /\ file' = Append(IF file = NoFile THEN <<>> ELSE file, line)
    /\ written' = written \cup {line}
    /\ exposed' = IF Busy # {} \/ (file # NoFile /\ Torn(file))
                  THEN exposed \cup {line} ELSE exposed
    /\ UNCHANGED <<command, content, overlapped>>

SiteNext ==
    \/ \E c \in Commands : \/ \E does \in {"attach", "detach"} : Invoke(c, does)
                           \/ Look(c) \/ Read(c)
                           \/ EmptyFile(c) \/ CloseFile(c) \/ CloseRemoved(c)
                           \/ AppendHook(c) \/ Unlink(c)
    \/ \E line \in UserLines : Edit(line)

SiteSpec == SiteInit /\ [][SiteNext]_siteVars

-----------------------------------------------------------------------------
(* No command loses a line of the user's but one that was written while a  *)
(* command was running or behind a torn hook, those that a detach had yet  *)
(* to write back when it died, and those that another detach had in hand   *)
(* when one read the file.  While a detach has the file emptied, the lines *)
(* are in its hand.                                                        *)
UserLinesSurvive ==
    written \ exposed \subseteq Range(file) \cup InHands

(* Unless a write has gone over what another command or a user had put     *)
(* into the emptied file, nothing of a hook stands in it without its       *)
(* marker: a "del" by itself would fail every start of the interpreter,    *)
(* and no detach would ever find it.                                       *)
HooksAreWhole ==
    (file # NoFile /\ ~overlapped) =>
        \A i \in DOMAIN file : file[i] \in {"body", "del"} =>
            Torn(SubSeq(file, 1, i - 1))
=============================================================================
