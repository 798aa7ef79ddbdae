------------------------------ MODULE StartUp -------------------------------
(***************************************************************************)
(* The start of neroshop's programs: create_config and load_config around  *)
(* the one file config.lua, from main.cpp.  Programs is the set of         *)
(* programs a user may have running at once; they share the file and       *)
(* nothing else.                                                           *)
(***************************************************************************)
CONSTANT Programs

VARIABLES
  cfg,     \* config.lua: "none"; "broken", empty or cut short, which gives no
           \* valid network type; "usable"
  lua,     \* lua[p]: the settings in p's Lua state: "unset", from the built-in
           \* "text", from the "file"
  launch,  \* launch[p]: where p is between its start and its prompt
  hurt     \* history: a crash, a full disk or the user broke the file

vars == <<cfg, lua, launch, hurt>>

Phases == {"down", "create", "second look", "open", "write", "load", "check", "shell"}

TypeOK ==
  /\ cfg \in {"none", "broken", "usable"}
  /\ lua \in [Programs -> {"unset", "text", "file"}]
  /\ launch \in [Programs -> Phases]
  /\ hurt \in BOOLEAN

Init ==
  /\ cfg = "none"
  /\ lua = [p \in Programs |-> "unset"]
  /\ launch = [p \in Programs |-> "down"]
  /\ hurt = FALSE

Goto(p, phase) == launch' = [launch EXCEPT ![p] = phase]

-----------------------------------------------------------------------------
Launch(p) ==
  /\ launch[p] = "down"
  /\ Goto(p, "create")
  /\ lua' = [lua EXCEPT ![p] = "unset"]
  /\ UNCHANGED <<cfg, hurt>>

\* create_config creates nothing when the file is there.
FileThere(p) ==
  /\ launch[p] = "create"
  /\ cfg # "none"
  /\ Goto(p, "load")
  /\ UNCHANGED <<cfg, lua, hurt>>

\* Mistake: the directory is made before the text is run.
RunTextDirectoryFirst(p) ==
  /\ launch[p] = "create"
  /\ cfg = "none"
  /\ \/ lua' = [lua EXCEPT ![p] = "text"] /\ Goto(p, "second look")
     \/ lua' = lua /\ Goto(p, "load")
  /\ UNCHANGED <<cfg, hurt>>

\* The built-in text is run first, to see that it works; that is what sets the
\* settings.  Then the directory is made if it is not there; when that fails,
\* and it does if another program made it meanwhile, create_config returns
\* false and the file is loaded.
RunText(p) ==
  /\ launch[p] = "create"
  /\ cfg = "none"
  /\ lua' = [lua EXCEPT ![p] = "text"]
  /\ Goto(p, "second look") \/ Goto(p, "load")
  /\ UNCHANGED <<cfg, hurt>>

\* The file is looked for a second time, just before it is opened.
SecondLook(p) ==
  /\ launch[p] = "second look"
  /\ Goto(p, IF cfg = "none" THEN "open" ELSE "check")
  /\ UNCHANGED <<cfg, lua, hurt>>

\* Mistake: the file is opened and left as it is.
OpenFileOnly(p) ==
  /\ launch[p] = "open"
  /\ cfg' = "broken"
  /\ Goto(p, "check")
  /\ UNCHANGED <<lua, hurt>>

\* open truncates.  Nobody asks whether it succeeded.
OpenFile(p) ==
  /\ launch[p] = "open"
  /\ \/ cfg' = "broken" /\ Goto(p, "write")
     \/ cfg' = cfg /\ Goto(p, "check")
  /\ UNCHANGED <<lua, hurt>>

\* The text reaches the file at close; on a full disk it does not, or in part,
\* and nobody asks.
WriteFile(p) ==
  /\ launch[p] = "write"
  /\ \/ cfg' = "usable" /\ hurt' = FALSE
     \/ cfg' = cfg /\ hurt' = TRUE
  /\ Goto(p, "check")
  /\ UNCHANGED lua

\* Mistake: load_config lets the built-in text stand in for a broken file.
LoadFileOrText(p) ==
  /\ launch[p] = "load"
  /\ lua' = [lua EXCEPT ![p] = IF cfg = "usable" THEN "file" ELSE "text"]
  /\ Goto(p, "check")
  /\ UNCHANGED <<cfg, hurt>>

\* load_config; main ignores its result.  A broken file sets nothing that
\* counts, and one that is cut short may wipe what the text had set.
LoadFile(p) ==
  /\ launch[p] = "load"
  /\ lua' \in {[lua EXCEPT ![p] = s] :
                 s \in CASE cfg = "usable" -> {"file"}
                         [] cfg = "broken" -> {lua[p], "unset"}
                         [] OTHER -> {lua[p]}}
  /\ Goto(p, "check")
  /\ UNCHANGED <<cfg, hurt>>

\* main goes to its prompt when the network type is valid, and ends otherwise.
Check(p) ==
  /\ launch[p] = "check"
  /\ Goto(p, IF lua[p] = "unset" THEN "down" ELSE "shell")
  /\ UNCHANGED <<cfg, lua, hurt>>

Exit(p) ==
  /\ launch[p] = "shell"
  /\ Goto(p, "down")
  /\ UNCHANGED <<cfg, lua, hurt>>

Kill(p) ==
  /\ launch[p] # "down"
  /\ Goto(p, "down")
  /\ hurt' = (hurt \/ launch[p] = "write")
  /\ UNCHANGED <<cfg, lua>>

\* The user edits the file, or deletes it, while no program runs.
UserEdits ==
  /\ \A p \in Programs : launch[p] = "down"
  /\ cfg' \in {"none", "broken", "usable"} \ {cfg}
  /\ hurt' = (cfg' = "broken")
  /\ UNCHANGED <<lua, launch>>

-----------------------------------------------------------------------------
Program(p) ==
  \/ FileThere(p) \/ RunText(p) \/ SecondLook(p) \/ OpenFile(p)
  \/ WriteFile(p) \/ LoadFile(p) \/ Check(p)

Next ==
  \/ UserEdits
  \/ \E p \in Programs : Launch(p) \/ Program(p) \/ Exit(p) \/ Kill(p)

Spec == Init /\ [][Next]_vars

-----------------------------------------------------------------------------
\* A broken file, nobody about to write one, and nobody with settings: whoever
\* is running has none and will get none from the file.
Wedged ==
  /\ cfg = "broken"
  /\ \A p \in Programs :
       /\ launch[p] \in {"down", "create", "load", "check"}
       /\ launch[p] # "down" => lua[p] = "unset"

\* An empty or cut config.lua is for good: however often programs are started
\* after it, none reaches its prompt or repairs the file, until the user acts.
\* create_config asks whether the file exists, not what is in it.
WedgedForGood == [][Wedged /\ launch' # launch => Wedged']_vars

\* Only a crash inside the write, a full disk or the user leaves a broken file
\* behind.  Two programs that create it at once do not: the one that truncates
\* what the other has written goes on to write it again.
BrokenNeedsDamage ==
  cfg = "broken" /\ ~hurt => \E p \in Programs : launch[p] = "write"

\* load_config leaves a program without settings, so that main ends it, only when
\* the file is broken for good or another program is between opening and closing
\* it: never because of a directory or a file that was or was not there, nor
\* after the other's write is done.
RefusedOnlyOverBroken ==
  [][\A p \in Programs :
       launch[p] = "load" /\ launch'[p] = "check" /\ lua'[p] = "unset" =>
         hurt \/ \E q \in Programs \ {p} : launch[q] = "write"]_vars

=============================================================================
