------------------------------ MODULE LocalCli ------------------------------
(***************************************************************************)
(* runLocalCli of src/src/cli/local/run-local-cli.ts: the start of the     *)
(* interactive CLI, the five variables of its closure, and the handlers of *)
(* user input and of the runtime commands /workspace, /config and /edit.   *)
(*                                                                         *)
(* The handlers are async and nobody awaits them: while one waits for the  *)
(* file system, for git or for the setup dialogue, others begin, finish,   *)
(* and start runs.  An action is what a handler does between two awaits.   *)
(* The process may die at any time; config.json is all the next start has. *)
(* The text of notices is left out.                                        *)
(***************************************************************************)
EXTENDS Naturals

CONSTANTS
  Workspaces,   \* directories the user can name
  Models,       \* stands for the rest of the configuration
  Handlers,     \* bound: /workspace and /config handlers in flight at once
  MaxAsks,      \* bound: /edit requests, and edit runs
  None,         \* no run, no handler
  Absent,       \* there is no config.json
  Empty,        \* config.json has been opened for writing
  Torn          \* a config.json that is neither empty nor a configuration

ASSUME CliAssumption ==
  /\ Workspaces # {} /\ Models # {}
  /\ MaxAsks \in Nat

VARIABLES
  process,      \* where the start is, "up", or "down"
  config,       \* the configuration in memory
  agent,        \* the configuration the current agent was created with
  saved,        \* config.json
  run,          \* None, or the run that is going on: running = TRUE
  pendingEdit,  \* a request to edit waits for the user's answer
  at,           \* the await each handler is suspended at
  value,        \* what that await was called with
  before,       \* previousConfig of reconfigure
  (* history, read by properties only *)
  asks,         \* /edit requests shown to the user
  edits,        \* runs started with permission to write
  told,         \* the configuration when a command was last done
  overlapped,   \* two handlers of this process have been in flight at once
  saveFailed,   \* this process has failed to save its configuration
  cut           \* a process died while it was writing config.json

handlerVars == <<at, value, before>>
history == <<asks, edits, told, overlapped, saveFailed, cut>>
vars == <<process, config, agent, saved, run, pendingEdit, handlerVars, history>>

Config == [workspace: Workspaces, model: Models]

Unreadable == {Empty, Torn}

AwaitOfWorkspace == {"check", "saveWorkspace", "writeWorkspace", "gitWorkspace"}
AwaitOfConfig    == {"setup", "saveConfig", "writeConfig", "gitConfig"}

(* saveLocalCliConfig: mkdir, then open, then write.                       *)
Saving  == {"saveWorkspace", "saveConfig"}
Writing == {"writeWorkspace", "writeConfig"}

TypeOK ==
  /\ process \in {"down", "setup", "save", "write", "up"}
  /\ {config, agent, told} \subseteq Config
  /\ saved \in Config \cup {Absent} \cup Unreadable
  /\ run \in [mode: {"ask", "edit"}, workspace: Workspaces] \cup {None}
  /\ pendingEdit \in BOOLEAN
  /\ at \in [Handlers -> {"idle"} \cup AwaitOfWorkspace \cup AwaitOfConfig]
  /\ value \in [Handlers -> Config \cup {None}]
  /\ before \in [Handlers -> Config \cup {None}]
  /\ asks \in 0..MaxAsks
  /\ edits \in 0..MaxAsks
  /\ {overlapped, saveFailed, cut} \subseteq BOOLEAN

(* Before its first start the CLI has no configuration, and any of those   *)
(* below is as good as another.                                            *)
Init ==
  /\ process = "down"
  /\ config \in Config
  /\ saved \in {config, Absent}
  /\ agent = config
  /\ told = config
  /\ run = None
  /\ pendingEdit = FALSE
  /\ at = [h \in Handlers |-> "idle"]
  /\ value = [h \in Handlers |-> None]
  /\ before = [h \in Handlers |-> None]
  /\ asks = 0
  /\ edits = 0
  /\ overlapped = FALSE
  /\ saveFailed = FALSE
  /\ cut = FALSE

-----------------------------------------------------------------------------
running == run # None

(* reconfigure unmounts the CLI until it ends, so nothing can be typed.    *)
Mounted == process = "up" /\ \A h \in Handlers : at[h] \notin AwaitOfConfig

Settled == \A h \in Handlers : at[h] = "idle"

(* Whether Pixelle runs is looked at when a command begins, and not again. *)
Begins(h, place) ==
  /\ Mounted
  /\ at[h] = "idle"
  /\ ~running
  /\ at' = [at EXCEPT ![h] = place]
  /\ overlapped' = (overlapped \/ ~Settled)
  /\ UNCHANGED <<asks, edits, told, saveFailed, cut>>

Goto(h, place) == at' = [at EXCEPT ![h] = place]

Returns(h) ==
  /\ Goto(h, "idle")
  /\ value' = [value EXCEPT ![h] = None]
  /\ before' = [before EXCEPT ![h] = None]

-----------------------------------------------------------------------------
(* saveLocalCliConfig writes config.json in place.                         *)

(* To open the file empties it.                                            *)
Opens(h) ==
  /\ at[h] \in Saving
  /\ Goto(h, IF at[h] = "saveConfig" THEN "writeConfig" ELSE "writeWorkspace")
  /\ saved' = Empty
  /\ UNCHANGED <<process, config, agent, run, pendingEdit, value, before, history>>

(* What is written over the longer text of another handler leaves its tail.*)
Written(c) == IF saved \in {Empty, c} THEN {c} ELSE {c, Torn}

Saved(h, writing, next) ==
  /\ at[h] = writing
  /\ Goto(h, next)
  /\ saved' \in Written(value[h])
  /\ UNCHANGED <<process, config, agent, run, pendingEdit, value, before, history>>

(* The file cannot be opened, or is not written to the end.                *)
SaveThrows(h, save, write) ==
  /\ \/ at[h] = save /\ UNCHANGED saved
     \/ at[h] = write /\ saved' \in {saved, Torn}
  /\ saveFailed' = TRUE
  /\ UNCHANGED <<asks, edits, told, overlapped, cut>>

-----------------------------------------------------------------------------
(* The start of the CLI: ensureConfig, and the end of the process.         *)

(* What the past processes did does not matter any more.                   *)
Loads(c) ==
  /\ told' = c
  /\ overlapped' = FALSE
  /\ saveFailed' = FALSE
  /\ cut' = FALSE
  /\ UNCHANGED <<asks, edits>>

Up(c) ==
  /\ process' = "up"
  /\ config' = c
  /\ agent' = c
  /\ Loads(c)
  /\ UNCHANGED <<run, pendingEdit, handlerVars>>

(* The configuration is loaded.  The dialogue is opened when there is none *)
(* or when it is asked for.                                                *)
Starts ==
  /\ process = "down"
  /\ saved \in Config
  /\ Up(saved)
  /\ UNCHANGED saved

StartsWithSetup ==
  /\ process = "down"
  /\ saved \notin Unreadable
  /\ process' = "setup"
  /\ Loads(IF saved = Absent THEN told ELSE saved)
  /\ UNCHANGED <<config, agent, saved, run, pendingEdit, handlerVars>>

(* loadLocalCliConfig throws, and the process ends, whatever was asked for.*)
StartFails ==
  /\ process = "down"
  /\ saved \in Unreadable
  /\ UNCHANGED vars

(* The dialogue returns and the file is opened.  The configuration at hand *)
(* is a local variable of ensureConfig.                                    *)
StartSaves ==
  /\ \/ /\ process = "setup"
        /\ process' = "save"
        /\ config' \in Config
        /\ UNCHANGED saved
     \/ /\ process = "save"
        /\ process' = "write"
        /\ saved' = Empty
        /\ UNCHANGED config
  /\ UNCHANGED <<agent, run, pendingEdit, handlerVars, history>>

StartSaved ==
  /\ process = "write"
  /\ saved' \in Written(config)
  /\ Up(config)

(* A crash, an exit, or a start that throws.                               *)
Dies ==
  /\ process # "down"
  /\ process' = "down"
  /\ run' = None
  /\ pendingEdit' = FALSE
  /\ at' = [h \in Handlers |-> "idle"]
  /\ value' = [h \in Handlers |-> None]
  /\ before' = [h \in Handlers |-> None]
  /\ cut' = (process = "write" \/ \E h \in Handlers : at[h] \in Writing)
  /\ UNCHANGED <<config, agent, saved, asks, edits, told, overlapped, saveFailed>>

-----------------------------------------------------------------------------
(* /workspace <directory>                                                  *)

RebuiltAgent_FromDisk(h) == saved

RebuiltAgent_OfHandler(h) == value[h]

(* rebuildAgent() reads the variable config, not what the handler saved.   *)
RebuiltAgent(h) == config

(* The command is done: rebuildAgent() and its notice.                     *)
Done(h) ==
  /\ Returns(h)
  /\ agent' = RebuiltAgent(h)
  /\ told' = config
  /\ UNCHANGED <<process, config, saved, run, pendingEdit, asks, edits, overlapped,
                 saveFailed, cut>>

SetWorkspace(h) ==
  /\ Begins(h, "check")
  /\ \E w \in Workspaces :
       value' = [value EXCEPT ![h] = [config EXCEPT !.workspace = w]]
  /\ UNCHANGED <<process, config, agent, saved, run, pendingEdit, before>>

(* assertWorkspaceDirectory returned: config is assigned before the save.  *)
WorkspaceExists(h) ==
  /\ at[h] = "check"
  /\ Goto(h, "saveWorkspace")
  /\ config' = [config EXCEPT !.workspace = value[h].workspace]
  /\ value' = [value EXCEPT ![h] = config']
  /\ UNCHANGED <<process, agent, saved, run, pendingEdit, before, history>>

WorkspaceRejected(h) ==
  /\ at[h] = "check"
  /\ Returns(h)
  /\ UNCHANGED <<process, config, agent, saved, run, pendingEdit, history>>

WorkspaceSaved(h) == Saved(h, "writeWorkspace", "gitWorkspace")

(* saveLocalCliConfig throws: only the handler of the command catches, so  *)
(* config keeps the new workspace and the agent is not rebuilt.            *)
WorkspaceSaveFails(h) ==
  /\ SaveThrows(h, "saveWorkspace", "writeWorkspace")
  /\ Returns(h)
  /\ UNCHANGED <<process, config, agent, run, pendingEdit>>

WorkspaceSet(h) ==
  /\ at[h] = "gitWorkspace"
  /\ Done(h)

-----------------------------------------------------------------------------
(* /config                                                                 *)

Reconfigure(h) ==
  /\ Begins(h, "setup")
  /\ before' = [before EXCEPT ![h] = config]
  /\ UNCHANGED <<process, config, agent, saved, run, pendingEdit, value>>

(* The dialogue asks for every field, with the configuration it was called *)
(* with as the default.                                                    *)
SetupReturns(h) ==
  /\ at[h] = "setup"
  /\ Goto(h, "saveConfig")
  /\ config' \in Config
  /\ value' = [value EXCEPT ![h] = config']
  /\ UNCHANGED <<process, agent, saved, run, pendingEdit, before, history>>

ConfigSaved(h) == Saved(h, "writeConfig", "gitConfig")

ConfigSet(h) ==
  /\ at[h] = "gitConfig"
  /\ Done(h)

(* The dialogue was cancelled or the save failed: previousConfig is put    *)
(* back, over whatever another handler has assigned meanwhile.             *)
ReconfigureFails(h) ==
  /\ \/ at[h] = "setup" /\ UNCHANGED <<saved, history>>
     \/ SaveThrows(h, "saveConfig", "writeConfig")
  /\ Returns(h)
  /\ config' = before[h]
  /\ agent' = before[h]
  /\ UNCHANGED <<process, run, pendingEdit>>

-----------------------------------------------------------------------------
(* /edit <request>, user input, and the run.                               *)

AskForEdit ==
  /\ Mounted
  /\ asks < MaxAsks
  /\ ~running
  /\ pendingEdit' = TRUE
  /\ asks' = asks + 1
  /\ UNCHANGED <<process, config, agent, saved, run, handlerVars, edits, told, overlapped,
                 saveFailed, cut>>

(* The run goes to the agent as it is now; agent.stream keeps a reference  *)
(* to it when the variable is assigned again.                              *)
StartRun(mode) == run' = [mode |-> mode, workspace |-> agent.workspace]

PendingAfterYes_Kept == pendingEdit

PendingAfterYes == FALSE

(* runAgent refuses when a run is going on: the edit is dropped then.      *)
AnswerYes ==
  /\ Mounted
  /\ pendingEdit
  /\ edits < MaxAsks
  /\ pendingEdit' = PendingAfterYes
  /\ IF running THEN UNCHANGED <<run, edits>>
     ELSE /\ StartRun("edit")
          /\ edits' = edits + 1
  /\ UNCHANGED <<process, config, agent, saved, handlerVars, asks, told, overlapped,
                 saveFailed, cut>>

AnswerNo ==
  /\ Mounted
  /\ pendingEdit
  /\ pendingEdit' = FALSE
  /\ UNCHANGED <<process, config, agent, saved, run, handlerVars, history>>

Prompt ==
  /\ Mounted
  /\ ~pendingEdit
  /\ ~running
  /\ StartRun("ask")
  /\ UNCHANGED <<process, config, agent, saved, pendingEdit, handlerVars, history>>

RunEnds ==
  /\ running
  /\ run' = None
  /\ UNCHANGED <<process, config, agent, saved, pendingEdit, handlerVars, history>>

Next ==
  \/ \E h \in Handlers :
       \/ SetWorkspace(h) \/ WorkspaceExists(h) \/ WorkspaceRejected(h)
       \/ Opens(h) \/ WorkspaceSaved(h) \/ WorkspaceSaveFails(h) \/ WorkspaceSet(h)
       \/ Reconfigure(h) \/ SetupReturns(h) \/ ConfigSaved(h) \/ ConfigSet(h)
       \/ ReconfigureFails(h)
  \/ AskForEdit \/ AnswerYes \/ AnswerNo \/ Prompt \/ RunEnds
  \/ Starts \/ StartsWithSetup \/ StartFails \/ StartSaves \/ StartSaved \/ Dies

Spec == Init /\ [][Next]_vars

-----------------------------------------------------------------------------
(* Properties.                                                             *)

(* While a request to edit waits for its answer nothing runs, so that the  *)
(* answer cannot be lost to "Pixelle is already running"; every run with   *)
(* write permission was confirmed; and no confirmation serves twice,       *)
(* whatever else is typed or in flight in between.                         *)
EveryEditIsConfirmed ==
  /\ pendingEdit => ~running
  /\ edits + (IF pendingEdit THEN 1 ELSE 0) <= asks

AgentIsCurrent ==
  process = "up" /\ Settled /\ ~saveFailed => agent = config

SettledIsSaved ==
  process = "up" /\ Settled /\ ~overlapped /\ ~saveFailed => saved = config

NextStartFinds ==
  ~overlapped /\ ~saveFailed =>
    \/ saved \in {told, config, Absent}
    \/ saved = Empty /\ (cut \/ process = "write" \/ \E h \in Handlers : at[h] \in Writing)

(* When no command is in flight the agent works with the configuration     *)
(* that the CLI has in memory (and reports to the user), in whatever order *)
(* overlapping commands went on.  A save that throws is the exception:     *)
(* setWorkspace has assigned config by then and does not rebuild the agent.*)
(* Where commands ran one after the other and no save threw, config.json   *)
(* holds it too, and wherever the process dies, the next start finds the   *)
(* configuration the user was last told of or the one the command at hand  *)
(* was setting.  The CLI starts again at all, unless a save was cut off:   *)
(* then the file is empty, and every start throws.  Overlapping commands   *)
(* may save in another order than they assigned, or leave a mixture that   *)
(* no start can read.                                                      *)
OneConfiguration == AgentIsCurrent /\ SettledIsSaved /\ NextStartFinds

-----------------------------------------------------------------------------
(* What the CLI tells the user, and does not keep in every interleaving.   *)

(* "Cannot change workspace while Pixelle is running."                     *)
(* (cli/local/run-local-cli.ts:115)                                        *)
NoChangeWhileRunning ==
  [][running /\ running' => /\ config' = config
                            /\ agent'.workspace = run.workspace]_vars
=============================================================================
