---------------------------- MODULE LocalCliProofs ----------------------------
(***************************************************************************)
(* Proofs about LocalCli, for any workspaces, models and handlers: any     *)
(* number of commands in flight.  The inductive invariant IInv links the   *)
(* place of each handler to the three copies of the configuration: in      *)
(* memory, in the agent and in config.json.                                *)
(***************************************************************************)
EXTENDS LocalCli, TLAPS

(* Handlers run in a process that is up, after its start has saved. *)
ProcessInv ==
  /\ process # "up" => Settled /\ ~running /\ ~pendingEdit
  /\ process = "write" => saved = Empty

(* What a handler keeps across its awaits. *)
LocalsInv ==
  \A h \in Handlers :
    /\ at[h] \in AwaitOfConfig => before[h] \in Config
    /\ at[h] \notin {"idle", "setup"} => value[h] \in Config

(* Places after config was assigned and before the agent is rebuilt. *)
Assigned == Saving \cup Writing \cup {"gitWorkspace", "gitConfig"}

(* The agent is behind only while a handler that will rebuild it is there. *)
AgentInv ==
  process = "up" /\ ~saveFailed /\ (\A h \in Handlers : at[h] \notin Assigned)
    => agent = config

SoloInv ==
  ~overlapped =>
    \A h, k \in Handlers : at[h] # "idle" /\ at[k] # "idle" => h = k

(* config.json, along a command that has the process to itself. *)
FileInv ==
  ~overlapped /\ ~saveFailed =>
    /\ process = "up" /\ Settled => saved = config /\ told = config
    /\ \A h \in Handlers :
         /\ at[h] \in {"check", "setup"} => saved = config /\ told = config
         /\ at[h] = "setup" => before[h] = config
         /\ at[h] \in Saving => saved = told /\ value[h] = config
         /\ at[h] \in Writing => saved = Empty /\ value[h] = config
         /\ at[h] \in {"gitWorkspace", "gitConfig"} => saved = config
    /\ process = "down" => \/ saved \in {told, config, Absent}
                           \/ saved = Empty /\ cut
    /\ process \in {"setup", "save"} => saved \in {told, Absent}

IInv ==
  /\ TypeOK /\ ProcessInv /\ LocalsInv /\ AgentInv /\ SoloInv /\ FileInv
  /\ EveryEditIsConfirmed

-----------------------------------------------------------------------------
(* The steps, as Next lists them: of the handlers, of the user and the run, *)
(* and of the process.                                                      *)

HandlerStep(h) ==
  \/ SetWorkspace(h) \/ WorkspaceExists(h) \/ WorkspaceRejected(h)
  \/ Opens(h) \/ WorkspaceSaved(h) \/ WorkspaceSaveFails(h) \/ WorkspaceSet(h)
  \/ Reconfigure(h) \/ SetupReturns(h) \/ ConfigSaved(h) \/ ConfigSet(h)
  \/ ReconfigureFails(h)

UserStep == AskForEdit \/ AnswerYes \/ AnswerNo \/ Prompt \/ RunEnds

ProcessStep == Starts \/ StartsWithSetup \/ StartFails \/ StartSaves \/ StartSaved \/ Dies

LEMMA NextSteps ==
  Next <=> (\E h \in Handlers : HandlerStep(h)) \/ UserStep \/ ProcessStep
BY DEF Next, HandlerStep, UserStep, ProcessStep

LEMMA InitInv == Init => IInv
<1> SUFFICES ASSUME Init PROVE IInv
  OBVIOUS
<1>1. TypeOK
  <2>1. process = "down" /\ config \in Config /\ agent = config /\ told = config /\ run = None
    BY DEF Init
  <2>2. saved \in {config, Absent}
    BY DEF Init
  <2>3. asks \in 0..MaxAsks /\ edits \in 0..MaxAsks
    BY CliAssumption DEF Init
  <2>4. /\ at \in [Handlers -> {"idle"}]
        /\ value \in [Handlers -> {None}] /\ before \in [Handlers -> {None}]
    BY DEF Init
  <2>5. ~pendingEdit /\ ~overlapped /\ ~saveFailed /\ ~cut
        /\ {pendingEdit, overlapped, saveFailed, cut} \subseteq BOOLEAN
    BY DEF Init
  <2>6. QED
    BY <2>1, <2>2, <2>3, <2>4, <2>5 DEF TypeOK
<1>2. ProcessInv /\ LocalsInv /\ AgentInv /\ SoloInv /\ EveryEditIsConfirmed
  BY DEF Init, ProcessInv, LocalsInv, AgentInv, SoloInv, EveryEditIsConfirmed, Settled, running,
       AwaitOfConfig
<1>3. FileInv
  BY DEF Init, FileInv, Saving, Writing
<1>4. QED
  BY <1>1, <1>2, <1>3 DEF IInv

-----------------------------------------------------------------------------
(* What a command that begins does; one beside another is noted.            *)
BeginsFacts(h, place) ==
  /\ at[h] = "idle"
  /\ at' = [at EXCEPT ![h] = place]
  /\ overlapped' \in BOOLEAN
  /\ ~overlapped' => ~overlapped /\ Settled
  /\ UNCHANGED <<asks, edits, told, saveFailed, cut>>

LEMMA BeginsAlone ==
  ASSUME TypeOK, NEW h \in Handlers, NEW place, Begins(h, place)
  PROVE  BeginsFacts(h, place)
BY DEF TypeOK, Begins, BeginsFacts

(* A step of a handler.  A handler acts only in a process that is up.       *)
LEMMA HandlerKeeps ==
  ASSUME IInv, NEW h \in Handlers, HandlerStep(h)
  PROVE  IInv'
<1> USE DEF IInv, TypeOK
<1>1. process = "up" /\ process' = process
  BY DEF ProcessInv, Settled, HandlerStep, SetWorkspace, WorkspaceExists, WorkspaceRejected, Opens,
       WorkspaceSaved, WorkspaceSaveFails, WorkspaceSet, Reconfigure, SetupReturns, ConfigSaved,
       ConfigSet, ReconfigureFails, Begins, Mounted, Saved, SaveThrows, Done, Saving
<1>2. CASE SetWorkspace(h)
  <2>1. PICK w \in Workspaces : value' = [value EXCEPT ![h] = [config EXCEPT !.workspace = w]]
    BY <1>2 DEF SetWorkspace
  <2>2. [config EXCEPT !.workspace = w] \in Config
    BY DEF Config
  <2>3. BeginsFacts(h, "check")
    BY <1>1, <1>2, BeginsAlone DEF SetWorkspace
  <2>4. TypeOK'
    BY <1>1, <1>2, <2>1, <2>2, <2>3 DEF SetWorkspace, BeginsFacts, AwaitOfWorkspace
  <2>5. ProcessInv' /\ LocalsInv' /\ AgentInv' /\ EveryEditIsConfirmed'
    BY <1>1, <1>2, <2>1, <2>2, <2>3 DEF SetWorkspace, BeginsFacts, ProcessInv, LocalsInv,
         AgentInv, EveryEditIsConfirmed, running, AwaitOfConfig, Assigned, Saving, Writing
  <2>6. SoloInv' /\ FileInv'
    BY <1>1, <1>2, <2>1, <2>2, <2>3 DEF SetWorkspace, BeginsFacts, SoloInv, FileInv, Settled,
         Saving, Writing
  <2>7. QED
    BY <2>4, <2>5, <2>6
<1>3. CASE WorkspaceExists(h)
  <2>1. config' \in Config
    BY <1>3 DEF WorkspaceExists, LocalsInv, Config
  <2>2. QED
    BY <1>1, <1>3, <2>1 DEF WorkspaceExists, Goto, history, ProcessInv, LocalsInv, AgentInv,
         SoloInv, FileInv, EveryEditIsConfirmed, Settled, running, AwaitOfConfig,
         AwaitOfWorkspace, Assigned, Saving, Writing
<1>4. CASE WorkspaceRejected(h)
  BY <1>1, <1>4 DEF WorkspaceRejected, Returns, Goto, history, ProcessInv, LocalsInv, AgentInv,
       SoloInv, FileInv, EveryEditIsConfirmed, Settled, running, AwaitOfConfig,
       AwaitOfWorkspace, Assigned, Saving, Writing
<1>5. CASE Opens(h)
  BY <1>1, <1>5 DEF Opens, Goto, history, ProcessInv, LocalsInv, AgentInv, SoloInv, FileInv,
       EveryEditIsConfirmed, Settled, running, AwaitOfConfig, AwaitOfWorkspace, Assigned,
       Saving, Writing, Unreadable
<1>6. ASSUME NEW writing \in Writing, NEW next \in {"gitWorkspace", "gitConfig"},
             writing = "writeConfig" <=> next = "gitConfig", Saved(h, writing, next)
      PROVE  IInv'
  <2>1. value[h] \in Config /\ saved' \in {value[h], Torn}
    BY <1>6 DEF Saved, Written, LocalsInv, Writing
  <2>2. ~overlapped /\ ~saveFailed => saved' = value[h] /\ value[h] = config
    BY <1>6 DEF Saved, Written, FileInv
  <2>3. TypeOK' /\ ProcessInv' /\ LocalsInv' /\ EveryEditIsConfirmed'
    BY <1>1, <1>6, <2>1 DEF Saved, Goto, history, ProcessInv, LocalsInv, EveryEditIsConfirmed,
         Settled, running, AwaitOfConfig, AwaitOfWorkspace, Writing, Unreadable
  <2>4. AgentInv' /\ SoloInv' /\ FileInv'
    BY <1>1, <1>6, <2>2 DEF Saved, Goto, history, AgentInv, SoloInv, FileInv, Settled, Assigned,
         Saving, Writing
  <2>5. QED
    BY <2>3, <2>4
<1>7. CASE WorkspaceSaved(h) \/ ConfigSaved(h)
  BY <1>6, <1>7 DEF WorkspaceSaved, ConfigSaved, Writing
<1>8. CASE WorkspaceSaveFails(h)
  BY <1>1, <1>8 DEF WorkspaceSaveFails, SaveThrows, Returns, Goto, ProcessInv, LocalsInv, AgentInv,
       SoloInv, FileInv, EveryEditIsConfirmed, Settled, running, AwaitOfConfig,
       AwaitOfWorkspace, Unreadable
<1>9. CASE WorkspaceSet(h) \/ ConfigSet(h)
  BY <1>1, <1>9 DEF WorkspaceSet, ConfigSet, Done, RebuiltAgent, Returns, Goto, ProcessInv,
       LocalsInv, AgentInv, SoloInv, FileInv, EveryEditIsConfirmed, Settled, running,
       AwaitOfConfig, AwaitOfWorkspace, Assigned, Saving, Writing
<1>10. CASE Reconfigure(h)
  <2>1. BeginsFacts(h, "setup")
    BY <1>1, <1>10, BeginsAlone DEF Reconfigure
  <2>2. TypeOK'
    BY <1>1, <1>10, <2>1 DEF Reconfigure, BeginsFacts, AwaitOfConfig
  <2>3. ProcessInv' /\ LocalsInv' /\ AgentInv' /\ EveryEditIsConfirmed'
    BY <1>1, <1>10, <2>1 DEF Reconfigure, BeginsFacts, ProcessInv, LocalsInv, AgentInv,
         EveryEditIsConfirmed, running, AwaitOfConfig, Assigned, Saving, Writing
  <2>4. SoloInv' /\ FileInv'
    BY <1>1, <1>10, <2>1 DEF Reconfigure, BeginsFacts, SoloInv, FileInv, Settled, Saving, Writing
  <2>5. QED
    BY <2>2, <2>3, <2>4
<1>11. CASE SetupReturns(h)
  BY <1>1, <1>11 DEF SetupReturns, Goto, history, ProcessInv, LocalsInv, AgentInv, SoloInv,
       FileInv, EveryEditIsConfirmed, Settled, running, AwaitOfConfig, AwaitOfWorkspace,
       Assigned, Saving, Writing
<1>12. CASE ReconfigureFails(h)
  <2>1. before[h] \in Config /\ saved' \in {saved, Torn}
    BY <1>12 DEF ReconfigureFails, SaveThrows, LocalsInv, AwaitOfConfig
  <2>2. at[h] \in AwaitOfConfig /\ (at[h] = "setup" \/ saveFailed')
    BY <1>12 DEF ReconfigureFails, SaveThrows, AwaitOfConfig
  <2>3. QED
    BY <1>1, <1>12, <2>1, <2>2 DEF ReconfigureFails, SaveThrows, Returns, Goto, history,
         ProcessInv, LocalsInv, AgentInv, SoloInv, FileInv, EveryEditIsConfirmed, Settled,
         running, AwaitOfConfig, AwaitOfWorkspace, Assigned, Saving, Writing, Unreadable
<1>13. QED
  BY <1>2, <1>3, <1>4, <1>5, <1>7, <1>8, <1>9, <1>10, <1>11, <1>12 DEF HandlerStep

-----------------------------------------------------------------------------
(* What is typed, and the run, leave every configuration alone.             *)
LEMMA UserKeeps ==
  ASSUME IInv, UserStep
  PROVE  IInv'
<1> USE DEF IInv, TypeOK
<1>1. UNCHANGED <<process, config, agent, saved, handlerVars, told, overlapped, saveFailed, cut>>
  BY DEF UserStep, AskForEdit, AnswerYes, AnswerNo, Prompt, RunEnds, handlerVars, history
<1>2. LocalsInv' /\ AgentInv' /\ SoloInv' /\ FileInv'
  BY <1>1 DEF handlerVars, LocalsInv, AgentInv, SoloInv, FileInv, Settled
<1>3. TypeOK'
  <2>1. agent.workspace \in Workspaces
    BY DEF Config
  <2>2. ASSUME NEW mode \in {"ask", "edit"}, StartRun(mode)
        PROVE  run' \in [mode: {"ask", "edit"}, workspace: Workspaces]
    BY <2>1, <2>2 DEF StartRun
  <2>3. run' \in [mode: {"ask", "edit"}, workspace: Workspaces] \cup {None}
    BY <2>2 DEF UserStep, AskForEdit, AnswerYes, AnswerNo, Prompt, RunEnds
  <2>4. pendingEdit' \in BOOLEAN
    BY DEF UserStep, AskForEdit, AnswerYes, AnswerNo, Prompt, RunEnds, PendingAfterYes
  <2>5. asks' \in 0..MaxAsks /\ edits' \in 0..MaxAsks
    BY CliAssumption DEF UserStep, AskForEdit, AnswerYes, AnswerNo, Prompt, RunEnds, history
  <2>6. QED
    BY <1>1, <2>3, <2>4, <2>5 DEF handlerVars
<1>4. ProcessInv' /\ EveryEditIsConfirmed'
  BY <1>1, CliAssumption DEF UserStep, AskForEdit, AnswerYes, AnswerNo, Prompt, RunEnds, Mounted,
       PendingAfterYes, handlerVars, history, ProcessInv, EveryEditIsConfirmed, Settled, running
<1>5. QED
  BY <1>2, <1>3, <1>4

(* A start, or the end of the process: no handler is in flight afterwards.  *)
LEMMA ProcessKeeps ==
  ASSUME IInv, ProcessStep
  PROVE  IInv'
<1> USE DEF IInv, TypeOK
<1>1. ASSUME NEW c \in Config, Up(c), saved' = c, process # "up"
      PROVE  IInv'
  <2>1. /\ process' = "up" /\ config' = c /\ agent' = c /\ told' = c
        /\ ~overlapped' /\ ~saveFailed' /\ ~cut'
        /\ {overlapped', saveFailed', cut'} \subseteq BOOLEAN
        /\ UNCHANGED <<run, pendingEdit, at, value, before, asks, edits>>
    BY <1>1 DEF Up, Loads, handlerVars
  <2>2. \A h \in Handlers : at[h] = "idle"
    BY <1>1 DEF ProcessInv, Settled
  <2>3. TypeOK'
    BY <1>1, <2>1
  <2>4. ProcessInv' /\ LocalsInv' /\ AgentInv' /\ SoloInv' /\ FileInv' /\ EveryEditIsConfirmed'
    BY <1>1, <2>1, <2>2 DEF ProcessInv, LocalsInv, AgentInv, SoloInv, FileInv,
         EveryEditIsConfirmed, running, AwaitOfConfig, Saving, Writing
  <2>5. QED
    BY <2>3, <2>4
<1>2. CASE StartsWithSetup
  BY <1>2 DEF StartsWithSetup, Loads, handlerVars, Unreadable, ProcessInv, LocalsInv, AgentInv,
       SoloInv, FileInv, EveryEditIsConfirmed, Settled, running, AwaitOfConfig, Saving, Writing
<1>3. CASE Starts
  BY <1>1, <1>3 DEF Starts
<1>4. CASE StartSaved
  <2>1. saved' = config /\ Up(config) /\ process = "write" /\ config \in Config
    BY <1>4 DEF StartSaved, Written, ProcessInv
  <2>2. QED
    BY <1>1, <2>1
<1>5. CASE StartFails
  BY <1>5 DEF StartFails, vars, handlerVars, history, ProcessInv, LocalsInv, AgentInv, SoloInv,
       FileInv, EveryEditIsConfirmed, Settled, running
<1>6. CASE StartSaves
  BY <1>6 DEF StartSaves, handlerVars, history, Unreadable, ProcessInv, LocalsInv, AgentInv,
       SoloInv, FileInv, EveryEditIsConfirmed, Settled, running, AwaitOfConfig, Saving, Writing
<1>7. CASE Dies
  <2>1. /\ process' = "down" /\ run' = None /\ ~pendingEdit' /\ pendingEdit' \in BOOLEAN
        /\ at' \in [Handlers -> {"idle"}]
        /\ value' \in [Handlers -> {None}] /\ before' \in [Handlers -> {None}]
        /\ UNCHANGED <<config, agent, saved, asks, edits, told, overlapped, saveFailed>>
    BY <1>7 DEF Dies
  <2>2. /\ cut' \in BOOLEAN
        /\ process = "write" => cut'
        /\ \A h \in Handlers : at[h] \in Writing => cut'
    BY <1>7 DEF Dies
  <2>3. TypeOK'
    BY <2>1, <2>2
  <2>4. ProcessInv' /\ LocalsInv' /\ AgentInv' /\ SoloInv' /\ EveryEditIsConfirmed'
    BY <2>1, <2>2 DEF ProcessInv, LocalsInv, AgentInv, SoloInv, EveryEditIsConfirmed, Settled,
         running, AwaitOfConfig
  <2>5. FileInv'
    BY <1>7, <2>1, <2>2 DEF Dies, ProcessInv, FileInv, Settled, AwaitOfConfig,
         AwaitOfWorkspace, Saving, Writing
  <2>6. QED
    BY <2>3, <2>4, <2>5
<1>8. QED
  BY <1>2, <1>3, <1>4, <1>5, <1>6, <1>7 DEF ProcessStep

LEMMA StutterKeeps == IInv /\ UNCHANGED vars => IInv'
BY DEF IInv, TypeOK, vars, handlerVars, history, ProcessInv, LocalsInv, AgentInv, SoloInv, FileInv,
     EveryEditIsConfirmed, Settled, running

LEMMA Invariance == Spec => []IInv
<1>1. IInv /\ [Next]_vars => IInv'
  BY NextSteps, HandlerKeeps, UserKeeps, ProcessKeeps, StutterKeeps
<1>2. QED
  BY <1>1, InitInv, PTL DEF Spec

-----------------------------------------------------------------------------
(* The types of the state of the CLI, whatever is in flight.                *)
THEOREM TypeCorrect == Spec => []TypeOK
<1>1. IInv => TypeOK
  BY DEF IInv
<1>2. QED
  BY <1>1, Invariance, PTL

(* Every run that may write was confirmed, each confirmation serves once,   *)
(* and none is lost to a run that is going on.                              *)
THEOREM EditsConfirmed == Spec => []EveryEditIsConfirmed
<1>1. IInv => EveryEditIsConfirmed
  BY DEF IInv
<1>2. QED
  BY <1>1, Invariance, PTL

(* However many commands overlap, the agent is current when they have       *)
(* ended; and where they did not overlap and no save threw, config.json is  *)
(* what the user was told or what is being set, wherever the process dies.  *)
THEOREM ConfigurationAgrees == Spec => []OneConfiguration
<1>1. IInv => AgentIsCurrent /\ SettledIsSaved
  BY DEF IInv, AgentInv, FileInv, AgentIsCurrent, SettledIsSaved, Settled, Assigned, Saving,
       Writing
<1>2. IInv => NextStartFinds
  BY DEF IInv, TypeOK, ProcessInv, FileInv, NextStartFinds, Settled, AwaitOfConfig,
       AwaitOfWorkspace, Saving, Writing
<1>3. QED
  BY <1>1, <1>2, Invariance, PTL DEF OneConfiguration
=============================================================================
