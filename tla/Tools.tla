--------------------------------- MODULE Tools ---------------------------------
(***************************************************************************)
(* The built-in tools (src/src/tool/{bash,fs,web}) as bodies of the calls  *)
(* that module ToolRunner races against timer and abort signal.            *)
(*                                                                         *)
(* A body is suspended at one of its own awaits, may hold a child process  *)
(* and a timer of its own, and listens to the signal of its call or looks  *)
(* at it here and there.  It goes on when the runner has given up on it,   *)
(* and then runs beside the next call of the response.                     *)
(*                                                                         *)
(* What is read, written, printed and found is left out, with the limits   *)
(* on the length of output (appendLimited, readResponseTextWithLimit).     *)
(* fileWriter.writeFile is module ChangeTracker.  What bash may run is      *)
(* decided by module CommandPolicy.                                        *)
(***************************************************************************)
EXTENDS ToolRunner, CommandPolicy

CONSTANTS
  Kinds   \* the tools of the registry; "custom" stands for one that is not built in

ASSUME KindsAssumption ==
  Kinds \subseteq {"bash", "grep", "glob", "fetch", "read", "write", "edit", "custom"}

VARIABLES
  body,        \* per call: the tool and where it is
  available    \* rgAvailability: "unknown" or the cached answer

toolVars == <<vars, body, available>>

(* child: the process at hand; it is "told" once it was killed, and may    *)
(* live on (a shell whose own children hold its pipes).  timer: the body's *)
(* own.  listens: a listener will kill the child when the call's signal    *)
(* is aborted.  does: what the command of bash does.                       *)
NoBody ==
  [tool |-> "none", at |-> "none", child |-> "none", timer |-> "off", listens |-> FALSE,
   does |-> {}]

Places ==
  {"none", "denied", "shell", "probe", "search", "list", "walk", "scan",
   "headers", "reading", "file", "writing", "custom", "ended"}

ToolsTypeOK ==
  /\ TypeOK
  /\ body \in [Calls -> [tool : Kinds \cup {"none"}, at : Places,
                         child : {"none", "alive", "told", "gone"},
                         timer : {"off", "armed", "fired"}, listens : BOOLEAN,
                         does : SUBSET Effects]]
  /\ available \in {"unknown", "yes", "no"}
  /\ \A c \in Calls : exec[c] = "running" <=> body[c].at \notin {"none", "ended"}

-----------------------------------------------------------------------------
Disarmed(t) == IF t = "armed" THEN "off" ELSE t
Reaped(child) == IF child = "none" THEN "none" ELSE "gone"
Told(child) == IF child = "alive" THEN "told" ELSE child

(* clearTimeout, removeEventListener, once a child has exited.             *)
Rested(b, at) ==
  [b EXCEPT !.at = at, !.child = Reaped(@), !.timer = Disarmed(@), !.listens = FALSE,
            !.does = {}]

Goes(c, b) ==
  /\ body' = [body EXCEPT ![c] = b]
  /\ UNCHANGED vars

(* The body returns or throws, its timer and listener removed.             *)
Ends(c, ending) ==
  /\ ToolEnds(c, ending)
  /\ body' = [body EXCEPT ![c] = Rested(@, "ended")]

(* spawn, setTimeout and addEventListener in one go: a listener added to a *)
(* signal that was aborted before is never called.                         *)
Spawned(b, at, listens) ==
  [b EXCEPT !.at = at, !.child = "alive", !.timer = "armed", !.listens = listens]

(* runRg for the search, at this place.                                    *)
Rg(c, b, at) == Spawned(b, at, ~signalled[c])

(* The first search with ripgrep: of the text for grep, the files for glob.*)
SearchOf(kind) == IF kind = "grep" THEN "search" ELSE "list"

(* The probe for ripgrep gets no signal.                                   *)
FirstSearch(b) ==
  CASE available = "unknown" -> Spawned(b, "probe", FALSE)
    [] available = "yes"     -> Spawned(b, SearchOf(b.tool), TRUE)
    [] available = "no"      -> [b EXCEPT !.at = "walk"]

(* What execute() does before its first await: spawn, fetch, read, or call *)
(* the file writer.                                                        *)
FirstAwait(kind) ==
  LET b == [NoBody EXCEPT !.tool = kind]
  IN  CASE kind = "bash"             -> Spawned(b, "shell", TRUE)
        [] kind \in {"grep", "glob"} -> FirstSearch(b)
        [] kind = "fetch"            -> [b EXCEPT !.at = "headers", !.timer = "armed"]
        [] kind \in {"read", "edit"} -> [b EXCEPT !.at = "file"]
        [] kind = "write"            -> [b EXCEPT !.at = "writing"]
        [] kind = "custom"           -> [b EXCEPT !.at = "custom"]

(* A permission is missing, or the URL or the path is refused.  glob asks  *)
(* for nothing, and bash asks the policy.                                  *)
MayDeny(kind) ==
  kind \notin {"glob", "custom"} /\ (kind = "bash" => MayBeRejected)

(* The command that bash is called with, once it is allowed.               *)
MayDo(kind) == IF kind = "bash" THEN Permitted ELSE {{}}

Starts(c) ==
  /\ Dispatch(c)
  /\ IF exec'[c] # "running" THEN UNCHANGED body
     ELSE \E kind \in Kinds :
            \/ \E does \in MayDo(kind) :
                 body' = [body EXCEPT ![c] = [FirstAwait(kind) EXCEPT !.does = does]]
            \/ /\ MayDeny(kind)
               /\ body' = [body EXCEPT ![c].tool = kind, ![c].at = "denied"]
  /\ UNCHANGED available

Denied(c) ==
  /\ body[c].at = "denied"
  /\ Ends(c, IF body[c].tool = "bash" THEN "error" ELSE "threw")
  /\ UNCHANGED available

-----------------------------------------------------------------------------
(* Child processes.  An action here is the "close" or "error" event and    *)
(* what follows it up to the next await.                                   *)

Exits(c, at) == body[c].at = at /\ body[c].child \in {"alive", "told"}

ShellExits(c) ==
  /\ Exits(c, "shell")
  /\ \E ending \in {"ok", "threw"} : Ends(c, ending)
  /\ UNCHANGED available

(* throwIfAborted of grep and glob, before what they go on with.           *)
OrThrows(c, b) ==
  \/ ~signalled[c] /\ Goes(c, b)
  \/ signalled[c] /\ Ends(c, IF body[c].tool = "grep" THEN "saysAborted" ELSE "threwAbort")

(* isRgAvailable, whose answer is kept for good, and then the first search *)
(* with ripgrep, whatever became of the call meanwhile.                    *)
ProbeExits(c) ==
  /\ Exits(c, "probe")
  /\ \/ /\ available' = "yes"
        /\ Goes(c, Rg(c, body[c], SearchOf(body[c].tool)))
     \/ /\ available' = "no"
        /\ OrThrows(c, Rested(body[c], "walk"))

(* The search of grep.  If it fails or was stopped, the Node fallback      *)
(* begins with a list of the files, for which ripgrep is tried once more.  *)
SearchExits(c) ==
  /\ Exits(c, "search")
  /\ \/ body[c].child = "alive" /\ Ends(c, "ok")
     \/ OrThrows(c, IF available = "yes" THEN Rg(c, body[c], "list")
                    ELSE Rested(body[c], "walk"))
  /\ UNCHANGED available

(* A list of files is the answer of glob, and for grep what to read.       *)
Listed(c) ==
  \/ body[c].tool = "glob" /\ Ends(c, "ok")
  \/ body[c].tool = "grep" /\ OrThrows(c, Rested(body[c], "scan"))

ListExits(c) ==
  /\ Exits(c, "list")
  /\ \/ body[c].child = "alive" /\ Listed(c)
     \/ OrThrows(c, Rested(body[c], "walk"))
  /\ UNCHANGED available

(* walkDirectory looks at the signal between its reads.  Its last read may *)
(* be of an empty directory; an unreadable one throws.                     *)
WalkReturns(c) ==
  /\ body[c].at = "walk"
  /\ \/ Listed(c)
     \/ Ends(c, "threw")
     \/ signalled[c] /\ Ends(c, "threwAbort")
  /\ UNCHANGED available

(* Files that cannot be read are skipped.                                  *)
ScanReturns(c) ==
  /\ body[c].at = "scan"
  /\ \/ Ends(c, "ok")
     \/ signalled[c] /\ Ends(c, "saysAborted")
  /\ UNCHANGED available

(* The tool's own timer: the process is killed, the fetch aborted.         *)
OwnTimerFires(c) ==
  /\ body[c].timer = "armed"
  /\ Goes(c, [body[c] EXCEPT !.timer = "fired", !.child = Told(@)])
  /\ UNCHANGED available

-----------------------------------------------------------------------------
(* web_fetch.  Its own controller is aborted by its timer or by the signal *)
(* of the call, and then neither the response nor its text arrives.        *)

FetchAborted(c) == body[c].timer = "fired" \/ signalled[c]

ResponseArrives(c) ==
  /\ body[c].at = "headers"
  /\ ~FetchAborted(c)
  /\ \/ Goes(c, [body[c] EXCEPT !.at = "reading"])
     \/ Ends(c, "threw")   \* an HTTP error, or not a text
  /\ UNCHANGED available

TextArrives(c) ==
  /\ body[c].at = "reading"
  /\ ~FetchAborted(c)
  /\ Ends(c, "ok")
  /\ UNCHANGED available

NormalizedError_Aborted(c) == IF FetchAborted(c) THEN "saysAborted" ELSE "threw"

(* normalizeFetchError *)
NormalizedError(c) ==
  IF body[c].timer = "fired" THEN "saysTimeout"
  ELSE IF signalled[c] THEN "saysAborted"
  ELSE "threw"

FetchFails(c) ==
  /\ body[c].at \in {"headers", "reading"}
  /\ Ends(c, NormalizedError(c))
  /\ UNCHANGED available

-----------------------------------------------------------------------------
(* Files.                                                                  *)

StillWrites_Unasked(c) == TRUE

(* throwIfAborted of edit_file, after it has read the file.                *)
StillWrites(c) == ~signalled[c]

(* The text to replace may be missing or ambiguous.                        *)
FileRead(c) ==
  /\ body[c].at = "file"
  /\ \/ Ends(c, "threw")
     \/ body[c].tool = "read" /\ Ends(c, "ok")
     \/ /\ body[c].tool = "edit"
        /\ \/ StillWrites(c) /\ Goes(c, [body[c] EXCEPT !.at = "writing"])
           \/ ~StillWrites(c) /\ Ends(c, "saysAborted")
  /\ UNCHANGED available

FileWritten(c) ==
  /\ body[c].at = "writing"
  /\ \E ending \in {"ok", "threw"} : Ends(c, ending)
  /\ UNCHANGED available

(* A tool that is not built in ends as it likes.                           *)
CustomEnds(c) ==
  /\ body[c].at = "custom"
  /\ \E ending \in Ending : Ends(c, ending)
  /\ UNCHANGED available

BodyStep(c) ==
  \/ Denied(c) \/ ShellExits(c) \/ ProbeExits(c) \/ SearchExits(c) \/ ListExits(c)
  \/ WalkReturns(c) \/ ScanReturns(c) \/ OwnTimerFires(c)
  \/ ResponseArrives(c) \/ TextArrives(c) \/ FetchFails(c)
  \/ FileRead(c) \/ FileWritten(c) \/ CustomEnds(c)

-----------------------------------------------------------------------------
(* The steps of the runner, and what they do to the bodies.                *)

(* The abort event of a call's signal.  Of the built-in tools none settles *)
(* within it; one that is not built in may.                                *)
Heard_Deaf(b) == b

Heard(b) == [b EXCEPT !.child = Told(@), !.listens = FALSE]

SignalsHeard ==
  /\ \A c \in Calls : exec'[c] # exec[c] => body[c].tool = "custom"
  /\ body' = [c \in Calls |->
                IF exec'[c] # exec[c] THEN Rested(body[c], "ended")
                ELSE IF signalled'[c] /\ body[c].listens THEN Heard(body[c])
                ELSE body[c]]
  /\ UNCHANGED available

TimesOut(c) == TimerFires(c) /\ SignalsHeard

Aborts == AbortRun /\ SignalsHeard

(* Only bash streams, while its process has its pipes open.                *)
Streams(c) ==
  /\ body[c].at \in {"shell", "custom"}
  /\ Stream(c)
  /\ UNCHANGED <<body, available>>

Runs(c) ==
  /\ Begin(c) \/ Refuse(c) \/ Return(c)
  /\ UNCHANGED <<body, available>>

ToolsInit ==
  /\ Init
  /\ body = [c \in Calls |-> NoBody]
  /\ available \in {"unknown", "yes", "no"}

CallStep(c) == Runs(c) \/ Starts(c) \/ BodyStep(c) \/ Streams(c) \/ TimesOut(c)

ToolsNext ==
  \/ \E c \in Calls : CallStep(c)
  \/ Aborts
  \/ Finished /\ UNCHANGED toolVars

(* The runner's own steps and its timer are fair; the tool's are not.      *)
(* Return waits for the event callback, which in this program is           *)
(* ToolRuntime.handleRunnerEvent, a synchronous function.                  *)
Fairness ==
  \A c \in Calls :
    /\ WF_toolVars(Runs(c)) /\ WF_toolVars(Starts(c)) /\ WF_toolVars(TimesOut(c))

ToolsSpec == ToolsInit /\ [][ToolsNext]_toolVars /\ Fairness

-----------------------------------------------------------------------------
(* Properties.                                                             *)

(* A code blames the right cause.  A built-in tool, or the runner for it,  *)
(* reports an abort only of a run that was aborted, whatever its timers    *)
(* and errors, and a timeout only when a timer went off.                   *)
ResultNamesItsCause ==
  \A c \in Calls : body[c].tool # "custom" =>
    /\ result[c] = "aborted" => aborted
    /\ result[c] = "timeout" =>
         \/ timer[c] = "fired"
         \/ body[c].tool = "fetch" /\ body[c].timer = "fired"

(* The runner reports each call once, in order, and with its cause.        *)
CallsAreReported == EventProtocol /\ ResultNamesItsCause

(* What goes on after its call was closed has been told to stop: its call  *)
(* timed out or was aborted, its signal is aborted, its process killed.    *)
(* The exception is ripgrep, spawned for a search after its probe: its own *)
(* timer will kill it.  A body that has ended leaves no process.           *)
GivenUpIsStopped ==
  /\ GivenUpIsSignalled
  /\ \A c \in Calls :
       /\ exec[c] = "running" /\ result[c] # "none" /\ body[c].child = "alive" =>
            body[c].at \in {"probe", "search", "list"} /\ body[c].timer = "armed"
       /\ exec[c] = "ended" => body[c].child \in {"none", "gone"}

(* A closed call keeps its result, no tool starts to execute after an      *)
(* abort, and a tool the runner has given up on begins no write and no     *)
(* command any more: only what it had begun may still take effect.         *)
NothingBegunAfterGivingUp ==
  [][/\ SettledStep
     /\ \A c \in Calls :
          result[c] # "none" /\ body'[c].at \in {"shell", "writing"} => body'[c].at = body[c].at]_toolVars

(* With a timeout every call returns, whatever its tool does.              *)
EveryCallReturns == <>(turn = NumCalls + 1)
=============================================================================
