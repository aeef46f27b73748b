---------------------------- MODULE CommandPolicy ----------------------------
(***************************************************************************)
(* The command policy of src/src/runtime/policy: what it decides of a      *)
(* command line, as operators.  The bash tool and the verifier ask it      *)
(* before they spawn (modules Tools and Verifier).                         *)
(*                                                                         *)
(* A line is the sequence of its words.  The operators the parser knows    *)
(* are words, and so is a quoted text that holds one.  The shell knows     *)
(* more of them: see Rulings.  Letter case, escapes, risk levels and the   *)
(* wording of a decision are left out.                                     *)
(***************************************************************************)
EXTENDS Naturals, SequencesExt

CONSTANTS
  Does,       \* what the shell does for each command under consideration
  Flags,      \* the words that begin with a dash
  Profiles    \* what the scanner may have found in the workspace

Effects == {"reads", "verifies", "branches", "formats", "depends", "commits", "connects",
            "deletes", "writes", "other", "option", "unseen"}

(* detectPackageManager finds one of three, or none of them.               *)
ASSUME PolicyAssumption ==
  /\ \A command \in DOMAIN Does : command \in Seq(STRING) \ {<<>>} /\ Does[command] \in Effects
  /\ Profiles # {}
  /\ \A profile \in Profiles : profile.packageManager \in {"pnpm", "npm", "yarn", "unknown"}

-----------------------------------------------------------------------------
(* parseCommand *)

ControlOperator == {"&&", "||", ";"}
Separator == ControlOperator \cup {"|"}
Quoted == {"'a && b'"}

(* The text is searched for control operators, in quotes or not; a pipe is *)
(* looked for outside quotes, and found in an "or" as well.                *)
HasControlOperator(line) == ToSet(line) \cap (ControlOperator \cup Quoted) # {}
HasPipe(line) == ToSet(line) \cap {"|", "||"} # {}
HasRedirection(line) == Contains(line, ">")
HasCommandSubstitution(line) == Contains(line, "$(")

Segments(line) ==
  LET add(segments, word) ==
        IF word \in Separator THEN Append(segments, <<>>)
        ELSE Append(Front(segments), Append(Last(segments), word))
      isText(segment) == segment # <<>>
  IN  SelectSeq(FoldLeft(add, << <<>> >>, line), isText)

Word(words, i) == IF i \in DOMAIN words THEN words[i] ELSE ""

(* The first of these cases that applies.                                  *)
FirstOf(cases) ==
  LET applies(c) == c.when IN cases[SelectInSeq(cases, applies)].is

-----------------------------------------------------------------------------
(* classifyCommand *)

VerificationScripts  == {"typecheck", "build", "test", "lint"}
FormatScripts        == {"format", "format:fix", "lint:fix"}
PackageManagers      == {"pnpm", "npm", "yarn"}
DependencyMutations  == {"add", "install", "remove", "uninstall", "update"}
GitReadCommands      == {"status", "diff", "log", "show", "branch"}
GitWriteCommands     == {"add", "branch", "commit", "checkout", "clean", "merge", "pull",
                         "push", "rebase", "reset", "restore", "stash", "switch", "tag"}
NetworkCommands      == {"curl", "wget", "ssh", "scp", "sftp", "invoke-webrequest", "iwr"}
DestructiveFsCommands == {"rm", "del", "erase", "rmdir", "rd", "remove-item", "shutdown"}
Interpreters         == {"bash", "sh", "zsh", "pwsh", "powershell", "fish", "python", "python3",
                         "node", "ruby", "perl"}

GitWriteFlags == {"-d", "-D", "-m", "-M", "--delete", "--force", "--move",
                  "--set-upstream-to", "--unset-upstream"}

Manager(profile) ==
  IF profile.packageManager = "unknown" THEN "npm" ELSE profile.packageManager

(* npm needs "run" before the name of a script, pnpm and yarn do not.      *)
PackageScriptName(words) ==
  CASE Word(words, 2) = "run"                        -> Word(words, 3)
    [] Word(words, 2) # "run" /\ words[1] # "npm"    -> Word(words, 2)
    [] Word(words, 2) # "run" /\ words[1] = "npm"    -> ""

IsScript(words, names) ==
  words[1] \in PackageManagers /\ PackageScriptName(words) \in names

IsPackageScript(words, profile, names) ==
  /\ IsScript(words, names)
  /\ PackageScriptName(words) \in profile.scripts
  /\ words[1] = Manager(profile)

IsFormat(words) ==
  \/ IsScript(words, FormatScripts)
  \/ words[1] = "prettier" /\ Contains(words, "--write")
  \/ words[1] = "eslint" /\ Contains(words, "--fix")

IsDependencyMutation(words) ==
  words[1] \in PackageManagers /\ Word(words, 2) \in DependencyMutations

GitSubcommand(words) ==
  LET isName(word) == word \notin Flags
  IN  Word(Tail(words), SelectInSeq(Tail(words), isName))

GitReads(words) ==
  GitSubcommand(words) \in GitReadCommands /\ ToSet(words) \cap GitWriteFlags = {}

GitCategory(words) ==
  FirstOf(<<[when |-> GitReads(words),                            is |-> "git_read"],
            [when |-> GitSubcommand(words) \in GitWriteCommands,  is |-> "git_write"],
            [when |-> TRUE,                                       is |-> "unknown"]>>)

CategoryOfSegment(words, profile) ==
  FirstOf(<<
    [when |-> words[1] \in DestructiveFsCommands,                    is |-> "destructive_fs"],
    [when |-> IsPackageScript(words, profile, VerificationScripts),  is |-> "verification"],
    [when |-> IsFormat(words),                                       is |-> "format"],
    [when |-> IsDependencyMutation(words),                           is |-> "dependency_mutation"],
    [when |-> words[1] = "git",                                      is |-> GitCategory(words)],
    [when |-> words[1] \in NetworkCommands,                          is |-> "network"],
    [when |-> TRUE,                                                  is |-> "unknown"]>>)

IsComposed_WithoutPipes(line) ==
  HasControlOperator(line) \/ HasRedirection(line) \/ HasCommandSubstitution(line)

IsComposed(line) ==
  HasControlOperator(line) \/ HasPipe(line) \/ HasRedirection(line) \/ HasCommandSubstitution(line)

(* A line that is not composed is a single segment.                        *)
Category(line, profile) ==
  IF IsComposed(line) THEN "shell_composition"
  ELSE IF line = <<>> THEN "unknown"
  ELSE CategoryOfSegment(line, profile)

-----------------------------------------------------------------------------
(* The ordered rules.                                                      *)

(* isDangerous: patterns over the whole text, whatever stands between.     *)
IsDangerous(words) ==
  LET then(i, word) == Word(words, i + 1) = word
      later(i, set) == \E j \in i + 1..Len(words) : words[j] \in set
  IN  \E i \in DOMAIN words :
        \/ words[i] = "rm" /\ then(i, "-rf")
        \/ words[i] \in {"del", "erase", "rmdir", "rd"} /\ i < Len(words)
        \/ words[i] = "remove-item" /\ later(i, {"-recurse"})
        \/ words[i] = "shutdown"
        \/ words[i] = "git" /\ then(i, "reset") /\ later(i + 1, {"--hard"})
        \/ words[i] = "git" /\ then(i, "clean") /\ later(i + 1, {"-fd"})
        \/ /\ words[i] \in {"curl", "wget"}
           /\ \E j \in i + 1..Len(words) :
                words[j] = "|" /\ Word(words, j + 1) \in {"bash", "sh", "zsh", "pwsh", "powershell"}

IsDangerousComposition(line, profile) ==
  LET last == Last(Segments(line))
  IN  \/ HasCommandSubstitution(line)
      \/ /\ HasPipe(line) /\ Segments(line) # <<>>
         /\ last[1] \in Interpreters \/ CategoryOfSegment(last, profile) = "destructive_fs"
      \/ \E segment \in ToSet(Segments(line)) : IsDangerous(segment)

(* CommandPolicy.evaluate: the first rule that matches decides.            *)
Decision(line, profile) ==
  LET category == Category(line, profile)
  IN  FirstOf(<<
        [when |-> line = <<>>,                         is |-> "deny"],
        [when |-> IsDangerous(line),                   is |-> "deny"],
        [when |-> category = "shell_composition",
           is |-> IF IsDangerousComposition(line, profile) THEN "deny" ELSE "ask"],
        [when |-> category = "verification",           is |-> "allow"],
        [when |-> category = "git_read",               is |-> "allow"],
        [when |-> category = "format",                 is |-> "ask"],
        [when |-> category = "dependency_mutation",    is |-> "ask"],
        [when |-> category = "git_write",              is |-> "ask"],
        [when |-> category = "network",                is |-> "ask"],
        [when |-> TRUE,                                is |-> "deny"]>>)

(* CommandPolicy.canRun *)
CanRun(line, profile) == Decision(line, profile) = "allow"

-----------------------------------------------------------------------------
(* What may be asked to run, and for each line what the shell does when it *)
(* runs it.                                                                *)

Commands == DOMAIN Does

ReadsByName(words) == words[1] = "git" /\ GitReads(words)

VerifiesByName(words) == IsScript(words, VerificationScripts)

(* What the policy takes for granted of the commands themselves: a git     *)
(* command named for reading reads, and a script named for verifying       *)
(* verifies.  Two things it does not look for: "git branch" may make a     *)
(* branch, and an option that GitWriteFlags does not list, as the one that *)
(* names an output file, may make either do something else.                *)
ASSUME NamesAssumption ==
  \A command \in Commands :
    /\ ReadsByName(command)    => Does[command] \in {"reads", "branches", "option"}
    /\ VerifiesByName(command) => Does[command] \in {"verifies", "option"}
    /\ Does[command] = "branches" =>
         ReadsByName(command) /\ GitSubcommand(command) = "branch"
    /\ Does[command] = "option" =>
         /\ ReadsByName(command) \/ VerifiesByName(command)
         /\ ToSet(command) \cap Flags # {}
    /\ Does[command] # "unseen"

(* The shell has joins that the parser does not look for: a single "&", a  *)
(* newline, which is a blank to tokenize, and ">" without a blank before   *)
(* it, which makes one word of the text around it.                         *)
Background == "&"

GluedRedirection(word) == IF word \in Flags THEN "-x>file" ELSE "x>file"

ASSUME FlagsAssumption ==
  /\ GitWriteFlags \cup {"-x>file"} \subseteq Flags
  /\ {Background, "x>file"} \cap Flags = {}

Ruling(line, profile, does) == [allowed |-> CanRun(line, profile), does |-> does]

(* No command, one command, or two joined by an operator of the parser.    *)
SeenRulings ==
  {Ruling(<<>>, profile, {}) : profile \in Profiles}
  \cup {Ruling(first, profile, {Does[first]}) : first \in Commands, profile \in Profiles}
  \cup {Ruling(first \o <<">", "file">>, profile, {Does[first], "writes"}) :
          first \in Commands, profile \in Profiles}
  \cup {Ruling(first \o <<join>> \o second, profile, {Does[first], Does[second]}) :
          first \in Commands, second \in Commands,
          join \in Separator \cup {"$("}, profile \in Profiles}

(* Two commands joined by what the parser does not look for.  It knows the *)
(* first one by its own words before a single "&", and neither of them if  *)
(* it takes the words of both for one command or does not tell two words   *)
(* apart.                                                                  *)
UnseenRulings ==
  {Ruling(first \o <<Background>> \o second, profile, {Does[first], "unseen"}) :
     first \in Commands, second \in Commands, profile \in Profiles}
  \cup {Ruling(first \o second, profile, {"unseen"}) :
          first \in Commands, second \in Commands, profile \in Profiles}
  \cup {Ruling(Front(first) \o <<GluedRedirection(Last(first))>>, profile, {"unseen"}) :
          first \in Commands, profile \in Profiles}

Rulings == SeenRulings \cup UnseenRulings

(* What a command that is allowed to run may do.                           *)
Permitted == {r.does : r \in {q \in Rulings : q.allowed}}

MayBeRejected == \E r \in Rulings : ~r.allowed
=============================================================================
