------------------------------ MODULE MCVerifier ------------------------------
EXTENDS Verifier, TLC

(* One command, at least, for each pattern, category and rule.             *)
MCDoes ==
  LET row(effect, commands) == [c \in commands |-> effect] IN
  row("reads", {<<"git", "status">>, <<"git", "--force">>, <<"git", "log", "'a && b'">>, <<"node", "file">>})
  @@ row("verifies", {<<"pnpm", "test">>, <<"npm", "run", "build">>, <<"npm", "test">>,
                      <<"yarn", "run", "lint">>})
  @@ row("branches", {<<"git", "branch", "name">>})
  @@ row("option", {<<"git", "diff", "--output">>, <<"pnpm", "lint", "--fix">>})
  @@ row("formats", {<<"pnpm", "format">>, <<"npm", "run", "lint:fix">>, <<"eslint", "--fix">>,
                     <<"prettier", "--write">>})
  @@ row("depends", {<<"pnpm", "add", "name">>, <<"npm", "install">>})
  @@ row("commits", {<<"git", "branch", "-d", "name">>, <<"git", "commit", "-m", "'a && b'">>,
                     <<"git", "push">>, <<"git", "reset", "--hard">>, <<"git", "clean", "-fd">>})
  @@ row("connects", {<<"curl", "name">>})
  @@ row("deletes", {<<"rm", "file">>, <<"rm", "-rf", "file">>, <<"del", "file">>,
                     <<"remove-item", "file", "-recurse">>, <<"shutdown">>})
  @@ row("other", {<<"sh">>, <<"name">>})

MCFlags == {"-d", "-D", "-m", "-M", "--delete", "--force", "--move", "--set-upstream-to",
            "--unset-upstream", "--hard", "-fd", "-rf", "-recurse", "--fix", "--write",
            "--output", "-x>file"}

MCProfiles ==
  [packageManager : {"pnpm", "npm", "yarn", "unknown"},
   scripts : {{}, {"test"}, {"lint"}, {"build", "test"}}]
=============================================================================
