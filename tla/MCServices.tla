----------------------------- MODULE MCServices -----------------------------
(* The parts of monad that share nothing: in each behaviour one of them    *)
(* moves, from any of its initial states, and the others rest.             *)
EXTENDS Toolchain, Plugins, Supervise, HostedCache, McpInstall, Announce, Setup, Release, Deploys, TLC

CONSTANTS a1, a2, b1, c1, c2, f1, i1, i2, w1, d0, d1, d2

MCProcessOf == [i \in {a1, a2, b1} |-> IF i = b1 THEN "command" ELSE "ci"]
MCRequests == {[adapter |-> "python-uv", unit |-> "pin", repo |-> "none", detected |-> TRUE],
               [adapter |-> "node-pnpm", unit |-> "none", repo |-> "pin", detected |-> TRUE]}
MCHosts == {[os |-> "linux", arch |-> "x86_64"], [os |-> "windows", arch |-> "x86_64"]}

Scripts == {"build", "dev"}
MCUser == UnitBody(Unit("y", "go", {}), "user")
MCText == Text(<<"a", "end", "b", "begin", "old", "end", "c">>)
MCLayout(y, lock, files) ==
  [base |-> d0 :> "r" @@ d1 :> "x" @@ d2 :> y, files |-> files,
   folders |-> d0 :> {"readme"} @@ d1 :> {"go.mod"} @@ d2 :> lock]
AnyLayout == MCLayout("y", {}, <<>>)
MCLayouts == {AnyLayout, MCLayout("x", {"package-lock.json"}, Profile("extra") :> Listing("prod", {})),
              MCLayout("y", {}, TextFile("AGENTS.md") :> MCText @@ UnitFile(d1) :> MCUser),
              MCLayout("y", {}, RepoFile :> RepoBody @@ Prod :> Listing("prod", {d1}) @@ UnitFile(d1) :> MCUser
                                  @@ TextFile("AGENTS.md") :> Text(<<"a">>))}
MCPackages == d0 :> [name |-> NoName, scripts |-> Scripts] @@ d1 :> [name |-> "x", scripts |-> Scripts]
                @@ d2 :> [name |-> NoName, scripts |-> {"build"}]
MCMake == [lines |-> <<[kind |-> "recipe"], [kind |-> "header", names |-> <<"all", "clean">>], [kind |-> "recipe"],
                       [kind |-> "other"], [kind |-> "header", names |-> <<"clean">>], [kind |-> "recipe"]>>]
Target(e, c) == [executor |-> e, command |-> c]
MCRepos ==
  [tool \in Tools |->
     CASE tool = "turbo" ->
            {[workspaces |-> w, pipeline |-> {"build", "test"}, persistent |-> {"dev"}, packages |-> MCPackages] :
               w \in {<<>>, <<{d1, d2}, {d2}>>}}
       [] tool = "lerna" ->
            {[client |-> "pnpm", useWorkspaces |-> u, globs |-> g, workspaces |-> <<{d1}>>, packages |-> MCPackages] :
               u \in {"unset", "no"}, g \in {<<>>, <<{d1, d2}>>}}
       [] tool = "nx" ->
            {[layout |-> l, defaults |-> "dev" :> "vite:dev-server",
              projects |-> d1 :> [name |-> NoName,
                                  targets |-> "dev" :> Target(NoExecutor, FALSE) @@ "build" :> Target("js:tsc", FALSE)
                                               @@ "test" :> Target(NoExecutor, TRUE)]] : l \in {{}, {d1}, {d2}}}
       [] tool = "moon" ->
            {[byGlob |-> g, entries |-> <<d1, d2, d1>>, exists |-> {d1, d2},
              projects |-> d1 :> [language |-> "rust",
                                  tasks |-> "build" :> [command |-> TRUE, args |-> FALSE]
                                             @@ "all" :> [command |-> FALSE, args |-> FALSE]]] : g \in BOOLEAN}
       [] tool = "make" -> {MCMake, [lines |-> SubSeq(MCMake.lines, 1, 3)]}
       [] tool = "rush" ->
            {[versions |-> {"pnpm"}, packages |-> MCPackages,
              projects |-> <<[dir |-> d1, package |-> "x"], [dir |-> d2, package |-> n]>>] : n \in {"x", "z"}}]

MCNamedIssues == c1 :> {c2}

MCListed == <<"core", "cli">>
MCFirst  == <<0, 1, 0>>
MCExplicit == {<<0, 1, 1>>}

UnitWith(files, blocks, overrides, notes, container, image) ==
  [files |-> files, blocks |-> blocks, overrides |-> overrides, notifications |-> notes,
   execution |-> [mode |-> container, image |-> image]]
MCPage == [name |-> "page", env |-> {"PAGER"}, requires |-> {"PAGER"}, cli |-> {"curl"}]
MCUnits ==
  {UnitWith({"vercel.json"}, "slack" :> << >>, << >>, {}, m, TRUE) : m \in {"auto", "never"}} \cup
  {UnitWith({"vercel.json"}, "slack" :> [webhook_url_env |-> "HOOK"], "vercel:deploy" :> {}, {}, "always", FALSE),
   UnitWith({".railway"}, "railway" :> [services |-> <<"Web App", "api", "web-app">>, root |-> "srv"],
            << >>, {MCPage}, "auto", TRUE),
   UnitWith({"railway.toml"}, "railway" :> [root |-> "srv"] @@ "cloudflare_pages" :> << >>, << >>, {}, "never", FALSE),
   UnitWith({"wrangler.toml"}, "cloudflare_worker" :> [env |-> "staging"] @@ "cloudflare_pages" :> [project |-> "docs"]
              @@ "railway" :> [service |-> "api"] @@ "linear" :> << >>, << >>, {}, "auto", FALSE)}
MCSlug   == "Web App" :> "web-app" @@ "web-app" :> "web-app" @@ "api" :> "api"
MCLinked == "unit" :> "api" @@ "root" :> "web-app"
MCEnvs   == "staging" :> ("VERCEL_TOKEN" :> "STAGING_TOKEN" @@ "RAILWAY_TOKEN" :> "STAGING_TOKEN")
MCFull   == "VERCEL_TOKEN" :> "prod" @@ "STAGING_TOKEN" :> "staging" @@ "SLACK_WEBHOOK_URL" :> "hook"
              @@ "LINEAR_API_KEY" :> "key" @@ "RAILWAY_TOKEN" :> "prod" @@ "RAILWAY_SERVICE" :> "web-app"
              @@ "PAGER" :> "pager"
MCThin   == "VERCEL_TOKEN" :> "prod" @@ "RAILWAY_TOKEN" :> "prod" @@ "STAGING_TOKEN" :> "" @@ "MINE" :> "mine"
MCDeploys ==
  {[kind |-> k, env |-> e, secretFrom |-> << >>, notify |-> e = NoEnv, failFast |-> b, host |-> h,
    runtime |-> b, clis |-> {"vercel", "railway", "wrangler", "monad", "curl"}] :
     k \in {"deploy", "deploy_preview", "notify"}, e \in {NoEnv, "staging", "typo"}, b \in BOOLEAN, h \in {MCFull, MCThin}} \cup
  {[kind |-> "deploy", env |-> "staging", secretFrom |-> "VERCEL_TOKEN" :> "MINE", notify |-> TRUE,
    failFast |-> TRUE, host |-> "RAILWAY_TOKEN" :> "prod" @@ "MINE" :> "mine", runtime |-> FALSE,
    clis |-> {"vercel", "railway"}]}

VARIABLE part

vars == <<part, toolchainVars, pluginVars, superviseVars, hostedVars, installVars, announceVars, setupVars, releaseVars, deployVars>>

Init ==
  /\ part \in {"toolchain", "plugin", "supervise", "hosted", "install", "announce", "setup", "release", "deploys"}
  /\ StoreInit /\ PluginInit /\ AnnounceInit /\ ReleaseInit
  /\ DeploysInit /\ (part = "deploys" \/ unit = CHOOSE u \in UnitConfigs : TRUE)
  /\ SuperviseInit /\ (part = "supervise" \/ (command = "dev" /\ ~ catchAll))
  /\ HostedInit
  /\ \/ part = "hosted"
     \/ /\ token = [env |-> NoToken, keychain |-> NoToken, file |-> NoToken]
        /\ keyring = [reads |-> TRUE, writes |-> TRUE]
  /\ InstallInit /\ present = HomeOnly /\ (part = "install" \/ config = [c \in Clients |-> Absent])
  /\ SetupInit /\ (part = "setup" \/ layout = AnyLayout)

Next ==
  \/ /\ part = "toolchain" /\ StoreNext
     /\ UNCHANGED <<part, deployVars, releaseVars, setupVars, pluginVars, superviseVars, hostedVars, installVars, announceVars>>
  \/ /\ part = "plugin" /\ PluginNext
     /\ UNCHANGED <<part, deployVars, releaseVars, setupVars, toolchainVars, superviseVars, hostedVars, installVars, announceVars>>
  \/ /\ part = "supervise" /\ SuperviseNext
     /\ UNCHANGED <<part, deployVars, releaseVars, setupVars, toolchainVars, pluginVars, hostedVars, installVars, announceVars>>
  \/ /\ part = "hosted" /\ HostedNext
     /\ UNCHANGED <<part, deployVars, releaseVars, setupVars, toolchainVars, pluginVars, superviseVars, installVars, announceVars>>
  \/ /\ part = "install" /\ InstallNext
     /\ UNCHANGED <<part, deployVars, releaseVars, setupVars, toolchainVars, pluginVars, superviseVars, hostedVars, announceVars>>
  \/ /\ part = "announce" /\ AnnounceNext
     /\ UNCHANGED <<part, deployVars, releaseVars, setupVars, toolchainVars, pluginVars, superviseVars, hostedVars, installVars>>
  \/ /\ part = "setup" /\ SetupNext
     /\ UNCHANGED <<part, deployVars, releaseVars, toolchainVars, pluginVars, superviseVars, hostedVars, installVars, announceVars>>
  \/ /\ part = "release" /\ ReleaseNext
     /\ UNCHANGED <<part, deployVars, setupVars, toolchainVars, pluginVars, superviseVars, hostedVars, installVars, announceVars>>
  \/ /\ part = "deploys" /\ DeploysNext
     /\ UNCHANGED <<part, releaseVars, setupVars, toolchainVars, pluginVars, superviseVars, hostedVars, installVars, announceVars>>

(* The plugin host goes on and its deadlines pass.  Of the plugin nothing  *)
(* is asked, nor of the processes it leaves behind; a pipe that nobody     *)
(* holds ends.  The loop of supervise_unit goes on.  A part that rests is  *)
(* asked nothing.                                                          *)
Fairness ==
  /\ WF_pluginVars(part = "plugin" /\ ClientStep)
  /\ WF_pluginVars(part = "plugin" /\ TimeoutCall)

  /\ WF_pluginVars(part = "plugin" /\ child = "dead" /\ ReaderEnds)
  /\ WF_superviseVars(part = "supervise" /\ SuperviseStep)

Spec == Init /\ [][Next]_vars /\ Fairness

(* Every variable of the part that moves has its type; the others are as   *)
(* they began, which is where theirs begin.                                *)
ServicesTypeOK ==
  CASE part = "toolchain" -> StoreTypeOK
    [] part = "plugin"    -> PluginTypeOK
    [] part = "supervise" -> SuperviseTypeOK
    [] part = "hosted"    -> HostedTypeOK
    [] part = "install"   -> InstallTypeOK
    [] part = "announce"  -> AnnounceTypeOK
    [] part = "setup"     -> SetupTypeOK
    [] part = "release"   -> ReleaseTypeOK
    [] part = "deploys"   -> DeploysTypeOK
=============================================================================
