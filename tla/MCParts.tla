---------------------------------- MODULE MCParts ----------------------------------
(***************************************************************************)
(* The components that share no state with the launch protocol or with each *)
(* other, checked by one run.  A behaviour is one component's, the one that *)
(* `focus' names; the others rest.  Where a component has more initial      *)
(* states than the question needs, PartsInit names the bound.               *)
(***************************************************************************)
EXTENDS UpdateCache, ResourceScopes, CommandAdmission, WatchedService, Verification,
        UpdateTransaction, CandidateExport, StagedFormat, HookInstall, OperationAdmission,
        HookScan, LogFollow, DevelopmentSession, StorageAssets, ConsentPrompt, TaskTerminal,
        DependencySteps, AuditReport, TLC

TwoTrees == [c \in Client |-> IF c = "b1" THEN "B" ELSE "A"]

\* Update steps: adapter "b" is a toolchain, "a" a package manager; "h" is a target
\* that only hooks serve.
Phases2 == ("a" :> 2) @@ ("b" :> 1)
Resolver(n) == [kind |-> "resolve", targets |-> {n}]
Hook(targets) == [kind |-> "hook", targets |-> targets]
StepOrders == {<<Resolver("b"), Resolver("a"), Hook({})>>,
               <<Resolver("a"), Resolver("b"), Hook({"h"})>>,
               <<Resolver("b"), Hook({"a"}), Resolver("a")>>}
ListsInUse == {<<1, "all">>, <<2, "all">>, <<2, "a">>}

VARIABLE focus \* the component whose behaviour this is

Parts == {"cache", "scopes", "commands", "watch", "sweep", "update", "export", "format",
          "hooks", "operations", "scan", "log", "development", "assets", "consent", "terminal",
          "steps", "audit"}
Pick(S) == CHOOSE x \in S : TRUE

\* The other components rest in one of their initial states.
PartsInit ==
  /\ focus \in Parts
  /\ CacheInit
  /\ focus = "cache" \/ (/\ context = Pick(Daemon)
                         /\ \A u \in Update : ~upd[u].old)
  /\ context = Pick(Daemon)
  /\ ScopesInit /\ (focus = "scopes" \/ (inputs = [c \in Client |-> 1] /\ ~disposable))
  /\ volume = 1 /\ inputs[Pick(Client)] = 1 /\ reset.of = Pick(Tree)
  /\ AdmissionInit /\ (focus = "commands" \/ ~container)
  /\ WatchInit
  /\ SweepInit /\ (focus = "sweep" \/ (needs = [g \in Gate |-> {}] /\ live = {} /\ ~unsafe))
  /\ UpdateInit /\ (focus = "update" \/ worker = Pick(WorkerChoices))
  /\ ExportInit /\ (focus = "export" \/ flow = "source")
  /\ FormatInit /\ (focus = "format" \/ work = [f \in Staged |-> Raw(0)])
  /\ HookInit
  /\ focus = "hooks" \/ (/\ ~ownConfig
                         /\ files = Repository(FALSE, FALSE, "none"))
  /\ OpInit
  /\ ScanInit
  /\ focus = "scan" \/ (/\ parents = [c \in Commits |-> {}]
                        /\ policy = {}
                        /\ \A c, d \in Commits : treeOf[c] = Pick(SomeTrees))
  /\ LogInit /\ (focus = "log" \/ ends = <<>>)
  /\ DevInit /\ (focus = "development" \/ (session[1] = "dead" /\ row[1] = "none"))
  /\ row[1] \in {"none", "ready"}
  /\ AssetInit
  /\ ConsentInit
  /\ TerminalInit /\ (focus = "terminal" \/ (group = "shell" /\ ~tty))
  /\ DepInit
  /\ focus = "steps" \/ (/\ names = Pick((SUBSET (Adapter \cup HookTargets)) \ {{}})
                         /\ steps = Pick(PlanChoices)
                         /\ content = Pick([Adapter -> [new : {FALSE}, mature : BOOLEAN]])
                         /\ lists = [l \in PolicyLists |-> "none"])
  /\ lists[<<1, "all">>] = IF focus = "steps" THEN "x" ELSE "none"
  /\ AuditInit
  /\ focus = "audit" \/ (/\ waivers = <<>>
                         /\ kind = [l \in 1..Lanes |-> "none"])

\* A step of component k leaves the other components alone.
Only(k) ==
  /\ focus = k /\ UNCHANGED focus
  /\ IF k = "cache" THEN TRUE ELSE UNCHANGED cacheVars
  /\ IF k = "scopes" THEN TRUE ELSE UNCHANGED resourceVars
  /\ IF k = "commands" THEN TRUE ELSE UNCHANGED admissionVars
  /\ IF k = "watch" THEN TRUE ELSE UNCHANGED watchVars
  /\ IF k = "sweep" THEN TRUE ELSE UNCHANGED sweepVars
  /\ IF k = "update" THEN TRUE ELSE UNCHANGED updateVars
  /\ IF k = "export" THEN TRUE ELSE UNCHANGED exportVars
  /\ IF k = "format" THEN TRUE ELSE UNCHANGED formatVars
  /\ IF k = "hooks" THEN TRUE ELSE UNCHANGED hookVars
  /\ IF k = "operations" THEN TRUE ELSE UNCHANGED opVars
  /\ IF k = "scan" THEN TRUE ELSE UNCHANGED scanVars
  /\ IF k = "log" THEN TRUE ELSE UNCHANGED logVars
  /\ IF k = "development" THEN TRUE ELSE UNCHANGED devVars
  /\ IF k = "assets" THEN TRUE ELSE UNCHANGED assetVars
  /\ IF k = "consent" THEN TRUE ELSE UNCHANGED consentVars
  /\ IF k = "terminal" THEN TRUE ELSE UNCHANGED ttyVars
  /\ IF k = "steps" THEN TRUE ELSE UNCHANGED depVars
  /\ IF k = "audit" THEN TRUE ELSE UNCHANGED auditVars

PartsNext ==
  \/ Only("cache") /\ CacheNext
  \/ Only("scopes") /\ ScopesNext
  \/ Only("commands") /\ AdmissionNext
  \/ Only("watch") /\ WatchNext
  \/ Only("sweep") /\ SweepNext
  \/ Only("update") /\ UpdateNext
  \/ Only("export") /\ ExportNext
  \/ Only("format") /\ FormatNext
  \/ Only("hooks") /\ HookNext
  \/ Only("operations") /\ OpNext
  \/ Only("scan") /\ ScanNext
  \/ Only("log") /\ LogNext
  \/ Only("development") /\ DevNext
  \/ Only("assets") /\ AssetNext
  \/ Only("consent") /\ ConsentNext
  \/ Only("terminal") /\ TerminalNext
  \/ Only("steps") /\ DepNext
  \/ Only("audit") /\ AuditNext
partsVars == <<cacheVars, resourceVars, admissionVars, watchVars, sweepVars, updateVars,
              exportVars, formatVars, hookVars, opVars, scanVars, logVars, devVars, assetVars,
              consentVars, ttyVars, depVars, auditVars, focus>>
PartsSpec == PartsInit /\ [][PartsNext]_partsVars

\* Every component keeps its types.
PartsTypeOK ==
  /\ focus \in Parts
  /\ focus = "cache" => CacheTypeOK
  /\ focus = "scopes" => ScopesTypeOK
  /\ focus = "commands" => AdmissionTypeOK
  /\ focus = "watch" => WatchTypeOK
  /\ focus = "sweep" => SweepTypeOK
  /\ focus = "update" => UpdateTypeOK
  /\ focus = "export" => ExportTypeOK
  /\ focus = "format" => FormatTypeOK
  /\ focus = "hooks" => HookTypeOK
  /\ focus = "operations" => OpTypeOK
  /\ focus = "scan" => ScanTypeOK
  /\ focus = "log" => LogTypeOK
  /\ focus = "development" => DevTypeOK
  /\ focus = "assets" => AssetTypeOK
  /\ focus = "consent" => ConsentTypeOK
  /\ focus = "terminal" => TerminalTypeOK
  /\ focus = "steps" => DepTypeOK
  /\ focus = "audit" => AuditTypeOK

\* Commands and the terminal they run in: no command begins after a stop, engines
\* inherit no lease, the shell keeps the terminal it took, the task gets it back,
\* and a cancelled task is not left stopped.
TasksAreControlled ==
  /\ [](EngineHoldsNoLease /\ TerminalComesBack /\ CancelledTaskRuns)
  /\ NoWorkAfterStop /\ ShellKeepsTerminal

\* Git hooks: formatting keeps edits, staging and its own record; Git sees whole
\* hooks or none while they are installed or taken back; what the scan lets pass
\* holds no hostile text, whatever it skipped.
HooksAreSafe ==
  /\ [](/\ HalfAppliedIsRecorded /\ ActiveHooksAreWhole /\ IdentityIsKept
        /\ FailureRestores)
  /\ EditsAreKept /\ StagingIsKept /\ PassedIsHarmless /\ TipsAreHarmless

\* Who may change what a checkout works with: writers and pruning are alone in it,
\* the leases of the living stay, and no executable in use is collected.
ToolsAreGuarded ==
  /\ WritersAreAlone /\ LiveLeasesAreSeen /\ PruneIsAlone /\ ToolsStay /\ PoolEntryStays

\* A dependency update is audited as it will be used: after the last step that
\* changed it, with the exceptions that are left, with waivers that stay inside
\* what they name, and never from an incomplete report.
StepsAreAudited ==
  /\ [](/\ CompletedIsAudited /\ PlanIsServed /\ RetiredIsUnneeded
        /\ NoExceptionReturns /\ WaiversAreExact /\ CompleteIsAssessed)
  /\ PolicyEditsStay /\ StaleIsUseless

\* What users see and answer: logs without gaps or repetition, rows of living
\* sessions and of the latest ends, and consent only where somebody typed it for
\* this question.
ViewsAreTrue ==
  /\ [](NothingIsReplayed /\ NothingIsSkipped /\ LivingRowsStay /\ ConsentIsTyped)
  /\ RecentRowsStay /\ EndingsAreFinal /\ AnswerStands
=============================================================================
