----------------------------- MODULE PartsProofs -----------------------------
(***************************************************************************)
(* The run that checks the separate components together has, of each, no   *)
(* behaviours but its own: what is proved of a component holds of the run. *)
(***************************************************************************)
EXTENDS MCParts, ToolsProofs, VerdictProofs, ControlProofs

ToolParts == {"operations", "assets", "cache", "sweep", "export", "update"}
ControlParts == {"commands", "watch", "terminal", "scopes"}
HookParts == {"format", "hooks", "scan"}
ViewParts == {"log", "development", "consent"}
AuditParts == {"steps", "audit"}

\* Any step is one component's, and the others rest: tools and verdicts,
LEMMA ToolPartsMove ==
  ASSUME [PartsNext]_partsVars
  PROVE  /\ [OpNext]_opVars /\ [AssetNext]_assetVars /\ [CacheNext]_cacheVars
         /\ [SweepNext]_sweepVars /\ [ExportNext]_exportVars /\ [UpdateNext]_updateVars
<1>1. CASE UNCHANGED partsVars
  BY <1>1 DEF partsVars
<1>2. ASSUME NEW k, k \notin ToolParts, Only(k)
      PROVE  UNCHANGED <<opVars, assetVars, cacheVars, sweepVars, exportVars, updateVars>>
  BY <1>2 DEF Only, ToolParts
<1>3. CASE Only("operations") /\ OpNext
  BY <1>3 DEF Only
<1>4. CASE Only("assets") /\ AssetNext
  BY <1>4 DEF Only
<1>5. CASE Only("sweep") /\ SweepNext
  BY <1>5 DEF Only
<1>6. CASE Only("export") /\ ExportNext
  BY <1>6 DEF Only
<1>7. CASE Only("update") /\ UpdateNext
  BY <1>7 DEF Only
<1>8. CASE Only("cache") /\ CacheNext
  BY <1>8 DEF Only
<1> QED BY <1>1, <1>2, <1>3, <1>4, <1>5, <1>6, <1>7, <1>8 DEF PartsNext, ToolParts

\* ... what controls tasks and the resources they share,
LEMMA ControlPartsMove ==
  ASSUME [PartsNext]_partsVars
  PROVE  /\ [AdmissionNext]_admissionVars /\ [WatchNext]_watchVars
         /\ [TerminalNext]_ttyVars /\ [ScopesNext]_resourceVars
<1>1. CASE UNCHANGED partsVars
  BY <1>1 DEF partsVars
<1>2. ASSUME NEW k, k \notin ControlParts, Only(k)
      PROVE  UNCHANGED <<admissionVars, watchVars, ttyVars, resourceVars>>
  BY <1>2 DEF Only, ControlParts
<1>3. CASE Only("commands") /\ AdmissionNext
  BY <1>3 DEF Only
<1>4. CASE Only("watch") /\ WatchNext
  BY <1>4 DEF Only
<1>5. CASE Only("terminal") /\ TerminalNext
  BY <1>5 DEF Only
<1>6. CASE Only("scopes") /\ ScopesNext
  BY <1>6 DEF Only
<1> QED BY <1>1, <1>2, <1>3, <1>4, <1>5, <1>6 DEF PartsNext, ControlParts

\* ... what Git runs before commits and pushes,
LEMMA HookPartsMove ==
  ASSUME [PartsNext]_partsVars
  PROVE  [FormatNext]_formatVars /\ [HookNext]_hookVars /\ [ScanNext]_scanVars
<1>1. CASE UNCHANGED partsVars
  BY <1>1 DEF partsVars
<1>2. ASSUME NEW k, k \notin HookParts, Only(k)
      PROVE  UNCHANGED <<formatVars, hookVars, scanVars>>
  BY <1>2 DEF Only, HookParts
<1>3. CASE Only("format") /\ FormatNext
  BY <1>3 DEF Only
<1>4. CASE Only("hooks") /\ HookNext
  BY <1>4 DEF Only
<1>5. CASE Only("scan") /\ ScanNext
  BY <1>5 DEF Only
<1> QED BY <1>1, <1>2, <1>3, <1>4, <1>5 DEF PartsNext, HookParts

\* ... what users see and answer,
LEMMA ViewPartsMove ==
  ASSUME [PartsNext]_partsVars
  PROVE  [LogNext]_logVars /\ [DevNext]_devVars /\ [ConsentNext]_consentVars
<1>1. CASE UNCHANGED partsVars
  BY <1>1 DEF partsVars
<1>2. ASSUME NEW k, k \notin ViewParts, Only(k)
      PROVE  UNCHANGED <<logVars, devVars, consentVars>>
  BY <1>2 DEF Only, ViewParts
<1>3. CASE Only("log") /\ LogNext
  BY <1>3 DEF Only
<1>4. CASE Only("development") /\ DevNext
  BY <1>4 DEF Only
<1>5. CASE Only("consent") /\ ConsentNext
  BY <1>5 DEF Only
<1> QED BY <1>1, <1>2, <1>3, <1>4, <1>5 DEF PartsNext, ViewParts

\* ... and what an update brings.
LEMMA AuditPartsMove ==
  ASSUME [PartsNext]_partsVars PROVE [DepNext]_depVars /\ [AuditNext]_auditVars
<1>1. CASE UNCHANGED partsVars
  BY <1>1 DEF partsVars
<1>2. ASSUME NEW k, k \notin AuditParts, Only(k) PROVE UNCHANGED <<depVars, auditVars>>
  BY <1>2 DEF Only, AuditParts
<1>3. CASE Only("steps") /\ DepNext
  BY <1>3 DEF Only
<1>4. CASE Only("audit") /\ AuditNext
  BY <1>4 DEF Only
<1> QED BY <1>1, <1>2, <1>3, <1>4 DEF PartsNext, AuditParts

\* A behaviour of the run is one of each component.
LEMMA PartsBehave ==
  PartsSpec => /\ OpSpec /\ AssetSpec /\ CacheSpec /\ SweepSpec /\ ExportSpec /\ UpdateSpec
               /\ AdmissionSpec /\ WatchSpec /\ TerminalSpec /\ ScopesSpec
               /\ FormatSpec /\ HookSpec /\ ScanSpec
               /\ LogSpec /\ DevSpec /\ ConsentSpec /\ DepSpec /\ AuditSpec
<1>1. PartsInit => /\ OpInit /\ AssetInit /\ CacheInit /\ SweepInit /\ ExportInit /\ UpdateInit
                   /\ AdmissionInit /\ WatchInit /\ TerminalInit /\ ScopesInit
                   /\ FormatInit /\ HookInit /\ ScanInit
                   /\ LogInit /\ DevInit /\ ConsentInit /\ DepInit /\ AuditInit
  BY DEF PartsInit
<1> QED BY <1>1, ToolPartsMove, ControlPartsMove, HookPartsMove, ViewPartsMove,
           AuditPartsMove, PTL
        DEF PartsSpec, OpSpec, AssetSpec, CacheSpec, SweepSpec, ExportSpec, UpdateSpec,
            AdmissionSpec, WatchSpec, TerminalSpec, ScopesSpec, FormatSpec, HookSpec, ScanSpec,
            LogSpec, DevSpec, ConsentSpec, DepSpec, AuditSpec

\* Writers and pruning are alone in a checkout, the leases of living operations
\* stay, and no executable in use is collected.
THEOREM ToolsGuarded == PartsSpec => []ToolsAreGuarded
  BY PartsBehave, WritersStayAlone, LiveLeasesStay, PruneStaysAlone, UsedToolsStay,
     VerifiedEntryStays, PTL DEF ToolsAreGuarded

\* In the run too, a sweep that counts is one that it may count, and an export
\* says of a checkout what is there.
THEOREM VerdictsCount == PartsSpec => [](SweepsCount /\ ExportsAreTrue)
  BY PartsBehave, CountingSweeps, ExportsSayWhatIs, PTL

\* No command begins after a stop, engines inherit no lease, the shell keeps the
\* terminal it took, the task gives it back, and a cancelled task is not left stopped.
THEOREM TasksStayControlled == PartsSpec => TasksAreControlled
  BY PartsBehave, StopsPrevent, EnginesLeaseNothing, TerminalReturns, ShellKeeps, PTL
  DEF TasksAreControlled

\* What is proved of watched services and of shared resources holds of the run.
THEOREM ServicesStaySteady == PartsSpec => WatchIsSteady /\ SharingIsSafe
  BY PartsBehave, WatchSteady, SharingStaysSafe

\* What is proved of updates too: nothing is committed but what was judged, and no
\* edit or commit of the user's is replaced.
THEOREM UpdatesStayJudgedInParts == PartsSpec => UpdatesAreJudged
  BY PartsBehave, UpdatesStayJudged

\* Formatting keeps edits, staging and its own record, Git's hooks are whole whenever
\* they are selected, and no push that passes has a hostile file.
THEOREM HooksStaySafe == PartsSpec => HooksAreSafe
  BY PartsBehave, FormatInvariant, EditsStay, StagingStays, ActiveHooksStayWhole, IdentityStays,
     FailureRestoresAll, PassedStaysHarmless, TipsStayHarmless, PTL
  DEF HooksAreSafe, FormatInv

\* Logs are shown without gaps or repetition, rows of living operations and of the
\* latest ends stay, and consent is what somebody typed for this question.
THEOREM ViewsStayTrue == PartsSpec => ViewsAreTrue
  BY PartsBehave, NothingReplayed, NothingSkipped, LivingKeepRows, ConsentStaysTyped, RecentStay,
     EndingsStayFinal, AnswersStand, PTL
  DEF ViewsAreTrue

\* A dependency update is audited as it will be used, exceptions go only where nobody
\* needs them and none comes back, waivers stay inside what they name, and a complete
\* report has assessed every directory.
THEOREM StepsStayAudited == PartsSpec => StepsAreAudited
  BY PartsBehave, ResolutionsAreAudited, TargetsAreServed, RetiredStaysUnneeded,
     ExceptionsStayGone, EditsOfPolicyStay, WaiversStayExact, CompleteStaysAssessed,
     StaleStaysUseless, PTL
  DEF StepsAreAudited

\* And of the candidates of updates, as long as the engine's context moves once at most.
THEOREM CandidatesStayInParts == MaxSwitches <= 1 => (PartsSpec => CacheKeepsRuns)
  BY PartsBehave, CacheKeeps

\* The component that a behaviour is of stays the same.
FocusIsPart == focus \in Parts
LEMMA FocusStays == PartsSpec => []FocusIsPart
<1>1. PartsInit => FocusIsPart
  BY DEF PartsInit, FocusIsPart
<1>2. FocusIsPart /\ [PartsNext]_partsVars => FocusIsPart'
  BY DEF FocusIsPart, PartsNext, Only, partsVars
<1> QED BY <1>1, <1>2, PTL DEF PartsSpec

\* Whatever the component, its state stays of its types.
THEOREM PartsTypeCorrect == PartsSpec => []PartsTypeOK
<1>1. OpInv => OpTypeOK
  BY DEF OpInv
<1>2. AssetInv => AssetTypeOK
  BY DEF AssetInv
<1>3. ScanInv => ScanTypeOK
  BY DEF ScanInv
<1>4. LogInv => LogTypeOK
  BY DEF LogInv
<1>5. DevInv => DevTypeOK
  BY DEF DevInv
<1>6. ConsentInv => ConsentTypeOK
  BY DEF ConsentInv
<1>7. PartsSpec => [](/\ OpTypeOK /\ AssetTypeOK /\ ScanTypeOK /\ LogTypeOK /\ DevTypeOK
                      /\ ConsentTypeOK)
  BY <1>1, <1>2, <1>3, <1>4, <1>5, <1>6, PartsBehave, OpInvariant, AssetInvariant, ScanInvariant,
     LogInvariant, DevInvariant, ConsentInvariant, PTL
<1>8. PartsSpec => [](/\ CacheTypeOK /\ DepTypeOK /\ AuditTypeOK /\ SweepTypeOK /\ ExportTypeOK
                      /\ UpdateTypeOK /\ FormatTypeOK /\ HookTypeOK)
  BY PartsBehave, CacheTypeCorrect, DepTypeCorrect, AuditTypeCorrect, SweepTypeCorrect,
     ExportTypeCorrect, UpdateTypeCorrect, FormatTypeCorrect, HookTypeCorrect, PTL
<1>9. PartsSpec => [](AdmissionTypeOK /\ WatchTypeOK /\ TerminalTypeOK /\ ScopesTypeOK)
  BY PartsBehave, AdmissionTypeCorrect, WatchTypeCorrect, TerminalTypeCorrect, ScopesTypeCorrect,
     PTL
<1>10. /\ FocusIsPart
       /\ OpTypeOK /\ AssetTypeOK /\ ScanTypeOK /\ LogTypeOK /\ DevTypeOK /\ ConsentTypeOK
       /\ CacheTypeOK /\ DepTypeOK /\ AuditTypeOK /\ SweepTypeOK /\ ExportTypeOK
       /\ UpdateTypeOK /\ FormatTypeOK /\ HookTypeOK
       /\ AdmissionTypeOK /\ WatchTypeOK /\ TerminalTypeOK /\ ScopesTypeOK
       => PartsTypeOK
  BY DEF FocusIsPart, PartsTypeOK
<1> QED BY <1>7, <1>8, <1>9, <1>10, FocusStays, PTL
=============================================================================
