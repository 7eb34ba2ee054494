-------------------------------- MODULE Screens --------------------------------
(***************************************************************************)
(* The lists that the pages of frontend/src/pages keep: for each list, what *)
(* its script does (Script) and what its template lets the user do (View). *)
(*   A list is filled by a request and changed by requests of the page.    *)
(* The pages differ in when they load, in what they do with an answer and  *)
(* with an error, and in which buttons work meanwhile; module Panes takes  *)
(* these differences and says what comes of them.                          *)
(*   What a row holds, sorting, filtering and paging within a list, and    *)
(* the texts are left out, as are fields that were typed and not sent.     *)
(***************************************************************************)
EXTENDS Naturals

Kinds == {"add", "drop", "edit"}

\* What the script of a list does.
Scripts ==
  [keyed  : BOOLEAN,   \* the list is that of a key that the user picks
   start  : {"mount", "click"},                  \* when it is loaded first
   opens  : {"never", "always", "ifEmpty", "once", "retry"},  \* which clicks load it
   picks  : {"click", "answer", "both"},         \* when the key is picked
   before : {"keeps", "clears"},                 \* the rows, when a load starts
   fails  : {"keeps", "empties"},                \* the rows, when it fails
   hides  : SUBSET {"load", "alter"},            \* errors shown instead of the rows
   quiet  : BOOLEAN,                             \* a reload does not show as loading
   adds   : {"none", "patches", "reloads", "later"},  \* after the page has added a row, ...
   drops  : {"none", "patches", "marks"},        \* ... deleted or ...
   edits  : {"none", "patches", "reloads", "untold"},  \* ... changed one
   closes : BOOLEAN]                             \* the list can be closed

\* What its template allows.
Views ==
  [rows  : {"hidden", "usable"},                 \* the rows, while it is loading
   form  : {"hidden", "usable", "ifEmpty"},      \* the form that adds a row, likewise
   busy  : SUBSET Kinds,                         \* a second click of these waits for the first
   waits : BOOLEAN]                              \* the click that loads waits for a load

\* Loaded when the page is mounted, and never again; the error is a line above the rows.
Mounted ==
  [keyed |-> FALSE, start |-> "mount", opens |-> "never", picks |-> "click", before |-> "keeps",
   fails |-> "keeps", hides |-> {}, quiet |-> FALSE, adds |-> "none", drops |-> "none",
   edits |-> "none", closes |-> FALSE]

\* Loaded for every row of another list that is clicked.
Clicked == [Mounted EXCEPT !.keyed = TRUE, !.start = "click", !.opens = "always"]

\* Loaded when its tab is opened while it has no rows.
Tabbed == [Mounted EXCEPT !.start = "click", !.opens = "ifEmpty"]

\* Bars or a spinner stand in for the rows while they are loaded.
Skeleton == [rows |-> "hidden", form |-> "hidden", busy |-> {}, waits |-> FALSE]

-----------------------------------------------------------------------------
(* Administration: AiConfigTab                                              *)

AiProvidersScript == [Mounted EXCEPT !.adds = "patches", !.drops = "patches"]
AiProvidersView == [Skeleton EXCEPT !.form = "usable", !.busy = {"add"}]

\* An added key goes into the list of whatever provider is open by then.
AiKeysScript == [Clicked EXCEPT !.fails = "empties", !.closes = TRUE,
                                !.adds = "patches", !.drops = "patches"]
AiKeysView == [Skeleton EXCEPT !.busy = {"add"}]

\* A revoked key is filtered out here, but the backend only marks it and lists it again.
OpenKeysScript == [Mounted EXCEPT !.adds = "patches", !.drops = "marks"]
OpenKeysView == [Skeleton EXCEPT !.form = "usable", !.busy = {"add"}]

(* DepartmentTab                                                            *)

DepartmentsScript == Mounted
DepartmentsView == Skeleton
MembersScript == [Clicked EXCEPT !.fails = "empties"]
MembersView == Skeleton

(* BitableSyncTab                                                           *)

BindingsScript == [Mounted EXCEPT !.adds = "reloads", !.drops = "patches", !.edits = "reloads"]
BindingsView == [Skeleton EXCEPT !.form = "usable", !.busy = Kinds]
SyncLogsScript == [Clicked EXCEPT !.hides = {"load"}, !.closes = TRUE]
SyncLogsView == Skeleton

(* FeishuConfigTab                                                          *)

MappingsScript == [Mounted EXCEPT !.opens = "ifEmpty", !.adds = "patches", !.drops = "patches"]
MappingsView == [Skeleton EXCEPT !.form = "usable", !.busy = {"add"}]

\* The logs are read again 1.5 seconds after a run was started.
DirectoryLogsScript == [Mounted EXCEPT !.opens = "ifEmpty", !.adds = "later"]
DirectoryLogsView == [Skeleton EXCEPT !.form = "usable", !.busy = {"add"}]

(* UserManagementTab                                                        *)

UsersScript == [Mounted EXCEPT !.edits = "patches"]
UsersView == [Skeleton EXCEPT !.busy = {"edit"}]

\* Kept per user, after an error as an empty list.
UserProjectsScript == [Clicked EXCEPT !.opens = "once", !.fails = "empties", !.closes = TRUE,
                                      !.edits = "patches"]
UserProjectsView == [Skeleton EXCEPT !.busy = {"edit"}]

(* TenantTab, PluginConfigTab, ApprovalConfigTab, ConfigTab,                *)
(* BulletinSettingsTab, AuditLogTab, StatsTab                               *)

TenantsScript == [Mounted EXCEPT !.adds = "patches", !.drops = "patches", !.edits = "patches"]
TenantsView == [Skeleton EXCEPT !.form = "usable", !.busy = {"add"}]
PluginsScript == [Mounted EXCEPT !.hides = {"load"}, !.edits = "patches"]
PluginsView == [Skeleton EXCEPT !.busy = {"edit"}]
ApprovalConfigScript == [Mounted EXCEPT !.hides = {"load"}, !.edits = "patches"]
ApprovalConfigView == [Skeleton EXCEPT !.busy = {"edit"}]
GlobalConfigScript == [Mounted EXCEPT !.edits = "patches"]
GlobalConfigView == [Skeleton EXCEPT !.busy = {"edit"}]
BulletinSettingsScript == [Mounted EXCEPT !.edits = "patches"]
BulletinSettingsView == [Skeleton EXCEPT !.busy = {"edit"}]
AuditLogScript == [Mounted EXCEPT !.hides = {"load"}]
AuditLogView == Skeleton
StatsScript == [Mounted EXCEPT !.opens = "always", !.hides = {"load"}]
StatsView == Skeleton

-----------------------------------------------------------------------------
(* Projects: ProjectDetailPage, ProjectListPage, DashboardPage, ProfilePage *)

\* Loaded again, without a word, after a submission; a task that was created is put in.
ProjectTasksScript == [Mounted EXCEPT !.quiet = TRUE, !.adds = "patches", !.edits = "reloads"]
ProjectTasksView == Skeleton
TaskSubmissionsScript == [Clicked EXCEPT !.fails = "empties", !.closes = TRUE, !.adds = "reloads"]
TaskSubmissionsView == [Skeleton EXCEPT !.form = "usable"]
PointsTableScript == [Tabbed EXCEPT !.hides = {"load"}]
PointsTableView == [Skeleton EXCEPT !.waits = TRUE]
DividendsScript == [Tabbed EXCEPT !.hides = {"load", "alter"}, !.edits = "patches"]
DividendsView == [Skeleton EXCEPT !.waits = TRUE]

\* An amount that is filled in goes into the list and not into the open detail.
DividendDetailScript == [Clicked EXCEPT !.fails = "empties", !.closes = TRUE, !.edits = "untold"]
DividendDetailView == [Skeleton EXCEPT !.rows = "usable", !.busy = {"edit"}]
SkillsScript == [Tabbed EXCEPT !.hides = {"load"}]
SkillsView == [Skeleton EXCEPT !.waits = TRUE]

\* The answer sets again which skill is open.
SkillDetailScript == [Clicked EXCEPT !.picks = "both", !.closes = TRUE]
SkillDetailView == Skeleton
ProjectsScript == [Mounted EXCEPT !.hides = {"load"}]
ProjectsView == Skeleton
DashboardScript == [Mounted EXCEPT !.fails = "empties"]
DashboardView == Skeleton
ProfilePointsScript == Mounted
ProfilePointsView == Skeleton

(* BitableBindingTab                                                        *)

BindingScript == [Mounted EXCEPT !.opens = "retry", !.hides = {"load"}, !.quiet = TRUE,
                                 !.adds = "patches", !.drops = "patches", !.edits = "reloads"]
BindingView == [Skeleton EXCEPT !.form = "ifEmpty", !.busy = Kinds, !.waits = TRUE]
BitableFieldsScript == [Clicked EXCEPT !.before = "clears"]
BitableFieldsView == [Skeleton EXCEPT !.waits = TRUE]

-----------------------------------------------------------------------------
(* AuctionsPage                                                             *)

AuctionsScript == [Mounted EXCEPT !.hides = {"load"}, !.adds = "reloads"]
AuctionsView == [Skeleton EXCEPT !.form = "usable", !.busy = {"add"}]

\* Only the answer opens the dialog; after a bid the auction that is open by then is read.
AuctionDetailScript == [Clicked EXCEPT !.picks = "answer", !.quiet = TRUE, !.adds = "reloads",
                                       !.closes = TRUE]
AuctionDetailView == [Skeleton EXCEPT !.busy = {"add"}]

(* Assets: AssetListPage, AssetDetailPage, AssetInfoTab and the other tabs  *)

AssetsScript == [Mounted EXCEPT !.hides = {"load"}]
AssetsView == Skeleton
AssetDetailScript == [Mounted EXCEPT !.hides = {"load"}]

\* An operation, after which the asset is read again; a save of the form is always refused.
AssetOperationScript == [AssetDetailScript EXCEPT !.quiet = TRUE, !.edits = "reloads"]
AssetOperationView == [Skeleton EXCEPT !.busy = {"edit"}]
AssetOperationsScript == [Mounted EXCEPT !.hides = {"load"}]
AssetOperationsView == Skeleton
AssetReimbursementsScript == [Mounted EXCEPT !.hides = {"load"}]
AssetReimbursementsView == Skeleton
DepreciationScript == [Mounted EXCEPT !.hides = {"load"}]
DepreciationView == Skeleton

(* Reimbursements: ReimbursementListPage, ApprovalTimelineTab               *)

ReimbursementsScript == [Mounted EXCEPT !.hides = {"load"}]
ReimbursementsView == Skeleton
TimelineScript == [Mounted EXCEPT !.hides = {"load"}, !.edits = "reloads"]
TimelineView == [Skeleton EXCEPT !.busy = {"edit"}]

-----------------------------------------------------------------------------
(* Votes, the bulletin and notifications                                    *)

\* VoteListPage: the first project is picked on mount; there is no catch.
VoteSessionsScript == [Clicked EXCEPT !.start = "mount"]
VoteSessionsView == Skeleton

LeaderboardScript == [Clicked EXCEPT !.start = "mount", !.hides = {"load"}]
LeaderboardView == [Skeleton EXCEPT !.waits = TRUE]
SettlementsScript == [Mounted EXCEPT !.opens = "ifEmpty", !.hides = {"load"}]
SettlementsView == Skeleton
AuditTrailScript == [Mounted EXCEPT !.hides = {"load"}]
AuditTrailView == Skeleton
DecisionsScript == [Mounted EXCEPT !.hides = {"load"}]
DecisionsView == Skeleton

\* A notification that is clicked twice is marked twice.
NotificationsScript == [Mounted EXCEPT !.edits = "patches"]
NotificationsView == Skeleton

-----------------------------------------------------------------------------

List(script, view) == [script |-> script, view |-> view]

Lists ==
  {List(AiProvidersScript, AiProvidersView), List(AiKeysScript, AiKeysView),
   List(OpenKeysScript, OpenKeysView), List(DepartmentsScript, DepartmentsView),
   List(MembersScript, MembersView), List(BindingsScript, BindingsView),
   List(SyncLogsScript, SyncLogsView), List(MappingsScript, MappingsView),
   List(DirectoryLogsScript, DirectoryLogsView), List(UsersScript, UsersView),
   List(UserProjectsScript, UserProjectsView), List(TenantsScript, TenantsView),
   List(PluginsScript, PluginsView), List(ApprovalConfigScript, ApprovalConfigView),
   List(GlobalConfigScript, GlobalConfigView),
   List(BulletinSettingsScript, BulletinSettingsView), List(AuditLogScript, AuditLogView),
   List(StatsScript, StatsView), List(ProjectTasksScript, ProjectTasksView),
   List(TaskSubmissionsScript, TaskSubmissionsView), List(PointsTableScript, PointsTableView),
   List(DividendsScript, DividendsView), List(DividendDetailScript, DividendDetailView),
   List(SkillsScript, SkillsView), List(SkillDetailScript, SkillDetailView),
   List(ProjectsScript, ProjectsView), List(DashboardScript, DashboardView),
   List(ProfilePointsScript, ProfilePointsView), List(BindingScript, BindingView),
   List(BitableFieldsScript, BitableFieldsView), List(AuctionsScript, AuctionsView),
   List(AuctionDetailScript, AuctionDetailView), List(AssetsScript, AssetsView),
   List(AssetDetailScript, AssetsView), List(AssetOperationScript, AssetOperationView),
   List(AssetOperationsScript, AssetOperationsView),
   List(AssetReimbursementsScript, AssetReimbursementsView),
   List(DepreciationScript, DepreciationView), List(ReimbursementsScript, ReimbursementsView),
   List(TimelineScript, TimelineView), List(VoteSessionsScript, VoteSessionsView),
   List(LeaderboardScript, LeaderboardView), List(SettlementsScript, SettlementsView),
   List(AuditTrailScript, AuditTrailView), List(DecisionsScript, DecisionsView),
   List(NotificationsScript, NotificationsView)}

=============================================================================
