--------------------------- MODULE CachedRoutes ---------------------------
(***************************************************************************)
(* The routes the server cache stands in front of, and every change to     *)
(* what they show: for a read route the domains its key is built from,     *)
(* whether the key holds the caller's scope, whether the handler passes    *)
(* that scope on, and the facts its use cases put into the response; for   *)
(* a write the domains it invalidates and the facts it changes.            *)
(*                                                                         *)
(* A fact is a kind of row: "catalogue" (which content exists), "content"  *)
(* (what one of them is), "uses" (which of them a playlist has), "slot",   *)
(* "playlist", "status" (a playlist's), "items", "schedule", "display",    *)
(* "presence" (a display's status), "nonce" (of its refreshes), "group",   *)
(* "override", "roster" (which users exist), "user" (one's names),         *)
(* "avatar", "seen" (when a user last was), "member" (a user's roles),     *)
(* "role", "grant" (a role's permissions), "permission".                   *)
(***************************************************************************)

ReadOf(name, domains, shows) ==
  [name |-> name, domains |-> domains, shows |-> shows,
   varies |-> FALSE, scoped |-> FALSE]

\* varyByOwner, with getOwnerScope passed on to the use cases.
OwnReadOf(name, domains, shows) ==
  [name |-> name, domains |-> domains, shows |-> shows,
   varies |-> TRUE, scoped |-> TRUE]

WriteOf(name, invalidates, changes) ==
  [name |-> name, invalidates |-> invalidates, changes |-> changes]

-----------------------------------------------------------------------------
(* What the use cases show                                                 *)

ContentListShows == {"catalogue", "content", "uses", "user"}
ContentOptionsShow == {"catalogue", "content"}
ContentShows == {"catalogue", "content", "uses", "user"}
PlaylistListShows == {"playlist", "status", "items", "content", "user"}
PlaylistOptionsShow == {"playlist", "status"}
PlaylistShows == {"playlist", "status", "items", "content", "user"}
ScheduleViewShows == {"schedule", "playlist", "content", "display", "user"}
ScheduleListShows == ScheduleViewShows
ScheduleWindowShows == ScheduleViewShows
ScheduleShows == ScheduleViewShows
DisplayListShows == {"display", "presence", "nonce", "group"}
DisplayShows == {"display", "presence", "nonce"}
DisplayOptionsShow == {"display"}
DisplayOutputsShow == {"display"}
GroupsShow == {"group"}
GroupSearchShows == {"group"}
OverridesShow == {"override"}
SlotsShow == {"slot", "content"}
UserListShows == {"roster", "user", "avatar", "seen", "member"}
RoleSummariesShow == {"member", "role"}
UserShows == {"roster", "user", "avatar", "seen"}
UserOptionsShow == {"roster", "user", "avatar", "seen"}
UserRolesShow == {"roster", "member", "role"}
RoleListShows == {"role", "member"}
RoleShows == {"role"}
RoleOptionsShow == {"role"}
RoleUsersShow == {"role", "member", "user", "avatar", "seen"}
RoleGrantsShow == {"role", "grant", "permission"}
PermissionListShows == {"permission"}
PermissionOptionsShow == {"permission"}

-----------------------------------------------------------------------------
(* The cached reads                                                        *)

GetContentOptions ==
  OwnReadOf("content options", {"content"}, ContentOptionsShow)
GetContents == OwnReadOf("contents", {"content"}, ContentListShows)
GetContent == OwnReadOf("content", {"content"}, ContentShows)

GetPlaylistOptions ==
  OwnReadOf("playlist options", {"playlists"}, PlaylistOptionsShow)
GetPlaylists ==
  OwnReadOf("playlists", {"playlists", "schedules", "content"},
            PlaylistListShows)
GetPlaylist == ReadOf("playlist", {"playlists", "content"}, PlaylistShows)

GetScheduleBootstrap ==
  OwnReadOf("schedule bootstrap",
            {"schedules", "displays", "playlists", "content", "users"},
            ScheduleWindowShows \union DisplayOptionsShow \union GroupsShow
              \union PlaylistOptionsShow \union ContentOptionsShow)
GetSchedules ==
  ReadOf("schedules", {"schedules", "playlists", "content", "users"},
         ScheduleListShows)
GetScheduleWindow ==
  ReadOf("schedule window", {"schedules", "playlists", "content"},
         ScheduleWindowShows)
GetSchedule ==
  ReadOf("schedule", {"schedules", "playlists", "content"}, ScheduleShows)

\* The key varies by owner although nothing in the response does.
GetDisplayBootstrap ==
  [ReadOf("display bootstrap",
          {"displays", "schedules", "playlists", "content"},
          GroupsShow \union DisplayListShows \union DisplayOutputsShow
            \union OverridesShow) EXCEPT !.varies = TRUE]
GetDisplays ==
  ReadOf("displays", {"displays", "schedules", "playlists"}, DisplayListShows)
GetDisplayOutputs ==
  ReadOf("display outputs", {"displays"}, DisplayOutputsShow)
GetDisplayOptions ==
  ReadOf("display options", {"displays"}, DisplayOptionsShow)
GetDisplay ==
  ReadOf("display", {"displays", "schedules", "playlists"}, DisplayShows)
GetDisplayGroups ==
  ReadOf("display groups", {"displays"}, GroupSearchShows)
GetOverrides == ReadOf("overrides", {"displays"}, OverridesShow)
GetEmergencySlots == ReadOf("emergency slots", {"displays"}, SlotsShow)

GetUsers ==
  ReadOf("users", {"users", "roles"},
         UserListShows \union RoleSummariesShow)
GetUserOptionsPage == ReadOf("user options page", {"users"}, UserOptionsShow)
GetUserOptions == ReadOf("user options", {"users"}, UserOptionsShow)
GetUser == ReadOf("user", {"users"}, UserShows)
GetUserRoles == ReadOf("user roles", {"users", "roles"}, UserRolesShow)
GetRoleBootstrap ==
  ReadOf("role bootstrap", {"roles", "permissions", "users"},
         RoleShows \union PermissionOptionsShow \union RoleGrantsShow
           \union RoleUsersShow)
GetRoles == ReadOf("roles", {"roles"}, RoleListShows)
GetRoleOptions == ReadOf("role options", {"roles"}, RoleOptionsShow)
GetRole == ReadOf("role", {"roles"}, RoleShows)
GetRoleUsers == ReadOf("role users", {"roles", "users"}, RoleUsersShow)
GetRolePermissions ==
  ReadOf("role permissions", {"roles", "permissions"}, RoleGrantsShow)
GetPermissions == ReadOf("permissions", {"permissions"}, PermissionListShows)
GetPermissionOptions ==
  ReadOf("permission options", {"permissions"}, PermissionOptionsShow)

Reads ==
  {GetContentOptions, GetContents, GetContent, GetPlaylistOptions,
   GetPlaylists, GetPlaylist, GetScheduleBootstrap, GetSchedules,
   GetScheduleWindow, GetSchedule, GetDisplayBootstrap, GetDisplays,
   GetDisplayOutputs, GetDisplayOptions, GetDisplay, GetDisplayGroups,
   GetOverrides, GetEmergencySlots, GetUsers, GetUserOptionsPage,
   GetUserOptions, GetUser, GetUserRoles, GetRoleBootstrap, GetRoles,
   GetRoleOptions, GetRole, GetRoleUsers, GetRolePermissions,
   GetPermissions, GetPermissionOptions}

-----------------------------------------------------------------------------
(* The writes                                                              *)

AllDomains ==
  {"content", "playlists", "schedules", "displays", "users", "roles",
   "permissions"}
Library == {"catalogue", "uses", "playlist", "status", "items", "schedule"}

PostContent == WriteOf("upload content", {"content"}, {"catalogue"})
PostFlash == WriteOf("create flash", {"content"}, {"catalogue"})
PostText == WriteOf("create text", {"content"}, {"catalogue"})
PatchContent ==
  WriteOf("update content", {"content", "playlists"}, {"content"})
PutContentFile == WriteOf("replace file", {"content"}, {"content"})
DeleteContent ==
  WriteOf("delete content", {"content", "playlists"}, {"catalogue", "slot"})
SubmitPdfCrop == WriteOf("submit pdf crop", {"content"}, {"catalogue"})

PostPlaylist ==
  WriteOf("create playlist", {"playlists"}, {"playlist", "items", "uses"})
\* Mutant: the route forgets to invalidate.
PatchPlaylist_Quiet == WriteOf("update playlist", {}, {"playlist"})
PatchPlaylist == WriteOf("update playlist", {"playlists"}, {"playlist"})
DeletePlaylist ==
  WriteOf("delete playlist", {"playlists", "schedules"},
          {"playlist", "status", "items", "uses", "schedule"})
PostItem == WriteOf("add item", {"playlists"}, {"items", "uses"})
PatchItem == WriteOf("update item", {"playlists"}, {"items"})
PutItems == WriteOf("replace items", {"playlists"}, {"items", "uses"})
ReorderItems == WriteOf("reorder items", {"playlists"}, {"items"})
DeleteItem == WriteOf("delete item", {"playlists"}, {"items", "uses"})

ScheduleDomains == {"schedules", "displays", "playlists"}
PostSchedule ==
  WriteOf("create schedule", ScheduleDomains, {"schedule", "status"})
PatchSchedule ==
  WriteOf("update schedule", ScheduleDomains, {"schedule", "status"})
DeleteSchedule ==
  WriteOf("delete schedule", ScheduleDomains, {"schedule", "status"})

PutEmergency ==
  WriteOf("switch emergency", {"displays", "schedules"}, {"override"})
ClaimRegistrationLink ==
  WriteOf("claim link", {"displays", "schedules"}, {"display", "group"})
RegisterDisplay ==
  WriteOf("register display", {"displays", "schedules"}, {"display", "group"})
PatchDisplay ==
  WriteOf("update display", {"displays", "schedules"}, {"display"})
UnregisterDisplay ==
  WriteOf("unregister display", {"displays", "schedules"},
          {"display", "presence", "nonce", "group", "schedule"})
ResolveGroups == WriteOf("resolve groups", {"displays"}, {"group"})
PostGroup == WriteOf("create group", {"displays"}, {"group"})
PatchGroup == WriteOf("update group", {"displays"}, {"group"})
DeleteGroup == WriteOf("delete group", {"displays"}, {"group"})
PutDisplayGroups == WriteOf("set display groups", {"displays"}, {"group"})
PutSlot == WriteOf("set slot", {"displays"}, {"slot"})
DeleteSlot == WriteOf("clear slot", {"displays"}, {"slot"})

PostUser == WriteOf("create user", AllDomains, {"roster", "member"})
PatchUser ==
  WriteOf("update user", {"users", "roles", "permissions"}, {"user"})
DeleteUser ==
  WriteOf("delete user", {"users", "roles", "permissions"},
          {"roster", "member", "slot"} \union Library)
PutUserStatus ==
  WriteOf("ban or unban user", AllDomains, {"user", "slot"} \union Library)
PutUserRoles ==
  WriteOf("set user roles", {"users", "roles", "permissions"}, {"member"})
RoleDomains == {"roles", "permissions", "users"}
PostRole == WriteOf("create role", RoleDomains, {"role"})
PatchRole == WriteOf("update role", RoleDomains, {"role"})
DeleteRole == WriteOf("delete role", RoleDomains, {"role", "member", "grant"})
PutRolePermissions ==
  WriteOf("set role permissions", RoleDomains, {"grant"})

\* Written by the workers and timers.
IngestionStarted == WriteOf("ingestion started", {"content"}, {"content"})
IngestionEnded == WriteOf("ingestion ended", {"content"}, {"content"})
IngestionFailed == WriteOf("ingestion failed", {"content"}, {"content"})
MaintenanceCleanup ==
  WriteOf("cleanup", {"content", "schedules", "playlists"},
          {"catalogue", "slot", "uses", "playlist", "status", "items",
           "schedule"})
StatusTimer == WriteOf("status timer", {"playlists"}, {"status"})
Heartbeat == WriteOf("heartbeat", {"displays"}, {"presence"})
StatusReconciler == WriteOf("status reconciler", {"displays"}, {"presence"})

\* These invalidate nothing.
ReconcileOnRead == WriteOf("status on read", {}, {"status"})
PatchProfile == WriteOf("update profile", {}, {"user"})
PutAvatar == WriteOf("set avatar", {}, {"avatar"})
DeleteAccount == WriteOf("delete account", {}, {"roster", "member"})
RefreshDisplay == WriteOf("refresh display", {}, {"nonce"})
RefreshSession == WriteOf("refresh session", {}, {"seen"})
AcceptInvitation == WriteOf("accept invitation", {}, {"roster"})
AssistantCreate ==
  WriteOf("assistant creates", {},
          {"catalogue", "playlist", "items", "uses", "schedule", "status"})
AssistantContent ==
  WriteOf("assistant on content", {}, {"content", "catalogue", "slot"})
AssistantPlaylist ==
  WriteOf("assistant on a playlist", {},
          {"playlist", "status", "items", "uses", "schedule"})
AssistantSchedule ==
  WriteOf("assistant on a schedule", {}, {"schedule", "status"})

Writes ==
  {PostContent, PostFlash, PostText, PatchContent, PutContentFile,
   DeleteContent, SubmitPdfCrop, PostPlaylist, PatchPlaylist, DeletePlaylist,
   PostItem, PatchItem, PutItems, ReorderItems, DeleteItem, PostSchedule,
   PatchSchedule, DeleteSchedule, PutEmergency, ClaimRegistrationLink,
   RegisterDisplay, PatchDisplay, UnregisterDisplay, ResolveGroups, PostGroup, PatchGroup, DeleteGroup, PutDisplayGroups,
   PutSlot, DeleteSlot, PostUser, PatchUser, DeleteUser, PutUserStatus,
   PutUserRoles, PostRole, PatchRole, DeleteRole, PutRolePermissions,
   IngestionStarted, IngestionEnded, IngestionFailed, MaintenanceCleanup,
   StatusTimer, Heartbeat, StatusReconciler, ReconcileOnRead, PatchProfile,
   PutAvatar, DeleteAccount, RefreshSession, RefreshDisplay, AcceptInvitation,
   AssistantCreate, AssistantContent, AssistantPlaylist, AssistantSchedule}

-----------------------------------------------------------------------------
(* Pairs of a write and a read where the write changes what the read shows *)
(* and invalidates none of its domains                                     *)

Pairs(writes, reads) ==
  {<<w.name, r.name>> : w \in writes, r \in reads}

\* The slots show their content under the domain "displays" alone.
SlotPairs ==
  Pairs({PatchContent, PutContentFile, DeleteContent, IngestionStarted,
         IngestionEnded, IngestionFailed, MaintenanceCleanup, DeleteUser},
        {GetEmergencySlots})

\* Whether a playlist uses some content is shown under "content" alone.
UsePairs ==
  Pairs({PostPlaylist, DeletePlaylist, PostItem, PutItems, DeleteItem},
        {GetContents, GetContent})

\* Owners' and creators' names are shown under the domains of what they own.
OwnerPairs ==
  Pairs({PatchUser},
        {GetContents, GetContent, GetPlaylists, GetPlaylist,
         GetScheduleWindow, GetSchedule})

\* A user is deleted with what they own, of which only the user is announced.
DeletionPairs ==
  Pairs({DeleteUser},
        {GetContentOptions, GetContents, GetContent, GetPlaylistOptions,
         GetPlaylists, GetPlaylist, GetScheduleWindow, GetSchedule})

QuietPairs ==
  Pairs({ReconcileOnRead, PatchProfile, PutAvatar, DeleteAccount,
         RefreshDisplay, RefreshSession, AcceptInvitation, AssistantCreate,
         AssistantContent, AssistantPlaylist, AssistantSchedule}, Reads)

SilentPairs ==
  SlotPairs \union UsePairs \union OwnerPairs \union DeletionPairs
    \union QuietPairs

=============================================================================
