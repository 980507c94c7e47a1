------------------------------ MODULE MCWorkspace ------------------------------
(***************************************************************************)
(* What a workspace and its members keep in the database, the two parts of *)
(* the settings page that show it, and the dialogs of the dashboard.  As   *)
(* in MCConnections, one component moves and the others stay in an initial *)
(* state.                                                                  *)
(***************************************************************************)
EXTENDS ConversationPins, SettingHistory, Assistants, QuickReplies, Workspaces, Migrations,
  ConversationAccess, WebQuickReplies, WebAssistants, MCDialogs

VARIABLE moves \* the component that moves

workspaceVars == <<moves, pinVars, historyVars, assistantVars, replyVars, spaceVars, migrationVars,
                   quickVars, webAssistantVars, dialogVars>>

\* Components with several initial states wait in one of them.
WorkspaceInit ==
  /\ moves \in {"pins", "history", "assistants", "replies", "spaces", "migrations",
                "quick replies page", "assistants page", "dialogs"}
  /\ PinInit /\ HistoryInit /\ AssistantsInit /\ RepliesInit /\ SpacesInit /\ MigrationsInit
  /\ QuickInit /\ WebAssistantsInit /\ DialogsInit
  /\ moves # "quick replies page" => rows = <<>>
  /\ moves # "assistants page" => everMade = 0
  /\ moves # "dialogs" => used = "qr"

documentVars == <<pinVars, historyVars, assistantVars, replyVars, spaceVars, migrationVars>>

DocumentsMove ==
  \/ /\ moves = "pins" /\ PinNext
     /\ UNCHANGED <<historyVars, assistantVars, replyVars, spaceVars, migrationVars>>
  \/ /\ moves = "history" /\ HistoryNext
     /\ UNCHANGED <<pinVars, assistantVars, replyVars, spaceVars, migrationVars>>
  \/ /\ moves = "assistants" /\ AssistantsNext
     /\ UNCHANGED <<pinVars, historyVars, replyVars, spaceVars, migrationVars>>
  \/ /\ moves = "replies" /\ RepliesNext
     /\ UNCHANGED <<pinVars, historyVars, assistantVars, spaceVars, migrationVars>>
  \/ /\ moves = "spaces" /\ SpacesNext
     /\ UNCHANGED <<pinVars, historyVars, assistantVars, replyVars, migrationVars>>
  \/ /\ moves = "migrations" /\ MigrationsNext
     /\ UNCHANGED <<pinVars, historyVars, assistantVars, replyVars, spaceVars>>

WorkspaceNext ==
  /\ UNCHANGED moves
  /\ \/ DocumentsMove /\ UNCHANGED <<quickVars, webAssistantVars, dialogVars>>
     \/ /\ moves = "quick replies page" /\ QuickNext
        /\ UNCHANGED <<documentVars, webAssistantVars, dialogVars>>
     \/ /\ moves = "assistants page" /\ WebAssistantsNext
        /\ UNCHANGED <<documentVars, quickVars, dialogVars>>
     \/ /\ moves = "dialogs" /\ DialogsNext
        /\ UNCHANGED <<documentVars, quickVars, webAssistantVars>>

WorkspaceSpec == WorkspaceInit /\ [][WorkspaceNext]_workspaceVars

\* The variables of the component that moves keep their types.
WorkspaceTypeOK ==
  /\ moves = "pins" => PinTypeOK
  /\ moves = "history" => HistoryTypeOK
  /\ moves = "assistants" => AssistantsTypeOK
  /\ moves = "replies" => RepliesTypeOK
  /\ moves = "spaces" => SpacesTypeOK
  /\ moves = "migrations" => MigrationsTypeOK
  /\ moves = "quick replies page" => QuickTypeOK
  /\ moves = "assistants page" => WebAssistantsTypeOK

\* conversation-pin.service.ts:33, setting-history.service.ts:217,
\* assistant.service.ts:28, quick-reply.service.ts:85, workspace.service.ts:45:
\* whatever runs at the same time or fails half way, the documents keep their
\* limits, owners, defaults, images and indexes in order; those who list a
\* conversation are those who may join it and hear of it.  And
\* (SettingsPage.tsx:793) the settings page shows them in whatever order the
\* answers come.
StoresAreConsistent ==
  /\ WorkspaceTypeOK
  /\ moves = "pins" => PinsAreLimited
  /\ moves = "history" => NewestAreKept /\ HistoryIsTrue
  /\ moves = "assistants" => OneDefault
  /\ moves = "replies" => ImagesAreStored
  /\ moves = "spaces" => OwnersOwn /\ AccessIsOne
  /\ moves = "migrations" => NoTwins /\ PagesHaveCustomers
  /\ moves = "quick replies page" => ListIsCurrent
  /\ moves = "assistants page" => EditorIsTheirs

\* assistant.service.ts:80, workspace-member.service.ts:213: what is replaced is
\* there until its successor is, and an owner stays one.
ReplacedAtOnce == [][DefaultIsHandedOver /\ OwnersStay]_<<assistantVars, spaceVars>>

=============================================================================
