# Nhuu-chat: specifications, model checking and proofs

Nhuu-chat is an omnichannel inbox. Customers write through Telegram, Facebook
Messenger or a personal Zalo account; an API server (Express, MongoDB, Redis,
Socket.IO) stores the messages, lets a chatbot answer, and lets staff take a
conversation over. The same server publishes posts on Facebook Pages and keeps
the login sessions of its users. Several API processes may run at once, which
is why most decisions in the code are conditional updates of MongoDB documents.

This directory holds TLA+ specifications of the parts where order, concurrency
and failure decide whether the program is right, configurations that check
them with TLC, and proofs checked by TLAPS. All paths below are relative to
`src/apps/api/src` unless they begin with `src/`.

To check: `tlc -config <cfg> <module>` for the runs listed below, and `tlapm` on
each module named in the column "Proved" of section 2 for the proofs.

## 1. The system

| Component | State | Operations | What makes it correct |
|---|---|---|---|
| Reply pipeline (`chatbot/chatbot-orchestrator.ts`, `bot-delivery.service.ts`, `channel-bot-adapter.ts`, `jobs/outbound.worker.ts`) | `BotProcessing` (claim of a customer message), the bot's `Message`, in-flight work and its AbortSignal | claim, choose a reply, reserve, create the pending message, send under the lock and a timer, persist, three failure writes | one answer per customer message, the recorded verdict is true and final, no send after the verdict |
| Bot pause and send lock (`orchestration/bot-pause.service.ts`) | `Conversation.botPausedUntil`, `sendLeaseId` | `withConversationSendLock`, `pauseBot` | exclusion; no bot message after a takeover; pauses only grow |
| Conversation state (`services/conversation.service.ts`) | status, assignment, `botEnabled` | assign, toggle the bot, change status, bulk actions, delete | deletion and toggles do not disturb the above |
| Facebook posts (`services/facebook-post.service.ts`, `jobs/facebook-post.scheduler.ts`) | `FacebookPost` (status, schedule, lease), images at the media provider | create, update, cancel, retry, publish; scheduler passes that recover, claim and publish | nothing is published twice unasked; recorded states are true; images of living posts exist |
| Login sessions (`services/auth.service.ts`, `services/password-reset.service.ts`) | `AuthSession`, `User`, `PasswordResetToken` | login, rotate, revoke, upgrade a legacy token, ask for and use a reset link | a reset revokes everything older; a refresh token is exchanged once |
| Realtime sockets (`realtime/socket.ts`) | rooms of a session, a user, a conversation | handshake, join, recheck, disconnect, emit | a revoked session has no connected socket |
| Zalo personal (`services/zalo-personal.service.ts`, `server.ts`) | `ZaloPersonalSession`, Redis lease per owner, listener, QR login | QR login, restore, logout, lease renewal and fencing, ingest | one process per owner; a cancelled login never listens; a login from before a logout is void |
| Telegram personal (`services/telegram-personal.service.ts`) | MTProto logins and a client per owner, `TelegramPersonalSession` | QR / password login, restore, logout, messages and echoes | a login dropped before its session is written never listens; a message takes effect once |
| Telegram bot (`services/telegram.service.ts`) | `ProviderSecret`, the webhook, messages by update id | register, disconnect, ingest an update | an update is counted and answered once |
| Facebook Messenger (`channels/facebook-messenger`) | messages by platform id, unread counts, read marks | webhook calls, echoes, receipts | redelivery is harmless; the badge is exact |
| Outbound messages of staff (`services/message.service.ts`) | `Message` sent / failed / pending | pause, send, store the outcome | what is stored as sent was sent, to a thread of the sending account with that customer's name |
| Facebook Page connections, OAuth (`services/facebook-page.service.ts`, `facebook-oauth*`) | one-time state and selection in Redis, connection, subscription at Meta | start, finish, select, connect, remove | a selection is used once; subscription and document agree |
| Server lifecycle (`server.ts`, `services/facebook-oauth.store.ts`) | database, lock, HTTP, sockets, scheduler, the store's Redis client | start, restore with a deadline, shutdown, connect and close the store | nothing is opened after it was closed |
| Conversation pins, notes, tags (`services/conversation-pin.service.ts`, `-note`, `-tag`) | `pinnedMessages`, `ConversationNote`, `ConversationTag` | pin, unpin, write, edit, attach | ten pins, each once, of a conversation that exists |
| Setting history (`services/setting-history.service.ts`) | `SettingHistory` | record a change, remove what is beyond the limit | the newest stay; entries follow each other; no secret is kept |
| Quick replies and media (`services/quick-reply.service.ts`, `cloudinary.service.ts`) | `QuickReply`, images | create, update, delete with an image | the image of a reply exists, no other does |
| Assistants, templates, AI settings (`services/assistant.service.ts`, `automation-template.service.ts`, `ai-settings.service.ts`) | `Assistant`, `AutomationTemplate`, settings | create, update, make default, delete, import templates | one default |
| Workspaces (`services/workspace.service.ts`, `workspace-member.service.ts`) | `Workspace`, `WorkspaceMember` | provision, add, change, remove a member | owners own; a role and its channels belong together, and the channels are the owner's |
| The access rule (`auth/workspace-channel-access.ts`, `realtime/access.ts`, `realtime/socket.ts`) | none | list, join a room, receive an event | the three forms of the rule agree |
| Migrations (`db`) | indexes of the conversations | replace an index while the server writes | no twins at any moment |
| Retrieval and language models (`ai`, `chatbot` providers) | none of its own | ranking, calls to providers | pure ranking; failure means fallback |
| Web: inbox (`src/apps/web/src/pages/InboxPage.tsx`) | open thread, pins, suggestions, list, unread counts | load, send, retry, pin, mark read, hear events | a late answer neither crosses conversations nor undoes newer news |
| Web: session and workspace (`App.tsx`, `lib/api.ts`) | the user shown, the workspace header | start, log in and out, refresh, choose a workspace | the tab shows whom its cookies act for; the login page means that there is no session |
| Web: dashboard (`ConnectModal.tsx`, `DashboardPage.tsx`) | dialogs, status cards | connect and remove an account or a Page | the card follows the server |
| Web: settings (`SettingsPage.tsx`) | quick replies, assistants | edit without waiting | the page ends up showing what the server has |

How they interact. An inbound channel stores the customer's message and calls
`ChatbotOrchestrator.process`. The orchestrator claims the message in MongoDB,
obtains a text and hands it to `BotDeliveryService`, whose worker sends through
the channel's adapter under the conversation's send lock. Staff requests meet
the bot in two places only: the `Conversation` document and its lock. Schedulers
and staff meet in the `FacebookPost` document. Password reset and logout meet
logins, refreshes and socket handshakes in the `AuthSession` collection and in
Socket.IO's rooms. The web application meets all of them through requests whose
answers may be late or lost, and through events of a socket that may be down.

Where it is hard:

- *several processes*: each MongoDB round trip of a handler may be followed by
  steps of any other handler;
- *timeouts that stop nothing*: `withBotTimeout` (10 s) and the publisher's 15 s
  abandon work that goes on;
- *a platform that answers late, twice or never*;
- *a process that dies*, or *a write that fails*, between two writes that belong
  together;
- *values read before an await*: pause, password hash, lease, session end.

`PROJECT.json` lists these at their lines under `hazards`, with the properties
that would notice.

## 2. Modules

| Module | Models | Proved |
|---|---|---|
| `CustomerReply` | what the pipeline promises about one message: at most one attempt, a verdict that agrees with what the customer got, nothing after it | |
| `BotReply` | the pipeline, the send lock, takeovers, toggles, deletion | `BotReplyProofs` |
| `FacebookPosts` | posts, requests, schedulers, Graph API, images | `FacebookPostsProofs` |
| `AuthSessions` | sessions, refresh tokens, reset links, sockets | `AuthSessionsProofs` |
| `ZaloLifecycle` | the personal Zalo account of one owner in several processes, with the Redis lease | `ZaloLifecycleProofs` |
| `FacebookPages` | the connection of a Page, Meta's subscription, the OAuth state and selection | `FacebookPagesProofs` |
| `TelegramPersonal` | the personal Telegram account: logins, clients, incoming messages | `ConnectionsProofs` |
| `ServerLifecycle` | start and shutdown of a process, the OAuth store's Redis client | `ConnectionsProofs` |
| `MessengerInbox` | webhook calls, staff sends and read marks of a Messenger conversation | `InboxProofs` |
| `ZaloInbox` | incoming events and sends of a personal Zalo account across a change of the account | `InboxProofs` |
| `TelegramBot` | registration of the bot, its updates | `InboxProofs` |
| `ConversationPins` | pins, notes and tags of a conversation | `WorkspaceProofs` |
| `SettingHistory` | the bounded history of settings | `WorkspaceProofs` |
| `Assistants` | the default assistant, templates | `WorkspaceProofs` |
| `QuickReplies` | replies with images | `WorkspaceProofs` |
| `Workspaces` | provisioning, members, their channels | `WorkspaceProofs` |
| `Migrations` | the conversation index migrations | `WorkspaceProofs` |
| `ConversationAccess` | the access rule in its three forms | `WorkspaceProofs` |
| `BrowserSession` | the browser's side of a login session | `AuthSessionsProofs` |
| `WebThread`, `WebUnread` | the two halves of the inbox page | `InboxProofs` |
| `WebQrLogin`, `WebPageLogin` | the connection dialogs and the status cards | `ConnectionsProofs` |
| `WebQuickReplies`, `WebAssistants` | two sections of the settings page | `WorkspaceProofs` |
| `Subsequences` | what remains of a list when `filter` or `$pull` take elements out | |
| `MC...` | the instances TLC checks: symmetry sets, components checked side by side (`MCDialogs` is the two dialogs, a part of `MCWorkspace`) | |

A definition that begins with "As a mutant of" is not part of the model: it is
the shape that the definition after it would have if the code had a plausible
bug. Each property has at least one such form that violates it
(`PROJECT.json`, `mutants`); it shows that the property depends on that line.

### BotReply

A *run* is one call of `process` for one message; two runs with the same message
are a replay. A *taker* is one staff request that ends in `pauseBot`. One
action is one database round trip, or one step of the work between two.

| Code | Actions |
|---|---|
| `ChatbotOrchestrator.process` | `Lookup`, `CreateClaim`, `Reply` |
| `BotDeliveryService.deliver` before the send | `DeliverLookup`, `Refuse`, `Reserve`, `CreateBotMessage` |
| work inside the outer `withBotTimeout` | `ResolveAdapter`, `AcquireLock`, `GiveUpLock`, `ReadLatest`, `CheckAndSend`, `SendSettles`, `SendTimeout`, `Unlock` |
| the timer and what follows | `OuterTimeout`, `WorkerResult`, `Persist`, `FailClaim`, `FailMessage`, `FailConversation`, `Abandon`, `InboundFailure` |
| `pauseBot`, `updateAssignment` | `AgentSend`, `AssignAgent`, `AssignPause`, `TakerAcquire`, `TakerBusy`, `CommitPause`, `TakerUnlock` |
| `updateBotEnabled`, bulk delete | `EnableBot`, `DisableBot`, `DeleteConversation` |
| the platform, a dying process | `PlatformDelivers`, `CrashRun`, `CrashTaker` |

The two halves of a run have control points of their own (`pc` for `deliver`,
`work` for the abandoned promise), because `Promise.race` lets the first go on
while the second still runs; `aborted` is the AbortSignal, which the work looks
at in three places only. `sends` and `takeoverUntil` are history.

A MongoDB fault (`DbFaults`) is an operation that throws without taking effect,
acquisitions of the lock included (`GiveUpLock`, `TakerBusy`). A write that takes
effect although its answer is lost is modelled where the code undoes something on
the strength of the error: in `FacebookPosts` and `QuickReplies`.
A transaction is one step. The lock's poll loop is the guard `LockFree`;
its 15 s limit is `TakerBusy` for staff, and for a bot never shorter than the
10 s after which its signal fires, hence `GiveUpLock`.

### FacebookPosts

`CreatePost`, `UpdateRead`/`UpdateSave`/`DestroyOld`, `CancelPost`,
`RetryRead`/`RetrySave` are the service's operations, split where the code
awaits; `CreateUnanswered` and `UpdateUnanswered` are their writes that take effect
while the answer is lost, after which the `catch` destroys the image the stored post
refers to. `unsure` is history: the images of such writes (Finding 17), the one
excuse of `MediaIsStored`. `StartPass`, `Recover`, `ClaimDue` are `runOnce`;
`BeginPublish`, `PublishSettles`, `PersistTerminal` are shared, and
`MayPersist` holds the difference: the scheduler's filter names its lease, the
request's does not. `Land` is Facebook, which may publish after the timeout.

### AuthSessions

A refresh token is its session and its generation. `LoginRead`/`LoginCommit`,
`TokenRead`/`RotateSave`/`LogoutDelete`, `UpgradeLegacy`, `AskReset`/`SendMail`/
`Cleanup`, `ResetPassword` are the services, with `DisconnectSession` and
`DisconnectUser` the controllers' last call; `Handshake`, `JoinSession`,
`JoinUser`, `Recheck` are a connecting socket. `disconnectSockets` reaches
every process in one step (the Redis adapter's delay is not modelled).

### ZaloLifecycle

One owner; owners share nothing. `held`, `lost`, `err`, `pend` and `active` are the
service's Maps in each process, `redis` the owner's key. `op` is the operation in
`runOwnerLifecycle`'s queue and where it waits; its first action takes the lease
and its last one runs the `finally`. What waits in the queue may be served in any
order, which contains the order of the code. `late` says that the time of a QR code
has passed, which happens in every state of its login and is looked at where the code
compares it.

| Code | Actions |
|---|---|
| `startZaloPersonalQr`, status of a QR login | `QrRefused`, `QrReplaces`, `QrDisposed`, `QrLooksUp`, `QrStarts`, `QrExpires` |
| `logoutZaloPersonal` | `LogoutBegins`, `LogoutStops`, `LogoutStopFails`, `LogoutWaited`, `LogoutDeletes`, `SaveError` |
| `getActiveZaloPersonalClient`, `restoreActive...`, `restoreZaloPersonalClient` | `SendFinds`, `SendRestores`, `BootReads`, `BootRestores`, `RestoreLogsIn`, `RestoreSaves`, `RestoreEnds`, `BootSavesError` |
| `runQrLogin`, `completeQrLogin`, its compensation, `recordQrLoginFailure` | `NativeSettles`, `CompleteBegins`, `CompleteLocked`, `CompleteListens`, `CompleteSaves`, `CompensationDeletes`, `FailureRecorded`, `FailureLocked` |
| renewal, `markRedisLeaseLost`, `fenceLostLease` | `KeyExpires`, `LeaseIsLost`, `FenceEnds` |
| `handleZaloPersonalListenerError` | `ListenerCloses`, `ListenerClosed` |
| shutdown, a dying process | `ShutsDown`, `Crashes` |

A native login may settle at any time after it was cancelled, because
`waitForNativeLoginCleanup` stops waiting after 2 s. The listener is taken to
report its end only when it ends by itself, as the comment in
`attachZaloPersonalMessageSync` says, not when it was stopped. One process uses
Redis; the in-memory lock for development is left out. A second loss of a lease
during one fencing is left out as well.

`slips` is history: a lease that `ListenerClosed` gave back although it was in
use, or a restore at the start of a session that is gone by then (Finding 5 and
Observed). The code survives neither, and properties name them as
excuses. `beside` is history too: the processes in which, since they started, a QR
login got a listener beside a restored client, or the other way about. A logout
stops the client if there is one and only otherwise the login in the map
(`services/zalo-personal.service.ts:164`), so that such a listener is out of its
reach (Observed).

### FacebookPages, TelegramPersonal, ServerLifecycle

| Code | Actions |
|---|---|
| `FacebookOAuthService.start`, `finish`, `select` and the store's scripts | `StartOAuth`, `FinishOAuth`, `SaveSelection`, `ClaimSelection`, `ReleaseClaim`, `ConsumeClaim` |
| `FacebookPageService.connect` | `AskConnect`, `ReadOwn`, `ReadOther`, `Reserve`, `Subscribe`, `Reject`, `Confirm`, `ConfirmFailed` |
| `FacebookPageService.remove` | `AskRemove`, `ReserveRemoval`, `Unsubscribe`, `RemoveRejected`, `DeletePage` |
| Meta answering late, a dying process, expiry | `LateCall`, `CrashRequest`, `PageTick` |
| `startPersonalQrLogin`, `submitPersonalQrPassword` | `StartLogin` ... `SignIn`, `LoginFails`, `CheckLogin`, `SaveSession`, `FinishLogin` |
| `getActivePersonalClient`, `restorePersonalClient` | `AskClient`, `LookUpSession`, `Reconnect`, `Authorize`, `FinishRestore` |
| `logoutPersonalSession` | `StartLogout`, `DropLogins`, `ForgetClient`, `DeleteSession`, `DisableSession` |
| `attachPersonalMessageSync` | `Receive`, `CheckAccount`, `CheckReplay`, `StoreMessage`, `CountMessage`, `CallBot`, `HandlerThrows` |
| `startServer`, `restoreWithStartupDeadline` | `ConnectDatabase`, `Hydrate`, `SetUpLock`, `CleanUp`, `Listen`, `RestoreZalo`, `TelegramRestored`, `ZaloRestored` |
| `shutdown` | `Signal`, `StopZalo`, `StopPart`, `CloseStore` |
| `RedisFacebookOAuthStore` | `Connect`, `RawConnect`, `SocketOpens`, `RawEnds`, `AttemptEnds`, `AttemptTimesOut`, `AwaitAttempt`, `Quit`, `Destroy` |

Meta may carry out a subscription although its answer was lost, and later than
the timeout (`LateCall`); the states `subscribePending` and `removePending` of the
document say that it is not known. A client of Telegram is the login or the restore that
made it, and every client of the account brings every message.

`voided` is history: the logins that a logout or a newer login took from the map
before they were connected; `writing` are those of them whose session was being
written at that moment. The code looks at the map before that write and not
after it, so that these do become the account's client, and a session that the logout
deleted may be stored again (Finding 18). `VoidedLoginIsSilent` is about the
others, and about what a finished logout found: nothing of it comes back, except by
a login in `writing`. Without the exception TLC finds both false.

### MessengerInbox, TelegramBot, ZaloInbox

What a channel does with a message, one database round trip per action. Each has
a unique key, a look first and a write later, and a count that must follow the
store: `StoreEvent` of Messenger is a transaction, and is one step; the bot's
`LookForUpdate`, `UpsertChat`, `CreateUpdate`, `CountUpdate`, `AnswerUpdate` and
Zalo's `ReadSession`, `SkipReplay`, `UpsertTalk`, `CreateMessage`, `CountMessage`
are not, and may fail in between (`IngestFails`, `slipped`). Staff sends are
`AskSend` to `PersistReply` (Messenger) and `AskReply` to `PersistOut` (Zalo); a reply's
echo may be stored before the reply itself (`FindEcho`). `MarkRead`, `MarkUnread`,
`DeleteThread` and `DeleteTalk` are the inbox's own requests. In `ZaloInbox` the
account may change between the event and its handling, and between reading the
conversation and sending. Then `Remap` looks for the customer among the friends of
the account that will send, by the display name: whom it finds is the customer or a
friend of the same name (`Namesake`), which the code cannot tell
(`channels/zalo-personal/zalo-personal.client.ts:112`), and the conversation is bound to
that thread. `AddresseeIsRight` says what the code does ensure, that a reply goes
to a thread of the account that sends it, with a person of that name; that it is the
customer's, TLC finds false (Finding 19). `slipped` are the messages whose count failed,
`crossed` the conversations filed under another account than their thread's
(Finding 11).

### ConversationPins, SettingHistory, Assistants, QuickReplies, Workspaces, Migrations

Requests that look first and write afterwards, with the conditional write, index
or transaction that the code uses against each other's writes:

| Code | Actions |
|---|---|
| the look at the conversation | `TurnedAway`: the member's channels are a snapshot of the request's start |
| `pinConversationMessage`, `unpin...` | `AskToPin`, `PushPin` (the conditional `$push` with `PIN_LIMIT`), `ExplainPin`, `AskToUnpin`, `PullPin` |
| notes and tags | `AskForNote`, `WriteNote`, `AskAboutNote`, `EditNote`, `AskForTag`, `WriteTag`, `CreateTag`, `DeleteTag` |
| `recordSettingHistory` | `Save`, `Record`, `Insert`, `FindExpired`, `RemoveExpired`, `RecordingFails` |
| `createAssistant`, `updateAssistant` | `CreatePlain`, `UpdatePlain`, `BeginDefault`, `CommitDefault`, `RetryDefault`, `AbortDefault`, `DeleteAssistant`, and the templates' `AskForTemplate`, `InsertTemplate`, `AskToMoveTemplate`, `WriteTemplate` |
| `createQuickReply`, `update...`, `delete...` | `AskReply`, `Upload`, `UploadFails`, `CreateReply`, `UpdateReply`, `WriteFails`, `AnswerIsLost`, `DeleteReply`, `Destroy`, `WriterDies` |
| `ensurePersonalWorkspace`, `workspace-member.service.ts` | `Ensure`, `CreateSpace`, `FindSpace`, `EnsureOwner`, `Plan`, `Validate`, `WriteMember`, `RemoveMember`, `ChannelMoves` |
| the two index scripts | `RunScript`, `ListIndexes`, `CreateIndex`, `StartDropping`, `DropLegacy`, `ScriptSucceeds`, `ScriptDies`; the server beside them: `InsertDoc`, `DeleteDoc`, `AutoIndex` |

A transaction of `Assistants` sees the documents of its start and commits if nobody
wrote one that it writes and the partial index allows it (`BeginDefault`,
`CommitDefault`); MongoDB's snapshot isolation is external.

A patch of a member names a role, a list of channels or both (`UpdateMember`); what
it leaves out is written as it was read. `hadOnce` is history: the channels each
owner has or had, which bound the lists of the members (a channel that the owner
gives up stays in them).

`ConversationAccess` has no behaviour: `Lists`, `Joins` and `Hears` are the query
filter, `canJoinConversation` and the fan-out of `emitInboxEventToRecipients` as
functions of a member's row and a conversation.

### The web application

A request of the page is served at one moment and answered at a later one, in any
order or never; an event of the socket is an action of its own. What the page
does with an answer is the whole `then`, with its guards.

| Module | Code | Actions |
|---|---|---|
| `BrowserSession` | `App.tsx`, `lib/api.ts`, `auth.store.ts` | `LoadSession`, `Ask`, `LogIn`, `LogOut`, the server's `Serve...` and `TurnAway`, `StoreCookies`, `...Answered`, `Lost`, `Reload`, `RunEffects`, `SelectRoom`, `SelectElsewhere` |
| `WebThread` | the thread of `InboxPage.tsx`, `inbox-pins.ts`, `inbox-realtime.ts` | `Open`, `Join`, `Hide`, `Resume`, `Answer`, `HearMail`, `HearPins`, `AskPin`, `AnswerPin`, `SendText`, `RetryMessage`, `AnswerSend`, `FailSend`, `AskAdvice` |
| `WebUnread` | the list of `InboxPage.tsx` | `Pick`, `BeginRead`, `AnswerRead`, `FailRead`, `AskUnread`, `AnswerList`, `FailList`, `HearRing`, `HearUpdate`, `HearDeleted`, `ResumeList` |
| `WebQrLogin` | the QR dialog of `ConnectModal.tsx`, the account's card | `OpenDialog`, `LeaveProvider`, `Start`, `Poll`, `SendPassword`, `LoginAnswered`, `Deactivate`, `LoadStatus`, `Loaded` |
| `WebPageLogin` | `facebookOAuthFlowReducer`, the Page's card | `OpenPages`, `BeginOAuth`, `AskPages`, `PagesAnswered`, `ChoosePage`, `ConnectByHand`, `RemovePage`, `LoadPage`, `PageLoaded` |
| `WebQuickReplies` | `createQuickReplySync` | `SaveQuickReply`, `RemoveQuickReply`, `Invalidate`, `WriteAnswered`, `WriteFailed`, `WriteIgnored`, `GetAnswered` |
| `WebAssistants` | `ChatbotAutomationSettings` | `SelectAssistant`, `SaveAssistant`, `TogglePublication`, `SaveModelTier`, `AskMore`, `SendPreview`, `...Answered`, `Failed` |

`TurnAway` answers a request of any kind with an error that says nothing of its
session: the rate limit (429) or a failure of the server (5xx), after which a refresh
may or may not have used its token up. `App.tsx:223` takes such an answer of a
refresh for the end of the session, and `App.tsx:362` takes any answer of a logout for it. `declined` is
history: the answer that signed the tab out last was such an error. It excuses
`SignedOutMeansOver`; `SessionIsShown` is the same without the excuse, and TLC finds
it false (Finding 16).

The page has places where a late answer does harm that nothing in it prevents
(see Observed). Each is recorded by a history variable (`unsettled`, `declined`,
`elsewhere`, `belated`, `pickerLate`, `stray`, `spoilt`, `unreported`), which is an excuse
in the property of that component: the property says what the page keeps in
all other behaviours, and the history says exactly where it does not.

## 3. Runs

| Run | Instance | Question |
|---|---|---|
| `takeover` | 2 runs, 1 taker, 2 messages of which one asks for an agent, clock 0..1, 1 edit | does any interleaving let the bot speak after a takeover, or shorten a pause? |
| `faults` | 2 runs of one message, 1 taker, everybody may die, any MongoDB operation may fail, 1 edit | is a message answered twice, the lock shared, a verdict false or changed; is `CustomerReply` implemented? |
| `live` | 2 runs, 1 taker, 2 messages, one run may die, fairness | are locks given back, is every claim that is `processing` decided, is every takeover answered? |
| `fallback` | 1 run, expected to fail | see Findings |
| `posts` | 1 post, 2 requests, 2 schedulers, 3 images, clock 0..2, 1 fault (a write that fails, or one whose answer is lost) | is anything published twice unasked, a state false, an image of a stored post destroyed by anything but its own lost answer? |
| `posts_live` | 2 posts, 1 request, 1 scheduler, 2 faults, fairness | does every publishing state end, is every due post taken? |
| `zalo` | 2 processes, 2 QR logins, 1 restore each, 1 restart, leases intact | do two processes ever look after the owner; does a login from before a logout come back? |
| `zalo_faults` | 1 process, 1 QR login, 1 restore, 1 lost lease, 1 restart, 2 faults | does a cancelled login listen, is a listener out of everybody's reach? |
| `sessions` | 3 requests, 2 sessions, 1 socket, clock 0..2; a tab with 2 users, 2 workspaces, 2 requests at once, 2 logins, 2 refreshes of each | does anything survive a reset or logout that must not; is a token or link used twice; does the tab show whom its cookies act for, whatever answers are late, lost or errors? |
| `connections` | Facebook: 2 owners, 3 requests, 2 OAuth tokens; Telegram: 2 clients, 2 messages; server: 2 signals, 2 attempts to connect | do the document and Meta agree; is a selection used once; does a message take effect once, a login dropped before its write ever listen, anything a logout found come back, a closed store open? |
| `inbox` | Messenger: 3 calls of up to 2 events; bot: 2 updates in 3 calls; Zalo: 2 deliveries, 2 accounts, each with a namesake of the customer, 1 message and 1 send; the page: 2 conversations, 3 moves | is each message stored, counted and answered once; is what is stored as sent true; do late answers cross conversations? |
| `workspace` | 3 requests on each store: 3 messages and 2 pins allowed, 2 fields and 1 entry kept, 3 assistants, 2 shortcuts, 2 users with 2 channels, 3 conversations; the settings page: 2 requests at once, 3 writes or 5 requests; the dialogs: 2 requests and 2 loads of a card at once, 2 QR logins | do caps, defaults, images, ownership and indexes survive concurrency; do the settings page, the dialogs and the cards end up right? |

The runs take between 4 seconds and 4 minutes each, with two workers.

The last three runs, and `sessions`, check several components side by side that
share no variable: a variable (`moves`, `part`) chosen in the initial state says
which one moves (in `sessions`, the one that moved first), and the others stay in
an initial state. The run explores the
sum of their state spaces instead of the product, and loses nothing, since no
action reads another component. Its invariants are conjunctions of named
properties, each with the component it is about:

| Property | Of |
|---|---|
| `BrowserIsTrue` | `BrowserTypeOK`, `SignedOutMeansOver`, `SignedInIsOwner`, `ListIsOwn`, `HeaderIsShown` (`BrowserSession`); of a session that is alive and shown as over it excuses only what `unsettled` and `declined` record |
| `RotationIsRespected` | a logout ends a session only with its last refresh token, and no refresh shortens its life (`AuthSessions`) |
| `DialogsAreTrue` | `QrTypeOK`, `AccountCardIsCurrent` (`WebQrLogin`), `PageLoginTypeOK`, `PageCardIsCurrent`, `PickerIsLive` (`WebPageLogin`) |
| `PageMatchesMeta`, `SelectionUsedOnce` | `FacebookPages` |
| `TakenOnce`, `VoidedLoginIsSilent` | `TelegramPersonal` |
| `StoreStaysClosed` | `ServerLifecycle` |
| `InboxIsTrue` | `InboxTypeOK`, `UnreadIsExact`, `RepliesAreTrue` (`MessengerInbox`), `UpdatesAreHandledOnce` (`TelegramBot`), `ZaloUnreadIsExact`, `RecordsAreTrue`, `AddresseeIsRight` (`ZaloInbox`) |
| `ViewIsTrue` | `ViewIsOfActive`, `LoadsRespectPins` (`WebThread`), `NewsIsKept` (`WebUnread`) |
| `StoresAreConsistent` | `WorkspaceTypeOK`, `PinsAreLimited`, `NewestAreKept`, `HistoryIsTrue`, `OneDefault`, `ImagesAreStored`, `OwnersOwn`, `AccessIsOne`, `NoTwins`, `PagesHaveCustomers`, `ListIsCurrent` (`WebQuickReplies`), `EditorIsTheirs` (`WebAssistants`) |
| `ReplacedAtOnce` | a default that was replaced has a successor (`Assistants`), and the owner of a workspace stays one (`Workspaces`) |

Deadlock is not checked: every run ends when its requests have been served, its
clock has stopped and its edits are spent, as the program may when nobody calls.

Why the bounds are enough to be interesting. Each hazard needs at most two
actors of the pipeline (a replay, or one send against one takeover), one edit
in between, and a pause that either is in force or has run out: two runs, one
taker, one tick. A publish that outlives its lease needs an expiry (one tick), a
manual retry and a second attempt: two requests and two schedulers reach it.
A reset that meets a login and a third request needs three requests. A cap is
overrun by two requests that both looked before either wrote, and the third
comes after one of them; a pin limit of two and a history of one entry are the
smallest that can be full with something left outside. A late answer needs two requests at
once and a change in between, so two slots for each kind and three to five
things done in all. `workspace` was also checked with `MaxAskings = 6`. Two users are enough
for the memberships: the rows are those of an owner and of one other, and a channel
that is not the workspace's is the other's. An owner is
handed over between two processes, by two QR logins or a restore and a QR login;
run `zalo` stops at a slip (`NoSlip`), after which its properties are true by
their excuse, since `slips` only grows. The
theorems of section 4 remove the bounds for the properties proved there.

Fairness. `BotReply!FairSpec` is weak fairness of each live process's own next
step: MongoDB answers and timers fire. `SendSettles`, `ResolveAdapter` and
`PlatformDelivers` get none, because an adapter may never answer; `Lookup` and
`AgentSend` get none, because nobody has to call. A process that dies is excused
by name in the properties: `ClaimIsDecided` is about the claim of each message, and
lets it stay `processing` only if the run that made it died. In run `live` no
operation of MongoDB fails: a claim whose last write fails stays `processing`. `FacebookPosts!FairSpec` is weak fairness of each
scheduler (an interval timer starts its passes for ever; a publish has a timeout)
and of the clock; requests and Facebook get none.

## 4. Proofs

`BotReplyProofs` proves, for every number of runs, takers and messages, every
pause length and every bound, from the named assumptions of `BotReply` only
(runs, takers and the null value are different things; bounds are naturals):

| Theorem | Says |
|---|---|
| `TypeCorrect` | `Spec => []TypeOK` |
| `Inductive` | `Spec => []IInv` |
| `AnsweredAtMostOnce` | `[]AtMostOneSend` |
| `LockExcludes` | `[]SendLockExcludes` |
| `VerdictsAreTrue` | `[]VerdictIsTrue` |
| `TakeoverIsRespected` | `NoSendAfterTakeover` |
| `VerdictIsRespected` | `NoSendAfterVerdict` |
| `DecisionsAreFinal` | `ClaimIsFinal` |
| `PausesOnlyGrow` | `PauseOnlyGrows` |
| `PipelineImplementsContract` | `ImplementsContract`: `Spec => CustomerReply!Spec` under the mapping of `BotReply` |

None of the properties is inductive by itself. `IInv` adds to the types:

- `SendLockExcludes`, inductive given types, since an acquisition needs a null
  lease and a release compares the holder;
- `TakeoverInv`: between reading the pause and sending, a run holds the lock, so
  no takeover it has not seen can have been committed. This is the reason
  `NoSendAfterTakeover` holds, and needs the lock;
- `OwnershipInv`: until the timer fires, a run on its way to a send is awaited
  by its `deliver` and still owns an undecided, reserved claim;
- `SendInv`: a run that may still send has not sent, and no other run has for
  this message; needs ownership;
- `VerdictInv`: a settled result is what the platform did, and a positive
  verdict is the last thing a run writes.

Each part has a step lemma with one step per action. The lemma
`StepIsQuietOrLoud` divides the actions into those that leave `sends` alone and
the one (`CheckAndSend`) that does not, for the action properties.

The last part of the module proves that the pipeline implements `CustomerReply`. A
message's attempts, verdict and receipt are read off `sends`, the claims and the
platform (`AbsVerdict`, `AbsReceived`); each action then is an attempt, a
delivery, a verdict, a deletion or a stutter. The proof adds `NetInv` to `IInv`: a send
that the platform knows of is the only one of its message.

`FacebookPostsProofs` proves, for every number of posts, requests, schedulers and
images, every lease and every bound on the clock and the faults:

| Theorem | Says |
|---|---|
| `TypeCorrect` | `Spec => []TypeOK` |
| `PublishedOncePerConfirmation` | `[]PublishNeedsConfirmation`: no publish call is repeated without a manual retry |
| `PublishedIsOnThePage` | `[]PublishedIsTrue` |
| `ImagesSurvive` | `[]MediaIsStored`: the image of a stored post is destroyed only by the `catch` of the very write that put it there, when that write's answer was lost |
| `OutcomesAreRespected` | `OutcomeIsRespected`: a scheduler's late result ends its own attempt only, and what is published stays so |

- `TypeInv` divides the types by what an action touches (workers, documents, world,
  history), and adds that a worker at a post's control point has a post.
- `CountInv` is the argument of the first: the calls begun for a post, with those
  about to begin (`CallsNeedClaims`), are at most the claims made, and the claims
  at most the manual retries and one more once the post was claimed
  (`ClaimsNeedRetries`): a failed post is claimed again only by a retry or after one.
- `TruthInv`: a worker about to save `published` has itself seen Facebook take the
  post, and what is on the page stays there.
- `MediaInv` is the argument of the third: no two posts have an image in common
  (`OwnImages`), what a request has uploaded is nobody's yet (`UploadIsFresh`), what
  it remembers to destroy was its own post's (`OldIsOwn`), and what it is about
  to destroy is no post's any more (`DoomedIsUnused`). `unsure` keeps the images
  whose write went unanswered apart: they count as used, so that no later upload is one of
  them.

- `OutcomeInv` is the argument of the last. A post is claimed by its schedule once at
  most: whoever claimed it, its schedule is past from then on (`ScheduleInv`), so
  that a failed post is retried at once or not at all, and no scheduler claims it
  after a request did. Hence no late result of a request, whose filter names no
  lease, meets a scheduler's attempt; and what follows a scheduler's attempt that a
  pass has ended is a retry with a lease that ends later (`Attempted`). The invariant
  was checked with three requests, three schedulers and a clock of 0..3 before it was
  proved. The processes have one clock here: the schedules and leases of the code are
  compared with each process's own.

The lemma `ActionTurns` says where each action leads its worker, which the step
lemmas use to say that the other workers stay.

`AuthSessionsProofs` proves, for every finite set of requests and any number of
sessions and sockets, every length of a session and of a link:

| Theorem | Says |
|---|---|
| `TypeCorrect` | `Spec => []TypeOK`, with the counters bounded by the number of requests |
| `Inductive` | `Spec => []IInv` |
| `ResetRevokesAll` | `[]SessionsAreCurrent`: no session survives the reset of the password it was made with |
| `TokensAreSpentOnce` | `[]TokenExchangedOnce` |
| `RevocationReachesSockets` | `[]RevokedSocketsClose` |
| `RotationsAreRespected` | `RotationIsRespected` |
| `BrowserStaysTrue` | `LoginSpec => []BrowserIsTrue`, of the browser's side: any number of users, workspaces, requests at once, logins and refreshes, any of which may be answered with an error, from `VisitorAssumption` and `BrowserBounds` |

- `CountInv` bounds the password, links and tokens by the requests that have
  counted (`Used`, a cardinality: the one place where `RequestsAssumption` is used).
- `JobInv`: what a request read. The token it read was the session's last, and
  once replaced is never the last again (`Read`).
- `SessionInv`: a living session was made with the current password and has not
  given its last token away. It needs the conditional writes of `LoginCommit` and
  `RotateSave`, which compare what was read with what is stored.
- `SocketInv`: a connected socket of a revoked session has a request on its way
  to close it, or one that died on that way.

The lemma `Effects` states once what each action does to the sessions.

`BrowserInv` is the inductive invariant of the browser's side. `CookiesInv`,
`BootInv`, `FetchInv` and `PickerInv` hold always; the last three parts hold until
requests that change the session overlap or get lost (`unsettled`), and again after
the login or reload that settles the tab (`Settles`).

- `CookiesInv`: no cookie, in the browser or in an answer, is of a session
  yet to come or ahead of its session (`Genuine`).
- `FetchInv`: an answer under way is true of the session its cookies name.
- `RenewInv` is the argument for `SignedOutMeansOver`: one request at a time
  changes the session, a refresh carries the browser's own token, and once served
  has used it up. So a tab that is told by the service that nobody is signed in keeps
  cookies that open nothing (one that an error tells so is `declined`), and a tab that is told of a user stores cookies of that user
  (`OwnerInv`).
- `PickerIsOwn`: the list asked for and shown is that user's, and the room shown
  is the saved one.

What these say of sessions they say with the sessions as a parameter (`Serves`,
`Open`, `Genuine`). Sessions only age (`Ages`), and `Aging` says once that all of
it survives that.

`ConnectionsProofs` proves the components of the run `connections`, but for
`FacebookPages`, and the two dialogs of the run `workspace`, for any number of clients,
messages, signals, attempts, logins and requests at once, from `ClientsAssumption` and
`AttemptsBound`:

| Theorem | Says |
|---|---|
| `TelegramInductive` | `TelegramSpec => []TelegramInv` |
| `MessagesAreTakenOnce` | `[]TakenOnce` |
| `VoidedLoginsStaySilent` | `[]VoidedLoginIsSilent`: of the logins that were dropped, only those in the middle of their session write come back, and of what a finished logout found nothing else does |
| `StoreStays` | `ServerSpec => []StoreStaysClosed` |
| `CardFollows` | `QrSpec => []AccountCardIsCurrent` |
| `PageDialogIsTrue` | `PageLoginSpec => [](PageCardIsCurrent /\ PickerIsLive)` |
| `DialogsStayTrue` | `DialogsSpec => []DialogsAreTrue` |
| `ConnectionsAreTyped` | `ConnectionsSpec => []ConnectionsTypeOK`: the types of `FacebookPages`, `TelegramPersonal` and `ServerLifecycle`, which no run checks |

- `LoginInv`: a login that is not saved yet is unknown to everything else, and one
  that a logout took from the map before that stays so: `SaveSession` is reached
  through `CheckLogin` only, which looks for the login in the map. What was dropped later, while its
  session was being written (`writing`), is the one exception, and Finding 18.
- `LogoutInv`: every login that a logout found has begun, and as the logout goes on it
  is dropped or over, then not the client, then not the stored session, but for those in
  `writing`.
- `MessageInv`: at most one of the handlers of a message, of all clients, is
  between storing it and its end, which is the meaning of the unique index.
- `ClientInv`: after the close a client is ready only by an attempt whose socket has
  just opened, and that attempt's `finally` closes it (`MustDestroy`).
- `CardKnows`, `PageCardKnows`: of the one request for a card that counts, the
  answer under way is what the server has, unless that changed since and the page is
  yet to be told; the Telegram card has such a request only while they do not
  overlap, the Page's card always (`IsNewest`).
- `PickerKnows`: one request at a time is about the list of Pages, and once the page
  was told that the list is over nothing under way leads back to the picker.

`FacebookPagesProofs` proves, for any number of owners, requests and tokens and
any life of a state or a selection:

| Theorem | Says |
|---|---|
| `PagesInductive` | `PagesSpec => []IInv` |
| `PagesMatchMeta` | `[]PageMatchesMeta`: the document and the subscription agree |
| `SelectionsAreUsedOnce` | `[]SelectionUsedOnce` |

- `HoldInv`: a document in transition belongs to the request that put it there
  (`Reserved`, `RemovedDoc`), and a call whose caller gave up leaves a document
  that nobody holds and nobody can take, so that Meta's late answer finds it in
  transition. This is what the pending states are for.
- `SelectionInv`: the claim of a selection is that of the request that uses it,
  and lasts at least as long as the selection (`Blocked`), so that no second
  request can claim it after the first one's success; `claim` is given back only on a
  failure, by its holder.

`ZaloLifecycleProofs` proves, for any number of processes and QR logins, from
`NothingAssumption`, `ApisAssumption` and `BoundsAssumption`:

| Theorem | Says |
|---|---|
| `TypeCorrect` | `Spec => []TypeOK` |
| `Inductive` | `Spec => []IInv` |
| `OneProcessOwns` | `[]OwnerIsExclusive`: one process at a time listens or shows a QR code |
| `LogoutIsFinal` | `[]LogoutVoidsLogins`: a login from before a logout does not bring the session back |
| `CancelledStaysSilent` | `[]CancelledIsSilent`: a cancelled login has no listener, unless a write or a stop failed |
| `LogoutReaches` | `[]ListenerIsReachable`: a logout would stop the listener of a QR login, whatever failed |

The first two properties are about runs in which no lease was lost, nothing slipped
and nothing failed (`Quiet`), and so are the parts `OwnInv` and `VoidInv` of `IInv`
that prove them. The last two are about any run: leases are lost and processes die
as often as they like, and for `ListenerIsReachable` writes and stops fail too.

- `OpInv`: what an operation remembers was begun, and by a process.
- `OwnInv` is the argument of both: whoever is in the middle of an operation of the
  owner, listens or shows a QR code holds the lease, and Redis names it
  (`OwnLease`). It needs to know what becomes of the lease at the end of an
  operation, and so what each listener belongs to (`OwnListens`), which points of
  an operation have no active client (`OwnOp`), and that no session can be restored
  while a QR code waits (`OwnWait`): otherwise a restore that gives the lease back
  would leave a QR code behind.
- `VoidInv`: no operation is about to save a login from before the last logout, no
  QR code of one waits, and the stored session is not from one.
- `ReachInv` holds always: whose each listener is and that its api can be
  stopped (`ListensKnow`), which client the Maps may show at each point of an operation
  (`MapsKnow`), what an operation and a fencing remember of a login
  (`LoginKnows`, `FenceKnows`), and that the api of a login is not stopped before the
  service has it (`Whole`).
- `AloneInv`, outside of `beside`: the login that listens is the one in the map, and
  no operation has gone past the point where it would have stopped it.
- `SilentInv`, without a fault: the login that listens is the client's, or that of
  the operation which is about to store it and will look whether it was cancelled.

`ListenerIsReachable` was first stated with `slips` as its excuse and true in the run's
one process with one login. The proof failed, rightly: TLC finds it false with two
processes, two logins, one lost lease and one failing write, by the way that `beside`
now names. The property as it stands excuses that and nothing else.

The argument goes by process. Whoever does not hold the lease has nothing of the
owner and stays so (`OthersSleep`, `SleeperStays`), whoever works for the owner is
not disturbed (`WorkerStays`, `OthersOwn`), and the one that moves leaves itself in
order (`Leaving` at the end of an operation, `MoverOwn` before).

`InboxProofs` proves, for the five components of the run `inbox` and their
composition, for any number of conversations, accounts, deliveries, requests and
moves, and any finite set of messages and updates (their counts are compared with
cardinalities):

| Theorem | Says |
|---|---|
| `MessengerCounts`, `BotHandles`, `ZaloCounts`, `ThreadIsOfActive`, `NewsIsNotLost` | the inductive invariant of each component, and the action properties of the last two |
| `InboxStaysTrue` | `InboxSpec => []InboxIsTrue` |
| `ViewStaysTrue` | `InboxSpec => ViewIsTrue` |

Each inductive invariant says what those know who have read and not yet written:

- `MessengerInv`: a webhook call is about an event that was sent and is not
  in a conversation of its own making (`CallsAreReal`), a reply about to be stored
  was taken by Meta or is known to have failed (`RequestsAreReal`).
- `BotInv`: of the calls that bring one update, at most one is past storing it
  (`OneCallHandles`), which is the unique index; what that call has done so far is what the
  update's effect shows.
- `ZaloInv`: what a delivery has read (`EventsKnow`) was true once and the unique
  key of the conversation has kept it so (`TalksAreFiled`), also after a remapping, be it
  to the customer or to a namesake; a message counts in the
  conversation it is stored in and in no other (`CountsAreOwn`), so that the badge is
  the cardinality of the messages counted there (`BadgeIsExact`). Adding and removing one
  message is `FS_AddElement` on that set.
- `ThreadInv`: a load under way is of a conversation that was open when it began
  (`LoadKnows`), and what the page holds back for a load is what it has heard since.
- `ListInv`: a mark of a conversation is not newer than its revision
  (`MarksKnow`), and an answer that may still be taken belongs to the newest one
  (`ReadsKnow`).

The composition shares no variable, so a step of the inbox is, for each
component, its own step or a stutter (`InboxMoves`).

`WorkspaceProofs` proves, for the nine components of the run `workspace` other than the
dialogs and their composition, for any number of requests, writes, loads and users, and any limits:

| Theorem | Says |
|---|---|
| `ListedIsJoinedIsHeard` | `AccessIsOne`, of every row and conversation |
| `PinsStayLimited` | `PinSpec => []PinsAreLimited` |
| `HistoryStaysTrue` | `HistorySpec => [](NewestAreKept /\ HistoryIsTrue)` |
| `OneDefaultAlways` | `AssistantsSpec => []OneDefault`, and `DefaultIsHandedOver` of every step |
| `OwnersOwnAlways` | `SpacesSpec => []OwnersOwn`, and `OwnersStay` of every step |
| `ImagesStayStored` | `RepliesSpec => []ImagesAreStored` |
| `NoTwinsEver` | `MigrationsSpec => [](NoTwins /\ PagesHaveCustomers)` |
| `QuickRepliesStayCurrent` | `QuickSpec => []ListIsCurrent` |
| `EditorStaysTheirs` | `WebAssistantsSpec => []EditorIsTheirs` |
| `WorkspaceStaysTrue` | `WorkspaceSpec => []StoresAreConsistent` |
| `WorkspaceReplaces` | `WorkspaceSpec => ReplacedAtOnce` |

Each component's theorem states its types too. The arguments:

- *Access*: reading a context as if it were a row changes nothing (`EffectiveTwice`),
  and a channel taken from a row's older list of Pages is never a personal session
  (`EffectiveNamesOwner`), after which the three forms are the same formula.
- *Pins, assistants, members*: the writes are conditional or in a transaction, so
  that what was read before may be stale and only its kind matters (`AskedOf`,
  `BeginsWithOne`, `JobsLookedFirst`).
- *Migrations*: some index, or the two new ones together, forbid the same customer
  twice at every moment (`Guarded`), and no index is created that the documents
  violate (`Indexed`). `ScriptInv` says why a script drops an index only when its
  successors are there, although it lists the indexes first and drops them later.
- *Images*: an image belongs to the one reply whose request uploaded it
  (`ImagesHaveWriters`); what is about to be destroyed belongs to none
  (`VictimsAreFree`), unless its write went unanswered; an image without a reply
  has a request that will see to it (`SeenTo`).
- *History*: the clock counts the changes that are stamped (`StampsInv`), so that
  `Older` is a strict order and what is beyond the limit stays so when newer entries
  come. Of those who inserted, the last to look removes whatever is too much: while
  somebody has still to look the count may be wrong, and otherwise what nobody is
  about to remove is within the limit (`LimitInv`). The changes of a field form a
  chain because the update returns the document as it was (`ChainInv`).
- *The list of quick replies*: one load at most is current, and only while no write
  is pending; it will tell what the server has unless the server changed unheard
  (`GetsInv`). A reply whose removal is under way is neither confirmed nor to be
  (`WritesApart`), so that merging keeps none the server has lost.
- *The assistant section* has several requests under way whose answers change the
  same list. `LatestIsKept`: of the answers about one assistant, the one the server
  gave last says what the server has, and without any the page has it. `EachFits`:
  what an answer takes for granted is what the answer before it leaves behind.
  `DeadStayDead`: after a deletion no answer brings the assistant back. The turn in which the
  server served the requests orders them (`TurnsApart`); "the last answer" exists
  because the turns are natural numbers below a bound. The invariant was checked
  with three requests and five askings before it was proved.

The assumptions are those of the modules: `PinAssumption`, `HistoryAssumption`
(finitely many changes, since their stamps are their count), `HelperAssumption`,
`UsersAssumption`, `ImageAssumption`, `QuickAssumption` (finitely many writes, which
`pendingMutations` counts) and `EditorAssumption`. `Shortcuts`, `Fields`, `Gets` and
`Requests` are not empty because the initial states choose one of them as the value of
an idle slot. A list from which elements are taken is `Subsequence`, by the places
that remain: the provers know nothing of `SelectSeq`, which has the same
meaning.

Only model-checked: liveness (`LockIsReleased`, `ClaimIsDecided`, `TakeoverReturns`,
`PublishingEnds`, `DueIsTaken`), which with ENABLED is out of the proof system's reach, as
is recursion over data. Every invariant and every action property of the runs is a
theorem.

## 5. Findings

1. `src/README.md:83` says that every fallback moves the conversation to
   `pending` and pauses the bot for 30 minutes. The code does so only when the
   customer asked for an agent. Run `fallback` shows it.
2. `src/README.md:79` says that a failed orchestration moves the conversation to
   `pending` and pauses. `processTelegramCustomerMessage` sets it to `open`
   and pauses nothing.
3. A design document says that a post whose lease expired is queued again;
   `runOnce` ends it as failed for a manual retry. The code's choice is the
   one that `PublishNeedsConfirmation` needs.
4. A comment at `services/zalo-personal.service.ts:747` says that a lost lease
   leaves no way to send or receive. A restore that has started its listener and
   waits for its write is in none of the Maps: the fencing stops nothing, and
   the restore then deletes the lease error, writes `connected` and keeps
   listening without a lease.
5. `src/README.md:102` says that a logout stops the listener and deletes the
   session. `restoreActiveZaloPersonalClients` reads the sessions before it queues
   for the lease and not again inside: a logout in between is followed by a
   listener with the deleted credentials, and a QR login in between by two.
6. A comment at `services/zalo-personal.service.ts:102` says that an old
   listener error must not lock the QR flow. Within the process that saw it,
   `runtimeErrorsByOwner` does so at line 75.
7. A comment at `server.ts:201` says that the Zalo listener must stop before the
   leases and the database close. A shutdown during the restore neither waits for
   it nor refuses it: the restore may take a lease and listen afterwards.
8. A comment at `services/workspace-member.service.ts:196` says that a patch keeps
   the channels it does not mention. A patch of the role writes back the channels
   it read first, and loses a concurrent patch of the channels.
9. A design document says that no message reaches a member without access. The
   workspace row is read at the socket's handshake and a room is joined once:
   who is removed or restricted goes on listening until the socket closes
   (`realtime/socket.ts:85`).
10. `src/README.md:131` says that the image of a failed write is cleaned up. The
    catch of `updateQuickReply` cannot tell a lost answer from a failed write, and
    destroys the image the row now refers to.
11. A comment at `models/conversation.model.ts:12` says that a Zalo conversation
    stays bound to the account that received it. The account is read from the
    session when an event is handled (`services/zalo-personal.service.ts:545`): after
    a change of the account an event of the old one is filed under the new one.
12. A comment at `services/message.service.ts:293` says that only errors from
    before the send are known to have sent nothing. The remapping at line 253 may
    throw a duplicate key, which is not counted among them, and the message is
    stored as pending although it was not sent.
13. `src/README.md:112` warns that running the owner-index migration after the
    one for Facebook would bring back the global constraint. The script throws at
    `db/migrate-conversation-owner-index.ts:61` before it changes anything.
14. A design document says that a 401 is followed by one refresh and one retry.
    Of two requests that get a 401 at once each refreshes; the loser's refresh is
    refused and signs the page out although the winner's cookies are good
    (`src/apps/web/src/App.tsx:221`).
15. A comment at `ConnectModal.tsx:77` says that an old picker cannot outlive
    success or expiry. The reducer takes `pages-loaded` in every state (line 83).
16. A design document says that a session which is missing or expired answers 401 and
    that the frontend then shows the login page, and that a logout always clears the
    cookies (`docs/superpowers/specs/2026-09-21-auth-cookie-design.md:76`, `:77`). The
    page takes every answer of `refresh` that is not OK for that (`App.tsx:223`), and
    every end of a logout's request (`App.tsx:362`): one that the rate limit turned
    away or that failed with a 5xx leaves the cookies good, and a reload signs the user in
    again. `SignedOutMeansOver` excuses it by name (`declined`).
17. A test says that an upload is destroyed when the post could not be stored
    (`services/facebook-post.service.test.ts:111`). The `catch` of `createPost` and
    `updatePost` (`services/facebook-post.service.ts:177`, `:220`) cannot tell that from a
    write whose answer was lost, and destroys the image of a stored post.
    `MediaIsStored` excuses it by name (`unsure`).
18. A comment at `services/telegram-personal.service.ts:217` says that a logout stops
    every login before it deletes the session, so that none restores itself. A login
    that is dropped while its session is being written (line 154) looks no more: the
    upsert may come after the deletion, and the login becomes the account's client.
    `VoidedLoginIsSilent` excuses it by name (`writing`).
19. A test says that after a change of the Zalo account a conversation is remapped to
    the matching contact (`services/outbound-message.service.test.ts:454`). The contact
    is the only friend of the same display name (`services/message.service.ts:243`), be
    he the customer or not: the reply goes to a namesake, and the conversation is his
    from then on. `AddresseeIsRight` counts the namesake among whom a reply may reach
    (`ThreadsOf`).

Observed, and not contradicted by any text of the repository. On the server:

- a process that dies inside `withConversationSendLock` leaves `sendLeaseId` set
  for ever; `sendLeaseAt` is written and never read. Afterwards takeovers answer
  `CONVERSATION_SEND_BUSY` and bots give up;
- `updateAssignment` may report busy after it has assigned the agent;
- the terminal updates of a staff request name the status and not the lease, so
  a late result may end the attempt of a later retry. What it records is true
  all the same;
- `retryPost` with mode `scheduled` never finds what it asks for, a failed post
  whose schedule is in the future (`ScheduleInv`), and always answers
  `FACEBOOK_POST_SCHEDULE_IN_PAST`, unless the clocks of two processes differ;
- `retryPost` reads `attempts` and writes it back, and so loses a concurrent
  increment; of two overlapping updates of a post's image the first one's upload
  is left behind at the provider;
- `handleZaloPersonalListenerError` (line 537) runs outside of the owner's queue
  and gives back the lease the process holds by then, be it that of a
  running logout or of a later QR login;
- `logoutZaloPersonal` stops the client, or else the login in the map
  (line 164), and clears both Maps: when a session was restored beside the
  listener of a QR login, or the other way about, that listener goes on after the
  logout and nothing in the process knows it (`beside`);
- `compensateStaleQrWrite` deletes the owner's session whoever wrote it;
- `runQrLogin` leaves a rejection unhandled when the lease for recording a
  failure cannot be had (`FailureLocked`), which ends the process;
- a QR code that nobody scans and nobody asks about stays `waiting_qr` after it
  has expired, and keeps the owner's lease in that process;
- the orchestrator's own catch (`chatbot-orchestrator.ts:198`) is
  practically unreachable: `deliver` reports its failures as results;
- `externalMessageId` of Telegram is the bare id of a message, which is unique in
  a chat only, under a unique index of platform and id
  (`telegram-personal.service.ts:306` and `:356`, `telegram.service.ts:27`): messages of
  other chats or owners may be taken for replays;
- `ingestTelegramUpdate` that fails between `create` and `$inc` loses the unread count
  and the bot's answer, since the repetition finds the message stored;
- the echo of a `telegram_personal` send may be stored first, and the request then
  fails with a duplicate key after it has sent (`message.service.ts:328`);
- a note written while its conversation is deleted stays without one
  (`conversation-note.service.ts:50`);
- a socket whose access token names no session is never rechecked.

In the browser:

- `sendText` appends the answer to whichever conversation is open by then
  (`InboxPage.tsx:669`); retrying after a lost answer sends twice;
- a message stored between the load of the history and the join of the room is
  never shown, though it is marked read (`InboxPage.tsx:362`, `:417`), and
  `syncAfterResume` does not load the pins again;
- a logout whose request is lost shows the login page while the session lives
  (`auth.store.ts:8`); a refresh answered after a logout or another login signs in
  again whom the cookies do not act for (`unsettled`);
- a workspace chosen in another tab changes the header of this one
  (`api.ts:21`, `elsewhere`), and the first requests after a login run before the
  active user is set (`due`);
- a late poll of an older QR login replaces the one shown
  (`ConnectModal.tsx:166`); the Telegram and Zalo cards, unlike the Page's, show the
  answer that came last, and a failed status as not connected
  (`DashboardPage.tsx:134`, `belated`);
- late answers on the settings page replace what was selected or typed since
  (`SettingsPage.tsx` 482, 510, 537, 555, 605, 621, 653, 690; `stray`, `spoilt`), and an
  answer to another token's write is dropped without a reload (819, `unreported`).

## 6. Not modelled, and why

- Texts, prompts, JWTs, hashing, cookies' attributes, the wording of errors and the
  validation of request bodies decide nothing that the properties tell apart.
- Retrieval and language models: numeric ranking and calls to providers. The
  pipeline keeps only that any of it may fail or take too long.
- Template matching, `diffSettings`' walk through nested paths, media formats and
  the conversion of messages: functions of one value, covered by unit tests.
- `auth.middleware.ts` and `inbox-access.ts`: one read and a decision.
- The customer record, the profile and general settings, the listing's filters:
  single reads and single-document writes.
- The migrations other than the two index scripts rewrite documents once, in a
  maintenance window.
- Typing indicators, notification sounds, layout, AI suggestions' texts, the Zalo
  dialog (which polls as the Telegram dialog does), the publishing, profile, history
  and landing pages.
- Redis's and Socket.IO's own delays between processes: `disconnectSockets` and a
  key's expiry are seen at once.
- Several owners where owners share nothing; the ids of Telegram messages, which they
  do share, are under Observed.
