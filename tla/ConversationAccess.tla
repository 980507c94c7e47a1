-------------------------- MODULE ConversationAccess --------------------------
(***************************************************************************)
(* Who may see a conversation.  The rule is written three times: as a      *)
(* filter of queries (conversationAccessFilter, which every list, read and *)
(* write uses), as a test of one conversation (canJoinConversation: rooms  *)
(* of the socket and outbound messages), and as a choice of receivers      *)
(* (emitInboxEventToRecipients).  Each reads a member's row its own way.   *)
(*                                                                         *)
(* These are pure functions of a member's row and a conversation.  Refs    *)
(* that the schema refuses are left out, and so are accounts outside of    *)
(* any workspace.                                                          *)
(***************************************************************************)
CONSTANTS
  People,
  NoPerson,
  ChannelIds,
  Platforms  \* the supported platforms, or some of them

ASSUME PeopleAssumption == NoPerson \notin People

Personal == {"zalo_personal", "telegram_personal"}
Refs == [platform : Platforms, channel : ChannelIds \cup People]
Rows == [role : {"owner", "admin", "staff"}, channels : SUBSET Refs, pages : SUBSET ChannelIds]
Conversations ==
  [platform : Platforms, channel : ChannelIds, owner : People \cup {NoPerson}]

\* Older rows list Pages only.
PageRefs(pages) == {[platform |-> "facebook", channel |-> page] : page \in pages}
PagesOf(refs) == {ref.channel : ref \in {ref \in refs : ref.platform = "facebook"}}

\* effectiveAllowedChannels; an empty set restricts nothing.
Effective(channels, pages) == IF channels # {} THEN channels ELSE PageRefs(pages)

\* What the context of a request or a handshake keeps of the row.
Allowed(row) == IF row.role = "staff" THEN Effective(row.channels, row.pages) ELSE {}

\* The context goes through effectiveAllowedChannels again.
AllowedAgain(row) == Effective(Allowed(row), PagesOf(Allowed(row)))

\* As a mutant of InFilter: a personal session is looked up by its channel too.
InFilterById(ref, conv) == ref.platform = conv.platform /\ ref.channel = conv.channel

\* workspaceChannelAccessFilter: a personal session is all of its platform.
InFilter(ref, conv) ==
  /\ ref.platform = conv.platform
  /\ conv.platform \in Personal \/ ref.channel = conv.channel

\* canJoinConversation and emitInboxEventToRecipients: a personal session is
\* named by the owner of the workspace.
Grants(ref, w, conv) ==
  /\ ref.platform = conv.platform
  /\ ref.channel = IF conv.platform \in Personal THEN w ELSE conv.channel

\* conversationAccessFilter, canJoinConversation and emitInboxEventToRecipients
\* for a member of the workspace of w.
Lists(w, row, conv) ==
  /\ conv.owner = w
  /\ AllowedAgain(row) = {} \/ \E ref \in AllowedAgain(row) : InFilter(ref, conv)

Joins(w, row, conv) ==
  /\ conv.owner = w
  /\ AllowedAgain(row) = {} \/ \E ref \in AllowedAgain(row) : Grants(ref, w, conv)

Hears(w, row, conv) ==
  /\ conv.owner = w
  /\ \/ row.role \in {"owner", "admin"}
     \/ Effective(row.channels, row.pages) = {}
     \/ \E ref \in Effective(row.channels, row.pages) : Grants(ref, conv.owner, conv)

\* personalSessionWorkspaceChannels and findOwned: what validateAllowedChannels
\* lets be stored for a personal session names the owner of the workspace.
NamesOwner(w, row) == \A ref \in row.channels : ref.platform \in Personal => ref.channel = w
-----------------------------------------------------------------------------
(* What must hold.                                                          *)

\* realtime/access.ts:7: the members who find a conversation in their list are
\* those who may open its room and answer in it, and those who get its events.
AccessIsOne ==
  \A w \in People, row \in Rows, conv \in Conversations :
    NamesOwner(w, row) =>
      /\ Lists(w, row, conv) <=> Joins(w, row, conv)
      /\ Lists(w, row, conv) <=> Hears(w, row, conv)
=============================================================================
