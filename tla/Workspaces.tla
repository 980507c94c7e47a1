------------------------------ MODULE Workspaces ------------------------------
(***************************************************************************)
(* Workspaces and their members (workspace.service.ts,                     *)
(* workspace-member.service.ts).  Every user has one workspace, made at    *)
(* the first need by any of several requests; its owner gives others a     *)
(* role and, as staff, a list of channels.  An empty list restricts        *)
(* nothing.                                                                *)
(*                                                                         *)
(* A workspace has the name of its owner, as ownerUserId is unique.  The   *)
(* requests look first and write afterwards.  Channels come and go with    *)
(* the connections of the owner.                                           *)
(***************************************************************************)
EXTENDS Naturals

CONSTANTS
  Users,
  Channels,
  Jobs,     \* requests
  NoUser

ASSUME UsersAssumption == NoUser \notin Users

VARIABLES
  spaces,  \* Workspace documents
  member,  \* WorkspaceMember documents, by workspace and user
  ownedBy, \* channels.listOwned
  hadOnce, \* history: the channels that were owned at some time
  job      \* a request: its control point, workspace and user, what it read and will write

channelVars == <<ownedBy, hadOnce>>
spaceVars == <<spaces, member, channelVars, job>>

Roles == {"admin", "staff"}
NoMember == [role |-> "none", channels |-> {}]
Memberships == [role : Roles \cup {"none", "owner"}, channels : SUBSET Channels]
JobPoints == {"new", "createSpace", "findSpace", "ensureOwner", "validate", "write", "over"}
NoJob == [at |-> "new", space |-> NoUser, user |-> NoUser, op |-> "ensure", row |-> NoMember]

\* The types of the documents and of the requests.
SpacesTypeOK ==
  /\ spaces \subseteq Users
  /\ member \in [Users -> [Users -> Memberships]]
  /\ ownedBy \in [Users -> SUBSET Channels] /\ hadOnce \in [Users -> SUBSET Channels]
  /\ job \in [Jobs -> [at : JobPoints, space : Users \cup {NoUser}, user : Users \cup {NoUser},
                       op : {"ensure", "add", "update", "remove"}, row : Memberships]]

SpacesInit ==
  /\ spaces = {}
  /\ member = [w \in Users |-> [u \in Users |-> NoMember]]
  /\ ownedBy = [u \in Users |-> {}] /\ hadOnce = ownedBy
  /\ job = [k \in Jobs |-> NoJob]

JobGoto(k, point) == job' = [job EXCEPT ![k].at = point]
JobOver(k) == job' = [job EXCEPT ![k] = [NoJob EXCEPT !.at = "over"]]
-----------------------------------------------------------------------------
(* ensurePersonalWorkspace.                                                 *)

Ensure(k, u) ==
  /\ job[k].at = "new"
  /\ job' = [job EXCEPT ![k].at = IF u \in spaces THEN "ensureOwner" ELSE "createSpace",
                        ![k].space = u, ![k].user = u]
  /\ UNCHANGED <<spaces, member, channelVars>>

\* A duplicate key: another request was first, and its workspace is taken.
CreateSpace(k) ==
  /\ job[k].at = "createSpace"
  /\ spaces' = spaces \cup {job[k].space}
  /\ JobGoto(k, IF job[k].space \in spaces THEN "findSpace" ELSE "ensureOwner")
  /\ UNCHANGED <<member, channelVars>>

FindSpace(k) ==
  /\ job[k].at = "findSpace"
  /\ JobGoto(k, "ensureOwner")
  /\ UNCHANGED <<spaces, member, channelVars>>

\* The upsert of the owner's membership.
EnsureOwner(k) ==
  LET w == job[k].space IN
  /\ job[k].at = "ensureOwner"
  /\ member' = [member EXCEPT ![w][w].role = "owner"]
  /\ JobOver(k)
  /\ UNCHANGED <<spaces, channelVars>>
-----------------------------------------------------------------------------
(* Members, managed by the owner.                                           *)

\* requireOwner.
Owns(a, w) == member[w][a].role = "owner" /\ w \in spaces /\ w = a

\* As a mutant of Editable: the owner's own membership may be changed too.
Anyone(w, u) == member[w][u].role # "none"

\* A membership that the owner may change or remove.
Editable(w, u) == member[w][u].role \notin {"none", "owner"}

\* The role and the list a request asks for.
\* validateAllowedChannels: an administrator has no list.
Patched(role, channels) ==
  [role |-> role, channels |-> IF role = "admin" THEN {} ELSE channels]

Plan(k, w, u, op, row) ==
  job' = [job EXCEPT ![k] = [at |-> IF row.channels = {} THEN "write" ELSE "validate",
                             space |-> w, user |-> u, op |-> op, row |-> row]]

\* addMember, as far as its list.
AddMember(k, a, w, u) ==
  /\ job[k].at = "new"
  /\ Owns(a, w) /\ member[w][u].role = "none"
  /\ \E role \in Roles, channels \in SUBSET Channels :
       Plan(k, w, u, "add", Patched(role, channels))
  /\ UNCHANGED <<spaces, member, channelVars>>

\* updateMember, as far as its list: a patch names a role, a list or both, and what
\* it leaves out is as it was read.
UpdateMember(k, a, w, u) ==
  /\ job[k].at = "new"
  /\ Owns(a, w) /\ Editable(w, u)
  /\ \E role \in Roles, channels \in SUBSET Channels :
       Plan(k, w, u, "update", Patched(role, channels))
  /\ UNCHANGED <<spaces, member, channelVars>>

RemoveMember(k, a, w, u) ==
  /\ job[k].at = "new"
  /\ Owns(a, w) /\ Editable(w, u)
  /\ Plan(k, w, u, "remove", NoMember)
  /\ UNCHANGED <<spaces, member, channelVars>>

\* As a mutant of IsOwned: the channels are looked up among those of all owners.
IsKnown(w, channels) == \A c \in channels : \E u \in Users \cup {w} : c \in ownedBy[u]

\* findOwned among listOwned: Pages, conversations and personal sessions of w.
IsOwned(w, channels) == channels \subseteq ownedBy[w]

\* validateAllowedChannels: the listed channels belong to the workspace.
Validate(k) ==
  /\ job[k].at = "validate"
  /\ IF IsOwned(job[k].space, job[k].row.channels) THEN JobGoto(k, "write") ELSE JobOver(k)
  /\ UNCHANGED <<spaces, member, channelVars>>

\* memberships.create, update and remove, with what their filters and the
\* unique index refuse.
MayWrite(j) ==
  \/ j.op = "add" /\ member[j.space][j.user].role = "none"
  \/ j.op = "update" /\ member[j.space][j.user].role # "none"
  \/ j.op = "remove" /\ Editable(j.space, j.user)

WriteMember(k) ==
  /\ job[k].at = "write"
  /\ member' = IF MayWrite(job[k]) THEN [member EXCEPT ![job[k].space][job[k].user] = job[k].row]
               ELSE member
  /\ JobOver(k)
  /\ UNCHANGED <<spaces, channelVars>>

\* The process ends, or the database fails.
JobFails(k) ==
  /\ job[k].at \notin {"new", "over"}
  /\ JobOver(k)
  /\ UNCHANGED <<spaces, member, channelVars>>

\* A channel of the owner is connected or disconnected.
ChannelMoves(w, c) ==
  /\ ownedBy' = [ownedBy EXCEPT ![w] = IF c \in @ THEN @ \ {c} ELSE @ \cup {c}]
  /\ hadOnce' = [hadOnce EXCEPT ![w] = @ \cup {c}]
  /\ UNCHANGED <<spaces, member, job>>

JobStep(k) ==
  \/ \E u \in Users : Ensure(k, u)
  \/ \E a, w, u \in Users : AddMember(k, a, w, u) \/ UpdateMember(k, a, w, u) \/ RemoveMember(k, a, w, u)
  \/ CreateSpace(k) \/ FindSpace(k) \/ EnsureOwner(k)
  \/ Validate(k) \/ WriteMember(k) \/ JobFails(k)

SpacesNext ==
  \/ \E k \in Jobs : JobStep(k)
  \/ \E w \in Users, c \in Channels : ChannelMoves(w, c)

SpacesSpec == SpacesInit /\ [][SpacesNext]_spaceVars
-----------------------------------------------------------------------------
(* What must hold.                                                          *)

\* workspace.service.ts:45, workspace-member.service.ts:213: a user is the
\* owner of the user's own workspace and of no other, whichever requests make
\* it, retry, or manage its members at the same time; a role and its list belong
\* together, from whichever of two patches they came; and a list names channels
\* that the owner has or had (those the owner gave up since are left in it).
OwnersOwn ==
  \A w, u \in Users :
    /\ member[w][u].role = "owner" => w = u /\ w \in spaces
    /\ member[w][w].role \in {"none", "owner"}
    /\ member[w][u].role # "staff" => member[w][u].channels = {}
    /\ member[w][u].channels \subseteq hadOnce[w]

\* An owner stays one.
OwnersStay == \A u \in Users : member[u][u].role = "owner" => member'[u][u].role = "owner"
=============================================================================
