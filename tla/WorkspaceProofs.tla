---------------------------- MODULE WorkspaceProofs ----------------------------
(***************************************************************************)
(* The safety of the components of MCWorkspace, one after the other, and   *)
(* of all of them side by side, for any number of users, requests, rows,   *)
(* assistants and replies.  Each has an inductive invariant, a lemma that  *)
(* it holds at first, one that a step keeps it, and a theorem.             *)
(***************************************************************************)
EXTENDS MCWorkspace, FiniteSetTheorems, WellFoundedInduction, TLAPS

-----------------------------------------------------------------------------
(* Subsequences.                                                            *)

\* Every place has its number, and every number its place.
LEMMA PlacesAreNumbered ==
  ASSUME NEW places \in SUBSET Nat, IsFiniteSet(places)
  PROVE  /\ Cardinality(places) \in Nat
         /\ \A n \in 1..Cardinality(places) : NthOf(places, n) \in places
         /\ \A n, m \in 1..Cardinality(places) : NthOf(places, n) = NthOf(places, m) => n = m
         /\ \A i \in places : \E n \in 1..Cardinality(places) : NthOf(places, n) = i
<1> DEFINE upTo(i) == {h \in places : h <= i}
           number == [i \in places |-> Cardinality(upTo(i))]
           size == Cardinality(places)
<1>1. size \in Nat
  BY FS_CardinalityType
<1>2. ASSUME NEW i \in places PROVE IsFiniteSet(upTo(i)) /\ number[i] \in 1..size
  <2>1. IsFiniteSet(upTo(i)) /\ Cardinality(upTo(i)) <= size
    BY FS_Subset
  <2>2. Cardinality(upTo(i)) \in Nat
    BY <2>1, FS_CardinalityType
  <2>3. i \in upTo(i)
    OBVIOUS
  <2>4. Cardinality(upTo(i)) # 0
    BY <2>1, <2>3, FS_EmptySet
  <2>. QED
    BY <1>1, <2>1, <2>2, <2>4
<1>3. ASSUME NEW i \in places, NEW j \in places, i < j PROVE number[i] < number[j]
  <2>1. upTo(i) \subseteq upTo(j) /\ j \in upTo(j) /\ j \notin upTo(i)
    <3>1. \A h \in places : h \in Nat
      OBVIOUS
    <3>. QED
      <4>1. i \in Nat /\ j \in Nat /\ j <= j /\ ~(j <= i) /\ \A h \in places : h <= i => h <= j
        BY <1>3, <3>1
      <4>. QED
        BY <4>1
  <2>2. Cardinality(upTo(i)) <= Cardinality(upTo(j)) /\ Cardinality(upTo(i)) # Cardinality(upTo(j))
    BY <1>2, <2>1, FS_Subset
  <2>. QED
    BY <1>2, <2>2
<1>4. \A i, j \in places : number[i] = number[j] => i = j
  <2>1. \A i, j \in places : i \in Nat /\ j \in Nat
    OBVIOUS
  <2>2. \A i, j \in places : i = j \/ i < j \/ j < i
    BY <2>1
  <2>3. \A i \in places : number[i] \in Nat
    BY <1>2
  <2>. QED
    BY <1>3, <2>2, <2>3
<1>5. number \in Injection(places, 1..size)
  <2>1. number \in [places -> 1..size]
    BY <1>2
  <2>. QED
    BY <1>4, <2>1 DEF Injection, IsInjective
<1>6. IsFiniteSet(1..size) /\ Cardinality(1..size) = size
  BY <1>1, FS_Interval
<1>7. number \in Surjection(places, 1..size)
  BY <1>5, <1>6, FS_Injection
<1>8. \A n \in 1..size : \E i \in places : number[i] = n
  BY <1>7 DEF Surjection
<1>9. ASSUME NEW n \in 1..size PROVE NthOf(places, n) \in places /\ number[NthOf(places, n)] = n
  BY <1>8 DEF NthOf
<1>10. ASSUME NEW i \in places PROVE \E n \in 1..size : NthOf(places, n) = i
  BY <1>2, <1>4, <1>9
<1>. QED
  BY <1>1, <1>9, <1>10

\* What remains is taken from the list, from as many places.
LEMMA SubsequenceIs ==
  ASSUME NEW T, NEW list \in Seq(T), NEW places \in SUBSET DOMAIN list
  PROVE  /\ Subsequence(list, places) \in Seq(T)
         /\ Len(Subsequence(list, places)) <= Len(list)
         /\ DOMAIN Subsequence(list, places) = 1..Len(Subsequence(list, places))
         /\ \A n \in DOMAIN Subsequence(list, places) :
              NthOf(places, n) \in places /\ Subsequence(list, places)[n] = list[NthOf(places, n)]
         /\ \A n, m \in DOMAIN Subsequence(list, places) : NthOf(places, n) = NthOf(places, m) => n = m
         /\ \A i \in places : \E n \in DOMAIN Subsequence(list, places) :
              Subsequence(list, places)[n] = list[i]
<1> DEFINE rest == Subsequence(list, places)
           size == Cardinality(places)
<1>1. DOMAIN list = 1..Len(list) /\ Len(list) \in Nat /\ \A i \in DOMAIN list : list[i] \in T
  OBVIOUS
<1>2. IsFiniteSet(DOMAIN list) /\ Cardinality(DOMAIN list) = Len(list)
  <2>1. IsFiniteSet(1..Len(list)) /\ Cardinality(1..Len(list)) = IF 1 > Len(list) THEN 0 ELSE Len(list) - 1 + 1
    BY <1>1, FS_Interval
  <2>. QED
    BY <1>1, <2>1
<1>3. IsFiniteSet(places) /\ size <= Len(list)
  BY <1>2, FS_Subset
<1>4. places \in SUBSET Nat
  BY <1>1
<1>5. /\ size \in Nat
      /\ \A n \in 1..size : NthOf(places, n) \in places
      /\ \A n, m \in 1..size : NthOf(places, n) = NthOf(places, m) => n = m
      /\ \A i \in places : \E n \in 1..size : NthOf(places, n) = i
  BY <1>3, <1>4, PlacesAreNumbered
<1>. HIDE DEF size
<1>6. rest = [n \in 1..size |-> list[NthOf(places, n)]]
  BY DEF Subsequence, size
<1>7. rest \in [1..size -> T]
  BY <1>1, <1>5, <1>6
<1>8. rest \in Seq(T) /\ Len(rest) = size /\ DOMAIN rest = 1..size
  BY <1>5, <1>7
<1>9. \A n \in 1..size : rest[n] = list[NthOf(places, n)]
  BY <1>6
<1>. HIDE DEF rest
<1>10. \A i \in places : \E n \in 1..size : rest[n] = list[i]
  BY <1>5, <1>9
<1>. QED
  BY <1>3, <1>5, <1>8, <1>9, <1>10 DEF rest

-----------------------------------------------------------------------------
(* Who may see a conversation.  The three forms of the rule agree.          *)

\* auth/workspace-channel-access.ts:11: to read a context as if it were a row
\* changes nothing.
LEMMA EffectiveTwice ==
  ASSUME NEW row \in Rows
  PROVE  AllowedAgain(row) = Allowed(row)
<1>1. CASE Allowed(row) # {}
  BY <1>1 DEF AllowedAgain, Effective
<1>2. CASE Allowed(row) = {}
  <2>1. PagesOf(Allowed(row)) = {}
    BY <1>2 DEF PagesOf
  <2>2. PageRefs({}) = {}
    BY DEF PageRefs
  <2>. QED
    BY <1>2, <2>1, <2>2 DEF AllowedAgain, Effective
<1>. QED
  BY <1>1, <1>2

\* A ref taken from the Pages of an older row is not of a personal session.
LEMMA EffectiveNamesOwner ==
  ASSUME NEW w, NEW row \in Rows, NamesOwner(w, row)
  PROVE  \A ref \in Effective(row.channels, row.pages) :
           ref.platform \in Personal => ref.channel = w
<1>1. CASE row.channels # {}
  BY <1>1 DEF Effective, NamesOwner
<1>2. CASE row.channels = {}
  <2>1. ASSUME NEW ref \in PageRefs(row.pages) PROVE ref.platform \notin Personal
    BY DEF PageRefs, Personal
  <2>. QED
    BY <1>2, <2>1 DEF Effective
<1>. QED
  BY <1>1, <1>2

\* The two readings of a ref agree when it names the owner.
LEMMA OneReading ==
  ASSUME NEW w, NEW ref, NEW conv, ref.platform \in Personal => ref.channel = w
  PROVE  InFilter(ref, conv) <=> Grants(ref, w, conv)
BY DEF InFilter, Grants

\* realtime/access.ts:7, for every member, conversation and platform: list, room
\* and events are one.
THEOREM ListedIsJoinedIsHeard == AccessIsOne
<1>. SUFFICES ASSUME NEW w \in People, NEW row \in Rows, NEW conv \in Conversations,
                     NamesOwner(w, row)
              PROVE  /\ Lists(w, row, conv) <=> Joins(w, row, conv)
                     /\ Lists(w, row, conv) <=> Hears(w, row, conv)
  BY DEF AccessIsOne
<1>. DEFINE effective == Effective(row.channels, row.pages)
<1>1. AllowedAgain(row) = IF row.role = "staff" THEN effective ELSE {}
  BY EffectiveTwice DEF Allowed
<1>2. \A ref \in effective : InFilter(ref, conv) <=> Grants(ref, w, conv)
  BY EffectiveNamesOwner, OneReading
<1>. HIDE DEF effective
<1>3. Lists(w, row, conv) <=> Joins(w, row, conv)
  BY <1>1, <1>2 DEF Lists, Joins
<1>4. CASE row.role = "staff"
  <2>1. Hears(w, row, conv) <=>
          /\ conv.owner = w
          /\ effective = {} \/ \E ref \in effective : Grants(ref, w, conv)
    BY <1>4 DEF Hears, effective
  <2>. QED
    BY <1>1, <1>3, <1>4, <2>1 DEF Joins
<1>5. CASE row.role # "staff"
  <2>1. row.role \in {"owner", "admin"}
    BY <1>5 DEF Rows
  <2>. QED
    BY <1>1, <1>3, <1>5, <2>1 DEF Lists, Hears
<1>. QED
  BY <1>3, <1>4, <1>5

-----------------------------------------------------------------------------
(* Assistants.                                                              *)

BeginsWithOne ==
  \A k \in Editors :
    editor[k].at \in {"transaction", "insertTemplate", "writeTemplate"} => editor[k].of \in Helpers

AssistantsInv == AssistantsTypeOK /\ OneDefault /\ BeginsWithOne

\* The first state of the assistants is in order.
LEMMA AssistantsStart == AssistantsInit => AssistantsInv
BY HelperAssumption
   DEF AssistantsInit, AssistantsInv, AssistantsTypeOK, OneDefault, BeginsWithOne, Defaults,
       Absent, Idle, EditPoints

\* Every step of the assistants' handlers keeps the invariant.
LEMMA AssistantsStay ==
  ASSUME AssistantsInv, [AssistantsNext]_assistantVars
  PROVE  AssistantsInv' /\ DefaultIsHandedOver
<1>. USE HelperAssumption
<1>. USE DEF AssistantsInv, AssistantsTypeOK, BeginsWithOne, EditPoints
<1>idle. Idle \in [at : EditPoints, of : Helpers \cup {NoHelper}, cleared : SUBSET Helpers, creates : BOOLEAN]
  BY DEF Idle
<1>over. ASSUME NEW k \in Editors, EditOver(k), templates' \subseteq [by : Editors, of : Helpers],
                UNCHANGED <<helper, retries>>, editor[k].at # "transaction"
         PROVE  AssistantsInv' /\ DefaultIsHandedOver
  BY <1>over DEF EditOver, Idle, OneDefault, DefaultIsHandedOver, Defaults
<1>plain. ASSUME NEW k \in Editors, EditOver(k), UNCHANGED <<templates, retries>>,
                 editor[k].at = "new",
                 helper' \in [Helpers -> [exists : BOOLEAN, default : BOOLEAN]],
                 \A h \in Helpers : ~helper'[h].exists => helper'[h] = Absent,
                 \A h \in Helpers : helper'[h].default => helper[h].default
          PROVE  AssistantsInv' /\ DefaultIsHandedOver
  BY <1>plain DEF EditOver, Idle, OneDefault, DefaultIsHandedOver, Defaults
<1>1. ASSUME NEW k \in Editors, NEW h \in Helpers, CreatePlain(k, h)
      PROVE  AssistantsInv' /\ DefaultIsHandedOver
  <2>1. /\ helper' \in [Helpers -> [exists : BOOLEAN, default : BOOLEAN]]
        /\ \A g \in Helpers : ~helper'[g].exists => helper'[g] = Absent
        /\ \A g \in Helpers : helper'[g].default => helper[g].default
    BY <1>1 DEF CreatePlain, Absent
  <2>. QED
    BY <2>1, <1>1, <1>plain DEF CreatePlain
<1>2. ASSUME NEW k \in Editors, NEW h \in Helpers, NEW yes \in BOOLEAN, UpdatePlain(k, h, yes)
      PROVE  AssistantsInv' /\ DefaultIsHandedOver
  <2>1. /\ helper' \in [Helpers -> [exists : BOOLEAN, default : BOOLEAN]]
        /\ \A g \in Helpers : ~helper'[g].exists => helper'[g] = Absent
        /\ \A g \in Helpers : helper'[g].default => helper[g].default
    BY <1>2 DEF UpdatePlain, Absent
  <2>. QED
    BY <2>1, <1>2, <1>plain DEF UpdatePlain
<1>3. ASSUME NEW k \in Editors, NEW h \in Helpers, NEW yes \in BOOLEAN, BeginDefault(k, h, yes)
      PROVE  AssistantsInv' /\ DefaultIsHandedOver
  BY <1>3 DEF BeginDefault, OneDefault, DefaultIsHandedOver, Defaults
<1>4. ASSUME NEW k \in Editors, NEW h \in Helpers, DeleteAssistant(k, h)
      PROVE  AssistantsInv' /\ DefaultIsHandedOver
  <2>1. /\ helper' \in [Helpers -> [exists : BOOLEAN, default : BOOLEAN]]
        /\ \A g \in Helpers : ~helper'[g].exists => helper'[g] = Absent
        /\ \A g \in Helpers : helper'[g].default => helper[g].default
    BY <1>4 DEF DeleteAssistant, Absent
  <2>. QED
    BY <2>1, <1>4, <1>plain DEF DeleteAssistant
<1>goto. ASSUME NEW k \in Editors, NEW h \in Helpers,
                NEW point \in {"insertTemplate", "writeTemplate"},
                EditGoto(k, point, h), UNCHANGED <<helper, templates, retries>>,
                editor[k].at = "new"
         PROVE  AssistantsInv' /\ DefaultIsHandedOver
  BY <1>goto, <1>idle DEF EditGoto, Idle, OneDefault, DefaultIsHandedOver, Defaults
<1>5. ASSUME NEW k \in Editors, NEW h \in Helpers, AskForTemplate(k, h)
      PROVE  AssistantsInv' /\ DefaultIsHandedOver
  BY <1>5, <1>goto, <1>over DEF AskForTemplate
<1>6. ASSUME NEW k \in Editors, NEW h \in Helpers, NEW g \in Helpers, AskToMoveTemplate(k, h, g)
      PROVE  AssistantsInv' /\ DefaultIsHandedOver
  BY <1>6, <1>goto, <1>over DEF AskToMoveTemplate
<1>7. ASSUME NEW k \in Editors, CommitDefault(k) PROVE AssistantsInv' /\ DefaultIsHandedOver
  <2>1. CASE editor[k].creates \/ Exists(editor[k].of)
    <3>1. editor[k].of \in Helpers
      BY <1>7 DEF CommitDefault
    <3>2. helper' = [g \in Helpers |->
                       IF g = editor[k].of THEN [exists |-> TRUE, default |-> TRUE]
                       ELSE [helper[g] EXCEPT !.default = @ /\ g \notin editor[k].cleared]]
      BY <1>7, <2>1 DEF CommitDefault
    <3>3. /\ helper' \in [Helpers -> [exists : BOOLEAN, default : BOOLEAN]]
          /\ \A g \in Helpers : ~helper'[g].exists => helper'[g] = Absent
      BY <3>2 DEF Absent
    <3>4. helper'[editor[k].of].default
      BY <3>1, <3>2
    <3>5. ASSUME NEW g \in Helpers, helper'[g].default PROVE g = editor[k].of
      <4>1. IndexAllows(k, editor[k].of)
        BY <1>7 DEF CommitDefault
      <4>2. g # editor[k].of => helper[g].default /\ g \notin editor[k].cleared
        BY <3>2, <3>5
      <4>. QED
        BY <4>1, <4>2 DEF IndexAllows, Defaults
    <3>. QED
      BY <3>1, <3>3, <3>4, <3>5, <1>7, <1>idle DEF CommitDefault, EditOver, Idle, OneDefault,
         DefaultIsHandedOver, Defaults
  <2>2. CASE ~(editor[k].creates \/ Exists(editor[k].of))
    BY <2>2, <1>7, <1>idle DEF CommitDefault, RolledBack, EditOver, Idle, OneDefault,
       DefaultIsHandedOver, Defaults
  <2>. QED
    BY <2>1, <2>2
<1>8. ASSUME NEW k \in Editors, RetryDefault(k) PROVE AssistantsInv' /\ DefaultIsHandedOver
  BY <1>8 DEF RetryDefault, OneDefault, DefaultIsHandedOver, Defaults
<1>9. ASSUME NEW k \in Editors, AbortDefault(k) PROVE AssistantsInv' /\ DefaultIsHandedOver
  BY <1>9, <1>idle DEF AbortDefault, EditOver, Idle, OneDefault, DefaultIsHandedOver, Defaults
<1>10. ASSUME NEW k \in Editors, InsertTemplate(k) PROVE AssistantsInv' /\ DefaultIsHandedOver
  BY <1>10, <1>over DEF InsertTemplate
<1>11. ASSUME NEW k \in Editors, WriteTemplate(k) PROVE AssistantsInv' /\ DefaultIsHandedOver
  BY <1>11, <1>over DEF WriteTemplate
<1>12. ASSUME UNCHANGED assistantVars PROVE AssistantsInv' /\ DefaultIsHandedOver
  BY <1>12 DEF assistantVars, OneDefault, DefaultIsHandedOver, Defaults
<1>. QED
  BY <1>1, <1>2, <1>3, <1>4, <1>5, <1>6, <1>7, <1>8, <1>9, <1>10, <1>11, <1>12
     DEF AssistantsNext, EditStep, AssistantStep

\* assistant.service.ts:28, :80: whoever edits, deletes and restores at the same
\* time, a workspace has one default assistant, and one is the default until
\* another is.
THEOREM OneDefaultAlways == AssistantsSpec => [](AssistantsTypeOK /\ OneDefault) /\ [][DefaultIsHandedOver]_assistantVars
<1>1. AssistantsInv => AssistantsTypeOK /\ OneDefault
  BY DEF AssistantsInv
<1>. QED
  BY <1>1, AssistantsStart, AssistantsStay, PTL DEF AssistantsSpec

-----------------------------------------------------------------------------
(* Workspaces and their members.                                            *)

\* What a request has looked up by the time it writes.
JobsLookedFirst ==
  \A k \in Jobs :
    /\ job[k].at \in {"createSpace", "findSpace", "ensureOwner", "validate", "write"}
         => job[k].space \in Users /\ job[k].user \in Users
    /\ job[k].at \in {"findSpace", "ensureOwner"} => job[k].space \in spaces
    /\ job[k].at \in {"validate", "write"} =>
         /\ job[k].space # job[k].user
         /\ job[k].row.role # "owner"
         /\ job[k].row.role # "staff" => job[k].row.channels = {}
    /\ job[k].at = "write" => job[k].row.channels \subseteq hadOnce[job[k].space]

\* What is owned was owned at some time.
ChannelsHad == \A w \in Users : ownedBy[w] \subseteq hadOnce[w]

SpacesInv == SpacesTypeOK /\ OwnersOwn /\ JobsLookedFirst /\ ChannelsHad

\* The first state of the workspaces is in order.
LEMMA SpacesStart == SpacesInit => SpacesInv
BY UsersAssumption
   DEF SpacesInit, SpacesInv, SpacesTypeOK, OwnersOwn, JobsLookedFirst, ChannelsHad, NoMember, NoJob,
       Memberships, Roles, JobPoints

\* Every step of the workspaces' handlers keeps the invariant.
LEMMA SpacesStay ==
  ASSUME SpacesInv, [SpacesNext]_spaceVars
  PROVE  SpacesInv' /\ OwnersStay
<1>. USE UsersAssumption DEF SpacesInv, channelVars
<1>nojob. NoJob \in [at : JobPoints, space : Users \cup {NoUser}, user : Users \cup {NoUser},
                     op : {"ensure", "add", "update", "remove"}, row : Memberships]
  BY DEF NoJob, JobPoints, Memberships, NoMember, Roles
\* A request that ends writes nothing any more.
<1>over. ASSUME NEW k \in Jobs, JobOver(k), SpacesTypeOK, UNCHANGED <<spaces, channelVars>> PROVE JobsLookedFirst' /\
          job' \in [Jobs -> [at : JobPoints, space : Users \cup {NoUser}, user : Users \cup {NoUser},
                       op : {"ensure", "add", "update", "remove"}, row : Memberships]]
  <2>1. [NoJob EXCEPT !.at = "over"] \in [at : JobPoints, space : Users \cup {NoUser}, user : Users \cup {NoUser},
                     op : {"ensure", "add", "update", "remove"}, row : Memberships]
    BY <1>nojob DEF JobPoints, NoJob
  <2>2. [NoJob EXCEPT !.at = "over"].at = "over"
    BY DEF NoJob
  <2>. QED
    BY <2>1, <2>2, <1>over DEF JobOver, SpacesTypeOK, JobsLookedFirst
<1>same. ASSUME UNCHANGED <<spaces, member, channelVars>>, JobsLookedFirst',
          job' \in [Jobs -> [at : JobPoints, space : Users \cup {NoUser}, user : Users \cup {NoUser},
                       op : {"ensure", "add", "update", "remove"}, row : Memberships]]
         PROVE SpacesInv' /\ OwnersStay
  BY <1>same DEF SpacesTypeOK, OwnersOwn, OwnersStay, ChannelsHad
<1>1. ASSUME NEW k \in Jobs, NEW u \in Users, Ensure(k, u) PROVE SpacesInv' /\ OwnersStay
  <2> DEFINE next == [job[k] EXCEPT !.at = IF u \in spaces THEN "ensureOwner" ELSE "createSpace",
                                    !.space = u, !.user = u]
  <2>1. job' = [job EXCEPT ![k] = next]
    BY <1>1 DEF Ensure
  <2>2. /\ next \in [at : JobPoints, space : Users \cup {NoUser}, user : Users \cup {NoUser},
                    op : {"ensure", "add", "update", "remove"}, row : Memberships]
        /\ (next.at = "ensureOwner" /\ u \in spaces) \/ next.at = "createSpace"
        /\ next.space = u /\ next.user = u
    BY DEF SpacesTypeOK, JobPoints
  <2>. HIDE DEF next
  <2>3. JobsLookedFirst'
    BY <2>1, <2>2, <1>1 DEF Ensure, SpacesTypeOK, JobsLookedFirst
  <2>. QED
    BY <2>1, <2>2, <2>3, <1>1, <1>same DEF Ensure, SpacesTypeOK
<1>2. ASSUME NEW k \in Jobs, CreateSpace(k) PROVE SpacesInv' /\ OwnersStay
  <2>1. job[k].space \in Users
    BY <1>2 DEF CreateSpace, JobsLookedFirst
  <2>2. SpacesTypeOK'
    BY <2>1, <1>2 DEF CreateSpace, JobGoto, SpacesTypeOK, JobPoints
  <2>3. JobsLookedFirst'
    <3>1. /\ job' \in [Jobs -> [at : JobPoints, space : Users \cup {NoUser}, user : Users \cup {NoUser},
                              op : {"ensure", "add", "update", "remove"}, row : Memberships]]
          /\ job'[k].at \in {"findSpace", "ensureOwner"} /\ job'[k].space = job[k].space
          /\ job'[k].user = job[k].user /\ job[k].space \in spaces' /\ job[k].user \in Users
          /\ spaces \subseteq spaces' /\ hadOnce' = hadOnce
          /\ \A i \in Jobs : i # k => job'[i] = job[i]
      BY <2>1, <2>2, <1>2 DEF CreateSpace, JobGoto, SpacesTypeOK, JobsLookedFirst
    <3>. QED BY <2>1, <3>1 DEF JobsLookedFirst
  <2>. QED
    BY <2>2, <2>3, <1>2 DEF CreateSpace, OwnersOwn, OwnersStay, ChannelsHad
<1>3. ASSUME NEW k \in Jobs, FindSpace(k) PROVE SpacesInv' /\ OwnersStay
  BY <1>3, <1>same DEF FindSpace, JobGoto, SpacesTypeOK, JobsLookedFirst, JobPoints
<1>4. ASSUME NEW k \in Jobs, EnsureOwner(k) PROVE SpacesInv' /\ OwnersStay
  <2> DEFINE w == job[k].space
  <2>1. w \in Users /\ w \in spaces
    BY <1>4 DEF EnsureOwner, JobsLookedFirst
  <2>2. member' = [member EXCEPT ![w][w].role = "owner"]
    BY <1>4 DEF EnsureOwner
  <2>3. /\ member[w][w] \in Memberships /\ member[w][w].channels = {}
        /\ member \in [Users -> [Users -> Memberships]]
    BY <2>1 DEF SpacesTypeOK, OwnersOwn
  <2>. HIDE DEF w
  <2>4. /\ member' \in [Users -> [Users -> Memberships]]
        /\ member'[w][w].role = "owner" /\ member'[w][w].channels = {}
        /\ \A v, u \in Users : <<v, u>> # <<w, w>> => member'[v][u] = member[v][u]
    BY <2>1, <2>2, <2>3 DEF Memberships
  <2>5. OwnersOwn' /\ OwnersStay
    <3>1. ASSUME NEW v \in Users, NEW u \in Users
          PROVE  /\ member'[v][u].role = "owner" => v = u /\ v \in spaces
                 /\ member'[v][v].role \in {"none", "owner"}
                 /\ member'[v][u].role # "staff" => member'[v][u].channels = {}
                 /\ member'[v][u].channels \subseteq hadOnce[v]
      BY <2>1, <2>4 DEF OwnersOwn
    <3>2. \A u \in Users : member[u][u].role = "owner" => member'[u][u].role = "owner"
      BY <2>4
    <3>. QED
      BY <3>1, <3>2, <1>4 DEF EnsureOwner, OwnersOwn, OwnersStay
  <2>. QED
    BY <2>4, <2>5, <1>4, <1>over DEF EnsureOwner, SpacesTypeOK, ChannelsHad
\* A planned change of another's membership.
<1>plan. ASSUME NEW k \in Jobs, NEW w \in Users, NEW u \in Users, w # u,
                NEW op \in {"add", "update", "remove"}, NEW row \in Memberships, row.role # "owner",
                row.role # "staff" => row.channels = {},
                Plan(k, w, u, op, row), UNCHANGED <<spaces, member, channelVars>>
         PROVE  SpacesInv' /\ OwnersStay
  <2>1. JobsLookedFirst'
    BY <1>plan DEF Plan, SpacesTypeOK, JobsLookedFirst
  <2>2. SpacesTypeOK'
    BY <1>plan DEF Plan, SpacesTypeOK, JobPoints
  <2>. QED
    BY <2>1, <2>2, <1>plan, <1>same DEF SpacesTypeOK
<1>patched. ASSUME NEW role \in Roles, NEW channels \in SUBSET Channels
            PROVE  /\ Patched(role, channels) \in Memberships
                   /\ Patched(role, channels).role # "owner"
                   /\ Patched(role, channels).role # "staff" => Patched(role, channels).channels = {}
  BY DEF Patched, Memberships, Roles
<1>5. ASSUME NEW k \in Jobs, NEW a \in Users, NEW w \in Users, NEW u \in Users,
             AddMember(k, a, w, u)
      PROVE  SpacesInv' /\ OwnersStay
  <2>1. w # u
    BY <1>5 DEF AddMember, Owns
  <2>. QED
    BY <2>1, <1>5, <1>plan, <1>patched DEF AddMember
<1>6. ASSUME NEW k \in Jobs, NEW a \in Users, NEW w \in Users, NEW u \in Users,
             UpdateMember(k, a, w, u)
      PROVE  SpacesInv' /\ OwnersStay
  <2>1. w # u
    BY <1>6 DEF UpdateMember, Owns, Editable
  <2>. QED
    BY <2>1, <1>6, <1>plan, <1>patched DEF UpdateMember
<1>7. ASSUME NEW k \in Jobs, NEW a \in Users, NEW w \in Users, NEW u \in Users,
             RemoveMember(k, a, w, u)
      PROVE  SpacesInv' /\ OwnersStay
  <2>1. w # u
    BY <1>7 DEF RemoveMember, Owns, Editable
  <2>2. NoMember \in Memberships /\ NoMember.role = "none" /\ NoMember.channels = {}
    BY DEF NoMember, Memberships
  <2>. QED
    BY <2>1, <2>2, <1>7, <1>plan DEF RemoveMember
<1>8. ASSUME NEW k \in Jobs, Validate(k) PROVE SpacesInv' /\ OwnersStay
  <2>1. CASE JobOver(k)
    BY <2>1, <1>8, <1>over, <1>same DEF Validate
  <2>2. CASE JobGoto(k, "write")
    <3>0. job[k].space \in Users /\ (job'[k].at = "write" => job[k].row.channels \subseteq ownedBy[job[k].space])
      BY <2>2, <1>8 DEF Validate, IsOwned, JobOver, JobGoto, NoJob, SpacesTypeOK, JobsLookedFirst
    <3>1. JobsLookedFirst'
      BY <2>2, <3>0, <1>8 DEF Validate, JobGoto, SpacesTypeOK, JobsLookedFirst, ChannelsHad
    <3>2. SpacesTypeOK'
      BY <2>2, <1>8 DEF Validate, JobGoto, SpacesTypeOK, JobPoints
    <3>. QED
      BY <3>1, <3>2, <1>8, <1>same DEF Validate, SpacesTypeOK
  <2>. QED
    BY <2>1, <2>2, <1>8 DEF Validate
<1>9. ASSUME NEW k \in Jobs, WriteMember(k) PROVE SpacesInv' /\ OwnersStay
  <2> DEFINE w == job[k].space
             u == job[k].user
             row == job[k].row
  <2>1. /\ w \in Users /\ u \in Users /\ w # u /\ row \in Memberships /\ row.role # "owner"
        /\ row.role # "staff" => row.channels = {}
        /\ row.channels \subseteq hadOnce[w]
    BY <1>9 DEF WriteMember, JobsLookedFirst, SpacesTypeOK
  <2>2. member' = [member EXCEPT ![w][u] = row] \/ member' = member
    BY <1>9 DEF WriteMember
  <2>. HIDE DEF w, u, row
  <2>3. /\ member' \in [Users -> [Users -> Memberships]]
        /\ \A v, x \in Users : member'[v][x] = member[v][x] \/ (v = w /\ x = u /\ member'[v][x] = row)
    <3>1. member \in [Users -> [Users -> Memberships]]
      BY DEF SpacesTypeOK
    <3>. QED
      BY <2>1, <2>2, <3>1
  <2>4. OwnersOwn' /\ OwnersStay
    <3>1. hadOnce' = hadOnce /\ spaces' = spaces
      BY <1>9 DEF WriteMember
    <3>2. ASSUME NEW v \in Users, NEW x \in Users
          PROVE  /\ member'[v][x].role = "owner" => v = x /\ v \in spaces
                 /\ member'[v][v].role \in {"none", "owner"}
                 /\ member'[v][x].role # "staff" => member'[v][x].channels = {}
                 /\ member'[v][x].channels \subseteq hadOnce[v]
      BY <2>1, <2>3 DEF OwnersOwn
    <3>3. OwnersStay
      BY <2>1, <2>3 DEF OwnersStay
    <3>. QED BY <3>1, <3>2, <3>3 DEF OwnersOwn
  <2>. QED
    BY <2>3, <2>4, <1>9, <1>over DEF WriteMember, SpacesTypeOK, ChannelsHad
<1>10. ASSUME NEW k \in Jobs, JobFails(k) PROVE SpacesInv' /\ OwnersStay
  BY <1>10, <1>over, <1>same DEF JobFails
<1>11. ASSUME NEW w \in Users, NEW c \in Channels, ChannelMoves(w, c) PROVE SpacesInv' /\ OwnersStay
  <2>1. /\ hadOnce' \in [Users -> SUBSET Channels] /\ ownedBy' \in [Users -> SUBSET Channels]
        /\ \A v \in Users : hadOnce[v] \subseteq hadOnce'[v] /\ ownedBy'[v] \subseteq hadOnce'[v]
        /\ UNCHANGED <<spaces, member, job>>
    BY <1>11 DEF ChannelMoves, SpacesTypeOK, ChannelsHad
  <2>2. SpacesTypeOK' /\ ChannelsHad' /\ OwnersStay
    BY <2>1 DEF SpacesTypeOK, ChannelsHad, OwnersStay
  <2>3. OwnersOwn'
    BY <2>1 DEF OwnersOwn
  <2>4. JobsLookedFirst'
    BY <2>1 DEF JobsLookedFirst
  <2>. QED BY <2>2, <2>3, <2>4
<1>12. ASSUME UNCHANGED spaceVars PROVE SpacesInv' /\ OwnersStay
  BY <1>12 DEF spaceVars, SpacesTypeOK, OwnersOwn, OwnersStay, JobsLookedFirst, ChannelsHad
<1>. QED
  BY <1>1, <1>2, <1>3, <1>4, <1>5, <1>6, <1>7, <1>8, <1>9, <1>10, <1>11, <1>12
     DEF SpacesNext, JobStep

\* workspace.service.ts:45 and workspace-member.service.ts:213: the owner of a
\* workspace is its member, with the owner's role, and stays so; the lists of the
\* others name channels that the owner has or had.
THEOREM OwnersOwnAlways == SpacesSpec => [](SpacesTypeOK /\ OwnersOwn) /\ [][OwnersStay]_spaceVars
<1>1. SpacesInv => SpacesTypeOK /\ OwnersOwn
  BY DEF SpacesInv
<1>. QED
  BY <1>1, SpacesStart, SpacesStay, PTL DEF SpacesSpec

-----------------------------------------------------------------------------
(* The migration of the indexes.                                            *)

\* Some index, or two of them, forbid the same customer twice.
Guarded == "page" \in indexes \/ "owner" \in indexes \/ {"facebook", "nonFacebook"} \subseteq indexes

Indexed == \A index \in indexes : Conforms(index, docs)

ScriptInv ==
  /\ script.at = "idle" <=> script.kind = "none"
  /\ script.kind = "none" => script = NoScript
  /\ script.at = "drop" => Wanted(script.kind) \subseteq indexes
  /\ script.kind = "facebook" /\ script.at \in {"create", "drop"}
       => indexes \cap {"page", "owner"} \subseteq script.seen
  /\ migrated /\ script.kind = "owner" => script.at = "list"

MigrationsInv ==
  MigrationsTypeOK /\ Guarded /\ Indexed /\ ScriptInv /\ PagesHaveCustomers

\* What the migrations find is in order.
LEMMA MigrationsStart == MigrationsInit => MigrationsInv
<1>. SUFFICES ASSUME MigrationsInit PROVE MigrationsInv
  OBVIOUS
<1>1. MigrationsTypeOK
  BY DEF MigrationsInit, MigrationsTypeOK, NoScript, Indexes
<1>2. ScriptInv
  BY DEF MigrationsInit, ScriptInv, NoScript
<1>3. Indexed
  BY DEF MigrationsInit, Indexed, Conforms, SameKey
<1>. QED
  BY <1>1, <1>2, <1>3 DEF MigrationsInit, MigrationsInv, Guarded, PagesHaveCustomers

\* The invariant leaves no two conversations with one key.
LEMMA NoTwinsHolds == MigrationsInv => NoTwins
<1>. SUFFICES ASSUME MigrationsInv, NEW i \in Slots, NEW j \in Slots, i # j
              PROVE  ~SameKey("facebook", docs[i], docs[j]) /\ ~SameKey("nonFacebook", docs[i], docs[j])
  BY DEF NoTwins
<1>1. CASE "page" \in indexes
  <2>1. ~SameKey("page", docs[i], docs[j])
    BY <1>1 DEF MigrationsInv, Indexed, Conforms
  <2>. QED
    BY <2>1 DEF SameKey
<1>2. CASE "owner" \in indexes
  <2>1. ~SameKey("owner", docs[i], docs[j])
    BY <1>2 DEF MigrationsInv, Indexed, Conforms
  <2>. QED
    BY <2>1 DEF SameKey
<1>3. CASE {"facebook", "nonFacebook"} \subseteq indexes
  BY <1>3 DEF MigrationsInv, Indexed, Conforms
<1>. QED
  BY <1>1, <1>2, <1>3 DEF MigrationsInv, Guarded

\* Every step of the migrations and of a delivery beside them keeps the invariant.
LEMMA MigrationsStay ==
  ASSUME MigrationsInv, [MigrationsNext]_migrationVars
  PROVE  MigrationsInv'
<1>. USE DEF MigrationsInv
<1>docs. ASSUME UNCHANGED <<indexes, script, migrated>>, docs' \in [Slots -> Docs \cup {NoDoc}],
                Indexed'
         PROVE  MigrationsInv'
  BY <1>docs DEF MigrationsTypeOK, Guarded, ScriptInv, PagesHaveCustomers
<1>script. ASSUME UNCHANGED <<docs, indexes, migrated>>, ScriptInv',
                  script' \in [kind : {"none", "owner", "facebook"}, at : {"idle", "list", "create", "drop"},
                               seen : SUBSET Indexes]
           PROVE  MigrationsInv'
  BY <1>script DEF MigrationsTypeOK, Guarded, Indexed, PagesHaveCustomers
<1>ends. ASSUME ScriptEnds, UNCHANGED <<docs, indexes, migrated>> PROVE MigrationsInv'
  BY <1>ends, <1>script DEF ScriptEnds, NoScript, ScriptInv
<1>1. ASSUME InsertDoc PROVE MigrationsInv'
  BY <1>1, <1>docs DEF InsertDoc, MigrationsTypeOK, Indexed
<1>2. ASSUME NEW i \in Slots, DeleteDoc(i) PROVE MigrationsInv'
  <2>1. \A index \in indexes, j, k \in Slots : SameKey(index, docs'[j], docs'[k]) => SameKey(index, docs[j], docs[k])
    BY <1>2 DEF DeleteDoc, SameKey, MigrationsTypeOK
  <2>. QED
    BY <2>1, <1>2, <1>docs DEF DeleteDoc, MigrationsTypeOK, Indexed, Conforms
<1>3. ASSUME NEW index \in Indexes, AutoIndex(index) PROVE MigrationsInv'
  <2>1. indexes' = indexes \cup {index} /\ index \in {"facebook", "nonFacebook"} /\ Conforms(index, docs)
    BY <1>3 DEF AutoIndex
  <2>2. UNCHANGED <<docs, script, migrated>>
    BY <1>3 DEF AutoIndex
  <2>3. Indexed'
    BY <2>1, <2>2 DEF Indexed, Conforms
  <2>4. Guarded' /\ PagesHaveCustomers' /\ ScriptInv'
    BY <2>1, <2>2 DEF Guarded, PagesHaveCustomers, ScriptInv
  <2>. QED
    BY <2>1, <2>2, <2>3, <2>4 DEF MigrationsTypeOK
<1>4. ASSUME NEW kind \in {"owner", "facebook"}, RunScript(kind) PROVE MigrationsInv'
  BY <1>4, <1>script DEF RunScript, ScriptInv
<1>5. ASSUME ListIndexes PROVE MigrationsInv'
  <2>1. CASE Compatible(script.kind, indexes)
    <3>1. script' = [script EXCEPT !.at = "create", !.seen = indexes] /\ UNCHANGED <<docs, indexes, migrated>>
          /\ script.at = "list"
      BY <2>1, <1>5 DEF ListIndexes
    <3>2. script'.at = "create" /\ script'.seen = indexes /\ script'.kind = script.kind
          /\ script' \in [kind : {"none", "owner", "facebook"}, at : {"idle", "list", "create", "drop"},
                               seen : SUBSET Indexes]
      BY <3>1 DEF MigrationsTypeOK
    <3>3. script.kind \in {"owner", "facebook"}
      BY <3>1 DEF ScriptInv, MigrationsTypeOK
    <3>4. migrated => script.kind # "owner"
      BY <2>1 DEF Compatible, PagesHaveCustomers
    <3>5. ScriptInv'
      BY <3>1, <3>2, <3>3, <3>4 DEF ScriptInv
    <3>. QED
      BY <3>1, <3>2, <3>5, <1>script
  <2>2. CASE ~Compatible(script.kind, indexes)
    BY <2>2, <1>5, <1>ends DEF ListIndexes
  <2>. QED
    BY <2>1, <2>2
<1>6. ASSUME NEW index \in Indexes, CreateIndex(index) PROVE MigrationsInv'
  <2>1. CASE ~Conforms(index, docs)
    BY <2>1, <1>6, <1>ends DEF CreateIndex
  <2>2. CASE Conforms(index, docs)
    <3>1. indexes' = indexes \cup {index} /\ UNCHANGED <<docs, script, migrated>>
          /\ script.at = "create" /\ index \in Wanted(script.kind)
      BY <2>2, <1>6 DEF CreateIndex
    <3>2. Indexed'
      BY <2>2, <3>1 DEF Indexed, Conforms
    <3>3. Guarded' /\ PagesHaveCustomers' /\ ScriptInv'
      BY <3>1 DEF Guarded, PagesHaveCustomers, ScriptInv, Wanted, MigrationsTypeOK
    <3>. QED
      BY <3>1, <3>2, <3>3 DEF MigrationsTypeOK
  <2>. QED
    BY <2>1, <2>2
<1>7. ASSUME StartDropping PROVE MigrationsInv'
  <2>1. script' = [script EXCEPT !.at = "drop"] /\ UNCHANGED <<docs, indexes, migrated>>
        /\ script.at = "create" /\ Wanted(script.kind) \subseteq indexes
    BY <1>7 DEF StartDropping, ScriptGoto, MayDrop
  <2>2. script'.at = "drop" /\ script'.seen = script.seen /\ script'.kind = script.kind
        /\ script' \in [kind : {"none", "owner", "facebook"}, at : {"idle", "list", "create", "drop"},
                             seen : SUBSET Indexes]
    BY <2>1 DEF MigrationsTypeOK
  <2>3. ScriptInv'
    BY <2>1, <2>2 DEF ScriptInv
  <2>. QED
    BY <2>1, <2>2, <2>3, <1>script
<1>8. ASSUME NEW index \in Indexes, DropLegacy(index) PROVE MigrationsInv'
  <2>1. indexes' = indexes \ {index} /\ UNCHANGED <<docs, script, migrated>>
        /\ script.at = "drop" /\ index \in Legacy(script.kind)
    BY <1>8 DEF DropLegacy
  <2>2. script.kind \in {"owner", "facebook"}
    BY <2>1 DEF ScriptInv, MigrationsTypeOK
  <2>3. Wanted(script.kind) \subseteq indexes'
    BY <2>1, <2>2 DEF ScriptInv, Wanted, Legacy
  <2>4. Guarded'
    BY <2>2, <2>3 DEF Guarded, Wanted
  <2>5. ScriptInv' /\ PagesHaveCustomers' /\ Indexed'
    BY <2>1, <2>2, <2>3 DEF ScriptInv, PagesHaveCustomers, Indexed, Legacy
  <2>. QED
    BY <2>1, <2>4, <2>5 DEF MigrationsTypeOK
<1>9. ASSUME ScriptSucceeds PROVE MigrationsInv'
  <2>1. script' = NoScript /\ UNCHANGED <<docs, indexes>> /\ script.at = "drop"
        /\ migrated' = (migrated \/ script.kind = "facebook")
        /\ Legacy(script.kind) \cap script.seen \cap indexes = {}
    BY <1>9 DEF ScriptSucceeds, ScriptEnds
  <2>2. script.kind = "facebook" => indexes = {"facebook", "nonFacebook"}
    BY <2>1 DEF ScriptInv, Wanted, Legacy, MigrationsTypeOK, Indexes
  <2>3. ScriptInv' /\ PagesHaveCustomers'
    BY <2>1, <2>2 DEF ScriptInv, NoScript, PagesHaveCustomers
  <2>. QED
    BY <2>1, <2>3 DEF MigrationsTypeOK, NoScript, Guarded, Indexed
<1>10. ASSUME ScriptDies PROVE MigrationsInv'
  BY <1>10, <1>ends DEF ScriptDies
<1>11. ASSUME UNCHANGED migrationVars PROVE MigrationsInv'
  BY <1>11 DEF migrationVars, MigrationsTypeOK, Guarded, Indexed, ScriptInv, PagesHaveCustomers
<1>. QED
  BY <1>1, <1>2, <1>3, <1>4, <1>5, <1>6, <1>7, <1>8, <1>9, <1>10, <1>11 DEF MigrationsNext

\* migrate-facebook-conversation-customer-index.ts:52: while the indexes change no
\* owner gets a conversation twice, and after the script for Facebook both its
\* indexes stay.
THEOREM NoTwinsEver == MigrationsSpec => [](MigrationsTypeOK /\ NoTwins /\ PagesHaveCustomers)
<1>1. MigrationsInv => MigrationsTypeOK /\ NoTwins /\ PagesHaveCustomers
  BY NoTwinsHolds DEF MigrationsInv
<1>. QED
  BY <1>1, MigrationsStart, MigrationsStay, PTL DEF MigrationsSpec

-----------------------------------------------------------------------------
(* Quick replies and their images.                                          *)

\* A request that has not written yet; no reply has its image.
Unwrote(k) == writer[k].at \in {"new", "upload", "create", "update"}

\* An image is that of one reply, which wrote it.
ImagesHaveWriters ==
  /\ \A s \in Shortcuts : ~replies[s].exists => replies[s].image = NoImage
  /\ \A s \in Shortcuts, k \in Writers : replies[s].image = k =>
       /\ ~Unwrote(k)
       /\ k \in images \cup unsure
       /\ \A r \in Shortcuts : replies[r].image = k => r = s

\* What a request will destroy belongs to no reply any more, unless it does not
\* know.
VictimsAreFree ==
  \A k \in Writers : writer[k].at = "destroy" =>
    /\ writer[k].victim \in Writers /\ ~Unwrote(writer[k].victim)
    /\ writer[k].victim \in unsure \/ \A s \in Shortcuts : replies[s].image # writer[k].victim

\* An image without a reply has a request that will see to it.
SeenTo(v) ==
  \/ \E s \in Shortcuts : replies[s].image = v
  \/ writer[v].at \in {"create", "update"} /\ writer[v].uploads
  \/ \E k \in Writers : writer[k].at = "destroy" /\ writer[k].victim = v

\* What is about to be stored is at the provider.
Uploaded ==
  \A k \in Writers :
    /\ writer[k].at = "upload" => writer[k].uploads
    /\ writer[k].at \in {"create", "update"} /\ writer[k].uploads => k \in images

RepliesInv ==
  /\ RepliesTypeOK /\ ImagesHaveWriters /\ VictimsAreFree /\ Uploaded
  /\ leftovers \/ \A v \in images : SeenTo(v)

WriterRecord == [at : WritePoints, of : Shortcuts, op : {"create", "update"},
                 uploads : BOOLEAN, victim : Writers \cup {NoImage}]

\* The first state of the quick replies is in order.
LEMMA RepliesStart == RepliesInit => RepliesInv
<1>. SUFFICES ASSUME RepliesInit PROVE RepliesInv
  OBVIOUS
<1>1. PICK s \in Shortcuts : s = CHOOSE r \in Shortcuts : TRUE
  BY ImageAssumption
<1>2. \A k \in Writers : writer[k] = [at |-> "new", of |-> s, op |-> "create",
                                     uploads |-> FALSE, victim |-> NoImage]
  BY <1>1 DEF RepliesInit
<1>3. RepliesTypeOK
  <2>1. writer \in [Writers -> [at : WritePoints, of : Shortcuts, op : {"create", "update"},
                               uploads : BOOLEAN, victim : Writers \cup {NoImage}]]
    <3>1. \A k \in Writers : writer[k] \in [at : WritePoints, of : Shortcuts, op : {"create", "update"},
                               uploads : BOOLEAN, victim : Writers \cup {NoImage}]
      <4>1. [at |-> "new", of |-> s, op |-> "create", uploads |-> FALSE, victim |-> NoImage]
              \in [at : WritePoints, of : Shortcuts, op : {"create", "update"},
                   uploads : BOOLEAN, victim : Writers \cup {NoImage}]
        BY DEF WritePoints
      <4>. QED
        BY <1>2, <4>1
    <3>2. writer = [k \in Writers |-> writer[k]]
      BY DEF RepliesInit
    <3>. QED
      BY <3>1, <3>2
  <2>. QED
    BY <2>1 DEF RepliesInit, RepliesTypeOK, NoReply
<1>. QED
  BY <1>2, <1>3, ImageAssumption
     DEF RepliesInit, RepliesInv, ImagesHaveWriters, VictimsAreFree, Uploaded, NoReply

\* The invariant says that every image a row refers to is stored.
LEMMA RepliesStored == RepliesInv => ImagesAreStored
BY ImageAssumption
   DEF RepliesInv, RepliesTypeOK, ImagesHaveWriters, ImagesAreStored, SeenTo

\* Every step of the quick replies' handlers keeps the invariant.
LEMMA RepliesStay ==
  ASSUME RepliesInv, [RepliesNext]_replyVars
  PROVE  RepliesInv'
<1>. USE ImageAssumption DEF RepliesInv
\* One request moves; the documents and the images stay.
<1>. USE DEF RepliesTypeOK
<1>types. writer \in [Writers -> WriterRecord]
  BY DEF WriterRecord
\* The request k goes on as next says.
<1>next. ASSUME NEW k \in Writers, NEW next \in WriterRecord, writer' = [writer EXCEPT ![k] = next]
         PROVE  /\ writer' \in [Writers -> WriterRecord]
                /\ writer'[k] = next
                /\ \A j \in Writers : j # k => writer'[j] = writer[j]
  BY <1>next, <1>types
\* Nothing is stored, and no request is to destroy anything that was not.
<1>quiet. ASSUME NEW k \in Writers, NEW next \in WriterRecord,
                 writer' = [writer EXCEPT ![k] = next],
                 UNCHANGED <<replies, unsure>>, images \subseteq images', images' \subseteq Writers,
                 next.at # "destroy", next.at \in {"create", "update"} /\ next.uploads => k \in images',
                 next.at = "upload" => next.uploads,
                 next.at \in {"new", "upload", "create", "update"} => Unwrote(k),
                 leftovers' \in BOOLEAN,
                 ~leftovers' => ~leftovers /\ \A v \in images' : SeenTo(v)'
          PROVE  RepliesInv'
  <2>1. /\ writer' \in [Writers -> WriterRecord]
        /\ writer'[k] = next
        /\ \A j \in Writers : j # k => writer'[j] = writer[j]
    BY <1>quiet, <1>next
  <2>2. \A j \in Writers : Unwrote(j)' => Unwrote(j)
    BY <1>quiet, <2>1 DEF Unwrote
  <2>3. ImagesHaveWriters' /\ VictimsAreFree' /\ Uploaded'
    BY <1>quiet, <2>1, <2>2 DEF ImagesHaveWriters, VictimsAreFree, Uploaded
  <2>. QED
    BY <1>quiet, <2>1, <2>3 DEF WriterRecord
<1>1. ASSUME NEW k \in Writers, NEW s \in Shortcuts, NEW op \in {"create", "update"},
             NEW u \in BOOLEAN,
             AskReply(k, op, s, u)
      PROVE  RepliesInv'
  <2> DEFINE next == [at |-> IF op = "update" /\ ~replies[s].exists THEN "over" ELSE IF u THEN "upload" ELSE op,
        of |-> s, op |-> op, uploads |-> u, victim |-> NoImage]
  <2>1. writer' = [writer EXCEPT ![k] = next] /\ UNCHANGED <<replies, images, unsure, leftovers>>
        /\ writer[k].at = "new"
    BY <1>1 DEF AskReply
  <2>2. next \in WriterRecord /\ next.at # "destroy" /\ (next.at \in {"create", "update"} => ~next.uploads)
        /\ (next.at = "upload" => next.uploads)
    BY DEF WritePoints, WriterRecord
  <2>. HIDE DEF next
  <2>3. \A v \in images : SeenTo(v) => SeenTo(v)'
    BY <2>1, <2>2 DEF SeenTo
  <2>. QED
    BY <2>1, <2>2, <2>3, <1>quiet DEF Unwrote
<1>2. ASSUME NEW k \in Writers, Upload(k) PROVE RepliesInv'
  <2> DEFINE next == [writer[k] EXCEPT !.at = writer[k].op]
  <2>1. writer' = [writer EXCEPT ![k] = next] /\ UNCHANGED <<replies, unsure, leftovers>>
        /\ writer[k].at = "upload" /\ images' = images \cup {k}
    BY <1>2 DEF Upload, WriterGoto
  <2>2. next \in WriterRecord /\ next.at \in {"create", "update"} /\ next.uploads = writer[k].uploads
    BY DEF WritePoints, WriterRecord
  <2>. HIDE DEF next
  <2>3. \A v \in images : SeenTo(v) => SeenTo(v)'
    BY <2>1, <2>2 DEF SeenTo
  <2>4. writer[k].uploads
    BY <2>1 DEF Uploaded
  <2>5. SeenTo(k)'
    BY <2>1, <2>2, <2>4 DEF SeenTo
  <2>. QED
    BY <2>1, <2>2, <2>3, <2>5, <1>quiet DEF Unwrote
\* A step that ends the request with leftovers.
<1>ends. ASSUME NEW k \in Writers, WriterGoto(k, "over"), UNCHANGED <<replies, unsure>>, leftovers',
                images \subseteq images', images' \subseteq Writers
         PROVE  RepliesInv'
  <2> DEFINE next == [writer[k] EXCEPT !.at = "over"]
  <2>1. writer' = [writer EXCEPT ![k] = next] /\ next \in WriterRecord /\ next.at = "over"
    BY <1>ends DEF WriterGoto, WritePoints, WriterRecord
  <2>. HIDE DEF next
  <2>. QED
    BY <2>1, <1>ends, <1>quiet
<1>3. ASSUME NEW k \in Writers, UploadFails(k) PROVE RepliesInv'
  BY <1>3, <1>ends DEF UploadFails
<1>10. ASSUME NEW k \in Writers, WriterDies(k) PROVE RepliesInv'
  BY <1>10, <1>ends DEF WriterDies
\* The image of k is stored in s, where an image may have been before.
<1>stores. ASSUME NEW k \in Writers, NEW s \in Shortcuts, NEW next \in WriterRecord,
                  writer' = [writer EXCEPT ![k] = next], Unwrote(k), next.at \in {"destroy", "over"},
                  replies' \in [Shortcuts -> [exists : BOOLEAN, image : Writers \cup {NoImage}]],
                  replies'[s].exists, replies'[s].image = k,
                  \A r \in Shortcuts : r # s => replies'[r] = replies[r],
                  UNCHANGED images, unsure \subseteq unsure', unsure' \subseteq Writers,
                  k \in images \cup unsure',
                  leftovers' \in BOOLEAN, leftovers => leftovers',
                  next.at = "destroy" => \/ next.victim \in unsure' \cap {k}
                                         \/ next.victim = replies[s].image /\ next.victim # NoImage,
                  ~leftovers' /\ replies[s].image # NoImage => next.at = "destroy" /\ next.victim = replies[s].image
           PROVE  RepliesInv'
  <2>1. /\ writer' \in [Writers -> WriterRecord]
        /\ writer'[k] = next
        /\ \A j \in Writers : j # k => writer'[j] = writer[j]
    BY <1>stores, <1>next
  <2>2. /\ replies' \in [Shortcuts -> [exists : BOOLEAN, image : Writers \cup {NoImage}]]
        /\ replies'[s].exists /\ replies'[s].image = k
        /\ \A r \in Shortcuts : r # s => replies'[r] = replies[r]
    BY <1>stores
  <2>3. \A j \in Writers : Unwrote(j)' <=> Unwrote(j) /\ j # k
    BY <1>stores, <2>1 DEF Unwrote
  <2>4. \A r \in Shortcuts : replies[r].image # k
    BY <1>stores DEF ImagesHaveWriters
  <2>5. ImagesHaveWriters'
    BY <1>stores, <2>2, <2>3, <2>4 DEF ImagesHaveWriters
  <2>6. \A j \in Writers : writer[j].at = "destroy" => writer[j].victim # k
    BY <1>stores DEF VictimsAreFree
  <2>7. next.at = "destroy" =>
          /\ next.victim \in Writers /\ (next.victim = k \/ ~Unwrote(next.victim))
          /\ next.victim \in unsure' \/ \A r \in Shortcuts : replies'[r].image # next.victim
    BY <1>stores, <2>2, <2>4 DEF ImagesHaveWriters
  <2>8. VictimsAreFree'
    BY <1>stores, <2>1, <2>2, <2>3, <2>6, <2>7 DEF VictimsAreFree
  <2>9. Uploaded'
    BY <1>stores, <2>1 DEF Uploaded
  <2>10. ASSUME NEW v \in images, SeenTo(v), ~leftovers' PROVE SeenTo(v)'
    <3>1. CASE v = k
      BY <3>1, <2>2 DEF SeenTo
    <3>2. CASE v = replies[s].image
      BY <3>2, <2>1, <2>10, <1>stores, ImageAssumption DEF SeenTo
    <3>3. CASE v # k /\ v # replies[s].image
      BY <3>3, <2>1, <2>2, <2>10, <1>stores DEF SeenTo, Unwrote
    <3>. QED
      BY <3>1, <3>2, <3>3
  <2>. QED
    BY <1>stores, <2>1, <2>2, <2>5, <2>8, <2>9, <2>10 DEF WriterRecord
\* No image is stored and perhaps one is to be destroyed.
<1>drops. ASSUME NEW k \in Writers, NEW next \in WriterRecord,
                 writer' = [writer EXCEPT ![k] = next], next.at \in {"destroy", "over"},
                 replies' \in [Shortcuts -> [exists : BOOLEAN, image : Writers \cup {NoImage}]],
                 \A r \in Shortcuts : replies'[r].image \in {replies[r].image, NoImage},
                 \A r \in Shortcuts : ~replies'[r].exists => replies'[r].image = NoImage,
                 UNCHANGED <<images, unsure, leftovers>>,
                 next.at = "destroy" =>
                   /\ next.victim \in Writers /\ (next.victim = k \/ ~Unwrote(next.victim))
                   /\ \A r \in Shortcuts : replies'[r].image # next.victim,
                 \A r \in Shortcuts : replies'[r] = replies[r] \/ replies[r].image = NoImage
                                     \/ (next.at = "destroy" /\ next.victim = replies[r].image),
                 writer[k].at = "destroy" => leftovers,
                 writer[k].at \in {"create", "update"} /\ writer[k].uploads => next.at = "destroy" /\ next.victim = k
          PROVE  RepliesInv'
  <2>1. /\ writer' \in [Writers -> WriterRecord]
        /\ writer'[k] = next
        /\ \A j \in Writers : j # k => writer'[j] = writer[j]
    BY <1>drops, <1>next
  <2>3. \A j \in Writers : Unwrote(j)' <=> Unwrote(j) /\ j # k
    BY <1>drops, <2>1 DEF Unwrote
  <2>4. \A r \in Shortcuts, j \in Writers : replies'[r].image = j => replies[r].image = j
    BY <1>drops
  <2>5. ImagesHaveWriters'
    BY <1>drops, <2>3, <2>4 DEF ImagesHaveWriters
  <2>8. VictimsAreFree'
    BY <1>drops, <2>1, <2>3, <2>4 DEF VictimsAreFree
  <2>9. Uploaded'
    BY <1>drops, <2>1 DEF Uploaded
  <2>10. ASSUME NEW v \in images, SeenTo(v), ~leftovers PROVE SeenTo(v)'
    <3>1. CASE \E r \in Shortcuts : replies[r].image = v
      BY <3>1, <2>1, <1>drops, ImageAssumption DEF SeenTo
    <3>2. CASE writer[v].at \in {"create", "update"} /\ writer[v].uploads
      BY <3>2, <2>1, <1>drops DEF SeenTo
    <3>3. CASE \E j \in Writers : writer[j].at = "destroy" /\ writer[j].victim = v
      BY <3>3, <2>1, <2>10, <1>drops DEF SeenTo
    <3>. QED
      BY <2>10, <3>1, <3>2, <3>3 DEF SeenTo
  <2>. QED
    BY <1>drops, <2>1, <2>5, <2>8, <2>9, <2>10 DEF WriterRecord
<1>4. ASSUME NEW k \in Writers, CreateReply(k) PROVE RepliesInv'
  <2> DEFINE next == [writer[k] EXCEPT !.at = "over"]
             s == writer[k].of
  <2>1. writer' = [writer EXCEPT ![k] = next] /\ next \in WriterRecord /\ next.at = "over"
    BY <1>4 DEF CreateReply, WriterGoto, WritePoints, WriterRecord
  <2>2. /\ s \in Shortcuts /\ writer[k].at = "create" /\ ~replies[s].exists
        /\ replies' = [replies EXCEPT ![s] = [exists |-> TRUE, image |-> Image(k)]]
        /\ UNCHANGED <<images, unsure, leftovers>>
    BY <1>4 DEF CreateReply
  <2>3. replies[s].image = NoImage
    BY <2>2 DEF ImagesHaveWriters
  <2>. HIDE DEF next, s
  <2>4. CASE writer[k].uploads
    <3>1. /\ replies' \in [Shortcuts -> [exists : BOOLEAN, image : Writers \cup {NoImage}]]
          /\ replies'[s].exists /\ replies'[s].image = k
          /\ \A r \in Shortcuts : r # s => replies'[r] = replies[r]
      BY <2>2, <2>4 DEF Image
    <3>2. /\ Unwrote(k) /\ k \in images \cup unsure' /\ leftovers' \in BOOLEAN /\ (leftovers => leftovers')
          /\ UNCHANGED images /\ unsure \subseteq unsure' /\ unsure' \subseteq Writers
          /\ next.at \in {"destroy", "over"} /\ next.at # "destroy"
      BY <2>1, <2>2, <2>4 DEF Uploaded, Unwrote
    <3>. QED
      BY ONLY <2>1, <2>2, <2>3, <3>1, <3>2, <1>stores
  <2>5. CASE ~writer[k].uploads
    <3>1. /\ replies' \in [Shortcuts -> [exists : BOOLEAN, image : Writers \cup {NoImage}]]
          /\ \A r \in Shortcuts : r # s => replies'[r] = replies[r]
          /\ replies'[s].image = NoImage /\ replies'[s].exists
      BY <2>2, <2>5 DEF Image
    <3>2. \A r \in Shortcuts : /\ replies'[r].image \in {replies[r].image, NoImage}
                               /\ ~replies'[r].exists => replies'[r].image = NoImage
                               /\ (replies'[r] = replies[r] \/ replies[r].image = NoImage)
      BY <2>3, <3>1 DEF ImagesHaveWriters
    <3>3. /\ next.at # "destroy" /\ next.at \in {"destroy", "over"} /\ writer[k].at # "destroy"
          /\ UNCHANGED <<images, unsure, leftovers>>
      BY <2>1, <2>2
    <3>4. /\ next \in WriterRecord /\ writer' = [writer EXCEPT ![k] = next]
      BY <2>1
    <3>. QED
      BY ONLY <2>5, <3>1, <3>2, <3>3, <3>4, <1>drops
  <2>. QED
    BY <2>4, <2>5
<1>5. ASSUME NEW k \in Writers, UpdateReply(k) PROVE RepliesInv'
  <2> DEFINE s == writer[k].of
             image == Replaced(k, replies[s].image)
             next == [writer[k] EXCEPT !.at = IF image = NoImage THEN "over" ELSE "destroy", !.victim = image]
  <2>1. /\ s \in Shortcuts /\ writer[k].at = "update" /\ replies[s].exists
        /\ replies' = IF writer[k].uploads THEN [replies EXCEPT ![s].image = k] ELSE replies
        /\ UNCHANGED <<images, unsure, leftovers>>
    BY <1>5 DEF UpdateReply
  <2>2. /\ image \in Writers \cup {NoImage}
        /\ image = IF writer[k].uploads THEN replies[s].image ELSE NoImage
    BY <2>1 DEF Replaced
  <2>3. writer' = [writer EXCEPT ![k] = next]
    BY <1>5 DEF UpdateReply, ThenDestroy
  <2>4. /\ next \in WriterRecord /\ next.victim = image
        /\ next.at = IF image = NoImage THEN "over" ELSE "destroy"
    <3>1. writer[k] \in WriterRecord
      BY <1>types
    <3>. HIDE DEF image
    <3>. QED
      BY <2>2, <3>1 DEF WritePoints, WriterRecord
  <2>. HIDE DEF next, s, image
  <2>5. CASE writer[k].uploads
    <3>1. /\ replies' \in [Shortcuts -> [exists : BOOLEAN, image : Writers \cup {NoImage}]]
          /\ replies'[s].exists /\ replies'[s].image = k
          /\ \A r \in Shortcuts : r # s => replies'[r] = replies[r]
      BY <2>1, <2>5
    <3>2. /\ Unwrote(k) /\ k \in images \cup unsure' /\ leftovers' \in BOOLEAN /\ (leftovers => leftovers')
          /\ UNCHANGED images /\ unsure \subseteq unsure' /\ unsure' \subseteq Writers
          /\ next.at \in {"destroy", "over"}
          /\ (next.at = "destroy" => next.victim = replies[s].image /\ next.victim # NoImage)
          /\ (replies[s].image # NoImage => next.at = "destroy" /\ next.victim = replies[s].image)
      BY <2>1, <2>2, <2>4, <2>5 DEF Uploaded, Unwrote
    <3>. QED
      BY ONLY <2>1, <2>3, <2>4, <3>1, <3>2, <1>stores
  <2>6. CASE ~writer[k].uploads
    <3>1. next.at = "over" /\ UNCHANGED replies
      BY <2>1, <2>2, <2>4, <2>6
    <3>2. \A r \in Shortcuts : ~replies[r].exists => replies[r].image = NoImage
      BY DEF ImagesHaveWriters
    <3>. QED
      BY <2>1, <2>3, <2>4, <2>6, <3>1, <3>2, <1>drops
  <2>. QED
    BY <2>5, <2>6
<1>6. ASSUME NEW k \in Writers, WriteFails(k) PROVE RepliesInv'
  <2> DEFINE next == [writer[k] EXCEPT !.at = IF Image(k) = NoImage THEN "over" ELSE "destroy", !.victim = Image(k)]
  <2>1. /\ writer[k].at \in {"create", "update"} /\ writer' = [writer EXCEPT ![k] = next]
        /\ UNCHANGED <<replies, images, unsure, leftovers>>
    BY <1>6 DEF WriteFails, ThenDestroy
  <2>2. /\ next \in WriterRecord
        /\ next.at = IF writer[k].uploads THEN "destroy" ELSE "over"
        /\ writer[k].uploads => next.victim = k
    BY ImageAssumption DEF WritePoints, WriterRecord, Image
  <2>3. \A r \in Shortcuts : replies[r].image # k
    BY <2>1 DEF ImagesHaveWriters, Unwrote
  <2>. HIDE DEF next
  <2>. QED
    <3>1. next.at \in {"destroy", "over"} /\ (next.at = "destroy" => next.victim = k)
      BY <2>2
    <3>2. \A r \in Shortcuts : ~replies[r].exists => replies[r].image = NoImage
      BY DEF ImagesHaveWriters
    <3>. QED
      BY <2>1, <2>2, <2>3, <3>1, <3>2, <1>drops
<1>7. ASSUME NEW k \in Writers, AnswerIsLost(k) PROVE RepliesInv'
  <2> DEFINE next == [writer[k] EXCEPT !.at = IF k = NoImage THEN "over" ELSE "destroy", !.victim = k]
             s == writer[k].of
  <2>1. /\ s \in Shortcuts /\ Unwrote(k) /\ writer' = [writer EXCEPT ![k] = next]
        /\ replies' = [replies EXCEPT ![s] = [exists |-> TRUE, image |-> k]]
        /\ unsure' = unsure \cup {k} /\ leftovers' = TRUE /\ UNCHANGED images
    BY <1>7 DEF AnswerIsLost, ThenDestroy, Unwrote
  <2>2. next \in WriterRecord /\ next.at = "destroy" /\ next.victim = k
    BY ImageAssumption DEF WritePoints, WriterRecord
  <2>. HIDE DEF next, s
  <2>3. /\ replies' \in [Shortcuts -> [exists : BOOLEAN, image : Writers \cup {NoImage}]]
        /\ replies'[s].exists /\ replies'[s].image = k
        /\ \A r \in Shortcuts : r # s => replies'[r] = replies[r]
    BY <2>1
  <2>4. /\ k \in images \cup unsure' /\ leftovers' /\ leftovers' \in BOOLEAN
        /\ UNCHANGED images /\ unsure \subseteq unsure' /\ unsure' \subseteq Writers
        /\ next.at \in {"destroy", "over"} /\ next.victim \in unsure' \cap {k}
    BY <2>1, <2>2
  <2>. QED
    BY ONLY <2>1, <2>2, <2>3, <2>4, <1>stores
<1>8. ASSUME NEW k \in Writers, NEW s \in Shortcuts, DeleteReply(k, s) PROVE RepliesInv'
  <2> DEFINE image == replies[s].image
             next == [writer[k] EXCEPT !.at = IF image = NoImage THEN "over" ELSE "destroy", !.victim = image]
  <2>1. /\ writer[k].at = "new" /\ writer' = [writer EXCEPT ![k] = next]
        /\ replies' = [replies EXCEPT ![s] = NoReply] /\ UNCHANGED <<images, unsure, leftovers>>
    BY <1>8 DEF DeleteReply, ThenDestroy
  <2>6. image \in Writers \cup {NoImage}
    OBVIOUS
  <2>2. /\ next \in WriterRecord /\ next.victim = image
        /\ next.at = IF image = NoImage THEN "over" ELSE "destroy"
    <3>1. writer[k] \in WriterRecord
      BY <1>types
    <3>. HIDE DEF image
    <3>. QED
      BY <2>6, <3>1 DEF WritePoints, WriterRecord
  <2>3. /\ replies' \in [Shortcuts -> [exists : BOOLEAN, image : Writers \cup {NoImage}]]
        /\ \A r \in Shortcuts : r # s => replies'[r] = replies[r]
        /\ replies'[s].image = NoImage
    BY <2>1 DEF NoReply
  <2>4. image # NoImage => image \in Writers /\ ~Unwrote(image) /\ \A r \in Shortcuts : replies'[r].image # image
    BY <2>3 DEF ImagesHaveWriters
  <2>5. image = replies[s].image
    OBVIOUS
  <2>. HIDE DEF next, image
  <2>. QED
    <3>1. \A r \in Shortcuts : /\ replies'[r].image \in {replies[r].image, NoImage}
                               /\ ~replies'[r].exists => replies'[r].image = NoImage
                               /\ \/ replies'[r] = replies[r]
                                  \/ replies[r].image = NoImage
                                  \/ (next.at = "destroy" /\ next.victim = replies[r].image)
      BY <2>2, <2>3, <2>5 DEF ImagesHaveWriters
    <3>2. next.at \in {"destroy", "over"} /\ (next.at = "destroy" => image # NoImage)
      BY <2>2
    <3>3. /\ (next.at = "destroy" => /\ next.victim \in Writers /\ (next.victim = k \/ ~Unwrote(next.victim))
                                   /\ \A r \in Shortcuts : replies'[r].image # next.victim)
          /\ writer[k].at \notin {"destroy", "create", "update"}
          /\ UNCHANGED <<images, unsure, leftovers>>
      BY <2>1, <2>2, <2>4, <2>6, <3>2
    <3>4. /\ next \in WriterRecord /\ writer' = [writer EXCEPT ![k] = next]
          /\ next.at \in {"destroy", "over"}
          /\ replies' \in [Shortcuts -> [exists : BOOLEAN, image : Writers \cup {NoImage}]]
      BY <2>1, <2>2, <2>3, <3>2
    <3>. QED
      BY ONLY <3>1, <3>3, <3>4, <1>drops
<1>9. ASSUME NEW k \in Writers, Destroy(k) PROVE RepliesInv'
  <2>1. CASE leftovers' = TRUE /\ UNCHANGED images
    BY <2>1, <1>9, <1>ends DEF Destroy
  <2>2. CASE images' = images \ {writer[k].victim} /\ UNCHANGED leftovers
    <3> DEFINE next == [writer[k] EXCEPT !.at = "over"]
               victim == writer[k].victim
    <3>1. /\ writer' = [writer EXCEPT ![k] = next] /\ next \in WriterRecord /\ next.at = "over"
          /\ writer[k].at = "destroy" /\ UNCHANGED <<replies, unsure>>
      BY <1>9 DEF Destroy, WriterGoto, WritePoints, WriterRecord
    <3>. HIDE DEF next
    <3>2. /\ writer' \in [Writers -> WriterRecord]
          /\ writer'[k] = next
          /\ \A j \in Writers : j # k => writer'[j] = writer[j]
      BY <3>1, <1>next
    <3>3. \A j \in Writers : Unwrote(j)' <=> Unwrote(j)
      BY <3>1, <3>2 DEF Unwrote
    <3>4. victim \in Writers /\ ~Unwrote(victim) /\ (victim \in unsure \/ \A s \in Shortcuts : replies[s].image # victim)
      BY <3>1 DEF VictimsAreFree
    <3>. HIDE DEF victim
    <3>5. images' = images \ {victim}
      BY <2>2 DEF victim
    <3>6. ImagesHaveWriters' /\ VictimsAreFree' /\ Uploaded'
      BY <3>1, <3>2, <3>3, <3>4, <3>5 DEF ImagesHaveWriters, VictimsAreFree, Uploaded, Unwrote
    <3>7. \A v \in images' : SeenTo(v) => SeenTo(v)'
      BY <3>1, <3>2, <3>5 DEF SeenTo, victim
    <3>. QED
      BY <2>2, <3>1, <3>2, <3>5, <3>6, <3>7 DEF WriterRecord
  <2>. QED
    BY <2>1, <2>2, <1>9 DEF Destroy
<1>11. ASSUME UNCHANGED replyVars PROVE RepliesInv'
  BY <1>11 DEF replyVars, RepliesTypeOK, ImagesHaveWriters, VictimsAreFree, Uploaded, SeenTo,
     Unwrote
<1>. QED
  BY <1>1, <1>2, <1>3, <1>4, <1>5, <1>6, <1>7, <1>8, <1>9, <1>10, <1>11 DEF RepliesNext, WriterStep

\* quick-reply.service.ts:85, :161: the image of a reply is at the provider, unless
\* its write went unanswered; and when every request ended well, nothing else is.
THEOREM ImagesStayStored == RepliesSpec => [](RepliesTypeOK /\ ImagesAreStored)
<1>1. RepliesInv => RepliesTypeOK /\ ImagesAreStored
  BY RepliesStored DEF RepliesInv
<1>. QED
  BY <1>1, RepliesStart, RepliesStay, PTL DEF RepliesSpec

-----------------------------------------------------------------------------
(* Pins.                                                                    *)

\* What is to be written was there when it was asked for.
AskedOf ==
  \A k \in Pinners :
    /\ asking[k].at = "pin" => asking[k].of \in Pinnable
    /\ asking[k].at = "tag" => asking[k].of \in Labels

PinsInv == PinTypeOK /\ PinsAreLimited /\ AskedOf

\* The first state of pins, notes and tags is in order.
LEMMA PinsStart == PinInit => PinsInv
BY PinAssumption DEF PinInit, PinsInv, PinTypeOK, PinsAreLimited, AskedOf, PinPoints, PinAnswers

\* Every step on pins, notes, tags and the conversation keeps the invariant.
LEMMA PinsStay ==
  ASSUME PinsInv, [PinNext]_pinVars
  PROVE  PinsInv'
<1>. USE PinAssumption DEF PinsInv
<1> DEFINE AskingRecord == [at : PinPoints, of : Pinnable \cup Labels \cup Pinners \cup {NoPin},
                      answer : PinAnswers]
<1>types. asking \in [Pinners -> AskingRecord]
  BY DEF PinTypeOK
<1>goto. ASSUME NEW k \in Pinners, NEW point \in PinPoints,
                NEW m \in Pinnable \cup Labels \cup Pinners \cup {NoPin},
                PinGoto(k, point, m), point = "pin" => m \in Pinnable, point = "tag" => m \in Labels
         PROVE  asking' \in [Pinners -> AskingRecord] /\ AskedOf'
  <2>1. [at |-> point, of |-> m, answer |-> "none"] \in AskingRecord
    BY DEF PinAnswers
  <2>2. asking' \in [Pinners -> AskingRecord]
    BY <1>types, <1>goto, <2>1 DEF PinGoto
  <2>. QED
    BY <1>types, <1>goto, <2>2 DEF PinGoto, AskedOf
<1>answer. ASSUME NEW k \in Pinners, NEW text \in PinAnswers, PinAnswer(k, text)
           PROVE  asking' \in [Pinners -> AskingRecord] /\ AskedOf'
  <2>1. [asking[k] EXCEPT !.at = "over", !.answer = text] \in AskingRecord
    BY <1>types DEF PinPoints
  <2>2. asking' \in [Pinners -> AskingRecord]
    BY <1>types, <1>answer, <2>1 DEF PinAnswer
  <2>. QED
    BY <1>types, <1>answer, <2>2 DEF PinAnswer, AskedOf
<1>. HIDE DEF AskingRecord
<1>quiet. ASSUME UNCHANGED <<thread, pinList>>, notes' \subseteq Pinners, labels' \subseteq Labels,
                 worn' \subseteq Labels, asking' \in [Pinners -> AskingRecord] /\ AskedOf'
          PROVE  PinsInv'
  BY <1>quiet DEF PinTypeOK, PinsAreLimited, AskingRecord
<1>why. ASSUME NEW m PROVE Unpinnable(m) \in PinAnswers
  BY DEF Unpinnable, PinAnswers
<1>points. {"pin", "reread", "unpin", "note", "editNote", "tag"} \subseteq PinPoints
           /\ {"none", "done", "limit", "conflict", "missing"} \subseteq PinAnswers
  BY DEF PinPoints, PinAnswers
<1>1. ASSUME NEW k \in Pinners, NEW m \in Pinnable, AskToPin(k, m) PROVE PinsInv'
  BY <1>1, <1>goto, <1>answer, <1>quiet, <1>why, <1>points DEF AskToPin, PinTypeOK
<1>2. ASSUME NEW k \in Pinners, NEW m \in Pinnable, AskToUnpin(k, m) PROVE PinsInv'
  BY <1>2, <1>goto, <1>answer, <1>quiet, <1>points DEF AskToUnpin, PinTypeOK
<1>3. ASSUME NEW k \in Pinners, AskForNote(k) PROVE PinsInv'
  BY <1>3, <1>goto, <1>answer, <1>quiet, <1>points DEF AskForNote, PinTypeOK
<1>4. ASSUME NEW k \in Pinners, NEW n \in Pinners, AskAboutNote(k, n) PROVE PinsInv'
  BY <1>4, <1>goto, <1>answer, <1>quiet, <1>points DEF AskAboutNote, PinTypeOK
<1>5. ASSUME NEW k \in Pinners, NEW t \in Labels, AskForTag(k, t) PROVE PinsInv'
  BY <1>5, <1>goto, <1>answer, <1>quiet, <1>points DEF AskForTag, PinTypeOK
<1>6. ASSUME NEW k \in Pinners, NEW t \in Labels, CreateTag(k, t) \/ DeleteTag(k, t) PROVE PinsInv'
  BY <1>6, <1>answer, <1>quiet, <1>points DEF CreateTag, DeleteTag, PinTypeOK
<1>7. ASSUME NEW k \in Pinners, PushPin(k) PROVE PinsInv'
  <2>1. CASE ~MayPush(asking[k].of)
    <3>1. PinGoto(k, "reread", asking[k].of) /\ UNCHANGED <<thread, pinList, notes, labels, worn>>
      BY <2>1, <1>7 DEF PushPin
    <3>2. asking[k].of \in Pinnable
      BY <1>7 DEF PushPin, AskedOf
    <3>. QED
      BY <3>1, <3>2, <1>goto, <1>quiet, <1>points DEF PinTypeOK
  <2>2. CASE MayPush(asking[k].of)
    <3> DEFINE m == asking[k].of
    <3>1. m \in Pinnable /\ ~(m \in Range(pinList)) /\ Len(pinList) < PinLimit /\ thread = "open"
      BY <2>2, <1>7 DEF PushPin, AskedOf, MayPush, IsPinned, IsFull, Accessible, PinTypeOK
    <3>2. pinList' = Append(pinList, m) /\ PinAnswer(k, "done") /\ UNCHANGED <<thread, notes, labels, worn>>
      BY <2>2, <1>7 DEF PushPin
    <3>. HIDE DEF m
    <3>3. /\ pinList' \in Seq(Pinnable) /\ Len(pinList') = Len(pinList) + 1 /\ Len(pinList) \in Nat
          /\ pinList'[Len(pinList) + 1] = m
          /\ \A i \in 1..Len(pinList) : pinList'[i] = pinList[i] /\ pinList[i] # m
      BY <3>1, <3>2 DEF PinTypeOK, Range
    <3>4. PinsAreLimited'
      BY <3>1, <3>2, <3>3 DEF PinsAreLimited
    <3>. QED
      BY <3>2, <3>3, <3>4, <1>answer, <1>points DEF PinTypeOK, AskingRecord
  <2>. QED
    BY <2>1, <2>2
<1>8. ASSUME NEW k \in Pinners, ExplainPin(k) PROVE PinsInv'
  BY <1>8, <1>answer, <1>quiet, <1>why DEF ExplainPin, PinTypeOK
<1>9. ASSUME NEW k \in Pinners, PullPin(k) PROVE PinsInv'
  <2> DEFINE places == {i \in DOMAIN pinList : pinList[i] # asking[k].of}
             rest == Subsequence(pinList, places)
  <2>1. /\ pinList' = rest \/ pinList' = pinList
        /\ PinAnswer(k, "done") \/ PinAnswer(k, "missing")
        /\ UNCHANGED <<thread, notes, labels, worn>>
        /\ thread # "deleted" \/ pinList' = pinList
    BY <1>9 DEF PullPin, Accessible
  <2>2. places \in SUBSET DOMAIN pinList /\ pinList \in Seq(Pinnable)
    BY DEF PinTypeOK
  <2>. HIDE DEF places
  <2>3. /\ rest \in Seq(Pinnable) /\ Len(rest) <= Len(pinList) /\ DOMAIN rest = 1..Len(rest)
        /\ \A n \in DOMAIN rest : NthOf(places, n) \in places /\ rest[n] = pinList[NthOf(places, n)]
        /\ \A n, m \in DOMAIN rest : NthOf(places, n) = NthOf(places, m) => n = m
    BY <2>2, SubsequenceIs
  <2>. HIDE DEF rest
  <2>4. \A i, j \in 1..Len(rest) : rest[i] = rest[j] => i = j
    BY <2>2, <2>3 DEF PinsAreLimited
  <2>5. Len(rest) <= PinLimit
    BY <2>2, <2>3 DEF PinsAreLimited
  <2>6. PinsAreLimited' /\ pinList' \in Seq(Pinnable)
    BY <2>1, <2>2, <2>3, <2>4, <2>5 DEF PinsAreLimited
  <2>. QED
    BY <2>1, <2>6, <1>answer, <1>points DEF PinTypeOK, AskingRecord
<1>10. ASSUME NEW k \in Pinners, WriteNote(k) \/ EditNote(k) PROVE PinsInv'
  BY <1>10, <1>answer, <1>quiet, <1>points DEF WriteNote, EditNote, PinTypeOK
<1>11. ASSUME NEW k \in Pinners, WriteTag(k) PROVE PinsInv'
  BY <1>11, <1>answer, <1>quiet, <1>points DEF WriteTag, AskedOf, PinTypeOK
<1>12. ASSUME DeleteConversation PROVE PinsInv'
  <2>1. pinList' = <<>> /\ UNCHANGED <<labels, asking>> /\ notes' = {} /\ worn' = {} /\ thread' = "deleted"
    BY <1>12 DEF DeleteConversation
  <2>2. pinList' \in Seq(Pinnable) /\ Len(pinList') = 0
    BY <2>1
  <2>. QED
    BY <2>1, <2>2 DEF PinTypeOK, PinsAreLimited, AskedOf
<1>13. ASSUME NEW k \in Pinners, TurnedAway(k) PROVE PinsInv'
  BY <1>13, <1>answer, <1>quiet, <1>points DEF TurnedAway, PinTypeOK
<1>14. ASSUME UNCHANGED pinVars PROVE PinsInv'
  BY <1>14 DEF pinVars, PinTypeOK, PinsAreLimited, AskedOf
<1>. QED
  BY <1>1, <1>2, <1>3, <1>4, <1>5, <1>6, <1>7, <1>8, <1>9, <1>10, <1>11, <1>12, <1>13, <1>14
     DEF PinNext, PinRequest, PinWrite

\* conversation-pin.service.ts:33: however the requests mix, no more than the limit
\* is pinned.
THEOREM PinsStayLimited == PinSpec => [](PinTypeOK /\ PinsAreLimited)
<1>1. PinsInv => PinTypeOK /\ PinsAreLimited
  BY DEF PinsInv
<1>. QED
  BY <1>1, PinsStart, PinsStay, PTL DEF PinSpec

-----------------------------------------------------------------------------
(* The history of the settings.                                             *)

SaverRecord ==
  [at : {"new", "record", "insert", "find", "remove", "over"}, entry : Entry, expired : SUBSET Entry]

Newer(some, e) == {f \in some : Older(e, f)}

Stamped == {k \in Savers : saver[k].entry.created > 0}

\* createdAt tells the entries apart, and each was made by one change.
StampsInv ==
  /\ clock = Cardinality(Stamped)
  /\ \A k \in Savers :
       /\ saver[k].entry.created <= clock
       /\ saver[k].at \in {"new", "record"} => saver[k].entry.created = 0
       /\ saver[k].at \in {"insert", "find", "remove"} => saver[k].entry.created > 0 /\ IsRecorded(saver[k].entry)
  /\ \A k, j \in Savers :
       saver[k].entry.created = saver[j].entry.created /\ saver[k].entry.created > 0 => k = j
  /\ \A e \in made : /\ e.created > 0 /\ IsRecorded(e)
                     /\ \E k \in Savers : saver[k].entry = e /\ saver[k].at \in {"find", "remove", "over"}

\* The changes of a field follow each other.
ChainInv ==
  /\ \A k \in Savers : saver[k].at # "new" =>
       /\ saver[k].entry.old <= saver[k].entry.new
       /\ saver[k].entry.new <= settings[saver[k].entry.field]
  /\ \A k, j \in Savers :
       /\ k # j /\ saver[k].at # "new" /\ saver[j].at # "new"
       /\ saver[k].entry.field = saver[j].entry.field
       /\ saver[k].entry.old # saver[k].entry.new /\ saver[j].entry.old # saver[j].entry.new
       => saver[k].entry.new <= saver[j].entry.old \/ saver[j].entry.new <= saver[k].entry.old

Doomed(e) == \E k \in Savers : saver[k].at = "remove" /\ e \in saver[k].expired
Left == {e \in histories : ~Doomed(e)}

\* What is to be removed is beyond the limit, and if nobody has still to look
\* no more than the limit is left.
LimitInv ==
  /\ histories \subseteq made /\ IsFiniteSet(made)
  /\ \A e \in made : Cardinality(Newer(made, e)) < HistoryLimit => e \in histories
  /\ \A k \in Savers : saver[k].at = "remove" =>
       \A e \in saver[k].expired : e \in made /\ ~(Cardinality(Newer(made, e)) < HistoryLimit)
  /\ ~failures => (\E k \in Savers : saver[k].at = "find") \/ Cardinality(Left) <= HistoryLimit

HistoryInv ==
  /\ HistoryTypeOK /\ saver \in [Savers -> SaverRecord]
  /\ StampsInv /\ ChainInv /\ LimitInv
-----------------------------------------------------------------------------
LEMMA ValuesAreNumbers == Cardinality(Savers) \in Nat /\ Values = 0..Cardinality(Savers) /\ Values \subseteq Nat
BY HistoryAssumption, FS_CardinalityType DEF Values

LEMMA NewerGrows ==
  ASSUME NEW T, IsFiniteSet(T), NEW S \in SUBSET T, NEW e
  PROVE  /\ Cardinality(Newer(S, e)) \in Nat /\ Cardinality(Newer(T, e)) \in Nat
         /\ Cardinality(Newer(S, e)) <= Cardinality(Newer(T, e))
<1>1. Newer(T, e) \in SUBSET T /\ Newer(S, e) \in SUBSET Newer(T, e)
  BY DEF Newer
<1>2. IsFiniteSet(Newer(T, e))
  BY <1>1, FS_Subset
<1>3. IsFiniteSet(Newer(S, e)) /\ Cardinality(Newer(S, e)) <= Cardinality(Newer(T, e))
  BY <1>1, <1>2, FS_Subset
<1>. QED
  BY <1>2, <1>3, FS_CardinalityType

\* Of entries made at different times, no more than n have fewer than n newer.
LEMMA FewHaveFewNewer ==
  ASSUME NEW S \in SUBSET Entry, IsFiniteSet(S), NEW n \in Nat,
         \A e, f \in S : e.created = f.created => e = f
  PROVE  Cardinality({e \in S : Cardinality(Newer(S, e)) < n}) <= n
<1> DEFINE K == {e \in S : Cardinality(Newer(S, e)) < n}
           rank == [e \in K |-> Cardinality(Newer(S, e))]
<1>1. \A e \in S : e.created \in Nat
  BY ValuesAreNumbers DEF Entry
<1>2. ASSUME NEW e \in S PROVE Cardinality(Newer(S, e)) \in Nat /\ IsFiniteSet(Newer(S, e))
  <2>1. Newer(S, e) \in SUBSET S
    BY DEF Newer
  <2>. QED
    BY <2>1, FS_Subset, FS_CardinalityType
<1>3. ASSUME NEW e \in S, NEW f \in S, e.created < f.created
      PROVE  Cardinality(Newer(S, f)) < Cardinality(Newer(S, e))
  <2>1. Newer(S, f) \in SUBSET Newer(S, e) /\ f \in Newer(S, e) /\ f \notin Newer(S, f)
    BY <1>1, <1>3 DEF Newer, Older
  <2>2. /\ Cardinality(Newer(S, f)) <= Cardinality(Newer(S, e))
        /\ Cardinality(Newer(S, f)) # Cardinality(Newer(S, e))
    BY <1>2, <2>1, FS_Subset
  <2>. QED
    BY <1>2, <2>2
<1>4. rank \in [K -> 0..n - 1]
  BY <1>2
<1>5. \A e, f \in K : rank[e] = rank[f] => e = f
  <2>1. ASSUME NEW e \in K, NEW f \in K, rank[e] = rank[f] PROVE e = f
    <3>1. ~(e.created < f.created) /\ ~(f.created < e.created)
      BY <1>2, <1>3, <2>1
    <3>. QED
      BY <1>1, <3>1
  <2>. QED
    BY <2>1
<1>6. rank \in Injection(K, 0..n - 1)
  BY <1>4, <1>5 DEF Injection, IsInjective
<1>7. IsFiniteSet(0..n - 1) /\ Cardinality(0..n - 1) = n
  <2>1. 0 \in Int /\ n - 1 \in Int
    OBVIOUS
  <2>2. IsFiniteSet(0..n - 1) /\ Cardinality(0..n - 1) = IF 0 > n - 1 THEN 0 ELSE n - 1 - 0 + 1
    BY ONLY <2>1, FS_Interval
  <2>. QED
    BY <2>2
<1>8. Cardinality(K) <= Cardinality(0..n - 1)
  BY <1>6, <1>7, FS_Injection
<1>. QED
  BY <1>7, <1>8

\* The first state of the history is in order.
LEMMA HistoryStarts == HistoryInit => HistoryInv
<1>. SUFFICES ASSUME HistoryInit PROVE HistoryInv
  OBVIOUS
<1>1. PICK g \in Fields : g = CHOOSE f \in Fields : TRUE
  BY HistoryAssumption
<1>2. NoEntry(g) \in Entry /\ NoEntry(g).created = 0
  BY ValuesAreNumbers DEF NoEntry, Entry
<1>3. saver \in [Savers -> SaverRecord] /\ \A k \in Savers : saver[k].at = "new" /\ saver[k].entry.created = 0
  BY <1>1, <1>2 DEF HistoryInit, SaverRecord
<1>4. HistoryTypeOK
  <2>1. 0 \in Values
    BY ValuesAreNumbers
  <2>2. \A k \in Savers : saver[k].entry \in Entry /\ saver[k].expired \subseteq Entry
    BY <1>3 DEF SaverRecord
  <2>. QED
    BY <1>3, <2>1, <2>2 DEF HistoryInit, HistoryTypeOK
<1>5. StampsInv
  <2>1. Stamped = {}
    BY <1>3 DEF Stamped
  <2>. QED
    BY <1>3, <2>1, FS_EmptySet DEF HistoryInit, StampsInv
<1>6. ChainInv
  BY <1>3 DEF ChainInv
<1>7. LimitInv
  <2>1. Left = {}
    BY DEF HistoryInit, Left
  <2>. QED
    BY <1>3, <2>1, FS_EmptySet, HistoryAssumption DEF HistoryInit, LimitInv
<1>. QED
  BY <1>3, <1>4, <1>5, <1>6, <1>7 DEF HistoryInv

\* What it says.
LEMMA HistoryHolds == HistoryInv => HistoryTypeOK /\ NewestAreKept /\ HistoryIsTrue
<1>. SUFFICES ASSUME HistoryInv PROVE NewestAreKept /\ HistoryIsTrue
  BY DEF HistoryInv
<1>1. NewestAreKept
  <2>1. ASSUME ~failures, \A k \in Savers : saver[k].at \in {"new", "over"}
        PROVE  Cardinality(histories) <= HistoryLimit
    <3>1. Left = histories
      BY <2>1 DEF Left, Doomed
    <3>. QED
      BY <2>1, <3>1 DEF HistoryInv, LimitInv
  <2>2. \A e \in made : Cardinality({f \in made : Older(e, f)}) < HistoryLimit => e \in histories
    BY DEF HistoryInv, LimitInv, Newer
  <2>. QED
    BY <2>1, <2>2 DEF NewestAreKept
<1>2. HistoryIsTrue
  <2>1. ASSUME NEW e \in made PROVE e.field \notin Secrets
    BY DEF HistoryInv, StampsInv, IsRecorded
  <2>2. ASSUME NEW e \in made, NEW f \in made, e.field = f.field, e # f
        PROVE  e.old # f.old /\ e.new # f.new
    <3>1. PICK k \in Savers : saver[k].entry = e /\ saver[k].at # "new"
      BY DEF HistoryInv, StampsInv
    <3>2. PICK j \in Savers : saver[j].entry = f /\ saver[j].at # "new"
      BY DEF HistoryInv, StampsInv
    <3>3. e.old # e.new /\ f.old # f.new
      BY DEF HistoryInv, StampsInv, IsRecorded
    <3>4. e.new <= f.old \/ f.new <= e.old
      BY <2>2, <3>1, <3>2, <3>3 DEF HistoryInv, ChainInv
    <3>5. e.old <= e.new /\ f.old <= f.new
      BY <3>1, <3>2 DEF HistoryInv, ChainInv
    <3>6. e \in Entry /\ f \in Entry
      BY DEF HistoryInv, HistoryTypeOK
    <3>7. e.old \in Nat /\ e.new \in Nat /\ f.old \in Nat /\ f.new \in Nat
      BY <3>6, ValuesAreNumbers DEF Entry
    <3>. QED
      BY <3>3, <3>4, <3>5, <3>7
  <2>. QED
    BY <2>1, <2>2 DEF HistoryIsTrue
<1>. QED
  BY <1>1, <1>2
-----------------------------------------------------------------------------
\* One change goes on as next says.
LEMMA SaverChanges ==
  ASSUME saver \in [Savers -> SaverRecord], NEW k \in Savers, NEW next \in SaverRecord,
         saver' = [saver EXCEPT ![k] = next]
  PROVE  /\ saver' \in [Savers -> SaverRecord]
         /\ saver'[k] = next
         /\ \A j \in Savers : j # k => saver'[j] = saver[j]
OBVIOUS

\* A change that only goes on keeps its entry.
LEMMA SaverGoes ==
  ASSUME saver \in [Savers -> SaverRecord], NEW k \in Savers,
         NEW point \in {"record", "insert", "find", "remove", "over"}, SaverGoto(k, point)
  PROVE  /\ saver' \in [Savers -> SaverRecord]
         /\ saver'[k].at = point /\ saver'[k].entry = saver[k].entry
         /\ saver'[k].expired = saver[k].expired
         /\ \A j \in Savers : j # k => saver'[j] = saver[j]
<1> DEFINE next == [saver[k] EXCEPT !.at = point]
<1>1. saver[k] \in SaverRecord /\ saver' = [saver EXCEPT ![k] = next]
  BY DEF SaverGoto
<1>2. /\ next \in SaverRecord /\ next.at = point
      /\ next.entry = saver[k].entry /\ next.expired = saver[k].expired
  BY <1>1 DEF SaverRecord
<1>. HIDE DEF next
<1>. QED
  BY <1>1, <1>2, SaverChanges

\* The types, of what a step may do to them.
LEMMA HistoryTypes ==
  ASSUME HistoryTypeOK, saver' \in [Savers -> SaverRecord],
         settings' \in [Fields -> Values], histories' \subseteq Entry, made' \subseteq Entry,
         clock' \in Values, failures' \in BOOLEAN
  PROVE  HistoryTypeOK'
BY DEF HistoryTypeOK, SaverRecord

\* Entries stay as they are, and so does the clock.
LEMMA StampsStay ==
  ASSUME StampsInv, UNCHANGED clock, NEW k \in Savers,
         saver'[k].entry.created = saver[k].entry.created,
         \A j \in Savers : j # k => saver'[j] = saver[j],
         saver'[k].at \in {"new", "record"} => saver'[k].entry.created = 0,
         saver'[k].at \in {"insert", "find", "remove"} => saver'[k].entry.created > 0 /\ IsRecorded(saver'[k].entry),
         \A e \in made' : /\ e.created > 0 /\ IsRecorded(e)
                          /\ \E j \in Savers : saver'[j].entry = e /\ saver'[j].at \in {"find", "remove", "over"}
  PROVE  StampsInv'
<1>1. \A j \in Savers : saver'[j].entry.created = saver[j].entry.created
  OBVIOUS
<1>2. Stamped' = Stamped
  BY <1>1 DEF Stamped
<1>3. \A j \in Savers : /\ saver'[j].at \in {"new", "record"} => saver'[j].entry.created = 0
                        /\ saver'[j].at \in {"insert", "find", "remove"}
                             => saver'[j].entry.created > 0 /\ IsRecorded(saver'[j].entry)
  BY DEF StampsInv
<1>. QED
  BY <1>1, <1>2, <1>3 DEF StampsInv

\* The chain of saved values grows at its end only and loses its oldest entries only.
LEMMA ChainStays ==
  ASSUME ChainInv, UNCHANGED settings, NEW k \in Savers, saver[k].at # "new", saver'[k].at # "new",
         saver'[k].entry.old = saver[k].entry.old, saver'[k].entry.new = saver[k].entry.new,
         saver'[k].entry.field = saver[k].entry.field,
         \A j \in Savers : j # k => saver'[j] = saver[j]
  PROVE  ChainInv'
<1>1. \A j \in Savers : /\ saver'[j].entry.old = saver[j].entry.old /\ saver'[j].entry.new = saver[j].entry.new
                        /\ saver'[j].entry.field = saver[j].entry.field
                        /\ saver'[j].at = "new" <=> saver[j].at = "new"
  OBVIOUS
<1>. QED
  BY <1>1 DEF ChainInv

\* Nothing is inserted or removed and nobody has stopped looking.
LEMMA LimitStays ==
  ASSUME LimitInv, UNCHANGED <<histories, made, failures>>, NEW k \in Savers,
         saver[k].at \notin {"find", "remove"}, saver'[k].at \notin {"find", "remove"},
         \A j \in Savers : j # k => saver'[j] = saver[j]
  PROVE  LimitInv'
<1>1. \A j \in Savers : /\ saver'[j].at = "remove" <=> saver[j].at = "remove"
                        /\ saver'[j].at = "find" <=> saver[j].at = "find"
                        /\ saver[j].at = "remove" => saver'[j].expired = saver[j].expired
  OBVIOUS
<1>2. Left' = Left
  BY <1>1 DEF Left, Doomed
<1>. QED
  BY <1>1, <1>2 DEF LimitInv, Newer

\* Every save and every listing keeps the invariant.
LEMMA HistoryStays ==
  ASSUME HistoryInv, [HistoryNext]_historyVars
  PROVE  HistoryInv'
<1>. USE HistoryAssumption DEF HistoryInv
<1>types. /\ settings \in [Fields -> Values] /\ histories \subseteq Entry /\ made \subseteq Entry
          /\ clock \in Values /\ failures \in BOOLEAN
          /\ \A k \in Savers : saver[k] \in SaverRecord
  BY DEF HistoryTypeOK
<1>entry. \A k \in Savers : saver[k].entry \in Entry
  BY <1>types DEF SaverRecord
<1>nat. \A e \in Entry : e.old \in Nat /\ e.new \in Nat /\ e.created \in Nat /\ e.field \in Fields
  BY ValuesAreNumbers DEF Entry
<1>clock. clock \in Nat
  BY <1>types, ValuesAreNumbers
<1>1. ASSUME NEW k \in Savers, NEW f \in Fields, NEW v \in Values, Save(k, f, v) PROVE HistoryInv'
  <2> DEFINE entry == [saver[k].entry EXCEPT !.field = f, !.old = settings[f], !.new = v]
             next == [saver[k] EXCEPT !.at = "record", !.entry = entry]
  <2>1. /\ saver[k].at = "new" /\ saver' = [saver EXCEPT ![k] = next]
        /\ v = settings[f] \/ \A g \in Fields : settings[g] < v
        /\ settings' = [settings EXCEPT ![f] = v]
        /\ UNCHANGED <<histories, clock, made, failures>>
    BY <1>1 DEF Save
  <2>2. settings[f] \in Values /\ settings[f] \in Nat /\ v \in Nat
    BY <1>types, ValuesAreNumbers
  <2>3. /\ entry \in Entry /\ entry.field = f /\ entry.old = settings[f] /\ entry.new = v
        /\ entry.created = saver[k].entry.created
    BY <1>entry, <2>2 DEF Entry
  <2>. HIDE DEF entry
  <2>4. next \in SaverRecord /\ next.at = "record" /\ next.entry = entry
    BY <1>types, <2>3 DEF SaverRecord
  <2>. HIDE DEF next
  <2>5. /\ saver' \in [Savers -> SaverRecord] /\ saver'[k] = next
        /\ \A j \in Savers : j # k => saver'[j] = saver[j]
    BY <2>1, <2>4, SaverChanges
  <2>6. /\ settings' \in [Fields -> Values]
        /\ settings'[f] = v /\ v >= settings[f] /\ \A g \in Fields : g # f => settings'[g] = settings[g]
    BY <1>types, <2>1, <2>2, ValuesAreNumbers
  <2>7. HistoryTypeOK'
    BY <1>types, <2>1, <2>5, <2>6, HistoryTypes
  <2>8. StampsInv'
    <3>1. saver[k].entry.created = 0
      BY <2>1 DEF StampsInv
    <3>2. \A e \in made : /\ e.created > 0 /\ IsRecorded(e)
                          /\ \E j \in Savers : saver'[j].entry = e /\ saver'[j].at \in {"find", "remove", "over"}
      BY <2>1, <2>5 DEF StampsInv
    <3>. QED
      BY <2>1, <2>3, <2>4, <2>5, <3>1, <3>2, StampsStay
  <2>9. ChainInv'
    <3>1. \A j \in Savers : j # k /\ saver[j].at # "new" /\ saver[j].entry.field = f
             => saver[j].entry.new <= settings[f]
      BY DEF ChainInv
    <3>2. \A j \in Savers : saver'[j].at # "new" =>
            /\ saver'[j].entry.old <= saver'[j].entry.new
            /\ saver'[j].entry.new <= settings'[saver'[j].entry.field]
      <4>1. ASSUME NEW j \in Savers, j # k, saver[j].at # "new"
            PROVE  saver[j].entry.old <= saver[j].entry.new /\ saver[j].entry.new <= settings'[saver[j].entry.field]
        <5>1. saver[j].entry.new <= settings[saver[j].entry.field] /\ saver[j].entry.old <= saver[j].entry.new
          BY <4>1 DEF ChainInv
        <5>2. settings[saver[j].entry.field] <= settings'[saver[j].entry.field]
              /\ settings[saver[j].entry.field] \in Nat /\ settings'[saver[j].entry.field] \in Nat
          <6>1. \A g \in Fields : settings[g] \in Nat /\ settings'[g] \in Nat /\ settings[g] <= settings'[g]
            BY <1>types, <2>2, <2>6, ValuesAreNumbers
          <6>2. saver[j].entry.field \in Fields
            BY <1>entry, <1>nat
          <6>. QED
            BY <6>1, <6>2
        <5>. QED
          BY <1>entry, <1>nat, <5>1, <5>2
      <4>. QED
        BY <4>1, <2>2, <2>3, <2>4, <2>5, <2>6
    <3>3. \A j \in Savers : /\ j # k /\ saver[j].at # "new" /\ saver[j].entry.field = f /\ v # settings[f]
                            => saver[j].entry.new <= settings[f]
      BY <3>1
    <3>. QED
      BY <2>3, <2>4, <2>5, <3>2, <3>3 DEF ChainInv
  <2>10. LimitInv'
    BY <2>1, <2>4, <2>5, LimitStays
  <2>. QED
    BY <2>5, <2>7, <2>8, <2>9, <2>10
<1>2. ASSUME NEW k \in Savers, Record(k), IsRecorded(saver[k].entry) PROVE HistoryInv'
  <2> DEFINE entry == [saver[k].entry EXCEPT !.created = clock + 1]
             next == [saver[k] EXCEPT !.at = "insert", !.entry = entry]
  <2>1. /\ saver[k].at = "record" /\ saver' = [saver EXCEPT ![k] = next] /\ clock' = clock + 1
        /\ UNCHANGED <<settings, histories, made, failures>>
    <3>1. /\ saver[k].at = "record" /\ clock' = clock + 1
          /\ saver' = [saver EXCEPT ![k].at = "insert", ![k].entry.created = clock + 1]
          /\ UNCHANGED <<settings, histories, made, failures>>
      BY <1>2 DEF Record
    <3>2. saver' = [saver EXCEPT ![k] = next]
      BY <1>types, <3>1
    <3>. QED
      BY <3>1, <3>2
  <2>2. /\ clock + 1 \in Values /\ clock + 1 = Cardinality(Stamped \cup {k})
        /\ k \notin Stamped
    <3>1. Stamped \cup {k} \in SUBSET Savers /\ Stamped \in SUBSET Savers
      BY DEF Stamped
    <3>2. k \notin Stamped
      BY <2>1 DEF Stamped, StampsInv
    <3>3. IsFiniteSet(Stamped)
      BY <3>1, FS_Subset
    <3>4. Cardinality(Stamped \cup {k}) = clock + 1
      BY <3>2, <3>3, FS_AddElement DEF StampsInv
    <3>5. Cardinality(Stamped \cup {k}) <= Cardinality(Savers)
      BY <3>1, FS_Subset
    <3>. QED
      BY <1>clock, <3>2, <3>4, <3>5, ValuesAreNumbers
  <2>3. /\ entry \in Entry /\ entry.field = saver[k].entry.field /\ entry.old = saver[k].entry.old
        /\ entry.new = saver[k].entry.new /\ entry.created = clock + 1
    BY <1>entry, <2>2 DEF Entry
  <2>. HIDE DEF entry
  <2>4. next \in SaverRecord /\ next.at = "insert" /\ next.entry = entry
    BY <1>types, <2>3 DEF SaverRecord
  <2>. HIDE DEF next
  <2>5. /\ saver' \in [Savers -> SaverRecord] /\ saver'[k] = next
        /\ \A j \in Savers : j # k => saver'[j] = saver[j]
    BY <2>1, <2>4, SaverChanges
  <2>6. HistoryTypeOK'
    BY <1>types, <2>1, <2>2, <2>5, HistoryTypes
  <2>7. StampsInv'
    <3>1. Stamped' = Stamped \cup {k}
      BY <1>clock, <2>3, <2>4, <2>5 DEF Stamped
    <3>2. IsRecorded(entry)
      BY <1>2, <2>3 DEF IsRecorded
    <3>3. \A j \in Savers : j # k => saver[j].entry.created <= clock /\ saver[j].entry.created \in Nat
      BY <1>entry, <1>nat DEF StampsInv
    <3>4. \A e \in made : /\ e.created > 0 /\ IsRecorded(e)
                          /\ \E j \in Savers : saver'[j].entry = e /\ saver'[j].at \in {"find", "remove", "over"}
      BY <2>1, <2>5 DEF StampsInv
    <3>5. clock' = Cardinality(Stamped')
      BY <2>1, <2>2, <3>1
    <3>6. \A j \in Savers :
            /\ saver'[j].entry.created <= clock'
            /\ saver'[j].at \in {"new", "record"} => saver'[j].entry.created = 0
            /\ saver'[j].at \in {"insert", "find", "remove"}
                 => saver'[j].entry.created > 0 /\ IsRecorded(saver'[j].entry)
      BY <1>clock, <2>1, <2>3, <2>4, <2>5, <3>2, <3>3 DEF StampsInv
    <3>7. \A i, j \in Savers :
            saver'[i].entry.created = saver'[j].entry.created /\ saver'[i].entry.created > 0 => i = j
      BY <1>clock, <2>3, <2>4, <2>5, <3>3 DEF StampsInv
    <3>. QED
      BY <2>1, <3>4, <3>5, <3>6, <3>7 DEF StampsInv
  <2>8. ChainInv'
    BY <2>1, <2>3, <2>4, <2>5, ChainStays
  <2>9. LimitInv'
    BY <2>1, <2>4, <2>5, LimitStays
  <2>. QED
    BY <2>5, <2>6, <2>7, <2>8, <2>9
\* A change that is over without an entry more or less.
<1>over. ASSUME NEW k \in Savers, SaverGoto(k, "over"), saver[k].at # "new",
                UNCHANGED <<settings, histories, clock, made>>, failures' \in BOOLEAN, LimitInv'
         PROVE  HistoryInv'
  <2>1. /\ saver' \in [Savers -> SaverRecord]
        /\ saver'[k].at = "over" /\ saver'[k].entry = saver[k].entry
        /\ \A j \in Savers : j # k => saver'[j] = saver[j]
    BY <1>over, SaverGoes
  <2>2. \A e \in made : /\ e.created > 0 /\ IsRecorded(e)
                        /\ \E j \in Savers : saver'[j].entry = e /\ saver'[j].at \in {"find", "remove", "over"}
    BY <2>1 DEF StampsInv
  <2>3. StampsInv'
    BY <1>over, <2>1, <2>2, StampsStay
  <2>4. ChainInv'
    BY <1>over, <2>1, ChainStays
  <2>5. HistoryTypeOK'
    BY <1>types, <1>over, <2>1, HistoryTypes
  <2>. QED
    BY <1>over, <2>1, <2>3, <2>4, <2>5
<1>3. ASSUME NEW k \in Savers, Record(k), ~IsRecorded(saver[k].entry) PROVE HistoryInv'
  <2>1. /\ saver[k].at = "record" /\ SaverGoto(k, "over")
        /\ UNCHANGED <<settings, clock, histories, made, failures>>
    BY <1>3 DEF Record
  <2>2. /\ saver'[k].at = "over" /\ \A j \in Savers : j # k => saver'[j] = saver[j]
    BY <2>1, SaverGoes
  <2>3. LimitInv'
    BY <2>1, <2>2, LimitStays
  <2>. QED
    BY <1>types, <2>1, <2>3, <1>over
<1>4. ASSUME NEW k \in Savers, RecordingFails(k) PROVE HistoryInv'
  <2>1. /\ saver[k].at # "new" /\ SaverGoto(k, "over") /\ failures' = TRUE
        /\ UNCHANGED <<settings, histories, clock, made>>
    BY <1>4 DEF RecordingFails
  <2>2. /\ saver'[k].at = "over" /\ \A j \in Savers : j # k => saver'[j] = saver[j]
    BY <2>1, SaverGoes
  <2>3. LimitInv'
    BY <2>1, <2>2 DEF LimitInv, Newer
  <2>. QED
    BY <2>1, <2>3, <1>over
<1>5. ASSUME NEW k \in Savers, Insert(k) PROVE HistoryInv'
  <2> DEFINE entry == saver[k].entry
  <2>1. /\ saver[k].at = "insert" /\ SaverGoto(k, "find")
        /\ histories' = histories \cup {entry} /\ made' = made \cup {entry}
        /\ UNCHANGED <<settings, clock, failures>>
    BY <1>5 DEF Insert
  <2>2. entry \in Entry /\ IsRecorded(entry) /\ entry.created > 0
    BY <1>entry, <2>1 DEF StampsInv
  <2>3. /\ saver' \in [Savers -> SaverRecord]
        /\ saver'[k].at = "find" /\ saver'[k].entry = entry
        /\ \A j \in Savers : j # k => saver'[j] = saver[j]
    BY <2>1, SaverGoes
  <2>. HIDE DEF entry
  <2>4. HistoryTypeOK'
    <3>1. histories' \subseteq Entry /\ made' \subseteq Entry
      BY <1>types, <2>1, <2>2
    <3>. QED
      BY <1>types, <2>1, <2>3, <3>1, HistoryTypes
  <2>5. \A e \in made' : /\ e.created > 0 /\ IsRecorded(e)
                         /\ \E j \in Savers : saver'[j].entry = e /\ saver'[j].at \in {"find", "remove", "over"}
    BY <2>1, <2>2, <2>3 DEF StampsInv
  <2>6. StampsInv'
    BY <2>1, <2>2, <2>3, <2>5, StampsStay DEF entry
  <2>7. ChainInv'
    BY <2>1, <2>3, ChainStays DEF entry
  <2>8. LimitInv'
    <3>1. histories' \subseteq made' /\ IsFiniteSet(made') /\ made \in SUBSET made'
      BY <2>1, FS_AddElement DEF LimitInv
    <3>2. \A e \in made : Cardinality(Newer(made, e)) <= Cardinality(Newer(made', e))
            /\ Cardinality(Newer(made, e)) \in Nat /\ Cardinality(Newer(made', e)) \in Nat
      BY <3>1, NewerGrows
    <3>3. \A e \in made' : Cardinality(Newer(made', e)) < HistoryLimit => e \in histories'
      BY <2>1, <3>2 DEF LimitInv
    <3>4. \A j \in Savers : saver'[j].at = "remove" =>
            \A e \in saver'[j].expired : e \in made' /\ ~(Cardinality(Newer(made', e)) < HistoryLimit)
      <4>1. ASSUME NEW j \in Savers, saver'[j].at = "remove", NEW e \in saver'[j].expired
            PROVE  e \in made' /\ ~(Cardinality(Newer(made', e)) < HistoryLimit)
        <5>1. saver[j].at = "remove" /\ e \in saver[j].expired
          BY <2>3, <4>1
        <5>2. e \in made /\ ~(Cardinality(Newer(made, e)) < HistoryLimit)
          BY <5>1 DEF LimitInv
        <5>. QED
          BY <2>1, <3>2, <5>2
      <4>. QED
        BY <4>1
    <3>. QED
      BY <2>3, <3>1, <3>3, <3>4 DEF LimitInv
  <2>. QED
    BY <2>3, <2>4, <2>6, <2>7, <2>8
<1>6. ASSUME NEW k \in Savers, FindExpired(k) PROVE HistoryInv'
  <2> DEFINE point == IF Overflow = {} THEN "over" ELSE "remove"
             next == [saver[k] EXCEPT !.at = point, !.expired = Overflow]
  <2>1. /\ saver[k].at = "find" /\ saver' = [saver EXCEPT ![k] = next]
        /\ UNCHANGED <<settings, histories, clock, made, failures>>
    BY <1>6 DEF FindExpired
  <2>2. /\ Overflow \subseteq histories /\ Overflow \subseteq Entry
        /\ point \in {"over", "remove"} /\ (point = "over" => Overflow = {})
    BY <1>types DEF Overflow
  <2>. HIDE DEF point
  <2>3. next \in SaverRecord /\ next.at = point /\ next.entry = saver[k].entry /\ next.expired = Overflow
    BY <1>types, <2>2 DEF SaverRecord
  <2>. HIDE DEF next
  <2>4. /\ saver' \in [Savers -> SaverRecord] /\ saver'[k] = next
        /\ \A j \in Savers : j # k => saver'[j] = saver[j]
    BY <2>1, <2>3, SaverChanges
  <2>5. HistoryTypeOK'
    BY <1>types, <2>1, <2>4, HistoryTypes
  <2>6. StampsInv'
    <3>1. \A e \in made : /\ e.created > 0 /\ IsRecorded(e)
                          /\ \E j \in Savers : saver'[j].entry = e /\ saver'[j].at \in {"find", "remove", "over"}
      BY <2>1, <2>2, <2>3, <2>4 DEF StampsInv
    <3>2. saver[k].entry.created > 0 /\ IsRecorded(saver[k].entry)
      BY <2>1 DEF StampsInv
    <3>. QED
      BY <2>1, <2>2, <2>3, <2>4, <3>1, <3>2, StampsStay
  <2>7. ChainInv'
    BY <2>1, <2>2, <2>3, <2>4, ChainStays
  <2>8. LimitInv'
    <3>1. histories \in SUBSET made /\ IsFiniteSet(made) /\ IsFiniteSet(histories) /\ histories \in SUBSET Entry
      BY <1>types, FS_Subset DEF LimitInv
    <3>2. Overflow = {e \in histories : Cardinality(Newer(histories, e)) >= HistoryLimit}
      BY DEF Overflow, Newer
    <3>3. \A e \in histories : /\ Cardinality(Newer(histories, e)) <= Cardinality(Newer(made, e))
                               /\ Cardinality(Newer(histories, e)) \in Nat
                               /\ Cardinality(Newer(made, e)) \in Nat
      BY <3>1, NewerGrows
    <3>4. \A e \in Overflow : e \in made /\ ~(Cardinality(Newer(made, e)) < HistoryLimit)
      BY <3>1, <3>2, <3>3
    <3>5. \A j \in Savers : saver'[j].at = "remove" =>
            \A e \in saver'[j].expired : e \in made /\ ~(Cardinality(Newer(made, e)) < HistoryLimit)
      BY <2>3, <2>4, <3>4 DEF LimitInv
    <3>6. Cardinality(Left') <= HistoryLimit
      <4> DEFINE few == {e \in histories : Cardinality(Newer(histories, e)) < HistoryLimit}
      <4>1. Left' \in SUBSET few
        <5>1. ASSUME NEW e \in histories, e \in Overflow PROVE Doomed(e)'
          BY <2>2, <2>3, <2>4, <5>1 DEF Doomed
        <5>2. \A e \in histories : e \notin Overflow => e \in few
          BY <3>2, <3>3
        <5>. QED
          BY <2>1, <5>1, <5>2 DEF Left
      <4>2. \A e, f \in histories : e.created = f.created => e = f
        BY <3>1 DEF StampsInv
      <4>3. Cardinality(few) <= HistoryLimit
        BY <3>1, <4>2, FewHaveFewNewer
      <4>4. IsFiniteSet(few)
        BY <3>1, FS_Subset
      <4>5. Cardinality(Left') <= Cardinality(few) /\ IsFiniteSet(Left')
        BY <4>1, <4>4, FS_Subset
      <4>6. Cardinality(Left') \in Nat /\ Cardinality(few) \in Nat
        BY <4>4, <4>5, FS_CardinalityType
      <4>. QED
        BY <4>3, <4>5, <4>6
    <3>. QED
      BY <2>1, <3>5, <3>6 DEF LimitInv, Newer
  <2>. QED
    BY <2>4, <2>5, <2>6, <2>7, <2>8
<1>7. ASSUME NEW k \in Savers, RemoveExpired(k) PROVE HistoryInv'
  <2>1. /\ saver[k].at = "remove" /\ SaverGoto(k, "over")
        /\ histories' = histories \ saver[k].expired
        /\ UNCHANGED <<settings, clock, made, failures>>
    BY <1>7 DEF RemoveExpired
  <2>2. /\ saver' \in [Savers -> SaverRecord]
        /\ saver'[k].at = "over" /\ saver'[k].entry = saver[k].entry
        /\ \A j \in Savers : j # k => saver'[j] = saver[j]
    BY <2>1, SaverGoes
  <2>3. \A e \in made : /\ e.created > 0 /\ IsRecorded(e)
                        /\ \E j \in Savers : saver'[j].entry = e /\ saver'[j].at \in {"find", "remove", "over"}
    BY <2>2 DEF StampsInv
  <2>4. StampsInv'
    BY <2>1, <2>2, <2>3, StampsStay
  <2>5. ChainInv'
    BY <2>1, <2>2, ChainStays
  <2>6. HistoryTypeOK'
    <3>1. histories' \subseteq Entry
      BY <1>types, <2>1
    <3>. QED
      BY <1>types, <2>1, <2>2, <3>1, HistoryTypes
  <2>7. LimitInv'
    <3>1. Left' = Left
      BY <2>1, <2>2 DEF Left, Doomed
    <3>2. \A j \in Savers : saver'[j].at = "find" <=> saver[j].at = "find"
      BY <2>1, <2>2
    <3>3. \A e \in made : Cardinality(Newer(made, e)) < HistoryLimit => e \in histories'
      BY <2>1 DEF LimitInv
    <3>4. \A j \in Savers : saver'[j].at = "remove" =>
            \A e \in saver'[j].expired : e \in made /\ ~(Cardinality(Newer(made, e)) < HistoryLimit)
      BY <2>2 DEF LimitInv
    <3>. QED
      BY <2>1, <3>1, <3>2, <3>3, <3>4 DEF LimitInv
  <2>. QED
    BY <2>2, <2>4, <2>5, <2>6, <2>7
<1>8. ASSUME UNCHANGED historyVars PROVE HistoryInv'
  <2>1. Stamped' = Stamped /\ Left' = Left
    BY <1>8 DEF historyVars, Stamped, Left, Doomed
  <2>. QED
    BY <1>8, <2>1 DEF historyVars, HistoryTypeOK, StampsInv, ChainInv, LimitInv
<1>. QED
  BY <1>1, <1>2, <1>3, <1>4, <1>5, <1>6, <1>7, <1>8 DEF HistoryNext, HistoryStep

\* setting-history.service.ts:217 and ai-settings.service.ts:69: the newest entries
\* are kept and no more than the limit once every recording ended well; two saves
\* of a field never share an old or a new value, and no entry shows a secret.
THEOREM HistoryStaysTrue == HistorySpec => [](HistoryTypeOK /\ NewestAreKept /\ HistoryIsTrue)
BY HistoryStarts, HistoryStays, HistoryHolds, PTL DEF HistorySpec

-----------------------------------------------------------------------------
(* The quick replies of the settings page.                                  *)

GetRecord ==
  [at : {"none", "sent", "served"}, says : Seq(ReplyRows), current : BOOLEAN, background : BOOLEAN,
   fresh : BOOLEAN]
WriteRecord ==
  [at : {"none", "sent", "ok", "no"}, op : {"none", "create", "edit", "remove"}, id : 0..MaxWrites,
   by : 0..MaxWrites, scope : {"in", "out", "gone"}]

QuickTypes ==
  /\ rows \in Seq(ReplyRows) /\ listed \in Seq(ReplyRows)
  /\ isLoading \in BOOLEAN /\ unreported \in BOOLEAN
  /\ pendingMutations \in 0..MaxWrites /\ written \in 0..MaxWrites
  /\ deletingId \in 0..MaxWrites /\ confirmed \subseteq 1..MaxWrites
  /\ gets \in [Gets -> GetRecord] /\ writes \in [Writes -> WriteRecord]

\* A write under way has the last number of its time, and is of a reply of an
\* earlier one.
WriteOK(c, n) ==
  \/ c = NoWrite
  \/ /\ c.at \in {"sent", "ok", "no"} /\ c.op \in {"create", "edit", "remove"}
     /\ c.by \in 1..n /\ (c.op # "create" => c.id \in 1..n)

InScope == {w \in Writes : writes[w].scope = "in"}

\* A reply whose removal was asked for is neither confirmed nor to be.
WritesApart ==
  /\ \A w \in Writes : WriteOK(writes[w], written)
  /\ \A v, w \in Writes : v # w /\ writes[v] # NoWrite /\ writes[w] # NoWrite => writes[v].by # writes[w].by
  /\ \A w \in Writes : writes[w].op = "remove" =>
       /\ writes[w].id \notin confirmed
       /\ \A v \in Writes : writes[v].op = "create" /\ writes[v].scope = "in" => writes[v].by # writes[w].id
  /\ \A w \in Writes : writes[w].op = "create" /\ writes[w].scope = "in" /\ writes[w].at = "ok"
       => writes[w].by \in IdsIn(rows)

ListsInv ==
  /\ confirmed \subseteq IdsIn(rows) /\ confirmed \subseteq IdsIn(listed)
  /\ IdsIn(rows) \subseteq 1..written /\ IdsIn(listed) \subseteq 1..written
  /\ \A g \in Gets : IdsIn(gets[g].says) \subseteq 1..written

\* One answer at most is still to be shown, and only when no write is; it will
\* tell what the server has, unless the server changed unheard.
GetsInv ==
  /\ \A g, h \in Gets : gets[g].current /\ gets[h].current => g = h
  /\ (\E g \in Gets : gets[g].current) => InScope = {}
  /\ isLoading => \E g \in Gets : gets[g].current /\ ~gets[g].background
  /\ \A g \in Gets : gets[g].current /\ gets[g].at = "served" =>
       /\ confirmed \subseteq IdsIn(gets[g].says)
       /\ gets[g].fresh => gets[g].says = rows
       /\ ~gets[g].fresh => unreported
  /\ (\A g \in Gets : ~gets[g].current) /\ InScope = {} /\ ~unreported => listed = rows

QuickInv ==
  QuickTypes /\ WritesApart /\ pendingMutations = Cardinality(InScope) /\ ListsInv /\ GetsInv
-----------------------------------------------------------------------------
LEMMA QuickTypesSplit == QuickTypes => QuickTypeOK
<1>. SUFFICES ASSUME QuickTypes PROVE QuickTypeOK
  OBVIOUS
<1>1. \A g \in Gets : gets[g].says \in Seq(ReplyRows) /\ gets[g].at \in {"none", "sent", "served"}
  BY DEF QuickTypes, GetRecord
<1>2. \A w \in Writes : /\ writes[w].at \in {"none", "sent", "ok", "no"}
                        /\ writes[w].op \in {"none", "create", "edit", "remove"}
                        /\ writes[w].scope \in {"in", "out", "gone"}
  BY DEF QuickTypes, WriteRecord
<1>. QED
  BY <1>1, <1>2 DEF QuickTypes, QuickTypeOK

LEMMA NoGetIs == NoGet \in GetRecord /\ ~NoGet.current /\ NoGet.says = <<>> /\ NoGet.at = "none"
BY DEF NoGet, GetRecord

LEMMA NoWriteIs ==
  NoWrite \in WriteRecord /\ NoWrite.at = "none" /\ NoWrite.op = "none" /\ NoWrite.scope = "gone"
BY QuickAssumption DEF NoWrite, WriteRecord

LEMMA NoIds == IdsIn(<<>>) = {} /\ <<>> \in Seq(ReplyRows)
BY DEF IdsIn

\* Once stale, no answer is shown; a load has one that is.
LEMMA StaleIs ==
  ASSUME gets \in [Gets -> GetRecord]
  PROVE  /\ Stale(gets) \in [Gets -> GetRecord]
         /\ \A g \in Gets : ~Stale(gets)[g].current /\ Stale(gets)[g].says = gets[g].says
<1>1. ASSUME NEW g \in Gets
      PROVE  /\ [gets[g] EXCEPT !.current = FALSE] \in GetRecord
             /\ [gets[g] EXCEPT !.current = FALSE].says = gets[g].says
             /\ ~[gets[g] EXCEPT !.current = FALSE].current
  BY DEF GetRecord
<1>. QED
  BY <1>1 DEF Stale

LEMMA LoadIs ==
  ASSUME gets \in [Gets -> GetRecord], NEW background \in BOOLEAN
  PROVE  /\ WithLoad(gets, background) \in [Gets -> GetRecord]
         /\ \E s \in Gets :
              /\ WithLoad(gets, background)[s] =
                   [at |-> "sent", says |-> <<>>, current |-> TRUE, background |-> background, fresh |-> FALSE]
              /\ \A g \in Gets : g # s =>
                   ~WithLoad(gets, background)[g].current /\ WithLoad(gets, background)[g].says = gets[g].says
<1> DEFINE s == Slot(gets)
           load == [at |-> "sent", says |-> <<>>, current |-> TRUE, background |-> background, fresh |-> FALSE]
<1>1. s \in Gets
  <2>1. \E g \in Gets : gets[g] = NoGet \/ \A k \in Gets : gets[k] # NoGet
    BY QuickAssumption
  <2>. QED
    BY <2>1 DEF Slot
<1>2. load \in GetRecord
  BY NoIds DEF GetRecord
<1>3. WithLoad(gets, background) = [Stale(gets) EXCEPT ![s] = load]
  BY DEF WithLoad
<1>. HIDE DEF s, load
<1>4. /\ WithLoad(gets, background) \in [Gets -> GetRecord] /\ WithLoad(gets, background)[s] = load
      /\ \A g \in Gets : g # s => WithLoad(gets, background)[g] = Stale(gets)[g]
  BY <1>1, <1>2, <1>3, StaleIs
<1>. QED
  BY <1>1, <1>4, StaleIs DEF load

\* What a write does to a list of replies.
LEMMA ChangedIs ==
  ASSUME NEW list \in Seq(ReplyRows), NEW w \in Writes, writes[w] \in WriteRecord,
         writes[w] # NoWrite,
         WriteOK(writes[w], written), written \in 0..MaxWrites
  PROVE  /\ Changed(list, w) \in Seq(ReplyRows)
         /\ writes[w].op = "create" => IdsIn(Changed(list, w)) = IdsIn(list) \cup {writes[w].by}
         /\ writes[w].op = "edit" => IdsIn(Changed(list, w)) = IdsIn(list)
         /\ writes[w].op = "remove" => /\ IdsIn(Changed(list, w)) \subseteq IdsIn(list)
                                       /\ IdsIn(list) \ {writes[w].id} \subseteq IdsIn(Changed(list, w))
<1> DEFINE c == writes[w]
<1>1. /\ c.op \in {"create", "edit", "remove"} /\ c.by \in 1..MaxWrites
      /\ (c.op # "create" => c.id \in 1..MaxWrites)
  BY QuickAssumption DEF WriteOK
<1>2. Len(list) \in Nat /\ DOMAIN list = 1..Len(list) /\ \A i \in DOMAIN list : list[i] \in ReplyRows
  OBVIOUS
<1>. HIDE DEF c
<1>3. CASE c.op = "create"
  <2>1. Changed(list, w) = Append(list, [id |-> c.by, by |-> c.by])
    BY <1>3 DEF Changed, c
  <2>2. [id |-> c.by, by |-> c.by] \in ReplyRows
    BY <1>1 DEF ReplyRows
  <2>. DEFINE row == [id |-> c.by, by |-> c.by]
  <2>3. row.id = c.by
    OBVIOUS
  <2>. HIDE DEF row
  <2>4. /\ Changed(list, w) \in Seq(ReplyRows) /\ DOMAIN Changed(list, w) = 1..Len(list) + 1
        /\ Changed(list, w)[Len(list) + 1] = row
        /\ \A i \in 1..Len(list) : Changed(list, w)[i] = list[i]
    BY <1>2, <2>1, <2>2 DEF row
  <2>5. IdsIn(Changed(list, w)) = IdsIn(list) \cup {c.by}
    BY <1>2, <2>3, <2>4 DEF IdsIn
  <2>. QED
    BY <1>3, <2>4, <2>5 DEF c
<1>4. CASE c.op = "edit"
  <2> DEFINE row == [id |-> c.id, by |-> c.by]
             new == [i \in DOMAIN list |-> IF list[i].id = c.id THEN row ELSE list[i]]
  <2>1. Changed(list, w) = new
    BY <1>4 DEF Changed, c
  <2>2. row \in ReplyRows /\ row.id = c.id
    BY <1>1, <1>4 DEF ReplyRows
  <2>. HIDE DEF row
  <2>3. new \in [1..Len(list) -> ReplyRows]
    BY <1>2, <2>2
  <2>4. new \in Seq(ReplyRows) /\ DOMAIN new = DOMAIN list
    BY <1>2, <2>3
  <2>5. \A i \in DOMAIN list : new[i].id = list[i].id
    BY <2>2
  <2>. HIDE DEF new
  <2>6. IdsIn(new) = IdsIn(list)
    BY <2>4, <2>5 DEF IdsIn
  <2>. QED
    BY <1>4, <2>1, <2>4, <2>6 DEF c
<1>5. CASE c.op = "remove"
  <2> DEFINE places == {i \in DOMAIN list : list[i].id # c.id}
             rest == Subsequence(list, places)
  <2>1. Changed(list, w) = rest
    BY <1>5 DEF Changed, c
  <2>2. places \in SUBSET DOMAIN list
    OBVIOUS
  <2>. HIDE DEF places
  <2>3. /\ rest \in Seq(ReplyRows)
        /\ \A n \in DOMAIN rest : NthOf(places, n) \in places /\ rest[n] = list[NthOf(places, n)]
        /\ \A i \in places : \E n \in DOMAIN rest : rest[n] = list[i]
    BY <2>2, SubsequenceIs
  <2>. HIDE DEF rest
  <2>4. IdsIn(rest) \subseteq IdsIn(list)
    BY <2>2, <2>3 DEF IdsIn
  <2>5. IdsIn(list) \ {c.id} \subseteq IdsIn(rest)
    BY <2>3 DEF IdsIn, places
  <2>. QED
    BY <1>5, <2>1, <2>3, <2>4, <2>5 DEF c
<1>. QED
  BY <1>1, <1>3, <1>4, <1>5 DEF c

\* The page opens in order.
LEMMA QuickStarts == QuickInit => QuickInv
<1>. SUFFICES ASSUME QuickInit PROVE QuickInv
  OBVIOUS
<1>. USE QuickAssumption
<1>1. writes \in [Writes -> WriteRecord] /\ \A w \in Writes : writes[w] = NoWrite /\ writes[w].scope = "gone" /\ writes[w].op = "none"
  BY NoWriteIs DEF QuickInit
<1>2. InScope = {} /\ pendingMutations = Cardinality(InScope)
  BY <1>1, FS_EmptySet DEF QuickInit, InScope
<1>3. /\ rows \in Seq(ReplyRows) /\ IdsIn(rows) \subseteq 1..written /\ written \in 0..MaxWrites
  <2>1. CASE rows = <<>>
    BY <2>1, NoIds DEF QuickInit
  <2>2. CASE rows = <<[id |-> 1, by |-> 1]>>
    <3>1. [id |-> 1, by |-> 1] \in ReplyRows
      BY DEF ReplyRows
    <3>2. rows \in Seq(ReplyRows) /\ Len(rows) = 1 /\ rows[1].id = 1 /\ DOMAIN rows = 1..1
      BY <2>2, <3>1
    <3>. QED
      BY <3>2 DEF QuickInit, IdsIn
  <2>. QED
    BY <2>1, <2>2 DEF QuickInit
<1>4. [g \in Gets |-> NoGet] \in [Gets -> GetRecord]
  BY NoGetIs
<1>5. \E s \in Gets : /\ gets \in [Gets -> GetRecord]
                      /\ gets[s] = [at |-> "sent", says |-> <<>>, current |-> TRUE, background |-> FALSE, fresh |-> FALSE]
                      /\ \A g \in Gets : g # s => ~gets[g].current /\ gets[g].says = <<>>
  <2> DEFINE none == [g \in Gets |-> NoGet]
             s == Slot(none)
             load == [at |-> "sent", says |-> <<>>, current |-> TRUE, background |-> FALSE, fresh |-> FALSE]
  <2>1. s \in Gets
    <3>1. \E g \in Gets : none[g] = NoGet \/ \A k \in Gets : none[k] # NoGet
      OBVIOUS
    <3>. QED
      BY <3>1 DEF Slot
  <2>2. load \in GetRecord
    BY NoIds DEF GetRecord
  <2>3. Stale(none) \in [Gets -> GetRecord] /\ \A g \in Gets : ~Stale(none)[g].current /\ Stale(none)[g].says = <<>>
    BY NoIds DEF Stale, NoGet, GetRecord
  <2>4. gets = [Stale(none) EXCEPT ![s] = load]
    BY DEF QuickInit, WithLoad
  <2>. HIDE DEF s, load, none
  <2>5. gets \in [Gets -> GetRecord] /\ gets[s] = load /\ \A g \in Gets : g # s => gets[g] = Stale(none)[g]
    BY <2>1, <2>2, <2>3, <2>4
  <2>. QED
    BY <2>1, <2>3, <2>5 DEF load
<1>. PICK s \in Gets : /\ gets \in [Gets -> GetRecord]
                        /\ gets[s] = [at |-> "sent", says |-> <<>>, current |-> TRUE, background |-> FALSE, fresh |-> FALSE]
                        /\ \A g \in Gets : g # s => ~gets[g].current /\ gets[g].says = <<>>
  BY <1>5
<1>6. /\ gets[s].current /\ gets[s].at = "sent" /\ ~gets[s].background /\ \A g \in Gets : gets[g].says = <<>>
      /\ \A g \in Gets : gets[g].current => g = s
  OBVIOUS
<1>7. QuickTypes
  <2>1. 0 \in 0..MaxWrites
    OBVIOUS
  <2>2. listed = <<>> /\ isLoading = TRUE /\ pendingMutations = 0 /\ deletingId = 0 /\ confirmed = {} /\ unreported = TRUE
    BY DEF QuickInit
  <2>. QED
    BY <1>1, <1>3, <2>1, <2>2, NoIds DEF QuickTypes
<1>8. WritesApart
  BY <1>1 DEF WritesApart, WriteOK
<1>9. ListsInv
  <2>1. listed = <<>> /\ confirmed = {}
    BY DEF QuickInit
  <2>. QED
    BY <1>3, <1>6, <2>1, NoIds DEF ListsInv
<1>10. GetsInv
  <2>1. unreported = TRUE
    BY DEF QuickInit
  <2>. QED
    BY <1>2, <1>6, <2>1 DEF GetsInv
<1>. QED
  BY <1>2, <1>7, <1>8, <1>9, <1>10 DEF QuickInv

\* The invariant gives the types and the property of the list.
LEMMA QuickHolds == QuickInv => QuickTypeOK /\ ListIsCurrent
<1>. SUFFICES ASSUME QuickInv PROVE ListIsCurrent
  BY QuickTypesSplit DEF QuickInv
<1>1. ASSUME \A g \in Gets : gets[g] = NoGet, \A w \in Writes : writes[w] = NoWrite, ~unreported
      PROVE  listed = rows /\ ~isLoading /\ pendingMutations = 0
  <2>1. InScope = {}
    BY <1>1, NoWriteIs DEF InScope
  <2>2. \A g \in Gets : ~gets[g].current
    BY <1>1, NoGetIs
  <2>. QED
    BY <1>1, <2>1, <2>2, FS_EmptySet DEF QuickInv, GetsInv
<1>. QED
  BY <1>1 DEF QuickInv, ListsInv, ListIsCurrent

\* A number of writes at once that are each of a time of their own.
LEMMA InScopeIsFew ==
  ASSUME NEW S \in SUBSET Writes, NEW by, NEW n \in Nat,
         \A w \in S : by[w] \in 1..n, \A v, w \in S : v # w => by[v] # by[w]
  PROVE  IsFiniteSet(S) /\ Cardinality(S) \in Nat /\ Cardinality(S) <= n
<1> DEFINE f == [w \in S |-> by[w]]
<1>1. IsFiniteSet(S) /\ Cardinality(S) \in Nat
  BY QuickAssumption, FS_Subset, FS_CardinalityType
<1>2. f \in Injection(S, 1..n)
  BY DEF Injection, IsInjective
<1>4. IsFiniteSet(1..n) /\ Cardinality(1..n) = n
  <2>1. IsFiniteSet(1..n) /\ Cardinality(1..n) = IF 1 > n THEN 0 ELSE n - 1 + 1
    BY FS_Interval
  <2>. QED
    BY <2>1
<1>5. Cardinality(S) <= Cardinality(1..n)
  BY <1>2, <1>4, FS_Injection
<1>. QED
  BY <1>1, <1>4, <1>5

LEMMA ScopeIs ==
  ASSUME QuickInv
  PROVE  IsFiniteSet(InScope) /\ Cardinality(InScope) \in Nat /\ (InScope = {} <=> pendingMutations = 0)
<1>1. InScope \in SUBSET Writes
  BY DEF InScope
<1>2. IsFiniteSet(InScope)
  BY <1>1, QuickAssumption, FS_Subset
<1>. QED
  BY <1>2, FS_CardinalityType, FS_EmptySet DEF QuickInv

\* While a write is in scope no answer is shown, so that none is waited for.
LEMMA WhileInScope ==
  ASSUME QuickInv, InScope # {}
  PROVE  (\A g \in Gets : ~gets[g].current) /\ isLoading = FALSE
BY DEF QuickInv, GetsInv, QuickTypes

\* A write that ends leaves the others apart.
LEMMA WritesShrink ==
  ASSUME QuickInv, NEW w \in Writes, writes[w] # NoWrite, NEW left,
         \/ left = NoWrite
         \/ writes[w].at = "sent" /\ left = [writes[w] EXCEPT !.scope = "gone"],
         writes' = [writes EXCEPT ![w] = left], rows' = rows, written' = written,
         \A id \in confirmed' : id \in confirmed \/ (writes[w].op = "create" /\ writes[w].scope = "in" /\ id = writes[w].by)
  PROVE  writes' \in [Writes -> WriteRecord] /\ WritesApart' /\ InScope' = InScope \ {w}
<1>1. writes[w] \in WriteRecord /\ writes \in [Writes -> WriteRecord] /\ WriteOK(writes[w], written) /\ written \in Nat
  BY DEF QuickInv, QuickTypes, WritesApart
<1>2. left \in WriteRecord /\ WriteOK(left, written) /\ left.scope = "gone"
  <2>1. CASE left = NoWrite
    BY <2>1, NoWriteIs DEF WriteOK
  <2>2. CASE writes[w].at = "sent" /\ left = [writes[w] EXCEPT !.scope = "gone"]
    BY <1>1, <2>2 DEF WriteOK, WriteRecord
  <2>. QED
    BY <2>1, <2>2
<1>3. left # NoWrite => left.by = writes[w].by
  BY <1>1 DEF WriteRecord
<1>4. left.op = "remove" => writes[w].op = "remove" /\ left.id = writes[w].id
  BY <1>1, NoWriteIs DEF WriteRecord
<1>5. /\ writes' \in [Writes -> WriteRecord] /\ writes'[w] = left
      /\ \A v \in Writes : v # w => writes'[v] = writes[v]
  BY <1>1, <1>2
<1>6. InScope' = InScope \ {w}
  BY <1>2, <1>5 DEF InScope
<1>7. \A v \in Writes : WriteOK(writes'[v], written')
  BY <1>2, <1>5 DEF QuickInv, WritesApart
<1>8. ASSUME NEW u \in Writes, NEW v \in Writes, u # v, writes'[u] # NoWrite, writes'[v] # NoWrite
      PROVE  writes'[u].by # writes'[v].by
  <2>1. writes[u] # NoWrite /\ writes[v] # NoWrite /\ writes'[u].by = writes[u].by /\ writes'[v].by = writes[v].by
    BY <1>3, <1>5, <1>8
  <2>. QED
    BY <1>8, <2>1 DEF QuickInv, WritesApart
<1>9. ASSUME NEW v \in Writes, writes'[v].op = "remove"
      PROVE  /\ writes'[v].id \notin confirmed'
             /\ \A u \in Writes : writes'[u].op = "create" /\ writes'[u].scope = "in" => writes'[u].by # writes'[v].id
  <2>1. writes[v].op = "remove" /\ writes'[v].id = writes[v].id
    BY <1>4, <1>5, <1>9
  <2>2. \A u \in Writes : writes[u].op = "create" /\ writes[u].scope = "in" => writes[u].by # writes[v].id
    BY <2>1 DEF QuickInv, WritesApart
  <2>3. writes[v].id \notin confirmed
    BY <2>1 DEF QuickInv, WritesApart
  <2>4. writes[v].id \notin confirmed'
    BY <2>2, <2>3
  <2>. QED
    BY <1>2, <1>5, <2>1, <2>2, <2>4
<1>10. ASSUME NEW v \in Writes, writes'[v].op = "create", writes'[v].scope = "in",
              writes'[v].at = "ok"
       PROVE  writes'[v].by \in IdsIn(rows')
  BY <1>2, <1>5, <1>10 DEF QuickInv, WritesApart
<1>11. WritesApart'
  BY <1>7, <1>8, <1>9, <1>10 DEF WritesApart
<1>. QED
  BY <1>5, <1>6, <1>11

\* The finally of mutate: the last write of the scope asks for the list.
LEMMA ReloadIs ==
  ASSUME QuickInv, NEW w \in Writes, writes[w].scope = "in", InScope' = InScope \ {w}, ReloadAfter,
         pendingMutations' = pendingMutations - 1, UNCHANGED <<isLoading, written>>
  PROVE  /\ gets' \in [Gets -> GetRecord] /\ pendingMutations' \in 0..MaxWrites
         /\ pendingMutations' = Cardinality(InScope') /\ GetsInv'
         /\ \A g \in Gets : IdsIn(gets'[g].says) \subseteq 1..written
<1>1. w \in InScope /\ InScope # {}
  BY DEF InScope
<1>2. pendingMutations' = Cardinality(InScope') /\ pendingMutations' \in 0..MaxWrites
  <2>1. Cardinality(InScope \ {w}) = Cardinality(InScope) - 1
    BY <1>1, ScopeIs, FS_RemoveElement
  <2>2. pendingMutations \in 0..MaxWrites /\ pendingMutations # 0 /\ MaxWrites \in Nat
    BY <1>1, ScopeIs, QuickAssumption DEF QuickInv, QuickTypes
  <2>. QED
    BY <2>1, <2>2 DEF QuickInv
<1>3. (\A g \in Gets : ~gets[g].current) /\ isLoading = FALSE
  BY <1>1, WhileInScope
<1>4. gets \in [Gets -> GetRecord] /\ \A g \in Gets : IdsIn(gets[g].says) \subseteq 1..written
  BY DEF QuickInv, QuickTypes, ListsInv
<1>5. InScope' = {} <=> pendingMutations = 1
  <2>1. IsFiniteSet(InScope') /\ pendingMutations \in Nat
    BY ScopeIs, FS_RemoveElement, QuickAssumption DEF QuickInv, QuickTypes
  <2>2. Cardinality(InScope') = 0 <=> InScope' = {}
    BY <2>1, FS_EmptySet
  <2>. QED
    BY <1>2, <2>1, <2>2
<1>6. CASE pendingMutations = 1
  <2>1. gets' = WithLoad(gets, TRUE)
    BY <1>6 DEF ReloadAfter
  <2>2. PICK s \in Gets :
          /\ gets'[s] = [at |-> "sent", says |-> <<>>, current |-> TRUE, background |-> TRUE, fresh |-> FALSE]
          /\ \A g \in Gets : g # s => ~gets'[g].current /\ gets'[g].says = gets[g].says
    BY <1>4, <2>1, LoadIs
  <2>3. gets' \in [Gets -> GetRecord]
    BY <1>4, <2>1, LoadIs
  <2>4. gets'[s].current /\ gets'[s].at = "sent" /\ gets'[s].says = <<>>
    BY <2>2
  <2>5. GetsInv'
    BY <1>3, <1>5, <1>6, <2>2, <2>4 DEF GetsInv
  <2>. QED
    BY <1>2, <1>4, <2>2, <2>3, <2>4, <2>5, NoIds
<1>7. CASE pendingMutations # 1
  <2>1. gets' = Stale(gets)
    BY <1>7 DEF ReloadAfter
  <2>2. gets' \in [Gets -> GetRecord] /\ \A g \in Gets : ~gets'[g].current /\ gets'[g].says = gets[g].says
    BY <1>4, <2>1, StaleIs
  <2>3. GetsInv'
    BY <1>3, <1>5, <1>7, <2>2 DEF GetsInv
  <2>. QED
    BY <1>2, <1>4, <2>2, <2>3
<1>. QED
  BY <1>6, <1>7

\* A write that begins, of a reply that is on the page or of a new one.
LEMMA MutateStays ==
  ASSUME QuickInv, NEW w \in Writes, NEW op \in {"create", "edit", "remove"},
         NEW id \in 0..MaxWrites,
         op # "create" => id \in IdsIn(listed),
         op = "remove" => \A v \in Writes : writes[v].op = "create" => writes[v].scope # "in",
         Mutate(w, op, id), deletingId' \in 0..MaxWrites
  PROVE  QuickInv'
<1>. USE QuickAssumption
<1> DEFINE new == [at |-> "sent", op |-> op, id |-> id, by |-> written', scope |-> "in"]
<1>1. /\ written \in 0..MaxWrites /\ written' = written + 1 /\ written' \in 1..MaxWrites
      /\ writes \in [Writes -> WriteRecord] /\ writes[w] = NoWrite
      /\ writes' = [writes EXCEPT ![w] = new]
      /\ gets' = Stale(gets) /\ gets \in [Gets -> GetRecord]
      /\ pendingMutations' = pendingMutations + 1
      /\ isLoading' = FALSE /\ UNCHANGED <<rows, listed, unreported>>
      /\ confirmed' \subseteq confirmed /\ (op = "remove" => id \notin confirmed')
  BY DEF QuickInv, QuickTypes, Mutate
<1>2. op # "create" => id \in 1..written
  BY DEF QuickInv, ListsInv
<1>3. new \in WriteRecord /\ new # NoWrite /\ WriteOK(new, written')
  BY <1>1, <1>2 DEF WriteRecord, NoWrite, WriteOK
<1>4. new.at = "sent" /\ new.op = op /\ new.id = id /\ new.by = written + 1 /\ new.scope = "in"
  BY <1>1
<1>. HIDE DEF new
<1>5. /\ writes' \in [Writes -> WriteRecord] /\ writes'[w] = new
      /\ \A v \in Writes : v # w => writes'[v] = writes[v]
  BY <1>1, <1>3
<1>6. InScope' = InScope \cup {w} /\ w \notin InScope
  BY <1>1, <1>4, <1>5, NoWriteIs DEF InScope
<1>7. \A v \in Writes : writes[v] # NoWrite => writes[v].by \in 1..written
  BY DEF QuickInv, WritesApart, WriteOK
<1>8. \A v \in Writes : WriteOK(writes'[v], written')
  <2>1. \A v \in Writes : WriteOK(writes[v], written)
    BY DEF QuickInv, WritesApart
  <2>2. \A v \in Writes : WriteOK(writes[v], written')
    BY <1>1, <2>1 DEF WriteOK
  <2>. QED
    BY <1>3, <1>5, <2>2
<1>9. ASSUME NEW u \in Writes, NEW v \in Writes, u # v, writes'[u] # NoWrite, writes'[v] # NoWrite
      PROVE  writes'[u].by # writes'[v].by
  <2>1. CASE u = w
    <3>1. writes'[v].by \in 1..written /\ writes'[u].by = written + 1
      BY <1>4, <1>5, <1>7, <1>9, <2>1
    <3>. QED
      BY <1>1, <3>1
  <2>2. CASE v = w
    <3>1. writes'[u].by \in 1..written /\ writes'[v].by = written + 1
      BY <1>4, <1>5, <1>7, <1>9, <2>2
    <3>. QED
      BY <1>1, <3>1
  <2>3. CASE u # w /\ v # w
    BY <1>5, <1>9, <2>3 DEF QuickInv, WritesApart
  <2>. QED
    BY <2>1, <2>2, <2>3
<1>10. ASSUME NEW v \in Writes, writes'[v].op = "remove"
       PROVE  /\ writes'[v].id \notin confirmed'
              /\ \A u \in Writes : writes'[u].op = "create" /\ writes'[u].scope = "in" => writes'[u].by # writes'[v].id
  <2>1. CASE v = w
    BY <1>1, <1>4, <1>5, <1>10, <2>1
  <2>2. CASE v # w
    <3>1. /\ writes'[v] = writes[v] /\ writes[v].op = "remove" /\ writes[v] # NoWrite
      BY <1>5, <1>10, <2>2, NoWriteIs
    <3>2. writes[v].id \in 1..written /\ writes[v].id \notin confirmed
      BY <3>1 DEF QuickInv, WritesApart, WriteOK
    <3>3. \A u \in Writes : writes[u].op = "create" /\ writes[u].scope = "in" => writes[u].by # writes[v].id
      BY <3>1 DEF QuickInv, WritesApart
    <3>4. writes'[w].by # writes[v].id
      BY <1>1, <1>4, <1>5, <3>2
    <3>. QED
      BY <1>1, <1>5, <3>1, <3>2, <3>3, <3>4
  <2>. QED
    BY <2>1, <2>2
<1>11. ASSUME NEW v \in Writes, writes'[v].op = "create", writes'[v].scope = "in",
              writes'[v].at = "ok"
       PROVE  writes'[v].by \in IdsIn(rows')
  <2>1. writes'[v] = writes[v]
    BY <1>4, <1>5, <1>11
  <2>. QED
    BY <1>1, <1>11, <2>1 DEF QuickInv, WritesApart
<1>12. WritesApart'
  BY <1>8, <1>9, <1>10, <1>11 DEF WritesApart
<1>13. pendingMutations' = Cardinality(InScope') /\ pendingMutations' \in 0..MaxWrites
  <2>1. Cardinality(InScope') = Cardinality(InScope) + 1
    BY <1>6, ScopeIs, FS_AddElement
  <2> DEFINE by == [v \in Writes |-> writes'[v].by]
  <2>2. InScope' \in SUBSET Writes /\ \A v \in InScope' : writes'[v] # NoWrite
    BY NoWriteIs DEF InScope
  <2>3. \A v \in InScope' : by[v] \in 1..written'
    BY <1>8, <2>2 DEF WriteOK
  <2>4. \A u, v \in InScope' : u # v => by[u] # by[v]
    BY <1>9, <2>2
  <2>. HIDE DEF by
  <2>5. Cardinality(InScope') \in Nat /\ Cardinality(InScope') <= written'
    BY <1>1, <2>2, <2>3, <2>4, InScopeIsFew
  <2>. QED
    BY <1>1, <2>1, <2>5 DEF QuickInv
<1>14. gets' \in [Gets -> GetRecord] /\ \A g \in Gets : ~gets'[g].current /\ gets'[g].says = gets[g].says
  BY <1>1, StaleIs
<1>15. GetsInv'
  BY <1>1, <1>6, <1>14 DEF GetsInv
<1>16. ListsInv'
  <2>1. \A i \in 1..written : i \in 1..written'
    BY <1>1
  <2>. QED
    BY <1>1, <1>14, <2>1 DEF QuickInv, ListsInv
<1>17. QuickTypes'
  <2>1. isLoading' \in BOOLEAN
    BY <1>1
  <2>. QED
    BY <1>1, <1>5, <1>13, <1>14, <2>1 DEF QuickInv, QuickTypes
<1>. QED
  BY <1>12, <1>13, <1>15, <1>16, <1>17 DEF QuickInv

\* A load for another token, or for the page opened again, keeps the invariant.
LEMMA InvalidateStays ==
  ASSUME QuickInv, NEW reopened \in BOOLEAN, Invalidate(reopened)
  PROVE  QuickInv'
<1>. USE QuickAssumption
<1> DEFINE old(w) == [writes[w] EXCEPT !.scope = IF reopened \/ writes[w].scope = "gone" THEN "gone" ELSE "out"]
<1>1. /\ gets' = WithLoad(gets, FALSE) /\ gets \in [Gets -> GetRecord]
      /\ writes \in [Writes -> WriteRecord]
      /\ pendingMutations' = 0 /\ isLoading' = TRUE /\ UNCHANGED <<rows, written, unreported>>
      /\ \/ listed' = <<>> /\ confirmed' = {} /\ deletingId' = 0
         \/ UNCHANGED <<listed, confirmed, deletingId>>
  BY DEF QuickInv, QuickTypes, Invalidate
<1>2. writes' = [w \in Writes |-> old(w)]
  BY DEF Invalidate
<1>3. ASSUME NEW w \in Writes
      PROVE  /\ old(w) \in WriteRecord /\ old(w).scope # "in" /\ WriteOK(old(w), written)
             /\ old(w) # NoWrite => writes[w] # NoWrite
             /\ old(w).by = writes[w].by /\ old(w).op = writes[w].op /\ old(w).id = writes[w].id
  <2>1. writes[w] \in WriteRecord /\ WriteOK(writes[w], written)
    BY <1>1 DEF QuickInv, WritesApart
  <2>2. /\ old(w) \in WriteRecord /\ old(w).scope \in {"gone", "out"} /\ old(w).at = writes[w].at
        /\ old(w).by = writes[w].by /\ old(w).op = writes[w].op /\ old(w).id = writes[w].id
    BY <2>1 DEF WriteRecord
  <2>3. writes[w] = NoWrite => old(w) = NoWrite
    BY DEF NoWrite
  <2>. HIDE DEF old
  <2>4. WriteOK(old(w), written)
    BY <2>1, <2>2, <2>3 DEF WriteOK
  <2>. QED
    BY <2>2, <2>3, <2>4
<1>. HIDE DEF old
<1>4. writes' \in [Writes -> WriteRecord] /\ \A w \in Writes : writes'[w] = old(w)
  BY <1>2, <1>3
<1>5. InScope' = {} /\ pendingMutations' = Cardinality(InScope')
  BY <1>1, <1>3, <1>4, FS_EmptySet DEF InScope
<1>6. PICK s \in Gets :
        /\ gets'[s] = [at |-> "sent", says |-> <<>>, current |-> TRUE, background |-> FALSE, fresh |-> FALSE]
        /\ \A g \in Gets : g # s => ~gets'[g].current /\ gets'[g].says = gets[g].says
  BY <1>1, LoadIs
<1>7. gets' \in [Gets -> GetRecord]
  BY <1>1, LoadIs
<1>8. gets'[s].current /\ gets'[s].at = "sent" /\ ~gets'[s].background /\ gets'[s].says = <<>>
  BY <1>6
<1>9. GetsInv'
  BY <1>5, <1>6, <1>8 DEF GetsInv
<1>10. confirmed' \subseteq confirmed
  BY <1>1
<1>11. WritesApart'
  <2>1. \A w \in Writes : WriteOK(writes'[w], written')
    BY <1>1, <1>3, <1>4
  <2>2. \A v, w \in Writes : v # w /\ writes'[v] # NoWrite /\ writes'[w] # NoWrite => writes'[v].by # writes'[w].by
    BY <1>3, <1>4 DEF QuickInv, WritesApart
  <2>3. \A w \in Writes : writes'[w].op = "remove" => writes'[w].id \notin confirmed'
    BY <1>3, <1>4, <1>10 DEF QuickInv, WritesApart
  <2>. QED
    BY <1>3, <1>4, <2>1, <2>2, <2>3 DEF WritesApart
<1>12. ListsInv'
  <2>1. \A g \in Gets : IdsIn(gets'[g].says) \subseteq 1..written
    BY <1>6, <1>8, NoIds DEF QuickInv, ListsInv
  <2>2. confirmed' \subseteq IdsIn(rows) /\ confirmed' \subseteq IdsIn(listed') /\ IdsIn(listed') \subseteq 1..written
    BY <1>1, NoIds DEF QuickInv, ListsInv
  <2>. QED
    BY <1>1, <2>1, <2>2 DEF QuickInv, ListsInv
<1>13. QuickTypes'
  <2>1. 0 \in 0..MaxWrites
    OBVIOUS
  <2>2. listed' \in Seq(ReplyRows) /\ confirmed' \subseteq 1..MaxWrites /\ deletingId' \in 0..MaxWrites
    BY <1>1, <2>1, NoIds DEF QuickInv, QuickTypes
  <2>3. /\ rows' \in Seq(ReplyRows) /\ isLoading' \in BOOLEAN /\ unreported' \in BOOLEAN
        /\ pendingMutations' \in 0..MaxWrites /\ written' \in 0..MaxWrites
    BY <1>1, <2>1 DEF QuickInv, QuickTypes
  <2>. QED
    BY <1>4, <1>7, <2>2, <2>3 DEF QuickTypes
<1>. QED
  BY <1>5, <1>9, <1>11, <1>12, <1>13 DEF QuickInv

\* The server gets to a write.
LEMMA ServeWriteStays ==
  ASSUME QuickInv, NEW w \in Writes, ServeWrite(w)
  PROVE  QuickInv'
<1> DEFINE c == writes[w]
           taken == c.op = "create" \/ c.id \in IdsIn(rows)
           deaf == taken /\ c.scope # "in"
           left == IF c.scope = "gone" THEN NoWrite ELSE [c EXCEPT !.at = IF taken THEN "ok" ELSE "no"]
<1>1. /\ c.at = "sent" /\ rows' = (IF taken THEN Changed(rows, w) ELSE rows)
      /\ writes' = [writes EXCEPT ![w] = left] /\ unreported' = (unreported \/ deaf)
      /\ gets' = [g \in Gets |-> [gets[g] EXCEPT !.fresh = @ /\ ~deaf]]
      /\ UNCHANGED <<listed, isLoading, pendingMutations, deletingId, written, confirmed>>
  BY DEF ServeWrite
<1>2. /\ c \in WriteRecord /\ writes \in [Writes -> WriteRecord] /\ WriteOK(c, written)
      /\ c # NoWrite
      /\ written \in 0..MaxWrites /\ rows \in Seq(ReplyRows) /\ gets \in [Gets -> GetRecord]
  BY <1>1, NoWriteIs DEF QuickInv, QuickTypes, WritesApart
<1>3. c.op \in {"create", "edit", "remove"} /\ c.by \in 1..written
  BY <1>2 DEF WriteOK
<1>. HIDE DEF c
<1>4. /\ Changed(rows, w) \in Seq(ReplyRows)
      /\ c.op = "create" => IdsIn(Changed(rows, w)) = IdsIn(rows) \cup {c.by}
      /\ c.op = "edit" => IdsIn(Changed(rows, w)) = IdsIn(rows)
      /\ c.op = "remove" => /\ IdsIn(Changed(rows, w)) \subseteq IdsIn(rows)
                            /\ IdsIn(rows) \ {c.id} \subseteq IdsIn(Changed(rows, w))
  BY <1>2, ChangedIs DEF c
<1>5. /\ rows' \in Seq(ReplyRows) /\ IdsIn(rows') \subseteq 1..written
      /\ \A id \in IdsIn(rows) : id \in IdsIn(rows') \/ (c.op = "remove" /\ id = c.id)
      /\ c.op = "create" => c.by \in IdsIn(rows')
  <2>1. IdsIn(rows) \subseteq 1..written
    BY DEF QuickInv, ListsInv
  <2>2. CASE taken
    <3>1. rows' = Changed(rows, w)
      BY <1>1, <2>2
    <3>. QED
      BY <1>3, <1>4, <2>1, <3>1
  <2>3. CASE ~taken
    <3>1. rows' = rows /\ c.op # "create"
      BY <1>1, <2>3
    <3>. QED
      BY <1>2, <2>1, <3>1
  <2>. QED
    BY <2>2, <2>3
<1>6. /\ left \in WriteRecord /\ WriteOK(left, written) /\ (left # NoWrite => left.by = c.by)
      /\ left.op = "remove" => c.op = "remove" /\ left.id = c.id
      /\ left.scope = c.scope
      /\ left.op = "create" => (c.op = "create" /\ left.by = c.by) \/ left.scope = "gone"
  <2>1. CASE c.scope = "gone"
    BY <2>1, NoWriteIs DEF WriteOK
  <2>2. CASE c.scope # "gone"
    <3>1. PICK at \in {"ok", "no"} : left = [c EXCEPT !.at = at]
      <4>1. CASE taken
        BY <2>2, <4>1
      <4>2. CASE ~taken
        BY <2>2, <4>2
      <4>. QED
        BY <4>1, <4>2
    <3>2. /\ left \in WriteRecord /\ left.at = at /\ left.op = c.op /\ left.id = c.id
          /\ left.by = c.by
          /\ left.scope = c.scope
      BY <1>2, <3>1 DEF WriteRecord
    <3>. HIDE DEF left
    <3>3. WriteOK(left, written)
      BY <1>2, <3>2 DEF WriteOK
    <3>. QED
      BY <3>2, <3>3
  <2>. QED
    BY <2>1, <2>2
<1>. HIDE DEF left
<1>7. /\ writes' \in [Writes -> WriteRecord] /\ writes'[w] = left
      /\ \A v \in Writes : v # w => writes'[v] = writes[v]
  BY <1>1, <1>2, <1>6
<1>8. InScope' = InScope
  BY <1>6, <1>7 DEF InScope, c
<1>9. \A u, v \in Writes : u # v /\ writes[u] # NoWrite /\ writes[v] # NoWrite => writes[u].by # writes[v].by
  BY DEF QuickInv, WritesApart
<1>10. \A v \in Writes : writes[v].op = "remove" =>
         /\ writes[v].id \notin confirmed
         /\ \A u \in Writes : writes[u].op = "create" /\ writes[u].scope = "in" => writes[u].by # writes[v].id
  BY DEF QuickInv, WritesApart
<1>11. \A v \in Writes : WriteOK(writes'[v], written')
  BY <1>1, <1>6, <1>7 DEF QuickInv, WritesApart
<1>12. \A u, v \in Writes : u # v /\ writes'[u] # NoWrite /\ writes'[v] # NoWrite => writes'[u].by # writes'[v].by
  BY <1>2, <1>6, <1>7, <1>9 DEF c
<1>13. \A v \in Writes : writes'[v].op = "remove" => writes[v].op = "remove" /\ writes'[v].id = writes[v].id
  BY <1>6, <1>7 DEF c
<1>14. \A v \in Writes : writes'[v].op = "create" /\ writes'[v].scope = "in" =>
         writes[v].op = "create" /\ writes[v].scope = "in" /\ writes'[v].by = writes[v].by
  BY <1>6, <1>7 DEF c
<1>15. ASSUME NEW v \in Writes, writes'[v].op = "create", writes'[v].scope = "in",
              writes'[v].at = "ok"
       PROVE  writes'[v].by \in IdsIn(rows')
  <2>1. CASE v = w
    BY <1>5, <1>14, <1>15, <2>1 DEF c
  <2>2. CASE v # w
    <3>1. writes'[v] = writes[v] /\ writes[v].by \in IdsIn(rows)
      BY <1>7, <1>15, <2>2 DEF QuickInv, WritesApart
    <3>2. c.op = "remove" => writes[v].by # c.id
      BY <1>10, <1>15, <3>1 DEF c
    <3>. QED
      BY <1>5, <3>1, <3>2
  <2>. QED
    BY <2>1, <2>2
<1>16. WritesApart'
  <2>1. confirmed' = confirmed
    BY <1>1
  <2>. QED
    BY <1>10, <1>11, <1>12, <1>13, <1>14, <1>15, <2>1 DEF WritesApart
<1>17. confirmed \subseteq IdsIn(rows')
  <2>1. confirmed \subseteq IdsIn(rows) /\ (c.op = "remove" => c.id \notin confirmed)
    BY <1>10 DEF QuickInv, ListsInv, c
  <2>. QED
    BY <1>5, <2>1
<1>18. deaf \in BOOLEAN
  OBVIOUS
<1>19. /\ gets' \in [Gets -> GetRecord]
       /\ \A g \in Gets : /\ gets'[g].says = gets[g].says /\ gets'[g].current = gets[g].current
                           /\ gets'[g].background = gets[g].background /\ gets'[g].at = gets[g].at
                           /\ gets'[g].fresh = (gets[g].fresh /\ ~deaf)
  <2>. DEFINE new(g) == [gets[g] EXCEPT !.fresh = gets[g].fresh /\ ~deaf]
  <2>1. \A g \in Gets : gets[g] \in GetRecord
    BY <1>2
  <2>2. gets' = [g \in Gets |-> new(g)]
    BY <1>1
  <2>. HIDE DEF deaf
  <2>3. ASSUME NEW g \in Gets
        PROVE  /\ new(g) \in GetRecord /\ new(g).says = gets[g].says
               /\ new(g).current = gets[g].current
               /\ new(g).background = gets[g].background /\ new(g).at = gets[g].at
               /\ new(g).fresh = (gets[g].fresh /\ ~deaf)
    BY <1>18, <2>1 DEF GetRecord
  <2>. HIDE DEF new
  <2>. QED
    BY <2>2, <2>3
<1>20. ListsInv'
  BY <1>1, <1>5, <1>17, <1>19 DEF QuickInv, ListsInv
<1>21. GetsInv'
  <2>1. /\ \A g, h \in Gets : gets'[g].current /\ gets'[h].current => g = h
        /\ (\E g \in Gets : gets'[g].current) => InScope' = {}
        /\ isLoading' => \E g \in Gets : gets'[g].current /\ ~gets'[g].background
    BY <1>1, <1>8, <1>19 DEF QuickInv, GetsInv
  <2>2. CASE deaf
    <3>1. unreported' /\ \A g \in Gets : ~gets'[g].fresh
      BY <1>1, <1>19, <2>2
    <3>2. \A g \in Gets : gets'[g].current /\ gets'[g].at = "served" => confirmed' \subseteq IdsIn(gets'[g].says)
      BY <1>1, <1>19 DEF QuickInv, GetsInv
    <3>. QED
      BY <2>1, <3>1, <3>2 DEF GetsInv
  <2>3. CASE c.scope = "in"
    <3>1. InScope' # {}
      BY <1>8, <2>3 DEF InScope, c
    <3>. QED
      BY <2>1, <3>1 DEF GetsInv
  <2>4. CASE ~deaf /\ c.scope # "in"
    <3>1. rows' = rows /\ unreported' = unreported
      BY <1>1, <2>4 DEF QuickInv, QuickTypes
    <3>2. \A g \in Gets : gets'[g].fresh = gets[g].fresh
      BY <1>2, <1>19, <2>4 DEF GetRecord
    <3>3. /\ \A g \in Gets : gets[g].current /\ gets[g].at = "served" =>
                /\ confirmed \subseteq IdsIn(gets[g].says)
                /\ gets[g].fresh => gets[g].says = rows
                /\ ~gets[g].fresh => unreported
          /\ (\A g \in Gets : ~gets[g].current) /\ InScope = {} /\ ~unreported => listed = rows
      BY DEF QuickInv, GetsInv
    <3>4. /\ \A g \in Gets : gets'[g].current /\ gets'[g].at = "served" =>
                /\ confirmed' \subseteq IdsIn(gets'[g].says)
                /\ gets'[g].fresh => gets'[g].says = rows'
                /\ ~gets'[g].fresh => unreported'
      BY <1>1, <1>19, <3>1, <3>2, <3>3
    <3>5. (\A g \in Gets : ~gets'[g].current) /\ InScope' = {} /\ ~unreported' => listed' = rows'
      BY <1>1, <1>8, <1>19, <3>1, <3>3
    <3>. QED
      BY <2>1, <3>4, <3>5 DEF GetsInv
  <2>. QED
    BY <2>2, <2>3, <2>4
<1>22. QuickTypes'
  <2>1. unreported' \in BOOLEAN
    BY <1>1
  <2>. QED
    BY <1>1, <1>5, <1>7, <1>19, <2>1 DEF QuickInv, QuickTypes
<1>. QED
  BY <1>1, <1>8, <1>16, <1>20, <1>21, <1>22 DEF QuickInv

\* A request for the list ends, or the server gets to it.
LEMMA ServeGetStays ==
  ASSUME QuickInv, NEW g \in Gets, ServeGet(g)
  PROVE  QuickInv'
<1>1. /\ gets' = [gets EXCEPT ![g].at = "served", ![g].says = rows, ![g].fresh = TRUE]
      /\ UNCHANGED <<rows, listed, isLoading, pendingMutations, deletingId, writes, written, confirmed, unreported>>
  BY DEF ServeGet
<1> DEFINE new == [gets[g] EXCEPT !.at = "served", !.says = rows, !.fresh = TRUE]
<1>2. gets \in [Gets -> GetRecord] /\ gets[g] \in GetRecord /\ rows \in Seq(ReplyRows)
  BY DEF QuickInv, QuickTypes
<1>3. /\ new \in GetRecord /\ new.at = "served" /\ new.says = rows /\ new.fresh
      /\ new.current = gets[g].current /\ new.background = gets[g].background
  BY <1>2 DEF GetRecord
<1>4. gets' = [gets EXCEPT ![g] = new]
  BY <1>1
<1>. HIDE DEF new
<1>5. /\ gets' \in [Gets -> GetRecord] /\ gets'[g] = new /\ \A h \in Gets : h # g => gets'[h] = gets[h]
  BY <1>2, <1>3, <1>4
<1>6. QuickTypes' /\ WritesApart' /\ InScope' = InScope
  BY <1>1, <1>5 DEF QuickInv, QuickTypes, WritesApart, InScope
<1>7. ListsInv'
  BY <1>1, <1>3, <1>5 DEF QuickInv, ListsInv
<1>8. confirmed \subseteq IdsIn(rows)
  BY DEF QuickInv, ListsInv
<1>9. \A h \in Gets : gets'[h].current = gets[h].current /\ gets'[h].background = gets[h].background
  BY <1>3, <1>5
<1>10. GetsInv'
  <2>1. \A h \in Gets : gets'[h].current /\ gets'[h].at = "served" =>
          /\ confirmed' \subseteq IdsIn(gets'[h].says)
          /\ gets'[h].fresh => gets'[h].says = rows'
          /\ ~gets'[h].fresh => unreported'
    <3>1. /\ \A h \in Gets : gets[h].current /\ gets[h].at = "served" =>
                /\ confirmed \subseteq IdsIn(gets[h].says)
                /\ gets[h].fresh => gets[h].says = rows
                /\ ~gets[h].fresh => unreported
      BY DEF QuickInv, GetsInv
    <3>. QED
      BY <1>1, <1>3, <1>5, <1>8, <3>1
  <2>. QED
    BY <1>1, <1>6, <1>9, <2>1 DEF QuickInv, GetsInv
<1>. QED
  BY <1>1, <1>6, <1>7, <1>10 DEF QuickInv

\* The answer of a write that succeeded keeps the invariant.
LEMMA WriteAnsweredStays ==
  ASSUME QuickInv, NEW w \in Writes, WriteAnswered(w)
  PROVE  QuickInv'
<1> DEFINE c == writes[w]
           new == IF c.op = "create" THEN {c.by} ELSE {}
<1>1. /\ c.at = "ok" /\ c.scope = "in" /\ listed' = Changed(listed, w)
      /\ confirmed' = confirmed \cup new
      /\ ReloadAfter /\ pendingMutations' = pendingMutations - 1
      /\ writes' = [writes EXCEPT ![w] = NoWrite]
      /\ deletingId' \in {0, deletingId} /\ UNCHANGED <<rows, isLoading, written, unreported>>
  BY DEF WriteAnswered, Ended
<1>2. /\ c \in WriteRecord /\ WriteOK(c, written) /\ c # NoWrite /\ written \in 0..MaxWrites
      /\ listed \in Seq(ReplyRows)
  BY <1>1, NoWriteIs DEF QuickInv, QuickTypes, WritesApart
<1>3. c.op \in {"create", "edit", "remove"} /\ c.by \in 1..written
  BY <1>2 DEF WriteOK
<1>4. \A id \in confirmed' : id \in confirmed \/ (c.op = "create" /\ c.scope = "in" /\ id = c.by)
  BY <1>1
<1>5. writes' \in [Writes -> WriteRecord] /\ WritesApart' /\ InScope' = InScope \ {w}
  BY <1>1, <1>2, <1>4, WritesShrink
<1>6. /\ gets' \in [Gets -> GetRecord] /\ pendingMutations' \in 0..MaxWrites
      /\ pendingMutations' = Cardinality(InScope') /\ GetsInv'
      /\ \A g \in Gets : IdsIn(gets'[g].says) \subseteq 1..written
  BY <1>1, <1>5, ReloadIs
<1>7. /\ c.op = "create" => c.by \in IdsIn(rows)
      /\ c.op = "remove" => c.id \notin confirmed
  BY <1>1 DEF QuickInv, WritesApart
<1>8. /\ confirmed \subseteq IdsIn(rows) /\ confirmed \subseteq IdsIn(listed)
      /\ IdsIn(rows) \subseteq 1..written /\ IdsIn(listed) \subseteq 1..written
  BY DEF QuickInv, ListsInv
<1>9. /\ Changed(listed, w) \in Seq(ReplyRows)
      /\ c.op = "create" => IdsIn(Changed(listed, w)) = IdsIn(listed) \cup {c.by}
      /\ c.op = "edit" => IdsIn(Changed(listed, w)) = IdsIn(listed)
      /\ c.op = "remove" => /\ IdsIn(Changed(listed, w)) \subseteq IdsIn(listed)
                            /\ IdsIn(listed) \ {c.id} \subseteq IdsIn(Changed(listed, w))
  BY <1>2, ChangedIs
<1>. HIDE DEF c
<1>10. /\ listed' \in Seq(ReplyRows) /\ confirmed' \subseteq IdsIn(listed')
       /\ confirmed' \subseteq IdsIn(rows)
       /\ IdsIn(listed') \subseteq 1..written
  BY <1>1, <1>3, <1>7, <1>8, <1>9
<1>11. ListsInv'
  BY <1>1, <1>6, <1>8, <1>10 DEF ListsInv
<1>12. QuickTypes'
  <2>1. confirmed' \subseteq 1..MaxWrites
    BY <1>2, <1>8, <1>10, QuickAssumption
  <2>2. deletingId' \in 0..MaxWrites
    BY <1>1, QuickAssumption DEF QuickInv, QuickTypes
  <2>. QED
    BY <1>1, <1>5, <1>6, <1>10, <2>1, <2>2 DEF QuickInv, QuickTypes
<1>. QED
  BY <1>5, <1>6, <1>11, <1>12 DEF QuickInv

\* The answer of a write that failed keeps the invariant.
LEMMA WriteFailedStays ==
  ASSUME QuickInv, NEW w \in Writes, WriteFailed(w)
  PROVE  QuickInv'
<1>1. PICK left :
        /\ \/ left = NoWrite
           \/ writes[w].at = "sent" /\ left = [writes[w] EXCEPT !.scope = "gone"]
        /\ Ended(w, left)
  BY DEF WriteFailed
<1>2. /\ writes[w].scope = "in" /\ ReloadAfter /\ pendingMutations' = pendingMutations - 1
      /\ writes' = [writes EXCEPT ![w] = left] /\ deletingId' \in {0, deletingId}
      /\ UNCHANGED <<rows, isLoading, written, unreported, listed, confirmed>>
  BY <1>1 DEF WriteFailed, Ended
<1>3. writes[w] # NoWrite
  BY <1>2, NoWriteIs
<1>4. writes' \in [Writes -> WriteRecord] /\ WritesApart' /\ InScope' = InScope \ {w}
  BY <1>1, <1>2, <1>3, WritesShrink
<1>5. /\ gets' \in [Gets -> GetRecord] /\ pendingMutations' \in 0..MaxWrites
      /\ pendingMutations' = Cardinality(InScope') /\ GetsInv'
      /\ \A g \in Gets : IdsIn(gets'[g].says) \subseteq 1..written
  BY <1>2, <1>4, ReloadIs
<1>6. ListsInv'
  BY <1>2, <1>5 DEF QuickInv, ListsInv
<1>7. deletingId' \in 0..MaxWrites
  BY <1>2, QuickAssumption DEF QuickInv, QuickTypes
<1>8. QuickTypes'
  BY <1>2, <1>4, <1>5, <1>7 DEF QuickInv, QuickTypes
<1>. QED
  BY <1>4, <1>5, <1>6, <1>8 DEF QuickInv

\* The answer of a write from before such a load keeps the invariant.
LEMMA WriteIgnoredStays ==
  ASSUME QuickInv, NEW w \in Writes, WriteIgnored(w)
  PROVE  QuickInv'
<1>1. /\ writes[w] # NoWrite /\ writes[w].scope # "in" /\ writes' = [writes EXCEPT ![w] = NoWrite]
      /\ deletingId' \in {0, deletingId}
      /\ UNCHANGED <<rows, isLoading, written, unreported, listed, confirmed, pendingMutations, gets>>
  BY DEF WriteIgnored, Ended
<1>2. writes' \in [Writes -> WriteRecord] /\ WritesApart' /\ InScope' = InScope \ {w}
  BY <1>1, WritesShrink
<1>3. InScope' = InScope
  BY <1>1, <1>2 DEF InScope
<1>4. GetsInv'
  BY <1>1, <1>3 DEF QuickInv, GetsInv
<1>5. ListsInv'
  BY <1>1 DEF QuickInv, ListsInv
<1>6. deletingId' \in 0..MaxWrites
  BY <1>1, QuickAssumption DEF QuickInv, QuickTypes
<1>7. QuickTypes'
  BY <1>1, <1>2, <1>6 DEF QuickInv, QuickTypes
<1>. QED
  BY <1>1, <1>2, <1>3, <1>4, <1>5, <1>7 DEF QuickInv

\* The answer to a request for the list, or its error.
LEMMA GetEndsStays ==
  ASSUME QuickInv, NEW g \in Gets, GetAnswered(g) \/ GetFailed(g)
  PROVE  QuickInv'
<1>1. /\ gets' = [gets EXCEPT ![g] = NoGet] /\ gets[g] # NoGet
      /\ isLoading' = (isLoading /\ (gets[g].current => gets[g].background))
      /\ UNCHANGED <<rows, pendingMutations, deletingId, writes, written, confirmed>>
  BY NoGetIs DEF GetAnswered, GetFailed
<1>2. /\ rows \in Seq(ReplyRows) /\ listed \in Seq(ReplyRows) /\ gets \in [Gets -> GetRecord]
      /\ gets[g] \in GetRecord /\ isLoading \in BOOLEAN /\ unreported \in BOOLEAN
  BY DEF QuickInv, QuickTypes
<1>3. /\ gets' \in [Gets -> GetRecord] /\ gets'[g] = NoGet /\ \A h \in Gets : h # g => gets'[h] = gets[h]
  BY <1>1, <1>2, NoGetIs
<1>4. WritesApart' /\ InScope' = InScope /\ \A h \in Gets : gets'[h].current => h # g /\ gets[h].current
  BY <1>1, <1>3, NoGetIs DEF QuickInv, WritesApart, InScope
<1>5. /\ isLoading' \in BOOLEAN /\ (isLoading' => isLoading /\ (gets[g].current => gets[g].background))
  BY <1>1
<1>6. /\ gets[g].current => \A h \in Gets : ~gets'[h].current
      /\ isLoading' => \E h \in Gets : gets'[h].current /\ ~gets'[h].background
  BY <1>3, <1>4, <1>5 DEF QuickInv, GetsInv
<1>7. CASE gets[g].current
  <2>1. isLoading' = FALSE /\ \A h \in Gets : ~gets'[h].current
    BY <1>5, <1>6, <1>7
  <2>2. /\ listed' \in Seq(ReplyRows) /\ IdsIn(listed') \subseteq 1..written
        /\ confirmed \subseteq IdsIn(listed')
        /\ unreported' \in BOOLEAN /\ (~unreported' => listed' = rows)
    <3>1. CASE GetAnswered(g)
      <4>1. gets[g].at = "served" /\ listed' = gets[g].says /\ unreported' = (unreported /\ ~gets[g].fresh)
        BY <1>7, <3>1 DEF GetAnswered
      <4>2. /\ confirmed \subseteq IdsIn(gets[g].says) /\ (gets[g].fresh => gets[g].says = rows)
            /\ (~gets[g].fresh => unreported)
        BY <1>7, <4>1 DEF QuickInv, GetsInv
      <4>3. IdsIn(gets[g].says) \subseteq 1..written /\ gets[g].says \in Seq(ReplyRows)
        BY <1>2 DEF QuickInv, ListsInv, GetRecord
      <4>. QED
        BY <4>1, <4>2, <4>3
    <3>2. CASE GetFailed(g)
      <4>1. unreported' = TRUE /\ listed' = listed
        BY <1>7, <3>2 DEF GetFailed
      <4>. QED
        BY <1>2, <4>1 DEF QuickInv, ListsInv
    <3>. QED
      BY <3>1, <3>2
  <2>3. GetsInv'
    BY <1>1, <2>1, <2>2 DEF GetsInv
  <2>4. ListsInv'
    BY <1>1, <1>3, <2>2, NoGetIs, NoIds DEF QuickInv, ListsInv
  <2>5. QuickTypes'
    BY <1>1, <1>3, <1>5, <2>2 DEF QuickInv, QuickTypes
  <2>. QED
    BY <1>1, <1>4, <2>3, <2>4, <2>5 DEF QuickInv
<1>8. CASE ~gets[g].current
  <2>1. listed' = listed /\ unreported' = unreported
    BY <1>2, <1>8 DEF GetAnswered, GetFailed
  <2>2. ListsInv'
    BY <1>1, <1>3, <2>1, NoGetIs, NoIds DEF QuickInv, ListsInv
  <2>3. /\ \A h \in Gets : gets[h].current /\ gets[h].at = "served" =>
             /\ confirmed \subseteq IdsIn(gets[h].says)
             /\ gets[h].fresh => gets[h].says = rows
             /\ ~gets[h].fresh => unreported
        /\ (\A h \in Gets : ~gets[h].current) /\ InScope = {} /\ ~unreported => listed = rows
        /\ \A h, k \in Gets : gets[h].current /\ gets[k].current => h = k
        /\ (\E h \in Gets : gets[h].current) => InScope = {}
    BY DEF QuickInv, GetsInv
  <2>4. \A h \in Gets : gets'[h].current /\ gets'[h].at = "served" =>
             /\ confirmed' \subseteq IdsIn(gets'[h].says)
             /\ gets'[h].fresh => gets'[h].says = rows'
             /\ ~gets'[h].fresh => unreported'
    BY <1>1, <1>3, <1>4, <2>1, <2>3
  <2>5. (\A h \in Gets : ~gets'[h].current) /\ InScope' = {} /\ ~unreported' => listed' = rows'
    BY <1>1, <1>3, <1>4, <1>8, <2>1, <2>3
  <2>6. GetsInv'
    BY <1>3, <1>4, <1>6, <2>3, <2>4, <2>5 DEF GetsInv
  <2>7. QuickTypes'
    BY <1>1, <1>3, <1>5, <2>1 DEF QuickInv, QuickTypes
  <2>. QED
    BY <1>1, <1>4, <2>2, <2>6, <2>7 DEF QuickInv
<1>. QED
  BY <1>7, <1>8

\* Every step of the section keeps the invariant.
LEMMA QuickStays == QuickInv /\ [QuickNext]_quickVars => QuickInv'
<1>. SUFFICES ASSUME QuickInv, [QuickNext]_quickVars PROVE QuickInv'
  OBVIOUS
<1>1. ASSUME NEW w \in Writes, SaveQuickReply(w) PROVE QuickInv'
  <2>1. deletingId' \in 0..MaxWrites
    BY <1>1 DEF SaveQuickReply, QuickInv, QuickTypes
  <2>2. CASE Mutate(w, "create", 0)
    <3>1. 0 \in 0..MaxWrites
      BY QuickAssumption
    <3>. QED
      BY <2>1, <2>2, <3>1, MutateStays
  <2>3. ASSUME NEW id \in IdsIn(listed), Mutate(w, "edit", id) PROVE QuickInv'
    <3>1. id \in 0..MaxWrites
      BY QuickAssumption DEF QuickInv, QuickTypes, ListsInv
    <3>. QED
      BY <2>1, <2>3, <3>1, MutateStays
  <2>. QED
    BY <1>1, <2>2, <2>3 DEF SaveQuickReply
<1>2. ASSUME NEW w \in Writes, RemoveQuickReply(w) PROVE QuickInv'
  <2>1. PICK id \in IdsIn(listed) : Mutate(w, "remove", id) /\ deletingId' = id
    BY <1>2 DEF RemoveQuickReply
  <2>2. id \in 0..MaxWrites
    BY QuickAssumption DEF QuickInv, QuickTypes, ListsInv
  <2>3. \A v \in Writes : writes[v].op = "create" => writes[v].scope # "in"
    BY <1>2 DEF RemoveQuickReply, isSaving
  <2>. QED
    BY <2>1, <2>2, <2>3, MutateStays
<1>3. CASE UNCHANGED quickVars
  BY <1>3 DEF quickVars, QuickInv, QuickTypes, WritesApart, ListsInv, GetsInv, InScope
<1>. QED
  BY <1>1, <1>2, <1>3, InvalidateStays, ServeWriteStays, ServeGetStays, WriteAnsweredStays,
     WriteFailedStays,
     WriteIgnoredStays, GetEndsStays DEF QuickNext

\* SettingsPage.tsx:793: when every answer has come the list shows the rows of the
\* server, unless a change went unreported.
THEOREM QuickRepliesStayCurrent == QuickSpec => [](QuickTypeOK /\ ListIsCurrent)
<1>1. QuickInv /\ [QuickNext]_quickVars => QuickInv'
  BY QuickStays
<1>. QED
  BY <1>1, QuickStarts, QuickHolds, PTL DEF QuickSpec

-----------------------------------------------------------------------------
(* The assistants of the settings page.                                     *)

Payloads == (0..2 * MaxAssistants + 1) \cup Greetings
AskKinds == Kinds \ {"none", "list"}

RequestRecord ==
  [kind : Kinds, of : 0..MaxAssistants, with : Payloads, was : 0..1,
   saw : [AssistantIds -> Documents], turn : Nat, ok : BOOLEAN, says : [AssistantIds -> Documents],
   greets : SUBSET (Greetings \X AssistantIds)]

\* What a request of each kind carries.
RequestOK(c) ==
  /\ c.kind = "none" => c = NoRequest
  /\ c.kind \in {"list", "create", "first"} /\ c.turn = 0 => c.of = 0
  /\ c.kind = "text" => c.with \in 0..2 * MaxAssistants + 1
  /\ c.kind \in {"on", "tier"} => c.with \in 0..1
  /\ c.kind = "drop" \/ (c.kind = "add" /\ c.turn > 0) => c.with \in Greetings
  /\ c.kind \in {"templates", "add", "drop", "preview", "text", "on", "tier", "delete"} => c.of # 0
  /\ c.ok => c.turn > 0
  /\ c.kind \in {"create", "first"} /\ c.turn > 0 => c.of # 0

EditorTypes ==
  /\ atServer \in [AssistantIds -> Documents] /\ assistants \in [AssistantIds -> Documents]
  /\ greetings \subseteq Greetings \X AssistantIds
  /\ shownTemplates \subseteq Greetings \X AssistantIds
  /\ everMade \in 0..MaxAssistants /\ selectedId \in 0..MaxAssistants
  /\ instructions \in 0..2 * MaxAssistants + 1 /\ modelTier \in 0..1
  /\ messages \subseteq AssistantIds
  /\ requests \in [Requests -> RequestRecord] /\ \A r \in Requests : RequestOK(requests[r])
  /\ stray \in BOOLEAN /\ spoilt \in BOOLEAN

Unserved == {r \in Requests : requests[r] # NoRequest /\ requests[r].turn = 0}

\* The server gets to each request once.
TurnsApart ==
  /\ served \in Nat /\ askings \in 0..MaxAskings
  /\ \A r \in Requests : requests[r].turn <= served
  /\ \A q, r \in Requests : q # r /\ requests[q].turn > 0 => requests[q].turn # requests[r].turn
  /\ served + Cardinality(Unserved) <= askings
-----------------------------------------------------------------------------
LEMMA NoAssistantIs ==
  /\ NoAssistant \in Documents /\ NoAssistant.tier = 0 /\ Nobody \in [AssistantIds -> Documents]
  /\ Among(Nobody) = {}
  /\ \A a \in AssistantIds : /\ Fresh(a) \in Documents /\ Fresh(a) # NoAssistant /\ Fresh(a).text \in TextsOf(a)
                             /\ TextsOf(a) \subseteq 0..2 * MaxAssistants + 1
  /\ \A a \in AssistantIds : \A d \in Documents : d.text \in TextsOf(a) => d # NoAssistant
<1>1. \A a \in AssistantIds : a \in Nat /\ 1 <= a /\ a <= MaxAssistants
  BY EditorAssumption DEF AssistantIds
<1>2. NoAssistant \in Documents /\ NoAssistant.tier = 0 /\ NoAssistant.text = 0
  BY EditorAssumption DEF NoAssistant, Documents
<1>3. Nobody \in [AssistantIds -> Documents] /\ Among(Nobody) = {}
  BY <1>2 DEF Nobody, Among
<1>4. ASSUME NEW a \in AssistantIds
      PROVE  /\ Fresh(a) \in Documents /\ Fresh(a) # NoAssistant /\ Fresh(a).text \in TextsOf(a)
             /\ TextsOf(a) \subseteq 0..2 * MaxAssistants + 1 /\ 0 \notin TextsOf(a)
  BY <1>1, EditorAssumption DEF Fresh, Documents, TextsOf, NoAssistant
<1>. QED
  BY <1>2, <1>3, <1>4

LEMMA NoRequestIs ==
  /\ NoRequest \in RequestRecord /\ RequestOK(NoRequest) /\ NoRequest.turn = 0 /\ ~NoRequest.ok
  /\ NoRequest.kind = "none" /\ NoRequest.of = 0 /\ NoRequest.greets = {}
BY NoAssistantIs, EditorAssumption DEF NoRequest, RequestRecord, RequestOK, Kinds, Payloads

\* The least of some numbers.
LEMMA LeastIs ==
  ASSUME NEW S \in SUBSET Nat, S # {}
  PROVE  \E a \in S : \A b \in S : a <= b
<1>1. PICK a \in S : \A b \in S : <<b, a>> \notin OpToRel(<, Nat)
  BY NatLessThanWellFounded, WFMin
<1>2. \A b \in S : ~(b < a)
  BY <1>1 DEF OpToRel
<1>. QED
  BY <1>2

\* The first of a list, and the one that is selected.
LEMMA SelectedIs ==
  ASSUME NEW list \in [AssistantIds -> Documents], NEW id \in 0..MaxAssistants
  PROVE  /\ FirstOf(list) \in 0..MaxAssistants /\ SelectedOf(list, id) \in 0..MaxAssistants
         /\ SelectedOf(list, id) # 0 <=> Among(list) # {}
         /\ SelectedOf(list, id) # 0 <=> SelectedOf(list, id) \in Among(list)
         /\ FirstOf(list) # 0 <=> FirstOf(list) \in Among(list)
         /\ FirstOf(list) # 0 <=> Among(list) # {}
         /\ id \in Among(list) => SelectedOf(list, id) = id
<1>1. Among(list) \in SUBSET Nat /\ Among(list) \subseteq AssistantIds /\ 0 \notin Among(list)
  BY EditorAssumption DEF Among, AssistantIds
<1>2. Among(list) # {} => FirstOf(list) \in Among(list)
  <2>1. SUFFICES ASSUME Among(list) # {} PROVE FirstOf(list) \in Among(list)
    OBVIOUS
  <2>2. \E a \in Among(list) : \A b \in Among(list) : a <= b
    BY <1>1, <2>1, LeastIs
  <2>. QED
    BY <2>1, <2>2 DEF FirstOf
<1>3. Among(list) = {} => FirstOf(list) = 0
  BY DEF FirstOf
<1>4. AssistantIds \subseteq 0..MaxAssistants /\ 0 \in 0..MaxAssistants
  BY EditorAssumption DEF AssistantIds
<1>. QED
  BY <1>1, <1>2, <1>3, <1>4 DEF SelectedOf

\* One more request.
NewRequest(kind, of, with) ==
  [NoRequest EXCEPT !.kind = kind, !.of = of, !.with = with, !.saw = assistants,
                    !.was = IF of \in Among(assistants) THEN assistants[of].tier ELSE 0]

LEMMA SentIs ==
  ASSUME NEW slots, NEW kind, NEW of, NEW with, Free(slots)
  PROVE  \E p \in Requests : slots[p] = NoRequest /\ Sent(slots, kind, of, with) = [slots EXCEPT ![p] = NewRequest(kind, of, with)]
<1>1. \E q \in Requests : slots[q] = NoRequest
  BY DEF Free
<1>2. PICK p : p = CHOOSE q \in Requests : slots[q] = NoRequest
  OBVIOUS
<1>3. p \in Requests /\ slots[p] = NoRequest
  BY <1>1, <1>2
<1>4. Sent(slots, kind, of, with) = [slots EXCEPT ![p] = NewRequest(kind, of, with)]
  BY <1>2 DEF Sent, NewRequest
<1>. QED
  BY <1>3, <1>4

LEMMA NewRequestIs ==
  ASSUME EditorTypes, NEW kind \in AskKinds, NEW of \in 0..MaxAssistants,
         NEW with \in Payloads
  PROVE  /\ NewRequest(kind, of, with) \in RequestRecord
         /\ NewRequest(kind, of, with).kind = kind /\ kind \notin {"none", "list"}
         /\ NewRequest(kind, of, with).of = of
         /\ NewRequest(kind, of, with).with = with /\ NewRequest(kind, of, with).turn = 0
         /\ ~NewRequest(kind, of, with).ok /\ NewRequest(kind, of, with) # NoRequest
         /\ NewRequest(kind, of, with).greets = {}
         /\ of \in Among(assistants) => NewRequest(kind, of, with).was = assistants[of].tier
<1>1. assistants \in [AssistantIds -> Documents]
  BY DEF EditorTypes
<1> DEFINE was == IF of \in Among(assistants) THEN assistants[of].tier ELSE 0
<1>2. was \in 0..1
  BY <1>1 DEF Among, Documents
<1> DEFINE new == NewRequest(kind, of, with)
<1>3. new = [NoRequest EXCEPT !.kind = kind, !.of = of, !.with = with, !.saw = assistants, !.was = was]
  BY DEF NewRequest
<1>. HIDE DEF was, new
<1>4. NoRequest \in RequestRecord
  BY NoRequestIs
<1>5. /\ new \in RequestRecord /\ new.kind = kind /\ new.of = of /\ new.with = with /\ new.was = was
      /\ new.turn = NoRequest.turn /\ new.ok = NoRequest.ok /\ new.greets = NoRequest.greets
  BY <1>1, <1>2, <1>3, <1>4 DEF RequestRecord, AskKinds
<1>. QED
  BY <1>5, NoRequestIs DEF was, new, AskKinds

\* What a step that serves nothing leaves of the requests: all but those that
\* are over, and perhaps one more, of an assistant on the page.
Without(D) == [q \in Requests |-> IF q \in D THEN NoRequest ELSE requests[q]]

Due(kind, of, with) ==
  /\ IF kind \in {"create", "first"} THEN of = 0 ELSE of \in Among(assistants')
  /\ kind = "text" => with = instructions /\ of = selected /\ (stray => spoilt')
  /\ kind \in {"on", "tier"} => with \in 0..1
  /\ kind = "drop" => with \in Greetings
  /\ kind = "tier" => \A r \in Requests : requests[r].kind # "tier"
  /\ kind \in {"text", "on", "tier"} => assistants' = assistants

Leave(D) ==
  \/ requests' = Without(D) /\ askings' = askings
  \/ \E p \in Requests, kind \in AskKinds, of \in 0..MaxAssistants,
        with \in Payloads :
       /\ Without(D)[p] = NoRequest
       /\ requests' = [Without(D) EXCEPT ![p] = NewRequest(kind, of, with)]
       /\ askings < MaxAskings /\ askings' = askings + 1
       /\ Due(kind, of, with)

LEMMA AskIs ==
  ASSUME EditorTypes, NEW kind \in AskKinds, NEW of \in 0..MaxAssistants,
         NEW with \in Payloads, Ask(kind, of, with), Due(kind, of, with)
  PROVE  Leave({})
<1>0. Without({}) = requests
  BY DEF Without, EditorTypes
<1>1. PICK p \in Requests : requests[p] = NoRequest /\ requests' = [requests EXCEPT ![p] = NewRequest(kind, of, with)]
  BY SentIs DEF Ask
<1>. QED
  BY <1>0, <1>1 DEF Ask, Leave

LEMMA LeaveIs ==
  ASSUME EditorTypes, NEW D \in SUBSET Requests, Leave(D)
  PROVE  /\ requests' \in [Requests -> RequestRecord] /\ \A q \in Requests : RequestOK(requests'[q])
         /\ askings \in 0..MaxAskings => askings' \in 0..MaxAskings
         /\ \A q \in Requests :
              \/ q \notin D /\ requests'[q] = requests[q]
              \/ q \in D /\ requests'[q] = NoRequest
              \/ /\ q \in D \/ requests[q] = NoRequest
                 /\ \E kind \in AskKinds, of \in 0..MaxAssistants,
                       with \in Payloads :
                      requests'[q] = NewRequest(kind, of, with) /\ Due(kind, of, with)
<1> DEFINE slots == Without(D)
<1>1. slots \in [Requests -> RequestRecord] /\ \A q \in Requests : RequestOK(slots[q])
  <2>1. requests \in [Requests -> RequestRecord] /\ \A q \in Requests : RequestOK(requests[q])
    BY DEF EditorTypes
  <2>. QED
    BY <2>1, NoRequestIs DEF Without
<1>2. CASE requests' = slots /\ askings' = askings
  BY <1>1, <1>2 DEF Without
<1>3. CASE ~(requests' = slots /\ askings' = askings)
  <2>0. PICK p \in Requests, kind \in AskKinds, of \in 0..MaxAssistants, with \in Payloads :
          /\ slots[p] = NoRequest /\ requests' = [slots EXCEPT ![p] = NewRequest(kind, of, with)]
          /\ askings < MaxAskings /\ askings' = askings + 1
          /\ Due(kind, of, with)
    BY <1>3 DEF Leave
  <2> DEFINE c == NewRequest(kind, of, with)
  <2>1. /\ c \in RequestRecord /\ c.kind = kind /\ c.of = of /\ c.with = with /\ c.turn = 0 /\ ~c.ok
        /\ kind # "none" /\ kind # "list"
    BY NewRequestIs
  <2>2. RequestOK(c)
    <3>1. instructions \in 0..2 * MaxAssistants + 1
      BY DEF EditorTypes
    <3>2. 0 \notin AssistantIds /\ Among(assistants') \subseteq AssistantIds
      BY EditorAssumption DEF Among, AssistantIds
    <3>. HIDE DEF c
    <3>3. kind \in {"create", "first"} => of = 0
      BY <2>0 DEF Due
    <3>4. kind \notin {"create", "first"} => of # 0
      BY <2>0, <3>2 DEF Due
    <3>5. /\ kind = "text" => with \in 0..2 * MaxAssistants + 1
          /\ kind \in {"on", "tier"} => with \in 0..1
          /\ kind = "drop" => with \in Greetings
      BY <2>0, <3>1 DEF Due
    <3>. QED
      BY <2>1, <3>3, <3>4, <3>5 DEF RequestOK
  <2>. HIDE DEF c
  <2>3. requests' \in [Requests -> RequestRecord] /\ requests'[p] = c /\ \A q \in Requests : q # p => requests'[q] = slots[q]
    BY <1>1, <2>0, <2>1 DEF c
  <2>4. \A q \in Requests : RequestOK(requests'[q])
    BY <1>1, <2>2, <2>3
  <2>5. askings \in 0..MaxAskings => askings' \in 0..MaxAskings
    BY <2>0, EditorAssumption
  <2>6. p \in D \/ requests[p] = NoRequest
    BY <2>0 DEF Without
  <2>. QED
    BY <2>0, <2>3, <2>4, <2>5, <2>6 DEF c, Without
<1>. QED
  BY <1>2, <1>3

\* No more is served than was asked for.
LEMMA UnservedIs ==
  ASSUME EditorTypes
  PROVE  IsFiniteSet(Unserved) /\ Cardinality(Unserved) \in Nat
<1>1. Unserved \in SUBSET Requests
  BY DEF Unserved
<1>. QED
  BY <1>1, EditorAssumption, FS_Subset, FS_CardinalityType

LEMMA LeaveInTurn ==
  ASSUME EditorTypes, TurnsApart, NEW D \in SUBSET Requests, Leave(D), served' = served
  PROVE  TurnsApart'
<1> DEFINE slots == Without(D)
<1>1. /\ requests' \in [Requests -> RequestRecord] /\ askings' \in 0..MaxAskings
      /\ \A q \in Requests :
           \/ q \notin D /\ requests'[q] = requests[q]
           \/ q \in D /\ requests'[q] = NoRequest
           \/ /\ q \in D \/ requests[q] = NoRequest
              /\ \E kind \in AskKinds, of \in 0..MaxAssistants,
                    with \in Payloads :
                   requests'[q] = NewRequest(kind, of, with) /\ Due(kind, of, with)
  BY LeaveIs DEF TurnsApart
<1>2. \A q \in Requests : requests'[q].turn = 0 \/ requests'[q] = requests[q]
  <2>1. ASSUME NEW kind \in AskKinds, NEW of \in 0..MaxAssistants, NEW with \in Payloads
        PROVE  NewRequest(kind, of, with).turn = 0
    BY NewRequestIs
  <2>. QED
    BY <1>1, <2>1, NoRequestIs
<1>3. /\ served \in Nat /\ \A r \in Requests : requests[r].turn <= served
      /\ \A q, r \in Requests : q # r /\ requests[q].turn > 0 => requests[q].turn # requests[r].turn
      /\ \A r \in Requests : requests[r].turn \in Nat
      /\ served + Cardinality(Unserved) <= askings /\ askings \in Nat
  BY EditorAssumption DEF TurnsApart, EditorTypes, RequestRecord
<1>4. \A r \in Requests : requests'[r].turn <= served /\ requests'[r].turn \in Nat
  BY <1>2, <1>3
<1>5. \A q, r \in Requests : q # r /\ requests'[q].turn > 0 => requests'[q].turn # requests'[r].turn
  BY <1>2, <1>3, <1>4
<1>6. served + Cardinality(Unserved') <= askings'
  <2>1. CASE requests' = slots /\ askings' = askings
    <3>1. Unserved' \subseteq Unserved
      BY <2>1 DEF Unserved, Without
    <3>2. Cardinality(Unserved') <= Cardinality(Unserved) /\ Cardinality(Unserved') \in Nat
      BY <3>1, UnservedIs, FS_Subset, FS_CardinalityType
    <3>. QED
      BY <1>3, <2>1, <3>2, UnservedIs
  <2>2. CASE ~(requests' = slots /\ askings' = askings)
    <3>1. PICK p \in Requests, kind \in AskKinds, of \in 0..MaxAssistants, with \in Payloads :
            /\ requests' = [slots EXCEPT ![p] = NewRequest(kind, of, with)]
            /\ askings' = askings + 1
      BY <2>2 DEF Leave
    <3>2. \A q \in Requests : q # p => requests'[q] = slots[q]
      BY <3>1
    <3>3. Unserved' \subseteq Unserved \cup {p}
      BY <3>2 DEF Unserved, Without
    <3>4. IsFiniteSet(Unserved \cup {p}) /\ Cardinality(Unserved \cup {p}) <= Cardinality(Unserved) + 1
      <4>1. /\ IsFiniteSet(Unserved \cup {p})
            /\ Cardinality(Unserved \cup {p}) = IF p \in Unserved THEN Cardinality(Unserved) ELSE Cardinality(Unserved) + 1
        BY UnservedIs, FS_AddElement
      <4>. QED
        BY <4>1, UnservedIs
    <3>5. Cardinality(Unserved') <= Cardinality(Unserved \cup {p}) /\ Cardinality(Unserved') \in Nat
          /\ Cardinality(Unserved \cup {p}) \in Nat
      BY <3>3, <3>4, FS_Subset, FS_CardinalityType
    <3>. QED
      BY <1>3, <3>1, <3>4, <3>5, UnservedIs
  <2>. QED
    BY <2>1, <2>2
<1>. QED
  BY <1>1, <1>3, <1>4, <1>5, <1>6 DEF TurnsApart

\* What another list or selection does to the page.
LEMMA ShowIs ==
  ASSUME EditorTypes, NEW list \in [AssistantIds -> Documents], NEW id \in 0..MaxAssistants,
         NEW text, NEW tier,
         NEW slots, NEW D \in SUBSET Requests, slots = Without(D), Show(list, id, text, tier, slots)
  PROVE  /\ Leave(D) /\ assistants' = list /\ selectedId' = id /\ instructions' = text
         /\ selected' = SelectedOf(list, id)
         /\ selected' = selected => modelTier' = tier /\ (selected' # 0 => shownTemplates' = shownTemplates)
         /\ selected' = 0 => modelTier' = tier /\ shownTemplates' = {}
         /\ selected' # selected /\ selected' # 0 =>
              /\ modelTier' = list[selected'].tier /\ shownTemplates' = shownTemplates
              /\ \E p \in Requests :
                   requests'[p].kind = "templates" /\ requests'[p].of = selected' /\ requests'[p].turn = 0
<1>1. assistants' = list /\ selectedId' = id /\ instructions' = text /\ selected' = SelectedOf(list, id)
  BY DEF Show, selected
<1>2. CASE selected' = selected \/ selected' = 0
  BY <1>1, <1>2 DEF Show, Leave
<1>3. CASE selected' # selected /\ selected' # 0
  <2>1. PICK now : now = selected'
    OBVIOUS
  <2>2. /\ modelTier' = list[now].tier /\ shownTemplates' = shownTemplates
        /\ askings < MaxAskings /\ askings' = askings + 1
        /\ Free(slots) /\ requests' = Sent(slots, "templates", now, 0)
    BY <1>1, <1>3, <2>1 DEF Show
  <2>3. PICK p \in Requests : slots[p] = NoRequest /\ requests' = [slots EXCEPT ![p] = NewRequest("templates", now, 0)]
    BY <2>2, SentIs
  <2>4. now \in Among(assistants') /\ now \in 0..MaxAssistants
    BY <1>1, <1>3, <2>1, SelectedIs
  <2>5. "templates" \in AskKinds /\ 0 \in Payloads
    BY EditorAssumption DEF AskKinds, Kinds, Payloads
  <2>6. Due("templates", now, 0)
    BY <2>4 DEF Due
  <2>7. Leave(D)
    BY <2>2, <2>3, <2>4, <2>5, <2>6 DEF Leave
  <2>8. requests'[p] = NewRequest("templates", now, 0)
    BY <2>3 DEF Without
  <2>9. requests'[p].kind = "templates" /\ requests'[p].of = now /\ requests'[p].turn = 0
    BY <2>4, <2>5, <2>8, NewRequestIs
  <2>. QED
    BY <1>1, <1>3, <2>1, <2>2, <2>7, <2>9
<1>. QED
  BY <1>1, <1>2, <1>3

LEMMA RestIs ==
  ASSUME EditorTypes
  PROVE  /\ Without({}) = requests /\ \A r \in Requests : Rest(r) = Without({r})
BY DEF EditorTypes, Without, Rest

LEMMA TypesLeave ==
  ASSUME EditorTypes, NEW D \in SUBSET Requests, Leave(D), UNCHANGED remoteVars,
         assistants' \in [AssistantIds -> Documents], selectedId' \in 0..MaxAssistants,
         instructions' \in 0..2 * MaxAssistants + 1, modelTier' \in 0..1,
         shownTemplates' \subseteq Greetings \X AssistantIds, messages' \subseteq AssistantIds,
         stray' \in BOOLEAN, spoilt' \in BOOLEAN
  PROVE  EditorTypes'
BY LeaveIs DEF EditorTypes, remoteVars
-----------------------------------------------------------------------------
Changes == {"first", "create", "text", "on", "tier", "delete"}
Patches == {"text", "on", "tier"}

\* The answers that tell of an assistant.
Tells(c, a) == c.turn > 0 /\ c.ok /\ (c.kind = "list" \/ (c.kind \in Changes /\ c.of = a))
Tellers(a) == {r \in Requests : Tells(requests[r], a)}
ListAwaited == \E r \in Requests : requests[r].kind = "list" /\ requests[r].turn = 0

\* The page has what the server has, but for what the answers under way tell.
LatestIsKept(a) ==
  /\ Tellers(a) = {} => \/ assistants[a] = atServer[a]
                        \/ assistants[a] = NoAssistant /\ ListAwaited
  /\ \A r \in Tellers(a) : (\A q \in Tellers(a) : requests[q].turn <= requests[r].turn)
       => requests[r].says[a] = atServer[a]

\* What an answer assumes of the assistant as the one before it leaves it.
Fits(v, c, a) ==
  /\ c.kind = "list" => v = c.says[a]
  /\ c.kind \in Patches => v # NoAssistant
  /\ c.kind # "tier" /\ v # NoAssistant /\ c.says[a] # NoAssistant => v.tier = c.says[a].tier

EachFits(a) ==
  \A r \in Tellers(a) :
    /\ (\A q \in Tellers(a) : requests[q].turn >= requests[r].turn)
         => \/ Fits(assistants[a], requests[r], a)
            \/ requests[r].kind = "list" /\ assistants[a] = NoAssistant
    /\ \A q \in Tellers(a) :
         (/\ requests[q].turn < requests[r].turn
          /\ \A k \in Tellers(a) : requests[k].turn <= requests[q].turn \/ requests[k].turn >= requests[r].turn)
         => Fits(requests[q].says[a], requests[r], a)

\* What was deleted does not come back.
Gone(a) == atServer[a] = NoAssistant /\ a <= everMade
DeadStayDead(a) ==
  /\ \A d \in Tellers(a) : requests[d].kind = "delete" =>
       /\ Gone(a)
       /\ \A q \in Tellers(a) : requests[q].turn >= requests[d].turn => requests[q].says[a] = NoAssistant
  /\ \A r \in Requests : requests[r].kind \in Patches /\ requests[r].turn = 0 /\ requests[r].of = a
       => \/ assistants[a] # NoAssistant
          \/ Gone(a) /\ \A q \in Tellers(a) : requests[q].says[a] = NoAssistant

TierAsked ==
  \A r \in Requests : requests[r].kind = "tier" =>
    /\ \A q \in Requests : requests[q].kind = "tier" => q = r
    /\ requests[r].turn = 0 /\ requests[r].of \in Among(assistants)
         => requests[r].was = assistants[requests[r].of].tier

TextsApart ==
  /\ \A a \in Among(atServer) : atServer[a].text \in TextsOf(a)
  /\ \A a \in Among(assistants) : assistants[a].text \in TextsOf(a)
  /\ \A r \in Requests : requests[r].turn > 0 =>
       \A a \in Among(requests[r].says) : requests[r].says[a].text \in TextsOf(a)
  /\ \A r \in Requests : requests[r].kind = "text" => requests[r].with \in TextsOf(requests[r].of)

\* Assistants are numbered as they are made.
NumbersInv ==
  /\ \A a \in Among(atServer) \cup Among(assistants) : a <= everMade
  /\ \A r \in Requests : requests[r].of <= everMade
  /\ \A r \in Requests : requests[r].turn > 0 => \A a \in Among(requests[r].says) : a <= everMade

SaysInv ==
  \A r \in Requests : requests[r].turn > 0 /\ requests[r].ok =>
    /\ requests[r].of \in AssistantIds \/ requests[r].kind = "list"
    /\ requests[r].kind \in {"text", "on", "tier", "create", "first"} => requests[r].of \in Among(requests[r].says)
    /\ requests[r].kind = "delete" => requests[r].says[requests[r].of] = NoAssistant
    /\ requests[r].kind \in Changes => \A a \in Among(requests[r].says) : a = requests[r].of

TextIsTheirs == ~stray /\ selected # 0 => instructions \in TextsOf(selected)
TierShown ==
  selected # 0 /\ (\A r \in Requests : requests[r].kind # "tier") => modelTier = assistants[selected].tier

AnswersInv ==
  /\ \A a \in AssistantIds : LatestIsKept(a) /\ EachFits(a) /\ DeadStayDead(a)
  /\ TierAsked /\ TextsApart /\ NumbersInv /\ SaysInv
  /\ TextIsTheirs /\ TierShown

\* The same of the templates of the assistant that is selected.
Shows(c, s, t) ==
  c.turn > 0 /\ c.ok /\ c.of = s /\ (c.kind = "templates" \/ (c.kind \in {"add", "drop"} /\ c.with = t))
Showers(s, t) == {r \in Requests : Shows(requests[r], s, t)}
ShownBy(c, s, t) == c.kind = "add" \/ (c.kind = "templates" /\ <<t, s>> \in c.greets)

TemplatesAre(s) ==
  /\ s = 0 => shownTemplates = {}
  /\ s # 0 /\ (\A r \in Requests : requests[r].kind = "templates" => requests[r].of # s)
       => \A g \in shownTemplates : g[2] = s
  /\ s # 0 /\ s \in Among(atServer)
     /\ (\A r \in Requests : requests[r].kind = "templates" /\ requests[r].of = s => requests[r].turn > 0)
       => \A t \in Greetings :
            /\ Showers(s, t) = {} => (<<t, s>> \in shownTemplates <=> <<t, s>> \in greetings)
            /\ \A r \in Showers(s, t) : (\A q \in Showers(s, t) : requests[q].turn <= requests[r].turn)
                 => (ShownBy(requests[r], s, t) <=> <<t, s>> \in greetings)

TemplatesInv ==
  /\ TemplatesAre(selected)
  /\ \A r \in Requests : \A g \in requests[r].greets : g[2] = requests[r].of

EditorInv ==
  /\ EditorTypes /\ TurnsApart
  /\ ~spoilt => AnswersInv /\ TemplatesInv /\ messages \subseteq {selected}
-----------------------------------------------------------------------------
\* What the page takes over, when nothing is served: each answer in its turn.
Follows(D) ==
  /\ Leave(D) /\ UNCHANGED <<remoteVars, served>> /\ assistants' \in [AssistantIds -> Documents]
  /\ \A q, r \in D : q = r
  /\ \A r \in D : requests[r].turn = 0 => requests[r].kind # "list"
  /\ \A a \in AssistantIds : /\ D \cap Tellers(a) = {} => assistants'[a] = assistants[a]
                             /\ \A r \in D \cap Tellers(a) :
                                  /\ assistants'[a] = requests[r].says[a]
                                  /\ \A q \in Tellers(a) : requests[q].turn >= requests[r].turn

\* The answers under way are those that were, without the one that came.
LEMMA TellersLeave ==
  ASSUME EditorTypes, NEW D \in SUBSET Requests, Leave(D), NEW a \in AssistantIds
  PROVE  /\ Tellers(a)' = Tellers(a) \ D
         /\ \A r \in Tellers(a)' : requests'[r] = requests[r]
<1>1. \A r \in Requests : (r \notin D /\ requests'[r] = requests[r]) \/ (requests'[r].turn = 0 /\ (r \in D \/ requests[r].turn = 0))
  BY LeaveIs, NoRequestIs, NewRequestIs
<1>. QED
  BY <1>1 DEF Tellers, Tells

LEMMA TurnsAre ==
  ASSUME EditorTypes, TurnsApart
  PROVE  /\ served \in Nat /\ \A r \in Requests : requests[r].turn \in Nat /\ requests[r].turn <= served
         /\ \A q, r \in Requests : requests[q].turn > 0 /\ requests[r].turn = requests[q].turn => q = r
         /\ \A a : \A r \in Tellers(a) : r \in Requests /\ requests[r].turn > 0
<1>1. \A r \in Requests : requests[r].turn \in Nat
  BY DEF EditorTypes, RequestRecord
<1>. QED
  BY <1>1 DEF TurnsApart, Tellers, Tells

LEMMA LatestLeaves ==
  ASSUME EditorTypes, TurnsApart, NEW D \in SUBSET Requests, Follows(D), NEW a \in AssistantIds,
         LatestIsKept(a)
  PROVE  LatestIsKept(a)'
<1>1. Leave(D) /\ atServer' = atServer
  BY DEF Follows, remoteVars
<1>2. Tellers(a)' = Tellers(a) \ D /\ \A r \in Tellers(a)' : requests'[r] = requests[r]
  BY <1>1, TellersLeave
<1>3. ListAwaited => ListAwaited'
  <2>1. ASSUME NEW r \in Requests, requests[r].kind = "list", requests[r].turn = 0
        PROVE  requests'[r] = requests[r]
    <3>1. r \notin D
      BY <2>1 DEF Follows
    <3>2. requests[r] # NoRequest
      BY <2>1, NoRequestIs
    <3>. QED
      BY <1>1, <3>1, <3>2, LeaveIs
  <2>. QED
    BY <2>1 DEF ListAwaited
<1>4. CASE D \cap Tellers(a) = {}
  <2>1. Tellers(a)' = Tellers(a) /\ assistants'[a] = assistants[a]
    BY <1>2, <1>4 DEF Follows
  <2>. QED
    BY <1>1, <1>2, <1>3, <2>1 DEF LatestIsKept
<1>5. ASSUME NEW r \in D \cap Tellers(a) PROVE LatestIsKept(a)'
  <2>1. /\ assistants'[a] = requests[r].says[a] /\ \A q \in Tellers(a) : requests[q].turn >= requests[r].turn
        /\ Tellers(a)' = Tellers(a) \ {r}
    BY <1>2, <1>5 DEF Follows
  <2>2. Tellers(a)' = {} => assistants'[a] = atServer[a]
    <3>1. SUFFICES ASSUME Tellers(a)' = {} PROVE requests[r].says[a] = atServer[a]
      BY <2>1
    <3>2. \A q \in Tellers(a) : q = r /\ requests[q].turn <= requests[r].turn
      BY <1>5, <2>1, <3>1, TurnsAre
    <3>. QED
      BY <1>5, <3>2 DEF LatestIsKept
  <2>3. ASSUME NEW k \in Tellers(a)', \A q \in Tellers(a)' : requests'[q].turn <= requests'[k].turn
        PROVE  requests'[k].says[a] = atServer[a]
    <3>1. requests'[k] = requests[k] /\ k \in Tellers(a) /\ \A q \in Tellers(a) : requests[q].turn <= requests[k].turn
      BY <1>2, <2>1, <2>3
    <3>. QED
      BY <3>1 DEF LatestIsKept
  <2>. QED
    BY <1>1, <2>2, <2>3 DEF LatestIsKept
<1>. QED
  BY <1>4, <1>5

LEMMA FitsLeave ==
  ASSUME EditorTypes, TurnsApart, NEW D \in SUBSET Requests, Follows(D), NEW a \in AssistantIds,
         EachFits(a)
  PROVE  EachFits(a)'
<1>1. Leave(D)
  BY DEF Follows
<1>2. Tellers(a)' = Tellers(a) \ D /\ \A r \in Tellers(a)' : requests'[r] = requests[r]
  BY <1>1, TellersLeave
<1>. DEFINE Between(q, r) == {k \in Tellers(a) : ~(requests[k].turn <= requests[q].turn \/ requests[k].turn >= requests[r].turn)}
<1>3. /\ \A r \in Tellers(a) : (\A q \in Tellers(a) : requests[q].turn >= requests[r].turn)
           => \/ Fits(assistants[a], requests[r], a)
              \/ requests[r].kind = "list" /\ assistants[a] = NoAssistant
      /\ \A r, q \in Tellers(a) : requests[q].turn < requests[r].turn /\ Between(q, r) = {}
           => Fits(requests[q].says[a], requests[r], a)
  BY DEF EachFits
<1>4. CASE D \cap Tellers(a) = {}
  <2>1. Tellers(a)' = Tellers(a) /\ assistants'[a] = assistants[a]
    BY <1>2, <1>4 DEF Follows
  <2>2. ASSUME NEW r \in Tellers(a)', \A q \in Tellers(a)' : requests'[q].turn >= requests'[r].turn
        PROVE  Fits(assistants'[a], requests'[r], a) \/ (requests'[r].kind = "list" /\ assistants'[a] = NoAssistant)
    BY <1>2, <1>3, <2>1, <2>2
  <2>3. ASSUME NEW r \in Tellers(a)', NEW q \in Tellers(a)', requests'[q].turn < requests'[r].turn,
               \A k \in Tellers(a)' : requests'[k].turn <= requests'[q].turn \/ requests'[k].turn >= requests'[r].turn
        PROVE  Fits(requests'[q].says[a], requests'[r], a)
    <3>1. Between(q, r) = {} /\ requests'[r] = requests[r] /\ requests'[q] = requests[q]
      BY <1>2, <2>1, <2>3
    <3>. QED
      BY <1>3, <2>1, <2>3, <3>1
  <2>. QED
    BY <2>2, <2>3 DEF EachFits, Fits
<1>5. ASSUME NEW e \in D \cap Tellers(a) PROVE EachFits(a)'
  <2>1. /\ assistants'[a] = requests[e].says[a] /\ \A q \in Tellers(a) : requests[q].turn >= requests[e].turn
        /\ Tellers(a)' = Tellers(a) \ {e}
    BY <1>2, <1>5 DEF Follows
  <2>2. ASSUME NEW r \in Tellers(a)', \A q \in Tellers(a)' : requests'[q].turn >= requests'[r].turn
        PROVE  Fits(assistants'[a], requests'[r], a)
    <3>1. r \in Tellers(a) /\ r # e /\ requests'[r] = requests[r]
      BY <1>2, <2>1
    <3>2. requests[e].turn < requests[r].turn
      BY <2>1, <3>1, TurnsAre
    <3>3. Between(e, r) = {}
      BY <1>2, <2>1, <2>2, TurnsAre
    <3>. QED
      BY <1>3, <2>1, <3>1, <3>2, <3>3
  <2>3. ASSUME NEW r \in Tellers(a)', NEW q \in Tellers(a)', requests'[q].turn < requests'[r].turn,
               \A k \in Tellers(a)' : requests'[k].turn <= requests'[q].turn \/ requests'[k].turn >= requests'[r].turn
        PROVE  Fits(requests'[q].says[a], requests'[r], a)
    <3>1. /\ q \in Tellers(a) /\ r \in Tellers(a) /\ requests'[r] = requests[r]
          /\ requests'[q] = requests[q]
      BY <1>2, <2>1
    <3>2. Between(q, r) = {}
      BY <1>2, <2>1, <2>3, <3>1, TurnsAre
    <3>. QED
      BY <1>3, <2>3, <3>1, <3>2
  <2>. QED
    BY <2>2, <2>3 DEF EachFits, Fits
<1>. QED
  BY <1>4, <1>5

\* An answer that says nothing of an assistant on the page tells of its removal.
LEMMA RemovalIs ==
  ASSUME EditorTypes, TurnsApart, SaysInv, NEW a \in AssistantIds, EachFits(a),
         NEW e \in Tellers(a),
         \A q \in Tellers(a) : requests[q].turn >= requests[e].turn,
         assistants[a] # NoAssistant, requests[e].says[a] = NoAssistant
  PROVE  requests[e].kind = "delete"
<1>1. Fits(assistants[a], requests[e], a)
  BY DEF EachFits
<1>2. requests[e].kind # "list" /\ requests[e].kind \notin Patches
  <2>1. requests[e].kind \in Patches => requests[e].of = a
    BY DEF Tellers, Tells, Patches
  <2>2. requests[e].kind \in Patches => requests[e].of \in Among(requests[e].says)
    BY DEF SaysInv, Tellers, Tells, Patches
  <2>. QED
    BY <1>1, <2>1, <2>2 DEF Fits, Among
<1>3. requests[e].kind \notin {"create", "first"}
  BY DEF SaysInv, Tellers, Tells, Among
<1>. QED
  BY <1>2, <1>3 DEF Tellers, Tells, Changes, Patches

LEMMA DeadLeaves ==
  ASSUME EditorTypes, TurnsApart, SaysInv, NEW D \in SUBSET Requests, Follows(D),
         NEW a \in AssistantIds,
         EachFits(a), DeadStayDead(a)
  PROVE  DeadStayDead(a)'
<1>1. Leave(D) /\ atServer' = atServer /\ everMade' = everMade
  BY DEF Follows, remoteVars
<1>2. Tellers(a)' = Tellers(a) \ D /\ \A r \in Tellers(a)' : requests'[r] = requests[r]
  BY <1>1, TellersLeave
<1>3. Gone(a) => Gone(a)'
  BY <1>1 DEF Gone
<1>4. ASSUME NEW d \in Tellers(a)', requests'[d].kind = "delete"
      PROVE  Gone(a)' /\ \A q \in Tellers(a)' : requests'[q].turn >= requests'[d].turn => requests'[q].says[a] = NoAssistant
  <2>1. d \in Tellers(a) /\ requests'[d] = requests[d]
    BY <1>2
  <2>2. Gone(a) /\ \A q \in Tellers(a) : requests[q].turn >= requests[d].turn => requests[q].says[a] = NoAssistant
    BY <1>4, <2>1 DEF DeadStayDead
  <2>. QED
    BY <1>2, <1>3, <2>1, <2>2
<1>5. ASSUME NEW r \in Requests, requests'[r].kind \in Patches, requests'[r].turn = 0,
             requests'[r].of = a
      PROVE  \/ assistants'[a] # NoAssistant
             \/ Gone(a)' /\ \A q \in Tellers(a)' : requests'[q].says[a] = NoAssistant
  <2>1. CASE requests'[r] = requests[r]
    <3>1. CASE assistants[a] = NoAssistant
      <4>1. Gone(a) /\ \A q \in Tellers(a) : requests[q].says[a] = NoAssistant
        BY <1>5, <2>1, <3>1 DEF DeadStayDead
      <4>. QED
        BY <1>2, <1>3, <4>1
    <3>2. CASE D \cap Tellers(a) = {} /\ assistants[a] # NoAssistant
      BY <3>2 DEF Follows
    <3>3. ASSUME assistants[a] # NoAssistant, NEW e \in D \cap Tellers(a),
                 assistants'[a] = NoAssistant
          PROVE  Gone(a)' /\ \A q \in Tellers(a)' : requests'[q].says[a] = NoAssistant
      <4>1. requests[e].says[a] = NoAssistant /\ \A q \in Tellers(a) : requests[q].turn >= requests[e].turn
        BY <3>3 DEF Follows
      <4>2. requests[e].kind = "delete"
        BY <3>3, <4>1, RemovalIs
      <4>3. Gone(a) /\ \A q \in Tellers(a) : requests[q].says[a] = NoAssistant
        BY <4>1, <4>2 DEF DeadStayDead
      <4>. QED
        BY <1>2, <1>3, <4>3
    <3>. QED
      BY <3>1, <3>2, <3>3
  <2>2. CASE requests'[r] # requests[r]
    <3>1. requests'[r].kind # "none"
      BY <1>5 DEF Patches
    <3>2. PICK kind \in AskKinds, of \in 0..MaxAssistants, with \in Payloads :
            requests'[r] = NewRequest(kind, of, with) /\ Due(kind, of, with)
      BY <1>1, <2>2, <3>1, LeaveIs, NoRequestIs
    <3>3. kind \in Patches /\ of = a
      BY <1>5, <3>2, NewRequestIs
    <3>. QED
      BY <3>2, <3>3 DEF Due, Among, Patches
  <2>. QED
    BY <2>1, <2>2
<1>. QED
  BY <1>4, <1>5 DEF DeadStayDead

LEMMA TierLeaves ==
  ASSUME EditorTypes, TurnsApart, NEW D \in SUBSET Requests, Follows(D), TierAsked,
         \A a \in AssistantIds : EachFits(a) /\ DeadStayDead(a)
  PROVE  TierAsked'
<1>1. Leave(D)
  BY DEF Follows
<1>2. ASSUME NEW r \in Requests, requests'[r].kind = "tier", NEW q \in Requests,
             requests'[q].kind = "tier"
      PROVE  q = r
  <2>1. CASE requests' = Without(D)
    <3>1. requests[r].kind = "tier" /\ requests[q].kind = "tier"
      BY <1>2, <2>1, NoRequestIs DEF Without
    <3>. QED
      BY <3>1 DEF TierAsked
  <2>2. CASE requests' # Without(D)
    <3>1. PICK p \in Requests, kind \in AskKinds, of \in 0..MaxAssistants, with \in Payloads :
            requests' = [Without(D) EXCEPT ![p] = NewRequest(kind, of, with)] /\ Due(kind, of, with)
      BY <1>1, <2>2 DEF Leave
    <3>2. requests'[p] = NewRequest(kind, of, with) /\ \A k \in Requests : k # p => requests'[k] \in {NoRequest, requests[k]}
      BY <3>1 DEF Without
    <3>3. requests'[p].kind = kind
      BY <3>2, NewRequestIs
    <3>4. \A k \in {q, r} : k # p => requests[k].kind = "tier"
      BY <1>2, <3>2, NoRequestIs
    <3>5. kind = "tier" => \A k \in Requests : requests[k].kind # "tier"
      BY <3>1 DEF Due
    <3>. QED
      BY <1>2, <3>3, <3>4, <3>5 DEF TierAsked
  <2>. QED
    BY <2>1, <2>2
<1>3. ASSUME NEW r \in Requests, requests'[r].kind = "tier", requests'[r].turn = 0,
             requests'[r].of \in Among(assistants')
      PROVE  requests'[r].was = assistants'[requests'[r].of].tier
  <2> DEFINE a == requests'[r].of
  <2>0. a \in AssistantIds /\ assistants'[a] # NoAssistant
    BY <1>3 DEF Among
  <2>1. CASE requests'[r] = requests[r]
    <3>1. requests[r].kind = "tier" /\ requests[r].turn = 0 /\ requests[r].of = a
      BY <1>3, <2>1
    <3>. HIDE DEF a
    <3>2. CASE D \cap Tellers(a) = {}
      <4>1. assistants'[a] = assistants[a]
        BY <2>0, <3>2 DEF Follows
      <4>. QED
        BY <2>0, <2>1, <3>1, <4>1 DEF TierAsked, Among, a
    <3>3. ASSUME NEW e \in D \cap Tellers(a) PROVE requests[r].was = assistants'[a].tier
      <4>1. assistants'[a] = requests[e].says[a] /\ \A q \in Tellers(a) : requests[q].turn >= requests[e].turn
        BY <2>0, <3>3 DEF Follows
      <4>2. assistants[a] # NoAssistant
        BY <2>0, <3>1, <4>1 DEF DeadStayDead, Patches
      <4>3. Fits(assistants[a], requests[e], a)
        BY <2>0, <4>1, <4>2 DEF EachFits
      <4>4. requests[e].turn > 0 /\ e \in Requests
        BY TurnsAre
      <4>5. requests[e].kind # "tier"
        BY <3>1, <4>4 DEF TierAsked
      <4>6. assistants[a].tier = assistants'[a].tier
        BY <2>0, <4>1, <4>2, <4>3, <4>5 DEF Fits
      <4>. QED
        BY <2>0, <3>1, <4>2, <4>6 DEF TierAsked, Among
    <3>. QED
      BY <2>1, <3>2, <3>3 DEF a
  <2>2. CASE requests'[r] # requests[r]
    <3>1. PICK kind \in AskKinds, of \in 0..MaxAssistants, with \in Payloads :
            requests'[r] = NewRequest(kind, of, with) /\ Due(kind, of, with)
      BY <1>1, <1>3, <2>2, LeaveIs, NoRequestIs
    <3>2. kind = "tier" /\ of = a
      BY <1>3, <3>1, NewRequestIs
    <3>3. assistants' = assistants /\ of \in Among(assistants)
      BY <3>1, <3>2 DEF Due
    <3>4. requests'[r].was = assistants[of].tier
      BY <3>1, <3>3, NewRequestIs
    <3>. QED
      BY <3>2, <3>3, <3>4
  <2>. QED
    BY <2>1, <2>2
<1>. QED
  BY <1>2, <1>3 DEF TierAsked

LEMMA RestLeaves ==
  ASSUME EditorTypes, TurnsApart, NEW D \in SUBSET Requests, Follows(D), ~spoilt',
         TextsApart, TextIsTheirs, NumbersInv, SaysInv
  PROVE  TextsApart' /\ NumbersInv' /\ SaysInv'
<1>1. Leave(D) /\ atServer' = atServer /\ everMade' = everMade
  BY DEF Follows, remoteVars
<1>2. \A r \in Requests :
        \/ requests'[r] = requests[r]
        \/ requests'[r] = NoRequest
        \/ \E kind \in AskKinds, of \in 0..MaxAssistants, with \in Payloads :
             requests'[r] = NewRequest(kind, of, with) /\ Due(kind, of, with)
  BY <1>1, LeaveIs
<1>3. \A r \in Requests : requests'[r].turn > 0 \/ requests'[r].ok => requests'[r] = requests[r]
  BY <1>2, NoRequestIs, NewRequestIs
<1>4. \A a \in Among(assistants') :
        /\ a \in AssistantIds
        /\ \/ a \in Among(assistants) /\ assistants'[a] = assistants[a]
           \/ \E r \in Requests : /\ requests[r].turn > 0 /\ a \in Among(requests[r].says)
                                  /\ assistants'[a] = requests[r].says[a]
  <2>1. ASSUME NEW a \in AssistantIds, assistants'[a] # NoAssistant, assistants'[a] # assistants[a]
        PROVE  \E r \in Requests : /\ requests[r].turn > 0 /\ a \in Among(requests[r].says)
                                   /\ assistants'[a] = requests[r].says[a]
    <3>1. PICK r \in D \cap Tellers(a) : assistants'[a] = requests[r].says[a]
      BY <2>1 DEF Follows
    <3>. QED
      BY <2>1, <3>1, TurnsAre DEF Among
  <2>. QED
    BY <2>1 DEF Among
<1>5. TextsApart'
  <2>1. \A a \in Among(assistants') : assistants'[a].text \in TextsOf(a)
    BY <1>4 DEF TextsApart
  <2>2. ASSUME NEW r \in Requests, requests'[r].kind = "text"
        PROVE  requests'[r].with \in TextsOf(requests'[r].of)
    <3>1. CASE requests'[r] = requests[r]
      BY <2>2, <3>1 DEF TextsApart
    <3>2. CASE requests'[r] # requests[r]
      <4>1. PICK kind \in AskKinds, of \in 0..MaxAssistants, with \in Payloads :
              requests'[r] = NewRequest(kind, of, with) /\ Due(kind, of, with)
        BY <1>2, <2>2, <3>2, NoRequestIs
      <4>2. kind = "text" /\ requests'[r].of = of /\ requests'[r].with = with
        BY <2>2, <4>1, NewRequestIs
      <4>3. with = instructions /\ of = selected /\ ~stray /\ of # 0
        <5>1. 0 \notin AssistantIds
          BY EditorAssumption DEF AssistantIds
        <5>. QED
          BY <4>1, <4>2, <5>1 DEF Due, Among
      <4>. QED
        BY <4>2, <4>3 DEF TextIsTheirs
    <3>. QED
      BY <3>1, <3>2
  <2>3. \A r \in Requests : requests'[r].turn > 0 =>
          \A a \in Among(requests'[r].says) : requests'[r].says[a].text \in TextsOf(a)
    BY <1>3 DEF TextsApart
  <2>. QED
    BY <1>1, <2>1, <2>2, <2>3 DEF TextsApart
<1>6. NumbersInv'
  <2>1. \A a \in Among(assistants') : a <= everMade
    BY <1>4 DEF NumbersInv
  <2>2. ASSUME NEW r \in Requests PROVE requests'[r].of <= everMade
    <3>1. everMade \in Nat
      BY EditorAssumption DEF EditorTypes
    <3>2. CASE requests'[r] = requests[r]
      BY <3>2 DEF NumbersInv
    <3>3. CASE requests'[r] = NoRequest
      BY <3>1, <3>3, NoRequestIs
    <3>4. ASSUME NEW kind \in AskKinds, NEW of \in 0..MaxAssistants, NEW with \in Payloads,
                 requests'[r] = NewRequest(kind, of, with), Due(kind, of, with)
          PROVE  requests'[r].of <= everMade
      <4>1. requests'[r].of = of
        BY <3>4, NewRequestIs
      <4>2. of = 0 \/ of \in Among(assistants')
        BY <3>4 DEF Due
      <4>. QED
        BY <2>1, <3>1, <4>1, <4>2
    <3>. QED
      BY <1>2, <3>2, <3>3, <3>4
  <2>3. \A r \in Requests : requests'[r].turn > 0 => \A a \in Among(requests'[r].says) : a <= everMade
    BY <1>3 DEF NumbersInv
  <2>4. \A a \in Among(atServer) : a <= everMade
    BY DEF NumbersInv
  <2>. QED
    BY <1>1, <2>1, <2>2, <2>3, <2>4 DEF NumbersInv
<1>7. SaysInv'
  BY <1>3 DEF SaysInv
<1>. QED
  BY <1>5, <1>6, <1>7

\* The answers about templates that are under way are those that were, without
\* the one that came.
LEMMA ShowersLeave ==
  ASSUME EditorTypes, NEW D \in SUBSET Requests, Leave(D), NEW a, NEW t
  PROVE  /\ Showers(a, t)' = Showers(a, t) \ D
         /\ \A r \in Showers(a, t)' : requests'[r] = requests[r]
<1>1. \A r \in Requests : (r \notin D /\ requests'[r] = requests[r]) \/ (requests'[r].turn = 0 /\ (r \in D \/ requests[r].turn = 0))
  BY LeaveIs, NoRequestIs, NewRequestIs
<1>. QED
  BY <1>1 DEF Showers, Shows

LEMMA GreetsLeave ==
  ASSUME EditorTypes, TemplatesInv, NEW D \in SUBSET Requests, Leave(D)
  PROVE  \A r \in Requests : \A g \in requests'[r].greets : g[2] = requests'[r].of
<1>1. \A r \in Requests : requests'[r].greets = {} \/ requests'[r] = requests[r]
  BY LeaveIs, NoRequestIs, NewRequestIs
<1>. QED
  BY <1>1 DEF TemplatesInv

\* A step that answers nothing about templates shows those of the assistant that
\* was selected, or asks for those of the one that is.
LEMMA TemplatesLeave ==
  ASSUME EditorTypes, TemplatesInv, NEW D \in SUBSET Requests, Leave(D), UNCHANGED remoteVars,
         \A r \in D : requests[r].kind \in AboutTemplates => requests[r].turn = 0 /\ requests[r].kind # "templates",
         \/ selected' = 0 /\ shownTemplates' = {}
         \/ selected' # 0 /\ selected' = selected /\ shownTemplates' = shownTemplates
         \/ selected' # 0 /\ \E p \in Requests :
              requests'[p].kind = "templates" /\ requests'[p].of = selected' /\ requests'[p].turn = 0
  PROVE  TemplatesInv'
<1>1. CASE selected' = 0 /\ shownTemplates' = {}
  BY <1>1, GreetsLeave DEF TemplatesInv, TemplatesAre
<1>2. ASSUME selected' # 0, NEW p \in Requests, requests'[p].kind = "templates",
             requests'[p].of = selected',
             requests'[p].turn = 0
      PROVE  TemplatesInv'
  BY <1>2, GreetsLeave DEF TemplatesInv, TemplatesAre
<1>3. CASE selected' # 0 /\ selected' = selected /\ shownTemplates' = shownTemplates
  <2>1. PICK s : s = selected
    OBVIOUS
  <2>2. s # 0 /\ selected' = s /\ TemplatesAre(s) /\ greetings' = greetings /\ atServer' = atServer
    BY <1>3, <2>1 DEF TemplatesInv, remoteVars
  <2>3. ASSUME NEW r \in Requests, requests[r].kind = "templates"
        PROVE  requests'[r] = requests[r]
    <3>1. requests[r] # NoRequest /\ r \notin D
      BY <2>3, NoRequestIs DEF AboutTemplates
    <3>. QED
      BY <3>1, LeaveIs
  <2>4. ASSUME NEW t PROVE Showers(s, t)' = Showers(s, t) /\ \A r \in Showers(s, t) : requests'[r] = requests[r]
    <3>1. \A r \in Showers(s, t) : r \in Requests /\ requests[r].kind \in AboutTemplates /\ requests[r].turn > 0
      BY DEF Showers, Shows, AboutTemplates
    <3>2. D \cap Showers(s, t) = {}
      BY <3>1
    <3>. QED
      BY <3>2, ShowersLeave
  <2>5. (\A r \in Requests : requests'[r].kind = "templates" => requests'[r].of # s)
          => \A r \in Requests : requests[r].kind = "templates" => requests[r].of # s
    BY <2>3
  <2>6. (\A r \in Requests : requests'[r].kind = "templates" /\ requests'[r].of = s => requests'[r].turn > 0)
          => \A r \in Requests : requests[r].kind = "templates" /\ requests[r].of = s => requests[r].turn > 0
    BY <2>3
  <2>7. s \in Among(atServer)' <=> s \in Among(atServer)
    BY <2>2 DEF Among
  <2>8. TemplatesAre(s)'
    <3>1. ASSUME s \in Among(atServer)',
                 \A r \in Requests : requests'[r].kind = "templates" /\ requests'[r].of = s => requests'[r].turn > 0,
                 NEW t \in Greetings
          PROVE  /\ Showers(s, t)' = {} => (<<t, s>> \in shownTemplates' <=> <<t, s>> \in greetings')
                 /\ \A r \in Showers(s, t)' : (\A q \in Showers(s, t)' : requests'[q].turn <= requests'[r].turn)
                      => (ShownBy(requests'[r], s, t) <=> <<t, s>> \in greetings')
      <4>1. /\ Showers(s, t) = {} => (<<t, s>> \in shownTemplates <=> <<t, s>> \in greetings)
            /\ \A r \in Showers(s, t) : (\A q \in Showers(s, t) : requests[q].turn <= requests[r].turn)
                 => (ShownBy(requests[r], s, t) <=> <<t, s>> \in greetings)
        BY <2>2, <2>6, <2>7, <3>1 DEF TemplatesAre
      <4>. QED
        BY <1>3, <2>2, <2>4, <4>1
    <3>2. (\A r \in Requests : requests'[r].kind = "templates" => requests'[r].of # s)
            => \A g \in shownTemplates' : g[2] = s
      BY <1>3, <2>2, <2>5 DEF TemplatesAre
    <3>. QED
      BY <2>2, <3>1, <3>2 DEF TemplatesAre, ShownBy
  <2>. QED
    BY <2>2, <2>8, GreetsLeave DEF TemplatesInv
<1>. QED
  BY <1>1, <1>2, <1>3
-----------------------------------------------------------------------------
(* Steps of the page.                                                       *)

\* Whatever answers the page takes over in their turn, the invariant stays.
LEMMA FollowStays ==
  ASSUME EditorInv, NEW D \in SUBSET Requests, Leave(D), UNCHANGED <<remoteVars, served>>,
         assistants' \in [AssistantIds -> Documents], selectedId' \in 0..MaxAssistants,
         instructions' \in 0..2 * MaxAssistants + 1, modelTier' \in 0..1,
         shownTemplates' \subseteq Greetings \X AssistantIds, messages' \subseteq AssistantIds,
         stray' \in BOOLEAN, spoilt' \in BOOLEAN, spoilt => spoilt',
         ~spoilt' => Follows(D) /\ TextIsTheirs' /\ TierShown' /\ TemplatesInv' /\ messages' \subseteq {selected'}
  PROVE  EditorInv'
<1>1. EditorTypes /\ TurnsApart
  BY DEF EditorInv
<1>2. served' = served /\ UNCHANGED remoteVars
  OBVIOUS
<1>3. EditorTypes'
  BY <1>1, <1>2, TypesLeave
<1>4. TurnsApart'
  BY <1>1, <1>2, LeaveInTurn
<1>5. SUFFICES ASSUME ~spoilt' PROVE AnswersInv'
  BY <1>3, <1>4 DEF EditorInv
<1>6. Follows(D) /\ TextIsTheirs' /\ TierShown' /\ AnswersInv
  BY <1>5 DEF EditorInv
<1>7. /\ \A a \in AssistantIds : LatestIsKept(a) /\ EachFits(a) /\ DeadStayDead(a)
      /\ TierAsked /\ TextsApart /\ NumbersInv /\ SaysInv /\ TextIsTheirs
  BY <1>6 DEF AnswersInv
<1>8. \A a \in AssistantIds : LatestIsKept(a)' /\ EachFits(a)' /\ DeadStayDead(a)'
  BY <1>1, <1>6, <1>7, LatestLeaves, FitsLeave, DeadLeaves
<1>9. TierAsked'
  BY <1>1, <1>6, <1>7, TierLeaves
<1>10. TextsApart' /\ NumbersInv' /\ SaysInv'
  BY <1>1, <1>5, <1>6, <1>7, RestLeaves
<1>. QED
  BY <1>6, <1>8, <1>9, <1>10 DEF AnswersInv

\* What is selected is on the page.
LEMMA SelectedOn ==
  ASSUME EditorTypes
  PROVE  /\ selected \in 0..MaxAssistants /\ (selected # 0 <=> selected \in Among(assistants))
         /\ selected # 0 => selected \in AssistantIds /\ assistants[selected] \in Documents
<1>1. assistants \in [AssistantIds -> Documents] /\ selectedId \in 0..MaxAssistants
  BY DEF EditorTypes
<1>2. selected \in 0..MaxAssistants /\ (selected # 0 <=> selected \in Among(assistants))
  BY <1>1, SelectedIs DEF selected
<1>. QED
  BY <1>1, <1>2 DEF Among

\* No tier is under way if none is left and none came.
LEMMA NoTierLeft ==
  ASSUME EditorTypes, NEW D \in SUBSET Requests, Leave(D), \A r \in D : requests[r].kind # "tier",
         \A r \in Requests : requests'[r].kind # "tier"
  PROVE  \A r \in Requests : requests[r].kind # "tier"
<1>1. SUFFICES ASSUME NEW r \in Requests, requests[r].kind = "tier" PROVE FALSE
  OBVIOUS
<1>2. r \notin D /\ requests[r] # NoRequest
  BY <1>1, NoRequestIs
<1>3. requests'[r] = requests[r]
  BY <1>2, LeaveIs
<1>. QED
  BY <1>1, <1>3

\* Choosing an assistant keeps the invariant.
LEMMA SelectStays ==
  ASSUME EditorInv, NEW a \in AssistantIds, SelectAssistant(a)
  PROVE  EditorInv'
<1>1. /\ EditorTypes /\ a \in Among(assistants)
      /\ Show(assistants, a, assistants[a].text, assistants[a].tier, requests)
      /\ messages' = {} /\ stray' = FALSE /\ UNCHANGED <<remoteVars, served, spoilt>>
  BY DEF SelectAssistant, TextIsTheirs, TextShown, EditorInv
<1>2. PICK list, text, tier, slots :
        list = assistants /\ text = assistants[a].text /\ tier = assistants[a].tier /\ slots = Without({})
  OBVIOUS
<1>3. /\ assistants \in [AssistantIds -> Documents] /\ a \in 0..MaxAssistants /\ a # 0
      /\ assistants[a] \in Documents
      /\ shownTemplates \subseteq Greetings \X AssistantIds /\ spoilt \in BOOLEAN
  BY <1>1, EditorAssumption DEF EditorTypes, AssistantIds
<1>4. Show(list, a, text, tier, slots)
  BY <1>1, <1>2, RestIs DEF Show, selected
<1>5. {} \in SUBSET Requests /\ list \in [AssistantIds -> Documents]
  BY <1>2, <1>3
<1>6. SelectedOf(list, a) = a
  BY <1>1, <1>2, <1>3, SelectedIs
<1>7. /\ Leave({}) /\ assistants' = list /\ selectedId' = a /\ instructions' = text
      /\ selected' = a
      /\ selected' = selected => modelTier' = tier /\ shownTemplates' = shownTemplates
      /\ selected' # selected =>
           /\ modelTier' = list[a].tier /\ shownTemplates' = shownTemplates
           /\ \E p \in Requests : requests'[p].kind = "templates" /\ requests'[p].of = a /\ requests'[p].turn = 0
  BY <1>1, <1>2, <1>3, <1>4, <1>5, <1>6, ShowIs
<1>8. /\ modelTier' = assistants[a].tier /\ shownTemplates' = shownTemplates
      /\ text = assistants[a].text
      /\ assistants' = assistants
  BY <1>2, <1>7
<1>9. /\ modelTier' \in 0..1 /\ instructions' \in 0..2 * MaxAssistants + 1
  BY <1>3, <1>7, <1>8 DEF Documents
<1>10. ASSUME ~spoilt'
       PROVE  Follows({}) /\ TextIsTheirs' /\ TierShown' /\ TemplatesInv' /\ messages' \subseteq {selected'}
  <2>1. TextsApart /\ TemplatesInv
    BY <1>1, <1>10 DEF EditorInv, AnswersInv
  <2>2. Follows({})
    BY <1>1, <1>3, <1>7, <1>8 DEF Follows
  <2>3. TextIsTheirs'
    BY <1>1, <1>7, <1>8, <2>1 DEF TextIsTheirs, TextsApart
  <2>4. TierShown'
    BY <1>7, <1>8 DEF TierShown
  <2>5. TemplatesInv'
    BY <1>1, <1>3, <1>7, <1>8, <2>1, TemplatesLeave
  <2>. QED
    BY <1>1, <2>2, <2>3, <2>4, <2>5
<1>. QED
  BY <1>1, <1>3, <1>5, <1>7, <1>8, <1>9, <1>10, FollowStays

\* Typing in the form keeps the invariant.
LEMMA TypeStays ==
  ASSUME EditorInv, Type
  PROVE  EditorInv'
<1>1. /\ EditorTypes /\ selected # 0 /\ instructions' \in TextsOf(selected) /\ stray' = FALSE
      /\ UNCHANGED <<remoteVars, assistants, selectedId, modelTier, shownTemplates, messages, requests, askings, served, spoilt>>
  BY DEF Type, EditorInv
<1>2. Leave({}) /\ {} \in SUBSET Requests
  BY <1>1, RestIs DEF Leave
<1>3. selected' = selected /\ selected \in AssistantIds
  BY <1>1, SelectedOn DEF selected
<1>4. instructions' \in 0..2 * MaxAssistants + 1
  BY <1>1, <1>3, NoAssistantIs
<1>5. /\ assistants' \in [AssistantIds -> Documents] /\ selectedId' \in 0..MaxAssistants
      /\ modelTier' \in 0..1
      /\ shownTemplates' \subseteq Greetings \X AssistantIds /\ messages' \subseteq AssistantIds
      /\ stray' \in BOOLEAN /\ spoilt' \in BOOLEAN
  BY <1>1 DEF EditorTypes
<1>6. ASSUME ~spoilt'
      PROVE  Follows({}) /\ TextIsTheirs' /\ TierShown' /\ TemplatesInv' /\ messages' \subseteq {selected'}
  <2>1. TierShown /\ TemplatesInv /\ messages \subseteq {selected}
    BY <1>1, <1>6 DEF EditorInv, AnswersInv
  <2>2. Follows({})
    BY <1>1, <1>2, <1>5 DEF Follows
  <2>3. TextIsTheirs'
    BY <1>1, <1>3 DEF TextIsTheirs
  <2>4. TierShown'
    BY <1>1, <1>3, <2>1 DEF TierShown
  <2>5. TemplatesInv'
    BY <1>1, <1>2, <1>3, <2>1, TemplatesLeave
  <2>. QED
    BY <1>1, <1>3, <2>1, <2>2, <2>3, <2>4, <2>5
<1>. QED
  BY <1>1, <1>2, <1>4, <1>5, <1>6, FollowStays

\* The user asks for something of the assistant that is selected, or of one on
\* the page.
LEMMA AskStays ==
  ASSUME EditorInv, NEW kind \in AskKinds, NEW of \in 0..MaxAssistants, NEW with \in Payloads,
         Ask(kind, of, with), Due(kind, of, with),
         UNCHANGED <<assistants, selectedId, instructions, shownTemplates, stray>>,
         modelTier' \in 0..1, kind # "tier" => modelTier' = modelTier,
         messages' \subseteq messages \cup ({selected} \ {0}),
         spoilt' \in BOOLEAN, spoilt => spoilt'
  PROVE  EditorInv'
<1>1. EditorTypes /\ Leave({}) /\ {} \in SUBSET Requests
  BY AskIs DEF EditorInv
<1>2. UNCHANGED <<remoteVars, served>>
  BY DEF Ask
<1>3. selected' = selected /\ (selected # 0 => selected \in AssistantIds)
  BY <1>1, SelectedOn DEF selected
<1>4. /\ assistants' \in [AssistantIds -> Documents] /\ selectedId' \in 0..MaxAssistants
      /\ instructions' \in 0..2 * MaxAssistants + 1
      /\ shownTemplates' \subseteq Greetings \X AssistantIds /\ stray' \in BOOLEAN
      /\ messages' \subseteq AssistantIds
  BY <1>1, <1>3 DEF EditorTypes
<1>5. kind = "tier" => \E r \in Requests : requests'[r].kind = "tier"
  <2>1. PICK p \in Requests : requests[p] = NoRequest /\ requests' = [requests EXCEPT ![p] = NewRequest(kind, of, with)]
    BY SentIs DEF Ask
  <2>2. requests'[p].kind = kind
    BY <1>1, <2>1, NewRequestIs DEF EditorTypes
  <2>. QED
    BY <2>2
<1>6. ASSUME ~spoilt'
      PROVE  Follows({}) /\ TextIsTheirs' /\ TierShown' /\ TemplatesInv' /\ messages' \subseteq {selected'}
  <2>1. TextIsTheirs /\ TierShown /\ TemplatesInv /\ messages \subseteq {selected}
    BY <1>6 DEF EditorInv, AnswersInv
  <2>2. Follows({})
    BY <1>1, <1>2, <1>4 DEF Follows
  <2>3. TextIsTheirs'
    BY <1>3, <2>1 DEF TextIsTheirs
  <2>4. TierShown'
    <3>1. SUFFICES ASSUME selected' # 0, \A r \in Requests : requests'[r].kind # "tier"
                   PROVE  modelTier' = assistants'[selected'].tier
      BY DEF TierShown
    <3>2. \A r \in Requests : requests[r].kind # "tier"
      BY <1>1, <3>1, NoTierLeft
    <3>3. modelTier' = modelTier
      BY <1>5, <3>1
    <3>. QED
      BY <1>3, <2>1, <3>1, <3>2, <3>3 DEF TierShown
  <2>5. TemplatesInv'
    <3>1. UNCHANGED remoteVars
      BY <1>2
    <3>2. selected = 0 => shownTemplates = {}
      BY <2>1 DEF TemplatesInv, TemplatesAre
    <3>. QED
      BY <1>1, <1>3, <2>1, <3>1, <3>2, TemplatesLeave
  <2>. QED
    BY <1>3, <2>1, <2>2, <2>3, <2>4, <2>5
<1>. QED
  BY <1>1, <1>2, <1>4, <1>6, FollowStays

\* Asking the server keeps the invariant.
LEMMA AsksStay ==
  ASSUME EditorInv, SaveAssistant \/ TogglePublication \/ SaveModelTier \/ AskMore \/ SendPreview
  PROVE  EditorInv'
<1>1. /\ EditorTypes /\ selected \in 0..MaxAssistants /\ (selected # 0 => selected \in Among(assistants))
      /\ (selected # 0 => selected \in AssistantIds /\ assistants[selected] \in Documents)
      /\ instructions \in 0..2 * MaxAssistants + 1 /\ modelTier \in 0..1 /\ spoilt \in BOOLEAN
      /\ shownTemplates \subseteq Greetings \X AssistantIds
  BY SelectedOn DEF EditorInv, EditorTypes
<1>2. /\ {"text", "on", "tier", "create", "delete", "add", "drop", "preview"} \subseteq AskKinds
      /\ 0..2 * MaxAssistants + 1 \subseteq Payloads /\ Greetings \subseteq Payloads
      /\ 0..1 \subseteq Payloads
      /\ 0 \in Payloads /\ 0 \in 0..MaxAssistants
  BY EditorAssumption DEF AskKinds, Kinds, Payloads
<1>3. CASE SaveAssistant
  <2>1. PICK of, with : of = selected /\ with = instructions
    OBVIOUS
  <2>2. /\ of # 0 /\ Ask("text", of, with) /\ spoilt' = (spoilt \/ stray)
        /\ UNCHANGED <<assistants, selectedId, instructions, shownTemplates, stray, modelTier, messages>>
    BY <1>3, <2>1 DEF SaveAssistant, shownVars, Ask
  <2>3. Due("text", of, with)
    BY <1>1, <2>1, <2>2 DEF Due, Among
  <2>. QED
    BY <1>1, <1>2, <2>1, <2>2, <2>3, AskStays
<1>4. CASE TogglePublication
  <2>1. PICK of, with : of = selected /\ with = 1 - assistants[selected].on
    OBVIOUS
  <2>2. /\ of # 0 /\ Ask("on", of, with)
        /\ UNCHANGED <<assistants, selectedId, instructions, shownTemplates, stray, modelTier, messages, spoilt>>
    BY <1>4, <2>1 DEF TogglePublication, shownVars, Ask
  <2>3. with \in 0..1
    BY <1>1, <2>1, <2>2 DEF Documents
  <2>4. Due("on", of, with)
    BY <1>1, <2>1, <2>2, <2>3 DEF Due, Among
  <2>. QED
    BY <1>1, <1>2, <2>1, <2>2, <2>3, <2>4, AskStays
<1>5. CASE SaveModelTier
  <2>0. PICK with \in 0..1 : Ask("tier", selected, with) /\ modelTier' = with
    BY <1>5 DEF SaveModelTier
  <2>1. PICK of : of = selected
    OBVIOUS
  <2>2. /\ of # 0 /\ Ask("tier", of, with) /\ \A r \in Requests : requests[r].kind # "tier"
        /\ UNCHANGED <<assistants, selectedId, instructions, shownTemplates, stray, messages, spoilt>>
    BY <1>5, <2>0, <2>1 DEF SaveModelTier, Pending, Ask
  <2>3. Due("tier", of, with)
    BY <1>1, <2>1, <2>2 DEF Due, Among
  <2>. QED
    BY <1>1, <1>2, <2>0, <2>1, <2>2, <2>3, AskStays
<1>6. CASE AskMore
  <2>1. UNCHANGED <<assistants, selectedId, instructions, shownTemplates, stray, modelTier, messages, spoilt>>
    BY <1>6 DEF AskMore, shownVars
  <2>2. CASE Ask("create", 0, 0)
    <3>1. Due("create", 0, 0)
      BY DEF Due
    <3>. QED
      BY <1>1, <1>2, <2>1, <2>2, <3>1, AskStays
  <2>3. ASSUME NEW a \in Among(assistants), Ask("delete", a, 0) PROVE EditorInv'
    <3>1. Due("delete", a, 0) /\ a \in 0..MaxAssistants
      BY <2>1, EditorAssumption DEF Due, Among, AssistantIds
    <3>. QED
      BY <1>1, <1>2, <2>1, <2>3, <3>1, AskStays
  <2>4. CASE selected # 0 /\ Ask("add", selected, 0)
    <3>1. PICK of : of = selected
      OBVIOUS
    <3>2. of # 0 /\ Ask("add", of, 0) /\ Due("add", of, 0)
      BY <1>1, <2>1, <2>4, <3>1 DEF Ask, Due, Among
    <3>. QED
      BY <1>1, <1>2, <2>1, <3>1, <3>2, AskStays
  <2>5. ASSUME selected # 0, NEW t \in shownTemplates, Ask("drop", selected, t[1]) PROVE EditorInv'
    <3>1. PICK of, with : of = selected /\ with = t[1]
      OBVIOUS
    <3>2. with \in Greetings
      BY <1>1, <3>1
    <3>3. of # 0 /\ Ask("drop", of, with) /\ Due("drop", of, with)
      BY <1>1, <2>1, <2>5, <3>1, <3>2 DEF Ask, Due, Among
    <3>. QED
      BY <1>1, <1>2, <2>1, <3>1, <3>2, <3>3, AskStays
  <2>. QED
    BY <1>6, <2>2, <2>3, <2>4, <2>5 DEF AskMore
<1>7. CASE SendPreview
  <2>1. PICK of : of = selected
    OBVIOUS
  <2>2. /\ of # 0 /\ Ask("preview", of, 0) /\ messages' = messages \cup {selected}
        /\ UNCHANGED <<assistants, selectedId, instructions, shownTemplates, stray, modelTier, spoilt>>
    BY <1>7, <2>1 DEF SendPreview, Ask
  <2>3. Due("preview", of, 0)
    BY <1>1, <2>1, <2>2 DEF Due, Among
  <2>. QED
    BY <1>1, <1>2, <2>1, <2>2, <2>3, AskStays
<1>. QED
  BY <1>3, <1>4, <1>5, <1>6, <1>7

-----------------------------------------------------------------------------
(* Answers on the page.                                                     *)

\* An answer that overtakes none comes before the others that tell the same.
LEMMA InTurn ==
  ASSUME EditorTypes, TurnsApart, NEW r \in Requests, requests[r].turn > 0
  PROVE  /\ ~Overtakes(r, AboutAssistants) =>
              \A a : \A q \in Tellers(a) : requests[q].turn >= requests[r].turn
         /\ ~Overtakes(r, AboutTemplates) =>
              \A s, t : \A q \in Showers(s, t) : requests[q].turn >= requests[r].turn
<1>1. \A q \in Requests : requests[q].turn \in Nat
  BY TurnsAre
<1>2. \A q \in Requests \ {r} : requests[q].turn > 0 /\ ~(requests[q].turn >= requests[r].turn)
        => requests[q].turn \in 1..requests[r].turn
  BY <1>1
<1>3. ASSUME ~Overtakes(r, AboutAssistants), NEW a, NEW q \in Tellers(a)
      PROVE  requests[q].turn >= requests[r].turn
  <2>1. q \in Requests /\ requests[q].turn > 0 /\ requests[q].kind \in AboutAssistants
    BY DEF Tellers, Tells, Changes, AboutAssistants
  <2>. QED
    BY <1>1, <1>2, <1>3, <2>1 DEF Overtakes
<1>4. ASSUME ~Overtakes(r, AboutTemplates), NEW s, NEW t, NEW q \in Showers(s, t)
      PROVE  requests[q].turn >= requests[r].turn
  <2>1. q \in Requests /\ requests[q].turn > 0 /\ requests[q].kind \in AboutTemplates
    BY DEF Showers, Shows, AboutTemplates
  <2>. QED
    BY <1>1, <1>2, <1>4, <2>1 DEF Overtakes
<1>. QED
  BY <1>3, <1>4

\* What another list or selection shows is of the page's types.
LEMMA ShowTypes ==
  ASSUME EditorTypes, NEW list \in [AssistantIds -> Documents], NEW id \in 0..MaxAssistants,
         NEW text,
         NEW tier \in 0..1, NEW slots, NEW D \in SUBSET Requests, slots = Without(D),
         Show(list, id, text, tier, slots)
  PROVE  /\ modelTier' \in 0..1 /\ shownTemplates' \subseteq Greetings \X AssistantIds
         /\ \/ selected' = 0 /\ shownTemplates' = {}
            \/ selected' # 0 /\ selected' = selected /\ shownTemplates' = shownTemplates
            \/ selected' # 0 /\ \E p \in Requests :
                 requests'[p].kind = "templates" /\ requests'[p].of = selected' /\ requests'[p].turn = 0
         /\ selected' # 0 => selected' \in AssistantIds /\ shownTemplates' = shownTemplates
<1>1. /\ selected' = SelectedOf(list, id)
      /\ selected' = selected => modelTier' = tier /\ (selected' # 0 => shownTemplates' = shownTemplates)
      /\ selected' = 0 => modelTier' = tier /\ shownTemplates' = {}
      /\ selected' # selected /\ selected' # 0 =>
           /\ modelTier' = list[selected'].tier /\ shownTemplates' = shownTemplates
           /\ \E p \in Requests :
                requests'[p].kind = "templates" /\ requests'[p].of = selected' /\ requests'[p].turn = 0
  BY ShowIs
<1>2. selected' # 0 => selected' \in AssistantIds
  BY <1>1, SelectedIs DEF Among
<1>3. \A a \in AssistantIds : list[a].tier \in 0..1
  BY DEF Documents
<1>4. shownTemplates \subseteq Greetings \X AssistantIds
  BY DEF EditorTypes
<1>5. modelTier' \in 0..1
  BY <1>1, <1>2, <1>3
<1>6. shownTemplates' \subseteq Greetings \X AssistantIds
  BY <1>1, <1>4
<1>. QED
  BY <1>1, <1>2, <1>5, <1>6

\* A request that was answered is none of those that wait.
LEMMA AnswerIs ==
  ASSUME EditorTypes, NEW r \in Requests
  PROVE  /\ requests[r] \in RequestRecord /\ RequestOK(requests[r]) /\ requests[r].turn \in Nat
         /\ requests[r].says \in [AssistantIds -> Documents]
         /\ requests[r].saw \in [AssistantIds -> Documents]
         /\ requests[r].kind \in Kinds /\ requests[r].of \in 0..MaxAssistants
         /\ requests[r].was \in 0..1
         /\ requests[r].greets \subseteq Greetings \X AssistantIds
         /\ requests[r].of # 0 => requests[r].of \in AssistantIds
         /\ {r} \in SUBSET Requests
<1>1. requests[r] \in RequestRecord /\ RequestOK(requests[r])
  BY DEF EditorTypes
<1>. QED
  BY <1>1, EditorAssumption DEF RequestRecord, AssistantIds

\* An answer with the list of assistants keeps the invariant.
LEMMA ListStays ==
  ASSUME EditorInv, NEW r \in Requests, ListAnswered(r)
  PROVE  EditorInv'
<1>1. EditorTypes /\ TurnsApart /\ spoilt \in BOOLEAN
  BY DEF EditorInv, EditorTypes
<1>2. PICK list : list = requests[r].says
  OBVIOUS
<1>3. /\ list \in [AssistantIds -> Documents] /\ {r} \in SUBSET Requests /\ Rest(r) = Without({r})
  BY <1>1, <1>2, AnswerIs, RestIs
<1>4. /\ requests[r].kind \in {"list", "first"} /\ requests[r].turn > 0 /\ requests[r].ok
      /\ spoilt' = (spoilt \/ Overtakes(r, AboutAssistants) \/ messages # {}
                     \/ (requests[r].kind = "first" /\ assistants # Nobody))
      /\ UNCHANGED <<remoteVars, served>>
  BY DEF ListAnswered, AnswerTo
<1>5. spoilt' \in BOOLEAN /\ (spoilt => spoilt')
  BY <1>1, <1>4 DEF Overtakes
<1>6. ASSUME ~spoilt'
      PROVE  /\ \A a \in AssistantIds : LatestIsKept(a) /\ EachFits(a) /\ DeadStayDead(a)
             /\ TextsApart /\ SaysInv /\ TextIsTheirs /\ TierShown /\ TemplatesInv /\ messages = {}
             /\ requests[r].kind = "first" => assistants = Nobody
             /\ \A a : \A q \in Tellers(a) : requests[q].turn >= requests[r].turn
  <2>1. ~spoilt /\ ~Overtakes(r, AboutAssistants) /\ messages = {}
        /\ (requests[r].kind = "first" => assistants = Nobody)
    BY <1>4, <1>6
  <2>2. \A a : \A q \in Tellers(a) : requests[q].turn >= requests[r].turn
    BY <1>1, <1>4, <2>1, InTurn
  <2>. QED
    BY <2>1, <2>2 DEF EditorInv, AnswersInv
<1>7. CASE Among(list) = {}
  <2>1. /\ requests' = Sent(Rest(r), "first", 0, 0) /\ askings < MaxAskings
        /\ askings' = askings + 1
        /\ UNCHANGED <<assistants, selectedId, instructions, modelTier, shownTemplates, messages, stray>>
    BY <1>2, <1>7 DEF ListAnswered, shownVars
  <2>2. PICK slots : slots = Without({r})
    OBVIOUS
  <2>3. slots[r] = NoRequest /\ Free(slots) /\ requests' = Sent(slots, "first", 0, 0)
    BY <1>3, <2>1, <2>2 DEF Without, Free
  <2>4. PICK p \in Requests : slots[p] = NoRequest /\ requests' = [slots EXCEPT ![p] = NewRequest("first", 0, 0)]
    BY <2>3, SentIs
  <2>5. "first" \in AskKinds /\ 0 \in Payloads /\ 0 \in 0..MaxAssistants
    BY EditorAssumption DEF AskKinds, Kinds, Payloads
  <2>6. Due("first", 0, 0)
    BY DEF Due
  <2>7. Leave({r})
    BY <2>1, <2>2, <2>4, <2>5, <2>6 DEF Leave
  <2>8. /\ assistants' \in [AssistantIds -> Documents] /\ selectedId' \in 0..MaxAssistants
        /\ instructions' \in 0..2 * MaxAssistants + 1 /\ modelTier' \in 0..1
        /\ shownTemplates' \subseteq Greetings \X AssistantIds /\ messages' \subseteq AssistantIds
        /\ stray' \in BOOLEAN
    BY <1>1, <2>1 DEF EditorTypes
  <2>9. selected' = selected
    BY <2>1 DEF selected
  <2>10. ASSUME ~spoilt' PROVE Follows({r}) /\ TextIsTheirs' /\ TierShown' /\ TemplatesInv' /\ messages' \subseteq {selected'}
    <3>1. ASSUME NEW a \in AssistantIds, r \in Tellers(a)
          PROVE  assistants[a] = list[a]
      <4>1. list[a] = NoAssistant
        BY <1>7 DEF Among
      <4>2. requests[r].kind # "first"
        BY <1>2, <1>4, <1>6, <1>7, <2>10 DEF SaysInv
      <4>3. Fits(assistants[a], requests[r], a) \/ assistants[a] = NoAssistant
        BY <1>6, <2>10, <3>1 DEF EachFits
      <4>. QED
        BY <1>2, <1>4, <4>1, <4>2, <4>3 DEF Fits
    <3>2. Follows({r})
      BY <1>2, <1>4, <1>6, <2>1, <2>7, <2>8, <2>10, <3>1 DEF Follows
    <3>3. TextIsTheirs'
      BY <1>6, <2>1, <2>9, <2>10 DEF TextIsTheirs
    <3>4. TierShown'
      <4>1. SUFFICES ASSUME selected' # 0, \A k \in Requests : requests'[k].kind # "tier"
                     PROVE  modelTier' = assistants'[selected'].tier
        BY DEF TierShown
      <4>2. \A k \in Requests : requests[k].kind # "tier"
        BY <1>1, <1>3, <1>4, <2>7, <4>1, NoTierLeft
      <4>. QED
        BY <1>6, <2>1, <2>9, <2>10, <4>1, <4>2 DEF TierShown
    <3>5. TemplatesInv'
      <4>1. \A k \in {r} : requests[k].kind \notin AboutTemplates
        BY <1>4 DEF AboutTemplates
      <4>2. selected = 0 => shownTemplates = {}
        BY <1>6, <2>10 DEF TemplatesInv, TemplatesAre
      <4>3. UNCHANGED remoteVars
        BY <1>4
      <4>. QED
        BY <1>1, <1>3, <1>6, <2>1, <2>7, <2>9, <2>10, <4>1, <4>2, <4>3, TemplatesLeave
    <3>. QED
      BY <1>6, <2>1, <2>10, <3>2, <3>3, <3>4, <3>5
  <2>. QED
    BY <1>3, <1>4, <1>5, <2>7, <2>8, <2>10, FollowStays
<1>8. CASE Among(list) # {}
  <2>0. PICK a \in Among(list) :
          Show(list, a, list[a].text, list[a].tier, Rest(r)) /\ stray' = FALSE /\ messages' = messages
    BY <1>2, <1>8 DEF ListAnswered
  <2>1. PICK text, tier, slots : text = list[a].text /\ tier = list[a].tier /\ slots = Rest(r)
    OBVIOUS
  <2>2. /\ a \in 0..MaxAssistants /\ a \in AssistantIds /\ a # 0 /\ SelectedOf(list, a) = a
        /\ text \in 0..2 * MaxAssistants + 1 /\ tier \in 0..1
    <3>1. a \in 0..MaxAssistants /\ a \in AssistantIds /\ a # 0
      BY <2>0, EditorAssumption DEF Among, AssistantIds
    <3>. QED
      BY <1>3, <2>0, <2>1, <3>1, SelectedIs DEF Documents
  <2>3. slots = Without({r}) /\ Show(list, a, text, tier, slots)
    BY <1>3, <2>0, <2>1
  <2>4. /\ Leave({r}) /\ assistants' = list /\ selectedId' = a /\ instructions' = text
        /\ selected' = a
        /\ selected' = selected => modelTier' = tier
        /\ selected' # selected => modelTier' = list[a].tier
    BY <1>1, <1>3, <2>2, <2>3, ShowIs
  <2>5. modelTier' = tier
    BY <2>1, <2>4
  <2>6. /\ modelTier' \in 0..1 /\ shownTemplates' \subseteq Greetings \X AssistantIds
        /\ \/ selected' = 0 /\ shownTemplates' = {}
           \/ selected' # 0 /\ selected' = selected /\ shownTemplates' = shownTemplates
           \/ selected' # 0 /\ \E p \in Requests :
                requests'[p].kind = "templates" /\ requests'[p].of = selected' /\ requests'[p].turn = 0
    BY <1>1, <1>3, <2>2, <2>3, ShowTypes
  <2>7. messages' \subseteq AssistantIds
    BY <1>1, <2>0 DEF EditorTypes
  <2>8. ASSUME ~spoilt' PROVE Follows({r}) /\ TextIsTheirs' /\ TierShown' /\ TemplatesInv' /\ messages' \subseteq {selected'}
    <3>1. ASSUME NEW b \in AssistantIds, r \notin Tellers(b)
          PROVE  list[b] = assistants[b]
      <4>1. requests[r].kind = "first" /\ requests[r].of # b
        BY <1>4, <3>1 DEF Tellers, Tells, Changes
      <4>2. list[b] = NoAssistant
        BY <1>2, <1>4, <1>6, <2>8, <4>1 DEF SaysInv, Changes, Among
      <4>. QED
        BY <1>6, <2>8, <4>1, <4>2 DEF Nobody
    <3>2. Follows({r})
      BY <1>2, <1>3, <1>4, <1>6, <2>4, <2>8, <3>1 DEF Follows
    <3>3. TextIsTheirs'
      BY <1>2, <1>4, <1>6, <2>0, <2>1, <2>4, <2>8 DEF TextIsTheirs, TextsApart
    <3>4. TierShown'
      BY <2>1, <2>4, <2>5 DEF TierShown
    <3>5. TemplatesInv'
      <4>1. \A k \in {r} : requests[k].kind \notin AboutTemplates
        BY <1>4 DEF AboutTemplates
      <4>2. UNCHANGED remoteVars
        BY <1>4
      <4>. QED
        BY <1>1, <1>3, <1>6, <2>4, <2>6, <2>8, <4>1, <4>2, TemplatesLeave
    <3>. QED
      BY <1>6, <2>0, <2>8, <3>2, <3>3, <3>4, <3>5
  <2>. QED
    BY <1>3, <1>4, <1>5, <2>0, <2>2, <2>4, <2>6, <2>7, <2>8, FollowStays
<1>. QED
  BY <1>7, <1>8

-----------------------------------------------------------------------------
\* The answer of a save keeps the invariant.
LEMMA SavedStays ==
  ASSUME EditorInv, NEW r \in Requests, SavedAnswered(r)
  PROVE  EditorInv'
<1>1. EditorTypes /\ TurnsApart /\ spoilt \in BOOLEAN
  BY DEF EditorInv, EditorTypes
<1>2. PICK c, of : c = requests[r] /\ of = requests[r].of
  OBVIOUS
<1>3. PICK list, text, tier :
        /\ list = [a \in AssistantIds |-> IF a = of /\ a \in Among(assistants) THEN c.says[a] ELSE assistants[a]]
        /\ text = (IF c.kind = "text" THEN c.says[of].text ELSE instructions)
        /\ tier = (IF c.kind = "tier" THEN c.says[of].tier ELSE modelTier)
  OBVIOUS
<1>4. /\ c.kind \in {"text", "on", "tier"} /\ c.turn > 0 /\ c.ok
      /\ Show(list, selectedId, text, tier, Rest(r))
      /\ stray' = (stray \/ (c.kind = "text" /\ of # selected))
      /\ spoilt' = (spoilt \/ Overtakes(r, AboutAssistants) \/ (c.kind = "tier" /\ of # selected))
      /\ UNCHANGED <<remoteVars, messages, served>>
  BY <1>2, <1>3 DEF SavedAnswered, AnswerTo
<1>5. /\ c.says \in [AssistantIds -> Documents] /\ of \in AssistantIds /\ {r} \in SUBSET Requests
  <2>1. of # 0
    BY <1>1, <1>2, <1>4, AnswerIs DEF RequestOK
  <2>. QED
    BY <1>1, <1>2, <2>1, AnswerIs
<1>6. list \in [AssistantIds -> Documents] /\ text \in 0..2 * MaxAssistants + 1 /\ tier \in 0..1
  BY <1>1, <1>3, <1>5 DEF EditorTypes, Documents
<1>7. PICK id, slots : id = selectedId /\ slots = Rest(r)
  OBVIOUS
<1>8. slots = Without({r}) /\ id \in 0..MaxAssistants /\ Show(list, id, text, tier, slots)
  BY <1>1, <1>4, <1>7, RestIs DEF EditorTypes, Show, selected
<1>9. /\ Leave({r}) /\ assistants' = list /\ selectedId' = id /\ instructions' = text
      /\ selected' = SelectedOf(list, id)
      /\ selected' = selected => modelTier' = tier
  BY <1>1, <1>5, <1>6, <1>8, ShowIs
<1>10. /\ modelTier' \in 0..1 /\ shownTemplates' \subseteq Greetings \X AssistantIds
       /\ \/ selected' = 0 /\ shownTemplates' = {}
          \/ selected' # 0 /\ selected' = selected /\ shownTemplates' = shownTemplates
          \/ selected' # 0 /\ \E p \in Requests :
               requests'[p].kind = "templates" /\ requests'[p].of = selected' /\ requests'[p].turn = 0
  BY <1>1, <1>5, <1>6, <1>8, ShowTypes
<1>11. /\ spoilt' \in BOOLEAN /\ (spoilt => spoilt') /\ stray' \in BOOLEAN /\ messages' \subseteq AssistantIds
  BY <1>1, <1>4 DEF EditorTypes, Overtakes
<1>12. ASSUME ~spoilt'
       PROVE  Follows({r}) /\ TextIsTheirs' /\ TierShown' /\ TemplatesInv' /\ messages' \subseteq {selected'}
  <2>1. ~spoilt /\ ~Overtakes(r, AboutAssistants) /\ (c.kind = "tier" => of = selected)
    BY <1>4, <1>12
  <2>2. \A a : \A q \in Tellers(a) : requests[q].turn >= requests[r].turn
    BY <1>1, <1>2, <1>4, <2>1, InTurn
  <2>3. /\ EachFits(of) /\ TextsApart /\ SaysInv /\ TextIsTheirs /\ TierShown /\ TemplatesInv
        /\ messages \subseteq {selected}
    BY <1>5, <2>1 DEF EditorInv, AnswersInv
  <2>4. \A a : r \in Tellers(a) <=> a = of
    BY <1>2, <1>4 DEF Tellers, Tells, Changes
  <2>5. c.says[of] # NoAssistant
    BY <1>2, <1>4, <2>3 DEF SaysInv, Among
  <2>6. Fits(assistants[of], c, of)
    BY <1>2, <1>4, <2>2, <2>3, <2>4 DEF EachFits
  <2>7. /\ assistants[of] # NoAssistant
        /\ c.kind # "tier" => assistants[of].tier = c.says[of].tier
    BY <1>4, <2>5, <2>6 DEF Fits, Patches
  <2>8. list[of] = c.says[of] /\ \A a \in AssistantIds : a # of => list[a] = assistants[a]
    BY <1>3, <1>5, <2>7 DEF Among
  <2>9. Among(list) = Among(assistants)
    BY <1>5, <2>5, <2>7, <2>8 DEF Among
  <2>10. selected' = selected /\ modelTier' = tier
    <3>1. SelectedOf(list, id) = selected
      BY <1>7, <2>9 DEF SelectedOf, FirstOf, selected
    <3>. QED
      BY <1>9, <3>1
  <2>11. Follows({r})
    BY <1>2, <1>4, <1>5, <1>6, <1>9, <2>2, <2>4, <2>8 DEF Follows
  <2>12. TextIsTheirs'
    <3>1. SUFFICES ASSUME ~stray', selected # 0 PROVE text \in TextsOf(selected)
      BY <1>9, <2>10 DEF TextIsTheirs
    <3>2. CASE c.kind = "text"
      <4>1. of = selected
        BY <1>4, <3>1, <3>2
      <4>2. c.says[of].text \in TextsOf(of)
        BY <1>2, <1>4, <1>5, <2>3, <2>5 DEF TextsApart, Among
      <4>. QED
        BY <1>3, <3>2, <4>1, <4>2
    <3>3. CASE c.kind # "text"
      BY <1>3, <1>4, <2>3, <3>1, <3>3 DEF TextIsTheirs
    <3>. QED
      BY <3>2, <3>3
  <2>13. TierShown'
    <3>1. SUFFICES ASSUME selected # 0, \A k \in Requests : requests'[k].kind # "tier"
                   PROVE  tier = list[selected].tier
      BY <1>9, <2>10 DEF TierShown
    <3>2. CASE c.kind = "tier"
      BY <1>3, <2>1, <2>8, <3>2
    <3>3. CASE c.kind # "tier"
      <4>1. \A k \in Requests : requests[k].kind # "tier"
        BY <1>1, <1>2, <1>5, <1>9, <3>1, <3>3, NoTierLeft
      <4>2. tier = assistants[selected].tier
        BY <1>3, <2>3, <3>1, <3>3, <4>1 DEF TierShown
      <4>3. selected \in AssistantIds
        BY <1>1, <3>1, SelectedOn
      <4>. QED
        BY <2>7, <2>8, <3>3, <4>2, <4>3
    <3>. QED
      BY <3>2, <3>3
  <2>14. TemplatesInv'
    <3>1. \A k \in {r} : requests[k].kind \notin AboutTemplates
      BY <1>2, <1>4 DEF AboutTemplates
    <3>2. UNCHANGED remoteVars
      BY <1>4
    <3>. QED
      BY <1>1, <1>5, <1>9, <1>10, <2>3, <3>1, <3>2, TemplatesLeave
  <2>. QED
    BY <1>4, <2>3, <2>10, <2>11, <2>12, <2>13, <2>14
<1>. QED
  BY <1>4, <1>5, <1>6, <1>8, <1>9, <1>10, <1>11, <1>12, FollowStays

\* The answer of a creation keeps the invariant.
LEMMA CreateStays ==
  ASSUME EditorInv, NEW r \in Requests, CreateAnswered(r)
  PROVE  EditorInv'
<1>1. EditorTypes /\ TurnsApart /\ spoilt \in BOOLEAN
  BY DEF EditorInv, EditorTypes
<1>2. PICK c, a : c = requests[r] /\ a = requests[r].of
  OBVIOUS
<1>3. PICK list, text, tier :
        list = [assistants EXCEPT ![a] = c.says[a]] /\ text = instructions /\ tier = modelTier
  OBVIOUS
<1>4. /\ c.kind = "create" /\ c.turn > 0 /\ c.ok
      /\ Show(list, a, text, tier, Rest(r)) /\ stray' = TRUE
      /\ spoilt' = (spoilt \/ Overtakes(r, AboutAssistants) \/ messages # {})
      /\ UNCHANGED <<remoteVars, messages, served>>
  BY <1>2, <1>3 DEF CreateAnswered, AnswerTo
<1>5. /\ c.says \in [AssistantIds -> Documents] /\ a \in AssistantIds /\ a # 0
      /\ a \in 0..MaxAssistants
      /\ {r} \in SUBSET Requests
  <2>1. a # 0
    BY <1>1, <1>2, <1>4, AnswerIs DEF RequestOK
  <2>. QED
    BY <1>1, <1>2, <2>1, AnswerIs
<1>6. /\ list \in [AssistantIds -> Documents] /\ text \in 0..2 * MaxAssistants + 1 /\ tier \in 0..1
      /\ list[a] = c.says[a] /\ \A b \in AssistantIds : b # a => list[b] = assistants[b]
  BY <1>1, <1>3, <1>5 DEF EditorTypes
<1>7. PICK slots : slots = Rest(r)
  OBVIOUS
<1>8. slots = Without({r}) /\ Show(list, a, text, tier, slots)
  BY <1>1, <1>4, <1>7, RestIs
<1>9. /\ Leave({r}) /\ assistants' = list /\ selectedId' = a /\ instructions' = text
      /\ selected' = SelectedOf(list, a)
      /\ selected' = selected => modelTier' = tier
      /\ selected' # selected /\ selected' # 0 => modelTier' = list[selected'].tier
  BY <1>1, <1>5, <1>6, <1>8, ShowIs
<1>10. /\ modelTier' \in 0..1 /\ shownTemplates' \subseteq Greetings \X AssistantIds
       /\ \/ selected' = 0 /\ shownTemplates' = {}
          \/ selected' # 0 /\ selected' = selected /\ shownTemplates' = shownTemplates
          \/ selected' # 0 /\ \E p \in Requests :
               requests'[p].kind = "templates" /\ requests'[p].of = selected' /\ requests'[p].turn = 0
  BY <1>1, <1>5, <1>6, <1>8, ShowTypes
<1>11. /\ spoilt' \in BOOLEAN /\ (spoilt => spoilt') /\ stray' \in BOOLEAN /\ messages' \subseteq AssistantIds
  BY <1>1, <1>4 DEF EditorTypes, Overtakes
<1>12. ASSUME ~spoilt'
       PROVE  Follows({r}) /\ TextIsTheirs' /\ TierShown' /\ TemplatesInv' /\ messages' \subseteq {selected'}
  <2>1. ~spoilt /\ ~Overtakes(r, AboutAssistants) /\ messages = {}
    BY <1>4, <1>12
  <2>2. \A b : \A q \in Tellers(b) : requests[q].turn >= requests[r].turn
    BY <1>1, <1>2, <1>4, <2>1, InTurn
  <2>3. /\ EachFits(a) /\ SaysInv /\ TierShown /\ TemplatesInv
    BY <1>5, <2>1 DEF EditorInv, AnswersInv
  <2>4. \A b : r \in Tellers(b) <=> b = a
    BY <1>2, <1>4 DEF Tellers, Tells, Changes
  <2>5. c.says[a] # NoAssistant
    BY <1>2, <1>4, <2>3 DEF SaysInv, Among
  <2>6. Fits(assistants[a], c, a)
    BY <1>2, <1>4, <2>2, <2>3, <2>4 DEF EachFits
  <2>7. selected' = a
    BY <1>5, <1>6, <1>9, <2>5, SelectedIs DEF Among
  <2>8. Follows({r})
    BY <1>2, <1>4, <1>5, <1>6, <1>9, <2>2, <2>4 DEF Follows
  <2>9. TextIsTheirs'
    BY <1>4 DEF TextIsTheirs
  <2>10. TierShown'
    <3>1. SUFFICES ASSUME \A k \in Requests : requests'[k].kind # "tier"
                   PROVE  modelTier' = list[a].tier
      BY <1>9, <2>7 DEF TierShown
    <3>2. CASE selected # a
      BY <1>5, <1>9, <2>7, <3>2
    <3>3. CASE selected = a
      <4>1. \A k \in Requests : requests[k].kind # "tier"
        BY <1>1, <1>2, <1>4, <1>5, <1>9, <3>1, NoTierLeft
      <4>2. tier = assistants[a].tier
        BY <1>3, <1>5, <2>3, <3>3, <4>1 DEF TierShown
      <4>3. assistants[a] # NoAssistant
        BY <1>1, <1>5, <3>3, SelectedOn DEF Among
      <4>4. assistants[a].tier = c.says[a].tier
        BY <1>4, <2>5, <2>6, <4>3 DEF Fits
      <4>. QED
        BY <1>6, <1>9, <2>7, <3>3, <4>2, <4>4
    <3>. QED
      BY <3>2, <3>3
  <2>11. TemplatesInv'
    <3>1. \A k \in {r} : requests[k].kind \notin AboutTemplates
      BY <1>2, <1>4 DEF AboutTemplates
    <3>2. UNCHANGED remoteVars
      BY <1>4
    <3>. QED
      BY <1>1, <1>5, <1>9, <1>10, <2>3, <3>1, <3>2, TemplatesLeave
  <2>. QED
    BY <1>4, <2>1, <2>8, <2>9, <2>10, <2>11
<1>. QED
  BY <1>4, <1>5, <1>6, <1>9, <1>10, <1>11, <1>12, FollowStays

\* The answer of a deletion keeps the invariant.
LEMMA DeleteStays ==
  ASSUME EditorInv, NEW r \in Requests, DeleteAnswered(r)
  PROVE  EditorInv'
<1>1. EditorTypes /\ TurnsApart /\ spoilt \in BOOLEAN
  BY DEF EditorInv, EditorTypes
<1>2. PICK c, of : c = requests[r] /\ of = requests[r].of
  OBVIOUS
<1>3. PICK list : list = [c.saw EXCEPT ![of] = NoAssistant]
  OBVIOUS
<1>4. PICK next, text, tier :
        /\ next = FirstOf(list) /\ text = (IF next = 0 THEN 0 ELSE list[next].text)
        /\ tier = (IF next = 0 THEN 0 ELSE list[next].tier)
  OBVIOUS
<1>5. /\ c.kind = "delete" /\ c.turn > 0 /\ c.ok
      /\ Show(list, next, text, tier, Rest(r)) /\ messages' = {} /\ stray' = FALSE
      /\ spoilt' = (spoilt \/ Overtakes(r, AboutAssistants) \/ assistants # c.saw)
      /\ UNCHANGED <<remoteVars, served>>
  BY <1>2, <1>3, <1>4 DEF DeleteAnswered, AnswerTo, Remaining
<1>6. /\ c.saw \in [AssistantIds -> Documents] /\ of \in AssistantIds /\ {r} \in SUBSET Requests
  <2>1. of # 0
    BY <1>1, <1>2, <1>5, AnswerIs DEF RequestOK
  <2>. QED
    BY <1>1, <1>2, <2>1, AnswerIs
<1>7. /\ list \in [AssistantIds -> Documents] /\ list[of] = NoAssistant
      /\ \A b \in AssistantIds : b # of => list[b] = c.saw[b]
  BY <1>3, <1>6, NoAssistantIs
<1>8. /\ next \in 0..MaxAssistants /\ (next # 0 => next \in Among(list)) /\ SelectedOf(list, next) = next
  <2>1. 0 \in 0..MaxAssistants /\ next \in 0..MaxAssistants /\ (next # 0 <=> next \in Among(list))
        /\ (next # 0 <=> Among(list) # {})
    BY <1>4, <1>7, SelectedIs, EditorAssumption
  <2>2. next = 0 => SelectedOf(list, next) = 0
    BY <1>7, <2>1, SelectedIs
  <2>. QED
    BY <1>7, <2>1, <2>2, SelectedIs
<1>9. /\ text \in 0..2 * MaxAssistants + 1 /\ tier \in 0..1
      /\ next # 0 => next \in AssistantIds /\ list[next] # NoAssistant /\ text = list[next].text /\ tier = list[next].tier
  BY <1>4, <1>7, <1>8, EditorAssumption DEF Documents, Among
<1>10. PICK slots : slots = Rest(r)
  OBVIOUS
<1>11. slots = Without({r}) /\ Show(list, next, text, tier, slots)
  BY <1>1, <1>5, <1>10, RestIs
<1>12. /\ Leave({r}) /\ assistants' = list /\ selectedId' = next /\ instructions' = text
       /\ selected' = next
       /\ selected' = selected => modelTier' = tier
       /\ selected' # selected /\ selected' # 0 => modelTier' = list[next].tier
  BY <1>1, <1>6, <1>7, <1>8, <1>11, ShowIs
<1>13. /\ modelTier' \in 0..1 /\ shownTemplates' \subseteq Greetings \X AssistantIds
       /\ \/ selected' = 0 /\ shownTemplates' = {}
          \/ selected' # 0 /\ selected' = selected /\ shownTemplates' = shownTemplates
          \/ selected' # 0 /\ \E p \in Requests :
               requests'[p].kind = "templates" /\ requests'[p].of = selected' /\ requests'[p].turn = 0
  BY <1>1, <1>6, <1>7, <1>8, <1>9, <1>11, ShowTypes
<1>14. /\ spoilt' \in BOOLEAN /\ (spoilt => spoilt') /\ stray' \in BOOLEAN
  BY <1>1, <1>5 DEF Overtakes
<1>15. ASSUME ~spoilt' PROVE Follows({r}) /\ TextIsTheirs' /\ TierShown' /\ TemplatesInv'
  <2>1. ~spoilt /\ ~Overtakes(r, AboutAssistants) /\ assistants = c.saw
    BY <1>5, <1>15
  <2>2. \A b : \A q \in Tellers(b) : requests[q].turn >= requests[r].turn
    BY <1>1, <1>2, <1>5, <2>1, InTurn
  <2>3. SaysInv /\ TextsApart /\ TemplatesInv
    BY <2>1 DEF EditorInv, AnswersInv
  <2>4. \A b : r \in Tellers(b) <=> b = of
    BY <1>2, <1>5 DEF Tellers, Tells, Changes
  <2>5. c.says[of] = NoAssistant
    BY <1>2, <1>5, <2>3 DEF SaysInv
  <2>6. Follows({r})
    BY <1>2, <1>5, <1>6, <1>7, <1>12, <2>1, <2>2, <2>4, <2>5 DEF Follows
  <2>7. TextIsTheirs'
    <3>1. ASSUME next # 0 PROVE text \in TextsOf(next)
      <4>1. next # of /\ list[next] = assistants[next] /\ next \in Among(assistants)
        BY <1>7, <1>9, <2>1, <3>1 DEF Among
      <4>. QED
        BY <1>9, <2>3, <3>1, <4>1 DEF TextsApart
    <3>. QED
      BY <1>12, <3>1 DEF TextIsTheirs
  <2>8. TierShown'
    BY <1>9, <1>12 DEF TierShown
  <2>9. TemplatesInv'
    <3>1. \A k \in {r} : requests[k].kind \notin AboutTemplates
      BY <1>2, <1>5 DEF AboutTemplates
    <3>2. UNCHANGED remoteVars
      BY <1>5
    <3>. QED
      BY <1>1, <1>6, <1>12, <1>13, <2>3, <3>1, <3>2, TemplatesLeave
  <2>. QED
    BY <2>6, <2>7, <2>8, <2>9
<1>. QED
  BY <1>5, <1>6, <1>7, <1>8, <1>9, <1>12, <1>13, <1>14, <1>15, FollowStays

-----------------------------------------------------------------------------
\* What is over without the page taking up a list.
LEMMA RestStays ==
  ASSUME EditorInv, NEW r \in Requests, requests' = Rest(r), askings' = askings,
         UNCHANGED <<remoteVars, assistants, selectedId, instructions, served, stray>>,
         requests[r].turn = 0 => requests[r].kind # "list",
         requests[r].kind # "tier" => modelTier' = modelTier
  PROVE  /\ Leave({r}) /\ selected' = selected /\ assistants' \in [AssistantIds -> Documents]
         /\ selectedId' \in 0..MaxAssistants
         /\ instructions' \in 0..2 * MaxAssistants + 1 /\ stray' \in BOOLEAN
         /\ (\A a : r \notin Tellers(a)) => Follows({r})
         /\ ~spoilt => TextIsTheirs'
         /\ ~spoilt /\ requests[r].kind # "tier" => TierShown'
<1>1. EditorTypes /\ {r} \in SUBSET Requests
  BY DEF EditorInv
<1>2. Leave({r})
  BY <1>1, RestIs DEF Leave
<1>3. selected' = selected
  BY DEF selected
<1>4. /\ assistants' \in [AssistantIds -> Documents] /\ selectedId' \in 0..MaxAssistants
      /\ instructions' \in 0..2 * MaxAssistants + 1 /\ stray' \in BOOLEAN
  BY <1>1 DEF EditorTypes
<1>5. (\A a : r \notin Tellers(a)) => Follows({r})
  BY <1>2, <1>4 DEF Follows
<1>6. ASSUME ~spoilt PROVE TextIsTheirs'
  BY <1>3, <1>6 DEF TextIsTheirs, EditorInv, AnswersInv
<1>7. ASSUME ~spoilt, requests[r].kind # "tier" PROVE TierShown'
  <2>1. SUFFICES ASSUME selected # 0, \A k \in Requests : requests'[k].kind # "tier"
                 PROVE  modelTier = assistants[selected].tier
    BY <1>3, <1>7 DEF TierShown
  <2>2. \A k \in Requests : requests[k].kind # "tier"
    BY <1>1, <1>2, <1>7, <2>1, NoTierLeft
  <2>. QED
    BY <1>7, <2>1, <2>2 DEF EditorInv, AnswersInv, TierShown
<1>. QED
  BY <1>2, <1>3, <1>4, <1>5, <1>6, <1>7

\* The answer of a preview keeps the invariant.
LEMMA PreviewStays ==
  ASSUME EditorInv, NEW r \in Requests, PreviewAnswered(r)
  PROVE  EditorInv'
<1>1. EditorTypes /\ {r} \in SUBSET Requests
  BY DEF EditorInv
<1>2. /\ requests[r].kind = "preview" /\ requests[r].turn > 0
      /\ messages' = messages \cup {requests[r].of} /\ requests' = Rest(r)
      /\ spoilt' = (spoilt \/ requests[r].of # selected)
      /\ UNCHANGED <<remoteVars, assistants, selectedId, instructions, modelTier, shownTemplates, askings, served, stray>>
  BY DEF PreviewAnswered, AnswerTo
<1>3. requests[r].of \in AssistantIds
  BY <1>1, <1>2, AnswerIs DEF RequestOK
<1>4. /\ modelTier' \in 0..1 /\ shownTemplates' \subseteq Greetings \X AssistantIds
      /\ messages' \subseteq AssistantIds
      /\ spoilt' \in BOOLEAN /\ (spoilt => spoilt')
  BY <1>1, <1>2, <1>3 DEF EditorTypes
<1>5. \A a : r \notin Tellers(a)
  BY <1>2 DEF Tellers, Tells, Changes
<1>6. /\ Leave({r}) /\ selected' = selected /\ assistants' \in [AssistantIds -> Documents]
      /\ selectedId' \in 0..MaxAssistants /\ instructions' \in 0..2 * MaxAssistants + 1
      /\ stray' \in BOOLEAN
      /\ Follows({r})
      /\ ~spoilt => TextIsTheirs' /\ TierShown'
  BY <1>2, <1>5, RestStays
<1>7. ASSUME ~spoilt'
      PROVE  TemplatesInv' /\ messages' \subseteq {selected'} /\ TextIsTheirs' /\ TierShown'
  <2>1. ~spoilt /\ requests[r].of = selected /\ TemplatesInv /\ messages \subseteq {selected}
    BY <1>2, <1>7 DEF EditorInv
  <2>2. \A k \in {r} : requests[k].kind \notin AboutTemplates
    BY <1>2 DEF AboutTemplates
  <2>3. selected = 0 => shownTemplates = {}
    BY <2>1 DEF TemplatesInv, TemplatesAre
  <2>4. UNCHANGED remoteVars
    BY <1>2
  <2>5. TemplatesInv'
    BY <1>1, <1>2, <1>6, <2>1, <2>2, <2>3, <2>4, TemplatesLeave
  <2>. QED
    BY <1>2, <1>6, <2>1, <2>5
<1>. QED
  BY <1>1, <1>2, <1>4, <1>6, <1>7, FollowStays

\* The failure of a request keeps the invariant.
LEMMA FailedStays ==
  ASSUME EditorInv, NEW r \in Requests, Failed(r)
  PROVE  EditorInv'
<1>1. EditorTypes /\ {r} \in SUBSET Requests /\ requests[r].turn \in Nat
  BY AnswerIs DEF EditorInv
<1>2. /\ requests' = Rest(r) /\ modelTier' = (IF requests[r].kind = "tier" THEN requests[r].was ELSE modelTier)
      /\ spoilt' = (spoilt \/ requests[r].turn > 0 \/ requests[r].kind \in {"list", "first", "templates"}
                    \/ (requests[r].kind = "tier" /\ requests[r].of # selected))
      /\ UNCHANGED <<remoteVars, assistants, selectedId, instructions, shownTemplates, messages, askings, served, stray>>
  BY DEF Failed
<1>3. /\ modelTier' \in 0..1 /\ shownTemplates' \subseteq Greetings \X AssistantIds
      /\ messages' \subseteq AssistantIds
      /\ spoilt' \in BOOLEAN /\ (spoilt => spoilt')
  BY <1>1, <1>2, AnswerIs DEF EditorTypes
<1>4. CASE ~spoilt'
  <2>1. /\ ~spoilt /\ requests[r].turn = 0 /\ requests[r].kind \notin {"list", "first", "templates"}
        /\ requests[r].kind = "tier" => requests[r].of = selected
    <3>1. /\ ~spoilt /\ ~(requests[r].turn > 0)
          /\ requests[r].kind \notin {"list", "first", "templates"}
          /\ requests[r].kind = "tier" => requests[r].of = selected
      BY <1>2, <1>4
    <3>. QED
      BY <1>1, <3>1
  <2>2. \A a : r \notin Tellers(a)
    BY <2>1 DEF Tellers, Tells
  <2>3. /\ Leave({r}) /\ selected' = selected /\ assistants' \in [AssistantIds -> Documents]
        /\ selectedId' \in 0..MaxAssistants /\ instructions' \in 0..2 * MaxAssistants + 1
        /\ stray' \in BOOLEAN
        /\ Follows({r}) /\ TextIsTheirs'
        /\ requests[r].kind # "tier" => TierShown'
    BY <1>2, <2>1, <2>2, RestStays
  <2>4. TierAsked /\ TemplatesInv /\ messages \subseteq {selected}
    BY <2>1 DEF EditorInv, AnswersInv
  <2>5. TierShown'
    <3>1. ASSUME requests[r].kind = "tier", selected # 0 PROVE modelTier' = assistants[selected].tier
      <4>1. requests[r].of \in Among(assistants)
        BY <1>1, <2>1, <3>1, SelectedOn
      <4>. QED
        BY <1>2, <2>1, <2>4, <3>1, <4>1 DEF TierAsked
    <3>. QED
      BY <1>2, <2>3, <3>1 DEF TierShown
  <2>6. TemplatesInv'
    <3>1. selected = 0 => shownTemplates = {}
      BY <2>4 DEF TemplatesInv, TemplatesAre
    <3>2. UNCHANGED remoteVars
      BY <1>2
    <3>. QED
      BY <1>1, <1>2, <2>1, <2>3, <2>4, <3>1, <3>2, TemplatesLeave
  <2>. QED
    BY <1>1, <1>2, <1>3, <2>3, <2>4, <2>5, <2>6, FollowStays
<1>5. CASE spoilt'
  <2>1. Leave({r}) /\ assistants' \in [AssistantIds -> Documents] /\ selectedId' \in 0..MaxAssistants
        /\ instructions' \in 0..2 * MaxAssistants + 1 /\ stray' \in BOOLEAN
    BY <1>1, <1>2, RestIs DEF Leave, EditorTypes
  <2>. QED
    BY <1>1, <1>2, <1>3, <1>5, <2>1, FollowStays
<1>. QED
  BY <1>4, <1>5

\* The answers about templates keep the invariant.
LEMMA TemplatesStay ==
  ASSUME EditorInv, NEW r \in Requests, TemplatesAnswered(r)
  PROVE  EditorInv'
<1>1. EditorTypes /\ TurnsApart /\ {r} \in SUBSET Requests
  BY DEF EditorInv
<1>2. PICK c, of : c = requests[r] /\ of = requests[r].of
  OBVIOUS
<1>3. /\ c.kind \in {"templates", "add", "drop"} /\ c.turn > 0 /\ c.ok
      /\ shownTemplates' = (CASE c.kind = "templates" -> c.greets
                              [] c.kind = "add" -> shownTemplates \cup {<<c.with, of>>}
                              [] c.kind = "drop" -> {g \in shownTemplates : g[1] # c.with})
      /\ requests' = Rest(r)
      /\ spoilt' = (spoilt \/ Overtakes(r, AboutTemplates) \/ of # selected)
      /\ UNCHANGED <<remoteVars, assistants, selectedId, instructions, modelTier, messages, askings, served, stray>>
  BY <1>2 DEF TemplatesAnswered, AnswerTo, AboutTemplates
<1>4. /\ c.kind = "templates" => shownTemplates' = c.greets
      /\ c.kind = "add" => shownTemplates' = shownTemplates \cup {<<c.with, of>>}
      /\ c.kind = "drop" => shownTemplates' = {g \in shownTemplates : g[1] # c.with}
  BY <1>3
<1>5. /\ of \in AssistantIds /\ of # 0 /\ c.greets \subseteq Greetings \X AssistantIds
      /\ c.kind = "add" => c.with \in Greetings
  <2>1. RequestOK(c) /\ c.of = of
    BY <1>1, <1>2, AnswerIs
  <2>2. of # 0 /\ (c.kind = "add" => c.with \in Greetings)
    BY <1>3, <2>1 DEF RequestOK
  <2>. QED
    BY <1>1, <1>2, <2>2, AnswerIs
<1>6. /\ modelTier' \in 0..1 /\ shownTemplates \subseteq Greetings \X AssistantIds
      /\ messages' \subseteq AssistantIds
      /\ spoilt' \in BOOLEAN /\ (spoilt => spoilt')
  BY <1>1, <1>3 DEF EditorTypes, Overtakes
<1>7. shownTemplates' \subseteq Greetings \X AssistantIds
  BY <1>3, <1>4, <1>5, <1>6
<1>8. \A a : r \notin Tellers(a)
  BY <1>2, <1>3 DEF Tellers, Tells, Changes
<1>9. /\ Leave({r}) /\ selected' = selected /\ assistants' \in [AssistantIds -> Documents]
      /\ selectedId' \in 0..MaxAssistants /\ instructions' \in 0..2 * MaxAssistants + 1
      /\ stray' \in BOOLEAN
      /\ Follows({r})
      /\ ~spoilt => TextIsTheirs' /\ TierShown'
  BY <1>2, <1>3, <1>8, RestStays
<1>10. ASSUME ~spoilt'
       PROVE  TemplatesInv' /\ messages' \subseteq {selected'} /\ TextIsTheirs' /\ TierShown'
  <2>1. ~spoilt /\ of = selected /\ ~Overtakes(r, AboutTemplates)
    BY <1>3, <1>10
  <2>2. TemplatesInv /\ TemplatesAre(of) /\ messages \subseteq {selected}
    BY <2>1 DEF EditorInv, TemplatesInv
  <2>3. \A t : \A q \in Showers(of, t) : requests[q].turn >= requests[r].turn
    BY <1>1, <1>2, <1>3, <2>1, InTurn
  <2>4. \A k \in Requests : requests'[k] = (IF k = r THEN NoRequest ELSE requests[k])
    BY <1>1, <1>3 DEF Rest, EditorTypes
  <2>5. \A t : Showers(of, t)' = Showers(of, t) \ {r} /\ \A k \in Showers(of, t)' : requests'[k] = requests[k]
    BY <1>1, <1>9, ShowersLeave
  <2>6. ASSUME \A k \in Requests : requests'[k].kind = "templates" => requests'[k].of # of
        PROVE  \A g \in shownTemplates' : g[2] = of
    <3>1. CASE c.kind = "templates"
      BY <1>2, <1>4, <2>2, <3>1 DEF TemplatesInv
    <3>2. CASE c.kind # "templates"
      <4>1. \A k \in Requests : requests[k].kind = "templates" => requests[k].of # of
        BY <1>2, <2>4, <2>6, <3>2
      <4>2. \A g \in shownTemplates : g[2] = of
        BY <1>5, <2>2, <4>1 DEF TemplatesAre
      <4>. QED
        BY <1>3, <1>4, <3>2, <4>2
    <3>. QED
      BY <3>1, <3>2
  <2>7. ASSUME of \in Among(atServer),
               \A k \in Requests : requests'[k].kind = "templates" /\ requests'[k].of = of => requests'[k].turn > 0,
               NEW t \in Greetings
        PROVE  /\ Showers(of, t)' = {} => (<<t, of>> \in shownTemplates' <=> <<t, of>> \in greetings)
               /\ \A k \in Showers(of, t)' : (\A q \in Showers(of, t)' : requests'[q].turn <= requests'[k].turn)
                    => (ShownBy(requests'[k], of, t) <=> <<t, of>> \in greetings)
    <3>1. \A k \in Requests : requests[k].kind = "templates" /\ requests[k].of = of => requests[k].turn > 0
      BY <1>2, <1>3, <2>4, <2>7
    <3>2. /\ Showers(of, t) = {} => (<<t, of>> \in shownTemplates <=> <<t, of>> \in greetings)
          /\ \A k \in Showers(of, t) : (\A q \in Showers(of, t) : requests[q].turn <= requests[k].turn)
               => (ShownBy(requests[k], of, t) <=> <<t, of>> \in greetings)
      BY <1>5, <2>2, <2>7, <3>1 DEF TemplatesAre
    <3>3. \A k \in Showers(of, t) : k \in Requests /\ requests[k].turn \in Nat
      BY <1>1, TurnsAre DEF Showers
    <3>4. CASE r \in Showers(of, t)
      <4>1. ASSUME Showers(of, t)' = {} PROVE <<t, of>> \in shownTemplates' <=> <<t, of>> \in greetings
        <5>1. \A q \in Showers(of, t) : q = r
          BY <2>5, <4>1
        <5>2. ShownBy(c, of, t) <=> <<t, of>> \in greetings
          BY <1>2, <3>2, <3>3, <3>4, <5>1
        <5>3. c.kind = "templates" \/ c.with = t
          BY <1>2, <3>4 DEF Showers, Shows
        <5>4. <<t, of>> \in shownTemplates' <=> ShownBy(c, of, t)
          BY <1>3, <1>4, <5>3 DEF ShownBy
        <5>. QED
          BY <5>2, <5>4
      <4>2. ASSUME NEW k \in Showers(of, t)',
                   \A q \in Showers(of, t)' : requests'[q].turn <= requests'[k].turn
            PROVE  ShownBy(requests'[k], of, t) <=> <<t, of>> \in greetings
        <5>1. k \in Showers(of, t) /\ requests'[k] = requests[k]
          BY <2>5
        <5>2. requests[r].turn <= requests[k].turn
          BY <1>1, <2>3, <3>3, <5>1, TurnsAre
        <5>3. \A q \in Showers(of, t) : requests[q].turn <= requests[k].turn
          BY <2>5, <4>2, <5>1, <5>2
        <5>. QED
          BY <3>2, <5>1, <5>3
      <4>. QED
        BY <4>1, <4>2
    <3>5. CASE r \notin Showers(of, t)
      <4>1. c.kind # "templates" /\ c.with # t
        BY <1>2, <1>3, <3>5 DEF Showers, Shows
      <4>2. <<t, of>> \in shownTemplates' <=> <<t, of>> \in shownTemplates
        BY <1>3, <1>4, <4>1
      <4>3. Showers(of, t)' = Showers(of, t) /\ \A k \in Showers(of, t) : requests'[k] = requests[k]
        BY <2>5, <3>5
      <4>. QED
        BY <3>2, <4>2, <4>3
    <3>. QED
      BY <3>4, <3>5
  <2>8. TemplatesAre(of)'
    <3>1. /\ Among(atServer)' = Among(atServer) /\ greetings' = greetings
      BY <1>3 DEF remoteVars
    <3>. QED
      BY <1>5, <2>6, <2>7, <3>1 DEF TemplatesAre, ShownBy
  <2>9. TemplatesInv'
    BY <1>1, <1>9, <2>1, <2>2, <2>8, GreetsLeave DEF TemplatesInv
  <2>. QED
    BY <1>3, <1>9, <2>1, <2>2, <2>9
<1>. QED
  BY <1>1, <1>3, <1>6, <1>7, <1>9, <1>10, FollowStays

-----------------------------------------------------------------------------
(* The server's steps.                                                      *)

Makes(c) == c.kind \in {"create", "first"}
Knows(c) == c.of \in Among(atServer)

\* What a request makes of its assistant.
Becomes(v, c) ==
  CASE c.kind = "text" -> [v EXCEPT !.text = c.with]
    [] c.kind = "on" -> [v EXCEPT !.on = c.with]
    [] c.kind = "tier" -> [v EXCEPT !.tier = c.with]
    [] c.kind = "delete" -> NoAssistant

\* The answer to a request.
Answered(c, t) ==
  [c EXCEPT
     !.turn = served', !.ok = Knows(c) \/ Makes(c) \/ c.kind = "list",
     !.of = IF Makes(c) THEN everMade' ELSE c.of,
     !.with = IF c.kind = "add" THEN t ELSE c.with,
     !.says = [a \in AssistantIds |->
       IF a = c.of \/ c.kind = "list" \/ (Makes(c) /\ a = everMade') THEN atServer'[a] ELSE NoAssistant],
     !.greets = {g \in greetings' : c.kind = "templates" /\ g[2] = c.of}]

LEMMA BecomesIs ==
  ASSUME NEW v \in Documents, NEW c, RequestOK(c), c.kind \in {"text", "on", "tier", "delete"}
  PROVE  /\ Becomes(v, c) \in Documents
         /\ c.kind = "delete" => Becomes(v, c) = NoAssistant
         /\ c.kind \in {"text", "on"} => Becomes(v, c).tier = v.tier
         /\ c.kind \in {"on", "tier"} => Becomes(v, c).text = v.text
         /\ c.kind = "text" => Becomes(v, c).text = c.with
<1>1. CASE c.kind = "text"
  <2>1. Becomes(v, c) = [v EXCEPT !.text = c.with] /\ c.with \in 0..2 * MaxAssistants + 1
    BY <1>1 DEF Becomes, RequestOK
  <2>. QED
    BY <1>1, <2>1 DEF Documents
<1>2. CASE c.kind = "on"
  <2>1. Becomes(v, c) = [v EXCEPT !.on = c.with] /\ c.with \in 0..1
    BY <1>2 DEF Becomes, RequestOK
  <2>. QED
    BY <1>2, <2>1 DEF Documents
<1>3. CASE c.kind = "tier"
  <2>1. Becomes(v, c) = [v EXCEPT !.tier = c.with] /\ c.with \in 0..1
    BY <1>3 DEF Becomes, RequestOK
  <2>. QED
    BY <1>3, <2>1 DEF Documents
<1>4. CASE c.kind = "delete"
  <2>1. Becomes(v, c) = NoAssistant
    BY <1>4 DEF Becomes
  <2>. QED
    BY <1>4, <2>1, NoAssistantIs
<1>. QED
  BY <1>1, <1>2, <1>3, <1>4

\* What the server does with a request.
Serves(r, c, t) ==
  /\ c # NoRequest /\ c.turn = 0 /\ c.kind # "none"
  /\ everMade' = IF Makes(c) THEN everMade + 1 ELSE everMade
  /\ atServer' = IF Makes(c) THEN [atServer EXCEPT ![everMade'] = Fresh(everMade')]
                 ELSE IF Knows(c) /\ c.kind \in {"text", "on", "tier", "delete"}
                 THEN [atServer EXCEPT ![c.of] = Becomes(atServer[c.of], c)]
                 ELSE atServer
  /\ greetings' = CASE c.kind = "add" /\ Knows(c) -> greetings \cup {<<t, c.of>>}
                    [] c.kind = "drop" -> greetings \ {<<c.with, c.of>>}
                    [] OTHER -> greetings
  /\ served' = served + 1
  /\ requests' = [requests EXCEPT ![r] = Answered(c, t)]
  /\ UNCHANGED <<assistants, selectedId, instructions, modelTier, shownTemplates, messages, askings, stray, spoilt>>

LEMMA ServesIs ==
  ASSUME EditorTypes, NEW r \in Requests, ServeAsked(r)
  PROVE  /\ \E t \in Greetings : Serves(r, requests[r], t)
         /\ Makes(requests[r]) => everMade < MaxAssistants
<1>1. RequestOK(requests[r])
  BY AnswerIs
<1>2. requests[r] # NoRequest /\ requests[r].turn = 0 /\ (Makes(requests[r]) => everMade < MaxAssistants)
  BY DEF ServeAsked, Makes
<1>3. requests[r].kind # "none"
  BY <1>1, <1>2 DEF RequestOK
<1>4. UNCHANGED <<assistants, selectedId, instructions, modelTier, shownTemplates, messages, askings, stray, spoilt>>
  BY DEF ServeAsked, shownVars
<1>5. /\ everMade' = IF Makes(requests[r]) THEN everMade + 1 ELSE everMade
      /\ atServer' = IF Makes(requests[r]) THEN [atServer EXCEPT ![everMade'] = Fresh(everMade')]
                 ELSE IF Knows(requests[r]) /\ requests[r].kind \in {"text", "on", "tier", "delete"}
                 THEN [atServer EXCEPT ![requests[r].of] = Becomes(atServer[requests[r].of], requests[r])]
                 ELSE atServer
  BY DEF ServeAsked, Makes, Knows, Becomes
<1>6. PICK t \in Greetings :
        /\ greetings' = CASE requests[r].kind = "add" /\ Knows(requests[r]) -> greetings \cup {<<t, requests[r].of>>}
                    [] requests[r].kind = "drop" -> greetings \ {<<requests[r].with, requests[r].of>>}
                    [] OTHER -> greetings
        /\ served' = served + 1
        /\ requests' = [requests EXCEPT ![r] = Answered(requests[r], t)]
  BY DEF ServeAsked, Makes, Knows, Answered
<1>. QED
  BY <1>2, <1>3, <1>4, <1>5, <1>6 DEF Serves

\* The parts of an answer.
LEMMA AnsweredIs ==
  ASSUME EditorTypes, TurnsApart, NEW r \in Requests, NEW c, c = requests[r], NEW t \in Greetings,
         Serves(r, c, t),
         Makes(c) => everMade < MaxAssistants
  PROVE  /\ everMade' \in 0..MaxAssistants /\ everMade <= everMade'
         /\ Makes(c) => everMade' \in AssistantIds /\ everMade' = everMade + 1 /\ c.of = 0
         /\ ~Makes(c) => everMade' = everMade
         /\ atServer' \in [AssistantIds -> Documents]
         /\ greetings' \subseteq Greetings \X AssistantIds
         /\ requests' \in [Requests -> RequestRecord] /\ \A q \in Requests : RequestOK(requests'[q])
         /\ \A q \in Requests : q # r => requests'[q] = requests[q]
         /\ requests'[r].kind = c.kind /\ requests'[r].was = c.was /\ requests'[r].turn = served + 1
         /\ requests'[r].of = (IF Makes(c) THEN everMade' ELSE c.of)
         /\ requests'[r].with = (IF c.kind = "add" THEN t ELSE c.with)
         /\ requests'[r].ok <=> (Knows(c) \/ Makes(c) \/ c.kind = "list")
         /\ \A a \in AssistantIds :
              requests'[r].says[a] =
                (IF a = c.of \/ c.kind = "list" \/ (Makes(c) /\ a = everMade') THEN atServer'[a] ELSE NoAssistant)
         /\ requests'[r].greets = {g \in greetings' : c.kind = "templates" /\ g[2] = c.of}
<1>1. /\ c \in RequestRecord /\ RequestOK(c) /\ c.turn = 0 /\ c.kind # "none"
      /\ c.kind \in Kinds /\ c.of \in 0..MaxAssistants /\ c.with \in Payloads
  BY AnswerIs DEF Serves, RequestRecord
<1>2. everMade \in 0..MaxAssistants /\ served \in Nat /\ atServer \in [AssistantIds -> Documents]
  BY DEF EditorTypes, TurnsApart
<1>3. /\ everMade' \in 0..MaxAssistants /\ everMade <= everMade'
      /\ Makes(c) => everMade' \in AssistantIds /\ everMade' = everMade + 1 /\ c.of = 0
      /\ ~Makes(c) => everMade' = everMade
  <2>1. Makes(c) => everMade' = everMade + 1 /\ everMade < MaxAssistants
    BY DEF Serves
  <2>2. ~Makes(c) => everMade' = everMade
    BY DEF Serves
  <2>3. Makes(c) => c.of = 0
    BY <1>1 DEF RequestOK, Makes
  <2>. QED
    BY <1>2, <2>1, <2>2, <2>3, EditorAssumption DEF AssistantIds
<1>4. atServer' \in [AssistantIds -> Documents]
  <2>1. CASE Makes(c)
    <3>1. atServer' = [atServer EXCEPT ![everMade'] = Fresh(everMade')]
      BY <2>1 DEF Serves
    <3>. QED
      BY <1>2, <1>3, <2>1, <3>1, NoAssistantIs
  <2>2. CASE ~Makes(c) /\ Knows(c) /\ c.kind \in {"text", "on", "tier", "delete"}
    <3>1. atServer' = [atServer EXCEPT ![c.of] = Becomes(atServer[c.of], c)] /\ c.of \in AssistantIds
      BY <2>2 DEF Serves, Knows, Among
    <3>2. Becomes(atServer[c.of], c) \in Documents
      BY <1>1, <1>2, <2>2, <3>1, BecomesIs
    <3>. QED
      BY <1>2, <3>1, <3>2
  <2>. QED
    BY <1>2, <2>1, <2>2 DEF Serves
<1>5. greetings' \subseteq Greetings \X AssistantIds
  <2>1. greetings \subseteq Greetings \X AssistantIds
    BY DEF EditorTypes
  <2>2. Knows(c) => c.of \in AssistantIds
    BY DEF Knows, Among
  <2>3. \/ Knows(c) /\ greetings' = greetings \cup {<<t, c.of>>}
        \/ greetings' \subseteq greetings
    BY DEF Serves
  <2>. QED
    BY <2>1, <2>2, <2>3
<1>. DEFINE says == [a \in AssistantIds |->
              IF a = c.of \/ c.kind = "list" \/ (Makes(c) /\ a = everMade') THEN atServer'[a] ELSE NoAssistant]
            greets == {g \in greetings' : c.kind = "templates" /\ g[2] = c.of}
            ok == Knows(c) \/ Makes(c) \/ c.kind = "list"
            of == IF Makes(c) THEN everMade' ELSE c.of
            with == IF c.kind = "add" THEN t ELSE c.with
            d == Answered(c, t)
<1>6. /\ says \in [AssistantIds -> Documents] /\ greets \subseteq Greetings \X AssistantIds
      /\ ok \in BOOLEAN
      /\ of \in 0..MaxAssistants /\ with \in Payloads
  BY <1>1, <1>3, <1>4, <1>5, NoAssistantIs DEF Payloads, Knows, Makes
<1>7. \A a \in AssistantIds :
        says[a] = (IF a = c.of \/ c.kind = "list" \/ (Makes(c) /\ a = everMade') THEN atServer'[a] ELSE NoAssistant)
  OBVIOUS
<1>8. of = (IF Makes(c) THEN everMade' ELSE c.of) /\ with = (IF c.kind = "add" THEN t ELSE c.with)
      /\ (ok <=> (Knows(c) \/ Makes(c) \/ c.kind = "list"))
      /\ greets = {g \in greetings' : c.kind = "templates" /\ g[2] = c.of}
  OBVIOUS
<1>9. d = [c EXCEPT !.turn = served', !.ok = ok, !.of = of, !.with = with, !.says = says, !.greets = greets]
  BY DEF Answered
<1>10. served' = served + 1
  BY DEF Serves
<1>. HIDE DEF d, says, greets, ok, of, with
<1>11. /\ d \in RequestRecord /\ d.kind = c.kind /\ d.was = c.was /\ d.turn = served + 1
       /\ d.of = of /\ d.with = with
       /\ d.says = says /\ d.greets = greets /\ (d.ok <=> ok)
  <2>1. c \in RequestRecord /\ served' \in Nat
    BY <1>1, <1>2, <1>10
  <2>2. /\ d.kind = c.kind /\ d.was = c.was /\ d.turn = served' /\ d.of = of /\ d.with = with
        /\ d.says = says /\ d.greets = greets /\ d.ok = ok /\ d.saw = c.saw
    BY <1>9, <2>1 DEF RequestRecord
  <2>3. d \in RequestRecord
    BY <1>6, <1>9, <2>1 DEF RequestRecord
  <2>. QED
    BY <1>10, <2>2, <2>3
<1>12. d.turn > 0
  BY <1>2, <1>11
<1>13. RequestOK(d)
  <2>1. d.kind \in {"create", "first"} => d.of # 0
    BY <1>2, <1>3, <1>8, <1>11 DEF Makes
  <2>2. d.kind \notin {"create", "first"} => d.of = c.of
    BY <1>8, <1>11 DEF Makes
  <2>3. (d.kind # "add" => d.with = c.with) /\ (d.kind = "add" => d.with \in Greetings)
    BY <1>8, <1>11
  <2>. QED
    BY <1>1, <1>11, <1>12, <2>1, <2>2, <2>3 DEF RequestOK
<1>14. requests \in [Requests -> RequestRecord] /\ requests' = [requests EXCEPT ![r] = d]
       /\ \A q \in Requests : RequestOK(requests[q])
  BY DEF Serves, EditorTypes, d
<1>15. /\ requests' \in [Requests -> RequestRecord] /\ requests'[r] = d
       /\ \A q \in Requests : q # r => requests'[q] = requests[q]
  BY <1>11, <1>14
<1>16. \A q \in Requests : RequestOK(requests'[q])
  BY <1>13, <1>14, <1>15
<1>. QED
  BY <1>3, <1>4, <1>5, <1>7, <1>8, <1>11, <1>15, <1>16

\* A request the server serves keeps its turn.
LEMMA ServedInTurn ==
  ASSUME EditorTypes, TurnsApart, NEW r \in Requests, NEW c, c = requests[r], NEW t \in Greetings,
         Serves(r, c, t),
         Makes(c) => everMade < MaxAssistants
  PROVE  EditorTypes' /\ TurnsApart'
<1>1. /\ everMade' \in 0..MaxAssistants
      /\ atServer' \in [AssistantIds -> Documents] /\ greetings' \subseteq Greetings \X AssistantIds
      /\ requests' \in [Requests -> RequestRecord] /\ \A q \in Requests : RequestOK(requests'[q])
      /\ \A q \in Requests : q # r => requests'[q] = requests[q]
      /\ requests'[r].turn = served + 1
  BY AnsweredIs
<1>2. UNCHANGED <<assistants, selectedId, instructions, modelTier, shownTemplates, messages, askings, stray, spoilt>>
  BY DEF Serves
<1>3. EditorTypes'
  BY <1>1, <1>2 DEF EditorTypes
<1>4. /\ served \in Nat /\ askings \in 0..MaxAskings /\ served' = served + 1
      /\ \A q \in Requests : requests[q].turn <= served /\ requests[q].turn \in Nat
      /\ \A q, k \in Requests : q # k /\ requests[q].turn > 0 => requests[q].turn # requests[k].turn
      /\ served + Cardinality(Unserved) <= askings
  BY TurnsAre DEF Serves, TurnsApart
<1>5. \A q \in Requests : requests'[q].turn <= served'
  BY <1>1, <1>4
<1>6. \A q, k \in Requests : q # k /\ requests'[q].turn > 0 => requests'[q].turn # requests'[k].turn
  <2>1. \A q \in Requests : q # r => requests'[q].turn # served + 1
    BY <1>1, <1>4
  <2>2. ASSUME NEW q \in Requests, NEW k \in Requests, q # k, requests'[q].turn > 0
        PROVE  requests'[q].turn # requests'[k].turn
    <3>1. CASE q = r \/ k = r
      BY <1>1, <2>1, <2>2, <3>1
    <3>2. CASE q # r /\ k # r
      BY <1>1, <1>4, <2>2, <3>2
    <3>. QED
      BY <3>1, <3>2
  <2>. QED
    BY <2>2
<1>7. Unserved' = Unserved \ {r} /\ r \in Unserved
  <2>1. requests'[r].turn # 0
    BY <1>1, <1>4
  <2>2. requests[r] # NoRequest /\ requests[r].turn = 0
    BY DEF Serves
  <2>. QED
    BY <1>1, <2>1, <2>2 DEF Unserved
<1>8. served' + Cardinality(Unserved') <= askings
  <2>1. Cardinality(Unserved') = Cardinality(Unserved) - 1
    BY <1>7, UnservedIs, FS_RemoveElement
  <2>. QED
    BY <1>4, <2>1, UnservedIs, EditorAssumption
<1>. QED
  BY <1>2, <1>3, <1>4, <1>5, <1>6, <1>8 DEF TurnsApart

\* The answer that was served is the last one of those it tells of, and tells
\* what the server has.
LEMMA TellersServed ==
  ASSUME EditorTypes, TurnsApart, NEW r \in Requests, NEW c, c = requests[r], NEW t \in Greetings,
         Serves(r, c, t),
         Makes(c) => everMade < MaxAssistants, NEW a \in AssistantIds
  PROVE  /\ r \notin Tellers(a)
         /\ \A q \in Tellers(a) : requests'[q] = requests[q] /\ requests[q].turn <= served /\ requests[q].turn \in Nat
         /\ r \in Tellers(a)' => Tellers(a)' = Tellers(a) \cup {r} /\ requests'[r].says[a] = atServer'[a]
         /\ r \notin Tellers(a)' => Tellers(a)' = Tellers(a) /\ atServer'[a] = atServer[a]
         /\ r \in Tellers(a)' <=> /\ Knows(c) \/ Makes(c) \/ c.kind = "list"
                                  /\ \/ c.kind = "list"
                                     \/ c.kind \in Changes /\ a = (IF Makes(c) THEN everMade' ELSE c.of)
<1>1. /\ \A q \in Requests : q # r => requests'[q] = requests[q]
      /\ requests'[r].kind = c.kind /\ requests'[r].turn = served + 1
      /\ requests'[r].of = (IF Makes(c) THEN everMade' ELSE c.of)
      /\ requests'[r].ok <=> (Knows(c) \/ Makes(c) \/ c.kind = "list")
      /\ \A b \in AssistantIds :
           requests'[r].says[b] =
             (IF b = c.of \/ c.kind = "list" \/ (Makes(c) /\ b = everMade') THEN atServer'[b] ELSE NoAssistant)
  BY AnsweredIs
<1>2. served \in Nat /\ c.turn = 0
  BY DEF TurnsApart, Serves
<1>3. r \notin Tellers(a)
  BY <1>2 DEF Tellers, Tells
<1>4. \A q \in Tellers(a) : requests'[q] = requests[q] /\ requests[q].turn <= served /\ requests[q].turn \in Nat
  BY <1>1, <1>3, TurnsAre
<1>5. Tellers(a)' \ {r} = Tellers(a)
  BY <1>1, <1>3 DEF Tellers, Tells
<1>6. r \in Tellers(a)' <=> /\ Knows(c) \/ Makes(c) \/ c.kind = "list"
                            /\ \/ c.kind = "list"
                               \/ c.kind \in Changes /\ a = (IF Makes(c) THEN everMade' ELSE c.of)
  <2>1. requests'[r].turn > 0
    BY <1>1, <1>2
  <2>. QED
    BY <1>1, <2>1 DEF Tellers, Tells
<1>7. r \in Tellers(a)' => requests'[r].says[a] = atServer'[a]
  BY <1>1, <1>6
<1>8. r \notin Tellers(a)' => atServer'[a] = atServer[a]
  <2>1. SUFFICES ASSUME r \notin Tellers(a)' PROVE atServer'[a] = atServer[a]
    OBVIOUS
  <2>2. CASE Makes(c)
    <3>1. a # everMade'
      BY <1>6, <2>1, <2>2 DEF Makes, Changes
    <3>2. atServer' = [atServer EXCEPT ![everMade'] = Fresh(everMade')]
      BY <2>2 DEF Serves
    <3>. QED
      BY <3>1, <3>2 DEF EditorTypes
  <2>3. CASE ~Makes(c) /\ Knows(c) /\ c.kind \in {"text", "on", "tier", "delete"}
    <3>1. a # c.of
      BY <1>6, <2>1, <2>3 DEF Changes
    <3>2. atServer' = [atServer EXCEPT ![c.of] = Becomes(atServer[c.of], c)]
      BY <2>3 DEF Serves
    <3>. QED
      BY <3>1, <3>2 DEF EditorTypes
  <2>. QED
    BY <2>2, <2>3 DEF Serves
<1>. QED
  BY <1>3, <1>4, <1>5, <1>6, <1>7, <1>8

-----------------------------------------------------------------------------
\* What serving makes of the server's assistants.
LEMMA EffectIs ==
  ASSUME EditorTypes, TurnsApart, NEW r \in Requests, NEW c, c = requests[r], NEW t \in Greetings,
         Serves(r, c, t),
         Makes(c) => everMade < MaxAssistants, TextsApart, NumbersInv
  PROVE  /\ \A a \in AssistantIds : atServer[a] # NoAssistant /\ atServer'[a] # NoAssistant /\ c.kind # "tier"
              => atServer'[a].tier = atServer[a].tier
         /\ \A a \in AssistantIds : Gone(a) => Gone(a)'
         /\ \A a \in AssistantIds : atServer[a] = NoAssistant /\ atServer'[a] # NoAssistant => a > everMade
         /\ c.kind = "delete" /\ Knows(c) => atServer'[c.of] = NoAssistant
         /\ c.kind \in Patches /\ Knows(c) => atServer'[c.of] # NoAssistant
         /\ Makes(c) => atServer'[everMade'] # NoAssistant
         /\ c.kind \notin Changes => atServer' = atServer
         /\ \A a \in Among(atServer') : atServer'[a].text \in TextsOf(a) /\ a <= everMade'
<1>1. /\ everMade' \in 0..MaxAssistants /\ everMade <= everMade'
      /\ Makes(c) => everMade' \in AssistantIds /\ everMade' = everMade + 1 /\ c.of = 0
      /\ ~Makes(c) => everMade' = everMade
      /\ atServer' \in [AssistantIds -> Documents]
  BY AnsweredIs
<1>2. atServer \in [AssistantIds -> Documents] /\ everMade \in Nat /\ RequestOK(c)
  BY EditorAssumption, AnswerIs DEF EditorTypes
<1>3. \A a \in Among(atServer) : a \in AssistantIds /\ a \in Nat /\ atServer[a].text \in TextsOf(a) /\ a <= everMade
  BY EditorAssumption DEF TextsApart, NumbersInv, Among, AssistantIds
<1>4. CASE Makes(c)
  <2>1. PICK n : n = everMade'
    OBVIOUS
  <2>2. /\ atServer'[n] = Fresh(n) /\ \A a \in AssistantIds : a # n => atServer'[a] = atServer[a]
        /\ n \in AssistantIds /\ n = everMade + 1
    BY <1>1, <1>2, <1>4, <2>1 DEF Serves
  <2>3. Fresh(n) # NoAssistant /\ Fresh(n).text \in TextsOf(n)
    BY <2>2, NoAssistantIs
  <2>4. n \notin Among(atServer)
    BY <1>2, <1>3, <2>2
  <2>5. atServer[n] = NoAssistant
    BY <2>2, <2>4 DEF Among
  <2>6. \A a \in AssistantIds : Gone(a) => Gone(a)'
    BY <1>1, <1>2, <1>4, <2>2, EditorAssumption DEF Gone, AssistantIds
  <2>7. \A a \in AssistantIds : atServer[a] = NoAssistant /\ atServer'[a] # NoAssistant => a > everMade
    BY <1>2, <2>2
  <2>8. \A a \in Among(atServer') : atServer'[a].text \in TextsOf(a) /\ a <= everMade'
    <3>1. ASSUME NEW a \in Among(atServer') PROVE atServer'[a].text \in TextsOf(a) /\ a <= n
      <4>1. a \in AssistantIds /\ atServer'[a] # NoAssistant
        BY <3>1 DEF Among
      <4>2. CASE a = n
        BY <1>2, <2>2, <2>3, <4>2
      <4>3. CASE a # n
        <5>1. a \in Among(atServer) /\ atServer'[a] = atServer[a]
          BY <2>2, <4>1, <4>3 DEF Among
        <5>. QED
          BY <1>2, <1>3, <2>2, <5>1
      <4>. QED
        BY <4>2, <4>3
    <3>. QED
      BY <2>1, <3>1
  <2>9. \A a \in AssistantIds : atServer[a] # NoAssistant => atServer'[a] = atServer[a]
    BY <2>2, <2>5
  <2>. QED
    BY <1>4, <2>1, <2>2, <2>3, <2>6, <2>7, <2>8, <2>9 DEF Makes, Patches, Changes
<1>5. CASE ~Makes(c) /\ Knows(c) /\ c.kind \in {"text", "on", "tier", "delete"}
  <2>1. PICK of, v : of = c.of /\ v = Becomes(atServer[c.of], c)
    OBVIOUS
  <2>2. of \in Among(atServer) /\ of \in AssistantIds /\ atServer[of] # NoAssistant
    BY <1>5, <2>1 DEF Knows, Among
  <2>3. atServer'[of] = v /\ \A a \in AssistantIds : a # of => atServer'[a] = atServer[a]
    BY <1>2, <1>5, <2>1, <2>2 DEF Serves
  <2>4. /\ v \in Documents
        /\ c.kind = "delete" => v = NoAssistant
        /\ c.kind \in {"text", "on"} => v.tier = atServer[of].tier
        /\ c.kind \in {"on", "tier"} => v.text = atServer[of].text
        /\ c.kind = "text" => v.text = c.with
    BY <1>2, <1>5, <2>1, <2>2, BecomesIs
  <2>5. c.kind \in Patches => v.text \in TextsOf(of)
    <3>1. c.kind = "text" => c.with \in TextsOf(of)
      BY <2>1 DEF TextsApart
    <3>. QED
      BY <1>3, <2>2, <2>4, <3>1 DEF Patches
  <2>6. c.kind \in Patches => v # NoAssistant
    BY <2>2, <2>4, <2>5, NoAssistantIs
  <2>7. c.kind \in Patches \/ c.kind = "delete"
    BY <1>5 DEF Patches
  <2>8. \A a \in AssistantIds : Gone(a) => Gone(a)'
    BY <1>1, <1>2, <1>5, <2>2, <2>3 DEF Gone
  <2>9. \A a \in AssistantIds : atServer[a] = NoAssistant => atServer'[a] = NoAssistant
    BY <2>2, <2>3
  <2>10. \A a \in Among(atServer') : atServer'[a].text \in TextsOf(a) /\ a <= everMade'
    <3>1. ASSUME NEW a \in Among(atServer') PROVE atServer'[a].text \in TextsOf(a) /\ a \in Among(atServer)
      <4>1. a \in AssistantIds /\ atServer'[a] # NoAssistant
        BY <3>1 DEF Among
      <4>2. CASE a = of
        BY <2>2, <2>3, <2>4, <2>5, <2>7, <4>1, <4>2
      <4>3. CASE a # of
        BY <1>3, <2>3, <4>1, <4>3 DEF Among
      <4>. QED
        BY <4>2, <4>3
    <3>. QED
      BY <1>1, <1>3, <1>5, <3>1
  <2>11. \A a \in AssistantIds : atServer[a] # NoAssistant /\ atServer'[a] # NoAssistant /\ c.kind # "tier"
              => atServer'[a].tier = atServer[a].tier
    BY <1>5, <2>3, <2>4
  <2>. QED
    BY <1>5, <2>1, <2>3, <2>4, <2>6, <2>8, <2>9, <2>10, <2>11 DEF Changes
<1>6. CASE ~Makes(c) /\ ~(Knows(c) /\ c.kind \in {"text", "on", "tier", "delete"})
  <2>1. atServer' = atServer /\ everMade' = everMade
    BY <1>1, <1>6 DEF Serves
  <2>2. \A a \in AssistantIds : Gone(a) => Gone(a)'
    BY <2>1 DEF Gone
  <2>. QED
    BY <1>3, <1>6, <2>1, <2>2 DEF Patches
<1>. QED
  BY <1>4, <1>5, <1>6

\* Serving a request leaves which one is the latest of its kind.
LEMMA LatestServed ==
  ASSUME EditorTypes, TurnsApart, NEW r \in Requests, NEW c, c = requests[r], NEW t \in Greetings,
         Serves(r, c, t),
         Makes(c) => everMade < MaxAssistants, NEW a \in AssistantIds, LatestIsKept(a)
  PROVE  LatestIsKept(a)'
<1>1. /\ r \notin Tellers(a) /\ served \in Nat
      /\ \A q \in Tellers(a) : requests'[q] = requests[q] /\ requests[q].turn <= served /\ requests[q].turn \in Nat
      /\ r \in Tellers(a)' => Tellers(a)' = Tellers(a) \cup {r} /\ requests'[r].says[a] = atServer'[a]
      /\ r \notin Tellers(a)' => Tellers(a)' = Tellers(a) /\ atServer'[a] = atServer[a]
      /\ c.kind = "list" => r \in Tellers(a)'
  BY TellersServed DEF TurnsApart
<1>2. /\ requests'[r].turn = served + 1 /\ \A q \in Requests : q # r => requests'[q] = requests[q]
      /\ assistants' = assistants
  <2>1. assistants' = assistants
    BY DEF Serves
  <2>. QED
    BY <2>1, AnsweredIs
<1>3. CASE r \in Tellers(a)'
  <2>1. ASSUME NEW k \in Tellers(a)', \A q \in Tellers(a)' : requests'[q].turn <= requests'[k].turn
        PROVE  requests'[k].says[a] = atServer'[a]
    <3>1. requests'[r].turn <= requests'[k].turn
      BY <1>3, <2>1
    <3>2. k = r
      BY <1>1, <1>2, <1>3, <3>1
    <3>. QED
      BY <1>1, <1>3, <3>2
  <2>. QED
    BY <1>3, <2>1 DEF LatestIsKept
<1>4. CASE r \notin Tellers(a)'
  <2>1. ListAwaited => ListAwaited'
    <3>1. \A k \in Requests : requests[k].kind = "list" /\ requests[k].turn = 0 => requests'[k] = requests[k]
      BY <1>1, <1>2, <1>4
    <3>. QED
      BY <3>1 DEF ListAwaited
  <2>. QED
    BY <1>1, <1>2, <1>4, <2>1 DEF LatestIsKept
<1>. QED
  BY <1>3, <1>4

\* What the page holds still fits what the server has after it served a request.
LEMMA FitsServed ==
  ASSUME EditorTypes, TurnsApart, NEW r \in Requests, NEW c, c = requests[r], NEW t \in Greetings,
         Serves(r, c, t),
         Makes(c) => everMade < MaxAssistants, TextsApart, NumbersInv,
         NEW a \in AssistantIds, LatestIsKept(a), EachFits(a), DeadStayDead(a)
  PROVE  EachFits(a)'
<1>1. /\ r \notin Tellers(a) /\ served \in Nat
      /\ \A q \in Tellers(a) : requests'[q] = requests[q] /\ requests[q].turn <= served /\ requests[q].turn \in Nat
      /\ r \in Tellers(a)' => Tellers(a)' = Tellers(a) \cup {r} /\ requests'[r].says[a] = atServer'[a]
      /\ r \notin Tellers(a)' => Tellers(a)' = Tellers(a) /\ atServer'[a] = atServer[a]
      /\ r \in Tellers(a)' <=> /\ Knows(c) \/ Makes(c) \/ c.kind = "list"
                               /\ \/ c.kind = "list"
                                  \/ c.kind \in Changes /\ a = (IF Makes(c) THEN everMade' ELSE c.of)
  BY TellersServed DEF TurnsApart
<1>2. /\ requests'[r].turn = served + 1 /\ requests'[r].kind = c.kind
      /\ assistants' = assistants
  <2>1. assistants' = assistants
    BY DEF Serves
  <2>. QED
    BY <2>1, AnsweredIs
<1>. DEFINE Between(q, k) == {p \in Tellers(a) : ~(requests[p].turn <= requests[q].turn \/ requests[p].turn >= requests[k].turn)}
<1>3. /\ \A k \in Tellers(a) : (\A q \in Tellers(a) : requests[q].turn >= requests[k].turn)
           => \/ Fits(assistants[a], requests[k], a)
              \/ requests[k].kind = "list" /\ assistants[a] = NoAssistant
      /\ \A k, q \in Tellers(a) : requests[q].turn < requests[k].turn /\ Between(q, k) = {}
           => Fits(requests[q].says[a], requests[k], a)
  BY DEF EachFits
\* Those that were under way fit as they did.
<1>4. \A k \in Tellers(a) : (\A q \in Tellers(a)' : requests'[q].turn >= requests'[k].turn)
        => \/ Fits(assistants'[a], requests'[k], a)
           \/ requests'[k].kind = "list" /\ assistants'[a] = NoAssistant
  <2>1. ASSUME NEW k \in Tellers(a), \A q \in Tellers(a)' : requests'[q].turn >= requests'[k].turn
        PROVE  \A q \in Tellers(a) : requests[q].turn >= requests[k].turn
    BY <1>1, <2>1
  <2>. QED
    BY <1>1, <1>2, <1>3, <2>1
<1>5. \A k, q \in Tellers(a) :
        /\ requests'[q].turn < requests'[k].turn
        /\ \A p \in Tellers(a)' : requests'[p].turn <= requests'[q].turn \/ requests'[p].turn >= requests'[k].turn
        => Fits(requests'[q].says[a], requests'[k], a)
  <2>1. ASSUME NEW k \in Tellers(a), NEW q \in Tellers(a), requests'[q].turn < requests'[k].turn,
               \A p \in Tellers(a)' : requests'[p].turn <= requests'[q].turn \/ requests'[p].turn >= requests'[k].turn
        PROVE  Between(q, k) = {} /\ requests'[q] = requests[q] /\ requests'[k] = requests[k]
    BY <1>1, <2>1
  <2>. QED
    BY <1>3, <2>1
<1>6. CASE r \notin Tellers(a)'
  BY <1>1, <1>4, <1>5, <1>6 DEF EachFits, Fits
<1>7. CASE r \in Tellers(a)'
  <2>1. Fits(atServer[a], requests'[r], a)
    <3>1. /\ atServer[a] # NoAssistant /\ atServer'[a] # NoAssistant /\ c.kind # "tier"
               => atServer'[a].tier = atServer[a].tier
          /\ c.kind = "list" => atServer' = atServer
      BY EffectIs DEF Changes
    <3>2. c.kind \in Patches => atServer[a] # NoAssistant
      BY <1>1, <1>7 DEF Patches, Makes, Knows, Among
    <3>. QED
      BY <1>1, <1>2, <1>7, <3>1, <3>2 DEF Fits
  <2>2. ASSUME \A q \in Tellers(a)' : requests'[q].turn >= requests'[r].turn
        PROVE  Fits(assistants'[a], requests'[r], a) \/ (requests'[r].kind = "list" /\ assistants'[a] = NoAssistant)
    <3>1. Tellers(a) = {}
      <4>1. ASSUME NEW q \in Tellers(a) PROVE FALSE
        <5>1. requests[q].turn >= served + 1 /\ requests[q].turn <= served /\ requests[q].turn \in Nat
          BY <1>1, <1>2, <1>7, <2>2, <4>1
        <5>. QED
          BY <1>1, <5>1
      <4>. QED
        BY <4>1
    <3>2. assistants[a] = atServer[a] \/ assistants[a] = NoAssistant
      BY <3>1 DEF LatestIsKept
    <3>3. CASE assistants[a] = atServer[a]
      BY <1>2, <2>1, <3>3
    <3>4. CASE assistants[a] = NoAssistant /\ assistants[a] # atServer[a]
      <4>1. c.kind \notin Patches
        <5>1. SUFFICES ASSUME c.kind \in Patches PROVE FALSE
          OBVIOUS
        <5>2. c.of = a /\ c.turn = 0
          BY <1>1, <1>7, <5>1 DEF Patches, Makes, Serves
        <5>3. Gone(a)
          BY <3>4, <5>1, <5>2 DEF DeadStayDead
        <5>. QED
          BY <3>4, <5>3 DEF Gone
      <4>. QED
        BY <1>2, <3>4, <4>1 DEF Fits
    <3>. QED
      BY <3>2, <3>3, <3>4
  <2>3. ASSUME NEW q \in Tellers(a),
               \A p \in Tellers(a)' : requests'[p].turn <= requests'[q].turn \/ requests'[p].turn >= requests'[r].turn
        PROVE  Fits(requests'[q].says[a], requests'[r], a)
    <3>1. ASSUME NEW p \in Tellers(a) PROVE requests[p].turn <= requests[q].turn
      <4>1. requests[p].turn <= requests[q].turn \/ requests[p].turn >= served + 1
        BY <1>1, <1>2, <1>7, <2>3, <3>1
      <4>. QED
        BY <1>1, <3>1, <4>1
    <3>2. requests[q].says[a] = atServer[a]
      BY <2>3, <3>1 DEF LatestIsKept
    <3>. QED
      BY <1>1, <2>1, <2>3, <3>2
  <2>4. \A k \in Tellers(a) : ~(requests'[r].turn < requests'[k].turn)
    BY <1>1, <1>2
  <2>5. ~(requests'[r].turn < requests'[r].turn)
    BY <1>1, <1>2
  <2>6. Tellers(a)' = Tellers(a) \cup {r}
    BY <1>1, <1>7
  <2>7. \A k \in Tellers(a)' : (\A q \in Tellers(a)' : requests'[q].turn >= requests'[k].turn)
          => \/ Fits(assistants'[a], requests'[k], a)
             \/ requests'[k].kind = "list" /\ assistants'[a] = NoAssistant
    BY <1>4, <2>2, <2>6
  <2>8. \A k, q \in Tellers(a)' :
          /\ requests'[q].turn < requests'[k].turn
          /\ \A p \in Tellers(a)' : requests'[p].turn <= requests'[q].turn \/ requests'[p].turn >= requests'[k].turn
          => Fits(requests'[q].says[a], requests'[k], a)
    BY <1>5, <2>3, <2>4, <2>5, <2>6
  <2>. QED
    BY <2>7, <2>8 DEF EachFits, Fits
<1>. QED
  BY <1>6, <1>7

\* What was deleted stays deleted when another request is served.
LEMMA DeadServed ==
  ASSUME EditorTypes, TurnsApart, NEW r \in Requests, NEW c, c = requests[r], NEW t \in Greetings,
         Serves(r, c, t),
         Makes(c) => everMade < MaxAssistants, TextsApart, NumbersInv,
         NEW a \in AssistantIds, DeadStayDead(a)
  PROVE  DeadStayDead(a)'
<1>1. /\ r \notin Tellers(a) /\ served \in Nat
      /\ \A q \in Tellers(a) : requests'[q] = requests[q] /\ requests[q].turn <= served /\ requests[q].turn \in Nat
      /\ r \in Tellers(a)' => Tellers(a)' = Tellers(a) \cup {r} /\ requests'[r].says[a] = atServer'[a]
      /\ r \notin Tellers(a)' => Tellers(a)' = Tellers(a) /\ atServer'[a] = atServer[a]
      /\ r \in Tellers(a)' <=> /\ Knows(c) \/ Makes(c) \/ c.kind = "list"
                               /\ \/ c.kind = "list"
                                  \/ c.kind \in Changes /\ a = (IF Makes(c) THEN everMade' ELSE c.of)
  BY TellersServed DEF TurnsApart
<1>2. /\ requests'[r].turn = served + 1 /\ requests'[r].kind = c.kind
      /\ \A q \in Requests : q # r => requests'[q] = requests[q]
      /\ assistants' = assistants
  <2>1. assistants' = assistants
    BY DEF Serves
  <2>. QED
    BY <2>1, AnsweredIs
<1>3. Gone(a) => Gone(a)'
  BY EffectIs
<1>4. ASSUME NEW d \in Tellers(a)', requests'[d].kind = "delete"
      PROVE  Gone(a)' /\ \A q \in Tellers(a)' : requests'[q].turn >= requests'[d].turn => requests'[q].says[a] = NoAssistant
  <2>1. CASE d = r
    <3>1. Knows(c) /\ a = c.of
      BY <1>1, <1>2, <1>4, <2>1 DEF Makes
    <3>2. atServer'[a] = NoAssistant
      BY <1>2, <1>4, <2>1, <3>1, EffectIs
    <3>3. a <= everMade'
      <4>1. a <= everMade /\ ~Makes(c)
        BY <1>2, <1>4, <2>1, <3>1 DEF NumbersInv, Knows, Makes
      <4>2. everMade' = everMade
        BY <4>1, AnsweredIs
      <4>. QED
        BY <4>1, <4>2
    <3>4. \A q \in Tellers(a) : ~(requests'[q].turn >= requests'[r].turn)
      BY <1>1, <1>2
    <3>. QED
      BY <1>1, <1>4, <2>1, <3>2, <3>3, <3>4 DEF Gone
  <2>2. CASE d # r
    <3>1. d \in Tellers(a) /\ requests'[d] = requests[d]
      BY <1>1, <1>4, <2>2
    <3>2. Gone(a) /\ \A q \in Tellers(a) : requests[q].turn >= requests[d].turn => requests[q].says[a] = NoAssistant
      BY <1>4, <3>1 DEF DeadStayDead
    <3>3. Gone(a)' /\ atServer'[a] = NoAssistant
      BY <1>3, <3>2 DEF Gone
    <3>4. \A q \in Tellers(a)' : q \in Tellers(a) \/ requests'[q].says[a] = NoAssistant
      BY <1>1, <3>3
    <3>. QED
      BY <1>1, <3>1, <3>2, <3>3, <3>4
  <2>. QED
    BY <2>1, <2>2
<1>5. ASSUME NEW k \in Requests, requests'[k].kind \in Patches, requests'[k].turn = 0,
             requests'[k].of = a
      PROVE  \/ assistants'[a] # NoAssistant
             \/ Gone(a)' /\ \A q \in Tellers(a)' : requests'[q].says[a] = NoAssistant
  <2>1. k # r
    BY <1>1, <1>2, <1>5
  <2>2. requests'[k] = requests[k]
    BY <1>2, <2>1
  <2>3. \/ assistants[a] # NoAssistant
        \/ Gone(a) /\ \A q \in Tellers(a) : requests[q].says[a] = NoAssistant
    BY <1>5, <2>2 DEF DeadStayDead
  <2>4. CASE Gone(a) /\ \A q \in Tellers(a) : requests[q].says[a] = NoAssistant
    <3>1. Gone(a)' /\ atServer'[a] = NoAssistant
      BY <1>3, <2>4 DEF Gone
    <3>. QED
      BY <1>1, <2>4, <3>1
  <2>. QED
    BY <1>2, <2>3, <2>4
<1>. QED
  BY <1>4, <1>5 DEF DeadStayDead

-----------------------------------------------------------------------------
\* What the page remembers beside that is not touched by the server.
LEMMA RestServed ==
  ASSUME EditorTypes, TurnsApart, NEW r \in Requests, NEW c, c = requests[r], NEW t \in Greetings,
         Serves(r, c, t),
         Makes(c) => everMade < MaxAssistants, TierAsked, TextsApart, NumbersInv, SaysInv
  PROVE  TierAsked' /\ TextsApart' /\ NumbersInv' /\ SaysInv'
<1>1. /\ everMade <= everMade' /\ everMade' \in Nat /\ everMade \in Nat /\ served + 1 > 0
      /\ Makes(c) => everMade' \in AssistantIds /\ everMade' = everMade + 1 /\ c.of = 0
      /\ \A q \in Requests : q # r => requests'[q] = requests[q]
      /\ requests'[r].kind = c.kind /\ requests'[r].was = c.was /\ requests'[r].turn = served + 1
      /\ requests'[r].of = (IF Makes(c) THEN everMade' ELSE c.of)
      /\ requests'[r].with = (IF c.kind = "add" THEN t ELSE c.with)
      /\ requests'[r].ok <=> (Knows(c) \/ Makes(c) \/ c.kind = "list")
      /\ \A a \in AssistantIds :
           requests'[r].says[a] =
             (IF a = c.of \/ c.kind = "list" \/ (Makes(c) /\ a = everMade') THEN atServer'[a] ELSE NoAssistant)
  BY AnsweredIs, EditorAssumption DEF EditorTypes, TurnsApart
<1>2. /\ c.kind = "delete" /\ Knows(c) => atServer'[c.of] = NoAssistant
      /\ c.kind \in Patches /\ Knows(c) => atServer'[c.of] # NoAssistant
      /\ Makes(c) => atServer'[everMade'] # NoAssistant
      /\ \A a \in Among(atServer') : atServer'[a].text \in TextsOf(a) /\ a <= everMade'
  BY EffectIs
<1>3. assistants' = assistants /\ c.turn = 0
  BY DEF Serves
<1>4. \A a \in Among(requests'[r].says) : a \in Among(atServer') /\ requests'[r].says[a] = atServer'[a]
  BY <1>1 DEF Among
<1>5. TierAsked'
  <2>1. \A k \in Requests : requests'[k].kind = requests[k].kind /\ (requests'[k].turn = 0 => requests'[k] = requests[k])
    BY <1>1
  <2>2. ASSUME NEW k \in Requests, requests'[k].kind = "tier"
        PROVE  /\ \A q \in Requests : requests'[q].kind = "tier" => q = k
               /\ requests'[k].turn = 0 /\ requests'[k].of \in Among(assistants')
                    => requests'[k].was = assistants'[requests'[k].of].tier
    <3>1. requests[k].kind = "tier"
      BY <2>1, <2>2
    <3>2. \A q \in Requests : requests'[q].kind = "tier" => q = k
      BY <2>1, <3>1 DEF TierAsked
    <3>3. ASSUME requests'[k].turn = 0, requests'[k].of \in Among(assistants')
          PROVE  requests'[k].was = assistants'[requests'[k].of].tier
      <4>1. requests'[k] = requests[k]
        BY <2>1, <3>3
      <4>2. requests[k].turn = 0 /\ requests[k].of \in Among(assistants)
        BY <1>3, <3>3, <4>1
      <4>3. requests[k].was = assistants[requests[k].of].tier
        BY <3>1, <4>2 DEF TierAsked
      <4>. QED
        BY <1>3, <4>1, <4>3
    <3>. QED
      BY <3>2, <3>3
  <2>. QED
    BY <2>2 DEF TierAsked
<1>6. TextsApart'
  <2>1. \A a \in Among(assistants) : assistants[a].text \in TextsOf(a)
    BY DEF TextsApart
  <2>2. ASSUME NEW k \in Requests, requests'[k].turn > 0, NEW a \in Among(requests'[k].says)
        PROVE  requests'[k].says[a].text \in TextsOf(a)
    <3>1. CASE k = r
      BY <1>2, <1>4, <2>2, <3>1
    <3>2. CASE k # r
      BY <1>1, <2>2, <3>2 DEF TextsApart
    <3>. QED
      BY <3>1, <3>2
  <2>3. ASSUME NEW k \in Requests, requests'[k].kind = "text"
        PROVE  requests'[k].with \in TextsOf(requests'[k].of)
    <3>1. requests[k].kind = "text" /\ requests'[k].with = requests[k].with /\ requests'[k].of = requests[k].of
      BY <1>1, <2>3 DEF Makes
    <3>. QED
      BY <3>1 DEF TextsApart
  <2>. QED
    BY <1>2, <1>3, <2>1, <2>2, <2>3 DEF TextsApart
<1>7. NumbersInv'
  <2>1. \A a \in Among(atServer') : a <= everMade'
    BY <1>2
  <2>2. \A a : a \in Nat /\ a <= everMade => a <= everMade'
    BY <1>1
  <2>3. \A a \in AssistantIds : a \in Nat
    BY EditorAssumption DEF AssistantIds
  <2>4. \A a \in Among(assistants') : a <= everMade'
    BY <1>3, <2>2, <2>3 DEF NumbersInv, Among
  <2>5. \A k \in Requests : requests'[k].of <= everMade'
    <3>1. \A k \in Requests : requests[k].of \in Nat /\ requests[k].of <= everMade
      BY AnswerIs, EditorAssumption DEF NumbersInv
    <3>2. requests'[r].of <= everMade'
      BY <1>1, <2>2, <3>1
    <3>. QED
      BY <1>1, <2>2, <3>1, <3>2
  <2>6. ASSUME NEW k \in Requests, requests'[k].turn > 0, NEW a \in Among(requests'[k].says)
        PROVE  a <= everMade'
    <3>1. CASE k = r
      BY <1>4, <2>1, <2>6, <3>1
    <3>2. CASE k # r
      BY <1>1, <2>2, <2>3, <2>6, <3>2 DEF NumbersInv, Among
    <3>. QED
      BY <3>1, <3>2
  <2>. QED
    BY <2>1, <2>4, <2>5, <2>6 DEF NumbersInv
<1>8. SaysInv'
  <2>1. ASSUME requests'[r].ok
        PROVE  /\ requests'[r].of \in AssistantIds \/ requests'[r].kind = "list"
               /\ requests'[r].kind \in {"text", "on", "tier", "create", "first"}
                    => requests'[r].of \in Among(requests'[r].says)
               /\ requests'[r].kind = "delete" => requests'[r].says[requests'[r].of] = NoAssistant
               /\ requests'[r].kind \in Changes => \A a \in Among(requests'[r].says) : a = requests'[r].of
    <3>1. Knows(c) => c.of \in AssistantIds
      BY DEF Knows, Among
    <3>2. 0 \notin AssistantIds
      BY EditorAssumption DEF AssistantIds
    <3>3. CASE Makes(c)
      <4>1. requests'[r].of = everMade' /\ requests'[r].says[everMade'] = atServer'[everMade']
        BY <1>1, <3>3
      <4>2. \A a \in Among(requests'[r].says) : a = everMade'
        BY <1>1, <3>2, <3>3 DEF Among, Makes
      <4>. QED
        BY <1>1, <1>2, <3>3, <4>1, <4>2 DEF Makes, Among
    <3>4. CASE c.kind = "list"
      BY <1>1, <3>4 DEF Changes
    <3>5. CASE ~Makes(c) /\ c.kind # "list" /\ Knows(c)
      <4>1. requests'[r].of = c.of /\ requests'[r].says[c.of] = atServer'[c.of] /\ c.of \in AssistantIds
        BY <1>1, <3>1, <3>5
      <4>2. \A a \in Among(requests'[r].says) : a = c.of
        BY <1>1, <3>5 DEF Among
      <4>3. /\ c.kind = "delete" => atServer'[c.of] = NoAssistant
            /\ c.kind \in {"text", "on", "tier"} => atServer'[c.of] # NoAssistant
            /\ c.kind \notin {"create", "first"}
        BY <1>2, <3>5 DEF Patches, Makes
      <4>. QED
        BY <1>1, <4>1, <4>2, <4>3 DEF Among
    <3>. QED
      BY <1>1, <2>1, <3>3, <3>4, <3>5
  <2>2. ASSUME NEW k \in Requests, k # r PROVE requests'[k] = requests[k]
    BY <1>1, <2>2
  <2>. QED
    BY <2>1, <2>2 DEF SaysInv
<1>. QED
  BY <1>5, <1>6, <1>7, <1>8

\* Serving a request about templates keeps what is said of them.
LEMMA TemplatesServed ==
  ASSUME EditorTypes, TurnsApart, NEW r \in Requests, NEW c, c = requests[r],
         NEW t0 \in Greetings, Serves(r, c, t0),
         Makes(c) => everMade < MaxAssistants, TextsApart, NumbersInv, TemplatesInv
  PROVE  TemplatesInv'
<1>1. PICK s : s = selected
  OBVIOUS
<1>2. UNCHANGED <<assistants, selectedId, shownTemplates>> /\ selected' = s
  BY <1>1 DEF Serves, selected
<1>3. /\ \A q \in Requests : q # r => requests'[q] = requests[q]
      /\ requests'[r].kind = c.kind /\ requests'[r].turn = served + 1
      /\ requests'[r].of = (IF Makes(c) THEN everMade' ELSE c.of)
      /\ requests'[r].with = (IF c.kind = "add" THEN t0 ELSE c.with)
      /\ requests'[r].ok <=> (Knows(c) \/ Makes(c) \/ c.kind = "list")
      /\ requests'[r].greets = {g \in greetings' : c.kind = "templates" /\ g[2] = c.of}
  BY AnsweredIs
<1>4. TemplatesAre(s)
  BY <1>1 DEF TemplatesInv
<1>5. served \in Nat /\ c.turn = 0
  BY DEF TurnsApart, Serves
<1>6. \A k \in Requests : \A g \in requests'[k].greets : g[2] = requests'[k].of
  <2>1. \A g \in requests'[r].greets : g[2] = requests'[r].of
    BY <1>3 DEF Makes
  <2>. QED
    BY <1>3, <2>1 DEF TemplatesInv
<1>7. \A k \in Requests : requests[k].kind = "templates"
        => requests'[k].kind = "templates" /\ requests'[k].of = requests[k].of
  BY <1>3 DEF Makes
<1>8. ASSUME s # 0, s \in Among(atServer'),
             \A k \in Requests : requests'[k].kind = "templates" /\ requests'[k].of = s => requests'[k].turn > 0,
             NEW t \in Greetings
      PROVE  /\ Showers(s, t)' = {} => (<<t, s>> \in shownTemplates <=> <<t, s>> \in greetings')
             /\ \A k \in Showers(s, t)' : (\A q \in Showers(s, t)' : requests'[q].turn <= requests'[k].turn)
                  => (ShownBy(requests'[k], s, t) <=> <<t, s>> \in greetings')
  <2>1. s \in Among(atServer)
    <3>1. s \in AssistantIds /\ s <= everMade /\ s \in Nat /\ everMade \in Nat
      <4>1. s \in Among(assistants)
        BY <1>1, <1>8, SelectedOn
      <4>. QED
        BY <4>1, EditorAssumption DEF NumbersInv, Among, AssistantIds, EditorTypes
    <3>2. atServer[s] = NoAssistant /\ atServer'[s] # NoAssistant => s > everMade
      BY <3>1, EffectIs
    <3>. QED
      BY <1>8, <3>1, <3>2 DEF Among
  <2>2. c.of = s => Knows(c) /\ requests'[r].ok
    BY <1>3, <2>1 DEF Knows
  <2>3. r \notin Showers(s, t) /\ Showers(s, t)' \ {r} = Showers(s, t)
    BY <1>3, <1>5 DEF Showers, Shows
  <2>4. \A k \in Showers(s, t) : k \in Requests /\ requests'[k] = requests[k] /\ requests[k].turn \in Nat /\ requests[k].turn <= served
    BY <1>3, <2>3, TurnsAre DEF Showers
  <2>5. CASE r \in Showers(s, t)'
    <3>1. /\ c.of = s /\ Knows(c)
          /\ c.kind = "templates" \/ (c.kind = "add" /\ t0 = t) \/ (c.kind = "drop" /\ c.with = t)
      BY <1>3, <2>2, <2>5 DEF Showers, Shows, Makes
    <3>2. ShownBy(requests'[r], s, t) <=> <<t, s>> \in greetings'
      <4>1. CASE c.kind = "templates"
        BY <1>3, <3>1, <4>1 DEF ShownBy
      <4>2. CASE c.kind = "add"
        BY <1>3, <3>1, <4>2 DEF ShownBy, Serves
      <4>3. CASE c.kind = "drop"
        BY <1>3, <3>1, <4>3 DEF ShownBy, Serves
      <4>. QED
        BY <3>1, <4>1, <4>2, <4>3
    <3>3. ASSUME NEW k \in Showers(s, t)', requests'[r].turn <= requests'[k].turn PROVE k = r
      BY <1>3, <1>5, <2>3, <2>4, <3>3
    <3>. QED
      BY <2>5, <3>2, <3>3
  <2>6. CASE r \notin Showers(s, t)'
    <3>1. Showers(s, t)' = Showers(s, t)
      BY <2>3, <2>6
    <3>2. ~Shows(requests'[r], s, t)
      BY <2>6 DEF Showers
    <3>3. requests'[r].turn > 0
      BY <1>3, <1>5
    <3>4. \A k \in Requests : requests[k].kind = "templates" /\ requests[k].of = s => requests[k].turn > 0
      <4>1. ~(c.kind = "templates" /\ c.of = s)
        BY <1>3, <2>2, <3>2, <3>3 DEF Shows, Makes
      <4>. QED
        BY <1>3, <1>8, <4>1
    <3>5. <<t, s>> \in greetings' <=> <<t, s>> \in greetings
      <4>1. CASE c.kind = "add" /\ Knows(c)
        <5>1. ~(c.of = s /\ t0 = t)
          BY <1>3, <2>2, <3>2, <3>3, <4>1 DEF Shows, Makes
        <5>2. greetings' = greetings \cup {<<t0, c.of>>}
          BY <4>1 DEF Serves
        <5>. QED
          BY <5>1, <5>2
      <4>2. CASE c.kind = "drop"
        <5>1. ~(c.of = s /\ c.with = t)
          BY <1>3, <2>2, <3>2, <3>3, <4>2 DEF Shows, Makes
        <5>2. greetings' = greetings \ {<<c.with, c.of>>}
          BY <4>2 DEF Serves
        <5>. QED
          BY <5>1, <5>2
      <4>3. CASE ~(c.kind = "add" /\ Knows(c)) /\ c.kind # "drop"
        BY <4>3 DEF Serves
      <4>. QED
        BY <4>1, <4>2, <4>3
    <3>6. /\ Showers(s, t) = {} => (<<t, s>> \in shownTemplates <=> <<t, s>> \in greetings)
          /\ \A k \in Showers(s, t) : (\A q \in Showers(s, t) : requests[q].turn <= requests[k].turn)
               => (ShownBy(requests[k], s, t) <=> <<t, s>> \in greetings)
      BY <1>4, <1>8, <2>1, <3>4 DEF TemplatesAre
    <3>. QED
      BY <2>4, <3>1, <3>5, <3>6
  <2>. QED
    BY <2>5, <2>6
<1>9. s # 0 /\ (\A k \in Requests : requests'[k].kind = "templates" => requests'[k].of # s)
        => \A g \in shownTemplates : g[2] = s
  BY <1>4, <1>7 DEF TemplatesAre
<1>10. s = 0 => shownTemplates = {}
  BY <1>4 DEF TemplatesAre
<1>11. TemplatesAre(s)'
  BY <1>2, <1>8, <1>9, <1>10 DEF TemplatesAre, ShownBy, Among
<1>. QED
  BY <1>2, <1>6, <1>11 DEF TemplatesInv

\* Serving a request keeps the invariant.
LEMMA ServeStays ==
  ASSUME EditorInv, NEW r \in Requests, ServeAsked(r)
  PROVE  EditorInv'
<1>1. EditorTypes /\ TurnsApart
  BY DEF EditorInv
<1>2. PICK c : c = requests[r]
  OBVIOUS
<1>3. PICK t \in Greetings : Serves(r, c, t)
  BY <1>1, <1>2, ServesIs
<1>4. Makes(c) => everMade < MaxAssistants
  BY <1>1, <1>2, ServesIs
<1>5. EditorTypes' /\ TurnsApart'
  BY <1>1, <1>2, <1>3, <1>4, ServedInTurn
<1>6. UNCHANGED <<assistants, selectedId, instructions, modelTier, shownTemplates, messages, askings, stray, spoilt>>
      /\ selected' = selected
  BY <1>3 DEF Serves, selected
<1>7. SUFFICES ASSUME ~spoilt PROVE AnswersInv' /\ TemplatesInv' /\ messages' \subseteq {selected'}
  BY <1>5, <1>6 DEF EditorInv
<1>8. /\ \A a \in AssistantIds : LatestIsKept(a) /\ EachFits(a) /\ DeadStayDead(a)
      /\ TierAsked /\ TextsApart /\ NumbersInv /\ SaysInv /\ TextIsTheirs /\ TierShown
      /\ TemplatesInv /\ messages \subseteq {selected}
  BY <1>7 DEF EditorInv, AnswersInv
<1>9. \A a \in AssistantIds : LatestIsKept(a)' /\ EachFits(a)' /\ DeadStayDead(a)'
  BY <1>1, <1>2, <1>3, <1>4, <1>8, LatestServed, FitsServed, DeadServed
<1>10. TierAsked' /\ TextsApart' /\ NumbersInv' /\ SaysInv'
  BY <1>1, <1>2, <1>3, <1>4, <1>8, RestServed
<1>11. TemplatesInv'
  BY <1>1, <1>2, <1>3, <1>4, <1>8, TemplatesServed
<1>12. TextIsTheirs'
  BY <1>6, <1>8 DEF TextIsTheirs
<1>13. TierShown'
  <2>1. \A k \in Requests : requests'[k].kind = requests[k].kind
    BY <1>1, <1>2, <1>3, <1>4, AnsweredIs
  <2>2. (\A k \in Requests : requests'[k].kind # "tier") => \A k \in Requests : requests[k].kind # "tier"
    BY <2>1
  <2>. QED
    BY <1>6, <1>8, <2>2 DEF TierShown
<1>. QED
  BY <1>6, <1>8, <1>9, <1>10, <1>11, <1>12, <1>13 DEF AnswersInv

-----------------------------------------------------------------------------
\* The section opens in order.
LEMMA EditorStarts ==
  ASSUME WebAssistantsInit
  PROVE  EditorInv
<1>1. /\ everMade \in 0..MaxAssistants /\ everMade \in Nat
      /\ atServer = [a \in AssistantIds |-> IF a <= everMade THEN Fresh(a) ELSE NoAssistant]
      /\ greetings = {} /\ assistants = Nobody /\ selectedId = 0 /\ instructions = 0
      /\ modelTier = 0
      /\ shownTemplates = {} /\ messages = {}
      /\ askings = 1 /\ served = 0 /\ stray = FALSE /\ spoilt = FALSE
  BY EditorAssumption DEF WebAssistantsInit
<1>2. PICK slots : slots = [r \in Requests |-> NoRequest]
  OBVIOUS
<1>3. requests = Sent(slots, "list", 0, 0) /\ Free(slots)
  BY <1>2, EditorAssumption DEF WebAssistantsInit, Free
<1>4. PICK p \in Requests : requests = [slots EXCEPT ![p] = NewRequest("list", 0, 0)]
  BY <1>3, SentIs
<1>5. /\ NewRequest("list", 0, 0) \in RequestRecord
      /\ NewRequest("list", 0, 0).kind = "list" /\ NewRequest("list", 0, 0).of = 0
      /\ NewRequest("list", 0, 0).turn = 0 /\ ~NewRequest("list", 0, 0).ok
      /\ NewRequest("list", 0, 0).greets = {}
  <2>1. 0 \notin Among(assistants) /\ assistants \in [AssistantIds -> Documents]
    BY <1>1, NoAssistantIs
  <2>2. NewRequest("list", 0, 0) = [NoRequest EXCEPT !.kind = "list", !.of = 0, !.with = 0, !.saw = assistants, !.was = 0]
    BY <2>1 DEF NewRequest
  <2>3. NoRequest \in RequestRecord /\ "list" \in Kinds /\ 0 \in 0..MaxAssistants /\ 0 \in Payloads /\ 0 \in 0..1
    BY NoRequestIs, EditorAssumption DEF Kinds, Payloads
  <2>4. NoRequest.turn = 0 /\ ~NoRequest.ok /\ NoRequest.greets = {}
    BY NoRequestIs
  <2>. QED
    BY <2>1, <2>2, <2>3, <2>4 DEF RequestRecord
<1>6. \A r \in Requests : requests[r] = (IF r = p THEN NewRequest("list", 0, 0) ELSE NoRequest)
  BY <1>2, <1>4
<1>7. RequestOK(NewRequest("list", 0, 0))
  BY <1>5 DEF RequestOK
<1>8. \A r \in Requests : /\ requests[r].kind \in {"none", "list"} /\ requests[r].of = 0 /\ requests[r].turn = 0
                          /\ ~requests[r].ok /\ requests[r].greets = {} /\ RequestOK(requests[r])
  BY <1>5, <1>6, <1>7, NoRequestIs
<1>9. requests \in [Requests -> RequestRecord]
  BY <1>2, <1>4, <1>5, NoRequestIs
<1>10. \A a \in AssistantIds : /\ atServer[a] \in Documents /\ (atServer[a] # NoAssistant => a <= everMade)
                               /\ atServer[a] # NoAssistant => atServer[a].text \in TextsOf(a)
  <2>1. ASSUME NEW a \in AssistantIds
        PROVE  /\ atServer[a] \in Documents /\ (atServer[a] # NoAssistant => a <= everMade)
               /\ atServer[a] # NoAssistant => atServer[a].text \in TextsOf(a)
    <3>1. atServer[a] = (IF a <= everMade THEN Fresh(a) ELSE NoAssistant)
      BY <1>1
    <3>. QED
      BY <3>1, NoAssistantIs
  <2>. QED
    BY <2>1
<1>11. EditorTypes
  <2>1. atServer \in [AssistantIds -> Documents] /\ assistants \in [AssistantIds -> Documents]
    BY <1>1, <1>10, NoAssistantIs
  <2>2. 0 \in 0..MaxAssistants /\ 0 \in 0..2 * MaxAssistants + 1 /\ 0 \in 0..1
    BY EditorAssumption
  <2>3. /\ selectedId \in 0..MaxAssistants /\ instructions \in 0..2 * MaxAssistants + 1
        /\ modelTier \in 0..1
        /\ stray \in BOOLEAN /\ spoilt \in BOOLEAN
    BY <1>1, <2>2
  <2>4. greetings \subseteq Greetings \X AssistantIds /\ shownTemplates \subseteq Greetings \X AssistantIds
        /\ messages \subseteq AssistantIds
    BY <1>1
  <2>. QED
    BY <1>1, <1>8, <1>9, <2>1, <2>3, <2>4 DEF EditorTypes
<1>12. TurnsApart
  <2>1. Unserved \subseteq {p}
    BY <1>6 DEF Unserved
  <2>2. IsFiniteSet({p}) /\ Cardinality({p}) = 1
    BY FS_Singleton
  <2>3. Cardinality(Unserved) <= 1 /\ Cardinality(Unserved) \in Nat
    BY <2>1, <2>2, FS_Subset, FS_CardinalityType
  <2>. QED
    BY <1>1, <1>8, <2>3, EditorAssumption DEF TurnsApart
<1>13. Among(assistants) = {} /\ selected = 0
  BY <1>1, NoAssistantIs DEF selected, SelectedOf, FirstOf
<1>14. \A a : Tellers(a) = {}
  BY <1>8 DEF Tellers, Tells
<1>15. ListAwaited
  BY <1>5, <1>6 DEF ListAwaited
<1>16. ASSUME NEW a \in AssistantIds PROVE LatestIsKept(a) /\ EachFits(a) /\ DeadStayDead(a)
  <2>1. assistants[a] = NoAssistant
    BY <1>1 DEF Nobody
  <2>. QED
    BY <1>8, <1>14, <1>15, <2>1 DEF LatestIsKept, EachFits, DeadStayDead, Patches
<1>17. TierAsked /\ SaysInv
  BY <1>8 DEF TierAsked, SaysInv
<1>18. TextsApart /\ NumbersInv
  <2>1. \A a \in Among(atServer) : a <= everMade /\ atServer[a].text \in TextsOf(a)
    BY <1>10 DEF Among
  <2>2. 0 <= everMade
    BY <1>1
  <2>. QED
    BY <1>8, <1>13, <2>1, <2>2 DEF TextsApart, NumbersInv
<1>19. TextIsTheirs /\ TierShown
  BY <1>13 DEF TextIsTheirs, TierShown
<1>20. TemplatesInv
  BY <1>1, <1>8, <1>13 DEF TemplatesInv, TemplatesAre
<1>. QED
  BY <1>1, <1>11, <1>12, <1>16, <1>17, <1>18, <1>19, <1>20 DEF EditorInv, AnswersInv

\* The invariant gives the types and the properties of the section.
LEMMA EditorHolds ==
  ASSUME EditorInv
  PROVE  WebAssistantsTypeOK /\ EditorIsTheirs
<1>1. EditorTypes /\ TurnsApart
  BY DEF EditorInv
<1>2. WebAssistantsTypeOK
  <2>1. \A r \in Requests : requests[r].kind \in Kinds /\ requests[r].turn \in 0..MaxAskings
    <3>1. /\ served \in Nat /\ askings \in 0..MaxAskings
          /\ served + Cardinality(Unserved) <= askings
          /\ Cardinality(Unserved) \in Nat
      BY <1>1, UnservedIs DEF TurnsApart
    <3>2. served <= MaxAskings
      BY <3>1, EditorAssumption
    <3>3. \A r \in Requests : requests[r].turn \in Nat /\ requests[r].turn <= served
      BY <1>1, TurnsAre
    <3>4. \A r \in Requests : requests[r].kind \in Kinds
      BY <1>1, AnswerIs
    <3>. QED
      BY <3>1, <3>2, <3>3, <3>4, EditorAssumption
  <2>. QED
    BY <1>1, <2>1 DEF EditorTypes, WebAssistantsTypeOK
<1>3. ASSUME ~spoilt PROVE \A a \in Among(atServer) : atServer[a].text \in TextsOf(a)
  BY <1>3 DEF EditorInv, AnswersInv, TextsApart
<1>4. ASSUME ~spoilt, \A r \in Requests : requests[r] = NoRequest
      PROVE  /\ assistants = atServer
             /\ selected # 0 => modelTier = atServer[selected].tier
             /\ ~stray /\ selected # 0 => instructions \in TextsOf(selected)
             /\ shownTemplates = {g \in greetings : g[2] = selected}
             /\ messages \subseteq {selected}
  <2>1. AnswersInv /\ TemplatesInv /\ messages \subseteq {selected}
    BY <1>4 DEF EditorInv
  <2>2. \A r \in Requests : requests[r].turn = 0 /\ requests[r].kind = "none"
    BY <1>4, NoRequestIs
  <2>3. \A a : Tellers(a) = {}
    BY <2>2 DEF Tellers, Tells
  <2>4. ~ListAwaited
    BY <2>2 DEF ListAwaited
  <2>5. \A a \in AssistantIds : assistants[a] = atServer[a]
    BY <2>1, <2>3, <2>4 DEF AnswersInv, LatestIsKept
  <2>6. assistants = atServer
    BY <1>1, <2>5 DEF EditorTypes
  <2>7. selected # 0 => modelTier = atServer[selected].tier
    BY <2>1, <2>2, <2>6 DEF AnswersInv, TierShown
  <2>8. ~stray /\ selected # 0 => instructions \in TextsOf(selected)
    BY <2>1 DEF AnswersInv, TextIsTheirs
  <2>9. shownTemplates = {g \in greetings : g[2] = selected}
    <3>1. PICK s : s = selected
      OBVIOUS
    <3>2. /\ shownTemplates \subseteq Greetings \X AssistantIds
          /\ greetings \subseteq Greetings \X AssistantIds
          /\ 0 \notin AssistantIds
      BY <1>1, EditorAssumption DEF EditorTypes, AssistantIds
    <3>3. CASE s = 0
      <4>1. shownTemplates = {}
        BY <2>1, <3>1, <3>3 DEF TemplatesInv, TemplatesAre
      <4>. QED
        BY <3>1, <3>2, <3>3, <4>1
    <3>4. CASE s # 0
      <4>1. s \in Among(atServer)
        BY <1>1, <2>6, <3>1, <3>4, SelectedOn
      <4>2. \A t : Showers(s, t) = {}
        BY <2>2 DEF Showers, Shows
      <4>3. /\ \A g \in shownTemplates : g[2] = s
            /\ \A t \in Greetings : <<t, s>> \in shownTemplates <=> <<t, s>> \in greetings
        BY <2>1, <2>2, <3>1, <3>4, <4>1, <4>2 DEF TemplatesInv, TemplatesAre
      <4>4. ASSUME NEW g \in Greetings \X AssistantIds, g[2] = s
            PROVE  g \in shownTemplates <=> g \in greetings
        <5>1. g = <<g[1], s>> /\ g[1] \in Greetings
          BY <4>4
        <5>. QED
          BY <4>3, <5>1
      <4>. QED
        BY <3>1, <3>2, <4>3, <4>4
    <3>. QED
      BY <3>3, <3>4
  <2>. QED
    BY <2>1, <2>6, <2>7, <2>8, <2>9
<1>. QED
  BY <1>2, <1>3, <1>4 DEF EditorIsTheirs

\* Every step of the section and of the server keeps the invariant.
LEMMA EditorStays ==
  ASSUME EditorInv, [WebAssistantsNext]_webAssistantVars
  PROVE  EditorInv'
<1>1. CASE UNCHANGED webAssistantVars
  <2>1. /\ UNCHANGED <<atServer, greetings, everMade, assistants, selectedId, instructions, modelTier>>
        /\ UNCHANGED <<shownTemplates, messages, requests, askings, served, stray, spoilt>>
    BY <1>1 DEF webAssistantVars, remoteVars, shownVars
  <2>2. EditorTypes' /\ TurnsApart'
    BY <2>1 DEF EditorInv, EditorTypes, TurnsApart, Unserved
  <2>3. selected' = selected /\ \A a, t : Tellers(a)' = Tellers(a) /\ Showers(a, t)' = Showers(a, t)
    BY <2>1 DEF selected, Tellers, Showers
  <2>4. ASSUME ~spoilt PROVE AnswersInv' /\ TemplatesInv'
    <3>1. AnswersInv /\ TemplatesInv
      BY <2>4 DEF EditorInv
    <3>2. \A a \in AssistantIds : LatestIsKept(a)' /\ EachFits(a)' /\ DeadStayDead(a)'
      BY <2>1, <2>3, <3>1 DEF AnswersInv, LatestIsKept, EachFits, DeadStayDead, ListAwaited, Gone, Fits
    <3>3. TierAsked' /\ TextsApart' /\ NumbersInv' /\ SaysInv'
      BY <2>1, <3>1 DEF AnswersInv, TierAsked, TextsApart, NumbersInv, SaysInv, Among
    <3>4. TextIsTheirs' /\ TierShown'
      BY <2>1, <2>3, <3>1 DEF AnswersInv, TextIsTheirs, TierShown
    <3>5. TemplatesInv'
      BY <2>1, <2>3, <3>1 DEF TemplatesInv, TemplatesAre, Among, ShownBy
    <3>. QED
      BY <3>2, <3>3, <3>4, <3>5 DEF AnswersInv
  <2>. QED
    BY <2>1, <2>2, <2>3, <2>4 DEF EditorInv
<1>2. CASE Type
  BY <1>2, TypeStays
<1>3. CASE SaveAssistant \/ TogglePublication \/ SaveModelTier \/ AskMore \/ SendPreview
  BY <1>3, AsksStay
<1>4. ASSUME NEW a \in AssistantIds, SelectAssistant(a) PROVE EditorInv'
  BY <1>4, SelectStays
<1>5. ASSUME NEW r \in Requests,
             \/ ServeAsked(r) \/ ListAnswered(r) \/ SavedAnswered(r) \/ CreateAnswered(r)
             \/ DeleteAnswered(r) \/ TemplatesAnswered(r) \/ PreviewAnswered(r) \/ Failed(r)
      PROVE  EditorInv'
  BY <1>5, ServeStays, ListStays, SavedStays, CreateStays, DeleteStays, TemplatesStay,
     PreviewStays, FailedStays
<1>. QED
  BY <1>1, <1>2, <1>3, <1>4, <1>5 DEF WebAssistantsNext

\* SettingsPage.tsx:636, :653: unless an answer was lost or out of its turn, no
\* assistant is given instructions written for another, and when all is answered
\* the page shows what the server has of the selected one.
THEOREM EditorStaysTheirs == WebAssistantsSpec => [](WebAssistantsTypeOK /\ EditorIsTheirs)
<1>1. EditorInv => WebAssistantsTypeOK /\ EditorIsTheirs
  BY EditorHolds
<1>2. EditorInv /\ [WebAssistantsNext]_webAssistantVars => EditorInv'
  BY EditorStays
<1>. QED
  BY EditorStarts, <1>1, <1>2, PTL DEF WebAssistantsSpec

-----------------------------------------------------------------------------
(* All of them.                                                             *)

\* A step of the workspace is, for each component, a step of its own or a stutter.
LEMMA WorkspaceMoves ==
  [WorkspaceNext]_workspaceVars =>
    /\ [PinNext]_pinVars /\ [HistoryNext]_historyVars /\ [AssistantsNext]_assistantVars
    /\ [RepliesNext]_replyVars /\ [SpacesNext]_spaceVars /\ [MigrationsNext]_migrationVars
    /\ [QuickNext]_quickVars /\ [WebAssistantsNext]_webAssistantVars
BY DEF WorkspaceNext, DocumentsMove, documentVars, workspaceVars

WorkspaceInv ==
  /\ PinsInv /\ HistoryInv /\ AssistantsInv /\ RepliesInv /\ SpacesInv /\ MigrationsInv
  /\ QuickInv /\ EditorInv

\* Every step of the workspace keeps the invariants of all components.
LEMMA WorkspaceStays ==
  ASSUME WorkspaceInv, [WorkspaceNext]_workspaceVars
  PROVE  WorkspaceInv'
<1>1. PinsInv' /\ HistoryInv'
  BY WorkspaceMoves, PinsStay, HistoryStays DEF WorkspaceInv
<1>2. AssistantsInv' /\ RepliesInv' /\ SpacesInv'
  BY WorkspaceMoves, AssistantsStay, RepliesStay, SpacesStay DEF WorkspaceInv
<1>3. MigrationsInv' /\ QuickInv' /\ EditorInv'
  BY WorkspaceMoves, MigrationsStay, QuickStays, EditorStays DEF WorkspaceInv
<1>. QED
  BY <1>1, <1>2, <1>3 DEF WorkspaceInv

\* conversation-pin.service.ts:33, setting-history.service.ts:217,
\* assistant.service.ts:28, quick-reply.service.ts:85, workspace.service.ts:45 and
\* SettingsPage.tsx:793: whatever runs at the same time or fails half way, the
\* documents of a workspace are in order and the settings page shows them.
THEOREM WorkspaceStaysTrue == WorkspaceSpec => []StoresAreConsistent
<1>1. WorkspaceInit => WorkspaceInv
  BY PinsStart, HistoryStarts, AssistantsStart, RepliesStart, SpacesStart, MigrationsStart,
     QuickStarts,
     EditorStarts DEF WorkspaceInit, WorkspaceInv
<1>2. WorkspaceInv /\ [WorkspaceNext]_workspaceVars => WorkspaceInv'
  BY WorkspaceStays
<1>3. WorkspaceInv => StoresAreConsistent
  <2>1. SUFFICES ASSUME WorkspaceInv PROVE StoresAreConsistent
    OBVIOUS
  <2>2. /\ PinTypeOK /\ PinsAreLimited /\ AssistantsTypeOK /\ OneDefault /\ SpacesTypeOK
        /\ OwnersOwn
        /\ RepliesTypeOK /\ MigrationsTypeOK /\ PagesHaveCustomers
    BY <2>1 DEF WorkspaceInv, PinsInv, AssistantsInv, SpacesInv, RepliesInv, MigrationsInv
  <2>3. /\ HistoryTypeOK /\ NewestAreKept /\ HistoryIsTrue /\ ImagesAreStored /\ NoTwins
        /\ QuickTypeOK /\ ListIsCurrent /\ WebAssistantsTypeOK /\ EditorIsTheirs
    BY <2>1, HistoryHolds, RepliesStored, NoTwinsHolds, QuickHolds, EditorHolds DEF WorkspaceInv
  <2>. QED
    BY <2>2, <2>3, ListedIsJoinedIsHeard DEF StoresAreConsistent, WorkspaceTypeOK
<1>. QED
  BY <1>1, <1>2, <1>3, PTL DEF WorkspaceSpec

\* assistant.service.ts:80 and workspace-member.service.ts:213: what is replaced is
\* there until its successor is, and an owner stays one.
THEOREM WorkspaceReplaces == WorkspaceSpec => ReplacedAtOnce
<1>1. WorkspaceInit => AssistantsInv /\ SpacesInv
  BY AssistantsStart, SpacesStart DEF WorkspaceInit
<1>2. AssistantsInv /\ SpacesInv /\ [WorkspaceNext]_workspaceVars
        => AssistantsInv' /\ SpacesInv' /\ DefaultIsHandedOver /\ OwnersStay
  BY WorkspaceMoves, AssistantsStay, SpacesStay
<1>3. AssistantsInv /\ SpacesInv /\ [WorkspaceNext]_workspaceVars
        => [DefaultIsHandedOver /\ OwnersStay]_<<assistantVars, spaceVars>>
  BY <1>2
<1>. QED
  BY <1>1, <1>2, <1>3, PTL DEF WorkspaceSpec, ReplacedAtOnce
=============================================================================
