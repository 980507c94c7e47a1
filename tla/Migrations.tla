------------------------------ MODULE Migrations ------------------------------
(***************************************************************************)
(* The unique indexes of the conversations of one channel and the scripts  *)
(* that replace them while the server writes                               *)
(* (migrate-conversation-owner-index.ts, which scopes the first index to   *)
(* an owner, and migrate-facebook-conversation-customer-index.ts, which    *)
(* lets a Page have a conversation with each customer).  A script can die  *)
(* at any step and be run again; an operator runs one at a time, as        *)
(* src/README.md:112 asks.                                                 *)
(*                                                                         *)
(* MongoDB (external): createIndex fails if documents share a key and a    *)
(* write fails that would share one; dropIndex fails without the index.    *)
(***************************************************************************)
EXTENDS Naturals, FiniteSets

CONSTANTS
  Keepers, \* owners of the channel
  Peers,   \* customers
  MaxDocs  \* bound: conversations at once

VARIABLES
  docs,     \* the Conversation documents
  indexes,  \* the unique indexes of the collection
  script,   \* the running script: its kind, control point and what it listed
  migrated  \* history: a run of the script for Facebook has succeeded

migrationVars == <<docs, indexes, script, migrated>>

\* {platform, channelId}; {platform, channelId, ownerId}; the same and the
\* customer, for Facebook; the same again, for the other platforms only.
Indexes == {"page", "owner", "facebook", "nonFacebook"}
Slots == 1..MaxDocs
NoDoc == [platform |-> "none"]
Docs == [platform : {"facebook", "zalo_personal"}, owner : Keepers, customer : Peers]
NoScript == [kind |-> "none", at |-> "idle", seen |-> {}]

\* The types of the collection and of the script.
MigrationsTypeOK ==
  /\ docs \in [Slots -> Docs \cup {NoDoc}]
  /\ indexes \subseteq Indexes
  /\ script \in [kind : {"none", "owner", "facebook"}, at : {"idle", "list", "create", "drop"},
                 seen : SUBSET Indexes]
  /\ migrated \in BOOLEAN

\* The index of the first releases.
MigrationsInit ==
  /\ docs = [i \in Slots |-> NoDoc]
  /\ indexes = {"page"}
  /\ script = NoScript
  /\ migrated = FALSE

\* Two documents have the same key in an index that holds both.
SameKey(index, a, b) ==
  /\ a # NoDoc /\ b # NoDoc /\ a.platform = b.platform
  /\ index # "page" => a.owner = b.owner
  /\ index = "facebook" => a.platform = "facebook" /\ a.customer = b.customer
  /\ index = "nonFacebook" => a.platform # "facebook"

Conforms(index, some) == \A i, j \in Slots : i # j => ~SameKey(index, some[i], some[j])
-----------------------------------------------------------------------------
(* The server, any number of whose upserts may find nothing and insert.     *)

InsertDoc ==
  /\ \E i \in Slots, doc \in Docs :
       /\ docs[i] = NoDoc
       /\ docs' = [docs EXCEPT ![i] = doc]
  /\ \A index \in indexes : Conforms(index, docs')
  /\ UNCHANGED <<indexes, script, migrated>>

DeleteDoc(i) ==
  /\ docs[i] # NoDoc
  /\ docs' = [docs EXCEPT ![i] = NoDoc]
  /\ UNCHANGED <<indexes, script, migrated>>

\* A server that starts with the present schema makes its indexes (autoIndex),
\* or goes on without one that cannot be made.
AutoIndex(index) ==
  /\ index \in {"facebook", "nonFacebook"}
  /\ Conforms(index, docs)
  /\ indexes' = indexes \cup {index}
  /\ UNCHANGED <<docs, script, migrated>>
-----------------------------------------------------------------------------
(* The scripts.                                                             *)

ScriptGoto(point) == script' = [script EXCEPT !.at = point]
ScriptEnds == script' = NoScript

RunScript(kind) ==
  /\ script = NoScript
  /\ script' = [kind |-> kind, at |-> "list", seen |-> {}]
  /\ UNCHANGED <<docs, indexes, migrated>>

\* What a script makes and what it drops of what it saw.  An index by owner that
\* is not for all platforms stops the first script, and is kept by the second.
Wanted(kind) == IF kind = "owner" THEN {"owner"} ELSE {"facebook", "nonFacebook"}
Legacy(kind) == IF kind = "owner" THEN {"page"} ELSE {"page", "owner"}

\* As a mutant of Compatible: the options of the listed indexes are not compared.
AnyOptions(kind, seen) == kind \in {"owner", "facebook"} /\ seen \subseteq Indexes

Compatible(kind, seen) == kind = "owner" => "nonFacebook" \notin seen

ListIndexes ==
  /\ script.at = "list"
  /\ IF Compatible(script.kind, indexes)
     THEN script' = [script EXCEPT !.at = "create", !.seen = indexes]
     ELSE ScriptEnds
  /\ UNCHANGED <<docs, indexes, migrated>>

\* As a mutant of MayDrop: the old index goes before all the new ones are there.
MayDropEarly == script.at \in {"create", "drop"}

MayDrop == script.at = "create" /\ Wanted(script.kind) \subseteq indexes

\* createIndex of what was not listed; Facebook's first.
CreateIndex(index) ==
  /\ script.at = "create"
  /\ index \in Wanted(script.kind) \ (script.seen \cup indexes)
  /\ index = "nonFacebook" => "facebook" \in indexes
  /\ IF Conforms(index, docs)
     THEN indexes' = indexes \cup {index} /\ UNCHANGED script
     ELSE ScriptEnds /\ UNCHANGED indexes
  /\ UNCHANGED <<docs, migrated>>

StartDropping ==
  /\ MayDrop
  /\ ScriptGoto("drop")
  /\ UNCHANGED <<docs, indexes, migrated>>

DropLegacy(index) ==
  /\ script.at = "drop"
  /\ index \in Legacy(script.kind) \cap script.seen \cap indexes
  /\ indexes' = indexes \ {index}
  /\ UNCHANGED <<docs, script, migrated>>

ScriptSucceeds ==
  /\ script.at = "drop"
  /\ Legacy(script.kind) \cap script.seen \cap indexes = {}
  /\ ScriptEnds
  /\ migrated' = (migrated \/ script.kind = "facebook")
  /\ UNCHANGED <<docs, indexes>>

\* The process is killed or MongoDB does not answer.
ScriptDies ==
  /\ script # NoScript
  /\ ScriptEnds
  /\ UNCHANGED <<docs, indexes, migrated>>

MigrationsNext ==
  \/ InsertDoc
  \/ \E i \in Slots : DeleteDoc(i)
  \/ \E index \in Indexes : AutoIndex(index) \/ CreateIndex(index) \/ DropLegacy(index)
  \/ \E kind \in {"owner", "facebook"} : RunScript(kind)
  \/ ListIndexes \/ StartDropping \/ ScriptSucceeds \/ ScriptDies

MigrationsSpec == MigrationsInit /\ [][MigrationsNext]_migrationVars
-----------------------------------------------------------------------------
(* What must hold.                                                          *)

\* migrate-facebook-conversation-customer-index.ts:52: at no moment, whichever
\* script died where, can an owner get a conversation twice.
NoTwins ==
  \A i, j \in Slots : i # j =>
    ~SameKey("facebook", docs[i], docs[j]) /\ ~SameKey("nonFacebook", docs[i], docs[j])

\* src/README.md:112: after the script for Facebook no index is left that allows
\* a Page one customer only, and none comes back.
PagesHaveCustomers == migrated => indexes = {"facebook", "nonFacebook"}
=============================================================================
