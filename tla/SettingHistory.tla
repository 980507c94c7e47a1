---------------------------- MODULE SettingHistory ----------------------------
(***************************************************************************)
(* The history of one user's settings (setting-history.service.ts), as     *)
(* updateAiSettings (ai-settings.service.ts) and the channels write it.    *)
(*                                                                         *)
(* A change is recorded after its answer, by a task of its own: it creates *)
(* an entry and then removes what is beyond the limit, each a request to   *)
(* the database that may fail and is not repeated.  A setting is one field *)
(* with a value; the nested paths and the wording of diffSettings are left *)
(* out, its omission of secrets is not.                                    *)
(***************************************************************************)
EXTENDS Naturals, FiniteSets, FiniteSetsExt

CONSTANTS
  Savers,      \* changes, each with its recording
  Fields,      \* the fields of the settings
  Secrets,     \* isSensitiveFieldName
  HistoryLimit \* SETTING_HISTORY_LIMIT

ASSUME HistoryAssumption ==
  HistoryLimit \in Nat \ {0} /\ Secrets \subseteq Fields /\ Fields # {} /\ IsFiniteSet(Savers)

VARIABLES
  settings, \* the values, as numbers of their changes
  histories,\* SettingHistory documents
  saver,    \* a change: its control point, its entry, and the entries it will remove
  clock,    \* createdAt is different for different entries
  made,     \* history: every entry that was created
  failures  \* history: some cleanup failed

historyVars == <<settings, histories, saver, clock, made, failures>>

Values == 0..Cardinality(Savers)
Entry == [field : Fields, old : Values, new : Values, created : Values]
NoEntry(f) == [field |-> f, old |-> 0, new |-> 0, created |-> 0]

\* The types of the settings, the entries and the tasks.
HistoryTypeOK ==
  /\ settings \in [Fields -> Values]
  /\ histories \subseteq Entry /\ made \subseteq Entry
  /\ \A k \in Savers :
       /\ saver[k].at \in {"new", "record", "insert", "find", "remove", "over"}
       /\ saver[k].entry \in Entry
       /\ saver[k].expired \subseteq Entry
  /\ clock \in Values
  /\ failures \in BOOLEAN

HistoryInit ==
  /\ settings = [f \in Fields |-> 0]
  /\ histories = {} /\ made = {}
  /\ saver = [k \in Savers |-> [at |-> "new", entry |-> NoEntry(CHOOSE f \in Fields : TRUE),
                                expired |-> {}]]
  /\ clock = 0
  /\ failures = FALSE

SaverGoto(k, point) == saver' = [saver EXCEPT ![k].at = point]

Older(e, f) == e.created < f.created
-----------------------------------------------------------------------------
\* updateAiSettings: one update, which returns the document as it was before.
Save(k, f, v) ==
  /\ saver[k].at = "new"
  /\ v = settings[f] \/ \A g \in Fields : settings[g] < v
  /\ settings' = [settings EXCEPT ![f] = v]
  /\ saver' = [saver EXCEPT ![k].at = "record",
                            ![k].entry = [@ EXCEPT !.field = f, !.old = settings[f], !.new = v]]
  /\ UNCHANGED <<histories, clock, made, failures>>

\* diffSettings: without a change that may be shown there is no entry.
IsRecorded(e) == e.old # e.new /\ e.field \notin Secrets

\* recordSettingHistory makes the entry, whose insertion comes later.
Record(k) ==
  /\ saver[k].at = "record"
  /\ \/ /\ IsRecorded(saver[k].entry)
        /\ clock' = clock + 1
        /\ saver' = [saver EXCEPT ![k].at = "insert", ![k].entry.created = clock + 1]
     \/ /\ ~IsRecorded(saver[k].entry)
        /\ SaverGoto(k, "over")
        /\ UNCHANGED clock
  /\ UNCHANGED <<settings, histories, made, failures>>

Insert(k) ==
  /\ saver[k].at = "insert"
  /\ histories' = histories \cup {saver[k].entry}
  /\ made' = made \cup {saver[k].entry}
  /\ SaverGoto(k, "find")
  /\ UNCHANGED <<settings, clock, failures>>

\* As a mutant of Overflow: an off-by-one in the limit.
OverflowByOne == {e \in histories : Cardinality({f \in histories : Older(e, f)}) >= HistoryLimit - 1}

\* removeExpiredHistories: the oldest of what there is now.
Overflow == {e \in histories : Cardinality({f \in histories : Older(e, f)}) >= HistoryLimit}

FindExpired(k) ==
  /\ saver[k].at = "find"
  /\ saver' = [saver EXCEPT ![k].at = IF Overflow = {} THEN "over" ELSE "remove", ![k].expired = Overflow]
  /\ UNCHANGED <<settings, histories, clock, made, failures>>

RemoveExpired(k) ==
  /\ saver[k].at = "remove"
  /\ histories' = histories \ saver[k].expired
  /\ SaverGoto(k, "over")
  /\ UNCHANGED <<settings, clock, made, failures>>

\* recordSettingHistorySafely: an error, or the end of the process.
RecordingFails(k) ==
  /\ saver[k].at \in {"record", "insert", "find", "remove"}
  /\ SaverGoto(k, "over")
  /\ failures' = TRUE
  /\ UNCHANGED <<settings, histories, clock, made>>

HistoryStep(k) ==
  \/ \E f \in Fields, v \in Values : Save(k, f, v)
  \/ Record(k) \/ Insert(k) \/ FindExpired(k) \/ RemoveExpired(k) \/ RecordingFails(k)

HistoryNext == \E k \in Savers : HistoryStep(k)

HistorySpec == HistoryInit /\ [][HistoryNext]_historyVars
-----------------------------------------------------------------------------
(* What must hold.                                                          *)

\* setting-history.service.ts:217: only what is beyond the limit is cleaned up.
\* The newest entries stay, whatever the order in which concurrent changes
\* insert and clean up, and when every task has ended well no more are left.
NewestAreKept ==
  /\ \A e \in made : Cardinality({f \in made : Older(e, f)}) < HistoryLimit => e \in histories
  /\ (~failures /\ \A k \in Savers : saver[k].at \in {"new", "over"})
       => Cardinality(histories) <= HistoryLimit

\* ai-settings.service.ts:69: two changes at once do not share an old value.
\* The entries of a field follow each other, and show no secret.
HistoryIsTrue ==
  \A e \in made : /\ e.field \notin Secrets
                  /\ \A f \in made : (e.field = f.field /\ e # f) => e.old # f.old /\ e.new # f.new
=============================================================================
