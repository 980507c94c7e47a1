------------------------------ MODULE WebQrLogin ------------------------------
(***************************************************************************)
(* Connecting a personal account in the browser: the dialog that shows a   *)
(* QR code and polls it (components/dashboard/ConnectModal.tsx) and the    *)
(* account's card on the dashboard behind it (pages/DashboardPage.tsx).    *)
(* Telegram and Zalo log in alike, Zalo without the password.  The server  *)
(* is reduced to what the page asks of it (TelegramPersonal has the rest). *)
(* Requests are answered in any order, or not at all.                      *)
(***************************************************************************)
EXTENDS Naturals, Sequences

CONSTANTS
  QrSlots,    \* numbers: the page's requests at once
  Loads,      \* numbers: requests for the card at once
  MaxAttempts \* bound: QR logins

ASSUME AttemptsBound == MaxAttempts \in Nat

VARIABLES
  attempts, \* the server's QR logins, by number
  linked,   \* the server: the account is connected
  opened,   \* the dialog is open
  qr,       \* the login it shows
  calls,    \* the page's requests
  card,     \* the account's card
  loads,    \* requests for the card
  unheard,  \* history: the server has changed what the page was not told
  belated   \* history: the last requests for the card overlapped or one failed

qrVars == <<attempts, linked, opened, qr, calls, card, loads, unheard, belated>>

\* "verifying": Telegram has the password; the status is still the old one.
Unended == {"waiting", "password_required", "verifying"}
Statuses == Unended \cup {"connected", "failed", "gone"}
NoQr == [id |-> 0, status |-> "none"]
NoCall == [kind |-> "none", id |-> 0, said |-> "", mine |-> FALSE]

\* The types of the page and of the server behind it.
QrTypeOK ==
  /\ attempts \in Seq(Statuses)
  /\ {linked, opened, unheard, belated} \subseteq BOOLEAN
  /\ qr \in [id : 0..MaxAttempts, status : Statuses \cup {"none"}]
  /\ calls \in [QrSlots -> [kind : {"none", "start", "poll", "password", "off"},
       id : 0..MaxAttempts, said : Statuses \cup {""}, mine : BOOLEAN]]
  /\ card \in {"none", "yes", "no"}
  /\ loads \in [Loads -> {"none", "sent", "yes", "no"}]

QrInit ==
  /\ attempts = <<>>
  /\ linked = FALSE
  /\ opened = FALSE
  /\ qr = NoQr
  /\ calls = [f \in QrSlots |-> NoCall]
  /\ card = "none"
  /\ loads = [l \in Loads |-> "none"]
  /\ unheard = TRUE
  /\ belated = FALSE

attemptVars == <<attempts, linked>>
cardVars == <<card, loads, belated>>
-----------------------------------------------------------------------------
(* The card.                                                                *)

\* loadStatus, in the first free slot.
LoadStatus ==
  \E l \in Loads :
    /\ loads[l] = "none" /\ \A k \in Loads : k < l => loads[k] # "none"
    /\ loads' = [loads EXCEPT ![l] = "sent"]
    /\ belated' = \E k \in Loads : loads[k] # "none"

\* The page is mounted, its button is pressed, or a Page was connected; bound:
\* while no other is under way.
Refresh ==
  /\ \A l \in Loads : loads[l] = "none"
  /\ LoadStatus
  /\ UNCHANGED <<attemptVars, opened, qr, calls, card, unheard>>

\* A request that fails is taken for the answer that there is no account.
ServeLoad(l) ==
  /\ loads[l] = "sent"
  /\ \E fails \in BOOLEAN :
       /\ loads' = [loads EXCEPT ![l] = IF linked /\ ~fails THEN "yes" ELSE "no"]
       /\ unheard' = (unheard /\ fails)
       /\ belated' = (belated \/ fails)
  /\ UNCHANGED <<attemptVars, opened, qr, calls, card>>

\* The answer that comes last is shown.
Loaded(l) ==
  /\ loads[l] \in {"yes", "no"}
  /\ card' = loads[l]
  /\ loads' = [loads EXCEPT ![l] = "none"]
  /\ UNCHANGED <<attemptVars, opened, qr, calls, unheard, belated>>
-----------------------------------------------------------------------------
(* What the page asks for.                                                  *)

Awaits(kinds) == \E f \in QrSlots : calls[f].mine /\ calls[f].kind \in kinds

Call(f, kind, id) ==
  /\ calls[f] = NoCall /\ \A g \in QrSlots : g < f => calls[g] # NoCall
  /\ calls' = [calls EXCEPT ![f] = [kind |-> kind, id |-> id, said |-> "", mine |-> TRUE]]
  /\ UNCHANGED <<attemptVars, opened, qr, cardVars, unheard>>

\* Another code: the provider's own button asks for one at any time, whatever is
\* shown or awaited; the dialog may also open with it.
Start(f) == opened /\ Call(f, "start", 0)

\* The button of another provider: the login is not shown or polled any more, but
\* an answer under way brings it back.
LeaveProvider ==
  /\ opened /\ qr' = NoQr
  /\ UNCHANGED <<attemptVars, opened, calls, cardVars, unheard>>

\* A login is polled until it ends.
Poll(f) == opened /\ qr.status \in Unended /\ Call(f, "poll", qr.id)

\* The form is disabled from a request to the first answer, whichever that is:
\* here it may be sent whenever it is shown.
SendPassword(f) == opened /\ qr.status = "password_required" /\ Call(f, "password", qr.id)

\* deactivateAccount
Deactivate(f) == ~opened /\ card = "yes" /\ ~Awaits({"off"}) /\ Call(f, "off", 0)
-----------------------------------------------------------------------------
(* The server.                                                              *)

Says(f, id, said) == calls' = [calls EXCEPT ![f].id = id, ![f].said = said]

Abandoned == [i \in DOMAIN attempts |-> IF attempts[i] \in Unended THEN "gone" ELSE attempts[i]]

\* The phone scans the code, Telegram takes or refuses the password, or the
\* login fails.
Advance(i) ==
  /\ i \in DOMAIN attempts /\ attempts[i] \in {"waiting", "verifying"}
  /\ \E s \in {"password_required", "connected", "failed"} :
       /\ attempts' = [attempts EXCEPT ![i] = s]
       /\ linked' = (linked \/ s = "connected")
       /\ unheard' = (unheard \/ s = "connected")
  /\ UNCHANGED <<opened, qr, calls, cardVars>>

\* A login that waits for its scan is used again, one at its password is not.
ServeStart(f) ==
  LET waiting == {i \in DOMAIN attempts : attempts[i] = "waiting"} IN
  /\ calls[f].kind = "start" /\ calls[f].said = ""
  /\ IF waiting # {}
     THEN (\E i \in waiting : Says(f, i, "waiting")) /\ UNCHANGED attempts
     ELSE /\ Len(attempts) < MaxAttempts
          /\ attempts' = Append(Abandoned, "waiting")
          /\ Says(f, Len(attempts) + 1, "waiting")
  /\ UNCHANGED <<linked, opened, qr, cardVars, unheard>>

\* The password is handed on; its outcome is left to the polls.
ServeLogin(f) ==
  LET i == calls[f].id  taken == calls[f].kind = "password" /\ attempts[i] = "password_required" IN
  /\ calls[f].kind \in {"poll", "password"} /\ calls[f].said = ""
  /\ attempts' = IF taken THEN [attempts EXCEPT ![i] = "verifying"] ELSE attempts
  /\ Says(f, i, IF calls[f].kind = "password" /\ ~taken THEN "gone"
                ELSE IF attempts[i] = "verifying" THEN "password_required" ELSE attempts[i])
  /\ UNCHANGED <<linked, opened, qr, cardVars, unheard>>

ServeOff(f) ==
  /\ calls[f].kind = "off" /\ calls[f].said = ""
  /\ linked' = FALSE /\ attempts' = Abandoned
  /\ unheard' = TRUE
  /\ Says(f, 0, "gone")
  /\ UNCHANGED <<opened, qr, cardVars>>
-----------------------------------------------------------------------------
(* Answers.  Those to a dialog that was closed change nothing it shows, but *)
(* still reload the card.                                                   *)

\* As a mutant of Tell: the card is left as it is.
TellNobody(connected) == unheard' = (unheard /\ ~connected) /\ UNCHANGED <<loads, belated>>

\* onConnected, for an answer that says so.
Tell(connected) ==
  /\ unheard' = (unheard /\ ~connected)
  /\ IF connected THEN LoadStatus ELSE UNCHANGED <<loads, belated>>

Return(f) == calls' = [calls EXCEPT ![f] = NoCall]

\* setQr of whatever comes last; a login that is gone is an error and is dropped.
LoginAnswered(f) ==
  LET c == calls[f] IN
  /\ c.kind \in {"start", "poll", "password"} /\ c.said # ""
  /\ Return(f)
  /\ qr' = IF c.mine /\ c.said # "gone" THEN [id |-> c.id, status |-> c.said] ELSE qr
  /\ Tell(c.kind = "poll" /\ c.said = "connected")
  /\ UNCHANGED <<attemptVars, opened, card>>

OffAnswered(f) ==
  /\ calls[f].kind = "off" /\ calls[f].said # ""
  /\ Return(f)
  /\ Tell(TRUE)
  /\ UNCHANGED <<attemptVars, opened, qr, card>>

CallLost(f) ==
  /\ calls[f] # NoCall
  /\ Return(f)
  /\ UNCHANGED <<attemptVars, opened, qr, cardVars, unheard>>

OpenDialog ==
  /\ ~opened /\ opened' = TRUE
  /\ UNCHANGED <<attemptVars, qr, calls, cardVars, unheard>>

\* The dialog is unmounted, and its interval ends; answers that would only change
\* what it shows are left out.
CloseDialog ==
  /\ opened /\ opened' = FALSE
  /\ qr' = NoQr
  /\ calls' = [f \in QrSlots |-> IF calls[f].said \in {"", "connected"} \/ calls[f].kind = "off"
       THEN [calls[f] EXCEPT !.mine = FALSE] ELSE NoCall]
  /\ UNCHANGED <<attemptVars, cardVars, unheard>>
-----------------------------------------------------------------------------
QrNext ==
  \/ Refresh \/ LeaveProvider \/ OpenDialog \/ CloseDialog
  \/ \E l \in Loads : ServeLoad(l) \/ Loaded(l)
  \/ \E i \in 1..MaxAttempts : Advance(i)
  \/ \E f \in QrSlots :
       \/ Start(f) \/ Poll(f) \/ SendPassword(f) \/ Deactivate(f)
       \/ ServeStart(f) \/ ServeLogin(f) \/ ServeOff(f)
       \/ LoginAnswered(f) \/ OffAnswered(f) \/ CallLost(f)

QrSpec == QrInit /\ [][QrNext]_qrVars
-----------------------------------------------------------------------------
(* What must hold when every answer has come.                               *)

\* DashboardPage.tsx:241: the card follows every login and logout the page was
\* told of, also by an answer to a dialog closed since.
AccountCardIsCurrent ==
  (\A f \in QrSlots : calls[f] = NoCall) /\ (\A l \in Loads : loads[l] = "none")
    /\ ~unheard /\ ~belated
  => card = IF linked THEN "yes" ELSE "no"
=============================================================================
