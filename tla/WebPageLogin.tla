----------------------------- MODULE WebPageLogin -----------------------------
(***************************************************************************)
(* Connecting a Facebook Page in the browser: the steps of the dialog      *)
(* (facebookOAuthFlowReducer in components/dashboard/ConnectModal.tsx) and *)
(* the Page's card on the dashboard (pages/DashboardPage.tsx), which shows *)
(* the newest answer only.  The server is reduced to what the page asks of *)
(* it (FacebookPages has the rest).  Requests are answered in any order,   *)
(* or not at all.                                                          *)
(***************************************************************************)
EXTENDS Naturals

CONSTANTS
  PageSlots, \* numbers: the dialog's requests at once
  PageLoads  \* numbers: requests for the card at once

VARIABLES
  paged,      \* the server: the Page is connected
  offer,      \* the server: the list of Pages an OAuth login has left
  addressed,  \* the address of the page names that list
  shownStep,  \* the dialog's step, or "closed"
  pageCalls,  \* requests
  pageCard,   \* the Page's card
  pageLoads,  \* requests for the card
  newest,     \* the last of them
  pageNews,   \* history: the server has changed what the page was not told
  told,       \* history: the page was told that the list is used or over
  pickerLate  \* history: the list came when it was not awaited any more

pageLoginVars == <<paged, offer, addressed, shownStep, pageCalls, pageCard, pageLoads, newest,
                   pageNews, told, pickerLate>>

NoPageCall == [kind |-> "none", said |-> "", mine |-> FALSE]
Steps == {"login", "loading", "selecting", "connected", "restart"}

\* The types of the page and of the server behind it.
PageLoginTypeOK ==
  /\ {paged, addressed, pageNews, told, pickerLate} \subseteq BOOLEAN
  /\ offer \in {"none", "live", "over"}
  /\ shownStep \in Steps \cup {"closed"}
  /\ pageCalls \in [PageSlots -> [kind : {"none", "oauth", "list", "choose", "manual", "remove"},
       said : {"", "ok", "error", "over"}, mine : BOOLEAN]]
  /\ pageCard \in {"none", "yes", "no", "error"}
  /\ pageLoads \in [PageLoads -> {"none", "sent", "yes", "no", "error"}]
  /\ newest \in PageLoads \cup {0}

\* The page, which may be the one that Facebook sends the user back to.
PageLoginInit ==
  /\ paged = FALSE
  /\ offer \in {"none", "live"}
  /\ addressed = (offer = "live")
  /\ shownStep = IF addressed THEN "login" ELSE "closed"
  /\ pageCalls = [f \in PageSlots |-> NoPageCall]
  /\ pageCard = "none"
  /\ pageLoads = [l \in PageLoads |-> "none"]
  /\ newest = 0
  /\ pageNews = TRUE
  /\ told = FALSE
  /\ pickerLate = FALSE

pageCardVars == <<pageCard, pageLoads, newest>>
-----------------------------------------------------------------------------
(* The card.                                                                *)

\* loadFacebookStatus, in the first free slot: the card is empty until the answer.
LoadPage ==
  \E l \in PageLoads :
    /\ pageLoads[l] = "none" /\ \A k \in PageLoads : k < l => pageLoads[k] # "none"
    /\ pageLoads' = [pageLoads EXCEPT ![l] = "sent"]
    /\ newest' = l
    /\ pageCard' = "none"

\* The page is mounted, one of its two buttons is pressed, or another account
\* was connected.
RefreshPage ==
  /\ LoadPage
  /\ UNCHANGED <<paged, offer, addressed, shownStep, pageCalls, pageNews, told, pickerLate>>

\* The server's answer, or none within FACEBOOK_DASHBOARD_TIMEOUT_MS.
ServePage(l) ==
  /\ pageLoads[l] = "sent"
  /\ \E says \in {"error", IF paged THEN "yes" ELSE "no"} :
       /\ pageLoads' = [pageLoads EXCEPT ![l] = says]
       /\ pageNews' = (pageNews /\ (says = "error" \/ l # newest))
  /\ UNCHANGED <<paged, offer, addressed, shownStep, pageCalls, pageCard, newest, told,
                 pickerLate>>

\* As a mutant of IsNewest: every answer is shown.
IsAnAnswer(l) == l \in PageLoads

\* createLatestRequestRunner
IsNewest(l) == l = newest

PageLoaded(l) ==
  /\ pageLoads[l] \in {"yes", "no", "error"}
  /\ pageCard' = IF IsNewest(l) THEN pageLoads[l] ELSE pageCard
  /\ pageLoads' = [pageLoads EXCEPT ![l] = "none"]
  /\ UNCHANGED <<paged, offer, addressed, shownStep, pageCalls, newest, pageNews, told,
                 pickerLate>>
-----------------------------------------------------------------------------
(* What the page asks for.                                                  *)

Awaited(kinds) == \E f \in PageSlots : pageCalls[f].mine /\ pageCalls[f].kind \in kinds

PageCall(f, kind) ==
  /\ pageCalls[f] = NoPageCall /\ \A g \in PageSlots : g < f => pageCalls[g] # NoPageCall
  /\ pageCalls' = [pageCalls EXCEPT ![f] = [kind |-> kind, said |-> "", mine |-> TRUE]]
  /\ UNCHANGED <<paged, offer, pageCardVars, pageNews, pickerLate>>

\* The effect on the address, which is then cleared.
AskPages(f) ==
  /\ addressed /\ shownStep # "closed"
  /\ addressed' = FALSE /\ shownStep' = "loading" /\ told' = FALSE
  /\ PageCall(f, "list")

\* startFacebook, which is to lead to Facebook.
BeginOAuth(f) ==
  /\ shownStep \in {"login", "restart"} /\ ~addressed /\ ~Awaited({"oauth", "list", "choose"})
  /\ shownStep' = "loading"
  /\ PageCall(f, "oauth") /\ UNCHANGED <<addressed, told>>

\* The picker's button waits for the request before.
ChoosePage(f) ==
  /\ shownStep = "selecting" /\ ~Awaited({"oauth", "list", "choose"})
  /\ PageCall(f, "choose") /\ UNCHANGED <<addressed, shownStep, told>>

\* The form for an id and a token, offered at the first step and while the list
\* is awaited.
ConnectByHand(f) ==
  /\ shownStep \in {"login", "loading"} /\ ~addressed /\ ~Awaited({"manual"})
  /\ PageCall(f, "manual") /\ UNCHANGED <<addressed, shownStep, told>>

\* deactivateAccount
RemovePage(f) ==
  /\ shownStep = "closed" /\ pageCard = "yes" /\ ~Awaited({"remove"})
  /\ PageCall(f, "remove") /\ UNCHANGED <<addressed, shownStep, told>>
-----------------------------------------------------------------------------
(* The server.  A list is good for one choice; any request may fail.        *)

Serve(f) ==
  LET kind == pageCalls[f].kind
      over == kind \in {"list", "choose"} /\ offer # "live" IN
  /\ kind # "none" /\ pageCalls[f].said = ""
  /\ \E said \in {"error", IF over THEN "over" ELSE "ok"} :
       /\ pageCalls' = [pageCalls EXCEPT ![f].said = said]
       /\ paged' = IF said = "ok" /\ kind \in {"choose", "manual", "remove"}
                   THEN kind # "remove" ELSE paged
       /\ offer' = IF said = "ok" /\ kind = "choose" THEN "over" ELSE offer
       /\ pageNews' = (pageNews \/ paged' # paged)
  /\ UNCHANGED <<addressed, shownStep, pageCardVars, told, pickerLate>>

ExpireOffer ==
  /\ offer = "live" /\ offer' = "over"
  /\ UNCHANGED <<paged, addressed, shownStep, pageCalls, pageCardVars, pageNews, told, pickerLate>>
-----------------------------------------------------------------------------
(* Answers.  Those to a dialog that was closed change nothing it shows, but *)
(* still reload the card.                                                   *)

\* The slot is free again; after a success onConnected reloads the card.
Returned(f, success) ==
  /\ pageCalls' = [pageCalls EXCEPT ![f] = NoPageCall]
  /\ pageNews' = (pageNews /\ ~success)
  /\ IF success THEN LoadPage ELSE UNCHANGED pageCardVars
  /\ UNCHANGED <<paged, offer, addressed>>

\* The page is left, and a new one begins with the list of Pages or without:
\* what is still under way is answered by no one.
LeaveForFacebook(f) ==
  /\ pageCalls[f].kind = "oauth" /\ pageCalls[f].said = "ok"
  /\ \E listed \in BOOLEAN :
       /\ offer' = IF listed THEN "live" ELSE offer
       /\ addressed' = listed
       /\ shownStep' = IF listed THEN "login" ELSE "restart"
  /\ pageCalls' = [g \in PageSlots |-> NoPageCall]
  /\ pageCard' = "none" /\ pageLoads' = [l \in PageLoads |-> "none"] /\ newest' = 0
  /\ pageNews' = TRUE /\ told' = FALSE /\ pickerLate' = FALSE
  /\ UNCHANGED paged

\* The login cannot begin; a dialog closed since leaves the page all the same.
OAuthFailed(f) ==
  /\ pageCalls[f].kind = "oauth" /\ pageCalls[f].said = "error"
  /\ Returned(f, FALSE)
  /\ shownStep' = IF pageCalls[f].mine THEN "restart" ELSE shownStep
  /\ UNCHANGED <<told, pickerLate>>

\* The reducer takes a list at any step.
PagesAnswered(f) ==
  LET c == pageCalls[f] IN
  /\ c.kind = "list" /\ c.said # ""
  /\ Returned(f, FALSE)
  /\ IF c.mine
     THEN /\ shownStep' = IF c.said = "ok" THEN "selecting" ELSE "restart"
          /\ pickerLate' = (pickerLate \/ (c.said = "ok" /\ shownStep # "loading"))
          /\ told' = (c.said # "ok")
     ELSE UNCHANGED <<shownStep, pickerLate, told>>

\* As a mutant of AfterFailure: every failure leaves the picker.
AlwaysAgain(said) == IF said = "ok" THEN "restart" ELSE shownStep

\* facebookOAuthSelectionFailure: only the answer that the list is over ends it;
\* any other error is shown in a picker that is still there, and moves no step.
AfterFailure(said) == IF said = "over" THEN "restart" ELSE shownStep

ChoiceAnswered(f) ==
  LET c == pageCalls[f] IN
  /\ c.kind = "choose" /\ c.said # ""
  /\ Returned(f, c.said = "ok")
  /\ told' = (told \/ (c.mine /\ c.said # "error"))
  /\ shownStep' = IF c.mine THEN (IF c.said = "ok" THEN "connected" ELSE AfterFailure(c.said))
                  ELSE shownStep
  /\ UNCHANGED pickerLate

\* A connection by hand takes the dialog to its last step, the list's removal does not.
ConnectionAnswered(f) ==
  LET c == pageCalls[f] IN
  /\ c.kind \in {"manual", "remove"} /\ c.said # ""
  /\ Returned(f, c.said = "ok")
  /\ shownStep' = IF c.mine /\ c.kind = "manual" /\ c.said = "ok" THEN "connected" ELSE shownStep
  /\ UNCHANGED <<told, pickerLate>>

\* No answer: a login or a list ends at the restart, the rest stays as it is.
PageCallLost(f) ==
  /\ pageCalls[f] # NoPageCall
  /\ Returned(f, FALSE)
  /\ shownStep' = IF pageCalls[f].mine /\ pageCalls[f].kind \in {"list", "oauth"}
                THEN "restart" ELSE shownStep
  /\ UNCHANGED <<told, pickerLate>>

OpenPages ==
  /\ shownStep = "closed" /\ shownStep' = "login"
  /\ UNCHANGED <<paged, offer, addressed, pageCalls, pageCardVars, pageNews, told, pickerLate>>

\* The dialog is unmounted; the next one begins at the first step.
ClosePages ==
  /\ shownStep # "closed" /\ ~addressed /\ shownStep' = "closed"
  /\ pageCalls' = [f \in PageSlots |-> [pageCalls[f] EXCEPT !.mine = FALSE]]
  /\ told' = FALSE /\ pickerLate' = FALSE
  /\ UNCHANGED <<paged, offer, addressed, pageCardVars, pageNews>>
-----------------------------------------------------------------------------
PageLoginNext ==
  \/ RefreshPage \/ ExpireOffer \/ OpenPages \/ ClosePages
  \/ \E l \in PageLoads : ServePage(l) \/ PageLoaded(l)
  \/ \E f \in PageSlots :
       \/ AskPages(f) \/ BeginOAuth(f) \/ ChoosePage(f) \/ ConnectByHand(f) \/ RemovePage(f)
       \/ Serve(f)
       \/ LeaveForFacebook(f) \/ OAuthFailed(f)
       \/ PagesAnswered(f) \/ ChoiceAnswered(f) \/ ConnectionAnswered(f) \/ PageCallLost(f)

PageLoginSpec == PageLoginInit /\ [][PageLoginNext]_pageLoginVars
-----------------------------------------------------------------------------
(* What must hold when every answer has come.                               *)

PageSettled ==
  /\ \A f \in PageSlots : pageCalls[f] = NoPageCall
  /\ \A l \in PageLoads : pageLoads[l] = "none"

\* DashboardPage.tsx:45: of requests that overlap the last decides what the
\* Page's card says, and every change the page was told of is followed by one.
PageCardIsCurrent ==
  PageSettled /\ ~pageNews /\ pageCard # "error" => pageCard = IF paged THEN "yes" ELSE "no"

\* ConnectModal.tsx:83: the picker outlives neither its success nor the answer
\* that its list is over.
PickerIsLive == ~pickerLate /\ shownStep = "selecting" => ~told
=============================================================================
