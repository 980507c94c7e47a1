--------------------------- MODULE MCAuthSessions ---------------------------
(***************************************************************************)
(* The server's login sessions and the browser's side of one on small      *)
(* instances.  They share no variable, so each moves only while the other  *)
(* is in its initial state.                                                *)
(***************************************************************************)
EXTENDS AuthSessions, BrowserSession, TLC

loginVars == <<vars, browserVars>>

LoginInit == Init /\ BrowserInit

AuthIdle == Init /\ ~legacy /\ \A s \in Sessions : ~Active(s)

LoginNext ==
  \/ BrowserInit /\ Next /\ UNCHANGED browserVars
  \/ AuthIdle /\ BrowserNext /\ UNCHANGED vars

LoginSpec == LoginInit /\ [][LoginNext]_loginVars

\* App.tsx:221, :245, :275 and api.ts:26: whatever answers come late or never,
\* the tab shows the user its cookies act for, with that user's workspaces, its
\* requests name the workspace it shows, and the login page means that the session
\* is over - the parts on the session unless requests that change it overlapped or
\* got lost, the last one also unless refresh or logout was turned away.
BrowserIsTrue ==
  BrowserTypeOK /\ SignedOutMeansOver /\ SignedInIsOwner /\ ListIsOwn /\ HeaderIsShown

\* Requests are interchangeable too; the browser's states would pay for it.
Symmetry == Permutations(Sessions) \cup Permutations(Visitors)
=============================================================================
