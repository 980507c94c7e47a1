------------------------------ MODULE MCDialogs ------------------------------
(***************************************************************************)
(* The two dialogs of the page that make a connection, with their cards on *)
(* the dashboard, checked side by side: one of them moves, the other stays *)
(* in an initial state.                                                    *)
(***************************************************************************)
EXTENDS WebQrLogin, WebPageLogin

VARIABLE used \* the dialog that moves

dialogVars == <<used, qrVars, pageLoginVars>>

DialogsInit ==
  /\ used \in {"qr", "page"}
  /\ QrInit /\ PageLoginInit
  /\ used = "qr" => offer = "none"

DialogsNext ==
  /\ UNCHANGED used
  /\ \/ used = "qr" /\ QrNext /\ UNCHANGED pageLoginVars
     \/ used = "page" /\ PageLoginNext /\ UNCHANGED qrVars

DialogsSpec == DialogsInit /\ [][DialogsNext]_dialogVars

\* DashboardPage.tsx:45 and :241, ConnectModal.tsx:83: when every answer has come
\* the dashboard shows what the server has, as far as the page was told, and
\* no list of Pages is offered that is known to be used or over.
DialogsAreTrue ==
  /\ used = "qr" => QrTypeOK
  /\ used = "page" => PageLoginTypeOK
  /\ AccountCardIsCurrent /\ PageCardIsCurrent /\ PickerIsLive
=============================================================================
