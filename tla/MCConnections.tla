---------------------------- MODULE MCConnections ----------------------------
(***************************************************************************)
(* Three components that keep a connection to a service outside, checked   *)
(* side by side.  They share no variable and no action, so one of them     *)
(* moves and the others stay in an initial state: the run explores the sum *)
(* of their state spaces instead of the product.                           *)
(***************************************************************************)
EXTENDS FacebookPages, TelegramPersonal, ServerLifecycle, TLC

VARIABLE moves \* the component that moves

connectionVars == <<moves, pageVars, telegramVars, serverVars>>

\* A component with several initial states waits in one of them.
ConnectionsInit ==
  /\ moves \in {"pages", "telegram", "server"}
  /\ PagesInit /\ TelegramInit /\ ServerInit
  /\ moves # "pages" => stored = [t \in Tokens |-> NoValue]

ConnectionsNext ==
  /\ UNCHANGED moves
  /\ \/ moves = "pages" /\ PagesNext /\ UNCHANGED <<telegramVars, serverVars>>
     \/ moves = "telegram" /\ TelegramNext /\ UNCHANGED <<pageVars, serverVars>>
     \/ moves = "server" /\ ServerNext /\ UNCHANGED <<pageVars, telegramVars>>

ConnectionsSpec == ConnectionsInit /\ [][ConnectionsNext]_connectionVars

\* The variables of the component that moves keep their types: the document of
\* the Page, the account's logins and clients, the store's socket.
ConnectionsTypeOK ==
  /\ moves = "pages" => PagesTypeOK
  /\ moves = "telegram" => TelegramTypeOK
  /\ moves = "server" => ServerTypeOK

\* The components give their pairs the same names, which keeps the group of
\* permutations small.
Symmetry == Permutations(Owners)
=============================================================================
