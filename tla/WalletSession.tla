--------------------------- MODULE WalletSession ---------------------------
(***************************************************************************)
(* The wallet connection of the frontend: instances of the hook            *)
(* frontend/src/hooks/useWallet.ts in the header and on the page, each     *)
(* with an address of its own, and the address they all keep in            *)
(* localStorage.  The Freighter extension is external: it answers at any   *)
(* time, with the account of that moment.  It answers with objects: that   *)
(* of isConnected or isAllowed counts as a yes whatever its field says, so *)
(* that the permission of the site is left out.                            *)
(***************************************************************************)
EXTENDS Integers

CONSTANTS
  Views,     \* instances of the hook
  Wallets,   \* accounts of the user
  NoWallet

ASSUME WalletSessionAssumption == NoWallet \notin Wallets

VARIABLES
  view,        \* instance -> its state
  persisted,   \* the address in localStorage, or NoWallet
  account,     \* Freighter: the account in use
  departed     \* history: accounts disconnected and not connected since

walletVars == <<view, persisted, account, departed>>

\* mount: "detect" awaits isConnected, "restore" awaits isAllowed for the
\* address in restoring.  before is history: the instance had the address when
\* a view disconnected it.
ViewState == [mount : {"detect", "restore", "over"}, restoring : Wallets \cup {NoWallet},
              address : Wallets \cup {NoWallet}, connecting : BOOLEAN,
              before : SUBSET Wallets]

WalletsTypeOK ==
  /\ view \in [Views -> ViewState]
  /\ persisted \in Wallets \cup {NoWallet}
  /\ account \in Wallets
  /\ departed \subseteq Wallets

Mounted == [mount |-> "detect", restoring |-> NoWallet, address |-> NoWallet,
            connecting |-> FALSE, before |-> {}]

WalletsInit ==
  /\ view = [v \in Views |-> Mounted]
  /\ persisted = NoWallet
  /\ account \in Wallets
  /\ departed = {}

-----------------------------------------------------------------------------
\* A page is loaded.
LoadPage ==
  /\ view' = [v \in Views |-> Mounted]
  /\ UNCHANGED <<persisted, account, departed>>

\* The user changes the account in the extension.
ChangeAccount(w) ==
  /\ account' = w
  /\ UNCHANGED <<view, persisted, departed>>

\* isConnected answers; nothing is restored when it throws.
Detected(v) ==
  /\ view[v].mount = "detect"
  /\ view' = [view EXCEPT ![v].mount = IF persisted = NoWallet THEN "over" ELSE "restore",
                          ![v].restoring = persisted]
  /\ UNCHANGED <<persisted, account, departed>>

DetectionFails(v) ==
  /\ view[v].mount = "detect"
  /\ view' = [view EXCEPT ![v].mount = "over"]
  /\ UNCHANGED <<persisted, account, departed>>

\* isAllowed answers: the address read before is shown.
Restored(v) ==
  /\ view[v].mount = "restore"
  /\ view' = [view EXCEPT ![v].mount = "over", ![v].address = view[v].restoring]
  /\ UNCHANGED <<persisted, account, departed>>

\* It throws: whatever is kept by now is removed.
RestoreFails(v) ==
  /\ view[v].mount = "restore"
  /\ view' = [view EXCEPT ![v].mount = "over"]
  /\ persisted' = NoWallet
  /\ UNCHANGED <<account, departed>>

\* The button of a view without an address.
Connect(v) ==
  /\ view[v].address = NoWallet /\ ~view[v].connecting
  /\ view' = [view EXCEPT ![v].connecting = TRUE]
  /\ UNCHANGED <<persisted, account, departed>>

\* setAllowed and getAddress answer.
Connected(v) ==
  /\ view[v].connecting
  /\ view' = [view EXCEPT ![v].connecting = FALSE, ![v].address = account]
  /\ persisted' = account
  /\ departed' = departed \ {account}
  /\ UNCHANGED account

\* The user refuses: the address is empty, and kept so.
ConnectRefused(v) ==
  /\ view[v].connecting
  /\ view' = [view EXCEPT ![v].connecting = FALSE, ![v].address = NoWallet]
  /\ persisted' = NoWallet
  /\ UNCHANGED <<account, departed>>

ConnectFails(v) ==
  /\ view[v].connecting
  /\ view' = [view EXCEPT ![v].connecting = FALSE]
  /\ UNCHANGED <<persisted, account, departed>>

Shows(v) == view[v].address

\* Mutant: the address stays in localStorage.
Forgotten(w) == persisted

Kept(w) == NoWallet

\* The other instances keep their addresses and what they have read.
Disconnect(v) ==
  LET w == Shows(v) IN
  /\ w # NoWallet
  /\ view' = [u \in Views |->
       [view[u] EXCEPT !.address = IF u = v THEN NoWallet ELSE @,
                       !.before = IF w \in {view[u].address, view[u].restoring}
                                  THEN @ \cup {w} ELSE @]]
  /\ persisted' = Kept(w)
  /\ departed' = departed \cup {w}
  /\ UNCHANGED account

WalletsNext ==
  \/ LoadPage
  \/ \E w \in Wallets : ChangeAccount(w)
  \/ \E v \in Views :
       \/ Detected(v) \/ DetectionFails(v) \/ Restored(v) \/ RestoreFails(v)
       \/ Connect(v) \/ Connected(v) \/ ConnectRefused(v) \/ ConnectFails(v)
       \/ Disconnect(v)

WalletsSpec == WalletsInit /\ [][WalletsNext]_walletVars

-----------------------------------------------------------------------------
(* Properties.                                                             *)

\* An account that was disconnected is not shown again until it is connected
\* again, but by the instances that showed it or had read it by then: not after
\* the next page load, whatever connections and restorations were under way.
DisconnectedStaysAway ==
  \A v \in Views : Shows(v) \in departed => Shows(v) \in view[v].before
=============================================================================
