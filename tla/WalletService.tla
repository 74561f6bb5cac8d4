---------------------------- MODULE WalletService ----------------------------
(***************************************************************************)
(* The account registry of src/wallet/src/lib.rs: WalletService, which    *)
(* owns one AccountHandle per open account, and the AccountService future *)
(* of each account, which is Sealed or Unsealed and serves the requests   *)
(* queued on its events channel one at a time.                            *)
(*                                                                         *)
(* Accounts are named by small numeric ids; an account directory on disk  *)
(* is the id's membership in dirs.  A request is abstracted to its kind;  *)
(* the payment-style requests an unsealed account serves are "info".      *)
(* Deleting an account is two steps: handle_account_delete removes the    *)
(* handle and sends Disable, and a spawned future later renames the       *)
(* directory if, and only if, the account answered Disabled.              *)
(*                                                                         *)
(* WalletService::poll forwards each open account's notification stream   *)
(* and stops the whole service when one of them ends; an unsealed         *)
(* account's stream ends when the node's chain notifications end (node    *)
(* shutdown, the environment here).                                        *)
(***************************************************************************)
EXTENDS Naturals, SequencesExt

CONSTANTS
    Ids,        \* account ids find_account_id can return: 1..N
    InitDirs,   \* account directories present at start-up
    MaxQueue    \* bound: requests queued on one account's events channel

Requests == {"seal", "unseal_ok", "unseal_bad", "info"}

VARIABLES
    accounts,   \* DOMAIN of WalletService.accounts (the open handles)
    dirs,       \* account directories on disk
    svc,        \* id -> "none", "sealed", "unsealed" or "terminated"
    queue,      \* id -> requests on the account's events channel
    deleting,   \* id -> state of the delete future: "none", "waiting", "disabled", "canceled"
    running,    \* the WalletService future has not returned Ready
    nodeDown    \* the node has shut down: chain notification streams end

vars == <<accounts, dirs, svc, queue, deleting, running, nodeDown>>

-----------------------------------------------------------------------------
(* WalletService.                                                          *)

\* find_account_id: the first id that is neither open nor on disk.
FindAccountId_MapOnly(used, disk) == CHOOSE i \in Ids \ used : \A j \in Ids \ used : i <= j

FindAccountId(used, disk) == CHOOSE i \in Ids \ (used \cup disk) : \A j \in Ids \ (used \cup disk) : i <= j

\* open_account: a new handle and a Sealed AccountService with an empty queue.
OpenAccount(id) ==
    /\ accounts' = accounts \cup {id}
    /\ svc' = [svc EXCEPT ![id] = "sealed"]
    /\ queue' = [queue EXCEPT ![id] = <<>>]

\* CreateAccount: create_account writes the key files into a fresh
\* directory, then open_account(id, true).
CreateAccount ==
    /\ running /\ Ids \ (accounts \cup dirs) # {}
    /\ LET id == FindAccountId(accounts, dirs)
       IN /\ dirs' = dirs \cup {id}
          /\ OpenAccount(id)
    /\ UNCHANGED <<deleting, running, nodeDown>>

\* Account::request: unbounded_send(...).expect("connected") panics when
\* the account future has ended and dropped its receiver; the panic ends
\* the service future and drops every handle.
Panic ==
    /\ running' = FALSE
    /\ accounts' = {}
    /\ UNCHANGED <<dirs, svc, queue, deleting, nodeDown>>

\* handle_account_request for an open account: the request is sent on the
\* account's events channel (an unknown id is answered with an error and
\* changes nothing).
AccountRequest ==
    \E id \in accounts, r \in Requests :
        /\ running /\ Len(queue[id]) < MaxQueue
        /\ IF svc[id] = "terminated" THEN Panic
           ELSE /\ queue' = [queue EXCEPT ![id] = Append(@, r)]
                /\ UNCHANGED <<accounts, dirs, svc, deleting, running, nodeDown>>

\* handle_account_delete for an open account: remove the handle, send
\* Disable and spawn the future waiting for the answer; dropping the
\* handle closes the account's events channel behind the Disable.
DeleteAccount_KeepHandle ==
    \E id \in accounts :
        /\ running
        /\ queue' = [queue EXCEPT ![id] = Append(@, "disable")]
        /\ deleting' = [deleting EXCEPT ![id] = "waiting"]
        /\ UNCHANGED <<accounts, dirs, svc, running, nodeDown>>

DeleteAccount ==
    \E id \in accounts :
        /\ running
        /\ IF svc[id] = "terminated" THEN Panic
           ELSE /\ accounts' = accounts \ {id}
                /\ queue' = [queue EXCEPT ![id] = Append(@, "disable")]
                /\ deleting' = [deleting EXCEPT ![id] = "waiting"]
                /\ UNCHANGED <<dirs, svc, running, nodeDown>>

\* The delete future: on Disabled, delete_account renames the directory
\* to .trash and answers AccountDeleted; on a dropped answer (Canceled) it
\* answers an error and leaves the directory.
DeleteFinish_OnlyDisabled(id) ==
    /\ deleting[id] = "disabled"
    /\ dirs' = dirs \ {id}
    /\ deleting' = [deleting EXCEPT ![id] = "none"]
    /\ UNCHANGED <<accounts, svc, queue, running, nodeDown>>

DeleteFinish(id) ==
    /\ deleting[id] \in {"disabled", "canceled"}
    /\ dirs' = IF deleting[id] = "disabled" THEN dirs \ {id} ELSE dirs
    /\ deleting' = [deleting EXCEPT ![id] = "none"]
    /\ UNCHANGED <<accounts, svc, queue, running, nodeDown>>

-----------------------------------------------------------------------------
(* AccountService::poll, one request at a time.                            *)

\* SealedAccountService::poll: Unseal with the right password unseals;
\* Disable ends the future without answering; every other request is
\* answered with an error.
Sealed(r) ==
    CASE r = "unseal_ok" -> "unsealed"
      [] r = "disable"   -> "terminated"
      [] OTHER           -> "sealed"

\* UnsealedAccountService::poll: Seal answers Sealed and seals; Disable
\* ends the future, the AccountService answering Disabled.
Unsealed(r) ==
    CASE r = "seal"    -> "sealed"
      [] r = "disable" -> "terminated"
      [] OTHER         -> "unsealed"

\* How the delete future learns the end of a Disable: only the Unsealed
\* path sends AccountResponse::Disabled.
DisableAnswer(state) == IF state = "unsealed" THEN "disabled" ELSE "canceled"

AccountPoll(id) ==
    /\ svc[id] \in {"sealed", "unsealed"} /\ queue[id] # <<>>
    /\ LET r == Head(queue[id])
       IN /\ svc' = [svc EXCEPT ![id] = IF @ = "sealed" THEN Sealed(r) ELSE Unsealed(r)]
          /\ deleting' = IF r = "disable"
                         THEN [deleting EXCEPT ![id] = DisableAnswer(svc[id])]
                         ELSE deleting
    /\ queue' = [queue EXCEPT ![id] = Tail(@)]
    /\ UNCHANGED <<accounts, dirs, running, nodeDown>>

\* UnsealedAccountService::poll: the chain notification stream ends, the
\* account terminates; the requests still queued are dropped with their
\* oneshots, so a pending Disable is answered Canceled.
AccountShutdown(id) ==
    /\ nodeDown /\ svc[id] = "unsealed"
    /\ svc' = [svc EXCEPT ![id] = "terminated"]
    /\ deleting' = IF "disable" \in Range(queue[id]) THEN [deleting EXCEPT ![id] = "canceled"] ELSE deleting
    /\ queue' = [queue EXCEPT ![id] = <<>>]
    /\ UNCHANGED <<accounts, dirs, running, nodeDown>>

\* Sealed or unsealed poll: the events channel is closed (no handle holds
\* its sender any more) and empty; the account terminates.
AccountChannelClosed(id) ==
    /\ svc[id] \in {"sealed", "unsealed"} /\ queue[id] = <<>> /\ id \notin accounts
    /\ svc' = [svc EXCEPT ![id] = "terminated"]
    /\ UNCHANGED <<accounts, dirs, queue, deleting, running, nodeDown>>

-----------------------------------------------------------------------------
(* The rest of WalletService::poll, and the node.                          *)

\* The forwarding loop finds the notification stream of an open account
\* ended (its future terminated), or the service's own chain subscription
\* ends: poll returns Ready and the service, with every handle, is dropped.
ServiceStop ==
    /\ running
    /\ nodeDown \/ \E id \in accounts : svc[id] = "terminated"
    /\ running' = FALSE
    /\ accounts' = {}
    /\ UNCHANGED <<dirs, svc, queue, deleting, nodeDown>>

NodeShutdown ==
    /\ ~nodeDown
    /\ nodeDown' = TRUE
    /\ UNCHANGED <<accounts, dirs, svc, queue, deleting, running>>

-----------------------------------------------------------------------------

\* WalletService::new: every account directory is opened, sealed.
Init ==
    /\ accounts = InitDirs
    /\ dirs = InitDirs
    /\ svc = [id \in Ids |-> IF id \in InitDirs THEN "sealed" ELSE "none"]
    /\ queue = [id \in Ids |-> <<>>]
    /\ deleting = [id \in Ids |-> "none"]
    /\ running = TRUE
    /\ nodeDown = FALSE

Next ==
    \/ CreateAccount \/ AccountRequest \/ DeleteAccount
    \/ \E id \in Ids : DeleteFinish(id) \/ AccountPoll(id) \/ AccountShutdown(id) \/ AccountChannelClosed(id)
    \/ ServiceStop \/ NodeShutdown

Spec == Init /\ [][Next]_vars

\* The executor polls every account future that has a message on its
\* channel and every spawned delete future whose oneshot has resolved; the
\* user is under no obligation to create, request or delete.
\* An ended stream wakes the service task, so ServiceStop is taken too.
LiveSpec ==
    /\ Spec
    /\ WF_vars(ServiceStop)
    /\ \A id \in Ids : WF_vars(AccountPoll(id)) /\ WF_vars(DeleteFinish(id))

-----------------------------------------------------------------------------
(* Properties.                                                             *)

\* Every open account has its directory: an id handed out by
\* find_account_id is never one whose directory a pending delete is about
\* to rename away.
ServedHaveDirs == \A id \in accounts : id \in dirs

\* A delete in progress ends: the Disable sent by handle_account_delete
\* reaches the account future, which answers Disabled or drops the oneshot,
\* and the spawned future then answers the request; no delete waits on an
\* account future that has stopped serving its channel.
DeleteCompletes == \A id \in Ids : deleting[id] = "waiting" ~> deleting[id] = "none"

\* The wallet service stops only after the node has shut down.  The
\* forwarding loop of WalletService::poll stops every account as soon as
\* one account future it still holds a handle of has ended, so
\* handle_account_delete must remove the handle before its Disable ends
\* the account, and nothing else may end an account it holds.
ServiceStopsOnlyOnShutdown == ~running => nodeDown

\* While the wallet runs, deleting an account (handle_account_delete and its
\* spawned future) either removes its directory or leaves the account open:
\* no directory outlives its handle without a delete in progress (else the
\* account is unreachable until the wallet restarts). After the service has
\* stopped no account is served, which is not this defect.
DirsServed == running => \A id \in dirs : id \in accounts \/ deleting[id] # "none"

=============================================================================
