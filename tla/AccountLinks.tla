----------------------------- MODULE AccountLinks -----------------------------
(***************************************************************************)
(* The account link plugin: a main account delegates its importance to a   *)
(* remote account, which may then harvest but not send or receive.         *)
(***************************************************************************)
EXTENDS Multisigs

NewRemoteAccountNotification(remote) == [Type |-> "NewRemoteAccount", RemoteAccountKey |-> remote]

RemoteAccountLinkNotification(main, remote, action) ==
    [Type |-> "RemoteAccountLink", MainAccountKey |-> main, RemoteAccountKey |-> remote, LinkAction |-> action]

AccountLinkTransaction(signer, remote, action) ==
    [Type |-> "AccountLink", Signer |-> signer, RemotePublicKey |-> remote, LinkAction |-> action]

PublishAccountLink(tx) ==
    (IF tx.LinkAction = "Link"
     THEN <<NewRemoteAccountNotification(tx.RemotePublicKey), AccountPublicKeyNotification(tx.RemotePublicKey)>>
     ELSE << >>)
    \o <<AddressInteractionNotification(tx.Signer, tx.Type, {}, {tx.RemotePublicKey}),
         RemoteAccountLinkNotification(tx.Signer, tx.RemotePublicKey, tx.LinkAction)>>

-----------------------------------------------------------------------------
(* Validators *)

IsRemote(account) == account.AccountType \in {"Remote", "Remote_Unlinked"}

AccountLinkAvailabilityValidator(n, c) ==
    LET main == c.accounts[n.MainAccountKey]
    IN  IF n.LinkAction = "Link" THEN main.AccountType = "Unlinked"
        ELSE main.AccountType = "Main" /\ main.LinkedAccountKey = n.RemoteAccountKey

(* The remote account is looked up by key: one known by its address only is not found. *)
NewRemoteAccountAvailabilityValidator(n, c) ==
    FindByKey(c, n.RemoteAccountKey) => c.accounts[n.RemoteAccountKey].AccountType = "Remote_Unlinked"

RemoteSenderValidator(n, c) == ~(FindByKey(c, n.Signer) /\ IsRemote(c.accounts[n.Signer]))

RemoteInteractionValidator(n, c) ==
    n.TransactionType # "AccountLink" =>
        /\ \A a \in n.ParticipantsByAddress :
               LET address == ResolveAddress(c, a)
               IN  ~(FindByAddress(c, address) /\ IsRemote(c.accounts[address]))
        /\ \A k \in n.ParticipantsByKey : ~(FindByKey(c, k) /\ IsRemote(c.accounts[k]))

-----------------------------------------------------------------------------
(* Observer *)

SetLink(c, account, linkedKey, type) ==
    [c EXCEPT !.accounts[account].LinkedAccountKey = linkedKey, !.accounts[account].AccountType = type]

(* Mutant: unlinking forgets the remote account. *)
AccountLinkObserverKeepsRemote(n, x, c) ==
    LET main == n.MainAccountKey
        remote == n.RemoteAccountKey
    IN  IF ~FindByKey(c, main) \/ ~FindByKey(c, remote) THEN Throw(c)
        ELSE IF ShouldLink(n.LinkAction, x)
        THEN SetLink(SetLink(c, main, remote, "Main"), remote, main, "Remote")
        ELSE SetLink(c, main, NoKey, "Unlinked")

AccountLinkObserver(n, x, c) ==
    LET main == n.MainAccountKey
        remote == n.RemoteAccountKey
    IN  IF ~FindByKey(c, main) \/ ~FindByKey(c, remote) THEN Throw(c)
        ELSE IF ShouldLink(n.LinkAction, x)
        THEN SetLink(SetLink(c, main, remote, "Main"), remote, main, "Remote")
        ELSE SetLink(SetLink(c, main, NoKey, "Unlinked"), remote, NoKey, "Remote_Unlinked")
=============================================================================
