------------------------------ MODULE Namespaces ------------------------------
(***************************************************************************)
(* The namespace plugin: root namespaces with their histories of owners    *)
(* and lifetimes, child namespaces, the flat lookup map beside them, and   *)
(* aliases, through which every address and mosaic id in a transaction is  *)
(* resolved.                                                               *)
(*                                                                         *)
(* c.namespaces[id] is the history of root id, oldest first; consecutive   *)
(* roots of one owner share their children.  c.namespaceById maps every    *)
(* active namespace to its path, c.namespaceGroups every expiry height to  *)
(* root ids, and c.namespaceSizes holds the two running size counters.     *)
(***************************************************************************)
EXTENDS LedgerCache

CONSTANTS
    NamespaceIds,           \* ids with the namespace flag set
    MaxRollbackBlocks,
    GracePeriodDuration, MinNamespaceDuration, MaxNamespaceDuration,
    MaxNamespaceDepth, MaxChildNamespaces,
    RootFeePerBlock, ChildFee, SinkAccount

MaxHeight == 1000000
Eternal_Artifact_Duration == 0
NoAlias == [AliasType |-> "None"]

-----------------------------------------------------------------------------
(* Lifetimes and roots *)

NamespaceLifetime(start, end, gracePeriod) ==
    [Start |-> start, End |-> IF end = MaxHeight THEN end ELSE end + gracePeriod]

IsActiveLifetime(lifetime, height) == lifetime.Start <= height /\ height < lifetime.End

IsActiveExcludingGracePeriod(lifetime, height) ==
    lifetime.Start <= height /\ height < lifetime.End - GracePeriodDuration

RootNamespace(owner, lifetime, children) ==
    [Owner |-> owner, Lifetime |-> lifetime, Children |-> children, Alias |-> NoAlias]

(* Namespace::alias *)
AliasOf(id, rootId, root) == IF id = rootId THEN root.Alias ELSE root.Children[id].Alias

(* The number of trailing roots that share the children of the active one *)
ActiveOwnerHistoryDepth(history) ==
    CHOOSE d \in 1..Len(history) :
        /\ \A i \in (Len(history) - d + 1)..Len(history) : history[i].Owner = Last(history).Owner
        /\ d < Len(history) => history[Len(history) - d].Owner # Last(history).Owner

SetActiveChildren(history, children) ==
    [i \in DOMAIN history |->
        IF i > Len(history) - ActiveOwnerHistoryDepth(history)
        THEN [history[i] EXCEPT !.Children = children]
        ELSE history[i]]

(* RootNamespaceHistory::push_back: a renewal keeps the children, not the alias *)
PushRoot(history, owner, lifetime) ==
    Append(history,
           RootNamespace(owner, lifetime,
                         IF history # <<>> /\ Last(history).Owner = owner
                         THEN Last(history).Children
                         ELSE << >>))

(* RootNamespaceHistory::prune: what is left, and the ids no longer present *)
PruneHistory(history, height) == SelectSeq(history, LAMBDA r : r.Lifetime.End > height)

PrunedIds(id, history, height) ==
    LET lastSurvivor(child) == \E i \in DOMAIN history :
            /\ history[i].Lifetime.End > height
            /\ child \in DOMAIN history[i].Children
            /\ \A j \in (i + 1)..Len(history) :
                   history[j].Lifetime.End <= height => child \notin DOMAIN history[j].Children
        removed == UNION {DOMAIN history[i].Children :
                              i \in {k \in DOMAIN history : history[k].Lifetime.End <= height}}
    IN  {child \in removed : ~lastSurvivor(child)}
            \cup (IF PruneHistory(history, height) = <<>> THEN {id} ELSE {})

-----------------------------------------------------------------------------
(* BasicNamespaceCacheDelta *)

(* NamespaceLookupMixin::find *)
RootIdOf(c, id) == Head(c.namespaceById[id])
RootOf(c, id) == Last(c.namespaces[RootIdOf(c, id)])
FindNamespace(c, id) == Has(c, "namespaceById", id)

ChangeSizes(c, active, deep) ==
    [c EXCEPT !.namespaceSizes = [Active |-> @.Active + active, Deep |-> @.Deep + deep]]

PathsOf(children) == [id \in DOMAIN children |-> children[id].Path]
RemoveAll(flatMap, children) == Restrict(flatMap, DOMAIN flatMap \ DOMAIN children)
NumChildren(root) == Cardinality(DOMAIN root.Children)

InsertRootNamespace(c0, id, owner, lifetime) ==
    LET c == [c0 EXCEPT !.namespaceGroups = AddIdentifierWithGroup(@, lifetime.End, id)]
        history == c.namespaces[id]
        active == Last(history)
        pushed == [c EXCEPT !.namespaces[id] = PushRoot(@, owner, lifetime)]
    IN  IF ~Has(c, "namespaces", id)
        THEN ChangeSizes([c EXCEPT !.namespaces = Put(@, id, PushRoot(<<>>, owner, lifetime)),
                                   !.namespaceById = Put(@, id, <<id>>)],
                         1, 1)
        ELSE IF active.Owner # owner
        THEN ChangeSizes([pushed EXCEPT !.namespaceById = RemoveAll(@, active.Children)],
                         0 - NumChildren(active), 1)
        ELSE ChangeSizes(pushed, 0, NumChildren(active) + 1)

InsertChildNamespace(c, path) ==
    LET rootId == Head(path)
        id == Last(path)
        history == c.namespaces[rootId]
        children == Last(history).Children
        parentId == path[Len(path) - 1]
    IN  IF \/ ~Has(c, "namespaces", rootId)
           \/ id \in DOMAIN children
           \/ parentId # rootId /\ parentId \notin DOMAIN children
        THEN Throw(c)
        ELSE ChangeSizes(
                 [c EXCEPT !.namespaces[rootId] =
                               SetActiveChildren(@, Put(children, id, [Path |-> path, Alias |-> NoAlias])),
                           !.namespaceById = Put(@, id, path)],
                 1, ActiveOwnerHistoryDepth(history))

SetAlias(c, id, alias) ==
    LET rootId == RootIdOf(c, id)
        history == c.namespaces[rootId]
    IN  IF ~FindNamespace(c, id) THEN Throw(c)
        ELSE IF id = rootId
        THEN [c EXCEPT !.namespaces[rootId][Len(history)].Alias = alias]
        ELSE [c EXCEPT !.namespaces[rootId] =
                 SetActiveChildren(@, [Last(history).Children EXCEPT ![id].Alias = alias])]

(* Mutant: the children of the previous owner do not come back into the flat map. *)
RemoveRootNamespaceForgetsChildren(c0, id) ==
    LET history == c0.namespaces[id]
        removed == Last(history)
        current == Last(Front(history))
        c == [c0 EXCEPT !.namespaceGroups = RemoveIdentifierWithGroup(@, removed.Lifetime.End, id)]
        popped == [c EXCEPT !.namespaces[id] = Front(@)]
    IN  IF Len(history) = 1
        THEN ChangeSizes([c EXCEPT !.namespaces = Drop(@, id), !.namespaceById = Drop(@, id)], -1, -1)
        ELSE ChangeSizes([popped EXCEPT !.namespaceById = RemoveAll(@, removed.Children)],
                         NumChildren(current) - NumChildren(removed),
                         0 - (1 + NumChildren(removed)))

RemoveRootNamespace(c0, id) ==
    LET history == c0.namespaces[id]
        removed == Last(history)
        current == Last(Front(history))
        c == [c0 EXCEPT !.namespaceGroups = RemoveIdentifierWithGroup(@, removed.Lifetime.End, id)]
        popped == [c EXCEPT !.namespaces[id] = Front(@)]
    IN  IF Len(history) = 1
        THEN IF NumChildren(removed) # 0 THEN Throw(c0)
             ELSE ChangeSizes([c EXCEPT !.namespaces = Drop(@, id), !.namespaceById = Drop(@, id)],
                              -1, -1)
        ELSE IF removed.Owner = current.Owner
        THEN ChangeSizes(popped, 0, 0 - (1 + NumChildren(removed)))
        ELSE ChangeSizes([popped EXCEPT !.namespaceById =
                              PathsOf(current.Children) @@ RemoveAll(@, removed.Children)],
                         NumChildren(current) - NumChildren(removed),
                         0 - (1 + NumChildren(removed)))

RemoveChildNamespace(c, id) ==
    LET path == c.namespaceById[id]
        rootId == Head(path)
        history == c.namespaces[rootId]
        children == Last(history).Children
        hasDescendents == \E other \in DOMAIN children :
            /\ Len(path) < Len(children[other].Path)
            /\ children[other].Path[Len(path)] = id
    IN  IF id \notin DOMAIN children \/ hasDescendents THEN Throw(c)
        ELSE ChangeSizes([c EXCEPT !.namespaces[rootId] = SetActiveChildren(@, Drop(children, id)),
                                   !.namespaceById = Drop(@, id)],
                         -1, 0 - ActiveOwnerHistoryDepth(history))

RemoveNamespace(c, id) ==
    IF ~FindNamespace(c, id) THEN Throw(c)
    ELSE IF RootIdOf(c, id) = id THEN RemoveRootNamespace(c, id)
    ELSE RemoveChildNamespace(c, id)

(* The identifier groups are left as they are. *)
PruneNamespaces(c, height) ==
    LET AllSizes(history) == Len(history) + FoldFunction(LAMBDA r, n : NumChildren(r) + n, 0, history)
        ActiveSizes(history) == IF history = <<>> THEN 0 ELSE 1 + NumChildren(Last(history))
        PruneOne(id, d) ==
            IF ~Has(d, "namespaces", id) THEN d
            ELSE LET history == d.namespaces[id]
                     left == PruneHistory(history, height)
                 IN  ChangeSizes(
                         [d EXCEPT !.namespaceById =
                                       Restrict(@, DOMAIN @ \ PrunedIds(id, history, height)),
                                   !.namespaces = IF left = <<>> THEN Drop(@, id) ELSE Put(@, id, left)],
                         ActiveSizes(left) - ActiveSizes(history),
                         AllSizes(left) - AllSizes(history))
    IN  FoldSet(PruneOne, c, IdentifiersWithGroup(c.namespaceGroups, height))

-----------------------------------------------------------------------------
(* Resolution of aliases *)

(* RunNamespaceResolver: whether the namespace is still active is not checked. *)
RunNamespaceResolver(c, id, aliasType) ==
    /\ FindNamespace(c, id)
    /\ AliasOf(id, RootIdOf(c, id), RootOf(c, id)).AliasType = aliasType

(* ResolverContext::resolve; what no resolver knows is taken as it is. *)
ResolveAs(c, unresolved, aliasType) ==
    IF unresolved \in NamespaceIds /\ RunNamespaceResolver(c, unresolved, aliasType)
    THEN AliasOf(unresolved, RootIdOf(c, unresolved), RootOf(c, unresolved)).Value
    ELSE unresolved

ResolveAddress(c, unresolved) == ResolveAs(c, unresolved, "Address")
ResolveMosaic(c, unresolved) == ResolveAs(c, unresolved, "Mosaic")

-----------------------------------------------------------------------------
(* Notifications *)

AliasLinkNotification(id, action) ==
    [Type |-> "AliasLink", NamespaceId |-> id, AliasAction |-> action]

AliasedDataNotification(type, id, action, data) ==
    [Type |-> type, NamespaceId |-> id, AliasAction |-> action, AliasedData |-> data]

RootNamespaceNotification(signer, id, duration) ==
    [Type |-> "RootNamespace", Signer |-> signer, NamespaceId |-> id, Duration |-> duration]

ChildNamespaceNotification(signer, id, parentId) ==
    [Type |-> "ChildNamespace", Signer |-> signer, NamespaceId |-> id, ParentId |-> parentId]

NamespaceRequiredNotification(signer, id) ==
    [Type |-> "NamespaceRequired", Signer |-> signer, NamespaceId |-> id]

-----------------------------------------------------------------------------
(* Transactions *)

RootNamespaceTransaction(signer, id, duration) ==
    [Type |-> "NamespaceRegistration", Signer |-> signer, RegistrationType |-> "Root",
     Id |-> id, Duration |-> duration]

ChildNamespaceTransaction(signer, id, parentId) ==
    [Type |-> "NamespaceRegistration", Signer |-> signer, RegistrationType |-> "Child",
     Id |-> id, ParentId |-> parentId]

AliasTransaction(type, signer, id, action, data) ==
    [Type |-> type, Signer |-> signer, NamespaceId |-> id, AliasAction |-> action, AliasedData |-> data]

(* No rental fee is charged to the nemesis account or for an eternal namespace. *)
PublishNamespaceRentalFee(tx, currency, nemesis) ==
    LET rentalFee == IF tx.RegistrationType = "Root" THEN RootFeePerBlock * tx.Duration ELSE ChildFee
    IN  IF \/ tx.Signer = nemesis
           \/ tx.RegistrationType = "Root" /\ tx.Duration = Eternal_Artifact_Duration
        THEN << >>
        ELSE <<BalanceTransferNotification(tx.Signer, SinkAccount, currency, rentalFee, "Dynamic")>>

PublishNamespaceRegistration(tx, currency, nemesis) ==
    <<AccountPublicKeyNotification(SinkAccount)>>
    \o PublishNamespaceRentalFee(tx, currency, nemesis)
    \o <<IF tx.RegistrationType = "Root"
         THEN RootNamespaceNotification(tx.Signer, tx.Id, tx.Duration)
         ELSE ChildNamespaceNotification(tx.Signer, tx.Id, tx.ParentId)>>

PublishAddressAlias(tx) ==
    <<NamespaceRequiredNotification(tx.Signer, tx.NamespaceId),
      AliasLinkNotification(tx.NamespaceId, tx.AliasAction),
      AliasedDataNotification("AliasedAddress", tx.NamespaceId, tx.AliasAction, tx.AliasedData)>>

PublishMosaicAlias(tx) ==
    <<NamespaceRequiredNotification(tx.Signer, tx.NamespaceId),
      AliasLinkNotification(tx.NamespaceId, tx.AliasAction),
      AliasedDataNotification("AliasedMosaicId", tx.NamespaceId, tx.AliasAction, tx.AliasedData),
      MosaicRequiredNotification(tx.Signer, tx.AliasedData, {}, "Resolved")>>

-----------------------------------------------------------------------------
(* Validators *)

RootNamespaceValidator(n) ==
    n.Duration = Eternal_Artifact_Duration
        \/ (MinNamespaceDuration <= n.Duration /\ n.Duration <= MaxNamespaceDuration)

RootNamespaceAvailabilityValidator(n, x, c) ==
    LET root == RootOf(c, n.NamespaceId)
    IN  /\ x.Height # 1 => n.Duration # Eternal_Artifact_Duration
        /\ FindNamespace(c, n.NamespaceId) =>
               /\ root.Lifetime.End # MaxHeight
               /\ n.Duration # Eternal_Artifact_Duration
               /\ IsActiveLifetime(root.Lifetime, x.Height) => root.Owner = n.Signer

NamespaceDurationOverflowValidator(n, x, c) ==
    LET lifetime == RootOf(c, n.NamespaceId).Lifetime
    IN  FindNamespace(c, n.NamespaceId) /\ IsActiveLifetime(lifetime, x.Height) =>
            lifetime.End + n.Duration <= x.Height + MaxNamespaceDuration

ChildNamespaceAvailabilityValidator(n, x, c) ==
    /\ ~FindNamespace(c, n.NamespaceId)
    /\ FindNamespace(c, n.ParentId)
    /\ Len(c.namespaceById[n.ParentId]) # MaxNamespaceDepth
    /\ IsActiveExcludingGracePeriod(RootOf(c, n.ParentId).Lifetime, x.Height)
    /\ RootOf(c, n.ParentId).Owner = n.Signer

RootNamespaceMaxChildrenValidator(n, c) == NumChildren(RootOf(c, n.ParentId)) < MaxChildNamespaces

RequiredNamespaceValidator(n, x, c) ==
    /\ FindNamespace(c, n.NamespaceId)
    /\ IsActiveExcludingGracePeriod(RootOf(c, n.NamespaceId).Lifetime, x.Height)
    /\ RootOf(c, n.NamespaceId).Owner = n.Signer

AliasAvailabilityValidator(n, c) ==
    /\ FindNamespace(c, n.NamespaceId)
    /\ LET alias == AliasOf(n.NamespaceId, RootIdOf(c, n.NamespaceId), RootOf(c, n.NamespaceId))
       IN  (n.AliasAction = "Link") <=> (alias.AliasType = "None")

UnlinkAliasedDataConsistencyValidator(n, aliasType, c) ==
    n.AliasAction = "Unlink" =>
        /\ FindNamespace(c, n.NamespaceId)
        /\ AliasOf(n.NamespaceId, RootIdOf(c, n.NamespaceId), RootOf(c, n.NamespaceId))
               = [AliasType |-> aliasType, Value |-> n.AliasedData]

-----------------------------------------------------------------------------
(* Observers *)

IsRenewal(root, n, height) == IsActiveLifetime(root.Lifetime, height) /\ root.Owner = n.Signer

CalculateNewLifetime(n, height) ==
    NamespaceLifetime(height,
                      IF n.Duration = Eternal_Artifact_Duration THEN MaxHeight ELSE height + n.Duration,
                      GracePeriodDuration)

CalculateLifetime(c, n, height) ==
    LET root == RootOf(c, n.NamespaceId)
    IN  IF FindNamespace(c, n.NamespaceId) /\ IsRenewal(root, n, height)
        THEN NamespaceLifetime(root.Lifetime.Start, root.Lifetime.End + n.Duration, 0)
        ELSE CalculateNewLifetime(n, height)

RootNamespaceObserver(n, x, c) ==
    IF IsCommit(x)
    THEN InsertRootNamespace(c, n.NamespaceId, n.Signer, CalculateLifetime(c, n, x.Height))
    ELSE RemoveNamespace(c, n.NamespaceId)

ChildNamespaceObserver(n, x, c) ==
    IF ~IsCommit(x) THEN RemoveNamespace(c, n.NamespaceId)
    ELSE IF ~FindNamespace(c, n.ParentId) THEN Throw(c)
    ELSE InsertChildNamespace(c, Append(c.namespaceById[n.ParentId], n.NamespaceId))

AliasedObserverHandler(n, x, c, aliasType) ==
    SetAlias(c, n.NamespaceId,
             IF ShouldLink(n.AliasAction, x)
             THEN [AliasType |-> aliasType, Value |-> n.AliasedData]
             ELSE NoAlias)

(* Mutant: expired namespaces are pruned at once, while they can still be rolled back. *)
NamespacePruningObserverAtOnce(x, c) == CacheBlockPruningObserver(x, 1, 0, c, PruneNamespaces)

NamespacePruningObserver(x, c) ==
    CacheBlockPruningObserver(x, 1, MaxRollbackBlocks, c, PruneNamespaces)
=============================================================================
