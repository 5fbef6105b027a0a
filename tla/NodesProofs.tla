----------------------------- MODULE NodesProofs ----------------------------
(***************************************************************************)
(* Proofs about the composition that the runs of a node check: every       *)
(* component behaves in it as its own specification says, so the theorems  *)
(* of DevicesProofs, LegacyProofs and TorProofs hold of it.                *)
(***************************************************************************)
EXTENDS MCNodes, DevicesProofs, LegacyProofs, TorProofs, TLAPS

\* In every behaviour of the composed specification, the component in focus
\* behaves as its own specification says and stays in focus: what is proved of a
\* component holds of the composition.
THEOREM NodesRunComponents ==
  MCSpec =>
    /\ focus = "sync" => SyncSpec /\ [](focus = "sync")
    /\ focus = "pairing" => Spec /\ [](focus = "pairing")
    /\ focus = "accounts" => AccountsSpec /\ [](focus = "accounts")
    /\ focus = "mls" => MLSSpec /\ [](focus = "mls")
    /\ focus = "contacts" => LegacyContactsSpec /\ [](focus = "contacts")
    /\ focus = "edits" => EditsSpec /\ [](focus = "edits")
    /\ focus = "pool" => PoolSpec /\ [](focus = "pool")
    /\ focus = "keys" => KeysSpec /\ [](focus = "keys")
    /\ focus = "groups" => GroupsSpec /\ [](focus = "groups")
    /\ focus = "launcher" => LauncherSpec /\ [](focus = "launcher")
    /\ focus = "download" => DownloadSpec /\ [](focus = "download")
    /\ focus = "switch" => SwitchSpec /\ [](focus = "switch")
    /\ focus = "tor" => TorSpec /\ [](focus = "tor")
<1>1. MCSpec /\ focus = "sync" => SyncSpec /\ [](focus = "sync")
  <2>1. MCInit /\ focus = "sync" => SyncInit
    BY DEF MCInit
  <2>2. focus = "sync" /\ [MCNext]_mcVars =>
         [SyncNext]_syncVars /\ (focus = "sync")'
    BY DEF MCNext, mcVars
  <2> QED BY <2>1, <2>2, PTL DEF MCSpec, SyncSpec
<1>2. MCSpec /\ focus = "pairing" => Spec /\ [](focus = "pairing")
  <2>1. MCInit /\ focus = "pairing" => Init
    BY DEF MCInit
  <2>2. focus = "pairing" /\ [MCNext]_mcVars =>
         [Next]_vars /\ (focus = "pairing")'
    BY DEF MCNext, mcVars
  <2> QED BY <2>1, <2>2, PTL DEF MCSpec, Spec
<1>3. MCSpec /\ focus = "accounts" => AccountsSpec /\ [](focus = "accounts")
  <2>1. MCInit /\ focus = "accounts" => AccountsInit
    BY DEF MCInit
  <2>2. focus = "accounts" /\ [MCNext]_mcVars =>
         [AccountsNext]_accountVars /\ (focus = "accounts")'
    BY DEF MCNext, mcVars
  <2> QED BY <2>1, <2>2, PTL DEF MCSpec, AccountsSpec
<1>4. MCSpec /\ focus = "mls" => MLSSpec /\ [](focus = "mls")
  <2>1. MCInit /\ focus = "mls" => MLSInit
    BY DEF MCInit
  <2>2. focus = "mls" /\ [MCNext]_mcVars =>
         [MLSNext]_mlsVars /\ (focus = "mls")'
    BY DEF MCNext, mcVars
  <2> QED BY <2>1, <2>2, PTL DEF MCSpec, MLSSpec
<1>5. MCSpec /\ focus = "contacts" => LegacyContactsSpec /\ [](focus = "contacts")
  <2>1. MCInit /\ focus = "contacts" => LegacyContactsInit
    BY DEF MCInit
  <2>2. focus = "contacts" /\ [MCNext]_mcVars =>
         [LegacyContactsNext]_legacyContactVars /\ (focus = "contacts")'
    BY DEF MCNext, mcVars
  <2> QED BY <2>1, <2>2, PTL DEF MCSpec, LegacyContactsSpec
<1>6. MCSpec /\ focus = "edits" => EditsSpec /\ [](focus = "edits")
  <2>1. MCInit /\ focus = "edits" => EditsInit
    BY DEF MCInit
  <2>2. focus = "edits" /\ [MCNext]_mcVars =>
         [EditsNext]_editVars /\ (focus = "edits")'
    BY DEF MCNext, mcVars
  <2> QED BY <2>1, <2>2, PTL DEF MCSpec, EditsSpec
<1>7. MCSpec /\ focus = "pool" => PoolSpec /\ [](focus = "pool")
  <2>1. MCInit /\ focus = "pool" => PoolInit
    BY DEF MCInit
  <2>2. focus = "pool" /\ [MCNext]_mcVars =>
         [PoolNext]_poolVars /\ (focus = "pool")'
    BY DEF MCNext, mcVars
  <2> QED BY <2>1, <2>2, PTL DEF MCSpec, PoolSpec
<1>8. MCSpec /\ focus = "keys" => KeysSpec /\ [](focus = "keys")
  <2>1. MCInit /\ focus = "keys" => KeysInit
    BY DEF MCInit
  <2>2. focus = "keys" /\ [MCNext]_mcVars =>
         [KeysNext]_keyVars /\ (focus = "keys")'
    BY DEF MCNext, mcVars
  <2> QED BY <2>1, <2>2, PTL DEF MCSpec, KeysSpec
<1>9. MCSpec /\ focus = "groups" => GroupsSpec /\ [](focus = "groups")
  <2>1. MCInit /\ focus = "groups" => GroupsInit
    BY DEF MCInit
  <2>2. focus = "groups" /\ [MCNext]_mcVars =>
         [GroupsNext]_groupVars /\ (focus = "groups")'
    BY DEF MCNext, mcVars
  <2> QED BY <2>1, <2>2, PTL DEF MCSpec, GroupsSpec
<1>10. MCSpec /\ focus = "launcher" => LauncherSpec /\ [](focus = "launcher")
  <2>1. MCInit /\ focus = "launcher" => LauncherInit
    BY DEF MCInit
  <2>2. focus = "launcher" /\ [MCNext]_mcVars =>
         [LauncherNext]_launcherVars /\ (focus = "launcher")'
    BY DEF MCNext, mcVars
  <2> QED BY <2>1, <2>2, PTL DEF MCSpec, LauncherSpec
<1>11. MCSpec /\ focus = "download" => DownloadSpec /\ [](focus = "download")
  <2>1. MCInit /\ focus = "download" => DownloadInit
    BY DEF MCInit
  <2>2. focus = "download" /\ [MCNext]_mcVars =>
         [DownloadNext]_downloadVars /\ (focus = "download")'
    BY DEF MCNext, mcVars
  <2> QED BY <2>1, <2>2, PTL DEF MCSpec, DownloadSpec
<1>12. MCSpec /\ focus = "switch" => SwitchSpec /\ [](focus = "switch")
  <2>1. MCInit /\ focus = "switch" => SwitchInit
    BY DEF MCInit
  <2>2. focus = "switch" /\ [MCNext]_mcVars =>
         [SwitchNext]_switchVars /\ (focus = "switch")'
    BY DEF MCNext, mcVars
  <2> QED BY <2>1, <2>2, PTL DEF MCSpec, SwitchSpec
<1>13. MCSpec /\ focus = "tor" => TorSpec /\ [](focus = "tor")
  <2>1. MCInit /\ focus = "tor" => TorInit
    BY DEF MCInit, LauncherInit
  <2>2. focus = "tor" /\ [MCNext]_mcVars =>
         [TorNext]_torVars /\ (focus = "tor")'
    BY DEF MCNext, mcVars, launcherVars
  <2> QED BY <2>1, <2>2, PTL DEF MCSpec, TorSpec
<1> QED BY <1>1, <1>2, <1>3, <1>4, <1>5, <1>6, <1>7, <1>8, <1>9, <1>10, <1>11, <1>12,
           <1>13, Zenon

\* Every variable of the component in focus keeps its type.
THEOREM NodesTyped == MCSpec => []TypesOK
<1>0. MCInit =>
        \/ focus = "sync"
        \/ focus = "pairing"
        \/ focus = "accounts"
        \/ focus = "mls"
        \/ focus = "contacts"
        \/ focus = "edits"
        \/ focus = "pool"
        \/ focus = "keys"
        \/ focus = "groups"
        \/ focus = "launcher"
        \/ focus = "download"
        \/ focus = "switch"
        \/ focus = "tor"
  BY DEF MCInit
<1>1. MCSpec /\ focus = "sync" => []TypesOK
  <2>1. focus = "sync" /\ SyncTypeOK => TypesOK
    BY DEF TypesOK
  <2> QED BY <2>1, NodesRunComponents, SyncTyped, PTL
<1>2. MCSpec /\ focus = "pairing" => []TypesOK
  <2>1. focus = "pairing" /\ TypeOK => TypesOK
    BY DEF TypesOK
  <2> QED BY <2>1, NodesRunComponents, PairingTyped, PTL
<1>3. MCSpec /\ focus = "accounts" => []TypesOK
  <2>1. focus = "accounts" /\ AccountsTypeOK => TypesOK
    BY DEF TypesOK
  <2> QED BY <2>1, NodesRunComponents, AccountsTyped, PTL
<1>4. MCSpec /\ focus = "mls" => []TypesOK
  <2>1. focus = "mls" /\ MLSTypeOK => TypesOK
    BY DEF TypesOK
  <2> QED BY <2>1, NodesRunComponents, RemovedMembersLockedOut, PTL
<1>5. MCSpec /\ focus = "contacts" => []TypesOK
  <2>1. focus = "contacts" /\ LegacyContactsTypeOK => TypesOK
    BY DEF TypesOK
  <2> QED BY <2>1, NodesRunComponents, HandshakeTyped, PTL
<1>6. MCSpec /\ focus = "edits" => []TypesOK
  <2>1. focus = "edits" /\ EditsTypeOK => TypesOK
    BY DEF TypesOK
  <2> QED BY <2>1, NodesRunComponents, EditsTyped, PTL
<1>7. MCSpec /\ focus = "pool" => []TypesOK
  <2>1. focus = "pool" /\ PoolTypeOK => TypesOK
    BY DEF TypesOK
  <2> QED BY <2>1, NodesRunComponents, PoolAccounts, PTL
<1>8. MCSpec /\ focus = "keys" => []TypesOK
  <2>1. focus = "keys" /\ KeysTypeOK => TypesOK
    BY DEF TypesOK
  <2> QED BY <2>1, NodesRunComponents, KeysTyping, PTL
<1>9. MCSpec /\ focus = "groups" => []TypesOK
  <2>1. focus = "groups" /\ GroupsTypeOK => TypesOK
    BY DEF TypesOK
  <2> QED BY <2>1, NodesRunComponents, GroupsTyped, PTL
<1>10. MCSpec /\ focus = "launcher" => []TypesOK
  <2>1. focus = "launcher" /\ LauncherTypeOK => TypesOK
    BY DEF TypesOK
  <2> QED BY <2>1, NodesRunComponents, LauncherTyped, PTL
<1>11. MCSpec /\ focus = "download" => []TypesOK
  <2>1. focus = "download" /\ DownloadTypeOK => TypesOK
    BY DEF TypesOK
  <2> QED BY <2>1, NodesRunComponents, TorExecutableVerified, PTL
<1>12. MCSpec /\ focus = "switch" => []TypesOK
  <2>1. focus = "switch" /\ SwitchTypeOK => TypesOK
    BY DEF TypesOK
  <2> QED BY <2>1, NodesRunComponents, SwitchTyped, PTL
<1>13. MCSpec /\ focus = "tor" => []TypesOK
  <2>1. focus = "tor" /\ TorTypeOK => TypesOK
    BY DEF TypesOK
  <2> QED BY <2>1, NodesRunComponents, TorTyped, PTL
<1> QED BY <1>0, <1>1, <1>2, <1>3, <1>4, <1>5, <1>6, <1>7, <1>8, <1>9, <1>10, <1>11,
           <1>12, <1>13, PTL DEF MCSpec
=============================================================================
