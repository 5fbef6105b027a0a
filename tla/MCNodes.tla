------------------------------- MODULE MCNodes -------------------------------
(***************************************************************************)
(* Who may use a node and what runs on it: synchronisation and pairing of  *)
(* devices, accounts and groups of devices; contacts, edits, connection    *)
(* pool, login and groups of a legacy node; the launcher with its Tor      *)
(* processes, the download of Tor and the switch between modes.  They      *)
(* share no state, so each behaviour exercises one of them.  Of this       *)
(* device and two others, one clock runs ahead.                            *)
(***************************************************************************)
EXTENDS SyncManager, DevicePairing, Accounts, MLSGroups, LegacyContacts, LegacyEdits,
    LegacyPool, LegacyKeys, LegacyGroups, Launcher, TorDownload, ModeSwitch, TLC

CONSTANTS here, phone, laptop

MCDevice == {here, phone, laptop}
MCOffset == (here :> 0) @@ (phone :> 0) @@ (laptop :> 2)

VARIABLE focus   \* the component this behaviour exercises

MCInit ==
    /\ focus \in {"sync", "pairing", "accounts", "mls", "contacts", "edits", "pool",
                   "keys", "groups", "launcher", "download", "switch", "tor"}
    /\ SyncInit /\ Init /\ AccountsInit
    /\ MLSInit /\ LegacyContactsInit /\ EditsInit
    /\ PoolInit /\ KeysInit /\ GroupsInit
    /\ LauncherInit /\ DownloadInit /\ SwitchInit
    /\ (focus # "pairing" => posix) /\ (focus # "launcher" => mode = "p2p")
    /\ focus # "switch" => (activeMode = "p2p" /\ relayAsOnion)

MCNext ==
    \/ /\ focus = "sync" /\ SyncNext
       /\ UNCHANGED <<focus, vars, accountVars, mlsVars, legacyContactVars,
                    editVars, poolVars, keyVars, groupVars, launcherVars,
                    downloadVars, switchVars>>
    \/ /\ focus = "pairing" /\ Next
       /\ UNCHANGED <<focus, syncVars, accountVars, mlsVars, legacyContactVars,
                    editVars, poolVars, keyVars, groupVars, launcherVars,
                    downloadVars, switchVars>>
    \/ /\ focus = "accounts" /\ AccountsNext
       /\ UNCHANGED <<focus, syncVars, vars, mlsVars, legacyContactVars, editVars,
                    poolVars, keyVars, groupVars, launcherVars, downloadVars,
                    switchVars>>
    \/ /\ focus = "mls" /\ MLSNext
       /\ UNCHANGED <<focus, syncVars, vars, accountVars, legacyContactVars,
                    editVars, poolVars, keyVars, groupVars, launcherVars,
                    downloadVars, switchVars>>
    \/ /\ focus = "contacts" /\ LegacyContactsNext
       /\ UNCHANGED <<focus, syncVars, vars, accountVars, mlsVars, editVars,
                    poolVars, keyVars, groupVars, launcherVars, downloadVars,
                    switchVars>>
    \/ /\ focus = "edits" /\ EditsNext
       /\ UNCHANGED <<focus, syncVars, vars, accountVars, mlsVars,
                    legacyContactVars, poolVars, keyVars, groupVars, launcherVars,
                    downloadVars, switchVars>>
    \/ /\ focus = "pool" /\ PoolNext
       /\ UNCHANGED <<focus, syncVars, vars, accountVars, mlsVars,
                    legacyContactVars, editVars, keyVars, groupVars, launcherVars,
                    downloadVars, switchVars>>
    \/ /\ focus = "keys" /\ KeysNext
       /\ UNCHANGED <<focus, syncVars, vars, accountVars, mlsVars,
                    legacyContactVars, editVars, poolVars, groupVars, launcherVars,
                    downloadVars, switchVars>>
    \/ /\ focus = "groups" /\ GroupsNext
       /\ UNCHANGED <<focus, syncVars, vars, accountVars, mlsVars,
                    legacyContactVars, editVars, poolVars, keyVars, launcherVars,
                    downloadVars, switchVars>>
    \/ /\ focus = "launcher" /\ LauncherNext
       /\ UNCHANGED <<focus, syncVars, vars, accountVars, mlsVars,
                    legacyContactVars, editVars, poolVars, keyVars, groupVars,
                    downloadVars, switchVars>>
    \/ /\ focus = "download" /\ DownloadNext
       /\ UNCHANGED <<focus, syncVars, vars, accountVars, mlsVars,
                    legacyContactVars, editVars, poolVars, keyVars, groupVars,
                    launcherVars, switchVars>>
    \/ /\ focus = "switch" /\ SwitchNext
       /\ UNCHANGED <<focus, syncVars, vars, accountVars, mlsVars,
                    legacyContactVars, editVars, poolVars, keyVars, groupVars,
                    launcherVars, downloadVars>>
    \/ /\ focus = "tor" /\ TorNext /\ UNCHANGED <<mode, daemonActive, server>>
       /\ UNCHANGED <<focus, syncVars, vars, accountVars, mlsVars,
                    legacyContactVars, editVars, poolVars, keyVars, groupVars,
                    downloadVars, switchVars>>

mcVars == <<focus, syncVars, vars, accountVars, mlsVars, legacyContactVars,
            editVars, poolVars, keyVars, groupVars, launcherVars, downloadVars,
            switchVars>>

MCSpec == MCInit /\ [][MCNext]_mcVars

\* Every variable keeps its type; those outside the focus do not change.
TypesOK ==
    /\ focus = "sync" => SyncTypeOK
    /\ focus = "pairing" => TypeOK
    /\ focus = "accounts" => AccountsTypeOK
    /\ focus = "mls" => MLSTypeOK
    /\ focus = "contacts" => LegacyContactsTypeOK
    /\ focus = "edits" => EditsTypeOK
    /\ focus = "pool" => PoolTypeOK
    /\ focus = "keys" => KeysTypeOK
    /\ focus = "groups" => GroupsTypeOK
    /\ focus = "launcher" => LauncherTypeOK
    /\ focus = "download" => DownloadTypeOK
    /\ focus = "switch" => SwitchTypeOK
    /\ focus = "tor" => TorTypeOK
==============================================================================
