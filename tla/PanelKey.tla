------------------------------- MODULE PanelKey -------------------------------
(***************************************************************************)
(* The panel's WireGuard management key: fleet/registry/infra_settings.py,  *)
(* fleet/sync/keys.py, fleet/sync/wg_mgmt_autosync.py and the handshake     *)
(* stage of a sync job.                                                     *)
(*                                                                          *)
(* The key the panel host runs with is mirrored by a setting.  The setting  *)
(* changes when an administrator mints a pair or pastes a key, and when the *)
(* autosync thread adopts the host's key.  Every node's script embeds a     *)
(* key, the router trusts the one of the script it imported, and a change   *)
(* flags the nodes whose scripts it made stale.  The flag goes when a sync  *)
(* job sees that the router trusts the stored key.                          *)
(***************************************************************************)
EXTENDS Integers

CONSTANTS
    FleetNodes,   \* rows of fleet_chr_nodes
    KeyAdmins,    \* requests that change the key
    Autosyncs,    \* autosync threads, one per process
    MaxKey        \* bound: keys generated in all, the host's first being 1

ASSUME KeyAssumption ==
    /\ KeyAdmins \cap Autosyncs = {}
    /\ MaxKey \in Nat \ {0}

VARIABLES
    newest,      \* the last key generated anywhere
    host,        \* key of the wg-mgmt interface
    stored,      \* setting PANEL_WG_PUBKEY, 0 if it is not set
    minted,      \* key whose private half the panel keeps, 0 if none
    node,        \* the rows, and what the router of each trusts
    change,      \* what every request and autosync thread is doing
    check,       \* what the tick of a sync job is doing
    missed       \* nodes to which a known hole applies since they were last flagged

keyVars == <<newest, host, stored, minted, node, change, check, missed>>

-----------------------------------------------------------------------------

Keys == 0..MaxKey
Changers == KeyAdmins \cup Autosyncs

\* script: key of the last script rendered, with the row's snapshot of it; trusts: key
\* of the script the router imported; 0 for none.
NodeRow == [registered : BOOLEAN, flag : BOOLEAN, script : Keys, trusts : Keys]
NewNode == [registered |-> TRUE, flag |-> FALSE, script |-> 0, trusts |-> 0]

\* flag: the key is changed and the nodes are not flagged yet.
Change == [at : {"idle", "adopt", "flag"}, key : Keys]
NoChange == [at |-> "idle", key |-> 0]
\* asked: the router is being asked; flagged, key: row and setting as they were read.
Check == [asked : BOOLEAN, flagged : BOOLEAN, key : Keys]
NoCheck == [asked |-> FALSE, flagged |-> FALSE, key |-> 0]

KeyInit ==
    /\ newest = 1 /\ host = 1
    /\ stored \in {0, 1} /\ minted = 0
    /\ node = [n \in FleetNodes |-> [NewNode EXCEPT !.registered = FALSE]]
    /\ change = [w \in Changers |-> NoChange]
    /\ check = [n \in FleetNodes |-> NoCheck]
    /\ missed = {}

Registered == {n \in FleetNodes : node[n].registered}
Unflagged == {n \in Registered : ~node[n].flag}
Fresh == newest < MaxKey /\ newest' = newest + 1

\* The nodes of F are flagged: what was missed about them is made up for.
Flag(F) ==
    /\ node' = [n \in FleetNodes |-> IF n \in F THEN [node[n] EXCEPT !.flag = TRUE] ELSE node[n]]
    /\ missed' = missed \ F

-----------------------------------------------------------------------------
(* Changes of the key *)

\* wg genkey on the host.
HostRotates ==
    /\ Fresh /\ host' = newest'
    /\ UNCHANGED <<stored, minted, node, change, check, missed>>

\* The first key asks nobody to import again.
Generate(w) ==
    /\ change[w].at = "idle"
    /\ Fresh /\ stored' = newest' /\ minted' = newest'
    /\ change' = [change EXCEPT ![w].at = IF stored = 0 THEN "idle" ELSE "flag"]
    /\ UNCHANGED <<host, node, check, missed>>

\* The administrator reveals the minted private key and puts it on the host.
Install ==
    /\ minted # 0 /\ host' = minted
    /\ UNCHANGED <<newest, stored, minted, node, change, check, missed>>

\* The host's key is pasted.  If that wipes a minted private key, nobody is flagged.
Paste(w) ==
    /\ change[w].at = "idle"
    /\ stored' = host /\ minted' = 0
    /\ IF minted = 0
       THEN /\ change' = [change EXCEPT ![w].at = IF stored = 0 THEN "idle" ELSE "flag"]
            /\ UNCHANGED missed
       ELSE missed' = missed \cup Unflagged /\ UNCHANGED change
    /\ UNCHANGED <<newest, host, node, check>>

\* Mutant: only the nodes whose router is known to trust a key.
CascadeImported(w) ==
    /\ w \in KeyAdmins /\ change[w].at = "flag"
    /\ Flag({n \in Registered : node[n].trusts # 0})
    /\ change' = [change EXCEPT ![w] = NoChange]
    /\ UNCHANGED <<newest, host, stored, minted, check>>
\* _cascade_panel_key_change
Cascade(w) ==
    /\ w \in KeyAdmins /\ change[w].at = "flag"
    /\ Flag(Registered)
    /\ change' = [change EXCEPT ![w] = NoChange]
    /\ UNCHANGED <<newest, host, stored, minted, check>>

-----------------------------------------------------------------------------
(* A pass of the autosync *)

ReadLiveKey(w) ==
    /\ change[w].at = "idle"
    /\ change' = [change EXCEPT ![w] = [at |-> "adopt", key |-> host]]
    /\ UNCHANGED <<newest, host, stored, minted, node, check, missed>>

\* Mutant: a key that was stored is kept.
AdoptFirst(w) ==
    /\ change[w].at = "adopt"
    /\ IF stored # 0
       THEN /\ change' = [change EXCEPT ![w] = NoChange]
            /\ UNCHANGED <<stored, minted>>
       ELSE /\ stored' = change[w].key /\ minted' = 0
            /\ change' = [change EXCEPT ![w].at = "flag"]
    /\ UNCHANGED <<newest, host, node, check, missed>>
\* The writer is that of a paste: a minted private key goes.
Adopt(w) ==
    /\ change[w].at = "adopt"
    /\ IF stored = change[w].key
       THEN /\ change' = [change EXCEPT ![w] = NoChange]
            /\ UNCHANGED <<stored, minted>>
       ELSE /\ stored' = change[w].key /\ minted' = 0
            /\ change' = [change EXCEPT ![w].at = "flag"]
    /\ UNCHANGED <<newest, host, node, check, missed>>

\* A node without a snapshot has no script that could be stale.
FlagAffected(w) ==
    /\ w \in Autosyncs /\ change[w].at = "flag"
    /\ Flag({n \in Registered : node[n].script # 0})
    /\ change' = [change EXCEPT ![w] = NoChange]
    /\ UNCHANGED <<newest, host, stored, minted, check>>

\* The process dies, or flagging fails and is swallowed: the key is as it should be by
\* the next pass, which therefore flags nobody.  A pass that fails before it adopts a key
\* has done nothing.
FlagFails(w) ==
    /\ change[w].at = "flag"
    /\ change' = [change EXCEPT ![w] = NoChange]
    /\ missed' = missed \cup Unflagged
    /\ UNCHANGED <<newest, host, stored, minted, node, check>>

-----------------------------------------------------------------------------
(* The nodes *)

CreateNode(n) ==
    /\ ~node[n].registered
    /\ node' = [node EXCEPT ![n] = NewNode]
    /\ UNCHANGED <<newest, host, stored, minted, change, check, missed>>

\* The script gets the live key; the stored one if the helper does not answer.
Render(n) ==
    /\ node[n].registered
    /\ \E key \in {host, stored} \ {0} :
          /\ node' = [node EXCEPT ![n].script = key]
          /\ missed' = IF key # stored /\ ~node[n].flag THEN missed \cup {n} ELSE missed
    /\ UNCHANGED <<newest, host, stored, minted, change, check>>

Import(n) ==
    /\ node[n].script # 0
    /\ node' = [node EXCEPT ![n].trusts = node[n].script]
    /\ UNCHANGED <<newest, host, stored, minted, change, check, missed>>

\* A change of the node's roles or connection settings flags it, too.
ConfigEdit(n) ==
    /\ node[n].registered
    /\ Flag({n})
    /\ UNCHANGED <<newest, host, stored, minted, change, check>>

-----------------------------------------------------------------------------
(* The handshake stage of a sync job *)

\* The row and the setting are read before the router is asked.
AskRouter(n) ==
    /\ node[n].registered /\ ~check[n].asked /\ stored # 0
    /\ check' = [check EXCEPT ![n] = [asked |-> TRUE, flagged |-> node[n].flag, key |-> stored]]
    /\ UNCHANGED <<newest, host, stored, minted, node, change, missed>>

\* A flag that was read goes if the router trusts the key that was read.  The hole:
\* the key or the script in the operator's hands has changed since.
ClearFlag(n) ==
    /\ check[n].asked
    /\ check' = [check EXCEPT ![n] = NoCheck]
    /\ IF check[n].flagged /\ node[n].trusts = check[n].key
       THEN /\ node' = [node EXCEPT ![n].flag = FALSE]
            /\ missed' = IF {stored, node[n].script} = {check[n].key}
                         THEN missed ELSE missed \cup {n}
       ELSE UNCHANGED <<node, missed>>
    /\ UNCHANGED <<newest, host, stored, minted, change>>

-----------------------------------------------------------------------------

Pass(w) == ReadLiveKey(w) \/ Adopt(w) \/ FlagAffected(w)

KeyNext ==
    \/ HostRotates \/ Install
    \/ \E w \in KeyAdmins : Generate(w) \/ Paste(w) \/ Cascade(w)
    \/ \E w \in Autosyncs : Pass(w)
    \/ \E w \in Changers : FlagFails(w)
    \/ \E n \in FleetNodes : \/ CreateNode(n) \/ Render(n) \/ Import(n) \/ ConfigEdit(n)
                            \/ AskRouter(n) \/ ClearFlag(n)

KeySpec == KeyInit /\ [][KeyNext]_keyVars

\* The autosync thread goes on making passes, and a pass ends.
KeyFairness == \A w \in Autosyncs : WF_keyVars(Pass(w))
KeyFairSpec == KeySpec /\ KeyFairness

-----------------------------------------------------------------------------
(* Properties *)

\* Keys, rows and what is in progress have the shape of their variables.
KeyTypeOK ==
    /\ newest \in Keys /\ host \in Keys /\ stored \in Keys /\ minted \in Keys
    /\ node \in [FleetNodes -> NodeRow]
    /\ change \in [Changers -> Change]
    /\ check \in [FleetNodes -> Check]
    /\ missed \subseteq FleetNodes

\* Once no change of the key is in progress, a node whose router trusts another key
\* than the stored one, or would after the import of its last script, is flagged: a
\* panel_key_mismatch is never silent (models_chr.py, needs_reimport).  The exceptions
\* are missed: nodes that were not flagged when a paste wiped a minted key or when
\* flagging failed, got a script with a live key that was not stored, or whose key or
\* script changed while their router was asked.
StaleIsFlagged ==
    (\A w \in Changers : change[w].at # "flag") =>
        \A n \in Registered \ missed :
            {node[n].script, node[n].trusts} \subseteq {0, stored} \/ node[n].flag

\* Once nobody generates keys the stored key is the host's, for good: whatever an
\* administrator stored, and minted but did not install, the autosync takes back.
KeySettles == <>[](stored = host)
=============================================================================
