------------------------------ MODULE PanelPeers ------------------------------
(***************************************************************************)
(* The WireGuard peers the panel host trusts: fleet/sync/peers.py,          *)
(* fleet/sync/wg_apply.py, fleet/registry/teardown.py and the root helper   *)
(* deploy/zero_touch/hobe-wg-sync.                                          *)
(*                                                                          *)
(* The peers are to be those of the nodes that carry traffic.  Whoever      *)
(* reconciles reads the whole desired set from the database and hands it to *)
(* the helper, which adds what is missing, removes what is not desired and  *)
(* saves the interface's configuration.  Nothing orders two reconciles, and *)
(* most changes of a node call none: every pass of the autosync does.       *)
(***************************************************************************)
EXTENDS Integers

CONSTANTS
    PeerNodes,      \* rows of fleet_chr_nodes
    PeerRequests,   \* requests that reconcile
    PeerSyncs,      \* autosync threads, one per process
    NoPeerNode,
    MaxEdits,       \* bound: changes of the nodes
    MaxBreaks       \* bound: failures and restarts together

ASSUME PeerAssumption ==
    /\ PeerRequests \cap PeerSyncs = {} /\ NoPeerNode \notin PeerNodes
    /\ MaxEdits \in Nat /\ MaxBreaks \in Nat

VARIABLES
    standing,   \* the rows, as committed
    peers,      \* peers of the wg-mgmt interface
    saved,      \* peers in /etc/wireguard/wg-mgmt.conf
    job,        \* what every request and autosync thread is doing
    edits,      \* changes of the nodes so far
    breaks      \* failures and restarts so far

peerVars == <<standing, peers, saved, job, edits, breaks>>

-----------------------------------------------------------------------------

Runners == PeerRequests \cup PeerSyncs

\* serving: enabled, not draining and not disabled; held: any other row.
Standing == {"absent", "serving", "held"}

\* removes: node whose deletion the request will commit; wants: the desired set it
\* read; stray: the peers the helper found that are not desired.
Job == [at : {"idle", "look", "add", "remove", "commit"}, removes : PeerNodes \cup {NoPeerNode},
        wants : SUBSET PeerNodes, stray : SUBSET PeerNodes]
NoJob == [at |-> "idle", removes |-> NoPeerNode, wants |-> {}, stray |-> {}]

PeerInit ==
    /\ standing = [n \in PeerNodes |-> "absent"]
    /\ peers = {} /\ saved = {}
    /\ job = [r \in Runners |-> NoJob]
    /\ edits = 0 /\ breaks = 0

\* desired_panel_peers
Desired == {n \in PeerNodes : standing[n] = "serving"}

Edit == edits < MaxEdits /\ edits' = edits + 1
Break == breaks < MaxBreaks /\ breaks' = breaks + 1
Step(r, at) == job' = [job EXCEPT ![r].at = at]

-----------------------------------------------------------------------------
(* The nodes *)

\* Onboarding registers a node with its keys.
RegisterNode(n) ==
    /\ standing[n] = "absent" /\ Edit
    /\ standing' = [standing EXCEPT ![n] = "serving"]
    /\ UNCHANGED <<peers, saved, job, breaks>>

\* An administrator disables, drains or enables a node.
SwitchNode(n) ==
    /\ standing[n] # "absent" /\ Edit
    /\ standing' = [standing EXCEPT ![n] = IF @ = "held" THEN "serving" ELSE "held"]
    /\ UNCHANGED <<peers, saved, job, breaks>>

-----------------------------------------------------------------------------
(* A reconcile *)

Begin(r, n, wants) ==
    /\ job[r].at = "idle"
    /\ job' = [job EXCEPT ![r] = [NoJob EXCEPT !.at = "look", !.removes = n,
                                               !.wants = wants]]

\* A rendered script, a sync job, the resync button or a pass of the autosync.
ReadDesired(r) ==
    /\ Begin(r, NoPeerNode, Desired)
    /\ UNCHANGED <<standing, peers, saved, edits, breaks>>

\* _eligible_nodes: a query that fails counts as no nodes, and every peer goes.
DesiredUnread(r) ==
    /\ Begin(r, NoPeerNode, {}) /\ Break
    /\ UNCHANGED <<standing, peers, saved, edits>>

\* A request that deletes a node sees its own deletion, which is committed at the end.
TearDown(r, n) ==
    /\ standing[n] # "absent" /\ Edit
    /\ \/ Begin(r, n, Desired \ {n}) /\ UNCHANGED breaks
       \/ Begin(r, n, {}) /\ Break
    /\ UNCHANGED <<standing, peers, saved>>

HelperLooks(r) ==
    /\ job[r].at = "look"
    /\ job' = [job EXCEPT ![r].at = "add", ![r].stray = peers \ job[r].wants]
    /\ UNCHANGED <<standing, peers, saved, edits, breaks>>

HelperAdds(r) ==
    /\ job[r].at = "add"
    /\ peers' = peers \cup job[r].wants
    /\ Step(r, "remove")
    /\ UNCHANGED <<standing, saved, edits, breaks>>

\* Mutant: nothing is removed.
HelperKeeps(r) ==
    /\ job[r].at = "remove"
    /\ saved' = peers
    /\ Step(r, "commit")
    /\ UNCHANGED <<standing, peers, edits, breaks>>
\* What is no longer desired goes, and the interface is saved.
HelperRemoves(r) ==
    /\ job[r].at = "remove"
    /\ peers' = peers \ job[r].stray /\ saved' = peers'
    /\ Step(r, "commit")
    /\ UNCHANGED <<standing, edits, breaks>>

\* A command of the helper fails or it times out: some peers were added or removed, and
\* the request goes on.
HelperFails(r) ==
    /\ job[r].at \in {"look", "add", "remove"} /\ Break
    /\ \/ job[r].at = "look" /\ UNCHANGED peers
       \/ job[r].at = "add" /\ \E S \in SUBSET job[r].wants : peers' = peers \cup S
       \/ job[r].at = "remove" /\ \E S \in SUBSET job[r].stray : peers' = peers \ S
    /\ Step(r, "commit")
    /\ UNCHANGED <<standing, saved, edits>>

\* The caller commits; one that deletes nothing has nothing to commit.
CommitJob(r) ==
    /\ job[r].at = "commit"
    /\ standing' = [n \in PeerNodes |-> IF n = job[r].removes THEN "absent" ELSE standing[n]]
    /\ job' = [job EXCEPT ![r] = NoJob]
    /\ UNCHANGED <<peers, saved, edits, breaks>>

\* The process dies or the commit fails: the node stays.
JobDies(r) ==
    /\ job[r].at # "idle" /\ Break
    /\ job' = [job EXCEPT ![r] = NoJob]
    /\ UNCHANGED <<standing, peers, saved, edits>>

\* The host comes up with the configuration that was saved.
HostRestarts ==
    /\ Break
    /\ peers' = saved
    /\ UNCHANGED <<standing, saved, job, edits>>

-----------------------------------------------------------------------------

Reconciles(r) == ReadDesired(r) \/ HelperLooks(r) \/ HelperAdds(r) \/ HelperRemoves(r)
                     \/ CommitJob(r)

PeerNext ==
    \/ \E n \in PeerNodes : RegisterNode(n) \/ SwitchNode(n)
    \/ \E r \in Runners : Reconciles(r)
    \/ \E r \in Runners : DesiredUnread(r) \/ HelperFails(r) \/ JobDies(r)
    \/ \E r \in PeerRequests, n \in PeerNodes : TearDown(r, n)
    \/ HostRestarts

PeerSpec == PeerInit /\ [][PeerNext]_peerVars

\* The autosync thread goes on making passes; a request that was begun comes to an end,
\* for the helper has a timeout.
PeerFairness ==
    /\ \A r \in PeerSyncs : WF_peerVars(Reconciles(r))
    /\ \A r \in PeerRequests : WF_peerVars(job[r].at # "idle" /\ Reconciles(r))
PeerFairSpec == PeerSpec /\ PeerFairness

-----------------------------------------------------------------------------
(* Properties *)

\* Rows, peers and jobs have the shape of their variables.
PeerTypeOK ==
    /\ standing \in [PeerNodes -> Standing]
    /\ peers \subseteq PeerNodes /\ saved \subseteq PeerNodes
    /\ job \in [Runners -> Job]
    /\ edits \in Nat /\ breaks \in Nat

\* Once nobody changes a node any more, the host trusts exactly the nodes that carry
\* traffic, for good and over a restart: what an overlapping reconcile with an older
\* set, a query or a helper that failed or a deletion that was not committed did to the
\* peers is undone by a later pass of the autosync.
PeersSettle == <>[](peers = Desired /\ saved = Desired)
=============================================================================
