---------------------------- MODULE MCPanelParts ----------------------------
(***************************************************************************)
(* One instance of eight components that share no state: CHR moves, the DNS *)
(* front door, VPN tunnels and their quota, the panel's management key and  *)
(* its peers, expiry notices and the bridge token.  part says which of them *)
(* a behaviour is about; the others stay as they began.  Nothing is lost,   *)
(* for no step of one reads or writes what another does.                    *)
(***************************************************************************)
EXTENDS ChrMove, FrontDoor, VpnTunnels, VpnQuota, PanelKey, PanelPeers,
        Notices, BridgeToken

VARIABLE part

partVars == <<part, moveVars, dnsVars, tunnelVars, quotaVars, keyVars, peerVars,
              noticeVars, bridgeVars>>

OfMove(A) ==
    /\ part = "move" /\ A
    /\ UNCHANGED <<part, dnsVars, tunnelVars, quotaVars, keyVars, peerVars, noticeVars, bridgeVars>>
OfDns(A) ==
    /\ part = "dns" /\ A
    /\ UNCHANGED <<part, moveVars, tunnelVars, quotaVars, keyVars, peerVars, noticeVars, bridgeVars>>
OfTunnels(A) ==
    /\ part = "tunnels" /\ A
    /\ UNCHANGED <<part, moveVars, dnsVars, quotaVars, keyVars, peerVars, noticeVars, bridgeVars>>
OfQuota(A) ==
    /\ part = "quota" /\ A
    /\ UNCHANGED <<part, moveVars, dnsVars, tunnelVars, keyVars, peerVars, noticeVars, bridgeVars>>
OfKey(A) ==
    /\ part = "key" /\ A
    /\ UNCHANGED <<part, moveVars, dnsVars, tunnelVars, quotaVars, peerVars, noticeVars, bridgeVars>>
OfPeers(A) ==
    /\ part = "peers" /\ A
    /\ UNCHANGED <<part, moveVars, dnsVars, tunnelVars, quotaVars, keyVars, noticeVars, bridgeVars>>
OfNotices(A) ==
    /\ part = "notices" /\ A
    /\ UNCHANGED <<part, moveVars, dnsVars, tunnelVars, quotaVars, keyVars, peerVars, bridgeVars>>
OfBridge(A) ==
    /\ part = "bridge" /\ A
    /\ UNCHANGED <<part, moveVars, dnsVars, tunnelVars, quotaVars, keyVars, peerVars, noticeVars>>

\* Bound: the front door begins in free mode, the setting's default.
Init ==
    /\ part \in {"move", "dns", "tunnels", "quota", "key", "peers", "notices", "bridge"}
    /\ MoveInit /\ DnsInit /\ TunnelInit /\ QuotaInit /\ KeyInit /\ PeerInit
    /\ NoticeInit /\ BridgeInit
    /\ part # "dns" => fit = Origins /\ token
    /\ mode = "free"
    /\ part # "key" => stored = 1

Next == \/ OfMove(MoveNext) \/ OfDns(DnsNext) \/ OfTunnels(TunnelNext) \/ OfQuota(QuotaNext)
        \/ OfKey(KeyNext) \/ OfPeers(PeerNext) \/ OfNotices(NoticeNext) \/ OfBridge(BridgeNext)

\* The fairness of each component, for the component that moves.
Fairness ==
    /\ \A w \in PanelWorkers : WF_moveVars(part = "move" /\ Finish(w))
    /\ WF_moveVars(part = "move" /\ Polls)
    /\ WF_moveVars(part = "move" /\ PollTimesOut)
    /\ \A c \in Commands : WF_moveVars(part = "move" /\ TtlElapses(c))
    /\ \A r \in Reconcilers : WF_dnsVars(part = "dns" /\ Reconcile(r))
    /\ WF_quotaVars(part = "quota" /\ SyncRun)
    /\ \A w \in Autosyncs : WF_keyVars(part = "key" /\ Pass(w))
    /\ \A r \in PeerSyncs : WF_peerVars(part = "peers" /\ Reconciles(r))
    /\ \A r \in PeerRequests :
           WF_peerVars(part = "peers" /\ job[r].at # "idle" /\ Reconciles(r))
    /\ \A s \in Scans : WF_noticeVars(part = "notices" /\ Scanning(s))
    /\ WF_noticeVars(part = "notices" /\ Polling)
    /\ \A i \in Instances : /\ WF_bridgeVars(part = "bridge" /\ SendReport(i))
                           /\ WF_bridgeVars(part = "bridge" /\ Receive(i))
                           /\ WF_bridgeVars(part = "bridge" /\ PanelTakes(i))

Spec == Init /\ [][Next]_partVars /\ Fairness

\* Bound: tunnels and WireGuard peers read nothing of each other, so that a behaviour
\* is about one of the two kinds.
OneKindOfConnection ==
    \E S \in {Tunnels, Peers} :
        \A c \in S : row[c].status = "none" /\ \A w \in TunnelWorkers : desk[w].c # c

\* Bound: one of the disconnects is the first to be queued; their ids are alike.
NumberedInOrder ==
    LET used == {c \in Commands : command[c].status # "none"
                                     \/ \E w \in PanelWorkers : server[w].c = c}
    IN used # {} => (CHOOSE c \in Commands : TRUE) \in used

\* Bound: a behaviour has a fault or a switch of the front door, and a change of the
\* license or a slip of its notices, not both.
OneIncident == faults + switches <= 1 /\ changes + slips <= 1

\* The type invariants of the components: rows, records, requests and runs keep the
\* shape of their tables and variables.
TypeOK == MoveTypeOK /\ DnsTypeOK /\ TunnelTypeOK /\ QuotaTypeOK /\ KeyTypeOK /\ PeerTypeOK
          /\ NoticeTypeOK /\ BridgeTypeOK
=============================================================================
