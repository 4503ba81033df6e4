-------------------------- MODULE PanelPartsProofs --------------------------
(***************************************************************************)
(* Theorems about MCPanelParts: the components that share no state keep     *)
(* their promises next to each other, for every value of the constants.     *)
(***************************************************************************)
EXTENDS MCPanelParts, ChrMoveProofs, FrontDoorProofs, VpnProofs, PanelProofs

\* A step of the whole is a step of one component, and the others stutter.
LEMMA StepOfEach ==
  ASSUME [Next]_partVars
  PROVE  /\ [MoveNext]_moveVars /\ [DnsNext]_dnsVars /\ [TunnelNext]_tunnelVars
         /\ [QuotaNext]_quotaVars /\ [KeyNext]_keyVars /\ [PeerNext]_peerVars
         /\ [NoticeNext]_noticeVars /\ [BridgeNext]_bridgeVars
<1>1. CASE UNCHANGED partVars
  BY <1>1 DEF partVars
<1>2. CASE Next
  BY <1>2 DEF Next, OfMove, OfDns, OfTunnels, OfQuota, OfKey, OfPeers, OfNotices, OfBridge
<1>3. QED
  BY <1>1, <1>2

\* The whole behaves as each of its components, as far as what may happen goes.
LEMMA WholeIsEach ==
  Spec => /\ MoveSpec /\ DnsSpec /\ TunnelSpec /\ QuotaSpec /\ KeySpec /\ PeerSpec
          /\ NoticeInit /\ [][NoticeNext]_noticeVars
          /\ BridgeInit /\ [][BridgeNext]_bridgeVars
<1>1. Init => /\ MoveInit /\ DnsInit /\ TunnelInit /\ QuotaInit /\ KeyInit /\ PeerInit
              /\ NoticeInit /\ BridgeInit
  BY DEF Init
<1>2. [Next]_partVars =>
          /\ [MoveNext]_moveVars /\ [DnsNext]_dnsVars /\ [TunnelNext]_tunnelVars
          /\ [QuotaNext]_quotaVars /\ [KeyNext]_keyVars /\ [PeerNext]_peerVars
          /\ [NoticeNext]_noticeVars /\ [BridgeNext]_bridgeVars
  BY StepOfEach
<1>3. QED
  BY <1>1, <1>2, PTL DEF Spec, MoveSpec, DnsSpec, TunnelSpec, QuotaSpec, KeySpec, PeerSpec

\* Every row, record, request and run of the eight components keeps its type.
THEOREM EveryPartTyped == Spec => []TypeOK
<1>1. MoveTypeOK /\ DnsTypeOK /\ TunnelTypeOK /\ QuotaTypeOK /\ KeyTypeOK /\ PeerTypeOK
          /\ NoticeTypeOK /\ BridgeTypeOK => TypeOK
  BY DEF TypeOK
<1>2. NoticeInv => NoticeTypeOK
  BY DEF NoticeInv
<1>3. BridgeInit /\ [][BridgeNext]_bridgeVars => []BridgeTypeOK
  BY BridgeInitType, BridgeNextType, PTL
<1>4. QED
  BY <1>1, <1>2, <1>3, WholeIsEach, MoveTypeCorrect, DnsTypeCorrect, TunnelTypeCorrect,
     QuotaTypeCorrect, KeyTypeCorrect, PeerTypeCorrect, NoticeInvariant, PTL

\* What each component promises of its states and of its steps, it keeps next to the
\* others.
THEOREM EveryPartSafe ==
  Spec => /\ [](DisconnectSeesRoutes /\ MirrorTellsRecords /\ AllowanceKept /\ OffIsOff
                /\ StraysAreFaults /\ NeverOvercharged /\ SpeedAgrees /\ StaleIsFlagged
                /\ EachNoticeOnce)
          /\ TerminalIsFinal /\ NeverEmptied /\ AllocatedIsFree
<1>1. NoticeInv => EachNoticeOnce
  BY DEF NoticeInv
<1>2. QED
  BY <1>1, WholeIsEach, DisconnectsSeeRoutes, MirrorIsRight, AllowanceIsKept, OffStaysOff,
     StraysNeedFaults, OnlyTrafficIsCharged, RowTellsSpeed, StaleIsNeverSilent,
     NoticeInvariant, SettledStays, FrontDoorStaysOpen, AddressesAreFree, PTL
=============================================================================
