---------------------------- MODULE PanelProofs -----------------------------
(*****************************************************************************)
(* Theorems about PanelKey, for any number of nodes, requests, autosync      *)
(* threads and keys; about Notices, for any thresholds, term and number of   *)
(* scans; and the types of PanelPeers and BridgeToken.                       *)
(*****************************************************************************)
EXTENDS PanelKey, PanelPeers, Notices, BridgeToken, FiniteSetTheorems, TLAPS

-----------------------------------------------------------------------------
(* The management key: types *)

LEMMA KeyZero == 0 \in Keys /\ 1 \in Keys /\ Keys \subseteq Nat
  BY KeyAssumption DEF Keys

LEMMA FreshType ==
  ASSUME KeyTypeOK, Fresh
  PROVE  newest' \in Keys
  BY KeyAssumption DEF KeyTypeOK, Fresh, Keys

LEMMA RowTypes ==
  ASSUME NEW r \in NodeRow, NEW k \in Keys, NEW f \in BOOLEAN
  PROVE  /\ [r EXCEPT !.flag = f] \in NodeRow
         /\ [r EXCEPT !.script = k] \in NodeRow
         /\ [r EXCEPT !.trusts = r.script] \in NodeRow
         /\ NewNode \in NodeRow
  BY KeyZero DEF NodeRow, NewNode

LEMMA FlagType ==
  ASSUME KeyTypeOK, NEW F \in SUBSET FleetNodes, Flag(F)
  PROVE  /\ node' \in [FleetNodes -> NodeRow] /\ missed' \subseteq FleetNodes
         /\ \A n \in FleetNodes : /\ node'[n].script = node[n].script
                                  /\ node'[n].trusts = node[n].trusts
                                  /\ node'[n].registered = node[n].registered
         /\ \A n \in F : node'[n].flag = TRUE
         /\ \A n \in FleetNodes : n \notin F => node'[n] = node[n]
         /\ missed' = missed \ F
<1>1. \A n \in FleetNodes : node[n] \in NodeRow /\ [node[n] EXCEPT !.flag = TRUE] \in NodeRow
  BY RowTypes, KeyZero DEF KeyTypeOK
<1>2. /\ node' = [n \in FleetNodes |->
                    IF n \in F THEN [node[n] EXCEPT !.flag = TRUE] ELSE node[n]]
      /\ missed' = missed \ F
  BY DEF Flag
<1>3. \A n \in FleetNodes : /\ n \in F => node'[n] = [node[n] EXCEPT !.flag = TRUE]
                            /\ n \notin F => node'[n] = node[n]
  BY <1>2
<1>4. node' \in [FleetNodes -> NodeRow]
  BY <1>1, <1>2
<1>5. \A n \in FleetNodes :
         LET r == [node[n] EXCEPT !.flag = TRUE]
         IN  /\ r.script = node[n].script /\ r.trusts = node[n].trusts
             /\ r.registered = node[n].registered /\ r.flag = TRUE
  BY <1>1 DEF NodeRow
<1>6. QED
  BY <1>2, <1>3, <1>4, <1>5 DEF KeyTypeOK

LEMMA ChangeType ==
  ASSUME KeyTypeOK, NEW w \in Changers
  PROVE  /\ change[w] \in Change /\ NoChange \in Change
         /\ \A at \in {"idle", "adopt", "flag"} : [change[w] EXCEPT !.at = at] \in Change
         /\ \A k \in Keys : [at |-> "adopt", key |-> k] \in Change
  BY KeyZero DEF KeyTypeOK, Change, NoChange

LEMMA KeyInitType == KeyInit => KeyTypeOK
<1> SUFFICES ASSUME KeyInit PROVE KeyTypeOK
  OBVIOUS
<1>1. [NewNode EXCEPT !.registered = FALSE] \in NodeRow
  BY KeyZero DEF NewNode, NodeRow
<1>2. NoChange \in Change /\ NoCheck \in Check
  BY KeyZero DEF NoChange, Change, NoCheck, Check
<1>3. QED
  BY <1>1, <1>2, KeyZero DEF KeyInit, KeyTypeOK

LEMMA KeyNextType == KeyTypeOK /\ [KeyNext]_keyVars => KeyTypeOK'
<1> SUFFICES ASSUME KeyTypeOK, [KeyNext]_keyVars PROVE KeyTypeOK'
  OBVIOUS
<1>1. CASE HostRotates
  BY <1>1, FreshType DEF HostRotates, KeyTypeOK
<1>2. CASE Install
  BY <1>2 DEF Install, KeyTypeOK
<1>3. ASSUME NEW w \in Changers, Generate(w) \/ Paste(w)
      PROVE  KeyTypeOK'
  <2>1. Unflagged \subseteq FleetNodes
    BY DEF Unflagged, Registered
  <2>2. change' \in [Changers -> Change]
    BY <1>3, ChangeType DEF Generate, Paste, KeyTypeOK
  <2>3. newest' \in Keys /\ stored' \in Keys /\ minted' \in Keys
    BY <1>3, FreshType, KeyZero DEF Generate, Paste, KeyTypeOK
  <2>4. missed' \subseteq FleetNodes
    BY <1>3, <2>1 DEF Generate, Paste, KeyTypeOK
  <2>5. QED
    BY <1>3, <2>2, <2>3, <2>4 DEF Generate, Paste, KeyTypeOK
<1>4. ASSUME NEW w \in Changers, Cascade(w) \/ FlagAffected(w)
      PROVE  KeyTypeOK'
  <2>1. PICK F \in SUBSET FleetNodes : Flag(F)
    BY <1>4 DEF Cascade, FlagAffected, Registered
  <2>2. node' \in [FleetNodes -> NodeRow] /\ missed' \subseteq FleetNodes
    BY <2>1, FlagType
  <2>3. change' \in [Changers -> Change]
    BY <1>4, ChangeType DEF Cascade, FlagAffected, KeyTypeOK
  <2>4. QED
    BY <1>4, <2>2, <2>3 DEF Cascade, FlagAffected, KeyTypeOK
<1>5. ASSUME NEW w \in Changers, ReadLiveKey(w) \/ Adopt(w)
      PROVE  KeyTypeOK'
  <2>1. change[w].key \in Keys
    BY ChangeType DEF Change
  <2>2. change' \in [Changers -> Change]
    BY <1>5, ChangeType DEF ReadLiveKey, Adopt, KeyTypeOK
  <2>3. stored' \in Keys /\ minted' \in Keys
    BY <1>5, <2>1, KeyZero DEF ReadLiveKey, Adopt, KeyTypeOK
  <2>4. QED
    BY <1>5, <2>2, <2>3 DEF ReadLiveKey, Adopt, KeyTypeOK
<1>6. ASSUME NEW w \in Changers, FlagFails(w)
      PROVE  KeyTypeOK'
  <2>1. Unflagged \subseteq FleetNodes
    BY DEF Unflagged, Registered
  <2>2. QED
    BY <1>6, <2>1, ChangeType DEF FlagFails, KeyTypeOK
<1>7. ASSUME NEW n \in FleetNodes, CreateNode(n) \/ Render(n) \/ Import(n)
      PROVE  KeyTypeOK'
  <2>1. node[n] \in NodeRow
    BY DEF KeyTypeOK
  <2>2. CASE CreateNode(n)
    BY <2>1, <2>2, RowTypes, KeyZero DEF CreateNode, KeyTypeOK
  <2>3. CASE Render(n)
    <3>1. PICK key \in {host, stored} \ {0} :
             /\ node' = [node EXCEPT ![n].script = key]
             /\ missed' = IF key # stored /\ ~node[n].flag THEN missed \cup {n} ELSE missed
      BY <2>3 DEF Render
    <3>2. [node[n] EXCEPT !.script = key] \in NodeRow
      BY <2>1, RowTypes DEF KeyTypeOK
    <3>3. QED
      BY <2>3, <3>1, <3>2 DEF Render, KeyTypeOK
  <2>4. CASE Import(n)
    <3>1. [node[n] EXCEPT !.trusts = node[n].script] \in NodeRow
      BY <2>1, RowTypes, KeyZero
    <3>2. QED
      BY <2>4, <3>1 DEF Import, KeyTypeOK
  <2>5. QED
    BY <1>7, <2>2, <2>3, <2>4
<1>8. ASSUME NEW n \in FleetNodes, ConfigEdit(n)
      PROVE  KeyTypeOK'
  <2>1. Flag({n})
    BY <1>8 DEF ConfigEdit
  <2>2. node' \in [FleetNodes -> NodeRow] /\ missed' \subseteq FleetNodes
    BY <2>1, FlagType
  <2>3. QED
    BY <1>8, <2>2 DEF ConfigEdit, KeyTypeOK
<1>9. ASSUME NEW n \in FleetNodes, AskRouter(n) \/ ClearFlag(n)
      PROVE  KeyTypeOK'
  <2>1. node[n] \in NodeRow /\ [node[n] EXCEPT !.flag = FALSE] \in NodeRow
    BY RowTypes, KeyZero DEF KeyTypeOK
  <2>2. /\ NoCheck \in Check
        /\ [asked |-> TRUE, flagged |-> node[n].flag, key |-> stored] \in Check
    BY <2>1, KeyZero DEF NoCheck, Check, NodeRow, KeyTypeOK
  <2>3. QED
    BY <1>9, <2>1, <2>2 DEF AskRouter, ClearFlag, KeyTypeOK
<1>10. CASE UNCHANGED keyVars
  BY <1>10 DEF keyVars, KeyTypeOK
<1>11. QED
  BY <1>1, <1>2, <1>3, <1>4, <1>5, <1>6, <1>7, <1>8, <1>9, <1>10
     DEF KeyNext, Pass, Changers

\* Keys, rows and what is in progress keep their shape.
THEOREM KeyTypeCorrect == KeySpec => []KeyTypeOK
<1>1. KeyInit => KeyTypeOK
  BY KeyInitType
<1>2. KeyTypeOK /\ [KeyNext]_keyVars => KeyTypeOK'
  BY KeyNextType
<1>3. QED
  BY <1>1, <1>2, PTL DEF KeySpec

-----------------------------------------------------------------------------
(* Stale scripts *)

\* A router trusts the key of a script that was rendered for it.
TrustNeedsScript == \A n \in FleetNodes : node[n].script = 0 => node[n].trusts = 0

KeyInv == KeyTypeOK /\ TrustNeedsScript /\ StaleIsFlagged

Flagging == \E w \in Changers : change[w].at = "flag"
\* What StaleIsFlagged asks of a node.
Sound(n) ==
    n \in Registered \ missed =>
        {node[n].script, node[n].trusts} \subseteq {0, stored} \/ node[n].flag

LEMMA StaleBySound == StaleIsFlagged <=> Flagging \/ \A n \in FleetNodes : Sound(n)
  BY DEF StaleIsFlagged, Flagging, Sound, Registered

\* A thread or a request moves on, and flagging is in progress if it was.
LEMMA StillFlagging ==
  ASSUME KeyTypeOK, NEW w \in Changers, NEW c, change' = [change EXCEPT ![w] = c],
         change[w].at # "flag" \/ c.at = "flag"
  PROVE  Flagging => Flagging'
  BY DEF KeyTypeOK, Flagging

\* Nothing that Sound reads of a node changes.
LEMMA SoundKept ==
  ASSUME NEW n \in FleetNodes, Sound(n), node'[n] = node[n], stored' = stored,
         n \in missed => n \in missed'
  PROVE  Sound(n)'
  BY DEF Sound, Registered

\* The nodes of F are flagged, and no other has a script.
LEMMA SoundByFlag ==
  ASSUME KeyInv, NEW F \in SUBSET FleetNodes, Flag(F),
         \A n \in Registered \ F : node[n].script = 0
  PROVE  /\ TrustNeedsScript'
         /\ \A n \in FleetNodes : Sound(n)'
<1>1. KeyTypeOK /\ TrustNeedsScript
  BY DEF KeyInv
<1>2. TrustNeedsScript'
  BY <1>1, FlagType DEF TrustNeedsScript
<1>3. ASSUME NEW n \in FleetNodes
      PROVE  Sound(n)'
  <2>1. CASE n \in F
    BY <1>1, <2>1, FlagType DEF Sound
  <2>2. CASE n \notin F
    <3>1. node'[n] = node[n]
      BY <1>1, <2>2, FlagType
    <3>2. n \in Registered => node[n].script = 0 /\ node[n].trusts = 0
      BY <1>1, <2>2 DEF TrustNeedsScript
    <3>3. QED
      BY <3>1, <3>2 DEF Sound, Registered
  <2>3. QED
    BY <2>1, <2>2
<1>4. QED
  BY <1>2, <1>3

\* A key that is the first stored, or whose change is still to be flagged.
LEMMA SoundByChange ==
  ASSUME KeyInv, NEW w \in Changers, NEW key, stored' = key,
         node' = node, missed' = missed,
         change' = [change EXCEPT ![w].at = IF stored = 0 THEN "idle" ELSE "flag"],
         change[w].at = "idle"
  PROVE  StaleIsFlagged'
<1>1. KeyTypeOK /\ StaleIsFlagged
  BY DEF KeyInv
<1>2. CASE stored # 0
  <2>1. change'[w].at = "flag"
    BY <1>1, <1>2, ChangeType DEF KeyTypeOK, Change
  <2>2. QED
    BY <2>1 DEF StaleIsFlagged
<1>3. CASE stored = 0
  <2>1. Flagging => Flagging'
    <3> DEFINE c == [change[w] EXCEPT !.at = "idle"]
    <3>1. change' = [change EXCEPT ![w] = c]
      BY <1>3
    <3> HIDE DEF c
    <3>2. QED
      BY <1>1, <3>1, StillFlagging
  <2>2. ASSUME NEW n \in FleetNodes, Sound(n) PROVE Sound(n)'
    BY <1>3, <2>2 DEF Sound, Registered
  <2>3. QED
    BY <1>1, <2>1, <2>2, StaleBySound DEF StaleIsFlagged, Flagging, Sound, Registered
<1>4. QED
  BY <1>2, <1>3

LEMMA KeyInvInit == KeyInit => KeyInv
<1> SUFFICES ASSUME KeyInit PROVE KeyInv
  OBVIOUS
<1>1. KeyTypeOK
  BY KeyInitType
<1>2. \A n \in FleetNodes : node[n].script = 0 /\ node[n].trusts = 0
  BY DEF KeyInit, NewNode
<1>3. QED
  BY <1>1, <1>2 DEF KeyInv, TrustNeedsScript, StaleIsFlagged, Registered

LEMMA KeyInvNext == KeyInv /\ [KeyNext]_keyVars => KeyInv'
<1> SUFFICES ASSUME KeyInv, [KeyNext]_keyVars PROVE KeyInv'
  OBVIOUS
<1>0. KeyTypeOK /\ TrustNeedsScript /\ StaleIsFlagged /\ KeyTypeOK'
  BY KeyNextType DEF KeyInv
<1>1. CASE HostRotates \/ Install \/ UNCHANGED keyVars
  BY <1>0, <1>1 DEF HostRotates, Install, keyVars, KeyInv, TrustNeedsScript, StaleIsFlagged,
                    Registered
<1>2. ASSUME NEW w \in Changers, Generate(w)
      PROVE  KeyInv'
  <2>1. StaleIsFlagged'
    BY <1>2, SoundByChange DEF Generate
  <2>2. QED
    BY <1>0, <1>2, <2>1 DEF Generate, KeyInv, TrustNeedsScript
<1>3. ASSUME NEW w \in Changers, Paste(w)
      PROVE  KeyInv'
  <2>1. CASE minted = 0
    <3>1. StaleIsFlagged'
      BY <1>3, <2>1, SoundByChange DEF Paste
    <3>2. QED
      BY <1>0, <1>3, <3>1 DEF Paste, KeyInv, TrustNeedsScript
  <2>2. CASE minted # 0
    <3>1. node' = node /\ missed' = missed \cup Unflagged
      BY <1>3, <2>2 DEF Paste
    <3>2. StaleIsFlagged'
      BY <3>1 DEF StaleIsFlagged, Registered, Unflagged
    <3>3. QED
      BY <1>0, <3>1, <3>2 DEF KeyInv, TrustNeedsScript
  <2>3. QED
    BY <2>1, <2>2
<1>4. ASSUME NEW w \in Changers, Cascade(w) \/ FlagAffected(w)
      PROVE  KeyInv'
  <2>1. PICK F \in SUBSET FleetNodes :
               Flag(F) /\ \A n \in Registered \ F : node[n].script = 0
    BY <1>4 DEF Cascade, FlagAffected, Registered
  <2>2. TrustNeedsScript' /\ \A n \in FleetNodes : Sound(n)'
    BY <2>1, SoundByFlag
  <2>3. QED
    BY <1>0, <2>2 DEF KeyInv, StaleIsFlagged, Sound, Registered
<1>5. ASSUME NEW w \in Changers, ReadLiveKey(w)
      PROVE  KeyInv'
  <2>1. Flagging => Flagging'
    BY <1>0, <1>5, StillFlagging DEF ReadLiveKey
  <2>2. QED
    BY <1>0, <1>5, <2>1
       DEF ReadLiveKey, KeyInv, TrustNeedsScript, StaleIsFlagged, Flagging, Registered
<1>6. ASSUME NEW w \in Changers, Adopt(w)
      PROVE  KeyInv'
  <2>1. CASE stored = change[w].key
    <3>1. Flagging => Flagging'
      BY <1>0, <1>6, <2>1, StillFlagging DEF Adopt
    <3>2. QED
      BY <1>0, <1>6, <2>1, <3>1
         DEF Adopt, KeyInv, TrustNeedsScript, StaleIsFlagged, Flagging, Registered
  <2>2. CASE stored # change[w].key
    <3>1. change'[w].at = "flag"
      BY <1>0, <1>6, <2>2, ChangeType DEF Adopt, KeyTypeOK, Change
    <3>2. QED
      BY <1>0, <1>6, <3>1 DEF Adopt, KeyInv, TrustNeedsScript, StaleIsFlagged
  <2>3. QED
    BY <2>1, <2>2
<1>7. ASSUME NEW w \in Changers, FlagFails(w)
      PROVE  KeyInv'
  BY <1>0, <1>7
     DEF FlagFails, KeyInv, TrustNeedsScript, StaleIsFlagged, Registered, Unflagged
<1>8. ASSUME NEW n \in FleetNodes, ConfigEdit(n)
      PROVE  KeyInv'
  <2>1. Flag({n}) /\ change' = change /\ stored' = stored
    BY <1>8 DEF ConfigEdit
  <2>2. TrustNeedsScript'
    BY <1>0, <2>1, FlagType DEF TrustNeedsScript
  <2>3. ASSUME NEW m \in FleetNodes, Sound(m) PROVE Sound(m)'
    BY <1>0, <2>1, <2>3, FlagType DEF Sound, Registered
  <2>4. QED
    BY <1>0, <2>1, <2>2, <2>3
       DEF KeyInv, StaleIsFlagged, Sound, Registered
<1>9. ASSUME NEW n \in FleetNodes, CreateNode(n) \/ Render(n) \/ Import(n) \/ ClearFlag(n)
      PROVE  KeyInv'
  <2>1. change' = change /\ stored' = stored /\ missed \subseteq missed'
    BY <1>9 DEF CreateNode, Render, Import, ClearFlag
  <2>2. \A m \in FleetNodes : m # n => node'[m] = node[m]
    BY <1>0, <1>9 DEF KeyTypeOK, CreateNode, Render, Import, ClearFlag
  <2>3. (node'[n].script = 0 => node'[n].trusts = 0) /\ (Sound(n) => Sound(n)')
    <3>1. node[n] \in NodeRow /\ (node[n].script = 0 => node[n].trusts = 0)
      BY <1>0 DEF KeyTypeOK, TrustNeedsScript
    <3>2. CASE CreateNode(n)
      BY <1>0, <3>2 DEF CreateNode, NewNode, Sound, Registered, KeyTypeOK
    <3>3. CASE Render(n)
      <4>1. PICK key \in {host, stored} \ {0} :
               /\ node' = [node EXCEPT ![n].script = key]
               /\ missed' = IF key # stored /\ ~node[n].flag THEN missed \cup {n} ELSE missed
        BY <3>3 DEF Render
      <4>2. /\ node'[n].script = key /\ node'[n].trusts = node[n].trusts
            /\ node'[n].flag = node[n].flag /\ node'[n].registered = node[n].registered
        BY <1>0, <3>1, <4>1 DEF KeyTypeOK, NodeRow
      <4>3. QED
        BY <2>1, <4>1, <4>2 DEF Sound, Registered
    <3>4. CASE Import(n)
      <4>1. /\ node'[n].script = node[n].script /\ node'[n].trusts = node[n].script
            /\ node'[n].flag = node[n].flag /\ node'[n].registered = node[n].registered
        BY <1>0, <3>1, <3>4 DEF Import, KeyTypeOK, NodeRow
      <4>2. missed' = missed
        BY <3>4 DEF Import
      <4>3. QED
        BY <2>1, <4>1, <4>2 DEF Sound, Registered
    <3>5. CASE ClearFlag(n) /\ node' = node
      BY <2>1, <3>1, <3>5 DEF Sound, Registered
    <3>6. CASE ClearFlag(n) /\ node' # node
      <4>1. /\ node[n].trusts = check[n].key
            /\ node' = [node EXCEPT ![n].flag = FALSE]
            /\ missed' = IF {stored, node[n].script} = {check[n].key}
                         THEN missed ELSE missed \cup {n}
        BY <3>6 DEF ClearFlag
      <4>2. /\ node'[n].script = node[n].script /\ node'[n].trusts = node[n].trusts
            /\ node'[n].registered = node[n].registered
        BY <1>0, <3>1, <4>1 DEF KeyTypeOK, NodeRow
      <4>3. QED
        BY <2>1, <3>1, <4>1, <4>2 DEF Sound, Registered
    <3>7. QED
      BY <1>9, <3>2, <3>3, <3>4, <3>5, <3>6
  <2>4. TrustNeedsScript'
    BY <1>0, <2>2, <2>3 DEF TrustNeedsScript
  <2>5. ASSUME NEW m \in FleetNodes, Sound(m) PROVE Sound(m)'
    BY <2>1, <2>2, <2>3, <2>5, SoundKept
  <2>6. QED
    BY <1>0, <2>1, <2>4, <2>5 DEF KeyInv, StaleIsFlagged, Sound, Registered
<1>10. ASSUME NEW n \in FleetNodes, AskRouter(n)
       PROVE  KeyInv'
  BY <1>0, <1>10 DEF AskRouter, KeyInv, TrustNeedsScript, StaleIsFlagged, Registered
<1>11. QED
  BY <1>1, <1>2, <1>3, <1>4, <1>5, <1>6, <1>7, <1>8, <1>9, <1>10
     DEF KeyNext, Pass, Changers

\* A panel_key_mismatch is never silent: however keys are rotated, pasted, adopted,
\* rendered, imported and checked, a router that does not trust the stored key is
\* flagged, but for the named holes.
THEOREM StaleIsNeverSilent == KeySpec => []StaleIsFlagged
<1>1. KeyInit => KeyInv
  BY KeyInvInit
<1>2. KeyInv /\ [KeyNext]_keyVars => KeyInv'
  BY KeyInvNext
<1>3. KeyInv => StaleIsFlagged
  BY DEF KeyInv
<1>4. QED
  BY <1>1, <1>2, <1>3, PTL DEF KeySpec

-----------------------------------------------------------------------------
(* Notices *)

\* A finite set of numbers has a largest one: of the sets "what is larger than x", which
\* are finite, one has no smaller among them.
LEMMA FiniteHasLargest ==
  ASSUME NEW S \in SUBSET Nat, IsFiniteSet(S), S # {}
  PROVE  \E t \in S : \A u \in S : u <= t
<1> DEFINE Larger(x) == {y \in S : y > x}
           Family == {Larger(x) : x \in S}
<1>1. Family \subseteq FiniteSubsetsOf(S) /\ Family # {}
  <2>1. \A x \in S : Larger(x) \in SUBSET S
    OBVIOUS
  <2>2. \A x \in S : IsFiniteSet(Larger(x))
    BY <2>1, FS_Subset
  <2>3. QED
    BY <2>1, <2>2 DEF FiniteSubsetsOf
<1>2. PICK M \in Family : \A U \in Family : <<U, M>> \notin StrictSubsetOrdering(S)
  <2> HIDE DEF Family
  <2>1. IsWellFoundedOn(StrictSubsetOrdering(S), FiniteSubsetsOf(S))
    BY FS_StrictSubsetOrderingWellFounded
  <2>2. \E M \in Family : \A U \in Family : ~ (<<U, M>> \in StrictSubsetOrdering(S))
    BY <1>1, <2>1, WFMin
  <2>3. QED
    BY <2>2
<1>3. PICK t \in S : M = Larger(t)
  BY <1>2
<1>4. ASSUME NEW u \in S PROVE u <= t
  <2> SUFFICES ASSUME u > t PROVE FALSE
    OBVIOUS
  <2>1. Larger(u) \subseteq Larger(t) /\ Larger(u) # Larger(t)
    <3>1. u \in Larger(t) /\ u \notin Larger(u)
      OBVIOUS
    <3>2. \A y \in Larger(u) : y \in Larger(t)
      OBVIOUS
    <3> HIDE DEF Larger
    <3>3. QED
      BY <3>1, <3>2
  <2>2. Larger(u) \in Family /\ Larger(u) \in SUBSET S /\ Larger(t) \in SUBSET S
    OBVIOUS
  <2>3. <<Larger(u), Larger(t)>> \in StrictSubsetOrdering(S)
    <3> HIDE DEF Larger
    <3>1. QED
      BY <2>1, <2>2 DEF StrictSubsetOrdering
  <2>4. QED
    BY <1>2, <1>3, <2>2, <2>3
<1>5. QED
  BY <1>4

LEMMA NotesAreNumbers == Notes \subseteq Nat /\ IsFiniteSet(Notes)
  BY NoticeAssumption, FS_AddElement DEF Notes

LEMMA LargestIn ==
  ASSUME NEW S \in SUBSET Notes, S # {}
  PROVE  Largest(S) \in S
<1>1. \E t \in S : \A u \in S : u <= t
  BY NotesAreNumbers, FS_Subset, FiniteHasLargest
<1>2. QED
  BY <1>1 DEF Largest

LEMMA DueAreNotes ==
  ASSUME NEW left \in Nat
  PROVE  DueKeys(left) \subseteq Notes
  BY DEF DueKeys, Notes

-----------------------------------------------------------------------------

\* The renewals account for the days left.
LeftBounded == subscription.left <= Term * (changes + 1) /\ subscription.term <= changes
\* A scan that is to insert a row has a key left.
HasKey == \A s \in Scans : scan[s].at = "insert" => scan[s].todo # {}
\* One transaction at a time has written.
OneWriter == \A s, v \in Scans : s # v => scan[s].made = {} \/ scan[v].made = {}
\* The rows of an open transaction are of keys without a row.
MadeAreNew == \A s \in Scans : scan[s].made \cap noted = {}
\* What a poll has read is fetched by nobody else.
ReadAreWaiting == poll.at = "read" => \A k \in poll.rows : mail[k].waiting > 0

\* The scans cannot write the same key, for the second is locked out until the first has
\* committed, and then its insert is refused; what is committed is waiting, and only the
\* poll that reads it stamps it.
NoticeInv == /\ NoticeTypeOK /\ LeftBounded /\ HasKey
             /\ OneWriter /\ MadeAreNew /\ ReadAreWaiting /\ EachNoticeOnce

LEMMA NoticeInitInv == NoticeInit => NoticeInv
<1> SUFFICES ASSUME NoticeInit PROVE NoticeInv
  OBVIOUS
<1>1. NoticeTypeOK
  <2>1. Term \in 0..(Term * (MaxChanges + 1)) /\ 0 \in 0..MaxChanges /\ 0 \in 0..MaxSlips
    <3>1. Term * (MaxChanges + 1) = Term * MaxChanges + Term /\ Term * MaxChanges \in Nat
      BY NoticeAssumption
    <3> DEFINE x == Term * MaxChanges
               y == Term * (MaxChanges + 1)
    <3>2. x \in Nat /\ y = x + Term
      BY <3>1
    <3> HIDE DEF x, y
    <3>3. Term \in 0..y
      BY <3>2, NoticeAssumption
    <3>4. QED
      BY <3>3, NoticeAssumption DEF y
  <2>2. subscription \in [active : BOOLEAN, left : 0..(Term * (MaxChanges + 1)),
                         term : 0..MaxChanges]
    BY <2>1 DEF NoticeInit
  <2>3. mail \in [Notes -> Mail] /\ heard \in [Notes -> Nat] /\ unheard \in [Notes -> Nat]
    BY <2>1 DEF NoticeInit, Mail
  <2>4. scan \in [Scans -> Scan] /\ poll \in Poll /\ noted \subseteq Notes
    BY <2>1 DEF NoticeInit, Scan, IdleScan, Poll, IdlePoll
  <2>5. QED
    BY <2>1, <2>2, <2>3, <2>4 DEF NoticeTypeOK, NoticeInit
<1>2. LeftBounded
  BY NoticeAssumption DEF NoticeInit, LeftBounded
<1>3. HasKey /\ OneWriter /\ MadeAreNew /\ ReadAreWaiting
  BY DEF NoticeInit, IdleScan, IdlePoll, HasKey, OneWriter, MadeAreNew, ReadAreWaiting
<1>4. EachNoticeOnce
  BY DEF NoticeInit, EachNoticeOnce
<1>5. QED
  BY <1>1, <1>2, <1>3, <1>4 DEF NoticeInv

\* What concerns the rows, the messages, the scans and the poll.
RowsInv == HasKey /\ OneWriter /\ MadeAreNew /\ ReadAreWaiting /\ EachNoticeOnce
RowsSame == UNCHANGED <<noted, mail, heard, unheard, scan, poll>>

LEMMA RowsKept ==
  ASSUME RowsInv, RowsSame
  PROVE  RowsInv'
  BY DEF RowsInv, RowsSame, HasKey, OneWriter, MadeAreNew, ReadAreWaiting, EachNoticeOnce

\* A renewal adds its term to the days left and one to the changes.
LEMMA TermGrows ==
  ASSUME NEW c \in 0..(MaxChanges - 1)
  PROVE  /\ Term * (c + 1) + Term = Term * ((c + 1) + 1)
         /\ Term * ((c + 1) + 1) <= Term * (MaxChanges + 1)
         /\ Term * (c + 1) \in Nat /\ Term * ((c + 1) + 1) \in Nat
         /\ Term * (MaxChanges + 1) \in Nat
<1>1. PICK d \in Nat : MaxChanges = (c + 1) + d
  <2>1. MaxChanges - (c + 1) \in Nat /\ MaxChanges = (c + 1) + (MaxChanges - (c + 1))
    BY NoticeAssumption
  <2>2. QED
    BY <2>1
<1>2. c \in Nat /\ Term \in Nat
  BY NoticeAssumption
<1>3. Term * (MaxChanges + 1) = Term * ((c + 1) + 1) + Term * d
  BY <1>1, <1>2
<1>4. Term * d \in Nat /\ Term * (c + 1) \in Nat /\ Term * ((c + 1) + 1) \in Nat
  BY <1>1, <1>2
<1>5. Term * (c + 1) + Term = Term * ((c + 1) + 1)
  BY <1>2
<1> DEFINE p == Term * d
           q == Term * ((c + 1) + 1)
           r == Term * (MaxChanges + 1)
<1>6. q <= r /\ r \in Nat
  <2>1. p \in Nat /\ q \in Nat /\ r = q + p
    BY <1>3, <1>4
  <2> HIDE DEF p, q, r
  <2>2. QED
    BY <2>1
<1>7. QED
  BY <1>4, <1>5, <1>6

LEMMA ChangeMadeType ==
  ASSUME NoticeTypeOK, ChangeMade
  PROVE  changes \in 0..(MaxChanges - 1) /\ changes' = changes + 1 /\ changes' \in 0..MaxChanges
  BY NoticeAssumption DEF NoticeTypeOK, ChangeMade

LEMMA IdleScanType == IdleScan \in Scan
<1>1. 0 \in 0..MaxChanges
  BY NoticeAssumption
<1>2. QED
  BY <1>1 DEF IdleScan, Scan

LEMMA SlipType ==
  ASSUME NoticeTypeOK, Slip
  PROVE  slips' \in 0..MaxSlips
  BY NoticeAssumption DEF NoticeTypeOK, Slip

-----------------------------------------------------------------------------

LEMMA LicenseSteps ==
  ASSUME NoticeInv, DayPasses \/ Renew \/ \E b \in BOOLEAN : SetActive(b)
  PROVE  NoticeInv'
<1>1. NoticeTypeOK /\ LeftBounded /\ RowsInv
  BY DEF NoticeInv, RowsInv
<1>2. RowsInv'
  <2>1. RowsSame
    BY DEF DayPasses, Renew, SetActive, RowsSame, rows, answers
  <2>2. QED
    BY <1>1, <2>1, RowsKept
<1>3. slips' \in 0..MaxSlips
  BY <1>1 DEF DayPasses, Renew, SetActive, NoticeTypeOK
<1>4. changes' \in 0..MaxChanges /\ LeftBounded'
      /\ subscription' \in [active : BOOLEAN, left : 0..(Term * (MaxChanges + 1)),
                            term : 0..MaxChanges]
  <2>1. CASE DayPasses
    <3> DEFINE x == Term * (MaxChanges + 1)
               y == Term * (changes + 1)
    <3>1. changes' = changes
      BY <2>1 DEF DayPasses
    <3>2. subscription \in [active : BOOLEAN, left : 0..x, term : 0..MaxChanges]
          /\ subscription.left <= y /\ subscription.term <= changes
      BY <1>1 DEF NoticeTypeOK, LeftBounded
    <3>3. changes \in Nat /\ x \in Nat /\ y \in Nat
      BY <1>1, NoticeAssumption DEF NoticeTypeOK
    <3> HIDE DEF x, y
    <3>4. /\ subscription' \in [active : BOOLEAN, left : 0..x, term : 0..MaxChanges]
          /\ subscription'.left <= y /\ subscription'.term <= changes
      BY <2>1, <3>2, <3>3 DEF DayPasses
    <3>5. QED
      BY <1>1, <3>1, <3>4 DEF x, y, LeftBounded, NoticeTypeOK
  <2>2. CASE Renew
    <3> DEFINE x == Term * (MaxChanges + 1)
               y == Term * (changes + 1)
               z == Term * ((changes + 1) + 1)
    <3>1. changes \in 0..(MaxChanges - 1) /\ changes' = changes + 1
          /\ changes' \in 0..MaxChanges
      BY <1>1, <2>2, ChangeMadeType DEF Renew
    <3>2. /\ subscription.left \in Nat /\ subscription.left <= y
          /\ subscription.term \in Nat /\ subscription.term <= changes
      BY <1>1 DEF NoticeTypeOK, LeftBounded
    <3>3. y + Term = z /\ z <= x /\ y \in Nat /\ x \in Nat /\ z \in Nat
      BY <3>1, TermGrows
    <3>4. Term \in Nat
      BY NoticeAssumption
    <3> HIDE DEF x, y, z
    <3>7. subscription.term + 1 \in 0..MaxChanges /\ subscription.term + 1 <= changes'
      BY <3>1, <3>2, NoticeAssumption
    <3>5. /\ subscription' \in [active : BOOLEAN, left : 0..x, term : 0..MaxChanges]
          /\ subscription'.left <= z /\ subscription'.term <= changes'
      BY <2>2, <3>2, <3>3, <3>4, <3>7 DEF Renew
    <3>6. QED
      BY <3>1, <3>5 DEF x, z, LeftBounded
  <2>3. CASE \E b \in BOOLEAN : SetActive(b)
    <3> DEFINE x == Term * (MaxChanges + 1)
               y == Term * (changes + 1)
               z == Term * ((changes + 1) + 1)
    <3>1. changes \in 0..(MaxChanges - 1) /\ changes' = changes + 1
          /\ changes' \in 0..MaxChanges
      BY <1>1, <2>3, ChangeMadeType DEF SetActive
    <3>2. subscription \in [active : BOOLEAN, left : 0..x, term : 0..MaxChanges]
          /\ subscription.left <= y /\ subscription.term <= changes
      BY <1>1 DEF NoticeTypeOK, LeftBounded
    <3>3. y + Term = z /\ y \in Nat /\ x \in Nat /\ z \in Nat
      BY <3>1, TermGrows
    <3>4. Term \in Nat
      BY NoticeAssumption
    <3> HIDE DEF x, y, z
    <3>5. /\ subscription' \in [active : BOOLEAN, left : 0..x, term : 0..MaxChanges]
          /\ subscription'.left = subscription.left /\ subscription'.term = subscription.term
      BY <2>3, <3>2 DEF SetActive
    <3>6. subscription'.left <= z /\ subscription'.term <= changes'
      BY <3>1, <3>2, <3>3, <3>4, <3>5
    <3>7. QED
      BY <3>1, <3>5, <3>6 DEF x, z, LeftBounded
  <2>4. QED
    BY <2>1, <2>2, <2>3
<1>5. NoticeTypeOK'
  <2>1. RowsSame
    BY DEF DayPasses, Renew, SetActive, RowsSame, rows, answers
  <2>2. QED
    BY <1>1, <1>3, <1>4, <2>1 DEF NoticeTypeOK, RowsSame
<1>6. QED
  BY <1>2, <1>4, <1>5 DEF NoticeInv, RowsInv

\* A step of one scan that writes nothing to the database.
LEMMA ScanSteps ==
  ASSUME NoticeInv, NEW s \in Scans,
         StartScan(s) \/ Look(s) \/ Insert(s) \/ ScanDies(s)
  PROVE  NoticeInv'
<1>1. NoticeTypeOK /\ LeftBounded /\ RowsInv
  BY DEF NoticeInv, RowsInv
<1>2. UNCHANGED <<subscription, noted, mail, heard, unheard, poll, changes>>
  BY DEF StartScan, Look, Insert, ScanDies, rows, answers
<1>3. slips' \in 0..MaxSlips
  BY <1>1, SlipType DEF StartScan, Look, Insert, ScanDies, NoticeTypeOK
<1>4. \A v \in Scans \ {s} : scan'[v] = scan[v]
  BY <1>1 DEF StartScan, Look, Insert, ScanDies, NoticeTypeOK
<1>5. /\ scan' \in [Scans -> Scan]
      /\ scan'[s].at = "insert" => scan'[s].todo # {}
      /\ scan'[s].made \cap noted = {}
      /\ \A v \in Scans \ {s} : scan'[s].made = {} \/ scan[v].made = {}
  <2>1. scan \in [Scans -> Scan] /\ scan[s] \in Scan
    BY <1>1 DEF NoticeTypeOK
  <2>2. CASE StartScan(s)
    <3> DEFINE r == [at |-> "look", todo |-> DueKeys(subscription.left), made |-> {},
                     term |-> subscription.term]
    <3>1. subscription.left \in Nat /\ subscription.term \in 0..MaxChanges
      BY <1>1 DEF NoticeTypeOK
    <3>2. r \in Scan
      BY <3>1, DueAreNotes DEF Scan
    <3>3. scan' = [scan EXCEPT ![s] = r]
      BY <2>2 DEF StartScan
    <3>4. r.made = {} /\ r.at # "insert"
      OBVIOUS
    <3> HIDE DEF r
    <3>5. QED
      BY <2>1, <3>2, <3>3, <3>4
  <2>3. CASE Look(s)
    <3>1. \/ \E t : scan' = [scan EXCEPT ![s].todo = @ \ {t}]
          \/ scan' = [scan EXCEPT ![s].at = "insert"]
      BY <2>3 DEF Look
    <3>2. scan[s].at = "look" /\ scan[s].todo # {} /\ scan[s].made \cap noted = {}
          /\ \A v \in Scans \ {s} : scan[s].made = {} \/ scan[v].made = {}
      BY <1>1, <2>3 DEF Look, RowsInv, MadeAreNew, OneWriter
    <3>3. QED
      BY <2>1, <3>1, <3>2 DEF Scan
  <2>4. CASE Insert(s)
    <3> DEFINE t == Largest(scan[s].todo)
               r == IF t \in noted THEN IdleScan
                    ELSE [scan[s] EXCEPT !.at = "look", !.todo = scan[s].todo \ {t},
                                         !.made = scan[s].made \cup {t}]
    <3>1. t \in Notes
      <4>1. scan[s].todo # {} /\ scan[s].todo \in SUBSET Notes
        BY <1>1, <2>1, <2>4 DEF Insert, RowsInv, HasKey, Scan
      <4>2. QED
        BY <4>1, LargestIn
    <3>2. scan[s].made \cap noted = {} /\ \A v \in Scans \ {s} : scan[v].made = {}
      BY <1>1, <2>4 DEF Insert, LockedOut, RowsInv, MadeAreNew
    <3>3. r \in Scan /\ r.at # "insert" /\ r.made \cap noted = {}
      <4>1. CASE t \in noted
        <5>1. r = IdleScan
          BY <4>1
        <5>2. QED
          BY <5>1, IdleScanType DEF IdleScan
      <4>2. CASE t \notin noted
        <5> HIDE DEF t
        <5>1. r = [scan[s] EXCEPT !.at = "look", !.todo = scan[s].todo \ {t},
                                  !.made = scan[s].made \cup {t}]
          BY <4>2
        <5> HIDE DEF r
        <5>2. QED
          BY <2>1, <3>1, <3>2, <4>2, <5>1 DEF Scan
      <4>3. QED
        BY <4>1, <4>2
    <3>4. scan' = [scan EXCEPT ![s] = r]
      BY <2>1, <2>4 DEF Insert, Scan
    <3> HIDE DEF r
    <3>5. QED
      BY <2>1, <3>2, <3>3, <3>4
  <2>5. CASE ScanDies(s)
    BY <2>1, <2>5, IdleScanType DEF ScanDies, IdleScan
  <2>6. QED
    BY <2>2, <2>3, <2>4, <2>5
<1>6. NoticeTypeOK' /\ LeftBounded'
  BY <1>1, <1>2, <1>3, <1>5 DEF NoticeTypeOK, LeftBounded
<1>7. HasKey' /\ MadeAreNew' /\ OneWriter'
  <2>1. HasKey'
    BY <1>1, <1>4, <1>5 DEF RowsInv, HasKey
  <2>2. MadeAreNew'
    BY <1>1, <1>2, <1>4, <1>5 DEF RowsInv, MadeAreNew
  <2>3. OneWriter'
    <3> SUFFICES ASSUME NEW u \in Scans, NEW v \in Scans, u # v
                 PROVE  scan'[u].made = {} \/ scan'[v].made = {}
      BY DEF OneWriter
    <3>1. scan[u].made = {} \/ scan[v].made = {}
      BY <1>1 DEF RowsInv, OneWriter
    <3>2. QED
      BY <1>4, <1>5, <3>1
  <2>4. QED
    BY <2>1, <2>2, <2>3
<1>8. ReadAreWaiting' /\ EachNoticeOnce'
  BY <1>1, <1>2 DEF RowsInv, ReadAreWaiting, EachNoticeOnce
<1>9. QED
  BY <1>6, <1>7, <1>8 DEF NoticeInv

\* What the commit of a scan and the stamps of a poll make of a message.
LEMMA MailChanged ==
  ASSUME NEW m \in Mail, NEW w \in Nat, NEW f \in Nat, NEW x \in 0..MaxChanges
  PROVE  /\ [m EXCEPT !.waiting = w, !.term = x] \in Mail
         /\ [m EXCEPT !.waiting = w, !.fetched = f] \in Mail
  BY DEF Mail

LEMMA CommitStep ==
  ASSUME NoticeInv, NEW s \in Scans, CommitScan(s)
  PROVE  NoticeInv'
<1>1. NoticeTypeOK /\ LeftBounded /\ RowsInv
  BY DEF NoticeInv, RowsInv
<1>2. /\ UNCHANGED <<subscription, heard, unheard, poll, changes, slips>>
      /\ noted' = noted \cup scan[s].made
  BY DEF CommitScan, answers
<1>3. scan[s] \in Scan /\ scan[s].made \subseteq Notes /\ mail \in [Notes -> Mail]
  BY <1>1 DEF NoticeTypeOK, Scan
<1>4. \A v \in Scans \ {s} : scan'[v] = scan[v]
  BY <1>1 DEF CommitScan, NoticeTypeOK
<1>5. scan' \in [Scans -> Scan] /\ scan'[s] = IdleScan
  BY <1>1, IdleScanType DEF CommitScan, NoticeTypeOK
<1>6. /\ mail' \in [Notes -> Mail]
      /\ \A k \in Notes :
             /\ mail'[k].fetched = mail[k].fetched
             /\ mail'[k].waiting = IF k \in scan[s].made THEN mail[k].waiting + 1
                                                      ELSE mail[k].waiting
  <2>1. \A k \in Notes : mail[k] \in Mail
    BY <1>3
  <2>2. \A k \in Notes : [mail[k] EXCEPT !.waiting = mail[k].waiting + 1,
                                         !.term = scan[s].term] \in Mail
    <3>1. scan[s].term \in 0..MaxChanges
      BY <1>3 DEF Scan
    <3> DEFINE x == scan[s].term
               w(k) == mail[k].waiting + 1
    <3>2. \A k \in Notes : mail[k] \in Mail /\ w(k) \in Nat /\ x \in 0..MaxChanges
      BY <2>1, <3>1 DEF Mail
    <3> HIDE DEF x, w
    <3>3. \A k \in Notes : [mail[k] EXCEPT !.waiting = w(k), !.term = x] \in Mail
      BY <3>2, MailChanged
    <3>4. QED
      BY <3>3 DEF x, w
  <2>3. mail' = [k \in Notes |->
                   IF k \in scan[s].made
                   THEN [mail[k] EXCEPT !.waiting = mail[k].waiting + 1,
                                        !.term = scan[s].term]
                   ELSE mail[k]]
    BY DEF CommitScan
  <2>4. QED
    BY <2>1, <2>2, <2>3 DEF Mail
<1>7. NoticeTypeOK' /\ LeftBounded'
  BY <1>1, <1>2, <1>3, <1>5, <1>6 DEF NoticeTypeOK, LeftBounded
<1>8. HasKey' /\ OneWriter'
  BY <1>1, <1>4, <1>5 DEF RowsInv, HasKey, OneWriter, IdleScan
<1>9. MadeAreNew'
  <2> SUFFICES ASSUME NEW v \in Scans PROVE scan'[v].made \cap noted' = {}
    BY DEF MadeAreNew
  <2>1. CASE v = s
    BY <1>5, <2>1 DEF IdleScan
  <2>2. CASE v # s
    BY <1>1, <1>2, <1>4, <2>2 DEF RowsInv, MadeAreNew, OneWriter
  <2>3. QED
    BY <2>1, <2>2
<1>10. ReadAreWaiting'
  <2> SUFFICES ASSUME poll.at = "read", NEW k \in poll.rows PROVE mail'[k].waiting > 0
    BY <1>2 DEF ReadAreWaiting
  <2>1. k \in Notes /\ mail[k].waiting \in Nat /\ mail[k].waiting > 0
    BY <1>1 DEF NoticeTypeOK, Poll, Mail, RowsInv, ReadAreWaiting
  <2>2. QED
    BY <1>6, <2>1
<1>11. EachNoticeOnce'
  <2> SUFFICES ASSUME NEW k \in Notes
               PROVE  /\ mail'[k].waiting + mail'[k].fetched = IF k \in noted' THEN 1 ELSE 0
                      /\ heard'[k] + unheard'[k] = mail'[k].fetched
    BY DEF EachNoticeOnce
  <2>1. /\ mail[k].waiting + mail[k].fetched = IF k \in noted THEN 1 ELSE 0
        /\ heard[k] + unheard[k] = mail[k].fetched
        /\ mail[k].waiting \in Nat /\ mail[k].fetched \in Nat
        /\ ~(k \in noted /\ k \in scan[s].made)
    BY <1>1 DEF NoticeTypeOK, Mail, RowsInv, EachNoticeOnce, MadeAreNew
  <2>2. QED
    BY <1>2, <1>6, <2>1
<1>12. QED
  BY <1>7, <1>8, <1>9, <1>10, <1>11 DEF NoticeInv

LEMMA PollSteps ==
  ASSUME NoticeInv, PollRead \/ PollDies
  PROVE  NoticeInv'
<1>1. NoticeTypeOK /\ LeftBounded /\ RowsInv
  BY DEF NoticeInv, RowsInv
<1>2. UNCHANGED <<subscription, noted, mail, heard, unheard, scan, changes>>
  BY DEF PollRead, PollDies, rows, answers
<1>3. slips' \in 0..MaxSlips
  BY <1>1, SlipType DEF PollRead, PollDies, NoticeTypeOK
<1>4. poll' \in Poll /\ (poll'.at = "read" => \A k \in poll'.rows : mail[k].waiting > 0)
  BY DEF PollRead, PollDies, Poll, IdlePoll
<1>5. QED
  BY <1>1, <1>2, <1>3, <1>4 DEF NoticeInv, RowsInv, NoticeTypeOK, LeftBounded, HasKey,
                                OneWriter, MadeAreNew, ReadAreWaiting, EachNoticeOnce

LEMMA AnswerSteps ==
  ASSUME NoticeInv, PollAnswers \/ ReplyLost
  PROVE  NoticeInv'
<1>1. NoticeTypeOK /\ LeftBounded /\ RowsInv
  BY DEF NoticeInv, RowsInv
<1>2. /\ UNCHANGED <<subscription, noted, scan, changes>> /\ mail' = Stamp
      /\ poll.at = "read" /\ poll' = IdlePoll
      /\ \/ heard' = Counted(heard, poll.rows) /\ unheard' = unheard
         \/ heard' = heard /\ unheard' = Counted(unheard, poll.rows)
  BY DEF PollAnswers, ReplyLost
<1>3. slips' \in 0..MaxSlips
  BY <1>1, SlipType DEF PollAnswers, ReplyLost, NoticeTypeOK
<1>4. \A k \in Notes : /\ mail[k] \in Mail /\ heard[k] \in Nat /\ unheard[k] \in Nat
                       /\ mail[k].waiting \in Nat /\ mail[k].fetched \in Nat
                       /\ k \in poll.rows => mail[k].waiting > 0
  BY <1>1, <1>2 DEF NoticeTypeOK, Mail, RowsInv, ReadAreWaiting
<1>5. /\ mail' \in [Notes -> Mail]
      /\ \A k \in Notes :
             IF k \in poll.rows
             THEN /\ mail'[k].waiting = 0
                  /\ mail'[k].fetched = mail[k].fetched + mail[k].waiting
             ELSE mail'[k] = mail[k]
  <2>1. \A k \in Notes : [mail[k] EXCEPT !.waiting = 0,
                              !.fetched = mail[k].fetched + mail[k].waiting] \in Mail
    <3> DEFINE f(k) == mail[k].fetched + mail[k].waiting
    <3>1. \A k \in Notes : mail[k] \in Mail /\ f(k) \in Nat /\ 0 \in 0..MaxChanges
      BY <1>4, NoticeAssumption
    <3> HIDE DEF f
    <3>2. \A k \in Notes : [mail[k] EXCEPT !.waiting = 0, !.fetched = f(k)] \in Mail
      BY <3>1, MailChanged
    <3>3. QED
      BY <3>2 DEF f
  <2>2. mail' = [k \in Notes |-> IF k \in poll.rows
                    THEN [mail[k] EXCEPT !.waiting = 0,
                                         !.fetched = mail[k].fetched + mail[k].waiting]
                    ELSE mail[k]]
    BY <1>2 DEF Stamp
  <2>3. QED
    BY <1>4, <2>1, <2>2 DEF Mail
<1>6. /\ heard' \in [Notes -> Nat] /\ unheard' \in [Notes -> Nat]
      /\ \A k \in Notes : heard'[k] + unheard'[k] = heard[k] + unheard[k]
                                                     + (IF k \in poll.rows THEN 1 ELSE 0)
  <2>1. heard \in [Notes -> Nat] /\ unheard \in [Notes -> Nat]
    BY <1>1 DEF NoticeTypeOK
  <2>2. CASE heard' = Counted(heard, poll.rows) /\ unheard' = unheard
    BY <1>4, <2>1, <2>2 DEF Counted
  <2>3. CASE heard' = heard /\ unheard' = Counted(unheard, poll.rows)
    BY <1>4, <2>1, <2>3 DEF Counted
  <2>4. QED
    BY <1>2, <2>2, <2>3
<1>7. NoticeTypeOK' /\ LeftBounded'
  BY <1>1, <1>2, <1>3, <1>5, <1>6 DEF NoticeTypeOK, LeftBounded, Poll, IdlePoll
<1>8. HasKey' /\ OneWriter' /\ MadeAreNew' /\ ReadAreWaiting'
  BY <1>1, <1>2 DEF RowsInv, HasKey, OneWriter, MadeAreNew, ReadAreWaiting, IdlePoll
<1>9. EachNoticeOnce'
  <2> SUFFICES ASSUME NEW k \in Notes
               PROVE  /\ mail'[k].waiting + mail'[k].fetched = IF k \in noted' THEN 1 ELSE 0
                      /\ heard'[k] + unheard'[k] = mail'[k].fetched
    BY DEF EachNoticeOnce
  <2>1. /\ mail[k].waiting + mail[k].fetched = IF k \in noted THEN 1 ELSE 0
        /\ heard[k] + unheard[k] = mail[k].fetched
    BY <1>1 DEF RowsInv, EachNoticeOnce
  <2>2. CASE k \in poll.rows
    BY <1>2, <1>4, <1>5, <1>6, <2>1, <2>2
  <2>3. CASE k \notin poll.rows
    BY <1>2, <1>4, <1>5, <1>6, <2>1, <2>3
  <2>4. QED
    BY <2>2, <2>3
<1>10. QED
  BY <1>7, <1>8, <1>9 DEF NoticeInv

LEMMA NoticeNextInv == NoticeInv /\ [NoticeNext]_noticeVars => NoticeInv'
<1> SUFFICES ASSUME NoticeInv, [NoticeNext]_noticeVars PROVE NoticeInv'
  OBVIOUS
<1>1. CASE DayPasses \/ Renew \/ \E b \in BOOLEAN : SetActive(b)
  BY <1>1, LicenseSteps
<1>2. ASSUME NEW s \in Scans, Scanning(s) \/ ScanDies(s) PROVE NoticeInv'
  BY <1>2, ScanSteps, CommitStep DEF Scanning
<1>3. CASE Polling \/ ReplyLost \/ PollDies
  BY <1>3, PollSteps, AnswerSteps DEF Polling
<1>4. CASE UNCHANGED noticeVars
  BY <1>4 DEF noticeVars, NoticeInv, NoticeTypeOK, LeftBounded, HasKey, OneWriter,
              MadeAreNew, ReadAreWaiting, EachNoticeOnce
<1>5. QED
  BY <1>1, <1>2, <1>3, <1>4 DEF NoticeNext

LEMMA NoticeInvariant == NoticeInit /\ [][NoticeNext]_noticeVars => []NoticeInv
  BY NoticeInitInv, NoticeNextInv, PTL

\* However scans and polls overlap, die and lose replies, the rows, the scans and the
\* poll keep their types, for any thresholds, term and number of scans.
THEOREM NoticeTypeCorrect == NoticeSpec => []NoticeTypeOK
<1>1. NoticeInv => NoticeTypeOK
  BY DEF NoticeInv
<1>2. QED
  BY <1>1, NoticeInvariant, PTL DEF NoticeSpec

\* engine.py's promise, for any thresholds, term and number of overlapping scans: a key
\* gets one notification row and one panel message or none, and the message leaves in one
\* reply.
THEOREM NoticesGoOutOnce == NoticeSpec => []EachNoticeOnce
<1>1. NoticeInv => EachNoticeOnce
  BY DEF NoticeInv
<1>2. QED
  BY <1>1, NoticeInvariant, PTL DEF NoticeSpec

-----------------------------------------------------------------------------
(* The panel's peers *)

LEMMA PeerInitType == PeerInit => PeerTypeOK
  BY DEF PeerInit, PeerTypeOK, Standing, Job, NoJob

LEMMA CountType ==
  ASSUME PeerTypeOK
  PROVE  /\ Edit \/ UNCHANGED edits => edits' \in Nat
         /\ Break \/ UNCHANGED breaks => breaks' \in Nat
  BY DEF PeerTypeOK, Edit, Break

LEMMA NodeStepType ==
  ASSUME PeerTypeOK, NEW n \in PeerNodes, RegisterNode(n) \/ SwitchNode(n)
  PROVE  PeerTypeOK'
<1>1. edits' \in Nat
  BY CountType DEF RegisterNode, SwitchNode
<1>2. standing' \in [PeerNodes -> Standing]
  BY DEF PeerTypeOK, RegisterNode, SwitchNode, Standing
<1>3. QED
  BY <1>1, <1>2 DEF PeerTypeOK, RegisterNode, SwitchNode

LEMMA JobBeginType ==
  ASSUME PeerTypeOK, NEW r \in Runners, NEW n \in PeerNodes \cup {NoPeerNode},
         NEW S \in SUBSET PeerNodes, Begin(r, n, S)
  PROVE  job' \in [Runners -> Job]
  BY DEF Begin, PeerTypeOK, Job, NoJob

LEMMA JobStepType ==
  ASSUME PeerTypeOK, NEW r \in Runners,
         Reconciles(r) \/ DesiredUnread(r) \/ HelperFails(r) \/ JobDies(r)
  PROVE  PeerTypeOK'
<1>1. edits' \in Nat /\ breaks' \in Nat
  BY CountType DEF Reconciles, ReadDesired, HelperLooks, HelperAdds, HelperRemoves, CommitJob,
                   DesiredUnread, HelperFails, JobDies
<1>2. job[r] \in Job /\ job[r].wants \subseteq PeerNodes /\ job[r].stray \subseteq PeerNodes
  BY DEF PeerTypeOK, Job
<1>3. peers' \subseteq PeerNodes /\ saved' \subseteq PeerNodes
  BY <1>2 DEF PeerTypeOK, Reconciles, ReadDesired, HelperLooks, HelperAdds, HelperRemoves,
              CommitJob, DesiredUnread, HelperFails, JobDies
<1>4. standing' \in [PeerNodes -> Standing]
  BY DEF PeerTypeOK, Reconciles, ReadDesired, HelperLooks, HelperAdds, HelperRemoves,
         CommitJob, DesiredUnread, HelperFails, JobDies, Standing
<1>5. job' \in [Runners -> Job]
  <2>1. CASE ReadDesired(r) \/ DesiredUnread(r)
    <3>1. PICK S \in SUBSET PeerNodes : Begin(r, NoPeerNode, S)
      BY <2>1 DEF ReadDesired, DesiredUnread, Desired
    <3>2. QED
      BY <3>1, JobBeginType
  <2>2. CASE HelperLooks(r)
    BY <2>2, <1>2 DEF HelperLooks, PeerTypeOK, Job
  <2>3. CASE HelperAdds(r) \/ HelperRemoves(r) \/ HelperFails(r)
    BY <2>3, <1>2 DEF HelperAdds, HelperRemoves, HelperFails, Step, PeerTypeOK, Job
  <2>4. CASE CommitJob(r) \/ JobDies(r)
    BY <2>4 DEF CommitJob, JobDies, PeerTypeOK, Job, NoJob
  <2>5. QED
    BY <2>1, <2>2, <2>3, <2>4 DEF Reconciles
<1>6. QED
  BY <1>1, <1>3, <1>4, <1>5 DEF PeerTypeOK

LEMMA TearDownType ==
  ASSUME PeerTypeOK, NEW r \in PeerRequests, NEW n \in PeerNodes, TearDown(r, n)
  PROVE  PeerTypeOK'
<1>1. edits' \in Nat /\ breaks' \in Nat
  BY CountType DEF TearDown
<1>2. job' \in [Runners -> Job]
  <2>1. PICK S \in SUBSET PeerNodes : Begin(r, n, S)
    BY DEF TearDown, Desired
  <2>2. QED
    BY <2>1, JobBeginType DEF Runners
<1>3. QED
  BY <1>1, <1>2 DEF TearDown, PeerTypeOK

LEMMA PeerNextType == PeerTypeOK /\ [PeerNext]_peerVars => PeerTypeOK'
<1> SUFFICES ASSUME PeerTypeOK, [PeerNext]_peerVars PROVE PeerTypeOK'
  OBVIOUS
<1>1. CASE HostRestarts
  <2>1. breaks' \in Nat
    BY <1>1, CountType DEF HostRestarts
  <2>2. QED
    BY <1>1, <2>1 DEF HostRestarts, PeerTypeOK
<1>2. CASE UNCHANGED peerVars
  BY <1>2 DEF peerVars, PeerTypeOK
<1>3. QED
  BY <1>1, <1>2, NodeStepType, JobStepType, TearDownType DEF PeerNext

\* Whatever reconciles overlap, fail half way or die, the peers the host trusts and saves
\* are nodes, for any nodes, requests and autosync threads.
THEOREM PeerTypeCorrect == PeerSpec => []PeerTypeOK
  BY PeerInitType, PeerNextType, PTL DEF PeerSpec

-----------------------------------------------------------------------------
(* A pass that nobody disturbs *)

\* No two reconciles overlap, and no query, command of the helper, process or host has
\* failed.
Undisturbed ==
    /\ breaks = 0
    /\ \A r, q \in Runners : r # q => job[r].at = "idle" \/ job[q].at = "idle"

\* When a reconcile is through with the interface, the host trusts the nodes that it read
\* as desired, no more and no less, and would do so after a restart.
LeavesDesired ==
    \A r \in Runners : job[r].at = "commit" => peers = job[r].wants /\ saved = peers

\* What the helper found to remove is what is there too much, before and after it added.
PassInv ==
    /\ \A r \in Runners : job[r].at = "add" => job[r].stray = peers \ job[r].wants
    /\ \A r \in Runners : job[r].at = "remove" => peers \ job[r].stray = job[r].wants
    /\ LeavesDesired

LEMMA PassStep ==
  ASSUME PeerTypeOK, PassInv, Undisturbed, Undisturbed', [PeerNext]_peerVars
  PROVE  PassInv'
<1>1. breaks = 0 /\ breaks' = 0
  BY DEF Undisturbed
<1>2. ~Break
  BY <1>1 DEF Break
<1>3. CASE UNCHANGED <<peers, saved, job>>
  BY <1>3 DEF PassInv, LeavesDesired
<1>4. ASSUME NEW r \in Runners, job[r].at # "idle", Reconciles(r)
      PROVE  PassInv'
  <2>1. \A q \in Runners \ {r} : job[q].at = "idle"
    BY <1>4 DEF Undisturbed
  <2>2. \A q \in Runners \ {r} : job'[q] = job[q]
    BY <1>4 DEF PeerTypeOK, Reconciles, ReadDesired, Begin, HelperLooks, HelperAdds,
                HelperRemoves, CommitJob, Step
  <2>3. /\ job[r] \in Job
        /\ job[r].at = "add" => job[r].stray = peers \ job[r].wants
        /\ job[r].at = "remove" => peers \ job[r].stray = job[r].wants
    BY DEF PeerTypeOK, PassInv
  <2>4. /\ job'[r].at = "add" => job'[r].stray = peers' \ job'[r].wants
        /\ job'[r].at = "remove" => peers' \ job'[r].stray = job'[r].wants
        /\ job'[r].at = "commit" => peers' = job'[r].wants /\ saved' = peers'
    <3>1. CASE HelperLooks(r)
      BY <3>1, <2>3 DEF HelperLooks, PeerTypeOK, Job
    <3>2. CASE HelperAdds(r)
      BY <3>2, <2>3 DEF HelperAdds, Step, PeerTypeOK, Job
    <3>3. CASE HelperRemoves(r)
      BY <3>3, <2>3 DEF HelperRemoves, Step, PeerTypeOK, Job
    <3>4. CASE CommitJob(r)
      BY <3>4 DEF CommitJob, PeerTypeOK, NoJob
    <3>5. QED
      BY <1>4, <3>1, <3>2, <3>3, <3>4 DEF Reconciles, ReadDesired, Begin
  <2>5. QED
    BY <2>1, <2>2, <2>4 DEF PassInv, LeavesDesired
<1>5. ASSUME NEW r \in Runners, job[r].at = "idle",
             ReadDesired(r) \/ \E n \in PeerNodes : TearDown(r, n)
      PROVE  PassInv'
  <2>1. \A q \in Runners \ {r} : job'[q] = job[q]
    BY <1>5 DEF PeerTypeOK, ReadDesired, TearDown, Begin
  <2>2. job'[r].at = "look" /\ peers' = peers /\ saved' = saved
    BY <1>5 DEF PeerTypeOK, ReadDesired, TearDown, Begin, NoJob
  <2>3. QED
    BY <2>1, <2>2 DEF PassInv, LeavesDesired
<1>6. CASE \E n \in PeerNodes : RegisterNode(n) \/ SwitchNode(n)
  BY <1>3, <1>6 DEF RegisterNode, SwitchNode
<1>7. ASSUME NEW r \in Runners, Reconciles(r) PROVE PassInv'
  <2>1. CASE job[r].at # "idle"
    BY <1>4, <1>7, <2>1
  <2>2. CASE job[r].at = "idle"
    <3>1. ReadDesired(r) \/ job[r].at \in {"look", "add", "remove", "commit"}
      <4>1. HelperLooks(r) => job[r].at = "look"
        BY DEF HelperLooks
      <4>2. HelperAdds(r) \/ HelperRemoves(r) \/ CommitJob(r)
                => job[r].at \in {"add", "remove", "commit"}
        BY DEF HelperAdds, HelperRemoves, CommitJob
      <4>3. QED
        BY <1>7, <4>1, <4>2 DEF Reconciles
    <3>2. ReadDesired(r)
      BY <2>2, <3>1
    <3>3. QED
      BY <1>5, <2>2, <3>2
  <2>3. QED
    BY <2>1, <2>2
<1>8. CASE \E r \in Runners : DesiredUnread(r) \/ HelperFails(r) \/ JobDies(r)
  BY <1>2, <1>8 DEF DesiredUnread, HelperFails, JobDies
<1>9. CASE \E r \in PeerRequests, n \in PeerNodes : TearDown(r, n)
  BY <1>5, <1>9 DEF TearDown, Begin, Runners
<1>10. CASE HostRestarts
  BY <1>2, <1>10 DEF HostRestarts
<1>11. QED
  BY <1>3, <1>6, <1>7, <1>8, <1>9, <1>10 DEF PeerNext, peerVars

\* The step that PeersSettle repeats, for any nodes, requests and threads: while
\* reconciles do not overlap and nothing fails, hobe-wg-sync makes the peers and the saved
\* configuration the set it was given, whatever was there before and whatever the
\* administrators change meanwhile.
THEOREM PassLeavesDesired == PeerSpec /\ []Undisturbed => []LeavesDesired
<1>1. PeerInit => PassInv
  BY DEF PeerInit, PassInv, LeavesDesired, NoJob
<1>2. PeerTypeOK /\ PassInv /\ Undisturbed /\ Undisturbed' /\ [PeerNext]_peerVars => PassInv'
  BY PassStep
<1>3. PassInv => LeavesDesired
  BY DEF PassInv
<1>4. QED
  BY <1>1, <1>2, <1>3, PeerTypeCorrect, PTL DEF PeerSpec

-----------------------------------------------------------------------------
(* The bridge token *)

LEMMA BridgeInitType == BridgeInit => BridgeTypeOK
  BY BridgeAssumption DEF BridgeInit, BridgeTypeOK, Token, NoToken, Report, Reply

LEMMA DelayType ==
  ASSUME BridgeTypeOK, Delay
  PROVE  delays' \in 0..MaxDelays
  BY BridgeAssumption DEF BridgeTypeOK, Delay

LEMMA ReplyIsToken ==
  ASSUME NEW x \in Reply
  PROVE  x \in Token
  BY DEF Reply, Token, NoToken

\* What a report makes of the row has a version, so that it is a reply.
LEMMA ResolvedType ==
  ASSUME bridge \in Token, NEW copy \in Token
  PROVE  /\ Resolve(Ensured, copy) \in Token /\ Resolve(Ensured, copy) \in Reply
         /\ Resolve(Ensured, copy).version > 0
<1> DEFINE e == Ensured
<1>1. e \in Token /\ e.version > 0
  BY DEF Ensured, Token
<1>2. Resolve(e, copy) \in Token /\ Resolve(e, copy).version > 0
  <2> HIDE DEF e
  <2>1. copy.version \in Nat /\ e.version \in Nat
    BY <1>1 DEF Token
  <2>2. QED
    BY <1>1, <2>1 DEF Resolve
<1>3. \A x \in Token : x.version > 0 => x \in Reply
  BY DEF Token, Reply
<1> HIDE DEF e
<1>4. Resolve(e, copy) \in Reply
  BY <1>2, <1>3
<1>5. QED
  BY <1>2, <1>4 DEF e

LEMMA InstanceStepType ==
  ASSUME BridgeTypeOK, NEW i \in Instances,
         Rotate(i) \/ SendReport(i) \/ Receive(i) \/ GivesUp(i)
  PROVE  BridgeTypeOK'
<1>1. CASE Rotate(i)
  <2>1. held[i] \in Token /\ [by |-> i, version |-> held[i].version + 1] \in Token
    BY DEF BridgeTypeOK, Token
  <2>2. held' \in [Instances -> Token]
    BY <1>1, <2>1 DEF Rotate, BridgeTypeOK
  <2>3. rotations' \in 0..MaxRotations
    BY <1>1, BridgeAssumption DEF Rotate, BridgeTypeOK
  <2>4. QED
    BY <1>1, <2>2, <2>3 DEF Rotate, BridgeTypeOK
<1>2. CASE SendReport(i)
  <2>1. held[i] \in Token
    BY DEF BridgeTypeOK
  <2>2. [from |-> i, copy |-> held[i], waited |-> TRUE] \in Report
    BY <2>1 DEF Report
  <2>3. QED
    BY <1>2, <2>2 DEF SendReport, BridgeTypeOK
<1>3. CASE Receive(i)
  <2>1. held' \in [Instances -> Token]
    BY <1>3, ReplyIsToken DEF Receive, BridgeTypeOK
  <2>2. replies' \in [Instances -> Reply]
    BY <1>3 DEF Receive, BridgeTypeOK, Reply
  <2>3. QED
    BY <1>3, <2>1, <2>2 DEF Receive, BridgeTypeOK
<1>4. CASE GivesUp(i)
  <2>1. delays' \in 0..MaxDelays
    BY <1>4, DelayType DEF GivesUp
  <2>2. \A r \in reports : [r EXCEPT !.waited = FALSE] \in Report /\ r \in Report
    BY DEF BridgeTypeOK, Report
  <2>3. reports' \subseteq Report
    BY <1>4, <2>2 DEF GivesUp
  <2>4. replies' \in [Instances -> Reply]
    BY <1>4 DEF GivesUp, BridgeTypeOK, Reply
  <2>5. QED
    BY <1>4, <2>1, <2>3, <2>4 DEF GivesUp, BridgeTypeOK
<1>5. QED
  BY <1>1, <1>2, <1>3, <1>4

LEMMA TakeType ==
  ASSUME BridgeTypeOK, NEW r \in reports, TakeReport(r)
  PROVE  BridgeTypeOK'
<1>1. r \in Report /\ r.copy \in Token /\ r.from \in Instances
  BY DEF BridgeTypeOK, Report
<1>2. bridge' \in Token /\ bridge' \in Reply
  BY <1>1, ResolvedType DEF TakeReport, BridgeTypeOK
<1>3. replies' \in [Instances -> Reply]
  BY <1>1, <1>2 DEF TakeReport, BridgeTypeOK
<1>4. QED
  BY <1>2, <1>3 DEF TakeReport, BridgeTypeOK

LEMMA BridgeNextType == BridgeTypeOK /\ [BridgeNext]_bridgeVars => BridgeTypeOK'
<1> SUFFICES ASSUME BridgeTypeOK, [BridgeNext]_bridgeVars PROVE BridgeTypeOK'
  OBVIOUS
<1>1. CASE RequestLost
  <2>1. delays' \in 0..MaxDelays
    BY <1>1, DelayType DEF RequestLost
  <2>2. QED
    BY <1>1, <2>1 DEF RequestLost, BridgeTypeOK
<1>2. CASE UNCHANGED bridgeVars
  BY <1>2 DEF bridgeVars, BridgeTypeOK
<1>3. QED
  BY <1>1, <1>2, InstanceStepType, TakeType DEF BridgeNext

\* Whatever is rotated, delayed, repeated or lost, a reply carries a token that has a
\* version, and copies and rows keep their types, for any number of instances.
THEOREM BridgeTypeCorrect == BridgeSpec => []BridgeTypeOK
  BY BridgeInitType, BridgeNextType, PTL DEF BridgeSpec

-----------------------------------------------------------------------------
(* Versions *)

\* A reply on its way is no newer than the panel's row, and the row itself if it is as new.
RepliesFollowRow ==
    \A i \in Instances :
        replies[i] # NoToken => /\ replies[i].version <= bridge.version
                                /\ replies[i].version = bridge.version => replies[i] = bridge

\* Neither the panel nor an instance goes back to an older version.
NoneGoesBack ==
    [][/\ bridge'.version >= bridge.version
       /\ \A i \in Instances : held'[i].version >= held[i].version]_bridgeVars

LEMMA ResolveGrows ==
  ASSUME bridge \in Token, NEW copy \in Token
  PROVE  LET new == Resolve(Ensured, copy)
         IN  new = bridge \/ new.version > bridge.version
<1> DEFINE e == Ensured
<1>1. e \in Token /\ (e = bridge \/ e.version > bridge.version)
  BY DEF Ensured, Token
<1>2. bridge.version \in Nat /\ e.version \in Nat /\ copy.version \in Nat
  BY <1>1 DEF Token
<1> HIDE DEF e
<1>3. Resolve(e, copy) = bridge \/ Resolve(e, copy).version > bridge.version
  BY <1>1, <1>2 DEF Resolve
<1>4. QED
  BY <1>3 DEF e

LEMMA VersionStep ==
  ASSUME BridgeTypeOK, RepliesFollowRow, [BridgeNext]_bridgeVars
  PROVE  /\ RepliesFollowRow'
         /\ bridge'.version >= bridge.version
         /\ \A i \in Instances : held'[i].version >= held[i].version
<1>1. /\ bridge \in Token /\ bridge.version \in Nat
      /\ \A i \in Instances : held[i] \in Token /\ held[i].version \in Nat
      /\ \A i \in Instances : replies[i] \in Token /\ replies[i].version \in Nat
  <2>1. \A i \in Instances : replies[i] \in Token
    BY ReplyIsToken DEF BridgeTypeOK
  <2>2. QED
    BY <2>1 DEF BridgeTypeOK, Token
<1>2. CASE UNCHANGED bridgeVars \/ RequestLost
  BY <1>1, <1>2 DEF bridgeVars, RequestLost, RepliesFollowRow
<1>3. ASSUME NEW i \in Instances, Rotate(i) \/ SendReport(i) \/ Receive(i) \/ GivesUp(i)
      PROVE  /\ RepliesFollowRow'
             /\ bridge'.version >= bridge.version
             /\ \A j \in Instances : held'[j].version >= held[j].version
  <2>1. bridge' = bridge
    BY <1>3 DEF Rotate, SendReport, Receive, GivesUp
  <2>2. \A j \in Instances : replies'[j] = replies[j] \/ replies'[j] = NoToken
    BY <1>3 DEF Rotate, SendReport, Receive, GivesUp, BridgeTypeOK
  <2>3. RepliesFollowRow'
    BY <2>1, <2>2 DEF RepliesFollowRow
  <2>4. ASSUME NEW j \in Instances PROVE held'[j].version >= held[j].version
    <3>1. CASE Rotate(i)
      BY <1>1, <3>1 DEF Rotate, BridgeTypeOK
    <3>2. CASE Receive(i)
      BY <1>1, <3>2 DEF Receive, BridgeTypeOK
    <3>3. CASE SendReport(i) \/ GivesUp(i)
      BY <1>1, <3>3 DEF SendReport, GivesUp
    <3>4. QED
      BY <1>3, <3>1, <3>2, <3>3
  <2>5. QED
    BY <1>1, <2>1, <2>3, <2>4
<1>4. ASSUME NEW r \in reports, TakeReport(r)
      PROVE  /\ RepliesFollowRow'
             /\ bridge'.version >= bridge.version
             /\ \A j \in Instances : held'[j].version >= held[j].version
  <2>1. r.copy \in Token /\ r.from \in Instances
    BY DEF BridgeTypeOK, Report
  <2>2. bridge' = bridge \/ bridge'.version > bridge.version
    BY <1>1, <1>4, <2>1, ResolveGrows DEF TakeReport
  <2>3. bridge' \in Token /\ bridge'.version \in Nat
    BY <1>1, <1>4, <2>1, ResolvedType DEF TakeReport, Token
  <2>4. held' = held
    BY <1>4 DEF TakeReport
  <2>5. \A j \in Instances : replies'[j] = replies[j] \/ replies'[j] = bridge'
    BY <1>4 DEF TakeReport, BridgeTypeOK
  <2>6. ASSUME NEW j \in Instances, replies'[j] # NoToken
        PROVE  /\ replies'[j].version <= bridge'.version
               /\ replies'[j].version = bridge'.version => replies'[j] = bridge'
    <3>1. CASE replies'[j] = bridge'
      BY <2>3, <3>1
    <3>2. CASE replies'[j] = replies[j]
      BY <1>1, <2>2, <2>3, <2>6, <3>2 DEF RepliesFollowRow
    <3>3. QED
      BY <2>5, <3>1, <3>2
  <2>7. QED
    BY <1>1, <2>2, <2>3, <2>4, <2>6 DEF RepliesFollowRow
<1>5. QED
  BY <1>2, <1>3, <1>4 DEF BridgeNext

\* "Higher version wins; tie: the panel wins", of a protocol whose messages are delayed,
\* lost and repeated, for any instances, rotations and delays: no token that was replaced
\* comes back on either side, and of two tokens of one version the panel never answers with
\* the other one.  The token a reply brings is the row's, or older than the row.
THEOREM OldTokensStayOld == BridgeSpec => NoneGoesBack /\ []RepliesFollowRow
<1>1. BridgeInit => RepliesFollowRow
  BY DEF BridgeInit, RepliesFollowRow
<1>2. BridgeTypeOK /\ RepliesFollowRow /\ [BridgeNext]_bridgeVars => RepliesFollowRow'
  BY VersionStep
<1>3. BridgeTypeOK /\ RepliesFollowRow /\ [BridgeNext]_bridgeVars =>
          [/\ bridge'.version >= bridge.version
           /\ \A i \in Instances : held'[i].version >= held[i].version]_bridgeVars
  BY VersionStep
<1>4. BridgeSpec => []RepliesFollowRow
  BY <1>1, <1>2, BridgeTypeCorrect, PTL DEF BridgeSpec
<1>5. BridgeSpec => NoneGoesBack
  BY <1>3, <1>4, BridgeTypeCorrect, PTL DEF BridgeSpec, NoneGoesBack
<1>6. QED
  BY <1>4, <1>5
=============================================================================
