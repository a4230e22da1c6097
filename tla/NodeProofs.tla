----------------------------- MODULE NodeProofs -----------------------------
(* Proofs about the world state of the node (NodeState), for every set of  *)
(* states and chains, snapshots and reads of any number, and about the     *)
(* provider that makes nodes and passes requests to them (Provider), for   *)
(* any clients, configurations, resets and changes of the interval.        *)
EXTENDS NodeState, Provider, SequenceTheorems, FiniteSetTheorems, TLAPS


-----------------------------------------------------------------------------
(* Lemmas about sequences and maps *)

(* A prefix of a sequence *)
LEMMA PrefixFacts ==
  ASSUME NEW S, NEW s \in Seq(S), NEW n \in 0..Len(s)
  PROVE  /\ SubSeq(s, 1, n) \in Seq(S)
         /\ Len(SubSeq(s, 1, n)) = n
         /\ DOMAIN SubSeq(s, 1, n) = 1..n
         /\ \A i \in 1..n : SubSeq(s, 1, n)[i] = s[i]
<1>1. \A i \in 1..n : s[i] \in S
  OBVIOUS
<1>2. /\ SubSeq(s, 1, n) \in Seq(S)
      /\ Len(SubSeq(s, 1, n)) = IF 1 <= n THEN n - 1 + 1 ELSE 0
      /\ \A i \in 1..(n - 1 + 1) : SubSeq(s, 1, n)[i] = s[1 + i - 1]
  BY <1>1, SubSeqProperties
<1> QED
  BY <1>2

(* A sequence with an element added to its end *)
LEMMA AppendFacts ==
  ASSUME NEW S, NEW s \in Seq(S), NEW e \in S
  PROVE  /\ Append(s, e) \in Seq(S)
         /\ Len(Append(s, e)) = Len(s) + 1
         /\ DOMAIN Append(s, e) = 1..(Len(s) + 1)
         /\ \A i \in 1..Len(s) : Append(s, e)[i] = s[i]
         /\ Append(s, e)[Len(s) + 1] = e
OBVIOUS

(* Two sequences of the same length with the same elements are the same. *)
LEMMA SameSequence ==
  ASSUME NEW S, NEW s \in Seq(S), NEW t \in Seq(S), Len(s) = Len(t),
         \A i \in 1..Len(s) : s[i] = t[i]
  PROVE  s = t
OBVIOUS

(* A function on 1..n is a sequence. *)
LEMMA FunctionIsSequence ==
  ASSUME NEW S, NEW n \in Nat, NEW f \in [1..n -> S]
  PROVE  f \in Seq(S) /\ Len(f) = n
OBVIOUS

(* The prefixes of a sequence stay when an element is added to its end. *)
LEMMA PrefixOfAppend ==
  ASSUME NEW S, NEW s \in Seq(S), NEW e \in S, NEW n \in 0..Len(s)
  PROVE  SubSeq(Append(s, e), 1, n) = SubSeq(s, 1, n)
<1> DEFINE t == Append(s, e)
<1>1. t \in Seq(S) /\ n \in 0..Len(t) /\ \A i \in 1..n : t[i] = s[i]
  BY AppendFacts
<1> HIDE DEF t
<1>2. /\ SubSeq(t, 1, n) \in Seq(S) /\ Len(SubSeq(t, 1, n)) = n
      /\ \A i \in 1..n : SubSeq(t, 1, n)[i] = t[i]
  BY <1>1, PrefixFacts
<1>3. /\ SubSeq(s, 1, n) \in Seq(S) /\ Len(SubSeq(s, 1, n)) = n
      /\ \A i \in 1..n : SubSeq(s, 1, n)[i] = s[i]
  BY PrefixFacts
<1>4. \A i \in 1..n : SubSeq(t, 1, n)[i] = SubSeq(s, 1, n)[i]
  BY <1>1, <1>2, <1>3
<1>5. SubSeq(t, 1, n) = SubSeq(s, 1, n)
  BY <1>2, <1>3, <1>4, SameSequence
<1> QED
  BY <1>5 DEF t

(* A map of irregular states gives some of the possible blocks a state. *)
LEMMA IrregularStatesAre ==
  ASSUME NEW map
  PROVE  map \in IrregularStates
           <=> DOMAIN map \subseteq 0..MaxBlock /\ map \in [DOMAIN map -> Roots]
BY DEF IrregularStates

-----------------------------------------------------------------------------
(* The inductive invariant *)

(* Every map that the node or a snapshot refers to is there, and no two of *)
(* them share one: a state that is set later reaches none of the maps that *)
(* snapshots will restore.                                                 *)
RefsOK ==
  /\ maps \in [DOMAIN maps -> IrregularStates]
  /\ \A ref \in DOMAIN maps : ref \in Nat /\ ref < nextSnapshotId
  /\ irregular \in DOMAIN maps
  /\ \A i \in DOMAIN snapshots :
       snapshots[i].map \in DOMAIN maps /\ snapshots[i].map # irregular
  /\ \A i, j \in DOMAIN snapshots : i # j => snapshots[i].map # snapshots[j].map

(* Ids and block numbers of snapshots grow, and a snapshot's map has       *)
(* states of blocks up to its latest block only, where it agrees with the  *)
(* root of the snapshot.                                                   *)
SnapshotsOK ==
  /\ \A i \in DOMAIN snapshots :
       LET s == snapshots[i]
       IN  /\ s.id < nextSnapshotId
           /\ s.latest <= Latest
           /\ \A n \in DOMAIN maps[s.map] :
                n <= s.latest /\ (n = s.latest => maps[s.map][n] = s.root)
  /\ \A i, j \in DOMAIN snapshots :
       i < j => /\ snapshots[i].id < snapshots[j].id
                /\ snapshots[i].latest <= snapshots[j].latest

(* The map of the node, when r is the state at the latest block. *)
AnchoredAt(r) ==
  \A n \in DOMAIN maps[irregular] :
    n <= Latest /\ (n = Latest => maps[irregular][n] = r)

(* A block without an irregular state has the state of its header, also    *)
(* when it is the latest one of the chain or of a snapshot.                *)
HeadersOK(r) ==
  /\ Latest \in DOMAIN maps[irregular] \/ headers[Latest + 1] = r
  /\ \A i \in DOMAIN snapshots :
       LET s == snapshots[i]
       IN  s.latest \in DOMAIN maps[s.map] \/ headers[s.latest + 1] = s.root

NodeOK(r) ==
  /\ headers \in Seq(Roots) /\ headers # <<>> /\ Latest <= MaxBlock
  /\ r \in Roots
  /\ snapshots \in Seq(Snapshot)
  /\ nextSnapshotId \in Nat
  /\ RefsOK
  /\ SnapshotsOK
  /\ AnchoredAt(r)
  /\ HeadersOK(r)

(* What a read in progress has to bring back is still at hand: in the      *)
(* variables it does not touch, or in the snapshot it took, which is the   *)
(* last one.                                                               *)
ContextOK ==
  \/ context = NoContext
  \/ /\ context \in Context /\ context.kind = "block"
     /\ context.before = [headers |-> headers, root |-> context.root,
                          irregular |-> maps[irregular], snapshots |-> snapshots]
  \/ /\ context \in Context /\ context.kind = "pending"
     /\ snapshots # <<>>
     /\ LET s == snapshots[Len(snapshots)]
        IN  /\ s.id = context.id
            /\ context.before = [headers |-> SubSeq(headers, 1, s.latest + 1), root |-> s.root,
                                 irregular |-> maps[s.map],
                                 snapshots |-> SubSeq(snapshots, 1, Len(snapshots) - 1)]

IInv == root \in Roots /\ NodeOK(CurrentRoot) /\ ContextOK

(* The fields of a snapshot *)
LEMMA SnapshotIs ==
  ASSUME NEW snaps \in Seq(Snapshot), NEW i \in DOMAIN snaps
  PROVE  snaps[i].id \in Nat /\ snaps[i].latest \in Nat
<1>1. snaps[i] \in Snapshot
  OBVIOUS
<1> QED
  BY <1>1 DEF Snapshot

(* A snapshot of the list, by its place *)
LEMMA SnapshotFields ==
  ASSUME snapshots \in Seq(Snapshot), NEW i \in DOMAIN snapshots
  PROVE  /\ snapshots[i] \in Snapshot
         /\ snapshots[i].id \in Nat /\ snapshots[i].latest \in Nat
         /\ snapshots[i].root \in Roots /\ snapshots[i].map \in Nat
         /\ i \in 1..Len(snapshots)
<1>1. snapshots[i] \in Snapshot /\ i \in 1..Len(snapshots)
  OBVIOUS
<1> QED
  BY <1>1 DEF Snapshot

(* A cheat code keeps the node consistent: it writes to the node's own map. *)
LEMMA SetStateKeeps ==
  ASSUME NodeOK(root), NEW r \in Roots, SetState(r)
  PROVE  NodeOK(root)'
<1> USE DEF NodeOK
<1>1. /\ root' = r /\ headers' = headers /\ irregular' = irregular
      /\ snapshots' = snapshots /\ nextSnapshotId' = nextSnapshotId
      /\ maps' = [maps EXCEPT ![irregular] = MapSet(@, Latest, r)]
  BY DEF SetState, PersistIrregularWorldState
<1>2. Latest' = Latest /\ Latest \in 0..MaxBlock
  BY <1>1, NodeBounds DEF Latest
<1> DEFINE map == MapSet(maps[irregular], Latest, r)
<1>3. /\ maps[irregular] \in [DOMAIN maps[irregular] -> Roots]
      /\ DOMAIN maps[irregular] \subseteq 0..MaxBlock
  BY IrregularStatesAre DEF RefsOK
<1>4. /\ DOMAIN map = DOMAIN maps[irregular] \cup {Latest}
      /\ \A n \in DOMAIN map : map[n] = IF n = Latest THEN r ELSE maps[irregular][n]
  BY DEF MapSet
<1>5. map \in [DOMAIN map -> Roots]
  BY <1>3 DEF MapSet
<1>6. map \in IrregularStates
  BY <1>2, <1>3, <1>4, <1>5, IrregularStatesAre
<1> HIDE DEF map
<1>7. /\ maps' \in [DOMAIN maps -> IrregularStates] /\ DOMAIN maps' = DOMAIN maps
      /\ maps'[irregular] = map
      /\ \A ref \in DOMAIN maps : ref # irregular => maps'[ref] = maps[ref]
  <2>1. maps' = [maps EXCEPT ![irregular] = map]
    BY <1>1 DEF map
  <2> QED
    BY <2>1, <1>6 DEF RefsOK
<1>8. RefsOK'
  BY <1>1, <1>7 DEF RefsOK
<1>9. SnapshotsOK'
  BY <1>1, <1>2, <1>7 DEF SnapshotsOK, RefsOK
<1>10. AnchoredAt(r)'
  BY <1>1, <1>2, <1>4, <1>7 DEF AnchoredAt
<1>11. /\ headers' \in Seq(Roots) /\ headers' # <<>> /\ Latest' <= MaxBlock
       /\ root' \in Roots /\ snapshots' \in Seq(Snapshot) /\ nextSnapshotId' \in Nat
  BY <1>1, <1>2
<1>12. AnchoredAt(root)'
  BY <1>1, <1>10 DEF AnchoredAt
<1>13. HeadersOK(root)'
  <2>1. Latest \in DOMAIN maps'[irregular]
    BY <1>4, <1>7
  <2>2. \A i \in DOMAIN snapshots : maps'[snapshots[i].map] = maps[snapshots[i].map]
    BY <1>7 DEF RefsOK
  <2> QED
    BY <1>1, <1>2, <2>1, <2>2 DEF HeadersOK
<1> QED
  BY <1>8, <1>9, <1>11, <1>12, <1>13

(* A mined block keeps the node consistent: it has no irregular state. *)
LEMMA MineBlockKeeps ==
  ASSUME NodeOK(root), NEW r \in Roots, MineBlock(r), Latest < MaxBlock
  PROVE  NodeOK(root)'
<1> USE DEF NodeOK
<1>1. /\ root' = r /\ headers' = Append(headers, r) /\ irregular' = irregular
      /\ snapshots' = snapshots /\ nextSnapshotId' = nextSnapshotId /\ maps' = maps
  BY DEF MineBlock
<1>2. /\ headers' \in Seq(Roots) /\ headers' # <<>>
      /\ Latest' = Latest + 1 /\ Latest \in Nat
  BY <1>1 DEF Latest
<1>3. RefsOK'
  BY <1>1 DEF RefsOK
<1>4. SnapshotsOK'
  <2>1. \A i \in DOMAIN snapshots : snapshots[i].latest \in Nat
    BY SnapshotFields
  <2> QED
    BY <1>1, <1>2, <2>1 DEF SnapshotsOK
<1>5. \A n \in DOMAIN maps[irregular] : n \in Nat /\ n <= Latest
  <2>1. DOMAIN maps[irregular] \subseteq 0..MaxBlock
    BY IrregularStatesAre DEF RefsOK
  <2> QED
    BY <2>1 DEF AnchoredAt
<1>6. AnchoredAt(root)'
  BY <1>1, <1>2, <1>5 DEF AnchoredAt
<1>7. Latest' <= MaxBlock
  BY <1>2, NodeBounds
<1>8. HeadersOK(root)'
  <2>1. headers'[Latest' + 1] = root'
    BY <1>1, <1>2, AppendFacts DEF Latest
  <2>2. ASSUME NEW i \in DOMAIN snapshots
        PROVE  headers'[snapshots[i].latest + 1] = headers[snapshots[i].latest + 1]
    <3>1. snapshots[i].latest \in Nat /\ snapshots[i].latest <= Latest
      BY SnapshotFields DEF SnapshotsOK
    <3> QED
      BY <1>1, <3>1, AppendFacts DEF Latest
  <2> QED
    BY <1>1, <2>1, <2>2 DEF HeadersOK
<1> QED
  BY <1>1, <1>2, <1>3, <1>4, <1>6, <1>7, <1>8

(* A snapshot keeps the node consistent: the snapshot gets the map, and    *)
(* the node a copy of it under a reference that nobody has.                *)
LEMMA TakeSnapshotKeeps ==
  ASSUME NodeOK(root), TakeSnapshot
  PROVE  NodeOK(root)'
<1> USE DEF NodeOK
<1> DEFINE s == [id |-> nextSnapshotId, latest |-> Latest, root |-> root, map |-> irregular]
           k == Len(snapshots) + 1
<1>1. /\ root' = root /\ headers' = headers /\ nextSnapshotId' = nextSnapshotId + 1
      /\ snapshots' = Append(snapshots, s) /\ irregular' = nextSnapshotId
      /\ maps' = MapSet(maps, nextSnapshotId, maps[irregular])
  BY DEF TakeSnapshot, CopyMap
<1>2. Latest' = Latest /\ Latest \in Nat
  BY <1>1 DEF Latest
<1>3. irregular \in Nat /\ irregular < nextSnapshotId
  BY DEF RefsOK
<1>4. s \in Snapshot
  BY <1>2, <1>3 DEF Snapshot
<1>5. /\ s.id = nextSnapshotId /\ s.latest = Latest /\ s.root = root /\ s.map = irregular
  OBVIOUS
<1> HIDE DEF s
<1>6. /\ snapshots' \in Seq(Snapshot) /\ DOMAIN snapshots' = 1..k
      /\ \A i \in 1..(k - 1) : snapshots'[i] = snapshots[i]
      /\ snapshots'[k] = s /\ DOMAIN snapshots = 1..(k - 1) /\ k \in Nat
  BY <1>1, <1>4
<1>7. /\ DOMAIN maps' = DOMAIN maps \cup {nextSnapshotId}
      /\ maps' \in [DOMAIN maps' -> IrregularStates]
      /\ \A ref \in DOMAIN maps : maps'[ref] = maps[ref]
      /\ maps'[nextSnapshotId] = maps[irregular]
  <2>1. \A ref \in DOMAIN maps : ref # nextSnapshotId
    BY DEF RefsOK
  <2> QED
    BY <1>1, <2>1 DEF RefsOK, MapSet
<1>8. RefsOK'
  <2>1. \A ref \in DOMAIN maps' : ref \in Nat /\ ref < nextSnapshotId'
    BY <1>1, <1>7 DEF RefsOK
  <2>2. \A i \in 1..k : /\ snapshots'[i].map \in DOMAIN maps
                        /\ snapshots'[i].map # nextSnapshotId
    BY <1>3, <1>5, <1>6 DEF RefsOK
  <2>3. \A i, j \in 1..k : i # j => snapshots'[i].map # snapshots'[j].map
    <3>1. \A i, j \in 1..(k - 1) : i # j => snapshots'[i].map # snapshots'[j].map
      BY <1>6 DEF RefsOK
    <3>2. \A i \in 1..(k - 1) : snapshots'[i].map # snapshots'[k].map
      BY <1>5, <1>6 DEF RefsOK
    <3> QED
      BY <1>6, <3>1, <3>2
  <2> QED
    BY <1>1, <1>6, <1>7, <2>1, <2>2, <2>3 DEF RefsOK
<1>9. SnapshotsOK'
  <2>1. ASSUME NEW i \in 1..k
        PROVE  LET t == snapshots'[i]
               IN  /\ t.id < nextSnapshotId'
                   /\ t.latest <= Latest'
                   /\ \A n \in DOMAIN maps'[t.map] :
                        n <= t.latest /\ (n = t.latest => maps'[t.map][n] = t.root)
    <3>1. CASE i = k
      BY <1>1, <1>2, <1>3, <1>5, <1>6, <1>7, <3>1 DEF AnchoredAt, RefsOK
    <3>2. CASE i \in 1..(k - 1)
      <4>1. snapshots[i].id \in Nat
        BY <1>6, <3>2, SnapshotFields
      <4> QED
        BY <1>1, <1>2, <1>6, <1>7, <3>2, <4>1 DEF SnapshotsOK, RefsOK
    <3> QED
      BY <1>6, <3>1, <3>2
  <2>2. \A i, j \in 1..k :
          i < j => /\ snapshots'[i].id < snapshots'[j].id
                   /\ snapshots'[i].latest <= snapshots'[j].latest
    <3>1. \A i, j \in 1..(k - 1) :
            i < j => /\ snapshots'[i].id < snapshots'[j].id
                     /\ snapshots'[i].latest <= snapshots'[j].latest
      BY <1>6 DEF SnapshotsOK
    <3>2. \A i \in 1..(k - 1) : /\ snapshots'[i].id < snapshots'[k].id
                                /\ snapshots'[i].latest <= snapshots'[k].latest
      BY <1>5, <1>6 DEF SnapshotsOK
    <3>3. ASSUME NEW i \in 1..k, NEW j \in 1..k, i < j
          PROVE  i \in 1..(k - 1) /\ (j = k \/ j \in 1..(k - 1))
      BY <1>6, <3>3
    <3> QED
      BY <3>1, <3>2, <3>3, Zenon
  <2> QED
    BY <1>6, <2>1, <2>2 DEF SnapshotsOK
<1>10. AnchoredAt(root)'
  BY <1>1, <1>2, <1>7 DEF AnchoredAt
<1>11. nextSnapshotId' \in Nat
  BY <1>1
<1>12. HeadersOK(root)'
  <2>1. ASSUME NEW i \in 1..k
        PROVE  LET t == snapshots'[i]
               IN  t.latest \in DOMAIN maps'[t.map] \/ headers'[t.latest + 1] = t.root
    <3>1. CASE i = k
      BY <1>1, <1>5, <1>6, <1>7, <3>1 DEF HeadersOK, RefsOK
    <3>2. CASE i \in 1..(k - 1)
      BY <1>1, <1>6, <1>7, <3>2 DEF HeadersOK, RefsOK
    <3> QED
      BY <1>6, <3>1, <3>2
  <2> QED
    BY <1>1, <1>2, <1>6, <1>7, <2>1 DEF HeadersOK
<1> QED
  BY <1>1, <1>2, <1>6, <1>8, <1>9, <1>10, <1>11, <1>12

(* A revert keeps the node consistent: the map of the snapshot has states  *)
(* of the remaining blocks only, and no remaining snapshot shares it.      *)
LEMMA RevertKeeps ==
  ASSUME NodeOK(root), NEW i \in DOMAIN snapshots, RevertToSnapshot(i)
  PROVE  NodeOK(root)' /\ root' = snapshots[i].root
<1> USE DEF NodeOK
<1> DEFINE s == snapshots[i]
           kept == 1..(i - 1)
<1>1. /\ headers' = SubSeq(headers, 1, s.latest + 1) /\ irregular' = s.map
      /\ root' = IF s.latest \in DOMAIN maps[s.map] THEN maps[s.map][s.latest] ELSE s.root
      /\ snapshots' = SubSeq(snapshots, 1, i - 1)
      /\ maps' = Restrict(maps, LiveMaps(snapshots', s.map))
      /\ nextSnapshotId' = nextSnapshotId
  BY DEF RevertToSnapshot
<1>2. /\ s \in Snapshot /\ s.id \in Nat /\ s.latest \in Nat /\ s.root \in Roots
      /\ s.map \in Nat /\ i \in 1..Len(snapshots)
  BY SnapshotFields
<1>3. /\ s.latest <= Latest
      /\ \A n \in DOMAIN maps[s.map] : n <= s.latest /\ (n = s.latest => maps[s.map][n] = s.root)
  BY DEF SnapshotsOK
<1>4. root' = s.root
  BY <1>1, <1>3
<1>5. /\ snapshots' \in Seq(Snapshot) /\ DOMAIN snapshots' = kept
      /\ \A j \in kept : snapshots'[j] = snapshots[j] /\ j \in DOMAIN snapshots /\ j < i
  <2>1. snapshots \in Seq(Snapshot) /\ i - 1 \in 0..Len(snapshots)
    BY <1>2
  <2>2. \A j \in kept : j \in DOMAIN snapshots /\ j < i
    BY <1>2, <2>1
  <2> QED
    BY <1>1, <2>1, <2>2, PrefixFacts
<1>6. /\ headers' \in Seq(Roots) /\ headers' # <<>> /\ Latest' = s.latest
  <2>1. s.latest + 1 \in 0..Len(headers)
    BY <1>2, <1>3 DEF Latest
  <2>2. headers' \in Seq(Roots) /\ Len(headers') = s.latest + 1
    BY <1>1, <2>1, PrefixFacts
  <2> QED
    BY <1>2, <2>2 DEF Latest
<1> HIDE DEF s
<1>7. /\ DOMAIN maps' = {s.map} \cup {snapshots[j].map : j \in kept}
      /\ DOMAIN maps' \subseteq DOMAIN maps
      /\ maps' \in [DOMAIN maps' -> IrregularStates]
      /\ \A ref \in DOMAIN maps' : maps'[ref] = maps[ref]
  <2>1. LiveMaps(snapshots', s.map) = {s.map} \cup {snapshots[j].map : j \in kept}
    BY <1>5 DEF LiveMaps
  <2>2. LiveMaps(snapshots', s.map) \subseteq DOMAIN maps
    BY <1>5, <2>1 DEF RefsOK, s
  <2> QED
    BY <1>1, <2>1, <2>2 DEF RefsOK, Restrict
<1>8. RefsOK'
  <2>1. \A j \in kept : /\ snapshots'[j].map \in DOMAIN maps' /\ snapshots'[j].map # s.map
    BY <1>5, <1>7 DEF RefsOK, s
  <2>2. \A j, l \in kept : j # l => snapshots'[j].map # snapshots'[l].map
    BY <1>5 DEF RefsOK
  <2>3. \A ref \in DOMAIN maps' : ref \in Nat /\ ref < nextSnapshotId'
    BY <1>1, <1>7 DEF RefsOK
  <2>4. irregular' \in DOMAIN maps'
    BY <1>1, <1>7 DEF s
  <2> QED
    BY <1>1, <1>5, <1>7, <2>1, <2>2, <2>3, <2>4, ZenonT(30) DEF RefsOK, s
<1>9. SnapshotsOK'
  <2>1. ASSUME NEW j \in kept
        PROVE  LET t == snapshots'[j]
               IN  /\ t.id < nextSnapshotId'
                   /\ t.latest <= Latest'
                   /\ \A n \in DOMAIN maps'[t.map] :
                        n <= t.latest /\ (n = t.latest => maps'[t.map][n] = t.root)
    <3>1. snapshots[j].latest <= s.latest
      BY <1>5 DEF SnapshotsOK, s
    <3>2. maps'[snapshots[j].map] = maps[snapshots[j].map]
      BY <1>7
    <3>3. snapshots'[j] = snapshots[j] /\ j \in DOMAIN snapshots
      BY <1>5
    <3>4. /\ snapshots[j].id < nextSnapshotId
          /\ \A n \in DOMAIN maps[snapshots[j].map] :
               /\ n <= snapshots[j].latest
               /\ n = snapshots[j].latest => maps[snapshots[j].map][n] = snapshots[j].root
      BY <3>3 DEF SnapshotsOK
    <3>5. nextSnapshotId' = nextSnapshotId
      BY <1>1
    <3> QED
      BY <1>6, <3>1, <3>2, <3>3, <3>4, <3>5
  <2>2. \A j, l \in kept :
          j < l => /\ snapshots'[j].id < snapshots'[l].id
                   /\ snapshots'[j].latest <= snapshots'[l].latest
    BY <1>5 DEF SnapshotsOK
  <2> QED
    BY <1>5, <2>1, <2>2 DEF SnapshotsOK
<1>10. AnchoredAt(root)'
  <2>1. irregular' = s.map /\ maps'[s.map] = maps[s.map]
    BY <1>1, <1>7 DEF s
  <2> QED
    BY <1>3, <1>4, <1>6, <2>1 DEF AnchoredAt, s
<1>11. Latest' <= MaxBlock
  BY <1>2, <1>3, <1>6, NodeBounds DEF Latest, s
<1>12. nextSnapshotId' \in Nat /\ root' \in Roots
  BY <1>1, <1>2, <1>4 DEF s
<1>13. HeadersOK(root)'
  <2>1. \A n \in 0..s.latest : headers'[n + 1] = headers[n + 1]
    BY <1>1, <1>2, <1>3, PrefixFacts DEF Latest, s
  <2>2. irregular' = s.map /\ maps'[s.map] = maps[s.map]
    BY <1>1, <1>7 DEF s
  <2>3. s.latest \in DOMAIN maps[s.map] \/ headers[s.latest + 1] = s.root
    BY DEF HeadersOK, s
  <2>4. ASSUME NEW j \in kept
        PROVE  LET t == snapshots'[j]
               IN  t.latest \in DOMAIN maps'[t.map] \/ headers'[t.latest + 1] = t.root
    <3>1. snapshots[j].latest <= s.latest /\ snapshots[j].latest \in Nat
      BY <1>5, SnapshotFields DEF SnapshotsOK, s
    <3>2. maps'[snapshots[j].map] = maps[snapshots[j].map]
      BY <1>7
    <3>3. snapshots'[j] = snapshots[j] /\ j \in DOMAIN snapshots
      BY <1>5
    <3>4. snapshots[j].latest \in 0..s.latest
      BY <1>2, <3>1 DEF s
    <3>5. headers'[snapshots[j].latest + 1] = headers[snapshots[j].latest + 1]
      BY <2>1, <3>4
    <3> QED
      BY <3>2, <3>3, <3>5 DEF HeadersOK
  <2>5. s.latest \in 0..s.latest
    BY <1>2 DEF s
  <2> QED
    BY <1>4, <1>5, <1>6, <2>1, <2>2, <2>3, <2>4, <2>5 DEF HeadersOK
<1> QED
  BY <1>4, <1>5, <1>6, <1>8, <1>9, <1>10, <1>11, <1>12, <1>13 DEF s

(* Between requests and in a pending context, the state at the latest      *)
(* block is the state manager's; in the context of an old block it is the  *)
(* one to go back to.                                                      *)
LEMMA CurrentRootIs ==
  /\ context = NoContext => CurrentRoot = root
  /\ context \in Context /\ context.kind = "pending" => CurrentRoot = root
  /\ context \in Context /\ context.kind = "block" => CurrentRoot = context.root
BY NoContextAssumption DEF CurrentRoot

(* The same of the next state *)
LEMMA CurrentRootBecomes ==
  /\ context' = NoContext => CurrentRoot' = root'
  /\ context' \in Context /\ context'.kind = "pending" => CurrentRoot' = root'
  /\ context' \in Context /\ context'.kind = "block" => CurrentRoot' = context'.root
BY NoContextAssumption DEF CurrentRoot

(* What a read remembers has the types of a context. *)
LEMMA ContextIs ==
  ASSUME NodeOK(root), NEW kind \in {"block", "pending"}, NEW id \in Nat
  PROVE  [kind |-> kind, root |-> root, id |-> id, before |-> Before] \in Context
<1>1. maps[irregular] \in IrregularStates
  BY DEF NodeOK, RefsOK
<1>2. Before \in [headers : Seq(Roots), root : Roots, irregular : IrregularStates,
                  snapshots : Seq(Snapshot)]
  BY <1>1 DEF NodeOK, Before
<1> QED
  BY <1>2 DEF Context, NodeOK

(* The node is consistent at first. *)
LEMMA InitEstablishes == StateInit => IInv
<1> SUFFICES ASSUME StateInit PROVE IInv
  OBVIOUS
<1> USE DEF StateInit
<1>1. /\ headers \in Seq(Roots) /\ headers # <<>> /\ Latest = 0 /\ root \in Roots
  BY GenesisAssumption DEF Latest
<1>2. snapshots \in Seq(Snapshot) /\ DOMAIN snapshots = {} /\ nextSnapshotId \in Nat
  OBVIOUS
<1>3. DOMAIN maps = {0} /\ maps[0] = <<>> /\ DOMAIN maps[0] = {}
  OBVIOUS
<1>4. maps[0] \in [DOMAIN maps[0] -> Roots]
  BY <1>3
<1>5. maps[0] \in IrregularStates
  BY <1>3, <1>4, IrregularStatesAre
<1>6. maps \in [DOMAIN maps -> IrregularStates]
  BY <1>3, <1>5
<1>7. RefsOK
  BY <1>2, <1>3, <1>6 DEF RefsOK
<1>8. SnapshotsOK
  BY <1>2 DEF SnapshotsOK
<1>9. AnchoredAt(root)
  BY <1>3 DEF AnchoredAt
<1>10. HeadersOK(root)
  BY <1>1, <1>2 DEF HeadersOK
<1>11. NodeOK(root)
  BY <1>1, <1>2, <1>7, <1>8, <1>9, <1>10, NodeBounds DEF NodeOK
<1> QED
  BY <1>1, <1>11, CurrentRootIs DEF IInv, ContextOK

(* A request that changes the state keeps the invariant. *)
LEMMA ChangeKeeps ==
  ASSUME IInv, Change
  PROVE  IInv'
<1>1. context = NoContext /\ context' = NoContext
  BY DEF Change
<1>2. NodeOK(root)
  BY <1>1, CurrentRootIs DEF IInv
<1>3. NodeOK(root)'
  BY <1>2, SetStateKeeps, MineBlockKeeps, TakeSnapshotKeeps, RevertKeeps DEF Change
<1>4. root' \in Roots
  BY <1>3 DEF NodeOK
<1>5. CurrentRoot' = root'
  BY <1>1, CurrentRootBecomes
<1>6. NodeOK(CurrentRoot)'
  BY <1>3, <1>5 DEF NodeOK, AnchoredAt, HeadersOK
<1> QED
  BY <1>1, <1>4, <1>6 DEF IInv, ContextOK

(* Entering the context of an old block leaves the node as it is, apart    *)
(* from the state manager.                                                 *)
LEMMA SetBlockContextKeeps ==
  ASSUME IInv, context = NoContext, NEW n \in 0..Latest, SetBlockContext(n)
  PROVE  IInv'
<1>1. NodeOK(root) /\ root \in Roots
  BY CurrentRootIs DEF IInv
<1>2. /\ context' = [kind |-> "block", root |-> root, id |-> 0, before |-> Before]
      /\ root' = BlockState(n) /\ headers' = headers /\ maps' = maps
      /\ irregular' = irregular /\ snapshots' = snapshots /\ nextSnapshotId' = nextSnapshotId
  BY DEF SetBlockContext
<1>3. context' \in Context /\ context'.kind = "block" /\ context'.root = root
  BY <1>1, <1>2, ContextIs
<1>4. root' \in Roots
  <2>1. maps[irregular] \in [DOMAIN maps[irregular] -> Roots]
    BY <1>1, IrregularStatesAre DEF NodeOK, RefsOK
  <2>2. headers[n + 1] \in Roots
    BY <1>1 DEF NodeOK, Latest
  <2> QED
    BY <1>2, <2>1, <2>2 DEF BlockState
<1>5. CurrentRoot' = root
  BY <1>3, CurrentRootBecomes
<1>6. NodeOK(CurrentRoot)'
  BY <1>1, <1>2, <1>5 DEF NodeOK, AnchoredAt, HeadersOK, RefsOK, SnapshotsOK, Latest
<1>7. context'.before = [headers |-> headers', root |-> context'.root,
                         irregular |-> maps'[irregular'], snapshots |-> snapshots']
  BY <1>2 DEF Before
<1> QED
  BY <1>3, <1>4, <1>6, <1>7 DEF IInv, ContextOK

(* Entering the pending context takes a snapshot, which is the last one. *)
LEMMA EnterPendingContextKeeps ==
  ASSUME IInv, context = NoContext, EnterPendingContext
  PROVE  IInv'
<1>1. NodeOK(root) /\ root \in Roots
  BY CurrentRootIs DEF IInv
<1> DEFINE s == [id |-> nextSnapshotId, latest |-> Latest, root |-> root, map |-> irregular]
<1>2. /\ context' = [kind |-> "pending", root |-> root, id |-> nextSnapshotId,
                     before |-> Before]
      /\ TakeSnapshot
  BY DEF EnterPendingContext
<1>3. /\ context' \in Context /\ context'.kind = "pending"
      /\ context'.id = nextSnapshotId /\ context'.before = Before
  BY <1>1, <1>2, ContextIs DEF NodeOK
<1>4. NodeOK(root)'
  BY <1>1, <1>2, TakeSnapshotKeeps
<1>5. NodeOK(CurrentRoot)' /\ root' \in Roots
  <2>1. CurrentRoot' = root'
    BY <1>3, CurrentRootBecomes
  <2> QED
    BY <1>4, <2>1 DEF NodeOK, AnchoredAt, HeadersOK
<1>6. /\ headers' = headers /\ snapshots' = Append(snapshots, s)
      /\ maps' = MapSet(maps, nextSnapshotId, maps[irregular])
  BY <1>2 DEF TakeSnapshot, CopyMap
<1>7. s \in Snapshot /\ s.id = nextSnapshotId /\ s.latest = Latest /\ s.root = root /\ s.map = irregular
  BY <1>1 DEF Snapshot, NodeOK, RefsOK, Latest
<1> HIDE DEF s
<1>8. snapshots \in Seq(Snapshot)
  BY <1>1 DEF NodeOK
<1>9. /\ snapshots' # <<>> /\ Len(snapshots') = Len(snapshots) + 1
      /\ snapshots'[Len(snapshots')] = s
  BY <1>6, <1>7, <1>8
<1>10. SubSeq(snapshots', 1, Len(snapshots') - 1) = snapshots
  <2>1. Len(snapshots') - 1 = Len(snapshots) /\ Len(snapshots) \in 0..Len(snapshots)
    BY <1>8, <1>9
  <2>2. SubSeq(snapshots', 1, Len(snapshots)) = SubSeq(snapshots, 1, Len(snapshots))
    BY <1>6, <1>7, <1>8, <2>1, PrefixOfAppend
  <2>3. SubSeq(snapshots, 1, Len(snapshots)) = snapshots
    BY <1>8, SubSeqFull
  <2> QED
    BY <2>1, <2>2, <2>3
<1>11. SubSeq(headers', 1, s.latest + 1) = headers
  <2>1. s.latest + 1 = Len(headers) /\ headers \in Seq(Roots)
    BY <1>1, <1>7 DEF NodeOK, Latest
  <2>2. SubSeq(headers, 1, Len(headers)) = headers
    BY <2>1, SubSeqFull
  <2> QED
    BY <1>6, <2>1, <2>2
<1>12. maps'[s.map] = maps[irregular]
  BY <1>1, <1>6, <1>7 DEF MapSet, NodeOK, RefsOK
<1>13. context'.before = [headers |-> SubSeq(headers', 1, s.latest + 1), root |-> s.root,
                          irregular |-> maps'[s.map],
                          snapshots |-> SubSeq(snapshots', 1, Len(snapshots') - 1)]
  BY <1>3, <1>7, <1>10, <1>11, <1>12 DEF Before
<1>14. ContextOK'
  BY <1>3, <1>7, <1>9, <1>13 DEF ContextOK
<1> QED
  BY <1>5, <1>14 DEF IInv

(* The action of a read in an old block moves the state manager only. *)
LEMMA RunInContextKeeps ==
  ASSUME IInv, context # NoContext, NEW r \in Roots, RunInContext(r)
  PROVE  IInv'
<1>1. /\ context \in Context /\ context.kind = "block"
      /\ context.before = [headers |-> headers, root |-> context.root,
                           irregular |-> maps[irregular], snapshots |-> snapshots]
  BY DEF IInv, ContextOK, RunInContext
<1>2. /\ root' = r /\ headers' = headers /\ maps' = maps /\ irregular' = irregular
      /\ snapshots' = snapshots /\ nextSnapshotId' = nextSnapshotId /\ context' = context
  BY DEF RunInContext
<1>3. CurrentRoot' = CurrentRoot
  BY <1>1, <1>2, CurrentRootIs, CurrentRootBecomes
<1>4. NodeOK(CurrentRoot)'
  BY <1>2, <1>3 DEF IInv, NodeOK, AnchoredAt, HeadersOK, RefsOK, SnapshotsOK, Latest
<1>5. ContextOK'
  BY <1>1, <1>2 DEF ContextOK
<1> QED
  BY <1>2, <1>4, <1>5 DEF IInv

(* The pending block is mined on top of the snapshot. *)
LEMMA MinePendingBlockKeeps ==
  ASSUME IInv, context # NoContext, NEW r \in Roots, Latest < MaxBlock, MinePendingBlock(r)
  PROVE  IInv'
<1> DEFINE s == snapshots[Len(snapshots)]
<1>1. /\ context \in Context /\ context.kind = "pending" /\ snapshots # <<>>
      /\ s.id = context.id
      /\ context.before = [headers |-> SubSeq(headers, 1, s.latest + 1), root |-> s.root,
                           irregular |-> maps[s.map],
                           snapshots |-> SubSeq(snapshots, 1, Len(snapshots) - 1)]
  BY DEF IInv, ContextOK, MinePendingBlock
<1>2. NodeOK(root)
  BY <1>1, CurrentRootIs DEF IInv
<1>3. MineBlock(r) /\ context' = context
  BY DEF MinePendingBlock
<1>4. NodeOK(root)'
  BY <1>2, <1>3, MineBlockKeeps
<1>5. NodeOK(CurrentRoot)' /\ root' \in Roots
  <2>1. CurrentRoot' = root'
    BY <1>1, <1>3, CurrentRootBecomes
  <2> QED
    BY <1>4, <2>1 DEF NodeOK, AnchoredAt, HeadersOK
<1>6. headers' = Append(headers, r) /\ maps' = maps /\ snapshots' = snapshots
  BY <1>3 DEF MineBlock
<1>7. SubSeq(headers', 1, s.latest + 1) = SubSeq(headers, 1, s.latest + 1)
  <2>1. Len(snapshots) \in DOMAIN snapshots
    BY <1>1, <1>2 DEF NodeOK
  <2>2. s.latest \in Nat /\ s.latest <= Latest
    BY <1>2, <2>1, SnapshotFields DEF NodeOK, SnapshotsOK
  <2>3. headers \in Seq(Roots) /\ s.latest + 1 \in 0..Len(headers)
    BY <1>2, <2>2 DEF NodeOK, Latest
  <2> QED
    BY <1>6, <2>3, PrefixOfAppend
<1>8. ContextOK'
  BY <1>1, <1>3, <1>6, <1>7 DEF ContextOK
<1> QED
  BY <1>5, <1>8 DEF IInv

(* Leaving the context of an old block *)
LEMMA RestoreBlockContextKeeps ==
  ASSUME IInv, context # NoContext, RestoreBlockContext
  PROVE  /\ IInv'
         /\ context.before = [headers |-> headers', root |-> root',
                              irregular |-> maps'[irregular'], snapshots |-> snapshots']
<1>1. /\ context \in Context /\ context.kind = "block"
      /\ context.before = [headers |-> headers, root |-> context.root,
                           irregular |-> maps[irregular], snapshots |-> snapshots]
  BY DEF IInv, ContextOK, RestoreBlockContext
<1>2. /\ root' = context.root /\ headers' = headers /\ maps' = maps /\ irregular' = irregular
      /\ snapshots' = snapshots /\ nextSnapshotId' = nextSnapshotId /\ context' = NoContext
  BY DEF RestoreBlockContext
<1>3. CurrentRoot' = context.root /\ CurrentRoot = context.root
  BY <1>1, <1>2, CurrentRootIs, CurrentRootBecomes
<1>4. NodeOK(CurrentRoot)'
  BY <1>2, <1>3 DEF IInv, NodeOK, AnchoredAt, HeadersOK, RefsOK, SnapshotsOK, Latest
<1>5. root' \in Roots
  BY <1>2, <1>3 DEF IInv, NodeOK
<1> QED
  BY <1>1, <1>2, <1>4, <1>5 DEF IInv, ContextOK

(* Leaving the pending context: the snapshot to revert to is the last one. *)
LEMMA LeavePendingContextKeeps ==
  ASSUME IInv, context # NoContext, LeavePendingContext
  PROVE  /\ IInv'
         /\ context.before = [headers |-> headers', root |-> root',
                              irregular |-> maps'[irregular'], snapshots |-> snapshots']
<1> DEFINE k == Len(snapshots)
           s == snapshots[k]
<1>1. /\ context \in Context /\ context.kind = "pending" /\ snapshots # <<>>
      /\ s.id = context.id
      /\ context.before = [headers |-> SubSeq(headers, 1, s.latest + 1), root |-> s.root,
                           irregular |-> maps[s.map],
                           snapshots |-> SubSeq(snapshots, 1, k - 1)]
  BY DEF IInv, ContextOK, LeavePendingContext
<1>2. NodeOK(root)
  BY <1>1, CurrentRootIs DEF IInv
<1>3. PICK i \in DOMAIN snapshots : snapshots[i].id = context.id /\ RevertToSnapshot(i)
  BY DEF LeavePendingContext
<1>4. i = k
  <2>1. k \in DOMAIN snapshots /\ i \in 1..k /\ snapshots[i].id \in Nat
    BY <1>1, <1>2, <1>3, SnapshotFields DEF NodeOK
  <2>2. i < k => snapshots[i].id < snapshots[k].id
    BY <1>2, <2>1 DEF NodeOK, SnapshotsOK
  <2> QED
    BY <1>1, <1>3, <2>1, <2>2
<1>5. NodeOK(root)' /\ root' = s.root
  BY <1>2, <1>3, <1>4, RevertKeeps
<1>6. context' = NoContext
  BY DEF LeavePendingContext
<1>7. NodeOK(CurrentRoot)' /\ root' \in Roots
  <2>1. CurrentRoot' = root'
    BY <1>6, CurrentRootBecomes
  <2> QED
    BY <1>5, <2>1 DEF NodeOK, AnchoredAt, HeadersOK
<1>8. /\ headers' = SubSeq(headers, 1, s.latest + 1) /\ irregular' = s.map
      /\ snapshots' = SubSeq(snapshots, 1, k - 1) /\ maps'[s.map] = maps[s.map]
  <2>1. /\ headers' = SubSeq(headers, 1, s.latest + 1) /\ irregular' = s.map
        /\ snapshots' = SubSeq(snapshots, 1, k - 1)
        /\ maps' = Restrict(maps, LiveMaps(snapshots', s.map))
    BY <1>3, <1>4 DEF RevertToSnapshot
  <2>2. s.map \in LiveMaps(snapshots', s.map)
    BY DEF LiveMaps
  <2>3. maps'[s.map] = maps[s.map]
    BY <2>1, <2>2 DEF Restrict
  <2> QED
    BY <2>1, <2>3
<1> HIDE DEF s, k
<1>9. context.before = [headers |-> headers', root |-> root',
                        irregular |-> maps'[irregular'], snapshots |-> snapshots']
  BY <1>1, <1>5, <1>8
<1> QED
  BY <1>6, <1>7, <1>9 DEF IInv, ContextOK

(* The invariant holds in every reachable state. *)
THEOREM Invariance == StateSpec => []IInv
<1>1. IInv /\ [StateNext]_stateVars => IInv'
  <2> SUFFICES ASSUME IInv, [StateNext]_stateVars PROVE IInv'
    OBVIOUS
  <2>1. CASE UNCHANGED stateVars
    <3>1. /\ headers' = headers /\ root' = root /\ maps' = maps /\ irregular' = irregular
          /\ snapshots' = snapshots /\ nextSnapshotId' = nextSnapshotId /\ context' = context
      BY <2>1 DEF stateVars
    <3> QED
      BY <3>1 DEF IInv, NodeOK, ContextOK, AnchoredAt, HeadersOK, RefsOK, SnapshotsOK, Latest, CurrentRoot
  <2>2. CASE Change
    BY <2>2, ChangeKeeps
  <2>3. CASE Read
    BY <2>3, SetBlockContextKeeps, EnterPendingContextKeeps, RunInContextKeeps,
       MinePendingBlockKeeps, RestoreBlockContextKeeps, LeavePendingContextKeeps DEF Read
  <2> QED
    BY <2>1, <2>2, <2>3 DEF StateNext
<1> QED
  BY <1>1, InitEstablishes, PTL DEF StateSpec

(* The states, snapshots and contexts keep their types, and every map that *)
(* is referred to exists (StateTypeOK).                                    *)
THEOREM TypeCorrect == StateSpec => []StateTypeOK
<1>1. IInv => StateTypeOK
  BY DEF IInv, NodeOK, RefsOK, ContextOK, StateTypeOK
<1> QED
  BY <1>1, Invariance, PTL

(* No irregular state is kept for a block that does not exist, and the one *)
(* of the latest block is the node's current state.                        *)
THEOREM IrregularStatesAreAnchored == StateSpec => []IrregularStatesAnchored
<1>1. IInv => IrregularStatesAnchored
  BY DEF IInv, NodeOK, AnchoredAt, IrregularStatesAnchored
<1> QED
  BY <1>1, Invariance, PTL

(* A read of an old block or of the pending one leaves no trace, wherever  *)
(* its action throws (ReadsLeaveNoTrace).                                  *)
THEOREM NoTraceOfReads == StateSpec => ReadsLeaveNoTrace
<1> DEFINE Untouched ==
      context # NoContext /\ context' = NoContext =>
        context.before = [headers |-> headers', root |-> root',
                          irregular |-> maps'[irregular'], snapshots |-> snapshots']
<1>1. IInv /\ [StateNext]_stateVars => [Untouched]_stateVars
  <2> SUFFICES ASSUME IInv, StateNext, context # NoContext, context' = NoContext
               PROVE  context.before = [headers |-> headers', root |-> root',
                        irregular |-> maps'[irregular'], snapshots |-> snapshots']
    OBVIOUS
  <2>1. ~Change
    BY DEF Change
  <2>2. ASSUME NEW r \in Roots PROVE ~RunInContext(r) /\ ~MinePendingBlock(r)
    BY DEF RunInContext, MinePendingBlock
  <2>3. RestoreBlockContext \/ LeavePendingContext
    BY <2>1, <2>2 DEF StateNext, Read
  <2> QED
    BY <2>3, RestoreBlockContextKeeps, LeavePendingContextKeeps
<1> QED
  BY <1>1, Invariance, PTL DEF StateSpec, ReadsLeaveNoTrace

-----------------------------------------------------------------------------
(* The node implements the store of module SnapshotStore. *)

(* The state of block n in a map of irregular states *)
StateAt(map, n) == IF n \in DOMAIN map THEN map[n] ELSE headers[n + 1]

(* The refinement mapping: what reads show, and what a revert to the i-th  *)
(* snapshot would make them show.                                          *)
Seen == [i \in 1..Len(headers) |-> Shown(i - 1)]

Kept ==
  [i \in DOMAIN snapshots |->
     [id |-> snapshots[i].id,
      shown |-> [j \in 1..(snapshots[i].latest + 1) |->
                   ShownAfterRevert(snapshots[i], j - 1)]]]

(* Reads show the states of the node's map, at the latest block too. *)
LEMMA ShownIs ==
  NodeOK(CurrentRoot) => \A n \in 0..Latest : Shown(n) = StateAt(maps[irregular], n)
BY DEF NodeOK, AnchoredAt, HeadersOK, Shown, BlockState, StateAt

(* The same of the next state *)
LEMMA ShownBecomes ==
  NodeOK(CurrentRoot)' =>
    \A n \in 0..Latest' : Shown(n)' = StateAt(maps[irregular], n)'
BY DEF NodeOK, AnchoredAt, HeadersOK, Shown, BlockState, StateAt

(* A revert brings back the states of the snapshot's map. *)
LEMMA SeenAfterIs ==
  \A i \in DOMAIN snapshots : NodeOK(CurrentRoot) =>
    \A n \in 0..snapshots[i].latest :
      ShownAfterRevert(snapshots[i], n) = StateAt(maps[snapshots[i].map], n)
BY DEF NodeOK, SnapshotsOK, HeadersOK, ShownAfterRevert, StateAt

(* The same of the next state *)
LEMMA SeenAfterBecomes ==
  \A i \in DOMAIN snapshots' : NodeOK(CurrentRoot)' =>
    \A n \in 0..snapshots'[i].latest :
      ShownAfterRevert(snapshots[i], n)' = StateAt(maps[snapshots[i].map], n)'
BY DEF NodeOK, SnapshotsOK, HeadersOK, ShownAfterRevert, StateAt

(* The states that reads show form a sequence of the chain's length. *)
LEMMA SeenIs ==
  ASSUME NodeOK(CurrentRoot)
  PROVE  /\ Seen \in Seq(Roots) /\ Len(Seen) = Len(headers) /\ DOMAIN Seen = 1..Len(headers)
         /\ \A i \in 1..Len(headers) : Seen[i] = StateAt(maps[irregular], i - 1)
<1>1. headers \in Seq(Roots) /\ Len(headers) \in Nat
  BY DEF NodeOK
<1>2. maps[irregular] \in [DOMAIN maps[irregular] -> Roots]
  BY IrregularStatesAre DEF NodeOK, RefsOK
<1>3. ASSUME NEW i \in 1..Len(headers)
      PROVE  Shown(i - 1) = StateAt(maps[irregular], i - 1) /\ Shown(i - 1) \in Roots
  <2>1. i - 1 \in 0..Latest /\ (i - 1) + 1 = i
    BY <1>1 DEF Latest
  <2>2. Shown(i - 1) = StateAt(maps[irregular], i - 1)
    BY <2>1, ShownIs
  <2>3. headers[i] \in Roots
    BY <1>1
  <2> QED
    BY <1>2, <2>1, <2>2, <2>3 DEF StateAt
<1> QED
  BY <1>1, <1>3 DEF Seen

(* The same of the next state *)
LEMMA SeenBecomes ==
  ASSUME NodeOK(CurrentRoot)'
  PROVE  /\ Seen' \in Seq(Roots) /\ Len(Seen') = Len(headers')
         /\ DOMAIN Seen' = 1..Len(headers')
         /\ \A i \in 1..Len(headers') : Seen'[i] = StateAt(maps[irregular], i - 1)'
<1>1. headers' \in Seq(Roots) /\ Len(headers') \in Nat
  BY DEF NodeOK
<1>2. maps'[irregular'] \in [DOMAIN maps'[irregular'] -> Roots]
  BY IrregularStatesAre DEF NodeOK, RefsOK
<1>3. ASSUME NEW i \in 1..Len(headers')
      PROVE  Shown(i - 1)' = StateAt(maps[irregular], i - 1)' /\ Shown(i - 1)' \in Roots
  <2>1. i - 1 \in 0..Latest' /\ (i - 1) + 1 = i
    BY <1>1 DEF Latest
  <2>2. Shown(i - 1)' = StateAt(maps[irregular], i - 1)'
    BY <2>1, ShownBecomes
  <2>3. headers'[i] \in Roots
    BY <1>1
  <2> QED
    BY <1>2, <2>1, <2>2, <2>3 DEF StateAt
<1> QED
  BY <1>1, <1>3 DEF Seen

(* What a revert would show stays while the snapshots, their maps and the  *)
(* blocks below them do.                                                   *)
LEMMA KeptStays ==
  ASSUME NodeOK(CurrentRoot), NodeOK(CurrentRoot)', snapshots' = snapshots,
         \A i \in DOMAIN snapshots :
           /\ maps'[snapshots[i].map] = maps[snapshots[i].map]
           /\ \A n \in 0..snapshots[i].latest : headers'[n + 1] = headers[n + 1]
  PROVE  Kept' = Kept
<1>1. ASSUME NEW i \in DOMAIN snapshots, NEW j \in 1..(snapshots[i].latest + 1)
      PROVE  ShownAfterRevert(snapshots[i], j - 1)' = ShownAfterRevert(snapshots[i], j - 1)
  <2>1. j - 1 \in 0..snapshots[i].latest
    BY SnapshotFields DEF NodeOK
  <2>2. ShownAfterRevert(snapshots[i], j - 1) = StateAt(maps[snapshots[i].map], j - 1)
    BY <2>1, SeenAfterIs
  <2>3. ShownAfterRevert(snapshots[i], j - 1)' = StateAt(maps[snapshots[i].map], j - 1)'
    BY <2>1, SeenAfterBecomes
  <2> QED
    BY <2>1, <2>2, <2>3 DEF StateAt
<1>2. ASSUME NEW i \in DOMAIN snapshots
      PROVE  [j \in 1..(snapshots[i].latest + 1) |-> ShownAfterRevert(snapshots[i], j - 1)]'
             = [j \in 1..(snapshots[i].latest + 1) |-> ShownAfterRevert(snapshots[i], j - 1)]
  BY <1>1
<1> QED
  BY <1>2 DEF Kept

(* Two sequences of states are the same when they agree everywhere. *)
LEMMA SameSeen ==
  ASSUME NodeOK(CurrentRoot)', NEW t \in Seq(Roots), Len(t) = Len(headers'),
         \A i \in 1..Len(headers') : t[i] = StateAt(maps[irregular], i - 1)'
  PROVE  Seen' = t
BY SeenBecomes, SameSequence

(* A cheat code is the SetLatest step of the store. *)
LEMMA SetStateSteps ==
  ASSUME NodeOK(CurrentRoot), NodeOK(CurrentRoot)', NEW r \in Roots, SetState(r)
  PROVE  Store!SetLatest(r)
<1>1. /\ headers' = headers /\ irregular' = irregular
      /\ snapshots' = snapshots /\ nextSnapshotId' = nextSnapshotId
      /\ maps' = [maps EXCEPT ![irregular] = MapSet(@, Latest, r)]
  BY DEF SetState, PersistIrregularWorldState
<1>2. Latest = Len(headers) - 1 /\ Len(headers) \in Nat \ {0}
  BY DEF Latest, NodeOK
<1>3. /\ \A n \in 0..(Len(headers) - 2) : StateAt(maps[irregular], n)' = StateAt(maps[irregular], n)
      /\ \A n \in {Len(headers) - 1} : StateAt(maps[irregular], n)' = r
  <2>1. maps'[irregular] = MapSet(maps[irregular], Latest, r)
    BY <1>1 DEF NodeOK, RefsOK
  <2> QED
    BY <1>1, <1>2, <2>1 DEF StateAt, MapSet
<1> DEFINE t == [Seen EXCEPT ![Len(Seen)] = r]
<1>4. /\ t \in Seq(Roots) /\ Len(t) = Len(headers)
      /\ \A i \in 1..Len(headers) : t[i] = IF i = Len(headers) THEN r ELSE Seen[i]
  BY <1>2, SeenIs
<1> HIDE DEF t
<1>5. ASSUME NEW i \in 1..Len(headers) PROVE t[i] = StateAt(maps[irregular], i - 1)'
  <2>1. CASE i = Len(headers)
    BY <1>2, <1>3, <1>4, <2>1
  <2>2. CASE i # Len(headers)
    <3>1. i - 1 \in 0..(Len(headers) - 2) /\ Seen[i] = StateAt(maps[irregular], i - 1)
      BY <1>2, <2>2, SeenIs
    <3> QED
      BY <1>3, <1>4, <2>2, <3>1
  <2> QED
    BY <2>1, <2>2
<1>6. Seen' = t
  BY <1>1, <1>4, <1>5, SameSeen
<1>7. Kept' = Kept
  BY <1>1, KeptStays DEF NodeOK, RefsOK
<1> QED
  BY <1>1, <1>6, <1>7 DEF Store!SetLatest, Seen, Kept, t

(* A mined block is the AddBlock step of the store: the block before it    *)
(* keeps the state that it showed as the latest one.                       *)
LEMMA MineBlockSteps ==
  ASSUME NodeOK(CurrentRoot), NodeOK(CurrentRoot)', NEW r \in Roots, MineBlock(r)
  PROVE  Store!AddBlock(r)
<1>1. /\ headers' = Append(headers, r) /\ irregular' = irregular
      /\ snapshots' = snapshots /\ nextSnapshotId' = nextSnapshotId /\ maps' = maps
  BY DEF MineBlock
<1>2. /\ headers \in Seq(Roots) /\ Latest = Len(headers) - 1 /\ Len(headers) \in Nat \ {0}
      /\ Len(headers') = Len(headers) + 1
      /\ \A n \in 0..(Len(headers) - 1) : headers'[n + 1] = headers[n + 1]
      /\ headers'[Len(headers) + 1] = r
  BY <1>1, AppendFacts DEF Latest, NodeOK
<1>3. /\ \A n \in 0..(Len(headers) - 1) : StateAt(maps[irregular], n)' = StateAt(maps[irregular], n)
      /\ \A n \in {Len(headers)} : StateAt(maps[irregular], n)' = r
  <2>1. Len(headers) \notin DOMAIN maps[irregular]
    BY <1>2 DEF NodeOK, AnchoredAt
  <2> QED
    BY <1>1, <1>2, <2>1 DEF StateAt
<1> DEFINE t == Append(Seen, r)
<1>4. /\ t \in Seq(Roots) /\ Len(t) = Len(headers')
      /\ \A i \in 1..Len(headers) : t[i] = Seen[i]
      /\ t[Len(headers) + 1] = r
  BY <1>2, SeenIs, AppendFacts
<1> HIDE DEF t
<1>5. ASSUME NEW i \in 1..Len(headers') PROVE t[i] = StateAt(maps[irregular], i - 1)'
  <2>1. CASE i = Len(headers) + 1
    BY <1>2, <1>3, <1>4, <2>1
  <2>2. CASE i # Len(headers) + 1
    <3>1. i - 1 \in 0..(Len(headers) - 1) /\ i \in 1..Len(headers)
      BY <1>2, <2>2
    <3> QED
      BY <1>3, <1>4, <3>1, SeenIs
  <2> QED
    BY <2>1, <2>2
<1>6. Seen' = t
  BY <1>4, <1>5, SameSeen
<1>7. Kept' = Kept
  <2>1. ASSUME NEW i \in DOMAIN snapshots, NEW n \in 0..snapshots[i].latest
        PROVE  n \in 0..(Len(headers) - 1)
    BY <1>2, SnapshotFields DEF NodeOK, SnapshotsOK
  <2> QED
    BY <1>1, <1>2, <2>1, KeptStays
<1> QED
  BY <1>1, <1>6, <1>7 DEF Store!AddBlock, Seen, Kept, t

(* The states that a revert to the i-th snapshot would bring back *)
Remembered(i) ==
  [j \in 1..(snapshots[i].latest + 1) |-> StateAt(maps[snapshots[i].map], j - 1)]

(* A snapshot remembers one state for each of its blocks. *)
LEMMA RememberedIs ==
  ASSUME NodeOK(CurrentRoot), NEW i \in DOMAIN snapshots
  PROVE  /\ Remembered(i) \in Seq(Roots)
         /\ Len(Remembered(i)) = snapshots[i].latest + 1
         /\ Remembered(i)
              = [j \in 1..(snapshots[i].latest + 1) |-> ShownAfterRevert(snapshots[i], j - 1)]
<1>1. /\ snapshots[i].latest \in Nat /\ snapshots[i].latest <= Latest
      /\ maps[snapshots[i].map] \in [DOMAIN maps[snapshots[i].map] -> Roots]
      /\ headers \in Seq(Roots)
  BY SnapshotFields, IrregularStatesAre DEF NodeOK, SnapshotsOK, RefsOK
<1>2. ASSUME NEW j \in 1..(snapshots[i].latest + 1)
      PROVE  /\ StateAt(maps[snapshots[i].map], j - 1) \in Roots
             /\ StateAt(maps[snapshots[i].map], j - 1) = ShownAfterRevert(snapshots[i], j - 1)
  <2>1. j - 1 \in 0..snapshots[i].latest /\ (j - 1) + 1 = j
    BY <1>1
  <2>2. headers[j] \in Roots
    BY <1>1 DEF Latest
  <2>3. StateAt(maps[snapshots[i].map], j - 1) = ShownAfterRevert(snapshots[i], j - 1)
    BY <2>1, SeenAfterIs
  <2> QED
    BY <1>1, <2>1, <2>2, <2>3 DEF StateAt
<1> QED
  BY <1>1, <1>2, SMTT(30) DEF Remembered

(* The same of the next state *)
LEMMA RememberedBecomes ==
  ASSUME NodeOK(CurrentRoot)', NEW i \in DOMAIN snapshots'
  PROVE  /\ Remembered(i)' \in Seq(Roots)
         /\ Len(Remembered(i)') = snapshots'[i].latest + 1
         /\ Remembered(i)'
              = [j \in 1..(snapshots[i].latest + 1) |-> ShownAfterRevert(snapshots[i], j - 1)]'
<1>1. /\ snapshots'[i].latest \in Nat /\ snapshots'[i].latest <= Latest'
      /\ maps'[snapshots'[i].map] \in [DOMAIN maps'[snapshots'[i].map] -> Roots]
      /\ headers' \in Seq(Roots)
  <2>1. snapshots' \in Seq(Snapshot)
    BY DEF NodeOK
  <2>2. snapshots'[i].latest \in Nat
    BY <2>1, SnapshotIs
  <2> QED
    BY <2>2, IrregularStatesAre DEF NodeOK, SnapshotsOK, RefsOK
<1>2. ASSUME NEW j \in 1..(snapshots'[i].latest + 1)
      PROVE  /\ StateAt(maps[snapshots[i].map], j - 1)' \in Roots
             /\ StateAt(maps[snapshots[i].map], j - 1)' = ShownAfterRevert(snapshots[i], j - 1)'
  <2>1. j - 1 \in 0..snapshots'[i].latest /\ (j - 1) + 1 = j
    BY <1>1
  <2>2. headers'[j] \in Roots
    BY <1>1 DEF Latest
  <2>3. StateAt(maps[snapshots[i].map], j - 1)' = ShownAfterRevert(snapshots[i], j - 1)'
    BY <2>1, SeenAfterBecomes
  <2> QED
    BY <1>1, <2>1, <2>2, <2>3 DEF StateAt
<1> QED
  BY <1>1, <1>2 DEF Remembered

(* The snapshots of the store *)
LEMMA KeptIs ==
  ASSUME NodeOK(CurrentRoot)
  PROVE  /\ Kept \in Seq([id : Nat, shown : Seq(Roots)])
         /\ Len(Kept) = Len(snapshots) /\ DOMAIN Kept = 1..Len(snapshots)
         /\ \A i \in DOMAIN snapshots :
              Kept[i] = [id |-> snapshots[i].id, shown |-> Remembered(i)]
<1>1. snapshots \in Seq(Snapshot) /\ DOMAIN snapshots = 1..Len(snapshots)
  BY DEF NodeOK
<1>2. DOMAIN Kept = 1..Len(snapshots)
  BY <1>1 DEF Kept
<1>3. ASSUME NEW i \in DOMAIN snapshots
      PROVE  /\ Kept[i] = [id |-> snapshots[i].id, shown |-> Remembered(i)]
             /\ Kept[i] \in [id : Nat, shown : Seq(Roots)]
  <2>1. Remembered(i) \in Seq(Roots) /\ snapshots[i].id \in Nat
    BY <1>1, RememberedIs, SnapshotFields
  <2>2. Kept[i] = [id |-> snapshots[i].id, shown |-> Remembered(i)]
    BY RememberedIs DEF Kept
  <2> QED
    BY <2>1, <2>2
<1>4. Kept = [i \in 1..Len(snapshots) |-> Kept[i]]
  BY <1>1 DEF Kept
<1>5. Len(snapshots) \in Nat
  BY <1>1
<1>6. Kept \in [1..Len(snapshots) -> [id : Nat, shown : Seq(Roots)]]
  BY <1>1, <1>3, <1>4
<1>7. Kept \in Seq([id : Nat, shown : Seq(Roots)]) /\ Len(Kept) = Len(snapshots)
  BY <1>5, <1>6, FunctionIsSequence
<1> QED
  BY <1>2, <1>3, <1>7

(* The same of the next state *)
LEMMA KeptBecomes ==
  ASSUME NodeOK(CurrentRoot)'
  PROVE  /\ Kept' \in Seq([id : Nat, shown : Seq(Roots)])
         /\ Len(Kept') = Len(snapshots') /\ DOMAIN Kept' = 1..Len(snapshots')
         /\ \A i \in DOMAIN snapshots' :
              Kept'[i] = [id |-> snapshots'[i].id, shown |-> Remembered(i)']
<1>1. snapshots' \in Seq(Snapshot) /\ DOMAIN snapshots' = 1..Len(snapshots')
  BY DEF NodeOK
<1>2. DOMAIN Kept' = 1..Len(snapshots')
  BY <1>1 DEF Kept
<1>3. ASSUME NEW i \in DOMAIN snapshots'
      PROVE  /\ Kept'[i] = [id |-> snapshots'[i].id, shown |-> Remembered(i)']
             /\ Kept'[i] \in [id : Nat, shown : Seq(Roots)]
  <2>1. Remembered(i)' \in Seq(Roots) /\ snapshots'[i].id \in Nat
    BY <1>1, RememberedBecomes, SnapshotIs
  <2>2. Kept'[i] = [id |-> snapshots'[i].id, shown |-> Remembered(i)']
    BY RememberedBecomes DEF Kept
  <2> QED
    BY <2>1, <2>2
<1>4. Kept' = [i \in 1..Len(snapshots') |-> Kept'[i]]
  BY <1>1 DEF Kept
<1>5. Len(snapshots') \in Nat
  BY <1>1
<1>6. Kept' \in [1..Len(snapshots') -> [id : Nat, shown : Seq(Roots)]]
  BY <1>1, <1>3, <1>4
<1>7. Kept' \in Seq([id : Nat, shown : Seq(Roots)]) /\ Len(Kept') = Len(snapshots')
  BY <1>5, <1>6, FunctionIsSequence
<1> QED
  BY <1>2, <1>3, <1>7

(* Two lists of the store's snapshots are the same when they agree         *)
(* everywhere.                                                             *)
LEMMA SameKept ==
  ASSUME NodeOK(CurrentRoot)', NEW t \in Seq([id : Nat, shown : Seq(Roots)]),
         Len(t) = Len(snapshots'),
         \A i \in 1..Len(snapshots') :
           t[i] = [id |-> snapshots'[i].id, shown |-> Remembered(i)']
  PROVE  Kept' = t
<1>1. DOMAIN snapshots' = 1..Len(snapshots')
  BY DEF NodeOK
<1>2. \A i \in 1..Len(snapshots') : Kept'[i] = t[i]
  BY <1>1, KeptBecomes
<1> QED
  BY <1>2, KeptBecomes, SameSequence

(* Taking a snapshot is the Take step of the store: what it remembers is   *)
(* what reads show.                                                        *)
LEMMA TakeSnapshotSteps ==
  ASSUME NodeOK(CurrentRoot), CurrentRoot = root, NodeOK(CurrentRoot)', TakeSnapshot
  PROVE  Store!Take
<1> DEFINE s == [id |-> nextSnapshotId, latest |-> Latest, root |-> root, map |-> irregular]
           k == Len(snapshots) + 1
<1>1. /\ headers' = headers /\ nextSnapshotId' = nextSnapshotId + 1
      /\ snapshots' = Append(snapshots, s) /\ irregular' = nextSnapshotId
      /\ maps' = MapSet(maps, nextSnapshotId, maps[irregular])
  BY DEF TakeSnapshot, CopyMap
<1>2. /\ s \in Snapshot /\ s.id = nextSnapshotId /\ s.latest = Latest
      /\ s.root = root /\ s.map = irregular
  BY DEF Snapshot, NodeOK, RefsOK, Latest
<1> HIDE DEF s
<1>3. /\ snapshots \in Seq(Snapshot) /\ k \in Nat
      /\ Len(snapshots') = k /\ snapshots'[k] = s
      /\ \A i \in 1..(k - 1) : snapshots'[i] = snapshots[i] /\ i \in DOMAIN snapshots
  BY <1>1, <1>2, AppendFacts DEF NodeOK
<1> HIDE DEF k
<1>4. /\ maps'[nextSnapshotId] = maps[irregular]
      /\ \A ref \in DOMAIN maps : maps'[ref] = maps[ref]
  BY <1>1 DEF MapSet, NodeOK, RefsOK
<1>5. /\ \A n : StateAt(maps[irregular], n)' = StateAt(maps[irregular], n)
      /\ Len(headers) = Latest + 1 /\ Latest \in Nat
  BY <1>1, <1>4 DEF StateAt, Latest, NodeOK
<1>6. Seen' = Seen
  BY <1>1, <1>5, SeenIs, SameSeen
<1>7. ASSUME NEW i \in 1..(k - 1)
      PROVE  Remembered(i)' = Remembered(i)
  <2>1. snapshots'[i] = snapshots[i] /\ maps'[snapshots[i].map] = maps[snapshots[i].map]
    BY <1>3, <1>4 DEF NodeOK, RefsOK
  <2> QED
    BY <1>1, <2>1 DEF Remembered, StateAt
<1>8. ASSUME NEW i \in {k}
      PROVE  Remembered(i)' = Seen
  <2>1. snapshots'[i] = s /\ maps'[s.map] = maps[irregular]
    BY <1>2, <1>3, <1>4 DEF NodeOK, RefsOK
  <2>2. Remembered(i)' = [j \in 1..(Latest + 1) |-> StateAt(maps[irregular], j - 1)]
    BY <1>1, <1>2, <2>1 DEF Remembered, StateAt
  <2>3. DOMAIN Seen = 1..(Latest + 1) /\ \A j \in 1..(Latest + 1) : Seen[j] = StateAt(maps[irregular], j - 1)
    BY <1>5, SeenIs
  <2>4. Seen = [j \in 1..(Latest + 1) |-> Seen[j]]
    BY <1>5 DEF Seen
  <2> QED
    BY <2>2, <2>3, <2>4
<1> DEFINE e == [id |-> nextSnapshotId, shown |-> Seen]
           t == Append(Kept, e)
<1>9. /\ t \in Seq([id : Nat, shown : Seq(Roots)]) /\ Len(t) = k
      /\ \A i \in 1..(k - 1) : t[i] = Kept[i]
      /\ t[k] = e
  <2>1. e \in [id : Nat, shown : Seq(Roots)]
    BY SeenIs DEF NodeOK
  <2> HIDE DEF e
  <2>2. Kept \in Seq([id : Nat, shown : Seq(Roots)]) /\ Len(Kept) = k - 1
    BY <1>3, KeptIs DEF k
  <2> QED
    BY <1>3, <2>1, <2>2, AppendFacts
<1> HIDE DEF t
<1>10. ASSUME NEW i \in 1..k
       PROVE  t[i] = [id |-> snapshots'[i].id, shown |-> Remembered(i)']
  <2>1. CASE i = k
    BY <1>2, <1>3, <1>8, <1>9, <2>1
  <2>2. CASE i \in 1..(k - 1)
    BY <1>3, <1>7, <1>9, <2>2, KeptIs
  <2> QED
    BY <1>3, <2>1, <2>2
<1>11. Kept' = t
  BY <1>3, <1>9, <1>10, SameKept
<1> QED
  BY <1>1, <1>6, <1>11 DEF Store!Take, Seen, Kept, t

(* A revert is the Restore step of the store. *)
LEMMA RevertSteps ==
  ASSUME NodeOK(CurrentRoot), NodeOK(CurrentRoot)', NEW i \in DOMAIN snapshots,
         RevertToSnapshot(i)
  PROVE  Store!Restore(i) /\ i \in DOMAIN Kept
<1> DEFINE s == snapshots[i]
<1>1. /\ headers' = SubSeq(headers, 1, s.latest + 1) /\ irregular' = s.map
      /\ snapshots' = SubSeq(snapshots, 1, i - 1)
      /\ maps' = Restrict(maps, LiveMaps(snapshots', s.map))
      /\ nextSnapshotId' = nextSnapshotId
  BY DEF RevertToSnapshot
<1>2. /\ s.latest \in Nat /\ s.latest <= Latest /\ i \in 1..Len(snapshots)
      /\ headers \in Seq(Roots) /\ snapshots \in Seq(Snapshot)
  BY SnapshotFields DEF NodeOK, SnapshotsOK
<1>3. /\ Len(headers') = s.latest + 1
      /\ \A n \in 0..s.latest : headers'[n + 1] = headers[n + 1]
  BY <1>1, <1>2, PrefixFacts DEF Latest
<1>4. /\ Len(snapshots') = i - 1
      /\ \A j \in 1..(i - 1) : snapshots'[j] = snapshots[j] /\ j \in DOMAIN snapshots
  <2>1. i - 1 \in 0..Len(snapshots)
    BY <1>2
  <2>2. \A j \in 1..(i - 1) : j \in DOMAIN snapshots
    BY <1>2
  <2> QED
    BY <1>1, <1>2, <2>1, <2>2, PrefixFacts
<1>5. \A ref \in LiveMaps(snapshots', s.map) : maps'[ref] = maps[ref]
  BY <1>1 DEF Restrict
<1>6. maps'[s.map] = maps[s.map] /\ \A j \in 1..(i - 1) : maps'[snapshots[j].map] = maps[snapshots[j].map]
  <2>1. DOMAIN snapshots' = 1..(i - 1)
    BY <1>4 DEF NodeOK
  <2> QED
    BY <1>4, <1>5, <2>1 DEF LiveMaps
<1>7. Seen' = Remembered(i)
  <2>1. /\ Remembered(i) \in Seq(Roots) /\ Len(Remembered(i)) = s.latest + 1
        /\ \A j \in 1..(s.latest + 1) : Remembered(i)[j] = StateAt(maps[s.map], j - 1)
    <3>1. \A j \in 1..(s.latest + 1) : Remembered(i)[j] = StateAt(maps[s.map], j - 1)
      BY DEF Remembered
    <3> QED
      BY <3>1, RememberedIs
  <2>2. ASSUME NEW j \in 1..(s.latest + 1)
        PROVE  Remembered(i)[j] = StateAt(maps[irregular], j - 1)'
    <3>1. j - 1 \in 0..s.latest
      BY <1>2
    <3>2. headers'[(j - 1) + 1] = headers[(j - 1) + 1]
      BY <1>3, <3>1
    <3> QED
      BY <1>1, <1>6, <2>1, <3>2 DEF StateAt
  <2> QED
    BY <1>3, <2>1, <2>2, SameSeen
<1>8. ASSUME NEW j \in 1..(i - 1)
      PROVE  Remembered(j)' = Remembered(j)
  <2>1. /\ snapshots'[j] = snapshots[j] /\ maps'[snapshots[j].map] = maps[snapshots[j].map]
        /\ j \in DOMAIN snapshots
    BY <1>4, <1>6
  <2>2. snapshots[j].latest \in Nat /\ snapshots[j].latest <= s.latest
    <3>1. i \in DOMAIN snapshots /\ j < i
      BY <1>2
    <3>2. snapshots[j].latest <= s.latest
      BY <2>1, <3>1 DEF NodeOK, SnapshotsOK
    <3> QED
      BY <1>2, <2>1, <3>2, SnapshotIs
  <2>3. \A l \in 1..(snapshots[j].latest + 1) :
          StateAt(maps[snapshots[j].map], l - 1)' = StateAt(maps[snapshots[j].map], l - 1)
    <3>1. \A l \in 1..(snapshots[j].latest + 1) : l - 1 \in 0..s.latest
      BY <1>2, <2>2
    <3> QED
      BY <1>3, <2>1, <3>1 DEF StateAt
  <2> QED
    BY <2>1, <2>3 DEF Remembered
<1> DEFINE t == SubSeq(Kept, 1, i - 1)
<1>9. /\ t \in Seq([id : Nat, shown : Seq(Roots)]) /\ Len(t) = i - 1
      /\ \A j \in 1..(i - 1) : t[j] = Kept[j]
  <2>1. i - 1 \in 0..Len(Kept) /\ Kept \in Seq([id : Nat, shown : Seq(Roots)])
    BY <1>2, KeptIs
  <2> QED
    BY <2>1, PrefixFacts
<1> HIDE DEF t
<1>10. ASSUME NEW j \in 1..(i - 1)
       PROVE  t[j] = [id |-> snapshots'[j].id, shown |-> Remembered(j)']
  BY <1>4, <1>8, <1>9, KeptIs
<1>11. Kept' = t
  BY <1>4, <1>9, <1>10, SameKept
<1>12. Kept[i].shown = Remembered(i) /\ i \in DOMAIN Kept
  <2>1. Kept[i] = [id |-> snapshots[i].id, shown |-> Remembered(i)]
    BY KeptIs
  <2>2. i \in DOMAIN Kept
    BY <1>2, KeptIs
  <2> QED
    BY <2>1, <2>2
<1>13. Seen' = Kept[i].shown
  BY <1>7, <1>12
<1> QED
  BY <1>1, <1>11, <1>12, <1>13 DEF Store!Restore, Seen, Kept, t

(* A step that changes no more than the root of the state manager, in or   *)
(* out of the context of a read, is not seen.                              *)
LEMMA ReadStutters ==
  ASSUME NodeOK(CurrentRoot), NodeOK(CurrentRoot)',
         UNCHANGED <<headers, maps, irregular, snapshots, nextSnapshotId>>
  PROVE  UNCHANGED Store!storeVars
<1>1. Seen' = Seen
  BY SeenIs, SameSeen DEF StateAt
<1>2. Kept' = Kept
  BY KeptStays
<1> QED
  BY <1>1, <1>2 DEF Store!storeVars, Seen, Kept

(* The initial state is the store's. *)
LEMMA InitStarts == StateInit => Store!StoreInit
<1> SUFFICES ASSUME StateInit PROVE Store!StoreInit
  OBVIOUS
<1>1. NodeOK(CurrentRoot)
  BY InitEstablishes DEF IInv
<1>2. /\ headers = <<Genesis>> /\ snapshots = <<>> /\ nextSnapshotId = 1
      /\ maps[irregular] = <<>>
  BY DEF StateInit
<1>3. Len(Seen) = 1 /\ Seen \in Seq(Roots) /\ Seen[1] = Genesis
  BY <1>1, <1>2, SeenIs DEF StateAt
<1>4. Seen = <<Genesis>>
  BY <1>3
<1>5. Kept = <<>>
  <2>1. Len(Kept) = 0 /\ Kept \in Seq([id : Nat, shown : Seq(Roots)])
    BY <1>1, <1>2, KeptIs
  <2> QED
    BY <2>1
<1> QED
  BY <1>2, <1>4, <1>5 DEF Store!StoreInit, Seen, Kept

(* Every step of the node is a step of the store, or leaves it unchanged. *)
LEMMA NextSteps ==
  ASSUME IInv, IInv', [StateNext]_stateVars
  PROVE  [Store!StoreNext]_(Store!storeVars)
<1>1. NodeOK(CurrentRoot) /\ NodeOK(CurrentRoot)'
  BY DEF IInv
<1>2. ASSUME Latest < MaxBlock, NEW r \in Roots, MineBlock(r)
      PROVE  Store!StoreNext
  <2>1. Len(Seen) <= MaxBlock
    BY <1>1, <1>2, SeenIs, NodeBounds DEF Latest, NodeOK
  <2> QED
    BY <1>1, <1>2, <2>1, MineBlockSteps DEF Store!StoreNext, Store!StoreChange, Seen
<1>3. ASSUME nextSnapshotId < MaxSnapshotId, TakeSnapshot, context = NoContext
      PROVE  Store!StoreNext
  BY <1>1, <1>3, TakeSnapshotSteps, CurrentRootIs DEF Store!StoreNext
<1>4. ASSUME NEW i \in DOMAIN snapshots, RevertToSnapshot(i)
      PROVE  Store!StoreNext
  BY <1>1, <1>4, RevertSteps DEF Store!StoreNext, Kept
<1>5. CASE UNCHANGED stateVars
  BY <1>1, <1>5, ReadStutters DEF stateVars
<1>6. CASE Change
  <2>1. ASSUME NEW r \in Roots, SetState(r) PROVE Store!StoreNext
    BY <1>1, <2>1, SetStateSteps DEF Store!StoreNext, Store!StoreChange
  <2> QED
    BY <1>2, <1>3, <1>4, <1>6, <2>1 DEF Change
<1>7. CASE Read
  <2>1. ASSUME NEW n \in 0..Latest, SetBlockContext(n) PROVE UNCHANGED Store!storeVars
    BY <1>1, <2>1, ReadStutters DEF SetBlockContext
  <2>2. ASSUME NEW r \in Roots, RunInContext(r) PROVE UNCHANGED Store!storeVars
    BY <1>1, <2>2, ReadStutters DEF RunInContext
  <2>3. CASE RestoreBlockContext
    BY <1>1, <2>3, ReadStutters DEF RestoreBlockContext
  <2>4. CASE context = NoContext /\ nextSnapshotId < MaxSnapshotId /\ EnterPendingContext
    BY <1>3, <2>4 DEF EnterPendingContext
  <2>5. ASSUME Latest < MaxBlock, NEW r \in Roots, MinePendingBlock(r) PROVE Store!StoreNext
    BY <1>2, <2>5 DEF MinePendingBlock
  <2>6. CASE LeavePendingContext
    BY <1>4, <2>6 DEF LeavePendingContext
  <2> QED
    BY <1>7, <2>1, <2>2, <2>3, <2>4, <2>5, <2>6 DEF Read
<1> QED
  BY <1>5, <1>6, <1>7 DEF StateNext

(* The node implements the store of its clients, for every set of states   *)
(* and any number of blocks, snapshots and reads: reverts bring back every *)
(* block's state, and a cheat code used after a snapshot reaches none of   *)
(* the states that the snapshot will bring back.                           *)
THEOREM NodeImplementsStore == StateSpec => ImplementsStore
<1>1. IInv /\ IInv' /\ [StateNext]_stateVars => [Store!StoreNext]_(Store!storeVars)
  BY NextSteps
<1> QED
  BY <1>1, InitStarts, Invariance, PTL DEF StateSpec, ImplementsStore, Store!StoreSpec



-----------------------------------------------------------------------------
(* The provider.  The inductive invariant *)

(* The stages in which a request has the mutex, and those before its       *)
(* handler has run.                                                        *)
Inside == {"init", "process", "reinit", "finish", "lost"}
Unhandled == {"waiting", "init", "process"}

(* The mutex is free, or one caller has it. *)
MutexOK ==
  \/ count = 1 /\ holders = {}
  \/ count = 0 /\ \E c \in Callers : holders = {c}

(* Who is inside has the mutex, and the node it works with is there, or,   *)
(* while it makes one, is not.                                             *)
RequestsOK ==
  /\ node \in {0} \cup DOMAIN timers
  /\ \A c \in Callers :
       /\ pc[c] \in Inside => c \in holders
       /\ pc[c] \in {"init", "reinit"} => node = 0
       /\ pc[c] = "process" => node # 0

(* A loop whose request is on its way keeps its slot. *)
LoopsOK ==
  \A loop \in Loops :
    /\ request[loop].kind \in {"none", "intervalMine"}
    /\ pc[loop] # "idle" =>
         loop[1] \in DOMAIN timers /\ timers[loop[1]].loops[loop[2]] = "mining"

(* The clients that have yet to run a handler of this kind *)
Pending(kind) == {c \in Clients : request[c].kind = kind /\ pc[c] \in Unhandled}

Used(timer) == {s \in Slots : timer.loops[s] # "off"}

(* A timer has a loop from its start, and one more for each change of its  *)
(* interval at most; a node is made at first, and after each reset.        *)
CountsOK ==
  /\ Cardinality(Pending("setInterval")) <= changes
  /\ \A t \in DOMAIN timers :
       Cardinality(Used(timers[t])) + Cardinality(Pending("setInterval")) <= changes + 1
  /\ Len(timers) + Cardinality(Pending("reset")) <= resets + (IF node = 0 THEN 0 ELSE 1)

ProviderInv ==
  /\ TypeOK
  /\ MutexOK
  /\ RequestsOK
  /\ LoopsOK
  /\ CountsOK
  /\ OnlyCurrentTimerRuns

-----------------------------------------------------------------------------
(* Finite sets *)

LEMMA SmallerSets ==
  ASSUME NEW S, IsFiniteSet(S), NEW T, T \subseteq S
  PROVE  /\ IsFiniteSet(T) /\ Cardinality(T) \in Nat /\ Cardinality(S) \in Nat
         /\ Cardinality(T) <= Cardinality(S)
BY FS_Subset, FS_CardinalityType

LEMMA OneMore ==
  ASSUME NEW S, IsFiniteSet(S), NEW c, NEW T, T \subseteq S \cup {c}
  PROVE  /\ IsFiniteSet(T) /\ Cardinality(T) \in Nat /\ Cardinality(S) \in Nat
         /\ Cardinality(T) <= Cardinality(S) + 1
<1>1. /\ IsFiniteSet(S \cup {c})
      /\ Cardinality(S \cup {c}) = IF c \in S THEN Cardinality(S) ELSE Cardinality(S) + 1
  BY FS_AddElement
<1>2. Cardinality(S) \in Nat
  BY FS_CardinalityType
<1>3. Cardinality(S \cup {c}) <= Cardinality(S) + 1
  BY <1>1, <1>2
<1> QED
  BY <1>1, <1>2, <1>3, SmallerSets

LEMMA OneLess ==
  ASSUME NEW S, IsFiniteSet(S), NEW c \in S, NEW T, T \subseteq S \ {c}
  PROVE  /\ IsFiniteSet(T) /\ Cardinality(T) \in Nat /\ Cardinality(S) \in Nat
         /\ Cardinality(T) + 1 <= Cardinality(S)
<1>1. IsFiniteSet(S \ {c}) /\ Cardinality(S \ {c}) = Cardinality(S) - 1
  BY FS_RemoveElement
<1> QED
  BY <1>1, SmallerSets, FS_CardinalityType

-----------------------------------------------------------------------------
(* The methods of a timer *)

LEMMA TimerFields ==
  ASSUME NEW timer \in Timer
  PROVE  /\ timer.state \in {"STOP", "RUNNING"} /\ timer.blockTime \in BlockTimes
         /\ timer.loops \in [Slots -> {"off", "armed", "mining"}]
         /\ timer.timeout \in Slots \cup {NoTimeout}
BY DEF Timer

(* What is mining stays so. *)
Keeps(old, new) == \A s \in Slots : old.loops[s] = "mining" => new.loops[s] = "mining"

LEMMA SlotIsNotNone == NoTimeout \notin Slots
BY SlotsAssumption DEF NoTimeout

LEMMA SetTimeoutFacts ==
  ASSUME NEW timer \in Timer, NEW s \in Slots
  PROVE  /\ SetTimeout(timer, s) \in Timer
         /\ SetTimeout(timer, s).state = timer.state
         /\ SetTimeout(timer, s).blockTime = timer.blockTime
         /\ Used(SetTimeout(timer, s)) \subseteq Used(timer) \cup {s}
         /\ \A r \in Slots \ {s} : SetTimeout(timer, s).loops[r] = timer.loops[r]
BY DEF SetTimeout, Timer, Used

LEMMA ClearTimeoutFacts ==
  ASSUME NEW timer \in Timer
  PROVE  /\ ClearTimeout(timer) \in Timer
         /\ ClearTimeout(timer).state = timer.state
         /\ ClearTimeout(timer).blockTime = timer.blockTime
         /\ Used(ClearTimeout(timer)) \subseteq Used(timer)
         /\ Keeps(timer, ClearTimeout(timer))
<1>1. CASE timer.timeout # NoTimeout /\ timer.loops[timer.timeout] = "armed"
  BY <1>1 DEF ClearTimeout, Timer, Used, Keeps
<1>2. CASE ~(timer.timeout # NoTimeout /\ timer.loops[timer.timeout] = "armed")
  BY <1>2 DEF ClearTimeout, Keeps
<1> QED
  BY <1>1, <1>2

LEMMA StopFacts ==
  ASSUME NEW timer \in Timer
  PROVE  /\ Stop(timer) \in Timer
         /\ Stop(timer).state = "STOP"
         /\ Stop(timer).blockTime = timer.blockTime
         /\ Used(Stop(timer)) \subseteq Used(timer)
         /\ Keeps(timer, Stop(timer))
<1>1. CASE timer.state = "STOP"
  BY <1>1 DEF Stop, Keeps
<1>2. CASE timer.state # "STOP"
  <2> DEFINE c == ClearTimeout(timer)
  <2>1. c \in Timer /\ c.blockTime = timer.blockTime /\ Used(c) \subseteq Used(timer) /\ Keeps(timer, c)
    BY ClearTimeoutFacts
  <2>2. Stop(timer) = [c EXCEPT !.state = "STOP"]
    BY <1>2 DEF Stop
  <2> HIDE DEF c
  <2> QED
    BY <2>1, <2>2 DEF Timer, Used, Keeps
<1> QED
  BY <1>1, <1>2

LEMMA StartFacts ==
  ASSUME NEW timer \in Timer, NEW s \in Slots, timer.loops[s] = "off"
  PROVE  /\ Start(timer, s) \in Timer
         /\ Used(Start(timer, s)) \subseteq Used(timer) \cup {s}
         /\ Keeps(timer, Start(timer, s))
<1>1. CASE timer.state = "RUNNING" \/ ~Enabled(timer)
  BY <1>1 DEF Start, Keeps
<1>2. CASE ~(timer.state = "RUNNING" \/ ~Enabled(timer))
  <2> DEFINE c == SetTimeout(timer, s)
  <2>1. /\ c \in Timer /\ Used(c) \subseteq Used(timer) \cup {s}
        /\ \A r \in Slots \ {s} : c.loops[r] = timer.loops[r]
    BY SetTimeoutFacts
  <2>2. Start(timer, s) = [c EXCEPT !.state = "RUNNING"]
    BY <1>2 DEF Start
  <2> HIDE DEF c
  <2> QED
    BY <2>1, <2>2 DEF Timer, Used, Keeps
<1> QED
  BY <1>1, <1>2

LEMMA NewTimerFacts ==
  ASSUME NEW blockTime \in BlockTimes
  PROVE  NewTimer(blockTime) \in Timer /\ Used(NewTimer(blockTime)) = {}
BY DEF NewTimer, Timer, Used

(* Another block time changes no loop, so the free slot of a stopped timer *)
(* is free before its new start.                                           *)
LEMMA SetBlockTimeFacts ==
  ASSUME NEW timer \in Timer, NEW blockTime \in BlockTimes,
         NEW s \in FreeSlots(Stop(timer))
  PROVE  /\ SetBlockTime(timer, blockTime, s) \in Timer
         /\ Used(SetBlockTime(timer, blockTime, s)) \subseteq Used(timer) \cup {s}
         /\ Keeps(timer, SetBlockTime(timer, blockTime, s))
<1>1. CASE blockTime = 0
  BY <1>1, StopFacts DEF SetBlockTime
<1>2. CASE blockTime # 0
  <2> DEFINE r == [timer EXCEPT !.blockTime = blockTime]
             c == Stop(r)
  <2>1. /\ r \in Timer /\ r.loops = timer.loops
        /\ r.state = timer.state /\ r.timeout = timer.timeout
    BY DEF Timer
  <2>2. Stop(timer).loops = c.loops
    <3>1. CASE timer.state = "STOP"
      BY <3>1, <2>1 DEF Stop
    <3>2. CASE timer.state # "STOP"
      <4>1. ClearTimeout(timer).loops = ClearTimeout(r).loops
        BY <2>1 DEF ClearTimeout, Timer
      <4>2. ClearTimeout(timer) \in Timer /\ ClearTimeout(r) \in Timer
        BY <2>1, ClearTimeoutFacts
      <4>3. \A u \in Timer : [u EXCEPT !.state = "STOP"].loops = u.loops
        BY DEF Timer
      <4>4. Stop(timer).loops = ClearTimeout(timer).loops /\ c.loops = ClearTimeout(r).loops
        BY <3>2, <2>1, <4>2, <4>3 DEF Stop
      <4> QED
        BY <4>1, <4>4
    <3> QED
      BY <3>1, <3>2
  <2>3. s \in Slots /\ c.loops[s] = "off"
    BY <2>2 DEF FreeSlots
  <2>4. /\ c \in Timer /\ Used(c) \subseteq Used(r) /\ Keeps(r, c)
    BY <2>1, StopFacts
  <2>5. /\ Start(c, s) \in Timer /\ Used(Start(c, s)) \subseteq Used(c) \cup {s}
        /\ Keeps(c, Start(c, s))
    BY <2>3, <2>4, StartFacts
  <2>6. SetBlockTime(timer, blockTime, s) = Start(c, s)
    BY <1>2 DEF SetBlockTime
  <2> HIDE DEF r, c
  <2> QED
    BY <2>1, <2>4, <2>5, <2>6 DEF Keeps, Used
<1> QED
  BY <1>1, <1>2

-----------------------------------------------------------------------------
(* The mutex *)

LEMMA SchedFacts ==
  ASSUME NEW free, NEW owners, Mutex!Sched(free, owners), tasks \in Seq(Callers),
         \/ free = 1 /\ owners = {}
         \/ free = 0 /\ \E c \in Callers : owners = {c}
  PROVE  MutexOK' /\ tasks' \in Seq(Callers) /\ count' \in Nat /\ holders' \subseteq Callers
         /\ owners \subseteq holders'
<1>1. CASE free > 0 /\ tasks # <<>>
  <2>1. free = 1 /\ owners = {}
    BY <1>1
  <2>2. Head(tasks) \in Callers /\ Tail(tasks) \in Seq(Callers)
    BY <1>1
  <2>3. count' = 0 /\ tasks' = Tail(tasks) /\ holders' = {Head(tasks)}
    BY <1>1, <2>1 DEF Mutex!Sched
  <2> QED
    BY <2>1, <2>2, <2>3 DEF MutexOK
<1>2. CASE ~(free > 0 /\ tasks # <<>>)
  <2>1. count' = free /\ holders' = owners /\ tasks' = tasks
    BY <1>2 DEF Mutex!Sched
  <2> QED
    BY <2>1 DEF MutexOK
<1> QED
  BY <1>1, <1>2

LEMMA AcquireFacts ==
  ASSUME TypeOK, MutexOK, NEW c \in Callers, Mutex!Acquire(c)
  PROVE  MutexOK' /\ Mutex!TypeOK' /\ holders' = holders
<1>1. tasks \in Seq(Callers) /\ ticks \in Nat /\ count \in Nat /\ holders \subseteq Callers
  BY DEF TypeOK, Mutex!TypeOK
<1>2. tasks' = Append(tasks, c) /\ ticks' = ticks + 1 /\ count' = count /\ holders' = holders
  BY DEF Mutex!Acquire
<1> QED
  BY <1>1, <1>2 DEF MutexOK, Mutex!TypeOK

LEMMA TickFacts ==
  ASSUME TypeOK, MutexOK, Mutex!Tick
  PROVE  MutexOK' /\ Mutex!TypeOK' /\ holders \subseteq holders'
<1>1. tasks \in Seq(Callers) /\ ticks \in Nat /\ count \in Nat /\ holders \subseteq Callers
  BY DEF TypeOK, Mutex!TypeOK
<1>2. ticks > 0 /\ ticks' = ticks - 1 /\ Mutex!Sched(count, holders)
  BY DEF Mutex!Tick
<1>3. MutexOK' /\ tasks' \in Seq(Callers) /\ count' \in Nat /\ holders' \subseteq Callers
      /\ holders \subseteq holders'
  BY <1>1, <1>2, SchedFacts DEF MutexOK
<1> QED
  BY <1>1, <1>2, <1>3 DEF Mutex!TypeOK

LEMMA ReleaseFacts ==
  ASSUME TypeOK, MutexOK, NEW c \in holders, Mutex!Release(c)
  PROVE  MutexOK' /\ Mutex!TypeOK' /\ holders = {c}
<1>1. tasks \in Seq(Callers) /\ ticks \in Nat /\ count \in Nat /\ holders \subseteq Callers
  BY DEF TypeOK, Mutex!TypeOK
<1>2. holders = {c} /\ count = 0
  BY DEF MutexOK
<1>3. Mutex!Sched(count + 1, holders \ {c}) /\ ticks' = ticks
  BY DEF Mutex!Release
<1>4. count + 1 = 1 /\ holders \ {c} = {}
  BY <1>2
<1>5. MutexOK' /\ tasks' \in Seq(Callers) /\ count' \in Nat /\ holders' \subseteq Callers
  BY <1>1, <1>3, <1>4, SchedFacts
<1> QED
  BY <1>1, <1>2, <1>3, <1>5 DEF Mutex!TypeOK

-----------------------------------------------------------------------------
(* Pending requests *)

LEMMA PendingIsFinite ==
  ASSUME NEW kind
  PROVE  IsFiniteSet(Pending(kind)) /\ Cardinality(Pending(kind)) \in Nat
BY ClientsAssumption, SmallerSets DEF Pending

(* A step that makes no request *)
LEMMA PendingDoesNotGrow ==
  ASSUME NEW kind, Pending(kind)' \subseteq Pending(kind)
  PROVE  /\ Cardinality(Pending(kind)') \in Nat /\ Cardinality(Pending(kind)) \in Nat
         /\ Cardinality(Pending(kind)') <= Cardinality(Pending(kind))
BY PendingIsFinite, SmallerSets

(* The slots of a timer in use *)
LEMMA UsedIsFinite ==
  ASSUME NEW timer
  PROVE  IsFiniteSet(Used(timer)) /\ Cardinality(Used(timer)) \in Nat
<1>1. IsFiniteSet(Slots)
  <2>1. Slots = 1..(MaxChanges + 1) /\ 1 \in Int /\ MaxChanges + 1 \in Int
    BY BoundsAssumption
  <2>2. IsFiniteSet(1..(MaxChanges + 1))
    BY <2>1, FS_Interval
  <2> QED
    BY <2>1, <2>2
<1> QED
  BY <1>1, SmallerSets DEF Used

(* The invariant holds after a step that leaves the counts alone when no   *)
(* request is made, no node is made or dropped, and no timer takes a slot. *)
LEMMA CountsStay ==
  ASSUME ProviderInv, UNCHANGED <<resets, changes>>, TypeOK',
         \A kind \in {"setInterval", "reset"} : Pending(kind)' \subseteq Pending(kind),
         Len(timers') = Len(timers), node' = node,
         \A t \in DOMAIN timers' : t \in DOMAIN timers /\ Used(timers'[t]) \subseteq Used(timers[t])
  PROVE  CountsOK'
<1> DEFINE a == Cardinality(Pending("setInterval"))
           b == Cardinality(Pending("reset"))
<1>1. /\ a \in Nat /\ a' \in Nat /\ a' <= a
      /\ b \in Nat /\ b' \in Nat /\ b' <= b
  BY PendingDoesNotGrow
<1>2. \A t \in DOMAIN timers' :
        /\ Cardinality(Used(timers'[t])) \in Nat /\ Cardinality(Used(timers[t])) \in Nat
        /\ Cardinality(Used(timers'[t])) <= Cardinality(Used(timers[t]))
  <2> TAKE t \in DOMAIN timers'
  <2> QED
    BY UsedIsFinite, SmallerSets
<1>3. changes \in Nat /\ resets \in Nat /\ Len(timers) \in Nat /\ (IF node = 0 THEN 0 ELSE 1) \in Nat
  BY BoundsAssumption DEF ProviderInv, TypeOK
<1>4. /\ a <= changes
      /\ \A t \in DOMAIN timers : Cardinality(Used(timers[t])) + a <= changes + 1
      /\ Len(timers) + b <= resets + (IF node = 0 THEN 0 ELSE 1)
  BY DEF ProviderInv, CountsOK
<1>5. a' <= changes' /\ Len(timers') + b' <= resets' + (IF node' = 0 THEN 0 ELSE 1)
  BY <1>1, <1>3, <1>4
<1>6. ASSUME NEW t \in DOMAIN timers' PROVE Cardinality(Used(timers'[t])) + a' <= changes' + 1
  <2> HIDE DEF a
  <2> QED
    BY <1>1, <1>2, <1>3, <1>4
<1> QED
  BY <1>5, <1>6 DEF CountsOK

-----------------------------------------------------------------------------
(* The steps *)

(* Who has the mutex is alone inside. *)
LEMMA Alone ==
  ASSUME ProviderInv, NEW c \in holders
  PROVE  \A d \in Callers \ {c} : pc[d] \notin Inside
BY DEF ProviderInv, MutexOK, RequestsOK

(* Requests that only move on, within what is before their handler or past *)
(* it, are no new ones.                                                    *)
LEMMA MovesOn ==
  ASSUME ProviderInv, NEW c \in Callers, NEW stage \in Stages, Goto(c, stage),
         stage \in Unhandled => pc[c] \in Unhandled, request' = request
  PROVE  /\ pc' \in [Callers -> Stages] /\ pc'[c] = stage
         /\ \A d \in Callers \ {c} : pc'[d] = pc[d]
         /\ \A kind \in {"setInterval", "reset"} : Pending(kind)' \subseteq Pending(kind)
<1>1. pc \in [Callers -> Stages]
  BY DEF ProviderInv, TypeOK
<1>2. /\ pc' \in [Callers -> Stages] /\ pc'[c] = stage
      /\ \A d \in Callers \ {c} : pc'[d] = pc[d]
  BY <1>1 DEF Goto
<1>3. \A d \in Clients : d \in Callers
  BY DEF Callers
<1> QED
  BY <1>2, <1>3 DEF Pending

LEMMA EnterPreserves ==
  ASSUME ProviderInv, NEW c \in Callers, Enter(c)
  PROVE  ProviderInv'
<1> DEFINE stage == IF request[c].kind = "object" THEN "lost"
                    ELSE IF node # 0 THEN "process" ELSE "init"
<1>1. /\ c \in holders /\ pc[c] = "waiting" /\ Goto(c, stage)
      /\ UNCHANGED <<count, tasks, ticks, holders, node, timers, forkConfig, request, resets, changes>>
  BY DEF Enter, mutexVars
<1>2. stage \in {"lost", "process", "init"} /\ (stage = "process" => node # 0) /\ (stage = "init" => node = 0)
  OBVIOUS
<1> HIDE DEF stage
<1>3. stage \in Stages
  BY <1>2 DEF Stages
<1>4. /\ pc' \in [Callers -> Stages] /\ pc'[c] = stage
      /\ \A d \in Callers \ {c} : pc'[d] = pc[d]
      /\ \A kind \in {"setInterval", "reset"} : Pending(kind)' \subseteq Pending(kind)
  BY <1>1, <1>3, MovesOn DEF Unhandled
<1>5. TypeOK'
  BY <1>1, <1>4 DEF ProviderInv, TypeOK, Mutex!TypeOK
<1>6. MutexOK' /\ OnlyCurrentTimerRuns'
  BY <1>1 DEF ProviderInv, MutexOK, OnlyCurrentTimerRuns
<1>7. RequestsOK'
  BY <1>1, <1>2, <1>4 DEF ProviderInv, RequestsOK
<1>8. LoopsOK'
  <2>1. \A loop \in Loops : loop \in Callers
    BY DEF Callers
  <2> QED
    BY <1>1, <1>4, <2>1 DEF ProviderInv, LoopsOK
<1>9. CountsOK'
  BY <1>1, <1>4, <1>5, CountsStay
<1> QED
  BY <1>5, <1>6, <1>7, <1>8, <1>9 DEF ProviderInv

(* A request that is inside fails or ends its handler, and touches nothing. *)
LEMMA QuietStepPreserves ==
  ASSUME ProviderInv, NEW c \in Callers, pc[c] \in Inside, Goto(c, "finish"),
         UNCHANGED <<mutexVars, node, timers, forkConfig, request, resets, changes>>
  PROVE  ProviderInv'
<1>1. UNCHANGED <<count, tasks, ticks, holders, node, timers, forkConfig, request, resets, changes>>
  BY DEF mutexVars
<1>2. c \in holders /\ pc[c] # "idle"
  BY DEF ProviderInv, RequestsOK, Inside
<1>4. /\ pc' \in [Callers -> Stages] /\ pc'[c] = "finish"
      /\ \A d \in Callers \ {c} : pc'[d] = pc[d]
      /\ \A kind \in {"setInterval", "reset"} : Pending(kind)' \subseteq Pending(kind)
  BY <1>1, MovesOn DEF Unhandled, Stages
<1>5. TypeOK'
  BY <1>1, <1>4 DEF ProviderInv, TypeOK, Mutex!TypeOK
<1>6. MutexOK' /\ OnlyCurrentTimerRuns'
  BY <1>1 DEF ProviderInv, MutexOK, OnlyCurrentTimerRuns
<1>7. RequestsOK'
  BY <1>1, <1>2, <1>4 DEF ProviderInv, RequestsOK
<1>8. LoopsOK'
  <2>1. \A loop \in Loops : loop \in Callers
    BY DEF Callers
  <2> QED
    BY <1>1, <1>2, <1>4, <2>1 DEF ProviderInv, LoopsOK
<1>9. CountsOK'
  BY <1>1, <1>4, <1>5, CountsStay
<1> QED
  BY <1>5, <1>6, <1>7, <1>8, <1>9 DEF ProviderInv

LEMMA TickPreserves ==
  ASSUME ProviderInv, Tick
  PROVE  ProviderInv'
<1>1. Mutex!Tick /\ UNCHANGED <<node, timers, forkConfig, request, pc, resets, changes>>
  BY DEF Tick
<1>2. MutexOK' /\ Mutex!TypeOK' /\ holders \subseteq holders'
  BY <1>1, TickFacts DEF ProviderInv
<1>3. TypeOK'
  BY <1>1, <1>2 DEF ProviderInv, TypeOK
<1>4. RequestsOK' /\ LoopsOK' /\ OnlyCurrentTimerRuns'
  BY <1>1, <1>2 DEF ProviderInv, RequestsOK, LoopsOK, OnlyCurrentTimerRuns
<1>5. \A kind \in {"setInterval", "reset"} : Pending(kind)' \subseteq Pending(kind)
  BY <1>1 DEF Pending
<1>6. CountsOK'
  BY <1>1, <1>3, <1>5, CountsStay
<1> QED
  BY <1>2, <1>3, <1>4, <1>6 DEF ProviderInv

LEMMA FinishPreserves ==
  ASSUME ProviderInv, NEW c \in Callers, Finish(c)
  PROVE  ProviderInv'
<1> DEFINE stage == IF c \in Clients THEN "idle" ELSE "returned"
<1>1. /\ pc[c] = "finish" /\ c \in holders /\ Mutex!Release(c)
      /\ Goto(c, stage) /\ request' = [request EXCEPT ![c] = None]
      /\ UNCHANGED <<node, timers, forkConfig, resets, changes>>
  BY DEF Finish
<1>2. stage \in {"idle", "returned"}
  OBVIOUS
<1> HIDE DEF stage
<1>3. MutexOK' /\ Mutex!TypeOK' /\ holders = {c}
  BY <1>1, ReleaseFacts DEF ProviderInv
<1>4. pc \in [Callers -> Stages] /\ request \in [Callers -> Request] /\ None \in Request
  BY DEF ProviderInv, TypeOK, None, Request
<1>5. /\ pc' \in [Callers -> Stages] /\ pc'[c] = stage
      /\ \A d \in Callers \ {c} : pc'[d] = pc[d]
      /\ request' \in [Callers -> Request] /\ request'[c] = None
      /\ \A d \in Callers \ {c} : request'[d] = request[d]
  BY <1>1, <1>2, <1>4 DEF Goto, Stages
<1>6. TypeOK'
  BY <1>1, <1>3, <1>5 DEF ProviderInv, TypeOK
<1>7. \A d \in Callers \ {c} : pc[d] \notin Inside
  BY <1>1, Alone
<1>8. RequestsOK'
  BY <1>1, <1>2, <1>5, <1>7 DEF ProviderInv, RequestsOK, Inside
<1>9. LoopsOK'
  <2>1. \A loop \in Loops : loop \in Callers
    BY DEF Callers
  <2>2. pc[c] # "idle" /\ None.kind = "none"
    BY <1>1 DEF None
  <2> QED
    BY <1>1, <1>5, <2>1, <2>2 DEF ProviderInv, LoopsOK
<1>10. \A kind \in {"setInterval", "reset"} : Pending(kind)' \subseteq Pending(kind)
  <2>1. \A d \in Clients : d \in Callers
    BY DEF Callers
  <2> QED
    BY <1>2, <1>5, <2>1 DEF Pending, Unhandled
<1>11. CountsOK'
  BY <1>1, <1>6, <1>10, CountsStay
<1>12. OnlyCurrentTimerRuns'
  BY <1>1 DEF ProviderInv, OnlyCurrentTimerRuns
<1> QED
  BY <1>3, <1>6, <1>8, <1>9, <1>11, <1>12 DEF ProviderInv

LEMMA LoopsAreCallers ==
  /\ \A loop \in Loops : loop \in Callers /\ loop \notin Clients
                         /\ loop[1] \in Nodes /\ loop[2] \in Slots /\ loop = <<loop[1], loop[2]>>
  /\ \A c \in Clients : c \in Callers /\ c \notin Loops
BY ClientsAssumption DEF Callers, Loops

(* One timer changes, takes no slot and does not begin to run. *)
LEMMA TimerStepCounts ==
  ASSUME ProviderInv, TypeOK', NEW t \in DOMAIN timers, NEW timer \in Timer,
         timers' = [timers EXCEPT ![t] = timer],
         Used(timer) \subseteq Used(timers[t]),
         UNCHANGED <<node, resets, changes>>,
         \A kind \in {"setInterval", "reset"} : Pending(kind)' \subseteq Pending(kind)
  PROVE  CountsOK'
<1>1. timers \in Seq(Timer)
  BY DEF ProviderInv, TypeOK
<1>2. /\ Len(timers') = Len(timers) /\ DOMAIN timers' = DOMAIN timers
      /\ \A u \in DOMAIN timers : timers'[u] = IF u = t THEN timer ELSE timers[u]
  BY <1>1
<1>3. \A u \in DOMAIN timers' : u \in DOMAIN timers /\ Used(timers'[u]) \subseteq Used(timers[u])
  BY <1>2
<1> QED
  BY <1>2, <1>3, CountsStay

LEMMA LoopFacts ==
  ASSUME NEW timer \in Timer, NEW s \in Slots, timer.loops[s] = "armed"
  PROVE  /\ Loop(timer, s) \in Timer /\ Loop(timer, s).state = timer.state
         /\ Used(Loop(timer, s)) \subseteq Used(timer)
         /\ Keeps(timer, Loop(timer, s))
         /\ timer.state = "RUNNING" => Loop(timer, s).loops[s] = "mining"
<1>1. CASE timer.state = "STOP"
  <2>1. Loop(timer, s) = [timer EXCEPT !.loops[s] = "off"]
    BY <1>1 DEF Loop
  <2> QED
    BY <2>1, <1>1 DEF Timer, Used, Keeps
<1>2. CASE timer.state # "STOP"
  <2>1. Loop(timer, s) = [timer EXCEPT !.loops[s] = "mining"]
    BY <1>2 DEF Loop
  <2> QED
    BY <2>1, <1>2 DEF Timer, Used, Keeps
<1> QED
  BY <1>1, <1>2

LEMMA FirePreserves ==
  ASSUME ProviderInv, NEW loop \in Loops, Fire(loop[1], loop[2])
  PROVE  ProviderInv'
<1> DEFINE t == loop[1]
           s == loop[2]
           new == Loop(timers[t], s)
<1>1. /\ t \in DOMAIN timers /\ timers[t].loops[s] = "armed"
      /\ timers' = [timers EXCEPT ![t] = new]
      /\ UNCHANGED <<node, forkConfig, resets, changes>>
  BY DEF Fire
<1>2. timers \in Seq(Timer) /\ loop \in Callers /\ s \in Slots /\ loop \notin Clients /\ loop = <<t, s>>
  BY LoopsAreCallers DEF ProviderInv, TypeOK
<1>3. /\ new \in Timer /\ new.state = timers[t].state /\ Used(new) \subseteq Used(timers[t])
      /\ Keeps(timers[t], new) /\ (timers[t].state = "RUNNING" => new.loops[s] = "mining")
  BY <1>1, <1>2, LoopFacts
<1>4. pc[loop] = "idle"
  BY <1>1, <1>2 DEF ProviderInv, LoopsOK
<1> HIDE DEF new
<1>5. /\ timers' \in Seq(Timer) /\ Len(timers') = Len(timers) /\ DOMAIN timers' = DOMAIN timers
      /\ timers'[t] = new
      /\ \A u \in DOMAIN timers : u # t => timers'[u] = timers[u]
  BY <1>1, <1>2, <1>3
<1>6. OnlyCurrentTimerRuns'
  BY <1>1, <1>3, <1>5 DEF ProviderInv, OnlyCurrentTimerRuns
<1>7. ASSUME NEW k \in Loops, k[1] \in DOMAIN timers, timers[k[1]].loops[k[2]] = "mining"
      PROVE  k[1] \in DOMAIN timers' /\ timers'[k[1]].loops[k[2]] = "mining"
  <2>1. k[2] \in Slots
    BY LoopsAreCallers
  <2> QED
    BY <2>1, <1>3, <1>5, <1>7 DEF Keeps
<1>8. CASE timers[t].state = "STOP" /\ UNCHANGED <<mutexVars, request, pc>>
  <2>1. UNCHANGED <<count, tasks, ticks, holders, request, pc>>
    BY <1>8 DEF mutexVars
  <2>2. TypeOK'
    BY <1>1, <1>5, <2>1 DEF ProviderInv, TypeOK, Mutex!TypeOK
  <2>3. MutexOK' /\ RequestsOK'
    BY <1>1, <1>5, <2>1 DEF ProviderInv, MutexOK, RequestsOK
  <2>4. LoopsOK'
    BY <1>7, <2>1 DEF ProviderInv, LoopsOK
  <2>5. \A kind \in {"setInterval", "reset"} : Pending(kind)' \subseteq Pending(kind)
    BY <2>1 DEF Pending
  <2>6. CountsOK'
    BY <1>1, <1>3, <2>2, <2>5, TimerStepCounts
  <2> QED
    BY <1>6, <2>2, <2>3, <2>4, <2>6 DEF ProviderInv
<1>9. CASE /\ timers[t].state = "RUNNING" /\ Mutex!Acquire(<<t, s>>)
           /\ request' = [request EXCEPT ![<<t, s>>] = [kind |-> "intervalMine"]]
           /\ Goto(<<t, s>>, "waiting")
  <2>1. /\ MutexOK' /\ Mutex!TypeOK' /\ holders' = holders
    BY <1>2, <1>9, AcquireFacts DEF ProviderInv
  <2>2. /\ pc \in [Callers -> Stages] /\ request \in [Callers -> Request]
        /\ [kind |-> "intervalMine"] \in Request
    BY DEF ProviderInv, TypeOK, Request
  <2>3. /\ pc' \in [Callers -> Stages] /\ pc'[loop] = "waiting"
        /\ \A d \in Callers \ {loop} : pc'[d] = pc[d]
        /\ request' \in [Callers -> Request] /\ request'[loop] = [kind |-> "intervalMine"]
        /\ \A d \in Callers \ {loop} : request'[d] = request[d]
    BY <1>2, <1>9, <2>2 DEF Goto, Stages
  <2>4. TypeOK'
    BY <1>1, <1>5, <2>1, <2>3 DEF ProviderInv, TypeOK
  <2>5. RequestsOK'
    BY <1>1, <1>5, <2>1, <2>3 DEF ProviderInv, RequestsOK, Inside
  <2>6. LoopsOK'
    <3> SUFFICES ASSUME NEW k \in Loops
                 PROVE  /\ request'[k].kind \in {"none", "intervalMine"}
                        /\ pc'[k] # "idle" =>
                             k[1] \in DOMAIN timers' /\ timers'[k[1]].loops[k[2]] = "mining"
      BY DEF LoopsOK
    <3>1. CASE k = loop
      BY <3>1, <1>1, <1>3, <1>5, <1>9, <2>3
    <3>2. CASE k # loop
      BY <3>2, <1>7, <2>3, LoopsAreCallers DEF ProviderInv, LoopsOK
    <3> QED
      BY <3>1, <3>2
  <2>7. \A kind \in {"setInterval", "reset"} : Pending(kind)' \subseteq Pending(kind)
    BY <1>2, <2>3, LoopsAreCallers DEF Pending
  <2>8. CountsOK'
    BY <1>1, <1>3, <2>4, <2>7, TimerStepCounts
  <2> QED
    BY <1>6, <2>1, <2>4, <2>5, <2>6, <2>8 DEF ProviderInv
<1> QED
  BY <1>8, <1>9 DEF Fire

LEMMA LoopContinuesPreserves ==
  ASSUME ProviderInv, NEW loop \in Loops, LoopContinues(loop[1], loop[2])
  PROVE  ProviderInv'
<1> DEFINE t == loop[1]
           s == loop[2]
           new == LoopAgain(timers[t], s)
<1>1. /\ pc[<<t, s>>] = "returned" /\ timers' = [timers EXCEPT ![t] = new]
      /\ Goto(<<t, s>>, "idle")
      /\ UNCHANGED <<count, tasks, ticks, holders, node, forkConfig, request, resets, changes>>
  BY DEF LoopContinues, mutexVars
<1>2. timers \in Seq(Timer) /\ loop \in Callers /\ s \in Slots /\ loop \notin Clients /\ loop = <<t, s>>
  BY LoopsAreCallers DEF ProviderInv, TypeOK
<1>3. t \in DOMAIN timers /\ timers[t].loops[s] = "mining"
  BY <1>1, <1>2 DEF ProviderInv, LoopsOK
<1>4. timers[t] \in Timer
  BY <1>2, <1>3
<1>5. /\ new \in Timer /\ new.state = timers[t].state
      /\ Used(new) \subseteq Used(timers[t]) \cup {s}
      /\ \A r \in Slots \ {s} : new.loops[r] = timers[t].loops[r]
  BY <1>2, <1>4, SetTimeoutFacts DEF LoopAgain
<1>6. Used(new) \subseteq Used(timers[t])
  BY <1>2, <1>3, <1>5 DEF Used
<1> HIDE DEF new
<1>7. /\ timers' \in Seq(Timer) /\ Len(timers') = Len(timers) /\ DOMAIN timers' = DOMAIN timers
      /\ timers'[t] = new
      /\ \A u \in DOMAIN timers : u # t => timers'[u] = timers[u]
  BY <1>1, <1>2, <1>3, <1>5
<1>8. /\ pc' \in [Callers -> Stages] /\ pc'[loop] = "idle"
      /\ \A d \in Callers \ {loop} : pc'[d] = pc[d]
      /\ \A kind \in {"setInterval", "reset"} : Pending(kind)' \subseteq Pending(kind)
  <2>1. Goto(loop, "idle") /\ "idle" \in Stages /\ "idle" \notin Unhandled
    BY <1>1, <1>2 DEF Stages, Unhandled
  <2> QED
    BY <1>1, <1>2, <2>1, MovesOn
<1>9. TypeOK'
  BY <1>1, <1>7, <1>8 DEF ProviderInv, TypeOK, Mutex!TypeOK
<1>10. MutexOK' /\ RequestsOK'
  BY <1>1, <1>7, <1>8 DEF ProviderInv, MutexOK, RequestsOK, Inside
<1>11. OnlyCurrentTimerRuns'
  BY <1>1, <1>3, <1>5, <1>7 DEF ProviderInv, OnlyCurrentTimerRuns
<1>12. LoopsOK'
  <2> SUFFICES ASSUME NEW k \in Loops, k # loop, pc'[k] # "idle"
               PROVE  k[1] \in DOMAIN timers' /\ timers'[k[1]].loops[k[2]] = "mining"
    BY <1>1, <1>8 DEF LoopsOK, ProviderInv
  <2>1. k[1] \in DOMAIN timers /\ timers[k[1]].loops[k[2]] = "mining" /\ k[2] \in Slots
    BY <1>8, LoopsAreCallers DEF ProviderInv, LoopsOK
  <2>2. k[1] = t => k[2] # s
    BY <1>2, LoopsAreCallers
  <2> QED
    BY <2>1, <2>2, <1>5, <1>7
<1>13. CountsOK'
  BY <1>1, <1>3, <1>5, <1>6, <1>8, <1>9, TimerStepCounts
<1> QED
  BY <1>9, <1>10, <1>11, <1>12, <1>13 DEF ProviderInv

LEMMA MakeNodePreserves ==
  ASSUME ProviderInv, NEW c \in Callers, MakeNode(c)
  PROVE  ProviderInv'
<1> DEFINE n == Len(timers) + 1
           new == Start(NewTimer(IntervalMining), 1)
           stage == IF pc[c] = "init" THEN "process" ELSE "finish"
<1>1. /\ pc[c] \in {"init", "reinit"} /\ node' = n /\ timers' = Append(timers, new)
      /\ Goto(c, stage)
      /\ UNCHANGED <<count, tasks, ticks, holders, forkConfig, request, resets, changes>>
  BY DEF MakeNode, mutexVars
<1>2. timers \in Seq(Timer) /\ Len(timers) \in Nat /\ pc \in [Callers -> Stages]
  BY DEF ProviderInv, TypeOK
<1>3. c \in holders /\ node = 0 /\ pc[c] # "idle"
  BY <1>1 DEF ProviderInv, RequestsOK, Inside
<1>4. 1 \in Slots
  BY BoundsAssumption
<1>5. new \in Timer /\ Used(new) \subseteq {1}
  <2>1. NewTimer(IntervalMining) \in Timer /\ Used(NewTimer(IntervalMining)) = {}
    BY IntervalMiningAssumption, NewTimerFacts
  <2>2. NewTimer(IntervalMining).loops[1] = "off"
    BY <1>4, <2>1 DEF Used
  <2> QED
    BY <1>4, <2>1, <2>2, StartFacts
<1>6. stage \in {"process", "finish"} /\ (stage = "process" => pc[c] = "init")
  OBVIOUS
<1> HIDE DEF new, stage
<1>7. /\ timers' \in Seq(Timer) /\ Len(timers') = n /\ timers'[n] = new
      /\ DOMAIN timers = 1..Len(timers) /\ DOMAIN timers' = 1..n
      /\ \A u \in DOMAIN timers : u # n /\ u \in DOMAIN timers' /\ timers'[u] = timers[u]
      /\ \A u \in DOMAIN timers' : u # n => u \in DOMAIN timers
  BY <1>1, <1>2, <1>5
<1>8. /\ pc' \in [Callers -> Stages] /\ pc'[c] = stage
      /\ \A d \in Callers \ {c} : pc'[d] = pc[d]
      /\ \A kind \in {"setInterval", "reset"} : Pending(kind)' \subseteq Pending(kind)
  <2>1. stage \in Stages /\ (stage \in Unhandled => pc[c] \in Unhandled)
    BY <1>6 DEF Stages, Unhandled
  <2> QED
    BY <1>1, <2>1, MovesOn
<1>9. \A d \in Callers \ {c} : pc[d] \notin Inside
  BY <1>3, Alone
<1>10. resets \in 0..MaxResets /\ changes \in 0..MaxChanges /\ MaxResets \in Nat /\ MaxChanges \in Nat
  BY BoundsAssumption DEF ProviderInv, TypeOK
<1>11. CountsOK' /\ Len(timers') <= MaxResets + 1
  <2> DEFINE a == Cardinality(Pending("setInterval"))
             b == Cardinality(Pending("reset"))
  <2>1. /\ a \in Nat /\ a' \in Nat /\ a' <= a
        /\ b \in Nat /\ b' \in Nat /\ b' <= b
    BY <1>8, PendingDoesNotGrow
  <2>2. /\ a <= changes
        /\ \A t \in DOMAIN timers : Cardinality(Used(timers[t])) + a <= changes + 1
        /\ Len(timers) + b <= resets
    <3>1. Len(timers) + b <= resets + (IF node = 0 THEN 0 ELSE 1)
      BY DEF ProviderInv, CountsOK
    <3>2. Len(timers) + b <= resets + 0
      BY <1>3, <3>1
    <3>3. Len(timers) + b <= resets
      BY <3>2, <1>10
    <3> QED
      BY <3>3 DEF ProviderInv, CountsOK
  <2>3. Cardinality(Used(new)) \in Nat /\ Cardinality(Used(new)) <= 1
    <3>1. IsFiniteSet({}) /\ Cardinality({}) = 0
      BY FS_EmptySet
    <3>2. Used(new) \subseteq {} \cup {1}
      BY <1>5
    <3>3. Cardinality(Used(new)) \in Nat /\ Cardinality(Used(new)) <= Cardinality({}) + 1
      BY <3>1, <3>2, OneMore
    <3> QED
      BY <3>1, <3>3
  <2>4. node' # 0
    BY <1>1, <1>2
  <2>5. Len(timers') <= resets + 1 /\ Len(timers') + b' <= resets' + 1 /\ a' <= changes'
    BY <1>1, <1>2, <1>7, <1>10, <2>1, <2>2
  <2>6. ASSUME NEW t \in DOMAIN timers' PROVE Cardinality(Used(timers'[t])) + a' <= changes' + 1
    <3>1. CASE t = n
      BY <3>1, <1>1, <1>7, <1>10, <2>1, <2>2, <2>3
    <3>2. CASE t # n
      <4>1. t \in DOMAIN timers /\ timers'[t] = timers[t]
        BY <3>2, <1>7
      <4>2. Cardinality(Used(timers[t])) \in Nat
        BY UsedIsFinite
      <4>3. Cardinality(Used(timers[t])) + a <= changes + 1
        BY <4>1, <2>2
      <4> HIDE DEF a
      <4> QED
        BY <4>1, <4>2, <4>3, <2>1, <1>1, <1>10
    <3> QED
      BY <3>1, <3>2
  <2>7. Len(timers') + b' <= resets' + (IF node' = 0 THEN 0 ELSE 1)
    BY <2>4, <2>5
  <2> QED
    BY <2>5, <2>6, <2>7, <1>10, <1>1, <1>7, <1>2 DEF CountsOK
<1>12. TypeOK'
  <2>1. node' \in Nodes
    BY <1>1, <1>2, <1>7, <1>10, <1>11 DEF Nodes
  <2> QED
    BY <1>1, <1>7, <1>8, <1>11, <2>1 DEF ProviderInv, TypeOK, Mutex!TypeOK
<1>13. MutexOK'
  BY <1>1 DEF ProviderInv, MutexOK
<1>14. RequestsOK'
  BY <1>1, <1>2, <1>3, <1>6, <1>7, <1>8, <1>9 DEF RequestsOK, Inside
<1>15. LoopsOK'
  BY <1>1, <1>3, <1>7, <1>8, LoopsAreCallers DEF ProviderInv, LoopsOK
<1>16. OnlyCurrentTimerRuns'
  <2>1. \A t \in DOMAIN timers : timers[t].state # "RUNNING"
    BY <1>3, <1>2 DEF ProviderInv, OnlyCurrentTimerRuns
  <2> QED
    BY <1>1, <1>7, <2>1 DEF OnlyCurrentTimerRuns
<1> QED
  BY <1>11, <1>12, <1>13, <1>14, <1>15, <1>16 DEF ProviderInv

LEMMA SetIntervalMiningPreserves ==
  ASSUME ProviderInv, NEW c \in Callers, SetIntervalMining(c)
  PROVE  ProviderInv'
<1> DEFINE s == CHOOSE s \in FreeSlots(Stop(timers[node])) : TRUE
           new == SetBlockTime(timers[node], request[c].blockTime, s)
           a == Cardinality(Pending("setInterval"))
           b == Cardinality(Pending("reset"))
<1>1. /\ pc[c] = "process" /\ request[c].kind = "setInterval" /\ Goto(c, "finish")
      /\ timers' = [timers EXCEPT ![node] = new]
      /\ UNCHANGED <<count, tasks, ticks, holders, node, forkConfig, request, resets, changes>>
  BY DEF SetIntervalMining, mutexVars
<1>2. timers \in Seq(Timer) /\ Len(timers) \in Nat /\ pc \in [Callers -> Stages]
      /\ request \in [Callers -> Request]
  BY DEF ProviderInv, TypeOK
<1>3. c \in holders /\ node \in DOMAIN timers /\ timers[node] \in Timer
  BY <1>1, <1>2 DEF ProviderInv, RequestsOK, Inside
<1>4. request[c].blockTime \in BlockTimes
  BY <1>1, <1>2 DEF Request
<1>5. c \in Clients
  BY <1>1 DEF ProviderInv, LoopsOK, Callers
<1>6. c \in Pending("setInterval")
  BY <1>1, <1>5 DEF Pending, Unhandled
<1>7. resets \in 0..MaxResets /\ changes \in 0..MaxChanges /\ MaxResets \in Nat /\ MaxChanges \in Nat
  BY BoundsAssumption DEF ProviderInv, TypeOK
<1>8. /\ a <= changes
      /\ \A t \in DOMAIN timers : Cardinality(Used(timers[t])) + a <= changes + 1
      /\ Len(timers) + b <= resets + (IF node = 0 THEN 0 ELSE 1)
  BY DEF ProviderInv, CountsOK
<1>9. /\ pc' \in [Callers -> Stages] /\ pc'[c] = "finish"
      /\ \A d \in Callers \ {c} : pc'[d] = pc[d]
      /\ \A kind \in {"setInterval", "reset"} : Pending(kind)' \subseteq Pending(kind)
  BY <1>1, MovesOn DEF Stages, Unhandled
<1>10. a \in Nat /\ a' \in Nat /\ a' <= a - 1 /\ a >= 1
  <2>1. Pending("setInterval")' \subseteq Pending("setInterval") \ {c}
    BY <1>9, LoopsAreCallers DEF Pending, Unhandled
  <2> QED
    BY <2>1, <1>6, PendingIsFinite, OneLess
<1>11. b \in Nat /\ b' \in Nat /\ b' <= b
  BY <1>9, PendingDoesNotGrow
<1>12. FreeSlots(Stop(timers[node])) # {}
  <2> SUFFICES ASSUME FreeSlots(Stop(timers[node])) = {} PROVE FALSE
    OBVIOUS
  <2>1. Slots \subseteq Used(timers[node])
    BY <1>3, StopFacts DEF FreeSlots, Used
  <2>2. Used(timers[node]) = Slots
    BY <2>1 DEF Used
  <2>3. Cardinality(Slots) = MaxChanges + 1
    BY BoundsAssumption, FS_Interval
  <2>4. MaxChanges + 1 + a <= changes + 1
    BY <1>3, <1>8, <2>2, <2>3
  <2> QED
    BY <2>4, <1>7, <1>10
<1>13. s \in FreeSlots(Stop(timers[node]))
  BY <1>12
<1> HIDE DEF s
<1>14. /\ new \in Timer /\ Used(new) \subseteq Used(timers[node]) \cup {s}
       /\ Keeps(timers[node], new)
  BY <1>3, <1>4, <1>13, SetBlockTimeFacts
<1> HIDE DEF new
<1>15. /\ timers' \in Seq(Timer) /\ Len(timers') = Len(timers) /\ DOMAIN timers' = DOMAIN timers
       /\ timers'[node] = new
       /\ \A u \in DOMAIN timers : u # node => timers'[u] = timers[u]
  BY <1>1, <1>2, <1>3, <1>14
<1>16. TypeOK'
  BY <1>1, <1>9, <1>15 DEF ProviderInv, TypeOK, Mutex!TypeOK
<1>17. MutexOK'
  BY <1>1 DEF ProviderInv, MutexOK
<1>18. RequestsOK'
  BY <1>1, <1>3, <1>9, <1>15 DEF ProviderInv, RequestsOK
<1>19. LoopsOK'
  <2> SUFFICES ASSUME NEW k \in Loops, pc'[k] # "idle"
               PROVE  k[1] \in DOMAIN timers' /\ timers'[k[1]].loops[k[2]] = "mining"
    BY <1>1 DEF LoopsOK, ProviderInv
  <2>1. k[2] \in Slots /\ k # c /\ k \in Callers
    BY <1>5, LoopsAreCallers
  <2>2. k[1] \in DOMAIN timers /\ timers[k[1]].loops[k[2]] = "mining"
    BY <2>1, <1>9 DEF ProviderInv, LoopsOK
  <2> QED
    BY <2>1, <2>2, <1>14, <1>15 DEF Keeps
<1>20. OnlyCurrentTimerRuns'
  BY <1>1, <1>15 DEF ProviderInv, OnlyCurrentTimerRuns
<1>21. ASSUME NEW t \in DOMAIN timers' PROVE Cardinality(Used(timers'[t])) + a' <= changes' + 1
  <2>1. t \in DOMAIN timers /\ Cardinality(Used(timers[t])) \in Nat /\ Cardinality(Used(timers'[t])) \in Nat
    BY <1>15, UsedIsFinite
  <2>2. Cardinality(Used(timers'[t])) <= Cardinality(Used(timers[t])) + 1
    <3>1. CASE t = node
      BY <3>1, <1>14, <1>15, UsedIsFinite, OneMore
    <3>2. CASE t # node
      BY <3>2, <2>1, <1>15
    <3> QED
      BY <3>1, <3>2
  <2>3. Cardinality(Used(timers[t])) + a <= changes + 1
    BY <2>1, <1>8
  <2> QED
    BY <2>1, <2>2, <2>3, <1>1, <1>7, <1>10
<1>22. a' <= changes' /\ Len(timers') + b' <= resets' + (IF node' = 0 THEN 0 ELSE 1)
  BY <1>1, <1>2, <1>7, <1>8, <1>10, <1>11, <1>15
<1>23. CountsOK'
  BY <1>21, <1>22 DEF CountsOK
<1> QED
  BY <1>16, <1>17, <1>18, <1>19, <1>20, <1>23 DEF ProviderInv

LEMMA ResetPreserves ==
  ASSUME ProviderInv, NEW c \in Callers, Reset(c)
  PROVE  ProviderInv'
<1> DEFINE new == Stop(timers[node])
           a == Cardinality(Pending("setInterval"))
           b == Cardinality(Pending("reset"))
<1>1. /\ pc[c] = "process" /\ request[c].kind = "reset" /\ Goto(c, "reinit")
      /\ forkConfig' = request[c].fork /\ node' = 0
      /\ timers' = [timers EXCEPT ![node] = new]
      /\ UNCHANGED <<count, tasks, ticks, holders, request, resets, changes>>
  BY DEF Reset, mutexVars
<1>2. timers \in Seq(Timer) /\ Len(timers) \in Nat /\ pc \in [Callers -> Stages]
      /\ request \in [Callers -> Request]
  BY DEF ProviderInv, TypeOK
<1>3. c \in holders /\ node \in DOMAIN timers /\ timers[node] \in Timer /\ node # 0
  BY <1>1, <1>2 DEF ProviderInv, RequestsOK, Inside
<1>4. request[c].fork \in Forks
  BY <1>1, <1>2 DEF Request
<1>5. c \in Clients
  BY <1>1 DEF ProviderInv, LoopsOK, Callers
<1>6. c \in Pending("reset")
  BY <1>1, <1>5 DEF Pending, Unhandled
<1>7. resets \in 0..MaxResets /\ changes \in 0..MaxChanges /\ MaxResets \in Nat /\ MaxChanges \in Nat
  BY BoundsAssumption DEF ProviderInv, TypeOK
<1>8. /\ a <= changes
      /\ \A t \in DOMAIN timers : Cardinality(Used(timers[t])) + a <= changes + 1
      /\ Len(timers) + b <= resets + (IF node = 0 THEN 0 ELSE 1)
  BY DEF ProviderInv, CountsOK
<1>9. /\ pc' \in [Callers -> Stages] /\ pc'[c] = "reinit"
      /\ \A d \in Callers \ {c} : pc'[d] = pc[d]
      /\ \A kind \in {"setInterval", "reset"} : Pending(kind)' \subseteq Pending(kind)
  BY <1>1, MovesOn DEF Stages, Unhandled
<1>10. b \in Nat /\ b' \in Nat /\ b' <= b - 1 /\ b >= 1
  <2>1. Pending("reset")' \subseteq Pending("reset") \ {c}
    BY <1>9, LoopsAreCallers DEF Pending, Unhandled
  <2> QED
    BY <2>1, <1>6, PendingIsFinite, OneLess
<1>11. a \in Nat /\ a' \in Nat /\ a' <= a
  BY <1>9, PendingDoesNotGrow
<1>12. /\ new \in Timer /\ new.state = "STOP" /\ Used(new) \subseteq Used(timers[node])
       /\ Keeps(timers[node], new)
  BY <1>3, StopFacts
<1> HIDE DEF new
<1>13. /\ timers' \in Seq(Timer) /\ Len(timers') = Len(timers) /\ DOMAIN timers' = DOMAIN timers
       /\ timers'[node] = new
       /\ \A u \in DOMAIN timers : u # node => timers'[u] = timers[u]
  BY <1>1, <1>2, <1>3, <1>12
<1>14. TypeOK'
  BY <1>1, <1>4, <1>9, <1>13 DEF ProviderInv, TypeOK, Mutex!TypeOK
<1>15. MutexOK'
  BY <1>1 DEF ProviderInv, MutexOK
<1>16. RequestsOK'
  <2>1. \A d \in Callers \ {c} : pc[d] \notin Inside
    BY <1>3, Alone
  <2> QED
    BY <1>1, <1>3, <1>9, <2>1 DEF RequestsOK, Inside
<1>17. LoopsOK'
  <2> SUFFICES ASSUME NEW k \in Loops, pc'[k] # "idle"
               PROVE  k[1] \in DOMAIN timers' /\ timers'[k[1]].loops[k[2]] = "mining"
    BY <1>1 DEF LoopsOK, ProviderInv
  <2>1. k[2] \in Slots /\ k # c /\ k \in Callers
    BY <1>5, LoopsAreCallers
  <2>2. k[1] \in DOMAIN timers /\ timers[k[1]].loops[k[2]] = "mining"
    BY <2>1, <1>9 DEF ProviderInv, LoopsOK
  <2> QED
    BY <2>1, <2>2, <1>12, <1>13 DEF Keeps
<1>18. OnlyCurrentTimerRuns'
  BY <1>1, <1>12, <1>13 DEF ProviderInv, OnlyCurrentTimerRuns
<1>19. ASSUME NEW t \in DOMAIN timers' PROVE Cardinality(Used(timers'[t])) + a' <= changes' + 1
  <2>1. t \in DOMAIN timers /\ Cardinality(Used(timers[t])) \in Nat /\ Cardinality(Used(timers'[t])) \in Nat
    BY <1>13, UsedIsFinite
  <2>2. Used(timers'[t]) \subseteq Used(timers[t])
    BY <2>1, <1>12, <1>13
  <2>3. Cardinality(Used(timers'[t])) <= Cardinality(Used(timers[t]))
    BY <2>2, UsedIsFinite, SmallerSets
  <2>4. Cardinality(Used(timers[t])) + a <= changes + 1
    BY <2>1, <1>8
  <2> QED
    BY <2>1, <2>3, <2>4, <1>1, <1>7, <1>11
<1>20. a' <= changes' /\ Len(timers') + b' <= resets' + (IF node' = 0 THEN 0 ELSE 1)
  <2>1. Len(timers) + b <= resets + 1
    BY <1>3, <1>8
  <2>2. Len(timers') + b' <= resets' + 0
    BY <2>1, <1>1, <1>2, <1>7, <1>10, <1>13
  <2> QED
    BY <2>2, <1>1, <1>7, <1>8, <1>11
<1>21. CountsOK'
  BY <1>19, <1>20 DEF CountsOK
<1> QED
  BY <1>14, <1>15, <1>16, <1>17, <1>18, <1>21 DEF ProviderInv

LEMMA CallPreserves ==
  ASSUME ProviderInv, NEW c \in Clients, NEW r \in Request, Call(c, r),
         r.kind = "setInterval" => changes < MaxChanges,
         r.kind = "reset" => resets < MaxResets
  PROVE  ProviderInv'
<1> DEFINE a == Cardinality(Pending("setInterval"))
           b == Cardinality(Pending("reset"))
           da == IF r.kind = "setInterval" THEN 1 ELSE 0
           db == IF r.kind = "reset" THEN 1 ELSE 0
<1>1. /\ pc[c] = "idle" /\ Mutex!Acquire(c) /\ request' = [request EXCEPT ![c] = r]
      /\ Goto(c, "waiting") /\ resets' = resets + db /\ changes' = changes + da
      /\ UNCHANGED <<node, timers, forkConfig>>
  BY DEF Call
<1>2. /\ c \in Callers /\ pc \in [Callers -> Stages] /\ request \in [Callers -> Request]
      /\ timers \in Seq(Timer) /\ Len(timers) \in Nat
  BY LoopsAreCallers DEF ProviderInv, TypeOK
<1>3. MutexOK' /\ Mutex!TypeOK' /\ holders' = holders
  BY <1>1, <1>2, AcquireFacts DEF ProviderInv
<1>4. /\ pc' \in [Callers -> Stages] /\ pc'[c] = "waiting"
      /\ \A d \in Callers \ {c} : pc'[d] = pc[d]
      /\ request' \in [Callers -> Request] /\ request'[c] = r
      /\ \A d \in Callers \ {c} : request'[d] = request[d]
  BY <1>1, <1>2 DEF Goto, Stages
<1>5. resets \in 0..MaxResets /\ changes \in 0..MaxChanges /\ MaxResets \in Nat /\ MaxChanges \in Nat
  BY BoundsAssumption DEF ProviderInv, TypeOK
<1>6. da \in {0, 1} /\ db \in {0, 1} /\ resets' \in 0..MaxResets /\ changes' \in 0..MaxChanges
  BY <1>1, <1>5
<1>7. TypeOK'
  BY <1>1, <1>3, <1>4, <1>6 DEF ProviderInv, TypeOK
<1>8. RequestsOK'
  BY <1>1, <1>3, <1>4 DEF ProviderInv, RequestsOK, Inside
<1>9. LoopsOK'
  BY <1>1, <1>4, LoopsAreCallers DEF ProviderInv, LoopsOK
<1>10. OnlyCurrentTimerRuns'
  BY <1>1 DEF ProviderInv, OnlyCurrentTimerRuns
<1>11. ASSUME NEW kind
       PROVE  /\ Cardinality(Pending(kind)) \in Nat /\ Cardinality(Pending(kind)') \in Nat
              /\ Cardinality(Pending(kind)')
                   <= Cardinality(Pending(kind)) + (IF r.kind = kind THEN 1 ELSE 0)
  <2>1. CASE r.kind = kind
    <3>1. Pending(kind)' \subseteq Pending(kind) \cup {c}
      BY <1>4, LoopsAreCallers DEF Pending
    <3>2. /\ Cardinality(Pending(kind)) \in Nat /\ Cardinality(Pending(kind)') \in Nat
          /\ Cardinality(Pending(kind)') <= Cardinality(Pending(kind)) + 1
      BY <3>1, PendingIsFinite, OneMore
    <3> QED
      BY <2>1, <3>2
  <2>2. CASE r.kind # kind
    <3>1. Pending(kind)' \subseteq Pending(kind)
      BY <2>2, <1>4, LoopsAreCallers DEF Pending
    <3>2. /\ Cardinality(Pending(kind)) \in Nat /\ Cardinality(Pending(kind)') \in Nat
          /\ Cardinality(Pending(kind)') <= Cardinality(Pending(kind))
      BY <3>1, PendingDoesNotGrow
    <3> QED
      BY <2>2, <3>2
  <2> QED
    BY <2>1, <2>2
<1>12. /\ a \in Nat /\ a' \in Nat /\ a' <= a + da
       /\ b \in Nat /\ b' \in Nat /\ b' <= b + db
  BY <1>11
<1>13. /\ a <= changes
       /\ \A t \in DOMAIN timers : Cardinality(Used(timers[t])) + a <= changes + 1
       /\ Len(timers) + b <= resets + (IF node = 0 THEN 0 ELSE 1)
  BY DEF ProviderInv, CountsOK
<1> HIDE DEF da, db
<1>14. ASSUME NEW t \in DOMAIN timers' PROVE Cardinality(Used(timers'[t])) + a' <= changes' + 1
  <2>1. Cardinality(Used(timers[t])) \in Nat /\ timers'[t] = timers[t]
    BY <1>1, UsedIsFinite
  <2>2. Cardinality(Used(timers[t])) + a <= changes + 1
    BY <1>1, <1>13
  <2> QED
    BY <2>1, <2>2, <1>1, <1>5, <1>6, <1>12
<1>15. a' <= changes' /\ Len(timers') + b' <= resets' + (IF node' = 0 THEN 0 ELSE 1)
  BY <1>1, <1>2, <1>5, <1>6, <1>12, <1>13, SMTT(30)
<1>16. CountsOK'
  BY <1>14, <1>15 DEF CountsOK
<1> QED
  BY <1>3, <1>7, <1>8, <1>9, <1>10, <1>16 DEF ProviderInv

-----------------------------------------------------------------------------
(* The theorems *)

LEMMA ProviderInitHolds == Init => ProviderInv
<1> SUFFICES ASSUME Init PROVE ProviderInv
  OBVIOUS
<1>1. /\ count = 1 /\ tasks = <<>> /\ ticks = 0 /\ holders = {}
      /\ node = 0 /\ timers = <<>> /\ forkConfig = InitialFork
      /\ request = [c \in Callers |-> None] /\ pc = [c \in Callers |-> "idle"]
      /\ resets = 0 /\ changes = 0
  BY DEF Init, Mutex!Init
<1>2. None \in Request /\ "idle" \in Stages /\ None.kind = "none"
  BY DEF None, Request, Stages
<1>3. tasks \in Seq(Callers) /\ timers \in Seq(Timer) /\ Len(timers) = 0 /\ DOMAIN timers = {}
  BY <1>1
<1>4. TypeOK
  BY <1>1, <1>2, <1>3, ForksAssumption, BoundsAssumption DEF TypeOK, Mutex!TypeOK
<1>5. MutexOK /\ RequestsOK /\ OnlyCurrentTimerRuns
  BY <1>1, <1>3 DEF MutexOK, RequestsOK, Inside, OnlyCurrentTimerRuns
<1>6. LoopsOK
  BY <1>1, <1>2, LoopsAreCallers DEF LoopsOK
<1>7. CountsOK
  <2>1. \A kind : Pending(kind) = {}
    BY <1>1, LoopsAreCallers DEF Pending, Unhandled
  <2>2. Cardinality({}) = 0
    BY FS_EmptySet
  <2>3. Cardinality(Pending("setInterval")) = 0 /\ Cardinality(Pending("reset")) = 0
    BY <2>1, <2>2
  <2>4. Len(timers) + Cardinality(Pending("reset")) = 0 /\ resets + (IF node = 0 THEN 0 ELSE 1) = 0
    BY <1>1, <1>3, <2>3
  <2> QED
    BY <1>1, <1>3, <2>3, <2>4 DEF CountsOK
<1> QED
  BY <1>4, <1>5, <1>6, <1>7 DEF ProviderInv

LEMMA AdvancePreserves ==
  ASSUME ProviderInv, NEW c \in Callers, Advance(c)
  PROVE  ProviderInv'
<1>1. ASSUME FailToMakeNode(c) \/ Process(c) PROVE ProviderInv'
  <2>1. /\ pc[c] \in Inside /\ Goto(c, "finish")
        /\ UNCHANGED <<mutexVars, node, timers, forkConfig, request, resets, changes>>
    BY <1>1 DEF FailToMakeNode, Process, Inside
  <2> QED
    BY <2>1, QuietStepPreserves
<1> QED
  BY <1>1, EnterPreserves, MakeNodePreserves, SetIntervalMiningPreserves, ResetPreserves,
     FinishPreserves DEF Advance

LEMMA ProviderNextPreserves == ProviderInv /\ [Next]_vars => ProviderInv'
<1> SUFFICES ASSUME ProviderInv, [Next]_vars PROVE ProviderInv'
  OBVIOUS
<1>1. CASE UNCHANGED vars
  <2>1. UNCHANGED <<count, tasks, ticks, holders, node, timers, forkConfig, request, pc, resets, changes>>
    BY <1>1 DEF vars, mutexVars
  <2>2. TypeOK' /\ MutexOK' /\ RequestsOK' /\ LoopsOK' /\ OnlyCurrentTimerRuns'
    BY <2>1 DEF ProviderInv, TypeOK, Mutex!TypeOK, MutexOK, RequestsOK, LoopsOK, OnlyCurrentTimerRuns
  <2>3. \A kind : Pending(kind)' = Pending(kind)
    BY <2>1 DEF Pending
  <2>4. CountsOK'
    BY <2>1, <2>2, <2>3, CountsStay
  <2> QED
    BY <2>2, <2>4 DEF ProviderInv
<1>2. ASSUME NEW c \in Clients, NEW kind \in Kinds \cap {"other", "object"}, Call(c, [kind |-> kind])
      PROVE  ProviderInv'
  <2>1. [kind |-> kind] \in Request
    BY DEF Request
  <2> QED
    BY <1>2, <2>1, CallPreserves
<1>3. ASSUME NEW c \in Clients, changes < MaxChanges, NEW blockTime \in BlockTimes,
             Call(c, [kind |-> "setInterval", blockTime |-> blockTime])
      PROVE  ProviderInv'
  <2>1. [kind |-> "setInterval", blockTime |-> blockTime] \in Request
    BY DEF Request
  <2> QED
    BY <1>3, <2>1, CallPreserves
<1>4. ASSUME NEW c \in Clients, resets < MaxResets, NEW fork \in Forks,
             Call(c, [kind |-> "reset", fork |-> fork])
      PROVE  ProviderInv'
  <2>1. [kind |-> "reset", fork |-> fork] \in Request
    BY DEF Request
  <2> QED
    BY <1>4, <2>1, CallPreserves
<1>5. ASSUME NEW loop \in Loops, Fire(loop[1], loop[2]) \/ LoopContinues(loop[1], loop[2])
      PROVE  ProviderInv'
  BY <1>5, FirePreserves, LoopContinuesPreserves
<1>6. CASE Tick
  BY <1>6, TickPreserves
<1>7. ASSUME NEW c \in Callers, Advance(c) PROVE ProviderInv'
  BY <1>7, AdvancePreserves
<1> QED
  BY <1>1, <1>2, <1>3, <1>4, <1>5, <1>6, <1>7 DEF Next

(* However requests, timeouts, resets and failures interleave, the         *)
(* invariant above holds.                                                  *)
THEOREM ProviderInvariance == Spec => []ProviderInv
<1> QED
  BY ProviderInitHolds, ProviderNextPreserves, PTL DEF Spec

(* The provider keeps its types: every change of the interval finds a free *)
(* slot, and no more nodes are made than resets account for, so the bounds *)
(* on them cut no behaviour off.                                           *)
THEOREM ProviderTypeCorrect == Spec => []TypeOK
<1>1. ProviderInv => TypeOK
  BY DEF ProviderInv
<1> QED
  BY <1>1, ProviderInvariance, PTL

(* For any clients, forks, block times, resets and changes of the          *)
(* interval, only the timer of the current node runs; after a failed reset *)
(* none does.                                                              *)
THEOREM OldTimersAreStopped == Spec => []OnlyCurrentTimerRuns
<1>1. ProviderInv => OnlyCurrentTimerRuns
  BY DEF ProviderInv
<1> QED
  BY <1>1, ProviderInvariance, PTL

(* Two requests are never both between the acquisition of the mutex and    *)
(* its release, so the handlers of _init, _send and _reset, which await,   *)
(* do not interleave.                                                      *)
HandlersAlone == \A c, d \in Callers : pc[c] \in Inside /\ pc[d] \in Inside => c = d

THEOREM HandlersDoNotInterleave == Spec => []HandlersAlone
<1>1. ProviderInv => HandlersAlone
  BY DEF ProviderInv, MutexOK, RequestsOK, HandlersAlone
<1> QED
  BY <1>1, ProviderInvariance, PTL
-----------------------------------------------------------------------------
(* The mutex of the provider *)

(* The steps of the provider that move the mutex: a request or a timeout   *)
(* asks for it, a tick serves the first in line, the end of a request      *)
(* hands it over.                                                          *)
LEMMA MutexMoves ==
  ASSUME [Next]_vars
  PROVE  \/ \E c \in Callers : Mutex!Acquire(c)
         \/ Mutex!Tick
         \/ \E c \in holders : Mutex!Release(c)
         \/ UNCHANGED mutexVars
<1>1. ASSUME NEW c \in Clients, NEW r, Call(c, r) PROVE \E d \in Callers : Mutex!Acquire(d)
  BY <1>1 DEF Call, Callers
<1>2. ASSUME NEW loop \in Loops, Fire(loop[1], loop[2])
      PROVE  (\E d \in Callers : Mutex!Acquire(d)) \/ UNCHANGED mutexVars
  <2>1. <<loop[1], loop[2]>> \in Callers
    BY DEF Loops, Callers
  <2> QED
    BY <1>2, <2>1 DEF Fire
<1>3. ASSUME NEW loop \in Loops, LoopContinues(loop[1], loop[2]) PROVE UNCHANGED mutexVars
  BY <1>3 DEF LoopContinues
<1>4. Tick => Mutex!Tick
  BY DEF Tick
<1>5. ASSUME NEW c \in Callers, Advance(c)
      PROVE  (\E d \in holders : Mutex!Release(d)) \/ UNCHANGED mutexVars
  <2>1. CASE Finish(c)
    BY <2>1 DEF Finish
  <2>2. CASE \/ Enter(c) \/ MakeNode(c) \/ FailToMakeNode(c) \/ Process(c)
             \/ SetIntervalMining(c) \/ Reset(c)
    <3>1. CASE Enter(c)
      BY <3>1 DEF Enter
    <3>2. CASE MakeNode(c)
      BY <3>2 DEF MakeNode
    <3>3. CASE FailToMakeNode(c)
      BY <3>3 DEF FailToMakeNode
    <3>4. CASE Process(c)
      BY <3>4 DEF Process
    <3>5. CASE SetIntervalMining(c)
      BY <3>5 DEF SetIntervalMining
    <3>6. CASE Reset(c)
      BY <3>6 DEF Reset
    <3> QED
      BY <2>2, <3>1, <3>2, <3>3, <3>4, <3>5, <3>6
  <2> QED
    BY <1>5, <2>1, <2>2 DEF Advance
<1>6. CASE UNCHANGED vars
  BY <1>6 DEF vars, mutexVars
<1> QED
  BY <1>1, <1>2, <1>3, <1>4, <1>5, <1>6 DEF Next

(* The safety part of MutexIsFair: however requests, timeouts and resets   *)
(* interleave, they get the mutex one at a time and in the order in which  *)
(* they asked for it.                                                      *)
THEOREM MutexServesInOrder ==
  Spec => /\ Mutex!FairLockInstance!Start
          /\ [][Mutex!FairLockInstance!Move]_(Mutex!FairLockInstance!lockVars)
<1>1. Init => Mutex!FairLockInstance!Start
  BY DEF Init, Mutex!Init, Mutex!FairLockInstance!Start
<1>2. ProviderInv /\ [Next]_vars =>
        [Mutex!FairLockInstance!Move]_(Mutex!FairLockInstance!lockVars)
  <2> SUFFICES ASSUME ProviderInv, [Next]_vars
               PROVE  [Mutex!FairLockInstance!Move]_(Mutex!FairLockInstance!lockVars)
    OBVIOUS
  <2>1. /\ count \in Nat /\ tasks \in Seq(Callers)
        /\ holders \in SUBSET Callers
        /\ count > 0 => holders = {}
    BY DEF ProviderInv, TypeOK, Mutex!TypeOK, MutexOK
  <2>2. CASE Mutex!Tick
    <3>1. Mutex!Sched(count, holders)
      BY <2>2 DEF Mutex!Tick
    <3>2. CASE count > 0 /\ tasks # <<>>
      <4>1. tasks' = Tail(tasks) /\ holders' = holders \cup {Head(tasks)}
        BY <3>1, <3>2 DEF Mutex!Sched
      <4>2. Cardinality(holders) < 1
        <5>1. holders = {}
          BY <2>1, <3>2
        <5>2. Cardinality({}) = 0
          BY FS_EmptySet
        <5> QED
          BY <5>1, <5>2
      <4>3. Mutex!FairLockInstance!Cardinality(holders) = Cardinality(holders)
        BY DEF Mutex!FairLockInstance!Cardinality, Cardinality
      <4>4. Mutex!FairLockInstance!Enter
        BY <3>2, <4>1, <4>2, <4>3 DEF Mutex!FairLockInstance!Enter
      <4> QED
        BY <4>4 DEF Mutex!FairLockInstance!Move
    <3>3. CASE ~(count > 0 /\ tasks # <<>>)
      <4>1. tasks' = tasks /\ holders' = holders
        BY <3>1, <3>3 DEF Mutex!Sched
      <4> QED
        BY <4>1 DEF Mutex!FairLockInstance!lockVars
    <3> QED
      BY <3>2, <3>3
  <2>3. ASSUME NEW c \in Callers, Mutex!Acquire(c)
        PROVE  Mutex!FairLockInstance!Move
    <3>1. Mutex!FairLockInstance!Ask(c)
      BY <2>3 DEF Mutex!Acquire, Mutex!FairLockInstance!Ask
    <3> QED
      BY <3>1 DEF Mutex!FairLockInstance!Move
  <2>4. ASSUME NEW c \in holders, Mutex!Release(c)
        PROVE  Mutex!FairLockInstance!Move
    <3>0. c \in Callers
      BY <2>1, <2>4
    <3>1. CASE tasks # <<>>
      <4>1. Mutex!Sched(count + 1, holders \ {c}) /\ count + 1 > 0
        BY <2>1, <2>4 DEF Mutex!Release
      <4>2. tasks' = Tail(tasks) /\ holders' = (holders \ {c}) \cup {Head(tasks)}
        BY <3>1, <4>1 DEF Mutex!Sched
      <4>3. Mutex!FairLockInstance!HandOver(c)
        BY <2>4, <3>1, <4>2 DEF Mutex!FairLockInstance!HandOver
      <4> QED
        BY <3>0, <4>3 DEF Mutex!FairLockInstance!Move
    <3>2. CASE tasks = <<>>
      <4>1. tasks' = tasks /\ holders' = holders \ {c}
        BY <2>4, <3>2 DEF Mutex!Release, Mutex!Sched
      <4>2. Mutex!FairLockInstance!Leave(c)
        BY <2>4, <4>1 DEF Mutex!FairLockInstance!Leave
      <4> QED
        BY <3>0, <4>2 DEF Mutex!FairLockInstance!Move
    <3> QED
      BY <3>1, <3>2
  <2>5. CASE UNCHANGED mutexVars
    BY <2>5 DEF mutexVars, Mutex!FairLockInstance!lockVars
  <2> QED
    BY <2>2, <2>3, <2>4, <2>5, MutexMoves
<1> QED
  BY <1>1, <1>2, ProviderInvariance, PTL DEF Spec

(* Every request that waits is in line or has the mutex; the line has each *)
(* request once; whoever has the mutex is on its way to release it, or     *)
(* lost; a free mutex with somebody in line has a tick queued; and only    *)
(* requests that a handler exists for reach their handler.                 *)
LineOK ==
  /\ \A c \in Callers : pc[c] = "waiting" => c \in holders \/ \E i \in 1..Len(tasks) : tasks[i] = c
  /\ \A i \in 1..Len(tasks) : pc[tasks[i]] = "waiting" /\ tasks[i] \notin holders
  /\ \A i, j \in 1..Len(tasks) : tasks[i] = tasks[j] => i = j
  /\ \A c \in holders : pc[c] = "waiting" \/ pc[c] \in Inside
  /\ count = 0 \/ tasks = <<>> \/ ticks > 0

KindsOK ==
  \A c \in Callers :
    /\ pc[c] \in Unhandled => request[c].kind # "none"
    /\ pc[c] \in {"init", "process"} => request[c].kind # "object"

LineInv == LineOK /\ KindsOK

(* A request at the end of the line *)
LEMMA AcquireKeepsLine ==
  ASSUME ProviderInv, LineOK, NEW c \in Callers, Mutex!Acquire(c),
         pc' = [pc EXCEPT ![c] = "waiting"]
  PROVE  LineOK'
<1>1. /\ tasks \in Seq(Callers) /\ pc \in [Callers -> Stages] /\ holders \in SUBSET Callers
      /\ ticks \in Nat /\ Len(tasks) \in Nat
  BY DEF ProviderInv, TypeOK, Mutex!TypeOK
<1>2. /\ c \notin holders /\ tasks' = Append(tasks, c) /\ ticks' = ticks + 1
      /\ count' = count /\ holders' = holders
      /\ \A i \in 1..Len(tasks) : tasks[i] # c
  BY <1>1 DEF Mutex!Acquire, Mutex!Waiting
<1>3. /\ Len(tasks') = Len(tasks) + 1 /\ tasks'[Len(tasks) + 1] = c
      /\ \A i \in 1..Len(tasks) : tasks'[i] = tasks[i] /\ tasks[i] \in Callers
  BY <1>1, <1>2
<1>4. pc'[c] = "waiting" /\ \A d \in Callers : d # c => pc'[d] = pc[d]
  BY <1>1
<1>5. \A i \in 1..(Len(tasks) + 1) : i \in 1..Len(tasks) \/ i = Len(tasks) + 1
  BY <1>1
<1>6. \A d \in Callers : pc'[d] = "waiting" =>
        d \in holders \/ \E i \in 1..Len(tasks') : tasks'[i] = d
  <2> SUFFICES ASSUME NEW d \in Callers, pc'[d] = "waiting", d \notin holders
               PROVE  \E i \in 1..(Len(tasks) + 1) : tasks'[i] = d
    BY <1>3
  <2>1. CASE d = c
    <3>1. Len(tasks) + 1 \in 1..(Len(tasks) + 1)
      BY <1>1
    <3> QED
      BY <1>3, <2>1, <3>1
  <2>2. CASE d # c
    <3>1. PICK i \in 1..Len(tasks) : tasks[i] = d
      BY <1>4, <2>2 DEF LineOK
    <3>2. i \in 1..(Len(tasks) + 1)
      BY <1>1
    <3> QED
      BY <1>3, <3>1, <3>2
  <2> QED
    BY <2>1, <2>2
<1>7. ASSUME NEW i \in 1..(Len(tasks) + 1)
      PROVE  pc'[tasks'[i]] = "waiting" /\ tasks'[i] \notin holders
  <2>1. CASE i \in 1..Len(tasks)
    BY <1>2, <1>3, <1>4, <2>1 DEF LineOK
  <2>2. CASE i = Len(tasks) + 1
    BY <1>2, <1>3, <1>4, <2>2
  <2> QED
    BY <1>5, <2>1, <2>2
<1>8. ASSUME NEW i \in 1..(Len(tasks) + 1), NEW j \in 1..(Len(tasks) + 1),
             tasks'[i] = tasks'[j]
      PROVE  i = j
  <2>1. CASE i \in 1..Len(tasks) /\ j \in 1..Len(tasks)
    BY <1>3, <1>8, <2>1 DEF LineOK
  <2>2. CASE ~(i \in 1..Len(tasks) /\ j \in 1..Len(tasks))
    BY <1>2, <1>3, <1>5, <1>8, <2>2
  <2> QED
    BY <2>1, <2>2
<1>9. \A d \in holders : pc'[d] = "waiting" \/ pc'[d] \in Inside
  BY <1>1, <1>2, <1>4 DEF LineOK
<1>10. ticks' > 0
  BY <1>1, <1>2
<1> QED
  BY <1>2, <1>3, <1>6, <1>7, <1>8, <1>9, <1>10 DEF LineOK

(* The first in line, out of it *)
LEMMA HeadLeavesLine ==
  ASSUME NEW S, NEW s \in Seq(S), s # <<>>
  PROVE  /\ Head(s) = s[1] /\ Head(s) \in S /\ 1 \in 1..Len(s) /\ Len(s) \in Nat
         /\ Len(Tail(s)) = Len(s) - 1
         /\ \A i \in 1..(Len(s) - 1) : Tail(s)[i] = s[i + 1] /\ i + 1 \in 1..Len(s)
         /\ \A i \in 1..Len(s) : i # 1 => i - 1 \in 1..(Len(s) - 1) /\ i - 1 + 1 = i
<1>1. Len(s) \in Nat \ {0}
  BY EmptySeq
<1> QED
  BY <1>1

(* _sched gives the mutex to the first in line, or leaves the line as it   *)
(* is.  The owners it finds are nobody.                                    *)
LEMMA SchedKeepsLine ==
  ASSUME NEW free \in Nat, NEW owners, Mutex!Sched(free, owners), free > 0 => owners = {},
         tasks \in Seq(Callers), NEW stage \in [Callers -> Stages],
         owners \in SUBSET Callers, free \in {0, 1}, ticks' \in Nat,
         \A c \in Callers : stage[c] = "waiting" =>
           c \in owners \/ \E i \in 1..Len(tasks) : tasks[i] = c,
         \A i \in 1..Len(tasks) : stage[tasks[i]] = "waiting" /\ tasks[i] \notin owners,
         \A i, j \in 1..Len(tasks) : tasks[i] = tasks[j] => i = j,
         \A c \in owners : stage[c] = "waiting" \/ stage[c] \in Inside,
         pc' = stage
  PROVE  LineOK'
<1>1. CASE free > 0 /\ tasks # <<>>
  <2>1. count' = free - 1 /\ tasks' = Tail(tasks) /\ holders' = owners \cup {Head(tasks)}
    BY <1>1 DEF Mutex!Sched
  <2>2. owners = {} /\ count' = 0
    BY <1>1, <2>1
  <2>3. /\ Head(tasks) = tasks[1] /\ Head(tasks) \in Callers
        /\ 1 \in 1..Len(tasks) /\ Len(tasks) \in Nat
        /\ Len(Tail(tasks)) = Len(tasks) - 1
        /\ \A i \in 1..(Len(tasks) - 1) : Tail(tasks)[i] = tasks[i + 1] /\ i + 1 \in 1..Len(tasks)
        /\ \A i \in 1..Len(tasks) : i # 1 => i - 1 \in 1..(Len(tasks) - 1) /\ i - 1 + 1 = i
    BY <1>1, HeadLeavesLine
  <2>4. holders' = {tasks[1]}
    BY <2>1, <2>2, <2>3
  <2>5. ASSUME NEW c \in Callers, stage[c] = "waiting"
        PROVE  c \in holders' \/ \E i \in 1..Len(tasks') : tasks'[i] = c
    <3>1. PICK i \in 1..Len(tasks) : tasks[i] = c
      BY <2>2, <2>5
    <3>2. CASE i = 1
      BY <2>4, <3>1, <3>2
    <3>3. CASE i # 1
      <4>1. i - 1 \in 1..Len(tasks') /\ tasks'[i - 1] = c
        BY <2>1, <2>3, <3>1, <3>3
      <4> QED
        BY <4>1
    <3> QED
      BY <3>2, <3>3
  <2>6. ASSUME NEW i \in 1..Len(tasks')
        PROVE  stage[tasks'[i]] = "waiting" /\ tasks'[i] \notin holders'
    <3>1. tasks'[i] = tasks[i + 1] /\ i + 1 \in 1..Len(tasks) /\ i + 1 # 1
      BY <2>1, <2>3, <2>6
    <3> QED
      BY <2>3, <2>4, <3>1
  <2>7. ASSUME NEW i \in 1..Len(tasks'), NEW j \in 1..Len(tasks'), tasks'[i] = tasks'[j]
        PROVE  i = j
    <3>1. /\ tasks'[i] = tasks[i + 1] /\ i + 1 \in 1..Len(tasks)
          /\ tasks'[j] = tasks[j + 1] /\ j + 1 \in 1..Len(tasks)
      BY <2>1, <2>3, <2>7
    <3>2. i + 1 = j + 1
      BY <2>7, <3>1
    <3> QED
      BY <2>3, <3>2
  <2>8. \A c \in holders' : stage[c] = "waiting" \/ stage[c] \in Inside
    BY <2>3, <2>4
  <2> QED
    BY <2>2, <2>5, <2>6, <2>7, <2>8 DEF LineOK
<1>2. CASE ~(free > 0 /\ tasks # <<>>)
  <2>1. count' = free /\ tasks' = tasks /\ holders' = owners
    BY <1>2 DEF Mutex!Sched
  <2>2. count' = 0 \/ tasks' = <<>>
    BY <1>2, <2>1
  <2> QED
    BY <2>1, <2>2 DEF LineOK
<1> QED
  BY <1>1, <1>2

(* A step that leaves the mutex alone and moves one request that does not  *)
(* wait for the mutex, between stages with it or between stages without.   *)
LEMMA MoveKeepsLine ==
  ASSUME ProviderInv, LineOK, NEW c \in Callers, NEW stage, UNCHANGED mutexVars,
         pc' = [pc EXCEPT ![c] = stage],
         stage # "waiting", pc[c] # "waiting" \/ c \in holders,
         c \in holders => stage \in Inside
  PROVE  LineOK'
<1>1. tasks \in Seq(Callers) /\ pc \in [Callers -> Stages] /\ holders \in SUBSET Callers
  BY DEF ProviderInv, TypeOK, Mutex!TypeOK
<1>2. count' = count /\ tasks' = tasks /\ ticks' = ticks /\ holders' = holders
  BY DEF mutexVars
<1>3. pc'[c] = stage /\ \A d \in Callers : d # c => pc'[d] = pc[d]
  BY <1>1
<1>4. \A i \in 1..Len(tasks) : tasks[i] \in Callers /\ tasks[i] # c
  BY <1>1 DEF LineOK
<1>5. \A d \in Callers : pc'[d] = "waiting" => d # c /\ pc[d] = "waiting"
  BY <1>3
<1> QED
  BY <1>1, <1>2, <1>3, <1>4, <1>5 DEF LineOK

(* The kinds of the requests, when one request moves *)
LEMMA MoveKeepsKinds ==
  ASSUME ProviderInv, KindsOK, NEW c \in Callers, NEW stage, request' = request,
         pc' = [pc EXCEPT ![c] = stage],
         stage \in Unhandled => pc[c] \in Unhandled,
         stage \in {"init", "process"} => request[c].kind # "object"
  PROVE  KindsOK'
<1>1. pc \in [Callers -> Stages]
  BY DEF ProviderInv, TypeOK
<1>2. pc'[c] = stage /\ \A d \in Callers : d # c => pc'[d] = pc[d]
  BY <1>1
<1> SUFFICES ASSUME NEW d \in Callers
             PROVE  /\ pc'[d] \in Unhandled => request[d].kind # "none"
                    /\ pc'[d] \in {"init", "process"} => request[d].kind # "object"
  BY DEF KindsOK
<1>3. CASE d = c
  BY <1>2, <1>3 DEF KindsOK
<1>4. CASE d # c
  BY <1>2, <1>4 DEF KindsOK
<1> QED
  BY <1>3, <1>4

(* The kinds of the requests, when one caller asks for something else *)
LEMMA AskKeepsKinds ==
  ASSUME ProviderInv, KindsOK, NEW c \in Callers, NEW r, NEW stage,
         request' = [request EXCEPT ![c] = r], pc' = [pc EXCEPT ![c] = stage],
         stage \in Unhandled => r.kind # "none",
         stage \notin {"init", "process"}
  PROVE  KindsOK'
<1>1. pc \in [Callers -> Stages] /\ request \in [Callers -> Request]
  BY DEF ProviderInv, TypeOK
<1>2. /\ pc'[c] = stage /\ request'[c] = r
      /\ \A d \in Callers : d # c => pc'[d] = pc[d] /\ request'[d] = request[d]
  BY <1>1
<1> SUFFICES ASSUME NEW d \in Callers
             PROVE  /\ pc'[d] \in Unhandled => request'[d].kind # "none"
                    /\ pc'[d] \in {"init", "process"} => request'[d].kind # "object"
  BY DEF KindsOK
<1>3. CASE d = c
  BY <1>2, <1>3 DEF KindsOK
<1>4. CASE d # c
  BY <1>2, <1>4 DEF KindsOK
<1> QED
  BY <1>3, <1>4

(* A call of request() *)
LEMMA CallKeepsLine ==
  ASSUME ProviderInv, LineInv, NEW c \in Clients, NEW r, r.kind # "none", Call(c, r)
  PROVE  LineInv'
<1>1. /\ Mutex!Acquire(c) /\ request' = [request EXCEPT ![c] = r]
      /\ pc' = [pc EXCEPT ![c] = "waiting"] /\ c \in Callers
  BY DEF Call, Goto, Callers
<1>2. LineOK'
  BY <1>1, AcquireKeepsLine DEF LineInv
<1>3. KindsOK'
  BY <1>1, AskKeepsKinds, ZenonT(30) DEF LineInv
<1> QED
  BY <1>2, <1>3 DEF LineInv

(* The timeout of a timer *)
LEMMA FireKeepsLine ==
  ASSUME ProviderInv, LineInv, NEW loop \in Loops, Fire(loop[1], loop[2])
  PROVE  LineInv'
<1>1. PICK c \in Callers : c = <<loop[1], loop[2]>>
  BY DEF Loops, Callers
<1>2. CASE UNCHANGED <<mutexVars, request, pc>>
  <2>1. /\ count' = count /\ tasks' = tasks /\ ticks' = ticks /\ holders' = holders
        /\ pc' = pc /\ request' = request
    BY <1>2 DEF mutexVars
  <2> QED
    BY <2>1 DEF LineInv, LineOK, KindsOK
<1>3. CASE /\ Mutex!Acquire(c) /\ request' = [request EXCEPT ![c] = [kind |-> "intervalMine"]]
           /\ pc' = [pc EXCEPT ![c] = "waiting"]
  <2>1. LineOK'
    BY <1>3, AcquireKeepsLine DEF LineInv
  <2>2. [kind |-> "intervalMine"].kind # "none"
    OBVIOUS
  <2>3. KindsOK'
    BY <1>3, <2>2, AskKeepsKinds DEF LineInv
  <2> QED
    BY <2>1, <2>3 DEF LineInv
<1> QED
  BY <1>1, <1>2, <1>3 DEF Fire, Goto

(* A tick *)
LEMMA TickKeepsLine ==
  ASSUME ProviderInv, LineInv, Tick
  PROVE  LineInv'
<1>1. /\ Mutex!Sched(count, holders) /\ ticks > 0 /\ ticks' = ticks - 1
      /\ pc' = pc /\ request' = request
  BY DEF Tick, Mutex!Tick
<1>2. /\ count \in {0, 1} /\ count \in Nat /\ holders \in SUBSET Callers
      /\ count > 0 => holders = {}
      /\ tasks \in Seq(Callers) /\ pc \in [Callers -> Stages] /\ ticks \in Nat
  BY DEF ProviderInv, TypeOK, Mutex!TypeOK, MutexOK
<1>3. ticks' \in Nat
  BY <1>1, <1>2
<1>4. PICK stage \in [Callers -> Stages] : stage = pc
  BY <1>2
<1>5. /\ \A c \in Callers : stage[c] = "waiting" =>
           c \in holders \/ \E i \in 1..Len(tasks) : tasks[i] = c
      /\ \A i \in 1..Len(tasks) : stage[tasks[i]] = "waiting" /\ tasks[i] \notin holders
      /\ \A i, j \in 1..Len(tasks) : tasks[i] = tasks[j] => i = j
      /\ \A c \in holders : stage[c] = "waiting" \/ stage[c] \in Inside
      /\ pc' = stage
  BY <1>1, <1>4 DEF LineInv, LineOK
<1>6. LineOK'
  BY <1>1, <1>2, <1>3, <1>5, SchedKeepsLine
<1>7. KindsOK'
  BY <1>1 DEF LineInv, KindsOK
<1> QED
  BY <1>6, <1>7 DEF LineInv

(* The end of a request *)
LEMMA FinishKeepsLine ==
  ASSUME ProviderInv, LineInv, NEW c \in Callers, Finish(c)
  PROVE  LineInv'
<1>1. /\ pc[c] = "finish" /\ c \in holders /\ Mutex!Release(c)
      /\ request' = [request EXCEPT ![c] = None]
  BY DEF Finish
<1>2. PICK stage \in {"idle", "returned"} : pc' = [pc EXCEPT ![c] = stage]
  BY DEF Finish, Goto
<1>3. Mutex!Sched(count + 1, holders \ {c}) /\ ticks' = ticks
  BY <1>1 DEF Mutex!Release
<1>4. /\ count + 1 \in {0, 1} /\ count + 1 \in Nat /\ holders \ {c} = {}
      /\ tasks \in Seq(Callers) /\ pc \in [Callers -> Stages] /\ ticks' \in Nat
  BY <1>1, <1>3 DEF ProviderInv, TypeOK, Mutex!TypeOK, MutexOK
<1>5. PICK stages \in [Callers -> Stages] : stages = [pc EXCEPT ![c] = stage]
  BY <1>2, <1>4 DEF Stages
<1>6. stages[c] = stage /\ stage # "waiting" /\ \A d \in Callers : d # c => stages[d] = pc[d]
  BY <1>4, <1>5
<1>7. \A i \in 1..Len(tasks) : tasks[i] \in Callers /\ tasks[i] # c /\ pc[tasks[i]] = "waiting"
  BY <1>1, <1>4 DEF LineInv, LineOK
<1>8. /\ \A d \in Callers : stages[d] = "waiting" =>
           d \in holders \ {c} \/ \E i \in 1..Len(tasks) : tasks[i] = d
      /\ \A i \in 1..Len(tasks) : stages[tasks[i]] = "waiting" /\ tasks[i] \notin holders \ {c}
      /\ \A i, j \in 1..Len(tasks) : tasks[i] = tasks[j] => i = j
      /\ \A d \in holders \ {c} : stages[d] = "waiting" \/ stages[d] \in Inside
    BY <1>4, <1>6, <1>7 DEF LineInv, LineOK
<1>9. PICK free \in Nat, owners \in SUBSET Callers : free = count + 1 /\ owners = holders \ {c}
  BY <1>4
<1>10. LineOK'
  <2>1. Mutex!Sched(free, owners) /\ free \in {0, 1} /\ (free > 0 => owners = {})
    BY <1>3, <1>4, <1>9
  <2> QED
    BY <1>2, <1>4, <1>5, <1>8, <1>9, <2>1, SchedKeepsLine
<1>11. KindsOK'
  <2>1. stage \notin Unhandled /\ stage \notin {"init", "process"}
    BY DEF Unhandled
  <2> QED
    BY <1>1, <1>2, <2>1, AskKeepsKinds DEF LineInv
<1> QED
  BY <1>10, <1>11 DEF LineInv

(* The other steps of a request that has the mutex *)
LEMMA HandlerKeepsLine ==
  ASSUME ProviderInv, LineInv, NEW c \in Callers,
         \/ Enter(c) \/ MakeNode(c) \/ FailToMakeNode(c) \/ Process(c)
         \/ SetIntervalMining(c) \/ Reset(c)
  PROVE  LineInv'
<1>1. ASSUME NEW stage, pc' = [pc EXCEPT ![c] = stage], UNCHANGED <<mutexVars, request>>,
             c \in holders, stage \in Inside,
             stage \in {"init", "process"} =>
               pc[c] \in Unhandled /\ request[c].kind # "object"
      PROVE  LineInv'
  <2>1. UNCHANGED mutexVars /\ request' = request /\ stage # "waiting"
    BY <1>1 DEF Inside
  <2>2. LineOK'
    BY <1>1, <2>1, MoveKeepsLine DEF LineInv
  <2>3. stage \in Unhandled => pc[c] \in Unhandled
    BY <1>1, <2>1 DEF Unhandled
  <2>4. KindsOK'
    BY <1>1, <2>1, <2>3, MoveKeepsKinds DEF LineInv
  <2> QED
    BY <2>2, <2>4 DEF LineInv
<1>2. pc[c] \in Inside => c \in holders
  BY DEF ProviderInv, RequestsOK
<1>3. CASE Enter(c)
  <2>1. PICK stage : stage = IF request[c].kind = "object" THEN "lost"
                             ELSE IF node # 0 THEN "process" ELSE "init"
    OBVIOUS
  <2>2. /\ c \in holders /\ pc[c] = "waiting" /\ pc' = [pc EXCEPT ![c] = stage]
        /\ UNCHANGED <<mutexVars, request>>
    BY <1>3, <2>1 DEF Enter, Goto
  <2>3. stage \in Inside /\ pc[c] \in Unhandled
        /\ (stage \in {"init", "process"} => request[c].kind # "object")
    BY <2>1, <2>2 DEF Inside, Unhandled
  <2> QED
    BY <1>1, <2>2, <2>3
<1>4. CASE MakeNode(c)
  <2>1. PICK stage : stage = IF pc[c] = "init" THEN "process" ELSE "finish"
    OBVIOUS
  <2>2. /\ pc[c] \in {"init", "reinit"} /\ pc' = [pc EXCEPT ![c] = stage]
        /\ UNCHANGED <<mutexVars, request>>
    BY <1>4, <2>1 DEF MakeNode, Goto
  <2>3. c \in holders /\ stage \in Inside
    BY <1>2, <2>1, <2>2 DEF Inside
  <2>4. stage \in {"init", "process"} => pc[c] \in Unhandled /\ request[c].kind # "object"
    BY <2>1 DEF LineInv, KindsOK, Unhandled
  <2> QED
    BY <1>1, <2>2, <2>3, <2>4
<1>5. CASE FailToMakeNode(c)
  <2>1. pc[c] \in Inside /\ pc' = [pc EXCEPT ![c] = "finish"] /\ UNCHANGED <<mutexVars, request>>
    BY <1>5 DEF FailToMakeNode, Goto, Inside
  <2> QED
    BY <1>1, <1>2, <2>1 DEF Inside
<1>6. CASE Process(c)
  <2>1. pc[c] \in Inside /\ pc' = [pc EXCEPT ![c] = "finish"] /\ UNCHANGED <<mutexVars, request>>
    BY <1>6 DEF Process, Goto, Inside
  <2> QED
    BY <1>1, <1>2, <2>1 DEF Inside
<1>7. CASE SetIntervalMining(c)
  <2>1. pc[c] \in Inside /\ pc' = [pc EXCEPT ![c] = "finish"] /\ UNCHANGED <<mutexVars, request>>
    BY <1>7 DEF SetIntervalMining, Goto, Inside
  <2> QED
    BY <1>1, <1>2, <2>1 DEF Inside
<1>8. CASE Reset(c)
  <2>1. pc[c] \in Inside /\ pc' = [pc EXCEPT ![c] = "reinit"] /\ UNCHANGED <<mutexVars, request>>
    BY <1>8 DEF Reset, Goto, Inside
  <2> QED
    BY <1>1, <1>2, <2>1 DEF Inside
<1> QED
  BY <1>3, <1>4, <1>5, <1>6, <1>7, <1>8

(* The loop of a timer goes on *)
LEMMA LoopKeepsLine ==
  ASSUME ProviderInv, LineInv, NEW loop \in Loops, LoopContinues(loop[1], loop[2])
  PROVE  LineInv'
<1>1. PICK c \in Callers : c = <<loop[1], loop[2]>>
  BY DEF Loops, Callers
<1>2. /\ pc[c] = "returned" /\ pc' = [pc EXCEPT ![c] = "idle"]
      /\ UNCHANGED mutexVars /\ request' = request
  BY <1>1 DEF LoopContinues, Goto
<1>3. c \notin holders
  BY <1>2 DEF LineInv, LineOK, Inside
<1>4. LineOK'
  BY <1>2, <1>3, MoveKeepsLine DEF LineInv
<1>5. KindsOK'
  BY <1>2, MoveKeepsKinds DEF LineInv, Unhandled
<1> QED
  BY <1>4, <1>5 DEF LineInv

(* Every step keeps the line. *)
LEMMA LineNextPreserves ==
  ASSUME ProviderInv, LineInv, [Next]_vars
  PROVE  LineInv'
<1>1. CASE UNCHANGED vars
  <2>1. /\ count' = count /\ tasks' = tasks /\ ticks' = ticks /\ holders' = holders
        /\ pc' = pc /\ request' = request
    BY <1>1 DEF vars, mutexVars
  <2> QED
    BY <2>1 DEF LineInv, LineOK, KindsOK
<1>2. ASSUME NEW c \in Clients, NEW kind \in {"other", "object"}, Call(c, [kind |-> kind])
      PROVE  LineInv'
  <2>1. [kind |-> kind].kind # "none"
    OBVIOUS
  <2> QED
    BY <1>2, <2>1, CallKeepsLine
<1>3. ASSUME NEW c \in Clients, NEW blockTime \in BlockTimes,
             Call(c, [kind |-> "setInterval", blockTime |-> blockTime])
      PROVE  LineInv'
  <2>1. [kind |-> "setInterval", blockTime |-> blockTime].kind # "none"
    OBVIOUS
  <2> QED
    BY <1>3, <2>1, CallKeepsLine
<1>4. ASSUME NEW c \in Clients, NEW fork \in Forks, Call(c, [kind |-> "reset", fork |-> fork])
      PROVE  LineInv'
  <2>1. [kind |-> "reset", fork |-> fork].kind # "none"
    OBVIOUS
  <2> QED
    BY <1>4, <2>1, CallKeepsLine
<1>5. ASSUME NEW c \in Callers, Advance(c) PROVE LineInv'
  BY <1>5, FinishKeepsLine, HandlerKeepsLine DEF Advance
<1>6. ASSUME NEW loop \in Loops, Fire(loop[1], loop[2]) \/ LoopContinues(loop[1], loop[2])
      PROVE  LineInv'
  BY <1>6, FireKeepsLine, LoopKeepsLine
<1>7. CASE Tick
  BY <1>7, TickKeepsLine
<1> QED
  BY <1>1, <1>2, <1>3, <1>4, <1>5, <1>6, <1>7 DEF Next

(* A request whose next step can be taken: its await has nothing to wait   *)
(* for but the handler or the creation of the node.                        *)
CanAdvance(c) ==
  \/ pc[c] \in {"waiting", "finish"} /\ c \in holders
  \/ pc[c] \in {"init", "reinit"} /\ (forkConfig \in Reachable \/ forkConfig # NoFork)
  \/ pc[c] = "process" /\ request[c].kind \in {"other", "intervalMine", "setInterval", "reset"}

(* While a request waits for the mutex, a tick is queued that will find    *)
(* the mutex free, or the request that has the mutex can go on.  The one   *)
(* exception is a request whose params are an object: it threw before the  *)
(* try block of request() and never releases.                              *)
OnlyLostRequestsBlock ==
  (\E c \in Callers : pc[c] = "waiting") =>
    \/ count > 0 /\ ticks > 0
    \/ \E d \in holders : CanAdvance(d) \/ pc[d] = "lost"

(* In every reachable state of the provider nothing but a request that was *)
(* lost keeps the other requests from being served.                        *)
THEOREM RequestsAreNotStuck == Spec => []OnlyLostRequestsBlock
<1>1. Init => LineInv
  <2> SUFFICES ASSUME Init PROVE LineInv
    OBVIOUS
  <2>1. /\ count = 1 /\ tasks = <<>> /\ ticks = 0 /\ holders = {}
        /\ pc = [c \in Callers |-> "idle"] /\ request = [c \in Callers |-> None]
    BY DEF Init, Mutex!Init
  <2>2. Len(tasks) = 0 /\ \A c \in Callers : pc[c] = "idle"
    BY <2>1
  <2> QED
    BY <2>1, <2>2 DEF LineInv, LineOK, KindsOK, Unhandled
<1>2. ProviderInv /\ LineInv /\ [Next]_vars => LineInv'
  BY LineNextPreserves
<1>3. ProviderInv /\ LineInv => OnlyLostRequestsBlock
  <2> SUFFICES ASSUME ProviderInv, LineInv, NEW c \in Callers, pc[c] = "waiting"
               PROVE  \/ count > 0 /\ ticks > 0
                      \/ \E d \in holders : CanAdvance(d) \/ pc[d] = "lost"
    BY DEF OnlyLostRequestsBlock
  <2>1. CASE count = 1 /\ holders = {}
    <3>1. PICK i \in 1..Len(tasks) : tasks[i] = c
      BY <2>1 DEF LineInv, LineOK
    <3>2. tasks # <<>>
      <4> SUFFICES ASSUME tasks = <<>> PROVE FALSE
        OBVIOUS
      <4>1. Len(tasks) = 0
        OBVIOUS
      <4> QED
        BY <3>1, <4>1
    <3> QED
      BY <2>1, <3>2 DEF LineInv, LineOK
  <2>2. ASSUME NEW d \in Callers, holders = {d}
        PROVE  CanAdvance(d) \/ pc[d] = "lost"
    <3>1. pc[d] = "waiting" \/ pc[d] \in Inside
      BY <2>2 DEF LineInv, LineOK
    <3>2. request[d] \in Request
      BY DEF ProviderInv, TypeOK
    <3>3. CASE pc[d] \in {"waiting", "finish"}
      BY <2>2, <3>3 DEF CanAdvance
    <3>4. CASE pc[d] \in {"init", "reinit"}
      BY <3>4, ForksAssumption DEF CanAdvance
    <3>5. CASE pc[d] = "process"
      <4>1. request[d].kind # "none" /\ request[d].kind # "object"
        BY <3>5 DEF LineInv, KindsOK, Unhandled
      <4>2. request[d].kind \in {"none", "other", "object", "intervalMine", "setInterval", "reset"}
        BY <3>2 DEF Request
      <4> QED
        BY <3>5, <4>1, <4>2 DEF CanAdvance
    <3> QED
      BY <3>1, <3>3, <3>4, <3>5 DEF Inside
  <2> QED
    BY <2>1, <2>2 DEF ProviderInv, MutexOK
<1>4. Spec => []LineInv
  BY <1>1, <1>2, ProviderInvariance, PTL DEF Spec
<1> QED
  BY <1>3, <1>4, ProviderInvariance, PTL

=============================================================================
