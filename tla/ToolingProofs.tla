--------------------------- MODULE ToolingProofs ---------------------------
(* Proofs about the fixtures of tests (Fixtures), for any number of        *)
(* fixtures, states, blocks, snapshots and resets, and about the compile   *)
(* task (Compilation), for any files, imports, contents, contracts and     *)
(* configs and any number of edits, failures and crashes.                  *)
EXTENDS Fixtures, Compilation, SequenceTheorems, TLAPS

(* A prefix of a sequence *)
LEMMA PrefixFacts ==
  ASSUME NEW S, NEW s \in Seq(S), NEW n \in 0..Len(s)
  PROVE  /\ SubSeq(s, 1, n) \in Seq(S)
         /\ Len(SubSeq(s, 1, n)) = n
         /\ DOMAIN SubSeq(s, 1, n) = 1..n
         /\ \A i \in 1..n : SubSeq(s, 1, n)[i] = s[i]
<1>1. \A i \in 1..n : s[i] \in S
  OBVIOUS
<1>2. /\ SubSeq(s, 1, n) \in Seq(S)
      /\ Len(SubSeq(s, 1, n)) = IF 1 <= n THEN n - 1 + 1 ELSE 0
      /\ \A i \in 1..(n - 1 + 1) : SubSeq(s, 1, n)[i] = s[1 + i - 1]
  BY <1>1, SubSeqProperties
<1> QED
  BY <1>2

-----------------------------------------------------------------------------
(* The inductive invariant *)

(* The ids of the node's snapshots grow, and are below the next one; each  *)
(* snapshot remembers the first block at least.                            *)
SnapshotsOK ==
  /\ \A i \in DOMAIN taken : taken[i].shown # <<>>
  /\ \A i \in DOMAIN taken : taken[i].id < nextSnapshotId
  /\ \A i, j \in DOMAIN taken : i < j => taken[i].id < taken[j].id

(* An entry made since the last reset keeps an id that was given since     *)
(* then, and when a snapshot has that id, it is the entry's own.           *)
EntriesOK ==
  \A e \in fixtures :
    /\ e.resets <= resets
    /\ e.resets = resets =>
         /\ e.created <= e.current
         /\ e.current < nextSnapshotId
         /\ \A i \in DOMAIN taken : taken[i].id = e.current => taken[i].shown = e.left

(* Between the revert and the new snapshot of restore(), the network is in *)
(* the state that the fixture left.                                        *)
RestoringOK ==
  restoring # <<>> =>
    /\ restoring[1] \in fixtures
    /\ restoring[1].resets = resets => shown = restoring[1].left

(* While the tests do not revert or reset the network: the entries were    *)
(* made and renewed in the same order, so those that are not newer than    *)
(* the restored one are exactly those whose snapshots a revert spares.     *)
OrderOK ==
  /\ \A e \in fixtures : e.resets = resets
  /\ \A d, e \in fixtures : d # e => d.created # e.created
  /\ \A d, e \in fixtures : d.created < e.created => d.current < e.current
  /\ \A e \in fixtures :
       (restoring = <<>> \/ e.created < restoring[1].created) => SnapshotOf(e) # {}

IInv ==
  /\ FixturesTypeOK
  /\ SnapshotsOK
  /\ EntriesOK
  /\ RestoringOK
  /\ ~disturbed => OrderOK

(* The fields of an entry *)
LEMMA EntryFields ==
  ASSUME fixtures \subseteq LoadedFixture, NEW e \in fixtures
  PROVE  /\ e.created \in Nat /\ e.current \in Nat /\ e.resets \in Nat
         /\ e.left \in Seq(Roots) /\ e.fixture \in FixtureFns
<1>1. e \in LoadedFixture
  OBVIOUS
<1> QED
  BY <1>1 DEF LoadedFixture

(* The fields of a snapshot of the node *)
LEMMA TakenFields ==
  ASSUME taken \in Seq(StoreSnapshot), NEW i \in DOMAIN taken
  PROVE  /\ taken[i] \in StoreSnapshot /\ taken[i].id \in Nat /\ taken[i].shown \in Seq(Roots)
         /\ i \in 1..Len(taken)
<1>1. taken[i] \in StoreSnapshot /\ i \in 1..Len(taken)
  OBVIOUS
<1> QED
  BY <1>1 DEF StoreSnapshot

(* Nothing is loaded at first. *)
LEMMA InitEstablishes == FixturesInit => IInv
<1> SUFFICES ASSUME FixturesInit PROVE IInv
  OBVIOUS
<1> USE DEF FixturesInit, StoreInit
<1>1. taken \in Seq(StoreSnapshot) /\ DOMAIN taken = {} /\ nextSnapshotId \in Nat
  OBVIOUS
<1>2. shown \in Seq(Roots) /\ shown # <<>>
  BY GenesisAssumption
<1>3. /\ running \in Seq(FixtureFns) /\ restoring \in Seq(LoadedFixture) /\ Len(restoring) <= 1
      /\ resets \in Nat /\ fixtures \subseteq LoadedFixture
  OBVIOUS
<1>0. disturbed \in BOOLEAN
  OBVIOUS
<1>4. FixturesTypeOK
  BY <1>0, <1>1, <1>2, <1>3 DEF FixturesTypeOK, StoreTypeOK
<1>5. SnapshotsOK /\ EntriesOK /\ RestoringOK /\ OrderOK
  BY <1>1 DEF SnapshotsOK, EntriesOK, RestoringOK, OrderOK
<1> QED
  BY <1>4, <1>5 DEF IInv

(* A new snapshot gets an id above all others. *)
LEMMA TakeAdds ==
  ASSUME StoreTypeOK, SnapshotsOK, Take
  PROVE  /\ StoreTypeOK' /\ SnapshotsOK' /\ shown' = shown /\ nextSnapshotId' = nextSnapshotId + 1
         /\ DOMAIN taken' = 1..(Len(taken) + 1) /\ DOMAIN taken = 1..Len(taken)
         /\ Len(taken) \in Nat
         /\ \A i \in 1..Len(taken) : taken'[i] = taken[i]
         /\ taken'[Len(taken) + 1] = [id |-> nextSnapshotId, shown |-> shown]
<1> DEFINE s == [id |-> nextSnapshotId, shown |-> shown]
           k == Len(taken)
<1>1. /\ taken' = Append(taken, s) /\ nextSnapshotId' = nextSnapshotId + 1 /\ shown' = shown
  BY DEF Take
<1>2. s \in StoreSnapshot /\ s.id = nextSnapshotId
  BY DEF StoreSnapshot, StoreTypeOK
<1> HIDE DEF s
<1>3. /\ taken' \in Seq(StoreSnapshot) /\ k \in Nat /\ DOMAIN taken' = 1..(k + 1)
      /\ DOMAIN taken = 1..k /\ taken'[k + 1] = s
      /\ \A i \in 1..k : taken'[i] = taken[i]
  BY <1>1, <1>2 DEF StoreTypeOK
<1> HIDE DEF k
<1>4. StoreTypeOK'
  BY <1>1, <1>3 DEF StoreTypeOK
<1>5. \A i \in 1..k : taken[i].id \in Nat /\ taken[i].id < nextSnapshotId
  BY <1>3, TakenFields DEF SnapshotsOK, StoreTypeOK
<1>6. SnapshotsOK'
  <2>1. \A i \in 1..(k + 1) : taken'[i].id < nextSnapshotId'
    <3>1. \A i \in 1..k : taken'[i].id < nextSnapshotId + 1
      BY <1>3, <1>5 DEF StoreTypeOK
    <3>2. taken'[k + 1].id < nextSnapshotId + 1
      BY <1>2, <1>3 DEF StoreTypeOK
    <3>3. \A i \in 1..(k + 1) : i \in 1..k \/ i = k + 1
      BY <1>3
    <3> QED
      BY <1>1, <3>1, <3>2, <3>3
  <2>2. ASSUME NEW i \in 1..(k + 1), NEW j \in 1..(k + 1), i < j
        PROVE  taken'[i].id < taken'[j].id
    <3>1. i \in 1..k /\ (j \in 1..k \/ j = k + 1)
      BY <1>3, <2>2
    <3> QED
      BY <1>2, <1>3, <1>5, <2>2, <3>1 DEF SnapshotsOK
  <2>3. \A i \in 1..(k + 1) : taken'[i].shown # <<>>
    <3>1. \A i \in 1..(k + 1) : i \in 1..k \/ i = k + 1
      BY <1>3
    <3>2. s.shown # <<>>
      BY DEF s, StoreTypeOK
    <3> QED
      BY <1>3, <3>1, <3>2 DEF SnapshotsOK
  <2> QED
    BY <1>3, <2>1, <2>2, <2>3 DEF SnapshotsOK
<1> QED
  BY <1>1, <1>3, <1>4, <1>6 DEF s, k

(* A revert keeps the snapshots with smaller ids, and no others. *)
LEMMA RestoreKeeps ==
  ASSUME StoreTypeOK, SnapshotsOK, NEW i \in DOMAIN taken, Restore(i)
  PROVE  /\ StoreTypeOK' /\ SnapshotsOK' /\ shown' = taken[i].shown /\ nextSnapshotId' = nextSnapshotId
         /\ DOMAIN taken' = 1..(i - 1)
         /\ \A j \in 1..(i - 1) : taken'[j] = taken[j] /\ j \in DOMAIN taken
         /\ \A j \in DOMAIN taken : taken[j].id < taken[i].id <=> j \in 1..(i - 1)
<1>1. /\ taken' = SubSeq(taken, 1, i - 1) /\ nextSnapshotId' = nextSnapshotId
      /\ shown' = taken[i].shown
  BY DEF Restore
<1>2. taken \in Seq(StoreSnapshot) /\ i \in 1..Len(taken) /\ DOMAIN taken = 1..Len(taken)
  BY DEF StoreTypeOK
<1>3. /\ taken' \in Seq(StoreSnapshot) /\ DOMAIN taken' = 1..(i - 1)
      /\ \A j \in 1..(i - 1) : taken'[j] = taken[j] /\ j \in DOMAIN taken
  <2>1. i - 1 \in 0..Len(taken) /\ \A j \in 1..(i - 1) : j \in DOMAIN taken
    BY <1>2
  <2> QED
    BY <1>1, <1>2, <2>1, PrefixFacts
<1>4. StoreTypeOK'
  BY <1>1, <1>2, <1>3, TakenFields DEF StoreTypeOK, SnapshotsOK
<1>5. SnapshotsOK'
  BY <1>1, <1>3 DEF SnapshotsOK
<1>6. ASSUME NEW j \in DOMAIN taken
      PROVE  taken[j].id < taken[i].id <=> j \in 1..(i - 1)
  <2>1. taken[j].id \in Nat /\ taken[i].id \in Nat
    BY <1>2, TakenFields
  <2>2. j < i => taken[j].id < taken[i].id
    BY DEF SnapshotsOK
  <2>3. i < j => taken[i].id < taken[j].id
    BY DEF SnapshotsOK
  <2> QED
    BY <1>2, <2>1, <2>2, <2>3
<1> QED
  BY <1>1, <1>3, <1>4, <1>5, <1>6

-----------------------------------------------------------------------------
(* loadFixture *)

(* A fixture that starts to run changes nothing yet. *)
LEMMA RunFixtureKeeps ==
  ASSUME IInv, NEW f \in FixtureFns, RunFixture(f)
  PROVE  IInv'
<1>1. /\ shown' = shown /\ taken' = taken /\ nextSnapshotId' = nextSnapshotId
      /\ fixtures' = fixtures /\ restoring' = restoring /\ resets' = resets
      /\ disturbed' = disturbed /\ running' = Append(running, f)
  BY DEF RunFixture, storeVars
<1>2. FixturesTypeOK'
  BY <1>1 DEF IInv, FixturesTypeOK, StoreTypeOK
<1> QED
  BY <1>1, <1>2 DEF IInv, SnapshotsOK, EntriesOK, RestoringOK, OrderOK, SnapshotOf

(* A snapshot taken while no restore() is under way leaves the entries as  *)
(* they are: its id is none of theirs.                                     *)
LEMMA TakeKeepsEntries ==
  ASSUME IInv, Take, resets' = resets
  PROVE  \A e \in fixtures :
           /\ e.resets <= resets'
           /\ e.resets = resets =>
                /\ e.created <= e.current
                /\ e.current < nextSnapshotId'
                /\ \A i \in DOMAIN taken' : taken'[i].id = e.current => taken'[i].shown = e.left
           /\ SnapshotOf(e) # {} => SnapshotOf(e)' # {}
<1> SUFFICES ASSUME NEW e \in fixtures
             PROVE  /\ e.resets <= resets'
                    /\ e.resets = resets =>
                         /\ e.created <= e.current
                         /\ e.current < nextSnapshotId'
                         /\ \A i \in DOMAIN taken' :
                              taken'[i].id = e.current => taken'[i].shown = e.left
                    /\ SnapshotOf(e) # {} => SnapshotOf(e)' # {}
  OBVIOUS
<1>1. /\ nextSnapshotId' = nextSnapshotId + 1 /\ nextSnapshotId \in Nat
      /\ DOMAIN taken' = 1..(Len(taken) + 1) /\ DOMAIN taken = 1..Len(taken)
      /\ Len(taken) \in Nat
      /\ \A i \in 1..Len(taken) : taken'[i] = taken[i]
      /\ taken'[Len(taken) + 1] = [id |-> nextSnapshotId, shown |-> shown]
  BY TakeAdds DEF IInv, FixturesTypeOK, StoreTypeOK
<1>2. e.created \in Nat /\ e.current \in Nat
  BY EntryFields DEF IInv, FixturesTypeOK
<1>3. ASSUME e.resets = resets, NEW i \in DOMAIN taken', taken'[i].id = e.current
      PROVE  taken'[i].shown = e.left
  <2>1. i # Len(taken) + 1
    BY <1>1, <1>2, <1>3 DEF IInv, EntriesOK
  <2>2. i \in 1..Len(taken)
    BY <1>1, <2>1
  <2> QED
    BY <1>1, <1>3, <2>2 DEF IInv, EntriesOK
<1>4. e.resets = resets => e.created <= e.current /\ e.current < nextSnapshotId'
  BY <1>1, <1>2 DEF IInv, EntriesOK
<1>5. ASSUME NEW i \in SnapshotOf(e) PROVE i \in SnapshotOf(e)'
  BY <1>1 DEF SnapshotOf
<1>6. e.resets <= resets'
  BY DEF IInv, EntriesOK
<1> QED
  BY <1>3, <1>4, <1>5, <1>6

(* The entry of a fixture that has run is the newest one. *)
LEMMA FinishFixtureKeeps ==
  ASSUME IInv, restoring = <<>>, FinishFixture
  PROVE  IInv'
<1> DEFINE new == [fixture |-> running[Len(running)], created |-> nextSnapshotId,
                   current |-> nextSnapshotId, left |-> shown, resets |-> resets]
<1>1. /\ Take /\ fixtures' = fixtures \cup {new} /\ running # <<>>
      /\ running' = SubSeq(running, 1, Len(running) - 1)
      /\ restoring' = restoring /\ resets' = resets /\ disturbed' = disturbed
  BY DEF FinishFixture
<1>2. /\ StoreTypeOK /\ SnapshotsOK /\ fixtures \subseteq LoadedFixture
      /\ running \in Seq(FixtureFns) /\ resets \in Nat /\ nextSnapshotId \in Nat
      /\ shown \in Seq(Roots)
  BY DEF IInv, FixturesTypeOK, StoreTypeOK
<1>3. /\ StoreTypeOK' /\ SnapshotsOK' /\ nextSnapshotId' = nextSnapshotId + 1
      /\ DOMAIN taken' = 1..(Len(taken) + 1) /\ Len(taken) \in Nat
      /\ DOMAIN taken = 1..Len(taken)
      /\ \A i \in 1..Len(taken) : taken'[i] = taken[i]
      /\ taken'[Len(taken) + 1] = [id |-> nextSnapshotId, shown |-> shown]
  BY <1>1, <1>2, TakeAdds
<1>4. new \in LoadedFixture
  <2>1. running[Len(running)] \in FixtureFns
    BY <1>1, <1>2
  <2> QED
    BY <1>2, <2>1 DEF LoadedFixture
<1>5. /\ new.created = nextSnapshotId /\ new.current = nextSnapshotId
      /\ new.left = shown /\ new.resets = resets
  OBVIOUS
<1> HIDE DEF new
<1>6. FixturesTypeOK'
  <2>1. running' \in Seq(FixtureFns)
    <3>1. Len(running) - 1 \in 0..Len(running)
      BY <1>1, <1>2
    <3> QED
      BY <1>1, <1>2, <3>1, PrefixFacts
  <2> QED
    BY <1>1, <1>2, <1>3, <1>4, <2>1 DEF IInv, FixturesTypeOK
<1>7. \A i \in DOMAIN taken' : taken'[i].id = nextSnapshotId => taken'[i].shown = shown
  <2>1. \A i \in 1..Len(taken) : taken'[i].id # nextSnapshotId
    BY <1>2, <1>3, TakenFields DEF SnapshotsOK, StoreTypeOK
  <2> QED
    BY <1>3, <2>1
<1>8. EntriesOK'
  BY <1>1, <1>2, <1>3, <1>5, <1>7, TakeKeepsEntries DEF EntriesOK
<1>9. RestoringOK'
  BY <1>1 DEF RestoringOK
<1>10. ASSUME ~disturbed PROVE OrderOK'
  <2>1. OrderOK
    BY <1>10 DEF IInv
  <2>2. \A e \in fixtures : /\ e.created \in Nat /\ e.current \in Nat
                            /\ e.created < nextSnapshotId /\ e.current < nextSnapshotId
    BY <1>2, <2>1, EntryFields DEF IInv, EntriesOK, OrderOK
  <2>3. ASSUME NEW e \in {new} PROVE SnapshotOf(e)' # {}
    <3>1. Len(taken) + 1 \in DOMAIN taken' /\ taken'[Len(taken) + 1].id = nextSnapshotId
      BY <1>3
    <3> QED
      BY <1>5, <3>1 DEF SnapshotOf
  <2>4. ASSUME NEW e \in fixtures PROVE SnapshotOf(e)' # {}
    BY <1>1, <2>1, TakeKeepsEntries DEF OrderOK
  <2>5. \A e \in fixtures' : e.resets = resets' /\ SnapshotOf(e)' # {}
    BY <1>1, <1>5, <2>1, <2>3, <2>4 DEF OrderOK
  <2>6. \A d, e \in fixtures' : d # e => d.created # e.created
    BY <1>1, <1>2, <1>5, <2>1, <2>2 DEF OrderOK
  <2>7. \A d, e \in fixtures' : d.created < e.created => d.current < e.current
    BY <1>1, <1>2, <1>5, <2>1, <2>2 DEF OrderOK
  <2> QED
    BY <2>5, <2>6, <2>7 DEF OrderOK
<1> QED
  BY <1>1, <1>3, <1>6, <1>8, <1>9, <1>10 DEF IInv

(* A revert leaves the entries their own snapshots, if any, and spares     *)
(* those with smaller ids than the one that is reverted to.                *)
LEMMA RestoreKeepsEntries ==
  ASSUME IInv, NEW i \in DOMAIN taken, Restore(i), resets' = resets
  PROVE  \A e \in fixtures :
           /\ e.resets <= resets'
           /\ e.resets = resets =>
                /\ e.created <= e.current
                /\ e.current < nextSnapshotId'
                /\ \A j \in DOMAIN taken' : taken'[j].id = e.current => taken'[j].shown = e.left
           /\ SnapshotOf(e) # {} /\ e.current < taken[i].id => SnapshotOf(e)' # {}
<1>1. /\ nextSnapshotId' = nextSnapshotId /\ DOMAIN taken' = 1..(i - 1)
      /\ \A j \in 1..(i - 1) : taken'[j] = taken[j] /\ j \in DOMAIN taken
      /\ \A j \in DOMAIN taken : taken[j].id < taken[i].id <=> j \in 1..(i - 1)
  BY RestoreKeeps DEF IInv, FixturesTypeOK
<1> SUFFICES ASSUME NEW e \in fixtures
             PROVE  /\ e.resets <= resets'
                    /\ e.resets = resets =>
                         /\ e.created <= e.current
                         /\ e.current < nextSnapshotId'
                         /\ \A j \in DOMAIN taken' :
                              taken'[j].id = e.current => taken'[j].shown = e.left
                    /\ SnapshotOf(e) # {} /\ e.current < taken[i].id => SnapshotOf(e)' # {}
  OBVIOUS
<1>2. ASSUME NEW j \in SnapshotOf(e), e.current < taken[i].id PROVE j \in SnapshotOf(e)'
  BY <1>1, <1>2 DEF SnapshotOf
<1> QED
  BY <1>1, <1>2 DEF IInv, EntriesOK

(* The revert of restore() puts the network in the state that the fixture  *)
(* left, unless the entry is from before a reset.                          *)
LEMMA RestoreFixtureKeeps ==
  ASSUME IInv, restoring = <<>>, NEW e \in fixtures, RestoreFixture(e)
  PROVE  IInv'
<1>1. PICK i \in DOMAIN taken : taken[i].id = e.current /\ Restore(i)
  BY DEF RestoreFixture
<1>2. /\ restoring' = <<e>> /\ fixtures' = fixtures /\ running' = running
      /\ resets' = resets /\ disturbed' = disturbed
  BY DEF RestoreFixture
<1>3. /\ StoreTypeOK' /\ SnapshotsOK' /\ shown' = taken[i].shown
      /\ nextSnapshotId' = nextSnapshotId
  BY <1>1, RestoreKeeps DEF IInv, FixturesTypeOK
<1>4. restoring' \in Seq(LoadedFixture) /\ Len(restoring') = 1 /\ restoring'[1] = e
  <2>1. e \in LoadedFixture
    BY DEF IInv, FixturesTypeOK
  <2> QED
    BY <1>2, <2>1
<1>5. FixturesTypeOK'
  BY <1>2, <1>3, <1>4 DEF IInv, FixturesTypeOK
<1>6. EntriesOK'
  BY <1>1, <1>2, RestoreKeepsEntries DEF EntriesOK
<1>7. RestoringOK'
  BY <1>1, <1>2, <1>3, <1>4 DEF RestoringOK, IInv, EntriesOK
<1>8. ASSUME ~disturbed PROVE OrderOK'
  <2>1. OrderOK
    BY <1>8 DEF IInv
  <2>2. ASSUME NEW d \in fixtures, d.created < e.created PROVE SnapshotOf(d)' # {}
    <3>1. d.current < taken[i].id /\ SnapshotOf(d) # {}
      BY <1>1, <2>1, <2>2 DEF OrderOK
    <3> QED
      BY <1>1, <1>2, <3>1, RestoreKeepsEntries
  <2>3. restoring' # <<>>
    BY <1>2
  <2>4. \A d \in fixtures' :
          (restoring' = <<>> \/ d.created < restoring'[1].created) => SnapshotOf(d)' # {}
    BY <1>2, <1>4, <2>2, <2>3
  <2> QED
    BY <1>2, <2>1, <2>4 DEF OrderOK
<1> QED
  BY <1>2, <1>3, <1>5, <1>6, <1>7, <1>8 DEF IInv

(* The end of restore(): the renewed entry is the newest one, and those    *)
(* that were newer are forgotten.                                          *)
LEMMA RetakeSnapshotKeeps ==
  ASSUME IInv, RetakeSnapshot
  PROVE  IInv'
<1> DEFINE r == restoring[1]
           new == [r EXCEPT !.current = nextSnapshotId]
<1>1. /\ Take /\ restoring # <<>> /\ restoring' = <<>> /\ running' = running
      /\ resets' = resets /\ disturbed' = disturbed
      /\ fixtures' = KeptFixtures(Renewed(fixtures, r), r)
  BY DEF RetakeSnapshot
<1>2. /\ StoreTypeOK /\ SnapshotsOK /\ fixtures \subseteq LoadedFixture
      /\ resets \in Nat /\ nextSnapshotId \in Nat /\ shown \in Seq(Roots)
  BY DEF IInv, FixturesTypeOK, StoreTypeOK
<1>3. /\ StoreTypeOK' /\ SnapshotsOK' /\ nextSnapshotId' = nextSnapshotId + 1
      /\ DOMAIN taken' = 1..(Len(taken) + 1) /\ Len(taken) \in Nat
      /\ DOMAIN taken = 1..Len(taken)
      /\ \A i \in 1..Len(taken) : taken'[i] = taken[i]
      /\ taken'[Len(taken) + 1] = [id |-> nextSnapshotId, shown |-> shown]
  BY <1>1, <1>2, TakeAdds
<1>4. r \in fixtures /\ r \in LoadedFixture /\ (r.resets = resets => shown = r.left)
  BY <1>1, <1>2 DEF IInv, RestoringOK
<1>5. /\ new \in LoadedFixture
      /\ new.created = r.created /\ new.current = nextSnapshotId
      /\ new.left = r.left /\ new.resets = r.resets
  BY <1>2, <1>4 DEF LoadedFixture
<1>6. r.created \in Nat /\ r.current \in Nat
  BY <1>2, <1>4, EntryFields
<1> HIDE DEF new
<1>7. \A e \in fixtures' : e = new \/ (e \in fixtures /\ e # r /\ e.created <= r.created)
  BY <1>1 DEF KeptFixtures, Renewed, new
<1> HIDE DEF r
<1>8. FixturesTypeOK'
  <2>1. fixtures' \subseteq LoadedFixture
    BY <1>2, <1>5, <1>7
  <2>2. restoring' \in Seq(LoadedFixture) /\ Len(restoring') <= 1
    BY <1>1
  <2> QED
    BY <1>1, <1>3, <2>1, <2>2 DEF IInv, FixturesTypeOK
<1>9. \A i \in DOMAIN taken' : taken'[i].id = nextSnapshotId => taken'[i].shown = shown
  <2>1. \A i \in 1..Len(taken) : taken'[i].id # nextSnapshotId
    BY <1>2, <1>3, TakenFields DEF SnapshotsOK, StoreTypeOK
  <2> QED
    BY <1>3, <2>1
<1>10. EntriesOK'
  <2>1. ASSUME new.resets = resets
        PROVE  /\ new.created <= new.current /\ new.current < nextSnapshotId'
               /\ \A i \in DOMAIN taken' : taken'[i].id = new.current => taken'[i].shown = new.left
    <3>1. r.created <= r.current /\ r.current < nextSnapshotId
      BY <1>4, <1>5, <2>1 DEF IInv, EntriesOK
    <3> QED
      BY <1>2, <1>3, <1>4, <1>5, <1>6, <1>9, <2>1, <3>1
  <2>2. new.resets <= resets'
    BY <1>1, <1>4, <1>5 DEF IInv, EntriesOK
  <2> QED
    BY <1>1, <1>7, <2>1, <2>2, TakeKeepsEntries DEF EntriesOK
<1>11. RestoringOK'
  BY <1>1 DEF RestoringOK
<1>12. ASSUME ~disturbed PROVE OrderOK'
  <2>1. OrderOK
    BY <1>12 DEF IInv
  <2>2. \A e \in fixtures : /\ e.created \in Nat /\ e.current \in Nat
                            /\ e.current < nextSnapshotId
    BY <1>2, <2>1, EntryFields DEF IInv, EntriesOK, OrderOK
  <2>3. \A e \in fixtures : e # r => e.created # r.created
    BY <1>4, <2>1 DEF OrderOK
  <2>4. \A e \in fixtures' : e # new => e \in fixtures /\ e.created < r.created
    BY <1>6, <1>7, <2>2, <2>3
  <2>5. ASSUME NEW e \in fixtures' PROVE SnapshotOf(e)' # {}
    <3>1. CASE e = new
      <4>1. Len(taken) + 1 \in DOMAIN taken' /\ taken'[Len(taken) + 1].id = nextSnapshotId
        BY <1>3
      <4> QED
        BY <1>5, <3>1, <4>1 DEF SnapshotOf
    <3>2. CASE e # new
      <4>1. e \in fixtures /\ SnapshotOf(e) # {}
        BY <1>1, <2>1, <2>4, <3>2 DEF OrderOK, r
      <4> QED
        BY <1>1, <4>1, TakeKeepsEntries
    <3> QED
      BY <3>1, <3>2
  <2>6. \A e \in fixtures' : e.resets = resets'
    BY <1>1, <1>4, <1>5, <1>7, <2>1 DEF OrderOK
  <2>7. \A d, e \in fixtures' : d # e => d.created # e.created
    BY <1>5, <1>6, <2>1, <2>2, <2>4 DEF OrderOK
  <2>8. \A d, e \in fixtures' : d.created < e.created => d.current < e.current
    BY <1>2, <1>5, <1>6, <2>1, <2>2, <2>4 DEF OrderOK
  <2> QED
    BY <2>5, <2>6, <2>7, <2>8 DEF OrderOK
<1> QED
  BY <1>1, <1>3, <1>8, <1>10, <1>11, <1>12 DEF IInv

-----------------------------------------------------------------------------
(* What tests do with the node *)

(* A test's own change of the state, snapshot, revert or reset *)
LEMMA UseNodeKeeps ==
  ASSUME IInv, UseNode
  PROVE  IInv'
<1>1. restoring = <<>> /\ restoring' = <<>> /\ fixtures' = fixtures /\ running' = running
  BY DEF UseNode, Reset
<1>2. CASE StoreChange /\ UNCHANGED <<resets, disturbed>>
  <2>1. taken' = taken /\ nextSnapshotId' = nextSnapshotId
    BY <1>2 DEF StoreChange, SetLatest, AddBlock
  <2>2. shown' \in Seq(Roots) /\ shown' # <<>>
    <3>1. shown \in Seq(Roots) /\ shown # <<>>
      BY DEF IInv, FixturesTypeOK, StoreTypeOK
    <3>2. PICK r \in Roots : SetLatest(r) \/ AddBlock(r)
      BY <1>2 DEF StoreChange
    <3>3. CASE shown' = [shown EXCEPT ![Len(shown)] = r]
      BY <3>1, <3>3
    <3>4. CASE shown' = Append(shown, r)
      BY <3>1, <3>4
    <3> QED
      BY <3>2, <3>3, <3>4 DEF SetLatest, AddBlock
  <2>3. FixturesTypeOK'
    BY <1>1, <1>2, <2>1, <2>2 DEF IInv, FixturesTypeOK, StoreTypeOK
  <2> QED
    BY <1>1, <1>2, <2>1, <2>3
       DEF IInv, SnapshotsOK, EntriesOK, RestoringOK, OrderOK, SnapshotOf
<1>3. CASE Take /\ UNCHANGED <<resets, disturbed>>
  <2>1. StoreTypeOK' /\ SnapshotsOK'
    BY <1>3, TakeAdds DEF IInv, FixturesTypeOK
  <2>2. FixturesTypeOK'
    BY <1>1, <1>3, <2>1 DEF IInv, FixturesTypeOK
  <2>3. EntriesOK' /\ RestoringOK'
    BY <1>1, <1>3, TakeKeepsEntries DEF EntriesOK, RestoringOK
  <2>4. ASSUME ~disturbed PROVE OrderOK'
    <3>1. OrderOK
      BY <2>4 DEF IInv
    <3>2. \A e \in fixtures : SnapshotOf(e)' # {}
      BY <1>1, <1>3, <3>1, TakeKeepsEntries DEF OrderOK
    <3> QED
      BY <1>1, <1>3, <3>1, <3>2 DEF OrderOK
  <2> QED
    BY <1>3, <2>1, <2>2, <2>3, <2>4 DEF IInv
<1>4. ASSUME NEW i \in DOMAIN taken, Restore(i), disturbed' = TRUE, resets' = resets
      PROVE  IInv'
  <2>1. StoreTypeOK' /\ SnapshotsOK'
    BY <1>4, RestoreKeeps DEF IInv, FixturesTypeOK
  <2>2. disturbed' \in BOOLEAN /\ ~(~disturbed')
    BY <1>4
  <2>3. FixturesTypeOK'
    BY <1>1, <1>4, <2>1, <2>2 DEF IInv, FixturesTypeOK
  <2>4. EntriesOK' /\ RestoringOK'
    BY <1>1, <1>4, RestoreKeepsEntries DEF EntriesOK, RestoringOK
  <2> QED
    BY <2>1, <2>2, <2>3, <2>4 DEF IInv
<1>5. CASE Reset
  <2>1. /\ shown' = <<Genesis>> /\ taken' = <<>> /\ nextSnapshotId' = 1
        /\ resets' = resets + 1 /\ resets \in Nat /\ disturbed' = TRUE
    BY <1>5 DEF Reset, IInv, FixturesTypeOK
  <2>2. disturbed' \in BOOLEAN /\ ~(~disturbed')
    BY <2>1
  <2>3. StoreTypeOK' /\ SnapshotsOK'
    BY <2>1, GenesisAssumption DEF StoreTypeOK, SnapshotsOK
  <2>4. FixturesTypeOK'
    BY <1>1, <2>1, <2>2, <2>3 DEF IInv, FixturesTypeOK
  <2>5. EntriesOK' /\ RestoringOK'
    <3>1. \A e \in fixtures : e.resets <= resets' /\ e.resets # resets'
      BY <2>1, EntryFields DEF IInv, EntriesOK, FixturesTypeOK
    <3> QED
      BY <1>1, <3>1 DEF EntriesOK, RestoringOK
  <2> QED
    BY <2>2, <2>3, <2>4, <2>5 DEF IInv
<1> QED
  BY <1>2, <1>3, <1>4, <1>5 DEF UseNode

-----------------------------------------------------------------------------

(* The invariant holds in every reachable state. *)
THEOREM Invariance == FixturesSpec => []IInv
<1>1. IInv /\ [FixturesNext]_fixtureVars => IInv'
  <2> SUFFICES ASSUME IInv, [FixturesNext]_fixtureVars PROVE IInv'
    OBVIOUS
  <2>1. CASE UNCHANGED fixtureVars
    <3>1. /\ shown' = shown /\ taken' = taken /\ nextSnapshotId' = nextSnapshotId
          /\ fixtures' = fixtures /\ running' = running /\ restoring' = restoring
          /\ resets' = resets /\ disturbed' = disturbed
      BY <2>1 DEF fixtureVars
    <3> QED
      BY <3>1 DEF IInv, FixturesTypeOK, StoreTypeOK, SnapshotsOK, EntriesOK, RestoringOK,
                  OrderOK, SnapshotOf
  <2>2. CASE LoadFixture
    BY <2>2, RunFixtureKeeps, FinishFixtureKeeps, RestoreFixtureKeeps, RetakeSnapshotKeeps
       DEF LoadFixture
  <2>3. CASE UseNode
    BY <2>3, UseNodeKeeps
  <2> QED
    BY <2>1, <2>2, <2>3 DEF FixturesNext
<1> QED
  BY <1>1, InitEstablishes, PTL DEF FixturesSpec

(* The entries of loadFixture and the snapshots keep their types           *)
(* (FixturesTypeOK).                                                       *)
THEOREM TypeCorrect == FixturesSpec => []FixturesTypeOK
<1>1. IInv => FixturesTypeOK
  BY DEF IInv
<1> QED
  BY <1>1, Invariance, PTL

(* loadFixture never restores the state of another snapshot than the       *)
(* fixture's own, unless the network was reset since (RestoresOwnState).   *)
THEOREM FixturesRestoreOwnState == FixturesSpec => []RestoresOwnState
<1>1. IInv => RestoresOwnState
  BY DEF IInv, EntriesOK, RestoresOwnState, SnapshotOf
<1> QED
  BY <1>1, Invariance, PTL

(* loadFixture never throws because a snapshot is gone, unless the tests   *)
(* reverted or reset the network themselves (LoadedFixturesUsable).        *)
THEOREM FixturesStayUsable == FixturesSpec => []LoadedFixturesUsable
<1>1. IInv => LoadedFixturesUsable
  BY DEF IInv, OrderOK, LoadedFixturesUsable
<1> QED
  BY <1>1, Invariance, PTL

-----------------------------------------------------------------------------
(* The dependency graph *)

Sources == [Files -> Maybe(Contents)]

(* What is reached is a set of files, holds where one starts, is closed,   *)
(* and is the least such set.                                              *)
LEMMA ReachableFacts ==
  ASSUME NEW next, NEW F \in SUBSET Files, \A f \in Files : next[f] \subseteq Files
  PROVE  /\ Reachable(next, F) \in SUBSET Files
         /\ F \subseteq Reachable(next, F)
         /\ Closed(next, Reachable(next, F))
         /\ \A R \in SUBSET Files : F \subseteq R /\ Closed(next, R) => Reachable(next, F) \subseteq R
BY DEF Reachable, Closed

LEMMA DependenciesFacts ==
  ASSUME NEW src \in Sources
  PROVE  \A f \in Files : /\ Dependencies(src)[f] \subseteq Files
                          /\ Dependencies(src)[f] =
                               IF src[f] = Absent THEN {} ELSE ImportsOf(f, src[f])
BY ContentsAssumption DEF Sources, Maybe, Dependencies

(* A file and its transitive dependencies *)
LEMMA WithDependenciesFacts ==
  ASSUME NEW src \in Sources, NEW f \in Files
  PROVE  /\ WithDependencies(src, f) \in SUBSET Files
         /\ f \in WithDependencies(src, f)
         /\ Closed(Dependencies(src), WithDependencies(src, f))
         /\ \A R \in SUBSET Files :
              f \in R /\ Closed(Dependencies(src), R) => WithDependencies(src, f) \subseteq R
<1>1. \A g \in Files : Dependencies(src)[g] \subseteq Files
  BY DependenciesFacts
<1>2. {f} \in SUBSET Files
  OBVIOUS
<1> HIDE DEF Dependencies
<1>3. /\ Reachable(Dependencies(src), {f}) \in SUBSET Files
      /\ {f} \subseteq Reachable(Dependencies(src), {f})
      /\ Closed(Dependencies(src), Reachable(Dependencies(src), {f}))
      /\ \A R \in SUBSET Files : {f} \subseteq R /\ Closed(Dependencies(src), R) =>
           Reachable(Dependencies(src), {f}) \subseteq R
  BY <1>1, <1>2, ReachableFacts
<1> QED
  BY <1>3 DEF WithDependencies

(* The files of the graph *)
LEMMA ResolvedFilesFacts ==
  ASSUME NEW src \in Sources
  PROVE  /\ ResolvedFiles(src) \in SUBSET Files
         /\ Closed(Dependencies(src), ResolvedFiles(src))
         /\ \A f \in ResolvedFiles(src) : WithDependencies(src, f) \subseteq ResolvedFiles(src)
<1>1. \A g \in Files : Dependencies(src)[g] \subseteq Files
  BY DependenciesFacts
<1> DEFINE F == {f \in SourceFiles : src[f] # Absent}
<1>2. F \in SUBSET Files
  BY FilesAssumption
<1> HIDE DEF F
<1>3. /\ Reachable(Dependencies(src), F) \in SUBSET Files
      /\ Closed(Dependencies(src), Reachable(Dependencies(src), F))
  BY <1>1, <1>2, ReachableFacts
<1>4. /\ ResolvedFiles(src) \in SUBSET Files
      /\ Closed(Dependencies(src), ResolvedFiles(src))
  BY <1>3 DEF ResolvedFiles, F
<1> QED
  BY <1>4, WithDependenciesFacts

(* Two states of the sources that agree on a closed set of files give its  *)
(* members the same dependencies.                                          *)
LEMMA SameDependencies ==
  ASSUME NEW s \in Sources, NEW t \in Sources, NEW G \in SUBSET Files,
         Closed(Dependencies(s), G), \A g \in G : s[g] = t[g], NEW f \in G
  PROVE  WithDependencies(s, f) = WithDependencies(t, f) /\ WithDependencies(s, f) \subseteq G
<1>1. \A g \in G : Dependencies(s)[g] = Dependencies(t)[g]
  BY DependenciesFacts
<1>2. Closed(Dependencies(t), G)
  BY <1>1 DEF Closed
<1>3. WithDependencies(s, f) \subseteq G /\ WithDependencies(t, f) \subseteq G
  BY <1>2, WithDependenciesFacts
<1>4. /\ Closed(Dependencies(t), WithDependencies(s, f))
      /\ Closed(Dependencies(s), WithDependencies(t, f))
  <2>1. /\ Closed(Dependencies(s), WithDependencies(s, f))
        /\ Closed(Dependencies(t), WithDependencies(t, f))
    BY WithDependenciesFacts
  <2> QED
    BY <1>1, <1>3, <2>1 DEF Closed
<1>5. WithDependencies(s, f) \subseteq WithDependencies(t, f)
  BY <1>4, WithDependenciesFacts
<1>6. WithDependencies(t, f) \subseteq WithDependencies(s, f)
  BY <1>4, WithDependenciesFacts
<1> QED
  BY <1>3, <1>5, <1>6

(* The files that were read, as a state of all files *)
Whole(read) == [f \in Files |-> IF f \in DOMAIN read THEN read[f] ELSE Absent]

LEMMA WholeFacts ==
  ASSUME NEW read \in Inputs
  PROVE  /\ DOMAIN read \in SUBSET Files
         /\ \A f \in DOMAIN read : read[f] \in Contents /\ Whole(read)[f] = read[f]
         /\ read \in [DOMAIN read -> Contents]
         /\ Whole(read) \in Sources
<1>1. PICK D \in SUBSET Files : read \in [D -> Contents]
  BY DEF Inputs
<1> QED
  BY <1>1 DEF Whole, Sources, Maybe

(* I is what a file f was compiled with: f and its dependencies. *)
InputOf(I, f) ==
  I \in Inputs /\ f \in DOMAIN I /\ DOMAIN I = WithDependencies(Whole(I), f)

(* The sources that a run has read: the graph is closed. *)
GoodRead(read) == read \in Inputs /\ Closed(Dependencies(Whole(read)), DOMAIN read)

(* The compiler's input for a file of the graph *)
LEMMA OutputFacts ==
  ASSUME NEW read, GoodRead(read), NEW f \in DOMAIN read, NEW c \in Configs
  PROVE  LET o == OutputOf(Whole(read), f, c)
         IN  /\ o \in Output
             /\ o.config = c
             /\ InputOf(o.input, f)
             /\ DOMAIN o.input = WithDependencies(Whole(read), f)
             /\ DOMAIN o.input \subseteq DOMAIN read
             /\ \A g \in DOMAIN o.input : o.input[g] = read[g]
<1> DEFINE W == WithDependencies(Whole(read), f)
           I == [g \in W |-> Whole(read)[g]]
<1>1. /\ DOMAIN read \in SUBSET Files /\ Whole(read) \in Sources
      /\ \A g \in DOMAIN read : read[g] \in Contents /\ Whole(read)[g] = read[g]
  BY WholeFacts DEF GoodRead
<1>2. f \in Files
  BY <1>1
<1>3. /\ W \in SUBSET Files /\ f \in W /\ W \subseteq DOMAIN read
      /\ Closed(Dependencies(Whole(read)), W)
  BY <1>1, <1>2, WithDependenciesFacts DEF GoodRead
<1> HIDE DEF W
<1>4. I \in [W -> Contents] /\ DOMAIN I = W /\ \A g \in W : I[g] = read[g]
  BY <1>1, <1>3
<1>5. I \in Inputs
  BY <1>3, <1>4 DEF Inputs
<1> HIDE DEF I
<1>6. Whole(I) \in Sources /\ \A g \in W : Whole(I)[g] = Whole(read)[g]
  BY <1>1, <1>3, <1>4, <1>5, WholeFacts
<1>7. WithDependencies(Whole(read), f) = WithDependencies(Whole(I), f)
  BY <1>1, <1>3, <1>6, SameDependencies
<1>8. InputOf(I, f)
  BY <1>3, <1>4, <1>5, <1>7 DEF InputOf, W
<1>9. OutputOf(Whole(read), f, c) = [config |-> c, input |-> I]
  BY DEF OutputOf, I, W
<1>10. [config |-> c, input |-> I] \in Output
  BY <1>5 DEF Output
<1> QED
  BY <1>3, <1>4, <1>8, <1>9, <1>10 DEF W

(* When every dependency that a file had then and has now is unchanged,    *)
(* its dependencies are the same ones.                                     *)
LEMMA UnchangedInput ==
  ASSUME NEW f \in Files, NEW I, InputOf(I, f), NEW src \in Sources,
         \A g \in WithDependencies(src, f) : g \in DOMAIN I => src[g] = I[g]
  PROVE  DOMAIN I = WithDependencies(src, f)
<1> DEFINE W == WithDependencies(src, f)
           D == DOMAIN I
           X == W \cap D
<1>1. /\ D \in SUBSET Files /\ Whole(I) \in Sources
      /\ \A g \in D : Whole(I)[g] = I[g]
  BY WholeFacts DEF InputOf
<1>2. D = WithDependencies(Whole(I), f) /\ f \in D
  BY DEF InputOf
<1>3. Closed(Dependencies(Whole(I)), D)
  BY <1>1, <1>2, WithDependenciesFacts
<1>4. /\ \A R \in SUBSET Files : f \in R /\ Closed(Dependencies(Whole(I)), R) => D \subseteq R
  BY <1>1, <1>2, WithDependenciesFacts
<1>5. /\ W \in SUBSET Files /\ f \in W /\ Closed(Dependencies(src), W)
      /\ \A R \in SUBSET Files : f \in R /\ Closed(Dependencies(src), R) => W \subseteq R
  BY WithDependenciesFacts
<1>6. \A g \in X : Dependencies(src)[g] = Dependencies(Whole(I))[g]
  BY <1>1, <1>5, DependenciesFacts
<1> HIDE DEF W, D
<1>7. X \in SUBSET Files /\ f \in X
  BY <1>2, <1>5
<1>8. Closed(Dependencies(src), X) /\ Closed(Dependencies(Whole(I)), X)
  BY <1>3, <1>5, <1>6 DEF Closed
<1> QED
  BY <1>4, <1>5, <1>7, <1>8 DEF W, D

-----------------------------------------------------------------------------
(* The jobs *)

(* A job over the files that were read compiles what it emits with all of  *)
(* its dependencies, and with the config of each file that it emits.       *)
GoodJob(j, G, src, st) ==
  /\ j \in Job
  /\ j.files \subseteq G /\ j.emits \subseteq j.files
  /\ \A f \in j.emits : j.solcConfig = st[f] /\ WithDependencies(src, f) \subseteq j.files

(* The job of a single file *)
LEMMA SingleJob ==
  ASSUME NEW src \in Sources, setting \in Settings, NEW f \in ResolvedFiles(src)
  PROVE  LET j == CreateCompilationJobFromFile(src, f)
         IN  GoodJob(j, ResolvedFiles(src), src, setting) /\ j.emits = {f} /\ j.solcConfig = setting[f]
<1>1. /\ f \in Files /\ setting[f] \in Configs
      /\ WithDependencies(src, f) \in SUBSET Files /\ f \in WithDependencies(src, f)
      /\ WithDependencies(src, f) \subseteq ResolvedFiles(src)
  BY SettingsAssumption, ResolvedFilesFacts, WithDependenciesFacts
<1> QED
  BY <1>1 DEF CreateCompilationJobFromFile, GoodJob, Job

(* Good jobs with the config c *)
Mergeable(jobs, c, G, src, st) ==
  jobs # {} /\ \A j \in jobs : GoodJob(j, G, src, st) /\ j.solcConfig = c

(* Several jobs with the same config make one. *)
LEMMA MergedJob ==
  ASSUME NEW G, NEW src, NEW st, NEW c, NEW jobs, Mergeable(jobs, c, G, src, st)
  PROVE  /\ GoodJob(MergeJobs(jobs), G, src, st)
         /\ \A j \in jobs : j.emits \subseteq MergeJobs(jobs).emits
<1> DEFINE m == MergeJobs(jobs)
           k == CHOOSE j \in jobs : TRUE
           files == UNION {j.files : j \in jobs}
           emits == UNION {j.emits : j \in jobs}
<1> USE DEF Mergeable
<1>1. k \in jobs /\ k.solcConfig = c /\ c \in Configs
  BY DEF GoodJob, Job
<1>2. m = [solcConfig |-> c, files |-> files, emits |-> emits]
  BY <1>1 DEF MergeJobs
<1>3. /\ files \in SUBSET Files /\ emits \in SUBSET Files
      /\ files \subseteq G /\ emits \subseteq files
  BY DEF GoodJob, Job
<1>4. ASSUME NEW f \in emits PROVE c = st[f] /\ WithDependencies(src, f) \subseteq files
  <2>1. PICK j \in jobs : f \in j.emits
    OBVIOUS
  <2>2. c = st[f] /\ WithDependencies(src, f) \subseteq j.files
    BY <2>1 DEF GoodJob
  <2> QED
    BY <2>2
<1>5. \A j \in jobs : j.emits \subseteq emits
  OBVIOUS
<1> HIDE DEF m, files, emits
<1>6. m \in Job /\ m.files = files /\ m.emits = emits /\ m.solcConfig = c
  BY <1>1, <1>2, <1>3 DEF Job
<1>7. GoodJob(m, G, src, st)
  BY <1>3, <1>4, <1>6 DEF GoodJob
<1> QED
  BY <1>5, <1>6, <1>7 DEF m

(* The jobs of a graph are good, and every file of it is emitted by one. *)
LEMMA CreateJobsFacts ==
  ASSUME NEW src \in Sources, setting \in Settings
  PROVE  /\ \A j \in CreateJobs(src) : GoodJob(j, ResolvedFiles(src), src, setting)
         /\ \A f \in ResolvedFiles(src) : \E j \in CreateJobs(src) : f \in j.emits
<1> DEFINE G == ResolvedFiles(src)
           single(f) == CreateCompilationJobFromFile(src, f)
           Buggy(f) == {g \in ConnectedComponent(src, f) : SameCompiler(single(f), single(g))}
           jobOf(f) == IF setting[f] \in Bug9573
                       THEN MergeJobs({single(g) : g \in Buggy(f)}) ELSE single(f)
<1>1. CreateJobs(src) = {jobOf(f) : f \in G}
  BY DEF CreateJobs
<1>2. ASSUME NEW f \in G PROVE f \in Buggy(f) /\ Buggy(f) \subseteq G
  <2> DEFINE deps == Dependencies(src)
             und == [g \in Files |-> {h \in G : h \in deps[g] \/ g \in deps[h]}]
  <2>1. G \in SUBSET Files
    BY ResolvedFilesFacts
  <2> HIDE DEF G, deps
  <2>2. \A g \in Files : und[g] \subseteq Files
    BY <2>1
  <2>3. Closed(und, G)
    BY <2>1 DEF Closed
  <2>4. {f} \in SUBSET Files /\ {f} \subseteq G
    BY <1>2, <2>1
  <2> HIDE DEF und
  <2>5. f \in Reachable(und, {f}) /\ Reachable(und, {f}) \subseteq G
    BY <2>1, <2>2, <2>3, <2>4, ReachableFacts
  <2>6. ConnectedComponent(src, f) = Reachable(und, {f})
    BY DEF ConnectedComponent, und, deps, G
  <2>7. SameCompiler(single(f), single(f))
    BY DEF SameCompiler
  <2> QED
    BY <2>5, <2>6, <2>7
<1>3. ASSUME NEW f \in G
      PROVE  GoodJob(jobOf(f), G, src, setting) /\ f \in jobOf(f).emits
  <2>1. CASE setting[f] \notin Bug9573
    BY <2>1, SingleJob
  <2>2. CASE setting[f] \in Bug9573
    <3> DEFINE jobs == {single(g) : g \in Buggy(f)}
    <3>1. jobs # {} /\ single(f) \in jobs
      BY <1>2, <1>3
    <3>2. ASSUME NEW j \in jobs
          PROVE  GoodJob(j, G, src, setting) /\ j.solcConfig = setting[f]
      <4>1. PICK g \in Buggy(f) : j = single(g)
        OBVIOUS
      <4>2. g \in G /\ SameCompiler(single(f), single(g))
        BY <1>2, <1>3, <4>1
      <4>3. single(f).solcConfig = single(g).solcConfig
        BY <4>2 DEF SameCompiler
      <4>4. /\ GoodJob(single(g), G, src, setting)
            /\ single(g).solcConfig = setting[g] /\ single(f).solcConfig = setting[f]
        BY <4>2, SingleJob
      <4> QED
        BY <4>1, <4>3, <4>4
    <3>3. f \in single(f).emits
      BY SingleJob
    <3>4. jobOf(f) = MergeJobs(jobs)
      BY <2>2
    <3>6. Mergeable(jobs, setting[f], G, src, setting)
      BY <3>1, <3>2 DEF Mergeable
    <3> HIDE DEF jobs, single, jobOf
    <3>5. /\ GoodJob(MergeJobs(jobs), G, src, setting)
          /\ \A j \in jobs : j.emits \subseteq MergeJobs(jobs).emits
      BY <3>6, MergedJob
    <3> QED
      BY <3>1, <3>3, <3>4, <3>5
  <2> QED
    BY <2>1, <2>2
<1> HIDE DEF G, jobOf
<1> QED
  BY <1>1, <1>3 DEF G

(* Merging across components keeps jobs good and loses no file. *)
LEMMA MergedJobsFacts ==
  ASSUME NEW G, NEW src, NEW st, NEW jobs, \A j \in jobs : GoodJob(j, G, src, st)
  PROVE  /\ \A j \in MergeCompilationJobsWithoutBug(jobs) : GoodJob(j, G, src, st)
         /\ Emitted(jobs) \subseteq Emitted(MergeCompilationJobsWithoutBug(jobs))
<1> DEFINE same(j) == {k \in jobs : SameCompiler(j, k)}
           merged == MergeCompilationJobsWithoutBug(jobs)
<1>1. ASSUME NEW j \in jobs
      PROVE  GoodJob(MergeJobs(same(j)), G, src, st) /\ j.emits \subseteq MergeJobs(same(j)).emits
  <2>1. j \in same(j) /\ same(j) # {}
    BY <1>1 DEF SameCompiler
  <2>2. \A k \in same(j) : GoodJob(k, G, src, st) /\ k.solcConfig = j.solcConfig
    BY DEF SameCompiler
  <2>3. Mergeable(same(j), j.solcConfig, G, src, st)
    BY <2>1, <2>2 DEF Mergeable
  <2> HIDE DEF same
  <2> QED
    BY <2>1, <2>3, MergedJob
<1>2. merged = {j \in jobs : j.solcConfig \in Bug9573} \cup
               {MergeJobs(same(j)) : j \in {k \in jobs : k.solcConfig \notin Bug9573}}
  BY DEF MergeCompilationJobsWithoutBug
<1> HIDE DEF same, merged
<1>3. \A j \in merged : GoodJob(j, G, src, st)
  BY <1>1, <1>2
<1>4. ASSUME NEW j \in jobs PROVE \E k \in merged : j.emits \subseteq k.emits
  <2>1. CASE j.solcConfig \in Bug9573
    BY <1>2, <2>1
  <2>2. CASE j.solcConfig \notin Bug9573
    <3>1. MergeJobs(same(j)) \in merged
      BY <1>2, <2>2
    <3> QED
      BY <1>1, <3>1
  <2> QED
    BY <2>1, <2>2
<1>5. Emitted(jobs) \subseteq Emitted(merged)
  BY <1>4 DEF Emitted
<1> QED
  BY <1>3, <1>5 DEF merged

-----------------------------------------------------------------------------
(* The inductive invariant *)

(* The artifact a and the debug file d of p are what the entry e says, and *)
(* no file they were made from has an entry for another content.           *)
FromEntry(p, e, cache, a, d) ==
  /\ a.config = e.solcConfig
  /\ InputOf(a.input, p[1]) /\ a.input[p[1]] = e.contentHash
  /\ \A g \in DOMAIN a.input : cache[g] # Absent => cache[g].contentHash = a.input[g]
  /\ d # Absent /\ d.config = a.config
  /\ \A g \in DOMAIN a.input : g \in DOMAIN d.input /\ d.input[g] = a.input[g]

(* The cache is right about the files outside S. *)
CacheTrue(S, cache, art, debug) ==
  \A p \in Fqns :
    (/\ p[1] \notin S /\ cache[p[1]] # Absent
     /\ p[2] \in cache[p[1]].artifacts /\ art[p] # Absent)
    => FromEntry(p, cache[p[1]], cache, art[p], debug[p])

(* An entry lists the contracts of its content. *)
ListedContracts(cache) ==
  \A f \in Files : cache[f] # Absent => cache[f].artifacts = ContractsOf(f, cache[f].contentHash)

(* While the jobs of a run emit, the cache file does not know of it. *)
OutOfStep == IF run.phase = "jobs" THEN tainted \cup Emitted(run.emitted) ELSE tainted

(* The artifact a and the debug file d of p are made from what was read. *)
Made(p, read, st, a, d) ==
  /\ a = OutputOf(Whole(read), p[1], st[p[1]])
  /\ d # Absent /\ d.config = st[p[1]]
  /\ \A g \in WithDependencies(Whole(read), p[1]) : g \in DOMAIN d.input /\ d.input[g] = read[g]

(* The cache knows f and its dependencies as they were read. *)
Skipped(f, read, cache, st) ==
  /\ cache[f] # Absent /\ cache[f].solcConfig = st[f]
  /\ \A g \in WithDependencies(Whole(read), f) :
       cache[g] # Absent /\ cache[g].contentHash = read[g]

UpToDate(f, content, cache, st) ==
  cache[f] # Absent /\ cache[f].contentHash = content /\ cache[f].solcConfig = st[f]

(* The plan of a run *)
PlanOK ==
  /\ GoodRead(run.read)
  /\ \A j \in run.jobs \cup run.emitted : GoodJob(j, DOMAIN run.read, Whole(run.read), setting)

(* What is emitted or will be, and what is skipped *)
JobsOK ==
  /\ \A f \in Files : run.cache[f] = Absent \/ run.cache[f] = cacheFile[f]
  /\ \A p \in Fqns :
       (/\ p[1] \in DOMAIN run.read /\ run.cache[p[1]] # Absent
        /\ p[2] \in run.cache[p[1]].artifacts)
       => artifact[p] # Absent
  /\ ~run.failed => \A f \in DOMAIN run.read :
       \/ f \in Emitted(run.jobs \cup run.emitted)
       \/ ~run.force /\ Skipped(f, run.read, run.cache, setting)
  /\ \A p \in Fqns :
       p[1] \in Emitted(run.emitted) /\ p[2] \in ContractsOf(p[1], run.read[p[1]])
       => Made(p, run.read, setting, artifact[p], debugFile[p])

(* After the cache file was written *)
WrittenOK ==
  /\ FqnsOf(cacheFile) \subseteq valid
  /\ \A f \in DOMAIN run.read : UpToDate(f, run.read[f], cacheFile, setting)
  /\ ArtifactsCurrent

(* When nobody touched the disk: what was read is what is there, and a     *)
(* completed run has left nothing to do.                                   *)
SettledOK ==
  /\ run # Idle => /\ DOMAIN run.read = ResolvedFiles(source)
                   /\ \A f \in DOMAIN run.read : run.read[f] = source[f]
  /\ run = Idle => \A f \in ResolvedFiles(source) :
                     /\ UpToDate(f, source[f], cacheFile, setting)
                     /\ \A n \in cacheFile[f].artifacts : artifact[<<f, n>>] # Absent

CompilationInv ==
  /\ CompileTypeOK
  /\ DebugFilesResolve
  /\ ListedContracts(cacheFile)
  /\ CacheTrue(OutOfStep, cacheFile, artifact, debugFile)
  /\ run # Idle => PlanOK
  /\ run.phase = "jobs" => JobsOK
  /\ run.phase = "obsolete" => WrittenOK
  /\ settled => SettledOK

-----------------------------------------------------------------------------
(* Facts about the state of a run *)

LEMMA RunFacts ==
  ASSUME CompileTypeOK
  PROVE  /\ run # Idle <=> run.phase \in {"jobs", "obsolete"}
         /\ run = Idle => run.phase = "idle"
         /\ run # Idle => /\ run \in CompileRun
                          /\ run.read \in Inputs /\ run.jobs \subseteq Job
                          /\ run.emitted \subseteq Job
                          /\ run.cache \in [Files -> Maybe(CacheEntry)]
                          /\ run.failed \in BOOLEAN /\ run.force \in BOOLEAN
BY DEF CompileTypeOK, CompileRun, Idle

LEMMA ReadIs == Read = Whole(run.read)
BY DEF Read, Whole

LEMMA CurrentIs ==
  ASSUME NEW p
  PROVE  Current(p) <=> Made(p, run.read, setting, artifact[p], debugFile[p])
BY ReadIs DEF Current, Made

(* The pairs of a file and a name *)
LEMMA PairFacts ==
  ASSUME NEW p \in Fqns
  PROVE  p[1] \in Files /\ p[2] \in Names /\ p = <<p[1], p[2]>>
BY DEF Fqns

(* What is left of the artifacts, outside a larger set, is as before. *)
LEMMA CacheTrueKeeps ==
  ASSUME NEW S, NEW T, S \subseteq T, NEW cache, NEW art, NEW debug, NEW art2, NEW debug2,
         CacheTrue(S, cache, art, debug),
         \A p \in Fqns : p[1] \notin T /\ art2[p] # Absent =>
           art2[p] = art[p] /\ debug2[p] = debug[p]
  PROVE  CacheTrue(T, cache, art2, debug2)
BY DEF CacheTrue

(* The output for a job of the run *)
LEMMA JobFacts ==
  ASSUME CompileTypeOK, run # Idle, PlanOK, NEW j \in run.jobs \cup run.emitted
  PROVE  /\ j.files \subseteq DOMAIN run.read /\ j.emits \subseteq j.files
         /\ j.solcConfig \in Configs
         /\ BuildInfo(j) \in Output
         /\ BuildInfo(j).config = j.solcConfig
         /\ DOMAIN BuildInfo(j).input = j.files
         /\ \A f \in j.files : BuildInfo(j).input[f] = run.read[f]
         /\ \A f \in j.emits : j.solcConfig = setting[f]
<1> DEFINE I == [f \in j.files |-> run.read[f]]
<1>1. /\ j \in Job /\ j.files \subseteq DOMAIN run.read /\ j.emits \subseteq j.files
      /\ \A f \in j.emits : j.solcConfig = setting[f]
  BY DEF PlanOK, GoodJob
<1>2. j.solcConfig \in Configs /\ j.files \in SUBSET Files
  BY <1>1 DEF Job
<1>3. \A f \in j.files : run.read[f] \in Contents
  BY <1>1, WholeFacts DEF PlanOK, GoodRead
<1>4. I \in [j.files -> Contents] /\ DOMAIN I = j.files /\ \A f \in j.files : I[f] = run.read[f]
  BY <1>3
<1>5. I \in Inputs
  BY <1>2, <1>4 DEF Inputs
<1>6. BuildInfo(j) = [config |-> j.solcConfig, input |-> I]
  BY DEF BuildInfo
<1> HIDE DEF I
<1> QED
  BY <1>1, <1>2, <1>4, <1>5, <1>6 DEF Output

(* The files that jobs emit *)
LEMMA EmittedFacts ==
  ASSUME NEW J, NEW K
  PROVE  /\ Emitted(J \cup K) = Emitted(J) \cup Emitted(K)
         /\ \A j \in J : j.emits \subseteq Emitted(J)
         /\ \A f \in Emitted(J) : \E j \in J : f \in j.emits
         /\ \A j : Emitted({j}) = j.emits
         /\ Emitted({}) = {}
BY DEF Emitted

(* The job that emits a file *)
LEMMA EmittedByFacts ==
  ASSUME NEW J, NEW f \in Emitted(J)
  PROVE  EmittedBy(J, f) \in J /\ f \in EmittedBy(J, f).emits
BY EmittedFacts DEF EmittedBy

(* What the artifacts and debug files of jobs are once they are written *)
LEMMA SaveFacts ==
  ASSUME CompilationInv, run # Idle, NEW J \in SUBSET run.jobs,
         NEW A \in SUBSET JobFqns(J), NEW D \in SUBSET JobFqns(J),
         SaveBuildInfo(J), SaveArtifactAndDebugFile(J, A, D)
  PROVE  /\ artifact' \in [Fqns -> Maybe(Output)] /\ debugFile' \in [Fqns -> Maybe(Output)]
         /\ buildInfos' \subseteq Output
         /\ DebugFilesResolve'
         /\ \A p \in Fqns : p[1] \notin Emitted(J) =>
              artifact'[p] = artifact[p] /\ debugFile'[p] = debugFile[p]
         /\ \A p \in A \cap D : Made(p, run.read, setting, artifact'[p], debugFile'[p])
         /\ \A p \in Fqns : artifact[p] # Absent => artifact'[p] # Absent
<1> DEFINE by(p) == EmittedBy(J, p[1])
<1>1. CompileTypeOK /\ PlanOK
  BY DEF CompilationInv
<1>2. ASSUME NEW j \in J
      PROVE  /\ BuildInfo(j) \in Output /\ BuildInfo(j) # Absent
             /\ BuildInfo(j).config = j.solcConfig
             /\ DOMAIN BuildInfo(j).input = j.files
             /\ \A f \in j.files : BuildInfo(j).input[f] = run.read[f]
             /\ j.solcConfig \in Configs
             /\ j.emits \subseteq DOMAIN run.read
  <2>1. j \in run.jobs \cup run.emitted
    OBVIOUS
  <2> QED
    BY <1>1, <2>1, JobFacts, AbsentAssumption
<1>3. ASSUME NEW p \in JobFqns(J)
      PROVE  /\ p \in Fqns /\ p[1] \in Emitted(J) /\ by(p) \in J
             /\ OutputOf(Read, p[1], by(p).solcConfig) \in Output
             /\ OutputOf(Read, p[1], by(p).solcConfig) # Absent
             /\ by(p).solcConfig = setting[p[1]]
             /\ WithDependencies(Whole(run.read), p[1]) \subseteq by(p).files
  <2>1. p \in Fqns /\ p[1] \in Emitted(J)
    BY DEF JobFqns
  <2>2. PICK j \in J : j = by(p) /\ p[1] \in j.emits
    BY <2>1, EmittedByFacts
  <2>3. OutputOf(Whole(run.read), p[1], j.solcConfig) \in Output
    BY <1>1, <1>2, <2>2, OutputFacts DEF PlanOK
  <2>4. j.solcConfig = setting[p[1]] /\ WithDependencies(Whole(run.read), p[1]) \subseteq j.files
    BY <1>1, <2>2 DEF PlanOK, GoodJob
  <2> QED
    BY <2>1, <2>2, <2>3, <2>4, ReadIs, AbsentAssumption
<1>4. /\ artifact' = [p \in Fqns |-> IF p \in A THEN OutputOf(Read, p[1], by(p).solcConfig)
                                     ELSE artifact[p]]
      /\ debugFile' = [p \in Fqns |-> IF p \in D THEN BuildInfo(by(p)) ELSE debugFile[p]]
      /\ buildInfos' = buildInfos \cup {BuildInfo(j) : j \in J}
  BY DEF SaveArtifactAndDebugFile, SaveBuildInfo
<1>5. /\ artifact \in [Fqns -> Maybe(Output)] /\ debugFile \in [Fqns -> Maybe(Output)]
      /\ buildInfos \subseteq Output
  BY <1>1 DEF CompileTypeOK
<1> HIDE DEF by
<1>6. artifact' \in [Fqns -> Maybe(Output)]
  BY <1>3, <1>4, <1>5 DEF Maybe
<1>7. debugFile' \in [Fqns -> Maybe(Output)] /\ buildInfos' \subseteq Output
  <2>1. \A p \in D : BuildInfo(by(p)) \in Output
    BY <1>2, <1>3
  <2>2. {BuildInfo(j) : j \in J} \subseteq Output
    BY <1>2
  <2> QED
    BY <2>1, <2>2, <1>4, <1>5 DEF Maybe
<1>8. DebugFilesResolve'
  <2>1. \A p \in D : BuildInfo(by(p)) \in {BuildInfo(j) : j \in J}
    BY <1>3
  <2> QED
    BY <1>4, <2>1 DEF CompilationInv, DebugFilesResolve
<1>9. \A p \in Fqns : p[1] \notin Emitted(J) =>
        artifact'[p] = artifact[p] /\ debugFile'[p] = debugFile[p]
  BY <1>3, <1>4
<1>10. ASSUME NEW p \in A \cap D
       PROVE  Made(p, run.read, setting, artifact'[p], debugFile'[p])
  <2>1. p \in JobFqns(J)
    OBVIOUS
  <2>2. /\ artifact'[p] = OutputOf(Whole(run.read), p[1], setting[p[1]])
        /\ debugFile'[p] = BuildInfo(by(p))
    BY <1>3, <1>4, <2>1, ReadIs
  <2> QED
    BY <1>2, <1>3, <2>1, <2>2 DEF Made
<1>11. \A p \in Fqns : artifact[p] # Absent => artifact'[p] # Absent
  BY <1>3, <1>4
<1> QED
  BY <1>6, <1>7, <1>8, <1>9, <1>10, <1>11

-----------------------------------------------------------------------------
(* The steps of a run *)

(* The cache that a run works with *)
LEMMA StartingCacheFacts ==
  ASSUME CompileTypeOK
  PROVE  /\ StartingCache \in [Files -> Maybe(CacheEntry)]
         /\ \A f \in Files : StartingCache[f] = Absent \/ StartingCache[f] = cacheFile[f]
         /\ \A p \in Fqns :
              (/\ p[1] \in ResolvedFiles(source) /\ StartingCache[p[1]] # Absent
               /\ p[2] \in StartingCache[p[1]].artifacts)
              => artifact[p] # Absent
         /\ \A f \in Files :
              (/\ source[f] # Absent
               /\ \A n \in cacheFile[f].artifacts : artifact[<<f, n>>] # Absent)
              => StartingCache[f] = cacheFile[f]
<1> DEFINE read == ReadFromFile(source)
           G == ResolvedFiles(source)
<1>1. cacheFile \in [Files -> Maybe(CacheEntry)]
  BY DEF CompileTypeOK
<1>2. /\ read \in [Files -> Maybe(CacheEntry)]
      /\ \A f \in Files : /\ read[f] = Absent \/ read[f] = cacheFile[f]
                          /\ source[f] # Absent => read[f] = cacheFile[f]
  BY <1>1 DEF ReadFromFile, Maybe
<1>3. StartingCache = [f \in Files |->
         IF f \in G /\ read[f] # Absent /\ (\E n \in read[f].artifacts : artifact[<<f, n>>] = Absent)
         THEN Absent ELSE read[f]]
  BY DEF StartingCache, InvalidateCacheMissingArtifacts
<1> HIDE DEF read, G
<1>4. StartingCache \in [Files -> Maybe(CacheEntry)]
  BY <1>2, <1>3 DEF Maybe
<1>5. \A f \in Files : StartingCache[f] = Absent \/ StartingCache[f] = cacheFile[f]
  BY <1>2, <1>3
<1>6. ASSUME NEW p \in Fqns, p[1] \in G, StartingCache[p[1]] # Absent,
             p[2] \in StartingCache[p[1]].artifacts
      PROVE  artifact[p] # Absent
  <2>1. p[1] \in Files /\ p = <<p[1], p[2]>>
    BY PairFacts
  <2>2. StartingCache[p[1]] = read[p[1]] /\ read[p[1]] # Absent
    BY <1>3, <1>6, <2>1
  <2>3. artifact[<<p[1], p[2]>>] # Absent
    BY <1>3, <1>6, <2>1, <2>2
  <2> QED
    BY <2>1, <2>3
<1>7. \A f \in Files :
        (source[f] # Absent /\ \A n \in cacheFile[f].artifacts : artifact[<<f, n>>] # Absent)
        => StartingCache[f] = cacheFile[f]
  BY <1>2, <1>3
<1> QED
  BY <1>4, <1>5, <1>6, <1>7 DEF G

(* What a run reads is closed, and gives the same dependencies. *)
LEMMA ReadFacts ==
  ASSUME CompileTypeOK, GraphResolves, NEW read, read = [f \in ResolvedFiles(source) |-> source[f]]
  PROVE  /\ GoodRead(read)
         /\ DOMAIN read = ResolvedFiles(source)
         /\ \A f \in ResolvedFiles(source) :
              /\ read[f] = source[f]
              /\ WithDependencies(Whole(read), f) = WithDependencies(source, f)
<1> DEFINE G == ResolvedFiles(source)
<1>1. source \in Sources
  BY DEF CompileTypeOK, Sources
<1>2. /\ G \in SUBSET Files /\ Closed(Dependencies(source), G)
  BY <1>1, ResolvedFilesFacts
<1>3. \A f \in G : source[f] \in Contents
  BY <1>1, <1>2 DEF GraphResolves, Sources, Maybe
<1>4. read \in [G -> Contents] /\ DOMAIN read = G /\ \A f \in G : read[f] = source[f]
  BY <1>3
<1>5. read \in Inputs
  BY <1>2, <1>4 DEF Inputs
<1> HIDE DEF G
<1>6. Whole(read) \in Sources /\ \A f \in G : Whole(read)[f] = source[f]
  BY <1>4, <1>5, WholeFacts
<1>7. \A f \in G : WithDependencies(source, f) = WithDependencies(Whole(read), f)
  BY <1>1, <1>2, <1>6, SameDependencies
<1>8. \A f \in G : Dependencies(Whole(read))[f] = Dependencies(source)[f]
  BY <1>1, <1>2, <1>6, DependenciesFacts
<1>9. Closed(Dependencies(Whole(read)), G)
  BY <1>2, <1>8 DEF Closed
<1> QED
  BY <1>4, <1>5, <1>7, <1>9 DEF GoodRead, G

(* A job that is not needed finds its files in the cache. *)
LEMMA NotNeeded ==
  ASSUME NEW j, NEW cache, NEW src, ~NeedsCompilation(j, cache, src)
  PROVE  /\ \A f \in j.files : cache[f] # Absent /\ cache[f].contentHash = src[f]
         /\ \A f \in j.emits : f \in j.files => cache[f].solcConfig = j.solcConfig
BY DEF NeedsCompilation, HasFileChanged

LEMMA BeginCompileKeeps ==
  ASSUME CompilationInv, NEW force \in BOOLEAN, BeginCompile(force), events' \in Nat
  PROVE  CompilationInv'
<1> DEFINE G == ResolvedFiles(source)
           read == [f \in G |-> source[f]]
           jobs == IF force THEN CreateJobs(source) ELSE NeededJobs(source, StartingCache)
           merged == MergeCompilationJobsWithoutBug(jobs)
<1>1. CompileTypeOK /\ GraphResolves /\ run = Idle /\ setting \in Settings /\ source \in Sources
  BY DEF CompilationInv, BeginCompile, CompileTypeOK, Sources
<1>2. run' = [phase |-> "jobs", force |-> force, read |-> read, cache |-> StartingCache,
              jobs |-> merged, emitted |-> {}, failed |-> FALSE]
  BY DEF BeginCompile
<1>3. /\ source' = source /\ setting' = setting /\ cacheFile' = cacheFile
      /\ artifact' = artifact /\ debugFile' = debugFile /\ buildInfos' = buildInfos
      /\ valid' = valid /\ tainted' = tainted /\ settled' = TRUE
  BY DEF BeginCompile, disk
<1>4. /\ GoodRead(read) /\ DOMAIN read = G
      /\ \A f \in G : /\ read[f] = source[f]
                      /\ WithDependencies(Whole(read), f) = WithDependencies(source, f)
  BY <1>1, ReadFacts
<1>5. /\ \A j \in CreateJobs(source) : GoodJob(j, G, source, setting)
      /\ \A f \in G : \E j \in CreateJobs(source) : f \in j.emits
  BY <1>1, CreateJobsFacts
<1>6. jobs \subseteq CreateJobs(source)
  BY DEF NeededJobs
<1>7. ASSUME NEW f \in G
      PROVE  f \in Emitted(jobs) \/ (~force /\ Skipped(f, read, StartingCache, setting))
  <2>1. PICK j \in CreateJobs(source) : f \in j.emits
    BY <1>5
  <2>2. CASE j \in jobs
    BY <2>1, <2>2 DEF Emitted
  <2>3. CASE j \notin jobs
    <3>1. ~force /\ ~NeedsCompilation(j, StartingCache, source)
      BY <2>1, <2>3 DEF NeededJobs
    <3>2. /\ j.files \subseteq G /\ j.emits \subseteq j.files
          /\ j.solcConfig = setting[f] /\ WithDependencies(source, f) \subseteq j.files
      BY <1>5, <2>1 DEF GoodJob
    <3>3. /\ \A g \in j.files : StartingCache[g] # Absent /\ StartingCache[g].contentHash = source[g]
          /\ StartingCache[f].solcConfig = j.solcConfig
      BY <2>1, <3>1, <3>2, NotNeeded
    <3> HIDE DEF G, read
    <3>4. Skipped(f, read, StartingCache, setting)
      BY <1>4, <2>1, <3>2, <3>3 DEF Skipped
    <3> QED
      BY <3>1, <3>4
  <2> QED
    BY <2>2, <2>3
<1>8. /\ \A j \in merged : GoodJob(j, G, source, setting)
      /\ Emitted(jobs) \subseteq Emitted(merged)
  <2>1. \A j \in jobs : GoodJob(j, G, source, setting)
    BY <1>5, <1>6
  <2> HIDE DEF jobs, G
  <2> QED
    BY <2>1, MergedJobsFacts
<1>9. /\ StartingCache \in [Files -> Maybe(CacheEntry)]
      /\ \A f \in Files : StartingCache[f] = Absent \/ StartingCache[f] = cacheFile[f]
      /\ \A p \in Fqns :
           (/\ p[1] \in G /\ StartingCache[p[1]] # Absent
            /\ p[2] \in StartingCache[p[1]].artifacts)
           => artifact[p] # Absent
  BY <1>1, StartingCacheFacts
<1> HIDE DEF G, read, jobs, merged
<1>10. /\ run'.phase = "jobs" /\ run'.force = force /\ run'.read = read
       /\ run'.cache = StartingCache /\ run'.jobs = merged /\ run'.emitted = {}
       /\ run'.failed = FALSE /\ run' # Idle
  BY <1>2 DEF Idle
<1>11. merged \subseteq Job
  BY <1>8 DEF GoodJob
<1>12. run' \in CompileRun
  BY <1>2, <1>4, <1>9, <1>11 DEF CompileRun, GoodRead
<1>13. CompileTypeOK'
  BY <1>1, <1>3, <1>12 DEF CompileTypeOK
<1>14. PlanOK'
  <2>1. \A j \in merged : GoodJob(j, DOMAIN read, Whole(read), setting)
    BY <1>4, <1>8 DEF GoodJob
  <2> QED
    BY <1>3, <1>4, <1>10, <2>1 DEF PlanOK
<1>15. JobsOK'
  <2>1. \A f \in Files : StartingCache[f] = Absent \/ StartingCache[f] = cacheFile[f]
    BY <1>9
  <2>2. \A f \in DOMAIN read : \/ f \in Emitted(merged \cup {})
                               \/ ~force /\ Skipped(f, read, StartingCache, setting)
    BY <1>4, <1>7, <1>8 DEF Emitted
  <2>3. Emitted({}) = {}
    BY DEF Emitted
  <2>4. \A p \in Fqns :
          (/\ p[1] \in DOMAIN read /\ StartingCache[p[1]] # Absent
           /\ p[2] \in StartingCache[p[1]].artifacts)
          => artifact[p] # Absent
    BY <1>4, <1>9
  <2> QED
    BY <1>3, <1>10, <2>1, <2>2, <2>3, <2>4 DEF JobsOK
<1>16. OutOfStep' = tainted /\ OutOfStep = tainted
  BY <1>1, <1>3, <1>10, RunFacts DEF OutOfStep, Emitted
<1>17. CacheTrue(OutOfStep, cacheFile, artifact, debugFile)'
  BY <1>3, <1>16 DEF CompilationInv
<1>18. DebugFilesResolve' /\ ListedContracts(cacheFile)'
  BY <1>3 DEF CompilationInv, DebugFilesResolve, ListedContracts
<1>19. SettledOK'
  BY <1>3, <1>4, <1>10 DEF SettledOK, G
<1> QED
  BY <1>10, <1>13, <1>14, <1>15, <1>17, <1>18, <1>19 DEF CompilationInv

(* A job of a run ends: what it emits is made from what was read. *)
LEMMA CompileJobKeeps ==
  ASSUME CompilationInv, NEW j \in run.jobs, CompileJob(j), events' \in Nat
  PROVE  CompilationInv'
<1>1. CompileTypeOK /\ run.phase = "jobs" /\ run # Idle /\ PlanOK /\ JobsOK
  BY RunFacts DEF CompilationInv, CompileJob
<1>2. /\ run \in CompileRun /\ run.jobs \subseteq Job /\ run.emitted \subseteq Job
  BY <1>1, RunFacts
<1>3. /\ source' = source /\ setting' = setting /\ cacheFile' = cacheFile
      /\ valid' = valid /\ tainted' = tainted /\ settled' = settled
      /\ run' = [run EXCEPT !.jobs = @ \ {j}, !.emitted = @ \cup {j}]
  BY DEF CompileJob
<1>4. /\ artifact' \in [Fqns -> Maybe(Output)] /\ debugFile' \in [Fqns -> Maybe(Output)]
      /\ buildInfos' \subseteq Output
      /\ DebugFilesResolve'
      /\ \A p \in Fqns : p[1] \notin j.emits =>
           artifact'[p] = artifact[p] /\ debugFile'[p] = debugFile[p]
      /\ \A p \in JobFqns({j}) : Made(p, run.read, setting, artifact'[p], debugFile'[p])
      /\ \A p \in Fqns : artifact[p] # Absent => artifact'[p] # Absent
  <2> DEFINE A == JobFqns({j})
             J == {j}
  <2>1. /\ SaveBuildInfo(J) /\ SaveArtifactAndDebugFile(J, A, A)
        /\ A \in SUBSET JobFqns(J) /\ J \in SUBSET run.jobs
    BY DEF CompileJob
  <2>3. Emitted(J) = j.emits
    BY EmittedFacts
  <2>2. /\ artifact' \in [Fqns -> Maybe(Output)] /\ debugFile' \in [Fqns -> Maybe(Output)]
        /\ buildInfos' \subseteq Output
        /\ DebugFilesResolve'
        /\ \A p \in Fqns : p[1] \notin Emitted(J) =>
             artifact'[p] = artifact[p] /\ debugFile'[p] = debugFile[p]
        /\ \A p \in A \cap A : Made(p, run.read, setting, artifact'[p], debugFile'[p])
        /\ \A p \in Fqns : artifact[p] # Absent => artifact'[p] # Absent
    BY <1>1, <2>1, SaveFacts
  <2> HIDE DEF J
  <2> QED
    BY <2>2, <2>3
<1>5. /\ run'.phase = "jobs" /\ run'.read = run.read /\ run'.cache = run.cache
      /\ run'.jobs = run.jobs \ {j} /\ run'.emitted = run.emitted \cup {j}
      /\ run'.failed = run.failed /\ run'.force = run.force /\ run' \in CompileRun
      /\ run' # Idle
  BY <1>1, <1>2, <1>3 DEF CompileRun, Idle
<1>6. run'.jobs \cup run'.emitted = run.jobs \cup run.emitted
  BY <1>5
<1>7. CompileTypeOK'
  BY <1>1, <1>3, <1>4, <1>5 DEF CompileTypeOK
<1>8. PlanOK'
  BY <1>1, <1>3, <1>5, <1>6 DEF PlanOK
<1>9. Emitted(run'.emitted) = Emitted(run.emitted) \cup j.emits
  BY <1>5, EmittedFacts
<1>10. JobsOK'
  <2>1. ASSUME NEW p \in Fqns, p[1] \in Emitted(run'.emitted),
               p[2] \in ContractsOf(p[1], run.read[p[1]])
        PROVE  Made(p, run.read, setting, artifact'[p], debugFile'[p])
    <3>1. CASE p[1] \in j.emits
      BY <2>1, <3>1, <1>4, EmittedFacts DEF JobFqns
    <3>2. CASE p[1] \notin j.emits
      BY <2>1, <3>2, <1>1, <1>4, <1>9 DEF JobsOK
    <3> QED
      BY <3>1, <3>2
  <2>2. \A p \in Fqns :
          (/\ p[1] \in DOMAIN run.read /\ run.cache[p[1]] # Absent
           /\ p[2] \in run.cache[p[1]].artifacts)
          => artifact'[p] # Absent
    BY <1>1, <1>4 DEF JobsOK
  <2>3. ~run.failed => \A f \in DOMAIN run.read :
          \/ f \in Emitted(run'.jobs \cup run'.emitted)
          \/ ~run.force /\ Skipped(f, run.read, run.cache, setting)
    BY <1>1, <1>6 DEF JobsOK
  <2>4. \A f \in Files : run.cache[f] = Absent \/ run.cache[f] = cacheFile[f]
    BY <1>1 DEF JobsOK
  <2> QED
    BY <1>3, <1>5, <2>1, <2>2, <2>3, <2>4 DEF JobsOK
<1>11. CacheTrue(OutOfStep', cacheFile, artifact', debugFile')
  <2>1. /\ OutOfStep = tainted \cup Emitted(run.emitted)
        /\ OutOfStep' = tainted \cup Emitted(run'.emitted)
    BY <1>1, <1>3, <1>5 DEF OutOfStep
  <2>2. OutOfStep \subseteq OutOfStep' /\ j.emits \subseteq OutOfStep'
    BY <1>9, <2>1
  <2>3. PICK T, art2, debug2 : T = OutOfStep' /\ art2 = artifact' /\ debug2 = debugFile'
    OBVIOUS
  <2>4. CacheTrue(OutOfStep, cacheFile, artifact, debugFile)
    BY DEF CompilationInv
  <2>5. \A p \in Fqns : p[1] \notin T /\ art2[p] # Absent =>
          art2[p] = artifact[p] /\ debug2[p] = debugFile[p]
    BY <1>4, <2>2, <2>3
  <2>6. CacheTrue(T, cacheFile, art2, debug2)
    BY <2>2, <2>3, <2>4, <2>5, CacheTrueKeeps
  <2> QED
    BY <2>3, <2>6
<1>12. SettledOK => SettledOK'
  BY <1>1, <1>3, <1>5 DEF SettledOK
<1> QED
  BY <1>3, <1>4, <1>5, <1>7, <1>8, <1>10, <1>11, <1>12 DEF CompilationInv

LEMMA FailJobKeeps ==
  ASSUME CompilationInv, NEW j \in run.jobs, FailJob(j), events' \in Nat
  PROVE  CompilationInv'
<1>1. CompileTypeOK /\ run.phase = "jobs" /\ run # Idle /\ PlanOK /\ JobsOK
  BY RunFacts DEF CompilationInv, FailJob
<1>2. /\ run \in CompileRun /\ run.jobs \subseteq Job /\ run.emitted \subseteq Job
  BY <1>1, RunFacts
<1>3. /\ source' = source /\ setting' = setting /\ cacheFile' = cacheFile
      /\ artifact' = artifact /\ debugFile' = debugFile /\ buildInfos' = buildInfos
      /\ valid' = valid /\ tainted' = tainted /\ settled' = settled
      /\ run' = [run EXCEPT !.jobs = @ \ {j}, !.failed = TRUE]
  BY DEF FailJob, disk
<1>4. /\ run'.phase = "jobs" /\ run'.read = run.read /\ run'.cache = run.cache
      /\ run'.jobs = run.jobs \ {j} /\ run'.emitted = run.emitted
      /\ run'.failed = TRUE /\ run'.force = run.force /\ run' \in CompileRun
      /\ run' # Idle
  BY <1>1, <1>2, <1>3 DEF CompileRun, Idle
<1>5. CompileTypeOK'
  BY <1>1, <1>3, <1>4 DEF CompileTypeOK
<1>6. PlanOK'
  BY <1>1, <1>3, <1>4 DEF PlanOK
<1>7. JobsOK'
  BY <1>1, <1>3, <1>4 DEF JobsOK
<1>8. CacheTrue(OutOfStep, cacheFile, artifact, debugFile)'
  <2>1. OutOfStep' = OutOfStep
    BY <1>1, <1>3, <1>4 DEF OutOfStep
  <2> QED
    BY <1>3, <2>1 DEF CompilationInv
<1>9. SettledOK => SettledOK'
  BY <1>1, <1>3, <1>4 DEF SettledOK
<1>10. DebugFilesResolve' /\ ListedContracts(cacheFile')
  BY <1>3 DEF CompilationInv, DebugFilesResolve
<1> QED
  BY <1>3, <1>4, <1>5, <1>6, <1>7, <1>8, <1>9, <1>10 DEF CompilationInv

(* A run that ends without having settled anything: the files that it has  *)
(* emitted count as out of step.                                           *)
LEMMA EndsKeeps ==
  ASSUME CompilationInv, NEW T, OutOfStep \subseteq T, tainted' = T, T \subseteq Files,
         run' = Idle, settled' = FALSE, source' \in Sources,
         setting' = setting, cacheFile' = cacheFile,
         artifact' \in [Fqns -> Maybe(Output)], debugFile' \in [Fqns -> Maybe(Output)],
         buildInfos' \subseteq Output, valid' \subseteq Fqns, events' \in Nat, DebugFilesResolve',
         \A p \in Fqns : p[1] \notin T /\ artifact'[p] # Absent =>
           artifact'[p] = artifact[p] /\ debugFile'[p] = debugFile[p]
  PROVE  CompilationInv'
<1>1. CompileTypeOK'
  BY DEF CompilationInv, CompileTypeOK, Sources
<1>2. OutOfStep' = T /\ run'.phase = "idle"
  BY DEF OutOfStep, Idle
<1>3. PICK art2, debug2 : art2 = artifact' /\ debug2 = debugFile'
  OBVIOUS
<1>4. \A p \in Fqns : p[1] \notin T /\ art2[p] # Absent =>
        art2[p] = artifact[p] /\ debug2[p] = debugFile[p]
  BY <1>3
<1>5. CacheTrue(OutOfStep, cacheFile, artifact, debugFile)
  BY DEF CompilationInv
<1>6. CacheTrue(T, cacheFile, art2, debug2)
  BY <1>4, <1>5, CacheTrueKeeps
<1>7. ListedContracts(cacheFile')
  BY DEF CompilationInv
<1> QED
  BY <1>1, <1>2, <1>3, <1>6, <1>7 DEF CompilationInv

(* The files that a run has emitted are files, and are out of step while   *)
(* its jobs run.                                                           *)
LEMMA EmittedOutOfStep ==
  ASSUME CompilationInv, run.phase = "jobs"
  PROVE  /\ run # Idle
         /\ \A j \in run.jobs \cup run.emitted : j.emits \in SUBSET Files
         /\ Emitted(run.emitted) \in SUBSET Files
         /\ tainted \in SUBSET Files
         /\ OutOfStep = tainted \cup Emitted(run.emitted)
<1>1. run # Idle /\ run.jobs \subseteq Job /\ run.emitted \subseteq Job
  BY RunFacts DEF CompilationInv
<1> QED
  BY <1>1 DEF Job, Emitted, OutOfStep, CompilationInv, CompileTypeOK

LEMMA ThrowCompileFailureKeeps ==
  ASSUME CompilationInv, ThrowCompileFailure, events' \in Nat
  PROVE  CompilationInv'
<1> DEFINE T == tainted \cup Emitted(run.emitted)
<1>1. run.phase = "jobs" /\ tainted' = T /\ run' = Idle /\ settled' = FALSE
  BY DEF ThrowCompileFailure
<1>2. /\ source' = source /\ setting' = setting /\ cacheFile' = cacheFile
      /\ artifact' = artifact /\ debugFile' = debugFile /\ buildInfos' = buildInfos
      /\ valid' = valid
  BY DEF ThrowCompileFailure, disk
<1>3. OutOfStep \subseteq T /\ T \subseteq Files
  BY <1>1, EmittedOutOfStep
<1>4. /\ source' \in Sources
      /\ artifact' \in [Fqns -> Maybe(Output)] /\ debugFile' \in [Fqns -> Maybe(Output)]
      /\ buildInfos' \subseteq Output /\ valid' \subseteq Fqns
  BY <1>2 DEF CompilationInv, CompileTypeOK, Sources
<1>5. DebugFilesResolve'
  BY <1>2 DEF CompilationInv, DebugFilesResolve
<1> HIDE DEF T
<1> QED
  BY <1>1, <1>2, <1>3, <1>4, <1>5, EndsKeeps

LEMMA CrashInJobsKeeps ==
  ASSUME CompilationInv, NEW J \in SUBSET run.jobs, CrashInJobs(J), events' \in Nat
  PROVE  CompilationInv'
<1> DEFINE T == tainted \cup Emitted(run.emitted \cup J)
<1>1. run.phase = "jobs" /\ tainted' = T /\ run' = Idle /\ settled' = FALSE
  BY DEF CrashInJobs, Dead
<1>2. source' = source /\ setting' = setting /\ cacheFile' = cacheFile /\ valid' = {}
  BY DEF CrashInJobs, Dead
<1>3. OutOfStep \subseteq T /\ T \subseteq Files /\ Emitted(J) \subseteq T
  <2>1. Emitted(run.emitted \cup J) = Emitted(run.emitted) \cup Emitted(J)
    BY EmittedFacts
  <2>2. Emitted(J) \subseteq Files
    BY <1>1, EmittedOutOfStep DEF Emitted
  <2> QED
    BY <1>1, <2>1, <2>2, EmittedOutOfStep
<1>4. PICK A \in SUBSET JobFqns(J), D \in SUBSET JobFqns(J) : SaveArtifactAndDebugFile(J, A, D)
  BY DEF CrashInJobs
<1>5. SaveBuildInfo(J) /\ run # Idle
  BY <1>1, EmittedOutOfStep DEF CrashInJobs
<1>6. /\ artifact' \in [Fqns -> Maybe(Output)] /\ debugFile' \in [Fqns -> Maybe(Output)]
      /\ buildInfos' \subseteq Output
      /\ DebugFilesResolve'
      /\ \A p \in Fqns : p[1] \notin Emitted(J) =>
           artifact'[p] = artifact[p] /\ debugFile'[p] = debugFile[p]
  BY <1>4, <1>5, SaveFacts
<1>7. source' \in Sources /\ valid' \subseteq Fqns
  BY <1>2 DEF CompilationInv, CompileTypeOK, Sources
<1> HIDE DEF T
<1>8. \A p \in Fqns : p[1] \notin T /\ artifact'[p] # Absent =>
        artifact'[p] = artifact[p] /\ debugFile'[p] = debugFile[p]
  BY <1>3, <1>6
<1> QED
  BY <1>1, <1>2, <1>3, <1>6, <1>7, <1>8, EndsKeeps

(* Removed artifacts: their debug files go with them, or stay. *)
LEMMA RemoveFacts ==
  ASSUME CompilationInv, NEW A \in SUBSET Fqns, NEW D \in SUBSET A, RemoveArtifactFiles(A, D)
  PROVE  /\ artifact' \in [Fqns -> Maybe(Output)] /\ debugFile' \in [Fqns -> Maybe(Output)]
         /\ \A p \in Fqns : artifact'[p] # Absent =>
              p \notin A /\ artifact'[p] = artifact[p] /\ debugFile'[p] = debugFile[p]
         /\ \A p \in Fqns \ A : artifact'[p] = artifact[p]
         /\ \A p \in Fqns : debugFile'[p] # Absent => debugFile'[p] = debugFile[p]
<1>1. artifact \in [Fqns -> Maybe(Output)] /\ debugFile \in [Fqns -> Maybe(Output)]
  BY DEF CompilationInv, CompileTypeOK
<1>2. /\ artifact' = [p \in Fqns |-> IF p \in A THEN Absent ELSE artifact[p]]
      /\ debugFile' = [p \in Fqns |-> IF p \in D THEN Absent ELSE debugFile[p]]
  BY DEF RemoveArtifactFiles
<1> QED
  BY <1>1, <1>2 DEF Maybe

LEMMA CrashInRemovalKeeps ==
  ASSUME CompilationInv, CrashInRemoval, events' \in Nat
  PROVE  CompilationInv'
<1>1. run.phase = "obsolete" /\ tainted' = tainted /\ run' = Idle /\ settled' = FALSE
  BY DEF CrashInRemoval, Dead
<1>2. /\ source' = source /\ setting' = setting /\ cacheFile' = cacheFile /\ valid' = {}
      /\ buildInfos' = buildInfos
  BY DEF CrashInRemoval, Dead
<1>3. OutOfStep = tainted /\ tainted \subseteq Files
  BY <1>1 DEF OutOfStep, CompilationInv, CompileTypeOK
<1>4. PICK A \in SUBSET (OnDisk \ valid) : \E D \in SUBSET A : RemoveArtifactFiles(A, D)
  BY DEF CrashInRemoval
<1>5. PICK D \in SUBSET A : RemoveArtifactFiles(A, D)
  BY <1>4
<1>6. A \in SUBSET Fqns
  BY <1>4 DEF OnDisk
<1>7. /\ artifact' \in [Fqns -> Maybe(Output)] /\ debugFile' \in [Fqns -> Maybe(Output)]
      /\ \A p \in Fqns : artifact'[p] # Absent =>
           artifact'[p] = artifact[p] /\ debugFile'[p] = debugFile[p]
      /\ \A p \in Fqns : debugFile'[p] # Absent => debugFile'[p] = debugFile[p]
  BY <1>5, <1>6, RemoveFacts
<1>8. DebugFilesResolve'
  BY <1>2, <1>7 DEF CompilationInv, DebugFilesResolve
<1>9. source' \in Sources /\ valid' \subseteq Fqns /\ buildInfos' \subseteq Output
  BY <1>2 DEF CompilationInv, CompileTypeOK, Sources
<1> QED
  BY <1>1, <1>2, <1>3, <1>7, <1>8, <1>9, EndsKeeps

(* A build info that is removed is not named by a debug file any more. *)
LEMMA CrashInBuildInfoRemovalKeeps ==
  ASSUME CompilationInv, CrashInBuildInfoRemoval, events' \in Nat
  PROVE  CompilationInv'
<1> DEFINE A == OnDisk \ valid
<1>1. run.phase = "obsolete" /\ tainted' = tainted /\ run' = Idle /\ settled' = FALSE
  BY DEF CrashInBuildInfoRemoval, Dead
<1>2. /\ source' = source /\ setting' = setting /\ cacheFile' = cacheFile /\ valid' = {}
      /\ RemoveArtifactFiles(A, A)
  BY DEF CrashInBuildInfoRemoval, Dead
<1>3. OutOfStep = tainted /\ tainted \subseteq Files
  BY <1>1 DEF OutOfStep, CompilationInv, CompileTypeOK
<1>4. A \in SUBSET Fqns /\ A \in SUBSET A
  BY DEF OnDisk
<1>5. PICK B \in SUBSET buildInfos : buildInfos' = B \cup UsedBuildInfos(debugFile')
  BY DEF CrashInBuildInfoRemoval
<1>6. UsedBuildInfos(debugFile') = buildInfos \cap {debugFile'[p] : p \in Fqns}
  BY DEF UsedBuildInfos
<1>7. /\ artifact' \in [Fqns -> Maybe(Output)] /\ debugFile' \in [Fqns -> Maybe(Output)]
      /\ \A p \in Fqns : artifact'[p] # Absent =>
           artifact'[p] = artifact[p] /\ debugFile'[p] = debugFile[p]
      /\ \A p \in Fqns : debugFile'[p] # Absent => debugFile'[p] = debugFile[p]
  BY <1>2, <1>4, RemoveFacts
<1>8. DebugFilesResolve'
  <2> SUFFICES ASSUME NEW p \in Fqns, debugFile'[p] # Absent PROVE debugFile'[p] \in buildInfos'
    BY DEF DebugFilesResolve
  <2>1. debugFile'[p] \in buildInfos
    BY <1>7 DEF CompilationInv, DebugFilesResolve
  <2> QED
    BY <1>5, <1>6, <2>1
<1>9. source' \in Sources /\ valid' \subseteq Fqns /\ buildInfos' \subseteq Output
  BY <1>2, <1>5, <1>6 DEF CompilationInv, CompileTypeOK, Sources
<1> QED
  BY <1>1, <1>2, <1>3, <1>7, <1>8, <1>9, EndsKeeps

LEMMA ThrowArtifactNotFoundKeeps ==
  ASSUME CompilationInv, ThrowArtifactNotFound, events' \in Nat
  PROVE  CompilationInv'
<1>1. run.phase = "obsolete" /\ tainted' = tainted /\ run' = Idle /\ settled' = FALSE
  BY DEF ThrowArtifactNotFound
<1>2. /\ source' = source /\ setting' = setting /\ cacheFile' = cacheFile
      /\ artifact' = artifact /\ debugFile' = debugFile /\ buildInfos' = buildInfos
      /\ valid' = valid
  BY DEF ThrowArtifactNotFound, disk
<1>3. OutOfStep = tainted /\ tainted \subseteq Files
  BY <1>1 DEF OutOfStep, CompilationInv, CompileTypeOK
<1>4. /\ source' \in Sources
      /\ artifact' \in [Fqns -> Maybe(Output)] /\ debugFile' \in [Fqns -> Maybe(Output)]
      /\ buildInfos' \subseteq Output /\ valid' \subseteq Fqns
  BY <1>2 DEF CompilationInv, CompileTypeOK, Sources
<1>5. DebugFilesResolve'
  BY <1>2 DEF CompilationInv, DebugFilesResolve
<1> QED
  BY <1>1, <1>2, <1>3, <1>4, <1>5, EndsKeeps

LEMMA DeleteArtifactKeeps ==
  ASSUME CompilationInv, NEW q \in Fqns, DeleteArtifact(q), events' \in Nat
  PROVE  CompilationInv'
<1>1. run = Idle /\ run' = Idle /\ tainted' = tainted /\ settled' = FALSE
  BY DEF DeleteArtifact
<1>2. /\ source' = source /\ setting' = setting /\ cacheFile' = cacheFile
      /\ artifact' = [artifact EXCEPT ![q] = Absent]
      /\ debugFile' = debugFile /\ buildInfos' = buildInfos /\ valid' = valid
  BY DEF DeleteArtifact
<1>3. OutOfStep = tainted /\ tainted \subseteq Files
  BY <1>1 DEF OutOfStep, Idle, CompilationInv, CompileTypeOK
<1>4. /\ source' \in Sources
      /\ artifact' \in [Fqns -> Maybe(Output)] /\ debugFile' \in [Fqns -> Maybe(Output)]
      /\ buildInfos' \subseteq Output /\ valid' \subseteq Fqns
  BY <1>2 DEF CompilationInv, CompileTypeOK, Sources, Maybe
<1>5. DebugFilesResolve'
  BY <1>2 DEF CompilationInv, DebugFilesResolve
<1>6. \A p \in Fqns : artifact'[p] # Absent =>
        artifact'[p] = artifact[p] /\ debugFile'[p] = debugFile[p]
  BY <1>2 DEF CompilationInv, CompileTypeOK
<1> QED
  BY <1>1, <1>2, <1>3, <1>4, <1>5, <1>6, EndsKeeps

LEMMA CleanKeeps ==
  ASSUME CompilationInv, Clean, events' \in Nat
  PROVE  CompilationInv'
<1>1. /\ run' = Idle /\ settled' = FALSE /\ tainted' = {} /\ buildInfos' = {}
      /\ source' = source /\ setting' = setting /\ valid' = valid
      /\ cacheFile' = [f \in Files |-> Absent]
      /\ artifact' = [p \in Fqns |-> Absent] /\ debugFile' = [p \in Fqns |-> Absent]
  BY DEF Clean
<1>2. CompileTypeOK'
  BY <1>1 DEF CompilationInv, CompileTypeOK, Maybe
<1>3. run'.phase = "idle"
  BY <1>1 DEF Idle
<1>4. DebugFilesResolve' /\ ListedContracts(cacheFile')
  BY <1>1 DEF DebugFilesResolve, ListedContracts
<1>5. CacheTrue(OutOfStep, cacheFile, artifact, debugFile)'
  BY <1>1 DEF CacheTrue
<1> QED
  BY <1>1, <1>2, <1>3, <1>4, <1>5 DEF CompilationInv

(* A file that a run skips has the artifacts that compiling it would make. *)
LEMMA SkippedIsMade ==
  ASSUME CompilationInv, run.phase = "jobs", NEW p \in Fqns, p[1] \in DOMAIN run.read,
         p[1] \notin OutOfStep, Skipped(p[1], run.read, run.cache, setting),
         p[2] \in run.cache[p[1]].artifacts, artifact[p] # Absent
  PROVE  Made(p, run.read, setting, artifact[p], debugFile[p])
<1> DEFINE f == p[1]
           I == artifact[p].input
           W == WithDependencies(Whole(run.read), f)
<1>1. CompileTypeOK /\ run # Idle /\ PlanOK /\ JobsOK
  BY RunFacts DEF CompilationInv
<1>2. f \in Files /\ GoodRead(run.read)
  BY <1>1, PairFacts DEF PlanOK
<1>3. /\ Whole(run.read) \in Sources /\ DOMAIN run.read \in SUBSET Files
      /\ \A g \in DOMAIN run.read : Whole(run.read)[g] = run.read[g]
  BY <1>2, WholeFacts DEF GoodRead
<1>4. W \subseteq DOMAIN run.read /\ f \in W
  BY <1>2, <1>3, WithDependenciesFacts DEF GoodRead
<1>5. \A g \in Files : run.cache[g] # Absent => run.cache[g] = cacheFile[g]
  BY <1>1 DEF JobsOK
<1>6. /\ run.cache[f] # Absent /\ run.cache[f].solcConfig = setting[f]
      /\ \A g \in W : run.cache[g] # Absent /\ run.cache[g].contentHash = run.read[g]
  BY DEF Skipped
<1>7. FromEntry(p, cacheFile[f], cacheFile, artifact[p], debugFile[p])
  BY <1>2, <1>5, <1>6 DEF CompilationInv, CacheTrue
<1>8. /\ artifact[p].config = setting[f] /\ InputOf(I, f)
      /\ \A g \in DOMAIN I : cacheFile[g] # Absent => cacheFile[g].contentHash = I[g]
      /\ debugFile[p] # Absent /\ debugFile[p].config = setting[f]
      /\ \A g \in DOMAIN I : g \in DOMAIN debugFile[p].input /\ debugFile[p].input[g] = I[g]
  BY <1>2, <1>5, <1>6, <1>7 DEF FromEntry
<1>9. artifact[p] = [config |-> artifact[p].config, input |-> I] /\ I \in Inputs
  BY <1>1 DEF CompileTypeOK, Maybe, Output
<1> HIDE DEF I, W, f
<1>10. \A g \in W : g \in DOMAIN I => run.read[g] = I[g]
  BY <1>3, <1>4, <1>5, <1>6, <1>8
<1>11. DOMAIN I = W
  <2>1. \A g \in W : g \in DOMAIN I => Whole(run.read)[g] = I[g]
    BY <1>3, <1>4, <1>10
  <2> QED
    BY <1>2, <1>3, <1>8, <2>1, UnchangedInput DEF W
<1>12. I = [g \in W |-> Whole(run.read)[g]]
  <2>1. I \in [DOMAIN I -> Contents]
    BY <1>9, WholeFacts
  <2> QED
    BY <1>3, <1>4, <1>10, <1>11, <2>1
<1>13. artifact[p] = OutputOf(Whole(run.read), f, setting[f])
  BY <1>8, <1>9, <1>12 DEF OutputOf, W
<1> QED
  BY <1>8, <1>10, <1>11, <1>13 DEF Made, W, f

(* What compiling makes is what the entry says that is then written. *)
LEMMA MadeFromEntry ==
  ASSUME NEW read, GoodRead(read), NEW st \in Settings, NEW cache, NEW p \in Fqns, p[1] \in DOMAIN read,
         \A f \in DOMAIN read : UpToDate(f, read[f], cache, st),
         NEW a, NEW d, Made(p, read, st, a, d)
  PROVE  FromEntry(p, cache[p[1]], cache, a, d)
<1>1. p[1] \in Files /\ st[p[1]] \in Configs
  BY PairFacts, SettingsAssumption
<1>2. /\ a.config = st[p[1]]
      /\ InputOf(a.input, p[1])
      /\ DOMAIN a.input = WithDependencies(Whole(read), p[1])
      /\ DOMAIN a.input \subseteq DOMAIN read
      /\ \A g \in DOMAIN a.input : a.input[g] = read[g]
  BY <1>1, OutputFacts DEF Made
<1>3. p[1] \in DOMAIN a.input
  BY <1>2 DEF InputOf
<1> QED
  BY <1>2, <1>3 DEF Made, UpToDate, FromEntry

LEMMA WriteCacheKeeps ==
  ASSUME CompilationInv, WriteCache, events' \in Nat
  PROVE  CompilationInv'
<1> DEFINE E == Emitted(run.emitted)
           N == AddFiles
           R == DOMAIN run.read
<1>1. /\ CompileTypeOK /\ run.phase = "jobs" /\ run # Idle /\ PlanOK /\ JobsOK
      /\ run.jobs = {} /\ ~run.failed
  BY RunFacts DEF CompilationInv, WriteCache
<1>2. /\ run \in CompileRun /\ run.emitted \subseteq Job /\ run.read \in Inputs
      /\ run.cache \in [Files -> Maybe(CacheEntry)]
  BY <1>1, RunFacts
<1>3. /\ source' = source /\ setting' = setting /\ artifact' = artifact
      /\ debugFile' = debugFile /\ buildInfos' = buildInfos /\ settled' = settled
      /\ valid' = valid \cup FqnsOf(N) /\ cacheFile' = N
      /\ run' = [run EXCEPT !.phase = "obsolete", !.cache = N]
      /\ tainted' = (tainted \ E) \cup LeftBehind
  BY DEF WriteCache
<1>4. /\ R \in SUBSET Files /\ \A f \in R : run.read[f] \in Contents
  BY <1>2, WholeFacts
<1>5. ASSUME NEW f \in E
      PROVE  /\ f \in R
             /\ N[f].contentHash = run.read[f] /\ N[f].solcConfig = setting[f]
             /\ N[f].artifacts = ContractsOf(f, run.read[f])
             /\ N[f] \in CacheEntry /\ N[f] # Absent
  <2> DEFINE k == EmittedBy(run.emitted, f)
  <2>1. k \in run.emitted /\ f \in k.emits
    BY EmittedByFacts
  <2> HIDE DEF k
  <2>2. f \in R /\ k.solcConfig = setting[f] /\ k.solcConfig \in Configs
    BY <1>1, <2>1, JobFacts
  <2>3. f \in Files /\ run.read[f] \in Contents
    BY <1>4, <2>2
  <2>4. N[f] = [contentHash |-> run.read[f], solcConfig |-> k.solcConfig,
                artifacts |-> ContractsOf(f, run.read[f])]
    BY <2>3 DEF AddFiles, k
  <2>5. ContractsOf(f, run.read[f]) \in SUBSET Names
    BY <2>3, ContentsAssumption
  <2> QED
    BY <2>2, <2>3, <2>4, <2>5, AbsentAssumption DEF CacheEntry
<1>6. \A f \in Files \ E : N[f] = run.cache[f]
  BY DEF AddFiles
<1>7. \A f \in Files : run.cache[f] = Absent \/ run.cache[f] = cacheFile[f]
  BY <1>1 DEF JobsOK
<1>8. \A f \in R \ E : ~run.force /\ Skipped(f, run.read, run.cache, setting)
  <2>1. run.jobs \cup run.emitted = run.emitted
    BY <1>1
  <2> QED
    BY <1>1, <2>1 DEF JobsOK
<1>9. GoodRead(run.read) /\ Whole(run.read) \in Sources
  BY <1>1, <1>2, WholeFacts DEF PlanOK
<1>10. \A f \in R : UpToDate(f, run.read[f], N, setting)
  <2> SUFFICES ASSUME NEW f \in R PROVE UpToDate(f, run.read[f], N, setting)
    OBVIOUS
  <2>1. CASE f \in E
    BY <2>1, <1>5 DEF UpToDate
  <2>2. CASE f \notin E
    <3>1. f \in WithDependencies(Whole(run.read), f)
      BY <1>4, <1>9, WithDependenciesFacts
    <3>2. N[f] = run.cache[f]
      BY <1>4, <1>6, <2>2
    <3> QED
      BY <1>8, <2>2, <3>1, <3>2 DEF Skipped, UpToDate
  <2> QED
    BY <2>1, <2>2
<1>11. E \subseteq R /\ OutOfStep = tainted \cup E
  BY <1>1, <1>5 DEF OutOfStep
<1>12. N \in [Files -> Maybe(CacheEntry)]
  <2>1. \A f \in Files : N[f] \in Maybe(CacheEntry)
    BY <1>2, <1>5, <1>6 DEF Maybe
  <2> QED
    BY <2>1 DEF AddFiles
<1> HIDE DEF E, N, R
<1>13. ListedContracts(N)
  <2> SUFFICES ASSUME NEW f \in Files, N[f] # Absent
               PROVE  N[f].artifacts = ContractsOf(f, N[f].contentHash)
    BY DEF ListedContracts
  <2>1. CASE f \in E
    BY <2>1, <1>5
  <2>2. CASE f \notin E
    BY <2>2, <1>6, <1>7 DEF CompilationInv, ListedContracts
  <2> QED
    BY <2>1, <2>2
(* A contract of the graph, unless the file is left out of step *)
<1>14. ASSUME NEW p \in Fqns, p[1] \in R, p[1] \in E \/ p[1] \notin tainted,
              p[2] \in N[p[1]].artifacts
       PROVE  Made(p, run.read, setting, artifact[p], debugFile[p])
  <2>1. CASE p[1] \in E
    BY <1>1, <1>5, <1>14, <2>1 DEF JobsOK, E
  <2>2. CASE p[1] \notin E
    <3>1. p[1] \in Files
      BY PairFacts
    <3>2. Skipped(p[1], run.read, run.cache, setting) /\ p[2] \in run.cache[p[1]].artifacts
      BY <1>6, <1>8, <1>14, <2>2, <3>1
    <3>3. artifact[p] # Absent
      BY <1>1, <1>14, <3>2 DEF JobsOK, Skipped, R
    <3>4. p[1] \notin OutOfStep
      BY <1>11, <1>14, <2>2
    <3> QED
      BY <1>1, <1>14, <3>2, <3>3, <3>4, SkippedIsMade DEF R
  <2> QED
    BY <2>1, <2>2
<1>15. CacheTrue(tainted', N, artifact, debugFile)
  <2>1. ASSUME NEW p \in Fqns, p[1] \notin tainted', N[p[1]] # Absent,
               p[2] \in N[p[1]].artifacts, artifact[p] # Absent
        PROVE  FromEntry(p, N[p[1]], N, artifact[p], debugFile[p])
    <3>1. p[1] \in Files /\ p[2] \in Names /\ p = <<p[1], p[2]>>
      BY PairFacts
    <3>2. p[1] \in E \/ p[1] \notin tainted
      BY <1>3, <2>1
    <3>3. CASE p[1] \in R
      <4>1. Made(p, run.read, setting, artifact[p], debugFile[p])
        BY <1>14, <2>1, <3>2, <3>3
      <4>2. setting \in Settings
        BY <1>1 DEF CompileTypeOK
      <4> QED
        BY <1>9, <1>10, <3>3, <4>1, <4>2, MadeFromEntry DEF R
    <3>4. CASE p[1] \notin R
      <4>1. p[1] \notin E /\ p[1] \notin OutOfStep
        BY <1>11, <3>2, <3>4
      <4>2. N[p[1]] = cacheFile[p[1]]
        BY <1>6, <1>7, <2>1, <3>1, <4>1
      <4>3. FromEntry(p, cacheFile[p[1]], cacheFile, artifact[p], debugFile[p])
        BY <2>1, <4>1, <4>2 DEF CompilationInv, CacheTrue
      <4>4. p[1] \notin LeftBehind
        BY <1>3, <2>1
      <4>5. DOMAIN artifact[p].input \cap E = {}
        BY <2>1, <3>1, <3>4, <4>4 DEF LeftBehind, E, R
      <4>6. DOMAIN artifact[p].input \subseteq Files
        BY <4>3, WholeFacts DEF FromEntry, InputOf
      <4>7. \A g \in DOMAIN artifact[p].input : N[g] = Absent \/ N[g] = cacheFile[g]
        BY <1>6, <1>7, <4>5, <4>6
      <4> QED
        BY <4>2, <4>3, <4>7 DEF FromEntry
    <3> QED
      BY <3>3, <3>4
  <2> QED
    BY <2>1 DEF CacheTrue
<1>16. /\ run'.phase = "obsolete" /\ run'.read = run.read /\ run'.jobs = run.jobs
       /\ run'.emitted = run.emitted /\ run'.force = run.force /\ run' \in CompileRun
       /\ run' # Idle
  BY <1>1, <1>2, <1>3, <1>12 DEF CompileRun, Idle
<1>17. CompileTypeOK'
  <2>1. tainted' \subseteq Files /\ valid' \subseteq Fqns
    BY <1>1, <1>3 DEF CompileTypeOK, LeftBehind, FqnsOf
  <2> QED
    BY <1>1, <1>3, <1>12, <1>16, <2>1 DEF CompileTypeOK
<1>18. PlanOK'
  BY <1>1, <1>3, <1>16 DEF PlanOK
<1>19. ArtifactsCurrent'
  <2> SUFFICES ASSUME NEW p \in ReadFqns', p[1] \notin tainted' \/ run'.force
               PROVE  Current(p)'
    BY DEF ArtifactsCurrent
  <2>1. p \in Fqns /\ p[1] \in R /\ p[2] \in ContractsOf(p[1], run.read[p[1]])
    BY <1>16 DEF ReadFqns, R
  <2>2. p[2] \in N[p[1]].artifacts
    BY <1>10, <1>13, <2>1, PairFacts DEF ListedContracts, UpToDate
  <2>3. p[1] \in E \/ p[1] \notin tainted
    BY <1>3, <1>8, <1>16, <2>1
  <2>4. Made(p, run.read, setting, artifact[p], debugFile[p])
    BY <1>14, <2>1, <2>2, <2>3
  <2>5. Read' = Whole(run.read)
    BY <1>16 DEF Read, Whole
  <2> QED
    BY <1>3, <1>16, <2>4, <2>5 DEF Current, Made
<1>20. WrittenOK'
  <2>1. FqnsOf(N) \subseteq valid'
    BY <1>3
  <2>2. \A f \in DOMAIN run'.read : UpToDate(f, run'.read[f], N, setting')
    BY <1>3, <1>10, <1>16 DEF R
  <2> QED
    BY <1>3, <1>19, <2>1, <2>2 DEF WrittenOK
<1>21. CacheTrue(OutOfStep, cacheFile, artifact, debugFile)'
  <2>1. OutOfStep' = tainted'
    BY <1>16 DEF OutOfStep
  <2> QED
    BY <1>3, <1>15, <2>1
<1>22. SettledOK => SettledOK'
  BY <1>1, <1>3, <1>16 DEF SettledOK
<1>23. DebugFilesResolve' /\ ListedContracts(cacheFile')
  BY <1>3, <1>13 DEF CompilationInv, DebugFilesResolve
<1> QED
  BY <1>3, <1>16, <1>17, <1>18, <1>20, <1>21, <1>22, <1>23 DEF CompilationInv

LEMMA RemoveObsoleteArtifactsKeeps ==
  ASSUME CompilationInv, RemoveObsoleteArtifacts, events' \in Nat
  PROVE  CompilationInv'
<1> DEFINE A == OnDisk \ valid
<1>1. /\ CompileTypeOK /\ run.phase = "obsolete" /\ run # Idle /\ WrittenOK
      /\ valid \subseteq OnDisk
  BY RunFacts DEF CompilationInv, RemoveObsoleteArtifacts
<1>2. /\ source' = source /\ setting' = setting /\ cacheFile' = cacheFile
      /\ valid' = valid /\ tainted' = tainted /\ settled' = settled /\ run' = Idle
      /\ RemoveArtifactFiles(A, A) /\ buildInfos' = UsedBuildInfos(debugFile')
  BY DEF RemoveObsoleteArtifacts
<1>3. A \in SUBSET Fqns /\ A \in SUBSET A
  BY DEF OnDisk
<1>4. /\ artifact' \in [Fqns -> Maybe(Output)] /\ debugFile' \in [Fqns -> Maybe(Output)]
      /\ \A p \in Fqns : artifact'[p] # Absent =>
           p \notin A /\ artifact'[p] = artifact[p] /\ debugFile'[p] = debugFile[p]
      /\ \A p \in Fqns \ A : artifact'[p] = artifact[p]
      /\ \A p \in Fqns : debugFile'[p] # Absent => debugFile'[p] = debugFile[p]
  BY <1>2, <1>3, RemoveFacts
<1>5. DebugFilesResolve'
  <2> SUFFICES ASSUME NEW p \in Fqns, debugFile'[p] # Absent PROVE debugFile'[p] \in buildInfos'
    BY DEF DebugFilesResolve
  <2>1. debugFile'[p] \in buildInfos
    BY <1>4 DEF CompilationInv, DebugFilesResolve
  <2> QED
    BY <1>2, <2>1 DEF UsedBuildInfos
<1>6. CompileTypeOK'
  <2>1. buildInfos' \subseteq Output
    BY <1>1, <1>2 DEF UsedBuildInfos, CompileTypeOK
  <2> QED
    BY <1>1, <1>2, <1>4, <2>1 DEF CompileTypeOK
<1>7. OutOfStep' = tainted /\ OutOfStep = tainted /\ run'.phase = "idle"
  BY <1>1, <1>2 DEF OutOfStep, Idle
<1>8. CacheTrue(tainted, cacheFile, artifact', debugFile')
  <2>1. PICK art2, debug2 : art2 = artifact' /\ debug2 = debugFile'
    OBVIOUS
  <2>2. \A p \in Fqns : p[1] \notin tainted /\ art2[p] # Absent =>
          art2[p] = artifact[p] /\ debug2[p] = debugFile[p]
    BY <1>4, <2>1
  <2>3. CacheTrue(tainted, cacheFile, artifact, debugFile)
    BY <1>7 DEF CompilationInv
  <2>4. CacheTrue(tainted, cacheFile, art2, debug2)
    BY <2>2, <2>3, CacheTrueKeeps
  <2> QED
    BY <2>1, <2>4
<1>9. SettledOK => SettledOK'
  <2> SUFFICES ASSUME SettledOK, NEW f \in ResolvedFiles(source)
               PROVE  /\ UpToDate(f, source[f], cacheFile, setting)
                      /\ \A n \in cacheFile[f].artifacts : artifact'[<<f, n>>] # Absent
    BY <1>2 DEF SettledOK
  <2>1. f \in DOMAIN run.read /\ run.read[f] = source[f]
    BY <1>1 DEF SettledOK
  <2>2. UpToDate(f, source[f], cacheFile, setting)
    BY <1>1, <2>1 DEF WrittenOK
  <2>3. f \in Files
    BY <1>1, <2>1, RunFacts, WholeFacts
  <2>4. cacheFile[f] # Absent /\ cacheFile[f].artifacts \subseteq Names
    BY <1>1, <2>2, <2>3 DEF UpToDate, CompileTypeOK, Maybe, CacheEntry
  <2>5. ASSUME NEW n \in cacheFile[f].artifacts PROVE artifact'[<<f, n>>] # Absent
    <3>1. <<f, n>> \in Fqns
      BY <2>3, <2>4 DEF Fqns
    <3>2. <<f, n>> \in FqnsOf(cacheFile)
      BY <2>4, <3>1 DEF FqnsOf
    <3>3. <<f, n>> \in valid /\ <<f, n>> \in OnDisk
      BY <1>1, <3>2 DEF WrittenOK
    <3>4. artifact[<<f, n>>] # Absent /\ <<f, n>> \notin A
      BY <3>3 DEF OnDisk
    <3> QED
      BY <1>4, <3>1, <3>4
  <2> QED
    BY <2>2, <2>5
<1>10. ListedContracts(cacheFile')
  BY <1>2 DEF CompilationInv
<1> QED
  BY <1>2, <1>5, <1>6, <1>7, <1>8, <1>9, <1>10 DEF CompilationInv

(* An edit: a run in progress has read the sources before. *)
LEMMA EditKeeps ==
  ASSUME CompilationInv, NEW f \in Files, NEW c \in Maybe(Contents), Edit(f, c), events' \in Nat
  PROVE  CompilationInv'
<1>1. /\ source' = [source EXCEPT ![f] = c] /\ settled' = FALSE
      /\ setting' = setting /\ cacheFile' = cacheFile /\ artifact' = artifact
      /\ debugFile' = debugFile /\ buildInfos' = buildInfos /\ valid' = valid
      /\ run' = run /\ tainted' = tainted
  BY DEF Edit
<1>2. CompileTypeOK'
  BY <1>1 DEF CompilationInv, CompileTypeOK
<1>3. PlanOK' <=> PlanOK
  BY <1>1 DEF PlanOK
<1>4. JobsOK' <=> JobsOK
  BY <1>1 DEF JobsOK
<1>5. ArtifactsCurrent' <=> ArtifactsCurrent
  BY <1>1 DEF ArtifactsCurrent, ReadFqns, Current, Read
<1>6. WrittenOK' <=> WrittenOK
  BY <1>1, <1>5 DEF WrittenOK, FqnsOf
<1>7. CacheTrue(OutOfStep, cacheFile, artifact, debugFile)'
  BY <1>1 DEF CompilationInv, OutOfStep
<1>8. DebugFilesResolve' /\ ListedContracts(cacheFile')
  BY <1>1 DEF CompilationInv, DebugFilesResolve
<1> QED
  BY <1>1, <1>2, <1>3, <1>4, <1>6, <1>7, <1>8 DEF CompilationInv

LEMMA NewProcessKeeps ==
  ASSUME CompilationInv, NEW s \in Settings, NewProcess(s), events' \in Nat
  PROVE  CompilationInv'
<1>1. /\ run = Idle /\ run' = Idle /\ setting' = s /\ valid' = {}
      /\ settled' = (settled /\ s = setting)
      /\ source' = source /\ cacheFile' = cacheFile /\ artifact' = artifact
      /\ debugFile' = debugFile /\ buildInfos' = buildInfos /\ tainted' = tainted
  BY DEF NewProcess
<1>2. CompileTypeOK'
  <2>1. settled' \in BOOLEAN
    BY <1>1
  <2> QED
    BY <1>1, <2>1 DEF CompilationInv, CompileTypeOK
<1>3. run'.phase = "idle"
  BY <1>1 DEF Idle
<1>4. CacheTrue(OutOfStep, cacheFile, artifact, debugFile)'
  BY <1>1 DEF CompilationInv, OutOfStep
<1>5. DebugFilesResolve' /\ ListedContracts(cacheFile')
  BY <1>1 DEF CompilationInv, DebugFilesResolve
<1>6. settled' => SettledOK'
  <2> SUFFICES ASSUME settled' PROVE SettledOK'
    OBVIOUS
  <2>1. settled /\ s = setting
    BY <1>1
  <2> QED
    BY <1>1, <2>1 DEF CompilationInv, SettledOK
<1> QED
  BY <1>1, <1>2, <1>3, <1>4, <1>5, <1>6 DEF CompilationInv

(* Nothing but the number of events changes. *)
LEMMA StutterKeeps ==
  ASSUME CompilationInv, UNCHANGED <<disk, valid, run, tainted, settled>>, events' \in Nat
  PROVE  CompilationInv'
<1>1. /\ source' = source /\ settled' = settled
      /\ setting' = setting /\ cacheFile' = cacheFile /\ artifact' = artifact
      /\ debugFile' = debugFile /\ buildInfos' = buildInfos /\ valid' = valid
      /\ run' = run /\ tainted' = tainted
  BY DEF disk
<1>2. CompileTypeOK'
  BY <1>1 DEF CompilationInv, CompileTypeOK
<1>3. PlanOK' <=> PlanOK
  BY <1>1 DEF PlanOK
<1>4. JobsOK' <=> JobsOK
  BY <1>1 DEF JobsOK
<1>5. ArtifactsCurrent' <=> ArtifactsCurrent
  BY <1>1 DEF ArtifactsCurrent, ReadFqns, Current, Read
<1>6. WrittenOK' <=> WrittenOK
  BY <1>1, <1>5 DEF WrittenOK, FqnsOf
<1>7. CacheTrue(OutOfStep, cacheFile, artifact, debugFile)'
  BY <1>1 DEF CompilationInv, OutOfStep
<1>8. DebugFilesResolve' /\ ListedContracts(cacheFile')
  BY <1>1 DEF CompilationInv, DebugFilesResolve
<1>9. SettledOK' <=> SettledOK
  BY <1>1 DEF SettledOK
<1> QED
  BY <1>1, <1>2, <1>3, <1>4, <1>6, <1>7, <1>8, <1>9 DEF CompilationInv

-----------------------------------------------------------------------------

(* The invariant of the compile task holds in every reachable state. *)
THEOREM CompilationInvariance == CompileSpec => []CompilationInv
<1>1. CompileInit => CompilationInv
  <2> SUFFICES ASSUME CompileInit PROVE CompilationInv
    OBVIOUS
  <2>1. /\ source \in Sources /\ setting \in Settings /\ buildInfos = {} /\ valid = {}
        /\ cacheFile = [f \in Files |-> Absent]
        /\ artifact = [p \in Fqns |-> Absent] /\ debugFile = [p \in Fqns |-> Absent]
        /\ run = Idle /\ tainted = {} /\ settled = FALSE /\ events = 0
    BY ProjectsAssumption DEF CompileInit, Sources, Maybe
  <2>2. CompileTypeOK
    BY <2>1 DEF CompileTypeOK, Sources, Maybe
  <2>3. DebugFilesResolve /\ ListedContracts(cacheFile)
    BY <2>1 DEF DebugFilesResolve, ListedContracts
  <2>4. CacheTrue(OutOfStep, cacheFile, artifact, debugFile)
    BY <2>1 DEF CacheTrue
  <2>5. run.phase = "idle"
    BY <2>1 DEF Idle
  <2> QED
    BY <2>1, <2>2, <2>3, <2>4, <2>5 DEF CompilationInv
<1>2. CompilationInv /\ [CompileNext]_compileVars => CompilationInv'
  <2> SUFFICES ASSUME CompilationInv, [CompileNext]_compileVars PROVE CompilationInv'
    OBVIOUS
  <2>0. events \in Nat
    BY DEF CompilationInv, CompileTypeOK
  <2>1. ASSUME UNCHANGED events, \E force \in BOOLEAN : BeginCompile(force) PROVE CompilationInv'
    BY <2>0, <2>1, BeginCompileKeeps
  <2>2. ASSUME UNCHANGED events, ThrowFileNotFound PROVE CompilationInv'
    BY <2>0, <2>2, StutterKeeps DEF ThrowFileNotFound
  <2>3. ASSUME UNCHANGED events, TaskStep PROVE CompilationInv'
    <3>1. ASSUME NEW j \in run.jobs, CompileJob(j) PROVE CompilationInv'
      BY <2>0, <2>3, <3>1, CompileJobKeeps
    <3>2. ASSUME NEW j \in run.jobs, FailJob(j) PROVE CompilationInv'
      BY <2>0, <2>3, <3>2, FailJobKeeps
    <3>3. CASE ThrowCompileFailure
      BY <2>0, <2>3, <3>3, ThrowCompileFailureKeeps
    <3>4. CASE WriteCache
      BY <2>0, <2>3, <3>4, WriteCacheKeeps
    <3>5. CASE ThrowArtifactNotFound
      BY <2>0, <2>3, <3>5, ThrowArtifactNotFoundKeeps
    <3>6. CASE RemoveObsoleteArtifacts
      BY <2>0, <2>3, <3>6, RemoveObsoleteArtifactsKeeps
    <3> QED
      BY <2>3, <3>1, <3>2, <3>3, <3>4, <3>5, <3>6 DEF TaskStep
  <2>4. ASSUME events' = events + 1, User PROVE CompilationInv'
    <3>0. events' \in Nat
      BY <2>0, <2>4
    <3>1. ASSUME NEW f \in Files, NEW c \in Maybe(Contents), Edit(f, c) PROVE CompilationInv'
      BY <3>0, <3>1, EditKeeps
    <3>2. ASSUME NEW s \in Settings, NewProcess(s) PROVE CompilationInv'
      BY <3>0, <3>2, NewProcessKeeps
    <3>3. ASSUME NEW p \in Fqns, DeleteArtifact(p) PROVE CompilationInv'
      BY <3>0, <3>3, DeleteArtifactKeeps
    <3>4. CASE Clean
      BY <3>0, <3>4, CleanKeeps
    <3> QED
      BY <2>4, <3>1, <3>2, <3>3, <3>4 DEF User
  <2>5. ASSUME events' = events + 1, Failure PROVE CompilationInv'
    <3>0. events' \in Nat
      BY <2>0, <2>5
    <3>1. ASSUME NEW J \in SUBSET run.jobs, CrashInJobs(J) PROVE CompilationInv'
      BY <3>0, <3>1, CrashInJobsKeeps
    <3>2. CASE CrashInRemoval
      BY <3>0, <3>2, CrashInRemovalKeeps
    <3>3. CASE CrashInBuildInfoRemoval
      BY <3>0, <3>3, CrashInBuildInfoRemovalKeeps
    <3> QED
      BY <2>5, <3>1, <3>2, <3>3 DEF Failure
  <2>6. CASE UNCHANGED compileVars
    <3>1. UNCHANGED <<disk, valid, run, tainted, settled>> /\ events' \in Nat
      BY <2>0, <2>6 DEF compileVars
    <3> QED
      BY <3>1, StutterKeeps
  <2> QED
    BY <2>1, <2>2, <2>3, <2>4, <2>5, <2>6 DEF CompileNext
<1> QED
  BY <1>1, <1>2, PTL DEF CompileSpec

(* The files on disk and the run keep their types. *)
THEOREM CompilationTypeCorrect == CompileSpec => []CompileTypeOK
<1>1. CompilationInv => CompileTypeOK
  BY DEF CompilationInv
<1> QED
  BY <1>1, CompilationInvariance, PTL

(* A debug file names a build info that is on disk, whatever crashed:      *)
(* compile.ts writes the build info first, removeObsoleteArtifacts removes *)
(* it last.                                                                *)
THEOREM DebugFilesAlwaysResolve == CompileSpec => []DebugFilesResolve
<1>1. CompilationInv => DebugFilesResolve
  BY DEF CompilationInv
<1> QED
  BY <1>1, CompilationInvariance, PTL

(* For any files, imports, configs and edits: what needsCompilation skips  *)
(* has the artifacts that compiling it would make.                         *)
THEOREM ArtifactsAreCurrent == CompileSpec => []ArtifactsCurrent
<1>1. CompilationInv => ArtifactsCurrent
  BY DEF CompilationInv, WrittenOK, ArtifactsCurrent
<1> QED
  BY <1>1, CompilationInvariance, PTL

(* A second run over an untouched project compiles nothing: the entries    *)
(* that compile.ts adds are those that needsCompilation asks for.          *)
THEOREM NothingIsCompiledTwice == CompileSpec => []NothingToCompile
<1>1. CompilationInv => NothingToCompile
  <2> SUFFICES ASSUME CompilationInv, run = Idle, settled,
                      NEW j \in NeededJobs(source, StartingCache)
               PROVE  FALSE
    BY DEF NothingToCompile
  <2>1. CompileTypeOK /\ SettledOK /\ source \in Sources /\ setting \in Settings
    BY DEF CompilationInv, CompileTypeOK, Sources
  <2>2. GoodJob(j, ResolvedFiles(source), source, setting)
    BY <2>1, CreateJobsFacts DEF NeededJobs
  <2>3. NeedsCompilation(j, StartingCache, source)
    BY DEF NeededJobs
  <2>4. ResolvedFiles(source) \in SUBSET Files
    BY <2>1, ResolvedFilesFacts
  <2>5. ASSUME NEW f \in ResolvedFiles(source)
        PROVE  /\ StartingCache[f] # Absent /\ StartingCache[f].contentHash = source[f]
               /\ StartingCache[f].solcConfig = setting[f]
    <3>1. /\ UpToDate(f, source[f], cacheFile, setting)
          /\ \A n \in cacheFile[f].artifacts : artifact[<<f, n>>] # Absent
      BY <2>1 DEF SettledOK
    <3>2. cacheFile[f].contentHash \in Contents
      BY <2>1, <2>4, <3>1 DEF UpToDate, CompileTypeOK, Maybe, CacheEntry
    <3>3. source[f] # Absent
      BY <3>1, <3>2, ContentsAssumption DEF UpToDate
    <3>4. StartingCache[f] = cacheFile[f]
      BY <2>1, <2>4, <3>1, <3>3, StartingCacheFacts
    <3> QED
      BY <3>1, <3>4 DEF UpToDate
  <2> QED
    BY <2>2, <2>3, <2>5 DEF GoodJob, NeedsCompilation, HasFileChanged
<1> QED
  BY <1>1, CompilationInvariance, PTL
=============================================================================
