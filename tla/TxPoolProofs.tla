--------------------------- MODULE TxPoolProofs ---------------------------
(* Proofs about the transaction pool, for every set of senders,            *)
(* transactions, balances and gas limits.                                  *)
EXTENDS TxPool, SequenceTheorems, WellFoundedInduction, TLAPS

-----------------------------------------------------------------------------
(* Lemmas about the operators the model is built from *)

(* Every nonempty set of natural numbers has a least element. *)
LEMMA LeastNat ==
  ASSUME NEW S \in SUBSET Nat, S # {}
  PROVE  \E n \in S : \A k \in S : n <= k
<1> DEFINE R == OpToRel(<, Nat)
<1>1. IsWellFoundedOn(R, Nat)
  BY NatLessThanWellFounded
<1>2. \A x, y \in Nat : x < y => <<x, y>> \in R
  BY DEF OpToRel
<1> HIDE DEF R
<1>3. \E n \in S : \A m \in S : ~(<<m, n>> \in R)
  BY <1>1, WFMin, Zenon
<1>4. PICK n \in S : \A m \in S : ~(<<m, n>> \in R)
  BY <1>3
<1>5. ASSUME NEW m \in S PROVE n <= m
  <2>1. ~(<<m, n>> \in R)
    BY <1>4
  <2>2. ~(m < n)
    BY <1>2, <2>1, Zenon
  <2> QED
    BY <2>2
<1> QED
  BY <1>5

(* Min picks the least element. *)
LEMMA MinNat ==
  ASSUME NEW S \in SUBSET Nat, S # {}
  PROVE  /\ Min(S) \in S
         /\ \A k \in S : Min(S) <= k
BY LeastNat DEF Min

(* The fields of an ordered transaction have the types of TxShape. *)
LEMMA OrderedFields ==
  ASSUME NEW o \in OrderedTransaction
  PROVE  /\ o.orderId \in Nat
         /\ o.data \in Txs
         /\ o.data.sender \in Senders
         /\ o.data.nonce \in 0..MaxNonce
         /\ o.data.gas \in Nat /\ o.data.prio \in Nat
         /\ o.data.maxFee \in Nat /\ o.data.value \in Nat
BY TxsAssumption DEF OrderedTransaction, TxShape

(* reorganizeTransactionsLists moves queued transactions whose nonces      *)
(* continue the pending list without a gap.                                *)
LEMMA MovedToPendingIsRun ==
  ASSUME NEW queued \in SUBSET OrderedTransaction, NEW next \in Nat
  PROVE  LET moved == MovedToPending(queued, next)
         IN  /\ moved \in Seq(OrderedTransaction)
             /\ \A i \in 1..Len(moved) : /\ moved[i] \in queued
                                         /\ moved[i].data.nonce = next + i - 1
             /\ (/\ \A q \in Nonces(queued) : q >= next
                 /\ \A o, r \in queued : o.data.nonce = r.data.nonce => o = r)
                => next + Len(moved) \notin Nonces(queued)
<1> DEFINE T == {n \in Nat : n >= next /\ EndsRun(queued, n)}
           C == {n \in {next} \cup {m + 1 : m \in Nonces(queued)} :
                   n >= next /\ EndsRun(queued, n)}
<1>1. Nonces(queued) \subseteq 0..MaxNonce
  BY OrderedFields DEF Nonces
<1>2. T \in SUBSET Nat /\ T # {}
  <2>1. MaxNonce + 1 + next \in T
    BY <1>1, BoundsAssumption DEF EndsRun
  <2> QED
    BY <2>1
<1>3. PICK m \in T : \A k \in T : m <= k
  BY <1>2, LeastNat
<1>4. C \subseteq T
  BY <1>1
<1>5. m \in C
  <2>1. CASE m = next
    BY <2>1
  <2>2. CASE m # next
    <3>1. m - 1 \in Nat /\ m - 1 >= next /\ m - 1 \notin T
      BY <2>2, <1>3
    <3>2. m - 1 \in Nonces(queued)
      BY <3>1 DEF EndsRun
    <3>3. m = (m - 1) + 1
      BY <1>3
    <3> QED
      BY <3>2, <3>3
  <2> QED
    BY <2>1, <2>2
<1>6. FirstGap(queued, next) \in T /\ \A k \in T : FirstGap(queued, next) <= k
  <2>1. C \in SUBSET Nat /\ C # {}
    BY <1>4, <1>5
  <2>2. Min(C) \in C /\ \A k \in C : Min(C) <= k
    BY <2>1, MinNat
  <2>3. Min(C) = m
    BY <2>2, <1>3, <1>4, <1>5
  <2> QED
    BY <2>3, <1>3 DEF FirstGap
<1>7. \A j \in Nat : next <= j /\ j < FirstGap(queued, next) => j \in Nonces(queued)
  BY <1>6 DEF EndsRun
<1> DEFINE count == MovedCount(queued, next)
<1>8. count \in Nat /\ \A i \in 1..count : next + i - 1 \in Nonces(queued)
  BY <1>6, <1>7 DEF MovedCount
<1>8a. ASSUME \A q \in Nonces(queued) : q >= next,
              \A o, r \in queued : o.data.nonce = r.data.nonce => o = r
       PROVE  next + count \notin Nonces(queued)
  <2>1. FirstGap(queued, next) \in Nat /\ EndsRun(queued, FirstGap(queued, next))
    BY <1>6
  <2>2. ~Repeated(queued, FirstGap(queued, next) - 1)
    BY <1>8a DEF Repeated
  <2>3. FirstGap(queued, next) \notin Nonces(queued)
    BY <2>1, <2>2 DEF EndsRun
  <2>4. count = FirstGap(queued, next) - next
    BY <1>1, <1>8a DEF MovedCount
  <2> QED
    BY <2>1, <2>3, <2>4
<1>9. \A i \in 1..count : \E o \in queued : o.data.nonce = next + i - 1
  BY <1>8 DEF Nonces
<1> HIDE DEF count
<1>10. \A i \in 1..count :
         LET o == CHOOSE o \in queued : o.data.nonce = next + i - 1
         IN  o \in queued /\ o.data.nonce = next + i - 1
  BY <1>9
<1>11. MovedToPending(queued, next) =
         [i \in 1..count |-> CHOOSE o \in queued : o.data.nonce = next + i - 1]
  BY DEF MovedToPending, count
<1> DEFINE moved == MovedToPending(queued, next)
<1>12. moved \in [1..count -> OrderedTransaction]
  BY <1>10, <1>11
<1>13. \A i \in 1..count : moved[i] \in queued /\ moved[i].data.nonce = next + i - 1
  BY <1>10, <1>11
<1> HIDE DEF moved
<1>14. moved \in Seq(OrderedTransaction) /\ Len(moved) = count
  BY <1>8, <1>12
<1> QED
  BY <1>8a, <1>13, <1>14 DEF moved

-----------------------------------------------------------------------------
(* The inductive invariant, sender by sender *)

(* The lists of sender s, whose account nonce is n, are consistent. *)
SenderOK(list, queued, n, s) ==
  /\ list \in Seq(OrderedTransaction)
  /\ queued \in SUBSET OrderedTransaction
  /\ \A i \in 1..Len(list) : /\ list[i].data.nonce = n + i - 1
                             /\ list[i].data.sender = s
  /\ \A o \in queued : o.data.sender = s
  /\ \A o \in queued : \A i \in 1..Len(list) : o.data # list[i].data
  /\ \A o, r \in queued : o.data = r.data => o = r
  /\ s \notin Contracts =>
       \A o \in queued : /\ o.data.nonce > n + Len(list)
                         /\ \A r \in queued : o.data.nonce = r.data.nonce => o = r

PoolOK(p, w) ==
  /\ \A s \in Senders :
       SenderOK(p.pendingTransactions[s], p.queuedTransactions[s], w.nonce[s], s)
  /\ PoolIndexSound(p)

WellFormedTxs == {tx \in Txs : tx.wellFormed}

(* Every transaction in the pool has been validated and has an arrival     *)
(* number of its own.                                                      *)
OrderOK(p, next) ==
  \A o \in PooledAll(p) : /\ o.orderId < next
                          /\ o.data \in WellFormedTxs
                          /\ \A r \in PooledAll(p) : o.orderId = r.orderId => o = r

(* Snapshots carry the invariant too: a revert makes one of them current. *)
IInv ==
  /\ TypeOK
  /\ PoolOK(pool, world)
  /\ OrderOK(pool, nextOrderId)
  /\ \A x \in snapshots : PoolOK(x.pool, x.world) /\ OrderOK(x.pool, nextOrderId)

-----------------------------------------------------------------------------
(* One lemma per operation on the lists of a sender *)

(* The elements of a sequence, by index. *)
LEMMA ElementsOfSeq ==
  ASSUME NEW S, NEW list \in Seq(S)
  PROVE  Elements(list) = {list[i] : i \in 1..Len(list)}
BY DEF Elements

(* Concatenation of two sequences over the same set. *)
LEMMA PlainConcat ==
  ASSUME NEW a \in Seq(OrderedTransaction), NEW b \in Seq(OrderedTransaction)
  PROVE  /\ a \o b \in Seq(OrderedTransaction)
         /\ Len(a \o b) = Len(a) + Len(b)
         /\ \A i \in 1..(Len(a) + Len(b)) :
              (a \o b)[i] = IF i <= Len(a) THEN a[i] ELSE b[i - Len(a)]
OBVIOUS

(* updatePendingAndQueued finds the first fresh and the first invalid      *)
(* transaction in order, and everything between them is kept.              *)
LEMMA UpdateBounds ==
  ASSUME NEW list \in Seq(OrderedTransaction), NEW n \in Nat, NEW b \in Nat, NEW g \in Nat
  PROVE  LET f == FirstFresh(list, n)
             k == FirstInvalid(list, n, b, g)
         IN  /\ f \in 1..(Len(list) + 1)
             /\ k \in f..(Len(list) + 1)
             /\ \A i \in 1..Len(list) : i < f => list[i].data.nonce < n
             /\ f <= Len(list) => list[f].data.nonce >= n
<1> DEFINE F == {i \in DOMAIN list : list[i].data.nonce >= n} \cup {Len(list) + 1}
           K == {i \in DOMAIN list : /\ list[i].data.nonce >= n
                                     /\ ~IsTxValid(list[i], n, b, g)}
                \cup {Len(list) + 1}
<1>1. Len(list) \in Nat /\ DOMAIN list = 1..Len(list)
  BY LenProperties
<1>2. \A i \in 1..Len(list) : list[i] \in OrderedTransaction
  BY ElementOfSeq
<1>3. \A i \in 1..Len(list) : list[i].data.nonce \in Nat
  BY <1>2, OrderedFields
<1>6. K \subseteq F /\ F \subseteq 1..(Len(list) + 1) /\ Len(list) + 1 \in K
  BY <1>1
<1>4. Min(F) \in F /\ \A j \in F : Min(F) <= j
  <2>1. F \in SUBSET Nat /\ F # {}
    BY <1>1, <1>6
  <2> HIDE DEF F
  <2> QED
    BY <2>1, MinNat
<1>5. Min(K) \in K /\ \A j \in K : Min(K) <= j
  <2>1. K \in SUBSET Nat /\ K # {}
    BY <1>1, <1>6
  <2> HIDE DEF K
  <2> QED
    BY <2>1, MinNat
<1>7. Min(F) \in 1..(Len(list) + 1) /\ Min(K) \in Min(F)..(Len(list) + 1)
  <2> HIDE DEF F, K
  <2>1. Min(F) \in 1..(Len(list) + 1) /\ Min(K) \in 1..(Len(list) + 1) /\ Min(F) <= Min(K)
    BY <1>4, <1>5, <1>6
  <2> QED
    BY <1>1, <2>1
<1>8. \A i \in 1..Len(list) : i < Min(F) => list[i].data.nonce < n
  <2> SUFFICES ASSUME NEW i \in 1..Len(list), i < Min(F) PROVE ~(list[i].data.nonce >= n)
    BY <1>3
  <2>1. i \notin F
    <3> HIDE DEF F
    <3> QED
      BY <1>1, <1>4, <1>7
  <2> QED
    BY <2>1, <1>1
<1>9. Min(F) <= Len(list) => list[Min(F)].data.nonce >= n
  BY <1>1, <1>4, <1>7, SMTT(30)
<1> QED
  BY <1>7, <1>8, <1>9 DEF FirstFresh, FirstInvalid

(* The update of one sender's lists.  Its nonce has grown, for an          *)
(* externally owned account by at most the number of pending transactions. *)
LEMMA UpdateSender ==
  ASSUME NEW list, NEW queued, NEW s \in Senders,
         NEW n0 \in Nat, NEW n \in Nat, NEW b \in Nat, NEW g \in Nat,
         SenderOK(list, queued, n0, s),
         n0 <= n,
         s \notin Contracts => n <= n0 + Len(list)
  PROVE  /\ SenderOK(KeptPending(list, n, b, g), KeptQueued(queued, list, n, b, g), n, s)
         /\ Elements(KeptPending(list, n, b, g)) \subseteq Elements(list)
         /\ KeptQueued(queued, list, n, b, g) \subseteq queued \cup Elements(list)
<1> DEFINE f == FirstFresh(list, n)
           k == FirstInvalid(list, n, b, g)
           kept == KeptPending(list, n, b, g)
           moved == MovedToQueued(list, n, b, g)
           newQueued == KeptQueued(queued, list, n, b, g)
<1>1. list \in Seq(OrderedTransaction) /\ Len(list) \in Nat
  BY LenProperties DEF SenderOK
<1>2. /\ f \in 1..(Len(list) + 1)
      /\ k \in f..(Len(list) + 1)
      /\ \A i \in 1..Len(list) : i < f => list[i].data.nonce < n
      /\ f <= Len(list) => list[f].data.nonce >= n
  BY <1>1, UpdateBounds
<1>3. \A i \in 1..Len(list) : /\ list[i] \in OrderedTransaction
                              /\ list[i].data.nonce = n0 + i - 1
                              /\ list[i].data.sender = s
  BY <1>1, ElementOfSeq DEF SenderOK
<1>4. moved = {list[i] : i \in (k + 1)..Len(list)}
  BY DEF MovedToQueued
<1>5. kept = SubSeq(list, f, k - 1)
  BY DEF KeptPending
<1>6. newQueued \subseteq queued \cup moved
  BY DEF KeptQueued
<1> HIDE DEF f, k, kept, moved, newQueued
<1>7. /\ kept \in Seq(OrderedTransaction)
      /\ Len(kept) = k - f
      /\ \A i \in 1..Len(kept) : kept[i] = list[f + i - 1] /\ f + i - 1 \in 1..Len(list)
  <2>1. kept \in Seq(OrderedTransaction)
    BY <1>1, <1>2, <1>3, <1>5, SubSeqProperties
  <2>2. Len(kept) = k - f
    BY <1>1, <1>2, <1>5, SubSeqProperties
  <2> QED
    BY <1>1, <1>2, <1>5, <2>1, <2>2, SubSeqProperties
<1>8. f <= Len(list) => n = n0 + f - 1
  <2>1. CASE f = 1
    BY <2>1, <1>2, <1>3
  <2>2. CASE f # 1 /\ f <= Len(list)
    <3>1. f - 1 \in 1..Len(list) /\ f \in 1..Len(list)
      BY <2>2, <1>1, <1>2
    <3>2. list[f - 1].data.nonce < n /\ list[f].data.nonce >= n
      BY <3>1, <1>1, <1>2
    <3>3. list[f - 1].data.nonce = n0 + f - 2 /\ list[f].data.nonce = n0 + f - 1
      BY <3>1, <1>3
    <3> QED
      BY <3>1, <3>2, <3>3
  <2> QED
    BY <2>1, <2>2
<1>9. \A i \in 1..Len(kept) : kept[i].data.nonce = n + i - 1 /\ kept[i].data.sender = s
  <2> SUFFICES ASSUME NEW i \in 1..Len(kept)
               PROVE  kept[i].data.nonce = n + i - 1 /\ kept[i].data.sender = s
    OBVIOUS
  <2>1. kept[i] = list[f + i - 1] /\ f + i - 1 \in 1..Len(list)
    BY <1>7
  <2>2. list[f + i - 1].data.nonce = n0 + (f + i - 1) - 1 /\ list[f + i - 1].data.sender = s
    BY <2>1, <1>3
  <2>3. n = n0 + f - 1
    BY <2>1, <1>1, <1>2, <1>8
  <2> QED
    BY <2>1, <2>2, <2>3, <1>1, <1>2
<1>10. newQueued \in SUBSET OrderedTransaction
  BY <1>1, <1>2, <1>3, <1>4, <1>6 DEF SenderOK
<1>11. \A o \in newQueued : o \in queued \/ \E j \in (k + 1)..Len(list) : o = list[j]
  BY <1>4, <1>6
<1>12. \A o \in newQueued : o.data.sender = s
  BY <1>1, <1>2, <1>3, <1>11 DEF SenderOK
<1>13. \A o \in newQueued : \A i \in 1..Len(kept) : o.data # kept[i].data
  <2> SUFFICES ASSUME NEW o \in newQueued, NEW i \in 1..Len(kept) PROVE o.data # kept[i].data
    OBVIOUS
  <2>1. CASE o \in queued
    <3>1. kept[i] = list[f + i - 1] /\ f + i - 1 \in 1..Len(list)
      BY <1>7
    <3> QED
      BY <2>1, <3>1 DEF SenderOK
  <2>2. ASSUME NEW j \in (k + 1)..Len(list), o = list[j] PROVE o.data # kept[i].data
    <3>1. f + i - 1 < j /\ j \in 1..Len(list)
      BY <1>1, <1>2, <1>7
    <3>2. list[j].data.nonce # list[f + i - 1].data.nonce
      BY <1>3, <1>7, <3>1
    <3> QED
      BY <2>2, <3>2, <1>7
  <2> QED
    BY <2>1, <2>2, <1>11
<1>14. \A o, r \in newQueued : o.data = r.data => o = r
  <2> SUFFICES ASSUME NEW o \in newQueued, NEW r \in newQueued, o.data = r.data PROVE o = r
    OBVIOUS
  <2>1. CASE o \in queued /\ r \in queued
    BY <2>1 DEF SenderOK
  <2>2. ASSUME NEW j \in 1..Len(list), o = list[j], r \in queued PROVE FALSE
    BY <2>2 DEF SenderOK
  <2>3. ASSUME NEW j \in 1..Len(list), r = list[j], o \in queued PROVE FALSE
    BY <2>3 DEF SenderOK
  <2>4. ASSUME NEW i \in 1..Len(list), NEW j \in 1..Len(list), o = list[i], r = list[j]
        PROVE o = r
    BY <2>4, <1>3
  <2> QED
    BY <2>1, <2>2, <2>3, <2>4, <1>11, <1>2, <1>1
<1>15. ASSUME s \notin Contracts, NEW o \in newQueued
       PROVE  /\ o.data.nonce > n + Len(kept)
              /\ \A r \in newQueued : o.data.nonce = r.data.nonce => o = r
  <2>1. n + Len(kept) <= n0 + Len(list)
    BY <1>15, <1>1, <1>2, <1>7, <1>8
  <2>2. \A x \in queued : x.data.nonce \in Nat /\ x.data.nonce > n0 + Len(list)
    BY <1>15, OrderedFields DEF SenderOK
  <2>3. \A j \in (k + 1)..Len(list) : /\ j \in 1..Len(list)
                                      /\ list[j].data.nonce = n0 + j - 1
                                      /\ list[j].data.nonce > n + Len(kept)
    BY <1>1, <1>2, <1>3, <1>7, <1>8
  <2>4. o.data.nonce > n + Len(kept)
    <3>1. CASE o \in queued
      BY <3>1, <2>1, <2>2, <1>1, <1>2, <1>7
    <3>2. CASE \E j \in (k + 1)..Len(list) : o = list[j]
      BY <3>2, <2>3
    <3> QED
      BY <3>1, <3>2, <1>11
  <2>5. ASSUME NEW r \in newQueued, o.data.nonce = r.data.nonce PROVE o = r
    <3>1. CASE o \in queued /\ r \in queued
      BY <3>1, <2>5, <1>15 DEF SenderOK
    <3>2. ASSUME NEW j \in (k + 1)..Len(list), o = list[j], r \in queued PROVE FALSE
      BY <3>2, <2>2, <2>3, <2>5, <1>1, <1>2
    <3>3. ASSUME NEW j \in (k + 1)..Len(list), r = list[j], o \in queued PROVE FALSE
      BY <3>3, <2>2, <2>3, <2>5, <1>1, <1>2
    <3>4. ASSUME NEW i \in (k + 1)..Len(list), NEW j \in (k + 1)..Len(list),
                 o = list[i], r = list[j]
          PROVE o = r
      BY <3>4, <2>3, <2>5, <1>1, <1>2
    <3> QED
      BY <3>1, <3>2, <3>3, <3>4, <1>11
  <2> QED
    BY <2>4, <2>5
<1>16. SenderOK(kept, newQueued, n, s)
  BY <1>7, <1>9, <1>10, <1>12, <1>13, <1>14, <1>15 DEF SenderOK
<1>17. Elements(kept) \subseteq Elements(list)
  BY <1>1, <1>7, ElementsOfSeq
<1>18. newQueued \subseteq queued \cup Elements(list)
  BY <1>1, <1>2, <1>11, ElementsOfSeq
<1> QED
  BY <1>16, <1>17, <1>18 DEF kept, newQueued

(* o is a transaction of s that is in neither list. *)
Newcomer(o, list, queued, s) ==
  /\ o \in OrderedTransaction
  /\ o.data.sender = s
  /\ \A i \in 1..Len(list) : o.data # list[i].data
  /\ \A r \in queued : o.data # r.data

(* The nonce of o continues the pending list. *)
NextInLine(o, list, n) == o.data.nonce = n + Len(list)

(* The pending list after o is pushed and queued transactions follow it. *)
Pushed(list, queued, o) == Append(list, o) \o MovedToPending(queued, o.data.nonce + 1)

(* The queued list after that. *)
LeftQueued(queued, o) == queued \ Elements(MovedToPending(queued, o.data.nonce + 1))

(* The new lists hold the old transactions and o, grouped in another way. *)
Regroups(newList, newQueued, list, queued, o) ==
  Elements(newList) \cup newQueued = Elements(list) \cup queued \cup {o}

(* _addPendingTransaction: push, then promote. *)
LEMMA PushPendingSender ==
  ASSUME NEW list, NEW queued, NEW s \in Senders, NEW n \in Nat,
         SenderOK(list, queued, n, s),
         NEW o, Newcomer(o, list, queued, s), NextInLine(o, list, n)
  PROVE  /\ SenderOK(Pushed(list, queued, o), LeftQueued(queued, o), n, s)
         /\ Regroups(Pushed(list, queued, o), LeftQueued(queued, o), list, queued, o)
<1> USE DEF Newcomer, NextInLine
<1> DEFINE next == o.data.nonce + 1
           moved == MovedToPending(queued, next)
           newList == Append(list, o) \o moved
           newQueued == queued \ Elements(moved)
<1>1. list \in Seq(OrderedTransaction) /\ Len(list) \in Nat /\ queued \in SUBSET OrderedTransaction
  BY LenProperties DEF SenderOK
<1>2. next \in Nat /\ next = n + Len(list) + 1
  BY <1>1, OrderedFields
<1> HIDE DEF next
<1>3. /\ moved \in Seq(OrderedTransaction)
      /\ \A i \in 1..Len(moved) : moved[i] \in queued /\ moved[i].data.nonce = next + i - 1
      /\ (/\ \A q \in Nonces(queued) : q >= next
          /\ \A t, u \in queued : t.data.nonce = u.data.nonce => t = u)
         => next + Len(moved) \notin Nonces(queued)
  BY <1>1, <1>2, MovedToPendingIsRun
<1> HIDE DEF moved
<1>4. /\ Append(list, o) \in Seq(OrderedTransaction)
      /\ Len(Append(list, o)) = Len(list) + 1
      /\ \A i \in 1..Len(list) : Append(list, o)[i] = list[i]
      /\ Append(list, o)[Len(list) + 1] = o
  BY <1>1, AppendProperties
<1>5. Len(moved) \in Nat
  BY <1>3, LenProperties
<1>6. /\ newList \in Seq(OrderedTransaction)
      /\ Len(newList) = Len(list) + 1 + Len(moved)
      /\ \A i \in 1..Len(list) : newList[i] = list[i]
      /\ newList[Len(list) + 1] = o
      /\ \A i \in 1..Len(moved) : newList[Len(list) + 1 + i] = moved[i]
  <2> DEFINE a == Append(list, o)
  <2> HIDE DEF a
  <2>1. a \in Seq(OrderedTransaction) /\ Len(a) = Len(list) + 1
    BY <1>4 DEF a
  <2>2. /\ a \o moved \in Seq(OrderedTransaction)
        /\ Len(a \o moved) = Len(a) + Len(moved)
        /\ \A i \in 1..(Len(a) + Len(moved)) :
             (a \o moved)[i] = IF i <= Len(a) THEN a[i] ELSE moved[i - Len(a)]
    BY <2>1, <1>3, PlainConcat
  <2>3. \A i \in 1..Len(moved) : (a \o moved)[Len(a) + i] = moved[i]
    BY <2>1, <2>2, <1>1, <1>5
  <2>4. \A i \in 1..Len(a) : (a \o moved)[i] = a[i]
    BY <2>1, <2>2, <1>1, <1>5
  <2>5. Len(list) + 1 \in 1..Len(a) /\ \A i \in 1..Len(list) : i \in 1..Len(a)
    BY <2>1, <1>1
  <2> QED
    BY <2>1, <2>2, <2>3, <2>4, <2>5, <1>4 DEF a
<1> HIDE DEF newList
<1>7. \A i \in 1..Len(newList) :
        \/ i \in 1..Len(list) /\ newList[i] = list[i]
        \/ i = Len(list) + 1 /\ newList[i] = o
        \/ i - Len(list) - 1 \in 1..Len(moved) /\ newList[i] = moved[i - Len(list) - 1]
  <2> SUFFICES ASSUME NEW i \in 1..Len(newList), i > Len(list) + 1
               PROVE  i - Len(list) - 1 \in 1..Len(moved) /\ newList[i] = moved[i - Len(list) - 1]
    BY <1>1, <1>6
  <2>1. i - Len(list) - 1 \in 1..Len(moved)
    BY <1>1, <1>5, <1>6
  <2>2. Len(list) + 1 + (i - Len(list) - 1) = i
    BY <1>1
  <2> QED
    BY <2>1, <2>2, <1>6
<1>8. Elements(moved) = {moved[i] : i \in 1..Len(moved)}
  BY <1>3, ElementsOfSeq
<1>9. Elements(newList) = Elements(list) \cup {o} \cup Elements(moved)
  <2>1. Elements(newList) = {newList[i] : i \in 1..Len(newList)}
    <3>1. newList \in Seq(OrderedTransaction)
      BY <1>6
    <3> QED
      BY <3>1, ElementsOfSeq
  <2>2. Elements(list) = {list[i] : i \in 1..Len(list)}
    BY <1>1, ElementsOfSeq
  <2>3. Elements(newList) \subseteq Elements(list) \cup {o} \cup Elements(moved)
    BY <2>1, <2>2, <1>7, <1>8
  <2>4. Elements(list) \subseteq Elements(newList)
    BY <2>1, <2>2, <1>1, <1>5, <1>6
  <2>5. o \in Elements(newList)
    BY <2>1, <1>1, <1>5, <1>6
  <2>6. Elements(moved) \subseteq Elements(newList)
    <3> SUFFICES ASSUME NEW i \in 1..Len(moved) PROVE moved[i] \in Elements(newList)
      BY <1>8
    <3>1. Len(list) + 1 + i \in 1..Len(newList)
      BY <1>1, <1>5, <1>6
    <3> QED
      BY <3>1, <2>1, <1>6
  <2> QED
    BY <2>3, <2>4, <2>5, <2>6
<1>10. ASSUME NEW i \in 1..Len(newList)
       PROVE  newList[i].data.nonce = n + i - 1 /\ newList[i].data.sender = s
  <2>1. CASE i \in 1..Len(list) /\ newList[i] = list[i]
    BY <2>1 DEF SenderOK
  <2>2. CASE i = Len(list) + 1 /\ newList[i] = o
    BY <2>2, <1>1
  <2>3. CASE i - Len(list) - 1 \in 1..Len(moved) /\ newList[i] = moved[i - Len(list) - 1]
    <3> DEFINE j == i - Len(list) - 1
    <3>1. moved[j] \in queued /\ moved[j].data.nonce = next + j - 1
      BY <2>3, <1>3
    <3>2. moved[j].data.sender = s
      BY <3>1 DEF SenderOK
    <3> QED
      BY <2>3, <3>1, <3>2, <1>1, <1>2
  <2> QED
    BY <2>1, <2>2, <2>3, <1>7
<1>11. \A r \in newQueued : r \in queued /\ \A i \in 1..Len(moved) : r # moved[i]
  BY <1>8
<1>12. ASSUME NEW r \in newQueued, NEW i \in 1..Len(newList) PROVE r.data # newList[i].data
  <2>1. CASE i \in 1..Len(list) /\ newList[i] = list[i]
    BY <2>1, <1>11 DEF SenderOK
  <2>2. CASE i = Len(list) + 1 /\ newList[i] = o
    BY <2>2, <1>11
  <2>3. CASE i - Len(list) - 1 \in 1..Len(moved) /\ newList[i] = moved[i - Len(list) - 1]
    <3>1. moved[i - Len(list) - 1] \in queued /\ r # moved[i - Len(list) - 1]
      BY <2>3, <1>3, <1>11
    <3> QED
      BY <2>3, <3>1, <1>11 DEF SenderOK
  <2> QED
    BY <2>1, <2>2, <2>3, <1>7
<1>13. ASSUME s \notin Contracts, NEW r \in newQueued
       PROVE  /\ r.data.nonce > n + Len(newList)
              /\ \A t \in newQueued : r.data.nonce = t.data.nonce => r = t
  <2>1. \A t \in queued : t.data.nonce \in Nat /\ t.data.nonce > n + Len(list)
    BY <1>1, <1>13, OrderedFields DEF SenderOK
  <2>2. \A t, u \in queued : t.data.nonce = u.data.nonce => t = u
    BY <1>13 DEF SenderOK
  <2>3. next + Len(moved) \notin Nonces(queued)
    <3>1. \A q \in Nonces(queued) : q >= next
      BY <2>1, <1>1, <1>2 DEF Nonces
    <3> QED
      BY <3>1, <2>2, <1>3
  <2>4. r.data.nonce # next + Len(moved)
    BY <2>3, <1>11 DEF Nonces
  <2>5. \A i \in 1..Len(moved) : r.data.nonce # next + i - 1
    BY <2>2, <1>3, <1>11
  <2>6. r.data.nonce \in Nat /\ r.data.nonce >= next
    BY <2>1, <1>1, <1>2, <1>11
  <2>7. r.data.nonce > next + Len(moved)
    <3>1. CASE r.data.nonce < next + Len(moved)
      <4>1. r.data.nonce - next + 1 \in 1..Len(moved)
        BY <3>1, <2>6, <1>2, <1>5
      <4>2. next + (r.data.nonce - next + 1) - 1 = r.data.nonce
        BY <2>6, <1>2
      <4> QED
        BY <4>1, <4>2, <2>5
    <3> QED
      BY <3>1, <2>4, <2>6, <1>2, <1>5
  <2>8. r.data.nonce > n + Len(newList)
    BY <2>6, <2>7, <1>1, <1>2, <1>5, <1>6
  <2> QED
    BY <2>2, <2>8, <1>11
<1>14. SenderOK(newList, newQueued, n, s)
  <2>1. newQueued \in SUBSET OrderedTransaction /\ \A r \in newQueued : r.data.sender = s
    BY <1>1, <1>11 DEF SenderOK
  <2>2. \A r, t \in newQueued : r.data = t.data => r = t
    BY <1>11 DEF SenderOK
  <2> HIDE DEF newQueued
  <2> QED
    BY <2>1, <2>2, <1>6, <1>10, <1>12, <1>13 DEF SenderOK
<1>15. Elements(moved) \subseteq queued
  BY <1>3, <1>8
<1> QED
  BY <1>9, <1>14, <1>15 DEF Pushed, LeftQueued, Regroups, newList, newQueued, moved, next

(* The pending list after its entry i is replaced. *)
Replaced(list, i, o) == [list EXCEPT ![i] = o]

(* _replacePendingTx *)
LEMMA ReplacePendingSender ==
  ASSUME NEW list, NEW queued, NEW s \in Senders, NEW n \in Nat,
         SenderOK(list, queued, n, s),
         NEW o, Newcomer(o, list, queued, s),
         NEW i \in 1..Len(list), o.data.nonce = list[i].data.nonce
  PROVE  /\ SenderOK(Replaced(list, i, o), queued, n, s)
         /\ Elements(Replaced(list, i, o)) \subseteq Elements(list) \cup {o}
         /\ o \in Elements(Replaced(list, i, o))
         /\ \A r \in Elements(list) : r = list[i] \/ r \in Elements(Replaced(list, i, o))
<1> USE DEF Newcomer
<1> DEFINE new == Replaced(list, i, o)
<1>1. list \in Seq(OrderedTransaction) /\ Len(list) \in Nat
  BY LenProperties DEF SenderOK
<1>2. /\ new \in Seq(OrderedTransaction)
      /\ Len(new) = Len(list)
      /\ \A j \in 1..Len(list) : new[j] = IF j = i THEN o ELSE list[j]
  BY <1>1 DEF Replaced
<1> HIDE DEF new
<1>3. \A j \in 1..Len(new) : new[j].data.nonce = n + j - 1 /\ new[j].data.sender = s
  BY <1>2 DEF SenderOK
<1>4. \A r \in queued : \A j \in 1..Len(new) : r.data # new[j].data
  BY <1>2 DEF SenderOK
<1>5. SenderOK(new, queued, n, s)
  BY <1>2, <1>3, <1>4 DEF SenderOK
<1>6. /\ Elements(new) = {new[j] : j \in 1..Len(list)}
      /\ Elements(list) = {list[j] : j \in 1..Len(list)}
  BY <1>1, <1>2, ElementsOfSeq
<1> QED
  BY <1>2, <1>5, <1>6 DEF new

(* _addQueuedTransaction and _replaceQueuedTx: the transactions of `gone`  *)
(* (none, or the replaced one) make room for the new one.                  *)
LEMMA PutQueuedSender ==
  ASSUME NEW list, NEW queued, NEW s \in Senders, NEW n \in Nat, NEW gone,
         SenderOK(list, queued, n, s),
         NEW o, Newcomer(o, list, queued, s),
         o.data.nonce > n + Len(list),
         s \notin Contracts => \A r \in queued \ gone : r.data.nonce # o.data.nonce
  PROVE  SenderOK(list, (queued \ gone) \cup {o}, n, s)
<1> USE DEF Newcomer
<1> DEFINE new == (queued \ gone) \cup {o}
<1>1. \A r \in new : r = o \/ r \in queued \ gone
  OBVIOUS
<1>2. new \in SUBSET OrderedTransaction /\ \A r \in new : r.data.sender = s
  BY DEF SenderOK
<1> HIDE DEF new
<1>3. \A r \in new : \A i \in 1..Len(list) : r.data # list[i].data
  BY <1>1 DEF SenderOK
<1>4. \A r, t \in new : r.data = t.data => r = t
  BY <1>1 DEF SenderOK
<1>5. s \notin Contracts =>
        \A r \in new : /\ r.data.nonce > n + Len(list)
                       /\ \A t \in new : r.data.nonce = t.data.nonce => r = t
  BY <1>1 DEF SenderOK
<1>6. SenderOK(list, new, n, s)
  BY <1>2, <1>3, <1>4, <1>5 DEF SenderOK
<1> QED
  BY <1>6 DEF new

(* The pending list that RemovePending leaves. *)
Truncated(list, i) == SubSeq(list, 1, i - 1)

(* The queued list that RemovePending leaves. *)
Demoted(list, queued, i) == queued \cup {list[j] : j \in (i + 1)..Len(list)}

(* Only list[i] is missing from the new lists, and nothing is added. *)
LosesOnly(newList, newQueued, list, queued, i) ==
  /\ Elements(newList) \cup newQueued \subseteq Elements(list) \cup queued
  /\ \A r \in Elements(list) \cup queued :
       r = list[i] \/ r \in Elements(newList) \cup newQueued

(* removeTransaction of the pending transaction i keeps the sender's lists *)
(* right and loses that transaction only.                                  *)
LEMMA RemovePendingSender ==
  ASSUME NEW list, NEW queued, NEW s \in Senders, NEW n \in Nat,
         SenderOK(list, queued, n, s),
         NEW i \in 1..Len(list)
  PROVE  /\ SenderOK(Truncated(list, i), Demoted(list, queued, i), n, s)
         /\ LosesOnly(Truncated(list, i), Demoted(list, queued, i), list, queued, i)
<1> DEFINE kept == SubSeq(list, 1, i - 1)
           new == queued \cup {list[j] : j \in (i + 1)..Len(list)}
<1>1. list \in Seq(OrderedTransaction) /\ Len(list) \in Nat
  BY LenProperties DEF SenderOK
<1>2. \A j \in 1..Len(list) : /\ list[j] \in OrderedTransaction
                              /\ list[j].data.nonce = n + j - 1
                              /\ list[j].data.sender = s
  BY <1>1, ElementOfSeq DEF SenderOK
<1>3. /\ kept \in Seq(OrderedTransaction)
      /\ Len(kept) = i - 1
      /\ \A j \in 1..(i - 1) : kept[j] = list[j]
  BY <1>1, <1>2, SubSeqProperties
<1>4. \A r \in new : r \in queued \/ \E j \in (i + 1)..Len(list) : r = list[j]
  OBVIOUS
<1>5. new \in SUBSET OrderedTransaction
  BY <1>1, <1>2 DEF SenderOK
<1> HIDE DEF kept
<1>6. \A j \in 1..Len(kept) : /\ kept[j].data.nonce = n + j - 1
                              /\ kept[j].data.sender = s
  <2> SUFFICES ASSUME NEW j \in 1..Len(kept)
               PROVE  kept[j].data.nonce = n + j - 1 /\ kept[j].data.sender = s
    OBVIOUS
  <2>1. j \in 1..Len(list) /\ kept[j] = list[j]
    BY <1>1, <1>3
  <2> QED
    BY <2>1, <1>2
<1>7. \A r \in new : r.data.sender = s
  BY <1>1, <1>2, <1>4 DEF SenderOK
<1>8. ASSUME NEW r \in new, NEW m \in 1..Len(kept) PROVE r.data # kept[m].data
  <2>1. kept[m] = list[m] /\ m \in 1..Len(list) /\ m < i
    BY <1>1, <1>3
  <2>2. CASE r \in queued
    BY <2>1, <2>2 DEF SenderOK
  <2>3. ASSUME NEW j \in (i + 1)..Len(list), r = list[j] PROVE r.data # kept[m].data
    <3>1. j \in 1..Len(list) /\ list[j].data.nonce # list[m].data.nonce
      BY <2>1, <1>1, <1>2, SMTT(30)
    <3> QED
      BY <2>1, <2>3, <3>1
  <2> QED
    BY <2>2, <2>3, <1>4
<1>9. ASSUME NEW r \in new, NEW t \in new, r.data = t.data PROVE r = t
  <2>1. CASE r \in queued /\ t \in queued
    BY <2>1, <1>9 DEF SenderOK
  <2>2. ASSUME NEW j \in 1..Len(list), r = list[j], t \in queued PROVE FALSE
    BY <2>2, <1>9 DEF SenderOK
  <2>3. ASSUME NEW j \in 1..Len(list), t = list[j], r \in queued PROVE FALSE
    BY <2>3, <1>9 DEF SenderOK
  <2>4. ASSUME NEW j \in 1..Len(list), NEW m \in 1..Len(list), r = list[j], t = list[m]
        PROVE r = t
    <3>1. list[j].data.nonce = n + j - 1 /\ list[m].data.nonce = n + m - 1
      BY <1>2
    <3>2. list[j].data.nonce = list[m].data.nonce
      BY <2>4, <1>9
    <3> QED
      BY <2>4, <3>1, <3>2
  <2> QED
    BY <2>1, <2>2, <2>3, <2>4, <1>1, <1>4
<1>10. ASSUME s \notin Contracts, NEW r \in new
       PROVE  /\ r.data.nonce > n + Len(kept)
              /\ \A t \in new : r.data.nonce = t.data.nonce => r = t
  <2>1. \A x \in queued : x.data.nonce \in Nat /\ x.data.nonce > n + Len(list)
    BY <1>10, OrderedFields DEF SenderOK
  <2>2. \A j \in (i + 1)..Len(list) : /\ j \in 1..Len(list)
                                      /\ list[j].data.nonce = n + j - 1
    BY <1>1, <1>2
  <2>3. r.data.nonce > n + Len(kept)
    BY <2>1, <2>2, <1>1, <1>3, <1>4
  <2>4. ASSUME NEW t \in new, r.data.nonce = t.data.nonce PROVE r = t
    <3>1. CASE r \in queued /\ t \in queued
      BY <3>1, <2>4, <1>10 DEF SenderOK
    <3>2. ASSUME NEW j \in (i + 1)..Len(list), r = list[j], t \in queued PROVE FALSE
      BY <3>2, <2>1, <2>2, <2>4, <1>1
    <3>3. ASSUME NEW j \in (i + 1)..Len(list), t = list[j], r \in queued PROVE FALSE
      BY <3>3, <2>1, <2>2, <2>4, <1>1
    <3>4. ASSUME NEW j \in (i + 1)..Len(list), NEW m \in (i + 1)..Len(list),
                 r = list[j], t = list[m]
          PROVE r = t
      BY <3>4, <2>2, <2>4, <1>1
    <3> QED
      BY <3>1, <3>2, <3>3, <3>4, <1>4
  <2> QED
    BY <2>3, <2>4
<1>11. /\ Elements(kept) = {list[j] : j \in 1..(i - 1)}
       /\ Elements(list) = {list[j] : j \in 1..Len(list)}
  BY <1>1, <1>3, ElementsOfSeq
<1>12. Elements(kept) \cup new \subseteq Elements(list) \cup queued
  BY <1>1, <1>4, <1>11
<1>13. \A r \in Elements(list) \cup queued : r = list[i] \/ r \in Elements(kept) \cup new
  <2>1. \A j \in 1..Len(list) : j = i \/ j \in 1..(i - 1) \/ j \in (i + 1)..Len(list)
    BY <1>1
  <2> QED
    BY <2>1, <1>11
<1> HIDE DEF new
<1>14. SenderOK(kept, new, n, s)
  BY <1>3, <1>5, <1>6, <1>7, <1>8, <1>9, <1>10 DEF SenderOK
<1> QED
  BY <1>12, <1>13, <1>14 DEF kept, new, Truncated, Demoted, LosesOnly

(* removeTransaction of a queued transaction, or any other loss of queued  *)
(* transactions                                                            *)
LEMMA FewerQueuedSender ==
  ASSUME NEW list, NEW queued, NEW s \in Senders, NEW n \in Nat,
         SenderOK(list, queued, n, s), NEW fewer \in SUBSET queued
  PROVE  SenderOK(list, fewer, n, s)
BY DEF SenderOK

-----------------------------------------------------------------------------
(* Steps on the whole pool *)

(* The fields of a pool have the types of PoolState. *)
LEMMA PoolFields ==
  ASSUME NEW p \in PoolState
  PROVE  /\ p.pendingTransactions \in [Senders -> Seq(OrderedTransaction)]
         /\ p.queuedTransactions \in [Senders -> SUBSET OrderedTransaction]
         /\ p.hashToTransaction \in SUBSET OrderedTransaction
         /\ p.blockGasLimit \in GasLimits
BY DEF PoolState

(* q is p with other lists for sender s and another hash index. *)
Rewrites(p, q, s, list, queued, index) ==
  q = [p EXCEPT !.pendingTransactions[s] = list,
                !.queuedTransactions[s] = queued,
                !.hashToTransaction = index]

(* Every entry of the index is in the new lists, or was indexed before and *)
(* has not left the lists of s.                                            *)
IndexKept(p, s, list, queued, index) ==
  \A e \in index : \/ e \in Elements(list) \cup queued
                   \/ /\ e \in p.hashToTransaction
                      /\ e \in Pooled(p, s) => e \in Elements(list) \cup queued

(* The ordered transactions of `fresh` take the arrival number next. *)
FreshIds(fresh, next, newNext) ==
  /\ next \in Nat /\ newNext \in Nat /\ next <= newNext
  /\ \A o \in fresh : o.orderId = next /\ next < newNext /\ o.data \in WellFormedTxs
  /\ \A o, r \in fresh : o = r

(* A step that rewrites the lists of sender s, adds at most the ordered    *)
(* transaction o with a fresh order id, and keeps in the index only what   *)
(* is still in the lists.                                                  *)
LEMMA OneSenderStep ==
  ASSUME NEW p \in PoolState, NEW w \in World, NEW s \in Senders,
         NEW next, NEW newNext, NEW list, NEW queued, NEW index, NEW fresh, NEW q,
         PoolOK(p, w), OrderOK(p, next),
         SenderOK(list, queued, w.nonce[s], s),
         FreshIds(fresh, next, newNext),
         Elements(list) \cup queued \subseteq Pooled(p, s) \cup fresh,
         IndexKept(p, s, list, queued, index),
         Rewrites(p, q, s, list, queued, index)
  PROVE  q \in PoolState /\ PoolOK(q, w) /\ OrderOK(q, newNext)
<1>1. /\ p.pendingTransactions \in [Senders -> Seq(OrderedTransaction)]
      /\ p.queuedTransactions \in [Senders -> SUBSET OrderedTransaction]
      /\ p.hashToTransaction \in SUBSET OrderedTransaction
      /\ p.blockGasLimit \in GasLimits
  BY PoolFields
<1>2. list \in Seq(OrderedTransaction) /\ queued \in SUBSET OrderedTransaction
  BY DEF SenderOK
<1>3. /\ q.pendingTransactions = [p.pendingTransactions EXCEPT ![s] = list]
      /\ q.queuedTransactions = [p.queuedTransactions EXCEPT ![s] = queued]
      /\ q.hashToTransaction = index
      /\ q.blockGasLimit = p.blockGasLimit
  BY DEF PoolState, Rewrites
<1>4. Pooled(q, s) = Elements(list) \cup queued
  BY <1>1, <1>3 DEF Pooled
<1>5. \A t \in Senders : t # s => Pooled(q, t) = Pooled(p, t)
  BY <1>1, <1>3 DEF Pooled
<1>6. PooledAll(q) \subseteq PooledAll(p) \cup fresh
  BY <1>4, <1>5 DEF PooledAll
<1>7. Elements(list) \cup queued \subseteq OrderedTransaction
  BY <1>2, ElementsOfSeq, ElementOfSeq
<1>8. index \in SUBSET OrderedTransaction
  BY <1>1, <1>7 DEF IndexKept
<1>9. q \in PoolState
  <2>1. q.pendingTransactions \in [Senders -> Seq(OrderedTransaction)]
    BY <1>1, <1>2, <1>3
  <2>2. q.queuedTransactions \in [Senders -> SUBSET OrderedTransaction]
    BY <1>1, <1>2, <1>3
  <2>3. q = [pendingTransactions |-> q.pendingTransactions,
             queuedTransactions |-> q.queuedTransactions,
             hashToTransaction |-> q.hashToTransaction,
             blockGasLimit |-> q.blockGasLimit]
    BY DEF PoolState, Rewrites
  <2> QED
    BY <2>1, <2>2, <2>3, <1>1, <1>3, <1>8 DEF PoolState
<1>10. ASSUME NEW t \in Senders
       PROVE  SenderOK(q.pendingTransactions[t], q.queuedTransactions[t], w.nonce[t], t)
  <2>1. CASE t = s
    BY <2>1, <1>1, <1>3
  <2>2. CASE t # s
    <3>1. /\ q.pendingTransactions[t] = p.pendingTransactions[t]
          /\ q.queuedTransactions[t] = p.queuedTransactions[t]
      BY <2>2, <1>1, <1>3
    <3> QED
      BY <3>1 DEF PoolOK
  <2> QED
    BY <2>1, <2>2
<1>11. PoolIndexSound(q)
  <2> SUFFICES ASSUME NEW e \in index PROVE \E t \in Senders : e \in Pooled(q, t)
    BY <1>3 DEF PoolIndexSound, PooledAll
  <2>1. CASE e \in Elements(list) \cup queued
    BY <2>1, <1>4
  <2>2. CASE /\ e \in p.hashToTransaction
             /\ e \in Pooled(p, s) => e \in Elements(list) \cup queued
    <3>1. PICK t \in Senders : e \in Pooled(p, t)
      BY <2>2 DEF PoolOK, PoolIndexSound, PooledAll
    <3> QED
      BY <2>2, <3>1, <1>4, <1>5
  <2> QED
    BY <2>1, <2>2 DEF IndexKept
<1>12. \A t \in Senders : Pooled(p, t) \subseteq OrderedTransaction
  <2> SUFFICES ASSUME NEW t \in Senders PROVE Pooled(p, t) \subseteq OrderedTransaction
    OBVIOUS
  <2>1. p.pendingTransactions[t] \in Seq(OrderedTransaction)
    BY <1>1
  <2>2. Elements(p.pendingTransactions[t]) \subseteq OrderedTransaction
    BY <2>1, ElementsOfSeq, ElementOfSeq
  <2> QED
    BY <2>2, <1>1 DEF Pooled
<1>13. PooledAll(p) \subseteq OrderedTransaction
  BY <1>12 DEF PooledAll
<1>14. OrderOK(q, newNext)
  <2>1. \A o \in PooledAll(p) : o.orderId \in Nat /\ o.orderId < next
    BY <1>13, OrderedFields DEF OrderOK
  <2>2. \A o, r \in PooledAll(p) : o.orderId = r.orderId => o = r
    BY DEF OrderOK
  <2>3. \A o \in PooledAll(q) : o.orderId < newNext
    BY <2>1, <1>6 DEF FreshIds
  <2>4. \A o, r \in PooledAll(q) : o.orderId = r.orderId => o = r
    BY <2>1, <2>2, <1>6 DEF FreshIds
  <2>5. \A o \in PooledAll(q) : o.data \in WellFormedTxs
    BY <1>6 DEF FreshIds, OrderOK
  <2> QED
    BY <2>3, <2>4, <2>5 DEF OrderOK
<1> QED
  BY <1>9, <1>10, <1>11, <1>14 DEF PoolOK

(* updatePendingAndQueued in an account state w whose nonces have grown    *)
(* from those of w0, in which the pool was consistent.                     *)
LEMMA UpdatePool ==
  ASSUME NEW p \in PoolState, NEW w0 \in World, NEW w \in World, NEW next \in Nat,
         PoolOK(p, w0), OrderOK(p, next),
         \A s \in Senders :
           /\ w0.nonce[s] <= w.nonce[s]
           /\ s \notin Contracts => w.nonce[s] <= w0.nonce[s] + Len(p.pendingTransactions[s])
  PROVE  LET q == UpdatePendingAndQueued(p, w)
         IN  q \in PoolState /\ PoolOK(q, w) /\ OrderOK(q, next)
<1> DEFINE q == UpdatePendingAndQueued(p, w)
           kept(s) == KeptPending(p.pendingTransactions[s], w.nonce[s],
                                  w.balance[s], p.blockGasLimit)
           queued(s) == KeptQueued(p.queuedTransactions[s], p.pendingTransactions[s],
                                   w.nonce[s], w.balance[s], p.blockGasLimit)
           untouched(s) == Elements(kept(s)) \cup (queued(s) \cap p.queuedTransactions[s])
           removed == UNION {Pooled(p, s) \ untouched(s) : s \in Senders}
           index == {e \in p.hashToTransaction : \A r \in removed : r.data # e.data}
<1>1. /\ p.pendingTransactions \in [Senders -> Seq(OrderedTransaction)]
      /\ p.queuedTransactions \in [Senders -> SUBSET OrderedTransaction]
      /\ p.hashToTransaction \in SUBSET OrderedTransaction
      /\ p.blockGasLimit \in GasLimits /\ p.blockGasLimit \in Nat
  BY PoolFields, GasLimitsAssumption
<1>2. /\ q.pendingTransactions = [s \in Senders |-> kept(s)]
      /\ q.queuedTransactions = [s \in Senders |-> queued(s)]
      /\ q.hashToTransaction = index
      /\ q.blockGasLimit = p.blockGasLimit
      /\ q = [pendingTransactions |-> q.pendingTransactions,
              queuedTransactions |-> q.queuedTransactions,
              hashToTransaction |-> q.hashToTransaction,
              blockGasLimit |-> q.blockGasLimit]
  <2> DEFINE A == [s \in Senders |-> kept(s)]
             B == [s \in Senders |-> queued(s)]
  <2>1. q = [p EXCEPT !.pendingTransactions = A,
                      !.queuedTransactions = B,
                      !.hashToTransaction = index]
    BY DEF UpdatePendingAndQueued
  <2> HIDE DEF A, B, index, q
  <2>2. /\ q.pendingTransactions = A
        /\ q.queuedTransactions = B
        /\ q.hashToTransaction = index
        /\ q.blockGasLimit = p.blockGasLimit
        /\ q = [pendingTransactions |-> q.pendingTransactions,
                queuedTransactions |-> q.queuedTransactions,
                hashToTransaction |-> q.hashToTransaction,
                blockGasLimit |-> q.blockGasLimit]
    BY <2>1 DEF PoolState
  <2> QED
    BY <2>2 DEF A, B
<1>3. \A s \in Senders : /\ w0.nonce[s] \in Nat /\ w.nonce[s] \in Nat
                         /\ w.balance[s] \in Nat
  BY BalancesAssumption DEF World
<1>4. ASSUME NEW s \in Senders
      PROVE  /\ SenderOK(kept(s), queued(s), w.nonce[s], s)
             /\ Elements(kept(s)) \subseteq Elements(p.pendingTransactions[s])
             /\ queued(s) \subseteq Pooled(p, s)
  <2>1. SenderOK(p.pendingTransactions[s], p.queuedTransactions[s], w0.nonce[s], s)
    BY DEF PoolOK
  <2> QED
    BY <2>1, <1>1, <1>3, UpdateSender DEF Pooled
<1> HIDE DEF q, kept, queued
<1>5. \A s \in Senders : /\ kept(s) \in Seq(OrderedTransaction)
                         /\ queued(s) \in SUBSET OrderedTransaction
  BY <1>4 DEF SenderOK
<1>6. q \in PoolState
  <2>1. q.pendingTransactions \in [Senders -> Seq(OrderedTransaction)]
    BY <1>2, <1>5
  <2>2. q.queuedTransactions \in [Senders -> SUBSET OrderedTransaction]
    BY <1>2, <1>5
  <2>3. q.hashToTransaction \in SUBSET OrderedTransaction
    BY <1>1, <1>2
  <2> QED
    BY <2>1, <2>2, <2>3, <1>1, <1>2 DEF PoolState
<1>7. \A s \in Senders : /\ q.pendingTransactions[s] = kept(s)
                         /\ q.queuedTransactions[s] = queued(s)
  BY <1>2
<1>8. \A s \in Senders : Pooled(q, s) = Elements(kept(s)) \cup queued(s)
  BY <1>7 DEF Pooled
<1>9. PooledAll(q) \subseteq PooledAll(p)
  BY <1>4, <1>8 DEF PooledAll, Pooled
<1>10. PoolIndexSound(q)
  <2> SUFFICES ASSUME NEW e \in index PROVE \E s \in Senders : e \in Pooled(q, s)
    BY <1>2 DEF PoolIndexSound, PooledAll
  <2>1. PICK s \in Senders : e \in Pooled(p, s)
    BY DEF PoolOK, PoolIndexSound, PooledAll
  <2>2. e \notin removed
    OBVIOUS
  <2>3. e \in untouched(s)
    BY <2>1, <2>2
  <2> QED
    BY <2>3, <1>8
<1>11. \A s \in Senders :
         SenderOK(q.pendingTransactions[s], q.queuedTransactions[s], w.nonce[s], s)
  BY <1>4, <1>7
<1>12. OrderOK(q, next)
  BY <1>9 DEF OrderOK
<1> QED
  BY <1>6, <1>10, <1>11, <1>12 DEF PoolOK, q

(* Arrival numbers below a bound are below a larger one. *)
LEMMA OrderWeaken ==
  ASSUME NEW p \in PoolState, NEW next \in Nat, NEW newNext \in Nat, next <= newNext,
         OrderOK(p, next)
  PROVE  OrderOK(p, newNext)
<1>1. \A s \in Senders : Elements(p.pendingTransactions[s]) \subseteq OrderedTransaction
  <2> SUFFICES ASSUME NEW s \in Senders
               PROVE  Elements(p.pendingTransactions[s]) \subseteq OrderedTransaction
    OBVIOUS
  <2>1. p.pendingTransactions[s] \in Seq(OrderedTransaction)
    BY PoolFields
  <2> QED
    BY <2>1, ElementsOfSeq, ElementOfSeq
<1>2. PooledAll(p) \subseteq OrderedTransaction
  BY <1>1, PoolFields DEF PooledAll, Pooled
<1>3. \A o \in PooledAll(p) : o.orderId \in Nat
  BY <1>2, OrderedFields
<1> QED
  BY <1>3 DEF OrderOK

-----------------------------------------------------------------------------
(* The invariant is inductive *)

(* The empty pool of the constructor satisfies the invariant. *)
LEMMA InitEstablishes == Init => IInv
<1> SUFFICES ASSUME Init PROVE IInv
  OBVIOUS
<1>1. PICK limit \in GasLimits :
        pool = [pendingTransactions |-> [s \in Senders |-> <<>>],
                queuedTransactions  |-> [s \in Senders |-> {}],
                hashToTransaction   |-> {},
                blockGasLimit       |-> limit]
  BY DEF Init
<1>2. TypeOK
  BY <1>1 DEF Init, TypeOK, PoolState, World
<1>3. \A s \in Senders : /\ pool.pendingTransactions[s] = <<>>
                         /\ pool.queuedTransactions[s] = {}
  BY <1>1
<1>4. \A s \in Senders : Pooled(pool, s) = {}
  BY <1>3 DEF Pooled, Elements
<1>5. PooledAll(pool) = {}
  BY <1>4 DEF PooledAll
<1>6. PoolOK(pool, world)
  BY <1>1, <1>3 DEF PoolOK, SenderOK, PoolIndexSound
<1>7. OrderOK(pool, nextOrderId)
  BY <1>5 DEF OrderOK
<1> QED
  BY <1>2, <1>6, <1>7 DEF Init, IInv

(* What addTransaction knows once a transaction has passed validation. *)
LEMMA ValidatedFacts ==
  ASSUME IInv, NEW tx \in Txs, ValidateTransaction(tx)
  PROVE  LET s == tx.sender
             list == pool.pendingTransactions[s]
             o == [orderId |-> nextOrderId, data |-> tx]
         IN  /\ s \in Senders
             /\ SenderOK(list, pool.queuedTransactions[s], world.nonce[s], s)
             /\ world.nonce[s] \in Nat /\ Len(list) \in Nat
             /\ tx.nonce \in Nat /\ tx.nonce >= world.nonce[s]
             /\ Newcomer(o, list, pool.queuedTransactions[s], s)
             /\ GetNextPendingNonce(pool, world, s) = world.nonce[s] + Len(list)
             /\ Pooled(pool, s) = Elements(list) \cup pool.queuedTransactions[s]
             /\ Elements(list) = {list[i] : i \in 1..Len(list)}
<1> DEFINE s == tx.sender
           list == pool.pendingTransactions[s]
<1>1. s \in Senders /\ tx.nonce \in Nat
  BY TxsAssumption, BoundsAssumption DEF TxShape
<1>2. [orderId |-> nextOrderId, data |-> tx] \in OrderedTransaction
  BY DEF IInv, TypeOK, OrderedTransaction
<1>3. SenderOK(list, pool.queuedTransactions[s], world.nonce[s], s)
  BY <1>1 DEF IInv, PoolOK
<1>4. world.nonce[s] \in Nat
  BY <1>1 DEF IInv, TypeOK, World
<1>5. list \in Seq(OrderedTransaction) /\ Len(list) \in Nat
  BY <1>3, LenProperties DEF SenderOK
<1>6. Elements(list) = {list[i] : i \in 1..Len(list)}
  BY <1>5, ElementsOfSeq
<1>7. Pooled(pool, s) = Elements(list) \cup pool.queuedTransactions[s]
  BY DEF Pooled
<1>8. /\ \A i \in 1..Len(list) : tx # list[i].data
      /\ \A r \in pool.queuedTransactions[s] : tx # r.data
  BY <1>6, <1>7 DEF ValidateTransaction, KnownTransaction
<1>8a. Newcomer([orderId |-> nextOrderId, data |-> tx], list, pool.queuedTransactions[s], s)
  BY <1>2, <1>8 DEF Newcomer
<1>9. GetNextPendingNonce(pool, world, s) = world.nonce[s] + Len(list)
  <2>1. CASE list = <<>>
    BY <2>1, <1>4 DEF GetNextPendingNonce
  <2>2. CASE list # <<>>
    <3>1. Len(list) \in 1..Len(list)
      BY <2>2, <1>5
    <3>2. list[Len(list)].data.nonce = world.nonce[s] + Len(list) - 1
      BY <3>1, <1>3 DEF SenderOK
    <3> QED
      BY <2>2, <3>2, <1>4, <1>5 DEF GetNextPendingNonce
  <2> QED
    BY <2>1, <2>2
<1>10. tx.nonce >= world.nonce[s]
  BY DEF ValidateTransaction
<1> QED
  BY <1>1, <1>3, <1>4, <1>5, <1>6, <1>7, <1>8a, <1>9, <1>10

(* addTransaction preserves the invariant, in each of its five outcomes. *)
LEMMA AddPreserves == IInv /\ AddTransaction => IInv'
<1> SUFFICES ASSUME IInv, NEW tx \in Txs,
                    \/ PushPending(tx)
                    \/ \E i \in DOMAIN pool.pendingTransactions[tx.sender] : ReplacePending(tx, i)
                    \/ PushQueued(tx)
                    \/ \E old \in pool.queuedTransactions[tx.sender] : ReplaceQueued(tx, old)
                    \/ RejectUnderpriced(tx)
             PROVE  IInv'
  BY DEF AddTransaction
<1> DEFINE s == tx.sender
           o == [orderId |-> nextOrderId, data |-> tx]
           list == pool.pendingTransactions[s]
           queued == pool.queuedTransactions[s]
<1>1. ValidateTransaction(tx)
  BY DEF PushPending, ReplacePending, PushQueued, ReplaceQueued, RejectUnderpriced
<1>2. /\ s \in Senders
      /\ SenderOK(list, queued, world.nonce[s], s)
      /\ world.nonce[s] \in Nat /\ Len(list) \in Nat
      /\ tx.nonce \in Nat /\ tx.nonce >= world.nonce[s]
      /\ Newcomer(o, list, queued, s)
      /\ GetNextPendingNonce(pool, world, s) = world.nonce[s] + Len(list)
      /\ Pooled(pool, s) = Elements(list) \cup queued
      /\ Elements(list) = {list[i] : i \in 1..Len(list)}
  BY <1>1, ValidatedFacts
<1>3. /\ pool \in PoolState /\ world \in World /\ nextOrderId \in Nat
      /\ snapshots \in SUBSET Snapshot /\ nextSnapshotId \in Nat
      /\ PoolOK(pool, world) /\ OrderOK(pool, nextOrderId)
  BY DEF IInv, TypeOK
<1>4. o.data = tx /\ o.orderId = nextOrderId
  OBVIOUS
<1>5. UNCHANGED <<world, snapshots, nextSnapshotId>> /\ nextOrderId' = nextOrderId + 1
  BY DEF PushPending, ReplacePending, PushQueued, ReplaceQueued, RejectUnderpriced
<1>6. /\ nextOrderId + 1 \in Nat /\ nextOrderId <= nextOrderId + 1
      /\ FreshIds({o}, nextOrderId, nextOrderId + 1)
  <2>1. o.data \in WellFormedTxs
    BY <1>1 DEF ValidateTransaction, WellFormedTxs
  <2> QED
    BY <2>1, <1>2, <1>3 DEF FreshIds
<1> HIDE DEF s, o, list, queued
<1>7. pool' \in PoolState /\ PoolOK(pool', world) /\ OrderOK(pool', nextOrderId + 1)
  <2>1. CASE PushPending(tx)
    <3> DEFINE newList == Pushed(list, queued, o)
               newQueued == LeftQueued(queued, o)
               index == SetTransactionByHash(pool.hashToTransaction, o)
    <3>1. tx.nonce = world.nonce[s] + Len(list)
      <4>1. tx.nonce <= world.nonce[s] + Len(list)
        BY <2>1, <1>2 DEF PushPending, s
      <4>2. tx.nonce \notin Nonces(Elements(list))
        BY <2>1 DEF PushPending, s, list
      <4>3. ASSUME tx.nonce < world.nonce[s] + Len(list) PROVE FALSE
        <5>1. tx.nonce - world.nonce[s] + 1 \in 1..Len(list)
          BY <4>3, <1>2
        <5>2. list[tx.nonce - world.nonce[s] + 1].data.nonce = tx.nonce
          BY <5>1, <1>2 DEF SenderOK
        <5> QED
          BY <4>2, <5>1, <5>2, <1>2 DEF Nonces
      <4> QED
        BY <4>1, <4>3, <1>2
    <3>2. /\ SenderOK(newList, newQueued, world.nonce[s], s)
          /\ Elements(newList) \cup newQueued = Elements(list) \cup queued \cup {o}
      <4>1. NextInLine(o, list, world.nonce[s])
        BY <3>1, <1>4 DEF NextInLine
      <4>2. /\ s \in Senders /\ world.nonce[s] \in Nat
            /\ SenderOK(list, queued, world.nonce[s], s)
            /\ Newcomer(o, list, queued, s)
        BY <1>2
      <4>3. SenderOK(Pushed(list, queued, o), LeftQueued(queued, o), world.nonce[s], s)
        BY <4>1, <4>2, PushPendingSender, Zenon
      <4>4. Regroups(Pushed(list, queued, o), LeftQueued(queued, o), list, queued, o)
        BY <4>1, <4>2, PushPendingSender, Zenon
      <4> QED
        BY <4>3, <4>4 DEF Regroups
    <3>3. Rewrites(pool, pool', s, newList, newQueued, index)
      BY <2>1, <1>4 DEF PushPending, Pushed, LeftQueued, Rewrites, s, o, list, queued
    <3> HIDE DEF newList, newQueued
    <3>4. Elements(newList) \cup newQueued \subseteq Pooled(pool, s) \cup {o}
      BY <3>2, <1>2
    <3>5. IndexKept(pool, s, newList, newQueued, index)
      BY <3>2, <1>2 DEF SetTransactionByHash, IndexKept
    <3> HIDE DEF newQueued, index
    <3> QED
      BY <3>2, <3>3, <3>4, <3>5, <1>2, <1>3, <1>6, OneSenderStep
  <2>2. CASE \E i \in DOMAIN pool.pendingTransactions[tx.sender] : ReplacePending(tx, i)
    <3>1. PICK i \in 1..Len(list) : ReplacePending(tx, i)
      BY <2>2, <1>2, LenProperties DEF s, list, SenderOK
    <3> DEFINE newList == Replaced(list, i, o)
               index == SetTransactionByHash(
                          DeleteTransactionByHash(pool.hashToTransaction, list[i].data), o)
    <3>2. list[i].data.nonce = tx.nonce
      BY <3>1 DEF ReplacePending, s, list
    <3>3. /\ SenderOK(newList, queued, world.nonce[s], s)
          /\ Elements(newList) \subseteq Elements(list) \cup {o}
          /\ o \in Elements(newList)
          /\ \A r \in Elements(list) : r = list[i] \/ r \in Elements(newList)
      <4>1. o.data.nonce = list[i].data.nonce
        BY <3>2, <1>4
      <4> QED
        BY <4>1, <1>2, ReplacePendingSender
    <3>4. Rewrites(pool, pool', s, newList, queued, index)
      <4>1. pool' = [pool EXCEPT !.pendingTransactions[s][i] = o,
                                 !.hashToTransaction = index]
        BY <3>1 DEF ReplacePending, s, o, list
      <4> HIDE DEF index
      <4> QED
        BY <4>1, <1>2, <1>3 DEF PoolState, list, queued, Rewrites, Replaced
    <3> HIDE DEF newList
    <3>5. Elements(newList) \cup queued \subseteq Pooled(pool, s) \cup {o}
      BY <3>3, <1>2
    <3>6. IndexKept(pool, s, newList, queued, index)
      BY <3>3, <1>2 DEF SetTransactionByHash, DeleteTransactionByHash, IndexKept
    <3> HIDE DEF index
    <3> QED
      BY <3>3, <3>4, <3>5, <3>6, <1>2, <1>3, <1>6, OneSenderStep
  <2>3. ASSUME NEW gone \in SUBSET queued,
               tx.nonce > GetNextPendingNonce(pool, world, tx.sender),
               \A r \in queued \ gone : s \notin Contracts => r.data.nonce # tx.nonce,
               NEW index,
               pool' = [pool EXCEPT !.queuedTransactions[s] = (queued \ gone) \cup {o},
                                    !.hashToTransaction = index],
               \A e \in index : e = o \/ (e \in pool.hashToTransaction /\ e \notin gone)
        PROVE  pool' \in PoolState /\ PoolOK(pool', world) /\ OrderOK(pool', nextOrderId + 1)
    <3> DEFINE newQueued == (queued \ gone) \cup {o}
    <3>1. SenderOK(list, newQueued, world.nonce[s], s)
      <4>1. o.data.nonce = tx.nonce
        BY <1>4
      <4>2. o.data.nonce > world.nonce[s] + Len(list)
        BY <4>1, <2>3, <1>2 DEF s
      <4> QED
        BY <4>1, <4>2, <2>3, <1>2, <1>4, PutQueuedSender
    <3>2. Rewrites(pool, pool', s, list, newQueued, index)
      <4> HIDE DEF newQueued
      <4> QED
        BY <2>3, <1>2, <1>3 DEF PoolState, list, newQueued, Rewrites
    <3>3. Elements(list) \cup newQueued \subseteq Pooled(pool, s) \cup {o}
      BY <1>2
    <3>4. IndexKept(pool, s, list, newQueued, index)
      BY <2>3, <1>2 DEF IndexKept
    <3> HIDE DEF newQueued
    <3> QED
      BY <3>1, <3>2, <3>3, <3>4, <1>2, <1>3, <1>6, OneSenderStep
  <2>4. CASE PushQueued(tx)
    <3> DEFINE index == SetTransactionByHash(pool.hashToTransaction, o)
    <3>1. \A r \in queued \ {} : s \notin Contracts => r.data.nonce # tx.nonce
      BY <2>4 DEF PushQueued, Nonces, s, queued
    <3>2. pool' = [pool EXCEPT !.queuedTransactions[s] = (queued \ {}) \cup {o},
                               !.hashToTransaction = index]
      BY <2>4 DEF PushQueued, s, o, queued
    <3>3. \A e \in index : e = o \/ (e \in pool.hashToTransaction /\ e \notin {})
      BY DEF SetTransactionByHash
    <3>4. tx.nonce > GetNextPendingNonce(pool, world, tx.sender)
      BY <2>4 DEF PushQueued
    <3> HIDE DEF index
    <3> QED
      BY <3>1, <3>2, <3>3, <3>4, <2>3, {} \in SUBSET queued, Zenon
  <2>5. CASE \E old \in pool.queuedTransactions[tx.sender] : ReplaceQueued(tx, old)
    <3>1. PICK old \in queued : ReplaceQueued(tx, old)
      BY <2>5 DEF queued, s
    <3> DEFINE index == SetTransactionByHash(
                          DeleteTransactionByHash(pool.hashToTransaction, old.data), o)
    <3>2. \A r \in queued \ {old} : s \notin Contracts => r.data.nonce # tx.nonce
      BY <3>1, <1>2 DEF ReplaceQueued, SenderOK
    <3>3. pool' = [pool EXCEPT !.queuedTransactions[s] = (queued \ {old}) \cup {o},
                               !.hashToTransaction = index]
      BY <3>1 DEF ReplaceQueued, s, o, queued
    <3>4. \A e \in index : e = o \/ (e \in pool.hashToTransaction /\ e \notin {old})
      BY DEF SetTransactionByHash, DeleteTransactionByHash
    <3>5. tx.nonce > GetNextPendingNonce(pool, world, tx.sender)
      BY <3>1 DEF ReplaceQueued
    <3> HIDE DEF index
    <3> QED
      BY <3>1, <3>2, <3>3, <3>4, <3>5, <2>3
  <2>6. CASE RejectUnderpriced(tx)
    <3>1. pool' = pool
      BY <2>6 DEF RejectUnderpriced
    <3>2. OrderOK(pool, nextOrderId + 1)
      BY <1>3, OrderWeaken, <1>6
    <3> QED
      BY <3>1, <3>2, <1>3
  <2> QED
    BY <2>1, <2>2, <2>4, <2>5, <2>6
<1>8. \A x \in snapshots : PoolOK(x.pool, x.world) /\ OrderOK(x.pool, nextOrderId + 1)
  <2> SUFFICES ASSUME NEW x \in snapshots
               PROVE  PoolOK(x.pool, x.world) /\ OrderOK(x.pool, nextOrderId + 1)
    OBVIOUS
  <2>1. x.pool \in PoolState /\ PoolOK(x.pool, x.world) /\ OrderOK(x.pool, nextOrderId)
    BY <1>3 DEF IInv, Snapshot
  <2> QED
    BY <2>1, <1>3, <1>6, OrderWeaken
<1> QED
  BY <1>3, <1>5, <1>6, <1>7, <1>8 DEF IInv, TypeOK

(* removeTransaction preserves the invariant, from either list. *)
LEMMA RemovePreserves == IInv /\ RemoveTransaction => IInv'
<1> SUFFICES ASSUME IInv, NEW o \in pool.hashToTransaction,
                    \/ \E i \in DOMAIN pool.pendingTransactions[o.data.sender] : RemovePending(o, i)
                    \/ RemoveQueued(o)
             PROVE  IInv'
  BY DEF RemoveTransaction
<1> DEFINE s == o.data.sender
           list == pool.pendingTransactions[s]
           queued == pool.queuedTransactions[s]
           index == DeleteTransactionByHash(pool.hashToTransaction, o.data)
<1>1. /\ pool \in PoolState /\ world \in World /\ nextOrderId \in Nat
      /\ snapshots \in SUBSET Snapshot /\ nextSnapshotId \in Nat
      /\ PoolOK(pool, world) /\ OrderOK(pool, nextOrderId)
  BY DEF IInv, TypeOK
<1>2. o \in OrderedTransaction /\ s \in Senders
  BY <1>1, PoolFields, OrderedFields
<1>3. /\ SenderOK(list, queued, world.nonce[s], s)
      /\ world.nonce[s] \in Nat
      /\ Pooled(pool, s) = Elements(list) \cup queued
  BY <1>1, <1>2 DEF PoolOK, World, Pooled
<1>4. FreshIds({}, nextOrderId, nextOrderId)
  BY <1>1 DEF FreshIds
<1>5. UNCHANGED <<world, nextOrderId, snapshots, nextSnapshotId>>
  BY DEF RemovePending, RemoveQueued
<1>6. pool' \in PoolState /\ PoolOK(pool', world) /\ OrderOK(pool', nextOrderId)
  <2>1. CASE \E i \in DOMAIN pool.pendingTransactions[s] : RemovePending(o, i)
    <3>1. PICK i \in 1..Len(list) : RemovePending(o, i)
      BY <2>1, <1>3, LenProperties DEF SenderOK
    <3> DEFINE kept == Truncated(list, i)
               new == Demoted(list, queued, i)
    <3>2. SenderOK(kept, new, world.nonce[s], s) /\ LosesOnly(kept, new, list, queued, i)
      <4> HIDE DEF list, queued, s
      <4> QED
        BY <1>2, <1>3, RemovePendingSender, Zenon
    <3>3. list[i] = o
      BY <3>1 DEF RemovePending
    <3>4. Rewrites(pool, pool', s, kept, new, index)
      BY <3>1 DEF RemovePending, Rewrites, Truncated, Demoted
    <3> HIDE DEF kept, new, list, queued, s
    <3>5. Elements(kept) \cup new \subseteq Pooled(pool, s) \cup {}
      BY <3>2, <1>3 DEF LosesOnly
    <3>6. IndexKept(pool, s, kept, new, index)
      BY <3>2, <3>3, <1>3 DEF IndexKept, DeleteTransactionByHash, LosesOnly
    <3> HIDE DEF index
    <3> QED
      BY <3>2, <3>4, <3>5, <3>6, <1>1, <1>2, <1>4, OneSenderStep
  <2>2. CASE RemoveQueued(o)
    <3> DEFINE new == queued \ {o}
    <3>1. SenderOK(list, new, world.nonce[s], s)
      BY <1>2, <1>3, FewerQueuedSender
    <3>2. Rewrites(pool, pool', s, list, new, index)
      <4>1. pool' = [pool EXCEPT !.queuedTransactions[s] = new,
                                 !.hashToTransaction = index]
        BY <2>2 DEF RemoveQueued
      <4> HIDE DEF index, new
      <4> QED
        BY <4>1, <1>1, <1>2 DEF PoolState, Rewrites
    <3> HIDE DEF list, queued, s
    <3>3. Elements(list) \cup new \subseteq Pooled(pool, s) \cup {}
      BY <1>3
    <3>4. IndexKept(pool, s, list, new, index)
      BY <1>3 DEF IndexKept, DeleteTransactionByHash
    <3> HIDE DEF index, new
    <3> QED
      BY <3>1, <3>2, <3>3, <3>4, <1>1, <1>2, <1>4, OneSenderStep
  <2> QED
    BY <2>1, <2>2
<1> QED
  BY <1>1, <1>5, <1>6 DEF IInv, TypeOK

(* Mining a block, changing the block gas limit, and setting an account's  *)
(* balance or nonce preserve the invariant.                                *)
LEMMA EnvironmentPreserves ==
  ASSUME IInv,
         \/ MineBlock
         \/ \E limit \in GasLimits : SetBlockGasLimit(limit)
         \/ \E s \in Senders, b \in Balances : SetAccountBalance(s, b)
         \/ \E s \in Senders, n \in 0..MaxNonce : SetNextConfirmedNonce(s, n)
  PROVE  IInv'
<1>1. /\ pool \in PoolState /\ world \in World /\ nextOrderId \in Nat
      /\ snapshots \in SUBSET Snapshot /\ nextSnapshotId \in Nat
      /\ PoolOK(pool, world) /\ OrderOK(pool, nextOrderId)
  BY DEF IInv, TypeOK
<1>2. UNCHANGED <<nextOrderId, snapshots, nextSnapshotId>>
  BY DEF MineBlock, SetBlockGasLimit, SetAccountBalance, SetNextConfirmedNonce
<1>3. \A s \in Senders : world.nonce[s] \in Nat /\ Len(pool.pendingTransactions[s]) \in Nat
  BY <1>1, PoolFields, LenProperties DEF World
<1>4. pool' \in PoolState /\ world' \in World /\ PoolOK(pool', world') /\ OrderOK(pool', nextOrderId)
  <2>1. CASE MineBlock
    <3>1. PICK w \in [nonce : [Senders -> 0..MaxNonce], balance : [Senders -> Balances]] :
            /\ WorldAfterBlock(w)
            /\ world' = w
            /\ pool' = UpdatePendingAndQueued(pool, w)
      BY <2>1 DEF MineBlock
    <3>2. w \in World
      BY <3>1, BoundsAssumption DEF World
    <3>3. \A s \in Senders :
            /\ world.nonce[s] <= w.nonce[s]
            /\ s \notin Contracts => w.nonce[s] <= world.nonce[s] + Len(pool.pendingTransactions[s])
      BY <3>1, <1>3 DEF WorldAfterBlock
    <3> QED
      BY <3>1, <3>2, <3>3, <1>1, UpdatePool
  <2>2. ASSUME NEW limit \in GasLimits, SetBlockGasLimit(limit)
        PROVE  pool' \in PoolState /\ world' \in World /\ PoolOK(pool', world') /\ OrderOK(pool', nextOrderId)
    <3> DEFINE p == [pool EXCEPT !.blockGasLimit = limit]
    <3>1. /\ p \in PoolState
          /\ p.pendingTransactions = pool.pendingTransactions
          /\ p.queuedTransactions = pool.queuedTransactions
          /\ p.hashToTransaction = pool.hashToTransaction
      BY <1>1 DEF PoolState
    <3>2. pool' = UpdatePendingAndQueued(p, world) /\ world' = world
      BY <2>2 DEF SetBlockGasLimit
    <3> HIDE DEF p
    <3>3. PooledAll(p) = PooledAll(pool)
      BY <3>1 DEF PooledAll, Pooled
    <3>4. PoolOK(p, world) /\ OrderOK(p, nextOrderId)
      BY <3>1, <3>3, <1>1 DEF PoolOK, PoolIndexSound, OrderOK
    <3>5. \A s \in Senders :
            /\ world.nonce[s] <= world.nonce[s]
            /\ s \notin Contracts => world.nonce[s] <= world.nonce[s] + Len(p.pendingTransactions[s])
      BY <3>1, <1>3
    <3> QED
      BY <3>1, <3>2, <3>4, <3>5, <1>1, UpdatePool
  <2>3. ASSUME NEW s \in Senders, NEW b \in Balances, SetAccountBalance(s, b)
        PROVE  pool' \in PoolState /\ world' \in World /\ PoolOK(pool', world') /\ OrderOK(pool', nextOrderId)
    <3>1. pool' = pool /\ world' \in World /\ world'.nonce = world.nonce
      BY <2>3, <1>1 DEF SetAccountBalance, World
    <3> QED
      BY <3>1, <1>1 DEF PoolOK
  <2>4. ASSUME NEW s \in Senders, NEW n \in 0..MaxNonce, SetNextConfirmedNonce(s, n)
        PROVE  pool' \in PoolState /\ world' \in World /\ PoolOK(pool', world') /\ OrderOK(pool', nextOrderId)
    <3>1. pool' = pool /\ world' \in World
      BY <2>4, <1>1, BoundsAssumption DEF SetNextConfirmedNonce, World
    <3>2. ASSUME NEW t \in Senders
          PROVE  SenderOK(pool.pendingTransactions[t], pool.queuedTransactions[t], world'.nonce[t], t)
      <4>1. Pooled(pool, t) = {}
        BY <2>4 DEF SetNextConfirmedNonce, HasTransactions
      <4>2. pool.pendingTransactions[t] \in Seq(OrderedTransaction)
        BY <1>1, PoolFields
      <4>3. Elements(pool.pendingTransactions[t]) = {} /\ pool.queuedTransactions[t] = {}
        BY <4>1 DEF Pooled
      <4>4. Len(pool.pendingTransactions[t]) = 0
        <5>1. Elements(pool.pendingTransactions[t])
                = {pool.pendingTransactions[t][i] : i \in 1..Len(pool.pendingTransactions[t])}
          BY <4>2, ElementsOfSeq
        <5>2. 1 \notin 1..Len(pool.pendingTransactions[t])
          BY <5>1, <4>3
        <5> QED
          BY <5>2, <1>3
      <4> QED
        BY <4>2, <4>3, <4>4 DEF SenderOK
    <3> QED
      BY <3>1, <3>2, <1>1 DEF PoolOK
  <2> QED
    BY <2>1, <2>2, <2>3, <2>4
<1> QED
  BY <1>1, <1>2, <1>4 DEF IInv, TypeOK

(* evm_snapshot saves, and evm_revert restores, a state that satisfies the *)
(* invariant.                                                              *)
LEMMA SnapshotPreserves ==
  ASSUME IInv, TakeSnapshot \/ \E snapshot \in snapshots : Revert(snapshot)
  PROVE  IInv'
<1>1. CASE TakeSnapshot
  <2>1. [id |-> nextSnapshotId, pool |-> pool, world |-> world] \in Snapshot
    BY DEF IInv, TypeOK, Snapshot
  <2>2. TypeOK'
    BY <1>1, <2>1 DEF TakeSnapshot, IInv, TypeOK
  <2>3. \A x \in snapshots' : PoolOK(x.pool, x.world) /\ OrderOK(x.pool, nextOrderId)
    BY <1>1 DEF TakeSnapshot, IInv
  <2> QED
    BY <1>1, <2>2, <2>3 DEF TakeSnapshot, IInv
<1>2. ASSUME NEW snapshot \in snapshots, Revert(snapshot) PROVE IInv'
  <2>1. TypeOK'
    BY <1>2 DEF Revert, IInv, TypeOK, Snapshot
  <2> QED
    BY <1>2, <2>1 DEF Revert, IInv
<1> QED
  BY <1>1, <1>2

(* Every step of the pool preserves the invariant. *)
LEMMA NextPreserves ==
  ASSUME IInv, [Next]_vars
  PROVE  IInv'
<1>1. CASE UNCHANGED vars
  BY <1>1 DEF IInv, TypeOK, vars
<1>2. CASE Next
  BY <1>2, AddPreserves, RemovePreserves, EnvironmentPreserves, SnapshotPreserves DEF Next
<1> QED
  BY <1>1, <1>2

(* IInv holds in every reachable state. *)
THEOREM Invariance == Spec => []IInv
<1>1. Init => IInv
  BY InitEstablishes
<1>2. IInv /\ [Next]_vars => IInv'
  BY NextPreserves
<1> QED
  BY <1>1, <1>2, PTL DEF Spec

(* The pool, the account state and the saved snapshots keep their types. *)
THEOREM TypeCorrect == Spec => []TypeOK
BY Invariance, PTL DEF IInv

(* Whatever the transactions, balances and gas limits, and however blocks  *)
(* are filled, the pending list of a sender is executable from its first   *)
(* transaction to its last: TxPool.ts never leaves a nonce gap in it.      *)
THEOREM PendingIsExecutable == Spec => []PendingContiguous
<1>1. IInv => PendingContiguous
  <2> SUFFICES ASSUME IInv, NEW s \in Senders, NEW i \in DOMAIN pool.pendingTransactions[s]
               PROVE  pool.pendingTransactions[s][i].data.nonce = world.nonce[s] + i - 1
    BY DEF PendingContiguous, PoolContiguous
  <2>1. SenderOK(pool.pendingTransactions[s], pool.queuedTransactions[s], world.nonce[s], s)
    BY DEF IInv, PoolOK
  <2> QED
    BY <2>1, LenProperties DEF SenderOK
<1> QED
  BY <1>1, Invariance, PTL

(* The hash index never names a transaction that is in no list, so         *)
(* removeTransaction never throws "Tx should have existed".                *)
THEOREM IndexIsSound == Spec => []HashIndexSound
<1>1. IInv => HashIndexSound
  BY DEF IInv, PoolOK, HashIndexSound
<1> QED
  BY <1>1, Invariance, PTL

(* For accounts that are not contracts, no queued transaction could follow *)
(* the pending ones, and queued nonces are distinct.                       *)
THEOREM QueuedIsNotExecutable == Spec => []QueuedNotExecutable
<1>1. IInv => QueuedNotExecutable
  <2> SUFFICES ASSUME IInv, NEW s \in Senders \ Contracts
               PROVE  \A o \in pool.queuedTransactions[s] :
                        /\ o.data.nonce > world.nonce[s] + Len(pool.pendingTransactions[s])
                        /\ \A r \in pool.queuedTransactions[s] :
                             o.data.nonce = r.data.nonce => o = r
    BY DEF QueuedNotExecutable, PoolQueuedLater
  <2>1. SenderOK(pool.pendingTransactions[s], pool.queuedTransactions[s], world.nonce[s], s)
    BY DEF IInv, PoolOK
  <2> QED
    BY <2>1 DEF SenderOK
<1> QED
  BY <1>1, Invariance, PTL

(* No transaction is in a sender's lists twice and every arrival number in *)
(* the pool is used once and below the counter, reverts included.          *)
THEOREM ArrivalOrderIsUnique == Spec => []ArrivalOrderUnique
<1>1. IInv => ArrivalOrderUnique
  <2> SUFFICES ASSUME IInv PROVE ArrivalOrderUnique
    OBVIOUS
  <2>1. ASSUME NEW s \in Senders
        PROVE  /\ \A o, r \in Pooled(pool, s) : o.data = r.data => o = r
               /\ Elements(pool.pendingTransactions[s]) \cap pool.queuedTransactions[s] = {}
    <3> DEFINE list == pool.pendingTransactions[s]
               queued == pool.queuedTransactions[s]
    <3>1. SenderOK(list, queued, world.nonce[s], s)
      BY DEF IInv, PoolOK
    <3>2. /\ list \in Seq(OrderedTransaction)
          /\ Elements(list) = {list[i] : i \in 1..Len(list)}
          /\ Pooled(pool, s) = Elements(list) \cup queued
      BY <3>1, ElementsOfSeq DEF SenderOK, Pooled
    <3>3. world.nonce[s] \in Nat /\ Len(list) \in Nat
      BY <3>2, LenProperties DEF IInv, TypeOK, World
    <3> HIDE DEF list, queued
    <3>4. \A i, j \in 1..Len(list) : list[i].data = list[j].data => list[i] = list[j]
      <4> SUFFICES ASSUME NEW i \in 1..Len(list), NEW j \in 1..Len(list),
                          list[i].data = list[j].data
                   PROVE  list[i] = list[j]
        OBVIOUS
      <4>1. /\ list[i].data.nonce = world.nonce[s] + i - 1
            /\ list[j].data.nonce = world.nonce[s] + j - 1
        BY <3>1 DEF SenderOK
      <4>2. i = j
        BY <4>1, <3>3
      <4> QED
        BY <4>2
    <3>5. \A r \in queued : \A i \in 1..Len(list) : r.data # list[i].data
      BY <3>1 DEF SenderOK
    <3>6. \A o, r \in queued : o.data = r.data => o = r
      BY <3>1 DEF SenderOK
    <3>7. \A o, r \in Pooled(pool, s) : o.data = r.data => o = r
      BY <3>2, <3>4, <3>5, <3>6
    <3>8. Elements(list) \cap queued = {}
      BY <3>2, <3>5
    <3> QED
      BY <3>7, <3>8 DEF list, queued
  <2>2. OrderOK(pool, nextOrderId)
    BY DEF IInv
  <2> QED
    BY <2>1, <2>2 DEF ArrivalOrderUnique, PoolDistinct, PoolDisjoint, OrderOK
<1> QED
  BY <1>1, Invariance, PTL

-----------------------------------------------------------------------------
(* What a step may do to the transactions of a sender *)

(* getMinNewFeePrice rounds 110% of the fee up. *)
LEMMA MinNewFeePrice ==
  ASSUME NEW fee \in Nat
  PROVE  GetMinNewFeePrice(fee) \in Nat /\ 100 * GetMinNewFeePrice(fee) >= 110 * fee
<1> DEFINE x == fee * 110
<1>1. x \in Nat /\ x = 110 * fee
  OBVIOUS
<1> HIDE DEF x
<1>2. /\ x \div 100 \in Nat /\ x % 100 \in 0..99
      /\ x = 100 * (x \div 100) + (x % 100)
  BY <1>1
<1>3. GetMinNewFeePrice(fee) = IF x % 100 = 0 THEN x \div 100 ELSE x \div 100 + 1
  BY DEF GetMinNewFeePrice, x
<1>4. GetMinNewFeePrice(fee) \in Nat /\ 100 * GetMinNewFeePrice(fee) >= x
  <2>1. CASE x % 100 = 0
    BY <2>1, <1>2, <1>3
  <2>2. CASE x % 100 # 0
    BY <2>2, <1>2, <1>3
  <2> QED
    BY <2>1, <2>2
<1> QED
  BY <1>1, <1>4

(* Both fees of a replacement are 10% above those of what it replaces. *)
PaysTenth(old, new) ==
  /\ 100 * new.maxFee >= 110 * old.maxFee
  /\ 100 * new.prio >= 110 * old.prio

(* _replaceTx accepts no cheaper replacement. *)
LEMMA ReplacementPays ==
  ASSUME NEW old \in Txs, NEW new \in Txs, PaysReplacement(old, new)
  PROVE  PaysTenth(old, new)
<1>1. /\ old.maxFee \in Nat /\ old.prio \in Nat
      /\ new.maxFee \in Nat /\ new.prio \in Nat
  BY TxsAssumption DEF TxShape
<1>2. /\ GetMinNewFeePrice(old.maxFee) \in Nat
      /\ 100 * GetMinNewFeePrice(old.maxFee) >= 110 * old.maxFee
  BY <1>1, MinNewFeePrice
<1>3. /\ GetMinNewFeePrice(old.prio) \in Nat
      /\ 100 * GetMinNewFeePrice(old.prio) >= 110 * old.prio
  BY <1>1, MinNewFeePrice
<1>4. /\ new.maxFee >= GetMinNewFeePrice(old.maxFee)
      /\ new.prio >= GetMinNewFeePrice(old.prio)
  BY DEF PaysReplacement
<1>5. 100 * new.maxFee >= 110 * old.maxFee
  BY <1>1, <1>2, <1>4
<1>6. 100 * new.prio >= 110 * old.prio
  BY <1>1, <1>3, <1>4
<1> QED
  BY <1>5, <1>6 DEF PaysTenth

(* Between the transactions `before` and `after`, one gave way to another  *)
(* of the same nonce, which pays for it.                                   *)
Exchanged(before, after) ==
  \E old \in before, new \in after \ before :
    /\ PaysTenth(old.data, new.data)
    /\ old.data.nonce = new.data.nonce
    /\ before \ {old} \subseteq after
    /\ after \subseteq before \cup {new}

(* Rewriting the lists of s leaves those of the other senders alone. *)
LEMMA RewritesPooled ==
  ASSUME NEW p \in PoolState, NEW q, NEW s \in Senders, NEW list, NEW queued, NEW index,
         Rewrites(p, q, s, list, queued, index)
  PROVE  /\ Pooled(q, s) = Elements(list) \cup queued
         /\ \A t \in Senders : t # s => Pooled(q, t) = Pooled(p, t)
         /\ q.hashToTransaction = index
BY DEF Rewrites, PoolState, Pooled

(* addTransaction loses nothing, or exchanges one transaction of a sender. *)
LEMMA AddEffect ==
  ASSUME IInv, AddTransaction, NEW t \in Senders
  PROVE  Pooled(pool, t) \subseteq Pooled(pool', t) \/ Exchanged(Pooled(pool, t), Pooled(pool', t))
<1> PICK tx \in Txs : \/ PushPending(tx)
                      \/ \E i \in DOMAIN pool.pendingTransactions[tx.sender] : ReplacePending(tx, i)
                      \/ PushQueued(tx)
                      \/ \E old \in pool.queuedTransactions[tx.sender] : ReplaceQueued(tx, old)
                      \/ RejectUnderpriced(tx)
  BY DEF AddTransaction
<1> DEFINE s == tx.sender
           o == [orderId |-> nextOrderId, data |-> tx]
           list == pool.pendingTransactions[s]
           queued == pool.queuedTransactions[s]
<1>1. ValidateTransaction(tx)
  BY DEF PushPending, ReplacePending, PushQueued, ReplaceQueued, RejectUnderpriced
<1>2. /\ s \in Senders
      /\ SenderOK(list, queued, world.nonce[s], s)
      /\ world.nonce[s] \in Nat /\ Len(list) \in Nat
      /\ Newcomer(o, list, queued, s)
      /\ Pooled(pool, s) = Elements(list) \cup queued
      /\ Elements(list) = {list[i] : i \in 1..Len(list)}
  BY <1>1, ValidatedFacts
<1>3. pool \in PoolState
  BY DEF IInv, TypeOK
<1>4. o.data = tx
  OBVIOUS
<1>5. o \notin Pooled(pool, s)
  BY <1>2 DEF Newcomer
<1>6. /\ \A i \in 1..Len(list) : list[i].data \in Txs
      /\ \A r \in queued : r.data \in Txs
  BY <1>2, OrderedFields, ElementOfSeq DEF SenderOK
<1> HIDE DEF s, o, list, queued
<1>7. ASSUME NEW old \in Pooled(pool, s), old.data \in Txs,
             PaysReplacement(old.data, tx), old.data.nonce = tx.nonce,
             o \in Pooled(pool', s),
             Pooled(pool, s) \ {old} \subseteq Pooled(pool', s),
             Pooled(pool', s) \subseteq Pooled(pool, s) \cup {o}
      PROVE  Exchanged(Pooled(pool, s), Pooled(pool', s))
  BY <1>4, <1>5, <1>7, ReplacementPays DEF Exchanged
<1>8. CASE PushPending(tx)
  <2> DEFINE moved == MovedToPending(queued, tx.nonce + 1)
             newList == Append(list, o) \o moved
             index == SetTransactionByHash(pool.hashToTransaction, o)
  <2>2. Rewrites(pool, pool', s, newList, queued \ Elements(moved), index)
    BY <1>8 DEF PushPending, Rewrites, s, o, list, queued
  <2>3. list \in Seq(OrderedTransaction) /\ o \in OrderedTransaction
    BY <1>2 DEF SenderOK, Newcomer
  <2>4. tx.nonce + 1 \in Nat /\ queued \in SUBSET OrderedTransaction
    BY <1>2, TxsAssumption, BoundsAssumption DEF SenderOK, TxShape
  <2>5. moved \in Seq(OrderedTransaction)
    BY <2>4, MovedToPendingIsRun
  <2> HIDE DEF moved, index
  <2>6. /\ newList \in Seq(OrderedTransaction)
        /\ Len(Append(list, o)) = Len(list) + 1
        /\ Len(newList) = Len(list) + 1 + Len(moved)
        /\ Len(moved) \in Nat
        /\ \A i \in 1..Len(list) : newList[i] = list[i]
        /\ \A i \in 1..Len(moved) : newList[Len(list) + 1 + i] = moved[i]
    <3>1. Append(list, o) \in Seq(OrderedTransaction) /\ Len(Append(list, o)) = Len(list) + 1
      BY <2>3
    <3>2. \A i \in 1..Len(list) : Append(list, o)[i] = list[i]
      BY <2>3
    <3>3. Len(moved) \in Nat
      BY <2>5
    <3> QED
      BY <3>1, <3>2, <3>3, <2>5, <1>2, PlainConcat
  <2> HIDE DEF newList
  <2>7. /\ Elements(newList) = {newList[i] : i \in 1..Len(newList)}
        /\ Elements(moved) = {moved[i] : i \in 1..Len(moved)}
    BY <2>5, <2>6, ElementsOfSeq
  <2>8. Elements(list) \subseteq Elements(newList)
    BY <1>2, <2>6, <2>7
  <2>9. Elements(moved) \subseteq Elements(newList)
    <3> SUFFICES ASSUME NEW i \in 1..Len(moved) PROVE moved[i] \in Elements(newList)
      BY <2>7
    <3>1. Len(list) + 1 + i \in 1..Len(newList)
      BY <1>2, <2>6
    <3> QED
      BY <3>1, <2>6, <2>7
  <2>10. /\ Pooled(pool', s) = Elements(newList) \cup (queued \ Elements(moved))
         /\ t # s => Pooled(pool', t) = Pooled(pool, t)
    BY <1>2, <1>3, <2>2, RewritesPooled
  <2> QED
    BY <1>2, <2>8, <2>9, <2>10
<1>9. ASSUME NEW i \in DOMAIN pool.pendingTransactions[tx.sender], ReplacePending(tx, i)
      PROVE  Pooled(pool, t) \subseteq Pooled(pool', t) \/ Exchanged(Pooled(pool, t), Pooled(pool', t))
  <2>1. i \in 1..Len(list) /\ list[i].data.nonce = tx.nonce /\ PaysReplacement(list[i].data, tx)
    BY <1>9, <1>2, LenProperties DEF ReplacePending, SenderOK, s, list
  <2> DEFINE newList == Replaced(list, i, o)
             index == SetTransactionByHash(
                        DeleteTransactionByHash(pool.hashToTransaction, list[i].data), o)
  <2>2. /\ Elements(newList) \subseteq Elements(list) \cup {o}
        /\ o \in Elements(newList)
        /\ \A r \in Elements(list) : r = list[i] \/ r \in Elements(newList)
    BY <2>1, <1>2, <1>4, ReplacePendingSender
  <2>3. Rewrites(pool, pool', s, newList, queued, index)
    <3>1. pool' = [pool EXCEPT !.pendingTransactions[s][i] = o,
                               !.hashToTransaction = index]
      BY <1>9 DEF ReplacePending, s, o, list
    <3> HIDE DEF index
    <3> QED
      BY <3>1, <1>2, <1>3 DEF PoolState, list, queued, Rewrites, Replaced
  <2> HIDE DEF newList, index
  <2>4. /\ Pooled(pool', s) = Elements(newList) \cup queued
        /\ t # s => Pooled(pool', t) = Pooled(pool, t)
    BY <2>3, <1>2, <1>3, RewritesPooled
  <2>5. list[i] \in Pooled(pool, s) /\ list[i].data \in Txs
    BY <2>1, <1>2, <1>6
  <2>6. Exchanged(Pooled(pool, s), Pooled(pool', s))
    BY <2>1, <2>2, <2>4, <2>5, <1>2, <1>7
  <2> QED
    BY <2>4, <2>6
<1>10. CASE PushQueued(tx)
  <2> DEFINE index == SetTransactionByHash(pool.hashToTransaction, o)
  <2>1. Rewrites(pool, pool', s, list, queued \cup {o}, index)
    <3>1. pool' = [pool EXCEPT !.queuedTransactions[s] = queued \cup {o},
                               !.hashToTransaction = index]
      BY <1>10 DEF PushQueued, s, o, queued
    <3> HIDE DEF index
    <3> QED
      BY <3>1, <1>2, <1>3 DEF PoolState, list, Rewrites
  <2> HIDE DEF index
  <2>2. /\ Pooled(pool', s) = Elements(list) \cup (queued \cup {o})
        /\ t # s => Pooled(pool', t) = Pooled(pool, t)
    BY <2>1, <1>2, <1>3, RewritesPooled
  <2> QED
    BY <2>2, <1>2
<1>11. ASSUME NEW old \in pool.queuedTransactions[tx.sender], ReplaceQueued(tx, old)
       PROVE  Pooled(pool, t) \subseteq Pooled(pool', t) \/ Exchanged(Pooled(pool, t), Pooled(pool', t))
  <2> DEFINE index == SetTransactionByHash(
                        DeleteTransactionByHash(pool.hashToTransaction, old.data), o)
  <2>1. old \in queued /\ old.data.nonce = tx.nonce /\ PaysReplacement(old.data, tx)
    BY <1>11 DEF ReplaceQueued, s, queued
  <2>2. Rewrites(pool, pool', s, list, (queued \ {old}) \cup {o}, index)
    <3>1. pool' = [pool EXCEPT !.queuedTransactions[s] = (queued \ {old}) \cup {o},
                               !.hashToTransaction = index]
      BY <1>11 DEF ReplaceQueued, s, o, queued
    <3> HIDE DEF index
    <3> QED
      BY <3>1, <1>2, <1>3 DEF PoolState, list, Rewrites
  <2> HIDE DEF index
  <2>3. /\ Pooled(pool', s) = Elements(list) \cup ((queued \ {old}) \cup {o})
        /\ t # s => Pooled(pool', t) = Pooled(pool, t)
    BY <2>2, <1>2, <1>3, RewritesPooled
  <2>4. old \in Pooled(pool, s) /\ old.data \in Txs
    BY <2>1, <1>2, <1>6
  <2>5. Exchanged(Pooled(pool, s), Pooled(pool', s))
    BY <2>1, <2>3, <2>4, <1>2, <1>7
  <2> QED
    BY <2>3, <2>5
<1>12. CASE RejectUnderpriced(tx)
  BY <1>12 DEF RejectUnderpriced
<1> QED
  BY <1>8, <1>9, <1>10, <1>11, <1>12

(* removeTransaction loses the transaction whose hash leaves the index. *)
LEMMA RemoveEffect ==
  ASSUME IInv, RemoveTransaction, NEW t \in Senders
  PROVE  /\ Pooled(pool', t) \subseteq Pooled(pool, t)
         /\ \A r \in Pooled(pool, t) :
              \/ r \in Pooled(pool', t)
              \/ r \in pool.hashToTransaction \ pool'.hashToTransaction
<1> PICK o \in pool.hashToTransaction :
           \/ \E i \in DOMAIN pool.pendingTransactions[o.data.sender] : RemovePending(o, i)
           \/ RemoveQueued(o)
  BY DEF RemoveTransaction
<1> DEFINE s == o.data.sender
           list == pool.pendingTransactions[s]
           queued == pool.queuedTransactions[s]
           index == DeleteTransactionByHash(pool.hashToTransaction, o.data)
<1>1. pool \in PoolState /\ world \in World /\ PoolOK(pool, world)
  BY DEF IInv, TypeOK
<1>2. o \in OrderedTransaction /\ s \in Senders
  BY <1>1, PoolFields, OrderedFields
<1>3. /\ SenderOK(list, queued, world.nonce[s], s)
      /\ world.nonce[s] \in Nat
      /\ Pooled(pool, s) = Elements(list) \cup queued
  BY <1>1, <1>2 DEF PoolOK, World, Pooled
<1>4. o \in pool.hashToTransaction /\ o \notin index
  BY DEF DeleteTransactionByHash
<1>5. CASE \E i \in DOMAIN pool.pendingTransactions[s] : RemovePending(o, i)
  <2>1. PICK i \in 1..Len(list) : RemovePending(o, i)
    BY <1>5, <1>3, LenProperties DEF SenderOK
  <2> DEFINE kept == Truncated(list, i)
             new == Demoted(list, queued, i)
  <2>2. LosesOnly(kept, new, list, queued, i)
    <3> HIDE DEF list, queued, s
    <3> QED
      BY <1>2, <1>3, RemovePendingSender, Zenon
  <2>3. list[i] = o
    BY <2>1 DEF RemovePending
  <2>4. Rewrites(pool, pool', s, kept, new, index)
    BY <2>1 DEF RemovePending, Rewrites, Truncated, Demoted
  <2> HIDE DEF kept, new, list, queued, s, index
  <2>5. /\ Pooled(pool', s) = Elements(kept) \cup new
        /\ t # s => Pooled(pool', t) = Pooled(pool, t)
        /\ pool'.hashToTransaction = index
    BY <2>4, <1>1, <1>2, RewritesPooled
  <2> QED
    BY <2>2, <2>3, <2>5, <1>3, <1>4 DEF LosesOnly
<1>6. CASE RemoveQueued(o)
  <2>1. Rewrites(pool, pool', s, list, queued \ {o}, index)
    <3>1. pool' = [pool EXCEPT !.queuedTransactions[s] = queued \ {o},
                               !.hashToTransaction = index]
      BY <1>6 DEF RemoveQueued
    <3> HIDE DEF index
    <3> QED
      BY <3>1, <1>1, <1>2 DEF PoolState, Rewrites
  <2> HIDE DEF list, queued, s, index
  <2>2. /\ Pooled(pool', s) = Elements(list) \cup (queued \ {o})
        /\ t # s => Pooled(pool', t) = Pooled(pool, t)
        /\ pool'.hashToTransaction = index
    BY <2>1, <1>1, <1>2, RewritesPooled
  <2> QED
    BY <2>2, <1>3, <1>4
<1> QED
  BY <1>5, <1>6

(* updatePendingAndQueued loses no valid transaction of a sender: the ones *)
(* before the first fresh one are stale, the first invalid one is not      *)
(* valid, and those after it go to the queued list, where they are kept.   *)
LEMMA UpdateKeepsValid ==
  ASSUME NEW list \in Seq(OrderedTransaction), NEW queued \in SUBSET OrderedTransaction,
         NEW n \in Nat, NEW b \in Nat, NEW g \in Nat,
         NEW o \in Elements(list) \cup queued, IsTxValid(o, n, b, g)
  PROVE  o \in Elements(KeptPending(list, n, b, g)) \cup KeptQueued(queued, list, n, b, g)
<1> DEFINE f == FirstFresh(list, n)
           k == FirstInvalid(list, n, b, g)
           kept == KeptPending(list, n, b, g)
           K == {i \in DOMAIN list : /\ list[i].data.nonce >= n
                                     /\ ~IsTxValid(list[i], n, b, g)}
                \cup {Len(list) + 1}
<1>1. Len(list) \in Nat /\ DOMAIN list = 1..Len(list)
  BY LenProperties
<1>2. CASE o \in queued
  BY <1>2 DEF KeptQueued
<1>3. ASSUME NEW i \in 1..Len(list), o = list[i]
      PROVE  o \in Elements(kept) \cup KeptQueued(queued, list, n, b, g)
  <2>1. /\ f \in 1..(Len(list) + 1)
        /\ k \in f..(Len(list) + 1)
        /\ \A j \in 1..Len(list) : j < f => list[j].data.nonce < n
    BY UpdateBounds
  <2>2. k \in K
    <3>1. K \in SUBSET Nat /\ K # {}
      BY <1>1
    <3>2. k = Min(K)
      BY DEF FirstInvalid
    <3> HIDE DEF K, k
    <3> QED
      BY <3>1, <3>2, MinNat
  <2>3. kept = SubSeq(list, f, k - 1)
    BY DEF KeptPending
  <2>4. MovedToQueued(list, n, b, g) = {list[j] : j \in (k + 1)..Len(list)}
    BY DEF MovedToQueued
  <2>5. o.data.nonce \in Nat /\ o.data.nonce >= n
    BY <1>3, ElementOfSeq, OrderedFields DEF IsTxValid
  <2>6. i >= f
    <3> HIDE DEF f, k, kept, K
    <3> QED
      BY <2>1, <2>5, <1>3, <1>1
  <2>7. i # k
    <3>1. k \in 1..Len(list) => ~IsTxValid(list[k], n, b, g)
      <4> HIDE DEF k
      <4> QED
        BY <2>2, <1>1
    <3> HIDE DEF k
    <3> QED
      BY <3>1, <1>3
  <2> HIDE DEF f, k, K
  <2>8. CASE i < k
    <3>1. /\ kept \in Seq(OrderedTransaction)
          /\ Len(kept) = k - f
          /\ \A j \in 1..(k - f) : kept[j] = list[f + j - 1]
      <4>1. \A j \in f..(k - 1) : list[j] \in OrderedTransaction
        BY <2>1, <1>1, ElementOfSeq
      <4>2. kept \in Seq(OrderedTransaction)
        BY <4>1, <2>1, <2>3, <1>1, SubSeqProperties
      <4>3. Len(kept) = k - f
        BY <2>1, <2>3, <1>1, SubSeqProperties
      <4> QED
        BY <4>2, <4>3, <2>1, <2>3, <1>1, SubSeqProperties
    <3> HIDE DEF kept
    <3>2. i - f + 1 \in 1..(k - f) /\ f + (i - f + 1) - 1 = i
      BY <2>1, <2>6, <2>8, <1>1
    <3>3. kept[i - f + 1] = o
      BY <3>1, <3>2, <1>3
    <3>4. Elements(kept) = {kept[j] : j \in 1..Len(kept)}
      BY <3>1, ElementsOfSeq
    <3> QED
      BY <3>1, <3>2, <3>3, <3>4
  <2>9. CASE i > k
    <3>1. i \in (k + 1)..Len(list)
      BY <2>1, <2>9, <1>1
    <3> QED
      BY <3>1, <2>4, <1>3 DEF KeptQueued
  <2> QED
    BY <2>1, <2>7, <2>8, <2>9, <1>1
<1> QED
  BY <1>1, <1>2, <1>3, ElementsOfSeq

(* The same for the whole pool, which gains nothing either. *)
LEMMA UpdateEffect ==
  ASSUME NEW p \in PoolState, NEW w0 \in World, NEW w \in World, NEW s \in Senders, NEW q,
         q = UpdatePendingAndQueued(p, w),
         PoolOK(p, w0), w0.nonce[s] <= w.nonce[s],
         s \notin Contracts => w.nonce[s] <= w0.nonce[s] + Len(p.pendingTransactions[s])
  PROVE  /\ \A o \in Pooled(p, s) :
              \/ o \in Pooled(q, s)
              \/ ~IsTxValid(o, w.nonce[s], w.balance[s], q.blockGasLimit)
         /\ Pooled(q, s) \subseteq Pooled(p, s)
<1> DEFINE list == p.pendingTransactions[s]
           old == p.queuedTransactions[s]
           kept(t) == KeptPending(p.pendingTransactions[t], w.nonce[t],
                                  w.balance[t], p.blockGasLimit)
           queued(t) == KeptQueued(p.queuedTransactions[t], p.pendingTransactions[t],
                                   w.nonce[t], w.balance[t], p.blockGasLimit)
<1>1. /\ list \in Seq(OrderedTransaction)
      /\ old \in SUBSET OrderedTransaction
      /\ p.blockGasLimit \in Nat
      /\ w0.nonce[s] \in Nat /\ w.nonce[s] \in Nat /\ w.balance[s] \in Nat
  BY PoolFields, GasLimitsAssumption, BalancesAssumption DEF World
<1>2. /\ q.pendingTransactions[s] = kept(s)
      /\ q.queuedTransactions[s] = queued(s)
      /\ q.blockGasLimit = p.blockGasLimit
  <2> DEFINE A == [t \in Senders |-> kept(t)]
             B == [t \in Senders |-> queued(t)]
  <2>1. \E index : q = [p EXCEPT !.pendingTransactions = A,
                                 !.queuedTransactions = B,
                                 !.hashToTransaction = index]
    BY DEF UpdatePendingAndQueued
  <2> HIDE DEF A, B
  <2>2. /\ q.pendingTransactions = A
        /\ q.queuedTransactions = B
        /\ q.blockGasLimit = p.blockGasLimit
    BY <2>1 DEF PoolState
  <2> QED
    BY <2>2 DEF A, B
<1>3. SenderOK(list, old, w0.nonce[s], s)
  BY DEF PoolOK
<1>4. /\ Elements(kept(s)) \subseteq Elements(list)
      /\ queued(s) \subseteq old \cup Elements(list)
  BY <1>1, <1>3, UpdateSender
<1>5. ASSUME NEW o \in Elements(list) \cup old,
             IsTxValid(o, w.nonce[s], w.balance[s], p.blockGasLimit)
      PROVE  o \in Elements(kept(s)) \cup queued(s)
  BY <1>1, <1>5, UpdateKeepsValid
<1> HIDE DEF kept, queued, list, old
<1>6. /\ Pooled(q, s) = Elements(kept(s)) \cup queued(s)
      /\ Pooled(p, s) = Elements(list) \cup old
  BY <1>2 DEF Pooled, list, old
<1> QED
  BY <1>2, <1>4, <1>5, <1>6

(* Mining a block and changing the gas limit update the pool; setting a    *)
(* balance or a nonce leaves it alone.                                     *)
LEMMA EnvironmentEffect ==
  ASSUME IInv, NEW t \in Senders,
         \/ MineBlock
         \/ \E limit \in GasLimits : SetBlockGasLimit(limit)
         \/ \E s \in Senders, b \in Balances : SetAccountBalance(s, b)
         \/ \E s \in Senders, n \in 0..MaxNonce : SetNextConfirmedNonce(s, n)
  PROVE  /\ \A o \in Pooled(pool, t) :
              \/ o \in Pooled(pool', t)
              \/ ~IsTxValid(o, world'.nonce[t], world'.balance[t], pool'.blockGasLimit)
         /\ Pooled(pool', t) \subseteq Pooled(pool, t)
<1>1. pool \in PoolState /\ world \in World /\ PoolOK(pool, world)
  BY DEF IInv, TypeOK
<1>2. world.nonce[t] \in Nat /\ Len(pool.pendingTransactions[t]) \in Nat
  BY <1>1, PoolFields, LenProperties DEF World
<1>3. CASE MineBlock
  <2>1. PICK w \in [nonce : [Senders -> 0..MaxNonce], balance : [Senders -> Balances]] :
          /\ WorldAfterBlock(w)
          /\ world' = w
          /\ pool' = UpdatePendingAndQueued(pool, w)
    BY <1>3 DEF MineBlock
  <2>2. w \in World
    BY <2>1, BoundsAssumption DEF World
  <2>3. /\ world.nonce[t] <= w.nonce[t]
        /\ t \notin Contracts => w.nonce[t] <= world.nonce[t] + Len(pool.pendingTransactions[t])
    BY <2>1, <1>2 DEF WorldAfterBlock
  <2> QED
    BY <2>1, <2>2, <2>3, <1>1, UpdateEffect
<1>4. ASSUME NEW limit \in GasLimits, SetBlockGasLimit(limit)
      PROVE  /\ \A o \in Pooled(pool, t) :
                  \/ o \in Pooled(pool', t)
                  \/ ~IsTxValid(o, world'.nonce[t], world'.balance[t], pool'.blockGasLimit)
             /\ Pooled(pool', t) \subseteq Pooled(pool, t)
  <2> DEFINE p == [pool EXCEPT !.blockGasLimit = limit]
  <2>1. /\ p \in PoolState
        /\ p.pendingTransactions = pool.pendingTransactions
        /\ p.queuedTransactions = pool.queuedTransactions
        /\ p.hashToTransaction = pool.hashToTransaction
    BY <1>1 DEF PoolState
  <2>2. pool' = UpdatePendingAndQueued(p, world) /\ world' = world
    BY <1>4 DEF SetBlockGasLimit
  <2> HIDE DEF p
  <2>3. PooledAll(p) = PooledAll(pool) /\ Pooled(p, t) = Pooled(pool, t)
    BY <2>1 DEF PooledAll, Pooled
  <2>4. PoolOK(p, world)
    BY <2>1, <2>3, <1>1 DEF PoolOK, PoolIndexSound
  <2>5. /\ world.nonce[t] <= world.nonce[t]
        /\ t \notin Contracts => world.nonce[t] <= world.nonce[t] + Len(p.pendingTransactions[t])
    BY <2>1, <1>2
  <2> QED
    BY <2>1, <2>2, <2>3, <2>4, <2>5, <1>1, UpdateEffect
<1>5. CASE \/ \E s \in Senders, b \in Balances : SetAccountBalance(s, b)
           \/ \E s \in Senders, n \in 0..MaxNonce : SetNextConfirmedNonce(s, n)
  <2>1. pool' = pool
    BY <1>5 DEF SetAccountBalance, SetNextConfirmedNonce
  <2> QED
    BY <2>1
<1> QED
  BY <1>3, <1>4, <1>5

-----------------------------------------------------------------------------

(* Whatever was sent, mined and dropped, a transaction in the pool gives   *)
(* way to another one of its nonce only for 10% more of both fees.         *)
THEOREM ReplacementsPayMore == Spec => ReplacementPaysMore
<1> DEFINE A == \A s \in Senders : \A o \in Pooled(pool, s), r \in Pooled(pool', s) :
                  (/\ r \notin Pooled(pool, s)
                   /\ o \notin Pooled(pool', s)
                   /\ o.data.nonce = r.data.nonce)
                  => \/ /\ 100 * r.data.maxFee >= 110 * o.data.maxFee
                        /\ 100 * r.data.prio >= 110 * o.data.prio
                     \/ \E snapshot \in snapshots : Revert(snapshot)
<1>1. ASSUME IInv, [Next]_vars PROVE [A]_vars
  <2>1. CASE UNCHANGED vars
    BY <2>1
  <2>2. CASE \E snapshot \in snapshots : Revert(snapshot)
    BY <2>2
  <2>3. ASSUME NEW s \in Senders, NEW o \in Pooled(pool, s), NEW r \in Pooled(pool', s),
               r \notin Pooled(pool, s), o \notin Pooled(pool', s),
               AddTransaction
        PROVE  PaysTenth(o.data, r.data)
    <3>1. Exchanged(Pooled(pool, s), Pooled(pool', s))
      BY <1>1, <2>3, AddEffect
    <3>2. PICK old \in Pooled(pool, s), new \in Pooled(pool', s) \ Pooled(pool, s) :
                 /\ PaysTenth(old.data, new.data)
                 /\ Pooled(pool, s) \ {old} \subseteq Pooled(pool', s)
                 /\ Pooled(pool', s) \subseteq Pooled(pool, s) \cup {new}
      BY <3>1 DEF Exchanged
    <3>3. old = o /\ new = r
      BY <2>3, <3>2
    <3> QED
      BY <3>2, <3>3
  <2>4. CASE AddTransaction
    BY <2>3, <2>4 DEF PaysTenth
  <2>5. CASE RemoveTransaction
    <3>1. \A s \in Senders : Pooled(pool', s) \subseteq Pooled(pool, s)
      BY <1>1, <2>5, RemoveEffect
    <3> QED
      BY <3>1
  <2>6. CASE \/ MineBlock
             \/ \E limit \in GasLimits : SetBlockGasLimit(limit)
             \/ \E s \in Senders, b \in Balances : SetAccountBalance(s, b)
             \/ \E s \in Senders, n \in 0..MaxNonce : SetNextConfirmedNonce(s, n)
    <3>1. \A s \in Senders : Pooled(pool', s) \subseteq Pooled(pool, s)
      BY <1>1, <2>6, EnvironmentEffect
    <3> QED
      BY <3>1
  <2>7. CASE TakeSnapshot
    BY <2>7 DEF TakeSnapshot
  <2> QED
    BY <1>1, <2>1, <2>2, <2>4, <2>5, <2>6, <2>7 DEF Next
<1>2. IInv /\ [Next]_vars => [A]_vars
  BY <1>1
<1> QED
  BY <1>2, Invariance, PTL DEF Spec, ReplacementPaysMore

(* No update, promotion or demotion loses a transaction that is still      *)
(* valid, for any pool and any block.                                      *)
THEOREM ValidTransactionsSurvive == Spec => ValidTxsSurvive
<1> DEFINE Kept(s, o) ==
             \/ o \in Pooled(pool', s)
             \/ ~IsTxValid(o, world'.nonce[s], world'.balance[s], pool'.blockGasLimit)
             \/ o \in pool.hashToTransaction \ pool'.hashToTransaction /\ RemoveTransaction
             \/ \E r \in Pooled(pool', s) \ Pooled(pool, s) : r.data.nonce = o.data.nonce
             \/ \E snapshot \in snapshots : Revert(snapshot)
           A == \A s \in Senders : \A o \in Pooled(pool, s) : Kept(s, o)
<1>1. ASSUME IInv, [Next]_vars PROVE [A]_vars
  <2>1. CASE UNCHANGED vars
    BY <2>1
  <2>2. CASE \E snapshot \in snapshots : Revert(snapshot)
    BY <2>2
  <2>3. CASE AddTransaction
    <3>1. ASSUME NEW s \in Senders, NEW o \in Pooled(pool, s)
          PROVE  \/ o \in Pooled(pool', s)
                 \/ \E r \in Pooled(pool', s) \ Pooled(pool, s) : r.data.nonce = o.data.nonce
      BY <1>1, <2>3, AddEffect DEF Exchanged
    <3> QED
      BY <3>1
  <2>4. CASE RemoveTransaction
    <3>1. ASSUME NEW s \in Senders, NEW o \in Pooled(pool, s)
          PROVE  \/ o \in Pooled(pool', s)
                 \/ o \in pool.hashToTransaction \ pool'.hashToTransaction
      BY <1>1, <2>4, RemoveEffect
    <3> QED
      BY <2>4, <3>1
  <2>5. CASE \/ MineBlock
             \/ \E limit \in GasLimits : SetBlockGasLimit(limit)
             \/ \E s \in Senders, b \in Balances : SetAccountBalance(s, b)
             \/ \E s \in Senders, n \in 0..MaxNonce : SetNextConfirmedNonce(s, n)
    <3>1. ASSUME NEW s \in Senders, NEW o \in Pooled(pool, s)
          PROVE  \/ o \in Pooled(pool', s)
                 \/ ~IsTxValid(o, world'.nonce[s], world'.balance[s], pool'.blockGasLimit)
      BY <1>1, <2>5, EnvironmentEffect
    <3> QED
      BY <3>1
  <2>6. CASE TakeSnapshot
    BY <2>6 DEF TakeSnapshot
  <2> QED
    BY <1>1, <2>1, <2>2, <2>3, <2>4, <2>5, <2>6 DEF Next
<1>2. IInv /\ [Next]_vars => [A]_vars
  BY <1>1
<1> QED
  BY <1>2, Invariance, PTL DEF Spec, ValidTxsSurvive

-----------------------------------------------------------------------------
(* The loop of updatePendingAndQueued *)

(* Two functions on 0..n that agree at 0, and at i whenever they agree at  *)
(* i - 1, agree everywhere.                                                *)
LEMMA SameByIteration ==
  ASSUME NEW n \in Nat, NEW f, NEW c, f[0] = c[0],
         \A i \in 1..n : f[i - 1] = c[i - 1] => f[i] = c[i]
  PROVE  f[n] = c[n]
<1> DEFINE S == {i \in 0..n : f[i] # c[i]}
<1> SUFFICES ASSUME S # {} PROVE FALSE
  OBVIOUS
<1>1. S \in SUBSET Nat
  OBVIOUS
<1>2. PICK m \in S : \A k \in S : m <= k
  <2> HIDE DEF S
  <2> QED
    BY <1>1, LeastNat
<1>3. m \in 0..n /\ f[m] # c[m]
  BY <1>2
<1>4. m # 0
  BY <1>3
<1>5. m - 1 \in 0..n /\ m \in 1..n /\ m - 1 < m
  BY <1>3, <1>4
<1>6. m - 1 \notin S
  <2> HIDE DEF S
  <2> QED
    BY <1>1, <1>2, <1>5
<1>7. f[m - 1] = c[m - 1]
  BY <1>5, <1>6
<1> QED
  BY <1>3, <1>5, <1>7

(* A part of a list is empty, or ends with its last transaction. *)
LEMMA PartOfList ==
  ASSUME NEW S, NEW s \in Seq(S), NEW a \in Nat \ {0}, NEW i \in 0..Len(s)
  PROVE  /\ i < a => SubSeq(s, a, i) = <<>>
         /\ (a <= i) => /\ SubSeq(s, a, i - 1) \in Seq(S)
                        /\ SubSeq(s, a, i) = Append(SubSeq(s, a, i - 1), s[i])
<1>0. \A j \in 1..Len(s) : s[j] \in S
  OBVIOUS
<1>1. ASSUME i < a PROVE SubSeq(s, a, i) = <<>>
  <2>1. \A j \in a..i : s[j] \in S
    BY <1>1
  <2>2. SubSeq(s, a, i) \in Seq(S) /\ Len(SubSeq(s, a, i)) = 0
    BY <1>1, <2>1, SubSeqProperties
  <2> QED
    BY <2>2, EmptySeq
<1>2. ASSUME a <= i
      PROVE  /\ SubSeq(s, a, i - 1) \in Seq(S)
             /\ SubSeq(s, a, i) = Append(SubSeq(s, a, i - 1), s[i])
  <2>1. /\ SubSeq(s, a, i) \in Seq(S) /\ Len(SubSeq(s, a, i)) = i - a + 1
        /\ \A j \in 1..(i - a + 1) : SubSeq(s, a, i)[j] = s[a + j - 1]
    BY <1>0, <1>2, SubSeqProperties
  <2>2. /\ SubSeq(s, a, i - 1) \in Seq(S) /\ Len(SubSeq(s, a, i - 1)) = i - a
        /\ \A j \in 1..(i - a) : SubSeq(s, a, i - 1)[j] = s[a + j - 1]
    <3>1. CASE a <= i - 1
      BY <1>0, <1>2, <3>1, SubSeqProperties
    <3>2. CASE a = i
      BY <1>0, <3>2, SubSeqProperties
    <3> QED
      BY <1>2, <3>1, <3>2
  <2> DEFINE t == SubSeq(s, a, i - 1)
  <2>3. /\ Append(t, s[i]) \in Seq(S) /\ Len(Append(t, s[i])) = i - a + 1
        /\ \A j \in 1..(i - a) : Append(t, s[i])[j] = t[j]
        /\ Append(t, s[i])[i - a + 1] = s[i]
    <3>1. s[i] \in S
      BY <1>0, <1>2
    <3>2. t \in Seq(S) /\ Len(t) = i - a
      BY <2>2
    <3>3. i - a \in Nat
      BY <1>2
    <3> HIDE DEF t
    <3> QED
      BY <3>1, <3>2, <3>3
  <2>4. \A j \in 1..(i - a + 1) : Append(t, s[i])[j] = SubSeq(s, a, i)[j]
    <3> HIDE DEF t
    <3> SUFFICES ASSUME NEW j \in 1..(i - a + 1)
                 PROVE  Append(t, s[i])[j] = SubSeq(s, a, i)[j]
      OBVIOUS
    <3>1. CASE j = i - a + 1
      <4>1. a + j - 1 = i
        BY <3>1, <1>2
      <4> QED
        BY <3>1, <4>1, <2>1, <2>3
    <3>2. CASE j # i - a + 1
      <4>1. j \in 1..(i - a)
        BY <3>2, <1>2
      <4>2. t[j] = s[a + j - 1]
        BY <4>1, <2>2 DEF t
      <4> QED
        BY <4>1, <4>2, <2>1, <2>3
    <3> QED
      BY <3>1, <3>2
  <2> QED
    BY <2>1, <2>2, <2>3, <2>4, SeqEqual
<1> QED
  BY <1>1, <1>2

(* The first invalid transaction of UpdateBounds is invalid, and the fresh *)
(* ones before it are valid.                                               *)
LEMMA FirstInvalidFacts ==
  ASSUME NEW list \in Seq(OrderedTransaction), NEW n \in Nat, NEW b \in Nat, NEW g \in Nat
  PROVE  LET k == FirstInvalid(list, n, b, g)
         IN  \A i \in 1..Len(list) :
               /\ i = k => list[i].data.nonce >= n /\ ~IsTxValid(list[i], n, b, g)
               /\ (i < k /\ list[i].data.nonce >= n) => IsTxValid(list[i], n, b, g)
<1> DEFINE K == {i \in DOMAIN list : /\ list[i].data.nonce >= n
                                     /\ ~IsTxValid(list[i], n, b, g)}
                \cup {Len(list) + 1}
<1>1. Len(list) \in Nat /\ DOMAIN list = 1..Len(list)
  BY LenProperties
<1>2. K \in SUBSET Nat /\ K # {}
  BY <1>1
<1>3. Min(K) \in K /\ \A j \in K : Min(K) <= j
  <2> HIDE DEF K
  <2> QED
    BY <1>2, MinNat
<1> SUFFICES ASSUME NEW i \in 1..Len(list)
             PROVE  /\ i = Min(K) => list[i].data.nonce >= n /\ ~IsTxValid(list[i], n, b, g)
                    /\ (i < Min(K) /\ list[i].data.nonce >= n) => IsTxValid(list[i], n, b, g)
  BY DEF FirstInvalid
<1>4. i \in K => i # Len(list) + 1 /\ list[i].data.nonce >= n /\ ~IsTxValid(list[i], n, b, g)
  BY <1>1
<1>5. i \notin K => ~(list[i].data.nonce >= n /\ ~IsTxValid(list[i], n, b, g))
  BY <1>1
<1>6. i < Min(K) => i \notin K
  <2>1. Min(K) \in Nat /\ (i \in K => Min(K) <= i)
    <3> HIDE DEF K
    <3> QED
      BY <1>2, <1>3
  <2> QED
    BY <2>1
<1> HIDE DEF K
<1> QED
  BY <1>3, <1>4, <1>5, <1>6

(* The states of the loop, before and after an invalid transaction that is *)
(* not stale.                                                              *)
Scanning(kept) == [kept |-> kept, moved |-> <<>>, moveToQueued |-> FALSE]
Moving(kept, moved) == [kept |-> kept, moved |-> moved, moveToQueued |-> TRUE]

(* The lists in these states *)
LEMMA LoopStateLists ==
  ASSUME NEW kept, NEW moved
  PROVE  /\ Scanning(kept).kept = kept
         /\ Scanning(kept).moved = <<>>
         /\ Moving(kept, moved).kept = kept
         /\ Moving(kept, moved).moved = moved
BY DEF Scanning, Moving

(* The flag in these states *)
LEMMA LoopStateFlag ==
  ASSUME NEW kept, NEW moved
  PROVE  ~Scanning(kept).moveToQueued /\ Moving(kept, moved).moveToQueued
BY DEF Scanning, Moving

(* An iteration for a transaction that follows an invalid one *)
LEMMA StepMoves ==
  ASSUME NEW kept, NEW moved, NEW o, NEW n, NEW b, NEW g
  PROVE  PendingStep(Moving(kept, moved), o, n, b, g) = Moving(kept, Append(moved, o))
<1>1. PendingStep(Moving(kept, moved), o, n, b, g)
        = [Moving(kept, moved) EXCEPT !.moved = Append(@, o)]
  BY LoopStateFlag DEF PendingStep
<1> QED
  BY <1>1 DEF Moving

(* An iteration for a valid transaction *)
LEMMA StepKeeps ==
  ASSUME NEW kept, NEW o, NEW n, NEW b, NEW g, IsTxValid(o, n, b, g)
  PROVE  PendingStep(Scanning(kept), o, n, b, g) = Scanning(Append(kept, o))
<1>1. PendingStep(Scanning(kept), o, n, b, g)
        = [Scanning(kept) EXCEPT !.kept = Append(@, o)]
  BY LoopStateFlag DEF PendingStep
<1> QED
  BY <1>1 DEF Scanning

(* An iteration for the first invalid transaction that is not stale *)
LEMMA StepStops ==
  ASSUME NEW kept, NEW o, NEW n, NEW b, NEW g, ~IsTxValid(o, n, b, g), o.data.nonce >= n
  PROVE  PendingStep(Scanning(kept), o, n, b, g) = Moving(kept, <<>>)
<1>1. PendingStep(Scanning(kept), o, n, b, g)
        = [Scanning(kept) EXCEPT !.moveToQueued = TRUE]
  BY LoopStateFlag DEF PendingStep
<1> QED
  BY <1>1 DEF Scanning, Moving

(* An iteration for a stale transaction *)
LEMMA StepDrops ==
  ASSUME NEW kept, NEW o, NEW n, NEW b, NEW g, ~(o.data.nonce >= n)
  PROVE  PendingStep(Scanning(kept), o, n, b, g) = Scanning(kept)
<1>1. ~IsTxValid(o, n, b, g)
  BY DEF IsTxValid
<1> QED
  BY <1>1, LoopStateFlag DEF PendingStep

(* After i iterations, what is kept is what lies between the first fresh   *)
(* and the first invalid transaction, and what was moved lies behind it.   *)
LoopAfter(list, i, f, k) ==
  IF i < k THEN Scanning(SubSeq(list, f, i))
  ELSE Moving(SubSeq(list, f, k - 1), SubSeq(list, k + 1, i))

(* The nonces of a pending list are consecutive. *)
NumberedFrom(list, n0) ==
  \A i \in 1..Len(list) : list[i].data.nonce = n0 + i - 1

(* An iteration goes from one of these states to the next. *)
LEMMA LoopAdvances ==
  ASSUME NEW list \in Seq(OrderedTransaction), NEW n \in Nat, NEW b \in Nat, NEW g \in Nat,
         NEW n0 \in Nat, NumberedFrom(list, n0),
         NEW i \in 1..Len(list)
  PROVE  LET f == FirstFresh(list, n)
             k == FirstInvalid(list, n, b, g)
         IN  PendingStep(LoopAfter(list, i - 1, f, k), list[i], n, b, g)
               = LoopAfter(list, i, f, k)
<1> DEFINE f == FirstFresh(list, n)
           k == FirstInvalid(list, n, b, g)
<1>1. Len(list) \in Nat
  BY LenProperties
<1>2. /\ f \in 1..(Len(list) + 1)
      /\ k \in f..(Len(list) + 1)
      /\ i < f => list[i].data.nonce < n
      /\ f <= Len(list) => list[f].data.nonce >= n
  BY UpdateBounds
<1>3. /\ i = k => list[i].data.nonce >= n /\ ~IsTxValid(list[i], n, b, g)
      /\ (i < k /\ list[i].data.nonce >= n) => IsTxValid(list[i], n, b, g)
  BY FirstInvalidFacts
<1>4. list[i].data.nonce \in Nat
  BY DEF NumberedFrom
<1> HIDE DEF f, k
<1> SUFFICES PendingStep(LoopAfter(list, i - 1, f, k), list[i], n, b, g)
               = LoopAfter(list, i, f, k)
  BY DEF f, k
<1>5. /\ f \in Nat \ {0} /\ k + 1 \in Nat \ {0} /\ i \in 0..Len(list) /\ i - 1 \in 0..Len(list)
      /\ k \in Int /\ f <= k
  BY <1>1, <1>2
<1>6. CASE i > k
  <2>1. SubSeq(list, k + 1, i) = Append(SubSeq(list, k + 1, i - 1), list[i])
    BY <1>5, <1>6, PartOfList
  <2>2. ~(i - 1 < k) /\ ~(i < k)
    BY <1>5, <1>6
  <2>3. /\ LoopAfter(list, i - 1, f, k)
             = Moving(SubSeq(list, f, k - 1), SubSeq(list, k + 1, i - 1))
        /\ LoopAfter(list, i, f, k) = Moving(SubSeq(list, f, k - 1), SubSeq(list, k + 1, i))
    BY <2>2 DEF LoopAfter
  <2>4. PendingStep(Moving(SubSeq(list, f, k - 1), SubSeq(list, k + 1, i - 1)), list[i], n, b, g)
          = Moving(SubSeq(list, f, k - 1), Append(SubSeq(list, k + 1, i - 1), list[i]))
    BY StepMoves
  <2> QED
    BY <2>1, <2>3, <2>4
<1>7. CASE i = k
  <2>1. SubSeq(list, k + 1, i) = <<>>
    BY <1>5, <1>7, PartOfList
  <2>2. i - 1 < k /\ i - 1 = k - 1 /\ ~(i < k)
    BY <1>5, <1>7
  <2>3. ~IsTxValid(list[i], n, b, g) /\ list[i].data.nonce >= n
    BY <1>3, <1>7
  <2>4. /\ LoopAfter(list, i - 1, f, k) = Scanning(SubSeq(list, f, k - 1))
        /\ LoopAfter(list, i, f, k) = Moving(SubSeq(list, f, k - 1), <<>>)
    BY <2>1, <2>2 DEF LoopAfter
  <2>5. PendingStep(Scanning(SubSeq(list, f, k - 1)), list[i], n, b, g)
          = Moving(SubSeq(list, f, k - 1), <<>>)
    BY <2>3, StepStops
  <2> QED
    BY <2>4, <2>5
<1>8. CASE i < k
  <2>1. /\ LoopAfter(list, i - 1, f, k) = Scanning(SubSeq(list, f, i - 1))
        /\ LoopAfter(list, i, f, k) = Scanning(SubSeq(list, f, i))
    <3>1. i - 1 < k
      BY <1>5, <1>8
    <3> QED
      BY <1>8, <3>1 DEF LoopAfter
  <2>2. CASE i < f
    <3>1. SubSeq(list, f, i) = <<>> /\ SubSeq(list, f, i - 1) = <<>>
      BY <1>5, <2>2, PartOfList
    <3>2. ~(list[i].data.nonce >= n)
      BY <1>2, <1>4, <2>2
    <3>3. PendingStep(Scanning(<<>>), list[i], n, b, g) = Scanning(<<>>)
      BY <3>2, StepDrops
    <3> QED
      BY <2>1, <3>1, <3>3
  <2>3. CASE f <= i
    <3>1. SubSeq(list, f, i) = Append(SubSeq(list, f, i - 1), list[i])
      BY <1>5, <2>3, PartOfList
    <3>2. list[i].data.nonce >= n
      <4>1. f \in 1..Len(list) /\ list[f].data.nonce >= n
        BY <1>1, <1>2, <2>3
      <4>2. list[f].data.nonce = n0 + f - 1 /\ list[i].data.nonce = n0 + i - 1
        BY <4>1 DEF NumberedFrom
      <4> QED
        BY <4>1, <4>2, <2>3
    <3>3. IsTxValid(list[i], n, b, g)
      BY <1>3, <1>8, <3>2
    <3>4. PendingStep(Scanning(SubSeq(list, f, i - 1)), list[i], n, b, g)
            = Scanning(Append(SubSeq(list, f, i - 1), list[i]))
      BY <3>3, StepKeeps
    <3> QED
      BY <2>1, <3>1, <3>4
  <2> QED
    BY <1>5, <2>2, <2>3
<1> QED
  BY <1>5, <1>6, <1>7, <1>8

(* The loop ends in the state that the closed forms describe. *)
LEMMA LoopResult ==
  ASSUME NEW list \in Seq(OrderedTransaction), NEW n \in Nat, NEW b \in Nat, NEW g \in Nat,
         NEW n0 \in Nat, NumberedFrom(list, n0)
  PROVE  PendingLoop(list, n, b, g)
           = LoopAfter(list, Len(list), FirstFresh(list, n), FirstInvalid(list, n, b, g))
<1> DEFINE f == FirstFresh(list, n)
           k == FirstInvalid(list, n, b, g)
           start == Scanning(<<>>)
           Iterates(h) == h = [i \in 0..Len(list) |->
                                 IF i = 0 THEN start
                                 ELSE PendingStep(h[i - 1], list[i], n, b, g)]
           closed == [i \in 0..Len(list) |-> LoopAfter(list, i, f, k)]
           after == CHOOSE h : Iterates(h)
<1>1. Len(list) \in Nat
  BY LenProperties
<1>2. /\ f \in 1..(Len(list) + 1)
      /\ k \in f..(Len(list) + 1)
  BY UpdateBounds
<1>3. \A i \in 1..Len(list) :
        PendingStep(LoopAfter(list, i - 1, f, k), list[i], n, b, g) = LoopAfter(list, i, f, k)
  <2> SUFFICES ASSUME NEW j \in 1..Len(list)
               PROVE  PendingStep(LoopAfter(list, j - 1, f, k), list[j], n, b, g)
                        = LoopAfter(list, j, f, k)
    OBVIOUS
  <2> QED
    BY LoopAdvances
<1>4. PendingLoop(list, n, b, g) = after[Len(list)]
  BY DEF PendingLoop, Scanning
<1> HIDE DEF f, k
<1>5. LoopAfter(list, 0, f, k) = start
  <2>1. 0 < k /\ 0 < f /\ f \in Nat \ {0} /\ 0 \in 0..Len(list)
    BY <1>1, <1>2
  <2>2. SubSeq(list, f, 0) = <<>>
    BY <2>1, PartOfList
  <2> QED
    BY <2>1, <2>2 DEF LoopAfter
<1>6. Iterates(closed)
  <2>1. ASSUME NEW i \in 0..Len(list)
        PROVE  LoopAfter(list, i, f, k) = IF i = 0 THEN start
                                          ELSE PendingStep(closed[i - 1], list[i], n, b, g)
    <3>1. CASE i = 0
      BY <3>1, <1>5
    <3>2. CASE i # 0
      <4>1. i \in 1..Len(list) /\ i - 1 \in 0..Len(list)
        BY <1>1, <3>2
      <4> QED
        BY <4>1, <1>3, <3>2
    <3> QED
      BY <3>1, <3>2
  <2> QED
    BY <2>1
<1> HIDE DEF closed
<1>7. Iterates(after)
  <2> HIDE DEF Iterates
  <2> QED
    BY <1>6
<1> HIDE DEF after
<1>8. after[0] = start /\ \A i \in 1..Len(list) :
                            after[i] = PendingStep(after[i - 1], list[i], n, b, g)
  BY <1>1, <1>7
<1>9. \A i \in 0..Len(list) : closed[i] = LoopAfter(list, i, f, k)
  BY DEF closed
<1>10. \A i \in 1..Len(list) : after[i - 1] = closed[i - 1] => after[i] = closed[i]
  <2> SUFFICES ASSUME NEW i \in 1..Len(list), after[i - 1] = closed[i - 1]
               PROVE  after[i] = closed[i]
    OBVIOUS
  <2>1. i - 1 \in 0..Len(list) /\ i \in 0..Len(list)
    BY <1>1
  <2> QED
    BY <2>1, <1>3, <1>8, <1>9
<1>11. after[Len(list)] = closed[Len(list)]
  <2>1. after[0] = closed[0]
    BY <1>1, <1>5, <1>8, <1>9
  <2> QED
    BY <2>1, <1>1, <1>10, SameByIteration
<1> QED
  BY <1>1, <1>4, <1>9, <1>11 DEF f, k

(* The closed forms of updatePendingAndQueued are what its loop computes,  *)
(* in every reachable state and for lists of any length: the loop drops    *)
(* the stale prefix, stops at the first other invalid transaction and      *)
(* moves everything behind it.                                             *)
THEOREM UpdateIsItsLoop == Spec => []UpdateMatchesLoop
<1>1. IInv => UpdateMatchesLoop
  <2> SUFFICES ASSUME IInv, NEW s \in Senders, NEW n \in 0..MaxNonce, NEW b \in Balances,
                      NEW g \in GasLimits
               PROVE  LET list == pool.pendingTransactions[s]
                          loop == PendingLoop(list, n, b, g)
                      IN  /\ KeptPending(list, n, b, g) = loop.kept
                          /\ MovedToQueued(list, n, b, g) = Elements(loop.moved)
    BY DEF UpdateMatchesLoop
  <2> DEFINE list == pool.pendingTransactions[s]
             f == FirstFresh(list, n)
             k == FirstInvalid(list, n, b, g)
  <2>1. SenderOK(list, pool.queuedTransactions[s], world.nonce[s], s) /\ world.nonce[s] \in Nat
    BY DEF IInv, PoolOK, TypeOK, World
  <2>2. n \in Nat /\ b \in Nat /\ g \in Nat
    BY BalancesAssumption, GasLimitsAssumption, BoundsAssumption
  <2>3. list \in Seq(OrderedTransaction) /\ Len(list) \in Nat
        /\ \A i \in 1..Len(list) : list[i].data.nonce = world.nonce[s] + i - 1
    BY <2>1, LenProperties DEF SenderOK
  <2> HIDE DEF list
  <2>4. PendingLoop(list, n, b, g) = LoopAfter(list, Len(list), f, k)
    <3>1. world.nonce[s] \in Nat /\ NumberedFrom(list, world.nonce[s])
      BY <2>1, <2>3 DEF NumberedFrom
    <3>2. list \in Seq(OrderedTransaction)
      BY <2>3
    <3> QED
      BY <2>2, <3>1, <3>2, LoopResult
  <2>5. f \in 1..(Len(list) + 1) /\ k \in f..(Len(list) + 1)
    BY <2>2, <2>3, UpdateBounds
  <2>6. KeptPending(list, n, b, g) = SubSeq(list, f, k - 1)
        /\ MovedToQueued(list, n, b, g) = {list[i] : i \in (k + 1)..Len(list)}
    BY DEF KeptPending, MovedToQueued
  <2> HIDE DEF f, k
  <2>7. PendingLoop(list, n, b, g).kept = SubSeq(list, f, k - 1)
        /\ PendingLoop(list, n, b, g).moved = SubSeq(list, k + 1, Len(list))
    <3>1. CASE Len(list) < k
      <4>1. k - 1 = Len(list) /\ k + 1 \in Nat \ {0} /\ Len(list) \in 0..Len(list)
            /\ Len(list) < k + 1
        BY <2>3, <2>5, <3>1
      <4>2. SubSeq(list, k + 1, Len(list)) = <<>>
        BY <4>1, <2>3, PartOfList
      <4>3. PendingLoop(list, n, b, g) = Scanning(SubSeq(list, f, k - 1))
        BY <2>4, <3>1, <4>1 DEF LoopAfter
      <4>4. Scanning(SubSeq(list, f, k - 1)).kept = SubSeq(list, f, k - 1)
        BY LoopStateLists, Zenon
      <4>5. Scanning(SubSeq(list, f, k - 1)).moved = <<>>
        BY LoopStateLists, Zenon
      <4> QED
        BY <4>2, <4>3, <4>4, <4>5, Zenon
    <3>2. CASE ~(Len(list) < k)
      <4>1. PendingLoop(list, n, b, g)
              = Moving(SubSeq(list, f, k - 1), SubSeq(list, k + 1, Len(list)))
        BY <2>4, <3>2 DEF LoopAfter
      <4> DEFINE keep == SubSeq(list, f, k - 1)
                 rest == SubSeq(list, k + 1, Len(list))
      <4> HIDE DEF keep, rest
      <4>2. Moving(keep, rest).kept = keep /\ Moving(keep, rest).moved = rest
        BY LoopStateLists, Zenon
      <4> QED
        BY <4>1, <4>2, Zenon DEF keep, rest
    <3> QED
      BY <3>1, <3>2
  <2>8. Elements(SubSeq(list, k + 1, Len(list))) = {list[i] : i \in (k + 1)..Len(list)}
    <3> DEFINE t == SubSeq(list, k + 1, Len(list))
    <3>1. /\ t \in Seq(OrderedTransaction)
          /\ Len(t) = IF k + 1 <= Len(list) THEN Len(list) - (k + 1) + 1 ELSE 0
          /\ \A i \in 1..(Len(list) - (k + 1) + 1) : t[i] = list[k + 1 + i - 1]
      <4>1. \A i \in (k + 1)..Len(list) : list[i] \in OrderedTransaction
        BY <2>3, <2>5
      <4>2. k + 1 \in Int /\ Len(list) \in Int
        BY <2>3, <2>5
      <4> QED
        BY <4>1, <4>2, SubSeqProperties
    <3>2. DOMAIN t = 1..(Len(list) - k)
      <4>1. DOMAIN t = 1..Len(t)
        BY <3>1, LenProperties
      <4>2. 1..Len(t) = 1..(Len(list) - k)
        BY <3>1, <2>3, <2>5
      <4> QED
        BY <4>1, <4>2
    <3>3. \A i \in 1..(Len(list) - k) : t[i] = list[k + i] /\ k + i \in (k + 1)..Len(list)
      BY <3>1, <2>3, <2>5
    <3>4. \A j \in (k + 1)..Len(list) : j - k \in 1..(Len(list) - k) /\ k + (j - k) = j
      BY <2>3, <2>5
    <3> HIDE DEF t
    <3>5. Elements(t) = {t[i] : i \in 1..(Len(list) - k)}
      BY <3>2 DEF Elements
    <3>6. {t[i] : i \in 1..(Len(list) - k)} = {list[i] : i \in (k + 1)..Len(list)}
      BY <3>3, <3>4
    <3> QED
      BY <3>5, <3>6 DEF t
  <2> QED
    BY <2>6, <2>7, <2>8 DEF list
<1> QED
  BY <1>1, Invariance, PTL

=============================================================================
