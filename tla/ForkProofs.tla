----------------------------- MODULE ForkProofs -----------------------------
(* Proofs about a forked network: its state (ForkState), for all accounts, *)
(* slots and values, every remote state, and any number of writes, roots   *)
(* and checkpoints; and its client and chain (ForkBlockchain), for every   *)
(* length of the chains, every largest reorganization and any number of    *)
(* answers that are kept.                                                  *)
EXTENDS ForkState, ForkBlockchain, SequenceTheorems, TLAPS

-----------------------------------------------------------------------------
(* Lemmas about sequences *)

(* A prefix of a sequence *)
LEMMA PrefixFacts ==
  ASSUME NEW S, NEW s \in Seq(S), NEW n \in 0..Len(s)
  PROVE  /\ SubSeq(s, 1, n) \in Seq(S)
         /\ Len(SubSeq(s, 1, n)) = n
         /\ DOMAIN SubSeq(s, 1, n) = 1..n
         /\ \A i \in 1..n : SubSeq(s, 1, n)[i] = s[i]
<1>1. \A i \in 1..n : s[i] \in S
  OBVIOUS
<1>2. /\ SubSeq(s, 1, n) \in Seq(S)
      /\ Len(SubSeq(s, 1, n)) = IF 1 <= n THEN n - 1 + 1 ELSE 0
      /\ \A i \in 1..(n - 1 + 1) : SubSeq(s, 1, n)[i] = s[1 + i - 1]
  BY <1>1, SubSeqProperties
<1> QED
  BY <1>2

(* A sequence with an element added to its end *)
LEMMA AppendFacts ==
  ASSUME NEW S, NEW s \in Seq(S), NEW e \in S
  PROVE  /\ Append(s, e) \in Seq(S)
         /\ Len(Append(s, e)) = Len(s) + 1
         /\ DOMAIN Append(s, e) = 1..(Len(s) + 1)
         /\ \A i \in 1..Len(s) : Append(s, e)[i] = s[i]
         /\ Append(s, e)[Len(s) + 1] = e
OBVIOUS

(* Two sequences of the same length with the same elements are the same. *)
LEMMA SameSequence ==
  ASSUME NEW S, NEW s \in Seq(S), NEW t \in Seq(S), Len(s) = Len(t),
         \A i \in 1..Len(s) : s[i] = t[i]
  PROVE  s = t
OBVIOUS

(* A function on 1..n is a sequence. *)
LEMMA FunctionIsSequence ==
  ASSUME NEW S, NEW n \in Nat, NEW f \in [1..n -> S]
  PROVE  f \in Seq(S) /\ Len(f) = n
OBVIOUS

(* An element of a sequence *)
LEMMA ElementIn ==
  ASSUME NEW S, NEW s \in Seq(S), NEW i \in 1..Len(s)
  PROVE  s[i] \in S
OBVIOUS

(* A sequence over a set is one over a larger set. *)
LEMMA SequenceInSuperset ==
  ASSUME NEW S, NEW T, S \subseteq T, NEW s \in Seq(S)
  PROVE  s \in Seq(T)
OBVIOUS

-----------------------------------------------------------------------------
(* What an account reads as *)

States == [Accounts -> AccountState]

(* The account that a written part and the remote account make together is *)
(* an account in full.                                                     *)
LEMMA AccountFields ==
  ASSUME NEW acc \in AccountState
  PROVE  /\ acc.info \in Maybe(Values) /\ acc.code \in Maybe(Values)
         /\ acc.storage \in [Slots -> Maybe(Values)] /\ acc.storageCleared \in BOOLEAN
BY DEF AccountState

(* A remote account *)
LEMMA RemoteFields ==
  ASSUME NEW n \in 0..ForkBlock, NEW a \in Accounts
  PROVE  /\ Remote[n] \in World
         /\ Remote[n][a] \in [info : Values, code : Values, storage : [Slots -> Values]]
         /\ Remote[n][a].info \in Values /\ Remote[n][a].code \in Values
         /\ Remote[n][a].storage \in [Slots -> Values]
<1>1. Remote[n] \in World
  BY RemoteAssumption
<1>2. Remote[n][a] \in [info : Values, code : Values, storage : [Slots -> Values]]
  BY <1>1 DEF World
<1> QED
  BY <1>1, <1>2

(* A slot reads as what was written to it, as 0 when the storage was       *)
(* cleared before, and as the remote value otherwise.                      *)
LEMMA SlotIs ==
  ASSUME NEW acc, NEW there, NEW k
  PROVE  /\ acc.storage[k] # Undefined => GetContractStorage(acc, there, k) = acc.storage[k]
         /\ acc.storage[k] = Undefined /\ acc.storageCleared =>
              GetContractStorage(acc, there, k) = 0
         /\ acc.storage[k] = Undefined /\ ~acc.storageCleared =>
              GetContractStorage(acc, there, k) = there.storage[k]
BY DEF GetContractStorage

(* A view holds every account in full. *)
LEMMA ViewIsWorld ==
  ASSUME NEW s \in States, NEW n \in 0..ForkBlock
  PROVE  View(s, n) \in World
<1> SUFFICES ASSUME NEW a \in Accounts
             PROVE  GetAccount(s, n, a)
                      \in [info : Values, code : Values, storage : [Slots -> Values]]
  BY DEF View, World
<1>1. s[a] \in AccountState
  BY DEF States
<1>2. ASSUME NEW k \in Slots
      PROVE  GetContractStorage(s[a], Remote[n][a], k) \in Values
  <2>1. s[a].storage[k] \in Maybe(Values) /\ Remote[n][a].storage[k] \in Values
    BY <1>1, AccountFields, RemoteFields
  <2>2. s[a].storageCleared \/ ~s[a].storageCleared
    OBVIOUS
  <2> QED
    BY <2>1, <2>2, SlotIs, RemoteAssumption DEF Maybe
<1>3. /\ Local(s[a].info, Remote[n][a].info) \in Values
      /\ Local(s[a].code, Remote[n][a].code) \in Values
  BY <1>1, AccountFields, RemoteFields DEF Local, Maybe
<1> QED
  BY <1>2, <1>3 DEF GetAccount

(* Where nothing was written, the view is the remote state. *)
LEMMA FreshViewIsRemote ==
  ASSUME NEW n \in 0..ForkBlock
  PROVE  /\ [a \in Accounts |-> MakeAccountState] \in States
         /\ View([a \in Accounts |-> MakeAccountState], n) = Remote[n]
<1> DEFINE s == [a \in Accounts |-> MakeAccountState]
<1>1. MakeAccountState \in AccountState
  BY DEF MakeAccountState, AccountState, NoSlots, Maybe
<1>2. ASSUME NEW a \in Accounts PROVE GetAccount(s, n, a) = Remote[n][a]
  <2>1. /\ s[a].info = Undefined /\ s[a].code = Undefined /\ s[a].storage = NoSlots
        /\ s[a].storageCleared = FALSE
    BY DEF MakeAccountState
  <2> HIDE DEF s
  <2>2. ASSUME NEW k \in Slots
        PROVE  GetContractStorage(s[a], Remote[n][a], k) = Remote[n][a].storage[k]
    BY <2>1, SlotIs DEF NoSlots
  <2>3. GetAccount(s, n, a) = [info |-> Remote[n][a].info, code |-> Remote[n][a].code,
                               storage |-> [k \in Slots |-> Remote[n][a].storage[k]]]
    BY <2>1, <2>2 DEF GetAccount, Local
  <2> QED
    BY <2>3, RemoteFields
<1>3. Remote[n] = [a \in Accounts |-> Remote[n][a]]
  BY RemoteAssumption DEF World
<1>4. View(s, n) = Remote[n]
  BY <1>2, <1>3 DEF View
<1> QED
  BY <1>1, <1>4 DEF States

-----------------------------------------------------------------------------
(* Writes *)

(* A write to one account changes the view of that account only. *)
LEMMA ViewOfWrite ==
  ASSUME NEW s, NEW t, NEW n, NEW a \in Accounts,
         \A b \in Accounts : b # a => t[b] = s[b]
  PROVE  View(t, n) = [View(s, n) EXCEPT ![a] = GetAccount(t, n, a)]
BY DEF View, GetAccount

(* The storage of an account reads the same when it was not written. *)
LEMMA SameStorage ==
  ASSUME NEW acc, NEW written, NEW there,
         written.storage = acc.storage, written.storageCleared = acc.storageCleared
  PROVE  \A k \in Slots : GetContractStorage(written, there, k) = GetContractStorage(acc, there, k)
BY DEF GetContractStorage

(* The slots of an account, as they are read *)
StorageRead(acc, there) == [k \in Slots |-> GetContractStorage(acc, there, k)]

(* putAccount: the account gets the new nonce and balance, and keeps its   *)
(* code when an empty code is written down with them.                      *)
LEMMA PutAccountReads ==
  ASSUME NEW s, NEW t, NEW n, NEW a, NEW v \in Values,
         t[a].info = v,
         t[a].code = IF GetAccount(s, n, a).code = 0 THEN 0 ELSE s[a].code,
         t[a].storage = s[a].storage, t[a].storageCleared = s[a].storageCleared
  PROVE  GetAccount(t, n, a) = [GetAccount(s, n, a) EXCEPT !.info = v]
<1> DEFINE info == Local(s[a].info, Remote[n][a].info)
           code == Local(s[a].code, Remote[n][a].code)
           storage == StorageRead(s[a], Remote[n][a])
<1>0. GetAccount(s, n, a) = [info |-> info, code |-> code, storage |-> storage]
  BY DEF GetAccount, StorageRead
<1>1. 0 # Undefined /\ v # Undefined
  BY RemoteAssumption, UndefinedAssumption
<1>2. Local(t[a].info, Remote[n][a].info) = v
  BY <1>1 DEF Local
<1>3. Local(t[a].code, Remote[n][a].code) = Local(s[a].code, Remote[n][a].code)
  BY <1>1 DEF Local, GetAccount
<1>4. StorageRead(t[a], Remote[n][a]) = StorageRead(s[a], Remote[n][a])
  BY SameStorage DEF StorageRead
<1>5. GetAccount(t, n, a) = [info |-> v, code |-> code, storage |-> storage]
  BY <1>2, <1>3, <1>4 DEF GetAccount, StorageRead
<1> HIDE DEF info, code, storage
<1> QED
  BY <1>0, <1>5

(* putContractCode *)
LEMMA PutContractCodeReads ==
  ASSUME NEW s, NEW t, NEW n, NEW a, NEW v \in Values,
         t[a].info = s[a].info, t[a].code = v,
         t[a].storage = s[a].storage, t[a].storageCleared = s[a].storageCleared
  PROVE  GetAccount(t, n, a) = [GetAccount(s, n, a) EXCEPT !.code = v]
<1> DEFINE info == Local(s[a].info, Remote[n][a].info)
           code == Local(s[a].code, Remote[n][a].code)
           storage == StorageRead(s[a], Remote[n][a])
<1>0. GetAccount(s, n, a) = [info |-> info, code |-> code, storage |-> storage]
  BY DEF GetAccount, StorageRead
<1>1. Local(t[a].code, Remote[n][a].code) = v
  BY UndefinedAssumption DEF Local
<1>2. StorageRead(t[a], Remote[n][a]) = StorageRead(s[a], Remote[n][a])
  BY SameStorage DEF StorageRead
<1>3. GetAccount(t, n, a) = [info |-> info, code |-> v, storage |-> storage]
  BY <1>1, <1>2 DEF GetAccount, StorageRead
<1> HIDE DEF info, code, storage
<1> QED
  BY <1>0, <1>3

(* putContractStorage *)
LEMMA PutContractStorageReads ==
  ASSUME NEW s, NEW t, NEW n, NEW a, NEW k \in Slots, NEW v \in Values,
         t[a].info = s[a].info, t[a].code = s[a].code,
         t[a].storage[k] = v, \A j \in Slots : j # k => t[a].storage[j] = s[a].storage[j],
         t[a].storageCleared = s[a].storageCleared
  PROVE  GetAccount(t, n, a) = [GetAccount(s, n, a) EXCEPT !.storage[k] = v]
<1> DEFINE info == Local(s[a].info, Remote[n][a].info)
           code == Local(s[a].code, Remote[n][a].code)
           storage == StorageRead(s[a], Remote[n][a])
<1>0. GetAccount(s, n, a) = [info |-> info, code |-> code, storage |-> storage]
  BY DEF GetAccount, StorageRead
<1>1. GetContractStorage(t[a], Remote[n][a], k) = v
  BY UndefinedAssumption, SlotIs
<1>2. ASSUME NEW j \in Slots, j # k
      PROVE  GetContractStorage(t[a], Remote[n][a], j) = GetContractStorage(s[a], Remote[n][a], j)
  BY <1>2 DEF GetContractStorage
<1>3. StorageRead(t[a], Remote[n][a]) = [StorageRead(s[a], Remote[n][a]) EXCEPT ![k] = v]
  BY <1>1, <1>2 DEF StorageRead
<1>4. GetAccount(t, n, a) = [info |-> info, code |-> code,
                             storage |-> [storage EXCEPT ![k] = v]]
  BY <1>3 DEF GetAccount, StorageRead
<1> HIDE DEF info, code, storage
<1> QED
  BY <1>0, <1>4

(* clearContractStorage: every slot reads as 0, whatever the remote has. *)
LEMMA ClearContractStorageReads ==
  ASSUME NEW s, NEW t, NEW n, NEW a,
         t[a].info = s[a].info, t[a].code = s[a].code, t[a].storage = NoSlots,
         t[a].storageCleared
  PROVE  GetAccount(t, n, a) = [GetAccount(s, n, a) EXCEPT !.storage = [k \in Slots |-> 0]]
<1> DEFINE info == Local(s[a].info, Remote[n][a].info)
           code == Local(s[a].code, Remote[n][a].code)
           storage == StorageRead(s[a], Remote[n][a])
<1>0. GetAccount(s, n, a) = [info |-> info, code |-> code, storage |-> storage]
  BY DEF GetAccount, StorageRead
<1>1. ASSUME NEW k \in Slots PROVE GetContractStorage(t[a], Remote[n][a], k) = 0
  BY SlotIs DEF NoSlots
<1>2. GetAccount(t, n, a) = [info |-> info, code |-> code,
                             storage |-> [k \in Slots |-> 0]]
  BY <1>1 DEF GetAccount
<1> HIDE DEF info, code, storage
<1> QED
  BY <1>0, <1>2

(* deleteAccount: nothing of the remote account shows any more. *)
LEMMA DeleteAccountReads ==
  ASSUME NEW t, NEW n, NEW a, t[a] = MakeEmptyAccountState
  PROVE  GetAccount(t, n, a) = [info |-> 0, code |-> 0, storage |-> [k \in Slots |-> 0]]
<1>1. /\ t[a].info = 0 /\ t[a].code = 0 /\ t[a].storage = NoSlots
      /\ 0 # Undefined
  BY RemoteAssumption, UndefinedAssumption DEF MakeEmptyAccountState
<1>2. t[a].storageCleared = TRUE
  BY DEF MakeEmptyAccountState
<1>3. ASSUME NEW k \in Slots PROVE GetContractStorage(t[a], Remote[n][a], k) = 0
  BY <1>1, <1>2, SlotIs DEF NoSlots
<1> QED
  BY <1>1, <1>3 DEF GetAccount, Local

(* What the two calls that empty something do to an account *)
LEMMA WrittenIs ==
  ASSUME NEW acc, NEW a
  PROVE  /\ EagerStateInstance!Written(acc, [op |-> "clear", account |-> a])
              = [acc EXCEPT !.storage = [j \in Slots |-> 0]]
         /\ EagerStateInstance!Written(acc, [op |-> "delete", account |-> a])
              = [info |-> 0, code |-> 0, storage |-> [j \in Slots |-> 0]]
<1>1. EagerStateInstance!Written(acc, [op |-> "clear", account |-> a])
        = [acc EXCEPT !.storage = [j \in Slots |-> 0]]
  BY DEF EagerStateInstance!Written, EagerStateInstance!Empty
<1>2. EagerStateInstance!Written(acc, [op |-> "delete", account |-> a])
        = [info |-> 0, code |-> 0, storage |-> [j \in Slots |-> 0]]
  BY DEF EagerStateInstance!Written, EagerStateInstance!Empty
<1> QED
  BY <1>1, <1>2

(* A call that writes to account a as c says is a Write step. *)
LEMMA WriteStep ==
  ASSUME NEW a \in Accounts, NEW c \in EagerStateInstance!Calls, c.account = a,
         \A b \in Accounts : b # a => state'[b] = state[b],
         GetAccount(state', contextBlock, a)
           = EagerStateInstance!Written(GetAccount(state, contextBlock, a), c),
         Called(c)
  PROVE  EagerStateInstance!Write
<1> DEFINE world == View(state, contextBlock)
<1>1. /\ call' = c /\ stateRoot' = stateRoot /\ stateRootToState' = stateRootToState
      /\ stateCheckpoints' = stateCheckpoints /\ contextBlock' = contextBlock
      /\ blockOf' = blockOf
  BY DEF Called
<1>2. world' = View(state', contextBlock)
  BY <1>1 DEF View, GetAccount
<1>3. world[a] = GetAccount(state, contextBlock, a)
  BY DEF View
<1>4. View(state', contextBlock) = [world EXCEPT ![a] = GetAccount(state', contextBlock, a)]
  BY ViewOfWrite
<1>5. world' = [world EXCEPT ![a] = EagerStateInstance!Written(world[a], c)]
  BY <1>2, <1>3, <1>4
<1>6. world' = [world EXCEPT ![call'.account] = EagerStateInstance!Written(@, call')]
  BY <1>1, <1>5
<1>7. UNCHANGED <<[r \in DOMAIN stateRootToState |-> View(stateRootToState[r], blockOf[r])],
                  [i \in DOMAIN stateCheckpoints |->
                     View(stateRootToState[stateCheckpoints[i]], blockOf[stateCheckpoints[i]])]>>
  BY <1>1 DEF View, GetAccount
<1> QED
  BY <1>1, <1>6, <1>7 DEF EagerStateInstance!Write

(* Each of the calls that write *)
LEMMA PutAccountSteps ==
  ASSUME state \in States, NEW a \in Accounts, NEW v \in Values, PutAccount(a, v)
  PROVE  state' \in States /\ EagerStateInstance!Write
<1> DEFINE c == [op |-> "info", account |-> a, value |-> v]
           code == IF GetAccount(state, contextBlock, a).code = 0 THEN 0 ELSE state[a].code
<1>1. state[a] \in AccountState /\ state[a].code \in Maybe(Values)
  BY AccountFields DEF States
<1>2. code \in Maybe(Values)
  BY <1>1, RemoteAssumption DEF Maybe
<1>3. state' = [state EXCEPT ![a].info = v, ![a].code = code] /\ Called(c)
  BY DEF PutAccount, States
<1> HIDE DEF code
<1>4. /\ state'[a].info = v /\ state'[a].code = code
      /\ state'[a].storage = state[a].storage
      /\ \A b \in Accounts : b # a => state'[b] = state[b]
  BY <1>1, <1>3 DEF States, AccountState
<1>5. state'[a].storageCleared = state[a].storageCleared
  BY <1>1, <1>3 DEF States, AccountState
<1>6. state' \in States
  BY <1>1, <1>2, <1>3 DEF States, AccountState, Maybe
<1>7. GetAccount(state', contextBlock, a)
        = [GetAccount(state, contextBlock, a) EXCEPT !.info = v]
  BY <1>4, <1>5, PutAccountReads DEF code
<1>8. c \in EagerStateInstance!Calls
  BY DEF EagerStateInstance!Calls
<1>9. GetAccount(state', contextBlock, a)
        = EagerStateInstance!Written(GetAccount(state, contextBlock, a), c)
  <2>1. EagerStateInstance!Written(GetAccount(state, contextBlock, a), c)
          = [GetAccount(state, contextBlock, a) EXCEPT !.info = v]
    BY DEF EagerStateInstance!Written
  <2> QED
    BY <1>7, <2>1, Zenon
<1>10. c.account = a
  OBVIOUS
<1> HIDE DEF c
<1>11. EagerStateInstance!Write
  BY <1>3, <1>4, <1>8, <1>9, <1>10, WriteStep
<1> QED
  BY <1>6, <1>11

(* putContractCode *)
LEMMA PutContractCodeSteps ==
  ASSUME state \in States, NEW a \in Accounts, NEW v \in Values, PutContractCode(a, v)
  PROVE  state' \in States /\ EagerStateInstance!Write
<1> DEFINE c == [op |-> "code", account |-> a, value |-> v]
<1>1. state[a] \in AccountState
  BY DEF States
<1>2. state' = [state EXCEPT ![a].code = v] /\ Called(c)
  BY DEF PutContractCode
<1>3. /\ state'[a].info = state[a].info /\ state'[a].code = v
      /\ state'[a].storage = state[a].storage
      /\ \A b \in Accounts : b # a => state'[b] = state[b]
  BY <1>1, <1>2 DEF States, AccountState
<1>4. state'[a].storageCleared = state[a].storageCleared
  BY <1>1, <1>2 DEF States, AccountState
<1>5. state' \in States
  BY <1>1, <1>2 DEF States, AccountState, Maybe
<1>6. GetAccount(state', contextBlock, a)
        = [GetAccount(state, contextBlock, a) EXCEPT !.code = v]
  BY <1>3, <1>4, PutContractCodeReads
<1>7. c \in EagerStateInstance!Calls
  BY DEF EagerStateInstance!Calls
<1>8. GetAccount(state', contextBlock, a)
        = EagerStateInstance!Written(GetAccount(state, contextBlock, a), c)
  <2>1. EagerStateInstance!Written(GetAccount(state, contextBlock, a), c)
          = [GetAccount(state, contextBlock, a) EXCEPT !.code = v]
    BY DEF EagerStateInstance!Written
  <2> QED
    BY <1>6, <2>1, Zenon
<1>9. c.account = a
  OBVIOUS
<1> HIDE DEF c
<1>10. EagerStateInstance!Write
  BY <1>2, <1>3, <1>7, <1>8, <1>9, WriteStep
<1> QED
  BY <1>5, <1>10

(* putContractStorage *)
LEMMA PutContractStorageSteps ==
  ASSUME state \in States, NEW a \in Accounts, NEW k \in Slots, NEW v \in Values,
         PutContractStorage(a, k, v)
  PROVE  state' \in States /\ EagerStateInstance!Write
<1> DEFINE c == [op |-> "slot", account |-> a, slot |-> k, value |-> v]
           slots == [state[a].storage EXCEPT ![k] = v]
<1>1. state[a] \in AccountState /\ state[a].storage \in [Slots -> Maybe(Values)]
  BY AccountFields DEF States
<1>2. state' = [state EXCEPT ![a].storage = slots] /\ Called(c)
  BY DEF PutContractStorage
<1>3. /\ slots \in [Slots -> Maybe(Values)] /\ slots[k] = v
      /\ \A j \in Slots : j # k => slots[j] = state[a].storage[j]
  BY <1>1 DEF Maybe
<1> HIDE DEF slots
<1>4. /\ state'[a].info = state[a].info /\ state'[a].code = state[a].code
      /\ state'[a].storage = slots
      /\ \A b \in Accounts : b # a => state'[b] = state[b]
  BY <1>1, <1>2 DEF States, AccountState
<1>5. state'[a].storageCleared = state[a].storageCleared
  BY <1>1, <1>2 DEF States, AccountState
<1>6. state' \in States
  BY <1>1, <1>2, <1>3 DEF States, AccountState
<1>7. GetAccount(state', contextBlock, a)
        = [GetAccount(state, contextBlock, a) EXCEPT !.storage[k] = v]
  BY <1>3, <1>4, <1>5, PutContractStorageReads
<1>8. c \in EagerStateInstance!Calls
  BY DEF EagerStateInstance!Calls
<1>9. GetAccount(state', contextBlock, a)
        = EagerStateInstance!Written(GetAccount(state, contextBlock, a), c)
  <2>1. EagerStateInstance!Written(GetAccount(state, contextBlock, a), c)
          = [GetAccount(state, contextBlock, a) EXCEPT !.storage[k] = v]
    BY DEF EagerStateInstance!Written
  <2> QED
    BY <1>7, <2>1, Zenon
<1>10. c.account = a
  OBVIOUS
<1> HIDE DEF c
<1>11. EagerStateInstance!Write
  BY <1>2, <1>4, <1>8, <1>9, <1>10, WriteStep
<1> QED
  BY <1>6, <1>11

(* clearContractStorage *)
LEMMA ClearContractStorageSteps ==
  ASSUME state \in States, NEW a \in Accounts, ClearContractStorage(a)
  PROVE  state' \in States /\ EagerStateInstance!Write
<1> DEFINE c == [op |-> "clear", account |-> a]
<1>1. state[a] \in AccountState /\ NoSlots \in [Slots -> Maybe(Values)]
  BY DEF States, NoSlots, Maybe
<1>2. state' = [state EXCEPT ![a].storageCleared = TRUE, ![a].storage = NoSlots] /\ Called(c)
  BY DEF ClearContractStorage
<1>3. /\ state'[a].info = state[a].info /\ state'[a].code = state[a].code
      /\ state'[a].storage = NoSlots
      /\ \A b \in Accounts : b # a => state'[b] = state[b]
  BY <1>1, <1>2 DEF States, AccountState
<1>4. state'[a].storageCleared = TRUE
  BY <1>1, <1>2 DEF States, AccountState
<1>5. state' \in States
  BY <1>1, <1>2 DEF States, AccountState
<1>6. GetAccount(state', contextBlock, a)
        = [GetAccount(state, contextBlock, a) EXCEPT !.storage = [k \in Slots |-> 0]]
  <2>1. state'[a].storageCleared
    BY <1>4
  <2> QED
    BY <1>3, <1>4, <2>1, ClearContractStorageReads
<1>7. c \in EagerStateInstance!Calls
  BY DEF EagerStateInstance!Calls
<1>8. GetAccount(state', contextBlock, a)
        = EagerStateInstance!Written(GetAccount(state, contextBlock, a), c)
  <2>1. EagerStateInstance!Written(GetAccount(state, contextBlock, a), c)
          = [GetAccount(state, contextBlock, a) EXCEPT !.storage = [k \in Slots |-> 0]]
    BY WrittenIs, Zenon
  <2> QED
    BY <1>6, <2>1, Zenon
<1>9. c.account = a
  OBVIOUS
<1> HIDE DEF c
<1>10. EagerStateInstance!Write
  BY <1>2, <1>3, <1>7, <1>8, <1>9, WriteStep
<1> QED
  BY <1>5, <1>10

(* deleteAccount *)
LEMMA DeleteAccountSteps ==
  ASSUME state \in States, NEW a \in Accounts, DeleteAccount(a)
  PROVE  state' \in States /\ EagerStateInstance!Write
<1> DEFINE c == [op |-> "delete", account |-> a]
<1>1. MakeEmptyAccountState \in AccountState
  BY RemoteAssumption DEF MakeEmptyAccountState, AccountState, NoSlots, Maybe
<1>2. state' = [state EXCEPT ![a] = MakeEmptyAccountState] /\ Called(c)
  BY DEF DeleteAccount
<1>3. /\ state'[a] = MakeEmptyAccountState /\ state' \in States
      /\ \A b \in Accounts : b # a => state'[b] = state[b]
  BY <1>1, <1>2 DEF States
<1>4. GetAccount(state', contextBlock, a)
        = [info |-> 0, code |-> 0, storage |-> [k \in Slots |-> 0]]
  BY <1>3, DeleteAccountReads
<1>5. c \in EagerStateInstance!Calls
  BY DEF EagerStateInstance!Calls
<1>6. GetAccount(state', contextBlock, a)
        = EagerStateInstance!Written(GetAccount(state, contextBlock, a), c)
  BY <1>4, WrittenIs
<1>7. c.account = a
  OBVIOUS
<1> HIDE DEF c
<1>8. EagerStateInstance!Write
  BY <1>2, <1>3, <1>5, <1>6, <1>7, WriteStep
<1> QED
  BY <1>3, <1>8

-----------------------------------------------------------------------------
(* Roots and checkpoints *)

(* What the roots stand for, when the root r was made at block blocks[r] *)
WorldsOf(roots, blocks) == [r \in DOMAIN roots |-> View(roots[r], blocks[r])]

(* The worlds that the checkpoints go back to *)
CheckpointsOf(cps, roots, blocks) ==
  [i \in DOMAIN cps |-> View(roots[cps[i]], blocks[cps[i]])]

(* Every root stands for a world. *)
LEMMA WorldsFacts ==
  ASSUME NEW roots \in Seq(States), NEW blocks \in Seq(0..ForkBlock), Len(blocks) = Len(roots)
  PROVE  /\ WorldsOf(roots, blocks) \in Seq(World)
         /\ Len(WorldsOf(roots, blocks)) = Len(roots)
         /\ DOMAIN WorldsOf(roots, blocks) = 1..Len(roots)
         /\ \A r \in 1..Len(roots) : WorldsOf(roots, blocks)[r] = View(roots[r], blocks[r])
<1>1. Len(roots) \in Nat /\ DOMAIN roots = 1..Len(roots)
  OBVIOUS
<1>2. ASSUME NEW r \in 1..Len(roots) PROVE View(roots[r], blocks[r]) \in World
  <2>1. roots[r] \in States /\ blocks[r] \in 0..ForkBlock
    BY ElementIn
  <2> QED
    BY <2>1, ViewIsWorld
<1>3. WorldsOf(roots, blocks) \in [1..Len(roots) -> World]
  BY <1>1, <1>2 DEF WorldsOf
<1>4. WorldsOf(roots, blocks) \in Seq(World) /\ Len(WorldsOf(roots, blocks)) = Len(roots)
  BY <1>1, <1>3, FunctionIsSequence
<1>5. \A r \in 1..Len(roots) : WorldsOf(roots, blocks)[r] = View(roots[r], blocks[r])
  BY <1>1 DEF WorldsOf
<1> QED
  BY <1>3, <1>4, <1>5

(* A new root stands for the state that it was made of. *)
LEMMA WorldsAppend ==
  ASSUME NEW roots \in Seq(States), NEW blocks \in Seq(0..ForkBlock), Len(blocks) = Len(roots),
         NEW s \in States, NEW n \in 0..ForkBlock
  PROVE  WorldsOf(Append(roots, s), Append(blocks, n))
           = Append(WorldsOf(roots, blocks), View(s, n))
<1> DEFINE new == WorldsOf(Append(roots, s), Append(blocks, n))
           old == WorldsOf(roots, blocks)
           lst == Append(old, View(s, n))
           len == Len(roots)
<1>1. len \in Nat
  OBVIOUS
<1>2. /\ Append(roots, s) \in Seq(States) /\ Len(Append(roots, s)) = len + 1
      /\ Append(roots, s)[len + 1] = s
      /\ \A r \in 1..len : Append(roots, s)[r] = roots[r]
  BY AppendFacts
<1>3. /\ Append(blocks, n) \in Seq(0..ForkBlock) /\ Len(Append(blocks, n)) = len + 1
      /\ Append(blocks, n)[len + 1] = n
      /\ \A r \in 1..len : Append(blocks, n)[r] = blocks[r]
  BY AppendFacts
<1>4. /\ new \in Seq(World) /\ Len(new) = len + 1
      /\ \A r \in 1..(len + 1) : new[r] = View(Append(roots, s)[r], Append(blocks, n)[r])
  BY <1>2, <1>3, WorldsFacts
<1>5. /\ old \in Seq(World) /\ Len(old) = len
      /\ \A r \in 1..len : old[r] = View(roots[r], blocks[r])
  BY WorldsFacts
<1>6. View(s, n) \in World
  BY ViewIsWorld
<1> HIDE DEF old, new
<1>7. /\ lst \in Seq(World) /\ Len(lst) = len + 1 /\ lst[len + 1] = View(s, n)
      /\ \A r \in 1..len : lst[r] = old[r]
  BY <1>5, <1>6, AppendFacts
<1> HIDE DEF lst, len
<1>8. ASSUME NEW r \in 1..(len + 1) PROVE new[r] = lst[r]
  <2>1. CASE r = len + 1
    BY <1>1, <1>2, <1>3, <1>4, <1>7, <2>1
  <2>2. CASE r # len + 1
    <3>1. r \in 1..len
      BY <1>1, <2>2
    <3> QED
      BY <1>2, <1>3, <1>4, <1>5, <1>7, <3>1
  <2> QED
    BY <2>1, <2>2
<1>9. new = lst
  BY <1>4, <1>7, <1>8, SameSequence
<1> QED
  BY <1>9 DEF new, lst, old

(* Every checkpoint goes back to a world. *)
LEMMA CheckpointsFacts ==
  ASSUME NEW roots \in Seq(States), NEW blocks \in Seq(0..ForkBlock), Len(blocks) = Len(roots),
         NEW cps \in Seq(1..Len(roots))
  PROVE  /\ CheckpointsOf(cps, roots, blocks) \in Seq(World)
         /\ Len(CheckpointsOf(cps, roots, blocks)) = Len(cps)
         /\ DOMAIN CheckpointsOf(cps, roots, blocks) = 1..Len(cps)
         /\ \A i \in 1..Len(cps) :
              CheckpointsOf(cps, roots, blocks)[i] = View(roots[cps[i]], blocks[cps[i]])
<1>1. Len(cps) \in Nat /\ DOMAIN cps = 1..Len(cps)
  OBVIOUS
<1>2. ASSUME NEW i \in 1..Len(cps) PROVE View(roots[cps[i]], blocks[cps[i]]) \in World
  <2>1. cps[i] \in 1..Len(roots)
    OBVIOUS
  <2>2. roots[cps[i]] \in States /\ blocks[cps[i]] \in 0..ForkBlock
    BY <2>1, ElementIn
  <2> QED
    BY <2>2, ViewIsWorld
<1>3. CheckpointsOf(cps, roots, blocks) \in [1..Len(cps) -> World]
  BY <1>1, <1>2 DEF CheckpointsOf
<1>4. /\ CheckpointsOf(cps, roots, blocks) \in Seq(World)
      /\ Len(CheckpointsOf(cps, roots, blocks)) = Len(cps)
  BY <1>1, <1>3, FunctionIsSequence
<1>5. \A i \in 1..Len(cps) :
        CheckpointsOf(cps, roots, blocks)[i] = View(roots[cps[i]], blocks[cps[i]])
  BY <1>1 DEF CheckpointsOf
<1> QED
  BY <1>3, <1>4, <1>5

(* A new checkpoint goes back to what its root stands for. *)
LEMMA CheckpointsAppend ==
  ASSUME NEW roots \in Seq(States), NEW blocks \in Seq(0..ForkBlock), Len(blocks) = Len(roots),
         NEW cps \in Seq(1..Len(roots)), NEW q \in 1..Len(roots)
  PROVE  CheckpointsOf(Append(cps, q), roots, blocks)
           = Append(CheckpointsOf(cps, roots, blocks), View(roots[q], blocks[q]))
<1> DEFINE new == CheckpointsOf(Append(cps, q), roots, blocks)
           old == CheckpointsOf(cps, roots, blocks)
           lst == Append(old, View(roots[q], blocks[q]))
           len == Len(cps)
<1>1. len \in Nat
  OBVIOUS
<1>2. /\ Append(cps, q) \in Seq(1..Len(roots)) /\ Len(Append(cps, q)) = len + 1
      /\ Append(cps, q)[len + 1] = q
      /\ \A i \in 1..len : Append(cps, q)[i] = cps[i]
  BY AppendFacts
<1>3. /\ new \in Seq(World) /\ Len(new) = len + 1
      /\ \A i \in 1..(len + 1) :
           new[i] = View(roots[Append(cps, q)[i]], blocks[Append(cps, q)[i]])
  BY <1>2, CheckpointsFacts
<1>4. /\ old \in Seq(World) /\ Len(old) = len
      /\ \A i \in 1..len : old[i] = View(roots[cps[i]], blocks[cps[i]])
  BY CheckpointsFacts
<1>5. View(roots[q], blocks[q]) \in World
  <2>1. roots[q] \in States /\ blocks[q] \in 0..ForkBlock
    BY ElementIn
  <2> QED
    BY <2>1, ViewIsWorld
<1> HIDE DEF old, new
<1>6. /\ lst \in Seq(World) /\ Len(lst) = len + 1 /\ lst[len + 1] = View(roots[q], blocks[q])
      /\ \A i \in 1..len : lst[i] = old[i]
  BY <1>4, <1>5, AppendFacts
<1> HIDE DEF lst, len
<1>7. ASSUME NEW i \in 1..(len + 1) PROVE new[i] = lst[i]
  <2>1. CASE i = len + 1
    BY <1>1, <1>2, <1>3, <1>6, <2>1
  <2>2. CASE i # len + 1
    <3>1. i \in 1..len
      BY <1>1, <2>2
    <3> QED
      BY <1>2, <1>3, <1>4, <1>6, <3>1, ZenonT(30)
  <2> QED
    BY <2>1, <2>2
<1>8. new = lst
  BY <1>3, <1>6, <1>7, SameSequence
<1> QED
  BY <1>8 DEF new, lst, old

(* The checkpoints without the last one *)
LEMMA CheckpointsPop ==
  ASSUME NEW roots \in Seq(States), NEW blocks \in Seq(0..ForkBlock), Len(blocks) = Len(roots),
         NEW cps \in Seq(1..Len(roots)), cps # <<>>
  PROVE  CheckpointsOf(SubSeq(cps, 1, Len(cps) - 1), roots, blocks)
           = SubSeq(CheckpointsOf(cps, roots, blocks), 1,
                    Len(CheckpointsOf(cps, roots, blocks)) - 1)
<1> DEFINE old == CheckpointsOf(cps, roots, blocks)
           len == Len(cps) - 1
           popped == SubSeq(cps, 1, len)
           new == CheckpointsOf(popped, roots, blocks)
           front == SubSeq(old, 1, len)
<1>1. len \in Nat /\ len \in 0..Len(cps) /\ \A i \in 1..len : i \in 1..Len(cps)
  OBVIOUS
<1>2. /\ popped \in Seq(1..Len(roots)) /\ Len(popped) = len
      /\ \A i \in 1..len : popped[i] = cps[i]
  BY <1>1, PrefixFacts, ZenonT(30)
<1>3. /\ old \in Seq(World) /\ Len(old) = Len(cps)
      /\ \A i \in 1..Len(cps) : old[i] = View(roots[cps[i]], blocks[cps[i]])
  BY CheckpointsFacts
<1> HIDE DEF len, popped
<1>4. /\ new \in Seq(World) /\ Len(new) = len
      /\ \A i \in 1..len : new[i] = View(roots[popped[i]], blocks[popped[i]])
  BY <1>2, CheckpointsFacts
<1> HIDE DEF old, new
<1>5. front \in Seq(World) /\ Len(front) = len /\ \A i \in 1..len : front[i] = old[i]
  BY <1>1, <1>3, PrefixFacts
<1> HIDE DEF front
<1>6. \A i \in 1..len : new[i] = front[i]
  BY <1>1, <1>2, <1>3, <1>4, <1>5
<1>7. new = front
  BY <1>4, <1>5, <1>6, SameSequence
<1> QED
  BY <1>3, <1>7 DEF new, front, old, popped, len

(* A new root leaves the checkpoints alone. *)
LEMMA CheckpointsKept ==
  ASSUME NEW roots \in Seq(States), NEW blocks \in Seq(0..ForkBlock), Len(blocks) = Len(roots),
         NEW cps \in Seq(1..Len(roots)), NEW s \in States, NEW n \in 0..ForkBlock
  PROVE  CheckpointsOf(cps, Append(roots, s), Append(blocks, n))
           = CheckpointsOf(cps, roots, blocks)
<1>1. \A r \in 1..Len(roots) : /\ Append(roots, s)[r] = roots[r]
                               /\ Append(blocks, n)[r] = blocks[r]
  BY AppendFacts
<1>2. \A i \in DOMAIN cps : cps[i] \in 1..Len(roots)
  OBVIOUS
<1> QED
  BY <1>1, <1>2 DEF CheckpointsOf

(* Elements of a larger set *)
LEMMA SequenceInLarger ==
  ASSUME NEW m \in Nat, NEW n \in Nat, m <= n, NEW s \in Seq(1..m)
  PROVE  s \in Seq(1..n)
OBVIOUS

-----------------------------------------------------------------------------
(* The inductive invariant *)

(* The context block is the fork block except during a read of an older    *)
(* block, which begins and ends with no checkpoint; the current root, the  *)
(* checkpoints and the root that is restored after the read were made in   *)
(* the context in which they are used.                                     *)
ContextOK ==
  /\ suspended = 0 => contextBlock = ForkBlock
  /\ suspended # 0 => contextChanged /\ blockOf[suspended] = ForkBlock
  /\ blockOf[stateRoot] = contextBlock
  /\ \A i \in DOMAIN stateCheckpoints : blockOf[stateCheckpoints[i]] = contextBlock

IInv == ForkTypeOK /\ ContextOK

(* The invariant, in the terms of the lemmas above *)
LEMMA IInvFacts ==
  ASSUME IInv
  PROVE  /\ state \in States /\ stateRootToState \in Seq(States)
         /\ blockOf \in Seq(0..ForkBlock) /\ Len(blockOf) = Len(stateRootToState)
         /\ Len(stateRootToState) \in Nat
         /\ stateRoot \in 1..Len(stateRootToState)
         /\ DOMAIN stateRootToState = 1..Len(stateRootToState)
         /\ DOMAIN stateCheckpoints = 1..Len(stateCheckpoints)
         /\ Len(stateCheckpoints) \in Nat
         /\ stateCheckpoints \in Seq(1..Len(stateRootToState))
         /\ contextBlock \in 0..ForkBlock /\ ForkBlock \in 0..ForkBlock
BY RemoteAssumption DEF IInv, ForkTypeOK, States

(* What the refinement mapping is after a step *)
LEMMA MapIs ==
  /\ [r \in DOMAIN stateRootToState |-> View(stateRootToState[r], blockOf[r])]
       = WorldsOf(stateRootToState, blockOf)
  /\ [i \in DOMAIN stateCheckpoints |->
        View(stateRootToState[stateCheckpoints[i]], blockOf[stateCheckpoints[i]])]
       = CheckpointsOf(stateCheckpoints, stateRootToState, blockOf)
  /\ View(state, contextBlock)' = View(state', contextBlock')
  /\ [r \in DOMAIN stateRootToState |-> View(stateRootToState[r], blockOf[r])]'
       = WorldsOf(stateRootToState', blockOf')
  /\ [i \in DOMAIN stateCheckpoints |->
        View(stateRootToState[stateCheckpoints[i]], blockOf[stateCheckpoints[i]])]'
       = CheckpointsOf(stateCheckpoints', stateRootToState', blockOf')
BY DEF WorldsOf, CheckpointsOf, View, GetAccount

(* getStateRoot: the root stands for the current state, and the other      *)
(* roots stand for what they stood for.                                    *)
LEMMA NamedState ==
  ASSUME IInv, GetStateRoot
  PROVE  /\ stateRootToState' \in Seq(States) /\ blockOf' \in Seq(0..ForkBlock)
         /\ Len(blockOf') = Len(stateRootToState')
         /\ Len(stateRootToState') \in Nat
         /\ stateRoot' \in 1..Len(stateRootToState')
         /\ blockOf'[stateRoot'] = contextBlock /\ stateRootToState'[stateRoot'] = state
         /\ Len(stateRootToState) <= Len(stateRootToState')
         /\ \A r \in 1..Len(stateRootToState) : blockOf'[r] = blockOf[r]
         /\ \/ WorldsOf(stateRootToState', blockOf') = WorldsOf(stateRootToState, blockOf)
            \/ WorldsOf(stateRootToState', blockOf')
                 = Append(WorldsOf(stateRootToState, blockOf), View(state, contextBlock))
         /\ CheckpointsOf(stateCheckpoints, stateRootToState', blockOf')
              = CheckpointsOf(stateCheckpoints, stateRootToState, blockOf)
<1> USE IInvFacts
<1>1. CASE /\ stateRootToState' = Append(stateRootToState, state)
           /\ stateRoot' = Len(stateRootToState')
           /\ blockOf' = Append(blockOf, contextBlock)
  <2>1. /\ stateRootToState' \in Seq(States)
        /\ Len(stateRootToState') = Len(stateRootToState) + 1
        /\ stateRootToState'[Len(stateRootToState) + 1] = state
    BY <1>1, AppendFacts
  <2>2. /\ blockOf' \in Seq(0..ForkBlock)
        /\ Len(blockOf') = Len(stateRootToState) + 1
        /\ blockOf'[Len(stateRootToState) + 1] = contextBlock
        /\ \A r \in 1..Len(stateRootToState) : blockOf'[r] = blockOf[r]
    <3> DEFINE blocks == Append(blockOf, contextBlock)
    <3>1. /\ blocks \in Seq(0..ForkBlock) /\ Len(blocks) = Len(blockOf) + 1
          /\ \A r \in 1..Len(blockOf) : blocks[r] = blockOf[r]
          /\ blocks[Len(blockOf) + 1] = contextBlock
      BY AppendFacts
    <3> HIDE DEF blocks
    <3>2. blockOf' = blocks
      BY <1>1 DEF blocks
    <3> QED
      BY <3>1, <3>2
  <2>3. WorldsOf(stateRootToState', blockOf')
          = Append(WorldsOf(stateRootToState, blockOf), View(state, contextBlock))
    BY <1>1, WorldsAppend
  <2>4. CheckpointsOf(stateCheckpoints, stateRootToState', blockOf')
          = CheckpointsOf(stateCheckpoints, stateRootToState, blockOf)
    BY <1>1, CheckpointsKept
  <2> QED
    BY <1>1, <2>1, <2>2, <2>3, <2>4
<1>2. CASE /\ stateRootToState[stateRoot] = state
           /\ UNCHANGED <<stateRootToState, stateRoot, blockOf>>
  <2>1. blockOf'[stateRoot'] = contextBlock
    BY <1>2 DEF IInv, ContextOK
  <2>2. /\ WorldsOf(stateRootToState', blockOf') = WorldsOf(stateRootToState, blockOf)
        /\ CheckpointsOf(stateCheckpoints, stateRootToState', blockOf')
             = CheckpointsOf(stateCheckpoints, stateRootToState, blockOf)
    BY <1>2
  <2> QED
    BY <1>2, <2>1, <2>2
<1> QED
  BY <1>1, <1>2 DEF GetStateRoot

(* A write leaves the roots and the context alone. *)
LEMMA WriteKeeps ==
  ASSUME IInv, NEW c, Called(c), state' \in States
  PROVE  IInv'
BY DEF IInv, ForkTypeOK, ContextOK, Called, States

(* Every call that writes *)
LEMMA WriteSteps ==
  ASSUME IInv, ForkWrite
  PROVE  IInv' /\ EagerStateInstance!Write
<1>1. state \in States
  BY IInvFacts
<1>2. PICK a \in Accounts :
        \/ \E v \in Values : PutAccount(a, v) \/ PutContractCode(a, v)
        \/ \E k \in Slots, v \in Values : PutContractStorage(a, k, v)
        \/ ClearContractStorage(a)
        \/ DeleteAccount(a)
  BY DEF ForkWrite
<1>3. ASSUME NEW v \in Values, PutAccount(a, v) PROVE IInv' /\ EagerStateInstance!Write
  <2>1. \E c : Called(c)
    BY <1>3 DEF PutAccount
  <2> QED
    BY <1>1, <1>3, <2>1, PutAccountSteps, WriteKeeps
<1>4. ASSUME NEW v \in Values, PutContractCode(a, v) PROVE IInv' /\ EagerStateInstance!Write
  <2>1. \E c : Called(c)
    BY <1>4 DEF PutContractCode
  <2> QED
    BY <1>1, <1>4, <2>1, PutContractCodeSteps, WriteKeeps
<1>5. ASSUME NEW k \in Slots, NEW v \in Values, PutContractStorage(a, k, v)
      PROVE  IInv' /\ EagerStateInstance!Write
  <2>1. \E c : Called(c)
    BY <1>5 DEF PutContractStorage
  <2> QED
    BY <1>1, <1>5, <2>1, PutContractStorageSteps, WriteKeeps
<1>6. ASSUME ClearContractStorage(a) PROVE IInv' /\ EagerStateInstance!Write
  <2>1. \E c : Called(c)
    BY <1>6 DEF ClearContractStorage
  <2> QED
    BY <1>1, <1>6, <2>1, ClearContractStorageSteps, WriteKeeps
<1>7. ASSUME DeleteAccount(a) PROVE IInv' /\ EagerStateInstance!Write
  <2>1. \E c : Called(c)
    BY <1>7 DEF DeleteAccount
  <2> QED
    BY <1>1, <1>7, <2>1, DeleteAccountSteps, WriteKeeps
<1> QED
  BY <1>2, <1>3, <1>4, <1>5, <1>6, <1>7

-----------------------------------------------------------------------------
(* The steps that are not writes *)

(* getStateRoot *)
LEMMA GetRootStep ==
  ASSUME IInv, GetRoot
  PROVE  IInv' /\ EagerStateInstance!GetRoot
<1> DEFINE world == View(state, contextBlock)
           worlds == [r \in DOMAIN stateRootToState |-> View(stateRootToState[r], blockOf[r])]
           checkpoints ==
             [i \in DOMAIN stateCheckpoints |->
                View(stateRootToState[stateCheckpoints[i]], blockOf[stateCheckpoints[i]])]
<1> USE IInvFacts
<1>1. /\ GetStateRoot /\ NotWriting
      /\ state' = state /\ stateCheckpoints' = stateCheckpoints
      /\ contextBlock' = contextBlock /\ contextChanged' = contextChanged
      /\ suspended' = suspended
  BY DEF GetRoot
<1>2. /\ stateRootToState' \in Seq(States) /\ blockOf' \in Seq(0..ForkBlock)
      /\ Len(blockOf') = Len(stateRootToState')
      /\ Len(stateRootToState') \in Nat
      /\ stateRoot' \in 1..Len(stateRootToState')
      /\ blockOf'[stateRoot'] = contextBlock /\ stateRootToState'[stateRoot'] = state
      /\ Len(stateRootToState) <= Len(stateRootToState')
      /\ \A r \in 1..Len(stateRootToState) : blockOf'[r] = blockOf[r]
  BY <1>1, NamedState
<1>3. IInv'
  <2>1. ForkTypeOK'
    <3>1. stateCheckpoints \in Seq(1..Len(stateRootToState'))
      BY <1>2, SequenceInLarger
    <3>2. suspended \in 0..Len(stateRootToState')
      BY <1>2 DEF IInv, ForkTypeOK
    <3> QED
      BY <1>1, <1>2, <3>1, <3>2 DEF IInv, ForkTypeOK, States
  <2>2. ContextOK'
    <3>1. suspended # 0 => suspended \in 1..Len(stateRootToState)
      BY DEF IInv, ForkTypeOK
    <3>2. \A i \in DOMAIN stateCheckpoints : stateCheckpoints[i] \in 1..Len(stateRootToState)
      BY ElementIn
    <3> QED
      BY <1>1, <1>2, <3>1, <3>2 DEF IInv, ContextOK
  <2> QED
    BY <2>1, <2>2 DEF IInv
<1>4. worlds'[stateRoot'] = world /\ stateRoot' \in DOMAIN worlds'
  BY <1>2, WorldsFacts, MapIs
<1>5. worlds' = worlds \/ worlds' = Append(worlds, world)
  BY <1>1, NamedState, MapIs
<1>6. checkpoints' = checkpoints
  BY <1>1, NamedState, MapIs
<1>7. world' = world
  BY <1>1, MapIs
<1>8. EagerStateInstance!NoWrite
  BY <1>1 DEF NotWriting, EagerStateInstance!NoWrite
<1>9. EagerStateInstance!GetRoot
  BY <1>4, <1>5, <1>6, <1>7, <1>8 DEF EagerStateInstance!GetRoot, EagerStateInstance!Root
<1> QED
  BY <1>3, <1>9

(* checkpoint *)
LEMMA CheckpointStep ==
  ASSUME IInv, Checkpoint
  PROVE  IInv' /\ EagerStateInstance!Checkpoint
<1> DEFINE world == View(state, contextBlock)
           worlds == [r \in DOMAIN stateRootToState |-> View(stateRootToState[r], blockOf[r])]
           checkpoints ==
             [i \in DOMAIN stateCheckpoints |->
                View(stateRootToState[stateCheckpoints[i]], blockOf[stateCheckpoints[i]])]
<1> USE IInvFacts
<1>1. /\ GetStateRoot /\ NotWriting
      /\ state' = state /\ stateCheckpoints' = Append(stateCheckpoints, stateRoot')
      /\ contextBlock' = contextBlock /\ contextChanged' = contextChanged
      /\ suspended' = suspended
  BY DEF Checkpoint
<1>2. /\ stateRootToState' \in Seq(States) /\ blockOf' \in Seq(0..ForkBlock)
      /\ Len(blockOf') = Len(stateRootToState')
      /\ Len(stateRootToState') \in Nat
      /\ stateRoot' \in 1..Len(stateRootToState')
      /\ blockOf'[stateRoot'] = contextBlock /\ stateRootToState'[stateRoot'] = state
      /\ Len(stateRootToState) <= Len(stateRootToState')
      /\ \A r \in 1..Len(stateRootToState) : blockOf'[r] = blockOf[r]
  BY <1>1, NamedState
<1>3. stateCheckpoints \in Seq(1..Len(stateRootToState'))
  BY <1>2, SequenceInLarger
<1>4. /\ stateCheckpoints' \in Seq(1..Len(stateRootToState'))
      /\ DOMAIN stateCheckpoints' = 1..(Len(stateCheckpoints) + 1)
      /\ \A i \in 1..Len(stateCheckpoints) : stateCheckpoints'[i] = stateCheckpoints[i]
      /\ stateCheckpoints'[Len(stateCheckpoints) + 1] = stateRoot'
  BY <1>1, <1>2, <1>3, AppendFacts
<1>5. IInv'
  <2>1. ForkTypeOK'
    <3>1. suspended \in 0..Len(stateRootToState')
      BY <1>2 DEF IInv, ForkTypeOK
    <3> QED
      BY <1>1, <1>2, <1>4, <3>1 DEF IInv, ForkTypeOK, States
  <2>2. ContextOK'
    <3>1. suspended # 0 => suspended \in 1..Len(stateRootToState)
      BY DEF IInv, ForkTypeOK
    <3>2. ASSUME NEW i \in DOMAIN stateCheckpoints'
          PROVE  blockOf'[stateCheckpoints'[i]] = contextBlock
      <4>1. CASE i = Len(stateCheckpoints) + 1
        BY <1>2, <1>4, <4>1
      <4>2. CASE i # Len(stateCheckpoints) + 1
        <5>1. i \in 1..Len(stateCheckpoints)
          BY <1>4, <4>2
        <5>2. stateCheckpoints[i] \in 1..Len(stateRootToState)
          BY <5>1, ElementIn
        <5>3. blockOf[stateCheckpoints[i]] = contextBlock
          BY <5>1 DEF IInv, ContextOK
        <5> QED
          BY <1>2, <1>4, <5>1, <5>2, <5>3
      <4> QED
        BY <4>1, <4>2
    <3> QED
      BY <1>1, <1>2, <3>1, <3>2 DEF IInv, ContextOK
  <2> QED
    BY <2>1, <2>2 DEF IInv
<1>6. worlds'[stateRoot'] = world /\ stateRoot' \in DOMAIN worlds'
  BY <1>2, WorldsFacts, MapIs
<1>7. worlds' = worlds \/ worlds' = Append(worlds, world)
  BY <1>1, NamedState, MapIs
<1>8. checkpoints' = Append(checkpoints, world)
  <2>1. CheckpointsOf(Append(stateCheckpoints, stateRoot'), stateRootToState', blockOf')
          = Append(CheckpointsOf(stateCheckpoints, stateRootToState', blockOf'),
                   View(stateRootToState'[stateRoot'], blockOf'[stateRoot']))
    BY <1>2, <1>3, CheckpointsAppend
  <2>2. CheckpointsOf(stateCheckpoints, stateRootToState', blockOf')
          = CheckpointsOf(stateCheckpoints, stateRootToState, blockOf)
    BY <1>1, NamedState
  <2> QED
    BY <1>1, <1>2, <2>1, <2>2, MapIs
<1>9. world' = world /\ EagerStateInstance!NoWrite
  BY <1>1, MapIs DEF NotWriting, EagerStateInstance!NoWrite
<1>10. EagerStateInstance!Checkpoint
  BY <1>6, <1>7, <1>8, <1>9 DEF EagerStateInstance!Checkpoint, EagerStateInstance!Root
<1> QED
  BY <1>5, <1>10

(* The checkpoints without the last one *)
LEMMA PoppedFacts ==
  ASSUME IInv, stateCheckpoints # <<>>
  PROVE  /\ PoppedCheckpoints \in Seq(1..Len(stateRootToState))
         /\ \A i \in DOMAIN PoppedCheckpoints :
              i \in DOMAIN stateCheckpoints /\ PoppedCheckpoints[i] = stateCheckpoints[i]
         /\ Len(stateCheckpoints) \in DOMAIN stateCheckpoints
         /\ CheckpointsOf(PoppedCheckpoints, stateRootToState, blockOf)
              = SubSeq(CheckpointsOf(stateCheckpoints, stateRootToState, blockOf), 1,
                  Len(CheckpointsOf(stateCheckpoints, stateRootToState, blockOf)) - 1)
         /\ CheckpointsOf(stateCheckpoints, stateRootToState, blockOf) # <<>>
<1> USE IInvFacts
<1>1. Len(stateCheckpoints) \in Nat \ {0}
  BY EmptySeq
<1>2. Len(stateCheckpoints) - 1 \in 0..Len(stateCheckpoints)
  BY <1>1
<1>3. /\ PoppedCheckpoints \in Seq(1..Len(stateRootToState))
      /\ DOMAIN PoppedCheckpoints = 1..(Len(stateCheckpoints) - 1)
      /\ \A i \in 1..(Len(stateCheckpoints) - 1) : PoppedCheckpoints[i] = stateCheckpoints[i]
  BY <1>2, PrefixFacts, SMTT(30) DEF PoppedCheckpoints
<1>4. CheckpointsOf(PoppedCheckpoints, stateRootToState, blockOf)
        = SubSeq(CheckpointsOf(stateCheckpoints, stateRootToState, blockOf), 1,
            Len(CheckpointsOf(stateCheckpoints, stateRootToState, blockOf)) - 1)
  BY CheckpointsPop DEF PoppedCheckpoints
<1>5. CheckpointsOf(stateCheckpoints, stateRootToState, blockOf) # <<>>
  <2>1. /\ CheckpointsOf(stateCheckpoints, stateRootToState, blockOf) \in Seq(World)
        /\ Len(CheckpointsOf(stateCheckpoints, stateRootToState, blockOf))
             = Len(stateCheckpoints)
    BY CheckpointsFacts
  <2> QED
    BY <1>1, <2>1
<1>6. Len(stateCheckpoints) \in DOMAIN stateCheckpoints
  BY <1>1
<1>7. \A i \in 1..(Len(stateCheckpoints) - 1) : i \in DOMAIN stateCheckpoints
  BY <1>1
<1> HIDE IInvFacts
<1> QED
  BY <1>3, <1>4, <1>5, <1>6, <1>7

(* commit *)
LEMMA CommitStep ==
  ASSUME IInv, Commit
  PROVE  IInv' /\ EagerStateInstance!Commit
<1> DEFINE world == View(state, contextBlock)
           worlds == [r \in DOMAIN stateRootToState |-> View(stateRootToState[r], blockOf[r])]
           checkpoints ==
             [i \in DOMAIN stateCheckpoints |->
                View(stateRootToState[stateCheckpoints[i]], blockOf[stateCheckpoints[i]])]
<1> USE IInvFacts
<1>1. /\ NotWriting /\ stateCheckpoints # <<>> /\ stateCheckpoints' = PoppedCheckpoints
      /\ state' = state /\ stateRoot' = stateRoot /\ stateRootToState' = stateRootToState
      /\ contextBlock' = contextBlock /\ contextChanged' = contextChanged
      /\ suspended' = suspended /\ blockOf' = blockOf
  BY DEF Commit
<1>2. IInv'
  BY <1>1, PoppedFacts DEF IInv, ForkTypeOK, ContextOK
<1>3. /\ checkpoints # <<>>
      /\ checkpoints' = SubSeq(checkpoints, 1, Len(checkpoints) - 1)
  BY <1>1, PoppedFacts, MapIs
<1>4. world' = world /\ worlds' = worlds /\ EagerStateInstance!NoWrite
  BY <1>1, MapIs DEF NotWriting, EagerStateInstance!NoWrite
<1>5. EagerStateInstance!Commit
  BY <1>1, <1>3, <1>4 DEF EagerStateInstance!Commit
<1> QED
  BY <1>2, <1>5

(* Going to a root that was made in the context block that holds then *)
LEMMA AtRoot ==
  ASSUME IInv, NEW r \in 1..Len(stateRootToState), NEW n, blockOf[r] = n, GoToRoot(r)
  PROVE  /\ stateRoot' = r /\ state' = stateRootToState[r] /\ state' \in States
         /\ n \in 0..ForkBlock
         /\ View(state', n) = WorldsOf(stateRootToState, blockOf)[r]
         /\ DOMAIN WorldsOf(stateRootToState, blockOf) = 1..Len(stateRootToState)
<1> USE IInvFacts
<1>1. stateRoot' = r /\ state' = stateRootToState[r]
  BY DEF GoToRoot
<1>2. stateRootToState[r] \in States /\ blockOf[r] \in 0..ForkBlock
  BY ElementIn
<1>3. /\ WorldsOf(stateRootToState, blockOf)[r] = View(stateRootToState[r], blockOf[r])
      /\ DOMAIN WorldsOf(stateRootToState, blockOf) = 1..Len(stateRootToState)
  BY WorldsFacts
<1> QED
  BY <1>1, <1>2, <1>3

(* revert *)
LEMMA RevertStep ==
  ASSUME IInv, Revert
  PROVE  IInv' /\ EagerStateInstance!Revert
<1> DEFINE world == View(state, contextBlock)
           worlds == [r \in DOMAIN stateRootToState |-> View(stateRootToState[r], blockOf[r])]
           checkpoints ==
             [i \in DOMAIN stateCheckpoints |->
                View(stateRootToState[stateCheckpoints[i]], blockOf[stateCheckpoints[i]])]
<1> USE IInvFacts
<1> DEFINE last == stateCheckpoints[Len(stateCheckpoints)]
<1>1. /\ NotWriting /\ stateCheckpoints # <<>> /\ stateCheckpoints' = PoppedCheckpoints
      /\ GoToRoot(last) /\ stateRootToState' = stateRootToState
      /\ contextBlock' = contextBlock /\ contextChanged' = contextChanged
      /\ suspended' = suspended /\ blockOf' = blockOf
  BY DEF Revert
<1>2. last \in 1..Len(stateRootToState) /\ blockOf[last] = contextBlock
  <2>1. Len(stateCheckpoints) \in DOMAIN stateCheckpoints
    BY <1>1, PoppedFacts
  <2> QED
    BY <2>1, ElementIn DEF IInv, ContextOK
<1>3. /\ stateRoot' = last /\ state' = stateRootToState[last] /\ state' \in States
      /\ View(state', contextBlock) = WorldsOf(stateRootToState, blockOf)[last]
      /\ DOMAIN WorldsOf(stateRootToState, blockOf) = 1..Len(stateRootToState)
  BY <1>1, <1>2, AtRoot
<1>4. IInv'
  BY <1>1, <1>2, <1>3, PoppedFacts DEF IInv, ForkTypeOK, ContextOK, States
<1>5. /\ checkpoints # <<>>
      /\ checkpoints' = SubSeq(checkpoints, 1, Len(checkpoints) - 1)
  BY <1>1, PoppedFacts, MapIs
<1>6. checkpoints[Len(checkpoints)] = View(stateRootToState[last], contextBlock)
  <2>1. /\ Len(CheckpointsOf(stateCheckpoints, stateRootToState, blockOf))
             = Len(stateCheckpoints)
        /\ \A i \in 1..Len(stateCheckpoints) :
             CheckpointsOf(stateCheckpoints, stateRootToState, blockOf)[i]
               = View(stateRootToState[stateCheckpoints[i]], blockOf[stateCheckpoints[i]])
    BY CheckpointsFacts
  <2>2. Len(stateCheckpoints) \in 1..Len(stateCheckpoints)
    BY <1>1, PoppedFacts
  <2>3. CheckpointsOf(stateCheckpoints, stateRootToState, blockOf)[Len(stateCheckpoints)]
          = View(stateRootToState[last], contextBlock)
    BY <1>2, <2>1, <2>2
  <2> QED
    BY <2>1, <2>3, MapIs
<1>7. world' = View(stateRootToState[last], contextBlock)
  BY <1>1, <1>3, MapIs
<1>8. worlds' = worlds /\ EagerStateInstance!NoWrite
  BY <1>1, MapIs DEF NotWriting, EagerStateInstance!NoWrite
<1>9. stateRoot' \in DOMAIN worlds /\ worlds[stateRoot'] = world'
  BY <1>2, <1>3, <1>7, MapIs
<1>10. world' = checkpoints[Len(checkpoints)]
  BY <1>6, <1>7
<1>11. EagerStateInstance!Revert
  BY <1>5, <1>8, <1>9, <1>10 DEF EagerStateInstance!Revert
<1> QED
  BY <1>4, <1>11

(* setStateRoot *)
LEMMA SetStateRootStep ==
  ASSUME IInv, NEW q \in DOMAIN stateRootToState, SetStateRoot(q)
  PROVE  IInv' /\ EagerStateInstance!SetRoot
<1> DEFINE world == View(state, contextBlock)
           worlds == [r \in DOMAIN stateRootToState |-> View(stateRootToState[r], blockOf[r])]
           checkpoints ==
             [i \in DOMAIN stateCheckpoints |->
                View(stateRootToState[stateCheckpoints[i]], blockOf[stateCheckpoints[i]])]
<1> USE IInvFacts
<1>1. /\ NotWriting /\ blockOf[q] = contextBlock /\ GoToRoot(q)
      /\ stateRootToState' = stateRootToState /\ stateCheckpoints' = stateCheckpoints
      /\ contextBlock' = contextBlock /\ contextChanged' = contextChanged
      /\ suspended' = suspended /\ blockOf' = blockOf
  BY DEF SetStateRoot
<1>2. q \in 1..Len(stateRootToState)
  OBVIOUS
<1>3. /\ stateRoot' = q /\ state' \in States
      /\ View(state', contextBlock) = WorldsOf(stateRootToState, blockOf)[q]
      /\ DOMAIN WorldsOf(stateRootToState, blockOf) = 1..Len(stateRootToState)
  BY <1>1, <1>2, AtRoot
<1>4. IInv'
  BY <1>1, <1>3 DEF IInv, ForkTypeOK, ContextOK, States
<1>5. stateRoot' \in DOMAIN worlds /\ world' = worlds[stateRoot']
  BY <1>1, <1>2, <1>3, MapIs
<1>6. worlds' = worlds /\ checkpoints' = checkpoints /\ EagerStateInstance!NoWrite
  BY <1>1, MapIs DEF NotWriting, EagerStateInstance!NoWrite
<1>7. EagerStateInstance!SetRoot
  BY <1>5, <1>6 DEF EagerStateInstance!SetRoot
<1> QED
  BY <1>4, <1>7

(* setBlockContext of a block before the fork *)
LEMMA SetBlockContextStep ==
  ASSUME IInv, NEW n \in 0..(ForkBlock - 1), SetBlockContext(n)
  PROVE  IInv' /\ EagerStateInstance!EnterBlock
<1> DEFINE world == View(state, contextBlock)
           worlds == [r \in DOMAIN stateRootToState |-> View(stateRootToState[r], blockOf[r])]
           checkpoints ==
             [i \in DOMAIN stateCheckpoints |->
                View(stateRootToState[stateCheckpoints[i]], blockOf[stateCheckpoints[i]])]
<1> USE IInvFacts
<1>1. /\ NotWriting /\ stateCheckpoints = <<>> /\ suspended = 0
      /\ suspended' = stateRoot /\ contextChanged' = TRUE
      /\ state' = [a \in Accounts |-> MakeAccountState]
      /\ stateRootToState' = Append(stateRootToState, state')
      /\ stateRoot' = Len(stateRootToState')
      /\ contextBlock' = n /\ blockOf' = Append(blockOf, n)
      /\ stateCheckpoints' = stateCheckpoints
  BY DEF SetBlockContext
<1>2. n \in 0..ForkBlock
  BY RemoteAssumption
<1>3. state' \in States /\ View(state', n) = Remote[n]
  BY <1>1, <1>2, FreshViewIsRemote
<1>4. /\ stateRootToState' \in Seq(States)
      /\ Len(stateRootToState') = Len(stateRootToState) + 1
  BY <1>1, <1>3, AppendFacts
<1>5. /\ blockOf' \in Seq(0..ForkBlock)
      /\ Len(blockOf') = Len(stateRootToState) + 1
      /\ blockOf'[Len(stateRootToState) + 1] = n
      /\ \A r \in 1..Len(stateRootToState) : blockOf'[r] = blockOf[r]
  <2> DEFINE blocks == Append(blockOf, n)
  <2>1. /\ blocks \in Seq(0..ForkBlock) /\ Len(blocks) = Len(blockOf) + 1
        /\ \A r \in 1..Len(blockOf) : blocks[r] = blockOf[r]
        /\ blocks[Len(blockOf) + 1] = n
    BY <1>2, AppendFacts
  <2> HIDE DEF blocks
  <2>2. blockOf' = blocks
    BY <1>1 DEF blocks
  <2> QED
    BY <2>1, <2>2
<1>6. IInv'
  <2>1. blockOf[stateRoot] = ForkBlock
    BY <1>1 DEF IInv, ContextOK
  <2>2. ContextOK'
    BY <1>1, <1>4, <1>5, <2>1 DEF ContextOK
  <2>3. ForkTypeOK'
    BY <1>1, <1>2, <1>3, <1>4, <1>5 DEF ForkTypeOK, States
  <2> QED
    BY <2>2, <2>3 DEF IInv
<1>7. world' = Remote[n]
  BY <1>1, <1>3, MapIs
<1>8. worlds' = Append(worlds, world')
  <2>1. WorldsOf(Append(stateRootToState, state'), Append(blockOf, n))
          = Append(WorldsOf(stateRootToState, blockOf), View(state', n))
    BY <1>2, <1>3, WorldsAppend
  <2> QED
    BY <1>1, <2>1, MapIs
<1>9. stateRoot' = Len(worlds')
  BY <1>1, <1>4, <1>5, WorldsFacts, MapIs
<1>10. checkpoints = <<>> /\ checkpoints' = checkpoints
  BY <1>1
<1>11. EagerStateInstance!NoWrite
  BY <1>1 DEF NotWriting, EagerStateInstance!NoWrite
<1>12. EagerStateInstance!EnterBlock
  BY <1>7, <1>8, <1>9, <1>10, <1>11 DEF EagerStateInstance!EnterBlock
<1> QED
  BY <1>6, <1>12

(* restoreForkBlockContext *)
LEMMA RestoreStep ==
  ASSUME IInv, RestoreForkBlockContext
  PROVE  IInv' /\ EagerStateInstance!SetRoot
<1> DEFINE world == View(state, contextBlock)
           worlds == [r \in DOMAIN stateRootToState |-> View(stateRootToState[r], blockOf[r])]
           checkpoints ==
             [i \in DOMAIN stateCheckpoints |->
                View(stateRootToState[stateCheckpoints[i]], blockOf[stateCheckpoints[i]])]
<1> USE IInvFacts
<1>1. /\ NotWriting /\ stateCheckpoints = <<>> /\ suspended # 0 /\ GoToRoot(suspended)
      /\ stateRootToState' = stateRootToState /\ stateCheckpoints' = stateCheckpoints
      /\ contextBlock' = RestoredContextBlock /\ contextChanged' = FALSE
      /\ suspended' = 0 /\ blockOf' = blockOf
  BY DEF RestoreForkBlockContext
<1>2. suspended \in 1..Len(stateRootToState)
  BY <1>1 DEF IInv, ForkTypeOK
<1>3. contextBlock' = ForkBlock /\ blockOf[suspended] = ForkBlock
  BY <1>1 DEF IInv, ContextOK, RestoredContextBlock
<1>4. /\ stateRoot' = suspended /\ state' \in States
      /\ View(state', ForkBlock) = WorldsOf(stateRootToState, blockOf)[suspended]
      /\ DOMAIN WorldsOf(stateRootToState, blockOf) = 1..Len(stateRootToState)
  BY <1>1, <1>2, <1>3, AtRoot
<1>5. IInv'
  <2>1. ContextOK'
    BY <1>1, <1>3, <1>4 DEF ContextOK
  <2>2. ForkTypeOK'
    <3>1. contextChanged' \in BOOLEAN
      BY <1>1
    <3>2. contextBlock' \in 0..ForkBlock
      BY <1>3
    <3>3. /\ stateRootToState' = stateRootToState /\ stateCheckpoints' = stateCheckpoints
          /\ suspended' = 0 /\ blockOf' = blockOf
      BY <1>1
    <3> QED
      BY <1>2, <1>4, <3>1, <3>2, <3>3 DEF IInv, ForkTypeOK, States
  <2> QED
    BY <2>1, <2>2 DEF IInv
<1>6. stateRoot' \in DOMAIN worlds /\ world' = worlds[stateRoot']
  BY <1>2, <1>3, <1>4, MapIs
<1>7. worlds' = worlds /\ checkpoints' = checkpoints /\ EagerStateInstance!NoWrite
  BY <1>1, MapIs DEF NotWriting, EagerStateInstance!NoWrite
<1>8. EagerStateInstance!SetRoot
  BY <1>6, <1>7 DEF EagerStateInstance!SetRoot
<1> QED
  BY <1>5, <1>8

-----------------------------------------------------------------------------
(* The theorems *)

(* The new network *)
LEMMA InitHolds ==
  ASSUME ForkInit
  PROVE  IInv /\ EagerStateInstance!EagerInit
<1>1. /\ state = [a \in Accounts |-> MakeAccountState] /\ stateRootToState = <<state>>
      /\ stateRoot = 1 /\ stateCheckpoints = <<>> /\ contextBlock = ForkBlock
      /\ contextChanged = FALSE /\ suspended = 0 /\ blockOf = <<ForkBlock>>
      /\ call = [op |-> "none"]
  BY DEF ForkInit
<1>2. ForkBlock \in 0..ForkBlock
  BY RemoteAssumption
<1>3. state \in States /\ View(state, ForkBlock) = Remote[ForkBlock]
  BY <1>1, <1>2, FreshViewIsRemote
<1>4. /\ stateRootToState \in Seq(States) /\ Len(stateRootToState) = 1
      /\ DOMAIN stateRootToState = {1} /\ stateRootToState[1] = state
      /\ blockOf \in Seq(0..ForkBlock) /\ Len(blockOf) = 1 /\ blockOf[1] = ForkBlock
  BY <1>1, <1>2, <1>3
<1>5. IInv
  <2>1. ContextOK
    BY <1>1, <1>4 DEF ContextOK
  <2>2. contextChanged \in BOOLEAN
    BY <1>1
  <2>3. stateCheckpoints \in Seq(DOMAIN stateRootToState)
    BY <1>1, EmptySeq
  <2>4. ForkTypeOK
    BY <1>1, <1>2, <1>3, <1>4, <2>2, <2>3 DEF ForkTypeOK, States
  <2> QED
    BY <2>1, <2>4 DEF IInv
<1>6. [r \in DOMAIN stateRootToState |-> View(stateRootToState[r], blockOf[r])]
        = <<View(state, contextBlock)>>
  BY <1>1, <1>4
<1>7. EagerStateInstance!EagerInit
  BY <1>1, <1>3, <1>6 DEF EagerStateInstance!EagerInit
<1> QED
  BY <1>5, <1>7

(* Every step keeps the invariant and is a step of the eager state, or     *)
(* changes nothing of it.                                                  *)
LEMMA NextHolds ==
  ASSUME IInv, [ForkNext]_forkVars
  PROVE  IInv' /\ [EagerStateInstance!EagerNext]_(EagerStateInstance!eagerVars)
<1> USE DEF EagerStateInstance!EagerNext
<1>1. CASE ForkWrite
  BY <1>1, WriteSteps
<1>2. CASE GetRoot
  BY <1>2, GetRootStep
<1>3. CASE Checkpoint
  BY <1>3, CheckpointStep
<1>4. CASE Commit
  BY <1>4, CommitStep
<1>5. CASE Revert
  BY <1>5, RevertStep
<1>6. ASSUME NEW r \in DOMAIN stateRootToState, SetStateRoot(r)
      PROVE  IInv' /\ EagerStateInstance!EagerNext
  BY <1>6, SetStateRootStep
<1>7. ASSUME NEW n \in 0..(ForkBlock - 1), SetBlockContext(n)
      PROVE  IInv' /\ EagerStateInstance!EagerNext
  BY <1>7, SetBlockContextStep
<1>8. CASE RestoreForkBlockContext
  BY <1>8, RestoreStep
<1>9. CASE UNCHANGED forkVars
  <2>1. IInv'
    BY <1>9 DEF forkVars, IInv, ForkTypeOK, ContextOK
  <2>2. UNCHANGED EagerStateInstance!eagerVars
    BY <1>9, MapIs DEF forkVars, EagerStateInstance!eagerVars
  <2> QED
    BY <2>1, <2>2
<1> QED
  BY <1>1, <1>2, <1>3, <1>4, <1>5, <1>6, <1>7, <1>8, <1>9 DEF ForkNext

(* The context block, the roots and the checkpoints agree in every state   *)
(* of the state manager, whatever is written, reverted and read.           *)
THEOREM Invariance == ForkSpec => []IInv
<1>1. ForkInit => IInv
  BY InitHolds
<1>2. IInv /\ [ForkNext]_forkVars => IInv'
  BY NextHolds
<1> QED
  BY <1>1, <1>2, PTL DEF ForkSpec

(* ForkStateManager keeps its state in the shape that its types say, and   *)
(* every root and checkpoint that it holds names a state it kept.          *)
THEOREM TypeCorrect == ForkSpec => []ForkTypeOK
<1>1. IInv => ForkTypeOK
  BY DEF IInv
<1> QED
  BY <1>1, Invariance, PTL

(* The state of a forked network implements the eager state: it reads, in  *)
(* every state it can reach, as if the whole remote state had been copied  *)
(* at the fork, through getAccount and getContractStorage after any calls  *)
(* of putAccount, putContractCode, putContractStorage,                     *)
(* clearContractStorage, deleteAccount, checkpoint, commit, revert,        *)
(* setStateRoot, setBlockContext and restoreForkBlockContext.              *)
THEOREM ForkImplementsEagerState == ForkSpec => ImplementsEagerState
<1>1. ForkInit => EagerStateInstance!EagerInit
  BY InitHolds
<1>2. IInv /\ [ForkNext]_forkVars =>
        [EagerStateInstance!EagerNext]_(EagerStateInstance!eagerVars)
  BY NextHolds
<1>3. ForkSpec => EagerStateInstance!EagerSpec
  BY <1>1, <1>2, Invariance, PTL DEF ForkSpec, EagerStateInstance!EagerSpec
<1> QED
  BY <1>3 DEF ImplementsEagerState

-----------------------------------------------------------------------------
(* The chain of a forked network: what is cached is final *)

Salts == RemoteSalts \cup LocalSalts

(* A chain of at least one block, with the salts of S *)
ChainsOf(S) == {c \in Seq(S) : Len(c) >= 1}

(* The block with number n of a chain *)
LEMMA BlockAtFacts ==
  ASSUME NEW S, NEW c \in ChainsOf(S), NEW n \in 0..Number(c)
  PROVE  /\ BlockAt(c, n) \in ChainsOf(S)
         /\ Number(BlockAt(c, n)) = n
         /\ HasTransaction(BlockAt(c, n)) <=> c[n + 1] \in {"t", "lt"}
<1>1. c \in Seq(S) /\ Len(c) \in Nat /\ n + 1 \in 0..Len(c) /\ n \in Nat
  BY LenProperties DEF ChainsOf, Number
<1>2. /\ BlockAt(c, n) \in Seq(S)
      /\ Len(BlockAt(c, n)) = n + 1
      /\ BlockAt(c, n)[n + 1] = c[n + 1]
  <2>1. n + 1 \in 1..(n + 1)
    BY <1>1
  <2> QED
    BY <1>1, <2>1, PrefixFacts DEF BlockAt
<1> QED
  BY <1>1, <1>2 DEF ChainsOf, Number, HasTransaction

(* The blocks of a chain, by number *)
LEMMA BlocksOfFacts ==
  ASSUME NEW S, NEW c \in ChainsOf(S), NEW b
  PROVE  b \in BlocksOf(c) <=> \E n \in 0..Number(c) : b = BlockAt(c, n) /\ Number(b) = n
BY BlockAtFacts DEF BlocksOf

(* c and d are the same up to block n. *)
AgreeTo(c, d, n) ==
  /\ n <= Number(c) /\ n <= Number(d)
  /\ \A i \in 1..(n + 1) : c[i] = d[i]

(* Chains that agree up to block n have the same blocks up to it. *)
LEMMA AgreeBlocks ==
  ASSUME NEW S, NEW c \in ChainsOf(S), NEW d \in ChainsOf(S), NEW n \in Int,
         AgreeTo(c, d, n)
  PROVE  \A b : Number(b) \in Int /\ Number(b) <= n => (b \in BlocksOf(c) <=> b \in BlocksOf(d))
<1>1. /\ c \in Seq(S) /\ d \in Seq(S)
      /\ Len(c) \in Nat /\ Len(d) \in Nat
      /\ Number(c) = Len(c) - 1 /\ Number(d) = Len(d) - 1
  BY LenProperties DEF ChainsOf, Number
<1>2. \A m \in 0..n : /\ m \in 0..Number(c) /\ m \in 0..Number(d)
                      /\ BlockAt(c, m) = BlockAt(d, m)
  <2> SUFFICES ASSUME NEW m \in 0..n
               PROVE  /\ m \in 0..Number(c) /\ m \in 0..Number(d)
                      /\ BlockAt(c, m) = BlockAt(d, m)
    OBVIOUS
  <2>1. m \in 0..Number(c) /\ m \in 0..Number(d) /\ m + 1 \in 0..Len(c) /\ m + 1 \in 0..Len(d)
    BY <1>1 DEF AgreeTo
  <2>2. /\ BlockAt(c, m) \in Seq(S) /\ Len(BlockAt(c, m)) = m + 1
        /\ \A i \in 1..(m + 1) : BlockAt(c, m)[i] = c[i]
    BY <1>1, <2>1, PrefixFacts DEF BlockAt
  <2>3. /\ BlockAt(d, m) \in Seq(S) /\ Len(BlockAt(d, m)) = m + 1
        /\ \A i \in 1..(m + 1) : BlockAt(d, m)[i] = d[i]
    BY <1>1, <2>1, PrefixFacts DEF BlockAt
  <2>4. \A i \in 1..(m + 1) : BlockAt(c, m)[i] = BlockAt(d, m)[i]
    BY <2>2, <2>3, <1>1, SMTT(30) DEF AgreeTo
  <2> HIDE DEF BlockAt
  <2>5. BlockAt(c, m) = BlockAt(d, m)
    BY <2>2, <2>3, <2>4, SameSequence
  <2> QED
    BY <2>1, <2>5
<1> SUFFICES ASSUME NEW b, Number(b) \in Int, Number(b) <= n
             PROVE  b \in BlocksOf(c) <=> b \in BlocksOf(d)
  OBVIOUS
<1>3. b \in BlocksOf(c) <=> \E m \in 0..Number(c) : b = BlockAt(c, m) /\ Number(b) = m
  BY BlocksOfFacts
<1>4. b \in BlocksOf(d) <=> \E m \in 0..Number(d) : b = BlockAt(d, m) /\ Number(b) = m
  BY BlocksOfFacts
<1> HIDE DEF BlocksOf, BlockAt, Number
<1> QED
  BY <1>1, <1>2, <1>3, <1>4

(* The requests of a client, and what it keeps of their answers *)
Questions == {"number", "hash", "transaction", "receipt", "logs", "state", "fees"}

AllKeys ==
  {k \in [q : Questions, n : Nat, m : Nat, h : Seq(Salts)] :
     k.q \in {"state", "fees"} => k.n = k.m}

Entries == [key : AllKeys, answer : SUBSET Seq(Salts)]

Client ==
  [running : BOOLEAN, latest : Nat, fork : Nat, toDisk : BOOLEAN, cache : SUBSET Entries]

(* The answer a to the request k is about blocks up to block m only. *)
AboutUpTo(k, a, m) ==
  /\ MaxAffectedBlockNumber(k, a) # {}
  /\ \A n \in MaxAffectedBlockNumber(k, a) : n <= m

(* Where the transaction is in c up to block m, and only there, it is so   *)
(* in d: it is not included twice.                                         *)
TransactionKept(c, d, m) ==
  (/\ \E b \in BlocksOf(c) : HasTransaction(b)
   /\ \A b \in BlocksOf(c) : HasTransaction(b) => Number(b) <= m)
  => \A b \in BlocksOf(d) : HasTransaction(b) => Number(b) <= m

(* An answer about blocks that do not change does not change. *)
LEMMA AnswerKept ==
  ASSUME remote \in ChainsOf(RemoteSalts), remote' \in ChainsOf(RemoteSalts),
         NEW m \in Int, AgreeTo(remote, remote', m), TransactionKept(remote, remote', m),
         NEW k \in AllKeys, NEW a, a = RemoteAnswer(k), AboutUpTo(k, a, m)
  PROVE  RemoteAnswer(k)' = a
<1>1. \A b : Number(b) \in Int /\ Number(b) <= m =>
        (b \in BlocksOf(remote) <=> b \in BlocksOf(remote'))
  BY AgreeBlocks
<1>2. /\ \A b \in BlocksOf(remote) : Number(b) \in Int
      /\ \A b \in BlocksOf(remote') : Number(b) \in Int
  BY BlocksOfFacts
<1>3. k.q \in Questions /\ k.n \in Nat /\ k.m \in Nat
  BY DEF AllKeys
<1>4. CASE k.q \in {"state", "fees"}
  <2>1. a = {b \in BlocksOf(remote) : Number(b) = k.n}
    BY <1>4 DEF RemoteAnswer
  <2>2. RemoteAnswer(k)' = {b \in BlocksOf(remote') : Number(b) = k.n}
    BY <1>4 DEF RemoteAnswer
  <2>3. k.n <= m
    BY <1>3, <1>4 DEF AboutUpTo, MaxAffectedBlockNumber, AllKeys
  <2> QED
    BY <1>1, <1>2, <1>3, <2>1, <2>2, <2>3
<1>5. CASE k.q = "number"
  <2>1. a = {b \in BlocksOf(remote) : Number(b) = k.n}
    BY <1>5 DEF RemoteAnswer
  <2>2. RemoteAnswer(k)' = {b \in BlocksOf(remote') : Number(b) = k.n}
    BY <1>5 DEF RemoteAnswer
  <2>3. MaxAffectedBlockNumber(k, a) = {Number(b) : b \in a}
    BY <1>5 DEF MaxAffectedBlockNumber
  <2>4. k.n <= m
    BY <2>1, <2>3 DEF AboutUpTo
  <2> QED
    BY <1>1, <1>2, <1>3, <2>1, <2>2, <2>4
<1>6. CASE k.q = "hash"
  <2>1. a = {b \in BlocksOf(remote) : b = k.h}
    BY <1>6 DEF RemoteAnswer
  <2>2. RemoteAnswer(k)' = {b \in BlocksOf(remote') : b = k.h}
    BY <1>6 DEF RemoteAnswer
  <2>3. MaxAffectedBlockNumber(k, a) = {Number(b) : b \in a}
    BY <1>6 DEF MaxAffectedBlockNumber
  <2>4. k.h \in BlocksOf(remote) /\ Number(k.h) <= m
    BY <2>1, <2>3 DEF AboutUpTo
  <2> QED
    BY <1>1, <1>2, <2>1, <2>2, <2>4
<1>7. CASE k.q \in {"transaction", "receipt"}
  <2>1. a = {b \in BlocksOf(remote) : HasTransaction(b)}
    BY <1>7 DEF RemoteAnswer
  <2>2. RemoteAnswer(k)' = {b \in BlocksOf(remote') : HasTransaction(b)}
    BY <1>7 DEF RemoteAnswer
  <2>3. MaxAffectedBlockNumber(k, a) = {Number(b) : b \in a}
    BY <1>7 DEF MaxAffectedBlockNumber
  <2>4. a # {} /\ \A b \in a : Number(b) <= m
    BY <2>3 DEF AboutUpTo
  <2>5. \A b \in BlocksOf(remote') : HasTransaction(b) => Number(b) <= m
    BY <2>1, <2>4 DEF TransactionKept
  <2> QED
    BY <1>1, <1>2, <2>1, <2>2, <2>4, <2>5
<1>8. CASE k.q = "logs"
  <2>1. a = {b \in BlocksOf(remote) : Number(b) \in k.n..k.m /\ HasTransaction(b)}
    BY <1>8 DEF RemoteAnswer
  <2>2. RemoteAnswer(k)' = {b \in BlocksOf(remote') : Number(b) \in k.n..k.m /\ HasTransaction(b)}
    BY <1>8 DEF RemoteAnswer
  <2>3. k.m <= m
    BY <1>8 DEF AboutUpTo, MaxAffectedBlockNumber
  <2> QED
    BY <1>1, <1>2, <1>3, <2>1, <2>2, <2>3
<1> QED
  BY <1>3, <1>4, <1>5, <1>6, <1>7, <1>8 DEF Questions

IsTransaction(salt) == salt \in {"t", "lt"}

(* The transaction is in one block at most. *)
TransactionOnce(c) ==
  \A i, j \in 1..Len(c) : IsTransaction(c[i]) /\ IsTransaction(c[j]) => i = j

(* The blocks of a chain have the numbers up to its own, each one once. *)
LEMMA BlocksHaveNumbers ==
  ASSUME NEW S, NEW c \in ChainsOf(S)
  PROVE  /\ Number(c) \in Nat
         /\ \A b \in BlocksOf(c) : b \in ChainsOf(S) /\ Number(b) \in 0..Number(c)
         /\ \A b, d \in BlocksOf(c) : Number(b) = Number(d) => b = d
         /\ \A n \in 0..Number(c) : \E b \in BlocksOf(c) : Number(b) = n
<1>1. Number(c) \in Nat
  BY LenProperties DEF ChainsOf, Number
<1>2. \A b \in BlocksOf(c) : \E n \in 0..Number(c) : b = BlockAt(c, n) /\ Number(b) = n
  BY BlocksOfFacts
<1>3. \A n \in 0..Number(c) : BlockAt(c, n) \in ChainsOf(S) /\ Number(BlockAt(c, n)) = n
  BY BlockAtFacts
<1>4. \A n \in 0..Number(c) : BlockAt(c, n) \in BlocksOf(c)
  BY DEF BlocksOf
<1>5. \A b \in BlocksOf(c) : b \in ChainsOf(S) /\ Number(b) \in 0..Number(c)
  BY <1>2, <1>3
<1>6. \A b, d \in BlocksOf(c) : Number(b) = Number(d) => b = d
  BY <1>2
<1>7. \A n \in 0..Number(c) : \E b \in BlocksOf(c) : Number(b) = n
  BY <1>3, <1>4
<1> QED
  BY <1>1, <1>5, <1>6, <1>7

(* The block with the transaction is the only one. *)
LEMMA OneIncludes ==
  ASSUME NEW S, NEW c \in ChainsOf(S), TransactionOnce(c),
         NEW b \in BlocksOf(c), NEW d \in BlocksOf(c), HasTransaction(b), HasTransaction(d)
  PROVE  b = d
<1>1. PICK m \in 0..Number(c) : b = BlockAt(c, m) /\ Number(b) = m
  BY BlocksOfFacts
<1>2. PICK n \in 0..Number(c) : d = BlockAt(c, n) /\ Number(d) = n
  BY BlocksOfFacts
<1>3. IsTransaction(c[m + 1]) /\ IsTransaction(c[n + 1])
  BY <1>1, <1>2, BlockAtFacts DEF IsTransaction
<1>4. m + 1 \in 1..Len(c) /\ n + 1 \in 1..Len(c)
  BY LenProperties DEF ChainsOf, Number
<1>5. m + 1 = n + 1
  BY <1>3, <1>4 DEF TransactionOnce
<1> QED
  BY <1>1, <1>2, <1>5

(* A transaction can be included in a chain that does not have it. *)
LEMMA NotIncludedYet ==
  ASSUME NEW S, NEW c \in ChainsOf(S), NEW salt, CanInclude(c, salt), IsTransaction(salt),
         NEW i \in 1..Len(c)
  PROVE  ~IsTransaction(c[i])
<1>1. i - 1 \in 0..Number(c) /\ i - 1 + 1 = i
  BY LenProperties DEF ChainsOf, Number
<1>2. BlockAt(c, i - 1) \in BlocksOf(c)
  BY <1>1 DEF BlocksOf
<1>3. ~HasTransaction(BlockAt(c, i - 1))
  BY <1>2 DEF CanInclude, IsTransaction
<1> QED
  BY <1>1, <1>3, BlockAtFacts DEF IsTransaction

(* A chain is its last block. *)
LEMMA LastBlock ==
  ASSUME NEW S, NEW c \in ChainsOf(S)
  PROVE  c \in BlocksOf(c)
<1>1. c \in Seq(S) /\ Len(c) \in Nat /\ Len(c) >= 1
  BY LenProperties DEF ChainsOf
<1>2. Number(c) + 1 = Len(c) /\ Len(c) \in 0..Len(c) /\ Number(c) \in 0..Number(c)
  BY <1>1 DEF Number
<1>3. BlockAt(c, Number(c)) \in Seq(S) /\ Len(BlockAt(c, Number(c))) = Len(c)
      /\ \A i \in 1..Len(c) : BlockAt(c, Number(c))[i] = c[i]
  BY <1>1, <1>2, PrefixFacts DEF BlockAt
<1>4. BlockAt(c, Number(c)) = c
  BY <1>1, <1>3, SameSequence
<1> QED
  BY <1>2, <1>4 DEF BlocksOf

(* A chain with one more block *)
LEMMA GrownChain ==
  ASSUME NEW S, NEW c \in ChainsOf(S), NEW salt \in S, CanInclude(c, salt)
  PROVE  /\ Append(c, salt) \in ChainsOf(S)
         /\ Number(Append(c, salt)) = Number(c) + 1
         /\ HasTransaction(Append(c, salt)) <=> IsTransaction(salt)
         /\ BlocksOf(Append(c, salt)) = BlocksOf(c) \cup {Append(c, salt)}
         /\ TransactionOnce(c) => TransactionOnce(Append(c, salt))
<1> DEFINE g == Append(c, salt)
<1>1. c \in Seq(S) /\ Len(c) \in Nat /\ Len(c) >= 1 /\ Number(c) = Len(c) - 1
  BY LenProperties DEF ChainsOf, Number
<1>2. /\ g \in Seq(S) /\ Len(g) = Len(c) + 1
      /\ \A i \in 1..Len(c) : g[i] = c[i]
      /\ g[Len(c) + 1] = salt
  BY <1>1, AppendFacts
<1> HIDE DEF g
<1>3. g \in ChainsOf(S) /\ Number(g) = Number(c) + 1
  BY <1>1, <1>2 DEF ChainsOf, Number
<1>4. HasTransaction(g) <=> IsTransaction(salt)
  BY <1>2 DEF HasTransaction, IsTransaction
<1>5. BlocksOf(g) = BlocksOf(c) \cup {g}
  <2>1. AgreeTo(c, g, Number(c))
    BY <1>1, <1>2, <1>3 DEF AgreeTo
  <2>2. \A b : Number(b) \in Int /\ Number(b) <= Number(c) => (b \in BlocksOf(c) <=> b \in BlocksOf(g))
    BY <1>1, <1>3, <2>1, AgreeBlocks
  <2>3. g \in BlocksOf(g)
    BY <1>3, LastBlock
  <2>4. /\ \A b \in BlocksOf(g) : Number(b) \in 0..Number(g)
        /\ \A b, d \in BlocksOf(g) : Number(b) = Number(d) => b = d
        /\ \A b \in BlocksOf(c) : Number(b) \in 0..Number(c)
    BY <1>3, BlocksHaveNumbers
  <2>5. ASSUME NEW b \in BlocksOf(g) PROVE b \in BlocksOf(c) \cup {g}
    <3>1. (Number(b) \in Int /\ Number(b) <= Number(c)) \/ Number(b) = Number(g)
      BY <1>1, <1>3, <2>4
    <3> QED
      BY <2>2, <2>3, <2>4, <3>1
  <2>6. ASSUME NEW b \in BlocksOf(c) PROVE b \in BlocksOf(g)
    <3>1. Number(b) \in Int /\ Number(b) <= Number(c)
      BY <1>1, <2>4
    <3> QED
      BY <2>2, <3>1
  <2> QED
    BY <2>3, <2>5, <2>6
<1>6. ASSUME TransactionOnce(c) PROVE TransactionOnce(g)
  <2> SUFFICES ASSUME NEW i \in 1..Len(g), NEW j \in 1..Len(g),
                      IsTransaction(g[i]), IsTransaction(g[j])
               PROVE  i = j
    BY DEF TransactionOnce
  <2>1. IsTransaction(salt) => \A l \in 1..Len(c) : ~IsTransaction(c[l])
    BY NotIncludedYet
  <2>2. CASE i \in 1..Len(c) /\ j \in 1..Len(c)
    BY <1>2, <1>6, <2>2 DEF TransactionOnce
  <2>3. CASE i = Len(c) + 1 /\ j \in 1..Len(c)
    BY <1>2, <2>1, <2>3
  <2>4. CASE i \in 1..Len(c) /\ j = Len(c) + 1
    BY <1>2, <2>1, <2>4
  <2>5. CASE i = Len(c) + 1 /\ j = Len(c) + 1
    BY <2>5
  <2>6. \A l \in 1..Len(g) : l \in 1..Len(c) \/ l = Len(c) + 1
    BY <1>1, <1>2
  <2> QED
    BY <2>2, <2>3, <2>4, <2>5, <2>6
<1> QED
  BY <1>3, <1>4, <1>5, <1>6 DEF g

(* A chain up to one of its blocks *)
LEMMA CutChain ==
  ASSUME NEW S, NEW c \in ChainsOf(S), NEW n \in 0..Number(c)
  PROVE  /\ BlockAt(c, n) \in ChainsOf(S)
         /\ Number(BlockAt(c, n)) = n
         /\ AgreeTo(c, BlockAt(c, n), n)
         /\ \A b : b \in BlocksOf(BlockAt(c, n)) <=> b \in BlocksOf(c) /\ Number(b) <= n
         /\ TransactionOnce(c) => TransactionOnce(BlockAt(c, n))
<1> DEFINE g == BlockAt(c, n)
<1>1. c \in Seq(S) /\ Len(c) \in Nat /\ Len(c) >= 1 /\ Number(c) = Len(c) - 1
  BY LenProperties DEF ChainsOf, Number
<1>2. g \in ChainsOf(S) /\ Number(g) = n
  BY BlockAtFacts
<1>3. g \in Seq(S) /\ Len(g) = n + 1 /\ \A i \in 1..(n + 1) : g[i] = c[i]
  <2>1. n + 1 \in 0..Len(c)
    BY <1>1
  <2> QED
    BY <1>1, <2>1, PrefixFacts DEF BlockAt
<1> HIDE DEF g
<1>4. AgreeTo(c, g, n)
  BY <1>1, <1>2, <1>3 DEF AgreeTo
<1>5. \A b : Number(b) \in Int /\ Number(b) <= n => (b \in BlocksOf(c) <=> b \in BlocksOf(g))
  BY <1>1, <1>2, <1>4, AgreeBlocks
<1>6. /\ \A b \in BlocksOf(c) : Number(b) \in 0..Number(c)
      /\ \A b \in BlocksOf(g) : Number(b) \in 0..n
  BY <1>2, BlocksHaveNumbers
<1>7. \A b : b \in BlocksOf(g) <=> b \in BlocksOf(c) /\ Number(b) <= n
  BY <1>1, <1>5, <1>6
<1>8. TransactionOnce(c) => TransactionOnce(g)
  BY <1>1, <1>3 DEF TransactionOnce
<1> QED
  BY <1>2, <1>4, <1>7, <1>8 DEF g
(* A step of the remote network: it does not change blocks that are older  *)
(* than MaxReorg, does not get shorter, and includes the transaction once. *)
LEMMA ExtendKeeps ==
  ASSUME remote \in ChainsOf(RemoteSalts), NEW salt \in RemoteSalts, ExtendRemote(salt),
         NEW m \in Int, m <= Number(remote)
  PROVE  /\ remote' \in ChainsOf(RemoteSalts)
         /\ Number(remote') >= Number(remote)
         /\ AgreeTo(remote, remote', m)
         /\ TransactionKept(remote, remote', m)
<1>1. remote' = Append(remote, salt) /\ CanInclude(remote, salt)
  BY DEF ExtendRemote
<1>2. remote \in Seq(RemoteSalts) /\ Len(remote) \in Nat /\ Len(remote) >= 1
  BY LenProperties DEF ChainsOf
<1>3. /\ remote' \in Seq(RemoteSalts) /\ Len(remote') = Len(remote) + 1
      /\ \A i \in 1..Len(remote) : remote'[i] = remote[i]
      /\ remote'[Len(remote) + 1] = salt
  BY <1>1, <1>2, AppendFacts
<1>4. remote' \in ChainsOf(RemoteSalts) /\ Number(remote') = Number(remote) + 1
  BY <1>2, <1>3 DEF ChainsOf, Number
<1>5. \A n \in Int : n <= Number(remote) => AgreeTo(remote, remote', n)
  BY <1>2, <1>3 DEF AgreeTo, Number
<1>6. ASSUME NEW t \in BlocksOf(remote), HasTransaction(t),
             \A b \in BlocksOf(remote) : HasTransaction(b) => Number(b) <= m,
             NEW b \in BlocksOf(remote'), HasTransaction(b)
      PROVE  Number(b) <= m
  <2>1. PICK n \in 0..Number(remote') : b = BlockAt(remote', n) /\ Number(b) = n
    BY <1>4, BlocksOfFacts
  <2>2. CASE n <= Number(remote)
    <3>1. AgreeTo(remote, remote', n)
      BY <1>5, <2>2
    <3>2. b \in BlocksOf(remote)
      BY <1>4, <1>6, <2>1, <3>1, AgreeBlocks
    <3> QED
      BY <1>6, <3>2
  <2>3. CASE n = Number(remote) + 1
    <3>1. salt \in {"t", "lt"}
      <4>1. remote'[n + 1] \in {"t", "lt"}
        BY <1>4, <1>6, <2>1, BlockAtFacts
      <4> QED
        BY <1>2, <1>3, <2>3, <4>1 DEF Number
    <3>2. ~HasTransaction(t)
      BY <1>1, <1>6, <3>1 DEF CanInclude
    <3> QED
      BY <1>6, <3>2
  <2> QED
    BY <1>2, <1>4, <2>1, <2>2, <2>3 DEF Number
<1>7. TransactionKept(remote, remote', m)
  BY <1>6 DEF TransactionKept
<1> QED
  BY <1>2, <1>4, <1>5, <1>7 DEF Number

(* So does a reorganization. *)
LEMMA ReorgKeeps ==
  ASSUME remote \in ChainsOf(RemoteSalts), NEW salt \in RemoteSalts,
         NEW d \in Nat, d >= 1, ReorgRemote(d, salt),
         NEW m \in Int, m <= Number(remote) - d
  PROVE  /\ remote' \in ChainsOf(RemoteSalts)
         /\ Number(remote') = Number(remote)
         /\ AgreeTo(remote, remote', m)
         /\ TransactionKept(remote, remote', m)
         /\ TransactionOnce(remote) => TransactionOnce(remote')
<1> DEFINE L == Len(remote)
           kept == SubSeq(remote, 1, L - d)
           grown == Append(kept, salt)
           empty == [i \in 1..(d - 1) |-> "e"]
<1>1. remote' = grown \o empty /\ CanInclude(kept, salt) /\ d < L
  BY DEF ReorgRemote
<1>2. remote \in Seq(RemoteSalts) /\ L \in Nat /\ L >= 1 /\ Number(remote) = L - 1
  BY LenProperties DEF ChainsOf, Number
<1>3. /\ kept \in Seq(RemoteSalts) /\ Len(kept) = L - d
      /\ \A i \in 1..(L - d) : kept[i] = remote[i]
  <2>1. L - d \in 0..L
    BY <1>1, <1>2
  <2> QED
    BY <1>2, <2>1, PrefixFacts
<1>4. empty \in Seq(RemoteSalts) /\ Len(empty) = d - 1 /\ \A i \in 1..(d - 1) : empty[i] = "e"
  <2>1. empty \in [1..(d - 1) -> RemoteSalts]
    BY DEF RemoteSalts
  <2>2. d - 1 \in Nat /\ \A i \in 1..(d - 1) : empty[i] = "e"
    OBVIOUS
  <2> HIDE DEF empty
  <2> QED
    BY <2>1, <2>2, FunctionIsSequence
<1> HIDE DEF kept, empty
<1>5. /\ grown \in Seq(RemoteSalts) /\ Len(grown) = L - d + 1
      /\ \A i \in 1..(L - d) : grown[i] = remote[i]
      /\ grown[L - d + 1] = salt
  <2>1. /\ grown \in Seq(RemoteSalts) /\ Len(grown) = Len(kept) + 1
        /\ \A i \in 1..Len(kept) : grown[i] = kept[i]
        /\ grown[Len(kept) + 1] = salt
    <3>1. kept \in Seq(RemoteSalts) /\ salt \in RemoteSalts
      BY <1>3
    <3> QED
      BY <3>1, AppendFacts
  <2> QED
    BY <1>3, <2>1
<1> HIDE DEF grown
<1>6. /\ remote' \in Seq(RemoteSalts) /\ Len(remote') = Len(grown) + Len(empty)
      /\ \A i \in 1..(Len(grown) + Len(empty)) :
           remote'[i] = IF i <= Len(grown) THEN grown[i] ELSE empty[i - Len(grown)]
  <2>1. grown \in Seq(RemoteSalts) /\ empty \in Seq(RemoteSalts) /\ remote' = grown \o empty
    BY <1>1, <1>4, <1>5
  <2> QED
    BY <2>1, ConcatProperties
<1>7. Len(remote') = L
  BY <1>2, <1>4, <1>5, <1>6
<1>8. /\ \A i \in 1..(L - d) : remote'[i] = remote[i]
      /\ remote'[L - d + 1] = salt
      /\ \A i \in (L - d + 2)..L : remote'[i] = "e"
  <2>1. ASSUME NEW i \in 1..(L - d) PROVE remote'[i] = remote[i]
    BY <1>1, <1>2, <1>4, <1>5, <1>6
  <2>2. remote'[L - d + 1] = salt
    BY <1>1, <1>2, <1>4, <1>5, <1>6
  <2>3. ASSUME NEW i \in (L - d + 2)..L PROVE remote'[i] = "e"
    <3>1. i \in 1..(Len(grown) + Len(empty)) /\ ~(i <= Len(grown)) /\ i - Len(grown) \in 1..(d - 1)
      BY <1>1, <1>2, <1>4, <1>5
    <3> QED
      BY <3>1, <1>4, <1>6
  <2> QED
    BY <2>1, <2>2, <2>3
<1> HIDE DEF L
<1>9. remote' \in ChainsOf(RemoteSalts) /\ Number(remote') = L - 1
  BY <1>2, <1>6, <1>7 DEF ChainsOf, Number
<1>10. \A n \in Int : n <= Number(remote) - d => AgreeTo(remote, remote', n)
  <2> SUFFICES ASSUME NEW n \in Int, n <= Number(remote) - d PROVE AgreeTo(remote, remote', n)
    OBVIOUS
  <2>1. n <= Number(remote) /\ n <= Number(remote')
    BY <1>2, <1>9
  <2>2. \A i \in 1..(n + 1) : remote[i] = remote'[i]
    BY <1>2, <1>8
  <2> QED
    BY <2>1, <2>2 DEF AgreeTo
<1>11. kept \in ChainsOf(RemoteSalts) /\ Number(kept) = L - d - 1
  BY <1>1, <1>2, <1>3 DEF ChainsOf, Number
<1>12. AgreeTo(remote, kept, L - d - 1)
  BY <1>1, <1>2, <1>3, <1>11 DEF AgreeTo
<1>13. ASSUME NEW t \in BlocksOf(remote), HasTransaction(t),
              \A b \in BlocksOf(remote) : HasTransaction(b) => Number(b) <= m,
              NEW b \in BlocksOf(remote'), HasTransaction(b)
       PROVE  Number(b) <= m
  <2>1. PICK n \in 0..Number(remote') : b = BlockAt(remote', n) /\ Number(b) = n
    BY <1>9, BlocksOfFacts
  <2>2. remote'[n + 1] \in {"t", "lt"}
    BY <1>9, <1>13, <2>1, BlockAtFacts
  <2>3. CASE n <= Number(remote) - d
    <3>1. AgreeTo(remote, remote', n)
      BY <1>10, <2>3
    <3>2. b \in BlocksOf(remote)
      BY <1>9, <1>13, <2>1, <3>1, AgreeBlocks
    <3> QED
      BY <1>13, <3>2
  <2>4. CASE n = L - d
    <3>1. salt \in {"t", "lt"}
      BY <1>1, <1>2, <1>8, <2>2, <2>4
    <3>2. t \in BlocksOf(kept)
      <4>1. Number(t) \in Int /\ Number(t) <= L - d - 1
        <5>1. Number(t) \in Int
          BY <1>13, BlocksOfFacts
        <5>2. Number(t) <= m
          BY <1>13
        <5> QED
          BY <5>1, <5>2, <1>2
      <4>2. L - d - 1 \in Int
        BY <1>2
      <4> QED
        BY <1>11, <1>12, <1>13, <4>1, <4>2, AgreeBlocks
    <3>3. ~HasTransaction(t)
      BY <1>1, <3>1, <3>2 DEF CanInclude
    <3> QED
      BY <1>13, <3>3
  <2>5. CASE n > L - d
    <3>1. n + 1 \in (L - d + 2)..L
      BY <1>2, <1>9, <2>1, <2>5
    <3>2. remote'[n + 1] = "e"
      BY <1>8, <3>1
    <3> QED
      BY <2>2, <3>2
  <2> QED
    BY <1>2, <2>1, <2>3, <2>4, <2>5
<1>14. TransactionKept(remote, remote', m)
  BY <1>13 DEF TransactionKept
<1>15. ASSUME TransactionOnce(remote) PROVE TransactionOnce(remote')
  <2> SUFFICES ASSUME NEW i \in 1..L, NEW j \in 1..L,
                      IsTransaction(remote'[i]), IsTransaction(remote'[j])
               PROVE  i = j
    BY <1>7 DEF TransactionOnce
  <2>1. \A l \in 1..L : l \in 1..(L - d) \/ l = L - d + 1 \/ l \in (L - d + 2)..L
    BY <1>1, <1>2
  <2>2. \A l \in (L - d + 2)..L : ~IsTransaction(remote'[l])
    BY <1>8 DEF IsTransaction
  <2>3. IsTransaction(salt) => \A l \in 1..(L - d) : ~IsTransaction(remote'[l])
    <3> SUFFICES ASSUME IsTransaction(salt), NEW l \in 1..(L - d) PROVE ~IsTransaction(remote'[l])
      OBVIOUS
    <3>1. l \in 1..Len(kept)
      BY <1>3
    <3>2. ~IsTransaction(kept[l])
      BY <1>1, <1>11, <3>1, NotIncludedYet
    <3> QED
      BY <1>3, <1>8, <3>2
  <2>4. CASE i \in 1..(L - d) /\ j \in 1..(L - d)
    <3>1. IsTransaction(remote[i]) /\ IsTransaction(remote[j])
      BY <1>8, <2>4
    <3>2. \A p, q \in 1..L : IsTransaction(remote[p]) /\ IsTransaction(remote[q]) => p = q
      BY <1>15 DEF TransactionOnce, L
    <3> QED
      BY <3>1, <3>2
  <2>5. CASE i = L - d + 1 /\ j \in 1..(L - d)
    BY <1>8, <2>3, <2>5
  <2>6. CASE i \in 1..(L - d) /\ j = L - d + 1
    BY <1>8, <2>3, <2>6
  <2>7. CASE i = L - d + 1 /\ j = L - d + 1
    BY <2>7
  <2> QED
    BY <2>1, <2>2, <2>4, <2>5, <2>6, <2>7
<1> QED
  BY <1>2, <1>9, <1>10, <1>14, <1>15

(* What is kept of an answer is what the remote node still answers, and    *)
(* the blocks it is about cannot be reorganized any more.                  *)
EntryFinal(e) ==
  e.answer # Torn =>
    /\ e.answer = RemoteAnswer(e.key)
    /\ AboutUpTo(e.key, e.answer, Number(remote) - MaxReorg)

ClientTypeOK ==
  /\ remote \in ChainsOf(RemoteSalts)
  /\ client \in Client
  /\ disk \in SUBSET Entries
  /\ latest \in Nat

(* The remote chain is never shorter than when the client was made. *)
ChainInv ==
  /\ ClientTypeOK
  /\ client.latest <= Number(remote)
  /\ \A e \in client.cache \cup disk : EntryFinal(e)

(* A store of a client and a directory *)
StoreOK(store) ==
  /\ store \in [cache : SUBSET Entries, disk : SUBSET Entries]
  /\ \A e \in store.cache \cup store.disk : EntryFinal(e)

(* The blocks of the remote chain *)
LEMMA RemoteAnswerType ==
  ASSUME remote \in ChainsOf(RemoteSalts), NEW k \in AllKeys
  PROVE  /\ RemoteAnswer(k) \in SUBSET Seq(Salts)
         /\ RemoteAnswer(k) \subseteq BlocksOf(remote)
<1>1. \A b \in BlocksOf(remote) : b \in Seq(RemoteSalts)
  BY BlocksOfFacts, BlockAtFacts DEF ChainsOf
<1>2. \A b \in Seq(RemoteSalts) : b \in Seq(Salts)
  BY SequenceInSuperset DEF Salts
<1>3. RemoteAnswer(k) \subseteq BlocksOf(remote)
  BY DEF RemoteAnswer, AllKeys, Questions
<1> QED
  BY <1>1, <1>2, <1>3

(* The entry that a lookup finds *)
LEMMA LookupFacts ==
  ASSUME NEW entries \in SUBSET Entries, NEW k, Has(entries, k)
  PROVE  /\ Entry(k, Lookup(entries, k)) \in entries
         /\ Lookup(entries, k) \in SUBSET Seq(Salts)
<1> DEFINE e == CHOOSE e \in entries : e.key = k
<1>1. e \in entries /\ e.key = k
  BY DEF Has
<1>2. Lookup(entries, k) = e.answer
  BY DEF Lookup
<1> HIDE DEF e
<1>3. e = [key |-> e.key, answer |-> e.answer] /\ e.answer \in SUBSET Seq(Salts)
  BY <1>1 DEF Entries
<1> QED
  BY <1>1, <1>2, <1>3 DEF Entry

(* The block numbers that an answer is about *)
LEMMA AffectedAreNumbers ==
  ASSUME NEW k \in AllKeys, NEW a \in SUBSET Seq(Salts)
  PROVE  MaxAffectedBlockNumber(k, a) \subseteq Int
<1>1. \A b \in a : Number(b) \in Int
  BY LenProperties DEF Number
<1>2. k.n \in Nat /\ k.m \in Nat /\ k.q \in Questions
  BY DEF AllKeys
<1> QED
  BY <1>1, <1>2 DEF MaxAffectedBlockNumber, Questions

(* _perform answers with blocks, and keeps final answers only. *)
LEMMA PerformKeeps ==
  ASSUME ChainInv, NEW store, StoreOK(store), NEW k \in AllKeys
  PROVE  StoreOK(Perform(store, k)) /\ PerformAnswer(store, k) \in SUBSET Seq(Salts)
<1> DEFINE answer == PerformAnswer(store, k)
           e == Entry(k, answer)
           after == Perform(store, k)
<1>1. /\ store.cache \in SUBSET Entries /\ store.disk \in SUBSET Entries
      /\ store = [cache |-> store.cache, disk |-> store.disk]
  BY DEF StoreOK
<1>2. CASE InMemory(store, k)
  <2>1. after = store /\ answer = Lookup(store.cache, k)
    BY <1>2 DEF Perform, PerformAnswer
  <2>2. answer \in SUBSET Seq(Salts)
    BY <1>1, <1>2, <2>1, LookupFacts DEF InMemory
  <2> QED
    BY <2>1, <2>2
<1>3. CASE ~InMemory(store, k) /\ OnDisk(store, k)
  <2>1. after = [store EXCEPT !.cache = @ \cup {e}] /\ answer = Lookup(store.disk, k)
    BY <1>3 DEF Perform, PerformAnswer
  <2>2. e \in store.disk /\ answer \in SUBSET Seq(Salts)
    BY <1>1, <1>3, <2>1, LookupFacts DEF OnDisk
  <2> HIDE DEF e, answer, after
  <2>3. after = [cache |-> store.cache \cup {e}, disk |-> store.disk]
    BY <1>1, <2>1
  <2>4. StoreOK(after)
    BY <1>1, <2>2, <2>3 DEF StoreOK
  <2> QED
    BY <2>2, <2>4 DEF answer, after
<1>4. CASE ~InMemory(store, k) /\ ~OnDisk(store, k)
  <2> DEFINE cached == CanBeCached(MaxAffectedBlockNumber(k, answer))
  <2>1. answer = RemoteAnswer(k)
    BY <1>4 DEF PerformAnswer
  <2>2. after = [cache |-> IF cached THEN store.cache \cup {e} ELSE store.cache,
                 disk |-> IF cached /\ client.toDisk THEN store.disk \cup {e} ELSE store.disk]
    BY <1>4 DEF Perform
  <2>3. answer \in SUBSET Seq(Salts)
    BY <2>1, RemoteAnswerType DEF ChainInv, ClientTypeOK
  <2>4. e \in Entries /\ e.key = k /\ e.answer = answer
    BY <2>3 DEF Entry, Entries
  <2>5. cached => EntryFinal(e)
    <3> SUFFICES ASSUME cached PROVE EntryFinal(e)
      OBVIOUS
    <3>1. /\ MaxAffectedBlockNumber(k, answer) # {}
          /\ \A n \in MaxAffectedBlockNumber(k, answer) : ~(n > client.latest - MaxReorg)
      BY DEF CanBeCached, CanBeReorgedOut
    <3>2. MaxAffectedBlockNumber(k, answer) \subseteq Int
      <4> HIDE DEF answer
      <4> QED
        BY <2>3, AffectedAreNumbers
    <3>3. client.latest \in Nat /\ Number(remote) \in Int /\ client.latest <= Number(remote)
      BY LenProperties DEF ChainInv, ClientTypeOK, Client, ChainsOf, Number
    <3> HIDE DEF answer, e
    <3>4. \A n \in MaxAffectedBlockNumber(k, answer) : n <= Number(remote) - MaxReorg
      BY <3>1, <3>2, <3>3, ClientAssumption
    <3> QED
      BY <2>1, <2>4, <3>1, <3>4 DEF EntryFinal, AboutUpTo
  <2> HIDE DEF e, answer, after, cached
  <2>6. StoreOK(after)
    <3>1. CASE ~cached
      BY <3>1, <1>1, <2>2 DEF StoreOK
    <3>2. CASE cached /\ client.toDisk
      <4>1. after = [cache |-> store.cache \cup {e}, disk |-> store.disk \cup {e}]
        BY <3>2, <2>2
      <4> QED
        BY <3>2, <4>1, <1>1, <2>4, <2>5 DEF StoreOK
    <3>3. CASE cached /\ ~client.toDisk
      <4>1. after = [cache |-> store.cache \cup {e}, disk |-> store.disk]
        BY <3>3, <2>2
      <4> QED
        BY <3>3, <4>1, <1>1, <2>4, <2>5 DEF StoreOK
    <3> QED
      BY <3>1, <3>2, <3>3
  <2> QED
    BY <2>3, <2>6 DEF answer, after
<1> QED
  BY <1>2, <1>3, <1>4

(* The requests of the code are keys. *)
LEMMA KeysAreKeys ==
  /\ \A n \in Nat : NumberKey(n) \in AllKeys /\ StateKey(n) \in AllKeys /\ FeesKey(n) \in AllKeys
  /\ \A h \in Seq(Salts) : HashKey(h) \in AllKeys
  /\ TransactionKey \in AllKeys /\ ReceiptKey \in AllKeys
  /\ \A n, m \in Nat : LogsKey(n, m) \in AllKeys
<1>1. <<>> \in Seq(Salts)
  BY EmptySeq
<1> QED
  BY <1>1 DEF NumberKey, StateKey, FeesKey, HashKey, TransactionKey, ReceiptKey, LogsKey, Key,
              AllKeys, Questions

(* The client and the directory as a store *)
LEMMA StoreIsOK ==
  ASSUME ChainInv
  PROVE  StoreOK(Store) /\ Store.cache = client.cache /\ Store.disk = disk
BY DEF ChainInv, ClientTypeOK, Client, StoreOK, Store

(* A step that stores what a request left keeps the invariant. *)
LEMMA StoredKeeps ==
  ASSUME ChainInv, NEW store, StoreOK(store), Stored(store),
         remote' = remote, latest' \in Nat
  PROVE  ChainInv'
<1>1. /\ client' = [client EXCEPT !.cache = store.cache] /\ disk' = store.disk
      /\ store.cache \in SUBSET Entries /\ store.disk \in SUBSET Entries
      /\ \A e \in store.cache \cup store.disk : EntryFinal(e)
  BY DEF Stored, StoreOK
<1>2. /\ client' \in Client /\ client'.cache = store.cache
      /\ client'.latest = client.latest
  BY <1>1 DEF ChainInv, ClientTypeOK, Client
<1>3. ClientTypeOK'
  BY <1>1, <1>2 DEF ChainInv, ClientTypeOK
<1>4. \A e : EntryFinal(e)' <=> EntryFinal(e)
  BY DEF EntryFinal, RemoteAnswer
<1>5. \A e \in client'.cache \cup disk' : EntryFinal(e)'
  BY <1>1, <1>2, <1>4
<1> QED
  BY <1>2, <1>3, <1>5 DEF ChainInv

(* A step of the remote network, whichever it is *)
LEMMA RemoteMoves ==
  ASSUME ChainInv, RemoteStep, NEW m, m = Number(remote) - MaxReorg
  PROVE  /\ remote' \in ChainsOf(RemoteSalts)
         /\ Number(remote') \in Int /\ Number(remote') >= Number(remote)
         /\ AgreeTo(remote, remote', m)
         /\ TransactionKept(remote, remote', m)
         /\ TransactionOnce(remote) => TransactionOnce(remote')
<1>1. remote \in ChainsOf(RemoteSalts) /\ Number(remote) \in Int /\ m \in Int /\ m <= Number(remote)
  BY ClientAssumption, LenProperties DEF ChainInv, ClientTypeOK, ChainsOf, Number
<1>2. ASSUME NEW salt \in RemoteSalts, ExtendRemote(salt)
      PROVE  /\ remote' \in ChainsOf(RemoteSalts)
             /\ Number(remote') >= Number(remote)
             /\ AgreeTo(remote, remote', m)
             /\ TransactionKept(remote, remote', m)
             /\ TransactionOnce(remote) => TransactionOnce(remote')
  <2>1. remote' = Append(remote, salt) /\ CanInclude(remote, salt)
    BY <1>2 DEF ExtendRemote
  <2>2. TransactionOnce(remote) => TransactionOnce(remote')
    BY <1>1, <2>1, GrownChain
  <2> QED
    BY <1>1, <1>2, <2>2, ExtendKeeps
<1>3. ASSUME NEW d \in 1..MaxReorg, NEW salt \in RemoteSalts, ReorgRemote(d, salt)
      PROVE  /\ remote' \in ChainsOf(RemoteSalts)
             /\ Number(remote') >= Number(remote)
             /\ AgreeTo(remote, remote', m)
             /\ TransactionKept(remote, remote', m)
             /\ TransactionOnce(remote) => TransactionOnce(remote')
  <2>1. d \in Nat /\ d >= 1 /\ m <= Number(remote) - d
    BY <1>1, ClientAssumption
  <2>2. /\ remote' \in ChainsOf(RemoteSalts)
        /\ Number(remote') = Number(remote)
        /\ AgreeTo(remote, remote', m)
        /\ TransactionKept(remote, remote', m)
        /\ TransactionOnce(remote) => TransactionOnce(remote')
    BY <1>1, <1>3, <2>1, ReorgKeeps
  <2> QED
    BY <1>1, <2>2
<1>4. /\ remote' \in ChainsOf(RemoteSalts)
      /\ Number(remote') >= Number(remote)
      /\ AgreeTo(remote, remote', m)
      /\ TransactionKept(remote, remote', m)
      /\ TransactionOnce(remote) => TransactionOnce(remote')
  BY <1>2, <1>3 DEF RemoteStep
<1> QED
  BY <1>4, LenProperties DEF ChainsOf, Number

(* The remote network does not change what is kept. *)
LEMMA RemoteStepKeeps == ChainInv /\ RemoteStep => ChainInv'
<1> SUFFICES ASSUME ChainInv, RemoteStep PROVE ChainInv'
  OBVIOUS
<1> DEFINE m == Number(remote) - MaxReorg
<1>1. remote \in ChainsOf(RemoteSalts) /\ Number(remote) \in Int /\ m \in Int /\ m <= Number(remote)
  BY ClientAssumption, LenProperties DEF ChainInv, ClientTypeOK, ChainsOf, Number
<1>2. /\ remote' \in ChainsOf(RemoteSalts)
      /\ Number(remote') \in Int /\ Number(remote') >= Number(remote)
      /\ AgreeTo(remote, remote', m)
      /\ TransactionKept(remote, remote', m)
  BY RemoteMoves
<1>3. client' = client /\ disk' = disk /\ latest' = latest
  BY DEF RemoteStep
<1>4. ASSUME NEW e \in client.cache \cup disk PROVE EntryFinal(e)'
  <2> SUFFICES ASSUME e.answer # Torn
               PROVE  /\ e.answer = RemoteAnswer(e.key)'
                      /\ AboutUpTo(e.key, e.answer, Number(remote') - MaxReorg)
    BY DEF EntryFinal
  <2>1. /\ e.answer = RemoteAnswer(e.key)
        /\ AboutUpTo(e.key, e.answer, m)
        /\ e.key \in AllKeys /\ e.answer \in SUBSET Seq(Salts)
    BY DEF ChainInv, ClientTypeOK, Client, Entries, EntryFinal
  <2> HIDE DEF m
  <2>2. RemoteAnswer(e.key)' = e.answer
    BY <1>1, <1>2, <2>1, AnswerKept
  <2>3. MaxAffectedBlockNumber(e.key, e.answer) \subseteq Int
    BY <2>1, AffectedAreNumbers
  <2>4. m <= Number(remote') - MaxReorg
    BY <1>1, <1>2, ClientAssumption DEF m
  <2>5. Number(remote') - MaxReorg \in Int
    BY <1>2, ClientAssumption
  <2>6. AboutUpTo(e.key, e.answer, Number(remote') - MaxReorg)
    BY <1>1, <2>1, <2>3, <2>4, <2>5 DEF AboutUpTo
  <2> QED
    BY <2>2, <2>6
<1>5. client.latest \in Nat /\ client.latest <= Number(remote')
  BY <1>1, <1>2 DEF ChainInv, ClientTypeOK, Client
<1>6. ClientTypeOK'
  BY <1>2, <1>3 DEF ChainInv, ClientTypeOK
<1> QED
  BY <1>3, <1>4, <1>5, <1>6 DEF ChainInv

(* The blocks of the remote chain are sequences of salts. *)
LEMMA RemoteBlocks ==
  ASSUME ChainInv
  PROVE  \A b \in BlocksOf(remote) : b \in Seq(Salts)
<1>1. \A b \in BlocksOf(remote) : b \in Seq(RemoteSalts)
  BY BlocksOfFacts, BlockAtFacts DEF ChainsOf, ChainInv, ClientTypeOK
<1> QED
  BY <1>1, SequenceInSuperset DEF Salts

(* The requests of a step are keys. *)
LEMMA RequestsAreKeys ==
  ASSUME ChainInv, NEW k \in Keys
  PROVE  k \in AllKeys
<1>1. \A b \in BlocksOf(remote) : b \in Seq(Salts)
  BY RemoteBlocks
<1>2. client.fork \in Nat
  BY DEF ChainInv, ClientTypeOK, Client
<1> QED
  BY <1>1, <1>2, KeysAreKeys DEF Keys

(* A request, and a process that is killed while it stores the answer *)
LEMMA RequestStepKeeps == ChainInv /\ RequestStep => ChainInv'
<1> SUFFICES ASSUME ChainInv, RequestStep PROVE ChainInv'
  OBVIOUS
<1>1. PICK k \in Keys : Request(k) \/ KilledWhileStoring(k)
  BY DEF RequestStep
<1>2. remote' = remote /\ latest' = latest /\ latest \in Nat
  BY DEF RequestStep, ChainInv, ClientTypeOK
<1>3. k \in AllKeys
  BY RequestsAreKeys
<1>4. StoreOK(Perform(Store, k))
  BY <1>3, StoreIsOK, PerformKeeps
<1>5. CASE Request(k)
  <2>1. Stored(Perform(Store, k))
    BY <1>5 DEF Request
  <2> QED
    BY <1>2, <1>4, <2>1, StoredKeeps
<1>6. CASE KilledWhileStoring(k)
  <2>1. /\ disk' = disk \cup {Entry(k, Torn)}
        /\ client' = [client EXCEPT !.running = FALSE, !.cache = {}]
    BY <1>6 DEF KilledWhileStoring
  <2>2. <<>> \in Seq(Salts)
    BY EmptySeq
  <2>3. Entry(k, Torn) \in Entries /\ Entry(k, Torn).answer = Torn
    BY <1>3, <2>2 DEF Entry, Entries, Torn
  <2>4. client' \in Client /\ client'.cache = {} /\ client'.latest = client.latest
    BY <2>1 DEF ChainInv, ClientTypeOK, Client
  <2>5. ClientTypeOK'
    BY <1>2, <2>1, <2>3, <2>4 DEF ChainInv, ClientTypeOK
  <2>6. \A e : EntryFinal(e)' <=> EntryFinal(e)
    BY <1>2 DEF EntryFinal, RemoteAnswer
  <2>7. EntryFinal(Entry(k, Torn))
    BY <2>3 DEF EntryFinal
  <2>8. \A e \in client'.cache \cup disk' : EntryFinal(e)'
    BY <2>1, <2>4, <2>6, <2>7 DEF ChainInv
  <2> QED
    BY <1>2, <2>4, <2>5, <2>8 DEF ChainInv
<1> QED
  BY <1>1, <1>5, <1>6

(* The request of a step, if it makes one *)
LEMMA AfterKeysKeeps ==
  ASSUME ChainInv, NEW keys \in Seq(AllKeys)
  PROVE  StoreOK(AfterKeys(keys))
<1>1. StoreOK(Store)
  BY StoreIsOK
<1>2. CASE keys = <<>>
  BY <1>1, <1>2 DEF AfterKeys
<1>3. CASE keys # <<>>
  <2>1. AfterKeys(keys) = Perform(Store, keys[1]) /\ keys[1] \in AllKeys
    BY <1>3 DEF AfterKeys
  <2> QED
    BY <1>1, <2>1, PerformKeeps
<1> QED
  BY <1>2, <1>3

(* A read of the chain keeps the invariant. *)
LEMMA ReadKeeps ==
  ASSUME ChainInv, NEW keys \in Seq(AllKeys), NEW newData, Read(keys, newData)
  PROVE  ChainInv'
<1>1. StoreOK(AfterKeys(keys))
  BY AfterKeysKeeps
<1>2. Stored(AfterKeys(keys)) /\ remote' = remote /\ latest' = latest /\ latest \in Nat
  BY DEF Read, ChainInv, ClientTypeOK
<1> QED
  BY <1>1, <1>2, StoredKeeps

(* Sequences of at most two requests *)
LEMMA ShortKeys ==
  /\ <<>> \in Seq(AllKeys) /\ Len(<<>>) = 0
  /\ \A k \in AllKeys : <<k>> \in Seq(AllKeys) /\ Len(<<k>>) = 1
  /\ \A s \in Seq(AllKeys), t \in Seq(AllKeys) :
       s \o t \in Seq(AllKeys) /\ Len(s \o t) = Len(s) + Len(t)
<1>1. ASSUME NEW s \in Seq(AllKeys), NEW t \in Seq(AllKeys)
      PROVE  s \o t \in Seq(AllKeys) /\ Len(s \o t) = Len(s) + Len(t)
  BY ConcatProperties
<1> QED
  BY <1>1

(* The requests of each method of ForkBlockchain *)
LEMMA ReadsAskKeys ==
  ASSUME ChainInv
  PROVE  /\ \A n \in Nat : BlockByNumberKeys(n) \in Seq(AllKeys) /\ Len(BlockByNumberKeys(n)) <= 1
         /\ \A h \in Seq(Salts) :
              BlockByHashKeys(h) \in Seq(AllKeys) /\ Len(BlockByHashKeys(h)) <= 1
         /\ TransactionKeys \in Seq(AllKeys) /\ Len(TransactionKeys) <= 1
         /\ BlockByTransactionHashKeys \in Seq(AllKeys) /\ Len(BlockByTransactionHashKeys) <= 2
         /\ ReceiptKeys \in Seq(AllKeys) /\ Len(ReceiptKeys) <= 2
         /\ \A n, m \in Nat : LogsKeys(n, m) \in Seq(AllKeys) /\ Len(LogsKeys(n, m)) <= 1
<1>1. \A n \in Nat : BlockByNumberKeys(n) \in Seq(AllKeys) /\ Len(BlockByNumberKeys(n)) <= 1
  BY KeysAreKeys, ShortKeys DEF BlockByNumberKeys
<1>2. \A h \in Seq(Salts) : BlockByHashKeys(h) \in Seq(AllKeys) /\ Len(BlockByHashKeys(h)) <= 1
  BY KeysAreKeys, ShortKeys DEF BlockByHashKeys
<1>3. TransactionKeys \in Seq(AllKeys) /\ Len(TransactionKeys) <= 1
  BY KeysAreKeys, ShortKeys DEF TransactionKeys
<1>4. BlockByTransactionHashKeys \in Seq(AllKeys) /\ Len(BlockByTransactionHashKeys) <= 2
  <2> DEFINE answer == TransactionsRemoteBlock
             b == CHOOSE b \in answer : TRUE
             rest == IF answer = {} THEN <<>> ELSE BlockByHashKeys(b)
  <2>1. answer \in SUBSET Seq(Salts)
    BY StoreIsOK, PerformKeeps, KeysAreKeys DEF TransactionsRemoteBlock
  <2>2. rest \in Seq(AllKeys) /\ Len(rest) <= 1
    <3>1. CASE answer = {}
      BY <3>1, ShortKeys
    <3>2. CASE answer # {}
      <4>1. b \in Seq(Salts)
        BY <2>1, <3>2
      <4> QED
        BY <1>2, <3>2, <4>1
    <3> QED
      BY <3>1, <3>2
  <2>3. BlockByTransactionHashKeys = IF data.txBlock # {} THEN <<>> ELSE <<TransactionKey>> \o rest
    BY DEF BlockByTransactionHashKeys
  <2> HIDE DEF rest
  <2>4. <<TransactionKey>> \in Seq(AllKeys) /\ Len(<<TransactionKey>>) = 1
    BY KeysAreKeys, ShortKeys
  <2>5. <<TransactionKey>> \o rest \in Seq(AllKeys) /\ Len(<<TransactionKey>> \o rest) = 1 + Len(rest)
    BY <2>2, <2>4, ShortKeys
  <2>6. Len(rest) \in Nat
    BY <2>2, LenProperties
  <2>7. CASE data.txBlock # {}
    BY <2>3, <2>7, ShortKeys
  <2>8. CASE data.txBlock = {}
    BY <2>2, <2>3, <2>5, <2>6, <2>8
  <2> QED
    BY <2>7, <2>8
<1>5. ReceiptKeys \in Seq(AllKeys) /\ Len(ReceiptKeys) <= 2
  <2> DEFINE rest == IF UpToFork(PerformAnswer(Store, ReceiptKey)) = {} THEN <<>> ELSE TransactionKeys
  <2>1. rest \in Seq(AllKeys) /\ Len(rest) <= 1
    BY <1>3, ShortKeys
  <2>2. ReceiptKeys = IF data.receipt # {} THEN <<>> ELSE <<ReceiptKey>> \o rest
    BY DEF ReceiptKeys
  <2> HIDE DEF rest
  <2>3. <<ReceiptKey>> \in Seq(AllKeys) /\ Len(<<ReceiptKey>>) = 1
    BY KeysAreKeys, ShortKeys
  <2>4. <<ReceiptKey>> \o rest \in Seq(AllKeys) /\ Len(<<ReceiptKey>> \o rest) = 1 + Len(rest)
    BY <2>1, <2>3, ShortKeys
  <2>5. Len(rest) \in Nat
    BY <2>1, LenProperties
  <2>6. CASE data.receipt # {}
    BY <2>2, <2>6, ShortKeys
  <2>7. CASE data.receipt = {}
    BY <2>1, <2>2, <2>4, <2>5, <2>7
  <2> QED
    BY <2>6, <2>7
<1>6. \A n, m \in Nat : LogsKeys(n, m) \in Seq(AllKeys) /\ Len(LogsKeys(n, m)) <= 1
  <2> SUFFICES ASSUME NEW n \in Nat, NEW m \in Nat
               PROVE  LogsKeys(n, m) \in Seq(AllKeys) /\ Len(LogsKeys(n, m)) <= 1
    OBVIOUS
  <2>1. LogsToBlock(m) \in Nat
    BY DEF LogsToBlock, ChainInv, ClientTypeOK, Client
  <2>2. LogsKey(n, LogsToBlock(m)) \in AllKeys
    BY <2>1, KeysAreKeys
  <2> QED
    BY <2>2, ShortKeys DEF LogsKeys
<1> QED
  BY <1>1, <1>2, <1>3, <1>4, <1>5, <1>6

(* Reads keep the invariant. *)
LEMMA ReadStepKeeps == ChainInv /\ ReadStep => ChainInv'
<1> SUFFICES ASSUME ChainInv, ReadStep PROVE ChainInv'
  OBVIOUS
<1>1. latest \in Nat
  BY DEF ChainInv, ClientTypeOK
<1>2. ASSUME NEW n \in 0..latest, ReadBlockByNumber(n) PROVE ChainInv'
  <2>1. n \in Nat
    BY <1>1
  <2>2. BlockByNumberKeys(n) \in Seq(AllKeys) /\ Len(BlockByNumberKeys(n)) <= 1
    BY <2>1, ReadsAskKeys
  <2> QED
    BY <1>2, <2>2, ReadKeeps DEF ReadBlockByNumber
<1>3. ASSUME NEW h \in BlocksOf(remote), ReadBlockByHash(h) PROVE ChainInv'
  <2>1. h \in Seq(Salts)
    BY RemoteBlocks
  <2>2. BlockByHashKeys(h) \in Seq(AllKeys) /\ Len(BlockByHashKeys(h)) <= 1
    BY <2>1, ReadsAskKeys
  <2> QED
    BY <1>3, <2>2, ReadKeeps DEF ReadBlockByHash
<1>4. CASE ReadTransaction
  <2>1. TransactionKeys \in Seq(AllKeys) /\ Len(TransactionKeys) <= 1
    BY ReadsAskKeys
  <2> QED
    BY <1>4, <2>1, ReadKeeps DEF ReadTransaction
<1>5. CASE ReadBlockByTransactionHash
  <2>1. <<TransactionKey>> \in Seq(AllKeys)
    BY KeysAreKeys, ShortKeys
  <2> QED
    BY <1>5, <2>1, ReadKeeps DEF ReadBlockByTransactionHash
<1>6. CASE ReadTransactionReceipt
  <2>1. <<ReceiptKey>> \in Seq(AllKeys)
    BY KeysAreKeys, ShortKeys
  <2> QED
    BY <1>6, <2>1, ReadKeeps DEF ReadTransactionReceipt
<1>7. ASSUME NEW n \in 0..latest, NEW m \in n..latest, ReadLogs(n, m) PROVE ChainInv'
  <2>1. n \in Nat /\ m \in Nat
    BY <1>1
  <2>2. LogsKeys(n, m) \in Seq(AllKeys) /\ Len(LogsKeys(n, m)) <= 1
    BY <2>1, ReadsAskKeys
  <2> QED
    BY <1>7, <2>2, ReadKeeps DEF ReadLogs
<1> QED
  BY <1>2, <1>3, <1>4, <1>5, <1>6, <1>7 DEF ReadStep

(* The transaction of a receipt is there. *)
LEMMA FinishReceiptKeeps == ChainInv /\ FinishReceipt => ChainInv'
<1> SUFFICES ASSUME ChainInv, FinishReceipt PROVE ChainInv'
  OBVIOUS
<1>1. StoreOK(AfterKeys(TransactionKeys))
  BY ReadsAskKeys, AfterKeysKeeps
<1>2. Stored(AfterKeys(TransactionKeys)) /\ remote' = remote /\ latest' = latest /\ latest \in Nat
  BY DEF FinishReceipt, ChainInv, ClientTypeOK
<1> QED
  BY <1>1, <1>2, StoredKeeps

(* Nothing of the client changes. *)
LEMMA SameClientKeeps ==
  ASSUME ChainInv, remote' = remote, client' = client, disk' = disk, latest' = latest
  PROVE  ChainInv'
<1>1. \A e : EntryFinal(e)' <=> EntryFinal(e)
  BY DEF EntryFinal, RemoteAnswer
<1>2. ClientTypeOK'
  BY DEF ChainInv, ClientTypeOK
<1> QED
  BY <1>1, <1>2 DEF ChainInv

(* A block is added, with the request for its parent. *)
LEMMA AddBlockKeeps ==
  ASSUME ChainInv, NEW salt, AddBlock(salt)
  PROVE  ChainInv'
<1>1. latest \in Nat /\ latest' = latest + 1 /\ remote' = remote
  BY DEF AddBlock, ChainInv, ClientTypeOK
<1>2. BlockByNumberKeys(latest) \in Seq(AllKeys) /\ Len(BlockByNumberKeys(latest)) <= 1
  BY <1>1, ReadsAskKeys
<1>4. StoreOK(AfterKeys(BlockByNumberKeys(latest)))
  BY <1>2, AfterKeysKeeps
<1>5. Stored(AfterKeys(BlockByNumberKeys(latest)))
  BY DEF AddBlock
<1>6. latest' \in Nat
  BY <1>1
<1> QED
  BY <1>1, <1>4, <1>5, <1>6, StoredKeeps

(* Blocks are deleted: neither the client nor the remote chain changes. *)
LEMMA DeleteLaterBlocksKeeps ==
  ASSUME ChainInv, NEW n \in 0..latest, DeleteLaterBlocks(n)
  PROVE  ChainInv'
<1>1. remote' = remote /\ client' = client /\ disk' = disk /\ latest' = n /\ n \in Nat
  BY DEF DeleteLaterBlocks, clientVars, ChainInv, ClientTypeOK
<1>2. \A e : EntryFinal(e)' <=> EntryFinal(e)
  BY <1>1 DEF EntryFinal, RemoteAnswer
<1>3. ClientTypeOK'
  BY <1>1 DEF ChainInv, ClientTypeOK
<1> QED
  BY <1>1, <1>2, <1>3 DEF ChainInv

(* A process starts: its memory is empty, the directory is kept. *)
LEMMA StartKeeps ==
  ASSUME ChainInv, NEW config \in SUBSET Nat, Start(config)
  PROVE  ChainInv'
<1> DEFINE fork == IF config = {} THEN GetLastSafeBlock(Number(remote)) ELSE CHOOSE n \in config : TRUE
           kept == config # {}
<1>1. Number(remote) \in Nat
  BY LenProperties DEF ChainInv, ClientTypeOK, ChainsOf, Number
<1>2. fork \in Nat
  <2>1. CASE config = {}
    BY <1>1, <2>1, ClientAssumption DEF GetLastSafeBlock
  <2>2. CASE config # {}
    BY <2>2
  <2> QED
    BY <2>1, <2>2
<1>3. /\ client' = NewClient(Number(remote), fork, kept)
      /\ disk' = disk /\ remote' = remote
      /\ latest' = client'.fork
  BY DEF Start, MakeForkClient
<1>4. kept \in BOOLEAN
  OBVIOUS
<1> HIDE DEF fork, kept
<1>5. /\ client' \in Client /\ client'.cache = {} /\ client'.latest = Number(remote)
      /\ client'.fork = fork
  BY <1>1, <1>2, <1>3, <1>4 DEF NewClient, Client
<1>6. ClientTypeOK'
  BY <1>2, <1>3, <1>5 DEF ChainInv, ClientTypeOK
<1>7. \A e : EntryFinal(e)' <=> EntryFinal(e)
  BY <1>3 DEF EntryFinal, RemoteAnswer
<1>8. client'.latest <= Number(remote')
  BY <1>1, <1>3, <1>5
<1>9. \A e \in client'.cache \cup disk' : EntryFinal(e)'
  BY <1>3, <1>5, <1>7 DEF ChainInv
<1> QED
  BY <1>6, <1>8, <1>9 DEF ChainInv

(* The initial state *)
LEMMA InitIsChain == Init => ChainInv
<1> SUFFICES ASSUME Init PROVE ChainInv
  OBVIOUS
<1>1. /\ remote = <<"e">> /\ disk = {} /\ latest = 0
      /\ client = [NewClient(0, 0, FALSE) EXCEPT !.running = FALSE]
  BY DEF Init, ClientInit
<1>2. remote \in ChainsOf(RemoteSalts) /\ Len(remote) = 1
  BY <1>1 DEF ChainsOf, RemoteSalts
<1>3. client \in Client /\ client.cache = {} /\ client.latest = 0
  BY <1>1 DEF NewClient, Client
<1>4. ClientTypeOK
  BY <1>1, <1>2, <1>3 DEF ClientTypeOK
<1>5. client.latest <= Number(remote)
  BY <1>2, <1>3 DEF Number
<1>6. client.cache \cup disk = {}
  BY <1>1, <1>3
<1> QED
  BY <1>4, <1>5, <1>6 DEF ChainInv

(* Every step keeps the invariant of the client. *)
LEMMA ChainStepKeeps == ChainInv /\ [Next]_chainVars => ChainInv'
<1> SUFFICES ASSUME ChainInv, [Next]_chainVars PROVE ChainInv'
  OBVIOUS
<1>1. CASE RemoteStep
  BY <1>1, RemoteStepKeeps
<1>2. CASE RequestStep
  BY <1>2, RequestStepKeeps
<1>3. CASE ReadStep
  BY <1>3, ReadStepKeeps
<1>4. ASSUME NEW salt \in LocalSalts, AddBlock(salt) PROVE ChainInv'
  BY <1>4, AddBlockKeeps
<1>5. ASSUME NEW n \in 0..latest, DeleteLaterBlocks(n) PROVE ChainInv'
  BY <1>5, DeleteLaterBlocksKeeps
<1>6. CASE Start({})
  BY <1>6, StartKeeps
<1>7. ASSUME NEW n \in 0..MaxBlock, Start({n}) PROVE ChainInv'
  <2>1. {n} \in SUBSET Nat
    BY ClientAssumption
  <2> QED
    BY <1>7, <2>1, StartKeeps
<1>8. CASE UNCHANGED chainVars
  <2>1. remote' = remote /\ client' = client /\ disk' = disk /\ latest' = latest
    BY <1>8 DEF chainVars
  <2> QED
    BY <2>1, SameClientKeeps
<1>9. CASE FinishReceipt
  BY <1>9, FinishReceiptKeeps
<1>10. CASE FailReceipt
  <2>1. remote' = remote /\ client' = client /\ disk' = disk /\ latest' = latest
    BY <1>10 DEF FailReceipt
  <2> QED
    BY <2>1, SameClientKeeps
<1> QED
  BY <1>1, <1>2, <1>3, <1>4, <1>5, <1>6, <1>7, <1>8, <1>9, <1>10 DEF Next

(* The invariant of the client holds in every state of a forked network. *)
THEOREM ChainInvariance == Spec => []ChainInv
<1>1. Init => ChainInv
  BY InitIsChain
<1>2. ChainInv /\ [Next]_chainVars => ChainInv'
  BY ChainStepKeeps
<1> QED
  BY <1>1, <1>2, PTL DEF Spec

(* Every answer in memory or on disk is what the remote node still answers. *)
THEOREM CachedAnswersAreFinal == Spec => []CachedAnswersFinal
<1>1. ChainInv => CachedAnswersFinal
  BY DEF ChainInv, EntryFinal, CachedAnswersFinal
<1> QED
  BY <1>1, ChainInvariance, PTL

-----------------------------------------------------------------------------
(* A network forked at a final block is one chain *)

(* The blocks of the forked chain with the transaction *)
Included == {b \in BlocksOf(chain) : HasTransaction(b)}

DataType ==
  [byNumber : SUBSET Seq(Salts), byHash : SUBSET Seq(Salts), tx : BOOLEAN,
   txBlock : SUBSET Seq(Salts), receipt : SUBSET Seq(Salts)]

(* The data has blocks of the chain only, and all the local ones. *)
BlocksKept(d) ==
  /\ d.byHash = d.byNumber
  /\ d.byNumber \subseteq BlocksOf(chain)
  /\ \A b \in BlocksOf(chain) : Number(b) > client.fork => b \in d.byNumber

(* It has the transaction, its block and its receipt only if the chain     *)
(* has, and has them when a local block does.                              *)
TransactionIsKept(d) ==
  /\ d.tx => Included # {}
  /\ d.txBlock \subseteq Included
  /\ d.receipt \subseteq Included
  /\ \A b \in Included : Number(b) > client.fork =>
       d.tx /\ b \in d.txBlock /\ b \in d.receipt

DataOK(d) == d \in DataType /\ BlocksKept(d) /\ TransactionIsKept(d)

(* The chain is that of the remote network up to the fork block. *)
ForkedAt ==
  /\ chain \in ChainsOf(Salts)
  /\ latest = Number(chain)
  /\ client.fork <= latest
  /\ AgreeTo(remote, chain, client.fork)
  /\ TransactionOnce(chain)

(* What is in memory was complete, and there is one file per request. *)
Intact(store) ==
  /\ \A e \in store.cache : e.answer # Torn
  /\ \A e, f \in store.disk : e.key = f.key => e = f

ForkInv ==
  /\ ChainInv
  /\ Intact(Store)
  /\ TransactionOnce(remote)
  /\ SafeFork => ForkedAt /\ DataOK(data)
  /\ SafeFork => awaiting \subseteq Included

-----------------------------------------------------------------------------
(* What is read *)

(* Salts of the remote chain are salts. *)
LEMMA RemoteIsChain ==
  ASSUME NEW c \in ChainsOf(RemoteSalts)
  PROVE  c \in ChainsOf(Salts)
<1>1. c \in Seq(RemoteSalts) /\ Len(c) >= 1
  BY DEF ChainsOf
<1>2. c \in Seq(Salts)
  BY <1>1, SequenceInSuperset DEF Salts
<1> QED
  BY <1>1, <1>2 DEF ChainsOf

(* Up to the fork block the chain has the blocks of the remote one. *)
LEMMA SharedBlocks ==
  ASSUME ChainInv, TransactionOnce(remote), ForkedAt
  PROVE  /\ client.fork \in Nat /\ latest \in Nat /\ client.fork <= latest
         /\ latest = Number(chain)
         /\ \A b \in BlocksOf(chain) : b \in Seq(Salts) /\ Number(b) \in 0..latest
         /\ \A b \in BlocksOf(remote) : b \in Seq(Salts) /\ Number(b) \in Nat
         /\ \A b, d \in BlocksOf(chain) : Number(b) = Number(d) => b = d
         /\ \A n \in 0..latest : \E b \in BlocksOf(chain) : Number(b) = n
         /\ \A b, d \in BlocksOf(chain) : HasTransaction(b) /\ HasTransaction(d) => b = d
         /\ \A b, d \in BlocksOf(remote) : HasTransaction(b) /\ HasTransaction(d) => b = d
         /\ \A b : Number(b) \in Int /\ Number(b) <= client.fork =>
              (b \in BlocksOf(remote) <=> b \in BlocksOf(chain))
<1>1. /\ client.fork \in Nat /\ latest \in Nat /\ client.fork <= latest
      /\ latest = Number(chain)
  BY DEF ChainInv, ClientTypeOK, Client, ForkedAt
<1>2. remote \in ChainsOf(Salts) /\ chain \in ChainsOf(Salts)
  BY RemoteIsChain DEF ChainInv, ClientTypeOK, ForkedAt
<1>3. \A b \in BlocksOf(chain) : b \in Seq(Salts) /\ Number(b) \in 0..latest
  BY <1>1, <1>2, BlocksHaveNumbers DEF ChainsOf
<1>4. \A b \in BlocksOf(remote) : b \in Seq(Salts) /\ Number(b) \in Nat
  <2>1. \A b \in BlocksOf(remote) : b \in Seq(Salts) /\ Number(b) \in 0..Number(remote)
    BY <1>2, BlocksHaveNumbers DEF ChainsOf
  <2> QED
    BY <2>1
<1>5. \A b, d \in BlocksOf(chain) : Number(b) = Number(d) => b = d
  BY <1>2, BlocksHaveNumbers
<1>6. \A n \in 0..latest : \E b \in BlocksOf(chain) : Number(b) = n
  BY <1>1, <1>2, BlocksHaveNumbers
<1>7. \A b, d \in BlocksOf(chain) : HasTransaction(b) /\ HasTransaction(d) => b = d
  BY <1>2, OneIncludes DEF ForkedAt
<1>8. \A b, d \in BlocksOf(remote) : HasTransaction(b) /\ HasTransaction(d) => b = d
  BY <1>2, OneIncludes
<1>9. \A b : Number(b) \in Int /\ Number(b) <= client.fork =>
        (b \in BlocksOf(remote) <=> b \in BlocksOf(chain))
  <2>1. client.fork \in Int /\ AgreeTo(remote, chain, client.fork)
    BY <1>1 DEF ForkedAt
  <2> QED
    BY <1>2, <2>1, AgreeBlocks
<1> QED
  BY <1>1, <1>3, <1>4, <1>5, <1>6, <1>7, <1>8, <1>9

(* An answer of the remote node is not a torn file. *)
LEMMA AnswerIsNotTorn ==
  ASSUME ChainInv, NEW k \in AllKeys
  PROVE  RemoteAnswer(k) # Torn
<1>1. remote \in ChainsOf(RemoteSalts)
  BY DEF ChainInv, ClientTypeOK
<1>2. RemoteAnswer(k) \subseteq BlocksOf(remote)
  BY <1>1, RemoteAnswerType
<1>3. \A b \in BlocksOf(remote) : b \in ChainsOf(RemoteSalts)
  BY <1>1, BlocksHaveNumbers
<1>4. <<>> \notin ChainsOf(RemoteSalts)
  BY DEF ChainsOf
<1> QED
  BY <1>2, <1>3, <1>4 DEF Torn

(* A request that does not throw is answered as the remote node would.     *)
LEMMA AnswersAreRemote ==
  ASSUME ChainInv, Intact(Store), NEW k, ~PerformThrows(Store, k)
  PROVE  PerformAnswer(Store, k) = RemoteAnswer(k)
<1>1. /\ Store.cache \in SUBSET Entries /\ Store.disk \in SUBSET Entries
      /\ \A e \in Store.cache \cup Store.disk : EntryFinal(e)
  BY StoreIsOK DEF StoreOK
<1>2. ASSUME NEW entries \in SUBSET Entries, Has(entries, k), \A e \in entries : EntryFinal(e),
             Lookup(entries, k) # Torn
      PROVE  Lookup(entries, k) = RemoteAnswer(k)
  <2>1. Entry(k, Lookup(entries, k)) \in entries
    BY <1>2, LookupFacts
  <2>2. EntryFinal(Entry(k, Lookup(entries, k)))
    BY <1>2, <2>1
  <2> QED
    BY <1>2, <2>2 DEF EntryFinal, Entry
<1>3. CASE InMemory(Store, k)
  <2>1. PerformAnswer(Store, k) = Lookup(Store.cache, k)
    BY <1>3 DEF PerformAnswer
  <2>2. Has(Store.cache, k)
    BY <1>3 DEF InMemory
  <2>3. Entry(k, Lookup(Store.cache, k)) \in Store.cache
    BY <1>1, <2>2, LookupFacts
  <2>4. Lookup(Store.cache, k) # Torn
    BY <2>3 DEF Intact, Entry
  <2> QED
    BY <1>1, <1>2, <2>1, <2>2, <2>4
<1>4. CASE ~InMemory(Store, k) /\ OnDisk(Store, k)
  <2>1. PerformAnswer(Store, k) = Lookup(Store.disk, k)
    BY <1>4 DEF PerformAnswer
  <2>2. Has(Store.disk, k)
    BY <1>4 DEF OnDisk
  <2>3. Lookup(Store.disk, k) # Torn
    BY <1>4 DEF PerformThrows
  <2> QED
    BY <1>1, <1>2, <2>1, <2>2, <2>3
<1>5. CASE ~InMemory(Store, k) /\ ~OnDisk(Store, k)
  BY <1>5 DEF PerformAnswer
<1> QED
  BY <1>3, <1>4, <1>5

(* A request that does not throw keeps the store intact, and does not make *)
(* another one throw.                                                      *)
LEMMA PerformKeepsIntact ==
  ASSUME ChainInv, NEW store, StoreOK(store), Intact(store), NEW k \in AllKeys,
         ~PerformThrows(store, k)
  PROVE  /\ Intact(Perform(store, k))
         /\ \A j : j # k /\ ~PerformThrows(store, j) => ~PerformThrows(Perform(store, k), j)
<1> DEFINE answer == PerformAnswer(store, k)
           e == Entry(k, answer)
           after == Perform(store, k)
<1>1. /\ store.cache \in SUBSET Entries /\ store.disk \in SUBSET Entries
      /\ store = [cache |-> store.cache, disk |-> store.disk]
  BY DEF StoreOK
<1>2. e.key = k /\ e.answer = answer
  BY DEF Entry
<1>3. CASE InMemory(store, k)
  BY <1>3 DEF Perform
<1>4. CASE ~InMemory(store, k) /\ OnDisk(store, k)
  <2>1. after = [store EXCEPT !.cache = @ \cup {e}] /\ answer = Lookup(store.disk, k)
    BY <1>4 DEF Perform, PerformAnswer
  <2>2. answer # Torn
    BY <1>4, <2>1 DEF PerformThrows
  <2> HIDE DEF e, answer, after
  <2>3. after.cache = store.cache \cup {e} /\ after.disk = store.disk
    BY <1>1, <2>1
  <2>4. Intact(after)
    BY <1>2, <2>2, <2>3 DEF Intact
  <2>5. ASSUME NEW j, j # k, ~PerformThrows(store, j) PROVE ~PerformThrows(after, j)
    BY <1>2, <2>3, <2>5 DEF PerformThrows, InMemory, OnDisk, Has
  <2> QED
    BY <2>4, <2>5 DEF after
<1>5. CASE ~InMemory(store, k) /\ ~OnDisk(store, k)
  <2> DEFINE cached == CanBeCached(MaxAffectedBlockNumber(k, answer))
  <2>1. answer = RemoteAnswer(k)
    BY <1>5 DEF PerformAnswer
  <2>2. after = [cache |-> IF cached THEN store.cache \cup {e} ELSE store.cache,
                 disk |-> IF cached /\ client.toDisk THEN store.disk \cup {e} ELSE store.disk]
    BY <1>5 DEF Perform
  <2>3. answer # Torn
    BY <2>1, AnswerIsNotTorn
  <2> HIDE DEF e, answer, after, cached
  <2>4. /\ after.cache = store.cache \cup {e} \/ after.cache = store.cache
        /\ after.disk = store.disk \/ (client.toDisk /\ after.disk = store.disk \cup {e})
    <3>1. CASE ~cached
      BY <2>2, <3>1
    <3>2. CASE cached /\ client.toDisk
      BY <2>2, <3>2
    <3>3. CASE cached /\ ~client.toDisk
      BY <2>2, <3>3
    <3> QED
      BY <3>1, <3>2, <3>3
  <2>5. client.toDisk => \A f \in store.disk : f.key # k
    BY <1>5 DEF OnDisk, Has
  <2>6. Intact(after)
    BY <1>2, <2>3, <2>4, <2>5 DEF Intact
  <2>7. ASSUME NEW j, j # k, ~PerformThrows(store, j) PROVE ~PerformThrows(after, j)
    <3>1. (Has(after.cache, j) <=> Has(store.cache, j)) /\ (Has(after.disk, j) <=> Has(store.disk, j))
      BY <1>2, <2>4, <2>7 DEF Has
    <3> SUFFICES ASSUME PerformThrows(after, j) PROVE FALSE
      OBVIOUS
    <3>2. /\ ~Has(store.cache, j) /\ client.toDisk /\ Has(store.disk, j)
          /\ Has(after.disk, j) /\ Lookup(after.disk, j) = Torn
      BY <3>1 DEF PerformThrows, InMemory, OnDisk
    <3>3. after.disk \in SUBSET Entries
      <4>1. StoreOK(after)
        BY PerformKeeps DEF after
      <4> QED
        BY <4>1 DEF StoreOK
    <3>4. Entry(j, Lookup(after.disk, j)) \in after.disk /\ Entry(j, Lookup(store.disk, j)) \in store.disk
      BY <1>1, <3>2, <3>3, LookupFacts
    <3>5. Entry(j, Lookup(after.disk, j)) \in store.disk
      BY <1>2, <2>4, <2>7, <3>4 DEF Entry
    <3>6. Entry(j, Lookup(after.disk, j)) = Entry(j, Lookup(store.disk, j))
      BY <3>4, <3>5 DEF Intact, Entry
    <3>7. Lookup(store.disk, j) = Torn
      BY <3>2, <3>6 DEF Entry
    <3> QED
      BY <2>7, <3>2, <3>7 DEF PerformThrows, InMemory, OnDisk
  <2> QED
    BY <2>6, <2>7 DEF after
<1> QED
  BY <1>3, <1>4, <1>5

(* What the remote node answers to each request *)
LEMMA RemoteAnswers ==
  /\ \A n : RemoteAnswer(NumberKey(n)) = {b \in BlocksOf(remote) : Number(b) = n}
  /\ \A h : RemoteAnswer(HashKey(h)) = {b \in BlocksOf(remote) : b = h}
  /\ RemoteAnswer(TransactionKey) = {b \in BlocksOf(remote) : HasTransaction(b)}
  /\ RemoteAnswer(ReceiptKey) = {b \in BlocksOf(remote) : HasTransaction(b)}
  /\ \A n, m : RemoteAnswer(LogsKey(n, m))
                 = {b \in BlocksOf(remote) : Number(b) \in n..m /\ HasTransaction(b)}
BY DEF RemoteAnswer, NumberKey, HashKey, TransactionKey, ReceiptKey, LogsKey, Key

(* All that is known of a network forked at a final block *)
OneChain ==
  /\ ChainInv
  /\ Intact(Store)
  /\ TransactionOnce(remote)
  /\ ForkedAt
  /\ DataOK(data)

(* What is accepted of the remote answers is of the forked chain. *)
LEMMA AcceptedAnswers ==
  ASSUME OneChain
  PROVE  /\ \A n \in Nat : n <= client.fork =>
              UpToFork(RemoteAnswer(NumberKey(n))) = {b \in BlocksOf(chain) : Number(b) = n}
         /\ \A h : UpToFork(RemoteAnswer(HashKey(h)))
                   = {b \in BlocksOf(chain) : b = h /\ Number(b) <= client.fork}
         /\ UpToFork(RemoteAnswer(TransactionKey)) = {b \in Included : Number(b) <= client.fork}
         /\ UpToFork(RemoteAnswer(ReceiptKey)) = {b \in Included : Number(b) <= client.fork}
         /\ \A n, m \in Nat : m <= client.fork =>
              RemoteAnswer(LogsKey(n, m)) = {b \in Included : Number(b) \in n..m}
<1>1. /\ client.fork \in Nat /\ latest \in Nat
      /\ \A b \in BlocksOf(chain) : Number(b) \in 0..latest
      /\ \A b \in BlocksOf(remote) : Number(b) \in Nat
      /\ \A b : Number(b) \in Int /\ Number(b) <= client.fork =>
           (b \in BlocksOf(remote) <=> b \in BlocksOf(chain))
  BY SharedBlocks DEF OneChain
<1>2. \A b : b \in BlocksOf(remote) /\ Number(b) <= client.fork
            <=> b \in BlocksOf(chain) /\ Number(b) <= client.fork
  BY <1>1
<1>3. ASSUME NEW n \in Nat, n <= client.fork
      PROVE  UpToFork(RemoteAnswer(NumberKey(n))) = {b \in BlocksOf(chain) : Number(b) = n}
  <2>1. UpToFork(RemoteAnswer(NumberKey(n)))
          = {b \in {c \in BlocksOf(remote) : Number(c) = n} : Number(b) <= client.fork}
    BY RemoteAnswers DEF UpToFork
  <2> QED
    BY <1>2, <1>3, <2>1
<1>4. ASSUME NEW h
      PROVE  UpToFork(RemoteAnswer(HashKey(h)))
               = {b \in BlocksOf(chain) : b = h /\ Number(b) <= client.fork}
  <2>1. UpToFork(RemoteAnswer(HashKey(h)))
          = {b \in {c \in BlocksOf(remote) : c = h} : Number(b) <= client.fork}
    BY RemoteAnswers DEF UpToFork
  <2> QED
    BY <1>2, <2>1
<1>5. {b \in {c \in BlocksOf(remote) : HasTransaction(c)} : Number(b) <= client.fork}
        = {b \in Included : Number(b) <= client.fork}
  BY <1>2 DEF Included
<1>6. /\ UpToFork(RemoteAnswer(TransactionKey)) = {b \in Included : Number(b) <= client.fork}
      /\ UpToFork(RemoteAnswer(ReceiptKey)) = {b \in Included : Number(b) <= client.fork}
  BY <1>5, RemoteAnswers DEF UpToFork
<1>7. ASSUME NEW n \in Nat, NEW m \in Nat, m <= client.fork
      PROVE  RemoteAnswer(LogsKey(n, m)) = {b \in Included : Number(b) \in n..m}
  <2>1. RemoteAnswer(LogsKey(n, m))
          = {b \in BlocksOf(remote) : Number(b) \in n..m /\ HasTransaction(b)}
    BY RemoteAnswers
  <2>2. \A b : Number(b) \in n..m => Number(b) <= client.fork
    BY <1>1, <1>7
  <2> QED
    BY <1>2, <2>1, <2>2 DEF Included
<1> QED
  BY <1>3, <1>4, <1>6, <1>7

(* Where the data has a block it is that of the chain, and it has all the  *)
(* local ones.                                                             *)
LEMMA DataFacts ==
  ASSUME OneChain
  PROVE  /\ client.fork \in Nat /\ latest \in Nat /\ client.fork <= latest
         /\ latest = Number(chain)
         /\ \A b \in BlocksOf(chain) : b \in Seq(Salts) /\ Number(b) \in 0..latest
         /\ \A b \in BlocksOf(remote) : b \in Seq(Salts) /\ Number(b) \in Nat
         /\ \A b, d \in BlocksOf(chain) : Number(b) = Number(d) => b = d
         /\ \A b, d \in Included : b = d
         /\ Included \subseteq BlocksOf(chain)
         /\ data.byHash = data.byNumber /\ data.byNumber \subseteq BlocksOf(chain)
         /\ \A b \in BlocksOf(chain) : b \in data.byNumber \/ Number(b) <= client.fork
         /\ data.txBlock \subseteq Included /\ data.receipt \subseteq Included
         /\ \A b \in Included :
              Number(b) <= client.fork \/ (b \in data.txBlock /\ b \in data.receipt)
<1>1. /\ client.fork \in Nat /\ latest \in Nat /\ client.fork <= latest
      /\ latest = Number(chain)
      /\ \A b \in BlocksOf(chain) : b \in Seq(Salts) /\ Number(b) \in 0..latest
      /\ \A b \in BlocksOf(remote) : b \in Seq(Salts) /\ Number(b) \in Nat
      /\ \A b, d \in BlocksOf(chain) : Number(b) = Number(d) => b = d
      /\ \A b, d \in BlocksOf(chain) : HasTransaction(b) /\ HasTransaction(d) => b = d
  BY SharedBlocks DEF OneChain
<1>2. \A b \in BlocksOf(chain) : Number(b) > client.fork \/ Number(b) <= client.fork
  BY <1>1
<1>3. /\ data.byHash = data.byNumber /\ data.byNumber \subseteq BlocksOf(chain)
      /\ \A b \in BlocksOf(chain) : b \in data.byNumber \/ Number(b) <= client.fork
  BY <1>2 DEF OneChain, DataOK, BlocksKept
<1>4. /\ data.txBlock \subseteq Included /\ data.receipt \subseteq Included
      /\ Included \subseteq BlocksOf(chain)
  BY DEF OneChain, DataOK, TransactionIsKept, Included
<1>5. \A b \in Included :
        Number(b) <= client.fork \/ (b \in data.txBlock /\ b \in data.receipt)
  BY <1>2, <1>4 DEF OneChain, DataOK, TransactionIsKept
<1>6. \A b, d \in Included : b = d
  BY <1>1 DEF Included
<1> QED
  BY <1>1, <1>3, <1>4, <1>5, <1>6

(* A read asks for what it needs, and only then. *)
LEMMA KeyAnswers ==
  ASSUME OneChain, NEW keys, AnswersOnce(keys), NEW i \in DOMAIN keys
  PROVE  PerformAnswer(Store, keys[i]) = RemoteAnswer(keys[i])
BY AnswersAreRemote DEF AnswersOnce, OneChain

(* _getBlockByNumber *)
LEMMA BlockByNumberIsOfChain ==
  ASSUME OneChain, NEW n \in Nat, n <= latest + 1, AnswersOnce(BlockByNumberKeys(n))
  PROVE  GetBlockByNumber(n) = {b \in BlocksOf(chain) : Number(b) = n}
<1>1. /\ client.fork \in Nat /\ latest \in Nat
      /\ \A b \in BlocksOf(chain) : Number(b) \in 0..latest
      /\ \A b, d \in BlocksOf(chain) : Number(b) = Number(d) => b = d
      /\ \A b \in BlocksOf(chain) : b \in data.byNumber \/ Number(b) <= client.fork
      /\ data.byNumber \subseteq BlocksOf(chain)
  BY DataFacts
<1>2. CASE n > latest
  <2>0. ~(n <= latest)
    BY <1>1, <1>2
  <2>1. GetBlockByNumber(n) = {}
    BY <1>2, <2>0 DEF GetBlockByNumber
  <2>2. \A b \in BlocksOf(chain) : Number(b) # n
    BY <1>1, <1>2
  <2> QED
    BY <2>1, <2>2
<1>3. CASE n <= latest /\ \E b \in data.byNumber : Number(b) = n
  <2>1. BlockByNumberKeys(n) = <<>>
    BY <1>3 DEF BlockByNumberKeys
  <2>2. ~(n > latest)
    BY <1>1, <1>3
  <2>3. GetBlockByNumber(n) = {b \in data.byNumber : Number(b) = n}
    BY <1>3, <2>1, <2>2 DEF GetBlockByNumber
  <2> QED
    BY <1>1, <1>3, <2>3
<1>4. CASE n <= latest /\ ~\E b \in data.byNumber : Number(b) = n
  <2>1. ~(n > latest)
    BY <1>1, <1>4
  <2>2. BlockByNumberKeys(n) = <<NumberKey(n)>>
    BY <1>4, <2>1 DEF BlockByNumberKeys
  <2>3. PerformAnswer(Store, NumberKey(n)) = RemoteAnswer(NumberKey(n))
    <3>1. 1 \in DOMAIN BlockByNumberKeys(n) /\ BlockByNumberKeys(n)[1] = NumberKey(n)
      BY <2>2
    <3> QED
      BY <3>1, KeyAnswers
  <2>4. BlockByNumberKeys(n) # <<>>
    BY <2>2
  <2>5. GetBlockByNumber(n) = UpToFork(PerformAnswer(Store, NumberKey(n)))
    BY <2>1, <2>4 DEF GetBlockByNumber
  <2>6. n <= client.fork
    <3>1. PICK b \in BlocksOf(chain) : Number(b) = n
      <4>1. n \in 0..latest
        BY <1>1, <1>4
      <4> QED
        BY <4>1, SharedBlocks DEF OneChain
    <3> QED
      BY <1>1, <1>4, <3>1
  <2> QED
    BY <2>3, <2>5, <2>6, AcceptedAnswers
<1> QED
  BY <1>1, <1>2, <1>3, <1>4

(* _getBlockByHash *)
LEMMA BlockByHashIsOfChain ==
  ASSUME OneChain, NEW h, AnswersOnce(BlockByHashKeys(h))
  PROVE  GetBlockByHash(h) = {b \in BlocksOf(chain) : b = h}
<1>1. /\ data.byHash \subseteq BlocksOf(chain)
      /\ \A b \in BlocksOf(chain) : b \in data.byHash \/ Number(b) <= client.fork
  BY DataFacts
<1>2. CASE h \in data.byHash
  <2>1. GetBlockByHash(h) = {h}
    BY <1>2 DEF GetBlockByHash
  <2> QED
    BY <1>1, <1>2, <2>1
<1>3. CASE h \notin data.byHash
  <2>1. BlockByHashKeys(h) = <<HashKey(h)>>
    BY <1>3 DEF BlockByHashKeys
  <2>2. PerformAnswer(Store, HashKey(h)) = RemoteAnswer(HashKey(h))
    <3>1. 1 \in DOMAIN BlockByHashKeys(h) /\ BlockByHashKeys(h)[1] = HashKey(h)
      BY <2>1
    <3> QED
      BY <3>1, KeyAnswers
  <2>3. GetBlockByHash(h) = UpToFork(RemoteAnswer(HashKey(h)))
    BY <1>3, <2>2 DEF GetBlockByHash
  <2>4. GetBlockByHash(h) = {b \in BlocksOf(chain) : b = h /\ Number(b) <= client.fork}
    BY <2>3, AcceptedAnswers
  <2> QED
    BY <1>1, <1>3, <2>4
<1> QED
  BY <1>2, <1>3

(* getTransaction *)
LEMMA TransactionIsOfChain ==
  ASSUME OneChain, AnswersOnce(TransactionKeys)
  PROVE  GetTransaction <=> Included # {}
<1>1. /\ data.tx => Included # {}
      /\ \A b \in Included : Number(b) > client.fork => data.tx
  BY DEF OneChain, DataOK, TransactionIsKept
<1>2. CASE data.tx
  BY <1>1, <1>2 DEF GetTransaction
<1>3. CASE ~data.tx
  <2>1. TransactionKeys = <<TransactionKey>>
    BY <1>3 DEF TransactionKeys
  <2>2. PerformAnswer(Store, TransactionKey) = RemoteAnswer(TransactionKey)
    <3>1. 1 \in DOMAIN TransactionKeys /\ TransactionKeys[1] = TransactionKey
      BY <2>1
    <3> QED
      BY <3>1, KeyAnswers
  <2>3. UpToFork(PerformAnswer(Store, TransactionKey)) = {b \in Included : Number(b) <= client.fork}
    BY <2>2, AcceptedAnswers
  <2>4. \A b \in Included : Number(b) <= client.fork
    <3>1. \A b \in Included : Number(b) > client.fork \/ Number(b) <= client.fork
      BY DataFacts
    <3> QED
      BY <1>1, <1>3, <3>1
  <2>5. UpToFork(PerformAnswer(Store, TransactionKey)) = Included
    BY <2>3, <2>4
  <2> QED
    BY <1>3, <2>5 DEF GetTransaction
<1> QED
  BY <1>2, <1>3

(* Two sets with at most one element between them *)
LEMMA SameIncluded ==
  ASSUME NEW S, NEW T, S \subseteq T, S # {}, \A b, d \in T : b = d
  PROVE  S = T
OBVIOUS

(* getBlockByTransactionHash *)
LEMMA TransactionsBlockIsOfChain ==
  ASSUME OneChain, AnswersOnce(BlockByTransactionHashKeys)
  PROVE  GetBlockByTransactionHash = Included
<1>1. /\ \A b, d \in Included : b = d
      /\ Included \subseteq BlocksOf(chain)
      /\ data.txBlock \subseteq Included
      /\ \A b \in Included : Number(b) <= client.fork \/ b \in data.txBlock
  BY DataFacts
<1>2. CASE data.txBlock # {}
  <2>1. GetBlockByTransactionHash = data.txBlock
    BY <1>2 DEF GetBlockByTransactionHash
  <2> QED
    BY <1>1, <1>2, <2>1, SameIncluded
<1>3. CASE data.txBlock = {}
  <2> DEFINE rest == IF TransactionsRemoteBlock = {} THEN <<>>
                     ELSE BlockByHashKeys(CHOOSE b \in TransactionsRemoteBlock : TRUE)
  <2>1. BlockByTransactionHashKeys = <<TransactionKey>> \o rest
    BY <1>3 DEF BlockByTransactionHashKeys
  <2>2. rest \in Seq(AllKeys) /\ <<TransactionKey>> \in Seq(AllKeys)
    <3>1. ChainInv
      BY DEF OneChain
    <3>2. TransactionsRemoteBlock \in SUBSET Seq(Salts)
      BY <3>1, StoreIsOK, PerformKeeps, KeysAreKeys DEF TransactionsRemoteBlock
    <3>3. TransactionsRemoteBlock # {} =>
            (CHOOSE b \in TransactionsRemoteBlock : TRUE) \in Seq(Salts)
      BY <3>2
    <3> QED
      BY <3>1, <3>3, ReadsAskKeys, ShortKeys, KeysAreKeys
  <2> HIDE DEF rest
  <2>3. /\ 1 \in DOMAIN BlockByTransactionHashKeys
        /\ BlockByTransactionHashKeys[1] = TransactionKey
        /\ \A i \in DOMAIN rest : /\ i + 1 \in DOMAIN BlockByTransactionHashKeys
                                  /\ BlockByTransactionHashKeys[i + 1] = rest[i]
    BY <2>1, <2>2
  <2>4. TransactionsRemoteBlock = {b \in BlocksOf(remote) : HasTransaction(b)}
    BY <2>3, KeyAnswers, RemoteAnswers DEF TransactionsRemoteBlock
  <2>5. {b \in TransactionsRemoteBlock : Number(b) <= client.fork} = Included
    <3>1. UpToFork(RemoteAnswer(TransactionKey)) = {b \in Included : Number(b) <= client.fork}
      BY AcceptedAnswers
    <3>2. {b \in Included : Number(b) <= client.fork} = Included
      BY <1>1, <1>3
    <3> QED
      BY <2>4, <3>1, <3>2, RemoteAnswers DEF UpToFork
  <2>6. CASE TransactionsRemoteBlock = {}
    BY <1>3, <2>5, <2>6 DEF GetBlockByTransactionHash
  <2>7. CASE TransactionsRemoteBlock # {}
    <3> DEFINE t == CHOOSE b \in TransactionsRemoteBlock : TRUE
    <3>1. t \in TransactionsRemoteBlock
      BY <2>7
    <3>2. GetBlockByTransactionHash = GetBlockByHash(t)
      BY <1>3, <2>7 DEF GetBlockByTransactionHash
    <3>3. rest = BlockByHashKeys(t)
      BY <2>7 DEF rest
    <3> HIDE DEF t
    <3>4. AnswersOnce(BlockByHashKeys(t))
      BY <2>3, <3>3 DEF AnswersOnce
    <3>5. GetBlockByHash(t) = {b \in BlocksOf(chain) : b = t}
      BY <3>4, BlockByHashIsOfChain
    <3>6. HasTransaction(t) /\ \A b \in TransactionsRemoteBlock : b = t
      <4>1. \A b, d \in BlocksOf(remote) : HasTransaction(b) /\ HasTransaction(d) => b = d
        BY SharedBlocks DEF OneChain
      <4> QED
        BY <2>4, <3>1, <4>1
    <3>7. CASE t \in BlocksOf(chain)
      <4>1. t \in Included
        BY <3>6, <3>7 DEF Included
      <4> QED
        BY <1>1, <3>2, <3>5, <3>7, <4>1
    <3>8. CASE t \notin BlocksOf(chain)
      <4>1. Included = {}
        BY <1>1, <2>5, <3>6, <3>8
      <4> QED
        BY <3>2, <3>5, <3>8, <4>1
    <3> QED
      BY <3>7, <3>8
  <2> QED
    BY <2>6, <2>7
<1> QED
  BY <1>2, <1>3

(* getTransactionReceipt *)
LEMMA ReceiptIsOfChain ==
  ASSUME OneChain, AnswersOnce(ReceiptKeys)
  PROVE  GetTransactionReceipt = Included
<1>1. /\ \A b, d \in Included : b = d
      /\ data.receipt \subseteq Included
      /\ \A b \in Included : Number(b) <= client.fork \/ b \in data.receipt
  BY DataFacts
<1>2. CASE data.receipt # {}
  <2>1. GetTransactionReceipt = data.receipt
    BY <1>2 DEF GetTransactionReceipt
  <2> QED
    BY <1>1, <1>2, <2>1, SameIncluded
<1>3. CASE data.receipt = {}
  <2> DEFINE rest == IF UpToFork(PerformAnswer(Store, ReceiptKey)) = {} THEN <<>> ELSE TransactionKeys
  <2>1. ReceiptKeys = <<ReceiptKey>> \o rest
    BY <1>3 DEF ReceiptKeys
  <2>2. rest \in Seq(AllKeys) /\ <<ReceiptKey>> \in Seq(AllKeys)
    BY ReadsAskKeys, ShortKeys, KeysAreKeys DEF OneChain
  <2> HIDE DEF rest
  <2>3. 1 \in DOMAIN ReceiptKeys /\ ReceiptKeys[1] = ReceiptKey
    BY <2>1, <2>2
  <2>4. GetTransactionReceipt = UpToFork(RemoteAnswer(ReceiptKey))
    BY <1>3, <2>3, KeyAnswers DEF GetTransactionReceipt
  <2>5. GetTransactionReceipt = {b \in Included : Number(b) <= client.fork}
    BY <2>4, AcceptedAnswers
  <2> QED
    BY <1>1, <1>3, <2>5
<1> QED
  BY <1>2, <1>3

(* getLogs *)
LEMMA LogsAreOfChain ==
  ASSUME OneChain, NEW n \in Nat, NEW m \in Nat, AnswersOnce(LogsKeys(n, m))
  PROVE  GetLogs(n, m) = {b \in Included : Number(b) \in n..m}
<1>1. /\ client.fork \in Nat
      /\ \A b \in BlocksOf(chain) : Number(b) \in 0..latest
      /\ \A b \in BlocksOf(chain) : b \in data.byNumber \/ Number(b) <= client.fork
      /\ data.byNumber \subseteq BlocksOf(chain)
      /\ \A b \in Included : Number(b) <= client.fork \/ b \in data.receipt
  BY DataFacts
<1>2. \A b \in BlocksOf(chain) : Number(b) \in Int
  BY <1>1, DataFacts
<1>3. ASSUME NEW from \in Nat, from > client.fork
      PROVE  DataGetLogs(data, from, m) = {b \in Included : Number(b) \in from..m}
  <2>1. DataGetLogs(data, from, m)
          = {b \in data.byNumber : Number(b) \in from..m /\ HasTransaction(b) /\ data.receipt # {}}
    BY DEF DataGetLogs
  <2>2. \A b : Number(b) \in from..m => ~(Number(b) <= client.fork)
    BY <1>1, <1>3
  <2> QED
    BY <1>1, <2>1, <2>2 DEF Included
<1>4. CASE n > client.fork
  <2>1. ~(n <= client.fork)
    BY <1>1, <1>4
  <2>2. GetLogs(n, m) = DataGetLogs(data, n, m)
    BY <2>1 DEF GetLogs
  <2> QED
    BY <1>3, <1>4, <2>2
<1>5. CASE n <= client.fork
  <2> DEFINE to == LogsToBlock(m)
  <2>1. LogsKeys(n, m) = <<LogsKey(n, to)>>
    BY <1>5 DEF LogsKeys
  <2>2. PerformAnswer(Store, LogsKey(n, to)) = RemoteAnswer(LogsKey(n, to))
    <3>1. 1 \in DOMAIN LogsKeys(n, m) /\ LogsKeys(n, m)[1] = LogsKey(n, to)
      BY <2>1
    <3> QED
      BY <3>1, KeyAnswers
  <2>3. to \in Nat /\ to <= client.fork /\ to = IF m > client.fork THEN client.fork ELSE m
    BY <1>1 DEF LogsToBlock
  <2>4. RemoteAnswer(LogsKey(n, to)) = {b \in Included : Number(b) \in n..to}
    <3> HIDE DEF to
    <3> QED
      BY <2>3, AcceptedAnswers
  <2>5. CASE m > client.fork
    <3>1. GetLogs(n, m) = {b \in Included : Number(b) \in n..client.fork}
                            \cup DataGetLogs(data, client.fork + 1, m)
      BY <1>5, <2>2, <2>3, <2>4, <2>5 DEF GetLogs
    <3>2. DataGetLogs(data, client.fork + 1, m) = {b \in Included : Number(b) \in (client.fork + 1)..m}
      <4>1. client.fork + 1 \in Nat /\ client.fork + 1 > client.fork
        BY <1>1
      <4> QED
        BY <1>3, <4>1
    <3>3. \A l \in Int : l \in n..m <=> l \in n..client.fork \/ l \in (client.fork + 1)..m
      BY <1>1, <1>5, <2>5
    <3>4. \A b \in Included : Number(b) \in Int
      BY <1>2 DEF Included
    <3> QED
      BY <3>1, <3>2, <3>3, <3>4
  <2>6. CASE ~(m > client.fork)
    <3>1. GetLogs(n, m) = {b \in Included : Number(b) \in n..to} \cup {} /\ to = m
      BY <1>5, <2>2, <2>3, <2>4, <2>6 DEF GetLogs
    <3> QED
      BY <3>1
  <2> QED
    BY <2>5, <2>6
<1> QED
  BY <1>1, <1>4, <1>5

-----------------------------------------------------------------------------
(* What is kept *)

(* What a request left is stored. *)
LEMMA StoredIsIntact ==
  ASSUME ChainInv, NEW store, Intact(store), Stored(store)
  PROVE  /\ Intact(Store)'
         /\ client'.fork = client.fork /\ client'.latest = client.latest
         /\ client'.running = client.running
<1>1. client' = [client EXCEPT !.cache = store.cache] /\ disk' = store.disk
  BY DEF Stored
<1>2. client \in Client
  BY DEF ChainInv, ClientTypeOK
<1>3. /\ client'.cache = store.cache
      /\ client'.fork = client.fork /\ client'.latest = client.latest
      /\ client'.running = client.running
  BY <1>1, <1>2 DEF Client
<1>4. Store'.cache = store.cache /\ Store'.disk = store.disk
  BY <1>1, <1>3 DEF Store
<1> QED
  BY <1>3, <1>4 DEF Intact

(* The request of a step, if it makes one *)
LEMMA AfterKeysIntact ==
  ASSUME ChainInv, Intact(Store), NEW keys \in Seq(AllKeys), AnswersOnce(keys)
  PROVE  Intact(AfterKeys(keys))
<1>1. StoreOK(Store)
  BY StoreIsOK
<1>2. CASE keys = <<>>
  BY <1>2 DEF AfterKeys
<1>3. CASE keys # <<>>
  <2>1. AfterKeys(keys) = Perform(Store, keys[1]) /\ keys[1] \in AllKeys
    BY <1>3 DEF AfterKeys
  <2>2. ~PerformThrows(Store, keys[1])
    BY <1>3 DEF AnswersOnce
  <2> QED
    BY <1>1, <2>1, <2>2, PerformKeepsIntact
<1> QED
  BY <1>2, <1>3

(* The chain and the fork block stay, and with them what the data may hold. *)
LEMMA SameChain ==
  ASSUME chain' = chain, client'.fork = client.fork, NEW d, DataOK(d), data' = d
  PROVE  DataOK(data)'
<1>1. Included' = Included
  BY DEF Included
<1>2. BlocksKept(data)'
  BY DEF DataOK, BlocksKept
<1>3. TransactionIsKept(data)'
  BY <1>1 DEF DataOK, TransactionIsKept
<1> QED
  BY <1>2, <1>3 DEF DataOK

(* Neither the chains nor the client's numbers change. *)
LEMMA SameFork ==
  ASSUME ForkedAt, chain' = chain, remote' = remote, latest' = latest, client'.fork = client.fork
  PROVE  ForkedAt'
BY DEF ForkedAt

(* The fork block is as final as it was. *)
LEMMA SameSafeFork ==
  ASSUME client'.fork = client.fork, client'.latest = client.latest,
         client'.running = client.running, SafeFork'
  PROVE  SafeFork
BY DEF SafeFork

(* A read keeps the invariant if what it adds to the data is right. *)
LEMMA ReadKeepsFork ==
  ASSUME ForkInv, ChainInv', NEW keys \in Seq(AllKeys), NEW newData, Read(keys, newData),
         SafeFork => DataOK(newData),
         SafeFork => awaiting' \subseteq Included
  PROVE  ForkInv'
<1>1. /\ AnswersOnce(keys) /\ Stored(AfterKeys(keys)) /\ data' = newData
      /\ remote' = remote /\ latest' = latest /\ chain' = chain
  BY DEF Read, AnswersOnce
<1>2. Intact(AfterKeys(keys))
  BY <1>1, AfterKeysIntact DEF ForkInv
<1>3. /\ Intact(Store)'
      /\ client'.fork = client.fork /\ client'.latest = client.latest
      /\ client'.running = client.running
  BY <1>1, <1>2, StoredIsIntact DEF ForkInv
<1>4. ASSUME SafeFork' PROVE ForkedAt' /\ DataOK(data)'
  <2>1. SafeFork
    BY <1>3, <1>4, SameSafeFork
  <2> QED
    BY <1>1, <1>3, <2>1, SameChain, SameFork DEF ForkInv
<1>5. TransactionOnce(remote)'
  BY <1>1 DEF ForkInv, TransactionOnce
<1>6. SafeFork' => (awaiting \subseteq Included)'
  BY <1>1, <1>3, SameSafeFork DEF Included
<1> QED
  BY <1>3, <1>4, <1>5, <1>6 DEF ForkInv

(* The fields of the data after addBlock *)
LEMMA AddedBlock ==
  ASSUME NEW d \in DataType, NEW b \in Seq(Salts), NEW C, d.byNumber \subseteq C, b \in C,
         \A x, y \in C : Number(x) = Number(y) => x = y
  PROVE  /\ DataAddBlock(d, b) \in DataType
         /\ DataAddBlock(d, b).byNumber = d.byNumber \cup {b}
         /\ DataAddBlock(d, b).byHash = d.byHash \cup {b}
         /\ DataAddBlock(d, b).tx <=> (d.tx \/ HasTransaction(b))
         /\ DataAddBlock(d, b).txBlock = IF HasTransaction(b) THEN {b} ELSE d.txBlock
         /\ DataAddBlock(d, b).receipt = d.receipt
<1> DEFINE e == DataAddBlock(d, b)
           others == {c \in d.byNumber : Number(c) # Number(b)} \cup {b}
           tx == d.tx \/ HasTransaction(b)
           txBlock == IF HasTransaction(b) THEN {b} ELSE d.txBlock
<1>1. others = d.byNumber \cup {b}
  OBVIOUS
<1>2. tx \in BOOLEAN
  OBVIOUS
<1>3. txBlock \in SUBSET Seq(Salts)
  BY DEF DataType
<1>4. e = [d EXCEPT !.byNumber = others, !.byHash = d.byHash \cup {b}, !.tx = tx,
                    !.txBlock = txBlock]
  BY DEF DataAddBlock
<1>5. others \in SUBSET Seq(Salts) /\ d.byHash \cup {b} \in SUBSET Seq(Salts)
      /\ d.receipt \in SUBSET Seq(Salts)
  BY DEF DataType
<1> HIDE DEF e, others, tx, txBlock
<1>6. e \in DataType
  BY <1>2, <1>3, <1>4, <1>5 DEF DataType
<1>7. e.byNumber = others /\ e.byHash = d.byHash \cup {b} /\ e.txBlock = txBlock
      /\ e.receipt = d.receipt
  BY <1>4 DEF DataType
<1>8. e.tx <=> tx
  BY <1>4 DEF DataType
<1> QED
  BY <1>1, <1>6, <1>7, <1>8 DEF e, tx, txBlock

(* A block of the chain is added to the data. *)
LEMMA KnownBlockAdded ==
  ASSUME OneChain, NEW b \in BlocksOf(chain)
  PROVE  DataOK(DataAddBlock(data, b))
<1> DEFINE e == DataAddBlock(data, b)
<1>1. data \in DataType /\ b \in Seq(Salts) /\ data.byNumber \subseteq BlocksOf(chain)
      /\ \A x, y \in BlocksOf(chain) : Number(x) = Number(y) => x = y
  BY DataFacts DEF OneChain, DataOK
<1>2. /\ e \in DataType
      /\ e.byNumber = data.byNumber \cup {b}
      /\ e.byHash = data.byHash \cup {b}
      /\ e.txBlock = IF HasTransaction(b) THEN {b} ELSE data.txBlock
      /\ e.receipt = data.receipt
  BY <1>1, AddedBlock
<1>3. e.tx <=> (data.tx \/ HasTransaction(b))
  BY <1>1, AddedBlock
<1> HIDE DEF e
<1>4. BlocksKept(e)
  BY <1>2 DEF OneChain, DataOK, BlocksKept
<1>5. HasTransaction(b) => b \in Included
  BY DEF Included
<1>6. \A x, y \in Included : x = y
  BY DataFacts
<1>7. e.tx => Included # {}
  BY <1>3, <1>5 DEF OneChain, DataOK, TransactionIsKept
<1>8. e.txBlock \subseteq Included /\ e.receipt \subseteq Included
  BY <1>2, <1>5 DEF OneChain, DataOK, TransactionIsKept
<1>9. ASSUME NEW x \in Included, Number(x) > client.fork
      PROVE  e.tx /\ x \in e.txBlock /\ x \in e.receipt
  <2>1. data.tx /\ x \in data.txBlock /\ x \in data.receipt
    BY <1>9 DEF OneChain, DataOK, TransactionIsKept
  <2>2. x \in e.txBlock /\ x \in e.receipt
    BY <1>2, <1>5, <1>6, <1>9, <2>1
  <2>3. e.tx
    BY <1>3, <2>1
  <2> QED
    BY <2>2, <2>3
<1>10. TransactionIsKept(e)
  BY <1>7, <1>8, <1>9 DEF TransactionIsKept
<1> QED
  BY <1>2, <1>4, <1>10 DEF DataOK, e

(* _processRemoteBlock of an answer whose accepted blocks are of the chain *)
LEMMA ProcessedBlocks ==
  ASSUME OneChain, NEW answer, UpToFork(answer) \subseteq BlocksOf(chain)
  PROVE  DataOK(ProcessRemoteBlock(data, answer))
<1>1. CASE UpToFork(answer) = {}
  BY <1>1 DEF ProcessRemoteBlock, OneChain
<1>2. CASE UpToFork(answer) # {}
  <2> DEFINE b == CHOOSE b \in UpToFork(answer) : TRUE
  <2>1. b \in BlocksOf(chain)
    BY <1>2
  <2>2. ProcessRemoteBlock(data, answer) = DataAddBlock(data, b)
    BY <1>2 DEF ProcessRemoteBlock
  <2> HIDE DEF b
  <2> QED
    BY <2>1, <2>2, KnownBlockAdded
<1> QED
  BY <1>1, <1>2

(* The transaction, or its receipt, is added to the data. *)
LEMMA TransactionAdded ==
  ASSUME NEW d, DataOK(d), NEW e \in DataType,
         e.byNumber = d.byNumber, e.byHash = d.byHash, e.txBlock = d.txBlock,
         e.receipt = d.receipt \/ e.receipt = Included,
         e.tx => Included # {}, d.tx => e.tx
  PROVE  DataOK(e)
<1>1. BlocksKept(e)
  BY DEF DataOK, BlocksKept
<1>2. TransactionIsKept(e)
  BY DEF DataOK, TransactionIsKept
<1> QED
  BY <1>1, <1>2 DEF DataOK

-----------------------------------------------------------------------------
(* The reads *)

(* What SafeFork gives *)
LEMMA SafeIsOneChain ==
  ASSUME ForkInv, SafeFork
  PROVE  OneChain
BY DEF ForkInv, OneChain

(* Remote blocks that are accepted are blocks of the chain. *)
LEMMA AcceptedBlocks ==
  ASSUME OneChain, NEW k \in AllKeys
  PROVE  UpToFork(RemoteAnswer(k)) \subseteq BlocksOf(chain)
<1>1. RemoteAnswer(k) \subseteq BlocksOf(remote)
  BY RemoteAnswerType DEF OneChain, ChainInv, ClientTypeOK
<1>2. /\ \A b \in BlocksOf(remote) : Number(b) \in Nat
      /\ \A b : Number(b) \in Int /\ Number(b) <= client.fork =>
           (b \in BlocksOf(remote) <=> b \in BlocksOf(chain))
  BY SharedBlocks DEF OneChain
<1> QED
  BY <1>1, <1>2 DEF UpToFork

(* One request that was made was not answered by a torn file. *)
LEMMA ReadAnswers ==
  ASSUME NEW keys, NEW newData, Read(keys, newData)
  PROVE  AnswersOnce(keys) /\ keys # <<>>
BY DEF Read, AnswersOnce

(* _getBlockByNumber fetches a block. *)
LEMMA ReadBlockByNumberKeepsFork ==
  ASSUME ForkInv, ChainInv', awaiting' = {}, NEW n \in Nat, ReadBlockByNumber(n)
  PROVE  ForkInv'
<1> DEFINE keys == BlockByNumberKeys(n)
           newData == ProcessRemoteBlock(data, PerformAnswer(Store, NumberKey(n)))
<1>1. Read(keys, newData)
  BY DEF ReadBlockByNumber
<1>2. keys \in Seq(AllKeys) /\ Len(keys) <= 1
  BY ReadsAskKeys DEF ForkInv
<1>3. SafeFork => awaiting' \subseteq Included
  OBVIOUS
<1>4. SafeFork => DataOK(newData)
  <2> SUFFICES ASSUME SafeFork PROVE DataOK(newData)
    OBVIOUS
  <2>1. OneChain
    BY SafeIsOneChain
  <2>2. AnswersOnce(keys) /\ keys = <<NumberKey(n)>>
    BY <1>1, ReadAnswers DEF BlockByNumberKeys
  <2>3. 1 \in DOMAIN keys /\ keys[1] = NumberKey(n)
    BY <2>2
  <2>4. PerformAnswer(Store, NumberKey(n)) = RemoteAnswer(NumberKey(n))
    BY <2>1, <2>2, <2>3, KeyAnswers
  <2>5. NumberKey(n) \in AllKeys
    BY KeysAreKeys
  <2> QED
    BY <2>1, <2>4, <2>5, AcceptedBlocks, ProcessedBlocks
<1> HIDE DEF keys, newData
<1> QED
  BY <1>1, <1>2, <1>3, <1>4, ReadKeepsFork

(* _getBlockByHash fetches a block. *)
LEMMA ReadBlockByHashKeepsFork ==
  ASSUME ForkInv, ChainInv', awaiting' = {}, NEW h \in Seq(Salts), ReadBlockByHash(h)
  PROVE  ForkInv'
<1> DEFINE keys == BlockByHashKeys(h)
           newData == ProcessRemoteBlock(data, PerformAnswer(Store, HashKey(h)))
<1>1. Read(keys, newData)
  BY DEF ReadBlockByHash
<1>2. keys \in Seq(AllKeys) /\ Len(keys) <= 1
  BY ReadsAskKeys DEF ForkInv
<1>3. SafeFork => awaiting' \subseteq Included
  OBVIOUS
<1>4. SafeFork => DataOK(newData)
  <2> SUFFICES ASSUME SafeFork PROVE DataOK(newData)
    OBVIOUS
  <2>1. OneChain
    BY SafeIsOneChain
  <2>2. AnswersOnce(keys) /\ keys = <<HashKey(h)>>
    BY <1>1, ReadAnswers DEF BlockByHashKeys
  <2>3. 1 \in DOMAIN keys /\ keys[1] = HashKey(h)
    BY <2>2
  <2>4. PerformAnswer(Store, HashKey(h)) = RemoteAnswer(HashKey(h))
    BY <2>1, <2>2, <2>3, KeyAnswers
  <2>5. HashKey(h) \in AllKeys
    BY KeysAreKeys
  <2> QED
    BY <2>1, <2>4, <2>5, AcceptedBlocks, ProcessedBlocks
<1> HIDE DEF keys, newData
<1> QED
  BY <1>1, <1>2, <1>3, <1>4, ReadKeepsFork

(* The data with another flag for the transaction *)
LEMMA FlagSet ==
  ASSUME NEW d \in DataType, NEW f \in BOOLEAN, NEW e, e = [d EXCEPT !.tx = f]
  PROVE  /\ e \in DataType /\ e.byNumber = d.byNumber /\ e.byHash = d.byHash
         /\ e.txBlock = d.txBlock /\ e.receipt = d.receipt
         /\ e.tx = f
<1>1. /\ e \in DataType /\ e.byNumber = d.byNumber /\ e.byHash = d.byHash
      /\ e.txBlock = d.txBlock /\ e.receipt = d.receipt
  BY DEF DataType
<1>2. e.tx = f
  BY DEF DataType
<1> QED
  BY <1>1, <1>2

(* The transaction is asked for: the data with it *)
LEMMA TransactionFetched ==
  ASSUME OneChain, AnswersOnce(TransactionKeys), NEW e, e = [data EXCEPT !.tx = GetTransaction]
  PROVE  DataOK(e)
<1>1. DataOK(data) /\ data \in DataType
  BY DEF OneChain, DataOK
<1>2. GetTransaction <=> Included # {}
  BY TransactionIsOfChain
<1>3. GetTransaction \in BOOLEAN
  BY DEF GetTransaction
<1>4. data.tx => GetTransaction
  BY DEF GetTransaction
<1>5. /\ e \in DataType /\ e.byNumber = data.byNumber /\ e.byHash = data.byHash
      /\ e.txBlock = data.txBlock /\ e.receipt = data.receipt
  BY <1>1, <1>3, FlagSet
<1>6. e.tx = GetTransaction
  BY <1>1, <1>3, FlagSet
<1>7. (e.tx => Included # {}) /\ (data.tx => e.tx)
  BY <1>2, <1>4, <1>6
<1> QED
  BY <1>1, <1>5, <1>7, TransactionAdded

(* getTransaction fetches the transaction. *)
LEMMA ReadTransactionKeepsFork ==
  ASSUME ForkInv, ChainInv', awaiting' = {}, ReadTransaction
  PROVE  ForkInv'
<1> DEFINE newData == [data EXCEPT !.tx = GetTransaction]
<1>1. Read(TransactionKeys, newData)
  BY DEF ReadTransaction
<1>2. TransactionKeys \in Seq(AllKeys)
  BY ReadsAskKeys DEF ForkInv
<1>3. SafeFork => DataOK(newData)
  BY <1>1, ReadAnswers, SafeIsOneChain, TransactionFetched
<1>4. SafeFork => awaiting' \subseteq Included
  OBVIOUS
<1> HIDE DEF newData
<1> QED
  BY <1>1, <1>2, <1>3, <1>4, ReadKeepsFork

(* getBlockByTransactionHash fetches the transaction first. *)
LEMMA ReadBlockByTransactionHashKeepsFork ==
  ASSUME ForkInv, ChainInv', awaiting' = {}, ReadBlockByTransactionHash
  PROVE  ForkInv'
<1> DEFINE newData == [data EXCEPT !.tx = GetTransaction]
<1>1. Read(<<TransactionKey>>, newData)
  BY DEF ReadBlockByTransactionHash
<1>2. <<TransactionKey>> \in Seq(AllKeys)
  BY KeysAreKeys, ShortKeys
<1>3. AnswersOnce(TransactionKeys)
  <2>1. ~PerformThrows(Store, TransactionKey)
    BY <1>1 DEF Read
  <2> QED
    BY <2>1 DEF AnswersOnce, TransactionKeys
<1>4. SafeFork => DataOK(newData)
  BY <1>3, SafeIsOneChain, TransactionFetched
<1>5. SafeFork => awaiting' \subseteq Included
  OBVIOUS
<1> HIDE DEF newData
<1> QED
  BY <1>1, <1>2, <1>4, <1>5, ReadKeepsFork

(* getTransactionReceipt fetches the receipt first. *)
LEMMA ReadTransactionReceiptKeepsFork ==
  ASSUME ForkInv, ChainInv', ReadTransactionReceipt
  PROVE  ForkInv'
<1>1. /\ Read(<<ReceiptKey>>, data)
      /\ awaiting' = UpToFork(PerformAnswer(Store, ReceiptKey))
  BY DEF ReadTransactionReceipt
<1>2. <<ReceiptKey>> \in Seq(AllKeys)
  BY KeysAreKeys, ShortKeys
<1>3. SafeFork => DataOK(data)
  BY DEF ForkInv
<1>4. SafeFork => awaiting' \subseteq Included
  <2> SUFFICES ASSUME SafeFork PROVE awaiting' \subseteq Included
    OBVIOUS
  <2>1. OneChain
    BY SafeIsOneChain
  <2>2. AnswersOnce(<<ReceiptKey>>)
    BY <1>1, ReadAnswers
  <2>3. 1 \in DOMAIN <<ReceiptKey>> /\ <<ReceiptKey>>[1] = ReceiptKey
    OBVIOUS
  <2>4. PerformAnswer(Store, ReceiptKey) = RemoteAnswer(ReceiptKey)
    BY <2>1, <2>2, <2>3, KeyAnswers
  <2>5. UpToFork(RemoteAnswer(ReceiptKey)) = {b \in Included : Number(b) <= client.fork}
    BY <2>1, AcceptedAnswers
  <2> QED
    BY <1>1, <2>4, <2>5
<1> QED
  BY <1>1, <1>2, <1>3, <1>4, ReadKeepsFork

(* getLogs keeps nothing in the data. *)
LEMMA ReadLogsKeepsFork ==
  ASSUME ForkInv, ChainInv', awaiting' = {}, NEW n \in Nat, NEW m \in Nat, ReadLogs(n, m)
  PROVE  ForkInv'
<1>1. Read(LogsKeys(n, m), data)
  BY DEF ReadLogs
<1>2. LogsKeys(n, m) \in Seq(AllKeys)
  BY ReadsAskKeys DEF ForkInv
<1>3. SafeFork => awaiting' \subseteq Included
  OBVIOUS
<1>4. SafeFork => DataOK(data)
  BY DEF ForkInv
<1> QED
  BY <1>1, <1>2, <1>3, <1>4, ReadKeepsFork

(* Every read *)
LEMMA ReadStepKeepsFork ==
  ASSUME ForkInv, ChainInv', ReadStep
  PROVE  ForkInv'
<1>1. latest \in Nat /\ ChainInv /\ awaiting = {}
  BY DEF ForkInv, ChainInv, ClientTypeOK, ReadStep
<1>2. ASSUME NEW n \in 0..latest, awaiting' = {}, ReadBlockByNumber(n) PROVE ForkInv'
  <2>1. n \in Nat
    BY <1>1
  <2> QED
    BY <1>2, <2>1, ReadBlockByNumberKeepsFork
<1>3. ASSUME NEW h \in BlocksOf(remote), awaiting' = {}, ReadBlockByHash(h) PROVE ForkInv'
  <2>1. h \in Seq(Salts)
    BY <1>1, RemoteBlocks
  <2> QED
    BY <1>3, <2>1, ReadBlockByHashKeepsFork
<1>4. ASSUME NEW n \in 0..latest, NEW m \in n..latest, awaiting' = {}, ReadLogs(n, m)
      PROVE  ForkInv'
  <2>1. n \in Nat /\ m \in Nat
    BY <1>1
  <2> QED
    BY <1>4, <2>1, ReadLogsKeepsFork
<1>5. \/ awaiting' = {} /\ \E n \in 0..latest : ReadBlockByNumber(n)
      \/ awaiting' = {} /\ \E h \in BlocksOf(remote) : ReadBlockByHash(h)
      \/ awaiting' = {} /\ ReadTransaction
      \/ awaiting' = {} /\ ReadBlockByTransactionHash
      \/ awaiting' = {} /\ \E n \in 0..latest : \E m \in n..latest : ReadLogs(n, m)
      \/ ReadTransactionReceipt
  BY <1>1 DEF ReadStep
<1> QED
  BY <1>2, <1>3, <1>4, <1>5, ReadTransactionKeepsFork, ReadBlockByTransactionHashKeepsFork,
     ReadTransactionReceiptKeepsFork

(* The receipt is kept when the transaction is there.  The remote chain    *)
(* may have moved since the receipt was read.                              *)
LEMMA FinishReceiptKeepsFork ==
  ASSUME ForkInv, ChainInv', FinishReceipt
  PROVE  ForkInv'
<1> DEFINE receipt == IF GetTransaction THEN awaiting ELSE data.receipt
<1>1. /\ ChainInv /\ Intact(Store)
      /\ awaiting # {} /\ Stored(AfterKeys(TransactionKeys)) /\ awaiting' = {}
      /\ remote' = remote /\ latest' = latest /\ chain' = chain
      /\ data' = [data EXCEPT !.tx = GetTransaction, !.receipt = receipt]
      /\ AnswersOnce(TransactionKeys)
  BY DEF FinishReceipt, ForkInv, AnswersOnce
<1>2. TransactionKeys \in Seq(AllKeys)
  BY <1>1, ReadsAskKeys
<1>3. /\ Intact(Store)'
      /\ client'.fork = client.fork /\ client'.latest = client.latest
      /\ client'.running = client.running
  <2>1. Intact(AfterKeys(TransactionKeys))
    BY <1>1, <1>2, AfterKeysIntact
  <2> QED
    BY <1>1, <2>1, StoredIsIntact
<1>4. ASSUME SafeFork' PROVE ForkedAt' /\ DataOK(data)'
  <2>1. SafeFork
    BY <1>3, <1>4, SameSafeFork
  <2>2. OneChain /\ DataOK(data) /\ data \in DataType /\ ForkedAt
    BY <2>1, SafeIsOneChain DEF OneChain, DataOK
  <2>3. awaiting = Included
    <3>1. awaiting \subseteq Included
      BY <2>1 DEF ForkInv
    <3>2. \A b, d \in Included : b = d
      BY <2>2, DataFacts
    <3> QED
      BY <1>1, <3>1, <3>2, SameIncluded
  <2>4. Included \in SUBSET Seq(Salts)
    BY <2>2, DataFacts
  <2>5. GetTransaction <=> Included # {}
    BY <1>1, <2>2, TransactionIsOfChain
  <2>6. receipt = Included
    BY <1>1, <2>3, <2>5
  <2>7. GetTransaction \in BOOLEAN
    BY DEF GetTransaction
  <2>8. data.tx => GetTransaction
    BY DEF GetTransaction
  <2> HIDE DEF receipt
  <2>9. PICK e : e = [data EXCEPT !.tx = GetTransaction, !.receipt = receipt]
    OBVIOUS
  <2>10. /\ e \in DataType /\ e.byNumber = data.byNumber /\ e.byHash = data.byHash
         /\ e.txBlock = data.txBlock /\ e.receipt = Included
    BY <2>2, <2>4, <2>6, <2>7, <2>9 DEF DataType
  <2>11. e.tx = GetTransaction
    BY <2>2, <2>9 DEF DataType
  <2>12. (e.tx => Included # {}) /\ (data.tx => e.tx)
    BY <2>5, <2>8, <2>11
  <2>13. DataOK(e)
    BY <2>2, <2>10, <2>12, TransactionAdded
  <2>14. data' = e
    BY <1>1, <2>9
  <2> QED
    BY <1>1, <1>3, <2>2, <2>13, <2>14, SameChain, SameFork
<1>5. TransactionOnce(remote)'
  BY <1>1 DEF ForkInv, TransactionOnce
<1>6. (awaiting \subseteq Included)'
  BY <1>1
<1> QED
  BY <1>3, <1>4, <1>5, <1>6 DEF ForkInv

(* Nothing but what is awaited changes. *)
LEMMA SameDataKeepsFork ==
  ASSUME ForkInv, ChainInv', remote' = remote, client' = client, disk' = disk,
         latest' = latest, data' = data, chain' = chain, awaiting' \subseteq awaiting
  PROVE  ForkInv'
<1>1. Intact(Store)' /\ TransactionOnce(remote)'
  BY DEF ForkInv, Intact, Store, TransactionOnce
<1>2. ASSUME SafeFork' PROVE ForkedAt' /\ DataOK(data)' /\ (awaiting \subseteq Included)'
  <2>1. SafeFork
    BY <1>2, SameSafeFork
  <2>2. ForkedAt /\ DataOK(data) /\ awaiting \subseteq Included
    BY <2>1 DEF ForkInv
  <2>3. (awaiting \subseteq Included)'
    BY <2>2 DEF Included
  <2> QED
    BY <2>2, <2>3, SameChain, SameFork
<1> QED
  BY <1>1, <1>2 DEF ForkInv

-----------------------------------------------------------------------------
(* The other steps *)

(* A block is mined on the last one.  Its parent is the end of the chain,  *)
(* whichever way it is found.                                              *)
LEMMA AddBlockKeepsFork ==
  ASSUME ForkInv, ChainInv', NEW salt \in LocalSalts, AddBlock(salt)
  PROVE  ForkInv'
<1> DEFINE keys == BlockByNumberKeys(latest)
<1>1. /\ ChainInv /\ Intact(Store) /\ latest \in Nat
      /\ Stored(AfterKeys(keys)) /\ ~PerformThrows(Store, NumberKey(latest))
      /\ latest' = latest + 1 /\ remote' = remote
  BY DEF AddBlock, ForkInv, ChainInv, ClientTypeOK
<1>2. keys \in Seq(AllKeys)
  BY <1>1, ReadsAskKeys
<1>3. awaiting' = {}
  BY DEF AddBlock
<1>4. AnswersOnce(keys)
  <2>1. keys = <<>> \/ keys = <<NumberKey(latest)>>
    BY DEF BlockByNumberKeys
  <2> HIDE DEF keys
  <2>2. \A i \in DOMAIN keys : keys[i] = NumberKey(latest)
    BY <2>1
  <2> QED
    BY <1>1, <2>2 DEF AnswersOnce
<1>5. /\ Intact(Store)'
      /\ client'.fork = client.fork /\ client'.latest = client.latest
      /\ client'.running = client.running
  <2> HIDE DEF keys
  <2>1. Intact(AfterKeys(keys))
    BY <1>1, <1>2, <1>4, AfterKeysIntact
  <2> QED
    BY <1>1, <2>1, StoredIsIntact
<1>6. ASSUME SafeFork' PROVE ForkedAt' /\ DataOK(data)'
  <2>1. OneChain
    BY <1>5, <1>6, SameSafeFork, SafeIsOneChain
  <2>2. /\ chain \in ChainsOf(Salts) /\ latest = Number(chain) /\ client.fork \in Nat
        /\ client.fork <= latest /\ AgreeTo(remote, chain, client.fork) /\ TransactionOnce(chain)
        /\ salt \in Salts /\ CanInclude(chain, salt)
    BY <2>1, DataFacts DEF OneChain, ForkedAt, AddBlock, Salts
  <2>3. GetBlockByNumber(latest) = {chain}
    <3>1. GetBlockByNumber(latest) = {b \in BlocksOf(chain) : Number(b) = latest}
      <4>1. latest <= latest + 1
        BY <1>1
      <4> QED
        BY <1>1, <1>4, <2>1, <4>1, BlockByNumberIsOfChain
    <3>2. chain \in BlocksOf(chain) /\ \A b, d \in BlocksOf(chain) : Number(b) = Number(d) => b = d
      BY <2>2, LastBlock, BlocksHaveNumbers
    <3> QED
      BY <2>2, <3>1, <3>2
  <2>4. PICK b : b = Append(chain, salt)
    OBVIOUS
  <2>5. PICK c : c = chain
    OBVIOUS
  <2>6. PICK d1 : d1 = DataAddBlock(data, chain)
    OBVIOUS
  <2>7. PICK d2 : d2 = DataAddBlock(d1, b)
    OBVIOUS
  <2> DEFINE receipt == IF HasTransaction(b) THEN {b} ELSE d2.receipt
  <2>8. data' = [d2 EXCEPT !.receipt = receipt] /\ chain' = b
    <3>1. chain' = b
      BY <2>4 DEF AddBlock
    <3>2. \E parent \in GetBlockByNumber(latest) :
            data' = [DataAddBlock(DataAddBlock(data, parent), Append(parent, salt)) EXCEPT
                       !.receipt = IF HasTransaction(Append(parent, salt))
                                   THEN {Append(parent, salt)} ELSE @]
      BY DEF AddBlock
    <3> QED
      BY <2>3, <2>4, <2>6, <2>7, <3>1, <3>2
  <2>9. DataOK(d1) /\ d1 \in DataType
    <3>1. chain \in BlocksOf(chain)
      BY <2>2, LastBlock
    <3> QED
      BY <2>1, <2>6, <3>1, KnownBlockAdded DEF DataOK
  <2>10. /\ b \in ChainsOf(Salts) /\ Number(b) = latest + 1
         /\ BlocksOf(b) = BlocksOf(chain) \cup {b}
         /\ TransactionOnce(b)
    BY <2>2, <2>4, GrownChain
  <2>11. /\ b \in Seq(Salts) /\ b \in BlocksOf(b)
         /\ \A x, y \in BlocksOf(b) : Number(x) = Number(y) => x = y
         /\ \A x, y \in BlocksOf(b) : HasTransaction(x) /\ HasTransaction(y) => x = y
    BY <2>10, BlocksHaveNumbers, OneIncludes DEF ChainsOf
  <2>12. d1.byNumber \subseteq BlocksOf(b)
    BY <2>9, <2>10 DEF DataOK, BlocksKept
  <2>13. /\ d2 \in DataType /\ d2.byNumber = d1.byNumber \cup {b} /\ d2.byHash = d1.byHash \cup {b}
         /\ d2.txBlock = IF HasTransaction(b) THEN {b} ELSE d1.txBlock
         /\ d2.receipt = d1.receipt
    BY <2>7, <2>9, <2>11, <2>12, AddedBlock
  <2>14. d2.tx <=> (d1.tx \/ HasTransaction(b))
    BY <2>7, <2>9, <2>11, <2>12, AddedBlock
  <2>15. receipt \in SUBSET Seq(Salts)
    BY <2>11, <2>13 DEF DataType
  <2>16. receipt = IF HasTransaction(b) THEN {b} ELSE d1.receipt
    BY <2>13
  <2> HIDE DEF receipt
  <2>17. /\ data' \in DataType
         /\ data'.byNumber = d2.byNumber /\ data'.byHash = d2.byHash
         /\ data'.txBlock = d2.txBlock /\ data'.receipt = receipt
    BY <2>8, <2>13, <2>15 DEF DataType
  <2>18. data'.tx <=> d2.tx
    BY <2>8, <2>13 DEF DataType
  <2>19. BlocksKept(data)'
    <3>1. data'.byHash = data'.byNumber /\ data'.byNumber \subseteq BlocksOf(b)
      BY <2>9, <2>10, <2>11, <2>12, <2>13, <2>17 DEF DataOK, BlocksKept
    <3>2. \A x \in BlocksOf(b) : Number(x) > client.fork => x \in data'.byNumber
      BY <2>9, <2>10, <2>13, <2>17 DEF DataOK, BlocksKept
    <3> QED
      BY <1>5, <2>8, <3>1, <3>2 DEF BlocksKept
  <2>20. TransactionIsKept(data)'
    <3>1. Included' = {x \in BlocksOf(b) : HasTransaction(x)}
      BY <2>8 DEF Included
    <3>2. CASE HasTransaction(b)
      <4>1. Included' = {b}
        BY <2>11, <3>1, <3>2
      <4>2. data'.txBlock = {b} /\ data'.receipt = {b}
        BY <2>13, <2>16, <2>17, <3>2
      <4>3. data'.tx
        BY <2>14, <2>18, <3>2
      <4> QED
        BY <4>1, <4>2, <4>3 DEF TransactionIsKept
    <3>3. CASE ~HasTransaction(b)
      <4>1. Included' = Included
        BY <2>10, <3>1, <3>3 DEF Included
      <4>2. data'.txBlock = d1.txBlock /\ data'.receipt = d1.receipt
        BY <2>13, <2>16, <2>17, <3>3
      <4>3. data'.tx <=> d1.tx
        BY <2>14, <2>18, <3>3
      <4>4. TransactionIsKept(d1)
        BY <2>9 DEF DataOK
      <4> QED
        BY <1>5, <4>1, <4>2, <4>3, <4>4 DEF TransactionIsKept
    <3> QED
      BY <3>2, <3>3
  <2>21. ForkedAt'
    <3>1. AgreeTo(remote, b, client.fork)
      <4>1. /\ chain \in Seq(Salts) /\ Len(chain) \in Nat /\ Number(chain) = Len(chain) - 1
            /\ client.fork + 1 <= Len(chain)
        BY <2>2, LenProperties DEF ChainsOf, Number
      <4>2. \A i \in 1..Len(chain) : b[i] = chain[i]
        BY <2>2, <2>4, <4>1, AppendFacts
      <4>3. client.fork <= Number(b)
        BY <1>1, <2>2, <2>10
      <4> QED
        BY <2>2, <4>1, <4>2, <4>3 DEF AgreeTo
    <3>2. client.fork <= latest + 1
      BY <1>1, <2>2
    <3> QED
      BY <1>1, <1>5, <2>8, <2>10, <3>1, <3>2 DEF ForkedAt
  <2> QED
    BY <2>17, <2>19, <2>20, <2>21 DEF DataOK
<1>7. TransactionOnce(remote)'
  BY <1>1 DEF ForkInv, TransactionOnce
<1>8. (awaiting \subseteq Included)'
  BY <1>3
<1> QED
  BY <1>5, <1>6, <1>7, <1>8 DEF ForkInv

(* The fields of the data after the blocks are removed *)
LEMMA RemovedBlocks ==
  ASSUME NEW d \in DataType, NEW gone, NEW e, e = DataRemoveBlocks(d, gone)
  PROVE  /\ e \in DataType /\ e.byNumber = d.byNumber \ gone /\ e.byHash = d.byHash \ gone
         /\ e.tx <=> d.tx /\ ~\E b \in gone : HasTransaction(b)
         /\ e.txBlock = IF \E b \in gone : HasTransaction(b) THEN {} ELSE d.txBlock
         /\ e.receipt = IF \E b \in gone : HasTransaction(b) THEN {} ELSE d.receipt
<1> DEFINE hadIt == \E b \in gone : HasTransaction(b)
           tx == d.tx /\ ~hadIt
           txBlock == IF hadIt THEN {} ELSE d.txBlock
           receipt == IF hadIt THEN {} ELSE d.receipt
<1>1. e = [d EXCEPT !.byNumber = d.byNumber \ gone, !.byHash = d.byHash \ gone, !.tx = tx,
                    !.txBlock = txBlock, !.receipt = receipt]
  BY DEF DataRemoveBlocks
<1>2. tx \in BOOLEAN
  OBVIOUS
<1>3. /\ txBlock \in SUBSET Seq(Salts) /\ receipt \in SUBSET Seq(Salts)
      /\ d.byNumber \ gone \in SUBSET Seq(Salts) /\ d.byHash \ gone \in SUBSET Seq(Salts)
  BY DEF DataType
<1> HIDE DEF tx, txBlock, receipt
<1>4. e \in DataType
  BY <1>1, <1>2, <1>3 DEF DataType
<1>5. /\ e.byNumber = d.byNumber \ gone /\ e.byHash = d.byHash \ gone
      /\ e.txBlock = txBlock /\ e.receipt = receipt
  BY <1>1 DEF DataType
<1>6. e.tx <=> tx
  BY <1>1 DEF DataType
<1> QED
  BY <1>4, <1>5, <1>6 DEF tx, txBlock, receipt

(* Local blocks are deleted. *)
LEMMA DeleteLaterBlocksKeepsFork ==
  ASSUME ForkInv, ChainInv', NEW n \in 0..latest, DeleteLaterBlocks(n)
  PROVE  ForkInv'
<1>1. /\ remote' = remote /\ client' = client /\ disk' = disk /\ latest' = n
      /\ chain' = BlockAt(chain, n) /\ data' = WithoutLater(data, n + 1)
      /\ n >= client.fork /\ n < latest /\ latest \in Nat /\ n \in Nat
  BY DEF DeleteLaterBlocks, clientVars, ForkInv, ChainInv, ClientTypeOK
<1>2. Intact(Store)' /\ TransactionOnce(remote)'
  BY <1>1 DEF ForkInv, Intact, Store, TransactionOnce
<1>3. ASSUME SafeFork' PROVE ForkedAt' /\ DataOK(data)'
  <2>1. OneChain
    BY <1>1, <1>3, SameSafeFork, SafeIsOneChain
  <2>2. /\ chain \in ChainsOf(Salts) /\ latest = Number(chain) /\ client.fork \in Nat
        /\ AgreeTo(remote, chain, client.fork) /\ TransactionOnce(chain)
        /\ data \in DataType
    BY <2>1, DataFacts DEF OneChain, ForkedAt, DataOK
  <2>3. PICK g : g = BlockAt(chain, n)
    OBVIOUS
  <2>4. PICK gone : gone = {b \in data.byNumber : Number(b) \in (n + 1)..latest}
    OBVIOUS
  <2>5. PICK e : e = DataRemoveBlocks(data, gone)
    OBVIOUS
  <2>6. data' = e /\ chain' = g
    BY <1>1, <2>3, <2>4, <2>5 DEF WithoutLater
  <2>7. /\ g \in ChainsOf(Salts) /\ Number(g) = n
        /\ AgreeTo(chain, g, n)
        /\ \A b : b \in BlocksOf(g) <=> b \in BlocksOf(chain) /\ Number(b) <= n
        /\ TransactionOnce(g)
    BY <2>2, <2>3, CutChain
  <2>8. /\ e \in DataType /\ e.byNumber = data.byNumber \ gone /\ e.byHash = data.byHash \ gone
        /\ e.txBlock = IF \E b \in gone : HasTransaction(b) THEN {} ELSE data.txBlock
        /\ e.receipt = IF \E b \in gone : HasTransaction(b) THEN {} ELSE data.receipt
    BY <2>2, <2>5, RemovedBlocks
  <2>9. e.tx <=> data.tx /\ ~\E b \in gone : HasTransaction(b)
    BY <2>2, <2>5, RemovedBlocks
  <2>10. /\ \A b \in BlocksOf(chain) : Number(b) \in 0..latest
         /\ data.byHash = data.byNumber /\ data.byNumber \subseteq BlocksOf(chain)
         /\ \A b \in BlocksOf(chain) : b \in data.byNumber \/ Number(b) <= client.fork
         /\ \A b, d \in Included : b = d
         /\ Included \subseteq BlocksOf(chain)
         /\ data.txBlock \subseteq Included /\ data.receipt \subseteq Included
    BY <2>1, DataFacts
  <2>11. \A b : b \in gone <=> b \in BlocksOf(chain) /\ ~(Number(b) <= n)
    BY <1>1, <2>2, <2>4, <2>10
  <2>12. BlocksKept(data)'
    <3>1. e.byHash = e.byNumber /\ e.byNumber \subseteq BlocksOf(g)
      BY <2>7, <2>8, <2>10, <2>11
    <3>2. \A b \in BlocksOf(g) : Number(b) > client.fork => b \in e.byNumber
      <4>1. \A b \in BlocksOf(chain) : Number(b) > client.fork => b \in data.byNumber
        BY <2>1 DEF OneChain, DataOK, BlocksKept
      <4> QED
        BY <2>7, <2>8, <2>11, <4>1
    <3> QED
      BY <1>1, <2>6, <3>1, <3>2 DEF BlocksKept
  <2>13. TransactionIsKept(data)'
    <3>1. Included' = {b \in BlocksOf(g) : HasTransaction(b)}
      BY <2>6 DEF Included
    <3>2. TransactionIsKept(data)
      BY <2>1 DEF OneChain, DataOK
    <3>3. CASE \E b \in gone : HasTransaction(b)
      <4>1. Included' = {}
        <5>1. PICK b \in gone : HasTransaction(b)
          BY <3>3
        <5>2. b \in Included /\ b \notin BlocksOf(g)
          BY <2>7, <2>11, <5>1 DEF Included
        <5>3. \A x \in Included' : x \in Included /\ x \in BlocksOf(g)
          BY <2>7, <3>1 DEF Included
        <5> QED
          BY <2>10, <5>2, <5>3
      <4>2. e.txBlock = {} /\ e.receipt = {}
        BY <2>8, <3>3
      <4>3. ~e.tx
        BY <2>9, <3>3
      <4> QED
        BY <2>6, <4>1, <4>2, <4>3 DEF TransactionIsKept
    <3>4. CASE ~\E b \in gone : HasTransaction(b)
      <4>1. Included' = Included
        BY <2>7, <2>11, <3>1, <3>4 DEF Included
      <4>2. e.txBlock = data.txBlock /\ e.receipt = data.receipt
        BY <2>8, <3>4
      <4>3. e.tx <=> data.tx
        BY <2>9, <3>4
      <4> QED
        BY <1>1, <2>6, <3>2, <4>1, <4>2, <4>3 DEF TransactionIsKept
    <3> QED
      BY <3>3, <3>4
  <2>14. ForkedAt'
    <3>1. AgreeTo(remote, g, client.fork)
      <4>1. Number(chain) \in Nat
        BY <1>1, <2>2
      <4> QED
        BY <1>1, <2>2, <2>7, <4>1 DEF AgreeTo
    <3>2. client.fork <= n
      BY <1>1, <2>2
    <3> QED
      BY <1>1, <2>6, <2>7, <3>1, <3>2 DEF ForkedAt
  <2> QED
    BY <2>6, <2>8, <2>12, <2>13, <2>14 DEF DataOK
<1>4. (awaiting \subseteq Included)'
  BY DEF DeleteLaterBlocks
<1> QED
  BY <1>2, <1>3, <1>4 DEF ForkInv

(* A process starts: nothing is known of the chain yet, which is the       *)
(* remote one up to the fork block.                                        *)
LEMMA StartKeepsFork ==
  ASSUME ForkInv, ChainInv', NEW config \in SUBSET Nat, Start(config)
  PROVE  ForkInv'
<1> DEFINE fork == IF config = {} THEN GetLastSafeBlock(Number(remote)) ELSE CHOOSE n \in config : TRUE
           kept == config # {}
<1>1. /\ Number(remote) \in Nat /\ remote \in ChainsOf(Salts)
      /\ TransactionOnce(remote) /\ Intact(Store)
  <2>1. remote \in ChainsOf(RemoteSalts) /\ TransactionOnce(remote) /\ Intact(Store)
    BY DEF ForkInv, ChainInv, ClientTypeOK
  <2> QED
    BY <2>1, RemoteIsChain, BlocksHaveNumbers
<1>2. fork \in 0..Number(remote)
  <2>1. CASE config = {}
    BY <1>1, <2>1, ClientAssumption DEF GetLastSafeBlock
  <2>2. CASE config # {}
    <3>1. \A n \in config : n \in Nat /\ n <= Number(remote)
      BY DEF Start, MakeForkClient
    <3>2. fork \in config
      BY <2>2
    <3> HIDE DEF fork
    <3> QED
      BY <1>1, <3>1, <3>2
  <2> QED
    BY <2>1, <2>2
<1>3. /\ client' = NewClient(Number(remote), fork, kept)
      /\ disk' = disk /\ remote' = remote /\ data' = NoData
      /\ latest' = client'.fork /\ chain' = BlockAt(remote, client'.fork)
  BY DEF Start, MakeForkClient
<1> HIDE DEF fork, kept
<1>4. client'.cache = {} /\ client'.fork = fork
  BY <1>3 DEF NewClient
<1>5. Intact(Store)' /\ TransactionOnce(remote)'
  <2>1. Store'.cache = {} /\ Store'.disk = Store.disk
    BY <1>3, <1>4 DEF Store
  <2>2. Intact(Store)'
    BY <1>1, <2>1 DEF Intact
  <2> QED
    BY <1>1, <1>3, <2>2
<1>6. PICK g, f : g = BlockAt(remote, fork) /\ f = fork
  OBVIOUS
<1>7. /\ g \in ChainsOf(Salts) /\ Number(g) = f
      /\ AgreeTo(remote, g, f)
      /\ TransactionOnce(g)
      /\ \A b \in BlocksOf(g) : Number(b) \in 0..f
  <2>1. /\ g \in ChainsOf(Salts) /\ Number(g) = f
        /\ AgreeTo(remote, g, f)
        /\ TransactionOnce(g)
    BY <1>1, <1>2, <1>6, CutChain
  <2> QED
    BY <2>1, BlocksHaveNumbers
<1>8. chain' = g /\ latest' = f /\ client'.fork = f /\ f \in Nat
  BY <1>1, <1>2, <1>3, <1>4, <1>6
<1>9. ForkedAt'
  BY <1>3, <1>7, <1>8 DEF ForkedAt
<1>10. \A b \in BlocksOf(g) : ~(Number(b) > f)
  BY <1>7, <1>8
<1>11. /\ data' \in DataType /\ data'.byNumber = {} /\ data'.byHash = {}
       /\ data'.txBlock = {} /\ data'.receipt = {}
  BY <1>3 DEF NoData, DataType
<1>12. ~data'.tx
  BY <1>3 DEF NoData
<1>13. BlocksKept(data)'
  BY <1>8, <1>10, <1>11 DEF BlocksKept
<1>14. TransactionIsKept(data)'
  <2>1. \A b \in Included' : ~(Number(b) > f)
    BY <1>8, <1>10 DEF Included
  <2> QED
    BY <1>8, <1>11, <1>12, <2>1 DEF TransactionIsKept
<1>15. (awaiting \subseteq Included)'
  BY DEF Start
<1> QED
  BY <1>5, <1>9, <1>11, <1>13, <1>14, <1>15 DEF ForkInv, DataOK

(* The remote network goes on: the fork block is older than what it may    *)
(* reorganize.                                                             *)
LEMMA RemoteStepKeepsFork ==
  ASSUME ForkInv, ChainInv', RemoteStep
  PROVE  ForkInv'
<1>1. /\ client' = client /\ disk' = disk /\ data' = data /\ latest' = latest /\ chain' = chain
  BY DEF RemoteStep
<1>2. PICK m : m = Number(remote) - MaxReorg
  OBVIOUS
<1>3. /\ remote' \in ChainsOf(RemoteSalts)
      /\ Number(remote') \in Int /\ Number(remote') >= Number(remote)
      /\ AgreeTo(remote, remote', m)
      /\ TransactionOnce(remote')
  BY <1>2, RemoteMoves DEF ForkInv
<1>4. Intact(Store)'
  BY <1>1 DEF ForkInv, Intact, Store
<1>5. ASSUME SafeFork' PROVE ForkedAt' /\ DataOK(data)'
  <2>1. SafeFork
    BY <1>1, <1>5, SameSafeFork
  <2>2. ForkedAt /\ DataOK(data)
    BY <2>1 DEF ForkInv
  <2>3. /\ client.fork \in Nat /\ client.latest \in Nat /\ client.latest <= Number(remote)
        /\ Number(remote) \in Int
    BY LenProperties DEF ForkInv, ChainInv, ClientTypeOK, Client, ChainsOf, Number
  <2>4. client.fork <= m /\ m \in Int
    BY <1>2, <2>1, <2>3, ClientAssumption DEF SafeFork
  <2>5. AgreeTo(remote', chain, client.fork)
    <3>1. client.fork <= Number(remote')
      BY <1>3, <2>3, <2>4 DEF AgreeTo
    <3>2. client.fork <= Number(chain) /\ \A i \in 1..(client.fork + 1) : remote[i] = chain[i]
      BY <2>2 DEF ForkedAt, AgreeTo
    <3>3. \A i \in 1..(client.fork + 1) : remote[i] = remote'[i]
      BY <1>3, <2>3, <2>4 DEF AgreeTo
    <3> QED
      BY <3>1, <3>2, <3>3 DEF AgreeTo
  <2>6. ForkedAt'
    BY <1>1, <2>2, <2>5 DEF ForkedAt
  <2>7. DataOK(data)'
    BY <1>1, <2>2, SameChain
  <2> QED
    BY <2>6, <2>7
<1>6. ASSUME SafeFork' PROVE (awaiting \subseteq Included)'
  <2>1. awaiting \subseteq Included
    BY <1>1, <1>6, SameSafeFork DEF ForkInv
  <2>2. awaiting' = awaiting
    BY DEF RemoteStep
  <2> QED
    BY <1>1, <2>1, <2>2 DEF Included
<1> QED
  BY <1>3, <1>4, <1>5, <1>6 DEF ForkInv

(* A request for a state, and a process that is killed *)
LEMMA RequestStepKeepsFork ==
  ASSUME ForkInv, ChainInv', RequestStep
  PROVE  ForkInv'
<1>1. PICK k \in Keys : Request(k) \/ KilledWhileStoring(k)
  BY DEF RequestStep
<1>2. /\ remote' = remote /\ data' = data /\ latest' = latest /\ chain' = chain
      /\ ChainInv /\ Intact(Store) /\ StoreOK(Store)
  BY StoreIsOK DEF RequestStep, ForkInv
<1>3. k \in AllKeys
  BY <1>2, RequestsAreKeys
<1>4. TransactionOnce(remote)'
  BY <1>2 DEF ForkInv, TransactionOnce
<1>7. (awaiting \subseteq Included)'
  BY DEF RequestStep
<1>5. CASE Request(k)
  <2>1. ~PerformThrows(Store, k) /\ Stored(Perform(Store, k))
    BY <1>5 DEF Request
  <2>2. Intact(Perform(Store, k))
    BY <1>2, <1>3, <2>1, PerformKeepsIntact
  <2>3. /\ Intact(Store)'
        /\ client'.fork = client.fork /\ client'.latest = client.latest
        /\ client'.running = client.running
    BY <1>2, <2>1, <2>2, StoredIsIntact
  <2>4. ASSUME SafeFork' PROVE ForkedAt' /\ DataOK(data)'
    <3>1. SafeFork
      BY <2>3, <2>4, SameSafeFork
    <3>2. ForkedAt /\ DataOK(data)
      BY <3>1 DEF ForkInv
    <3> QED
      BY <1>2, <2>3, <3>2, SameChain, SameFork
  <2> QED
    BY <1>4, <1>7, <2>3, <2>4 DEF ForkInv
<1>6. CASE KilledWhileStoring(k)
  <2>1. /\ disk' = disk \cup {Entry(k, Torn)}
        /\ client' = [client EXCEPT !.running = FALSE, !.cache = {}]
        /\ Perform(Store, k).disk # disk
    BY <1>6 DEF KilledWhileStoring
  <2>2. client'.cache = {} /\ client'.running = FALSE
    BY <2>1 DEF ForkInv, ChainInv, ClientTypeOK, Client
  <2>3. Store.disk = disk /\ Store'.cache = {} /\ Store'.disk = disk'
    BY <2>2 DEF Store
  <2>4. ~Has(disk, k)
    <3>1. ASSUME InMemory(Store, k) PROVE FALSE
      <4>1. Perform(Store, k) = Store
        BY <3>1 DEF Perform
      <4> QED
        BY <2>1, <2>3, <4>1
    <3>2. ASSUME ~InMemory(Store, k), OnDisk(Store, k) PROVE FALSE
      <4>1. PICK e : Perform(Store, k) = [Store EXCEPT !.cache = Store.cache \cup {e}]
        BY <3>2 DEF Perform
      <4>2. Perform(Store, k).disk = disk
        BY <4>1 DEF Store
      <4> QED
        BY <2>1, <4>2
    <3>3. ASSUME ~InMemory(Store, k), ~OnDisk(Store, k), ~client.toDisk PROVE FALSE
      <4>1. PICK c : Perform(Store, k) = [cache |-> c, disk |-> Store.disk]
        BY <3>3 DEF Perform
      <4> QED
        BY <2>1, <2>3, <4>1
    <3>4. client.toDisk /\ ~OnDisk(Store, k)
      BY <3>1, <3>2, <3>3
    <3> QED
      BY <2>3, <3>4 DEF OnDisk
  <2>5. Intact(Store)'
    <3>1. \A e \in disk : e.key # k
      BY <2>4 DEF Has
    <3>2. Entry(k, Torn).key = k
      BY DEF Entry
    <3>3. \A e, f \in disk' : e.key = f.key => e = f
      BY <1>2, <2>1, <2>3, <3>1, <3>2 DEF Intact
    <3> QED
      BY <2>3, <3>3 DEF Intact
  <2>6. ~SafeFork'
    BY <2>2 DEF SafeFork
  <2> QED
    BY <1>4, <1>7, <2>5, <2>6 DEF ForkInv
<1> QED
  BY <1>1, <1>5, <1>6

-----------------------------------------------------------------------------

(* The invariant of a forked network *)
THEOREM ForkInvariance == Spec => []ForkInv
<1>1. Init => ForkInv
  <2> SUFFICES ASSUME Init PROVE ForkInv
    OBVIOUS
  <2>1. /\ remote = <<"e">> /\ disk = {}
        /\ client = [NewClient(0, 0, FALSE) EXCEPT !.running = FALSE]
    BY DEF Init, ClientInit
  <2>2. client.cache = {} /\ client.running = FALSE
    BY <2>1 DEF NewClient
  <2>3. ~SafeFork
    BY <2>2 DEF SafeFork
  <2>4. Store.cache = {} /\ Store.disk = {}
    BY <2>1, <2>2 DEF Store
  <2>5. Intact(Store)
    BY <2>4 DEF Intact
  <2>6. TransactionOnce(remote)
    BY <2>1 DEF TransactionOnce
  <2> QED
    BY <2>3, <2>5, <2>6, InitIsChain DEF ForkInv
<1>2. ForkInv /\ ChainInv' /\ [Next]_chainVars => ForkInv'
  <2> SUFFICES ASSUME ForkInv, ChainInv', [Next]_chainVars PROVE ForkInv'
    OBVIOUS
  <2>1. CASE RemoteStep
    BY <2>1, RemoteStepKeepsFork
  <2>2. CASE RequestStep
    BY <2>2, RequestStepKeepsFork
  <2>3. CASE ReadStep
    BY <2>3, ReadStepKeepsFork
  <2>4. ASSUME NEW salt \in LocalSalts, AddBlock(salt) PROVE ForkInv'
    BY <2>4, AddBlockKeepsFork
  <2>5. ASSUME NEW n \in 0..latest, DeleteLaterBlocks(n) PROVE ForkInv'
    BY <2>5, DeleteLaterBlocksKeepsFork
  <2>6. CASE Start({})
    BY <2>6, StartKeepsFork
  <2>7. ASSUME NEW n \in 0..MaxBlock, Start({n}) PROVE ForkInv'
    <3>1. {n} \in SUBSET Nat
      BY ClientAssumption
    <3> QED
      BY <2>7, <3>1, StartKeepsFork
  <2>8. CASE UNCHANGED chainVars
    <3>1. /\ remote' = remote /\ client' = client /\ disk' = disk /\ latest' = latest
          /\ data' = data /\ chain' = chain /\ awaiting' \subseteq awaiting
      BY <2>8 DEF chainVars
    <3> QED
      BY <3>1, SameDataKeepsFork
  <2>9. CASE FinishReceipt
    BY <2>9, FinishReceiptKeepsFork
  <2>10. CASE FailReceipt
    <3>1. /\ remote' = remote /\ client' = client /\ disk' = disk /\ latest' = latest
          /\ data' = data /\ chain' = chain /\ awaiting' \subseteq awaiting
      BY <2>10 DEF FailReceipt
    <3> QED
      BY <3>1, SameDataKeepsFork
  <2> QED
    BY <2>1, <2>2, <2>3, <2>4, <2>5, <2>6, <2>7, <2>8, <2>9, <2>10 DEF Next
<1> QED
  BY <1>1, <1>2, ChainInvariance, PTL DEF Spec

(* A network that was forked at a final block shows one chain: blocks by   *)
(* number and by hash, the transaction, its block, its receipt and the     *)
(* logs are those of the remote chain up to the fork block and of the      *)
(* local blocks, whatever the remote network does and whatever is read     *)
(* first.                                                                  *)
THEOREM ForkedNetworkIsOneChain == Spec => []ForkIsOneChain
<1>1. ForkInv => ForkIsOneChain
  <2> SUFFICES ASSUME ForkInv, SafeFork
               PROVE  /\ latest = Number(chain)
                      /\ \A n \in 0..(latest + 1) : AnswersOnce(BlockByNumberKeys(n)) =>
                           GetBlockByNumber(n) = {b \in BlocksOf(chain) : Number(b) = n}
                      /\ \A h \in BlocksOf(remote) \cup data.byHash :
                           AnswersOnce(BlockByHashKeys(h)) =>
                             GetBlockByHash(h) = {b \in BlocksOf(chain) : b = h}
                      /\ AnswersOnce(TransactionKeys) => (GetTransaction <=> Included # {})
                      /\ AnswersOnce(BlockByTransactionHashKeys) =>
                           GetBlockByTransactionHash = Included
                      /\ AnswersOnce(ReceiptKeys) => GetTransactionReceipt = Included
                      /\ awaiting \subseteq Included
                      /\ \A n \in 0..latest : \A m \in n..latest : AnswersOnce(LogsKeys(n, m)) =>
                           GetLogs(n, m) = {b \in Included : Number(b) \in n..m}
    BY DEF ForkIsOneChain, Included
  <2>1. OneChain
    BY SafeIsOneChain
  <2>2. latest = Number(chain) /\ latest \in Nat
    BY <2>1, DataFacts
  <2>3. ASSUME NEW n \in 0..(latest + 1), AnswersOnce(BlockByNumberKeys(n))
        PROVE  GetBlockByNumber(n) = {b \in BlocksOf(chain) : Number(b) = n}
    <3>1. n \in Nat /\ n <= latest + 1
      BY <2>2
    <3> QED
      BY <2>1, <2>3, <3>1, BlockByNumberIsOfChain
  <2>4. ASSUME NEW n \in 0..latest, NEW m \in n..latest, AnswersOnce(LogsKeys(n, m))
        PROVE  GetLogs(n, m) = {b \in Included : Number(b) \in n..m}
    <3>1. n \in Nat /\ m \in Nat
      BY <2>2
    <3> QED
      BY <2>1, <2>4, <3>1, LogsAreOfChain
  <2>5. ASSUME NEW h, AnswersOnce(BlockByHashKeys(h))
        PROVE  GetBlockByHash(h) = {b \in BlocksOf(chain) : b = h}
    BY <2>1, <2>5, BlockByHashIsOfChain
  <2>6. AnswersOnce(TransactionKeys) => (GetTransaction <=> Included # {})
    BY <2>1, TransactionIsOfChain
  <2>7. AnswersOnce(BlockByTransactionHashKeys) => GetBlockByTransactionHash = Included
    BY <2>1, TransactionsBlockIsOfChain
  <2>8. AnswersOnce(ReceiptKeys) => GetTransactionReceipt = Included
    BY <2>1, ReceiptIsOfChain
  <2>9. awaiting \subseteq Included
    BY DEF ForkInv
  <2> QED
    BY <2>2, <2>3, <2>4, <2>5, <2>6, <2>7, <2>8, <2>9
<1> QED
  BY <1>1, ForkInvariance, PTL
=============================================================================
