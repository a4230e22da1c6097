------------------------------ MODULE ForkState ------------------------------
(***************************************************************************)
(* ForkStateManager: the state of a network that is forked from a remote   *)
(* one.  It keeps an account's fields and slots only when they were        *)
(* written, and reads the others from the remote node at the context       *)
(* block: the fork block, or an older one while a read of that block runs. *)
(* The state roots are random names of such partial states.                *)
(***************************************************************************)
EXTENDS Naturals, Sequences

CONSTANTS
  Accounts, Slots, Values, ForkBlock, Remote,   \* as in EagerState
  Undefined,      \* a field that was not written
  MaxRoots,       \* bound on the number of state roots
  MaxCheckpoints, \* bound on the nesting of checkpoints
  MaxWrites       \* bound on the number of writes

World ==
  [Accounts -> [info : Values, code : Values, storage : [Slots -> Values]]]

ASSUME RemoteAssumption ==
  0 \in Values /\ ForkBlock \in Nat /\ Remote \in [0..ForkBlock -> World]
ASSUME UndefinedAssumption == Undefined \notin Values
ASSUME BoundsAssumption ==
  MaxRoots \in Nat /\ MaxCheckpoints \in Nat /\ MaxWrites \in Nat

VARIABLES
  state,             \* _state: what was written to each account
  stateRoot,         \* _stateRoot
  stateRootToState,  \* _stateRootToState; the root r is its place in this list
  stateCheckpoints,  \* _stateCheckpoints
  contextBlock,      \* _contextBlockNumber
  contextChanged,    \* _contextChanged
  suspended,         \* the root that the node restores after a read of an older block
  blockOf,           \* not in the code: the context block that a root was made at
  call,              \* not in the code: the call that was made last, if it writes
  writes             \* not in the code: the number of writes so far

forkVars == <<state, stateRoot, stateRootToState, stateCheckpoints,
              contextBlock, contextChanged, suspended, blockOf, call, writes>>

Maybe(S) == S \cup {Undefined}

(* A slot that was set to 0 is null in the code, and 0 here. *)
AccountState ==
  [info : Maybe(Values), code : Maybe(Values), storage : [Slots -> Maybe(Values)],
   storageCleared : BOOLEAN]

NoSlots == [k \in Slots |-> Undefined]

MakeAccountState ==
  [info |-> Undefined, code |-> Undefined, storage |-> NoSlots, storageCleared |-> FALSE]

MakeEmptyAccountState ==
  [info |-> 0, code |-> 0, storage |-> NoSlots, storageCleared |-> TRUE]

ForkTypeOK ==
  /\ state \in [Accounts -> AccountState]
  /\ stateRootToState \in Seq([Accounts -> AccountState])
  /\ stateRoot \in DOMAIN stateRootToState
  /\ stateCheckpoints \in Seq(DOMAIN stateRootToState)
  /\ contextBlock \in 0..ForkBlock
  /\ contextChanged \in BOOLEAN
  /\ suspended \in 0..Len(stateRootToState)
  /\ blockOf \in Seq(0..ForkBlock) /\ Len(blockOf) = Len(stateRootToState)

-----------------------------------------------------------------------------
(* Reads *)

Local(written, remote) == IF written # Undefined THEN written ELSE remote

(* getContractStorage *)
GetContractStorage(acc, remote, k) ==
  CASE acc.storage[k] # Undefined -> acc.storage[k]
    [] acc.storage[k] = Undefined /\ acc.storageCleared -> 0
    [] OTHER -> remote.storage[k]

(* getAccount and the slots: what the account reads as, when the written   *)
(* part is s and the context is block n.                                   *)
GetAccount(s, n, a) ==
  [info |-> Local(s[a].info, Remote[n][a].info),
   code |-> Local(s[a].code, Remote[n][a].code),
   storage |-> [k \in Slots |-> GetContractStorage(s[a], Remote[n][a], k)]]

View(s, n) == [a \in Accounts |-> GetAccount(s, n, a)]

-----------------------------------------------------------------------------
(* Writes *)

Called(c) ==
  /\ writes < MaxWrites /\ writes' = writes + 1
  /\ call' = c
  /\ UNCHANGED <<stateRoot, stateRootToState, stateCheckpoints, contextBlock,
                contextChanged, suspended, blockOf>>

NotWriting == call' = [op |-> "none"] /\ UNCHANGED writes

(* putAccount with the account that getAccount returned and another nonce  *)
(* or balance: an empty code is written down too.                          *)
PutAccount(a, v) ==
  /\ state' = [state EXCEPT
       ![a].info = v,
       ![a].code = IF GetAccount(state, contextBlock, a).code = 0 THEN 0 ELSE @]
  /\ Called([op |-> "info", account |-> a, value |-> v])

PutContractCode(a, v) ==
  /\ state' = [state EXCEPT ![a].code = v]
  /\ Called([op |-> "code", account |-> a, value |-> v])

PutContractStorage(a, k, v) ==
  /\ state' = [state EXCEPT ![a].storage[k] = v]
  /\ Called([op |-> "slot", account |-> a, slot |-> k, value |-> v])

ClearContractStorage(a) ==
  /\ state' = [state EXCEPT ![a].storageCleared = TRUE, ![a].storage = NoSlots]
  /\ Called([op |-> "clear", account |-> a])

DeleteAccount(a) ==
  /\ state' = [state EXCEPT ![a] = MakeEmptyAccountState]
  /\ Called([op |-> "delete", account |-> a])

-----------------------------------------------------------------------------
(* State roots *)

(* getStateRoot gives the state a new name when it was changed.  It        *)
(* compares objects: a state that was changed and changed back may get a   *)
(* new name too.                                                           *)
GetStateRoot ==
  \/ /\ stateRootToState' = Append(stateRootToState, state)
     /\ stateRoot' = Len(stateRootToState')
     /\ blockOf' = Append(blockOf, contextBlock)
  \/ /\ stateRootToState[stateRoot] = state
     /\ UNCHANGED <<stateRootToState, stateRoot, blockOf>>

GetRoot ==
  /\ GetStateRoot
  /\ NotWriting
  /\ UNCHANGED <<state, stateCheckpoints, contextBlock, contextChanged, suspended>>

Checkpoint ==
  /\ NotWriting
  /\ GetStateRoot
  /\ stateCheckpoints' = Append(stateCheckpoints, stateRoot')
  /\ UNCHANGED <<state, contextBlock, contextChanged, suspended>>

PoppedCheckpoints == SubSeq(stateCheckpoints, 1, Len(stateCheckpoints) - 1)

Commit ==
  /\ NotWriting
  /\ stateCheckpoints # <<>>
  /\ stateCheckpoints' = PoppedCheckpoints
  /\ UNCHANGED <<state, stateRoot, stateRootToState, contextBlock, contextChanged,
                 suspended, blockOf>>

(* _setStateRoot *)
GoToRoot(r) == stateRoot' = r /\ state' = stateRootToState[r]

Revert ==
  /\ NotWriting
  /\ stateCheckpoints # <<>>
  /\ GoToRoot(stateCheckpoints[Len(stateCheckpoints)])
  /\ stateCheckpoints' = PoppedCheckpoints
  /\ UNCHANGED <<stateRootToState, contextBlock, contextChanged, suspended, blockOf>>

(* setStateRoot, and setBlockContext of the fork block, of a later one or  *)
(* of one with an irregular state.  The code looks the root up and does    *)
(* not compare blocks: that the root was made in the context of now is     *)
(* what this module ASSUMES of the node.  It goes to the root of a         *)
(* snapshot or of a block between requests, where the context is that of   *)
(* the fork block, and to the root it got itself, in the same context,     *)
(* when it undoes a call (node.ts:1085, 2222, 2366-2469).                  *)
SetStateRoot(r) ==
  /\ NotWriting
  /\ blockOf[r] = contextBlock
  /\ GoToRoot(r)
  /\ UNCHANGED <<stateRootToState, stateCheckpoints, contextBlock, contextChanged,
                 suspended, blockOf>>

-----------------------------------------------------------------------------
(* Reads of blocks before the fork: _runInBlockContext of the node gets    *)
(* the state root, sets the context, and restores the root at the end.     *)
(* The context's root is named after the remote block; a second read of    *)
(* the block gets another name here.                                       *)

SetBlockContext(n) ==
  /\ NotWriting
  /\ stateCheckpoints = <<>>
  /\ suspended = 0
  /\ stateRootToState[stateRoot] = state
  /\ suspended' = stateRoot
  /\ contextChanged' = TRUE
  /\ state' = [a \in Accounts |-> MakeAccountState]
  /\ stateRootToState' = Append(stateRootToState, state')
  /\ stateRoot' = Len(stateRootToState')
  /\ contextBlock' = n
  /\ blockOf' = Append(blockOf, n)
  /\ UNCHANGED stateCheckpoints

(* Mutant: the context block stays. *)
RestoredContextBlockKept == contextBlock

RestoredContextBlock == IF contextChanged THEN ForkBlock ELSE contextBlock

RestoreForkBlockContext ==
  /\ NotWriting
  /\ stateCheckpoints = <<>>
  /\ suspended # 0
  /\ GoToRoot(suspended)
  /\ contextBlock' = RestoredContextBlock
  /\ contextChanged' = FALSE
  /\ suspended' = 0
  /\ UNCHANGED <<stateRootToState, stateCheckpoints, blockOf>>

-----------------------------------------------------------------------------

ForkInit ==
  /\ state = [a \in Accounts |-> MakeAccountState]
  /\ stateRootToState = <<state>>
  /\ stateRoot = 1
  /\ stateCheckpoints = <<>>
  /\ contextBlock = ForkBlock
  /\ contextChanged = FALSE
  /\ suspended = 0
  /\ blockOf = <<ForkBlock>>
  /\ call = [op |-> "none"]
  /\ writes = 0

CanAddRoot == Len(stateRootToState) < MaxRoots

ForkWrite ==
  \E a \in Accounts :
    \/ \E v \in Values : PutAccount(a, v) \/ PutContractCode(a, v)
    \/ \E k \in Slots, v \in Values : PutContractStorage(a, k, v)
    \/ ClearContractStorage(a)
    \/ DeleteAccount(a)

ForkNext ==
  \/ ForkWrite
  \/ CanAddRoot /\ GetRoot
  \/ CanAddRoot /\ Len(stateCheckpoints) < MaxCheckpoints /\ Checkpoint
  \/ Commit
  \/ Revert
  \/ \E r \in DOMAIN stateRootToState : SetStateRoot(r)
  \/ CanAddRoot /\ \E n \in 0..(ForkBlock - 1) : SetBlockContext(n)
  \/ RestoreForkBlockContext

ForkSpec == ForkInit /\ [][ForkNext]_forkVars

-----------------------------------------------------------------------------

EagerStateInstance == INSTANCE EagerState WITH
  world <- View(state, contextBlock),
  root <- stateRoot,
  worlds <- [r \in DOMAIN stateRootToState |-> View(stateRootToState[r], blockOf[r])],
  checkpoints <- [i \in DOMAIN stateCheckpoints |->
                    View(stateRootToState[stateCheckpoints[i]], blockOf[stateCheckpoints[i]])]

(* A forked network reads like one whose whole state was copied at the     *)
(* fork: writes, deletions and cleared slots hide the remote values for    *)
(* good, across checkpoints, reverts, roots that are set again and reads   *)
(* of older blocks in between, and a state root always stands for the same *)
(* state.                                                                  *)
ImplementsEagerState == EagerStateInstance!EagerSpec
=============================================================================
