-------------------------------- MODULE Lock --------------------------------
(***************************************************************************)
(* What the users of a semaphore rely on: callers get a permit in the      *)
(* order in which they asked, never more of them than there are permits,   *)
(* and a caller at the head of the line does not wait for a free permit    *)
(* forever.                                                                *)
(***************************************************************************)
EXTENDS Naturals, Sequences, FiniteSets

CONSTANTS Callers, Permits

VARIABLES
  line,      \* the callers that wait, in order of arrival
  inside     \* the callers that have a permit

lockVars == <<line, inside>>

Start == line = <<>> /\ inside = {}

Ask(c) == line' = Append(line, c) /\ UNCHANGED inside

Enter ==
  /\ line # <<>>
  /\ Cardinality(inside) < Permits
  /\ inside' = inside \cup {Head(line)}
  /\ line' = Tail(line)

Leave(c) == c \in inside /\ inside' = inside \ {c} /\ UNCHANGED line

(* One leaves and the next enters, at once *)
HandOver(c) ==
  /\ c \in inside /\ line # <<>>
  /\ inside' = (inside \ {c}) \cup {Head(line)}
  /\ line' = Tail(line)

Move ==
  \/ Enter
  \/ \E c \in Callers : Ask(c) \/ Leave(c) \/ HandOver(c)

FairLock == Start /\ [][Move]_lockVars /\ WF_lockVars(Enter)
=============================================================================
