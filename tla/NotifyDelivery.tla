---------------------------- MODULE NotifyDelivery ----------------------------
(***************************************************************************)
(* What the notification pipeline promises its producers: a notification  *)
(* accepted for sending is handed to the sender (SendNotification) at most *)
(* once, possibly merged with others of its type into one summary, and is *)
(* lost only with the rest of a flush whose send panicked.                 *)
(***************************************************************************)
EXTENDS FiniteSets, Bags

CONSTANT Entries        \* the notifications

VARIABLES
    pending,    \* accepted, not yet handed to the sender
    sent,       \* bag: how many times each entry was handed to the sender
    dropped     \* accepted entries a failed send discarded

Init == pending = {} /\ sent = EmptyBag /\ dropped = {}

Accept(e) ==
    /\ e \notin pending \cup BagToSet(sent) \cup dropped
    /\ pending' = pending \cup {e}
    /\ UNCHANGED <<sent, dropped>>

\* One SendNotification call or one merged summary of several entries.
Send(S) ==
    /\ S # {} /\ S \subseteq pending
    /\ pending' = pending \ S
    /\ sent' = sent (+) SetToBag(S)
    /\ UNCHANGED dropped

\* A send fails: the entries still waiting with it are discarded.
Drop(S) ==
    /\ S # {} /\ S \subseteq pending
    /\ pending' = pending \ S
    /\ dropped' = dropped \cup S
    /\ UNCHANGED sent

Next ==
    \/ \E e \in Entries : Accept(e)
    \/ \E S \in SUBSET pending : Send(S) \/ Drop(S)

Spec == Init /\ [][Next]_<<pending, sent, dropped>>

=============================================================================
