--------------------------- MODULE MediaLifecycle ---------------------------
(***************************************************************************)
(* What the upload pipeline promises about each item, with no requests,    *)
(* workers, messages or objects: the life of media.status (data-model.md,  *)
(* State Transitions), one item per content, and at most one announcement  *)
(* per item, made while the item is ready.                                 *)
(***************************************************************************)
EXTENDS Naturals

CONSTANTS MediaIds, Hashes, NoHash

VARIABLES stage, content, announced

vars == <<stage, content, announced>>

Shown(id) == stage[id] \in {"pending", "processing", "ready", "failed"}

Init ==
    /\ stage = [id \in MediaIds |-> "unused"]
    /\ content = [id \in MediaIds |-> NoHash]
    /\ announced = [id \in MediaIds |-> 0]

Register(id, h) ==
    /\ stage[id] = "unused"
    /\ \A other \in MediaIds : ~(Shown(other) /\ content[other] = h)
    /\ stage' = [stage EXCEPT ![id] = "pending"]
    /\ content' = [content EXCEPT ![id] = h]
    /\ UNCHANGED announced

Confirm(id) ==
    /\ stage[id] = "pending"
    /\ stage' = [stage EXCEPT ![id] = "processing"]
    /\ UNCHANGED <<content, announced>>

Resolve(id, outcome) ==
    /\ stage[id] = "processing"
    /\ stage' = [stage EXCEPT ![id] = outcome]
    /\ UNCHANGED <<content, announced>>

Announce(id) ==
    /\ stage[id] = "ready" /\ announced[id] = 0
    /\ announced' = [announced EXCEPT ![id] = 1]
    /\ UNCHANGED <<stage, content>>

Remove(ids) ==
    /\ \E id \in ids : Shown(id)
    /\ \A id \in ids : Shown(id) \/ stage[id] = "deleted"
    /\ stage' = [id \in MediaIds |-> IF id \in ids THEN "deleted" ELSE stage[id]]
    /\ content' = [id \in MediaIds |-> IF id \in ids THEN NoHash ELSE content[id]]
    /\ UNCHANGED announced

Next ==
    \/ \E id \in MediaIds :
          \/ \E h \in Hashes : Register(id, h)
          \/ Confirm(id)
          \/ Resolve(id, "ready") \/ Resolve(id, "failed")
          \/ Announce(id)
    \/ \E ids \in SUBSET MediaIds : Remove(ids)

Spec == Init /\ [][Next]_vars
=============================================================================
