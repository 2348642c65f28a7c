-------------------------- MODULE LastWriteWinsView --------------------------
(***************************************************************************)
(* What a Silver table promises: a last-write-wins view of an append-only  *)
(* history of row versions, replaced as a whole by each refresh.           *)
(***************************************************************************)
EXTENDS Integers

VARIABLES history, view

Newest == {r \in history : \A q \in history : q.key = r.key => q.ts <= r.ts}

(* One newest version for each key of the history. *)
IsLatest(v) ==
    /\ v \subseteq Newest
    /\ \A r \in history : \E s \in v : s.key = r.key
    /\ \A r, s \in v : r.key = s.key => r = s

Init == history = {} /\ view = {}

Append ==
    /\ history \subseteq history'
    /\ view' = view

Refresh ==
    /\ IsLatest(view')
    /\ history' = history

Next == Append \/ Refresh

Spec == Init /\ [][Next]_<<history, view>>
=============================================================================
