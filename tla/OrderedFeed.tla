----------------------------- MODULE OrderedFeed -----------------------------
(***************************************************************************)
(* What the live event stream promises, without its cursor, its batches or *)
(* its clients: rows appear in a log, and a publisher announces them one   *)
(* by one, each at most once and never one older than an earlier one.  A   *)
(* publisher that restarts begins a new epoch.                             *)
(***************************************************************************)
EXTENDS Integers, Sequences

VARIABLES
    rows,       \* the committed rows
    published   \* the rows announced in the current epoch, in order

feedVars == <<rows, published>>

Init == rows = {} /\ published = <<>>

Commit ==
    /\ \E e \in rows' : rows' = rows \cup {e}
    /\ UNCHANGED published

Publish(e) ==
    /\ \A i \in DOMAIN published : published[i] # e /\ published[i].ts <= e.ts
    /\ published' = Append(published, e)
    /\ UNCHANGED rows

NewEpoch ==
    /\ published' = <<>>
    /\ UNCHANGED rows

Next == Commit \/ (\E e \in rows : Publish(e)) \/ NewEpoch

Spec == Init /\ [][Next]_feedVars

=============================================================================
