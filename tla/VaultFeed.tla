------------------------------ MODULE VaultFeed ------------------------------
(***************************************************************************)
(* The vaults and what the event table tells of them.                      *)
(*                                                                         *)
(* The file of a vault and the events about it change in separate calls,   *)
(* of the worker for a reshare and of the agent for a deletion, and        *)
(* nothing orders the calls of one request among those of another.  This   *)
(* module watches VaultTasks: it adds the last event that a reader of the  *)
(* table must take to be about a vault, and whether the event of each file *)
(* operation was recorded in its turn.                                     *)
(*                                                                         *)
(* The row of a reshare carries the request, and so the vault; the row of  *)
(* a deletion has nothing but the public key, which the vaults of several  *)
(* plugins may share.                                                      *)
(***************************************************************************)
EXTENDS VaultTasks

CONSTANTS
    PublicKeyOf,    \* the public key of a vault
    NoEvent         \* no request

VARIABLES
    lastEvent,  \* lastEvent[v]: the request whose event is the last a reader can
                \* take to be about v
    doubtful    \* history: an event of v was lost, or a file operation of v
                \* came before the event of an earlier one was recorded

feedVars == <<lastEvent, doubtful>>

Writers == Reshares \cup Deletes

ASSUME VaultFeedAssumption ==
    /\ DOMAIN PublicKeyOf = Vaults
    /\ NoEvent \notin Writers

FeedTypeOK ==
    /\ lastEvent \in [Vaults -> Writers \cup {NoEvent}]
    /\ doubtful \in [Vaults -> BOOLEAN]

FeedInit ==
    /\ Init
    /\ lastEvent = [v \in Vaults |-> NoEvent]
    /\ doubtful = [v \in Vaults |-> FALSE]

\* The file operation of r is done and its event is about to be recorded.
AboutToRecord(r) ==
    IF r \in Deletes THEN pc[r] = "record" ELSE wpc[r] = "record"

Unrecorded(v) == {r \in Writers : VaultOf[r] = v /\ AboutToRecord(r)}

\* What the step does to the file and to the table.
Happens(r) == effects'[r] # effects[r]

Recorded(r) == events'[r] # events[r]

\* The request goes on, fails or dies without the event of what it did.
Lost(r) == (AboutToRecord(r) \/ Happens(r)) /\ ~AboutToRecord(r)' /\ ~Recorded(r)

\* The vaults the event of r may be about, for all that its row says.
About(r) ==
    IF r \in Deletes THEN {v \in Vaults : PublicKeyOf[v] = PublicKeyOf[VaultOf[r]]}
    ELSE {VaultOf[r]}

Observe ==
    /\ lastEvent' = [v \in Vaults |->
           IF \E r \in Writers : v \in About(r) /\ Recorded(r)
           THEN CHOOSE r \in Writers : v \in About(r) /\ Recorded(r)
           ELSE lastEvent[v]]
    /\ doubtful' = [v \in Vaults |->
           \/ \E r \in Writers : VaultOf[r] = v /\ Lost(r)
           \/ \E r \in Writers : VaultOf[r] = v /\ Happens(r) /\ Unrecorded(v) # {}
           \/ doubtful[v] /\ ~\E r \in Writers : VaultOf[r] = v /\ Happens(r)]

FeedNext == Next /\ Observe

FeedSpec == FeedInit /\ [][FeedNext]_<<vars, feedVars>>

-----------------------------------------------------------------------------
\* How far the last event tells whether the file of a vault exists, unless an event
\* was lost or two requests interleaved: after vault_reshared it does, and if it
\* still does after vault_deleted, then the deletion was of another vault of the
\* same public key, which the row cannot tell.  However many reshares and deletions
\* came before, one that runs undisturbed makes the table right again
\* (server.go:284-313, main.go:85-108).
LastEventTellsFile ==
    \A v \in Vaults :
        (lastEvent[v] # NoEvent /\ ~doubtful[v] /\ Unrecorded(v) = {}) =>
            /\ lastEvent[v] \in Reshares => vault[v]
            /\ lastEvent[v] \in Deletes /\ vault[v] => VaultOf[lastEvent[v]] # v

=============================================================================
