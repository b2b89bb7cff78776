----------------------------- MODULE SignedBook -----------------------------
(***************************************************************************)
(* What the policy handlers promise, without requests, rows or signatures  *)
(* to check: a book holds one policy per id, and nothing happens in it     *)
(* that nobody has signed.  An entry is opened for a vault by the vault's  *)
(* owner, and retired, for good, by its owner too, on the strength of any  *)
(* policy the entry has held.  In between, its content is open to whoever  *)
(* signs one: the book asks for a signature, not for the owner's.  Who     *)
(* signs what, and when, is not the book's affair.                         *)
(***************************************************************************)
CONSTANTS Ids, Vaults, Keys, KeyOf, Contents, None

Policies == [vault : Vaults, content : Contents]

Messages == [key : Keys, content : Contents]

\* What the owner of a policy's vault signs.
OwnersMessage(p) == [key |-> KeyOf[p.vault], content |-> p.content]

VARIABLES
    signed,     \* messages a signature has been shown for
    book,       \* the policy of each id
    held,       \* the policies each id has had
    retired     \* ids whose policy is deleted

bookVars == <<signed, book, held, retired>>

Init ==
    /\ signed = {}
    /\ book = [i \in Ids |-> None]
    /\ held = [i \in Ids |-> {}]
    /\ retired = {}

Sign(m) ==
    /\ signed' = signed \cup {m}
    /\ UNCHANGED <<book, held, retired>>

Put(i, p) ==
    /\ book' = [book EXCEPT ![i] = p]
    /\ held' = [held EXCEPT ![i] = @ \cup {p}]
    /\ UNCHANGED <<signed, retired>>

Open(i, p) ==
    /\ book[i] = None
    /\ OwnersMessage(p) \in signed
    /\ Put(i, p)

Revise(i, m) ==
    /\ book[i] # None
    /\ m \in signed
    /\ Put(i, [vault |-> book[i].vault, content |-> m.content])

Retire(i) ==
    /\ \E p \in held[i] : OwnersMessage(p) \in signed
    /\ retired' = retired \cup {i}
    /\ UNCHANGED <<signed, book, held>>

Next ==
    \/ \E m \in Messages : Sign(m)
    \/ \E i \in Ids :
          \/ \E p \in Policies : Open(i, p)
          \/ \E m \in Messages : Revise(i, m)
          \/ Retire(i)

Spec == Init /\ [][Next]_bookVars

=============================================================================
