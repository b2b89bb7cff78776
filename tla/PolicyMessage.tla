---------------------------- MODULE PolicyMessage ----------------------------
(***************************************************************************)
(* The message the owner of a policy signs, and whose signature the server *)
(* checks before it stores, changes or deletes the policy: four fields of  *)
(* the policy, joined by a delimiter (PolicyToMessageHex,                  *)
(* src/common/common.go).  A text is a sequence of characters; "*" and "#" *)
(* are the delimiter's, the others stand for themselves.                   *)
(***************************************************************************)
EXTENDS Integers, Sequences

CONSTANTS
    Other,      \* characters that are not the delimiter's
    Policies    \* policies that requests carry

Character == {"*", "#"} \cup Other

\* No message is checked against a signature unless the key is, with the plugin,
\* the name of a vault file that exists, and vaults have hexadecimal keys; the
\* version is an integer in decimal notation.  So neither has a character of the
\* delimiter.
Policy ==
    [recipe : Seq(Character), publicKey : Seq(Other),
     policyVersion : Seq(Other), pluginVersion : Seq(Character)]

ASSUME PolicyMessageAssumption ==
    /\ "*" \notin Other /\ "#" \notin Other
    /\ Policies \subseteq Policy

VARIABLES
    policy,     \* the policy of the request
    message     \* what PolicyToMessageHex returned for it

vars == <<policy, message>>

\* nil: no message yet, or an error.
NoMessage == <<>>

Init ==
    /\ policy \in Policies
    /\ message = NoMessage

Delimiter == <<"*", "#", "*">>

\* strings.Contains(item, delimiter)
Contains(item) ==
    \E i \in 0 .. Len(item) - 3 : \A j \in 1 .. 3 : item[i + j] = Delimiter[j]

\* Faulty variant of Accepted: only the fields of fixed form are looked at.
AcceptedButTexts(p) == ~Contains(p.publicKey) /\ ~Contains(p.policyVersion)

Accepted(p) ==
    \A item \in {p.recipe, p.publicKey, p.policyVersion, p.pluginVersion} : ~Contains(item)

\* strings.Join(fields, delimiter)
Join(p) ==
    p.recipe \o (Delimiter \o
        (p.publicKey \o (Delimiter \o
            (p.policyVersion \o (Delimiter \o p.pluginVersion)))))

PolicyToMessageHex ==
    /\ message = NoMessage
    /\ Accepted(policy)
    /\ message' = Join(policy)
    /\ UNCHANGED policy

\* A field contains the delimiter: the request is refused.
InvalidPolicySignature ==
    /\ message = NoMessage
    /\ ~Accepted(policy)
    /\ UNCHANGED vars

Next == PolicyToMessageHex \/ InvalidPolicySignature

Spec == Init /\ [][Next]_vars

-----------------------------------------------------------------------------
\* A message has one reading: a signature made for one policy is not valid for
\* another, although fields may end or begin with a part of the delimiter
\* (common.go:16-31).
OneReading ==
    message # NoMessage =>
        \A p \in Policies : Accepted(p) /\ Join(p) = message => p = policy

=============================================================================
