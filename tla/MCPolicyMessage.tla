--------------------------- MODULE MCPolicyMessage ---------------------------
(***************************************************************************)
(* Constants of the instance of PolicyMessage that TLC checks.             *)
(***************************************************************************)
EXTENDS PolicyMessage

SE == INSTANCE SequencesExt

Plain == {"a", "b"}

\* Texts of at most n pieces; a piece is a character or a whole delimiter.
Texts(n) ==
    LET Piece == {<<"a">>, <<"*">>, <<"#">>, Delimiter}
    IN  {SE!FlattenSeq(s) : s \in SE!SeqOf(Piece, n)}

\* A plug-in version of three pieces can look like the end of another policy.
SmallPolicies ==
    {[recipe |-> r, publicKey |-> <<"a">>, policyVersion |-> v, pluginVersion |-> w] :
        r \in Texts(2), v \in {<<"a">>, <<"b">>}, w \in Texts(3)}

=============================================================================
