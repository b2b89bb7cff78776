------------------------- MODULE PolicyMessage_proofs -------------------------
(***************************************************************************)
(* Theorems about PolicyMessage, for texts of any length over any          *)
(* characters.                                                             *)
(***************************************************************************)
EXTENDS PolicyMessage, SequenceTheorems, TLAPS

\* The concatenation of two texts, character by character.
LEMMA Concatenation ==
    ASSUME NEW s \in Seq(Character), NEW t \in Seq(Character)
    PROVE  /\ s \o t \in Seq(Character)
           /\ Len(s \o t) = Len(s) + Len(t)
           /\ \A i \in 1 .. Len(s) : (s \o t)[i] = s[i]
           /\ \A i \in 1 .. Len(t) : (s \o t)[Len(s) + i] = t[i]
<1>1. /\ s \o t \in Seq(Character) /\ Len(s \o t) = Len(s) + Len(t)
      /\ \A i \in 1 .. Len(s) + Len(t) :
            (s \o t)[i] = IF i <= Len(s) THEN s[i] ELSE t[i - Len(s)]
  BY ConcatProperties
<1>2. Len(s) \in Nat /\ Len(t) \in Nat
  BY LenProperties
<1> QED
  BY <1>1, <1>2

\* The delimiter is a text.
LEMMA DelimiterCharacters ==
    /\ Delimiter \in Seq(Character) /\ Len(Delimiter) = 3
    /\ Delimiter[1] = "*" /\ Delimiter[2] = "#" /\ Delimiter[3] = "*"
BY DEF Delimiter, Character

\* What a text that starts with a delimiter consists of.
LEMMA DelimiterFirst ==
    ASSUME NEW x \in Seq(Character)
    PROVE  /\ Delimiter \o x \in Seq(Character)
           /\ Len(Delimiter \o x) = 3 + Len(x) /\ Len(x) \in Nat
           /\ (Delimiter \o x)[1] = "*"
           /\ (Delimiter \o x)[2] = "#"
           /\ (Delimiter \o x)[3] = "*"
           /\ \A i \in 1 .. Len(x) : (Delimiter \o x)[3 + i] = x[i]
<1> DEFINE v == Delimiter \o x
<1>1. /\ v \in Seq(Character) /\ Len(v) = Len(Delimiter) + Len(x)
      /\ \A i \in 1 .. Len(Delimiter) : v[i] = Delimiter[i]
      /\ \A i \in 1 .. Len(x) : v[Len(Delimiter) + i] = x[i]
  BY DelimiterCharacters, Concatenation
<1> HIDE DEF v
<1>2. v[1] = Delimiter[1] /\ v[2] = Delimiter[2] /\ v[3] = Delimiter[3]
  BY <1>1, DelimiterCharacters
<1>3. Len(x) \in Nat
  BY LenProperties
<1>4. /\ v \in Seq(Character) /\ Len(v) = 3 + Len(x)
      /\ v[1] = "*" /\ v[2] = "#" /\ v[3] = "*"
      /\ \A i \in 1 .. Len(x) : v[3 + i] = x[i]
  BY <1>1, <1>2, DelimiterCharacters
<1> QED
  BY <1>3, <1>4 DEF v

\* Taking a common beginning away.
LEMMA CancelLeft ==
    ASSUME NEW r \in Seq(Character), NEW t \in Seq(Character),
           NEW u \in Seq(Character), r \o t = r \o u
    PROVE  t = u
<1>1. Len(r) \in Nat /\ Len(t) \in Nat /\ Len(u) \in Nat
  BY LenProperties
<1>2. Len(r \o t) = Len(r) + Len(t) /\ Len(r \o u) = Len(r) + Len(u)
  BY Concatenation
<1>3. Len(t) = Len(u)
  BY <1>1, <1>2
<1>4. /\ \A i \in 1 .. Len(t) : (r \o t)[Len(r) + i] = t[i]
      /\ \A i \in 1 .. Len(u) : (r \o u)[Len(r) + i] = u[i]
  BY Concatenation
<1>5. \A i \in 1 .. Len(t) : t[i] = u[i]
  BY <1>3, <1>4
<1> QED
  BY <1>3, <1>5, SeqEqual

LEMMA PlainIsText == ASSUME NEW s \in Seq(Other) PROVE s \in Seq(Character)
<1>1. Len(s) \in Nat /\ s \in [1 .. Len(s) -> Other]
  BY LenProperties
<1>2. s \in [1 .. Len(s) -> Character]
  BY <1>1 DEF Character
<1> QED
  BY <1>1, <1>2, SeqDef

-----------------------------------------------------------------------------
\* A text that starts with a delimiter and does not go on with "#".
StartsClean(t) ==
    Len(t) >= 4 /\ t[1] = "*" /\ t[2] = "#" /\ t[3] = "*" /\ t[4] # "#"

\* What follows the recipe starts so: the key has no character of the
\* delimiter, and the next delimiter starts with "*".
LEMMA TailStartsClean ==
    ASSUME NEW key \in Seq(Other), NEW rest \in Seq(Character)
    PROVE  /\ Delimiter \o rest \in Seq(Character)
           /\ key \o (Delimiter \o rest) \in Seq(Character)
           /\ Delimiter \o (key \o (Delimiter \o rest)) \in Seq(Character)
           /\ StartsClean(Delimiter \o (key \o (Delimiter \o rest)))
<1> DEFINE v == Delimiter \o rest
           u == key \o v
           t == Delimiter \o u
<1>1. key \in Seq(Character) /\ Len(key) \in Nat /\ Len(rest) \in Nat
  BY PlainIsText, LenProperties
<1>2. v \in Seq(Character) /\ Len(v) = 3 + Len(rest) /\ v[1] = "*"
  BY DelimiterFirst
<1> HIDE DEF v
<1>3. u \in Seq(Character) /\ Len(u) = Len(key) + Len(v)
      /\ (\A i \in 1 .. Len(key) : u[i] = key[i])
      /\ (\A i \in 1 .. Len(v) : u[Len(key) + i] = v[i])
  BY <1>1, <1>2, Concatenation
<1> HIDE DEF u
<1>4. u[1] # "#"
  <2>1. CASE Len(key) = 0
    BY <1>1, <1>2, <1>3, <2>1
  <2>2. CASE Len(key) # 0
    <3>1. 1 \in 1 .. Len(key)
      BY <1>1, <2>2
    <3>2. key[1] \in Other
      BY <3>1, ElementOfSeq
    <3> QED
      BY <1>3, <3>1, <3>2, PolicyMessageAssumption
  <2> QED
    BY <2>1, <2>2
<1>5. Len(u) \in Nat /\ Len(u) >= 3
  BY <1>1, <1>2, <1>3
<1>6. /\ t \in Seq(Character) /\ Len(t) = 3 + Len(u)
      /\ t[1] = "*" /\ t[2] = "#" /\ t[3] = "*"
      /\ \A i \in 1 .. Len(u) : t[3 + i] = u[i]
  BY <1>3, DelimiterFirst
<1> HIDE DEF t
<1>7. t[4] = u[1]
  BY <1>5, <1>6
<1>8. t \in Seq(Character) /\ StartsClean(t)
  BY <1>4, <1>5, <1>6, <1>7 DEF StartsClean
<1> QED
  BY <1>2, <1>3, <1>8 DEF t, u, v

\* Of two readings of a message, the recipe without a delimiter is not the
\* longer one: the other's delimiter would lie in it, or overlap its own.
LEMMA RecipeNotLonger ==
    ASSUME NEW r \in Seq(Character), NEW t \in Seq(Character), StartsClean(t),
           NEW q \in Seq(Character), NEW u \in Seq(Character), StartsClean(u),
           ~Contains(q), r \o t = q \o u
    PROVE  Len(q) <= Len(r)
<1> SUFFICES ASSUME Len(q) > Len(r) PROVE FALSE
  BY LenProperties
<1> DEFINE m == r \o t
<1>1. Len(r) \in Nat /\ Len(q) \in Nat /\ Len(t) \in Nat /\ Len(u) \in Nat
  BY LenProperties
<1>2. \A i \in 1 .. Len(t) : m[Len(r) + i] = t[i]
  BY Concatenation
<1>3. /\ \A i \in 1 .. Len(q) : m[i] = q[i]
      /\ \A i \in 1 .. Len(u) : m[Len(q) + i] = u[i]
  BY Concatenation
<1> HIDE DEF m
<1>4. /\ m[Len(r) + 1] = "*" /\ m[Len(r) + 2] = "#" /\ m[Len(r) + 3] = "*"
      /\ m[Len(r) + 4] # "#"
      /\ m[Len(q) + 1] = "*" /\ m[Len(q) + 2] = "#"
  <2>1. /\ Len(t) >= 4 /\ Len(u) >= 4
        /\ t[1] = "*" /\ t[2] = "#" /\ t[3] = "*" /\ t[4] # "#"
        /\ u[1] = "*" /\ u[2] = "#"
    BY DEF StartsClean
  <2>2. 1 .. 4 \subseteq 1 .. Len(t) /\ 1 .. 4 \subseteq 1 .. Len(u)
    BY <1>1, <2>1
  <2>3. \A i \in 1 .. 4 : m[Len(r) + i] = t[i] /\ m[Len(q) + i] = u[i]
    BY <1>2, <1>3, <2>2
  <2>4. /\ m[Len(r) + 1] = t[1] /\ m[Len(r) + 2] = t[2]
        /\ m[Len(r) + 3] = t[3] /\ m[Len(r) + 4] = t[4]
    BY <1>1, <2>3
  <2>5. m[Len(q) + 1] = u[1] /\ m[Len(q) + 2] = u[2]
    BY <1>1, <2>3
  <2> QED
    BY <2>1, <2>4, <2>5
<1>5. CASE Len(q) = Len(r) + 1
  BY <1>1, <1>4, <1>5
<1>6. CASE Len(q) = Len(r) + 2
  BY <1>1, <1>4, <1>6
<1>7. CASE Len(q) >= Len(r) + 3
  <2>1. q[Len(r) + 1] = "*" /\ q[Len(r) + 2] = "#" /\ q[Len(r) + 3] = "*"
    <3>1. \A j \in 1 .. 3 : Len(r) + j \in 1 .. Len(q)
      BY <1>1, <1>7
    <3>2. \A j \in 1 .. 3 : m[Len(r) + j] = q[Len(r) + j]
      BY <1>3, <3>1
    <3> QED
      BY <1>4, <3>2
  <2>2. \A j \in 1 .. 3 : q[Len(r) + j] = Delimiter[j]
    BY <2>1, DelimiterCharacters
  <2> QED
    BY <1>1, <1>7, <2>2 DEF Contains
<1> QED
  BY <1>1, <1>5, <1>6, <1>7

\* Texts of one length that begin one text are the same, and so is the rest.
LEMMA SamePrefix ==
    ASSUME NEW r \in Seq(Character), NEW t \in Seq(Character),
           NEW q \in Seq(Character), NEW u \in Seq(Character),
           Len(r) = Len(q), r \o t = q \o u
    PROVE  r = q /\ t = u
<1>1. \A i \in 1 .. Len(r) : r[i] = q[i]
  <2>1. \A i \in 1 .. Len(r) : (r \o t)[i] = r[i]
    BY Concatenation
  <2>2. \A i \in 1 .. Len(q) : (q \o u)[i] = q[i]
    BY Concatenation
  <2> QED
    BY <2>1, <2>2
<1>2. r = q
  BY <1>1, SeqEqual
<1> QED
  BY <1>2, CancelLeft

\* A field without characters of the delimiter ends where the delimiter begins.
LEMMA PlainNotLonger ==
    ASSUME NEW k \in Seq(Other), NEW x \in Seq(Character),
           NEW l \in Seq(Other), NEW y \in Seq(Character),
           k \o (Delimiter \o x) = l \o y
    PROVE  Len(l) <= Len(k)
<1> SUFFICES ASSUME Len(l) > Len(k) PROVE FALSE
  BY LenProperties
<1> DEFINE v == Delimiter \o x
<1>1. /\ k \in Seq(Character) /\ l \in Seq(Character)
      /\ Len(k) \in Nat /\ Len(l) \in Nat /\ Len(x) \in Nat
  BY PlainIsText, LenProperties
<1>2. v \in Seq(Character) /\ Len(v) = 3 + Len(x) /\ v[1] = "*"
  BY DelimiterFirst
<1>3. \A i \in 1 .. Len(v) : (k \o v)[Len(k) + i] = v[i]
  BY <1>1, <1>2, Concatenation
<1>4. \A i \in 1 .. Len(l) : (l \o y)[i] = l[i]
  BY <1>1, Concatenation
<1>5. l[Len(k) + 1] = "*"
  <2>1. 1 \in 1 .. Len(v) /\ Len(k) + 1 \in 1 .. Len(l)
    BY <1>1, <1>2
  <2> QED
    BY <1>2, <1>3, <1>4, <2>1
<1>6. l[Len(k) + 1] \in Other
  <2>1. Len(k) + 1 \in 1 .. Len(l)
    BY <1>1
  <2> QED
    BY <2>1, ElementOfSeq
<1> QED
  BY <1>5, <1>6, PolicyMessageAssumption

LEMMA PlainField ==
    \A k, l \in Seq(Other) : \A x, y \in Seq(Character) :
        k \o (Delimiter \o x) = l \o (Delimiter \o y) => k = l /\ x = y
<1> SUFFICES ASSUME NEW k \in Seq(Other), NEW x \in Seq(Character),
                    NEW l \in Seq(Other), NEW y \in Seq(Character),
                    k \o (Delimiter \o x) = l \o (Delimiter \o y)
             PROVE  k = l /\ x = y
  OBVIOUS
<1>1. /\ k \in Seq(Character) /\ l \in Seq(Character)
      /\ Len(k) \in Nat /\ Len(l) \in Nat
  BY PlainIsText, LenProperties
<1>2. Delimiter \o x \in Seq(Character) /\ Delimiter \o y \in Seq(Character)
  BY DelimiterFirst
<1>3. Len(l) <= Len(k)
  BY <1>2, PlainNotLonger
<1>4. Len(k) <= Len(l)
  BY <1>2, PlainNotLonger
<1>5. k = l /\ Delimiter \o x = Delimiter \o y
  <2> DEFINE v == Delimiter \o x
             w == Delimiter \o y
  <2>1. /\ v \in Seq(Character) /\ w \in Seq(Character)
        /\ Len(k) = Len(l) /\ k \o v = l \o w
    BY <1>1, <1>2, <1>3, <1>4
  <2> HIDE DEF v, w
  <2>2. k = l /\ v = w
    BY <1>1, <2>1, SamePrefix
  <2> QED
    BY <2>2 DEF v, w
<1> QED
  BY <1>5, DelimiterCharacters, CancelLeft

-----------------------------------------------------------------------------
\* Two policies with one message are one policy, as soon as their recipes do
\* not contain the delimiter (common.go:16-31).
THEOREM MessageIsUnambiguous ==
    ASSUME NEW p \in Policy, NEW q \in Policy,
           ~Contains(p.recipe), ~Contains(q.recipe), Join(p) = Join(q)
    PROVE  p = q
<1> DEFINE rest(x) == x.policyVersion \o (Delimiter \o x.pluginVersion)
           tail(x) == Delimiter \o (x.publicKey \o (Delimiter \o rest(x)))
<1>1. ASSUME NEW x \in Policy
      PROVE  /\ rest(x) \in Seq(Character) /\ tail(x) \in Seq(Character)
             /\ StartsClean(tail(x)) /\ Join(x) = x.recipe \o tail(x)
             /\ x.publicKey \in Seq(Other) /\ x.policyVersion \in Seq(Other)
             /\ x.recipe \in Seq(Character) /\ x.pluginVersion \in Seq(Character)
  <2>1. /\ x.publicKey \in Seq(Other) /\ x.policyVersion \in Seq(Other)
        /\ x.recipe \in Seq(Character) /\ x.pluginVersion \in Seq(Character)
    BY DEF Policy
  <2>2. rest(x) \in Seq(Character)
    BY <2>1, TailStartsClean
  <2>3. tail(x) \in Seq(Character) /\ StartsClean(tail(x))
    BY <2>1, <2>2, TailStartsClean
  <2> QED
    BY <2>1, <2>2, <2>3 DEF Join
<1>2. Len(p.recipe) <= Len(q.recipe) /\ Len(q.recipe) <= Len(p.recipe)
  <2> HIDE DEF tail
  <2> QED
    BY <1>1, RecipeNotLonger
<1>3. p.recipe = q.recipe /\ tail(p) = tail(q)
  <2>1. Len(p.recipe) = Len(q.recipe)
    BY <1>1, <1>2, LenProperties
  <2> HIDE DEF tail
  <2> QED
    BY <1>1, <2>1, SamePrefix
<1>4. p.publicKey \o (Delimiter \o rest(p)) = q.publicKey \o (Delimiter \o rest(q))
  <2> HIDE DEF rest
  <2>1. ASSUME NEW x \in Policy
        PROVE  x.publicKey \o (Delimiter \o rest(x)) \in Seq(Character)
    BY <1>1, TailStartsClean
  <2> QED
    BY <1>3, <2>1, DelimiterCharacters, CancelLeft
<1>5. p.publicKey = q.publicKey /\ rest(p) = rest(q)
  <2> DEFINE k == p.publicKey
             l == q.publicKey
             x == rest(p)
             y == rest(q)
  <2>1. /\ k \in Seq(Other) /\ x \in Seq(Character)
        /\ l \in Seq(Other) /\ y \in Seq(Character)
        /\ k \o (Delimiter \o x) = l \o (Delimiter \o y)
    BY <1>1, <1>4
  <2> HIDE DEF k, l, x, y
  <2>2. k = l /\ x = y
    BY <2>1, PlainField
  <2> QED
    BY <2>2 DEF k, l, x, y
<1>6. p.policyVersion = q.policyVersion /\ p.pluginVersion = q.pluginVersion
  <2> DEFINE k == p.policyVersion
             l == q.policyVersion
             x == p.pluginVersion
             y == q.pluginVersion
  <2>1. /\ k \in Seq(Other) /\ x \in Seq(Character)
        /\ l \in Seq(Other) /\ y \in Seq(Character)
        /\ k \o (Delimiter \o x) = l \o (Delimiter \o y)
    BY <1>1, <1>5
  <2> HIDE DEF k, l, x, y
  <2>2. k = l /\ x = y
    BY <2>1, PlainField
  <2> QED
    BY <2>2 DEF k, l, x, y
<1>7. \A x \in Policy :
        x = [recipe |-> x.recipe, publicKey |-> x.publicKey,
             policyVersion |-> x.policyVersion, pluginVersion |-> x.pluginVersion]
  BY DEF Policy
<1> QED
  BY <1>3, <1>5, <1>6, <1>7

\* No message that the server checks has a second reading (common.go:16-31).
THEOREM MessageHasOneReading == Spec => []OneReading
<1> DEFINE Inv == /\ policy \in Policies
                  /\ message \in {NoMessage, Join(policy)}
                  /\ message # NoMessage => Accepted(policy)
<1>1. Init => Inv
  BY DEF Init
<1>2. Inv /\ [Next]_vars => Inv'
  BY DEF Next, PolicyToMessageHex, InvalidPolicySignature, vars
<1>3. Inv => OneReading
  BY MessageIsUnambiguous, PolicyMessageAssumption DEF OneReading, Accepted
<1> QED
  BY <1>1, <1>2, <1>3, PTL DEF Spec

=============================================================================
