-------------------------- MODULE OscorePacketsProofs --------------------------
(***************************************************************************)
(* Theorems about OscorePackets: what coap2oscore makes of a packet,       *)
(* oscore2coap makes that packet again.                                    *)
(***************************************************************************)
EXTENDS OscorePackets, CoapPacketsProofs

-----------------------------------------------------------------------------
\* The value of the OSCORE option.

LEMMA FlagBits ==
    ASSUME NEW n \in Int, 0 <= n, n <= 5
    PROVE  /\ (n + 8) % 8 = n /\ ((n + 8) \div 8) % 2 = 1 /\ ((n + 8) \div 16) % 2 = 0
           /\ (n + 8 + 16) % 8 = n /\ ((n + 8 + 16) \div 8) % 2 = 1
           /\ ((n + 8 + 16) \div 16) % 2 = 1
OBVIOUS

LEMMA ShortLength ==
    ASSUME NEW n \in Int, 0 <= n, n < 256
    PROVE  U8(n) = n
BY DEF U8

LEMMA JoinedLength ==
    ASSUME NEW x \in Seq(Int), NEW y \in Seq(Int)
    PROVE  x \o y \in Seq(Int) /\ Len(x \o y) = Len(x) + Len(y)
OBVIOUS

LEMMA OptionValue ==
    ASSUME NEW piv \in Seq(Int), NEW kid_context \in Seq(Int), NEW kid \in Seq(Int),
           piv # <<>>, Len(piv) <= 5,
           Len(oscore_option_generate(piv, kid_context, kid)) < 256
    PROVE  LET value == oscore_option_generate(piv, kid_context, kid)
           IN  /\ value \in Seq(Int) /\ value # <<>> /\ PivLen(value) = Len(piv)
               /\ OptionFields(value)
                    = [r |-> "OscoreNoError", flag |-> TRUE, piv |-> piv,
                       kid_context |-> kid_context, kid |-> kid]
<1> DEFINE value == oscore_option_generate(piv, kid_context, kid)
           n == Len(piv)
           cl == Len(kid_context)
           kl == Len(kid)
           context == IF kid_context = <<>> THEN <<>> ELSE <<cl>> \o kid_context
           c == Len(context)
           flags == n + 8 + (IF kid_context = <<>> THEN 0 ELSE 16)
           h == IF kid_context = <<>> THEN 0 ELSE 1
           at == 2 + n + c
<1>1. /\ n \in Int /\ 0 <= n /\ n <= 5 /\ n # 0 /\ cl \in Int /\ 0 <= cl /\ kl \in Int /\ 0 <= kl
      /\ flags \in Int /\ (h = 0 \/ h = 1)
  OBVIOUS
<1>2. value = <<flags>> \o piv \o context \o kid
  <2>1. piv \o kid_context \o kid # <<>>
    <3>1. Len(piv \o kid_context \o kid) = n + cl + Len(kid)
      BY ThreeParts
    <3> QED
      BY <3>1, <1>1
  <2> QED
    BY <2>1 DEF oscore_option_generate
<1>3. h = 0 => kid_context = <<>> /\ flags = n + 8 /\ cl = 0
  BY <1>1
<1>4. h = 1 => context = <<cl>> \o kid_context /\ flags = n + 8 + 16
  BY <1>1
<1>5. context \in Seq(Int) /\ c \in Int /\ 0 <= c /\ (h = 0 => c = 0) /\ (h = 1 => c = 1 + cl)
  <2>1. CASE kid_context = <<>>
    BY <2>1
  <2>2. CASE kid_context # <<>>
    BY <2>2
  <2> QED
    BY <2>1, <2>2
<1>6. n = Len(piv) /\ cl = Len(kid_context) /\ c = Len(context) /\ kl = Len(kid)
  OBVIOUS
<1>7. at = 2 + n + c
  OBVIOUS
<1>8. Len(value) < 256
  OBVIOUS
<1> HIDE DEF value, n, cl, kl, context, c, flags, h, at
<1>9. /\ value \in Seq(Int) /\ value[1] = flags /\ Len(value) = 1 + n + c + kl
      /\ Holds(value, 2, piv) /\ Holds(value, 2 + n, context) /\ Holds(value, 2 + n + c, kid)
  <2> DEFINE first == <<flags>>
  <2>1. first \in Seq(Int) /\ Len(first) = 1 /\ first[1] = flags
    BY <1>1
  <2> HIDE DEF first
  <2>2. value = first \o piv \o context \o kid
    BY <1>2 DEF first
  <2>3. first \o piv \o context \o kid \in Seq(Int)
        /\ Len(first \o piv \o context \o kid) = Len(first) + Len(piv) + Len(context) + Len(kid)
    <3>1. /\ first \o piv \o context \in Seq(Int)
          /\ Len(first \o piv \o context) = Len(first) + Len(piv) + Len(context)
      BY ONLY <1>5, <2>1, piv \in Seq(Int), ThreeParts, Zenon
    <3> DEFINE front == first \o piv \o context
    <3>2. front \in Seq(Int)
      BY ONLY <3>1
    <3>3. Len(front) = Len(first) + Len(piv) + Len(context)
      BY ONLY <3>1
    <3> HIDE DEF front
    <3>4. front \o kid \in Seq(Int) /\ Len(front \o kid) = Len(front) + Len(kid)
      BY ONLY <3>2, kid \in Seq(Int), JoinedLength
    <3> QED
      BY ONLY <3>3, <3>4, Zenon DEF front
  <2>4. value \in Seq(Int) /\ Len(value) = 1 + n + c + kl
    BY ONLY <1>6, <2>1, <2>2, <2>3, Zenon
  <2>5. Holds(value, 1, first \o piv \o context \o kid)
    BY ONLY <2>2, <2>4, HoldsItself, Zenon
  <2>6. /\ Holds(value, 1, first) /\ Holds(value, 1 + Len(first), piv)
        /\ Holds(value, 1 + Len(first) + Len(piv), context)
        /\ Holds(value, 1 + Len(first) + Len(piv) + Len(context), kid)
    <3>1. 1 \in Nat \ {0}
      OBVIOUS
    <3> QED
      BY ONLY <1>5, <2>1, <2>4, <2>5, <3>1, piv \in Seq(Int), kid \in Seq(Int), HoldsFourParts,
              Zenon
  <2>7. value[1] = flags
    BY <2>1, <2>6 DEF Holds
  <2>8. 1 + Len(first) = 2
    BY <2>1
  <2> QED
    BY ONLY <1>6, <2>4, <2>6, <2>7, <2>8, Zenon
<1>10. value[1] % 8 = n /\ (value[1] \div 8) % 2 = 1 /\ (value[1] \div 16) % 2 = h
  <2>1. /\ (n + 8) % 8 = n /\ ((n + 8) \div 8) % 2 = 1 /\ ((n + 8) \div 16) % 2 = 0
        /\ (n + 8 + 16) % 8 = n /\ ((n + 8 + 16) \div 8) % 2 = 1
        /\ ((n + 8 + 16) \div 16) % 2 = 1
    BY ONLY <1>1, FlagBits
  <2>2. CASE h = 0
    BY ONLY <1>3, <1>9, <2>1, <2>2, Zenon
  <2>3. CASE h = 1
    BY ONLY <1>4, <1>9, <2>1, <2>3, Zenon
  <2> QED
    BY ONLY <1>1, <2>2, <2>3, Zenon
<1>11. Slice(value, 2, n) = piv
  <2>1. 2 \in Nat \ {0}
    OBVIOUS
  <2> QED
    BY ONLY <1>6, <1>9, <2>1, piv \in Seq(Int), HeldSlice, Zenon
<1>12. Slice(value, 3 + n, cl) = kid_context /\ (IF h = 0 THEN 0 ELSE value[2 + n]) = cl
  <2>1. CASE h = 0
    <3>1. Slice(value, 3 + n, 0) = <<>>
      BY DEF Slice
    <3> QED
      BY ONLY <1>3, <2>1, <3>1, Zenon
  <2>2. CASE h = 1
    <3> DEFINE first == <<cl>>
    <3>1. first \in Seq(Int) /\ Len(first) = 1 /\ first[1] = cl
      BY ONLY <1>1
    <3>2. context = first \o kid_context
      BY ONLY <2>2, <1>4, Zenon
    <3> HIDE DEF first
    <3>3. 2 + n \in Nat \ {0} /\ 2 + n + Len(first) = 3 + n /\ 3 + n \in Nat \ {0}
      BY ONLY <1>1, <3>1
    <3>4. Holds(value, 2 + n, first) /\ Holds(value, 3 + n, kid_context)
      <4>1. Holds(value, 2 + n, first \o kid_context)
        BY ONLY <1>9, <3>2, Zenon
      <4>2. Holds(value, 2 + n, first) /\ Holds(value, 2 + n + Len(first), kid_context)
        BY ONLY <1>9, <4>1, <3>1, <3>3, kid_context \in Seq(Int), HoldsParts
      <4> QED
        BY ONLY <3>3, <4>2, Zenon
    <3>5. value[2 + n] = cl
      <4>1. value[2 + n + 1 - 1] = first[1] /\ 2 + n + 1 - 1 = 2 + n
        BY ONLY <1>1, <3>1, <3>4 DEF Holds
      <4> QED
        BY ONLY <3>1, <4>1
    <3>6. Slice(value, 3 + n, cl) = kid_context
      BY ONLY <1>6, <1>9, kid_context \in Seq(Int), <3>3, <3>4, HeldSlice, Zenon
    <3>7. h # 0
      BY ONLY <2>2
    <3> QED
      BY ONLY <3>5, <3>6, <3>7, Zenon
  <2> QED
    BY ONLY <1>1, <2>1, <2>2, Zenon
<1>13. 2 + n + (IF h = 0 THEN 0 ELSE 1 + cl) = at
  BY ONLY <1>1, <1>5, <1>7
<1>14. Slice(value, at, U8(Len(value) - at + 1)) = kid
  <2>1. at \in Nat \ {0} /\ Len(value) - at + 1 = kl
    BY ONLY <1>1, <1>5, <1>7, <1>9
  <2>2. U8(kl) = kl
    <3>1. kl < 256
      BY ONLY <1>1, <1>5, <1>8, <1>9
    <3> QED
      BY ONLY <1>1, <3>1, ShortLength
  <2>3. Slice(value, at, kl) = kid
    BY ONLY <1>6, <1>7, <1>9, <2>1, kid \in Seq(Int), HeldSlice, Zenon
  <2> QED
    BY ONLY <2>1, <2>2, <2>3, Zenon
<1>15. PivLen(value) = n
  BY ONLY <1>10, Zenon DEF PivLen
<1>16. OptionFields(value)
         = [r |-> "OscoreNoError", flag |-> TRUE, piv |-> Slice(value, 2, n),
            kid_context |-> Slice(value, 3 + n, cl),
            kid |-> Slice(value, at, U8(Len(value) - at + 1))]
  <2>1. 1 # 0 /\ n # 0
    BY ONLY <1>1
  <2> QED
    BY ONLY <1>10, <1>12, <1>13, <1>15, <2>1, Zenon DEF OptionFields
<1>17. OptionFields(value)
         = [r |-> "OscoreNoError", flag |-> TRUE, piv |-> piv, kid_context |-> kid_context,
            kid |-> kid]
  BY ONLY <1>11, <1>12, <1>14, <1>16, Zenon
<1>18. value # <<>>
  <2>1. Len(value) # 0
    BY ONLY <1>1, <1>5, <1>9
  <2> QED
    BY <2>1
<1> QED
  BY ONLY <1>9, <1>15, <1>17, <1>18, Zenon DEF value, n

\* oscore2coap finds in the value of the OSCORE option what coap2oscore put
\* there: a PIV of up to five bytes, an ID Context or none, a KID or none.
THEOREM OptionValueIsRead ==
    ASSUME NEW piv \in Seq(Int), NEW kid_context \in Seq(Int), NEW kid \in Seq(Int),
           piv # <<>>, Len(piv) <= 5,
           Len(oscore_option_generate(piv, kid_context, kid)) < 256
    PROVE  OptionFields(oscore_option_generate(piv, kid_context, kid))
             = [r |-> "OscoreNoError", flag |-> TRUE, piv |-> piv, kid_context |-> kid_context,
                kid |-> kid]
BY OptionValue

-----------------------------------------------------------------------------
\* A loop that keeps some of the options in the order they have.

KeptOptions == [number : Int, value : Cells]

\* g[k] holds, of the first k options, those whose index is chosen.
Collects(g, n, chosen, option) ==
    /\ g \in [0..n -> Seq(KeptOptions)]
    /\ g[0] = <<>>
    /\ \A k \in 1..n : g[k] = IF k \in chosen THEN Append(g[k - 1], option[k]) ELSE g[k - 1]

\* Option i is at place Len(g[i]), and every place is that of an option.
CollectedAt(g, k, chosen, option) ==
    /\ \A i \in 0..k : Len(g[i]) <= Len(g[k])
    /\ \A i \in 1..k :
           i \in chosen => Len(g[i]) = Len(g[i - 1]) + 1 /\ g[k][Len(g[i])] = option[i]
    /\ \A j \in 1..Len(g[k]) : \E i \in 1..k : i \in chosen /\ Len(g[i]) = j

LEMMA Appended ==
    ASSUME NEW S, NEW s \in Seq(S), NEW x \in S
    PROVE  /\ Append(s, x) \in Seq(S) /\ Len(Append(s, x)) = Len(s) + 1 /\ Len(s) \in Nat
           /\ Append(s, x)[Len(s) + 1] = x
           /\ \A j \in 1..Len(s) : Append(s, x)[j] = s[j]
OBVIOUS

LEMMA Collected ==
    ASSUME NEW n \in Nat, NEW chosen, NEW option \in [1..n -> KeptOptions], NEW g,
           Collects(g, n, chosen, option)
    PROVE  \A k \in 0..n : CollectedAt(g, k, chosen, option)
<1> DEFINE S == { k \in Nat : k <= n => CollectedAt(g, k, chosen, option) }
<1>1. 0 \in S
  <2>1. g[0] = <<>> /\ Len(g[0]) = 0
    BY DEF Collects
  <2> QED
    BY <2>1 DEF CollectedAt
<1>2. ASSUME NEW m \in Nat, m \in S PROVE m + 1 \in S
  <2> SUFFICES ASSUME m + 1 <= n PROVE CollectedAt(g, m + 1, chosen, option)
    OBVIOUS
  <2>1. CollectedAt(g, m, chosen, option)
    BY <1>2
  <2>2. PICK k \in 1..n : k = m + 1 /\ k - 1 = m
    OBVIOUS
  <2>3. g[m] \in Seq(KeptOptions) /\ option[k] \in KeptOptions
    BY DEF Collects
  <2>4. CASE k \in chosen
    <3>1. g[k] = Append(g[m], option[k])
      BY <2>2, <2>4 DEF Collects
    <3>2. /\ Len(g[k]) = Len(g[m]) + 1 /\ Len(g[m]) \in Nat
          /\ g[k][Len(g[m]) + 1] = option[k]
          /\ \A j \in 1..Len(g[m]) : g[k][j] = g[m][j]
      BY <2>3, <3>1, Appended
    <3>3. \A i \in 0..m : Len(g[i]) \in Nat
      BY <2>2 DEF Collects
    <3>4. \A i \in 0..k : Len(g[i]) <= Len(g[k])
      <4> TAKE i \in 0..k
      <4>1. CASE i = k
        BY <3>2, <4>1
      <4>2. CASE i \in 0..m
        <5>1. Len(g[i]) <= Len(g[m]) /\ Len(g[i]) \in Nat
          BY <2>1, <3>3, <4>2 DEF CollectedAt
        <5> QED
          BY <3>2, <5>1
      <4> QED
        BY <2>2, <4>1, <4>2
    <3>5. \A i \in 1..k :
              i \in chosen => Len(g[i]) = Len(g[i - 1]) + 1 /\ g[k][Len(g[i])] = option[i]
      <4> TAKE i \in 1..k
      <4>1. CASE i = k
        BY <2>2, <3>2, <4>1
      <4>2. CASE i \in 1..m
        <5> SUFFICES ASSUME i \in chosen
                     PROVE  Len(g[i]) = Len(g[i - 1]) + 1 /\ g[k][Len(g[i])] = option[i]
          OBVIOUS
        <5>1. Len(g[i]) = Len(g[i - 1]) + 1 /\ g[m][Len(g[i])] = option[i]
          BY <2>1, <4>2 DEF CollectedAt
        <5>2. Len(g[i]) <= Len(g[m]) /\ Len(g[i - 1]) \in Nat
          BY <2>1, <3>3, <4>2 DEF CollectedAt
        <5>3. Len(g[i]) \in 1..Len(g[m])
          BY <5>1, <5>2, <3>2
        <5> QED
          BY <5>1, <5>3, <3>2
      <4> QED
        BY <2>2, <4>1, <4>2
    <3>6. \A j \in 1..Len(g[k]) : \E i \in 1..k : i \in chosen /\ Len(g[i]) = j
      <4> TAKE j \in 1..Len(g[k])
      <4>1. CASE j = Len(g[k])
        BY <2>2, <2>4, <4>1
      <4>2. CASE j \in 1..Len(g[m])
        <5>1. PICK i \in 1..m : i \in chosen /\ Len(g[i]) = j
          BY <2>1, <4>2 DEF CollectedAt
        <5> QED
          BY <2>2, <5>1
      <4> QED
        BY <3>2, <4>1, <4>2
    <3> QED
      BY <2>2, <3>4, <3>5, <3>6 DEF CollectedAt
  <2>5. CASE k \notin chosen
    <3>1. g[k] = g[m]
      BY <2>2, <2>5 DEF Collects
    <3>2. \A i \in 0..k : Len(g[i]) <= Len(g[k])
      <4>1. Len(g[m]) \in Nat
        BY <2>3
      <4> QED
        BY <2>1, <2>2, <3>1, <4>1 DEF CollectedAt
    <3>3. \A i \in 1..k :
              i \in chosen => Len(g[i]) = Len(g[i - 1]) + 1 /\ g[k][Len(g[i])] = option[i]
      BY <2>1, <2>2, <2>5, <3>1 DEF CollectedAt
    <3>4. \A j \in 1..Len(g[k]) : \E i \in 1..k : i \in chosen /\ Len(g[i]) = j
      <4> TAKE j \in 1..Len(g[k])
      <4>1. PICK i \in 1..m : i \in chosen /\ Len(g[i]) = j
        BY <2>1, <3>1 DEF CollectedAt
      <4> QED
        BY <2>2, <4>1
    <3> QED
      BY <2>2, <3>2, <3>3, <3>4 DEF CollectedAt
  <2> QED
    BY <2>4, <2>5
<1>3. Nat \subseteq S
  <2> HIDE DEF S
  <2> QED
    BY <1>1, <1>2, Induction
<1> QED
  BY <1>3

LEMMA CollectedInOrder ==
    ASSUME NEW n \in Nat, NEW chosen, NEW option \in [1..n -> KeptOptions], NEW g,
           Collects(g, n, chosen, option), NEW i \in 1..n, NEW m \in 1..n, i < m, m \in chosen
    PROVE  Len(g[i]) < Len(g[m])
<1>1. i \in 0..m - 1 /\ m - 1 \in 0..n /\ m \in 0..n /\ i \in 0..n
  OBVIOUS
<1>2. CollectedAt(g, m - 1, chosen, option) /\ CollectedAt(g, m, chosen, option)
  BY <1>1, Collected
<1>3. Len(g[i]) <= Len(g[m - 1])
  BY <1>1, <1>2 DEF CollectedAt
<1>4. Len(g[m]) = Len(g[m - 1]) + 1
  <2>1. m \in 1..m
    OBVIOUS
  <2> QED
    BY <1>2, <2>1 DEF CollectedAt
<1>5. Len(g[i]) \in Nat /\ Len(g[m - 1]) \in Nat
  BY <1>1 DEF Collects
<1> QED
  BY <1>3, <1>4, <1>5

\* Where the chosen options are.
LEMMA CollectedPlace ==
    ASSUME NEW n \in Nat, NEW chosen, NEW option \in [1..n -> KeptOptions], NEW g,
           Collects(g, n, chosen, option), NEW i \in 1..n, i \in chosen
    PROVE  /\ Len(g[i]) \in 1..Len(g[n]) /\ Len(g[i]) = Len(g[i - 1]) + 1
           /\ g[n][Len(g[i])] = option[i]
<1>1. CollectedAt(g, n, chosen, option)
  BY Collected
<1>2. /\ Len(g[i]) <= Len(g[n]) /\ Len(g[i]) = Len(g[i - 1]) + 1
      /\ g[n][Len(g[i])] = option[i]
  BY <1>1 DEF CollectedAt
<1>3. Len(g[i - 1]) \in Nat /\ Len(g[n]) \in Nat
  BY DEF Collects
<1> QED
  BY <1>2, <1>3

NumbersBelow(options, bound) == {j \in 1..Len(options) : options[j].number < bound}

ChosenBelow(option, n, chosen, bound) ==
    {i \in 1..n : i \in chosen /\ option[i].number < bound}

OptionsBelow(option, n, bound) == {i \in 1..n : option[i].number < bound}

LEMMA CollectedCount ==
    ASSUME NEW n \in Nat, NEW chosen, NEW option \in [1..n -> KeptOptions], NEW g,
           Collects(g, n, chosen, option), NEW bound
    PROVE  /\ IsFiniteSet(ChosenBelow(option, n, chosen, bound))
           /\ Cardinality(NumbersBelow(g[n], bound))
                = Cardinality(ChosenBelow(option, n, chosen, bound))
<1> DEFINE places  == {j \in 1..Len(g[n]) : g[n][j].number < bound}
           indexes == {i \in 1..n : i \in chosen /\ option[i].number < bound}
           place == [i \in indexes |-> Len(g[i])]
<1>1. IsFiniteSet(indexes)
  <2>1. indexes \in SUBSET (1..n) /\ IsFiniteSet(1..n)
    BY FS_Interval
  <2> QED
    BY <2>1, FS_Subset
<1>2. \A i \in indexes : place[i] \in places
  <2> TAKE i \in indexes
  <2>1. Len(g[i]) \in 1..Len(g[n]) /\ g[n][Len(g[i])] = option[i]
    BY CollectedPlace
  <2> QED
    BY <2>1
<1>3. \A i, m \in indexes : place[i] = place[m] => i = m
  <2> TAKE i, m \in indexes
  <2> SUFFICES ASSUME Len(g[i]) = Len(g[m]), i # m PROVE FALSE
    OBVIOUS
  <2>1. i \in 1..n /\ m \in 1..n /\ i \in chosen /\ m \in chosen
    OBVIOUS
  <2>2. Len(g[i]) \in Nat
    BY <2>1 DEF Collects
  <2>3. CASE i < m
    <3>1. Len(g[i]) < Len(g[m])
      BY <2>1, <2>3, CollectedInOrder
    <3> QED
      BY <2>2, <3>1
  <2>4. CASE m < i
    <3>1. Len(g[m]) < Len(g[i])
      BY <2>1, <2>4, CollectedInOrder
    <3> QED
      BY <2>2, <3>1
  <2> QED
    BY <2>1, <2>3, <2>4
<1>4. \A j \in places : \E i \in indexes : place[i] = j
  <2> TAKE j \in places
  <2>1. CollectedAt(g, n, chosen, option)
    BY Collected
  <2>2. PICK i \in 1..n : i \in chosen /\ Len(g[i]) = j
    BY <2>1 DEF CollectedAt
  <2>3. g[n][j] = option[i]
    BY <2>2, CollectedPlace
  <2>4. i \in indexes
    BY <2>2, <2>3
  <2> QED
    BY <2>2, <2>4
<1>5. place \in Bijection(indexes, places)
  <2>1. place \in [indexes -> places]
    BY <1>2
  <2> HIDE DEF place, places, indexes
  <2>2. place \in Injection(indexes, places)
    BY ONLY <1>3, <2>1 DEF Injection, IsInjective
  <2>3. place \in Surjection(indexes, places)
    BY ONLY <1>4, <2>1 DEF Surjection
  <2> QED
    BY ONLY <2>2, <2>3 DEF Bijection
<1> HIDE DEF places, indexes
<1>6. Cardinality(places) = Cardinality(indexes)
  <2>1. ExistsBijection(indexes, places)
    BY <1>5 DEF ExistsBijection
  <2> QED
    BY <1>1, <2>1, FS_Bijection
<1> QED
  BY <1>1, <1>6 DEF places, indexes, NumbersBelow, ChosenBelow

\* What one loop chooses and what another leaves out add up.
InTwo(g, chosen, h, others, n, option) ==
    /\ n \in Nat /\ option \in [1..n -> KeptOptions]
    /\ \A i \in 1..n : i \in chosen <=> i \notin others
    /\ Collects(g, n, chosen, option) /\ Collects(h, n, others, option)

LEMMA CountsAddUp ==
    ASSUME NEW g, NEW chosen, NEW h, NEW others, NEW n, NEW option,
           InTwo(g, chosen, h, others, n, option), NEW bound
    PROVE  Cardinality(NumbersBelow(g[n], bound)) + Cardinality(NumbersBelow(h[n], bound))
             = Cardinality(OptionsBelow(option, n, bound))
<1> DEFINE first  == ChosenBelow(option, n, chosen, bound)
           second == ChosenBelow(option, n, others, bound)
           all    == OptionsBelow(option, n, bound)
<1>1. IsFiniteSet(first) /\ Cardinality(NumbersBelow(g[n], bound)) = Cardinality(first)
  BY CollectedCount DEF InTwo
<1>2. IsFiniteSet(second) /\ Cardinality(NumbersBelow(h[n], bound)) = Cardinality(second)
  BY CollectedCount DEF InTwo
<1>3. first \cup second = all /\ first \cap second = {}
  BY DEF ChosenBelow, OptionsBelow, InTwo
<1> HIDE DEF first, second, all
<1>4. Cardinality(all) = Cardinality(first) + Cardinality(second)
  <2>1. Cardinality(first \cup second)
          = Cardinality(first) + Cardinality(second) - Cardinality(first \cap second)
    BY <1>1, <1>2, FS_Union
  <2>2. Cardinality(first \cap second) = 0
    BY <1>3, FS_EmptySet
  <2>3. Cardinality(first) \in Nat /\ Cardinality(second) \in Nat
    BY <1>1, <1>2, FS_CardinalityType
  <2>4. Cardinality(all)
          = Cardinality(first) + Cardinality(second) - Cardinality(first \cap second)
    BY ONLY <1>3, <2>1, Zenon
  <2> QED
    BY ONLY <2>2, <2>3, <2>4
<1> QED
  BY <1>1, <1>2, <1>4 DEF all

\* In a sorted sequence fewer than k numbers are below the k-th one, and k or
\* more below the next.
LEMMA SortedCount ==
    ASSUME NEW n \in Nat, NEW number \in [1..n -> Int],
           \A i, j \in 1..n : i <= j => number[i] <= number[j],
           NEW k \in 1..n, NEW m \in Int
    PROVE  LET below == Cardinality({i \in 1..n : number[i] < m})
           IN  /\ below \in Nat /\ below <= n
               /\ below < k <=> number[k] >= m
<1> DEFINE small == {i \in 1..n : number[i] < m}
<1>1. IsFiniteSet(small) /\ Cardinality(small) \in Nat /\ Cardinality(small) <= n
  <2>1. IsFiniteSet(1..n) /\ Cardinality(1..n) = n
    BY FS_Interval
  <2>2. small \in SUBSET (1..n)
    OBVIOUS
  <2> HIDE DEF small
  <2>3. IsFiniteSet(small) /\ Cardinality(small) <= Cardinality(1..n)
    BY ONLY <2>1, <2>2, FS_Subset, Zenon
  <2>4. Cardinality(small) \in Nat
    BY <2>3, FS_CardinalityType
  <2> QED
    BY ONLY <2>1, <2>3, <2>4, Zenon
<1>2. CASE number[k] >= m
  <2>1. small \in SUBSET (1..k - 1)
    <3> SUFFICES ASSUME NEW i \in small PROVE i \in 1..k - 1
      OBVIOUS
    <3>1. number[i] < m /\ i \in 1..n /\ number[i] \in Int /\ number[k] \in Int
      OBVIOUS
    <3>2. ~(k <= i)
      <4> SUFFICES ASSUME k <= i PROVE FALSE
        OBVIOUS
      <4>1. number[k] <= number[i]
        BY <3>1
      <4> QED
        BY <1>2, <3>1, <4>1
    <3> QED
      BY <3>1, <3>2
  <2>2. IsFiniteSet(1..k - 1) /\ Cardinality(1..k - 1) = k - 1
    <3>1. 1 \in Int /\ k - 1 \in Int /\ (IF 1 > k - 1 THEN 0 ELSE k - 1 - 1 + 1) = k - 1
      OBVIOUS
    <3> QED
      BY <3>1, FS_Interval
  <2> HIDE DEF small
  <2>3. Cardinality(small) <= k - 1
    <3>1. Cardinality(small) <= Cardinality(1..k - 1)
      BY ONLY <2>1, <2>2, FS_Subset, Zenon
    <3> QED
      BY ONLY <2>2, <3>1, Zenon
  <2> QED
    BY <1>1, <1>2, <2>3 DEF small
<1>3. CASE ~(number[k] >= m)
  <2>1. 1..k \in SUBSET small
    <3> SUFFICES ASSUME NEW i \in 1..k PROVE i \in small
      OBVIOUS
    <3>1. number[i] <= number[k] /\ number[i] \in Int /\ number[k] \in Int
      OBVIOUS
    <3> QED
      BY <1>3, <3>1
  <2>2. Cardinality(1..k) = k
    <3>1. 1 \in Int /\ k \in Int /\ (IF 1 > k THEN 0 ELSE k - 1 + 1) = k
      OBVIOUS
    <3> QED
      BY <3>1, FS_Interval
  <2> HIDE DEF small
  <2>3. k <= Cardinality(small)
    <3>1. Cardinality(1..k) <= Cardinality(small)
      BY ONLY <1>1, <2>1, FS_Subset, Zenon
    <3> QED
      BY ONLY <2>2, <3>1, Zenon
  <2> QED
    BY <1>1, <1>3, <2>3 DEF small
<1> QED
  BY <1>1, <1>2, <1>3

-----------------------------------------------------------------------------
\* The loop of e_u_options_extract.

\* Options as a packet with no number above 255 has them.
Numbered(options) ==
    /\ options \in Seq(OptionRecords)
    /\ \A i \in 1..Len(options) :
           options[i].number = NumberAfter(options, i - 1) + options[i].delta

Kept(options) ==
    [i \in 1..Len(options) |-> [number |-> options[i].number, value |-> options[i].value]]

OuterIndexes(options) == {i \in 1..Len(options) : ~is_class_e(options[i].number)}
InnerIndexes(options) == {i \in 1..Len(options) : is_class_e(options[i].number)}

OuterParts(options) == [k \in 0..Len(options) |-> Extracted(options)[k].u]
InnerParts(options) == [k \in 0..Len(options) |-> Extracted(options)[k].e]

KeptLists == Seq(KeptOptions)
Splits == [number : Int, e : KeptLists, u : KeptLists, len : Int]

NothingSplit == [number |-> 0, e |-> <<>>, u |-> <<>>, len |-> 0]

LEMMA SplitFields ==
    ASSUME NEW s \in Splits
    PROVE  s.number \in Int /\ s.e \in KeptLists /\ s.u \in KeptLists /\ s.len \in Int
BY DEF Splits

LEMMA SplitMade ==
    ASSUME NEW number \in Int, NEW e \in KeptLists, NEW u \in KeptLists, NEW len \in Int
    PROVE  [number |-> number, e |-> e, u |-> u, len |-> len] \in Splits
BY DEF Splits

LEMMA ListGrows ==
    ASSUME NEW list \in KeptLists, NEW number \in Int, NEW value \in Cells
    PROVE  Append(list, [number |-> number, value |-> value]) \in KeptLists
<1>1. [number |-> number, value |-> value] \in KeptOptions
  BY DEF KeptOptions
<1> QED
  BY <1>1 DEF KeptLists

LEMMA CountedBytes ==
    ASSUME NEW n \in Int
    PROVE  CountedLen(n) \in Int
BY DEF CountedLen

LEMMA SplitGrows ==
    ASSUME NEW s \in Splits, NEW o \in OptionRecords
    PROVE  WithOption(s, o) \in Splits
<1> DEFINE number  == U16(s.number + o.delta)
           option  == [number |-> number, value |-> o.value]
           counted == 1 + CountedLen(o.delta) + CountedLen(Len(o.value)) + Len(o.value)
<1>1. s.number \in Int /\ s.e \in KeptLists /\ s.u \in KeptLists /\ s.len \in Int
  BY SplitFields
<1>2. o.delta \in Int /\ o.value \in Seq(Int) /\ Len(o.value) \in Int
  BY FieldsOfOption
<1>3. number \in Int
  BY <1>1, <1>2 DEF U16
<1>4. counted \in Int
  <2>1. CountedLen(o.delta) \in Int /\ CountedLen(Len(o.value)) \in Int
    BY ONLY <1>2, CountedBytes, Zenon
  <2> QED
    BY ONLY <1>2, <2>1
<1>5. Append(s.e, option) \in KeptLists /\ Append(s.u, option) \in KeptLists
  <2>1. o.value \in Cells
    BY <1>2 DEF Cells
  <2> HIDE DEF number
  <2> QED
    BY ONLY <1>1, <1>3, <2>1, ListGrows
<1>6. WithOption(s, o)
        = IF is_class_e(number)
          THEN [number |-> number, e |-> Append(s.e, option), u |-> s.u, len |-> s.len + counted]
          ELSE [number |-> number, e |-> s.e, u |-> Append(s.u, option), len |-> s.len]
  BY DEF WithOption
<1>7. s.len + counted \in Int
  BY ONLY <1>1, <1>4
<1> HIDE DEF number, option, counted
<1>8. CASE is_class_e(number)
  BY ONLY <1>1, <1>3, <1>5, <1>6, <1>7, <1>8, SplitMade, Zenon
<1>9. CASE ~is_class_e(number)
  BY ONLY <1>1, <1>3, <1>5, <1>6, <1>9, SplitMade, Zenon
<1> QED
  BY <1>8, <1>9

LEMMA ExtractedLoop ==
    ASSUME NEW options \in Seq(OptionRecords)
    PROVE  /\ Extracted(options) \in [0..Len(options) -> Splits]
           /\ Extracted(options)[0] = NothingSplit
           /\ \A i \in 1..Len(options) :
                  Extracted(options)[i] = WithOption(Extracted(options)[i - 1], options[i])
<1> DEFINE n == Len(options)
           step == [i \in 1..n |-> [s \in Splits |-> WithOption(s, options[i])]]
<1>1. n \in Nat /\ \A i \in 1..n : options[i] \in OptionRecords
  OBVIOUS
<1> HIDE DEF n
<1>2. step \in [1..n -> [Splits -> Splits]]
  <2>1. \A i \in 1..n : \A s \in Splits : WithOption(s, options[i]) \in Splits
    BY <1>1, SplitGrows
  <2> QED
    BY <2>1
<1>3. NothingSplit \in Splits
  <2>1. <<>> \in KeptLists /\ 0 \in Int
    BY DEF KeptLists
  <2> QED
    BY ONLY <2>1, SplitMade DEF NothingSplit
<1>4. PICK f : IsLoop(f, n, Splits, NothingSplit, step)
  <2> HIDE DEF step
  <2> QED
    BY <1>1, <1>2, <1>3, Loop
<1>5. /\ f \in [0..n -> Splits] /\ f[0] = NothingSplit
      /\ \A i \in 1..n : f[i] = WithOption(f[i - 1], options[i])
  <2>1. f \in [0..n -> Splits] /\ f[0] = NothingSplit /\ \A i \in 1..n : f[i] = step[i][f[i - 1]]
    BY <1>4 DEF IsLoop
  <2>2. ASSUME NEW i \in 1..n PROVE f[i] = WithOption(f[i - 1], options[i])
    <3>1. i - 1 \in 0..n
      BY <1>1
    <3>2. f[i - 1] \in Splits
      BY <2>1, <3>1
    <3> QED
      BY <2>1, <3>2
  <2> QED
    BY <2>1, <2>2
<1>6. f = [i \in 0..n |-> IF i = 0 THEN NothingSplit ELSE WithOption(f[i - 1], options[i])]
  <2>1. \A i \in 0..n : f[i] = IF i = 0 THEN NothingSplit ELSE WithOption(f[i - 1], options[i])
    <3> TAKE i \in 0..n
    <3>1. i = 0 \/ i \in 1..n
      BY <1>1
    <3> QED
      BY <1>5, <3>1
  <2> QED
    BY <1>5, <2>1
<1> DEFINE x == Extracted(options)
<1>7. x = [i \in 0..n |-> IF i = 0 THEN NothingSplit ELSE WithOption(x[i - 1], options[i])]
  BY <1>6 DEF Extracted, n, NothingSplit
<1> HIDE DEF x, step
<1>8. x[0] = NothingSplit /\ \A i \in 1..n : x[i] = WithOption(x[i - 1], options[i])
  BY <1>1, <1>7
<1>9. \A i \in 0..n : x[i] \in Splits
  <2> DEFINE S == { i \in Nat : i <= n => x[i] \in Splits }
  <2>1. 0 \in S
    BY <1>3, <1>8
  <2>2. ASSUME NEW i \in Nat, i \in S PROVE i + 1 \in S
    <3> SUFFICES ASSUME i + 1 <= n PROVE x[i + 1] \in Splits
      OBVIOUS
    <3>1. PICK k \in 1..n : k = i + 1 /\ k - 1 = i
      BY <1>1
    <3>2. x[i] \in Splits
      BY <1>1, <2>2
    <3>3. x[k] = WithOption(x[i], options[k]) /\ options[k] \in OptionRecords
      BY <1>1, <1>8, <3>1
    <3> QED
      BY <3>1, <3>2, <3>3, SplitGrows
  <2> HIDE DEF S
  <2>3. Nat \subseteq S
    BY <2>1, <2>2, Induction
  <2> QED
    BY <2>3, <1>1 DEF S
<1>10. x \in [0..n -> Splits]
  <2>1. x = [i \in 0..n |-> x[i]]
    BY <1>7
  <2> QED
    BY <1>9, <2>1
<1> QED
  BY <1>8, <1>10 DEF x, n

LEMMA SmallSum ==
    ASSUME NEW number, NEW before \in Int, NEW delta \in Int, number = before + delta,
           number \in Int, 0 <= number, number < 256
    PROVE  U16(before + delta) = number /\ U8(number) = number
BY DEF U16, U8

LEMMA NumberedOption ==
    ASSUME NEW options, Numbered(options), NEW i \in 1..Len(options)
    PROVE  /\ options \in Seq(OptionRecords) /\ Len(options) \in Nat
           /\ options[i] \in OptionRecords
           /\ options[i].number \in Int /\ 0 <= options[i].number /\ options[i].number < 256
           /\ options[i].delta \in Int /\ 0 <= options[i].delta
           /\ options[i].value \in Cells
           /\ NumberAfter(options, i - 1) \in Int /\ 0 <= NumberAfter(options, i - 1)
           /\ NumberAfter(options, i - 1) < 256
           /\ options[i].number = NumberAfter(options, i - 1) + options[i].delta
           /\ U16(NumberAfter(options, i - 1) + options[i].delta) = options[i].number
<1>1. options \in Seq(OptionRecords) /\ Len(options) \in Nat
  BY DEF Numbered
<1>2. \A k \in 1..Len(options) :
          /\ options[k] \in OptionRecords
          /\ options[k].number \in Int /\ 0 <= options[k].number /\ options[k].number < 256
  <2> TAKE k \in 1..Len(options)
  <2>1. options[k] \in OptionRecords
    BY <1>1
  <2>2. options[k].number \in Octets
    BY <2>1 DEF OptionRecords
  <2> QED
    BY <2>1, <2>2, OctetBounds
<1>3. /\ options[i].delta \in Int /\ 0 <= options[i].delta /\ options[i].value \in Cells
  BY <1>2, FieldsOfOption DEF Cells
<1>4. /\ NumberAfter(options, i - 1) \in Int /\ 0 <= NumberAfter(options, i - 1)
      /\ NumberAfter(options, i - 1) < 256
  <2>1. CASE i = 1
    BY <2>1 DEF NumberAfter
  <2>2. CASE i # 1
    <3>1. i - 1 \in 1..Len(options) /\ i - 1 # 0
      BY <1>1, <2>2
    <3> QED
      BY <1>2, <3>1 DEF NumberAfter
  <2> QED
    BY <2>1, <2>2
<1>5. options[i].number = NumberAfter(options, i - 1) + options[i].delta
  BY DEF Numbered
<1>6. U16(NumberAfter(options, i - 1) + options[i].delta) = options[i].number
  BY ONLY <1>2, <1>3, <1>4, <1>5, i \in 1..Len(options), SmallSum, Zenon
<1> QED
  BY <1>1, <1>2, <1>3, <1>4, <1>5, <1>6

LEMMA ExtractedNumbers ==
    ASSUME NEW options, Numbered(options)
    PROVE  \A k \in 0..Len(options) : Extracted(options)[k].number = NumberAfter(options, k)
<1> DEFINE n == Len(options)
           x == Extracted(options)
           S == { k \in Nat : k <= n => x[k].number = NumberAfter(options, k) }
<1>1. n \in Nat /\ options \in Seq(OptionRecords)
  BY DEF Numbered
<1>2. /\ x \in [0..n -> Splits] /\ x[0] = NothingSplit
      /\ \A i \in 1..n : x[i] = WithOption(x[i - 1], options[i])
  BY <1>1, ExtractedLoop
<1>3. \A i \in 1..n : U16(NumberAfter(options, i - 1) + options[i].delta) = options[i].number
  BY NumberedOption
<1> HIDE DEF n, x
<1>4. 0 \in S
  BY <1>2 DEF NumberAfter, NothingSplit
<1>5. ASSUME NEW m \in Nat, m \in S PROVE m + 1 \in S
  <2> SUFFICES ASSUME m + 1 <= n PROVE x[m + 1].number = NumberAfter(options, m + 1)
    OBVIOUS
  <2>1. PICK k \in 1..n : k = m + 1 /\ k - 1 = m /\ k # 0
    BY <1>1
  <2>2. x[m].number = NumberAfter(options, m)
    BY <1>1, <1>5
  <2>3. x[k] = WithOption(x[m], options[k])
    BY <1>2, <2>1
  <2>4. x[k].number = U16(x[m].number + options[k].delta)
    BY <2>3 DEF WithOption
  <2>5. U16(NumberAfter(options, m) + options[k].delta) = options[k].number
    BY <1>3, <2>1
  <2>6. NumberAfter(options, k) = options[k].number
    BY <2>1 DEF NumberAfter
  <2> QED
    BY ONLY <2>1, <2>2, <2>4, <2>5, <2>6, Zenon
<1>6. Nat \subseteq S
  <2> HIDE DEF S
  <2> QED
    BY <1>4, <1>5, Induction
<1> QED
  BY <1>1, <1>6 DEF n, x

CountedOption(o) == 1 + CountedLen(o.delta) + CountedLen(Len(o.value)) + Len(o.value)

\* One turn of the loop.
LEMMA OneExtracted ==
    ASSUME NEW options, Numbered(options), NEW k \in 1..Len(options)
    PROVE  LET before == Extracted(options)[k - 1]
               after  == Extracted(options)[k]
               option == [number |-> options[k].number, value |-> options[k].value]
           IN  IF is_class_e(options[k].number)
               THEN /\ after.e = Append(before.e, option) /\ after.u = before.u
                    /\ after.len = before.len + CountedOption(options[k])
               ELSE /\ after.e = before.e /\ after.u = Append(before.u, option)
                    /\ after.len = before.len
<1> DEFINE before == Extracted(options)[k - 1]
           after  == Extracted(options)[k]
           option == [number |-> options[k].number, value |-> options[k].value]
<1>1. after = WithOption(before, options[k])
  BY NumberedOption, ExtractedLoop
<1>2. before.number = NumberAfter(options, k - 1)
  BY NumberedOption, ExtractedNumbers
<1>3. U16(before.number + options[k].delta) = options[k].number
  BY ONLY <1>2, Numbered(options), k \in 1..Len(options), NumberedOption, Zenon
<1> HIDE DEF before, after
<1>4. after = IF is_class_e(options[k].number)
              THEN [number |-> options[k].number, e |-> Append(before.e, option), u |-> before.u,
                    len |-> before.len + CountedOption(options[k])]
              ELSE [number |-> options[k].number, e |-> before.e, u |-> Append(before.u, option),
                    len |-> before.len]
  BY ONLY <1>1, <1>3, Zenon DEF WithOption, CountedOption
<1> HIDE DEF option
<1>5. CASE is_class_e(options[k].number)
  <2>1. after = [number |-> options[k].number, e |-> Append(before.e, option), u |-> before.u,
                 len |-> before.len + CountedOption(options[k])]
    BY ONLY <1>4, <1>5, Zenon
  <2>2. /\ after.e = Append(before.e, option) /\ after.u = before.u
        /\ after.len = before.len + CountedOption(options[k])
    BY ONLY <2>1
  <2> QED
    BY ONLY <1>5, <2>2, Zenon DEF before, after, option
<1>6. CASE ~is_class_e(options[k].number)
  <2>1. after = [number |-> options[k].number, e |-> before.e, u |-> Append(before.u, option),
                 len |-> before.len]
    BY ONLY <1>4, <1>6, Zenon
  <2>2. /\ after.e = before.e /\ after.u = Append(before.u, option)
        /\ after.len = before.len
    BY ONLY <2>1
  <2> QED
    BY ONLY <1>6, <2>2, Zenon DEF before, after, option
<1> QED
  BY ONLY <1>5, <1>6, Zenon

LEMMA ExtractedCollects ==
    ASSUME NEW options, Numbered(options)
    PROVE  /\ Len(options) \in Nat
           /\ Kept(options) \in [1..Len(options) -> KeptOptions]
           /\ Collects(OuterParts(options), Len(options), OuterIndexes(options), Kept(options))
           /\ Collects(InnerParts(options), Len(options), InnerIndexes(options), Kept(options))
<1> DEFINE n == Len(options)
           x == Extracted(options)
           u == OuterParts(options)
           e == InnerParts(options)
<1>1. n \in Nat /\ options \in Seq(OptionRecords)
  BY DEF Numbered
<1>2. x \in [0..n -> Splits] /\ x[0] = NothingSplit
  BY <1>1, ExtractedLoop
<1>3. Kept(options) \in [1..n -> KeptOptions]
  <2>1. \A i \in 1..n : options[i].number \in Int /\ options[i].value \in Cells
    BY NumberedOption
  <2>2. \A i \in 1..n :
            [number |-> options[i].number, value |-> options[i].value] \in KeptOptions
    BY <2>1 DEF KeptOptions
  <2> QED
    BY <2>2 DEF Kept
<1>4. /\ u \in [0..n -> KeptLists] /\ e \in [0..n -> KeptLists]
      /\ \A k \in 0..n : u[k] = x[k].u /\ e[k] = x[k].e
  <2>1. \A k \in 0..n : x[k].u \in KeptLists /\ x[k].e \in KeptLists
    BY <1>2, SplitFields
  <2> QED
    BY <2>1 DEF OuterParts, InnerParts
<1>5. u[0] = <<>> /\ e[0] = <<>>
  BY <1>1, <1>2, <1>4 DEF NothingSplit
<1>6. ASSUME NEW k \in 1..n
      PROVE  /\ u[k] = IF k \in OuterIndexes(options)
                       THEN Append(u[k - 1], Kept(options)[k]) ELSE u[k - 1]
             /\ e[k] = IF k \in InnerIndexes(options)
                       THEN Append(e[k - 1], Kept(options)[k]) ELSE e[k - 1]
  <2>1. k - 1 \in 0..n /\ k \in 0..n
    BY <1>1
  <2>2. u[k] = x[k].u /\ e[k] = x[k].e /\ u[k - 1] = x[k - 1].u /\ e[k - 1] = x[k - 1].e
    BY <1>4, <2>1
  <2>3. Kept(options)[k] = [number |-> options[k].number, value |-> options[k].value]
    BY DEF Kept
  <2>4. /\ k \in OuterIndexes(options) <=> ~is_class_e(options[k].number)
        /\ k \in InnerIndexes(options) <=> is_class_e(options[k].number)
    BY DEF OuterIndexes, InnerIndexes
  <2> HIDE DEF u, e
  <2>5. CASE is_class_e(options[k].number)
    <3>1. x[k].e = Append(x[k - 1].e, Kept(options)[k]) /\ x[k].u = x[k - 1].u
      BY <2>3, <2>5, OneExtracted
    <3> QED
      BY ONLY <2>2, <2>4, <2>5, <3>1, Zenon
  <2>6. CASE ~is_class_e(options[k].number)
    <3>1. x[k].e = x[k - 1].e /\ x[k].u = Append(x[k - 1].u, Kept(options)[k])
      BY <2>3, <2>6, OneExtracted
    <3> QED
      BY ONLY <2>2, <2>4, <2>6, <3>1, Zenon
  <2> QED
    BY <2>5, <2>6
<1> HIDE DEF n, u, e, x
<1> QED
  BY <1>1, <1>3, <1>4, <1>5, <1>6 DEF Collects, KeptLists, n, u, e

-----------------------------------------------------------------------------
\* Deltas, and the options of the protected packet.

LEMMA SumOfDelta ==
    ASSUME NEW a \in Int, 0 <= a, a < 256, NEW b \in Int, 0 <= b, b < 256
    PROVE  /\ U16(a - b) \in Int /\ 0 <= U16(a - b) /\ U16(a - b) < 65536
           /\ U8(a) = a /\ U8(b) = b /\ U8(b + U16(a - b)) = a
<1>1. U8(a) = a /\ U8(b) = b
  BY DEF U8
<1>2. CASE a >= b
  <2>1. U16(a - b) = a - b
    BY <1>2 DEF U16
  <2>2. b + (a - b) = a
    OBVIOUS
  <2> QED
    BY <1>1, <1>2, <2>1, <2>2
<1>3. CASE a < b
  <2>1. U16(a - b) = a - b + 65536
    BY <1>3 DEF U16
  <2>2. b + (a - b + 65536) = a + 65536
    OBVIOUS
  <2>3. U8(a + 65536) = a
    BY DEF U8
  <2> QED
    BY <1>1, <1>3, <2>1, <2>2, <2>3
<1> QED
  BY <1>2, <1>3

LEMMA RecordMade ==
    ASSUME NEW delta \in Words, NEW number \in Octets, NEW value \in Cells
    PROVE  [delta |-> delta, number |-> number, value |-> value] \in OptionRecords
BY DEF OptionRecords

\* Numbers and values that a packet can hold.
Listed(s, n) == DOMAIN s = 1..n /\ \A i \in 1..n : s[i].number \in Octets /\ s[i].value \in Cells

LEMMA DeltasMade ==
    ASSUME NEW n \in Nat, NEW s, Listed(s, n)
    PROVE  /\ Deltas(s) \in Seq(OptionRecords) /\ Len(Deltas(s)) = n
           /\ \A i \in 1..n : /\ Deltas(s)[i].number = s[i].number
                              /\ Deltas(s)[i].value = s[i].value
           /\ Chained(Deltas(s))
<1> DEFINE before(i) == IF i = 1 THEN 0 ELSE U8(s[i - 1].number)
           delta(i)  == U16(s[i].number - before(i))
           d == Deltas(s)
<1>1. \A i \in 1..n : s[i].number \in Int /\ 0 <= s[i].number /\ s[i].number < 256
  BY OctetBounds DEF Listed
<1>2. \A i \in 1..n : U8(s[i].number) = s[i].number
  BY <1>1, SumOfDelta
<1>3. ASSUME NEW i \in 1..n
      PROVE  /\ before(i) \in Int /\ 0 <= before(i) /\ before(i) < 256
             /\ i # 1 => before(i) = s[i - 1].number
  <2>1. CASE i = 1
    BY <2>1
  <2>2. CASE i # 1
    <3>1. i - 1 \in 1..n
      BY <2>2
    <3>2. before(i) = s[i - 1].number
      BY <1>2, <2>2, <3>1
    <3> QED
      BY <1>1, <3>1, <3>2
  <2> QED
    BY <2>1, <2>2
<1>4. ASSUME NEW i \in 1..n
      PROVE  /\ delta(i) \in Int /\ 0 <= delta(i) /\ delta(i) < 65536
             /\ U8(before(i) + delta(i)) = s[i].number
  <2>1. before(i) \in Int /\ 0 <= before(i) /\ before(i) < 256
    BY <1>3
  <2> HIDE DEF before
  <2> QED
    BY ONLY <1>1, <2>1, i \in 1..n, SumOfDelta
<1>5. d = [i \in 1..n |-> [delta |-> delta(i), number |-> U8(s[i].number), value |-> s[i].value]]
  BY DEF Deltas, Listed
<1> HIDE DEF delta, before, d
<1>6. ASSUME NEW i \in 1..n
      PROVE  /\ d[i] \in OptionRecords /\ d[i].number = s[i].number /\ d[i].value = s[i].value
             /\ d[i].delta = delta(i)
  <2>1. d[i] = [delta |-> delta(i), number |-> s[i].number, value |-> s[i].value]
    BY <1>2, <1>5
  <2>2. delta(i) \in Words /\ s[i].number \in Octets /\ s[i].value \in Cells
    BY <1>4 DEF Words, Listed
  <2>3. d[i] \in OptionRecords
    BY ONLY <2>1, <2>2, RecordMade
  <2> QED
    BY <2>1, <2>3
<1>7. d \in Seq(OptionRecords) /\ Len(d) = n
  <2>1. d \in [1..n -> OptionRecords]
    BY <1>5, <1>6
  <2> QED
    BY <2>1
<1>8. ASSUME NEW k \in 1..n PROVE d[k].number = U8(NumberAfter(d, k - 1) + d[k].delta)
  <2>1. NumberAfter(d, k - 1) = before(k)
    <3>1. CASE k = 1
      BY <3>1 DEF NumberAfter, before
    <3>2. CASE k # 1
      <4>1. k - 1 \in 1..n /\ k - 1 # 0
        BY <3>2
      <4>2. d[k - 1].number = s[k - 1].number
        BY <1>6, <4>1
      <4>3. before(k) = s[k - 1].number
        BY <1>3, <3>2
      <4> QED
        BY ONLY <4>1, <4>2, <4>3, Zenon DEF NumberAfter
    <3> QED
      BY <3>1, <3>2
  <2>2. d[k].number = s[k].number /\ d[k].delta = delta(k)
    BY <1>6
  <2>3. U8(before(k) + delta(k)) = s[k].number
    BY <1>4
  <2> QED
    BY ONLY <2>1, <2>2, <2>3, Zenon
<1> QED
  BY <1>6, <1>7, <1>8 DEF Chained, d

LEMMA OscoreLast ==
    ASSUME NEW u \in Seq(OptionRecords), \A i \in 1..Len(u) : u[i].number <= OSCORE,
           NEW value \in Cells
    PROVE  oscore_pkg_options(u, value)
             = Deltas(Append(u, [delta |-> 0, number |-> OSCORE, value |-> value]))
<1> DEFINE end == Len(u) + 1
           o == [delta |-> 0, number |-> OSCORE, value |-> value]
           Place(i) == /\ i < end => u[i].number > OSCORE
                       /\ \A j \in 1..i - 1 : u[j].number <= OSCORE
           pos == CHOOSE i \in 1..end : Place(i)
<1>1. Len(u) \in Nat /\ end \in 1..end /\ end - 1 = Len(u)
  OBVIOUS
<1>2. \A i \in 1..Len(u) : u[i].number \in Int
  <2> TAKE i \in 1..Len(u)
  <2>1. u[i] \in OptionRecords
    OBVIOUS
  <2>2. u[i].number \in Octets
    BY <2>1 DEF OptionRecords
  <2> QED
    BY <2>2, OctetBounds
<1>3. Place(end)
  BY <1>1
<1>4. ASSUME NEW i \in 1..end, Place(i) PROVE i = end
  <2> SUFFICES ASSUME i # end PROVE FALSE
    OBVIOUS
  <2>1. i < end /\ i \in 1..Len(u)
    BY <1>1
  <2> QED
    BY <1>2, <1>4, <2>1 DEF OSCORE
<1>5. pos = end
  <2> HIDE DEF Place
  <2> QED
    BY <1>1, <1>3, <1>4
<1>6. o \in OptionRecords
  <2>1. 0 \in Words /\ OSCORE \in Octets
    BY DEF Words, Octets, OSCORE
  <2> QED
    BY ONLY <2>1, value \in Cells, RecordMade
<1>7. oscore_pkg_options(u, value)
        = Deltas(SubSeq(u, 1, pos - 1) \o <<o>> \o SubSeq(u, pos, Len(u)))
  BY DEF oscore_pkg_options
<1> HIDE DEF pos, o
<1>8. SubSeq(u, 1, pos - 1) = u /\ SubSeq(u, pos, Len(u)) = <<>>
  <2>1. pos - 1 = Len(u) /\ pos = Len(u) + 1
    BY <1>1, <1>5
  <2>2. SubSeq(u, 1, Len(u)) = u /\ SubSeq(u, Len(u) + 1, Len(u)) = <<>>
    OBVIOUS
  <2> QED
    BY ONLY <2>1, <2>2
<1>9. u \o <<o>> = Append(u, o) /\ Append(u, o) \o <<>> = Append(u, o)
  BY <1>6
<1> QED
  BY ONLY <1>7, <1>8, <1>9, Zenon DEF o

\* The options of the two layers, and those of the protected packet.
Outer(options) == OuterParts(options)[Len(options)]
Inner(options) == InnerParts(options)[Len(options)]

InnerOptions(options)        == Deltas(Inner(options))
OuterOptions(options, value) == oscore_pkg_options(Deltas(Outer(options)), value)

LEMMA ExtractedParts ==
    ASSUME NEW options, Numbered(options)
    PROVE  e_u_options_extract(options)
             = [e |-> InnerOptions(options), u |-> Deltas(Outer(options)),
                len |-> Extracted(options)[Len(options)].len]
<1>1. Len(options) \in 0..Len(options)
  BY ExtractedCollects
<1> QED
  BY <1>1 DEF e_u_options_extract, InnerOptions, Outer, Inner, OuterParts, InnerParts

\* Options that oscore2coap can put together again: an outer option behind
\* the OSCORE option, or another OSCORE option, would be dropped.
Mergeable(options) ==
    /\ Numbered(options)
    /\ \A i \in OuterIndexes(options) : options[i].number < OSCORE

\* Whatever a loop collects has the numbers and values of the options.
LEMMA CollectedListed ==
    ASSUME NEW options, Numbered(options), NEW chosen, NEW g,
           Collects(g, Len(options), chosen, Kept(options))
    PROVE  LET list == g[Len(options)]
           IN  /\ Len(list) \in Nat /\ Listed(list, Len(list))
               /\ \A j \in 1..Len(list) :
                      \E i \in chosen : /\ i \in 1..Len(options)
                                       /\ list[j].number = options[i].number
                                       /\ list[j].value = options[i].value
<1> DEFINE n == Len(options)
           list == g[n]
<1>1. n \in Nat /\ Kept(options) \in [1..n -> KeptOptions]
  BY ExtractedCollects
<1>2. list \in Seq(KeptOptions)
  BY <1>1 DEF Collects
<1>3. ASSUME NEW j \in 1..Len(list)
      PROVE  \E i \in 1..n : /\ i \in chosen
                             /\ list[j].number = options[i].number
                             /\ list[j].value = options[i].value
  <2>1. CollectedAt(g, n, chosen, Kept(options))
    BY <1>1, Collected
  <2>2. PICK i \in 1..n : i \in chosen /\ Len(g[i]) = j
    BY <2>1 DEF CollectedAt
  <2>3. list[j] = Kept(options)[i]
    BY <1>1, <2>2, CollectedPlace
  <2>4. Kept(options)[i] = [number |-> options[i].number, value |-> options[i].value]
    BY DEF Kept
  <2> QED
    BY <2>2, <2>3, <2>4
<1> HIDE DEF list
<1>4. \A i \in 1..n : options[i].number \in Octets /\ options[i].value \in Cells
  <2> TAKE i \in 1..n
  <2>1. options[i] \in OptionRecords
    BY NumberedOption
  <2> QED
    BY <2>1 DEF OptionRecords
<1>5. \A j \in 1..Len(list) : list[j].number \in Octets /\ list[j].value \in Cells
  BY <1>3, <1>4
<1>6. Len(list) \in Nat /\ DOMAIN list = 1..Len(list)
  BY <1>2
<1>7. \A j \in 1..Len(list) :
          \E i \in chosen : /\ i \in 1..n
                           /\ list[j].number = options[i].number
                           /\ list[j].value = options[i].value
  BY <1>3
<1> QED
  BY <1>5, <1>6, <1>7 DEF Listed, list

LEMMA InnerMade ==
    ASSUME NEW options, Numbered(options)
    PROVE  /\ Len(Inner(options)) \in Nat
           /\ InnerOptions(options) \in Seq(OptionRecords)
           /\ Len(InnerOptions(options)) = Len(Inner(options))
           /\ \A j \in 1..Len(Inner(options)) :
                  /\ InnerOptions(options)[j].number = Inner(options)[j].number
                  /\ InnerOptions(options)[j].value = Inner(options)[j].value
           /\ Chained(InnerOptions(options))
<1>1. Collects(InnerParts(options), Len(options), InnerIndexes(options), Kept(options))
  BY ExtractedCollects
<1>2. Len(Inner(options)) \in Nat /\ Listed(Inner(options), Len(Inner(options)))
  BY <1>1, CollectedListed DEF Inner
<1> QED
  BY ONLY <1>2, DeltasMade DEF InnerOptions

OuterAre(o, u, value) ==
    /\ o \in Seq(OptionRecords) /\ Len(o) = Len(u) + 1
    /\ \A j \in 1..Len(u) : /\ o[j].number = u[j].number /\ o[j].value = u[j].value
                            /\ o[j].number \in Int /\ o[j].number < OSCORE
    /\ o[Len(u) + 1].number = OSCORE /\ o[Len(u) + 1].value = value
    /\ Chained(o)

LEMMA OuterMade ==
    ASSUME NEW options, Mergeable(options), NEW value \in Cells
    PROVE  /\ Len(Outer(options)) \in Nat
           /\ OuterAre(OuterOptions(options, value), Outer(options), value)
<1> DEFINE u == Outer(options)
           d == Deltas(u)
           m == Len(u)
           oscore == [delta |-> 0, number |-> OSCORE, value |-> value]
           all == Append(d, oscore)
           o == OuterOptions(options, value)
<1>1. Collects(OuterParts(options), Len(options), OuterIndexes(options), Kept(options))
  BY ExtractedCollects DEF Mergeable
<1>2. /\ m \in Nat /\ Listed(u, m)
      /\ \A j \in 1..m :
             \E i \in OuterIndexes(options) :
                 i \in 1..Len(options) /\ u[j].number = options[i].number
  BY <1>1, CollectedListed DEF Mergeable, Outer
<1> HIDE DEF u, m
<1>3. \A j \in 1..m : u[j].number \in Int /\ u[j].number < OSCORE
  <2> TAKE j \in 1..m
  <2>1. PICK i \in OuterIndexes(options) : u[j].number = options[i].number
    BY <1>2
  <2>2. u[j].number \in Octets
    BY <1>2 DEF Listed
  <2>3. options[i].number < OSCORE
    BY DEF Mergeable
  <2> QED
    BY <2>1, <2>2, <2>3, OctetBounds
<1>4. /\ d \in Seq(OptionRecords) /\ Len(d) = m
      /\ \A j \in 1..m : d[j].number = u[j].number /\ d[j].value = u[j].value
  BY ONLY <1>2, DeltasMade
<1> HIDE DEF d
<1>5. o = Deltas(all)
  <2>1. \A j \in 1..Len(d) : d[j].number <= OSCORE
    BY <1>3, <1>4 DEF OSCORE
  <2>2. oscore_pkg_options(d, value) = Deltas(all)
    BY ONLY <1>4, <2>1, value \in Cells, OscoreLast
  <2> QED
    BY <2>2 DEF OuterOptions, d, u
<1>6. oscore \in OptionRecords /\ oscore.number = OSCORE /\ oscore.value = value
  <2>1. 0 \in Words /\ OSCORE \in Octets
    BY DEF Words, Octets, OSCORE
  <2>2. oscore \in OptionRecords
    BY ONLY <2>1, value \in Cells, RecordMade
  <2> QED
    BY <2>2
<1> HIDE DEF oscore
<1>7. /\ all \in Seq(OptionRecords) /\ Len(all) = m + 1 /\ all[m + 1] = oscore
      /\ \A j \in 1..m : all[j] = d[j]
  BY ONLY <1>4, <1>6, Appended
<1> HIDE DEF all
<1>8. Listed(all, m + 1)
  <2>1. DOMAIN all = 1..m + 1
    BY <1>7
  <2>2. ASSUME NEW i \in 1..m + 1 PROVE all[i].number \in Octets /\ all[i].value \in Cells
    <3>1. all[i] \in OptionRecords
      BY <1>7
    <3> QED
      BY <3>1 DEF OptionRecords
  <2> QED
    BY <2>1, <2>2 DEF Listed
<1>9. /\ o \in Seq(OptionRecords) /\ Len(o) = m + 1
      /\ \A j \in 1..m + 1 : o[j].number = all[j].number /\ o[j].value = all[j].value
      /\ Chained(o)
  <2>1. m + 1 \in Nat
    BY <1>2
  <2> QED
    BY ONLY <1>5, <1>8, <2>1, DeltasMade
<1> HIDE DEF o
<1>10. o[m + 1].number = OSCORE /\ o[m + 1].value = value
  <2>1. m + 1 \in 1..m + 1
    BY <1>2
  <2> QED
    BY ONLY <1>6, <1>7, <1>9, <2>1
<1>11. ASSUME NEW j \in 1..m
       PROVE  /\ o[j].number = u[j].number /\ o[j].value = u[j].value
              /\ o[j].number \in Int /\ o[j].number < OSCORE
  <2>1. j \in 1..m + 1
    BY <1>2
  <2> QED
    BY <1>3, <1>4, <1>7, <1>9, <2>1
<1>12. OuterAre(o, u, value)
  <2>1. m = Len(u)
    BY DEF m
  <2> QED
    BY ONLY <1>9, <1>10, <1>11, <2>1 DEF OuterAre
<1> QED
  BY <1>2, <1>12 DEF o, u, m

-----------------------------------------------------------------------------
\* The numbers in their order: those of the packet that was protected.

LEMMA NumbersSorted ==
    ASSUME NEW options, Numbered(options)
    PROVE  \A j \in 1..Len(options) : \A i \in 1..j : options[i].number <= options[j].number
<1> DEFINE n == Len(options)
           S == { j \in Nat : j <= n =>
                    \A i \in 1..j : options[i].number <= options[j].number }
<1>1. n \in Nat
  BY DEF Numbered
<1>2. \A j \in 1..n : /\ options[j].number \in Int /\ options[j].delta \in Int
                      /\ 0 <= options[j].delta
                      /\ options[j].number = NumberAfter(options, j - 1) + options[j].delta
  BY NumberedOption
<1> HIDE DEF n
<1>3. 0 \in S
  OBVIOUS
<1>4. ASSUME NEW m \in Nat, m \in S PROVE m + 1 \in S
  <2> SUFFICES ASSUME m + 1 <= n, NEW i \in 1..m + 1
               PROVE  options[i].number <= options[m + 1].number
    OBVIOUS
  <2>1. PICK k \in 1..n : k = m + 1 /\ k - 1 = m
    BY <1>1
  <2>2. CASE i = k
    BY <1>2, <2>1, <2>2
  <2>3. CASE i # k
    <3>1. i \in 1..m /\ m \in 1..n /\ m # 0
      BY <1>1, <2>1, <2>3
    <3>2. options[i].number <= options[m].number
      BY <1>4, <3>1
    <3>3. options[k].number = options[m].number + options[k].delta
      <4>1. options[k].number = NumberAfter(options, m) + options[k].delta
        BY <1>2, <2>1
      <4> QED
        BY <3>1, <4>1 DEF NumberAfter
    <3>4. options[i].number \in Int /\ options[m].number \in Int
      BY <1>1, <1>2, <3>1
    <3> QED
      BY <1>2, <2>1, <3>2, <3>3, <3>4
  <2> QED
    BY <2>2, <2>3
<1>5. Nat \subseteq S
  <2> HIDE DEF S
  <2> QED
    BY <1>3, <1>4, Induction
<1> QED
  BY <1>1, <1>5 DEF n

BelowIn(options, bound) == Cardinality({i \in 1..Len(options) : options[i].number < bound})

LEMMA BelowCounts ==
    ASSUME NEW options, Mergeable(options), NEW value \in Cells, NEW bound
    PROVE  Below(OuterOptions(options, value), InnerOptions(options), bound)
             = BelowIn(options, bound)
<1> DEFINE n == Len(options)
           u == Outer(options)
           e == Inner(options)
           outer == OuterOptions(options, value)
           inner == InnerOptions(options)
<1>1. Numbered(options)
  BY DEF Mergeable
<1>2. Len(u) \in Nat /\ OuterAre(outer, u, value)
  BY OuterMade
<1>3. /\ Len(e) \in Nat /\ inner \in Seq(OptionRecords) /\ Len(inner) = Len(e)
      /\ \A j \in 1..Len(e) : inner[j].number = e[j].number
  BY <1>1, InnerMade
<1> HIDE DEF u, e, outer, inner
<1>4. {i \in DOMAIN outer : outer[i].number # OSCORE /\ outer[i].number < bound}
        = NumbersBelow(u, bound)
  <2>1. DOMAIN outer = 1..Len(u) + 1
    BY <1>2 DEF OuterAre
  <2>2. \A j \in 1..Len(u) : outer[j].number = u[j].number /\ outer[j].number # OSCORE
    BY <1>2 DEF OuterAre, OSCORE
  <2>3. outer[Len(u) + 1].number = OSCORE
    BY <1>2 DEF OuterAre
  <2>4. \A j \in 1..Len(u) + 1 : j \in 1..Len(u) \/ j = Len(u) + 1
    BY <1>2
  <2>5. 1..Len(u) \subseteq 1..Len(u) + 1
    BY <1>2
  <2> QED
    BY ONLY <2>1, <2>2, <2>3, <2>4, <2>5 DEF NumbersBelow
<1>5. {i \in DOMAIN inner : inner[i].number < bound} = NumbersBelow(e, bound)
  <2>1. DOMAIN inner = 1..Len(e)
    BY <1>3
  <2> QED
    BY <1>3, <2>1 DEF NumbersBelow
<1>6. Cardinality(NumbersBelow(u, bound)) + Cardinality(NumbersBelow(e, bound))
        = Cardinality(OptionsBelow(Kept(options), n, bound))
  <2>1. \A i \in 1..n : i \in OuterIndexes(options) <=> i \notin InnerIndexes(options)
    BY DEF OuterIndexes, InnerIndexes
  <2>2. /\ n \in Nat /\ Kept(options) \in [1..n -> KeptOptions]
        /\ Collects(OuterParts(options), n, OuterIndexes(options), Kept(options))
        /\ Collects(InnerParts(options), n, InnerIndexes(options), Kept(options))
    BY <1>1, ExtractedCollects
  <2>3. u = OuterParts(options)[n] /\ e = InnerParts(options)[n]
    BY DEF u, e, Outer, Inner
  <2> HIDE DEF n
  <2>4. Cardinality(NumbersBelow(OuterParts(options)[n], bound))
          + Cardinality(NumbersBelow(InnerParts(options)[n], bound))
          = Cardinality(OptionsBelow(Kept(options), n, bound))
    <3>1. InTwo(OuterParts(options), OuterIndexes(options), InnerParts(options),
                InnerIndexes(options), n, Kept(options))
      BY ONLY <2>1, <2>2, Zenon DEF InTwo
    <3> QED
      BY ONLY <3>1, CountsAddUp
  <2> QED
    BY ONLY <2>3, <2>4, Zenon
<1>7. OptionsBelow(Kept(options), n, bound) = {i \in 1..n : options[i].number < bound}
  BY DEF Kept, OptionsBelow
<1>8. Below(outer, inner, bound)
        = Cardinality(NumbersBelow(u, bound)) + Cardinality(NumbersBelow(e, bound))
  BY ONLY <1>4, <1>5, Zenon DEF Below
<1> QED
  BY ONLY <1>6, <1>7, <1>8, Zenon DEF BelowIn, outer, inner

LEMMA BelowNumber ==
    ASSUME NEW options, Numbered(options), NEW k \in 1..Len(options), NEW bound \in Int
    PROVE  /\ BelowIn(options, bound) \in Nat /\ BelowIn(options, bound) <= Len(options)
           /\ BelowIn(options, bound) < k <=> options[k].number >= bound
<1> DEFINE n == Len(options)
           number == [i \in 1..n |-> options[i].number]
<1>1. n \in Nat /\ number \in [1..n -> Int]
  BY NumberedOption
<1>2. \A i, j \in 1..n : i <= j => number[i] <= number[j]
  <2> TAKE i, j \in 1..n
  <2> SUFFICES ASSUME i <= j PROVE options[i].number <= options[j].number
    OBVIOUS
  <2>1. i \in 1..j
    BY <1>1
  <2> QED
    BY <2>1, NumbersSorted
<1>3. BelowIn(options, bound) = Cardinality({i \in 1..n : number[i] < bound})
  <2>1. {i \in 1..n : number[i] < bound} = {i \in 1..n : options[i].number < bound}
    OBVIOUS
  <2> QED
    BY ONLY <2>1, Zenon DEF BelowIn, n
<1>4. number[k] = options[k].number
  OBVIOUS
<1>5. k \in 1..n
  OBVIOUS
<1> HIDE DEF n, number
<1>6. LET below == Cardinality({i \in 1..n : number[i] < bound})
      IN  below \in Nat /\ below <= n /\ (below < k <=> number[k] >= bound)
  BY ONLY <1>1, <1>2, <1>5, bound \in Int, SortedCount
<1> QED
  BY ONLY <1>3, <1>4, <1>6, Zenon DEF n

\* As many as there are options have a number a byte can hold.
LEMMA AllBelow ==
    ASSUME NEW options, Numbered(options)
    PROVE  BelowIn(options, 256) = Len(options)
<1>1. Len(options) \in Nat
  BY DEF Numbered
<1>2. CASE Len(options) = 0
  <2>1. {i \in 1..Len(options) : options[i].number < 256} = {}
    BY <1>2
  <2> QED
    BY <1>2, <2>1, FS_EmptySet DEF BelowIn
<1>3. CASE Len(options) # 0
  <2>1. PICK k \in 1..Len(options) : k = Len(options)
    BY <1>1, <1>3
  <2>2. /\ BelowIn(options, 256) \in Nat /\ BelowIn(options, 256) <= Len(options)
        /\ BelowIn(options, 256) < k <=> options[k].number >= 256
    BY BelowNumber
  <2>3. ~(options[k].number >= 256)
    BY NumberedOption
  <2> QED
    BY ONLY <1>1, <2>1, <2>2, <2>3
<1> QED
  BY <1>2, <1>3

\* Where option k is among the outer or inner options.
LEMMA OuterPlace ==
    ASSUME NEW options, Mergeable(options), NEW value \in Cells, NEW k \in OuterIndexes(options)
    PROVE  LET place == Len(OuterParts(options)[k])
               o == OuterOptions(options, value)
           IN  /\ place \in 1..Len(Outer(options)) /\ place = Len(OuterParts(options)[k - 1]) + 1
               /\ place \in DOMAIN o
               /\ o[place].number = options[k].number /\ o[place].value = options[k].value
<1> DEFINE n == Len(options)
           place == Len(OuterParts(options)[k])
           u == Outer(options)
           o == OuterOptions(options, value)
<1>1. Numbered(options) /\ k \in 1..n
  BY DEF Mergeable, OuterIndexes
<1>2. place \in 1..Len(u) /\ place = Len(OuterParts(options)[k - 1]) + 1 /\ u[place] = Kept(options)[k]
  BY <1>1, ExtractedCollects, CollectedPlace DEF Outer
<1>3. Len(u) \in Nat /\ OuterAre(o, u, value)
  BY OuterMade
<1>4. u[place].number = options[k].number /\ u[place].value = options[k].value
  BY <1>1, <1>2 DEF Kept
<1> HIDE DEF u, o, place
<1>5. o[place].number = u[place].number /\ o[place].value = u[place].value
  BY <1>2, <1>3 DEF OuterAre
<1>6. place \in DOMAIN o
  BY <1>2, <1>3 DEF OuterAre
<1> QED
  BY <1>2, <1>4, <1>5, <1>6 DEF u, o, place

LEMMA InnerPlace ==
    ASSUME NEW options, Numbered(options), NEW k \in InnerIndexes(options)
    PROVE  LET place == Len(InnerParts(options)[k])
               o == InnerOptions(options)
           IN  /\ place \in 1..Len(o) /\ place = Len(InnerParts(options)[k - 1]) + 1
               /\ place \in DOMAIN o
               /\ o[place].number = options[k].number /\ o[place].value = options[k].value
<1> DEFINE n == Len(options)
           place == Len(InnerParts(options)[k])
           e == Inner(options)
           o == InnerOptions(options)
<1>1. k \in 1..n
  BY DEF InnerIndexes
<1>2. place \in 1..Len(e) /\ place = Len(InnerParts(options)[k - 1]) + 1 /\ e[place] = Kept(options)[k]
  BY <1>1, ExtractedCollects, CollectedPlace DEF Inner
<1>3. /\ Len(e) \in Nat /\ o \in Seq(OptionRecords) /\ Len(o) = Len(e)
      /\ \A j \in 1..Len(e) : o[j].number = e[j].number /\ o[j].value = e[j].value
  BY InnerMade
<1>4. e[place].number = options[k].number /\ e[place].value = options[k].value
  BY <1>1, <1>2 DEF Kept
<1> HIDE DEF e, o, place
<1>5. o[place].number = e[place].number /\ o[place].value = e[place].value
  BY <1>2, <1>3
<1>6. place \in DOMAIN o
  BY <1>2, <1>3
<1> QED
  BY <1>2, <1>3, <1>4, <1>5, <1>6 DEF e, o, place

LEMMA SortedNumberIs ==
    ASSUME NEW options, Mergeable(options), NEW value \in Cells, NEW k \in 1..Len(options)
    PROVE  SortedNumber(OuterOptions(options, value), InnerOptions(options), k) = options[k].number
<1> DEFINE outer == OuterOptions(options, value)
           inner == InnerOptions(options)
           numbers == {outer[i].number : i \in DOMAIN outer} \cup {inner[i].number : i \in DOMAIN inner}
           Place(n) == Below(outer, inner, n) < k /\ k <= Below(outer, inner, n + 1)
           number == options[k].number
<1>1. Numbered(options) /\ number \in Int
  <2>1. Numbered(options)
    BY DEF Mergeable
  <2> QED
    BY <2>1, NumberedOption
<1>2. \A bound : Below(outer, inner, bound) = BelowIn(options, bound)
  BY BelowCounts
<1>3. number \in numbers
  <2>1. CASE k \in OuterIndexes(options)
    <3>1. PICK place : place \in DOMAIN outer /\ outer[place].number = number
      BY <2>1, OuterPlace
    <3> HIDE DEF outer, inner, number
    <3> QED
      BY <3>1
  <2>2. CASE k \in InnerIndexes(options)
    <3>1. PICK place : place \in DOMAIN inner /\ inner[place].number = number
      BY <1>1, <2>2, InnerPlace
    <3> HIDE DEF outer, inner, number
    <3> QED
      BY <3>1
  <2> QED
    BY <2>1, <2>2 DEF OuterIndexes, InnerIndexes
<1>4. \A n \in numbers : n \in Int
  <2>1. OuterAre(outer, Outer(options), value)
    BY OuterMade
  <2>2. outer \in Seq(OptionRecords) /\ inner \in Seq(OptionRecords)
    BY <1>1, <2>1, InnerMade DEF OuterAre
  <2> HIDE DEF outer, inner
  <2>3. \A o \in OptionRecords : o.number \in Int
    <3> TAKE o \in OptionRecords
    <3>1. o.number \in Octets
      BY DEF OptionRecords
    <3> QED
      BY <3>1, OctetBounds
  <2>4. /\ \A i \in DOMAIN outer : outer[i] \in OptionRecords
        /\ \A i \in DOMAIN inner : inner[i] \in OptionRecords
    BY <2>2
  <2> QED
    BY <2>3, <2>4
<1>5. ASSUME NEW n \in Int
      PROVE  Place(n) <=> n = number
  <2>1. n + 1 \in Int
    OBVIOUS
  <2>2. /\ BelowIn(options, n) < k <=> number >= n
        /\ BelowIn(options, n + 1) \in Nat
        /\ BelowIn(options, n + 1) < k <=> number >= n + 1
    BY <1>1, <2>1, BelowNumber
  <2>3. Place(n) <=> BelowIn(options, n) < k /\ k <= BelowIn(options, n + 1)
    BY <1>2
  <2>4. k \in Int
    OBVIOUS
  <2> HIDE DEF number, Place
  <2> QED
    BY ONLY <1>1, <2>2, <2>3, <2>4, n \in Int
<1>6. SortedNumber(outer, inner, k) = CHOOSE n \in numbers : Place(n)
  BY DEF SortedNumber
<1> HIDE DEF Place, numbers, number
<1>7. (CHOOSE n \in numbers : Place(n)) = number
  BY <1>1, <1>3, <1>4, <1>5
<1> QED
  BY ONLY <1>6, <1>7, Zenon DEF outer, inner, number

-----------------------------------------------------------------------------
\* The loop of options_from_oscore_reorder.

\* Option i, where it is found.
Source(options, value) ==
    [i \in 1..Len(options) |->
        IF i \in OuterIndexes(options)
        THEN OuterOptions(options, value)[Len(OuterParts(options)[i])]
        ELSE InnerOptions(options)[Len(InnerParts(options)[i])]]

\* The loop after k turns.
MergedAt(options, value, k) ==
    [u   |-> Len(OuterParts(options)[k]) + 1,
     e   |-> Len(InnerParts(options)[k]) + 1,
     out |-> [i \in 1..k |-> Source(options, value)[i]]]

LEMMA AppendedNext ==
    ASSUME NEW S, NEW n \in Nat, NEW s \in [1..n -> S], NEW k \in 1..n
    PROVE  Append([i \in 1..k - 1 |-> s[i]], s[k]) = [i \in 1..k |-> s[i]]
<1> DEFINE front == [i \in 1..k - 1 |-> s[i]]
           all   == [i \in 1..k |-> s[i]]
<1>1. front \in Seq(S) /\ Len(front) = k - 1 /\ s[k] \in S /\ k \in Nat /\ k - 1 \in Nat
  <2>1. k - 1 \in Nat /\ front \in [1..k - 1 -> S]
    OBVIOUS
  <2> QED
    BY <2>1
<1>2. \A i \in 1..k - 1 : front[i] = s[i]
  OBVIOUS
<1>3. all = [i \in 1..k |-> s[i]] /\ \A i \in 1..k : all[i] = s[i]
  OBVIOUS
<1> HIDE DEF front, all
<1>4. /\ Append(front, s[k]) = [i \in 1..k |-> Append(front, s[k])[i]]
      /\ Append(front, s[k])[k] = s[k]
      /\ \A i \in 1..k - 1 : Append(front, s[k])[i] = front[i]
  <2>1. /\ Append(front, s[k]) \in Seq(S) /\ Len(Append(front, s[k])) = k
        /\ Append(front, s[k])[k] = s[k]
        /\ \A i \in 1..k - 1 : Append(front, s[k])[i] = front[i]
    <3>1. k - 1 + 1 = k
      BY <1>1
    <3> QED
      BY ONLY <1>1, <3>1, Appended
  <2> HIDE DEF front
  <2> DEFINE a == Append(front, s[k])
  <2>2. a \in Seq(S) /\ Len(a) = k
    BY <2>1
  <2> HIDE DEF a
  <2>3. a = [i \in 1..k |-> a[i]]
    BY <2>2
  <2> QED
    BY <2>1, <2>3 DEF a
<1>5. \A i \in 1..k : Append(front, s[k])[i] = all[i]
  <2> TAKE i \in 1..k
  <2>1. CASE i = k
    BY <1>3, <1>4, <2>1
  <2>2. CASE i \in 1..k - 1
    BY <1>2, <1>3, <1>4, <2>2
  <2> QED
    BY <1>1, <2>1, <2>2
<1> QED
  BY <1>3, <1>4, <1>5 DEF front, all

LEMMA SourceMade ==
    ASSUME NEW options, Mergeable(options), NEW value \in Cells
    PROVE  /\ Source(options, value) \in [1..Len(options) -> OptionRecords]
           /\ \A i \in 1..Len(options) :
                  /\ Source(options, value)[i].number = options[i].number
                  /\ Source(options, value)[i].value = options[i].value
<1> DEFINE n == Len(options)
           s == Source(options, value)
           outer == OuterOptions(options, value)
           inner == InnerOptions(options)
<1>1. Numbered(options)
  BY DEF Mergeable
<1>2. outer \in Seq(OptionRecords) /\ inner \in Seq(OptionRecords)
  <2>1. OuterAre(outer, Outer(options), value)
    BY OuterMade
  <2> QED
    BY <1>1, <2>1, InnerMade DEF OuterAre
<1>3. ASSUME NEW i \in 1..n
      PROVE  /\ s[i] \in OptionRecords
             /\ s[i].number = options[i].number /\ s[i].value = options[i].value
  <2>1. CASE i \in OuterIndexes(options)
    <3>1. PICK place : /\ place = Len(OuterParts(options)[i]) /\ place \in DOMAIN outer
                       /\ outer[place].number = options[i].number
                       /\ outer[place].value = options[i].value
      BY <2>1, OuterPlace
    <3>2. s[i] = outer[place]
      BY <2>1, <3>1 DEF Source
    <3> HIDE DEF s, outer
    <3> QED
      BY <1>2, <3>1, <3>2
  <2>2. CASE i \notin OuterIndexes(options)
    <3>1. i \in InnerIndexes(options)
      BY <2>2 DEF OuterIndexes, InnerIndexes
    <3>2. PICK place : /\ place = Len(InnerParts(options)[i]) /\ place \in DOMAIN inner
                       /\ inner[place].number = options[i].number
                       /\ inner[place].value = options[i].value
      BY <1>1, <3>1, InnerPlace
    <3>3. s[i] = inner[place]
      BY <2>2, <3>2 DEF Source
    <3> HIDE DEF s, inner
    <3> QED
      BY <1>2, <3>2, <3>3
  <2> QED
    BY <2>1, <2>2
<1>4. s = [i \in 1..n |-> s[i]]
  BY DEF Source
<1> HIDE DEF s
<1> QED
  BY <1>3, <1>4 DEF s

LEMMA OuterOfClassU ==
    ASSUME NEW options, Mergeable(options), NEW value \in Cells,
           NEW j \in 1..Len(Outer(options)) + 1
    PROVE  ~is_class_e(OuterOptions(options, value)[j].number)
<1> DEFINE u == Outer(options)
           o == OuterOptions(options, value)
<1>1. Len(u) \in Nat /\ OuterAre(o, u, value)
  BY OuterMade
<1>2. CASE j \in 1..Len(u)
  <2>1. Collects(OuterParts(options), Len(options), OuterIndexes(options), Kept(options))
    BY ExtractedCollects DEF Mergeable
  <2>2. PICK i \in OuterIndexes(options) : u[j].number = options[i].number
    BY <1>2, <2>1, CollectedListed DEF Mergeable, Outer
  <2>3. o[j].number = u[j].number
    BY <1>1, <1>2 DEF OuterAre
  <2>4. ~is_class_e(options[i].number)
    BY DEF OuterIndexes
  <2> QED
    BY ONLY <2>2, <2>3, <2>4, Zenon
<1>3. CASE j = Len(u) + 1
  <2>1. o[j].number = OSCORE
    BY <1>1, <1>3 DEF OuterAre
  <2>2. ~is_class_e(OSCORE)
    BY DEF is_class_e, ClassU
  <2> QED
    BY ONLY <2>1, <2>2, Zenon
<1> HIDE DEF u
<1> QED
  BY <1>1, <1>2, <1>3 DEF u

LEMMA MergeTurn ==
    ASSUME NEW options, Mergeable(options), NEW value \in Cells, NEW k \in 1..Len(options)
    PROVE  Taken(OuterOptions(options, value), InnerOptions(options),
                 MergedAt(options, value, k - 1), options[k].number)
             = MergedAt(options, value, k)
<1> DEFINE n == Len(options)
           outer == OuterOptions(options, value)
           inner == InnerOptions(options)
           before == MergedAt(options, value, k - 1)
           after  == MergedAt(options, value, k)
           number == options[k].number
           u == OuterParts(options)
           e == InnerParts(options)
           s == Source(options, value)
<1>1. /\ Numbered(options) /\ n \in Nat
      /\ Collects(u, n, OuterIndexes(options), Kept(options))
      /\ Collects(e, n, InnerIndexes(options), Kept(options))
  BY ExtractedCollects DEF Mergeable
<1>2. /\ before.u = Len(u[k - 1]) + 1 /\ before.e = Len(e[k - 1]) + 1
      /\ before.out = [i \in 1..k - 1 |-> s[i]]
  BY DEF MergedAt
<1>3. after = [u |-> Len(u[k]) + 1, e |-> Len(e[k]) + 1, out |-> [i \in 1..k |-> s[i]]]
  BY DEF MergedAt
<1>4. Append(before.out, s[k]) = [i \in 1..k |-> s[i]]
  <2>1. s \in [1..n -> OptionRecords] /\ k \in 1..n
    BY SourceMade
  <2> HIDE DEF s, n, before
  <2>2. Append([i \in 1..k - 1 |-> s[i]], s[k]) = [i \in 1..k |-> s[i]]
    BY ONLY <1>1, <2>1, AppendedNext
  <2> QED
    BY ONLY <1>2, <2>2, Zenon
<1>5. CASE k \in OuterIndexes(options)
  <2>1. /\ Len(u[k]) = Len(u[k - 1]) + 1
        /\ outer[Len(u[k])].number = number
    BY <1>5, OuterPlace
  <2>2. k \notin InnerIndexes(options)
    BY <1>5 DEF OuterIndexes, InnerIndexes
  <2>3. e[k] = e[k - 1]
    BY <1>1, <2>2 DEF Collects
  <2>4. s[k] = outer[Len(u[k])]
    BY <1>5 DEF Source
  <2>5. before.u = Len(u[k]) /\ before.e = Len(e[k]) + 1
    BY ONLY <1>2, <2>1, <2>3
  <2> HIDE DEF before, outer, u, e, s, number, inner
  <2>6. Taken(outer, inner, before, number)
          = [u |-> before.u + 1, e |-> before.e, out |-> Append(before.out, outer[before.u])]
    BY ONLY <2>1, <2>5 DEF Taken
  <2>7. Taken(outer, inner, before, number) = after
    BY ONLY <1>3, <1>4, <2>4, <2>5, <2>6
  <2> QED
    BY ONLY <2>7, Zenon DEF before, after, outer, inner, number
<1>6. CASE k \in InnerIndexes(options)
  <2>1. /\ Len(e[k]) \in 1..Len(inner) /\ Len(e[k]) = Len(e[k - 1]) + 1
        /\ inner[Len(e[k])].number = number
    BY <1>1, <1>6, InnerPlace
  <2>2. k \notin OuterIndexes(options) /\ is_class_e(number)
    BY <1>6 DEF OuterIndexes, InnerIndexes
  <2>3. u[k] = u[k - 1]
    BY <1>1, <2>2 DEF Collects
  <2>4. s[k] = inner[Len(e[k])]
    BY <2>2 DEF Source
  <2>5. before.u = Len(u[k]) + 1 /\ before.e = Len(e[k])
    BY ONLY <1>2, <2>1, <2>3
  <2>6. outer[before.u].number # number
    <3>1. Len(u[k]) \in 0..Len(Outer(options)) /\ Len(Outer(options)) \in Nat
      <4>1. CollectedAt(u, n, OuterIndexes(options), Kept(options))
        BY <1>1, ExtractedCollects, Collected
      <4>2. Len(u[k]) <= Len(u[n]) /\ u[n] = Outer(options)
        BY <1>1, <4>1 DEF CollectedAt, Outer
      <4>3. Len(u[k]) \in Nat /\ Len(u[n]) \in Nat
        BY <1>1 DEF Collects
      <4> HIDE DEF u
      <4> QED
        BY <4>2, <4>3
    <3>2. Len(u[k]) + 1 \in 1..Len(Outer(options)) + 1
      <4> HIDE DEF u
      <4> QED
        BY ONLY <3>1
    <3>3. ~is_class_e(outer[Len(u[k]) + 1].number)
      BY ONLY <3>2, Mergeable(options), value \in Cells, OuterOfClassU
    <3> QED
      BY ONLY <2>2, <2>5, <3>3, Zenon
  <2> HIDE DEF before, outer, u, e, s, number, inner
  <2>7. before.e <= Len(inner) /\ inner[before.e].number = number
    BY ONLY <2>1, <2>5
  <2>8. Taken(outer, inner, before, number)
          = [u |-> before.u, e |-> before.e + 1, out |-> Append(before.out, inner[before.e])]
    BY ONLY <2>6, <2>7 DEF Taken
  <2>9. Taken(outer, inner, before, number) = after
    BY ONLY <1>3, <1>4, <2>4, <2>5, <2>8
  <2> QED
    BY ONLY <2>9, Zenon DEF before, after, outer, inner, number
<1> QED
  BY <1>5, <1>6 DEF OuterIndexes, InnerIndexes

LEMMA MergedIs ==
    ASSUME NEW options, Mergeable(options), NEW value \in Cells
    PROVE  \A k \in 0..Len(options) :
               Merged(OuterOptions(options, value), InnerOptions(options))[k]
                 = MergedAt(options, value, k)
<1> DEFINE n == Len(options)
           outer == OuterOptions(options, value)
           inner == InnerOptions(options)
           m == Merged(outer, inner)
           Start == [u |-> 1, e |-> 1, out |-> <<>>]
           f == [k \in 0..n |-> MergedAt(options, value, k)]
<1>1. Numbered(options) /\ n \in Nat
  BY ExtractedCollects DEF Mergeable
<1>2. Below(outer, inner, 256) = n
  <2>1. Below(outer, inner, 256) = BelowIn(options, 256)
    BY BelowCounts
  <2> QED
    BY <1>1, <2>1, AllBelow
<1>3. MergedAt(options, value, 0) = Start
  <2>1. OuterParts(options)[0] = <<>> /\ InnerParts(options)[0] = <<>>
    BY <1>1, ExtractedCollects DEF Collects
  <2>2. [i \in 1..0 |-> Source(options, value)[i]] = <<>>
    OBVIOUS
  <2>3. Len(<<>>) + 1 = 1
    OBVIOUS
  <2> QED
    BY ONLY <2>1, <2>2, <2>3, Zenon DEF MergedAt
<1>4. \A k \in 1..n : SortedNumber(outer, inner, k) = options[k].number
  BY SortedNumberIs
<1>5. \A k \in 1..n : Taken(outer, inner, MergedAt(options, value, k - 1), options[k].number)
                        = MergedAt(options, value, k)
  BY MergeTurn
<1> HIDE DEF outer, inner, n
<1>6. \A k \in 0..n : f[k] = IF k = 0 THEN Start
                             ELSE Taken(outer, inner, f[k - 1], SortedNumber(outer, inner, k))
  <2> TAKE k \in 0..n
  <2>1. CASE k = 0
    BY <1>3, <2>1
  <2>2. CASE k # 0
    <3>1. k \in 1..n /\ k - 1 \in 0..n
      BY <1>1, <2>2
    <3>2. f[k] = MergedAt(options, value, k) /\ f[k - 1] = MergedAt(options, value, k - 1)
      BY <3>1
    <3> HIDE DEF f
    <3> QED
      BY <1>4, <1>5, <2>2, <3>1, <3>2
  <2> QED
    BY <2>1, <2>2
<1>7. f = [k \in 0..n |-> IF k = 0 THEN Start
                          ELSE Taken(outer, inner, f[k - 1], SortedNumber(outer, inner, k))]
  <2>1. f = [k \in 0..n |-> f[k]]
    OBVIOUS
  <2> HIDE DEF f
  <2> QED
    BY <1>6, <2>1
<1>8. m = [k \in 0..n |-> IF k = 0 THEN Start
                          ELSE Taken(outer, inner, m[k - 1], SortedNumber(outer, inner, k))]
  <2> DEFINE Turned(g) == [k \in 0..n |-> IF k = 0 THEN Start
                                   ELSE Taken(outer, inner, g[k - 1],
                                              SortedNumber(outer, inner, k))]
  <2>1. f = Turned(f)
    BY <1>7
  <2>2. m = CHOOSE g : g = Turned(g)
    BY <1>2 DEF Merged
  <2> HIDE DEF f, m, Turned
  <2>3. m = Turned(m)
    BY ONLY <2>1, <2>2, Zenon
  <2> QED
    BY ONLY <2>3, Zenon DEF Turned
<1> HIDE DEF m, f
<1>9. m[0] = Start
  BY <1>1, <1>8
<1>10. \A k \in 1..n : m[k] = Taken(outer, inner, m[k - 1], options[k].number)
  <2> TAKE k \in 1..n
  <2>1. k \in 0..n /\ k # 0
    BY <1>1
  <2> QED
    BY <1>4, <1>8, <2>1
<1> DEFINE S == { k \in Nat : k <= n => m[k] = MergedAt(options, value, k) }
<1>11. 0 \in S
  BY <1>3, <1>9
<1>12. ASSUME NEW i \in Nat, i \in S PROVE i + 1 \in S
  <2> SUFFICES ASSUME i + 1 <= n PROVE m[i + 1] = MergedAt(options, value, i + 1)
    OBVIOUS
  <2>1. PICK k \in 1..n : k = i + 1 /\ k - 1 = i
    BY <1>1
  <2>2. m[i] = MergedAt(options, value, i)
    BY <1>1, <1>12
  <2>3. m[k] = Taken(outer, inner, m[k - 1], options[k].number)
    BY <1>10
  <2>4. Taken(outer, inner, MergedAt(options, value, k - 1), options[k].number)
          = MergedAt(options, value, k)
    BY <1>5
  <2> QED
    BY ONLY <2>1, <2>2, <2>3, <2>4, Zenon
<1>13. Nat \subseteq S
  <2> HIDE DEF S
  <2> QED
    BY <1>11, <1>12, Induction
<1> QED
  BY <1>1, <1>13 DEF n, m, outer, inner

LEMMA DeltaOfSum ==
    ASSUME NEW a \in Int, NEW b \in Int, 0 <= b, b <= a, a < 256
    PROVE  U16(a - U8(b)) = a - b /\ U8(a) = a /\ U16(a - b) = a - b
<1>1. U8(a) = a /\ U8(b) = b
  BY DEF U8
<1>2. U16(a - b) = a - b
  BY DEF U16
<1> QED
  BY <1>1, <1>2

\* Options have the deltas that their numbers give them.
LEMMA DeltasAgain ==
    ASSUME NEW options, Numbered(options), NEW s, DOMAIN s = 1..Len(options),
           \A i \in 1..Len(options) :
               s[i].number = options[i].number /\ s[i].value = options[i].value
    PROVE  Deltas(s) = options
<1> DEFINE n == Len(options)
           before(i) == IF i = 1 THEN 0 ELSE U8(s[i - 1].number)
           made(i) == [delta  |-> U16(s[i].number - before(i)), number |-> U8(s[i].number),
                       value  |-> s[i].value]
<1>1. n \in Nat /\ options \in Seq(OptionRecords)
  BY DEF Numbered
<1>2. ASSUME NEW i \in 1..n PROVE made(i) = options[i]
  <2> DEFINE a == options[i].number
             d == options[i].delta
             b == NumberAfter(options, i - 1)
  <2>1. options[i] \in OptionRecords
    BY <1>1
  <2>2. /\ d \in Int /\ 0 <= d /\ d < 65536
        /\ options[i] = [delta |-> d, number |-> a, value |-> options[i].value]
    BY <2>1, FieldsOfOption
  <2>3. a \in Int /\ 0 <= a /\ a < 256 /\ a = b + d
    BY <2>1, OctetBounds DEF Numbered, OptionRecords
  <2>4. /\ b \in Int /\ 0 <= b /\ b < 256
        /\ before(i) = IF i = 1 THEN b ELSE U8(b)
    <3>1. CASE i = 1
      BY <3>1 DEF NumberAfter
    <3>2. CASE i # 1
      <4>1. i - 1 \in 1..n /\ i - 1 # 0
        BY <3>2
      <4>2. b = options[i - 1].number /\ s[i - 1].number = options[i - 1].number
        BY <4>1 DEF NumberAfter
      <4>3. options[i - 1] \in OptionRecords
        BY <1>1, <4>1
      <4>4. options[i - 1].number \in Octets
        BY <4>3 DEF OptionRecords
      <4>5. /\ options[i - 1].number \in Int /\ 0 <= options[i - 1].number
            /\ options[i - 1].number < 256
        BY ONLY <4>4, OctetBounds
      <4> QED
        BY <3>2, <4>2, <4>5
    <3> QED
      BY <3>1, <3>2
  <2>5. s[i].number = a /\ s[i].value = options[i].value
    OBVIOUS
  <2> HIDE DEF a, b, d, before
  <2>6. U16(a - before(i)) = d /\ U8(a) = a
    <3>1. a \in Int /\ b \in Int /\ 0 <= b /\ b <= a /\ a < 256 /\ a - b = d
      BY ONLY <2>2, <2>3, <2>4
    <3>2. U16(a - U8(b)) = a - b /\ U8(a) = a /\ U16(a - b) = a - b
      BY ONLY <3>1, DeltaOfSum
    <3> QED
      BY ONLY <2>4, <3>1, <3>2
  <2> QED
    BY ONLY <2>2, <2>5, <2>6
<1>3. Deltas(s) = [i \in 1..n |-> made(i)]
  BY DEF Deltas
<1> HIDE DEF made
<1>4. options = [i \in 1..n |-> options[i]]
  BY <1>1
<1> QED
  BY <1>2, <1>3, <1>4

\* The options of the two layers are put together as they were: every option
\* of the message is back, with its number and its value, and none is added,
\* whatever the numbers of the outer and the inner ones between each other.
THEOREM MergeRestores ==
    ASSUME NEW options, Mergeable(options), NEW value \in Cells
    PROVE  options_from_oscore_reorder(OuterOptions(options, value), InnerOptions(options))
             = options
<1> DEFINE n == Len(options)
           outer == OuterOptions(options, value)
           inner == InnerOptions(options)
           s == Source(options, value)
<1>1. Numbered(options) /\ n \in Nat /\ n \in 0..n
  BY ExtractedCollects DEF Mergeable
<1>2. Below(outer, inner, 256) = n
  <2>1. Below(outer, inner, 256) = BelowIn(options, 256)
    BY BelowCounts
  <2> QED
    BY <1>1, <2>1, AllBelow
<1>3. Merged(outer, inner)[n] = MergedAt(options, value, n)
  BY <1>1, MergedIs
<1>4. MergedAt(options, value, n).out = s
  <2>1. s = [i \in 1..n |-> s[i]]
    BY DEF Source
  <2>2. MergedAt(options, value, n).out = [i \in 1..n |-> s[i]]
    BY DEF MergedAt
  <2> QED
    BY ONLY <2>1, <2>2
<1>5. Deltas(s) = options
  <2>1. s \in [1..n -> OptionRecords]
        /\ \A i \in 1..n : s[i].number = options[i].number /\ s[i].value = options[i].value
    BY SourceMade
  <2>2. DOMAIN s = 1..n
    BY <2>1
  <2> HIDE DEF s
  <2> QED
    BY ONLY <1>1, <2>1, <2>2, DeltasAgain
<1> HIDE DEF outer, inner, s, n
<1>6. options_from_oscore_reorder(outer, inner) = Deltas(Merged(outer, inner)[n].out)
  BY ONLY <1>2, Zenon DEF options_from_oscore_reorder
<1>7. options_from_oscore_reorder(outer, inner) = options
  BY ONLY <1>3, <1>4, <1>5, <1>6, Zenon
<1> QED
  BY <1>7 DEF outer, inner

-----------------------------------------------------------------------------
\* The OSCORE option among the outer options.

\* A value has no PIV of a reserved length.
ValidValue(value) == value # <<>> => PivLen(value) \notin {6, 7}


\* The outer options have one OSCORE option, the one that was added.
LEMMA OuterParsed ==
    ASSUME NEW options, Mergeable(options), NEW value \in Cells, ValidValue(value)
    PROVE  oscore_option_parser(OuterOptions(options, value))
             = IF value = <<>> THEN NoFields(TRUE) ELSE OptionFields(value)
<1> DEFINE o == OuterOptions(options, value)
           n == Len(Outer(options)) + 1
           found == {i \in DOMAIN o : o[i].number = OSCORE}
           full == {i \in found : o[i].value # <<>>}
           invalid == {i \in full : PivLen(o[i].value) \in {6, 7}}
           last == CHOOSE i \in full : \A j \in full : j <= i
<1>1. /\ n \in Nat \ {0} /\ DOMAIN o = 1..n
      /\ o[n].number = OSCORE /\ o[n].value = value
      /\ \A j \in 1..n - 1 : o[j].number \in Int /\ o[j].number < OSCORE
  <2> DEFINE u == Outer(options)
  <2>1. Len(u) \in Nat /\ OuterAre(o, u, value)
    BY OuterMade
  <2> HIDE DEF u, o
  <2>2. /\ o \in Seq(OptionRecords) /\ Len(o) = Len(u) + 1
        /\ o[Len(u) + 1].number = OSCORE /\ o[Len(u) + 1].value = value
        /\ \A j \in 1..Len(u) : o[j].number \in Int /\ o[j].number < OSCORE
    BY <2>1 DEF OuterAre
  <2>3. n = Len(u) + 1
    BY DEF u
  <2> HIDE DEF n
  <2>4. DOMAIN o = 1..n /\ n - 1 = Len(u) /\ n \in Nat \ {0}
    BY <2>1, <2>2, <2>3
  <2> QED
    BY ONLY <2>2, <2>3, <2>4
<1> HIDE DEF o, n
<1>2. found = {n}
  <2>1. n \in found
    BY <1>1
  <2>2. ASSUME NEW j \in found PROVE j = n
    <3>1. j \in 1..n /\ o[j].number = OSCORE
      BY <1>1
    <3>2. j \notin 1..n - 1
      BY <1>1, <3>1 DEF OSCORE
    <3> QED
      BY <1>1, <3>1, <3>2
  <2> QED
    BY <2>1, <2>2
<1> HIDE DEF found
<1>3. full = IF value = <<>> THEN {} ELSE {n}
  BY <1>1, <1>2
<1> HIDE DEF full
<1>4. invalid = {}
  BY <1>1, <1>3 DEF ValidValue
<1> HIDE DEF invalid
<1>5. value # <<>> => last = n
  BY <1>1, <1>3
<1> HIDE DEF last
<1>6. oscore_option_parser(o)
        = IF invalid # {}
          THEN [NoFields(\E i \in found : \A j \in invalid : i < j)
                   EXCEPT !.r = "OscoreInPktInvalidPiv"]
          ELSE IF full = {} THEN NoFields(found # {})
          ELSE OptionFields(o[last].value)
  BY DEF oscore_option_parser, found, full, invalid, last
<1>7. CASE value = <<>>
  <2>1. oscore_option_parser(o) = NoFields(TRUE)
    BY <1>2, <1>3, <1>4, <1>6, <1>7
  <2> QED
    BY <1>7, <2>1 DEF o
<1>8. CASE value # <<>>
  <2>1. oscore_option_parser(o) = OptionFields(value)
    BY <1>1, <1>3, <1>4, <1>5, <1>6, <1>8
  <2> QED
    BY <1>8, <2>1 DEF o
<1> QED
  BY <1>7, <1>8

-----------------------------------------------------------------------------
\* The plaintext.

LEMMA ConcatAssociates ==
    ASSUME NEW x \in Seq(Int), NEW y \in Seq(Int), NEW z \in Seq(Int)
    PROVE  (x \o y) \o z = x \o (y \o z)
OBVIOUS

LEMMA NothingBehind ==
    ASSUME NEW x \in Seq(Int)
    PROVE  x \o <<>> = x
OBVIOUS

LEMMA WholeSlice ==
    ASSUME NEW b \in Seq(Int)
    PROVE  Slice(b, 1, Len(b)) = b
<1>1. ASSUME NEW k \in 1..Len(b) PROVE 1 + k - 1 = k
  OBVIOUS
<1>2. Slice(b, 1, Len(b)) = [k \in 1..Len(b) |-> b[k]]
  BY <1>1 DEF Slice
<1>3. [k \in 1..Len(b) |-> b[k]] = b
  OBVIOUS
<1> QED
  BY <1>2, <1>3

\* The buffer for the plaintext has the size of what is written to it.
RightlyCounted(options) ==
    Extracted(options)[Len(options)].len = Len(options_into_byte_string(InnerOptions(options)))

ShortValues(options) == \A i \in 1..Len(options) : Len(options[i].value) < 65536

LEMMA InnerReadable ==
    ASSUME NEW options, Numbered(options), ShortValues(options)
    PROVE  Readable(InnerOptions(options), -1) /\ Chained(InnerOptions(options))
<1> DEFINE e == Inner(options)
           inner == InnerOptions(options)
<1>1. Collects(InnerParts(options), Len(options), InnerIndexes(options), Kept(options))
  BY ExtractedCollects
<1>2. \A j \in 1..Len(e) :
          \E i \in InnerIndexes(options) : i \in 1..Len(options) /\ e[j].value = options[i].value
  BY <1>1, CollectedListed DEF Inner
<1>3. /\ Len(e) \in Nat /\ inner \in Seq(OptionRecords) /\ Len(inner) = Len(e)
      /\ \A j \in 1..Len(e) : inner[j].value = e[j].value
      /\ Chained(inner)
  BY InnerMade
<1> HIDE DEF e, inner
<1>4. ASSUME NEW j \in 1..Len(inner) PROVE ReadableValue(inner[j].value, -1)
  <2>1. PICK i \in 1..Len(options) : inner[j].value = options[i].value
    BY <1>2, <1>3
  <2>2. Len(options[i].value) < 65536
    BY DEF ShortValues
  <2> QED
    BY ONLY <2>1, <2>2 DEF ReadableValue
<1> QED
  BY <1>3, <1>4 DEF Readable, inner

LEMMA OptionBytesTyped ==
    ASSUME NEW options, NEW sign, Readable(options, sign)
    PROVE  options_into_byte_string(options) \in Seq(Int)
<1>1. Writable(options)
  BY ReadableIsWritable
<1>2. Len(options) \in 0..Len(options)
  BY <1>1 DEF Writable
<1> QED
  BY <1>1, <1>2, WrittenLoop DEF options_into_byte_string

\* The plaintext of a message with room for len bytes.
PlaintextOf(code, options, payload) ==
    PacketBytes(<<code>>, <<>>, options_into_byte_string(InnerOptions(options)), payload)

LEMMA PlaintextParts ==
    ASSUME NEW options, Numbered(options), ShortValues(options), NEW code \in Int,
           NEW payload \in Seq(Int)
    PROVE  LET b == PlaintextOf(code, options, payload)
               bytes == options_into_byte_string(InnerOptions(options))
           IN  /\ b \in Seq(Int) /\ bytes \in Seq(Int) /\ b[1] = code
               /\ Holds(b, 2, bytes) /\ EndsWithPayload(b, 2 + Len(bytes), payload)
               /\ Len(b) = 1 + Len(bytes) + (IF payload = <<>> THEN 0 ELSE 1 + Len(payload))
<1> DEFINE b == PlaintextOf(code, options, payload)
           bytes == options_into_byte_string(InnerOptions(options))
           header == <<code>>
           token == <<>>
<1>1. bytes \in Seq(Int)
  BY InnerReadable, OptionBytesTyped
<1>2. /\ header \in Seq(Int) /\ Len(header) = 1 /\ header[1] = code
      /\ token \in Seq(Int) /\ Len(token) = 0
  OBVIOUS
<1>3. b = PacketBytes(header, token, bytes, payload)
  BY DEF PlaintextOf
<1> HIDE DEF bytes, header, token, b
<1>4. /\ b \in Seq(Int) /\ Holds(b, 1, header)
      /\ Holds(b, 1 + Len(header) + Len(token), bytes)
      /\ EndsWithPayload(b, 1 + Len(header) + Len(token) + Len(bytes), payload)
  BY ONLY <1>1, <1>2, <1>3, payload \in Seq(Int), PacketParts
<1>5. Len(bytes) \in Nat /\ Len(payload) \in Nat /\ Len(b) \in Nat
  BY <1>1, <1>4
<1>6. 1 + Len(header) + Len(token) = 2
  BY <1>2
<1>7. Holds(b, 2, bytes) /\ EndsWithPayload(b, 2 + Len(bytes), payload)
  BY ONLY <1>4, <1>6, Zenon
<1>8. b[1] = code
  <2>1. 1 \in 1..Len(header) /\ 1 + 1 - 1 = 1
    BY <1>2
  <2>2. b[1 + 1 - 1] = header[1]
    BY ONLY <1>4, <2>1 DEF Holds
  <2> QED
    BY ONLY <1>2, <2>1, <2>2
<1>9. Len(b) = 1 + Len(bytes) + (IF payload = <<>> THEN 0 ELSE 1 + Len(payload))
  <2>1. CASE payload = <<>>
    <3>1. Len(b) = 2 + Len(bytes) - 1
      BY ONLY <1>7, <2>1 DEF EndsWithPayload
    <3> QED
      BY ONLY <1>5, <2>1, <3>1
  <2>2. CASE payload # <<>>
    <3>1. Len(b) = 2 + Len(bytes) + Len(payload)
      BY ONLY <1>7, <2>2 DEF EndsWithPayload
    <3> QED
      BY ONLY <1>5, <2>2, <3>1
  <2> QED
    BY <2>1, <2>2
<1> QED
  BY <1>1, <1>4, <1>7, <1>8, <1>9 DEF b, bytes

\* The bytes counted for the plaintext of a message.
PlaintextLen(options, payload) ==
    1 + Extracted(options)[Len(options)].len + (IF payload = <<>> THEN 0 ELSE 1 + Len(payload))

LEMMA PlaintextMade ==
    ASSUME NEW options, Numbered(options), ShortValues(options), RightlyCounted(options),
           NEW code \in Int, NEW payload \in Seq(Int)
    PROVE  plaintext_setup(code, InnerOptions(options), payload, PlaintextLen(options, payload))
             = [r |-> "OscoreNoError", bytes |-> PlaintextOf(code, options, payload)]
<1> DEFINE b == PlaintextOf(code, options, payload)
           bytes == options_into_byte_string(InnerOptions(options))
           len == PlaintextLen(options, payload)
           header == <<code>>
           tail == IF payload = <<>> THEN <<>> ELSE <<Marker>> \o payload
           all == header \o bytes \o tail
<1>1. /\ b \in Seq(Int) /\ bytes \in Seq(Int)
      /\ Len(b) = 1 + Len(bytes) + (IF payload = <<>> THEN 0 ELSE 1 + Len(payload))
  BY PlaintextParts
<1>2. header \in Seq(Int)
  OBVIOUS
<1>3. len = Len(b)
  BY <1>1 DEF PlaintextLen, RightlyCounted
<1>4. b = PacketBytes(header, <<>>, bytes, payload)
  BY DEF PlaintextOf
<1> HIDE DEF b, bytes, len, header
<1>5. header \o <<>> = header
  BY ONLY <1>2, NothingBehind
<1>6. header \o bytes \in Seq(Int)
  BY ONLY <1>1, <1>2, JoinedLength
<1>7. all = b
  <2>1. CASE payload = <<>>
    <3>1. header \o bytes \o <<>> = header \o bytes
      BY ONLY <1>6, NothingBehind
    <3> QED
      BY ONLY <1>4, <1>5, <2>1, <3>1 DEF PacketBytes
  <2>2. CASE payload # <<>>
    <3> DEFINE marker == <<Marker>>
    <3>1. marker \in Seq(Int)
      BY DEF Marker
    <3>2. all = (header \o bytes) \o (marker \o payload)
      BY ONLY <2>2
    <3>3. b = ((header \o <<>>) \o bytes \o marker) \o payload
      BY ONLY <1>4, <2>2 DEF PacketBytes
    <3> HIDE DEF marker, all
    <3>4. (header \o bytes \o marker) \o payload = (header \o bytes) \o (marker \o payload)
      BY ONLY <1>6, <3>1, payload \in Seq(Int), ConcatAssociates
    <3> QED
      BY ONLY <1>5, <3>2, <3>3, <3>4, Zenon
  <2> QED
    BY ONLY <2>1, <2>2
<1>8. Slice(all, 1, len) = b
  BY ONLY <1>1, <1>3, <1>7, WholeSlice
<1>9. Fits(len, 1, Len(bytes)) /\ (payload # <<>> => Fits(len, Len(bytes) + 2, Len(payload)))
  <2>1. Len(bytes) \in Nat /\ Len(payload) \in Nat /\ Len(b) \in Nat
    <3>1. b \in Seq(Int) /\ bytes \in Seq(Int)
      BY <1>1
    <3> QED
      BY ONLY <3>1, payload \in Seq(Int)
  <2>2. CASE payload = <<>>
    <3>1. len \in Nat /\ Len(bytes) <= len - 1
      BY ONLY <1>1, <1>3, <2>1, <2>2
    <3> QED
      BY ONLY <2>2, <3>1 DEF Fits
  <2>3. CASE payload # <<>>
    <3>1. /\ len \in Nat /\ Len(bytes) <= len - 1
          /\ Len(payload) <= len - (Len(bytes) + 2)
      BY ONLY <1>1, <1>3, <2>1, <2>3
    <3> QED
      BY ONLY <3>1 DEF Fits
  <2> QED
    BY ONLY <2>2, <2>3
<1>10. plaintext_setup(code, InnerOptions(options), payload, len)
         = [r |-> IF /\ Fits(len, 1, Len(bytes))
                     /\ payload # <<>> => Fits(len, Len(bytes) + 2, Len(payload))
                  THEN "OscoreNoError" ELSE "DestBufferToSmall",
            bytes |-> Slice(all, 1, len)]
  BY DEF plaintext_setup, bytes, header
<1> QED
  BY ONLY <1>8, <1>9, <1>10 DEF len, b

\* oscore2coap finds the options and the payload in the plaintext that
\* coap2oscore made of a message, its code in front of them: what is sealed
\* is the whole message without its outer options and nothing else, when the
\* buffer has the size that is written to it and no byte of the options is
\* the marker.
THEOREM PlaintextIsRead ==
    ASSUME NEW options, Numbered(options), ShortValues(options), RightlyCounted(options),
           NoMarker(options_into_byte_string(InnerOptions(options))),
           NEW code \in Int, NEW payload \in Seq(Int)
    PROVE  LET made == plaintext_setup(code, e_u_options_extract(options).e, payload,
                                       PlaintextLen(options, payload))
           IN  /\ made.r = "OscoreNoError" /\ made.bytes[1] = code
               /\ ReadBody(made.bytes, 2, -1)
                    = [r |-> "OscoreNoError", options |-> InnerOptions(options),
                       payload |-> payload]
<1> DEFINE b == PlaintextOf(code, options, payload)
           bytes == options_into_byte_string(InnerOptions(options))
           made == plaintext_setup(code, e_u_options_extract(options).e, payload,
                                   PlaintextLen(options, payload))
<1>1. made.r = "OscoreNoError" /\ made.bytes = b
  <2>1. e_u_options_extract(options).e = InnerOptions(options)
    BY ExtractedParts
  <2>2. made = [r |-> "OscoreNoError", bytes |-> b]
    BY <2>1, PlaintextMade
  <2> QED
    BY <2>2
<1>2. /\ b \in Seq(Int) /\ bytes \in Seq(Int) /\ b[1] = code
      /\ Holds(b, 2, bytes) /\ EndsWithPayload(b, 2 + Len(bytes), payload)
  BY PlaintextParts
<1>3. Readable(InnerOptions(options), -1) /\ Chained(InnerOptions(options))
  BY InnerReadable
<1>4. 2 \in Nat \ {0}
  OBVIOUS
<1> HIDE DEF b, made
<1>5. ReadBody(b, 2, -1)
        = [r |-> "OscoreNoError", options |-> InnerOptions(options), payload |-> payload]
  BY <1>2, <1>3, <1>4, BodyIsRead DEF bytes
<1> QED
  BY <1>1, <1>2, <1>5 DEF made

-----------------------------------------------------------------------------
\* The protected packet.

\* A message as buf2coap hands it over.
Parsed(kind, code, MID, token, options, payload) ==
    [r |-> "OscoreNoError", kind |-> kind, code |-> code, MID |-> MID, token |-> token,
     options |-> options, payload |-> payload]

Message(in) ==
    /\ in = Parsed(in.kind, in.code, in.MID, in.token, in.options, in.payload)
    /\ in.kind \in 0..15 /\ in.code \in Int
    /\ in.MID = <<in.MID[1], in.MID[2]>> /\ in.MID[1] \in Int /\ in.MID[2] \in Int
    /\ in.token \in Seq(Int) /\ Len(in.token) <= 8
    /\ in.payload \in Seq(Int)

\* The options of a message that survive the codec, and the value of the
\* OSCORE option behind the outer ones.
Survives(options, value) ==
    /\ Mergeable(options) /\ ShortValues(options) /\ RightlyCounted(options)
    /\ \A i \in OuterIndexes(options) : Len(options[i].value) < 13
    /\ Len(value) < 13
    /\ NoMarker(options_into_byte_string(InnerOptions(options)))
    /\ NoMarker(options_into_byte_string(OuterOptions(options, value)))

Protectable(options, value) ==
    Survives(options, value) /\ value \in Cells /\ ValidValue(value)

LEMMA OuterReadable ==
    ASSUME NEW options, Mergeable(options), NEW value \in Cells, Len(value) < 13,
           \A i \in OuterIndexes(options) : Len(options[i].value) < 13
    PROVE  Readable(OuterOptions(options, value), 1) /\ Chained(OuterOptions(options, value))
<1> DEFINE u == Outer(options)
           outer == OuterOptions(options, value)
<1>1. Collects(OuterParts(options), Len(options), OuterIndexes(options), Kept(options))
  BY ExtractedCollects DEF Mergeable
<1>2. \A j \in 1..Len(u) : \E i \in OuterIndexes(options) : u[j].value = options[i].value
  BY <1>1, CollectedListed DEF Mergeable, Outer
<1>3. Len(u) \in Nat /\ OuterAre(outer, u, value)
  BY OuterMade
<1> HIDE DEF u, outer
<1>4. /\ outer \in Seq(OptionRecords) /\ Len(outer) = Len(u) + 1 /\ Chained(outer)
      /\ outer[Len(u) + 1].value = value
      /\ \A j \in 1..Len(u) : outer[j].value = u[j].value
  BY <1>3 DEF OuterAre
<1>5. ASSUME NEW j \in 1..Len(outer) PROVE Len(outer[j].value) < 13
  <2>1. CASE j = Len(u) + 1
    BY <1>4, <2>1
  <2>2. CASE j # Len(u) + 1
    <3>1. j \in 1..Len(u)
      BY <1>3, <1>4, <2>2
    <3>2. PICK i \in OuterIndexes(options) : u[j].value = options[i].value
      BY <1>2, <3>1
    <3>3. outer[j].value = u[j].value
      BY <1>4, <3>1
    <3>4. Len(options[i].value) < 13
      OBVIOUS
    <3> QED
      BY ONLY <3>2, <3>3, <3>4
  <2> QED
    BY <2>1, <2>2
<1>6. ASSUME NEW j \in 1..Len(outer) PROVE ReadableValue(outer[j].value, 1)
  <2>1. outer[j] \in OptionRecords
    BY <1>4
  <2>2. Len(outer[j].value) \in Int
    BY <2>1, FieldsOfOption
  <2> QED
    BY <1>5, <2>2 DEF ReadableValue
<1> QED
  BY <1>4, <1>6 DEF Readable, outer

LEMMA CiphertextTyped ==
    ASSUME NEW n \in Nat
    PROVE  Ciphertext(n) \in Seq(Int)
<1>1. n + AUTH_TAG_LEN \in Nat
  BY PacketAssumption
<1> DEFINE m == n + AUTH_TAG_LEN
<1>2. [k \in 1..m |-> -k] \in Seq(Int)
  <2> HIDE DEF m
  <2>1. m \in Nat
    BY <1>1 DEF m
  <2> QED
    BY <2>1
<1> QED
  BY <1>2 DEF Ciphertext

Replaced(in, code, options, payload) ==
    [in EXCEPT !.code = code, !.options = options, !.payload = payload]

\* The protected packet with its outer options and the ciphertext.
Sealed(in, value, n) ==
    Replaced(in, IF IsRequest(in.code) THEN POST ELSE Changed,
             OuterOptions(in.options, value), Ciphertext(n))

LEMMA ParsedReplaced ==
    ASSUME NEW kind, NEW code, NEW MID, NEW token, NEW options, NEW payload,
           NEW code1, NEW options1, NEW payload1
    PROVE  Replaced(Parsed(kind, code, MID, token, options, payload), code1, options1, payload1)
             = Parsed(kind, code1, MID, token, options1, payload1)
<1> DEFINE in == Parsed(kind, code, MID, token, options, payload)
           coded == Parsed(kind, code1, MID, token, options, payload)
           both == Parsed(kind, code1, MID, token, options1, payload)
<1>1. [in EXCEPT !.code = code1] = coded
  BY DEF Parsed
<1>2. [coded EXCEPT !.options = options1] = both
  BY DEF Parsed
<1>3. [both EXCEPT !.payload = payload1]
        = Parsed(kind, code1, MID, token, options1, payload1)
  BY DEF Parsed
<1> HIDE DEF in, coded, both
<1>4. [in EXCEPT !.code = code1, !.options = options1, !.payload = payload1]
        = Parsed(kind, code1, MID, token, options1, payload1)
  BY <1>1, <1>2, <1>3
<1> QED
  BY <1>4 DEF in, Replaced

LEMMA SealedFields ==
    ASSUME NEW in, Message(in), NEW value, NEW n
    PROVE  Sealed(in, value, n)
             = Parsed(in.kind, IF IsRequest(in.code) THEN POST ELSE Changed, in.MID, in.token,
                      OuterOptions(in.options, value), Ciphertext(n))
<1>1. in = Parsed(in.kind, in.code, in.MID, in.token, in.options, in.payload)
  BY DEF Message
<1> DEFINE code == IF IsRequest(in.code) THEN POST ELSE Changed
           outer == OuterOptions(in.options, value)
           body == Ciphertext(n)
<1> HIDE DEF code, outer, body
<1>2. Replaced(Parsed(in.kind, in.code, in.MID, in.token, in.options, in.payload),
               code, outer, body)
        = Parsed(in.kind, code, in.MID, in.token, outer, body)
  BY ParsedReplaced
<1>3. Replaced(in, code, outer, body) = Parsed(in.kind, code, in.MID, in.token, outer, body)
  BY ONLY <1>1, <1>2, Zenon
<1> QED
  BY ONLY <1>3, Zenon DEF Sealed, code, outer, body

LEMMA SealedExchangeable ==
    ASSUME NEW in, Message(in), NEW value, Protectable(in.options, value), NEW n \in Nat
    PROVE  Exchangeable(Sealed(in, value, n))
<1> DEFINE code == IF IsRequest(in.code) THEN POST ELSE Changed
           outer == OuterOptions(in.options, value)
           body == Ciphertext(n)
           pkg == Sealed(in, value, n)
<1>1. pkg = Parsed(in.kind, code, in.MID, in.token, outer, body)
  BY SealedFields
<1>2. code \in Int
  BY DEF POST, Changed
<1>3. Readable(outer, 1) /\ Chained(outer)
  BY OuterReadable DEF Protectable, Survives
<1>4. NoMarker(options_into_byte_string(outer))
  BY DEF Protectable, Survives
<1>5. body \in Seq(Int)
  BY CiphertextTyped
<1> HIDE DEF code, outer, body, pkg
<1>6. /\ pkg.kind = in.kind /\ pkg.code = code /\ pkg.MID = in.MID /\ pkg.token = in.token
      /\ pkg.options = outer /\ pkg.payload = body
  BY <1>1 DEF Parsed
<1>7. in.MID \in Seq(Int) /\ Len(in.MID) = 2
  <2>1. in.MID = <<in.MID[1], in.MID[2]>> /\ in.MID[1] \in Int /\ in.MID[2] \in Int
    BY DEF Message
  <2>2. <<in.MID[1], in.MID[2]>> \in Seq(Int) /\ Len(<<in.MID[1], in.MID[2]>>) = 2
    BY <2>1
  <2> QED
    BY <2>1, <2>2, Zenon
<1>8. Exchangeable(pkg)
  BY <1>2, <1>3, <1>4, <1>5, <1>6, <1>7, Zenon DEF Exchangeable, Message
<1> QED
  BY <1>8 DEF pkg

\* What coap2oscore returns for a message that survives.
Sends(in, value, plaintext, c, out, sent) ==
    /\ Message(in) /\ Protectable(in.options, value)
    /\ plaintext \in Seq(Int) /\ out.b \in Seq(Int)
    /\ sent = ProtectAndWrite(in, e_u_options_extract(in.options), plaintext, value, c, out)
    /\ sent.r = "OscoreNoError"

LEMMA ProtectedPacket ==
    ASSUME NEW in, Mergeable(in.options), NEW value, NEW plaintext, NEW c, NEW out
    PROVE  LET written == coap2buf(Sealed(in, value, Len(plaintext)), out.b, out.len)
           IN  ProtectAndWrite(in, e_u_options_extract(in.options), plaintext, value, c, out)
                 = [r   |-> written.r, c |-> c,
                    out |-> [b |-> written.b, len |-> written.len,
                             seal |-> IF written.r = "OscoreNoError"
                                      THEN Seal(c.sender_key, c.nonce, c.aad, plaintext)
                                      ELSE out.seal]]
<1> DEFINE split == e_u_options_extract(in.options)
           pkg == Sealed(in, value, Len(plaintext))
           written == coap2buf(pkg, out.b, out.len)
           seal == Seal(c.sender_key, c.nonce, c.aad, plaintext)
           code == IF IsRequest(in.code) THEN POST ELSE Changed
           outer == OuterOptions(in.options, value)
           body == Ciphertext(Len(plaintext))
<1>1. oscore_pkg_options(split.u, value) = outer
  <2>1. Numbered(in.options)
    BY DEF Mergeable
  <2>2. split.u = Deltas(Outer(in.options))
    BY <2>1, ExtractedParts
  <2> HIDE DEF split
  <2> QED
    BY ONLY <2>2, Zenon DEF OuterOptions, outer
<1>2. [in EXCEPT !.code = code, !.options = oscore_pkg_options(split.u, value),
                 !.payload = body] = pkg
  <2> HIDE DEF code, body, split, outer
  <2>1. Replaced(in, code, outer, body) = pkg
    BY DEF Sealed, code, outer, body
  <2> QED
    BY ONLY <1>1, <2>1 DEF Replaced
<1> HIDE DEF written, pkg, seal
<1>3. ProtectAndWrite(in, split, plaintext, value, c, out)
        = [r   |-> written.r, c |-> c,
           out |-> [b |-> written.b, len |-> written.len,
                    seal |-> IF written.r = "OscoreNoError" THEN seal ELSE out.seal]]
  BY <1>2 DEF ProtectAndWrite, written, seal
<1> QED
  BY <1>3 DEF split, written, seal, pkg

LEMMA ProtectedIsRead ==
    ASSUME NEW in, NEW value, NEW plaintext, NEW c, NEW out, NEW sent,
           Sends(in, value, plaintext, c, out, sent)
    PROVE  /\ buf2coap(Slice(sent.out.b, 1, sent.out.len)) = Sealed(in, value, Len(plaintext))
           /\ sent.out.seal = Seal(c.sender_key, c.nonce, c.aad, plaintext)
<1> DEFINE split == e_u_options_extract(in.options)
           pkg == Sealed(in, value, Len(plaintext))
           written == coap2buf(pkg, out.b, out.len)
           seal == Seal(c.sender_key, c.nonce, c.aad, plaintext)
           code == IF IsRequest(in.code) THEN POST ELSE Changed
           outer == OuterOptions(in.options, value)
           body == Ciphertext(Len(plaintext))
<1>0. /\ Message(in) /\ Protectable(in.options, value)
      /\ plaintext \in Seq(Int) /\ out.b \in Seq(Int)
      /\ sent = ProtectAndWrite(in, split, plaintext, value, c, out)
      /\ sent.r = "OscoreNoError"
  BY DEF Sends
<1>3. sent = [r   |-> written.r, c |-> c,
              out |-> [b |-> written.b, len |-> written.len,
                       seal |-> IF written.r = "OscoreNoError" THEN seal ELSE out.seal]]
  <2>1. Mergeable(in.options)
    BY <1>0 DEF Protectable, Survives
  <2>2. ProtectAndWrite(in, split, plaintext, value, c, out)
          = [r   |-> written.r, c |-> c,
             out |-> [b |-> written.b, len |-> written.len,
                      seal |-> IF written.r = "OscoreNoError" THEN seal ELSE out.seal]]
    BY <2>1, ProtectedPacket
  <2> HIDE DEF written, pkg, seal, split
  <2> QED
    BY ONLY <1>0, <2>2, Zenon
<1> HIDE DEF written, seal, pkg
<1>5. /\ written.r = "OscoreNoError" /\ sent.out.b = written.b /\ sent.out.len = written.len
      /\ sent.out.seal = seal
  BY ONLY <1>0, <1>3
<1>6. Exchangeable(pkg)
  BY <1>0, SealedExchangeable DEF pkg
<1>7. buf2coap(Slice(written.b, 1, written.len))
        = Parsed(pkg.kind, pkg.code, <<pkg.MID[1], pkg.MID[2]>>, pkg.token, pkg.options,
                 pkg.payload)
  <2>1. coap2buf(pkg, out.b, out.len).r = "OscoreNoError"
    BY <1>5 DEF written
  <2> QED
    BY <1>0, <1>6, <2>1, WrittenIsRead DEF Parsed, written
<1>8. pkg = Parsed(in.kind, code, in.MID, in.token, outer, body)
  BY <1>0, SealedFields DEF pkg
<1>9. Parsed(pkg.kind, pkg.code, <<pkg.MID[1], pkg.MID[2]>>, pkg.token, pkg.options, pkg.payload)
        = pkg
  <2> HIDE DEF code, outer, body
  <2>1. /\ pkg.kind = in.kind /\ pkg.code = code /\ pkg.MID = in.MID /\ pkg.token = in.token
        /\ pkg.options = outer /\ pkg.payload = body
    BY ONLY <1>8 DEF Parsed
  <2>2. in.MID = <<in.MID[1], in.MID[2]>>
    BY <1>0 DEF Message
  <2> QED
    BY ONLY <1>8, <2>1, <2>2, Zenon
<1> QED
  BY <1>5, <1>7, <1>9 DEF seal, pkg

LEMMA BodyOpened ==
    ASSUME NEW in, NEW value, Protectable(in.options, value), in.code \in Int,
           in.payload \in Seq(Int)
    PROVE  LET b == PlaintextOf(in.code, in.options, in.payload)
           IN  /\ b \in Seq(Int) /\ b[1] = in.code
               /\ ReadBody(b, 2, -1)
                    = [r |-> "OscoreNoError", options |-> InnerOptions(in.options),
                       payload |-> in.payload]
<1> DEFINE options == in.options
           b == PlaintextOf(in.code, options, in.payload)
           made == plaintext_setup(in.code, e_u_options_extract(options).e, in.payload,
                                   PlaintextLen(options, in.payload))
<1>1. /\ Numbered(options) /\ ShortValues(options) /\ RightlyCounted(options)
      /\ NoMarker(options_into_byte_string(InnerOptions(options)))
  BY DEF Protectable, Survives, Mergeable
<1> HIDE DEF options
<1>2. b \in Seq(Int)
  BY <1>1, PlaintextParts
<1>3. made.r = "OscoreNoError" /\ made.bytes[1] = in.code
      /\ ReadBody(made.bytes, 2, -1)
           = [r |-> "OscoreNoError", options |-> InnerOptions(options), payload |-> in.payload]
  BY <1>1, PlaintextIsRead
<1>4. made.bytes = b
  <2>1. e_u_options_extract(options).e = InnerOptions(options)
    BY <1>1, ExtractedParts
  <2>2. made = [r |-> "OscoreNoError", bytes |-> b]
    BY <1>1, <2>1, PlaintextMade
  <2> QED
    BY <2>2
<1> QED
  BY <1>2, <1>3, <1>4 DEF options

LEMMA PacketOpened ==
    ASSUME NEW in, Message(in), NEW value, Protectable(in.options, value), NEW n
    PROVE  o_coap_pkg_generate(PlaintextOf(in.code, in.options, in.payload),
                               Sealed(in, value, n)) = in
<1> DEFINE b == PlaintextOf(in.code, in.options, in.payload)
           pkg == Sealed(in, value, n)
           outer == OuterOptions(in.options, value)
           inner == InnerOptions(in.options)
           body == ReadBody(b, 2, -1)
           code == IF IsRequest(in.code) THEN POST ELSE Changed
           sealed == Ciphertext(n)
<1>1. /\ b[1] = in.code
      /\ body = [r |-> "OscoreNoError", options |-> inner, payload |-> in.payload]
  BY BodyOpened DEF Message
<1>2. pkg = Parsed(in.kind, code, in.MID, in.token, outer, sealed)
  BY SealedFields
<1>3. options_from_oscore_reorder(outer, inner) = in.options
  BY MergeRestores DEF Protectable, Survives
<1> HIDE DEF b, pkg, outer, inner, body, code, sealed
<1>4. body.r = "OscoreNoError" /\ body.options = inner /\ body.payload = in.payload
  BY ONLY <1>1
<1>5. pkg.options = outer
  BY ONLY <1>2 DEF Parsed
<1>6. o_coap_pkg_generate(b, pkg)
        = Replaced(pkg, b[1], options_from_oscore_reorder(pkg.options, body.options), body.payload)
  BY ONLY <1>4 DEF o_coap_pkg_generate, WithBody, Replaced, body
<1>7. o_coap_pkg_generate(b, pkg)
        = Replaced(Parsed(in.kind, code, in.MID, in.token, outer, sealed), in.code, in.options,
                   in.payload)
  BY ONLY <1>1, <1>2, <1>3, <1>4, <1>5, <1>6, Zenon
<1>8. Replaced(Parsed(in.kind, code, in.MID, in.token, outer, sealed), in.code, in.options,
               in.payload)
        = Parsed(in.kind, in.code, in.MID, in.token, in.options, in.payload)
  BY ParsedReplaced
<1>9. in = Parsed(in.kind, in.code, in.MID, in.token, in.options, in.payload)
  BY DEF Message
<1> QED
  BY ONLY <1>7, <1>8, <1>9, Zenon DEF b, pkg

-----------------------------------------------------------------------------
\* The PIV of a request.

LEMMA PivMade ==
    ASSUME NEW ssn \in Nat, FitsPiv(ssn)
    PROVE  /\ sender_seq_num2piv(ssn) \in Seq(Int) /\ sender_seq_num2piv(ssn) \in PIV
           /\ Len(sender_seq_num2piv(ssn)) \in 1..MAX_PIV_LEN
<1>1. PICK w \in 1..MAX_PIV_LEN : Occupies(ssn, w)
  BY DEF FitsPiv
<1>2. /\ MAX_PIV_LEN \in Nat /\ SSN_LEN \in Nat /\ MAX_PIV_LEN <= SSN_LEN
      /\ Radix \in Nat \ {0} /\ \A i \in 0..SSN_LEN : Weight[i] \in Nat \ {0}
  BY PivAssumption
<1>3. w \in 1..SSN_LEN
  BY <1>2
<1>4. ASSUME NEW v \in 1..SSN_LEN, Occupies(ssn, v) PROVE v = w
  <2>1. /\ ssn < Weight[w] /\ \A x \in 1..w - 1 : ssn >= Weight[x]
        /\ ssn < Weight[v] /\ \A x \in 1..v - 1 : ssn >= Weight[x]
    BY <1>1, <1>4 DEF Occupies
  <2>2. Weight[w] \in Nat /\ Weight[v] \in Nat
    BY <1>2, <1>3
  <2>3. v \notin 1..w - 1 /\ w \notin 1..v - 1
    BY <2>1, <2>2
  <2> QED
    BY <1>2, <1>3, <2>3
<1>5. SignificantBytes(ssn) = w
  BY <1>1, <1>3, <1>4 DEF SignificantBytes
<1>6. \A i \in 1..w : ByteOf(ssn, i - 1) \in Byte
  <2> TAKE i \in 1..w
  <2>1. Weight[i - 1] \in Nat \ {0}
    BY <1>2, <1>3
  <2> DEFINE weight == Weight[i - 1]
  <2> HIDE DEF weight
  <2>2. (ssn \div weight) % Radix \in Byte
    <3>1. weight \in Nat \ {0}
      BY <2>1 DEF weight
    <3>2. ssn \div weight \in Int
      BY <3>1
    <3> QED
      BY <1>2, <3>2 DEF Byte
  <2> QED
    BY <2>2 DEF ByteOf, weight
<1>7. sender_seq_num2piv(ssn) = [i \in 1..w |-> ByteOf(ssn, i - 1)]
  BY <1>5 DEF sender_seq_num2piv
<1>8. w \in Nat
  OBVIOUS
<1>9. [i \in 1..w |-> ByteOf(ssn, i - 1)] \in Seq(Byte)
      /\ Len([i \in 1..w |-> ByteOf(ssn, i - 1)]) = w
  BY <1>6, <1>8
<1> DEFINE piv == [i \in 1..w |-> ByteOf(ssn, i - 1)]
<1> HIDE DEF piv
<1>10. piv \in Seq(Int)
  <2>1. Byte \subseteq Int
    BY <1>2 DEF Byte
  <2>2. \A i \in 1..w : ByteOf(ssn, i - 1) \in Int
    BY <1>6, <2>1
  <2> QED
    BY <1>8, <2>2 DEF piv
<1>11. piv \in PIV
  BY <1>9 DEF PIV, piv
<1> QED
  BY <1>1, <1>7, <1>9, <1>10, <1>11 DEF piv

-----------------------------------------------------------------------------
\* The security contexts of the two endpoints.

\* The context coap2oscore seals a request with.
RequestContext(c, piv) ==
    UpdateNonceAndAad([[c EXCEPT !.sender_seq_num = @ + 1] EXCEPT !.piv = piv])

LEMMA RequestContextFields ==
    ASSUME NEW c \in Contexts, NEW piv
    PROVE  LET made == RequestContext(c, piv)
           IN  /\ made.sender_key = c.sender_key /\ made.piv = piv
               /\ made.nonce = create_nonce(piv, c.common_iv) /\ made.aad = create_aad(piv)
<1> DEFINE made == RequestContext(c, piv)
<1>1. made = [c EXCEPT !.sender_seq_num = c.sender_seq_num + 1, !.piv = piv,
                       !.nonce = create_nonce(piv, c.common_iv), !.aad = create_aad(piv)]
  BY DEF RequestContext, UpdateNonceAndAad, Contexts
<1> HIDE DEF made
<1>2. /\ made.sender_key = c.sender_key /\ made.piv = piv
      /\ made.nonce = create_nonce(piv, c.common_iv) /\ made.aad = create_aad(piv)
  BY <1>1 DEF Contexts
<1> QED
  BY <1>2 DEF made

\* The server's context belongs to the secret of the client's: with the ID
\* Context of the client it has the client's sender key and common IV.
Matching(c, d) ==
    /\ c.sender_key = Key(d.master_secret, c.kid_context, ClientId)
    /\ c.common_iv = CommonIV(d.master_secret, c.kid_context)
    /\ d.recipient_key = Key(d.master_secret, d.id_context, ClientId)
    /\ d.common_iv = CommonIV(d.master_secret, d.id_context)

LEMMA ServerFollows ==
    ASSUME NEW c, NEW d \in Contexts, NEW piv, Matching(c, d), UpdateSucceeds(d, c.kid_context)
    PROVE  LET d1 == ServerContextUpdate(d, piv, c.kid_context)
           IN  /\ d1.recipient_key = c.sender_key
               /\ d1.nonce = create_nonce(piv, c.common_iv) /\ d1.aad = create_aad(piv)
<1> DEFINE idc == c.kid_context
           d1 == ServerContextUpdate(d, piv, idc)
           kc == IF FitsKidContext(idc) THEN idc ELSE d.kid_context
           iv == CommonIV(d.master_secret, idc)
<1>1. Peer(ServerId) = ClientId
  BY ContextAssumption DEF Peer
<1>2. CASE idc = d.id_context
  <2>1. d1 = [d EXCEPT !.piv = piv, !.nonce = create_nonce(piv, d.common_iv),
                       !.aad = create_aad(piv)]
    BY <1>2 DEF ServerContextUpdate, UpdateNonceAndAad, Contexts
  <2> HIDE DEF d1
  <2>2. /\ d1.recipient_key = d.recipient_key
        /\ d1.nonce = create_nonce(piv, d.common_iv) /\ d1.aad = create_aad(piv)
    BY <2>1 DEF Contexts
  <2> QED
    BY <1>2, <2>2 DEF Matching, d1
<1>3. CASE idc # d.id_context
  <2>1. d1 = [d EXCEPT !.piv = piv, !.kid_context = kc, !.id_context = idc,
                       !.common_iv = iv,
                       !.sender_key = Key(d.master_secret, idc, ServerId),
                       !.recipient_key = Key(d.master_secret, idc, ClientId),
                       !.nonce = create_nonce(piv, iv),
                       !.aad = create_aad(piv)]
    BY <1>1, <1>3 DEF ServerContextUpdate, UpdateNonceAndAad, Rederive, Contexts
  <2> HIDE DEF d1
  <2>2. /\ d1.recipient_key = Key(d.master_secret, idc, ClientId)
        /\ d1.nonce = create_nonce(piv, iv) /\ d1.aad = create_aad(piv)
    BY <2>1 DEF Contexts
  <2> QED
    BY <2>2 DEF Matching, d1
<1> QED
  BY <1>2, <1>3

-----------------------------------------------------------------------------
\* What one endpoint protects, the other one makes the same packet of.

\* coap2oscore, of a packet that was read.
Protected(in, c, out) == ProtectMessage(in, e_u_options_extract(in.options), c, out)

\* The packet as it was sent.
SentPacket(sent) == [bytes |-> Slice(sent.out.b, 1, sent.out.len), seal |-> sent.out.seal]

LEMMA RequestCases ==
    ASSUME NEW in, Message(in), IsRequest(in.code), NEW c \in Contexts, NEW out,
           Numbered(in.options), ShortValues(in.options), RightlyCounted(in.options)
    PROVE  LET n == c.sender_seq_num
               piv == sender_seq_num2piv(n)
               value == oscore_option_generate(piv, c.kid_context, c.sender_key.id)
               updated == RequestContext(c, piv)
               Refused(r, c1) == [r |-> r, c |-> c1, out |-> out]
           IN  Protected(in, c, out)
                 = IF ~FitsPiv(n)
                   THEN Refused("DestBufferToSmall", [c EXCEPT !.sender_seq_num = @ + 1])
                   ELSE IF Len(value) > OSCORE_OPT_VALUE_LEN
                        THEN Refused("OscoreValueLenToLongError", updated)
                   ELSE ProtectAndWrite(in, e_u_options_extract(in.options),
                                        PlaintextOf(in.code, in.options, in.payload), value,
                                        updated, out)
<1> DEFINE split == e_u_options_extract(in.options)
           n == c.sender_seq_num
           piv == sender_seq_num2piv(n)
           updated == RequestContext(c, piv)
           value == oscore_option_generate(piv, c.kid_context, c.sender_key.id)
           b == PlaintextOf(in.code, in.options, in.payload)
           len == 1 + split.len + (IF in.payload = <<>> THEN 0 ELSE 1 + Len(in.payload))
           made == plaintext_setup(in.code, split.e, in.payload, len)
           spent == [c EXCEPT !.sender_seq_num = @ + 1]
           Refused(r, c1) == [r |-> r, c |-> c1, out |-> out]
           sent == Protected(in, c, out)
<1>1. made.r = "OscoreNoError" /\ made.bytes = b
  <2>1. /\ split.e = InnerOptions(in.options)
        /\ len = PlaintextLen(in.options, in.payload)
    BY ExtractedParts DEF PlaintextLen
  <2>2. in.code \in Int /\ in.payload \in Seq(Int)
    BY DEF Message
  <2> HIDE DEF split, len, b
  <2>3. made = [r |-> "OscoreNoError", bytes |-> b]
    BY <2>1, <2>2, PlaintextMade DEF b
  <2> QED
    BY <2>3
<1>2. updated.piv = piv
  BY RequestContextFields
<1>3. UpdateNonceAndAad([spent EXCEPT !.piv = piv]) = updated
  BY DEF RequestContext
<1> HIDE DEF split, updated, made, b, piv, n
<1>4. sent = IF made.r # "OscoreNoError" THEN Refused(made.r, c)
             ELSE IF ~IsRequest(in.code)
                  THEN ProtectAndWrite(in, split, made.bytes, <<>>, c, out)
             ELSE IF ~FitsPiv(n) THEN Refused("DestBufferToSmall", spent)
             ELSE IF Len(value) > OSCORE_OPT_VALUE_LEN
                  THEN Refused("OscoreValueLenToLongError", updated)
             ELSE ProtectAndWrite(in, split, made.bytes, value, updated, out)
  BY <1>2, <1>3 DEF Protected, ProtectMessage, split, made, n, piv
<1> HIDE DEF sent, value, spent
<1>5. sent = IF ~FitsPiv(n) THEN Refused("DestBufferToSmall", spent)
             ELSE IF Len(value) > OSCORE_OPT_VALUE_LEN
                  THEN Refused("OscoreValueLenToLongError", updated)
             ELSE ProtectAndWrite(in, split, b, value, updated, out)
  BY <1>1, <1>4
<1> QED
  BY <1>5 DEF sent, n, piv, split, b, value, updated, spent

LEMMA ProtectedRequest ==
    ASSUME NEW in, Message(in), IsRequest(in.code), NEW c \in Contexts, NEW out,
           Protected(in, c, out).r = "OscoreNoError",
           Numbered(in.options), ShortValues(in.options), RightlyCounted(in.options)
    PROVE  LET piv == sender_seq_num2piv(c.sender_seq_num)
           IN  /\ FitsPiv(c.sender_seq_num)
               /\ Protected(in, c, out)
                    = ProtectAndWrite(in, e_u_options_extract(in.options),
                                      PlaintextOf(in.code, in.options, in.payload),
                                      oscore_option_generate(piv, c.kid_context,
                                                             c.sender_key.id),
                                      RequestContext(c, piv), out)
<1> DEFINE split == e_u_options_extract(in.options)
           n == c.sender_seq_num
           piv == sender_seq_num2piv(n)
           updated == RequestContext(c, piv)
           value == oscore_option_generate(piv, c.kid_context, c.sender_key.id)
           b == PlaintextOf(in.code, in.options, in.payload)
           spent == [c EXCEPT !.sender_seq_num = @ + 1]
           Refused(r, c1) == [r |-> r, c |-> c1, out |-> out]
           sent == Protected(in, c, out)
<1>1. sent = IF ~FitsPiv(n) THEN Refused("DestBufferToSmall", spent)
             ELSE IF Len(value) > OSCORE_OPT_VALUE_LEN
                  THEN Refused("OscoreValueLenToLongError", updated)
             ELSE ProtectAndWrite(in, split, b, value, updated, out)
  BY RequestCases
<1>2. sent.r = "OscoreNoError"
  OBVIOUS
<1> HIDE DEF sent, value, spent, updated, n, piv, b, split
<1>3. FitsPiv(n) /\ sent = ProtectAndWrite(in, split, b, value, updated, out)
  BY <1>1, <1>2
<1> QED
  BY <1>3 DEF sent, n, piv, split, b, value, updated

\* A request is protected when its PIV and its option fit.
LEMMA RequestProtects ==
    ASSUME NEW in, Message(in), IsRequest(in.code), NEW c \in Contexts, NEW out,
           Numbered(in.options), ShortValues(in.options), RightlyCounted(in.options),
           FitsPiv(c.sender_seq_num),
           ~(Len(oscore_option_generate(sender_seq_num2piv(c.sender_seq_num), c.kid_context,
                                        c.sender_key.id)) > OSCORE_OPT_VALUE_LEN)
    PROVE  LET piv == sender_seq_num2piv(c.sender_seq_num)
           IN  Protected(in, c, out)
                 = ProtectAndWrite(in, e_u_options_extract(in.options),
                                   PlaintextOf(in.code, in.options, in.payload),
                                   oscore_option_generate(piv, c.kid_context, c.sender_key.id),
                                   RequestContext(c, piv), out)
BY RequestCases

LEMMA ProtectedResponse ==
    ASSUME NEW in, Message(in), ~IsRequest(in.code), NEW c, NEW out,
           Numbered(in.options), ShortValues(in.options), RightlyCounted(in.options)
    PROVE  Protected(in, c, out)
             = ProtectAndWrite(in, e_u_options_extract(in.options),
                               PlaintextOf(in.code, in.options, in.payload), <<>>, c, out)
<1> DEFINE split == e_u_options_extract(in.options)
           b == PlaintextOf(in.code, in.options, in.payload)
           len == 1 + split.len + (IF in.payload = <<>> THEN 0 ELSE 1 + Len(in.payload))
           made == plaintext_setup(in.code, split.e, in.payload, len)
<1>1. made.r = "OscoreNoError" /\ made.bytes = b
  <2>1. /\ split.e = InnerOptions(in.options)
        /\ len = PlaintextLen(in.options, in.payload)
    BY ExtractedParts DEF PlaintextLen
  <2>2. in.code \in Int /\ in.payload \in Seq(Int)
    BY DEF Message
  <2> HIDE DEF split, len, b
  <2>3. made = [r |-> "OscoreNoError", bytes |-> b]
    BY <2>1, <2>2, PlaintextMade DEF b
  <2> QED
    BY <2>3
<1> HIDE DEF made, b
<1>2. Protected(in, c, out) = ProtectAndWrite(in, split, made.bytes, <<>>, c, out)
  <2> HIDE DEF split
  <2> QED
    BY <1>1 DEF Protected, ProtectMessage, split, made
<1> QED
  BY <1>1, <1>2 DEF b

LEMMA NotReservedLength ==
    ASSUME NEW n \in Int, n <= 5
    PROVE  n \notin {6, 7}
OBVIOUS

\* What oscore2coap needs to find for an answer, and for a request, to open.
OpensAnswer(in, option, seal, d) ==
    /\ in.r = "OscoreNoError" /\ ~IsRequest(in.code)
    /\ option.r = "OscoreNoError" /\ option.flag = TRUE
    /\ payload_opens(in.payload, seal, d)

OpensRequest(in, option, seal, d, d1) ==
    /\ in.r = "OscoreNoError" /\ IsRequest(in.code)
    /\ option.r = "OscoreNoError" /\ option.flag = TRUE
    /\ option.kid = d.recipient_key.id /\ UpdateSucceeds(d, option.kid_context)
    /\ d1 = ServerContextUpdate(d, option.piv, option.kid_context)
    /\ payload_opens(in.payload, seal, d1)

LEMMA RequestUnprotected ==
    ASSUME NEW in, NEW option, NEW seal, NEW d, NEW d1, OpensRequest(in, option, seal, d, d1),
           NEW flag, NEW rx
    PROVE  UnprotectParsed(in, option, seal, flag, d, rx)
             = WriteOpened(o_coap_pkg_generate(seal.plaintext, in), d1, rx)
BY DEF UnprotectParsed, OpensRequest

LEMMA AnswerUnprotected ==
    ASSUME NEW in, NEW option, NEW seal, NEW d, OpensAnswer(in, option, seal, d),
           NEW flag, NEW rx
    PROVE  UnprotectParsed(in, option, seal, flag, d, rx)
             = WriteOpened(o_coap_pkg_generate(seal.plaintext, in), d, rx)
BY DEF UnprotectParsed, OpensAnswer

\* A request that coap2oscore protected is, for the server with the same
\* master secret, the request that was given to the client's coap2oscore:
\* code, message ID, token, options of both classes and payload, whatever
\* either of them has in its buffers and whatever the server converted
\* before.  The sender sequence number, the ID Context and the KID reach the
\* server in the option, so that it derives the keys and nonce of the client.
THEOREM RequestRestored ==
    ASSUME NEW in, Message(in), IsRequest(in.code),
           NEW c \in Contexts, c.kid_context \in Seq(Int), ClientId \in Seq(Int),
           NEW d \in Contexts, Matching(c, d), UpdateSucceeds(d, c.kid_context),
           NEW out, out.b \in Seq(Int), NEW rx, NEW flag,
           Protected(in, c, out).r = "OscoreNoError",
           Protected(in, c, out).out.seal # Unset,
           MAX_PIV_LEN <= 5,
           Survives(in.options,
                    oscore_option_generate(sender_seq_num2piv(c.sender_seq_num),
                                           c.kid_context, c.sender_key.id))
    PROVE  oscore2coap(SentPacket(Protected(in, c, out)), flag, d, rx)
             = WriteOpened(in, ServerContextUpdate(d, sender_seq_num2piv(c.sender_seq_num),
                                                   c.kid_context), rx)
<1> DEFINE piv == sender_seq_num2piv(c.sender_seq_num)
           idc == c.kid_context
           kid == c.sender_key.id
           value == oscore_option_generate(piv, idc, kid)
           split == e_u_options_extract(in.options)
           b == PlaintextOf(in.code, in.options, in.payload)
           made == RequestContext(c, piv)
           sent == Protected(in, c, out)
           seal == sent.out.seal
           pkg == Sealed(in, value, Len(b))
           option == oscore_option_parser(pkg.options)
           d1 == ServerContextUpdate(d, piv, idc)
<1>1. /\ Numbered(in.options) /\ Mergeable(in.options) /\ ShortValues(in.options)
      /\ RightlyCounted(in.options)
      /\ Len(value) < 13
  BY DEF Survives, Mergeable
<1>2. /\ FitsPiv(c.sender_seq_num)
      /\ sent = ProtectAndWrite(in, split, b, value, made, out)
  BY <1>1, ProtectedRequest
<1>3. kid = ClientId /\ d.recipient_key.id = ClientId
  BY DEF Matching, Key
<1>4. /\ value \in Seq(Int) /\ value # <<>> /\ PivLen(value) = Len(piv) /\ Len(piv) \in Int
      /\ 1 <= Len(piv) /\ Len(piv) <= 5
      /\ OptionFields(value)
           = [r |-> "OscoreNoError", flag |-> TRUE, piv |-> piv, kid_context |-> idc, kid |-> kid]
  <2>1. piv \in Seq(Int) /\ Len(piv) \in 1..MAX_PIV_LEN
    <3>1. c.sender_seq_num \in Nat
      BY DEF Contexts
    <3> QED
      BY <1>2, <3>1, PivMade
  <2>2. MAX_PIV_LEN \in Nat
    BY PivAssumption
  <2>3. idc \in Seq(Int) /\ kid \in Seq(Int)
    BY <1>3
  <2> HIDE DEF piv, idc, kid
  <2>4. Len(piv) \in Int /\ 1 <= Len(piv) /\ Len(piv) <= 5 /\ piv # <<>>
    BY <2>1, <2>2
  <2>5. Len(value) < 256
    <3> HIDE DEF value
    <3> QED
      BY <1>1
  <2> QED
    BY <2>1, <2>3, <2>4, <2>5, OptionValue
<1>5. Protectable(in.options, value)
  <2> HIDE DEF piv, value
  <2>1. ValidValue(value)
    <3>1. Len(piv) \notin {6, 7}
      BY ONLY <1>4, NotReservedLength
    <3> QED
      BY ONLY <1>4, <3>1, Zenon DEF ValidValue
  <2>2. value \in Cells
    BY <1>4 DEF Cells
  <2> QED
    BY <2>1, <2>2 DEF Protectable, value, piv
<1>6. b \in Seq(Int)
  BY <1>5, BodyOpened DEF Message
<1>7. /\ made.sender_key = c.sender_key
      /\ made.nonce = create_nonce(piv, c.common_iv) /\ made.aad = create_aad(piv)
  BY RequestContextFields
<1>8. /\ d1.recipient_key = c.sender_key
      /\ d1.nonce = create_nonce(piv, c.common_iv) /\ d1.aad = create_aad(piv)
  BY ServerFollows
<1> HIDE DEF value, piv, idc, kid, split, b, made, sent, pkg, option, d1
<1>9. /\ buf2coap(Slice(sent.out.b, 1, sent.out.len)) = pkg
      /\ seal = Seal(made.sender_key, made.nonce, made.aad, b)
  <2>1. Sends(in, value, b, made, out, sent)
    BY <1>2, <1>5, <1>6 DEF Sends, split, sent
  <2> QED
    BY ONLY <2>1, ProtectedIsRead DEF pkg
<1>10. pkg = Parsed(in.kind, POST, in.MID, in.token, OuterOptions(in.options, value),
                    Ciphertext(Len(b)))
  BY SealedFields DEF pkg
<1>11. /\ pkg.r = "OscoreNoError" /\ pkg.code = POST
       /\ pkg.options = OuterOptions(in.options, value) /\ pkg.payload = Ciphertext(Len(b))
  BY ONLY <1>10 DEF Parsed
<1>12. IsRequest(pkg.code)
  <2>1. IsRequest(2)
    BY DEF IsRequest
  <2> QED
    BY ONLY <1>11, <2>1 DEF POST
<1>13. /\ option.r = "OscoreNoError" /\ option.flag = TRUE /\ option.piv = piv
       /\ option.kid_context = idc /\ option.kid = kid
  <2>1. option = OptionFields(value)
    <3>1. oscore_option_parser(OuterOptions(in.options, value)) = OptionFields(value)
      BY <1>1, <1>4, <1>5, OuterParsed DEF Protectable
    <3> QED
      BY ONLY <1>11, <3>1, Zenon DEF option
  <2> QED
    BY ONLY <1>4, <2>1
<1>14. /\ seal.plaintext = b /\ seal.key = c.sender_key
       /\ seal.nonce = create_nonce(piv, c.common_iv) /\ seal.aad = create_aad(piv)
  BY <1>7, <1>9 DEF Seal
<1>15. payload_opens(pkg.payload, seal, d1)
  <2>1. seal # Unset
    BY DEF sent
  <2> QED
    BY ONLY <1>8, <1>11, <1>14, <2>1 DEF payload_opens, Opens
<1>16. UnprotectParsed(pkg, option, seal, flag, d, rx)
         = WriteOpened(o_coap_pkg_generate(b, pkg), d1, rx)
  <2>1. option.kid = d.recipient_key.id /\ UpdateSucceeds(d, option.kid_context)
    BY <1>3, <1>13 DEF kid, idc
  <2>2. ServerContextUpdate(d, option.piv, option.kid_context) = d1
    BY ONLY <1>13, Zenon DEF d1
  <2>3. OpensRequest(pkg, option, seal, d, d1)
    BY ONLY <1>11, <1>12, <1>13, <1>15, <2>1, <2>2, Zenon DEF OpensRequest
  <2>4. UnprotectParsed(pkg, option, seal, flag, d, rx)
          = WriteOpened(o_coap_pkg_generate(seal.plaintext, pkg), d1, rx)
    BY ONLY <2>3, RequestUnprotected
  <2> QED
    BY ONLY <1>14, <2>4, Zenon
<1>17. o_coap_pkg_generate(b, pkg) = in
  BY <1>5, PacketOpened DEF b, pkg
<1>18. oscore2coap(SentPacket(sent), flag, d, rx)
         = UnprotectParsed(pkg, option, seal, flag, d, rx)
  <2> DEFINE packet == SentPacket(sent)
  <2>1. packet.bytes = Slice(sent.out.b, 1, sent.out.len) /\ packet.seal = seal
    BY DEF SentPacket
  <2> HIDE DEF packet
  <2>2. oscore2coap(packet, flag, d, rx)
          = UnprotectParsed(buf2coap(packet.bytes),
                            oscore_option_parser(buf2coap(packet.bytes).options), packet.seal,
                            flag, d, rx)
    BY DEF oscore2coap
  <2>3. oscore2coap(packet, flag, d, rx) = UnprotectParsed(pkg, option, seal, flag, d, rx)
    BY ONLY <1>9, <2>1, <2>2, Zenon DEF option
  <2> QED
    BY ONLY <2>3, Zenon DEF packet
<1> QED
  BY ONLY <1>16, <1>17, <1>18, Zenon DEF sent, d1, piv, idc

\* An answer that coap2oscore protected is, for the endpoint whose context
\* holds the server's nonce and AAD, the answer that was given to the
\* server's coap2oscore, as RequestRestored says it of a request.
THEOREM AnswerRestored ==
    ASSUME NEW in, Message(in), ~IsRequest(in.code), Survives(in.options, <<>>),
           NEW c, NEW d,
           d.recipient_key = c.sender_key, d.nonce = c.nonce, d.aad = c.aad,
           NEW out, out.b \in Seq(Int), NEW rx, NEW flag,
           Protected(in, c, out).r = "OscoreNoError",
           Protected(in, c, out).out.seal # Unset
    PROVE  oscore2coap(SentPacket(Protected(in, c, out)), flag, d, rx) = WriteOpened(in, d, rx)
<1> DEFINE value == <<>>
           b == PlaintextOf(in.code, in.options, in.payload)
           sent == Protected(in, c, out)
           seal == sent.out.seal
           pkg == Sealed(in, value, Len(b))
           option == oscore_option_parser(pkg.options)
<1>1. Protectable(in.options, value)
  BY DEF Protectable, ValidValue, Cells
<1>2. sent = ProtectAndWrite(in, e_u_options_extract(in.options), b, value, c, out)
  <2>1. Numbered(in.options) /\ ShortValues(in.options) /\ RightlyCounted(in.options)
    BY DEF Survives, Mergeable
  <2> QED
    BY <2>1, ProtectedResponse
<1>3. b \in Seq(Int)
  BY <1>1, BodyOpened DEF Message
<1>4. option = NoFields(TRUE)
  <2>1. /\ Mergeable(in.options) /\ value \in Cells /\ ValidValue(value) /\ value = <<>>
    BY <1>1 DEF Protectable, Survives
  <2>2. oscore_option_parser(OuterOptions(in.options, value)) = NoFields(TRUE)
    <3> HIDE DEF value
    <3> QED
      BY <2>1, OuterParsed
  <2>3. pkg.options = OuterOptions(in.options, value)
    BY SealedFields DEF Parsed
  <2> QED
    BY <2>2, <2>3
<1> HIDE DEF value, b, sent, pkg, option
<1>5. buf2coap(Slice(sent.out.b, 1, sent.out.len)) = pkg
      /\ seal = Seal(c.sender_key, c.nonce, c.aad, b)
  <2>1. Sends(in, value, b, c, out, sent)
    BY <1>1, <1>2, <1>3 DEF Sends, sent
  <2> QED
    BY ONLY <2>1, ProtectedIsRead DEF pkg
<1>6. pkg = Parsed(in.kind, Changed, in.MID, in.token, OuterOptions(in.options, value),
                   Ciphertext(Len(b)))
  BY SealedFields DEF pkg
<1>7. pkg.r = "OscoreNoError" /\ pkg.code = Changed /\ pkg.payload = Ciphertext(Len(b))
  BY ONLY <1>6 DEF Parsed
<1>8. seal.plaintext = b /\ seal.key = c.sender_key /\ seal.nonce = c.nonce /\ seal.aad = c.aad
  BY <1>5 DEF Seal
<1>9. OpensAnswer(pkg, option, seal, d)
  <2>1. ~IsRequest(pkg.code)
    <3>1. ~IsRequest(68)
      BY DEF IsRequest
    <3> QED
      BY ONLY <1>7, <3>1 DEF Changed
  <2>2. payload_opens(pkg.payload, seal, d)
    <3>1. seal # Unset
      BY DEF sent
    <3> QED
      BY <1>7, <1>8, <3>1 DEF payload_opens, Opens
  <2>3. option.r = "OscoreNoError" /\ option.flag = TRUE
    BY ONLY <1>4 DEF NoFields
  <2> QED
    BY ONLY <1>7, <2>1, <2>2, <2>3, Zenon DEF OpensAnswer
<1>10. UnprotectParsed(pkg, option, seal, flag, d, rx)
         = WriteOpened(o_coap_pkg_generate(seal.plaintext, pkg), d, rx)
  BY ONLY <1>9, AnswerUnprotected
<1>11. o_coap_pkg_generate(b, pkg) = in
  BY <1>1, PacketOpened DEF b, pkg
<1>12. oscore2coap(SentPacket(sent), flag, d, rx)
         = UnprotectParsed(pkg, option, seal, flag, d, rx)
  <2> DEFINE packet == SentPacket(sent)
  <2>1. packet.bytes = Slice(sent.out.b, 1, sent.out.len) /\ packet.seal = seal
    BY DEF SentPacket
  <2> HIDE DEF packet
  <2>2. oscore2coap(packet, flag, d, rx)
          = UnprotectParsed(buf2coap(packet.bytes),
                            oscore_option_parser(buf2coap(packet.bytes).options), packet.seal,
                            flag, d, rx)
    BY DEF oscore2coap
  <2>3. oscore2coap(packet, flag, d, rx) = UnprotectParsed(pkg, option, seal, flag, d, rx)
    BY ONLY <1>5, <2>1, <2>2, Zenon DEF option
  <2> QED
    BY ONLY <2>3, Zenon DEF packet
<1> QED
  BY ONLY <1>8, <1>10, <1>11, <1>12, Zenon DEF sent

\* The packet that oscore2coap writes is read by the application's buf2coap
\* as the message that was protected, unless it reports an error.
THEOREM RestoredIsRead ==
    ASSUME NEW in, Message(in), Exchangeable(in), NEW d, NEW rx, rx.b \in Seq(Int),
           WriteOpened(in, d, rx).r = "OscoreNoError"
    PROVE  LET opened == WriteOpened(in, d, rx)
           IN  buf2coap(Slice(opened.out.b, 1, opened.out.len)) = in
<1> DEFINE written == coap2buf(in, rx.b, rx.len)
           opened == WriteOpened(in, d, rx)
<1>1. in = Parsed(in.kind, in.code, in.MID, in.token, in.options, in.payload)
  BY DEF Message
<1>2. in.r = "OscoreNoError"
  BY <1>1 DEF Parsed
<1> HIDE DEF written
<1>3. opened = [r |-> written.r, flag |-> TRUE, c |-> d,
                out |-> [b |-> written.b, len |-> written.len]]
  BY <1>2 DEF WriteOpened, written
<1>4. opened.r = "OscoreNoError"
  OBVIOUS
<1> HIDE DEF opened
<1>5. /\ written.r = "OscoreNoError"
      /\ opened.out.b = written.b /\ opened.out.len = written.len
  BY ONLY <1>3, <1>4
<1>6. buf2coap(Slice(written.b, 1, written.len))
        = Parsed(in.kind, in.code, <<in.MID[1], in.MID[2]>>, in.token, in.options, in.payload)
  <2>1. coap2buf(in, rx.b, rx.len).r = "OscoreNoError"
    BY <1>5 DEF written
  <2> QED
    BY <2>1, WrittenIsRead DEF Parsed, written
<1>7. in.MID = <<in.MID[1], in.MID[2]>>
  BY DEF Message
<1>8. buf2coap(Slice(opened.out.b, 1, opened.out.len)) = in
  BY ONLY <1>1, <1>5, <1>6, <1>7, Zenon
<1> QED
  BY <1>8 DEF opened

-----------------------------------------------------------------------------
\* When the bytes of the plaintext are counted as they are written.

LEMMA OptionLength ==
    ASSUME NEW o \in OptionRecords, Len(o.value) < 65536
    PROVE  Len(option_bytes(o)) = 1 + ExtensionLen(o.delta) + ExtensionLen(Len(o.value))
                                    + Len(o.value)
<1>1. OptionParts(o, o.delta, Len(o.value), HeaderByte(o.delta, Len(o.value)),
                  Extension(o.delta), Extension(Len(o.value)))
  BY OptionBytes
<1>2. /\ o.delta \in Int /\ 0 <= o.delta /\ o.delta < 65536
      /\ Len(o.value) \in Int /\ 0 <= Len(o.value)
  BY FieldsOfOption
<1>3. /\ Len(Extension(o.delta)) = ExtensionLen(o.delta)
      /\ Len(Extension(Len(o.value))) = ExtensionLen(Len(o.value))
  BY <1>2, ExtensionBytes
<1>4. Len(option_bytes(o)) = 1 + Len(Extension(o.delta)) + Len(Extension(Len(o.value)))
                               + Len(o.value)
  BY ONLY <1>1, Zenon DEF OptionParts
<1> QED
  BY ONLY <1>3, <1>4, Zenon

LEMMA ValueCounted ==
    ASSUME NEW o \in OptionRecords, Len(o.value) # 13
    PROVE  ExtensionLen(Len(o.value)) = CountedLen(Len(o.value))
<1> DEFINE n == Len(o.value)
<1>1. n \in Int /\ n # 13
  BY FieldsOfOption
<1> HIDE DEF n
<1>2. CountedLen(n) = ExtensionLen(n)
  BY ONLY <1>1 DEF CountedLen, ExtensionLen
<1> QED
  BY ONLY <1>2, Zenon DEF n

LEMMA NoExtension ==
    ASSUME NEW n \in Int, n < 13
    PROVE  ExtensionLen(n) = 0 /\ CountedLen(n) = 0
BY DEF ExtensionLen, CountedLen

LEMMA SmallStep ==
    ASSUME NEW a \in Int, NEW b \in Int, 0 <= a, a <= b, b < 256,
           NEW d \in Int, 0 <= d, d < 13, b = U8(a + d)
    PROVE  b = a + d
BY DEF U8

\* The delta of an inner option is not smaller than the one it had.
LEMMA InnerDelta ==
    ASSUME NEW options, Numbered(options), NEW k \in InnerIndexes(options),
           NEW o \in OptionRecords, o = InnerOptions(options)[Len(InnerParts(options)[k])],
           o.delta < 13
    PROVE  options[k].delta < 13
<1> DEFINE n == Len(options)
           e == InnerParts(options)
           inner == InnerOptions(options)
           place == Len(e[k])
<1>1. k \in 1..n /\ n \in Nat
  BY ExtractedCollects DEF InnerIndexes
<1>2. /\ options[k].number \in Int /\ options[k].number < 256 /\ options[k].delta \in Int
      /\ NumberAfter(options, k - 1) \in Int /\ 0 <= NumberAfter(options, k - 1)
      /\ options[k].number = NumberAfter(options, k - 1) + options[k].delta
      /\ 0 <= options[k].delta
  BY <1>1, NumberedOption
<1>3. /\ place \in 1..Len(inner) /\ place = Len(e[k - 1]) + 1
      /\ inner[place].number = options[k].number
  BY InnerPlace
<1>4. inner[place].number = U8(NumberAfter(inner, place - 1) + inner[place].delta)
  BY <1>3, InnerMade DEF Chained
<1>5. o.delta \in Int /\ 0 <= o.delta /\ o = inner[place]
  BY FieldsOfOption
<1>6. Collects(e, n, InnerIndexes(options), Kept(options)) /\ Len(e[k - 1]) \in Nat
  BY <1>1, ExtractedCollects DEF Collects
<1>7. /\ NumberAfter(inner, place - 1) \in Int /\ 0 <= NumberAfter(inner, place - 1)
      /\ NumberAfter(inner, place - 1) <= NumberAfter(options, k - 1)
  <2>1. CASE place = 1
    BY <1>2, <2>1 DEF NumberAfter
  <2>2. CASE place # 1
    <3>1. CollectedAt(e, k - 1, InnerIndexes(options), Kept(options))
      BY <1>1, <1>6, ExtractedCollects, Collected
    <3> HIDE DEF e, place, inner
    <3>2. place - 1 = Len(e[k - 1]) /\ place - 1 \in 1..Len(e[k - 1])
      BY ONLY <1>3, <1>6, <2>2
    <3>3. PICK i \in 1..k - 1 : i \in InnerIndexes(options) /\ Len(e[i]) = place - 1
      BY <3>1, <3>2 DEF CollectedAt
    <3>4. inner[place - 1].number = options[i].number
      BY <3>3, InnerPlace DEF e, inner
    <3>5. k - 1 \in 1..n /\ i \in 1..k - 1 /\ i \in 1..n /\ k - 1 # 0
      BY <1>1
    <3>6. options[i].number <= options[k - 1].number
      BY <3>5, NumbersSorted
    <3>7. options[i].number \in Int /\ 0 <= options[i].number
      BY <3>5, NumberedOption
    <3>8. place - 1 # 0
      BY ONLY <1>3, <1>6, <2>2
    <3>9. /\ NumberAfter(inner, place - 1) = options[i].number
          /\ NumberAfter(options, k - 1) = options[k - 1].number
      BY ONLY <3>4, <3>5, <3>8, Zenon DEF NumberAfter
    <3> QED
      BY ONLY <3>6, <3>7, <3>9
  <2> QED
    BY <2>1, <2>2
<1> DEFINE a == NumberAfter(inner, place - 1)
           b == options[k].number
           c == NumberAfter(options, k - 1)
           d == options[k].delta
<1>8. b = U8(a + o.delta)
  BY ONLY <1>3, <1>4, <1>5, Zenon
<1> HIDE DEF a, b, c, d
<1>9. a \in Int /\ 0 <= a /\ a <= c /\ c \in Int /\ d \in Int /\ 0 <= d /\ b \in Int /\ b < 256
  BY ONLY <1>2, <1>7, Zenon DEF a, b, c, d
<1>10. b = c + d
  BY ONLY <1>2, Zenon DEF b, c, d
<1>11. a <= b
  BY ONLY <1>9, <1>10
<1>12. b = a + o.delta
  BY ONLY <1>5, <1>8, <1>9, <1>11, o.delta < 13, SmallStep
<1>13. d < 13
  BY ONLY <1>5, <1>9, <1>10, <1>12, o.delta < 13
<1> QED
  BY <1>13 DEF d

\* coap2oscore counts the deltas that the options had in the packet, and no
\* extension byte for 13: the buffer for the plaintext has the size of what
\* is written to it when the inner options follow each other with deltas
\* below 13 and no value has 13 bytes.
THEOREM CountIsRight ==
    ASSUME NEW options, Numbered(options), ShortValues(options),
           \A j \in 1..Len(InnerOptions(options)) :
               /\ InnerOptions(options)[j].delta < 13
               /\ Len(InnerOptions(options)[j].value) # 13
    PROVE  RightlyCounted(options)
<1> DEFINE n == Len(options)
           x == Extracted(options)
           e == InnerParts(options)
           inner == InnerOptions(options)
           w == OptionsWritten(inner)
           S == { k \in Nat : k <= n => Len(w[Len(e[k])]) = x[k].len }
<1>1. n \in Nat /\ options \in Seq(OptionRecords)
  BY DEF Numbered
<1>2. /\ Collects(e, n, InnerIndexes(options), Kept(options))
      /\ \A k \in 0..n : Len(e[k]) \in Nat
  BY ExtractedCollects DEF Collects
<1>3. Readable(inner, -1) /\ Writable(inner)
  BY InnerReadable, ReadableIsWritable
<1>4. /\ w[0] = <<>> /\ Len(inner) \in Nat
      /\ \A i \in 0..Len(inner) : w[i] \in Seq(Int)
      /\ \A i \in 1..Len(inner) : w[i] = w[i - 1] \o option_bytes(inner[i])
  BY <1>3, WrittenLoop DEF Writable
<1>5. ASSUME NEW k \in InnerIndexes(options)
      PROVE  Len(w[Len(e[k])]) = Len(w[Len(e[k - 1])]) + CountedOption(options[k])
  <2> DEFINE place == Len(e[k])
             o == inner[place]
  <2>1. /\ place \in 1..Len(inner) /\ place = Len(e[k - 1]) + 1
        /\ o.value = options[k].value
    BY InnerPlace
  <2>2. o \in OptionRecords /\ o.delta < 13 /\ Len(o.value) # 13 /\ Len(o.value) < 65536
    BY <1>3, <2>1 DEF Readable, ReadableValue
  <2>3. k \in 1..n /\ options[k].delta \in Int /\ options[k].delta < 13
    <3>1. k \in 1..n
      BY DEF InnerIndexes
    <3>2. options[k].delta \in Int
      BY <3>1, NumberedOption
    <3>3. o = InnerOptions(options)[Len(InnerParts(options)[k])]
      OBVIOUS
    <3> HIDE DEF o, place, inner, e, n, x, w, S
    <3>4. options[k].delta < 13
      BY ONLY <2>2, <3>3, InnerDelta, Numbered(options), k \in InnerIndexes(options)
    <3> QED
      BY ONLY <3>1, <3>2, <3>4
  <2>4. o.delta \in Int /\ Len(o.value) \in Int
    BY <2>2, FieldsOfOption
  <2>5. Len(option_bytes(o)) = CountedOption(options[k])
    <3>1. Len(option_bytes(o)) = 1 + ExtensionLen(o.delta) + ExtensionLen(Len(o.value))
                                   + Len(o.value)
      BY <2>2, OptionLength
    <3>2. ExtensionLen(o.delta) = 0 /\ CountedLen(options[k].delta) = 0
      BY <2>2, <2>3, <2>4, NoExtension
    <3>3. ExtensionLen(Len(o.value)) = CountedLen(Len(o.value))
      BY <2>2, ValueCounted
    <3> HIDE DEF o
    <3> QED
      BY ONLY <2>1, <3>1, <3>2, <3>3, Zenon DEF CountedOption
  <2>6. place - 1 = Len(e[k - 1])
    <3>1. Len(e[k - 1]) \in Nat
      BY <1>1, <1>2, <2>3
    <3> HIDE DEF place
    <3> QED
      BY ONLY <2>1, <3>1
  <2>7. w[place] = w[place - 1] \o option_bytes(o)
    BY <1>4, <2>1
  <2>8. w[place - 1] \in Seq(Int) /\ option_bytes(o) \in Seq(Int)
    <3>1. place - 1 \in 0..Len(inner)
      BY <1>4, <2>1
    <3>2. option_bytes(o) \in Seq(Int)
      BY <1>3, <2>1 DEF Writable
    <3> QED
      BY <1>4, <3>1, <3>2
  <2> HIDE DEF w, place, o
  <2>9. Len(w[place - 1] \o option_bytes(o)) = Len(w[place - 1]) + Len(option_bytes(o))
    BY ONLY <2>8, JoinedLength
  <2>10. Len(w[place]) = Len(w[Len(e[k - 1])]) + CountedOption(options[k])
    BY ONLY <2>5, <2>6, <2>7, <2>9, Zenon
  <2> QED
    BY ONLY <2>10, Zenon DEF place
<1>6. ASSUME NEW k \in 1..n
      PROVE  Len(w[Len(e[k - 1])]) = x[k - 1].len => Len(w[Len(e[k])]) = x[k].len
  <2>1. CASE k \in InnerIndexes(options)
    <3>1. is_class_e(options[k].number)
      BY <2>1 DEF InnerIndexes
    <3>2. x[k].len = x[k - 1].len + CountedOption(options[k])
      BY <3>1, OneExtracted
    <3>3. Len(w[Len(e[k])]) = Len(w[Len(e[k - 1])]) + CountedOption(options[k])
      BY <1>5, <2>1
    <3> QED
      BY ONLY <3>2, <3>3, Zenon
  <2>2. CASE k \notin InnerIndexes(options)
    <3>1. ~is_class_e(options[k].number)
      BY <2>2 DEF InnerIndexes
    <3>2. x[k].len = x[k - 1].len
      BY <3>1, OneExtracted
    <3>3. e[k] = e[k - 1]
      BY <1>2, <2>2 DEF Collects
    <3> QED
      BY ONLY <3>2, <3>3, Zenon
  <2> QED
    BY <2>1, <2>2
<1>7. 0 \in S
  <2>1. e[0] = <<>> /\ Len(<<>>) = 0
    BY <1>2 DEF Collects
  <2>2. x[0] = NothingSplit
    BY <1>1, ExtractedLoop
  <2>3. x[0].len = 0
    BY <2>2 DEF NothingSplit
  <2>4. Len(w[Len(e[0])]) = x[0].len
    BY ONLY <1>4, <2>1, <2>3, Zenon
  <2> QED
    BY <2>4
<1> HIDE DEF n, x, e, inner, w
<1>8. ASSUME NEW i \in Nat, i \in S PROVE i + 1 \in S
  <2> SUFFICES ASSUME i + 1 <= n PROVE Len(w[Len(e[i + 1])]) = x[i + 1].len
    OBVIOUS
  <2>1. PICK k \in 1..n : k = i + 1 /\ k - 1 = i
    BY <1>1
  <2>2. Len(w[Len(e[k - 1])]) = x[k - 1].len
    BY <1>1, <1>8, <2>1
  <2>3. Len(w[Len(e[k])]) = x[k].len
    BY <1>6, <2>2
  <2> QED
    BY ONLY <2>1, <2>3, Zenon
<1>9. Nat \subseteq S
  <2> HIDE DEF S
  <2> QED
    BY <1>7, <1>8, Induction
<1>10. Len(w[Len(e[n])]) = x[n].len
  BY <1>1, <1>9
<1>11. Len(e[n]) = Len(inner)
  BY InnerMade DEF e, inner, n, Inner
<1>12. x[n].len = Len(w[Len(inner)])
  BY ONLY <1>10, <1>11, Zenon
<1> QED
  BY ONLY <1>12, Zenon DEF RightlyCounted, options_into_byte_string, x, n, w, inner

================================================================================
