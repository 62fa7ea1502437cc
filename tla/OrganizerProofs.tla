-------------------------- MODULE OrganizerProofs ---------------------------
(***************************************************************************)
(* Lemmas about the operators of Trie and Organizer, for any symbols and   *)
(* any sentence: what a trie holds, what it finds at a position, and how   *)
(* the scan of a level covers the sentence.                                *)
(***************************************************************************)
EXTENDS Organizer, Induction, SequenceTheorems

\* The trie holds the sequences of A, and its nodes are closed under beginnings,
\* so that the walk along a sequence reaches every stored prefix of it.
Holds(trie, T, A) ==
  /\ A \in SUBSET Seq(T)
  /\ trie.leaves = A \ {<<>>}
  /\ trie.leaves \subseteq trie.nodes
  /\ trie.nodes \in SUBSET Seq(T)
  /\ \A p \in trie.nodes : Beginnings(p) \subseteq trie.nodes

\* Sequence p occurs in s behind the first k elements.
StandsAt(s, k, p) == k + Len(p) <= Len(s) /\ SubSeq(s, k + 1, k + Len(p)) = p

-----------------------------------------------------------------------------
\* The beginnings of a sequence, and the beginnings of those.
LEMMA BeginningsFacts ==
  ASSUME NEW T, NEW s \in Seq(T)
  PROVE  /\ Beginnings(s) \in SUBSET Seq(T)
         /\ s # <<>> => s \in Beginnings(s)
         /\ \A p \in Beginnings(s) : Beginnings(p) \subseteq Beginnings(s)
<1>0. Len(s) \in Nat
  BY LenProperties
<1>1. ASSUME NEW n \in 1 .. Len(s)
      PROVE  SubSeq(s, 1, n) \in Seq(T) /\ Len(SubSeq(s, 1, n)) = n
  BY <1>0, <1>1, SubSeqProperties
<1>2. s # <<>> => s \in Beginnings(s)
  <2> SUFFICES ASSUME s # <<>> PROVE s \in Beginnings(s)
    OBVIOUS
  <2>1. Len(s) \in 1 .. Len(s)
    BY <1>0, EmptySeq
  <2>2. SubSeq(s, 1, Len(s)) = s
    BY SubSeqFull
  <2> QED BY <2>1, <2>2 DEF Beginnings
<1>3. ASSUME NEW n \in 1 .. Len(s), NEW k \in 1 .. n
      PROVE  SubSeq(SubSeq(s, 1, n), 1, k) = SubSeq(s, 1, k) /\ k \in 1 .. Len(s)
  BY <1>0, SubSeqOfSubSeq
<1>4. ASSUME NEW p \in Beginnings(s) PROVE Beginnings(p) \subseteq Beginnings(s)
  <2>1. PICK n \in 1 .. Len(s) : p = SubSeq(s, 1, n)
    BY DEF Beginnings
  <2>2. Len(p) = n
    BY <1>1, <2>1
  <2> QED BY <1>3, <2>1, <2>2 DEF Beginnings
<1> QED BY <1>1, <1>2, <1>4 DEF Beginnings

LEMMA EmptyTrieHolds == \A T : Holds(EmptyTrie, T, {})
BY EmptySeq DEF Holds, EmptyTrie, Beginnings

\* Adding a sequence keeps the nodes closed, and adds it as the only new leaf.
LEMMA AddHolds ==
  ASSUME NEW T, NEW A, NEW trie, Holds(trie, T, A), NEW s \in Seq(T)
  PROVE  Holds(Add(trie, s), T, A \cup {s})
<1>1. CASE s = <<>>
  BY <1>1 DEF Add, Holds
<1>2. CASE s # <<>>
  <2> DEFINE t == Add(trie, s)
  <2>1. t.nodes = trie.nodes \cup Beginnings(s) /\ t.leaves = trie.leaves \cup {s}
    BY <1>2 DEF Add
  <2> HIDE DEF t
  <2>2. Holds(t, T, A \cup {s})
    BY <1>2, <2>1, BeginningsFacts DEF Holds
  <2> QED BY <2>2 DEF t
<1> QED BY <1>1, <1>2

\* A trie over some elements is one over more.
LEMMA HoldsMonotonic ==
  ASSUME NEW T, NEW U, T \subseteq U, NEW A, NEW trie, Holds(trie, T, A)
  PROVE  Holds(trie, U, A)
<1>1. Seq(T) \subseteq Seq(U)
  BY SeqMonotonic
<1> QED BY <1>1 DEF Holds

-----------------------------------------------------------------------------
\* The stored symbols a sequence begins with are the places FindLongest confirms.
LEMMA ConfirmedFacts ==
  ASSUME NEW T, NEW A, NEW trie, Holds(trie, T, A), NEW s \in Seq(T)
  PROVE  /\ Confirmed(trie, s) \in SUBSET (1 .. Len(s))
         /\ \A p \in A \ {<<>>} : IsPrefix(p, s) =>
              Len(p) \in Confirmed(trie, s) /\ p = SubSeq(s, 1, Len(p))
         /\ \A n \in Confirmed(trie, s) :
              /\ SubSeq(s, 1, n) \in A \ {<<>>}
              /\ IsPrefix(SubSeq(s, 1, n), s)
              /\ Len(SubSeq(s, 1, n)) = n
<1>0. Len(s) \in Nat
  BY LenProperties
<1>1. Confirmed(trie, s) \in SUBSET (1 .. Len(s))
  BY DEF Confirmed, Walked
<1>2. ASSUME NEW p \in A \ {<<>>}, IsPrefix(p, s)
      PROVE  Len(p) \in Confirmed(trie, s) /\ p = SubSeq(s, 1, Len(p))
  <2>1. p \in trie.leaves /\ p \in trie.nodes /\ p \in Seq(T) /\ p # <<>>
    BY <1>2 DEF Holds
  <2>2. Len(p) \in 1 .. Len(s) /\ p = SubSeq(s, 1, Len(p))
    BY <1>0, <1>2, <2>1, SubSeqFull, EmptySeq, LenProperties DEF IsPrefix
  <2>3. ASSUME NEW k \in 1 .. Len(p) PROVE SubSeq(s, 1, k) \in trie.nodes
    <3>1. SubSeq(p, 1, k) \in trie.nodes
      BY <2>1 DEF Holds, Beginnings
    <3>2. SubSeq(SubSeq(s, 1, Len(p)), 1, k) = SubSeq(s, 1, k)
      BY <1>0, <2>2, SubSeqOfSubSeq
    <3> QED BY <2>2, <3>1, <3>2
  <2> QED BY <2>1, <2>2, <2>3 DEF Confirmed, Walked
<1>3. ASSUME NEW n \in Confirmed(trie, s)
      PROVE  /\ SubSeq(s, 1, n) \in A \ {<<>>}
             /\ IsPrefix(SubSeq(s, 1, n), s)
             /\ Len(SubSeq(s, 1, n)) = n
  <2>1. n \in 1 .. Len(s) /\ SubSeq(s, 1, n) \in trie.leaves
    BY <1>1 DEF Confirmed
  <2>2. Len(SubSeq(s, 1, n)) = n /\ SubSeq(s, 1, n) \in Seq(T)
    BY <1>0, <2>1, SubSeqProperties
  <2>3. SubSeq(SubSeq(s, 1, n), 1, n) = SubSeq(s, 1, n)
    BY <2>2, SubSeqFull
  <2> QED BY <1>0, <2>1, <2>2, <2>3 DEF Holds, IsPrefix
<1> QED BY <1>1, <1>2, <1>3

\* FindLongest returns the longest stored symbol that the sequence begins with.
LEMMA FindLongestFacts ==
  ASSUME NEW T, NEW A, NEW trie, Holds(trie, T, A), NEW s \in Seq(T)
  PROVE  LET m == FindLongest(trie, s)
         IN  /\ m # <<>> => m \in A /\ IsPrefix(m, s)
             /\ \A p \in A \ {<<>>} : IsPrefix(p, s) => m # <<>> /\ Len(p) <= Len(m)
<1> DEFINE m == FindLongest(trie, s)
           ends == Confirmed(trie, s)
<1>0. Len(s) \in Nat
  BY LenProperties
<1>1. CASE ends = {}
  <2>1. m = <<>>
    BY <1>1 DEF FindLongest
  <2> QED BY <1>1, <2>1, ConfirmedFacts
<1>2. CASE ends # {}
  <2>1. ends \in SUBSET (0 .. Len(s))
    BY <1>0, ConfirmedFacts
  <2>2. Max(ends) \in ends /\ \A n \in ends : n <= Max(ends)
    BY <1>0, <1>2, <2>1, GreatestNatural
  <2>3. m = SubSeq(s, 1, Max(ends))
    BY <1>2 DEF FindLongest
  <2> HIDE DEF m
  <2>4. m \in A \ {<<>>} /\ IsPrefix(m, s) /\ Len(m) = Max(ends)
    BY <2>2, <2>3, ConfirmedFacts
  <2>5. \A p \in A \ {<<>>} : IsPrefix(p, s) => Len(p) \in ends
    BY ConfirmedFacts
  <2>6. /\ m # <<>> => m \in A /\ IsPrefix(m, s)
        /\ \A p \in A \ {<<>>} : IsPrefix(p, s) => m # <<>> /\ Len(p) <= Len(m)
    BY <2>2, <2>4, <2>5
  <2> QED BY <2>6 DEF m
<1> QED BY <1>1, <1>2

-----------------------------------------------------------------------------
\* One token of the loop of FindAll, when no symbol is a single token: what is
\* found is the node itself, and the flag is down again.
LEMMA PassOnFacts ==
  ASSUME NEW T, NEW A, NEW trie, Holds(trie, T, A), \A p \in A : Len(p) > 1,
         NEW before, before.partial \in Seq(T), before.isSymbol = FALSE,
         before.result \in Seq(A), NEW token \in T
  PROVE  LET after  == PassOn(trie, before, token)
             longer == Append(before.partial, token)
         IN  /\ after.partial \in Seq(T) /\ after.isSymbol = FALSE /\ after.result \in Seq(A)
             /\ ToSet(before.result) \subseteq ToSet(after.result)
             /\ longer \in trie.nodes => after.partial = longer
             /\ longer \in A => longer \in ToSet(after.result)
<1> DEFINE after  == PassOn(trie, before, token)
           longer == Append(before.partial, token)
           symbol == longer \in trie.nodes /\ longer \in trie.leaves
<1>1. longer \in Seq(T)
  BY AppendProperties
<1> HIDE DEF longer
<1>2. ASSUME symbol PROVE longer \in A /\ Len(longer) > 1
  BY <1>2 DEF Holds
<1>3. ASSUME longer \in A PROVE symbol
  <2>1. longer # <<>>
    <3>1. Len(longer) > 1
      BY <1>3
    <3>2. Len(<<>>) = 0
      BY EmptySeq
    <3> QED BY <3>1, <3>2
  <2> QED BY <1>3, <2>1 DEF Holds
<1> HIDE DEF symbol
<1>4. /\ after.partial = (IF longer \in trie.nodes THEN longer ELSE before.partial)
      /\ symbol => longer \in trie.nodes
      /\ after.isSymbol = (symbol /\ ~(Len(after.partial) > 1 /\ symbol))
      /\ after.result = IF Len(after.partial) > 1 /\ symbol
                        THEN Append(before.result, after.partial) ELSE before.result
  BY DEF PassOn, longer, symbol
<1> HIDE DEF after
<1>5. CASE symbol
  <2>1. after.partial = longer /\ longer \in A /\ Len(longer) > 1
    BY <1>2, <1>4, <1>5
  <2>2. after.result = Append(before.result, longer) /\ after.isSymbol = FALSE
    BY <1>4, <1>5, <2>1
  <2>3. /\ after.result \in Seq(A) /\ Len(before.result) \in Nat
        /\ Len(after.result) = Len(before.result) + 1
        /\ \A i \in 1 .. Len(before.result) : after.result[i] = before.result[i]
        /\ after.result[Len(before.result) + 1] = longer
        /\ DOMAIN after.result = 1 .. Len(after.result)
        /\ DOMAIN before.result = 1 .. Len(before.result)
    BY <2>1, <2>2, AppendProperties, LenProperties
  <2>4. ToSet(before.result) \subseteq ToSet(after.result) /\ longer \in ToSet(after.result)
    <3>1. ASSUME NEW i \in DOMAIN before.result
          PROVE  i \in DOMAIN after.result /\ after.result[i] = before.result[i]
      <4> DEFINE l == Len(before.result)
      <4>1. l \in Nat /\ i \in 1 .. l /\ DOMAIN after.result = 1 .. (l + 1)
        BY <2>3, <3>1
      <4>2. i \in 1 .. (l + 1)
        BY <4>1
      <4> QED BY <2>3, <4>1, <4>2
    <3>2. Len(before.result) + 1 \in DOMAIN after.result
      BY <2>3
    <3> QED BY <2>3, <3>1, <3>2 DEF ToSet
  <2> QED BY <1>1, <2>1, <2>2, <2>3, <2>4 DEF after, longer
<1>6. CASE ~symbol
  <2>1. after.result = before.result /\ after.isSymbol = FALSE /\ longer \notin A
    BY <1>3, <1>4, <1>6
  <2>2. after.partial \in Seq(T)
    BY <1>1, <1>4
  <2> QED BY <1>4, <2>1, <2>2 DEF after, longer
<1> QED BY <1>5, <1>6

\* FindAll returns every symbol the sequence begins with, and only symbols, if none
\* is a single token.
LEMMA FindAllFacts ==
  ASSUME NEW T, NEW A, NEW trie, Holds(trie, T, A), \A p \in A : Len(p) > 1,
         NEW s \in Seq(T)
  PROVE  /\ {p \in A : IsPrefix(p, s)} \subseteq ToSet(FindAll(trie, s))
         /\ ToSet(FindAll(trie, s)) \subseteq A
<1> DEFINE Start == [partial |-> <<>>, isSymbol |-> FALSE, result |-> <<>>]
           Body(w, n) == IF n = 0 THEN Start ELSE PassOn(trie, w[n - 1], s[n])
           Sizes == {m \in Nat : \E w : w = [n \in 0 .. m |-> Body(w, n)]}
           Walk == CHOOSE w : w = [n \in 0 .. Len(s) |-> Body(w, n)]
<1>0. Len(s) \in Nat
  BY LenProperties
<1>1. FindAll(trie, s) = Walk[Len(s)].result
  BY DEF FindAll
<1>2. 0 \in Sizes
  <2> DEFINE w == [n \in 0 .. 0 |-> Start]
  <2>1. w = [n \in 0 .. 0 |-> Body(w, n)]
    OBVIOUS
  <2> HIDE DEF w, Body
  <2> QED BY <2>1
<1>3. ASSUME NEW m \in Nat, m \in Sizes PROVE m + 1 \in Sizes
  <2>1. PICK w : w = [n \in 0 .. m |-> Body(w, n)]
    BY <1>3
  <2> DEFINE h == [n \in 0 .. (m + 1) |-> Body(w, n)]
  <2>2. ASSUME NEW n \in 0 .. (m + 1) PROVE Body(h, n) = Body(w, n)
    <3>1. CASE n = 0
      BY <3>1
    <3>2. CASE n # 0
      <4>1. n - 1 \in 0 .. m /\ n - 1 \in 0 .. (m + 1)
        BY <2>2, <3>2
      <4> HIDE DEF Body
      <4>2. h[n - 1] = Body(w, n - 1)
        BY <4>1
      <4>3. w[n - 1] = Body(w, n - 1)
        BY <2>1, <4>1
      <4> HIDE DEF h
      <4>4. h[n - 1] = w[n - 1]
        BY <4>2, <4>3
      <4> QED BY <3>2, <4>4 DEF Body
    <3> QED BY <3>1, <3>2
  <2> HIDE DEF Body
  <2>3. h = [n \in 0 .. (m + 1) |-> Body(h, n)]
    BY <2>2
  <2> HIDE DEF h
  <2> QED BY <2>3
<1>4. \A m \in Nat : m \in Sizes
  <2> HIDE DEF Sizes
  <2> QED BY <1>2, <1>3, SimpleInduction
<1>5. Walk = [n \in 0 .. Len(s) |-> Body(Walk, n)]
  <2>1. \E w : w = [n \in 0 .. Len(s) |-> Body(w, n)]
    BY <1>0, <1>4
  <2> HIDE DEF Body
  <2> QED BY <2>1
<1> HIDE DEF Walk, Sizes
<1>6. Walk[0] = Start
  BY <1>0, <1>5
<1>7. ASSUME NEW n \in Nat, n + 1 <= Len(s) PROVE Walk[n + 1] = PassOn(trie, Walk[n], s[n + 1])
  <2>1. n + 1 \in 0 .. Len(s) /\ n + 1 # 0 /\ (n + 1) - 1 = n
    BY <1>0, <1>7
  <2> QED BY <1>5, <2>1
<1> HIDE DEF Body
<1> DEFINE Typed(n) == /\ Walk[n].partial \in Seq(T) /\ Walk[n].isSymbol = FALSE
                       /\ Walk[n].result \in Seq(A)
           Found(n, p) == /\ n <= Len(p) => Walk[n].partial = SubSeq(s, 1, n)
                          /\ n >= Len(p) => p \in ToSet(Walk[n].result)
           Good == {n \in Nat : n <= Len(s) =>
                      Typed(n) /\ \A p \in A : IsPrefix(p, s) => Found(n, p)}
<1>8. \A p \in A : IsPrefix(p, s) => /\ p = SubSeq(s, 1, Len(p)) /\ p \in trie.nodes /\ Len(p) > 1
                                     /\ Len(p) \in Nat /\ Len(p) <= Len(s)
                                     /\ \A n \in 1 .. Len(p) : SubSeq(s, 1, n) \in trie.nodes
  <2> SUFFICES ASSUME NEW p \in A, IsPrefix(p, s)
               PROVE  /\ p = SubSeq(s, 1, Len(p)) /\ p \in trie.nodes /\ Len(p) > 1
                      /\ Len(p) \in Nat /\ Len(p) <= Len(s)
                      /\ \A n \in 1 .. Len(p) : SubSeq(s, 1, n) \in trie.nodes
    OBVIOUS
  <2>1. p \in Seq(T) /\ Len(p) > 1 /\ p # <<>>
    <3>1. p \in Seq(T) /\ Len(p) > 1
      BY DEF Holds
    <3>2. Len(<<>>) = 0
      BY EmptySeq
    <3> QED BY <3>1, <3>2
  <2>2. Len(p) \in Confirmed(trie, s) /\ p = SubSeq(s, 1, Len(p))
    BY <2>1, ConfirmedFacts
  <2>3. Len(p) \in Nat /\ p \in trie.nodes
    BY <2>1, LenProperties DEF Holds
  <2> QED BY <2>1, <2>2, <2>3 DEF Confirmed, Walked, IsPrefix
<1>9. 0 \in Good
  <2>1. Walk[0].partial = <<>> /\ Walk[0].isSymbol = FALSE /\ Walk[0].result = <<>>
    BY <1>6
  <2>2. <<>> \in Seq(T) /\ <<>> \in Seq(A)
    OBVIOUS
  <2>3. SubSeq(s, 1, 0) = <<>>
    BY SubSeqEmpty
  <2>4. ASSUME NEW p \in A, IsPrefix(p, s) PROVE Found(0, p)
    <3>1. ~(0 >= Len(p))
      BY <1>8, <2>4
    <3> QED BY <2>1, <2>3, <3>1
  <2> QED BY <2>1, <2>2, <2>4
<1>10. ASSUME NEW n \in Nat, n \in Good PROVE n + 1 \in Good
  <2> SUFFICES ASSUME n + 1 <= Len(s)
               PROVE  Typed(n + 1) /\ \A p \in A : IsPrefix(p, s) => Found(n + 1, p)
    <3> HIDE DEF Typed, Found
    <3> QED OBVIOUS
  <2>0. n <= Len(s) /\ n + 1 \in 1 .. Len(s)
    BY <1>0
  <2>1. Typed(n) /\ \A p \in A : IsPrefix(p, s) => Found(n, p)
    <3> HIDE DEF Typed, Found
    <3> QED BY <1>10, <2>0
  <2> HIDE DEF Good
  <2>2. s[n + 1] \in T
    BY <2>0, ElementOfSeq
  <2> DEFINE longer == Append(Walk[n].partial, s[n + 1])
  <2>3. /\ Typed(n + 1)
        /\ ToSet(Walk[n].result) \subseteq ToSet(Walk[n + 1].result)
        /\ longer \in trie.nodes => Walk[n + 1].partial = longer
        /\ longer \in A => longer \in ToSet(Walk[n + 1].result)
    <3> DEFINE v == Walk[n]
               token == s[n + 1]
               after == PassOn(trie, v, token)
    <3>1. Walk[n + 1] = after
      BY <1>7
    <3>2. v.partial \in Seq(T) /\ v.isSymbol = FALSE /\ v.result \in Seq(A)
      BY <2>1
    <3>3. token \in T
      BY <2>2
    <3> HIDE DEF v, token
    <3>4. /\ after.partial \in Seq(T) /\ after.isSymbol = FALSE /\ after.result \in Seq(A)
          /\ ToSet(v.result) \subseteq ToSet(after.result)
          /\ Append(v.partial, token) \in trie.nodes => after.partial = Append(v.partial, token)
          /\ Append(v.partial, token) \in A => Append(v.partial, token) \in ToSet(after.result)
      <4> HIDE DEF Typed, Found
      <4> QED BY <3>2, <3>3, PassOnFacts
    <3> HIDE DEF after
    <3> QED BY <3>1, <3>4 DEF v, token
  <2>4. ASSUME NEW p \in A, IsPrefix(p, s) PROVE Found(n + 1, p)
    <3>0. /\ Len(p) \in Nat /\ p = SubSeq(s, 1, Len(p))
          /\ \A i \in 1 .. Len(p) : SubSeq(s, 1, i) \in trie.nodes
      BY <1>8, <2>4
    <3>1. Found(n, p)
      BY <2>1, <2>4
    <3>2. CASE n >= Len(p)
      BY <2>3, <3>0, <3>1, <3>2
    <3>3. CASE n < Len(p)
      <4>1. Walk[n].partial = SubSeq(s, 1, n)
        BY <3>0, <3>1, <3>3
      <4>2. longer = SubSeq(s, 1, n + 1)
        <5>1. SubSeq(s, 1, n + 1) = SubSeq(s, 1, n) \o <<s[n + 1]>>
          <6>1. 1 \in 1 .. Len(s) /\ n + 1 \in 1 .. Len(s) /\ (n + 1) - 1 = n
            BY <2>0
          <6> QED BY <6>1, SubSeqRecursiveSecond
        <5>2. longer = SubSeq(s, 1, n) \o <<s[n + 1]>>
          BY <2>1, <2>2, <4>1, AppendIsConcat
        <5> QED BY <5>1, <5>2
      <4>3. longer \in trie.nodes
        BY <3>0, <3>3, <4>2
      <4>4. Walk[n + 1].partial = SubSeq(s, 1, n + 1)
        BY <2>3, <4>2, <4>3
      <4>5. ASSUME n + 1 >= Len(p) PROVE p \in ToSet(Walk[n + 1].result)
        <5>1. n + 1 = Len(p)
          <6>1. Len(p) \in Nat
            BY <3>0
          <6> QED BY <3>3, <4>5, <6>1
        <5>2. longer = p
          BY <3>0, <4>2, <5>1
        <5> QED BY <2>3, <5>2
      <4> QED BY <4>4, <4>5
    <3> QED BY <3>0, <3>2, <3>3
  <2> QED BY <2>3, <2>4
<1>11. \A n \in Nat : n \in Good
  <2> HIDE DEF Good
  <2> QED BY <1>9, <1>10, SimpleInduction
<1>12. Typed(Len(s)) /\ \A p \in A : IsPrefix(p, s) => Found(Len(s), p)
  BY <1>0, <1>11
<1>13. ToSet(Walk[Len(s)].result) \subseteq A
  <2>1. \A i \in DOMAIN Walk[Len(s)].result : Walk[Len(s)].result[i] \in A
    BY <1>12, LenProperties, ElementOfSeq
  <2> QED BY <2>1 DEF ToSet
<1>14. ASSUME NEW p \in A, IsPrefix(p, s) PROVE p \in ToSet(Walk[Len(s)].result)
  BY <1>0, <1>8, <1>12, <1>14
<1> QED BY <1>1, <1>13, <1>14

-----------------------------------------------------------------------------
\* The constructor's loop over the symbols of a level, in whatever order, leaves a
\* trie that holds them all and nothing else.
LEMMA TrieOfHolds ==
  ASSUME NEW T, NEW S \in SUBSET Seq(T), IsFiniteSet(S)
  PROVE  Holds(TrieOf(S), T, S)
<1> DEFINE First(s) == CHOOSE x \in s : TRUE
           Rest(s) == s \ {First(s)}
           Body(g, s) == IF s = {} THEN EmptyTrie ELSE Add(g[Rest(s)], First(s))
           UpTo(n) == {s \in SUBSET S : Cardinality(s) <= n}
           Sizes == {n \in Nat : \E g : g = [s \in UpTo(n) |-> Body(g, s)]}
<1>1. \A s \in SUBSET S : IsFiniteSet(s) /\ Cardinality(s) \in Nat
  BY FS_Subset, FS_CardinalityType
<1>2. ASSUME NEW s \in SUBSET S, s # {}
      PROVE  /\ First(s) \in s /\ Rest(s) \in SUBSET S
             /\ Cardinality(Rest(s)) = Cardinality(s) - 1
  <2>1. First(s) \in s
    BY <1>2
  <2> HIDE DEF First
  <2>2. Cardinality(Rest(s)) = IF First(s) \in s THEN Cardinality(s) - 1 ELSE Cardinality(s)
    BY <1>1, FS_RemoveElement
  <2> QED BY <2>1, <2>2
<1> HIDE DEF First, Rest
<1>3. 0 \in Sizes
  <2> DEFINE g == [s \in UpTo(0) |-> EmptyTrie]
  <2>1. \A s \in UpTo(0) : s = {}
    <3>1. \A s \in UpTo(0) : Cardinality(s) = 0
      BY <1>1
    <3> QED BY <1>1, <3>1, FS_EmptySet
  <2>2. g = [s \in UpTo(0) |-> Body(g, s)]
    BY <2>1
  <2> QED BY <2>2
<1>4. ASSUME NEW n \in Nat, n \in Sizes PROVE n + 1 \in Sizes
  <2>1. PICK g : g = [s \in UpTo(n) |-> Body(g, s)]
    BY <1>4
  <2> DEFINE h == [s \in UpTo(n + 1) |-> Body(g, s)]
  <2>2. ASSUME NEW s \in UpTo(n + 1) PROVE Body(h, s) = Body(g, s)
    <3>1. CASE s = {}
      BY <3>1
    <3>2. CASE s # {}
      <4>1. Rest(s) \in UpTo(n) /\ Rest(s) \in UpTo(n + 1)
        BY <1>1, <1>2, <2>2, <3>2
      <4>2. h[Rest(s)] = Body(g, Rest(s)) /\ g[Rest(s)] = Body(g, Rest(s))
        BY <2>1, <4>1
      <4>3. h[Rest(s)] = g[Rest(s)]
        BY <4>2
      <4> HIDE DEF h
      <4> QED BY <3>2, <4>3
    <3> QED BY <3>1, <3>2
  <2>3. h = [s \in UpTo(n + 1) |-> Body(h, s)]
    BY <2>2
  <2> HIDE DEF h, Body, UpTo
  <2>4. n + 1 \in Nat /\ \E f : f = [s \in UpTo(n + 1) |-> Body(f, s)]
    BY <2>3
  <2> QED BY <2>4
<1>5. \A n \in Nat : n \in Sizes
  <2> HIDE DEF Sizes
  <2> QED BY <1>3, <1>4, SimpleInduction
<1> DEFINE iter == CHOOSE g : g = [s \in SUBSET S |-> Body(g, s)]
<1>6. iter = [s \in SUBSET S |-> Body(iter, s)]
  <2>1. UpTo(Cardinality(S)) = SUBSET S
    BY <1>1, FS_Subset
  <2>2. \E g : g = [s \in UpTo(Cardinality(S)) |-> Body(g, s)]
    BY <1>1, <1>5
  <2> HIDE DEF Body, UpTo
  <2> QED BY <2>1, <2>2
<1>7. TrieOf(S) = iter[S]
  BY DEF TrieOf, FoldSet, MapThenFoldSet, First, Rest
<1> HIDE DEF iter, Sizes
<1> DEFINE Good == {n \in Nat : \A s \in SUBSET S : Cardinality(s) = n => Holds(iter[s], T, s)}
<1>8. 0 \in Good
  <2> SUFFICES ASSUME NEW s \in SUBSET S, Cardinality(s) = 0 PROVE Holds(iter[s], T, s)
    OBVIOUS
  <2>1. s = {}
    BY <1>1, FS_EmptySet
  <2>2. iter[s] = EmptyTrie
    BY <1>6, <2>1
  <2> QED BY <2>1, <2>2, EmptyTrieHolds
<1>9. ASSUME NEW n \in Nat, n \in Good PROVE n + 1 \in Good
  <2> SUFFICES ASSUME NEW s \in SUBSET S, Cardinality(s) = n + 1 PROVE Holds(iter[s], T, s)
    OBVIOUS
  <2>1. s # {}
    <3>1. n + 1 # 0
      OBVIOUS
    <3> QED BY <3>1, FS_EmptySet
  <2>2. /\ First(s) \in s /\ First(s) \in Seq(T) /\ Rest(s) \in SUBSET S
        /\ Cardinality(Rest(s)) = n
    BY <1>1, <1>2, <2>1
  <2>3. Holds(iter[Rest(s)], T, Rest(s))
    BY <1>9, <2>2
  <2>4. iter[s] = Add(iter[Rest(s)], First(s))
    BY <1>6, <2>1
  <2>5. Rest(s) \cup {First(s)} = s
    BY <2>2 DEF Rest
  <2> QED BY <2>2, <2>3, <2>4, <2>5, AddHolds
<1>10. \A n \in Nat : n \in Good
  <2> HIDE DEF Good
  <2> QED BY <1>8, <1>9, SimpleInduction
<1>11. Holds(iter[S], T, S)
  BY <1>1, <1>10
<1> QED BY <1>7, <1>11
\* The two tries of an organizer, over any tokens that include the words.
LEMMA WordTrieHolds ==
  ASSUME NEW T, Words \subseteq T
  PROVE  Holds(WordTrie, T, {<<w>> : w \in Words})
<1> DEFINE S == {<<w>> : w \in Words}
<1>1. S \in SUBSET Seq(T)
  <2>1. ASSUME NEW w \in Words PROVE <<w>> \in Seq(T)
    BY <2>1
  <2> QED BY <2>1
<1>2. IsFiniteSet(S)
  <2> DEFINE f == [w \in Words |-> <<w>>]
  <2>1. f \in Surjection(Words, S)
    BY DEF Surjection
  <2> QED BY <2>1, FS_Surjection, OrganizerAssumption
<1> HIDE DEF S
<1>3. Holds(TrieOf(S), T, S)
  BY <1>1, <1>2, TrieOfHolds
<1> QED BY <1>3 DEF WordTrie, S

LEMMA PhraseTrieHolds ==
  ASSUME NEW T, Phrases \in SUBSET Seq(T)
  PROVE  Holds(PhraseTrie, T, Phrases)
BY TrieOfHolds, OrganizerAssumption DEF PhraseTrie

-----------------------------------------------------------------------------
\* A non-empty sequence begins the rest of a sentence where it occurs in it.
LEMMA PrefixOfRest ==
  ASSUME NEW T, NEW s \in Seq(T), NEW k \in Nat, NEW p \in Seq(T), p # <<>>
  PROVE  IsPrefix(p, SubSeq(s, k + 1, Len(s))) <=> StandsAt(s, k, p)
<1> DEFINE rest == SubSeq(s, k + 1, Len(s))
<1>1. Len(s) \in Nat /\ Len(p) \in Nat \ {0} /\ SubSeq(p, 1, Len(p)) = p
  BY EmptySeq, LenProperties, SubSeqFull
<1>2. CASE k >= Len(s)
  <2>1. rest = <<>>
    BY <1>1, <1>2, SubSeqEmpty
  <2>2. ~IsPrefix(p, rest)
    <3>1. Len(rest) = 0
      BY <2>1, EmptySeq
    <3> HIDE DEF rest
    <3> QED BY <1>1, <3>1 DEF IsPrefix
  <2> QED BY <1>1, <1>2, <2>2 DEF StandsAt
<1>3. CASE k < Len(s)
  <2>1. rest \in Seq(T) /\ Len(rest) = Len(s) - k
    BY <1>1, <1>3, SubSeqProperties
  <2>2. ASSUME k + Len(p) <= Len(s)
        PROVE  SubSeq(rest, 1, Len(p)) = SubSeq(s, k + 1, k + Len(p))
    <3>1. /\ k + 1 \in 1 .. Len(s) /\ Len(s) \in 1 .. Len(s)
          /\ 1 \in 1 .. (Len(s) - (k + 1) + 1) /\ Len(p) \in 1 .. (Len(s) - (k + 1) + 1)
          /\ (k + 1) + 1 - 1 = k + 1 /\ (k + 1) + Len(p) - 1 = k + Len(p)
      BY <1>1, <1>3, <2>2
    <3> QED BY <3>1, SubSeqOfSubSeq
  <2> HIDE DEF rest
  <2>3. IsPrefix(p, rest) <=> StandsAt(s, k, p)
    <3>1. Len(p) <= Len(rest) <=> k + Len(p) <= Len(s)
      BY <1>1, <2>1
    <3> QED BY <1>1, <2>2, <3>1 DEF IsPrefix, StandsAt
  <2> QED BY <2>3 DEF rest
<1> QED BY <1>1, <1>2, <1>3

\* What is matched at a position is the longest symbol that occurs there.
LEMMA MatchFacts ==
  ASSUME NEW T, NEW A, NEW trie, Holds(trie, T, A), NEW s \in Seq(T), NEW k \in Nat
  PROVE  LET m == Match(trie, s, k)
         IN  /\ m \in A \cup {None} /\ m \in Seq(T)
             /\ m # None => StandsAt(s, k, m)
             /\ \A p \in A \ {None} : StandsAt(s, k, p) => m # None /\ Len(p) <= Len(m)
<1> DEFINE rest == SubSeq(s, k + 1, Len(s))
           m == FindLongest(trie, rest)
<1>1. Len(s) \in Nat /\ A \in SUBSET Seq(T)
  BY LenProperties DEF Holds
<1>2. rest \in Seq(T)
  <2>1. \A i \in (k + 1) .. Len(s) : s[i] \in T
    BY <1>1, ElementOfSeq
  <2> QED BY <1>1, <2>1, SubSeqProperties
<1>3. /\ m # <<>> => m \in A /\ IsPrefix(m, rest)
      /\ \A p \in A \ {<<>>} : IsPrefix(p, rest) => m # <<>> /\ Len(p) <= Len(m)
  <2> HIDE DEF rest
  <2> QED BY <1>2, FindLongestFacts
<1>4. Match(trie, s, k) = m
  BY DEF Match
<1>5. ASSUME NEW p \in A \ {<<>>} PROVE IsPrefix(p, rest) <=> StandsAt(s, k, p)
  BY <1>1, PrefixOfRest
<1> HIDE DEF m, rest
<1>6. <<>> \in Seq(T)
  OBVIOUS
<1> QED BY <1>1, <1>3, <1>4, <1>5, <1>6 DEF None

\* The scan always moves on.
LEMMA StrideFacts ==
  ASSUME NEW T, NEW A, NEW trie, Holds(trie, T, A), NEW s \in Seq(T), NEW k \in Nat
  PROVE  Stride(trie, s, k) \in Nat \ {0}
<1>1. Match(trie, s, k) \in Seq(T)
  BY MatchFacts
<1>2. Match(trie, s, k) # None => Len(Match(trie, s, k)) \in Nat \ {0}
  BY <1>1, EmptySeq DEF None
<1> QED BY <1>2 DEF Stride

-----------------------------------------------------------------------------
LEMMA PositionFacts ==
  Positions \in SUBSET Nat /\ 0 \in Positions
    /\ \A k \in Positions : \A j \in Nat : j <= k => j \in Positions
BY OrganizerAssumption DEF Positions

\* The scan begins at the first position, and gets to another one from one that
\* it has looked at.
LEMMA VisitedFacts ==
  ASSUME NEW trie, NEW s
  PROVE  /\ Visited(trie, s) \in SUBSET Positions
         /\ \A k \in Positions :
              k \in Visited(trie, s) <=>
                \/ k = 0
                \/ \E j \in Visited(trie, s) : j < k /\ j + Stride(trie, s, j) = k
<1> DEFINE St(j) == Stride(trie, s, j)
           Body(v, k) == k = 0 \/ \E j \in 0 .. (k - 1) : v[j] /\ j + St(j) = k
           Sizes == {n \in Nat : \E v : v = [k \in 0 .. (n - 1) |-> Body(v, k)]}
           visited == CHOOSE v : v = [k \in Positions |-> Body(v, k)]
<1>1. Visited(trie, s) = {k \in Positions : visited[k]}
  BY DEF Visited
<1> HIDE DEF St
<1>2. 0 \in Sizes
  <2> DEFINE v == [k \in 0 .. (0 - 1) |-> TRUE]
  <2>1. v = [k \in 0 .. (0 - 1) |-> Body(v, k)]
    <3>1. 0 .. (0 - 1) = {}
      OBVIOUS
    <3> QED BY <3>1
  <2> HIDE DEF v, Body
  <2> QED BY <2>1
<1>3. ASSUME NEW n \in Nat, n \in Sizes PROVE n + 1 \in Sizes
  <2>1. PICK v : v = [k \in 0 .. (n - 1) |-> Body(v, k)]
    BY <1>3
  <2> DEFINE h == [k \in 0 .. n |-> Body(v, k)]
  <2>2. ASSUME NEW k \in 0 .. n, NEW j \in 0 .. (k - 1) PROVE h[j] = v[j]
    <3>1. j \in 0 .. n /\ j \in 0 .. (n - 1)
      BY <1>3, <2>2
    <3> HIDE DEF Body
    <3>2. h[j] = Body(v, j)
      BY <3>1
    <3>3. v[j] = Body(v, j)
      BY <2>1, <3>1, Zenon
    <3> QED BY <3>2, <3>3
  <2>3. ASSUME NEW k \in 0 .. n PROVE Body(h, k) = Body(v, k)
    <3> HIDE DEF h
    <3> QED BY <2>2, <2>3, Zenon
  <2>4. h = [k \in 0 .. n |-> Body(h, k)]
    <3>1. h = [k \in 0 .. n |-> Body(v, k)]
      OBVIOUS
    <3> HIDE DEF h, Body
    <3> QED BY <2>3, <3>1, Zenon
  <2> HIDE DEF h, Body
  <2>5. n + 1 \in Nat /\ (n + 1) - 1 = n
    OBVIOUS
  <2> QED BY <2>4, <2>5
<1>4. \A n \in Nat : n \in Sizes
  <2> HIDE DEF Sizes
  <2> QED BY <1>2, <1>3, SimpleInduction
<1>5. visited = [k \in Positions |-> Body(visited, k)]
  <2>1. NumWordModules \in Sizes
    BY <1>4, OrganizerAssumption
  <2>2. \E v : v = [k \in Positions |-> Body(v, k)]
    BY <2>1 DEF Positions
  <2> HIDE DEF Body
  <2> QED BY <2>2
<1> HIDE DEF visited, Sizes
<1>6. \A k \in Positions : visited[k] = Body(visited, k)
  <2> HIDE DEF Body
  <2> QED BY <1>5, Zenon
<1>7. ASSUME NEW k \in Positions
      PROVE  k \in Visited(trie, s) <=>
               k = 0 \/ \E j \in Visited(trie, s) : j < k /\ j + St(j) = k
  <2>1. \A j : j \in 0 .. (k - 1) <=> j \in Positions /\ j < k
    BY OrganizerAssumption DEF Positions
  <2> QED BY <1>1, <1>6, <2>1, Zenon
<1> QED BY <1>1, <1>7 DEF St

\* What the scan removes at one position reaches the next one it looks at, and
\* these stretches cover the level.
LEMMA ScanFacts ==
  ASSUME NEW T, NEW A, NEW trie, Holds(trie, T, A), NEW s \in Seq(T)
  PROVE  /\ \A j, k \in Visited(trie, s) : j < k => j + Stride(trie, s, j) <= k
         /\ \A k \in Positions : \E j \in Visited(trie, s) :
              j <= k /\ k < j + Stride(trie, s, j)
<1> DEFINE V == Visited(trie, s)
           St(j) == Stride(trie, s, j)
<1>1. /\ V \in SUBSET Positions /\ V \in SUBSET Nat /\ 0 \in V
      /\ \A k \in Positions : k \in V <=> k = 0 \/ \E j \in V : j < k /\ j + St(j) = k
  BY VisitedFacts, PositionFacts
<1>2. \A k \in V : St(k) \in Nat \ {0}
  BY <1>1, StrideFacts
<1> HIDE DEF V, St
<1> DEFINE Apart == {k \in Nat : k \in V => \A j \in V : j < k => j + St(j) <= k}
<1>3. ASSUME NEW k \in Nat, \A m \in Nat : m < k => m \in Apart PROVE k \in Apart
  <2> SUFFICES ASSUME k \in V, NEW j \in V, j < k PROVE j + St(j) <= k
    OBVIOUS
  <2>0. k # 0 /\ j \in Nat /\ St(j) \in Nat
    BY <1>1, <1>2
  <2>1. PICK i \in V : i < k /\ i + St(i) = k
    BY <1>1, <2>0
  <2>2. i \in Nat /\ St(i) \in Nat /\ i \in Apart /\ j \in Apart
    BY <1>1, <1>2, <1>3, <2>1
  <2>3. CASE i = j
    BY <2>1, <2>3, <2>0
  <2>4. CASE j < i
    BY <2>0, <2>1, <2>2, <2>4
  <2>5. CASE i < j
    BY <2>0, <2>1, <2>2, <2>5
  <2> QED BY <2>0, <2>2, <2>3, <2>4, <2>5
<1>4. \A k \in Nat : k \in Apart
  <2> HIDE DEF Apart
  <2> QED BY <1>3, CompleteInduction
<1>5. \A j, k \in V : j < k => j + St(j) <= k
  BY <1>1, <1>4
<1>6. ASSUME NEW k \in Positions PROVE \E j \in V : j <= k /\ k < j + St(j)
  <2> DEFINE Before == {j \in V : j <= k}
  <2>1. k \in Nat /\ Before \in SUBSET (0 .. k) /\ Before # {}
    <3>1. k \in Nat /\ 0 <= k /\ V \in SUBSET Nat
      BY <1>1, PositionFacts
    <3>2. 0 \in Before
      BY <1>1, <3>1
    <3>3. ASSUME NEW j \in Before PROVE j \in 0 .. k
      <4>1. j \in Nat /\ j <= k
        BY <3>1
      <4> QED BY <3>1, <4>1
    <3> HIDE DEF Before
    <3> QED BY <3>1, <3>2, <3>3
  <2>2. PICK j \in Before : \A m \in Before : m <= j
    BY <2>1, GreatestNatural
  <2>3. j \in V /\ j \in Nat /\ j <= k /\ St(j) \in Nat \ {0}
    BY <1>1, <1>2
  <2>4. ASSUME j + St(j) <= k PROVE FALSE
    <3>1. j + St(j) \in Positions /\ j < j + St(j)
      BY <2>1, <2>3, <2>4, PositionFacts
    <3>2. j + St(j) \in V
      BY <1>1, <2>3, <3>1
    <3>3. j + St(j) <= j
      BY <2>2, <2>4, <3>2
    <3> QED BY <2>3, <3>3
  <2> QED BY <2>1, <2>3, <2>4
<1> QED BY <1>5, <1>6 DEF V, St

-----------------------------------------------------------------------------
\* The layout of a level: symbols sit where they occur, do not overlap, and one
\* that occurs is only passed over for one that covers its first element.
LEMMA LevelFacts ==
  ASSUME NEW T, NEW A, NEW trie, Holds(trie, T, A), NEW s \in Seq(T)
  PROVE  LET level == Level(trie, s)
         IN  /\ \A k \in Positions :
                  /\ level[k] \in A \cup {None} /\ level[k] \in Seq(T)
                  /\ level[k] # None => StandsAt(s, k, level[k])
             /\ \A k, l \in Positions :
                  level[k] # None /\ level[l] # None /\ k < l => k + Len(level[k]) <= l
             /\ \A k \in Positions, p \in A \ {None} :
                  StandsAt(s, k, p) =>
                    \E j \in 0 .. k : /\ level[j] # None /\ k < j + Len(level[j])
                                      /\ j = k => Len(p) <= Len(level[j])
<1> DEFINE V == Visited(trie, s)
           M(j) == Match(trie, s, j)
           level == Level(trie, s)
<1>1. V \in SUBSET Positions /\ Positions \in SUBSET Nat
  BY VisitedFacts, PositionFacts
<1>2. \A k \in Positions : level[k] = IF k \in V THEN M(k) ELSE None
  BY DEF Level
<1>3. /\ \A j, k \in V : j < k => j + Stride(trie, s, j) <= k
      /\ \A k \in Positions : \E j \in V : j <= k /\ k < j + Stride(trie, s, j)
  BY ScanFacts
<1>4. \A j \in Nat : Stride(trie, s, j) = IF M(j) = None THEN 1 ELSE Len(M(j))
  BY DEF Stride
<1>5. ASSUME NEW j \in Nat
      PROVE  /\ M(j) \in A \cup {None} /\ M(j) \in Seq(T)
             /\ M(j) # None => StandsAt(s, j, M(j))
             /\ \A p \in A \ {None} : StandsAt(s, j, p) => M(j) # None /\ Len(p) <= Len(M(j))
  BY MatchFacts
<1> HIDE DEF V, M, level
<1>6. None \in Seq(T)
  BY DEF None
<1>7. ASSUME NEW k \in Positions
      PROVE  /\ level[k] \in A \cup {None} /\ level[k] \in Seq(T)
             /\ level[k] # None => StandsAt(s, k, level[k])
  <2>1. CASE k \in V
    <3>1. level[k] = M(k) /\ k \in Nat
      BY <1>1, <1>2, <2>1
    <3>2. M(k) \in A \cup {None} /\ M(k) \in Seq(T) /\ (M(k) # None => StandsAt(s, k, M(k)))
      BY <1>5, <3>1
    <3> QED BY <3>1, <3>2
  <2>2. CASE k \notin V
    BY <1>2, <1>6, <2>2
  <2> QED BY <2>1, <2>2
<1>8. ASSUME NEW k \in Positions, NEW l \in Positions,
             level[k] # None, level[l] # None, k < l
      PROVE  k + Len(level[k]) <= l
  BY <1>1, <1>2, <1>3, <1>4, <1>8
<1>9. ASSUME NEW k \in Positions, NEW p \in A \ {None}, StandsAt(s, k, p)
      PROVE  \E j \in 0 .. k : /\ level[j] # None /\ k < j + Len(level[j])
                               /\ j = k => Len(p) <= Len(level[j])
  <2>1. PICK j \in V : j <= k /\ k < j + Stride(trie, s, j)
    BY <1>3
  <2>2. j \in Positions /\ j \in 0 .. k /\ k \in Nat /\ level[j] = M(j)
    BY <1>1, <1>2, <2>1
  <2>3. CASE j = k
    <3>1. M(j) # None /\ Len(p) <= Len(M(j))
      <4>1. \A q \in A \ {None} : StandsAt(s, j, q) => M(j) # None /\ Len(q) <= Len(M(j))
        BY <1>5, <2>2
      <4> QED BY <1>9, <2>3, <4>1
    <3> QED BY <1>4, <2>1, <2>2, <3>1
  <2>4. CASE j # k
    <3>1. Stride(trie, s, j) # 1
      BY <2>1, <2>2, <2>4
    <3> QED BY <1>4, <2>1, <2>2, <2>4, <3>1
  <2> QED BY <2>3, <2>4
<1> QED BY <1>7, <1>8, <1>9 DEF level

\* On a level of single words every position shows its own one.
LEMMA SingleWordLevel ==
  ASSUME NEW T, NEW W \in SUBSET T, NEW A, A = {<<w>> : w \in W},
         NEW trie, Holds(trie, T, A), NEW s \in Seq(T), NEW k \in Positions
  PROVE  Level(trie, s)[k] = IF k < Len(s) /\ s[k + 1] \in W THEN <<s[k + 1]>> ELSE None
<1> DEFINE level == Level(trie, s)
<1>1. /\ \A j \in Positions : /\ level[j] \in A \cup {None}
                              /\ level[j] # None => StandsAt(s, j, level[j])
      /\ \A p \in A \ {None} :
           StandsAt(s, k, p) =>
             \E j \in 0 .. k : level[j] # None /\ k < j + Len(level[j])
  BY LevelFacts
<1>2. k \in Nat /\ Len(s) \in Nat /\ \A j \in 0 .. k : j \in Positions
  BY PositionFacts, LenProperties
<1>3. \A p \in A : Len(p) = 1 /\ p # None /\ p = <<p[1]>> /\ p[1] \in W
  BY DEF None
<1>4. ASSUME NEW j \in Nat, j < Len(s)
      PROVE  SubSeq(s, j + 1, j + 1) = <<s[j + 1]>>
  <2>1. j + 1 \in 1 .. Len(s) /\ j + 1 \in (j + 1) .. Len(s) /\ j + 1 \in Int
    BY <1>2, <1>4
  <2>2. s[j + 1] \in T
    BY <2>1, ElementOfSeq
  <2> DEFINE q == SubSeq(s, j + 1, j + 1)
  <2>3. q \in Seq(T) /\ Len(q) = 1 /\ q[1] = s[j + 1]
    <3>1. \A i \in (j + 1) .. (j + 1) : s[i] \in T
      BY <2>2
    <3>2. /\ q \in Seq(T)
          /\ Len(q) = IF j + 1 <= j + 1 THEN (j + 1) - (j + 1) + 1 ELSE 0
          /\ \A i \in 1 .. ((j + 1) - (j + 1) + 1) : q[i] = s[j + 1 + i - 1]
      BY <2>1, <3>1, SubSeqProperties
    <3> HIDE DEF q
    <3>3. (j + 1) - (j + 1) + 1 = 1 /\ j + 1 + 1 - 1 = j + 1
      OBVIOUS
    <3> QED BY <3>2, <3>3
  <2> HIDE DEF q
  <2>4. q = <<s[j + 1]>>
    BY <2>3
  <2> QED BY <2>4 DEF q
<1> HIDE DEF level
<1>5. ASSUME level[k] # None
      PROVE  k < Len(s) /\ s[k + 1] \in W /\ level[k] = <<s[k + 1]>>
  <2>1. level[k] \in A /\ StandsAt(s, k, level[k])
    BY <1>1, <1>5
  <2>2. Len(level[k]) = 1 /\ level[k] = <<level[k][1]>> /\ level[k][1] \in W
    BY <1>3, <2>1
  <2>3. k < Len(s) /\ SubSeq(s, k + 1, k + 1) = level[k]
    BY <1>2, <2>1, <2>2 DEF StandsAt
  <2>4. level[k] = <<s[k + 1]>>
    BY <1>2, <1>4, <2>3
  <2> QED BY <2>2, <2>3, <2>4
<1>6. ASSUME k < Len(s), s[k + 1] \in W PROVE level[k] # None
  <2> DEFINE p == <<s[k + 1]>>
  <2>1. p \in A \ {None}
    BY <1>6 DEF None
  <2>2. StandsAt(s, k, p)
    BY <1>2, <1>4, <1>6 DEF StandsAt
  <2>3. PICK j \in 0 .. k : level[j] # None /\ k < j + Len(level[j])
    BY <1>1, <2>1, <2>2
  <2>4. Len(level[j]) = 1
    BY <1>1, <1>2, <1>3, <2>3
  <2>5. j = k
    BY <1>2, <2>3, <2>4
  <2> QED BY <2>3, <2>5
<1> QED BY <1>5, <1>6 DEF level

-----------------------------------------------------------------------------
\* Where a sequence stands in what is put together from it.
LEMMA StandsInside ==
  ASSUME NEW T, NEW a \in Seq(T), NEW p \in Seq(T), p # <<>>, NEW f \in Continuations(T, a \o p)
  PROVE  f \in Seq(T) /\ StandsAt(f, Len(a), p)
<1>1. PICK t \in Seq(T) : f = (a \o p) \o t
  BY DEF Continuations
<1> DEFINE ap == a \o p
           l == Len(a)
           m == Len(p)
<1>2. l \in Nat /\ m \in Nat \ {0} /\ Len(t) \in Nat
  BY LenProperties, EmptySeq
<1>3. ap \in Seq(T) /\ Len(ap) = l + m
  BY ConcatProperties
<1>4. f \in Seq(T) /\ Len(f) = l + m + Len(t)
  <2> HIDE DEF ap
  <2>1. ap \o t \in Seq(T) /\ Len(ap \o t) = Len(ap) + Len(t)
    BY <1>3, ConcatProperties
  <2> QED BY <1>1, <1>3, <2>1 DEF ap
<1>5. SubSeq(f, l + 1, l + m) = SubSeq(ap, l + 1, l + m)
  <2> DEFINE i == l + 1
             j == l + m
  <2>1. i \in 1 .. Len(ap) /\ j \in 1 .. Len(ap)
    BY <1>2, <1>3
  <2> HIDE DEF ap, i, j
  <2>2. SubSeq(ap \o t, i, j) = SubSeq(ap, i, j)
    BY <1>3, <2>1, SubSeqOfConcat1
  <2> QED BY <1>1, <2>2 DEF ap, i, j
<1>6. SubSeq(ap, l + 1, l + m) = SubSeq(p, 1, m)
  <2>1. l + 1 \in (l + 1) .. (l + m) /\ l + m \in (l + 1) .. (l + m)
        /\ (l + 1) - l = 1 /\ (l + m) - l = m
    BY <1>2
  <2>2. SubSeq(ap, l + 1, l + m) = SubSeq(p, (l + 1) - l, (l + m) - l)
    BY <2>1, SubSeqOfConcat2
  <2> QED BY <2>1, <2>2
<1>7. SubSeq(p, 1, m) = p
  BY SubSeqFull
<1>8. l + m <= Len(f) /\ SubSeq(f, l + 1, l + m) = p
  <2> HIDE DEF l, m, ap
  <2>1. l + m <= Len(f)
    BY <1>2, <1>4
  <2>2. SubSeq(f, l + 1, l + m) = p
    BY <1>5, <1>6, <1>7, Zenon
  <2> QED BY <2>1, <2>2
<1> HIDE DEF l, m
<1> QED BY <1>4, <1>8 DEF StandsAt, l, m

LEMMA StandsBehind ==
  ASSUME NEW T, NEW s \in Seq(T), NEW f \in Seq(T), NEW k \in Nat,
         NEW p \in Seq(T), p # <<>>, StandsAt(f, k, p)
  PROVE  StandsAt(s \o f, Len(s) + k, p)
<1> DEFINE l == Len(s)
           m == Len(p)
           i == l + k + 1
           j == l + k + m
<1>1. l \in Nat /\ m \in Nat \ {0} /\ Len(f) \in Nat /\ Len(s \o f) = l + Len(f)
  BY LenProperties, EmptySeq, ConcatProperties
<1>2. k + m <= Len(f) /\ SubSeq(f, k + 1, k + m) = p
  BY DEF StandsAt
<1>3. /\ i \in (l + 1) .. (l + Len(f)) /\ j \in (l + 1) .. (l + Len(f))
      /\ i - l = k + 1 /\ j - l = k + m
  BY <1>1, <1>2
<1> HIDE DEF i, j
<1>4. SubSeq(s \o f, i, j) = SubSeq(f, i - l, j - l)
  BY <1>3, SubSeqOfConcat2
<1>5. SubSeq(s \o f, i, j) = p /\ l + k + m <= Len(s \o f)
  BY <1>1, <1>2, <1>3, <1>4
<1> QED BY <1>5 DEF StandsAt, i, j

-----------------------------------------------------------------------------
\* What is matched at a position only depends on as many elements as the longest
\* symbol has.
LEMMA MatchSettled ==
  ASSUME NEW T, NEW A, NEW trie, Holds(trie, T, A),
         NEW n \in Nat, \A p \in A : Len(p) <= n,
         NEW s \in Seq(T), NEW t \in Seq(T), NEW k \in Nat, k + n <= Len(s)
  PROVE  Match(trie, s \o t, k) = Match(trie, s, k)
<1> DEFINE m == Match(trie, s, k)
           l == Match(trie, s \o t, k)
<1>1. s \o t \in Seq(T) /\ Len(s \o t) = Len(s) + Len(t) /\ Len(s) \in Nat /\ Len(t) \in Nat
  BY ConcatProperties, LenProperties
<1>2. ASSUME NEW p \in A \ {None}
      PROVE  /\ StandsAt(s \o t, k, p) <=> StandsAt(s, k, p)
             /\ Len(p) \in Nat
  <2>1. p \in Seq(T) /\ p # <<>> /\ Len(p) <= n
    BY DEF Holds, None
  <2>2. Len(p) \in Nat \ {0}
    BY <2>1, EmptySeq
  <2>3. k + 1 \in 1 .. Len(s) /\ k + Len(p) \in 1 .. Len(s) /\ k + Len(p) <= Len(s)
    BY <1>1, <2>1, <2>2
  <2>4. SubSeq(s \o t, k + 1, k + Len(p)) = SubSeq(s, k + 1, k + Len(p))
    BY <2>3, SubSeqOfConcat1
  <2> QED BY <1>1, <2>2, <2>3, <2>4 DEF StandsAt
<1>3. /\ m \in A \cup {None} /\ (m # None => StandsAt(s, k, m))
      /\ \A p \in A \ {None} : StandsAt(s, k, p) => m # None /\ Len(p) <= Len(m)
  BY MatchFacts
<1>4. /\ l \in A \cup {None} /\ (l # None => StandsAt(s \o t, k, l))
      /\ \A p \in A \ {None} : StandsAt(s \o t, k, p) => l # None /\ Len(p) <= Len(l)
  BY <1>1, MatchFacts
<1> HIDE DEF m, l
<1>5. m # None <=> l # None
  BY <1>2, <1>3, <1>4
<1>6. ASSUME m # None, l # None PROVE m = l
  <2>1. Len(m) = Len(l)
    BY <1>2, <1>3, <1>4, <1>6
  <2> QED BY <1>2, <1>3, <1>4, <1>6, <2>1 DEF StandsAt
<1>7. m = l
  BY <1>5, <1>6
<1> QED BY <1>7 DEF m, l

\* So the layout of what is followed by that many elements does not change when the
\* sentence grows.
LEMMA LevelSettled ==
  ASSUME NEW T, NEW A, NEW trie, Holds(trie, T, A),
         NEW n \in Nat, \A p \in A : Len(p) <= n,
         NEW s \in Seq(T), NEW t \in Seq(T), NEW k \in Positions, k + n <= Len(s)
  PROVE  Level(trie, s \o t)[k] = Level(trie, s)[k]
<1> DEFINE V == Visited(trie, s)
           W == Visited(trie, s \o t)
           St(j) == Stride(trie, s, j)
           Su(j) == Stride(trie, s \o t, j)
<1>1. k \in Nat /\ \A j \in Nat : j <= k => j \in Positions
  BY PositionFacts
<1>2. Len(s) \in Nat
  BY LenProperties
<1>3. ASSUME NEW j \in Nat, j <= k
      PROVE  Match(trie, s \o t, j) = Match(trie, s, j) /\ Su(j) = St(j)
  <2>1. j + n <= Len(s)
    BY <1>1, <1>2, <1>3
  <2>2. Match(trie, s \o t, j) = Match(trie, s, j)
    BY <2>1, MatchSettled
  <2> QED BY <2>2 DEF Stride
<1>4. /\ V \in SUBSET Nat /\ W \in SUBSET Nat
      /\ \A j \in Positions : j \in V <=> j = 0 \/ \E i \in V : i < j /\ i + St(i) = j
      /\ \A j \in Positions : j \in W <=> j = 0 \/ \E i \in W : i < j /\ i + Su(i) = j
  BY VisitedFacts, PositionFacts
<1> HIDE DEF V, W, St, Su
<1> DEFINE Same == {j \in Nat : j <= k => (j \in V <=> j \in W)}
<1>5. ASSUME NEW j \in Nat, \A i \in Nat : i < j => i \in Same PROVE j \in Same
  <2> SUFFICES ASSUME j <= k PROVE j \in V <=> j \in W
    OBVIOUS
  <2>1. j \in Positions
    BY <1>1
  <2>2. ASSUME NEW i \in Nat, i < j PROVE (i \in V <=> i \in W) /\ Su(i) = St(i)
    <3>1. i <= k
      BY <1>1, <2>2
    <3> QED BY <1>3, <1>5, <2>2, <3>1
  <2>3. (\E i \in V : i < j /\ i + St(i) = j) <=> (\E i \in W : i < j /\ i + Su(i) = j)
    BY <1>4, <2>2
  <2> QED BY <1>4, <2>1, <2>3
<1>6. \A j \in Nat : j \in Same
  <2> HIDE DEF Same
  <2> QED BY <1>5, CompleteInduction
<1>7. k \in V <=> k \in W
  BY <1>1, <1>6
<1> QED BY <1>1, <1>3, <1>7 DEF Level, V, W

=============================================================================
