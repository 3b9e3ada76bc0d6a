--------------------------- MODULE DispatchProofs ---------------------------
(***************************************************************************)
(* Proofs about Dispatch, for any number of handlers and requests.         *)
(*                                                                         *)
(* The worker of a request reads the list several times, and the list      *)
(* changes between the reads. What connects the reads is the sequence      *)
(* steady[r] of the handlers that were there all the while: it is a        *)
(* subsequence of the list at every moment (Within), so the list is never  *)
(* shorter than it and its first handler is never overtaken. Settled says  *)
(* what the worker has made of its reads so far in terms of steady[r].     *)
(***************************************************************************)
EXTENDS Dispatch, SequenceTheorems, TLAPS

-----------------------------------------------------------------------------
\* The handlers of s are in d, in the same order.
Within(s, d) ==
  /\ \A i \in 1 .. Len(s) : \E k \in 1 .. Len(d) : s[i] = d[k]
  /\ \A i, j \in 1 .. Len(s), k, l \in 1 .. Len(d) :
       s[i] = d[k] /\ s[j] = d[l] /\ i < j => k < l

\* If f is in s, then it is the first of s.
Unpassed(f, s) == \A i \in 1 .. Len(s) : s[i] = f => i = 1

\* t is s without e.
Thinned(t, s, e) ==
  /\ Len(t) <= Len(s)
  /\ \A j \in 1 .. Len(t) : \E i \in 1 .. Len(s) : t[j] = s[i]
  /\ \A i \in 1 .. Len(s) : s[i] = e \/ \E j \in 1 .. Len(t) : t[j] = s[i]
  /\ \A i, j \in 1 .. Len(t), k, l \in 1 .. Len(s) :
       t[i] = s[k] /\ t[j] = s[l] => (i < j <=> k < l)

\* What holds of a request r whose worker is at p, for which the handlers st
\* are steady, fi is what First returned, td is to be invoked, iv was invoked
\* and rp is the answer.
Settled(r, p, st, fi, td, iv, rp) ==
  /\ p # "done" => rp = "none"
  /\ p \in {"strategy", "clone", "broadcast", "invoke"} =>
       Len(fi) = 1 /\ Unpassed(fi[1], st)
  /\ p \in {"idle", "first", "strategy", "clone", "invoke"} => iv = <<>>
  /\ p = "invoke" => td = fi /\ (r \in Broadcasts => Len(st) <= 1)
  /\ p \in {"clone", "broadcast"} => r \in Broadcasts
  /\ IsInjective(iv)
  /\ p = "broadcast" =>
       /\ IsInjective(td)
       /\ ToSet(td) \cap ToSet(iv) = {}
       /\ ToSet(st) \subseteq ToSet(td) \cup ToSet(iv)
  /\ p = "done" =>
       /\ rp = "unimplemented" => st = <<>>
       /\ r \notin Broadcasts /\ iv # <<>> =>
            Len(iv) = 1 /\ Unpassed(iv[1], st)
       /\ r \notin Broadcasts /\ rp \in {"ok", "error"} => iv # <<>>
       /\ r \in Broadcasts /\ Len(st) > 1 => ToSet(st) \subseteq ToSet(iv)

ListOK ==
  /\ ToSet(data) \subseteq appended
  /\ \A r \in Requests : IsInjective(steady[r]) /\ Within(steady[r], data)

WorkersOK ==
  \A r \in Requests :
    Settled(r, pc[r], steady[r], first[r], todo[r], invoked[r], reply[r])

\* The inductive invariant.
Coherent == TypeOK /\ ListOK /\ WorkersOK

-----------------------------------------------------------------------------
(***************************************************************************)
(* Lemmas about sequences.                                                 *)
(***************************************************************************)
\* What an injective sequence and the set of its elements are, by index.
LEMMA IndexFacts ==
  ASSUME NEW S, NEW s \in Seq(S)
  PROVE  /\ Len(s) \in Nat
         /\ DOMAIN s = 1 .. Len(s)
         /\ \A i \in 1 .. Len(s) : s[i] \in S
         /\ \A x : x \in ToSet(s) <=> \E i \in 1 .. Len(s) : x = s[i]
         /\ IsInjective(s) <=>
              \A i, j \in 1 .. Len(s) : s[i] = s[j] => i = j
         /\ s = <<>> <=> Len(s) = 0
<1>1. Len(s) \in Nat /\ DOMAIN s = 1 .. Len(s)
  OBVIOUS
<1>2. \A i \in 1 .. Len(s) : s[i] \in S
  OBVIOUS
<1>3. \A x : x \in ToSet(s) <=> \E i \in 1 .. Len(s) : x = s[i]
  BY <1>1, Zenon DEF ToSet
<1>4. IsInjective(s) <=> \A i, j \in 1 .. Len(s) : s[i] = s[j] => i = j
  BY <1>1, Zenon DEF IsInjective
<1>5. s = <<>> <=> Len(s) = 0
  BY EmptySeq
<1>6. QED
  BY <1>1, <1>2, <1>3, <1>4, <1>5

\* Append, by index.
LEMMA AppendFacts ==
  ASSUME NEW S, NEW s \in Seq(S), NEW e \in S
  PROVE  /\ Append(s, e) \in Seq(S)
         /\ Len(Append(s, e)) = Len(s) + 1
         /\ \A i \in 1 .. Len(s) : Append(s, e)[i] = s[i]
         /\ Append(s, e)[Len(s) + 1] = e
OBVIOUS

\* Head and Tail, by index.
LEMMA TailFacts ==
  ASSUME NEW S, NEW s \in Seq(S), s # <<>>
  PROVE  /\ Head(s) \in S /\ Head(s) = s[1]
         /\ Tail(s) \in Seq(S)
         /\ Len(s) \in Nat /\ Len(s) >= 1 /\ Len(Tail(s)) = Len(s) - 1
         /\ \A i \in 1 .. Len(s) - 1 : Tail(s)[i] = s[i + 1]
OBVIOUS

\* slices.Delete of one element.
LEMMA RemoveAtFacts ==
  ASSUME NEW S, NEW s \in Seq(S), NEW i \in 1 .. Len(s)
  PROVE  /\ RemoveAt(s, i) \in Seq(S)
         /\ Len(RemoveAt(s, i)) = Len(s) - 1
         /\ \A j \in 1 .. Len(s) - 1 :
              RemoveAt(s, i)[j] = IF j < i THEN s[j] ELSE s[j + 1]
<1> DEFINE a == SubSeq(s, 1, i - 1)
           b == SubSeq(s, i + 1, Len(s))
<1>0. Len(s) \in Nat
  OBVIOUS
<1>1. a \in Seq(S) /\ Len(a) = i - 1 /\ \A j \in 1 .. i - 1 : a[j] = s[j]
  OBVIOUS
<1>2. /\ b \in Seq(S) /\ Len(b) = Len(s) - i
      /\ \A j \in 1 .. Len(s) - i : b[j] = s[j + i]
  OBVIOUS
<1> HIDE DEF a, b
<1>3. /\ a \o b \in Seq(S) /\ Len(a \o b) = Len(a) + Len(b)
      /\ \A j \in 1 .. Len(a) + Len(b) :
           (a \o b)[j] = IF j <= Len(a) THEN a[j] ELSE b[j - Len(a)]
  BY <1>1, <1>2, ConcatProperties
<1>4. RemoveAt(s, i) = a \o b
  BY DEF RemoveAt, a, b
<1>5. Len(a) + Len(b) = Len(s) - 1
  BY <1>0, <1>1, <1>2
<1>6. ASSUME NEW j \in 1 .. Len(s) - 1
      PROVE  (a \o b)[j] = IF j < i THEN s[j] ELSE s[j + 1]
  <2>1. CASE j < i
    <3>1. j \in 1 .. i - 1 /\ j <= Len(a) /\ j \in 1 .. Len(a) + Len(b)
      BY <1>0, <1>1, <1>5, <2>1
    <3>2. QED
      BY <1>1, <1>3, <2>1, <3>1
  <2>2. CASE ~(j < i)
    <3>1. /\ ~(j <= Len(a)) /\ j \in 1 .. Len(a) + Len(b)
          /\ j - Len(a) = j - i + 1
          /\ j - i + 1 \in 1 .. Len(s) - i /\ (j - i + 1) + i = j + 1
      BY <1>0, <1>1, <1>5, <2>2
    <3>2. QED
      BY <1>2, <1>3, <2>2, <3>1
  <2>3. QED
    BY <2>1, <2>2
<1>7. QED
  BY <1>3, <1>4, <1>5, <1>6

\* slices.Index followed by slices.Delete takes out the one occurrence.
LEMMA RemoveFirstFacts ==
  ASSUME NEW S, NEW s \in Seq(S), NEW e, IsInjective(s)
  PROVE  \/ RemoveFirst(s, e) = s /\ \A i \in 1 .. Len(s) : s[i] # e
         \/ \E i \in 1 .. Len(s) :
              s[i] = e /\ RemoveFirst(s, e) = RemoveAt(s, i)
<1>1. CASE \A i \in 1 .. Len(s) : s[i] # e
  BY <1>1 DEF RemoveFirst
<1>2. ASSUME NEW i \in 1 .. Len(s), s[i] = e
      PROVE  RemoveFirst(s, e) = RemoveAt(s, i)
  <2>1. {j \in 1 .. Len(s) : s[j] = e} = {i}
    BY <1>2 DEF IsInjective
  <2>2. Min({i}) = i
    BY DEF Min
  <2>3. SelectInSeq(s, LAMBDA v : v = e) = i
    BY <2>1, <2>2 DEF SelectInSeq
  <2>4. QED
    BY <1>2, <2>3 DEF RemoveFirst
<1>3. QED
  BY <1>1, <1>2

\* What is left of an injective sequence is injective and keeps its order.
LEMMA RemoveThins ==
  ASSUME NEW S, NEW s \in Seq(S), NEW e, IsInjective(s)
  PROVE  /\ RemoveFirst(s, e) \in Seq(S)
         /\ IsInjective(RemoveFirst(s, e))
         /\ Thinned(RemoveFirst(s, e), s, e)
         /\ e \notin ToSet(RemoveFirst(s, e))
<1> DEFINE t == RemoveFirst(s, e)
<1>0. /\ Len(s) \in Nat
      /\ \A i, j \in 1 .. Len(s) : s[i] = s[j] => i = j
  BY IndexFacts
<1>1. CASE t = s /\ \A i \in 1 .. Len(s) : s[i] # e
  <2>1. t \in Seq(S) /\ IsInjective(t)
    BY <1>1
  <2>2. Thinned(s, s, e)
    BY <1>0 DEF Thinned
  <2>3. e \notin ToSet(s)
    BY <1>1, IndexFacts
  <2>4. QED
    BY <1>1, <2>1, <2>2, <2>3
<1>2. ASSUME NEW i \in 1 .. Len(s), s[i] = e, t = RemoveAt(s, i)
      PROVE  t \in Seq(S) /\ IsInjective(t) /\ Thinned(t, s, e)
             /\ e \notin ToSet(t)
  <2> HIDE DEF t
  <2>1. t \in Seq(S) /\ Len(t) = Len(s) - 1
    BY <1>2, RemoveAtFacts
  <2>2. ASSUME NEW j \in 1 .. Len(t)
        PROVE  j \in Nat /\ j <= Len(s) - 1 /\ j >= 1
               /\ \/ j < i /\ t[j] = s[j] /\ j \in 1 .. Len(s)
                  \/ j >= i /\ t[j] = s[j + 1] /\ j + 1 \in 1 .. Len(s)
    <3>1. t[j] = IF j < i THEN s[j] ELSE s[j + 1]
      BY <1>2, <2>1, RemoveAtFacts
    <3>2. QED
      BY <1>0, <2>1, <3>1
  <2>3. ASSUME NEW j \in 1 .. Len(s), s[j] # e
        PROVE  \E k \in 1 .. Len(t) : t[k] = s[j]
    <3>1. CASE j < i
      <4>1. j \in 1 .. Len(t)
        BY <1>0, <2>1, <3>1
      <4>2. QED
        BY <2>2, <3>1, <4>1
    <3>2. CASE ~(j < i)
      <4>1. j # i
        BY <1>2, <2>3
      <4>2. j - 1 \in 1 .. Len(t) /\ ~(j - 1 < i) /\ (j - 1) + 1 = j
        BY <1>0, <2>1, <3>2, <4>1
      <4>3. QED
        BY <2>2, <4>2
    <3>3. QED
      BY <3>1, <3>2
  <2>4. ASSUME NEW a \in 1 .. Len(t), NEW b \in 1 .. Len(t),
               NEW k \in 1 .. Len(s), NEW l \in 1 .. Len(s),
               t[a] = s[k], t[b] = s[l]
        PROVE  a < b <=> k < l
    <3>1. (a < i /\ k = a) \/ (a >= i /\ k = a + 1)
      <4>1. CASE a < i /\ t[a] = s[a] /\ a \in 1 .. Len(s)
        <5>1. s[a] = s[k]
          BY <2>4, <4>1
        <5>2. a = k
          BY <1>0, <4>1, <5>1, Zenon
        <5>3. QED
          BY <4>1, <5>2
      <4>2. CASE a >= i /\ t[a] = s[a + 1] /\ a + 1 \in 1 .. Len(s)
        <5>1. s[a + 1] = s[k]
          BY <2>4, <4>2
        <5>2. QED
          BY <1>0, <4>2, <5>1
      <4>3. QED
        BY <2>2, <4>1, <4>2
    <3>2. (b < i /\ l = b) \/ (b >= i /\ l = b + 1)
      <4>1. CASE b < i /\ t[b] = s[b] /\ b \in 1 .. Len(s)
        <5>1. s[b] = s[l]
          BY <2>4, <4>1
        <5>2. b = l
          BY <1>0, <4>1, <5>1, Zenon
        <5>3. QED
          BY <4>1, <5>2
      <4>2. CASE b >= i /\ t[b] = s[b + 1] /\ b + 1 \in 1 .. Len(s)
        <5>1. s[b + 1] = s[l]
          BY <2>4, <4>2
        <5>2. QED
          BY <1>0, <4>2, <5>1
      <4>3. QED
        BY <2>2, <4>1, <4>2
    <3>3. a \in Nat /\ b \in Nat /\ i \in Nat
      BY <2>2
    <3>4. QED
      BY <3>1, <3>2, <3>3
  <2>5. \A j \in 1 .. Len(t) : \E k \in 1 .. Len(s) : t[j] = s[k] /\ k # i
    BY <2>2
  <2>6. Thinned(t, s, e)
    BY <1>0, <2>1, <2>3, <2>4, <2>5 DEF Thinned
  <2>7. ASSUME NEW a \in 1 .. Len(t), NEW b \in 1 .. Len(t), t[a] = t[b]
        PROVE  a = b
    <3>1. PICK k \in 1 .. Len(s) : t[a] = s[k]
      BY <2>5
    <3>2. t[b] = s[k] /\ ~(k < k)
      BY <2>7, <3>1
    <3>3. ~(a < b)
      BY <2>4, <3>1, <3>2
    <3>4. ~(b < a)
      BY <2>4, <3>1, <3>2
    <3>5. QED
      BY <2>2, <3>3, <3>4
  <2>8. e \notin ToSet(t)
    <3>1. ASSUME NEW j \in 1 .. Len(t), t[j] = e
          PROVE  FALSE
      BY <1>0, <1>2, <2>5, <3>1
    <3>2. QED
      BY <2>1, <3>1, IndexFacts
  <2>9. IsInjective(t)
    BY <2>1, <2>7, IndexFacts
  <2>10. QED
    BY <2>1, <2>6, <2>8, <2>9
<1>3. QED
  BY <1>1, <1>2, RemoveFirstFacts

-----------------------------------------------------------------------------
(***************************************************************************)
(* Lemmas about the predicates of the invariant.                           *)
(***************************************************************************)
\* Removing one handler from both keeps a subsequence a subsequence.
LEMMA WithinThinned ==
  ASSUME NEW s \in Seq(Handlers), NEW d \in Seq(Handlers), NEW e,
         NEW t \in Seq(Handlers), NEW g \in Seq(Handlers),
         Within(s, d), Thinned(t, s, e), Thinned(g, d, e), e \notin ToSet(t)
  PROVE  Within(t, g)
<1>1. ASSUME NEW i \in 1 .. Len(t)
      PROVE  \E k \in 1 .. Len(g) : t[i] = g[k]
  <2>1. t[i] # e
    BY IndexFacts
  <2>2. PICK j \in 1 .. Len(s) : t[i] = s[j]
    BY DEF Thinned
  <2>3. PICK l \in 1 .. Len(d) : s[j] = d[l]
    BY DEF Within
  <2>4. QED
    BY <2>1, <2>2, <2>3 DEF Thinned
<1>2. ASSUME NEW i \in 1 .. Len(t), NEW j \in 1 .. Len(t),
             NEW k \in 1 .. Len(g), NEW l \in 1 .. Len(g),
             t[i] = g[k], t[j] = g[l], i < j
      PROVE  k < l
  <2>1. PICK i0 \in 1 .. Len(s) : t[i] = s[i0]
    BY DEF Thinned
  <2>2. PICK j0 \in 1 .. Len(s) : t[j] = s[j0]
    BY DEF Thinned
  <2>3. PICK k0 \in 1 .. Len(d) : g[k] = d[k0]
    BY DEF Thinned
  <2>4. PICK l0 \in 1 .. Len(d) : g[l] = d[l0]
    BY DEF Thinned
  <2>5. i0 < j0
    BY <1>2, <2>1, <2>2 DEF Thinned
  <2>6. s[i0] = d[k0] /\ s[j0] = d[l0]
    BY <1>2, <2>1, <2>2, <2>3, <2>4
  <2>7. k0 < l0
    BY <2>5, <2>6 DEF Within
  <2>8. QED
    BY <2>3, <2>4, <2>7 DEF Thinned
<1>3. QED
  BY <1>1, <1>2 DEF Within

\* A handler that was not listed goes to the end of the list.
LEMMA WithinAppend ==
  ASSUME NEW s \in Seq(Handlers), NEW d \in Seq(Handlers), NEW h \in Handlers,
         Within(s, d), h \notin ToSet(d)
  PROVE  Within(s, Append(d, h))
<1> DEFINE g == Append(d, h)
<1>1. /\ Len(d) \in Nat /\ Len(g) = Len(d) + 1
      /\ \A i \in 1 .. Len(d) : g[i] = d[i]
      /\ g[Len(d) + 1] = h
  BY AppendFacts
<1> HIDE DEF g
<1>2. \A i \in 1 .. Len(d) : d[i] # h /\ i \in 1 .. Len(g)
  BY <1>1, IndexFacts
<1>3. \A i \in 1 .. Len(s) : \E k \in 1 .. Len(d) : s[i] = d[k]
  BY DEF Within
<1>4. ASSUME NEW i \in 1 .. Len(s), NEW k \in 1 .. Len(g), s[i] = g[k]
      PROVE  k \in 1 .. Len(d) /\ s[i] = d[k]
  <2>1. g[k] # h
    BY <1>2, <1>3, <1>4
  <2>2. k # Len(d) + 1
    BY <1>1, <2>1
  <2>3. k \in 1 .. Len(d)
    BY <1>1, <2>2
  <2>4. QED
    BY <1>1, <1>4, <2>3
<1>5. ASSUME NEW i \in 1 .. Len(s), NEW j \in 1 .. Len(s),
             NEW k \in 1 .. Len(g), NEW l \in 1 .. Len(g),
             s[i] = g[k], s[j] = g[l], i < j
      PROVE  k < l
  BY <1>4, <1>5 DEF Within
<1>6. \A i \in 1 .. Len(s) : \E k \in 1 .. Len(g) : s[i] = g[k]
  BY <1>1, <1>2, <1>3
<1>7. Within(s, g)
  BY <1>5, <1>6 DEF Within
<1>8. QED
  BY <1>7 DEF g

\* A subsequence of the empty list is empty, one of a list of at most one
\* handler has at most one, and the head of the list is not overtaken.
LEMMA WithinFacts ==
  ASSUME NEW s \in Seq(Handlers), NEW d \in Seq(Handlers), Within(s, d)
  PROVE  /\ d = <<>> => s = <<>>
         /\ ~(Len(d) > 1) => Len(s) <= 1
         /\ d # <<>> => Unpassed(Head(d), s)
         /\ ToSet(s) \subseteq ToSet(d)
<1>0. Len(s) \in Nat /\ Len(d) \in Nat
  OBVIOUS
<1>1. ASSUME d = <<>>
      PROVE  s = <<>>
  <2>1. Len(d) = 0
    BY <1>1
  <2>2. ~(1 \in 1 .. Len(s))
    BY <2>1 DEF Within
  <2>3. Len(s) = 0
    BY <1>0, <2>2
  <2>4. QED
    BY <2>3, IndexFacts
<1>2. ASSUME Len(s) > 1
      PROVE  Len(d) > 1
  <2>1. 1 \in 1 .. Len(s) /\ 2 \in 1 .. Len(s)
    BY <1>0, <1>2
  <2>2. PICK k \in 1 .. Len(d) : s[1] = d[k]
    BY <2>1 DEF Within
  <2>3. PICK l \in 1 .. Len(d) : s[2] = d[l]
    BY <2>1 DEF Within
  <2>4. k < l
    BY <2>1, <2>2, <2>3 DEF Within
  <2>5. QED
    BY <1>0, <2>4
<1>3. ASSUME d # <<>>
      PROVE  Unpassed(Head(d), s)
  <2>1. Head(d) = d[1] /\ 1 \in 1 .. Len(d)
    BY <1>3, TailFacts
  <2>2. ASSUME NEW i \in 1 .. Len(s), s[i] = Head(d), i # 1
        PROVE  FALSE
    <3>1. 1 \in 1 .. Len(s) /\ 1 < i
      BY <1>0, <2>2
    <3>2. PICK k \in 1 .. Len(d) : s[1] = d[k]
      BY <3>1 DEF Within
    <3>3. k < 1
      BY <2>1, <2>2, <3>1, <3>2 DEF Within
    <3>4. QED
      BY <1>0, <3>3
  <2>3. QED
    BY <2>2 DEF Unpassed
<1>4. ToSet(s) \subseteq ToSet(d)
  <2>1. ASSUME NEW x \in ToSet(s)
        PROVE  x \in ToSet(d)
    <3>1. PICK i \in 1 .. Len(s) : x = s[i]
      BY IndexFacts
    <3>2. PICK k \in 1 .. Len(d) : s[i] = d[k]
      BY DEF Within
    <3>3. QED
      BY <3>1, <3>2, IndexFacts
  <2>2. QED
    BY <2>1
<1>5. QED
  BY <1>0, <1>1, <1>2, <1>3, <1>4

\* Nor is a handler overtaken when another one leaves.
LEMMA UnpassedThinned ==
  ASSUME NEW s \in Seq(Handlers), NEW t \in Seq(Handlers), NEW e, NEW f,
         Thinned(t, s, e), Unpassed(f, s)
  PROVE  Unpassed(f, t)
<1>1. ASSUME NEW i \in 1 .. Len(t), t[i] = f, i # 1
      PROVE  FALSE
  <2>1. Len(t) \in Nat /\ Len(s) \in Nat
    OBVIOUS
  <2>2. 1 \in 1 .. Len(t) /\ 1 < i
    BY <1>1, <2>1
  <2>3. PICK k \in 1 .. Len(s) : t[i] = s[k]
    BY DEF Thinned
  <2>4. PICK l \in 1 .. Len(s) : t[1] = s[l]
    BY <2>2 DEF Thinned
  <2>5. l < k
    BY <2>2, <2>3, <2>4 DEF Thinned
  <2>6. k = 1
    BY <1>1, <2>3 DEF Unpassed
  <2>7. QED
    BY <2>1, <2>5, <2>6
<1>2. QED
  BY <1>1 DEF Unpassed

\* What a worker has settled stays so when a handler leaves the list.
LEMMA SettledThinned ==
  ASSUME NEW s \in Seq(Handlers), NEW t \in Seq(Handlers), NEW e,
         Thinned(t, s, e),
         NEW r, NEW p, NEW fi, NEW td, NEW iv, NEW rp,
         Settled(r, p, s, fi, td, iv, rp)
  PROVE  Settled(r, p, t, fi, td, iv, rp)
<1>1. Len(t) \in Nat /\ Len(s) \in Nat /\ Len(t) <= Len(s)
  BY DEF Thinned
<1>2. (Len(s) <= 1 => Len(t) <= 1) /\ (Len(t) > 1 => Len(s) > 1)
  BY <1>1
<1>3. s = <<>> => t = <<>>
  <2>1. ASSUME s = <<>>
        PROVE  t = <<>>
    <3>1. Len(s) = 0
      BY <2>1
    <3>2. Len(t) = 0
      BY <1>1, <3>1
    <3>3. QED
      BY <3>2, IndexFacts
  <2>2. QED
    BY <2>1
<1>4. ToSet(t) \subseteq ToSet(s)
  <2>1. ASSUME NEW x \in ToSet(t)
        PROVE  x \in ToSet(s)
    <3>1. PICK i \in 1 .. Len(t) : x = t[i]
      BY IndexFacts
    <3>2. PICK k \in 1 .. Len(s) : t[i] = s[k]
      BY DEF Thinned
    <3>3. QED
      BY <3>1, <3>2, IndexFacts
  <2>2. QED
    BY <2>1
<1>5. \A f : Unpassed(f, s) => Unpassed(f, t)
  BY UnpassedThinned
<1>6. QED
  BY <1>2, <1>3, <1>4, <1>5, Zenon DEF Settled

\* The elements of an injective sequence after Tail.
LEMMA TailInjective ==
  ASSUME NEW s \in Seq(Handlers), s # <<>>, IsInjective(s)
  PROVE  /\ IsInjective(Tail(s))
         /\ ToSet(s) = ToSet(Tail(s)) \cup {Head(s)}
         /\ Head(s) \notin ToSet(Tail(s))
<1> DEFINE t == Tail(s)
<1>1. /\ t \in Seq(Handlers) /\ Head(s) = s[1]
      /\ Len(s) \in Nat /\ Len(s) >= 1 /\ Len(t) = Len(s) - 1
  BY TailFacts
<1>2. \A i \in 1 .. Len(t) : t[i] = s[i + 1] /\ i + 1 \in 1 .. Len(s)
                             /\ i \in Nat /\ i >= 1
  BY <1>1, TailFacts
<1> HIDE DEF t
<1>3. \A i, j \in 1 .. Len(s) : s[i] = s[j] => i = j
  BY IndexFacts
<1>4. ASSUME NEW i \in 1 .. Len(t), NEW j \in 1 .. Len(t), t[i] = t[j]
      PROVE  i = j
  <2>1. i + 1 = j + 1
    BY <1>2, <1>3, <1>4
  <2>2. QED
    BY <1>2, <2>1
<1>5. IsInjective(t)
  BY <1>1, <1>4, IndexFacts
<1>6. ASSUME NEW i \in 1 .. Len(t), t[i] = s[1]
      PROVE  FALSE
  <2>1. 1 \in 1 .. Len(s)
    BY <1>1
  <2>2. i + 1 = 1
    BY <1>2, <1>3, <1>6, <2>1
  <2>3. QED
    BY <1>2, <2>2
<1>7. s[1] \notin ToSet(t)
  BY <1>1, <1>6, IndexFacts
<1>8. ASSUME NEW i \in 1 .. Len(s), i # 1
      PROVE  s[i] \in ToSet(t)
  <2>1. i - 1 \in 1 .. Len(t) /\ (i - 1) + 1 = i
    BY <1>1, <1>8
  <2>2. t[i - 1] = s[i]
    BY <1>2, <2>1
  <2>3. QED
    BY <1>1, <2>1, <2>2, IndexFacts
<1>9. ToSet(s) \subseteq ToSet(t) \cup {s[1]}
  BY <1>8, IndexFacts
<1>10. ToSet(t) \subseteq ToSet(s)
  BY <1>1, <1>2, IndexFacts
<1>11. s[1] \in ToSet(s)
  <2>1. 1 \in 1 .. Len(s)
    BY <1>1
  <2>2. QED
    BY <2>1, IndexFacts
<1>12. QED
  BY <1>1, <1>5, <1>7, <1>9, <1>10, <1>11 DEF t

\* The elements of an injective sequence after Append.
LEMMA AppendsOnce ==
  ASSUME NEW s \in Seq(Handlers), NEW e \in Handlers, IsInjective(s),
         e \notin ToSet(s)
  PROVE  /\ IsInjective(Append(s, e))
         /\ ToSet(Append(s, e)) = ToSet(s) \cup {e}
<1> DEFINE t == Append(s, e)
<1>1. /\ t \in Seq(Handlers)
      /\ Len(s) \in Nat /\ Len(t) = Len(s) + 1
      /\ \A i \in 1 .. Len(s) : t[i] = s[i]
      /\ t[Len(s) + 1] = e
  BY AppendFacts
<1> HIDE DEF t
<1>2. \A i \in 1 .. Len(t) : i \in 1 .. Len(s) \/ i = Len(s) + 1
  BY <1>1
<1>3. \A i \in 1 .. Len(s) : s[i] # e /\ i \in 1 .. Len(t)
  BY <1>1, IndexFacts
<1>4. \A i, j \in 1 .. Len(s) : s[i] = s[j] => i = j
  BY IndexFacts
<1>5. ASSUME NEW i \in 1 .. Len(t), NEW j \in 1 .. Len(t), t[i] = t[j]
      PROVE  i = j
  <2>1. CASE i \in 1 .. Len(s) /\ j \in 1 .. Len(s)
    BY <1>1, <1>4, <1>5, <2>1
  <2>2. CASE i \in 1 .. Len(s) /\ j = Len(s) + 1
    BY <1>1, <1>3, <1>5, <2>2
  <2>3. CASE i = Len(s) + 1 /\ j \in 1 .. Len(s)
    BY <1>1, <1>3, <1>5, <2>3
  <2>4. QED
    BY <1>2, <2>1, <2>2, <2>3
<1>6. IsInjective(t)
  BY <1>1, <1>5, IndexFacts
<1>7. \A i \in 1 .. Len(t) : t[i] \in ToSet(s) \/ t[i] = e
  <2>1. ASSUME NEW i \in 1 .. Len(s)
        PROVE  t[i] \in ToSet(s)
    BY <1>1, IndexFacts
  <2>2. QED
    BY <1>1, <1>2, <2>1
<1>8. \A i \in 1 .. Len(s) : s[i] \in ToSet(t)
  BY <1>1, <1>3, IndexFacts
<1>9. e \in ToSet(t)
  <2>1. Len(s) + 1 \in 1 .. Len(t)
    BY <1>1
  <2>2. QED
    BY <1>1, <2>1, IndexFacts
<1>10. ToSet(t) = ToSet(s) \cup {e}
  <2>1. ToSet(t) \subseteq ToSet(s) \cup {e}
    BY <1>1, <1>7, IndexFacts
  <2>2. ToSet(s) \subseteq ToSet(t)
    BY <1>8, IndexFacts
  <2>3. QED
    BY <1>9, <2>1, <2>2
<1>11. QED
  BY <1>6, <1>10 DEF t

\* The empty sequence and those of one handler.
LEMMA ShortSequences ==
  /\ <<>> \in Seq(Handlers) /\ Len(<<>>) = 0 /\ IsInjective(<<>>)
  /\ ToSet(<<>>) = {}
  /\ \A d \in Seq(Handlers) : Within(<<>>, d)
  /\ \A h \in Handlers :
       <<h>> \in Seq(Handlers) /\ Len(<<h>>) = 1 /\ <<h>>[1] = h
       /\ <<h>> # <<>> /\ IsInjective(<<h>>)
<1>1. <<>> \in Seq(Handlers) /\ Len(<<>>) = 0
  OBVIOUS
<1>2. 1 .. 0 = {}
  OBVIOUS
<1>3. IsInjective(<<>>)
  BY <1>1, <1>2, IndexFacts
<1>4. ToSet(<<>>) = {}
  <2>1. ASSUME NEW x \in ToSet(<<>>)
        PROVE  FALSE
    <3>1. \E i \in 1 .. Len(<<>>) : x = <<>>[i]
      BY <1>1, IndexFacts
    <3>2. QED
      BY <1>1, <1>2, <3>1
  <2>2. QED
    BY <2>1
<1>5. \A d \in Seq(Handlers) : Within(<<>>, d)
  BY <1>1, <1>2 DEF Within
<1>6. ASSUME NEW h \in Handlers
      PROVE  <<h>> \in Seq(Handlers) /\ Len(<<h>>) = 1 /\ <<h>>[1] = h
             /\ <<h>> # <<>> /\ IsInjective(<<h>>)
  <2>1. <<h>> \in Seq(Handlers) /\ Len(<<h>>) = 1 /\ <<h>>[1] = h
    OBVIOUS
  <2>2. <<h>> # <<>>
    BY <1>1, <2>1
  <2>3. \A i, j \in 1 .. 1 : <<h>>[i] = <<h>>[j] => i = j
    OBVIOUS
  <2>4. IsInjective(<<h>>)
    BY <2>1, <2>3, IndexFacts
  <2>5. QED
    BY <2>1, <2>2, <2>4
<1>7. QED
  BY <1>1, <1>3, <1>4, <1>5, <1>6

\* An injective sequence is a subsequence of itself.
LEMMA WithinSelf ==
  ASSUME NEW s \in Seq(Handlers), IsInjective(s)
  PROVE  Within(s, s)
<1>1. \A i, j \in 1 .. Len(s) : s[i] = s[j] => i = j
  BY IndexFacts
<1>2. QED
  BY <1>1 DEF Within

-----------------------------------------------------------------------------
(***************************************************************************)
(* The invariant.                                                          *)
(***************************************************************************)
LEMMA InitCoherent == Init => Coherent
<1> SUFFICES ASSUME Init
             PROVE  Coherent
  OBVIOUS
<1>1. /\ Initial \in Seq(Handlers) /\ IsInjective(Initial)
  BY DispatchAssumption DEF DispatchAssumption
<1>2. ToSet(Initial) \subseteq Handlers
  BY <1>1, IndexFacts
<1>3. TypeOK
  BY <1>1, <1>2, ShortSequences DEF Init, TypeOK
<1>4. ListOK
  BY <1>1, ShortSequences DEF Init, ListOK
<1>5. WorkersOK
  BY ShortSequences DEF Init, WorkersOK, Settled
<1>6. QED
  BY <1>3, <1>4, <1>5 DEF Coherent

\* The types of what the actions read.
LEMMA CoherentTypes ==
  ASSUME Coherent
  PROVE  /\ data \in Seq(Handlers) /\ IsInjective(data)
         /\ \A r \in Requests :
              /\ first[r] \in Seq(Handlers) /\ todo[r] \in Seq(Handlers)
              /\ invoked[r] \in Seq(Handlers) /\ steady[r] \in Seq(Handlers)
              /\ IsInjective(steady[r]) /\ Within(steady[r], data)
              /\ Settled(r, pc[r], steady[r], first[r], todo[r], invoked[r],
                         reply[r])
BY DEF Coherent, TypeOK, ListOK, WorkersOK

LEMMA AppendHandlerKeeps ==
  ASSUME Coherent, NEW h \in Handlers, AppendHandler(h)
  PROVE  Coherent'
<1> USE CoherentTypes
<1>0. h \notin ToSet(data)
  BY DEF Coherent, ListOK, AppendHandler
<1>1. /\ data' \in Seq(Handlers) /\ IsInjective(data')
      /\ ToSet(data') = ToSet(data) \cup {h}
  BY <1>0, AppendFacts, AppendsOnce DEF AppendHandler
<1>2. TypeOK'
  BY <1>1 DEF Coherent, TypeOK, AppendHandler
<1>3. ASSUME NEW r \in Requests
      PROVE  IsInjective(steady'[r]) /\ Within(steady'[r], data')
  BY <1>0, WithinAppend DEF AppendHandler
<1>4. ListOK'
  BY <1>1, <1>3 DEF Coherent, ListOK, AppendHandler
<1>5. WorkersOK'
  BY DEF WorkersOK, AppendHandler
<1>6. QED
  BY <1>2, <1>4, <1>5 DEF Coherent

LEMMA AfterFuncKeeps ==
  ASSUME Coherent, NEW h \in Handlers, AfterFunc(h)
  PROVE  Coherent'
<1> USE CoherentTypes
<1>1. /\ data' \in Seq(Handlers) /\ IsInjective(data')
      /\ Thinned(data', data, h)
  BY RemoveThins DEF AfterFunc
<1>2. ToSet(data') \subseteq ToSet(data)
  <2>1. ASSUME NEW x \in ToSet(data')
        PROVE  x \in ToSet(data)
    <3>1. PICK i \in 1 .. Len(data') : x = data'[i]
      BY <1>1, IndexFacts
    <3>2. PICK k \in 1 .. Len(data) : data'[i] = data[k]
      BY <1>1 DEF Thinned
    <3>3. QED
      BY <3>1, <3>2, IndexFacts
  <2>2. QED
    BY <2>1
<1>3. ASSUME NEW r \in Requests
      PROVE  /\ steady'[r] \in Seq(Handlers) /\ IsInjective(steady'[r])
             /\ Thinned(steady'[r], steady[r], h)
             /\ h \notin ToSet(steady'[r])
  <2>1. steady'[r] = RemoveFirst(steady[r], h)
    BY DEF AfterFunc
  <2>2. QED
    BY <2>1, RemoveThins
<1>4. steady' \in [Requests -> Seq(Handlers)]
  BY <1>3 DEF AfterFunc
<1>5. TypeOK'
  BY <1>1, <1>4 DEF Coherent, TypeOK, AfterFunc
<1>6. ASSUME NEW r \in Requests
      PROVE  Within(steady'[r], data')
  BY <1>1, <1>3, WithinThinned
<1>7. ListOK'
  BY <1>2, <1>3, <1>6 DEF Coherent, ListOK, AfterFunc
<1>8. ASSUME NEW r \in Requests
      PROVE  Settled(r, pc'[r], steady'[r], first'[r], todo'[r], invoked'[r],
                     reply'[r])
  <2>1. Settled(r, pc[r], steady'[r], first[r], todo[r], invoked[r], reply[r])
    BY <1>3, SettledThinned
  <2>2. QED
    BY <2>1 DEF AfterFunc
<1>9. WorkersOK'
  BY <1>8 DEF WorkersOK
<1>10. QED
  BY <1>5, <1>7, <1>9 DEF Coherent

\* A step of r's worker changes nothing of the list and of the others.
LEMMA WorkerFrame ==
  ASSUME Coherent, NEW r \in Requests,
         data' = data, appended' = appended, ended' = ended,
         NEW st \in Seq(Handlers), st \in {steady[r], data},
         steady' = [steady EXCEPT ![r] = st],
         NEW p \in {"idle", "first", "strategy", "clone", "broadcast",
                    "invoke", "done"},
         pc' = [pc EXCEPT ![r] = p],
         NEW fi \in Seq(Handlers), first' = [first EXCEPT ![r] = fi],
         NEW td \in Seq(Handlers), todo' = [todo EXCEPT ![r] = td],
         NEW iv \in Seq(Handlers), invoked' = [invoked EXCEPT ![r] = iv],
         NEW rp \in {"none", "ok", "error", "notFound", "unimplemented"},
         reply' = [reply EXCEPT ![r] = rp],
         Settled(r, p, st, fi, td, iv, rp)
  PROVE  Coherent'
<1> USE CoherentTypes
<1>1. /\ data \in Seq(Handlers) /\ IsInjective(data) /\ Within(data, data)
  BY WithinSelf
<1>2. /\ steady' \in [Requests -> Seq(Handlers)]
      /\ steady \in [Requests -> Seq(Handlers)]
  BY <1>1 DEF Coherent, TypeOK
<1>3. pc' \in [Requests -> {"idle", "first", "strategy", "clone", "broadcast",
                            "invoke", "done"}]
  BY DEF Coherent, TypeOK
<1>4. /\ first' \in [Requests -> Seq(Handlers)]
      /\ todo' \in [Requests -> Seq(Handlers)]
      /\ invoked' \in [Requests -> Seq(Handlers)]
  BY DEF Coherent, TypeOK
<1>5. reply' \in [Requests -> {"none", "ok", "error", "notFound",
                               "unimplemented"}]
  BY DEF Coherent, TypeOK
<1>6. TypeOK'
  BY <1>2, <1>3, <1>4, <1>5 DEF Coherent, TypeOK
<1>7. /\ pc'[r] = p /\ first'[r] = fi /\ todo'[r] = td /\ invoked'[r] = iv
      /\ reply'[r] = rp /\ steady'[r] = st
  BY DEF Coherent, TypeOK
<1>8. ASSUME NEW q \in Requests, q # r
      PROVE  /\ pc'[q] = pc[q] /\ first'[q] = first[q] /\ todo'[q] = todo[q]
             /\ invoked'[q] = invoked[q] /\ reply'[q] = reply[q]
             /\ steady'[q] = steady[q]
  BY <1>8 DEF Coherent, TypeOK
<1>9. ASSUME NEW q \in Requests
      PROVE  IsInjective(steady'[q]) /\ Within(steady'[q], data')
  <2>1. steady'[q] = steady[q] \/ steady'[q] = data
    BY <1>2
  <2>2. QED
    BY <1>1, <2>1
<1>10. ListOK'
  BY <1>9 DEF Coherent, ListOK
<1>11. WorkersOK'
  BY <1>7, <1>8 DEF WorkersOK
<1>12. QED
  BY <1>6, <1>10, <1>11 DEF Coherent

\* The steps of a worker up to the choice of a strategy.
LEMMA ReadsKeep ==
  ASSUME Coherent, NEW r \in Requests,
         CheckLen(r) \/ TakeFirst(r) \/ ChooseStrategy(r) \/ CloneData(r)
  PROVE  Coherent'
<1> USE CoherentTypes
<1>0. /\ Len(data) \in Nat /\ Len(steady[r]) \in Nat
      /\ data = <<>> <=> Len(data) = 0
      /\ steady \in [Requests -> Seq(Handlers)]
      /\ pc[r] \in {"idle", "first", "strategy", "clone", "broadcast",
                    "invoke", "done"}
      /\ reply[r] \in {"none", "ok", "error", "notFound", "unimplemented"}
  BY IndexFacts DEF Coherent, TypeOK
<1>same. /\ steady = [steady EXCEPT ![r] = steady[r]]
         /\ pc = [pc EXCEPT ![r] = pc[r]]
         /\ first = [first EXCEPT ![r] = first[r]]
         /\ todo = [todo EXCEPT ![r] = todo[r]]
         /\ invoked = [invoked EXCEPT ![r] = invoked[r]]
         /\ reply = [reply EXCEPT ![r] = reply[r]]
  BY DEF Coherent, TypeOK
<1>none. pc[r] # "done" => reply[r] = "none"
  BY DEF Settled
<1>1. CASE CheckLen(r)
  <2>1. invoked[r] = <<>> /\ reply[r] = "none"
    BY <1>0, <1>1 DEF CheckLen, Settled
  <2>2. CASE Len(data) > 0
    <3>1. /\ data' = data /\ appended' = appended /\ ended' = ended
          /\ first' = [first EXCEPT ![r] = first[r]]
          /\ todo' = [todo EXCEPT ![r] = todo[r]]
          /\ invoked' = [invoked EXCEPT ![r] = invoked[r]]
          /\ reply' = [reply EXCEPT ![r] = "none"]
          /\ steady' = [steady EXCEPT ![r] = data]
          /\ pc' = [pc EXCEPT ![r] = "first"]
      BY <1>same, <1>none, <1>1, <2>2 DEF CheckLen
    <3>2. Settled(r, "first", data, first[r], todo[r], invoked[r], "none")
      BY <2>1, ShortSequences DEF Settled
    <3>3. QED
      BY <1>0, <3>1, <3>2, WorkerFrame, Zenon
  <2>3. CASE ~(Len(data) > 0)
    <3>1. /\ data' = data /\ appended' = appended /\ ended' = ended
          /\ first' = [first EXCEPT ![r] = first[r]]
          /\ todo' = [todo EXCEPT ![r] = todo[r]]
          /\ invoked' = [invoked EXCEPT ![r] = invoked[r]]
          /\ steady' = [steady EXCEPT ![r] = data]
          /\ pc' = [pc EXCEPT ![r] = "done"]
          /\ reply' = [reply EXCEPT ![r] = "unimplemented"]
      BY <1>same, <1>none, <1>1, <2>3 DEF CheckLen, Answer
    <3>2. data = <<>> /\ ~(Len(data) > 1)
      BY <1>0, <2>1, <2>3
    <3>3. Settled(r, "done", data, first[r], todo[r], invoked[r],
                  "unimplemented")
      BY <2>1, <3>2 DEF Settled
    <3>4. QED
      BY <1>0, <3>1, <3>3, WorkerFrame, Zenon
  <2>4. QED
    BY <2>2, <2>3
<1>2. CASE TakeFirst(r)
  <2>1. invoked[r] = <<>> /\ reply[r] = "none"
    BY <1>2 DEF TakeFirst, Settled
  <2>2. CASE data = <<>>
    <3>1. /\ data' = data /\ appended' = appended /\ ended' = ended
          /\ todo' = [todo EXCEPT ![r] = todo[r]]
          /\ invoked' = [invoked EXCEPT ![r] = invoked[r]]
          /\ steady' = [steady EXCEPT ![r] = steady[r]]
          /\ first' = [first EXCEPT ![r] = <<>>]
          /\ pc' = [pc EXCEPT ![r] = "done"]
          /\ reply' = [reply EXCEPT ![r] = "unimplemented"]
      BY <1>same, <1>none, <1>2, <2>2 DEF TakeFirst, Answer
    <3>2. steady[r] = <<>> /\ ~(Len(steady[r]) > 1)
      BY <2>1, <2>2, WithinFacts
    <3>3. Settled(r, "done", steady[r], <<>>, todo[r], invoked[r],
                  "unimplemented")
      BY <2>1, <3>2 DEF Settled
    <3>4. QED
      BY <3>1, <3>3, ShortSequences, WorkerFrame, Zenon
  <2>3. CASE data # <<>>
    <3>1. /\ data' = data /\ appended' = appended /\ ended' = ended
          /\ todo' = [todo EXCEPT ![r] = todo[r]]
          /\ invoked' = [invoked EXCEPT ![r] = invoked[r]]
          /\ reply' = [reply EXCEPT ![r] = "none"]
          /\ steady' = [steady EXCEPT ![r] = steady[r]]
          /\ first' = [first EXCEPT ![r] = <<Head(data)>>]
          /\ pc' = [pc EXCEPT ![r] = "strategy"]
      BY <1>same, <1>none, <1>2, <2>3 DEF TakeFirst
    <3>2. Head(data) \in Handlers
      BY <2>3, TailFacts
    <3>3. <<Head(data)>> \in Seq(Handlers) /\ Len(<<Head(data)>>) = 1
          /\ <<Head(data)>>[1] = Head(data)
      BY <3>2
    <3>4. Unpassed(Head(data), steady[r])
      BY <2>1, <2>3, WithinFacts
    <3>5. Settled(r, "strategy", steady[r], <<Head(data)>>, todo[r],
                  invoked[r], "none")
      BY <2>1, <3>3, <3>4 DEF Settled
    <3>6. QED
      BY <3>1, <3>3, <3>5, WorkerFrame, Zenon
  <2>4. QED
    BY <2>2, <2>3
<1>3. CASE ChooseStrategy(r)
  <2> DEFINE p == IF r \in Broadcasts /\ Len(data) > 1
                    THEN "clone" ELSE "invoke"
  <2>1. /\ data' = data /\ appended' = appended /\ ended' = ended
        /\ first' = [first EXCEPT ![r] = first[r]]
        /\ invoked' = [invoked EXCEPT ![r] = invoked[r]]
        /\ reply' = [reply EXCEPT ![r] = "none"]
        /\ steady' = [steady EXCEPT ![r] = steady[r]]
        /\ pc' = [pc EXCEPT ![r] = p]
        /\ todo' = [todo EXCEPT ![r] = first[r]]
        /\ pc[r] = "strategy"
    BY <1>same, <1>none, <1>3 DEF ChooseStrategy
  <2>2. r \in Broadcasts /\ p = "invoke" => Len(steady[r]) <= 1
    BY WithinFacts
  <2>3. /\ p \in {"clone", "invoke"} /\ (p = "clone" => r \in Broadcasts)
        /\ p \in {"idle", "first", "strategy", "clone", "broadcast",
                  "invoke", "done"}
    OBVIOUS
  <2> HIDE DEF p
  <2>4. Settled(r, p, steady[r], first[r], first[r], invoked[r], "none")
    BY <2>1, <2>2, <2>3 DEF Settled
  <2>5. ASSUME NEW x \in {"idle", "first", "strategy", "clone", "broadcast",
                          "invoke", "done"},
               x = p
        PROVE  Coherent'
    <3>1. /\ pc' = [pc EXCEPT ![r] = x]
          /\ Settled(r, x, steady[r], first[r], first[r], invoked[r], "none")
      BY <2>1, <2>4, <2>5
    <3>2. QED
      BY <2>1, <3>1, WorkerFrame, ZenonT(60)
  <2>6. QED
    BY <2>3, <2>5
<1>4. CASE CloneData(r)
  <2>1. /\ data' = data /\ appended' = appended /\ ended' = ended
        /\ first' = [first EXCEPT ![r] = first[r]]
        /\ invoked' = [invoked EXCEPT ![r] = invoked[r]]
        /\ reply' = [reply EXCEPT ![r] = "none"]
        /\ steady' = [steady EXCEPT ![r] = steady[r]]
        /\ pc' = [pc EXCEPT ![r] = "broadcast"]
        /\ todo' = [todo EXCEPT ![r] = data]
        /\ pc[r] = "clone"
    BY <1>same, <1>none, <1>4 DEF CloneData
  <2>2. ToSet(steady[r]) \subseteq ToSet(data)
    BY WithinFacts
  <2>3. Settled(r, "broadcast", steady[r], first[r], data, invoked[r],
                "none")
    BY <2>1, <2>2, ShortSequences DEF Settled
  <2>4. QED
    BY <1>0, <2>1, <2>3, WorkerFrame, Zenon
<1>5. QED
  BY <1>1, <1>2, <1>3, <1>4

\* The steps of a worker that invoke a handler or answer.
LEMMA InvokesKeep ==
  ASSUME Coherent, NEW r \in Requests,
         \/ InvokeBroadcast(r) \/ ReplyBroadcast(r) \/ InvokeFirst(r)
         \/ MethodNotFound(r)
  PROVE  Coherent'
<1> USE CoherentTypes
<1>0. /\ todo \in [Requests -> Seq(Handlers)]
      /\ invoked \in [Requests -> Seq(Handlers)]
      /\ Len(steady[r]) \in Nat
      /\ pc[r] \in {"idle", "first", "strategy", "clone", "broadcast",
                    "invoke", "done"}
      /\ reply[r] \in {"none", "ok", "error", "notFound", "unimplemented"}
  BY DEF Coherent, TypeOK
<1>same. /\ steady = [steady EXCEPT ![r] = steady[r]]
         /\ pc = [pc EXCEPT ![r] = pc[r]]
         /\ first = [first EXCEPT ![r] = first[r]]
         /\ todo = [todo EXCEPT ![r] = todo[r]]
         /\ invoked = [invoked EXCEPT ![r] = invoked[r]]
         /\ reply = [reply EXCEPT ![r] = reply[r]]
  BY DEF Coherent, TypeOK
<1>none. pc[r] # "done" => reply[r] = "none"
  BY DEF Settled
<1>1. CASE InvokeBroadcast(r)
  <2>1. /\ data' = data /\ appended' = appended /\ ended' = ended
        /\ pc' = [pc EXCEPT ![r] = "broadcast"]
        /\ first' = [first EXCEPT ![r] = first[r]]
        /\ reply' = [reply EXCEPT ![r] = "none"]
        /\ steady' = [steady EXCEPT ![r] = steady[r]]
        /\ todo' = [todo EXCEPT ![r] = Tail(todo[r])]
        /\ invoked' = [invoked EXCEPT ![r] = Append(invoked[r], Head(todo[r]))]
        /\ pc[r] = "broadcast" /\ todo[r] # <<>>
    BY <1>same, <1>none, <1>0, <1>1 DEF InvokeBroadcast, InvokeNext
  <2>2. /\ IsInjective(todo[r]) /\ IsInjective(invoked[r])
        /\ ToSet(todo[r]) \cap ToSet(invoked[r]) = {}
        /\ ToSet(steady[r]) \subseteq ToSet(todo[r]) \cup ToSet(invoked[r])
    BY <2>1 DEF Settled
  <2> DEFINE h == Head(todo[r])
             td == Tail(todo[r])
             iv == Append(invoked[r], h)
  <2>3. h \in Handlers /\ td \in Seq(Handlers)
    BY <2>1, TailFacts
  <2>4. /\ IsInjective(td) /\ ToSet(todo[r]) = ToSet(td) \cup {h}
        /\ h \notin ToSet(td)
    BY <2>1, <2>2, TailInjective
  <2>5. h \notin ToSet(invoked[r])
    BY <2>2, <2>4
  <2>6. iv \in Seq(Handlers)
    BY <2>3, AppendFacts
  <2>7. IsInjective(iv) /\ ToSet(iv) = ToSet(invoked[r]) \cup {h}
    BY <2>2, <2>3, <2>5, AppendsOnce
  <2> HIDE DEF h, td, iv
  <2>8. /\ ToSet(td) \cap ToSet(iv) = {}
        /\ ToSet(steady[r]) \subseteq ToSet(td) \cup ToSet(iv)
    BY <2>2, <2>4, <2>7
  <2>9. Settled(r, "broadcast", steady[r], first[r], td, iv, "none")
    BY <2>1, <2>4, <2>7, <2>8 DEF Settled
  <2>10. /\ todo' = [todo EXCEPT ![r] = td]
         /\ invoked' = [invoked EXCEPT ![r] = iv]
    BY <2>1 DEF td, iv, h
  <2>11. QED
    BY <1>0, <2>1, <2>3, <2>6, <2>9, <2>10, WorkerFrame, Zenon
<1>2. CASE ReplyBroadcast(r)
  <2>1. /\ data' = data /\ appended' = appended /\ ended' = ended
        /\ first' = [first EXCEPT ![r] = first[r]]
        /\ todo' = [todo EXCEPT ![r] = todo[r]]
        /\ invoked' = [invoked EXCEPT ![r] = invoked[r]]
        /\ steady' = [steady EXCEPT ![r] = steady[r]]
        /\ pc' = [pc EXCEPT ![r] = "done"]
        /\ reply' = [reply EXCEPT ![r] = "ok"]
        /\ pc[r] = "broadcast" /\ todo[r] = <<>>
    BY <1>same, <1>none, <1>2 DEF ReplyBroadcast, Answer
  <2>2. Settled(r, "done", steady[r], first[r], todo[r], invoked[r], "ok")
    BY <2>1, ShortSequences DEF Settled
  <2>3. QED
    BY <2>1, <2>2, WorkerFrame, Zenon
<1>3. CASE InvokeFirst(r)
  <2>1. PICK a \in {"ok", "error"} : Answer(r, a)
    BY <1>3 DEF InvokeFirst
  <2>2. /\ data' = data /\ appended' = appended /\ ended' = ended
        /\ first' = [first EXCEPT ![r] = first[r]]
        /\ steady' = [steady EXCEPT ![r] = steady[r]]
        /\ todo' = [todo EXCEPT ![r] = Tail(todo[r])]
        /\ invoked' = [invoked EXCEPT ![r] = Append(invoked[r], Head(todo[r]))]
        /\ pc' = [pc EXCEPT ![r] = "done"]
        /\ reply' = [reply EXCEPT ![r] = a]
        /\ pc[r] = "invoke"
    BY <1>same, <1>none, <1>0, <1>3, <2>1 DEF InvokeFirst, InvokeNext, Answer
  <2>3. /\ todo[r] = first[r] /\ Len(first[r]) = 1 /\ invoked[r] = <<>>
        /\ Unpassed(first[r][1], steady[r])
        /\ r \in Broadcasts => Len(steady[r]) <= 1
    BY <2>2 DEF Settled
  <2>4. todo[r] # <<>>
    BY <2>3
  <2> DEFINE h == Head(todo[r])
             td == Tail(todo[r])
             iv == Append(invoked[r], h)
  <2>5. h \in Handlers /\ td \in Seq(Handlers) /\ h = first[r][1]
    BY <2>3, <2>4, TailFacts
  <2>6. /\ iv \in Seq(Handlers) /\ Len(iv) = 1 /\ iv[1] = h
        /\ iv # <<>> /\ IsInjective(iv)
    <3>1. iv = <<h>>
      BY <2>3, <2>5
    <3> HIDE DEF h, iv
    <3>2. QED
      BY <2>5, <3>1, ShortSequences
  <2> HIDE DEF h, td, iv
  <2>7. /\ r \in Broadcasts => ~(Len(steady[r]) > 1)
        /\ a \in {"none", "ok", "error", "notFound", "unimplemented"}
    BY <1>0, <2>1, <2>3
  <2>8. Settled(r, "done", steady[r], first[r], td, iv, a)
    BY <2>1, <2>3, <2>5, <2>6, <2>7 DEF Settled
  <2>9. /\ todo' = [todo EXCEPT ![r] = td]
        /\ invoked' = [invoked EXCEPT ![r] = iv]
    BY <2>2 DEF td, iv, h
  <2>10. QED
    <3>1. CASE a = "ok"
      BY <2>2, <2>5, <2>6, <2>8, <2>9, <3>1, WorkerFrame, Zenon
    <3>2. CASE a = "error"
      BY <2>2, <2>5, <2>6, <2>8, <2>9, <3>2, WorkerFrame, Zenon
    <3>3. QED
      BY <2>1, <3>1, <3>2
<1>4. CASE MethodNotFound(r)
  <2>1. /\ data' = data /\ appended' = appended /\ ended' = ended
        /\ first' = [first EXCEPT ![r] = first[r]]
        /\ todo' = [todo EXCEPT ![r] = todo[r]]
        /\ invoked' = [invoked EXCEPT ![r] = invoked[r]]
        /\ steady' = [steady EXCEPT ![r] = steady[r]]
        /\ pc' = [pc EXCEPT ![r] = "done"]
        /\ reply' = [reply EXCEPT ![r] = "notFound"]
        /\ pc[r] = "invoke" /\ r \in Missing
    BY <1>same, <1>none, <1>4 DEF MethodNotFound, Answer
  <2>2. r \notin Broadcasts
    BY <2>1, DispatchAssumption DEF DispatchAssumption
  <2>3. Settled(r, "done", steady[r], first[r], todo[r], invoked[r],
                "notFound")
    BY <2>1, <2>2 DEF Settled
  <2>4. QED
    BY <2>1, <2>3, WorkerFrame, Zenon
<1>5. QED
  BY <1>1, <1>2, <1>3, <1>4

LEMMA NextCoherent == Coherent /\ [Next]_vars => Coherent'
<1> SUFFICES ASSUME Coherent, [Next]_vars
             PROVE  Coherent'
  OBVIOUS
<1>1. ASSUME NEW h \in Handlers, AppendHandler(h)
      PROVE  Coherent'
  BY <1>1, AppendHandlerKeeps
<1>2. ASSUME NEW h \in Handlers, ContextDone(h)
      PROVE  Coherent'
  <2>1. TypeOK'
    BY <1>2 DEF Coherent, TypeOK, ContextDone
  <2>2. ListOK' /\ WorkersOK'
    BY <1>2 DEF Coherent, ListOK, WorkersOK, ContextDone
  <2>3. QED
    BY <2>1, <2>2 DEF Coherent
<1>3. ASSUME NEW h \in Handlers, AfterFunc(h)
      PROVE  Coherent'
  BY <1>3, AfterFuncKeeps
<1>4. ASSUME NEW r \in Requests, Worker(r)
      PROVE  Coherent'
  BY <1>4, ReadsKeep, InvokesKeep DEF Worker
<1>5. CASE UNCHANGED vars
  <2>1. TypeOK'
    BY <1>5 DEF Coherent, TypeOK, vars
  <2>2. ListOK' /\ WorkersOK'
    BY <1>5 DEF Coherent, ListOK, WorkersOK, vars
  <2>3. QED
    BY <2>1, <2>2 DEF Coherent
<1>6. QED
  BY <1>1, <1>2, <1>3, <1>4, <1>5 DEF Next

LEMMA AlwaysCoherent == Spec => []Coherent
BY InitCoherent, NextCoherent, PTL DEF Spec

-----------------------------------------------------------------------------
(***************************************************************************)
(* Theorems.                                                               *)
(***************************************************************************)
\* The types of the state of Dispatch; the list of a service never holds a
\* handler twice (ServiceHandlerList.Append and its AfterFunc).
THEOREM TypeCorrect == Spec => []TypeOK
BY AlwaysCoherent, PTL DEF Coherent

\* handleRequest answers Unimplemented only if no handler was listed from the
\* first of its reads to the last.
THEOREM KnownStaysKnown == Spec => []NeverUnknown
<1>1. Coherent => NeverUnknown
  BY DEF Coherent, TypeOK, WorkersOK, Settled, NeverUnknown
<1>2. QED
  BY <1>1, AlwaysCoherent, PTL

\* A request that is not broadcast is served once, by the first handler that
\* stays or by one that was listed before it; a broadcast calls no handler
\* twice.
THEOREM ServedByTheFirst == Spec => []FirstServes
<1>1. ASSUME Coherent
      PROVE  FirstServes
  <2> SUFFICES ASSUME NEW r \in Requests
               PROVE  /\ r \notin Broadcasts /\ reply[r] \in {"ok", "error"} =>
                           Len(invoked[r]) = 1
                      /\ IsInjective(invoked[r])
                      /\ /\ invoked[r] # <<>>
                         /\ r \notin Broadcasts
                         /\ steady[r] # <<>>
                         => \/ invoked[r][1] = steady[r][1]
                            \/ invoked[r][1] \notin ToSet(steady[r])
    BY DEF FirstServes
  <2>1. /\ steady[r] \in Seq(Handlers) /\ invoked[r] \in Seq(Handlers)
        /\ Settled(r, pc[r], steady[r], first[r], todo[r], invoked[r],
                   reply[r])
    BY <1>1, CoherentTypes
  <2>2. pc[r] \in {"idle", "first", "strategy", "clone", "broadcast",
                   "invoke", "done"}
    BY <1>1 DEF Coherent, TypeOK
  <2>3. IsInjective(invoked[r])
    BY <2>1 DEF Settled
  <2>4. ASSUME r \notin Broadcasts, reply[r] \in {"ok", "error"}
        PROVE  Len(invoked[r]) = 1
    BY <2>1, <2>2, <2>4 DEF Settled
  <2>5. ASSUME invoked[r] # <<>>, r \notin Broadcasts,
               invoked[r][1] \in ToSet(steady[r])
        PROVE  invoked[r][1] = steady[r][1]
    <3>1. Unpassed(invoked[r][1], steady[r])
      BY <2>1, <2>2, <2>5 DEF Settled
    <3>2. PICK i \in 1 .. Len(steady[r]) : invoked[r][1] = steady[r][i]
      BY <2>1, <2>5, IndexFacts
    <3>3. i = 1
      BY <3>1, <3>2 DEF Unpassed
    <3>4. QED
      BY <3>2, <3>3
  <2>6. QED
    BY <2>3, <2>4, <2>5
<1>2. QED
  BY <1>1, AlwaysCoherent, PTL

\* A broadcast that is answered has called every handler that was listed all
\* the while, if there are two of them.
THEOREM BroadcastReachesAll == Spec => []BroadcastReaches
<1>1. Broadcasts \subseteq Requests
  BY DispatchAssumption DEF DispatchAssumption
<1>2. Coherent => BroadcastReaches
  BY <1>1 DEF Coherent, WorkersOK, Settled, BroadcastReaches
<1>3. QED
  BY <1>2, AlwaysCoherent, PTL
=============================================================================
