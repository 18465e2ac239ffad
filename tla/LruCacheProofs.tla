--------------------------- MODULE LruCacheProofs ---------------------------
(***************************************************************************)
(* The cache, for any number of threads, keys, entries and sizes: a        *)
(* borrowed entry is not freed, every entry and payload has one owner,     *)
(* table, list and counters agree, and the whole implements the policy of  *)
(* RecencyCache.  The invariant treats the linked list as the sequence     *)
(* that a walk along it finds.                                             *)
(***************************************************************************)
EXTENDS LruPolicy, FiniteSetTheorems, TLAPS

USE ZenonT(60)

-----------------------------------------------------------------------------
(* Sequences.                                                              *)

\* A function on 1 .. n is a sequence.
LEMMA FunctionSeq == \A S : \A n \in Nat : [1 .. n -> S] \subseteq Seq(S)
BY SMTT(60)

\* A sequence is a function on 1 .. Len.
LEMMA SeqFunction ==
  ASSUME NEW S, NEW s \in Seq(S)
  PROVE  Len(s) \in Nat /\ s \in [1 .. Len(s) -> S] /\ DOMAIN s = 1 .. Len(s)
BY SMTT(60)

\* Two sequences that agree at every position are equal.
LEMMA SameSeq ==
  ASSUME NEW S, NEW s \in Seq(S), NEW r \in Seq(S), Len(s) = Len(r),
         \A n \in 1 .. Len(s) : s[n] = r[n]
  PROVE  s = r
<1>1. s \in [1 .. Len(s) -> S] /\ r \in [1 .. Len(s) -> S]  BY SeqFunction
<1> QED  BY SMTT(60), <1>1

\* Only the empty sequence has no position.
LEMMA EmptySequence ==
  ASSUME NEW S
  PROVE  /\ <<>> \in Seq(S) /\ Len(<<>>) = 0
         /\ \A s \in Seq(S) : s # <<>> => Len(s) \in Nat \ {0}
<1>1. <<>> \in Seq(S) /\ Len(<<>>) = 0  BY SMTT(60)
<1>2. ASSUME NEW s \in Seq(S), Len(s) = 0 PROVE s = <<>>
  <2>1. \A n \in 1 .. Len(s) : s[n] = <<>>[n]  BY SMTT(60), <1>2
  <2> QED  BY <1>1, <1>2, <2>1, SameSeq
<1>3. ASSUME NEW s \in Seq(S), s # <<>> PROVE Len(s) \in Nat \ {0}
  <2>1. Len(s) # 0  BY <1>2, <1>3
  <2> QED  BY <2>1, SeqFunction
<1> QED  BY <1>1, <1>3

-----------------------------------------------------------------------------
(* The list.                                                               *)

Lists == [head : Entries \cup {NULL}, tail : Entries \cup {NULL},
          prev : [Entries -> Entries \cup {NULL}], next : [Entries -> Entries \cup {NULL}]]

\* list_unlink takes one entry out.
LEMMA UnlinkLinked ==
  ASSUME NEW l \in Lists, NEW C \in SUBSET Entries, Linked(l, C), NEW x \in C
  PROVE  list_unlink(l, x) \in Lists /\ Linked(list_unlink(l, x), C \ {x})
<1> DEFINE p == l.prev[x]  n == l.next[x]  m == list_unlink(l, x)
<1>1. NULL \notin Entries  BY CacheConfig
<1>2. /\ l.prev \in [Entries -> Entries \cup {NULL}] /\ l.next \in [Entries -> Entries \cup {NULL}]
      /\ l.head \in Entries \cup {NULL} /\ l.tail \in Entries \cup {NULL}
      /\ p \in Entries \cup {NULL} /\ n \in Entries \cup {NULL}
  BY DEF Lists
<1>3. /\ m.head = IF p = NULL THEN n ELSE l.head
      /\ m.tail = IF n = NULL THEN p ELSE l.tail
      /\ m.prev = At(At(l.prev, n, p), x, NULL)
      /\ m.next = At(At(l.next, p, n), x, NULL)
  BY DEF list_unlink
<1>4. /\ m.prev = [y \in Entries |-> IF y = x THEN NULL ELSE IF y = n THEN p ELSE l.prev[y]]
      /\ m.next = [y \in Entries |-> IF y = x THEN NULL ELSE IF y = p THEN n ELSE l.next[y]]
  BY <1>2, <1>3 DEF At
<1>5. m \in Lists  BY SMTT(60), <1>2, <1>4 DEF list_unlink, Lists
<1>6. /\ \A a, b \in Entries : l.next[a] = b <=> l.prev[b] = a
      /\ \A a \in Entries \ C : l.prev[a] = NULL /\ l.next[a] = NULL
      /\ \A a \in Entries : l.head = a <=> a \in C /\ l.prev[a] = NULL
      /\ \A a \in Entries : l.tail = a <=> a \in C /\ l.next[a] = NULL
      /\ l.head = NULL <=> l.tail = NULL
  BY DEF Linked
<1> HIDE DEF m, p, n
<1>7. /\ \A a \in Entries : l.next[a] = x <=> a = p
      /\ \A a \in Entries : l.prev[a] = x <=> a = n
  BY SMTT(60), <1>1, <1>2, <1>6 DEF p, n
<1>8. \A a, b \in Entries : m.next[a] = b <=> m.prev[b] = a
  BY SMTT(60), <1>1, <1>2, <1>4, <1>6, <1>7 DEF p, n
<1>9. \A a \in Entries \ (C \ {x}) : m.prev[a] = NULL /\ m.next[a] = NULL
  BY SMTT(60), <1>1, <1>2, <1>4, <1>6, <1>7
<1>10. \A a \in Entries : m.head = a <=> a \in C \ {x} /\ m.prev[a] = NULL
  BY SMTT(60), <1>1, <1>2, <1>3, <1>4, <1>6, <1>7 DEF p, n
<1>11. \A a \in Entries : m.tail = a <=> a \in C \ {x} /\ m.next[a] = NULL
  BY SMTT(60), <1>1, <1>2, <1>3, <1>4, <1>6, <1>7 DEF p, n
<1>12. m.head = NULL <=> m.tail = NULL
  BY SMTT(60), <1>1, <1>2, <1>3, <1>6, <1>7 DEF p, n
<1> QED  BY <1>5, <1>8, <1>9, <1>10, <1>11, <1>12 DEF Linked, m

\* list_push_front adds one.
LEMMA PushLinked ==
  ASSUME NEW l \in Lists, NEW C \in SUBSET Entries, Linked(l, C), NEW x \in Entries \ C
  PROVE  list_push_front(l, x) \in Lists /\ Linked(list_push_front(l, x), C \cup {x})
<1> DEFINE m == list_push_front(l, x)
<1>1. NULL \notin Entries  BY CacheConfig
<1>2. /\ l.prev \in [Entries -> Entries \cup {NULL}] /\ l.next \in [Entries -> Entries \cup {NULL}]
      /\ l.head \in Entries \cup {NULL} /\ l.tail \in Entries \cup {NULL}
  BY DEF Lists
<1>3. /\ \A a, b \in Entries : l.next[a] = b <=> l.prev[b] = a
      /\ \A a \in Entries \ C : l.prev[a] = NULL /\ l.next[a] = NULL
      /\ \A a \in Entries : l.head = a <=> a \in C /\ l.prev[a] = NULL
      /\ \A a \in Entries : l.tail = a <=> a \in C /\ l.next[a] = NULL
      /\ l.head = NULL <=> l.tail = NULL
  BY DEF Linked
<1>4. l.head # x /\ l.prev[x] = NULL /\ l.next[x] = NULL  BY <1>3
<1>5. /\ m.head = x
      /\ m.tail = IF l.tail = NULL THEN x ELSE l.tail
      /\ m.prev = [y \in Entries |-> IF y = l.head THEN x ELSE l.prev[y]]
      /\ m.next = [y \in Entries |-> IF y = x THEN l.head ELSE l.next[y]]
  BY <1>2, <1>4 DEF list_push_front, At
<1>6. m \in Lists  BY SMTT(60), <1>2, <1>5 DEF list_push_front, Lists
<1> HIDE DEF m
<1>7. \A a, b \in Entries : m.next[a] = b <=> m.prev[b] = a
  BY SMTT(60), <1>1, <1>2, <1>3, <1>4, <1>5
<1>8. \A a \in Entries \ (C \cup {x}) : m.prev[a] = NULL /\ m.next[a] = NULL
  BY SMTT(60), <1>1, <1>2, <1>3, <1>4, <1>5
<1>9. \A a \in Entries : m.head = a <=> a \in C \cup {x} /\ m.prev[a] = NULL
  BY SMTT(60), <1>1, <1>2, <1>3, <1>4, <1>5
<1>10. \A a \in Entries : m.tail = a <=> a \in C \cup {x} /\ m.next[a] = NULL
  BY SMTT(60), <1>1, <1>2, <1>3, <1>4, <1>5
<1>11. m.head = NULL <=> m.tail = NULL  BY <1>1, <1>2, <1>5
<1> QED  BY <1>6, <1>7, <1>8, <1>9, <1>10, <1>11 DEF Linked, m

\* list_move_front keeps the entries.
LEMMA MoveLinked ==
  ASSUME NEW l \in Lists, NEW C \in SUBSET Entries, Linked(l, C), NEW x \in C
  PROVE  list_move_front(l, x) \in Lists /\ Linked(list_move_front(l, x), C)
<1>1. CASE l.head = x  BY <1>1 DEF list_move_front
<1>2. CASE l.head # x
  <2> DEFINE m == list_unlink(l, x)
  <2>1. m \in Lists /\ Linked(m, C \ {x})  BY UnlinkLinked
  <2>2. x \in Entries \ (C \ {x}) /\ (C \ {x}) \cup {x} = C  OBVIOUS
  <2> HIDE DEF m
  <2>3. /\ list_push_front(m, x) \in Lists
        /\ Linked(list_push_front(m, x), (C \ {x}) \cup {x})
    BY <2>1, <2>2, PushLinked
  <2> QED  BY <1>2, <2>2, <2>3 DEF list_move_front, m
<1> QED  BY <1>1, <1>2

-----------------------------------------------------------------------------
(* The list as a sequence.                                                 *)

\* A set of numbers has a least one.
LEMMA LeastNumber ==
  ASSUME NEW S \in SUBSET Nat, S # {}
  PROVE  \E n \in S : \A m \in S : n <= m
<1> DEFINE R == {ss \in Nat \X Nat : ss[1] < ss[2]}
<1>1. OpToRel(<, Nat) = R  BY DEF OpToRel
<1>2. IsWellFoundedOn(R, Nat)  BY <1>1, NatLessThanWellFounded
<1>3. \E x \in S : \A y \in S : ~(<<y, x>> \in R)  BY <1>2, WFMin
<1>4. \A x, y \in Nat : ~(<<y, x>> \in R) => x <= y  BY SMTT(60)
<1> QED  BY <1>3, <1>4

\* Chained, for a list of N entries.
Follows(l, C, s, N) ==
  /\ s \in [1 .. N -> Entries]
  /\ \A y : y \in C <=> \E n \in 1 .. N : y = s[n]
  /\ \A m, n \in 1 .. N : s[m] = s[n] => m = n
  /\ N = 0 => l.head = NULL
  /\ N # 0 => l.head = s[1]
  /\ \A n \in 1 .. N : /\ n = N => l.next[s[n]] = NULL
                       /\ n # N => l.next[s[n]] = s[n + 1]

\* The two say the same.
LEMMA ChainedFollows ==
  ASSUME NEW l, NEW C, NEW s
  PROVE  /\ Chained(l, C, s) => Len(s) \in Nat /\ Follows(l, C, s, Len(s))
         /\ \A N \in Nat : Follows(l, C, s, N) => Chained(l, C, s) /\ Len(s) = N
<1>1. ASSUME s \in Seq(Entries)
      PROVE  /\ Len(s) \in Nat /\ s \in [1 .. Len(s) -> Entries] /\ DOMAIN s = 1 .. Len(s)
             /\ s = <<>> <=> Len(s) = 0
  BY <1>1, SeqFunction, EmptySequence
<1>2. ASSUME Chained(l, C, s) PROVE Len(s) \in Nat /\ Follows(l, C, s, Len(s))
  BY <1>1, <1>2 DEF Chained, Follows
<1>3. ASSUME NEW N \in Nat, Follows(l, C, s, N) PROVE Chained(l, C, s) /\ Len(s) = N
  <2>1. s \in [1 .. N -> Entries]  BY <1>3 DEF Follows
  <2>2. s \in Seq(Entries)  BY <2>1, FunctionSeq
  <2>3. DOMAIN s = 1 .. N  BY <2>1
  <2>4. 1 .. N = 1 .. Len(s)  BY <1>1, <2>2, <2>3
  <2>5. N = Len(s)
    <3>1. Len(s) \in Nat  BY <1>1, <2>2
    <3> QED  BY SMTT(60), <2>4, <3>1
  <2>6. Follows(l, C, s, Len(s))  BY <1>3, <2>5
  <2>7. C = {s[n] : n \in DOMAIN s}
    <3>1. \A y : y \in C <=> \E n \in 1 .. Len(s) : y = s[n]  BY <2>6 DEF Follows
    <3>2. DOMAIN s = 1 .. Len(s)  BY <1>1, <2>2
    <3> QED  BY <3>1, <3>2
  <2>8. l.head = IF s = <<>> THEN NULL ELSE s[1]  BY <1>1, <2>2, <2>6 DEF Follows
  <2> QED  BY <1>1, <2>2, <2>5, <2>6, <2>7, <2>8 DEF Chained, Follows
<1> QED  BY <1>2, <1>3

\* list_push_front puts its entry before the others.
LEMMA PushFollows ==
  ASSUME NEW l \in Lists, NEW C \in SUBSET Entries, NEW x \in Entries \ C,
         NEW N \in Nat, NEW s, Follows(l, C, s, N)
  PROVE  Follows(list_push_front(l, x), C \cup {x},
                 [n \in 1 .. N + 1 |-> IF n = 1 THEN x ELSE s[n - 1]], N + 1)
<1> DEFINE m == list_push_front(l, x)  w == [n \in 1 .. N + 1 |-> IF n = 1 THEN x ELSE s[n - 1]]
<1>1. m.head = x /\ m.next = [y \in Entries |-> IF y = x THEN l.head ELSE l.next[y]]
  BY DEF list_push_front, At, Lists
<1>2. /\ N + 1 \in Nat /\ N + 1 # 0 /\ 1 \in 1 .. N + 1 /\ (N = 0 => N + 1 = 1) /\ (N + 1 = 1 => N = 0)
      /\ N # 0 => 1 \in 1 .. N /\ 1 + 1 \in 1 .. N + 1 /\ 1 + 1 # 1 /\ (1 + 1) - 1 = 1
      /\ \A n \in 1 .. N + 1 : n # 1 => /\ n - 1 \in 1 .. N /\ (n - 1 = N <=> n = N + 1)
                                        /\ (n - 1) + 1 = (n + 1) - 1 /\ n + 1 # 1
                                        /\ n # N + 1 => n + 1 \in 1 .. N + 1
      /\ \A n \in 1 .. N : n + 1 \in 1 .. N + 1 /\ n + 1 # 1 /\ (n + 1) - 1 = n
      /\ \A a, b \in 1 .. N + 1 : a - 1 = b - 1 => a = b
  BY SMTT(60)
<1>3. \A n \in 1 .. N : s[n] \in Entries /\ s[n] # x  BY DEF Follows
<1>4. w[1] = x /\ \A n \in 1 .. N + 1 : n # 1 => w[n] = s[n - 1]  BY <1>2
<1>5. w \in [1 .. N + 1 -> Entries]  BY <1>2, <1>3
<1> HIDE DEF m, w
<1>6. \A y : y \in C \cup {x} <=> \E n \in 1 .. N + 1 : y = w[n]
  <2> SUFFICES ASSUME NEW y PROVE y \in C \cup {x} <=> \E n \in 1 .. N + 1 : y = w[n]  OBVIOUS
  <2>1. ASSUME y \in C PROVE \E n \in 1 .. N + 1 : y = w[n]
    <3>1. PICK n \in 1 .. N : y = s[n]  BY <2>1 DEF Follows
    <3>2. w[n + 1] = s[n]  BY <1>2, <1>4
    <3> QED  BY <1>2, <3>1, <3>2
  <2>2. ASSUME NEW n \in 1 .. N + 1, y = w[n] PROVE y \in C \cup {x}
    BY <1>2, <1>4, <2>2 DEF Follows
  <2> QED  BY <1>2, <1>4, <2>1, <2>2
<1>7. \A a, b \in 1 .. N + 1 : w[a] = w[b] => a = b
  <2> SUFFICES ASSUME NEW a \in 1 .. N + 1, NEW b \in 1 .. N + 1, w[a] = w[b] PROVE a = b  OBVIOUS
  <2>1. CASE a = 1 \/ b = 1
    <3>1. ASSUME NEW n \in 1 .. N + 1, n # 1 PROVE w[n] # x
      <4>1. n - 1 \in 1 .. N  BY <1>2, <3>1
      <4> QED  BY <1>3, <1>4, <3>1, <4>1
    <3> QED  BY <1>4, <2>1, <3>1
  <2>2. CASE a # 1 /\ b # 1
    <3>1. a - 1 \in 1 .. N /\ b - 1 \in 1 .. N /\ s[a - 1] = s[b - 1]  BY <1>2, <1>4, <2>2
    <3> QED  BY <1>2, <3>1 DEF Follows
  <2> QED  BY <2>1, <2>2
<1>8. ASSUME NEW n \in 1 .. N + 1
      PROVE  /\ n = N + 1 => m.next[w[n]] = NULL
             /\ n # N + 1 => m.next[w[n]] = w[n + 1]
  <2>1. CASE n = 1
    <3>1. m.next[w[n]] = l.head  BY <1>1, <1>4, <2>1
    <3>2. CASE N = 0  BY <1>2, <2>1, <3>1, <3>2 DEF Follows
    <3>3. CASE N # 0
      <4>1. w[1 + 1] = s[1]  BY <1>2, <1>4, <3>3
      <4> QED  BY <1>2, <2>1, <3>1, <3>3, <4>1 DEF Follows
    <3> QED  BY <3>2, <3>3
  <2>2. CASE n # 1
    <3>1. n - 1 \in 1 .. N /\ w[n] = s[n - 1]  BY <1>2, <1>4, <2>2
    <3>2. m.next[w[n]] = l.next[s[n - 1]]  BY <1>1, <1>3, <3>1
    <3>3. n # N + 1 => w[n + 1] = s[(n - 1) + 1]  BY SMTT(60), <1>2, <1>4, <2>2
    <3> QED  BY <1>2, <2>2, <3>1, <3>2, <3>3 DEF Follows
  <2> QED  BY <2>1, <2>2
<1>9. Follows(m, C \cup {x}, w, N + 1)  BY <1>1, <1>2, <1>4, <1>5, <1>6, <1>7, <1>8 DEF Follows
<1> QED  BY <1>9 DEF m, w

\* list_unlink takes its entry out and leaves the others in their order.
LEMMA UnlinkFollows ==
  ASSUME NEW l \in Lists, NEW C \in SUBSET Entries, Linked(l, C), NEW N \in Nat, NEW s,
         Follows(l, C, s, N), NEW i \in 1 .. N
  PROVE  Follows(list_unlink(l, s[i]), C \ {s[i]},
                 [n \in 1 .. N - 1 |-> IF n < i THEN s[n] ELSE s[n + 1]], N - 1)
<1> DEFINE x == s[i]  p == l.prev[x]  q == l.next[x]  m == list_unlink(l, x)
           w == [n \in 1 .. N - 1 |-> IF n < i THEN s[n] ELSE s[n + 1]]
<1>1. /\ m.head = IF p = NULL THEN q ELSE l.head
      /\ m.next = [y \in Entries |-> IF y = x THEN NULL ELSE IF y = p THEN q ELSE l.next[y]]
  BY DEF list_unlink, At, Lists
<1>2. /\ N - 1 \in Nat /\ N # 0 /\ 1 \in 1 .. N /\ i \in Nat /\ N \in 1 .. N
      /\ N - 1 = 0 <=> N = 1
      /\ i # 1 => /\ i - 1 \in 1 .. N /\ i - 1 # N /\ (i - 1) + 1 = i /\ 1 < i
                  /\ N # 1 /\ 1 \in 1 .. N - 1
      /\ i # N => i + 1 \in 1 .. N /\ i \in 1 .. N - 1
      /\ ~(i < i) /\ (N = 1 => i = 1) /\ (i = 1 /\ N # 1 => i # N /\ ~(1 < i) /\ 1 \in 1 .. N - 1)
      /\ \A n \in 1 .. N - 1 : n \in 1 .. N /\ n + 1 \in 1 .. N
      /\ \A n \in 1 .. N : n # i /\ ~(n < i) => /\ n - 1 \in 1 .. N - 1 /\ ~(n - 1 < i)
                                               /\ (n - 1) + 1 = n
      /\ \A n \in 1 .. N : n # i /\ n < i => n \in 1 .. N - 1
      /\ \A a, b \in 1 .. N - 1 : a + 1 = b + 1 => a = b
      /\ \A a, b \in 1 .. N - 1 : a < i /\ ~(b < i) => a # b + 1
      /\ \A n \in 1 .. N - 1 : (n < i => n # i) /\ (~(n < i) => n + 1 # i)
  BY SMTT(60)
<1>3. x \in Entries /\ NULL \notin Entries /\ (\A n \in 1 .. N : s[n] \in Entries /\ (s[n] = x <=> n = i))
  BY CacheConfig DEF Follows
<1>4. p = IF i = 1 THEN NULL ELSE s[i - 1]
  <2>1. /\ \A a, b \in Entries : l.next[a] = b <=> l.prev[b] = a
        /\ \A a \in Entries : l.head = a <=> a \in C /\ l.prev[a] = NULL
    BY DEF Linked
  <2>2. CASE i = 1  BY <1>2, <1>3, <2>1, <2>2 DEF Follows
  <2>3. CASE i # 1
    <3>1. l.next[s[i - 1]] = x  BY <1>2, <2>3 DEF Follows
    <3> QED  BY <1>2, <1>3, <2>1, <2>3, <3>1
  <2> QED  BY <2>2, <2>3
<1>5. q = IF i = N THEN NULL ELSE s[i + 1]  BY DEF Follows
<1>6. \A n \in 1 .. N - 1 : w[n] = IF n < i THEN s[n] ELSE s[n + 1]  OBVIOUS
<1>7. w \in [1 .. N - 1 -> Entries]  BY <1>2, <1>3
<1> HIDE DEF m, w, p, q, x
<1>8. \A y : y \in C \ {x} <=> \E n \in 1 .. N - 1 : y = w[n]
  <2> SUFFICES ASSUME NEW y PROVE y \in C \ {x} <=> \E n \in 1 .. N - 1 : y = w[n]  OBVIOUS
  <2>1. ASSUME NEW n \in 1 .. N - 1, y = w[n] PROVE y \in C \ {x}
    <3>1. PICK j \in 1 .. N : j # i /\ w[n] = s[j]  BY <1>2, <1>6
    <3> QED  BY <1>3, <2>1, <3>1 DEF Follows
  <2>2. ASSUME y \in C \ {x} PROVE \E n \in 1 .. N - 1 : y = w[n]
    <3>1. PICK n \in 1 .. N : y = s[n] /\ n # i  BY <1>3, <2>2 DEF Follows
    <3>2. CASE n < i  BY <1>2, <1>6, <3>1, <3>2
    <3>3. CASE ~(n < i)
      <4>1. n - 1 \in 1 .. N - 1 /\ w[n - 1] = s[(n - 1) + 1]  BY <1>2, <1>6, <3>1, <3>3
      <4> QED  BY <1>2, <3>1, <3>3, <4>1
    <3> QED  BY <3>2, <3>3
  <2> QED  BY <2>1, <2>2
<1>9. \A a, b \in 1 .. N - 1 : w[a] = w[b] => a = b
  <2> SUFFICES ASSUME NEW a \in 1 .. N - 1, NEW b \in 1 .. N - 1, w[a] = w[b] PROVE a = b  OBVIOUS
  <2>1. \A c, d \in 1 .. N : s[c] = s[d] => c = d  BY DEF Follows
  <2>2. /\ w[a] = IF a < i THEN s[a] ELSE s[a + 1]
        /\ w[b] = IF b < i THEN s[b] ELSE s[b + 1]
    BY <1>6
  <2> QED  BY <1>2, <2>1, <2>2
<1>10. (N - 1 = 0 => m.head = NULL) /\ (N - 1 # 0 => m.head = w[1])
  <2>1. CASE i = 1
    <3>1. m.head = q  BY <1>1, <1>4, <2>1
    <3> QED  BY <1>2, <1>5, <1>6, <2>1, <3>1
  <2>2. CASE i # 1
    <3>1. i - 1 \in 1 .. N /\ 1 \in 1 .. N - 1 /\ 1 < i  BY <1>2, <2>2
    <3>2. p # NULL  BY <1>3, <1>4, <2>2, <3>1
    <3>3. m.head = l.head  BY <1>1, <3>2
    <3>4. w[1] = s[1]  BY <1>6, <3>1
    <3> QED  BY <1>2, <2>2, <3>3, <3>4 DEF Follows
  <2> QED  BY <2>1, <2>2
<1>11. ASSUME NEW n \in 1 .. N - 1
       PROVE  /\ n = N - 1 => m.next[w[n]] = NULL
              /\ n # N - 1 => m.next[w[n]] = w[n + 1]
  <2>1. CASE n < i - 1
    <3>1. /\ n \in 1 .. N /\ n + 1 \in 1 .. N - 1 /\ n < i /\ n + 1 < i /\ n # i
          /\ n # N /\ n # N - 1 /\ n # i - 1 /\ i # 1
      BY SMTT(60), <2>1
    <3>2. w[n] = s[n] /\ w[n + 1] = s[n + 1]  BY <1>6, <3>1
    <3>3. s[n] # x /\ s[n] # p /\ s[n] \in Entries  BY <1>2, <1>3, <1>4, <3>1 DEF Follows
    <3>4. m.next[s[n]] = l.next[s[n]]  BY <1>1, <3>3
    <3> QED  BY <3>1, <3>2, <3>4 DEF Follows
  <2>2. CASE n = i - 1
    <3>1. /\ n \in 1 .. N /\ n < i /\ n # i /\ i # 1 /\ n + 1 = i
          /\ n = N - 1 <=> i = N
      BY SMTT(60), <2>2
    <3>2. w[n] = s[n] /\ s[n] = p /\ s[n] # x /\ s[n] \in Entries  BY <1>3, <1>4, <1>6, <2>2, <3>1
    <3>3. m.next[w[n]] = q  BY <1>1, <3>2
    <3>4. i # N => w[i] = s[i + 1]  BY <1>2, <1>6
    <3> QED  BY <1>5, <3>1, <3>3, <3>4
  <2>3. CASE n >= i
    <3>1. /\ n + 1 \in 1 .. N /\ ~(n < i) /\ n + 1 # i /\ (n + 1 = N <=> n = N - 1)
          /\ n + 1 # i - 1
          /\ n # N - 1 => n + 1 \in 1 .. N - 1 /\ ~(n + 1 < i)
      BY SMTT(60), <2>3
    <3>2. w[n] = s[n + 1] /\ (n # N - 1 => w[n + 1] = s[(n + 1) + 1])  BY <1>6, <3>1
    <3>3. s[n + 1] # x /\ s[n + 1] # p /\ s[n + 1] \in Entries
      BY <1>2, <1>3, <1>4, <3>1 DEF Follows
    <3>4. m.next[s[n + 1]] = l.next[s[n + 1]]  BY <1>1, <3>3
    <3> QED  BY <3>1, <3>2, <3>4 DEF Follows
  <2> QED  BY SMTT(60), <2>1, <2>2, <2>3
<1>12. Follows(m, C \ {x}, w, N - 1)  BY <1>2, <1>7, <1>8, <1>9, <1>10, <1>11 DEF Follows
<1> QED  BY <1>12 DEF m, w, x

\* The sequence s with its element at i in front.
ToFront(s, i) == [n \in DOMAIN s |-> s[IF n = 1 THEN i ELSE IF n <= i THEN n - 1 ELSE n]]

\* list_move_front moves its entry before the others.
LEMMA MoveFollows ==
  ASSUME NEW l \in Lists, NEW C \in SUBSET Entries, Linked(l, C), NEW N \in Nat, NEW s,
         Follows(l, C, s, N), NEW i \in 1 .. N
  PROVE  Follows(list_move_front(l, s[i]), C, ToFront(s, i), N)
<1>1. s \in [1 .. N -> Entries] /\ DOMAIN s = 1 .. N  BY DEF Follows
<1>2. CASE l.head = s[i]
  <2>1. N # 0 /\ 1 \in 1 .. N  BY SMTT(60)
  <2>2. i = 1  BY <1>2, <2>1 DEF Follows
  <2>3. \A n \in 1 .. N : (IF n = 1 THEN i ELSE IF n <= i THEN n - 1 ELSE n) = n
    BY SMTT(60), <2>2
  <2>4. ToFront(s, i) = [n \in 1 .. N |-> s[n]]  BY <1>1, <2>3 DEF ToFront
  <2>5. ToFront(s, i) = s  BY <1>1, <2>4
  <2> QED  BY <1>2, <2>5 DEF list_move_front
<1>3. CASE l.head # s[i]
  <2> DEFINE m == list_unlink(l, s[i])
             w == [n \in 1 .. N - 1 |-> IF n < i THEN s[n] ELSE s[n + 1]]
             v == [n \in 1 .. (N - 1) + 1 |-> IF n = 1 THEN s[i] ELSE w[n - 1]]
  <2>1. s[i] \in C  BY DEF Follows
  <2>2. m \in Lists  BY <2>1, UnlinkLinked
  <2>3. Follows(m, C \ {s[i]}, w, N - 1)  BY UnlinkFollows
  <2>4. N - 1 \in Nat /\ (N - 1) + 1 = N  BY SMTT(60)
  <2>5. s[i] \in Entries \ (C \ {s[i]}) /\ (C \ {s[i]}) \cup {s[i]} = C /\ C \ {s[i]} \in SUBSET Entries
    BY <2>1
  <2> HIDE DEF m
  <2>6. Follows(list_push_front(m, s[i]), (C \ {s[i]}) \cup {s[i]}, v, (N - 1) + 1)
    BY <2>2, <2>3, <2>4, <2>5, PushFollows
  <2>7. \A n \in 1 .. N : v[n] = ToFront(s, i)[n]
    <3>1. \A n \in 1 .. N : n # 1 => n - 1 \in 1 .. N - 1 /\ (n - 1 < i <=> n <= i) /\ (n - 1) + 1 = n
      BY SMTT(60)
    <3>2. \A n \in 1 .. N : n # 1 => w[n - 1] = IF n <= i THEN s[n - 1] ELSE s[n]  BY <3>1
    <3> HIDE DEF w
    <3> QED  BY <1>1, <2>4, <3>2 DEF ToFront
  <2>8. v = ToFront(s, i)  BY <1>1, <2>4, <2>7 DEF ToFront
  <2> QED  BY <1>3, <2>4, <2>5, <2>6, <2>8 DEF list_move_front, m
<1> QED  BY <1>2, <1>3

\* A list of different entries is no longer than there are entries.
LEMMA LengthBound ==
  ASSUME NEW N \in Nat, NEW s \in [1 .. N -> Entries], \A m, n \in 1 .. N : s[m] = s[n] => m = n
  PROVE  Cardinality(Entries) \in Nat /\ N <= Cardinality(Entries)
<1>1. IsFiniteSet(Entries) /\ Cardinality(Entries) \in Nat  BY CacheConfig, FS_CardinalityType
<1>2. s \in Injection(1 .. N, Entries)  BY DEF Injection, IsInjective
<1>3. IsFiniteSet(1 .. N) /\ Cardinality(1 .. N) = N
  <2>1. /\ IsFiniteSet(1 .. N)
        /\ Cardinality(1 .. N) = IF 1 > N THEN 0 ELSE N - 1 + 1
    <3>1. 1 \in Int /\ N \in Int  BY SMTT(60)
    <3> QED  BY <3>1, FS_Interval
  <2> QED  BY SMTT(60), <2>1
<1>4. Cardinality(1 .. N) <= Cardinality(Entries)  BY <1>1, <1>2, FS_Injection
<1> QED  BY <1>1, <1>3, <1>4

\* One step of the walk along the list, from the first n - 1 entries.
Step(l, w, n) ==
  LET x == IF n = 1 THEN l.head ELSE IF Len(w) < n - 1 THEN NULL ELSE l.next[w[n - 1]]
  IN IF x = NULL THEN w ELSE Append(w, x)

\* The first n entries, or all of them.
Prefix(s, n) == [i \in 1 .. n |-> s[i]]

\* A prefix grows by an element at a time.
LEMMA PrefixGrows ==
  ASSUME NEW N \in Nat, NEW s \in [1 .. N -> Entries]
  PROVE  /\ Prefix(s, 0) = <<>> /\ Prefix(s, N) = s
         /\ \A n \in 0 .. N : Prefix(s, n) \in Seq(Entries) /\ Len(Prefix(s, n)) = n
         /\ \A n \in 1 .. N : Prefix(s, n) = Append(Prefix(s, n - 1), s[n])
<1>1. ASSUME NEW n \in 0 .. N PROVE Prefix(s, n) \in Seq(Entries) /\ Len(Prefix(s, n)) = n
  <2>1. n \in Nat /\ \A i \in 1 .. n : i \in 1 .. N  BY SMTT(60)
  <2>2. Prefix(s, n) \in [1 .. n -> Entries]  BY <2>1 DEF Prefix
  <2>3. Prefix(s, n) \in Seq(Entries)
    <3>1. [1 .. n -> Entries] \subseteq Seq(Entries)  BY <2>1, FunctionSeq
    <3> QED  BY <2>2, <3>1
  <2>4. DOMAIN Prefix(s, n) = 1 .. n  BY <2>2
  <2>5. Len(Prefix(s, n)) \in Nat /\ 1 .. n = 1 .. Len(Prefix(s, n))
    BY <2>3, <2>4, SeqFunction
  <2>6. Len(Prefix(s, n)) = n  BY SMTT(60), <2>1, <2>5
  <2> QED  BY <2>3, <2>6
<1>2. Prefix(s, 0) = <<>>
  <2>1. 0 \in 0 .. N /\ 0 \notin Nat \ {0}  BY SMTT(60)
  <2> QED  BY <1>1, <2>1, EmptySequence
<1>3. Prefix(s, N) = s  BY DEF Prefix
<1>4. ASSUME NEW n \in 1 .. N PROVE Prefix(s, n) = Append(Prefix(s, n - 1), s[n])
  <2> DEFINE a == Prefix(s, n - 1)  b == Append(a, s[n])
  <2>1. n \in 0 .. N /\ n - 1 \in 0 .. N /\ (n - 1) + 1 = n  BY SMTT(60)
  <2>2. a \in Seq(Entries) /\ Len(a) = n - 1 /\ Prefix(s, n) \in Seq(Entries) /\ Len(Prefix(s, n)) = n
    BY <1>1, <2>1
  <2>3. s[n] \in Entries  OBVIOUS
  <2> HIDE DEF a
  <2>4. /\ b \in Seq(Entries) /\ Len(b) = Len(a) + 1
        /\ \A i \in 1 .. Len(a) : b[i] = a[i]
        /\ b[Len(a) + 1] = s[n]
    BY SMTT(60), <2>2, <2>3
  <2>5. \A i \in 1 .. n : i = n \/ i \in 1 .. n - 1  BY SMTT(60)
  <2>6. \A i \in 1 .. n - 1 : a[i] = s[i]  BY DEF a, Prefix
  <2>7. \A i \in 1 .. n : Prefix(s, n)[i] = s[i]  BY DEF Prefix
  <2> HIDE DEF b
  <2>8. \A i \in 1 .. n : Prefix(s, n)[i] = b[i]  BY <2>1, <2>2, <2>4, <2>5, <2>6, <2>7
  <2>9. Prefix(s, n) = b  BY <2>1, <2>2, <2>4, <2>8, SameSeq
  <2> QED  BY <2>9 DEF a, b
<1> QED  BY <1>1, <1>2, <1>3, <1>4

\* A step of the walk takes the next entry, and stops at the last.
LEMMA StepTakes ==
  ASSUME NEW l, NEW C, NEW N \in Nat, NEW s, Follows(l, C, s, N)
  PROVE  \A n \in Nat \ {0} :
           /\ n - 1 < N => Step(l, Prefix(s, n - 1), n) = Prefix(s, n)
           /\ ~(n - 1 < N) => Step(l, Prefix(s, N), n) = Prefix(s, N)
<1> SUFFICES ASSUME NEW n \in Nat \ {0}
             PROVE  /\ n - 1 < N => Step(l, Prefix(s, n - 1), n) = Prefix(s, n)
                    /\ ~(n - 1 < N) => Step(l, Prefix(s, N), n) = Prefix(s, N)
  OBVIOUS
<1>1. s \in [1 .. N -> Entries]  BY DEF Follows
<1>2. /\ N = 0 => l.head = NULL
      /\ N # 0 => l.head = s[1]
      /\ \A i \in 1 .. N : (i = N => l.next[s[i]] = NULL) /\ (i # N => l.next[s[i]] = s[i + 1])
  BY DEF Follows
<1>3. NULL \notin Entries  BY CacheConfig
<1>4. ASSUME n - 1 < N PROVE Step(l, Prefix(s, n - 1), n) = Prefix(s, n)
  <2>1. /\ n \in 1 .. N /\ n - 1 \in 0 .. N /\ N # 0 /\ ~(n - 1 < n - 1)
        /\ n # 1 => n - 1 \in 1 .. N /\ n - 1 # N /\ (n - 1) + 1 = n /\ n - 1 \in 1 .. n - 1
    BY SMTT(60), <1>4
  <2>2. Len(Prefix(s, n - 1)) = n - 1
    <3>1. \A m \in 0 .. N : Len(Prefix(s, m)) = m  BY <1>1, PrefixGrows
    <3> QED  BY <2>1, <3>1
  <2>3. n # 1 => Prefix(s, n - 1)[n - 1] = s[n - 1]  BY <2>1 DEF Prefix
  <2>4. s[n] # NULL  BY <1>1, <1>3, <2>1
  <2>5. Step(l, Prefix(s, n - 1), n) = Append(Prefix(s, n - 1), s[n])
    <3>1. CASE n = 1  BY <1>2, <2>1, <2>4, <3>1 DEF Step
    <3>2. CASE n # 1
      <4>1. l.next[Prefix(s, n - 1)[n - 1]] = s[n]  BY <1>2, <2>1, <2>3, <3>2
      <4> QED  BY <2>1, <2>2, <2>4, <3>2, <4>1 DEF Step
    <3> QED  BY <3>1, <3>2
  <2> QED  BY <1>1, <2>1, <2>5, PrefixGrows
<1>5. ASSUME ~(n - 1 < N) PROVE Step(l, Prefix(s, N), n) = Prefix(s, N)
  <2>1. N \in 0 .. N /\ (n = 1 => N = 0) /\ (n # 1 /\ ~(N < n - 1) => n - 1 = N /\ N \in 1 .. N)
    BY SMTT(60), <1>5
  <2>2. Len(Prefix(s, N)) = N  BY <1>1, <2>1, PrefixGrows
  <2>3. CASE n = 1  BY <1>2, <2>1, <2>3 DEF Step
  <2>4. CASE n # 1 /\ N < n - 1  BY <2>2, <2>4 DEF Step
  <2>5. CASE n # 1 /\ ~(N < n - 1)
    <3>1. Prefix(s, N)[n - 1] = s[N] /\ l.next[s[N]] = NULL  BY <1>2, <2>1, <2>5 DEF Prefix
    <3> QED  BY <2>2, <2>5, <3>1 DEF Step
  <2> QED  BY <2>3, <2>4, <2>5
<1> QED  BY <1>4, <1>5

\* The walk from the head visits the entries in their order, each once, and ends.
LEMMA WalkIs ==
  ASSUME NEW l, NEW C, NEW N \in Nat, NEW s, Follows(l, C, s, N)
  PROVE  Walked(l) = s
<1> DEFINE M == Cardinality(Entries)
           Upto(n) == IF n < N THEN n ELSE N
           g == [n \in 0 .. M |-> Prefix(s, Upto(n))]
           F(f) == [n \in 0 .. M |-> IF n = 0 THEN <<>> ELSE Step(l, f[n - 1], n)]
<1>1. s \in [1 .. N -> Entries] /\ M \in Nat /\ N <= M
  BY LengthBound DEF Follows
<1>2. Walked(l) = (CHOOSE f : f = F(f))[M]  BY DEF Walked, Step
<1>3. \A n \in Nat \ {0} : /\ n - 1 < N => Step(l, Prefix(s, n - 1), n) = Prefix(s, n)
                           /\ ~(n - 1 < N) => Step(l, Prefix(s, N), n) = Prefix(s, N)
  BY SMTT(60), StepTakes
<1>4. ASSUME NEW n \in 0 .. M, NEW w, n # 0 => w = Prefix(s, Upto(n - 1))
      PROVE  (IF n = 0 THEN <<>> ELSE Step(l, w, n)) = Prefix(s, Upto(n))
  <2>1. CASE n = 0
    <3>1. Upto(0) = 0  BY SMTT(60)
    <3> QED  BY <1>1, <2>1, <3>1, PrefixGrows
  <2>2. CASE n # 0
    <3>1. n \in Nat \ {0}  BY SMTT(60), <2>2
    <3>2. CASE n - 1 < N
      <4>1. Upto(n - 1) = n - 1 /\ Upto(n) = n  BY SMTT(60), <3>1, <3>2
      <4>2. n - 1 < N => Step(l, Prefix(s, n - 1), n) = Prefix(s, n)  BY <1>3, <3>1
      <4>3. w = Prefix(s, n - 1)  BY <1>4, <2>2, <4>1
      <4> QED  BY <2>2, <3>2, <4>1, <4>2, <4>3
    <3>3. CASE ~(n - 1 < N)
      <4>1. Upto(n - 1) = N /\ Upto(n) = N  BY SMTT(60), <3>1, <3>3
      <4>2. Step(l, Prefix(s, N), n) = Prefix(s, N)  BY <1>3, <3>1, <3>3
      <4>3. w = Prefix(s, N)  BY <1>4, <2>2, <4>1
      <4> QED  BY <2>2, <4>1, <4>2, <4>3
    <3> QED  BY <3>2, <3>3
  <2> QED  BY <2>1, <2>2
<1>5. \A n \in 0 .. M : n # 0 => n - 1 \in 0 .. M  BY SMTT(60), <1>1
<1> HIDE DEF M, Upto
<1>6. g = F(g)
  <2>1. \A n \in 0 .. M : n # 0 => g[n - 1] = Prefix(s, Upto(n - 1))  BY <1>5
  <2>2. \A n \in 0 .. M : g[n] = IF n = 0 THEN <<>> ELSE Step(l, g[n - 1], n)
    <3> HIDE DEF g
    <3> SUFFICES ASSUME NEW n \in 0 .. M PROVE g[n] = IF n = 0 THEN <<>> ELSE Step(l, g[n - 1], n)
      OBVIOUS
    <3>1. g[n] = Prefix(s, Upto(n))  BY DEF g
    <3> QED  BY <1>4, <2>1, <3>1
  <2> QED  BY <2>2
<1>7. PICK f : f = F(f) /\ Walked(l) = f[M]
  <2>1. \E f : f = F(f)  BY <1>6
  <2> QED  BY <1>2, <2>1
<1>8. \A n \in 0 .. M : f[n] = Prefix(s, Upto(n))
  <2> DEFINE Bad == {n \in 0 .. M : f[n] # Prefix(s, Upto(n))}
  <2>1. SUFFICES ASSUME Bad # {} PROVE FALSE  OBVIOUS
  <2>2. Bad \in SUBSET Nat  BY SMTT(60)
  <2> HIDE DEF Bad
  <2>3. PICK n \in Bad : \A m \in Bad : n <= m  BY <2>1, <2>2, LeastNumber
  <2>4. n \in 0 .. M /\ f[n] # Prefix(s, Upto(n)) /\ n \in Nat  BY <2>2, <2>3 DEF Bad
  <2>5. n # 0 => n - 1 \in 0 .. M /\ n - 1 \notin Bad
    <3>1. n # 0 => ~(n <= n - 1)  BY SMTT(60), <2>4
    <3> QED  BY <1>5, <2>3, <2>4, <3>1
  <2>6. n # 0 => f[n - 1] = Prefix(s, Upto(n - 1))  BY <2>5 DEF Bad
  <2>7. f[n] = IF n = 0 THEN <<>> ELSE Step(l, f[n - 1], n)  BY <1>7, <2>4
  <2> QED  BY <1>4, <2>4, <2>6, <2>7
<1>9. M \in 0 .. M /\ Upto(M) = N  BY SMTT(60), <1>1 DEF Upto
<1> QED  BY <1>1, <1>7, <1>8, <1>9, PrefixGrows

\* s with x in front, and s without its element at i.
Pushed(s, x) == [n \in 1 .. Len(s) + 1 |-> IF n = 1 THEN x ELSE s[n - 1]]
Removed(s, i) == [n \in 1 .. Len(s) - 1 |-> IF n < i THEN s[n] ELSE s[n + 1]]

\* The entries of an intact list are those that the walk finds.
LEMMA IntactWalk ==
  ASSUME NEW l, NEW C
  PROVE  /\ Intact(l, C) => /\ Linked(l, C) /\ Len(Walked(l)) \in Nat
                            /\ Follows(l, C, Walked(l), Len(Walked(l)))
         /\ \A s : \A N \in Nat : Linked(l, C) /\ Follows(l, C, s, N) =>
              Intact(l, C) /\ Walked(l) = s /\ Len(s) = N
<1>1. ASSUME Intact(l, C)
      PROVE  Linked(l, C) /\ Len(Walked(l)) \in Nat /\ Follows(l, C, Walked(l), Len(Walked(l)))
  BY <1>1, ChainedFollows DEF Intact
<1>2. ASSUME NEW N \in Nat, NEW s, Linked(l, C), Follows(l, C, s, N)
      PROVE  Intact(l, C) /\ Walked(l) = s /\ Len(s) = N
  <2>1. Walked(l) = s  BY <1>2, WalkIs
  <2>2. Chained(l, C, s) /\ Len(s) = N  BY <1>2, ChainedFollows
  <2> QED  BY <1>2, <2>1, <2>2 DEF Intact
<1> QED  BY <1>1, <1>2

\* list_push_front keeps the list intact and adds its entry in front.
LEMMA PushIntact ==
  ASSUME NEW l \in Lists, NEW C \in SUBSET Entries, Intact(l, C), NEW x \in Entries \ C
  PROVE  /\ list_push_front(l, x) \in Lists /\ Intact(list_push_front(l, x), C \cup {x})
         /\ Walked(list_push_front(l, x)) = Pushed(Walked(l), x)
<1> DEFINE s == Walked(l)  N == Len(s)  m == list_push_front(l, x)
<1>1. Linked(l, C) /\ N \in Nat /\ Follows(l, C, s, N)  BY IntactWalk
<1>2. m \in Lists /\ Linked(m, C \cup {x})  BY <1>1, PushLinked
<1>3. N + 1 \in Nat  BY SMTT(60), <1>1
<1> HIDE DEF N, s
<1>4. Follows(m, C \cup {x}, [n \in 1 .. N + 1 |-> IF n = 1 THEN x ELSE s[n - 1]], N + 1)
  BY <1>1, PushFollows
<1>5. Pushed(s, x) = [n \in 1 .. N + 1 |-> IF n = 1 THEN x ELSE s[n - 1]]  BY DEF Pushed, N
<1> HIDE DEF m
<1>6. Intact(m, C \cup {x}) /\ Walked(m) = Pushed(s, x)
  BY <1>2, <1>3, <1>4, <1>5, IntactWalk
<1> QED  BY <1>2, <1>6 DEF m, s

\* list_unlink keeps the list intact and takes its entry out, the last one if it
\* is the tail.
LEMMA UnlinkIntact ==
  ASSUME NEW l \in Lists, NEW C \in SUBSET Entries, Intact(l, C), NEW x \in C
  PROVE  /\ list_unlink(l, x) \in Lists /\ Intact(list_unlink(l, x), C \ {x})
         /\ \E i \in 1 .. Len(Walked(l)) :
              /\ Walked(l)[i] = x /\ (l.tail = x => i = Len(Walked(l)))
              /\ Walked(list_unlink(l, x)) = Removed(Walked(l), i)
<1> DEFINE s == Walked(l)  N == Len(s)  m == list_unlink(l, x)
<1>1. Linked(l, C) /\ N \in Nat /\ Follows(l, C, s, N)  BY IntactWalk
<1>2. m \in Lists /\ Linked(m, C \ {x})  BY <1>1, UnlinkLinked
<1> HIDE DEF N, s
<1>3. PICK i \in 1 .. N : s[i] = x  BY <1>1 DEF Follows
<1>4. N - 1 \in Nat  BY SMTT(60), <1>1
<1>5. Follows(m, C \ {x}, [n \in 1 .. N - 1 |-> IF n < i THEN s[n] ELSE s[n + 1]], N - 1)
  BY <1>1, <1>3, UnlinkFollows
<1>6. Removed(s, i) = [n \in 1 .. N - 1 |-> IF n < i THEN s[n] ELSE s[n + 1]]  BY DEF Removed, N
<1> HIDE DEF m
<1>7. Intact(m, C \ {x}) /\ Walked(m) = Removed(s, i)
  BY <1>2, <1>4, <1>5, <1>6, IntactWalk
<1>8. ASSUME l.tail = x PROVE i = N
  <2>1. l.next[s[i]] = NULL  BY SMTT(60), <1>1, <1>3, <1>8 DEF Linked
  <2>2. i # N => i + 1 \in 1 .. N  BY SMTT(60), <1>1
  <2>3. i # N => l.next[s[i]] \in Entries  BY <1>1, <2>2 DEF Follows
  <2> QED  BY <2>1, <2>3, CacheConfig
<1>9. \E j \in 1 .. N : s[j] = x /\ (l.tail = x => j = N) /\ Walked(m) = Removed(s, j)
  BY <1>3, <1>7, <1>8
<1> QED  BY <1>2, <1>7, <1>9 DEF m, s, N

\* list_move_front keeps the list intact and moves its entry to the front.
LEMMA MoveIntact ==
  ASSUME NEW l \in Lists, NEW C \in SUBSET Entries, Intact(l, C), NEW x \in C
  PROVE  /\ list_move_front(l, x) \in Lists /\ Intact(list_move_front(l, x), C)
         /\ \E i \in 1 .. Len(Walked(l)) :
              Walked(l)[i] = x /\ Walked(list_move_front(l, x)) = ToFront(Walked(l), i)
<1> DEFINE s == Walked(l)  N == Len(s)  m == list_move_front(l, x)
<1>1. Linked(l, C) /\ N \in Nat /\ Follows(l, C, s, N)  BY IntactWalk
<1>2. m \in Lists /\ Linked(m, C)  BY <1>1, MoveLinked
<1> HIDE DEF N, s
<1>3. PICK i \in 1 .. N : s[i] = x  BY <1>1 DEF Follows
<1>4. Follows(m, C, ToFront(s, i), N)  BY <1>1, <1>3, MoveFollows
<1> HIDE DEF m
<1>5. Intact(m, C) /\ Walked(m) = ToFront(s, i)  BY <1>1, <1>2, <1>4, IntactWalk
<1>6. \E j \in 1 .. N : s[j] = x /\ Walked(m) = ToFront(s, j)  BY <1>3, <1>5
<1> QED  BY <1>2, <1>5, <1>6 DEF m, s, N

-----------------------------------------------------------------------------
(* The invariant.                                                          *)

Record == [key : Keys, data : Buffers, size : Nat, refcount : Nat, removed : BOOLEAN]

\* The list record is made of the four variables, and SetList assigns them.
LEMMA ListIs ==
  /\ TypeOK => TheList \in Lists
  /\ \A l \in Lists : SetList(l) => TheList' = l
<1>1. TypeOK => TheList \in Lists  BY DEF TypeOK, TheList, Lists
<1>2. \A l \in Lists : SetList(l) => TheList' = l  BY SMTT(60) DEF SetList, TheList, Lists
<1> QED  BY <1>1, <1>2

\* An entry exists or is Freed.
LEMMA EntryTypes ==
  ASSUME TypeOK
  PROVE  /\ Freed \notin Record
         /\ \A x \in Entries : x \in Allocated <=> entry[x] \in Record
         /\ Allocated \subseteq Entries /\ Cached \subseteq Allocated
<1>1. Freed \notin Record  BY CacheConfig DEF Freed, Record
<1> QED  BY <1>1 DEF TypeOK, Allocated, Cached, Record

\* The readers of an entry can be counted.
LEMMA FiniteReaders == \A x : IsFiniteSet(Readers(x)) /\ Cardinality(Readers(x)) \in Nat
BY CacheConfig, FS_Subset, FS_CardinalityType DEF Readers

\* entry_maybe_free frees the entry or leaves it, and touches no other.
LEMMA MaybeFree ==
  ASSUME TypeOK, NEW x \in Entries, NEW d \in Record, entry_maybe_free(x, d)
  PROVE  /\ IF d.removed /\ d.refcount = 0 THEN entry'[x] = Freed ELSE entry'[x] = d
         /\ \A y \in Entries : y # x => entry'[y] = entry[y]
         /\ entry' \in [Entries -> {Freed} \cup Record] /\ live' \in SUBSET Buffers
<1>1. entry \in [Entries -> {Freed} \cup Record] /\ live \in SUBSET Buffers  BY DEF TypeOK, Record
<1>2. CASE d.removed /\ d.refcount = 0  BY <1>1, <1>2 DEF entry_maybe_free
<1>3. CASE ~(d.removed /\ d.refcount = 0)  BY <1>1, <1>3 DEF entry_maybe_free
<1> QED  BY <1>2, <1>3

\* The invariant while the cache is in use, and when lru_cache_destroy is done;
\* the payloads apart.
Up ==
  /\ \A t \in Threads : pc[t] # "gone"
  /\ Calls /\ Indexed /\ Intact(TheList, Cached)
Down ==
  /\ \A t \in Threads : pc[t] = "gone"
  /\ Allocated = {} /\ table = [k \in Keys |-> NULL]
  /\ head = NULL /\ tail = NULL /\ num_entries = 0 /\ mutex = NULL
CoreInv == TypeOK /\ BorrowedLive /\ (Up \/ Down)

\* The cache that lru_cache_init makes satisfies the invariant.
LEMMA InitCache == Init => CoreInv
<1> SUFFICES ASSUME Init PROVE CoreInv  OBVIOUS
<1>1. TypeOK  BY SMTT(60) DEF Init, TypeOK, NoArg
<1>2. Allocated = {} /\ Cached = {}  BY DEF Init, Allocated, Cached
<1>3. BorrowedLive  BY <1>2 DEF Init, BorrowedLive
<1>4. Calls  BY CacheConfig DEF Init, Calls
<1>5. Indexed  BY <1>2, FS_EmptySet DEF Init, Indexed
<1>6. Linked(TheList, Cached)  BY <1>2, CacheConfig DEF Init, Linked, TheList
<1>7. Intact(TheList, Cached)
  <2>1. 0 \in Nat /\ 1 .. 0 = {}  BY SMTT(60)
  <2>2. Follows(TheList, Cached, [n \in 1 .. 0 |-> head], 0)
    BY <1>2, <2>1 DEF Init, Follows, TheList
  <2> QED  BY <1>6, <2>1, <2>2, IntactWalk
<1> QED  BY <1>1, <1>3, <1>4, <1>5, <1>7 DEF Init, CoreInv, Up

\* lru_cache_get: one more reader, counted.
LEMMA GetHitInv ==
  ASSUME CoreInv, NEW t \in Threads, NEW k \in Keys, GetHit(t, k)
  PROVE  CoreInv'
<1>1. TypeOK /\ BorrowedLive /\ Up  BY CacheConfig DEF CoreInv, Down, GetHit
<1>2. PICK x \in Entries : x = table[k]  BY <1>1 DEF GetHit, TypeOK
<1>3. x \in Cached /\ x \in Entries /\ entry[x] \in Record /\ held[t] = NULL /\ x \in Allocated
  BY <1>2, <1>1, EntryTypes DEF Up, Indexed, Calls, GetHit, TypeOK
<1>4. /\ entry' = [entry EXCEPT ![x].refcount = @ + 1] /\ SetList(list_move_front(TheList, x))
      /\ held' = [held EXCEPT ![t] = x] /\ seen' = [seen EXCEPT ![t] = entry[x].data]
      /\ pc' = [pc EXCEPT ![t] = "reading"] /\ mutex = NULL /\ pc[t] = "idle"
      /\ UNCHANGED <<table, sums, live, mutex, e, arg>>
  BY <1>2 DEF GetHit
<1>5. /\ entry'[x] = [entry[x] EXCEPT !.refcount = @ + 1] /\ entry'[x] \in Record
      /\ \A y \in Entries : y # x => entry'[y] = entry[y]
      /\ entry' \in [Entries -> {Freed} \cup Record]
  BY SMTT(60), <1>1, <1>3, <1>4 DEF TypeOK, Record
<1>6. list_move_front(TheList, x) \in Lists /\ Intact(list_move_front(TheList, x), Cached)
  BY <1>1, <1>3, ListIs, EntryTypes, MoveIntact DEF Up
<1>7. TheList' \in Lists /\ Intact(TheList', Cached)  BY <1>4, <1>6, ListIs
<1>8. TypeOK'
  BY <1>1, <1>3, <1>4, <1>5, <1>7 DEF TypeOK, Lists, TheList, sums, Record
<1>9. Allocated' = Allocated /\ Cached' = Cached
  BY SMTT(60), <1>1, <1>3, <1>4, <1>5, EntryTypes DEF Allocated, Cached, Record
<1>10. Readers(x)' = Readers(x) \cup {t} /\ t \notin Readers(x)
      /\ \A y \in Entries : y # x => Readers(y)' = Readers(y)
  BY SMTT(60), <1>1, <1>3, <1>4, CacheConfig DEF Readers, TypeOK
<1>11. BorrowedLive'
  <2>1. Cardinality(Readers(x))' = Cardinality(Readers(x)) + 1
    <3>1. Cardinality(Readers(x) \cup {t}) = Cardinality(Readers(x)) + 1
      BY <1>10, FiniteReaders, FS_AddElement
    <3>2. Cardinality(Readers(x))' = Cardinality(Readers(x) \cup {t})  BY <1>10
    <3> QED  BY <3>1, <3>2
  <2>2. \A y \in Entries : y # x => Cardinality(Readers(y))' = Cardinality(Readers(y))
    BY <1>10
  <2>3. \A y \in Allocated' : entry'[y].refcount = Cardinality(Readers(y))'
    BY SMTT(60), <1>1, <1>3, <1>5, <1>9, <2>1, <2>2, EntryTypes DEF BorrowedLive, Record
  <2>4. \A u \in Threads : pc'[u] = "reading" => held'[u] \in Allocated'
    BY <1>1, <1>3, <1>4, <1>9 DEF BorrowedLive, TypeOK
  <2> QED  BY <2>3, <2>4 DEF BorrowedLive
<1>12. Calls'
  BY SMTT(60), <1>1, <1>3, <1>4, CacheConfig DEF Up, Calls, TypeOK
<1>13. Indexed'
  <2>1. \A y \in Entries : entry'[y].key = entry[y].key /\ entry'[y].removed = entry[y].removed
    BY <1>3, <1>5 DEF Record
  <2>2. \A y \in Entries : Readers(y) # {} => Readers(y)' # {}  BY <1>10
  <2> QED  BY <1>1, <1>4, <1>9, <2>1, <2>2, EntryTypes DEF Up, Indexed, sums
<1> QED  BY <1>1, <1>4, <1>7, <1>8, <1>9, <1>11, <1>12, <1>13 DEF CoreInv, Up, TypeOK

\* lru_cache_release: one reader less; the last one of a removed entry frees it.
LEMMA ReleaseInv ==
  ASSUME CoreInv, NEW t \in Threads, Release(t)
  PROVE  CoreInv'
<1>1. TypeOK /\ BorrowedLive /\ Up  BY CacheConfig DEF CoreInv, Down, Release
<1>2. PICK x \in Entries : x = held[t]  BY <1>1 DEF Release, BorrowedLive, Allocated
<1>3. entry[x] \in Record /\ x \in Allocated /\ x # NULL
  BY <1>2, <1>1, EntryTypes, CacheConfig DEF BorrowedLive, Release
<1>4. PICK d : d = [entry[x] EXCEPT !.refcount = IF @ > 0 THEN @ - 1 ELSE 0]  OBVIOUS
<1>5. /\ pc[t] = "reading" /\ mutex = NULL /\ entry_maybe_free(x, d)
      /\ held' = [held EXCEPT ![t] = NULL] /\ seen' = [seen EXCEPT ![t] = NULL]
      /\ pc' = [pc EXCEPT ![t] = "idle"]
      /\ UNCHANGED <<table, list, sums, mutex, e, arg>>
  BY <1>2, <1>4 DEF Release
<1>6. Readers(x)' = Readers(x) \ {t} /\ t \in Readers(x)
      /\ \A y \in Entries : y # x => Readers(y)' = Readers(y)
  BY SMTT(60), <1>2, <1>1, <1>3, <1>5, CacheConfig DEF Readers, TypeOK
<1>7. /\ Cardinality(Readers(x))' = Cardinality(Readers(x)) - 1
      /\ Cardinality(Readers(x)) \in Nat /\ Cardinality(Readers(x)) > 0
  <2>1. /\ Cardinality(Readers(x) \ {t}) = Cardinality(Readers(x)) - 1
        /\ Cardinality(Readers(x) \ {t}) \in Nat
    BY <1>6, FiniteReaders, FS_RemoveElement, FS_CardinalityType
  <2>2. Cardinality(Readers(x))' = Cardinality(Readers(x) \ {t})  BY <1>6
  <2> QED  BY SMTT(60), <2>1, <2>2, FiniteReaders
<1>8. entry[x].refcount = Cardinality(Readers(x))  BY <1>1, <1>3 DEF BorrowedLive
<1>9. /\ d \in Record /\ d.refcount = Cardinality(Readers(x))' /\ d.key = entry[x].key
      /\ d.removed = entry[x].removed
  BY SMTT(60), <1>3, <1>7, <1>8, <1>4 DEF Record
<1>10. /\ IF d.removed /\ d.refcount = 0 THEN entry'[x] = Freed ELSE entry'[x] = d
       /\ \A y \in Entries : y # x => entry'[y] = entry[y]
       /\ entry' \in [Entries -> {Freed} \cup Record] /\ live' \in SUBSET Buffers
  BY <1>1, <1>5, <1>9, MaybeFree
<1>11. TypeOK'
  <2>1. held' \in [Threads -> Entries \cup {NULL}] /\ seen' \in [Threads -> Buffers \cup {NULL}]
    BY <1>1, <1>5 DEF TypeOK
  <2>2. pc' \in [Threads -> {"idle", "reading", "loaded", "put", "gone"}]
    BY <1>1, <1>5 DEF TypeOK
  <2>3. /\ table' \in [Keys -> Entries \cup {NULL}]
        /\ head' \in Entries \cup {NULL} /\ tail' \in Entries \cup {NULL}
        /\ current_size' \in Int /\ num_entries' \in Nat
        /\ prev' \in [Entries -> Entries \cup {NULL}] /\ next' \in [Entries -> Entries \cup {NULL}]
        /\ mutex' \in Threads \cup {NULL} /\ e' \in Entries \cup {NULL}
        /\ arg' \in [Threads -> (Keys \cup {NULL}) \X (Buffers \cup {NULL}) \X Nat]
    BY <1>1, <1>5 DEF TypeOK, list, sums
  <2>4. entry' \in [Entries -> {Freed} \cup Record] /\ live' \in SUBSET Buffers  BY <1>10
  <2> QED  BY SMTT(60), <2>1, <2>2, <2>3, <2>4 DEF TypeOK, Record
<1>12. /\ \A y \in Entries : y # x => (y \in Allocated' <=> y \in Allocated)
       /\ x \in Allocated' <=> ~(d.removed /\ d.refcount = 0)
  BY <1>3, <1>9, <1>10, EntryTypes, <1>1 DEF Allocated
<1>13. Cached' = Cached
  BY <1>3, <1>5, <1>9, <1>10, <1>12 DEF Cached, Allocated
<1>14. BorrowedLive'
  <2>1. \A y \in Entries : y # x => Cardinality(Readers(y))' = Cardinality(Readers(y))
    BY <1>6
  <2>2. \A y \in Allocated' : entry'[y].refcount = Cardinality(Readers(y))'
    BY <1>1, <1>9, <1>10, <1>12, <2>1 DEF BorrowedLive, Allocated
  <2>3. ASSUME NEW u \in Threads, pc'[u] = "reading" PROVE held'[u] \in Allocated'
    <3>1. u # t /\ held'[u] = held[u] /\ held[u] \in Allocated
      BY <1>1, <1>5, <2>3 DEF BorrowedLive, TypeOK
    <3>2. CASE held[u] = x
      <4>1. u \in Readers(x)'  BY <3>1, <3>2 DEF Readers
      <4>2. Cardinality(Readers(x))' # 0
        <5>1. IsFiniteSet(Readers(x))'  BY SMTT(60), <1>6, FiniteReaders, FS_RemoveElement
        <5> QED  BY <4>1, <5>1, FS_EmptySet
      <4> QED  BY <1>9, <1>12, <3>1, <3>2, <4>2
    <3>3. CASE held[u] # x  BY <1>12, <3>1, <3>3 DEF Allocated
    <3> QED  BY <3>2, <3>3
  <2> QED  BY <2>2, <2>3 DEF BorrowedLive
<1>15. Calls'
  BY SMTT(60), <1>1, <1>3, <1>5, <1>10, CacheConfig DEF Up, Calls, TypeOK
<1>16. Indexed'
  <2>1. \A y \in Cached : entry'[y].key = entry[y].key
    BY <1>9, <1>10, <1>12, <1>13 DEF Cached, Allocated
  <2>2. ASSUME NEW y \in Allocated', entry'[y].removed PROVE Readers(y)' # {}
    <3>1. CASE y = x
      <4>1. d.removed /\ d.refcount # 0  BY <1>9, <1>10, <1>12, <2>2, <3>1 DEF Freed
      <4> QED  BY <1>9, <3>1, <4>1, FS_EmptySet
    <3>2. CASE y # x  BY SMTT(60), <1>1, <1>6, <1>10, <1>12, <2>2, <3>2 DEF Up, Indexed, Allocated
    <3> QED  BY <3>1, <3>2
  <2> QED  BY <1>1, <1>5, <1>13, <2>1, <2>2 DEF Up, Indexed, sums
<1>17. TheList' = TheList  BY <1>5 DEF TheList, list
<1> QED  BY <1>1, <1>5, <1>11, <1>13, <1>14, <1>15, <1>16, <1>17 DEF CoreInv, Up, TypeOK

\* Who reads an entry depends on the borrowed entries alone.
LEMMA SameReaders ==
  held' = held => \A x : /\ Readers(x)' = Readers(x)
                         /\ Cardinality(Readers(x))' = Cardinality(Readers(x))
BY DEF Readers

\* An entry that is not allocated has no readers.
LEMMA NoReaders ==
  ASSUME TypeOK, BorrowedLive, Calls
  PROVE  \A x \in Entries \ Allocated : Readers(x) = {}
BY SMTT(60), CacheConfig DEF TypeOK, BorrowedLive, Calls, Readers

\* A caller that gets a payload does not touch the cache.
LEMMA LoadInv ==
  ASSUME CoreInv, NEW t \in Threads, NEW k \in Keys, NEW b \in Buffers, NEW n \in Sizes,
         Load(t, k, b, n)
  PROVE  CoreInv'
<1>1. TypeOK /\ BorrowedLive /\ Up  BY CacheConfig DEF CoreInv, Down, Load
<1>2. TypeOK'  BY <1>1, CacheConfig DEF TypeOK, Load, list, sums
<1>3. Allocated' = Allocated /\ Cached' = Cached /\ TheList' = TheList
  BY DEF Load, Allocated, Cached, TheList, list
<1>4. BorrowedLive'
  BY <1>1, <1>3, SameReaders DEF BorrowedLive, Load, TypeOK
<1>5. Calls'
  <2>1. n \in Nat /\ t # mutex /\ Calls /\ pc[t] = "idle"
    BY <1>1, CacheConfig DEF Up, Calls, Load
  <2>2. /\ pc' = [pc EXCEPT ![t] = "loaded"] /\ arg' = [arg EXCEPT ![t] = <<k, b, n>>]
        /\ UNCHANGED <<table, entry, mutex, e, held>>
    BY DEF Load
  <2>3. /\ pc'[t] = "loaded" /\ arg'[t] = <<k, b, n>>
        /\ \A u \in Threads : u # t => pc'[u] = pc[u] /\ arg'[u] = arg[u]
    BY <1>1, <2>2 DEF TypeOK
  <2>4. \A u \in Threads : /\ pc'[u] = "reading" <=> held'[u] # NULL
                           /\ pc'[u] = "put" <=> mutex' = u
                           /\ pc'[u] \in {"loaded", "put"} => arg'[u] \in Keys \X Buffers \X Sizes
    BY SMTT(60), <2>1, <2>2, <2>3 DEF Calls
  <2>5. mutex # NULL => arg'[mutex] = arg[mutex]  BY <1>1, <2>1, <2>3 DEF TypeOK
  <2> QED  BY <2>1, <2>2, <2>4, <2>5 DEF Calls
<1>6. Indexed'
  BY <1>1, <1>3, SameReaders DEF Indexed, Up, Load, sums
<1> QED  BY <1>1, <1>2, <1>3, <1>4, <1>5, <1>6 DEF CoreInv, Up, Load, TypeOK

-----------------------------------------------------------------------------
(* lru_cache_put, evictions and the failure of its insertion apart.        *)

\* A call of lru_cache_put that ends leaves no entry under way.
LEMMA ReturnCalls ==
  ASSUME TypeOK, Calls, NEW t \in Threads, PutReturn(t), mutex = NULL \/ mutex = t,
         pc[t] # "reading"
  PROVE  /\ Calls' /\ mutex' = NULL /\ e' = NULL /\ held' = held
         /\ pc' \in [Threads -> {"idle", "reading", "loaded", "put", "gone"}]
         /\ pc'[t] = "idle" /\ \A u \in Threads : u # t => pc'[u] = pc[u]
         /\ arg' \in [Threads -> (Keys \cup {NULL}) \X (Buffers \cup {NULL}) \X Nat]
         /\ seen' = seen
<1>1. NULL \notin Threads  BY CacheConfig
<1>2. NoArg \in (Keys \cup {NULL}) \X (Buffers \cup {NULL}) \X Nat  BY DEF NoArg
<1>3. pc' = [pc EXCEPT ![t] = "idle"] /\ arg' = [arg EXCEPT ![t] = NoArg]
      /\ mutex' = NULL /\ e' = NULL /\ held' = held /\ seen' = seen
  BY DEF PutReturn
<1>4. Calls'  BY <1>1, <1>3 DEF TypeOK, Calls
<1> QED  BY <1>2, <1>3, <1>4 DEF TypeOK

\* A put that is refused leaves the cache as it is.
LEMMA PutRefusedInv ==
  ASSUME CoreInv, NEW t \in Threads, PutRefused(t)
  PROVE  CoreInv'
<1>1. TypeOK /\ BorrowedLive /\ Up  BY CacheConfig DEF CoreInv, Down, PutRefused
<1>2. Calls /\ PutReturn(t) /\ mutex = NULL /\ e = NULL /\ pc[t] = "loaded"
  BY <1>1 DEF Up, Calls, PutRefused
<1>3. Allocated' = Allocated /\ Cached' = Cached /\ TheList' = TheList
  BY <1>1, <1>2 DEF PutRefused, PutReturn, Allocated, Cached, TheList, list
<1>4. TypeOK'  BY <1>1, <1>2, ReturnCalls DEF TypeOK, PutRefused, list, sums
<1>5. BorrowedLive'
  BY <1>1, <1>2, <1>3, ReturnCalls, SameReaders DEF BorrowedLive, PutRefused
<1>6. Calls'  BY <1>1, <1>2, ReturnCalls
<1>7. Indexed'
  BY SMTT(60), <1>1, <1>2, <1>3, ReturnCalls, SameReaders DEF Indexed, Up, PutRefused, sums
<1> QED  BY <1>1, <1>2, <1>3, <1>4, <1>5, <1>6, <1>7, ReturnCalls DEF CoreInv, Up

\* The key is there: its entry gets the new payload and moves to the front.
LEMMA PutOverwriteInv ==
  ASSUME CoreInv, NEW t \in Threads, PutOverwrite(t)
  PROVE  CoreInv'
<1>1. /\ pc[t] = "loaded" /\ mutex = NULL /\ table[arg[t][1]] # NULL /\ PutReturn(t)
      /\ current_size' = current_size - entry[table[arg[t][1]]].size + arg[t][3]
      /\ live' = live \ {entry[table[arg[t][1]]].data}
      /\ entry' = [entry EXCEPT ![table[arg[t][1]]].data = arg[t][2],
                               ![table[arg[t][1]]].size = arg[t][3]]
      /\ SetList(list_move_front(TheList, table[arg[t][1]]))
      /\ UNCHANGED <<table, num_entries>>
  BY DEF PutOverwrite
<1>2. pc[t] = "loaded" /\ mutex = NULL /\ table[arg[t][1]] # NULL /\ PutReturn(t)  BY <1>1
<1>3. TypeOK /\ BorrowedLive /\ Up  BY <1>2 DEF CoreInv, Down
<1>4. Calls /\ e = NULL /\ arg[t] \in Keys \X Buffers \X Sizes  BY <1>3, <1>2 DEF Up, Calls
<1>5. PICK x \in Entries : x = table[arg[t][1]]  BY <1>3, <1>4, <1>2 DEF TypeOK
<1>6. PICK b \in Buffers, n \in Nat : b = arg[t][2] /\ n = arg[t][3]  BY <1>4, CacheConfig
<1>7. x \in Cached /\ x \in Allocated /\ entry[x] \in Record
  BY <1>5, <1>3, <1>4, <1>2, EntryTypes, CacheConfig DEF Up, Indexed
<1>8. /\ current_size' = current_size - entry[x].size + n /\ live' = live \ {entry[x].data}
      /\ entry' = [entry EXCEPT ![x].data = b, ![x].size = n]
      /\ SetList(list_move_front(TheList, x)) /\ UNCHANGED <<table, num_entries>>
  BY <1>5, <1>6, <1>1
<1>9. /\ entry'[x] = [entry[x] EXCEPT !.data = b, !.size = n] /\ entry'[x] \in Record
      /\ \A y \in Entries : y # x => entry'[y] = entry[y]
      /\ entry' \in [Entries -> {Freed} \cup Record]
  BY <1>3, <1>7, <1>8 DEF TypeOK, Record
<1>10. \A y \in Entries : /\ entry'[y].key = entry[y].key /\ entry'[y].removed = entry[y].removed
                         /\ entry'[y].refcount = entry[y].refcount
  BY <1>7, <1>9 DEF Record
<1>11. TheList' \in Lists /\ Intact(TheList', Cached)
  <2>1. list_move_front(TheList, x) \in Lists /\ Intact(list_move_front(TheList, x), Cached)
    BY <1>3, <1>7, ListIs, EntryTypes, MoveIntact DEF Up
  <2> QED  BY <1>8, <2>1, ListIs
<1>12. current_size' \in Int  BY SMTT(60), <1>3, <1>7, <1>8 DEF TypeOK, Record
<1>13. TypeOK'
  BY SMTT(60), <1>3, <1>4, <1>2, <1>8, <1>9, <1>11, <1>12, ReturnCalls DEF TypeOK, Lists, TheList, Record
<1>14. Allocated' = Allocated /\ Cached' = Cached
  <2>1. Allocated' = Allocated  BY <1>3, <1>7, <1>9, EntryTypes DEF Allocated
  <2> QED  BY SMTT(60), <1>3, <1>4, <1>2, <1>10, <2>1, ReturnCalls, EntryTypes DEF Cached
<1>15. BorrowedLive'
  BY SMTT(60), <1>3, <1>4, <1>2, <1>10, <1>14, ReturnCalls, SameReaders, EntryTypes DEF BorrowedLive
<1>16. Calls'  BY <1>3, <1>4, <1>2, ReturnCalls
<1>17. Indexed'
  <2>1. \A y \in Allocated' : entry'[y].removed => Readers(y)' # {}
    BY SMTT(60), <1>3, <1>4, <1>2, <1>10, <1>14, ReturnCalls, SameReaders, EntryTypes DEF Indexed, Up
  <2>2. \A y \in Cached : y \in Entries /\ entry'[y].key = entry[y].key
    BY <1>3, <1>10, EntryTypes
  <2> QED  BY <1>3, <1>8, <1>14, <2>1, <2>2 DEF Indexed, Up
<1> QED
  BY <1>3, <1>4, <1>2, <1>11, <1>13, <1>14, <1>15, <1>16, <1>17, ReturnCalls DEF CoreInv, Up

\* An entry is made; it is nobody's yet.
LEMMA PutEntryInv ==
  ASSUME CoreInv, NEW t \in Threads, NEW x \in Entries, PutEntry(t, x)
  PROVE  CoreInv'
<1>1. TypeOK /\ BorrowedLive /\ Up  BY CacheConfig DEF CoreInv, Down, PutEntry
<1>2. Calls /\ mutex = NULL /\ e = NULL /\ pc[t] = "loaded" /\ arg[t] \in Keys \X Buffers \X Sizes
      /\ x \notin Allocated /\ table[arg[t][1]] = NULL
  BY <1>1 DEF Up, Calls, PutEntry
<1>3. PICK d : d = [key |-> arg[t][1], data |-> arg[t][2], size |-> arg[t][3],
                    refcount |-> 0, removed |-> FALSE]
  OBVIOUS
<1>4. d \in Record /\ d.refcount = 0 /\ ~d.removed  BY <1>3, <1>2, CacheConfig DEF Record
<1>5. /\ entry' = [entry EXCEPT ![x] = d] /\ mutex' = t /\ e' = x
      /\ pc' = [pc EXCEPT ![t] = "put"]
      /\ prev' = [prev EXCEPT ![x] = NULL] /\ next' = [next EXCEPT ![x] = NULL]
      /\ UNCHANGED <<table, head, tail, sums, live, held, seen, arg>>
  BY <1>3 DEF PutEntry
<1>6. /\ entry'[x] = d /\ \A y \in Entries : y # x => entry'[y] = entry[y]
      /\ entry' \in [Entries -> {Freed} \cup Record]
  BY <1>1, <1>4, <1>5 DEF TypeOK, Record
<1>7. Allocated' = Allocated \cup {x} /\ Cached' = Cached
  <2>1. Allocated' = Allocated \cup {x}  BY <1>1, <1>4, <1>6, EntryTypes DEF Allocated
  <2>2. x \notin Cached /\ e \notin Entries  BY <1>2, CacheConfig DEF Cached
  <2> QED  BY <1>5, <1>6, <2>1, <2>2 DEF Cached, Allocated
<1>8. TypeOK'  BY <1>1, <1>5, <1>6 DEF TypeOK, sums, Record
<1>9. TheList' = TheList
  <2>1. x \notin Cached  BY <1>2 DEF Cached
  <2>2. prev[x] = NULL /\ next[x] = NULL  BY <1>1, <2>1 DEF Up, Intact, Linked, TheList
  <2>3. prev' = prev /\ next' = next  BY <1>1, <1>5, <2>2 DEF TypeOK
  <2> QED  BY <1>5, <2>3 DEF TheList
<1>10. BorrowedLive'
  <2>1. Cardinality(Readers(x))' = 0
    BY <1>1, <1>2, <1>5, NoReaders, SameReaders, FS_EmptySet
  <2>2. \A y \in Allocated' : entry'[y].refcount = Cardinality(Readers(y))'
    BY <1>1, <1>4, <1>5, <1>6, <1>7, <2>1, SameReaders, EntryTypes DEF BorrowedLive
  <2>3. \A u \in Threads : pc'[u] = "reading" => held'[u] \in Allocated'
    BY <1>1, <1>5, <1>7 DEF BorrowedLive, TypeOK
  <2> QED  BY <2>2, <2>3 DEF BorrowedLive
<1>11. Calls'
  <2>1. \A u \in Threads : /\ pc'[u] = "reading" <=> held'[u] # NULL
                           /\ pc'[u] = "put" <=> mutex' = u
                           /\ pc'[u] \in {"loaded", "put"} => arg'[u] \in Keys \X Buffers \X Sizes
    BY SMTT(60), <1>1, <1>2, <1>5, CacheConfig DEF Calls, TypeOK
  <2>2. mutex' # NULL /\ e' # NULL  BY <1>5, CacheConfig
  <2>3. entry'[e'] = [key |-> arg'[mutex'][1], data |-> arg'[mutex'][2], size |-> arg'[mutex'][3],
                      refcount |-> 0, removed |-> FALSE]
    BY <1>3, <1>5, <1>6
  <2> QED  BY <1>2, <1>5, <2>1, <2>2, <2>3 DEF Calls
<1>12. Indexed'
  <2>1. \A y \in Cached : entry'[y] = entry[y]
    BY <1>2, <1>6 DEF Cached, Allocated
  <2>2. \A y \in Allocated' : entry'[y].removed => Readers(y)' # {}
    BY SMTT(60), <1>1, <1>4, <1>5, <1>6, <1>7, SameReaders, EntryTypes DEF Up, Indexed
  <2> QED  BY SMTT(60), <1>1, <1>5, <1>7, <2>1, <2>2 DEF Up, Indexed, sums
<1> QED
  BY <1>1, <1>5, <1>7, <1>8, <1>9, <1>10, <1>11, <1>12 DEF CoreInv, Up, TypeOK

\* The new entry enters the table and the list.
LEMMA PutInsertInv ==
  ASSUME CoreInv, NEW t \in Threads, PutInsert(t)
  PROVE  CoreInv'
<1>1. TypeOK /\ BorrowedLive /\ Up  BY CacheConfig DEF CoreInv, Down, PutInsert
<1>2. Calls /\ PutReturn(t) /\ mutex = t /\ pc[t] = "put" /\ arg[t] \in Keys \X Buffers \X Sizes
      /\ e # NULL /\ e \in Entries /\ table[arg[t][1]] = NULL
  BY SMTT(60), <1>1, CacheConfig DEF Up, Calls, PutInsert, TypeOK
<1>3. PICK x \in Entries, k \in Keys, n \in Nat : x = e /\ k = arg[t][1] /\ n = arg[t][3]
  BY <1>2, CacheConfig
<1>4. entry[x].key = k /\ ~entry[x].removed /\ x \in Allocated /\ x \notin Cached
  <2>1. entry[x].key = k /\ ~entry[x].removed /\ entry[x].key # NULL
    BY SMTT(60), <1>3, <1>2, CacheConfig DEF Calls
  <2>2. entry[x] # Freed  BY SMTT(60), <2>1 DEF Freed
  <2> QED  BY <1>3, <2>1, <2>2 DEF Allocated, Cached
<1>5. /\ table' = [table EXCEPT ![k] = x] /\ num_entries' = num_entries + 1
      /\ current_size' = current_size + n
      /\ SetList(list_push_front(TheList, x)) /\ UNCHANGED <<entry, live>> /\ e' = NULL
  BY <1>3 DEF PutInsert, PutReturn
<1>6. Allocated' = Allocated /\ Cached' = Cached \cup {x}
  <2>1. Allocated' = Allocated  BY <1>5 DEF Allocated
  <2>2. NULL \notin Allocated  BY CacheConfig DEF Allocated
  <2> QED  BY <1>3, <1>4, <1>5, <2>1, <2>2 DEF Cached
<1>7. TheList' \in Lists /\ Intact(TheList', Cached')
  <2>1. Cached \in SUBSET Entries  BY DEF Cached, Allocated
  <2>2. list_push_front(TheList, x) \in Lists /\ Intact(list_push_front(TheList, x), Cached \cup {x})
    BY <1>1, <1>4, <2>1, ListIs, PushIntact DEF Up
  <2> QED  BY <1>5, <1>6, <2>2, ListIs
<1>8. IsFiniteSet(Cached') /\ num_entries' = Cardinality(Cached')
  <2>1. IsFiniteSet(Cached \cup {x}) /\ Cardinality(Cached \cup {x}) = Cardinality(Cached) + 1
    BY <1>1, <1>4, FS_AddElement DEF Up, Indexed
  <2> QED  BY <1>1, <1>5, <1>6, <2>1 DEF Up, Indexed
<1>9. TypeOK'
  <2>1. num_entries' \in Nat /\ current_size' \in Int  BY SMTT(60), <1>1, <1>5 DEF TypeOK
  <2>2. table' \in [Keys -> Entries \cup {NULL}]  BY <1>1, <1>5 DEF TypeOK
  <2>3. /\ head' \in Entries \cup {NULL} /\ tail' \in Entries \cup {NULL}
        /\ prev' \in [Entries -> Entries \cup {NULL}] /\ next' \in [Entries -> Entries \cup {NULL}]
    BY <1>7 DEF Lists, TheList
  <2> QED  BY <1>1, <1>2, <1>5, <2>1, <2>2, <2>3, ReturnCalls DEF TypeOK
<1>10. BorrowedLive'
  BY <1>1, <1>2, <1>5, <1>6, ReturnCalls, SameReaders DEF BorrowedLive
<1>11. Calls'  BY <1>1, <1>2, ReturnCalls
<1>12. Indexed'
  <2>1. \A j \in Keys : table'[j] # NULL => table'[j] \in Cached' /\ entry'[table'[j]].key = j
    BY <1>1, <1>4, <1>5, <1>6 DEF Up, Indexed, TypeOK
  <2>2. ASSUME NEW y \in Cached' PROVE table'[entry'[y].key] = y
    <3>1. CASE y = x  BY <1>1, <1>4, <1>5, <3>1 DEF TypeOK
    <3>2. CASE y # x
      <4>1. y \in Cached /\ table[entry[y].key] = y /\ entry[y].key \in Keys /\ y # NULL
        BY <1>1, <1>6, <3>2, EntryTypes, CacheConfig DEF Up, Indexed, Record
      <4> QED  BY <1>3, <1>1, <1>2, <1>5, <4>1 DEF TypeOK
    <3> QED  BY <3>1, <3>2
  <2>3. \A y \in Allocated' : entry'[y].removed => Readers(y)' # {}
    BY SMTT(60), <1>1, <1>2, <1>5, <1>6, ReturnCalls, SameReaders DEF Up, Indexed
  <2> QED  BY <1>8, <2>1, <2>2, <2>3 DEF Indexed
<1> QED
  BY <1>1, <1>2, <1>7, <1>9, <1>10, <1>11, <1>12, ReturnCalls DEF CoreInv, Up

-----------------------------------------------------------------------------
(* The eviction, and the invariant.                                        *)

\* evict_lru: the tail leaves the table and the list; its readers keep it.
LEMMA PutEvictInv ==
  ASSUME CoreInv, NEW t \in Threads, PutEvict(t)
  PROVE  CoreInv'
<1>1. TypeOK /\ BorrowedLive /\ Up  BY CacheConfig DEF CoreInv, Down, PutEvict
<1>2. PICK x \in Entries : x = tail  BY <1>1 DEF PutEvict, TypeOK
<1>3. x \in Cached /\ x \in Allocated /\ entry[x] \in Record /\ x # e
  BY <1>2, <1>1, EntryTypes DEF Up, Intact, Linked, TheList, Cached
<1>4. PICK d : d = [entry[x] EXCEPT !.removed = TRUE]  OBVIOUS
<1>5. d \in Record /\ d.removed /\ d.refcount = entry[x].refcount
  BY <1>3, <1>4 DEF Record
<1>6. /\ table' = [table EXCEPT ![entry[x].key] = NULL] /\ entry[x].key \in Keys
      /\ SetList(list_unlink(TheList, x)) /\ entry_maybe_free(x, d)
      /\ current_size' = current_size - entry[x].size /\ num_entries' = num_entries - 1
      /\ UNCHANGED <<mutex, e, pc, held, seen, arg>>
  BY <1>2, <1>3, <1>4 DEF PutEvict, Record
<1>7. /\ IF d.refcount = 0 THEN entry'[x] = Freed ELSE entry'[x] = d
      /\ \A y \in Entries : y # x => entry'[y] = entry[y]
      /\ entry' \in [Entries -> {Freed} \cup Record] /\ live' \in SUBSET Buffers
  BY <1>1, <1>5, <1>6, MaybeFree
<1>8. /\ \A y \in Entries : y # x => (y \in Allocated' <=> y \in Allocated)
      /\ x \in Allocated' <=> d.refcount # 0
  BY <1>1, <1>5, <1>7, EntryTypes DEF Allocated
<1>9. Cached' = Cached \ {x}
  <2>1. x \notin Cached'  BY <1>5, <1>7, <1>8 DEF Cached
  <2>2. \A y \in Entries : y # x => (y \in Cached' <=> y \in Cached)
    BY <1>6, <1>7, <1>8 DEF Cached
  <2>3. Cached' \subseteq Entries /\ Cached \subseteq Entries  BY DEF Cached, Allocated
  <2> QED  BY <2>1, <2>2, <2>3
<1>10. TheList' \in Lists /\ Intact(TheList', Cached')
  <2>1. Cached \in SUBSET Entries  BY DEF Cached, Allocated
  <2>2. list_unlink(TheList, x) \in Lists /\ Intact(list_unlink(TheList, x), Cached \ {x})
    BY <1>1, <1>3, <2>1, ListIs, UnlinkIntact DEF Up
  <2> QED  BY <1>6, <1>9, <2>2, ListIs
<1>11. IsFiniteSet(Cached') /\ num_entries' = Cardinality(Cached')
  <2>1. IsFiniteSet(Cached \ {x}) /\ Cardinality(Cached \ {x}) = Cardinality(Cached) - 1
    BY <1>1, <1>3, FS_RemoveElement DEF Up, Indexed
  <2> QED  BY <1>1, <1>6, <1>9, <2>1 DEF Up, Indexed
<1>12. TypeOK'
  <2>1. num_entries' \in Nat  BY <1>11, FS_CardinalityType
  <2>2. current_size' \in Int  BY SMTT(60), <1>1, <1>3, <1>6 DEF TypeOK, Record
  <2>3. table' \in [Keys -> Entries \cup {NULL}]  BY <1>1, <1>6 DEF TypeOK
  <2>4. /\ head' \in Entries \cup {NULL} /\ tail' \in Entries \cup {NULL}
        /\ prev' \in [Entries -> Entries \cup {NULL}] /\ next' \in [Entries -> Entries \cup {NULL}]
    BY <1>10 DEF Lists, TheList
  <2> QED  BY <1>1, <1>6, <1>7, <2>1, <2>2, <2>3, <2>4 DEF TypeOK, Record
<1>13. entry[x].refcount = Cardinality(Readers(x))  BY <1>1, <1>3 DEF BorrowedLive
<1>14. BorrowedLive'
  <2>1. \A y \in Allocated' : entry'[y].refcount = Cardinality(Readers(y))'
    BY <1>1, <1>5, <1>6, <1>7, <1>8, <1>13, SameReaders DEF BorrowedLive, Allocated
  <2>2. ASSUME NEW u \in Threads, pc'[u] = "reading" PROVE held'[u] \in Allocated'
    <3>1. held[u] \in Allocated  BY <1>1, <1>6, <2>2 DEF BorrowedLive
    <3>2. CASE held[u] = x
      <4>1. Readers(x) # {}  BY <3>2 DEF Readers
      <4>2. d.refcount # 0  BY <1>5, <1>13, <4>1, FiniteReaders, FS_EmptySet
      <4> QED  BY <1>6, <1>8, <3>2, <4>2
    <3>3. CASE held[u] # x  BY <1>6, <1>8, <3>1, <3>3 DEF Allocated
    <3> QED  BY <3>2, <3>3
  <2> QED  BY <2>1, <2>2 DEF BorrowedLive
<1>15. Calls'
  <2>1. mutex = t  BY <1>1 DEF Up, Calls, PutEvict
  <2>2. e \in Entries  BY <1>1, <2>1, CacheConfig DEF Up, Calls, TypeOK
  <2>3. entry'[e] = entry[e]  BY <1>3, <1>7, <2>2
  <2>4. table'[arg[mutex][1]] = NULL
    BY SMTT(60), <1>1, <1>6, <2>1, CacheConfig DEF Up, Calls, TypeOK, PutEvict
  <2> QED  BY <1>1, <1>6, <2>3, <2>4 DEF Up, Calls
<1>16. Indexed'
  <2>1. \A y \in Cached' : y \in Cached /\ y # x /\ entry'[y] = entry[y] /\ entry[y].key \in Keys
    BY <1>1, <1>7, <1>9, EntryTypes DEF Record
  <2>2. \A k \in Keys : table'[k] # NULL => table'[k] \in Cached' /\ entry'[table'[k]].key = k
    <3> SUFFICES ASSUME NEW k \in Keys, table'[k] # NULL
                 PROVE  table'[k] \in Cached' /\ entry'[table'[k]].key = k
      OBVIOUS
    <3>1. k # entry[x].key /\ table'[k] = table[k]  BY <1>1, <1>6 DEF TypeOK
    <3>2. table[k] \in Cached /\ entry[table[k]].key = k  BY <1>1, <3>1 DEF Up, Indexed
    <3>3. table[k] # x  BY <3>1, <3>2
    <3> QED  BY <1>9, <2>1, <3>1, <3>2, <3>3
  <2>3. \A y \in Cached' : table'[entry'[y].key] = y
    BY SMTT(60), <1>1, <1>3, <1>6, <2>1 DEF Up, Indexed, TypeOK
  <2>4. ASSUME NEW y \in Allocated', entry'[y].removed PROVE Readers(y)' # {}
    <3>1. CASE y = x
      <4>1. Cardinality(Readers(x)) # 0  BY <1>5, <1>8, <1>13, <3>1
      <4> QED  BY <1>6, <3>1, <4>1, FS_EmptySet, SameReaders
    <3>2. CASE y # x
      BY SMTT(60), <1>1, <1>6, <1>7, <1>8, <2>4, <3>2, SameReaders DEF Up, Indexed, Allocated
    <3> QED  BY <3>1, <3>2
  <2> QED  BY <1>11, <2>2, <2>3, <2>4 DEF Indexed
<1> QED  BY <1>1, <1>6, <1>10, <1>12, <1>14, <1>15, <1>16 DEF CoreInv, Up

\* ht_insert fails: the entry is freed, and nobody had it.
LEMMA PutInsertFailsInv ==
  ASSUME CoreInv, NEW t \in Threads, PutInsertFails(t)
  PROVE  CoreInv'
<1>1. TypeOK /\ BorrowedLive /\ Up  BY CacheConfig DEF CoreInv, Down, PutInsertFails
<1>2. Calls /\ PutReturn(t) /\ mutex = t /\ pc[t] = "put" /\ e # NULL /\ e \in Entries
      /\ arg[t] \in Keys \X Buffers \X Sizes
  BY SMTT(60), <1>1, CacheConfig DEF Up, Calls, PutInsertFails, TypeOK
<1>3. PICK x \in Entries : x = e  BY <1>2
<1>4. /\ entry' = [entry EXCEPT ![x] = Freed] /\ live' = live \ {arg[t][2]} /\ e' = NULL
      /\ UNCHANGED <<table, list, sums>>
  BY <1>3 DEF PutInsertFails, PutReturn
<1>5. entry'[x] = Freed /\ \A y \in Entries : y # x => entry'[y] = entry[y]
  BY <1>1, <1>4 DEF TypeOK
<1>6. Allocated' = Allocated \ {x}  BY <1>5 DEF Allocated
<1>7. Cached' = Cached
  <2>1. NULL \notin Entries  BY CacheConfig
  <2> QED  BY <1>3, <1>4, <1>5, <1>6, <2>1 DEF Cached, Allocated
<1>8. TypeOK'  BY <1>1, <1>2, <1>4, ReturnCalls DEF TypeOK, list, sums
<1>9. Readers(x) = {}
  <2>1. entry[x].refcount = 0 /\ entry[x].key # NULL
    BY SMTT(60), <1>3, <1>2, CacheConfig DEF Calls
  <2>2. x \in Allocated  BY SMTT(60), <2>1 DEF Allocated, Freed
  <2> QED  BY <1>1, <2>1, <2>2, FiniteReaders, FS_EmptySet DEF BorrowedLive
<1>10. BorrowedLive'
  <2>1. \A u \in Threads : held[u] # x  BY <1>9 DEF Readers
  <2>2. \A u \in Threads : pc'[u] = "reading" => pc[u] = "reading"
    BY <1>1, <1>2, ReturnCalls
  <2>3. \A u \in Threads : pc'[u] = "reading" => held'[u] \in Allocated'
    BY <1>1, <1>2, <1>6, <2>1, <2>2, ReturnCalls DEF BorrowedLive
  <2>4. \A y \in Allocated' : entry'[y].refcount = Cardinality(Readers(y))'
    BY SMTT(60), <1>1, <1>2, <1>5, <1>6, ReturnCalls, SameReaders DEF BorrowedLive, Allocated
  <2> QED  BY <2>3, <2>4 DEF BorrowedLive
<1>11. Calls'  BY <1>1, <1>2, ReturnCalls
<1>12. Indexed'
  <2>1. \A y \in Cached : entry'[y] = entry[y]
    BY <1>3, <1>5 DEF Cached, Allocated
  <2>2. \A y \in Allocated' : entry'[y].removed => Readers(y)' # {}
    BY SMTT(60), <1>1, <1>2, <1>5, <1>6, ReturnCalls, SameReaders DEF Up, Indexed, Allocated
  <2> QED  BY SMTT(60), <1>1, <1>4, <1>7, <2>1, <2>2 DEF Up, Indexed, sums
<1>13. TheList' = TheList  BY <1>4 DEF TheList, list
<1> QED
  BY <1>1, <1>2, <1>7, <1>8, <1>10, <1>11, <1>12, <1>13, ReturnCalls DEF CoreInv, Up

\* lru_cache_destroy is called when no thread reads or puts: the list has all
\* the entries there are.
LEMMA AllListed ==
  ASSUME CoreInv, \A t \in Threads : pc[t] = "idle"
  PROVE  /\ TypeOK /\ BorrowedLive /\ Up /\ mutex = NULL
         /\ Allocated = Cached /\ Listed = Cached
<1>1. TypeOK /\ BorrowedLive /\ Up  BY CacheConfig DEF CoreInv, Down
<1>2. mutex = NULL /\ e = NULL /\ \A t \in Threads : held[t] = NULL
  BY <1>1 DEF Up, Calls, TypeOK
<1>3. \A x \in Entries : Readers(x) = {}  BY <1>2, CacheConfig DEF Readers
<1>4. NULL \notin Allocated /\ Allocated \subseteq Entries  BY CacheConfig DEF Allocated
<1>5. \A x \in Allocated : ~entry[x].removed  BY <1>1, <1>3, <1>4 DEF Up, Indexed
<1>6. Allocated = Cached  BY <1>2, <1>4, <1>5 DEF Cached
<1>7. Listed = Cached  BY <1>1 DEF Listed, Walk, Up, Intact, Chained
<1> QED  BY <1>1, <1>2, <1>6, <1>7

\* lru_cache_destroy leaves no entry.
LEMMA DestroyInv == CoreInv /\ Destroy => CoreInv'
<1> SUFFICES ASSUME CoreInv, Destroy PROVE CoreInv'  OBVIOUS
<1>1. /\ entry' = [x \in Entries |-> IF x \in Listed THEN Freed ELSE entry[x]]
      /\ live' = live \ {entry[x].data : x \in Listed}
      /\ table' = [k \in Keys |-> NULL]
      /\ head' = NULL /\ tail' = NULL /\ num_entries' = 0 /\ current_size' = 0
      /\ pc' = [u \in Threads |-> "gone"]
      /\ UNCHANGED <<prev, next, mutex, e, held, seen, arg>>
      /\ \A t \in Threads : pc[t] = "idle"
  BY DEF Destroy
<1>2. /\ TypeOK /\ BorrowedLive /\ Up /\ mutex = NULL
      /\ Allocated = Cached /\ Listed = Cached
  BY <1>1, AllListed
<1>3. TypeOK'  BY SMTT(60), <1>1, <1>2 DEF TypeOK
<1>4. Allocated' = {}  BY <1>1, <1>2 DEF Allocated
<1>5. BorrowedLive'  BY <1>1, <1>4 DEF BorrowedLive
<1> QED  BY <1>1, <1>2, <1>3, <1>4, <1>5 DEF CoreInv, Down

\* A step that changes nothing keeps the invariant; a miss is one.
LEMMA StutterInv == CoreInv /\ UNCHANGED vars => CoreInv'
<1> SUFFICES ASSUME CoreInv, UNCHANGED vars PROVE CoreInv'  OBVIOUS
<1>1. Allocated' = Allocated /\ Cached' = Cached /\ TheList' = TheList
  BY DEF vars, list, Allocated, Cached, TheList
<1>2. TypeOK'  BY DEF CoreInv, TypeOK, vars, list, sums
<1>3. BorrowedLive'  BY <1>1, SameReaders DEF CoreInv, BorrowedLive, vars
<1>4. CASE Up
  <2>1. Calls'  BY <1>4 DEF Up, Calls, vars
  <2>2. Indexed'  BY <1>1, <1>4, SameReaders DEF Up, Indexed, vars, sums
  <2> QED  BY <1>1, <1>2, <1>3, <1>4, <2>1, <2>2 DEF CoreInv, Up, vars
<1>5. CASE Down  BY <1>1, <1>2, <1>3, <1>5 DEF CoreInv, Down, vars, list, sums
<1> QED  BY <1>4, <1>5 DEF CoreInv

-----------------------------------------------------------------------------
(* The payloads.                                                           *)

\* Payloads, without sets of payloads.
Held ==
  /\ \A x, y \in Allocated : entry[x].data = entry[y].data => x = y
  /\ \A t \in Callers, x \in Allocated : entry[x].data # arg[t][2]
  /\ \A t, u \in Callers : arg[t][2] = arg[u][2] => t = u
  /\ \A d : d \in live <=> \/ \E x \in Allocated : d = entry[x].data
                           \/ \E t \in Callers : d = arg[t][2]

\* The two say the same.
LEMMA HeldPayloads == (Payloads <=> Held) /\ (Payloads' <=> Held')
<1>1. live = {entry[x].data : x \in Allocated} \cup {arg[t][2] : t \in Callers} <=>
        \A d : d \in live <=> \/ \E x \in Allocated : d = entry[x].data
                              \/ \E t \in Callers : d = arg[t][2]
  OBVIOUS
<1>2. live' = {entry'[x].data : x \in Allocated'} \cup {arg'[t][2] : t \in Callers'} <=>
        \A d : d \in live' <=> \/ \E x \in Allocated' : d = entry'[x].data
                               \/ \E t \in Callers' : d = arg'[t][2]
  OBVIOUS
<1>3. Payloads <=> Held  BY <1>1 DEF Payloads, Held
<1>4. Payloads' <=> Held'  BY <1>2 DEF Payloads, Held
<1> QED  BY <1>3, <1>4

\* Nothing of them changes hands.
LEMMA PayloadsKept ==
  ASSUME Payloads, Allocated' = Allocated, Callers' = Callers, live' = live,
         \A x \in Allocated : entry'[x].data = entry[x].data,
         \A t \in Callers : arg'[t] = arg[t]
  PROVE  Payloads'
<1> SUFFICES Held'  BY HeldPayloads
<1>1. Held  BY HeldPayloads
<1>2. /\ \A y, z \in Allocated' : entry'[y].data = entry'[z].data => y = z
      /\ \A u \in Callers', y \in Allocated' : entry'[y].data # arg'[u][2]
      /\ \A u, v \in Callers' : arg'[u][2] = arg'[v][2] => u = v
  BY SMTT(60), <1>1 DEF Held
<1>3. \A d : d \in live' <=> \/ \E y \in Allocated' : d = entry'[y].data
                             \/ \E u \in Callers' : d = arg'[u][2]
  BY SMTT(60), <1>1 DEF Held
<1> QED  BY <1>2, <1>3 DEF Held

\* An entry is freed with its payload.
LEMMA PayloadFreed ==
  ASSUME Payloads, NEW x \in Allocated, Allocated' = Allocated \ {x}, Callers' = Callers,
         live' = live \ {entry[x].data},
         \A y \in Allocated \ {x} : entry'[y].data = entry[y].data,
         \A t \in Callers : arg'[t] = arg[t]
  PROVE  Payloads'
<1> SUFFICES Held'  BY HeldPayloads
<1>1. Held  BY HeldPayloads
<1>2. /\ \A y, z \in Allocated' : entry'[y].data = entry'[z].data => y = z
      /\ \A u \in Callers', y \in Allocated' : entry'[y].data # arg'[u][2]
      /\ \A u, v \in Callers' : arg'[u][2] = arg'[v][2] => u = v
  BY SMTT(60), <1>1 DEF Held
<1>3. \A d : d \in live' <=> \/ \E y \in Allocated' : d = entry'[y].data
                             \/ \E u \in Callers' : d = arg'[u][2]
  BY SMTT(60), <1>1 DEF Held
<1> QED  BY <1>2, <1>3 DEF Held

\* A caller gets a payload that nobody has.
LEMMA PayloadLoaded ==
  ASSUME Payloads, NEW t, t \notin Callers, NEW b, b \notin live, arg'[t][2] = b,
         Allocated' = Allocated, Callers' = Callers \cup {t}, live' = live \cup {b}, entry' = entry,
         \A u \in Callers : arg'[u] = arg[u]
  PROVE  Payloads'
<1> SUFFICES Held'  BY HeldPayloads
<1>1. Held  BY HeldPayloads
<1>2. /\ \A y, z \in Allocated' : entry'[y].data = entry'[z].data => y = z
      /\ \A u \in Callers', y \in Allocated' : entry'[y].data # arg'[u][2]
      /\ \A u, v \in Callers' : arg'[u][2] = arg'[v][2] => u = v
  BY SMTT(60), <1>1 DEF Held
<1>3. \A d : d \in live' <=> \/ \E y \in Allocated' : d = entry'[y].data
                             \/ \E u \in Callers' : d = arg'[u][2]
  BY SMTT(60), <1>1 DEF Held
<1> QED  BY <1>2, <1>3 DEF Held

\* A caller's payload becomes that of an entry, whose old one, if it had one, is
\* freed.
LEMMA PayloadPut ==
  ASSUME Payloads, NEW t \in Callers, NEW x, Allocated' = Allocated \cup {x},
         Callers' = Callers \ {t}, entry'[x].data = arg[t][2],
         live' = IF x \in Allocated THEN live \ {entry[x].data} ELSE live,
         \A y \in Allocated \ {x} : entry'[y].data = entry[y].data,
         \A u \in Callers \ {t} : arg'[u] = arg[u]
  PROVE  Payloads'
<1> SUFFICES Held'  BY HeldPayloads
<1>1. Held  BY HeldPayloads
<1>2. /\ \A y, z \in Allocated' : entry'[y].data = entry'[z].data => y = z
      /\ \A u \in Callers', y \in Allocated' : entry'[y].data # arg'[u][2]
      /\ \A u, v \in Callers' : arg'[u][2] = arg'[v][2] => u = v
  BY SMTT(60), <1>1 DEF Held
<1>3. \A d : d \in live' <=> \/ \E y \in Allocated' : d = entry'[y].data
                             \/ \E u \in Callers' : d = arg'[u][2]
  BY SMTT(60), <1>1 DEF Held
<1> QED  BY <1>2, <1>3 DEF Held

\* A caller's payload is freed.
LEMMA PayloadRefused ==
  ASSUME Payloads, NEW t \in Callers, Allocated' = Allocated, Callers' = Callers \ {t},
         live' = live \ {arg[t][2]}, entry' = entry, \A u \in Callers \ {t} : arg'[u] = arg[u]
  PROVE  Payloads'
<1> SUFFICES Held'  BY HeldPayloads
<1>1. Held  BY HeldPayloads
<1>2. /\ \A y, z \in Allocated' : entry'[y].data = entry'[z].data => y = z
      /\ \A u \in Callers', y \in Allocated' : entry'[y].data # arg'[u][2]
      /\ \A u, v \in Callers' : arg'[u][2] = arg'[v][2] => u = v
  BY SMTT(60), <1>1 DEF Held
<1>3. \A d : d \in live' <=> \/ \E y \in Allocated' : d = entry'[y].data
                             \/ \E u \in Callers' : d = arg'[u][2]
  BY SMTT(60), <1>1 DEF Held
<1> QED  BY <1>2, <1>3 DEF Held

\* Who is about to put, when a thread moves.
LEMMA CallersAre ==
  ASSUME TypeOK, NEW t \in Threads, NEW p, pc' = [pc EXCEPT ![t] = p]
  PROVE  /\ p = "loaded" => Callers' = Callers \cup {t}
         /\ p # "loaded" => Callers' = Callers \ {t}
BY SMTT(60) DEF TypeOK, Callers

\* lru_cache_get changes no payload.
LEMMA GetHitPayloads ==
  ASSUME CoreInv, Payloads, NEW t \in Threads, NEW k \in Keys, GetHit(t, k)
  PROVE  Payloads'
<1>1. TypeOK /\ Up  BY CacheConfig DEF CoreInv, Down, GetHit
<1>2. PICK x \in Entries : x = table[k]  BY <1>1 DEF GetHit, TypeOK
<1>3. x \in Allocated /\ entry[x] \in Record
  BY <1>1, <1>2, EntryTypes DEF Up, Indexed, Cached, GetHit
<1>4. /\ entry' = [entry EXCEPT ![x].refcount = @ + 1] /\ pc' = [pc EXCEPT ![t] = "reading"]
      /\ live' = live /\ arg' = arg /\ t \notin Callers
  BY <1>2 DEF GetHit, Callers
<1>5. /\ entry'[x] \in Record /\ entry'[x].data = entry[x].data
      /\ \A y \in Entries : y # x => entry'[y] = entry[y]
  BY SMTT(60), <1>1, <1>3, <1>4 DEF TypeOK, Record
<1>6. Allocated' = Allocated  BY <1>1, <1>3, <1>5, EntryTypes DEF Allocated
<1>7. Callers' = Callers
  <2>1. Callers' = Callers \ {t}  BY <1>1, <1>4, CallersAre
  <2> QED  BY <1>4, <2>1
<1>8. \A y \in Allocated : entry'[y].data = entry[y].data  BY <1>5 DEF Allocated
<1> QED  BY <1>4, <1>6, <1>7, <1>8, PayloadsKept

\* entry_maybe_free frees the payload with its entry.
LEMMA MaybeFreePayloads ==
  ASSUME TypeOK, Payloads, NEW x \in Allocated, NEW d \in Record, d.data = entry[x].data,
         entry_maybe_free(x, d), Callers' = Callers, arg' = arg
  PROVE  Payloads'
<1>1. x \in Entries /\ Allocated \subseteq Entries  BY DEF Allocated
<1>2. /\ IF d.removed /\ d.refcount = 0 THEN entry'[x] = Freed ELSE entry'[x] = d
      /\ \A y \in Entries : y # x => entry'[y] = entry[y]
  BY <1>1, MaybeFree
<1>3. \A y \in Allocated \ {x} : entry'[y].data = entry[y].data  BY <1>1, <1>2
<1>4. CASE d.removed /\ d.refcount = 0
  <2>1. live' = live \ {entry[x].data}  BY <1>4 DEF entry_maybe_free
  <2>2. Allocated' = Allocated \ {x}  BY <1>1, <1>2, <1>4 DEF Allocated
  <2> QED  BY <1>3, <2>1, <2>2, PayloadFreed
<1>5. CASE ~(d.removed /\ d.refcount = 0)
  <2>1. live' = live  BY <1>5 DEF entry_maybe_free
  <2>2. Allocated' = Allocated  BY <1>1, <1>2, <1>5, EntryTypes DEF Allocated
  <2>3. \A y \in Allocated : entry'[y].data = entry[y].data  BY <1>2, <1>3, <1>5
  <2> QED  BY <2>1, <2>2, <2>3, PayloadsKept
<1> QED  BY <1>4, <1>5

\* lru_cache_release.
LEMMA ReleasePayloads ==
  ASSUME CoreInv, Payloads, NEW t \in Threads, Release(t)
  PROVE  Payloads'
<1>1. TypeOK /\ BorrowedLive  BY DEF CoreInv
<1>2. PICK x \in Allocated : x = held[t]  BY <1>1 DEF Release, BorrowedLive
<1>3. PICK d : d = [entry[x] EXCEPT !.refcount = IF @ > 0 THEN @ - 1 ELSE 0]  OBVIOUS
<1>4. entry[x] \in Record  BY <1>1, EntryTypes DEF Allocated
<1>5. d \in Record /\ d.data = entry[x].data  BY SMTT(60), <1>3, <1>4 DEF Record
<1>6. /\ entry_maybe_free(x, d) /\ arg' = arg /\ t \notin Callers
      /\ pc' = [pc EXCEPT ![t] = "idle"]
  BY <1>2, <1>3 DEF Release, Callers
<1>7. Callers' = Callers
  <2>1. Callers' = Callers \ {t}  BY <1>1, <1>6, CallersAre
  <2> QED  BY <1>6, <2>1
<1> QED  BY <1>1, <1>5, <1>6, <1>7, MaybeFreePayloads

\* A caller gets a payload.
LEMMA LoadPayloads ==
  ASSUME CoreInv, Payloads, NEW t \in Threads, NEW k \in Keys, NEW b \in Buffers, NEW n \in Sizes,
         Load(t, k, b, n)
  PROVE  Payloads'
<1>1. TypeOK  BY DEF CoreInv
<1>2. /\ t \notin Callers /\ b \notin live /\ live' = live \cup {b} /\ entry' = entry
      /\ pc' = [pc EXCEPT ![t] = "loaded"] /\ arg' = [arg EXCEPT ![t] = <<k, b, n>>]
  BY DEF Load, Callers
<1>3. Callers' = Callers \cup {t} /\ Allocated' = Allocated
  BY <1>1, <1>2, CallersAre DEF Allocated
<1>4. arg'[t][2] = b /\ \A u \in Callers : arg'[u] = arg[u]
  BY <1>1, <1>2 DEF TypeOK, Callers
<1> QED  BY <1>2, <1>3, <1>4, PayloadLoaded

\* The caller of a put that returns has its payload no more.
LEMMA ReturnCallers ==
  ASSUME TypeOK, NEW t \in Threads, PutReturn(t)
  PROVE  Callers' = Callers \ {t} /\ \A u \in Callers \ {t} : arg'[u] = arg[u]
<1>1. Callers' = Callers \ {t}
  <2>1. pc' = [pc EXCEPT ![t] = "idle"]  BY DEF PutReturn
  <2> QED  BY SMTT(60), <2>1 DEF Callers, TypeOK
<1>2. \A u \in Callers \ {t} : arg'[u] = arg[u]  BY DEF PutReturn, TypeOK, Callers
<1> QED  BY <1>1, <1>2

\* lru_cache_put, of a key that is there.
LEMMA PutOverwritePayloads ==
  ASSUME CoreInv, Payloads, NEW t \in Threads, PutOverwrite(t)
  PROVE  Payloads'
<1>1. /\ pc[t] = "loaded" /\ mutex = NULL /\ table[arg[t][1]] # NULL /\ PutReturn(t)
      /\ live' = live \ {entry[table[arg[t][1]]].data}
      /\ entry' = [entry EXCEPT ![table[arg[t][1]]].data = arg[t][2],
                               ![table[arg[t][1]]].size = arg[t][3]]
  BY DEF PutOverwrite
<1>2. pc[t] = "loaded" /\ PutReturn(t) /\ t \in Callers  BY <1>1 DEF Callers
<1>3. TypeOK /\ Up  BY <1>2 DEF CoreInv, Down
<1>4. arg[t] \in Keys \X Buffers \X Sizes  BY <1>2, <1>3 DEF Up, Calls
<1>5. PICK x \in Entries : x = table[arg[t][1]]  BY <1>1, <1>3, <1>4 DEF TypeOK
<1>6. x \in Allocated /\ entry[x] \in Record
  BY <1>1, <1>3, <1>4, <1>5, EntryTypes, CacheConfig DEF Up, Indexed, Cached
<1>7. PICK b \in Buffers, n \in Nat : b = arg[t][2] /\ n = arg[t][3]  BY <1>4, CacheConfig
<1>8. entry' = [entry EXCEPT ![x].data = b, ![x].size = n] /\ live' = live \ {entry[x].data}
  BY <1>1, <1>5, <1>7
<1>9. /\ entry'[x] \in Record /\ entry'[x].data = b
      /\ \A y \in Entries : y # x => entry'[y] = entry[y]
  BY <1>3, <1>6, <1>8 DEF TypeOK, Record
<1>10. Allocated' = Allocated \cup {x}  BY <1>3, <1>6, <1>9, EntryTypes DEF Allocated
<1>11. \A y \in Allocated \ {x} : entry'[y].data = entry[y].data  BY <1>9 DEF Allocated
<1>12. live' = IF x \in Allocated THEN live \ {entry[x].data} ELSE live  BY <1>6, <1>8
<1>13. Callers' = Callers \ {t} /\ \A u \in Callers \ {t} : arg'[u] = arg[u]
  BY <1>2, <1>3, ReturnCallers
<1> QED  BY <1>2, <1>7, <1>9, <1>10, <1>11, <1>12, <1>13, PayloadPut

\* A put that is refused frees its payload.
LEMMA PutRefusedPayloads ==
  ASSUME CoreInv, Payloads, NEW t \in Threads, PutRefused(t)
  PROVE  Payloads'
<1>1. TypeOK  BY DEF CoreInv
<1>2. t \in Callers /\ live' = live \ {arg[t][2]} /\ entry' = entry /\ PutReturn(t)
  BY DEF PutRefused, Callers
<1>3. Callers' = Callers \ {t} /\ \A u \in Callers \ {t} : arg'[u] = arg[u]
  BY <1>1, <1>2, ReturnCallers
<1>4. Allocated' = Allocated  BY <1>2 DEF Allocated
<1> QED  BY <1>2, <1>3, <1>4, PayloadRefused

\* The entry that is made takes the payload over.
LEMMA PutEntryPayloads ==
  ASSUME CoreInv, Payloads, NEW t \in Threads, NEW x \in Entries, PutEntry(t, x)
  PROVE  Payloads'
<1>1. TypeOK /\ Up  BY CacheConfig DEF CoreInv, Down, PutEntry
<1>2. /\ t \in Callers /\ x \notin Allocated /\ live' = live /\ arg' = arg
      /\ pc' = [pc EXCEPT ![t] = "put"]
      /\ entry' = [entry EXCEPT ![x] = [key |-> arg[t][1], data |-> arg[t][2], size |-> arg[t][3],
                                        refcount |-> 0, removed |-> FALSE]]
  BY DEF PutEntry, Callers
<1>3. arg[t] \in Keys \X Buffers \X Sizes  BY <1>1, <1>2 DEF Up, Calls, Callers
<1>4. /\ entry'[x].data = arg[t][2] /\ entry'[x].key = arg[t][1]
      /\ \A y \in Entries : y # x => entry'[y] = entry[y]
  BY <1>1, <1>2 DEF TypeOK
<1>5. entry'[x] # Freed
  <2>1. arg[t][1] # NULL  BY SMTT(60), <1>3, CacheConfig
  <2> QED  BY SMTT(60), <1>4, <2>1 DEF Freed
<1>6. Allocated' = Allocated \cup {x}  BY <1>4, <1>5 DEF Allocated
<1>7. \A y \in Allocated \ {x} : entry'[y].data = entry[y].data  BY <1>4 DEF Allocated
<1>8. Callers' = Callers \ {t}  BY SMTT(60), <1>1, <1>2 DEF TypeOK, Callers
<1>9. \A u \in Callers \ {t} : arg'[u] = arg[u]  BY <1>2
<1>10. live' = IF x \in Allocated THEN live \ {entry[x].data} ELSE live  BY <1>2
<1> QED  BY <1>2, <1>4, <1>6, <1>7, <1>8, <1>9, <1>10, PayloadPut

\* evict_lru.
LEMMA PutEvictPayloads ==
  ASSUME CoreInv, Payloads, NEW t \in Threads, PutEvict(t)
  PROVE  Payloads'
<1>1. TypeOK /\ Up  BY CacheConfig DEF CoreInv, Down, PutEvict
<1>2. PICK x \in Allocated : x = tail
  BY <1>1, EntryTypes DEF Up, Intact, Linked, TheList, Cached, PutEvict, TypeOK
<1>3. PICK d : d = [entry[x] EXCEPT !.removed = TRUE]  OBVIOUS
<1>4. entry[x] \in Record  BY <1>1, EntryTypes DEF Allocated
<1>5. d \in Record /\ d.data = entry[x].data  BY <1>3, <1>4 DEF Record
<1>6. entry_maybe_free(x, d) /\ arg' = arg /\ pc' = pc  BY <1>2, <1>3 DEF PutEvict
<1>7. Callers' = Callers  BY <1>6 DEF Callers
<1> QED  BY <1>1, <1>5, <1>6, <1>7, MaybeFreePayloads

\* The entry of a put that succeeds keeps its payload.
LEMMA PutInsertPayloads ==
  ASSUME CoreInv, Payloads, NEW t \in Threads, PutInsert(t)
  PROVE  Payloads'
<1>1. TypeOK  BY DEF CoreInv
<1>2. t \notin Callers /\ entry' = entry /\ live' = live /\ PutReturn(t)
  BY DEF PutInsert, Callers
<1>3. Callers' = Callers /\ \A u \in Callers : arg'[u] = arg[u]
  BY <1>1, <1>2, ReturnCallers
<1>4. Allocated' = Allocated  BY <1>2 DEF Allocated
<1> QED  BY <1>2, <1>3, <1>4, PayloadsKept

\* That of a put that fails is freed with it.
LEMMA PutInsertFailsPayloads ==
  ASSUME CoreInv, Payloads, NEW t \in Threads, PutInsertFails(t)
  PROVE  Payloads'
<1>1. TypeOK /\ Up  BY CacheConfig DEF CoreInv, Down, PutInsertFails
<1>2. mutex = t /\ e \in Entries /\ arg[t] \in Keys \X Buffers \X Sizes /\ mutex # NULL
  BY SMTT(60), <1>1, CacheConfig DEF Up, Calls, PutInsertFails, TypeOK
<1>3. entry[e].data = arg[t][2] /\ entry[e].key = arg[t][1]
  <2>1. entry[e] = [key |-> arg[t][1], data |-> arg[t][2], size |-> arg[t][3],
                    refcount |-> 0, removed |-> FALSE]
    BY <1>1, <1>2 DEF Up, Calls
  <2> QED  BY SMTT(60), <2>1
<1>4. e \in Allocated
  <2>1. arg[t][1] # NULL  BY SMTT(60), <1>2, CacheConfig
  <2>2. entry[e] # Freed  BY SMTT(60), <1>3, <2>1 DEF Freed
  <2> QED  BY <1>2, <2>2 DEF Allocated
<1>5. /\ t \notin Callers /\ PutReturn(t) /\ live' = live \ {entry[e].data}
      /\ entry' = [entry EXCEPT ![e] = Freed]
  BY <1>3 DEF PutInsertFails, Callers
<1>6. Callers' = Callers /\ \A u \in Callers : arg'[u] = arg[u]
  BY <1>1, <1>5, ReturnCallers
<1>7. entry'[e] = Freed /\ \A y \in Entries : y # e => entry'[y] = entry[y]
  BY <1>1, <1>2, <1>5 DEF TypeOK
<1>8. Allocated' = Allocated \ {e}  BY <1>7 DEF Allocated
<1>9. \A y \in Allocated \ {e} : entry'[y].data = entry[y].data  BY <1>7 DEF Allocated
<1> QED  BY <1>4, <1>5, <1>6, <1>8, <1>9, PayloadFreed

\* lru_cache_destroy frees the payloads of all entries.
LEMMA DestroyPayloads ==
  ASSUME CoreInv, Payloads, Destroy
  PROVE  Payloads'
<1>1. /\ entry' = [x \in Entries |-> IF x \in Listed THEN Freed ELSE entry[x]]
      /\ live' = live \ {entry[x].data : x \in Listed}
      /\ pc' = [u \in Threads |-> "gone"] /\ \A t \in Threads : pc[t] = "idle"
  BY DEF Destroy
<1>2. Allocated = Cached /\ Listed = Cached  BY <1>1, AllListed
<1>3. Allocated' = {}  BY <1>1, <1>2 DEF Allocated
<1>4. Callers = {} /\ Callers' = {}  BY <1>1 DEF Callers
<1>5. live' = {}  BY <1>1, <1>2, <1>4 DEF Payloads
<1> QED  BY <1>3, <1>4, <1>5 DEF Payloads

-----------------------------------------------------------------------------
(* What holds in every state of the entries and the payloads.              *)

\* Table, list, counts, readers and payloads agree in every state of every run of
\* lru_cache.c, for any number of threads, keys, entries and sizes.
THEOREM CacheInvariant == Spec => []CacheInv
<1>1. CacheInv <=> CoreInv /\ Payloads  BY DEF CacheInv, CoreInv, Up, Down
<1>2. Init => CoreInv /\ Payloads
  <2> SUFFICES ASSUME Init PROVE CoreInv /\ Payloads  OBVIOUS
  <2>1. Allocated = {} /\ Callers = {} /\ live = {}  BY DEF Init, Allocated, Callers
  <2> QED  BY <2>1, InitCache DEF Payloads
<1>3. CoreInv /\ Payloads /\ [Next]_vars => (CoreInv /\ Payloads)'
  <2> SUFFICES ASSUME CoreInv, Payloads, [Next]_vars PROVE CoreInv' /\ Payloads'  OBVIOUS
  <2>1. ASSUME UNCHANGED vars PROVE CoreInv' /\ Payloads'
    <3>1. Allocated' = Allocated /\ Callers' = Callers /\ live' = live /\ entry' = entry /\ arg' = arg
      BY <2>1 DEF vars, Allocated, Callers
    <3> QED  BY <2>1, <3>1, StutterInv, PayloadsKept
  <2>2. ASSUME NEW t \in Threads, Get(t) PROVE CoreInv' /\ Payloads'
    BY <2>1, <2>2, GetHitInv, GetHitPayloads DEF Get, GetMiss
  <2>3. ASSUME NEW t \in Threads, Release(t) PROVE CoreInv' /\ Payloads'
    BY <2>3, ReleaseInv, ReleasePayloads
  <2>4. ASSUME NEW t \in Threads, Put(t) PROVE CoreInv'
    BY <2>4, LoadInv, PutOverwriteInv, PutRefusedInv, PutEntryInv, PutEvictInv, PutInsertInv,
       PutInsertFailsInv DEF Put
  <2>5. ASSUME NEW t \in Threads, Put(t) PROVE Payloads'
    BY <2>5, LoadPayloads, PutOverwritePayloads, PutRefusedPayloads, PutEntryPayloads,
       PutEvictPayloads, PutInsertPayloads, PutInsertFailsPayloads DEF Put
  <2>6. CASE Destroy  BY <2>6, DestroyInv, DestroyPayloads
  <2>7. CASE Terminated \/ UNCHANGED vars  BY <2>1, <2>7 DEF Terminated
  <2> QED  BY <2>2, <2>3, <2>4, <2>5, <2>6, <2>7 DEF Next
<1> QED  BY <1>1, <1>2, <1>3, PTL DEF Spec

\* lru_cache_get's promise: a borrowed entry is not freed before its last
\* reader releases it, and an entry's refcount is its number of readers.
THEOREM CacheBorrowedLive == Spec => []BorrowedLive
<1>1. CacheInv => BorrowedLive  BY DEF CacheInv
<1> QED  BY <1>1, CacheInvariant, PTL

\* lru_cache.c leaks nothing and frees nothing twice, on every path of
\* lru_cache_put, under evictions and readers: an entry and a payload have one
\* owner each, and lru_cache_destroy leaves none.
THEOREM CacheOwned == Spec => []Owned
<1>1. CacheInv => Owned
  <2> SUFFICES ASSUME CacheInv PROVE Owned  OBVIOUS
  <2>1. Payloads /\ TypeOK /\ (Up \/ Down)  BY DEF CacheInv, Up, Down
  <2>2. CASE Up
    <3>1. \A x \in Allocated \ {e} :
            IF entry[x].removed THEN Readers(x) # {} ELSE table[entry[x].key] = x
      BY <2>2 DEF Up, Indexed, Cached
    <3>2. \A k \in Keys : table[k] # NULL =>
            /\ table[k] \in Allocated \ {e}
            /\ entry[table[k]].key = k /\ ~entry[table[k]].removed
      BY <2>2 DEF Up, Indexed, Cached
    <3>3. ~ \A t \in Threads : pc[t] = "gone"  BY <2>2, CacheConfig DEF Up
    <3> QED  BY <2>1, <3>1, <3>2, <3>3 DEF Owned, Payloads
  <2>3. CASE Down
    <3>1. Callers = {}  BY <2>3 DEF Down, Callers
    <3>2. live = {}  BY <2>1, <2>3, <3>1 DEF Payloads, Down
    <3>3. \A k \in Keys : table[k] = NULL  BY <2>3 DEF Down
    <3> QED  BY <2>1, <2>3, <3>2, <3>3 DEF Owned, Payloads, Down
  <2> QED  BY <2>1, <2>2, <2>3
<1> QED  BY <1>1, CacheInvariant, PTL
-----------------------------------------------------------------------------
(* The sizes of a list of entries.                                         *)

\* The sums P of the first bytes of the entries o.
Sums(o, P) ==
  P[0] = 0 /\ \A n \in 1 .. Len(o) : P[n] = P[n - 1] + o[n][2]

\* Such sums end in the bytes of all.
LEMMA BytesAre ==
  ASSUME NEW o, Len(o) \in Nat, NEW P, Sums(o, P)
  PROVE  Abstract!Bytes(o) = P[Len(o)]
<1> DEFINE N == Len(o)
           F(f) == [n \in 0 .. N |-> IF n = 0 THEN 0 ELSE f[n - 1] + o[n][2]]
           g == [n \in 0 .. N |-> P[n]]
<1>1. Abstract!Bytes(o) = (CHOOSE f : f = F(f))[N]  BY DEF Abstract!Bytes
<1>2. \A n \in 0 .. N : n # 0 => n \in 1 .. N /\ n - 1 \in 0 .. N  BY SMTT(60)
<1>3. \A n \in 0 .. N : P[n] = IF n = 0 THEN 0 ELSE P[n - 1] + o[n][2]  BY <1>2 DEF Sums
<1>4. N \in 0 .. N /\ N \in Nat  BY SMTT(60)
<1> HIDE DEF N
<1>5. g = F(g)
  <2>1. \A n \in 0 .. N : g[n] = IF n = 0 THEN 0 ELSE g[n - 1] + o[n][2]  BY <1>2, <1>3
  <2> QED  BY <2>1
<1>6. PICK f : f = F(f) /\ Abstract!Bytes(o) = f[N]
  <2>1. \E f : f = F(f)  BY <1>5
  <2> QED  BY <1>1, <2>1
<1>7. \A n \in 0 .. N : f[n] = P[n]
  <2> DEFINE Bad == {n \in 0 .. N : f[n] # P[n]}
  <2>1. SUFFICES ASSUME Bad # {} PROVE FALSE  OBVIOUS
  <2>2. Bad \in SUBSET Nat  BY SMTT(60), <1>4
  <2> HIDE DEF Bad
  <2>3. PICK n \in Bad : \A m \in Bad : n <= m  BY <2>1, <2>2, LeastNumber
  <2>4. n \in 0 .. N /\ f[n] # P[n] /\ n \in Nat  BY <2>2, <2>3 DEF Bad
  <2>5. n # 0 => n - 1 \in 0 .. N /\ n - 1 \notin Bad
    <3>1. n # 0 => ~(n <= n - 1)  BY SMTT(60), <2>4
    <3> QED  BY <1>2, <2>3, <2>4, <3>1
  <2>6. n # 0 => f[n - 1] = P[n - 1]  BY <2>5 DEF Bad
  <2>7. f[n] = IF n = 0 THEN 0 ELSE f[n - 1] + o[n][2]  BY <1>6, <2>4
  <2> QED  BY <1>3, <2>4, <2>6, <2>7
<1> QED  BY <1>4, <1>6, <1>7 DEF N

Pairs == Keys \X Nat

\* The entries of a sequence have sums.
LEMMA SumsExist ==
  ASSUME NEW o \in Seq(Pairs)
  PROVE  \E P \in [0 .. Len(o) -> Int] : Sums(o, P)
<1> DEFINE N == Len(o)
           Upto(n, P) == P[0] = 0 /\ \A m \in 1 .. n : P[m] = P[m - 1] + o[m][2]
           Bad == {n \in 0 .. N : ~ \E P \in [0 .. n -> Int] : Upto(n, P)}
<1>1. N \in Nat /\ N \in 0 .. N /\ \A n \in 1 .. N : o[n] \in Pairs
  BY SMTT(60)
<1>2. \A n \in 1 .. N : o[n][2] \in Int
  <2>1. \A p \in Pairs : p[2] \in Nat  BY SMTT(60) DEF Pairs
  <2>2. \A n \in Nat : n \in Int  BY SMTT(60)
  <2> QED  BY <1>1, <2>1, <2>2
<1> HIDE DEF N
<1>3. Bad = {}
  <2>1. SUFFICES ASSUME Bad # {} PROVE FALSE  OBVIOUS
  <2>2. Bad \in SUBSET Nat  BY SMTT(60), <1>1
  <2> HIDE DEF Bad
  <2>3. PICK n \in Bad : \A m \in Bad : n <= m  BY <2>1, <2>2, LeastNumber
  <2>4. n \in 0 .. N /\ n \in Nat /\ ~ \E P \in [0 .. n -> Int] : Upto(n, P)  BY <2>2, <2>3 DEF Bad
  <2>5. n # 0
    <3> SUFFICES ASSUME n = 0 PROVE FALSE  OBVIOUS
    <3> DEFINE Z == [m \in 0 .. 0 |-> 0]
    <3>1. Z \in [0 .. 0 -> Int] /\ Z[0] = 0 /\ 1 .. 0 = {}  BY SMTT(60)
    <3> HIDE DEF Z
    <3> QED  BY <2>4, <3>1
  <2>6. n - 1 \in 0 .. N /\ ~(n <= n - 1) /\ n \in 1 .. N  BY SMTT(60), <1>1, <2>4, <2>5
  <2>7. PICK P \in [0 .. n - 1 -> Int] : Upto(n - 1, P)  BY <2>3, <2>6 DEF Bad
  <2> DEFINE Q == [m \in 0 .. n |-> IF m = n THEN P[n - 1] + o[n][2] ELSE P[m]]
  <2>8. o[n][2] \in Int  BY <1>2, <2>6
  <2>9. Q \in [0 .. n -> Int]  BY SMTT(60), <2>4, <2>5, <2>8
  <2>10. \A m \in 1 .. n : m \in 0 .. n /\ m - 1 \in 0 .. n /\ m - 1 # n /\ (m # n => m \in 1 .. n - 1)
    BY SMTT(60), <2>4
  <2>11. 0 \in 0 .. n /\ 0 # n  BY SMTT(60), <2>4, <2>5
  <2>12. \A m \in 0 .. n : Q[m] = IF m = n THEN P[n - 1] + o[n][2] ELSE P[m]  OBVIOUS
  <2> HIDE DEF Q
  <2>13. Upto(n, Q)  BY <2>7, <2>10, <2>11, <2>12
  <2> QED  BY <2>4, <2>9, <2>13
<1>4. \E P \in [0 .. N -> Int] : Upto(N, P)  BY <1>1, <1>3
<1> QED  BY <1>4 DEF N, Sums

\* What <<v>> \o o and Without(o, i) are, position by position.
LEMMA Positions ==
  ASSUME NEW o \in Seq(Pairs)
  PROVE  /\ Len(o) \in Nat /\ \A n \in 1 .. Len(o) : o[n][2] \in Int
         /\ \A v \in Pairs :
              /\ <<v>> \o o \in Seq(Pairs) /\ Len(<<v>> \o o) = Len(o) + 1
              /\ \A n \in 1 .. Len(o) + 1 : (<<v>> \o o)[n] = IF n = 1 THEN v ELSE o[n - 1]
         /\ \A i \in 1 .. Len(o) :
              /\ Abstract!Without(o, i) \in Seq(Pairs)
              /\ Len(Abstract!Without(o, i)) = Len(o) - 1
              /\ \A n \in 1 .. Len(o) - 1 :
                   Abstract!Without(o, i)[n] = IF n < i THEN o[n] ELSE o[n + 1]
<1>1. Len(o) \in Nat /\ \A n \in 1 .. Len(o) : o[n] \in Pairs  BY SMTT(60)
<1>2. \A n \in 1 .. Len(o) : o[n][2] \in Int
  <2>1. \A p \in Pairs : p[2] \in Nat  BY SMTT(60) DEF Pairs
  <2>2. \A n \in Nat : n \in Int  BY SMTT(60)
  <2> QED  BY <1>1, <2>1, <2>2
<1>3. ASSUME NEW v \in Pairs
      PROVE  /\ <<v>> \o o \in Seq(Pairs) /\ Len(<<v>> \o o) = Len(o) + 1
             /\ \A n \in 1 .. Len(o) + 1 : (<<v>> \o o)[n] = IF n = 1 THEN v ELSE o[n - 1]
  <2>1. <<v>> \in Seq(Pairs) /\ Len(<<v>>) = 1 /\ <<v>>[1] = v  BY SMTT(60)
  <2>2. <<v>> \o o \in Seq(Pairs)  BY SMTT(60), <2>1
  <2>3. Len(<<v>> \o o) = Len(<<v>>) + Len(o)  BY SMTT(60), <2>1
  <2>4. \A n \in 1 .. Len(<<v>>) + Len(o) :
          (<<v>> \o o)[n] = IF n <= Len(<<v>>) THEN <<v>>[n] ELSE o[n - Len(<<v>>)]
    BY SMTT(60), <2>1
  <2> QED  BY SMTT(60), <1>1, <2>1, <2>2, <2>3, <2>4
<1>4. ASSUME NEW i \in 1 .. Len(o)
      PROVE  /\ Abstract!Without(o, i) \in Seq(Pairs)
             /\ Len(Abstract!Without(o, i)) = Len(o) - 1
             /\ \A n \in 1 .. Len(o) - 1 :
                  Abstract!Without(o, i)[n] = IF n < i THEN o[n] ELSE o[n + 1]
  <2> DEFINE w == Abstract!Without(o, i)
  <2>1. \A n \in 1 .. Len(o) - 1 : w[n] = IF n < i THEN o[n] ELSE o[n + 1]
    BY DEF Abstract!Without
  <2>2. Len(o) - 1 \in Nat /\ \A n \in 1 .. Len(o) - 1 : n \in 1 .. Len(o) /\ n + 1 \in 1 .. Len(o)
    BY SMTT(60), <1>1
  <2>3. w \in [1 .. Len(o) - 1 -> Pairs]  BY <1>1, <2>2 DEF Abstract!Without
  <2> HIDE DEF w
  <2>4. w \in Seq(Pairs)
    <3>1. [1 .. Len(o) - 1 -> Pairs] \subseteq Seq(Pairs)  BY <2>2, FunctionSeq
    <3> QED  BY <2>3, <3>1
  <2>5. Len(w) \in Nat /\ 1 .. Len(w) = 1 .. Len(o) - 1
    <3>1. DOMAIN w = 1 .. Len(o) - 1  BY <2>3
    <3> QED  BY <2>4, <3>1, SeqFunction
  <2>6. Len(w) = Len(o) - 1  BY SMTT(60), <2>2, <2>5
  <2> QED  BY <2>1, <2>4, <2>6 DEF w
<1> QED  BY <1>1, <1>2, <1>3, <1>4

\* An entry in front adds its bytes.
LEMMA BytesPushed ==
  ASSUME NEW o \in Seq(Pairs), NEW v \in Pairs
  PROVE  /\ Abstract!Bytes(o) \in Int
         /\ Abstract!Bytes(<<v>> \o o) = Abstract!Bytes(o) + v[2]
<1> DEFINE N == Len(o)  q == <<v>> \o o
<1>1. PICK P \in [0 .. N -> Int] : Sums(o, P)  BY SumsExist
<1>2. N \in Nat /\ q \in Seq(Pairs) /\ Len(q) = N + 1 /\ \A n \in 1 .. N : o[n][2] \in Int
  BY Positions
<1>3. \A n \in 1 .. N + 1 : q[n] = IF n = 1 THEN v ELSE o[n - 1]  BY Positions
<1>4. v[2] \in Int  BY SMTT(60) DEF Pairs
<1>5. P[0] = 0 /\ \A n \in 1 .. N : P[n] = P[n - 1] + o[n][2]  BY <1>1 DEF Sums
<1>6. Abstract!Bytes(o) = P[N]  BY <1>1, <1>2, BytesAre
<1> HIDE DEF N, q
<1> DEFINE Q == [n \in 0 .. N + 1 |-> IF n = 0 THEN 0 ELSE P[n - 1] + v[2]]
<1>7. 0 \in 0 .. N + 1 /\ N + 1 \in 0 .. N + 1 /\ N + 1 # 0 /\ (N + 1) - 1 = N  BY SMTT(60), <1>2
<1>8. Q[0] = 0 /\ Q[N + 1] = P[N] + v[2]  BY <1>7
<1>9. \A n \in 1 .. N + 1 : Q[n] = Q[n - 1] + q[n][2]
  <2> SUFFICES ASSUME NEW n \in 1 .. N + 1 PROVE Q[n] = Q[n - 1] + q[n][2]  OBVIOUS
  <2>1. n \in 0 .. N + 1 /\ n - 1 \in 0 .. N + 1 /\ n # 0 /\ 1 - 1 = 0  BY SMTT(60), <1>2
  <2>2. Q[n] = P[n - 1] + v[2]  BY <2>1
  <2>3. Q[n - 1] = IF n - 1 = 0 THEN 0 ELSE P[n - 1 - 1] + v[2]  BY <2>1
  <2> HIDE DEF Q
  <2>4. CASE n = 1
    <3>1. Q[n] = P[0] + v[2] /\ Q[n - 1] = 0 /\ q[n] = v  BY <1>3, <2>1, <2>2, <2>3, <2>4
    <3> QED  BY <1>5, <3>1
  <2>5. CASE n # 1
    <3>1. n - 1 # 0 /\ n - 1 \in 1 .. N /\ n - 1 - 1 \in 0 .. N  BY SMTT(60), <1>2, <2>5
    <3>2. q[n] = o[n - 1] /\ Q[n - 1] = P[n - 1 - 1] + v[2]  BY <1>3, <2>3, <2>5, <3>1
    <3>3. P[n - 1] = P[n - 1 - 1] + o[n - 1][2]  BY <1>5, <3>1
    <3>4. P[n - 1 - 1] \in Int /\ o[n - 1][2] \in Int  BY <1>1, <1>2, <3>1
    <3> HIDE DEF q
    <3>5. q[n][2] = o[n - 1][2]  BY <3>2
    <3> QED  BY SMTT(60), <1>4, <2>2, <3>2, <3>3, <3>4, <3>5
  <2> QED  BY <2>4, <2>5
<1>10. Len(q) \in Nat  BY SMTT(60), <1>2
<1> HIDE DEF Q
<1>11. Abstract!Bytes(q) = Q[N + 1]
  <2>1. Sums(q, Q)  BY <1>2, <1>8, <1>9 DEF Sums
  <2> QED  BY <1>2, <1>10, <2>1, BytesAre
<1>12. N \in 0 .. N  BY SMTT(60), <1>2
<1> QED  BY <1>1, <1>6, <1>8, <1>11, <1>12 DEF q

\* An entry taken out takes its bytes.
LEMMA BytesWithout ==
  ASSUME NEW o \in Seq(Pairs), NEW i \in 1 .. Len(o)
  PROVE  Abstract!Bytes(Abstract!Without(o, i)) = Abstract!Bytes(o) - o[i][2]
<1> DEFINE N == Len(o)  q == Abstract!Without(o, i)
<1>1. PICK P \in [0 .. N -> Int] : Sums(o, P)  BY SumsExist
<1>2. N \in Nat /\ q \in Seq(Pairs) /\ Len(q) = N - 1 /\ \A n \in 1 .. N : o[n][2] \in Int
  BY Positions
<1>3. \A n \in 1 .. N - 1 : q[n] = IF n < i THEN o[n] ELSE o[n + 1]  BY Positions
<1>4. P[0] = 0 /\ \A n \in 1 .. N : P[n] = P[n - 1] + o[n][2]  BY <1>1 DEF Sums
<1>5. Abstract!Bytes(o) = P[N]  BY <1>1, <1>2, BytesAre
<1>6. i \in 1 .. N /\ o[i][2] \in Int  BY <1>2
<1> HIDE DEF N, q
<1> DEFINE Q == [n \in 0 .. N - 1 |-> IF n < i THEN P[n] ELSE P[n + 1] - o[i][2]]
<1>7. \A n \in 0 .. N - 1 : Q[n] = IF n < i THEN P[n] ELSE P[n + 1] - o[i][2]  OBVIOUS
<1> HIDE DEF Q
<1>8. Q[0] = 0
  <2>1. 0 \in 0 .. N - 1 /\ 0 < i  BY SMTT(60), <1>2, <1>6
  <2> QED  BY <1>4, <1>7, <2>1
<1>9. Q[N - 1] = P[N] - o[i][2]
  <2>1. N - 1 \in 0 .. N - 1 /\ (N - 1) + 1 = N /\ (N - 1 < i => i = N) /\ N \in 1 .. N
    BY SMTT(60), <1>2, <1>6
  <2>2. CASE N - 1 < i
    <3>1. Q[N - 1] = P[N - 1] /\ P[N] = P[N - 1] + o[i][2]  BY <1>4, <1>7, <2>1, <2>2
    <3>2. P[N - 1] \in Int
      <4>1. N - 1 \in 0 .. N  BY SMTT(60), <1>2, <2>1
      <4> QED  BY <1>1, <4>1
    <3> QED  BY SMTT(60), <1>6, <3>1, <3>2
  <2>3. CASE ~(N - 1 < i)  BY <1>7, <2>1, <2>3
  <2> QED  BY <2>2, <2>3
<1>10. \A n \in 1 .. N - 1 : Q[n] = Q[n - 1] + q[n][2]
  <2> SUFFICES ASSUME NEW n \in 1 .. N - 1 PROVE Q[n] = Q[n - 1] + q[n][2]  OBVIOUS
  <2>1. /\ n \in 0 .. N - 1 /\ n - 1 \in 0 .. N - 1 /\ n \in 1 .. N /\ n + 1 \in 1 .. N
        /\ (n + 1) - 1 = n /\ (n - 1) + 1 = n /\ n \in 0 .. N /\ n - 1 \in 0 .. N
    BY SMTT(60), <1>2
  <2>2. P[n] = P[n - 1] + o[n][2] /\ P[n + 1] = P[n] + o[n + 1][2]  BY <1>4, <2>1
  <2>3. P[n] \in Int /\ P[n - 1] \in Int /\ o[n][2] \in Int /\ o[n + 1][2] \in Int
    BY <1>1, <1>2, <2>1
  <2>4. CASE n < i
    <3>1. n - 1 < i  BY SMTT(60), <2>4, <1>6, <1>2
    <3>2. Q[n] = P[n] /\ Q[n - 1] = P[n - 1] /\ q[n] = o[n]  BY <1>3, <1>7, <2>1, <2>4, <3>1
    <3> QED  BY <2>2, <3>2
  <2>5. CASE n = i
    <3>1. n - 1 < i /\ ~(n < i)  BY SMTT(60), <2>5, <1>6, <1>2
    <3>2. Q[n] = P[n + 1] - o[n][2] /\ Q[n - 1] = P[n - 1] /\ q[n] = o[n + 1]
      BY <1>3, <1>7, <2>1, <2>5, <3>1
    <3>3. q[n][2] = o[n + 1][2]  BY <3>2
    <3> QED  BY SMTT(60), <2>2, <2>3, <3>2, <3>3
  <2>6. CASE i < n
    <3>1. ~(n - 1 < i) /\ ~(n < i)  BY SMTT(60), <2>6, <1>6, <1>2
    <3>2. Q[n] = P[n + 1] - o[i][2] /\ Q[n - 1] = P[n] - o[i][2] /\ q[n] = o[n + 1]
      BY <1>3, <1>7, <2>1, <3>1
    <3>3. q[n][2] = o[n + 1][2]  BY <3>2
    <3> QED  BY SMTT(60), <1>6, <2>2, <2>3, <3>2, <3>3
  <2> QED  BY SMTT(60), <1>2, <1>6, <2>4, <2>5, <2>6
<1>11. Len(q) \in Nat  BY SMTT(60), <1>2, <1>6
<1>12. Abstract!Bytes(q) = Q[N - 1]
  <2>1. Sums(q, Q)  BY <1>2, <1>8, <1>10 DEF Sums
  <2> QED  BY <1>2, <1>11, <2>1, BytesAre
<1> QED  BY <1>5, <1>9, <1>12 DEF q

-----------------------------------------------------------------------------
(* The order of the entries.                                               *)

\* The keys and sizes, by the entries d, of the list s.
Listing(s, d) == [n \in DOMAIN s |-> <<d[s[n]].key, d[s[n]].size>>]

\* A listing of entries that exist is one of keys and sizes.
LEMMA ListingType ==
  ASSUME NEW N \in Nat, NEW s \in [1 .. N -> Entries], NEW d, \A n \in 1 .. N : d[s[n]] \in Record
  PROVE  /\ Listing(s, d) \in Seq(Pairs) /\ Len(Listing(s, d)) = N
         /\ \A n \in 1 .. N : Listing(s, d)[n] = <<d[s[n]].key, d[s[n]].size>>
<1> DEFINE o == Listing(s, d)
<1>1. \A r \in Record : <<r.key, r.size>> \in Pairs  BY DEF Record, Pairs
<1>2. DOMAIN s = 1 .. N  OBVIOUS
<1>3. o \in [1 .. N -> Pairs]  BY <1>1, <1>2 DEF Listing
<1>4. \A n \in 1 .. N : o[n] = <<d[s[n]].key, d[s[n]].size>>  BY <1>2 DEF Listing
<1> HIDE DEF o
<1>5. o \in Seq(Pairs)
  <2>1. [1 .. N -> Pairs] \subseteq Seq(Pairs)  BY FunctionSeq
  <2> QED  BY <1>3, <2>1
<1>6. Len(o) \in Nat /\ 1 .. Len(o) = 1 .. N
  <2>1. DOMAIN o = 1 .. N  BY <1>3
  <2> QED  BY <1>5, <2>1, SeqFunction
<1>7. Len(o) = N  BY SMTT(60), <1>6
<1> QED  BY <1>4, <1>5, <1>7 DEF o

\* A listing with an entry in front.
LEMMA ListingPushed ==
  ASSUME NEW s, Len(s) \in Nat, s \in [1 .. Len(s) -> Entries], NEW x \in Entries, NEW d, NEW f,
         \A n \in 1 .. Len(s) : d[s[n]] \in Record,
         \A n \in 1 .. Len(s) : f[s[n]] = d[s[n]],
         f[x] \in Record
  PROVE  Listing(Pushed(s, x), f) = <<<<f[x].key, f[x].size>>>> \o Listing(s, d)
<1> DEFINE N == Len(s)  o == Listing(s, d)  v == <<f[x].key, f[x].size>>  r == Pushed(s, x)
<1>1. N + 1 \in Nat /\ \A n \in 1 .. N + 1 : n # 1 => n - 1 \in 1 .. N  BY SMTT(60)
<1>2. \A n \in 1 .. N + 1 : r[n] = IF n = 1 THEN x ELSE s[n - 1]  BY DEF Pushed
<1>3. r \in [1 .. N + 1 -> Entries]  BY <1>1 DEF Pushed
<1>4. o \in Seq(Pairs) /\ Len(o) = N /\ \A n \in 1 .. N : o[n] = <<d[s[n]].key, d[s[n]].size>>
  BY SMTT(60), ListingType
<1>5. v \in Pairs  BY DEF Record, Pairs
<1> HIDE DEF r, o, N
<1>6. \A n \in 1 .. N + 1 : f[r[n]] \in Record  BY SMTT(60), <1>1, <1>2 DEF N
<1>7. /\ Listing(r, f) \in Seq(Pairs) /\ Len(Listing(r, f)) = N + 1
      /\ \A n \in 1 .. N + 1 : Listing(r, f)[n] = <<f[r[n]].key, f[r[n]].size>>
  BY SMTT(60), <1>1, <1>3, <1>6, ListingType
<1> HIDE DEF v
<1>8. /\ <<v>> \o o \in Seq(Pairs) /\ Len(<<v>> \o o) = N + 1
      /\ \A n \in 1 .. N + 1 : (<<v>> \o o)[n] = IF n = 1 THEN v ELSE o[n - 1]
  BY <1>4, <1>5, Positions
<1>9. \A n \in 1 .. N + 1 : Listing(r, f)[n] = (<<v>> \o o)[n]
  <2> SUFFICES ASSUME NEW n \in 1 .. N + 1 PROVE Listing(r, f)[n] = (<<v>> \o o)[n]  OBVIOUS
  <2>1. CASE n = 1  BY SMTT(60), <1>2, <1>7, <1>8, <2>1 DEF v
  <2>2. CASE n # 1
    <3>1. n - 1 \in 1 .. N /\ r[n] = s[n - 1]  BY <1>1, <1>2, <2>2
    <3>2. f[s[n - 1]] = d[s[n - 1]]  BY <3>1 DEF N
    <3>3. f[r[n]] = d[s[n - 1]]  BY <3>1, <3>2
    <3>4. o[n - 1] = <<d[s[n - 1]].key, d[s[n - 1]].size>>  BY <1>4, <3>1
    <3>5. (<<v>> \o o)[n] = o[n - 1]  BY <1>8, <2>2
    <3>6. Listing(r, f)[n] = <<f[r[n]].key, f[r[n]].size>>  BY <1>7
    <3> QED  BY <3>3, <3>4, <3>5, <3>6
  <2> QED  BY <2>1, <2>2
<1>10. Listing(r, f) = <<v>> \o o  BY SMTT(60), <1>7, <1>8, <1>9, SameSeq
<1> QED  BY <1>10 DEF r, v, o

\* A listing without the entry at i.
LEMMA ListingRemoved ==
  ASSUME NEW s, Len(s) \in Nat, s \in [1 .. Len(s) -> Entries], NEW i \in 1 .. Len(s),
         NEW d, NEW f, \A n \in 1 .. Len(s) : d[s[n]] \in Record,
         \A n \in 1 .. Len(s) : n # i => f[s[n]] = d[s[n]]
  PROVE  Listing(Removed(s, i), f) = Abstract!Without(Listing(s, d), i)
<1> DEFINE N == Len(s)  o == Listing(s, d)  r == Removed(s, i)  w == Abstract!Without(o, i)
<1>1. /\ N - 1 \in Nat
      /\ \A n \in 1 .. N - 1 : n \in 1 .. N /\ n + 1 \in 1 .. N /\ (n < i => n # i)
                               /\ (~(n < i) => n + 1 # i)
  BY SMTT(60)
<1>2. \A n \in 1 .. N - 1 : r[n] = IF n < i THEN s[n] ELSE s[n + 1]  BY DEF Removed
<1>3. r \in [1 .. N - 1 -> Entries]  BY <1>1 DEF Removed
<1>4. o \in Seq(Pairs) /\ Len(o) = N /\ \A n \in 1 .. N : o[n] = <<d[s[n]].key, d[s[n]].size>>
  BY SMTT(60), ListingType
<1> HIDE DEF r, o, N
<1>5. \A n \in 1 .. N - 1 : f[r[n]] = IF n < i THEN d[s[n]] ELSE d[s[n + 1]]
  BY <1>1, <1>2 DEF N
<1>6. \A n \in 1 .. N - 1 : f[r[n]] \in Record  BY <1>1, <1>5 DEF N
<1>7. /\ Listing(r, f) \in Seq(Pairs) /\ Len(Listing(r, f)) = N - 1
      /\ \A n \in 1 .. N - 1 : Listing(r, f)[n] = <<f[r[n]].key, f[r[n]].size>>
  <2>1. PICK M \in Nat : M = N - 1  BY <1>1
  <2>2. r \in [1 .. M -> Entries] /\ \A n \in 1 .. M : f[r[n]] \in Record  BY <1>3, <1>6, <2>1
  <2>3. /\ Listing(r, f) \in Seq(Pairs) /\ Len(Listing(r, f)) = M
        /\ \A n \in 1 .. M : Listing(r, f)[n] = <<f[r[n]].key, f[r[n]].size>>
    BY SMTT(60), <2>2, ListingType
  <2> QED  BY <2>1, <2>3
<1>8. /\ w \in Seq(Pairs) /\ Len(w) = N - 1
      /\ \A n \in 1 .. N - 1 : w[n] = IF n < i THEN o[n] ELSE o[n + 1]
  <2>1. i \in 1 .. Len(o)  BY <1>4 DEF N
  <2> QED  BY <1>4, <2>1, Positions
<1> HIDE DEF w
<1>9. \A n \in 1 .. N - 1 : Listing(r, f)[n] = w[n]
  <2> SUFFICES ASSUME NEW n \in 1 .. N - 1 PROVE Listing(r, f)[n] = w[n]  OBVIOUS
  <2>1. CASE n < i
    <3>1. n \in 1 .. N /\ f[r[n]] = d[s[n]]  BY <1>1, <1>5, <2>1
    <3>2. o[n] = <<d[s[n]].key, d[s[n]].size>>  BY <1>4, <3>1
    <3> QED  BY <1>7, <1>8, <2>1, <3>1, <3>2
  <2>2. CASE ~(n < i)
    <3>1. n + 1 \in 1 .. N /\ f[r[n]] = d[s[n + 1]]  BY <1>1, <1>5, <2>2
    <3>2. o[n + 1] = <<d[s[n + 1]].key, d[s[n + 1]].size>>  BY <1>4, <3>1
    <3> QED  BY <1>7, <1>8, <2>2, <3>1, <3>2
  <2> QED  BY <2>1, <2>2
<1>10. Listing(r, f) = w  BY <1>7, <1>8, <1>9, SameSeq
<1> QED  BY <1>10 DEF r, w, o

\* A move to the front takes the entry out and puts it in front.
LEMMA MovedIs ==
  ASSUME NEW s, Len(s) \in Nat, s \in [1 .. Len(s) -> Entries], NEW i \in 1 .. Len(s)
  PROVE  /\ ToFront(s, i) = Pushed(Removed(s, i), s[i])
         /\ Removed(s, i) \in [1 .. Len(s) - 1 -> Entries] /\ Len(Removed(s, i)) = Len(s) - 1
<1> DEFINE N == Len(s)  r == Removed(s, i)
<1>1. /\ N - 1 \in Nat /\ (N - 1) + 1 = N
      /\ \A n \in 1 .. N - 1 : n \in 1 .. N /\ n + 1 \in 1 .. N
      /\ \A n \in 1 .. N : n # 1 => n - 1 \in 1 .. N - 1 /\ (n - 1) + 1 = n /\ (n - 1 < i <=> n <= i)
  BY SMTT(60)
<1>2. \A n \in 1 .. N - 1 : r[n] = IF n < i THEN s[n] ELSE s[n + 1]  BY DEF Removed
<1>3. r \in [1 .. N - 1 -> Entries]  BY <1>1 DEF Removed
<1>4. Len(r) = N - 1
  <2> HIDE DEF r, N
  <2>1. [1 .. N - 1 -> Entries] \subseteq Seq(Entries) /\ DOMAIN r = 1 .. N - 1  BY <1>1, <1>3, FunctionSeq
  <2>2. Len(r) \in Nat /\ 1 .. Len(r) = 1 .. N - 1  BY <1>3, <2>1, SeqFunction
  <2> QED  BY SMTT(60), <1>1, <2>2
<1>5. DOMAIN s = 1 .. N  OBVIOUS
<1> HIDE DEF r, N
<1>6. Pushed(r, s[i]) = [n \in 1 .. N |-> IF n = 1 THEN s[i] ELSE r[n - 1]]
  BY <1>1, <1>4 DEF Pushed
<1>7. ToFront(s, i) = [n \in 1 .. N |-> s[IF n = 1 THEN i ELSE IF n <= i THEN n - 1 ELSE n]]
  BY <1>5 DEF ToFront
<1>8. \A n \in 1 .. N : s[IF n = 1 THEN i ELSE IF n <= i THEN n - 1 ELSE n]
                        = IF n = 1 THEN s[i] ELSE r[n - 1]
  BY <1>1, <1>2
<1>9. ToFront(s, i) = Pushed(r, s[i])  BY <1>6, <1>7, <1>8
<1> QED  BY <1>3, <1>4, <1>9 DEF r, N

\* A listing with the entry at i moved to the front, and changed.
LEMMA ListingMoved ==
  ASSUME NEW s, Len(s) \in Nat, s \in [1 .. Len(s) -> Entries], NEW i \in 1 .. Len(s),
         NEW d, NEW f, \A n \in 1 .. Len(s) : d[s[n]] \in Record,
         \A n \in 1 .. Len(s) : n # i => f[s[n]] = d[s[n]],
         f[s[i]] \in Record
  PROVE  Listing(ToFront(s, i), f)
         = <<<<f[s[i]].key, f[s[i]].size>>>> \o Abstract!Without(Listing(s, d), i)
<1> DEFINE r == Removed(s, i)  N == Len(s)
<1>1. ToFront(s, i) = Pushed(r, s[i]) /\ r \in [1 .. N - 1 -> Entries] /\ Len(r) = N - 1
  BY MovedIs
<1>2. N - 1 \in Nat /\ \A n \in 1 .. N - 1 : n \in 1 .. N /\ n + 1 \in 1 .. N  BY SMTT(60)
<1>3. \A n \in 1 .. N - 1 : r[n] = IF n < i THEN s[n] ELSE s[n + 1]  BY DEF Removed
<1>4. \A n \in 1 .. N : f[s[n]] \in Record  OBVIOUS
<1>5. s[i] \in Entries  OBVIOUS
<1>6. Listing(r, f) = Abstract!Without(Listing(s, d), i)  BY ListingRemoved
<1> HIDE DEF r, N
<1>7. \A n \in 1 .. N - 1 : f[r[n]] \in Record  BY <1>2, <1>3, <1>4
<1>8. Listing(Pushed(r, s[i]), f) = <<<<f[s[i]].key, f[s[i]].size>>>> \o Listing(r, f)
  BY <1>1, <1>2, <1>5, <1>7, ListingPushed
<1> QED  BY <1>1, <1>6, <1>8

\* What the list of a cache in use is, and its order.
LEMMA OrderIs ==
  ASSUME TypeOK, Up
  PROVE  /\ Len(Walk) \in Nat /\ Walk \in [1 .. Len(Walk) -> Entries]
         /\ \A n \in 1 .. Len(Walk) : Walk[n] \in Cached /\ entry[Walk[n]] \in Record
         /\ \A x \in Cached : \E n \in 1 .. Len(Walk) : x = Walk[n]
         /\ \A m, n \in 1 .. Len(Walk) : Walk[m] = Walk[n] => m = n
         /\ Order = Listing(Walk, entry) /\ Order \in Seq(Pairs) /\ Len(Order) = Len(Walk)
         /\ \A n \in 1 .. Len(Walk) : Order[n] = <<entry[Walk[n]].key, entry[Walk[n]].size>>
<1>1. Len(Walk) \in Nat /\ Follows(TheList, Cached, Walk, Len(Walk))
  BY IntactWalk DEF Up, Walk
<1>2. Cached \subseteq Entries /\ \A x \in Cached : entry[x] \in Record  BY EntryTypes
<1>3. /\ Walk \in [1 .. Len(Walk) -> Entries]
      /\ \A n \in 1 .. Len(Walk) : Walk[n] \in Cached
      /\ \A x \in Cached : \E n \in 1 .. Len(Walk) : x = Walk[n]
      /\ \A m, n \in 1 .. Len(Walk) : Walk[m] = Walk[n] => m = n
  BY <1>1 DEF Follows
<1>4. \A n \in 1 .. Len(Walk) : entry[Walk[n]] \in Record  BY <1>2, <1>3
<1>5. Order = Listing(Walk, entry)  BY DEF Order, Listing
<1>6. /\ Listing(Walk, entry) \in Seq(Pairs) /\ Len(Listing(Walk, entry)) = Len(Walk)
      /\ \A n \in 1 .. Len(Walk) : Listing(Walk, entry)[n] = <<entry[Walk[n]].key, entry[Walk[n]].size>>
  <2>1. Len(Walk) \in Nat /\ Walk \in [1 .. Len(Walk) -> Entries]  BY <1>1, <1>3
  <2> QED  BY <1>4, <2>1, ListingType
<1> QED  BY <1>1, <1>3, <1>4, <1>5, <1>6

\* The order after a step.
LEMMA OrderNext == Order' = Listing(Walk', entry') /\ Walk' = Walked(TheList')
BY DEF Order, Listing, Walk

\* A step that leaves the list, and the keys and sizes in it, leaves the order.
LEMMA OrderKept ==
  ASSUME TypeOK, Up, TheList' = TheList,
         \A x \in Cached : entry'[x].key = entry[x].key /\ entry'[x].size = entry[x].size
  PROVE  Order' = Order
<1>1. Walk' = Walk  BY OrderNext DEF Walk
<1>2. /\ DOMAIN Walk = 1 .. Len(Walk) /\ \A n \in 1 .. Len(Walk) : Walk[n] \in Cached
      /\ Order = Listing(Walk, entry)
  BY OrderIs
<1>3. \A n \in DOMAIN Walk : <<entry'[Walk[n]].key, entry'[Walk[n]].size>>
                             = <<entry[Walk[n]].key, entry[Walk[n]].size>>
  BY <1>2
<1>4. Listing(Walk, entry') = Listing(Walk, entry)  BY <1>3 DEF Listing
<1> QED  BY <1>1, <1>2, <1>4, OrderNext

\* list_move_front of a cached entry, which may get another size.
LEMMA OrderMoved ==
  ASSUME TypeOK, Up, NEW x \in Cached, SetList(list_move_front(TheList, x)),
         \A y \in Entries : y # x => entry'[y] = entry[y],
         entry'[x] \in Record
  PROVE  \E i \in 1 .. Len(Order) :
           /\ Order[i] = <<entry[x].key, entry[x].size>>
           /\ Order' = <<<<entry'[x].key, entry'[x].size>>>> \o Abstract!Without(Order, i)
           /\ Abstract!Bytes(Order') = Abstract!Bytes(Order) - entry[x].size + entry'[x].size
<1> DEFINE m == list_move_front(TheList, x)
<1>1. TheList \in Lists /\ Cached \in SUBSET Entries /\ Intact(TheList, Cached)
  BY ListIs, EntryTypes DEF Up
<1>2. m \in Lists
      /\ \E i \in 1 .. Len(Walk) : Walk[i] = x /\ Walked(m) = ToFront(Walk, i)
  BY <1>1, MoveIntact DEF Walk
<1>3. TheList' = m  BY <1>2, ListIs
<1>4. PICK i \in 1 .. Len(Walk) : Walk[i] = x /\ Walk' = ToFront(Walk, i)
  BY <1>2, <1>3, OrderNext
<1>5. /\ Len(Walk) \in Nat /\ Walk \in [1 .. Len(Walk) -> Entries]
      /\ \A n \in 1 .. Len(Walk) : entry[Walk[n]] \in Record
      /\ \A n \in 1 .. Len(Walk) : n # i => Walk[n] # x
      /\ Order = Listing(Walk, entry) /\ Order \in Seq(Pairs) /\ Len(Order) = Len(Walk)
      /\ Order[i] = <<entry[x].key, entry[x].size>>
  BY <1>4, OrderIs
<1>6. \A n \in 1 .. Len(Walk) : n # i => entry'[Walk[n]] = entry[Walk[n]]  BY <1>5
<1> DEFINE v == <<entry'[x].key, entry'[x].size>>  w == Abstract!Without(Order, i)
<1>7. Order' = <<v>> \o w
  <2>1. Listing(ToFront(Walk, i), entry')
        = <<<<entry'[Walk[i]].key, entry'[Walk[i]].size>>>>
          \o Abstract!Without(Listing(Walk, entry), i)
    <3>1. entry'[Walk[i]] \in Record  BY <1>4
    <3>2. Len(Walk) \in Nat /\ Walk \in [1 .. Len(Walk) -> Entries]  BY <1>5
    <3>3. \A n \in 1 .. Len(Walk) : entry[Walk[n]] \in Record  BY <1>5
    <3> QED  BY <1>6, <3>1, <3>2, <3>3, ListingMoved
  <2> QED  BY <1>4, <1>5, <2>1, OrderNext
<1>8. v \in Pairs /\ v[2] = entry'[x].size  BY DEF Record, Pairs
<1>9. w \in Seq(Pairs)  BY <1>4, <1>5, Positions
<1>10. Abstract!Bytes(w) = Abstract!Bytes(Order) - entry[x].size
  <2>1. i \in 1 .. Len(Order) /\ Order \in Seq(Pairs)  BY <1>4, <1>5
  <2>2. Abstract!Bytes(w) = Abstract!Bytes(Order) - Order[i][2]  BY <2>1, BytesWithout
  <2>3. Order[i][2] = entry[x].size
    <3>1. Order[i] = <<entry[x].key, entry[x].size>>  BY <1>5
    <3> QED  BY SMTT(60), <3>1
  <2> QED  BY <2>2, <2>3
<1> HIDE DEF v, w
<1>11. Abstract!Bytes(<<v>> \o w) = Abstract!Bytes(w) + v[2]  BY <1>8, <1>9, BytesPushed
<1> QED  BY <1>4, <1>5, <1>7, <1>8, <1>10, <1>11 DEF v, w

\* evict_lru's list_unlink of the tail.
LEMMA OrderEvicted ==
  ASSUME TypeOK, Up, tail # NULL, SetList(list_unlink(TheList, tail)),
         \A y \in Entries : y # tail => entry'[y] = entry[y]
  PROVE  /\ Order # <<>> /\ Order' = Abstract!Without(Order, Len(Order))
         /\ Abstract!Bytes(Order') = Abstract!Bytes(Order) - entry[tail].size
<1> DEFINE m == list_unlink(TheList, tail)  N == Len(Walk)
<1>1. TheList \in Lists /\ Cached \in SUBSET Entries /\ Intact(TheList, Cached) /\ TheList.tail = tail
  BY ListIs, EntryTypes DEF Up, TheList
<1>2. tail \in Cached  BY <1>1 DEF Intact, Linked, TypeOK
<1>3. m \in Lists
      /\ \E i \in 1 .. N : Walk[i] = tail /\ i = N /\ Walked(m) = Removed(Walk, i)
  BY <1>1, <1>2, UnlinkIntact DEF Walk
<1>4. TheList' = m  BY <1>3, ListIs
<1>5. N \in 1 .. N /\ Walk[N] = tail /\ Walk' = Removed(Walk, N)  BY <1>3, <1>4, OrderNext
<1>6. /\ N \in Nat /\ Walk \in [1 .. N -> Entries]
      /\ \A n \in 1 .. N : entry[Walk[n]] \in Record
      /\ Order = Listing(Walk, entry) /\ Order \in Seq(Pairs) /\ Len(Order) = N
  BY OrderIs
<1>7. \A n \in 1 .. N : n # N => entry'[Walk[n]] = entry[Walk[n]]  BY <1>5, <1>6, OrderIs
<1>8. Order[N] = <<entry[tail].key, entry[tail].size>>  BY <1>5, OrderIs
<1> HIDE DEF N
<1>9. Order' = Abstract!Without(Order, N)
  <2>1. Len(Walk) \in Nat /\ Walk \in [1 .. Len(Walk) -> Entries]  BY <1>6 DEF N
  <2>2. \A n \in 1 .. Len(Walk) : entry[Walk[n]] \in Record  BY <1>6 DEF N
  <2>3. N \in 1 .. Len(Walk)  BY <1>5 DEF N
  <2>4. \A n \in 1 .. Len(Walk) : n # N => entry'[Walk[n]] = entry[Walk[n]]  BY <1>7 DEF N
  <2>5. Listing(Removed(Walk, N), entry') = Abstract!Without(Listing(Walk, entry), N)
    BY <2>1, <2>2, <2>3, <2>4, ListingRemoved
  <2> QED  BY <1>5, <1>6, <2>5, OrderNext
<1>10. Abstract!Bytes(Order') = Abstract!Bytes(Order) - entry[tail].size
  <2>1. N \in 1 .. Len(Order) /\ Order \in Seq(Pairs)  BY <1>5, <1>6
  <2>2. Abstract!Bytes(Abstract!Without(Order, N)) = Abstract!Bytes(Order) - Order[N][2]
    BY <2>1, BytesWithout
  <2>3. Order[N][2] = entry[tail].size  BY SMTT(60), <1>8
  <2> QED  BY <1>9, <2>2, <2>3
<1>11. Order # <<>>
  <2>1. N # 0  BY SMTT(60), <1>5, <1>6
  <2>2. Len(<<>>) = 0  BY SMTT(60)
  <2> QED  BY <1>6, <2>1, <2>2
<1> QED  BY <1>6, <1>9, <1>10, <1>11

\* lru_cache_put's list_push_front of the new entry.
LEMMA OrderInserted ==
  ASSUME TypeOK, Up, NEW x \in Entries \ Cached, SetList(list_push_front(TheList, x)),
         entry' = entry, entry[x] \in Record
  PROVE  /\ Order' = <<<<entry[x].key, entry[x].size>>>> \o Order
         /\ Abstract!Bytes(Order') = Abstract!Bytes(Order) + entry[x].size
<1> DEFINE m == list_push_front(TheList, x)  v == <<entry[x].key, entry[x].size>>
<1>1. TheList \in Lists /\ Cached \in SUBSET Entries /\ Intact(TheList, Cached)
  BY ListIs, EntryTypes DEF Up
<1>2. m \in Lists /\ Walked(m) = Pushed(Walk, x)  BY <1>1, PushIntact DEF Walk
<1>3. TheList' = m  BY <1>2, ListIs
<1>4. Walk' = Pushed(Walk, x)  BY <1>2, <1>3, OrderNext
<1>5. /\ Len(Walk) \in Nat /\ Walk \in [1 .. Len(Walk) -> Entries]
      /\ \A n \in 1 .. Len(Walk) : entry[Walk[n]] \in Record
  BY OrderIs
<1>6. Order = Listing(Walk, entry) /\ Order \in Seq(Pairs)  BY OrderIs
<1>7. Listing(Pushed(Walk, x), entry) = <<<<entry[x].key, entry[x].size>>>> \o Listing(Walk, entry)
  BY <1>5, ListingPushed
<1>8. Order' = <<v>> \o Order  BY <1>4, <1>6, <1>7, OrderNext
<1>9. v \in Pairs /\ v[2] = entry[x].size  BY DEF Record, Pairs
<1> HIDE DEF v
<1>10. Abstract!Bytes(<<v>> \o Order) = Abstract!Bytes(Order) + v[2]  BY <1>6, <1>9, BytesPushed
<1> QED  BY <1>8, <1>9, <1>10 DEF v

\* A cache in use counts its list.
LEMMA LengthIs ==
  ASSUME TypeOK, Up
  PROVE  num_entries = Len(Order) /\ (tail = NULL <=> Order = <<>>) /\ Listed = Cached
<1> DEFINE N == Len(Walk)
<1>1. /\ N \in Nat /\ Walk \in [1 .. N -> Entries]
      /\ \A n \in 1 .. N : Walk[n] \in Cached
      /\ \A x \in Cached : \E n \in 1 .. N : x = Walk[n]
      /\ \A m, n \in 1 .. N : Walk[m] = Walk[n] => m = n
  BY OrderIs
<1>2. Order \in Seq(Pairs) /\ Len(Order) = N  BY OrderIs
<1>3. Linked(TheList, Cached) /\ Follows(TheList, Cached, Walk, N)  BY IntactWalk DEF Up, Walk
<1>4. Listed = Cached  BY DEF Listed, Walk, Up, Intact, Chained
<1> HIDE DEF N
<1>5. IsFiniteSet(1 .. N) /\ Cardinality(1 .. N) = N
  <2>1. /\ IsFiniteSet(1 .. N)
        /\ Cardinality(1 .. N) = IF 1 > N THEN 0 ELSE N - 1 + 1
    <3>1. 1 \in Int /\ N \in Int  BY SMTT(60), <1>1
    <3> QED  BY <3>1, FS_Interval
  <2> QED  BY SMTT(60), <1>1, <2>1
<1>6. Cardinality(Cached) = N
  <2>1. Walk \in [1 .. N -> Cached]  BY <1>1
  <2>2. Walk \in Bijection(1 .. N, Cached)
    BY <1>1, <2>1 DEF Bijection, Injection, Surjection, IsInjective
  <2>3. ExistsBijection(1 .. N, Cached)  BY <2>2 DEF ExistsBijection
  <2> QED  BY <1>5, <2>3, FS_Bijection
<1>7. num_entries = N  BY <1>6 DEF Up, Indexed
<1>8. N = 0 <=> Order = <<>>  BY <1>2, EmptySequence
<1>9. N = 0 <=> head = NULL
  <2>1. N # 0 => 1 \in 1 .. N  BY SMTT(60), <1>1
  <2>2. TheList.head = head  BY DEF TheList
  <2>3. (N = 0 => TheList.head = NULL) /\ (N # 0 => TheList.head = Walk[1])  BY <1>3 DEF Follows
  <2>4. N # 0 => Walk[1] \in Entries  BY <1>1, <2>1
  <2> QED  BY <2>2, <2>3, <2>4, CacheConfig
<1>10. head = NULL <=> tail = NULL  BY <1>3 DEF Linked, TheList
<1> QED  BY <1>2, <1>4, <1>7, <1>8, <1>9, <1>10

\* A list without a head is empty.
LEMMA EmptyWalk ==
  ASSUME NEW l, l.head = NULL
  PROVE  Walked(l) = <<>> /\ (\A d : Listing(<<>>, d) = <<>>) /\ Abstract!Bytes(<<>>) = 0
<1>1. 0 \in Nat /\ 1 .. 0 = {} /\ 0 \in 0 .. 0  BY SMTT(60)
<1>2. Len(<<>>) = 0 /\ DOMAIN <<>> = {}  BY SMTT(60)
<1>3. <<>> \in [1 .. 0 -> Entries]
  <2> DEFINE z == [n \in 1 .. 0 |-> NULL]
  <2>1. z \in [1 .. 0 -> Entries]  BY <1>1
  <2> HIDE DEF z
  <2>2. z \in Seq(Entries)
    <3>1. [1 .. 0 -> Entries] \subseteq Seq(Entries)  BY <1>1, FunctionSeq
    <3> QED  BY <2>1, <3>1
  <2>3. Len(z) = 0
    <3>1. DOMAIN z = 1 .. 0  BY <2>1
    <3>2. Len(z) \in Nat /\ 1 .. Len(z) = 1 .. 0  BY <2>2, <3>1, SeqFunction
    <3> QED  BY SMTT(60), <3>2
  <2>4. z = <<>>  BY <2>2, <2>3, EmptySequence
  <2> QED  BY <2>1, <2>4
<1>4. Follows(l, {}, <<>>, 0)  BY <1>1, <1>3 DEF Follows
<1>5. Walked(l) = <<>>  BY <1>1, <1>4, WalkIs
<1>6. ASSUME NEW d PROVE Listing(<<>>, d) = <<>>
  <2>1. Listing(<<>>, d) \in Seq(Pairs) /\ Len(Listing(<<>>, d)) = 0
    BY <1>1, <1>3, ListingType
  <2> QED  BY <2>1, EmptySequence
<1>7. Abstract!Bytes(<<>>) = 0
  <2> DEFINE P == [n \in 0 .. 0 |-> 0]
  <2>1. Sums(<<>>, P)  BY <1>1, <1>2 DEF Sums
  <2>2. P[0] = 0  BY <1>1
  <2> HIDE DEF P
  <2> QED  BY <1>1, <1>2, <2>1, <2>2, BytesAre
<1> QED  BY <1>5, <1>6, <1>7

-----------------------------------------------------------------------------
(* The steps of the policy.                                                *)

\* The bytes that the cache counts are those of its list.
Weighed == current_size = Abstract!Bytes(Order)

\* A put under way is one of a payload that fits the cache.
Fits == \A t \in Threads : pc[t] = "put" => arg[t][3] <= max_size

\* Only a payload that fits gets as far.
LEMMA FitsKept ==
  ASSUME TypeOK, Fits, [Next]_vars
  PROVE  Fits'
<1>1. pc \in [Threads -> {"idle", "reading", "loaded", "put", "gone"}] /\ DOMAIN arg = Threads
  BY DEF TypeOK
<1>2. ASSUME NEW t \in Threads, NEW v, pc' = [pc EXCEPT ![t] = v],
             \A u \in Threads : u # t => arg'[u] = arg[u],
             v = "put" => arg'[t][3] <= max_size
      PROVE  Fits'
  BY <1>1, <1>2 DEF Fits
<1>3. ASSUME pc' = pc, arg' = arg PROVE Fits'
  BY <1>3 DEF Fits
<1>4. ASSUME NEW t \in Threads, NEW k \in Keys, GetHit(t, k) PROVE Fits'
  BY <1>2, <1>4 DEF GetHit
<1>5. ASSUME NEW t \in Threads, Release(t) PROVE Fits'
  BY <1>2, <1>5 DEF Release
<1>6. ASSUME NEW t \in Threads, NEW k \in Keys, NEW b \in Buffers, NEW n \in Sizes,
             Load(t, k, b, n)
      PROVE  Fits'
  BY <1>1, <1>2, <1>6 DEF Load
<1>7. ASSUME NEW t \in Threads, PutReturn(t) PROVE Fits'
  BY <1>1, <1>2, <1>7 DEF PutReturn
<1>8. ASSUME NEW t \in Threads, NEW x \in Entries, PutEntry(t, x) PROVE Fits'
  BY <1>2, <1>8 DEF PutEntry
<1>9. ASSUME NEW t \in Threads, PutEvict(t) PROVE Fits'
  BY <1>3, <1>9 DEF PutEvict
<1>10. CASE Destroy
  BY <1>10 DEF Destroy, Fits
<1>11. ASSUME UNCHANGED vars PROVE Fits'
  BY <1>3, <1>11 DEF vars
<1>12. ASSUME NEW t \in Threads, Get(t) PROVE Fits'
  BY <1>4, <1>11, <1>12 DEF Get, GetMiss
<1>13. ASSUME NEW t \in Threads, PutOverwrite(t) \/ PutRefused(t) \/ PutInsert(t) \/ PutInsertFails(t)
       PROVE  Fits'
  BY <1>7, <1>13 DEF PutOverwrite, PutRefused, PutInsert, PutInsertFails
<1>14. ASSUME NEW t \in Threads, Put(t) PROVE Fits'
  BY <1>6, <1>8, <1>9, <1>13, <1>14 DEF Put
<1> QED  BY <1>5, <1>10, <1>11, <1>12, <1>14 DEF Next, Terminated

\* A step that leaves the order, the count of bytes and the want is none of the
\* policy.
LEMMA PolicyStutter ==
  ASSUME Weighed, Order' = Order, current_size' = current_size, Want' = Want
  PROVE  Weighed' /\ UNCHANGED Abstract!vars
BY DEF Weighed, Abstract!vars

\* A hit.
LEMMA GetHitPolicy ==
  ASSUME CoreInv, Weighed, NEW t \in Threads, NEW k \in Keys, GetHit(t, k)
  PROVE  Weighed' /\ Abstract!Next
<1>1. TypeOK /\ Up  BY CacheConfig DEF CoreInv, Down, GetHit
<1>2. PICK x \in Cached : x = table[k] /\ entry[x].key = k  BY <1>1 DEF GetHit, Up, Indexed
<1>3. /\ entry' = [entry EXCEPT ![x].refcount = @ + 1]
      /\ SetList(list_move_front(TheList, x))
      /\ current_size' = current_size /\ mutex' = mutex /\ arg' = arg
  BY <1>2 DEF GetHit, sums
<1>4. x \in Entries /\ entry[x] \in Record  BY <1>1, <1>2, EntryTypes
<1>5. /\ entry'[x] \in Record /\ entry'[x].key = k /\ entry'[x].size = entry[x].size
      /\ \A y \in Entries : y # x => entry'[y] = entry[y]
  <2>1. entry'[x] = [entry[x] EXCEPT !.refcount = @ + 1]  BY <1>1, <1>3, <1>4 DEF TypeOK
  <2>2. \A y \in Entries : y # x => entry'[y] = entry[y]  BY <1>1, <1>3, <1>4 DEF TypeOK
  <2>3. \A n \in Nat : n + 1 \in Nat  BY SMTT(60)
  <2> QED  BY <1>2, <1>4, <2>1, <2>2, <2>3 DEF Record
<1>6. PICK i \in 1 .. Len(Order) :
        /\ Order[i] = <<entry[x].key, entry[x].size>>
        /\ Order' = <<<<entry'[x].key, entry'[x].size>>>> \o Abstract!Without(Order, i)
        /\ Abstract!Bytes(Order') = Abstract!Bytes(Order) - entry[x].size + entry'[x].size
  BY <1>1, <1>3, <1>5, OrderMoved
<1>7. Order[i] = <<k, entry[x].size>> /\ Order' = <<Order[i]>> \o Abstract!Without(Order, i)
  BY <1>2, <1>5, <1>6
<1>8. Abstract!Use(k)
  <2>1. Order[i][1] = k  BY SMTT(60), <1>7
  <2>2. Want' = Want  BY <1>3 DEF Want
  <2> QED  BY <1>7, <2>1, <2>2 DEF Abstract!Use, Abstract!IsAt
<1>9. Abstract!Bytes(Order') = Abstract!Bytes(Order)
  <2>1. entry[x].size \in Nat /\ current_size \in Int  BY <1>1, <1>4 DEF Record, TypeOK
  <2> QED  BY SMTT(60), <1>5, <1>6, <2>1 DEF Weighed
<1> QED  BY <1>3, <1>8, <1>9 DEF Weighed, Abstract!Next

\* A release: the keys and sizes in the list stay.
LEMMA ReleasePolicy ==
  ASSUME CoreInv, Weighed, NEW t \in Threads, Release(t)
  PROVE  Weighed' /\ UNCHANGED Abstract!vars
<1>1. TypeOK /\ BorrowedLive /\ Up  BY CacheConfig DEF CoreInv, Down, Release
<1>2. PICK x \in Allocated : x = held[t]  BY <1>1 DEF Release, BorrowedLive
<1>3. x \in Entries /\ entry[x] \in Record  BY <1>1, <1>2, EntryTypes
<1>4. PICK d : d = [entry[x] EXCEPT !.refcount = IF @ > 0 THEN @ - 1 ELSE 0]  OBVIOUS
<1>5. entry_maybe_free(x, d) /\ UNCHANGED <<list, sums, mutex, arg>>
  BY <1>2, <1>4 DEF Release
<1>6. d \in Record /\ d.removed = entry[x].removed /\ d.key = entry[x].key /\ d.size = entry[x].size
  <2>1. \A n \in Nat : (IF n > 0 THEN n - 1 ELSE 0) \in Nat  BY SMTT(60)
  <2> QED  BY <1>3, <1>4, <2>1 DEF Record
<1>7. /\ IF d.removed /\ d.refcount = 0 THEN entry'[x] = Freed ELSE entry'[x] = d
      /\ \A y \in Entries : y # x => entry'[y] = entry[y]
  BY <1>1, <1>3, <1>5, <1>6, MaybeFree
<1>8. \A y \in Cached : entry'[y].key = entry[y].key /\ entry'[y].size = entry[y].size
  <2>1. \A y \in Cached : y \in Entries /\ ~entry[y].removed  BY <1>1, EntryTypes DEF Cached
  <2> QED  BY <1>6, <1>7, <2>1
<1>9. TheList' = TheList /\ current_size' = current_size /\ Want' = Want
  BY <1>5 DEF list, sums, TheList, Want
<1>10. Order' = Order  BY <1>1, <1>8, <1>9, OrderKept
<1> QED  BY <1>9, <1>10, PolicyStutter

\* A caller loads a payload: the put under way is another's.
LEMMA LoadPolicy ==
  ASSUME CoreInv, Weighed, NEW t \in Threads, NEW k \in Keys, NEW b \in Buffers, NEW n \in Sizes,
         Load(t, k, b, n)
  PROVE  Weighed' /\ UNCHANGED Abstract!vars
<1>1. TypeOK /\ Up  BY CacheConfig DEF CoreInv, Down, Load
<1>2. /\ pc[t] = "idle" /\ arg' = [arg EXCEPT ![t] = <<k, b, n>>]
      /\ UNCHANGED <<list, sums, entry, mutex>>
  BY DEF Load
<1>3. TheList' = TheList /\ current_size' = current_size /\ entry' = entry /\ mutex' = mutex
  BY <1>2 DEF list, sums, TheList
<1>4. Order' = Order  BY <1>1, <1>3, OrderKept
<1>5. mutex # t /\ mutex \in Threads \cup {NULL}  BY <1>1, <1>2 DEF Up, Calls, TypeOK
<1>6. mutex # NULL => arg'[mutex] = arg[mutex]  BY <1>1, <1>2, <1>5 DEF TypeOK
<1>7. Want' = Want  BY <1>3, <1>6 DEF Want
<1> QED  BY <1>3, <1>4, <1>7, PolicyStutter

\* An overwrite: with a payload that fits it is one of the policy.
LEMMA PutOverwritePolicy ==
  ASSUME CoreInv, Weighed, NEW t \in Threads, PutOverwrite(t)
  PROVE  Weighed' /\ (Overfills \/ Abstract!Next)
<1>1. /\ pc[t] = "loaded" /\ mutex = NULL /\ table[arg[t][1]] # NULL /\ mutex' = NULL
      /\ current_size' = current_size - entry[table[arg[t][1]]].size + arg[t][3]
      /\ entry' = [entry EXCEPT ![table[arg[t][1]]].data = arg[t][2],
                               ![table[arg[t][1]]].size = arg[t][3]]
      /\ SetList(list_move_front(TheList, table[arg[t][1]]))
  BY DEF PutOverwrite, PutReturn
<1>2. TypeOK /\ Up  BY <1>1 DEF CoreInv, Down
<1>3. arg[t] \in Keys \X Buffers \X Sizes  BY <1>1, <1>2 DEF Up, Calls
<1>4. PICK k \in Keys, b \in Buffers, n \in Sizes : k = arg[t][1] /\ b = arg[t][2] /\ n = arg[t][3]
  BY <1>3
<1>5. PICK x \in Cached : x = table[k] /\ entry[x].key = k  BY <1>1, <1>2, <1>4 DEF Up, Indexed
<1>6. /\ current_size' = current_size - entry[x].size + n
      /\ entry' = [entry EXCEPT ![x].data = b, ![x].size = n]
      /\ SetList(list_move_front(TheList, x))
  BY <1>1, <1>4, <1>5
<1>7. x \in Entries /\ entry[x] \in Record /\ n \in Nat  BY <1>2, <1>5, EntryTypes, CacheConfig
<1>8. /\ entry'[x] \in Record /\ entry'[x].key = k /\ entry'[x].size = n
      /\ \A y \in Entries : y # x => entry'[y] = entry[y]
  <2>1. entry'[x] = [entry[x] EXCEPT !.data = b, !.size = n]  BY <1>2, <1>6, <1>7 DEF TypeOK
  <2>2. \A y \in Entries : y # x => entry'[y] = entry[y]  BY <1>2, <1>6, <1>7 DEF TypeOK
  <2> QED  BY <1>5, <1>7, <2>1, <2>2 DEF Record
<1>9. PICK i \in 1 .. Len(Order) :
        /\ Order[i] = <<entry[x].key, entry[x].size>>
        /\ Order' = <<<<entry'[x].key, entry'[x].size>>>> \o Abstract!Without(Order, i)
        /\ Abstract!Bytes(Order') = Abstract!Bytes(Order) - entry[x].size + entry'[x].size
  BY <1>2, <1>6, <1>8, OrderMoved
<1>10. Order[i] = <<k, entry[x].size>> /\ Order' = <<<<k, n>>>> \o Abstract!Without(Order, i)
  BY <1>5, <1>8, <1>9
<1>11. Weighed'  BY <1>6, <1>8, <1>9 DEF Weighed
<1>12. CASE current_size' <= max_size
  <2>1. Order[i][1] = k  BY SMTT(60), <1>10
  <2>2. Want = NULL /\ Want' = NULL  BY <1>1 DEF Want
  <2>3. Abstract!Bytes(Order') <= max_size  BY <1>11, <1>12 DEF Weighed
  <2>4. Abstract!Replace(k, n)
    BY <1>10, <2>1, <2>2, <2>3 DEF Abstract!Replace, Abstract!IsAt
  <2> QED  BY <1>11, <2>4 DEF Abstract!Next
<1>13. CASE ~(current_size' <= max_size)
  <2>1. current_size' \in Int /\ max_size \in Nat
    BY SMTT(60), <1>2, <1>6, <1>7, CacheConfig DEF TypeOK, Record
  <2>2. current_size' > max_size  BY SMTT(60), <1>13, <2>1
  <2> QED  BY <1>11, <2>2 DEF Overfills
<1> QED  BY <1>12, <1>13

\* A put that is refused.
LEMMA PutRefusedPolicy ==
  ASSUME CoreInv, Weighed, NEW t \in Threads, PutRefused(t)
  PROVE  Weighed' /\ UNCHANGED Abstract!vars
<1>1. /\ pc[t] = "loaded" /\ mutex = NULL /\ mutex' = NULL
      /\ UNCHANGED <<list, sums, entry>>
  BY DEF PutRefused, PutReturn
<1>2. TypeOK /\ Up  BY <1>1 DEF CoreInv, Down
<1>3. TheList' = TheList /\ current_size' = current_size /\ entry' = entry /\ Want' = Want
  BY <1>1 DEF list, sums, TheList, Want
<1>4. Order' = Order  BY <1>2, <1>3, OrderKept
<1> QED  BY <1>3, <1>4, PolicyStutter

\* An entry is made for a key that is not cached.
LEMMA PutEntryPolicy ==
  ASSUME CoreInv, Weighed, NEW t \in Threads, NEW x \in Entries, PutEntry(t, x)
  PROVE  Weighed' /\ Abstract!Next
<1>1. /\ pc[t] = "loaded" /\ mutex = NULL /\ mutex' = t /\ table[arg[t][1]] = NULL
      /\ arg[t][3] <= max_size /\ x \notin Allocated
      /\ \A y \in Entries : y # x => entry'[y] = entry[y]
      /\ prev' = [prev EXCEPT ![x] = NULL] /\ next' = [next EXCEPT ![x] = NULL]
      /\ UNCHANGED <<head, tail, sums, arg>>
  <2>1. TypeOK  BY DEF CoreInv
  <2> QED  BY <2>1 DEF PutEntry, TypeOK
<1>2. TypeOK /\ Up  BY <1>1 DEF CoreInv, Down
<1>3. PICK k \in Keys, n \in Sizes : k = arg[t][1] /\ n = arg[t][3]  BY <1>1, <1>2 DEF Up, Calls
<1>4. x \notin Cached /\ Cached \subseteq Entries  BY <1>1 DEF Cached, Allocated
<1>5. TheList' = TheList
  <2>1. prev[x] = NULL /\ next[x] = NULL  BY <1>2, <1>4 DEF Up, Intact, Linked, TheList
  <2>2. prev \in [Entries -> Entries \cup {NULL}] /\ next \in [Entries -> Entries \cup {NULL}]
    BY <1>2 DEF TypeOK
  <2>3. prev' = [prev EXCEPT ![x] = NULL] /\ next' = [next EXCEPT ![x] = NULL]  BY <1>1
  <2>4. prev' = prev /\ next' = next  BY SMTT(60), <2>1, <2>2, <2>3
  <2> QED  BY <1>1, <2>4 DEF TheList
<1>6. Order' = Order  BY <1>1, <1>2, <1>4, <1>5, OrderKept
<1>7. Want = NULL /\ Want' = <<k, n>>  BY <1>1, <1>3, CacheConfig DEF Want
<1>8. \A i \in 1 .. Len(Order) : Order[i][1] # k
  <2> SUFFICES ASSUME NEW i \in 1 .. Len(Order), Order[i][1] = k PROVE FALSE  OBVIOUS
  <2>1. i \in 1 .. Len(Walk)  BY <1>2, OrderIs
  <2>2. Order[i] = <<entry[Walk[i]].key, entry[Walk[i]].size>> /\ Walk[i] \in Cached
    BY <1>2, <2>1, OrderIs
  <2>3. Order[i][1] = entry[Walk[i]].key  BY SMTT(60), <2>2
  <2>4. table[k] = Walk[i]  BY <1>2, <2>2, <2>3 DEF Up, Indexed
  <2> QED  BY <1>1, <1>3, <1>4, <2>2, <2>4, CacheConfig
<1>9. Abstract!MakeRoom(k, n)
  BY <1>1, <1>3, <1>6, <1>7, <1>8 DEF Abstract!MakeRoom, Abstract!IsAt
<1>10. current_size' = current_size  BY <1>1 DEF sums
<1> QED  BY <1>6, <1>9, <1>10 DEF Weighed, Abstract!Next

\* What the put under way wants.
LEMMA WantIs ==
  ASSUME TypeOK, Up, NEW t \in Threads, pc[t] = "put"
  PROVE  /\ mutex = t /\ Want # NULL /\ Want[2] = arg[t][3]
         /\ e \in Entries \ Cached /\ entry[e] \in Record
         /\ Want = <<entry[e].key, entry[e].size>> /\ entry[e].size = arg[t][3]
         /\ Abstract!NeedsRoom <=> Len(Order) >= max_entries
                                   \/ Abstract!Bytes(Order) + arg[t][3] > max_size
<1>1. mutex = t /\ t # NULL /\ arg[t] \in Keys \X Buffers \X Sizes  BY CacheConfig DEF Up, Calls
<1>2. PICK k \in Keys, b \in Buffers, n \in Sizes : k = arg[t][1] /\ b = arg[t][2] /\ n = arg[t][3]
  BY <1>1
<1>3. Want = <<k, n>>  BY <1>1, <1>2 DEF Want
<1>4. <<k, n>> \in Keys \X Sizes /\ <<k, n>>[2] = n  OBVIOUS
<1>5. Want # NULL /\ Want[2] = n  BY <1>3, <1>4, CacheConfig
<1>6. e # NULL /\ e \in Entries  BY <1>1 DEF Up, Calls, TypeOK
<1>7. entry[e] = [key |-> k, data |-> b, size |-> n, refcount |-> 0, removed |-> FALSE]
  BY <1>1, <1>2 DEF Up, Calls
<1>8. n \in Nat /\ 0 \in Nat  BY SMTT(60), CacheConfig
<1>9. entry[e] \in Record /\ entry[e].key = k /\ entry[e].size = n
  BY SMTT(60), <1>7, <1>8 DEF Record
<1>10. e \notin Cached  BY DEF Cached
<1> QED  BY <1>1, <1>2, <1>3, <1>5, <1>6, <1>9, <1>10 DEF Abstract!NeedsRoom

\* An eviction: the cache is full, and the least recent entry goes.
LEMMA PutEvictPolicy ==
  ASSUME CoreInv, Weighed, NEW t \in Threads, PutEvict(t)
  PROVE  Weighed' /\ Abstract!Next
<1>1. TypeOK /\ Up  BY CacheConfig DEF CoreInv, Down, PutEvict
<1>2. /\ pc[t] = "put" /\ Full(arg[t][3]) /\ tail # NULL /\ SetList(list_unlink(TheList, tail))
      /\ current_size' = current_size - entry[tail].size
      /\ entry_maybe_free(tail, [entry[tail] EXCEPT !.removed = TRUE])
      /\ mutex' = mutex /\ arg' = arg
  BY DEF PutEvict
<1>3. tail \in Entries /\ entry[tail] \in Record
  <2>1. tail \in Cached  BY <1>1, <1>2 DEF Up, Intact, Linked, TheList, TypeOK
  <2> QED  BY <1>1, <2>1, EntryTypes
<1>4. [entry[tail] EXCEPT !.removed = TRUE] \in Record  BY <1>3 DEF Record
<1>5. \A y \in Entries : y # tail => entry'[y] = entry[y]  BY <1>1, <1>2, <1>3, <1>4, MaybeFree
<1>6. /\ Order # <<>> /\ Order' = Abstract!Without(Order, Len(Order))
      /\ Abstract!Bytes(Order') = Abstract!Bytes(Order) - entry[tail].size
  BY <1>1, <1>2, <1>5, OrderEvicted
<1>7. Want' = Want  BY <1>2 DEF Want
<1>8. Want # NULL /\ Abstract!NeedsRoom
  <2>1. num_entries = Len(Order)  BY <1>1, LengthIs
  <2> QED  BY <1>1, <1>2, <2>1, WantIs DEF Full, Weighed
<1>9. Abstract!Evict  BY <1>6, <1>7, <1>8 DEF Abstract!Evict
<1> QED  BY <1>2, <1>6, <1>9 DEF Weighed, Abstract!Next

\* The new entry is stored: there is room, as there is for any in an empty cache
\* that may have entries.
LEMMA PutInsertPolicy ==
  ASSUME CoreInv, Weighed, Fits, NEW t \in Threads, PutInsert(t)
  PROVE  Weighed' /\ (Overfills \/ Abstract!Next)
<1>1. TypeOK /\ Up  BY CacheConfig DEF CoreInv, Down, PutInsert
<1>2. /\ pc[t] = "put" /\ (Full(arg[t][3]) => tail = NULL) /\ SetList(list_push_front(TheList, e))
      /\ current_size' = current_size + arg[t][3] /\ entry' = entry /\ mutex' = NULL
  BY DEF PutInsert, PutReturn
<1>3. /\ Want # NULL /\ e \in Entries \ Cached /\ entry[e] \in Record
      /\ Want = <<entry[e].key, entry[e].size>> /\ entry[e].size = arg[t][3]
      /\ Abstract!NeedsRoom <=> Len(Order) >= max_entries
                                \/ Abstract!Bytes(Order) + arg[t][3] > max_size
  BY <1>1, <1>2, WantIs
<1>4. /\ Order' = <<<<entry[e].key, entry[e].size>>>> \o Order
      /\ Abstract!Bytes(Order') = Abstract!Bytes(Order) + entry[e].size
  BY <1>1, <1>2, <1>3, OrderInserted
<1>5. num_entries = Len(Order) /\ (tail = NULL <=> Order = <<>>)  BY <1>1, LengthIs
<1>6. Abstract!NeedsRoom => Order = <<>>  BY <1>2, <1>3, <1>5 DEF Full, Weighed
<1>7. Want' = NULL  BY <1>2 DEF Want
<1>8. Weighed'  BY <1>2, <1>3, <1>4 DEF Weighed
<1>9. CASE max_entries = 0  BY <1>8, <1>9 DEF Overfills
<1>10. CASE max_entries # 0
  <2>1. arg[t][3] <= max_size /\ arg[t][3] \in Nat  BY <1>1, <1>2 DEF Fits, TypeOK
  <2>2. Order = <<>> => ~Abstract!NeedsRoom
    <3>1. Abstract!Bytes(<<>>) = 0
      <4>1. [head |-> NULL].head = NULL  OBVIOUS
      <4> QED  BY <4>1, EmptyWalk
    <3>2. Len(<<>>) = 0 /\ ~(0 >= max_entries) /\ ~(0 + arg[t][3] > max_size)
      BY SMTT(60), <1>10, <2>1, CacheConfig
    <3> QED  BY <1>3, <3>1, <3>2
  <2>3. Abstract!Store  BY <1>3, <1>4, <1>6, <1>7, <2>2 DEF Abstract!Store
  <2> QED  BY <1>8, <2>3 DEF Abstract!Next
<1> QED  BY <1>9, <1>10

\* ht_insert fails: the policy gives up.
LEMMA PutInsertFailsPolicy ==
  ASSUME CoreInv, Weighed, NEW t \in Threads, PutInsertFails(t)
  PROVE  Weighed' /\ Abstract!Next
<1>1. TypeOK /\ Up  BY CacheConfig DEF CoreInv, Down, PutInsertFails
<1>2. /\ pc[t] = "put" /\ entry' = [entry EXCEPT ![e] = Freed] /\ mutex' = NULL
      /\ UNCHANGED <<list, sums>>
  BY DEF PutInsertFails, PutReturn
<1>3. Want # NULL /\ e \in Entries \ Cached  BY <1>1, <1>2, WantIs
<1>4. Cached \subseteq Entries  BY DEF Cached, Allocated
<1>5. \A y \in Cached : entry'[y] = entry[y]  BY <1>1, <1>2, <1>3, <1>4 DEF TypeOK
<1>6. TheList' = TheList /\ current_size' = current_size  BY <1>2 DEF list, sums, TheList
<1>7. Order' = Order  BY <1>1, <1>5, <1>6, OrderKept
<1>8. Want' = NULL  BY <1>2 DEF Want
<1>9. Abstract!GiveUp  BY <1>3, <1>7, <1>8 DEF Abstract!GiveUp
<1> QED  BY <1>6, <1>7, <1>9 DEF Weighed, Abstract!Next

\* lru_cache_destroy empties the list.
LEMMA DestroyPolicy ==
  ASSUME CoreInv, Weighed, Destroy
  PROVE  Weighed' /\ Abstract!Next
<1>1. mutex = NULL /\ mutex' = mutex /\ head' = NULL /\ current_size' = 0
  <2>1. \A t \in Threads : pc[t] = "idle"  BY DEF Destroy
  <2> QED  BY <2>1, AllListed DEF Destroy
<1>2. Order' = <<>> /\ Abstract!Bytes(<<>>) = 0
  <2>1. TheList'.head = NULL  BY <1>1 DEF TheList
  <2>2. Walked(TheList') = <<>> /\ Listing(<<>>, entry') = <<>> /\ Abstract!Bytes(<<>>) = 0
    BY <2>1, EmptyWalk
  <2> QED  BY <2>2, OrderNext
<1>3. Want = NULL /\ Want' = NULL  BY <1>1 DEF Want
<1>4. Abstract!Clear  BY <1>2, <1>3 DEF Abstract!Clear
<1> QED  BY <1>1, <1>2, <1>4 DEF Weighed, Abstract!Next

\* The cache that lru_cache_init makes is empty.
LEMMA InitPolicy == Init => Weighed /\ Abstract!Init
<1> SUFFICES ASSUME Init PROVE Weighed /\ Abstract!Init  OBVIOUS
<1>1. TheList.head = NULL /\ current_size = 0 /\ mutex = NULL  BY DEF Init, TheList
<1>2. Walk = <<>> /\ Listing(<<>>, entry) = <<>> /\ Abstract!Bytes(<<>>) = 0
  BY <1>1, EmptyWalk DEF Walk
<1>3. Order = <<>>
  <2>1. Order = Listing(Walk, entry)  BY DEF Order, Listing
  <2> QED  BY <1>2, <2>1
<1> QED  BY <1>1, <1>2, <1>3 DEF Weighed, Abstract!Init, Want

\* Every step of the cache overfills it, or is one of the policy, or none, and keeps
\* the weight.
LEMMA PolicyStep ==
  ASSUME CoreInv, Weighed, Fits, [Next]_vars
  PROVE  Weighed' /\ [Overfills \/ Abstract!Next]_(Abstract!vars)
<1>1. ASSUME UNCHANGED vars PROVE Weighed' /\ UNCHANGED Abstract!vars
  <2>1. TheList' = TheList /\ entry' = entry /\ current_size' = current_size /\ Want' = Want
    BY <1>1 DEF vars, list, sums, TheList, Want
  <2>2. Order' = Order
    <3>1. Walk' = Walk  BY <2>1, OrderNext DEF Walk
    <3>2. Order = Listing(Walk, entry)  BY DEF Order, Listing
    <3> QED  BY <2>1, <3>1, <3>2, OrderNext
  <2> QED  BY <2>1, <2>2, PolicyStutter
<1>2. ASSUME NEW t \in Threads, Get(t) PROVE Weighed' /\ [Overfills \/ Abstract!Next]_(Abstract!vars)
  BY <1>1, <1>2, GetHitPolicy DEF Get, GetMiss
<1>3. ASSUME NEW t \in Threads, Release(t) PROVE Weighed' /\ [Overfills \/ Abstract!Next]_(Abstract!vars)
  BY <1>3, ReleasePolicy
<1>4. ASSUME NEW t \in Threads, Put(t) PROVE Weighed' /\ [Overfills \/ Abstract!Next]_(Abstract!vars)
  BY <1>4, LoadPolicy, PutOverwritePolicy, PutRefusedPolicy, PutEntryPolicy, PutEvictPolicy,
     PutInsertPolicy, PutInsertFailsPolicy DEF Put
<1>5. CASE Destroy  BY <1>5, DestroyPolicy
<1>6. CASE Terminated \/ UNCHANGED vars  BY <1>1, <1>6 DEF Terminated
<1> QED  BY <1>2, <1>3, <1>4, <1>5, <1>6 DEF Next

\* In the states of the invariant, table, list and counters agree.
LEMMA ConsistentIs == CacheInv /\ Weighed => Consistent
<1> SUFFICES ASSUME CacheInv, Weighed PROVE Consistent  OBVIOUS
<1>1. TypeOK /\ (Up \/ Down)  BY DEF CacheInv, Up, Down
<1>2. CASE Up
  <2> DEFINE N == Len(Walk)
  <2>1. /\ N \in Nat /\ Walk \in [1 .. N -> Entries] /\ \A n \in 1 .. N : Walk[n] \in Cached
        /\ Len(Order) = N
    BY <1>1, <1>2, OrderIs
  <2>2. num_entries = N /\ Listed = Cached /\ (tail = NULL <=> Order = <<>>)
    BY <1>1, <1>2, <2>1, LengthIs
  <2>3. Linked(TheList, Cached) /\ Follows(TheList, Cached, Walk, N)
    BY <1>2, IntactWalk DEF Up, Walk
  <2>4. DOMAIN Walk = 1 .. N  BY <2>1
  <2>5. N = 0 <=> Walk = <<>>
    <3>1. Walk \in Seq(Entries)  BY <1>2 DEF Up, Intact, Chained, Walk
    <3> QED  BY <3>1, EmptySequence
  <2> HIDE DEF N
  <2>6. N # 0 => 1 \in 1 .. N /\ N \in 1 .. N  BY SMTT(60), <2>1
  <2>7. /\ head = TheList.head /\ tail = TheList.tail
        /\ prev = TheList.prev /\ next = TheList.next
    BY DEF TheList
  <2>8. /\ N = 0 => head = NULL
        /\ N # 0 => head = Walk[1]
        /\ \A n \in 1 .. N : (n = N => next[Walk[n]] = NULL) /\ (n # N => next[Walk[n]] = Walk[n + 1])
    BY <2>3, <2>7 DEF Follows
  <2>9. /\ \A x, y \in Entries : next[x] = y <=> prev[y] = x
        /\ \A x \in Entries : head = x <=> x \in Cached /\ prev[x] = NULL
        /\ \A x \in Entries : tail = x <=> x \in Cached /\ next[x] = NULL
        /\ head = NULL <=> tail = NULL
    BY <2>3, <2>7 DEF Linked
  <2>10. tail = IF Walk = <<>> THEN NULL ELSE Walk[N]
    <3>1. N # 0 => Walk[N] \in Entries /\ Walk[N] \in Cached /\ next[Walk[N]] = NULL
      BY <2>1, <2>6, <2>8
    <3> QED  BY <2>5, <2>8, <2>9, <3>1
  <2>11. head = IF Walk = <<>> THEN NULL ELSE Walk[1]  BY <2>5, <2>8
  <2>12. \A n \in 1 .. N : prev[Walk[n]] = IF n = 1 THEN NULL ELSE Walk[n - 1]
    <3> SUFFICES ASSUME NEW n \in 1 .. N
                 PROVE  prev[Walk[n]] = IF n = 1 THEN NULL ELSE Walk[n - 1]
      OBVIOUS
    <3>1. CASE n = 1
      <4>1. N # 0  BY SMTT(60), <2>1
      <4>2. Walk[1] \in Entries /\ head = Walk[1]  BY <2>1, <2>6, <2>8, <4>1
      <4> QED  BY <2>9, <3>1, <4>2
    <3>2. CASE n # 1
      <4>1. n - 1 \in 1 .. N /\ n - 1 # N /\ (n - 1) + 1 = n  BY SMTT(60), <2>1, <3>2
      <4>2. Walk[n] \in Entries /\ Walk[n - 1] \in Entries  BY <2>1, <4>1
      <4>3. next[Walk[n - 1]] = Walk[n]  BY <2>8, <4>1
      <4>4. \A x, y \in Entries : next[x] = y => prev[y] = x  BY <2>9
      <4>5. prev[Walk[n]] = Walk[n - 1]  BY <4>2, <4>3, <4>4
      <4> QED  BY <3>2, <4>5
    <3> QED  BY <3>1, <3>2
  <2>13. Cached = {table[k] : k \in Keys} \ {NULL}
    <3>1. Indexed  BY <1>2 DEF Up
    <3>2. \A x \in Cached : x # NULL /\ x = table[entry[x].key] /\ entry[x].key \in Keys
      BY <1>1, <3>1, EntryTypes, CacheConfig DEF Indexed, Record
    <3>3. \A k \in Keys : table[k] # NULL => table[k] \in Cached  BY <3>1 DEF Indexed
    <3>4. \A x \in Cached : x \in {table[k] : k \in Keys} \ {NULL}  BY <3>2
    <3>5. \A x \in {table[k] : k \in Keys} \ {NULL} : x \in Cached  BY <3>3
    <3> QED  BY <3>4, <3>5
  <2>14. Cardinality(Listed) = N  BY <1>2, <2>2 DEF Up, Indexed
  <2> QED
    BY <2>2, <2>4, <2>10, <2>11, <2>12, <2>13, <2>14 DEF Consistent, Weighed, N
<1>3. CASE Down
  <2>1. Walk = <<>>
    <3>1. TheList.head = NULL  BY <1>3 DEF Down, TheList
    <3> QED  BY <3>1, EmptyWalk DEF Walk
  <2>2. DOMAIN <<>> = {} /\ Len(<<>>) = 0  BY SMTT(60)
  <2>3. Listed = {} /\ Cardinality({}) = 0  BY <2>1, <2>2, FS_EmptySet DEF Listed
  <2>4. {table[k] : k \in Keys} \ {NULL} = {}  BY <1>3 DEF Down
  <2> QED  BY <1>3, <2>1, <2>2, <2>3, <2>4 DEF Consistent, Weighed, Down
<1> QED  BY <1>1, <1>2, <1>3

\* The inductive invariant with the weight.
LEMMA PolicyInvariant == Spec => [](CacheInv /\ Weighed /\ Fits)
<1>1. Init => Weighed /\ Fits  BY InitPolicy DEF Init, Fits
<1>2. CacheInv /\ Weighed /\ Fits /\ [Next]_vars => Weighed' /\ Fits'
  <2>1. CacheInv => CoreInv /\ TypeOK  BY DEF CacheInv, CoreInv, Up, Down
  <2> QED  BY <2>1, PolicyStep, FitsKept
<1> QED  BY <1>1, <1>2, CacheInvariant, PTL DEF Spec

\* Table, list and counters of lru_cache.c agree, also between two evictions of
\* one put and after a put that failed.
THEOREM CacheConsistent == Spec => []Consistent
BY PolicyInvariant, ConsistentIs, PTL

\* The pointer list, the table and the counters of lru_cache.c follow the policy
\* of lru_cache.h: least recent first, only for room that is needed, and within
\* the limits, but for overwrites and for a cache of no entries.
THEOREM CacheFollowsPolicy == Spec => FollowsRecencyCache
<1>1. Init => Abstract!Init  BY InitPolicy
<1>2. CacheInv /\ Weighed /\ Fits /\ [Next]_vars => [Overfills \/ Abstract!Next]_(Abstract!vars)
  <2>1. CacheInv => CoreInv  BY DEF CacheInv, CoreInv, Up, Down
  <2> QED  BY <2>1, PolicyStep
<1> QED  BY <1>1, <1>2, PolicyInvariant, PTL DEF Spec, FollowsRecencyCache
=============================================================================
