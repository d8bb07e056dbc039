------------------------ MODULE FilterAndFilesProofs -------------------------
(***************************************************************************)
(* Facts about two services the chat uses.  They share no state.           *)
(*                                                                         *)
(* The filters for sensitive words (SensitiveFilter), for any alphabet,    *)
(* any words, any number of loads and any texts: the tables of the         *)
(* automaton are right once load() is done, both filters find what the     *)
(* words cover, and the answer hides just that.  The invariant follows the *)
(* loops: Loading the breadth-first pass, Filtering the scan, the merge of *)
(* the hits and the answer.                                                *)
(*                                                                         *)
(* What TLC checks of FileStore for two uploads and one download, for any  *)
(* number of them and of restarts.  The invariant adds what a request      *)
(* knows at each step: an upload that records its file has stored the      *)
(* object, and a download asks for an object whose record it has read.     *)
(***************************************************************************)
EXTENDS SensitiveFilter, FileStore, FiniteSetTheorems, SequenceTheorems,
        WellFoundedInduction, TLAPS

-----------------------------------------------------------------------------
\* SensitiveFilter: the invariant.

\* p is an end of s; an end that is not all of it.
IsSuffix(p, s) == /\ Len(p) <= Len(s)
                  /\ \A k \in 1..Len(p) : p[k] = s[Len(s) - Len(p) + k]
ProperSuffix(p, s) == IsSuffix(p, s) /\ Len(p) < Len(s)
\* The first n elements; what the scan has read.
Prefix(p, n) == SubSeq(p, 1, n)
Before == Prefix(lower, i - 1)

\* What the link of s, and the entry of out for s, ought to be.
IsLink(p, s, W) == /\ p \in NodesOf(W) /\ ProperSuffix(p, s)
                   /\ \A q \in NodesOf(W) : ProperSuffix(q, s) => Len(q) <= Len(p)
Ends(n, s, W) == n = 0 \/ \E w \in W : IsSuffix(w, s) /\ Len(w) = n
IsOut(n, s, W) == n \in Nat /\ Ends(n, s, W) /\ \A w \in W : IsSuffix(w, s) => Len(w) <= n

\* What load() is given, without the empty word.
WordSet(W) == \A w \in W : w \in Seq(Chars) /\ w # <<>>
Phases == {"idle", "load", "scan", "merge", "replace", "done"}

\* load: the tables and the pass that fills them.
LoadTyped ==
  /\ impl \in {"dfa", "ac"} /\ phase \in Phases /\ WordSet(words)
  /\ impl = "ac" => fail \in [Nodes -> Nodes] /\ out \in [Nodes -> Nat]
  /\ queue \in Seq(Nodes) /\ cur \in Nodes /\ todo \subseteq Nodes
  /\ nxt \in Nodes /\ f \in Nodes
  /\ phase = "load" => impl = "ac"
  /\ phase # "load" => queue = <<>> /\ todo = {} /\ nxt = Root /\ cur = Root

\* The queue holds nodes of one level, then of the next.
Levels ==
  /\ \A n \in 1..Len(queue) : /\ queue[n] # Root
                              /\ Len(cur) <= Len(queue[n]) /\ Len(queue[n]) <= Len(cur) + 1
  /\ \A m, n \in 1..Len(queue) : m < n => Len(queue[m]) <= Len(queue[n])
  /\ todo \subseteq Children(cur, words)
  /\ nxt # Root => cur # Root /\ nxt \in Children(cur, words)

\* p will still get its link in this pass: it is at hand, or some node on the
\* way to it is in the queue or among the children to come.
Waits(p) ==
  /\ Len(p) > 1
  /\ \/ nxt # Root /\ p = nxt
     \/ \E n \in 1..Len(queue) : Len(queue[n]) < Len(p) /\ Prefix(p, Len(queue[n])) = queue[n]
     \/ \E q \in todo : Len(q) <= Len(p) /\ Prefix(p, Len(q)) = q

\* What a link may lead to before its level is done is the root.
FirstLevel == impl = "ac" => \A p \in Nodes : Len(p) <= 1 => fail[p] = Root
\* Also while a node waits, its entry of out is the length of some word that
\* ends there, and no less than its own.
OutSound ==
  impl = "ac" => \A p \in Nodes : Ends(out[p], p, words) /\ (p \in words => Len(p) <= out[p])
\* Each link is the longest there is, but for nodes that wait: those may hold
\* the link of an earlier load, or none.
LinksRight ==
  impl = "ac" => \A p \in Nodes : p # Root /\ ~Waits(p) =>
                    IsLink(fail[p], p, words) /\ IsOut(out[p], p, words)

\* The links followed from cur: no longer end of it has the child.
WalkRight ==
  nxt # Root =>
    /\ ProperSuffix(f, cur)
    /\ \A q \in Nodes :
         ProperSuffix(q, cur) /\ Append(q, nxt[Len(nxt)]) \in Nodes => Len(q) <= Len(f)

Loading == LoadTyped /\ Levels /\ FirstLevel /\ OutSound /\ LinksRight /\ WalkRight

\* filter: its argument, its hits and its answer.
Span == (1..Len(lower)) \X (1..Len(lower))
\* A hit is an occurrence of a word.
FilterTyped ==
  /\ i \in Nat \ {0}
  /\ text \in Seq(Letters) /\ lower \in Seq(Chars)
  /\ node \in Nodes /\ hits \in Seq(Occurrences)
  /\ merged \in Seq(Span) /\ answer \in Seq(Letters \union {Stars}) /\ prev \in Nat \ {0}
  /\ phase \in {"idle", "load"} => hits = <<>> /\ node = Root
  /\ phase \in {"idle", "load", "scan"} => merged = <<>>
  /\ phase \notin {"replace", "done"} => answer = <<>> /\ prev = 1

\* The automaton's state: an end of what was read, and no longer one has the
\* child for what comes next.
StateRight ==
  phase = "scan" =>
    /\ i <= Len(lower) + 1
    /\ impl = "ac" =>
         /\ IsSuffix(node, Before)
         /\ i <= Len(lower) =>
              \A q \in Nodes :
                IsSuffix(q, Before) /\ Append(q, lower[i]) \in Nodes => Len(q) <= Len(node)

\* Occurrences the scan has passed lie inside hits: the trie is past an
\* occurrence when past its beginning, the automaton when past its end.
InHits(x) == \E n \in 1..Len(hits) : hits[n][1] <= x[1] /\ x[2] <= hits[n][2]
Passed(x) == phase # "scan" \/ IF impl = "dfa" THEN x[1] < i ELSE x[2] < i
HitsComplete == phase \notin {"idle", "load"} => \A x \in Occurrences : Passed(x) => InHits(x)
\* The trie finds its hits in the order of their beginnings.
DfaInOrder ==
  impl = "dfa" => HitsInOrder /\ (phase = "scan" => \A n \in 1..Len(hits) : hits[n][1] < i)

\* Positions of the text are those of its lower case.
AlignedLengths == Aligned => Len(lower) = Len(text)

\* A position inside some segment; inside one of the first n hits.
InSegments(x) == \E m \in 1..Len(merged) : merged[m][1] <= x /\ x <= merged[m][2]
InFirst(x, n) == \E m \in 1..n : hits[m][1] <= x /\ x <= hits[m][2]
\* Segments neither overlap nor touch.
Apart ==
  /\ \A n \in 1..Len(merged) : /\ merged[n][1] <= merged[n][2]
                              /\ merged[n][2] <= Len(lower)
  /\ \A m, n \in 1..Len(merged) : m < n => merged[m][2] + 1 < merged[n][1]
\* The segments cover what the hits merged so far do; no hit to come begins
\* before one of them.
Counted == IF phase = "merge" THEN i - 1 ELSE Len(hits)
MergedSound ==
  /\ phase = "merge" => i <= Len(hits) + 1
  /\ HitsInOrder /\ phase \in {"merge", "replace", "done"} =>
       /\ \A x \in Nat : InSegments(x) <=> InFirst(x, Counted)
       /\ phase = "merge" =>
           \A m \in 1..Len(merged) : \A n \in i..Len(hits) : merged[m][1] <= hits[n][1]

\* The positions shown before k, and t as the list of them.
ShownTo(k) == {j \in Shown : j < k}
Symbol(j) == IF j \in Covered THEN Stars ELSE text[j]
Listed(t, k) == /\ Len(t) = Cardinality(ShownTo(k))
                /\ \A j \in ShownTo(k) : t[Place(j)] = Symbol(j)
\* The answer lists them up to prev, the position after the last segment.
AnswerSound ==
  /\ phase = "replace" => /\ i <= Len(merged) + 1
                          /\ prev = IF i = 1 THEN 1 ELSE merged[i - 1][2] + 1
  /\ phase = "replace" /\ Aligned /\ HitsInOrder => Listed(answer, prev)
  /\ phase = "done" /\ Aligned /\ HitsInOrder => Expected(answer)

Filtering ==
  /\ FilterTyped /\ StateRight /\ HitsComplete /\ DfaInOrder /\ AlignedLengths
  /\ Apart /\ MergedSound /\ AnswerSound

-----------------------------------------------------------------------------
\* Sequences that end alike.

\* A sequence is an end of itself.
LEMMA SuffixSelf == ASSUME NEW S, NEW s \in Seq(S) PROVE IsSuffix(s, s)
BY DEF IsSuffix

\* An end of an end is an end.
LEMMA SuffixTrans ==
  ASSUME NEW S, NEW p \in Seq(S), NEW q \in Seq(S), NEW s \in Seq(S),
         IsSuffix(p, q), IsSuffix(q, s)
  PROVE  IsSuffix(p, s)
<1>1. Len(p) \in Nat /\ Len(q) \in Nat /\ Len(s) \in Nat
  OBVIOUS
<1>2. Len(p) <= Len(s)
  BY <1>1 DEF IsSuffix
<1>3. ASSUME NEW k \in 1..Len(p)
      PROVE  p[k] = s[Len(s) - Len(p) + k]
  <2>1. p[k] = q[Len(q) - Len(p) + k]
    BY DEF IsSuffix
  <2> DEFINE j == Len(q) - Len(p) + k
  <2>2. j \in 1..Len(q)
    BY <1>1 DEF IsSuffix
  <2>3. q[j] = s[Len(s) - Len(q) + j]
    BY <2>2 DEF IsSuffix
  <2>4. Len(s) - Len(q) + j = Len(s) - Len(p) + k
    BY <1>1
  <2> QED
    BY <2>1, <2>3, <2>4
<1> QED
  BY <1>2, <1>3 DEF IsSuffix

\* Of two ends of the same sequence, the shorter is an end of the longer.
LEMMA SuffixOfLonger ==
  ASSUME NEW S, NEW p \in Seq(S), NEW q \in Seq(S), NEW s \in Seq(S),
         IsSuffix(p, s), IsSuffix(q, s), Len(p) <= Len(q)
  PROVE  IsSuffix(p, q)
<1>1. Len(p) \in Nat /\ Len(q) \in Nat /\ Len(s) \in Nat
  OBVIOUS
<1>2. ASSUME NEW k \in 1..Len(p)
      PROVE  p[k] = q[Len(q) - Len(p) + k]
  <2>1. p[k] = s[Len(s) - Len(p) + k]
    BY DEF IsSuffix
  <2> DEFINE j == Len(q) - Len(p) + k
  <2>2. j \in 1..Len(q)
    BY <1>1
  <2>3. q[j] = s[Len(s) - Len(q) + j]
    BY <2>2 DEF IsSuffix
  <2>4. Len(s) - Len(q) + j = Len(s) - Len(p) + k
    BY <1>1
  <2> QED
    BY <2>1, <2>3, <2>4
<1> QED
  BY <1>2 DEF IsSuffix

\* An end as long as the sequence is the sequence.
LEMMA SuffixSameLength ==
  ASSUME NEW S, NEW p \in Seq(S), NEW q \in Seq(S), IsSuffix(p, q), Len(p) = Len(q)
  PROVE  p = q
<1>1. \A k \in 1..Len(p) : p[k] = q[k]
  <2> TAKE k \in 1..Len(p)
  <2>1. p[k] = q[Len(q) - Len(p) + k]
    BY DEF IsSuffix
  <2>2. Len(q) - Len(p) + k = k
    OBVIOUS
  <2> QED
    BY <2>1, <2>2
<1> QED
  BY <1>1

\* The first n elements of a sequence.
LEMMA PrefixOf ==
  ASSUME NEW S, NEW s \in Seq(S), NEW n \in 0..Len(s)
  PROVE  /\ SubSeq(s, 1, n) \in Seq(S) /\ Len(SubSeq(s, 1, n)) = n
         /\ \A k \in 1..n : SubSeq(s, 1, n)[k] = s[k]
<1>1. Len(s) \in Nat /\ n \in Nat /\ n <= Len(s)
  OBVIOUS
<1>2. \A k \in 1..n : s[k] \in S
  BY <1>1
<1> DEFINE r == SubSeq(s, 1, n)
<1>3. /\ r \in Seq(S) /\ Len(r) = (IF 1 <= n THEN n - 1 + 1 ELSE 0)
      /\ \A k \in 1..(n - 1 + 1) : r[k] = s[1 + k - 1]
  BY <1>1, <1>2, SubSeqProperties
<1> HIDE DEF r
<1>4. /\ r \in Seq(S) /\ Len(r) = n /\ \A k \in 1..n : r[k] = s[k]
  BY <1>1, <1>3
<1> QED
  BY <1>4 DEF r

\* A sequence that is not empty is its parent and one more element.
LEMMA ParentOf ==
  ASSUME NEW S, NEW q \in Seq(S), q # <<>>
  PROVE  /\ Parent(q) \in Seq(S) /\ Len(Parent(q)) = Len(q) - 1 /\ Len(q) \in Nat \ {0}
         /\ \A k \in 1..(Len(q) - 1) : Parent(q)[k] = q[k]
         /\ q[Len(q)] \in S /\ q = Append(Parent(q), q[Len(q)])
<1>1. Len(q) \in Nat \ {0}
  OBVIOUS
<1>2. Len(q) - 1 \in 0..Len(q)
  BY <1>1
<1>3. /\ Parent(q) \in Seq(S) /\ Len(Parent(q)) = Len(q) - 1
      /\ \A k \in 1..(Len(q) - 1) : Parent(q)[k] = q[k]
  BY <1>2, PrefixOf DEF Parent
<1>4. q[Len(q)] \in S
  BY <1>1
<1> DEFINE r == Append(Parent(q), q[Len(q)])
<1>5. /\ r \in Seq(S) /\ Len(r) = Len(q)
      /\ \A k \in 1..Len(q) : r[k] = IF k <= Len(q) - 1 THEN Parent(q)[k] ELSE q[Len(q)]
  BY <1>1, <1>3, <1>4
<1> HIDE DEF r
<1>6. \A k \in 1..Len(q) : r[k] = q[k]
  BY <1>1, <1>3, <1>5
<1>7. r = q
  BY <1>5, <1>6
<1>8. q = Append(Parent(q), q[Len(q)])
  BY <1>7 DEF r
<1> HIDE DEF r
<1> QED
  BY <1>1, <1>3, <1>4, <1>8

\* What one more element makes of a sequence.
LEMMA Appended ==
  ASSUME NEW S, NEW s \in Seq(S), NEW c \in S
  PROVE  /\ Append(s, c) \in Seq(S) /\ Len(Append(s, c)) = Len(s) + 1
         /\ Append(s, c) # <<>> /\ Len(s) \in Nat
         /\ \A k \in 1..Len(s) : Append(s, c)[k] = s[k]
         /\ Append(s, c)[Len(s) + 1] = c
         /\ Parent(Append(s, c)) = s
<1>1. /\ Append(s, c) \in Seq(S) /\ Len(Append(s, c)) = Len(s) + 1
      /\ Append(s, c) # <<>> /\ Len(s) \in Nat
      /\ \A k \in 1..Len(s) : Append(s, c)[k] = s[k]
      /\ Append(s, c)[Len(s) + 1] = c
  OBVIOUS
<1> DEFINE r == Append(s, c)
<1> HIDE DEF r
<1>2. r \in Seq(S) /\ r # <<>> /\ Len(r) = Len(s) + 1 /\ \A k \in 1..Len(s) : r[k] = s[k]
  BY <1>1 DEF r
<1>3. /\ Parent(r) \in Seq(S) /\ Len(Parent(r)) = Len(s)
      /\ \A k \in 1..Len(s) : Parent(r)[k] = r[k]
  <2>1. /\ Parent(r) \in Seq(S) /\ Len(Parent(r)) = Len(r) - 1
        /\ \A k \in 1..(Len(r) - 1) : Parent(r)[k] = r[k]
    BY <1>2, ParentOf
  <2>2. Len(r) - 1 = Len(s)
    BY <1>1, <1>2
  <2> QED
    BY <2>1, <2>2
<1>4. Parent(r) = s
  BY <1>2, <1>3
<1>5. Parent(Append(s, c)) = s
  BY <1>4 DEF r
<1> QED
  BY <1>1, <1>5

\* An end stays one when both sequences grow by the same element.
LEMMA SuffixGrows ==
  ASSUME NEW S, NEW p \in Seq(S), NEW s \in Seq(S), NEW c \in S, IsSuffix(p, s)
  PROVE  IsSuffix(Append(p, c), Append(s, c))
<1> DEFINE p1 == Append(p, c)
           s1 == Append(s, c)
<1>1. /\ Len(p1) = Len(p) + 1 /\ \A k \in 1..Len(p) : p1[k] = p[k]
      /\ p1[Len(p) + 1] = c /\ Len(p) \in Nat
  BY Appended
<1>2. /\ Len(s1) = Len(s) + 1 /\ \A k \in 1..Len(s) : s1[k] = s[k]
      /\ s1[Len(s) + 1] = c /\ Len(s) \in Nat
  BY Appended
<1> HIDE DEF p1, s1
<1>3. Len(p) <= Len(s)
  BY DEF IsSuffix
<1>4. ASSUME NEW k \in 1..Len(p1)
      PROVE  p1[k] = s1[Len(s1) - Len(p1) + k]
  <2>1. CASE k = Len(p) + 1
    BY <1>1, <1>2, <1>3, <2>1
  <2>2. CASE k # Len(p) + 1
    <3>1. k \in 1..Len(p)
      BY <1>1, <2>2
    <3>2. p1[k] = s[Len(s) - Len(p) + k]
      BY <1>1, <3>1 DEF IsSuffix
    <3>3. Len(s) - Len(p) + k \in 1..Len(s)
      BY <1>1, <1>2, <1>3, <3>1
    <3>4. Len(s1) - Len(p1) + k = Len(s) - Len(p) + k
      BY <1>1, <1>2
    <3> QED
      BY <1>2, <3>2, <3>3, <3>4
  <2> QED
    BY <2>1, <2>2
<1>5. IsSuffix(p1, s1)
  BY <1>1, <1>2, <1>3, <1>4 DEF IsSuffix
<1> QED
  BY <1>5 DEF p1, s1

\* An end of a longer sequence is empty, or an end of the shorter one made longer.
LEMMA SuffixOfAppended ==
  ASSUME NEW S, NEW q \in Seq(S), NEW s \in Seq(S), NEW c \in S,
         IsSuffix(q, Append(s, c)), q # <<>>
  PROVE  q = Append(Parent(q), c) /\ IsSuffix(Parent(q), s)
<1> DEFINE s1 == Append(s, c)
           r == Parent(q)
<1>1. /\ Len(s1) = Len(s) + 1 /\ \A k \in 1..Len(s) : s1[k] = s[k]
      /\ s1[Len(s) + 1] = c /\ Len(s) \in Nat
  BY Appended
<1>2. /\ Len(r) = Len(q) - 1 /\ Len(q) \in Nat \ {0}
      /\ \A k \in 1..(Len(q) - 1) : r[k] = q[k]
      /\ q = Append(r, q[Len(q)])
  BY ParentOf
<1>3. Len(q) <= Len(s1) /\ \A k \in 1..Len(q) : q[k] = s1[Len(s1) - Len(q) + k]
  BY DEF IsSuffix
<1> HIDE DEF s1, r
<1>4. q[Len(q)] = c
  <2>1. q[Len(q)] = s1[Len(s1) - Len(q) + Len(q)]
    BY <1>2, <1>3
  <2> QED
    BY <1>1, <1>2, <2>1
<1>5. Len(r) <= Len(s)
  BY <1>1, <1>2, <1>3
<1>6. ASSUME NEW k \in 1..Len(r)
      PROVE  r[k] = s[Len(s) - Len(r) + k]
  <2>1. r[k] = s1[Len(s1) - Len(q) + k]
    BY <1>2, <1>3
  <2>2. Len(s1) - Len(q) + k = Len(s) - Len(r) + k /\ Len(s) - Len(r) + k \in 1..Len(s)
    BY <1>1, <1>2, <1>5
  <2> QED
    BY <1>1, <2>1, <2>2
<1>7. IsSuffix(r, s)
  BY <1>5, <1>6 DEF IsSuffix
<1> QED
  BY <1>2, <1>4, <1>7 DEF r

\* The empty path is an end of every sequence.
LEMMA RootIsSuffix == ASSUME NEW S, NEW s \in Seq(S) PROVE IsSuffix(Root, s) /\ Len(Root) = 0
BY DEF IsSuffix, Root

-----------------------------------------------------------------------------
\* Nodes.

\* The nodes of a trie are the root and the beginnings of its words.
LEMMA NodeIs ==
  ASSUME NEW W, NEW p
  PROVE  p \in NodesOf(W) <=> p = Root \/ \E w \in W : \E n \in 0..Len(w) : p = SubSeq(w, 1, n)
<1> DEFINE P(w) == {SubSeq(w, 1, n) : n \in 0..Len(w)}
           U == UNION {P(w) : w \in W}
<1>1. NodesOf(W) = {Root} \union U
  BY Zenon DEF NodesOf
<1>2. \A w : p \in P(w) <=> \E n \in 0..Len(w) : p = SubSeq(w, 1, n)
  BY Zenon
<1> HIDE DEF P
<1>3. p \in U <=> \E w \in W : p \in P(w)
  BY Zenon
<1> HIDE DEF U
<1> QED
  BY <1>1, <1>2, <1>3, Zenon

\* The root is a node of every trie.
LEMMA RootIsNode == ASSUME NEW W PROVE Root \in NodesOf(W)
BY NodeIs

\* The root is the empty path.
LEMMA RootIsSeq == ASSUME NEW S PROVE Root \in Seq(S) /\ Len(Root) = 0
BY DEF Root

\* A node is a path of characters, and only the root has length 0.
LEMMA NodeSeq ==
  ASSUME NEW W, WordSet(W), NEW p \in NodesOf(W)
  PROVE  p \in Seq(Chars) /\ Len(p) \in Nat /\ (p = Root <=> Len(p) = 0)
<1>1. p \in Seq(Chars)
  <2>1. CASE p = Root
    BY <2>1, RootIsSeq
  <2>2. CASE p # Root
    <3>1. PICK w \in W : \E n \in 0..Len(w) : p = SubSeq(w, 1, n)
      BY <2>2, NodeIs
    <3>2. PICK n \in 0..Len(w) : p = SubSeq(w, 1, n)
      BY <3>1
    <3>3. w \in Seq(Chars)
      BY DEF WordSet
    <3> QED
      BY <3>2, <3>3, PrefixOf
  <2> QED
    BY <2>1, <2>2
<1> QED
  BY <1>1 DEF Root

\* The way to a node leads over nodes.
LEMMA PrefixIsNode ==
  ASSUME NEW W, WordSet(W), NEW p \in NodesOf(W), NEW n \in 0..Len(p)
  PROVE  Prefix(p, n) \in NodesOf(W) /\ Len(Prefix(p, n)) = n
<1>1. p \in Seq(Chars) /\ Len(p) \in Nat
  BY NodeSeq
<1>2. /\ Prefix(p, n) \in Seq(Chars) /\ Len(Prefix(p, n)) = n
      /\ \A k \in 1..n : Prefix(p, n)[k] = p[k]
  BY <1>1, PrefixOf DEF Prefix
<1>3. CASE p = Root
  <2>1. n = 0
    BY <1>3, NodeSeq
  <2>2. Prefix(p, n) = Root
    BY <1>2, <2>1 DEF Root
  <2> QED
    BY <1>2, <2>2, RootIsNode
<1>4. CASE p # Root
  <2>1. PICK w \in W : \E m \in 0..Len(w) : p = SubSeq(w, 1, m)
    BY <1>4, NodeIs
  <2>2. PICK m \in 0..Len(w) : p = SubSeq(w, 1, m)
    BY <2>1
  <2>3. w \in Seq(Chars) /\ Len(w) \in Nat
    BY DEF WordSet
  <2>4. Len(p) = m /\ \A k \in 1..m : p[k] = w[k]
    BY <2>2, <2>3, PrefixOf
  <2>5. n \in 0..Len(w) /\ n <= m
    BY <2>3, <2>4
  <2>6. /\ SubSeq(w, 1, n) \in Seq(Chars) /\ Len(SubSeq(w, 1, n)) = n
        /\ \A k \in 1..n : SubSeq(w, 1, n)[k] = w[k]
    BY <2>3, <2>5, PrefixOf
  <2>7. \A k \in 1..n : Prefix(p, n)[k] = SubSeq(w, 1, n)[k]
    BY <1>2, <2>4, <2>5, <2>6
  <2> DEFINE a == Prefix(p, n)
             b == SubSeq(w, 1, n)
  <2> HIDE DEF a, b
  <2>8. /\ a \in Seq(Chars) /\ b \in Seq(Chars) /\ Len(a) = n /\ Len(b) = n
        /\ \A k \in 1..n : a[k] = b[k]
    BY <1>2, <2>6, <2>7 DEF a, b
  <2>9. a = b
    BY <2>8
  <2> QED
    BY <1>2, <2>5, <2>9, NodeIs DEF a, b
<1> QED
  BY <1>3, <1>4

\* Every node but the root hangs below a node, by its last character.
LEMMA ParentIsNode ==
  ASSUME NEW W, WordSet(W), NEW p \in NodesOf(W), p # Root
  PROVE  /\ Parent(p) \in NodesOf(W) /\ Len(Parent(p)) = Len(p) - 1
         /\ p[Len(p)] \in Chars /\ p = Append(Parent(p), p[Len(p)])
<1>1. p \in Seq(Chars) /\ Len(p) \in Nat \ {0}
  BY NodeSeq
<1>2. Len(p) - 1 \in 0..Len(p)
  BY <1>1
<1>3. Parent(p) = Prefix(p, Len(p) - 1)
  BY DEF Parent, Prefix
<1>4. p # <<>>
  BY <1>1 DEF Root
<1>5. p[Len(p)] \in Chars /\ p = Append(Parent(p), p[Len(p)])
  BY <1>1, <1>4, ParentOf
<1> QED
  BY <1>2, <1>3, <1>5, PrefixIsNode

\* A word loaded is a node, and not the root.
LEMMA WordIsNode ==
  ASSUME NEW W, WordSet(W), NEW w \in W PROVE w \in NodesOf(W) /\ w # Root /\ w \in Seq(Chars)
<1>1. w \in Seq(Chars) /\ w # <<>>
  BY DEF WordSet
<1>2. /\ SubSeq(w, 1, Len(w)) \in Seq(Chars) /\ Len(SubSeq(w, 1, Len(w))) = Len(w)
      /\ \A k \in 1..Len(w) : SubSeq(w, 1, Len(w))[k] = w[k]
  BY <1>1, PrefixOf
<1> DEFINE r == SubSeq(w, 1, Len(w))
<1> HIDE DEF r
<1>3. r = w
  BY <1>1, <1>2 DEF r
<1>4. Len(w) \in 0..Len(w)
  BY <1>1
<1> QED
  BY <1>1, <1>3, <1>4, NodeIs DEF r, Root

\* A load removes no node.
LEMMA NodesGrow ==
  ASSUME NEW V, NEW W, V \subseteq W, NEW p \in NodesOf(V) PROVE p \in NodesOf(W)
BY NodeIs

\* A child is its parent and one more character.
LEMMA ChildIs ==
  ASSUME NEW W, WordSet(W), NEW a \in NodesOf(W), NEW q \in Children(a, W)
  PROVE  /\ q \in NodesOf(W) /\ q # Root /\ Parent(q) = a /\ Len(q) = Len(a) + 1
         /\ q[Len(q)] \in Chars /\ q = Append(a, q[Len(q)])
<1>1. q \in NodesOf(W) /\ q # Root /\ Parent(q) = a
  BY DEF Children
<1>2. Len(a) = Len(q) - 1 /\ q[Len(q)] \in Chars /\ q = Append(a, q[Len(q)])
  BY <1>1, ParentIsNode
<1>3. Len(q) \in Nat /\ Len(a) \in Nat
  BY <1>1, NodeSeq
<1> QED
  BY <1>1, <1>2, <1>3

\* On the way to a longer node, one step further from a is a child of a.
LEMMA ChildOnWay ==
  ASSUME NEW W, WordSet(W), NEW a \in NodesOf(W), NEW p \in NodesOf(W),
         Len(a) < Len(p), Prefix(p, Len(a)) = a
  PROVE  /\ Prefix(p, Len(a) + 1) \in Children(a, W)
         /\ Len(Prefix(p, Len(a) + 1)) = Len(a) + 1
<1> DEFINE n == Len(a) + 1
           q == Prefix(p, n)
<1>1. p \in Seq(Chars) /\ Len(p) \in Nat /\ Len(a) \in Nat /\ n \in 0..Len(p) /\ n # 0
  BY NodeSeq
<1>2. q \in NodesOf(W) /\ Len(q) = n
  BY <1>1, PrefixIsNode
<1>3. q \in Seq(Chars) /\ q # Root
  BY <1>1, <1>2, NodeSeq
<1>4. \A k \in 1..n : q[k] = p[k]
  BY <1>1, PrefixOf DEF Prefix
<1>5. /\ Parent(q) \in Seq(Chars) /\ Len(Parent(q)) = Len(a)
      /\ \A k \in 1..Len(a) : Parent(q)[k] = q[k]
  <2>1. q # <<>>
    BY <1>3 DEF Root
  <2>2. /\ Parent(q) \in Seq(Chars) /\ Len(Parent(q)) = Len(q) - 1
        /\ \A k \in 1..(Len(q) - 1) : Parent(q)[k] = q[k]
    BY <1>3, <2>1, ParentOf
  <2> HIDE DEF q
  <2> QED
    BY <1>1, <1>2, <2>2
<1>6. a \in Seq(Chars) /\ Len(a) \in 0..Len(p)
  BY <1>1, NodeSeq
<1>7. \A k \in 1..Len(a) : a[k] = p[k]
  BY <1>1, <1>6, PrefixOf DEF Prefix
<1> HIDE DEF q
<1>8. Parent(q) = a
  BY <1>1, <1>4, <1>5, <1>6, <1>7
<1>9. q \in Children(a, W)
  BY <1>2, <1>3, <1>8 DEF Children
<1> QED
  BY <1>2, <1>9 DEF q

-----------------------------------------------------------------------------
\* The actions, and what those that are not of load() leave alone.

Elsewhere ==
  \/ \E c \in Letters : Type(c)
  \/ Call \/ ScanStep \/ ReplaceStep \/ Return \/ UNCHANGED filterVars

\* A step is one of load(), or one that load() does not see.
LEMMA Actions ==
  ASSUME [FilterNext]_filterVars
  PROVE  \/ \E W \in Batches : LoadTrie(W) \/ LoadWords(W)
         \/ \E p \in Nodes : QueueFirst(p) \/ NextChild(p)
         \/ PopLeft \/ FollowFail \/ Link \/ Loaded \/ Elsewhere
BY Zenon DEF FilterNext, LoadStep, Elsewhere

\* What is not of load() leaves its tables and its pass alone.
LEMMA ElsewhereNoLoad ==
  ASSUME LoadTyped, Elsewhere
  PROVE  /\ UNCHANGED <<impl, words, fail, out, queue, cur, todo, nxt, f>>
         /\ phase' \in Phases /\ (phase' = "load" <=> phase = "load")
<1> USE DEF LoadTyped, Phases, tables, bfs
<1>1. CASE \E c \in Letters : Type(c)
  BY <1>1 DEF Type
<1>2. CASE Call
  BY <1>2 DEF Call
<1>3. CASE ScanStep
  BY <1>3 DEF ScanStep, DFAStep, FallBack, ACStep, Scanned
<1>4. CASE ReplaceStep
  BY <1>4 DEF ReplaceStep, Merge, Merged, Replace, Rest
<1>5. CASE Return
  BY <1>5 DEF Return
<1>6. CASE UNCHANGED filterVars
  BY <1>6 DEF filterVars
<1> QED
  BY <1>1, <1>2, <1>3, <1>4, <1>5, <1>6 DEF Elsewhere

-----------------------------------------------------------------------------
\* Types of what load() works with.

\* What is loaded is never the empty word: load() skips it.
LEMMA BatchIsWordSet ==
  ASSUME LoadTyped, NEW W \in Batches
  PROVE  WordSet(words \union W)
BY BatchesAssumption DEF WordSet, LoadTyped

\* Types of what load() works on.
LEMMA LoadTypedKept == ASSUME LoadTyped, [FilterNext]_filterVars PROVE LoadTyped'
<1> USE DEF LoadTyped, Phases
<1>1. ASSUME NEW W \in Batches, LoadTrie(W)
      PROVE  LoadTyped'
  <2>1. WordSet(words')
    BY <1>1, BatchIsWordSet DEF LoadTrie
  <2>2. Nodes \subseteq Nodes'
    <3>1. words \subseteq words'
      BY <1>1 DEF LoadTrie
    <3> QED
      BY <3>1, NodesGrow DEF Nodes
  <2>3. /\ UNCHANGED <<impl, phase, fail, out, queue, cur, todo, nxt, f>>
        /\ impl = "dfa" /\ phase = "idle"
    BY <1>1 DEF LoadTrie, bfs
  <2>4. queue' \in Seq(Nodes') /\ todo' \subseteq Nodes'
    BY <2>3
  <2> QED
    BY <2>1, <2>2, <2>3, <2>4
<1>2. ASSUME NEW W \in Batches, LoadWords(W)
      PROVE  LoadTyped'
  <2>1. WordSet(words')
    BY <1>2, BatchIsWordSet DEF LoadWords
  <2>2. Nodes \subseteq Nodes'
    <3>1. words \subseteq words'
      BY <1>2 DEF LoadWords
    <3> QED
      BY <3>1, NodesGrow DEF Nodes
  <2>3. /\ impl' = "ac" /\ phase' = "load" /\ phase = "idle" /\ impl = "ac"
        /\ UNCHANGED <<queue, nxt, f>> /\ cur' = Root /\ todo' = Children(Root, words')
        /\ Nodes' = NodesOf(words')
    BY <1>2 DEF LoadWords, Nodes
  <2>4. fail' \in [Nodes' -> Nodes']
    <3>1. fail' = [p \in Nodes' |-> IF p \in Nodes THEN fail[p] ELSE Root]
      BY <1>2 DEF LoadWords, Nodes
    <3>2. Root \in Nodes'
      BY RootIsNode DEF Nodes
    <3>3. \A p \in Nodes : fail[p] \in Nodes'
      BY <2>2, <2>3
    <3> QED
      BY <3>1, <3>2, <3>3
  <2>5. out' \in [Nodes' -> Nat]
    <3>1. out' = [p \in Nodes' |->
                   Larger(IF p \in Nodes THEN out[p] ELSE 0, IF p \in W THEN Len(p) ELSE 0)]
      BY <1>2 DEF LoadWords, Nodes
    <3>2. ASSUME NEW p \in Nodes'
          PROVE  Larger(IF p \in Nodes THEN out[p] ELSE 0, IF p \in W THEN Len(p) ELSE 0) \in Nat
      <4>1. Len(p) \in Nat
        BY <2>1, <2>3, NodeSeq
      <4>2. p \in Nodes => out[p] \in Nat
        BY <2>3
      <4> QED
        BY <4>1, <4>2 DEF Larger
    <3> QED
      BY <3>1, <3>2
  <2>6. todo' \subseteq Nodes' /\ cur' \in Nodes'
    BY <2>3, RootIsNode DEF Children
  <2>7. queue' \in Seq(Nodes') /\ nxt' \in Nodes' /\ f' \in Nodes'
    BY <2>2, <2>3
  <2> QED
    BY <2>1, <2>3, <2>4, <2>5, <2>6, <2>7
<1>3. ASSUME NEW p \in Nodes, QueueFirst(p)
      PROVE  LoadTyped'
  BY <1>3 DEF QueueFirst, tables, Nodes
<1>4. ASSUME NEW p \in Nodes, NextChild(p)
      PROVE  LoadTyped'
  BY <1>4 DEF NextChild, tables, Nodes
<1>5. CASE PopLeft
  <2>1. Head(queue) \in Nodes /\ Tail(queue) \in Seq(Nodes)
    BY <1>5 DEF PopLeft
  <2>2. Children(Head(queue), words) \subseteq Nodes
    BY DEF Children, Nodes
  <2> QED
    BY <1>5, <2>1, <2>2 DEF PopLeft, tables, Nodes
<1>6. CASE FollowFail
  BY <1>6 DEF FollowFail, tables, Nodes
<1>7. CASE Link
  <2> DEFINE found == Child(f, nxt[Len(nxt)])
             link == IF found = nxt THEN Root ELSE found
  <2>1. Root \in Nodes
    BY RootIsNode DEF Nodes
  <2>2. link \in Nodes
    BY <2>1 DEF Child
  <2>3. out[nxt] \in Nat /\ out[link] \in Nat
    BY <1>7, <2>2 DEF Link
  <2>4. Larger(out[nxt], out[link]) \in Nat
    BY <2>3 DEF Larger
  <2> HIDE DEF found
  <2>5. /\ fail' = [fail EXCEPT ![nxt] = link]
        /\ out' = [out EXCEPT ![nxt] = Larger(out[nxt], out[link])]
        /\ nxt' = Root /\ f' = Root /\ phase = "load"
        /\ UNCHANGED <<impl, phase, words, queue, cur, todo>>
    BY <1>7 DEF Link, found
  <2> HIDE DEF link
  <2>6. Nodes' = Nodes
    BY <2>5 DEF Nodes
  <2>7. fail' \in [Nodes -> Nodes] /\ out' \in [Nodes -> Nat]
    BY <2>2, <2>4, <2>5
  <2> QED
    BY <2>1, <2>5, <2>6, <2>7
<1>8. CASE Loaded
  <2>1. Root \in Nodes
    BY RootIsNode DEF Nodes
  <2> QED
    BY <1>8, <2>1 DEF Loaded, tables, Nodes
<1>9. CASE Elsewhere
  BY <1>9, ElsewhereNoLoad DEF Nodes
<1> QED
  BY <1>1, <1>2, <1>3, <1>4, <1>5, <1>6, <1>7, <1>8, <1>9, Actions

-----------------------------------------------------------------------------
\* The breadth-first pass goes level by level.

\* Every step keeps the queue in the order of levels: children join at its end.
LEMMA LevelsKept == ASSUME LoadTyped, Levels, [FilterNext]_filterVars PROVE Levels'
<1>1. ASSUME NEW W \in Batches, LoadTrie(W)
      PROVE  Levels'
  BY <1>1 DEF LoadTrie, bfs, Levels, LoadTyped
<1>2. ASSUME NEW W \in Batches, LoadWords(W)
      PROVE  Levels'
  BY <1>2 DEF LoadWords, Levels, LoadTyped
<1>3. ASSUME NEW p \in Nodes, QueueFirst(p) \/ NextChild(p)
      PROVE  Levels'
  <2>1. /\ p \in Children(cur, words) /\ cur \in NodesOf(words) /\ WordSet(words)
        /\ queue \in Seq(Nodes) /\ p \in Nodes
        /\ queue' = Append(queue, p) /\ todo' = todo \ {p} /\ UNCHANGED <<words, cur>>
        /\ nxt' = nxt \/ (nxt' = p /\ cur # Root)
    BY <1>3 DEF QueueFirst, NextChild, tables, Levels, LoadTyped, Nodes
  <2>2. p # Root /\ Len(p) = Len(cur) + 1 /\ Len(cur) \in Nat
    BY <2>1, ChildIs, NodeSeq
  <2>3. /\ Len(queue') = Len(queue) + 1 /\ Len(queue) \in Nat
        /\ \A n \in 1..Len(queue) : queue'[n] = queue[n]
        /\ queue'[Len(queue) + 1] = p
    BY <2>1
  <2>4. \A n \in 1..Len(queue') : n \in 1..Len(queue) \/ n = Len(queue) + 1
    BY <2>3
  <2>5. \A n \in 1..Len(queue') : /\ queue'[n] # Root
                                  /\ Len(cur) <= Len(queue'[n]) /\ Len(queue'[n]) <= Len(cur) + 1
    BY <2>2, <2>3, <2>4 DEF Levels
  <2>6. ASSUME NEW m \in 1..Len(queue'), NEW n \in 1..Len(queue'), m < n
        PROVE  Len(queue'[m]) <= Len(queue'[n])
    <3>1. m \in 1..Len(queue)
      BY <2>3, <2>6
    <3>2. CASE n \in 1..Len(queue)
      BY <2>3, <2>6, <3>1, <3>2 DEF Levels
    <3>3. CASE n = Len(queue) + 1
      BY <2>2, <2>3, <3>1, <3>3 DEF Levels
    <3> QED
      BY <2>4, <3>2, <3>3
  <2> QED
    BY <2>1, <2>5, <2>6 DEF Levels
<1>4. CASE PopLeft
  <2>1. /\ queue \in Seq(Nodes) /\ queue # <<>> /\ nxt' = Root /\ words' = words
        /\ cur' = queue[1] /\ queue' = Tail(queue) /\ todo' = Children(queue[1], words)
    BY <1>4 DEF PopLeft, tables, LoadTyped
  <2>2. /\ Len(queue) \in Nat \ {0} /\ Len(queue') = Len(queue) - 1
        /\ \A n \in 1..Len(queue') : queue'[n] = queue[n + 1]
    BY <2>1
  <2>3. \A n \in 1..Len(queue) : Len(queue[n]) \in Nat
    BY <2>1, NodeSeq DEF LoadTyped, Nodes
  <2>4. Len(cur) \in Nat
    BY NodeSeq DEF LoadTyped, Nodes
  <2>5. ASSUME NEW n \in 1..Len(queue')
        PROVE  /\ queue'[n] # Root
               /\ Len(cur') <= Len(queue'[n]) /\ Len(queue'[n]) <= Len(cur') + 1
    <3>1. n + 1 \in 1..Len(queue) /\ 1 \in 1..Len(queue) /\ 1 < n + 1
      BY <2>2
    <3>2. Len(queue[1]) <= Len(queue[n + 1])
      BY <3>1 DEF Levels
    <3>3. Len(queue[n + 1]) <= Len(cur) + 1 /\ Len(cur) <= Len(queue[1]) /\ queue[n + 1] # Root
      BY <3>1 DEF Levels
    <3> QED
      BY <2>1, <2>2, <2>3, <2>4, <3>1, <3>2, <3>3
  <2>6. ASSUME NEW m \in 1..Len(queue'), NEW n \in 1..Len(queue'), m < n
        PROVE  Len(queue'[m]) <= Len(queue'[n])
    <3>1. m + 1 \in 1..Len(queue) /\ n + 1 \in 1..Len(queue) /\ m + 1 < n + 1
      BY <2>2, <2>6
    <3> QED
      BY <2>2, <3>1 DEF Levels
  <2> QED
    BY <2>1, <2>5, <2>6 DEF Levels
<1>5. CASE FollowFail
  BY <1>5 DEF FollowFail, tables, Levels
<1>6. CASE Link
  BY <1>6 DEF Link, Levels
<1>7. CASE Loaded
  BY <1>7 DEF Loaded, tables, Levels
<1>8. CASE Elsewhere
  BY <1>8, ElsewhereNoLoad DEF Levels
<1> QED
  BY <1>1, <1>2, <1>3, <1>4, <1>5, <1>6, <1>7, <1>8, Actions

\* Whatever waits is longer than the node at hand: of the shorter nodes, those
\* a link can lead to, the links are made.
LEMMA WaitersAreLonger ==
  ASSUME LoadTyped, Levels, NEW p \in Nodes, Waits(p)
  PROVE  Len(cur) < Len(p)
<1>1. WordSet(words) /\ cur \in NodesOf(words) /\ Len(cur) \in Nat /\ Len(p) \in Nat
  BY NodeSeq DEF LoadTyped, Nodes
<1>2. ASSUME nxt # Root, p = nxt
      PROVE  Len(cur) < Len(p)
  <2>1. nxt \in Children(cur, words)
    BY <1>2 DEF Levels
  <2>2. Len(nxt) = Len(cur) + 1
    BY <1>1, <2>1, ChildIs
  <2> QED
    BY <1>1, <1>2, <2>2
<1>3. ASSUME NEW n \in 1..Len(queue), Len(queue[n]) < Len(p)
      PROVE  Len(cur) < Len(p)
  <2>1. Len(cur) <= Len(queue[n])
    BY DEF Levels
  <2>2. queue[n] \in Nodes
    BY DEF LoadTyped
  <2>3. Len(queue[n]) \in Nat
    BY <1>1, <2>2, NodeSeq DEF Nodes
  <2> QED
    BY <1>1, <1>3, <2>1, <2>3
<1>4. ASSUME NEW q \in todo, Len(q) <= Len(p)
      PROVE  Len(cur) < Len(p)
  <2>1. q \in Children(cur, words)
    BY DEF Levels
  <2>2. Len(q) = Len(cur) + 1
    BY <1>1, <2>1, ChildIs
  <2> QED
    BY <1>1, <1>4, <2>2
<1> QED
  BY <1>2, <1>3, <1>4 DEF Waits

-----------------------------------------------------------------------------
\* A node of the first level has the root for its link.

\* The links of the first level: a load leaves those of old nodes, and Link
\* sets only deeper ones.
LEMMA FirstLevelKept ==
  ASSUME LoadTyped, Levels, FirstLevel, [FilterNext]_filterVars PROVE FirstLevel'
<1>1. ASSUME NEW W \in Batches, LoadTrie(W)
      PROVE  FirstLevel'
  BY <1>1 DEF LoadTrie, FirstLevel
<1>2. ASSUME NEW W \in Batches, LoadWords(W)
      PROVE  FirstLevel'
  BY <1>2 DEF LoadWords, FirstLevel, Nodes
<1>3. ASSUME NEW p \in Nodes, QueueFirst(p)
      PROVE  FirstLevel'
  BY <1>3 DEF QueueFirst, tables, FirstLevel, Nodes
<1>4. ASSUME NEW p \in Nodes, NextChild(p)
      PROVE  FirstLevel'
  BY <1>4 DEF NextChild, tables, FirstLevel, Nodes
<1>5. CASE PopLeft
  BY <1>5 DEF PopLeft, tables, FirstLevel, Nodes
<1>6. CASE FollowFail
  BY <1>6 DEF FollowFail, tables, FirstLevel, Nodes
<1>7. CASE Link
  <2>1. PICK l : fail' = [fail EXCEPT ![nxt] = l]
    BY <1>7 DEF Link
  <2>2. Nodes' = Nodes /\ impl' = impl /\ impl = "ac" /\ nxt # Root
    BY <1>7 DEF Link, Nodes, LoadTyped
  <2>3. Len(nxt) > 1
    <3>1. nxt \in Children(cur, words) /\ cur # Root
      BY <2>2 DEF Levels
    <3>2. Len(nxt) = Len(cur) + 1 /\ Len(cur) \in Nat /\ Len(cur) # 0
      BY <3>1, ChildIs, NodeSeq DEF LoadTyped, Nodes
    <3> QED
      BY <3>2
  <2>4. ASSUME NEW p \in Nodes, Len(p) <= 1
        PROVE  fail'[p] = Root
    <3>1. p # nxt /\ fail[p] = Root
      BY <2>2, <2>3, <2>4, NodeSeq DEF FirstLevel, LoadTyped, Nodes
    <3>2. fail'[p] = fail[p]
      BY <2>1, <2>2, <2>4, <3>1 DEF LoadTyped
    <3> QED
      BY <3>1, <3>2
  <2> QED
    BY <2>2, <2>4 DEF FirstLevel
<1>8. CASE Loaded
  BY <1>8 DEF Loaded, tables, FirstLevel, Nodes
<1>9. CASE Elsewhere
  BY <1>9, ElsewhereNoLoad DEF FirstLevel, Nodes
<1> QED
  BY <1>1, <1>2, <1>3, <1>4, <1>5, <1>6, <1>7, <1>8, <1>9, Actions

-----------------------------------------------------------------------------
\* What a pass establishes: links to the longest ends, and the longest words.

\* A length that is that of some word stays so when words are loaded.
LEMMA EndsGrow ==
  ASSUME NEW V, NEW W, V \subseteq W, NEW n, NEW s, Ends(n, s, V) PROVE Ends(n, s, W)
BY DEF Ends

\* A word that ends a sequence ends whatever that sequence ends.
LEMMA EndsFurther ==
  ASSUME NEW W, WordSet(W), NEW n, NEW g \in Seq(Chars), NEW s \in Seq(Chars),
         IsSuffix(g, s), Ends(n, g, W)
  PROVE  Ends(n, s, W)
BY SuffixTrans DEF Ends, WordSet

\* Where the walk over the links stops there is the link of the node at hand.
LEMMA LinkFound ==
  ASSUME LoadTyped, Levels, WalkRight, Link
  PROVE  \E l \in Nodes : /\ IsLink(l, nxt, words) /\ Len(l) <= Len(cur)
                          /\ fail' = [fail EXCEPT ![nxt] = l]
                          /\ out' = [out EXCEPT ![nxt] = Larger(out[nxt], out[l])]
<1> DEFINE c == nxt[Len(nxt)]
           found == Child(f, c)
           l == IF found = nxt THEN Root ELSE found
<1>1. /\ nxt # Root /\ ~Stuck(f, c)
      /\ fail' = [fail EXCEPT ![nxt] = l]
      /\ out' = [out EXCEPT ![nxt] = Larger(out[nxt], out[l])]
  BY DEF Link
<1>2. /\ WordSet(words) /\ cur \in NodesOf(words)
      /\ nxt \in Children(cur, words) /\ f \in NodesOf(words)
  BY <1>1 DEF LoadTyped, Levels, Nodes
<1>3. nxt \in Nodes /\ Len(nxt) = Len(cur) + 1 /\ c \in Chars /\ nxt = Append(cur, c)
  BY <1>2, ChildIs DEF Nodes
<1>4. /\ cur \in Seq(Chars) /\ Len(cur) \in Nat /\ f \in Seq(Chars) /\ Len(f) \in Nat
      /\ nxt \in Seq(Chars) /\ Len(nxt) \in Nat
  BY <1>2, <1>3, NodeSeq DEF Nodes
<1>5. /\ IsSuffix(f, cur) /\ Len(f) < Len(cur)
      /\ \A q \in Nodes : ProperSuffix(q, cur) /\ Append(q, c) \in Nodes => Len(q) <= Len(f)
  BY <1>1 DEF WalkRight, ProperSuffix
<1> HIDE DEF c
<1> DEFINE fc == Append(f, c)
<1>6. fc \in Seq(Chars) /\ Len(fc) = Len(f) + 1 /\ IsSuffix(fc, nxt)
  BY <1>3, <1>4, <1>5, Appended, SuffixGrows
<1>7. fc # nxt /\ Len(fc) <= Len(cur) /\ Len(fc) < Len(nxt)
  BY <1>3, <1>4, <1>5, <1>6
<1>8. ASSUME NEW q \in Nodes, ProperSuffix(q, nxt), q # Root
      PROVE  Parent(q) \in Nodes /\ ProperSuffix(Parent(q), cur)
             /\ Append(Parent(q), c) \in Nodes /\ Len(q) = Len(Parent(q)) + 1
             /\ Len(q) <= Len(f) + 1
  <2>1. /\ q \in Seq(Chars) /\ q # <<>> /\ Len(q) \in Nat
        /\ IsSuffix(q, Append(cur, c)) /\ Len(q) < Len(nxt)
    BY <1>2, <1>3, <1>8, NodeSeq DEF ProperSuffix, Nodes, Root
  <2>2. q = Append(Parent(q), c) /\ IsSuffix(Parent(q), cur)
    BY <1>3, <1>4, <2>1, SuffixOfAppended
  <2>3. Parent(q) \in Nodes /\ Len(Parent(q)) = Len(q) - 1
    BY <1>2, <1>8, ParentIsNode DEF Nodes
  <2>4. ProperSuffix(Parent(q), cur) /\ Len(q) = Len(Parent(q)) + 1
    BY <1>3, <1>4, <2>1, <2>2, <2>3 DEF ProperSuffix
  <2>5. Len(Parent(q)) <= Len(f)
    BY <1>5, <1>8, <2>2, <2>3, <2>4
  <2>6. Append(Parent(q), c) \in Nodes
    BY <2>2
  <2>7. Len(q) <= Len(f) + 1
    BY <1>4, <2>1, <2>3, <2>5
  <2> QED
    BY <2>3, <2>4, <2>6, <2>7
<1>9. CASE fc \in Nodes
  <2>1. l = fc
    BY <1>7, <1>9 DEF Child
  <2> HIDE DEF fc, l
  <2>2. \A q \in Nodes : ProperSuffix(q, nxt) => Len(q) <= Len(l)
    <3> TAKE q \in Nodes
    <3>1. CASE q = Root
      BY <1>4, <1>6, <2>1, <3>1 DEF Root
    <3>2. CASE q # Root
      BY <1>6, <1>8, <2>1, <3>2
    <3> QED
      BY <3>1, <3>2
  <2>3. IsLink(l, nxt, words)
    BY <1>6, <1>7, <1>9, <2>1, <2>2 DEF IsLink, ProperSuffix, Nodes
  <2> QED
    BY <1>1, <1>7, <1>9, <2>1, <2>3
<1>10. CASE fc \notin Nodes
  <2>1. f = Root
    BY <1>1, <1>10 DEF Stuck
  <2>2. l = Root
    BY <1>10 DEF Child
  <2>3. \A q \in Nodes : ProperSuffix(q, nxt) => q = Root
    <3> SUFFICES ASSUME NEW q \in Nodes, ProperSuffix(q, nxt), q # Root
                 PROVE  FALSE
      OBVIOUS
    <3>1. Parent(q) \in Nodes /\ Append(Parent(q), c) \in Nodes /\ Len(Parent(q)) <= Len(f)
      BY <1>8, <1>5
    <3>2. Len(f) = 0 /\ Len(Parent(q)) \in Nat
      BY <1>2, <2>1, <3>1, NodeSeq DEF Nodes
    <3>3. Parent(q) = f
      BY <1>2, <2>1, <3>1, <3>2, NodeSeq DEF Nodes
    <3> QED
      BY <1>10, <3>1, <3>3
  <2> HIDE DEF l
  <2>4. IsSuffix(Root, nxt) /\ Len(Root) = 0
    BY <1>4, RootIsSuffix
  <2>5. IsLink(l, nxt, words)
    BY <1>2, <1>3, <1>4, <2>2, <2>3, <2>4, RootIsNode DEF IsLink, ProperSuffix, Nodes
  <2>6. l \in Nodes /\ Len(l) <= Len(cur)
    BY <1>4, <2>2, <2>4, RootIsNode DEF Nodes
  <2> QED
    BY <1>1, <2>5, <2>6
<1> QED
  BY <1>9, <1>10

\* What max() returns.
LEMMA LargerIs ==
  ASSUME NEW a \in Nat, NEW b \in Nat
  PROVE  /\ Larger(a, b) \in Nat /\ a <= Larger(a, b) /\ b <= Larger(a, b)
         /\ Larger(a, b) = a \/ Larger(a, b) = b
BY DEF Larger

\* No step puts a length into out that no word has: in load() a node gets its
\* own word, then the longest at its link.
LEMMA OutSoundKept ==
  ASSUME LoadTyped, Levels, WalkRight, OutSound, [FilterNext]_filterVars PROVE OutSound'
<1>1. ASSUME NEW W \in Batches, LoadTrie(W)
      PROVE  OutSound'
  BY <1>1 DEF LoadTrie, OutSound
<1>2. ASSUME NEW W \in Batches, LoadWords(W)
      PROVE  OutSound'
  <2>1. WordSet(words') /\ words' = words \union W /\ impl = "ac"
    BY <1>2, BatchIsWordSet DEF LoadWords
  <2>2. SUFFICES ASSUME NEW p \in Nodes'
                 PROVE  Ends(out'[p], p, words') /\ (p \in words' => Len(p) <= out'[p])
    BY DEF OutSound
  <2>3. p \in Seq(Chars) /\ Len(p) \in Nat
    BY <2>1, NodeSeq DEF Nodes
  <2> DEFINE a == IF p \in Nodes THEN out[p] ELSE 0
             b == IF p \in W THEN Len(p) ELSE 0
  <2>4. out'[p] = Larger(a, b)
    BY <1>2 DEF LoadWords, Nodes
  <2>5. a \in Nat /\ b \in Nat
    BY <2>1, <2>3 DEF LoadTyped
  <2>6. Ends(a, p, words')
    <3>1. CASE p \in Nodes
      BY <2>1, <3>1, EndsGrow DEF OutSound
    <3>2. CASE p \notin Nodes
      BY <3>2 DEF Ends
    <3> QED
      BY <3>1, <3>2
  <2>7. Ends(b, p, words')
    BY <2>1, <2>3, SuffixSelf DEF Ends
  <2>8. p \in words => Len(p) <= a
    BY <2>1, WordIsNode DEF OutSound, LoadTyped, Nodes
  <2>9. p \in W => Len(p) <= b
    BY <2>3
  <2> HIDE DEF a, b
  <2>10. /\ Larger(a, b) \in Nat /\ a <= Larger(a, b) /\ b <= Larger(a, b)
         /\ Larger(a, b) = a \/ Larger(a, b) = b
    BY <2>5, LargerIs
  <2>11. Ends(out'[p], p, words')
    BY <2>4, <2>6, <2>7, <2>10
  <2>12. p \in words' => Len(p) <= out'[p]
    BY <2>1, <2>3, <2>4, <2>5, <2>8, <2>9, <2>10
  <2> QED
    BY <2>11, <2>12
<1>3. ASSUME NEW p \in Nodes, QueueFirst(p)
      PROVE  OutSound'
  BY <1>3 DEF QueueFirst, tables, OutSound, Nodes
<1>4. ASSUME NEW p \in Nodes, NextChild(p)
      PROVE  OutSound'
  BY <1>4 DEF NextChild, tables, OutSound, Nodes
<1>5. CASE PopLeft
  BY <1>5 DEF PopLeft, tables, OutSound, Nodes
<1>6. CASE FollowFail
  BY <1>6 DEF FollowFail, tables, OutSound, Nodes
<1>7. CASE Link
  <2>1. PICK l \in Nodes : /\ IsLink(l, nxt, words)
                           /\ out' = [out EXCEPT ![nxt] = Larger(out[nxt], out[l])]
    BY <1>7, LinkFound
  <2>2. /\ impl = "ac" /\ words' = words /\ Nodes' = Nodes /\ nxt \in Nodes
        /\ WordSet(words) /\ out \in [Nodes -> Nat]
    BY <1>7 DEF Link, LoadTyped, Nodes
  <2>3. /\ Larger(out[nxt], out[l]) \in Nat /\ out[nxt] <= Larger(out[nxt], out[l])
        /\ Larger(out[nxt], out[l]) = out[nxt] \/ Larger(out[nxt], out[l]) = out[l]
        /\ out[nxt] \in Nat
    BY <2>2, LargerIs
  <2>4. nxt \in Seq(Chars) /\ l \in Seq(Chars) /\ Len(nxt) \in Nat
    BY <2>2, NodeSeq DEF Nodes
  <2>5. Ends(out[nxt], nxt, words) /\ Ends(out[l], nxt, words)
    BY <2>1, <2>2, <2>4, EndsFurther DEF IsLink, ProperSuffix, OutSound
  <2>6. Ends(out'[nxt], nxt, words)
    BY <2>1, <2>2, <2>3, <2>5
  <2>7. nxt \in words => Len(nxt) <= out'[nxt]
    <3>1. nxt \in words => Len(nxt) <= out[nxt]
      BY <2>2 DEF OutSound
    <3>2. out'[nxt] = Larger(out[nxt], out[l])
      BY <2>1, <2>2
    <3> QED
      BY <2>3, <2>4, <3>1, <3>2
  <2>8. \A p \in Nodes : p # nxt => out'[p] = out[p]
    BY <2>1, <2>2
  <2> QED
    BY <2>2, <2>6, <2>7, <2>8 DEF OutSound
<1>8. CASE Loaded
  BY <1>8 DEF Loaded, tables, OutSound, Nodes
<1>9. CASE Elsewhere
  BY <1>9, ElsewhereNoLoad DEF OutSound, Nodes
<1> QED
  BY <1>1, <1>2, <1>3, <1>4, <1>5, <1>6, <1>7, <1>8, <1>9, Actions

\* The link and the word of a node of the first level.
LEMMA FirstLevelRight ==
  ASSUME NEW W, WordSet(W), NEW p \in NodesOf(W), Len(p) = 1, NEW n \in Nat,
         Ends(n, p, W), p \in W => Len(p) <= n
  PROVE  IsLink(Root, p, W) /\ IsOut(n, p, W)
<1>1. p \in Seq(Chars)
  BY NodeSeq
<1>2. IsSuffix(Root, p) /\ Len(Root) = 0
  BY <1>1, RootIsSuffix
<1>3. \A q \in NodesOf(W) : ProperSuffix(q, p) => Len(q) <= Len(Root)
  BY <1>2, NodeSeq DEF ProperSuffix
<1>4. IsLink(Root, p, W)
  BY <1>2, <1>3, RootIsNode DEF IsLink, ProperSuffix
<1>5. ASSUME NEW w \in W, IsSuffix(w, p)
      PROVE  Len(w) <= n
  <2>1. w \in Seq(Chars) /\ w # Root /\ w \in NodesOf(W)
    BY WordIsNode
  <2>2. Len(w) \in Nat \ {0} /\ Len(w) <= 1
    BY <1>5, <2>1, NodeSeq DEF IsSuffix
  <2>3. Len(w) = Len(p)
    BY <2>2
  <2>4. w = p
    BY <1>1, <1>5, <2>1, <2>3, SuffixSameLength
  <2> QED
    BY <2>4
<1> QED
  BY <1>4, <1>5 DEF IsOut

\* What waited before such a step still does: it is handed on, never dropped.
LEMMA StillWaits ==
  ASSUME LoadTyped, Levels, NEW p \in Nodes, Waits(p),
         PopLeft \/ \E q \in Nodes : QueueFirst(q) \/ NextChild(q)
  PROVE  Waits(p)'
<1>1. /\ WordSet(words) /\ Nodes = NodesOf(words) /\ cur \in Nodes /\ queue \in Seq(Nodes)
      /\ Len(cur) \in Nat /\ Len(p) \in Nat /\ Len(p) > 1
  BY NodeSeq DEF LoadTyped, Nodes, Waits
<1>2. CASE PopLeft
  <2>1. /\ queue # <<>> /\ nxt' = nxt /\ todo = {} /\ queue' = Tail(queue)
        /\ todo' = Children(queue[1], words) /\ nxt = Root
    BY <1>2, <1>1 DEF PopLeft
  <2>2. PICK n \in 1..Len(queue) : Len(queue[n]) < Len(p) /\ Prefix(p, Len(queue[n])) = queue[n]
    BY <2>1 DEF Waits
  <2>3. CASE n = 1
    <3>1. queue[1] \in Nodes
      BY <2>2, <2>3, <1>1
    <3> DEFINE q == Prefix(p, Len(queue[1]) + 1)
    <3>2. q \in todo' /\ Len(q) = Len(queue[1]) + 1
      BY <1>1, <2>1, <2>2, <2>3, <3>1, ChildOnWay
    <3>3. Len(queue[1]) \in Nat
      BY <1>1, <3>1, NodeSeq
    <3>4. Len(q) <= Len(p) /\ Prefix(p, Len(q)) = q
      <4>1. Prefix(p, Len(q)) = q
        BY <3>2
      <4> HIDE DEF q
      <4> QED
        BY <1>1, <2>2, <2>3, <3>2, <3>3, <4>1
    <3> HIDE DEF q
    <3> QED
      BY <1>1, <3>2, <3>4 DEF Waits
  <2>4. CASE n # 1
    <3>1. n - 1 \in 1..Len(queue') /\ queue'[n - 1] = queue[n]
      BY <1>1, <2>1, <2>2, <2>4
    <3> QED
      BY <1>1, <2>2, <3>1 DEF Waits
  <2> QED
    BY <2>3, <2>4
<1>3. ASSUME NEW q \in Nodes, QueueFirst(q) \/ NextChild(q)
      PROVE  Waits(p)'
  <2>1. /\ q \in todo /\ todo' = todo \ {q} /\ queue' = Append(queue, q)
        /\ (nxt' = nxt /\ cur = Root) \/ (nxt' = q /\ cur # Root /\ nxt = Root)
    BY <1>3 DEF QueueFirst, NextChild
  <2>2. q \in Children(cur, words)
    BY <2>1 DEF Levels
  <2>3. Len(q) = Len(cur) + 1 /\ q # Root /\ q \in Seq(Chars)
    BY <1>1, <2>2, ChildIs, NodeSeq
  <2>4. /\ \A n \in 1..Len(queue) : n \in 1..Len(queue') /\ queue'[n] = queue[n]
        /\ Len(queue') \in 1..Len(queue') /\ queue'[Len(queue')] = q
    BY <1>1, <2>1
  <2>5. CASE nxt # Root /\ p = nxt
    BY <1>1, <2>1, <2>5 DEF Waits
  <2>6. CASE \E n \in 1..Len(queue) : Len(queue[n]) < Len(p) /\ Prefix(p, Len(queue[n])) = queue[n]
    BY <1>1, <2>4, <2>6 DEF Waits
  <2>7. ASSUME NEW r \in todo, Len(r) <= Len(p), Prefix(p, Len(r)) = r, r # q
        PROVE  Waits(p)'
    BY <1>1, <2>1, <2>7 DEF Waits
  <2>8. CASE Len(q) <= Len(p) /\ Prefix(p, Len(q)) = q
    <3>1. CASE Len(q) < Len(p)
      BY <1>1, <2>4, <2>8, <3>1 DEF Waits
    <3>2. CASE Len(q) = Len(p)
      <4>1. p = q
        <5>1. p \in Seq(Chars)
          BY <1>1, NodeSeq
        <5>2. Len(p) \in 0..Len(p)
          BY <1>1
        <5>3. \A k \in 1..Len(p) : q[k] = p[k]
          BY <2>8, <3>2, <5>1, <5>2, PrefixOf DEF Prefix
        <5> QED
          BY <2>3, <3>2, <5>1, <5>3
      <4>2. cur # Root
        BY <1>1, <2>3, <3>2, RootIsSeq
      <4> QED
        BY <1>1, <2>1, <2>3, <4>1, <4>2 DEF Waits
    <3> QED
      BY <1>1, <2>3, <2>8, <3>1, <3>2
  <2> QED
    BY <2>5, <2>6, <2>7, <2>8 DEF Waits
<1> QED
  BY <1>2, <1>3

\* The longest word at the node at hand: itself, or the longest at its link.
LEMMA OutFound ==
  ASSUME LoadTyped, Levels, OutSound, LinksRight, impl = "ac", nxt # Root,
         NEW l \in Nodes, IsLink(l, nxt, words), Len(l) <= Len(cur)
  PROVE  IsOut(Larger(out[nxt], out[l]), nxt, words)
<1> DEFINE n == Larger(out[nxt], out[l])
<1>1. /\ WordSet(words) /\ nxt \in NodesOf(words) /\ l \in NodesOf(words)
      /\ out[nxt] \in Nat /\ out[l] \in Nat
      /\ nxt \in Seq(Chars) /\ l \in Seq(Chars) /\ Len(l) \in Nat /\ Len(nxt) \in Nat
  BY NodeSeq DEF LoadTyped, Nodes
<1>2. n \in Nat /\ out[nxt] <= n /\ out[l] <= n /\ (n = out[nxt] \/ n = out[l])
  BY <1>1, LargerIs
<1>3. Ends(n, nxt, words)
  <2>1. Ends(out[nxt], nxt, words) /\ Ends(out[l], l, words)
    BY DEF OutSound, LoadTyped
  <2>2. Ends(out[l], nxt, words)
    BY <1>1, <2>1, EndsFurther DEF IsLink, ProperSuffix
  <2> HIDE DEF n
  <2> QED
    BY <1>2, <2>1, <2>2
<1> HIDE DEF n
<1>4. ASSUME NEW w \in words, IsSuffix(w, nxt)
      PROVE  Len(w) <= n
  <2>1. w \in Nodes /\ w \in Seq(Chars) /\ Len(w) \in Nat \ {0} /\ Len(w) <= Len(nxt)
    BY <1>1, <1>4, WordIsNode, NodeSeq DEF IsSuffix, Nodes
  <2>2. CASE Len(w) = Len(nxt)
    <3>1. w = nxt
      BY <1>1, <1>4, <2>1, <2>2, SuffixSameLength
    <3>2. Len(w) <= out[nxt]
      BY <3>1 DEF OutSound, LoadTyped
    <3> QED
      BY <1>1, <1>2, <2>1, <3>2
  <2>3. CASE Len(w) < Len(nxt)
    <3>1. Len(w) <= Len(l)
      BY <1>4, <2>1, <2>3 DEF IsLink, ProperSuffix, Nodes
    <3>2. IsSuffix(w, l)
      BY <1>1, <1>4, <2>1, <3>1, SuffixOfLonger DEF IsLink, ProperSuffix
    <3>3. l # Root /\ ~Waits(l)
      <4>1. l # Root
        BY <1>1, <2>1, <3>1, NodeSeq
      <4>2. Len(cur) \in Nat
        BY NodeSeq DEF LoadTyped, Nodes
      <4>3. ~(Len(cur) < Len(l))
        BY <1>1, <4>2
      <4> QED
        BY <4>1, <4>3, WaitersAreLonger
    <3>4. Len(w) <= out[l]
      BY <3>2, <3>3 DEF LinksRight, IsOut
    <3> QED
      BY <1>1, <1>2, <2>1, <3>4
  <2> QED
    BY <1>1, <2>1, <2>2, <2>3
<1>5. IsOut(n, nxt, words)
  BY <1>2, <1>3, <1>4 DEF IsOut
<1> QED
  BY <1>5 DEF n

\* No step spoils a link that is right: a load makes all nodes wait that may
\* get another one, and Link is right by what the walk passed over.
LEMMA LinksRightKept ==
  ASSUME LoadTyped, LoadTyped', Levels, Levels', FirstLevel, FirstLevel', OutSound, OutSound',
         LinksRight, WalkRight, [FilterNext]_filterVars
  PROVE  LinksRight'
<1>1. ASSUME NEW W \in Batches, LoadTrie(W)
      PROVE  LinksRight'
  BY <1>1 DEF LoadTrie, LinksRight
<1>2. ASSUME NEW W \in Batches, LoadWords(W)
      PROVE  LinksRight'
  <2>1. /\ WordSet(words') /\ impl' = "ac" /\ todo' = Children(Root, words')
        /\ out' \in [NodesOf(words') -> Nat]
    BY <1>2 DEF LoadWords, LoadTyped, Nodes
  <2>2. ASSUME NEW p \in NodesOf(words'), p # Root, ~Waits(p)'
        PROVE  IsLink(fail'[p], p, words') /\ IsOut(out'[p], p, words')
    <3>1. Len(p) \in Nat /\ Len(p) # 0 /\ Len(Root) = 0
      BY <2>1, <2>2, NodeSeq, RootIsSeq
    <3>2. CASE Len(p) > 1
      <4>1. Prefix(p, Len(Root)) = Root
        <5>1. 0 \in 0..Len(p)
          BY <3>1
        <5>2. Prefix(p, 0) \in NodesOf(words') /\ Len(Prefix(p, 0)) = 0
          BY <2>1, <5>1, PrefixIsNode
        <5> QED
          BY <2>1, <3>1, <5>2, NodeSeq
      <4> DEFINE q == Prefix(p, Len(Root) + 1)
      <4>2. q \in Children(Root, words') /\ Len(q) = Len(Root) + 1
        <5>1. Root \in NodesOf(words') /\ Len(Root) < Len(p)
          BY <3>1, <3>2, RootIsNode
        <5> QED
          BY <2>1, <4>1, <5>1, ChildOnWay
      <4>3. Len(q) <= Len(p) /\ Prefix(p, Len(q)) = q
        <5>1. Prefix(p, Len(q)) = q
          BY <4>2
        <5> HIDE DEF q
        <5> QED
          BY <3>1, <4>2, <5>1
      <4> HIDE DEF q
      <4> QED
        BY <2>1, <2>2, <3>2, <4>2, <4>3 DEF Waits
    <3>3. CASE Len(p) = 1
      <4>1. fail'[p] = Root
        <5>1. Len(p) <= 1
          BY <3>3
        <5> QED
          BY <2>1, <5>1 DEF FirstLevel, Nodes
      <4>2. /\ out'[p] \in Nat /\ Ends(out'[p], p, words')
            /\ p \in words' => Len(p) <= out'[p]
        BY <2>1 DEF OutSound, Nodes
      <4> QED
        BY <2>1, <3>3, <4>1, <4>2, FirstLevelRight
    <3>4. Len(p) > 1 \/ Len(p) = 1
      <4> DEFINE n == Len(p)
      <4>1. n \in Nat /\ n # 0
        BY <3>1
      <4> HIDE DEF n
      <4>2. n > 1 \/ n = 1
        BY <4>1
      <4> QED
        BY <4>2 DEF n
    <3> QED
      BY <3>2, <3>3, <3>4
  <2> QED
    BY <2>2 DEF LinksRight, Nodes
<1>3. CASE PopLeft \/ \E q \in Nodes : QueueFirst(q) \/ NextChild(q)
  <2>1. UNCHANGED <<impl, words, fail, out>>
    BY <1>3 DEF PopLeft, QueueFirst, NextChild, tables
  <2>2. \A p \in Nodes : Waits(p) => Waits(p)'
    BY <1>3, StillWaits
  <2> QED
    BY <2>1, <2>2 DEF LinksRight, Nodes
<1>4. CASE FollowFail
  BY <1>4 DEF FollowFail, tables, LinksRight, Waits, Nodes
<1>5. CASE Link
  <2>1. PICK l \in Nodes : /\ IsLink(l, nxt, words) /\ Len(l) <= Len(cur)
                           /\ fail' = [fail EXCEPT ![nxt] = l]
                           /\ out' = [out EXCEPT ![nxt] = Larger(out[nxt], out[l])]
    BY <1>5, LinkFound
  <2>2. /\ impl = "ac" /\ UNCHANGED <<impl, words, queue, todo>> /\ Nodes' = Nodes
        /\ nxt \in Nodes /\ nxt # Root
        /\ fail \in [Nodes -> Nodes] /\ out \in [Nodes -> Nat]
    BY <1>5 DEF Link, LoadTyped, Nodes
  <2>3. IsOut(Larger(out[nxt], out[l]), nxt, words)
    BY <2>1, <2>2, OutFound
  <2>4. fail'[nxt] = l /\ out'[nxt] = Larger(out[nxt], out[l])
    BY <2>1, <2>2
  <2>5. ASSUME NEW p \in Nodes, p # Root, p # nxt, ~Waits(p)'
        PROVE  IsLink(fail'[p], p, words) /\ IsOut(out'[p], p, words)
    <3>1. ~Waits(p)
      BY <2>2, <2>5 DEF Waits
    <3>2. fail'[p] = fail[p] /\ out'[p] = out[p]
      BY <2>1, <2>2, <2>5
    <3> QED
      BY <2>2, <2>5, <3>1, <3>2 DEF LinksRight
  <2> QED
    BY <2>1, <2>2, <2>3, <2>4, <2>5 DEF LinksRight
<1>6. CASE Loaded
  <2>1. \A p \in Nodes : ~Waits(p)
    BY <1>6 DEF Loaded, Waits, LoadTyped
  <2> QED
    BY <1>6, <2>1 DEF Loaded, tables, LinksRight, Nodes
<1>7. CASE Elsewhere
  BY <1>7, ElsewhereNoLoad DEF LinksRight, Waits, Nodes
<1> QED
  BY <1>1, <1>2, <1>3, <1>4, <1>5, <1>6, <1>7, Actions

\* The links are right of all nodes the walk can come to.
LEMMA ShorterIsRight ==
  ASSUME LoadTyped, Levels, LinksRight, impl = "ac",
         NEW p \in Nodes, p # Root, Len(p) <= Len(cur)
  PROVE  IsLink(fail[p], p, words) /\ fail[p] \in Nodes
<1>1. Len(p) \in Nat /\ Len(cur) \in Nat
  BY NodeSeq DEF LoadTyped, Nodes
<1>2. ~(Len(cur) < Len(p))
  BY <1>1
<1>3. ~Waits(p)
  BY <1>2, WaitersAreLonger
<1> QED
  BY <1>3 DEF LinksRight, LoadTyped

\* One step along a link passes by no end that has the child c.
LEMMA WalkOn ==
  ASSUME NEW W, WordSet(W), NEW g \in NodesOf(W), NEW s \in Seq(Chars), NEW c,
         IsSuffix(g, s), Append(g, c) \notin NodesOf(W), NEW l, IsLink(l, g, W)
  PROVE  /\ IsSuffix(l, s) /\ Len(l) < Len(g)
         /\ \A q \in NodesOf(W) :
              IsSuffix(q, s) /\ Append(q, c) \in NodesOf(W) /\ Len(q) <= Len(g) => Len(q) <= Len(l)
<1>1. g \in Seq(Chars) /\ Len(g) \in Nat /\ l \in Seq(Chars) /\ Len(l) \in Nat
  BY NodeSeq DEF IsLink
<1>2. IsSuffix(l, s) /\ Len(l) < Len(g)
  BY <1>1, SuffixTrans DEF IsLink, ProperSuffix
<1>3. ASSUME NEW q \in NodesOf(W), IsSuffix(q, s), Append(q, c) \in NodesOf(W), Len(q) <= Len(g)
      PROVE  Len(q) <= Len(l)
  <2>1. q \in Seq(Chars) /\ Len(q) \in Nat
    BY <1>3, NodeSeq
  <2>2. IsSuffix(q, g)
    BY <1>1, <1>3, <2>1, SuffixOfLonger
  <2>3. Len(q) # Len(g)
    BY <1>1, <1>3, <2>1, <2>2, SuffixSameLength
  <2> QED
    BY <1>1, <1>3, <2>1, <2>2, <2>3 DEF IsLink, ProperSuffix
<1> QED
  BY <1>2, <1>3

\* The walk over the links passes by no node that has the child it looks for.
LEMMA WalkRightKept ==
  ASSUME LoadTyped, Levels, LinksRight, WalkRight, [FilterNext]_filterVars
  PROVE  WalkRight'
<1>1. ASSUME NEW W \in Batches, LoadTrie(W) \/ LoadWords(W)
      PROVE  WalkRight'
  BY <1>1 DEF LoadTrie, LoadWords, bfs, WalkRight, LoadTyped
<1>2. ASSUME NEW p \in Nodes, QueueFirst(p)
      PROVE  WalkRight'
  BY <1>2 DEF QueueFirst, tables, WalkRight, Nodes
<1>3. ASSUME NEW p \in Nodes, NextChild(p)
      PROVE  WalkRight'
  <2>1. cur # Root /\ cur \in Nodes /\ impl = "ac" /\ f' = fail[cur] /\ UNCHANGED <<cur, words>>
    BY <1>3 DEF NextChild, tables, LoadTyped
  <2>2. Len(cur) \in Nat
    BY <2>1, NodeSeq DEF LoadTyped, Nodes
  <2>3. IsLink(fail[cur], cur, words)
    BY <2>1, <2>2, ShorterIsRight
  <2> QED
    BY <2>1, <2>3 DEF WalkRight, IsLink, Nodes
<1>4. CASE PopLeft
  BY <1>4 DEF PopLeft, tables, WalkRight, Nodes
<1>5. CASE FollowFail
  <2> DEFINE c == nxt[Len(nxt)]
  <2>1. /\ impl = "ac" /\ nxt # Root /\ Stuck(f, c) /\ f' = fail[f]
        /\ UNCHANGED <<cur, nxt, words>> /\ f \in Nodes /\ cur \in Nodes
    BY <1>5 DEF FollowFail, tables, LoadTyped
  <2>2. /\ IsSuffix(f, cur) /\ Len(f) < Len(cur)
        /\ \A q \in Nodes : ProperSuffix(q, cur) /\ Append(q, c) \in Nodes => Len(q) <= Len(f)
    BY <2>1 DEF WalkRight, ProperSuffix
  <2>3. /\ WordSet(words) /\ cur \in Seq(Chars) /\ Len(cur) \in Nat /\ Len(f) \in Nat
    BY <2>1, NodeSeq DEF LoadTyped, Nodes
  <2>4. f # Root /\ Append(f, c) \notin Nodes
    BY <2>1 DEF Stuck
  <2>5. IsLink(fail[f], f, words) /\ fail[f] \in Nodes
    BY <2>1, <2>2, <2>3, <2>4, ShorterIsRight
  <2> HIDE DEF c
  <2>6. /\ IsSuffix(fail[f], cur) /\ Len(fail[f]) < Len(f)
        /\ \A q \in Nodes :
             IsSuffix(q, cur) /\ Append(q, c) \in Nodes /\ Len(q) <= Len(f)
             => Len(q) <= Len(fail[f])
    BY <2>1, <2>2, <2>3, <2>4, <2>5, WalkOn DEF Nodes
  <2>7. Len(fail[f]) \in Nat
    BY <2>3, <2>5, NodeSeq DEF Nodes
  <2>8. ProperSuffix(f', cur')
    BY <2>1, <2>2, <2>3, <2>6, <2>7 DEF ProperSuffix
  <2>9. \A q \in Nodes : ProperSuffix(q, cur) /\ Append(q, c) \in Nodes => Len(q) <= Len(f')
    BY <2>1, <2>2, <2>6 DEF ProperSuffix
  <2> QED
    BY <2>1, <2>8, <2>9 DEF WalkRight, Nodes, c
<1>6. CASE Link
  BY <1>6 DEF Link, WalkRight
<1>7. CASE Loaded
  BY <1>7 DEF Loaded, tables, WalkRight
<1>8. CASE Elsewhere
  BY <1>8, ElsewhereNoLoad DEF WalkRight, Nodes
<1> QED
  BY <1>1, <1>2, <1>3, <1>4, <1>5, <1>6, <1>7, <1>8, Actions

\* load() keeps its tables right but for the nodes that still wait for their
\* link, also when words are loaded a second time (sensitive.py:135-166).
THEOREM LoadingInvariance == FilterSpec => []Loading
<1>1. FilterInit => Loading
  <2> SUFFICES ASSUME FilterInit
               PROVE  Loading
    OBVIOUS
  <2> USE DEF FilterInit
  <2>1. Nodes = {Root}
    BY NodeIs DEF Nodes
  <2>2. /\ impl \in {"dfa", "ac"} /\ phase = "idle" /\ words = {} /\ queue = <<>> /\ todo = {}
        /\ cur = Root /\ nxt = Root /\ f = Root
        /\ fail \in [Nodes -> Nodes] /\ out \in [Nodes -> Nat] /\ fail[Root] = Root /\ out[Root] = 0
    BY <2>1
  <2>3. LoadTyped
    BY <2>1, <2>2 DEF LoadTyped, Phases, WordSet
  <2>4. Levels
    BY <2>2 DEF Levels
  <2>5. FirstLevel /\ OutSound /\ LinksRight /\ WalkRight
    BY <2>1, <2>2 DEF FirstLevel, OutSound, LinksRight, WalkRight, Ends
  <2> QED
    BY <2>3, <2>4, <2>5 DEF Loading
<1>2. Loading /\ [FilterNext]_filterVars => Loading'
  BY LoadTypedKept, LevelsKept, FirstLevelKept, OutSoundKept, LinksRightKept, WalkRightKept
     DEF Loading
<1> QED
  BY <1>1, <1>2, PTL DEF FilterSpec

-----------------------------------------------------------------------------
\* Pieces of a sequence.

\* The elements of a sequence from m to n.
LEMMA PieceOf ==
  ASSUME NEW S, NEW s \in Seq(S), NEW m \in Nat \ {0}, NEW n \in Nat, n <= Len(s), m <= n + 1
  PROVE  /\ SubSeq(s, m, n) \in Seq(S) /\ Len(SubSeq(s, m, n)) = n - m + 1
         /\ \A k \in 1..(n - m + 1) : SubSeq(s, m, n)[k] = s[m + k - 1]
<1>1. Len(s) \in Nat /\ m \in Int /\ n \in Int /\ n - m + 1 >= 0
  OBVIOUS
<1>2. \A k \in m..n : s[k] \in S
  BY <1>1
<1> DEFINE r == SubSeq(s, m, n)
<1>3. /\ r \in Seq(S) /\ Len(r) = (IF m <= n THEN n - m + 1 ELSE 0)
      /\ \A k \in 1..(n - m + 1) : r[k] = s[m + k - 1]
  BY <1>1, <1>2, SubSeqProperties
<1> HIDE DEF r
<1>4. r \in Seq(S) /\ Len(r) = n - m + 1
  BY <1>1, <1>3
<1> QED
  BY <1>3, <1>4 DEF r

\* A piece that ends at n is an end of what goes up to n, and the other way.
LEMMA PieceIsSuffix ==
  ASSUME NEW S, NEW s \in Seq(S), NEW n \in 1..Len(s), NEW m \in 1..n
  PROVE  /\ SubSeq(s, m, n) \in Seq(S) /\ Len(SubSeq(s, m, n)) = n - m + 1
         /\ IsSuffix(SubSeq(s, m, n), Prefix(s, n))
<1> DEFINE r == SubSeq(s, m, n)
           p == Prefix(s, n)
<1>1. n \in Nat /\ n <= Len(s) /\ m \in Nat \ {0} /\ m <= n /\ n \in 0..Len(s) /\ m <= n + 1
  OBVIOUS
<1>2. r \in Seq(S) /\ Len(r) = n - m + 1 /\ \A k \in 1..(n - m + 1) : r[k] = s[m + k - 1]
  BY <1>1, PieceOf
<1>3. Len(p) = n /\ \A k \in 1..n : p[k] = s[k]
  BY <1>1, PrefixOf DEF Prefix
<1> HIDE DEF r, p
<1>4. ASSUME NEW k \in 1..Len(r)
      PROVE  r[k] = p[Len(p) - Len(r) + k]
  <2>1. r[k] = s[m + k - 1]
    BY <1>2
  <2>2. Len(p) - Len(r) + k = m + k - 1 /\ m + k - 1 \in 1..n
    BY <1>1, <1>2, <1>3
  <2> QED
    BY <1>3, <2>1, <2>2
<1>5. Len(r) <= Len(p)
  BY <1>1, <1>2, <1>3
<1>6. IsSuffix(r, p)
  BY <1>4, <1>5 DEF IsSuffix
<1> QED
  BY <1>2, <1>6 DEF r, p

\* ... and what ends the first n elements is such a piece.
LEMMA SuffixIsPiece ==
  ASSUME NEW S, NEW s \in Seq(S), NEW n \in 1..Len(s), NEW w \in Seq(S), Len(w) # 0,
         IsSuffix(w, Prefix(s, n))
  PROVE  n - Len(w) + 1 \in 1..n /\ SubSeq(s, n - Len(w) + 1, n) = w
<1> DEFINE p == Prefix(s, n)
           m == n - Len(w) + 1
<1>1. n \in Nat /\ n <= Len(s) /\ n \in 0..Len(s)
  OBVIOUS
<1>2. Len(p) = n /\ \A k \in 1..n : p[k] = s[k]
  BY <1>1, PrefixOf DEF Prefix
<1>3. Len(w) \in Nat \ {0} /\ Len(w) <= n /\ \A k \in 1..Len(w) : w[k] = p[n - Len(w) + k]
  BY <1>2 DEF IsSuffix
<1>4. m \in 1..n /\ m \in Nat \ {0} /\ m <= n + 1 /\ n - m + 1 = Len(w)
  BY <1>1, <1>3
<1> DEFINE r == SubSeq(s, m, n)
<1>5. r \in Seq(S) /\ Len(r) = n - m + 1 /\ \A k \in 1..(n - m + 1) : r[k] = s[m + k - 1]
  <2> HIDE DEF m, p
  <2> QED
    BY <1>1, <1>4, PieceOf
<1>6. m = n - Len(w) + 1
  OBVIOUS
<1> HIDE DEF p, r, m
<1>7. \A k \in 1..Len(w) : r[k] = w[k]
  <2> TAKE k \in 1..Len(w)
  <2>1. r[k] = s[m + k - 1] /\ w[k] = p[n - Len(w) + k]
    BY <1>3, <1>4, <1>5
  <2>2. m + k - 1 = n - Len(w) + k /\ n - Len(w) + k \in 1..n
    BY <1>1, <1>3, <1>6
  <2> QED
    BY <1>2, <2>1, <2>2
<1>8. Len(r) = Len(w)
  BY <1>4, <1>5
<1>9. r = w
  BY <1>5, <1>7, <1>8
<1> QED
  BY <1>4, <1>9 DEF r, m

\* The first n elements are the first n - 1 and one more.
LEMMA PrefixNext ==
  ASSUME NEW S, NEW s \in Seq(S), NEW n \in 1..Len(s)
  PROVE  Prefix(s, n - 1) \in Seq(S) /\ s[n] \in S /\ Prefix(s, n) = Append(Prefix(s, n - 1), s[n])
<1> DEFINE p == Prefix(s, n - 1)
           r == Prefix(s, n)
           t == Append(p, s[n])
<1>1. n \in Nat \ {0} /\ n <= Len(s) /\ n \in 0..Len(s) /\ n - 1 \in 0..Len(s) /\ s[n] \in S
  OBVIOUS
<1>2. p \in Seq(S) /\ Len(p) = n - 1 /\ \A k \in 1..(n - 1) : p[k] = s[k]
  BY <1>1, PrefixOf DEF Prefix
<1>3. r \in Seq(S) /\ Len(r) = n /\ \A k \in 1..n : r[k] = s[k]
  BY <1>1, PrefixOf DEF Prefix
<1> HIDE DEF p
<1>4. /\ t \in Seq(S) /\ Len(t) = Len(p) + 1 /\ \A k \in 1..Len(p) : t[k] = p[k]
      /\ t[Len(p) + 1] = s[n]
  BY <1>1, <1>2, Appended
<1> HIDE DEF r, t
<1>5. \A k \in 1..n : r[k] = t[k]
  <2> TAKE k \in 1..n
  <2>1. CASE k = n
    BY <1>1, <1>2, <1>3, <1>4, <2>1
  <2>2. CASE k # n
    <3>1. k \in 1..(n - 1)
      BY <1>1, <2>2
    <3> QED
      BY <1>2, <1>3, <1>4, <3>1
  <2> QED
    BY <2>1, <2>2
<1>6. r = t
  BY <1>1, <1>2, <1>3, <1>4, <1>5
<1> QED
  BY <1>1, <1>2, <1>6 DEF p, r, t

\* A set of numbers that is not empty has a least one.
LEMMA LeastExists ==
  ASSUME NEW S \in SUBSET Nat, S # {}
  PROVE  \E m \in S : \A x \in S : m <= x
<1>1. PICK m \in S : \A x \in S : ~(<<x, m>> \in OpToRel(<, Nat))
  BY WFMin, NatLessThanWellFounded
<1>2. \A x \in S : ~(x < m)
  BY <1>1 DEF OpToRel
<1> QED
  BY <1>2

\* Longest chooses the greatest end.
LEMMA LongestIs ==
  ASSUME NEW n \in Nat, NEW S \in SUBSET (1..n), S # {}
  PROVE  Longest(S) \in S /\ \A x \in S : x <= Longest(S)
<1> DEFINE Distance == {n - x : x \in S}
<1>1. Distance \in SUBSET Nat /\ Distance # {}
  <2>1. \A x \in S : n - x \in Nat
    OBVIOUS
  <2>2. Distance \subseteq Nat
    BY <2>1
  <2> QED
    BY <2>2
<1>2. PICK d \in Distance : \A e \in Distance : d <= e
  <2> HIDE DEF Distance
  <2> QED
    BY <1>1, LeastExists
<1>3. PICK m \in S : d = n - m
  OBVIOUS
<1>4. \A x \in S : x <= m
  BY <1>2, <1>3
<1> QED
  BY <1>4 DEF Longest

-----------------------------------------------------------------------------
\* One step of the automaton.

\* Outside of load() all links are right.
LEMMA AllLinksRight ==
  ASSUME Loading, impl = "ac", phase # "load", NEW p \in Nodes, p # Root
  PROVE  IsLink(fail[p], p, words) /\ IsOut(out[p], p, words)
<1>1. ~Waits(p)
  BY DEF Waits, Loading, LoadTyped
<1> QED
  BY <1>1 DEF Loading, LinksRight

\* The next state: the longest end of what has been read then, and the longest
\* word that ends there.
LEMMA NextState ==
  ASSUME Loading, FilterTyped, StateRight, phase = "scan", impl = "ac", i <= Len(lower),
         ~Stuck(node, lower[i])
  PROVE  LET next == Child(node, lower[i])
             read == Prefix(lower, i)
         IN  /\ next \in Nodes /\ IsSuffix(next, read)
             /\ \A q \in Nodes : IsSuffix(q, read) => Len(q) <= Len(next)
             /\ IsOut(out[next], read, words)
<1> DEFINE c == lower[i]
           next == Child(node, c)
           read == Prefix(lower, i)
           nc == Append(node, c)
<1>1. /\ WordSet(words) /\ node \in NodesOf(words) /\ lower \in Seq(Chars) /\ i \in 1..Len(lower)
      /\ out \in [Nodes -> Nat]
  BY DEF Loading, LoadTyped, FilterTyped, Nodes
<1>2. /\ IsSuffix(node, Before)
      /\ \A q \in Nodes : IsSuffix(q, Before) /\ Append(q, c) \in Nodes => Len(q) <= Len(node)
  BY DEF StateRight
<1>3. Before \in Seq(Chars) /\ c \in Chars /\ read = Append(Before, c)
  BY <1>1, PrefixNext DEF Before
<1>4. node \in Seq(Chars) /\ Len(node) \in Nat /\ Root \in NodesOf(words)
  BY <1>1, NodeSeq, RootIsNode
<1>5. node = Root \/ nc \in Nodes
  BY DEF Stuck
<1> HIDE DEF c, read
<1>6. read \in Seq(Chars)
  BY <1>3, Appended
<1>7. nc \in Seq(Chars) /\ Len(nc) = Len(node) + 1 /\ IsSuffix(nc, read)
  BY <1>2, <1>3, <1>4, Appended, SuffixGrows
<1>8. ASSUME NEW q \in Nodes, IsSuffix(q, read), q # Root
      PROVE  /\ Parent(q) \in Nodes /\ Append(Parent(q), c) \in Nodes
             /\ Len(Parent(q)) <= Len(node) /\ Len(q) = Len(Parent(q)) + 1
             /\ Len(Parent(q)) \in Nat
  <2>1. q \in Seq(Chars) /\ q # <<>> /\ Len(q) \in Nat
    BY <1>1, <1>8, NodeSeq DEF Nodes, Root
  <2>2. q = Append(Parent(q), c) /\ IsSuffix(Parent(q), Before)
    BY <1>3, <1>8, <2>1, SuffixOfAppended
  <2>3. Parent(q) \in Nodes /\ Len(Parent(q)) = Len(q) - 1
    BY <1>1, <1>8, ParentIsNode DEF Nodes
  <2>4. Len(Parent(q)) \in Nat
    BY <1>1, <2>3, NodeSeq DEF Nodes
  <2>5. Append(Parent(q), c) \in Nodes /\ Len(Parent(q)) <= Len(node)
    BY <1>2, <1>8, <2>2, <2>3
  <2> QED
    BY <2>1, <2>3, <2>4, <2>5
<1>9. /\ next \in Nodes /\ IsSuffix(next, read)
      /\ \A q \in Nodes : IsSuffix(q, read) => Len(q) <= Len(next)
  <2>1. CASE nc \in Nodes
    <3>1. next = nc
      BY <2>1 DEF Child
    <3> HIDE DEF next, nc
    <3>2. ASSUME NEW q \in Nodes, IsSuffix(q, read)
          PROVE  Len(q) <= Len(next)
      <4>1. CASE q = Root
        BY <1>4, <1>7, <3>1, <4>1, RootIsSeq
      <4>2. CASE q # Root
        BY <1>4, <1>7, <1>8, <3>1, <3>2, <4>2
      <4> QED
        BY <4>1, <4>2
    <3> QED
      BY <1>7, <2>1, <3>1, <3>2
  <2>2. CASE nc \notin Nodes
    <3>1. next = Root /\ node = Root
      BY <1>5, <2>2 DEF Child
    <3> HIDE DEF next
    <3>2. ASSUME NEW q \in Nodes, IsSuffix(q, read), q # Root
          PROVE  FALSE
      <4>1. Append(Parent(q), c) \in Nodes /\ Parent(q) \in Nodes
        BY <1>8, <3>2
      <4>2. Len(Parent(q)) <= Len(Root) /\ Len(Parent(q)) \in Nat /\ Len(Root) = 0
        BY <1>8, <3>1, <3>2, RootIsSeq
      <4>3. Parent(q) = Root
        BY <1>1, <4>1, <4>2, NodeSeq DEF Nodes
      <4> QED
        BY <2>2, <3>1, <4>1, <4>3
    <3>3. IsSuffix(Root, read) /\ Len(Root) = 0
      BY <1>6, RootIsSuffix
    <3> QED
      BY <1>4, <3>1, <3>2, <3>3 DEF Nodes
  <2> QED
    BY <2>1, <2>2
<1> HIDE DEF next
<1>10. next \in Seq(Chars) /\ Len(next) \in Nat
  BY <1>1, <1>9, NodeSeq DEF Nodes
<1>11. Ends(out[next], read, words)
  <2>1. Ends(out[next], next, words)
    BY <1>9 DEF Loading, OutSound
  <2> QED
    BY <1>1, <1>6, <1>9, <1>10, <2>1, EndsFurther
<1>12. ASSUME NEW w \in words, IsSuffix(w, read)
       PROVE  Len(w) <= out[next]
  <2>1. w \in Nodes /\ w # Root /\ w \in Seq(Chars) /\ Len(w) \in Nat \ {0}
    BY <1>1, WordIsNode, NodeSeq DEF Nodes
  <2>2. Len(w) <= Len(next)
    BY <1>9, <1>12, <2>1
  <2>3. IsSuffix(w, next)
    BY <1>6, <1>9, <1>10, <1>12, <2>1, <2>2, SuffixOfLonger
  <2>4. next # Root
    BY <1>10, <2>1, <2>2, RootIsSeq
  <2> QED
    BY <1>9, <2>3, <2>4, AllLinksRight DEF IsOut
<1>13. IsOut(out[next], read, words)
  BY <1>1, <1>9, <1>11, <1>12 DEF IsOut
<1> QED
  BY <1>9, <1>13 DEF next, read, c

-----------------------------------------------------------------------------
\* The steps of filter(), and those of load() as it sees them.

LoadMove == /\ phase \in {"idle", "load"} /\ phase' \in {"idle", "load"}
            /\ UNCHANGED <<impl, i, text, lower, node, hits, merged, answer, prev>>

\* All that only a load changes.
Fixed == UNCHANGED <<impl, words, fail, out, queue, cur, todo, nxt, f>>
FilterMoves ==
  \/ LoadMove
  \/ /\ Fixed
     /\ \/ \E c \in Letters : Type(c)
        \/ Call \/ DFAStep \/ FallBack \/ ACStep \/ Scanned
        \/ Merge \/ Merged \/ Replace \/ Rest \/ Return \/ UNCHANGED filterVars

\* A step is one of load(), which changes nothing of filter(), or one of those
\* of filter(), which change nothing of load().
LEMMA FilterMovesAre == ASSUME [FilterNext]_filterVars PROVE FilterMoves
<1>1. ASSUME NEW W \in Batches, LoadTrie(W) \/ LoadWords(W)
      PROVE  LoadMove
  BY <1>1 DEF LoadTrie, LoadWords, LoadMove, input, scan, result
<1>2. ASSUME LoadStep
      PROVE  LoadMove
  <2>1. ASSUME NEW p \in Nodes, QueueFirst(p) \/ NextChild(p)
        PROVE  LoadMove
    BY <2>1 DEF QueueFirst, NextChild, LoadMove, input, scan, result
  <2>2. ASSUME PopLeft \/ FollowFail \/ Link \/ Loaded
        PROVE  LoadMove
    BY <2>2 DEF PopLeft, FollowFail, Link, Loaded, LoadMove, input, scan, result
  <2> QED
    BY <1>2, <2>1, <2>2 DEF LoadStep
<1>3. ASSUME NEW c \in Letters, Type(c)
      PROVE  Fixed
  BY <1>3 DEF Type, Fixed, tables, bfs
<1>4. Call => Fixed
  BY DEF Call, Fixed, tables, bfs
<1>5. DFAStep \/ FallBack \/ ACStep \/ Scanned => Fixed
  BY DEF DFAStep, FallBack, ACStep, Scanned, Fixed, tables, bfs
<1>6. Merge \/ Merged \/ Replace \/ Rest \/ Return => Fixed
  BY DEF Merge, Merged, Replace, Rest, Return, Fixed, tables, bfs
<1>7. UNCHANGED filterVars => Fixed
  BY DEF filterVars, Fixed, tables, bfs
<1> QED
  BY <1>1, <1>2, <1>3, <1>4, <1>5, <1>6, <1>7 DEF FilterNext, ScanStep, ReplaceStep, FilterMoves

\* An occurrence is a piece of the text that is a word.
LEMMA OccurrenceIs ==
  ASSUME NEW x \in Occurrences
  PROVE  /\ x[1] \in 1..Len(lower) /\ x[2] \in 1..Len(lower) /\ x[1] <= x[2]
         /\ SubSeq(lower, x[1], x[2]) \in words /\ x = <<x[1], x[2]>> /\ x \in Span
BY DEF Occurrences, Span

\* ... and a piece that is a word is an occurrence.
LEMMA IsOccurrence ==
  ASSUME NEW a \in 1..Len(lower), NEW b \in 1..Len(lower), a <= b, SubSeq(lower, a, b) \in words
  PROVE  <<a, b>> \in Occurrences
BY DEF Occurrences

\* A hit of the automaton is an occurrence that ends at i, and no word that
\* ends there begins before it.
LEMMA ACHit ==
  ASSUME Loading, FilterTyped, StateRight, phase = "scan", impl = "ac", i <= Len(lower),
         ~Stuck(node, lower[i])
  PROVE  LET next == Child(node, lower[i])
         IN  /\ next \in Nodes /\ out[next] \in Nat
             /\ out[next] # 0 => <<i - out[next] + 1, i>> \in Occurrences
             /\ \A x \in Occurrences : x[2] = i => out[next] # 0 /\ i - out[next] + 1 <= x[1]
<1> DEFINE next == Child(node, lower[i])
           n == out[next]
           read == Prefix(lower, i)
<1>1. next \in Nodes /\ IsOut(n, read, words)
  BY NextState
<1>2. WordSet(words) /\ lower \in Seq(Chars) /\ i \in 1..Len(lower) /\ Len(lower) \in Nat
  BY DEF Loading, LoadTyped, FilterTyped
<1>3. n \in Nat /\ Ends(n, read, words) /\ \A w \in words : IsSuffix(w, read) => Len(w) <= n
  BY <1>1 DEF IsOut
<1> HIDE DEF next, n
<1>4. ASSUME n # 0
      PROVE  <<i - n + 1, i>> \in Occurrences
  <2>1. PICK w \in words : IsSuffix(w, read) /\ Len(w) = n
    BY <1>3, <1>4 DEF Ends
  <2>2. w \in Seq(Chars) /\ Len(w) # 0
    BY <1>2, <1>4, <2>1 DEF WordSet
  <2>3. i - Len(w) + 1 \in 1..i /\ SubSeq(lower, i - Len(w) + 1, i) = w
    BY <1>2, <2>1, <2>2, SuffixIsPiece
  <2>4. i - n + 1 \in 1..i /\ SubSeq(lower, i - n + 1, i) \in words
    BY <2>1, <2>3
  <2>5. i - n + 1 \in 1..Len(lower) /\ i - n + 1 <= i
    BY <1>2, <1>3, <2>4
  <2> QED
    BY <1>2, <2>4, <2>5, IsOccurrence
<1>5. ASSUME NEW x \in Occurrences, x[2] = i
      PROVE  n # 0 /\ i - n + 1 <= x[1]
  <2>1. x[1] \in 1..i /\ SubSeq(lower, x[1], i) \in words
    BY <1>2, <1>5, OccurrenceIs
  <2>2. IsSuffix(SubSeq(lower, x[1], i), read) /\ Len(SubSeq(lower, x[1], i)) = i - x[1] + 1
    BY <1>2, <2>1, PieceIsSuffix
  <2>3. i - x[1] + 1 <= n
    BY <1>3, <2>1, <2>2
  <2> QED
    BY <1>2, <1>3, <2>1, <2>3
<1> QED
  BY <1>1, <1>3, <1>4, <1>5 DEF next, n

\* A hit of the trie is the longest occurrence that begins at i.
LEMMA DFAHit ==
  ASSUME FilterTyped, phase = "scan", i <= Len(lower)
  PROVE  /\ EndsFrom(i) # {} => <<i, Longest(EndsFrom(i))>> \in Occurrences
         /\ \A x \in Occurrences : x[1] = i => EndsFrom(i) # {} /\ x[2] <= Longest(EndsFrom(i))
<1>1. i \in 1..Len(lower) /\ Len(lower) \in Nat
  BY DEF FilterTyped
<1>2. EndsFrom(i) \in SUBSET (1..Len(lower))
  BY <1>1 DEF EndsFrom
<1>3. EndsFrom(i) # {} =>
        /\ Longest(EndsFrom(i)) \in EndsFrom(i)
        /\ \A x \in EndsFrom(i) : x <= Longest(EndsFrom(i))
  BY <1>1, <1>2, LongestIs
<1>4. ASSUME NEW e \in EndsFrom(i)
      PROVE  <<i, e>> \in Occurrences
  BY <1>1, <1>2, IsOccurrence DEF EndsFrom
<1>5. ASSUME NEW x \in Occurrences, x[1] = i
      PROVE  x[2] \in EndsFrom(i)
  <2>1. x[2] \in i..Len(lower) /\ SubSeq(lower, i, x[2]) \in words
    BY <1>1, <1>5, OccurrenceIs
  <2> QED
    BY <2>1 DEF EndsFrom
<1> QED
  BY <1>3, <1>4, <1>5

\* A slice of a text consists of letters.
LEMMA AnySlice ==
  ASSUME text \in Seq(Letters), NEW a \in Nat \ {0}, NEW b \in Nat
  PROVE  Slice(a, b) \in Seq(Letters)
<1> DEFINE n == Smaller(b, Len(text))
<1>1. n \in Nat /\ n <= Len(text) /\ Len(text) \in Nat
  BY DEF Smaller
<1>2. \A k \in a..n : text[k] \in Letters
  BY <1>1
<1> HIDE DEF n
<1>3. SubSeq(text, a, n) \in Seq(Letters)
  BY <1>1, <1>2, SubSeqProperties
<1> QED
  BY <1>3 DEF Slice, n

\* What depends on the words and the text only.
LEMMA FixedParts ==
  ASSUME UNCHANGED <<words, lower>>
  PROVE  Occurrences' = Occurrences /\ Span' = Span /\ Nodes' = Nodes /\ Covered' = Covered
BY DEF Occurrences, Span, Nodes, Covered

\* Types of what filter() works on; a hit is always an occurrence of a word,
\* whichever filter found it.
LEMMA FilterTypedKept ==
  ASSUME Loading, Loading', FilterTyped, StateRight, [FilterNext]_filterVars
  PROVE  FilterTyped'
<1> FilterMoves
  BY FilterMovesAre
<1>1. ASSUME LoadMove
      PROVE  FilterTyped'
  <2>1. hits' = <<>> /\ node' = Root /\ merged' = <<>> /\ answer' = <<>> /\ prev' = 1
    BY <1>1 DEF LoadMove, FilterTyped
  <2>2. hits' \in Seq(Occurrences') /\ merged' \in Seq(Span') /\ node' \in Nodes'
    BY <2>1, RootIsNode DEF Nodes
  <2>3. i' \in Nat \ {0} /\ text' \in Seq(Letters) /\ lower' \in Seq(Chars)
    BY <1>1 DEF LoadMove, FilterTyped
  <2>4. answer' \in Seq(Letters \union {Stars}) /\ prev' \in Nat \ {0}
    BY <2>1
  <2> QED
    BY <2>1, <2>2, <2>3, <2>4 DEF FilterTyped
<1>2. ASSUME Fixed, NEW c \in Letters, Type(c)
      PROVE  FilterTyped'
  <2>1. /\ hits' = <<>> /\ node' = Root /\ merged' = <<>> /\ answer' = <<>> /\ prev' = 1
        /\ phase' = "idle"
    BY <1>2 DEF Type, FilterTyped, scan, result
  <2>2. hits' \in Seq(Occurrences') /\ merged' \in Seq(Span') /\ node' \in Nodes'
    BY <2>1, RootIsNode DEF Nodes
  <2>3. i' \in Nat \ {0}
    BY <1>2 DEF Type, FilterTyped
  <2>4. text' \in Seq(Letters) /\ lower' \in Seq(Chars)
    BY <1>2, LowerAssumption DEF Type, FilterTyped
  <2>5. answer' \in Seq(Letters \union {Stars}) /\ prev' \in Nat \ {0}
    BY <2>1
  <2> QED
    BY <2>1, <2>2, <2>3, <2>4, <2>5 DEF FilterTyped
<1>3. ASSUME Fixed, Return
      PROVE  FilterTyped'
  <2>1. /\ hits' = <<>> /\ node' = Root /\ merged' = <<>> /\ answer' = <<>> /\ prev' = 1
        /\ phase' = "idle" /\ i' = 1 /\ text' = <<>> /\ lower' = <<>>
    BY <1>3 DEF Return
  <2>2. node' \in Nodes'
    BY <2>1, RootIsNode DEF Nodes
  <2> QED
    BY <2>1, <2>2 DEF FilterTyped
<1>4. ASSUME Fixed, UNCHANGED <<text, lower>>
      PROVE  Occurrences' = Occurrences /\ Span' = Span /\ Nodes' = Nodes
  BY <1>4, FixedParts DEF Fixed
<1>5. ASSUME Fixed, Call
      PROVE  FilterTyped'
  <2>1. Occurrences' = Occurrences /\ Span' = Span /\ Nodes' = Nodes
    BY <1>4, <1>5 DEF Call, input
  <2>2. hits' = <<>> /\ node' = Root /\ i' = 1 /\ phase' = "scan" /\ phase = "idle"
        /\ UNCHANGED <<text, lower, merged, answer, prev>>
    BY <1>5 DEF Call, input, result
  <2>3. node' \in Nodes
    BY <2>2, RootIsNode DEF Nodes
  <2> QED
    BY <2>1, <2>2, <2>3 DEF FilterTyped
<1>6. ASSUME Fixed, DFAStep
      PROVE  FilterTyped'
  <2>1. Occurrences' = Occurrences /\ Span' = Span /\ Nodes' = Nodes
    BY <1>4, <1>6 DEF DFAStep, input
  <2>2. /\ phase = "scan" /\ i <= Len(lower) /\ i' = i + 1
        /\ hits' = IF EndsFrom(i) = {} THEN hits ELSE Append(hits, <<i, Longest(EndsFrom(i))>>)
        /\ UNCHANGED <<phase, text, lower, node, merged, answer, prev>>
    BY <1>6 DEF DFAStep, input, result
  <2>3. hits' \in Seq(Occurrences)
    BY <2>2, DFAHit DEF FilterTyped
  <2> QED
    BY <2>1, <2>2, <2>3 DEF FilterTyped
<1>7. ASSUME Fixed, FallBack
      PROVE  FilterTyped'
  <2>1. Occurrences' = Occurrences /\ Span' = Span /\ Nodes' = Nodes
    BY <1>4, <1>7 DEF FallBack, input
  <2>2. /\ phase = "scan" /\ impl = "ac" /\ node' = fail[node]
        /\ UNCHANGED <<phase, i, text, lower, hits, merged, answer, prev>>
    BY <1>7 DEF FallBack, input, result
  <2>3. node' \in Nodes
    BY <2>2 DEF Loading, LoadTyped, FilterTyped
  <2> QED
    BY <2>1, <2>2, <2>3 DEF FilterTyped
<1>8. ASSUME Fixed, ACStep
      PROVE  FilterTyped'
  <2> DEFINE next == Child(node, lower[i])
  <2>1. Occurrences' = Occurrences /\ Span' = Span /\ Nodes' = Nodes
    BY <1>4, <1>8 DEF ACStep, input
  <2>2. /\ phase = "scan" /\ impl = "ac" /\ i <= Len(lower) /\ ~Stuck(node, lower[i])
        /\ i' = i + 1 /\ node' = next
        /\ hits' = IF out[next] = 0 THEN hits ELSE Append(hits, <<i - out[next] + 1, i>>)
        /\ UNCHANGED <<phase, text, lower, merged, answer, prev>>
    BY <1>8 DEF ACStep, input, result
  <2>3. next \in Nodes /\ (out[next] # 0 => <<i - out[next] + 1, i>> \in Occurrences)
    BY <2>2, ACHit
  <2> HIDE DEF next
  <2>4. hits' \in Seq(Occurrences)
    BY <2>2, <2>3 DEF FilterTyped
  <2> QED
    BY <2>1, <2>2, <2>3, <2>4 DEF FilterTyped
<1>9. ASSUME Fixed, Scanned
      PROVE  FilterTyped'
  <2>1. Occurrences' = Occurrences /\ Span' = Span /\ Nodes' = Nodes
    BY <1>4, <1>9 DEF Scanned, input
  <2>2. /\ phase = "scan" /\ phase' = "merge" /\ i' = 1
        /\ UNCHANGED <<text, lower, node, hits, merged, answer, prev>>
    BY <1>9 DEF Scanned, input, scan, result
  <2> QED
    BY <2>1, <2>2 DEF FilterTyped
<1>10. ASSUME Fixed, Merge
       PROVE  FilterTyped'
  <2> DEFINE n == Len(merged)
  <2>1. Occurrences' = Occurrences /\ Span' = Span /\ Nodes' = Nodes
    BY <1>4, <1>10 DEF Merge, input
  <2>2. /\ phase = "merge" /\ phase' = "merge" /\ i <= Len(hits) /\ i' = i + 1
        /\ UNCHANGED <<text, lower, node, hits, answer, prev>>
        /\ merged' = IF Extends(hits[i])
                     THEN [merged EXCEPT ![n] = <<merged[n][1], Larger(merged[n][2], hits[i][2])>>]
                     ELSE Append(merged, hits[i])
    BY <1>10 DEF Merge, input, scan
  <2>3. merged \in Seq(Span) /\ hits[i] \in Occurrences
    BY <2>2 DEF FilterTyped
  <2>4. hits[i] \in Span /\ hits[i][2] \in 1..Len(lower)
    BY <2>3, OccurrenceIs
  <2>5. CASE Extends(hits[i])
    <3>1. n \in 1..Len(merged)
      BY <2>3, <2>5 DEF Extends
    <3>2. merged[n] \in Span /\ merged[n][1] \in 1..Len(lower) /\ merged[n][2] \in 1..Len(lower)
      BY <2>3, <3>1 DEF Span
    <3>3. Larger(merged[n][2], hits[i][2]) \in 1..Len(lower)
      BY <2>4, <3>2 DEF Larger
    <3> DEFINE x == <<merged[n][1], Larger(merged[n][2], hits[i][2])>>
    <3>4. x \in Span
      BY <3>2, <3>3 DEF Span
    <3>5. merged' = [merged EXCEPT ![n] = x]
      BY <2>2, <2>5
    <3> HIDE DEF x, n
    <3>6. merged' \in Seq(Span)
      BY <2>3, <3>1, <3>4, <3>5
    <3> QED
      BY <2>1, <2>2, <3>6 DEF FilterTyped
  <2>6. CASE ~Extends(hits[i])
    <3>1. merged' \in Seq(Span)
      BY <2>2, <2>3, <2>4, <2>6
    <3> QED
      BY <2>1, <2>2, <3>1 DEF FilterTyped
  <2> QED
    BY <2>5, <2>6
<1>11. ASSUME Fixed, Merged
       PROVE  FilterTyped'
  <2>1. Occurrences' = Occurrences /\ Span' = Span /\ Nodes' = Nodes
    BY <1>4, <1>11 DEF Merged, input
  <2>2. /\ phase = "merge" /\ phase' = "replace" /\ i' = 1
        /\ UNCHANGED <<text, lower, node, hits, merged, answer, prev>>
    BY <1>11 DEF Merged, input, scan, result
  <2> QED
    BY <2>1, <2>2 DEF FilterTyped
<1>12. ASSUME Fixed, Replace
       PROVE  FilterTyped'
  <2> DEFINE s == Slice(prev, merged[i][1] - 1)
  <2>1. Occurrences' = Occurrences /\ Span' = Span /\ Nodes' = Nodes
    BY <1>4, <1>12 DEF Replace, input
  <2>2. /\ phase = "replace" /\ phase' = "replace" /\ i <= Len(merged) /\ i' = i + 1
        /\ answer' = answer \o s \o <<Stars>> /\ prev' = merged[i][2] + 1
        /\ UNCHANGED <<text, lower, node, hits, merged>>
    BY <1>12 DEF Replace, input, scan
  <2>3. merged[i] \in Span
    BY <2>2 DEF FilterTyped
  <2>4. merged[i][1] \in 1..Len(lower) /\ merged[i][2] \in 1..Len(lower)
    BY <2>3 DEF Span
  <2>5. merged[i][1] - 1 \in Nat /\ merged[i][2] \in Nat \ {0}
    BY <2>4
  <2>6. prev' \in Nat \ {0}
    BY <2>2, <2>5
  <2>7. text \in Seq(Letters) /\ prev \in Nat \ {0}
    BY DEF FilterTyped
  <2>8. s \in Seq(Letters)
    BY <2>7, <2>5, AnySlice
  <2> HIDE DEF s
  <2>9. s \in Seq(Letters \union {Stars}) /\ <<Stars>> \in Seq(Letters \union {Stars})
    BY <2>8
  <2>10. answer' \in Seq(Letters \union {Stars})
    BY <2>2, <2>9 DEF FilterTyped
  <2> QED
    BY <2>1, <2>2, <2>6, <2>10 DEF FilterTyped
<1>13. ASSUME Fixed, Rest
       PROVE  FilterTyped'
  <2> DEFINE s == Slice(prev, Len(text))
  <2>1. Occurrences' = Occurrences /\ Span' = Span /\ Nodes' = Nodes
    BY <1>4, <1>13 DEF Rest, input
  <2>2. /\ phase = "replace" /\ phase' = "done"
        /\ answer' = answer \o s
        /\ UNCHANGED <<i, text, lower, node, hits, merged, prev>>
    BY <1>13 DEF Rest, input, scan
  <2>3. s \in Seq(Letters)
    BY AnySlice DEF FilterTyped
  <2> HIDE DEF s
  <2>4. answer' \in Seq(Letters \union {Stars})
    BY <2>2, <2>3 DEF FilterTyped
  <2> QED
    BY <2>1, <2>2, <2>4 DEF FilterTyped
<1>14. ASSUME Fixed, UNCHANGED filterVars
       PROVE  FilterTyped'
  <2>1. Occurrences' = Occurrences /\ Span' = Span /\ Nodes' = Nodes
    BY <1>4, <1>14 DEF filterVars, input
  <2>2. UNCHANGED <<phase, i, text, lower, node, hits, merged, answer, prev>>
    BY <1>14 DEF filterVars, input, scan, result
  <2> QED
    BY <2>1, <2>2 DEF FilterTyped
<1> QED
  BY <1>1, <1>2, <1>3, <1>5, <1>6, <1>7, <1>8, <1>9, <1>10, <1>11, <1>12, <1>13, <1>14
     DEF FilterMoves

\* No step of the scan loses the longest end that can still become a word
\* (sensitive.py:174-182).
LEMMA StateRightKept ==
  ASSUME Loading, FilterTyped, StateRight, [FilterNext]_filterVars
  PROVE  StateRight'
<1> FilterMoves
  BY FilterMovesAre
<1>1. WordSet(words) /\ lower \in Seq(Chars) /\ Len(lower) \in Nat /\ i \in Nat \ {0}
      /\ node \in NodesOf(words)
  BY DEF Loading, LoadTyped, FilterTyped, Nodes
<1>2. ASSUME phase' # "scan"
      PROVE  StateRight'
  BY <1>2 DEF StateRight
<1>3. ASSUME Fixed, Call
      PROVE  StateRight'
  <2>1. i' = 1 /\ node' = Root /\ UNCHANGED <<words, lower>>
    BY <1>3 DEF Call, input, Fixed
  <2>2. Before' = Prefix(lower, 0)
    BY <2>1 DEF Before
  <2> DEFINE e == Prefix(lower, 0)
  <2>3. e \in Seq(Chars) /\ Len(e) = 0
    BY <1>1, PrefixOf DEF Prefix
  <2> HIDE DEF e
  <2>4. IsSuffix(Root, e) /\ Len(Root) = 0
    BY <2>3, RootIsSuffix
  <2>5. \A q \in Nodes : IsSuffix(q, e) => Len(q) <= Len(Root)
    BY <2>3, <2>4 DEF IsSuffix
  <2>6. 1 <= Len(lower) + 1 /\ Nodes' = Nodes
    BY <1>1, <2>1 DEF Nodes
  <2>7. Before' = e
    BY <2>2 DEF e
  <2> QED
    BY <2>1, <2>4, <2>5, <2>6, <2>7 DEF StateRight
<1>4. ASSUME Fixed, DFAStep
      PROVE  StateRight'
  <2>1. impl' = "dfa" /\ i <= Len(lower) /\ i' = i + 1 /\ lower' = lower
    BY <1>4 DEF DFAStep, input, Fixed
  <2>2. i' <= Len(lower') + 1
    BY <1>1, <2>1
  <2> QED
    BY <2>1, <2>2 DEF StateRight
<1>5. ASSUME Fixed, FallBack
      PROVE  StateRight'
  <2> DEFINE c == lower[i]
             l == fail[node]
  <2>1. /\ phase = "scan" /\ impl = "ac" /\ i <= Len(lower) /\ node # Root
        /\ Append(node, c) \notin NodesOf(words)
        /\ node' = l /\ UNCHANGED <<i, lower, words>>
    BY <1>5 DEF FallBack, Stuck, input, Fixed, Nodes
  <2>2. IsLink(l, node, words)
    BY <1>1, <2>1, AllLinksRight DEF Nodes
  <2>3. IsSuffix(node, Before) /\ Before \in Seq(Chars)
        /\ \A q \in Nodes : IsSuffix(q, Before) /\ Append(q, c) \in Nodes => Len(q) <= Len(node)
    <3>1. i \in 1..Len(lower)
      BY <1>1, <2>1
    <3> QED
      BY <1>1, <2>1, <3>1, PrefixNext DEF StateRight, Before
  <2> HIDE DEF c, l
  <2>4. /\ IsSuffix(l, Before)
        /\ \A q \in NodesOf(words) :
             IsSuffix(q, Before) /\ Append(q, c) \in NodesOf(words) /\ Len(q) <= Len(node)
             => Len(q) <= Len(l)
    BY <1>1, <2>1, <2>2, <2>3, WalkOn
  <2>5. \A q \in Nodes : IsSuffix(q, Before) /\ Append(q, c) \in Nodes => Len(q) <= Len(l)
    BY <2>3, <2>4 DEF Nodes
  <2>6. Before' = Before /\ Nodes' = Nodes /\ lower'[i'] = c /\ i' <= Len(lower') + 1
    BY <1>1, <2>1 DEF Before, Nodes, c
  <2> QED
    BY <2>1, <2>4, <2>5, <2>6 DEF StateRight, c
<1>6. ASSUME Fixed, ACStep
      PROVE  StateRight'
  <2> DEFINE next == Child(node, lower[i])
             read == Prefix(lower, i)
  <2>1. /\ phase = "scan" /\ impl = "ac" /\ i <= Len(lower) /\ ~Stuck(node, lower[i])
        /\ i' = i + 1 /\ node' = next /\ UNCHANGED <<lower, words>>
    BY <1>6 DEF ACStep, input, Fixed
  <2>2. next \in Nodes /\ IsSuffix(next, read)
        /\ \A q \in Nodes : IsSuffix(q, read) => Len(q) <= Len(next)
    BY <2>1, NextState
  <2>3. i' - 1 = i /\ i' <= Len(lower) + 1
    BY <1>1, <2>1
  <2>4. Before' = read /\ Nodes' = Nodes
    BY <2>1, <2>3 DEF Before, Nodes
  <2> HIDE DEF next, read
  <2> QED
    BY <2>1, <2>2, <2>3, <2>4 DEF StateRight
<1>7. ASSUME UNCHANGED filterVars
      PROVE  StateRight'
  BY <1>7 DEF filterVars, tables, input, scan, StateRight, Before, Nodes
<1>8. LoadMove \/ (\E c \in Letters : Type(c)) \/ Scanned \/ Return => phase' # "scan"
  BY DEF LoadMove, Type, Scanned, Return
<1>9. Merge \/ Merged \/ Replace \/ Rest => phase' # "scan"
  BY DEF Merge, Merged, Replace, Rest
<1> QED
  BY <1>2, <1>3, <1>4, <1>5, <1>6, <1>7, <1>8, <1>9 DEF FilterMoves

\* Each occurrence that the scan has passed lies inside a hit: the trie has
\* passed it when its beginning is behind, the automaton when its end is.
LEMMA HitsCompleteKept ==
  ASSUME Loading, FilterTyped, StateRight, HitsComplete, [FilterNext]_filterVars
  PROVE  HitsComplete'
<1> FilterMoves
  BY FilterMovesAre
<1>1. hits \in Seq(Occurrences) /\ Len(hits) \in Nat /\ i \in Nat \ {0} /\ Len(lower) \in Nat
  BY DEF FilterTyped
<1>2. ASSUME phase' \in {"idle", "load"}
      PROVE  HitsComplete'
  BY <1>2 DEF HitsComplete
\* What is in the hits stays there.
<1>3. ASSUME NEW h, hits' = Append(hits, h), NEW x, InHits(x)
      PROVE  InHits(x)'
  <2>1. PICK n \in 1..Len(hits) : hits[n][1] <= x[1] /\ x[2] <= hits[n][2]
    BY <1>3 DEF InHits
  <2>2. n \in 1..Len(hits') /\ hits'[n] = hits[n]
    BY <1>1, <1>3
  <2> QED
    BY <2>1, <2>2 DEF InHits
<1>4. ASSUME NEW h, hits' = Append(hits, h), NEW x, h[1] <= x[1], x[2] <= h[2]
      PROVE  InHits(x)'
  <2>1. Len(hits) + 1 \in 1..Len(hits') /\ hits'[Len(hits) + 1] = h
    BY <1>1, <1>4
  <2> QED
    BY <1>4, <2>1 DEF InHits
<1>5. ASSUME Fixed, Call
      PROVE  HitsComplete'
  <2>1. phase' = "scan" /\ i' = 1 /\ lower' = lower /\ words' = words
    BY <1>5 DEF Call, input, Fixed
  <2>2. \A x \in Occurrences : ~(x[1] < 1) /\ ~(x[2] < 1)
    BY OccurrenceIs
  <2> QED
    BY <2>1, <2>2, FixedParts DEF HitsComplete, Passed
<1>6. ASSUME Fixed, DFAStep
      PROVE  HitsComplete'
  <2> DEFINE ends == EndsFrom(i)
             h == <<i, Longest(ends)>>
  <2>1. /\ phase = "scan" /\ impl = "dfa" /\ i <= Len(lower) /\ i' = i + 1
        /\ hits' = IF ends = {} THEN hits ELSE Append(hits, h)
        /\ UNCHANGED <<phase, impl, lower, words>>
    BY <1>6 DEF DFAStep, input, Fixed
  <2>2. \A x \in Occurrences : x[1] = i => ends # {} /\ x[2] <= h[2] /\ h[1] <= x[1]
    BY <1>1, <2>1, DFAHit
  <2>3. Occurrences' = Occurrences
    BY <2>1, FixedParts
  <2> HIDE DEF ends, h
  <2>4. ASSUME NEW x \in Occurrences, Passed(x)'
        PROVE  InHits(x)'
    <3>1. x[1] < i + 1 /\ x[1] \in Nat
      BY <2>1, <2>4, OccurrenceIs DEF Passed
    <3>2. CASE x[1] = i
      BY <1>4, <2>1, <2>2, <3>2
    <3>3. CASE x[1] # i
      <4>1. InHits(x)
        BY <1>1, <2>1, <3>1, <3>3 DEF Passed, HitsComplete
      <4>2. CASE ends = {}
        BY <2>1, <4>1, <4>2 DEF InHits
      <4>3. CASE ends # {}
        BY <1>3, <2>1, <4>1, <4>3
      <4> QED
        BY <4>2, <4>3
    <3> QED
      BY <3>2, <3>3
  <2> QED
    BY <2>3, <2>4 DEF HitsComplete
<1>7. ASSUME Fixed, FallBack
      PROVE  HitsComplete'
  <2>1. UNCHANGED <<phase, impl, i, lower, words, hits>>
    BY <1>7 DEF FallBack, input, Fixed
  <2> QED
    BY <2>1, FixedParts DEF HitsComplete, Passed, InHits
<1>8. ASSUME Fixed, ACStep
      PROVE  HitsComplete'
  <2> DEFINE n == out[Child(node, lower[i])]
             h == <<i - n + 1, i>>
  <2>1. /\ phase = "scan" /\ impl = "ac" /\ i <= Len(lower) /\ i' = i + 1
        /\ ~Stuck(node, lower[i])
        /\ hits' = IF n = 0 THEN hits ELSE Append(hits, h)
        /\ UNCHANGED <<phase, impl, lower, words>>
    BY <1>8 DEF ACStep, input, Fixed
  <2>2. \A x \in Occurrences : x[2] = i => n # 0 /\ i - n + 1 <= x[1]
    BY <2>1, ACHit
  <2>3. \A x \in Occurrences : x[2] = i => n # 0 /\ h[1] <= x[1] /\ x[2] <= h[2]
    BY <1>1, <2>2
  <2>4. Occurrences' = Occurrences
    BY <2>1, FixedParts
  <2> HIDE DEF n, h
  <2>5. ASSUME NEW x \in Occurrences, Passed(x)'
        PROVE  InHits(x)'
    <3>1. x[2] < i + 1 /\ x[2] \in Nat
      BY <2>1, <2>5, OccurrenceIs DEF Passed
    <3>2. CASE x[2] = i
      BY <1>4, <2>1, <2>3, <3>2
    <3>3. CASE x[2] # i
      <4>1. InHits(x)
        BY <1>1, <2>1, <3>1, <3>3 DEF Passed, HitsComplete
      <4>2. CASE n = 0
        BY <2>1, <4>1, <4>2 DEF InHits
      <4>3. CASE n # 0
        BY <1>3, <2>1, <4>1, <4>3
      <4> QED
        BY <4>2, <4>3
    <3> QED
      BY <3>2, <3>3
  <2> QED
    BY <2>4, <2>5 DEF HitsComplete
<1>9. ASSUME Fixed, Scanned
      PROVE  HitsComplete'
  <2>1. phase = "scan" /\ i > Len(lower) /\ UNCHANGED <<impl, lower, words, hits>>
    BY <1>9 DEF Scanned, input, scan, Fixed
  <2>2. \A x \in Occurrences : x[1] < i /\ x[2] < i
    BY <1>1, <2>1, OccurrenceIs
  <2>3. \A x \in Occurrences : InHits(x)
    BY <2>1, <2>2 DEF HitsComplete, Passed
  <2> QED
    BY <2>1, <2>3, FixedParts DEF HitsComplete, InHits
<1>10. ASSUME Fixed, Merge \/ Merged \/ Replace \/ Rest
       PROVE  HitsComplete'
  <2>1. /\ phase \in {"merge", "replace"} /\ UNCHANGED <<impl, lower, words, hits>>
    BY <1>10 DEF Merge, Merged, Replace, Rest, input, scan, Fixed
  <2> QED
    BY <2>1, FixedParts DEF HitsComplete, InHits, Passed
<1>11. ASSUME UNCHANGED filterVars
       PROVE  HitsComplete'
  <2>1. UNCHANGED <<phase, impl, i, lower, words, hits>>
    BY <1>11 DEF filterVars, tables, input, scan
  <2> QED
    BY <2>1, FixedParts DEF HitsComplete, Passed, InHits
<1>12. LoadMove \/ (\E c \in Letters : Type(c)) \/ Return => phase' \in {"idle", "load"}
  BY DEF LoadMove, Type, Return
<1> QED
  BY <1>2, <1>5, <1>6, <1>7, <1>8, <1>9, <1>10, <1>11, <1>12 DEF FilterMoves

\* The hits of the trie are in the order of their beginnings.
LEMMA DfaInOrderKept ==
  ASSUME FilterTyped, DfaInOrder, [FilterNext]_filterVars
  PROVE  DfaInOrder'
<1> FilterMoves
  BY FilterMovesAre
<1>1. hits \in Seq(Occurrences) /\ Len(hits) \in Nat /\ i \in Nat \ {0}
  BY DEF FilterTyped
<1>2. ASSUME hits' = <<>>
      PROVE  DfaInOrder'
  BY <1>2 DEF DfaInOrder, HitsInOrder
<1>3. ASSUME UNCHANGED <<impl, hits>>, phase' # "scan" \/ UNCHANGED <<phase, i>>
      PROVE  DfaInOrder'
  BY <1>3 DEF DfaInOrder, HitsInOrder
<1>4. ASSUME Fixed, DFAStep
      PROVE  DfaInOrder'
  <2> DEFINE h == <<i, Longest(EndsFrom(i))>>
  <2>1. /\ phase = "scan" /\ impl = "dfa" /\ i' = i + 1 /\ phase' = "scan" /\ impl' = "dfa"
        /\ hits' = hits \/ hits' = Append(hits, h)
    BY <1>4 DEF DFAStep, Fixed
  <2>2. HitsInOrder /\ \A n \in 1..Len(hits) : hits[n][1] < i
    BY <2>1 DEF DfaInOrder
  <2>3. \A n \in 1..Len(hits) : hits[n][1] \in Nat
    <3>1. \A n \in 1..Len(hits) : hits[n] \in Occurrences
      BY <1>1
    <3> QED
      BY <3>1, OccurrenceIs
  <2>4. h[1] = i
    OBVIOUS
  <2> HIDE DEF h
  <2>5. CASE hits' = hits
    BY <1>1, <2>1, <2>2, <2>3, <2>5 DEF DfaInOrder, HitsInOrder
  <2>6. CASE hits' = Append(hits, h)
    <3>1. /\ Len(hits') = Len(hits) + 1 /\ hits'[Len(hits) + 1] = h
          /\ \A n \in 1..Len(hits) : hits'[n] = hits[n]
          /\ DOMAIN hits' = 1..Len(hits')
      BY <1>1, <2>6
    <3>2. \A n \in 1..Len(hits') : hits'[n][1] < i'
      <4> TAKE n \in 1..Len(hits')
      <4>1. CASE n = Len(hits) + 1
        BY <1>1, <2>1, <2>4, <3>1, <4>1
      <4>2. CASE n # Len(hits) + 1
        <5>1. n \in 1..Len(hits)
          BY <1>1, <3>1, <4>2
        <5> QED
          BY <1>1, <2>1, <2>2, <2>3, <3>1, <5>1
      <4> QED
        BY <4>1, <4>2
    <3>3. ASSUME NEW m \in 1..Len(hits'), NEW n \in 1..Len(hits'), m < n
          PROVE  hits'[m][1] <= hits'[n][1]
      <4>1. m \in 1..Len(hits) /\ hits'[m] = hits[m]
        BY <1>1, <3>1, <3>3
      <4>2. CASE n = Len(hits) + 1
        BY <1>1, <2>2, <2>3, <2>4, <3>1, <4>1, <4>2
      <4>3. CASE n # Len(hits) + 1
        <5>1. n \in 1..Len(hits) /\ DOMAIN hits = 1..Len(hits)
          BY <1>1, <3>1, <4>3
        <5> QED
          BY <2>2, <3>1, <3>3, <4>1, <5>1 DEF HitsInOrder
      <4> QED
        BY <4>2, <4>3
    <3> QED
      BY <3>1, <3>2, <3>3 DEF DfaInOrder, HitsInOrder
  <2> QED
    BY <2>1, <2>5, <2>6
<1>5. ASSUME Fixed, ACStep
      PROVE  DfaInOrder'
  BY <1>5 DEF ACStep, Fixed, DfaInOrder
<1>6. LoadMove => hits' = <<>>
  BY DEF LoadMove, FilterTyped
<1>7. (\E c \in Letters : Type(c)) \/ Call \/ Return => hits' = <<>>
  BY DEF Type, Call, Return, scan, FilterTyped
<1>8. ASSUME Fixed, FallBack \/ Scanned
      PROVE  UNCHANGED <<impl, hits>> /\ (phase' # "scan" \/ UNCHANGED <<phase, i>>)
  BY <1>8 DEF FallBack, Scanned, scan, Fixed
<1>9. ASSUME Fixed, Merge \/ Merged \/ Replace \/ Rest
      PROVE  UNCHANGED <<impl, hits>> /\ phase' # "scan"
  BY <1>9 DEF Merge, Merged, Replace, Rest, scan, Fixed
<1>10. ASSUME Fixed, UNCHANGED filterVars
       PROVE  UNCHANGED <<impl, hits, phase, i>>
  BY <1>10 DEF filterVars, scan
<1> QED
  BY <1>2, <1>3, <1>4, <1>5, <1>6, <1>7, <1>8, <1>9, <1>10 DEF FilterMoves

\* A text whose letters stay one character in lower case keeps its length.
LEMMA AlignedLengthsKept ==
  ASSUME FilterTyped, AlignedLengths, [FilterNext]_filterVars
  PROVE  AlignedLengths'
<1> FilterMoves
  BY FilterMovesAre
<1>1. ASSUME UNCHANGED <<text, lower>>
      PROVE  AlignedLengths'
  BY <1>1 DEF AlignedLengths, Aligned
<1>2. ASSUME Return
      PROVE  AlignedLengths'
  BY <1>2 DEF Return, AlignedLengths
<1>3. ASSUME NEW c \in Letters, Type(c), Aligned'
      PROVE  Len(lower') = Len(text')
  <2>1. /\ text \in Seq(Letters) /\ lower \in Seq(Chars) /\ Lower[c] \in Seq(Chars)
        /\ text' = Append(text, c) /\ lower' = lower \o Lower[c]
    BY <1>3, LowerAssumption DEF Type, FilterTyped
  <2>2. /\ Len(text') = Len(text) + 1 /\ text'[Len(text) + 1] = c /\ DOMAIN text' = 1..Len(text')
        /\ \A k \in 1..Len(text) : text'[k] = text[k]
        /\ DOMAIN text = 1..Len(text) /\ Len(text) \in Nat
    BY <2>1
  <2>3. Len(Lower[c]) = 1
    BY <1>3, <2>2 DEF Aligned
  <2>4. Aligned
    <3>1. ASSUME NEW k \in DOMAIN text
          PROVE  Len(Lower[text[k]]) = 1
      <4>1. k \in DOMAIN text' /\ text'[k] = text[k]
        BY <2>2
      <4> QED
        BY <1>3, <4>1 DEF Aligned
    <3> QED
      BY <3>1 DEF Aligned
  <2>5. Len(lower) = Len(text)
    BY <2>4 DEF AlignedLengths
  <2>6. Len(lower') = Len(lower) + Len(Lower[c])
    BY <2>1
  <2> QED
    BY <2>2, <2>3, <2>5, <2>6
<1>4. LoadMove => UNCHANGED <<text, lower>>
  BY DEF LoadMove
<1>5. Call \/ DFAStep \/ FallBack \/ ACStep \/ Scanned => UNCHANGED <<text, lower>>
  BY DEF Call, DFAStep, FallBack, ACStep, Scanned, input
<1>6. Merge \/ Merged \/ Replace \/ Rest \/ UNCHANGED filterVars => UNCHANGED <<text, lower>>
  BY DEF Merge, Merged, Replace, Rest, filterVars, input
<1> QED
  BY <1>1, <1>2, <1>3, <1>4, <1>5, <1>6 DEF FilterMoves, AlignedLengths

\* The segment after a merge, and what it stands for.
LEMMA MergeIs ==
  ASSUME FilterTyped, Fixed, Merge
  PROVE  LET n == Len(merged)
             h == hits[i]
         IN  /\ h \in Occurrences /\ i \in 1..Len(hits) /\ i' = i + 1
             /\ phase = "merge" /\ phase' = "merge"
             /\ UNCHANGED <<impl, words, text, lower, hits>>
             /\ \/ /\ n \in 1..Len(merged) /\ h[1] <= merged[n][2] + 1
                   /\ Len(merged') = n
                   /\ \A m \in 1..(n - 1) : merged'[m] = merged[m]
                   /\ merged'[n] = <<merged[n][1], Larger(merged[n][2], h[2])>>
                \/ /\ n = 0 \/ (n > 0 /\ ~(h[1] <= merged[n][2] + 1))
                   /\ Len(merged') = n + 1
                   /\ \A m \in 1..n : merged'[m] = merged[m]
                   /\ merged'[n + 1] = h
<1> DEFINE n == Len(merged)
           h == hits[i]
           x == <<merged[n][1], Larger(merged[n][2], h[2])>>
<1>1. /\ phase = "merge" /\ phase' = "merge" /\ i <= Len(hits) /\ i' = i + 1
      /\ UNCHANGED <<impl, words, text, lower, hits>>
      /\ merged' = IF Extends(h) THEN [merged EXCEPT ![n] = x] ELSE Append(merged, h)
  BY DEF Merge, Fixed, input, scan
<1>2. merged \in Seq(Span) /\ h \in Occurrences /\ n \in Nat /\ i \in 1..Len(hits)
  BY <1>1 DEF FilterTyped
<1> HIDE DEF h, x
<1>3. CASE Extends(h)
  <2>1. n \in 1..Len(merged) /\ h[1] <= merged[n][2] + 1
    BY <1>2, <1>3 DEF Extends
  <2>2. merged' = [merged EXCEPT ![n] = x]
    BY <1>1, <1>3
  <2> HIDE DEF n
  <2>3. /\ Len(merged') = Len(merged) /\ merged'[n] = x
        /\ \A m \in 1..Len(merged) : m # n => merged'[m] = merged[m]
    BY <1>2, <2>1, <2>2
  <2>4. Len(merged') = n /\ \A m \in 1..(n - 1) : merged'[m] = merged[m]
    BY <1>2, <2>1, <2>3 DEF n
  <2> QED
    BY <1>1, <1>2, <2>1, <2>3, <2>4 DEF n, h, x
<1>4. CASE ~Extends(h)
  <2>1. merged' = Append(merged, h)
    BY <1>1, <1>4
  <2>2. /\ Len(merged') = n + 1 /\ merged'[n + 1] = h
        /\ \A m \in 1..n : merged'[m] = merged[m]
    BY <1>2, <2>1
  <2>3. n = 0 \/ (n > 0 /\ ~(h[1] <= merged[n][2] + 1))
    BY <1>2, <1>4 DEF Extends
  <2> QED
    BY <1>1, <1>2, <2>2, <2>3 DEF h
<1> QED
  BY <1>3, <1>4

\* Across a segment.
LEMMA LessThrough ==
  ASSUME NEW a \in Nat, NEW b \in Nat, NEW c \in Nat, NEW d \in Nat, a + 1 < b, b <= c, c + 1 < d
  PROVE  a + 1 < d
OBVIOUS

\* A segment lies between positions of the text.
LEMMA SpansOf ==
  ASSUME FilterTyped, NEW n \in 1..Len(merged)
  PROVE  merged[n][1] \in Nat \ {0} /\ merged[n][2] \in Nat \ {0} /\ Len(merged) \in Nat
<1>1. merged[n] \in Span /\ Len(merged) \in Nat
  BY DEF FilterTyped
<1> QED
  BY <1>1 DEF Span

\* The segments of merged are reset or left alone by all but Merge.
LEMMA ApartKept ==
  ASSUME FilterTyped, Apart, [FilterNext]_filterVars
  PROVE  Apart'
<1> FilterMoves
  BY FilterMovesAre
<1>1. ASSUME merged' = <<>>
      PROVE  Apart'
  BY <1>1 DEF Apart
<1>2. ASSUME UNCHANGED <<merged, lower>>
      PROVE  Apart'
  BY <1>2 DEF Apart
<1>3. ASSUME Fixed, Merge
      PROVE  Apart'
  <2> DEFINE n == Len(merged)
             h == hits[i]
             l == merged[n]
             x == <<l[1], Larger(l[2], h[2])>>
             k == Len(merged')
  <2>1. /\ h \in Occurrences /\ lower' = lower
        /\ \/ /\ n \in 1..Len(merged) /\ h[1] <= l[2] + 1
              /\ k = n
              /\ \A m \in 1..(n - 1) : merged'[m] = merged[m]
              /\ merged'[n] = x
           \/ /\ n = 0 \/ (n > 0 /\ ~(h[1] <= l[2] + 1))
              /\ k = n + 1
              /\ \A m \in 1..n : merged'[m] = merged[m]
              /\ merged'[n + 1] = h
    BY <1>3, MergeIs
  <2>2. /\ h[1] \in Nat \ {0} /\ h[2] \in Nat \ {0} /\ h[1] <= h[2]
        /\ h[2] <= Len(lower) /\ Len(lower) \in Nat
    <3>1. h[1] \in 1..Len(lower) /\ h[2] \in 1..Len(lower) /\ h[1] <= h[2]
      BY <2>1, OccurrenceIs
    <3>2. Len(lower) \in Nat
      BY DEF FilterTyped
    <3> HIDE DEF h
    <3> QED
      BY <3>1, <3>2
  <2>3. \A m \in 1..n : /\ merged[m][1] \in Nat \ {0} /\ merged[m][2] \in Nat \ {0}
                        /\ merged[m][1] <= merged[m][2] /\ merged[m][2] <= Len(lower)
    BY SpansOf DEF Apart
  <2>4. \A m1, m2 \in 1..n : m1 < m2 => merged[m1][2] + 1 < merged[m2][1]
    BY DEF Apart
  <2>5. n \in Nat
    BY DEF FilterTyped
  <2>6. x[1] = l[1] /\ x[2] = Larger(l[2], h[2])
    OBVIOUS
  <2> HIDE DEF h, l, x, n, k
  <2>7. CASE /\ n \in 1..Len(merged) /\ h[1] <= l[2] + 1
             /\ k = n
             /\ \A m \in 1..(n - 1) : merged'[m] = merged[m]
             /\ merged'[n] = x
    <3>1. n \in 1..n /\ l = merged[n]
      BY <2>5, <2>7 DEF l, n
    <3>2. l[1] \in Nat \ {0} /\ l[2] \in Nat \ {0} /\ l[1] <= l[2] /\ l[2] <= Len(lower)
      BY <2>3, <3>1
    <3>3. x[1] <= x[2] /\ x[2] <= Len(lower)
      BY <2>2, <2>6, <3>2 DEF Larger
    <3>4. \A m \in 1..k : merged'[m][1] <= merged'[m][2] /\ merged'[m][2] <= Len(lower)
      <4> TAKE m \in 1..k
      <4>1. m = n \/ (m \in 1..(n - 1) /\ m \in 1..n)
        BY <2>5, <2>7
      <4> QED
        BY <2>3, <2>7, <3>3, <4>1
    <3>5. ASSUME NEW m1 \in 1..k, NEW m2 \in 1..k, m1 < m2
          PROVE  merged'[m1][2] + 1 < merged'[m2][1]
      <4>1. m1 \in 1..(n - 1) /\ m1 \in 1..n /\ (m2 = n \/ (m2 \in 1..(n - 1) /\ m2 \in 1..n))
        BY <2>5, <2>7, <3>5
      <4>2. merged'[m1] = merged[m1] /\ merged'[m2][1] = merged[m2][1] /\ m2 \in 1..n
        BY <2>6, <2>7, <3>1, <4>1
      <4> QED
        BY <2>4, <3>5, <4>1, <4>2
    <3> QED
      BY <2>1, <3>4, <3>5 DEF Apart, k
  <2>8. CASE /\ n = 0 \/ (n > 0 /\ ~(h[1] <= l[2] + 1))
             /\ k = n + 1
             /\ \A m \in 1..n : merged'[m] = merged[m]
             /\ merged'[n + 1] = h
    <3>1. \A m \in 1..k : merged'[m][1] <= merged'[m][2] /\ merged'[m][2] <= Len(lower)
      <4> TAKE m \in 1..k
      <4>1. m = n + 1 \/ m \in 1..n
        BY <2>5, <2>8
      <4> QED
        BY <2>2, <2>3, <2>8, <4>1
    <3>2. ASSUME NEW m1 \in 1..k, NEW m2 \in 1..k, m1 < m2
          PROVE  merged'[m1][2] + 1 < merged'[m2][1]
      <4>1. m1 \in 1..n /\ (m2 = n + 1 \/ m2 \in 1..n) /\ n \in 1..n /\ n > 0
        BY <2>5, <2>8, <3>2
      <4>2. CASE m2 \in 1..n
        BY <2>4, <2>8, <3>2, <4>1, <4>2
      <4>3. CASE m2 = n + 1
        <5>1. l[2] + 1 < h[1] /\ l = merged[n] /\ l[1] \in Nat /\ l[2] \in Nat /\ l[1] <= l[2]
          BY <2>2, <2>3, <2>8, <4>1 DEF l
        <5>2. merged[m1][2] \in Nat /\ (m1 = n \/ merged[m1][2] + 1 < l[1])
          BY <2>3, <2>4, <4>1, <5>1
        <5>3. merged[m1][2] + 1 < h[1]
          <6>1. CASE m1 = n
            BY <5>1, <6>1
          <6>2. CASE merged[m1][2] + 1 < l[1]
            BY <2>2, <5>1, <5>2, <6>2, LessThrough
          <6> QED
            BY <5>2, <6>1, <6>2
        <5> QED
          BY <2>8, <4>1, <4>3, <5>3
      <4> QED
        BY <4>1, <4>2, <4>3
    <3> QED
      BY <2>1, <3>1, <3>2 DEF Apart, k
  <2> QED
    BY <2>1, <2>7, <2>8
<1>4. LoadMove => merged' = <<>>
  BY DEF LoadMove, FilterTyped
<1>5. (\E c \in Letters : Type(c)) \/ Call \/ Return => merged' = <<>>
  BY DEF Type, Call, Return, result, FilterTyped
<1>6. DFAStep \/ FallBack \/ ACStep \/ Scanned => UNCHANGED <<merged, lower>>
  BY DEF DFAStep, FallBack, ACStep, Scanned, input, result
<1>7. Merged \/ Replace \/ Rest \/ UNCHANGED filterVars => UNCHANGED <<merged, lower>>
  BY DEF Merged, Replace, Rest, filterVars, input, result
<1> QED
  BY <1>1, <1>2, <1>3, <1>4, <1>5, <1>6, <1>7 DEF FilterMoves

\* The segments cover what the hits merged so far cover, if no hit begins
\* before an earlier one (sensitive.py:43-50).
LEMMA MergedSoundKept ==
  ASSUME FilterTyped, Apart, MergedSound, [FilterNext]_filterVars
  PROVE  MergedSound'
<1> FilterMoves
  BY FilterMovesAre
<1>1. ASSUME phase' \notin {"merge", "replace", "done"}
      PROVE  MergedSound'
  BY <1>1 DEF MergedSound
<1>2. hits \in Seq(Occurrences) /\ Len(hits) \in Nat /\ i \in Nat \ {0} /\ Len(merged) \in Nat
  BY DEF FilterTyped
<1>3. \A n \in 1..Len(hits) : /\ hits[n][1] \in Nat \ {0} /\ hits[n][2] \in Nat \ {0}
                              /\ hits[n][1] <= hits[n][2]
  <2>1. \A n \in 1..Len(hits) : hits[n] \in Occurrences
    BY <1>2
  <2> QED
    BY <2>1, OccurrenceIs
<1>4. ASSUME Fixed, Scanned
      PROVE  MergedSound'
  <2>1. phase' = "merge" /\ i' = 1 /\ merged' = <<>> /\ hits' = hits
    BY <1>4 DEF Scanned, scan, result, FilterTyped
  <2>2. i' <= Len(hits') + 1 /\ Len(merged') = 0 /\ i' - 1 = 0
    BY <1>2, <2>1
  <2> QED
    BY <2>1, <2>2 DEF MergedSound, InSegments, InFirst, Counted
<1>5. ASSUME Fixed, Merged
      PROVE  MergedSound'
  <2>1. phase = "merge" /\ phase' = "replace" /\ i > Len(hits) /\ hits' = hits /\ merged' = merged
    BY <1>5 DEF Merged, scan, result
  <2>2. i - 1 = Len(hits)
    BY <1>2, <2>1 DEF MergedSound
  <2> QED
    BY <2>1, <2>2 DEF MergedSound, InSegments, InFirst, Counted, HitsInOrder
<1>6. ASSUME Fixed, Replace \/ Rest
      PROVE  MergedSound'
  <2>1. phase = "replace" /\ phase' \in {"replace", "done"} /\ hits' = hits /\ merged' = merged
    BY <1>6 DEF Replace, Rest, scan
  <2> QED
    BY <2>1 DEF MergedSound, InSegments, InFirst, Counted, HitsInOrder
<1>7. ASSUME UNCHANGED filterVars
      PROVE  MergedSound'
  <2>1. UNCHANGED <<phase, i, hits, merged>>
    BY <1>7 DEF filterVars, scan, result
  <2> QED
    BY <2>1 DEF MergedSound, InSegments, InFirst, Counted, HitsInOrder
<1>8. ASSUME Fixed, Merge
      PROVE  MergedSound'
  <2> DEFINE n == Len(merged)
             h == hits[i]
             l == merged[n]
             x == <<l[1], Larger(l[2], h[2])>>
             k == Len(merged')
  <2>1. /\ h \in Occurrences /\ i \in 1..Len(hits) /\ i' = i + 1
        /\ phase = "merge" /\ phase' = "merge" /\ hits' = hits
        /\ \/ /\ n \in 1..Len(merged) /\ h[1] <= l[2] + 1
              /\ k = n
              /\ \A m \in 1..(n - 1) : merged'[m] = merged[m]
              /\ merged'[n] = x
           \/ /\ n = 0 \/ (n > 0 /\ ~(h[1] <= l[2] + 1))
              /\ k = n + 1
              /\ \A m \in 1..n : merged'[m] = merged[m]
              /\ merged'[n + 1] = h
    BY <1>8, MergeIs
  <2>2. h[1] \in Nat \ {0} /\ h[2] \in Nat \ {0} /\ h[1] <= h[2]
    BY <1>3, <2>1
  <2>3. \A m \in 1..n : /\ merged[m][1] \in Nat \ {0} /\ merged[m][2] \in Nat \ {0}
                        /\ merged[m][1] <= merged[m][2]
    BY SpansOf DEF Apart
  <2>4. i' - 1 = i /\ i' <= Len(hits') + 1 /\ i = i - 1 + 1 /\ n \in Nat /\ i - 1 \in Nat
    BY <1>2, <2>1
  <2>5. x[1] = l[1] /\ x[2] = Larger(l[2], h[2])
    OBVIOUS
  <2>6. SUFFICES ASSUME HitsInOrder
                 PROVE  /\ \A y \in Nat : InSegments(y)' <=> InFirst(y, i)
                        /\ \A m \in 1..Len(merged') : \A j \in i'..Len(hits) :
                             merged'[m][1] <= hits[j][1]
    <3>1. HitsInOrder' <=> HitsInOrder
      BY <2>1 DEF HitsInOrder
    <3>2. Counted' = i
      BY <2>1, <2>4 DEF Counted
    <3> QED
      BY <2>1, <2>4, <3>1, <3>2 DEF MergedSound, InFirst, InSegments
  <2>7. /\ \A y \in Nat : InSegments(y) <=> InFirst(y, i - 1)
        /\ \A m \in 1..n : \A j \in i..Len(hits) : merged[m][1] <= hits[j][1]
    BY <2>1, <2>6 DEF MergedSound, Counted
  <2>8. \A j \in i'..Len(hits) : j \in i..Len(hits) /\ h[1] <= hits[j][1]
    <3> TAKE j \in i'..Len(hits)
    <3>1. i < j /\ i \in 1..Len(hits) /\ j \in 1..Len(hits) /\ j \in i..Len(hits)
      BY <1>2, <2>1
    <3> QED
      BY <1>2, <2>6, <3>1 DEF HitsInOrder, h
  <2> HIDE DEF l, x, n, k
  <2>9. \A y : InFirst(y, i) <=> InFirst(y, i - 1) \/ (h[1] <= y /\ y <= h[2])
    <3> TAKE y
    <3>1. \A m : m \in 1..i <=> m \in 1..(i - 1) \/ m = i
      BY <1>2
    <3> QED
      BY <2>1, <3>1 DEF InFirst, h
  <2>10. i \in i..Len(hits) /\ n \in Nat
    BY <1>2, <2>1, <2>4
  <2>11. k = Len(merged')
    BY DEF k
  <2>12. n = Len(merged)
    BY DEF n
  <2>13. l = merged[n]
    BY DEF l
  <2>14. \A m \in 1..n : merged[m][1] <= h[1]
    BY <2>7, <2>10 DEF h
  <2> HIDE DEF h
  <2>15. CASE /\ n \in 1..Len(merged) /\ h[1] <= l[2] + 1
              /\ k = n
              /\ \A m \in 1..(n - 1) : merged'[m] = merged[m]
              /\ merged'[n] = x
    <3>1. n \in 1..n /\ \A m : m \in 1..n <=> m \in 1..(n - 1) \/ m = n
      BY <2>10, <2>12, <2>15
    <3>2. l[1] \in Nat \ {0} /\ l[2] \in Nat \ {0} /\ l[1] <= l[2] /\ l[1] <= h[1]
      BY <2>3, <2>13, <2>14, <3>1
    <3>3. \A y \in Nat :
            x[1] <= y /\ y <= x[2] <=> (l[1] <= y /\ y <= l[2]) \/ (h[1] <= y /\ y <= h[2])
      BY <2>2, <2>5, <2>15, <3>2 DEF Larger
    <3>4. ASSUME NEW y \in Nat
          PROVE  InSegments(y)' <=> InSegments(y) \/ (h[1] <= y /\ y <= h[2])
      <4>1. InSegments(y)' <=> \/ \E m \in 1..(n - 1) : merged[m][1] <= y /\ y <= merged[m][2]
                               \/ x[1] <= y /\ y <= x[2]
        BY <2>11, <2>15, <3>1 DEF InSegments
      <4>2. InSegments(y) <=> \/ \E m \in 1..(n - 1) : merged[m][1] <= y /\ y <= merged[m][2]
                              \/ l[1] <= y /\ y <= l[2]
        BY <2>12, <2>13, <3>1 DEF InSegments
      <4> QED
        BY <3>3, <4>1, <4>2
    <3>5. ASSUME NEW m \in 1..Len(merged'), NEW j \in i'..Len(hits)
          PROVE  merged'[m][1] <= hits[j][1]
      <4>1. merged'[m][1] = merged[m][1] /\ m \in 1..n
        BY <2>5, <2>11, <2>13, <2>15, <3>1
      <4> QED
        BY <2>7, <2>8, <4>1
    <3> QED
      BY <2>7, <2>9, <3>4, <3>5
  <2>16. CASE /\ n = 0 \/ (n > 0 /\ ~(h[1] <= l[2] + 1))
              /\ k = n + 1
              /\ \A m \in 1..n : merged'[m] = merged[m]
              /\ merged'[n + 1] = h
    <3>1. \A m : m \in 1..k <=> m \in 1..n \/ m = n + 1
      BY <2>10, <2>16
    <3>2. ASSUME NEW y \in Nat
          PROVE  InSegments(y)' <=> InSegments(y) \/ (h[1] <= y /\ y <= h[2])
      BY <2>11, <2>12, <2>16, <3>1 DEF InSegments
    <3>3. ASSUME NEW m \in 1..Len(merged'), NEW j \in i'..Len(hits)
          PROVE  merged'[m][1] <= hits[j][1]
      <4>1. CASE m \in 1..n
        BY <2>7, <2>8, <2>16, <4>1
      <4>2. CASE m = n + 1
        BY <2>8, <2>16, <4>2
      <4> QED
        BY <2>11, <3>1, <4>1, <4>2
    <3> QED
      BY <2>7, <2>9, <3>2, <3>3
  <2> QED
    BY <2>1, <2>15, <2>16
<1>9. LoadMove \/ (\E c \in Letters : Type(c)) \/ Call \/ Return
      => phase' \notin {"merge", "replace", "done"}
  BY DEF LoadMove, Type, Call, Return
<1>10. DFAStep \/ FallBack \/ ACStep => phase' \notin {"merge", "replace", "done"}
  BY DEF DFAStep, FallBack, ACStep
<1> QED
  BY <1>1, <1>4, <1>5, <1>6, <1>7, <1>8, <1>9, <1>10 DEF FilterMoves

-----------------------------------------------------------------------------
\* Counting what an answer shows.

\* The positions shown are finitely many.
LEMMA ShownFinite ==
  ASSUME text \in Seq(Letters), NEW k
  PROVE  /\ Shown \subseteq 1..Len(text) /\ IsFiniteSet(Shown)
         /\ ShownTo(k) \subseteq Shown /\ IsFiniteSet(ShownTo(k)) /\ Cardinality(ShownTo(k)) \in Nat
<1>1. Len(text) \in Nat /\ Shown \subseteq 1..Len(text)
  BY DEF Shown
<1>2. IsFiniteSet(1..Len(text))
  BY <1>1, FS_Interval
<1>3. IsFiniteSet(Shown)
  BY <1>1, <1>2, FS_Subset
<1>4. ShownTo(k) \subseteq Shown
  BY DEF ShownTo
<1>5. IsFiniteSet(ShownTo(k))
  BY <1>3, <1>4, FS_Subset
<1> QED
  BY <1>1, <1>3, <1>4, <1>5, FS_CardinalityType

\* The place of a position is the number of those shown up to it.
LEMMA PlaceIs ==
  ASSUME text \in Seq(Letters), NEW j \in Nat
  PROVE  Place(j) = Cardinality(ShownTo(j + 1))
<1>1. \A x \in Shown : x \in Nat
  BY ShownFinite
<1>2. {x \in Shown : x <= j} = {x \in Shown : x < j + 1}
  BY <1>1
<1> QED
  BY <1>2 DEF Place, ShownTo

\* A run of shown positions adds its length.
LEMMA ShownRun ==
  ASSUME text \in Seq(Letters), NEW a \in Nat \ {0}, NEW b \in Nat, a <= b + 1,
         \A x \in a..b : x \in Shown
  PROVE  Cardinality(ShownTo(b + 1)) = Cardinality(ShownTo(a)) + (b - a + 1)
<1> DEFINE S == ShownTo(a)
           R == a..b
<1>1. IsFiniteSet(S) /\ Cardinality(S) \in Nat /\ \A x \in Shown : x \in Nat
  BY ShownFinite
<1>2. IsFiniteSet(R) /\ Cardinality(R) = b - a + 1
  <2>1. IsFiniteSet(R) /\ Cardinality(R) = IF a > b THEN 0 ELSE b - a + 1
    BY FS_Interval
  <2>2. a > b => b - a + 1 = 0
    OBVIOUS
  <2> QED
    BY <2>1, <2>2
<1>3. ShownTo(b + 1) = S \union R
  BY <1>1 DEF ShownTo
<1>4. S \cap R = {}
  BY <1>1 DEF ShownTo
<1> HIDE DEF S, R
<1>5. Cardinality(S \union R) = Cardinality(S) + Cardinality(R) - Cardinality(S \cap R)
  BY <1>1, <1>2, FS_Union
<1>6. Cardinality(S \cap R) = 0
  BY <1>4, FS_EmptySet
<1>7. b - a + 1 \in Int
  OBVIOUS
<1>8. Cardinality(S \union R) = Cardinality(S) + (b - a + 1)
  BY <1>1, <1>2, <1>5, <1>6, <1>7
<1> QED
  BY <1>3, <1>8 DEF S

\* A run of hidden positions adds nothing.
LEMMA HiddenRun ==
  ASSUME text \in Seq(Letters), NEW a \in Nat \ {0}, NEW b \in Nat, a <= b + 1,
         \A x \in a..b : x \notin Shown
  PROVE  ShownTo(b + 1) = ShownTo(a)
<1>1. \A x \in Shown : x \in Nat /\ x \notin a..b
  BY ShownFinite
<1>2. \A x \in Shown : x < b + 1 <=> x < a
  BY <1>1
<1> QED
  BY <1>2 DEF ShownTo

\* The place of a shown position is inside what has been put together.
LEMMA PlaceInside ==
  ASSUME text \in Seq(Letters), NEW a \in Nat \ {0}, NEW j \in ShownTo(a)
  PROVE  Place(j) \in 1..Cardinality(ShownTo(a)) /\ j \in Nat
<1>1. \A x \in Shown : x \in Nat
  BY ShownFinite
<1>2. j \in Shown /\ j < a /\ j \in Nat
  BY <1>1 DEF ShownTo
<1> DEFINE S == ShownTo(j + 1)
           T == ShownTo(a)
<1>3. j < j + 1 /\ \A x \in Shown : x < j + 1 => x < a
  BY <1>1, <1>2
<1>4. j \in S /\ S \subseteq T
  BY <1>2, <1>3 DEF ShownTo
<1>5. IsFiniteSet(S) /\ IsFiniteSet(T) /\ Cardinality(S) \in Nat /\ Cardinality(T) \in Nat
  BY ShownFinite
<1>6. Place(j) = Cardinality(S)
  BY <1>2, PlaceIs
<1> HIDE DEF S, T
<1>7. Cardinality(S) <= Cardinality(T)
  BY <1>4, <1>5, FS_Subset
<1>8. Cardinality(S) # 0
  BY <1>4, <1>5, FS_EmptySet
<1>9. Cardinality(S) \in 1..Cardinality(T)
  BY <1>5, <1>7, <1>8
<1> QED
  BY <1>2, <1>6, <1>9 DEF T

\* What lists the shown positions before a, followed by a run of shown ones.
LEMMA ListedOn ==
  ASSUME text \in Seq(Letters), NEW X, NEW t \in Seq(X), NEW r \in Seq(X),
         NEW a \in Nat \ {0}, NEW b \in Nat, a <= b + 1, \A x \in a..b : x \in Shown,
         Listed(t, a), Len(r) = b - a + 1, \A j \in a..b : r[j - a + 1] = Symbol(j)
  PROVE  Listed(t \o r, b + 1)
<1> DEFINE n == Len(t)
           u == t \o r
<1>1. /\ n \in Nat /\ Len(u) = n + (b - a + 1)
      /\ \A k \in 1..n : u[k] = t[k]
      /\ \A k \in 1..(b - a + 1) : u[n + k] = r[k]
  <2>1. Len(r) \in Nat /\ n \in Nat /\ Len(u) = n + Len(r)
    OBVIOUS
  <2>2. \A k \in 1..(n + Len(r)) : u[k] = IF k <= n THEN t[k] ELSE r[k - n]
    OBVIOUS
  <2> HIDE DEF n, u
  <2>3. \A k \in 1..n : k \in 1..(n + Len(r)) /\ k <= n
    BY <2>1
  <2>4. \A k \in 1..Len(r) : n + k \in 1..(n + Len(r)) /\ ~(n + k <= n) /\ n + k - n = k
    BY <2>1
  <2>5. \A k \in 1..n : u[k] = t[k]
    BY <2>2, <2>3
  <2>6. ASSUME NEW k \in 1..Len(r)
        PROVE  u[n + k] = r[k]
    <3> DEFINE m == n + k
    <3>1. m \in 1..(n + Len(r)) /\ ~(m <= n) /\ m - n = k
      BY <2>1
    <3> HIDE DEF m
    <3>2. u[m] = r[m - n]
      BY <2>2, <3>1
    <3>3. u[m] = r[k]
      BY <3>1, <3>2
    <3> QED
      BY <3>3 DEF m
  <2> QED
    BY <2>1, <2>5, <2>6
<1>2. n = Cardinality(ShownTo(a)) /\ \A j \in ShownTo(a) : t[Place(j)] = Symbol(j)
  BY DEF Listed
<1>3. Len(u) = Cardinality(ShownTo(b + 1))
  BY <1>1, <1>2, ShownRun
<1> HIDE DEF n, u
<1>4. ASSUME NEW j \in ShownTo(b + 1)
      PROVE  u[Place(j)] = Symbol(j)
  <2>1. \A x \in Shown : x \in Nat
    BY ShownFinite
  <2>2. j \in Nat /\ j \in Shown /\ j < b + 1
    BY <2>1 DEF ShownTo
  <2>3. CASE j < a
    <3>1. j \in ShownTo(a)
      BY <2>2, <2>3 DEF ShownTo
    <3>2. Place(j) \in 1..n
      BY <1>2, <3>1, PlaceInside
    <3> QED
      BY <1>1, <1>2, <3>1, <3>2
  <2>4. CASE ~(j < a)
    <3>1. j \in a..b /\ a <= j + 1 /\ \A x \in a..j : x \in a..b
      BY <2>2, <2>4
    <3>2. Place(j) = n + (j - a + 1)
      BY <1>2, <2>2, <3>1, PlaceIs, ShownRun
    <3>3. j - a + 1 \in 1..(b - a + 1)
      BY <3>1
    <3> QED
      BY <1>1, <3>1, <3>2, <3>3
  <2> QED
    BY <2>3, <2>4
<1> QED
  BY <1>3, <1>4 DEF Listed, u

\* A slice inside the text.
LEMMA SliceIs ==
  ASSUME text \in Seq(Letters), NEW a \in Nat \ {0}, NEW b \in Nat, a <= b + 1, b <= Len(text)
  PROVE  /\ Slice(a, b) \in Seq(Letters) /\ Len(Slice(a, b)) = b - a + 1
         /\ \A j \in a..b : Slice(a, b)[j - a + 1] = text[j]
<1>1. Slice(a, b) = SubSeq(text, a, b)
  <2>1. Smaller(b, Len(text)) = b
    BY DEF Smaller
  <2> QED
    BY <2>1 DEF Slice
<1> DEFINE r == SubSeq(text, a, b)
<1>2. r \in Seq(Letters) /\ Len(r) = b - a + 1 /\ \A k \in 1..(b - a + 1) : r[k] = text[a + k - 1]
  BY PieceOf
<1> HIDE DEF r
<1>3. \A j \in a..b : r[j - a + 1] = text[j]
  <2> TAKE j \in a..b
  <2>1. j - a + 1 \in 1..(b - a + 1) /\ a + (j - a + 1) - 1 = j
    OBVIOUS
  <2> QED
    BY <1>2, <2>1
<1> QED
  BY <1>1, <1>2, <1>3 DEF r

\* While the answer is put together, the segments cover what the words cover.
LEMMA SegmentsCover ==
  ASSUME FilterTyped, HitsComplete, MergedSound, HitsInOrder, phase = "replace", NEW x \in Nat
  PROVE  x \in Covered <=> InSegments(x)
<1>1. InSegments(x) <=> InFirst(x, Len(hits))
  BY DEF MergedSound, Counted
<1>2. ASSUME x \in Covered
      PROVE  InFirst(x, Len(hits))
  <2>1. PICK o \in Occurrences : x \in o[1]..o[2]
    BY <1>2 DEF Covered
  <2>2. InHits(o)
    BY DEF HitsComplete, Passed
  <2>3. PICK n \in 1..Len(hits) : hits[n][1] <= o[1] /\ o[2] <= hits[n][2]
    BY <2>2 DEF InHits
  <2>4. hits[n] \in Occurrences
    BY DEF FilterTyped
  <2>5. /\ o[1] \in Nat /\ o[2] \in Nat /\ hits[n][1] \in Nat /\ hits[n][2] \in Nat
    BY <2>4, OccurrenceIs
  <2>6. o[1] <= x /\ x <= o[2]
    BY <2>1, <2>5
  <2>7. hits[n][1] <= x /\ x <= hits[n][2]
    BY <2>3, <2>5, <2>6
  <2> QED
    BY <2>7 DEF InFirst
<1>3. ASSUME InFirst(x, Len(hits))
      PROVE  x \in Covered
  <2>1. PICK n \in 1..Len(hits) : hits[n][1] <= x /\ x <= hits[n][2]
    BY <1>3 DEF InFirst
  <2>2. hits[n] \in Occurrences
    BY DEF FilterTyped
  <2>3. x \in hits[n][1]..hits[n][2]
    BY <2>1, <2>2, OccurrenceIs
  <2> QED
    BY <2>2, <2>3 DEF Covered
<1> QED
  BY <1>1, <1>2, <1>3

\* The next segment: before it what no word covers, then one "***".
LEMMA NextSegment ==
  ASSUME FilterTyped, Apart, Aligned, AlignedLengths, i \in 1..Len(merged),
         prev = (IF i = 1 THEN 1 ELSE merged[i - 1][2] + 1),
         \A x \in Nat : x \in Covered <=> InSegments(x)
  PROVE  LET s == merged[i][1]
             e == merged[i][2]
         IN  /\ s \in Nat \ {0} /\ e \in Nat \ {0} /\ prev <= s /\ s <= e /\ e <= Len(text)
             /\ \A x \in prev..(s - 1) : x \in Shown /\ x \notin Covered
             /\ s \in Shown /\ s \in Covered
             /\ \A x \in (s + 1)..e : x \notin Shown
<1> DEFINE s == merged[i][1]
           e == merged[i][2]
<1>1. /\ s \in Nat \ {0} /\ e \in Nat \ {0} /\ s <= e /\ e <= Len(lower) /\ Len(lower) = Len(text)
      /\ Len(text) \in Nat /\ DOMAIN text = 1..Len(text)
      /\ prev \in Nat \ {0} /\ Len(merged) \in Nat
  <2>1. s \in Nat \ {0} /\ e \in Nat \ {0} /\ Len(merged) \in Nat
    BY SpansOf
  <2>2. s <= e /\ e <= Len(lower) /\ Len(lower) = Len(text)
    BY DEF Apart, AlignedLengths
  <2> QED
    BY <2>1, <2>2 DEF FilterTyped
\* Earlier segments end before prev, and later ones begin after this one.
<1>2. \A m \in 1..Len(merged) : m < i => merged[m][2] < prev
  <2> TAKE m \in 1..Len(merged)
  <2> HAVE m < i
  <2>1. i # 1 /\ i - 1 \in 1..Len(merged) /\ prev = merged[i - 1][2] + 1 /\ (m = i - 1 \/ m < i - 1)
    BY <1>1
  <2> DEFINE j == i - 1
  <2>2. /\ merged[j][1] \in Nat /\ merged[j][2] \in Nat /\ merged[j][1] <= merged[j][2]
        /\ merged[m][2] \in Nat
    BY <2>1, SpansOf DEF Apart
  <2>3. m < j => merged[m][2] + 1 < merged[j][1]
    BY <2>1 DEF Apart
  <2> HIDE DEF j
  <2>4. m = j \/ m < j
    BY <2>1 DEF j
  <2>5. prev = merged[j][2] + 1
    BY <2>1 DEF j
  <2>6. CASE m = j
    BY <2>2, <2>5, <2>6
  <2>7. CASE m < j
    <3>1. merged[m][2] + 1 < merged[j][1]
      BY <2>3, <2>7
    <3>2. merged[m][2] < merged[j][2]
      BY <2>2, <3>1
    <3> QED
      BY <2>2, <2>5, <3>2
  <2> QED
    BY <2>4, <2>6, <2>7
<1>3. \A m \in 1..Len(merged) : i < m => e + 1 < merged[m][1]
  BY DEF Apart
<1>4. prev <= s
  <2>1. CASE i = 1
    BY <1>1, <2>1
  <2>2. CASE i # 1
    <3>1. i - 1 \in 1..Len(merged) /\ i - 1 < i /\ prev = merged[i - 1][2] + 1
      BY <1>1, <2>2
    <3>2. merged[i - 1][2] + 1 < s
      BY <3>1 DEF Apart
    <3> QED
      BY <1>1, <3>1, <3>2
  <2> QED
    BY <2>1, <2>2
<1>5. ASSUME NEW x \in Nat, prev <= x, x <= e
      PROVE  x \in Covered <=> s <= x
  <2>1. ASSUME s <= x
        PROVE  InSegments(x)
    BY <1>5, <2>1 DEF InSegments
  <2>2. ASSUME InSegments(x)
        PROVE  s <= x
    <3>1. PICK m \in 1..Len(merged) : merged[m][1] <= x /\ x <= merged[m][2]
      BY <2>2 DEF InSegments
    <3>2. merged[m][1] \in Nat /\ merged[m][2] \in Nat
      BY SpansOf
    <3>3. CASE m < i
      BY <1>1, <1>2, <1>5, <3>1, <3>2, <3>3
    <3>4. CASE i < m
      BY <1>1, <1>3, <1>5, <3>1, <3>2, <3>4
    <3>5. CASE m = i
      BY <3>1, <3>5
    <3>6. m < i \/ i < m \/ m = i
      BY <1>1
    <3> QED
      BY <3>3, <3>4, <3>5, <3>6
  <2> QED
    BY <2>1, <2>2
<1>6. s - 1 \in Nat /\ s - 1 \notin Covered
  <2>1. s - 1 \in Nat
    BY <1>1
  <2>2. CASE prev <= s - 1
    <3>1. s - 1 <= e /\ ~(s <= s - 1)
      BY <1>1
    <3> HIDE DEF s, e
    <3> QED
      BY <1>5, <2>1, <2>2, <3>1
  <2>3. CASE ~(prev <= s - 1)
    <3>1. i = 1
      <4>1. SUFFICES ASSUME i # 1 PROVE FALSE
        OBVIOUS
      <4>2. i - 1 \in 1..Len(merged) /\ i - 1 < i /\ prev = merged[i - 1][2] + 1
        BY <1>1, <4>1
      <4>3. merged[i - 1][2] + 1 < s
        BY <4>2 DEF Apart
      <4> QED
        BY <1>1, <2>3, <4>2, <4>3
    <3>2. s - 1 = 0
      BY <1>1, <1>4, <2>3, <3>1
    <3>3. ~InSegments(0)
      <4>1. \A m \in 1..Len(merged) : ~(merged[m][1] <= 0)
        BY SpansOf
      <4> QED
        BY <4>1 DEF InSegments
    <3> QED
      BY <3>2, <3>3
  <2> QED
    BY <2>1, <2>2, <2>3
<1> HIDE DEF s, e
<1>7. ASSUME NEW x \in prev..(s - 1)
      PROVE  x \in Shown /\ x \notin Covered
  <2>1. x \in Nat /\ prev <= x /\ x <= e /\ ~(s <= x) /\ x \in DOMAIN text
    BY <1>1
  <2>2. x \notin Covered
    BY <1>5, <2>1
  <2> QED
    BY <2>1, <2>2 DEF Shown
<1>8. s \in Shown /\ s \in Covered
  <2>1. s \in Nat /\ s <= s /\ s \in DOMAIN text
    BY <1>1
  <2>2. s \in Covered
    BY <1>1, <1>4, <1>5, <2>1
  <2> QED
    BY <1>6, <2>1, <2>2 DEF Shown
<1>9. ASSUME NEW x \in (s + 1)..e
      PROVE  x \notin Shown
  <2>1. x \in Nat /\ prev <= x /\ x <= e /\ s <= x
    BY <1>1, <1>4
  <2>2. x - 1 \in Nat /\ prev <= x - 1 /\ x - 1 <= e /\ s <= x - 1
    BY <1>1, <1>4
  <2>3. x \in Covered /\ x - 1 \in Covered
    BY <1>5, <2>1, <2>2
  <2> QED
    BY <2>3 DEF Shown
<1> QED
  BY <1>1, <1>4, <1>7, <1>8, <1>9 DEF s, e

\* What follows the last segment is shown.
LEMMA AfterSegments ==
  ASSUME FilterTyped, Apart, Aligned, AlignedLengths, i = Len(merged) + 1,
         prev = (IF i = 1 THEN 1 ELSE merged[i - 1][2] + 1),
         \A x \in Nat : x \in Covered <=> InSegments(x)
  PROVE  prev <= Len(text) + 1 /\ \A x \in prev..Len(text) : x \in Shown /\ x \notin Covered
<1>1. Len(lower) = Len(text) /\ Len(text) \in Nat /\ DOMAIN text = 1..Len(text)
      /\ prev \in Nat \ {0} /\ Len(merged) \in Nat
  BY DEF AlignedLengths, FilterTyped
<1>2. prev <= Len(text) + 1
  <2>1. CASE i = 1
    BY <1>1, <2>1
  <2>2. CASE i # 1
    <3>1. i - 1 \in 1..Len(merged) /\ prev = merged[i - 1][2] + 1
      BY <1>1, <2>2
    <3>2. merged[i - 1][2] <= Len(lower) /\ merged[i - 1][2] \in Nat
      BY <3>1, SpansOf DEF Apart
    <3> QED
      BY <1>1, <3>1, <3>2
  <2> QED
    BY <2>1, <2>2
<1>3. ASSUME NEW m \in 1..Len(merged)
      PROVE  merged[m][2] < prev
  <2> DEFINE j == i - 1
  <2>1. i # 1 /\ j \in 1..Len(merged) /\ prev = merged[j][2] + 1 /\ (m = j \/ m < j)
    BY <1>1
  <2> HIDE DEF j
  <2>2. /\ merged[j][1] \in Nat /\ merged[j][2] \in Nat /\ merged[j][1] <= merged[j][2]
        /\ merged[m][2] \in Nat
    BY <2>1, SpansOf DEF Apart
  <2>3. m < j => merged[m][2] + 1 < merged[j][1]
    BY <2>1 DEF Apart
  <2>4. CASE m = j
    BY <2>1, <2>2, <2>4
  <2>5. CASE m < j
    BY <2>1, <2>2, <2>3, <2>5
  <2> QED
    BY <2>1, <2>4, <2>5
<1>4. ASSUME NEW x \in prev..Len(text)
      PROVE  x \in Shown /\ x \notin Covered
  <2>1. x \in Nat /\ x \in DOMAIN text
    BY <1>1
  <2>2. \A m \in 1..Len(merged) : ~(x <= merged[m][2])
    <3> TAKE m \in 1..Len(merged)
    <3>1. merged[m][2] < prev /\ merged[m][2] \in Nat
      BY <1>3, SpansOf
    <3> QED
      BY <1>1, <3>1
  <2>3. x \notin Covered
    BY <2>1, <2>2 DEF InSegments
  <2> QED
    BY <2>1, <2>3 DEF Shown
<1> QED
  BY <1>2, <1>4

\* A list of all shown positions is what is expected.
LEMMA ListedIsExpected ==
  ASSUME text \in Seq(Letters), NEW t, Listed(t, Len(text) + 1)
  PROVE  Expected(t)
<1>1. \A j \in Shown : j \in 1..Len(text)
  BY ShownFinite
<1>2. \A j \in Shown : j < Len(text) + 1
  BY <1>1
<1>3. ShownTo(Len(text) + 1) = Shown
  BY <1>2 DEF ShownTo
<1> QED
  BY <1>3 DEF Listed, Expected, Symbol

\* What is put together lists the positions shown before prev
\* (sensitive.py:51-60).
LEMMA AnswerSoundKept ==
  ASSUME FilterTyped, HitsComplete, AlignedLengths, Apart, MergedSound, AnswerSound,
         [FilterNext]_filterVars
  PROVE  AnswerSound'
<1> FilterMoves
  BY FilterMovesAre
<1>1. ASSUME phase' \notin {"replace", "done"}
      PROVE  AnswerSound'
  BY <1>1 DEF AnswerSound
<1>2. /\ text \in Seq(Letters) /\ Len(text) \in Nat /\ Len(merged) \in Nat /\ i \in Nat \ {0}
      /\ answer \in Seq(Letters \union {Stars}) /\ prev \in Nat \ {0}
  BY DEF FilterTyped
\* The answer is listed, and what it is compared with does not change.
<1>3. ASSUME UNCHANGED <<words, text, lower, hits>>
      PROVE  /\ Aligned' <=> Aligned
             /\ HitsInOrder' <=> HitsInOrder
             /\ Listed(answer, prev)' <=> Listed(answer', prev')
             /\ Expected(answer)' <=> Expected(answer')
  <2>1. Covered' = Covered
    BY <1>3, FixedParts
  <2>2. Shown' = Shown
    BY <1>3, <2>1 DEF Shown
  <2>3. Aligned' <=> Aligned
    BY <1>3 DEF Aligned
  <2>4. HitsInOrder' <=> HitsInOrder
    BY <1>3 DEF HitsInOrder
  <2>5. Listed(answer, prev)' <=> Listed(answer', prev')
    BY <1>3, <2>1, <2>2 DEF Listed, ShownTo, Place, Symbol
  <2>6. Expected(answer)' <=> Expected(answer')
    BY <1>3, <2>1, <2>2 DEF Expected, Place
  <2> QED
    BY <2>3, <2>4, <2>5, <2>6
<1>4. ASSUME Fixed, Merged
      PROVE  AnswerSound'
  <2>1. phase' = "replace" /\ i' = 1 /\ prev' = 1 /\ answer' = <<>> /\ merged' = merged
        /\ UNCHANGED <<words, text, lower, hits>>
    BY <1>4 DEF Merged, Fixed, input, scan, result, FilterTyped
  <2>2. ShownTo(1) = {}
    <3>1. \A x \in Shown : x \in Nat \ {0}
      BY <1>2, ShownFinite
    <3>2. \A x \in Shown : ~(x < 1)
      BY <3>1
    <3> QED
      BY <3>2 DEF ShownTo
  <2>3. Listed(<<>>, 1)
    BY <2>2, FS_EmptySet DEF Listed
  <2>4. 1 <= Len(merged) + 1
    BY <1>2
  <2>5. Listed(answer', prev')
    BY <2>1, <2>3
  <2> QED
    BY <1>3, <2>1, <2>4, <2>5 DEF AnswerSound
<1>5. ASSUME phase = "replace", HitsInOrder
      PROVE  \A x \in Nat : x \in Covered <=> InSegments(x)
  BY <1>5, SegmentsCover
<1>6. ASSUME Fixed, Replace
      PROVE  AnswerSound'
  <2> DEFINE s == merged[i][1]
             e == merged[i][2]
             r == Slice(prev, s - 1)
  <2>1. /\ phase = "replace" /\ phase' = "replace" /\ i <= Len(merged) /\ i' = i + 1
        /\ answer' = answer \o r \o <<Stars>> /\ prev' = e + 1
        /\ UNCHANGED <<words, text, lower, hits, merged>>
    BY <1>6 DEF Replace, Fixed, input, scan
  <2>2. prev = IF i = 1 THEN 1 ELSE merged[i - 1][2] + 1
    BY <2>1 DEF AnswerSound
  <2>3. i' <= Len(merged') + 1 /\ i' # 1 /\ prev' = merged'[i' - 1][2] + 1
    <3>1. i' # 1 /\ i' - 1 = i /\ i' <= Len(merged) + 1
      BY <1>2, <2>1
    <3> QED
      BY <2>1, <3>1
  <2>4. ASSUME Aligned, HitsInOrder
        PROVE  Listed(answer', prev')
    <3>1. /\ s \in Nat \ {0} /\ e \in Nat \ {0} /\ prev <= s /\ s <= e /\ e <= Len(text)
          /\ \A x \in prev..(s - 1) : x \in Shown /\ x \notin Covered
          /\ s \in Shown /\ s \in Covered
          /\ \A x \in (s + 1)..e : x \notin Shown
      <4>1. i \in 1..Len(merged)
        BY <1>2, <2>1
      <4> QED
        BY <1>5, <2>1, <2>2, <2>4, <4>1, NextSegment
    <3> HIDE DEF s, e
    <3>2. /\ s - 1 \in Nat /\ prev <= s - 1 + 1 /\ s - 1 <= Len(text)
          /\ s - 1 + 1 = s /\ s - 1 - prev + 1 = s - prev
      BY <1>2, <3>1
    <3>3. /\ r \in Seq(Letters) /\ Len(r) = s - 1 - prev + 1
          /\ \A j \in prev..(s - 1) : r[j - prev + 1] = text[j]
      BY <1>2, <3>2, SliceIs
    <3>4. r \in Seq(Letters \union {Stars})
      <4> HIDE DEF r
      <4> QED
        BY <3>3
    <3>5. \A j \in prev..(s - 1) : r[j - prev + 1] = Symbol(j)
      BY <3>1, <3>3 DEF Symbol
    <3>6. Listed(answer, prev)
      BY <2>1, <2>4 DEF AnswerSound
    <3> HIDE DEF r
    <3>7. Listed(answer \o r, s - 1 + 1)
      <4> DEFINE b == s - 1
      <4>1. /\ b \in Nat /\ prev <= b + 1 /\ \A x \in prev..b : x \in Shown
            /\ Len(r) = b - prev + 1 /\ \A j \in prev..b : r[j - prev + 1] = Symbol(j)
        BY <3>1, <3>2, <3>3, <3>5
      <4> HIDE DEF b
      <4>2. Listed(answer \o r, b + 1)
        BY <1>2, <3>4, <3>6, <4>1, ListedOn
      <4> QED
        BY <4>2 DEF b
    <3> DEFINE t == answer \o r
               one == <<Stars>>
    <3>8. t \in Seq(Letters \union {Stars}) /\ Listed(t, s)
      BY <1>2, <3>2, <3>4, <3>7
    <3>9. /\ one \in Seq(Letters \union {Stars}) /\ Len(one) = s - s + 1
          /\ \A j \in s..s : one[j - s + 1] = Symbol(j)
          /\ s <= s + 1 /\ \A x \in s..s : x \in Shown
      <4>1. Symbol(s) = Stars
        BY <3>1 DEF Symbol
      <4>2. s - s + 1 = 1 /\ s <= s + 1 /\ \A j \in s..s : j = s
        BY <3>1
      <4>3. one \in Seq(Letters \union {Stars}) /\ Len(one) = 1 /\ one[1] = Stars
        OBVIOUS
      <4> HIDE DEF one
      <4>4. ASSUME NEW j \in s..s
            PROVE  one[j - s + 1] = Symbol(j)
        <5>1. j = s /\ j - s + 1 = 1
          BY <4>2
        <5> QED
          BY <4>1, <4>3, <5>1
      <4> QED
        BY <3>1, <4>2, <4>3, <4>4
    <3> HIDE DEF t, one
    <3>10. Listed(t \o one, s + 1)
      BY <1>2, <3>1, <3>8, <3>9, ListedOn
    <3>11. ShownTo(e + 1) = ShownTo(s + 1)
      <4> DEFINE a == s + 1
      <4>1. a \in Nat \ {0} /\ a <= e + 1 /\ \A x \in a..e : x \notin Shown
        BY <3>1
      <4> HIDE DEF a
      <4>2. ShownTo(e + 1) = ShownTo(a)
        BY <1>2, <3>1, <4>1, HiddenRun
      <4> QED
        BY <4>2 DEF a
    <3>12. Listed(t \o one, e + 1)
      BY <3>10, <3>11 DEF Listed
    <3>13. answer' = t \o one /\ prev' = e + 1
      BY <2>1 DEF t, one, r, s, e
    <3> QED
      BY <3>12, <3>13
  <2> QED
    BY <1>3, <2>1, <2>3, <2>4 DEF AnswerSound
<1>7. ASSUME Fixed, Rest
      PROVE  AnswerSound'
  <2> DEFINE n == Len(text)
             r == Slice(prev, n)
  <2>1. /\ phase = "replace" /\ phase' = "done" /\ i > Len(merged)
        /\ answer' = answer \o r
        /\ UNCHANGED <<words, text, lower, hits, merged>>
    BY <1>7 DEF Rest, Fixed, input, scan
  <2>2. i = Len(merged) + 1 /\ prev = IF i = 1 THEN 1 ELSE merged[i - 1][2] + 1
    BY <1>2, <2>1 DEF AnswerSound
  <2>3. ASSUME Aligned, HitsInOrder
        PROVE  Expected(answer')
    <3>1. prev <= n + 1 /\ \A x \in prev..n : x \in Shown /\ x \notin Covered
      BY <1>5, <2>1, <2>2, <2>3, AfterSegments
    <3>2. /\ r \in Seq(Letters) /\ Len(r) = n - prev + 1
          /\ \A j \in prev..n : r[j - prev + 1] = text[j]
      <4>1. n \in Nat /\ n <= Len(text)
        BY <1>2
      <4> HIDE DEF n
      <4> QED
        BY <1>2, <3>1, <4>1, SliceIs
    <3>3. r \in Seq(Letters \union {Stars})
      <4> HIDE DEF r
      <4> QED
        BY <3>2
    <3>4. \A j \in prev..n : r[j - prev + 1] = Symbol(j)
      BY <3>1, <3>2 DEF Symbol
    <3>5. Listed(answer, prev)
      BY <2>1, <2>3 DEF AnswerSound
    <3> HIDE DEF r
    <3>6. Listed(answer \o r, n + 1)
      BY <1>2, <3>1, <3>2, <3>3, <3>4, <3>5, ListedOn
    <3> QED
      BY <1>2, <2>1, <3>6, ListedIsExpected
  <2> QED
    BY <1>3, <2>1, <2>3 DEF AnswerSound
<1>8. ASSUME UNCHANGED filterVars
      PROVE  AnswerSound'
  <2>1. UNCHANGED <<phase, i, merged, answer, prev, words, text, lower, hits>>
    BY <1>8 DEF filterVars, tables, input, scan, result
  <2> QED
    BY <1>3, <2>1 DEF AnswerSound
<1>9. LoadMove \/ (\E c \in Letters : Type(c)) \/ Call \/ Return
      => phase' \notin {"replace", "done"}
  BY DEF LoadMove, Type, Call, Return
<1>10. DFAStep \/ FallBack \/ ACStep \/ Scanned \/ Merge => phase' \notin {"replace", "done"}
  BY DEF DFAStep, FallBack, ACStep, Scanned, Merge
<1> QED
  BY <1>1, <1>4, <1>6, <1>7, <1>8, <1>9, <1>10 DEF FilterMoves

-----------------------------------------------------------------------------
\* Both parts of the invariant hold in every state: after any loads and for
\* any texts.
THEOREM FilteringInvariance == FilterSpec => [](Loading /\ Filtering)
<1>1. FilterInit => Filtering
  <2> SUFFICES ASSUME FilterInit
               PROVE  Filtering
    OBVIOUS
  <2>1. /\ phase = "idle" /\ i = 1 /\ text = <<>> /\ lower = <<>> /\ node = Root
        /\ hits = <<>> /\ merged = <<>> /\ answer = <<>> /\ prev = 1
    BY DEF FilterInit
  <2>2. node \in Nodes
    BY <2>1, RootIsNode DEF Nodes
  <2>3. FilterTyped
    BY <2>1, <2>2 DEF FilterTyped
  <2>4. StateRight /\ HitsComplete /\ DfaInOrder /\ AlignedLengths
    BY <2>1 DEF StateRight, HitsComplete, DfaInOrder, HitsInOrder, AlignedLengths
  <2>5. Apart /\ MergedSound /\ AnswerSound
    BY <2>1 DEF Apart, MergedSound, AnswerSound
  <2> QED
    BY <2>3, <2>4, <2>5 DEF Filtering
<1>2. Loading /\ Loading' /\ Filtering /\ [FilterNext]_filterVars => Filtering'
  <2> SUFFICES ASSUME Loading, Loading', Filtering, [FilterNext]_filterVars
               PROVE  Filtering'
    OBVIOUS
  <2>1. /\ FilterTyped /\ StateRight /\ HitsComplete /\ DfaInOrder /\ AlignedLengths
        /\ Apart /\ MergedSound /\ AnswerSound
    BY DEF Filtering
  <2>2. FilterTyped' /\ StateRight' /\ HitsComplete'
    BY <2>1, FilterTypedKept, StateRightKept, HitsCompleteKept
  <2>3. DfaInOrder' /\ AlignedLengths' /\ Apart'
    BY <2>1, DfaInOrderKept, AlignedLengthsKept, ApartKept
  <2>4. MergedSound' /\ AnswerSound'
    BY <2>1, MergedSoundKept, AnswerSoundKept
  <2> QED
    BY <2>2, <2>3, <2>4 DEF Filtering
<1>3. FilterSpec => []Loading
  BY LoadingInvariance
<1> QED
  BY <1>1, <1>2, <1>3, PTL DEF FilterSpec

\* Both filters find every position inside an occurrence of a word and no
\* other, after any number of loads (sensitive.py:97-116 and 174-184).
THEOREM FilterFindsAll == FilterSpec => []FindsAll
<1>1. Loading /\ Filtering => FindsAll
  <2> SUFFICES ASSUME Filtering, phase = "merge"
               PROVE  CoveredByHits = Covered
    BY DEF FindsAll
  <2>1. FilterTyped /\ HitsComplete
    BY DEF Filtering
  <2>2. hits \in Seq(Occurrences) /\ DOMAIN hits = 1..Len(hits)
    BY <2>1 DEF FilterTyped
  <2>3. ASSUME NEW x \in CoveredByHits
        PROVE  x \in Covered
    <3>1. PICK n \in 1..Len(hits) : x \in hits[n][1]..hits[n][2]
      BY <2>2 DEF CoveredByHits
    <3>2. hits[n] \in Occurrences
      BY <2>2
    <3> QED
      BY <3>1, <3>2 DEF Covered
  <2>4. ASSUME NEW x \in Covered
        PROVE  x \in CoveredByHits
    <3>1. PICK o \in Occurrences : x \in o[1]..o[2]
      BY DEF Covered
    <3>2. PICK n \in 1..Len(hits) : hits[n][1] <= o[1] /\ o[2] <= hits[n][2]
      BY <2>1 DEF HitsComplete, Passed, InHits
    <3>3. hits[n] \in Occurrences
      BY <2>2
    <3>4. hits[n][1] \in Nat /\ hits[n][2] \in Nat /\ o[1] \in Nat /\ o[2] \in Nat
      BY <3>3, OccurrenceIs
    <3>5. x \in hits[n][1]..hits[n][2]
      BY <3>1, <3>2, <3>4
    <3> QED
      BY <2>2, <3>5 DEF CoveredByHits
  <2> QED
    BY <2>3, <2>4
<1> QED
  BY <1>1, FilteringInvariance, PTL

\* The answer shows one "***" for each run of such positions and all other
\* characters, in order: always that of the trie, that of the automaton if its
\* hits come in the order of their beginnings (sensitive.py:36-60).
THEOREM FilterHidesWords == FilterSpec => []HidesWords
<1>1. Loading /\ Filtering => HidesWords
  BY DEF Filtering, AnswerSound, DfaInOrder, HidesWords
<1> QED
  BY <1>1, FilteringInvariance, PTL

\* Outside of load() the tables are what Aho and Corasick define.
TablesRight ==
  impl = "ac" /\ phase # "load" =>
    \A p \in Nodes \ {Root} : IsLink(fail[p], p, words) /\ IsOut(out[p], p, words)

\* load() leaves each node with a link to the longest proper end that is a
\* node, and with the longest word that ends there: the pass of Aho and Corasick
\* is right however often words are loaded (sensitive.py:147-166).
THEOREM TablesAreRight == FilterSpec => []TablesRight
<1>1. Loading => TablesRight
  BY AllLinksRight DEF TablesRight
<1> QED
  BY <1>1, LoadingInvariance, PTL

-----------------------------------------------------------------------------
\* FileStore: what a request knows at each step.

\* An upload has put its object before it reaches the record.
StoredBeforeRecord == \A k \in Keys : step[k] = "record" => k \in objects
\* A download has read the record of the object it asks for.
WantedIsRecorded == \A r \in Readers : wanted[r] \subseteq files
\* The steps an upload and a download may stand at.
OwnSteps ==
  /\ \A k \in Keys : step[k] \notin {"get", "lost", "not_found"}
  /\ \A r \in Readers : step[r] \notin {"put", "record"}

IInv ==
  /\ TypeOK /\ StoredBeforeRecord /\ WantedIsRecorded /\ OwnSteps
  /\ RecordHasObject /\ OrphanIsFailure

\* The store is empty and nobody asks for anything at the start.
LEMMA InitIInv == Init => IInv
<1> SUFFICES ASSUME Init
             PROVE  IInv
  OBVIOUS
<1>1. \A r \in Requests : step[r] = "idle"
  BY DEF Init
<1>2. TypeOK
  <2>1. step \in [Requests -> Resting \union {"ensure", "make", "put", "record", "get"}]
    BY DEF Init, Resting
  <2>2. wanted \in [Readers -> SUBSET Keys]
    BY DEF Init
  <2>3. QED
    BY <1>1, <2>1, <2>2 DEF Init, TypeOK
<1>3. StoredBeforeRecord /\ OwnSteps
  BY <1>1 DEF StoredBeforeRecord, OwnSteps, Requests
<1>4. WantedIsRecorded
  BY DEF Init, WantedIsRecorded
<1>5. RecordHasObject /\ OrphanIsFailure
  BY <1>1 DEF Init, RecordHasObject, OrphanIsFailure, Requests
<1>6. QED
  BY <1>2, <1>3, <1>4, <1>5 DEF IInv

\* _ensure_bucket changes neither objects nor records.
LEMMA EnsureKeeps ==
  ASSUME IInv, NEW r \in Requests, EnsureBucket(r)
  PROVE  IInv'
<1> USE RequestsAssumption DEF IInv, TypeOK, StoredBeforeRecord, WantedIsRecorded,
        OwnSteps, RecordHasObject, OrphanIsFailure, Requests, Resting, Answers, Goto
<1>1. CASE CheckBucket(r)
  BY <1>1 DEF CheckBucket, Ensured
<1>2. CASE MakeBucket(r)
  BY <1>2 DEF MakeBucket, Ensured
<1>3. QED
  BY <1>1, <1>2 DEF EnsureBucket

\* Every step of an upload, those whose answer is lost included.
LEMMA UploadKeeps ==
  ASSUME IInv, NEW k \in Keys, Upload(k) \/ PutAnswerLost(k) \/ CommitAnswerLost(k)
  PROVE  IInv'
<1> USE RequestsAssumption DEF IInv, TypeOK, StoredBeforeRecord, WantedIsRecorded,
        OwnSteps, RecordHasObject, OrphanIsFailure, Requests, Resting, Answers, Goto
<1>1. CASE BeginUpload(k)
  BY <1>1 DEF BeginUpload
<1>2. CASE PutObject(k)
  BY <1>2 DEF PutObject
<1>3. CASE RecordFile(k)
  BY <1>3 DEF RecordFile
<1>4. CASE PutAnswerLost(k)
  BY <1>4 DEF PutAnswerLost
<1>5. CASE CommitAnswerLost(k)
  BY <1>5 DEF CommitAnswerLost
<1>6. QED
  BY <1>1, <1>2, <1>3, <1>4, <1>5 DEF Upload

\* Every step of a download.
LEMMA DownloadKeeps ==
  ASSUME IInv, NEW r \in Readers, Download(r)
  PROVE  IInv'
<1> USE RequestsAssumption DEF IInv, TypeOK, StoredBeforeRecord, WantedIsRecorded,
        OwnSteps, RecordHasObject, OrphanIsFailure, Requests, Resting, Answers, Goto
<1>1. CASE ReadRecord(r)
  BY <1>1 DEF ReadRecord
<1>2. CASE GetObject(r)
  BY <1>2 DEF GetObject
<1>3. QED
  BY <1>1, <1>2 DEF Download

\* A refused call and a restart leave what is stored alone.
LEMMA FailureKeeps ==
  ASSUME IInv, Restart \/ \E r \in Requests : Fails(r)
  PROVE  IInv'
<1> USE RequestsAssumption DEF IInv, TypeOK, StoredBeforeRecord, WantedIsRecorded,
        OwnSteps, RecordHasObject, OrphanIsFailure, Requests, Resting, Answers, Goto
<1>1. CASE Restart
  <2>1. /\ step' \in [Requests -> Resting]
        /\ \A r \in Requests : step'[r] = step[r] \/ step'[r] = "failed"
        /\ \A k \in Keys : step[k] = "record" => step'[k] = "failed"
    BY <1>1 DEF Restart
  <2>2. /\ step' \in [Requests -> Resting \union {"ensure", "make", "put", "record", "get"}]
        /\ \A r \in Requests : step'[r] \notin {"put", "record", "get"}
    BY <2>1
  <2>3. TypeOK'
    <3>1. /\ bucket' = bucket /\ objects' = objects /\ files' = files
          /\ wanted' = wanted /\ ready' = FALSE /\ restarts' = restarts + 1
      BY <1>1 DEF Restart
    <3>2. restarts' \in Nat
      BY <3>1
    <3>3. wanted' \in [Readers -> SUBSET Keys]
      BY <3>1
    <3>4. QED
      BY <2>2, <3>1, <3>2, <3>3
  <2>4. QED
    BY <1>1, <2>1, <2>3 DEF Restart
<1>2. ASSUME NEW r \in Requests, Fails(r)
      PROVE  IInv'
  BY <1>2 DEF Fails
<1>3. QED
  BY <1>1, <1>2

\* IInv is an invariant of FileStore.
THEOREM Invariance == Spec => []IInv
<1>1. ASSUME IInv, [Next]_vars
      PROVE  IInv'
  <2>1. CASE Next
    BY <1>1, <2>1, EnsureKeeps, UploadKeeps, DownloadKeeps, FailureKeeps DEF Next
  <2>2. CASE UNCHANGED vars
    BY <1>1, <2>2 DEF vars, IInv, TypeOK, StoredBeforeRecord, WantedIsRecorded,
       OwnSteps, RecordHasObject, OrphanIsFailure
  <2>3. QED
    BY <1>1, <2>1, <2>2
<1>2. QED
  BY InitIInv, <1>1, PTL DEF Spec

\* The flag _bucket_ready is never ahead of the store, and types hold.
THEOREM TypeCorrect == Spec => []TypeOK
  BY Invariance, PTL DEF IInv

\* Whatever is recorded can be downloaded, after any failure or restart
\* (file_service.py:39-49).
THEOREM RecordedIsStored == Spec => []RecordHasObject
  BY Invariance, PTL DEF IInv

\* Objects without a record are those of failed or unfinished uploads.
THEOREM OrphansAreFailures == Spec => []OrphanIsFailure
  BY Invariance, PTL DEF IInv
=============================================================================
