-------------------------- MODULE SensitiveFilter ---------------------------
(***************************************************************************)
(* The two filters for sensitive words: DFAFilter walks a trie from every  *)
(* position of the text, ACFilter scans the text once with the fail links  *)
(* of Aho and Corasick; both hand their hits to _replace_hits.  A filter   *)
(* is loaded, possibly again with more words, and called for one text      *)
(* after the other; a step is one iteration of a loop.                     *)
(*                                                                         *)
(* A node of a trie is the path that leads to it, the root the empty path. *)
(* Positions count from 1, and a hit <<s, e>> stands for the positions     *)
(* s..e.  A filter without words, or a text without letters, has no hits:  *)
(* the early returns of filter() need no action of their own.              *)
(***************************************************************************)
EXTENDS Naturals, Sequences, FiniteSets

CONSTANTS Letters,     \* what users type
          Chars,       \* what lower-cased text consists of
          Lower,       \* Lower[c]: the characters c.lower() consists of
          Batches,     \* what load() may be given: sets of words in lower case,
                       \* without those it skips
          MaxWords,    \* bound: words loaded
          MaxText      \* bound: length of a text

ASSUME LowerAssumption == Lower \in [Letters -> Seq(Chars)]
ASSUME BatchesAssumption == \A W \in Batches : \A w \in W : w \in Seq(Chars) /\ w # <<>>

VARIABLES
  impl,    \* the filter in use
  words,   \* the words loaded
  fail,    \* ACFilter._fail
  out,     \* ACFilter._out
  queue, cur, todo, nxt, f,
           \* ACFilter.load: the queue, the node taken from it, its children
           \* still to come, the one at hand, and the link it follows
  text,    \* the argument of filter()
  lower,   \* text.lower()
  phase,   \* where the filter stands
  i,       \* next position of lower, later of hits and of merged
  node,    \* ACFilter.filter: the state of the automaton
  hits,    \* the hits, in the order they were found
  merged,  \* _replace_hits: the segments
  answer,  \* ... and what has been put together
  prev     \* ... up to this position of the text

tables == <<words, fail, out>>
bfs == <<queue, cur, todo, nxt, f>>
input == <<text, lower>>
scan == <<node, hits>>
result == <<merged, answer, prev>>
filterVars == <<impl, phase, i, tables, bfs, input, scan, result>>

Stars == "***"
Larger(a, b) == IF a < b THEN b ELSE a
Smaller(a, b) == IF a < b THEN a ELSE b

Root == <<>>
\* The nodes of the trie of a set of words.
NodesOf(W) == {Root} \union UNION {{SubSeq(w, 1, n) : n \in 0..Len(w)} : w \in W}
Nodes == NodesOf(words)
Parent(p) == SubSeq(p, 1, Len(p) - 1)
Children(p, W) == {q \in NodesOf(W) : q # Root /\ Parent(q) = p}

FilterInit ==
  /\ impl \in {"dfa", "ac"}
  /\ phase = "idle" /\ i = 1
  /\ words = {} /\ fail = [p \in {Root} |-> Root] /\ out = [p \in {Root} |-> 0]
  /\ queue = <<>> /\ cur = Root /\ todo = {} /\ nxt = Root /\ f = Root
  /\ text = <<>> /\ lower = <<>>
  /\ node = Root /\ hits = <<>>
  /\ merged = <<>> /\ answer = <<>> /\ prev = 1

-----------------------------------------------------------------------------
\* load

\* DFAFilter.load.
LoadTrie(W) ==
  /\ impl = "dfa" /\ phase = "idle" /\ text = <<>>
  /\ Cardinality(words \union W) <= MaxWords
  /\ words' = words \union W
  /\ UNCHANGED <<impl, phase, i, fail, out, bfs, input, scan, result>>

\* ACFilter.load: a new node has the root for its link, an old one the link of
\* the last load, until the breadth-first pass comes to it.
LoadWords(W) ==
  LET known == words \union W
  IN  /\ impl = "ac" /\ phase = "idle" /\ text = <<>>
      /\ Cardinality(known) <= MaxWords
      /\ words' = known
      /\ fail' = [p \in NodesOf(known) |-> IF p \in Nodes THEN fail[p] ELSE Root]
      /\ out' = [p \in NodesOf(known) |->
                   Larger(IF p \in Nodes THEN out[p] ELSE 0, IF p \in W THEN Len(p) ELSE 0)]
      /\ phase' = "load"
      /\ cur' = Root /\ todo' = Children(Root, known)
      /\ UNCHANGED <<impl, i, queue, nxt, f, input, scan, result>>

\* The children of the root, in the order of the dict.
QueueFirst(p) ==
  /\ phase = "load" /\ cur = Root /\ p \in todo
  /\ queue' = Append(queue, p) /\ todo' = todo \ {p}
  /\ UNCHANGED <<impl, phase, i, tables, cur, nxt, f, input, scan, result>>

PopLeft ==
  /\ phase = "load" /\ todo = {} /\ nxt = Root /\ queue # <<>>
  /\ cur' = Head(queue) /\ todo' = Children(Head(queue), words) /\ queue' = Tail(queue)
  /\ UNCHANGED <<impl, phase, i, tables, nxt, f, input, scan, result>>

NextChild(p) ==
  /\ phase = "load" /\ cur # Root /\ nxt = Root /\ p \in todo
  /\ nxt' = p /\ todo' = todo \ {p} /\ queue' = Append(queue, p)
  /\ f' = fail[cur]
  /\ UNCHANGED <<impl, phase, i, tables, cur, input, scan, result>>

\* The node n has no child for the character c.
Stuck(n, c) == n # Root /\ Append(n, c) \notin Nodes
Child(n, c) == IF Append(n, c) \in Nodes THEN Append(n, c) ELSE Root

FollowFail ==
  /\ phase = "load" /\ nxt # Root /\ Stuck(f, nxt[Len(nxt)])
  /\ f' = fail[f]
  /\ UNCHANGED <<impl, phase, i, tables, queue, cur, todo, nxt, input, scan, result>>

MutantLink ==                  \* words that end inside a longer one are not passed on
  LET found == Child(f, nxt[Len(nxt)])
  IN  /\ phase = "load" /\ nxt # Root /\ ~Stuck(f, nxt[Len(nxt)])
      /\ fail' = [fail EXCEPT ![nxt] = IF found = nxt THEN Root ELSE found]
      /\ nxt' = Root /\ f' = Root
      /\ UNCHANGED <<impl, phase, i, words, out, queue, cur, todo, input, scan, result>>
\* The link, and the longest word that ends here.
Link ==
  LET found == Child(f, nxt[Len(nxt)])
      link == IF found = nxt THEN Root ELSE found
  IN  /\ phase = "load" /\ nxt # Root /\ ~Stuck(f, nxt[Len(nxt)])
      /\ fail' = [fail EXCEPT ![nxt] = link]
      /\ out' = [out EXCEPT ![nxt] = Larger(out[nxt], out[link])]
      /\ nxt' = Root /\ f' = Root
      /\ UNCHANGED <<impl, phase, i, words, queue, cur, todo, input, scan, result>>

Loaded ==
  /\ phase = "load" /\ todo = {} /\ nxt = Root /\ queue = <<>>
  /\ phase' = "idle" /\ cur' = Root
  /\ UNCHANGED <<impl, i, tables, queue, todo, nxt, f, input, scan, result>>

-----------------------------------------------------------------------------
\* filter

\* A text is put together outside of the filter, right before the call.
Type(c) ==
  /\ phase = "idle" /\ Len(text) < MaxText
  /\ text' = Append(text, c) /\ lower' = lower \o Lower[c]
  /\ UNCHANGED <<impl, phase, i, tables, bfs, scan, result>>

Call ==
  /\ phase = "idle"
  /\ phase' = "scan" /\ i' = 1 /\ node' = Root /\ hits' = <<>>
  /\ UNCHANGED <<impl, tables, bfs, input, result>>

\* Where words end that begin at k.
EndsFrom(k) == {e \in k..Len(lower) : SubSeq(lower, k, e) \in words}
MutantLongest(ends) == CHOOSE e \in ends : \A d \in ends : e <= d     \* stops at the first
Longest(ends) == CHOOSE e \in ends : \A d \in ends : d <= e

\* The walk goes on at the next position, not after the hit.
DFAStep ==
  /\ phase = "scan" /\ impl = "dfa" /\ i <= Len(lower)
  /\ hits' = IF EndsFrom(i) = {} THEN hits ELSE Append(hits, <<i, Longest(EndsFrom(i))>>)
  /\ i' = i + 1
  /\ UNCHANGED <<impl, phase, tables, bfs, input, node, result>>

FallBack ==
  /\ phase = "scan" /\ impl = "ac" /\ i <= Len(lower) /\ Stuck(node, lower[i])
  /\ node' = fail[node]
  /\ UNCHANGED <<impl, phase, i, tables, bfs, input, hits, result>>

ACStep ==
  LET next == Child(node, lower[i])
  IN  /\ phase = "scan" /\ impl = "ac" /\ i <= Len(lower) /\ ~Stuck(node, lower[i])
      /\ node' = next
      /\ hits' = IF out[next] = 0 THEN hits ELSE Append(hits, <<i - out[next] + 1, i>>)
      /\ i' = i + 1
      /\ UNCHANGED <<impl, phase, tables, bfs, input, result>>

Scanned ==
  /\ phase = "scan" /\ i > Len(lower)
  /\ phase' = "merge" /\ i' = 1
  /\ UNCHANGED <<impl, tables, bfs, input, scan, result>>

-----------------------------------------------------------------------------
\* _replace_hits

\* A hit that begins in the last segment, or right after it, extends it.
Extends(x) == merged # <<>> /\ x[1] <= merged[Len(merged)][2] + 1
Merge ==
  LET last == merged[Len(merged)]
  IN  /\ phase = "merge" /\ i <= Len(hits)
      /\ merged' = IF Extends(hits[i])
                   THEN [merged EXCEPT ![Len(merged)] = <<last[1], Larger(last[2], hits[i][2])>>]
                   ELSE Append(merged, hits[i])
      /\ i' = i + 1
      /\ UNCHANGED <<impl, phase, tables, bfs, input, scan, answer, prev>>

Merged ==
  /\ phase = "merge" /\ i > Len(hits)
  /\ phase' = "replace" /\ i' = 1
  /\ UNCHANGED <<impl, tables, bfs, input, scan, result>>

\* A slice of the text, from position `first` to `last`.
Slice(first, last) == SubSeq(text, first, Smaller(last, Len(text)))

Replace ==
  /\ phase = "replace" /\ i <= Len(merged)
  /\ answer' = answer \o Slice(prev, merged[i][1] - 1) \o <<Stars>>
  /\ prev' = merged[i][2] + 1
  /\ i' = i + 1
  /\ UNCHANGED <<impl, phase, tables, bfs, input, scan, merged>>

Rest ==
  /\ phase = "replace" /\ i > Len(merged)
  /\ answer' = answer \o Slice(prev, Len(text))
  /\ phase' = "done"
  /\ UNCHANGED <<impl, i, tables, bfs, input, scan, merged, prev>>

\* The caller has the answer and may call again.
Return ==
  /\ phase = "done"
  /\ phase' = "idle" /\ i' = 1
  /\ text' = <<>> /\ lower' = <<>> /\ node' = Root /\ hits' = <<>>
  /\ merged' = <<>> /\ answer' = <<>> /\ prev' = 1
  /\ UNCHANGED <<impl, tables, bfs>>

LoadStep == (\E p \in Nodes : QueueFirst(p) \/ NextChild(p)) \/ PopLeft \/ FollowFail \/ Link \/ Loaded
ScanStep == DFAStep \/ FallBack \/ ACStep \/ Scanned
ReplaceStep == Merge \/ Merged \/ Replace \/ Rest

FilterNext ==
  \/ \E W \in Batches : LoadTrie(W) \/ LoadWords(W)
  \/ LoadStep
  \/ \E c \in Letters : Type(c)
  \/ Call \/ ScanStep \/ ReplaceStep \/ Return

FilterSpec == FilterInit /\ [][FilterNext]_filterVars

-----------------------------------------------------------------------------
\* Reference definitions.

\* Positions of lower inside some occurrence of a word, or inside some hit.
Occurrences == {x \in (1..Len(lower)) \X (1..Len(lower)) :
                  x[1] <= x[2] /\ SubSeq(lower, x[1], x[2]) \in words}
Covered == UNION {x[1]..x[2] : x \in Occurrences}
CoveredByHits == UNION {hits[n][1]..hits[n][2] : n \in DOMAIN hits}

\* Each character of the text is one in lower case, so that positions agree.
Aligned == \A k \in DOMAIN text : Len(Lower[text[k]]) = 1
HitsInOrder == \A m, n \in DOMAIN hits : m < n => hits[m][1] <= hits[n][1]

\* What an answer shows: each character outside of all words, and for a run
\* of characters inside words its first, as "***"; in the order of the text.
Shown == {k \in DOMAIN text : k \notin Covered \/ k - 1 \notin Covered}
Place(k) == Cardinality({j \in Shown : j <= k})
Expected(t) ==
  /\ Len(t) = Cardinality(Shown)
  /\ \A k \in Shown : t[Place(k)] = IF k \in Covered THEN Stars ELSE text[k]

-----------------------------------------------------------------------------
\* Both filters find the positions inside occurrences of words, and no others
\* (sensitive.py:97-116 and 174-184), also after a second load.
FindsAll == phase = "merge" => CoveredByHits = Covered

\* The answer hides these, each run of them by one "***", and nothing else:
\* always the DFA's, the automaton's if no hit begins before an earlier one
\* (_replace_hits, sensitive.py:36-60).
HidesWords ==
  phase = "done" /\ Aligned /\ (impl = "dfa" \/ HitsInOrder) => Expected(answer)
=============================================================================
